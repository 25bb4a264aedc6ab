-------------------------- MODULE StreamPipeProofs --------------------------
(***************************************************************************)
(* Proofs about StreamPipe: what a reader may conclude from the payloads   *)
(* it takes and from the end of the stream.                                *)
(***************************************************************************)
EXTENDS StreamPipe, TLAPS

LEMMA TypeOKStep == TypeOK /\ [Next]_vars => TypeOK'
<1> SUFFICES ASSUME TypeOK, [Next]_vars PROVE TypeOK'
  OBVIOUS
<1> USE DEF TypeOK
<1>1. ASSUME NEW s \in Stream, Put(s) PROVE TypeOK'
  <2>1. Append(pipe[s], count[s] + 1) \in Seq(Nat)
    OBVIOUS
  <2> QED
    BY <1>1, <2>1 DEF Put
<1>2. ASSUME NEW s \in Stream, Take(s) PROVE TypeOK'
  <2>1. Head(pipe[s]) \in Nat /\ Tail(pipe[s]) \in Seq(Nat)
    BY <1>2 DEF Take
  <2> QED
    BY <1>2, <2>1 DEF Take
<1>3. ASSUME NEW s \in Stream, Cut(s) PROVE TypeOK'
  <2>1. \A n \in 0..Len(pipe[s]) : SubSeq(pipe[s], 1, n) \in Seq(Nat)
    OBVIOUS
  <2> QED
    BY <1>3, <2>1 DEF Cut
<1>4. ASSUME NEW s \in Stream, Shut(s) \/ End(s) PROVE TypeOK'
  BY <1>4 DEF Shut, End
<1>5. CASE UNCHANGED vars
  BY <1>5 DEF vars
<1> QED
  BY <1>1, <1>2, <1>3, <1>4, <1>5 DEF Next

(* One stream of InOrder.                                                  *)
InOrderAt(s) ==
  /\ \A k \in 1..Len(pipe[s]) : pipe[s][k] = last[s] + k
  /\ last[s] + Len(pipe[s]) <= count[s]
  /\ s \notin cut => last[s] + Len(pipe[s]) = count[s]

(* A stream that is not acted on keeps its order.                          *)
LEMMA OtherStream ==
  ASSUME NEW s, InOrderAt(s), pipe'[s] = pipe[s], last'[s] = last[s],
         count'[s] = count[s], cut \subseteq cut'
  PROVE  InOrderAt(s)'
BY DEF InOrderAt

LEMMA InOrderStep == TypeOK /\ InOrder /\ [Next]_vars => InOrder'
<1> SUFFICES ASSUME TypeOK, InOrder, [Next]_vars, NEW t \in Stream
             PROVE  InOrderAt(t)'
  BY DEF InOrder, InOrderAt
<1>0. /\ pipe \in [Stream -> Seq(Nat)] /\ pipe[t] \in Seq(Nat)
      /\ Len(pipe[t]) \in Nat
      /\ count \in [Stream -> Nat] /\ last \in [Stream -> Nat]
      /\ InOrderAt(t)
  BY DEF TypeOK, InOrder, InOrderAt
<1>1. ASSUME NEW s \in Stream, Put(s) PROVE InOrderAt(t)'
  <2>1. CASE s # t \/ s \in cut
    <3>1. pipe'[t] = pipe[t] /\ last'[t] = last[t] /\ cut' = cut
      BY <1>0, <1>1, <2>1 DEF Put
    <3>2. count'[t] = count[t] \/ (t \in cut /\ count'[t] = count[t] + 1)
      BY <1>0, <1>1, <2>1 DEF Put
    <3> QED
      BY <1>0, <3>1, <3>2 DEF InOrderAt
  <2>2. CASE s = t /\ s \notin cut
    <3>1. /\ pipe'[t] = Append(pipe[t], count[t] + 1)
          /\ count'[t] = count[t] + 1 /\ last'[t] = last[t] /\ cut' = cut
      BY <1>0, <1>1, <2>2 DEF Put
    <3>2. last[t] + Len(pipe[t]) = count[t]
      BY <1>0, <2>2 DEF InOrderAt
    <3>3. Len(pipe'[t]) = Len(pipe[t]) + 1
      BY <1>0, <3>1
    <3>4. \A k \in 1..Len(pipe'[t]) : pipe'[t][k] = last[t] + k
      BY <1>0, <3>1, <3>2, <3>3 DEF InOrderAt
    <3> QED
      BY <1>0, <3>1, <3>2, <3>3, <3>4 DEF InOrderAt
  <2> QED
    BY <2>1, <2>2
<1>2. ASSUME NEW s \in Stream, Take(s) PROVE InOrderAt(t)'
  <2>1. CASE s # t
    BY <1>0, <1>2, <2>1, OtherStream DEF Take
  <2>2. CASE s = t
    <3>1. /\ pipe[t] # <<>> /\ pipe'[t] = Tail(pipe[t])
          /\ last'[t] = Head(pipe[t]) /\ UNCHANGED <<count, cut>>
      BY <1>0, <1>2, <2>2 DEF Take
    <3>2. last'[t] = last[t] + 1
      <4>1. Len(pipe[t]) # 0 /\ Head(pipe[t]) = pipe[t][1]
        BY <1>0, <3>1
      <4>2. 1 \in 1..Len(pipe[t])
        BY <1>0, <4>1
      <4> QED
        BY <1>0, <3>1, <4>1, <4>2 DEF InOrderAt
    <3>3. /\ Len(pipe'[t]) = Len(pipe[t]) - 1
          /\ \A k \in 1..Len(pipe'[t]) : pipe'[t][k] = pipe[t][k + 1]
      BY <1>0, <3>1
    <3>4. ASSUME NEW k \in 1..Len(pipe'[t])
          PROVE  pipe'[t][k] = last'[t] + k
      <4>1. k + 1 \in 1..Len(pipe[t])
        BY <1>0, <3>3
      <4>2. pipe[t][k + 1] = last[t] + (k + 1)
        BY <1>0, <4>1 DEF InOrderAt
      <4>3. last[t] \in Nat /\ k \in Nat
        BY <1>0
      <4>4. pipe'[t][k] = last[t] + (k + 1)
        BY <3>3, <4>2
      <4> QED
        BY <3>2, <4>3, <4>4
    <3>5. /\ count'[t] = count[t] /\ cut' = cut /\ Len(pipe'[t]) \in Nat
          /\ last[t] \in Nat /\ count[t] \in Nat
      BY <1>0, <3>1, <3>3
    <3>6. last'[t] + Len(pipe'[t]) = last[t] + Len(pipe[t])
      BY <1>0, <3>2, <3>3, <3>5
    <3> QED
      BY <1>0, <3>4, <3>5, <3>6 DEF InOrderAt
  <2> QED
    BY <2>1, <2>2
<1>3. ASSUME NEW s \in Stream, Cut(s) PROVE InOrderAt(t)'
  <2>1. CASE s # t
    BY <1>0, <1>3, <2>1, OtherStream DEF Cut
  <2>2. CASE s = t
    <3>1. PICK n \in 0..Len(pipe[t]) : pipe'[t] = SubSeq(pipe[t], 1, n)
      BY <1>0, <1>3, <2>2 DEF Cut
    <3>2. /\ Len(pipe'[t]) = n
          /\ \A k \in 1..n : pipe'[t][k] = pipe[t][k]
      BY <1>0, <3>1
    <3>3. UNCHANGED <<last, count>> /\ t \in cut'
      BY <1>3, <2>2 DEF Cut
    <3> QED
      BY <1>0, <3>1, <3>2, <3>3 DEF InOrderAt
  <2> QED
    BY <2>1, <2>2
<1>4. ASSUME NEW s \in Stream, Shut(s) \/ End(s) PROVE InOrderAt(t)'
  BY <1>0, <1>4, OtherStream DEF Shut, End
<1>5. CASE UNCHANGED vars
  BY <1>0, <1>5, OtherStream DEF vars
<1> QED
  BY <1>1, <1>2, <1>3, <1>4, <1>5 DEF Next

(* A stream whose end was seen and that the client did not close is empty, *)
(* and the server sends no more on it.                                     *)
EndInv == \A s \in ended \ cut : s \in shut /\ pipe[s] = <<>>

LEMMA EndInvStep == TypeOK /\ EndInv /\ [Next]_vars => EndInv'
<1> SUFFICES ASSUME TypeOK, EndInv, [Next]_vars PROVE EndInv'
  OBVIOUS
<1>0. pipe \in [Stream -> Seq(Nat)] /\ ended \subseteq Stream
  BY DEF TypeOK
<1>1. ASSUME NEW s \in Stream, Put(s) \/ Take(s) PROVE EndInv'
  BY <1>0, <1>1 DEF EndInv, Put, Take
<1>2. ASSUME NEW s \in Stream, Cut(s) PROVE EndInv'
  BY <1>0, <1>2 DEF EndInv, Cut
<1>3. ASSUME NEW s \in Stream, Shut(s) \/ End(s) PROVE EndInv'
  BY <1>0, <1>3 DEF EndInv, Shut, End
<1>4. CASE UNCHANGED vars
  BY <1>4 DEF EndInv, vars
<1> QED
  BY <1>1, <1>2, <1>3, <1>4 DEF Next

LEMMA InvInit == Init => TypeOK /\ InOrder /\ EndInv
BY DEF Init, TypeOK, InOrder, EndInv

(* The reader of a stream takes the server's payloads in order and without *)
(* a gap: what it has taken is a prefix of what was sent.                  *)
THEOREM PipeInOrder == Spec => []InOrder
<1>1. TypeOK /\ InOrder /\ [Next]_vars => (TypeOK /\ InOrder)'
  BY TypeOKStep, InOrderStep
<1> QED
  BY <1>1, InvInit, PTL DEF Spec

(* The end of a stream that the client did not close means that the reader *)
(* has taken all that the server ever sent on it.                          *)
THEOREM PipeEndIsComplete == Spec => []EndIsComplete
<1>1. TypeOK /\ InOrder /\ EndInv /\ [Next]_vars
        => (TypeOK /\ InOrder /\ EndInv)'
  BY TypeOKStep, InOrderStep, EndInvStep
<1>2. TypeOK /\ InOrder /\ EndInv => EndIsComplete
  <2> SUFFICES ASSUME TypeOK, InOrder, EndInv, NEW s \in ended \ cut
               PROVE  last[s] = count[s]
    BY DEF EndIsComplete
  <2>1. s \in Stream /\ last[s] \in Nat
    BY DEF TypeOK
  <2>2. last[s] + Len(pipe[s]) = count[s] /\ pipe[s] = <<>>
    BY <2>1 DEF InOrder, EndInv
  <2>3. Len(pipe[s]) = 0
    BY <2>2
  <2> QED
    BY <2>1, <2>2, <2>3
<1> QED
  BY <1>1, <1>2, InvInit, PTL DEF Spec

=============================================================================
