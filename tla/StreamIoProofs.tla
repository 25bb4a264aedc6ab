--------------------------- MODULE StreamIoProofs ---------------------------
(***************************************************************************)
(* StreamIo for every threshold, payload length, credit and caller.        *)
(***************************************************************************)
EXTENDS StreamIo, SequenceTheorems, TLAPS

(* A sequence without a gap, one that has the numbers up to n, and one     *)
(* that is made of them in order.                                          *)
Gapless(s) ==
  \A k \in 1..Len(s) : s[k] = 1 \/ \E j \in 1..(k - 1) : s[j] = s[k] - 1
Covers(s, n) == \A m \in 1..n : \E k \in 1..Len(s) : s[k] = m
Counts(s) == \A k \in 1..Len(s) : s[k] = k

LEMMA BytesAreASeq ==
  ASSUME NEW lo \in Nat, NEW n \in Nat
  PROVE  /\ Bytes(lo, n) \in Seq(Nat) /\ Len(Bytes(lo, n)) = n
         /\ \A k \in 1..n : Bytes(lo, n)[k] = lo + k
<1>1. \A k \in 1..n : lo + k \in Nat
  OBVIOUS
<1>2. Bytes(lo, n) \in [1..n -> Nat]
  BY <1>1 DEF Bytes
<1>3. Bytes(lo, n) \in Seq(Nat)
  BY <1>2, SeqDef
<1>4. DOMAIN Bytes(lo, n) = 1..n
  BY DEF Bytes
<1>. QED  BY <1>3, <1>4, LenProperties DEF Bytes

LEMMA ThreeParts ==
  ASSUME NEW r \in Seq(Nat), NEW s \in Seq(Nat), NEW t \in Seq(Nat)
  PROVE  r \o (s \o t) = (r \o s) \o t
<1>. DEFINE left == r \o (s \o t)
            right == (r \o s) \o t
<1>1. /\ s \o t \in Seq(Nat) /\ r \o s \in Seq(Nat)
      /\ left \in Seq(Nat) /\ right \in Seq(Nat)
  BY ConcatProperties
<1>2. /\ Len(r) \in Nat /\ Len(s) \in Nat /\ Len(t) \in Nat
      /\ Len(s \o t) = Len(s) + Len(t) /\ Len(r \o s) = Len(r) + Len(s)
      /\ Len(left) = Len(r) + Len(s) + Len(t) /\ Len(right) = Len(left)
  BY <1>1, ConcatProperties, LenProperties
<1>3. ASSUME NEW k \in 1..Len(left) PROVE left[k] = right[k]
  <2>1. CASE k <= Len(r)
    BY <1>1, <1>2, <2>1
  <2>2. CASE k > Len(r) /\ k <= Len(r) + Len(s)
    BY <1>1, <1>2, <2>2
  <2>3. CASE k > Len(r) + Len(s)
    BY <1>1, <1>2, <2>3
  <2>. QED  BY <1>2, <2>1, <2>2, <2>3
<1>. HIDE DEF left, right
<1>4. left = right
  BY <1>1, <1>2, <1>3, SeqEqual
<1>. QED  BY <1>4 DEF left, right

(* A part that is cut off behind leaves no gap.                            *)
LEMMA PrefixKeeps ==
  ASSUME NEW s \in Seq(Nat), NEW t \in Seq(Nat)
  PROVE  /\ Gapless(s \o t) => Gapless(s)
         /\ Counts(s \o t) => Counts(s)
         /\ \A n \in Nat : Covers(s, n) => Covers(s \o t, n)
<1>1. /\ Len(s) \in Nat /\ Len(t) \in Nat /\ Len(s \o t) = Len(s) + Len(t)
      /\ \A k \in 1..Len(s) : k \in 1..Len(s \o t) /\ (s \o t)[k] = s[k]
  BY ConcatProperties
<1>2. ASSUME Gapless(s \o t) PROVE Gapless(s)
  <2>. SUFFICES ASSUME NEW k \in 1..Len(s), s[k] # 1
                PROVE  \E j \in 1..(k - 1) : s[j] = s[k] - 1
    BY DEF Gapless
  <2>1. PICK j \in 1..(k - 1) : (s \o t)[j] = (s \o t)[k] - 1
    BY <1>1, <1>2 DEF Gapless
  <2>2. j \in 1..Len(s)
    BY <1>1
  <2>. QED  BY <1>1, <2>1, <2>2
<1>3. Counts(s \o t) => Counts(s)
  BY <1>1 DEF Counts
<1>4. \A n \in Nat : Covers(s, n) => Covers(s \o t, n)
  BY <1>1 DEF Covers
<1>. QED  BY <1>2, <1>3, <1>4

(* The next bytes, behind the last one or as a repetition of bytes that    *)
(* are there, leave no gap.                                                *)
LEMMA BytesExtend ==
  ASSUME NEW s \in Seq(Nat), NEW lo \in Nat, NEW n \in Nat,
         Gapless(s), Covers(s, lo)
  PROVE  /\ Gapless(s \o Bytes(lo, n)) /\ Covers(s \o Bytes(lo, n), lo + n)
         /\ Covers(s \o Bytes(lo, n), lo)
         /\ Counts(s) /\ Len(s) = lo => Counts(s \o Bytes(lo, n))
<1>. DEFINE b == Bytes(lo, n)
            t == s \o b
<1>1. b \in Seq(Nat) /\ Len(b) = n /\ \A k \in 1..n : b[k] = lo + k
  BY BytesAreASeq
<1>. HIDE DEF b, t
<1>2. /\ Len(s) \in Nat /\ Len(t) = Len(s) + n /\ t \in Seq(Nat)
      /\ \A k \in 1..Len(s) : t[k] = s[k]
      /\ \A k \in 1..n : t[Len(s) + k] = lo + k
  <2>1. /\ Len(t) = Len(s) + Len(b) /\ t \in Seq(Nat)
        /\ \A k \in 1..(Len(s) + Len(b)) :
             t[k] = IF k <= Len(s) THEN s[k] ELSE b[k - Len(s)]
    <3>. USE <1>1
    <3>. QED  BY ConcatProperties DEF t
  <2>2. Len(s) \in Nat
    OBVIOUS
  <2>3. ASSUME NEW k \in 1..n PROVE t[Len(s) + k] = lo + k
    <3>1. /\ Len(s) + k \in 1..(Len(s) + Len(b))
          /\ ~(Len(s) + k <= Len(s)) /\ Len(s) + k - Len(s) = k
      BY <1>1, <2>2
    <3>2. t[Len(s) + k] = b[Len(s) + k - Len(s)]
      BY <2>1, <3>1
    <3>. QED  BY <1>1, <3>1, <3>2
  <2>4. ASSUME NEW k \in 1..Len(s) PROVE t[k] = s[k]
    BY <1>1, <2>1, <2>2
  <2>. QED  BY <1>1, <2>1, <2>2, <2>3, <2>4
<1>3. Gapless(t)
  <2>. SUFFICES ASSUME NEW k \in 1..Len(t), t[k] # 1
                PROVE  \E j \in 1..(k - 1) : t[j] = t[k] - 1
    BY DEF Gapless
  <2>1. CASE k <= Len(s)
    <3>1. k \in 1..Len(s) /\ s[k] # 1 /\ t[k] = s[k]
      BY <1>2, <2>1
    <3>2. PICK j \in 1..(k - 1) : s[j] = s[k] - 1
      BY <3>1 DEF Gapless
    <3>3. j \in 1..Len(s)
      BY <2>1, <1>2
    <3>. QED  BY <1>2, <3>1, <3>2, <3>3
  <2>2. CASE k = Len(s) + 1
    <3>1. 1 \in 1..n /\ t[k] = lo + 1
      BY <1>2, <2>2
    <3>2. lo \in 1..lo
      BY <3>1
    <3>3. PICK j \in 1..Len(s) : s[j] = lo
      BY <3>2 DEF Covers
    <3>. QED  BY <1>2, <2>2, <3>1, <3>3
  <2>3. CASE k > Len(s) + 1
    <3>1. k - Len(s) \in 1..n /\ k - Len(s) - 1 \in 1..n
      BY <1>2, <2>3
    <3>2. t[Len(s) + (k - Len(s))] = lo + (k - Len(s))
      BY <1>2, <3>1
    <3>3. t[Len(s) + (k - Len(s) - 1)] = lo + (k - Len(s) - 1)
      BY <1>2, <3>1
    <3>4. Len(s) + (k - Len(s)) = k /\ Len(s) + (k - Len(s) - 1) = k - 1
      BY <1>2
    <3>5. t[k - 1] = t[k] - 1
      BY <1>2, <3>2, <3>3, <3>4
    <3>6. k - 1 \in 1..(k - 1)
      BY <1>2, <2>3
    <3>. QED  BY <3>5, <3>6
  <2>. QED  BY <1>2, <2>1, <2>2, <2>3
<1>4. Covers(t, lo) /\ Covers(t, lo + n)
  <2>1. Covers(t, lo)
    <3>. SUFFICES ASSUME NEW m \in 1..lo PROVE \E k \in 1..Len(t) : t[k] = m
      BY DEF Covers
    <3>1. PICK k \in 1..Len(s) : s[k] = m
      BY DEF Covers
    <3>2. k \in 1..Len(t) /\ t[k] = m
      BY <1>2, <3>1
    <3>. QED  BY <3>2
  <2>2. ASSUME NEW m \in (lo + 1)..(lo + n) PROVE \E k \in 1..Len(t) : t[k] = m
    <3>1. m - lo \in 1..n /\ lo + (m - lo) = m /\ Len(s) + (m - lo) \in 1..Len(t)
      BY <1>2
    <3>. QED  BY <1>2, <3>1
  <2>. QED  BY <2>1, <2>2 DEF Covers
<1>5. Counts(s) /\ Len(s) = lo => Counts(t)
  <2>. SUFFICES ASSUME Counts(s), Len(s) = lo, NEW k \in 1..Len(t)
                PROVE  t[k] = k
    BY DEF Counts
  <2>1. CASE k <= Len(s)
    BY <1>2, <2>1 DEF Counts
  <2>2. CASE k > Len(s)
    <3>1. k - Len(s) \in 1..n /\ Len(s) + (k - Len(s)) = k
      BY <1>2, <2>2
    <3>. QED  BY <1>2, <3>1
  <2>. QED  BY <1>2, <2>1, <2>2
<1>. QED  BY <1>3, <1>4, <1>5 DEF t, b

-----------------------------------------------------------------------------
(* The invariant of the write half.                                        *)
FutType == [at : {"none", "credit", "transport"}, data : Seq(Nat)]
TypeOK ==
  /\ caller \in Callers /\ op \in {"none", "write", "flush", "failed"}
  /\ wbuf \in Seq(Nat) /\ wire \in Seq(Nat) /\ fut \in FutType
  /\ fut.at = "none" <=> fut = NoFut
  /\ credit \in Nat /\ link \in {"up", "down"} /\ dropped \in BOOLEAN
  /\ written \in Nat /\ flushed \in Nat /\ flushed <= written

(* Nothing waits in the buffer behind a send in flight, so what is on its  *)
(* way is either of the two.                                               *)
NothingBehindSend == fut # NoFut => wbuf = <<>>
Pending == IF fut # NoFut THEN fut.data ELSE wbuf

(* A caller that has had no error has all its bytes on their way.          *)
AllOnTheWay ==
  op # "failed" /\ ~dropped => Covers(wire \o Pending, written)

Careful == caller.flushes /\ caller.chunk < Threshold
CarefulInv ==
  Careful =>
    /\ Counts(wire \o Pending) /\ op # "write"
    /\ op # "failed" /\ ~dropped =>
         /\ Len(wire \o Pending) = written
         /\ written = flushed => fut = NoFut /\ wbuf = <<>>

(* All this while the link works.  Of a dead link it is enough that what   *)
(* has gone out is all that ever goes out.                                 *)
LiveInv ==
  /\ TypeOK /\ NothingBehindSend /\ AllOnTheWay /\ CarefulInv
  /\ Gapless(wire \o Pending) /\ Covers(wire, flushed)

CarefulRests ==
  Careful =>
    /\ op # "write"
    /\ op # "failed" /\ ~dropped /\ written = flushed => fut = NoFut /\ wbuf = <<>>
WireInv ==
  /\ TypeOK /\ NothingBehindSend /\ CarefulRests
  /\ Gapless(wire) /\ (Careful => Counts(wire))

WriteInv == WireInv /\ (link = "up" => LiveInv)

-----------------------------------------------------------------------------
(* What a poll does with the data that is on its way.  Over a working link *)
(* it goes out, stays, or is lost with the future that had it; over a dead *)
(* one nothing goes out, whatever the poll returns.                        *)
Polled(o, w, d) ==
  /\ o.buf = <<>> /\ o.credit \in Nat /\ o.fut \in FutType
  /\ o.fut.at = "none" <=> o.fut = NoFut
  /\ \/ o.res = "ok" /\ o.fut = NoFut /\ o.wire = w \o d
     \/ o.res = "pending" /\ o.fut # NoFut /\ o.fut.data = d /\ o.wire = w
     \/ o.res = "err" /\ o.fut = NoFut /\ o.wire = w
Silent(o, w) ==
  /\ o.wire = w /\ o.credit \in Nat /\ o.buf \in Seq(Nat) /\ o.fut \in FutType
  /\ o.fut.at = "none" <=> o.fut = NoFut
  /\ o.fut # NoFut => o.buf = <<>>
  /\ o.res \in {"ok", "pending", "err"}
Moved(o, w, d) ==
  /\ link = "up" => Polled(o, w, d)
  /\ link = "down" => Silent(o, w) /\ o.buf = <<>> /\ (o.res = "ok" => o.fut = NoFut)

LEMMA PollSendMoves ==
  ASSUME NEW f \in FutType, f.at # "none", NEW c \in Nat, NEW w \in Seq(Nat),
         link \in {"up", "down"}, NEW o \in PollSend(f, <<>>, c, w)
  PROVE  Moved(o, w, f.data)
<1>1. /\ <<>> \in Seq(Nat)
      /\ NoFut \in FutType /\ NoFut.at = "none" /\ NoFut.data = <<>>
      /\ Fut("transport", f.data) \in FutType
      /\ Fut("transport", f.data).at = "transport"
      /\ Fut("transport", f.data).data = f.data
  BY DEF NoFut, Fut, FutType
<1>2. ASSUME NEW d \in Nat, NEW p \in Transmit(f.data, <<>>, d, w)
      PROVE  Moved(p, w, f.data)
  <2>1. CASE link = "up"
    BY <1>1, <1>2, <2>1 DEF Transmit, Outcome, Polled, Moved
  <2>2. CASE link = "down"
    <3>1. \/ p = Outcome("pending", Fut("transport", f.data), <<>>, d, w)
          \/ \E res \in {"ok", "err"} : p = Outcome(res, NoFut, <<>>, d, w)
      BY <1>2, <2>2 DEF Transmit
    <3>2. Fut("transport", f.data) # NoFut
      BY <1>1
    <3>3. CASE p = Outcome("pending", Fut("transport", f.data), <<>>, d, w)
      BY <1>1, <1>2, <2>2, <3>2, <3>3 DEF Outcome, Silent, Moved
    <3>4. ASSUME NEW res \in {"ok", "err"}, p = Outcome(res, NoFut, <<>>, d, w)
          PROVE  Moved(p, w, f.data)
      BY <1>1, <1>2, <2>2, <3>4 DEF Outcome, Silent, Moved
    <3>. QED  BY <3>1, <3>3, <3>4
  <2>. QED  BY <2>1, <2>2
<1>3. CASE f.at = "transport"
  BY <1>2, <1>3 DEF PollSend
<1>4. CASE f.at = "credit" /\ ~entry
  <2>1. o = Outcome("err", NoFut, <<>>, c, w)
    BY <1>4 DEF PollSend
  <2>. QED  BY <1>1, <2>1 DEF Outcome, Polled, Silent, Moved
<1>5. CASE f.at = "credit" /\ entry /\ c = 0
  <2>1. o = Outcome("pending", f, <<>>, c, w)
    BY <1>5 DEF PollSend
  <2>. QED  BY <1>1, <1>5, <2>1 DEF Outcome, Polled, Silent, Moved
<1>6. CASE f.at = "credit" /\ entry /\ c > 0
  <2>1. o \in Transmit(f.data, <<>>, c - 1, w)
    BY <1>6 DEF PollSend
  <2>. QED  BY <1>2, <1>6, <2>1
<1>. QED  BY <1>3, <1>4, <1>5, <1>6 DEF FutType

LEMMA StartSendMoves ==
  ASSUME NEW buf \in Seq(Nat), NEW c \in Nat, NEW w \in Seq(Nat),
         link \in {"up", "down"}, NEW o \in StartSend(buf, c, w)
  PROVE  Moved(o, w, buf)
<1>1. /\ Fut("credit", buf) \in FutType /\ Fut("credit", buf).at = "credit"
      /\ Fut("credit", buf).data = buf
  BY DEF Fut, FutType
<1>. QED  BY <1>1, PollSendMoves DEF StartSend

LEMMA FlushBufMoves ==
  ASSUME TypeOK, NothingBehindSend, NEW o \in FlushBuf(fut, wbuf, credit, wire)
  PROVE  Moved(o, wire, Pending)
<1>. USE DEF TypeOK
<1>1. CASE fut # NoFut
  <2>1. wbuf = <<>> /\ Pending = fut.data /\ fut.at # "none"
    BY <1>1 DEF NothingBehindSend, Pending
  <2>2. o \in PollSend(fut, <<>>, credit, wire)
    BY <1>1, <2>1 DEF FlushBuf
  <2>. QED  BY <2>1, <2>2, PollSendMoves
<1>2. CASE fut = NoFut /\ wbuf # <<>>
  <2>1. Pending = wbuf /\ o \in StartSend(wbuf, credit, wire)
    BY <1>2 DEF FlushBuf, Pending
  <2>. QED  BY <2>1, StartSendMoves
<1>3. CASE fut = NoFut /\ wbuf = <<>>
  <2>1. Pending = <<>> /\ o = Outcome("ok", NoFut, wbuf, credit, wire)
    BY <1>3 DEF FlushBuf, Pending
  <2>2. wire \o Pending = wire
    BY <2>1, ConcatEmptySeq
  <2>3. NoFut.at = "none" /\ NoFut \in FutType
    BY DEF NoFut, FutType
  <2>. QED  BY <1>3, <2>1, <2>2, <2>3 DEF Outcome, Polled, Silent, Moved
<1>. QED  BY <1>1, <1>2, <1>3

(* A poll of write over a working link either drives the send in flight    *)
(* and takes nothing, or takes the data behind all that was on its way.    *)
Buffered(o, w, d) ==
  /\ o.res = "ok" /\ o.fut = NoFut /\ o.wire = w /\ o.buf = d
  /\ o.credit \in Nat

LEMMA PollWriteMoves ==
  ASSUME LiveInv, link = "up", NEW data \in Seq(Nat), NEW o \in PollWrite(data)
  PROVE  \/ o.res # "ok" /\ fut # NoFut /\ Polled(o, wire, Pending)
         \/ \E w, b \in Seq(Nat) :
              /\ w \o b = wire \o Pending
              /\ w = wire \/ w = wire \o Pending
              /\ \/ Polled(o, w, b \o data) /\ Len(b \o data) >= Threshold
                 \/ Buffered(o, w, b \o data)
              /\ fut = NoFut => w = wire /\ b = wbuf
<1>. USE DEF LiveInv, TypeOK
<1>1. ASSUME NEW w \in Seq(Nat), NEW b \in Seq(Nat), NEW c \in Nat, NEW p,
             p.res = "ok", p.buf = b, p.wire = w, p.credit = c, p.fut = NoFut,
             o \in (IF p.res # "ok" THEN {p}
                    ELSE IF Len(p.buf \o data) >= Threshold
                      THEN StartSend(p.buf \o data, p.credit, p.wire)
                      ELSE {Outcome("ok", p.fut, p.buf \o data, p.credit, p.wire)})
      PROVE  \/ Polled(o, w, b \o data) /\ Len(b \o data) >= Threshold
             \/ Buffered(o, w, b \o data)
  <2>1. b \o data \in Seq(Nat)
    BY ConcatProperties
  <2>2. CASE Len(b \o data) >= Threshold
    <3>1. o \in StartSend(b \o data, c, w)
      BY <1>1, <2>2
    <3>. QED  BY <2>1, <2>2, <3>1, StartSendMoves DEF Moved
  <2>3. CASE ~(Len(b \o data) >= Threshold)
    <3>1. o = Outcome("ok", NoFut, b \o data, c, w)
      BY <1>1, <2>3
    <3>. QED  BY <3>1 DEF Outcome, Buffered
  <2>. QED  BY <2>2, <2>3
<1>2. CASE fut = NoFut
  <2>1. o \in (IF Len(wbuf \o data) >= Threshold
                 THEN StartSend(wbuf \o data, credit, wire)
                 ELSE {Outcome("ok", fut, wbuf \o data, credit, wire)})
    BY <1>2 DEF PollWrite, Outcome
  <2>2. \/ Polled(o, wire, wbuf \o data) /\ Len(wbuf \o data) >= Threshold
        \/ Buffered(o, wire, wbuf \o data)
    <3>. DEFINE p == Outcome("ok", fut, wbuf, credit, wire)
    <3>1. /\ p.res = "ok" /\ p.buf = wbuf /\ p.wire = wire
          /\ p.credit = credit /\ p.fut = NoFut
      BY <1>2 DEF Outcome
    <3>. HIDE DEF p
    <3>. QED  BY <1>1, <1>2, <2>1, <3>1
  <2>3. Pending = wbuf
    BY <1>2 DEF Pending
  <2>. QED  BY <1>2, <2>2, <2>3
<1>3. CASE fut # NoFut
  <2>1. PICK p \in FlushBuf(fut, wbuf, credit, wire) :
          o \in (IF p.res # "ok" THEN {p}
                 ELSE IF Len(p.buf \o data) >= Threshold
                   THEN StartSend(p.buf \o data, p.credit, p.wire)
                   ELSE {Outcome("ok", p.fut, p.buf \o data, p.credit, p.wire)})
    BY <1>3 DEF PollWrite
  <2>2. Polled(p, wire, Pending)
    BY FlushBufMoves DEF Moved
  <2>3. CASE p.res # "ok"
    BY <1>3, <2>1, <2>2, <2>3
  <2>4. CASE p.res = "ok"
    <3>1. /\ p.buf = <<>> /\ p.credit \in Nat /\ p.fut = NoFut
          /\ p.wire = wire \o Pending
      BY <2>2, <2>4 DEF Polled
    <3>2. wire \o Pending \in Seq(Nat) /\ <<>> \in Seq(Nat)
      BY ConcatProperties DEF Pending, FutType
    <3>3. (wire \o Pending) \o <<>> = wire \o Pending
      BY <3>2, ConcatEmptySeq
    <3>4. \/ Polled(o, wire \o Pending, <<>> \o data) /\ Len(<<>> \o data) >= Threshold
          \/ Buffered(o, wire \o Pending, <<>> \o data)
      BY <1>1, <2>1, <2>4, <3>1, <3>2
    <3>. QED  BY <1>3, <3>2, <3>3, <3>4
  <2>. QED  BY <2>3, <2>4
<1>. QED  BY <1>2, <1>3

LEMMA PollWriteSilent ==
  ASSUME TypeOK, NothingBehindSend, link = "down", NEW data \in Seq(Nat),
         NEW o \in PollWrite(data)
  PROVE  /\ Silent(o, wire)
         /\ fut = NoFut /\ Len(wbuf \o data) < Threshold => o.res = "ok"
<1>. USE DEF TypeOK
<1>1. NoFut \in FutType /\ NoFut.at = "none"
  BY DEF NoFut, FutType
<1>2. ASSUME NEW b \in Seq(Nat), NEW c \in Nat,
             o \in (IF Len(b \o data) >= Threshold
                      THEN StartSend(b \o data, c, wire)
                      ELSE {Outcome("ok", NoFut, b \o data, c, wire)})
      PROVE  Silent(o, wire) /\ (Len(b \o data) < Threshold => o.res = "ok")
  <2>1. b \o data \in Seq(Nat) /\ Len(b \o data) \in Nat
    BY ConcatProperties
  <2>2. CASE Len(b \o data) >= Threshold
    <3>1. o \in StartSend(b \o data, c, wire)
      BY <1>2, <2>2
    <3>2. Moved(o, wire, b \o data)
      BY <2>1, <3>1, StartSendMoves
    <3>3. ~(Len(b \o data) < Threshold)
      BY <2>1, <2>2, ConstantsAssumption
    <3>. QED  BY <3>2, <3>3 DEF Moved
  <2>3. CASE ~(Len(b \o data) >= Threshold)
    <3>1. o = Outcome("ok", NoFut, b \o data, c, wire)
      BY <1>2, <2>3
    <3>. QED  BY <1>1, <2>1, <3>1 DEF Outcome, Silent
  <2>. QED  BY <2>2, <2>3
<1>3. CASE fut = NoFut
  <2>1. o \in (IF Len(wbuf \o data) >= Threshold
                 THEN StartSend(wbuf \o data, credit, wire)
                 ELSE {Outcome("ok", NoFut, wbuf \o data, credit, wire)})
    BY <1>3 DEF PollWrite, Outcome
  <2>. QED  BY <1>2, <2>1
<1>4. CASE fut # NoFut
  <2>1. PICK p \in FlushBuf(fut, wbuf, credit, wire) :
          o \in (IF p.res # "ok" THEN {p}
                 ELSE IF Len(p.buf \o data) >= Threshold
                   THEN StartSend(p.buf \o data, p.credit, p.wire)
                   ELSE {Outcome("ok", p.fut, p.buf \o data, p.credit, p.wire)})
    BY <1>4 DEF PollWrite
  <2>2. Silent(p, wire) /\ p.buf = <<>> /\ (p.res = "ok" => p.fut = NoFut)
    BY FlushBufMoves DEF Moved
  <2>3. CASE p.res # "ok"
    BY <1>4, <2>1, <2>2, <2>3
  <2>4. CASE p.res = "ok"
    <3>1. /\ p.buf \in Seq(Nat) /\ p.credit \in Nat /\ p.fut = NoFut
          /\ p.wire = wire
      BY <2>2, <2>4 DEF Silent
    <3>2. o \in (IF Len(p.buf \o data) >= Threshold
                   THEN StartSend(p.buf \o data, p.credit, wire)
                   ELSE {Outcome("ok", NoFut, p.buf \o data, p.credit, wire)})
      BY <2>1, <2>4, <3>1
    <3>. QED  BY <1>2, <1>4, <3>1, <3>2
  <2>. QED  BY <2>3, <2>4
<1>. QED  BY <1>3, <1>4

-----------------------------------------------------------------------------
(* The state after a poll.                                                 *)
LEMMA AfterPolled ==
  ASSUME NEW w \in Seq(Nat), NEW d \in Seq(Nat), NEW o, Polled(o, w, d),
         wire' = o.wire, fut' = o.fut, wbuf' = o.buf
  PROVE  /\ NothingBehindSend'
         /\ wbuf' \in Seq(Nat) /\ wire' \in Seq(Nat) /\ fut' \in FutType
         /\ fut'.at = "none" <=> fut' = NoFut
         /\ Pending' \in Seq(Nat)
         /\ o.res \in {"ok", "pending"} => wire' \o Pending' = w \o d
         /\ o.res = "err" => wire' \o Pending' = w
         /\ wire' = w \/ wire' = w \o d
         /\ o.res = "ok" => wire' = w \o d /\ fut' = NoFut /\ wbuf' = <<>>
         /\ o.res \in {"ok", "pending", "err"}
<1>1. <<>> \in Seq(Nat) /\ w \o d \in Seq(Nat) /\ w \o <<>> = w
      /\ (w \o d) \o <<>> = w \o d
  BY ConcatProperties, ConcatEmptySeq
<1>2. wbuf' = <<>> /\ fut' \in FutType /\ (fut'.at = "none" <=> fut' = NoFut)
  BY DEF Polled
<1>3. Pending' = IF fut' # NoFut THEN fut'.data ELSE <<>>
  BY <1>2 DEF Pending
<1>4. CASE o.res = "ok" /\ o.fut = NoFut /\ o.wire = w \o d
  BY <1>1, <1>2, <1>3, <1>4 DEF NothingBehindSend
<1>5. CASE o.res = "pending" /\ o.fut # NoFut /\ o.fut.data = d /\ o.wire = w
  BY <1>1, <1>2, <1>3, <1>5 DEF NothingBehindSend
<1>6. CASE o.res = "err" /\ o.fut = NoFut /\ o.wire = w
  BY <1>1, <1>2, <1>3, <1>6 DEF NothingBehindSend
<1>. QED  BY <1>4, <1>5, <1>6 DEF Polled

LEMMA AfterBuffered ==
  ASSUME NEW w \in Seq(Nat), NEW d \in Seq(Nat), NEW o, Buffered(o, w, d),
         wire' = o.wire, fut' = o.fut, wbuf' = o.buf
  PROVE  /\ NothingBehindSend'
         /\ wbuf' \in Seq(Nat) /\ wire' \in Seq(Nat) /\ fut' \in FutType
         /\ fut'.at = "none" <=> fut' = NoFut
         /\ wire' = w /\ Pending' = d
BY DEF Buffered, NothingBehindSend, Pending, NoFut, FutType

LEMMA OnTheWay ==
  ASSUME TypeOK
  PROVE  Pending \in Seq(Nat) /\ wire \o Pending \in Seq(Nat)
BY ConcatProperties DEF TypeOK, Pending, FutType

(* What is on its way over a working link is in order in what is sent.     *)
LEMMA LiveIsWire == LiveInv => WireInv
<1>. SUFFICES ASSUME LiveInv PROVE WireInv
  OBVIOUS
<1>1. TypeOK /\ NothingBehindSend /\ CarefulInv /\ Gapless(wire \o Pending)
  BY DEF LiveInv
<1>2. Pending \in Seq(Nat) /\ wire \in Seq(Nat)
  BY <1>1, OnTheWay DEF TypeOK
<1>3. Gapless(wire) /\ (Counts(wire \o Pending) => Counts(wire))
  BY <1>1, <1>2, PrefixKeeps
<1>. QED  BY <1>1, <1>3 DEF WireInv, CarefulInv, CarefulRests

LEMMA LiveIsWrite == LiveInv => WriteInv
BY LiveIsWire DEF WriteInv

(* A step that puts nothing on a dead link.                                *)
LEMMA SilentStep ==
  ASSUME WriteInv, link = "down", UNCHANGED <<caller, link, dropped>>,
         NEW o, Silent(o, wire), wire' = o.wire, fut' = o.fut, wbuf' = o.buf,
         credit' = o.credit, written' \in Nat, flushed' \in Nat,
         flushed' <= written', op' \in {"none", "write", "flush", "failed"},
         CarefulRests'
  PROVE  WriteInv'
<1>. USE DEF WriteInv, WireInv
<1>1. TypeOK' /\ NothingBehindSend'
  BY DEF TypeOK, NothingBehindSend, Silent
<1>2. Gapless(wire)' /\ (Careful => Counts(wire))'
  BY DEF Silent, Gapless, Counts, Careful
<1>. QED  BY <1>1, <1>2

(* Steps that leave the bytes where they are.                              *)
LEMMA SameBytes ==
  ASSUME WriteInv, UNCHANGED <<caller, wbuf, fut, wire, written, flushed, dropped>>,
         credit' \in Nat, link' = link \/ link' = "down",
         op' = op \/ op' = "failed" \/ (op' = "none" /\ op # "failed")
  PROVE  WriteInv'
BY DEF WriteInv, WireInv, LiveInv, TypeOK, NothingBehindSend, Pending,
       AllOnTheWay, Careful, CarefulInv, CarefulRests, Gapless, Covers, Counts

LEMMA LiveWriteStep ==
  ASSUME LiveInv, link = "up", caller' = caller, ConstantsAssumption,
         NEW n \in 1..caller.chunk, Write(n)
  PROVE  LiveInv'
<1>. DEFINE s == wire \o Pending
            data == Bytes(written, n)
<1>. USE DEF LiveInv, TypeOK
<1>1. /\ n \in Nat \ {0} /\ n <= caller.chunk /\ Threshold \in Nat
      /\ caller.chunk \in Nat
  BY DEF ConstantsAssumption
<1>2. /\ ~dropped /\ dropped' = dropped /\ op \in {"none", "write"}
      /\ flushed' = flushed /\ link' = link
      /\ op = "none" /\ caller.flushes => written = flushed
  BY DEF Write
<1>3. CASE closed
  <2>1. /\ UNCHANGED <<wbuf, fut, credit, wire, written, flushed>>
        /\ op' = "failed"
    BY <1>3 DEF Write
  <2>2. TypeOK' /\ NothingBehindSend' /\ AllOnTheWay'
    BY <1>2, <2>1 DEF NothingBehindSend, AllOnTheWay
  <2>3. CarefulInv' /\ Gapless(wire \o Pending)' /\ Covers(wire, flushed)'
    BY <1>2, <2>1 DEF Pending, Careful, CarefulInv, Gapless, Covers, Counts
  <2>. QED  BY <2>2, <2>3
<1>4. CASE ~closed
  <2>1. PICK o \in PollWrite(data) :
          /\ Take(o, "write")
          /\ written' = IF o.res = "ok" THEN written + n ELSE written
    BY <1>4 DEF Write
  <2>2. /\ wire' = o.wire /\ fut' = o.fut /\ wbuf' = o.buf /\ credit' = o.credit
        /\ o.res = "ok" => op' = "none"
        /\ o.res = "pending" => op' = "write"
        /\ o.res = "err" => op' = "failed"
    BY <2>1 DEF Take
  <2>3. data \in Seq(Nat) /\ Len(data) = n /\ s \in Seq(Nat) /\ Pending \in Seq(Nat)
    BY <1>1, BytesAreASeq, OnTheWay
  <2>4. Gapless(s) /\ Covers(s, written) /\ Covers(s, flushed) /\ Covers(wire, flushed)
    BY <1>2, <2>3, PrefixKeeps DEF AllOnTheWay
  <2>5. Careful => op = "none" /\ fut = NoFut /\ wbuf = <<>>
    BY <1>2 DEF CarefulInv, Careful
  <2>. HIDE DEF data
  <2>6. CASE o.res # "ok" /\ fut # NoFut /\ Polled(o, wire, Pending)
    <3>1. /\ NothingBehindSend'
          /\ wbuf' \in Seq(Nat) /\ wire' \in Seq(Nat) /\ fut' \in FutType
          /\ fut'.at = "none" <=> fut' = NoFut
          /\ o.res \in {"ok", "pending"} => wire' \o Pending' = s
          /\ o.res = "err" => wire' \o Pending' = wire
          /\ wire' = wire \/ wire' = s
          /\ o.res \in {"ok", "pending", "err"}
      BY <2>2, <2>3, <2>6, AfterPolled
    <3>2. Gapless(wire)
      BY <2>3, <2>4, PrefixKeeps
    <3>3. TypeOK'
      BY <1>2, <2>1, <2>2, <2>6, <3>1 DEF Polled
    <3>4. Gapless(wire' \o Pending') /\ Covers(wire', flushed')
      BY <1>2, <2>4, <2>6, <3>1, <3>2
    <3>5. AllOnTheWay'
      BY <2>1, <2>2, <2>4, <2>6, <3>1 DEF AllOnTheWay
    <3>6. CarefulInv'
      BY <2>5, <2>6 DEF CarefulInv, Careful
    <3>7. Gapless(wire \o Pending)' /\ Covers(wire, flushed)'
      BY <3>4 DEF Gapless, Covers
    <3>. QED  BY <3>1, <3>3, <3>5, <3>6, <3>7
  <2>7. ASSUME NEW w \in Seq(Nat), NEW b \in Seq(Nat), w \o b = s,
               w = wire \/ w = s, fut = NoFut => w = wire /\ b = wbuf,
               \/ Polled(o, w, b \o data) /\ Len(b \o data) >= Threshold
               \/ Buffered(o, w, b \o data)
        PROVE  LiveInv'
    <3>1. /\ b \o data \in Seq(Nat) /\ Len(b \o data) = Len(b) + n
          /\ w \o (b \o data) = s \o data
      <4>1. b \o data \in Seq(Nat) /\ Len(b \o data) = Len(b) + n
        BY <2>3, ConcatProperties
      <4>2. w \o (b \o data) = (w \o b) \o data
        <5>. HIDE DEF LiveInv, TypeOK
        <5>. QED  BY <2>3, ThreeParts, SMTT(30)
      <4>. QED  BY <2>7, <4>1, <4>2
    <3>2. /\ Gapless(s \o data) /\ Covers(s \o data, written + n)
          /\ Covers(s \o data, written)
          /\ Counts(s) /\ Len(s) = written => Counts(s \o data)
      BY <1>1, <2>3, <2>4, BytesExtend DEF data
    <3>3. Gapless(w) /\ Covers(w, flushed) /\ Covers(s \o data, flushed)
      BY <2>3, <2>4, <2>7, PrefixKeeps
    <3>4. CASE Polled(o, w, b \o data) /\ Len(b \o data) >= Threshold
      <4>1. /\ NothingBehindSend'
            /\ wbuf' \in Seq(Nat) /\ wire' \in Seq(Nat) /\ fut' \in FutType
            /\ fut'.at = "none" <=> fut' = NoFut
            /\ o.res \in {"ok", "pending"} => wire' \o Pending' = s \o data
            /\ o.res = "err" => wire' \o Pending' = w
            /\ wire' = w \/ wire' = s \o data
            /\ o.res \in {"ok", "pending", "err"}
        BY <2>2, <3>1, <3>4, AfterPolled
      <4>2. ~Careful
        <5>1. Careful => Len(b \o data) = n
          BY <2>5, <2>7, <3>1
        <5>. QED  BY <1>1, <3>4, <5>1 DEF Careful
      <4>3. TypeOK'
        BY <1>1, <1>2, <2>1, <2>2, <3>4, <4>1 DEF Polled
      <4>4. Gapless(wire \o Pending)' /\ Covers(wire, flushed)'
        <5>1. Gapless(wire' \o Pending') /\ Covers(wire', flushed')
          BY <1>2, <3>2, <3>3, <4>1
        <5>. QED  BY <5>1 DEF Gapless, Covers
      <4>5. AllOnTheWay'
        BY <2>1, <2>2, <3>2, <4>1 DEF AllOnTheWay
      <4>6. CarefulInv'
        BY <4>2 DEF CarefulInv, Careful
      <4>. QED  BY <4>1, <4>3, <4>4, <4>5, <4>6
    <3>5. CASE Buffered(o, w, b \o data)
      <4>1. /\ NothingBehindSend'
            /\ wbuf' \in Seq(Nat) /\ wire' \in Seq(Nat) /\ fut' \in FutType
            /\ fut'.at = "none" <=> fut' = NoFut
            /\ wire' = w /\ wire' \o Pending' = s \o data /\ o.res = "ok"
        BY <2>2, <3>1, <3>5, AfterBuffered DEF Buffered
      <4>2. TypeOK'
        BY <1>1, <1>2, <2>1, <2>2, <3>5, <4>1 DEF Buffered
      <4>3. Gapless(wire \o Pending)' /\ Covers(wire, flushed)'
        <5>1. Gapless(wire' \o Pending') /\ Covers(wire', flushed')
          BY <1>2, <3>2, <3>3, <4>1
        <5>. QED  BY <5>1 DEF Gapless, Covers
      <4>4. AllOnTheWay'
        BY <2>1, <3>2, <4>1 DEF AllOnTheWay
      <4>5. CarefulInv'
        <5>1. Careful => Counts(s) /\ Len(s) = written
          BY <1>2 DEF CarefulInv
        <5>2. Len(s \o data) = Len(s) + n
          BY <2>3, ConcatProperties
        <5>3. op' = "none" /\ written' = written + n /\ written' # flushed'
          BY <1>1, <1>2, <2>1, <2>2, <4>1
        <5>. QED  BY <3>2, <4>1, <5>1, <5>2, <5>3 DEF CarefulInv, Careful, Counts
      <4>. QED  BY <4>1, <4>2, <4>3, <4>4, <4>5
    <3>. QED  BY <2>7, <3>4, <3>5
  <2>8. \/ o.res # "ok" /\ fut # NoFut /\ Polled(o, wire, Pending)
        \/ \E w, b \in Seq(Nat) :
              /\ w \o b = s
              /\ w = wire \/ w = s
              /\ \/ Polled(o, w, b \o data) /\ Len(b \o data) >= Threshold
                 \/ Buffered(o, w, b \o data)
              /\ fut = NoFut => w = wire /\ b = wbuf
    BY <2>3, PollWriteMoves
  <2>. QED  BY <2>6, <2>7, <2>8
<1>. QED  BY <1>3, <1>4

LEMMA LiveFlushStep ==
  ASSUME LiveInv, link = "up", caller' = caller, Flush
  PROVE  LiveInv'
<1>. DEFINE s == wire \o Pending
<1>. USE DEF LiveInv, TypeOK
<1>1. PICK o \in FlushBuf(fut, wbuf, credit, wire) :
        /\ Take(o, "flush")
        /\ flushed' = IF o.res = "ok" THEN written ELSE flushed
  BY DEF Flush
<1>2. /\ wire' = o.wire /\ fut' = o.fut /\ wbuf' = o.buf /\ credit' = o.credit
      /\ o.res = "ok" => op' = "none"
      /\ o.res = "pending" => op' = "flush"
      /\ o.res = "err" => op' = "failed"
  BY <1>1 DEF Take
<1>3. /\ ~dropped /\ dropped' = dropped /\ op \in {"none", "flush"}
      /\ UNCHANGED <<written, link>>
  BY DEF Flush
<1>4. Polled(o, wire, Pending) /\ s \in Seq(Nat) /\ Pending \in Seq(Nat)
  BY FlushBufMoves, OnTheWay DEF Moved
<1>5. /\ NothingBehindSend'
      /\ wbuf' \in Seq(Nat) /\ wire' \in Seq(Nat) /\ fut' \in FutType
      /\ fut'.at = "none" <=> fut' = NoFut
      /\ o.res \in {"ok", "pending"} => wire' \o Pending' = s
      /\ o.res = "err" => wire' \o Pending' = wire
      /\ wire' = wire \/ wire' = s
      /\ o.res = "ok" => wire' = s /\ fut' = NoFut /\ wbuf' = <<>>
      /\ o.res \in {"ok", "pending", "err"}
  BY <1>2, <1>4, AfterPolled
<1>6. /\ Gapless(s) /\ Gapless(wire) /\ Covers(s, written) /\ Covers(s, flushed)
      /\ Covers(wire, flushed) /\ Counts(s) => Counts(wire)
  BY <1>3, <1>4, PrefixKeeps DEF AllOnTheWay
<1>7. TypeOK'
  BY <1>1, <1>2, <1>3, <1>4, <1>5 DEF Polled
<1>8. Gapless(wire \o Pending)' /\ Covers(wire, flushed)'
  <2>1. Gapless(wire' \o Pending') /\ Covers(wire', flushed')
    BY <1>1, <1>5, <1>6
  <2>. QED  BY <2>1 DEF Gapless, Covers
<1>9. AllOnTheWay'
  BY <1>2, <1>3, <1>5, <1>6 DEF AllOnTheWay
<1>10. CarefulInv'
  <2>1. Careful => Counts(s) /\ Len(s) = written /\ op' # "write"
    BY <1>2, <1>3, <1>5 DEF CarefulInv
  <2>2. ASSUME Careful, written' = flushed', op' # "failed"
        PROVE  fut' = NoFut /\ wbuf' = <<>>
    <3>1. CASE o.res = "ok"
      BY <1>5, <3>1
    <3>2. CASE o.res = "pending"
      <4>1. fut = NoFut /\ wbuf = <<>>
        BY <1>1, <1>3, <2>2, <3>2 DEF CarefulInv
      <4>. QED  BY <1>1, <3>2, <4>1 DEF FlushBuf, Outcome
    <3>. QED  BY <1>2, <1>5, <2>2, <3>1, <3>2
  <2>3. Careful => Counts(wire' \o Pending')
    BY <1>5, <1>6, <2>1
  <2>4. Careful /\ op' # "failed" => Len(wire' \o Pending') = written'
    BY <1>2, <1>3, <1>5, <2>1
  <2>5. Careful' <=> Careful
    BY DEF Careful
  <2>6. Counts(wire' \o Pending') => Counts(wire \o Pending)'
    BY DEF Counts
  <2>. HIDE DEF LiveInv, TypeOK, s
  <2>. QED  BY <2>1, <2>2, <2>3, <2>4, <2>5, <2>6 DEF CarefulInv
<1>. QED  BY <1>5, <1>7, <1>8, <1>9, <1>10

(* The same steps over any link.                                           *)
LEMMA WriteStep ==
  ASSUME WriteInv, caller' = caller, ConstantsAssumption,
         NEW n \in 1..caller.chunk, Write(n)
  PROVE  WriteInv'
<1>. DEFINE data == Bytes(written, n)
<1>1. /\ TypeOK /\ NothingBehindSend /\ CarefulRests
      /\ n \in Nat \ {0} /\ n <= caller.chunk /\ Threshold \in Nat
      /\ caller.chunk \in Nat
  BY DEF ConstantsAssumption, WriteInv, WireInv, TypeOK
<1>2. /\ UNCHANGED <<dropped, flushed, link>> /\ ~dropped
      /\ op \in {"none", "write"}
      /\ op = "none" /\ caller.flushes => written = flushed
  BY DEF Write
<1>3. CASE link = "up"
  <2>1. LiveInv'
    BY <1>3, LiveWriteStep DEF WriteInv
  <2>. QED  BY <2>1, LiveIsWrite, PTL
<1>4. CASE link = "down" /\ closed
  BY <1>2, <1>4, <1>1, SameBytes DEF Write, TypeOK
<1>5. CASE link = "down" /\ ~closed
  <2>1. PICK o \in PollWrite(data) :
          /\ Take(o, "write")
          /\ written' = IF o.res = "ok" THEN written + n ELSE written
    BY <1>5 DEF Write
  <2>2. data \in Seq(Nat) /\ Len(data) = n
    BY <1>1, BytesAreASeq DEF TypeOK
  <2>. HIDE DEF data
  <2>3. /\ Silent(o, wire)
        /\ fut = NoFut /\ Len(wbuf \o data) < Threshold => o.res = "ok"
    BY <1>1, <1>5, <2>2, PollWriteSilent
  <2>4. /\ wire' = o.wire /\ fut' = o.fut /\ wbuf' = o.buf /\ credit' = o.credit
        /\ o.res = "ok" => op' = "none"
        /\ o.res = "pending" => op' = "write"
        /\ o.res = "err" => op' = "failed"
    BY <2>1 DEF Take
  <2>5. /\ written' \in Nat /\ flushed' \in Nat /\ flushed' <= written'
        /\ op' \in {"none", "write", "flush", "failed"}
        /\ o.res = "ok" => written' # flushed'
    BY <1>1, <1>2, <2>1, <2>3, <2>4 DEF TypeOK, Silent
  <2>6. ASSUME Careful
        PROVE  o.res = "ok"
    <3>1. fut = NoFut /\ wbuf = <<>> /\ n < Threshold
      BY <1>1, <1>2, <2>6 DEF CarefulRests, Careful
    <3>2. Len(wbuf \o data) = n
      BY <2>2, <3>1
    <3>. QED  BY <2>3, <3>1, <3>2
  <2>7. CarefulRests'
    BY <2>4, <2>5, <2>6 DEF CarefulRests, Careful
  <2>. QED  BY <1>2, <1>5, <2>3, <2>4, <2>5, <2>7, SilentStep
<1>. QED  BY <1>1, <1>3, <1>4, <1>5 DEF TypeOK

LEMMA FlushStep ==
  ASSUME WriteInv, caller' = caller, Flush
  PROVE  WriteInv'
<1>1. TypeOK /\ NothingBehindSend /\ CarefulRests
  BY DEF WriteInv, WireInv
<1>2. /\ UNCHANGED <<dropped, written, link>> /\ ~dropped
      /\ op \in {"none", "flush"}
  BY DEF Flush
<1>3. CASE link = "up"
  <2>1. LiveInv'
    BY <1>3, LiveFlushStep DEF WriteInv
  <2>. QED  BY <2>1, LiveIsWrite, PTL
<1>4. CASE link = "down"
  <2>1. PICK o \in FlushBuf(fut, wbuf, credit, wire) :
          /\ Take(o, "flush")
          /\ flushed' = IF o.res = "ok" THEN written ELSE flushed
    BY DEF Flush
  <2>2. /\ Silent(o, wire) /\ o.buf = <<>> /\ (o.res = "ok" => o.fut = NoFut)
        /\ o.res \in {"ok", "pending", "err"}
    BY <1>1, <1>4, FlushBufMoves DEF Moved, Silent
  <2>3. /\ wire' = o.wire /\ fut' = o.fut /\ wbuf' = o.buf /\ credit' = o.credit
        /\ o.res = "ok" => op' = "none"
        /\ o.res = "pending" => op' = "flush"
        /\ o.res = "err" => op' = "failed"
    BY <2>1 DEF Take
  <2>4. /\ written' \in Nat /\ flushed' \in Nat /\ flushed' <= written'
        /\ op' \in {"none", "write", "flush", "failed"}
    BY <1>1, <1>2, <2>1, <2>2, <2>3 DEF TypeOK
  <2>5. ASSUME Careful, written' = flushed', o.res = "pending" PROVE FALSE
    <3>1. fut = NoFut /\ wbuf = <<>>
      BY <1>1, <1>2, <2>1, <2>5 DEF CarefulRests
    <3>. QED  BY <2>1, <2>5, <3>1 DEF FlushBuf, Outcome
  <2>6. CarefulRests'
    BY <2>2, <2>3, <2>5 DEF CarefulRests, Careful
  <2>. QED  BY <1>2, <1>4, <2>2, <2>3, <2>4, <2>6, SilentStep
<1>. QED  BY <1>1, <1>3, <1>4 DEF TypeOK

LEMMA DropStep ==
  ASSUME WriteInv, caller' = caller, Drop
  PROVE  WriteInv'
<1>. USE DEF WriteInv, WireInv
<1>1. /\ wbuf' = <<>> /\ fut' = NoFut /\ dropped' = TRUE /\ op' = "none"
      /\ UNCHANGED <<wire, written, flushed, credit, link>>
  BY DEF Drop, muxVars
<1>2. Pending' = <<>> /\ wire \in Seq(Nat) /\ wire \o <<>> = wire
  BY <1>1, ConcatEmptySeq DEF Pending, TypeOK
<1>3. TypeOK' /\ NothingBehindSend' /\ AllOnTheWay'
  BY <1>1 DEF TypeOK, NothingBehindSend, AllOnTheWay, NoFut, FutType
<1>4. /\ Gapless(wire)' /\ (Careful => Counts(wire))' /\ CarefulRests'
      /\ Gapless(wire \o Pending)' /\ CarefulInv'
  BY <1>1, <1>2
     DEF Gapless, Careful, Counts, CarefulRests, CarefulInv
<1>5. link' = "up" => Covers(wire, flushed)'
  BY <1>1 DEF Covers, LiveInv
<1>. QED  BY <1>3, <1>4, <1>5 DEF LiveInv

-----------------------------------------------------------------------------
(* The invariant of the read half.  The ends of the payloads in the        *)
(* channel count up, from what has been read and is left over to what the  *)
(* server has sent; so there is no more to read once both are empty.  Each *)
(* payload, and what is left over, is the bytes between two of the ends.   *)
EndsCount(e, chan) ==
  /\ e \in Seq(Nat) /\ Len(e) = Len(chan) + 1 /\ e[Len(e)] = sent
  /\ e[1] = got + Len(leftover)
  /\ \A k \in 1..Len(chan) : e[k + 1] = e[k] + Len(chan[k])
Filled(e, chan) ==
  /\ leftover = Bytes(got, Len(leftover))
  /\ \A k \in 1..Len(chan) : chan[k] = Bytes(e[k], Len(chan[k]))
  /\ \A j, k \in 1..Len(e) : j <= k => e[j] <= e[k]
ReadInv ==
  /\ caller \in Callers /\ dropped \in BOOLEAN
  /\ inbound \in Seq(Seq(Nat)) /\ leftover \in Seq(Nat)
  /\ got \in Nat /\ sent \in Nat
  /\ eof => closed /\ leftover = <<>>
  /\ ~dropped => \E e : EndsCount(e, inbound) /\ Filled(e, inbound)

(* What is served of consecutive bytes leaves the bytes behind it.         *)
LEMMA ServeKeeps ==
  ASSUME NEW data \in Seq(Nat), NEW room \in Nat, got \in Nat,
         data = Bytes(got, Len(data)), Serve(data, room)
  PROVE  leftover' = Bytes(got', Len(leftover'))
<1>1. Len(data) \in Nat /\ \A k \in 1..Len(data) : data[k] = got + k
  BY DEF Bytes
<1>2. CASE Len(data) <= room
  <2>1. leftover' = <<>>
    BY <1>1, <1>2 DEF Serve
  <2>2. Len(leftover') = 0
    BY <2>1
  <2>. QED  BY <2>1, <2>2 DEF Bytes
<1>3. CASE ~(Len(data) <= room)
  <2>1. leftover' = SubSeq(data, room + 1, Len(data)) /\ got' = got + room
    BY <1>1, <1>3 DEF Serve
  <2>2. PICK n \in Nat : n = Len(data) - room
    BY <1>1, <1>3
  <2>3. /\ leftover' \in Seq(Nat) /\ Len(leftover') = n
        /\ \A k \in 1..n : leftover'[k] = data[room + k]
    BY <1>1, <1>3, <2>1, <2>2
  <2>4. ASSUME NEW k \in 1..n PROVE leftover'[k] = got' + k
    <3>1. room + k \in 1..Len(data)
      BY <1>1, <2>2
    <3>2. data[room + k] = got + (room + k)
      BY <1>1, <3>1
    <3>. QED  BY <2>1, <2>3, <3>2
  <2>5. leftover' = [k \in 1..n |-> leftover'[k]]
    BY <2>3
  <2>6. leftover' = [k \in 1..n |-> got' + k]
    BY <2>4, <2>5
  <2>. QED  BY <2>3, <2>6 DEF Bytes
<1>. QED  BY <1>2, <1>3

LEMMA NothingLeft ==
  ASSUME ReadInv, ~dropped, leftover = <<>>, inbound = <<>>
  PROVE  got = sent
<1>1. PICK e : EndsCount(e, inbound) /\ Filled(e, inbound)
  BY DEF ReadInv
<1>. QED  BY <1>1 DEF EndsCount, ReadInv

LEMMA ServeCounts ==
  ASSUME NEW data \in Seq(Nat), NEW room \in Nat, got \in Nat,
         Serve(data, room)
  PROVE  /\ leftover' \in Seq(Nat) /\ got' \in Nat
         /\ got' + Len(leftover') = got + Len(data)
<1>1. Len(data) \in Nat
  OBVIOUS
<1>2. CASE Len(data) <= room
  <2>1. leftover' = <<>> /\ got' = got + Len(data)
    BY <1>1, <1>2 DEF Serve
  <2>2. <<>> \in Seq(Nat) /\ Len(<<>>) = 0
    OBVIOUS
  <2>. QED  BY <1>1, <2>1, <2>2
<1>3. CASE ~(Len(data) <= room)
  <2>1. leftover' = SubSeq(data, room + 1, Len(data)) /\ got' = got + room
    BY <1>1, <1>3 DEF Serve
  <2>2. leftover' \in Seq(Nat) /\ Len(leftover') = Len(data) - room
    BY <1>1, <1>3, <2>1
  <2>3. got' \in Nat /\ got' + (Len(data) - room) = got + Len(data)
    BY <1>1, <2>1
  <2>. QED  BY <2>2, <2>3
<1>. QED  BY <1>2, <1>3

LEMMA ReadStep ==
  ASSUME ReadInv, caller' = caller, ConstantsAssumption,
         NEW room \in 1..caller.room, Read(room)
  PROVE  ReadInv'
<1>. USE DEF ReadInv
<1>1. room \in Nat /\ ~dropped /\ dropped' = dropped /\ sent' = sent
  BY DEF Read, ConstantsAssumption
<1>2. PICK e : EndsCount(e, inbound) /\ Filled(e, inbound)
  BY <1>1
<1>8. /\ leftover = Bytes(got, Len(leftover))
      /\ \A k \in 1..Len(inbound) : inbound[k] = Bytes(e[k], Len(inbound[k]))
      /\ \A j, k \in 1..Len(e) : j <= k => e[j] <= e[k]
  BY <1>2 DEF Filled
<1>3. /\ Len(inbound) \in Nat /\ Len(leftover) \in Nat /\ e \in Seq(Nat)
      /\ Len(e) = Len(inbound) + 1 /\ e[Len(e)] = sent
      /\ e[1] = got + Len(leftover)
      /\ \A k \in 1..Len(inbound) : e[k + 1] = e[k] + Len(inbound[k])
  BY <1>2 DEF EndsCount
<1>4. CASE leftover # <<>> /\ Serve(leftover, room) /\ UNCHANGED <<closed, inbound>>
  <2>1. /\ leftover' \in Seq(Nat) /\ got' \in Nat
        /\ got' + Len(leftover') = got + Len(leftover)
    BY <1>1, <1>4, ServeCounts
  <2>2. EndsCount(e, inbound)'
    BY <1>1, <1>2, <1>4, <2>1 DEF EndsCount
  <2>3. leftover' = Bytes(got', Len(leftover'))
    BY <1>1, <1>4, <1>8, ServeKeeps
  <2>4. Filled(e, inbound)'
    BY <1>4, <1>8, <2>3 DEF Filled
  <2>. QED  BY <1>1, <1>4, <2>1, <2>2, <2>4 DEF Serve
<1>5. CASE leftover = <<>> /\ closed' /\ ReadEof /\ inbound' = inbound
  <2>1. EndsCount(e, inbound)'
    BY <1>1, <1>2, <1>5 DEF EndsCount, ReadEof
  <2>2. Filled(e, inbound)'
    BY <1>2, <1>5 DEF Filled, ReadEof
  <2>. QED  BY <1>1, <1>5, <2>1, <2>2 DEF ReadEof
<1>6. CASE leftover = <<>> /\ inbound # <<>> /\ inbound' = Tail(inbound)
           /\ ~closed /\ UNCHANGED closed
           /\ \/ Head(inbound) = <<>> /\ SkipEmpty
              \/ Head(inbound) # <<>> /\ Serve(Head(inbound), room)
  <2>1. /\ Head(inbound) = inbound[1] /\ inbound[1] \in Seq(Nat)
        /\ inbound' \in Seq(Seq(Nat)) /\ Len(inbound') = Len(inbound) - 1
        /\ \A k \in 1..Len(inbound') : inbound'[k] = inbound[k + 1]
        /\ 1 \in 1..Len(inbound)
    BY <1>6
  <2>2. /\ leftover' \in Seq(Nat) /\ got' \in Nat
        /\ got' + Len(leftover') = got + Len(inbound[1])
    BY <1>1, <1>6, <2>1, ServeCounts DEF SkipEmpty
  <2>3. /\ Tail(e) \in Seq(Nat) /\ Len(Tail(e)) = Len(e) - 1
        /\ \A k \in 1..Len(Tail(e)) : Tail(e)[k] = e[k + 1]
    BY <1>3
  <2>4. e[2] = got + Len(inbound[1])
    BY <1>3, <1>6, <2>1
  <2>5. PICK g : g = Tail(e)
    OBVIOUS
  <2>6. g \in Seq(Nat) /\ Len(g) = Len(inbound) /\ Len(inbound) = Len(inbound') + 1
    <3>1. g \in Seq(Nat) /\ Len(g) = Len(e) - 1
      BY <2>3, <2>5
    <3>2. Len(e) - 1 = Len(inbound)
      BY <1>3
    <3>3. Len(inbound) = Len(inbound') + 1
      BY <1>3, <2>1
    <3>. QED  BY <3>1, <3>2, <3>3
  <2>7. g[Len(g)] = sent' /\ g[1] = got' + Len(leftover')
    <3>1. Len(g) \in 1..Len(g) /\ 1 \in 1..Len(g) /\ Len(g) + 1 = Len(e)
      BY <1>3, <2>1, <2>6
    <3>2. g[Len(g)] = e[Len(g) + 1] /\ g[1] = e[1 + 1]
      BY <2>3, <2>5, <3>1
    <3>. QED  BY <1>1, <1>3, <2>2, <2>4, <3>1, <3>2
  <2>8. ASSUME NEW k \in 1..Len(inbound') PROVE g[k + 1] = g[k] + Len(inbound'[k])
    <3>1. /\ k + 1 \in 1..Len(inbound) /\ k \in 1..Len(g) /\ k + 1 \in 1..Len(g)
      <4>1. Len(inbound') \in Nat /\ Len(g) \in Nat
        BY <1>3, <2>1, <2>6
      <4>2. k + 1 <= Len(inbound) /\ k <= Len(g) /\ k + 1 <= Len(g)
        BY <2>6, <4>1
      <4>. QED  BY <1>3, <4>1, <4>2
    <3>2. e[k + 1 + 1] = e[k + 1] + Len(inbound[k + 1])
      BY <1>3, <3>1
    <3>3. g[k] = e[k + 1] /\ g[k + 1] = e[k + 1 + 1]
      BY <2>3, <2>5, <3>1
    <3>. QED  BY <2>1, <3>1, <3>2, <3>3
  <2>9. EndsCount(g, inbound)'
    BY <2>6, <2>7, <2>8 DEF EndsCount
  <2>10. ~eof /\ ~eof'
    BY <1>6 DEF SkipEmpty, Serve
  <2>11. leftover' = Bytes(got', Len(leftover'))
    <3>1. CASE Head(inbound) = <<>> /\ SkipEmpty
      BY <1>8, <3>1 DEF SkipEmpty
    <3>2. CASE Serve(Head(inbound), room)
      <4>1. e[1] = got
        BY <1>3, <1>6
      <4>2. inbound[1] = Bytes(got, Len(inbound[1]))
        BY <1>8, <2>1, <4>1
      <4>. QED  BY <1>1, <2>1, <3>2, <4>2, ServeKeeps
    <3>. QED  BY <1>6, <3>1, <3>2
  <2>12. ASSUME NEW k \in 1..Len(inbound')
         PROVE  inbound'[k] = Bytes(g[k], Len(inbound'[k]))
    <3>1. k + 1 \in 1..Len(inbound) /\ k \in 1..Len(g)
      BY <1>3, <2>1, <2>6
    <3>2. g[k] = e[k + 1] /\ inbound'[k] = inbound[k + 1]
      BY <2>1, <2>3, <2>5, <3>1
    <3>. QED  BY <1>8, <3>1, <3>2
  <2>13. ASSUME NEW j \in 1..Len(g), NEW k \in 1..Len(g), j <= k
         PROVE  g[j] <= g[k]
    <3>1. j + 1 \in 1..Len(e) /\ k + 1 \in 1..Len(e) /\ j + 1 <= k + 1
      <4>1. Len(g) = Len(inbound) /\ Len(e) = Len(inbound) + 1
        BY <1>3, <2>6
      <4>. QED  BY <1>3, <2>13, <4>1
    <3>2. g[j] = e[j + 1] /\ g[k] = e[k + 1]
      BY <2>3, <2>5
    <3>. QED  BY <1>8, <3>1, <3>2
  <2>14. Filled(g, inbound)'
    BY <2>11, <2>12, <2>13 DEF Filled
  <2>. QED  BY <1>1, <2>1, <2>2, <2>9, <2>10, <2>14
<1>7. CASE UNCHANGED <<got, eof, leftover, closed, inbound>>
  BY <1>1, <1>2, <1>7 DEF EndsCount, Filled
<1>. QED  BY <1>4, <1>5, <1>6, <1>7 DEF Read

LEMMA ServerDataStep ==
  ASSUME ReadInv, caller' = caller, NEW n \in Nat, ServerData(n)
  PROVE  ReadInv'
<1>. USE DEF ReadInv
<1>. DEFINE d == Bytes(sent, n)
<1>1. d \in Seq(Nat) /\ Len(d) = n
  BY BytesAreASeq
<1>. HIDE DEF d
<1>2. /\ inbound' = Append(inbound, d) /\ sent' = sent + n
      /\ UNCHANGED <<leftover, closed, got, eof, dropped>>
  BY DEF ServerData, ioVars, d
<1>3. /\ inbound' \in Seq(Seq(Nat)) /\ Len(inbound') = Len(inbound) + 1
      /\ \A k \in 1..Len(inbound) : inbound'[k] = inbound[k]
      /\ inbound'[Len(inbound) + 1] = d /\ Len(inbound) \in Nat
  BY <1>1, <1>2
<1>4. ASSUME ~dropped' PROVE \E e : EndsCount(e, inbound)' /\ Filled(e, inbound)'
  <2>1. PICK e : EndsCount(e, inbound) /\ Filled(e, inbound)
    BY <1>2, <1>4
  <2>0. /\ e \in Seq(Nat) /\ Len(e) = Len(inbound) + 1 /\ e[Len(e)] = sent
        /\ e[1] = got + Len(leftover)
        /\ \A k \in 1..Len(inbound) : e[k + 1] = e[k] + Len(inbound[k])
    BY <2>1 DEF EndsCount
  <2>9. PICK g : g = Append(e, sent')
    OBVIOUS
  <2>2. /\ g \in Seq(Nat) /\ Len(g) = Len(inbound') + 1 /\ g[Len(g)] = sent'
        /\ \A k \in 1..(Len(inbound) + 1) : g[k] = e[k]
    BY <1>2, <1>3, <2>0, <2>9
  <2>3. g[1] = got' + Len(leftover')
    BY <1>2, <1>3, <2>0, <2>2
  <2>4. ASSUME NEW k \in 1..Len(inbound') PROVE g[k + 1] = g[k] + Len(inbound'[k])
    <3>1. CASE k \in 1..Len(inbound)
      <4>1. k \in 1..(Len(inbound) + 1) /\ k + 1 \in 1..(Len(inbound) + 1)
        BY <1>3, <3>1
      <4>. QED  BY <1>3, <2>0, <2>2, <3>1, <4>1
    <3>2. CASE k = Len(inbound) + 1
      <4>1. g[k + 1] = sent + n /\ g[k] = sent
        BY <1>2, <1>3, <2>0, <2>2, <3>2
      <4>. QED  BY <1>1, <1>3, <3>2, <4>1
    <3>. QED  BY <1>3, <3>1, <3>2
  <2>5. EndsCount(g, inbound)'
    BY <2>2, <2>3, <2>4 DEF EndsCount
  <2>6. /\ leftover = Bytes(got, Len(leftover))
        /\ \A k \in 1..Len(inbound) : inbound[k] = Bytes(e[k], Len(inbound[k]))
        /\ \A j, k \in 1..Len(e) : j <= k => e[j] <= e[k]
    BY <2>1 DEF Filled
  <2>7. ASSUME NEW k \in 1..Len(inbound')
        PROVE  inbound'[k] = Bytes(g[k], Len(inbound'[k]))
    <3>1. CASE k \in 1..Len(inbound)
      <4>1. g[k] = e[k] /\ inbound'[k] = inbound[k]
        BY <1>3, <2>2, <3>1
      <4>. QED  BY <2>6, <3>1, <4>1
    <3>2. CASE k = Len(inbound) + 1
      <4>1. g[k] = sent /\ inbound'[k] = d
        BY <1>3, <2>0, <2>2, <3>2
      <4>. QED  BY <1>1, <4>1 DEF d
    <3>. QED  BY <1>3, <3>1, <3>2
  <2>8. ASSUME NEW j \in 1..Len(g), NEW k \in 1..Len(g), j <= k
        PROVE  g[j] <= g[k]
    <3>1. Len(g) = Len(inbound) + 2 /\ Len(e) \in 1..Len(e)
      BY <1>3, <2>0, <2>2
    <3>2. CASE k <= Len(inbound) + 1
      <4>1. j \in 1..Len(e) /\ k \in 1..Len(e)
        BY <1>3, <2>0, <2>8, <3>2
      <4>2. g[j] = e[j] /\ g[k] = e[k]
        BY <2>0, <2>2, <4>1
      <4>. QED  BY <2>6, <2>8, <4>1, <4>2
    <3>3. CASE k = Len(inbound) + 2 /\ j # k
      <4>1. j \in 1..Len(e) /\ g[k] = sent + n
        <5>1. j \in 1..Len(e) /\ g[k] = sent'
          BY <1>3, <2>0, <2>2, <2>8, <3>1, <3>3
        <5>. QED  BY <1>2, <5>1
      <4>2. g[j] = e[j] /\ e[j] <= sent /\ e[j] \in Nat
        <5>1. g[j] = e[j] /\ e[j] \in Nat
          BY <2>0, <2>2, <4>1
        <5>2. j <= Len(e) /\ Len(e) \in 1..Len(e)
          BY <3>1, <4>1
        <5>3. e[j] <= e[Len(e)]
          BY <2>6, <4>1, <5>2
        <5>. QED  BY <2>0, <5>1, <5>3
      <4>. QED  BY <4>1, <4>2
    <3>4. CASE j = k
      BY <2>2, <3>4
    <3>. QED  BY <1>3, <3>1, <3>2, <3>3, <3>4
  <2>10. Filled(g, inbound)'
    BY <1>2, <2>6, <2>7, <2>8 DEF Filled
  <2>. QED  BY <2>5, <2>10
<1>. QED  BY <1>2, <1>3, <1>4

(* Steps that do not touch what is read.                                   *)
LEMMA SameRead ==
  ASSUME ReadInv, UNCHANGED <<caller, leftover, got, eof, inbound, sent>>,
         dropped' = dropped, closed => closed'
  PROVE  ReadInv'
BY DEF ReadInv, EndsCount, Filled

-----------------------------------------------------------------------------
Inv == WriteInv /\ ReadInv

LEMMA InitInv == Init => Inv
<1>. SUFFICES ASSUME Init PROVE Inv
  OBVIOUS
<1>1. /\ wire = <<>> /\ Pending = <<>> /\ fut = NoFut /\ wbuf = <<>>
      /\ written = 0 /\ flushed = 0
  BY DEF Init, Pending
<1>2. wire \o Pending = <<>> /\ Len(<<>>) = 0 /\ <<>> \in Seq(Nat)
  BY <1>1, ConcatEmptySeq
<1>3. TypeOK
  <2>1. NoFut \in FutType /\ NoFut.at = "none"
    BY DEF FutType, NoFut
  <2>2. credit \in Nat /\ caller \in Callers
    BY ConstantsAssumption DEF Init
  <2>3. op \in {"none", "write", "flush", "failed"} /\ link = "up" /\ dropped = FALSE
    BY DEF Init
  <2>4. fut.at = "none" <=> fut = NoFut
    BY <1>1, <2>1
  <2>5. wbuf \in Seq(Nat) /\ wire \in Seq(Nat)
    BY <1>1, <1>2
  <2>6. fut \in FutType
    BY <1>1, <2>1
  <2>7. written \in Nat /\ flushed \in Nat /\ flushed <= written
    BY <1>1
  <2>. QED  BY <2>2, <2>3, <2>4, <2>5, <2>6, <2>7 DEF TypeOK
<1>4. /\ Gapless(wire \o Pending) /\ Counts(wire \o Pending)
      /\ Covers(wire \o Pending, written) /\ Covers(wire, flushed)
  BY <1>1, <1>2 DEF Gapless, Counts, Covers
<1>5. NothingBehindSend /\ AllOnTheWay /\ CarefulInv
  BY <1>1, <1>2, <1>4 DEF Init, NothingBehindSend, AllOnTheWay, CarefulInv
<1>6. EndsCount(<<0>>, inbound)
  BY DEF Init, EndsCount
<1>8. Filled(<<0>>, inbound)
  <2>1. leftover = <<>> /\ inbound = <<>> /\ Len(<<0>>) = 1
    BY DEF Init
  <2>2. <<>> = Bytes(got, 0)
    BY DEF Bytes
  <2>. QED  BY <1>2, <2>1, <2>2 DEF Filled
<1>7. ReadInv
  <2>1. \E e : EndsCount(e, inbound) /\ Filled(e, inbound)
    BY <1>6, <1>8
  <2>2. <<>> \in Seq(Seq(Nat)) /\ <<>> \in Seq(Nat)
    OBVIOUS
  <2>. QED  BY <2>1, <2>2 DEF Init, ReadInv
<1>9. WriteInv
  BY <1>3, <1>4, <1>5, LiveIsWrite DEF LiveInv
<1>. QED  BY <1>7, <1>9 DEF Inv

LEMMA StepInv == Inv /\ [Next]_vars => Inv'
<1>. SUFFICES ASSUME Inv, [Next]_vars PROVE Inv'
  OBVIOUS
<1>. USE DEF Inv
<1>1. CASE UNCHANGED vars
  BY <1>1, SameBytes, SameRead DEF vars, ioVars, appVars, muxVars, WriteInv, WireInv, TypeOK
<1>2. ASSUME caller' = caller, NEW n \in 1..caller.chunk, Write(n) PROVE Inv'
  BY <1>2, WriteStep, SameRead, ConstantsAssumption DEF Write
<1>3. ASSUME caller' = caller, Flush PROVE Inv'
  BY <1>3, FlushStep, SameRead DEF Flush
<1>4. ASSUME caller' = caller, Abandon \/ Shutdown PROVE Inv'
  BY <1>4, SameBytes, SameRead
     DEF Abandon, Shutdown, ioVars, appVars, muxVars, WriteInv, WireInv, TypeOK
<1>5. ASSUME caller' = caller, NEW room \in 1..caller.room, Read(room) PROVE Inv'
  BY <1>5, ReadStep, SameBytes, ConstantsAssumption DEF Read, WriteInv, WireInv, TypeOK
<1>6. ASSUME caller' = caller, Drop PROVE Inv'
  <2>1. ReadInv'
    BY <1>6 DEF Drop, muxVars, ReadInv
  <2>. QED  BY <1>6, <2>1, DropStep
<1>7. ASSUME caller' = caller, NEW n \in 0..MaxPayload, ServerData(n) PROVE Inv'
  <2>1. n \in Nat
    BY ConstantsAssumption
  <2>. QED  BY <1>7, <2>1, ServerDataStep, SameBytes
       DEF ServerData, ioVars, WriteInv, WireInv, TypeOK
<1>8. ASSUME caller' = caller, PeerClose \/ Continue \/ LinkFails PROVE Inv'
  <2>1. credit' \in Nat /\ (link' = link \/ link' = "down")
    BY <1>8, ConstantsAssumption DEF PeerClose, Continue, LinkFails, WriteInv, WireInv, TypeOK
  <2>. QED  BY <1>8, <2>1, SameBytes, SameRead
       DEF PeerClose, Continue, LinkFails, ioVars, appVars, muxVars
<1>. QED  BY <1>1, <1>2, <1>3, <1>4, <1>5, <1>6, <1>7, <1>8
     DEF Next, WriteHalf, ReadHalf, Environment

LEMMA InvHolds == Spec => []Inv
<1>. QED  BY InitInv, StepInv, PTL DEF Spec

(* No byte goes out before one that was written ahead of it, whatever      *)
(* stalls, is given up or fails.                                           *)
THEOREM NoGapCorrect == Spec => []NoGap
<1>1. Inv => NoGap
  BY DEF Inv, WriteInv, WireInv, Gapless, NoGap
<1>. QED  BY <1>1, InvHolds, PTL

(* While the link works every byte written before a flush that succeeded   *)
(* is sent, for every threshold, credit and caller.                        *)
THEOREM FlushCorrect == Spec => []FlushMeansSent
<1>1. Inv => FlushMeansSent
  BY DEF Inv, WriteInv, LiveInv, Covers, FlushMeansSent
<1>. QED  BY <1>1, InvHolds, PTL

(* Of a caller with short buffers that flushes after each, no byte is sent *)
(* twice or out of order, nor behind one that was not sent.                *)
THEOREM CarefulIsExact == Spec => []CarefulWriteOnce
<1>1. Inv => CarefulWriteOnce
  BY DEF Inv, WriteInv, WireInv, Careful, Counts, WriteOnce, CarefulWriteOnce
<1>. QED  BY <1>1, InvHolds, PTL

(* Between polls the bytes read, those left over and the payloads in the   *)
(* channel are all that the server sent, in order and each once.           *)
THEOREM ReadOnceCorrect == Spec => []ReadOnce
<1>1. Inv => ReadOnce
  <2>. SUFFICES ASSUME Inv, ~dropped
                PROVE  \E ends \in [0..Len(inbound) -> got..sent] : Continues(ends)
    BY DEF ReadOnce
  <2>1. PICK e : EndsCount(e, inbound) /\ Filled(e, inbound)
    BY DEF Inv, ReadInv
  <2>2. /\ Len(inbound) \in Nat /\ Len(leftover) \in Nat
        /\ got \in Nat /\ sent \in Nat
    BY DEF Inv, ReadInv
  <2>3. /\ e \in Seq(Nat) /\ Len(e) = Len(inbound) + 1 /\ e[Len(e)] = sent
        /\ e[1] = got + Len(leftover)
        /\ \A k \in 1..Len(inbound) : e[k + 1] = e[k] + Len(inbound[k])
    BY <2>1 DEF EndsCount
  <2>4. /\ leftover = Bytes(got, Len(leftover))
        /\ \A k \in 1..Len(inbound) : inbound[k] = Bytes(e[k], Len(inbound[k]))
        /\ \A j, k \in 1..Len(e) : j <= k => e[j] <= e[k]
    BY <2>1 DEF Filled
  <2>5. PICK ends : ends = [k \in 0..Len(inbound) |-> e[k + 1]]
    OBVIOUS
  <2>6. ASSUME NEW k \in 0..Len(inbound)
        PROVE  ends[k] = e[k + 1] /\ ends[k] \in got..sent
    <3>1. k + 1 \in 1..Len(e) /\ 1 \in 1..Len(e) /\ Len(e) \in 1..Len(e)
      BY <2>2, <2>3
    <3>2. e[1] <= e[k + 1] /\ e[k + 1] <= e[Len(e)] /\ e[k + 1] \in Nat
      BY <2>3, <2>4, <3>1
    <3>. QED  BY <2>2, <2>3, <2>5, <3>2
  <2>7. ends \in [0..Len(inbound) -> got..sent]
    BY <2>5, <2>6
  <2>8. ends[0] = got + Len(leftover) /\ ends[Len(inbound)] = sent
    BY <2>2, <2>3, <2>6
  <2>9. ASSUME NEW k \in 1..Len(inbound)
        PROVE  /\ inbound[k] = Bytes(ends[k - 1], Len(inbound[k]))
               /\ ends[k] = ends[k - 1] + Len(inbound[k])
    <3>1. k - 1 \in 0..Len(inbound) /\ k \in 0..Len(inbound) /\ (k - 1) + 1 = k
      BY <2>2
    <3>2. ends[k - 1] = e[k] /\ ends[k] = e[k + 1]
      BY <2>6, <3>1
    <3>. QED  BY <2>3, <2>4, <3>2
  <2>10. Continues(ends)
    BY <2>4, <2>8, <2>9 DEF Continues
  <2>. QED  BY <2>7, <2>10
<1>. QED  BY <1>1, InvHolds, PTL

(* The end of the stream is reported once all that the server sent has     *)
(* been read, or after a shutdown, and no byte is read after it.           *)
THEOREM EofCorrect == Spec => EofIsComplete
<1>. DEFINE A == /\ eof' /\ ~eof => closed \/ (~entry /\ got = sent)
                 /\ eof => got' = got
<1>1. Inv /\ [Next]_vars => [A]_vars
  <2>. SUFFICES ASSUME Inv, Next PROVE A
    OBVIOUS
  <2>1. ASSUME NEW room, Read(room) PROVE A
    BY <2>1, NothingLeft DEF Read, Serve, SkipEmpty, ReadEof, Inv, ReadInv
  <2>2. ASSUME ~(\E room : Read(room)) PROVE eof' = eof /\ got' = got
    BY <2>2 DEF Next, WriteHalf, ReadHalf, Environment, Write, Flush, Abandon,
       Shutdown, Drop, ServerData, PeerClose, Continue, LinkFails, appVars
  <2>. QED  BY <2>1, <2>2
<1>. HIDE DEF A
<1>2. Spec => [][A]_vars
  BY <1>1, InvHolds, PTL DEF Spec
<1>. QED  BY <1>2 DEF A, EofIsComplete

=============================================================================
