--------------------------- MODULE MuxCacheProofs ---------------------------
(***************************************************************************)
(* MuxCache for any number of calls, muxes, setters, URLs and relays, with *)
(* calls and setters overlapping in every way.                             *)
(***************************************************************************)
EXTENDS MuxCache, TLAPS

Busy(c) == pc[c] \in {"connect", "hello", "continue"}
Last == sets[Len(sets)]

(* What was set last is what is connected to.                              *)
Targets ==
  /\ Last \in Port => moonbeamPort = Last
  /\ \A m \in 1..Len(muxes) :
       muxes[m].born = Len(sets) /\ Last \in Port => muxes[m].target = Last

(* After a setter that found no call building, what is built, stored or    *)
(* taken by a later call was begun after it.                               *)
Fresh ==
  quiet =>
    /\ cache # 0 => muxes[cache].born = Len(sets)
    /\ \A c \in Caller :
         Busy(c) \/ (pc[c] = "use" /\ started[c] = Len(sets))
           => muxes[mine[c]].born = Len(sets)

(* A mux built under the present setting that is up has been stored; and   *)
(* of two built one after the other the first has failed for good.         *)
Stored ==
  /\ \A m \in 1..Len(muxes) :
       muxes[m].up /\ muxes[m].born = Len(sets) => cache # 0
  /\ \A m, n \in 1..Len(muxes) :
       m < n /\ muxes[m].born = muxes[n].born /\ m \notin muxes[n].amid
         => ~muxes[m].up /\ m \notin Building

Inv == TypeOK /\ UsedMuxIsUp /\ Targets /\ Fresh /\ Stored

-----------------------------------------------------------------------------
LEMMA BuildingIsBusy ==
  ASSUME TypeOK, NEW m
  PROVE  m \in Building <=> \E c \in Caller : Busy(c) /\ mine[c] = m
BY DEF Building, Busy, TypeOK

LEMMA BusyIsFresh ==
  ASSUME Fresh, quiet, NEW c \in Caller, Busy(c)
  PROVE  muxes[mine[c]].born = Len(sets)
<1>1. \A d \in Caller : Busy(d) => muxes[mine[d]].born = Len(sets)
  BY DEF Fresh
<1>. QED  BY <1>1

LEMMA InitInv == Init => Inv
<1>. SUFFICES ASSUME Init PROVE Inv
  OBVIOUS
<1>1. sets = <<FirstUrl>> /\ Len(sets) = 1 /\ Last = FirstUrl
  BY DEF Init, Last
<1>2. muxes = <<>> /\ Len(muxes) = 0 /\ 1..Len(muxes) = {} /\ muxes \in Seq(Mux)
  BY DEF Init
<1>3. TypeOK
  BY <1>1, <1>2, ConstantsAssumption DEF Init, TypeOK
<1>4. UsedMuxIsUp /\ Targets /\ Fresh /\ Stored
  BY <1>1, <1>2, ConstantsAssumption
     DEF Init, UsedMuxIsUp, Targets, Fresh, Stored, Busy
<1>. QED  BY <1>3, <1>4 DEF Inv

(* The setters.                                                            *)
LEMMA SetterInv ==
  ASSUME Inv, NEW t \in Url \cup Port, sets' = Append(sets, t),
         quiet' = (Building = {}), cache' = 0,
         t \in Port => moonbeamPort' = t /\ wispUrl' = None,
         t \in Url => wispUrl' = t /\ moonbeamPort' = moonbeamPort,
         UNCHANGED <<muxVars, callVars>>
  PROVE  Inv'
<1>. USE DEF muxVars, callVars
<1>1. /\ sets \in Seq(Url \cup Port) /\ sets' \in Seq(Url \cup Port)
      /\ Len(sets) \in Nat /\ Len(sets') = Len(sets) + 1 /\ sets' # <<>>
      /\ Last' = t
  BY DEF Inv, TypeOK, Last
<1>2. muxes' = muxes /\ pc' = pc /\ mine' = mine /\ started' = started
  OBVIOUS
<1>3. Len(muxes) \in Nat /\ \A m \in 1..Len(muxes) : muxes[m] \in Mux
  BY DEF Inv, TypeOK
<1>4. \A m \in 1..Len(muxes) : muxes[m].born < Len(sets')
  BY <1>1, <1>3 DEF Inv, TypeOK, Mux
<1>5. TypeOK'
  <2>1. started' \in [Caller -> 0..Len(sets')]
    BY <1>1, <1>2 DEF Inv, TypeOK
  <2>2. \A m \in 1..Len(muxes') : muxes'[m].born <= Len(sets')
    BY <1>1, <1>2, <1>3, <1>4 DEF Mux
  <2>3. /\ wispUrl' \in Url \cup {None} /\ moonbeamPort' \in Port \cup {None}
        /\ moonbeamPort' = None => wispUrl' \in Url
    BY ConstantsAssumption DEF Inv, TypeOK
  <2>4. quiet' \in BOOLEAN /\ cache' \in 0..Len(muxes')
    BY <1>2, <1>3
  <2>. QED  BY <1>1, <1>2, <2>1, <2>2, <2>3, <2>4 DEF Inv, TypeOK
<1>6. UsedMuxIsUp'
  BY <1>2 DEF Inv, UsedMuxIsUp
<1>7. Targets'
  BY <1>1, <1>2, <1>4, ConstantsAssumption DEF Targets
<1>8. Fresh'
  <2>1. ASSUME quiet', NEW c \in Caller PROVE ~Busy(c)
    BY <2>1, BuildingIsBusy DEF Inv
  <2>2. \A c \in Caller : started'[c] # Len(sets')
    BY <1>1, <1>2 DEF Inv, TypeOK
  <2>. QED  BY <1>2, <2>1, <2>2 DEF Fresh, Busy
<1>9. Stored'
  BY <1>1, <1>2, <1>4 DEF Inv, Stored, Building
<1>. QED  BY <1>5, <1>6, <1>7, <1>8, <1>9 DEF Inv

-----------------------------------------------------------------------------
(* A call that changes its own place, and no mux.                          *)
LEMMA MoveInv ==
  ASSUME Inv, NEW c \in Caller,
         NEW p \in {"idle", "connect", "hello", "continue", "use"},
         NEW m \in 0..Len(muxes), Goto(c, p, m), m = 0 <=> p = "idle",
         UNCHANGED <<confVars, muxes, setVars>>,
         NEW n \in 0..Len(sets), started' = [started EXCEPT ![c] = n],
         p = "use" => muxes[m].up,
         p = "use" /\ n = Len(sets) /\ quiet => muxes[m].born = Len(sets),
         p \in {"connect", "hello", "continue"} => Busy(c) /\ mine[c] = m
  PROVE  Inv'
<1>. USE DEF confVars, setVars, Goto
<1>1. /\ cache' = cache /\ sets' = sets /\ quiet' = quiet /\ muxes' = muxes
      /\ wispUrl' = wispUrl /\ moonbeamPort' = moonbeamPort /\ Last' = Last
  BY DEF Last
<1>2. \A d \in Caller : /\ pc'[d] = IF d = c THEN p ELSE pc[d]
                        /\ mine'[d] = IF d = c THEN m ELSE mine[d]
                        /\ started'[d] = IF d = c THEN n ELSE started[d]
  BY DEF Inv, TypeOK
<1>3. TypeOK'
  BY <1>1, <1>2 DEF Inv, TypeOK
<1>4. UsedMuxIsUp'
  BY <1>1, <1>2 DEF Inv, UsedMuxIsUp
<1>5. Targets'
  BY <1>1 DEF Inv, Targets
<1>6. Fresh'
  <2>1. ASSUME quiet, NEW d \in Caller,
               Busy(d)' \/ (pc'[d] = "use" /\ started'[d] = Len(sets))
        PROVE  muxes[mine'[d]].born = Len(sets)
    <3>1. CASE d = c
      <4>1. pc'[c] = p /\ mine'[c] = m /\ started'[c] = n
        BY <1>2
      <4>2. CASE p = "use"
        BY <2>1, <3>1, <4>1, <4>2 DEF Busy
      <4>3. CASE p \in {"connect", "hello", "continue"}
        <5>1. Busy(c) /\ mine[c] = m
          BY <4>3
        <5>. QED  BY <2>1, <3>1, <4>1, <5>1, BusyIsFresh DEF Inv
      <4>. QED  BY <2>1, <3>1, <4>1, <4>2, <4>3 DEF Busy
    <3>2. CASE d # c
      BY <1>2, <2>1, <3>2 DEF Inv, Fresh, Busy
    <3>. QED  BY <3>1, <3>2
  <2>. QED  BY <1>1, <2>1 DEF Inv, Fresh
<1>7. Building' \subseteq Building
  BY <1>2, BuildingIsBusy, <1>3 DEF Inv, Busy, Building
<1>8. Stored'
  BY <1>1, <1>7 DEF Inv, Stored
<1>. QED  BY <1>3, <1>4, <1>5, <1>6, <1>8 DEF Inv

(* A mux that has been built.                                              *)
LEMMA BuildInv == ASSUME Inv, NEW c \in Caller, Build(c) PROVE Inv'
<1>. DEFINE x == [target |-> Target, up |-> FALSE, born |-> Len(sets),
                  amid |-> Building]
            k == Len(muxes) + 1
<1>1. /\ pc[c] = "idle" /\ cache = 0 /\ muxes' = Append(muxes, x)
      /\ started' = [started EXCEPT ![c] = Len(sets)]
      /\ wispUrl' = wispUrl /\ moonbeamPort' = moonbeamPort /\ cache' = cache
      /\ sets' = sets /\ quiet' = quiet /\ Last' = Last
  BY DEF Build, confVars, setVars, Last
<1>2. /\ Len(muxes) \in Nat /\ muxes \in Seq(Mux) /\ Len(sets) \in Nat
      /\ Len(sets) > 0
  BY DEF Inv, TypeOK
<1>3. x \in Mux
  <2>1. Target \in Url \cup Port
    BY DEF Inv, TypeOK, Target
  <2>2. Building \subseteq Nat
    BY <1>2 DEF Building, Inv, TypeOK
  <2>. QED  BY <1>2, <2>1, <2>2 DEF Mux
<1>4. /\ Len(muxes') = k /\ k \in Nat /\ muxes'[k] = x /\ muxes' \in Seq(Mux)
      /\ \A m \in 1..Len(muxes) : muxes'[m] = muxes[m]
      /\ \A m \in 1..k : m \in 1..Len(muxes) \/ m = k
      /\ k \notin 1..Len(muxes)
  <2>. HIDE DEF x
  <2>. QED  BY <1>1, <1>2, <1>3
<1>5. PICK p \in {"hello", "connect"} : Goto(c, p, k)
  BY <1>4 DEF Build
<1>6. \A d \in Caller :
        /\ pc'[d] = IF d = c THEN p ELSE pc[d]
        /\ mine'[d] = IF d = c THEN k ELSE mine[d]
        /\ started'[d] = IF d = c THEN Len(sets) ELSE started[d]
  BY <1>1, <1>5 DEF Goto, Inv, TypeOK
<1>7. x.up = FALSE /\ x.born = Len(sets) /\ x.amid = Building /\ x.target = Target
  OBVIOUS
<1>. HIDE DEF x, k
<1>8. TypeOK'
  <2>1. /\ pc' \in [Caller -> {"idle", "connect", "hello", "continue", "use"}]
        /\ mine' \in [Caller -> 0..Len(muxes')]
        /\ started' \in [Caller -> 0..Len(sets')]
    <3>1. k \in 0..Len(muxes') /\ 0..Len(muxes) \subseteq 0..Len(muxes')
      BY <1>2, <1>4 DEF k
    <3>. QED  BY <1>1, <1>2, <1>5, <1>6, <3>1 DEF Goto, Inv, TypeOK
  <2>2. \A d \in Caller : mine'[d] = 0 <=> pc'[d] = "idle"
    BY <1>2, <1>6 DEF Inv, TypeOK, k
  <2>3. \A m \in 1..Len(muxes') : muxes'[m].born <= Len(sets')
    BY <1>1, <1>2, <1>4, <1>7 DEF Inv, TypeOK
  <2>. QED  BY <1>1, <1>2, <1>4, <2>1, <2>2, <2>3 DEF Inv, TypeOK
<1>9. UsedMuxIsUp'
  <2>1. \A d \in Caller : pc[d] = "use" => mine[d] \in 1..Len(muxes)
    BY <1>2 DEF Inv, TypeOK
  <2>. QED  BY <1>1, <1>4, <1>6, <2>1 DEF Inv, UsedMuxIsUp
<1>10. Targets'
  <2>1. Last \in Port => Target = Last
    BY ConstantsAssumption DEF Inv, Targets, Target
  <2>. QED  BY <1>1, <1>4, <1>7, <2>1 DEF Inv, Targets
<1>11. Fresh'
  <2>1. \A d \in Caller : pc[d] # "idle" => mine[d] \in 1..Len(muxes)
    BY <1>2 DEF Inv, TypeOK
  <2>. QED  BY <1>1, <1>4, <1>6, <1>7, <2>1 DEF Inv, Fresh, Busy
<1>12. Stored'
  <2>1. \A m \in 1..Len(muxes) : m \in Building' => m \in Building
    BY <1>4, <1>6, <1>8, BuildingIsBusy DEF Building, Inv, Busy
  <2>2. ASSUME NEW m \in 1..Len(muxes')
        PROVE  muxes'[m].up => m \in 1..Len(muxes) /\ muxes'[m] = muxes[m]
    BY <1>4, <1>7
  <2>3. \A m \in 1..Len(muxes') :
          muxes'[m].up /\ muxes'[m].born = Len(sets') => cache' # 0
    BY <1>1, <2>2 DEF Inv, Stored
  <2>4. ASSUME NEW m \in 1..Len(muxes'), NEW n \in 1..Len(muxes'), m < n,
               muxes'[m].born = muxes'[n].born, m \notin muxes'[n].amid
        PROVE  ~muxes'[m].up /\ m \notin Building'
    <3>1. m \in 1..Len(muxes) /\ muxes'[m] = muxes[m]
      BY <1>2, <1>4, <2>4 DEF k
    <3>2. CASE n \in 1..Len(muxes)
      BY <1>4, <2>1, <2>4, <3>1, <3>2 DEF Inv, Stored
    <3>3. CASE n = k
      BY <1>1, <1>4, <1>7, <2>1, <2>4, <3>1, <3>3 DEF Inv, Stored
    <3>. QED  BY <1>4, <3>2, <3>3
  <2>. QED  BY <2>3, <2>4 DEF Stored
<1>. QED  BY <1>8, <1>9, <1>10, <1>11, <1>12 DEF Inv

LEMMA SeqUpdate ==
  ASSUME NEW S, NEW s \in Seq(S), NEW k \in 1..Len(s), NEW x \in S
  PROVE  LET t == [s EXCEPT ![k] = x] IN
         /\ t \in Seq(S) /\ Len(t) = Len(s)
         /\ \A m \in 1..Len(s) : m # k => t[m] = s[m]
OBVIOUS

(* A mux that is up: stored, and used by the call that built it.           *)
LEMMA EstablishInv ==
  ASSUME Inv, NEW c \in Caller, Busy(c), Establish(c),
         UNCHANGED <<wispUrl, moonbeamPort, started, setVars>>
  PROVE  Inv'
<1>. DEFINE k == mine[c]
<1>1. /\ k \in 1..Len(muxes) /\ Len(muxes) \in Nat
      /\ muxes \in Seq(Mux) /\ muxes[k] \in Mux
  BY DEF Inv, TypeOK, Busy
<1>2. /\ muxes' = [muxes EXCEPT ![k].up = TRUE] /\ cache' = k
      /\ pc' = [pc EXCEPT ![c] = "use"] /\ mine' = [mine EXCEPT ![c] = k]
      /\ sets' = sets /\ quiet' = quiet /\ started' = started
      /\ wispUrl' = wispUrl /\ moonbeamPort' = moonbeamPort /\ Last' = Last
  BY DEF Establish, Store, Goto, setVars, Last
<1>3. /\ mine' = mine
      /\ \A d \in Caller : pc'[d] = IF d = c THEN "use" ELSE pc[d]
  BY <1>2 DEF Inv, TypeOK
<1>4. /\ muxes'[k] = [muxes[k] EXCEPT !.up = TRUE]
      /\ Len(muxes') = Len(muxes)
      /\ \A m \in 1..Len(muxes) : m # k => muxes'[m] = muxes[m]
      /\ muxes' \in Seq(Mux)
  <2>1. [muxes[k] EXCEPT !.up = TRUE] \in Mux
    BY <1>1 DEF Mux
  <2>. DEFINE r == [muxes[k] EXCEPT !.up = TRUE]
  <2>2. muxes' = [muxes EXCEPT ![k] = r]
    BY <1>2
  <2>. HIDE DEF r, k
  <2>3. muxes'[k] = r
    <3>1. k \in DOMAIN muxes
      BY <1>1
    <3>. QED  BY <2>2, <3>1
  <2>. QED  BY <1>1, <2>1, <2>2, <2>3, SeqUpdate DEF r
<1>5. \A m \in 1..Len(muxes) : /\ muxes'[m].target = muxes[m].target
                               /\ muxes'[m].born = muxes[m].born
                               /\ muxes'[m].amid = muxes[m].amid
                               /\ muxes'[m].up = (m = k \/ muxes[m].up)
  <2>1. \A m \in 1..Len(muxes) : muxes[m] \in Mux
    BY <1>1
  <2>. QED  BY <1>4, <2>1 DEF Mux
<1>. HIDE DEF k
<1>6. TypeOK'
  <2>1. \A d \in Caller : pc'[d] = "idle" <=> pc[d] = "idle"
    BY <1>3 DEF Busy
  <2>. QED  BY <1>1, <1>2, <1>3, <1>4, <1>5, <2>1 DEF Inv, TypeOK
<1>7. UsedMuxIsUp'
  <2>1. muxes'[k].up
    BY <1>1, <1>5
  <2>2. \A d \in Caller : pc[d] = "use" => mine[d] \in 1..Len(muxes)
    BY <1>1 DEF Inv, TypeOK
  <2>. QED  BY <1>2, <1>3, <1>5, <2>1, <2>2 DEF Inv, UsedMuxIsUp, k
<1>8. Targets'
  BY <1>2, <1>4, <1>5 DEF Inv, Targets
<1>9. Fresh'
  <2>1. quiet => muxes[k].born = Len(sets)
    BY BusyIsFresh DEF Inv, k
  <2>2. ASSUME quiet, NEW d \in Caller,
               Busy(d)' \/ (pc'[d] = "use" /\ started[d] = Len(sets))
        PROVE  muxes'[mine[d]].born = Len(sets)
    <3>1. CASE d = c
      BY <1>1, <1>5, <2>1, <2>2, <3>1 DEF k
    <3>2. CASE d # c
      <4>1. muxes[mine[d]].born = Len(sets) /\ mine[d] \in 1..Len(muxes)
        BY <1>1, <1>3, <2>2, <3>2 DEF Inv, Fresh, TypeOK, Busy
      <4>. QED  BY <1>5, <4>1
    <3>. QED  BY <3>1, <3>2
  <2>. QED  BY <1>1, <1>2, <1>3, <1>5, <2>1, <2>2 DEF Fresh
<1>10. Stored'
  <2>1. Building' \subseteq Building
    BY <1>3 DEF Building
  <2>2. k \in Building
    BY BuildingIsBusy DEF Inv, k
  <2>. QED  BY <1>1, <1>2, <1>4, <1>5, <2>1, <2>2 DEF Inv, Stored
<1>. QED  BY <1>6, <1>7, <1>8, <1>9, <1>10 DEF Inv

-----------------------------------------------------------------------------
LEMMA CallInv ==
  ASSUME Inv, NEW c \in Caller,
         \/ UseCached(c) \/ Build(c) \/ Connected(c) \/ Fail(c)
         \/ RecvHello(c) \/ RecvContinue(c) \/ Done(c)
  PROVE  Inv'
<1>1. /\ started[c] \in 0..Len(sets) /\ mine[c] \in 0..Len(muxes)
      /\ started = [started EXCEPT ![c] = started[c]]
      /\ mine[c] = 0 <=> pc[c] = "idle"
      /\ Len(sets) \in 0..Len(sets) /\ 0 \in 0..Len(muxes)
  BY DEF Inv, TypeOK
<1>. DEFINE n == started[c]  k == mine[c]
<1>2. CASE UseCached(c)
  <2>1. /\ Goto(c, "use", cache) /\ cache # 0 /\ cache \in 0..Len(muxes)
        /\ started' = [started EXCEPT ![c] = Len(sets)]
        /\ UNCHANGED <<confVars, muxes, setVars>>
        /\ muxes[cache].up /\ (quiet => muxes[cache].born = Len(sets))
    BY <1>2 DEF UseCached, muxVars, Inv, TypeOK, UsedMuxIsUp, Fresh
  <2>. QED  BY <1>1, <2>1, MoveInv
<1>3. CASE Connected(c)
  <2>1. /\ Goto(c, "hello", k) /\ Busy(c) /\ k # 0
        /\ started' = [started EXCEPT ![c] = n]
        /\ UNCHANGED <<confVars, muxes, setVars>>
    BY <1>1, <1>3 DEF Connected, muxVars, Busy
  <2>. HIDE DEF n
  <2>. QED  BY <1>1, <2>1, MoveInv DEF n
<1>4. CASE Fail(c) \/ Done(c)
  <2>1. /\ Goto(c, "idle", 0)
        /\ started' = [started EXCEPT ![c] = n]
        /\ UNCHANGED <<confVars, muxes, setVars>>
    BY <1>1, <1>4 DEF Fail, Done, muxVars
  <2>. QED  BY <1>1, <2>1, MoveInv
<1>5. CASE RecvHello(c) /\ Head(inbox[mine[c]]) = "Info"
  <2>1. /\ Goto(c, "continue", k) /\ Busy(c) /\ k # 0
        /\ started' = [started EXCEPT ![c] = n]
        /\ UNCHANGED <<confVars, muxes, setVars>>
    BY <1>1, <1>5 DEF RecvHello, OnInfo, confVars, Busy
  <2>. QED  BY <1>1, <2>1, MoveInv
<1>6. CASE RecvHello(c) /\ Head(inbox[mine[c]]) = "Continue"
  BY <1>6, EstablishInv DEF RecvHello, Busy
<1>7. CASE RecvContinue(c)
  BY <1>7, EstablishInv DEF RecvContinue, Busy
<1>. QED  BY <1>2, <1>3, <1>4, <1>5, <1>6, <1>7, BuildInv DEF RecvHello

LEMMA NextInv == Inv /\ [Next]_vars => Inv'
<1>. SUFFICES ASSUME Inv, [Next]_vars PROVE Inv'
  OBVIOUS
<1>1. ASSUME NEW u \in Url, SetWebsocket(u) PROVE Inv'
  BY <1>1, SetterInv, ConstantsAssumption DEF SetWebsocket, Invalidate
<1>2. ASSUME NEW p \in Port, SetMoonbeamRelay(p) PROVE Inv'
  BY <1>2, SetterInv, ConstantsAssumption DEF SetMoonbeamRelay, Invalidate
<1>3. CASE UNCHANGED <<confVars, muxes, callVars, setVars>>
  <2>. USE <1>3 DEF confVars, callVars, setVars
  <2>1. TypeOK' /\ UsedMuxIsUp' /\ Targets'
    BY DEF Inv, TypeOK, UsedMuxIsUp, Targets, Last
  <2>2. Fresh' /\ Stored'
    BY DEF Inv, Fresh, Stored, Busy, Building
  <2>. QED  BY <2>1, <2>2 DEF Inv
<1>4. ASSUME NEW m \in 1..Len(muxes), Greet(m) PROVE Inv'
  BY <1>3, <1>4 DEF Greet
<1>5. CASE UNCHANGED vars
  BY <1>3, <1>5 DEF vars, muxVars
<1>. QED  BY <1>1, <1>2, <1>4, <1>5, CallInv DEF Next

THEOREM InvHolds == Spec => []Inv
<1>. QED  BY InitInv, NextInv, PTL DEF Spec

(* No call ever gets a mux whose handshake is not over, however many calls *)
(* build muxes over however many ports and URLs at a time.                 *)
THEOREM UsedMuxCorrect == Spec => []UsedMuxIsUp
<1>1. Inv => UsedMuxIsUp
  BY DEF Inv
<1>. QED  BY <1>1, InvHolds, PTL

(* A relay set while no call was building is what every later call uses.   *)
THEOREM RelayCorrect == Spec => []RelayTaken
<1>1. Inv => RelayTaken
  <2>. SUFFICES ASSUME Inv, quiet, Last \in Port,
                       NEW c \in Caller, pc[c] = "use", started[c] = Len(sets)
                PROVE  muxes[mine[c]].target = Last
    BY DEF RelayTaken, Last
  <2>1. mine[c] \in 1..Len(muxes)
    BY DEF Inv, TypeOK
  <2>. QED  BY <2>1 DEF Inv, Fresh, Targets
<1>. QED  BY <1>1, InvHolds, PTL

(* What is connected to is set, and calls, cell and muxes refer to each    *)
(* other within their ranges.                                              *)
THEOREM TypeCorrect == Spec => []TypeOK
<1>1. Inv => TypeOK
  BY DEF Inv
<1>. QED  BY <1>1, InvHolds, PTL

(* Only builds that overlap make a second mux under one setting.           *)
THEOREM SingleMuxCorrect == Spec => []SingleMux
<1>1. Inv => SingleMux
  BY DEF Inv, Stored, SingleMux
<1>. QED  BY <1>1, InvHolds, PTL
=============================================================================
