-------------------------- MODULE WasmSocketProofs --------------------------
(***************************************************************************)
(* WasmSocket for any number of calls and messages, whether writes wait    *)
(* or not.                                                                 *)
(***************************************************************************)
EXTENDS WasmSocket, TLAPS

Task == ({"send"} \X (Nat \ {0})) \cup ({"close", "pump"} \X {0})
Keeper == ({"send"} \X (Nat \ {0}) \X {1}) \cup ({"close"} \X {0} \X {2})
TypeOK ==
  /\ readyState \in 0..3 /\ conn \in {"none", "cell", "pump"}
  /\ holder = <<>> \/ holder \in Keeper
  /\ queue \in Seq(Task)
  /\ connecting \in BOOLEAN /\ pump \in {"none", "queued", "recv", "gone"}
  /\ calls \in Nat /\ wire \in Seq(Nat)

(* Before it is connected the cell is empty, and so is the wire.           *)
Before ==
  connecting => conn = "none" /\ holder = <<>> /\ wire = <<>> /\ pump = "none"

(* The receive task waits in the queue once at most, with the connection   *)
(* in the cell, and has the connection when it receives.                   *)
IsPump(k) == queue[k][1] = "pump"
PumpOnce ==
  /\ \A k \in 1..Len(queue) : IsPump(k) => pump = "queued"
  /\ \A j, k \in 1..Len(queue) : IsPump(j) /\ IsPump(k) => j = k
  /\ pump = "queued" => conn = "cell"
  /\ pump = "recv" <=> conn = "pump"

(* A task that keeps the cell across its write has found a state in which  *)
(* no close frame has been written.                                        *)
NoClose == \A k \in 1..Len(wire) : wire[k] # 0
Holding ==
  /\ readyState < 2 => NoClose
  /\ holder # <<>> =>
       /\ conn = "cell" /\ NoClose
       /\ readyState = holder[3]

(* After the end there is no connection, and no task that would have one.  *)
Ended ==
  ended => ~connecting /\ conn = "none" /\ pump \in {"none", "gone"}

Inv ==
  TypeOK /\ Before /\ PumpOnce /\ Holding /\ Ended /\ OpenIsServed
    /\ NoDataAfterClose

-----------------------------------------------------------------------------
(* What a script spawns is no receive task, so the queue keeps its order.  *)
LEMMA SpawnedKeepsPump ==
  ASSUME Inv, NEW s \in Script, queue' = queue \o Spawned(s)
  PROVE  /\ queue' \in Seq(Task)
         /\ Len(queue') >= Len(queue)
         /\ \A k \in 1..Len(queue') :
              IF k \in 1..Len(queue) THEN queue'[k] = queue[k]
              ELSE queue'[k][1] # "pump"
<1>1. queue \in Seq(Task) /\ calls + 1 \in Nat \ {0}
  BY DEF Inv, TypeOK
<1>2. Spawned(s) \in {<<>>, << <<"send", calls + 1>> >>, << <<"close", 0>> >>}
  BY DEF Spawned, Script
<1>3. CASE Spawned(s) = <<>>
  BY <1>1, <1>3 DEF Task
<1>4. CASE Spawned(s) = << <<"send", calls + 1>> >>
  BY <1>1, <1>4 DEF Task
<1>5. CASE Spawned(s) = << <<"close", 0>> >>
  BY <1>1, <1>5 DEF Task
<1>. QED  BY <1>2, <1>3, <1>4, <1>5

(* The queue without its head.                                             *)
LEMMA TailKeepsPump ==
  ASSUME Inv, queue # <<>>, queue' = Tail(queue)
  PROVE  /\ queue' \in Seq(Task)
         /\ Len(queue') = Len(queue) - 1 /\ Len(queue') \in Nat
         /\ \A k \in 1..Len(queue') : k + 1 \in 1..Len(queue) /\ queue'[k] = queue[k + 1]
         /\ 1 \in 1..Len(queue) /\ Next1 = queue[1]
BY DEF Inv, TypeOK, Next1

(* A write leaves the wire as it is, or adds a frame where no close frame  *)
(* is.                                                                     *)
LEMMA WriteKeepsOrder ==
  ASSUME Inv, NoClose, NEW f \in Nat, wire' = wire \/ wire' = Append(wire, f)
  PROVE  wire' \in Seq(Nat) /\ NoDataAfterClose' /\ (f # 0 \/ wire' = wire => NoClose')
<1>1. wire \in Seq(Nat) /\ Len(wire) \in Nat
  BY DEF Inv, TypeOK
<1>2. CASE wire' = wire
  BY <1>1, <1>2 DEF Inv, NoClose, NoDataAfterClose
<1>3. CASE wire' = Append(wire, f)
  <2>1. /\ wire' \in Seq(Nat) /\ Len(wire') = Len(wire) + 1
        /\ \A k \in 1..Len(wire) : wire'[k] = wire[k] /\ wire[k] # 0
        /\ wire'[Len(wire) + 1] = f
    BY <1>1, <1>3 DEF NoClose
  <2>2. NoDataAfterClose'
    <3>. SUFFICES ASSUME NEW i \in 1..Len(wire'), NEW j \in 1..Len(wire'), i < j
                  PROVE  wire'[i] # 0
      BY DEF NoDataAfterClose
    <3>1. Len(wire') = Len(wire) + 1 /\ i \in 1..Len(wire)
      BY <1>1, <2>1
    <3>. QED  BY <2>1, <3>1
  <2>3. f # 0 => NoClose'
    BY <1>1, <2>1 DEF NoClose
  <2>4. wire' # wire
    BY <1>1, <2>1
  <2>. QED  BY <2>1, <2>2, <2>3, <2>4
<1>. QED  BY <1>2, <1>3

LEMMA InitInv == Init => Inv
BY DEF Init, Inv, TypeOK, Before, PumpOnce, IsPump, Holding, NoClose, Ended,
       OpenIsServed, NoDataAfterClose

-----------------------------------------------------------------------------
(* The script, and the task that connects.                                 *)
LEMMA CallInv ==
  ASSUME Inv, NEW s \in Script, Call(s)
  PROVE  Inv'
<1>1. /\ queue' \in Seq(Task)
      /\ \A k \in 1..Len(queue') :
           IF k \in 1..Len(queue) THEN queue'[k] = queue[k]
           ELSE queue'[k][1] # "pump"
  BY SpawnedKeepsPump DEF Call
<1>2. TypeOK'
  BY <1>1 DEF Call, Runs, Inv, TypeOK
<1>3. PumpOnce'
  BY <1>1 DEF Call, Inv, PumpOnce, IsPump
<1>4. Before' /\ Holding' /\ Ended' /\ NoDataAfterClose'
  BY DEF Call, Inv, Before, Holding, NoClose, Ended, NoDataAfterClose
<1>5. OpenIsServed'
  BY DEF Call, Runs, Inv, OpenIsServed
<1>. QED  BY <1>2, <1>3, <1>4, <1>5 DEF Inv

LEMMA ConnectOkInv ==
  ASSUME Inv, NEW s \in Script, ConnectOk(s)
  PROVE  Inv'
<1>1. /\ conn = "none" /\ holder = <<>> /\ wire = <<>> /\ pump = "none"
      /\ ~ended /\ connecting' = FALSE /\ conn' = "cell" /\ readyState' = 1
      /\ pump' = "queued" /\ UNCHANGED <<holder, wire, ended>>
  BY DEF ConnectOk, Inv, Before, Ended
<1>2. PICK q : /\ q = queue \o Spawned(s)
               /\ queue' = q \o << <<"pump", 0>> >>
  BY DEF ConnectOk
<1>3. /\ queue \in Seq(Task)
      /\ \A k \in 1..Len(queue) : queue[k][1] # "pump"
  BY <1>1 DEF Inv, TypeOK, PumpOnce, IsPump
<1>4. /\ q \in Seq(Task)
      /\ \A k \in 1..Len(q) : q[k][1] # "pump"
  <2>1. Spawned(s) \in {<<>>, << <<"send", calls + 1>> >>, << <<"close", 0>> >>}
    BY DEF Spawned, Script
  <2>2. calls + 1 \in Nat \ {0}
    BY DEF Inv, TypeOK
  <2>3. CASE Spawned(s) = <<>>
    BY <1>2, <1>3, <2>3
  <2>4. CASE Spawned(s) = << <<"send", calls + 1>> >>
    BY <1>2, <1>3, <2>2, <2>4 DEF Task
  <2>5. CASE Spawned(s) = << <<"close", 0>> >>
    BY <1>2, <1>3, <2>5 DEF Task
  <2>. QED  BY <2>1, <2>3, <2>4, <2>5
<1>5. /\ queue' \in Seq(Task)
      /\ \A k \in 1..Len(queue') : queue'[k][1] = "pump" => k = Len(q) + 1
  BY <1>2, <1>4 DEF Task
<1>6. TypeOK'
  <2>1. calls' \in Nat
    BY DEF ConnectOk, Runs, Inv, TypeOK
  <2>2. readyState' \in 0..3 /\ wire' \in Seq(Nat)
    BY <1>1
  <2>. QED  BY <1>1, <1>5, <2>1, <2>2 DEF TypeOK
<1>7. PumpOnce'
  BY <1>1, <1>5 DEF PumpOnce, IsPump
<1>8. Before' /\ Holding' /\ Ended' /\ OpenIsServed' /\ NoDataAfterClose'
  BY <1>1 DEF Inv, Before, Holding, NoClose, Ended, OpenIsServed, NoDataAfterClose
<1>. QED  BY <1>6, <1>7, <1>8 DEF Inv

LEMMA ConnectErrInv ==
  ASSUME Inv, NEW s \in Script, ConnectErr(s)
  PROVE  Inv'
<1>1. /\ queue' \in Seq(Task)
      /\ \A k \in 1..Len(queue') :
           IF k \in 1..Len(queue) THEN queue'[k] = queue[k]
           ELSE queue'[k][1] # "pump"
  BY SpawnedKeepsPump DEF ConnectErr
<1>2. TypeOK'
  <2>1. calls' \in Nat
    BY DEF ConnectErr, Runs, Inv, TypeOK
  <2>. QED  BY <1>1, <2>1 DEF ConnectErr, Inv, TypeOK
<1>3. PumpOnce'
  BY <1>1 DEF ConnectErr, Inv, PumpOnce, IsPump
<1>4. Before' /\ Holding' /\ Ended' /\ NoDataAfterClose'
  BY DEF ConnectErr, Inv, Before, Holding, NoClose, Ended, NoDataAfterClose
<1>5. OpenIsServed'
  BY DEF ConnectErr, Runs, Inv, OpenIsServed
<1>. QED  BY <1>2, <1>3, <1>4, <1>5 DEF Inv

-----------------------------------------------------------------------------
(* The tasks of send and close.                                            *)
LEMMA RunSendInv ==
  ASSUME Inv, RunSend
  PROVE  Inv'
<1>1. /\ queue # <<>> /\ Next1[1] = "send" /\ queue' = Tail(queue)
      /\ UNCHANGED <<connecting, broken, calls, delivered, ended, conn, pump>>
  BY DEF RunSend, Panic
<1>2. /\ queue' \in Seq(Task)
      /\ \A k \in 1..Len(queue') : k + 1 \in 1..Len(queue) /\ queue'[k] = queue[k + 1]
      /\ Next1 \in Task
  BY <1>1, TailKeepsPump DEF Inv, TypeOK
<1>3. PumpOnce'
  BY <1>1, <1>2 DEF Inv, TypeOK, PumpOnce, IsPump
<1>4. panics' # panics => "pump" \in panics' <=> "pump" \in panics
  BY DEF RunSend, Panic
<1>5. CASE UNCHANGED <<readyState, holder, wire>>
  BY <1>1, <1>2, <1>3, <1>4, <1>5
     DEF Inv, TypeOK, Before, Holding, NoClose, Ended, OpenIsServed, NoDataAfterClose
<1>6. CASE ~UNCHANGED <<readyState, holder, wire>>
  <2>1. /\ holder = <<>> /\ readyState = 1 /\ conn = "cell" /\ panics' = panics
        /\ Write(Next1[2], <<"send", Next1[2], readyState>>, readyState)
    BY <1>6 DEF RunSend, Panic, MaySend
  <2>2. NoClose /\ Next1[2] \in Nat /\ ~connecting /\ ~ended
    BY <1>2, <2>1 DEF Task, Inv, Holding, Before, Ended
  <2>3. readyState' = 1
    BY <2>1 DEF Write
  <2>4. \/ holder' = <<>>
        \/ holder' = <<"send", Next1[2], 1>> /\ wire' = wire
    BY <2>1 DEF Write
  <2>5. wire' = wire \/ wire' = Append(wire, Next1[2])
    BY <2>1 DEF Write
  <2>6. Next1[2] # 0
    BY <1>1, <1>2 DEF Task
  <2>7. wire' \in Seq(Nat) /\ NoDataAfterClose' /\ NoClose'
    BY <2>2, <2>5, <2>6, WriteKeepsOrder
  <2>8. TypeOK'
    BY <1>1, <1>2, <2>2, <2>3, <2>4, <2>6, <2>7 DEF Inv, TypeOK, Keeper
  <2>9. Before' /\ Ended' /\ OpenIsServed'
    BY <1>1, <2>1, <2>2, <2>3 DEF Inv, Before, Ended, OpenIsServed
  <2>10. Holding'
    BY <1>1, <2>1, <2>3, <2>4, <2>7 DEF Holding
  <2>. QED  BY <1>3, <2>7, <2>8, <2>9, <2>10 DEF Inv
<1>. QED  BY <1>5, <1>6

LEMMA RunCloseInv ==
  ASSUME Inv, RunClose
  PROVE  Inv'
<1>1. /\ queue # <<>> /\ Next1[1] = "close" /\ queue' = Tail(queue)
      /\ UNCHANGED <<connecting, broken, calls, delivered, ended, conn, pump>>
  BY DEF RunClose, Panic
<1>2. /\ queue' \in Seq(Task)
      /\ \A k \in 1..Len(queue') : k + 1 \in 1..Len(queue) /\ queue'[k] = queue[k + 1]
  BY <1>1, TailKeepsPump DEF Inv, TypeOK
<1>3. PumpOnce'
  BY <1>1, <1>2 DEF Inv, TypeOK, PumpOnce, IsPump
<1>4. panics' # panics => "pump" \in panics' <=> "pump" \in panics
  BY DEF RunClose, Panic
<1>5. CASE UNCHANGED <<readyState, holder, wire>>
  BY <1>1, <1>2, <1>3, <1>4, <1>5
     DEF Inv, TypeOK, Before, Holding, NoClose, Ended, OpenIsServed, NoDataAfterClose
<1>6. CASE readyState' = 3 /\ UNCHANGED <<holder, wire>> /\ holder = <<>>
  BY <1>1, <1>2, <1>3, <1>6
     DEF Inv, TypeOK, Before, Holding, NoClose, Ended, OpenIsServed, NoDataAfterClose
<1>7. CASE /\ holder = <<>> /\ readyState < 2 /\ conn = "cell"
           /\ Write(0, <<"close", 0, 2>>, 3)
  <2>1. NoClose /\ ~connecting /\ ~ended
    BY <1>7 DEF Inv, Holding, Before, Ended
  <2>2. \/ holder' = <<>> /\ readyState' = 3
        \/ holder' = <<"close", 0, 2>> /\ wire' = wire /\ readyState' = 2
    BY <1>7 DEF Write
  <2>3. wire' = wire \/ wire' = Append(wire, 0)
    BY <1>7 DEF Write
  <2>4. wire' \in Seq(Nat) /\ NoDataAfterClose' /\ (wire' = wire => NoClose')
    BY <2>1, <2>3, WriteKeepsOrder
  <2>5. TypeOK'
    BY <1>1, <1>2, <2>1, <2>2, <2>4 DEF Inv, TypeOK, Keeper
  <2>6. Before' /\ Ended' /\ OpenIsServed'
    BY <1>1, <1>7, <2>1, <2>2 DEF Inv, Before, Ended, OpenIsServed
  <2>7. Holding'
    BY <1>1, <1>7, <2>2, <2>4 DEF Holding
  <2>. QED  BY <1>3, <2>4, <2>5, <2>6, <2>7 DEF Inv
<1>. QED  BY <1>5, <1>6, <1>7 DEF RunClose, Panic

LEMMA ResumeInv ==
  ASSUME Inv, Resume
  PROVE  Inv'
<1>1. /\ holder \in Keeper /\ conn = "cell" /\ NoClose /\ readyState = holder[3]
      /\ ~connecting /\ ~ended
  BY DEF Resume, Inv, TypeOK, Holding, Before, Ended
<1>2. /\ holder' = <<>>
      /\ UNCHANGED <<conn, queue, connecting, pump, calls, ended, panics>>
  BY DEF Resume
<1>3. /\ holder[2] \in Nat
      /\ \/ holder[2] # 0 /\ readyState' = 1
         \/ readyState' = 3
  BY <1>1 DEF Resume, Keeper
<1>4. wire' = wire \/ wire' = Append(wire, holder[2])
  BY DEF Resume
<1>5. wire' \in Seq(Nat) /\ NoDataAfterClose' /\ (holder[2] # 0 => NoClose')
  BY <1>1, <1>3, <1>4, WriteKeepsOrder
<1>6. TypeOK'
  BY <1>2, <1>3, <1>5 DEF Inv, TypeOK
<1>7. PumpOnce'
  BY <1>2 DEF Inv, PumpOnce, IsPump
<1>8. Before' /\ Ended' /\ Holding'
  BY <1>1, <1>2, <1>3, <1>5 DEF Before, Ended, Holding
<1>9. OpenIsServed'
  <2>1. readyState' = 1 => readyState = 1
    BY <1>1 DEF Resume, Keeper
  <2>. QED  BY <1>2, <2>1 DEF Inv, OpenIsServed
<1>. QED  BY <1>5, <1>6, <1>7, <1>8, <1>9 DEF Inv

-----------------------------------------------------------------------------
(* The receive task.                                                       *)
LEMMA StartPumpInv ==
  ASSUME Inv, StartPump
  PROVE  Inv'
<1>1. /\ queue # <<>> /\ Next1[1] = "pump" /\ queue' = Tail(queue)
      /\ UNCHANGED <<readyState, holder, connecting, broken, calls, wire, ended>>
  BY DEF StartPump
<1>2. /\ queue' \in Seq(Task) /\ 1 \in 1..Len(queue) /\ Next1 = queue[1]
      /\ \A k \in 1..Len(queue') : k + 1 \in 1..Len(queue) /\ queue'[k] = queue[k + 1]
  BY <1>1, TailKeepsPump DEF Inv, TypeOK
<1>3. pump = "queued" /\ conn = "cell" /\ ~connecting /\ ~ended
  BY <1>1, <1>2 DEF Inv, PumpOnce, IsPump, Before, Ended
<1>4. \A k \in 1..Len(queue') : queue'[k][1] # "pump"
  BY <1>1, <1>2 DEF Inv, PumpOnce, IsPump
<1>5. \/ /\ "pump" \in panics' /\ pump' = "gone" /\ conn' = "cell"
      \/ /\ holder = <<>> /\ readyState < 2 /\ conn' = "pump" /\ pump' = "recv"
      \/ /\ holder = <<>> /\ readyState >= 2 /\ conn' = "cell" /\ pump' = "gone"
  BY <1>3 DEF StartPump, Loop
<1>6. TypeOK'
  BY <1>1, <1>2, <1>5 DEF Inv, TypeOK
<1>7. PumpOnce'
  BY <1>4, <1>5 DEF PumpOnce, IsPump
<1>8. Before' /\ Ended' /\ Holding' /\ OpenIsServed' /\ NoDataAfterClose'
  BY <1>1, <1>3, <1>5
     DEF Inv, Before, Ended, Holding, NoClose, OpenIsServed, NoDataAfterClose
<1>. QED  BY <1>6, <1>7, <1>8 DEF Inv

LEMMA MessageInv ==
  ASSUME Inv, NEW s \in Script, Message(s)
  PROVE  Inv'
<1>1. /\ queue' \in Seq(Task)
      /\ \A k \in 1..Len(queue') :
           IF k \in 1..Len(queue) THEN queue'[k] = queue[k]
           ELSE queue'[k][1] # "pump"
  BY SpawnedKeepsPump DEF Message
<1>2. /\ pump = "recv" /\ holder = <<>> /\ ~ended /\ ~connecting
      /\ UNCHANGED <<readyState, holder, connecting, broken, wire, ended>>
      /\ \/ readyState < 2 /\ conn' = "pump" /\ pump' = "recv"
         \/ readyState >= 2 /\ conn' = "cell" /\ pump' = "gone"
  BY DEF Message, LoopAgain, Loop, Inv, Before, Ended
<1>3. calls' \in Nat
  BY DEF Message, Runs, Inv, TypeOK
<1>4. TypeOK'
  BY <1>1, <1>2, <1>3 DEF Inv, TypeOK
<1>5. PumpOnce'
  BY <1>1, <1>2 DEF Inv, PumpOnce, IsPump
<1>6. Before' /\ Ended' /\ Holding' /\ OpenIsServed' /\ NoDataAfterClose'
  BY <1>2 DEF Inv, Before, Ended, Holding, NoClose, OpenIsServed, NoDataAfterClose
<1>. QED  BY <1>4, <1>5, <1>6 DEF Inv

LEMMA EndInv ==
  ASSUME Inv, NEW s \in Script, End(s)
  PROVE  Inv'
<1>1. /\ queue' \in Seq(Task)
      /\ \A k \in 1..Len(queue') :
           IF k \in 1..Len(queue) THEN queue'[k] = queue[k]
           ELSE queue'[k][1] # "pump"
  BY SpawnedKeepsPump DEF End
<1>2. /\ pump = "recv" /\ holder = <<>> /\ ~connecting
      /\ conn' = "none" /\ pump' = "gone" /\ readyState' = 3
      /\ UNCHANGED <<holder, connecting, broken, wire>>
  BY DEF End, Break, Inv, Before
<1>3. calls' \in Nat
  BY DEF End, Runs, Inv, TypeOK
<1>4. TypeOK'
  BY <1>1, <1>2, <1>3 DEF Inv, TypeOK
<1>5. PumpOnce'
  BY <1>1, <1>2 DEF Inv, PumpOnce, IsPump
<1>6. Before' /\ Ended' /\ Holding' /\ OpenIsServed' /\ NoDataAfterClose'
  BY <1>2 DEF Inv, Before, Ended, Holding, NoClose, OpenIsServed, NoDataAfterClose
<1>. QED  BY <1>4, <1>5, <1>6 DEF Inv

-----------------------------------------------------------------------------
LEMMA StepInv == Inv /\ [Next]_vars => Inv'
<1>. SUFFICES ASSUME Inv, [Next]_vars PROVE Inv'
  OBVIOUS
<1>1. ASSUME NEW s \in Script, Call(s) PROVE Inv'
  BY <1>1, CallInv
<1>2. ASSUME NEW s \in Script, ConnectOk(s) PROVE Inv'
  BY <1>2, ConnectOkInv
<1>3. ASSUME NEW s \in Script, ConnectErr(s) PROVE Inv'
  BY <1>3, ConnectErrInv
<1>4. ASSUME NEW s \in Script, Message(s) PROVE Inv'
  BY <1>4, MessageInv
<1>5. ASSUME NEW s \in Script, End(s) PROVE Inv'
  BY <1>5, EndInv
<1>6. CASE StreamCloses \/ UNCHANGED vars
  BY <1>6 DEF StreamCloses, vars, Inv, TypeOK, Before, PumpOnce, IsPump,
     Holding, NoClose, Ended, OpenIsServed, NoDataAfterClose
<1>. QED  BY <1>1, <1>2, <1>3, <1>4, <1>5, <1>6, RunSendInv, RunCloseInv,
     ResumeInv, StartPumpInv DEF Next

LEMMA InvHolds == Spec => []Inv
<1>. QED  BY InitInv, StepInv, PTL DEF Spec

(* An open socket keeps a receive task with the connection, unless that    *)
(* task found the cell borrowed, however script and tasks interleave.      *)
THEOREM OpenIsServedCorrect == Spec => []OpenIsServed
<1>1. Inv => OpenIsServed
  BY DEF Inv
<1>. QED  BY <1>1, InvHolds, PTL

(* The close frame is the last that is written.                            *)
THEOREM CloseIsLast == Spec => []NoDataAfterClose
<1>1. Inv => NoDataAfterClose
  BY DEF Inv
<1>. QED  BY <1>1, InvHolds, PTL

(* After onclose or onerror the script gets no message.                    *)
THEOREM EndIsFinalCorrect == Spec => EndIsFinal
<1>1. Inv /\ [Next]_vars => [ended => delivered' = delivered /\ conn' # "pump"]_vars
  <2>. SUFFICES ASSUME Inv, Next, ended
                PROVE  delivered' = delivered /\ conn' # "pump"
    BY DEF vars
  <2>1. ~connecting /\ conn = "none" /\ pump \in {"none", "gone"}
    BY DEF Inv, Ended
  <2>2. queue # <<>> => Next1[1] # "pump"
    BY <2>1, TailKeepsPump DEF Inv, TypeOK, PumpOnce, IsPump, Next1
  <2>. QED  BY <2>1, <2>2 DEF Next, Call, ConnectOk, ConnectErr, Message, End,
       RunSend, RunClose, Panic, Resume, StartPump, StreamCloses
<1>. QED  BY <1>1, InvHolds, PTL DEF Spec, EndIsFinal
=============================================================================
