----------------------------- MODULE WasmSocket -----------------------------
(***************************************************************************)
(* The WebSocket of the browser bindings, drift-wasm/src/websocket.rs: one *)
(* RefCell shared by the script's object, the task that connects, the task *)
(* that receives, and a task for every call of send and close.             *)
(*                                                                         *)
(* One thread: a step is what runs between two awaits.  A task that        *)
(* borrows the cell while another keeps a RefMut across an await panics;   *)
(* that ends the task, and the wasm module goes on.                        *)
(***************************************************************************)
EXTENDS Naturals, Sequences

CONSTANTS
  Stalls,    \* whether a write may return Pending (no credit left)
  MaxCalls,  \* bound: calls of send and close
  MaxMsgs    \* bound: messages of the server

ASSUME ConstantsAssumption ==
  Stalls \in BOOLEAN /\ MaxCalls \in Nat /\ MaxMsgs \in Nat

VARIABLES
  readyState, \* WispWebSocketInner::ready_state
  conn,       \* where the WebSocketConn is: "none", the "cell", the "pump"
  holder,     \* the task that keeps a RefMut across its write, <<>> if none
  queue,      \* spawned tasks that have not been polled yet, oldest first
  connecting, \* the task of spawn_websocket is still connecting
  pump,       \* the receive task: "none", "queued", "recv" or "gone"
  broken,     \* the Wisp stream is closed: writes fail
  \* history
  calls,      \* calls of send and close so far; sends are numbered by it
  wire,       \* frames written: the number of a send, 0 for a close frame
  delivered,  \* messages passed to onmessage
  ended,      \* onclose or onerror has been called
  panics      \* who has panicked

vars == <<readyState, conn, holder, queue, connecting, pump, broken, calls,
          wire, delivered, ended, panics>>

Init ==
  /\ readyState = 0 /\ conn = "none" /\ holder = <<>> /\ queue = <<>>
  /\ connecting = TRUE /\ pump = "none" /\ broken = FALSE
  /\ calls = 0 /\ wire = <<>>
  /\ delivered = 0 /\ ended = FALSE /\ panics = {}

-----------------------------------------------------------------------------
(* What the script does in a callback or on its own: it calls send or      *)
(* close, which spawn a task, or it reads readyState or sets a callback,   *)
(* which borrows the cell at once and panics if it is not free for that.   *)
Script == {"nothing", "send", "close", "read", "set"}

Spawned(s) ==
  CASE s = "send"  -> << <<"send", calls + 1>> >>
    [] s = "close" -> << <<"close", 0>> >>
    [] OTHER       -> <<>>

Runs(s, refused) ==
  /\ s \in {"send", "close"} => calls < MaxCalls
  /\ calls' = IF s \in {"send", "close"} THEN calls + 1 ELSE calls
  /\ panics' = IF s \in refused THEN panics \cup {"script"} ELSE panics

Call(s) ==
  /\ UNCHANGED <<readyState, conn, holder, connecting, pump, broken, wire,
                 delivered, ended>>
  /\ Runs(s, IF holder # <<>> THEN {"read", "set"} ELSE {})
  /\ queue' = queue \o Spawned(s)

-----------------------------------------------------------------------------
(* spawn_websocket, the task that connects.                                *)

(* onopen runs under the RefMut; the receive task is spawned after it.     *)
ConnectOk(s) ==
  /\ connecting
  /\ connecting' = FALSE
  /\ conn' = "cell" /\ readyState' = 1
  /\ Runs(s, {"read", "set"})
  /\ queue' = queue \o Spawned(s) \o << <<"pump", 0>> >>
  /\ pump' = "queued"
  /\ UNCHANGED <<holder, broken, wire, delivered, ended>>

(* mux.open or the upgrade fails: onerror, under a shared borrow, and the  *)
(* state stays as it is.                                                   *)
ConnectErr(s) ==
  /\ connecting
  /\ connecting' = FALSE /\ ended' = TRUE
  /\ UNCHANGED <<readyState, conn, holder, pump, broken, wire, delivered>>
  /\ Runs(s, {"set"})
  /\ queue' = queue \o Spawned(s)

-----------------------------------------------------------------------------
(* The tasks of send and close.                                            *)

Next1 == Head(queue)

Panic(who) ==
  /\ panics' = panics \cup {who}
  /\ UNCHANGED <<readyState, conn, holder, pump, wire>>

(* The write of frame f, polled: after it the task runs readyState' = done *)
(* and releases the cell, or it is Pending and keeps it.                   *)
Write(f, wait, done) ==
  \/ /\ wire' = IF broken THEN wire ELSE Append(wire, f)
     /\ holder' = <<>> /\ readyState' = done
  \/ /\ Stalls /\ ~broken
     /\ wire' = wire /\ holder' = wait /\ readyState' = wait[3]

(* Mutant: a send looks for the connection only.                           *)
HasConn == conn = "cell"
MaySend == readyState = 1 /\ conn = "cell"

RunSend ==
  /\ queue # <<>> /\ Next1[1] = "send"
  /\ queue' = Tail(queue)
  /\ \/ holder # <<>> /\ Panic("send")
     \/ /\ holder = <<>> /\ ~MaySend
        /\ UNCHANGED <<readyState, conn, holder, pump, wire, panics>>
     \/ /\ holder = <<>> /\ MaySend
        /\ Write(Next1[2], <<"send", Next1[2], readyState>>, readyState)
        /\ UNCHANGED <<conn, pump, panics>>
  /\ UNCHANGED <<connecting, broken, calls, delivered, ended>>

RunClose ==
  /\ queue # <<>> /\ Next1[1] = "close"
  /\ queue' = Tail(queue)
  /\ \/ holder # <<>> /\ Panic("close")
     \/ /\ holder = <<>> /\ readyState >= 2
        /\ UNCHANGED <<readyState, conn, holder, pump, wire, panics>>
     \/ /\ holder = <<>> /\ readyState < 2 /\ conn # "cell"
        /\ readyState' = 3
        /\ UNCHANGED <<conn, holder, pump, wire, panics>>
     \/ /\ holder = <<>> /\ readyState < 2 /\ conn = "cell"
        /\ Write(0, <<"close", 0, 2>>, 3)
        /\ UNCHANGED <<conn, pump, panics>>
  /\ UNCHANGED <<connecting, broken, calls, delivered, ended>>

(* The write of the task that keeps the cell goes on.                      *)
Resume ==
  /\ holder # <<>>
  /\ wire' = IF broken THEN wire ELSE Append(wire, holder[2])
  /\ readyState' = IF holder[1] = "close" THEN 3 ELSE readyState
  /\ holder' = <<>>
  /\ UNCHANGED <<conn, queue, connecting, pump, broken, calls, delivered, ended, panics>>

-----------------------------------------------------------------------------
(* The receive task.                                                       *)

(* The top of its loop, with the connection at c.                          *)
Loop(c) ==
  \/ /\ readyState < 2 /\ c = "cell"
     /\ conn' = "pump" /\ pump' = "recv"
  \/ /\ readyState >= 2 \/ c # "cell"
     /\ conn' = c /\ pump' = "gone"

StartPump ==
  /\ queue # <<>> /\ Next1[1] = "pump"
  /\ queue' = Tail(queue)
  /\ \/ /\ holder # <<>>
        /\ panics' = panics \cup {"pump"} /\ pump' = "gone" /\ conn' = conn
     \/ /\ holder = <<>> /\ Loop(conn) /\ panics' = panics
  /\ UNCHANGED <<readyState, holder, connecting, broken, calls, wire,
                 delivered, ended>>

(* A message: the connection goes back to the cell, onmessage runs under   *)
(* the RefMut, and the loop takes the connection again.  Mutant: it is not *)
(* put back.                                                               *)
LoopWithout == Loop("none")
LoopAgain == Loop("cell")

Message(s) ==
  /\ pump = "recv" /\ holder = <<>> /\ delivered < MaxMsgs
  /\ delivered' = delivered + 1
  /\ LoopAgain
  /\ UNCHANGED <<readyState, holder, connecting, broken, wire, ended>>
  /\ Runs(s, {"read", "set"})
  /\ queue' = queue \o Spawned(s)

(* The end: a close frame, or an error; the connection is dropped.         *)
(* Mutant: the loop goes on.                                               *)
GoOn == LoopAgain /\ UNCHANGED readyState
Break == conn' = "none" /\ pump' = "gone" /\ readyState' = 3

End(s) ==
  /\ pump = "recv" /\ holder = <<>>
  /\ Break /\ ended' = TRUE
  /\ UNCHANGED <<holder, connecting, broken, wire, delivered>>
  /\ Runs(s, {"read", "set"})
  /\ queue' = queue \o Spawned(s)

(* The Wisp stream is closed (external).                                   *)
StreamCloses ==
  /\ ~broken /\ broken' = TRUE
  /\ UNCHANGED <<readyState, conn, holder, queue, connecting, pump, calls,
                 wire, delivered, ended, panics>>

Next ==
  \/ \E s \in Script : Call(s) \/ ConnectOk(s) \/ ConnectErr(s)
                         \/ Message(s) \/ End(s)
  \/ RunSend \/ RunClose \/ Resume \/ StartPump \/ StreamCloses

Spec == Init /\ [][Next]_vars

-----------------------------------------------------------------------------
(* Properties.                                                             *)

(* An open socket has a receive task that holds the connection or is about *)
(* to take it, so messages keep coming, unless that task has panicked; and *)
(* a task that keeps the cell across an await leaves the connection there. *)
OpenIsServed ==
  /\ readyState = 1 /\ "pump" \notin panics =>
       pump = "queued" \/ (pump = "recv" /\ conn = "pump")
  /\ holder # <<>> => conn = "cell"

(* After the close frame of this side no data frame is written, however    *)
(* the tasks of send and close are polled.                                 *)
NoDataAfterClose ==
  \A i, j \in 1..Len(wire) : i < j => wire[i] # 0

(* Once onclose or onerror has been called no message is passed on, and no *)
(* connection is kept.                                                     *)
EndIsFinal ==
  [][ended => delivered' = delivered /\ conn' # "pump"]_vars
=============================================================================
