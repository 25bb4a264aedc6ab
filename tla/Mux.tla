-------------------------------- MODULE Mux --------------------------------
(***************************************************************************)
(* The Wisp client multiplexer of drift-core/src/wisp/mux.rs: the          *)
(* handshake, the tasks that call open, send_data and close_stream, the    *)
(* inbound pump that loops over dispatch_inbound, and the readers of the   *)
(* streams.  The transport and the Wisp server at its other end are        *)
(* external and appear only through what they can do to the client.        *)
(*                                                                         *)
(* A step is what a task does between two points where another task can    *)
(* run: taking and releasing the parking_lot lock is one step, and so is   *)
(* handing a frame to the transport.                                       *)
(***************************************************************************)
EXTENDS Integers, Sequences, FiniteSets

CONSTANTS
  Caller,      \* tasks that call open, send_data and close_stream
  MaxU32,      \* u32::MAX: the largest stream id and the credit of UDP
  Grants,      \* the buffer sizes a CONTINUE packet may carry
  Preemptive,  \* TRUE: tasks are spread over threads (#[tokio::main]);
               \* FALSE: one thread, tasks switch at await points (wasm32)
  MaxWire,     \* bound: a call of send_data starts below this many DATA
  MaxInbound,  \* bound: DATA packets the server sends on one stream
  MaxGrants    \* bound: CONTINUE packets the server sends on one stream

ASSUME ConstantsAssumption ==
  /\ IsFiniteSet(Caller)
  /\ MaxU32 \in Nat \ {0}
  /\ Grants \subseteq 0..MaxU32
  /\ Preemptive \in BOOLEAN
  /\ MaxWire \in Nat /\ MaxInbound \in Nat /\ MaxGrants \in Nat

Id == 1..MaxU32
StreamType == {"Tcp", "Udp"}

(* A decoded server frame.  "Other" stands for INFO and CONNECT, which the *)
(* dispatcher ignores, "Bad" for a frame decode_packet rejects.            *)
Packet ==
  [type : {"Continue"}, id : 0..MaxU32, val : Grants]
    \cup [type : {"Info", "Other", "Bad"}, id : {0}, val : {0}]
    \cup [type : {"Data", "Close"}, id : Id, val : Nat]
Pkt(t, i, v) == [type |-> t, id |-> i, val |-> v]

VARIABLES
  \* MuxInner
  handshake,      \* "Pending" or "Established"
  nextId,         \* next_stream_id
  initialCredit,  \* initial_credit
  streams,        \* the keys of the streams map
  kind, credit,   \* StreamState of each stream that has been inserted
  \* the tasks: where each is in its call, and the stream of that call
  pc, sid,        \* (sid is 0 outside a call)
  returned,       \* streams whose open has returned Ok: the ids in use
  \* the pump: where it is, and the packet it is working on
  ppc, pid, pval, \* (pid is 0 between packets)
  \* the readers: inbound channel, last payload read, EOF seen
  inbound, got, eof,
  \* the transport and the server
  toClient,       \* frames in flight to the client
  link,           \* "up" until the connection fails or closes
  srv,            \* what the client's frames made of each stream
  srvPhase,       \* "start", "hello" (INFO sent), "up" (CONTINUE sent)
  srvSent,        \* DATA packets sent on each stream
  srvGrants,      \* CONTINUE packets sent on each stream
  \* history
  wire,           \* DATA packets handed to the transport
  granted,        \* sum of the credits the client was given
  cut             \* streams close_stream was called on

muxVars  == <<handshake, nextId, initialCredit, streams, kind, credit>>
taskVars == <<pc, sid, returned>>
pumpVars == <<ppc, pid, pval>>
readVars == <<inbound, got, eof>>
netVars  == <<toClient, link, srv, srvPhase, srvSent, srvGrants>>
histVars == <<wire, granted, cut>>
vars == <<muxVars, taskVars, pumpVars, readVars, netVars, histVars>>

Init ==
  /\ handshake = "Pending" /\ nextId = 1 /\ initialCredit = 0
  /\ streams = {}
  /\ kind = [i \in Id |-> "Tcp"] /\ credit = [i \in Id |-> 0]
  /\ pc = [c \in Caller |-> "idle"] /\ sid = [c \in Caller |-> 0]
  /\ returned = {}
  /\ ppc = "hello" /\ pid = 0 /\ pval = 0
  /\ inbound = [i \in Id |-> <<>>]
  /\ got = [i \in Id |-> 0] /\ eof = [i \in Id |-> FALSE]
  /\ toClient = <<>> /\ link = "up"
  /\ srv = [i \in Id |-> "none"] /\ srvPhase = "start"
  /\ srvSent = [i \in Id |-> 0] /\ srvGrants = [i \in Id |-> 0]
  /\ wire = [i \in Id |-> 0] /\ granted = [i \in Id |-> 0]
  /\ cut = {}

-----------------------------------------------------------------------------
(* The uplink.  What a client frame does to the server's view of a stream; *)
(* "illegal" records a frame no Wisp server can make sense of.             *)
View == {"none", "connected", "closed", "illegal"}

ServerView(view, type) ==
  CASE type = "Connect" -> IF view = "none" THEN "connected" ELSE "illegal"
    [] type = "Data"    -> IF view = "none" THEN "illegal" ELSE view
    [] type = "Close"   -> IF view = "none" THEN "illegal" ELSE "closed"

(* transport.send: on a working link the frame arrives.  On a dead one the *)
(* caller gets an error, or the frame is accepted and lost.                *)
Transmit(i, type) ==
  srv' = IF link = "up" THEN [srv EXCEPT ![i] = ServerView(@, type)] ELSE srv

(* A caller can name a stream once open has handed it the StreamHandle.    *)
(* Mutant: open returns before it has sent the CONNECT.                    *)
UsableOnceInserted(i) == i \in streams
Usable(i) == i \in returned

(* The entry leaves the streams map.  Mutant: it stays.                    *)
KeepEntry(i) == UNCHANGED streams
RemoveEntry(i) == streams' = streams \ {i}

(* The call of a task returns.                                             *)
Return(c) ==
  /\ pc' = [pc EXCEPT ![c] = "idle"]
  /\ sid' = [sid EXCEPT ![c] = 0]

-----------------------------------------------------------------------------
(* run_handshake, called once by the task that goes on as the pump.        *)

Establish(size) ==
  /\ handshake' = "Established" /\ initialCredit' = size
  /\ ppc' = "recv"

(* First frame: INFO leads to the v2 exchange, CONTINUE means a v1 server, *)
(* anything else, or another stream than 0, fails the handshake.           *)
RecvHello ==
  /\ ppc = "hello" /\ toClient # <<>>
  /\ LET p == Head(toClient) IN
       \/ /\ p.type = "Continue" /\ p.id = 0
          /\ Establish(p.val)
       \/ /\ p.type = "Info" /\ p.id = 0
          /\ ppc' = "sendInfo" /\ UNCHANGED <<handshake, initialCredit>>
       \/ /\ p.type \notin {"Continue", "Info"} \/ p.id # 0
          /\ ppc' = "dead" /\ UNCHANGED <<handshake, initialCredit>>
  /\ toClient' = Tail(toClient)
  /\ UNCHANGED <<nextId, streams, kind, credit, taskVars, pid, pval, readVars,
                 link, srv, srvPhase, srvSent, srvGrants, histVars>>

(* The client's INFO; the extensions in it do not matter to the mux.       *)
SendInfo ==
  /\ ppc = "sendInfo"
  /\ ppc' \in IF link = "up" THEN {"continue"} ELSE {"continue", "dead"}
  /\ UNCHANGED <<muxVars, taskVars, pid, pval, readVars, netVars, histVars>>

RecvContinue ==
  /\ ppc = "continue" /\ toClient # <<>>
  /\ LET p == Head(toClient) IN
       IF p.type = "Continue" /\ p.id = 0
         THEN Establish(p.val)
         ELSE ppc' = "dead" /\ UNCHANGED <<handshake, initialCredit>>
  /\ toClient' = Tail(toClient)
  /\ UNCHANGED <<nextId, streams, kind, credit, taskVars, pid, pval, readVars,
                 link, srv, srvPhase, srvSent, srvGrants, histVars>>

-----------------------------------------------------------------------------
(* open                                                                    *)

(* First critical section.  checked_add fails at u32::MAX before the id is *)
(* given out, so MaxU32 itself is never allocated, and the two branches    *)
(* that reset next_stream_id from 0 cannot be reached.                     *)
OpenAlloc(c) ==
  /\ pc[c] = "idle" /\ handshake = "Established"
  /\ nextId < MaxU32
  /\ sid' = [sid EXCEPT ![c] = nextId]
  /\ nextId' = nextId + 1
  /\ pc' = [pc EXCEPT ![c] = "insert"]
  /\ UNCHANGED <<handshake, initialCredit, streams, kind, credit, returned,
                 pumpVars, readVars, netVars, histVars>>

(* Second critical section; the caller's stream_type is chosen here.       *)
OpenInsert(c) ==
  /\ pc[c] = "insert"
  /\ LET i == sid[c] IN
       /\ streams' = streams \cup {i}
       /\ \E k \in StreamType :
            /\ kind' = [kind EXCEPT ![i] = k]
            /\ credit' = [credit EXCEPT
                            ![i] = IF k = "Tcp" THEN initialCredit ELSE MaxU32]
       /\ granted' = [granted EXCEPT ![i] = initialCredit]
  /\ pc' = [pc EXCEPT ![c] = "connect"]
  /\ UNCHANGED <<handshake, nextId, initialCredit, sid, returned, pumpVars,
                 readVars, netVars, wire, cut>>

(* CONNECT.  A transport error returns from open with the entry still in   *)
(* the streams map.                                                        *)
OpenConnect(c) ==
  /\ pc[c] = "connect"
  /\ Transmit(sid[c], "Connect")
  /\ returned' \in IF link = "up" THEN {returned \cup {sid[c]}}
                                  ELSE {returned, returned \cup {sid[c]}}
  /\ Return(c)
  /\ UNCHANGED <<muxVars, pumpVars, readVars, toClient, link, srvPhase,
                 srvSent, srvGrants, histVars>>

-----------------------------------------------------------------------------
(* send_data                                                               *)

(* "if st.credit > 0".  Mutant: off by one, the u32 underflows.            *)
HasCreditOrZero(i) == credit[i] >= 0
HasCredit(i) == credit[i] > 0

(* "st.credit -= 1", under the lock.  Mutant: the credit is only read.     *)
ReadCredit(i) == UNCHANGED credit
TakeCredit(i) == credit' = [credit EXCEPT ![i] = @ - 1]

(* The critical section of the loop, entered by a new call or by a call    *)
(* that was woken: fail on an unknown stream, pass a UDP stream, take a    *)
(* unit of TCP credit, or clone the Notify and leave to wait.  Without     *)
(* preemption no task runs between the unlock and notified().              *)
SendLock(c, i) ==
  /\ \/ pc[c] = "idle" /\ Usable(i) /\ wire[i] < MaxWire
     \/ pc[c] = "woken" /\ i = sid[c]
  /\ \/ i \notin streams /\ Return(c) /\ UNCHANGED credit
     \/ /\ i \in streams
        /\ sid' = [sid EXCEPT ![c] = i]
        /\ \/ /\ kind[i] = "Udp"
              /\ pc' = [pc EXCEPT ![c] = "data"] /\ UNCHANGED credit
           \/ /\ kind[i] = "Tcp" /\ HasCredit(i)
              /\ pc' = [pc EXCEPT ![c] = "data"] /\ TakeCredit(i)
           \/ /\ kind[i] = "Tcp" /\ ~HasCredit(i)
              /\ pc' = [pc EXCEPT ![c] = IF Preemptive THEN "await"
                                                       ELSE "waiting"]
              /\ UNCHANGED credit
  /\ UNCHANGED <<handshake, nextId, initialCredit, streams, kind, returned,
                 pumpVars, readVars, netVars, histVars>>

(* notify.notified(): only from here on does notify_waiters reach the      *)
(* task, because notify_waiters leaves no permit behind.                   *)
SendRegister(c) ==
  /\ pc[c] = "await"
  /\ pc' = [pc EXCEPT ![c] = "waiting"]
  /\ UNCHANGED <<muxVars, sid, returned, pumpVars, readVars, netVars, histVars>>

(* The DATA packet goes out; its credit is spent whether or not it does.   *)
SendData(c) ==
  /\ pc[c] = "data"
  /\ Transmit(sid[c], "Data")
  /\ wire' = IF link = "up" THEN [wire EXCEPT ![sid[c]] = @ + 1] ELSE wire
  /\ Return(c)
  /\ UNCHANGED <<muxVars, returned, pumpVars, readVars, toClient, link,
                 srvPhase, srvSent, srvGrants, granted, cut>>

(* close_stream: drop the local entry, whether or not it is there, without *)
(* a word to the waiters; then send CLOSE.                                 *)
CloseRemove(c, i) ==
  /\ pc[c] = "idle" /\ Usable(i)
  /\ RemoveEntry(i)
  /\ cut' = cut \cup {i}
  /\ sid' = [sid EXCEPT ![c] = i]
  /\ pc' = [pc EXCEPT ![c] = "close"]
  /\ UNCHANGED <<handshake, nextId, initialCredit, kind, credit, returned,
                 pumpVars, readVars, netVars, wire, granted>>

CloseSend(c) ==
  /\ pc[c] = "close"
  /\ Transmit(sid[c], "Close")
  /\ Return(c)
  /\ UNCHANGED <<muxVars, returned, pumpVars, readVars, toClient, link,
                 srvPhase, srvSent, srvGrants, histVars>>

(* A future dropped at an await point (a timeout around the call): nothing *)
(* it did is undone, its stream entry and its credit are gone for good.    *)
Cancel(c) ==
  /\ pc[c] \in {"connect", "waiting", "woken", "data", "close"}
  /\ Return(c)
  /\ UNCHANGED <<muxVars, returned, pumpVars, readVars, netVars, histVars>>

-----------------------------------------------------------------------------
(* The pump: dispatch_inbound on each frame transport.recv returns.        *)

(* The pump goes on to notify_waiters.  Mutant: it reads the next frame.   *)
SkipWake(i) == UNCHANGED pumpVars
ToWake(i) == ppc' = "wake" /\ pid' = i /\ UNCHANGED pval

DispatchData(p) ==
  /\ p.type = "Data"
  /\ IF p.id \in streams      \* inbound_tx cloned under the lock
       THEN ppc' = "deliver" /\ pid' = p.id /\ pval' = p.val
       ELSE UNCHANGED pumpVars
  /\ UNCHANGED <<streams, credit, granted>>

(* The new credit replaces the old one, on a UDP stream as well.           *)
DispatchContinue(p) ==
  /\ p.type = "Continue"
  /\ IF p.id \in streams
       THEN /\ credit' = [credit EXCEPT ![p.id] = p.val]
            /\ granted' = [granted EXCEPT ![p.id] = @ + p.val]
            /\ ToWake(p.id)
       ELSE UNCHANGED <<credit, granted, pumpVars>>
  /\ UNCHANGED streams

DispatchClose(p) ==
  /\ p.type = "Close"
  /\ RemoveEntry(p.id)
  /\ IF p.id \in streams THEN ToWake(p.id) ELSE UNCHANGED pumpVars
  /\ UNCHANGED <<credit, granted>>

(* INFO and CONNECT are ignored; an undecodable frame ends the pump.       *)
DispatchOther(p) ==
  /\ p.type \in {"Info", "Other", "Bad"}
  /\ ppc' = IF p.type = "Bad" THEN "dead" ELSE ppc
  /\ UNCHANGED <<pid, pval, streams, credit, granted>>

Dispatch ==
  /\ ppc = "recv" /\ toClient # <<>>
  /\ LET p == Head(toClient) IN
       \/ DispatchData(p) \/ DispatchContinue(p)
       \/ DispatchClose(p) \/ DispatchOther(p)
  /\ toClient' = Tail(toClient)
  /\ UNCHANGED <<handshake, nextId, initialCredit, kind, taskVars, readVars,
                 link, srv, srvPhase, srvSent, srvGrants, wire, cut>>

(* tx.send(payload), outside the lock.                                     *)
Deliver ==
  /\ ppc = "deliver"
  /\ inbound' = [inbound EXCEPT ![pid] = Append(@, pval)]
  /\ ppc' = "recv" /\ pid' = 0 /\ pval' = 0
  /\ UNCHANGED <<muxVars, taskVars, got, eof, netVars, histVars>>

(* The tasks notify_waiters reaches.  Mutant: notify_one.                  *)
WaitersNow == {c \in Caller : pc[c] = "waiting" /\ sid[c] = pid}
IsFirstWaiter(c) == c \in WaitersNow /\ c = CHOOSE d \in WaitersNow : TRUE
IsWaiter(c) == c \in WaitersNow

(* n.notify_waiters(), outside the lock: every task waiting now goes back  *)
(* to the lock.                                                            *)
Wake ==
  /\ ppc = "wake"
  /\ pc' = [c \in Caller |-> IF IsWaiter(c) THEN "woken" ELSE pc[c]]
  /\ ppc' = "recv" /\ pid' = 0 /\ UNCHANGED pval
  /\ UNCHANGED <<muxVars, sid, returned, readVars, netVars, histVars>>

(* transport.recv fails: the pump, or the handshake, returns.  The streams *)
(* map and everyone blocked on it stay as they are.                        *)
RecvFails ==
  /\ ppc \in {"hello", "continue", "recv"} /\ link = "down"
  /\ ppc' = "dead"
  /\ UNCHANGED <<muxVars, taskVars, pid, pval, readVars, netVars, histVars>>

-----------------------------------------------------------------------------
(* The reader of a stream: WispStream::recv.                               *)

Recv(i) ==
  /\ Usable(i) /\ inbound[i] # <<>>
  /\ got' = [got EXCEPT ![i] = Head(inbound[i])]
  /\ inbound' = [inbound EXCEPT ![i] = Tail(@)]
  /\ UNCHANGED <<muxVars, taskVars, pumpVars, eof, netVars, histVars>>

(* recv returns None once the channel is drained and no sender is left:    *)
(* neither the one in the map nor the pump's clone.                        *)
(* Mutant: the pump's clone is forgotten.                                  *)
Held(i) == ppc = "deliver" /\ pid = i
DisconnectedInMap(i) == i \notin streams
Disconnected(i) == i \notin streams /\ ~Held(i)

RecvEof(i) ==
  /\ Usable(i) /\ inbound[i] = <<>> /\ Disconnected(i)
  /\ eof' = [eof EXCEPT ![i] = TRUE]
  /\ UNCHANGED <<muxVars, taskVars, pumpVars, inbound, got, netVars, histVars>>

-----------------------------------------------------------------------------
(* The server and the link (external).                                     *)

Push(p) == toClient' = Append(toClient, p)

(* A v2 server starts with INFO, a v1 server with CONTINUE.                *)
ServerHello ==
  /\ link = "up" /\ srvPhase \in {"start", "hello"}
  /\ \/ /\ srvPhase = "start" /\ srvPhase' = "hello" /\ Push(Pkt("Info", 0, 0))
     \/ /\ \E n \in Grants : Push(Pkt("Continue", 0, n))
        /\ srvPhase' = "up"
  /\ UNCHANGED <<muxVars, taskVars, pumpVars, readVars, link, srv, srvSent,
                 srvGrants, histVars>>

ServerData(i) ==
  /\ link = "up" /\ srv[i] = "connected" /\ srvSent[i] < MaxInbound
  /\ Push(Pkt("Data", i, srvSent[i] + 1))
  /\ srvSent' = [srvSent EXCEPT ![i] = @ + 1]
  /\ UNCHANGED <<muxVars, taskVars, pumpVars, readVars, link, srv, srvPhase,
                 srvGrants, histVars>>

ServerContinue(i) ==
  /\ link = "up" /\ srv[i] = "connected" /\ srvGrants[i] < MaxGrants
  /\ \E n \in Grants : Push(Pkt("Continue", i, n))
  /\ srvGrants' = [srvGrants EXCEPT ![i] = @ + 1]
  /\ UNCHANGED <<muxVars, taskVars, pumpVars, readVars, link, srv, srvPhase,
                 srvSent, histVars>>

ServerClose(i) ==
  /\ link = "up" /\ srv[i] = "connected"
  /\ Push(Pkt("Close", i, 0))
  /\ srv' = [srv EXCEPT ![i] = "closed"]
  /\ UNCHANGED <<muxVars, taskVars, pumpVars, readVars, link, srvPhase,
                 srvSent, srvGrants, histVars>>

(* A frame that is malformed or ignored, and the loss of the link.  A      *)
(* second such frame changes nothing the first one has not.                *)
ServerOdd ==
  /\ link = "up" /\ \A k \in 1..Len(toClient) :
                       toClient[k].type \notin {"Other", "Bad"}
  /\ \E t \in {"Other", "Bad"} : Push(Pkt(t, 0, 0))
  /\ UNCHANGED <<muxVars, taskVars, pumpVars, readVars, link, srv, srvPhase,
                 srvSent, srvGrants, histVars>>

LinkFails ==
  /\ link = "up" /\ link' = "down"
  /\ UNCHANGED <<muxVars, taskVars, pumpVars, readVars, toClient, srv,
                 srvPhase, srvSent, srvGrants, histVars>>

-----------------------------------------------------------------------------
Pump == RecvHello \/ SendInfo \/ RecvContinue \/ Dispatch \/ Deliver \/ Wake
        \/ RecvFails

(* What a task does without its caller starting or dropping a call.        *)
Progress(c) ==
  \/ OpenInsert(c) \/ OpenConnect(c)
  \/ SendRegister(c) \/ SendData(c) \/ CloseSend(c)
  \/ pc[c] = "woken" /\ SendLock(c, sid[c])

Call(c) ==
  \/ OpenAlloc(c) \/ Progress(c) \/ Cancel(c)
  \/ \E i \in Id : SendLock(c, i) \/ CloseRemove(c, i)

Reader == \E i \in Id : Recv(i) \/ RecvEof(i)

Server ==
  \/ ServerHello \/ ServerOdd \/ LinkFails
  \/ \E i \in Id : ServerData(i) \/ ServerContinue(i) \/ ServerClose(i)

Next == Pump \/ (\E c \in Caller : Call(c)) \/ Reader \/ Server

Spec == Init /\ [][Next]_vars

(* The runtime polls every task that can run: the pump, and each call that *)
(* is under way.  Nobody has to start a call, and the server owes nothing. *)
Fairness == WF_vars(Pump) /\ \A c \in Caller : WF_vars(Progress(c))
FairSpec == Spec /\ Fairness

-----------------------------------------------------------------------------
(* Properties.                                                             *)

(* Every variable keeps its type: the id of a stream is never 0, a credit  *)
(* always fits a u32, and a task in a call or a pump at work has a stream. *)
MuxTypeOK ==
  /\ handshake \in {"Pending", "Established"}
  /\ nextId \in Id /\ initialCredit \in 0..MaxU32
  /\ streams \subseteq Id
  /\ kind \in [Id -> StreamType] /\ credit \in [Id -> 0..MaxU32]

TaskTypeOK ==
  /\ pc \in [Caller -> {"idle", "insert", "connect", "woken", "await",
                        "waiting", "data", "close"}]
  /\ sid \in [Caller -> 0..MaxU32]
  /\ \A c \in Caller : pc[c] # "idle" => sid[c] \in Id
  /\ returned \subseteq Id

PumpTypeOK ==
  /\ ppc \in {"hello", "sendInfo", "continue", "recv", "deliver", "wake",
              "dead"}
  /\ pid \in 0..MaxU32 /\ pval \in Nat
  /\ ppc \in {"deliver", "wake"} => pid \in Id

ReadTypeOK ==
  /\ inbound \in [Id -> Seq(Nat)]
  /\ got \in [Id -> Nat] /\ eof \in [Id -> BOOLEAN]

NetTypeOK ==
  /\ toClient \in Seq(Packet) /\ link \in {"up", "down"}
  /\ srv \in [Id -> View] /\ srvPhase \in {"start", "hello", "up"}
  /\ srvSent \in [Id -> Nat] /\ srvGrants \in [Id -> Nat]

HistTypeOK ==
  /\ wire \in [Id -> Nat] /\ granted \in [Id -> Nat]
  /\ cut \subseteq Id

TypeOK ==
  /\ MuxTypeOK /\ TaskTypeOK /\ PumpTypeOK
  /\ ReadTypeOK /\ NetTypeOK /\ HistTypeOK

(* The server can make sense of every frame whatever the tasks race: no    *)
(* stream id is used by two CONNECTs, and no DATA or CLOSE overtakes the   *)
(* CONNECT of its stream.                                                  *)
UplinkLegal == \A i \in Id : srv[i] # "illegal"

(* Senders that race for the same stream never put more DATA packets on    *)
(* the wire than the server's CONTINUEs gave that TCP stream.              *)
WireWithinGrants ==
  \A i \in Id : kind[i] = "Tcp" => wire[i] <= granted[i]

(* A task parked on a stream's Notify can still be reached: the stream is  *)
(* there and has no credit, or the wake-up that a CONTINUE or a CLOSE of   *)
(* the server owes it is on its way, or the stream was closed locally.     *)
NoStrandedSender ==
  \A c \in Caller : pc[c] = "waiting" =>
    LET i == sid[c] IN
      \/ i \in streams /\ credit[i] = 0
      \/ ppc = "wake" /\ pid = i
      \/ i \in cut

(* The streams map forgets a stream the server closed: until then its      *)
(* CLOSE is still on the way to a pump, unless the pump has died.          *)
PeerCloseRemoves ==
  \A i \in streams : srv[i] = "closed" =>
    \/ ppc = "dead"
    \/ \E k \in 1..Len(toClient) :
         toClient[k].type = "Close" /\ toClient[k].id = i

(* A credit the server grants reaches the task that waits for it: no       *)
(* sender sleeps on a stream that has credit.                              *)
CreditWakesSender ==
  \A c \in Caller, i \in Id :
    pc[c] = "waiting" /\ sid[c] = i /\ i \in streams /\ credit[i] > 0
      ~> ~(pc[c] = "waiting" /\ sid[c] = i)

(* A sender waiting for credit on a stream the server has closed returns,  *)
(* once the pump has processed the CLOSE.                                  *)
PeerCloseWakesSender ==
  \A c \in Caller, i \in Id :
    pc[c] = "waiting" /\ sid[c] = i /\ i \notin streams /\ i \notin cut
      ~> ~(pc[c] = "waiting" /\ sid[c] = i)

(* "UnknownStream if the stream doesn't exist (or is closed while waiting  *)
(* for credit)": a waiting sender returns when close_stream is called.     *)
LocalCloseWakesSender ==
  \A c \in Caller, i \in Id :
    pc[c] = "waiting" /\ sid[c] = i /\ i \in cut
      ~> ~(pc[c] = "waiting" /\ sid[c] = i)

-----------------------------------------------------------------------------
(* What the mux promises to a reader is the ordered pipe of StreamPipe.    *)
(* The payloads between the server and the reader of stream i: in the      *)
(* inbound channel, in the pump's hand, and, while the entry is there to   *)
(* receive them, those that the server sent after them.                    *)
Hand(i) == IF Held(i) THEN <<pval>> ELSE <<>>

Reached(i) == got[i] + Len(inbound[i]) + Len(Hand(i))

Payloads(i) == [k \in 1..(srvSent[i] - Reached(i)) |-> Reached(i) + k]

InTransit(i) ==
  inbound[i] \o Hand(i) \o (IF i \in streams THEN Payloads(i) ELSE <<>>)

Pipe == INSTANCE StreamPipe WITH
  Stream <- Id, pipe <- [i \in Id |-> InTransit(i)],
  count <- srvSent, last <- got, cut <- cut,
  shut <- {i \in Id : srv[i] = "closed"},
  ended <- {i \in Id : eof[i]}

(* Whatever the tasks race, each reader sees the server's payloads in      *)
(* order, without a gap, and end of file only when it has seen them all or *)
(* the stream was closed locally.                                          *)
ImplementsPipe == Pipe!Spec

=============================================================================
