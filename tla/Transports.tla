----------------------------- MODULE Transports -----------------------------
(***************************************************************************)
(* The WispTransports of drift-core/src/transport: websocket.rs (native),  *)
(* websocket_wasm.rs (browser) and message_port.rs (port), each with the   *)
(* socket or port under it.  One task receives, as the pump of the mux     *)
(* does, and several send, as its callers do.                              *)
(*                                                                         *)
(* The peer's messages are numbered 1, 2, 3, ...; a sender is its packet.  *)
(***************************************************************************)
EXTENDS Integers, Sequences, SequencesExt

CONSTANTS
  Kinds,   \* the transports to look at
  Sender,  \* each sends one packet
  Nobody,
  MaxSaid, \* bound: messages of the peer
  Full     \* bound: what arrives and is not yet looked at

ASSUME ConstantsAssumption ==
  /\ Kinds \subseteq {"native", "browser", "port"}
  /\ Nobody \notin Sender /\ {MaxSaid, Full} \subseteq Nat

VARIABLES
  kind,
  \* the socket or port, and what comes from it and has not been looked at
  link,     \* "connecting", "open", "ended"
  shut,     \* closed from this side: "no", "flag" before it knows, "done"
  arriving,
  said,     \* messages the peer has sent
  wire,     \* packets sent to the peer
  \* the transport
  hello,    \* open_tx: the first signal of a connection that comes up, or not
  inbound,  \* inbound_tx
  closed,
  sink,     \* packets in the write half that are not flushed
  holder,   \* of the lock of the write half
  \* its callers
  connect,  \* "waiting", "ok", "failed"
  reader,   \* in recv: "none", "check", "waiting"
  got,      \* messages received
  told,     \* the first error that recv returned
  at        \* the senders: "idle", "lock", "flush", "ok", "err"

linkVars == <<link, shut, arriving, said>>
vars == <<kind, linkVars, wire, hello, inbound, closed, sink, holder, connect,
          reader, got, told, at>>

(* What comes from a socket: messages, text frames and events.             *)
Text == 0
Closed == -1
Error == -2
Opened == -3

Init ==
  /\ kind \in Kinds
  /\ link = IF kind = "browser" THEN "connecting" ELSE "open"
  /\ connect = IF kind = "browser" THEN "waiting" ELSE "ok"
  /\ shut = "no" /\ arriving = <<>> /\ said = 0 /\ wire = <<>>
  /\ hello = <<>> /\ inbound = <<>> /\ closed = FALSE
  /\ sink = <<>> /\ holder = Nobody
  /\ reader = "none" /\ got = 0 /\ told = "none"
  /\ at = [t \in Sender |-> "idle"]

-----------------------------------------------------------------------------
(* The socket and the peer.  A socket that fails reports the error and     *)
(* then its close; the other end of a port goes without a word.            *)
Arrives(events) ==
  /\ Len(arriving) < Full /\ arriving' = arriving \o events
  /\ UNCHANGED <<kind, shut, wire, hello, inbound, closed, sink, holder,
                 connect, reader, got, told, at>>

Opens == /\ link = "connecting" /\ link' = "open"
         /\ Arrives(<<Opened>>) /\ UNCHANGED said

Ends == /\ link # "ended" /\ link' = "ended" /\ UNCHANGED said
        /\ IF kind = "port" THEN Arrives(<<>>)
           ELSE Arrives(<<Closed>>) \/ Arrives(<<Error, Closed>>)

PeerSends ==
  /\ link = "open" /\ UNCHANGED link
  /\ \/ said < MaxSaid /\ said' = said + 1 /\ Arrives(<<said + 1>>)
     \/ Arrives(<<Text>>) /\ UNCHANGED said

Socket == Opens \/ Ends \/ PeerSends

-----------------------------------------------------------------------------
(* The callbacks of the browser and of the port.  hello has room for one.  *)
(* Mutants: onclose leaves connect, or the channel, alone; a message that  *)
(* finds another one in the channel is lost.                               *)
Signal(value) == hello' = IF hello = <<>> THEN <<value>> ELSE hello
NoSignal == UNCHANGED hello
CloseSignal == Signal("failed")

PushIfRoom(x) == inbound' = IF inbound = <<>> THEN <<x>> ELSE inbound
Push(x) == inbound' = Append(inbound, x)

OnMessage(x) ==
  /\ IF x = Text \/ shut = "done" THEN UNCHANGED inbound ELSE Push(x)
  /\ UNCHANGED <<hello, closed>>
OnOpen == Signal("ok") /\ UNCHANGED <<inbound, closed>>
OnError == Signal("failed") /\ Push(Error) /\ closed' = TRUE
NotTold == UNCHANGED inbound
TellReader == Push(Closed)
OnClose == CloseSignal /\ TellReader /\ closed' = TRUE

Callback ==
  /\ kind \in {"browser", "port"} /\ arriving # <<>>
  /\ arriving' = Tail(arriving)
  /\ CASE Head(arriving) = Opened -> OnOpen
       [] Head(arriving) = Error -> OnError
       [] Head(arriving) = Closed -> OnClose
       [] OTHER -> OnMessage(Head(arriving))
  /\ UNCHANGED <<kind, link, shut, said, wire, sink, holder, connect, reader,
                 got, told, at>>

(* connect goes on when the first signal is there.                         *)
Connect ==
  /\ connect = "waiting" /\ hello # <<>> /\ connect' = hello[1]
  /\ hello' = <<>>
  /\ UNCHANGED <<kind, linkVars, wire, inbound, closed, sink, holder, reader,
                 got, told, at>>

-----------------------------------------------------------------------------
(* recv.  The native one looks at closed before each frame it waits for;   *)
(* the others take what the channel has.  Mutant: these look at it too.    *)
FlagFirst == closed
FlagCounts == kind = "native" /\ closed

Enters(place) ==
  /\ reader' = place
  /\ UNCHANGED <<kind, linkVars, wire, hello, inbound, sink, holder, connect,
                 got, at>>

Recv ==
  connect = "ok" /\ reader = "none" /\ Enters("check")
  /\ UNCHANGED <<told, closed>>

Result(error) ==
  /\ told' = IF told = "none" THEN error ELSE told
  /\ closed' = (closed \/ error = "closed")

Check ==
  /\ reader = "check"
  /\ \/ FlagCounts /\ Enters("none") /\ Result("closed")
     \/ ~FlagCounts /\ Enters("waiting") /\ UNCHANGED <<told, closed>>

Handle(x) ==
  CASE x = Closed -> reader' = "none" /\ Result("closed") /\ UNCHANGED got
    [] x = Error -> reader' = "none" /\ Result("io") /\ UNCHANGED got
    [] x = Text -> reader' = "check" /\ UNCHANGED <<got, told, closed>>
    [] OTHER -> reader' = "none" /\ got' = x /\ UNCHANGED <<told, closed>>

Receive ==
  /\ reader = "waiting"
  /\ \/ /\ kind = "native" /\ arriving # <<>> /\ Handle(Head(arriving))
        /\ arriving' = Tail(arriving) /\ UNCHANGED inbound
     \/ /\ kind = "native" /\ arriving = <<>> /\ link = "ended"
        /\ Handle(Closed) /\ UNCHANGED <<arriving, inbound>>
     \/ /\ kind # "native" /\ inbound # <<>> /\ Handle(Head(inbound))
        /\ inbound' = Tail(inbound) /\ UNCHANGED arriving
  /\ UNCHANGED <<kind, link, shut, said, wire, hello, sink, holder, connect,
                 at>>

(* The caller drops the future, as a select! does.                         *)
RecvDropped ==
  reader # "none" /\ Enters("none") /\ UNCHANGED <<told, closed>>

-----------------------------------------------------------------------------
(* send.  The native one takes the lock after it has looked at closed, and *)
(* holds it until the sink is flushed; tungstenite takes no frame after a  *)
(* Close.  The others hand the packet over at once.                        *)
CanSend == link = "open" /\ shut # "done"

Moves(t, place) == at' = [at EXCEPT ![t] = place]

Send(t) ==
  /\ connect = "ok" /\ at[t] = "idle"
  /\ \/ closed /\ Moves(t, "err") /\ UNCHANGED wire
     \/ ~closed /\ kind = "native" /\ Moves(t, "lock") /\ UNCHANGED wire
     \/ ~closed /\ kind # "native" /\ Moves(t, "ok")
        /\ wire' = IF CanSend THEN Append(wire, t) ELSE wire
  /\ UNCHANGED <<kind, linkVars, hello, inbound, closed, sink, holder,
                 connect, reader, got, told>>

Feed(t) ==
  /\ at[t] = "lock" /\ holder = Nobody
  /\ \/ CanSend /\ sink' = Append(sink, t) /\ holder' = t /\ Moves(t, "flush")
     \/ ~CanSend /\ Moves(t, "err") /\ UNCHANGED <<sink, holder>>
  /\ UNCHANGED <<kind, linkVars, wire, hello, inbound, closed, connect,
                 reader, got, told>>

(* Mutant: it returns when the sink has the packet.                        *)
FedOnly == UNCHANGED <<sink, wire>>
FlushSink == sink' = <<>> /\ wire' = wire \o sink

Flush(t) ==
  /\ at[t] = "flush" /\ holder' = Nobody
  /\ \/ link = "open" /\ FlushSink /\ Moves(t, "ok")
     \/ link = "ended" /\ Moves(t, "err") /\ UNCHANGED <<sink, wire>>
  /\ UNCHANGED <<kind, linkVars, hello, inbound, closed, connect, reader, got,
                 told>>

(* A dropped send leaves what it fed in the sink, for the next flush.      *)
SendDropped(t) ==
  /\ at[t] \in {"lock", "flush"} /\ Moves(t, "err")
  /\ holder' = IF holder = t THEN Nobody ELSE holder
  /\ UNCHANGED <<kind, linkVars, wire, hello, inbound, closed, sink, connect,
                 reader, got, told>>

Sends(t) == Send(t) \/ Feed(t) \/ Flush(t)

-----------------------------------------------------------------------------
(* close: the flag, and then the socket or port.  The native one waits for *)
(* the lock before its Close goes out.                                     *)
Close ==
  /\ connect = "ok" /\ ~closed /\ closed' = TRUE
  /\ shut' = IF kind = "native" THEN "flag" ELSE "done"
  /\ UNCHANGED <<kind, link, arriving, said, wire, hello, inbound, sink,
                 holder, connect, reader, got, told, at>>

CloseFrame ==
  /\ shut = "flag" /\ holder = Nobody /\ shut' = "done"
  /\ IF link = "open" THEN FlushSink ELSE UNCHANGED <<sink, wire>>
  /\ UNCHANGED <<kind, link, arriving, said, hello, inbound, closed, holder,
                 connect, reader, got, told, at>>

-----------------------------------------------------------------------------
Next ==
  \/ Socket \/ Callback \/ Connect \/ Recv \/ Check \/ Receive \/ RecvDropped
  \/ \E t \in Sender : Sends(t) \/ SendDropped(t)
  \/ Close \/ CloseFrame

Spec == Init /\ [][Next]_vars

(* Runtime and browser go on with what is ready; a connection that is      *)
(* coming up does so or fails.                                             *)
FairSpec ==
  /\ Spec /\ WF_vars(Callback) /\ WF_vars(Connect) /\ WF_vars(Check \/ Receive)
  /\ WF_vars(link = "connecting" /\ Socket)
  /\ \A t \in Sender : WF_vars(Sends(t))

-----------------------------------------------------------------------------
(* Properties.                                                             *)

(* The messages in a queue are those after lo, up to hi, each once and in  *)
(* order; there may be text frames and events between them.                *)
Carries(q, lo, hi) ==
  /\ \A n \in (lo + 1)..hi : \E k \in 1..Len(q) : q[k] = n
  /\ \A k \in 1..Len(q) : q[k] > 0 => lo < q[k] /\ q[k] <= hi
  /\ \A j, k \in 1..Len(q) : j < k /\ q[j] > 0 /\ q[k] > 0 => q[j] < q[k]

(* Until it is closed from this side, recv hands out every message of the  *)
(* peer, in order: those it has not are on their way, dropped recvs or not.*)
NothingLost ==
  shut = "no" => \E mid \in got..said :
    Carries(inbound, got, mid) /\ Carries(arriving, mid, said)

(* recv reports the end of a connection that the peer or the network ended *)
(* only behind the last message that came before it.                       *)
EndIsLast ==
  [][told = "none" /\ told' # "none" => shut # "no" \/ got = said]_vars

(* A packet is sent once at most, and one whose send returned Ok has gone  *)
(* out, whatever other sends, dropped sends and close do in between; what  *)
(* a browser takes after the connection has ended is lost.                 *)
SentIsWired ==
  /\ IsInjective(wire \o sink)
  /\ \A t \in Sender : at[t] = "ok" =>
       t \in Range(wire) \/ (kind # "native" /\ (link = "ended" \/ shut = "done"))

(* connect returns, however the connection comes up or does not.           *)
ConnectReturns == connect = "waiting" ~> connect # "waiting"

(* A recv that waits when a WebSocket ends returns.  It need not when it   *)
(* is called again after that, nor over a port, which has no end.          *)
RecvEnds ==
  reader # "none" /\ link = "ended" /\ told = "none" /\ kind # "port"
    ~> reader = "none"
=============================================================================
