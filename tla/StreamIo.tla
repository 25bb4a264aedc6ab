------------------------------ MODULE StreamIo ------------------------------
(***************************************************************************)
(* WispStreamIo of drift-core/src/wisp/stream_io.rs: the AsyncRead and     *)
(* AsyncWrite adapter over one TCP stream of the mux.  Each poll_* call is *)
(* one step; between polls the mux, the pump and the server move.          *)
(*                                                                         *)
(* The bytes of a direction are numbered 1, 2, 3, ... in the order in      *)
(* which their producer wrote them, so a buffer is a sequence of numbers.  *)
(***************************************************************************)
EXTENDS Integers, Sequences, SequencesExt

CONSTANTS
  Threshold,   \* WRITE_FLUSH_THRESHOLD, in bytes
  MaxPayload,  \* bound: the longest payload of a DATA frame of the server
  MaxCredit,   \* bound: the credit a CONTINUE carries
  MaxOutgoing, \* bound: bytes on the wire and on their way, repeats included
  Callers      \* the applications: whether one flushes after each write, and
               \* bounds, the longest buffers it passes to poll_write and
               \* poll_read and the bytes it writes and is sent

ASSUME ConstantsAssumption ==
  /\ {MaxPayload, MaxCredit, MaxOutgoing} \subseteq Nat
  /\ Threshold \in Nat \ {0}
  /\ Callers \subseteq [flushes : BOOLEAN, chunk : Nat \ {0}, room : Nat,
                        writes : Nat, sent : Nat]

VARIABLES
  \* WispStreamIo
  wbuf,      \* write_buf
  fut,       \* write_fut: the payload in flight and how far send_data is
  leftover,  \* read_leftover
  hook,      \* read_fut is Some: it waits in the channel
  closed,
  \* the application: which it is, the call it is in, and what it knows
  caller,
  op,        \* the write half: "none", "write", "flush", "failed"
  len,       \* length of the buffer of the pending poll_write
  reader,    \* the read half: "none", "parked", "runnable"
  written,   \* bytes poll_write has returned Ok for
  flushed,   \* written, at the last successful flush
  got,       \* the last byte read
  eof,       \* a read returned no bytes
  dropped,   \* the adapter has been dropped
  \* the mux, the pump and the server
  entry,     \* the mux still has the stream
  credit, link,
  wire,      \* the bytes sent to the server
  inbound,   \* the channel: payloads not yet received
  sent       \* bytes the server has sent

ioVars  == <<wbuf, fut, leftover, hook, closed>>
appVars == <<op, len, reader, written, flushed, got, eof, dropped>>
muxVars == <<entry, credit, link, wire, inbound, sent>>
vars    == <<caller, ioVars, appVars, muxVars>>

NoFut == [at |-> "none", data |-> <<>>]
Fut(at, data) == [at |-> at, data |-> data]

(* Bytes lo+1 to lo+n.                                                     *)
Bytes(lo, n) == [k \in 1..n |-> lo + k]

Init ==
  /\ caller \in Callers
  /\ wbuf = <<>> /\ fut = NoFut /\ leftover = <<>> /\ hook = FALSE
  /\ closed = FALSE
  /\ op = "none" /\ len = 0 /\ reader = "none"
  /\ written = 0 /\ flushed = 0 /\ got = 0 /\ eof = FALSE /\ dropped = FALSE
  /\ entry = TRUE /\ credit = MaxCredit /\ link = "up"
  /\ wire = <<>> /\ inbound = <<>> /\ sent = 0

-----------------------------------------------------------------------------
(* Polling Mux::send_data.  An outcome is what the poll returns, the       *)
(* future and the buffer it leaves, and the mux's credit and wire.         *)
Outcome(res, f, buf, c, w) ==
  [res |-> res, fut |-> f, buf |-> buf, credit |-> c, wire |-> w]

(* transport.send takes the frame at once or later.  On a dead link the    *)
(* caller gets an error, or the frame is accepted and lost.                *)
Transmit(data, buf, c, w) ==
  {Outcome("pending", Fut("transport", data), buf, c, w)} \cup
  IF link = "up" THEN {Outcome("ok", NoFut, buf, c, w \o data)}
                 ELSE {Outcome(res, NoFut, buf, c, w) : res \in {"ok", "err"}}

PollSend(f, buf, c, w) ==
  CASE f.at = "transport"     -> Transmit(f.data, buf, c, w)
    [] f.at = "credit" /\ ~entry -> {Outcome("err", NoFut, buf, c, w)}
    [] f.at = "credit" /\ entry /\ c = 0
                              -> {Outcome("pending", f, buf, c, w)}
    [] f.at = "credit" /\ entry /\ c > 0
                              -> Transmit(f.data, buf, c - 1, w)

(* start_send takes the whole write buffer and polls once.  Mutant: it     *)
(* copies the buffer instead of taking it.                                 *)
StartSendCopy(buf, c, w) == PollSend(Fut("credit", buf), buf, c, w)
StartSend(buf, c, w) == PollSend(Fut("credit", buf), <<>>, c, w)

(* poll_flush_buf: drive the send in flight, then send what is buffered.   *)
(* Mutant: an empty buffer is taken to mean that there is nothing to do.   *)
FlushBufferOnly(f, buf, c, w) ==
  IF buf = <<>> THEN {Outcome("ok", f, buf, c, w)} ELSE StartSend(buf, c, w)
FlushBuf(f, buf, c, w) ==
  IF f # NoFut
    THEN UNION {IF o.res = "ok" /\ buf # <<>>
                  THEN StartSend(buf, o.credit, o.wire) ELSE {o} :
                o \in PollSend(f, buf, c, w)}
    ELSE IF buf = <<>> THEN {Outcome("ok", NoFut, buf, c, w)}
                       ELSE StartSend(buf, c, w)

(* poll_write after its closed check.  Past the threshold it returns what  *)
(* start_send returns, "pending" included.  Mutant: the send in flight is  *)
(* not driven to completion before the new bytes are buffered.             *)
PollWriteEager(data) ==
  IF Len(wbuf \o data) >= Threshold
    THEN StartSend(wbuf \o data, credit, wire)
    ELSE {Outcome("ok", fut, wbuf \o data, credit, wire)}

PollWrite(data) ==
  UNION {IF o.res # "ok" THEN {o}
         ELSE IF Len(o.buf \o data) >= Threshold
           THEN StartSend(o.buf \o data, o.credit, o.wire)
           ELSE {Outcome("ok", o.fut, o.buf \o data, o.credit, o.wire)} :
         o \in IF fut # NoFut THEN FlushBuf(fut, wbuf, credit, wire)
                              ELSE {Outcome("ok", fut, wbuf, credit, wire)}}

(* The application takes an outcome: an error ends its writing.            *)
Take(o, call) ==
  /\ wbuf' = o.buf /\ fut' = o.fut /\ credit' = o.credit /\ wire' = o.wire
  /\ op' = CASE o.res = "ok" -> "none" [] o.res = "pending" -> call
             [] o.res = "err" -> "failed"

-----------------------------------------------------------------------------
(* The write half.                                                         *)

(* What left the application, in the order in which it goes to the server. *)
Outgoing == wire \o fut.data \o wbuf

(* A write of n bytes, or the re-poll of a pending one with the same       *)
(* buffer, as write_all does.                                              *)
Write(n) ==
  /\ ~dropped /\ Len(Outgoing) + n <= MaxOutgoing
  /\ \/ op = "write" /\ n = len
     \/ op = "none" /\ written + n <= caller.writes
        /\ (caller.flushes => written = flushed)
  /\ \/ /\ closed         \* BrokenPipe
        /\ op' = "failed" /\ len' = 0
        /\ UNCHANGED <<wbuf, fut, credit, wire, written>>
     \/ /\ ~closed
        /\ \E o \in PollWrite(Bytes(written, n)) :
             /\ Take(o, "write")
             /\ written' = IF o.res = "ok" THEN written + n ELSE written
             /\ len' = IF o.res = "pending" THEN n ELSE 0
  /\ UNCHANGED <<leftover, hook, closed, reader, flushed, got, eof, dropped,
                 entry, link, inbound, sent>>

(* poll_flush, which does not look at closed.                              *)
Flush ==
  /\ ~dropped /\ op \in {"none", "flush"}
  /\ \E o \in FlushBuf(fut, wbuf, credit, wire) :
       /\ Take(o, "flush")
       /\ flushed' = IF o.res = "ok" THEN written ELSE flushed
  /\ UNCHANGED <<leftover, hook, closed, len, reader, written, got, eof,
                 dropped, entry, link, inbound, sent>>

(* The application gives up a pending write or flush, as select! does; the *)
(* future of the adapter stays where it is.                                *)
Abandon ==
  /\ ~dropped /\ op \in {"write", "flush"}
  /\ op' = "none" /\ len' = 0
  /\ UNCHANGED <<ioVars, reader, written, flushed, got, eof, dropped, muxVars>>

(* poll_shutdown: neither a flush nor a CLOSE.                             *)
Shutdown ==
  /\ ~dropped /\ op = "none" /\ ~closed
  /\ closed' = TRUE
  /\ UNCHANGED <<wbuf, fut, leftover, hook, appVars, muxVars>>

(* The adapter goes out of scope: its futures and buffers go with it, and  *)
(* nothing tells the mux.                                                  *)
Drop ==
  /\ ~dropped /\ dropped' = TRUE
  /\ wbuf' = <<>> /\ fut' = NoFut /\ leftover' = <<>> /\ hook' = FALSE
  /\ op' = "none" /\ len' = 0 /\ reader' = "none"
  /\ UNCHANGED <<closed, written, flushed, got, eof, muxVars>>

-----------------------------------------------------------------------------
(* The read half.  poll_read gives out at most room bytes of data and      *)
(* keeps the rest.  Mutant: the rest is lost.                              *)
ServeFirst(data, room) ==
  /\ got' = got + (IF Len(data) < room THEN Len(data) ELSE room)
  /\ leftover' = <<>> /\ reader' = "none" /\ UNCHANGED eof
Serve(data, room) ==
  /\ got' = got + (IF Len(data) < room THEN Len(data) ELSE room)
  /\ leftover' = IF Len(data) <= room THEN <<>>
                 ELSE SubSeq(data, room + 1, Len(data))
  /\ reader' = "none" /\ UNCHANGED eof

ReadEof == eof' = TRUE /\ reader' = "none" /\ UNCHANGED <<got, leftover>>

(* An empty payload: the poll returns Pending and wakes itself.  Mutants:  *)
(* it parks without waking itself; it returns, which the caller takes for  *)
(* the end of the stream.                                                  *)
EofOnEmpty == ReadEof
ParkOnEmpty == reader' = "parked" /\ UNCHANGED <<got, eof, leftover>>
SkipEmpty == reader' = "runnable" /\ UNCHANGED <<got, eof, leftover>>

Read(room) ==
  /\ ~dropped /\ reader \in {"none", "runnable"}
  /\ \/ /\ leftover # <<>>
        /\ Serve(leftover, room) /\ UNCHANGED <<hook, closed, inbound>>
     \/ /\ leftover = <<>> /\ closed
        /\ ReadEof /\ UNCHANGED <<hook, closed, inbound>>
     \/ /\ leftover = <<>> /\ ~closed /\ inbound # <<>>
        /\ hook' = FALSE /\ inbound' = Tail(inbound) /\ UNCHANGED closed
        /\ \/ Head(inbound) = <<>> /\ SkipEmpty
           \/ Head(inbound) # <<>> /\ Serve(Head(inbound), room)
     \/ /\ leftover = <<>> /\ ~closed /\ inbound = <<>> /\ ~entry
        /\ hook' = FALSE /\ closed' = TRUE /\ ReadEof /\ UNCHANGED inbound
     \/ /\ leftover = <<>> /\ ~closed /\ inbound = <<>> /\ entry
        /\ hook' = TRUE /\ reader' = "parked"
        /\ UNCHANGED <<got, eof, leftover, closed, inbound>>
  /\ UNCHANGED <<wbuf, fut, op, len, written, flushed, dropped, entry, credit,
                 link, wire, sent>>

-----------------------------------------------------------------------------
(* The mux and the server (external to this module; see Mux).  Delivering  *)
(* to the channel, or dropping its sender, wakes a reader whose future     *)
(* waits in it.                                                            *)
WakeReader == reader' = IF hook /\ reader = "parked" THEN "runnable" ELSE reader

ServerData(n) ==
  /\ entry /\ sent + n <= caller.sent
  /\ n = 0 => <<>> \notin {inbound[k] : k \in 1..Len(inbound)}
  /\ inbound' = Append(inbound, Bytes(sent, n))
  /\ sent' = sent + n
  /\ WakeReader
  /\ UNCHANGED <<ioVars, op, len, written, flushed, got, eof, dropped, entry,
                 credit, link, wire>>

PeerClose ==
  /\ entry /\ entry' = FALSE
  /\ WakeReader
  /\ UNCHANGED <<ioVars, op, len, written, flushed, got, eof, dropped, credit,
                 link, wire, inbound, sent>>

Continue ==
  /\ entry /\ credit' \in 0..MaxCredit
  /\ UNCHANGED <<ioVars, appVars, entry, link, wire, inbound, sent>>

LinkFails ==
  /\ link = "up" /\ link' = "down"
  /\ UNCHANGED <<ioVars, appVars, entry, credit, wire, inbound, sent>>

-----------------------------------------------------------------------------
WriteHalf == (\E n \in 1..caller.chunk : Write(n)) \/ Flush \/ Abandon \/ Shutdown
ReadHalf == \E room \in 1..caller.room : Read(room)
Environment ==
  (\E n \in 0..MaxPayload : ServerData(n)) \/ PeerClose \/ Continue \/ LinkFails

Next ==
  /\ WriteHalf \/ ReadHalf \/ Drop \/ Environment
  /\ UNCHANGED caller

Spec == Init /\ [][Next]_vars

(* The runtime polls a read that is runnable; nobody has to start one.     *)
FairSpec == Spec /\ WF_vars(reader = "runnable" /\ ReadHalf /\ UNCHANGED caller)

-----------------------------------------------------------------------------
(* Properties.                                                             *)

(* No byte goes out before every byte written ahead of it has gone out.    *)
NoGap ==
  \A k \in 1..Len(wire) :
    wire[k] = 1 \/ \E j \in 1..(k - 1) : wire[j] = wire[k] - 1

(* As long as the link works, a flush that returned Ok has sent every byte *)
(* written before it, through stalls and calls that were given up.  Over a *)
(* dead link Ok says nothing: what the link accepts is lost.               *)
FlushMeansSent ==
  link = "up" => \A b \in 1..flushed : \E k \in 1..Len(wire) : wire[k] = b

(* Writing is exactly once: the bytes that went out are the bytes written, *)
(* in order, each once.  It does not hold of every caller.                 *)
WriteOnce == \A k \in 1..Len(wire) : wire[k] = k

(* It does of one whose buffers are shorter than the threshold and that    *)
(* flushes after each write: whatever it abandons or is refused, no byte   *)
(* goes out twice, and what a dead link accepts is lost for good.          *)
CarefulWriteOnce == caller.flushes /\ caller.chunk < Threshold => WriteOnce

(* Reading is exactly once and in order: what is left over, and then each  *)
(* payload in the channel, continues where the one before it ends, from    *)
(* the last byte read to the last one the server sent.                     *)
Continues(ends) ==
  /\ leftover = Bytes(got, Len(leftover)) /\ ends[0] = got + Len(leftover)
  /\ \A k \in 1..Len(inbound) :
       /\ inbound[k] = Bytes(ends[k - 1], Len(inbound[k]))
       /\ ends[k] = ends[k - 1] + Len(inbound[k])
  /\ ends[Len(inbound)] = sent
ReadOnce ==
  ~dropped => \E ends \in [0..Len(inbound) -> got..sent] : Continues(ends)

(* A reader is told the stream ended only when it has read everything the  *)
(* server sent, or the application shut the adapter down itself; after the *)
(* end it never gets another byte.                                         *)
EofIsComplete ==
  [][/\ eof' /\ ~eof => closed \/ (~entry /\ got = sent)
     /\ eof => got' = got]_vars

(* A reader that waits while there is data, or the end of the stream, for  *)
(* it is polled again and returns, empty payloads notwithstanding.         *)
ReaderNotStuck ==
  reader # "none" /\ (FlattenSeq(inbound) # <<>> \/ ~entry) ~> reader = "none"

=============================================================================
