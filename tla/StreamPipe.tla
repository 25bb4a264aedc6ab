----------------------------- MODULE StreamPipe -----------------------------
(***************************************************************************)
(* What a Wisp stream promises its reader: an ordered, lossless pipe from  *)
(* the server, for each stream.  The n-th payload the server sends is the  *)
(* n-th payload the reader takes, until the client itself closes the       *)
(* stream: then whatever has not yet been delivered may be dropped.  The   *)
(* reader is told the stream has ended when there is nothing left to take  *)
(* and one of the two sides has closed it.                                 *)
(***************************************************************************)
EXTENDS Integers, Sequences

CONSTANT Stream

VARIABLES
  pipe,   \* the payloads sent and not yet taken
  count,  \* how many payloads the server has sent
  last,   \* the last payload the reader took, 0 at first
  cut,    \* the streams the client closed
  shut,   \* the streams on which the server sends no more
  ended   \* the streams whose reader has seen the end

vars == <<pipe, count, last, cut, shut, ended>>

Init ==
  /\ pipe = [s \in Stream |-> <<>>]
  /\ count = [s \in Stream |-> 0] /\ last = [s \in Stream |-> 0]
  /\ cut = {} /\ shut = {} /\ ended = {}

(* The server sends one more payload.                                      *)
Put(s) ==
  /\ s \notin shut
  /\ count' = [count EXCEPT ![s] = @ + 1]
  /\ pipe' = IF s \in cut THEN pipe
                          ELSE [pipe EXCEPT ![s] = Append(@, count[s] + 1)]
  /\ UNCHANGED <<last, cut, shut, ended>>

(* The reader takes the oldest payload.                                    *)
Take(s) ==
  /\ pipe[s] # <<>>
  /\ last' = [last EXCEPT ![s] = Head(pipe[s])]
  /\ pipe' = [pipe EXCEPT ![s] = Tail(@)]
  /\ UNCHANGED <<count, cut, shut, ended>>

(* The client closes the stream and keeps what had been delivered to it.   *)
Cut(s) ==
  /\ cut' = cut \cup {s}
  /\ \E n \in 0..Len(pipe[s]) : pipe' = [pipe EXCEPT ![s] = SubSeq(@, 1, n)]
  /\ UNCHANGED <<count, last, shut, ended>>

(* The server stops sending: it closed the stream, or saw the client do so.*)
Shut(s) ==
  /\ shut' = shut \cup {s}
  /\ UNCHANGED <<pipe, count, last, cut, ended>>

End(s) ==
  /\ pipe[s] = <<>> /\ s \in cut \cup shut
  /\ ended' = ended \cup {s}
  /\ UNCHANGED <<pipe, count, last, cut, shut>>

Next == \E s \in Stream : Put(s) \/ Take(s) \/ Cut(s) \/ Shut(s) \/ End(s)

Spec == Init /\ [][Next]_vars

-----------------------------------------------------------------------------
TypeOK ==
  /\ pipe \in [Stream -> Seq(Nat)]
  /\ count \in [Stream -> Nat] /\ last \in [Stream -> Nat]
  /\ cut \subseteq Stream /\ shut \subseteq Stream /\ ended \subseteq Stream

(* The pipe holds the payloads after the last one taken, in order, and up  *)
(* to the last one sent unless the client closed the stream.               *)
InOrder ==
  \A s \in Stream :
    /\ \A k \in 1..Len(pipe[s]) : pipe[s][k] = last[s] + k
    /\ last[s] + Len(pipe[s]) <= count[s]
    /\ s \notin cut => last[s] + Len(pipe[s]) = count[s]

(* A reader that sees the end of a stream the client did not close has     *)
(* taken every payload the server sent on it.                              *)
EndIsComplete ==
  \A s \in ended \ cut : last[s] = count[s]

=============================================================================
