---------------------------- MODULE ByteStream ----------------------------
(***************************************************************************)
(* A reader at the end of a byte stream, as tokio's AsyncRead has it: a    *)
(* read takes some of the bytes that have come, at least one and at most   *)
(* what it has room for, wherever that cuts them; it takes none only when  *)
(* the peer has hung up and everything has been read.                      *)
(***************************************************************************)
EXTENDS Integers, Sequences, SequencesExt

VARIABLES
  talk,  \* the conversation: what is asked, and what the peer says
  wire,  \* the bytes of the peer that have not been read
  ends,  \* the peer has hung up behind them
  at,    \* where the reader is; "done" and "failed" are the results
  buf,   \* what it has read and not used
  need,  \* how many bytes it wants
  out    \* what it makes of them

streamVars == <<talk, wire, ends, at, buf, need, out>>

Least(m, n) == IF m < n THEN m ELSE n
From(s, n) == SubSeq(s, n, Len(s))

(* What a read with this much room may return.                             *)
Reads(room) ==
  IF wire # <<>>
    THEN {SubSeq(wire, 1, n) : n \in 1..Least(room, Len(wire))}
    ELSE IF ends THEN {<<>>} ELSE {}

Took(bytes) == wire' = From(wire, Len(bytes) + 1) /\ UNCHANGED <<talk, ends>>
Goto(place) == at' = place
Fail == at' = "failed" /\ UNCHANGED <<talk, wire, ends, buf, need, out>>

(* The first place where a delimiter begins, 0 when there is none.         *)
Find(s, mark) ==
  LET ps == {p \in 1..(Len(s) - Len(mark) + 1) :
               SubSeq(s, p, p + Len(mark) - 1) = mark}
  IN  IF ps = {} THEN 0 ELSE CHOOSE p \in ps : \A q \in ps : p <= q

CrLf == <<"CR", "LF">>
Blank == CrLf \o CrLf
Lines(ls) == FlattenSeq([n \in 1..Len(ls) |-> ls[n] \o CrLf]) \o CrLf

(* Reading a head: up to and over the blank line, in reads of this much    *)
(* room, and not beyond a limit that is looked at after each read.         *)
TooLong(bytes, limit) == Len(bytes) > limit

ReadHead(room, limit) ==
  /\ Find(buf, Blank) = 0
  /\ \E b \in Reads(room) :
       /\ Took(b) /\ buf' = buf \o b /\ UNCHANGED <<need, out>>
       /\ Goto(IF b = <<>> \/ TooLong(buf \o b, limit) THEN "failed" ELSE at)
HeadEnd == Find(buf, Blank) + Len(Blank) - 1

(* read_exact: never more than is wanted.                                  *)
ReadExact ==
  /\ Len(buf) < need
  /\ \E b \in Reads(need - Len(buf)) :
       /\ Took(b) /\ buf' = buf \o b /\ UNCHANGED <<need, out>>
       /\ Goto(IF b = <<>> THEN "failed" ELSE at)
=============================================================================
