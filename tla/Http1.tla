------------------------------- MODULE Http1 -------------------------------
(***************************************************************************)
(* Reading a response: send_request of drift-core/src/http1.rs after the   *)
(* request has been written.                                               *)
(*                                                                         *)
(* A byte is a string; the status line, the name of a header, its value    *)
(* and a chunk size are one byte each.  A step is a read, or what is done  *)
(* with the buffer between two reads.                                      *)
(***************************************************************************)
EXTENDS ByteStream

CONSTANTS
  HeadRoom,   \* the length of tmp in read_until_headers_end
  MaxHead,    \* the 1 MiB a head may take
  MaxBody,    \* max_response_bytes
  Responses   \* bound: the responses the server may give

(* A response: headers, a sequence of pairs; chunks, its body, cut where a *)
(* chunked response cuts it; ext, whether size lines have an extension;    *)
(* trailer; extra, bytes that follow it.  The server may hang up anywhere. *)
Digits == <<"0", "1", "2", "3">>
SizeLine(r, n) == <<Digits[n + 1]>> \o (IF r.ext THEN <<";", "x">> ELSE <<>>)
Chunk(r, c) == SizeLine(r, Len(c)) \o CrLf \o c \o CrLf

Body(r) == FlattenSeq(r.chunks)
Has(r, header) == \E n \in 1..Len(r.headers) : r.headers[n] = header
Chunked(r) == Has(r, <<"te", "chunked">>)
Framed(r) == Chunked(r) \/ \E n \in 1..Len(r.headers) : r.headers[n][1] = "cl"

Encoded(r) ==
  Lines(<<<<r.status>>>> \o r.headers)
  \o (IF Chunked(r)
        THEN FlattenSeq([n \in 1..Len(r.chunks) |-> Chunk(r, r.chunks[n])])
             \o SizeLine(r, 0) \o CrLf \o (IF r.trailer THEN <<"t">> \o CrLf
                                                        ELSE <<>>) \o CrLf
        ELSE Body(r))
  \o r.extra

HttpInit ==
  \E r \in Responses : \E cut \in 0..Len(Encoded(r)) :
    /\ talk = [kind |-> "http", said |-> r, cut |-> cut]
    /\ wire = SubSeq(Encoded(r), 1, cut) /\ ends \in BOOLEAN
    /\ at = "head" /\ buf = <<>> /\ need = 0 /\ out = <<>>

-----------------------------------------------------------------------------
(* The head, and how the body ends.  Mutant: Content-Length goes first.    *)
Values(head, name) == {n \in 2..Len(head) : head[n - 1] = name}
Get(head, name) ==
  LET ns == Values(head, name) IN
  IF ns = {} THEN "none" ELSE head[CHOOSE n \in ns : \A m \in ns : n <= m]

LengthFirst(te, cl) ==
  CASE cl # "none" -> "length" [] te # "none" -> "chunked" [] OTHER -> "close"
Ending(te, cl) ==
  CASE te = "chunked" -> "chunked" [] te \notin {"chunked", "none"} -> "bad"
    [] te = "none" /\ cl # "none" -> "length" [] OTHER -> "close"

Number(d) == CHOOSE n \in 0..3 : Digits[n + 1] = d
IsNumber(d) == \E n \in 1..4 : Digits[n] = d

(* A server that means what it says: a length it gives is that of the body *)
(* and a chunk has bytes, at most as many as a digit says.                 *)
Word == STRING \ {"CR", "te", "cl", "none"}
Means(r) ==
  IF Chunked(r) THEN \A n \in 1..Len(r.chunks) : Len(r.chunks[n]) \in 1..3
  ELSE \A n \in 1..Len(r.headers) :
         r.headers[n][1] = "cl" /\ IsNumber(r.headers[n][2]) =>
           Number(r.headers[n][2]) = Len(Body(r))

ASSUME ResponsesAssumption ==
  /\ HeadRoom \in Nat \ {0} /\ MaxHead \in Nat /\ MaxBody \in Nat
  /\ Responses \subseteq
       [status : Word, headers : Seq((STRING \ {"CR"}) \X Word),
        chunks : Seq(Seq(STRING)), ext : BOOLEAN, trailer : BOOLEAN,
        extra : Seq(STRING)]
  /\ \A r \in Responses : Means(r)

ReadBody(head, prefix) ==
  LET cl == Get(head, "cl")
      n  == IF IsNumber(cl) THEN Number(cl) ELSE 0 IN
  CASE head[1] # "ok" \/ Ending(Get(head, "te"), cl) = "bad" -> Fail
    [] head[1] = "ok" /\ Ending(Get(head, "te"), cl) = "chunked" ->
         /\ Goto("size") /\ buf' = prefix
         /\ UNCHANGED <<talk, wire, ends, need, out>>
    [] head[1] = "ok" /\ Ending(Get(head, "te"), cl) = "length" ->
         IF ~IsNumber(cl) \/ n > MaxBody THEN Fail
         ELSE /\ Goto("exact") /\ need' = n /\ buf' = <<>>
              /\ out' = SubSeq(prefix, 1, Least(n, Len(prefix)))
              /\ UNCHANGED <<talk, wire, ends>>
    [] OTHER ->
         /\ Goto("close") /\ out' = prefix /\ buf' = <<>>
         /\ UNCHANGED <<talk, wire, ends, need>>

Head1 ==
  /\ at = "head"
  /\ \/ ReadHead(HeadRoom, MaxHead)
     \/ /\ Find(buf, Blank) # 0
        /\ ReadBody(SubSeq(buf, 1, HeadEnd), From(buf, HeadEnd + 1))

ExactBody ==
  /\ at = "exact" /\ UNCHANGED <<buf, need>>
  /\ \/ /\ Len(out) = need /\ Goto("done") /\ UNCHANGED <<talk, wire, ends, out>>
     \/ /\ Len(out) < need
        /\ \E b \in Reads(need - Len(out)) :
             /\ Took(b) /\ out' = out \o b
             /\ Goto(IF b = <<>> THEN "failed" ELSE at)

(* The limit is looked at here, and not for what came with the head.       *)
CloseBody ==
  /\ at = "close" /\ UNCHANGED <<buf, need>>
  /\ \E b \in Reads(HeadRoom) :
       /\ Took(b)
       /\ out' = IF Len(out \o b) > MaxBody THEN out ELSE out \o b
       /\ Goto(IF b = <<>> THEN "done"
               ELSE IF Len(out \o b) > MaxBody THEN "failed" ELSE at)

-----------------------------------------------------------------------------
(* read_chunked_body.                                                      *)
More(room, ending) ==
  \E b \in Reads(room) :
    /\ Took(b) /\ buf' = buf \o b /\ UNCHANGED <<need, out>>
    /\ Goto(IF b = <<>> THEN ending ELSE at)

Use(n) == buf' = From(buf, n + 1)

(* The last chunk.  Mutant: what follows it is left where it is.           *)
StopAtZero == "done"
AfterZero == "trailer"

Size ==
  LET p == Find(buf, CrLf) IN
  /\ at = "size"
  /\ \/ p = 0 /\ More(HeadRoom, "failed")
     \/ /\ p # 0
        /\ IF p = 1 \/ ~IsNumber(buf[1]) \/ (p > 2 /\ buf[2] # ";") THEN Fail
           ELSE /\ Use(p + 1) /\ need' = Number(buf[1])
                /\ Goto(IF need' = 0 THEN AfterZero ELSE "chunk")
                /\ UNCHANGED <<talk, wire, ends, out>>

(* A chunk with the two bytes behind it, whatever they are.  Mutant: the   *)
(* limit is held against the chunk alone.                                  *)
ChunkTooLarge == need > MaxBody
TooLarge == Len(out) + need > MaxBody

ChunkBody ==
  /\ at = "chunk"
  /\ \/ Len(buf) < need + 2 /\ More(need + 2 - Len(buf), "failed")
     \/ /\ Len(buf) >= need + 2
        /\ IF TooLarge THEN Fail
           ELSE /\ out' = out \o SubSeq(buf, 1, need) /\ Use(need + 2)
                /\ Goto("size") /\ UNCHANGED <<talk, wire, ends, need>>

Trailer ==
  LET p == Find(buf, CrLf) IN
  /\ at = "trailer"
  /\ \/ p = 0 /\ More(HeadRoom, "done")
     \/ /\ p # 0 /\ Use(p + 1) /\ Goto(IF p = 1 THEN "done" ELSE at)
        /\ UNCHANGED <<talk, wire, ends, need, out>>

HttpNext == Head1 \/ ExactBody \/ CloseBody \/ Size \/ ChunkBody \/ Trailer

-----------------------------------------------------------------------------
(* Properties.                                                             *)

Response(place) == talk.kind = "http" /\ at = place

(* send_request returns the body the server sent, however the reads cut    *)
(* it, and a response that is cut short is an error; only a body that ends *)
(* with the stream may have lost its end.                                  *)
BodyFaithful ==
  Response("done") =>
    IF Framed(talk.said) THEN out = Body(talk.said)
    ELSE IsPrefix(out, Body(talk.said) \o talk.said.extra)

(* Nothing of a framed response is left on the stream for the next request *)
(* on this connection to take for its answer.                              *)
ConsumedExactly ==
  Response("done") /\ Framed(talk.said) =>
    Len(wire) + Len(Encoded(talk.said)) <= talk.cut + Len(talk.said.extra)
    \/ wire = <<>>

(* The limits hold: on a head, and on a framed body over all its chunks.   *)
LimitKept ==
  /\ Response("head") => Len(buf) <= MaxHead
  /\ Response("done") /\ Framed(talk.said) => Len(out) <= MaxBody
=============================================================================
