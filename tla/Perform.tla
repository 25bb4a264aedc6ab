------------------------------ MODULE Perform ------------------------------
(***************************************************************************)
(* WispHandle::perform of drift-core/src/handle.rs and the ConnectionPool  *)
(* of drift-core/src/pool.rs that handles share.  A step is what a perform *)
(* does between two awaits, or one call into the pool, which locks it.     *)
(*                                                                         *)
(* A request is named by the handle that sent it and the redirects it had  *)
(* left, so that an answer to another request shows.  How http1.rs finds   *)
(* the end of a body is in Wire; here an answer has a body that ends       *)
(* ("whole"), one that ends with the stream ("eof"), or, to HEAD, the      *)
(* length of a body that never comes ("bodyless").                         *)
(***************************************************************************)
EXTENDS Integers, Sequences, FiniteSets

CONSTANTS
  Handle,
  Conn,          \* bound: the connections there are at a time
  Key,           \* (host, port)
  Url,           \* records [key, tls, path]
  None,
  Setups,        \* how the handles may be set up: [Handle -> [route, shares]]
  MaxRedirects,  \* http.max_redirects, 0 when redirects are not followed
  MaxPerHost,    \* MAX_PER_HOST
  Idle           \* IDLE_TIMEOUT_SECS, in ticks of the model

ASSUME ConstantsAssumption ==
  /\ \A u \in Url : u.key \in Key /\ u.tls \in BOOLEAN
  /\ Setups \subseteq
       [Handle -> [route : {"direct", "proxy", "mux"}, shares : BOOLEAN]]
  /\ None \notin Conn /\ None \notin Url /\ IsFiniteSet(Conn)
  /\ {MaxRedirects, MaxPerHost, Idle} \subseteq Nat

VARIABLES
  \* WispHandle
  setup,  \* route: "mux", "proxy" (a proxy_chain and no mux) or "direct";
          \* shares: it has the pool
  method,
  \* the perform under way, or none
  at,     \* "idle", "connect", "send", "read"
  url, left, conn,
  \* ConnectionPool: the connections kept for each key
  pool,
  \* the connections, with the servers behind them
  net

vars == <<setup, method, at, url, left, conn, pool, net>>

Request(h) == <<h, left[h]>>
Requests == Handle \X (0..MaxRedirects)
Kind == {"whole", "eof", "bodyless"}

Unused == [key |-> None, route |-> "direct", tls |-> 0, peer |-> "none",
           asked |-> <<>>, answered |-> <<>>, age |-> 0]
Opened(k, r) == [key |-> k, route |-> r, tls |-> 0, peer |-> "open",
                 asked |-> <<>>, answered |-> <<>>, age |-> 0]

Init ==
  /\ setup \in Setups
  /\ method = [h \in Handle |-> "Get"]
  /\ at = [h \in Handle |-> "idle"] /\ url = [h \in Handle |-> None]
  /\ left = [h \in Handle |-> 0] /\ conn = [h \in Handle |-> None]
  /\ pool = [k \in Key |-> {}] /\ net = [c \in Conn |-> Unused]

-----------------------------------------------------------------------------
(* ConnectionPool.  What is pushed later expires later, so the entry that  *)
(* pop takes is among the youngest.  Mutants: what is handed out stays; put *)
(* does not count.                                                         *)
Live(k) == {c \in pool[k] : net[c].age < Idle}
Youngest(cs) == {c \in cs : \A d \in cs : net[c].age <= net[d].age}

Peek(k, c) == Live(k)
WithoutPopped(k, c) == Live(k) \ {c}

Always(k) == TRUE
HasRoom(k) == Cardinality(pool[k]) < MaxPerHost

(* Connections that nobody holds any more are closed.                      *)
Drop(f, cs) == [c \in Conn |-> IF c \in cs THEN Unused ELSE f[c]]

Put(k, c, f) ==
  IF HasRoom(k)
    THEN /\ pool' = [pool EXCEPT ![k] = @ \cup {c}]
         /\ net' = [f EXCEPT ![c].age = 0]
    ELSE UNCHANGED pool /\ net' = Drop(f, {c})

Cleanup ==
  LET old == UNION {pool[k] \ Live(k) : k \in Key} IN
  /\ old # {}
  /\ pool' = [k \in Key |-> Live(k)] /\ net' = Drop(net, old)
  /\ UNCHANGED <<setup, method, at, url, left, conn>>

-----------------------------------------------------------------------------
Goto(h, place) == at' = [at EXCEPT ![h] = place]
Take(h, c) == conn' = [conn EXCEPT ![h] = c]

Finish(h) ==
  /\ Goto(h, "idle") /\ Take(h, None)
  /\ url' = [url EXCEPT ![h] = None] /\ left' = [left EXCEPT ![h] = 0]

(* The caller sets a url, and a method or not, and calls perform.          *)
Start(h, u, m) ==
  /\ at[h] = "idle" /\ Goto(h, "connect")
  /\ method' = [method EXCEPT ![h] = m] /\ url' = [url EXCEPT ![h] = u]
  /\ left' = [left EXCEPT ![h] = MaxRedirects]
  /\ UNCHANGED <<setup, conn, pool, net>>

(* perform fails, or its future is dropped: the connection goes with it.   *)
Abort(h) ==
  /\ Finish(h) /\ net' = Drop(net, {conn[h]})
  /\ UNCHANGED <<setup, pool>>

Cancel(h) == at[h] # "idle" /\ Abort(h) /\ UNCHANGED method

(* The pool is asked only for direct connections.  Mutant: before the mux  *)
(* and the proxy chain are looked at.                                      *)
AsksFirst(h) == setup[h].shares
AsksPool(h) == setup[h].route = "direct" /\ setup[h].shares

Reuse(h) ==
  LET k == url[h].key IN
  /\ at[h] = "connect" /\ AsksPool(h)
  /\ \E c \in Youngest(Live(k)) :
       /\ pool' = [pool EXCEPT ![k] = WithoutPopped(k, c)]
       /\ net' = [Drop(net, pool[k] \ Live(k)) EXCEPT ![c].age = 0]
       /\ Take(h, c) /\ Goto(h, "send")
  /\ UNCHANGED <<setup, method, url, left>>

(* mux.open, a direct connection, or one through apply_chain; all may fail.*)
Connect(h) ==
  LET k == url[h].key
      old == IF AsksPool(h) THEN pool[k] ELSE {} IN
  /\ at[h] = "connect" /\ (AsksPool(h) => Live(k) = {})
  /\ pool' = [pool EXCEPT ![k] = @ \ old]
  /\ \/ net' = Drop(net, old) /\ Finish(h)
     \/ LET c == CHOOSE d \in Conn : net[d] = Unused IN
        /\ \E d \in Conn : net[d] = Unused
        /\ net' = [Drop(net, old) EXCEPT ![c] = Opened(k, setup[h].route)]
        /\ Take(h, c) /\ Goto(h, "send") /\ UNCHANGED <<url, left>>
  /\ UNCHANGED <<setup, method>>

(* perform_http1_tls up to the response: a handshake when the url of this  *)
(* hop is https, which over a connection that is in TLS already, or whose  *)
(* server has hung up, only fails.  Mutant: TLS for the first hop only.    *)
FirstHopTls(h) == url[h].tls /\ left[h] = MaxRedirects
NeedsTls(h) == url[h].tls

SendRequest(h) ==
  LET c == conn[h] IN
  /\ at[h] = "send"
  /\ NeedsTls(h) => net[c].peer = "open" /\ net[c].tls = 0
  /\ net' = [net EXCEPT
       ![c].tls = IF NeedsTls(h) THEN 1 ELSE @,
       ![c].asked = IF net[c].peer = "open" THEN Append(@, Request(h)) ELSE @]
  /\ Goto(h, "read")
  /\ UNCHANGED <<setup, method, url, left, conn, pool>>

HandshakeFails(h) ==
  at[h] = "send" /\ NeedsTls(h) /\ Abort(h) /\ UNCHANGED method

-----------------------------------------------------------------------------
(* send_request has the whole response.  Mutant: the body is left unread.  *)
Answer1(h) == Head(net[conn[h]].answered)
HasAnswer(h) ==
  /\ at[h] = "read" /\ net[conn[h]].answered # <<>>
  /\ \/ Answer1(h).kind = "whole"
     \/ Answer1(h).kind = "eof" /\ net[conn[h]].peer = "closed"

Unread(h) == net
AfterRead(h) ==
  [net EXCEPT ![conn[h]].answered =
     IF Answer1(h).kind = "whole" THEN Tail(@) ELSE <<>>]

(* The connection goes back to the pool, or is dropped.                    *)
Release(h, back) ==
  IF back /\ setup[h].shares
    THEN Put(url[h].key, conn[h], AfterRead(h))
    ELSE UNCHANGED pool /\ net' = Drop(AfterRead(h), {conn[h]})

(* Whether a redirect may still be followed.  Mutant: one too many.        *)
OneTooMany(h) == left[h] >= 0
RedirectsLeft(h) == left[h] > 0

(* The response is returned: it is no redirect, there are none left, or it *)
(* has no Location, and then the connection is dropped.                    *)
Return(h, keepAlive, noLocation) ==
  /\ noLocation => RedirectsLeft(h)
  /\ Release(h, keepAlive /\ ~noLocation)
  /\ Finish(h)
  /\ UNCHANGED <<setup, method>>

OneLess(h) == [left EXCEPT ![h] = @ - 1]

(* A redirect to next, which is what resolve_url makes of Location.  After *)
(* 303 the handle has the method GET, in later performs too.               *)
AfterStatus(h, seeOther) ==
  method' = IF seeOther THEN [method EXCEPT ![h] = "Get"] ELSE method

Follow(h, keepAlive, seeOther, next) ==
  /\ RedirectsLeft(h) /\ next # url[h]
  /\ AfterStatus(h, seeOther)
  /\ Release(h, keepAlive /\ next.key = url[h].key)
  /\ url' = [url EXCEPT ![h] = next] /\ left' = OneLess(h)
  /\ Goto(h, "connect") /\ Take(h, None)
  /\ UNCHANGED setup

(* A redirect to where it comes from, or to what parse_url refuses, fails; *)
(* the second only after the status has been looked at.                    *)
RedirectFails(h, seeOther) ==
  RedirectsLeft(h) /\ AfterStatus(h, seeOther) /\ Abort(h)

(* send_request fails: the stream ended within the response or before it.  *)
ReadFails(h) ==
  /\ at[h] = "read" /\ net[conn[h]].peer = "closed"
  /\ net[conn[h]].answered # <<>> => Answer1(h).kind = "bodyless"
  /\ Abort(h) /\ UNCHANGED method

-----------------------------------------------------------------------------
(* The servers answer what they are asked, in order, and may hang up.      *)
Answer(c) ==
  /\ net[c].peer = "open" /\ net[c].asked # <<>>
  /\ \E kind \in Kind :
       /\ kind = "bodyless" => method[Head(net[c].asked)[1]] = "Head"
       /\ net' = [net EXCEPT
            ![c].asked = Tail(@),
            ![c].answered = Append(@, [req |-> Head(net[c].asked),
                                       kind |-> kind])]
  /\ UNCHANGED <<setup, method, at, url, left, conn, pool>>

Hangup(c) ==
  /\ net[c].peer = "open"
  /\ net' = [net EXCEPT ![c].peer = "closed", ![c].asked = <<>>]
  /\ UNCHANGED <<setup, method, at, url, left, conn, pool>>

Pooled == UNION {pool[k] : k \in Key}

Tick ==
  /\ \E c \in Pooled : net[c].age < Idle
  /\ net' = [c \in Conn |->
       IF c \in Pooled /\ net[c].age < Idle
         THEN [net[c] EXCEPT !.age = @ + 1] ELSE net[c]]
  /\ UNCHANGED <<setup, method, at, url, left, conn, pool>>

-----------------------------------------------------------------------------
Calls(h) ==
  (\E u \in Url, m \in {"Get", "Head", method[h]} : Start(h, u, m)) \/ Cancel(h)

Heard(h) ==
  /\ HasAnswer(h)
  /\ \E keepAlive, other \in BOOLEAN :
       \/ Return(h, keepAlive, other)
       \/ RedirectFails(h, other)
       \/ \E next \in Url : Follow(h, keepAlive, other, next)

Runs(h) ==
  /\ at[h] # "idle"
  /\ \/ Reuse(h) \/ Connect(h) \/ SendRequest(h) \/ HandshakeFails(h)
     \/ Heard(h) \/ ReadFails(h)

Next ==
  \/ \E h \in Handle : Calls(h) \/ Runs(h)
  \/ \E c \in Conn : Answer(c) \/ Hangup(c)
  \/ Cleanup \/ Tick

Spec == Init /\ [][Next]_vars

(* Calls into a mux may sleep for good: a send without credit, a read once *)
(* the pump has ended (see Mux).  A connection through the mux may come    *)
(* from the pool, too.                                                     *)
OverMux(h) ==
  setup[h].route = "mux" \/ (conn[h] # None /\ net[conn[h]].route = "mux")

(* A server finishes what it owes, or hangs up: an answer to what it is    *)
(* asked, and the end of a body that ends with the stream.  It need not    *)
(* hang up otherwise.                                                      *)
Owes(c) ==
  \/ net[c].asked # <<>>
  \/ \E n \in 1..Len(net[c].answered) : net[c].answered[n].kind = "eof"
Serves(c) ==
  net[c].route # "mux" /\ Owes(c) /\ (Answer(c) \/ Hangup(c))

(* The runtime polls a perform that can go on.                             *)
FairSpec ==
  /\ Spec
  /\ \A h \in Handle : WF_vars(~OverMux(h) /\ Runs(h))
  /\ \A c \in Conn : WF_vars(Serves(c))

-----------------------------------------------------------------------------
(* Properties.                                                             *)

Connection ==
  [key : Key \cup {None}, route : {"direct", "proxy", "mux"}, tls : {0, 1},
   peer : {"none", "open", "closed"}, asked : Seq(Requests),
   answered : Seq([req : Requests, kind : Kind]), age : 0..Idle]

TypeOK ==
  /\ setup \in Setups /\ method \in [Handle -> {"Get", "Head"}]
  /\ at \in [Handle -> {"idle", "connect", "send", "read"}]
  /\ url \in [Handle -> Url \cup {None}] /\ left \in [Handle -> 0..MaxRedirects]
  /\ conn \in [Handle -> Conn \cup {None}]
  /\ pool \in [Key -> SUBSET Conn] /\ net \in [Conn -> Connection]

(* A connection has one owner: two performs never use the same one, and a  *)
(* perform uses none that is still in the pool, under whatever key.        *)
OneOwner ==
  /\ \A h, g \in Handle : conn[h] = conn[g] /\ conn[h] # None => h = g
  /\ \A h \in Handle, k \in Key : conn[h] \notin pool[k]
  /\ \A j, k \in Key : j # k => pool[j] \cap pool[k] = {}

(* A perform reads the answer to its own request, to the hop it is at: its *)
(* request is the only one that is open on its connection, whether the     *)
(* user before it finished, followed a redirect, failed or was cancelled.  *)
AnswerIsOwn ==
  \A h \in Handle : at[h] = "read" =>
    LET c == net[conn[h]] IN
    /\ Len(c.asked) + Len(c.answered) <= 1
    /\ \A n \in 1..Len(c.answered) : c.answered[n].req = Request(h)

(* A pooled connection leads to the key it is kept under and is between    *)
(* messages, and no key has more than its share.                           *)
PoolClean ==
  \A k \in Key :
    /\ Cardinality(pool[k]) <= MaxPerHost
    /\ \A c \in pool[k] : /\ net[c].key = k
                          /\ net[c].asked = <<>> /\ net[c].answered = <<>>

(* A request of a handle with a mux or a proxy chain goes through it, and  *)
(* to the host of the url of this hop; one for https travels inside TLS.   *)
GoesWhereTold ==
  \A h \in Handle : at[h] = "read" =>
    /\ net[conn[h]].key = url[h].key
    /\ setup[h].route # "direct" => net[conn[h]].route = setup[h].route
    /\ url[h].tls => net[conn[h]].tls = 1

(* With servers that finish what they owe a perform ends, round whatever   *)
(* circle of redirects, or stays at one await for good: one that a mux may *)
(* keep, or that of an answer to HEAD, whose body never comes.             *)
BodyNeverComes(h) ==
  at[h] = "read" /\ net[conn[h]].answered # <<>> /\ Answer1(h).kind = "bodyless"
=============================================================================
