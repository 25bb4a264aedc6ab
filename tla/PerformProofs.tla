--------------------------- MODULE PerformProofs ---------------------------
(***************************************************************************)
(* Perform holds its types, its ownership of connections and the pairing   *)
(* of requests and answers for every number of handles, connections, hosts *)
(* and redirects.                                                          *)
(***************************************************************************)
EXTENDS Perform, FiniteSetTheorems, TLAPS

(* A handle has a connection exactly between connect and the end, and it   *)
(* is one to the host of its url, over the route it was told.  Until the   *)
(* request goes out nothing is under way on it; after that, nothing but    *)
(* this request or its answer.                                             *)
HasConn(h) ==
  /\ conn[h] \in Conn /\ net[conn[h]].peer # "none"
  /\ net[conn[h]].key = url[h].key
  /\ setup[h].route # "direct" => net[conn[h]].route = setup[h].route

Outstanding(h) ==
  LET c == net[conn[h]] IN
  /\ Len(c.asked) + Len(c.answered) <= 1
  /\ \A n \in 1..Len(c.asked) : c.asked[n] = Request(h)
  /\ \A n \in 1..Len(c.answered) : c.answered[n].req = Request(h)

HandleInv(h) ==
  /\ at[h] \in {"idle", "connect"} => conn[h] = None
  /\ at[h] # "idle" => url[h] \in Url
  /\ at[h] \in {"send", "read"} => HasConn(h)
  /\ at[h] = "send" => /\ net[conn[h]].asked = <<>>
                       /\ net[conn[h]].answered = <<>>
  /\ at[h] = "read" => /\ Outstanding(h)
                       /\ url[h].tls => net[conn[h]].tls = 1

(* A pooled connection is open or was, leads to its key and is clean.      *)
Clean(c, k) ==
  /\ net[c].peer # "none" /\ net[c].key = k
  /\ net[c].asked = <<>> /\ net[c].answered = <<>>

PoolInv(k) ==
  /\ Cardinality(pool[k]) <= MaxPerHost
  /\ \A c \in pool[k] : Clean(c, k)

Inv ==
  /\ TypeOK /\ OneOwner
  /\ \A h \in Handle : HandleInv(h)
  /\ \A k \in Key : PoolInv(k)

-----------------------------------------------------------------------------
(* What a step leaves as it is.                                            *)

LEMMA NatConstants == MaxRedirects \in Nat /\ MaxPerHost \in Nat /\ Idle \in Nat
BY ConstantsAssumption

LEMMA UnusedTyped == Unused \in Connection
BY NatConstants DEF Unused, Connection

LEMMA OpenedFields ==
  ASSUME NEW k, NEW r
  PROVE  Opened(k, r) = [key |-> k, route |-> r, tls |-> 0, peer |-> "open",
                         asked |-> <<>>, answered |-> <<>>, age |-> 0]
BY DEF Opened

LEMMA OneElement ==
  ASSUME NEW x
  PROVE  Len(<<x>>) = 1 /\ \A n \in 1..Len(<<x>>) : <<x>>[n] = x
OBVIOUS

LEMMA SeqLen ==
  ASSUME NEW S, NEW s \in Seq(S)
  PROVE  /\ Len(s) \in Nat
         /\ Len(s) = 0 <=> s = <<>>
         /\ Len(s) = 1 => Tail(s) = <<>>
OBVIOUS

(* The two updates that leave a connection ready for its next request.     *)
LEMMA ZeroAge ==
  ASSUME NEW r \in Connection
  PROVE  LET s == [r EXCEPT !.age = 0] IN
         /\ s \in Connection
         /\ s.peer = r.peer /\ s.key = r.key
         /\ s.asked = r.asked /\ s.answered = r.answered
BY NatConstants DEF Connection

LEMMA EmptyAnswered ==
  ASSUME NEW r \in Connection
  PROVE  LET s == [r EXCEPT !.answered = <<>>] IN
         /\ s \in Connection
         /\ s.peer = r.peer /\ s.key = r.key
         /\ s.asked = r.asked /\ s.answered = <<>>
<1>. DEFINE T == [req : Requests, kind : Kind]
            s == [r EXCEPT !.answered = <<>>]
<1>1. <<>> \in Seq(T)
  OBVIOUS
<1>2. s \in Connection
  <2>. HIDE DEF T
  <2>. QED  BY <1>1 DEF Connection, T
<1>3. /\ s.peer = r.peer /\ s.key = r.key
      /\ s.asked = r.asked /\ s.answered = <<>>
  BY DEF Connection
<1>. QED  BY <1>2, <1>3

(* A handle is not touched by a step that leaves it, and its connection.   *)
LEMMA HandleStable ==
  ASSUME NEW h \in Handle, HandleInv(h), setup' = setup,
         at'[h] = at[h], url'[h] = url[h], left'[h] = left[h],
         conn'[h] = conn[h],
         conn[h] \in Conn => net'[conn[h]] = net[conn[h]]
  PROVE  HandleInv(h)'
<1>1. CASE at[h] \in {"send", "read"}
  <2>1. /\ conn[h] \in Conn /\ net'[conn[h]] = net[conn[h]]
        /\ net[conn'[h]] = net[conn[h]] /\ net'[conn'[h]] = net[conn[h]]
    BY <1>1 DEF HandleInv, HasConn
  <2>2. HasConn(h)'
    BY <1>1, <2>1 DEF HandleInv, HasConn
  <2>3. at[h] = "read" => Outstanding(h)'
    BY <1>1, <2>1 DEF HandleInv, Outstanding, Request
  <2>. QED  BY <1>1, <2>1, <2>2, <2>3 DEF HandleInv
<1>2. CASE at[h] \notin {"send", "read"}
  BY <1>2 DEF HandleInv
<1>. QED  BY <1>1, <1>2

(* Nor is a key by a step that leaves the connections it keeps.            *)
LEMMA PoolStable ==
  ASSUME NEW k \in Key, TypeOK, PoolInv(k), pool'[k] \subseteq pool[k],
         \A c \in pool'[k] : /\ net'[c].peer # "none"
                             /\ net'[c].key = net[c].key
                             /\ net'[c].asked = net[c].asked
                             /\ net'[c].answered = net[c].answered
  PROVE  PoolInv(k)'
<1>1. IsFiniteSet(pool[k])
  BY ConstantsAssumption, FS_Subset DEF TypeOK
<1>2. Cardinality(pool'[k]) <= Cardinality(pool[k])
  BY <1>1, FS_Subset
<1>3. IsFiniteSet(pool'[k])
  BY <1>1, FS_Subset
<1>4. Cardinality(pool'[k]) <= MaxPerHost
  BY <1>1, <1>2, <1>3, FS_CardinalityType, NatConstants DEF PoolInv
<1>. QED  BY <1>4 DEF PoolInv, Clean

LEMMA DropTyped ==
  ASSUME NEW f \in [Conn -> Connection], NEW cs
  PROVE  Drop(f, cs) \in [Conn -> Connection]
BY UnusedTyped DEF Drop

LEMMA InitInv == Init => Inv
<1>. SUFFICES ASSUME Init PROVE Inv
  OBVIOUS
<1>1. TypeOK
  <2>1. net \in [Conn -> Connection]
    BY UnusedTyped DEF Init
  <2>2. left \in [Handle -> 0..MaxRedirects]
    BY NatConstants DEF Init
  <2>. QED  BY <2>1, <2>2 DEF Init, TypeOK
<1>2. OneOwner
  BY DEF Init, OneOwner
<1>3. ASSUME NEW h \in Handle PROVE HandleInv(h)
  BY DEF Init, HandleInv
<1>4. ASSUME NEW k \in Key PROVE PoolInv(k)
  BY FS_EmptySet, NatConstants DEF Init, PoolInv
<1>. QED  BY <1>1, <1>2, <1>3, <1>4 DEF Inv

-----------------------------------------------------------------------------
(* What the invariant says of the connection of a handle.                  *)

LEMMA OwnConn ==
  ASSUME Inv, NEW h \in Handle, at[h] \in {"send", "read"}
  PROVE  /\ conn[h] \in Conn /\ conn[h] # None
         /\ url[h] \in Url /\ url[h].key \in Key
         /\ net[conn[h]] \in Connection
         /\ \A g \in Handle : g # h => conn[g] # conn[h]
         /\ \A k \in Key : conn[h] \notin pool[k]
BY ConstantsAssumption DEF Inv, HandleInv, HasConn, OneOwner, TypeOK

(* A connection that nobody uses is neither owned nor pooled.              *)
LEMMA FreeConn ==
  ASSUME Inv, NEW d \in Conn, net[d] = Unused
  PROVE  /\ \A g \in Handle : conn[g] # d
         /\ \A k \in Key : d \notin pool[k]
<1>1. net[d].peer = "none"
  BY DEF Unused
<1>2. ASSUME NEW g \in Handle, conn[g] = d PROVE FALSE
  <2>1. at[g] \in {"send", "read"}
    BY <1>2, ConstantsAssumption DEF Inv, TypeOK, HandleInv
  <2>. QED  BY <1>1, <1>2, <2>1 DEF Inv, HandleInv, HasConn
<1>3. ASSUME NEW k \in Key PROVE d \notin pool[k]
  BY <1>1 DEF Inv, PoolInv, Clean
<1>. QED  BY <1>2, <1>3

-----------------------------------------------------------------------------
(* The calls.                                                              *)

LEMMA StartInv ==
  ASSUME Inv, NEW h \in Handle, NEW u \in Url,
         NEW m \in {"Get", "Head", method[h]}, Start(h, u, m)
  PROVE  Inv'
<1>. USE DEF Start, Goto
<1>1. TypeOK'
  BY NatConstants DEF Inv, TypeOK
<1>2. OneOwner'
  BY DEF Inv, OneOwner
<1>3. ASSUME NEW g \in Handle PROVE HandleInv(g)'
  <2>1. CASE g = h
    BY <2>1 DEF Inv, TypeOK, HandleInv
  <2>2. CASE g # h
    BY <2>2, HandleStable DEF Inv, TypeOK
  <2>. QED  BY <2>1, <2>2
<1>4. ASSUME NEW k \in Key PROVE PoolInv(k)'
  <2>1. PoolInv(k) /\ pool' = pool /\ net' = net
    BY DEF Inv
  <2>. QED  BY <2>1 DEF PoolInv, Clean
<1>. QED  BY <1>1, <1>2, <1>3, <1>4 DEF Inv

LEMMA AbortInv ==
  ASSUME Inv, NEW h \in Handle, Abort(h),
         method' \in [Handle -> {"Get", "Head"}]
  PROVE  Inv'
<1>. USE DEF Abort, Finish, Goto, Take
<1>1. TypeOK'
  <2>1. net' \in [Conn -> Connection]
    BY DropTyped DEF Inv, TypeOK
  <2>2. left' \in [Handle -> 0..MaxRedirects]
    BY NatConstants DEF Inv, TypeOK
  <2>. QED  BY <2>1, <2>2 DEF Inv, TypeOK
<1>2. OneOwner'
  <2>1. \A g \in Handle : conn'[g] = IF g = h THEN None ELSE conn[g]
    BY DEF Inv, TypeOK
  <2>2. \A k \in Key : pool'[k] = pool[k] /\ None \notin pool[k]
    BY ConstantsAssumption DEF Inv, TypeOK
  <2>. QED  BY <2>1, <2>2 DEF Inv, OneOwner
<1>3. ASSUME NEW d \in Conn, d # conn[h] PROVE net'[d] = net[d]
  BY <1>3 DEF Drop
<1>4. ASSUME NEW g \in Handle PROVE HandleInv(g)'
  <2>1. CASE g = h
    BY <2>1 DEF Inv, TypeOK, HandleInv
  <2>2. CASE g # h
    <3>1. conn[g] \in Conn => net'[conn[g]] = net[conn[g]]
      BY <2>2, <1>3, ConstantsAssumption DEF Inv, OneOwner
    <3>. QED  BY <2>2, <3>1, HandleStable DEF Inv, TypeOK
  <2>. QED  BY <2>1, <2>2
<1>5. ASSUME NEW k \in Key PROVE PoolInv(k)'
  <2>1. \A c \in pool[k] : net'[c] = net[c]
    BY <1>3 DEF Inv, OneOwner, TypeOK
  <2>2. PoolInv(k) /\ pool' = pool
    BY DEF Inv
  <2>. QED  BY <2>1, <2>2 DEF PoolInv, Clean
<1>. QED  BY <1>1, <1>2, <1>4, <1>5 DEF Inv

-----------------------------------------------------------------------------
(* The connection of a hop.                                                *)

LEMMA ReuseInv == ASSUME Inv, NEW h \in Handle, Reuse(h) PROVE Inv'
<1>. DEFINE k == url[h].key
            old == pool[k] \ Live(k)
<1>1. /\ at[h] = "connect" /\ setup[h].route = "direct"
      /\ url[h] \in Url /\ k \in Key
  BY ConstantsAssumption DEF Reuse, AsksPool, Inv, HandleInv
<1>2. PICK c \in Youngest(Live(k)) :
        /\ pool' = [pool EXCEPT ![k] = WithoutPopped(k, c)]
        /\ net' = [Drop(net, old) EXCEPT ![c].age = 0]
        /\ conn' = [conn EXCEPT ![h] = c] /\ at' = [at EXCEPT ![h] = "send"]
  BY DEF Reuse, Take, Goto
<1>3. /\ c \in Live(k) /\ c \in pool[k] /\ c \in Conn
      /\ pool[k] \subseteq Conn
  BY <1>1, <1>2 DEF Youngest, Live, Inv, TypeOK
<1>4. UNCHANGED <<setup, method, url, left>>
  BY DEF Reuse
<1>5. net'[c] = [net[c] EXCEPT !.age = 0]
  BY <1>2, <1>3 DEF Drop
<1>6. ASSUME NEW d \in Conn, d # c, d \notin old PROVE net'[d] = net[d]
  BY <1>2, <1>3, <1>6 DEF Drop
<1>7. TypeOK'
  <2>1. Drop(net, old) \in [Conn -> Connection]
    BY DropTyped DEF Inv, TypeOK
  <2>2. [net[c] EXCEPT !.age = 0] \in Connection
    <3>1. net[c] \in Connection
      BY <1>3 DEF Inv, TypeOK
    <3>. QED  BY <3>1, NatConstants DEF Connection
  <2>3. net' \in [Conn -> Connection]
    BY <1>2, <1>3, <1>5, <2>1, <2>2
  <2>. QED  BY <1>1, <1>2, <1>3, <1>4, <2>3 DEF Inv, TypeOK, WithoutPopped, Live
<1>8. OneOwner'
  <2>1. \A j \in Key : pool'[j] \subseteq pool[j]
    BY <1>1, <1>2 DEF Inv, TypeOK, WithoutPopped, Live
  <2>2. c \notin pool'[k] /\ \A j \in Key : j # k => c \notin pool[j]
    BY <1>1, <1>2, <1>3 DEF Inv, TypeOK, OneOwner, WithoutPopped
  <2>3. \A g \in Handle : conn'[g] = IF g = h THEN c ELSE conn[g]
    BY <1>2 DEF Inv, TypeOK
  <2>4. \A g \in Handle : conn[g] # c
    BY <1>1, <1>3 DEF Inv, OneOwner
  <2>5. \A g \in Handle, j \in Key : conn'[g] \notin pool'[j]
    BY <2>1, <2>2, <2>3 DEF Inv, OneOwner
  <2>6. \A g, f \in Handle : conn'[g] = conn'[f] /\ conn'[g] # None => g = f
    BY <2>3, <2>4 DEF Inv, OneOwner
  <2>7. \A i, j \in Key : i # j => pool'[i] \cap pool'[j] = {}
    BY <2>1 DEF Inv, OneOwner
  <2>. QED  BY <2>5, <2>6, <2>7 DEF OneOwner
<1>9. ASSUME NEW g \in Handle PROVE HandleInv(g)'
  <2>1. CASE g = h
    <3>1. at'[h] = "send" /\ conn'[h] = c /\ url'[h] = url[h]
      BY <1>2, <1>4 DEF Inv, TypeOK
    <3>2. /\ net'[c].peer = net[c].peer /\ net'[c].key = net[c].key
          /\ net'[c].asked = net[c].asked /\ net'[c].answered = net[c].answered
      BY <1>3, <1>5 DEF Inv, TypeOK, Connection
    <3>3. Clean(c, k)
      BY <1>1, <1>3 DEF Inv, PoolInv
    <3>. QED  BY <2>1, <3>1, <3>2, <3>3, <1>1, <1>3, <1>4
               DEF HandleInv, HasConn, Clean
  <2>2. CASE g # h
    <3>1. conn[g] \notin pool[k]
      BY <1>1 DEF Inv, OneOwner
    <3>2. conn[g] \in Conn => net'[conn[g]] = net[conn[g]]
      BY <3>1, <1>3, <1>6
    <3>3. at'[g] = at[g] /\ conn'[g] = conn[g]
      BY <1>2, <2>2 DEF Inv, TypeOK
    <3>. QED  BY <1>4, <3>2, <3>3, HandleStable DEF Inv
  <2>. QED  BY <2>1, <2>2
<1>10. ASSUME NEW j \in Key PROVE PoolInv(j)'
  <2>1. /\ pool'[j] \subseteq pool[j] /\ c \notin pool'[j]
        /\ pool'[j] \cap old = {}
    BY <1>1, <1>2, <1>3 DEF Inv, TypeOK, OneOwner, WithoutPopped, Live
  <2>2. \A d \in pool'[j] : net'[d] = net[d] /\ net[d].peer # "none"
    BY <1>6, <2>1 DEF Inv, TypeOK, PoolInv, Clean
  <2>. QED  BY <2>1, <2>2, PoolStable DEF Inv
<1>. QED  BY <1>7, <1>8, <1>9, <1>10 DEF Inv

LEMMA ConnectInv == ASSUME Inv, NEW h \in Handle, Connect(h) PROVE Inv'
<1>. DEFINE k == url[h].key
            old == IF AsksPool(h) THEN pool[k] ELSE {}
            c == CHOOSE d \in Conn : net[d] = Unused
<1>1. /\ at[h] = "connect" /\ url[h] \in Url /\ k \in Key /\ conn[h] = None
      /\ setup[h].route \in {"direct", "proxy", "mux"}
      /\ pool' = [pool EXCEPT ![k] = @ \ old]
      /\ setup' = setup /\ method' = method /\ old \subseteq pool[k]
      /\ pool[k] \subseteq Conn
  BY ConstantsAssumption DEF Connect, Inv, HandleInv, TypeOK
<1>2. \A j \in Key : /\ pool'[j] \subseteq pool[j]
                     /\ pool'[j] \cap old = {}
  BY <1>1 DEF Inv, TypeOK, OneOwner
<1>3. Drop(net, old) \in [Conn -> Connection]
  BY DropTyped DEF Inv, TypeOK
<1>4. ASSUME NEW d \in Conn, d \notin old PROVE Drop(net, old)[d] = net[d]
  BY <1>4 DEF Drop
<1>5. \A g \in Handle : conn[g] \notin old
  BY <1>1 DEF Inv, OneOwner
<1>6. CASE net' = Drop(net, old) /\ Finish(h)
  <2>. USE <1>6 DEF Finish, Goto, Take
  <2>1. TypeOK'
    <3>1. left' \in [Handle -> 0..MaxRedirects]
      BY NatConstants DEF Inv, TypeOK
    <3>. QED  BY <1>1, <1>3, <3>1 DEF Inv, TypeOK
  <2>2. OneOwner'
    <3>1. conn' = conn
      BY <1>1 DEF Inv, TypeOK
    <3>. QED  BY <1>2, <3>1 DEF Inv, OneOwner
  <2>3. ASSUME NEW g \in Handle PROVE HandleInv(g)'
    <3>1. CASE g = h
      BY <3>1 DEF Inv, TypeOK, HandleInv
    <3>2. CASE g # h
      <4>1. conn[g] \in Conn => net'[conn[g]] = net[conn[g]]
        BY <1>4, <1>5
      <4>. QED  BY <1>1, <3>2, <4>1, HandleStable DEF Inv, TypeOK
    <3>. QED  BY <3>1, <3>2
  <2>4. ASSUME NEW j \in Key PROVE PoolInv(j)'
    <3>1. \A d \in pool'[j] : net'[d] = net[d] /\ net[d].peer # "none"
      BY <1>2, <1>4 DEF Inv, TypeOK, PoolInv, Clean
    <3>. QED  BY <1>2, <3>1, PoolStable DEF Inv
  <2>. QED  BY <2>1, <2>2, <2>3, <2>4 DEF Inv
<1>7. CASE /\ \E d \in Conn : net[d] = Unused
           /\ net' = [Drop(net, old) EXCEPT ![c] = Opened(k, setup[h].route)]
           /\ Take(h, c) /\ Goto(h, "send") /\ UNCHANGED <<url, left>>
  <2>. USE <1>7 DEF Goto, Take
  <2>1. c \in Conn /\ net[c] = Unused
    OBVIOUS
  <2>2. /\ \A g \in Handle : conn[g] # c
        /\ \A j \in Key : c \notin pool[j]
    BY <2>1, FreeConn
  <2>3. net'[c] = Opened(k, setup[h].route)
    BY <1>3, <2>1
  <2>4. ASSUME NEW d \in Conn, d # c, d \notin old PROVE net'[d] = net[d]
    BY <1>3, <1>4, <2>1, <2>4
  <2>5. TypeOK'
    <3>1. Opened(k, setup[h].route) \in Connection
      <4>. DEFINE r == setup[h].route
      <4>1. [key |-> k, route |-> r, tls |-> 0, peer |-> "open",
             asked |-> <<>>, answered |-> <<>>, age |-> 0] \in Connection
        BY <1>1, NatConstants DEF Connection
      <4>. QED  BY <4>1, OpenedFields
    <3>2. net' \in [Conn -> Connection]
      BY <1>3, <2>1, <3>1
    <3>. QED  BY <1>1, <2>1, <3>2 DEF Inv, TypeOK
  <2>6. OneOwner'
    <3>1. \A g \in Handle : conn'[g] = IF g = h THEN c ELSE conn[g]
      BY DEF Inv, TypeOK
    <3>2. \A g, f \in Handle : conn'[g] = conn'[f] /\ conn'[g] # None => g = f
      BY <2>2, <3>1 DEF Inv, OneOwner
    <3>3. \A g \in Handle, j \in Key : conn'[g] \notin pool'[j]
      BY <1>2, <2>2, <3>1 DEF Inv, OneOwner
    <3>4. \A i, j \in Key : i # j => pool'[i] \cap pool'[j] = {}
      BY <1>2 DEF Inv, OneOwner
    <3>. QED  BY <3>2, <3>3, <3>4 DEF OneOwner
  <2>7. ASSUME NEW g \in Handle PROVE HandleInv(g)'
    <3>1. CASE g = h
      <4>1. at'[h] = "send" /\ conn'[h] = c /\ url'[h] = url[h]
        BY DEF Inv, TypeOK
      <4>2. /\ net'[c].peer = "open" /\ net'[c].key = k
            /\ net'[c].route = setup[h].route
            /\ net'[c].asked = <<>> /\ net'[c].answered = <<>>
        BY <2>3, OpenedFields
      <4>. QED  BY <1>1, <2>1, <3>1, <4>1, <4>2 DEF HandleInv, HasConn
    <3>2. CASE g # h
      <4>1. conn[g] \in Conn => net'[conn[g]] = net[conn[g]]
        BY <1>5, <2>2, <2>4
      <4>. QED  BY <1>1, <3>2, <4>1, HandleStable DEF Inv, TypeOK
    <3>. QED  BY <3>1, <3>2
  <2>8. ASSUME NEW j \in Key PROVE PoolInv(j)'
    <3>1. \A d \in pool'[j] : net'[d] = net[d] /\ net[d].peer # "none"
      BY <1>2, <2>2, <2>4 DEF Inv, TypeOK, PoolInv, Clean
    <3>. QED  BY <1>2, <3>1, PoolStable DEF Inv
  <2>. QED  BY <2>5, <2>6, <2>7, <2>8 DEF Inv
<1>. QED  BY <1>6, <1>7 DEF Connect

LEMMA SendRequestInv ==
  ASSUME Inv, NEW h \in Handle, SendRequest(h) PROVE Inv'
<1>. DEFINE c == conn[h]
            asked == IF net[c].peer = "open"
                       THEN Append(net[c].asked, Request(h)) ELSE net[c].asked
<1>1. /\ at[h] = "send" /\ at' = [at EXCEPT ![h] = "read"]
      /\ UNCHANGED <<setup, method, url, left, conn, pool>>
  BY DEF SendRequest, Goto
<1>2. /\ c \in Conn /\ net[c] \in Connection /\ net \in [Conn -> Connection]
      /\ net[c].asked = <<>> /\ net[c].answered = <<>>
      /\ Request(h) \in Requests
  BY <1>1, OwnConn DEF Inv, TypeOK, HandleInv, Request, Requests
<1>3. /\ net'[c] = [net[c] EXCEPT !.tls = IF NeedsTls(h) THEN 1 ELSE @,
                                  !.asked = asked]
      /\ net' = [net EXCEPT ![c] = net'[c]]
  BY <1>2 DEF SendRequest
<1>4. asked \in Seq(Requests) /\ (asked = <<>> \/ asked = <<Request(h)>>)
  BY <1>2
<1>5. net'[c] \in Connection
  BY <1>2, <1>3, <1>4 DEF Connection
<1>6. ASSUME NEW d \in Conn, d # c PROVE net'[d] = net[d]
  BY <1>2, <1>3, <1>6
<1>7. TypeOK'
  BY <1>1, <1>2, <1>3, <1>5 DEF Inv, TypeOK
<1>8. OneOwner'
  BY <1>1 DEF Inv, OneOwner
<1>9. ASSUME NEW g \in Handle PROVE HandleInv(g)'
  <2>1. CASE g = h
    <3>1. /\ at'[h] = "read" /\ conn'[h] = c /\ url'[h] = url[h]
          /\ setup' = setup /\ Request(h)' = Request(h)
      BY <1>1 DEF Inv, TypeOK, Request
    <3>2. /\ net'[c].peer = net[c].peer /\ net'[c].key = net[c].key
          /\ net'[c].route = net[c].route /\ net'[c].asked = asked
          /\ net'[c].answered = <<>>
          /\ url[h].tls => net'[c].tls = 1
      BY <1>2, <1>3 DEF Connection, NeedsTls
    <3>3. HasConn(h) /\ url[h] \in Url
      BY <1>1 DEF Inv, HandleInv
    <3>4. Outstanding(h)'
      <4>1. Len(asked) <= 1 /\ \A n \in 1..Len(asked) : asked[n] = Request(h)
        <5>1. CASE asked = <<>>
          BY <5>1
        <5>2. CASE asked = <<Request(h)>>
          <6>. HIDE DEF asked
          <6>. QED  BY <5>2, OneElement
        <5>. QED  BY <1>4, <5>1, <5>2
      <4>. QED  BY <3>1, <3>2, <4>1 DEF Outstanding
    <3>. QED  BY <1>2, <2>1, <3>1, <3>2, <3>3, <3>4 DEF HandleInv, HasConn
  <2>2. CASE g # h
    <3>1. conn[g] \in Conn => net'[conn[g]] = net[conn[g]]
      BY <1>1, <1>6, <2>2, OwnConn
    <3>. QED  BY <1>1, <2>2, <3>1, HandleStable DEF Inv, TypeOK
  <2>. QED  BY <2>1, <2>2
<1>10. ASSUME NEW k \in Key PROVE PoolInv(k)'
  <2>1. \A d \in pool'[k] : net'[d] = net[d] /\ net[d].peer # "none"
    BY <1>1, <1>6, OwnConn DEF Inv, TypeOK, PoolInv, Clean
  <2>. QED  BY <1>1, <2>1, PoolStable DEF Inv
<1>. QED  BY <1>7, <1>8, <1>9, <1>10 DEF Inv

-----------------------------------------------------------------------------
(* The end of a hop.                                                       *)

(* Once the answer has been read nothing is left on the connection.        *)
LEMMA AfterReadClean ==
  ASSUME Inv, NEW h \in Handle, HasAnswer(h)
  PROVE  LET f == AfterRead(h)  c == conn[h] IN
         /\ f \in [Conn -> Connection]
         /\ \A d \in Conn : d # c => f[d] = net[d]
         /\ f[c].peer = net[c].peer /\ f[c].key = net[c].key
         /\ f[c].asked = <<>> /\ f[c].answered = <<>>
<1>. DEFINE c == conn[h]
            rest == IF Answer1(h).kind = "whole" THEN Tail(net[c].answered)
                                                 ELSE <<>>
<1>1. /\ at[h] = "read" /\ c \in Conn /\ net[c] \in Connection
      /\ net \in [Conn -> Connection] /\ net[c].answered # <<>>
      /\ Outstanding(h)
  BY OwnConn DEF HasAnswer, Inv, TypeOK, HandleInv
<1>2. /\ net[c].asked \in Seq(Requests)
      /\ net[c].answered \in Seq([req : Requests, kind : Kind])
  BY <1>1 DEF Connection
<1>3. net[c].asked = <<>> /\ Len(net[c].answered) = 1
  <2>1. Len(net[c].asked) + Len(net[c].answered) <= 1
    BY <1>1 DEF Outstanding
  <2>2. /\ Len(net[c].asked) \in Nat /\ Len(net[c].answered) \in Nat
        /\ Len(net[c].asked) = 0 <=> net[c].asked = <<>>
        /\ Len(net[c].answered) # 0
    BY <1>1, <1>2, SeqLen
  <2>. DEFINE a == Len(net[c].asked)  b == Len(net[c].answered)
  <2>3. a = 0 /\ b = 1
    <3>. HIDE DEF a, b
    <3>1. a \in Nat /\ b \in Nat /\ a + b <= 1 /\ b # 0
      BY <2>1, <2>2 DEF a, b
    <3>. QED  BY <3>1
  <2>. QED  BY <2>2, <2>3
<1>4. rest = <<>>
  BY <1>2, <1>3, SeqLen
<1>5. AfterRead(h) = [net EXCEPT ![c].answered = rest]
  BY DEF AfterRead
<1>6. /\ AfterRead(h)[c] = [net[c] EXCEPT !.answered = <<>>]
      /\ AfterRead(h) = [net EXCEPT ![c] = AfterRead(h)[c]]
  BY <1>1, <1>4, <1>5
<1>7. AfterRead(h)[c] \in Connection
  BY <1>1, <1>6, EmptyAnswered
<1>8. \A d \in Conn : d # c => AfterRead(h)[d] = net[d]
  BY <1>1, <1>6
<1>. QED  BY <1>1, <1>3, <1>6, <1>7, <1>8, EmptyAnswered

LEMMA ReleaseInv ==
  ASSUME Inv, NEW h \in Handle, HasAnswer(h), NEW back, Release(h, back)
  PROVE  /\ pool' \in [Key -> SUBSET Conn] /\ net' \in [Conn -> Connection]
         /\ \A d \in Conn : d # conn[h] => net'[d] = net[d]
         /\ \A k \in Key : \/ pool'[k] = pool[k]
                           \/ /\ k = url[h].key
                              /\ pool'[k] = pool[k] \cup {conn[h]}
         /\ \A k \in Key : PoolInv(k)'
<1>. DEFINE c == conn[h]
            k == url[h].key
            f == AfterRead(h)
<1>1. /\ c \in Conn /\ k \in Key /\ net[c].peer # "none" /\ net[c].key = k
      /\ \A j \in Key : c \notin pool[j]
      /\ pool \in [Key -> SUBSET Conn]
  BY OwnConn DEF HasAnswer, Inv, TypeOK, HandleInv, HasConn
<1>2. /\ f \in [Conn -> Connection]
      /\ \A d \in Conn : d # c => f[d] = net[d]
      /\ f[c].peer = net[c].peer /\ f[c].key = net[c].key
      /\ f[c].asked = <<>> /\ f[c].answered = <<>>
  BY AfterReadClean
<1>3. ASSUME pool' = pool, net' = Drop(f, {c})
      PROVE  /\ net' \in [Conn -> Connection]
             /\ \A d \in Conn : d # c => net'[d] = net[d]
             /\ \A j \in Key : PoolInv(j)'
  <2>1. net' \in [Conn -> Connection]
    BY <1>2, <1>3, DropTyped
  <2>2. \A d \in Conn : d # c => net'[d] = net[d]
    BY <1>2, <1>3 DEF Drop
  <2>3. ASSUME NEW j \in Key PROVE PoolInv(j)'
    <3>1. \A d \in pool[j] : net'[d] = net[d] /\ net[d].peer # "none"
      BY <1>1, <2>2 DEF Inv, PoolInv, Clean
    <3>. QED  BY <1>3, <3>1, PoolStable DEF Inv
  <2>. QED  BY <2>1, <2>2, <2>3
<1>4. ASSUME HasRoom(k), pool' = [pool EXCEPT ![k] = @ \cup {c}],
             net' = [f EXCEPT ![c].age = 0]
      PROVE  /\ net' \in [Conn -> Connection]
             /\ \A d \in Conn : d # c => net'[d] = net[d]
             /\ \A j \in Key : PoolInv(j)'
  <2>1. /\ net'[c] = [f[c] EXCEPT !.age = 0]
        /\ net' = [f EXCEPT ![c] = net'[c]]
    BY <1>1, <1>2, <1>4
  <2>2. net'[c] \in Connection
    BY <1>1, <1>2, <2>1, ZeroAge
  <2>3. net' \in [Conn -> Connection]
    BY <1>2, <2>1, <2>2
  <2>4. \A d \in Conn : d # c => net'[d] = net[d]
    BY <1>2, <2>1
  <2>5. ASSUME NEW j \in Key, j # k PROVE PoolInv(j)'
    <3>1. pool'[j] = pool[j]
      BY <1>1, <1>4, <2>5
    <3>2. \A d \in pool[j] : net'[d] = net[d] /\ net[d].peer # "none"
      BY <1>1, <2>4 DEF Inv, PoolInv, Clean
    <3>. QED  BY <3>1, <3>2, PoolStable DEF Inv
  <2>6. ASSUME NEW i \in Key, i = k PROVE PoolInv(i)'
    <3>1. pool'[k] = pool[k] \cup {c} /\ pool[k] \subseteq Conn
      BY <1>1, <1>4
    <3>2. IsFiniteSet(pool[k])
      BY <3>1, FS_Subset, ConstantsAssumption
    <3>3. Cardinality(pool'[k]) = Cardinality(pool[k]) + 1
      BY <1>1, <3>1, <3>2, FS_AddElement
    <3>4. Cardinality(pool'[k]) <= MaxPerHost
      BY <1>4, <3>2, <3>3, FS_CardinalityType, NatConstants DEF HasRoom
    <3>5. /\ net'[c].peer # "none" /\ net'[c].key = k
          /\ net'[c].asked = <<>> /\ net'[c].answered = <<>>
      <4>1. /\ net'[c].peer = f[c].peer /\ net'[c].key = f[c].key
            /\ net'[c].asked = f[c].asked /\ net'[c].answered = f[c].answered
        BY <1>1, <1>2, <2>1 DEF Connection
      <4>. QED  BY <1>1, <1>2, <4>1
    <3>6. \A d \in pool[k] : net'[d] = net[d] /\ Clean(d, k)
      BY <1>1, <2>4 DEF Inv, PoolInv
    <3>. QED  BY <2>6, <3>1, <3>4, <3>5, <3>6 DEF PoolInv, Clean
  <2>. QED  BY <2>3, <2>4, <2>5, <2>6
<1>. QED  BY <1>1, <1>2, <1>3, <1>4 DEF Release, Put

(* A hop that gives its connection up, whatever becomes of the perform.    *)
LEMMA GiveUpInv ==
  ASSUME Inv, NEW h \in Handle, HasAnswer(h), NEW back, Release(h, back),
         Take(h, None), setup' = setup,
         NEW place \in {"idle", "connect"}, Goto(h, place),
         NEW next, url' = [url EXCEPT ![h] = next],
         place = "connect" => next \in Url,
         next \in Url \cup {None},
         NEW n \in 0..MaxRedirects, left' = [left EXCEPT ![h] = n],
         method' \in [Handle -> {"Get", "Head"}]
  PROVE  Inv'
<1>. USE DEF Take, Goto
<1>1. /\ pool' \in [Key -> SUBSET Conn] /\ net' \in [Conn -> Connection]
      /\ \A d \in Conn : d # conn[h] => net'[d] = net[d]
      /\ \A k \in Key : \/ pool'[k] = pool[k]
                        \/ /\ k = url[h].key
                           /\ pool'[k] = pool[k] \cup {conn[h]}
      /\ \A k \in Key : PoolInv(k)'
  BY ReleaseInv
<1>2. /\ conn[h] \in Conn /\ \A k \in Key : conn[h] \notin pool[k]
      /\ \A g \in Handle : g # h => conn[g] # conn[h]
  BY OwnConn DEF HasAnswer
<1>3. \A g \in Handle : conn'[g] = IF g = h THEN None ELSE conn[g]
  BY DEF Inv, TypeOK
<1>4. TypeOK'
  BY <1>1 DEF Inv, TypeOK
<1>5. OneOwner'
  <2>1. \A g, f \in Handle : conn'[g] = conn'[f] /\ conn'[g] # None => g = f
    BY <1>3 DEF Inv, OneOwner
  <2>2. \A g \in Handle, k \in Key : conn'[g] \notin pool'[k]
    <3>1. \A k \in Key : None \notin pool'[k]
      BY <1>1, ConstantsAssumption
    <3>. QED  BY <1>1, <1>2, <1>3, <3>1 DEF Inv, OneOwner
  <2>3. \A i, j \in Key : i # j => pool'[i] \cap pool'[j] = {}
    BY <1>1, <1>2 DEF Inv, OneOwner
  <2>. QED  BY <2>1, <2>2, <2>3 DEF OneOwner
<1>6. ASSUME NEW g \in Handle PROVE HandleInv(g)'
  <2>1. CASE g = h
    <3>1. at'[h] = place /\ conn'[h] = None /\ url'[h] = next
      BY DEF Inv, TypeOK
    <3>. QED  BY <2>1, <3>1 DEF HandleInv
  <2>2. CASE g # h
    <3>1. conn[g] \in Conn => net'[conn[g]] = net[conn[g]]
      BY <1>1, <1>2, <2>2
    <3>. QED  BY <2>2, <3>1, HandleStable DEF Inv, TypeOK
  <2>. QED  BY <2>1, <2>2
<1>. QED  BY <1>1, <1>4, <1>5, <1>6 DEF Inv

LEMMA HeardInv == ASSUME Inv, NEW h \in Handle, Heard(h) PROVE Inv'
<1>1. HasAnswer(h)
  BY DEF Heard
<1>2. ASSUME NEW keepAlive \in BOOLEAN, NEW other \in BOOLEAN,
             Return(h, keepAlive, other)
      PROVE  Inv'
  <2>1. /\ Release(h, keepAlive /\ ~other) /\ Take(h, None) /\ Goto(h, "idle")
        /\ url' = [url EXCEPT ![h] = None] /\ left' = [left EXCEPT ![h] = 0]
        /\ setup' = setup /\ method' \in [Handle -> {"Get", "Head"}]
    BY <1>2 DEF Return, Finish, Inv, TypeOK
  <2>. DEFINE back == keepAlive /\ ~other
  <2>2. 0 \in 0..MaxRedirects
    BY NatConstants
  <2>3. Release(h, back)
    BY <2>1
  <2>. HIDE DEF back
  <2>. QED  BY <1>1, <2>1, <2>2, <2>3, GiveUpInv
<1>3. ASSUME NEW other \in BOOLEAN, RedirectFails(h, other) PROVE Inv'
  <2>1. method' \in [Handle -> {"Get", "Head"}]
    BY <1>3 DEF RedirectFails, AfterStatus, Inv, TypeOK
  <2>. QED  BY <1>3, <2>1, AbortInv DEF RedirectFails
<1>4. ASSUME NEW keepAlive \in BOOLEAN, NEW other \in BOOLEAN,
             NEW next \in Url, Follow(h, keepAlive, other, next)
      PROVE  Inv'
  <2>. DEFINE n == left[h] - 1
              back == keepAlive /\ next.key = url[h].key
  <2>1. /\ Release(h, back) /\ Take(h, None) /\ Goto(h, "connect")
        /\ url' = [url EXCEPT ![h] = next] /\ setup' = setup
    BY <1>4 DEF Follow
  <2>2. n \in 0..MaxRedirects /\ left' = [left EXCEPT ![h] = n]
    BY <1>4, NatConstants DEF Follow, RedirectsLeft, OneLess, Inv, TypeOK
  <2>3. method' \in [Handle -> {"Get", "Head"}]
    BY <1>4 DEF Follow, AfterStatus, Inv, TypeOK
  <2>. HIDE DEF n, back
  <2>. QED  BY <1>1, <2>1, <2>2, <2>3, GiveUpInv
<1>. QED  BY <1>2, <1>3, <1>4 DEF Heard

LEMMA RunsInv == ASSUME Inv, NEW h \in Handle, Runs(h) PROVE Inv'
<1>1. method \in [Handle -> {"Get", "Head"}]
  BY DEF Inv, TypeOK
<1>2. ASSUME Abort(h), UNCHANGED method PROVE Inv'
  BY <1>1, <1>2, AbortInv
<1>. QED  BY <1>2, ReuseInv, ConnectInv, SendRequestInv, HeardInv
          DEF Runs, HandshakeFails, ReadFails

-----------------------------------------------------------------------------
(* The servers, and time.                                                  *)

LEMMA AnswerInv == ASSUME Inv, NEW c \in Conn, Answer(c) PROVE Inv'
<1>. DEFINE q == net[c].asked
            a == net[c].answered
            T == [req : Requests, kind : Kind]
<1>1. /\ net \in [Conn -> Connection] /\ net[c] \in Connection /\ q # <<>>
      /\ UNCHANGED <<setup, method, at, url, left, conn, pool>>
  BY DEF Answer, Inv, TypeOK
<1>2. q \in Seq(Requests) /\ a \in Seq(T)
  BY <1>1 DEF Connection
<1>3. PICK kind \in Kind :
        net' = [net EXCEPT ![c].asked = Tail(@),
                           ![c].answered = Append(@, [req |-> Head(net[c].asked),
                                                      kind |-> kind])]
  BY DEF Answer
<1>. DEFINE x == [req |-> Head(q), kind |-> kind]
<1>4. /\ net'[c] = [net[c] EXCEPT !.asked = Tail(q), !.answered = Append(a, x)]
      /\ net' = [net EXCEPT ![c] = net'[c]]
  BY <1>1, <1>3
<1>5. Head(q) \in Requests /\ x \in T /\ Tail(q) \in Seq(Requests)
      /\ Append(a, x) \in Seq(T)
  BY <1>1, <1>2
<1>6. net'[c] \in Connection
  <2>. HIDE DEF T, x
  <2>. QED  BY <1>1, <1>4, <1>5 DEF Connection, T
<1>7. \A d \in Conn : d # c => net'[d] = net[d]
  BY <1>1, <1>4
<1>8. TypeOK'
  BY <1>1, <1>4, <1>6 DEF Inv, TypeOK
<1>9. OneOwner'
  BY <1>1 DEF Inv, OneOwner
<1>10. ASSUME NEW g \in Handle PROVE HandleInv(g)'
  <2>1. CASE conn[g] = c
    <3>1. at[g] = "read"
      BY <1>1, <2>1, ConstantsAssumption DEF Inv, TypeOK, HandleInv
    <3>2. HasConn(g) /\ Outstanding(g) /\ (url[g].tls => net[c].tls = 1)
          /\ url[g] \in Url
      BY <2>1, <3>1 DEF Inv, HandleInv
    <3>3. /\ net'[c].peer = net[c].peer /\ net'[c].key = net[c].key
          /\ net'[c].route = net[c].route /\ net'[c].tls = net[c].tls
          /\ net'[c].asked = Tail(q) /\ net'[c].answered = Append(a, x)
      BY <1>1, <1>4 DEF Connection
    <3>4. /\ Len(q) = 1 /\ Len(a) = 0 /\ q[1] = Request(g)
      <4>1. Len(q) + Len(a) <= 1 /\ Len(q) \in Nat /\ Len(a) \in Nat
        BY <1>2, <2>1, <3>2, SeqLen DEF Outstanding
      <4>2. Len(q) # 0
        BY <1>1, <1>2, SeqLen
      <4>3. Len(q) = 1 /\ Len(a) = 0
        <5>. HIDE DEF q, a
        <5>. QED  BY <4>1, <4>2
      <4>4. \A n \in 1..Len(q) : q[n] = Request(g)
        BY <2>1, <3>2 DEF Outstanding
      <4>. QED  BY <4>3, <4>4
    <3>5. Tail(q) = <<>> /\ Append(a, x) = <<x>> /\ x.req = Request(g)
      <4>1. Tail(q) = <<>> /\ a = <<>>
        BY <1>2, <3>4, SeqLen
      <4>2. Append(a, x) = <<x>>
        BY <4>1
      <4>3. x.req = Request(g)
        BY <1>2, <3>4
      <4>. QED  BY <4>1, <4>2, <4>3
    <3>6. Outstanding(g)'
      <4>1. conn'[g] = c /\ Request(g)' = Request(g)
        BY <1>1, <2>1 DEF Request
      <4>2. net'[c].asked = <<>> /\ net'[c].answered = <<x>>
        BY <3>3, <3>5
      <4>. HIDE DEF x
      <4>. QED  BY <3>5, <4>1, <4>2, OneElement DEF Outstanding
    <3>. QED  BY <1>1, <2>1, <3>1, <3>2, <3>3, <3>6 DEF HandleInv, HasConn
  <2>2. CASE conn[g] # c
    BY <1>1, <1>7, <2>2, HandleStable DEF Inv
  <2>. QED  BY <2>1, <2>2
<1>11. ASSUME NEW k \in Key PROVE PoolInv(k)'
  <2>1. \A d \in pool[k] : net'[d] = net[d] /\ net[d].peer # "none"
    BY <1>1, <1>7 DEF Inv, TypeOK, PoolInv, Clean
  <2>. QED  BY <1>1, <2>1, PoolStable DEF Inv
<1>. QED  BY <1>8, <1>9, <1>10, <1>11 DEF Inv

LEMMA HangupInv == ASSUME Inv, NEW c \in Conn, Hangup(c) PROVE Inv'
<1>1. /\ net \in [Conn -> Connection] /\ net[c] \in Connection
      /\ net[c].peer = "open"
      /\ net' = [net EXCEPT ![c].peer = "closed", ![c].asked = <<>>]
      /\ UNCHANGED <<setup, method, at, url, left, conn, pool>>
  BY DEF Hangup, Inv, TypeOK
<1>2. /\ net'[c] = [net[c] EXCEPT !.peer = "closed", !.asked = <<>>]
      /\ net' = [net EXCEPT ![c] = net'[c]]
  BY <1>1
<1>3. net'[c] \in Connection
  <2>1. <<>> \in Seq(Requests)
    OBVIOUS
  <2>. QED  BY <1>1, <1>2, <2>1 DEF Connection
<1>4. /\ net'[c].peer = "closed" /\ net'[c].key = net[c].key
      /\ net'[c].route = net[c].route /\ net'[c].tls = net[c].tls
      /\ net'[c].asked = <<>> /\ net'[c].answered = net[c].answered
  BY <1>1, <1>2 DEF Connection
<1>5. \A d \in Conn : d # c => net'[d] = net[d]
  BY <1>1, <1>2
<1>6. TypeOK'
  BY <1>1, <1>2, <1>3 DEF Inv, TypeOK
<1>7. OneOwner'
  BY <1>1 DEF Inv, OneOwner
<1>8. ASSUME NEW g \in Handle PROVE HandleInv(g)'
  <2>1. CASE conn[g] = c
    <3>1. at[g] \in {"send", "read"} /\ HandleInv(g)
      BY <1>1, <2>1, ConstantsAssumption DEF Inv, TypeOK, HandleInv
    <3>2. HasConn(g)'
      BY <1>1, <1>4, <2>1, <3>1 DEF HandleInv, HasConn
    <3>3. ASSUME at[g] = "read" PROVE Outstanding(g)'
      <4>1. /\ net[c].asked \in Seq(Requests)
            /\ net[c].answered \in Seq([req : Requests, kind : Kind])
        BY <1>1 DEF Connection
      <4>2. Len(net[c].asked) \in Nat /\ Len(net[c].answered) \in Nat
        BY <4>1, SeqLen
      <4>3. Len(net[c].answered) <= 1
        <5>. DEFINE q == Len(net[c].asked)  a == Len(net[c].answered)
        <5>1. q + a <= 1
          BY <2>1, <3>1, <3>3 DEF HandleInv, Outstanding
        <5>2. q \in Nat /\ a \in Nat
          BY <4>2
        <5>3. a <= 1
          <6>. HIDE DEF q, a
          <6>. QED  BY <5>1, <5>2
        <5>. QED  BY <5>3
      <4>4. \A n \in 1..Len(net[c].answered) :
              net[c].answered[n].req = Request(g)
        BY <2>1, <3>1, <3>3 DEF HandleInv, Outstanding
      <4>5. Request(g)' = Request(g) /\ conn'[g] = c
        BY <1>1, <2>1 DEF Request
      <4>. DEFINE q == net'[conn'[g]].asked  a == net[c].answered
      <4>7. q = <<>> /\ Len(q) = 0 /\ 1..Len(q) = {}
        BY <1>4, <4>5
      <4>8. Len(q) + Len(a) <= 1
        <5>. HIDE DEF q
        <5>1. Len(a) \in Nat /\ Len(a) <= 1
          BY <4>2, <4>3
        <5>2. Len(q) + Len(a) = Len(a)
          BY <4>7, <5>1
        <5>. QED  BY <5>1, <5>2
      <4>. QED  BY <1>4, <4>4, <4>5, <4>7, <4>8 DEF Outstanding
    <3>. QED  BY <1>1, <1>4, <2>1, <3>1, <3>2, <3>3 DEF HandleInv
  <2>2. CASE conn[g] # c
    BY <1>1, <1>5, <2>2, HandleStable DEF Inv
  <2>. QED  BY <2>1, <2>2
<1>9. ASSUME NEW k \in Key PROVE PoolInv(k)'
  <2>1. \A d \in pool[k] : Clean(d, k)
    BY DEF Inv, PoolInv
  <2>2. \A d \in pool[k] : /\ net'[d].peer # "none"
                           /\ net'[d].key = net[d].key
                           /\ net'[d].asked = net[d].asked
                           /\ net'[d].answered = net[d].answered
    BY <1>4, <1>5, <2>1 DEF Inv, TypeOK, Clean
  <2>. QED  BY <1>1, <2>2, PoolStable DEF Inv
<1>. QED  BY <1>6, <1>7, <1>8, <1>9 DEF Inv

LEMMA TickInv == ASSUME Inv, Tick PROVE Inv'
<1>1. /\ net \in [Conn -> Connection]
      /\ UNCHANGED <<setup, method, at, url, left, conn, pool>>
      /\ net' = [c \in Conn |->
           IF c \in Pooled /\ net[c].age < Idle
             THEN [net[c] EXCEPT !.age = @ + 1] ELSE net[c]]
  BY DEF Tick, Inv, TypeOK
<1>2. ASSUME NEW c \in Conn
      PROVE  /\ net'[c] \in Connection
             /\ net'[c].peer = net[c].peer /\ net'[c].key = net[c].key
             /\ net'[c].asked = net[c].asked
             /\ net'[c].answered = net[c].answered
  <2>1. net[c] \in Connection
    BY <1>1
  <2>2. CASE c \in Pooled /\ net[c].age < Idle
    <3>1. net'[c] = [net[c] EXCEPT !.age = net[c].age + 1]
      BY <1>1, <2>2
    <3>2. net[c].age + 1 \in 0..Idle
      BY <2>1, <2>2, NatConstants DEF Connection
    <3>. QED  BY <2>1, <3>1, <3>2 DEF Connection
  <2>3. CASE ~(c \in Pooled /\ net[c].age < Idle)
    BY <1>1, <2>1, <2>3
  <2>. QED  BY <2>2, <2>3
<1>3. TypeOK'
  BY <1>1, <1>2 DEF Inv, TypeOK
<1>4. OneOwner'
  BY <1>1 DEF Inv, OneOwner
<1>5. ASSUME NEW g \in Handle PROVE HandleInv(g)'
  <2>1. conn[g] \notin Pooled
    BY DEF Inv, OneOwner, Pooled
  <2>2. conn[g] \in Conn => net'[conn[g]] = net[conn[g]]
    BY <1>1, <2>1
  <2>. QED  BY <1>1, <2>2, HandleStable DEF Inv
<1>6. ASSUME NEW k \in Key PROVE PoolInv(k)'
  BY <1>1, <1>2, PoolStable DEF Inv, TypeOK, PoolInv, Clean
<1>. QED  BY <1>3, <1>4, <1>5, <1>6 DEF Inv

LEMMA CleanupInv == ASSUME Inv, Cleanup PROVE Inv'
<1>. DEFINE old == UNION {pool[k] \ Live(k) : k \in Key}
<1>1. /\ pool' = [k \in Key |-> Live(k)] /\ net' = Drop(net, old)
      /\ UNCHANGED <<setup, method, at, url, left, conn>>
      /\ pool \in [Key -> SUBSET Conn] /\ net \in [Conn -> Connection]
  BY DEF Cleanup, Inv, TypeOK
<1>2. \A k \in Key : pool'[k] = Live(k) /\ pool'[k] \subseteq pool[k]
  BY <1>1 DEF Live
<1>3. \A k \in Key : pool'[k] \cap old = {}
  BY <1>2 DEF Inv, OneOwner
<1>4. ASSUME NEW d \in Conn, d \notin old PROVE net'[d] = net[d]
  BY <1>1, <1>4 DEF Drop
<1>5. TypeOK'
  BY <1>1, <1>2, DropTyped DEF Inv, TypeOK
<1>6. OneOwner'
  BY <1>1, <1>2 DEF Inv, OneOwner
<1>7. ASSUME NEW g \in Handle PROVE HandleInv(g)'
  <2>1. conn[g] \notin old
    BY DEF Inv, OneOwner
  <2>. QED  BY <1>1, <1>4, <2>1, HandleStable DEF Inv
<1>8. ASSUME NEW k \in Key PROVE PoolInv(k)'
  <2>1. \A d \in pool'[k] : net'[d] = net[d] /\ net[d].peer # "none"
    BY <1>1, <1>2, <1>3, <1>4 DEF Inv, PoolInv, Clean
  <2>. QED  BY <1>2, <2>1, PoolStable DEF Inv
<1>. QED  BY <1>5, <1>6, <1>7, <1>8 DEF Inv

-----------------------------------------------------------------------------
(* The invariant is inductive.                                             *)

LEMMA NextInv == Inv /\ [Next]_vars => Inv'
<1>. SUFFICES ASSUME Inv, [Next]_vars PROVE Inv'
  OBVIOUS
<1>1. ASSUME NEW h \in Handle, Calls(h) PROVE Inv'
  <2>1. ASSUME Cancel(h) PROVE Inv'
    BY <2>1, AbortInv DEF Cancel, Inv, TypeOK
  <2>. QED  BY <1>1, <2>1, StartInv DEF Calls
<1>2. CASE UNCHANGED vars
  <2>. USE <1>2 DEF vars
  <2>1. TypeOK' /\ OneOwner'
    BY DEF Inv, TypeOK, OneOwner
  <2>2. \A h \in Handle : HandleInv(h)'
    BY HandleStable DEF Inv
  <2>3. \A k \in Key : PoolInv(k)'
    BY PoolStable DEF Inv, PoolInv, Clean
  <2>. QED  BY <2>1, <2>2, <2>3 DEF Inv
<1>. QED  BY <1>1, <1>2, RunsInv, AnswerInv, HangupInv, TickInv, CleanupInv
          DEF Next

THEOREM InvHolds == Spec => []Inv
<1>. QED  BY InitInv, NextInv, PTL DEF Spec

(* The types hold, and with them the bounds on redirects and ages, for     *)
(* every number of handles, hosts and connections.                         *)
THEOREM TypeCorrect == Spec => []TypeOK
<1>1. Inv => TypeOK
  BY DEF Inv
<1>. QED  BY <1>1, InvHolds, PTL

(* No connection is ever used by two performs, or used and pooled.         *)
THEOREM OwnersCorrect == Spec => []OneOwner
<1>1. Inv => OneOwner
  BY DEF Inv
<1>. QED  BY <1>1, InvHolds, PTL

(* A perform never takes the answer to another request for its own, after  *)
(* whatever history of redirects, failures and cancelled performs.         *)
THEOREM AnswersCorrect == Spec => []AnswerIsOwn
<1>1. Inv => AnswerIsOwn
  BY DEF Inv, AnswerIsOwn, HandleInv, Outstanding
<1>. QED  BY <1>1, InvHolds, PTL

(* What the pool keeps leads where it says and is between messages, and no *)
(* key has more than MaxPerHost of it.                                     *)
THEOREM PoolCorrect == Spec => []PoolClean
<1>1. Inv => PoolClean
  BY DEF Inv, PoolClean, PoolInv, Clean
<1>. QED  BY <1>1, InvHolds, PTL

(* A request goes to the host of its url, over the mux or the proxy chain  *)
(* of its handle, and inside TLS if it is for https.                       *)
THEOREM RoutesCorrect == Spec => []GoesWhereTold
<1>1. Inv => GoesWhereTold
  BY DEF Inv, GoesWhereTold, HandleInv, HasConn
<1>. QED  BY <1>1, InvHolds, PTL
=============================================================================
