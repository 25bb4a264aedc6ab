-------------------------- MODULE TransportsProofs --------------------------
(***************************************************************************)
(* Proofs about Transports, for any number of senders and messages.        *)
(***************************************************************************)
EXTENDS Transports, TLAPS

(* The types.  Only the browser is ever connecting, only the others have a *)
(* channel, and only what an up connection can bring has come in.          *)
Coming == Nat \cup {Closed, Error, Opened}
Pushed == (Nat \ {0}) \cup {Closed, Error}

ReceiveTypes ==
  /\ kind \in {"native", "browser", "port"}
  /\ link \in {"connecting", "open", "ended"} /\ shut \in {"no", "flag", "done"}
  /\ arriving \in Seq(Coming) /\ said \in Nat
  /\ hello \in Seq({"ok", "failed"}) /\ inbound \in Seq(Pushed)
  /\ closed \in BOOLEAN /\ connect \in {"waiting", "ok", "failed"}
  /\ reader \in {"none", "check", "waiting"} /\ got \in Nat
  /\ told \in {"none", "closed", "io"}

SendTypes ==
  /\ wire \in Seq(Sender) /\ sink \in Seq(Sender)
  /\ holder \in Sender \cup {Nobody}
  /\ at \in [Sender -> {"idle", "lock", "flush", "ok", "err"}]

Up ==
  /\ connect = "ok" => link # "connecting"
  /\ \A k \in 1..Len(hello) : hello[k] = "ok" => link # "connecting"
  /\ \A k \in 1..Len(arriving) :
       arriving[k] = Opened => link # "connecting" /\ kind # "native"
  /\ kind = "native" => inbound = <<>> /\ link # "connecting"
  /\ shut = "flag" => kind = "native"

TypeInv == ReceiveTypes /\ SendTypes /\ Up

(* Behind the end of a connection there are no messages, and it is over.   *)
IsEnd(x) == x \in {Closed, Error}
Behind(q) == \A j, k \in 1..Len(q) : j < k /\ IsEnd(q[j]) => ~(q[k] > 0)

EndInv ==
  /\ Behind(inbound) /\ Behind(arriving)
  /\ \A j \in 1..Len(inbound), k \in 1..Len(arriving) :
       IsEnd(inbound[j]) => ~(arriving[k] > 0)
  /\ \A k \in 1..Len(inbound) : IsEnd(inbound[k]) => link = "ended"
  /\ \A k \in 1..Len(arriving) : IsEnd(arriving[k]) => link = "ended"
  /\ kind = "native" /\ closed => shut # "no" \/ told # "none"

(* A packet is nowhere before it is fed, in the sink while its sender has  *)
(* the lock, and in one place at most.                                     *)
SendInv ==
  /\ IsInjective(wire) /\ IsInjective(sink) /\ Range(wire) \cap Range(sink) = {}
  /\ \A t \in Sender :
       /\ at[t] \in {"idle", "lock"} => t \notin Range(wire) /\ t \notin Range(sink)
       /\ at[t] = "flush" => holder = t /\ t \in Range(sink)
       /\ at[t] = "ok" =>
            t \in Range(wire) \/ (kind # "native" /\ (link = "ended" \/ shut = "done"))

ReceiveInv == TypeInv /\ EndInv /\ NothingLost

-----------------------------------------------------------------------------
(* Queues: the elements of one whose head is taken, and of one that grows. *)
LEMMA TailOf ==
  ASSUME NEW S, NEW q \in Seq(S), q # <<>>
  PROVE  /\ Tail(q) \in Seq(S) /\ Len(q) \in Nat /\ Len(Tail(q)) = Len(q) - 1
         /\ 1 \in 1..Len(q) /\ Head(q) = q[1] /\ q[1] \in S
         /\ \A k \in 1..Len(Tail(q)) : k + 1 \in 1..Len(q) /\ Tail(q)[k] = q[k + 1]
         /\ \A k \in 1..Len(q) : k = 1 \/ (k - 1 \in 1..Len(Tail(q))
                                           /\ Tail(q)[k - 1] = q[k])
OBVIOUS

LEMMA AppendOf ==
  ASSUME NEW S, NEW q \in Seq(S), NEW x \in S
  PROVE  /\ Append(q, x) \in Seq(S) /\ Len(q) \in Nat
         /\ Len(Append(q, x)) = Len(q) + 1
         /\ Len(q) + 1 \in 1..Len(Append(q, x)) /\ Append(q, x)[Len(q) + 1] = x
         /\ \A k \in 1..Len(q) : k \in 1..Len(Append(q, x)) /\ Append(q, x)[k] = q[k]
         /\ \A k \in 1..Len(Append(q, x)) : k \in 1..Len(q) \/ k = Len(q) + 1
OBVIOUS

LEMMA SeqOfMore ==
  ASSUME NEW S, NEW T, S \subseteq T, NEW q \in Seq(S)
  PROVE  q \in Seq(T)
<1>1. \A k \in 1..Len(q) : q[k] \in T
  <2>1. TAKE k \in 1..Len(q)
  <2>2. q[k] \in S
    OBVIOUS
  <2>. QED  BY <2>2
<1>. QED  BY <1>1

LEMMA ConcatIs ==
  ASSUME NEW S, NEW q \in Seq(S), NEW x \in S, NEW y \in S
  PROVE  /\ q \o <<>> = q /\ q \o <<x>> = Append(q, x)
         /\ q \o <<x, y>> = Append(Append(q, x), y)
OBVIOUS

(* The messages of a queue that is read, and of one that grows.            *)
LEMMA CarriesPop ==
  ASSUME NEW S, S \subseteq Int, NEW q \in Seq(S), q # <<>>, NEW lo \in Nat, NEW hi \in Nat,
         Carries(q, lo, hi)
  PROVE  /\ q[1] > 0 => q[1] = lo + 1 /\ lo + 1 <= hi /\ Carries(Tail(q), lo + 1, hi)
         /\ ~(q[1] > 0) => Carries(Tail(q), lo, hi)
<1>. DEFINE t == Tail(q)
<1>1. /\ Len(t) = Len(q) - 1 /\ Len(q) \in Nat /\ 1 \in 1..Len(q)
      /\ \A k \in 1..Len(t) : k + 1 \in 1..Len(q) /\ t[k] = q[k + 1]
      /\ \A k \in 1..Len(q) : k = 1 \/ (k - 1 \in 1..Len(t) /\ t[k - 1] = q[k])
      /\ \A k \in 1..Len(q) : q[k] \in Int
  <2>1. \A k \in 1..Len(q) : q[k] \in Int
    <3>1. TAKE k \in 1..Len(q)
    <3>2. q[k] \in S
      OBVIOUS
    <3>. QED  BY <3>2
  <2>. QED  BY <2>1, TailOf
<1>. HIDE DEF t
<1>2. \A j, k \in 1..Len(t) : j < k /\ t[j] > 0 /\ t[k] > 0 => t[j] < t[k]
  BY <1>1 DEF Carries
<1>3. ASSUME NEW n \in (lo + 1)..hi, q[1] # n PROVE \E k \in 1..Len(t) : t[k] = n
  <2>1. PICK k \in 1..Len(q) : q[k] = n
    BY DEF Carries
  <2>. QED  BY <1>1, <1>3, <2>1
<1>4. CASE q[1] > 0
  <2>1. lo < q[1] /\ q[1] <= hi /\ q[1] \in Int
    BY <1>1, <1>4 DEF Carries
  <2>2. q[1] = lo + 1
    <3>1. PICK k \in 1..Len(q) : q[k] = lo + 1
      BY <2>1 DEF Carries
    <3>2. k = 1 \/ q[1] < q[k]
      BY <1>1, <1>4, <3>1 DEF Carries
    <3>. QED  BY <2>1, <3>1, <3>2
  <2>3. \A k \in 1..Len(t) : t[k] > 0 => lo + 1 < t[k] /\ t[k] <= hi
    <3>1. TAKE k \in 1..Len(t)
    <3>2. k + 1 \in 1..Len(q) /\ t[k] = q[k + 1] /\ 1 < k + 1
      BY <1>1
    <3>. QED  BY <1>1, <1>4, <2>2, <3>2 DEF Carries
  <2>4. \A n \in (lo + 1 + 1)..hi : \E k \in 1..Len(t) : t[k] = n
    BY <1>3, <2>2
  <2>. QED  BY <1>2, <1>4, <2>1, <2>2, <2>3, <2>4 DEF Carries, t
<1>5. CASE ~(q[1] > 0)
  <2>1. \A k \in 1..Len(t) : t[k] > 0 => lo < t[k] /\ t[k] <= hi
    BY <1>1 DEF Carries
  <2>2. \A n \in (lo + 1)..hi : \E k \in 1..Len(t) : t[k] = n
    BY <1>3, <1>5
  <2>. QED  BY <1>2, <1>5, <2>1, <2>2 DEF Carries, t
<1>. QED  BY <1>4, <1>5

LEMMA CarriesPush ==
  ASSUME NEW S, S \subseteq Int, NEW q \in Seq(S), NEW x \in S, NEW lo \in Nat, NEW hi \in Nat,
         lo <= hi, Carries(q, lo, hi)
  PROVE  /\ x = hi + 1 => Carries(Append(q, x), lo, hi + 1)
         /\ ~(x > 0) => Carries(Append(q, x), lo, hi)
<1>. DEFINE a == Append(q, x)
<1>1. /\ Len(q) \in Nat /\ Len(a) = Len(q) + 1
      /\ Len(q) + 1 \in 1..Len(a) /\ a[Len(q) + 1] = x
      /\ \A k \in 1..Len(q) : k \in 1..Len(a) /\ a[k] = q[k]
      /\ \A k \in 1..Len(a) : k \in 1..Len(q) \/ k = Len(q) + 1
      /\ \A k \in 1..Len(q) : q[k] \in Int
  <2>1. \A k \in 1..Len(q) : q[k] \in Int
    <3>1. TAKE k \in 1..Len(q)
    <3>2. q[k] \in S
      OBVIOUS
    <3>. QED  BY <3>2
  <2>. QED  BY <2>1, AppendOf
<1>. HIDE DEF a
<1>2. \A n \in (lo + 1)..hi : \E k \in 1..Len(a) : a[k] = n
  <2>1. TAKE n \in (lo + 1)..hi
  <2>2. PICK k \in 1..Len(q) : q[k] = n
    BY DEF Carries
  <2>. QED  BY <1>1, <2>2
<1>3. CASE x = hi + 1
  <2>1. \A n \in (lo + 1)..(hi + 1) : \E k \in 1..Len(a) : a[k] = n
    <3>1. TAKE n \in (lo + 1)..(hi + 1)
    <3>2. CASE n = hi + 1
      BY <1>1, <1>3, <3>2
    <3>3. CASE n # hi + 1
      BY <1>2, <3>3
    <3>. QED  BY <3>2, <3>3
  <2>2. \A k \in 1..Len(a) : a[k] > 0 => lo < a[k] /\ a[k] <= hi + 1
    <3>1. TAKE k \in 1..Len(a)
    <3>2. CASE k = Len(q) + 1
      BY <1>1, <1>3, <3>2
    <3>3. CASE k \in 1..Len(q)
      BY <1>1, <3>3 DEF Carries
    <3>. QED  BY <1>1, <3>2, <3>3
  <2>3. \A j, k \in 1..Len(a) : j < k /\ a[j] > 0 /\ a[k] > 0 => a[j] < a[k]
    <3>1. TAKE j, k \in 1..Len(a)
    <3>2. HAVE j < k /\ a[j] > 0 /\ a[k] > 0
    <3>3. j \in 1..Len(q) /\ a[j] = q[j] /\ q[j] <= hi /\ q[j] \in Int
      BY <1>1, <3>2 DEF Carries
    <3>4. CASE k = Len(q) + 1
      BY <1>1, <1>3, <3>3, <3>4
    <3>5. CASE k \in 1..Len(q)
      BY <1>1, <3>2, <3>3, <3>5 DEF Carries
    <3>. QED  BY <1>1, <3>4, <3>5
  <2>4. x > 0
    BY <1>3
  <2>. QED  BY <1>3, <2>1, <2>2, <2>3, <2>4 DEF Carries, a
<1>4. CASE ~(x > 0)
  <2>1. \A k \in 1..Len(a) : a[k] > 0 => k \in 1..Len(q)
    BY <1>1, <1>4
  <2>2. \A k \in 1..Len(a) : a[k] > 0 => lo < a[k] /\ a[k] <= hi
    BY <1>1, <2>1 DEF Carries
  <2>3. \A j, k \in 1..Len(a) : j < k /\ a[j] > 0 /\ a[k] > 0 => a[j] < a[k]
    BY <1>1, <2>1 DEF Carries
  <2>4. x # hi + 1
    BY <1>4
  <2>. QED  BY <1>2, <1>4, <2>2, <2>3, <2>4 DEF Carries, a
<1>5. x = hi + 1 => x > 0
  OBVIOUS
<1>. QED  BY <1>3, <1>4, <1>5

LEMMA CarriesNone ==
  ASSUME NEW q, NEW lo \in Nat, NEW hi \in Nat, Carries(q, lo, hi),
         \A k \in 1..Len(q) : ~(q[k] > 0)
  PROVE  hi <= lo
<1>. SUFFICES ASSUME lo < hi PROVE FALSE
  OBVIOUS
<1>1. lo + 1 \in (lo + 1)..hi /\ lo + 1 > 0
  OBVIOUS
<1>2. PICK k \in 1..Len(q) : q[k] = lo + 1
  BY <1>1 DEF Carries
<1>. QED  BY <1>1, <1>2

LEMMA BehindPop ==
  ASSUME NEW S, NEW q \in Seq(S), q # <<>>, Behind(q)
  PROVE  Behind(Tail(q)) /\ (IsEnd(q[1]) => \A k \in 1..Len(Tail(q)) : ~(Tail(q)[k] > 0))
<1>1. /\ 1 \in 1..Len(q) /\ Len(q) \in Nat
      /\ \A k \in 1..Len(Tail(q)) : k + 1 \in 1..Len(q) /\ Tail(q)[k] = q[k + 1]
  BY TailOf
<1>2. ASSUME NEW j \in 1..Len(Tail(q)), NEW k \in 1..Len(Tail(q)), j < k, IsEnd(Tail(q)[j])
      PROVE  ~(Tail(q)[k] > 0)
  BY <1>1, <1>2 DEF Behind
<1>3. ASSUME NEW k \in 1..Len(Tail(q)), IsEnd(q[1]) PROVE ~(Tail(q)[k] > 0)
  <2>1. 1 < k + 1 /\ k + 1 \in 1..Len(q) /\ Tail(q)[k] = q[k + 1]
    BY <1>1
  <2>. QED  BY <1>1, <1>3, <2>1 DEF Behind
<1>. QED  BY <1>2, <1>3 DEF Behind

LEMMA BehindPush ==
  ASSUME NEW S, NEW q \in Seq(S), NEW x \in S, Behind(q),
         ~(x > 0) \/ \A k \in 1..Len(q) : ~IsEnd(q[k])
  PROVE  Behind(Append(q, x))
<1>1. /\ Len(q) \in Nat /\ Append(q, x)[Len(q) + 1] = x
      /\ \A k \in 1..Len(q) : Append(q, x)[k] = q[k]
      /\ \A k \in 1..Len(Append(q, x)) : k \in 1..Len(q) \/ k = Len(q) + 1
  BY AppendOf
<1>2. ASSUME NEW j \in 1..Len(Append(q, x)), NEW k \in 1..Len(Append(q, x)), j < k,
             IsEnd(Append(q, x)[j])
      PROVE  ~(Append(q, x)[k] > 0)
  <2>1. j \in 1..Len(q) /\ IsEnd(q[j])
    BY <1>1, <1>2
  <2>2. CASE k \in 1..Len(q)
    BY <1>1, <1>2, <2>1, <2>2 DEF Behind
  <2>3. CASE k = Len(q) + 1
    BY <1>1, <2>1, <2>3
  <2>. QED  BY <1>1, <2>2, <2>3
<1>. QED  BY <1>2 DEF Behind

-----------------------------------------------------------------------------
(* What the socket can bring, as elements at the end of the queue.         *)
LEMMA EventsAre ==
  /\ Coming \subseteq Int /\ Pushed \subseteq Coming /\ Pushed \subseteq Int
  /\ {Text, Opened, Closed, Error} \subseteq Coming /\ {Closed, Error} \subseteq Pushed
  /\ \A x \in {Text, Opened, Closed, Error} : ~(x > 0)
  /\ IsEnd(Closed) /\ IsEnd(Error) /\ ~IsEnd(Opened) /\ ~IsEnd(Text)
  /\ Opened # Closed /\ Opened # Error /\ Error # Closed /\ Opened # Text
  /\ \A x \in Coming : x > 0 \/ x \in {Text, Opened, Closed, Error}
  /\ \A x \in Coming : x > 0 => ~IsEnd(x) /\ x # Text /\ x # Opened /\ x \in Pushed
BY DEF Coming, Pushed, Text, Opened, Closed, Error, IsEnd

LEMMA SocketIs ==
  ASSUME ReceiveTypes, Socket
  PROVE  /\ UNCHANGED <<kind, shut, wire, hello, inbound, closed, sink, holder,
                        connect, reader, got, told, at>>
         /\ \/ /\ link = "connecting" /\ link' = "open" /\ said' = said
               /\ arriving' = Append(arriving, Opened)
            \/ /\ link # "ended" /\ link' = "ended" /\ said' = said
               /\ \/ arriving' = arriving
                  \/ arriving' = Append(arriving, Closed)
                  \/ arriving' = Append(Append(arriving, Error), Closed)
            \/ /\ link = "open" /\ link' = link
               /\ \/ said' = said + 1 /\ arriving' = Append(arriving, said + 1)
                  \/ said' = said /\ arriving' = Append(arriving, Text)
<1>1. arriving \in Seq(Coming) /\ said + 1 \in Coming /\ said \in Nat
  BY DEF ReceiveTypes, Coming
<1>2. /\ arriving \o <<>> = arriving
      /\ arriving \o <<Opened>> = Append(arriving, Opened)
      /\ arriving \o <<Closed>> = Append(arriving, Closed)
      /\ arriving \o <<Text>> = Append(arriving, Text)
      /\ arriving \o <<said + 1>> = Append(arriving, said + 1)
      /\ arriving \o <<Error, Closed>> = Append(Append(arriving, Error), Closed)
  BY <1>1
<1>. QED  BY <1>2 DEF Socket, Opens, Ends, PeerSends, Arrives

LEMMA SocketTypes == TypeInv /\ Socket => TypeInv'
<1>. SUFFICES ASSUME TypeInv, Socket PROVE TypeInv'
  OBVIOUS
<1>1. ReceiveTypes
  BY DEF TypeInv
<1>2. /\ arriving \in Seq(Coming) /\ said \in Nat /\ said + 1 \in Coming
      /\ \A x \in Coming : Append(arriving, x) \in Seq(Coming)
      /\ Append(Append(arriving, Error), Closed) \in Seq(Coming)
  BY <1>1, EventsAre DEF ReceiveTypes, Coming
<1>3. arriving' \in Seq(Coming) /\ said' \in Nat
      /\ link' \in {"connecting", "open", "ended"}
  <2>1. /\ Append(arriving, Opened) \in Seq(Coming) /\ Append(arriving, Closed) \in Seq(Coming)
        /\ Append(arriving, Text) \in Seq(Coming) /\ said + 1 \in Nat
        /\ Append(arriving, said + 1) \in Seq(Coming)
    BY <1>2, EventsAre
  <2>. QED  BY <1>1, <1>2, <2>1, SocketIs DEF ReceiveTypes
<1>4. ReceiveTypes' /\ SendTypes'
  BY <1>1, <1>3, SocketIs DEF TypeInv, ReceiveTypes, SendTypes
<1>5. Up'
  <2>1. link' # "connecting"
    BY <1>1, SocketIs
  <2>2. kind = "native" => \A k \in 1..Len(arriving') : arriving'[k] # Opened
    <3>1. ASSUME NEW x \in Coming, x # Opened, kind = "native"
          PROVE  \A k \in 1..Len(Append(arriving, x)) : Append(arriving, x)[k] # Opened
      BY <1>2, <3>1, AppendOf DEF TypeInv, Up
    <3>2. kind = "native" => \A k \in 1..Len(Append(Append(arriving, Error), Closed)) :
                               Append(Append(arriving, Error), Closed)[k] # Opened
      <4>1. Append(arriving, Error) \in Seq(Coming) /\ Closed \in Coming
            /\ Error \in Coming /\ Error # Opened /\ Closed # Opened
        BY <1>2, EventsAre
      <4>. QED  BY <3>1, <4>1, AppendOf
    <3>3. kind = "native" => link # "connecting"
      BY DEF TypeInv, Up
    <3>4. said + 1 # Opened /\ Text # Opened /\ Closed # Opened
          /\ {Text, Closed} \subseteq Coming
      BY <1>2, EventsAre DEF Opened
    <3>. QED  BY <1>1, <1>2, <3>1, <3>2, <3>3, <3>4, SocketIs DEF TypeInv, Up
  <2>. QED  BY <1>1, <2>1, <2>2, SocketIs DEF TypeInv, Up
<1>. QED  BY <1>4, <1>5 DEF TypeInv

(* The callbacks: the event at the head of the queue goes to the channel,  *)
(* or to hello, or is dropped.                                             *)
LEMMA CallbackIs ==
  ASSUME TypeInv, Callback
  PROVE  /\ kind # "native" /\ arriving # <<>> /\ arriving' = Tail(arriving)
         /\ arriving \in Seq(Coming) /\ arriving[1] \in Coming
         /\ UNCHANGED <<kind, link, shut, said, wire, sink, holder, connect, reader,
                        got, told, at>>
         /\ \/ inbound' = Append(inbound, arriving[1]) /\ arriving[1] \in Pushed
            \/ inbound' = inbound /\ (~(arriving[1] > 0) \/ shut # "no")
         /\ hello' \in {hello, <<"ok">>, <<"failed">>}
         /\ hello' = <<"ok">> => arriving[1] = Opened \/ hello' = hello
         /\ closed' \in BOOLEAN
<1>1. /\ arriving \in Seq(Coming) /\ arriving # <<>> /\ Head(arriving) = arriving[1]
      /\ arriving[1] \in Coming /\ closed \in BOOLEAN
  BY TailOf DEF TypeInv, ReceiveTypes, Callback
<1>2. /\ UNCHANGED <<kind, link, shut, said, wire, sink, holder, connect, reader,
                     got, told, at>>
      /\ kind # "native" /\ arriving' = Tail(arriving)
  BY DEF Callback
<1>3. CASE arriving[1] = Opened
  BY <1>1, <1>2, <1>3, EventsAre DEF Callback, OnOpen, Signal
<1>4. CASE arriving[1] = Error
  <2>1. OnError /\ arriving[1] # Opened /\ arriving[1] \in Pushed
    BY <1>1, <1>4, EventsAre DEF Callback
  <2>2. hello' = <<"failed">> \/ hello' = hello
    BY <2>1 DEF OnError, Signal
  <2>3. inbound' = Append(inbound, arriving[1]) /\ closed' \in BOOLEAN
    BY <1>4, <2>1 DEF OnError, Push
  <2>. QED  BY <1>1, <1>2, <2>1, <2>2, <2>3
<1>5. CASE arriving[1] = Closed
  BY <1>1, <1>2, <1>5, EventsAre DEF Callback, OnClose, CloseSignal, Signal, TellReader, Push
<1>6. CASE arriving[1] \notin {Opened, Error, Closed}
  BY <1>1, <1>2, <1>6, EventsAre DEF Callback, OnMessage, Push
<1>. QED  BY <1>3, <1>4, <1>5, <1>6

LEMMA CallbackTypes == TypeInv /\ Callback => TypeInv'
<1>. SUFFICES ASSUME TypeInv, Callback PROVE TypeInv'
  OBVIOUS
<1>1. /\ arriving' \in Seq(Coming)
      /\ \A k \in 1..Len(arriving') : k + 1 \in 1..Len(arriving) /\ arriving'[k] = arriving[k + 1]
      /\ 1 \in 1..Len(arriving)
  BY CallbackIs, TailOf
<1>2. inbound' \in Seq(Pushed)
  <2>1. inbound \in Seq(Pushed) /\ \A x \in Pushed : Append(inbound, x) \in Seq(Pushed)
    BY DEF TypeInv, ReceiveTypes
  <2>. QED  BY <2>1, CallbackIs
<1>3. hello' \in Seq({"ok", "failed"})
  <2>1. {hello, <<"ok">>, <<"failed">>} \subseteq Seq({"ok", "failed"})
    BY DEF TypeInv, ReceiveTypes
  <2>2. hello' \in {hello, <<"ok">>, <<"failed">>}
    BY CallbackIs
  <2>. QED  BY <2>1, <2>2
<1>4. ReceiveTypes' /\ SendTypes'
  BY <1>1, <1>2, <1>3, CallbackIs DEF TypeInv, ReceiveTypes, SendTypes
<1>5. Up'
  <2>1. \A k \in 1..Len(hello') : hello'[k] = "ok" => link # "connecting"
    <3>1. arriving[1] = Opened => link # "connecting"
      BY <1>1 DEF TypeInv, Up
    <3>2. CASE hello' = <<"failed">>
      BY <3>2
    <3>3. CASE hello' = hello
      BY <3>3 DEF TypeInv, Up
    <3>4. CASE hello' = <<"ok">> /\ hello' # hello
      BY <3>1, <3>4, CallbackIs
    <3>. QED  BY <3>2, <3>3, <3>4, CallbackIs
  <2>2. \A k \in 1..Len(arriving') :
          arriving'[k] = Opened => link # "connecting" /\ kind # "native"
    BY <1>1, CallbackIs DEF TypeInv, Up
  <2>. QED  BY <2>1, <2>2, CallbackIs DEF TypeInv, Up
<1>. QED  BY <1>4, <1>5 DEF TypeInv

(* What recv does with a message, an end, or a text frame.                 *)
LEMMA HandleIs ==
  ASSUME TypeInv, NEW x \in Coming, x # Opened, Handle(x)
  PROVE  /\ reader' \in {"none", "check"} /\ got' \in Nat
         /\ told' \in {"none", "closed", "io"} /\ closed' \in BOOLEAN
         /\ x > 0 => got' = x /\ told' = told /\ closed' = closed
         /\ ~(x > 0) => got' = got
         /\ IsEnd(x) => told' # "none"
         /\ ~IsEnd(x) => told' = told /\ closed' = closed
         /\ told # "none" => told' # "none"
<1>0. closed \in BOOLEAN /\ got \in Nat /\ told \in {"none", "closed", "io"}
  BY DEF TypeInv, ReceiveTypes
<1>1. CASE x = Closed
  <2>1. reader' = "none" /\ Result("closed") /\ got' = got /\ ~(x > 0) /\ IsEnd(x)
    BY <1>1, EventsAre DEF Handle
  <2>. QED  BY <1>0, <2>1 DEF Result
<1>2. CASE x = Error
  <2>1. reader' = "none" /\ Result("io") /\ got' = got /\ ~(x > 0) /\ IsEnd(x)
    BY <1>2, EventsAre DEF Handle
  <2>. QED  BY <1>0, <2>1 DEF Result
<1>3. CASE x = Text
  <2>1. /\ reader' = "check" /\ UNCHANGED <<got, told, closed>> /\ ~(x > 0) /\ ~IsEnd(x)
    BY <1>3, EventsAre DEF Handle, Text, Closed, Error
  <2>. QED  BY <1>0, <2>1
<1>4. CASE x \notin {Closed, Error, Text}
  <2>1. reader' = "none" /\ got' = x /\ UNCHANGED <<told, closed>>
    BY <1>4 DEF Handle
  <2>2. x > 0 /\ ~IsEnd(x) /\ x \in Nat
    BY <1>4, EventsAre DEF Coming, IsEnd
  <2>. QED  BY <1>0, <2>1, <2>2
<1>. QED  BY <1>1, <1>2, <1>3, <1>4

LEMMA ReceiveIs ==
  ASSUME TypeInv, Receive
  PROVE  /\ UNCHANGED <<kind, link, shut, said, wire, hello, sink, holder, connect, at>>
         /\ \E x \in Coming :
              /\ x # Opened /\ Handle(x)
              /\ \/ /\ kind = "native" /\ arriving # <<>> /\ x = arriving[1]
                    /\ arriving' = Tail(arriving) /\ inbound' = inbound
                 \/ /\ kind = "native" /\ arriving = <<>> /\ x = Closed
                    /\ arriving' = arriving /\ inbound' = inbound
                 \/ /\ kind # "native" /\ inbound # <<>> /\ x = inbound[1]
                    /\ inbound' = Tail(inbound) /\ arriving' = arriving
<1>0. arriving \in Seq(Coming) /\ inbound \in Seq(Pushed)
  BY DEF TypeInv, ReceiveTypes
<1>1. UNCHANGED <<kind, link, shut, said, wire, hello, sink, holder, connect, at>>
  BY DEF Receive
<1>2. CASE kind = "native" /\ arriving # <<>> /\ Handle(Head(arriving))
           /\ arriving' = Tail(arriving) /\ UNCHANGED inbound
  <2>1. Head(arriving) = arriving[1] /\ arriving[1] \in Coming /\ 1 \in 1..Len(arriving)
    BY <1>0, <1>2, TailOf
  <2>2. arriving[1] # Opened
    BY <1>2, <2>1 DEF TypeInv, Up
  <2>. QED  BY <1>1, <1>2, <2>1, <2>2
<1>3. CASE kind = "native" /\ arriving = <<>> /\ Handle(Closed) /\ UNCHANGED <<arriving, inbound>>
  BY <1>1, <1>3, EventsAre
<1>4. CASE kind # "native" /\ inbound # <<>> /\ Handle(Head(inbound))
           /\ inbound' = Tail(inbound) /\ UNCHANGED arriving
  <2>1. Head(inbound) = inbound[1] /\ inbound[1] \in Pushed
    BY <1>0, <1>4, TailOf
  <2>2. inbound[1] \in Coming /\ inbound[1] # Opened
    BY <2>1, EventsAre DEF Pushed, Opened
  <2>. QED  BY <1>1, <1>4, <2>1, <2>2
<1>. QED  BY <1>2, <1>3, <1>4 DEF Receive

LEMMA ReceiveTypesKept == TypeInv /\ Receive => TypeInv'
<1>. SUFFICES ASSUME TypeInv, Receive PROVE TypeInv'
  OBVIOUS
<1>1. PICK x \in Coming :
        /\ x # Opened /\ Handle(x)
        /\ \/ /\ kind = "native" /\ arriving # <<>>
              /\ arriving' = Tail(arriving) /\ inbound' = inbound
           \/ /\ kind = "native" /\ arriving' = arriving /\ inbound' = inbound
           \/ /\ kind # "native" /\ inbound # <<>>
              /\ inbound' = Tail(inbound) /\ arriving' = arriving
  BY ReceiveIs
<1>2. /\ reader' \in {"none", "check"} /\ got' \in Nat
      /\ told' \in {"none", "closed", "io"} /\ closed' \in BOOLEAN
  BY <1>1, HandleIs
<1>3. UNCHANGED <<kind, link, shut, said, wire, hello, sink, holder, connect, at>>
  BY ReceiveIs
<1>4. arriving \in Seq(Coming) /\ inbound \in Seq(Pushed)
  BY DEF TypeInv, ReceiveTypes
<1>5. arriving' \in Seq(Coming) /\ inbound' \in Seq(Pushed)
  BY <1>1, <1>4, TailOf
<1>6. ReceiveTypes' /\ SendTypes'
  BY <1>2, <1>3, <1>5 DEF TypeInv, ReceiveTypes, SendTypes
<1>7. \A k \in 1..Len(arriving') :
        arriving'[k] = Opened => link # "connecting" /\ kind # "native"
  <2>1. CASE arriving' = arriving
    BY <2>1 DEF TypeInv, Up
  <2>2. CASE arriving # <<>> /\ arriving' = Tail(arriving)
    BY <1>4, <2>2, TailOf DEF TypeInv, Up
  <2>. QED  BY <1>1, <2>1, <2>2
<1>8. Up'
  BY <1>1, <1>3, <1>7 DEF TypeInv, Up
<1>. QED  BY <1>6, <1>8 DEF TypeInv

Local == Connect \/ Recv \/ Check \/ RecvDropped \/ Close \/ CloseFrame
         \/ \E t \in Sender : Sends(t) \/ SendDropped(t)

(* The steps of callers move no message.                                   *)
LEMMA LocalIs ==
  ASSUME TypeInv, Local
  PROVE  /\ UNCHANGED <<kind, link, arriving, said, inbound, got>>
         /\ shut' \in {"no", "flag", "done"} /\ (shut # "no" => shut' # "no")
         /\ shut' = "flag" => kind = "native"
         /\ closed' \in BOOLEAN /\ told' \in {"none", "closed", "io"}
         /\ told # "none" => told' # "none"
         /\ told' # told => kind = "native" /\ closed
         /\ closed' # closed => shut' # "no" \/ told' # "none"
         /\ reader' \in {"none", "check", "waiting"}
<1>0. /\ closed \in BOOLEAN /\ told \in {"none", "closed", "io"}
      /\ reader \in {"none", "check", "waiting"} /\ (shut = "flag" => kind = "native")
      /\ shut \in {"no", "flag", "done"}
  BY DEF TypeInv, ReceiveTypes, Up
<1>1. CASE Check
  BY <1>0, <1>1 DEF Check, FlagCounts, Enters, Result, linkVars
<1>2. CASE Connect \/ Recv \/ RecvDropped
  BY <1>0, <1>2 DEF Connect, Recv, RecvDropped, Enters, linkVars
<1>3. CASE Close
  <2>1. /\ UNCHANGED <<kind, link, arriving, said, inbound, got, told, reader>>
        /\ closed' = TRUE /\ shut' = IF kind = "native" THEN "flag" ELSE "done"
    BY <1>3 DEF Close
  <2>. QED  BY <1>0, <2>1
<1>5. CASE CloseFrame
  BY <1>0, <1>5 DEF CloseFrame
<1>4. CASE \E t \in Sender : Sends(t) \/ SendDropped(t)
  BY <1>0, <1>4 DEF Sends, Send, Feed, Flush, SendDropped, linkVars
<1>. QED  BY <1>1, <1>2, <1>3, <1>4, <1>5 DEF Local

LEMMA LocalTypes == TypeInv /\ Local => TypeInv'
<1>. SUFFICES ASSUME TypeInv, Local PROVE TypeInv'
  OBVIOUS
<1>1. \/ connect' = connect /\ hello' = hello
      \/ /\ hello # <<>> /\ connect' = hello[1] /\ hello' = <<>>
         /\ hello[1] \in {"ok", "failed"} /\ (hello[1] = "ok" => link # "connecting")
  <2>1. CASE Connect
    <3>1. hello # <<>> => 1 \in 1..Len(hello) /\ hello[1] \in {"ok", "failed"}
      BY TailOf DEF TypeInv, ReceiveTypes
    <3>. QED  BY <2>1, <3>1 DEF Connect, TypeInv, Up
  <2>2. CASE Recv \/ Check \/ RecvDropped \/ Close \/ CloseFrame
    BY <2>2 DEF Recv, Check, RecvDropped, Enters, Close, CloseFrame
  <2>3. CASE \E t \in Sender : Sends(t) \/ SendDropped(t)
    BY <2>3 DEF Sends, Send, Feed, Flush, SendDropped
  <2>. QED  BY <2>1, <2>2, <2>3 DEF Local
<1>2. hello' \in Seq({"ok", "failed"}) /\ connect' \in {"waiting", "ok", "failed"}
  <2>1. /\ hello \in Seq({"ok", "failed"}) /\ connect \in {"waiting", "ok", "failed"}
        /\ <<>> \in Seq({"ok", "failed"})
    BY DEF TypeInv, ReceiveTypes
  <2>. QED  BY <1>1, <2>1
<1>3. ReceiveTypes'
  BY <1>2, LocalIs DEF TypeInv, ReceiveTypes
<1>4. SendTypes'
  <2>0. /\ wire \in Seq(Sender) /\ sink \in Seq(Sender) /\ holder \in Sender \cup {Nobody}
        /\ at \in [Sender -> {"idle", "lock", "flush", "ok", "err"}]
        /\ wire \o sink \in Seq(Sender) /\ <<>> \in Seq(Sender)
    BY DEF TypeInv, SendTypes
  <2>1. CASE Connect \/ Recv \/ Check \/ RecvDropped \/ Close \/ CloseFrame
    BY <2>0, <2>1 DEF Connect, Recv, Check, RecvDropped, Enters, Close, CloseFrame,
       FlushSink, SendTypes
  <2>2. ASSUME NEW t \in Sender, Sends(t) \/ SendDropped(t) PROVE SendTypes'
    <3>1. CASE Send(t)
      <4>1. Append(wire, t) \in Seq(Sender)
        BY <2>0
      <4>2. /\ wire' \in {wire, Append(wire, t)} /\ UNCHANGED <<sink, holder>>
            /\ \E p \in {"err", "lock", "ok"} : at' = [at EXCEPT ![t] = p]
        BY <3>1 DEF Send, Moves
      <4>. QED  BY <2>0, <4>1, <4>2 DEF SendTypes
    <3>2. CASE Feed(t)
      <4>1. Append(sink, t) \in Seq(Sender)
        BY <2>0
      <4>2. /\ sink' \in {sink, Append(sink, t)} /\ holder' \in {holder, t} /\ wire' = wire
            /\ \E p \in {"err", "flush"} : at' = [at EXCEPT ![t] = p]
        BY <3>2 DEF Feed, Moves
      <4>. QED  BY <2>0, <4>1, <4>2 DEF SendTypes
    <3>3. CASE Flush(t)
      BY <2>0, <3>3 DEF Flush, FlushSink, Moves, SendTypes
    <3>4. CASE SendDropped(t)
      BY <2>0, <3>4 DEF SendDropped, Moves, SendTypes
    <3>. QED  BY <2>2, <3>1, <3>2, <3>3, <3>4 DEF Sends
  <2>. QED  BY <2>1, <2>2 DEF Local
<1>5. Up'
  <2>1. \A k \in 1..Len(hello') : hello'[k] = "ok" => link # "connecting"
    BY <1>1 DEF TypeInv, Up
  <2>. QED  BY <1>1, <2>1, LocalIs DEF TypeInv, Up
<1>. QED  BY <1>3, <1>4, <1>5 DEF TypeInv

LEMMA NextIs == Next <=> Socket \/ Callback \/ Receive \/ Local
BY DEF Next, Local

LEMMA TypeInvStep == TypeInv /\ [Next]_vars => TypeInv'
<1>. SUFFICES ASSUME TypeInv, [Next]_vars PROVE TypeInv'
  OBVIOUS
<1>1. CASE UNCHANGED vars
  BY <1>1 DEF vars, linkVars, TypeInv, ReceiveTypes, SendTypes, Up
<1>. QED  BY <1>1, NextIs, SocketTypes, CallbackTypes, ReceiveTypesKept, LocalTypes

LEMMA TypeInvInit == Init => TypeInv
<1>. SUFFICES ASSUME Init PROVE TypeInv
  OBVIOUS
<1>1. ReceiveTypes
  <2>1. <<>> \in Seq(Coming) /\ <<>> \in Seq(Pushed) /\ <<>> \in Seq({"ok", "failed"})
    OBVIOUS
  <2>. QED  BY <2>1, ConstantsAssumption DEF Init, ReceiveTypes
<1>2. SendTypes
  BY DEF Init, SendTypes
<1>3. Up
  BY DEF Init, Up
<1>. QED  BY <1>1, <1>2, <1>3 DEF TypeInv

-----------------------------------------------------------------------------
(* Nothing comes behind the end.                                           *)
LEMMA EndInvStep == TypeInv /\ EndInv /\ [Next]_vars => EndInv'
<1>. SUFFICES ASSUME TypeInv, EndInv, [Next]_vars PROVE EndInv'
  OBVIOUS
<1>0. /\ arriving \in Seq(Coming) /\ inbound \in Seq(Pushed) /\ inbound \in Seq(Coming)
      /\ ReceiveTypes
  <2>1. arriving \in Seq(Coming) /\ inbound \in Seq(Pushed) /\ ReceiveTypes
    BY DEF TypeInv, ReceiveTypes
  <2>. QED  BY <2>1, EventsAre, SeqOfMore
<1>1. CASE UNCHANGED vars
  BY <1>1 DEF vars, linkVars, EndInv, Behind
<1>2. CASE Local
  BY <1>2, LocalIs DEF EndInv, Behind
<1>3. CASE Socket
  <2>1. ASSUME NEW q \in Seq(Coming), NEW x \in Coming, Behind(q),
               \A j \in 1..Len(inbound), k \in 1..Len(q) : IsEnd(inbound[j]) => ~(q[k] > 0),
               ~(x > 0) \/ link # "ended", x > 0 => q = arriving
        PROVE  /\ Behind(Append(q, x))
               /\ \A j \in 1..Len(inbound), k \in 1..Len(Append(q, x)) :
                    IsEnd(inbound[j]) => ~(Append(q, x)[k] > 0)
    <3>1. Behind(Append(q, x))
      BY <2>1, BehindPush DEF EndInv
    <3>2. \A j \in 1..Len(inbound), k \in 1..Len(Append(q, x)) :
            IsEnd(inbound[j]) => ~(Append(q, x)[k] > 0)
      BY <2>1, AppendOf DEF EndInv
    <3>. QED  BY <3>1, <3>2
  <2>2. Behind(arriving') /\ \A j \in 1..Len(inbound), k \in 1..Len(arriving') :
          IsEnd(inbound[j]) => ~(arriving'[k] > 0)
    <3>0. /\ Behind(arriving)
          /\ \A j \in 1..Len(inbound), k \in 1..Len(arriving) :
               IsEnd(inbound[j]) => ~(arriving[k] > 0)
      BY DEF EndInv
    <3>1. CASE arriving' = arriving
      BY <3>0, <3>1
    <3>2. CASE arriving' = Append(arriving, said + 1) /\ link = "open"
      <4>1. said + 1 \in Coming
        BY <1>0 DEF ReceiveTypes, Coming
      <4>. QED  BY <1>0, <2>1, <3>0, <3>2, <4>1
    <3>3. ASSUME NEW x \in {Text, Opened, Closed, Error}
          PROVE  /\ Append(arriving, x) \in Seq(Coming) /\ Behind(Append(arriving, x))
                 /\ \A j \in 1..Len(inbound), k \in 1..Len(Append(arriving, x)) :
                      IsEnd(inbound[j]) => ~(Append(arriving, x)[k] > 0)
      <4>1. x \in Coming /\ ~(x > 0)
        BY EventsAre
      <4>2. Append(arriving, x) \in Seq(Coming)
        BY <1>0, <4>1
      <4>3. \A y \in {arriving} : y \in Seq(Coming) /\ (x > 0 => y = arriving)
        BY <1>0
      <4>. QED  BY <1>0, <2>1, <3>0, <4>1, <4>2, <4>3
    <3>4. CASE arriving' = Append(Append(arriving, Error), Closed)
      BY <2>1, <3>3, <3>4, EventsAre
    <3>. QED  BY <1>0, <1>3, <3>1, <3>2, <3>3, <3>4, SocketIs
  <2>3. \A k \in 1..Len(arriving') : IsEnd(arriving'[k]) => link' = "ended"
    <3>1. CASE link' = "ended"
      BY <3>1
    <3>2. CASE link' # "ended"
      <4>1. \E x \in Coming : arriving' = Append(arriving, x) /\ ~IsEnd(x) /\ link # "ended"
        <5>1. said + 1 \in Coming /\ said + 1 > 0
          BY <1>0 DEF ReceiveTypes, Coming
        <5>. QED  BY <1>0, <1>3, <3>2, <5>1, SocketIs, EventsAre
      <4>. QED  BY <1>0, <4>1, AppendOf DEF EndInv
    <3>. QED  BY <3>1, <3>2
  <2>4. \A k \in 1..Len(inbound) : IsEnd(inbound[k]) => link' = "ended"
    BY <1>0, <1>3, SocketIs DEF EndInv
  <2>. QED  BY <1>0, <1>3, <2>2, <2>3, <2>4, SocketIs DEF EndInv
<1>4. CASE Callback
  <2>1. /\ arriving # <<>> /\ arriving' = Tail(arriving) /\ kind # "native" /\ link' = link
        /\ kind' = kind
        /\ inbound' = inbound
           \/ (inbound' = Append(inbound, arriving[1]) /\ arriving[1] \in Pushed)
    BY <1>4, CallbackIs
  <2>2. /\ Behind(arriving')
        /\ IsEnd(arriving[1]) => \A k \in 1..Len(arriving') : ~(arriving'[k] > 0)
    BY <1>0, <2>1, BehindPop DEF EndInv
  <2>3. /\ 1 \in 1..Len(arriving)
        /\ \A k \in 1..Len(arriving') : k + 1 \in 1..Len(arriving)
                                         /\ arriving'[k] = arriving[k + 1]
    BY <1>0, <2>1, TailOf
  <2>4. CASE inbound' = inbound
    BY <2>1, <2>2, <2>3, <2>4 DEF EndInv
  <2>5. CASE inbound' = Append(inbound, arriving[1]) /\ arriving[1] \in Pushed
    <3>1. ~(arriving[1] > 0) \/ \A k \in 1..Len(inbound) : ~IsEnd(inbound[k])
      BY <2>3 DEF EndInv
    <3>2. Behind(inbound')
      BY <1>0, <2>5, <3>1, BehindPush DEF EndInv
    <3>3. \A j \in 1..Len(inbound') :
            \/ j \in 1..Len(inbound) /\ inbound'[j] = inbound[j]
            \/ inbound'[j] = arriving[1]
      BY <1>0, <2>5, AppendOf
    <3>4. \A j \in 1..Len(inbound'), k \in 1..Len(arriving') :
            IsEnd(inbound'[j]) => ~(arriving'[k] > 0)
      BY <2>2, <2>3, <3>3 DEF EndInv
    <3>5. \A k \in 1..Len(inbound') : IsEnd(inbound'[k]) => link = "ended"
      BY <2>3, <3>3 DEF EndInv
    <3>. QED  BY <2>1, <2>2, <2>3, <3>2, <3>4, <3>5 DEF EndInv
  <2>. QED  BY <2>1, <2>4, <2>5
<1>5. CASE Receive
  <2>1. PICK x \in Coming :
          /\ x # Opened /\ Handle(x)
          /\ \/ arriving # <<>> /\ arriving' = Tail(arriving) /\ inbound' = inbound
             \/ arriving' = arriving /\ inbound' = inbound
             \/ inbound # <<>> /\ inbound' = Tail(inbound) /\ arriving' = arriving
    BY <1>5, ReceiveIs
  <2>2. link' = link /\ kind' = kind /\ shut' = shut
    BY <1>5, ReceiveIs
  <2>3. kind = "native" /\ closed' => shut # "no" \/ told' # "none"
    BY <2>1, HandleIs DEF EndInv
  <2>4. CASE arriving # <<>> /\ arriving' = Tail(arriving) /\ inbound' = inbound
    <3>1. /\ Behind(arriving')
          /\ \A k \in 1..Len(arriving') : k + 1 \in 1..Len(arriving)
                                           /\ arriving'[k] = arriving[k + 1]
      BY <1>0, <2>4, BehindPop, TailOf DEF EndInv
    <3>. QED  BY <2>2, <2>3, <2>4, <3>1 DEF EndInv
  <2>5. CASE arriving' = arriving /\ inbound' = inbound
    BY <2>2, <2>3, <2>5 DEF EndInv
  <2>6. CASE inbound # <<>> /\ inbound' = Tail(inbound) /\ arriving' = arriving
    <3>1. /\ Behind(inbound')
          /\ \A k \in 1..Len(inbound') : k + 1 \in 1..Len(inbound)
                                          /\ inbound'[k] = inbound[k + 1]
      BY <1>0, <2>6, BehindPop, TailOf DEF EndInv
    <3>. QED  BY <2>2, <2>3, <2>6, <3>1 DEF EndInv
  <2>. QED  BY <2>1, <2>4, <2>5, <2>6
<1>. QED  BY <1>1, <1>2, <1>3, <1>4, <1>5, NextIs

LEMMA EndInvInit == Init => EndInv
BY DEF Init, EndInv, Behind

-----------------------------------------------------------------------------
(* The messages.                                                           *)
LEMMA NothingLostStep == TypeInv /\ EndInv /\ NothingLost /\ [Next]_vars => NothingLost'
<1>. SUFFICES ASSUME TypeInv, EndInv, NothingLost, [Next]_vars, shut' = "no"
              PROVE  \E mid \in got'..said' :
                       Carries(inbound', got', mid) /\ Carries(arriving', mid, said')
  BY DEF NothingLost
<1>1. CASE UNCHANGED vars
  BY <1>1 DEF vars, linkVars, NothingLost
<1>2. CASE Local
  <2>1. shut = "no" /\ UNCHANGED <<arriving, said, inbound, got>>
    BY <1>2, LocalIs DEF TypeInv, ReceiveTypes
  <2>. QED  BY <2>1 DEF NothingLost
<1>3. CASE ~(UNCHANGED vars) /\ ~Local
  <2>0. /\ arriving \in Seq(Coming) /\ inbound \in Seq(Pushed) /\ got \in Nat /\ said \in Nat
        /\ ReceiveTypes /\ Coming \subseteq Int /\ Pushed \subseteq Int
    BY EventsAre DEF TypeInv, ReceiveTypes
  <2>1. Socket \/ Callback \/ Receive
    BY <1>3, NextIs
  <2>2. shut = "no"
    BY <2>0, <2>1, SocketIs, CallbackIs, ReceiveIs
  <2>3. PICK mid \in got..said : Carries(inbound, got, mid) /\ Carries(arriving, mid, said)
    BY <2>2 DEF NothingLost
  <2>4. mid \in Nat /\ got <= mid /\ mid <= said
    BY <2>0, <2>3
  <2>5. CASE Socket
    <3>1. UNCHANGED <<inbound, got>>
      BY <2>0, <2>5, SocketIs
    <3>2. CASE said' = said + 1 /\ arriving' = Append(arriving, said + 1)
      <4>1. said + 1 \in Coming
        BY <2>0 DEF Coming
      <4>2. Carries(arriving', mid, said + 1)
        BY <2>0, <2>3, <2>4, <3>2, <4>1, CarriesPush
      <4>3. mid \in got..(said + 1)
        BY <2>0, <2>4
      <4>. QED  BY <2>3, <3>1, <3>2, <4>2, <4>3
    <3>3. ASSUME NEW q \in Seq(Coming), Carries(q, mid, said),
                 NEW x \in {Text, Opened, Closed, Error}
          PROVE  Append(q, x) \in Seq(Coming) /\ Carries(Append(q, x), mid, said)
      <4>1. x \in Coming /\ ~(x > 0)
        BY EventsAre
      <4>2. Append(q, x) \in Seq(Coming)
        BY <4>1
      <4>. QED  BY <2>0, <2>4, <3>3, <4>1, <4>2, CarriesPush
    <3>4. CASE said' = said /\ Carries(arriving', mid, said)
      BY <2>3, <3>1, <3>4
    <3>5. CASE arriving' = Append(Append(arriving, Error), Closed) /\ said' = said
      BY <2>0, <2>3, <3>3, <3>4, <3>5
    <3>. QED  BY <2>0, <2>3, <2>5, <3>2, <3>3, <3>4, <3>5, SocketIs
  <2>6. CASE Callback
    <3>1. /\ arriving # <<>> /\ arriving' = Tail(arriving) /\ said' = said /\ got' = got
          /\ \/ inbound' = Append(inbound, arriving[1]) /\ arriving[1] \in Pushed
             \/ inbound' = inbound /\ ~(arriving[1] > 0)
      BY <2>2, <2>6, CallbackIs
    <3>2. CASE arriving[1] > 0
      <4>1. /\ arriving[1] = mid + 1 /\ mid + 1 <= said
            /\ Carries(arriving', mid + 1, said)
        BY <2>0, <2>3, <2>4, <3>1, <3>2, CarriesPop
      <4>2. Carries(inbound', got, mid + 1)
        BY <2>0, <2>3, <2>4, <3>1, <3>2, <4>1, CarriesPush
      <4>3. mid + 1 \in got..said
        BY <2>0, <2>4, <4>1
      <4>. QED  BY <3>1, <4>1, <4>2, <4>3
    <3>3. CASE ~(arriving[1] > 0)
      <4>1. Carries(arriving', mid, said)
        BY <2>0, <2>3, <2>4, <3>1, <3>3, CarriesPop
      <4>2. Carries(inbound', got, mid)
        BY <2>0, <2>3, <2>4, <3>1, <3>3, CarriesPush
      <4>. QED  BY <2>3, <3>1, <4>1, <4>2
    <3>. QED  BY <3>2, <3>3
  <2>7. CASE Receive
    <3>1. PICK x \in Coming :
            /\ x # Opened /\ Handle(x)
            /\ \/ /\ kind = "native" /\ arriving # <<>> /\ x = arriving[1]
                  /\ arriving' = Tail(arriving) /\ inbound' = inbound
               \/ /\ kind = "native" /\ arriving = <<>> /\ x = Closed
                  /\ arriving' = arriving /\ inbound' = inbound
               \/ /\ kind # "native" /\ inbound # <<>> /\ x = inbound[1]
                  /\ inbound' = Tail(inbound) /\ arriving' = arriving
      BY <2>7, ReceiveIs
    <3>2. (x > 0 => got' = x) /\ (~(x > 0) => got' = got) /\ said' = said
      BY <2>7, <3>1, HandleIs, ReceiveIs
    <3>3. CASE kind = "native"
      <4>1. inbound = <<>> /\ inbound' = inbound
        BY <3>1, <3>3 DEF TypeInv, Up
      <4>2. mid = got /\ Len(inbound) = 0
        BY <2>0, <2>3, <2>4, <4>1 DEF Carries
      <4>3. CASE arriving # <<>> /\ x = arriving[1] /\ arriving' = Tail(arriving)
        <5>1. CASE x > 0
          <6>1. got' = got + 1 /\ got + 1 <= said /\ Carries(arriving', got + 1, said)
            BY <2>0, <2>3, <3>2, <4>2, <4>3, <5>1, CarriesPop
          <6>2. Carries(inbound', got + 1, got + 1)
            BY <2>0, <4>1, <4>2 DEF Carries
          <6>. QED  BY <2>0, <3>2, <6>1, <6>2
        <5>2. CASE ~(x > 0)
          <6>1. got' = got /\ Carries(arriving', got, said)
            BY <2>0, <2>3, <3>2, <4>2, <4>3, <5>2, CarriesPop
          <6>. QED  BY <2>3, <3>2, <4>1, <4>2, <6>1
        <5>. QED  BY <5>1, <5>2
      <4>4. CASE x = Closed /\ arriving' = arriving
        <5>1. got' = got
          BY <3>2, <4>4, EventsAre
        <5>. QED  BY <2>3, <3>2, <4>1, <4>4, <5>1
      <4>. QED  BY <3>1, <3>3, <4>3, <4>4
    <3>4. CASE kind # "native"
      <4>1. inbound # <<>> /\ x = inbound[1] /\ inbound' = Tail(inbound) /\ arriving' = arriving
        BY <3>1, <3>4
      <4>2. CASE x > 0
        <5>1. got' = got + 1 /\ got + 1 <= mid /\ Carries(inbound', got + 1, mid)
          BY <2>0, <2>3, <2>4, <3>2, <4>1, <4>2, CarriesPop
        <5>. QED  BY <2>0, <2>3, <2>4, <3>2, <4>1, <5>1
      <4>3. CASE ~(x > 0)
        <5>1. got' = got /\ Carries(inbound', got, mid)
          BY <2>0, <2>3, <2>4, <3>2, <4>1, <4>3, CarriesPop
        <5>. QED  BY <2>3, <3>2, <4>1, <5>1
      <4>. QED  BY <4>2, <4>3
    <3>. QED  BY <3>3, <3>4
  <2>. QED  BY <2>1, <2>5, <2>6, <2>7
<1>. QED  BY <1>1, <1>2, <1>3

LEMMA NothingLostInit == Init => NothingLost
<1>. SUFFICES ASSUME Init PROVE \E mid \in got..said :
                Carries(inbound, got, mid) /\ Carries(arriving, mid, said)
  BY DEF NothingLost
<1>1. got = 0 /\ said = 0 /\ Len(inbound) = 0 /\ Len(arriving) = 0
  BY DEF Init
<1>2. Carries(inbound, 0, 0) /\ Carries(arriving, 0, 0) /\ 0 \in 0..0
  BY <1>1 DEF Carries
<1>. QED  BY <1>1, <1>2

LEMMA ReceiveInvHolds == Spec => []ReceiveInv
<1>1. Init => ReceiveInv
  BY TypeInvInit, EndInvInit, NothingLostInit DEF ReceiveInv
<1>2. ReceiveInv /\ [Next]_vars => ReceiveInv'
  BY TypeInvStep, EndInvStep, NothingLostStep DEF ReceiveInv
<1>. QED  BY <1>1, <1>2, PTL DEF Spec

(* Over each of the three transports recv hands out every message of the   *)
(* peer, in order, whatever calls of recv are dropped, until the transport *)
(* is closed from this side.                                               *)
THEOREM NothingIsLost == Spec => []NothingLost
<1>1. ReceiveInv => NothingLost
  BY DEF ReceiveInv
<1>. QED  BY <1>1, ReceiveInvHolds, PTL

(* recv reports that the peer or the network ended a connection only when  *)
(* it has handed out the last message that came before that.               *)
THEOREM EndComesLast == Spec => EndIsLast
<1>1. ASSUME ReceiveInv, [Next]_vars, told = "none", told' # "none", shut = "no"
      PROVE  got = said
  <2>0. /\ arriving \in Seq(Coming) /\ inbound \in Seq(Pushed) /\ got \in Nat /\ said \in Nat
        /\ TypeInv /\ EndInv /\ ReceiveTypes
    BY <1>1 DEF ReceiveInv, TypeInv, ReceiveTypes
  <2>1. PICK mid \in got..said : Carries(inbound, got, mid) /\ Carries(arriving, mid, said)
    BY <1>1 DEF ReceiveInv, NothingLost
  <2>2. SUFFICES /\ \A k \in 1..Len(inbound) : ~(inbound[k] > 0)
                 /\ \A k \in 1..Len(arriving) : ~(arriving[k] > 0)
    <3>1. mid \in Nat
      BY <2>0, <2>1
    <3>2. mid <= got /\ said <= mid
      BY <2>0, <2>1, <2>2, <3>1, CarriesNone
    <3>. QED  BY <2>0, <2>1, <3>2
  <2>3. ~(UNCHANGED vars) /\ ~Socket /\ ~Callback
    BY <1>1, <2>0, SocketIs, CallbackIs DEF vars
  <2>4. ~Local
    BY <1>1, <2>0, LocalIs DEF EndInv
  <2>5. Receive
    BY <1>1, <2>3, <2>4, NextIs
  <2>6. PICK x \in Coming :
          /\ x # Opened /\ Handle(x)
          /\ \/ kind = "native" /\ arriving # <<>> /\ x = arriving[1]
             \/ kind = "native" /\ arriving = <<>> /\ x = Closed
             \/ kind # "native" /\ inbound # <<>> /\ x = inbound[1]
    BY <2>0, <2>5, ReceiveIs
  <2>7. IsEnd(x) /\ ~(x > 0)
    BY <1>1, <2>0, <2>6, HandleIs, EventsAre DEF IsEnd
  <2>8. CASE kind = "native" /\ arriving = <<>>
    <3>1. Len(inbound) = 0 /\ Len(arriving) = 0
      BY <2>0, <2>8 DEF TypeInv, Up
    <3>. QED  BY <3>1
  <2>9. CASE kind = "native" /\ arriving # <<>> /\ x = arriving[1]
    <3>1. Len(inbound) = 0
      BY <2>0, <2>9 DEF TypeInv, Up
    <3>2. \A k \in 1..Len(Tail(arriving)) : ~(Tail(arriving)[k] > 0)
      BY <2>0, <2>7, <2>9, BehindPop DEF EndInv
    <3>3. \A k \in 1..Len(arriving) : ~(arriving[k] > 0)
      BY <2>0, <2>7, <2>9, <3>2, TailOf
    <3>. QED  BY <3>1, <3>3
  <2>10. CASE kind # "native" /\ inbound # <<>> /\ x = inbound[1]
    <3>1. \A k \in 1..Len(Tail(inbound)) : ~(Tail(inbound)[k] > 0)
      BY <2>0, <2>7, <2>10, BehindPop DEF EndInv
    <3>2. \A k \in 1..Len(inbound) : ~(inbound[k] > 0)
      BY <2>0, <2>7, <2>10, <3>1, TailOf
    <3>3. 1 \in 1..Len(inbound)
      BY <2>0, <2>10, TailOf
    <3>4. \A k \in 1..Len(arriving) : ~(arriving[k] > 0)
      BY <2>0, <2>7, <2>10, <3>3 DEF EndInv
    <3>. QED  BY <3>2, <3>4
  <2>. QED  BY <2>6, <2>8, <2>9, <2>10
<1>2. ReceiveInv /\ [Next]_vars
        => (told = "none" /\ told' # "none" => shut # "no" \/ got = said)
  BY <1>1
<1>3. ReceiveInv /\ [Next]_vars
        => [told = "none" /\ told' # "none" => shut # "no" \/ got = said]_vars
  BY <1>2
<1>. QED  BY <1>3, ReceiveInvHolds, PTL DEF Spec, EndIsLast

-----------------------------------------------------------------------------
(* The packets.                                                            *)
LEMMA RangeAppend ==
  ASSUME NEW S, NEW q \in Seq(S), NEW x \in S
  PROVE  /\ Range(Append(q, x)) = Range(q) \cup {x}
         /\ IsInjective(q) /\ x \notin Range(q) => IsInjective(Append(q, x))
<1>1. /\ Len(q) \in Nat /\ DOMAIN q = 1..Len(q)
      /\ DOMAIN Append(q, x) = 1..(Len(q) + 1) /\ Append(q, x)[Len(q) + 1] = x
      /\ \A k \in 1..Len(q) : Append(q, x)[k] = q[k]
      /\ \A k \in 1..(Len(q) + 1) : k \in 1..Len(q) \/ k = Len(q) + 1
  OBVIOUS
<1>. DEFINE a == Append(q, x)
<1>. HIDE DEF a
<1>2. Range(a) = Range(q) \cup {x}
  BY <1>1 DEF Range, a
<1>3. IsInjective(q) /\ x \notin Range(q) => IsInjective(a)
  BY <1>1 DEF Range, IsInjective, a
<1>. QED  BY <1>2, <1>3 DEF a

LEMMA RangeConcat ==
  ASSUME NEW S, NEW p \in Seq(S), NEW q \in Seq(S)
  PROVE  /\ Range(p \o q) = Range(p) \cup Range(q)
         /\ IsInjective(p) /\ IsInjective(q) /\ Range(p) \cap Range(q) = {}
              => IsInjective(p \o q)
<1>1. PICK a : a = p \o q
  OBVIOUS
<1>2. /\ Len(p) \in Nat /\ DOMAIN p = 1..Len(p) /\ Len(q) \in Nat /\ DOMAIN q = 1..Len(q)
      /\ DOMAIN a = 1..(Len(p) + Len(q))
      /\ \A k \in 1..Len(p) : a[k] = p[k]
      /\ \A k \in 1..Len(q) : a[Len(p) + k] = q[k]
  BY <1>1
<1>3. \A k \in DOMAIN a :
        \/ k \in DOMAIN p /\ a[k] = p[k]
        \/ /\ k > Len(p) /\ k - Len(p) \in DOMAIN q /\ a[k] = q[k - Len(p)]
  <2>1. TAKE k \in DOMAIN a
  <2>2. CASE k <= Len(p)
    BY <1>2, <2>2
  <2>3. CASE k > Len(p)
    <3>1. k - Len(p) \in 1..Len(q) /\ Len(p) + (k - Len(p)) = k
      BY <1>2, <2>3
    <3>. QED  BY <1>2, <2>3, <3>1
  <2>. QED  BY <1>2, <2>2, <2>3
<1>4. Range(a) = Range(p) \cup Range(q)
  <2>1. Range(p) \subseteq Range(a)
    <3>1. 1..Len(p) \subseteq DOMAIN a
      BY <1>2
    <3>. QED  BY <1>2, <3>1 DEF Range
  <2>2. Range(q) \subseteq Range(a)
    <3>1. \A k \in 1..Len(q) : Len(p) + k \in DOMAIN a
      BY <1>2
    <3>. QED  BY <1>2, <3>1 DEF Range
  <2>3. Range(a) \subseteq Range(p) \cup Range(q)
    BY <1>3 DEF Range
  <2>. QED  BY <2>1, <2>2, <2>3
<1>5. ASSUME IsInjective(p), IsInjective(q), Range(p) \cap Range(q) = {}
      PROVE  IsInjective(a)
  <2>1. SUFFICES ASSUME NEW j \in DOMAIN a, NEW k \in DOMAIN a, a[j] = a[k] PROVE j = k
    BY DEF IsInjective
  <2>2. CASE j \in DOMAIN p /\ a[j] = p[j] /\ k \in DOMAIN p /\ a[k] = p[k]
    BY <1>5, <2>1, <2>2 DEF IsInjective
  <2>3. CASE /\ j > Len(p) /\ j - Len(p) \in DOMAIN q /\ a[j] = q[j - Len(p)]
             /\ k > Len(p) /\ k - Len(p) \in DOMAIN q /\ a[k] = q[k - Len(p)]
    <3>1. j - Len(p) = k - Len(p)
      BY <1>5, <2>1, <2>3 DEF IsInjective
    <3>. QED  BY <1>2, <3>1
  <2>4. CASE j \in DOMAIN p /\ a[j] = p[j] /\ k - Len(p) \in DOMAIN q /\ a[k] = q[k - Len(p)]
    BY <1>5, <2>1, <2>4 DEF Range
  <2>5. CASE k \in DOMAIN p /\ a[k] = p[k] /\ j - Len(p) \in DOMAIN q /\ a[j] = q[j - Len(p)]
    BY <1>5, <2>1, <2>5 DEF Range
  <2>. QED  BY <1>3, <2>2, <2>3, <2>4, <2>5
<1>. QED  BY <1>1, <1>4, <1>5

LEMMA SendInvQuiet ==
  ASSUME SendInv, UNCHANGED <<kind, wire, sink, holder, at>>,
         link = "ended" => link' = "ended", kind # "native" /\ shut = "done" => shut' = "done"
  PROVE  SendInv'
BY DEF SendInv

LEMMA SendInvStep == TypeInv /\ SendInv /\ [Next]_vars => SendInv'
<1>. SUFFICES ASSUME TypeInv, SendInv, [Next]_vars PROVE SendInv'
  OBVIOUS
<1>0. /\ wire \in Seq(Sender) /\ sink \in Seq(Sender) /\ Nobody \notin Sender
      /\ at \in [Sender -> {"idle", "lock", "flush", "ok", "err"}] /\ ReceiveTypes
  BY ConstantsAssumption DEF TypeInv, SendTypes
<1>1. CASE UNCHANGED vars
  BY <1>1, SendInvQuiet DEF vars, linkVars
<1>2. CASE Socket \/ Callback \/ Receive
  BY <1>0, <1>2, SocketIs, CallbackIs, ReceiveIs, SendInvQuiet
<1>3. CASE Connect \/ Recv \/ Check \/ RecvDropped \/ Close
  <2>1. /\ UNCHANGED <<kind, link, wire, sink, holder, at>>
        /\ shut' = shut \/ (kind # "native" => shut' = "done")
    BY <1>3 DEF Connect, Recv, Check, RecvDropped, Enters, Close, linkVars
  <2>. QED  BY <2>1, SendInvQuiet
<1>4. ASSUME FlushSink
      PROVE  /\ IsInjective(wire') /\ IsInjective(sink') /\ Range(wire') \cap Range(sink') = {}
             /\ Range(wire') = Range(wire) \cup Range(sink) /\ Range(sink') = {}
  <2>1. Range(<<>>) = {} /\ IsInjective(<<>>)
    BY DEF Range, IsInjective
  <2>. QED  BY <1>0, <1>4, <2>1, RangeConcat DEF FlushSink, SendInv
<1>5. CASE CloseFrame
  <2>1. UNCHANGED <<kind, link, holder, at>> /\ holder = Nobody /\ shut' = "done"
    BY <1>5 DEF CloseFrame
  <2>2. \A t \in Sender : at[t] # "flush"
    BY <1>0, <2>1 DEF SendInv
  <2>3. CASE FlushSink
    BY <1>4, <2>1, <2>2, <2>3 DEF SendInv
  <2>4. CASE UNCHANGED <<sink, wire>>
    BY <2>1, <2>4, SendInvQuiet
  <2>. QED  BY <1>5, <2>3, <2>4 DEF CloseFrame
<1>6. ASSUME NEW t \in Sender, Send(t) PROVE SendInv'
  <2>1. /\ UNCHANGED <<kind, link, shut, sink, holder>> /\ connect = "ok" /\ at[t] = "idle"
        /\ \/ at' = [at EXCEPT ![t] = "err"] /\ wire' = wire
           \/ kind = "native" /\ at' = [at EXCEPT ![t] = "lock"] /\ wire' = wire
           \/ /\ kind # "native" /\ at' = [at EXCEPT ![t] = "ok"]
              /\ wire' = IF CanSend THEN Append(wire, t) ELSE wire
    BY <1>6 DEF Send, Moves, linkVars
  <2>2. t \notin Range(wire) /\ t \notin Range(sink)
    BY <2>1 DEF SendInv
  <2>3. CASE at' = [at EXCEPT ![t] = "err"] /\ wire' = wire
    BY <1>0, <2>1, <2>3 DEF SendInv
  <2>4. CASE kind = "native" /\ at' = [at EXCEPT ![t] = "lock"] /\ wire' = wire
    BY <1>0, <2>1, <2>2, <2>4 DEF SendInv
  <2>5. CASE kind # "native" /\ at' = [at EXCEPT ![t] = "ok"] /\ CanSend /\ wire' = Append(wire, t)
    <3>1. Range(wire') = Range(wire) \cup {t} /\ IsInjective(wire')
      BY <1>0, <2>2, <2>5, RangeAppend DEF SendInv
    <3>. QED  BY <1>0, <2>1, <2>2, <2>5, <3>1 DEF SendInv
  <2>6. CASE kind # "native" /\ at' = [at EXCEPT ![t] = "ok"] /\ ~CanSend /\ wire' = wire
    <3>1. link = "ended" \/ shut = "done"
      BY <1>0, <2>1, <2>6 DEF CanSend, TypeInv, Up, ReceiveTypes
    <3>. QED  BY <1>0, <2>1, <2>6, <3>1 DEF SendInv
  <2>. QED  BY <2>1, <2>3, <2>4, <2>5, <2>6
<1>7. ASSUME NEW t \in Sender, Feed(t) PROVE SendInv'
  <2>1. /\ UNCHANGED <<kind, link, shut, wire>> /\ at[t] = "lock" /\ holder = Nobody
        /\ \/ /\ sink' = Append(sink, t) /\ holder' = t
              /\ at' = [at EXCEPT ![t] = "flush"]
           \/ at' = [at EXCEPT ![t] = "err"] /\ UNCHANGED <<sink, holder>>
    BY <1>7 DEF Feed, Moves, linkVars
  <2>2. t \notin Range(wire) /\ t \notin Range(sink) /\ \A u \in Sender : at[u] # "flush"
    BY <1>0, <2>1 DEF SendInv
  <2>3. CASE at' = [at EXCEPT ![t] = "err"] /\ UNCHANGED <<sink, holder>>
    BY <1>0, <2>1, <2>3 DEF SendInv
  <2>4. CASE sink' = Append(sink, t) /\ holder' = t /\ at' = [at EXCEPT ![t] = "flush"]
    <3>1. Range(sink') = Range(sink) \cup {t} /\ IsInjective(sink')
      BY <1>0, <2>2, <2>4, RangeAppend DEF SendInv
    <3>. QED  BY <1>0, <2>1, <2>2, <2>4, <3>1 DEF SendInv
  <2>. QED  BY <2>1, <2>3, <2>4
<1>8. ASSUME NEW t \in Sender, Flush(t) PROVE SendInv'
  <2>1. /\ UNCHANGED <<kind, link, shut>> /\ at[t] = "flush" /\ holder' = Nobody
        /\ \/ FlushSink /\ at' = [at EXCEPT ![t] = "ok"]
           \/ at' = [at EXCEPT ![t] = "err"] /\ UNCHANGED <<sink, wire>>
    BY <1>8 DEF Flush, Moves, linkVars
  <2>2. t \in Range(sink) /\ \A u \in Sender : at[u] = "flush" => u = t
    BY <1>0, <2>1 DEF SendInv
  <2>3. CASE FlushSink /\ at' = [at EXCEPT ![t] = "ok"]
    BY <1>0, <1>4, <2>1, <2>2, <2>3 DEF SendInv
  <2>4. CASE at' = [at EXCEPT ![t] = "err"] /\ UNCHANGED <<sink, wire>>
    BY <1>0, <2>1, <2>2, <2>4 DEF SendInv
  <2>. QED  BY <2>1, <2>3, <2>4
<1>9. ASSUME NEW t \in Sender, SendDropped(t) PROVE SendInv'
  <2>1. /\ UNCHANGED <<kind, link, shut, sink, wire>> /\ at' = [at EXCEPT ![t] = "err"]
        /\ holder' = IF holder = t THEN Nobody ELSE holder
    BY <1>9 DEF SendDropped, Moves, linkVars
  <2>. QED  BY <1>0, <2>1 DEF SendInv
<1>. QED  BY <1>1, <1>2, <1>3, <1>5, <1>6, <1>7, <1>8, <1>9 DEF Next, Sends

LEMMA SendInvInit == Init => SendInv
BY DEF Init, SendInv, Range, IsInjective

(* A packet goes out at most once, and one whose send returned Ok did go   *)
(* out, except in a browser or over a port once the connection is over:    *)
(* for any number of concurrent sends, dropped ones and closes.            *)
THEOREM PacketsGoOnce == Spec => []SentIsWired
<1>1. Init => TypeInv /\ SendInv
  BY TypeInvInit, SendInvInit
<1>2. TypeInv /\ SendInv /\ [Next]_vars => (TypeInv /\ SendInv)'
  BY TypeInvStep, SendInvStep
<1>3. TypeInv /\ SendInv => SentIsWired
  <2>. SUFFICES ASSUME TypeInv, SendInv PROVE SentIsWired
    OBVIOUS
  <2>1. wire \in Seq(Sender) /\ sink \in Seq(Sender)
    BY DEF TypeInv, SendTypes
  <2>2. IsInjective(wire \o sink)
    BY <2>1, RangeConcat DEF SendInv
  <2>. QED  BY <2>2 DEF SendInv, SentIsWired
<1>. QED  BY <1>1, <1>2, <1>3, PTL DEF Spec

=============================================================================
