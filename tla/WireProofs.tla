----------------------------- MODULE WireProofs -----------------------------
(***************************************************************************)
(* Proofs about Wire: the negotiation with a chain of proxies, of any      *)
(* length, with replies that the reads cut anywhere; the frames behind a   *)
(* WebSocket upgrade; the bodies of HTTP/1.1 responses; and the packets of *)
(* the Wisp codec, there and back.                                         *)
(***************************************************************************)
EXTENDS Wire, SequenceTheorems, WellFoundedInduction, TLAPS

(* The bytes of the replies.                                               *)
Byte == STRING \cup
        {"0", "1", "2", "5", "5A", "5B", "noauth", "userpass", "none", "ipv4",
         "ipv6", "domain", "other", "200", "403", "h", "CR", "LF",
         "3", ";", "x", "t"}

LEMMA BytesAre == STRING \subseteq Byte
BY Zenon DEF Byte

(* The reply r is partly in the buffer, and the rest of it on the wire.    *)
Halves(r, n) ==
  /\ r \in Seq(Byte) /\ n \in 0..Len(r)
  /\ buf = SubSeq(r, 1, n) /\ wire = SubSeq(r, n + 1, Len(r))
Cut(r) == \E n : Halves(r, n)

(* What is known of a reply: how long it is, and that one the negotiation  *)
(* takes for a grant comes from a proxy that leads the stream on.          *)
Fits(what, r, led) ==
  CASE what \in {"methods", "auth"} -> Len(r) = 2 /\ ~led
    [] what = "socks4" -> Len(r) = 8 /\ (r[2] = "5A" => led)
    [] what = "socks5" ->
         /\ Len(r) >= 4 /\ (r[2] = "0" => led)
         /\ r[2] = "0" /\ r[4] = "ipv4" => Len(r) = 10
         /\ r[2] = "0" /\ r[4] = "ipv6" => Len(r) = 22
         /\ r[2] = "0" /\ r[4] = "domain" =>
              Len(r) = IF r[5] = "2" THEN 9 ELSE 7
    [] what = "connect" ->
         /\ Len(r) >= 4 /\ (r[1] = "200" => led)
         /\ \A p \in 1..(Len(r) - 4) :
              ~(r[p] = "CR" /\ r[p + 1] = "LF" /\ r[p + 2] = "CR" /\ r[p + 3] = "LF")

Awaits == {"methods", "auth", "socks4", "socks5", "connect"}
Wants(what) ==
  CASE what \in {"methods", "auth"} -> 2 [] what = "socks4" -> 8
    [] what = "socks5" -> 4 [] what = "connect" -> 0

(* Between two negotiations nothing is on the wire and nothing is asked;   *)
(* in one, either the request is with the proxy, which is the end of the   *)
(* stream, or its reply is being read and says how far the stream goes.    *)
Asked ==
  /\ ask.what = at /\ ask.to = hop + 1 /\ far = hop
  /\ buf = <<>> /\ wire = <<>>
Answered ==
  /\ ask.what = "none"
  /\ \E r : /\ Cut(r)
            /\ \/ far = hop /\ Fits(at, r, FALSE)
               \/ far = hop + 1 /\ Fits(at, r, TRUE)

ProxyInv ==
  /\ hop \in Nat /\ (ask.what # "none" => far = hop)
  /\ at \in {"next", "ask", "done"} => ask.what = "none" /\ wire = <<>>
  /\ at = "next" => far = hop + 1
  /\ at = "ask" => far = hop
  /\ at = "done" => far = Target
  /\ at \in Awaits => need = Wants(at) /\ (Asked \/ Answered)
  /\ at = "length" =>
       /\ ask.what = "none" /\ far = hop + 1 /\ need = 1
       /\ \E r : Cut(r) /\ Len(r) = IF r[1] = "2" THEN 5 ELSE 3
  /\ at = "address" =>
       /\ ask.what = "none" /\ far = hop + 1
       /\ \E r : Cut(r) /\ Len(r) = need

Inv == talk.kind = "proxy" => ProxyInv

-----------------------------------------------------------------------------
(* Reading.                                                                *)

LEMMA SplitFurther ==
  ASSUME NEW r \in Seq(Byte), NEW n \in 0..Len(r), NEW m \in 0..(Len(r) - n)
  PROVE  LET w == SubSeq(r, n + 1, Len(r)) IN
         /\ Len(w) = Len(r) - n
         /\ SubSeq(r, 1, n) \o SubSeq(w, 1, m) = SubSeq(r, 1, n + m)
         /\ SubSeq(w, m + 1, Len(w)) = SubSeq(r, n + m + 1, Len(r))
<1>. DEFINE w == SubSeq(r, n + 1, Len(r))
<1>0. Len(r) \in Nat /\ n \in Nat /\ m \in Nat /\ n + m <= Len(r)
  OBVIOUS
<1>1. /\ w \in Seq(Byte) /\ Len(w) = Len(r) - n
      /\ \A k \in 1..(Len(r) - n) : w[k] = r[n + k]
  BY <1>0
<1>. HIDE DEF w
<1>2. PICK a : a = SubSeq(r, 1, n)
  OBVIOUS
<1>3. PICK b : b = SubSeq(w, 1, m)
  OBVIOUS
<1>4. PICK c : c = SubSeq(r, 1, n + m)
  OBVIOUS
<1>5. a \in Seq(Byte) /\ Len(a) = n /\ \A k \in 1..n : a[k] = r[k]
  BY <1>0, <1>2
<1>6. b \in Seq(Byte) /\ Len(b) = m /\ \A k \in 1..m : b[k] = w[k]
  BY <1>0, <1>1, <1>3
<1>7. c \in Seq(Byte) /\ Len(c) = n + m /\ \A k \in 1..(n + m) : c[k] = r[k]
  BY <1>0, <1>4
<1>8. a \o b = c
  <2>1. /\ a \o b \in Seq(Byte) /\ Len(a \o b) = n + m
        /\ \A k \in 1..(n + m) : (a \o b)[k] = IF k <= n THEN a[k] ELSE b[k - n]
    BY <1>0, <1>5, <1>6, ConcatProperties
  <2>2. ASSUME NEW k \in 1..(n + m) PROVE (a \o b)[k] = c[k]
    <3>1. CASE k <= n
      BY <1>0, <1>5, <1>7, <2>1, <3>1
    <3>2. CASE ~(k <= n)
      <4>1. k - n \in 1..m /\ k - n \in 1..(Len(r) - n) /\ n + (k - n) = k
        BY <1>0, <3>2
      <4>2. (a \o b)[k] = b[k - n]
        BY <2>1, <3>2
      <4>. QED  BY <1>1, <1>6, <1>7, <4>1, <4>2
    <3>. QED  BY <3>1, <3>2
  <2>. QED  BY <1>7, <2>1, <2>2, SeqEqual
<1>9. SubSeq(w, m + 1, Len(w)) = SubSeq(r, n + m + 1, Len(r))
  <2>1. PICK d : d = SubSeq(w, m + 1, Len(w))
    OBVIOUS
  <2>2. PICK e : e = SubSeq(r, n + m + 1, Len(r))
    OBVIOUS
  <2>3. PICK j \in Nat : j = Len(r) - n - m
    <3>1. Len(r) - n - m \in Nat
      BY <1>0
    <3>. QED  BY <3>1
  <2>4. /\ d \in Seq(Byte) /\ Len(d) = j
        /\ \A k \in 1..j : d[k] = w[m + k]
    <3>1. /\ d \in Seq(Byte) /\ Len(d) = Len(w) - m
          /\ \A k \in 1..(Len(w) - m) : d[k] = w[m + k]
      BY <1>0, <1>1, <2>1
    <3>2. Len(w) - m = j
      BY <1>0, <1>1, <2>3
    <3>. QED  BY <3>1, <3>2
  <2>5. /\ e \in Seq(Byte) /\ Len(e) = j
        /\ \A k \in 1..j : e[k] = r[n + m + k]
    BY <1>0, <2>2, <2>3, SMTT(30)
  <2>6. ASSUME NEW k \in 1..j PROVE d[k] = e[k]
    <3>1. m + k \in 1..(Len(r) - n) /\ n + (m + k) = n + m + k
      BY <1>0, <2>3
    <3>. QED  BY <1>1, <2>4, <2>5, <3>1
  <2>. QED  BY <2>1, <2>2, <2>4, <2>5, <2>6, SeqEqual
<1>. QED  BY <1>1, <1>2, <1>3, <1>4, <1>8, <1>9 DEF w

(* A read moves bytes of the reply into the buffer, as many as it likes.   *)
LEMMA ReadsMore ==
  ASSUME NEW r, NEW n, Halves(r, n), NEW room \in Nat, NEW b \in Reads(room),
         Took(b), buf' = buf \o b
  PROVE  Cut(r)'
<1>1. /\ r \in Seq(Byte) /\ n \in 0..Len(r) /\ Len(r) \in Nat /\ n \in Nat
      /\ buf = SubSeq(r, 1, n) /\ wire = SubSeq(r, n + 1, Len(r))
  BY DEF Halves
<1>2. Len(wire) = Len(r) - n /\ wire \in Seq(Byte)
  BY <1>1
<1>3. PICK m \in 0..(Len(r) - n) : b = SubSeq(wire, 1, m)
  <2>1. CASE wire = <<>>
    <3>1. b = <<>> /\ Len(wire) = 0
      BY <2>1 DEF Reads
    <3>2. SubSeq(wire, 1, 0) = <<>>
      BY <1>2
    <3>3. 0 \in 0..(Len(r) - n)
      BY <1>1
    <3>. QED  BY <3>1, <3>2, <3>3
  <2>2. CASE wire # <<>>
    <3>1. PICK m \in 1..Least(room, Len(wire)) : b = SubSeq(wire, 1, m)
      BY <2>2 DEF Reads
    <3>2. m \in 0..(Len(r) - n)
      BY <1>1, <1>2, <3>1 DEF Least
    <3>. QED  BY <3>1, <3>2
  <2>. QED  BY <2>1, <2>2
<1>4. Len(b) = m /\ n + m \in 0..Len(r) /\ m \in Nat
  BY <1>1, <1>2, <1>3
<1>5. buf' = SubSeq(r, 1, n + m) /\ wire' = SubSeq(r, n + m + 1, Len(r))
  BY <1>1, <1>3, <1>4, SplitFurther DEF Took, From
<1>6. Halves(r, n + m)'
  BY <1>1, <1>4, <1>5 DEF Halves
<1>. QED  BY <1>6 DEF Cut

LEMMA HalvesAre ==
  ASSUME NEW r, NEW n, Halves(r, n)
  PROVE  /\ Len(r) \in Nat /\ Len(buf) = n /\ n \in 0..Len(r) /\ n \in Nat
         /\ \A k \in 1..n : buf[k] = r[k]
         /\ wire \in Seq(Byte) /\ Len(wire) = Len(r) - n
         /\ \A k \in 1..(Len(r) - n) : wire[k] = r[n + k]
         /\ n = Len(r) => wire = <<>>
<1>1. /\ r \in Seq(Byte) /\ n \in 0..Len(r) /\ Len(r) \in Nat /\ n \in Nat
      /\ buf = SubSeq(r, 1, n) /\ wire = SubSeq(r, n + 1, Len(r))
  BY DEF Halves
<1>2. Len(buf) = n /\ \A k \in 1..n : buf[k] = r[k]
  BY <1>1
<1>3. /\ wire \in Seq(Byte) /\ Len(wire) = Len(r) - n
      /\ \A k \in 1..(Len(r) - n) : wire[k] = r[n + k]
  BY <1>1
<1>4. n = Len(r) => wire = <<>>
  BY <1>1, <1>3
<1>. QED  BY <1>1, <1>2, <1>3, <1>4

-----------------------------------------------------------------------------
(* What the proxies reply.                                                 *)

LEMMA ZerosAre ==
  ASSUME NEW n \in Nat
  PROVE  Zeros(n) \in Seq(Byte) /\ Len(Zeros(n)) = n
<1>1. Zeros(n) \in [1..n -> Byte]
  BY DEF Zeros, Byte
<1>. QED  BY <1>1, SeqDef, LenProperties

Joined(r, a, b) == r = a \o b

LEMMA JoinedAre ==
  ASSUME NEW a \in Seq(Byte), NEW b \in Seq(Byte), NEW r, Joined(r, a, b)
  PROVE  /\ r \in Seq(Byte) /\ Len(r) = Len(a) + Len(b)
         /\ \A k \in 1..(Len(a) + Len(b)) :
              r[k] = IF k <= Len(a) THEN a[k] ELSE b[k - Len(a)]
BY ConcatProperties DEF Joined

(* The head of a reply is where it was, whatever is put behind it.         *)
LEMMA HeadIs ==
  ASSUME NEW h \in Seq(Byte), NEW n \in Nat, NEW r, Joined(r, h, Zeros(n))
  PROVE  /\ r \in Seq(Byte) /\ Len(r) = Len(h) + n
         /\ \A k \in 1..Len(h) : r[k] = h[k]
<1>1. PICK z : z = Zeros(n)
  OBVIOUS
<1>2. z \in Seq(Byte) /\ Len(z) = n /\ Joined(r, h, z)
  BY <1>1, ZerosAre
<1>3. /\ r \in Seq(Byte) /\ Len(r) = Len(h) + Len(z)
      /\ \A k \in 1..(Len(h) + Len(z)) :
           r[k] = IF k <= Len(h) THEN h[k] ELSE z[k - Len(h)]
  BY <1>2, JoinedAre
<1>. QED  BY <1>2, <1>3

LEMMA BlankIs ==
  /\ CrLf \in Seq(Byte) /\ Len(CrLf) = 2 /\ Blank \in Seq(Byte) /\ Len(Blank) = 4
  /\ Blank[1] = "CR" /\ Blank[2] = "LF" /\ Blank[3] = "CR" /\ Blank[4] = "LF"
  /\ CrLf[1] = "CR" /\ CrLf[2] = "LF"
<1>1. /\ CrLf \in Seq(Byte) /\ Len(CrLf) = 2
      /\ CrLf[1] = "CR" /\ CrLf[2] = "LF"
  BY DEF CrLf, Byte
<1>2. /\ Blank \in Seq(Byte) /\ Len(Blank) = Len(CrLf) + Len(CrLf)
      /\ \A k \in 1..(Len(CrLf) + Len(CrLf)) :
           Blank[k] = IF k <= Len(CrLf) THEN CrLf[k] ELSE CrLf[k - Len(CrLf)]
  <2>1. Joined(Blank, CrLf, CrLf)
    BY DEF Joined, Blank
  <2>. QED  BY <1>1, <2>1, JoinedAre
<1>. QED  BY <1>1, <1>2

(* A reply that grants leads the stream on, any other does not; and its    *)
(* length is what the negotiation is going to read.                        *)
LEMMA GrantsFit ==
  ASSUME NEW what, NEW r \in Grants(what)
  PROVE  r \in Seq(Byte) /\ what \in Awaits /\ Fits(what, r, TRUE)
<1>1. CASE what = "socks4"
  <2>1. Joined(r, <<"0", "5A">>, Zeros(6))
    BY <1>1 DEF Grants, Joined
  <2>2. <<"0", "5A">> \in Seq(Byte) /\ Len(<<"0", "5A">>) = 2
    BY DEF Byte
  <2>3. r \in Seq(Byte) /\ Len(r) = 8
    <3>1. PICK h : h = <<"0", "5A">>
      OBVIOUS
    <3>2. h \in Seq(Byte) /\ Len(h) = 2 /\ Joined(r, h, Zeros(6)) /\ 6 \in Nat
      BY <2>1, <2>2, <3>1
    <3>3. r \in Seq(Byte) /\ Len(r) = Len(h) + 6
      BY <3>2, HeadIs, Zenon
    <3>. QED  BY <3>2, <3>3
  <2>. QED  BY <1>1, <2>3 DEF Fits, Awaits
<1>2. CASE what = "socks5"
  <2>1. PICK bound \in Bound : r = <<"5", "0", "0">> \o bound
    BY <1>2 DEF Grants
  <2>3. \/ bound \in Seq(Byte) /\ Len(bound) = 7 /\ bound[1] = "ipv4"
        \/ bound \in Seq(Byte) /\ Len(bound) = 19 /\ bound[1] = "ipv6"
        \/ /\ bound \in Seq(Byte) /\ Len(bound) = 6
           /\ bound[1] = "domain" /\ bound[2] = "2"
        \/ /\ bound \in Seq(Byte) /\ Len(bound) = 4
           /\ bound[1] = "domain" /\ bound[2] = "0"
        \/ bound \in Seq(Byte) /\ Len(bound) = 1 /\ bound[1] = "other"
    <3>1. CASE bound = <<"ipv4">> \o Zeros(6)
      <4>1. PICK h : h = <<"ipv4">>
        OBVIOUS
      <4>2. h \in Seq(Byte) /\ Len(h) = 1 /\ 6 \in Nat /\ Joined(bound, h, Zeros(6))
        BY <3>1, <4>1 DEF Byte, Joined
      <4>3. /\ bound \in Seq(Byte) /\ Len(bound) = Len(h) + 6
            /\ \A k \in 1..Len(h) : bound[k] = h[k]
        BY <4>2, HeadIs, Zenon
      <4>. QED  BY <4>1, <4>2, <4>3
    <3>2. CASE bound = <<"ipv6">> \o Zeros(18)
      <4>1. PICK h : h = <<"ipv6">>
        OBVIOUS
      <4>2. h \in Seq(Byte) /\ Len(h) = 1 /\ 18 \in Nat /\ Joined(bound, h, Zeros(18))
        BY <3>2, <4>1 DEF Byte, Joined
      <4>3. /\ bound \in Seq(Byte) /\ Len(bound) = Len(h) + 18
            /\ \A k \in 1..Len(h) : bound[k] = h[k]
        BY <4>2, HeadIs, Zenon
      <4>. QED  BY <4>1, <4>2, <4>3
    <3>3. CASE bound = <<"domain", "2">> \o Zeros(4)
      <4>1. PICK h : h = <<"domain", "2">>
        OBVIOUS
      <4>2. h \in Seq(Byte) /\ Len(h) = 2 /\ 4 \in Nat /\ Joined(bound, h, Zeros(4))
        BY <3>3, <4>1 DEF Byte, Joined
      <4>3. /\ bound \in Seq(Byte) /\ Len(bound) = Len(h) + 4
            /\ \A k \in 1..Len(h) : bound[k] = h[k]
        BY <4>2, HeadIs, Zenon
      <4>. QED  BY <4>1, <4>2, <4>3
    <3>4. CASE bound = <<"domain", "0">> \o Zeros(2)
      <4>1. PICK h : h = <<"domain", "0">>
        OBVIOUS
      <4>2. h \in Seq(Byte) /\ Len(h) = 2 /\ 2 \in Nat /\ Joined(bound, h, Zeros(2))
        BY <3>4, <4>1 DEF Byte, Joined
      <4>3. /\ bound \in Seq(Byte) /\ Len(bound) = Len(h) + 2
            /\ \A k \in 1..Len(h) : bound[k] = h[k]
        BY <4>2, HeadIs, Zenon
      <4>. QED  BY <4>1, <4>2, <4>3
    <3>5. CASE bound = <<"other">>
      BY <3>5 DEF Byte
    <3>. QED  BY <3>1, <3>2, <3>3, <3>4, <3>5 DEF Bound
  <2>4. <<"5", "0", "0">> \in Seq(Byte) /\ Len(<<"5", "0", "0">>) = 3
    BY DEF Byte
  <2>5. bound \in Seq(Byte) /\ Len(bound) \in Nat /\ Len(bound) >= 1
    BY <2>3
  <2>6. /\ r \in Seq(Byte) /\ Len(r) = 3 + Len(bound)
        /\ \A k \in 1..(3 + Len(bound)) :
             r[k] = IF k <= 3 THEN <<"5", "0", "0">>[k] ELSE bound[k - 3]
    <3>1. PICK h : h = <<"5", "0", "0">>
      OBVIOUS
    <3>2. Joined(r, h, bound) /\ h \in Seq(Byte)
      BY <2>4, <2>1, <3>1 DEF Joined
    <3>3. /\ r \in Seq(Byte) /\ Len(r) = Len(h) + Len(bound)
          /\ \A k \in 1..(Len(h) + Len(bound)) :
               r[k] = IF k <= Len(h) THEN h[k] ELSE bound[k - Len(h)]
      BY <2>5, <3>2, JoinedAre
    <3>. QED  BY <2>4, <3>1, <3>3
  <2>7. r[4] = bound[1] /\ (Len(bound) >= 2 => r[5] = bound[2])
    BY <2>5, <2>6
  <2>8. /\ Len(r) >= 4
        /\ r[4] = "ipv4" => Len(r) = 10
        /\ r[4] = "ipv6" => Len(r) = 22
        /\ r[4] = "domain" => Len(r) = IF r[5] = "2" THEN 9 ELSE 7
    <3>1. Len(bound) \in Nat /\ Len(r) = 3 + Len(bound)
      BY <2>5, <2>6
    <3>2. bound[1] = "domain" => \/ Len(bound) = 6 /\ bound[2] = "2"
                                 \/ Len(bound) = 4 /\ bound[2] = "0"
      BY <2>3
    <3>3. /\ bound[1] = "ipv4" => Len(bound) = 7
          /\ bound[1] = "ipv6" => Len(bound) = 19
      BY <2>3
    <3>4. Len(r) >= 4
      BY <2>5, <3>1
    <3>5. ASSUME r[4] = "domain" PROVE Len(r) = IF r[5] = "2" THEN 9 ELSE 7
      <4>1. bound[1] = "domain" /\ Len(bound) >= 2 /\ r[5] = bound[2]
        BY <2>7, <3>2, <3>5
      <4>2. CASE Len(bound) = 6 /\ bound[2] = "2"
        <5>1. Len(r) = 9
          BY <3>1, <4>2
        <5>. QED  BY <4>1, <4>2, <5>1
      <4>3. CASE Len(bound) = 4 /\ bound[2] = "0"
        <5>1. Len(r) = 7
          BY <3>1, <4>3
        <5>. QED  BY <4>1, <4>3, <5>1
      <4>. QED  BY <3>2, <4>1, <4>2, <4>3
    <3>6. ASSUME r[4] = "ipv4" PROVE Len(r) = 10
      <4>1. Len(bound) = 7
        BY <2>7, <3>3, <3>6
      <4>. QED  BY <3>1, <4>1
    <3>7. ASSUME r[4] = "ipv6" PROVE Len(r) = 22
      <4>1. Len(bound) = 19
        BY <2>7, <3>3, <3>7
      <4>. QED  BY <3>1, <4>1
    <3>. QED  BY <3>4, <3>5, <3>6, <3>7, Zenon
  <2>. QED  BY <1>2, <2>6, <2>8 DEF Fits, Awaits
<1>3. CASE what = "connect"
  <2>1. r = <<"200">> \o CrLf \o <<"h">> \o Blank
    BY <1>3 DEF Grants
  <2>2. /\ <<"200">> \in Seq(Byte) /\ Len(<<"200">>) = 1
        /\ <<"h">> \in Seq(Byte) /\ Len(<<"h">>) = 1
    BY DEF Byte
  <2>5. PICK a : a = <<"200">> \o CrLf
    OBVIOUS
  <2>6. /\ a \in Seq(Byte) /\ Len(a) = 3
        /\ a[1] = "200" /\ a[2] = "CR" /\ a[3] = "LF"
    <3>1. PICK h : h = <<"200">>
      OBVIOUS
    <3>2. Joined(a, h, CrLf) /\ h \in Seq(Byte)
      BY <2>2, <2>5, <3>1 DEF Joined
    <3>3. /\ a \in Seq(Byte) /\ Len(a) = Len(h) + Len(CrLf)
          /\ \A k \in 1..(Len(h) + Len(CrLf)) :
               a[k] = IF k <= Len(h) THEN h[k] ELSE CrLf[k - Len(h)]
      BY <3>2, BlankIs, JoinedAre
    <3>. QED  BY <2>2, BlankIs, <3>1, <3>3
  <2>7. PICK b : b = a \o <<"h">>
    OBVIOUS
  <2>8. /\ b \in Seq(Byte) /\ Len(b) = 4
        /\ b[1] = "200" /\ b[2] = "CR" /\ b[3] = "LF" /\ b[4] = "h"
    <3>1. PICK h : h = <<"h">>
      OBVIOUS
    <3>2. Joined(b, a, h) /\ a \in Seq(Byte) /\ h \in Seq(Byte)
      BY <2>2, <2>6, <2>7, <3>1 DEF Joined
    <3>3. /\ b \in Seq(Byte) /\ Len(b) = Len(a) + Len(h)
          /\ \A k \in 1..(Len(a) + Len(h)) :
               b[k] = IF k <= Len(a) THEN a[k] ELSE h[k - Len(a)]
      BY <3>2, JoinedAre
    <3>. QED  BY <2>2, <2>6, <3>1, <3>3
  <2>3. /\ r \in Seq(Byte) /\ Len(r) = 8
        /\ r[1] = "200" /\ r[2] = "CR" /\ r[3] = "LF" /\ r[4] = "h"
    <3>2. Joined(r, b, Blank)
      BY <2>1, <2>5, <2>7 DEF Joined
    <3>3. /\ r \in Seq(Byte) /\ Len(r) = Len(b) + Len(Blank)
          /\ \A k \in 1..(Len(b) + Len(Blank)) :
               r[k] = IF k <= Len(b) THEN b[k] ELSE Blank[k - Len(b)]
      BY <2>8, BlankIs, <3>2, JoinedAre
    <3>. QED  BY <2>8, BlankIs, <3>3
  <2>4. \A p \in 1..4 : ~(r[p] = "CR" /\ r[p + 1] = "LF" /\ r[p + 2] = "CR")
    BY <2>3
  <2>. QED  BY <1>3, <2>3, <2>4 DEF Fits, Awaits
<1>. QED  BY <1>1, <1>2, <1>3 DEF Grants

LEMMA AnswersFit ==
  ASSUME NEW what \in Awaits, NEW r \in Answers(what)
  PROVE  r \in Seq(Byte) /\ Fits(what, r, FALSE)
<1>1. CASE what = "methods"
  <2>1. PICK m \in {"noauth", "userpass", "none"} : r = <<"5", m>>
    BY <1>1 DEF Answers
  <2>2. m \in Byte /\ "5" \in Byte
    BY <2>1 DEF Byte
  <2>3. r \in Seq(Byte) /\ Len(r) = 2
    BY <2>1, <2>2
  <2>. QED  BY <1>1, <2>3 DEF Fits
<1>2. CASE what = "auth"
  <2>1. r = <<"1", "0">> \/ r = <<"1", "1">>
    BY <1>2 DEF Answers
  <2>2. r \in Seq(Byte) /\ Len(r) = 2
    <3>1. CASE r = <<"1", "0">>
      BY <3>1 DEF Byte
    <3>2. CASE r = <<"1", "1">>
      BY <3>2 DEF Byte
    <3>. QED  BY <2>1, <3>1, <3>2
  <2>. QED  BY <1>2, <2>2 DEF Fits
<1>3. CASE what = "socks4"
  <2>1. Joined(r, <<"0", "5B">>, Zeros(6))
    BY <1>3 DEF Answers, Joined
  <2>2. <<"0", "5B">> \in Seq(Byte) /\ Len(<<"0", "5B">>) = 2
    BY DEF Byte
  <2>3. r \in Seq(Byte) /\ Len(r) = 8 /\ r[2] = "5B"
    <3>1. PICK h : h = <<"0", "5B">>
      OBVIOUS
    <3>2. h \in Seq(Byte) /\ Len(h) = 2 /\ Joined(r, h, Zeros(6)) /\ 6 \in Nat
      BY <2>1, <2>2, <3>1
    <3>3. /\ r \in Seq(Byte) /\ Len(r) = Len(h) + 6
          /\ \A k \in 1..Len(h) : r[k] = h[k]
      BY <3>2, HeadIs, Zenon
    <3>. QED  BY <3>1, <3>2, <3>3
  <2>. QED  BY <1>3, <2>3 DEF Fits
<1>4. CASE what = "socks5"
  <2>1. Joined(r, <<"5", "1", "0", "ipv4">>, Zeros(6))
    BY <1>4 DEF Answers, Joined
  <2>2. /\ <<"5", "1", "0", "ipv4">> \in Seq(Byte)
        /\ Len(<<"5", "1", "0", "ipv4">>) = 4
    BY DEF Byte
  <2>3. r \in Seq(Byte) /\ Len(r) = 10 /\ r[2] = "1"
    <3>1. PICK h : h = <<"5", "1", "0", "ipv4">>
      OBVIOUS
    <3>2. h \in Seq(Byte) /\ Len(h) = 4 /\ Joined(r, h, Zeros(6)) /\ 6 \in Nat
      BY <2>1, <2>2, <3>1
    <3>3. /\ r \in Seq(Byte) /\ Len(r) = Len(h) + 6
          /\ \A k \in 1..Len(h) : r[k] = h[k]
      BY <3>2, HeadIs, Zenon
    <3>. QED  BY <3>1, <3>2, <3>3
  <2>. QED  BY <1>4, <2>3 DEF Fits
<1>5. CASE what = "connect"
  <2>1. r = <<"403">> \o Blank
    BY <1>5 DEF Answers
  <2>2. <<"403">> \in Seq(Byte) /\ Len(<<"403">>) = 1
    BY DEF Byte
  <2>3. r \in Seq(Byte) /\ Len(r) = 5 /\ r[1] = "403"
    <3>1. PICK h : h = <<"403">>
      OBVIOUS
    <3>2. Joined(r, h, Blank) /\ h \in Seq(Byte)
      BY <2>1, <2>2, <3>1 DEF Joined
    <3>3. /\ r \in Seq(Byte) /\ Len(r) = Len(h) + Len(Blank)
          /\ \A k \in 1..(Len(h) + Len(Blank)) :
               r[k] = IF k <= Len(h) THEN h[k] ELSE Blank[k - Len(h)]
      BY <3>2, BlankIs, JoinedAre
    <3>. QED  BY <2>2, BlankIs, <3>1, <3>3
  <2>. QED  BY <1>5, <2>3 DEF Fits
<1>. QED  BY <1>1, <1>2, <1>3, <1>4, <1>5 DEF Awaits

-----------------------------------------------------------------------------
(* The steps.                                                              *)

LEMMA ReplyIs ==
  ASSUME Answered
  PROVE  \E r, n : /\ Halves(r, n)
                   /\ \/ far = hop /\ Fits(at, r, FALSE)
                      \/ far = hop + 1 /\ Fits(at, r, TRUE)
<1>1. PICK r : /\ Cut(r)
               /\ \/ far = hop /\ Fits(at, r, FALSE)
                  \/ far = hop + 1 /\ Fits(at, r, TRUE)
  BY DEF Answered
<1>2. PICK n : Halves(r, n)
  BY <1>1 DEF Cut
<1>. QED  BY <1>1, <1>2

LEMMA Failing ==
  ASSUME ProxyInv, ProxyFails
  PROVE  ProxyInv'
BY DEF ProxyInv, ProxyFails, Fail, proxyVars, Awaits

LEMMA Requesting ==
  ASSUME ProxyInv, NEW what \in Awaits, Request(what, Wants(what)),
         wire = <<>>, far = hop
  PROVE  ProxyInv'
<1>1. /\ at' = what /\ need' = Wants(what) /\ buf' = <<>>
      /\ ask' = [what |-> what, to |-> hop + 1]
      /\ UNCHANGED <<wire, hop, far>>
  BY DEF Request, Goto, NextAddress
<1>2. Asked'
  BY <1>1 DEF Asked
<1>. QED  BY <1>1, <1>2 DEF ProxyInv, Awaits

LEMMA Granting ==
  ASSUME ProxyInv, Granted, wire = <<>>, ask.what = "none", far = hop + 1
  PROVE  ProxyInv'
BY DEF ProxyInv, Granted, Goto, proxyVars, Awaits

LEMMA Skips ==
  ASSUME ProxyInv, NEW n, ask.what = "none", far = hop + 1, wire \in Seq(Byte),
         \/ Skipping("address", n) /\ Len(wire) = n
         \/ /\ Skipping("length", n) /\ n = 1
            /\ Len(wire) = IF wire[1] = "2" THEN 5 ELSE 3
  PROVE  ProxyInv'
<1>1. /\ need' = n /\ buf' = <<>> /\ UNCHANGED <<wire, hop, ask, far>>
      /\ at' \in {"address", "length"}
  BY DEF Skipping, Goto, proxyVars
<1>2. PICK w : w = wire
  OBVIOUS
<1>3. /\ w \in Seq(Byte) /\ 0 \in 0..Len(w) /\ SubSeq(w, 1, 0) = <<>>
      /\ SubSeq(w, 0 + 1, Len(w)) = w
  BY <1>2
<1>4. Halves(w, 0)'
  BY <1>1, <1>2, <1>3 DEF Halves
<1>5. Cut(w)'
  BY <1>4 DEF Cut
<1>6. at' = "address" => Len(w) = need'
  BY <1>1, <1>2 DEF Skipping, Goto
<1>7. at' = "length" => need' = 1 /\ Len(w) = IF w[1] = "2" THEN 5 ELSE 3
  BY <1>1, <1>2 DEF Skipping, Goto
<1>. QED  BY <1>1, <1>5, <1>6, <1>7 DEF ProxyInv, Awaits

LEMMA NextHopStep ==
  ASSUME ProxyInv, NextHop
  PROVE  ProxyInv'
BY DEF ProxyInv, NextHop, Goto, Target, Awaits

LEMMA AskStep ==
  ASSUME ProxyInv, Ask
  PROVE  ProxyInv'
<1>1. wire = <<>> /\ far = hop
  BY DEF ProxyInv, Ask
<1>2. \/ ProxyFails \/ Request("methods", 2)
      \/ Request("connect", 0) \/ Request("socks4", 8)
  BY DEF Ask
<1>3. /\ Wants("methods") = 2 /\ Wants("connect") = 0 /\ Wants("socks4") = 8
      /\ {"methods", "connect", "socks4"} \subseteq Awaits
  BY DEF Wants, Awaits
<1>. QED  BY <1>1, <1>2, <1>3, Failing, Requesting

(* A reply to the first two requests of SOCKS5 that has been read whole.   *)
LEMMA Whole ==
  ASSUME ProxyInv, at \in {"methods", "auth"}, Len(buf) = need
  PROVE  wire = <<>> /\ far = hop
<1>1. need = 2 /\ (Asked \/ Answered)
  BY DEF ProxyInv, Awaits, Wants
<1>2. CASE Asked
  BY <1>2 DEF Asked
<1>3. CASE Answered
  <2>1. PICK r, n : /\ Halves(r, n)
                    /\ \/ far = hop /\ Fits(at, r, FALSE)
                       \/ far = hop + 1 /\ Fits(at, r, TRUE)
    BY <1>3, ReplyIs
  <2>2. Len(r) = 2 /\ far = hop
    BY <2>1 DEF Fits
  <2>. QED  BY <1>1, <2>1, <2>2, HalvesAre
<1>. QED  BY <1>1, <1>2, <1>3

LEMMA SocksStep ==
  ASSUME ProxyInv, Methods \/ Auth
  PROVE  ProxyInv'
<1>1. wire = <<>> /\ far = hop
  BY Whole DEF Methods, Auth
<1>2. ProxyFails \/ Request("auth", 2) \/ Request("socks5", 4)
  BY DEF Methods, Auth, Socks5Connect
<1>3. Wants("auth") = 2 /\ Wants("socks5") = 4 /\ {"auth", "socks5"} \subseteq Awaits
  BY DEF Wants, Awaits
<1>. QED  BY <1>1, <1>2, <1>3, Failing, Requesting

LEMMA Socks5Step ==
  ASSUME ProxyInv, Socks5
  PROVE  ProxyInv'
<1>1. at = "socks5" /\ Len(buf) = 4 /\ (Asked \/ Answered)
  BY DEF ProxyInv, Awaits, Wants, Socks5
<1>2. CASE ProxyFails
  BY <1>2, Failing
<1>3. CASE ~ProxyFails
  <2>1. /\ buf[2] = "0"
        /\ \/ buf[4] \in {"ipv4", "ipv6"} /\ Skipping("address", Skip(buf[4]))
           \/ buf[4] = "domain" /\ Skipping("length", 1)
    BY <1>3 DEF Socks5
  <2>2. Answered
    BY <1>1 DEF Asked
  <2>3. PICK r, n : /\ Halves(r, n)
                    /\ \/ far = hop /\ Fits(at, r, FALSE)
                       \/ far = hop + 1 /\ Fits(at, r, TRUE)
    BY <2>2, ReplyIs
  <2>4. /\ n = 4 /\ Len(r) \in Nat /\ buf[2] = r[2] /\ buf[4] = r[4]
        /\ wire \in Seq(Byte) /\ Len(wire) = Len(r) - 4
        /\ Len(r) >= 5 => wire[1] = r[5]
    <3>1. /\ Len(r) \in Nat /\ Len(buf) = n /\ n \in 0..Len(r) /\ n \in Nat
          /\ \A k \in 1..n : buf[k] = r[k]
          /\ wire \in Seq(Byte) /\ Len(wire) = Len(r) - n
          /\ \A k \in 1..(Len(r) - n) : wire[k] = r[n + k]
      BY <2>3, HalvesAre
    <3>2. n = 4
      BY <1>1, <3>1
    <3>3. Len(r) >= 5 => wire[1] = r[5]
      BY <3>1, <3>2
    <3>4. buf[2] = r[2] /\ buf[4] = r[4]
      BY <3>1, <3>2
    <3>. QED  BY <3>1, <3>2, <3>3, <3>4
  <2>5. far = hop + 1 /\ Fits("socks5", r, TRUE)
    BY <1>1, <2>1, <2>3, <2>4 DEF Fits
  <2>6. ask.what = "none"
    BY <2>2 DEF Answered
  <2>7. CASE buf[4] \in {"ipv4", "ipv6"} /\ Skipping("address", Skip(buf[4]))
    <3>1. Len(wire) = Skip(buf[4])
      <4>1. CASE buf[4] = "ipv4"
        BY <2>1, <2>4, <2>5, <4>1 DEF Fits, Skip
      <4>2. CASE buf[4] = "ipv6"
        BY <2>1, <2>4, <2>5, <4>2 DEF Fits, Skip
      <4>. QED  BY <2>7, <4>1, <4>2
    <3>. QED  BY <2>4, <2>5, <2>6, <2>7, <3>1, Skips
  <2>8. CASE buf[4] = "domain" /\ Skipping("length", 1)
    <3>1. Len(r) = IF r[5] = "2" THEN 9 ELSE 7
      BY <2>1, <2>4, <2>5, <2>8 DEF Fits
    <3>2. Len(wire) = IF wire[1] = "2" THEN 5 ELSE 3
      BY <2>4, <3>1
    <3>. QED  BY <2>4, <2>5, <2>6, <2>8, <3>2, Skips
  <2>. QED  BY <2>1, <2>7, <2>8
<1>. QED  BY <1>2, <1>3

LEMMA LengthStep ==
  ASSUME ProxyInv, Length
  PROVE  ProxyInv'
<1>1. /\ Len(buf) = 1 /\ ask.what = "none" /\ far = hop + 1
      /\ Skipping("address", IF buf[1] = "2" THEN 2 + 2 ELSE 2)
  BY DEF ProxyInv, Length
<1>2. PICK r, n : Halves(r, n) /\ Len(r) = IF r[1] = "2" THEN 5 ELSE 3
  BY DEF ProxyInv, Length, Cut
<1>3. /\ n = 1 /\ Len(r) \in Nat /\ buf[1] = r[1]
      /\ wire \in Seq(Byte) /\ Len(wire) = Len(r) - 1
  <2>1. /\ Len(r) \in Nat /\ Len(buf) = n /\ n \in 0..Len(r) /\ n \in Nat
        /\ \A k \in 1..n : buf[k] = r[k]
        /\ wire \in Seq(Byte) /\ Len(wire) = Len(r) - n
    <3>1. Halves(r, n)
      BY <1>2
    <3>. QED  BY <3>1, HalvesAre
  <2>2. Len(buf) = 1
    BY <1>1
  <2>3. n = 1 /\ 1 \in 1..n
    BY <2>1, <2>2
  <2>. QED  BY <2>1, <2>3
<1>4. Len(wire) = IF buf[1] = "2" THEN 2 + 2 ELSE 2
  BY <1>2, <1>3
<1>. QED  BY <1>1, <1>3, <1>4, Skips

LEMMA AddressStep ==
  ASSUME ProxyInv, Address
  PROVE  ProxyInv'
<1>1. ask.what = "none" /\ far = hop + 1 /\ Granted /\ Len(buf) = need
  BY DEF ProxyInv, Address
<1>2. PICK r, n : Halves(r, n) /\ Len(r) = need
  BY DEF ProxyInv, Address, Cut
<1>3. wire = <<>>
  <2>1. Len(buf) = n /\ (n = Len(r) => wire = <<>>)
    BY <1>2, HalvesAre
  <2>. QED  BY <1>1, <1>2, <2>1
<1>. QED  BY <1>1, <1>3, Granting

LEMMA Socks4Step ==
  ASSUME ProxyInv, Socks4
  PROVE  ProxyInv'
<1>1. at = "socks4" /\ Len(buf) = 8 /\ (Asked \/ Answered)
  BY DEF ProxyInv, Awaits, Wants, Socks4
<1>2. CASE ProxyFails
  BY <1>2, Failing
<1>3. CASE buf[2] = "5A" /\ Granted
  <2>1. Answered
    BY <1>1 DEF Asked
  <2>2. PICK r, n : /\ Halves(r, n)
                    /\ \/ far = hop /\ Fits(at, r, FALSE)
                       \/ far = hop + 1 /\ Fits(at, r, TRUE)
    BY <2>1, ReplyIs
  <2>3. Len(r) = 8
    BY <1>1, <2>2 DEF Fits
  <2>4. wire = <<>> /\ buf[2] = r[2]
    <3>1. /\ Len(buf) = n /\ (n = Len(r) => wire = <<>>)
          /\ \A k \in 1..n : buf[k] = r[k]
      BY <2>2, HalvesAre
    <3>. QED  BY <1>1, <2>3, <3>1, SMTT(30)
  <2>5. far = hop + 1
    BY <1>1, <1>3, <2>2, <2>4 DEF Fits
  <2>. QED  BY <1>3, <2>1, <2>4, <2>5, Granting DEF Answered
<1>. QED  BY <1>2, <1>3 DEF Socks4

(* The blank line of a reply is its end: when it has been read, all has.   *)
LEMMA BlankIsEnd ==
  ASSUME NEW r, NEW n, Halves(r, n), Len(r) >= 4, Find(buf, Blank) # 0,
         \A p \in 1..(Len(r) - 4) :
           ~(r[p] = "CR" /\ r[p + 1] = "LF" /\ r[p + 2] = "CR" /\ r[p + 3] = "LF")
  PROVE  wire = <<>> /\ n = Len(r)
<1>1. /\ Len(r) \in Nat /\ Len(buf) = n /\ n \in 0..Len(r) /\ n \in Nat
      /\ \A k \in 1..n : buf[k] = r[k]
      /\ n = Len(r) => wire = <<>>
  BY HalvesAre
<1>2. buf \in Seq(Byte)
  BY DEF Halves
<1>3. Len(Blank) = 4
  BY BlankIs
<1>4. PICK p \in 1..(n - 4 + 1) : SubSeq(buf, p, p + 4 - 1) = Blank
  BY <1>1, <1>3, ZenonT(60) DEF Find
<1>5. PICK s : s = SubSeq(buf, p, p + 3)
  OBVIOUS
<1>6. s = Blank /\ p \in Nat /\ p >= 1 /\ p + 3 <= n
  BY <1>1, <1>4, <1>5
<1>7. s[1] = buf[p] /\ s[2] = buf[p + 1] /\ s[3] = buf[p + 2] /\ s[4] = buf[p + 3]
  BY <1>1, <1>2, <1>5, <1>6
<1>8. r[p] = "CR" /\ r[p + 1] = "LF" /\ r[p + 2] = "CR" /\ r[p + 3] = "LF"
  BY <1>1, <1>6, <1>7, BlankIs
<1>9. ~(p \in 1..(Len(r) - 4))
  BY <1>8
<1>. QED  BY <1>1, <1>6, <1>9

LEMMA ConnectStep ==
  ASSUME ProxyInv, Connect
  PROVE  ProxyInv'
<1>1. at = "connect" /\ (Asked \/ Answered) /\ Find(buf, Blank) # 0
  BY DEF ProxyInv, Awaits, Connect
<1>2. CASE ProxyFails
  BY <1>2, Failing
<1>3. CASE buf[1] = "200" /\ Granted
  <2>1. Answered
    <3>1. ASSUME buf = <<>> PROVE FALSE
      <4>1. Len(buf) - Len(Blank) + 1 = -3
        BY <3>1, BlankIs
      <4>2. 1..(Len(buf) - Len(Blank) + 1) = {}
        BY <4>1
      <4>. QED  BY <1>1, <4>2 DEF Find
    <3>. QED  BY <1>1, <3>1 DEF Asked
  <2>2. PICK r, n : /\ Halves(r, n)
                    /\ \/ far = hop /\ Fits(at, r, FALSE)
                       \/ far = hop + 1 /\ Fits(at, r, TRUE)
    BY <2>1, ReplyIs
  <2>3. /\ Len(r) >= 4
        /\ \A p \in 1..(Len(r) - 4) :
             ~(r[p] = "CR" /\ r[p + 1] = "LF" /\ r[p + 2] = "CR" /\ r[p + 3] = "LF")
    BY <1>1, <2>2 DEF Fits
  <2>4. wire = <<>> /\ n = Len(r)
    BY <1>1, <2>2, <2>3, BlankIsEnd
  <2>5. buf[1] = r[1]
    BY <2>2, <2>3, <2>4, HalvesAre
  <2>6. far = hop + 1
    BY <1>1, <1>3, <2>2, <2>5 DEF Fits
  <2>. QED  BY <1>3, <2>1, <2>4, <2>6, Granting DEF Answered
<1>. QED  BY <1>2, <1>3 DEF Connect

(* The reads.                                                              *)
LEMMA ReadStep ==
  ASSUME ProxyInv, ProxyReads
  PROVE  ProxyInv'
<1>1. /\ UNCHANGED <<hop, ask, far, need>>
      /\ at' \in {at, "failed"}
      /\ at \in Awaits \cup {"length", "address"}
  BY DEF ProxyReads, ReadExact, ReadHead, Goto, proxyVars, Awaits
<1>2. CASE at' = "failed"
  BY <1>1, <1>2 DEF ProxyInv, Awaits
<1>3. ASSUME at' = at PROVE ProxyInv'
  <2>1. at # "failed"
    BY <1>1 DEF Awaits
  <2>2. \E room, b : /\ \/ room = ProxyRoom
                        \/ room = need - Len(buf) /\ Len(buf) < need
                     /\ b \in Reads(room) /\ b # <<>>
                     /\ Took(b) /\ buf' = buf \o b
    <3>1. CASE ReadExact
      BY <1>3, <2>1, <3>1 DEF ReadExact, Goto
    <3>2. CASE ReadHead(ProxyRoom, MaxReply)
      <4>1. PICK b \in Reads(ProxyRoom) :
              /\ Took(b) /\ buf' = buf \o b
              /\ at' = IF b = <<>> \/ TooLong(buf \o b, MaxReply) THEN "failed" ELSE at
        BY <3>2 DEF ReadHead, Goto
      <4>2. b # <<>>
        BY <1>3, <2>1, <4>1
      <4>. QED  BY <4>1, <4>2
    <3>. QED  BY <3>1, <3>2 DEF ProxyReads
  <2>3. PICK room, b : /\ \/ room = ProxyRoom
                          \/ room = need - Len(buf) /\ Len(buf) < need
                       /\ b \in Reads(room) /\ b # <<>>
                       /\ Took(b) /\ buf' = buf \o b
    BY <2>2
  <2>4. ASSUME NEW r, Cut(r), need \in Nat PROVE Cut(r)'
    <3>1. PICK n : Halves(r, n)
      BY <2>4 DEF Cut
    <3>2. Len(buf) \in Nat
      BY <3>1, HalvesAre
    <3>3. room \in Nat
      BY <2>3, <2>4, <3>2, RoomAssumption
    <3>. QED  BY <2>3, <3>1, <3>3, ReadsMore, Zenon
  <2>5. ~Asked
    BY <2>3 DEF Asked, Reads
  <2>6. CASE at \in Awaits
    <3>1. need = Wants(at) /\ need \in Nat /\ Answered
      BY <2>5, <2>6 DEF ProxyInv, Wants, Awaits
    <3>2. PICK r : /\ Cut(r)
                   /\ \/ far = hop /\ Fits(at, r, FALSE)
                      \/ far = hop + 1 /\ Fits(at, r, TRUE)
      BY <3>1 DEF Answered
    <3>3. Cut(r)'
      BY <2>4, <3>1, <3>2
    <3>4. Answered'
      <4>1. ask'.what = "none"
        BY <1>1, <3>1 DEF Answered
      <4>2. far' = far /\ hop' = hop /\ at' = at
        BY <1>1, <1>3
      <4>. QED  BY <3>2, <3>3, <4>1, <4>2 DEF Answered
    <3>. QED  BY <1>1, <1>3, <2>6, <3>1, <3>4 DEF ProxyInv, Awaits
  <2>7. CASE at = "length"
    <3>1. PICK r : Cut(r) /\ Len(r) = IF r[1] = "2" THEN 5 ELSE 3
      BY <2>7 DEF ProxyInv
    <3>2. Cut(r)' /\ need = 1 /\ ask.what = "none" /\ far = hop + 1
      BY <2>4, <2>7, <3>1 DEF ProxyInv
    <3>. QED  BY <1>1, <1>3, <2>7, <3>1, <3>2 DEF ProxyInv, Awaits
  <2>8. CASE at = "address"
    <3>1. PICK r : Cut(r) /\ Len(r) = need
      BY <2>8 DEF ProxyInv
    <3>2. need \in Nat
      BY <3>1, HalvesAre DEF Cut
    <3>3. Cut(r)' /\ ask.what = "none" /\ far = hop + 1
      BY <2>4, <2>8, <3>1, <3>2 DEF ProxyInv
    <3>. QED  BY <1>1, <1>3, <2>8, <3>1, <3>3 DEF ProxyInv, Awaits
  <2>. QED  BY <1>1, <2>6, <2>7, <2>8
<1>. QED  BY <1>1, <1>2, <1>3

LEMMA AnswerStep ==
  ASSUME ProxyInv, Answer
  PROVE  ProxyInv'
<1>1. /\ ask.what # "none" /\ ask'.what = "none"
      /\ UNCHANGED <<at, buf, need, hop>>
  BY DEF Answer
<1>2. at \notin {"next", "ask", "done", "length", "address"}
  BY <1>1 DEF ProxyInv
<1>3. CASE at \in Awaits
  <2>1. Asked /\ need = Wants(at)
    BY <1>1, <1>3 DEF ProxyInv, Answered
  <2>2. \E r : /\ r \in Seq(Byte) /\ wire' = wire \o r
               /\ \/ far' = hop /\ Fits(at, r, FALSE)
                  \/ far' = hop + 1 /\ Fits(at, r, TRUE)
    <3>1. CASE \E r \in Grants(ask.what) : wire' = wire \o r /\ far' = ask.to
      BY <2>1, <3>1, GrantsFit DEF Asked
    <3>2. CASE \E r \in Answers(ask.what) : wire' = wire \o r /\ UNCHANGED far
      BY <1>3, <2>1, <3>2, AnswersFit DEF Asked
    <3>. QED  BY <3>1, <3>2 DEF Answer
  <2>3. PICK r : /\ r \in Seq(Byte) /\ wire' = wire \o r
                 /\ \/ far' = hop /\ Fits(at, r, FALSE)
                    \/ far' = hop + 1 /\ Fits(at, r, TRUE)
    BY <2>2
  <2>4. wire' = r /\ buf' = <<>>
    BY <1>1, <2>1, <2>3 DEF Asked
  <2>5. /\ 0 \in 0..Len(r) /\ SubSeq(r, 1, 0) = <<>>
        /\ SubSeq(r, 0 + 1, Len(r)) = r
    BY <2>3
  <2>6. Halves(r, 0)'
    BY <2>3, <2>4, <2>5 DEF Halves
  <2>7. Answered'
    <3>1. Cut(r)'
      BY <2>6 DEF Cut
    <3>. QED  BY <1>1, <2>3, <3>1 DEF Answered
  <2>. QED  BY <1>1, <1>2, <2>1, <2>7 DEF ProxyInv
<1>4. CASE at \notin Awaits
  BY <1>1, <1>2, <1>4 DEF ProxyInv
<1>. QED  BY <1>3, <1>4

LEMMA HangsUpStep ==
  ASSUME ProxyInv, ProxyHangsUp
  PROVE  ProxyInv'
BY DEF ProxyInv, ProxyHangsUp, proxyVars, Asked, Answered, Cut, Halves, Target

-----------------------------------------------------------------------------
(* Induction over data: every non-empty set of numbers has a least one.    *)
Below == {p \in Nat \X Nat : p[1] < p[2]}

LEMMA LeastNumber ==
  ASSUME NEW T \in SUBSET Nat, T # {}
  PROVE  \E n \in T : \A m \in 0..(n - 1) : m \notin T
<1>1. OpToRel(<, Nat) = Below
  BY DEF OpToRel, Below
<1>2. IsWellFoundedOn(Below, Nat)
  BY <1>1, NatLessThanWellFounded
<1>3. PICK n \in T : \A m \in T : ~(<<m, n>> \in Below)
  BY <1>2, WFMin
<1>4. ASSUME NEW m \in 0..(n - 1), m \in T PROVE FALSE
  <2>1. m \in Nat /\ n \in Nat /\ m < n
    BY <1>4
  <2>2. <<m, n>> \in Below
    BY <2>1 DEF Below
  <2>. QED  BY <1>3, <1>4, <2>2
<1>. QED  BY <1>4

(* The function by which FlattenSeq is defined exists: it joins the        *)
(* sequences one after the other.                                          *)
Joins(g, ss, n) == g = [i \in 1..n |-> IF i = 1 THEN ss[i] ELSE g[i - 1] \o ss[i]]

LEMMA JoinsExist ==
  ASSUME NEW ss, NEW n \in Nat
  PROVE  \E g : Joins(g, ss, n)
<1>. DEFINE T == {m \in Nat : ~(\E g : Joins(g, ss, m))}
<1>1. ASSUME T # {} PROVE FALSE
  <2>1. PICK m \in T : \A k \in 0..(m - 1) : k \notin T
    BY <1>1, LeastNumber
  <2>2. m \in Nat /\ ~(\E g : Joins(g, ss, m))
    OBVIOUS
  <2>3. CASE m = 0
    <3>1. PICK g : g = [i \in 1..0 |-> ss]
      OBVIOUS
    <3>2. g = [i \in 1..0 |-> IF i = 1 THEN ss[i] ELSE g[i - 1] \o ss[i]]
      BY <3>1
    <3>. QED  BY <2>2, <2>3, <3>2 DEF Joins
  <2>4. CASE m > 0
    <3>1. m - 1 \in 0..(m - 1) /\ m - 1 \in Nat
      BY <2>2, <2>4
    <3>2. PICK g : Joins(g, ss, m - 1)
      BY <2>1, <3>1
    <3>3. PICK h : h = [i \in 1..m |-> IF i = m THEN IF m = 1 THEN ss[i] ELSE g[i - 1] \o ss[i]
                                       ELSE g[i]]
      OBVIOUS
    <3>4. ASSUME NEW i \in 1..m
          PROVE  h[i] = IF i = 1 THEN ss[i] ELSE h[i - 1] \o ss[i]
      <4>1. CASE i = m
        <5>1. m # 1 => m - 1 \in 1..m /\ m - 1 # m
          BY <2>2, <2>4
        <5>2. m # 1 => h[m - 1] = g[m - 1]
          BY <3>3, <5>1
        <5>. QED  BY <3>3, <4>1, <5>2
      <4>2. CASE i # m
        <5>1. i \in 1..(m - 1) /\ (i # 1 => i - 1 \in 1..m /\ i - 1 # m)
          BY <2>2, <4>2
        <5>2. h[i] = g[i] /\ (i # 1 => h[i - 1] = g[i - 1])
          BY <3>3, <4>2, <5>1
        <5>3. g[i] = IF i = 1 THEN ss[i] ELSE g[i - 1] \o ss[i]
          BY <3>2, <5>1 DEF Joins
        <5>. QED  BY <5>2, <5>3
      <4>. QED  BY <4>1, <4>2
    <3>5. h = [i \in 1..m |-> IF i = 1 THEN ss[i] ELSE h[i - 1] \o ss[i]]
      BY <3>3, <3>4, ZenonT(60)
    <3>. QED  BY <2>2, <3>5 DEF Joins
  <2>. QED  BY <2>2, <2>3, <2>4
<1>. QED  BY <1>1

LEMMA FlattenIs ==
  ASSUME NEW ss, Len(ss) \in Nat, Len(ss) # 0
  PROVE  \E g : Joins(g, ss, Len(ss)) /\ FlattenSeq(ss) = g[Len(ss)]
<1>. DEFINE flatten == CHOOSE g : g = [i \in 1..Len(ss) |->
                         IF i = 1 THEN ss[i] ELSE g[i - 1] \o ss[i]]
<1>1. \E g : g = [i \in 1..Len(ss) |-> IF i = 1 THEN ss[i] ELSE g[i - 1] \o ss[i]]
  BY JoinsExist DEF Joins
<1>2. flatten = [i \in 1..Len(ss) |-> IF i = 1 THEN ss[i] ELSE flatten[i - 1] \o ss[i]]
  BY <1>1
<1>3. FlattenSeq(ss) = flatten[Len(ss)]
  BY DEF FlattenSeq
<1>. QED  BY <1>2, <1>3 DEF Joins

-----------------------------------------------------------------------------
(* A head so far: it ends with a line, and holds no blank one.             *)
Ended(x) ==
  /\ x \in Seq(Byte) /\ Len(x) >= 2 /\ x[Len(x) - 1] = "CR" /\ x[Len(x)] = "LF"
  /\ \A p \in 1..(Len(x) - 2) : ~(x[p] = "CR" /\ x[p + 2] = "CR")

Line(l) == l \in Seq(Byte) /\ l # <<>> /\ \A k \in 1..Len(l) : l[k] # "CR"

(* A line with its end.                                                    *)
FullLine(m) == Ended(m) /\ Len(m) >= 3 /\ \A k \in 1..(Len(m) - 2) : m[k] # "CR"

LEMMA LineEnds ==
  ASSUME NEW l, Line(l), NEW m, Joined(m, l, CrLf)
  PROVE  FullLine(m)
<1>1. /\ m \in Seq(Byte) /\ Len(m) = Len(l) + Len(CrLf)
      /\ \A k \in 1..(Len(l) + Len(CrLf)) :
           m[k] = IF k <= Len(l) THEN l[k] ELSE CrLf[k - Len(l)]
  BY BlankIs, JoinedAre, Zenon DEF Line
<1>2. Len(l) \in Nat /\ Len(l) >= 1 /\ \A k \in 1..Len(l) : l[k] # "CR"
  BY DEF Line
<1>3. PICK n \in Nat : n = Len(l) /\ n >= 1
  BY <1>2
<1>4. Len(CrLf) = 2
  BY BlankIs
<1>5. /\ Len(m) = n + 2
      /\ \A k \in 1..n : m[k] = l[k]
      /\ m[n + 1] = CrLf[(n + 1) - n] /\ m[n + 2] = CrLf[(n + 2) - n]
  BY <1>1, <1>3, <1>4
<1>6. m[n + 1] = "CR" /\ m[n + 2] = "LF"
  <2>1. (n + 1) - n = 1 /\ (n + 2) - n = 2
    BY <1>3
  <2>. QED  BY <1>5, <2>1, BlankIs
<1>7. \A k \in 1..n : m[k] # "CR"
  BY <1>2, <1>3, <1>5
<1>8. /\ Len(m) >= 2 /\ Len(m) >= 3 /\ Len(m) - 1 = n + 1 /\ Len(m) - 2 = n
  BY <1>3, <1>5
<1>. QED  BY <1>1, <1>5, <1>6, <1>7, <1>8 DEF Ended, FullLine

LEMMA LineFollows ==
  ASSUME NEW x, Ended(x), NEW m, FullLine(m), NEW y, Joined(y, x, m)
  PROVE  Ended(y)
<1>1. /\ y \in Seq(Byte) /\ Len(y) = Len(x) + Len(m)
      /\ \A k \in 1..(Len(x) + Len(m)) :
           y[k] = IF k <= Len(x) THEN x[k] ELSE m[k - Len(x)]
  <2>1. x \in Seq(Byte) /\ m \in Seq(Byte)
    BY DEF Ended, FullLine
  <2>. QED  BY <2>1, JoinedAre
<1>2. /\ Len(x) \in Nat /\ Len(x) >= 2 /\ Len(m) \in Nat
      /\ x[Len(x)] = "LF" /\ m[Len(m) - 1] = "CR" /\ m[Len(m)] = "LF"
      /\ \A p \in 1..(Len(x) - 2) : ~(x[p] = "CR" /\ x[p + 2] = "CR")
      /\ Len(m) >= 3 /\ \A k \in 1..(Len(m) - 2) : m[k] # "CR"
  BY DEF Ended, FullLine
<1>3. PICK a \in Nat, b \in Nat : a = Len(x) /\ b = Len(m)
  BY <1>2
<1>4. /\ Len(y) = a + b
      /\ \A k \in 1..a : y[k] = x[k]
      /\ \A k \in (a + 1)..(a + b) : y[k] = m[k - a]
  BY <1>1, <1>3
<1>5. y[a + b - 1] = "CR" /\ y[a + b] = "LF"
  <2>1. /\ a + b - 1 \in (a + 1)..(a + b) /\ a + b \in (a + 1)..(a + b)
        /\ (a + b - 1) - a = b - 1 /\ (a + b) - a = b
    BY <1>2, <1>3
  <2>2. y[a + b - 1] = m[(a + b - 1) - a] /\ y[a + b] = m[(a + b) - a]
    BY <1>4, <2>1
  <2>. QED  BY <1>2, <1>3, <2>1, <2>2
<1>6. ASSUME NEW p \in 1..(a + b - 2), y[p] = "CR", y[p + 2] = "CR" PROVE FALSE
  <2>1. CASE p + 2 <= a
    <3>1. p \in 1..a /\ p + 2 \in 1..a /\ p \in 1..(a - 2)
      BY <2>1
    <3>. QED  BY <1>2, <1>3, <1>4, <1>6, <3>1
  <2>2. CASE p + 2 > a
    <3>1. p + 2 \in (a + 1)..(a + b) /\ (p + 2) - a \in 1..b
      BY <2>2
    <3>2. m[(p + 2) - a] = "CR"
      BY <1>4, <1>6, <3>1
    <3>3. (p + 2) - a \notin 1..(b - 2) /\ (p + 2) - a # b
      BY <1>2, <1>3, <3>2
    <3>4. p = (a + b) - 3
      BY <3>1, <3>3
    <3>5. CASE b = 3
      <4>1. p = a /\ a \in 1..a
        BY <1>2, <1>3, <3>4, <3>5
      <4>. QED  BY <1>2, <1>3, <1>4, <1>6, <4>1
    <3>6. CASE b > 3
      <4>1. p \in (a + 1)..(a + b) /\ p - a \in 1..(b - 2)
        BY <3>4, <3>6
      <4>2. m[p - a] = "CR"
        BY <1>4, <1>6, <4>1
      <4>. QED  BY <1>2, <1>3, <4>1, <4>2
    <3>. QED  BY <1>2, <1>3, <3>5, <3>6
  <2>. QED  BY <1>3, <2>1, <2>2
<1>. QED  BY <1>1, <1>2, <1>3, <1>4, <1>5, <1>6 DEF Ended

(* Sequences that are joined one after the other, as they grow: g[n] is    *)
(* the first n of them.                                                    *)
Stack(g, ss, N) ==
  /\ N \in Nat /\ g[0] = <<>>
  /\ \A n \in 0..N : g[n] \in Seq(Byte)
  /\ \A n \in 1..N : ss[n] \in Seq(Byte) /\ Joined(g[n], g[n - 1], ss[n])

LEMMA StackExists ==
  ASSUME NEW ss, NEW N \in Nat, N = Len(ss), N = 0 => ss = <<>>,
         \A n \in 1..N : ss[n] \in Seq(Byte)
  PROVE  \E g : Stack(g, ss, N) /\ FlattenSeq(ss) = g[N]
<1>1. CASE N = 0
  <2>1. PICK g : g = [n \in 0..0 |-> <<>>]
    OBVIOUS
  <2>2. FlattenSeq(ss) = <<>>
    BY <1>1 DEF FlattenSeq
  <2>. QED  BY <1>1, <2>1, <2>2 DEF Stack
<1>2. CASE N # 0
  <2>1. PICK f : Joins(f, ss, N) /\ FlattenSeq(ss) = f[N]
    BY <1>2, FlattenIs
  <2>2. PICK g : g = [n \in 0..N |-> IF n = 0 THEN <<>> ELSE f[n]]
    OBVIOUS
  <2>3. g[0] = <<>> /\ g[N] = f[N] /\ \A n \in 1..N : g[n] = f[n]
    BY <1>2, <2>2
  <2>4. ASSUME NEW n \in 1..N PROVE g[n] = g[n - 1] \o ss[n]
    <3>1. f[n] = IF n = 1 THEN ss[n] ELSE f[n - 1] \o ss[n]
      BY <2>1 DEF Joins
    <3>2. CASE n = 1
      <4>1. ss[n] \in Seq(Byte) /\ <<>> \o ss[n] = ss[n]
        OBVIOUS
      <4>2. n - 1 = 0 /\ g[n - 1] = <<>>
        BY <2>3, <3>2
      <4>3. g[n] = ss[n]
        BY <2>3, <3>1, <3>2
      <4>. QED  BY <4>1, <4>2, <4>3
    <3>3. CASE n # 1
      <4>1. n - 1 \in 1..N
        BY <3>3
      <4>. QED  BY <2>3, <3>1, <3>3, <4>1
    <3>. QED  BY <3>2, <3>3
  <2>. DEFINE T == {n \in 0..N : g[n] \notin Seq(Byte)}
  <2>5. ASSUME T # {} PROVE FALSE
    <3>1. PICK n \in T : \A m \in 0..(n - 1) : m \notin T
      <4>1. T \in SUBSET Nat
        OBVIOUS
      <4>. HIDE DEF T
      <4>. QED  BY <2>5, <4>1, LeastNumber
    <3>2. n \in 0..N /\ g[n] \notin Seq(Byte)
      OBVIOUS
    <3>3. n \in 1..N
      <4>1. n # 0
        <5>1. g[0] \in Seq(Byte)
          BY <2>3
        <5>. QED  BY <3>2, <5>1
      <4>. QED  BY <3>2, <4>1
    <3>4. n - 1 \in 0..N /\ n - 1 \in 0..(n - 1)
      BY <3>3
    <3>5. g[n - 1] \in Seq(Byte)
      BY <3>1, <3>4
    <3>6. g[n] \in Seq(Byte)
      <4>1. g[n] = g[n - 1] \o ss[n] /\ ss[n] \in Seq(Byte)
        BY <2>4, <3>3
      <4>2. PICK a \in Seq(Byte), b \in Seq(Byte) : a = g[n - 1] /\ b = ss[n]
        BY <3>5, <4>1
      <4>3. a \o b \in Seq(Byte)
        BY ConcatProperties
      <4>. QED  BY <4>1, <4>2, <4>3
    <3>. QED  BY <3>2, <3>6
  <2>6. \A n \in 0..N : g[n] \in Seq(Byte)
    BY <2>5
  <2>. QED  BY <2>1, <2>3, <2>4, <2>6 DEF Stack, Joined
<1>. QED  BY <1>1, <1>2

(* The lines of a head, one after the other, hold no blank line.           *)
Rows(ls) == [n \in 1..Len(ls) |-> ls[n] \o CrLf]

LEMMA LinesEnd ==
  ASSUME NEW ls, Len(ls) \in Nat, Len(ls) # 0,
         \A n \in 1..Len(ls) : Line(ls[n])
  PROVE  \E g : /\ Stack(g, Rows(ls), Len(ls)) /\ Ended(g[Len(ls)])
                /\ Lines(ls) = g[Len(ls)] \o CrLf
<1>1. PICK ss : ss = Rows(ls)
  OBVIOUS
<1>2. PICK N \in Nat : N = Len(ls) /\ N >= 1
  OBVIOUS
<1>3. Len(ss) = N
  BY <1>1, <1>2 DEF Rows
<1>5. ASSUME NEW n \in 1..N PROVE FullLine(ss[n]) /\ ss[n] \in Seq(Byte)
  <2>1. ss[n] = ls[n] \o CrLf /\ Line(ls[n])
    BY <1>1, <1>2 DEF Rows
  <2>2. PICK l, m : l = ls[n] /\ m = ss[n]
    OBVIOUS
  <2>3. Joined(m, l, CrLf) /\ Line(l)
    BY <2>1, <2>2 DEF Joined
  <2>4. FullLine(m)
    BY <2>3, LineEnds
  <2>. QED  BY <2>2, <2>4 DEF FullLine, Ended
<1>4. PICK g : Stack(g, ss, N) /\ FlattenSeq(ss) = g[N]
  BY <1>2, <1>3, <1>5, StackExists
<1>. DEFINE T == {n \in 1..N : ~Ended(g[n])}
<1>6. ASSUME T # {} PROVE FALSE
  <2>1. PICK n \in T : \A m \in 0..(n - 1) : m \notin T
    <3>1. T \in SUBSET Nat
      BY <1>2
    <3>. HIDE DEF T
    <3>. QED  BY <1>6, <3>1, LeastNumber
  <2>2. n \in 1..N /\ ~Ended(g[n])
    OBVIOUS
  <2>3. g[n] = g[n - 1] \o ss[n] /\ g[0] = <<>>
    BY <1>4, <2>2 DEF Stack, Joined
  <2>4. n # 1
    <3>1. ASSUME n = 1 PROVE FALSE
      <4>1. n - 1 = 0 /\ <<>> \o ss[n] = ss[n]
        BY <1>5, <2>2, <3>1
      <4>2. g[n] = ss[n]
        BY <2>3, <4>1
      <4>. QED  BY <1>5, <2>2, <4>2 DEF FullLine
    <3>. QED  BY <3>1
  <2>5. n - 1 \in 1..N /\ n - 1 \in 0..(n - 1)
    BY <1>2, <2>2, <2>4
  <2>6. Ended(g[n - 1])
    BY <2>1, <2>5
  <2>7. PICK x, m, y : x = g[n - 1] /\ m = ss[n] /\ y = g[n]
    OBVIOUS
  <2>8. Joined(y, x, m)
    BY <2>3, <2>4, <2>7 DEF Joined
  <2>9. Ended(x) /\ FullLine(m)
    BY <1>5, <2>2, <2>6, <2>7
  <2>10. Ended(y)
    BY <2>8, <2>9, LineFollows
  <2>. QED  BY <2>2, <2>7, <2>10
<1>7. Ended(g[N])
  BY <1>2, <1>6
<1>8. Lines(ls) = g[N] \o CrLf
  BY <1>1, <1>4 DEF Lines, Rows
<1>. QED  BY <1>1, <1>2, <1>4, <1>7, <1>8

-----------------------------------------------------------------------------
LEMMA InitInv == Init => Inv
<1>. SUFFICES ASSUME Init, talk.kind = "proxy" PROVE ProxyInv
  BY DEF Inv
<1>1. ~HttpInit /\ ~UpgradeInit /\ ~FrameInit
  <2>1. HttpInit => talk.kind = "http"
    <3>1. HttpInit => \E x, y : talk = [kind |-> "http", said |-> x, cut |-> y]
      BY DEF HttpInit
    <3>. QED  BY <3>1
  <2>2. UpgradeInit => talk.kind = "ws"
    <3>1. UpgradeInit => \E x : talk = [kind |-> "ws", said |-> x]
      BY DEF UpgradeInit
    <3>. QED  BY <3>1
  <2>3. FrameInit => talk.kind = "frame"
    <3>1. FrameInit => \E x : talk = [kind |-> "frame", said |-> x]
      BY DEF FrameInit
    <3>. QED  BY <3>1
  <2>. QED  BY <2>1, <2>2, <2>3
<1>2. ProxyInit
  BY <1>1 DEF Init, Reader
<1>. QED  BY <1>2 DEF ProxyInit, ProxyInv, Awaits

(* A conversation stays what it is.                                        *)
LEMMA TalkStays ==
  ASSUME [Next]_vars
  PROVE  talk' = talk
<1>1. CASE HttpNext
  BY <1>1 DEF HttpNext, Head1, ReadHead, ReadBody, Fail, Took, ExactBody,
     CloseBody, Size, More, ChunkBody, Trailer
<1>2. CASE Upgrade
  BY <1>2 DEF Upgrade, ReadHead, Fail, Took
<1>3. CASE FrameNext
  BY <1>3 DEF FrameNext
<1>4. CASE ProxyNext
  BY <1>4 DEF ProxyNext, ProxyClient, NextHop, Ask, Request, ProxyFails, Fail,
     Methods, Auth, Socks5Connect, Socks5, Length, Address, Skipping, Granted,
     Socks4, Connect, ProxyReads, ReadExact, ReadHead, Took, Answer, ProxyHangsUp
<1>5. CASE UNCHANGED vars
  BY <1>5 DEF vars, streamVars
<1>. QED  BY <1>1, <1>2, <1>3, <1>4, <1>5 DEF Next

LEMMA StepInv == Inv /\ [Next]_vars => Inv'
<1>. SUFFICES ASSUME Inv, [Next]_vars, talk.kind = "proxy" PROVE ProxyInv'
  BY TalkStays DEF Inv
<1>1. ProxyInv
  BY DEF Inv
<1>2. CASE UNCHANGED vars
  BY <1>1, <1>2 DEF vars, streamVars, proxyVars, ProxyInv, Asked, Answered, Cut,
     Halves, Target
<1>3. CASE ProxyNext
  BY <1>1, <1>3, NextHopStep, AskStep, SocksStep, Socks5Step, LengthStep,
     AddressStep, Socks4Step, ConnectStep, ReadStep, AnswerStep, HangsUpStep
     DEF ProxyNext, ProxyClient
<1>. QED  BY <1>2, <1>3 DEF Next

LEMMA InvHolds == Spec => []Inv
<1>. QED  BY InitInv, StepInv, PTL DEF Spec

(* However many proxies there are and however their replies are cut, each  *)
(* request goes to the proxy it names as the last one reached.             *)
THEOREM AsksTheFarEnd == Spec => []AsksFarEnd
<1>1. Inv => AsksFarEnd
  BY DEF Inv, ProxyInv, AsksFarEnd
<1>. QED  BY <1>1, InvHolds, PTL

(* And when the chain is through, the stream leads to the target and holds *)
(* nothing of the replies.                                                 *)
THEOREM TunnelsAreClean == Spec => []TunnelIsClean
<1>1. Inv => TunnelIsClean
  BY DEF Inv, ProxyInv, TunnelIsClean
<1>. QED  BY <1>1, InvHolds, PTL

-----------------------------------------------------------------------------
(* The answer to a WebSocket upgrade.                                      *)
Accepted(u) == Lines(<<<<u.status>>>> \o u.accepts)

LEMMA WidenTo ==
  ASSUME NEW l \in Seq(STRING)
  PROVE  l \in Seq(Byte)
<1>1. \A k \in 1..Len(l) : l[k] \in Byte
  <2>1. \A k \in 1..Len(l) : l[k] \in STRING
    OBVIOUS
  <2>. QED  BY <2>1, BytesAre
<1>2. Len(l) \in Nat /\ l = [k \in 1..Len(l) |-> l[k]]
  OBVIOUS
<1>3. l \in [1..Len(l) -> Byte]
  BY <1>1, <1>2, Zenon
<1>. QED  BY <1>2, <1>3, SeqDef

LEMMA AcceptedIs ==
  ASSUME NEW u \in Upgrades
  PROVE  \E x : Ended(x) /\ Accepted(u) = x \o CrLf
<1>1. /\ u.status \in STRING \ {"CR"} /\ u.accepts \in Seq(HeadLine)
  BY UpgradesAssumption
<1>2. ASSUME NEW l \in HeadLine PROVE Line(l)
  <2>1. l \in Seq(STRING) /\ l # <<>> /\ "CR" \notin Range(l)
    BY DEF HeadLine
  <2>2. ASSUME NEW k \in 1..Len(l), l[k] = "CR" PROVE FALSE
    <3>1. k \in DOMAIN l
      BY <2>1
    <3>. QED  BY <2>1, <2>2, <3>1 DEF Range
  <2>3. l \in Seq(Byte)
    BY <2>1, WidenTo
  <2>. QED  BY <2>1, <2>2, <2>3 DEF Line
<1>3. PICK s : s = <<u.status>>
  OBVIOUS
<1>4. s \in HeadLine
  <2>1. s \in Seq(STRING) /\ s # <<>> /\ DOMAIN s = {1} /\ s[1] # "CR"
    BY <1>1, <1>3
  <2>. QED  BY <2>1 DEF HeadLine, Range
<1>5. PICK a, b, ls : a = <<s>> /\ b = u.accepts /\ ls = a \o b
  OBVIOUS
<1>6. a \in Seq(HeadLine) /\ b \in Seq(HeadLine) /\ Len(a) = 1
  BY <1>1, <1>4, <1>5
<1>7. ls \in Seq(HeadLine) /\ Len(ls) = Len(a) + Len(b)
  BY <1>5, <1>6, ConcatProperties
<1>8. Len(ls) \in Nat /\ Len(ls) # 0
  BY <1>6, <1>7
<1>9. \A n \in 1..Len(ls) : Line(ls[n])
  BY <1>2, <1>7
<1>10. PICK g : Ended(g[Len(ls)]) /\ Lines(ls) = g[Len(ls)] \o CrLf
  BY <1>8, <1>9, LinesEnd
<1>. QED  BY <1>3, <1>5, <1>10 DEF Accepted

(* The whole of it: the head, and the frames that come behind.             *)
Upgraded(u, x, f, r) ==
  /\ Ended(x) /\ f = u.frames /\ r = Accepted(u) \o f
  /\ f \in Seq(Byte) /\ r \in Seq(Byte) /\ Len(r) = Len(x) + 2 + Len(f)
  /\ \A k \in 1..Len(x) : r[k] = x[k]
  /\ \A k \in 1..Len(f) : r[Len(x) + 2 + k] = f[k]

LEMMA TotalIs ==
  ASSUME NEW u \in Upgrades
  PROVE  \E x, f, r : Upgraded(u, x, f, r)
<1>1. PICK x : Ended(x) /\ Accepted(u) = x \o CrLf
  BY AcceptedIs
<1>2. PICK h, f, r : h = Accepted(u) /\ f = u.frames /\ r = h \o f
  OBVIOUS
<1>3. f \in Seq(Byte)
  <2>1. f \in Seq(STRING)
    BY <1>2, UpgradesAssumption
  <2>. QED  BY <2>1, WidenTo
<1>4. x \in Seq(Byte) /\ Len(x) \in Nat
  BY <1>1 DEF Ended
<1>5. /\ h \in Seq(Byte) /\ Len(h) = Len(x) + Len(CrLf)
      /\ \A k \in 1..(Len(x) + Len(CrLf)) :
           h[k] = IF k <= Len(x) THEN x[k] ELSE CrLf[k - Len(x)]
  <2>1. Joined(h, x, CrLf)
    BY <1>1, <1>2 DEF Joined
  <2>. QED  BY <1>4, <2>1, BlankIs, JoinedAre
<1>6. /\ r \in Seq(Byte) /\ Len(r) = Len(h) + Len(f)
      /\ \A k \in 1..(Len(h) + Len(f)) :
           r[k] = IF k <= Len(h) THEN h[k] ELSE f[k - Len(h)]
  <2>1. Joined(r, h, f)
    BY <1>2 DEF Joined
  <2>. QED  BY <1>3, <1>5, <2>1, JoinedAre, ZenonT(60)
<1>7. PICK e \in Nat, n \in Nat : e = Len(x) /\ n = Len(f)
  BY <1>3, <1>4
<1>8. Len(CrLf) = 2
  BY BlankIs
<1>9. /\ Len(h) = e + 2 /\ Len(r) = e + 2 + n
      /\ \A k \in 1..e : h[k] = x[k]
  BY <1>5, <1>6, <1>7, <1>8
<1>10. \A k \in 1..e : r[k] = x[k]
  BY <1>6, <1>7, <1>9
<1>11. ASSUME NEW k \in 1..n PROVE r[e + 2 + k] = f[k]
  <2>1. e + 2 + k \in 1..(e + 2 + n) /\ ~(e + 2 + k <= e + 2) /\ (e + 2 + k) - (e + 2) = k
    OBVIOUS
  <2>. QED  BY <1>6, <1>7, <1>9, <2>1
<1>12. /\ Len(r) = Len(x) + 2 + Len(f)
       /\ \A k \in 1..Len(x) : r[k] = x[k]
       /\ \A k \in 1..Len(f) : r[Len(x) + 2 + k] = f[k]
  BY <1>7, <1>9, <1>10, <1>11
<1>13. Ended(x) /\ f = u.frames /\ r = Accepted(u) \o f /\ r \in Seq(Byte)
  BY <1>1, <1>2, <1>6
<1>14. Upgraded(u, x, f, r)
  BY <1>3, <1>12, <1>13 DEF Upgraded
<1>. QED  BY <1>14

(* When a connection opens, the answer has been read up to its end: no     *)
(* less, for the head has no blank line before, and no more, for what      *)
(* comes behind is no text.                                                *)
LEMMA OpensAtEnd ==
  ASSUME NEW u \in Upgrades, NEW n, Halves(Accepted(u) \o u.frames, n),
         Find(buf, Blank) # 0, IsText(buf), "part" \notin Range(u.frames)
  PROVE  wire = u.frames
<1>1. PICK x, f, r :
        /\ Ended(x) /\ f = u.frames /\ r = Accepted(u) \o f
        /\ f \in Seq(Byte) /\ r \in Seq(Byte) /\ Len(r) = Len(x) + 2 + Len(f)
        /\ \A k \in 1..Len(x) : r[k] = x[k]
        /\ \A k \in 1..Len(f) : r[Len(x) + 2 + k] = f[k]
  BY TotalIs DEF Upgraded
<1>2. Halves(r, n)
  BY <1>1
<1>3. /\ Len(r) \in Nat /\ Len(buf) = n /\ n \in 0..Len(r) /\ n \in Nat
      /\ \A k \in 1..n : buf[k] = r[k]
      /\ wire \in Seq(Byte) /\ Len(wire) = Len(r) - n
      /\ \A k \in 1..(Len(r) - n) : wire[k] = r[n + k]
  BY <1>2, HalvesAre
<1>4. buf \in Seq(Byte)
  BY <1>2 DEF Halves
<1>5. PICK e \in Nat, j \in Nat : e = Len(x) /\ j = Len(f)
  BY <1>1 DEF Ended
<1>0. /\ Len(r) = e + 2 + j /\ n \in Nat /\ n <= e + 2 + j
      /\ \A k \in 1..n : buf[k] = r[k]
      /\ \A k \in 1..e : r[k] = x[k]
      /\ \A k \in 1..j : r[e + 2 + k] = f[k]
  <2>1. /\ Len(r) = e + 2 + j
        /\ \A k \in 1..e : r[k] = x[k]
        /\ \A k \in 1..j : r[e + 2 + k] = f[k]
    BY <1>1, <1>5
  <2>2. n \in Nat /\ n <= Len(r)
    BY <1>3
  <2>. QED  BY <1>3, <2>1, <2>2
<1>6. PICK p \in 1..(n - 4 + 1) : SubSeq(buf, p, p + 4 - 1) = Blank
  <2>1. Len(Blank) = 4
    BY BlankIs
  <2>. QED  BY <1>3, <2>1 DEF Find
<1>7. PICK s : s = SubSeq(buf, p, p + 3)
  OBVIOUS
<1>8. s = Blank /\ p \in Nat /\ p >= 1 /\ p + 3 <= n
  BY <1>3, <1>6, <1>7
<1>9. s[1] = buf[p] /\ s[3] = buf[p + 2]
  BY <1>3, <1>4, <1>7, <1>8
<1>10. r[p] = "CR" /\ r[p + 2] = "CR"
  BY <1>3, <1>8, <1>9, BlankIs
<1>11. n >= e + 2
  <2>1. ASSUME n < e + 2 PROVE FALSE
    <3>1. p \in 1..(e - 2) /\ p \in 1..e /\ p + 2 \in 1..e
      BY <1>3, <1>8, <2>1
    <3>2. x[p] = "CR" /\ x[p + 2] = "CR"
      BY <1>1, <1>5, <1>10, <3>1
    <3>. QED  BY <1>1, <1>5, <3>1, <3>2 DEF Ended
  <2>. QED  BY <1>3, <1>5, <2>1
<1>12. ~(n > e + 2)
  <2>1. ASSUME n > e + 2 PROVE FALSE
    <3>1. j >= 1 /\ e + 2 + 1 \in 1..n /\ 1 \in 1..j
      BY <1>0, <2>1
    <3>2. buf[e + 2 + 1] = f[1]
      <4>1. buf[e + 2 + 1] = r[e + 2 + 1] /\ r[e + 2 + 1] = f[1]
        BY <1>0, <3>1
      <4>. QED  BY <4>1
    <3>3. f[1] \in {"fin", "part"}
      <4>1. f # <<>>
        BY <1>5, <3>1
      <4>. QED  BY <1>1, <4>1, UpgradesAssumption
    <3>4. f[1] \in Range(f) /\ buf[e + 2 + 1] \in Range(buf)
      <4>1. 1 \in DOMAIN f /\ e + 2 + 1 \in DOMAIN buf
        BY <1>1, <1>3, <1>4, <1>5, <3>1
      <4>. QED  BY <4>1 DEF Range
    <3>. QED  BY <1>1, <3>2, <3>3, <3>4 DEF IsText
  <2>. QED  BY <2>1
<1>13. n = e + 2
  BY <1>3, <1>11, <1>12
<1>14. /\ Len(wire) = j /\ Len(r) - n = j
       /\ \A k \in 1..j : wire[k] = f[k]
  <2>1. Len(r) - n = j
    BY <1>0, <1>13
  <2>2. Len(wire) = j /\ \A k \in 1..j : wire[k] = r[n + k]
    BY <1>3, <2>1
  <2>. QED  BY <1>0, <1>13, <2>1, <2>2
<1>15. wire \in Seq(Byte) /\ f \in Seq(Byte) /\ Len(f) = j
  BY <1>1, <1>3, <1>5
<1>16. wire = f
  BY <1>14, <1>15, SeqEqual
<1>. QED  BY <1>1, <1>16

WsInv == talk.kind = "ws" =>
  /\ talk.said \in Upgrades /\ at \in {"upgrade", "done", "failed"}
  /\ at = "upgrade" => Cut(Accepted(talk.said) \o talk.said.frames)
  /\ at = "done" => OpensWithAllFrames

LEMMA InitWs == Init => WsInv
<1>. SUFFICES ASSUME Init, talk.kind = "ws"
              PROVE  /\ talk.said \in Upgrades /\ at = "upgrade"
                     /\ Cut(Accepted(talk.said) \o talk.said.frames)
  BY DEF WsInv
<1>1. UpgradeInit
  <2>1. HttpInit => \E x, y : talk = [kind |-> "http", said |-> x, cut |-> y]
    BY DEF HttpInit
  <2>2. FrameInit => \E x : talk = [kind |-> "frame", said |-> x]
    BY DEF FrameInit
  <2>3. ProxyInit => \E x, y : talk = [kind |-> "proxy", chain |-> x, host |-> y]
    BY DEF ProxyInit
  <2>. QED  BY <2>1, <2>2, <2>3 DEF Init, Reader
<1>2. PICK u \in Upgrades : /\ talk = [kind |-> "ws", said |-> u]
                            /\ wire = Accepted(u) \o u.frames
  BY <1>1 DEF UpgradeInit, Accepted
<1>3. at = "upgrade" /\ buf = <<>>
  BY <1>1 DEF UpgradeInit
<1>4. PICK r : r = Accepted(u) \o u.frames /\ r \in Seq(Byte)
  BY TotalIs DEF Upgraded
<1>5. 0 \in 0..Len(r) /\ SubSeq(r, 1, 0) = <<>> /\ SubSeq(r, 0 + 1, Len(r)) = r
  BY <1>4
<1>6. Halves(r, 0)
  BY <1>2, <1>3, <1>4, <1>5 DEF Halves
<1>. QED  BY <1>2, <1>3, <1>4, <1>6 DEF Cut

LEMMA StepWs == WsInv /\ [Next]_vars => WsInv'
<1>. SUFFICES ASSUME WsInv, [Next]_vars, talk.kind = "ws" PROVE WsInv'
  BY TalkStays DEF WsInv
<1>0. talk' = talk
  BY TalkStays
<1>1. CASE UNCHANGED vars
  BY <1>1 DEF vars, streamVars, WsInv, OpensWithAllFrames, Cut, Halves
<1>2. CASE Upgrade
  <2>1. /\ talk.said \in Upgrades /\ at = "upgrade"
        /\ Cut(Accepted(talk.said) \o talk.said.frames)
    BY <1>2 DEF Upgrade, WsInv
  <2>2. PICK r, n : r = Accepted(talk.said) \o talk.said.frames /\ Halves(r, n)
    BY <2>1 DEF Cut
  <2>3. CASE ReadHead(WsRoom, MaxUpgrade)
    <3>1. PICK b \in Reads(WsRoom) :
            /\ Took(b) /\ buf' = buf \o b /\ at' \in {at, "failed"}
      BY <2>3 DEF ReadHead, Goto
    <3>2. WsRoom \in Nat
      BY UpgradesAssumption
    <3>3. Cut(r)'
      BY <2>2, <3>1, <3>2, ReadsMore, Zenon
    <3>. QED  BY <1>0, <2>1, <2>2, <3>1, <3>3 DEF WsInv
  <2>4. CASE /\ Find(buf, Blank) # 0 /\ IsText(buf) /\ Goto("done")
             /\ UNCHANGED <<talk, wire>>
    <3>1. Halves(Accepted(talk.said) \o talk.said.frames, n)
      BY <2>2
    <3>2. "part" \notin Range(talk.said.frames) => wire = talk.said.frames
      BY <2>1, <2>4, <3>1, OpensAtEnd
    <3>. QED  BY <2>1, <2>4, <3>2 DEF WsInv, OpensWithAllFrames, Goto
  <2>5. CASE Fail
    BY <2>1, <2>5 DEF Fail, WsInv
  <2>. QED  BY <1>2, <2>3, <2>4, <2>5 DEF Upgrade
<1>. QED  BY <1>1, <1>2 DEF Next

(* Whatever a server answers and sends right behind, and however the reads *)
(* cut it, an open connection has lost no frame, but for a first message   *)
(* in fragments.                                                           *)
THEOREM FramesAreKept == Spec => []OpensWithAllFrames
<1>1. WsInv => OpensWithAllFrames
  BY DEF WsInv, OpensWithAllFrames
<1>. QED  BY <1>1, InitWs, StepWs, PTL DEF Spec

-----------------------------------------------------------------------------
(* Where a sequence lies in another: s in e, behind the first p elements.  *)
At(e, p, s) ==
  /\ s \in Seq(Byte) /\ p \in Nat /\ p + Len(s) <= Len(e)
  /\ \A k \in 1..Len(s) : e[p + k] = s[k]

Parted(e, p, r, a, b) ==
  Len(r) = Len(a) + Len(b) /\ At(e, p, a) /\ At(e, p + Len(a), b)

LEMMA AtParts ==
  ASSUME NEW e \in Seq(Byte), NEW p, NEW r, NEW a \in Seq(Byte), NEW b \in Seq(Byte),
         Joined(r, a, b), At(e, p, r)
  PROVE  Parted(e, p, r, a, b)
<1>1. /\ r \in Seq(Byte) /\ Len(r) = Len(a) + Len(b)
      /\ \A k \in 1..(Len(a) + Len(b)) :
           r[k] = IF k <= Len(a) THEN a[k] ELSE b[k - Len(a)]
  BY JoinedAre
<1>2. PICK n \in Nat, m \in Nat : n = Len(a) /\ m = Len(b)
  OBVIOUS
<1>3. /\ p \in Nat /\ p + (n + m) <= Len(e)
      /\ \A k \in 1..(n + m) : e[p + k] = r[k]
      /\ \A k \in 1..(n + m) : r[k] = IF k <= n THEN a[k] ELSE b[k - n]
  BY <1>1, <1>2 DEF At
<1>4. Len(e) \in Nat /\ p + n <= Len(e) /\ (p + n) + m <= Len(e) /\ p + n \in Nat
  <2>1. PICK l \in Nat : l = Len(e)
    OBVIOUS
  <2>2. p \in Nat /\ p + (n + m) <= l
    BY <1>3, <2>1
  <2>3. p + n <= l /\ (p + n) + m <= l /\ p + n \in Nat
    BY <2>2
  <2>. QED  BY <2>1, <2>3
<1>5. ASSUME NEW k \in 1..n PROVE e[p + k] = a[k]
  <2>1. k \in 1..(n + m) /\ k <= n
    OBVIOUS
  <2>. QED  BY <1>3, <2>1
<1>6. ASSUME NEW k \in 1..m PROVE e[(p + n) + k] = b[k]
  <2>1. n + k \in 1..(n + m) /\ ~(n + k <= n) /\ (n + k) - n = k /\ p + (n + k) = (p + n) + k
    BY <1>3
  <2>. QED  BY <1>3, <2>1
<1>7. At(e, p, a) /\ At(e, p + Len(a), b)
  BY <1>1, <1>2, <1>3, <1>4, <1>5, <1>6 DEF At
<1>. QED  BY <1>1, <1>7 DEF Parted

LEMMA AtSelf ==
  ASSUME NEW e \in Seq(Byte)
  PROVE  At(e, 0, e)
BY DEF At

LEMMA SliceIs ==
  ASSUME NEW e \in Seq(Byte), NEW p \in Nat, NEW q \in Nat, p <= q, q <= Len(e)
  PROVE  /\ SubSeq(e, p + 1, q) \in Seq(Byte) /\ Len(SubSeq(e, p + 1, q)) = q - p
         /\ \A k \in 1..(q - p) : SubSeq(e, p + 1, q)[k] = e[p + k]
<1>1. PICK s : s = SubSeq(e, p + 1, q)
  OBVIOUS
<1>2. s \in Seq(Byte) /\ Len(s) = q - p /\ \A k \in 1..(q - p) : s[k] = e[p + k]
  BY <1>1
<1>. QED  BY <1>1, <1>2

LEMMA AtIs ==
  ASSUME NEW e \in Seq(Byte), NEW p, NEW s, At(e, p, s)
  PROVE  SubSeq(e, p + 1, p + Len(s)) = s
<1>1. /\ s \in Seq(Byte) /\ p \in Nat /\ p + Len(s) <= Len(e) /\ p + Len(s) \in Nat
      /\ Len(s) \in Nat /\ (p + Len(s)) - p = Len(s) /\ p <= p + Len(s)
      /\ \A k \in 1..Len(s) : e[p + k] = s[k]
  BY DEF At
<1>0. PICK q \in Nat : q = p + Len(s)
  BY <1>1
<1>2. PICK t : t = SubSeq(e, p + 1, q) /\ q = p + Len(s)
  BY <1>0
<1>3. t \in Seq(Byte) /\ Len(t) = q - p /\ \A k \in 1..(q - p) : t[k] = e[p + k]
  BY <1>1, <1>2, SliceIs
<1>4. Len(t) = Len(s) /\ \A k \in 1..Len(s) : t[k] = s[k]
  BY <1>1, <1>2, <1>3
<1>. QED  BY <1>1, <1>2, <1>3, <1>4, SeqEqual

(* Slices that meet, and a slice of a slice.                               *)
Cuts(e, p, q, t, c) ==
  /\ e \in Seq(Byte) /\ p \in Nat /\ q \in Nat /\ t \in Nat /\ c \in Nat
  /\ p <= q /\ q <= t /\ t <= c /\ c <= Len(e)

Sliced(e, p, q, t, c) ==
  /\ SubSeq(e, p + 1, q) \o SubSeq(e, q + 1, t) = SubSeq(e, p + 1, t)
  /\ SubSeq(SubSeq(e, p + 1, c), (q - p) + 1, t - p) = SubSeq(e, q + 1, t)
  /\ From(SubSeq(e, p + 1, c), (q - p) + 1) = SubSeq(e, q + 1, c)

LEMMA Slices ==
  ASSUME NEW e, NEW p, NEW q, NEW t, NEW c, Cuts(e, p, q, t, c)
  PROVE  Sliced(e, p, q, t, c)
<1>. USE DEF Cuts
<1>1. SubSeq(e, p + 1, q) \o SubSeq(e, q + 1, t) = SubSeq(e, p + 1, t)
  <2>1. p + 1 \in 1..(Len(e) + 1) /\ q \in (p + 1 - 1)..Len(e) /\ t \in q..Len(e)
    OBVIOUS
  <2>. QED  BY <2>1, ConcatAdjacentSubSeq
<1>2. ASSUME NEW u \in Nat, q <= u, u <= c
      PROVE  SubSeq(SubSeq(e, p + 1, c), (q - p) + 1, u - p) = SubSeq(e, q + 1, u)
  <2>1. PICK w, a, b : /\ w = SubSeq(e, p + 1, c) /\ b = SubSeq(e, q + 1, u)
                       /\ a = SubSeq(w, (q - p) + 1, u - p)
    OBVIOUS
  <2>2. w \in Seq(Byte) /\ Len(w) = c - p /\ \A k \in 1..(c - p) : w[k] = e[p + k]
    BY <2>1, SliceIs
  <2>3. b \in Seq(Byte) /\ Len(b) = u - q /\ \A k \in 1..(u - q) : b[k] = e[q + k]
    <3>1. e \in Seq(Byte) /\ q \in Nat /\ u \in Nat /\ q <= u /\ u <= Len(e)
      BY <1>2
    <3>. QED  BY <2>1, <3>1, SliceIs
  <2>4. PICK i \in Nat, j \in Nat : i = q - p /\ j = u - p
    <3>1. q - p \in Nat /\ u - p \in Nat
      BY <1>2
    <3>. QED  BY <3>1
  <2>5. i <= j /\ j <= Len(w) /\ j - i = u - q
    BY <1>2, <2>2, <2>4
  <2>6. a \in Seq(Byte) /\ Len(a) = j - i /\ \A k \in 1..(j - i) : a[k] = w[i + k]
    BY <2>1, <2>2, <2>4, <2>5, SliceIs
  <2>7. ASSUME NEW k \in 1..(u - q) PROVE a[k] = b[k]
    <3>1. k \in 1..(j - i) /\ i + k \in 1..(c - p) /\ p + (i + k) = q + k
      BY <1>2, <2>4, <2>5
    <3>. QED  BY <2>2, <2>3, <2>6, <3>1
  <2>8. Len(a) = Len(b) /\ Len(a) = u - q
    BY <2>3, <2>5, <2>6
  <2>. QED  BY <2>1, <2>3, <2>6, <2>7, <2>8, SeqEqual
<1>3. Len(SubSeq(e, p + 1, c)) = c - p
  BY SliceIs
<1>. QED  BY <1>1, <1>2, <1>3 DEF From, Sliced

(* What a read gives, when the wire is a slice.                            *)
Window(e, c, p, q) ==
  /\ e \in Seq(Byte) /\ p \in Nat /\ q \in Nat /\ c \in Nat
  /\ p <= q /\ q <= c /\ c <= Len(e)
  /\ buf = SubSeq(e, p + 1, q) /\ wire = SubSeq(e, q + 1, c)

Ahead(e, q, c) ==
  /\ e \in Seq(Byte) /\ q \in Nat /\ c \in Nat /\ q <= c /\ c <= Len(e)
  /\ wire = SubSeq(e, q + 1, c)

LEMMA ReadGives ==
  ASSUME NEW e, NEW q, NEW c, Ahead(e, q, c), NEW room \in Nat, NEW b \in Reads(room)
  PROVE  \E t \in q..c :
           /\ b = SubSeq(e, q + 1, t) /\ Len(b) = t - q /\ t - q <= room
           /\ From(wire, Len(b) + 1) = SubSeq(e, t + 1, c)
           /\ (b = <<>> => q = c)
<1>0. /\ e \in Seq(Byte) /\ q \in Nat /\ c \in Nat /\ q <= c /\ c <= Len(e)
      /\ wire = SubSeq(e, q + 1, c)
  BY DEF Ahead
<1>1. wire \in Seq(Byte) /\ Len(wire) = c - q
  BY <1>0, SliceIs
<1>2. CASE wire = <<>>
  <2>1. b = <<>> /\ q = c
    <3>1. Len(wire) = 0 /\ c - q = 0 /\ q = c
      BY <1>0, <1>1, <1>2
    <3>2. b = <<>>
      BY <1>2 DEF Reads
    <3>. QED  BY <3>1, <3>2
  <2>2. SubSeq(e, q + 1, q) = <<>> /\ SubSeq(e, q + 1, c) = <<>> /\ q \in q..c
    BY <1>0, <2>1
  <2>3. From(wire, Len(b) + 1) = <<>>
    BY <1>2, <2>1 DEF From
  <2>4. Len(b) = q - q /\ q - q <= room /\ Len(<<>>) = 0
    BY <1>0, <2>1
  <2>5. /\ b = SubSeq(e, q + 1, q) /\ From(wire, Len(b) + 1) = SubSeq(e, q + 1, c)
    BY <1>0, <2>1, <2>2, <2>3
  <2>. QED  BY <2>1, <2>2, <2>4, <2>5
<1>3. CASE wire # <<>>
  <2>1. PICK n \in 1..Least(room, Len(wire)) : b = SubSeq(wire, 1, n)
    BY <1>3 DEF Reads
  <2>2. n \in Nat /\ n >= 1 /\ n <= room /\ n <= c - q
    BY <1>0, <1>1, <2>1 DEF Least
  <2>3. PICK t \in Nat : t = q + n /\ q <= t /\ t <= c /\ t - q = n
    BY <1>0, <2>2
  <2>0. Cuts(e, q, q, t, c) /\ Cuts(e, q, t, t, c)
    BY <1>0, <2>3 DEF Cuts
  <2>4. b = SubSeq(e, q + 1, t)
    <3>1. SubSeq(SubSeq(e, q + 1, c), (q - q) + 1, t - q) = SubSeq(e, q + 1, t)
      <4>1. Sliced(e, q, q, t, c)
        BY <2>0, Slices
      <4>. QED  BY <4>1 DEF Sliced
    <3>2. (q - q) + 1 = 1
      BY <1>0
    <3>. QED  BY <1>0, <2>1, <2>3, <3>1, <3>2
  <2>5. Len(b) = n
    <3>1. t <= Len(e)
      BY <1>0, <2>3
    <3>. QED  BY <1>0, <2>3, <2>4, <3>1, SliceIs
  <2>6. From(wire, Len(b) + 1) = SubSeq(e, t + 1, c)
    <3>1. From(SubSeq(e, q + 1, c), (t - q) + 1) = SubSeq(e, t + 1, c)
      <4>1. Sliced(e, q, t, t, c)
        BY <2>0, Slices
      <4>. QED  BY <4>1 DEF Sliced
    <3>. QED  BY <1>0, <2>3, <2>5, <3>1
  <2>7. b # <<>>
    BY <2>2, <2>5
  <2>8. t \in q..c
    BY <1>0, <2>3
  <2>. QED  BY <2>2, <2>3, <2>4, <2>5, <2>6, <2>7, <2>8
<1>. QED  BY <1>2, <1>3

(* Such a read widens the window; what is used narrows it.                 *)
LEMMA WindowReads ==
  ASSUME NEW e, NEW c, NEW p, NEW q, Window(e, c, p, q), NEW room \in Nat,
         NEW b \in Reads(room), Took(b), buf' = buf \o b
  PROVE  \E t : Window(e, c, p, t)' /\ (b = <<>> => q = c) /\ Len(buf \o b) = t - p
<1>1. /\ e \in Seq(Byte) /\ p \in Nat /\ q \in Nat /\ c \in Nat
      /\ p <= q /\ q <= c /\ c <= Len(e)
      /\ buf = SubSeq(e, p + 1, q) /\ wire = SubSeq(e, q + 1, c)
  BY DEF Window
<1>2. PICK t \in q..c :
        /\ b = SubSeq(e, q + 1, t) /\ From(wire, Len(b) + 1) = SubSeq(e, t + 1, c)
        /\ (b = <<>> => q = c)
  <2>1. Ahead(e, q, c)
    BY <1>1 DEF Ahead
  <2>2. PICK t \in q..c :
           /\ b = SubSeq(e, q + 1, t) /\ Len(b) = t - q /\ t - q <= room
           /\ From(wire, Len(b) + 1) = SubSeq(e, t + 1, c)
           /\ (b = <<>> => q = c)
    BY <2>1, ReadGives, Zenon
  <2>. QED  BY <2>2
<1>3. t \in Nat /\ q <= t /\ t <= c /\ p <= t /\ t <= Len(e)
  BY <1>1, <1>2
<1>4. buf \o b = SubSeq(e, p + 1, t)
  <2>1. Cuts(e, p, q, t, c)
    BY <1>1, <1>3 DEF Cuts
  <2>2. SubSeq(e, p + 1, q) \o SubSeq(e, q + 1, t) = SubSeq(e, p + 1, t)
    <3>1. Sliced(e, p, q, t, c)
      BY <2>1, Slices
    <3>. QED  BY <3>1 DEF Sliced
  <2>. QED  BY <1>1, <1>2, <2>2
<1>5. wire' = SubSeq(e, t + 1, c)
  BY <1>2 DEF Took
<1>6. Window(e, c, p, t)'
  BY <1>1, <1>3, <1>4, <1>5 DEF Window
<1>7. Len(buf \o b) = t - p
  BY <1>1, <1>3, <1>4, SliceIs
<1>. QED  BY <1>2, <1>6, <1>7

LEMMA WindowUses ==
  ASSUME NEW e, NEW c, NEW p, NEW q, Window(e, c, p, q), NEW n \in Nat, n <= q - p,
         buf' = From(buf, n + 1), wire' = wire
  PROVE  Window(e, c, p + n, q)'
<1>1. /\ e \in Seq(Byte) /\ p \in Nat /\ q \in Nat /\ c \in Nat
      /\ p <= q /\ q <= c /\ c <= Len(e)
      /\ buf = SubSeq(e, p + 1, q) /\ wire = SubSeq(e, q + 1, c)
  BY DEF Window
<1>2. PICK t \in Nat : t = p + n /\ p <= t /\ t <= q /\ t - p = n /\ q <= Len(e)
  BY <1>1
<1>3. From(SubSeq(e, p + 1, q), (t - p) + 1) = SubSeq(e, t + 1, q)
  <2>1. Cuts(e, p, t, t, q)
    BY <1>1, <1>2 DEF Cuts
  <2>2. Sliced(e, p, t, t, q)
    BY <2>1, Slices
  <2>. QED  BY <2>2 DEF Sliced
<1>. QED  BY <1>1, <1>2, <1>3 DEF Window

LEMMA WindowIs ==
  ASSUME NEW e, NEW c, NEW p, NEW q, Window(e, c, p, q)
  PROVE  /\ buf \in Seq(Byte) /\ Len(buf) = q - p /\ \A k \in 1..(q - p) : buf[k] = e[p + k]
         /\ wire \in Seq(Byte) /\ Len(wire) = c - q
BY SliceIs DEF Window

-----------------------------------------------------------------------------
(* Where the whole of them lies, each lies behind those before it.         *)
Piece(e, p, g, ss, n) ==
  /\ At(e, p, g[n]) /\ At(e, p, g[n - 1]) /\ At(e, p + Len(g[n - 1]), ss[n])
  /\ Len(g[n]) = Len(g[n - 1]) + Len(ss[n])

LEMMA StackAt ==
  ASSUME NEW e \in Seq(Byte), NEW p, NEW g, NEW ss, NEW N, Stack(g, ss, N),
         At(e, p, g[N]), NEW n \in 1..N
  PROVE  Piece(e, p, g, ss, n)
<1>0. N \in Nat
  BY DEF Stack
<1>1. ASSUME NEW m \in 1..N, At(e, p, g[m])
      PROVE  /\ At(e, p, g[m - 1]) /\ At(e, p + Len(g[m - 1]), ss[m])
             /\ Len(g[m]) = Len(g[m - 1]) + Len(ss[m])
  <2>1. m - 1 \in 0..N
    BY <1>0
  <2>2. PICK a, b, r : a = g[m - 1] /\ b = ss[m] /\ r = g[m]
    OBVIOUS
  <2>3. a \in Seq(Byte) /\ b \in Seq(Byte) /\ Joined(r, a, b) /\ At(e, p, r)
    BY <1>1, <2>1, <2>2 DEF Stack
  <2>4. Len(r) = Len(a) + Len(b) /\ At(e, p, a) /\ At(e, p + Len(a), b)
    <3>1. Parted(e, p, r, a, b)
      BY <2>3, AtParts
    <3>. QED  BY <3>1 DEF Parted
  <2>. QED  BY <2>2, <2>4
<1>. DEFINE T == {j \in 0..N : ~At(e, p, g[N - j])}
<1>2. ASSUME T # {} PROVE FALSE
  <2>1. PICK j \in T : \A i \in 0..(j - 1) : i \notin T
    <3>1. T \in SUBSET Nat
      BY <1>0
    <3>. HIDE DEF T
    <3>. QED  BY <1>2, <3>1, LeastNumber
  <2>2. j \in 0..N /\ ~At(e, p, g[N - j])
    OBVIOUS
  <2>3. j # 0
    <3>1. N - 0 = N
      BY <1>0
    <3>. QED  BY <2>2, <3>1
  <2>4. /\ j - 1 \in 0..(j - 1) /\ j - 1 \in 0..N
        /\ N - (j - 1) \in 1..N /\ (N - (j - 1)) - 1 = N - j
    BY <1>0, <2>2, <2>3
  <2>5. At(e, p, g[N - (j - 1)])
    BY <2>1, <2>4
  <2>6. At(e, p, g[(N - (j - 1)) - 1])
    BY <1>1, <2>4, <2>5
  <2>. QED  BY <2>2, <2>4, <2>6
<1>3. At(e, p, g[n])
  <2>1. N - n \in 0..N /\ N - (N - n) = n
    BY <1>0
  <2>2. N - n \notin T
    BY <1>2
  <2>3. At(e, p, g[N - (N - n)])
    BY <2>1, <2>2
  <2>. QED  BY <2>1, <2>3
<1>. QED  BY <1>1, <1>3 DEF Piece

-----------------------------------------------------------------------------
(* Finding a delimiter: it is where nothing before it looks like it.       *)
Here(s, mark, j) ==
  j \in 1..(Len(s) - Len(mark) + 1) /\ SubSeq(s, j, j + Len(mark) - 1) = mark

LEMMA FindIs ==
  ASSUME NEW s, Len(s) \in Nat, NEW mark, Len(mark) \in Nat, NEW i \in Nat, i >= 1,
         Find(s, mark) # 0, \A j \in 1..(i - 1) : ~Here(s, mark, j),
         i <= Len(s) - Len(mark) + 1 => Here(s, mark, i)
  PROVE  Find(s, mark) = i /\ i + Len(mark) - 1 <= Len(s)
<1>. DEFINE ps == {p \in 1..(Len(s) - Len(mark) + 1) :
                     SubSeq(s, p, p + Len(mark) - 1) = mark}
<1>1. /\ ps # {} /\ Find(s, mark) = CHOOSE p \in ps : \A q \in ps : p <= q
  BY DEF Find
<1>2. \A p \in ps : Here(s, mark, p) /\ p \in Nat /\ p >= 1 /\ p <= Len(s) - Len(mark) + 1
  BY DEF Here
<1>3. \A p : Here(s, mark, p) => p \in ps
  BY DEF Here
<1>. HIDE DEF ps
<1>4. \A p \in ps : p >= i
  BY <1>2
<1>5. i \in ps /\ i <= Len(s) - Len(mark) + 1
  BY <1>1, <1>2, <1>3, <1>4
<1>6. \A p \in ps : (\A q \in ps : p <= q) => p = i
  BY <1>2, <1>4, <1>5
<1>7. \A q \in ps : i <= q
  BY <1>2, <1>4
<1>8. PICK w : w = CHOOSE p \in ps : \A q \in ps : p <= q
  OBVIOUS
<1>9. w \in ps /\ \A q \in ps : w <= q
  BY <1>5, <1>7, <1>8, Zenon
<1>10. w = i
  BY <1>6, <1>9
<1>. QED  BY <1>1, <1>5, <1>8, <1>10

-----------------------------------------------------------------------------
(* The head of a response.                                                 *)
Top(r) == Lines(<<<<r.status>>>> \o r.headers)

(* h is a head with these headers: it ends with its only blank line, and   *)
(* what stands behind a name in it is the value of a header.               *)
Names == {"te", "cl"}
IsTop(h, headers) ==
  /\ h \in Seq(Byte) /\ Len(h) >= 4
  /\ h[Len(h) - 3] = "CR" /\ h[Len(h) - 2] = "LF"
  /\ h[Len(h) - 1] = "CR" /\ h[Len(h)] = "LF"
  /\ \A p \in 1..(Len(h) - 4) : ~(h[p] = "CR" /\ h[p + 2] = "CR")
  /\ \A k \in 1..(Len(h) - 1) : h[k] \in Names =>
       \E n \in 1..Len(headers) : headers[n] = <<h[k], h[k + 1]>>
  /\ \A n \in 1..Len(headers) : \E k \in 1..(Len(h) - 1) :
       h[k] = headers[n][1] /\ h[k + 1] = headers[n][2]

LEMMA ResponseIs ==
  ASSUME NEW r \in Responses
  PROVE  /\ r.status \in Word /\ r.headers \in Seq((STRING \ {"CR"}) \X Word)
         /\ r.chunks \in Seq(Seq(STRING)) /\ r.ext \in BOOLEAN
         /\ r.trailer \in BOOLEAN /\ r.extra \in Seq(STRING) /\ Means(r)
BY ResponsesAssumption

LEMMA RowIs ==
  ASSUME NEW l, Line(l), NEW m, Joined(m, l, CrLf)
  PROVE  /\ m \in Seq(Byte) /\ Len(m) = Len(l) + 2 /\ \A k \in 1..Len(l) : m[k] = l[k]
         /\ m[Len(l) + 1] = "CR" /\ m[Len(l) + 2] = "LF"
<1>1. l \in Seq(Byte) /\ Len(l) \in Nat
  BY DEF Line
<1>2. /\ m \in Seq(Byte) /\ Len(m) = Len(l) + Len(CrLf)
      /\ \A k \in 1..(Len(l) + Len(CrLf)) :
           m[k] = IF k <= Len(l) THEN l[k] ELSE CrLf[k - Len(l)]
  BY <1>1, BlankIs, JoinedAre
<1>3. PICK n \in Nat : n = Len(l)
  BY <1>1
<1>4. Len(CrLf) = 2
  BY BlankIs
<1>5. /\ Len(m) = n + 2 /\ \A k \in 1..n : m[k] = l[k]
      /\ m[n + 1] = CrLf[(n + 1) - n] /\ m[n + 2] = CrLf[(n + 2) - n]
  BY <1>2, <1>3, <1>4
<1>6. m[n + 1] = "CR" /\ m[n + 2] = "LF"
  <2>1. (n + 1) - n = 1 /\ (n + 2) - n = 2
    OBVIOUS
  <2>. QED  BY <1>5, <2>1, BlankIs
<1>. QED  BY <1>2, <1>3, <1>5, <1>6

(* The lines of the head of a response: the status, and pairs.             *)
Pairs(r) == <<<<r.status>>>> \o r.headers

PairLines(ls, hs, s) ==
  /\ Len(hs) \in Nat /\ Len(ls) = Len(hs) + 1
  /\ Line(ls[1]) /\ Len(ls[1]) = 1 /\ ls[1][1] = s
  /\ \A n \in 1..Len(hs) :
       /\ Line(ls[n + 1]) /\ Len(ls[n + 1]) = 2 /\ hs[n] = <<hs[n][1], hs[n][2]>>
       /\ ls[n + 1][1] = hs[n][1] /\ ls[n + 1][2] = hs[n][2] /\ hs[n][2] \in Word

LEMMA PairsAre ==
  ASSUME NEW r \in Responses, NEW ls, ls = Pairs(r), NEW hs, hs = r.headers
  PROVE  PairLines(ls, hs, r.status)
<1>1. r.status \in Word /\ hs \in Seq((STRING \ {"CR"}) \X Word)
  BY ResponseIs
<1>0. PICK M \in Nat : M = Len(hs)
  BY <1>1
<1>2. PICK s : s = r.status /\ M = Len(hs)
  BY <1>0
<1>3. ASSUME NEW n \in 1..M
      PROVE  /\ hs[n] = <<hs[n][1], hs[n][2]>> /\ Len(hs[n]) = 2
             /\ hs[n][1] \in STRING \ {"CR"} /\ hs[n][2] \in Word
  <2>1. hs[n] \in (STRING \ {"CR"}) \X Word
    BY <1>1, <1>2
  <2>2. PICK x \in STRING \ {"CR"}, y \in Word : hs[n] = <<x, y>>
    <3>1. PICK A, B : A = STRING \ {"CR"} /\ B = Word
      OBVIOUS
    <3>2. hs[n] \in A \X B
      BY <2>1, <3>1
    <3>3. \E x \in A, y \in B : hs[n] = <<x, y>>
      BY <3>2
    <3>. QED  BY <3>1, <3>3
  <2>3. hs[n][1] = x /\ hs[n][2] = y /\ Len(hs[n]) = 2
    BY <2>2
  <2>. QED  BY <2>2, <2>3
<1>4. PICK a : a = <<<<s>>>>
  OBVIOUS
<1>5. PICK S : S = {<<s>>} \cup {hs[n] : n \in 1..M}
  OBVIOUS
<1>6. a \in Seq(S) /\ Len(a) = 1 /\ a[1] = <<s>>
  BY <1>4, <1>5
<1>7. hs \in Seq(S)
  <2>1. \A n \in 1..M : hs[n] \in S
    BY <1>5
  <2>2. hs = [n \in 1..M |-> hs[n]]
    BY <1>1, <1>2
  <2>3. hs \in [1..M -> S]
    BY <2>1, <2>2, Zenon
  <2>. QED  BY <2>3, SeqDef
<1>8. /\ Len(ls) = M + 1 /\ \A k \in 1..(M + 1) : ls[k] = IF k <= 1 THEN a[k] ELSE hs[k - 1]
  <2>1. ls = a \o hs
    BY <1>2, <1>4 DEF Pairs
  <2>2. /\ Len(ls) = Len(a) + Len(hs)
        /\ \A k \in 1..(Len(a) + Len(hs)) :
             ls[k] = IF k <= Len(a) THEN a[k] ELSE hs[k - Len(a)]
    <3>1. PICK b : b = hs /\ b \in Seq(S)
      BY <1>7
    <3>2. /\ Len(a \o b) = Len(a) + Len(b)
          /\ \A k \in 1..(Len(a) + Len(b)) :
               (a \o b)[k] = IF k <= Len(a) THEN a[k] ELSE b[k - Len(a)]
      BY <1>6, <3>1, ConcatProperties, SMTT(30)
    <3>. QED  BY <2>1, <3>1, <3>2
  <2>. QED  BY <1>2, <1>6, <2>2
<1>9. ls[1] = <<s>>
  BY <1>6, <1>8
<1>10. ASSUME NEW n \in 1..M PROVE ls[n + 1] = hs[n]
  <2>1. n + 1 \in 1..(M + 1) /\ ~(n + 1 <= 1) /\ (n + 1) - 1 = n
    OBVIOUS
  <2>. QED  BY <1>8, <2>1
<1>11. Line(<<s>>)
  <2>1. s \in Byte /\ s # "CR"
    BY <1>1, <1>2, BytesAre DEF Word
  <2>2. <<s>> \in Seq(Byte) /\ Len(<<s>>) = 1 /\ <<s>>[1] = s
    BY <2>1
  <2>. QED  BY <2>1, <2>2 DEF Line
<1>12. ASSUME NEW n \in 1..M PROVE Line(hs[n])
  <2>1. PICK x, y : x \in STRING \ {"CR"} /\ y \in Word /\ hs[n] = <<x, y>>
    BY <1>3
  <2>2. x \in Byte /\ y \in Byte /\ x # "CR" /\ y # "CR"
    BY <2>1, BytesAre DEF Word
  <2>. QED  BY <2>1, <2>2 DEF Line
<1>13. Len(<<s>>) = 1 /\ <<s>>[1] = s
  OBVIOUS
<1>14. /\ Line(ls[1]) /\ Len(ls[1]) = 1 /\ ls[1][1] = r.status
  BY <1>2, <1>9, <1>11, <1>13
<1>. QED  BY <1>2, <1>3, <1>8, <1>10, <1>12, <1>14 DEF PairLines

LEMMA TopIs ==
  ASSUME NEW r \in Responses
  PROVE  IsTop(Top(r), r.headers)
<1>1. PICK hs, ls, h, M : hs = r.headers /\ ls = Pairs(r) /\ h = Top(r) /\ M = Len(hs)
  OBVIOUS
<1>2. /\ M \in Nat /\ Len(ls) = M + 1
      /\ Line(ls[1]) /\ Len(ls[1]) = 1 /\ ls[1][1] \in Word
      /\ \A n \in 1..M :
           /\ Line(ls[n + 1]) /\ Len(ls[n + 1]) = 2 /\ hs[n] = <<hs[n][1], hs[n][2]>>
           /\ ls[n + 1][1] = hs[n][1] /\ ls[n + 1][2] = hs[n][2] /\ hs[n][2] \in Word
  <2>1. r.status \in Word
    BY ResponseIs
  <2>2. PairLines(ls, hs, r.status)
    BY <1>1, PairsAre
  <2>. QED  BY <1>1, <2>1, <2>2 DEF PairLines
<1>3. PICK N \in Nat : N = M + 1
  BY <1>2
<1>4. ASSUME NEW n \in 1..N PROVE Line(ls[n])
  <2>1. CASE n = 1
    BY <1>2, <2>1
  <2>2. CASE n # 1
    <3>1. n - 1 \in 1..M /\ (n - 1) + 1 = n
      BY <1>2, <1>3, <2>2
    <3>. QED  BY <1>2, <3>1
  <2>. QED  BY <2>1, <2>2
<1>5. PICK g : Stack(g, Rows(ls), N) /\ Ended(g[N]) /\ Lines(ls) = g[N] \o CrLf
  <2>1. Len(ls) = N /\ Len(ls) \in Nat /\ Len(ls) # 0
    BY <1>2, <1>3
  <2>2. \A n \in 1..Len(ls) : Line(ls[n])
    BY <1>4, <2>1
  <2>3. \E g : /\ Stack(g, Rows(ls), Len(ls)) /\ Ended(g[Len(ls)])
               /\ Lines(ls) = g[Len(ls)] \o CrLf
    BY <2>1, <2>2, LinesEnd
  <2>. QED  BY <2>1, <2>3
<1>6. PICK x, ss, e : x = g[N] /\ ss = Rows(ls) /\ e = Len(x)
  OBVIOUS
<1>7. /\ x \in Seq(Byte) /\ e \in Nat /\ e >= 2 /\ x[e - 1] = "CR" /\ x[e] = "LF"
      /\ \A p \in 1..(e - 2) : ~(x[p] = "CR" /\ x[p + 2] = "CR")
  BY <1>5, <1>6 DEF Ended
<1>8. /\ h \in Seq(Byte) /\ Len(h) = e + 2 /\ \A k \in 1..e : h[k] = x[k]
      /\ h[e + 1] = "CR" /\ h[e + 2] = "LF"
  <2>1. Joined(h, x, CrLf)
    BY <1>1, <1>5, <1>6 DEF Top, Pairs, Joined
  <2>2. /\ h \in Seq(Byte) /\ Len(h) = Len(x) + Len(CrLf)
        /\ \A k \in 1..(Len(x) + Len(CrLf)) :
             h[k] = IF k <= Len(x) THEN x[k] ELSE CrLf[k - Len(x)]
    BY <1>7, <2>1, BlankIs, JoinedAre
  <2>3. Len(CrLf) = 2 /\ CrLf[1] = "CR" /\ CrLf[2] = "LF"
    BY BlankIs
  <2>4. /\ Len(h) = e + 2 /\ \A k \in 1..e : h[k] = x[k]
        /\ h[e + 1] = CrLf[(e + 1) - e] /\ h[e + 2] = CrLf[(e + 2) - e]
    <3>1. PICK c : c = CrLf
      OBVIOUS
    <3>2. /\ Len(h) = e + 2
          /\ \A k \in 1..(e + 2) : h[k] = IF k <= e THEN x[k] ELSE c[k - e]
      BY <1>6, <1>7, <2>2, <2>3, <3>1
    <3>. QED  BY <1>7, <3>1, <3>2
  <2>5. (e + 1) - e = 1 /\ (e + 2) - e = 2
    BY <1>7
  <2>. QED  BY <2>2, <2>3, <2>4, <2>5
<1>9. ASSUME NEW n \in 1..N
      PROVE  /\ Joined(ss[n], ls[n], CrLf) /\ Line(ls[n]) /\ Len(g[n - 1]) \in Nat
             /\ Len(g[n]) = Len(g[n - 1]) + Len(ss[n])
             /\ Len(g[n - 1]) + Len(ss[n]) <= e
             /\ \A k \in 1..Len(ss[n]) : x[Len(g[n - 1]) + k] = ss[n][k]
  <2>1. At(x, 0, x)
    BY <1>7, AtSelf
  <2>2. /\ At(x, 0 + Len(g[n - 1]), ss[n]) /\ Len(g[n]) = Len(g[n - 1]) + Len(ss[n])
    <3>1. Stack(g, ss, N) /\ At(x, 0, g[N]) /\ x \in Seq(Byte)
      BY <1>5, <1>6, <1>7, <2>1
    <3>2. PICK z : z = 0 /\ At(x, z, g[N])
      BY <3>1
    <3>3. /\ At(x, z + Len(g[n - 1]), ss[n]) /\ Len(g[n]) = Len(g[n - 1]) + Len(ss[n])
      <4>1. Piece(x, z, g, ss, n)
        BY <3>1, <3>2, StackAt
      <4>. QED  BY <4>1 DEF Piece
    <3>. QED  BY <3>2, <3>3
  <2>3. g[n - 1] \in Seq(Byte)
    <3>1. n - 1 \in 0..N
      BY <1>3
    <3>. QED  BY <1>5, <3>1 DEF Stack
  <2>4. Joined(ss[n], ls[n], CrLf)
    BY <1>2, <1>3, <1>6 DEF Rows, Joined
  <2>5. 0 + Len(g[n - 1]) = Len(g[n - 1]) /\ Len(g[n - 1]) \in Nat
    BY <2>3
  <2>6. At(x, Len(g[n - 1]), ss[n])
    BY <2>2, <2>5
  <2>. QED  BY <1>4, <1>6, <2>2, <2>4, <2>5, <2>6 DEF At
<1>10. ASSUME NEW n \in 1..M
       PROVE  \E k \in 1..(Len(h) - 1) : h[k] = hs[n][1] /\ h[k + 1] = hs[n][2]
  <2>1. n + 1 \in 1..N /\ (n + 1) - 1 = n
    BY <1>2, <1>3
  <2>2. PICK b, l, m : b = Len(g[n]) /\ l = ls[n + 1] /\ m = ss[n + 1]
    OBVIOUS
  <2>3. /\ Joined(m, l, CrLf) /\ Line(l) /\ b \in Nat
        /\ b + Len(m) <= e /\ \A k \in 1..Len(m) : x[b + k] = m[k]
    BY <1>9, <2>1, <2>2
  <2>4. l[1] = hs[n][1] /\ l[2] = hs[n][2] /\ Len(l) = 2
    BY <1>2, <2>2
  <2>5. Len(m) = 4 /\ m[1] = l[1] /\ m[2] = l[2]
    <3>1. /\ Len(m) = Len(l) + 2 /\ \A k \in 1..Len(l) : m[k] = l[k]
      BY <2>3, RowIs
    <3>. QED  BY <2>4, <3>1
  <2>6. b + 4 <= e /\ x[b + 1] = hs[n][1] /\ x[b + 2] = hs[n][2]
    BY <2>3, <2>4, <2>5
  <2>7. b + 1 \in 1..e /\ b + 2 \in 1..e /\ b + 1 \in 1..(Len(h) - 1) /\ (b + 1) + 1 = b + 2
    BY <1>7, <1>8, <2>3, <2>6
  <2>. QED  BY <1>8, <2>6, <2>7
<1>11. ASSUME NEW k \in 1..(Len(h) - 1), h[k] \in Names
       PROVE  \E n \in 1..M : hs[n] = <<h[k], h[k + 1]>>
  <2>1. k \in 1..(e - 1)
    <3>1. k # e + 1
      BY <1>8, <1>11 DEF Names
    <3>2. k # e
      <4>1. k = e => h[k] = "LF"
        BY <1>7, <1>8
      <4>. QED  BY <1>11, <4>1 DEF Names
    <3>. QED  BY <1>7, <1>8, <3>1, <3>2
  <2>2. h[k] = x[k] /\ h[k + 1] = x[k + 1]
    <3>1. k \in 1..e /\ k + 1 \in 1..e
      BY <1>7, <2>1
    <3>. QED  BY <1>8, <3>1
  <2>. DEFINE T == {n \in 0..N : k <= Len(g[n])}
  <2>3. N \in T
    BY <1>6, <1>7, <2>1
  <2>4. PICK n \in T : \A m \in 0..(n - 1) : m \notin T
    <3>1. T \in SUBSET Nat /\ T # {}
      BY <2>3
    <3>. HIDE DEF T
    <3>. QED  BY <3>1, LeastNumber
  <2>5. n \in 0..N /\ k <= Len(g[n])
    OBVIOUS
  <2>6. n \in 1..N
    <3>1. Len(g[0]) = 0
      BY <1>5 DEF Stack
    <3>. QED  BY <2>1, <2>5, <3>1
  <2>7. ~(k <= Len(g[n - 1]))
    <3>1. n - 1 \in 0..N /\ n - 1 \in 0..(n - 1)
      BY <2>6
    <3>. QED  BY <2>4, <3>1
  <2>8. PICK b, l, m : b = Len(g[n - 1]) /\ l = ls[n] /\ m = ss[n]
    OBVIOUS
  <2>9. /\ Joined(m, l, CrLf) /\ Line(l) /\ b \in Nat /\ Len(g[n]) = b + Len(m)
        /\ \A i \in 1..Len(m) : x[b + i] = m[i]
    BY <1>9, <2>6, <2>8
  <2>10. Len(m) = Len(l) + 2 /\ Len(m) \in Nat /\ \A i \in 1..Len(l) : m[i] = l[i]
    BY <2>9, RowIs
  <2>11. m[Len(l) + 1] = "CR" /\ m[Len(l) + 2] = "LF"
    BY <2>9, RowIs
  <2>12. PICK j \in 1..Len(m) : k = b + j
    <3>1. k - b \in 1..Len(m) /\ k = b + (k - b)
      <4>1. PICK u \in Nat, v \in Nat, w \in Nat : u = Len(m) /\ v = b /\ w = k
        BY <1>7, <2>1, <2>9, <2>10
      <4>2. w <= v + u /\ ~(w <= v)
        BY <2>5, <2>7, <2>8, <2>9, <4>1
      <4>3. w - v \in 1..u /\ w = v + (w - v)
        BY <4>2
      <4>. QED  BY <4>1, <4>3
    <3>. QED  BY <3>1
  <2>13. x[k] = m[j]
    BY <2>9, <2>12
  <2>14. CASE n = 1
    <3>1. Len(l) = 1 /\ l[1] \in Word
      BY <1>2, <2>8, <2>14
    <3>2. j \in {1, 2, 3} /\ m[1] = l[1] /\ m[2] = "CR" /\ m[3] = "LF"
      BY <2>10, <2>11, <3>1
    <3>3. m[j] \notin Names
      BY <3>1, <3>2 DEF Names, Word
    <3>. QED  BY <1>11, <2>2, <2>13, <3>3
  <2>15. CASE n # 1
    <3>1. n - 1 \in 1..M /\ (n - 1) + 1 = n
      BY <1>2, <1>3, <2>6, <2>15
    <3>2. PICK i \in 1..M : i = n - 1 /\ i + 1 = n
      BY <3>1
    <3>3. /\ Len(l) = 2 /\ hs[i] = <<hs[i][1], hs[i][2]>>
          /\ l[1] = hs[i][1] /\ l[2] = hs[i][2] /\ hs[i][2] \in Word
      BY <1>2, <2>8, <3>2
    <3>4. /\ j \in {1, 2, 3, 4} /\ m[1] = l[1] /\ m[2] = l[2]
          /\ m[3] = "CR" /\ m[4] = "LF"
      BY <2>10, <2>11, <3>3
    <3>5. j = 1
      BY <1>11, <2>2, <2>13, <3>3, <3>4 DEF Names, Word
    <3>6. x[k + 1] = m[2]
      <4>1. 2 \in 1..Len(m) /\ b + 2 = k + 1
        BY <2>9, <2>10, <2>12, <3>3, <3>5
      <4>. QED  BY <2>9, <4>1
    <3>. QED  BY <2>2, <2>13, <3>2, <3>3, <3>4, <3>5, <3>6
  <2>. QED  BY <2>14, <2>15
<1>12. /\ Len(h) - 3 = e - 1 /\ Len(h) - 2 = e /\ Len(h) - 1 = e + 1 /\ Len(h) = e + 2
       /\ Len(h) - 4 = e - 2 /\ Len(h) >= 4 /\ e - 1 \in 1..e /\ e \in 1..e
  BY <1>7, <1>8
<1>13. ASSUME NEW p \in 1..(e - 2), h[p] = "CR", h[p + 2] = "CR" PROVE FALSE
  <2>1. p \in 1..e /\ p + 2 \in 1..e
    BY <1>7
  <2>. QED  BY <1>7, <1>8, <1>13, <2>1
<1>14. h[e - 1] = "CR" /\ h[e] = "LF"
  BY <1>7, <1>8, <1>12
<1>. QED  BY <1>1, <1>8, <1>10, <1>11, <1>12, <1>13, <1>14 DEF IsTop

-----------------------------------------------------------------------------
(* What the reader gets for a name, it gets from a header.                 *)
Gets(v, headers, name) ==
  \/ v = "none" /\ \A n \in 1..Len(headers) : headers[n][1] # name
  \/ v # "none" /\ \E n \in 1..Len(headers) : headers[n] = <<name, v>>

LEMMA GetIs ==
  ASSUME NEW r \in Responses, NEW name \in Names
  PROVE  Gets(Get(Top(r), name), r.headers, name)
<1>1. PICK h, hs : h = Top(r) /\ hs = r.headers /\ IsTop(h, hs)
  BY TopIs
<1>2. /\ h \in Seq(Byte) /\ Len(h) \in Nat
      /\ \A k \in 1..(Len(h) - 1) : h[k] \in Names =>
           \E n \in 1..Len(hs) : hs[n] = <<h[k], h[k + 1]>>
      /\ \A n \in 1..Len(hs) : \E k \in 1..(Len(h) - 1) :
           h[k] = hs[n][1] /\ h[k + 1] = hs[n][2]
  <2>1. /\ h \in Seq(Byte)
        /\ \A k \in 1..(Len(h) - 1) : h[k] \in Names =>
             \E n \in 1..Len(hs) : hs[n] = <<h[k], h[k + 1]>>
        /\ \A n \in 1..Len(hs) : \E k \in 1..(Len(h) - 1) :
             h[k] = hs[n][1] /\ h[k + 1] = hs[n][2]
    BY <1>1, Zenon DEF IsTop
  <2>2. Len(h) \in Nat
    BY <2>1
  <2>. QED  BY <2>1, <2>2
<1>0. Len(h) \in Nat
  BY <1>2
<1>3. \A n \in 1..Len(hs) : hs[n][2] # "none"
  <2>1. PairLines(Pairs(r), hs, r.status)
    BY <1>1, PairsAre
  <2>. QED  BY <2>1 DEF PairLines, Word
<1>4. PICK ns : ns = Values(h, name)
  OBVIOUS
<1>5. \A n : n \in ns <=> n \in 2..Len(h) /\ h[n - 1] = name
  BY <1>4 DEF Values
<1>6. CASE ns = {}
  <2>1. Get(h, name) = "none"
    BY <1>4, <1>6 DEF Get
  <2>2. ASSUME NEW n \in 1..Len(hs), hs[n][1] = name PROVE FALSE
    <3>1. PICK k \in 1..(Len(h) - 1) : h[k] = name
      BY <1>2, <2>2
    <3>2. k + 1 \in 2..Len(h) /\ (k + 1) - 1 = k
      BY <1>2
    <3>3. k + 1 \in ns
      BY <1>5, <3>1, <3>2
    <3>. QED  BY <1>6, <3>3
  <2>. QED  BY <1>1, <2>1, <2>2 DEF Gets
<1>7. CASE ns # {}
  <2>1. ns \in SUBSET Nat
    BY <1>2, <1>5
  <2>2. PICK n \in ns : \A m \in 0..(n - 1) : m \notin ns
    BY <1>7, <2>1, LeastNumber
  <2>3. \A m \in ns : n <= m
    <3>1. ASSUME NEW m \in ns, ~(n <= m) PROVE FALSE
      <4>1. m \in Nat /\ n \in Nat
        BY <2>1
      <4>2. m \in 0..(n - 1)
        BY <3>1, <4>1
      <4>. QED  BY <2>2, <4>2
    <3>. QED  BY <3>1
  <2>4. PICK w : w = CHOOSE n1 \in ns : \A m \in ns : n1 <= m
    OBVIOUS
  <2>5. w \in ns
    BY <2>3, <2>4, Zenon
  <2>6. Get(h, name) = h[w]
    BY <1>4, <1>7, <2>4 DEF Get
  <2>7. w - 1 \in 1..(Len(h) - 1) /\ (w - 1) + 1 = w /\ h[w - 1] = name
    <3>1. w \in 2..Len(h) /\ h[w - 1] = name
      BY <1>5, <2>5
    <3>. QED  BY <1>0, <3>1
  <2>8. PICK i \in 1..Len(hs) : hs[i] = <<name, h[w]>>
    <3>1. PICK i \in 1..Len(hs) : hs[i] = <<h[w - 1], h[(w - 1) + 1]>>
      BY <1>2, <2>7
    <3>. QED  BY <2>7, <3>1
  <2>9. hs[i][2] = h[w]
    BY <2>8
  <2>10. h[w] # "none"
    BY <1>3, <2>9
  <2>. QED  BY <1>1, <2>6, <2>8, <2>10 DEF Gets
<1>. QED  BY <1>6, <1>7

-----------------------------------------------------------------------------
(* A response on the wire.                                                 *)
Coded(r) == [n \in 1..Len(r.chunks) |-> Chunk(r, r.chunks[n])]
Trail(r) == IF r.trailer THEN <<"t">> \o CrLf ELSE <<>>

LEMMA OneIs ==
  ASSUME NEW d \in Byte
  PROVE  <<d>> \in Seq(Byte) /\ Len(<<d>>) = 1 /\ <<d>>[1] = d
OBVIOUS

LEMMA TwoAre ==
  ASSUME NEW c \in Byte, NEW d \in Byte
  PROVE  <<c, d>> \in Seq(Byte) /\ Len(<<c, d>>) = 2 /\ <<c, d>>[1] = c /\ <<c, d>>[2] = d
OBVIOUS

SizeLineLike(s, n) ==
  /\ s \in Seq(Byte) /\ Len(s) \in {1, 3} /\ s[1] = Digits[n + 1]
  /\ Len(s) = 3 => s[2] = ";"
  /\ \A k \in 1..Len(s) : s[k] # "CR"

LEMMA SizeLineIs ==
  ASSUME NEW r, NEW n \in 0..3
  PROVE  SizeLineLike(SizeLine(r, n), n)
<1>1. Digits[n + 1] \in {"0", "1", "2", "3"}
  BY DEF Digits
<1>2. PICK d : d = Digits[n + 1] /\ d \in {"0", "1", "2", "3"}
  BY <1>1
<1>3. d \in Byte /\ ";" \in Byte /\ "x" \in Byte /\ d # "CR"
  BY <1>2 DEF Byte
<1>4. PICK a, b : a = <<d>> /\ b = <<";", "x">>
  OBVIOUS
<1>5. a \in Seq(Byte) /\ Len(a) = 1 /\ a[1] = d
  BY <1>3, <1>4, OneIs
<1>6. b \in Seq(Byte) /\ Len(b) = 2 /\ b[1] = ";" /\ b[2] = "x"
  BY <1>3, <1>4, TwoAre
<1>7. PICK s : s = SizeLine(r, n)
  OBVIOUS
<1>8. CASE r.ext
  <2>1. Joined(s, a, b)
    BY <1>2, <1>4, <1>7, <1>8 DEF SizeLine, Joined
  <2>2. /\ s \in Seq(Byte) /\ Len(s) = Len(a) + Len(b)
        /\ \A k \in 1..(Len(a) + Len(b)) :
             s[k] = IF k <= Len(a) THEN a[k] ELSE b[k - Len(a)]
    BY <1>5, <1>6, <2>1, JoinedAre, Zenon
  <2>3. Len(s) = 3 /\ \A k \in 1..3 : s[k] = IF k <= 1 THEN a[k] ELSE b[k - 1]
    <3>1. PICK u \in Nat, v \in Nat : u = Len(a) /\ v = Len(b) /\ u = 1 /\ v = 2
      BY <1>5, <1>6
    <3>. QED  BY <2>2, <3>1
  <2>4. s[1] = d /\ s[2] = ";" /\ s[3] = "x"
    <3>1. s[1] = a[1] /\ s[2] = b[1] /\ s[3] = b[2]
      BY <2>3
    <3>. QED  BY <1>5, <1>6, <3>1
  <2>5. \A k \in 1..Len(s) : s[k] # "CR"
    <3>1. \A k \in 1..Len(s) : k \in {1, 2, 3}
      BY <2>3
    <3>. QED  BY <1>3, <2>4, <3>1
  <2>. QED  BY <1>2, <1>7, <2>2, <2>3, <2>4, <2>5 DEF SizeLineLike
<1>9. CASE ~r.ext
  <2>1. s = a \o <<>>
    BY <1>2, <1>4, <1>7, <1>9 DEF SizeLine
  <2>2. s = a
    BY <1>5, <2>1, ConcatEmptySeq
  <2>3. \A k \in 1..Len(s) : s[k] # "CR"
    <3>1. Len(s) = 1 /\ s[1] = d
      BY <1>5, <2>2
    <3>2. \A k \in 1..Len(s) : k = 1
      BY <3>1
    <3>. QED  BY <1>3, <3>1, <3>2
  <2>4. s \in Seq(Byte) /\ Len(s) = 1 /\ s[1] = d
    BY <1>5, <2>2
  <2>. QED  BY <1>2, <1>7, <2>3, <2>4 DEF SizeLineLike
<1>. QED  BY <1>8, <1>9

(* A chunk, as it is coded.                                                *)
LEMMA ChunkAt ==
  ASSUME NEW r, NEW c \in Seq(Byte), Len(c) \in 0..3, NEW e \in Seq(Byte), NEW p,
         At(e, p, Chunk(r, c)), NEW s, s = SizeLine(r, Len(c))
  PROVE  /\ At(e, p, s) /\ At(e, p + Len(s), CrLf) /\ At(e, (p + Len(s)) + 2, c)
         /\ Len(Chunk(r, c)) = Len(s) + 2 + Len(c) + 2
<1>1. s \in Seq(Byte) /\ Len(s) \in Nat
  <2>1. SizeLineLike(s, Len(c))
    BY SizeLineIs
  <2>2. s \in Seq(Byte)
    BY <2>1, Zenon DEF SizeLineLike
  <2>. QED  BY <2>2
<1>2. CrLf \in Seq(Byte) /\ Len(CrLf) = 2
  BY BlankIs
<1>3. PICK x, y, z : x = s \o CrLf /\ y = x \o c /\ z = y \o CrLf
  OBVIOUS
<1>4. z = Chunk(r, c) /\ At(e, p, z)
  BY <1>3 DEF Chunk
<1>5. Joined(x, s, CrLf) /\ Joined(y, x, c) /\ Joined(z, y, CrLf)
  BY <1>3 DEF Joined
<1>6. x \in Seq(Byte)
  BY <1>1, <1>2, <1>5, JoinedAre
<1>7. y \in Seq(Byte)
  BY <1>5, <1>6, JoinedAre
<1>8. Len(z) = Len(y) + Len(CrLf) /\ At(e, p, y)
  <2>1. Parted(e, p, z, y, CrLf)
    BY <1>2, <1>4, <1>5, <1>7, AtParts
  <2>. QED  BY <2>1 DEF Parted
<1>9. Len(y) = Len(x) + Len(c) /\ At(e, p, x) /\ At(e, p + Len(x), c)
  <2>1. Parted(e, p, y, x, c)
    BY <1>5, <1>6, <1>8, AtParts
  <2>. QED  BY <2>1 DEF Parted
<1>10. Len(x) = Len(s) + Len(CrLf) /\ At(e, p, s) /\ At(e, p + Len(s), CrLf)
  <2>1. Parted(e, p, x, s, CrLf)
    BY <1>1, <1>2, <1>5, <1>9, AtParts
  <2>. QED  BY <2>1 DEF Parted
<1>11. p + Len(x) = (p + Len(s)) + 2 /\ Len(z) = Len(s) + 2 + Len(c) + 2
  <2>1. p \in Nat
    BY <1>4 DEF At
  <2>. QED  BY <1>1, <1>2, <1>8, <1>9, <1>10, <2>1
<1>. QED  BY <1>4, <1>9, <1>10, <1>11

-----------------------------------------------------------------------------
Piled(ss) == CHOOSE g : Stack(g, ss, Len(ss)) /\ FlattenSeq(ss) = g[Len(ss)]
ChunksTo(r) == Piled(Coded(r))
BodyTo(r) == Piled(r.chunks)

(* Where the m-th chunk of a response ends.                                *)
ChunkEnd(r, m) == Len(Top(r)) + Len(ChunksTo(r)[m])

LEMMA PiledIs ==
  ASSUME NEW ss, NEW N \in Nat, N = Len(ss), N = 0 => ss = <<>>,
         \A n \in 1..N : ss[n] \in Seq(Byte)
  PROVE  Stack(Piled(ss), ss, N) /\ FlattenSeq(ss) = Piled(ss)[N]
<1>1. \E g : Stack(g, ss, Len(ss)) /\ FlattenSeq(ss) = g[Len(ss)]
  BY StackExists
<1>2. Stack(Piled(ss), ss, Len(ss)) /\ FlattenSeq(ss) = Piled(ss)[Len(ss)]
  BY <1>1, Zenon DEF Piled
<1>. QED  BY <1>2

LEMMA EmptyIs ==
  ASSUME NEW S, NEW s \in Seq(S), Len(s) = 0
  PROVE  s = <<>>
OBVIOUS

LEMMA PartsAre ==
  ASSUME NEW r \in Responses
  PROVE  /\ Len(r.chunks) \in Nat /\ Top(r) \in Seq(Byte) /\ r.extra \in Seq(Byte)
         /\ \A n \in 1..Len(r.chunks) : r.chunks[n] \in Seq(Byte)
         /\ Stack(BodyTo(r), r.chunks, Len(r.chunks))
         /\ Body(r) = BodyTo(r)[Len(r.chunks)] /\ Body(r) \in Seq(Byte)
<1>1. r.chunks \in Seq(Seq(STRING)) /\ r.extra \in Seq(STRING)
  BY ResponseIs
<1>2. PICK cs, N : cs = r.chunks /\ N = Len(cs)
  OBVIOUS
<1>3. cs \in Seq(Seq(STRING)) /\ N \in Nat
  BY <1>1, <1>2
<1>4. ASSUME NEW n \in 1..N PROVE cs[n] \in Seq(Byte)
  <2>1. cs[n] \in Seq(STRING)
    BY <1>2, <1>3
  <2>. QED  BY <2>1, WidenTo
<1>5. N = 0 => cs = <<>>
  <2>1. PICK S : cs \in Seq(S)
    BY <1>3
  <2>. QED  BY <1>2, <2>1, EmptyIs
<1>6. Stack(Piled(cs), cs, N) /\ FlattenSeq(cs) = Piled(cs)[N]
  BY <1>2, <1>3, <1>4, <1>5, PiledIs
<1>7. Piled(cs)[N] \in Seq(Byte)
  <2>1. N \in 0..N
    BY <1>3
  <2>. QED  BY <1>6, <2>1 DEF Stack
<1>8. Top(r) \in Seq(Byte)
  BY TopIs, Zenon DEF IsTop
<1>9. r.extra \in Seq(Byte)
  BY <1>1, WidenTo
<1>. QED  BY <1>2, <1>3, <1>4, <1>6, <1>7, <1>8, <1>9 DEF BodyTo, Body

Framing(e, t, m, x) ==
  /\ e \in Seq(Byte) /\ At(e, 0, t) /\ At(e, Len(t), m)
  /\ At(e, Len(t) + Len(m), x) /\ Len(e) = Len(t) + Len(m) + Len(x)

LEMMA Assembled ==
  ASSUME NEW t \in Seq(Byte), NEW m \in Seq(Byte), NEW x \in Seq(Byte), NEW u, NEW e,
         Joined(u, t, m), Joined(e, u, x)
  PROVE  Framing(e, t, m, x)
<1>1. u \in Seq(Byte)
  BY JoinedAre
<1>2. e \in Seq(Byte)
  BY <1>1, JoinedAre
<1>3. PICK z : z = 0
  OBVIOUS
<1>4. At(e, z, e)
  BY <1>2, <1>3, AtSelf
<1>5. Parted(e, z, e, u, x)
  BY <1>1, <1>2, <1>4, AtParts
<1>6. Len(e) = Len(u) + Len(x) /\ At(e, z, u) /\ At(e, z + Len(u), x)
  BY <1>5 DEF Parted
<1>7. Parted(e, z, u, t, m)
  BY <1>2, <1>6, AtParts
<1>8. Len(u) = Len(t) + Len(m) /\ At(e, z, t) /\ At(e, z + Len(t), m)
  BY <1>7 DEF Parted
<1>9. z + Len(t) = Len(t) /\ z + Len(u) = Len(t) + Len(m)
  BY <1>3, <1>8
<1>. QED  BY <1>2, <1>3, <1>6, <1>8, <1>9 DEF Framing

LEMMA PlainIs ==
  ASSUME NEW r \in Responses, ~Chunked(r)
  PROVE  Framing(Encoded(r), Top(r), Body(r), r.extra)
<1>1. PICK t, m, x, u, e : /\ t = Top(r) /\ m = Body(r) /\ x = r.extra
                           /\ u = t \o m /\ e = u \o x
  OBVIOUS
<1>2. e = Encoded(r)
  BY <1>1 DEF Encoded, Top
<1>3. t \in Seq(Byte) /\ m \in Seq(Byte) /\ x \in Seq(Byte)
  BY <1>1, PartsAre
<1>4. Joined(u, t, m) /\ Joined(e, u, x)
  BY <1>1 DEF Joined
<1>5. Framing(e, t, m, x)
  BY <1>3, <1>4, Assembled
<1>. QED  BY <1>1, <1>2, <1>5

LEMMA ChunkSeq ==
  ASSUME NEW r, NEW c \in Seq(Byte), Len(c) \in 0..3
  PROVE  Chunk(r, c) \in Seq(Byte)
<1>1. PICK s : s = SizeLine(r, Len(c))
  OBVIOUS
<1>2. s \in Seq(Byte)
  BY <1>1, SizeLineIs, Zenon DEF SizeLineLike
<1>3. CrLf \in Seq(Byte)
  BY BlankIs
<1>4. PICK x, y, z : x = s \o CrLf /\ y = x \o c /\ z = y \o CrLf
  OBVIOUS
<1>5. Joined(x, s, CrLf) /\ Joined(y, x, c) /\ Joined(z, y, CrLf)
  BY <1>4 DEF Joined
<1>6. x \in Seq(Byte)
  BY <1>2, <1>3, <1>5, JoinedAre
<1>7. y \in Seq(Byte)
  BY <1>5, <1>6, JoinedAre
<1>8. z \in Seq(Byte)
  BY <1>3, <1>5, <1>7, JoinedAre
<1>. QED  BY <1>1, <1>4, <1>8 DEF Chunk

LEMMA CodedIs ==
  ASSUME NEW r \in Responses, Chunked(r)
  PROVE  /\ \A n \in 1..Len(r.chunks) : Len(r.chunks[n]) \in 1..3
         /\ Stack(ChunksTo(r), Coded(r), Len(r.chunks))
         /\ FlattenSeq(Coded(r)) = ChunksTo(r)[Len(r.chunks)]
<1>1. PICK cs, N, ss : cs = r.chunks /\ N = Len(cs) /\ ss = Coded(r)
  OBVIOUS
<1>2. /\ N \in Nat /\ \A n \in 1..N : cs[n] \in Seq(Byte)
  BY <1>1, PartsAre
<1>3. \A n \in 1..N : Len(cs[n]) \in 1..3
  BY <1>1, ResponseIs DEF Means
<1>4. ASSUME NEW n \in 1..N PROVE ss[n] \in Seq(Byte)
  <2>1. ss[n] = Chunk(r, cs[n])
    BY <1>1 DEF Coded
  <2>2. cs[n] \in Seq(Byte) /\ Len(cs[n]) \in 0..3
    BY <1>2, <1>3
  <2>. QED  BY <2>1, <2>2, ChunkSeq
<1>5. Len(ss) = N
  BY <1>1, <1>2 DEF Coded
<1>6. N = 0 => ss = <<>>
  BY <1>1 DEF Coded
<1>7. Stack(Piled(ss), ss, N) /\ FlattenSeq(ss) = Piled(ss)[N]
  BY <1>2, <1>4, <1>5, <1>6, PiledIs
<1>. QED  BY <1>1, <1>3, <1>7 DEF ChunksTo

-----------------------------------------------------------------------------
(* Where a chunk lies, and where what is behind the last one.              *)
ChunkLies(e, r, m) ==
  LET c == r.chunks[m]
      s == SizeLine(r, Len(c))
      p == ChunkEnd(r, m - 1)
  IN  /\ Len(c) \in 1..3 /\ c \in Seq(Byte)
      /\ At(e, p, s) /\ At(e, p + Len(s), CrLf) /\ At(e, (p + Len(s)) + 2, c)
      /\ ChunkEnd(r, m) = ((p + Len(s)) + 2) + (Len(c) + 2)

LastLies(e, r) ==
  LET s == SizeLine(r, 0)
      p == ChunkEnd(r, Len(r.chunks))
      q == (p + Len(s)) + 2
      n == Len(Trail(r))
  IN  /\ At(e, p, s) /\ At(e, p + Len(s), CrLf)
      /\ At(e, q, Trail(r)) /\ At(e, q + n, CrLf)
      /\ Len(e) = q + n + 2 + Len(r.extra)

LEMMA TrailIs ==
  ASSUME NEW r, NEW t, t = Trail(r)
  PROVE  /\ t \in Seq(Byte)
         /\ IF r.trailer THEN Len(t) = 3 /\ t[1] = "t" /\ t[2] = "CR" /\ t[3] = "LF"
                         ELSE Len(t) = 0
<1>1. CASE r.trailer
  <2>1. "t" \in Byte
    BY DEF Byte
  <2>2. PICK a : a = <<"t">>
    OBVIOUS
  <2>3. a \in Seq(Byte) /\ Len(a) = 1 /\ a[1] = "t"
    BY <2>1, <2>2, OneIs
  <2>4. Joined(t, a, CrLf)
    BY <1>1, <2>2 DEF Trail, Joined
  <2>5. CrLf \in Seq(Byte) /\ Len(CrLf) = 2 /\ CrLf[1] = "CR" /\ CrLf[2] = "LF"
    BY BlankIs
  <2>6. /\ t \in Seq(Byte) /\ Len(t) = Len(a) + Len(CrLf)
        /\ \A k \in 1..(Len(a) + Len(CrLf)) :
             t[k] = IF k <= Len(a) THEN a[k] ELSE CrLf[k - Len(a)]
    BY <2>3, <2>4, <2>5, JoinedAre
  <2>7. Len(t) = 3 /\ \A k \in 1..3 : t[k] = IF k <= 1 THEN a[k] ELSE CrLf[k - 1]
    <3>1. PICK u \in Nat, v \in Nat : u = Len(a) /\ v = Len(CrLf) /\ u = 1 /\ v = 2
      BY <2>3, <2>5
    <3>. QED  BY <2>6, <3>1
  <2>8. t[1] = a[1] /\ t[2] = CrLf[1] /\ t[3] = CrLf[2]
    BY <2>7
  <2>. QED  BY <1>1, <2>3, <2>5, <2>6, <2>7, <2>8
<1>2. CASE ~r.trailer
  <2>1. t = <<>>
    BY <1>2 DEF Trail
  <2>. QED  BY <1>2, <2>1
<1>. QED  BY <1>1, <1>2

LEMMA ChunkedIs ==
  ASSUME NEW r \in Responses, Chunked(r)
  PROVE  /\ Encoded(r) \in Seq(Byte) /\ At(Encoded(r), 0, Top(r))
         /\ At(Encoded(r), Len(Top(r)), ChunksTo(r)[Len(r.chunks)])
         /\ LastLies(Encoded(r), r)
<1>1. PICK f, s, t : f = FlattenSeq(Coded(r)) /\ s = SizeLine(r, 0) /\ t = Trail(r)
  OBVIOUS
<1>2. PICK a, b, c, m : a = f \o s /\ b = a \o CrLf /\ c = b \o t /\ m = c \o CrLf
  OBVIOUS
<1>3. PICK h, x, u, e : /\ h = Top(r) /\ x = r.extra
                        /\ u = h \o m /\ e = u \o x
  OBVIOUS
<1>4. e = Encoded(r)
  BY <1>1, <1>2, <1>3 DEF Encoded, Top, Coded, Trail
<1>5. f \in Seq(Byte) /\ f = ChunksTo(r)[Len(r.chunks)]
  <2>1. Stack(ChunksTo(r), Coded(r), Len(r.chunks))
    BY CodedIs
  <2>2. f = ChunksTo(r)[Len(r.chunks)]
    BY <1>1, CodedIs
  <2>3. Len(r.chunks) \in 0..Len(r.chunks)
    BY PartsAre
  <2>. QED  BY <2>1, <2>2, <2>3 DEF Stack
<1>6. s \in Seq(Byte)
  <2>1. SizeLineLike(s, 0)
    BY <1>1, SizeLineIs
  <2>. QED  BY <2>1, Zenon DEF SizeLineLike
<1>7. t \in Seq(Byte) /\ CrLf \in Seq(Byte) /\ Len(CrLf) = 2
  BY <1>1, TrailIs, BlankIs
<1>8. Joined(a, f, s) /\ Joined(b, a, CrLf) /\ Joined(c, b, t) /\ Joined(m, c, CrLf)
  BY <1>2 DEF Joined
<1>9. a \in Seq(Byte)
  BY <1>5, <1>6, <1>8, JoinedAre
<1>10. b \in Seq(Byte)
  BY <1>7, <1>8, <1>9, JoinedAre
<1>11. c \in Seq(Byte)
  BY <1>7, <1>8, <1>10, JoinedAre
<1>12. m \in Seq(Byte)
  BY <1>7, <1>8, <1>11, JoinedAre
<1>13. h \in Seq(Byte) /\ x \in Seq(Byte)
  BY <1>3, PartsAre
<1>14. Joined(u, h, m) /\ Joined(e, u, x)
  BY <1>3 DEF Joined
<1>15. Framing(e, h, m, x)
  BY <1>12, <1>13, <1>14, Assembled
<1>16. /\ e \in Seq(Byte) /\ At(e, 0, h) /\ At(e, Len(h), m)
       /\ Len(e) = Len(h) + Len(m) + Len(x)
  BY <1>15 DEF Framing
<1>17. PICK p \in Nat : p = Len(h)
  BY <1>13
<1>18. Len(m) = Len(c) + Len(CrLf) /\ At(e, p, c) /\ At(e, p + Len(c), CrLf)
  <2>1. Parted(e, p, m, c, CrLf)
    BY <1>7, <1>8, <1>11, <1>16, <1>17, AtParts
  <2>. QED  BY <2>1 DEF Parted
<1>19. Len(c) = Len(b) + Len(t) /\ At(e, p, b) /\ At(e, p + Len(b), t)
  <2>1. Parted(e, p, c, b, t)
    BY <1>7, <1>8, <1>10, <1>16, <1>18, AtParts
  <2>. QED  BY <2>1 DEF Parted
<1>20. Len(b) = Len(a) + Len(CrLf) /\ At(e, p, a) /\ At(e, p + Len(a), CrLf)
  <2>1. Parted(e, p, b, a, CrLf)
    BY <1>7, <1>8, <1>9, <1>16, <1>19, AtParts
  <2>. QED  BY <2>1 DEF Parted
<1>21. Len(a) = Len(f) + Len(s) /\ At(e, p, f) /\ At(e, p + Len(f), s)
  <2>1. Parted(e, p, a, f, s)
    BY <1>5, <1>6, <1>8, <1>16, <1>20, AtParts
  <2>. QED  BY <2>1 DEF Parted
<1>22. PICK i \in Nat, j \in Nat, k \in Nat, l \in Nat :
         i = Len(f) /\ j = Len(s) /\ k = Len(t) /\ l = Len(x)
  BY <1>5, <1>6, <1>7, <1>13
<1>23. /\ Len(a) = i + j /\ Len(b) = i + j + 2 /\ Len(c) = i + j + 2 + k
       /\ Len(e) = p + (i + j + 2 + k + 2) + l
  BY <1>7, <1>16, <1>17, <1>18, <1>19, <1>20, <1>21, <1>22
<1>24. PICK z \in Nat : z = p + i
  OBVIOUS
<1>25. /\ p + Len(a) = z + j /\ p + Len(b) = (z + j) + 2 /\ p + Len(c) = ((z + j) + 2) + k
       /\ Len(e) = ((z + j) + 2) + k + 2 + l
  BY <1>23, <1>24
<1>26. z = ChunkEnd(r, Len(r.chunks))
  BY <1>3, <1>5, <1>17, <1>22, <1>24 DEF ChunkEnd
<1>27. /\ At(e, z, s) /\ At(e, z + j, CrLf) /\ At(e, (z + j) + 2, t)
       /\ At(e, ((z + j) + 2) + k, CrLf)
  BY <1>18, <1>19, <1>20, <1>21, <1>22, <1>24, <1>25
<1>28. LastLies(e, r)
  BY <1>1, <1>3, <1>22, <1>25, <1>26, <1>27 DEF LastLies
<1>. QED  BY <1>3, <1>4, <1>5, <1>16, <1>17, <1>21, <1>28

LEMMA ChunksLie ==
  ASSUME NEW r \in Responses, Chunked(r), NEW m \in 1..Len(r.chunks)
  PROVE  ChunkLies(Encoded(r), r, m)
<1>1. PICK e, N, g, ss, p, c : /\ e = Encoded(r) /\ N = Len(r.chunks) /\ g = ChunksTo(r)
                               /\ ss = Coded(r) /\ p = Len(Top(r)) /\ c = r.chunks[m]
  OBVIOUS
<1>2. e \in Seq(Byte) /\ At(e, p, g[N])
  BY <1>1, ChunkedIs
<1>3. Stack(g, ss, N) /\ m \in 1..N
  BY <1>1, CodedIs
<1>4. Piece(e, p, g, ss, m)
  BY <1>2, <1>3, StackAt
<1>5. At(e, p + Len(g[m - 1]), ss[m]) /\ Len(g[m]) = Len(g[m - 1]) + Len(ss[m])
  BY <1>4 DEF Piece
<1>6. c \in Seq(Byte) /\ Len(c) \in 1..3 /\ ss[m] = Chunk(r, c)
  <2>1. c \in Seq(Byte)
    BY <1>1, <1>3, PartsAre
  <2>2. Len(c) \in 1..3
    BY <1>1, <1>3, CodedIs
  <2>. QED  BY <1>1, <2>1, <2>2 DEF Coded
<1>7. PICK z, s : z = p + Len(g[m - 1]) /\ s = SizeLine(r, Len(c))
  OBVIOUS
<1>8. Len(c) \in 0..3 /\ At(e, z, Chunk(r, c))
  BY <1>5, <1>6, <1>7
<1>9. /\ At(e, z, s) /\ At(e, z + Len(s), CrLf) /\ At(e, (z + Len(s)) + 2, c)
      /\ Len(Chunk(r, c)) = Len(s) + 2 + Len(c) + 2
  BY <1>2, <1>6, <1>7, <1>8, ChunkAt, SMTT(30)
<1>10. z = ChunkEnd(r, m - 1)
  BY <1>1, <1>7 DEF ChunkEnd
<1>11. ChunkEnd(r, m) = ((z + Len(s)) + 2) + (Len(c) + 2)
  <2>1. Len(g[m - 1]) \in Nat
    <3>1. N \in Nat
      BY <1>3 DEF Stack
    <3>2. m - 1 \in 0..N
      BY <1>3, <3>1
    <3>. QED  BY <1>3, <3>2 DEF Stack
  <2>2. p \in Nat /\ Len(s) \in Nat /\ Len(c) \in Nat
    <3>1. p \in Nat
      BY <1>2 DEF At
    <3>2. s \in Seq(Byte)
      BY <1>9 DEF At
    <3>. QED  BY <1>6, <3>1, <3>2
  <2>3. ChunkEnd(r, m) = p + Len(g[m])
    BY <1>1 DEF ChunkEnd
  <2>4. Len(g[m]) = Len(g[m - 1]) + (Len(s) + 2 + Len(c) + 2)
    BY <1>5, <1>6, <1>9
  <2>5. PICK i \in Nat, j \in Nat, k \in Nat, l \in Nat :
          i = Len(g[m - 1]) /\ j = Len(s) /\ k = Len(c) /\ l = p
    BY <2>1, <2>2
  <2>6. ChunkEnd(r, m) = l + (i + (j + 2 + k + 2)) /\ z = l + i
    BY <1>7, <2>3, <2>4, <2>5
  <2>7. l + (i + (j + 2 + k + 2)) = (((l + i) + j) + 2) + (k + 2)
    OBVIOUS
  <2>. QED  BY <2>5, <2>6, <2>7
<1>. QED  BY <1>1, <1>6, <1>7, <1>9, <1>10, <1>11 DEF ChunkLies

LEMMA NoChunk ==
  ASSUME NEW r \in Responses, Chunked(r)
  PROVE  ChunkEnd(r, 0) = Len(Top(r))
<1>1. Stack(ChunksTo(r), Coded(r), Len(r.chunks))
  BY CodedIs
<1>2. ChunksTo(r)[0] = <<>>
  BY <1>1 DEF Stack
<1>3. Len(Top(r)) \in Nat
  BY PartsAre
<1>. QED  BY <1>2, <1>3 DEF ChunkEnd

-----------------------------------------------------------------------------
LEMMA HereIs ==
  ASSUME NEW s \in Seq(Byte), NEW mark \in Seq(Byte), NEW j \in Nat, j >= 1
  PROVE  Here(s, mark, j) <=>
           /\ j + Len(mark) - 1 <= Len(s)
           /\ \A k \in 1..Len(mark) : s[(j - 1) + k] = mark[k]
<1>1. PICK n \in Nat, m \in Nat : n = Len(s) /\ m = Len(mark)
  OBVIOUS
<1>2. j \in 1..(n - m + 1) <=> j + m - 1 <= n
  OBVIOUS
<1>3. ASSUME j + m - 1 <= n
      PROVE  SubSeq(s, j, j + m - 1) = mark <=> \A k \in 1..m : s[(j - 1) + k] = mark[k]
  <2>1. PICK p \in Nat, q \in Nat : p = j - 1 /\ q = j + m - 1
    <3>1. j - 1 \in Nat /\ j + m - 1 \in Nat
      OBVIOUS
    <3>. QED  BY <3>1
  <2>2. p <= q /\ q <= n /\ q - p = m /\ p + 1 = j
    BY <1>3, <2>1
  <2>3. PICK t : t = SubSeq(s, p + 1, q)
    OBVIOUS
  <2>4. t \in Seq(Byte) /\ Len(t) = m /\ \A k \in 1..m : t[k] = s[p + k]
    <3>1. /\ t \in Seq(Byte) /\ Len(t) = q - p
          /\ \A k \in 1..(q - p) : t[k] = s[p + k]
      BY <1>1, <2>2, <2>3, SliceIs
    <3>. QED  BY <2>2, <3>1
  <2>5. t = mark <=> \A k \in 1..m : t[k] = mark[k]
    BY <1>1, <2>4, SeqEqual
  <2>6. (\A k \in 1..m : t[k] = mark[k]) <=> \A k \in 1..m : s[p + k] = mark[k]
    BY <2>4
  <2>. QED  BY <2>1, <2>2, <2>3, <2>5, <2>6
<1>. QED  BY <1>1, <1>2, <1>3 DEF Here

(* The end of a line that begins where the buffer does.                    *)
LineAt(e, p, n) ==
  /\ n \in Nat /\ e[(p + n) + 1] = "CR" /\ e[(p + n) + 2] = "LF"
  /\ \A k \in 1..n : e[p + k] # "CR"

LEMMA CrLfAt ==
  ASSUME NEW e, NEW c, NEW p, NEW q, Window(e, c, p, q), NEW n, LineAt(e, p, n),
         Find(buf, CrLf) # 0
  PROVE  Find(buf, CrLf) = n + 1 /\ n + 2 <= q - p
<1>0. /\ buf \in Seq(Byte) /\ Len(buf) = q - p /\ \A k \in 1..(q - p) : buf[k] = e[p + k]
  BY WindowIs
<1>2. PICK l \in Nat : l = q - p /\ p \in Nat /\ q \in Nat
  <2>1. q - p \in Nat /\ p \in Nat /\ q \in Nat
    BY DEF Window
  <2>. QED  BY <2>1
<1>1. /\ buf \in Seq(Byte) /\ Len(buf) = l /\ \A k \in 1..l : buf[k] = e[p + k]
  BY <1>0, <1>2
<1>4. PICK mark : mark = CrLf
  OBVIOUS
<1>3. mark \in Seq(Byte) /\ Len(mark) = 2 /\ mark[1] = "CR" /\ mark[2] = "LF"
  BY <1>4, BlankIs
<1>5. /\ n \in Nat /\ e[(p + n) + 1] = "CR" /\ e[(p + n) + 2] = "LF"
      /\ \A k \in 1..n : e[p + k] # "CR"
  BY DEF LineAt
<1>6. ASSUME NEW j \in 1..n, Here(buf, mark, j) PROVE FALSE
  <2>1. j \in Nat /\ j >= 1
    BY <1>5
  <2>2. /\ j + Len(mark) - 1 <= Len(buf)
        /\ \A k \in 1..Len(mark) : buf[(j - 1) + k] = mark[k]
    BY <1>1, <1>3, <1>4, <1>6, <2>1, HereIs
  <2>3. j \in 1..l /\ (j - 1) + 1 = j /\ 1 \in 1..Len(mark)
    BY <1>1, <1>3, <2>1, <2>2
  <2>4. buf[j] = "CR"
    BY <1>3, <1>4, <2>2, <2>3
  <2>. QED  BY <1>1, <1>5, <2>3, <2>4
<1>7. ASSUME n + 1 <= Len(buf) - Len(mark) + 1 PROVE Here(buf, mark, n + 1)
  <2>1. n + 1 \in Nat /\ n + 1 >= 1 /\ (n + 1) + Len(mark) - 1 <= Len(buf)
    BY <1>1, <1>2, <1>3, <1>4, <1>5, <1>7
  <2>2. ASSUME NEW k \in 1..Len(mark) PROVE buf[((n + 1) - 1) + k] = mark[k]
    <3>1. k \in {1, 2} /\ ((n + 1) - 1) + k = n + k /\ n + k \in 1..l
      BY <1>1, <1>2, <1>3, <1>5, <2>1
    <3>2. buf[n + k] = e[p + (n + k)]
      BY <1>1, <3>1
    <3>3. p + (n + k) = (p + n) + k
      BY <1>2, <1>5, <3>1
    <3>4. CASE k = 1
      BY <1>3, <1>4, <1>5, <3>1, <3>2, <3>3, <3>4
    <3>5. CASE k = 2
      BY <1>3, <1>4, <1>5, <3>1, <3>2, <3>3, <3>5
    <3>. QED  BY <3>1, <3>4, <3>5
  <2>. QED  BY <1>1, <1>3, <1>4, <2>1, <2>2, HereIs
<1>8. PICK i \in Nat : i = n + 1 /\ i >= 1 /\ i - 1 = n
  BY <1>5
<1>9. Find(buf, mark) = i /\ i + Len(mark) - 1 <= Len(buf)
  <2>1. Len(buf) \in Nat /\ Len(mark) \in Nat /\ Find(buf, mark) # 0
    BY <1>1, <1>3, <1>4
  <2>2. \A j \in 1..(i - 1) : ~Here(buf, mark, j)
    BY <1>6, <1>8
  <2>3. i <= Len(buf) - Len(mark) + 1 => Here(buf, mark, i)
    BY <1>7, <1>8
  <2>. QED  BY <1>8, <2>1, <2>2, <2>3, FindIs
<1>10. n + 2 <= l
  BY <1>1, <1>3, <1>5, <1>8, <1>9
<1>. QED  BY <1>2, <1>4, <1>8, <1>9, <1>10

(* The blank line that is found is the one at the end of the head.         *)
LEMMA TopEnds ==
  ASSUME NEW r \in Responses, NEW e, NEW c, NEW q, Window(e, c, 0, q),
         At(e, 0, Top(r)), Find(buf, Blank) # 0
  PROVE  HeadEnd = Len(Top(r)) /\ Len(Top(r)) <= q
<1>1. PICK z : z = 0
  OBVIOUS
<1>2. Window(e, c, z, q)
  BY <1>1
<1>3. /\ buf \in Seq(Byte) /\ Len(buf) = q - z /\ \A k \in 1..(q - z) : buf[k] = e[z + k]
  BY <1>2, WindowIs
<1>4. q \in Nat /\ e \in Seq(Byte)
  BY DEF Window
<1>5. Len(buf) = q /\ \A k \in 1..q : buf[k] = e[k]
  <2>1. q - z = q /\ \A k \in 1..q : z + k = k
    BY <1>1, <1>4
  <2>. QED  BY <1>3, <2>1
<1>6. PICK h : h = Top(r) /\ IsTop(h, r.headers)
  BY TopIs
<1>7. /\ h \in Seq(Byte) /\ Len(h) >= 4
      /\ h[Len(h) - 3] = "CR" /\ h[Len(h) - 2] = "LF"
      /\ h[Len(h) - 1] = "CR" /\ h[Len(h)] = "LF"
      /\ \A p \in 1..(Len(h) - 4) : ~(h[p] = "CR" /\ h[p + 2] = "CR")
  BY <1>6, Zenon DEF IsTop
<1>8. PICK l \in Nat : l = Len(h)
  BY <1>7
<1>9. \A k \in 1..l : e[k] = h[k]
  <2>1. \A k \in 1..Len(h) : e[0 + k] = h[k]
    BY <1>6 DEF At
  <2>2. \A k \in 1..l : 0 + k = k
    OBVIOUS
  <2>. QED  BY <1>8, <2>1, <2>2
<1>10. PICK mark : mark = Blank
  OBVIOUS
<1>11. /\ mark \in Seq(Byte) /\ Len(mark) = 4
       /\ mark[1] = "CR" /\ mark[2] = "LF" /\ mark[3] = "CR" /\ mark[4] = "LF"
  BY <1>10, BlankIs
<1>12. PICK i \in Nat : i = l - 3 /\ i >= 1
  <2>1. l - 3 \in Nat /\ l - 3 >= 1
    BY <1>7, <1>8
  <2>. QED  BY <2>1
<1>13. ASSUME NEW j \in 1..(i - 1), Here(buf, mark, j) PROVE FALSE
  <2>1. j \in Nat /\ j >= 1
    OBVIOUS
  <2>2. /\ j + Len(mark) - 1 <= Len(buf)
        /\ \A k \in 1..Len(mark) : buf[(j - 1) + k] = mark[k]
    BY <1>3, <1>11, <1>13, <2>1, HereIs
  <2>3. /\ j \in 1..q /\ j + 2 \in 1..q /\ (j - 1) + 1 = j /\ (j - 1) + 3 = j + 2
        /\ 1 \in 1..Len(mark) /\ 3 \in 1..Len(mark)
        /\ j \in 1..l /\ j + 2 \in 1..l /\ j \in 1..(Len(h) - 4)
    BY <1>4, <1>5, <1>8, <1>11, <1>12, <2>1, <2>2
  <2>4. buf[j] = "CR" /\ buf[j + 2] = "CR"
    BY <1>11, <2>2, <2>3
  <2>5. h[j] = "CR" /\ h[j + 2] = "CR"
    BY <1>5, <1>9, <2>3, <2>4
  <2>. QED  BY <1>7, <2>3, <2>5
<1>14. ASSUME i <= Len(buf) - Len(mark) + 1 PROVE Here(buf, mark, i)
  <2>1. i + Len(mark) - 1 <= Len(buf) /\ i + 3 <= q
    BY <1>4, <1>5, <1>11, <1>14
  <2>2. ASSUME NEW k \in 1..Len(mark) PROVE buf[(i - 1) + k] = mark[k]
    <3>1. k \in {1, 2, 3, 4} /\ (i - 1) + k \in 1..q /\ (i - 1) + k \in 1..l
      BY <1>4, <1>11, <1>12, <2>1
    <3>2. buf[(i - 1) + k] = h[(i - 1) + k]
      BY <1>5, <1>9, <3>1
    <3>3. /\ (i - 1) + 1 = Len(h) - 3 /\ (i - 1) + 2 = Len(h) - 2
          /\ (i - 1) + 3 = Len(h) - 1 /\ (i - 1) + 4 = Len(h)
      BY <1>8, <1>12
    <3>. QED  BY <1>7, <1>11, <3>1, <3>2, <3>3
  <2>. QED  BY <1>3, <1>11, <1>12, <2>1, <2>2, HereIs
<1>15. Find(buf, mark) = i /\ i + Len(mark) - 1 <= Len(buf)
  <2>1. Len(buf) \in Nat /\ Len(mark) \in Nat /\ Find(buf, mark) # 0
    BY <1>3, <1>10, <1>11
  <2>. QED  BY <1>12, <1>13, <1>14, <2>1, FindIs
<1>. QED  BY <1>4, <1>5, <1>6, <1>8, <1>10, <1>11, <1>12, <1>15 DEF HeadEnd

-----------------------------------------------------------------------------
(* Where the data of the m-th chunk begin, and what follows the last size. *)
DataAt(r, m) == (ChunkEnd(r, m - 1) + Len(SizeLine(r, Len(r.chunks[m])))) + 2
TrailAt(r) == (ChunkEnd(r, Len(r.chunks)) + Len(SizeLine(r, 0))) + 2

(* Where the reader is in the response r, of which c bytes come.           *)
InHead(r, c) ==
  out = <<>> /\ Len(buf) <= MaxHead /\ \E q : Window(Encoded(r), c, 0, q)
InSize(r, c) ==
  /\ Chunked(r) /\ Len(out) <= MaxBody
  /\ \E m \in 0..Len(r.chunks) : \E q :
       out = BodyTo(r)[m] /\ Window(Encoded(r), c, ChunkEnd(r, m), q)
InChunk(r, c) ==
  /\ Chunked(r) /\ Len(out) <= MaxBody
  /\ \E m \in 1..Len(r.chunks) : \E q :
       /\ out = BodyTo(r)[m - 1] /\ need = Len(r.chunks[m])
       /\ Window(Encoded(r), c, DataAt(r, m), q)
InTrailer(r, c) ==
  /\ Chunked(r) /\ out = Body(r) /\ Len(out) <= MaxBody
  /\ \E p \in {TrailAt(r), TrailAt(r) + Len(Trail(r))} : \E q :
       Window(Encoded(r), c, p, q)
InExact(r, c) ==
  /\ ~Chunked(r) /\ need = Len(Body(r)) /\ need <= MaxBody
  /\ \E q : /\ q >= Len(Top(r)) /\ Ahead(Encoded(r), q, c)
            /\ out = SubSeq(Encoded(r), Len(Top(r)) + 1,
                            Len(Top(r)) + Least(need, q - Len(Top(r))))
InClose(r, c) ==
  /\ ~Framed(r)
  /\ \E q : /\ q >= Len(Top(r)) /\ Ahead(Encoded(r), q, c)
            /\ out = SubSeq(Encoded(r), Len(Top(r)) + 1, q)
Finished(r, c) ==
  /\ IF Framed(r) THEN out = Body(r) ELSE IsPrefix(out, Body(r) \o r.extra)
  /\ Framed(r) =>
       /\ Len(wire) + Len(Encoded(r)) <= c + Len(r.extra) \/ wire = <<>>
       /\ Len(out) <= MaxBody

-----------------------------------------------------------------------------
LEMMA NumberIs ==
  ASSUME NEW n \in 0..3
  PROVE  IsNumber(Digits[n + 1]) /\ Number(Digits[n + 1]) = n
<1>1. n \in {0, 1, 2, 3} /\ n + 1 \in 1..4
  OBVIOUS
<1>2. /\ Digits[1] = "0" /\ Digits[2] = "1" /\ Digits[3] = "2" /\ Digits[4] = "3"
  BY DEF Digits
<1>3. \A m \in 0..3 : Digits[m + 1] = Digits[n + 1] => m = n
  <2>1. \A m \in 0..3 : m \in {0, 1, 2, 3}
    OBVIOUS
  <2>2. 0 + 1 = 1 /\ 1 + 1 = 2 /\ 2 + 1 = 3 /\ 3 + 1 = 4
    OBVIOUS
  <2>. QED  BY <1>1, <1>2, <2>1, <2>2
<1>4. PICK d : d = Digits[n + 1]
  OBVIOUS
<1>5. PICK w : w = CHOOSE m \in 0..3 : Digits[m + 1] = d
  OBVIOUS
<1>6. w \in 0..3 /\ Digits[w + 1] = d
  BY <1>4, <1>5, Zenon
<1>7. w = n
  BY <1>3, <1>4, <1>6
<1>8. Number(d) = w
  BY <1>5 DEF Number
<1>9. IsNumber(d)
  BY <1>1, <1>4 DEF IsNumber
<1>. QED  BY <1>4, <1>7, <1>8, <1>9

(* A size line is read for what it says.                                   *)
SizeRead(s, n, k) ==
  /\ Find(buf, CrLf) = Len(s) + 1 /\ Len(s) \in {1, 3} /\ Len(s) + 2 <= k
  /\ IsNumber(buf[1]) /\ Number(buf[1]) = n
  /\ Len(s) = 3 => buf[2] = ";"

LEMMA SizeReads ==
  ASSUME NEW e, NEW c, NEW p, NEW q, Window(e, c, p, q), NEW n \in 0..3, NEW s,
         SizeLineLike(s, n), At(e, p, s), At(e, p + Len(s), CrLf), Find(buf, CrLf) # 0
  PROVE  SizeRead(s, n, q - p)
<1>1. /\ s \in Seq(Byte) /\ Len(s) \in {1, 3} /\ s[1] = Digits[n + 1]
      /\ Len(s) = 3 => s[2] = ";"
      /\ \A k \in 1..Len(s) : s[k] # "CR"
  BY Zenon DEF SizeLineLike
<1>2. PICK l \in Nat : l = Len(s) /\ l \in {1, 3}
  BY <1>1
<1>3. p \in Nat /\ q \in Nat /\ \A k \in 1..l : e[p + k] = s[k]
  BY <1>2 DEF At, Window
<1>4. e[(p + l) + 1] = "CR" /\ e[(p + l) + 2] = "LF"
  <2>1. \A k \in 1..Len(CrLf) : e[(p + l) + k] = CrLf[k]
    BY <1>2 DEF At
  <2>. QED  BY <2>1, BlankIs
<1>5. LineAt(e, p, l)
  BY <1>1, <1>2, <1>3, <1>4 DEF LineAt
<1>6. Find(buf, CrLf) = l + 1 /\ l + 2 <= q - p
  BY <1>5, CrLfAt
<1>7. \A k \in 1..(q - p) : buf[k] = e[p + k]
  BY WindowIs
<1>8. buf[1] = s[1] /\ (l = 3 => buf[2] = s[2])
  <2>1. 1 \in 1..(q - p) /\ 1 \in 1..l /\ 2 \in 1..(q - p) /\ (l = 3 => 2 \in 1..l)
    BY <1>2, <1>3, <1>6
  <2>. QED  BY <1>3, <1>7, <2>1
<1>9. IsNumber(Digits[n + 1]) /\ Number(Digits[n + 1]) = n
  BY NumberIs
<1>. QED  BY <1>1, <1>2, <1>6, <1>8, <1>9 DEF SizeRead

LEMMA SizeStep ==
  ASSUME NEW e, NEW c, NEW p, NEW q, Window(e, c, p, q), NEW n \in 0..3, NEW s,
         SizeLineLike(s, n), At(e, p, s), At(e, p + Len(s), CrLf),
         Find(buf, CrLf) # 0, Size
  PROVE  /\ need' = n /\ at' = (IF n = 0 THEN "trailer" ELSE "chunk") /\ out' = out
         /\ Window(e, c, (p + Len(s)) + 2, q)'
<1>1. SizeRead(s, n, q - p)
  BY SizeReads
<1>2. /\ Find(buf, CrLf) = Len(s) + 1 /\ Len(s) \in {1, 3} /\ Len(s) + 2 <= q - p
      /\ IsNumber(buf[1]) /\ Number(buf[1]) = n
      /\ Len(s) = 3 => buf[2] = ";"
  BY <1>1, Zenon DEF SizeRead
<1>3. PICK l \in Nat : l = Len(s) /\ l \in {1, 3}
  BY <1>2
<1>4. /\ Find(buf, CrLf) = l + 1 /\ l + 1 # 1 /\ l + 1 # 0 /\ (l + 1 > 2 => buf[2] = ";")
  <2>1. l + 1 # 1 /\ l + 1 # 0 /\ (l + 1 > 2 => l = 3)
    BY <1>3
  <2>2. Find(buf, CrLf) = l + 1 /\ (l = 3 => buf[2] = ";")
    BY <1>2, <1>3, Zenon
  <2>. QED  BY <2>1, <2>2
<1>5. PICK f : f = l + 1
  OBVIOUS
<1>6. /\ Use(f + 1) /\ need' = Number(buf[1])
      /\ Goto(IF need' = 0 THEN AfterZero ELSE "chunk")
      /\ UNCHANGED <<talk, wire, ends, out>>
  BY <1>2, <1>4, <1>5 DEF Size
<1>7. need' = n /\ at' = (IF n = 0 THEN "trailer" ELSE "chunk") /\ out' = out
  BY <1>2, <1>6 DEF Goto, AfterZero
<1>8. PICK k \in Nat : k = l + 2 /\ k <= q - p /\ f + 1 = k
  <2>1. l + 2 \in Nat /\ f + 1 = l + 2
    BY <1>3, <1>5
  <2>2. l + 2 <= q - p
    BY <1>2, <1>3, Zenon
  <2>. QED  BY <2>1, <2>2
<1>9. buf' = From(buf, k + 1) /\ wire' = wire
  BY <1>6, <1>8 DEF Use
<1>10. Window(e, c, p + k, q)'
  BY <1>8, <1>9, WindowUses
<1>11. p + k = (p + l) + 2
  <2>1. p \in Nat
    BY DEF Window
  <2>. QED  BY <1>8, <2>1
<1>. QED  BY <1>3, <1>7, <1>10, <1>11

LEMMA MoreStep ==
  ASSUME NEW e, NEW c, NEW p, NEW q, Window(e, c, p, q), NEW room \in Nat,
         NEW ending, More(room, ending)
  PROVE  /\ out' = out /\ need' = need /\ at' \in {at, ending}
         /\ \E t : Window(e, c, p, t)'
         /\ at' = at \/ wire' = <<>>
<1>1. PICK b \in Reads(room) :
        /\ Took(b) /\ buf' = buf \o b /\ UNCHANGED <<need, out>>
        /\ Goto(IF b = <<>> THEN ending ELSE at)
  BY DEF More
<1>2. PICK t : Window(e, c, p, t)' /\ (b = <<>> => q = c) /\ Len(buf \o b) = t - p
  <2>1. Took(b) /\ buf' = buf \o b
    BY <1>1
  <2>. QED  BY <2>1, WindowReads
<1>3. ASSUME b = <<>> PROVE wire' = <<>>
  <2>1. wire \in Seq(Byte) /\ Len(wire) = c - q
    BY WindowIs
  <2>2. c \in Nat /\ q = c
    BY <1>2, <1>3 DEF Window
  <2>3. Len(wire) = 0
    BY <2>1, <2>2
  <2>4. wire = <<>>
    BY <2>1, <2>3, EmptyIs
  <2>5. wire' = From(wire, Len(b) + 1)
    BY <1>1 DEF Took
  <2>. QED  BY <1>3, <2>4, <2>5 DEF From
<1>. QED  BY <1>1, <1>2, <1>3 DEF Goto

-----------------------------------------------------------------------------
(* The steps of a reader of chunks.                                        *)
LEMMA StepSize ==
  ASSUME NEW r \in Responses, NEW c, InSize(r, c), at = "size", Size
  PROVE  \/ at' = "size" /\ InSize(r, c)'
         \/ at' = "chunk" /\ InChunk(r, c)'
         \/ at' = "trailer" /\ InTrailer(r, c)'
         \/ at' = "failed"
<1>1. PICK e, N : e = Encoded(r) /\ N = Len(r.chunks) /\ N \in Nat
  BY PartsAre
<1>0. PICK m \in 0..N : \E q :
        /\ Chunked(r) /\ Len(out) <= MaxBody /\ out = BodyTo(r)[m]
        /\ Window(e, c, ChunkEnd(r, m), q)
  BY <1>1 DEF InSize
<1>2. PICK q :
        /\ Chunked(r) /\ Len(out) <= MaxBody /\ out = BodyTo(r)[m]
        /\ Window(e, c, ChunkEnd(r, m), q)
  BY <1>0
<1>3. CASE Find(buf, CrLf) = 0
  <2>1. More(HeadRoom, "failed")
    BY <1>3 DEF Size
  <2>2. PICK p, ending : p = ChunkEnd(r, m) /\ ending = "failed"
    OBVIOUS
  <2>3. HeadRoom \in Nat /\ Window(e, c, p, q) /\ More(HeadRoom, ending)
    BY <1>2, <2>1, <2>2, ResponsesAssumption
  <2>4. out' = out /\ at' \in {at, ending} /\ \E t : Window(e, c, p, t)'
    BY <2>3, MoreStep, Zenon
  <2>5. PICK t : Window(e, c, ChunkEnd(r, m), t)'
    BY <2>2, <2>4
  <2>. QED  BY <1>1, <1>2, <2>2, <2>4, <2>5 DEF InSize
<1>4. CASE Find(buf, CrLf) # 0 /\ m # N
  <2>1. PICK i \in 1..N : i = m + 1 /\ i - 1 = m
    <3>1. m + 1 \in 1..N /\ (m + 1) - 1 = m
      BY <1>1, <1>4
    <3>. QED  BY <3>1
  <2>2. ChunkLies(e, r, i)
    BY <1>1, <1>2, <2>1, ChunksLie
  <2>3. PICK n, s, p : n = Len(r.chunks[i]) /\ s = SizeLine(r, n) /\ p = ChunkEnd(r, m)
    OBVIOUS
  <2>4. n \in 1..3 /\ At(e, p, s) /\ At(e, p + Len(s), CrLf)
    BY <2>1, <2>2, <2>3 DEF ChunkLies
  <2>5. n \in 0..3 /\ n # 0 /\ Window(e, c, p, q)
    <3>1. Window(e, c, p, q)
      BY <1>2, <2>3
    <3>2. n \in 0..3 /\ n # 0
      BY <2>4
    <3>. QED  BY <3>1, <3>2
  <2>6. SizeLineLike(s, n)
    BY <2>3, <2>5, SizeLineIs
  <2>7. /\ need' = n /\ at' = (IF n = 0 THEN "trailer" ELSE "chunk") /\ out' = out
        /\ Window(e, c, (p + Len(s)) + 2, q)'
    BY <1>4, <2>4, <2>5, <2>6, SizeStep
  <2>8. (p + Len(s)) + 2 = DataAt(r, i)
    BY <2>1, <2>3 DEF DataAt
  <2>9. at' = "chunk" /\ need' = Len(r.chunks[i]) /\ out' = BodyTo(r)[i - 1]
    BY <1>2, <2>1, <2>3, <2>5, <2>7
  <2>10. Window(e, c, DataAt(r, i), q)'
    BY <2>7, <2>8
  <2>. QED  BY <1>1, <1>2, <2>7, <2>9, <2>10 DEF InChunk
<1>5. CASE Find(buf, CrLf) # 0 /\ m = N
  <2>1. LastLies(e, r)
    BY <1>1, <1>2, ChunkedIs
  <2>2. PICK n, s, p : n = 0 /\ s = SizeLine(r, n) /\ p = ChunkEnd(r, m)
    OBVIOUS
  <2>3. At(e, p, s) /\ At(e, p + Len(s), CrLf)
    BY <1>1, <1>5, <2>1, <2>2 DEF LastLies
  <2>4. n \in 0..3 /\ Window(e, c, p, q)
    BY <1>2, <2>2
  <2>5. SizeLineLike(s, n)
    BY <2>2, <2>4, SizeLineIs
  <2>6. /\ need' = n /\ at' = (IF n = 0 THEN "trailer" ELSE "chunk") /\ out' = out
        /\ Window(e, c, (p + Len(s)) + 2, q)'
    BY <1>5, <2>3, <2>4, <2>5, SizeStep
  <2>7. (p + Len(s)) + 2 = TrailAt(r)
    BY <1>1, <1>5, <2>2 DEF TrailAt
  <2>8. Body(r) = BodyTo(r)[m]
    BY <1>1, <1>5, PartsAre
  <2>9. Window(e, c, TrailAt(r), q)'
    BY <2>6, <2>7
  <2>. QED  BY <1>1, <1>2, <2>2, <2>6, <2>8, <2>9 DEF InTrailer
<1>. QED  BY <1>3, <1>4, <1>5

(* The body so far, with one more chunk.                                   *)
LEMMA BodyGrows ==
  ASSUME NEW r \in Responses, NEW m \in 1..Len(r.chunks)
  PROVE  /\ BodyTo(r)[m] = BodyTo(r)[m - 1] \o r.chunks[m]
         /\ Len(BodyTo(r)[m]) = Len(BodyTo(r)[m - 1]) + Len(r.chunks[m])
<1>1. PICK N, g, ss : N = Len(r.chunks) /\ g = BodyTo(r) /\ ss = r.chunks
  OBVIOUS
<1>2. N \in Nat /\ Stack(g, ss, N) /\ m \in 1..N /\ m - 1 \in 0..N
  <2>1. N \in Nat /\ Stack(g, ss, N)
    BY <1>1, PartsAre
  <2>. QED  BY <1>1, <2>1
<1>3. PICK x, y, z : x = g[m] /\ y = g[m - 1] /\ z = ss[m]
  OBVIOUS
<1>4. y \in Seq(Byte) /\ z \in Seq(Byte) /\ Joined(x, y, z)
  BY <1>2, <1>3 DEF Stack
<1>5. Len(x) = Len(y) + Len(z)
  BY <1>4, JoinedAre
<1>. QED  BY <1>1, <1>3, <1>4, <1>5 DEF Joined

LEMMA StepChunk ==
  ASSUME NEW r \in Responses, NEW c, InChunk(r, c), at = "chunk", ChunkBody
  PROVE  \/ at' = "chunk" /\ InChunk(r, c)'
         \/ at' = "size" /\ InSize(r, c)'
         \/ at' = "failed"
<1>1. PICK e, N : e = Encoded(r) /\ N = Len(r.chunks) /\ N \in Nat
  BY PartsAre
<1>0. PICK m \in 1..N : \E q :
        /\ Chunked(r) /\ Len(out) <= MaxBody /\ out = BodyTo(r)[m - 1]
        /\ need = Len(r.chunks[m]) /\ Window(e, c, DataAt(r, m), q)
  BY <1>1 DEF InChunk
<1>2. PICK q :
        /\ Chunked(r) /\ Len(out) <= MaxBody /\ out = BodyTo(r)[m - 1]
        /\ need = Len(r.chunks[m]) /\ Window(e, c, DataAt(r, m), q)
  BY <1>0
<1>3. PICK p, d : p = DataAt(r, m) /\ d = r.chunks[m]
  OBVIOUS
<1>4. /\ Len(d) \in 1..3 /\ d \in Seq(Byte) /\ At(e, p, d)
      /\ ChunkEnd(r, m) = p + (Len(d) + 2)
  <2>1. ChunkLies(e, r, m)
    BY <1>1, <1>2, ChunksLie
  <2>. QED  BY <1>3, <2>1 DEF ChunkLies, DataAt
<1>5. Window(e, c, p, q) /\ need = Len(d)
  BY <1>2, <1>3
<1>6. /\ buf \in Seq(Byte) /\ Len(buf) = q - p /\ \A k \in 1..(q - p) : buf[k] = e[p + k]
  BY <1>5, WindowIs
<1>7. CASE Len(buf) < need + 2
  <2>1. PICK room, ending : room = need + 2 - Len(buf) /\ ending = "failed"
    OBVIOUS
  <2>2. room \in Nat
    <3>1. Len(buf) \in Nat /\ need \in Nat
      BY <1>4, <1>5, <1>6
    <3>. QED  BY <1>7, <2>1, <3>1
  <2>3. More(room, ending)
    <3>1. ~(Len(buf) >= need + 2)
      <4>1. Len(buf) \in Nat /\ need \in Nat
        BY <1>4, <1>5, <1>6
      <4>. QED  BY <1>7, <4>1
    <3>. QED  BY <2>1, <3>1 DEF ChunkBody
  <2>4. out' = out /\ need' = need /\ at' \in {at, ending} /\ \E t : Window(e, c, p, t)'
    BY <1>5, <2>2, <2>3, MoreStep, Zenon
  <2>5. PICK t : Window(e, c, DataAt(r, m), t)'
    BY <1>3, <2>4
  <2>. QED  BY <1>1, <1>2, <2>1, <2>4, <2>5 DEF InChunk
<1>8. CASE Len(buf) >= need + 2
  <2>0. ~(Len(buf) < need + 2)
    <3>1. Len(buf) \in Nat /\ need \in Nat
      BY <1>4, <1>5, <1>6
    <3>. QED  BY <1>8, <3>1
  <2>1. CASE TooLarge
    BY <2>0, <2>1 DEF ChunkBody, Fail
  <2>2. CASE ~TooLarge
    <3>1. /\ out' = out \o SubSeq(buf, 1, need) /\ Use(need + 2)
          /\ at' = "size" /\ UNCHANGED <<talk, wire, ends, need>>
      BY <2>0, <2>2 DEF ChunkBody, Goto
    <3>2. SubSeq(buf, 1, need) = d
      <4>0. PICK l \in Nat : l = Len(d)
        BY <1>4
      <4>1. PICK b : l = Len(d) /\ b = SubSeq(buf, 1, l)
        BY <4>0
      <4>2. PICK k \in Nat : k = q - p /\ l <= k
        <5>1. Len(buf) \in Nat
          BY <1>6
        <5>2. l <= Len(buf)
          BY <1>5, <1>8, <4>1, <5>1
        <5>. QED  BY <1>6, <5>1, <5>2
      <4>3. b \in Seq(Byte) /\ Len(b) = l /\ \A i \in 1..l : b[i] = buf[i]
        BY <1>6, <4>1, <4>2
      <4>4. \A i \in 1..l : buf[i] = e[p + i] /\ e[p + i] = d[i]
        <5>1. \A i \in 1..l : buf[i] = e[p + i]
          BY <1>6, <4>2
        <5>. QED  BY <1>4, <4>1, <5>1 DEF At
      <4>5. b = d
        BY <1>4, <4>1, <4>3, <4>4, SeqEqual
      <4>. QED  BY <1>5, <4>1, <4>5
    <3>3. out' = BodyTo(r)[m] /\ Len(BodyTo(r)[m]) = Len(out) + need
      BY <1>1, <1>2, <1>3, <3>1, <3>2, BodyGrows
    <3>4. Len(out') <= MaxBody
      <4>1. ~(Len(out) + need > MaxBody)
        BY <2>2 DEF TooLarge
      <4>2. PICK L \in Nat, M \in Nat : L = Len(out) + need /\ M = MaxBody
        <5>1. Len(out) \in Nat
          <6>1. m - 1 \in 0..N
            BY <1>1
          <6>2. BodyTo(r)[m - 1] \in Seq(Byte)
            <7>1. Stack(BodyTo(r), r.chunks, N)
              BY <1>1, PartsAre
            <7>. QED  BY <6>1, <7>1 DEF Stack
          <6>. QED  BY <1>2, <6>2
        <5>2. need \in Nat
          BY <1>4, <1>5
        <5>3. MaxBody \in Nat
          BY ResponsesAssumption
        <5>. QED  BY <5>1, <5>2, <5>3
      <4>. QED  BY <3>3, <4>1, <4>2
    <3>5. PICK k \in Nat : k = Len(d) + 2 /\ k = need + 2
      BY <1>4, <1>5
    <3>6. k <= q - p
      BY <1>6, <1>8, <3>5
    <3>7. buf' = From(buf, k + 1) /\ wire' = wire
      BY <3>1, <3>5 DEF Use
    <3>8. Window(e, c, p + k, q)'
      BY <1>5, <3>6, <3>7, WindowUses
    <3>9. Window(e, c, ChunkEnd(r, m), q)'
      BY <1>4, <3>5, <3>8
    <3>10. m \in 0..N
      BY <1>1
    <3>. QED  BY <1>1, <1>2, <3>1, <3>3, <3>4, <3>9, <3>10 DEF InSize
  <2>. QED  BY <2>1, <2>2
<1>9. Len(buf) < need + 2 \/ Len(buf) >= need + 2
  BY DEF ChunkBody
<1>. QED  BY <1>7, <1>8, <1>9

-----------------------------------------------------------------------------
LEMMA UsesLine ==
  ASSUME NEW e, NEW c, NEW p, NEW q, Window(e, c, p, q), NEW n, LineAt(e, p, n),
         Find(buf, CrLf) # 0, Use(Find(buf, CrLf) + 1), wire' = wire
  PROVE  Find(buf, CrLf) = n + 1 /\ Window(e, c, p + (n + 2), q)'
<1>1. Find(buf, CrLf) = n + 1 /\ n + 2 <= q - p
  BY CrLfAt
<1>2. n \in Nat
  BY DEF LineAt
<1>3. PICK k \in Nat : k = n + 2 /\ k <= q - p /\ (n + 1) + 1 = k
  <2>1. n + 2 \in Nat /\ (n + 1) + 1 = n + 2
    BY <1>2
  <2>. QED  BY <1>1, <2>1
<1>4. buf' = From(buf, k + 1)
  BY <1>1, <1>3 DEF Use
<1>5. Window(e, c, p + k, q)'
  BY <1>3, <1>4, WindowUses
<1>. QED  BY <1>1, <1>3, <1>5

LEMMA StepTrailer ==
  ASSUME NEW r \in Responses, NEW c, InTrailer(r, c), at = "trailer", Trailer
  PROVE  \/ at' = "trailer" /\ InTrailer(r, c)'
         \/ at' = "done" /\ Finished(r, c)'
<1>1. PICK e, a, t : e = Encoded(r) /\ a = TrailAt(r) /\ t = Trail(r)
  OBVIOUS
<1>0. PICK p \in {a, a + Len(t)} : \E q :
        /\ Chunked(r) /\ out = Body(r) /\ Len(out) <= MaxBody
        /\ Window(e, c, p, q)
  BY <1>1 DEF InTrailer
<1>2. PICK q :
        /\ Chunked(r) /\ out = Body(r) /\ Len(out) <= MaxBody
        /\ Window(e, c, p, q)
  BY <1>0
<1>3. Framed(r)
  BY <1>2 DEF Framed
<1>4. At(e, a, t) /\ At(e, a + Len(t), CrLf) /\ Len(e) = a + Len(t) + 2 + Len(r.extra)
  <2>1. LastLies(e, r)
    BY <1>1, <1>2, ChunkedIs
  <2>. QED  BY <1>1, <2>1 DEF LastLies, TrailAt
<1>5. /\ t \in Seq(Byte)
      /\ IF r.trailer THEN Len(t) = 3 /\ t[1] = "t" /\ t[2] = "CR" /\ t[3] = "LF"
                      ELSE Len(t) = 0
  BY <1>1, TrailIs
<1>6. a \in Nat /\ Len(t) \in Nat
  BY <1>4, <1>5 DEF At
<1>7. CASE Find(buf, CrLf) = 0
  <2>1. PICK ending : ending = "done"
    OBVIOUS
  <2>2. HeadRoom \in Nat /\ More(HeadRoom, ending)
    BY <1>7, <2>1, ResponsesAssumption DEF Trailer
  <2>3. /\ out' = out /\ at' \in {at, ending} /\ \E i : Window(e, c, p, i)'
        /\ at' = at \/ wire' = <<>>
    BY <1>2, <2>2, MoreStep, Zenon
  <2>4. CASE at' = "trailer"
    BY <1>1, <1>2, <2>3, <2>4 DEF InTrailer
  <2>5. CASE at' = "done"
    BY <1>2, <1>3, <2>3, <2>5 DEF Finished
  <2>. QED  BY <2>1, <2>3, <2>4, <2>5
<1>8. CASE Find(buf, CrLf) # 0
  <2>1. /\ Use(Find(buf, CrLf) + 1) /\ wire' = wire /\ out' = out
        /\ at' = IF Find(buf, CrLf) = 1 THEN "done" ELSE "trailer"
    BY <1>8 DEF Trailer, Goto
  <2>2. CASE p = a + Len(t)
    <3>1. LineAt(e, p, 0)
      <4>1. \A k \in 1..Len(CrLf) : e[p + k] = CrLf[k]
        BY <1>4, <2>2 DEF At
      <4>2. p \in Nat /\ p + 0 = p
        BY <1>6, <2>2
      <4>. QED  BY <4>1, <4>2, BlankIs DEF LineAt
    <3>2. PICK n : n = 0
      OBVIOUS
    <3>3. Find(buf, CrLf) = n + 1 /\ Window(e, c, p + (n + 2), q)'
      BY <1>2, <1>8, <2>1, <3>1, <3>2, UsesLine
    <3>4. at' = "done"
      BY <2>1, <3>2, <3>3
    <3>5. Len(wire') + Len(e) <= c + Len(r.extra)
      <4>1. Window(e, c, p, q) /\ q - p >= 2
        BY <1>2, <1>8, <3>1, CrLfAt
      <4>2. Len(wire) = c - q /\ c \in Nat /\ q \in Nat /\ p \in Nat
        BY <4>1, WindowIs DEF Window
      <4>3. Len(r.extra) \in Nat
        BY PartsAre
      <4>0. PICK x \in Nat : x = Len(r.extra)
        BY <4>3
      <4>4. PICK w : x = Len(r.extra) /\ w = Len(wire)
        BY <4>0
      <4>5. PICK l \in Nat : l = Len(e)
        BY <1>2 DEF Window
      <4>6. l = p + 2 + x /\ w = c - q
        BY <1>4, <2>2, <4>2, <4>4, <4>5
      <4>7. w + l <= c + x
        BY <4>1, <4>2, <4>6
      <4>. QED  BY <2>1, <4>4, <4>5, <4>7
    <3>. QED  BY <1>1, <1>2, <1>3, <2>1, <3>4, <3>5 DEF Finished
  <2>3. CASE p # a + Len(t)
    <3>1. p = a /\ Len(t) = 3 /\ t[1] = "t" /\ t[2] = "CR" /\ t[3] = "LF"
      <4>1. p = a
        BY <1>2, <2>3
      <4>2. Len(t) # 0
        BY <1>6, <2>3, <4>1
      <4>. QED  BY <1>5, <4>1, <4>2
    <3>2. LineAt(e, p, 1)
      <4>1. \A k \in 1..3 : e[p + k] = t[k]
        BY <1>4, <3>1 DEF At
      <4>2. (p + 1) + 1 = p + 2 /\ (p + 1) + 2 = p + 3
        BY <1>6, <3>1
      <4>3. e[p + 1] # "CR" /\ e[p + 2] = "CR" /\ e[p + 3] = "LF"
        BY <3>1, <4>1
      <4>4. \A k \in 1..1 : e[p + k] # "CR"
        BY <4>3
      <4>. QED  BY <4>2, <4>3, <4>4 DEF LineAt
    <3>3. PICK n : n = 1
      OBVIOUS
    <3>4. Find(buf, CrLf) = n + 1 /\ Window(e, c, p + (n + 2), q)'
      BY <1>2, <1>8, <2>1, <3>2, <3>3, UsesLine
    <3>5. at' = "trailer" /\ Window(e, c, a + Len(t), q)'
      <4>1. n + 1 # 1 /\ n + 2 = Len(t)
        BY <3>1, <3>3
      <4>. QED  BY <2>1, <3>1, <3>4, <4>1
    <3>. QED  BY <1>1, <1>2, <2>1, <3>5 DEF InTrailer
  <2>. QED  BY <2>2, <2>3
<1>. QED  BY <1>7, <1>8

-----------------------------------------------------------------------------
(* How the body of a response ends, and what its head says of it.          *)
Told(r, ending, cl) ==
  /\ ending = "chunked" => Chunked(r)
  /\ ending = "length" =>
       ~Chunked(r) /\ (IsNumber(cl) => Number(cl) = Len(Body(r)))
  /\ ending = "close" => ~Framed(r)
  /\ ending \in {"chunked", "length", "close", "bad"}

LEMMA EndingIs ==
  ASSUME NEW r \in Responses, NEW te, NEW cl, te = Get(Top(r), "te"),
         cl = Get(Top(r), "cl")
  PROVE  Told(r, Ending(te, cl), cl)
<1>1. PICK hs : hs = r.headers
  OBVIOUS
<1>2. Gets(te, hs, "te") /\ Gets(cl, hs, "cl")
  BY <1>1, GetIs DEF Names
<1>3. CASE te = "chunked"
  <2>1. \E n \in 1..Len(hs) : hs[n] = <<"te", "chunked">>
    BY <1>2, <1>3 DEF Gets
  <2>2. Chunked(r)
    BY <1>1, <2>1 DEF Chunked, Has
  <2>3. Ending(te, cl) = "chunked"
    BY <1>3 DEF Ending
  <2>. QED  BY <2>2, <2>3 DEF Told
<1>4. CASE te \notin {"chunked", "none"}
  <2>1. Ending(te, cl) = "bad"
    BY <1>4 DEF Ending
  <2>. QED  BY <2>1 DEF Told
<1>5. CASE te = "none"
  <2>1. \A n \in 1..Len(hs) : hs[n][1] # "te"
    BY <1>2, <1>5 DEF Gets
  <2>2. ~Chunked(r)
    <3>1. ASSUME NEW n \in 1..Len(hs), hs[n] = <<"te", "chunked">> PROVE FALSE
      <4>1. hs[n][1] = "te"
        BY <3>1
      <4>. QED  BY <2>1, <4>1
    <3>. QED  BY <1>1, <3>1 DEF Chunked, Has
  <2>3. CASE cl # "none"
    <3>1. Ending(te, cl) = "length"
      BY <1>5, <2>3 DEF Ending
    <3>2. PICK n \in 1..Len(hs) : hs[n] = <<"cl", cl>>
      BY <1>2, <2>3 DEF Gets
    <3>3. hs[n][1] = "cl" /\ hs[n][2] = cl
      BY <3>2
    <3>4. \A i \in 1..Len(hs) : hs[i][1] = "cl" /\ IsNumber(hs[i][2]) =>
                                  Number(hs[i][2]) = Len(Body(r))
      BY <1>1, <2>2, ResponseIs DEF Means
    <3>5. IsNumber(cl) => Number(cl) = Len(Body(r))
      BY <3>3, <3>4
    <3>. QED  BY <2>2, <3>1, <3>5 DEF Told
  <2>4. CASE cl = "none"
    <3>1. Ending(te, cl) = "close"
      BY <1>5, <2>4 DEF Ending
    <3>2. \A n \in 1..Len(hs) : hs[n][1] # "cl"
      BY <1>2, <2>4 DEF Gets
    <3>3. ~Framed(r)
      BY <1>1, <2>2, <3>2 DEF Framed
    <3>. QED  BY <3>1, <3>3 DEF Told
  <2>. QED  BY <2>3, <2>4
<1>. QED  BY <1>3, <1>4, <1>5

(* The head that is cut off is the one that was sent.                      *)
LEMMA HeadRead ==
  ASSUME NEW e \in Seq(Byte), NEW h \in Seq(Byte), At(e, 0, h), NEW q \in Nat,
         q <= Len(e), Len(h) <= q
  PROVE  /\ SubSeq(SubSeq(e, 0 + 1, q), 1, Len(h)) = h
         /\ From(SubSeq(e, 0 + 1, q), Len(h) + 1) = SubSeq(e, Len(h) + 1, q)
<1>1. PICK z \in Nat : z = 0
  OBVIOUS
<1>2. PICK l \in Nat : l = Len(h)
  OBVIOUS
<1>3. Cuts(e, z, z, l, q) /\ Cuts(e, z, l, l, q)
  BY <1>1, <1>2 DEF Cuts
<1>4. Sliced(e, z, z, l, q) /\ Sliced(e, z, l, l, q)
  BY <1>3, Slices
<1>5. /\ SubSeq(SubSeq(e, z + 1, q), (z - z) + 1, l - z) = SubSeq(e, z + 1, l)
      /\ From(SubSeq(e, z + 1, q), (l - z) + 1) = SubSeq(e, l + 1, q)
  BY <1>4 DEF Sliced
<1>6. SubSeq(e, z + 1, z + Len(h)) = h
  BY <1>1, AtIs
<1>7. (z - z) + 1 = 1 /\ l - z = l /\ z + Len(h) = l
  BY <1>1, <1>2
<1>. QED  BY <1>1, <1>2, <1>5, <1>6, <1>7

LEMMA TopLies ==
  ASSUME NEW r \in Responses
  PROVE  Encoded(r) \in Seq(Byte) /\ At(Encoded(r), 0, Top(r))
<1>1. CASE Chunked(r)
  BY <1>1, ChunkedIs
<1>2. CASE ~Chunked(r)
  BY <1>2, PlainIs DEF Framing
<1>. QED  BY <1>1, <1>2

(* What the reader has when it knows the head.                             *)
LEMMA ReadBodyIs ==
  ASSUME NEW r \in Responses, NEW c, NEW q, Window(Encoded(r), c, 0, q),
         Find(buf, Blank) # 0
  PROVE  /\ SubSeq(buf, 1, HeadEnd) = Top(r) /\ Len(Top(r)) <= q
         /\ From(buf, HeadEnd + 1) = SubSeq(Encoded(r), Len(Top(r)) + 1, q)
<1>1. PICK e, h : e = Encoded(r) /\ h = Top(r)
  OBVIOUS
<1>2. e \in Seq(Byte) /\ At(e, 0, h) /\ h \in Seq(Byte)
  BY <1>1, TopLies DEF At
<1>3. HeadEnd = Len(h) /\ Len(h) <= q
  BY <1>1, <1>2, TopEnds
<1>4. q \in Nat /\ q <= Len(e) /\ buf = SubSeq(e, 0 + 1, q)
  BY <1>1 DEF Window
<1>. QED  BY <1>1, <1>2, <1>3, <1>4, HeadRead

-----------------------------------------------------------------------------
LEMMA LeastIs ==
  ASSUME NEW m \in Nat, NEW n \in Nat
  PROVE  /\ Least(m, n) \in Nat /\ Least(m, n) <= m /\ Least(m, n) <= n
         /\ Least(m, n) = m \/ Least(m, n) = n
BY DEF Least

LEMMA HeadReads ==
  ASSUME NEW r \in Responses, NEW c, InHead(r, c), at = "head",
         ReadHead(HeadRoom, MaxHead)
  PROVE  \/ at' = "head" /\ InHead(r, c)'
         \/ at' = "failed"
<1>1. PICK q, z : out = <<>> /\ Window(Encoded(r), c, z, q) /\ z = 0
  BY DEF InHead
<1>2. PICK b \in Reads(HeadRoom) :
        /\ Took(b) /\ buf' = buf \o b /\ UNCHANGED <<need, out>>
        /\ Goto(IF b = <<>> \/ TooLong(buf \o b, MaxHead) THEN "failed" ELSE at)
  BY DEF ReadHead
<1>3. PICK t : Window(Encoded(r), c, z, t)'
  <2>1. HeadRoom \in Nat /\ Took(b) /\ buf' = buf \o b
    BY <1>2, ResponsesAssumption
  <2>. QED  BY <1>1, <2>1, WindowReads
<1>4. CASE TooLong(buf \o b, MaxHead) \/ b = <<>>
  BY <1>2, <1>4 DEF Goto
<1>5. CASE ~TooLong(buf \o b, MaxHead) /\ b # <<>>
  <2>1. at' = "head" /\ ~(Len(buf') > MaxHead)
    BY <1>2, <1>5 DEF Goto, TooLong
  <2>2. buf' \in Seq(Byte)
    <3>1. PICK e : e = Encoded(r)
      OBVIOUS
    <3>2. /\ e \in Seq(Byte) /\ z \in Nat /\ t \in Nat /\ c \in Nat
          /\ z <= t /\ t <= c /\ c <= Len(e) /\ buf' = SubSeq(e, z + 1, t)
      BY <1>3, <3>1 DEF Window
    <3>3. t <= Len(e)
      BY <3>2
    <3>. QED  BY <3>2, <3>3, SliceIs
  <2>3. Len(buf') <= MaxHead
    <3>1. Len(buf') \in Nat /\ MaxHead \in Nat
      BY <2>2, ResponsesAssumption
    <3>. QED  BY <2>1, <3>1
  <2>. QED  BY <1>1, <1>2, <1>3, <2>1, <2>3 DEF InHead
<1>. QED  BY <1>4, <1>5

LEMMA HeadUsed ==
  ASSUME NEW r \in Responses, NEW c, InHead(r, c), at = "head", Find(buf, Blank) # 0,
         ReadBody(SubSeq(buf, 1, HeadEnd), From(buf, HeadEnd + 1))
  PROVE  \/ at' = "size" /\ InSize(r, c)'
         \/ at' = "exact" /\ InExact(r, c)'
         \/ at' = "close" /\ InClose(r, c)'
         \/ at' = "failed"
<1>1. PICK q : out = <<>> /\ Window(Encoded(r), c, 0, q)
  BY DEF InHead
<1>2. PICK e, h, rest : /\ e = Encoded(r) /\ h = Top(r)
                        /\ rest = SubSeq(e, Len(h) + 1, q)
  OBVIOUS
<1>3. /\ SubSeq(buf, 1, HeadEnd) = h /\ Len(h) <= q /\ From(buf, HeadEnd + 1) = rest
  BY <1>1, <1>2, ReadBodyIs
<1>4. PICK te, cl, ending : /\ te = Get(h, "te") /\ cl = Get(h, "cl")
                            /\ ending = Ending(te, cl)
  OBVIOUS
<1>5. /\ ending = "chunked" => Chunked(r)
      /\ ending = "length" =>
           ~Chunked(r) /\ (IsNumber(cl) => Number(cl) = Len(Body(r)))
      /\ ending = "close" => ~Framed(r)
      /\ ending \in {"chunked", "length", "close", "bad"}
  <2>1. Told(r, ending, cl)
    BY <1>2, <1>4, EndingIs
  <2>. QED  BY <2>1 DEF Told
<1>6. ReadBody(h, rest)
  BY <1>3
<1>7. /\ e \in Seq(Byte) /\ q \in Nat /\ c \in Nat /\ q <= c /\ c <= Len(e)
      /\ wire = SubSeq(e, q + 1, c) /\ h \in Seq(Byte)
  BY <1>1, <1>2, PartsAre DEF Window
<1>8. PICK H \in Nat : H = Len(h) /\ H <= q /\ q <= Len(e)
  BY <1>3, <1>7
<1>9. CASE Fail
  BY <1>9 DEF Fail
<1>10. CASE ending = "chunked" /\ ~Fail
  <2>1. at' = "size" /\ buf' = rest /\ UNCHANGED <<talk, wire, ends, need, out>>
    BY <1>4, <1>6, <1>10 DEF ReadBody, Goto
  <2>2. Chunked(r)
    BY <1>5, <1>10
  <2>3. PICK p : p = ChunkEnd(r, 0) /\ p = H
    BY <1>2, <1>8, <2>2, NoChunk
  <2>4. Window(e, c, p, q)'
    BY <1>2, <1>7, <1>8, <2>1, <2>3 DEF Window
  <2>5. 0 \in 0..Len(r.chunks) /\ BodyTo(r)[0] = <<>>
    <3>1. Stack(BodyTo(r), r.chunks, Len(r.chunks)) /\ Len(r.chunks) \in Nat
      BY PartsAre
    <3>. QED  BY <3>1 DEF Stack
  <2>6. Len(<<>>) <= MaxBody
    BY ResponsesAssumption
  <2>7. Window(e, c, ChunkEnd(r, 0), q)' /\ out' = <<>>
    BY <1>1, <2>1, <2>3, <2>4
  <2>. QED  BY <1>2, <2>1, <2>2, <2>5, <2>6, <2>7 DEF InSize
<1>11. CASE ending = "length" /\ ~Fail
  <2>1. /\ IsNumber(cl) /\ ~(Number(cl) > MaxBody)
        /\ at' = "exact" /\ need' = Number(cl)
        /\ out' = SubSeq(rest, 1, Least(Number(cl), Len(rest)))
        /\ UNCHANGED <<talk, wire, ends>>
    BY <1>4, <1>6, <1>11 DEF ReadBody, Goto
  <2>2. ~Chunked(r) /\ Number(cl) = Len(Body(r))
    BY <1>5, <1>11, <2>1
  <2>3. PICK n \in Nat : n = Len(Body(r))
    BY PartsAre
  <2>4. n <= MaxBody /\ need' = n
    <3>1. MaxBody \in Nat
      BY ResponsesAssumption
    <3>. QED  BY <2>1, <2>2, <2>3, <3>1
  <2>5. Len(rest) = q - H
    BY <1>2, <1>7, <1>8, SliceIs
  <2>6. PICK k \in Nat : k = Least(n, q - H) /\ k <= n /\ k <= q - H
    <3>1. q - H \in Nat
      BY <1>7, <1>8
    <3>. QED  BY <3>1, LeastIs
  <2>7. PICK t \in Nat : t = H + k /\ H <= t /\ t <= q /\ t - H = k
    <3>1. q \in Nat
      BY <1>7
    <3>2. H + k \in Nat /\ H <= H + k /\ H + k <= q /\ (H + k) - H = k
      <4>1. k <= q - H
        BY <2>6
      <4>. QED  BY <3>1, <4>1
    <3>. QED  BY <3>2
  <2>8. Sliced(e, H, H, t, q)
    <3>1. Cuts(e, H, H, t, q)
      BY <1>7, <1>8, <2>7 DEF Cuts
    <3>. QED  BY <3>1, Slices
  <2>9. SubSeq(SubSeq(e, H + 1, q), (H - H) + 1, t - H) = SubSeq(e, H + 1, t)
    BY <2>8 DEF Sliced
  <2>10. out' = SubSeq(e, H + 1, t)
    <3>1. (H - H) + 1 = 1
      OBVIOUS
    <3>2. out' = SubSeq(rest, 1, k)
      BY <2>1, <2>2, <2>3, <2>5, <2>6
    <3>. QED  BY <1>2, <1>8, <2>7, <2>9, <3>1, <3>2
  <2>11. Ahead(e, q, c)'
    BY <1>7, <1>8, <2>1 DEF Ahead
  <2>12. q >= H /\ out' = SubSeq(e, H + 1, H + Least(need', q - H))
    BY <1>8, <1>7, <2>4, <2>6, <2>7, <2>10
  <2>. QED  BY <1>2, <1>8, <2>1, <2>2, <2>3, <2>4, <2>11, <2>12 DEF InExact
<1>12. CASE ending = "close" /\ ~Fail
  <2>1. at' = "close" /\ out' = rest /\ UNCHANGED <<talk, wire, ends, need>>
    BY <1>4, <1>6, <1>12 DEF ReadBody, Goto
  <2>2. Ahead(e, q, c)'
    BY <1>7, <1>8, <2>1 DEF Ahead
  <2>3. q >= H
    BY <1>7, <1>8
  <2>. QED  BY <1>2, <1>5, <1>8, <1>12, <2>1, <2>2, <2>3 DEF InClose
<1>13. CASE ending = "bad" /\ ~Fail
  BY <1>4, <1>6, <1>13 DEF ReadBody
<1>. QED  BY <1>5, <1>9, <1>10, <1>11, <1>12, <1>13

-----------------------------------------------------------------------------
(* A part of a sequence from its start is a prefix of it.                  *)
LEMMA PrefixIs ==
  ASSUME NEW w \in Seq(Byte), NEW s \in Seq(Byte), Len(s) <= Len(w),
         \A k \in 1..Len(s) : s[k] = w[k]
  PROVE  IsPrefix(s, w)
<1>1. PICK n \in Nat : n = Len(s) /\ n <= Len(w)
  OBVIOUS
<1>2. PICK v : v = SubSeq(w, 1, n)
  OBVIOUS
<1>3. v \in Seq(Byte) /\ Len(v) = n /\ \A k \in 1..n : v[k] = w[k]
  BY <1>1, <1>2
<1>4. v = s
  BY <1>1, <1>3, SeqEqual
<1>5. SubSeq(s, 1, n) = s
  BY <1>1
<1>. QED  BY <1>1, <1>2, <1>4, <1>5 DEF IsPrefix

LEMMA StepExact ==
  ASSUME NEW r \in Responses, NEW c, InExact(r, c), at = "exact", ExactBody
  PROVE  \/ at' = "exact" /\ InExact(r, c)'
         \/ at' = "done" /\ Finished(r, c)'
         \/ at' = "failed"
<1>1. PICK e, h, b : e = Encoded(r) /\ h = Top(r) /\ b = Body(r)
  OBVIOUS
<1>2. /\ h \in Seq(Byte) /\ b \in Seq(Byte)
      /\ At(e, Len(h), b) /\ Len(e) = Len(h) + Len(b) + Len(r.extra)
      /\ Len(r.extra) \in Nat
  <2>1. Framing(e, h, b, r.extra)
    BY <1>1, PlainIs DEF InExact
  <2>2. h \in Seq(Byte) /\ b \in Seq(Byte) /\ r.extra \in Seq(Byte)
    BY <1>1, PartsAre
  <2>. QED  BY <2>1, <2>2 DEF Framing
<1>3. PICK H \in Nat, n \in Nat, x \in Nat : H = Len(h) /\ n = Len(b) /\ x = Len(r.extra)
  BY <1>2
<1>4. PICK q : /\ need = n /\ need <= MaxBody /\ q >= H /\ Ahead(e, q, c)
               /\ out = SubSeq(e, H + 1, H + Least(need, q - H))
  BY <1>1, <1>3 DEF InExact
<1>5. /\ e \in Seq(Byte) /\ q \in Nat /\ c \in Nat /\ q <= c /\ c <= Len(e)
      /\ wire = SubSeq(e, q + 1, c)
  BY <1>4 DEF Ahead
<1>6. PICK l \in Nat : l = Len(e) /\ l = H + n + x /\ q <= l
  <2>1. Len(e) = H + n + x
    BY <1>2, <1>3
  <2>2. PICK l \in Nat : l = Len(e)
    BY <1>5
  <2>3. q <= l
    BY <1>5, <2>2
  <2>. QED  BY <2>1, <2>2, <2>3
<1>7. PICK k \in Nat : /\ k = Least(n, q - H) /\ k <= n /\ k <= q - H
                       /\ k = n \/ k = q - H
  <2>1. q - H \in Nat
    BY <1>4, <1>5
  <2>. QED  BY <2>1, LeastIs, SMTT(30)
<1>8. PICK t \in Nat : t = H + k /\ H <= t /\ t <= l /\ t - H = k
  <2>1. H + k \in Nat /\ H <= H + k /\ H + k <= l /\ (H + k) - H = k
    BY <1>6, <1>7
  <2>. QED  BY <2>1
<1>9. out = SubSeq(e, H + 1, t) /\ Len(out) = k /\ out \in Seq(Byte)
  <2>1. out = SubSeq(e, H + 1, t)
    BY <1>4, <1>7, <1>8
  <2>. QED  BY <1>5, <1>6, <1>8, <2>1, SliceIs
<1>10. ~Chunked(r)
  BY DEF InExact
<1>11. CASE Len(out) = need
  <2>1. at' = "done" /\ UNCHANGED <<talk, wire, out>>
    <3>1. ~(Len(out) < need)
      <4>1. ~(n < n) /\ need = n
        BY <1>3, <1>4
      <4>. QED  BY <1>11, <4>1
    <3>. QED  BY <3>1 DEF ExactBody, Goto
  <2>2. k = n
    BY <1>4, <1>9, <1>11
  <2>3. out = b
    <3>1. At(e, H, b) /\ e \in Seq(Byte)
      BY <1>2, <1>3, <1>5
    <3>2. SubSeq(e, H + 1, H + Len(b)) = b
      BY <3>1, AtIs
    <3>. QED  BY <1>3, <1>8, <1>9, <2>2, <3>2
  <2>4. Len(wire) = c - q
    BY <1>5, SliceIs
  <2>5. Len(wire) + Len(e) <= c + Len(r.extra)
    <3>1. n <= q - H
      BY <1>7, <2>2
    <3>2. c - q + (H + n + x) <= c + x
      BY <1>5, <3>1
    <3>. QED  BY <1>3, <1>6, <2>4, <3>2
  <2>6. Len(out) <= MaxBody
    BY <1>4, <1>11
  <2>7. IF Framed(r) THEN out = Body(r) ELSE IsPrefix(out, Body(r) \o r.extra)
    <3>1. CASE Framed(r)
      BY <1>1, <2>3, <3>1
    <3>2. CASE ~Framed(r)
      <4>1. PICK w : w = b \o r.extra
        OBVIOUS
      <4>2. /\ w \in Seq(Byte) /\ Len(w) = Len(b) + Len(r.extra)
            /\ \A j \in 1..(Len(b) + Len(r.extra)) :
                 w[j] = IF j <= Len(b) THEN b[j] ELSE r.extra[j - Len(b)]
        <5>1. r.extra \in Seq(Byte)
          BY PartsAre
        <5>. QED  BY <1>2, <4>1, <5>1, ConcatProperties
      <4>3. Len(b) <= Len(w) /\ \A j \in 1..Len(b) : b[j] = w[j]
        BY <1>3, <4>2, SMTT(30)
      <4>4. IsPrefix(b, w)
        BY <1>2, <4>2, <4>3, PrefixIs
      <4>. QED  BY <1>1, <2>3, <3>2, <4>1, <4>4
    <3>. QED  BY <3>1, <3>2
  <2>. QED  BY <1>1, <2>1, <2>5, <2>6, <2>7 DEF Finished
<1>12. CASE Len(out) < need
  <2>1. PICK room : room = need - Len(out)
    OBVIOUS
  <2>2. room \in Nat /\ room = n - k /\ k = q - H /\ t = q
    <3>1. k < n /\ room = n - k
      BY <1>4, <1>9, <1>12, <2>1
    <3>2. n - k \in Nat /\ k = q - H
      BY <1>7, <3>1
    <3>3. t = q
      BY <1>5, <1>8, <3>2
    <3>. QED  BY <3>1, <3>2, <3>3
  <2>3. PICK bb \in Reads(room) :
          /\ Took(bb) /\ out' = out \o bb /\ at' = (IF bb = <<>> THEN "failed" ELSE at)
          /\ need' = need
    <3>1. Len(out) # need
      BY <1>4, <1>9, <1>12
    <3>. QED  BY <2>1, <3>1 DEF ExactBody, Goto
  <2>4. PICK u \in q..c :
          /\ bb = SubSeq(e, q + 1, u) /\ Len(bb) = u - q /\ u - q <= room
          /\ From(wire, Len(bb) + 1) = SubSeq(e, u + 1, c)
          /\ (bb = <<>> => q = c)
    <3>1. Ahead(e, q, c) /\ room \in Nat /\ bb \in Reads(room)
      BY <1>4, <2>2, <2>3
    <3>. QED  BY <3>1, ReadGives, Zenon
  <2>5. u \in Nat /\ q <= u /\ u <= c /\ u <= l /\ u - H <= n /\ u >= H /\ u - H \in Nat
    <3>1. u \in Nat /\ q <= u /\ u <= c
      BY <1>5, <2>4
    <3>2. u - q <= n - k /\ k = q - H /\ c <= l
      BY <1>5, <1>6, <2>2, <2>4
    <3>. QED  BY <1>4, <1>5, <3>1, <3>2
  <2>6. out' = SubSeq(e, H + 1, u)
    <3>1. Cuts(e, H, q, u, c)
      BY <1>4, <1>5, <2>5 DEF Cuts
    <3>2. SubSeq(e, H + 1, q) \o SubSeq(e, q + 1, u) = SubSeq(e, H + 1, u)
      <4>1. Sliced(e, H, q, u, c)
        BY <3>1, Slices
      <4>. QED  BY <4>1 DEF Sliced
    <3>. QED  BY <1>9, <2>2, <2>3, <2>4, <3>2
  <2>7. Least(need', u - H) = u - H /\ H + (u - H) = u
    BY <1>4, <2>3, <2>5 DEF Least
  <2>8. Ahead(e, u, c)'
    <3>1. wire' = SubSeq(e, u + 1, c)
      BY <2>3, <2>4 DEF Took
    <3>. QED  BY <1>5, <2>5, <3>1 DEF Ahead
  <2>9. /\ ~Chunked(r) /\ need' = Len(b) /\ need' <= MaxBody
        /\ u >= Len(h) /\ out' = SubSeq(e, Len(h) + 1, Len(h) + Least(need', u - Len(h)))
    BY <1>3, <1>4, <1>10, <2>3, <2>5, <2>6, <2>7
  <2>10. InExact(r, c)'
    BY <1>1, <2>8, <2>9 DEF InExact
  <2>. QED  BY <2>3, <2>10
<1>. QED  BY <1>11, <1>12 DEF ExactBody

-----------------------------------------------------------------------------
(* What the reader of an unframed body takes is a part of what was sent.   *)
LEMMA PartOfBody ==
  ASSUME NEW r \in Responses, ~Chunked(r), NEW q \in Nat, q >= Len(Top(r)),
         q <= Len(Encoded(r))
  PROVE  IsPrefix(SubSeq(Encoded(r), Len(Top(r)) + 1, q), Body(r) \o r.extra)
<1>1. PICK e, h, b, x, w : /\ e = Encoded(r) /\ h = Top(r) /\ b = Body(r)
                           /\ x = r.extra /\ w = b \o x
  OBVIOUS
<1>2. h \in Seq(Byte) /\ b \in Seq(Byte) /\ x \in Seq(Byte)
  BY <1>1, PartsAre
<1>3. PICK H \in Nat, n \in Nat, m \in Nat : H = Len(h) /\ n = Len(b) /\ m = Len(x)
  BY <1>2
<1>4. /\ e \in Seq(Byte) /\ Len(e) = H + n + m
      /\ \A k \in 1..n : e[H + k] = b[k]
      /\ \A k \in 1..m : e[(H + n) + k] = x[k]
  <2>1. Framing(e, h, b, x)
    BY <1>1, PlainIs
  <2>. QED  BY <1>3, <2>1 DEF Framing, At
<1>5. /\ w \in Seq(Byte) /\ Len(w) = n + m
      /\ \A k \in 1..(n + m) : w[k] = IF k <= n THEN b[k] ELSE x[k - n]
  <2>1. Joined(w, b, x)
    BY <1>1 DEF Joined
  <2>2. /\ w \in Seq(Byte) /\ Len(w) = Len(b) + Len(x)
        /\ \A k \in 1..(Len(b) + Len(x)) :
             w[k] = IF k <= Len(b) THEN b[k] ELSE x[k - Len(b)]
    BY <1>2, <2>1, JoinedAre
  <2>. QED  BY <1>3, <2>2
<1>6. ASSUME NEW k \in 1..(n + m) PROVE e[H + k] = w[k]
  <2>1. CASE k <= n
    BY <1>4, <1>5, <2>1
  <2>2. CASE ~(k <= n)
    <3>1. k - n \in 1..m /\ (H + n) + (k - n) = H + k
      BY <2>2
    <3>2. e[H + k] = x[k - n]
      BY <1>4, <3>1
    <3>. QED  BY <1>5, <2>2, <3>2
  <2>. QED  BY <2>1, <2>2
<1>7. H <= q /\ q <= H + n + m
  BY <1>1, <1>3, <1>4
<1>8. PICK s : s = SubSeq(e, H + 1, q)
  OBVIOUS
<1>9. s \in Seq(Byte) /\ Len(s) = q - H /\ \A k \in 1..(q - H) : s[k] = e[H + k]
  BY <1>4, <1>7, <1>8, SliceIs
<1>10. PICK j \in Nat : j = q - H /\ j <= n + m
  <2>1. q - H \in Nat /\ q - H <= n + m
    BY <1>7
  <2>. QED  BY <2>1
<1>11. Len(s) <= Len(w) /\ \A k \in 1..Len(s) : s[k] = w[k]
  <2>1. \A k \in 1..j : k \in 1..(n + m)
    BY <1>10
  <2>2. \A k \in 1..j : s[k] = w[k]
    BY <1>6, <1>9, <1>10, <2>1
  <2>. QED  BY <1>5, <1>9, <1>10, <2>2
<1>12. IsPrefix(s, w)
  BY <1>5, <1>9, <1>11, PrefixIs
<1>. QED  BY <1>1, <1>3, <1>8, <1>12

LEMMA StepClose ==
  ASSUME NEW r \in Responses, NEW c, InClose(r, c), at = "close", CloseBody
  PROVE  \/ at' = "close" /\ InClose(r, c)'
         \/ at' = "done" /\ Finished(r, c)'
         \/ at' = "failed"
<1>1. PICK e, H : e = Encoded(r) /\ H = Len(Top(r))
  OBVIOUS
<1>2. PICK q : q >= H /\ Ahead(e, q, c) /\ out = SubSeq(e, H + 1, q)
  BY <1>1 DEF InClose
<1>3. /\ e \in Seq(Byte) /\ q \in Nat /\ c \in Nat /\ q <= c /\ c <= Len(e)
      /\ wire = SubSeq(e, q + 1, c)
  BY <1>2 DEF Ahead
<1>4. H \in Nat
  BY <1>1, PartsAre
<1>5. ~Framed(r)
  BY DEF InClose
<1>6. HeadRoom \in Nat
  BY ResponsesAssumption
<1>7. PICK b \in Reads(HeadRoom) :
        /\ Took(b)
        /\ out' = IF Len(out \o b) > MaxBody THEN out ELSE out \o b
        /\ at' = IF b = <<>> THEN "done"
                 ELSE IF Len(out \o b) > MaxBody THEN "failed" ELSE at
  BY DEF CloseBody, Goto
<1>8. PICK t \in q..c :
        /\ b = SubSeq(e, q + 1, t) /\ Len(b) = t - q /\ t - q <= HeadRoom
        /\ From(wire, Len(b) + 1) = SubSeq(e, t + 1, c)
        /\ (b = <<>> => q = c)
  <2>1. Ahead(e, q, c) /\ HeadRoom \in Nat /\ b \in Reads(HeadRoom)
    BY <1>2, <1>6, <1>7
  <2>. QED  BY <2>1, ReadGives, Zenon
<1>9. t \in Nat /\ q <= t /\ t <= c /\ H <= t /\ t <= Len(e) /\ H <= q /\ q <= Len(e)
  <2>1. PICK l \in Nat : l = Len(e)
    BY <1>3
  <2>2. q \in Nat /\ c \in Nat /\ q <= c /\ c <= l /\ t \in q..c /\ q >= H
    BY <1>2, <1>3, <1>8, <2>1
  <2>3. t \in Nat /\ q <= t /\ t <= c /\ H <= t /\ t <= l /\ H <= q /\ q <= l
    BY <1>4, <2>2
  <2>. QED  BY <2>1, <2>3
<1>10. out \o b = SubSeq(e, H + 1, t)
  <2>1. Cuts(e, H, q, t, c)
    BY <1>3, <1>4, <1>9 DEF Cuts
  <2>2. Sliced(e, H, q, t, c)
    BY <2>1, Slices
  <2>3. SubSeq(e, H + 1, q) \o SubSeq(e, q + 1, t) = SubSeq(e, H + 1, t)
    BY <2>2 DEF Sliced
  <2>. QED  BY <1>2, <1>8, <2>3
<1>11. CASE b = <<>>
  <2>1. out \in Seq(Byte)
    BY <1>2, <1>3, <1>4, <1>9, SliceIs
  <2>2. out \o b = out
    BY <1>11, <2>1, ConcatEmptySeq
  <2>3. at' = "done" /\ out' = out
    BY <1>7, <1>11, <2>2
  <2>4. ~Chunked(r)
    BY <1>5 DEF Framed
  <2>5. IsPrefix(out', Body(r) \o r.extra)
    <3>1. IsPrefix(SubSeq(Encoded(r), Len(Top(r)) + 1, q), Body(r) \o r.extra)
      BY <1>1, <1>3, <1>9, <2>4, PartOfBody
    <3>. QED  BY <1>1, <1>2, <2>3, <3>1
  <2>. QED  BY <1>5, <2>3, <2>5 DEF Finished
<1>12. CASE b # <<>> /\ Len(out \o b) > MaxBody
  BY <1>7, <1>12
<1>13. CASE b # <<>> /\ ~(Len(out \o b) > MaxBody)
  <2>1. at' = "close" /\ out' = SubSeq(e, H + 1, t)
    BY <1>7, <1>10, <1>13
  <2>2. Ahead(e, t, c)'
    <3>1. wire' = SubSeq(e, t + 1, c)
      BY <1>7, <1>8 DEF Took
    <3>. QED  BY <1>3, <1>9, <3>1 DEF Ahead
  <2>3. t >= H
    BY <1>4, <1>9
  <2>. QED  BY <1>1, <1>5, <2>1, <2>2, <2>3 DEF InClose
<1>. QED  BY <1>11, <1>12, <1>13

-----------------------------------------------------------------------------
Where(r, c) ==
  /\ at \in {"head", "size", "chunk", "trailer", "exact", "close", "done", "failed"}
  /\ at = "head" => InHead(r, c)
  /\ at = "size" => InSize(r, c)
  /\ at = "chunk" => InChunk(r, c)
  /\ at = "trailer" => InTrailer(r, c)
  /\ at = "exact" => InExact(r, c)
  /\ at = "close" => InClose(r, c)
  /\ at = "done" => Finished(r, c)

HttpInv == talk.kind = "http" =>
  \E r \in Responses : talk.said = r /\ Where(r, talk.cut)

LEMMA InitHttp == Init => HttpInv
<1>. SUFFICES ASSUME Init, talk.kind = "http"
              PROVE  \E r \in Responses : talk.said = r /\ Where(r, talk.cut)
  BY DEF HttpInv
<1>1. HttpInit
  <2>1. UpgradeInit => \E x : talk = [kind |-> "ws", said |-> x]
    BY DEF UpgradeInit
  <2>2. FrameInit => \E x : talk = [kind |-> "frame", said |-> x]
    BY DEF FrameInit
  <2>3. ProxyInit => \E x, y : talk = [kind |-> "proxy", chain |-> x, host |-> y]
    BY DEF ProxyInit
  <2>. QED  BY <2>1, <2>2, <2>3 DEF Init, Reader
<1>0. PICK r \in Responses : \E cut \in 0..Len(Encoded(r)) :
        /\ talk = [kind |-> "http", said |-> r, cut |-> cut]
        /\ wire = SubSeq(Encoded(r), 1, cut)
        /\ at = "head" /\ buf = <<>> /\ need = 0 /\ out = <<>>
  BY <1>1 DEF HttpInit
<1>2. PICK c \in 0..Len(Encoded(r)) :
        /\ talk = [kind |-> "http", said |-> r, cut |-> c]
        /\ wire = SubSeq(Encoded(r), 1, c)
        /\ at = "head" /\ buf = <<>> /\ need = 0 /\ out = <<>>
  BY <1>0
<1>3. PICK e : e = Encoded(r) /\ e \in Seq(Byte)
  BY TopLies
<1>4. PICK z : z = 0
  OBVIOUS
<1>5. Window(e, c, z, z)
  <2>1. c \in Nat /\ z \in Nat /\ z <= z /\ z <= c /\ c <= Len(e) /\ z + 1 = 1
    BY <1>2, <1>3, <1>4
  <2>2. SubSeq(e, z + 1, z) = <<>>
    BY <1>3, <1>4
  <2>. QED  BY <1>2, <1>3, <2>1, <2>2 DEF Window
<1>6. Len(<<>>) <= MaxHead
  BY ResponsesAssumption
<1>7. InHead(r, c)
  BY <1>2, <1>3, <1>4, <1>5, <1>6 DEF InHead
<1>8. Where(r, c)
  BY <1>2, <1>7 DEF Where
<1>9. talk.said = r /\ talk.cut = c
  BY <1>2
<1>. QED  BY <1>8, <1>9

(* A state is only about these.                                            *)
LEMMA WhereStays ==
  ASSUME NEW r, NEW c, Where(r, c), UNCHANGED <<wire, at, buf, need, out>>
  PROVE  Where(r, c)'
BY DEF Where, InHead, InSize, InChunk, InTrailer, InExact, InClose, Finished,
   Window, Ahead

LEMMA StepHttp == HttpInv /\ [Next]_vars => HttpInv'
<1>. SUFFICES ASSUME HttpInv, [Next]_vars, talk.kind = "http" PROVE HttpInv'
  BY TalkStays DEF HttpInv
<1>0. PICK r \in Responses : talk.said = r /\ Where(r, talk.cut)
  BY DEF HttpInv
<1>1. PICK c : talk.said = r /\ c = talk.cut /\ Where(r, c)
  BY <1>0
<1>2. talk' = talk
  BY TalkStays
<1>3. SUFFICES Where(r, c)'
  BY <1>1, <1>2 DEF HttpInv
<1>4. CASE UNCHANGED vars
  BY <1>1, <1>4, WhereStays DEF vars, streamVars
<1>5. CASE HttpNext
  <2>1. CASE Head1
    <3>1. InHead(r, c) /\ at = "head"
      BY <1>1, <2>1 DEF Head1, Where
    <3>2. CASE ReadHead(HeadRoom, MaxHead)
      <4>1. \/ at' = "head" /\ InHead(r, c)'
            \/ at' = "failed"
        BY <3>1, <3>2, HeadReads
      <4>. QED  BY <4>1 DEF Where
    <3>3. CASE /\ Find(buf, Blank) # 0
               /\ ReadBody(SubSeq(buf, 1, HeadEnd), From(buf, HeadEnd + 1))
      <4>1. \/ at' = "size" /\ InSize(r, c)'
            \/ at' = "exact" /\ InExact(r, c)'
            \/ at' = "close" /\ InClose(r, c)'
            \/ at' = "failed"
        BY <3>1, <3>3, HeadUsed
      <4>. QED  BY <4>1 DEF Where
    <3>. QED  BY <2>1, <3>2, <3>3 DEF Head1
  <2>2. CASE ExactBody
    <3>1. InExact(r, c) /\ at = "exact"
      BY <1>1, <2>2 DEF ExactBody, Where
    <3>2. \/ at' = "exact" /\ InExact(r, c)'
          \/ at' = "done" /\ Finished(r, c)'
          \/ at' = "failed"
      BY <2>2, <3>1, StepExact
    <3>. QED  BY <3>2 DEF Where
  <2>3. CASE CloseBody
    <3>1. InClose(r, c) /\ at = "close"
      BY <1>1, <2>3 DEF CloseBody, Where
    <3>2. \/ at' = "close" /\ InClose(r, c)'
          \/ at' = "done" /\ Finished(r, c)'
          \/ at' = "failed"
      BY <2>3, <3>1, StepClose
    <3>. QED  BY <3>2 DEF Where
  <2>4. CASE Size
    <3>1. InSize(r, c) /\ at = "size"
      BY <1>1, <2>4 DEF Size, Where
    <3>2. \/ at' = "size" /\ InSize(r, c)'
          \/ at' = "chunk" /\ InChunk(r, c)'
          \/ at' = "trailer" /\ InTrailer(r, c)'
          \/ at' = "failed"
      BY <2>4, <3>1, StepSize
    <3>. QED  BY <3>2 DEF Where
  <2>5. CASE ChunkBody
    <3>1. InChunk(r, c) /\ at = "chunk"
      BY <1>1, <2>5 DEF ChunkBody, Where
    <3>2. \/ at' = "chunk" /\ InChunk(r, c)'
          \/ at' = "size" /\ InSize(r, c)'
          \/ at' = "failed"
      BY <2>5, <3>1, StepChunk
    <3>. QED  BY <3>2 DEF Where
  <2>6. CASE Trailer
    <3>1. InTrailer(r, c) /\ at = "trailer"
      BY <1>1, <2>6 DEF Trailer, Where
    <3>2. \/ at' = "trailer" /\ InTrailer(r, c)'
          \/ at' = "done" /\ Finished(r, c)'
      BY <2>6, <3>1, StepTrailer
    <3>. QED  BY <3>2 DEF Where
  <2>. QED  BY <1>5, <2>1, <2>2, <2>3, <2>4, <2>5, <2>6 DEF HttpNext
<1>. QED  BY <1>4, <1>5 DEF Next

LEMMA HttpHolds == Spec => []HttpInv
<1>. QED  BY InitHttp, StepHttp, PTL DEF Spec

(* However the server cuts and frames a body and the reads cut what comes, *)
(* what the client returns is the body that was sent.                      *)
THEOREM BodiesAreFaithful == Spec => []BodyFaithful
<1>1. HttpInv => BodyFaithful
  BY DEF HttpInv, Where, Finished, BodyFaithful, Response
<1>. QED  BY <1>1, HttpHolds, PTL

(* And of a framed one it leaves nothing on the stream.                    *)
THEOREM ResponsesAreConsumed == Spec => []ConsumedExactly
<1>1. HttpInv => ConsumedExactly
  BY DEF HttpInv, Where, Finished, ConsumedExactly, Response
<1>. QED  BY <1>1, HttpHolds, PTL

(* Neither a head nor a framed body grows over its limit.                  *)
THEOREM LimitsAreKept == Spec => []LimitKept
<1>1. HttpInv => LimitKept
  BY DEF HttpInv, Where, InHead, Finished, LimitKept, Response
<1>. QED  BY <1>1, HttpHolds, PTL

-----------------------------------------------------------------------------
(* Numbers of two and of four bytes.                                       *)
Low(n) == n % 256
High(n) == n \div 256
Upper(n) == n \div 65536
Lower(n) == n % 65536
Two(x, y) == x + 256 * y
Four(l, h) == l + 65536 * h

LEMMA Divide ==
  ASSUME NEW n \in Nat
  PROVE  Low(n) \in Octet /\ High(n) \in Nat /\ n = Two(Low(n), High(n))
BY SMT DEF Octet, Low, High, Two

LEMMA Divided ==
  ASSUME NEW x \in Octet, NEW h \in Nat
  PROVE  Two(x, h) \in Nat /\ Low(Two(x, h)) = x /\ High(Two(x, h)) = h
BY SMT DEF Octet, Low, High, Two

LEMMA TwoIs ==
  ASSUME NEW x \in Octet, NEW y \in Octet
  PROVE  Two(x, y) \in Word16 /\ Low(y) = y /\ y \in Nat
BY SMT DEF Octet, Two, Word16, Low

LEMMA HighIs ==
  ASSUME NEW n \in Word16
  PROVE  n \in Nat /\ High(n) \in Octet
BY SMT DEF Octet, High, Word16

LEMMA UpperOf ==
  ASSUME NEW l \in Word16, NEW h \in Nat
  PROVE  Four(l, h) \in Nat /\ Upper(Four(l, h)) = h
BY SMT DEF Word16, Four, Upper

LEMMA UpperIs ==
  ASSUME NEW n \in Nat
  PROVE  Upper(n) \in Nat /\ Lower(n) \in Word16 /\ n = Four(Lower(n), Upper(n))
BY SMT DEF Word16, Lower, Upper, Four

(* The lower half of a number has its lower two bytes.                     *)
LEMMA LowerBytes ==
  ASSUME NEW l \in Word16, NEW h \in Nat
  PROVE  Low(Four(l, h)) = Low(l) /\ Low(High(Four(l, h))) = Low(High(l))
<1>1. l \in Nat /\ High(l) \in Octet
  BY HighIs
<1>2. PICK x \in Octet, y \in Octet : x = Low(l) /\ y = High(l) /\ l = Two(x, y)
  BY <1>1, Divide
<1>3. Two(y, h) \in Nat /\ Low(Two(y, h)) = y
  BY Divided
<1>4. Four(l, h) = Two(x, Two(y, h))
  BY <1>2, SMT DEF Four, Two, Octet
<1>5. Low(Four(l, h)) = x /\ High(Four(l, h)) = Two(y, h)
  BY <1>3, <1>4, Divided
<1>6. Low(High(l)) = y
  BY <1>2, TwoIs
<1>. QED  BY <1>2, <1>3, <1>5, <1>6

LEMMA Word32Is ==
  ASSUME NEW n
  PROVE  n \in Word32 <=> n \in Nat /\ Upper(n) \in Word16
BY UpperIs, SMT DEF Word32, Word16, Upper

LEMMA Bytes2Are ==
  ASSUME NEW n
  PROVE  Bytes2(n) = <<Low(n), Low(High(n))>>
BY DEF Bytes2, Low, High

LEMMA Bytes2Is ==
  ASSUME NEW n \in Nat
  PROVE  /\ Bytes2(n) \in Seq(Octet) /\ Len(Bytes2(n)) = 2
         /\ Bytes2(n)[1] = Low(n) /\ Bytes2(n)[2] = Low(High(n))
<1>1. PICK x, y : x = Low(n) /\ y = Low(High(n))
  OBVIOUS
<1>2. x \in Octet /\ y \in Octet
  BY <1>1, Divide
<1>3. Bytes2(n) = <<x, y>>
  BY <1>1, Bytes2Are
<1>. QED  BY <1>1, <1>2, <1>3

LEMMA PairsJoined ==
  ASSUME NEW a \in Seq(Octet), NEW b \in Seq(Octet), Len(a) = 2, Len(b) = 2
  PROVE  /\ a \o b \in Seq(Octet) /\ Len(a \o b) = 4
         /\ (a \o b)[1] = a[1] /\ (a \o b)[2] = a[2]
         /\ (a \o b)[3] = b[1] /\ (a \o b)[4] = b[2]
<1>1. PICK c : c = a \o b
  OBVIOUS
<1>2. /\ c \in Seq(Octet) /\ Len(c) = Len(a) + Len(b)
      /\ \A k \in 1..(Len(a) + Len(b)) :
           c[k] = IF k <= Len(a) THEN a[k] ELSE b[k - Len(a)]
  BY <1>1, ConcatProperties, Zenon
<1>3. c[1] = a[1] /\ c[2] = a[2] /\ c[3] = b[3 - 2] /\ c[4] = b[4 - 2]
  BY <1>2, SMT
<1>4. c[3] = b[1] /\ c[4] = b[2]
  BY <1>3, SMT
<1>. QED  BY <1>1, <1>2, <1>3, <1>4, SMT

LEMMA Bytes4Is ==
  ASSUME NEW n \in Nat
  PROVE  /\ Bytes4(n) \in Seq(Octet) /\ Len(Bytes4(n)) = 4
         /\ Bytes4(n)[1] = Low(n) /\ Bytes4(n)[2] = Low(High(n))
         /\ Bytes4(n)[3] = Low(Upper(n)) /\ Bytes4(n)[4] = Low(High(Upper(n)))
<1>1. PICK h \in Nat : h = Upper(n)
  BY UpperIs
<1>2. PICK a, b : a = Bytes2(n) /\ b = Bytes2(h)
  OBVIOUS
<1>3. /\ a \in Seq(Octet) /\ Len(a) = 2 /\ b \in Seq(Octet) /\ Len(b) = 2
      /\ a[1] = Low(n) /\ a[2] = Low(High(n)) /\ b[1] = Low(h) /\ b[2] = Low(High(h))
  BY <1>2, Bytes2Is
<1>4. Bytes4(n) = a \o b
  BY <1>1, <1>2 DEF Bytes4, Upper
<1>. QED  BY <1>1, <1>3, <1>4, PairsJoined

LEMMA U32Is ==
  ASSUME NEW b \in Seq(Octet), Len(b) = 4
  PROVE  /\ U32(b) = Four(Two(b[1], b[2]), Two(b[3], b[4]))
         /\ b[1] \in Octet /\ b[2] \in Octet /\ b[3] \in Octet /\ b[4] \in Octet
<1>1. PICK c : c = From(b, 3)
  OBVIOUS
<1>2. c[1] = b[3] /\ c[2] = b[4]
  BY <1>1, SMT DEF From
<1>3. b[1] \in Octet /\ b[2] \in Octet /\ b[3] \in Octet /\ b[4] \in Octet
  <2>1. \A k \in 1..Len(b) : b[k] \in Octet
    BY ElementOfSeq
  <2>. QED  BY <2>1, SMT
<1>4. U32(b) = Four(Two(b[1], b[2]), Two(c[1], c[2]))
  BY <1>1 DEF U32, U16, Four, Two
<1>. QED  BY <1>2, <1>3, <1>4

(* They are read as they are written ...                                   *)
LEMMA TwoBytes ==
  ASSUME NEW n \in Word16
  PROVE  Two(Low(n), Low(High(n))) = n
<1>1. n \in Nat /\ High(n) \in Octet
  BY HighIs
<1>2. Low(High(n)) = High(n)
  BY <1>1, TwoIs
<1>. QED  BY <1>1, <1>2, Divide

LEMMA ReadWord16 ==
  ASSUME NEW n \in Word16
  PROVE  U16(Bytes2(n)) = n
<1>1. n \in Nat
  BY HighIs
<1>2. U16(Bytes2(n)) = Two(Bytes2(n)[1], Bytes2(n)[2])
  BY DEF U16, Two
<1>. QED  BY <1>1, <1>2, TwoBytes, Bytes2Is

LEMMA ReadWord32 ==
  ASSUME NEW n \in Word32
  PROVE  U32(Bytes4(n)) = n
<1>1. n \in Nat /\ Upper(n) \in Word16
  BY Word32Is
<1>2. PICK l \in Word16, h \in Word16 : h = Upper(n) /\ n = Four(l, h)
  <2>1. Lower(n) \in Word16 /\ n = Four(Lower(n), Upper(n))
    BY <1>1, UpperIs
  <2>. QED  BY <1>1, <2>1
<1>3. h \in Nat
  BY HighIs
<1>4. Low(n) = Low(l) /\ Low(High(n)) = Low(High(l))
  BY <1>2, <1>3, LowerBytes
<1>5. Two(Low(n), Low(High(n))) = l /\ Two(Low(h), Low(High(h))) = h
  BY <1>4, TwoBytes
<1>6. PICK b \in Seq(Octet) : b = Bytes4(n)
  BY <1>1, Bytes4Is
<1>7. /\ Len(b) = 4 /\ b[1] = Low(n) /\ b[2] = Low(High(n))
      /\ b[3] = Low(h) /\ b[4] = Low(High(h))
  BY <1>1, <1>2, <1>6, Bytes4Is
<1>8. U32(b) = Four(Two(b[1], b[2]), Two(b[3], b[4]))
  BY <1>7, U32Is
<1>. QED  BY <1>2, <1>5, <1>6, <1>7, <1>8

(* ... and the other way round.                                            *)
LEMMA WriteTwo ==
  ASSUME NEW x \in Octet, NEW y \in Octet
  PROVE  Bytes2(Two(x, y)) = <<x, y>>
<1>1. y \in Nat /\ Low(y) = y
  BY TwoIs
<1>2. Low(Two(x, y)) = x /\ High(Two(x, y)) = y
  BY <1>1, Divided
<1>. QED  BY <1>1, <1>2, Bytes2Are

LEMMA WriteWord16 ==
  ASSUME NEW b \in Seq(Octet), Len(b) = 2
  PROVE  Bytes2(U16(b)) = b /\ U16(b) \in Word16
<1>1. b[1] \in Octet /\ b[2] \in Octet /\ b = <<b[1], b[2]>>
  OBVIOUS
<1>2. U16(b) = Two(b[1], b[2])
  BY DEF U16, Two
<1>. QED  BY <1>1, <1>2, WriteTwo, TwoIs

LEMMA WriteWord32 ==
  ASSUME NEW b \in Seq(Octet), Len(b) = 4
  PROVE  Bytes4(U32(b)) = b /\ U32(b) \in Word32
<1>1. PICK w \in Octet, x \in Octet, y \in Octet, z \in Octet :
        w = b[1] /\ x = b[2] /\ y = b[3] /\ z = b[4]
  BY U32Is
<1>2. PICK l \in Word16, h \in Word16 : l = Two(w, x) /\ h = Two(y, z)
  BY TwoIs
<1>3. h \in Nat /\ Four(l, h) \in Nat /\ Upper(Four(l, h)) = h
  BY HighIs, UpperOf
<1>4. PICK n \in Nat : n = Four(l, h)
  BY <1>3
<1>5. n = U32(b)
  BY <1>1, <1>2, <1>4, U32Is
<1>6. n \in Word32
  BY <1>3, <1>4, Word32Is
<1>7. Low(n) = Low(l) /\ Low(High(n)) = Low(High(l))
  BY <1>3, <1>4, LowerBytes
<1>8. <<Low(l), Low(High(l))>> = <<w, x>> /\ <<Low(h), Low(High(h))>> = <<y, z>>
  BY <1>2, WriteTwo, Bytes2Are
<1>9. Low(n) = w /\ Low(High(n)) = x /\ Low(h) = y /\ Low(High(h)) = z
  <2>1. PICK a, b2, c, d : a = Low(l) /\ b2 = Low(High(l)) /\ c = Low(h) /\ d = Low(High(h))
    OBVIOUS
  <2>2. <<a, b2>> = <<w, x>> /\ <<c, d>> = <<y, z>>
    BY <1>8, <2>1
  <2>3. a = w /\ b2 = x /\ c = y /\ d = z
    BY <2>2
  <2>. QED  BY <1>7, <2>1, <2>3
<1>10. PICK c : c = Bytes4(n)
  OBVIOUS
<1>11. /\ c \in Seq(Octet) /\ Len(c) = 4
       /\ c[1] = w /\ c[2] = x /\ c[3] = y /\ c[4] = z
  BY <1>3, <1>4, <1>9, <1>10, Bytes4Is
<1>12. \A k \in 1..4 : c[k] = b[k]
  BY <1>1, <1>11
<1>13. c = b
  BY <1>11, <1>12, SeqEqual
<1>. QED  BY <1>5, <1>6, <1>10, <1>13

-----------------------------------------------------------------------------
(* Sequences of bytes in parts.                                            *)
LEMMA PartIs ==
  ASSUME NEW e \in Seq(Octet), NEW p \in Nat, NEW q \in Nat, p <= q, q <= Len(e)
  PROVE  /\ SubSeq(e, p + 1, q) \in Seq(Octet) /\ Len(SubSeq(e, p + 1, q)) = q - p
         /\ \A k \in 1..(q - p) : SubSeq(e, p + 1, q)[k] = e[p + k]
<1>1. PICK s : s = SubSeq(e, p + 1, q)
  OBVIOUS
<1>2. s \in Seq(Octet) /\ Len(s) = q - p /\ \A k \in 1..(q - p) : s[k] = e[p + k]
  BY <1>1
<1>. QED  BY <1>1, <1>2

LEMMA StartIs ==
  ASSUME NEW e \in Seq(Octet), NEW q \in Nat, q <= Len(e)
  PROVE  /\ SubSeq(e, 1, q) \in Seq(Octet) /\ Len(SubSeq(e, 1, q)) = q
         /\ \A k \in 1..q : SubSeq(e, 1, q)[k] = e[k]
<1>1. PICK s : s = SubSeq(e, 1, q)
  OBVIOUS
<1>2. s \in Seq(Octet) /\ Len(s) = q /\ \A k \in 1..q : s[k] = e[k]
  BY <1>1
<1>. QED  BY <1>1, <1>2

LEMMA PutTogether ==
  ASSUME NEW a \in Seq(Octet), NEW b \in Seq(Octet)
  PROVE  /\ a \o b \in Seq(Octet) /\ Len(a \o b) = Len(a) + Len(b)
         /\ SubSeq(a \o b, 1, Len(a)) = a /\ From(a \o b, Len(a) + 1) = b
         /\ \A k \in 1..Len(a) : (a \o b)[k] = a[k]
<1>1. PICK c : c = a \o b
  OBVIOUS
<1>2. PICK m \in Nat, n \in Nat : m = Len(a) /\ n = Len(b)
  BY LenProperties
<1>3. /\ c \in Seq(Octet) /\ Len(c) = m + n
      /\ \A k \in 1..(m + n) : c[k] = IF k <= m THEN a[k] ELSE b[k - m]
  BY <1>1, <1>2, ConcatProperties, Zenon
<1>4. \A k \in 1..m : c[k] = a[k]
  BY <1>3, SMT
<1>5. \A k \in 1..n : c[m + k] = b[k]
  <2>1. ASSUME NEW k \in 1..n PROVE c[m + k] = b[k]
    <3>1. m + k \in 1..(m + n) /\ ~(m + k <= m) /\ (m + k) - m = k
      BY SMT
    <3>. QED  BY <1>3, <3>1
  <2>. QED  BY <2>1
<1>7. SubSeq(c, 1, m) = a
  <2>1. PICK s : s = SubSeq(c, 1, m)
    OBVIOUS
  <2>2. s \in Seq(Octet) /\ Len(s) = m /\ \A k \in 1..m : s[k] = c[k]
    <3>1. m <= Len(c)
      BY <1>3, SMT
    <3>. QED  BY <1>3, <2>1, <3>1, StartIs
  <2>. QED  BY <1>2, <1>4, <2>1, <2>2, SeqEqual
<1>8. SubSeq(c, m + 1, m + n) = b
  <2>0. PICK q \in Nat : q = m + n
    OBVIOUS
  <2>1. PICK s : s = SubSeq(c, m + 1, q)
    OBVIOUS
  <2>2. m <= q /\ q <= Len(c) /\ q - m = n
    BY <1>3, <2>0, SMT
  <2>3. s \in Seq(Octet) /\ Len(s) = n /\ \A k \in 1..n : s[k] = c[m + k]
    BY <1>3, <2>1, <2>2, PartIs
  <2>4. \A k \in 1..n : s[k] = b[k]
    BY <1>5, <2>3
  <2>. QED  BY <1>2, <2>0, <2>1, <2>3, <2>4, SeqEqual
<1>. QED  BY <1>1, <1>2, <1>3, <1>4, <1>7, <1>8 DEF From

LEMMA TakenApart ==
  ASSUME NEW c \in Seq(Octet), NEW k \in Nat, k <= Len(c)
  PROVE  /\ SubSeq(c, 1, k) \in Seq(Octet) /\ Len(SubSeq(c, 1, k)) = k
         /\ From(c, k + 1) \in Seq(Octet) /\ Len(From(c, k + 1)) = Len(c) - k
         /\ c = SubSeq(c, 1, k) \o From(c, k + 1)
         /\ \A j \in 1..k : SubSeq(c, 1, k)[j] = c[j]
<1>1. PICK n \in Nat : n = Len(c) /\ k <= n
  BY LenProperties
<1>5. PICK s, t : s = SubSeq(c, 1, k) /\ t = SubSeq(c, k + 1, n)
  OBVIOUS
<1>6. s \in Seq(Octet) /\ Len(s) = k /\ \A j \in 1..k : s[j] = c[j]
  BY <1>1, <1>5, StartIs
<1>7. t \in Seq(Octet) /\ Len(t) = n - k
  BY <1>1, <1>5, PartIs
<1>9. s \o t = SubSeq(c, 1, n)
  <2>1. 1 \in 1..(Len(c) + 1) /\ k \in (1 - 1)..Len(c) /\ n \in k..Len(c)
    BY <1>1, SMT
  <2>. QED  BY <1>5, <2>1, ConcatAdjacentSubSeq
<1>10. SubSeq(c, 1, n) = c
  BY <1>1, SubSeqFull
<1>. QED  BY <1>1, <1>5, <1>6, <1>7, <1>9, <1>10 DEF From

-----------------------------------------------------------------------------
(* One byte, some more up to the h-th, and the rest: a header or a CONNECT. *)
Header(e, h, t, w, rest) ==
  /\ e \in Seq(Octet) /\ Len(e) = h + Len(rest) /\ Len(e) >= h /\ e[1] = t
  /\ SubSeq(e, 1, h) = <<t>> \o w /\ SubSeq(e, 2, h) = w /\ From(e, h + 1) = rest

LEMMA HeaderIs ==
  ASSUME NEW h \in Nat, h >= 2, NEW t \in Octet, NEW w \in Seq(Octet), Len(w) = h - 1,
         NEW rest \in Seq(Octet), NEW e, e = <<t>> \o w \o rest
  PROVE  Header(e, h, t, w, rest)
<1>1. PICK a, top : a = <<t>> /\ top = a \o w
  OBVIOUS
<1>2. a \in Seq(Octet) /\ Len(a) = 1 /\ a[1] = t /\ Len(rest) \in Nat /\ 1 + (h - 1) = h
  BY <1>1
<1>3. top \in Seq(Octet) /\ Len(top) = h /\ From(top, 2) = w /\ top[1] = t
  <2>1. /\ a \o w \in Seq(Octet) /\ Len(a \o w) = Len(a) + Len(w)
        /\ From(a \o w, Len(a) + 1) = w /\ \A k \in 1..Len(a) : (a \o w)[k] = a[k]
    BY <1>2, PutTogether
  <2>2. 1 \in 1..1 /\ 1 + 1 = 2
    OBVIOUS
  <2>. QED  BY <1>1, <1>2, <2>1, <2>2
<1>4. /\ e \in Seq(Octet) /\ Len(e) = h + Len(rest)
      /\ SubSeq(e, 1, h) = top /\ From(e, h + 1) = rest /\ e[1] = top[1]
  <2>1. /\ top \o rest \in Seq(Octet) /\ Len(top \o rest) = Len(top) + Len(rest)
        /\ SubSeq(top \o rest, 1, Len(top)) = top /\ From(top \o rest, Len(top) + 1) = rest
        /\ \A k \in 1..Len(top) : (top \o rest)[k] = top[k]
    BY <1>3, PutTogether
  <2>2. e = top \o rest
    BY <1>1
  <2>3. 1 \in 1..Len(top) /\ Len(top) = h
    BY <1>3, SMT
  <2>4. (top \o rest)[1] = top[1]
    BY <2>1, <2>3
  <2>. QED  BY <2>1, <2>2, <2>3, <2>4, Zenon
<1>5. Len(e) >= h /\ h <= Len(e) /\ 1 <= h
  BY <1>2, <1>4, SMT
<1>6. SubSeq(e, 2, h) = w
  <2>1. PICK x, y : x = SubSeq(e, 1 + 1, h) /\ y = SubSeq(top, 1 + 1, h)
    OBVIOUS
  <2>2. x \in Seq(Octet) /\ Len(x) = h - 1 /\ \A k \in 1..(h - 1) : x[k] = e[1 + k]
    BY <1>4, <1>5, <2>1, PartIs
  <2>3. y \in Seq(Octet) /\ Len(y) = h - 1 /\ \A k \in 1..(h - 1) : y[k] = top[1 + k]
    <3>1. top \in Seq(Octet) /\ 1 <= h /\ h <= Len(top)
      BY <1>3, <1>5
    <3>. QED  BY <2>1, <3>1, PartIs
  <2>4. \A k \in 1..h : e[k] = top[k]
    <3>1. SubSeq(e, 1, h) = top /\ \A k \in 1..h : SubSeq(e, 1, h)[k] = e[k]
      BY <1>4, <1>5, StartIs
    <3>. QED  BY <3>1
  <2>5. ASSUME NEW k \in 1..(h - 1) PROVE x[k] = y[k]
    <3>1. 1 + k \in 1..h
      BY SMT
    <3>. QED  BY <2>2, <2>3, <2>4, <3>1, Zenon
  <2>6. x = y
    BY <2>2, <2>3, <2>5, SeqEqual
  <2>7. x = SubSeq(e, 2, h) /\ y = SubSeq(top, 2, h) /\ SubSeq(top, 2, h) = w
    BY <1>3, <2>1, SMT DEF From
  <2>. QED  BY <2>6, <2>7
<1>. QED  BY <1>1, <1>3, <1>4, <1>5, <1>6 DEF Header

LEMMA HeaderOf ==
  ASSUME NEW e \in Seq(Octet), NEW h \in Nat, h >= 2, Len(e) >= h
  PROVE  /\ e[1] \in Octet
         /\ SubSeq(e, 2, h) \in Seq(Octet) /\ Len(SubSeq(e, 2, h)) = h - 1
         /\ From(e, h + 1) \in Seq(Octet) /\ Len(From(e, h + 1)) = Len(e) - h
         /\ e = <<e[1]>> \o SubSeq(e, 2, h) \o From(e, h + 1)
<1>1. Len(e) \in Nat /\ \A k \in 1..Len(e) : e[k] \in Octet
  BY LenProperties, ElementOfSeq
<1>2. /\ SubSeq(e, 1, h) \in Seq(Octet) /\ From(e, h + 1) \in Seq(Octet)
      /\ Len(From(e, h + 1)) = Len(e) - h /\ e = SubSeq(e, 1, h) \o From(e, h + 1)
  <2>1. h <= Len(e)
    BY <1>1, SMT
  <2>. QED  BY <2>1, TakenApart
<1>3. SubSeq(e, 1, h) = <<e[1]>> \o SubSeq(e, 2, h)
  <2>1. 1 \in 1..Len(e) /\ h \in 1..Len(e) /\ 1 + 1 = 2
    BY <1>1, SMT
  <2>2. SubSeq(e, 1, h) = <<e[1]>> \o SubSeq(e, 1 + 1, h)
    BY <2>1, SubSeqRecursiveFirst, Zenon
  <2>. QED  BY <2>1, <2>2
<1>4. SubSeq(e, 2, h) \in Seq(Octet) /\ Len(SubSeq(e, 2, h)) = h - 1
  <2>1. 1 <= h /\ h <= Len(e) /\ 1 \in Nat
    BY <1>1, SMT
  <2>2. SubSeq(e, 1 + 1, h) \in Seq(Octet) /\ Len(SubSeq(e, 1 + 1, h)) = h - 1
    BY <2>1, PartIs
  <2>3. 1 + 1 = 2
    OBVIOUS
  <2>. QED  BY <2>2, <2>3
<1>5. e[1] \in Octet
  <2>1. 1 \in 1..Len(e)
    BY <1>1, SMT
  <2>. QED  BY <1>1, <2>1
<1>. QED  BY <1>2, <1>3, <1>4, <1>5

-----------------------------------------------------------------------------
(* A code has one name.                                                    *)
LEMMA TypesAre ==
  ASSUME NEW t \in DOMAIN PacketType
  PROVE  /\ t \in {"Connect", "Data", "Continue", "Close", "Info"}
         /\ PacketType[t] \in Octet /\ Named(PacketType, PacketType[t]) = {t}
<1>1. \A c \in DOMAIN PacketType : PacketType[c] = PacketType[t] => c = t
  BY SMT DEF PacketType
<1>2. PacketType[t] \in Octet /\ t \in {"Connect", "Data", "Continue", "Close", "Info"}
  BY SMT DEF PacketType, Octet
<1>. QED  BY <1>1, <1>2 DEF Named

LEMMA StreamsAre ==
  ASSUME NEW t \in DOMAIN StreamType
  PROVE  StreamType[t] \in Octet /\ Named(StreamType, StreamType[t]) = {t}
<1>1. \A c \in DOMAIN StreamType : StreamType[c] = StreamType[t] => c = t
  BY SMT DEF StreamType
<1>2. StreamType[t] \in Octet
  BY SMT DEF StreamType, Octet
<1>. QED  BY <1>1, <1>2 DEF Named

LEMMA TheOnly ==
  ASSUME NEW t
  PROVE  The({t}) = t
BY DEF The

LEMMA TheName ==
  ASSUME NEW codes, NEW x, Named(codes, x) # {}
  PROVE  The(Named(codes, x)) \in DOMAIN codes /\ codes[The(Named(codes, x))] = x
<1>1. PICK n : n = The(Named(codes, x))
  OBVIOUS
<1>2. n \in Named(codes, x)
  BY <1>1, Zenon DEF The
<1>. QED  BY <1>1, <1>2 DEF Named

LEMMA Outcomes ==
  ASSUME NEW v
  PROVE  /\ Ok(v).ok = TRUE /\ Ok(v).value = v /\ Err(v).ok = FALSE
BY DEF Ok, Err

-----------------------------------------------------------------------------
(* What is encoded of a packet other than an INFO is decoded ...           *)
Readable(t, v) ==
  EncodeBody(t, v) \in Seq(Octet) /\ DecodeBody(t, EncodeBody(t, v)) = Ok(v)

LEMMA AsciiByte ==
  ASSUME NEW y \in 0..127
  PROVE  y < 128
OBVIOUS

LEMMA AsciiIs ==
  ASSUME NEW s \in Seq(0..127)
  PROVE  s \in Seq(Octet) /\ Utf8(s)
<1>1. \A k \in 1..Len(s) : s[k] \in 0..127
  BY ElementOfSeq
<1>2. 0..127 \subseteq Octet
  BY DEF Octet
<1>3. s \in Seq(Octet)
  BY <1>2, SeqMonotonic, Zenon
<1>4. ASSUME NEW k \in 1..Len(s) PROVE s[k] < 128
  <2>1. PICK y : y = s[k] /\ y \in 0..127
    BY <1>1
  <2>. QED  BY <2>1, AsciiByte
<1>. QED  BY <1>3, <1>4, Zenon DEF Utf8

LEMMA ConnectReads ==
  ASSUME NEW v \in BodyOf("Connect")
  PROVE  Readable("Connect", v)
<1>1. v \in [stream : DOMAIN StreamType, port : Word16, host : Seq(0..127)]
  BY DEF BodyOf
<1>2. /\ v.stream \in DOMAIN StreamType /\ v.port \in Word16 /\ v.host \in Seq(0..127)
      /\ v = [stream |-> v.stream, port |-> v.port, host |-> v.host]
  BY <1>1
<1>3. PICK x, w, s : x = StreamType[v.stream] /\ w = Bytes2(v.port) /\ s = v.host
  OBVIOUS
<1>4. x \in Octet /\ Named(StreamType, x) = {v.stream}
  BY <1>2, <1>3, StreamsAre
<1>5. w \in Seq(Octet) /\ Len(w) = 3 - 1 /\ U16(w) = v.port
  <2>1. v.port \in Nat
    BY <1>2, HighIs
  <2>. QED  BY <1>2, <1>3, <2>1, Bytes2Is, ReadWord16
<1>6. s \in Seq(Octet) /\ Utf8(s)
  BY <1>2, <1>3, AsciiIs
<1>7. PICK b : b = EncodeBody("Connect", v)
  OBVIOUS
<1>8. b = <<x>> \o w \o s
  BY <1>3, <1>7 DEF EncodeBody
<1>9. Header(b, 3, x, w, s)
  <2>1. PICK h \in Nat : h = 3
    OBVIOUS
  <2>2. h >= 2 /\ Len(w) = h - 1
    BY <1>5, <2>1
  <2>3. Header(b, h, x, w, s)
    BY <1>4, <1>5, <1>6, <1>8, <2>2, HeaderIs
  <2>. QED  BY <2>1, <2>3
<1>10. /\ b \in Seq(Octet) /\ ~(Len(b) < 3) /\ Len(b) >= 3 /\ b[1] = x
       /\ SubSeq(b, 2, 3) = w /\ From(b, 4) = s
  <2>1. 3 + 1 = 4
    OBVIOUS
  <2>2. b \in Seq(Octet) /\ Len(b) >= 3 /\ Len(b) \in Nat
    BY <1>9 DEF Header
  <2>. QED  BY <1>9, <2>1, <2>2 DEF Header
<1>11. Named(StreamType, b[1]) # {} /\ The(Named(StreamType, b[1])) = v.stream
  BY <1>4, <1>10, TheOnly
<1>12. DecodeConnect(b) = Ok([stream |-> v.stream, port |-> v.port, host |-> v.host])
  BY <1>3, <1>5, <1>6, <1>10, <1>11, Zenon DEF DecodeConnect
<1>13. DecodeBody("Connect", b) = Ok(v)
  BY <1>2, <1>12 DEF DecodeBody
<1>. QED  BY <1>7, <1>10, <1>13 DEF Readable

LEMMA DataReads ==
  ASSUME NEW v \in BodyOf("Data")
  PROVE  Readable("Data", v)
BY DEF BodyOf, Readable, EncodeBody, DecodeBody

LEMMA ContinueReads ==
  ASSUME NEW v \in BodyOf("Continue")
  PROVE  Readable("Continue", v)
<1>1. v \in Word32 /\ v \in Nat
  BY Word32Is DEF BodyOf
<1>2. PICK b : b = Bytes4(v)
  OBVIOUS
<1>3. b \in Seq(Octet) /\ Len(b) = 4 /\ U32(b) = v
  BY <1>1, <1>2, Bytes4Is, ReadWord32
<1>4. SubSeq(b, 1, 4) = b /\ ~(Len(b) < 4)
  BY <1>3, SubSeqFull
<1>5. EncodeBody("Continue", v) = b /\ DecodeBody("Continue", b) = Ok(v)
  BY <1>2, <1>3, <1>4 DEF EncodeBody, DecodeBody
<1>. QED  BY <1>3, <1>5 DEF Readable

LEMMA CodeIs ==
  ASSUME NEW c \in Octet
  PROVE  Code(Reason(c)) = c
<1>1. CASE c \in CloseReasons
  BY <1>1 DEF Code, Reason
<1>2. CASE c \notin CloseReasons
  BY <1>2 DEF Code, Reason
<1>. QED  BY <1>1, <1>2

LEMMA CloseReads ==
  ASSUME NEW v \in BodyOf("Close")
  PROVE  Readable("Close", v)
<1>1. PICK c \in Octet : v = Reason(c)
  BY DEF BodyOf
<1>2. PICK b : b = <<c>>
  OBVIOUS
<1>3. b \in Seq(Octet) /\ b # <<>> /\ b[1] = c
  BY <1>2
<1>4. EncodeBody("Close", v) = b
  BY <1>1, <1>2, CodeIs DEF EncodeBody
<1>5. DecodeBody("Close", b) = Ok(v)
  BY <1>1, <1>3 DEF DecodeBody
<1>. QED  BY <1>3, <1>4, <1>5 DEF Readable

(* ... and what is decoded is what the bytes say.                          *)
Kept(t, b, v) ==
  IF t = "Info"
    THEN \E x \in Seq(Octet) :
           /\ v.version \in Seq(Octet) /\ Len(v.version) = 2 /\ b = v.version \o x
           /\ EncodeBody(t, v) = Version \o x
    ELSE \E x \in Seq(Octet) :
           /\ EncodeBody(t, v) \in Seq(Octet) /\ b = EncodeBody(t, v) \o x
           /\ t \notin {"Continue", "Close"} => x = <<>>

LEMMA Plainly ==
  ASSUME NEW t, t # "Info", NEW b, NEW v, NEW a \in Seq(Octet), NEW x \in Seq(Octet),
         EncodeBody(t, v) = a, b = a \o x, t \notin {"Continue", "Close"} => x = <<>>
  PROVE  Kept(t, b, v)
BY DEF Kept

LEMMA ConnectIs ==
  ASSUME NEW b \in Seq(Octet), DecodeConnect(b).ok
  PROVE  /\ Len(b) >= 3 /\ Named(StreamType, b[1]) # {}
         /\ DecodeConnect(b) = Ok([stream |-> The(Named(StreamType, b[1])),
                                   port |-> U16(SubSeq(b, 2, 3)), host |-> From(b, 4)])
<1>1. Len(b) \in Nat /\ \A e : Err(e).ok = FALSE
  BY LenProperties, Outcomes
<1>2. CASE Len(b) < 3
  <2>1. ~(Len(b) >= 3)
    BY <1>1, <1>2
  <2>2. DecodeConnect(b) = Err("TooShort")
    BY <1>2, <2>1, Zenon DEF DecodeConnect
  <2>. QED  BY <1>1, <2>2
<1>3. CASE Len(b) >= 3
  <2>1. ~(Len(b) < 3)
    BY <1>1, <1>3
  <2>2. CASE Named(StreamType, b[1]) = {}
    <3>1. DecodeConnect(b) = Err("UnknownStreamType")
      BY <1>3, <2>1, <2>2, Zenon DEF DecodeConnect
    <3>. QED  BY <1>1, <3>1
  <2>3. CASE Named(StreamType, b[1]) # {}
    <3>1. DecodeConnect(b) =
            IF ~Utf8(From(b, 4)) THEN Err("InvalidHostname")
            ELSE Ok([stream |-> The(Named(StreamType, b[1])),
                     port |-> U16(SubSeq(b, 2, 3)), host |-> From(b, 4)])
      BY <1>3, <2>1, <2>3, Zenon DEF DecodeConnect
    <3>. QED  BY <1>1, <1>3, <2>3, <3>1
  <2>. QED  BY <2>2, <2>3
<1>. QED  BY <1>1, <1>2, <1>3, SMT

LEMMA ConnectKept ==
  ASSUME NEW b \in Seq(Octet), NEW v, DecodeBody("Connect", b) = Ok(v)
  PROVE  Kept("Connect", b, v)
<1>1. DecodeConnect(b).ok /\ DecodeConnect(b) = Ok(v)
  BY Outcomes DEF DecodeBody
<1>3. /\ Len(b) >= 3 /\ Named(StreamType, b[1]) # {}
      /\ DecodeConnect(b) = Ok([stream |-> The(Named(StreamType, b[1])),
                                port |-> U16(SubSeq(b, 2, 3)), host |-> From(b, 4)])
  BY <1>1, ConnectIs
<1>4. v = [stream |-> The(Named(StreamType, b[1])),
           port |-> U16(SubSeq(b, 2, 3)), host |-> From(b, 4)]
  <2>1. PICK u : u = [stream |-> The(Named(StreamType, b[1])),
                      port |-> U16(SubSeq(b, 2, 3)), host |-> From(b, 4)]
    OBVIOUS
  <2>2. Ok(u) = Ok(v)
    BY <1>1, <1>3, <2>1
  <2>3. u = v
    BY <2>2, Outcomes, Zenon
  <2>. QED  BY <2>1, <2>3
<1>5. StreamType[v.stream] = b[1]
  BY <1>3, <1>4, TheName
<1>6. PICK w, s : w = SubSeq(b, 2, 3) /\ s = From(b, 4)
  OBVIOUS
<1>7. /\ b[1] \in Octet /\ w \in Seq(Octet) /\ Len(w) = 2 /\ s \in Seq(Octet)
      /\ b = <<b[1]>> \o w \o s
  <2>1. 3 - 1 = 2 /\ 3 + 1 = 4
    OBVIOUS
  <2>. QED  BY <1>3, <1>6, <2>1, HeaderOf, SMTT(30)
<1>8. Bytes2(v.port) = w /\ v.host = s
  BY <1>4, <1>6, <1>7, WriteWord16
<1>9. EncodeBody("Connect", v) = b
  BY <1>5, <1>7, <1>8 DEF EncodeBody
<1>10. b \o <<>> = b /\ <<>> \in Seq(Octet)
  BY ConcatEmptySeq
<1>. QED  BY <1>9, <1>10, Plainly

LEMMA DataKept ==
  ASSUME NEW b \in Seq(Octet), NEW v, DecodeBody("Data", b) = Ok(v)
  PROVE  Kept("Data", b, v)
<1>1. v = b
  <2>1. Ok(b) = Ok(v)
    BY DEF DecodeBody
  <2>. QED  BY <2>1, Outcomes
<1>2. EncodeBody("Data", v) = b
  BY <1>1 DEF EncodeBody
<1>3. b \o <<>> = b /\ <<>> \in Seq(Octet)
  BY ConcatEmptySeq
<1>. QED  BY <1>2, <1>3, Plainly

LEMMA ContinueKept ==
  ASSUME NEW b \in Seq(Octet), NEW v, DecodeBody("Continue", b) = Ok(v)
  PROVE  Kept("Continue", b, v)
<1>1. Len(b) \in Nat
  BY LenProperties
<1>2. ~(Len(b) < 4) /\ v = U32(SubSeq(b, 1, 4))
  <2>1. IF Len(b) < 4 THEN Err("TooShort") = Ok(v) ELSE Ok(U32(SubSeq(b, 1, 4))) = Ok(v)
    BY DEF DecodeBody
  <2>. QED  BY <2>1, Outcomes
<1>3. PICK w, x : w = SubSeq(b, 1, 4) /\ x = From(b, 4 + 1)
  OBVIOUS
<1>4. w \in Seq(Octet) /\ Len(w) = 4 /\ x \in Seq(Octet) /\ b = w \o x
  <2>1. 4 \in Nat /\ 4 <= Len(b)
    BY <1>1, <1>2
  <2>. QED  BY <1>3, <2>1, TakenApart
<1>5. EncodeBody("Continue", v) = w
  <2>1. Bytes4(v) = w
    BY <1>2, <1>3, <1>4, WriteWord32
  <2>. QED  BY <2>1 DEF EncodeBody
<1>. QED  BY <1>4, <1>5, Plainly

LEMMA CloseKept ==
  ASSUME NEW b \in Seq(Octet), NEW v, DecodeBody("Close", b) = Ok(v)
  PROVE  Kept("Close", b, v)
<1>1. b # <<>> /\ v = Reason(b[1])
  <2>1. IF b = <<>> THEN Err("TooShort") = Ok(v) ELSE Ok(Reason(b[1])) = Ok(v)
    BY DEF DecodeBody
  <2>. QED  BY <2>1, Outcomes
<1>2. PICK x : x = From(b, 1 + 1)
  OBVIOUS
<1>3. b[1] \in Octet /\ <<b[1]>> \in Seq(Octet)
  BY <1>1
<1>4. x \in Seq(Octet) /\ b = <<b[1]>> \o x
  <2>1. 1 \in Nat /\ 1 <= Len(b) /\ 1 \in 1..Len(b)
    BY <1>1
  <2>2. PICK s : s = SubSeq(b, 1, 1)
    OBVIOUS
  <2>3. s \in Seq(Octet) /\ Len(s) = 1 /\ s[1] = b[1]
    BY <2>1, <2>2, StartIs
  <2>4. s = <<b[1]>>
    BY <2>3
  <2>5. b = s \o x /\ x \in Seq(Octet)
    BY <1>2, <2>1, <2>2, TakenApart
  <2>. QED  BY <2>4, <2>5
<1>5. EncodeBody("Close", v) = <<b[1]>>
  BY <1>1, <1>3, CodeIs DEF EncodeBody
<1>. QED  BY <1>3, <1>4, <1>5, Plainly

-----------------------------------------------------------------------------
(* The extensions of an INFO, one after the other.                         *)
EncodeAll(xs) == FlattenSeq([n \in 1..Len(xs) |-> EncodeExtension(xs[n])])

LEMMA FlattenNone == FlattenSeq(<<>>) = <<>>
BY DEF FlattenSeq

TwoParts(S, t, a, s) ==
  /\ t \in Seq(S) /\ Len(t) = Len(a) + Len(s)
  /\ \A k \in 1..(Len(a) + Len(s)) : t[k] = IF k <= Len(a) THEN a[k] ELSE s[k - Len(a)]

LEMMA TwoPartsAre ==
  ASSUME NEW S, NEW a \in Seq(S), NEW s \in Seq(S)
  PROVE  TwoParts(S, a \o s, a, s)
BY ConcatProperties DEF TwoParts

LEMMA FirstAnd ==
  ASSUME NEW S, NEW x \in S, NEW s \in Seq(S), NEW t, t = <<x>> \o s
  PROVE  /\ t \in Seq(S) /\ Len(t) = Len(s) + 1 /\ t[1] = x
         /\ \A k \in 1..Len(s) : t[k + 1] = s[k]
<1>0. PICK N \in Nat : N = Len(s)
  BY LenProperties
<1>1. PICK a : a = <<x>>
  OBVIOUS
<1>2. a \in Seq(S) /\ Len(a) = 1 /\ a[1] = x /\ t = a \o s
  BY <1>1
<1>3. /\ t \in Seq(S) /\ Len(t) = Len(a) + Len(s)
      /\ \A k \in 1..(Len(a) + Len(s)) : t[k] = IF k <= Len(a) THEN a[k] ELSE s[k - Len(a)]
  <2>1. TwoParts(S, a \o s, a, s)
    BY <1>2, TwoPartsAre
  <2>2. TwoParts(S, t, a, s)
    BY <1>2, <2>1
  <2>. QED  BY <2>2 DEF TwoParts
<1>4. Len(t) = N + 1 /\ \A k \in 1..(1 + N) : t[k] = IF k <= 1 THEN a[k] ELSE s[k - 1]
  BY <1>0, <1>2, <1>3, SMT
<1>5. t[1] = x
  <2>1. 1 \in 1..(1 + N) /\ 1 <= 1
    BY SMT
  <2>. QED  BY <1>2, <1>4, <2>1
<1>6. ASSUME NEW k \in 1..N PROVE t[k + 1] = s[k]
  <2>1. k + 1 \in 1..(1 + N) /\ ~(k + 1 <= 1) /\ (k + 1) - 1 = k
    BY SMT
  <2>. QED  BY <1>4, <2>1
<1>. QED  BY <1>0, <1>3, <1>4, <1>5, <1>6

LEMMA FlattenFirst ==
  ASSUME NEW x \in Seq(Octet), NEW ss \in Seq(Seq(Octet)), NEW tt, tt = <<x>> \o ss
  PROVE  FlattenSeq(ss) \in Seq(Octet) /\ FlattenSeq(tt) = x \o FlattenSeq(ss)
<1>1. PICK N \in Nat : N = Len(ss)
  BY LenProperties
<1>2. \A k \in 1..N : ss[k] \in Seq(Octet)
  BY <1>1, ElementOfSeq
<1>3. Len(tt) = N + 1 /\ tt[1] = x /\ \A k \in 1..N : tt[k + 1] = ss[k]
  BY <1>1, FirstAnd
<1>4. PICK h : Joins(h, tt, N + 1) /\ FlattenSeq(tt) = h[N + 1]
  <2>1. Len(tt) \in Nat /\ Len(tt) # 0
    BY <1>3
  <2>. QED  BY <1>3, <2>1, FlattenIs
<1>5. h[1] = x /\ \A k \in 1..N : h[k + 1] = h[k] \o ss[k]
  <2>1. \A k \in 1..(N + 1) : h[k] = IF k = 1 THEN tt[k] ELSE h[k - 1] \o tt[k]
    BY <1>4 DEF Joins
  <2>2. h[1] = x
    <3>1. 1 \in 1..(N + 1)
      OBVIOUS
    <3>. QED  BY <1>3, <2>1, <3>1
  <2>3. ASSUME NEW k \in 1..N PROVE h[k + 1] = h[k] \o ss[k]
    <3>1. k + 1 \in 1..(N + 1) /\ k + 1 # 1 /\ (k + 1) - 1 = k
      BY SMT
    <3>. QED  BY <1>3, <2>1, <3>1
  <2>. QED  BY <2>2, <2>3
<1>6. CASE N = 0
  <2>1. ss = <<>>
    BY <1>1, <1>6, EmptyIs
  <2>2. FlattenSeq(ss) = <<>> /\ <<>> \in Seq(Octet) /\ x \o <<>> = x
    BY <2>1, FlattenNone, ConcatEmptySeq
  <2>3. FlattenSeq(tt) = x
    BY <1>4, <1>5, <1>6
  <2>. QED  BY <2>2, <2>3
<1>7. CASE N # 0
  <2>1. PICK f : Joins(f, ss, N) /\ FlattenSeq(ss) = f[N]
    BY <1>1, <1>7, FlattenIs
  <2>2. f[1] = ss[1] /\ \A k \in 1..N : k # 1 => f[k] = f[k - 1] \o ss[k]
    <3>1. \A k \in 1..N : f[k] = IF k = 1 THEN ss[k] ELSE f[k - 1] \o ss[k]
      BY <2>1 DEF Joins
    <3>2. 1 \in 1..N
      BY <1>7
    <3>. QED  BY <3>1, <3>2
  <2>. DEFINE T == {k \in 1..N : ~(f[k] \in Seq(Octet) /\ h[k + 1] = x \o f[k])}
  <2>3. ASSUME T # {} PROVE FALSE
    <3>1. PICK k \in T : \A m \in 0..(k - 1) : m \notin T
      <4>1. T \in SUBSET Nat
        OBVIOUS
      <4>. HIDE DEF T
      <4>. QED  BY <2>3, <4>1, LeastNumber
    <3>2. k \in 1..N /\ ~(f[k] \in Seq(Octet) /\ h[k + 1] = x \o f[k])
      OBVIOUS
    <3>3. h[k + 1] = h[k] \o ss[k] /\ ss[k] \in Seq(Octet)
      BY <1>2, <1>5, <3>2
    <3>4. CASE k = 1
      <4>1. f[k] = ss[k] /\ h[k] = x
        BY <1>5, <2>2, <3>4
      <4>. QED  BY <3>2, <3>3, <4>1
    <3>5. CASE k # 1
      <4>1. k - 1 \in 1..N /\ k - 1 \in 0..(k - 1) /\ (k - 1) + 1 = k
        BY <3>2, <3>5
      <4>2. f[k - 1] \in Seq(Octet) /\ h[(k - 1) + 1] = x \o f[k - 1]
        BY <3>1, <4>1
      <4>3. PICK a \in Seq(Octet), b \in Seq(Octet) : a = f[k - 1] /\ b = ss[k]
        BY <3>3, <4>2
      <4>4. h[k + 1] = (x \o a) \o b /\ f[k] = a \o b
        BY <2>2, <3>2, <3>3, <3>5, <4>1, <4>2, <4>3
      <4>5. a \o b \in Seq(Octet)
        BY ConcatProperties
      <4>6. (x \o a) \o b = x \o (a \o b)
        BY ConcatAssociative, SMTT(30)
      <4>. QED  BY <3>2, <4>4, <4>5, <4>6
    <3>. QED  BY <3>4, <3>5
  <2>4. f[N] \in Seq(Octet) /\ h[N + 1] = x \o f[N]
    <3>1. N \in 1..N
      BY <1>7
    <3>. QED  BY <2>3, <3>1
  <2>. QED  BY <1>4, <2>1, <2>4
<1>. QED  BY <1>6, <1>7

LEMMA ExtensionIs ==
  ASSUME NEW x \in Extension
  PROVE  /\ x.id \in Octet /\ x.metadata \in Seq(Octet) /\ Len(x.metadata) \in Word32
         /\ Len(x.metadata) \in Nat
         /\ x = [id |-> x.id, metadata |-> x.metadata]
         /\ EncodeExtension(x) \in Seq(Octet)
         /\ Header(EncodeExtension(x), 5, x.id, Bytes4(Len(x.metadata)), x.metadata)
<1>1. /\ x.id \in Octet /\ x.metadata \in Seq(Octet) /\ Len(x.metadata) \in Word32
      /\ x = [id |-> x.id, metadata |-> x.metadata]
  BY DEF Extension
<1>2. PICK n \in Nat : n = Len(x.metadata)
  BY <1>1, LenProperties
<1>3. Bytes4(n) \in Seq(Octet) /\ Len(Bytes4(n)) = 4
  BY Bytes4Is
<1>4. PICK h \in Nat : h = 5
  OBVIOUS
<1>5. h >= 2 /\ Len(Bytes4(n)) = h - 1
  BY <1>3, <1>4
<1>6. PICK e : e = EncodeExtension(x)
  OBVIOUS
<1>7. e = <<x.id>> \o Bytes4(n) \o x.metadata
  BY <1>2, <1>6 DEF EncodeExtension
<1>8. Header(e, h, x.id, Bytes4(n), x.metadata)
  BY <1>1, <1>3, <1>5, <1>7, HeaderIs
<1>9. e \in Seq(Octet)
  BY <1>8 DEF Header
<1>. QED  BY <1>1, <1>2, <1>4, <1>6, <1>8, <1>9

LEMMA CodedAll ==
  ASSUME NEW s \in Seq(Extension)
  PROVE  [n \in 1..Len(s) |-> EncodeExtension(s[n])] \in Seq(Seq(Octet))
<1>1. PICK N \in Nat : N = Len(s)
  BY LenProperties
<1>2. PICK q : q = [n \in 1..N |-> EncodeExtension(s[n])]
  OBVIOUS
<1>3. \A n \in 1..N : EncodeExtension(s[n]) \in Seq(Octet)
  BY <1>1, ElementOfSeq, ExtensionIs
<1>4. q \in [1..N -> Seq(Octet)]
  BY <1>2, <1>3
<1>. QED  BY <1>1, <1>2, <1>4

LEMMA AllFirst ==
  ASSUME NEW x \in Extension, NEW s \in Seq(Extension), NEW t, t = <<x>> \o s
  PROVE  /\ EncodeAll(s) \in Seq(Octet)
         /\ EncodeAll(t) = EncodeExtension(x) \o EncodeAll(s)
<1>1. PICK N \in Nat : N = Len(s)
  BY LenProperties
<1>4. /\ t \in Seq(Extension) /\ Len(t) = N + 1 /\ t[1] = x
      /\ \A k \in 1..N : t[k + 1] = s[k]
  BY <1>1, FirstAnd
<1>5. PICK p, q, c : /\ p = [n \in 1..Len(s) |-> EncodeExtension(s[n])]
                     /\ q = [n \in 1..Len(t) |-> EncodeExtension(t[n])]
                     /\ c = EncodeExtension(x)
  OBVIOUS
<1>6. p \in Seq(Seq(Octet)) /\ q \in Seq(Seq(Octet)) /\ c \in Seq(Octet)
  BY <1>4, <1>5, CodedAll, ExtensionIs
<1>7. q = <<c>> \o p
  <2>1. PICK r : r = <<c>> \o p
    OBVIOUS
  <2>2. Len(p) = N /\ Len(q) = N + 1
    BY <1>1, <1>4, <1>5
  <2>3. /\ r \in Seq(Seq(Octet)) /\ Len(r) = N + 1 /\ r[1] = c
        /\ \A k \in 1..N : r[k + 1] = p[k]
    BY <1>6, <2>1, <2>2, FirstAnd
  <2>4. ASSUME NEW k \in 1..(N + 1) PROVE q[k] = r[k]
    <3>1. q[k] = EncodeExtension(t[k])
      BY <1>4, <1>5
    <3>2. CASE k = 1
      BY <1>4, <1>5, <2>3, <3>1, <3>2
    <3>3. CASE k # 1
      <4>1. k - 1 \in 1..N /\ (k - 1) + 1 = k
        BY <3>3
      <4>2. t[k] = s[k - 1] /\ r[k] = p[k - 1]
        BY <1>4, <2>3, <4>1
      <4>3. p[k - 1] = EncodeExtension(s[k - 1])
        BY <1>1, <1>5, <4>1
      <4>. QED  BY <3>1, <4>2, <4>3
    <3>. QED  BY <3>2, <3>3
  <2>5. q = r
    BY <1>6, <2>2, <2>3, <2>4, SeqEqual
  <2>. QED  BY <2>1, <2>5
<1>8. FlattenSeq(p) \in Seq(Octet) /\ FlattenSeq(q) = c \o FlattenSeq(p)
  BY <1>6, <1>7, FlattenFirst
<1>. QED  BY <1>5, <1>8 DEF EncodeAll

LEMMA AllNone == EncodeAll(<<>>) = <<>>
<1>1. [n \in 1..Len(<<>>) |-> EncodeExtension(<<>>[n])] = <<>>
  OBVIOUS
<1>. QED  BY <1>1, FlattenNone DEF EncodeAll

-----------------------------------------------------------------------------
(* The function by which the extensions are decoded exists.                *)
RestAt(f, b, i) ==
  IF i = Len(b) + 1 THEN Ok(<<>>)
  ELSE IF Len(b) - i < 4 THEN Err("TooShort")
  ELSE ExtensionAt(b, i, f)

Rests(f, b) == \A i \in 1..(Len(b) + 1) : f[i] = RestAt(f, b, i)

(* Where an extension lies that begins at i, and how long it says it is.   *)
Says(b, i) == U32(SubSeq(b, i + 1, i + 4))
Lies(b, i) ==
  /\ SubSeq(b, i + 1, i + 4) \in Seq(Octet) /\ Len(SubSeq(b, i + 1, i + 4)) = 4
  /\ Says(b, i) \in Word32 /\ Says(b, i) \in Nat
  /\ Least(i + 4 + Says(b, i), Len(b)) + 1 \in (i + 5)..(Len(b) + 1)

LEMMA SaysIs ==
  ASSUME NEW b \in Seq(Octet), NEW i \in 1..Len(b), Len(b) - i >= 4
  PROVE  Lies(b, i)
<1>1. PICK L \in Nat : L = Len(b)
  BY LenProperties
<1>2. i \in Nat /\ i >= 1 /\ i + 4 <= L
  BY <1>1, SMT
<1>0. PICK w : w = SubSeq(b, i + 1, i + 4)
  OBVIOUS
<1>3. PICK k \in Nat : w = SubSeq(b, i + 1, k) /\ k = i + 4
  BY <1>0, <1>2
<1>4. i \in Nat /\ i <= k /\ k <= Len(b) /\ k - i = 4
  BY <1>1, <1>2, <1>3, SMT
<1>5. w \in Seq(Octet) /\ Len(w) = 4
  BY <1>3, <1>4, PartIs
<1>6. U32(w) \in Word32 /\ U32(w) \in Nat
  BY <1>5, WriteWord32, Word32Is
<1>7. Says(b, i) = U32(w)
  BY <1>0 DEF Says
<1>8. PICK n \in Nat : n = Says(b, i)
  BY <1>6, <1>7
<1>9. Least(i + 4 + n, L) + 1 \in (i + 5)..(L + 1)
  BY <1>2, SMT DEF Least
<1>. QED  BY <1>0, <1>1, <1>5, <1>6, <1>7, <1>8, <1>9 DEF Lies

LEMMA SameRest ==
  ASSUME NEW b \in Seq(Octet), NEW i \in 1..(Len(b) + 1), NEW f, NEW g,
         \A k \in (i + 1)..(Len(b) + 1) : f[k] = g[k]
  PROVE  RestAt(f, b, i) = RestAt(g, b, i)
<1>1. PICK L \in Nat : L = Len(b)
  BY LenProperties
<1>2. CASE i = L + 1
  BY <1>1, <1>2 DEF RestAt
<1>3. CASE i # L + 1 /\ L - i < 4
  BY <1>1, <1>3 DEF RestAt
<1>4. CASE i # L + 1 /\ ~(L - i < 4)
  <2>1. i \in 1..Len(b) /\ Len(b) - i >= 4
    BY <1>1, <1>4, SMT
  <2>2. PICK last : last = Least(i + 4 + Says(b, i), Len(b))
    OBVIOUS
  <2>3. last + 1 \in (i + 5)..(Len(b) + 1)
    BY <2>1, <2>2, SaysIs DEF Lies
  <2>4. last + 1 \in (i + 1)..(Len(b) + 1)
    BY <1>1, <2>3, SMT
  <2>5. f[last + 1] = g[last + 1]
    BY <2>4
  <2>6. ExtensionAt(b, i, f) = ExtensionAt(b, i, g)
    BY <2>2, <2>5, Zenon DEF ExtensionAt, Says
  <2>. QED  BY <1>1, <1>4, <2>6 DEF RestAt
<1>. QED  BY <1>2, <1>3, <1>4

(* The last m of them.                                                     *)
RestsTo(f, b, m) ==
  \A i \in 1..(Len(b) + 1) : i >= Len(b) + 2 - m => f[i] = RestAt(f, b, i)

LEMMA RestsExist ==
  ASSUME NEW b \in Seq(Octet)
  PROVE  \E f : f = [i \in 1..(Len(b) + 1) |-> RestAt(f, b, i)]
<1>1. PICK L \in Nat : L = Len(b)
  BY LenProperties
<1>. DEFINE T == {m \in 0..(L + 1) : ~(\E f : RestsTo(f, b, m))}
<1>2. ASSUME T # {} PROVE FALSE
  <2>1. PICK m \in T : \A k \in 0..(m - 1) : k \notin T
    <3>1. T \in SUBSET Nat
      OBVIOUS
    <3>. HIDE DEF T
    <3>. QED  BY <1>2, <3>1, LeastNumber
  <2>2. m \in 0..(L + 1) /\ ~(\E f : RestsTo(f, b, m))
    OBVIOUS
  <2>3. CASE m = 0
    <3>1. \A i \in 1..(L + 1) : ~(i >= L + 2 - m)
      BY <2>3
    <3>2. RestsTo(b, b, m)
      BY <1>1, <3>1 DEF RestsTo
    <3>. QED  BY <2>2, <3>2
  <2>4. CASE m # 0
    <3>1. m - 1 \in 0..(m - 1) /\ m - 1 \in 0..(L + 1)
      BY <2>2, <2>4
    <3>2. PICK f : RestsTo(f, b, m - 1)
      BY <2>1, <3>1
    <3>3. PICK j \in 1..(L + 1) : j = L + 2 - m
      <4>1. L + 2 - m \in 1..(L + 1)
        BY <2>2, <2>4
      <4>. QED  BY <4>1
    <3>4. PICK g : g = [i \in 1..(L + 1) |-> IF i = j THEN RestAt(f, b, j) ELSE f[i]]
      OBVIOUS
    <3>5. g[j] = RestAt(f, b, j) /\ \A i \in 1..(L + 1) : i # j => g[i] = f[i]
      BY <3>4
    <3>6. ASSUME NEW i \in 1..(L + 1), i >= L + 2 - m PROVE g[i] = RestAt(g, b, i)
      <4>1. \A k \in (i + 1)..(L + 1) : k \in 1..(L + 1) /\ k # j
        BY <2>2, <3>3, <3>6
      <4>2. \A k \in (i + 1)..(L + 1) : f[k] = g[k]
        BY <3>5, <4>1
      <4>3. RestAt(f, b, i) = RestAt(g, b, i)
        BY <1>1, <4>2, SameRest
      <4>4. CASE i = j
        BY <3>5, <4>3, <4>4
      <4>5. CASE i # j
        <5>1. i >= L + 2 - (m - 1)
          BY <2>2, <3>3, <3>6, <4>5
        <5>2. f[i] = RestAt(f, b, i)
          BY <1>1, <3>2, <5>1 DEF RestsTo
        <5>. QED  BY <3>5, <4>3, <4>5, <5>2
      <4>. QED  BY <4>4, <4>5
    <3>7. RestsTo(g, b, m)
      BY <1>1, <3>6 DEF RestsTo
    <3>. QED  BY <2>2, <3>7
  <2>. QED  BY <2>3, <2>4
<1>3. PICK f : RestsTo(f, b, L + 1)
  <2>1. L + 1 \in 0..(L + 1)
    OBVIOUS
  <2>. QED  BY <1>2, <2>1
<1>4. ASSUME NEW i \in 1..(L + 1) PROVE f[i] = RestAt(f, b, i)
  <2>1. i >= L + 2 - (L + 1)
    OBVIOUS
  <2>. QED  BY <1>1, <1>3, <2>1 DEF RestsTo
<1>5. PICK g : g = [i \in 1..(L + 1) |-> f[i]]
  OBVIOUS
<1>6. ASSUME NEW i \in 1..(L + 1) PROVE f[i] = RestAt(g, b, i)
  <2>1. \A k \in (i + 1)..(L + 1) : f[k] = g[k]
    <3>1. \A k \in (i + 1)..(L + 1) : k \in 1..(L + 1)
      OBVIOUS
    <3>. QED  BY <1>5, <3>1
  <2>2. RestAt(f, b, i) = RestAt(g, b, i)
    BY <1>1, <2>1, SameRest
  <2>. QED  BY <1>4, <2>2
<1>7. g = [i \in 1..(L + 1) |-> RestAt(g, b, i)]
  BY <1>5, <1>6
<1>. QED  BY <1>1, <1>7

LEMMA ExtensionsAre ==
  ASSUME NEW b \in Seq(Octet)
  PROVE  \E f : Rests(f, b) /\ Extensions(b) = f[3]
<1>. DEFINE rest == CHOOSE f : f = [i \in 1..(Len(b) + 1) |->
                      IF i = Len(b) + 1 THEN Ok(<<>>)
                      ELSE IF Len(b) - i < 4 THEN Err("TooShort")
                      ELSE ExtensionAt(b, i, f)]
<1>1. \E f : f = [i \in 1..(Len(b) + 1) |->
                    IF i = Len(b) + 1 THEN Ok(<<>>)
                    ELSE IF Len(b) - i < 4 THEN Err("TooShort")
                    ELSE ExtensionAt(b, i, f)]
  BY RestsExist, Zenon DEF RestAt
<1>2. rest = [i \in 1..(Len(b) + 1) |->
                IF i = Len(b) + 1 THEN Ok(<<>>)
                ELSE IF Len(b) - i < 4 THEN Err("TooShort")
                ELSE ExtensionAt(b, i, rest)]
  BY <1>1, Zenon
<1>3. Extensions(b) = rest[3]
  BY DEF Extensions
<1>4. PICK f : f = rest
  OBVIOUS
<1>. HIDE DEF rest
<1>5. f = [i \in 1..(Len(b) + 1) |-> RestAt(f, b, i)]
  BY <1>2, <1>4, Zenon DEF RestAt
<1>6. Rests(f, b)
  BY <1>5 DEF Rests
<1>. QED  BY <1>3, <1>4, <1>6

-----------------------------------------------------------------------------
(* An extension is found where it was put ...                              *)
Found(b, i, x, r) ==
  /\ Len(b) - i >= 4 /\ b[i] = x.id /\ Says(b, i) = Len(x.metadata)
  /\ i + 4 + Says(b, i) <= Len(b)
  /\ SubSeq(b, i + 5, i + 4 + Says(b, i)) = x.metadata
  /\ From(b, i + 4 + Says(b, i) + 1) = r

LEMMA ExtensionFound ==
  ASSUME NEW b \in Seq(Octet), NEW i \in 1..(Len(b) + 1), NEW x \in Extension,
         NEW r \in Seq(Octet), From(b, i) = EncodeExtension(x) \o r
  PROVE  Found(b, i, x, r)
<1>1. PICK L \in Nat : L = Len(b)
  BY LenProperties
<1>2. PICK j \in Nat : j + 1 = i /\ j <= L
  BY <1>1
<1>3. PICK e, c, m, w : /\ e = EncodeExtension(x) /\ c = From(b, i)
                        /\ m = x.metadata /\ w = Bytes4(Len(m))
  OBVIOUS
<1>4. PICK n \in Nat : n = Len(m)
  BY <1>3, ExtensionIs
<1>5. /\ m \in Seq(Octet) /\ n \in Word32 /\ Header(e, 5, x.id, w, m)
  BY <1>3, <1>4, ExtensionIs
<1>6. w \in Seq(Octet) /\ Len(w) = 4 /\ U32(w) = n
  BY <1>3, <1>4, <1>5, Bytes4Is, ReadWord32
<1>7. /\ e \in Seq(Octet) /\ Len(e) = 5 + n /\ e[1] = x.id
      /\ SubSeq(e, 2, 5) = w /\ From(e, 6) = m
  BY <1>4, <1>5 DEF Header
<1>8. PICK R \in Nat : R = Len(r)
  BY LenProperties
<1>9. /\ Len(c) = (5 + n) + R
      /\ \A k \in 1..((5 + n) + R) : c[k] = IF k <= 5 + n THEN e[k] ELSE r[k - (5 + n)]
  <2>1. TwoParts(Octet, e \o r, e, r)
    BY <1>7, TwoPartsAre
  <2>2. TwoParts(Octet, c, e, r)
    BY <1>3, <2>1
  <2>. QED  BY <1>7, <1>8, <2>2 DEF TwoParts
<1>10. Len(c) = L - j /\ \A k \in 1..(L - j) : c[k] = b[j + k]
  <2>1. c = SubSeq(b, j + 1, L)
    BY <1>1, <1>2, <1>3 DEF From
  <2>2. j <= L /\ L <= Len(b)
    BY <1>1, <1>2
  <2>3. /\ Len(SubSeq(b, j + 1, L)) = L - j
        /\ \A k \in 1..(L - j) : SubSeq(b, j + 1, L)[k] = b[j + k]
    BY <2>2, PartIs
  <2>. QED  BY <2>1, <2>3
<1>11. L - j = (5 + n) + R
  BY <1>9, <1>10
<1>12. /\ \A k \in 1..(5 + n) : b[j + k] = e[k]
       /\ \A k \in 1..R : b[j + (5 + n) + k] = r[k]
  <2>1. ASSUME NEW k \in 1..(5 + n) PROVE b[j + k] = e[k]
    <3>1. k \in 1..((5 + n) + R) /\ k <= 5 + n
      BY SMT
    <3>. QED  BY <1>9, <1>10, <1>11, <3>1
  <2>2. ASSUME NEW k \in 1..R PROVE b[j + (5 + n) + k] = r[k]
    <3>1. PICK l \in 1..((5 + n) + R) : l = (5 + n) + k /\ ~(l <= 5 + n) /\ l - (5 + n) = k
      BY SMT
    <3>2. j + (5 + n) + k = j + l
      BY <3>1, SMT
    <3>. QED  BY <1>9, <1>10, <1>11, <3>1, <3>2
  <2>. QED  BY <2>1, <2>2
<1>13. b[i] = x.id
  <2>1. 1 \in 1..(5 + n)
    BY SMT
  <2>. QED  BY <1>2, <1>7, <1>12, <2>1
<1>14. SubSeq(b, i + 1, i + 4) = w
  <2>0. PICK p \in Nat, q \in Nat : p = i /\ q = i + 4
    <3>1. i \in Nat /\ i + 4 \in Nat
      BY <1>2, SMT
    <3>. QED  BY <3>1
  <2>1. PICK s : p = i /\ q = i + 4 /\ s = SubSeq(b, p + 1, q)
    BY <2>0
  <2>2. p <= q /\ q <= Len(b) /\ q - p = 4 /\ p = j + 1
    BY <1>1, <1>2, <1>11, <2>1, SMT
  <2>3. s \in Seq(Octet) /\ Len(s) = 4 /\ \A k \in 1..4 : s[k] = b[p + k]
    BY <2>1, <2>2, PartIs
  <2>4. \A k \in 1..4 : w[k] = e[1 + k]
    <3>1. PICK v : v = SubSeq(e, 1 + 1, 5)
      OBVIOUS
    <3>2. 1 <= 5 /\ 5 <= Len(e) /\ e \in Seq(Octet) /\ 5 - 1 = 4
      BY <1>7
    <3>3. \A k \in 1..(5 - 1) : v[k] = e[1 + k]
      BY <3>1, <3>2, PartIs
    <3>4. v = w
      BY <1>7, <3>1
    <3>. QED  BY <3>2, <3>3, <3>4
  <2>5. ASSUME NEW k \in 1..4 PROVE s[k] = w[k]
    <3>1. 1 + k \in 1..(5 + n) /\ p + k = j + (1 + k)
      BY <2>2, SMT
    <3>. QED  BY <1>12, <2>3, <2>4, <3>1
  <2>6. s = w
    BY <1>6, <2>3, <2>5, SeqEqual
  <2>. QED  BY <2>1, <2>6
<1>15. Says(b, i) = n
  BY <1>6, <1>14 DEF Says
<1>16. SubSeq(b, i + 5, i + 4 + n) = m
  <2>0. PICK p \in Nat, q \in Nat : p = i + 4 /\ q = i + 4 + n
    <3>1. i + 4 \in Nat /\ i + 4 + n \in Nat
      BY <1>2, SMT
    <3>. QED  BY <3>1
  <2>1. PICK s : p = i + 4 /\ q = i + 4 + n /\ s = SubSeq(b, p + 1, q)
    BY <2>0
  <2>2. p <= q /\ q <= Len(b) /\ q - p = n /\ p = j + 5 /\ p + 1 = i + 5
    BY <1>1, <1>2, <1>11, <2>1, SMT
  <2>3. s \in Seq(Octet) /\ Len(s) = n /\ \A k \in 1..n : s[k] = b[p + k]
    BY <2>1, <2>2, PartIs
  <2>4. \A k \in 1..n : m[k] = e[5 + k]
    <3>0. PICK t \in Nat : t = Len(e)
      BY <1>7
    <3>1. PICK v : t = Len(e) /\ v = SubSeq(e, 5 + 1, Len(e))
      BY <3>0
    <3>2. 5 <= t /\ t <= Len(e) /\ e \in Seq(Octet) /\ t - 5 = n
      BY <1>7, <3>1
    <3>3. \A k \in 1..(t - 5) : v[k] = e[5 + k]
      BY <3>1, <3>2, PartIs
    <3>4. v = m
      BY <1>7, <3>1 DEF From
    <3>. QED  BY <3>2, <3>3, <3>4
  <2>5. ASSUME NEW k \in 1..n PROVE s[k] = m[k]
    <3>1. 5 + k \in 1..(5 + n) /\ p + k = j + (5 + k)
      BY <2>2, SMT
    <3>. QED  BY <1>12, <2>3, <2>4, <3>1
  <2>6. s = m
    BY <1>4, <1>5, <2>3, <2>5, SeqEqual
  <2>. QED  BY <2>1, <2>2, <2>6
<1>17. From(b, i + 4 + n + 1) = r
  <2>0. PICK p \in Nat : p = i + 4 + n
    <3>1. i + 4 + n \in Nat
      BY <1>2, SMT
    <3>. QED  BY <3>1
  <2>1. PICK s : p = i + 4 + n /\ s = SubSeq(b, p + 1, L)
    BY <2>0
  <2>2. p <= L /\ L <= Len(b) /\ L - p = R /\ p = j + (5 + n)
    BY <1>1, <1>2, <1>11, <2>1, SMT
  <2>3. s \in Seq(Octet) /\ Len(s) = R /\ \A k \in 1..R : s[k] = b[p + k]
    BY <2>1, <2>2, PartIs
  <2>4. \A k \in 1..R : s[k] = r[k]
    BY <1>12, <2>2, <2>3
  <2>5. s = r
    BY <1>8, <2>3, <2>4, SeqEqual
  <2>. QED  BY <1>1, <2>1, <2>5 DEF From
<1>18. L - i >= 4 /\ i + 4 + n <= L
  BY <1>2, <1>11, SMT
<1>. QED  BY <1>1, <1>3, <1>4, <1>13, <1>15, <1>16, <1>17, <1>18 DEF Found

(* ... and what is found was put there.                                    *)
LEMMA ExtensionRead ==
  ASSUME NEW b \in Seq(Octet), NEW i \in 1..Len(b), Len(b) - i >= 4,
         i + 4 + Says(b, i) <= Len(b), NEW x,
         x = [id |-> b[i], metadata |-> SubSeq(b, i + 5, i + 4 + Says(b, i))]
  PROVE  /\ x \in Extension
         /\ From(b, i) = EncodeExtension(x) \o From(b, i + 4 + Says(b, i) + 1)
         /\ From(b, i + 4 + Says(b, i) + 1) \in Seq(Octet)
<1>1. PICK L \in Nat : L = Len(b)
  BY LenProperties
<1>2. Lies(b, i)
  BY SaysIs
<1>3. PICK n \in Nat : n = Says(b, i)
  BY <1>2 DEF Lies
<1>4. PICK j \in Nat, q \in Nat : j = i + 4 /\ q = j + n
  <2>1. i + 4 \in Nat /\ (i + 4) + n \in Nat
    BY SMT
  <2>. QED  BY <2>1
<1>5. i <= j /\ j <= q /\ q <= L /\ i \in Nat /\ i >= 1
  BY <1>1, <1>3, <1>4, SMT
<1>6. PICK w, m, r : /\ w = SubSeq(b, i + 1, j) /\ m = SubSeq(b, j + 1, q)
                     /\ r = SubSeq(b, q + 1, L)
  OBVIOUS
<1>7. m \in Seq(Octet) /\ Len(m) = n /\ r \in Seq(Octet)
  <2>1. q - j = n
    BY <1>4, SMT
  <2>2. m \in Seq(Octet) /\ Len(m) = q - j
    BY <1>1, <1>5, <1>6, PartIs
  <2>3. r \in Seq(Octet)
    BY <1>1, <1>5, <1>6, PartIs
  <2>. QED  BY <2>1, <2>2, <2>3
<1>8. w \in Seq(Octet) /\ Len(w) = 4 /\ n \in Word32 /\ n = U32(w)
  BY <1>2, <1>3, <1>4, <1>6 DEF Lies, Says
<1>9. Bytes4(n) = w
  BY <1>8, WriteWord32
<1>10. i + 5 = j + 1 /\ i + 4 + n = q /\ i + 4 + n + 1 = q + 1
  BY <1>4, SMT
<1>11. x.id = b[i] /\ x.metadata = m /\ x = [id |-> x.id, metadata |-> x.metadata]
  BY <1>3, <1>6, <1>10
<1>12. b[i] \in Octet
  BY ElementOfSeq
<1>13. x \in Extension
  BY <1>7, <1>8, <1>11, <1>12 DEF Extension
<1>14. PICK a : a = <<b[i]>>
  OBVIOUS
<1>15. a \in Seq(Octet)
  BY <1>12, <1>14
<1>16. EncodeExtension(x) = (a \o w) \o m
  BY <1>7, <1>9, <1>11, <1>14 DEF EncodeExtension
<1>17. a \o w = SubSeq(b, i, j)
  <2>1. j \in i..Len(b)
    BY <1>1, <1>5, SMT
  <2>. QED  BY <1>6, <1>14, <2>1, SubSeqRecursiveFirst
<1>18. SubSeq(b, i, j) \o m = SubSeq(b, i, q)
  <2>1. i \in 1..(Len(b) + 1) /\ j \in (i - 1)..Len(b) /\ q \in j..Len(b)
    BY <1>1, <1>5, SMT
  <2>. QED  BY <1>6, <2>1, ConcatAdjacentSubSeq
<1>19. SubSeq(b, i, q) \o r = SubSeq(b, i, L)
  <2>1. i \in 1..(Len(b) + 1) /\ q \in (i - 1)..Len(b) /\ L \in q..Len(b)
    BY <1>1, <1>5, SMT
  <2>. QED  BY <1>6, <2>1, ConcatAdjacentSubSeq
<1>20. From(b, i) = EncodeExtension(x) \o r
  BY <1>1, <1>16, <1>17, <1>18, <1>19 DEF From
<1>21. From(b, i + 4 + Says(b, i) + 1) = r
  BY <1>1, <1>3, <1>6, <1>10 DEF From
<1>. QED  BY <1>7, <1>13, <1>20, <1>21

-----------------------------------------------------------------------------
(* What a step of the decoding makes of an extension that fits.            *)
Contained(b, i) ==
  /\ i \in Nat /\ i >= 1 /\ Len(b) - i >= 4 /\ i \in 1..Len(b)
  /\ i + 4 + Says(b, i) <= Len(b)
  /\ i + 4 + Says(b, i) + 1 \in (i + 5)..(Len(b) + 1)

LEMMA ContainedIs ==
  ASSUME NEW b \in Seq(Octet), NEW i \in 1..(Len(b) + 1), Len(b) - i >= 4,
         i + 4 + Says(b, i) <= Len(b)
  PROVE  Contained(b, i)
<1>1. PICK L \in Nat : L = Len(b)
  BY LenProperties
<1>2. i \in 1..L
  BY <1>1, SMT
<1>3. PICK n \in Nat : n = Says(b, i)
  BY <1>1, <1>2, SaysIs DEF Lies
<1>4. i + 4 + n + 1 \in (i + 5)..(L + 1)
  BY <1>1, <1>2, <1>3, SMT
<1>. QED  BY <1>1, <1>2, <1>3, <1>4 DEF Contained

LEMMA ExtensionContained ==
  ASSUME NEW b \in Seq(Octet), NEW i \in 1..(Len(b) + 1), Contained(b, i), NEW f, NEW r, NEW m,
         r = f[i + 4 + Says(b, i) + 1], m = SubSeq(b, i + 5, i + 4 + Says(b, i))
  PROVE  ExtensionAt(b, i, f) =
           IF ~r.ok THEN r
           ELSE Ok(<<[id |-> b[i], metadata |-> m]>> \o r.value)
<1>1. PICK L \in Nat : L = Len(b)
  BY LenProperties
<1>2. PICK n \in Nat : n = Says(b, i)
  BY SaysIs DEF Lies, Contained
<1>3. PICK q : q = Least(i + 4 + n, L)
  OBVIOUS
<1>4. q = i + 4 + n /\ ~Overruns(b, i, n)
  <2>1. i + 4 + n <= L /\ i \in Nat
    BY <1>1, <1>2 DEF Contained
  <2>2. ~(L - (i + 4) < n)
    BY <2>1, SMT
  <2>. QED  BY <1>1, <1>3, <2>1, <2>2, SMT DEF Least, Overruns
<1>5. ExtensionAt(b, i, f) =
        IF Overruns(b, i, n) THEN Err("ExtensionOverrun")
        ELSE IF ~f[q + 1].ok THEN f[q + 1]
        ELSE Ok(<<[id |-> b[i], metadata |-> SubSeq(b, i + 5, q)]>> \o f[q + 1].value)
  BY <1>1, <1>2, <1>3, Zenon DEF ExtensionAt, Says
<1>6. r = f[q + 1] /\ m = SubSeq(b, i + 5, q)
  BY <1>2, <1>4
<1>. QED  BY <1>4, <1>5, <1>6

Adds(b, i, f, r, m) ==
  ExtensionAt(b, i, f) = IF ~r.ok THEN r ELSE Ok(<<[id |-> b[i], metadata |-> m]>> \o r.value)

LEMMA ExtensionAdds ==
  ASSUME NEW b \in Seq(Octet), NEW i \in 1..(Len(b) + 1), Contained(b, i), NEW f, NEW r,
         NEW m, r = f[i + 4 + Says(b, i) + 1], m = SubSeq(b, i + 5, i + 4 + Says(b, i))
  PROVE  Adds(b, i, f, r, m)
BY ExtensionContained DEF Adds

LEMMA ExtensionOver ==
  ASSUME NEW b \in Seq(Octet), NEW i \in 1..(Len(b) + 1), Len(b) - i >= 4, NEW f,
         ~(i + 4 + Says(b, i) <= Len(b))
  PROVE  ExtensionAt(b, i, f) = Err("ExtensionOverrun")
<1>1. PICK L \in Nat : L = Len(b)
  BY LenProperties
<1>2. i \in 1..L
  BY <1>1, SMT
<1>3. PICK n \in Nat : n = Says(b, i)
  BY <1>1, <1>2, SaysIs DEF Lies
<1>4. Overruns(b, i, n)
  BY <1>1, <1>2, <1>3, SMT DEF Overruns
<1>. QED  BY <1>3, <1>4, Zenon DEF ExtensionAt, Says

LEMMA FirstOf ==
  ASSUME NEW S, NEW s \in Seq(S), Len(s) # 0
  PROVE  \E x \in S, r \in Seq(S) : s = <<x>> \o r /\ Len(r) = Len(s) - 1
<1>1. s # <<>>
  OBVIOUS
<1>2. PICK x \in S : x = s[1]
  BY <1>1
<1>3. PICK r \in Seq(S) : /\ Len(r) = Len(s) - 1
                         /\ \A k \in 1..Len(r) : r[k] = s[k + 1]
  BY <1>1, HeadTailProperties
<1>4. PICK t : t = <<x>> \o r
  OBVIOUS
<1>5. PICK N \in Nat : N = Len(r) /\ Len(s) = N + 1
  BY <1>3, LenProperties
<1>6. /\ t \in Seq(S) /\ Len(t) = N + 1 /\ t[1] = x
      /\ \A k \in 1..N : t[k + 1] = r[k]
  BY <1>4, <1>5, FirstAnd
<1>7. ASSUME NEW k \in 1..(N + 1) PROVE t[k] = s[k]
  <2>1. CASE k = 1
    BY <1>2, <1>6, <2>1
  <2>2. CASE k # 1
    <3>1. PICK l \in 1..N : k = l + 1
      <4>1. k - 1 \in 1..N /\ k = (k - 1) + 1
        BY <2>2
      <4>. QED  BY <4>1
    <3>. QED  BY <1>3, <1>5, <1>6, <3>1
  <2>. QED  BY <2>1, <2>2
<1>8. t = s
  BY <1>5, <1>6, <1>7, SeqEqual
<1>. QED  BY <1>3, <1>4, <1>8

-----------------------------------------------------------------------------
(* Extensions that were put one after the other are read so ...            *)
LEMMA AllRead ==
  ASSUME NEW b \in Seq(Octet), NEW f, Rests(f, b)
  PROVE  \A i \in 1..(Len(b) + 1), s \in Seq(Extension) :
           From(b, i) = EncodeAll(s) => f[i] = Ok(s)
<1>1. PICK L \in Nat : L = Len(b)
  BY LenProperties
<1>. DEFINE Wrong(k) ==
       \E i \in 1..(L + 1), s \in Seq(Extension) :
         Len(s) = k /\ From(b, i) = EncodeAll(s) /\ f[i] # Ok(s)
            T == {k \in Nat : Wrong(k)}
<1>2. ASSUME T # {} PROVE FALSE
  <2>1. PICK k \in T : \A m \in 0..(k - 1) : m \notin T
    <3>1. T \in SUBSET Nat
      OBVIOUS
    <3>. HIDE DEF T
    <3>. QED  BY <1>2, <3>1, LeastNumber
  <2>2. PICK i \in 1..(L + 1), s \in Seq(Extension) :
          Len(s) = k /\ From(b, i) = EncodeAll(s) /\ f[i] # Ok(s)
    OBVIOUS
  <2>3. k \in Nat /\ f[i] = RestAt(f, b, i)
    BY <1>1, <2>2 DEF Rests
  <2>4. CASE k = 0
    <3>1. s = <<>>
      BY <2>2, <2>4, EmptyIs
    <3>2. From(b, i) = <<>>
      BY <2>2, <3>1, AllNone
    <3>3. PICK j \in Nat : j + 1 = i /\ j <= L
      BY <1>1, <2>2
    <3>4. Len(From(b, j + 1)) = L - j
      BY <1>1, <3>3, TakenApart
    <3>5. i = L + 1
      BY <3>2, <3>3, <3>4
    <3>. QED  BY <1>1, <2>2, <2>3, <3>1, <3>5 DEF RestAt
  <2>5. CASE k # 0
    <3>1. PICK x \in Extension, r \in Seq(Extension) : s = <<x>> \o r /\ Len(r) = k - 1
      <4>1. Len(s) \in Nat /\ Len(s) # 0
        BY <2>2, <2>3, <2>5
      <4>2. PICK x \in Extension, r \in Seq(Extension) :
              s = <<x>> \o r /\ Len(r) = Len(s) - 1
        BY <4>1, FirstOf
      <4>. QED  BY <2>2, <4>2
    <3>2. PICK c : c = EncodeAll(r)
      OBVIOUS
    <3>3. c \in Seq(Octet) /\ From(b, i) = EncodeExtension(x) \o c
      BY <2>2, <3>1, <3>2, AllFirst
    <3>4. Found(b, i, x, c)
      BY <1>1, <2>2, <3>3, ExtensionFound
    <3>5. Contained(b, i)
      BY <1>1, <2>2, <3>4, ContainedIs DEF Found
    <3>6. PICK q : q = i + 4 + Says(b, i) + 1
      OBVIOUS
    <3>7. q \in 1..(L + 1)
      BY <1>1, <3>5, <3>6, SMT DEF Contained
    <3>8. From(b, q) = c
      BY <3>4, <3>6 DEF Found
    <3>9. f[q] = Ok(r)
      <4>1. k - 1 \in 0..(k - 1) /\ k - 1 \in Nat
        BY <2>3, <2>5
      <4>2. ~Wrong(k - 1)
        BY <2>1, <4>1
      <4>. QED  BY <3>1, <3>2, <3>7, <3>8, <4>2
    <3>10. PICK m : m = SubSeq(b, i + 5, i + 4 + Says(b, i))
      OBVIOUS
    <3>11. b[i] = x.id /\ m = x.metadata
      BY <3>4, <3>10 DEF Found
    <3>12. ExtensionAt(b, i, f) =
             IF ~f[q].ok THEN f[q] ELSE Ok(<<[id |-> b[i], metadata |-> m]>> \o f[q].value)
      <4>. HIDE DEF T, Wrong
      <4>1. i \in 1..(Len(b) + 1)
        BY <1>1
      <4>2. PICK r1 : r1 = f[q] /\ r1 = f[i + 4 + Says(b, i) + 1]
        BY <3>6
      <4>3. ExtensionAt(b, i, f) =
              IF ~r1.ok THEN r1 ELSE Ok(<<[id |-> b[i], metadata |-> m]>> \o r1.value)
        <5>1. Adds(b, i, f, r1, m)
          BY <3>5, <3>10, <4>1, <4>2, ExtensionAdds, Zenon
        <5>. QED  BY <5>1 DEF Adds
      <4>. QED  BY <4>2, <4>3
    <3>13. x = [id |-> x.id, metadata |-> x.metadata]
      BY ExtensionIs
    <3>14. f[q].ok = TRUE /\ f[q].value = r
      BY <3>9, Outcomes
    <3>15. ExtensionAt(b, i, f) = Ok(s)
      BY <3>1, <3>11, <3>12, <3>13, <3>14
    <3>16. i # L + 1 /\ ~(L - i < 4)
      BY <1>1, <2>2, <3>5, SMT DEF Contained
    <3>. QED  BY <1>1, <2>2, <2>3, <3>15, <3>16 DEF RestAt
  <2>. QED  BY <2>4, <2>5
<1>3. \A s \in Seq(Extension) : Len(s) \in Nat
  BY LenProperties
<1>. QED  BY <1>1, <1>2, <1>3

(* ... and those that are read were put there.                             *)
LEMMA AllKept ==
  ASSUME NEW b \in Seq(Octet), NEW f, Rests(f, b)
  PROVE  \A i \in 1..(Len(b) + 1) :
           f[i].ok => f[i].value \in Seq(Extension) /\ EncodeAll(f[i].value) = From(b, i)
<1>1. PICK L \in Nat : L = Len(b)
  BY LenProperties
<1>. DEFINE Right(i) ==
       f[i].ok => f[i].value \in Seq(Extension) /\ EncodeAll(f[i].value) = From(b, i)
            T == {d \in 0..L : \E i \in 1..(L + 1) : d = L + 1 - i /\ ~Right(i)}
<1>2. ASSUME T # {} PROVE FALSE
  <2>1. PICK d \in T : \A m \in 0..(d - 1) : m \notin T
    <3>1. T \in SUBSET Nat
      OBVIOUS
    <3>. HIDE DEF T
    <3>. QED  BY <1>2, <3>1, LeastNumber
  <2>2. PICK i \in 1..(L + 1) : d = L + 1 - i /\ ~Right(i)
    OBVIOUS
  <2>3. f[i] = RestAt(f, b, i) /\ f[i].ok
    BY <1>1, <2>2 DEF Rests
  <2>4. CASE i = L + 1
    <3>1. f[i].value = <<>>
      BY <1>1, <2>3, <2>4, Outcomes DEF RestAt
    <3>2. Len(From(b, L + 1)) = 0 /\ From(b, L + 1) \in Seq(Octet)
      <4>1. L <= Len(b) /\ Len(b) - L = 0
        BY <1>1
      <4>. QED  BY <4>1, TakenApart
    <3>3. From(b, i) = <<>>
      BY <2>4, <3>2, EmptyIs
    <3>4. <<>> \in Seq(Extension)
      OBVIOUS
    <3>. QED  BY <2>2, <3>1, <3>3, <3>4, AllNone
  <2>5. CASE i # L + 1
    <3>1. ~(L - i < 4) /\ f[i] = ExtensionAt(b, i, f)
      <4>1. L - i < 4 => f[i] = Err("TooShort")
        BY <1>1, <2>3, <2>5 DEF RestAt
      <4>2. ~(L - i < 4)
        BY <2>3, <4>1, Outcomes
      <4>. QED  BY <1>1, <2>3, <2>5, <4>2 DEF RestAt
    <3>2. Len(b) - i >= 4 /\ i \in 1..Len(b) /\ i \in 1..(Len(b) + 1)
      BY <1>1, <2>2, <3>1, SMT
    <3>3. i + 4 + Says(b, i) <= Len(b)
      <4>1. Err("ExtensionOverrun").ok = FALSE
        BY Outcomes
      <4>. QED  BY <2>3, <3>1, <3>2, <4>1, ExtensionOver
    <3>4. Contained(b, i)
      BY <3>2, <3>3, ContainedIs
    <3>5. PICK q : q = i + 4 + Says(b, i) + 1
      OBVIOUS
    <3>6. q \in 1..(L + 1) /\ q > i
      BY <1>1, <2>2, <3>4, <3>5, SMT DEF Contained
    <3>7. PICK m, x : /\ m = SubSeq(b, i + 5, i + 4 + Says(b, i))
                      /\ x = [id |-> b[i], metadata |-> m]
      OBVIOUS
    <3>8. ExtensionAt(b, i, f) = IF ~f[q].ok THEN f[q] ELSE Ok(<<x>> \o f[q].value)
      BY <3>2, <3>4, <3>5, <3>7, ExtensionContained, SMTT(30)
    <3>9. f[q].ok /\ f[i] = Ok(<<x>> \o f[q].value)
      BY <2>3, <3>1, <3>8
    <3>10. f[q].value \in Seq(Extension) /\ EncodeAll(f[q].value) = From(b, q)
      <4>1. PICK e : e = L + 1 - q
        OBVIOUS
      <4>2. e \in 0..(d - 1) /\ e \in 0..L
        BY <2>2, <3>6, <4>1, SMT
      <4>3. Right(q)
        BY <2>1, <3>6, <4>1, <4>2
      <4>. QED  BY <3>9, <4>3
    <3>16. PICK r \in Seq(Extension) : r = f[q].value
      BY <3>10
    <3>11. PICK t : r = f[q].value /\ t = <<x>> \o r
      BY <3>16
    <3>12. f[i].value = t
      BY <3>9, <3>11, Outcomes
    <3>13. x \in Extension /\ From(b, i) = EncodeExtension(x) \o From(b, q)
      BY <3>2, <3>3, <3>5, <3>7, ExtensionRead
    <3>14. EncodeAll(t) = EncodeExtension(x) \o EncodeAll(r)
      BY <3>11, <3>13, AllFirst
    <3>15. t \in Seq(Extension)
      BY <3>11, <3>13, FirstAnd
    <3>. QED  BY <2>2, <3>10, <3>11, <3>12, <3>13, <3>14, <3>15
  <2>. QED  BY <2>4, <2>5
<1>3. ASSUME NEW i \in 1..(L + 1) PROVE Right(i)
  <2>1. L + 1 - i \in 0..L
    OBVIOUS
  <2>. QED  BY <1>2, <2>1
<1>. QED  BY <1>1, <1>3

-----------------------------------------------------------------------------
(* The body of an INFO, and then the bodies of all packets.                *)
LEMMA VersionIs == Version \in Seq(Octet) /\ Len(Version) = 2
BY DEF Version, Octet

LEMMA InfoIs ==
  ASSUME NEW v
  PROVE  EncodeBody("Info", v) = Version \o EncodeAll(v.extensions)
BY DEF EncodeBody, EncodeAll

LEMMA AllIs ==
  ASSUME NEW s \in Seq(Extension)
  PROVE  EncodeAll(s) \in Seq(Octet)
<1>1. CASE s = <<>>
  <2>1. <<>> \in Seq(Octet)
    OBVIOUS
  <2>. QED  BY <1>1, <2>1, AllNone, Zenon
<1>2. CASE s # <<>>
  <2>1. Len(s) # 0
    BY <1>2, EmptyIs
  <2>2. PICK x \in Extension, r \in Seq(Extension) : s = <<x>> \o r /\ Len(r) = Len(s) - 1
    BY <2>1, FirstOf
  <2>3. EncodeAll(r) \in Seq(Octet) /\ EncodeAll(s) = EncodeExtension(x) \o EncodeAll(r)
    BY <2>2, AllFirst
  <2>4. EncodeExtension(x) \in Seq(Octet)
    BY ExtensionIs
  <2>. QED  BY <2>3, <2>4, ConcatProperties
<1>. QED  BY <1>1, <1>2

LEMMA InfoReads ==
  ASSUME NEW v \in BodyOf("Info")
  PROVE  Readable("Info", v)
<1>1. PICK s \in Seq(Extension) : v = [version |-> Version, extensions |-> s]
  <2>1. v \in [version : {Version}, extensions : Seq(Extension)]
    BY DEF BodyOf
  <2>. QED  BY <2>1
<1>2. PICK c, b : c = EncodeAll(s) /\ b = Version \o c
  OBVIOUS
<1>3. c \in Seq(Octet) /\ Version \in Seq(Octet) /\ Len(Version) = 2
  BY <1>2, AllIs, VersionIs
<1>4. EncodeBody("Info", v) = b
  <2>1. v.extensions = s
    BY <1>1
  <2>2. EncodeBody("Info", v) = Version \o EncodeAll(v.extensions)
    BY InfoIs
  <2>. QED  BY <1>2, <2>1, <2>2
<1>5. /\ b \in Seq(Octet) /\ Len(b) = 2 + Len(c)
      /\ SubSeq(b, 1, 2) = Version /\ From(b, 3) = c
  <2>1. /\ Version \o c \in Seq(Octet) /\ Len(Version \o c) = Len(Version) + Len(c)
        /\ SubSeq(Version \o c, 1, Len(Version)) = Version
        /\ From(Version \o c, Len(Version) + 1) = c
    BY <1>3, PutTogether
  <2>2. 2 + 1 = 3
    OBVIOUS
  <2>. QED  BY <1>2, <1>3, <2>1, <2>2
<1>6. PICK f : Rests(f, b) /\ Extensions(b) = f[3]
  BY <1>5, ExtensionsAre
<1>7. 3 \in 1..(Len(b) + 1) /\ ~(Len(b) < 2)
  <2>1. Len(c) \in Nat
    BY <1>3, LenProperties
  <2>. QED  BY <1>5, <2>1, SMT
<1>8. f[3] = Ok(s)
  <2>1. \A i \in 1..(Len(b) + 1), r \in Seq(Extension) :
          From(b, i) = EncodeAll(r) => f[i] = Ok(r)
    BY <1>5, <1>6, AllRead
  <2>. QED  BY <1>2, <1>5, <1>7, <2>1, Zenon
<1>9. Extensions(b).ok = TRUE /\ Extensions(b).value = s
  <2>1. Extensions(b) = Ok(s)
    BY <1>6, <1>8
  <2>2. Ok(s).ok = TRUE /\ Ok(s).value = s
    BY Outcomes
  <2>. QED  BY <2>1, <2>2
<1>10. DecodeInfo(b) = Ok([version |-> SubSeq(b, 1, 2), extensions |-> s])
  BY <1>7, <1>9 DEF DecodeInfo
<1>11. DecodeBody("Info", b) = Ok(v)
  BY <1>1, <1>5, <1>10 DEF DecodeBody
<1>. QED  BY <1>4, <1>5, <1>11 DEF Readable

LEMMA InfoKept ==
  ASSUME NEW b \in Seq(Octet), NEW v, DecodeBody("Info", b) = Ok(v)
  PROVE  Kept("Info", b, v)
<1>1. Len(b) \in Nat
  BY LenProperties
<1>2. DecodeInfo(b) = Ok(v) /\ Ok(v).ok = TRUE /\ Ok(v).value = v
  BY Outcomes DEF DecodeBody
<1>3. PICK x : x = Extensions(b)
  OBVIOUS
<1>4. ~(Len(b) < 2) /\ x.ok
  <2>1. Len(b) < 2 => DecodeInfo(b) = Err("TooShort")
    BY DEF DecodeInfo
  <2>2. ~(Len(b) < 2)
    BY <1>2, <2>1, Outcomes
  <2>3. ~x.ok => DecodeInfo(b) = x
    BY <1>3, <2>2 DEF DecodeInfo
  <2>. QED  BY <1>2, <2>2, <2>3
<1>5. PICK g : g = [version |-> SubSeq(b, 1, 2), extensions |-> x.value]
  OBVIOUS
<1>6. v = g
  <2>1. DecodeInfo(b) = Ok(g)
    BY <1>3, <1>4, <1>5 DEF DecodeInfo
  <2>2. Ok(g).value = g
    BY Outcomes
  <2>. QED  BY <1>2, <2>1, <2>2
<1>7. v.version = SubSeq(b, 1, 2) /\ v.extensions = x.value
  BY <1>5, <1>6
<1>8. PICK f : Rests(f, b) /\ x = f[3]
  BY <1>3, ExtensionsAre
<1>9. 3 \in 1..(Len(b) + 1) /\ 2 <= Len(b)
  BY <1>1, <1>4, SMT
<1>10. EncodeAll(x.value) = From(b, 3)
  BY <1>4, <1>8, <1>9, AllKept
<1>11. /\ SubSeq(b, 1, 2) \in Seq(Octet) /\ Len(SubSeq(b, 1, 2)) = 2
       /\ From(b, 2 + 1) \in Seq(Octet) /\ b = SubSeq(b, 1, 2) \o From(b, 2 + 1)
  BY <1>9, TakenApart
<1>12. PICK r \in Seq(Octet) : r = From(b, 3)
  <2>1. 2 + 1 = 3
    OBVIOUS
  <2>. QED  BY <1>11, <2>1
<1>13. b = SubSeq(b, 1, 2) \o r
  <2>1. 2 + 1 = 3
    OBVIOUS
  <2>. QED  BY <1>11, <1>12, <2>1
<1>14. EncodeBody("Info", v) = Version \o r
  BY <1>7, <1>10, <1>12, InfoIs
<1>. QED  BY <1>7, <1>11, <1>13, <1>14 DEF Kept

LEMMA BodyReads ==
  ASSUME NEW t \in DOMAIN PacketType, NEW v \in BodyOf(t)
  PROVE  Readable(t, v)
BY TypesAre, ConnectReads, DataReads, ContinueReads, CloseReads, InfoReads

LEMMA BodyKept ==
  ASSUME NEW t \in DOMAIN PacketType, NEW b \in Seq(Octet), NEW v,
         DecodeBody(t, b) = Ok(v)
  PROVE  Kept(t, b, v)
BY TypesAre, ConnectKept, DataKept, ContinueKept, CloseKept, InfoKept

(* A body that is decoded is the value of an Ok.                           *)
LEMMA BodyIsOk ==
  ASSUME NEW t \in DOMAIN PacketType, NEW b \in Seq(Octet), DecodeBody(t, b).ok
  PROVE  \E v : DecodeBody(t, b) = Ok(v)
<1>0. \A e : Err(e).ok = FALSE
  BY Outcomes
<1>1. CASE t = "Connect"
  <2>1. DecodeBody(t, b) = DecodeConnect(b)
    BY <1>1 DEF DecodeBody
  <2>. QED  BY <2>1, ConnectIs
<1>2. CASE t = "Data"
  BY <1>2 DEF DecodeBody
<1>3. CASE t = "Continue"
  BY <1>0, <1>3 DEF DecodeBody
<1>4. CASE t = "Close"
  BY <1>0, <1>4 DEF DecodeBody
<1>5. CASE t = "Info"
  <2>1. DecodeBody(t, b) = DecodeInfo(b)
    BY <1>5 DEF DecodeBody
  <2>. QED  BY <1>0, <2>1 DEF DecodeInfo
<1>. QED  BY <1>1, <1>2, <1>3, <1>4, <1>5, TypesAre

-----------------------------------------------------------------------------
(* A packet, and what is decoded of what encodes it.                       *)
LEMMA DecodeEncode ==
  ASSUME NEW p, IsPacket(p)
  PROVE  Encode(p) \in Seq(Octet) /\ Decode(Encode(p)) = Ok(p)
<1>1. PICK t \in DOMAIN PacketType, d \in Word32 : t = p.type /\ d = p.id
  BY DEF IsPacket
<1>2. PICK v : v = p.body
  OBVIOUS
<1>3. p = [type |-> t, id |-> d, body |-> v] /\ v \in BodyOf(t)
  BY <1>1, <1>2 DEF IsPacket
<1>4. PICK c : c = EncodeBody(t, v)
  OBVIOUS
<1>5. c \in Seq(Octet) /\ DecodeBody(t, c) = Ok(v)
  BY <1>3, <1>4, BodyReads DEF Readable
<1>6. PICK w, x : w = Bytes4(d) /\ x = PacketType[t]
  OBVIOUS
<1>7. w \in Seq(Octet) /\ Len(w) = 4 /\ U32(w) = d
  BY <1>6, Word32Is, Bytes4Is, ReadWord32
<1>8. x \in Octet /\ The(Named(PacketType, x)) = t /\ Named(PacketType, x) # {}
  <2>1. x \in Octet /\ Named(PacketType, x) = {t}
    BY <1>6, TypesAre
  <2>2. The({t}) = t
    BY TheOnly
  <2>. QED  BY <2>1, <2>2
<1>9. PICK e : e = <<x>> \o w \o c
  OBVIOUS
<1>10. Encode(p) = e
  BY <1>3, <1>4, <1>6, <1>9 DEF Encode
<1>11. Header(e, 5, x, w, c)
  <2>1. 5 \in Nat /\ 5 >= 2 /\ 5 - 1 = 4
    OBVIOUS
  <2>. QED  BY <1>5, <1>7, <1>8, <1>9, <2>1, HeaderIs
<1>12. /\ e \in Seq(Octet) /\ ~(Len(e) < 5) /\ e[1] = x
       /\ SubSeq(e, 2, 5) = w /\ From(e, 5 + 1) = c
  <2>1. Len(e) \in Nat
    BY <1>11, LenProperties DEF Header
  <2>. QED  BY <1>11, <2>1 DEF Header
<1>13. Decode(e) = Ok([type |-> t, id |-> U32(w), body |-> v])
  <2>1. Ok(v).ok = TRUE /\ Ok(v).value = v
    BY Outcomes
  <2>. QED  BY <1>5, <1>8, <1>12, <2>1 DEF Decode, HeaderLen
<1>. QED  BY <1>3, <1>7, <1>10, <1>12, <1>13

(* What is decoded, and the bytes that said it.                            *)
Spells(v, b) ==
  LET e   == Encode(v)
      ver == IF v.type = "Info" THEN v.body.version ELSE <<>>
  IN  IF v.type \in {"Continue", "Close"} THEN IsPrefix(e, b)
      ELSE b = SubSeq(e, 1, HeaderLen) \o ver \o From(e, HeaderLen + Len(ver) + 1)

LEMMA Together ==
  ASSUME NEW a \in Seq(Octet), NEW x \in Seq(Octet), NEW c, c = a \o x
  PROVE  /\ c \in Seq(Octet) /\ Len(c) = Len(a) + Len(x)
         /\ SubSeq(c, 1, Len(a)) = a /\ From(c, Len(a) + 1) = x
BY PutTogether

LEMMA Regrouped ==
  ASSUME NEW a \in Seq(Octet), NEW x \in Seq(Octet), NEW c \in Seq(Octet)
  PROVE  (a \o x) \o c = a \o (x \o c) /\ x \o c \in Seq(Octet)
BY ConcatAssociative, ConcatProperties

LEMMA StartsWith ==
  ASSUME NEW a \in Seq(Octet), NEW x \in Seq(Octet)
  PROVE  IsPrefix(a, a \o x)
<1>1. PICK c : c = a \o x
  OBVIOUS
<1>2. Len(c) = Len(a) + Len(x) /\ SubSeq(c, 1, Len(a)) = a
  BY <1>1, PutTogether
<1>3. SubSeq(a, 1, Len(a)) = a /\ Len(a) <= Len(c)
  BY <1>2, SubSeqFull, LenProperties
<1>. QED  BY <1>1, <1>2, <1>3 DEF IsPrefix

LEMMA EncodeDecode ==
  ASSUME NEW b \in Seq(Octet), Decode(b).ok
  PROVE  Spells(Decode(b).value, b)
<1>1. Len(b) \in Nat /\ \A e : Err(e).ok = FALSE
  BY LenProperties, Outcomes
<1>2. ~(Len(b) < 5)
  BY <1>1 DEF Decode, HeaderLen
<1>3. Named(PacketType, b[1]) # {}
  BY <1>1, <1>2 DEF Decode, HeaderLen
<1>4. PICK t, c, y : /\ t = The(Named(PacketType, b[1])) /\ c = From(b, 5 + 1)
                     /\ y = DecodeBody(t, c)
  OBVIOUS
<1>5. t \in DOMAIN PacketType /\ PacketType[t] = b[1]
  BY <1>3, <1>4, TheName
<1>6. PICK w : w = SubSeq(b, 2, 5)
  OBVIOUS
<1>7. /\ b[1] \in Octet /\ w \in Seq(Octet) /\ Len(w) = 4 /\ c \in Seq(Octet)
      /\ b = <<b[1]>> \o w \o c
  <2>1. PICK h \in Nat : h = 5
    OBVIOUS
  <2>2. h >= 2 /\ h - 1 = 4 /\ Len(b) >= h
    BY <1>1, <1>2, <2>1, SMT
  <2>3. /\ b[1] \in Octet
        /\ SubSeq(b, 2, h) \in Seq(Octet) /\ Len(SubSeq(b, 2, h)) = h - 1
        /\ From(b, h + 1) \in Seq(Octet)
        /\ b = <<b[1]>> \o SubSeq(b, 2, h) \o From(b, h + 1)
    BY <2>2, HeaderOf
  <2>. QED  BY <1>4, <1>6, <2>1, <2>2, <2>3
<1>8. Decode(b) = IF ~y.ok THEN y ELSE Ok([type |-> t, id |-> U32(w), body |-> y.value])
  BY <1>2, <1>3, <1>4, <1>6 DEF Decode, HeaderLen
<1>9. PICK v : y = Ok(v)
  BY <1>4, <1>5, <1>7, <1>8, BodyIsOk
<1>10. PICK p : p = [type |-> t, id |-> U32(w), body |-> v]
  OBVIOUS
<1>11. Decode(b).value = p
  <2>1. y.ok = TRUE /\ y.value = v /\ Ok(p).value = p
    BY <1>9, Outcomes
  <2>. QED  BY <1>8, <1>10, <2>1
<1>12. p.type = t /\ p.id = U32(w) /\ p.body = v
  BY <1>10
<1>13. PICK top : top = <<b[1]>> \o w
  OBVIOUS
<1>14. top \in Seq(Octet) /\ Len(top) = 5 /\ b = top \o c
  <2>1. PICK a : a = <<b[1]>>
    OBVIOUS
  <2>2. a \in Seq(Octet) /\ Len(a) = 1
    BY <1>7, <2>1
  <2>3. a \o w \in Seq(Octet) /\ Len(a \o w) = Len(a) + Len(w)
    BY <1>7, <2>2, PutTogether
  <2>4. 1 + 4 = 5
    OBVIOUS
  <2>. QED  BY <1>7, <1>13, <2>1, <2>2, <2>3, <2>4
<1>15. PICK e : e = Encode(p)
  OBVIOUS
<1>16. e = top \o EncodeBody(t, v)
  <2>1. Bytes4(U32(w)) = w
    BY <1>7, WriteWord32
  <2>. QED  BY <1>5, <1>12, <1>13, <1>15, <2>1 DEF Encode
<1>17. Kept(t, c, v)
  BY <1>4, <1>5, <1>7, <1>9, BodyKept
<1>18. CASE t = "Info"
  <2>1. PICK x \in Seq(Octet) :
          /\ v.version \in Seq(Octet) /\ Len(v.version) = 2 /\ c = v.version \o x
          /\ EncodeBody(t, v) = Version \o x
    BY <1>17, <1>18 DEF Kept
  <2>2. PICK u \in Seq(Octet) : u = v.version
    BY <2>1
  <2>3. PICK h : h = top \o Version
    OBVIOUS
  <2>4. h \in Seq(Octet) /\ Len(h) = 7
    <3>1. 5 + 2 = 7
      OBVIOUS
    <3>2. PICK z \in Seq(Octet) : z = Version
      BY VersionIs
    <3>3. h \in Seq(Octet) /\ Len(h) = Len(top) + Len(z)
      BY <1>14, <2>3, <3>2, Together
    <3>. QED  BY <1>14, <3>1, <3>2, <3>3, VersionIs
  <2>5. e = h \o x /\ e = top \o (Version \o x)
    <3>1. (top \o Version) \o x = top \o (Version \o x)
      BY <1>14, VersionIs, Regrouped, SMTT(30)
    <3>. QED  BY <1>16, <2>1, <2>3, <3>1
  <2>6. From(e, 7 + 1) = x
    <3>1. From(e, Len(h) + 1) = x
      BY <2>4, <2>5, Together
    <3>. QED  BY <2>4, <3>1
  <2>7. SubSeq(e, 1, 5) = top
    <3>1. Version \o x \in Seq(Octet)
      BY VersionIs, Regrouped
    <3>2. PICK z \in Seq(Octet) : z = Version \o x
      BY <3>1
    <3>3. SubSeq(e, 1, Len(top)) = top
      BY <1>14, <2>5, <3>2, Together
    <3>. QED  BY <1>14, <3>3
  <2>8. b = top \o u \o x
    <3>1. (top \o u) \o x = top \o (u \o x)
      BY <1>14, Regrouped, SMTT(30)
    <3>. QED  BY <1>14, <2>1, <2>2, <3>1
  <2>9. Len(u) = 2 /\ 5 + 2 + 1 = 7 + 1
    BY <2>1, <2>2
  <2>10. b = SubSeq(e, 1, 5) \o u \o From(e, 5 + Len(u) + 1)
    BY <2>6, <2>7, <2>8, <2>9
  <2>. QED  BY <1>11, <1>12, <1>15, <1>18, <2>2, <2>10 DEF Spells, HeaderLen
<1>19. CASE t # "Info"
  <2>1. PICK x \in Seq(Octet) :
          /\ EncodeBody(t, v) \in Seq(Octet) /\ c = EncodeBody(t, v) \o x
          /\ t \notin {"Continue", "Close"} => x = <<>>
    BY <1>17, <1>19 DEF Kept
  <2>2. PICK k \in Seq(Octet) : k = EncodeBody(t, v)
    BY <2>1
  <2>3. b = e \o x
    <3>1. (top \o k) \o x = top \o (k \o x)
      BY <1>14, Regrouped, SMTT(30)
    <3>. QED  BY <1>14, <1>16, <2>1, <2>2, <3>1
  <2>4. e \in Seq(Octet) /\ SubSeq(e, 1, 5) = top /\ From(e, 5 + 1) = k
    <3>1. e \in Seq(Octet) /\ SubSeq(e, 1, Len(top)) = top /\ From(e, Len(top) + 1) = k
      BY <1>14, <1>16, <2>2, Together
    <3>. QED  BY <1>14, <3>1
  <2>5. CASE t \in {"Continue", "Close"}
    <3>1. IsPrefix(e, b)
      BY <2>3, <2>4, StartsWith
    <3>. QED  BY <1>11, <1>12, <1>15, <2>5, <3>1 DEF Spells
  <2>6. CASE t \notin {"Continue", "Close"}
    <3>1. b = top \o k
      BY <1>14, <2>1, <2>2, <2>6, ConcatEmptySeq
    <3>2. PICK u : u = <<>>
      OBVIOUS
    <3>3. top \o u = top /\ Len(u) = 0 /\ 5 + 0 + 1 = 5 + 1
      BY <1>14, <3>2, ConcatEmptySeq
    <3>4. b = SubSeq(e, 1, 5) \o u \o From(e, 5 + Len(u) + 1)
      BY <2>4, <3>1, <3>3
    <3>. QED  BY <1>11, <1>12, <1>15, <1>19, <2>6, <3>2, <3>4 DEF Spells, HeaderLen
  <2>. QED  BY <2>5, <2>6
<1>. QED  BY <1>18, <1>19

-----------------------------------------------------------------------------
(* What is on the wire is a packet's bytes, or other bytes; one step       *)
(* decodes them.                                                           *)
FrameInv ==
  talk.kind = "frame" =>
    /\ talk.said \in Packets /\ wire \in Seq(Octet)
    /\ at = "decode" \/ (at = "done" /\ out = Decode(wire))

LEMMA DamagedIs ==
  ASSUME NEW b \in Seq(Octet), NEW w \in Damaged(b)
  PROVE  w \in Seq(Octet)
<1>0. Noise \subseteq Octet /\ Len(b) \in Nat
  BY PacketsAssumption, LenProperties
<1>1. CASE w \in {SubSeq(b, 1, n) : n \in 0..(Len(b) - 1)}
  <2>1. PICK n \in 0..(Len(b) - 1) : w = SubSeq(b, 1, n)
    BY <1>1
  <2>2. n \in Nat /\ n <= Len(b)
    BY <1>0
  <2>. QED  BY <2>1, <2>2, StartIs
<1>2. CASE w \in {Append(b, x) : x \in Noise}
  BY <1>0, <1>2
<1>3. CASE w \in {[b EXCEPT ![n] = x] : n \in 1..Len(b), x \in Noise}
  BY <1>0, <1>3
<1>. QED  BY <1>1, <1>2, <1>3 DEF Damaged

LEMMA InitFrame == Init => FrameInv
<1>. SUFFICES ASSUME Init, talk.kind = "frame"
              PROVE  talk.said \in Packets /\ wire \in Seq(Octet) /\ at = "decode"
  BY DEF FrameInv
<1>1. FrameInit
  <2>1. HttpInit => \E x, y : talk = [kind |-> "http", said |-> x, cut |-> y]
    BY DEF HttpInit
  <2>2. UpgradeInit => \E x : talk = [kind |-> "ws", said |-> x]
    BY DEF UpgradeInit
  <2>3. ProxyInit => \E x, y : talk = [kind |-> "proxy", chain |-> x, host |-> y]
    BY DEF ProxyInit
  <2>. QED  BY <2>1, <2>2, <2>3 DEF Init, Reader
<1>2. PICK p \in Packets : /\ talk = [kind |-> "frame", said |-> p]
                           /\ wire \in {Encode(p)} \cup Damaged(Encode(p))
  BY <1>1 DEF FrameInit
<1>3. Encode(p) \in Seq(Octet)
  BY PacketsAssumption, DecodeEncode
<1>4. wire \in Seq(Octet)
  BY <1>2, <1>3, DamagedIs
<1>. QED  BY <1>1, <1>2, <1>4 DEF FrameInit

LEMMA StepFrame == FrameInv /\ [Next]_vars => FrameInv'
<1>. SUFFICES ASSUME FrameInv, [Next]_vars, talk.kind = "frame" PROVE FrameInv'
  BY TalkStays DEF FrameInv
<1>1. talk' = talk
  BY TalkStays
<1>2. CASE UNCHANGED vars
  BY <1>2 DEF vars, streamVars, FrameInv
<1>3. CASE FrameNext
  BY <1>1, <1>3 DEF FrameNext, Goto, FrameInv
<1>. QED  BY <1>2, <1>3 DEF Next

LEMMA FrameHolds == Spec => []FrameInv
<1>. QED  BY InitFrame, StepFrame, PTL DEF Spec

(* A packet of numbers that fit their widths, encoded by frame.rs, is      *)
(* decoded to the packet it was.                                           *)
THEOREM PacketsRoundTrip == Spec => []RoundTrip
<1>1. ASSUME FrameInv, Decoded, wire = Encode(talk.said) PROVE out = Ok(talk.said)
  <2>1. PICK p \in Packets : p = talk.said
    BY <1>1 DEF FrameInv, Decoded
  <2>2. Decode(Encode(p)) = Ok(p)
    BY PacketsAssumption, DecodeEncode
  <2>3. out = Decode(wire)
    BY <1>1 DEF FrameInv, Decoded
  <2>. QED  BY <1>1, <2>1, <2>2, <2>3
<1>2. FrameInv => RoundTrip
  BY <1>1 DEF RoundTrip
<1>. QED  BY <1>2, FrameHolds, PTL

(* Whatever happened to a packet on its way, one that decode_packet makes  *)
(* of the bytes that arrive is what they say: encoding it gives them back. *)
(* Of any bytes at all, EncodeDecode says the same.                        *)
THEOREM NothingIsInvented == Spec => []NothingInvented
<1>1. ASSUME FrameInv, Decoded, out.ok PROVE Spells(out.value, wire)
  <2>1. wire \in Seq(Octet) /\ out = Decode(wire)
    BY <1>1 DEF FrameInv, Decoded
  <2>. QED  BY <1>1, <2>1, EncodeDecode
<1>2. FrameInv => NothingInvented
  BY <1>1, Zenon DEF NothingInvented, Spells
<1>. QED  BY <1>2, FrameHolds, PTL
=============================================================================
