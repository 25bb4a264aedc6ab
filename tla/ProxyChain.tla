---------------------------- MODULE ProxyChain ----------------------------
(***************************************************************************)
(* apply_chain of drift-core/src/proxy/mod.rs with the negotiations of     *)
(* socks4.rs, socks5.rs and http_connect.rs.  The stream leads to the      *)
(* first proxy of the chain; a proxy that grants a CONNECT makes it lead   *)
(* further.  A step is a read, or what is done between two reads: the      *)
(* check of a reply and the next request.                                  *)
(***************************************************************************)
EXTENDS ByteStream

CONSTANTS
  Chains,     \* bound: sequences of hops, [kind, auth]
  ProxyRoom,  \* the length of tmp in negotiate_http_connect
  MaxReply    \* the 16 KiB its reply may take

ASSUME RoomAssumption == ProxyRoom \in Nat \ {0}

VARIABLES
  hop,  \* the proxy of the chain that is negotiated with
  ask,  \* the request that is to be answered
  far   \* where the stream leads: a place in the chain, or one past it

proxyVars == <<hop, ask, far>>

(* host: what the names of the next hops and the target are.               *)
ProxyInit ==
  /\ \E chain \in Chains, host \in {"ipv4", "name", "long"} :
       talk = [kind |-> "proxy", chain |-> chain, host |-> host]
  /\ wire = <<>> /\ ends = FALSE /\ at = "next" /\ buf = <<>>
  /\ need = 0 /\ out = <<>>
  /\ hop = 0 /\ ask = [what |-> "none", to |-> 0] /\ far = 1

Cur == talk.chain[hop]
Target == Len(talk.chain) + 1

-----------------------------------------------------------------------------
(* What is written asks for an answer of n bytes.  The address in it is    *)
(* that of the next hop, or of the target.  Mutant: of this one.           *)
OwnAddress == hop
NextAddress == hop + 1

Request(what, n) ==
  /\ ask' = [what |-> what, to |-> NextAddress] /\ Goto(what)
  /\ buf' = <<>> /\ need' = n
  /\ UNCHANGED <<talk, wire, ends, out, hop, far>>

ProxyFails == Fail /\ UNCHANGED proxyVars

(* The loop of apply_chain: the next proxy, or the tunnel is there.        *)
NextHop ==
  /\ at = "next" /\ buf' = <<>>
  /\ \/ hop = Len(talk.chain) /\ Goto("done") /\ UNCHANGED hop
     \/ hop < Len(talk.chain) /\ Goto("ask") /\ hop' = hop + 1
  /\ UNCHANGED <<talk, wire, ends, need, out, ask, far>>

Ask ==
  /\ at = "ask"
  /\ CASE Cur.kind = "socks5" -> Request("methods", 2)
       [] Cur.kind = "socks4" /\ talk.host # "ipv4" -> ProxyFails
       [] Cur.kind = "http" -> Request("connect", 0)
       [] OTHER -> Request("socks4", 8)

(* SOCKS5.  A host of more than 255 bytes is refused after the method.     *)
Socks5Connect ==
  IF talk.host = "long" THEN ProxyFails ELSE Request("socks5", 4)

Methods ==
  /\ at = "methods" /\ Len(buf) = need
  /\ CASE buf = <<"5", "noauth">> -> Socks5Connect
       [] buf = <<"5", "userpass">> /\ Cur.auth -> Request("auth", 2)
       [] OTHER -> ProxyFails

Auth ==
  /\ at = "auth" /\ Len(buf) = need
  /\ IF buf = <<"1", "0">> THEN Socks5Connect ELSE ProxyFails

(* The reply has an address and a port, as long as ATYP says.  Mutant: an  *)
(* IPv6 address is taken for an IPv4 one.                                  *)
Skip4(atyp) == IF atyp \in {"ipv4", "ipv6"} THEN 6 ELSE 0
Skip(atyp) == CASE atyp = "ipv4" -> 6 [] atyp = "ipv6" -> 18 [] OTHER -> 0

Skipping(place, n) ==
  /\ Goto(place) /\ need' = n /\ buf' = <<>>
  /\ UNCHANGED <<talk, wire, ends, out, proxyVars>>

Granted ==
  /\ Goto("next") /\ UNCHANGED <<talk, wire, ends, buf, need, out, proxyVars>>

Socks5 ==
  /\ at = "socks5" /\ Len(buf) = need
  /\ CASE buf[1] # "5" \/ buf[2] # "0" -> ProxyFails
       [] buf[1] = "5" /\ buf[2] = "0" /\ buf[4] \in {"ipv4", "ipv6"} ->
            Skipping("address", Skip(buf[4]))
       [] buf[1] = "5" /\ buf[2] = "0" /\ buf[4] = "domain" ->
            Skipping("length", 1)
       [] OTHER -> ProxyFails

Length ==
  /\ at = "length" /\ Len(buf) = need
  /\ Skipping("address", IF buf[1] = "2" THEN 2 + 2 ELSE 2)

Address == at = "address" /\ Len(buf) = need /\ Granted

Socks4 ==
  /\ at = "socks4" /\ Len(buf) = need
  /\ IF buf[1] = "0" /\ buf[2] = "5A" THEN Granted ELSE ProxyFails

(* HTTP CONNECT.  All of buf has to be UTF-8, what was read behind the     *)
(* head too, and is then gone.                                             *)
Connect ==
  /\ at = "connect" /\ Find(buf, Blank) # 0
  /\ IF "binary" \notin Range(buf) /\ buf[1] = "200" THEN Granted
     ELSE ProxyFails

ProxyReads ==
  /\ \/ at \in {"methods", "auth", "socks5", "length", "address", "socks4"}
        /\ ReadExact
     \/ at = "connect" /\ ReadHead(ProxyRoom, MaxReply)
  /\ UNCHANGED proxyVars

ProxyClient ==
  \/ NextHop \/ Ask \/ Methods \/ Auth \/ Socks5 \/ Length \/ Address
  \/ Socks4 \/ Connect \/ ProxyReads

-----------------------------------------------------------------------------
(* The proxies: each answers what it is asked, or hangs up.                *)
Zeros(n) == [k \in 1..n |-> "0"]
Bound == {<<"ipv4">> \o Zeros(6), <<"ipv6">> \o Zeros(18),
          <<"domain", "2">> \o Zeros(4), <<"domain", "0">> \o Zeros(2),
          <<"other">>}

Grants(what) ==
  CASE what = "socks4" -> {<<"0", "5A">> \o Zeros(6)}
    [] what = "socks5" -> {<<"5", "0", "0">> \o bound : bound \in Bound}
    [] what = "connect" -> {<<"200">> \o CrLf \o <<"h">> \o Blank}
    [] OTHER -> {}
Answers(what) ==
  CASE what = "methods" -> {<<"5", m>> : m \in {"noauth", "userpass", "none"}}
    [] what = "auth" -> {<<"1", "0">>, <<"1", "1">>}
    [] what = "socks4" -> {<<"0", "5B">> \o Zeros(6)}
    [] what = "socks5" -> {<<"5", "1", "0", "ipv4">> \o Zeros(6)}
    [] what = "connect" -> {<<"403">> \o Blank}

Answer ==
  /\ ask.what # "none" /\ ~ends
  /\ \/ \E reply \in Grants(ask.what) : wire' = wire \o reply /\ far' = ask.to
     \/ \E reply \in Answers(ask.what) : wire' = wire \o reply /\ UNCHANGED far
  /\ ask' = [what |-> "none", to |-> 0]
  /\ UNCHANGED <<talk, ends, at, buf, need, out, hop>>

ProxyHangsUp ==
  /\ ~ends /\ ends' = TRUE
  /\ UNCHANGED <<talk, wire, at, buf, need, out, proxyVars>>

ProxyNext == ProxyClient \/ Answer \/ ProxyHangsUp

-----------------------------------------------------------------------------
(* Properties.                                                             *)

(* A request goes to the proxy it is meant for: all those before it have   *)
(* led the stream on, each to the next.                                    *)
AsksFarEnd == talk.kind = "proxy" /\ ask.what # "none" => far = hop

(* When apply_chain returns Ok the stream is a tunnel to the target, and   *)
(* no byte of a proxy's reply is left for the first bytes of the target.   *)
TunnelIsClean ==
  talk.kind = "proxy" /\ at = "done" => far = Target /\ wire = <<>>
=============================================================================
