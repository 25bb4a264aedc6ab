------------------------------- MODULE MCWire -------------------------------
(* An instance of Wire for TLC.                                            *)
EXTENDS Wire

Te == <<"te", "chunked">>
Cl(n) == <<"cl", n>>

(* A head that is too long.                                                *)
Long == [n \in 1..5 |-> <<"h", "v">>]

(* Every framing, with lengths that are right, too long, too short or no   *)
(* numbers; bodies that look like delimiters; bodies at the limit of 2 and *)
(* past it in one chunk and in two.                                        *)
MCResponses ==
  [status : {"ok"}, headers : {<<Te>>, <<Cl("2"), Te>>, <<<<"te", "gzip">>>>},
   chunks : {<<>>, <<<<"CR", "LF">>>>, <<<<"a">>, <<"0">>>>,
             <<<<"a", "b">>, <<"c">>>>, <<<<"a", "b", "c">>>>},
   ext : BOOLEAN, trailer : BOOLEAN, extra : {<<>>, <<"CR", "LF", "y">>}]
  \cup
  {[status |-> s, headers |-> <<Cl(Digits[Len(b) + 1])>>, chunks |-> <<b>>,
    ext |-> FALSE, trailer |-> FALSE, extra |-> e] :
     s \in {"ok", "junk"}, e \in {<<>>, <<"y", "z">>},
     b \in {<<>>, <<"CR", "LF">>, <<"a", "b", "c">>}}
  \cup
  [status : {"ok"}, headers : {<<>>, <<Cl("x")>>},
   chunks : {<<>>, <<<<"a">>>>, <<<<"a", "b", "c">>>>},
   ext : {FALSE}, trailer : {FALSE}, extra : {<<>>}]
  \cup
  {[status |-> "ok", headers |-> Long, chunks |-> <<>>, ext |-> FALSE,
    trailer |-> FALSE, extra |-> <<>>]}

Hops == [kind : {"socks4", "socks4a", "socks5", "http"}, auth : BOOLEAN]
MCChains == {<<>>} \cup {<<h>> : h \in Hops} \cup (Hops \X Hops)

MCUpgrades ==
  [status : {"101", "200"},
   accepts : {<<>>, <<<<"accept", "hash">>>>,
              <<<<"accept", "other">>, <<"accept", "hash">>>>, Long},
   frames : {<<>>, <<"fin", "a">>, <<"part", "a", "fin", "b">>}]

Ext(n, m) == [id |-> n, metadata |-> m]
Packet(t, n, b) == [type |-> t, id |-> n, body |-> b]

MCPackets ==
  {Packet("Connect", 1, [stream |-> t, port |-> n, host |-> h]) :
     t \in {"Tcp", "Udp"}, n \in {80, 443, 65535}, h \in {<<>>, <<104, 105>>}}
  \cup {Packet("Data", n, b) : n \in {1, 256, 2147483647},
                               b \in {<<>>, <<0, 200>>}}
  \cup {Packet("Continue", 1, n) : n \in {0, 127, 65536}}
  \cup {Packet("Close", 3, Reason(b)) : b \in {0, 2, 65, 69, 194, 255}}
  \cup {Packet("Info", 0, [version |-> Version, extensions |-> xs]) :
          xs \in {<<>>, <<Ext(1, <<>>)>>, <<Ext(2, <<7, 0>>)>>,
                  <<Ext(3, <<1, 2, 3>>), Ext(9, <<5>>)>>}}
=============================================================================
