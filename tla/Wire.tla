-------------------------------- MODULE Wire --------------------------------
(***************************************************************************)
(* What the client reads off a byte stream: an HTTP/1.1 response, the      *)
(* replies of a chain of proxies, the answer to a WebSocket upgrade, and a *)
(* message of the Wisp transport.  A behaviour is one of these.            *)
(***************************************************************************)
EXTENDS Http1, ProxyChain, WsUpgrade, Frame

vars == <<streamVars, proxyVars>>

Reader == HttpInit \/ UpgradeInit \/ FrameInit

Init ==
  \/ Reader /\ hop = 0 /\ ask = [what |-> "none", to |-> 0] /\ far = 1
  \/ ProxyInit

Next ==
  \/ talk.kind = "http" /\ HttpNext /\ UNCHANGED proxyVars
  \/ talk.kind = "ws" /\ Upgrade /\ UNCHANGED proxyVars
  \/ talk.kind = "frame" /\ FrameNext /\ UNCHANGED proxyVars
  \/ talk.kind = "proxy" /\ ProxyNext

Spec == Init /\ [][Next]_vars
=============================================================================
