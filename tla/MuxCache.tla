------------------------------ MODULE MuxCache ------------------------------
(***************************************************************************)
(* The shared connection of the browser bindings: ConnectionState of       *)
(* drift-wasm/src/libcurl.rs, with ensure_mux, set_websocket and           *)
(* set_moonbeam_relay.  WispClientJs::ensure_connected of client.rs is the *)
(* same code without the setters (MaxSets = 0).                            *)
(*                                                                         *)
(* Everything runs on one thread; a step is what runs between two awaits.  *)
(* The Wisp servers and the MoonBeam relay are external.                   *)
(***************************************************************************)
EXTENDS Naturals, Sequences

CONSTANTS
  Caller,    \* concurrent calls of fetch
  Url, Port, \* Wisp server URLs, and the ports relay.attach() hands out
  None,      \* Option::None
  FirstUrl,  \* the URL set before the first call
  MaxMux,    \* bound: muxes built
  MaxSets    \* bound: further calls of the setters

ASSUME ConstantsAssumption ==
  /\ FirstUrl \in Url /\ Url \cap Port = {} /\ None \notin Url \cup Port
  /\ MaxMux \in Nat /\ MaxSets \in Nat

VARIABLES
  \* ConnectionState
  wispUrl, moonbeamPort,
  cache,     \* the RefCell "mux": the number of a mux, 0 for None
  \* the muxes built so far, each over a transport of its own
  muxes,     \* target, whether the handshake is over, Len(sets) when built,
             \* and history: the muxes that were being built then (amid)
  inbox,     \* handshake packets received and not yet read by each mux
  listener,  \* port -> the mux whose transport set onmessage last, or 0
  greeted,   \* the ports and muxes the other end has sent its first packet
  \* the calls: where each is, the mux it builds or uses, Len(sets) then
  pc, mine, started,
  \* history: the targets set, in order; whether no call was building a mux
  \* when the last one was set
  sets, quiet

confVars == <<wispUrl, moonbeamPort, cache>>
muxVars  == <<muxes, inbox, listener, greeted>>
callVars == <<pc, mine, started>>
setVars  == <<sets, quiet>>
vars == <<confVars, muxVars, callVars, setVars>>

Init ==
  /\ wispUrl = FirstUrl /\ moonbeamPort = None /\ cache = 0
  /\ muxes = <<>> /\ inbox = <<>>
  /\ listener = [p \in Port |-> 0] /\ greeted = {}
  /\ pc = [c \in Caller |-> "idle"] /\ mine = [c \in Caller |-> 0]
  /\ started = [c \in Caller |-> 0]
  /\ sets = <<FirstUrl>> /\ quiet = TRUE

Building == {mine[c] : c \in {d \in Caller : pc[d] \notin {"idle", "use"}}}

-----------------------------------------------------------------------------
(* The setters drop the cached mux, so that the next call builds its own.  *)
(* Mutant: they do not.                                                    *)
KeepMux == UNCHANGED cache
Invalidate == cache' = 0

SetWebsocket(u) ==
  /\ Len(sets) <= MaxSets
  /\ wispUrl' = u /\ Invalidate
  /\ sets' = Append(sets, u) /\ quiet' = (Building = {})
  /\ UNCHANGED <<moonbeamPort, muxVars, callVars>>

(* attach() opens a new port; when it fails nothing changes.               *)
SetMoonbeamRelay(p) ==
  /\ Len(sets) <= MaxSets
  /\ p \notin {sets[k] : k \in 1..Len(sets)}
  /\ moonbeamPort' = p /\ Invalidate /\ wispUrl' = None
  /\ sets' = Append(sets, p) /\ quiet' = (Building = {})
  /\ UNCHANGED <<muxVars, callVars>>

-----------------------------------------------------------------------------
(* ensure_mux                                                              *)

(* The call goes on to its mux m in the given place.                       *)
Goto(c, place, m) ==
  /\ pc' = [pc EXCEPT ![c] = place] /\ mine' = [mine EXCEPT ![c] = m]

UseCached(c) ==
  /\ pc[c] = "idle" /\ cache # 0
  /\ Goto(c, "use", cache)
  /\ started' = [started EXCEPT ![c] = Len(sets)]
  /\ UNCHANGED <<confVars, muxVars, setVars>>

(* A relay set earlier comes before a URL, set later or not; a URL that is *)
(* not set is an error.                                                    *)
Target == IF moonbeamPort # None THEN moonbeamPort ELSE wispUrl

(* MessagePortTransport::new replaces the onmessage handler of the port.   *)
Build(c) ==
  /\ pc[c] = "idle" /\ cache = 0 /\ Len(muxes) < MaxMux
  /\ muxes' = Append(muxes, [target |-> Target, up |-> FALSE,
                             born |-> Len(sets), amid |-> Building])
  /\ inbox' = Append(inbox, <<>>)
  /\ started' = [started EXCEPT ![c] = Len(sets)]
  /\ \/ /\ Target \in Port
        /\ listener' = [listener EXCEPT ![Target] = Len(muxes')]
        /\ Goto(c, "hello", Len(muxes'))
     \/ /\ Target \notin Port /\ UNCHANGED listener
        /\ Goto(c, "connect", Len(muxes'))
  /\ UNCHANGED <<confVars, greeted, setVars>>

Connected(c) ==
  /\ pc[c] = "connect"
  /\ Goto(c, "hello", mine[c])
  /\ UNCHANGED <<confVars, muxVars, started, setVars>>

(* The call returns its error: the connection fails, or a frame for a      *)
(* stream comes instead of a handshake packet.  Over a port that happens   *)
(* when an earlier mux of the same port still has streams.                 *)
FramesFrom(m) ==
  \/ muxes[m].target \in Url
  \/ \E n \in 1..Len(muxes) :
       /\ muxes[m].target \in Port /\ n # m /\ muxes[n].up /\ muxes[n].target = muxes[m].target
       /\ listener[muxes[m].target] = m

Fail(c) ==
  /\ pc[c] \in {"connect", "hello", "continue"}
  /\ FramesFrom(mine[c])
  /\ Goto(c, "idle", 0)
  /\ UNCHANGED <<confVars, muxVars, started, setVars>>

(* The mux is stored, whatever has been set or stored since the call       *)
(* looked.  Mutant: it is returned and not stored.                         *)
NotStored(m) == UNCHANGED cache
Store(m) == cache' = m

(* The handshake is over: the pump is spawned and the mux is stored.       *)
Establish(c) ==
  /\ muxes' = [muxes EXCEPT ![mine[c]].up = TRUE]
  /\ Store(mine[c])
  /\ Goto(c, "use", mine[c])

(* Who gets what the other end of mux m sends to it.                       *)
Receiver(m) ==
  IF muxes[m].target \in Port THEN listener[muxes[m].target] ELSE m

(* Reads the next packet; an answer, if any, comes from the other end.     *)
Read(m, answer) ==
  LET rest == [inbox EXCEPT ![m] = Tail(@)]
  IN  inbox' = [rest EXCEPT ![Receiver(m)] = @ \o answer]

(* run_handshake: CONTINUE first means a v1 server; INFO is answered with  *)
(* an INFO, which the other end answers with its CONTINUE.  Mutant: the    *)
(* mux is published as soon as the server has said INFO.                   *)
PublishOnInfo(c) ==
  /\ Goto(c, "continue", mine[c]) /\ Store(mine[c]) /\ UNCHANGED muxes
OnInfo(c) ==
  /\ Goto(c, "continue", mine[c]) /\ UNCHANGED <<muxes, cache>>

RecvHello(c) ==
  /\ pc[c] = "hello" /\ inbox[mine[c]] # <<>>
  /\ \/ /\ Head(inbox[mine[c]]) = "Continue"
        /\ Establish(c) /\ Read(mine[c], <<>>)
     \/ /\ Head(inbox[mine[c]]) = "Info"
        /\ OnInfo(c) /\ Read(mine[c], <<"Continue">>)
  /\ UNCHANGED <<wispUrl, moonbeamPort, listener, greeted, started, setVars>>

RecvContinue(c) ==
  /\ pc[c] = "continue" /\ inbox[mine[c]] # <<>>
  /\ Establish(c) /\ Read(mine[c], <<>>)
  /\ UNCHANGED <<wispUrl, moonbeamPort, listener, greeted, started, setVars>>

(* The request is done, and the call returns.                              *)
Done(c) ==
  /\ pc[c] = "use"
  /\ Goto(c, "idle", 0)
  /\ UNCHANGED <<confVars, muxVars, started, setVars>>

(* The other end greets, once for each connection and once for each port   *)
(* (external): INFO, or CONTINUE from a v1 server.                         *)
Greet(m) ==
  LET peer == IF muxes[m].target \in Port THEN muxes[m].target ELSE m
  IN  /\ peer \notin greeted
      /\ muxes[m].target \in Port \/ \E c \in Caller : pc[c] = "hello" /\ mine[c] = m
      /\ greeted' = greeted \cup {peer}
      /\ \E p \in {"Info", "Continue"} :
           inbox' = [inbox EXCEPT ![Receiver(m)] = Append(@, p)]
      /\ UNCHANGED <<confVars, muxes, listener, callVars, setVars>>

Next ==
  \/ \E u \in Url : SetWebsocket(u)
  \/ \E p \in Port : SetMoonbeamRelay(p)
  \/ \E c \in Caller :
       \/ UseCached(c) \/ Build(c) \/ Connected(c) \/ Fail(c)
       \/ RecvHello(c) \/ RecvContinue(c) \/ Done(c)
  \/ \E m \in 1..Len(muxes) : Greet(m)

Spec == Init /\ [][Next]_vars

-----------------------------------------------------------------------------
(* Properties.                                                             *)

(* The types.  Besides: a call in ensure_mux always has something to       *)
(* connect to, and a call has a mux exactly while it is under way.         *)
Mux == [target : Url \cup Port, up : BOOLEAN, born : Nat, amid : SUBSET Nat]
TypeOK ==
  /\ wispUrl \in Url \cup {None} /\ moonbeamPort \in Port \cup {None}
  /\ moonbeamPort = None => wispUrl \in Url
  /\ sets \in Seq(Url \cup Port) /\ sets # <<>> /\ quiet \in BOOLEAN
  /\ muxes \in Seq(Mux) /\ cache \in 0..Len(muxes)
  /\ pc \in [Caller -> {"idle", "connect", "hello", "continue", "use"}]
  /\ mine \in [Caller -> 0..Len(muxes)]
  /\ started \in [Caller -> 0..Len(sets)]
  /\ \A c \in Caller : mine[c] = 0 <=> pc[c] = "idle"
  /\ \A m \in 1..Len(muxes) : muxes[m].born <= Len(sets)

(* A call never gets, and the cell never holds, a mux whose handshake is   *)
(* not over, even when several calls build muxes over the same port.       *)
UsedMuxIsUp ==
  /\ cache # 0 => muxes[cache].up
  /\ \A c \in Caller : pc[c] = "use" => muxes[mine[c]].up

(* "After calling this, all subsequent fetch/HTTPSession/etc. calls on     *)
(* this LibCurl instance route through the relay.": so they do, also while *)
(* they overlap, unless a call was building a mux when the relay was set.  *)
RelayTaken ==
  LET last == sets[Len(sets)] IN
  \A c \in Caller :
    quiet /\ pc[c] = "use" /\ started[c] = Len(sets) /\ last \in Port
      => muxes[mine[c]].target = last

(* "reused across requests so a single wisp WebSocket + mux serves many    *)
(* concurrent fetches/streams": two muxes that are up under the same       *)
(* setting were being built at the same time.                              *)
SingleMux ==
  \A m, n \in 1..Len(muxes) :
    m < n /\ muxes[m].up /\ muxes[n].up /\ muxes[m].born = muxes[n].born
      => m \in muxes[n].amid
=============================================================================
