----------------------------- MODULE WsUpgrade -----------------------------
(***************************************************************************)
(* WebSocketConn::connect of drift-core/src/ws.rs: the upgrade request and *)
(* its answer, up to where the stream goes to fastwebsockets.  A server    *)
(* may send frames right behind the answer.  The first byte of a frame     *)
(* with FIN is no UTF-8 ("fin"), that of a fragment is ("part").           *)
(***************************************************************************)
EXTENDS ByteStream

CONSTANTS
  WsRoom,     \* the length of tmp
  MaxUpgrade, \* the 16 KiB the answer may take
  Upgrades    \* bound: [status, accepts, frames] that servers answer

(* A head is lines, none of them empty; frames begin with that first byte. *)
HeadLine == {l \in Seq(STRING) : l # <<>> /\ "CR" \notin Range(l)}

ASSUME UpgradesAssumption ==
  /\ WsRoom \in Nat \ {0}
  /\ Upgrades \subseteq [status : STRING \ {"CR"}, accepts : Seq(HeadLine),
                          frames : Seq(STRING)]
  /\ \A u \in Upgrades : u.frames = <<>> \/ u.frames[1] \in {"fin", "part"}

UpgradeInit ==
  /\ \E u \in Upgrades :
       /\ talk = [kind |-> "ws", said |-> u]
       /\ wire = Lines(<<<<u.status>>>> \o u.accepts) \o u.frames
  /\ ends \in BOOLEAN /\ at = "upgrade" /\ buf = <<>>
  /\ need = 0 /\ out = <<>>

(* The value of the last Sec-WebSocket-Accept in all that was read.        *)
LastAccept(bytes) ==
  LET ns == {n \in 2..Len(bytes) : bytes[n - 1] = "accept"} IN
  IF ns = {} THEN "none" ELSE bytes[CHOOSE n \in ns : \A m \in ns : m <= n]

(* Mutant: bytes that are no text are replaced.                            *)
Lossy(bytes) == TRUE
IsText(bytes) == "fin" \notin Range(bytes)
Accepts(bytes) == bytes[1] = "101" /\ LastAccept(bytes) = "hash"

Upgrade ==
  /\ at = "upgrade"
  /\ \/ ReadHead(WsRoom, MaxUpgrade)
     \/ /\ Find(buf, Blank) # 0
        /\ IF IsText(buf) /\ Accepts(buf)
             THEN Goto("done") /\ UNCHANGED <<talk, wire, ends, buf, need, out>>
             ELSE Fail

-----------------------------------------------------------------------------
(* Properties.                                                             *)

(* A connection that opens has not lost a frame: what was read behind the  *)
(* answer is dropped, but then it was no text and the upgrade has failed.  *)
(* Only a first message in fragments gets through that, and is lost.       *)
OpensWithAllFrames ==
  talk.kind = "ws" /\ at = "done" /\ "part" \notin Range(talk.said.frames) =>
    wire = talk.said.frames
=============================================================================
