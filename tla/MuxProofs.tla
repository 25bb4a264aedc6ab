------------------------------ MODULE MuxProofs ------------------------------
(***************************************************************************)
(* Proofs about Mux, for any number of tasks, streams and packets.         *)
(***************************************************************************)
EXTENDS Mux, FiniteSetTheorems, SequenceTheorems, TLAPS

(* The head of the queue is a packet, of the type its tag says.            *)
LEMMA HeadIsPacket ==
  ASSUME TypeOK, toClient # <<>>
  PROVE  /\ Tail(toClient) \in Seq(Packet)
         /\ Head(toClient) \in Packet
         /\ Head(toClient).type = "Continue" =>
              Head(toClient).val \in 0..MaxU32
         /\ Head(toClient).type = "Data" =>
              Head(toClient).id \in Id /\ Head(toClient).val \in Nat
<1>1. toClient \in Seq(Packet)
  BY DEF TypeOK, NetTypeOK
<1>2. Head(toClient) \in Packet /\ Tail(toClient) \in Seq(Packet)
  BY <1>1
<1> QED
  BY <1>2, ConstantsAssumption DEF Packet

(* The groups of variables a step leaves alone keep their types.           *)
LEMMA Untouched ==
  ASSUME TypeOK
  PROVE  /\ UNCHANGED muxVars  => MuxTypeOK'
         /\ UNCHANGED taskVars => TaskTypeOK'
         /\ UNCHANGED pumpVars => PumpTypeOK'
         /\ UNCHANGED readVars => ReadTypeOK'
         /\ UNCHANGED netVars  => NetTypeOK'
         /\ UNCHANGED histVars => HistTypeOK'
<1> USE DEF TypeOK
<1>1. UNCHANGED muxVars  => MuxTypeOK'  BY DEF muxVars, MuxTypeOK
<1>2. UNCHANGED taskVars => TaskTypeOK' BY DEF taskVars, TaskTypeOK
<1>3. UNCHANGED pumpVars => PumpTypeOK' BY DEF pumpVars, PumpTypeOK
<1>4. UNCHANGED readVars => ReadTypeOK' BY DEF readVars, ReadTypeOK
<1>5. UNCHANGED netVars  => NetTypeOK'  BY DEF netVars, NetTypeOK
<1>6. UNCHANGED histVars => HistTypeOK' BY DEF histVars, HistTypeOK
<1> QED
  BY <1>1, <1>2, <1>3, <1>4, <1>5, <1>6

(* Frames handed to the transport keep the server's views of the streams.  *)
LEMMA TransmitType ==
  ASSUME TypeOK, NEW i \in Id, NEW t \in {"Connect", "Data", "Close"},
         Transmit(i, t), UNCHANGED <<toClient, link, srvPhase, srvSent, srvGrants>>
  PROVE  NetTypeOK'
<1>1. ServerView(srv[i], t) \in View
  BY DEF TypeOK, NetTypeOK, ServerView, View
<1>2. srv' \in [Id -> View]
  BY <1>1 DEF TypeOK, NetTypeOK, Transmit
<1> QED
  BY <1>2 DEF TypeOK, NetTypeOK

(* A packet the server pushes leaves a queue of packets.                   *)
LEMMA PushType ==
  ASSUME TypeOK, NEW p \in Packet, Push(p)
  PROVE  toClient' \in Seq(Packet)
BY DEF TypeOK, NetTypeOK, Push

-----------------------------------------------------------------------------
(* Every step of the pump keeps every variable in its type.                *)
LEMMA PumpType == TypeOK /\ Pump => TypeOK'
<1> SUFFICES ASSUME TypeOK, Pump PROVE TypeOK'
  OBVIOUS
<1>1. CASE RecvHello \/ RecvContinue
  <2>1. UNCHANGED taskVars /\ UNCHANGED readVars /\ UNCHANGED histVars
    BY <1>1 DEF RecvHello, RecvContinue
  <2>2. NetTypeOK'
    BY <1>1, HeadIsPacket DEF RecvHello, RecvContinue, TypeOK, NetTypeOK
  <2>3. MuxTypeOK'
    BY <1>1, HeadIsPacket DEF RecvHello, RecvContinue, Establish, TypeOK,
       MuxTypeOK
  <2>4. PumpTypeOK'
    BY <1>1 DEF RecvHello, RecvContinue, Establish, TypeOK, PumpTypeOK
  <2> QED
    BY <2>1, <2>2, <2>3, <2>4, Untouched DEF TypeOK
<1>2. CASE SendInfo \/ RecvFails
  <2>1. PumpTypeOK'
    BY <1>2 DEF SendInfo, RecvFails, TypeOK, PumpTypeOK
  <2>2. /\ UNCHANGED muxVars /\ UNCHANGED taskVars /\ UNCHANGED readVars
        /\ UNCHANGED netVars /\ UNCHANGED histVars
    BY <1>2 DEF SendInfo, RecvFails
  <2> QED
    BY <2>1, <2>2, Untouched DEF TypeOK
<1>3. CASE Dispatch
  <2> DEFINE p == Head(toClient)
  <2>1. UNCHANGED taskVars /\ UNCHANGED readVars
    BY <1>3 DEF Dispatch
  <2>2. NetTypeOK'
    BY <1>3, HeadIsPacket DEF Dispatch, TypeOK, NetTypeOK
  <2>3. PICK q : q = p /\ (DispatchData(q) \/ DispatchContinue(q)
                           \/ DispatchClose(q) \/ DispatchOther(q))
    BY <1>3 DEF Dispatch
  <2>4. /\ q.type = "Continue" => q.val \in 0..MaxU32
        /\ q.type = "Data" => q.val \in Nat
    BY <1>3, <2>3, HeadIsPacket DEF Dispatch
  <2> HIDE DEF p
  <2>5. MuxTypeOK'
    <3>1. UNCHANGED <<handshake, nextId, initialCredit, kind>>
      BY <1>3 DEF Dispatch
    <3>2. streams' \subseteq Id
      BY <2>3 DEF DispatchData, DispatchContinue, DispatchClose,
         DispatchOther, RemoveEntry, TypeOK, MuxTypeOK
    <3>3. credit' \in [Id -> 0..MaxU32]
      BY <2>3, <2>4 DEF DispatchData, DispatchContinue, DispatchClose,
         DispatchOther, TypeOK, MuxTypeOK
    <3> QED
      BY <3>1, <3>2, <3>3 DEF TypeOK, MuxTypeOK
  <2>6. PumpTypeOK'
    <3>1. streams \subseteq Id /\ Id \subseteq 0..MaxU32
      BY ConstantsAssumption DEF TypeOK, MuxTypeOK, Id
    <3>2. ppc = "recv"
      BY <1>3 DEF Dispatch
    <3> QED
      BY <2>3, <2>4, <3>1, <3>2 DEF DispatchData, DispatchContinue,
         DispatchClose, DispatchOther, ToWake, pumpVars, TypeOK, PumpTypeOK
  <2>7. HistTypeOK'
    <3>1. UNCHANGED <<wire, cut>>
      BY <1>3 DEF Dispatch
    <3>2. granted' \in [Id -> Nat]
      BY <2>3, <2>4, ConstantsAssumption DEF DispatchData, DispatchContinue,
         DispatchClose, DispatchOther, TypeOK, HistTypeOK
    <3> QED
      BY <3>1, <3>2 DEF TypeOK, HistTypeOK
  <2> QED
    BY <2>1, <2>2, <2>5, <2>6, <2>7, Untouched DEF TypeOK
<1>4. CASE Deliver
  <2>1. /\ UNCHANGED muxVars /\ UNCHANGED taskVars /\ UNCHANGED netVars
        /\ UNCHANGED histVars
    BY <1>4 DEF Deliver
  <2>2. PumpTypeOK' /\ ReadTypeOK'
    BY <1>4, ConstantsAssumption DEF Deliver, TypeOK, PumpTypeOK, ReadTypeOK
  <2> QED
    BY <2>1, <2>2, Untouched DEF TypeOK
<1>5. CASE Wake
  <2>1. /\ UNCHANGED muxVars /\ UNCHANGED readVars /\ UNCHANGED netVars
        /\ UNCHANGED histVars
    BY <1>5 DEF Wake
  <2>2. PumpTypeOK'
    BY <1>5, ConstantsAssumption DEF Wake, TypeOK, PumpTypeOK
  <2>3. TaskTypeOK'
    BY <1>5 DEF Wake, IsWaiter, WaitersNow, TypeOK, TaskTypeOK
  <2> QED
    BY <2>1, <2>2, <2>3, Untouched DEF TypeOK
<1> QED
  BY <1>1, <1>2, <1>3, <1>4, <1>5 DEF Pump

(* Every step of a task keeps every variable in its type.                  *)
LEMMA CallType ==
  ASSUME TypeOK, NEW c \in Caller, Call(c)
  PROVE  TypeOK'
<1> USE DEF TypeOK
<1>a. sid[c] \in 0..MaxU32 /\ (pc[c] # "idle" => sid[c] \in Id)
  BY DEF TaskTypeOK
<1>b. Return(c) /\ (returned' \subseteq Id) => TaskTypeOK'
  BY ConstantsAssumption DEF Return, TaskTypeOK
<1>1. CASE OpenAlloc(c)
  <2>1. /\ UNCHANGED pumpVars /\ UNCHANGED readVars /\ UNCHANGED netVars
        /\ UNCHANGED histVars
    BY <1>1 DEF OpenAlloc
  <2>2. nextId \in Id /\ nextId + 1 \in Id
    BY <1>1, ConstantsAssumption DEF OpenAlloc, MuxTypeOK, Id
  <2>3. MuxTypeOK'
    BY <1>1, <2>2 DEF OpenAlloc, MuxTypeOK
  <2>4. TaskTypeOK'
    BY <1>1, <2>2 DEF OpenAlloc, TaskTypeOK, Id
  <2> QED
    BY <2>1, <2>3, <2>4, Untouched
<1>2. CASE OpenInsert(c)
  <2>1. UNCHANGED pumpVars /\ UNCHANGED readVars /\ UNCHANGED netVars
    BY <1>2 DEF OpenInsert
  <2>2. sid[c] \in Id
    BY <1>2, <1>a DEF OpenInsert
  <2>3. MuxTypeOK'
    BY <1>2, <2>2, ConstantsAssumption DEF OpenInsert, MuxTypeOK
  <2>4. TaskTypeOK'
    BY <1>2, <2>2 DEF OpenInsert, TaskTypeOK
  <2>5. HistTypeOK'
    BY <1>2, <2>2, ConstantsAssumption DEF OpenInsert, HistTypeOK, MuxTypeOK
  <2> QED
    BY <2>1, <2>3, <2>4, <2>5, Untouched
<1>3. CASE OpenConnect(c) \/ CloseSend(c)
  <2>1. /\ UNCHANGED muxVars /\ UNCHANGED pumpVars /\ UNCHANGED readVars
        /\ UNCHANGED histVars
    BY <1>3 DEF OpenConnect, CloseSend
  <2>2. sid[c] \in Id
    BY <1>3, <1>a DEF OpenConnect, CloseSend
  <2>3. NetTypeOK'
    BY <1>3, <2>2, TransmitType DEF OpenConnect, CloseSend
  <2>4. returned' \subseteq Id
    BY <1>3, <2>2 DEF OpenConnect, CloseSend, TaskTypeOK
  <2> QED
    BY <1>3, <1>b, <2>1, <2>3, <2>4, Untouched DEF OpenConnect, CloseSend
<1>4. ASSUME NEW i \in Id, SendLock(c, i) PROVE TypeOK'
  <2>1. /\ UNCHANGED pumpVars /\ UNCHANGED readVars /\ UNCHANGED netVars
        /\ UNCHANGED histVars
    BY <1>4 DEF SendLock
  <2>2. MuxTypeOK'
    <3>1. credit[i] \in 0..MaxU32
      BY DEF MuxTypeOK
    <3>2. HasCredit(i) => credit[i] - 1 \in 0..MaxU32
      BY <3>1, ConstantsAssumption DEF HasCredit
    <3>3. UNCHANGED credit \/ (HasCredit(i) /\ TakeCredit(i))
      BY <1>4 DEF SendLock
    <3>4. credit' \in [Id -> 0..MaxU32]
      BY <3>2, <3>3 DEF TakeCredit, MuxTypeOK
    <3> QED
      BY <1>4, <3>4 DEF SendLock, MuxTypeOK
  <2>3. TaskTypeOK'
    <3>1. i \in 0..MaxU32
      BY ConstantsAssumption DEF Id
    <3>2. CASE i \notin streams
      BY <1>4, <1>b, <3>2 DEF SendLock, TaskTypeOK
    <3>3. CASE i \in streams
      BY <1>4, <3>1, <3>3 DEF SendLock, TaskTypeOK
    <3> QED
      BY <3>2, <3>3
  <2> QED
    BY <2>1, <2>2, <2>3, Untouched
<1>5. CASE SendRegister(c)
  <2>1. /\ UNCHANGED muxVars /\ UNCHANGED pumpVars /\ UNCHANGED readVars
        /\ UNCHANGED netVars /\ UNCHANGED histVars
    BY <1>5 DEF SendRegister
  <2>2. TaskTypeOK'
    BY <1>5 DEF SendRegister, TaskTypeOK
  <2> QED
    BY <2>1, <2>2, Untouched
<1>6. CASE SendData(c)
  <2>1. UNCHANGED muxVars /\ UNCHANGED pumpVars /\ UNCHANGED readVars
    BY <1>6 DEF SendData
  <2>2. sid[c] \in Id
    BY <1>6, <1>a DEF SendData
  <2>3. NetTypeOK'
    BY <1>6, <2>2, TransmitType DEF SendData
  <2>4. HistTypeOK'
    BY <1>6, <2>2 DEF SendData, HistTypeOK
  <2>5. TaskTypeOK'
    BY <1>6, <1>b DEF SendData, TaskTypeOK
  <2> QED
    BY <2>1, <2>3, <2>4, <2>5, Untouched
<1>7. ASSUME NEW i \in Id, CloseRemove(c, i) PROVE TypeOK'
  <2>1. UNCHANGED pumpVars /\ UNCHANGED readVars /\ UNCHANGED netVars
    BY <1>7 DEF CloseRemove
  <2>2. MuxTypeOK'
    BY <1>7 DEF CloseRemove, RemoveEntry, MuxTypeOK
  <2>3. TaskTypeOK' /\ HistTypeOK'
    BY <1>7 DEF CloseRemove, TaskTypeOK, HistTypeOK, Id
  <2> QED
    BY <2>1, <2>2, <2>3, Untouched
<1>8. CASE Cancel(c)
  <2>1. /\ UNCHANGED muxVars /\ UNCHANGED pumpVars /\ UNCHANGED readVars
        /\ UNCHANGED netVars /\ UNCHANGED histVars
    BY <1>8 DEF Cancel
  <2>2. TaskTypeOK'
    BY <1>8, <1>b DEF Cancel, TaskTypeOK
  <2> QED
    BY <2>1, <2>2, Untouched
<1>9. pc[c] = "woken" => sid[c] \in Id
  BY <1>a
<1> QED
  BY <1>1, <1>2, <1>3, <1>4, <1>5, <1>6, <1>7, <1>8, <1>9 DEF Call, Progress

(* Every step of the readers keeps every variable in its type.             *)
LEMMA ReaderType == TypeOK /\ Reader => TypeOK'
<1> SUFFICES ASSUME TypeOK, NEW i \in Id, Recv(i) \/ RecvEof(i) PROVE TypeOK'
  BY DEF Reader
<1>1. /\ UNCHANGED muxVars /\ UNCHANGED taskVars /\ UNCHANGED pumpVars
      /\ UNCHANGED netVars /\ UNCHANGED histVars
  BY DEF Recv, RecvEof
<1>2. inbound[i] # <<>> => /\ Head(inbound[i]) \in Nat
                           /\ Tail(inbound[i]) \in Seq(Nat)
  BY DEF TypeOK, ReadTypeOK
<1>3. ReadTypeOK'
  BY <1>2 DEF Recv, RecvEof, TypeOK, ReadTypeOK
<1> QED
  BY <1>1, <1>3, Untouched DEF TypeOK

(* Every step of the server and the link keeps every variable in its type. *)
LEMMA ServerType == TypeOK /\ Server => TypeOK'
<1> SUFFICES ASSUME TypeOK, Server PROVE TypeOK'
  OBVIOUS
<1>1. /\ UNCHANGED muxVars /\ UNCHANGED taskVars /\ UNCHANGED pumpVars
      /\ UNCHANGED readVars /\ UNCHANGED histVars
  BY DEF Server, ServerHello, ServerOdd, LinkFails, ServerData,
     ServerContinue, ServerClose
<1>2. NetTypeOK'
  <2> USE ConstantsAssumption DEF TypeOK, NetTypeOK
  <2>1. CASE ServerHello
    <3>1. /\ Pkt("Info", 0, 0) \in Packet
          /\ \A n \in Grants : Pkt("Continue", 0, n) \in Packet
      BY DEF Pkt, Packet
    <3>2. toClient' \in Seq(Packet)
      BY <2>1, <3>1, PushType DEF ServerHello
    <3> QED
      BY <2>1, <3>2 DEF ServerHello
  <2>2. CASE ServerOdd
    <3>1. \A t \in {"Other", "Bad"} : Pkt(t, 0, 0) \in Packet
      BY DEF Pkt, Packet
    <3>2. toClient' \in Seq(Packet)
      BY <2>2, <3>1, PushType DEF ServerOdd
    <3> QED
      BY <2>2, <3>2 DEF ServerOdd
  <2>3. CASE LinkFails
    BY <2>3 DEF LinkFails
  <2>4. ASSUME NEW i \in Id, ServerData(i) PROVE NetTypeOK'
    <3>1. Pkt("Data", i, srvSent[i] + 1) \in Packet
      BY DEF Pkt, Packet
    <3>2. toClient' \in Seq(Packet)
      BY <2>4, <3>1, PushType DEF ServerData
    <3> QED
      BY <2>4, <3>2 DEF ServerData
  <2>5. ASSUME NEW i \in Id, ServerContinue(i) PROVE NetTypeOK'
    <3>1. \A n \in Grants : Pkt("Continue", i, n) \in Packet
      BY DEF Pkt, Packet, Id
    <3>2. toClient' \in Seq(Packet)
      BY <2>5, <3>1, PushType DEF ServerContinue
    <3> QED
      BY <2>5, <3>2 DEF ServerContinue
  <2>6. ASSUME NEW i \in Id, ServerClose(i) PROVE NetTypeOK'
    <3>1. Pkt("Close", i, 0) \in Packet
      BY DEF Pkt, Packet
    <3>2. toClient' \in Seq(Packet)
      BY <2>6, <3>1, PushType DEF ServerClose
    <3> QED
      BY <2>6, <3>2 DEF ServerClose, View
  <2> QED
    BY <2>1, <2>2, <2>3, <2>4, <2>5, <2>6 DEF Server
<1> QED
  BY <1>1, <1>2, Untouched DEF TypeOK

LEMMA TypeOKInit == Init => TypeOK
<1> SUFFICES ASSUME Init PROVE TypeOK
  OBVIOUS
<1>1. 1 \in Id /\ 0 \in 0..MaxU32
  BY ConstantsAssumption DEF Id
<1>2. MuxTypeOK
  BY <1>1 DEF Init, MuxTypeOK, StreamType
<1>3. TaskTypeOK /\ PumpTypeOK
  BY <1>1 DEF Init, TaskTypeOK, PumpTypeOK
<1>4. ReadTypeOK /\ NetTypeOK /\ HistTypeOK
  BY DEF Init, ReadTypeOK, NetTypeOK, HistTypeOK, View
<1> QED
  BY <1>2, <1>3, <1>4 DEF TypeOK

LEMMA TypeOKStep == TypeOK /\ [Next]_vars => TypeOK'
<1> SUFFICES ASSUME TypeOK, [Next]_vars PROVE TypeOK'
  OBVIOUS
<1>1. CASE UNCHANGED vars
  <2>1. /\ UNCHANGED muxVars /\ UNCHANGED taskVars /\ UNCHANGED pumpVars
        /\ UNCHANGED readVars /\ UNCHANGED netVars /\ UNCHANGED histVars
    BY <1>1 DEF vars
  <2> QED
    BY <2>1, Untouched DEF TypeOK
<1> QED
  BY <1>1, PumpType, CallType, ReaderType, ServerType DEF Next

(* In every reachable state every variable has its type.                   *)
THEOREM TypeCorrect == Spec => []TypeOK
BY TypeOKInit, TypeOKStep, PTL DEF Spec

-----------------------------------------------------------------------------
(* How stream ids are handed out.  An id at or above nextId is fresh: no   *)
(* frame, entry or caller knows it.  An open under way owns its id alone   *)
(* until its CONNECT has gone out.  Every other call works on an id that   *)
(* was returned, and the server knows those, unless the link had failed.   *)
Opening(c) == pc[c] \in {"insert", "connect"}

Fresh(i) == /\ i \notin streams /\ i \notin returned /\ i \notin cut
            /\ srv[i] = "none" /\ wire[i] = 0

FreshIds == \A i \in Id : i >= nextId => Fresh(i)

OwnIds ==
  \A c \in Caller : Opening(c) =>
    /\ sid[c] < nextId
    /\ sid[c] \notin returned /\ sid[c] \notin cut
    /\ srv[sid[c]] = "none" /\ wire[sid[c]] = 0
    /\ pc[c] = "insert" => sid[c] \notin streams
    /\ \A d \in Caller : Opening(d) /\ sid[d] = sid[c] => d = c

ReturnedIds == \A i \in returned : i < nextId /\ (link = "up" => srv[i] # "none")

CallIds ==
  \A c \in Caller : pc[c] # "idle" /\ ~Opening(c) => sid[c] \in returned

IdInv ==
  /\ TypeOK /\ FreshIds /\ OwnIds /\ ReturnedIds /\ CallIds
  /\ UplinkLegal

(* Steps that touch neither ids, nor the uplink, nor the place of a task   *)
(* inside an open, keep IdInv.                                             *)
LEMMA QuietIds ==
  ASSUME IdInv, TypeOK',
         UNCHANGED <<nextId, sid, returned, srv, link, wire, cut>>,
         streams' \subseteq streams,
         \A c \in Caller : /\ pc'[c] = "idle" <=> pc[c] = "idle"
                           /\ pc'[c] = "insert" <=> pc[c] = "insert"
                           /\ pc'[c] = "connect" <=> pc[c] = "connect"
  PROVE  IdInv'
<1>1. FreshIds'
  BY DEF IdInv, FreshIds, Fresh
<1>2. OwnIds'
  BY DEF IdInv, OwnIds, Opening
<1>3. ReturnedIds' /\ CallIds' /\ UplinkLegal'
  BY DEF IdInv, ReturnedIds, CallIds, UplinkLegal, Opening
<1> QED
  BY <1>1, <1>2, <1>3 DEF IdInv

LEMMA PumpIds == IdInv /\ Pump => IdInv'
<1> SUFFICES ASSUME IdInv, Pump PROVE IdInv'
  OBVIOUS
<1>1. TypeOK /\ TypeOK'
  BY PumpType DEF IdInv
<1>2. UNCHANGED <<nextId, sid, returned, srv, link, wire, cut>>
  BY DEF Pump, RecvHello, SendInfo, RecvContinue, Dispatch, Deliver, Wake,
     RecvFails, muxVars, taskVars, netVars, histVars
<1>3. streams' \subseteq streams
  BY DEF Pump, RecvHello, SendInfo, RecvContinue, Dispatch, DispatchData,
     DispatchContinue, DispatchClose, DispatchOther, RemoveEntry, Deliver,
     Wake, RecvFails, muxVars
<1>4. \A c \in Caller : pc'[c] = pc[c] \/ (pc[c] = "waiting" /\ pc'[c] = "woken")
  <2>1. CASE Wake
    BY <2>1 DEF Wake, IsWaiter, WaitersNow
  <2>2. CASE ~Wake
    BY <2>2 DEF Pump, RecvHello, SendInfo, RecvContinue, Dispatch, Deliver,
       RecvFails, taskVars
  <2> QED
    BY <2>1, <2>2
<1> QED
  BY <1>1, <1>2, <1>3, <1>4, QuietIds

LEMMA ReaderIds == IdInv /\ Reader => IdInv'
<1> SUFFICES ASSUME IdInv, Reader PROVE IdInv'
  OBVIOUS
<1>1. TypeOK'
  BY ReaderType DEF IdInv
<1>2. UNCHANGED <<nextId, streams, pc, sid, returned, srv, link, wire, cut>>
  BY DEF Reader, Recv, RecvEof, muxVars, taskVars, netVars, histVars
<1> QED
  BY <1>1, <1>2, QuietIds

LEMMA ServerIds == IdInv /\ Server => IdInv'
<1> SUFFICES ASSUME IdInv, Server PROVE IdInv'
  OBVIOUS
<1>1. TypeOK /\ TypeOK'
  BY ServerType DEF IdInv
<1>2. UNCHANGED <<nextId, streams, pc, sid, returned, wire, cut>>
  BY DEF Server, ServerHello, ServerOdd, LinkFails, ServerData, ServerContinue,
     ServerClose, muxVars, taskVars, histVars
<1>3. CASE LinkFails
  BY <1>1, <1>2, <1>3 DEF LinkFails, IdInv, FreshIds, Fresh, OwnIds,
     Opening, ReturnedIds, CallIds, UplinkLegal
<1>4. ASSUME NEW i \in Id, ServerClose(i) PROVE IdInv'
  <2>1. srv[i] = "connected" /\ srv' = [srv EXCEPT ![i] = "closed"]
        /\ UNCHANGED link
    BY <1>4 DEF ServerClose
  <2>2. srv \in [Id -> View]
    BY <1>1 DEF TypeOK, NetTypeOK
  <2>3. \A j \in Id : srv[j] = "none" <=> srv'[j] = "none"
    BY <2>1, <2>2
  <2>4. \A j \in Id : srv'[j] # "illegal"
    BY <2>1, <2>2 DEF IdInv, UplinkLegal
  <2>5. \A c \in Caller : Opening(c) => sid[c] \in Id
    BY <1>1 DEF TypeOK, TaskTypeOK, Opening
  <2>6. returned \subseteq Id
    BY <1>1 DEF TypeOK, TaskTypeOK
  <2>7. FreshIds'
    BY <1>2, <2>3 DEF IdInv, FreshIds, Fresh
  <2>8. OwnIds'
    BY <1>2, <2>3, <2>5 DEF IdInv, OwnIds, Opening
  <2>9. ReturnedIds' /\ CallIds' /\ UplinkLegal'
    BY <1>2, <2>1, <2>3, <2>4, <2>6 DEF IdInv, ReturnedIds, CallIds,
       UplinkLegal, Opening
  <2> QED
    BY <1>1, <2>7, <2>8, <2>9 DEF IdInv
<1>5. ASSUME UNCHANGED <<srv, link>> PROVE IdInv'
  BY <1>1, <1>2, <1>5, QuietIds
<1> QED
  BY <1>3, <1>4, <1>5 DEF Server, ServerHello, ServerOdd, ServerData,
     ServerContinue

(* The steps of a task.  A call that leaves its task idle, having changed  *)
(* nothing of ids or uplink, keeps IdInv; so does a frame on a stream that *)
(* was returned.                                                           *)
LEMMA CallIdsStep ==
  ASSUME IdInv, NEW c \in Caller, Call(c)
  PROVE  IdInv'
<1>0. TypeOK /\ TypeOK'
  BY CallType DEF IdInv
<1>a. /\ pc \in [Caller -> {"idle", "insert", "connect", "woken", "await",
                            "waiting", "data", "close"}]
      /\ sid \in [Caller -> 0..MaxU32] /\ returned \subseteq Id
      /\ \A d \in Caller : pc[d] # "idle" => sid[d] \in Id
      /\ srv \in [Id -> View] /\ wire \in [Id -> Nat]
      /\ nextId \in Id /\ Id \subseteq Nat
  <2>1. Id \subseteq Nat
    BY DEF Id
  <2> QED
    BY <1>0, <2>1 DEF TypeOK, TaskTypeOK, NetTypeOK, HistTypeOK, MuxTypeOK
<1>1. CASE OpenAlloc(c)
  <2> USE <1>1, <1>a DEF OpenAlloc, netVars, histVars
  <2>1. Fresh(nextId)
    BY DEF IdInv, FreshIds
  <2>2. FreshIds'
    BY DEF IdInv, FreshIds, Fresh
  <2>3. OwnIds'
    BY <2>1 DEF IdInv, OwnIds, Opening, Fresh
  <2>4. ReturnedIds' /\ CallIds' /\ UplinkLegal'
    BY DEF IdInv, ReturnedIds, CallIds, UplinkLegal, Opening
  <2> QED
    BY <1>0, <2>2, <2>3, <2>4 DEF IdInv
<1>2. CASE OpenInsert(c)
  <2> USE <1>2, <1>a DEF OpenInsert, netVars, histVars
  <2>1. FreshIds'
    BY DEF IdInv, FreshIds, Fresh, OwnIds, Opening
  <2>2. OwnIds'
    BY DEF IdInv, OwnIds, Opening
  <2>3. ReturnedIds' /\ CallIds' /\ UplinkLegal'
    BY DEF IdInv, ReturnedIds, CallIds, UplinkLegal, Opening
  <2> QED
    BY <1>0, <2>1, <2>2, <2>3 DEF IdInv
<1>3. CASE OpenConnect(c)
  <2> USE <1>3, <1>a DEF OpenConnect, Return, muxVars, histVars
  <2> DEFINE i == sid[c]
  <2>1. srv[i] = "none" /\ i \in Id /\ i < nextId
    BY DEF IdInv, OwnIds, Opening
  <2>2. srv' = IF link = "up" THEN [srv EXCEPT ![i] = "connected"] ELSE srv
    BY <2>1 DEF Transmit, ServerView
  <2>3. \A d \in Caller : Opening(d) /\ d # c => sid[d] # i
    BY DEF IdInv, OwnIds, Opening
  <2>4. returned' \subseteq returned \cup {i} /\ returned \subseteq returned'
    OBVIOUS
  <2>5. FreshIds'
    BY <2>1, <2>2, <2>4 DEF IdInv, FreshIds, Fresh
  <2>6. OwnIds'
    BY <2>1, <2>2, <2>3, <2>4 DEF IdInv, OwnIds, Opening
  <2>7. ReturnedIds'
    BY <2>1, <2>2, <2>4 DEF IdInv, ReturnedIds
  <2>8. CallIds' /\ UplinkLegal'
    BY <2>1, <2>2, <2>4 DEF IdInv, CallIds, UplinkLegal, Opening
  <2> QED
    BY <1>0, <2>5, <2>6, <2>7, <2>8 DEF IdInv
<1>4. ASSUME NEW i \in Id, SendLock(c, i) PROVE IdInv'
  <2> USE <1>4, <1>a DEF netVars, histVars
  <2>1. i \in returned
    BY DEF SendLock, Usable, IdInv, CallIds, Opening
  <2>2. ~Opening(c)
    BY DEF SendLock, Opening
  <2>3. /\ pc'[c] \notin {"insert", "connect"}
        /\ pc'[c] # "idle" => sid'[c] = i
        /\ \A d \in Caller : d # c => pc'[d] = pc[d] /\ sid'[d] = sid[d]
    BY DEF SendLock, Return
  <2>4. UNCHANGED <<nextId, streams, returned, srv, link, wire, cut>>
    BY DEF SendLock
  <2>5. FreshIds' /\ ReturnedIds' /\ UplinkLegal'
    BY <2>4 DEF IdInv, FreshIds, Fresh, ReturnedIds, UplinkLegal
  <2>6. OwnIds' /\ CallIds'
    BY <2>1, <2>2, <2>3, <2>4 DEF IdInv, OwnIds, CallIds, Opening
  <2> QED
    BY <1>0, <2>5, <2>6 DEF IdInv
<1>5. CASE SendRegister(c)
  BY <1>0, <1>5, QuietIds, <1>a DEF SendRegister, muxVars, netVars, histVars
<1>6. CASE SendData(c) \/ CloseSend(c)
  <2> USE <1>6, <1>a DEF SendData, CloseSend, Return, muxVars, histVars
  <2> DEFINE i == sid[c]
  <2>1. i \in returned /\ i < nextId /\ (link = "up" => srv[i] # "none")
    BY DEF IdInv, CallIds, ReturnedIds, Opening
  <2>2. /\ \A j \in Id : srv[j] = "none" <=> srv'[j] = "none"
        /\ \A j \in Id : srv'[j] # "illegal"
    BY <2>1 DEF IdInv, UplinkLegal, Transmit, ServerView, View
  <2>3. \A j \in Id : j # i => wire'[j] = wire[j]
    OBVIOUS
  <2>4. UNCHANGED <<nextId, streams, returned, link, cut>>
    OBVIOUS
  <2>5. /\ pc'[c] = "idle"
        /\ \A d \in Caller : d # c => pc'[d] = pc[d] /\ sid'[d] = sid[d]
    OBVIOUS
  <2>6. FreshIds'
    BY <2>1, <2>2, <2>3, <2>4 DEF IdInv, FreshIds, Fresh
  <2>7. OwnIds'
    BY <2>1, <2>2, <2>3, <2>4, <2>5 DEF IdInv, OwnIds, Opening
  <2>8. ReturnedIds' /\ CallIds' /\ UplinkLegal'
    BY <2>2, <2>4, <2>5 DEF IdInv, ReturnedIds, CallIds, UplinkLegal, Opening
  <2> QED
    BY <1>0, <2>6, <2>7, <2>8 DEF IdInv
<1>7. ASSUME NEW i \in Id, CloseRemove(c, i) PROVE IdInv'
  <2> USE <1>7, <1>a DEF CloseRemove, RemoveEntry, Usable, netVars
  <2>1. i < nextId
    BY DEF IdInv, ReturnedIds
  <2>2. FreshIds'
    BY <2>1 DEF IdInv, FreshIds, Fresh
  <2>3. OwnIds'
    BY DEF IdInv, OwnIds, Opening
  <2>4. ReturnedIds' /\ CallIds' /\ UplinkLegal'
    BY DEF IdInv, ReturnedIds, CallIds, UplinkLegal, Opening
  <2> QED
    BY <1>0, <2>2, <2>3, <2>4 DEF IdInv
<1>8. CASE Cancel(c)
  <2> USE <1>8, <1>a DEF Cancel, Return, muxVars, netVars, histVars
  <2>1. FreshIds' /\ ReturnedIds' /\ UplinkLegal'
    BY DEF IdInv, FreshIds, Fresh, ReturnedIds, UplinkLegal
  <2>2. OwnIds' /\ CallIds'
    BY DEF IdInv, OwnIds, CallIds, Opening
  <2> QED
    BY <1>0, <2>1, <2>2 DEF IdInv
<1> QED
  BY <1>1, <1>2, <1>3, <1>4, <1>5, <1>6, <1>7, <1>8, <1>a DEF Call, Progress

LEMMA IdInvStep == IdInv /\ [Next]_vars => IdInv'
<1> SUFFICES ASSUME IdInv, [Next]_vars PROVE IdInv'
  OBVIOUS
<1>1. CASE UNCHANGED vars
  <2>1. TypeOK'
    BY <1>1, TypeOKStep DEF IdInv
  <2> QED
    BY <1>1, <2>1, QuietIds DEF vars, muxVars, taskVars, netVars, histVars
<1> QED
  BY <1>1, PumpIds, CallIdsStep, ReaderIds, ServerIds DEF Next

LEMMA IdInvInit == Init => IdInv
BY TypeOKInit DEF Init, IdInv, FreshIds, Fresh, OwnIds, Opening, ReturnedIds,
   CallIds, UplinkLegal

(* Every reachable state satisfies IdInv: a stream id belongs to one open, *)
(* and every other call works on an id an open has returned.               *)
THEOREM IdsCorrect == Spec => []IdInv
BY IdInvInit, IdInvStep, PTL DEF Spec

(* No stream id is used by two CONNECTs, and no DATA or CLOSE reaches the  *)
(* server before the CONNECT of its stream, whatever the tasks race.       *)
THEOREM UplinkIsLegal == Spec => []UplinkLegal
<1>1. IdInv => UplinkLegal
  BY DEF IdInv
<1> QED
  BY <1>1, IdsCorrect, PTL

-----------------------------------------------------------------------------
(* Flow control.  A credit the client was given is unspent, or in the hand *)
(* of a task on its way to the transport, or on the wire, or lost.         *)
Sending(i) == {c \in Caller : pc[c] = "data" /\ sid[c] = i}

Unspent(i) == IF i \in streams THEN credit[i] ELSE 0

CreditInv ==
  \A i \in Id : kind[i] = "Tcp" =>
    wire[i] + Cardinality(Sending(i)) + Unspent(i) <= granted[i]

LEMMA SendingFinite ==
  ASSUME NEW i
  PROVE  IsFiniteSet(Sending(i)) /\ Cardinality(Sending(i)) \in Nat
<1>1. IsFiniteSet(Sending(i))
  BY ConstantsAssumption, FS_Subset DEF Sending
<1> QED
  BY <1>1, FS_CardinalityType

LEMMA UnspentType == ASSUME TypeOK, NEW i \in Id PROVE Unspent(i) \in Nat
BY DEF Unspent, TypeOK, MuxTypeOK

LEMMA CreditTypes ==
  ASSUME TypeOK, NEW i \in Id
  PROVE  /\ wire[i] \in Nat /\ granted[i] \in Nat /\ Unspent(i) \in Nat
         /\ credit[i] \in Nat /\ Cardinality(Sending(i)) \in Nat
         /\ initialCredit \in Nat
<1>1. wire[i] \in Nat /\ granted[i] \in Nat /\ credit[i] \in Nat
      /\ initialCredit \in Nat
  BY DEF TypeOK, HistTypeOK, MuxTypeOK
<1> QED
  BY <1>1, SendingFinite, UnspentType

(* A step that takes no task into or out of SendData, puts nothing on the  *)
(* wire, and gives no stream a credit it does not account for.             *)
LEMMA QuietCredit ==
  ASSUME TypeOK, TypeOK', CreditInv,
         \A i \in Id : Sending(i)' = Sending(i),
         UNCHANGED <<kind, wire>>,
         \A i \in Id : Unspent(i)' + granted[i] <= Unspent(i) + granted'[i]
                       \/ (granted'[i] >= granted[i] + Unspent(i)')
  PROVE  CreditInv'
<1> SUFFICES ASSUME NEW i \in Id, kind'[i] = "Tcp"
             PROVE wire'[i] + Cardinality(Sending(i)') + Unspent(i)'
                     <= granted'[i]
  BY DEF CreditInv
<1>1. wire[i] + Cardinality(Sending(i)) + Unspent(i) <= granted[i]
  BY DEF CreditInv
<1>2. /\ wire[i] \in Nat /\ granted[i] \in Nat /\ Unspent(i) \in Nat
      /\ Cardinality(Sending(i)) \in Nat
  BY CreditTypes
<1>3. Unspent(i)' \in Nat /\ granted'[i] \in Nat
  BY DEF TypeOK, HistTypeOK, MuxTypeOK, Unspent
<1>4. wire'[i] = wire[i] /\ Sending(i)' = Sending(i)
  OBVIOUS
<1> QED
  BY <1>1, <1>2, <1>3, <1>4

LEMMA PumpCredit == IdInv /\ CreditInv /\ Pump => CreditInv'
<1> SUFFICES ASSUME IdInv, CreditInv, Pump PROVE CreditInv'
  OBVIOUS
<1>1. TypeOK /\ TypeOK'
  BY PumpType DEF IdInv
<1>2. \A i \in Id : Sending(i)' = Sending(i)
  <2>1. CASE Wake
    BY <2>1 DEF Wake, IsWaiter, WaitersNow, Sending
  <2>2. CASE ~Wake
    BY <2>2 DEF Pump, RecvHello, SendInfo, RecvContinue, Dispatch, Deliver,
       RecvFails, taskVars, Sending
  <2> QED
    BY <2>1, <2>2
<1>3. UNCHANGED <<kind, wire>>
  BY DEF Pump, RecvHello, SendInfo, RecvContinue, Dispatch, Deliver, Wake,
     RecvFails, muxVars, histVars
<1>4. ASSUME NEW i \in Id
      PROVE  \/ Unspent(i)' + granted[i] <= Unspent(i) + granted'[i]
             \/ granted'[i] >= granted[i] + Unspent(i)'
  <2>1. /\ granted[i] \in Nat /\ Unspent(i) \in Nat
        /\ Unspent(i)' \in Nat /\ granted'[i] \in Nat
    BY <1>1, CreditTypes DEF Unspent, TypeOK, MuxTypeOK, HistTypeOK
  <2>2. CASE UNCHANGED <<streams, credit, granted>>
    BY <2>1, <2>2 DEF Unspent
  <2>3. CASE Dispatch
    <3>1. PICK p \in Packet : /\ p = Head(toClient)
                              /\ \/ DispatchData(p) \/ DispatchContinue(p)
                                 \/ DispatchClose(p) \/ DispatchOther(p)
      BY <1>1, <2>3, HeadIsPacket DEF Dispatch
    <3>2. CASE DispatchData(p) \/ DispatchOther(p)
      BY <2>2, <3>2 DEF DispatchData, DispatchOther
    <3>3. CASE DispatchClose(p)
      BY <2>1, <3>3 DEF DispatchClose, RemoveEntry, Unspent
    <3>4. CASE DispatchContinue(p)
      <4>1. p.val \in Nat
        BY <1>1, <2>3, <3>1, <3>4, HeadIsPacket DEF Dispatch, DispatchContinue
      <4>2. CASE p.id \in streams /\ p.id = i
        <5>1. Unspent(i)' = p.val /\ granted'[i] = granted[i] + p.val
          BY <1>1, <3>4, <4>2 DEF DispatchContinue, Unspent, TypeOK, MuxTypeOK,
             HistTypeOK
        <5> QED
          BY <2>1, <4>1, <5>1
      <4>3. CASE ~(p.id \in streams /\ p.id = i)
        <5>1. Unspent(i)' = Unspent(i) /\ granted'[i] = granted[i]
          BY <1>1, <3>4, <4>3 DEF DispatchContinue, Unspent, TypeOK, MuxTypeOK,
             HistTypeOK
        <5> QED
          BY <2>1, <5>1
      <4> QED
        BY <4>2, <4>3
    <3> QED
      BY <3>1, <3>2, <3>3, <3>4
  <2>4. ~Dispatch => UNCHANGED <<streams, credit, granted>>
    BY DEF Pump, RecvHello, SendInfo, RecvContinue, Deliver, Wake, RecvFails,
       muxVars, histVars
  <2> QED
    BY <2>2, <2>3, <2>4
<1> QED
  BY <1>1, <1>2, <1>3, <1>4, QuietCredit

(* How the set of tasks about to send changes its size.                    *)
LEMMA SendingSize ==
  ASSUME NEW i, NEW c
  PROVE  /\ Sending(i)' \subseteq Sending(i) =>
              Cardinality(Sending(i)') <= Cardinality(Sending(i))
         /\ c \notin Sending(i) /\ Sending(i)' = Sending(i) \cup {c} =>
              Cardinality(Sending(i)') = Cardinality(Sending(i)) + 1
         /\ c \in Sending(i) /\ Sending(i)' = Sending(i) \ {c} =>
              Cardinality(Sending(i)') = Cardinality(Sending(i)) - 1
<1>1. IsFiniteSet(Sending(i))
  BY SendingFinite
<1>2. Sending(i)' \subseteq Sending(i) =>
        Cardinality(Sending(i)') <= Cardinality(Sending(i))
  BY <1>1, FS_Subset
<1>3. c \notin Sending(i) => Cardinality(Sending(i) \cup {c})
                               = Cardinality(Sending(i)) + 1
  BY <1>1, FS_AddElement
<1>4. c \in Sending(i) => Cardinality(Sending(i) \ {c})
                            = Cardinality(Sending(i)) - 1
  BY <1>1, FS_RemoveElement
<1> QED
  BY <1>2, <1>3, <1>4

(* A task in a call leaves every stream's account as it was, or moves one  *)
(* unit: from the credit to its hand in SendLock, from its hand to the     *)
(* wire in SendData.  OpenInsert opens the account of an id no one uses.   *)
LEMMA CallCredit ==
  ASSUME IdInv, CreditInv, NEW c \in Caller, Call(c)
  PROVE  CreditInv'
<1>0. TypeOK /\ TypeOK'
  BY CallType DEF IdInv
<1>a. /\ pc \in [Caller -> {"idle", "insert", "connect", "woken", "await",
                            "waiting", "data", "close"}]
      /\ sid \in [Caller -> 0..MaxU32] /\ streams \subseteq Id
      /\ wire \in [Id -> Nat] /\ granted \in [Id -> Nat]
      /\ kind \in [Id -> StreamType] /\ credit \in [Id -> 0..MaxU32]
      /\ initialCredit \in 0..MaxU32
  BY <1>0 DEF TypeOK, TaskTypeOK, HistTypeOK, MuxTypeOK
<1> SUFFICES ASSUME NEW j \in Id, kind'[j] = "Tcp"
             PROVE wire'[j] + Cardinality(Sending(j)') + Unspent(j)'
                     <= granted'[j]
  BY DEF CreditInv
<1>b. /\ wire[j] \in Nat /\ granted[j] \in Nat /\ Unspent(j) \in Nat
      /\ credit[j] \in Nat /\ Cardinality(Sending(j)) \in Nat
      /\ initialCredit \in Nat
  BY <1>0, CreditTypes
<1>c. kind[j] = "Tcp" => wire[j] + Cardinality(Sending(j)) + Unspent(j)
                           <= granted[j]
  BY DEF CreditInv
<1>d. Cardinality(Sending(j)') \in Nat
  BY ConstantsAssumption, FS_Subset, FS_CardinalityType DEF Sending
<1>1. ASSUME kind'[j] = kind[j], wire'[j] = wire[j], granted'[j] = granted[j],
             Unspent(j)' \in Nat, Unspent(j)' <= Unspent(j),
             Sending(j)' \subseteq Sending(j)
      PROVE  wire'[j] + Cardinality(Sending(j)') + Unspent(j)' <= granted'[j]
  <2>1. Cardinality(Sending(j)') <= Cardinality(Sending(j))
    BY <1>1, SendingSize
  <2> QED
    BY <1>1, <1>b, <1>c, <1>d, <2>1
<1>2. CASE OpenInsert(c)
  <2>1. j # sid[c] => /\ kind'[j] = kind[j] /\ wire'[j] = wire[j]
                      /\ granted'[j] = granted[j] /\ Unspent(j)' = Unspent(j)
    BY <1>2, <1>a DEF OpenInsert, Unspent
  <2>2. Sending(j)' \subseteq Sending(j)
    BY <1>2, <1>a DEF OpenInsert, Sending
  <2>3. CASE j = sid[c]
    <3>1. j \notin returned /\ wire[j] = 0
      BY <1>2, <2>3 DEF OpenInsert, IdInv, OwnIds, Opening
    <3>2. \A d \in Caller : pc[d] = "data" => sid[d] # j
      BY <3>1 DEF IdInv, CallIds, Opening
    <3>3. Sending(j)' = {}
      BY <2>2, <3>2 DEF Sending
    <3>4. Cardinality(Sending(j)') = 0
      BY <3>3, FS_EmptySet
    <3>5. wire'[j] = 0 /\ granted'[j] = initialCredit
      BY <1>2, <1>a, <2>3, <3>1 DEF OpenInsert
    <3>6. Unspent(j)' = initialCredit
      BY <1>2, <1>a, <2>3 DEF OpenInsert, Unspent
    <3> QED
      BY <3>4, <3>5, <3>6, <1>b
  <2> QED
    BY <1>1, <1>b, <2>1, <2>2, <2>3
<1>3. ASSUME NEW i \in Id, SendLock(c, i)
      PROVE  wire'[j] + Cardinality(Sending(j)') + Unspent(j)' <= granted'[j]
  <2>0. UNCHANGED <<streams, kind, wire, granted>>
    BY <1>3 DEF SendLock, histVars
  <2>1. CASE /\ j = i /\ pc' = [pc EXCEPT ![c] = "data"]
             /\ sid' = [sid EXCEPT ![c] = i] /\ i \in streams
             /\ HasCredit(i) /\ TakeCredit(i)
    <3>1. c \notin Sending(j) /\ Sending(j)' = Sending(j) \cup {c}
      BY <1>3, <1>a, <2>1 DEF SendLock, Sending
    <3>2. Cardinality(Sending(j)') = Cardinality(Sending(j)) + 1
      BY <3>1, SendingSize
    <3>3. Unspent(j)' = Unspent(j) - 1
      BY <1>a, <2>0, <2>1 DEF TakeCredit, Unspent
    <3> QED
      BY <1>b, <1>c, <2>0, <3>2, <3>3
  <2>2. CASE j # i \/ (UNCHANGED credit /\ pc'[c] # "data")
    <3>1. Unspent(j)' = Unspent(j)
      BY <1>3, <1>a, <2>0, <2>2 DEF SendLock, TakeCredit, Unspent
    <3>2. Sending(j)' \subseteq Sending(j)
      <4>1. \A d \in Caller : d # c => pc'[d] = pc[d] /\ sid'[d] = sid[d]
        BY <1>3, <1>a DEF SendLock, Return
      <4>2. pc'[c] = "data" => sid'[c] = i
        BY <1>3, <1>a DEF SendLock, Return
      <4> QED
        BY <2>2, <4>1, <4>2 DEF Sending
    <3> QED
      BY <1>1, <1>b, <2>0, <3>1, <3>2
  <2> QED
    <3>1. j = i /\ i \in streams => kind[i] = "Tcp"
      BY <2>0
    <3>2. CASE i \notin streams
      BY <1>3, <1>a, <2>2, <3>2 DEF SendLock, Return
    <3>3. CASE i \in streams /\ j = i
      BY <1>3, <1>a, <2>1, <2>2, <3>1, <3>3 DEF SendLock
    <3>4. CASE j # i
      BY <2>2, <3>4
    <3> QED
      BY <3>2, <3>3, <3>4
<1>4. CASE SendData(c)
  <2>1. /\ kind'[j] = kind[j] /\ granted'[j] = granted[j]
        /\ Unspent(j)' = Unspent(j)
    BY <1>4 DEF SendData, muxVars, Unspent
  <2>2. Sending(j)' = Sending(j) \ {c}
    BY <1>4, <1>a DEF SendData, Return, Sending
  <2>3. CASE j = sid[c]
    <3>1. c \in Sending(j)
      BY <1>4, <2>3 DEF SendData, Sending
    <3>2. Cardinality(Sending(j)') = Cardinality(Sending(j)) - 1
      BY <2>2, <3>1, SendingSize
    <3>3. wire'[j] = wire[j] + 1 \/ wire'[j] = wire[j]
      BY <1>4, <1>a, <2>3 DEF SendData
    <3> QED
      BY <1>b, <1>c, <2>1, <3>2, <3>3
  <2>4. CASE j # sid[c]
    <3>1. wire'[j] = wire[j]
      BY <1>4, <1>a, <2>4 DEF SendData
    <3> QED
      BY <1>1, <1>b, <2>1, <2>2, <3>1
  <2> QED
    BY <2>3, <2>4
<1>5. ASSUME NEW i \in Id, CloseRemove(c, i)
      PROVE  wire'[j] + Cardinality(Sending(j)') + Unspent(j)' <= granted'[j]
  <2>1. kind'[j] = kind[j] /\ wire'[j] = wire[j] /\ granted'[j] = granted[j]
    BY <1>5 DEF CloseRemove
  <2>2. Unspent(j)' \in Nat /\ Unspent(j)' <= Unspent(j)
    BY <1>5, <1>b DEF CloseRemove, RemoveEntry, Unspent
  <2>3. Sending(j)' \subseteq Sending(j)
    BY <1>5, <1>a DEF CloseRemove, Sending
  <2> QED
    BY <1>1, <2>1, <2>2, <2>3
<1>6. CASE OpenAlloc(c) \/ OpenConnect(c) \/ SendRegister(c) \/ CloseSend(c)
           \/ Cancel(c)
  <2>1. UNCHANGED <<streams, kind, credit, wire, granted>>
    BY <1>6 DEF OpenAlloc, OpenConnect, SendRegister, CloseSend, Cancel,
       muxVars, histVars
  <2>2. Unspent(j)' = Unspent(j)
    BY <2>1 DEF Unspent
  <2>3. Sending(j)' \subseteq Sending(j)
    BY <1>6, <1>a DEF OpenAlloc, OpenConnect, SendRegister, CloseSend, Cancel,
       Return, Sending
  <2> QED
    BY <1>1, <1>b, <2>1, <2>2, <2>3
<1>7. pc[c] = "woken" => sid[c] \in Id
  BY <1>0 DEF TypeOK, TaskTypeOK
<1> QED
  BY <1>2, <1>3, <1>4, <1>5, <1>6, <1>7 DEF Call, Progress

LEMMA CreditInvStep == IdInv /\ CreditInv /\ [Next]_vars => CreditInv'
<1> SUFFICES ASSUME IdInv, CreditInv, [Next]_vars PROVE CreditInv'
  OBVIOUS
<1>1. TypeOK /\ TypeOK'
  BY TypeOKStep DEF IdInv
<1>2. CASE UNCHANGED vars \/ Reader \/ Server
  <2>1. UNCHANGED <<streams, kind, credit, pc, sid, wire, granted>>
    BY <1>2 DEF vars, Reader, Recv, RecvEof, Server, ServerHello, ServerOdd,
       LinkFails, ServerData, ServerContinue, ServerClose, muxVars, taskVars,
       histVars
  <2>2. \A i \in Id : Sending(i)' = Sending(i) /\ Unspent(i)' = Unspent(i)
    BY <2>1 DEF Sending, Unspent
  <2>3. \A i \in Id : granted[i] \in Nat /\ Unspent(i) \in Nat
    BY <1>1, CreditTypes
  <2> QED
    BY <1>1, <2>1, <2>2, <2>3, QuietCredit
<1> QED
  BY <1>2, PumpCredit, CallCredit DEF Next

LEMMA CreditInvInit == Init => CreditInv
<1> SUFFICES ASSUME Init, NEW i \in Id
             PROVE wire[i] + Cardinality(Sending(i)) + Unspent(i) <= granted[i]
  BY DEF CreditInv
<1>1. wire[i] = 0 /\ Unspent(i) = 0 /\ granted[i] = 0 /\ Sending(i) = {}
  BY DEF Init, Unspent, Sending
<1> QED
  BY <1>1, FS_EmptySet

(* On a TCP stream the tasks together never send more DATA packets than    *)
(* the server granted, however they race for the credit.                   *)
THEOREM CreditRespected == Spec => []WireWithinGrants
<1>1. Init => IdInv /\ CreditInv
  BY IdInvInit, CreditInvInit
<1>2. IdInv /\ CreditInv /\ [Next]_vars => (IdInv /\ CreditInv)'
  BY IdInvStep, CreditInvStep
<1>3. IdInv /\ CreditInv => WireWithinGrants
  <2> SUFFICES ASSUME IdInv, CreditInv, NEW i \in Id, kind[i] = "Tcp"
               PROVE wire[i] <= granted[i]
    BY DEF WireWithinGrants
  <2>1. wire[i] + Cardinality(Sending(i)) + Unspent(i) <= granted[i]
    BY DEF CreditInv
  <2> QED
    BY <2>1, CreditTypes DEF IdInv
<1> QED
  BY <1>1, <1>2, <1>3, PTL DEF Spec

-----------------------------------------------------------------------------
(* The wake-up of a waiting sender, where tasks switch only at await       *)
(* points.  Then no task is ever caught between the unlock and notified(), *)
(* which is where the wake-up is lost.                                     *)
WakeInv == NoStrandedSender /\ \A c \in Caller : pc[c] # "await"

(* A step that puts no task to sleep and leaves the waiting ones, their    *)
(* streams' credits and the pump's duty to wake alone keeps WakeInv.       *)
LEMMA QuietWake ==
  ASSUME WakeInv, UNCHANGED <<streams, credit>>, cut \subseteq cut',
         ppc = "wake" => UNCHANGED <<ppc, pid>>,
         \A c \in Caller :
           /\ pc'[c] = "waiting" => pc[c] = "waiting" /\ sid'[c] = sid[c]
           /\ pc'[c] # "await"
  PROVE  WakeInv'
BY DEF WakeInv, NoStrandedSender

LEMMA PumpWake == IdInv /\ WakeInv /\ Pump => WakeInv'
<1> SUFFICES ASSUME IdInv, WakeInv, Pump PROVE WakeInv'
  OBVIOUS
<1>0. credit \in [Id -> 0..MaxU32] /\ streams \subseteq Id
  BY DEF IdInv, TypeOK, MuxTypeOK
<1>1. CASE Wake
  <2>1. \A c \in Caller : pc'[c] = IF pc[c] = "waiting" /\ sid[c] = pid
                                     THEN "woken" ELSE pc[c]
    BY <1>1 DEF Wake, IsWaiter, WaitersNow
  <2>2. UNCHANGED <<streams, credit, cut, sid>>
    BY <1>1 DEF Wake, muxVars, histVars
  <2> QED
    BY <2>1, <2>2 DEF WakeInv, NoStrandedSender
<1>2. CASE Dispatch
  <2>1. UNCHANGED <<pc, sid, cut>> /\ ppc = "recv"
    BY <1>2 DEF Dispatch, taskVars
  <2>2. PICK p : \/ DispatchData(p) \/ DispatchContinue(p)
                 \/ DispatchClose(p) \/ DispatchOther(p)
    BY <1>2 DEF Dispatch
  <2>3. CASE DispatchData(p) \/ DispatchOther(p)
    BY <2>1, <2>3, QuietWake DEF DispatchData, DispatchOther, WakeInv
  <2>4. CASE DispatchContinue(p)
    BY <1>0, <2>1, <2>4 DEF DispatchContinue, ToWake, WakeInv, NoStrandedSender
  <2>5. CASE DispatchClose(p)
    BY <2>1, <2>5 DEF DispatchClose, RemoveEntry, ToWake, WakeInv,
       NoStrandedSender
  <2> QED
    BY <2>2, <2>3, <2>4, <2>5
<1>3. CASE RecvHello \/ SendInfo \/ RecvContinue \/ Deliver \/ RecvFails
  <2>1. UNCHANGED <<streams, credit, pc, sid, cut>> /\ ppc # "wake"
    BY <1>3 DEF RecvHello, SendInfo, RecvContinue, Deliver, RecvFails, muxVars,
       taskVars, histVars
  <2> QED
    BY <2>1, QuietWake DEF WakeInv
<1> QED
  BY <1>1, <1>2, <1>3 DEF Pump

LEMMA CallWake ==
  ASSUME ~Preemptive, IdInv, WakeInv, NEW c \in Caller, Call(c)
  PROVE  WakeInv'
<1>0. /\ pc \in [Caller -> {"idle", "insert", "connect", "woken", "await",
                            "waiting", "data", "close"}]
      /\ sid \in [Caller -> 0..MaxU32]
      /\ credit \in [Id -> 0..MaxU32] /\ streams \subseteq Id
  BY DEF IdInv, TypeOK, TaskTypeOK, MuxTypeOK
<1>1. CASE OpenInsert(c)
  <2>1. sid[c] \notin returned
    BY <1>1 DEF OpenInsert, IdInv, OwnIds, Opening
  <2>2. \A d \in Caller : pc[d] = "waiting" => sid[d] # sid[c]
    BY <2>1 DEF IdInv, CallIds, Opening
  <2> QED
    BY <1>0, <1>1, <2>2 DEF OpenInsert, pumpVars, WakeInv, NoStrandedSender
<1>2. ASSUME NEW i \in Id, SendLock(c, i) PROVE WakeInv'
  <2>1. UNCHANGED <<streams, cut, ppc, pid>>
    BY <1>2 DEF SendLock, pumpVars, histVars
  <2>2. UNCHANGED credit \/ (credit[i] > 0 /\ TakeCredit(i))
    BY <1>2 DEF SendLock, HasCredit
  <2>3. \A k \in Id : credit[k] = 0 => credit'[k] = 0
    BY <1>0, <2>2 DEF TakeCredit
  <2>4. \A d \in Caller : d # c => pc'[d] = pc[d] /\ sid'[d] = sid[d]
    BY <1>0, <1>2 DEF SendLock, Return
  <2>5. pc'[c] # "await"
    BY <1>0, <1>2 DEF SendLock, Return
  <2>6. pc'[c] = "waiting" => sid'[c] = i /\ i \in streams /\ credit'[i] = 0
    <3>1. credit[i] \in Nat
      BY <1>0
    <3> QED
      BY <1>0, <1>2, <3>1 DEF SendLock, Return, HasCredit
  <2>7. ASSUME NEW d \in Caller, pc'[d] = "waiting"
        PROVE  LET k == sid'[d] IN \/ k \in streams' /\ credit'[k] = 0
                                   \/ ppc' = "wake" /\ pid' = k
                                   \/ k \in cut'
    <3>1. CASE d = c
      BY <2>1, <2>6, <2>7, <3>1
    <3>2. CASE d # c
      BY <1>0, <2>1, <2>3, <2>4, <2>7, <3>2 DEF WakeInv, NoStrandedSender
    <3> QED
      BY <3>1, <3>2
  <2> QED
    BY <2>4, <2>5, <2>7 DEF WakeInv, NoStrandedSender
<1>3. ASSUME NEW i \in Id, CloseRemove(c, i) PROVE WakeInv'
  BY <1>0, <1>3 DEF CloseRemove, RemoveEntry, pumpVars, WakeInv,
     NoStrandedSender
<1>4. CASE OpenAlloc(c) \/ OpenConnect(c) \/ SendRegister(c) \/ SendData(c)
           \/ CloseSend(c) \/ Cancel(c)
  <2>1. UNCHANGED <<streams, credit, cut, ppc, pid>>
    BY <1>4 DEF OpenAlloc, OpenConnect, SendRegister, SendData, CloseSend,
       Cancel, muxVars, pumpVars, histVars
  <2>2. \A d \in Caller : d # c => pc'[d] = pc[d] /\ sid'[d] = sid[d]
    BY <1>0, <1>4 DEF OpenAlloc, OpenConnect, SendRegister, SendData,
       CloseSend, Cancel, Return
  <2>3. pc'[c] \notin {"waiting", "await"}
    BY <1>0, <1>4 DEF OpenAlloc, OpenConnect, SendRegister, SendData,
       CloseSend, Cancel, Return, WakeInv
  <2> QED
    BY <2>1, <2>2, <2>3, QuietWake DEF WakeInv
<1>5. pc[c] = "woken" => sid[c] \in Id
  BY DEF IdInv, TypeOK, TaskTypeOK
<1> QED
  BY <1>1, <1>2, <1>3, <1>4, <1>5 DEF Call, Progress

LEMMA WakeInvStep ==
  ASSUME ~Preemptive
  PROVE  IdInv /\ WakeInv /\ [Next]_vars => WakeInv'
<1> SUFFICES ASSUME IdInv, WakeInv, [Next]_vars PROVE WakeInv'
  OBVIOUS
<1>1. CASE UNCHANGED vars \/ Reader \/ Server
  <2>1. UNCHANGED <<streams, credit, pc, sid, ppc, pid, cut>>
    BY <1>1 DEF vars, Reader, Recv, RecvEof, Server, ServerHello, ServerOdd,
       LinkFails, ServerData, ServerContinue, ServerClose, muxVars, taskVars,
       pumpVars, histVars
  <2> QED
    BY <2>1, QuietWake DEF WakeInv
<1> QED
  BY <1>1, PumpWake, CallWake DEF Next

(* On one thread, a sender that waits for credit can always be reached: by *)
(* the CONTINUE or CLOSE still to come, or by the wake-up already owed.    *)
(* Only a local close_stream strands it.                                   *)
THEOREM SendersReachable ==
  ASSUME ~Preemptive
  PROVE  Spec => []NoStrandedSender
<1>1. Init => IdInv /\ WakeInv
  BY IdInvInit DEF Init, WakeInv, NoStrandedSender
<1>2. IdInv /\ WakeInv /\ [Next]_vars => (IdInv /\ WakeInv)'
  BY IdInvStep, WakeInvStep
<1>3. IdInv /\ WakeInv => NoStrandedSender
  BY DEF WakeInv
<1> QED
  BY <1>1, <1>2, <1>3, PTL DEF Spec

-----------------------------------------------------------------------------
(* The way of the payloads.  IsData: the k-th packet in q is a DATA packet *)
(* of stream i.  Flight: the DATA of i in q carry exactly the payloads     *)
(* lo + 1 .. hi, once each and in order.                                   *)
IsData(q, k, i) == q[k].type = "Data" /\ q[k].id = i

Flight(q, i, lo, hi) ==
  /\ lo <= hi
  /\ \A j, k \in 1..Len(q) :
       j < k /\ IsData(q, j, i) /\ IsData(q, k, i) => q[j].val < q[k].val
  /\ \A k \in 1..Len(q) : IsData(q, k, i) => lo < q[k].val /\ q[k].val <= hi
  /\ \A v \in (lo + 1)..hi : \E k \in 1..Len(q) : IsData(q, k, i) /\ q[k].val = v

LEMMA DataIsNumbered ==
  ASSUME NEW q \in Seq(Packet), NEW k \in 1..Len(q), NEW i, IsData(q, k, i)
  PROVE  q[k].val \in Nat /\ i \in Id
<1>1. q[k] \in Packet
  OBVIOUS
<1>. QED  BY <1>1 DEF IsData, Packet

(* The elements of a queue whose head is taken, and of one that grows.     *)
LEMMA TailOf ==
  ASSUME NEW S, NEW q \in Seq(S), q # <<>>
  PROVE  /\ Tail(q) \in Seq(S) /\ Len(q) \in Nat /\ Len(Tail(q)) = Len(q) - 1
         /\ Len(q) > 0 /\ Head(q) = q[1]
         /\ \A k \in 1..Len(Tail(q)) : k + 1 \in 1..Len(q) /\ Tail(q)[k] = q[k + 1]
         /\ \A k \in 1..Len(q) : k = 1 \/ (k - 1 \in 1..Len(Tail(q))
                                           /\ Tail(q)[k - 1] = q[k])
OBVIOUS

LEMMA AppendOf ==
  ASSUME NEW S, NEW q \in Seq(S), NEW p \in S
  PROVE  /\ Append(q, p) \in Seq(S) /\ Len(q) \in Nat
         /\ Len(Append(q, p)) = Len(q) + 1
         /\ \A k \in 1..Len(q) : k \in 1..Len(Append(q, p)) /\ Append(q, p)[k] = q[k]
         /\ Append(q, p)[Len(q) + 1] = p
         /\ \A k \in 1..Len(Append(q, p)) : k \in 1..Len(q) \/ k = Len(q) + 1
OBVIOUS

LEMMA FlightPop ==
  ASSUME NEW q \in Seq(Packet), q # <<>>, NEW i \in Id, NEW lo \in Nat,
         NEW hi \in Nat, Flight(q, i, lo, hi)
  PROVE  /\ IsData(q, 1, i) => /\ q[1].val = lo + 1
                               /\ Flight(Tail(q), i, lo + 1, hi)
         /\ ~IsData(q, 1, i) => Flight(Tail(q), i, lo, hi)
<1>. DEFINE t == Tail(q)
<1>1. /\ t \in Seq(Packet) /\ Len(q) \in Nat /\ Len(t) = Len(q) - 1 /\ Len(q) > 0
      /\ \A k \in 1..Len(t) : k + 1 \in 1..Len(q) /\ t[k] = q[k + 1]
      /\ \A k \in 1..Len(q) : k = 1 \/ (k - 1 \in 1..Len(t) /\ t[k - 1] = q[k])
  BY TailOf
<1>. HIDE DEF t
<1>2. \A k \in 1..Len(t) : IsData(t, k, i) <=> IsData(q, k + 1, i)
  BY <1>1 DEF IsData
<1>3. \A k \in 1..Len(q) : IsData(q, k, i) => q[k].val \in Nat
  BY DataIsNumbered
<1>4. \A j, k \in 1..Len(t) :
         j < k /\ IsData(t, j, i) /\ IsData(t, k, i) => t[j].val < t[k].val
  BY <1>1, <1>2 DEF Flight
<1>5. ASSUME NEW v \in (lo + 1)..hi, ~(IsData(q, 1, i) /\ q[1].val = v)
      PROVE  \E k \in 1..Len(t) : IsData(t, k, i) /\ t[k].val = v
  <2>1. PICK k \in 1..Len(q) : IsData(q, k, i) /\ q[k].val = v
    BY <1>5 DEF Flight
  <2>2. k - 1 \in 1..Len(t) /\ t[k - 1] = q[k]
    BY <1>1, <1>5, <2>1
  <2>. QED  BY <2>1, <2>2 DEF IsData
<1>6. CASE IsData(q, 1, i)
  <2>0. 1 \in 1..Len(q)
    BY <1>1
  <2>1. q[1].val \in Nat /\ lo < q[1].val /\ q[1].val <= hi
    BY <1>3, <1>6, <2>0 DEF Flight
  <2>2. \A k \in 1..Len(q) : IsData(q, k, i) => q[1].val <= q[k].val
    BY <1>3, <1>6, <2>0 DEF Flight
  <2>3. q[1].val = lo + 1
    <3>1. PICK k \in 1..Len(q) : IsData(q, k, i) /\ q[k].val = lo + 1
      BY <2>1 DEF Flight
    <3>. QED  BY <2>1, <2>2, <3>1
  <2>4. \A k \in 1..Len(t) : IsData(t, k, i) => lo + 1 < t[k].val /\ t[k].val <= hi
    <3>1. TAKE k \in 1..Len(t)
    <3>2. k + 1 \in 1..Len(q) /\ t[k] = q[k + 1] /\ 1 < k + 1
      BY <1>1
    <3>. QED  BY <1>2, <1>6, <2>0, <2>3, <3>2 DEF Flight
  <2>5. \A v \in (lo + 1 + 1)..hi : \E k \in 1..Len(t) : IsData(t, k, i) /\ t[k].val = v
    BY <1>5, <2>3
  <2>. QED  BY <1>4, <1>6, <2>1, <2>3, <2>4, <2>5 DEF Flight, t
<1>7. CASE ~IsData(q, 1, i)
  <2>1. \A k \in 1..Len(t) : IsData(t, k, i) => lo < t[k].val /\ t[k].val <= hi
    BY <1>1, <1>2 DEF Flight
  <2>2. lo <= hi /\ \A v \in (lo + 1)..hi : \E k \in 1..Len(t) : IsData(t, k, i) /\ t[k].val = v
    BY <1>5, <1>7 DEF Flight
  <2>. QED  BY <1>4, <1>7, <2>1, <2>2 DEF Flight, t
<1>. QED  BY <1>6, <1>7

LEMMA FlightPush ==
  ASSUME NEW q \in Seq(Packet), NEW p \in Packet, NEW i \in Id, NEW lo \in Nat,
         NEW hi \in Nat, Flight(q, i, lo, hi)
  PROVE  /\ p.type = "Data" /\ p.id = i /\ p.val = hi + 1 =>
              Flight(Append(q, p), i, lo, hi + 1)
         /\ ~(p.type = "Data" /\ p.id = i) => Flight(Append(q, p), i, lo, hi)
<1>. DEFINE a == Append(q, p)
<1>1. /\ a \in Seq(Packet) /\ Len(q) \in Nat /\ Len(a) = Len(q) + 1
      /\ \A k \in 1..Len(q) : k \in 1..Len(a) /\ a[k] = q[k]
      /\ a[Len(q) + 1] = p
      /\ \A k \in 1..Len(a) : k \in 1..Len(q) \/ k = Len(q) + 1
  BY AppendOf
<1>. HIDE DEF a
<1>2. /\ \A k \in 1..Len(q) : IsData(a, k, i) <=> IsData(q, k, i)
      /\ IsData(a, Len(q) + 1, i) <=> p.type = "Data" /\ p.id = i
  BY <1>1 DEF IsData
<1>3. \A k \in 1..Len(q) : IsData(q, k, i) => q[k].val \in Nat
  BY DataIsNumbered
<1>4. \A v \in (lo + 1)..hi : \E k \in 1..Len(a) : IsData(a, k, i) /\ a[k].val = v
  <2>1. TAKE v \in (lo + 1)..hi
  <2>2. PICK k \in 1..Len(q) : IsData(q, k, i) /\ q[k].val = v
    BY DEF Flight
  <2>. QED  BY <1>1, <1>2, <2>2
<1>5. CASE p.type = "Data" /\ p.id = i /\ p.val = hi + 1
  <2>0. Len(q) + 1 \in 1..Len(a)
    BY <1>1
  <2>1. \A j, k \in 1..Len(a) :
          j < k /\ IsData(a, j, i) /\ IsData(a, k, i) => a[j].val < a[k].val
    <3>1. TAKE j, k \in 1..Len(a)
    <3>2. HAVE j < k /\ IsData(a, j, i) /\ IsData(a, k, i)
    <3>3. j \in 1..Len(q)
      BY <1>1, <3>2
    <3>4. CASE k = Len(q) + 1
      BY <1>1, <1>2, <1>3, <1>5, <3>2, <3>3, <3>4 DEF Flight
    <3>5. CASE k \in 1..Len(q)
      BY <1>1, <1>2, <3>2, <3>3, <3>5 DEF Flight
    <3>. QED  BY <1>1, <3>4, <3>5
  <2>2. \A k \in 1..Len(a) : IsData(a, k, i) => lo < a[k].val /\ a[k].val <= hi + 1
    <3>1. TAKE k \in 1..Len(a)
    <3>2. CASE k = Len(q) + 1
      BY <1>1, <1>5, <3>2 DEF Flight
    <3>3. CASE k \in 1..Len(q)
      BY <1>1, <1>2, <1>3, <3>3 DEF Flight
    <3>. QED  BY <1>1, <3>2, <3>3
  <2>3. \A v \in (lo + 1)..(hi + 1) :
          \E k \in 1..Len(a) : IsData(a, k, i) /\ a[k].val = v
    <3>1. TAKE v \in (lo + 1)..(hi + 1)
    <3>2. CASE v = hi + 1
      BY <1>1, <1>2, <1>5, <2>0, <3>2
    <3>3. CASE v # hi + 1
      BY <1>4, <3>3
    <3>. QED  BY <3>2, <3>3
  <2>4. lo <= hi + 1
    BY DEF Flight
  <2>. QED  BY <1>5, <2>1, <2>2, <2>3, <2>4 DEF Flight, a
<1>6. CASE ~(p.type = "Data" /\ p.id = i)
  <2>1. \A k \in 1..Len(a) : IsData(a, k, i) => k \in 1..Len(q)
    BY <1>1, <1>2, <1>6
  <2>2. \A j, k \in 1..Len(a) :
          j < k /\ IsData(a, j, i) /\ IsData(a, k, i) => a[j].val < a[k].val
    BY <1>1, <1>2, <2>1 DEF Flight
  <2>3. \A k \in 1..Len(a) : IsData(a, k, i) => lo < a[k].val /\ a[k].val <= hi
    BY <1>1, <1>2, <2>1 DEF Flight
  <2>. QED  BY <1>4, <1>6, <2>2, <2>3 DEF Flight, a
<1>. QED  BY <1>5, <1>6
-----------------------------------------------------------------------------
(* A stream with an entry has every payload it was sent that did not yet   *)
(* reach it in flight, once and in order; what reached it is numbered on   *)
(* from what was read; a stream the server was never told of has nothing.  *)
Complete == \A i \in streams : Flight(toClient, i, Reached(i), srvSent[i])

Numbered ==
  \A i \in Id :
    /\ \A k \in 1..Len(inbound[i]) : inbound[i][k] = got[i] + k
    /\ Held(i) => pval = got[i] + Len(inbound[i]) + 1

Unopened ==
  \A i \in Id : srv[i] = "none" =>
    srvSent[i] = 0 /\ got[i] = 0 /\ inbound[i] = <<>> /\ ~Held(i)

FlightIds ==
  \A k \in 1..Len(toClient) :
    /\ toClient[k].type = "Data" => srv[toClient[k].id] # "none"
    /\ toClient[k].type = "Close" => srv[toClient[k].id] = "closed"

(* Nothing comes behind a CLOSE, and until it is there the entry is.       *)
CloseIsLast ==
  \A j, k \in 1..Len(toClient) :
    j < k /\ toClient[j].type = "Close" => ~IsData(toClient, k, toClient[j].id)

Entries ==
  /\ \A i \in cut : i \notin streams
  /\ \A i \in Id : srv[i] = "connected" => i \in streams \/ i \in cut
  /\ \A i \in returned : i \in streams \/ i \in cut \/ srv[i] = "closed"
  /\ \A c \in Caller : /\ pc[c] = "connect" => sid[c] \in streams
                       /\ pc[c] = "close" => sid[c] \in cut

PipeInv == /\ Complete /\ Numbered /\ Unopened /\ FlightIds /\ CloseIsLast
           /\ Entries /\ PeerCloseRemoves

LEMMA ReachedIs ==
  ASSUME TypeOK, NEW i \in Id
  PROVE  /\ Reached(i) = got[i] + Len(inbound[i]) + (IF Held(i) THEN 1 ELSE 0)
         /\ Reached(i) \in Nat /\ got[i] \in Nat /\ srvSent[i] \in Nat
         /\ inbound[i] \in Seq(Nat) /\ Len(inbound[i]) \in Nat
<1>1. got[i] \in Nat /\ inbound[i] \in Seq(Nat) /\ srvSent[i] \in Nat
  BY DEF TypeOK, ReadTypeOK, NetTypeOK
<1>2. Len(Hand(i)) = IF Held(i) THEN 1 ELSE 0
  BY DEF Hand
<1>. QED  BY <1>1, <1>2 DEF Reached

(* A step that moves no payload, no entry and no view keeps PipeInv.       *)
LEMMA QuietPipe ==
  ASSUME TypeOK, PipeInv,
         UNCHANGED <<streams, srv, srvSent, toClient, inbound, got, returned, cut>>,
         \A i \in Id : (Held(i)' <=> Held(i)) /\ (Held(i) => pval' = pval),
         ppc = "dead" => ppc' = "dead",
         \A c \in Caller : pc'[c] \in {"connect", "close"} =>
                             pc'[c] = pc[c] /\ sid'[c] = sid[c]
  PROVE  PipeInv'
<1>1. \A i \in Id : Reached(i)' = Reached(i)
  <2>1. TAKE i \in Id
  <2>2. Len(Hand(i))' = Len(Hand(i))
    BY DEF Hand
  <2>. QED  BY <2>2 DEF Reached
<1>2. streams \subseteq Id
  BY DEF TypeOK, MuxTypeOK
<1>3. Complete' /\ Numbered' /\ Unopened'
  BY <1>1, <1>2 DEF PipeInv, Complete, Numbered, Unopened
<1>4. FlightIds' /\ CloseIsLast' /\ PeerCloseRemoves'
  BY DEF PipeInv, FlightIds, CloseIsLast, PeerCloseRemoves, IsData
<1>5. Entries'
  BY DEF PipeInv, Entries
<1>. QED  BY <1>3, <1>4, <1>5 DEF PipeInv

-----------------------------------------------------------------------------
(* What a frame that is taken from the queue leaves of it.                 *)
LEMMA Popped ==
  ASSUME TypeOK, PipeInv, toClient # <<>>, toClient' = Tail(toClient), srv' = srv
  PROVE  /\ FlightIds' /\ CloseIsLast'
         /\ \A i \in Id : ~(toClient[1].type = "Close" /\ toClient[1].id = i)
              /\ (\E k \in 1..Len(toClient) :
                    toClient[k].type = "Close" /\ toClient[k].id = i)
              => \E k \in 1..Len(toClient') :
                    toClient'[k].type = "Close" /\ toClient'[k].id = i
         /\ Head(toClient) = toClient[1] /\ 1 \in 1..Len(toClient)
         /\ \A k \in 1..Len(toClient) : k > 1 /\ toClient[1].type = "Close" =>
              ~IsData(toClient, k, toClient[1].id)
<1>. DEFINE q == toClient
<1>0. q \in Seq(Packet) /\ toClient' = Tail(q) /\ q # <<>>
  BY DEF TypeOK, NetTypeOK
<1>1. /\ Len(q) \in Nat /\ Len(q) > 0 /\ Head(q) = q[1] /\ Len(toClient') = Len(q) - 1
      /\ \A k \in 1..Len(toClient') : k + 1 \in 1..Len(q) /\ toClient'[k] = q[k + 1]
      /\ \A k \in 1..Len(q) : k = 1 \/ (k - 1 \in 1..Len(toClient')
                                         /\ toClient'[k - 1] = q[k])
  BY <1>0, TailOf
<1>2. FlightIds'
  BY <1>1 DEF PipeInv, FlightIds
<1>3. CloseIsLast'
  <2>1. SUFFICES ASSUME NEW j \in 1..Len(toClient'), NEW k \in 1..Len(toClient'),
                        j < k, toClient'[j].type = "Close"
                 PROVE  ~IsData(toClient', k, toClient'[j].id)
    BY DEF CloseIsLast, IsData
  <2>2. /\ j + 1 \in 1..Len(q) /\ k + 1 \in 1..Len(q) /\ j + 1 < k + 1
        /\ toClient'[j] = q[j + 1] /\ toClient'[k] = q[k + 1]
    BY <1>1, <2>1
  <2>. QED  BY <2>1, <2>2 DEF PipeInv, CloseIsLast, IsData
<1>4. ASSUME NEW i \in Id, ~(q[1].type = "Close" /\ q[1].id = i),
             NEW k \in 1..Len(q), q[k].type = "Close", q[k].id = i
      PROVE  \E n \in 1..Len(toClient') :
               toClient'[n].type = "Close" /\ toClient'[n].id = i
  BY <1>1, <1>4
<1>5. 1 \in 1..Len(q)
  BY <1>1
<1>. QED  BY <1>1, <1>2, <1>3, <1>4, <1>5 DEF PipeInv, CloseIsLast

LEMMA DispatchPipe == IdInv /\ PipeInv /\ Dispatch => PipeInv'
<1>. SUFFICES ASSUME IdInv, PipeInv, Dispatch PROVE PipeInv'
  OBVIOUS
<1>. DEFINE q == toClient  p == toClient[1]
<1>0. TypeOK /\ TypeOK'
  BY PumpType DEF IdInv, Pump
<1>1. /\ ppc = "recv" /\ toClient # <<>> /\ toClient' = Tail(toClient)
      /\ UNCHANGED <<inbound, got, srv, srvSent, pc, sid, returned, cut>>
      /\ DispatchData(p) \/ DispatchContinue(p) \/ DispatchClose(p) \/ DispatchOther(p)
  <2>1. Head(toClient) = p
    BY <1>0, Popped DEF Dispatch, TypeOK, NetTypeOK
  <2>. QED  BY <2>1 DEF Dispatch, taskVars, readVars
<1>2. /\ FlightIds' /\ CloseIsLast' /\ 1 \in 1..Len(q)
      /\ \A i \in Id : ~(p.type = "Close" /\ p.id = i)
              /\ (\E k \in 1..Len(toClient) :
                    toClient[k].type = "Close" /\ toClient[k].id = i)
              => \E k \in 1..Len(toClient') :
                    toClient'[k].type = "Close" /\ toClient'[k].id = i
      /\ \A k \in 1..Len(q) : k > 1 /\ p.type = "Close" => ~IsData(q, k, p.id)
  BY <1>0, <1>1, Popped
<1>3. /\ q \in Seq(Packet) /\ p \in Packet /\ streams \subseteq Id
      /\ \A i \in Id : /\ got[i] \in Nat /\ Len(inbound[i]) \in Nat /\ srvSent[i] \in Nat
                       /\ Reached(i) = got[i] + Len(inbound[i])
                       /\ Reached(i)' = got[i] + Len(inbound[i]) + (IF Held(i)' THEN 1 ELSE 0)
  <2>1. ASSUME NEW i \in Id
        PROVE  /\ Reached(i) = got[i] + Len(inbound[i])
               /\ Reached(i)' = got[i] + Len(inbound[i]) + (IF Held(i)' THEN 1 ELSE 0)
    <3>1. ~Held(i) /\ Reached(i) = got[i] + Len(inbound[i])
      BY <1>0, <1>1, ReachedIs DEF Held
    <3>2. Len(Hand(i))' = IF Held(i)' THEN 1 ELSE 0
      BY DEF Hand
    <3>. QED  BY <1>1, <3>1, <3>2 DEF Reached
  <2>2. streams \subseteq Id /\ q \in Seq(Packet)
    BY <1>0 DEF TypeOK, MuxTypeOK, NetTypeOK
  <2>3. p \in Packet
    BY <1>2, <2>2
  <2>. QED  BY <1>0, <2>1, <2>2, <2>3, ReachedIs
<1>4. \A i \in streams :
        /\ IsData(q, 1, i) => /\ p.val = Reached(i) + 1
                              /\ Flight(toClient', i, Reached(i) + 1, srvSent[i])
        /\ ~IsData(q, 1, i) => Flight(toClient', i, Reached(i), srvSent[i])
  <2>1. TAKE i \in streams
  <2>2. Flight(q, i, Reached(i), srvSent[i]) /\ Reached(i) \in Nat /\ i \in Id
    BY <1>3 DEF PipeInv, Complete
  <2>. QED  BY <1>1, <1>3, <2>2, FlightPop
<1>. HIDE DEF p, q
<1>5. CASE DispatchData(p) /\ p.id \in streams
  <2>1. /\ p.type = "Data" /\ ppc' = "deliver" /\ pid' = p.id /\ pval' = p.val
        /\ UNCHANGED streams
    BY <1>5 DEF DispatchData
  <2>2. \A i \in Id : (Held(i)' <=> i = p.id) /\ (IsData(q, 1, i) <=> i = p.id)
    BY <2>1 DEF Held, IsData, p, q
  <2>3. Complete'
    BY <1>1, <1>3, <1>4, <2>1, <2>2 DEF Complete
  <2>4. Numbered'
    BY <1>1, <1>3, <1>4, <1>5, <2>1, <2>2 DEF PipeInv, Numbered
  <2>5. Unopened'
    BY <1>1, <1>2, <1>5, <2>1, <2>2 DEF PipeInv, Unopened, FlightIds, p, q
  <2>6. Entries' /\ PeerCloseRemoves'
    BY <1>1, <1>2, <1>3, <2>1 DEF PipeInv, Entries, PeerCloseRemoves
  <2>. QED  BY <1>2, <2>3, <2>4, <2>5, <2>6 DEF PipeInv
<1>6. CASE ~(DispatchData(p) /\ p.id \in streams)
  <2>1. /\ \A i \in Id : ~Held(i)'
        /\ \A i \in streams' : ~IsData(q, 1, i)
        /\ streams' = IF p.type = "Close" THEN streams \ {p.id} ELSE streams
    BY <1>1, <1>6 DEF DispatchData, DispatchContinue, DispatchClose, DispatchOther,
       RemoveEntry, ToWake, pumpVars, Held, IsData, p, q
  <2>2. Complete'
    BY <1>1, <1>3, <1>4, <2>1 DEF Complete
  <2>3. Numbered' /\ Unopened'
    BY <1>1, <2>1 DEF PipeInv, Numbered, Unopened, Held
  <2>4. Entries'
    <3>1. p.type = "Close" => srv[p.id] = "closed"
      BY <1>2 DEF PipeInv, FlightIds, p, q
    <3>2. \A c \in Caller : pc[c] = "connect" => srv[sid[c]] = "none"
      BY DEF IdInv, OwnIds, Opening
    <3>. QED  BY <1>1, <2>1, <3>1, <3>2 DEF PipeInv, Entries
  <2>5. PeerCloseRemoves'
    BY <1>1, <1>2, <1>3, <2>1 DEF PipeInv, PeerCloseRemoves
  <2>. QED  BY <1>2, <2>2, <2>3, <2>4, <2>5 DEF PipeInv
<1>. QED  BY <1>5, <1>6

(* Until the handshake is done nobody has a stream.                        *)
Early ==
  /\ ppc \in {"hello", "sendInfo", "continue"} => handshake = "Pending"
  /\ handshake = "Pending" =>
       streams = {} /\ returned = {} /\ \A c \in Caller : pc[c] = "idle"

LEMMA EarlyStep == TypeOK /\ Early /\ [Next]_vars => Early'
<1>. SUFFICES ASSUME TypeOK, Early, [Next]_vars PROVE Early'
  OBVIOUS
<1>1. CASE Pump
  <2>1. CASE RecvHello \/ RecvContinue
    BY <2>1 DEF RecvHello, RecvContinue, Establish, Early, taskVars
  <2>2. CASE Dispatch \/ Wake
    <3>1. ppc \notin {"hello", "sendInfo", "continue"} /\ UNCHANGED <<handshake, returned>>
          /\ ppc' \notin {"hello", "sendInfo", "continue"}
      BY <2>2 DEF Dispatch, DispatchData, DispatchContinue, DispatchClose, DispatchOther,
         ToWake, pumpVars, Wake, muxVars, taskVars
    <3>2. streams' \subseteq streams /\ \A c \in Caller : pc[c] = "idle" => pc'[c] = "idle"
      BY <2>2 DEF Dispatch, DispatchData, DispatchContinue, DispatchClose, DispatchOther,
         RemoveEntry, Wake, IsWaiter, WaitersNow, muxVars, taskVars
    <3>. QED  BY <3>1, <3>2 DEF Early
  <2>3. CASE SendInfo \/ Deliver \/ RecvFails
    BY <2>3 DEF SendInfo, Deliver, RecvFails, Early, muxVars, taskVars
  <2>. QED  BY <1>1, <2>1, <2>2, <2>3 DEF Pump
<1>2. ASSUME NEW c \in Caller, Call(c) PROVE Early'
  <2>1. UNCHANGED <<handshake, ppc>>
    BY <1>2 DEF Call, Progress, OpenAlloc, OpenInsert, OpenConnect, SendRegister, SendData,
       CloseSend, Cancel, SendLock, CloseRemove, pumpVars, muxVars
  <2>2. handshake = "Pending" => pc[c] = "idle" /\ returned = {}
    BY <1>2 DEF Early
  <2>3. handshake # "Pending"
    BY <1>2, <2>2 DEF Call, Progress, OpenAlloc, OpenInsert, OpenConnect, SendRegister,
       SendData, CloseSend, Cancel, SendLock, CloseRemove, Usable
  <2>. QED  BY <2>1, <2>3 DEF Early
<1>3. CASE Reader \/ Server \/ UNCHANGED vars
  BY <1>3 DEF Reader, Recv, RecvEof, Server, ServerHello, ServerOdd, LinkFails, ServerData,
     ServerContinue, ServerClose, vars, muxVars, taskVars, pumpVars, Early
<1>. QED  BY <1>1, <1>2, <1>3 DEF Next

LEMMA PumpPipe == IdInv /\ PipeInv /\ Early /\ Pump => PipeInv'
<1>. SUFFICES ASSUME IdInv, PipeInv, Early, Pump PROVE PipeInv'
  OBVIOUS
<1>0. TypeOK /\ TypeOK'
  BY PumpType DEF IdInv
<1>1. CASE RecvHello \/ RecvContinue
  <2>1. /\ toClient # <<>> /\ toClient' = Tail(toClient) /\ streams = {} /\ returned = {}
        /\ \A i \in Id : ~Held(i) /\ ~Held(i)'
        /\ UNCHANGED <<streams, inbound, got, srv, srvSent, pc, sid, returned, cut>>
    BY <1>1 DEF RecvHello, RecvContinue, Establish, taskVars, readVars, histVars, Early, Held
  <2>2. FlightIds' /\ CloseIsLast'
    BY <1>0, <2>1, Popped
  <2>3. Complete' /\ PeerCloseRemoves' /\ Numbered' /\ Unopened'
    BY <2>1 DEF PipeInv, Complete, PeerCloseRemoves, Numbered, Unopened
  <2>4. Entries'
    BY <2>1 DEF PipeInv, Entries
  <2>. QED  BY <2>2, <2>3, <2>4 DEF PipeInv
<1>2. CASE Deliver
  <2>1. /\ ppc = "deliver" /\ pid \in Id /\ ppc' = "recv"
        /\ inbound' = [inbound EXCEPT ![pid] = Append(@, pval)]
        /\ UNCHANGED <<streams, srv, srvSent, toClient, got, returned, cut, pc, sid>>
    BY <1>0, <1>2 DEF Deliver, muxVars, taskVars, netVars, histVars, TypeOK, PumpTypeOK
  <2>2. /\ inbound \in [Id -> Seq(Nat)] /\ pval \in Nat /\ streams \subseteq Id
    BY <1>0 DEF TypeOK, ReadTypeOK, PumpTypeOK, MuxTypeOK
  <2>3. /\ Held(pid) /\ \A i \in Id : (Held(i) <=> i = pid) /\ ~Held(i)'
    BY <2>1 DEF Held
  <2>4. \A i \in Id \ {pid} : inbound'[i] = inbound[i]
    BY <2>1, <2>2
  <2>5. /\ inbound'[pid] = Append(inbound[pid], pval) /\ inbound[pid] \in Seq(Nat)
    BY <2>1, <2>2
  <2>6. /\ Len(inbound'[pid]) = Len(inbound[pid]) + 1 /\ Len(inbound[pid]) \in Nat
        /\ \A k \in 1..Len(inbound[pid]) : inbound'[pid][k] = inbound[pid][k]
        /\ inbound'[pid][Len(inbound[pid]) + 1] = pval
        /\ \A k \in 1..Len(inbound'[pid]) : k \in 1..Len(inbound[pid])
                                            \/ k = Len(inbound[pid]) + 1
    BY <2>2, <2>5, AppendOf
  <2>7. ASSUME NEW i \in Id PROVE Reached(i)' = Reached(i)
    <3>1. Reached(i) = got[i] + Len(inbound[i]) + (IF Held(i) THEN 1 ELSE 0)
          /\ got[i] \in Nat /\ Len(inbound[i]) \in Nat
      BY <1>0, ReachedIs
    <3>2. Len(Hand(i))' = 0
      BY <2>3 DEF Hand
    <3>3. Reached(i)' = got[i] + Len(inbound'[i])
      BY <2>1, <2>4, <2>6, <3>1, <3>2 DEF Reached
    <3>4. CASE i = pid
      <4>1. Reached(i) = got[i] + Len(inbound[i]) + 1
        BY <2>3, <3>1, <3>4
      <4>. QED  BY <2>6, <3>1, <3>3, <3>4, <4>1
    <3>5. CASE i # pid
      <4>1. Reached(i) = got[i] + Len(inbound[i]) + 0
        BY <2>3, <3>1, <3>5
      <4>. QED  BY <2>4, <3>1, <3>3, <3>5, <4>1
    <3>. QED  BY <3>4, <3>5
  <2>8. Complete'
    BY <2>1, <2>2, <2>7 DEF PipeInv, Complete
  <2>9. Numbered'
    <3>1. pval = got[pid] + (Len(inbound[pid]) + 1)
      BY <1>0, <2>1, <2>3, ReachedIs DEF PipeInv, Numbered
    <3>2. ASSUME NEW i \in Id, NEW k \in 1..Len(inbound'[i])
          PROVE  inbound'[i][k] = got[i] + k
      BY <2>1, <2>4, <2>6, <3>1 DEF PipeInv, Numbered
    <3>. QED  BY <2>1, <2>3, <3>2 DEF Numbered
  <2>10. Unopened'
    BY <2>1, <2>3, <2>4 DEF PipeInv, Unopened
  <2>11. FlightIds' /\ CloseIsLast' /\ Entries' /\ PeerCloseRemoves'
    BY <2>1 DEF PipeInv, FlightIds, CloseIsLast, IsData, Entries, PeerCloseRemoves
  <2>. QED  BY <2>8, <2>9, <2>10, <2>11 DEF PipeInv
<1>3. CASE SendInfo \/ Wake \/ RecvFails
  <2>1. /\ UNCHANGED <<streams, srv, srvSent, toClient, inbound, got, returned, cut>>
        /\ \A i \in Id : ~Held(i) /\ ~Held(i)'
        /\ ppc = "dead" => ppc' = "dead"
    BY <1>3 DEF SendInfo, Wake, RecvFails, Held, muxVars, taskVars, readVars, netVars, histVars
  <2>2. \A c \in Caller : pc'[c] \in {"connect", "close"} => pc'[c] = pc[c] /\ sid'[c] = sid[c]
    BY <1>3 DEF SendInfo, Wake, RecvFails, IsWaiter, WaitersNow, taskVars
  <2>. QED  BY <1>0, <2>1, <2>2, QuietPipe
<1>. QED  BY <1>1, <1>2, <1>3, DispatchPipe DEF Pump

-----------------------------------------------------------------------------
(* The steps of a task that touch an entry, or the server's view.          *)
LEMMA CallPipe ==
  ASSUME IdInv, PipeInv, NEW c \in Caller, Call(c)
  PROVE  PipeInv'
<1>0. TypeOK /\ TypeOK'
  BY CallType DEF IdInv
<1>a. /\ pc \in [Caller -> {"idle", "insert", "connect", "woken", "await",
                            "waiting", "data", "close"}]
      /\ sid \in [Caller -> 0..MaxU32] /\ returned \subseteq Id /\ streams \subseteq Id
      /\ \A d \in Caller : pc[d] # "idle" => sid[d] \in Id
      /\ srv \in [Id -> View] /\ cut \subseteq Id
  BY <1>0 DEF TypeOK, TaskTypeOK, NetTypeOK, HistTypeOK, MuxTypeOK
<1>b. UNCHANGED <<toClient, srvSent, inbound, got, ppc, pid, pval>>
  BY DEF Call, Progress, OpenAlloc, OpenInsert, OpenConnect, SendRegister, SendData,
     CloseSend, Cancel, SendLock, CloseRemove, Transmit, netVars, readVars, pumpVars
<1>c. \A i \in Id : Reached(i)' = Reached(i) /\ (Held(i)' <=> Held(i))
  BY <1>b DEF Reached, Hand, Held
<1>d. Numbered'
  BY <1>b, <1>c DEF PipeInv, Numbered
<1>e. CloseIsLast'
  BY <1>b DEF PipeInv, CloseIsLast, IsData
<1>1. CASE OpenInsert(c)
  <2>. DEFINE i == sid[c]
  <2>1. /\ i \in Id /\ srv[i] = "none" /\ i \notin cut /\ i \notin streams
        /\ streams' = streams \cup {i} /\ UNCHANGED <<srv, cut, sid, returned>>
        /\ pc' = [pc EXCEPT ![c] = "connect"]
    BY <1>1, <1>a DEF OpenInsert, IdInv, OwnIds, Opening, netVars
  <2>2. /\ srvSent[i] = 0 /\ Reached(i) = 0
        /\ \A k \in 1..Len(toClient) : ~IsData(toClient, k, i)
    <3>1. srvSent[i] = 0 /\ got[i] = 0 /\ inbound[i] = <<>> /\ ~Held(i)
      BY <2>1 DEF PipeInv, Unopened
    <3>2. Reached(i) = 0
      BY <3>1 DEF Reached, Hand
    <3>. QED  BY <2>1, <3>1, <3>2 DEF PipeInv, FlightIds, IsData
  <2>3. Flight(toClient, i, 0, 0)
    BY <2>2 DEF Flight
  <2>4. Complete'
    BY <1>a, <1>b, <1>c, <2>1, <2>2, <2>3 DEF PipeInv, Complete
  <2>5. Unopened' /\ FlightIds' /\ PeerCloseRemoves'
    BY <1>b, <1>c, <2>1 DEF PipeInv, Unopened, FlightIds, PeerCloseRemoves
  <2>6. Entries'
    BY <1>a, <2>1 DEF PipeInv, Entries
  <2>. QED  BY <1>d, <1>e, <2>4, <2>5, <2>6 DEF PipeInv
<1>2. CASE OpenConnect(c)
  <2>. DEFINE i == sid[c]
  <2>1. /\ i \in Id /\ srv[i] = "none" /\ i \in streams
        /\ srv' = IF link = "up" THEN [srv EXCEPT ![i] = "connected"] ELSE srv
        /\ UNCHANGED <<streams, cut>> /\ returned' \subseteq returned \cup {i}
        /\ pc' = [pc EXCEPT ![c] = "idle"] /\ \A d \in Caller \ {c} : sid'[d] = sid[d]
    BY <1>2, <1>a DEF OpenConnect, IdInv, OwnIds, Opening, Transmit, ServerView, Return,
       muxVars, histVars, PipeInv, Entries
  <2>2. Complete' /\ Unopened' /\ FlightIds' /\ PeerCloseRemoves'
    BY <1>a, <1>b, <1>c, <2>1 DEF PipeInv, Complete, Unopened, FlightIds, PeerCloseRemoves
  <2>3. Entries'
    BY <1>a, <2>1 DEF PipeInv, Entries
  <2>. QED  BY <1>d, <1>e, <2>2, <2>3 DEF PipeInv
<1>3. CASE SendData(c) \/ CloseSend(c)
  <2>. DEFINE i == sid[c]
  <2>1. /\ i \in Id /\ (link = "up" => srv[i] # "none")
        /\ CloseSend(c) => i \in cut
    BY <1>3, <1>a DEF SendData, CloseSend, IdInv, CallIds, ReturnedIds, Opening, PipeInv, Entries
  <2>2. /\ \A j \in Id : srv'[j] = srv[j] \/ (srv[j] # "none" /\ srv'[j] = "closed" /\ j \in cut)
        /\ UNCHANGED <<streams, cut, returned>>
        /\ pc' = [pc EXCEPT ![c] = "idle"] /\ \A d \in Caller \ {c} : sid'[d] = sid[d]
    BY <1>3, <1>a, <2>1 DEF SendData, CloseSend, Transmit, ServerView, Return, View,
       muxVars, histVars
  <2>3. Complete' /\ Unopened'
    BY <1>a, <1>b, <1>c, <2>2 DEF PipeInv, Complete, Unopened
  <2>4. FlightIds'
    <3>1. \A k \in 1..Len(toClient) : toClient[k].type \in {"Data", "Close"} =>
            toClient[k].id \in Id
      <4>1. toClient \in Seq(Packet)
        BY <1>0 DEF TypeOK, NetTypeOK
      <4>2. \A k \in 1..Len(toClient) : toClient[k] \in Packet
        BY <4>1
      <4>. QED  BY <4>2 DEF Packet
    <3>. QED  BY <1>b, <2>2, <3>1 DEF PipeInv, FlightIds
  <2>5. PeerCloseRemoves' /\ Entries'
    BY <1>a, <1>b, <2>2 DEF PipeInv, PeerCloseRemoves, Entries
  <2>. QED  BY <1>d, <1>e, <2>3, <2>4, <2>5 DEF PipeInv
<1>4. ASSUME NEW i \in Id, CloseRemove(c, i) PROVE PipeInv'
  <2>1. /\ i \in returned /\ streams' = streams \ {i} /\ cut' = cut \cup {i}
        /\ UNCHANGED <<srv, returned>> /\ pc' = [pc EXCEPT ![c] = "close"]
        /\ sid' = [sid EXCEPT ![c] = i]
    BY <1>4 DEF CloseRemove, Usable, RemoveEntry, netVars
  <2>2. \A d \in Caller : pc[d] = "connect" => sid[d] # i
    BY <2>1 DEF IdInv, OwnIds, Opening
  <2>3. Complete' /\ Unopened' /\ FlightIds' /\ PeerCloseRemoves'
    BY <1>a, <1>b, <1>c, <2>1 DEF PipeInv, Complete, Unopened, FlightIds, PeerCloseRemoves
  <2>4. Entries'
    BY <1>a, <2>1, <2>2 DEF PipeInv, Entries
  <2>. QED  BY <1>d, <1>e, <2>3, <2>4 DEF PipeInv
<1>5. ASSUME OpenAlloc(c) \/ SendRegister(c) \/ Cancel(c) \/ (\E i \in Id : SendLock(c, i))
      PROVE  PipeInv'
  <2>1. UNCHANGED <<streams, srv, returned, cut>>
    BY <1>5 DEF OpenAlloc, SendRegister, Cancel, SendLock, netVars, histVars, muxVars
  <2>2. \A d \in Caller : pc'[d] \in {"connect", "close"} => pc'[d] = pc[d] /\ sid'[d] = sid[d]
    BY <1>5, <1>a DEF OpenAlloc, SendRegister, Cancel, SendLock, Return
  <2>. QED  BY <1>0, <1>b, <1>c, <2>1, <2>2, QuietPipe
<1>. QED  BY <1>1, <1>2, <1>3, <1>4, <1>5, <1>a DEF Call, Progress

LEMMA ReaderPipe == IdInv /\ PipeInv /\ Reader => PipeInv'
<1>. SUFFICES ASSUME IdInv, PipeInv, NEW i \in Id, Recv(i) \/ RecvEof(i) PROVE PipeInv'
  BY DEF Reader
<1>0. TypeOK
  BY DEF IdInv
<1>1. CASE RecvEof(i)
  BY <1>0, <1>1, QuietPipe DEF RecvEof, Held, muxVars, taskVars, pumpVars, netVars, histVars
<1>2. CASE Recv(i)
  <2>1. /\ inbound[i] # <<>> /\ i \in returned
        /\ got' = [got EXCEPT ![i] = Head(inbound[i])]
        /\ inbound' = [inbound EXCEPT ![i] = Tail(@)]
        /\ UNCHANGED <<streams, srv, srvSent, toClient, returned, cut, pc, sid, ppc, pid, pval>>
    BY <1>2 DEF Recv, Usable, muxVars, taskVars, pumpVars, netVars, histVars
  <2>2. inbound \in [Id -> Seq(Nat)] /\ got \in [Id -> Nat] /\ streams \subseteq Id
    BY <1>0 DEF TypeOK, ReadTypeOK, MuxTypeOK
  <2>3. inbound[i] \in Seq(Nat) /\ inbound'[i] = Tail(inbound[i]) /\ got'[i] = Head(inbound[i])
    BY <2>1, <2>2
  <2>4. /\ Len(inbound[i]) \in Nat /\ Len(inbound[i]) > 0
        /\ Len(inbound'[i]) = Len(inbound[i]) - 1 /\ got'[i] = inbound[i][1]
        /\ \A k \in 1..Len(inbound'[i]) :
             k + 1 \in 1..Len(inbound[i]) /\ inbound'[i][k] = inbound[i][k + 1]
    <3>1. PICK q \in Seq(Nat) : q = inbound[i]
      BY <2>3
    <3>2. q # <<>> /\ inbound'[i] = Tail(q) /\ got'[i] = Head(q)
      BY <2>1, <2>3, <3>1
    <3>3. /\ Len(q) \in Nat /\ Len(q) > 0 /\ Len(Tail(q)) = Len(q) - 1 /\ Head(q) = q[1]
          /\ \A k \in 1..Len(Tail(q)) : k + 1 \in 1..Len(q) /\ Tail(q)[k] = q[k + 1]
      BY <3>2, TailOf
    <3>. QED  BY <3>1, <3>2, <3>3
  <2>5. /\ \A k \in 1..Len(inbound[i]) : inbound[i][k] = got[i] + k
        /\ Held(i) => pval = got[i] + Len(inbound[i]) + 1
        /\ got[i] \in Nat
    BY <2>2 DEF PipeInv, Numbered
  <2>6. got'[i] = got[i] + 1
    BY <2>4, <2>5
  <2>6a. got'[i] + Len(inbound'[i]) = got[i] + Len(inbound[i])
    <3>1. Len(inbound'[i]) = Len(inbound[i]) - 1 /\ Len(inbound[i]) \in Nat
      BY <2>4
    <3>2. got'[i] = got[i] + 1 /\ got[i] \in Nat
      BY <2>5, <2>6
    <3>. QED  BY <3>1, <3>2
  <2>7. \A j \in Id \ {i} : got'[j] = got[j] /\ inbound'[j] = inbound[j]
    BY <2>1, <2>2
  <2>8. \A j \in Id : Len(Hand(j))' = Len(Hand(j)) /\ (Held(j)' <=> Held(j))
    BY <2>1 DEF Hand, Held
  <2>9. ASSUME NEW j \in Id PROVE Reached(j)' = Reached(j)
    <3>1. Len(Hand(j)) \in Nat
      BY DEF Hand
    <3>2. CASE j = i
      <4>1. got'[i] + Len(inbound'[i]) = got[i] + Len(inbound[i])
        BY <2>6a
      <4>. QED  BY <2>8, <3>2, <4>1 DEF Reached
    <3>3. CASE j # i
      BY <2>7, <2>8, <3>3 DEF Reached
    <3>. QED  BY <3>2, <3>3
  <2>10. Complete'
    BY <2>1, <2>2, <2>9 DEF PipeInv, Complete
  <2>11. Numbered'
    <3>1. ASSUME NEW k \in 1..Len(inbound'[i]) PROVE inbound'[i][k] = got'[i] + k
      <4>1. k + 1 \in 1..Len(inbound[i]) /\ inbound'[i][k] = inbound[i][k + 1] /\ k \in Nat
        BY <2>4
      <4>2. inbound[i][k + 1] = got[i] + (k + 1)
        BY <2>5, <4>1
      <4>3. got[i] \in Nat /\ inbound'[i][k] = got[i] + (k + 1)
        BY <2>5, <4>1, <4>2
      <4>. QED  BY <2>6, <4>1, <4>3
    <3>2. Held(i) => pval = got'[i] + Len(inbound'[i]) + 1
      <4>1. got'[i] + Len(inbound'[i]) = got[i] + Len(inbound[i])
        BY <2>6a
      <4>. QED  BY <2>5, <4>1
    <3>. QED  BY <2>1, <2>7, <2>8, <3>1, <3>2 DEF PipeInv, Numbered
  <2>12. Unopened'
    <3>1. srv[i] # "none"
      BY <2>1 DEF PipeInv, Unopened
    <3>. QED  BY <2>1, <2>7, <2>8, <3>1 DEF PipeInv, Unopened
  <2>13. FlightIds' /\ CloseIsLast' /\ Entries' /\ PeerCloseRemoves'
    BY <2>1 DEF PipeInv, FlightIds, CloseIsLast, IsData, Entries, PeerCloseRemoves
  <2>. QED  BY <2>10, <2>11, <2>12, <2>13 DEF PipeInv
<1>. QED  BY <1>1, <1>2

(* A frame of the server goes behind those that are in flight.             *)
LEMMA Pushed ==
  ASSUME TypeOK, PipeInv, NEW p \in Packet, Push(p),
         srv' = srv \/ (p.type = "Close" /\ p.id \in Id /\ srv' = [srv EXCEPT ![p.id] = "closed"]),
         p.type \in {"Data", "Close"} => srv[p.id] = "connected",
         p.type = "Close" => srv'[p.id] = "closed",
         UNCHANGED <<streams, ppc>>
  PROVE  FlightIds' /\ CloseIsLast' /\ PeerCloseRemoves'
<1>. DEFINE q == toClient
<1>0. q \in Seq(Packet) /\ toClient' = Append(q, p)
  BY DEF TypeOK, NetTypeOK, Push
<1>1. /\ Len(q) \in Nat /\ Len(toClient') = Len(q) + 1
      /\ \A k \in 1..Len(q) : k \in 1..Len(toClient') /\ toClient'[k] = q[k]
      /\ toClient'[Len(q) + 1] = p /\ Len(q) + 1 \in 1..Len(toClient')
      /\ \A k \in 1..Len(toClient') : k \in 1..Len(q) \/ k = Len(q) + 1
  BY <1>0, AppendOf
<1>2. \A k \in 1..Len(q) : q[k] \in Packet
  BY <1>0
<1>3. srv \in [Id -> View] /\ streams \subseteq Id
  BY DEF TypeOK, NetTypeOK, MuxTypeOK
<1>4. \A i \in Id : (srv[i] # "none" => srv'[i] # "none") /\ (srv[i] = "closed" => srv'[i] = "closed")
  BY <1>3
<1>5. FlightIds'
  <2>1. \A k \in 1..Len(q) : q[k].type \in {"Data", "Close"} => q[k].id \in Id
    BY <1>2 DEF Packet
  <2>2. p.type \in {"Data", "Close"} => p.id \in Id
    BY DEF Packet
  <2>. QED  BY <1>1, <1>4, <2>1, <2>2 DEF PipeInv, FlightIds
<1>6. CloseIsLast'
  <2>1. SUFFICES ASSUME NEW j \in 1..Len(toClient'), NEW k \in 1..Len(toClient'), j < k,
                        toClient'[j].type = "Close"
                 PROVE  ~IsData(toClient', k, toClient'[j].id)
    BY DEF CloseIsLast, IsData
  <2>2. j \in 1..Len(q) /\ toClient'[j] = q[j]
    BY <1>1, <2>1
  <2>3. CASE k \in 1..Len(q)
    BY <1>1, <2>1, <2>2, <2>3 DEF PipeInv, CloseIsLast, IsData
  <2>4. CASE k = Len(q) + 1
    <3>1. srv[q[j].id] = "closed"
      BY <2>1, <2>2 DEF PipeInv, FlightIds
    <3>. QED  BY <1>1, <2>2, <2>4, <3>1 DEF IsData
  <2>. QED  BY <1>1, <2>3, <2>4
<1>7. PeerCloseRemoves'
  BY <1>1, <1>3 DEF PipeInv, PeerCloseRemoves
<1>. QED  BY <1>5, <1>6, <1>7

LEMMA ServerPipe == IdInv /\ PipeInv /\ Server => PipeInv'
<1>. SUFFICES ASSUME IdInv, PipeInv, Server PROVE PipeInv'
  OBVIOUS
<1>0. TypeOK
  BY DEF IdInv
<1>1. /\ UNCHANGED <<streams, pc, sid, returned, ppc, pid, pval, inbound, got, cut>>
      /\ \A i \in Id : Reached(i)' = Reached(i) /\ (Held(i)' <=> Held(i))
  BY DEF Server, ServerHello, ServerOdd, LinkFails, ServerData, ServerContinue,
     ServerClose, muxVars, taskVars, pumpVars, readVars, histVars, Reached, Hand, Held
<1>2. /\ srv \in [Id -> View] /\ srvSent \in [Id -> Nat] /\ toClient \in Seq(Packet)
      /\ streams \subseteq Id
  BY <1>0 DEF TypeOK, NetTypeOK, MuxTypeOK
<1>3. Numbered'
  BY <1>1 DEF PipeInv, Numbered
<1>4. ASSUME NEW p \in Packet, Push(p), p.type # "Data", srvSent' = srvSent PROVE Complete'
  <2>1. \A i \in streams : Flight(Append(toClient, p), i, Reached(i), srvSent[i])
    BY <1>0, <1>2, <1>4, FlightPush, ReachedIs DEF PipeInv, Complete
  <2>. QED  BY <1>1, <1>2, <1>4, <2>1 DEF Complete, Push
<1>5. ASSUME NEW p \in Packet, Push(p), p.type \notin {"Data", "Close"},
             UNCHANGED <<srv, srvSent>>
      PROVE  PipeInv'
  <2>1. Complete' /\ FlightIds' /\ CloseIsLast' /\ PeerCloseRemoves'
    BY <1>0, <1>1, <1>4, <1>5, Pushed
  <2>2. Unopened' /\ Entries'
    BY <1>1, <1>5 DEF PipeInv, Unopened, Entries
  <2>. QED  BY <1>3, <2>1, <2>2 DEF PipeInv
<1>6. CASE ServerHello
  <2>1. Pkt("Info", 0, 0) \in Packet /\ \A n \in Grants : Pkt("Continue", 0, n) \in Packet
    BY ConstantsAssumption DEF Pkt, Packet
  <2>2. /\ Pkt("Info", 0, 0).type = "Info" /\ \A n \in Grants : Pkt("Continue", 0, n).type = "Continue"
    BY DEF Pkt
  <2>. QED  BY <1>5, <1>6, <2>1, <2>2 DEF ServerHello
<1>7. CASE ServerOdd
  <2>1. \A t \in {"Other", "Bad"} : Pkt(t, 0, 0) \in Packet /\ Pkt(t, 0, 0).type = t
    BY DEF Pkt, Packet
  <2>. QED  BY <1>5, <1>7, <2>1 DEF ServerOdd
<1>8. CASE LinkFails
  BY <1>0, <1>1, <1>8, QuietPipe DEF LinkFails
<1>9. ASSUME NEW i \in Id, ServerContinue(i) PROVE PipeInv'
  <2>1. \A n \in Grants : Pkt("Continue", i, n) \in Packet /\ Pkt("Continue", i, n).type = "Continue"
    BY ConstantsAssumption DEF Pkt, Packet, Id
  <2>. QED  BY <1>5, <1>9, <2>1 DEF ServerContinue
<1>10. ASSUME NEW i \in Id, ServerClose(i) PROVE PipeInv'
  <2>. DEFINE p == Pkt("Close", i, 0)
  <2>1. p \in Packet /\ p.type = "Close" /\ p.id = i
    BY DEF Pkt, Packet
  <2>. HIDE DEF p
  <2>2. /\ Push(p) /\ srv[i] = "connected" /\ srv' = [srv EXCEPT ![i] = "closed"]
        /\ srvSent' = srvSent
    BY <1>10 DEF ServerClose, p
  <2>3. srv'[i] = "closed"
    BY <1>2, <2>2
  <2>4. FlightIds' /\ CloseIsLast' /\ PeerCloseRemoves'
    BY <1>0, <1>1, <2>1, <2>2, <2>3, Pushed
  <2>5. Complete'
    BY <1>4, <2>1, <2>2
  <2>6. Unopened' /\ Entries'
    BY <1>1, <1>2, <2>2, <2>3 DEF PipeInv, Unopened, Entries
  <2>. QED  BY <1>3, <2>4, <2>5, <2>6 DEF PipeInv
<1>11. ASSUME NEW i \in Id, ServerData(i) PROVE PipeInv'
  <2>. DEFINE p == Pkt("Data", i, srvSent[i] + 1)
  <2>1. p \in Packet /\ p.type = "Data" /\ p.id = i /\ p.val = srvSent[i] + 1
    BY <1>2 DEF Pkt, Packet
  <2>. HIDE DEF p
  <2>2. /\ Push(p) /\ srv[i] = "connected" /\ srv' = srv
        /\ srvSent' = [srvSent EXCEPT ![i] = @ + 1]
    BY <1>11 DEF ServerData, p
  <2>3. FlightIds' /\ CloseIsLast' /\ PeerCloseRemoves'
    BY <1>0, <1>1, <2>1, <2>2, Pushed
  <2>4. ASSUME NEW j \in streams PROVE Flight(Append(toClient, p), j, Reached(j), srvSent'[j])
    <3>1. Flight(toClient, j, Reached(j), srvSent[j]) /\ Reached(j) \in Nat /\ srvSent[j] \in Nat
      BY <1>0, <1>2, ReachedIs DEF PipeInv, Complete
    <3>2. srvSent'[j] = IF j = i THEN srvSent[i] + 1 ELSE srvSent[j]
      BY <1>2, <2>2
    <3>. QED  BY <1>2, <2>1, <3>1, <3>2, FlightPush
  <2>5. Complete'
    BY <1>1, <1>2, <2>2, <2>4 DEF Complete, Push
  <2>6. Unopened' /\ Entries'
    BY <1>1, <1>2, <2>2 DEF PipeInv, Unopened, Entries
  <2>. QED  BY <1>3, <2>3, <2>5, <2>6 DEF PipeInv
<1>. QED  BY <1>6, <1>7, <1>8, <1>9, <1>10, <1>11 DEF Server

LEMMA PipeInvStep == IdInv /\ Early /\ PipeInv /\ [Next]_vars => PipeInv'
<1>. SUFFICES ASSUME IdInv, Early, PipeInv, [Next]_vars PROVE PipeInv'
  OBVIOUS
<1>1. CASE UNCHANGED vars
  <2>1. TypeOK
    BY DEF IdInv
  <2>. QED  BY <1>1, <2>1, QuietPipe DEF vars, muxVars, taskVars, pumpVars, readVars,
            netVars, histVars, Held
<1>. QED  BY <1>1, PumpPipe, CallPipe, ReaderPipe, ServerPipe DEF Next

LEMMA PipeInvInit == Init => Early /\ PipeInv
<1>. SUFFICES ASSUME Init PROVE Early /\ PipeInv
  OBVIOUS
<1>1. toClient = <<>> /\ Len(toClient) = 0 /\ streams = {} /\ returned = {} /\ cut = {}
  BY DEF Init
<1>2. Complete /\ FlightIds /\ CloseIsLast /\ PeerCloseRemoves
  BY <1>1 DEF Complete, FlightIds, CloseIsLast, PeerCloseRemoves
<1>3. Numbered /\ Unopened
  BY DEF Init, Numbered, Unopened, Held
<1>4. Entries /\ Early
  BY <1>1 DEF Init, Entries, Early
<1>. QED  BY <1>2, <1>3, <1>4 DEF PipeInv

DInv == IdInv /\ Early /\ PipeInv

LEMMA DInvHolds == Spec => []DInv
<1>1. Init => DInv
  BY IdInvInit, PipeInvInit DEF DInv
<1>2. DInv /\ [Next]_vars => DInv'
  <2>1. DInv /\ [Next]_vars => TypeOK
    BY DEF DInv, IdInv
  <2>. QED  BY <2>1, IdInvStep, EarlyStep, PipeInvStep DEF DInv
<1>. QED  BY <1>1, <1>2, PTL DEF Spec

(* The streams map forgets a stream the server closed, once the pump has   *)
(* come to its CLOSE.                                                      *)
THEOREM PeerCloseIsSeen == Spec => []PeerCloseRemoves
<1>1. DInv => PeerCloseRemoves
  BY DEF DInv, PipeInv
<1>. QED  BY <1>1, DInvHolds, PTL

-----------------------------------------------------------------------------
(* The refinement.  What is in transit on a stream is what follows the     *)
(* last payload read: up to the last one sent while the stream has its     *)
(* entry, and else what has reached the client.                            *)
Count(lo, n) == [k \in 1..n |-> lo + k]

Size(i) == IF i \in streams THEN srvSent[i] - got[i]
           ELSE Len(inbound[i]) + Len(Hand(i))

LEMMA CountIsSeq ==
  ASSUME NEW lo \in Nat, NEW n \in Nat
  PROVE  /\ Count(lo, n) \in Seq(Nat) /\ Len(Count(lo, n)) = n
         /\ \A k \in 1..n : Count(lo, n)[k] = lo + k
         /\ n = 0 <=> Count(lo, n) = <<>>
BY DEF Count

LEMMA IsCount ==
  ASSUME NEW s \in Seq(Nat), NEW lo \in Nat, NEW n \in Nat, Len(s) = n,
         \A k \in 1..n : s[k] = lo + k
  PROVE  s = Count(lo, n)
<1>1. Count(lo, n) \in Seq(Nat) /\ Len(Count(lo, n)) = n /\ \A k \in 1..n : Count(lo, n)[k] = lo + k
  BY CountIsSeq
<1>. QED  BY <1>1, SeqEqual

(* The provers rewrite the operators of Sequences before they look for an  *)
(* instance of a lemma; under names of their own they match.               *)
Cat(a, b) == a \o b
Snoc(s, v) == Append(s, v)
First(s) == Head(s)
Rest(s) == Tail(s)

LEMMA CountConcat ==
  ASSUME NEW lo \in Nat, NEW m \in Nat, NEW n \in Nat,
         NEW mid \in Nat, mid = lo + m, NEW all \in Nat, all = m + n
  PROVE  Cat(Count(lo, m), Count(mid, n)) = Count(lo, all)
<1>1. PICK a : a = Count(lo, m)
  OBVIOUS
<1>2. PICK b : b = Count(mid, n)
  OBVIOUS
<1>3. /\ a \in Seq(Nat) /\ Len(a) = m /\ \A k \in 1..m : a[k] = lo + k
      /\ b \in Seq(Nat) /\ Len(b) = n /\ \A k \in 1..n : b[k] = mid + k
  BY <1>1, <1>2, CountIsSeq
<1>4. a \o b \in Seq(Nat) /\ Len(a \o b) = m + n /\ m + n \in Nat
  <2>1. a \in Seq(Nat) /\ Len(a) = m /\ b \in Seq(Nat) /\ Len(b) = n
    BY <1>3
  <2>. QED  BY <2>1
<1>5. ASSUME NEW k \in 1..(m + n) PROVE (a \o b)[k] = lo + k
  <2>1. CASE k <= m
    BY <1>3, <2>1
  <2>2. CASE k > m
    <3>1. k - m \in 1..n /\ (a \o b)[k] = b[k - m]
      BY <1>3, <2>2
    <3>2. b[k - m] = mid + (k - m)
      BY <1>3, <3>1
    <3>. QED  BY <3>1, <3>2
  <2>3. k <= m \/ k > m
    OBVIOUS
  <2>. QED  BY <2>1, <2>2, <2>3
<1>6. Len(a \o b) = all /\ \A k \in 1..all : (a \o b)[k] = lo + k
  BY <1>4, <1>5
<1>. QED  BY <1>1, <1>2, <1>4, <1>6, IsCount DEF Cat

LEMMA TransitIsCount ==
  ASSUME DInv, NEW i \in Id
  PROVE  Size(i) \in Nat /\ got[i] \in Nat /\ InTransit(i) = Count(got[i], Size(i))
<1>0. TypeOK
  BY DEF DInv, IdInv
<1>1. /\ Reached(i) \in Nat /\ got[i] \in Nat /\ srvSent[i] \in Nat
      /\ inbound[i] \in Seq(Nat) /\ Len(inbound[i]) \in Nat
      /\ Len(Hand(i)) = (IF Held(i) THEN 1 ELSE 0)
      /\ Reached(i) = got[i] + Len(inbound[i]) + Len(Hand(i))
  BY <1>0, ReachedIs DEF Reached, Hand
<1>a. PICK g \in Nat : g = got[i]
  BY <1>1
<1>b. PICK l \in Nat : l = Len(inbound[i])
  BY <1>1
<1>c. PICK h \in Nat : h = Len(Hand(i))
  BY <1>1
<1>d. PICK m \in Nat : m = l + h
  OBVIOUS
<1>e. PICK mid \in Nat : mid = g + l
  OBVIOUS
<1>2. /\ g = got[i] /\ l = Len(inbound[i]) /\ h = Len(Hand(i))
      /\ Reached(i) = g + m
  <2>1. Reached(i) = g + l + h
    BY <1>1, <1>a, <1>b, <1>c
  <2>. QED  BY <1>a, <1>b, <1>c, <1>d, <2>1
<1>3. inbound[i] = Count(g, l)
  BY <1>1, <1>2, IsCount DEF DInv, PipeInv, Numbered
<1>4. Hand(i) = Count(mid, h)
  <2>1. CASE Held(i)
    <3>0. Hand(i) = <<pval>> /\ Len(Hand(i)) = 1 /\ pval \in Nat
          /\ pval = got[i] + Len(inbound[i]) + 1
      BY <1>0, <1>1, <2>1 DEF Hand, DInv, PipeInv, Numbered, TypeOK, PumpTypeOK
    <3>1. Hand(i) = <<pval>> /\ pval = mid + 1 /\ pval \in Nat /\ h = 1
      BY <3>0, <1>2, <1>e
    <3>2. /\ <<pval>> \in Seq(Nat) /\ Len(<<pval>>) = 1
          /\ \A k \in 1..1 : <<pval>>[k] = mid + k
      BY <3>1
    <3>3. <<pval>> = Count(mid, 1)
      BY <3>2, IsCount
    <3>. QED  BY <3>1, <3>3
  <2>2. CASE ~Held(i)
    <3>1. Hand(i) = <<>> /\ h = 0
      BY <1>1, <1>2, <2>2 DEF Hand
    <3>2. Count(mid, 0) = <<>>
      BY CountIsSeq
    <3>. QED  BY <3>1, <3>2
  <2>. QED  BY <2>1, <2>2
<1>5. inbound[i] \o Hand(i) = Count(g, m)
  <2>1. Cat(Count(g, l), Count(mid, h)) = Count(g, m)
    BY <1>d, <1>e, CountConcat
  <2>. QED  BY <1>3, <1>4, <2>1 DEF Cat
<1>6. CASE i \notin streams
  <2>1. Count(g, m) \in Seq(Nat)
    BY CountIsSeq
  <2>2. Size(i) = m
    BY <1>2, <1>6, <1>d DEF Size
  <2>. QED  BY <1>2, <1>5, <1>6, <2>1, <2>2 DEF InTransit
<1>7. CASE i \in streams
  <2>1. PICK n \in Nat : n = srvSent[i] - Reached(i)
    <3>1. Reached(i) <= srvSent[i]
      BY <1>7 DEF DInv, PipeInv, Complete, Flight
    <3>. QED  BY <1>1, <3>1
  <2>2. Payloads(i) = Count(Reached(i), n)
    BY <2>1 DEF Payloads, Count
  <2>a. PICK all \in Nat : all = m + n
    OBVIOUS
  <2>3. Size(i) = all
    <3>1. PICK sent \in Nat : sent = srvSent[i]
      BY <1>1
    <3>2. n = sent - (g + m)
      BY <1>2, <2>1, <3>1
    <3>3. Size(i) = sent - g
      BY <1>2, <1>7, <3>1 DEF Size
    <3>. QED  BY <3>2, <3>3, <2>a
  <2>4. PICK to \in Nat : to = g + m
    OBVIOUS
  <2>5. Cat(Count(g, m), Count(to, n)) = Count(g, all)
    BY <2>a, <2>4, CountConcat
  <2>6. Reached(i) = to
    BY <1>2, <2>4
  <2>. QED  BY <1>2, <1>5, <1>7, <2>2, <2>3, <2>5, <2>6, <2>a DEF InTransit, Cat
<1>. QED  BY <1>6, <1>7
-----------------------------------------------------------------------------
(* How the mapped state moves: what is in transit is given by its size.    *)
LEMMA CountGrows ==
  ASSUME NEW lo \in Nat, NEW n \in Nat, NEW v, v = lo + n + 1,
         NEW more \in Nat, more = n + 1
  PROVE  Count(lo, more) = Snoc(Count(lo, n), v)
<1>1. PICK s \in Seq(Nat) : s = Count(lo, n)
  BY CountIsSeq
<1>2. Len(s) = n /\ \A k \in 1..n : s[k] = lo + k
  BY <1>1, CountIsSeq
<1>3. v \in Nat
  OBVIOUS
<1>4. /\ Append(s, v) \in Seq(Nat) /\ Len(Append(s, v)) = n + 1
      /\ \A k \in 1..n : Append(s, v)[k] = s[k]
      /\ Append(s, v)[n + 1] = v
  BY <1>2, <1>3, AppendOf
<1>5. \A k \in 1..more : Append(s, v)[k] = lo + k
  <2>1. TAKE k \in 1..more
  <2>2. CASE k = n + 1
    BY <1>4, <2>2
  <2>3. CASE k \in 1..n
    BY <1>2, <1>4, <2>3
  <2>4. k = n + 1 \/ k \in 1..n
    OBVIOUS
  <2>. QED  BY <2>2, <2>3, <2>4
<1>6. Len(Append(s, v)) = more
  BY <1>4
<1>. QED  BY <1>1, <1>4, <1>5, <1>6, IsCount DEF Snoc

LEMMA CountShrinks ==
  ASSUME NEW lo \in Nat, NEW n \in Nat, NEW next \in Nat, next = lo + 1,
         NEW more \in Nat, more = n + 1
  PROVE  /\ Count(lo, more) # <<>> /\ First(Count(lo, more)) = next
         /\ Rest(Count(lo, more)) = Count(next, n)
<1>1. PICK s \in Seq(Nat) : s = Count(lo, more)
  BY CountIsSeq
<1>2. Len(s) = more /\ s # <<>> /\ \A k \in 1..more : s[k] = lo + k
  <2>1. more # 0
    OBVIOUS
  <2>. QED  BY <1>1, <2>1, CountIsSeq
<1>3. /\ Tail(s) \in Seq(Nat) /\ Len(Tail(s)) = Len(s) - 1 /\ Head(s) = s[1]
      /\ \A k \in 1..Len(Tail(s)) : k + 1 \in 1..Len(s) /\ Tail(s)[k] = s[k + 1]
  BY <1>2, TailOf
<1>4. Len(Tail(s)) = n /\ Head(s) = next
  BY <1>2, <1>3
<1>5. \A k \in 1..n : Tail(s)[k] = next + k
  <2>1. TAKE k \in 1..n
  <2>2. k + 1 \in 1..more /\ Tail(s)[k] = s[k + 1]
    BY <1>2, <1>3, <1>4
  <2>. QED  BY <1>2, <2>2
<1>. QED  BY <1>1, <1>2, <1>3, <1>4, <1>5, IsCount DEF First, Rest

LEMMA CountPrefix ==
  ASSUME NEW lo \in Nat, NEW n \in Nat, NEW m \in 0..n
  PROVE  Count(lo, m) = SubSeq(Count(lo, n), 1, m)
<1>1. PICK s \in Seq(Nat) : s = Count(lo, n)
  BY CountIsSeq
<1>2. Len(s) = n /\ \A k \in 1..n : s[k] = lo + k
  BY <1>1, CountIsSeq
<1>3. /\ SubSeq(s, 1, m) \in Seq(Nat) /\ Len(SubSeq(s, 1, m)) = m
      /\ \A k \in 1..m : SubSeq(s, 1, m)[k] = s[k]
  BY <1>2
<1>4. \A k \in 1..m : SubSeq(s, 1, m)[k] = lo + k
  BY <1>2, <1>3
<1>5. m \in Nat
  OBVIOUS
<1>6. SubSeq(s, 1, m) = Count(lo, m)
  BY <1>3, <1>4, <1>5, IsCount
<1>. QED  BY <1>1, <1>6

Sized ==
  \A i \in Id :
    Size(i) \in Nat /\ got[i] \in Nat /\ InTransit(i) = Count(got[i], Size(i))

LEMMA SizedOf == DInv => Sized
BY TransitIsCount DEF Sized

(* What one step of the mux leaves of the sizes.                           *)
LEMMA SameTransit ==
  ASSUME Sized, Sized', NEW i \in Id, got'[i] = got[i], Size(i)' = Size(i)
  PROVE  InTransit(i)' = InTransit(i)
BY DEF Sized

SamePipes ==
  /\ UNCHANGED <<srvSent, got, cut, eof>>
  /\ \A i \in Id : Size(i)' = Size(i)

LEMMA Stutters ==
  ASSUME Sized, Sized', SamePipes,
         \A i \in Id : srv'[i] = "closed" <=> srv[i] = "closed"
  PROVE  UNCHANGED Pipe!vars
<1>1. \A i \in Id : InTransit(i)' = InTransit(i)
  BY SameTransit DEF SamePipes
<1>. QED  BY <1>1 DEF SamePipes, Pipe!vars

LEMMA Shuts ==
  ASSUME Sized, Sized', SamePipes, NEW s \in Id,
         \A i \in Id : srv'[i] = "closed" <=> srv[i] = "closed" \/ i = s
  PROVE  Pipe!Next
<1>1. \A i \in Id : InTransit(i)' = InTransit(i)
  BY SameTransit DEF SamePipes
<1>2. Pipe!Shut(s)
  BY <1>1 DEF SamePipes, Pipe!Shut
<1>. QED  BY <1>2 DEF Pipe!Next

(* The pump: moves what is in transit, or drops an entry with nothing left.*)
LEMMA PumpRefines == DInv /\ DInv' /\ Sized /\ Sized' /\ Pump => UNCHANGED Pipe!vars
<1>. SUFFICES ASSUME DInv, DInv', Sized, Sized', Pump PROVE UNCHANGED Pipe!vars
  OBVIOUS
<1>0. TypeOK /\ TypeOK'
  BY DEF DInv, IdInv
<1>1. UNCHANGED <<srv, srvSent, got, cut, eof>>
  BY DEF Pump, RecvHello, SendInfo, RecvContinue, Dispatch, Deliver, Wake, RecvFails,
     readVars, netVars, histVars
<1>2. ASSUME NEW i \in Id PROVE Size(i)' = Size(i)
  <2>1. CASE Deliver
    <3>1. ppc = "deliver" /\ ppc' = "recv" /\ streams' = streams
          /\ inbound' = [inbound EXCEPT ![pid] = Append(@, pval)]
      BY <2>1 DEF Deliver, muxVars
    <3>2. CASE i \in streams
      BY <1>1, <3>1, <3>2 DEF Size
    <3>3. CASE i \notin streams
      <4>1. inbound \in [Id -> Seq(Nat)] /\ pval \in Nat /\ Hand(i)' = <<>>
        BY <1>0, <3>1 DEF TypeOK, ReadTypeOK, PumpTypeOK, Hand, Held
      <4>2. CASE pid = i
        <5>1. inbound'[i] = Append(inbound[i], pval) /\ Hand(i) = <<pval>>
          BY <3>1, <4>1, <4>2 DEF Hand, Held
        <5>2. Len(inbound'[i]) = Len(inbound[i]) + 1 /\ Len(inbound[i]) \in Nat
          BY <4>1, <5>1
        <5>3. Len(Hand(i)) = 1 /\ Len(Hand(i)') = 0
          BY <4>1, <5>1
        <5>. QED  BY <3>1, <3>3, <5>2, <5>3 DEF Size
      <4>3. CASE pid # i
        BY <3>1, <3>3, <4>1, <4>3 DEF Size, Hand, Held
      <4>. QED  BY <4>2, <4>3
    <3>. QED  BY <3>2, <3>3
  <2>2. CASE RecvHello \/ SendInfo \/ RecvContinue \/ Wake \/ RecvFails
    <3>1. UNCHANGED <<streams, inbound>> /\ ~Held(i) /\ ~Held(i)'
      BY <2>2 DEF RecvHello, SendInfo, RecvContinue, Establish, Wake, RecvFails, Held,
         muxVars, readVars
    <3>. QED  BY <1>1, <3>1 DEF Size, Hand
  <2>3. CASE Dispatch
    <3>1. /\ ppc = "recv" /\ toClient # <<>> /\ inbound' = inbound
          /\ toClient' = Tail(toClient)
      BY <2>3 DEF Dispatch, readVars
    <3>2. PICK p : p = Head(toClient)
      OBVIOUS
    <3>3. ~Held(i)
      BY <3>1 DEF Held
    <3>4. CASE streams' = streams
      <4>1. i \notin streams => ~Held(i)'
        BY <2>3, <3>1, <3>4 DEF Dispatch, DispatchData, DispatchContinue, DispatchClose,
           DispatchOther, ToWake, Held, pumpVars
      <4>. QED  BY <1>1, <3>1, <3>3, <3>4, <4>1 DEF Size, Hand
    <3>5. CASE streams' # streams
      <4>1. p.type = "Close" /\ streams' = streams \ {p.id} /\ ppc' # "deliver"
        BY <2>3, <3>2, <3>5 DEF Dispatch, DispatchData, DispatchContinue, DispatchClose,
           DispatchOther, ToWake, RemoveEntry
      <4>2. ~Held(i)'
        BY <4>1 DEF Held
      <4>3. CASE i # p.id \/ i \notin streams
        BY <1>1, <3>1, <3>3, <4>1, <4>2, <4>3 DEF Size, Hand
      <4>4. CASE i = p.id /\ i \in streams
        <5>1. Flight(toClient, i, Reached(i), srvSent[i])
          BY <4>4 DEF DInv, PipeInv, Complete
        <5>2. toClient \in Seq(Packet) /\ Len(toClient) \in Nat /\ Len(toClient) > 0
              /\ toClient[1] = p
          BY <1>0, <3>1, <3>2, TailOf DEF TypeOK, NetTypeOK
        <5>3. \A k \in 1..Len(toClient) : ~IsData(toClient, k, i)
          BY <4>1, <4>4, <5>2 DEF DInv, PipeInv, CloseIsLast, IsData
        <5>4. /\ Reached(i) = got[i] + Len(inbound[i]) + (IF Held(i) THEN 1 ELSE 0)
              /\ Reached(i) \in Nat /\ got[i] \in Nat /\ srvSent[i] \in Nat
              /\ Len(inbound[i]) \in Nat
          BY <1>0, ReachedIs
        <5>5. Reached(i) = got[i] + Len(inbound[i])
          BY <3>3, <5>4
        <5>6. srvSent[i] = Reached(i)
          BY <5>1, <5>3, <5>4 DEF Flight
        <5>7. Size(i) = srvSent[i] - got[i]
          BY <4>4 DEF Size
        <5>8. Size(i)' = Len(inbound[i])
          <6>1. Len(Hand(i)') = 0 /\ i \notin streams'
            BY <4>1, <4>2, <4>4 DEF Hand
          <6>. QED  BY <3>1, <5>4, <6>1 DEF Size
        <5>. QED  BY <5>4, <5>5, <5>6, <5>7, <5>8
      <4>. QED  BY <4>3, <4>4
    <3>. QED  BY <3>4, <3>5
  <2>. QED  BY <2>1, <2>2, <2>3 DEF Pump
<1>3. SamePipes
  BY <1>1, <1>2 DEF SamePipes
<1>. QED  BY <1>1, <1>3, Stutters

(* The reader takes the oldest payload, or sees the end.                   *)
LEMMA ReaderRefines == DInv /\ DInv' /\ Sized /\ Sized' /\ Reader => Pipe!Next
<1>. SUFFICES ASSUME DInv, DInv', Sized, Sized', NEW i \in Id, Recv(i) \/ RecvEof(i)
              PROVE  Pipe!Next
  BY DEF Reader
<1>0. TypeOK /\ TypeOK'
  BY DEF DInv, IdInv
<1>1. /\ inbound \in [Id -> Seq(Nat)] /\ got \in [Id -> Nat] /\ eof \in [Id -> BOOLEAN]
      /\ srvSent \in [Id -> Nat]
  BY <1>0 DEF TypeOK, ReadTypeOK, NetTypeOK
<1>2. CASE Recv(i)
  <2>1. /\ UNCHANGED <<streams, ppc, pid, pval, eof, srv, srvSent, cut>>
        /\ inbound[i] # <<>>
        /\ got' = [got EXCEPT ![i] = Head(inbound[i])]
        /\ inbound' = [inbound EXCEPT ![i] = Tail(@)]
    BY <1>2 DEF Recv, muxVars, pumpVars, netVars, histVars
  <2>2. /\ Len(inbound[i]) \in Nat /\ Len(inbound[i]) > 0
        /\ Head(inbound[i]) = inbound[i][1] /\ Len(Tail(inbound[i])) = Len(inbound[i]) - 1
    BY <1>1, <2>1, TailOf
  <2>3. inbound[i][1] = got[i] + 1
    BY <1>1, <2>2 DEF DInv, PipeInv, Numbered
  <2>4. got'[i] = got[i] + 1 /\ inbound'[i] = Tail(inbound[i])
    BY <1>1, <2>1, <2>2, <2>3
  <2>5. Len(inbound'[i]) = Len(inbound[i]) - 1 /\ Hand(i)' = Hand(i)
        /\ Len(Hand(i)) \in Nat
    BY <2>1, <2>2, <2>4 DEF Hand, Held
  <2>6. Size(i) = Size(i)' + 1
    <3>1. CASE i \in streams
      BY <1>1, <2>1, <2>4, <3>1 DEF Size
    <3>2. CASE i \notin streams
      <4>1. Size(i) = Len(inbound[i]) + Len(Hand(i))
        BY <3>2 DEF Size
      <4>2. Size(i)' = Len(inbound'[i]) + Len(Hand(i))
        BY <2>1, <2>5, <3>2 DEF Size
      <4>. QED  BY <2>2, <2>5, <4>1, <4>2
    <3>. QED  BY <3>1, <3>2
  <2>7. /\ got[i] \in Nat /\ Size(i) \in Nat /\ InTransit(i) = Count(got[i], Size(i))
        /\ got'[i] \in Nat /\ Size(i)' \in Nat
        /\ InTransit(i)' = Count(got'[i], Size(i)')
    BY DEF Sized
  <2>8. /\ InTransit(i) # <<>> /\ Head(InTransit(i)) = got'[i]
        /\ InTransit(i)' = Tail(InTransit(i))
    <3>1. PICK lo \in Nat, n \in Nat, next \in Nat, more \in Nat :
            lo = got[i] /\ n = Size(i)' /\ next = got'[i] /\ more = Size(i)
      BY <2>7
    <3>2. next = lo + 1 /\ more = n + 1
      BY <2>4, <2>6, <3>1
    <3>3. /\ Count(lo, more) # <<>> /\ First(Count(lo, more)) = next
          /\ Rest(Count(lo, more)) = Count(next, n)
      BY <3>2, CountShrinks
    <3>. QED  BY <2>7, <3>1, <3>3 DEF First, Rest
  <2>9. \A j \in Id \ {i} : InTransit(j)' = InTransit(j)
    BY <1>1, <2>1 DEF InTransit, Hand, Held, Payloads, Reached
  <2>10. got' = [got EXCEPT ![i] = Head(InTransit(i))]
    BY <1>1, <2>1, <2>4, <2>8
  <2>11. Pipe!Take(i)
    BY <2>1, <2>8, <2>9, <2>10 DEF Pipe!Take
  <2>. QED  BY <2>11 DEF Pipe!Next
<1>3. CASE RecvEof(i)
  <2>1. /\ i \in returned /\ inbound[i] = <<>> /\ i \notin streams /\ ~Held(i)
        /\ eof' = [eof EXCEPT ![i] = TRUE]
        /\ UNCHANGED <<streams, ppc, pid, pval, srv, srvSent, cut, inbound, got>>
    BY <1>3 DEF RecvEof, Usable, Disconnected, muxVars, pumpVars, netVars, histVars
  <2>2. i \in cut \/ srv[i] = "closed"
    BY <2>1 DEF DInv, PipeInv, Entries
  <2>3. InTransit(i) = <<>>
    <3>1. Size(i) = 0
      BY <2>1 DEF Size, Hand
    <3>. QED  BY <3>1, CountIsSeq DEF Sized
  <2>4. \A j \in Id : InTransit(j)' = InTransit(j)
    BY <2>1 DEF InTransit, Hand, Held, Payloads, Reached
  <2>5. {j \in Id : eof'[j]} = {j \in Id : eof[j]} \cup {i}
    BY <1>1, <2>1
  <2>6. Pipe!End(i)
    BY <2>1, <2>2, <2>3, <2>4, <2>5 DEF Pipe!End
  <2>. QED  BY <2>6 DEF Pipe!Next
<1>. QED  BY <1>2, <1>3

(* The tasks: close_stream cuts the stream, or the server sees it closed.  *)
LEMMA CallRefines ==
  ASSUME DInv, DInv', Sized, Sized', NEW c \in Caller, Call(c)
  PROVE  Pipe!Next \/ UNCHANGED Pipe!vars
<1>0. TypeOK /\ TypeOK'
  BY DEF DInv, IdInv
<1>a. /\ streams \subseteq Id /\ srvSent \in [Id -> Nat] /\ got \in [Id -> Nat]
      /\ inbound \in [Id -> Seq(Nat)] /\ srv \in [Id -> View] /\ cut \subseteq Id
      /\ \A d \in Caller : pc[d] # "idle" => sid[d] \in Id
  BY <1>0 DEF TypeOK, MuxTypeOK, TaskTypeOK, ReadTypeOK, NetTypeOK, HistTypeOK
<1>b. UNCHANGED <<srvSent, got, eof, inbound, ppc, pid, pval>>
  BY DEF Call, Progress, OpenAlloc, OpenInsert, OpenConnect, SendRegister, SendData,
     CloseSend, Cancel, SendLock, CloseRemove, Transmit, netVars, readVars, pumpVars
<1>c. \A i \in Id : (Held(i)' <=> Held(i)) /\ Hand(i)' = Hand(i)
  BY <1>b DEF Held, Hand
<1>1. CASE \E i \in Id : CloseRemove(c, i)
  <2>1. PICK i \in Id : CloseRemove(c, i)
    BY <1>1
  <2>2. streams' = streams \ {i} /\ cut' = cut \cup {i} /\ srv' = srv
    BY <2>1 DEF CloseRemove, RemoveEntry, netVars
  <2>3. \A j \in Id \ {i} : InTransit(j)' = InTransit(j)
    BY <1>b, <1>c, <2>2 DEF InTransit, Payloads, Reached
  <2>4. got[i] \in Nat /\ Size(i) \in Nat /\ Size(i)' \in Nat
        /\ InTransit(i) = Count(got[i], Size(i))
        /\ InTransit(i)' = Count(got[i], Size(i)')
    BY <1>b DEF Sized
  <2>5. Size(i)' <= Size(i)
    <3>1. CASE i \in streams
      <4>1. Reached(i) <= srvSent[i]
        BY <3>1 DEF DInv, PipeInv, Complete, Flight
      <4>2. /\ Reached(i) = got[i] + Len(inbound[i]) + Len(Hand(i))
            /\ got[i] \in Nat /\ srvSent[i] \in Nat /\ Len(inbound[i]) \in Nat
            /\ Len(Hand(i)) \in Nat
        BY <1>0, ReachedIs DEF Reached, Hand
      <4>3. Size(i) = srvSent[i] - got[i]
        BY <3>1 DEF Size
      <4>4. Size(i)' = Len(inbound[i]) + Len(Hand(i))
        BY <1>b, <1>c, <2>2 DEF Size
      <4>. QED  BY <4>1, <4>2, <4>3, <4>4
    <3>2. CASE i \notin streams
      BY <1>b, <1>c, <2>2, <2>4, <3>2 DEF Size
    <3>. QED  BY <3>1, <3>2
  <2>6. PICK n \in 0..Size(i) : n = Size(i)'
    BY <2>4, <2>5
  <2>7. n \in 0..Len(InTransit(i)) /\ InTransit(i)' = SubSeq(InTransit(i), 1, n)
    <3>1. PICK lo \in Nat, all \in Nat : lo = got[i] /\ all = Size(i)
      BY <2>4
    <3>2. Count(lo, n) = SubSeq(Count(lo, all), 1, n) /\ Len(Count(lo, all)) = all
      BY <2>6, <3>1, CountPrefix, CountIsSeq
    <3>. QED  BY <2>4, <2>6, <3>1, <3>2
  <2>8. Pipe!Cut(i)
    BY <1>b, <2>2, <2>3, <2>7 DEF Pipe!Cut
  <2>. QED  BY <2>8 DEF Pipe!Next
<1>2. CASE OpenInsert(c)
  <2>1. streams' = streams \cup {sid[c]} /\ UNCHANGED <<srv, cut>> /\ pc[c] = "insert"
    BY <1>2 DEF OpenInsert, netVars
  <2>2. sid[c] \in Id /\ srv[sid[c]] = "none"
    BY <1>a, <2>1 DEF DInv, IdInv, OwnIds, Opening, Fresh
  <2>3. srvSent[sid[c]] = 0 /\ got[sid[c]] = 0 /\ Len(inbound[sid[c]]) = 0
        /\ Len(Hand(sid[c])) = 0
    BY <2>2 DEF DInv, PipeInv, Unopened, Hand
  <2>4. \A i \in Id : Size(i)' = Size(i)
    <3>1. TAKE i \in Id
    <3>2. CASE i = sid[c]
      <4>1. Size(i) = 0
        <5>0. /\ srvSent[i] = 0 /\ got[i] = 0
              /\ Len(inbound[i]) = 0 /\ Len(Hand(i)) = 0
          BY <2>3, <3>2
        <5>1. srvSent[i] - got[i] = 0 /\ Len(inbound[i]) + Len(Hand(i)) = 0
          BY <5>0
        <5>. QED  BY <5>1 DEF Size
      <4>2. Size(i)' = 0
        BY <1>b, <2>1, <2>3, <3>2 DEF Size
      <4>. QED  BY <4>1, <4>2
    <3>3. CASE i # sid[c]
      BY <1>b, <1>c, <2>1, <3>3 DEF Size
    <3>. QED  BY <3>2, <3>3
  <2>. QED  BY <1>b, <2>1, <2>4, Stutters DEF SamePipes
<1>3. CASE CloseSend(c) /\ link = "up"
  <2>1. /\ UNCHANGED <<streams, cut>> /\ pc[c] = "close"
        /\ srv' = [srv EXCEPT ![sid[c]] = ServerView(@, "Close")]
    BY <1>3 DEF CloseSend, Transmit, muxVars, histVars
  <2>2. sid[c] \in Id /\ sid[c] \in cut
    BY <1>a, <2>1 DEF DInv, PipeInv, Entries
  <2>3. SamePipes
    BY <1>b, <1>c, <2>1 DEF SamePipes, Size
  <2>4. srv[sid[c]] # "none"
    BY <1>3, <2>1, <2>2 DEF DInv, IdInv, CallIds, ReturnedIds, Opening
  <2>5. \A i \in Id : srv'[i] = "closed" <=> srv[i] = "closed" \/ i = sid[c]
    BY <1>a, <2>1, <2>2, <2>4 DEF ServerView
  <2>. QED  BY <2>2, <2>3, <2>5, Shuts
<1>4. CASE \/ OpenAlloc(c) \/ OpenConnect(c) \/ SendRegister(c) \/ SendData(c)
           \/ Cancel(c) \/ (CloseSend(c) /\ link # "up") \/ \E i \in Id : SendLock(c, i)
  <2>1. UNCHANGED <<streams, cut>>
    BY <1>4 DEF OpenAlloc, OpenConnect, SendRegister, SendData, Cancel, CloseSend,
       SendLock, muxVars, histVars
  <2>2. SamePipes
    BY <1>b, <1>c, <2>1 DEF SamePipes, Size
  <2>3. \A i \in Id : srv'[i] = "closed" <=> srv[i] = "closed"
    <3>1. CASE OpenConnect(c)
      <4>1. sid[c] \in Id /\ srv[sid[c]] = "none"
        BY <1>a, <3>1 DEF OpenConnect, DInv, IdInv, OwnIds, Opening, Fresh
      <4>. QED  BY <1>a, <3>1, <4>1 DEF OpenConnect, Transmit, ServerView
    <3>2. CASE SendData(c)
      BY <1>a, <3>2 DEF SendData, Transmit, ServerView
    <3>3. CASE \/ OpenAlloc(c) \/ SendRegister(c) \/ Cancel(c)
               \/ (CloseSend(c) /\ link # "up") \/ \E i \in Id : SendLock(c, i)
      BY <3>3 DEF OpenAlloc, SendRegister, Cancel, CloseSend, SendLock, Transmit, netVars
    <3>. QED  BY <1>4, <3>1, <3>2, <3>3
  <2>. QED  BY <2>2, <2>3, Stutters
<1>5. (\E i \in Id : SendLock(c, i)) \/ (\E i \in Id : CloseRemove(c, i)) \/ OpenAlloc(c)
      \/ OpenInsert(c) \/ OpenConnect(c) \/ SendRegister(c) \/ SendData(c)
      \/ CloseSend(c) \/ Cancel(c)
  BY <1>a DEF Call, Progress
<1>. QED  BY <1>1, <1>2, <1>3, <1>4, <1>5

(* The server: one more payload, or no more of them.                       *)
LEMMA ServerRefines ==
  DInv /\ DInv' /\ Sized /\ Sized' /\ Server => Pipe!Next \/ UNCHANGED Pipe!vars
<1>. SUFFICES ASSUME DInv, DInv', Sized, Sized', Server
              PROVE  Pipe!Next \/ UNCHANGED Pipe!vars
  OBVIOUS
<1>0. TypeOK /\ TypeOK'
  BY DEF DInv, IdInv
<1>a. srvSent \in [Id -> Nat] /\ got \in [Id -> Nat] /\ srv \in [Id -> View]
  BY <1>0 DEF TypeOK, ReadTypeOK, NetTypeOK
<1>b. UNCHANGED <<streams, got, eof, inbound, ppc, pid, pval, cut>>
  BY DEF Server, ServerHello, ServerOdd, LinkFails, ServerData, ServerContinue,
     ServerClose, muxVars, readVars, pumpVars, histVars
<1>c. \A i \in Id : (Held(i)' <=> Held(i)) /\ Hand(i)' = Hand(i)
  BY <1>b DEF Held, Hand
<1>1. CASE \E i \in Id : ServerData(i)
  <2>1. PICK i \in Id : ServerData(i)
    BY <1>1
  <2>2. srv[i] = "connected" /\ srv' = srv /\ srvSent' = [srvSent EXCEPT ![i] = @ + 1]
    BY <2>1 DEF ServerData
  <2>3. i \in streams \/ i \in cut
    BY <2>2 DEF DInv, PipeInv, Entries
  <2>4. \A j \in Id \ {i} : InTransit(j)' = InTransit(j)
    BY <1>a, <1>b, <1>c, <2>2 DEF InTransit, Payloads, Reached
  <2>5. CASE i \in cut
    <3>1. i \notin streams
      BY <2>5 DEF DInv, PipeInv, Entries
    <3>2. InTransit(i)' = InTransit(i)
      BY <1>b, <1>c, <3>1 DEF InTransit
    <3>3. Pipe!Put(i)
      BY <1>b, <2>2, <2>4, <2>5, <3>2 DEF Pipe!Put
    <3>. QED  BY <3>3 DEF Pipe!Next
  <2>6. CASE i \notin cut
    <3>1. i \in streams
      BY <2>3, <2>6
    <3>2. PICK lo \in Nat, n \in Nat, more \in Nat :
            lo = got[i] /\ n = Size(i) /\ more = Size(i)'
      BY DEF Sized
    <3>3. more = n + 1 /\ srvSent[i] + 1 = lo + n + 1
      <4>1. Size(i) = srvSent[i] - got[i]
        BY <3>1 DEF Size
      <4>2. Size(i)' = srvSent[i] + 1 - got[i]
        BY <1>a, <1>b, <2>2, <3>1 DEF Size
      <4>. QED  BY <1>a, <3>2, <4>1, <4>2
    <3>4. Count(lo, more) = Snoc(Count(lo, n), srvSent[i] + 1)
      BY <3>3, CountGrows
    <3>5. InTransit(i)' = Append(InTransit(i), srvSent[i] + 1)
      BY <1>b, <3>2, <3>4 DEF Sized, Snoc
    <3>6. Pipe!Put(i)
      BY <1>b, <2>2, <2>4, <2>6, <3>5 DEF Pipe!Put
    <3>. QED  BY <3>6 DEF Pipe!Next
  <2>. QED  BY <2>5, <2>6
<1>2. CASE \E i \in Id : ServerClose(i)
  <2>1. PICK i \in Id : ServerClose(i)
    BY <1>2
  <2>2. srv' = [srv EXCEPT ![i] = "closed"] /\ srvSent' = srvSent
    BY <2>1 DEF ServerClose
  <2>3. SamePipes
    BY <1>b, <1>c, <2>2 DEF SamePipes, Size
  <2>4. \A j \in Id : srv'[j] = "closed" <=> srv[j] = "closed" \/ j = i
    BY <1>a, <2>2
  <2>. QED  BY <2>3, <2>4, Shuts
<1>3. CASE ServerHello \/ ServerOdd \/ LinkFails \/ \E i \in Id : ServerContinue(i)
  <2>1. UNCHANGED <<srv, srvSent>>
    BY <1>3 DEF ServerHello, ServerOdd, LinkFails, ServerContinue
  <2>2. SamePipes
    BY <1>b, <1>c, <2>1 DEF SamePipes, Size
  <2>. QED  BY <2>1, <2>2, Stutters
<1>. QED  BY <1>1, <1>2, <1>3 DEF Server

LEMMA StepRefines == DInv /\ DInv' /\ [Next]_vars => [Pipe!Next]_(Pipe!vars)
<1>. SUFFICES ASSUME DInv, DInv', [Next]_vars PROVE Pipe!Next \/ UNCHANGED Pipe!vars
  OBVIOUS
<1>1. Sized /\ Sized'
  BY SizedOf, PTL
<1>2. CASE UNCHANGED vars
  <2>1. UNCHANGED <<streams, srv, srvSent, got, cut, eof, inbound, ppc, pid, pval>>
    BY <1>2 DEF vars, muxVars, readVars, netVars, pumpVars, histVars
  <2>2. \A i \in Id : Hand(i)' = Hand(i)
    BY <2>1 DEF Hand, Held
  <2>3. SamePipes
    BY <2>1, <2>2 DEF SamePipes, Size
  <2>. QED  BY <1>1, <2>1, <2>3, Stutters
<1>. QED  BY <1>1, <1>2, PumpRefines, CallRefines, ReaderRefines, ServerRefines DEF Next

LEMMA InitRefines == Init => Pipe!Init
<1>. SUFFICES ASSUME Init PROVE Pipe!Init
  OBVIOUS
<1>1. \A i \in Id : InTransit(i) = <<>>
  BY DEF Init, InTransit, Hand, Held
<1>. QED  BY <1>1 DEF Init, Pipe!Init

(* Every behaviour of the multiplexer is one of the pipe StreamPipe        *)
(* specifies: whatever the tasks race, each reader takes the payloads of   *)
(* the server in order, without a gap, and sees end of file only when one  *)
(* of the two sides has closed the stream and nothing is left to take.     *)
THEOREM MuxImplementsPipe == Spec => ImplementsPipe
<1>1. Init => Pipe!Init
  BY InitRefines
<1>2. DInv /\ DInv' /\ [Next]_vars => [Pipe!Next]_(Pipe!vars)
  BY StepRefines
<1>. QED  BY <1>1, <1>2, DInvHolds, PTL DEF Spec, ImplementsPipe, Pipe!Spec

(* What StreamPipeProofs proves of the pipe, on the mux.                   *)
Facts == INSTANCE StreamPipeProofs WITH
  Stream <- Id, pipe <- [i \in Id |-> InTransit(i)],
  count <- srvSent, last <- got, cut <- cut,
  shut <- {i \in Id : srv[i] = "closed"},
  ended <- {i \in Id : eof[i]}

(* Between the server and the reader of a stream are the payloads that     *)
(* follow the last one read, in order, all of them until the stream is     *)
(* closed locally; a reader that sees end of file on a stream that was not *)
(* closed locally has read every payload the server sent.                  *)
THEOREM ReadersSeeAll == Spec => [](Pipe!InOrder /\ Pipe!EndIsComplete)
<1>1. ImplementsPipe => Facts!Spec
  BY DEF ImplementsPipe, Pipe!Spec, Facts!Spec, Pipe!Init, Facts!Init, Pipe!Next,
     Facts!Next, Pipe!vars, Facts!vars, Pipe!Put, Facts!Put, Pipe!Take, Facts!Take,
     Pipe!Cut, Facts!Cut, Pipe!Shut, Facts!Shut, Pipe!End, Facts!End
<1>2. (Facts!Spec => []Facts!InOrder) /\ (Facts!Spec => []Facts!EndIsComplete)
  BY Facts!PipeInOrder, Facts!PipeEndIsComplete
<1>3. Facts!InOrder => Pipe!InOrder
  BY DEF Pipe!InOrder, Facts!InOrder
<1>4. Facts!EndIsComplete => Pipe!EndIsComplete
  BY DEF Pipe!EndIsComplete, Facts!EndIsComplete
<1>. QED  BY <1>1, <1>2, <1>3, <1>4, MuxImplementsPipe, PTL

=============================================================================
