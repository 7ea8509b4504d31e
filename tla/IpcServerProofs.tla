-------------------------- MODULE IpcServerProofs --------------------------
(***************************************************************************)
(* Proofs about the socket server, for every number of connections,        *)
(* descriptors, requests and broadcasts: a registered client owns its      *)
(* descriptor, out_queue holds at most one frame per delivering thread,    *)
(* stop() disconnects every client, clients_ holds at most kMaxClients     *)
(* entries, and dropped_events_ covers every frame that was taken for a    *)
(* client and not sent.                                                    *)
(*                                                                         *)
(* First the inductive invariant and its types, with the steps of          *)
(* deliver(), which own no descriptor; then the steps that change who owns *)
(* one; then the theorems.                                                 *)
(***************************************************************************)
EXTENDS IpcServer, FiniteSetTheorems, TLAPS

(* SMT proves a leaf that names no prover. *)
USE SMTT(60)

(* The client threads that are in clients_ until stop() empties it. *)
Registered == {"find", "recv", "push", "swap", "send", "stuck", "erase"}

(* The capture thread and its local variables. *)
CaptureInv ==
  /\ pc[Capture] \in CapturePc
  /\ pc[Capture] \in {"push", "swap", "send"} => targets # <<>>
  /\ pc[Capture] = "collect" => \A f \in todo : clients[f] # None
  /\ \A i \in DOMAIN targets : cfd[targets[i]] \in Fd

(* Descriptors, sockets and threads belong together. *)
FdOwner ==
  \A f \in Fd : fdTable[f] # None =>
    cfd[fdTable[f]] = f /\ sock[fdTable[f]] \in {"open", "shut"}

SocketFd ==
  \A c \in Conn : sock[c] \in {"open", "shut"} => cfd[c] \in Fd /\ fdTable[cfd[c]] = c

ThreadSocket ==
  \A c \in Conn :
    /\ pc[c] \in ClientPc
    /\ pc[c] \in Registered \cup {"close", "leaked"} => sock[c] \in {"open", "shut"}
    /\ sock[c] \in {"none", "queued"} => pc[c] = "none"
    /\ sock[c] = "open" => pc[c] # "done" /\ (pc[c] = "none" => c = accepted)

FdInv == FdOwner /\ SocketFd /\ ThreadSocket

(* The accept thread holds a connection that no other thread knows yet. *)
AcceptInv ==
  /\ acceptor \in {"insert", "spawn"} =>
       accepted # None /\ pc[accepted] = "none" /\ sock[accepted] = "open"
  /\ acceptor \notin {"insert", "spawn"} => accepted = None
  /\ acceptor = "insert" => \A f \in Fd : clients[f] # accepted
  /\ stopper = "down" => acceptor = "none"
  /\ stopper \in {"sweep", "shut", "stopped"} => acceptor = "done"

(* clients_ holds exactly the clients whose thread may use it. *)
EntryInv ==
  /\ \A f \in Fd : clients[f] # None =>
       /\ fdTable[f] = clients[f]
       /\ \/ pc[clients[f]] \in Registered
          \/ acceptor = "spawn" /\ accepted = clients[f]
  /\ stopper \notin {"shut", "stopped"} =>
       \A c \in Conn : pc[c] \in Registered => clients[cfd[c]] = c
  /\ acceptor = "spawn" => clients[cfd[accepted]] = accepted

(* What stop() has taken from clients_ it shuts down. *)
StopInv ==
  /\ stopper \in {"shut", "stopped"} => \A f \in Fd : clients[f] = None
  /\ stopper = "shut" => \A c \in Conn : sock[c] = "open" => pc[c] = "close" \/ cfd[c] \in swept
  /\ \A c \in Conn : pc[c] = "leaked" => stopper \in {"shut", "stopped"}
  /\ StopDisconnectsAll

Ownership == FdInv /\ AcceptInv /\ EntryInv /\ StopInv

IpcInv ==
  /\ TypeOK
  /\ CaptureInv
  /\ Ownership
  /\ OutQueueShort
-----------------------------------------------------------------------------
(* Initially there is no client. *)
LEMMA IpcInvInit == Init => IpcInv
<1> SUFFICES ASSUME Init PROVE IpcInv
  BY Zenon
<1> USE IpcAssumption DEF IpcAssumption, Init, Thread
<1>1. TypeOK
  BY DEF TypeOK, ServerTypes, KernelTypes, DeliveryTypes, HistoryTypes, Frame, ClientPc, CapturePc
<1>2. CaptureInv /\ FdInv
  BY DEF CaptureInv, FdInv, FdOwner, SocketFd, ThreadSocket, ClientPc, CapturePc, Registered
<1>3. AcceptInv /\ EntryInv /\ StopInv
  BY Zenon DEF AcceptInv, EntryInv, StopInv, Registered, StopDisconnectsAll
<1>4. OutQueueShort
  BY DEF OutQueueShort
<1> QED
  BY <1>1, <1>2, <1>3, <1>4, Zenon DEF IpcInv, Ownership

(* Map entries are connections. *)
LEMMA ConnRanges ==
  ASSUME TypeOK
  PROVE  /\ \A f \in Fd : fdTable[f] # None => fdTable[f] \in Conn
         /\ \A f \in Fd : clients[f] # None => clients[f] \in Conn
         /\ accepted # None => accepted \in Conn
         /\ None \notin Conn
  BY IpcAssumption, ZenonT(60) DEF TypeOK, ServerTypes, KernelTypes, IpcAssumption

(* The frames threads hand to deliver(), and whom they are for. *)
LEMMA DeliverTypes ==
  ASSUME IpcInv, NEW a \in Thread, pc[a] \in {"push", "swap", "send"}
  PROVE  To(a) \in Conn /\ Encoded(a) \in Frame /\ cfd[To(a)] \in Fd
<1> USE IpcAssumption DEF IpcAssumption
<1>1. CASE a = Capture
  <2>1. targets \in Seq(Conn) /\ targets # <<>>
    BY <1>1, Zenon DEF IpcInv, TypeOK, DeliveryTypes, CaptureInv
  <2>2. Head(targets) = targets[1] /\ 1 \in DOMAIN targets /\ targets[1] \in Conn
    BY <2>1
  <2>3. cfd[Head(targets)] \in Fd
    BY <2>2, Zenon DEF IpcInv, CaptureInv
  <2>4. Encoded(a) \in Frame
    BY <1>1, Zenon DEF Encoded, Frame, IpcInv, TypeOK, HistoryTypes
  <2> QED
    BY <1>1, <2>2, <2>3, <2>4, Zenon DEF To
<1>2. CASE a \in Conn
  <2>1. To(a) = a /\ Encoded(a) \in Frame
    BY <1>2, Zenon DEF To, Encoded, Frame, IpcInv, TypeOK, HistoryTypes
  <2>2. cfd[a] \in Fd
    BY <1>2, Zenon DEF IpcInv, Ownership, FdInv, SocketFd, ThreadSocket, Registered
  <2> QED
    BY <1>2, <2>1, <2>2, Zenon
<1> QED
  BY <1>1, <1>2, Zenon DEF Thread

(* Where a thread goes when it leaves deliver(). *)
LEMMA LeaveTypes ==
  ASSUME IpcInv, NEW a \in Thread, pc[a] \in {"push", "swap", "send"}, LeaveDeliver(a)
  PROVE  pc' \in [Thread -> ClientPc \cup CapturePc] /\ targets' \in Seq(Conn)
<1>1. CASE a = Capture
  <2>1. targets \in Seq(Conn) /\ targets # <<>>
    BY <1>1, Zenon DEF IpcInv, TypeOK, DeliveryTypes, CaptureInv
  <2>2. targets' \in Seq(Conn)
    BY <1>1, <2>1 DEF LeaveDeliver
  <2>3. pc \in [Thread -> ClientPc \cup CapturePc]
    BY Zenon DEF IpcInv, TypeOK, ServerTypes
  <2>4. \E s \in {"push", "idle"} : pc' = [pc EXCEPT ![a] = s]
    BY <1>1, ZenonT(60) DEF LeaveDeliver
  <2> QED
    BY <2>2, <2>3, <2>4, Zenon DEF CapturePc
<1>2. CASE a # Capture
  <2>1. /\ after[a] \in {"recv", "erase"} /\ targets \in Seq(Conn)
        /\ pc \in [Thread -> ClientPc \cup CapturePc]
    BY <1>2, Zenon DEF IpcInv, TypeOK, ServerTypes, DeliveryTypes, Thread
  <2>2. pc' = [pc EXCEPT ![a] = after[a]] /\ targets' = targets
    BY <1>2, Zenon DEF LeaveDeliver
  <2>3. after[a] \in ClientPc \cup CapturePc
    BY <2>1, Zenon DEF ClientPc
  <2> QED
    BY <2>1, <2>2, <2>3, Zenon
<1> QED
  BY <1>1, <1>2, Zenon

-----------------------------------------------------------------------------
(* What a step leaves alone keeps its types. *)
LEMMA QuietTypes ==
  ASSUME TypeOK
  PROVE  /\ UNCHANGED kernel => KernelTypes'
         /\ UNCHANGED delivery => DeliveryTypes'
         /\ UNCHANGED histories => HistoryTypes'
<1>1. UNCHANGED kernel => KernelTypes'
  BY Zenon DEF TypeOK, kernel, KernelTypes
<1>2. UNCHANGED delivery => DeliveryTypes'
  BY Zenon DEF TypeOK, delivery, DeliveryTypes
<1>3. UNCHANGED histories => HistoryTypes'
  BY Zenon DEF TypeOK, histories, HistoryTypes
<1> QED
  BY <1>1, <1>2, <1>3, Zenon

(* The steps that touch neither the kernel nor what deliver() works on. *)
LEMMA ServerTypeStep ==
  ASSUME IpcInv,
         \/ Start \/ AcceptSpawn \/ AcceptEnd \/ BroadcastUnlock
         \/ StopBegin \/ StopJoin \/ StopSweep
         \/ \E c \in Conn : ClientFind(c) \/ ClientLoopEnds(c) \/ ClientErase(c)
  PROVE  TypeOK'
<1>0. ServerTypes /\ TypeOK
  BY Zenon DEF IpcInv, TypeOK
<1>1. CASE Start
  <2>1. UNCHANGED <<kernel, delivery, histories>>
    BY <1>1, Zenon DEF Start
  <2>2. ServerTypes'
    BY <1>0, <1>1, Zenon DEF Start, ServerTypes
  <2> QED
    BY <1>0, <2>1, <2>2, QuietTypes, Zenon DEF TypeOK
<1>2. CASE AcceptSpawn
  <2>1. UNCHANGED <<kernel, delivery, histories>>
    BY <1>2, Zenon DEF AcceptSpawn
  <2>2. ServerTypes'
    BY <1>0, <1>2, ZenonT(60) DEF AcceptSpawn, ServerTypes, ClientPc
  <2> QED
    BY <1>0, <2>1, <2>2, QuietTypes, Zenon DEF TypeOK
<1>3. CASE AcceptEnd
  <2>1. UNCHANGED <<kernel, delivery, histories>>
    BY <1>3, Zenon DEF AcceptEnd, AcceptGivesUp
  <2>2. ServerTypes'
    BY <1>0, <1>3, Zenon DEF AcceptEnd, AcceptGivesUp, ServerTypes
  <2> QED
    BY <1>0, <2>1, <2>2, QuietTypes, Zenon DEF TypeOK
<1>4. CASE BroadcastUnlock
  <2>1. UNCHANGED <<kernel, delivery, histories>>
    BY <1>4, Zenon DEF BroadcastUnlock
  <2>2. ServerTypes'
    BY <1>0, <1>4, ZenonT(60) DEF BroadcastUnlock, ServerTypes, CapturePc
  <2> QED
    BY <1>0, <2>1, <2>2, QuietTypes, Zenon DEF TypeOK
<1>5. CASE StopBegin
  <2>1. UNCHANGED <<kernel, delivery, histories>>
    BY <1>5, Zenon DEF StopBegin
  <2>2. ServerTypes'
    BY <1>0, <1>5, Zenon DEF StopBegin, ServerTypes
  <2> QED
    BY <1>0, <2>1, <2>2, QuietTypes, Zenon DEF TypeOK
<1>6. CASE StopJoin
  <2>1. UNCHANGED <<kernel, delivery, histories>>
    BY <1>6, Zenon DEF StopJoin, JoinWhen
  <2>2. ServerTypes'
    BY <1>0, <1>6, Zenon DEF StopJoin, JoinWhen, ServerTypes
  <2> QED
    BY <1>0, <2>1, <2>2, QuietTypes, Zenon DEF TypeOK
<1>7. CASE StopSweep
  <2>1. UNCHANGED <<kernel, delivery, histories>>
    BY <1>7, Zenon DEF StopSweep
  <2>2. ServerTypes'
    BY <1>0, <1>7, Zenon DEF StopSweep, ServerTypes
  <2> QED
    BY <1>0, <2>1, <2>2, QuietTypes, Zenon DEF TypeOK
<1>8. ASSUME NEW c \in Conn, ClientFind(c) PROVE TypeOK'
  <2>1. UNCHANGED <<kernel, delivery, histories>>
    BY <1>8, Zenon DEF ClientFind
  <2>2. ServerTypes'
    BY <1>0, <1>8, ZenonT(60) DEF ClientFind, ServerTypes, ClientPc
  <2> QED
    BY <1>0, <2>1, <2>2, QuietTypes, Zenon DEF TypeOK
<1>9. ASSUME NEW c \in Conn, ClientLoopEnds(c) PROVE TypeOK'
  <2>1. UNCHANGED <<kernel, delivery, histories>>
    BY <1>9, Zenon DEF ClientLoopEnds
  <2>2. ServerTypes'
    BY <1>0, <1>9, ZenonT(60) DEF ClientLoopEnds, ServerTypes, ClientPc
  <2> QED
    BY <1>0, <2>1, <2>2, QuietTypes, Zenon DEF TypeOK
<1>10. ASSUME NEW c \in Conn, ClientErase(c) PROVE TypeOK'
  <2>1. UNCHANGED <<kernel, delivery, histories>>
    BY <1>10, Zenon DEF ClientErase
  <2>2. ServerTypes'
    BY <1>0, <1>10, ZenonT(60) DEF ClientErase, ServerTypes, ClientPc
  <2> QED
    BY <1>0, <2>1, <2>2, QuietTypes, Zenon DEF TypeOK
<1> QED
  BY <1>1, <1>2, <1>3, <1>4, <1>5, <1>6, <1>7, <1>8, <1>9, <1>10, Zenon

(* The steps of peers and threads that open, close or read a socket. *)
LEMMA KernelTypeStep ==
  ASSUME IpcInv,
         \/ AcceptInsert \/ AcceptSpawnFails \/ StopShutdown
         \/ \E c \in Conn : PeerConnect(c) \/ PeerRead(c) \/ PeerLeave(c) \/ Accept(c)
                            \/ ClientClose(c)
  PROVE  TypeOK'
<1>0. ServerTypes /\ KernelTypes /\ TypeOK
  BY Zenon DEF IpcInv, TypeOK
<1>1. ASSUME NEW c \in Conn, PeerConnect(c) PROVE TypeOK'
  <2>1. UNCHANGED <<delivery, histories>> /\ ServerTypes'
    BY <1>0, <1>1, Zenon DEF PeerConnect, ServerTypes
  <2>2. KernelTypes'
    BY <1>0, <1>1, Zenon DEF PeerConnect, KernelTypes
  <2> QED
    BY <1>0, <2>1, <2>2, QuietTypes, Zenon DEF TypeOK
<1>2. ASSUME NEW c \in Conn, PeerRead(c) PROVE TypeOK'
  <2>1. UNCHANGED <<delivery, histories>> /\ ServerTypes'
    BY <1>0, <1>2, Zenon DEF PeerRead, ServerTypes
  <2>2. KernelTypes'
    BY <1>0, <1>2 DEF PeerRead, KernelTypes
  <2> QED
    BY <1>0, <2>1, <2>2, QuietTypes, Zenon DEF TypeOK
<1>3. ASSUME NEW c \in Conn, PeerLeave(c) PROVE TypeOK'
  <2>1. UNCHANGED <<delivery, histories>> /\ ServerTypes'
    BY <1>0, <1>3, Zenon DEF PeerLeave, ServerTypes
  <2>2. KernelTypes'
    BY <1>0, <1>3, Zenon DEF PeerLeave, KernelTypes
  <2> QED
    BY <1>0, <2>1, <2>2, QuietTypes, Zenon DEF TypeOK
<1>4. ASSUME NEW c \in Conn, Accept(c) PROVE TypeOK'
  <2>1. UNCHANGED <<delivery, histories>> /\ ServerTypes'
    BY <1>0, <1>4, Zenon DEF Accept, ServerTypes
  <2>2. KernelTypes'
    <3>1. CASE c \in Authorized
      <4>1. PICK f \in Fd : /\ fdTable' = [fdTable EXCEPT ![f] = c]
                           /\ cfd' = [cfd EXCEPT ![c] = f]
                           /\ sock' = [sock EXCEPT ![c] = "open"]
        BY <1>4, <3>1, Zenon DEF Accept
      <4>2. UNCHANGED <<peer, unread, waiting>>
        BY <1>4, Zenon DEF Accept
      <4> QED
        BY <1>0, <4>1, <4>2, Zenon DEF KernelTypes
    <3>2. CASE c \notin Authorized
      BY <1>0, <1>4, <3>2, Zenon DEF Accept, KernelTypes
    <3> QED
      BY <3>1, <3>2, Zenon
  <2> QED
    BY <1>0, <2>1, <2>2, QuietTypes, Zenon DEF TypeOK
<1>5. CASE AcceptInsert
  <2>1. accepted \in Conn /\ cfd[accepted] \in Fd
    <3>1. acceptor = "insert" /\ AcceptInv /\ SocketFd
      BY <1>5, Zenon DEF AcceptInsert, InsertUpTo, IpcInv, Ownership, FdInv
    <3> QED
      BY <1>0, <3>1, Zenon DEF AcceptInv, SocketFd, ServerTypes
  <2>2. UNCHANGED <<delivery, histories>>
    BY <1>5, Zenon DEF AcceptInsert, InsertUpTo
  <2>3. ServerTypes'
    BY <1>0, <1>5, <2>1, Zenon DEF AcceptInsert, InsertUpTo, ServerTypes
  <2>4. CloseFd(accepted) \/ UNCHANGED kernel
    BY <1>5, Zenon DEF AcceptInsert, InsertUpTo
  <2>5. KernelTypes'
    BY <1>0, <2>1, <2>4, QuietTypes, Zenon DEF CloseFd, KernelTypes
  <2> QED
    BY <1>0, <2>2, <2>3, <2>5, QuietTypes, Zenon DEF TypeOK
<1>6. CASE AcceptSpawnFails
  <2>1. accepted \in Conn
    BY <1>0, <1>6, Zenon DEF AcceptSpawnFails, IpcInv, Ownership, AcceptInv, ServerTypes
  <2>2. UNCHANGED <<delivery, histories>> /\ CloseFd(accepted)
    BY <1>6, Zenon DEF AcceptSpawnFails
  <2>3. ServerTypes'
    BY <1>0, <1>6, ZenonT(60) DEF AcceptSpawnFails, ServerTypes
  <2>4. KernelTypes'
    BY <1>0, <2>1, <2>2, ZenonT(60) DEF CloseFd, KernelTypes
  <2> QED
    BY <1>0, <2>2, <2>3, <2>4, QuietTypes, Zenon DEF TypeOK
<1>7. ASSUME NEW c \in Conn, ClientClose(c) PROVE TypeOK'
  <2>1. UNCHANGED <<delivery, histories>> /\ CloseFd(c)
    BY <1>7, Zenon DEF ClientClose
  <2>2. ServerTypes'
    BY <1>0, <1>7, ZenonT(60) DEF ClientClose, ServerTypes, ClientPc
  <2>3. KernelTypes'
    BY <1>0, <2>1, ZenonT(60) DEF CloseFd, KernelTypes
  <2> QED
    BY <1>0, <2>1, <2>2, <2>3, QuietTypes, Zenon DEF TypeOK
<1>8. CASE StopShutdown
  <2>1. UNCHANGED <<delivery, histories>> /\ ServerTypes'
    BY <1>0, <1>8, Zenon DEF StopShutdown, ServerTypes
  <2>2. KernelTypes'
    BY <1>0, <1>8, Zenon DEF StopShutdown, KernelTypes
  <2> QED
    BY <1>0, <2>1, <2>2, QuietTypes, Zenon DEF TypeOK
<1> QED
  BY <1>1, <1>2, <1>3, <1>4, <1>5, <1>6, <1>7, <1>8, Zenon

(* A frame is received and handled. *)
LEMMA FrameTypeStep ==
  ASSUME IpcInv, NEW c \in Conn, ClientFrame(c)
  PROVE  TypeOK'
<1>0. ServerTypes /\ HistoryTypes /\ TypeOK
  BY Zenon DEF IpcInv, TypeOK
<1>1. Receive(c)
  BY Zenon DEF ClientFrame, ClientRequest, Answer, ClientSubscribe, ClientUnsubscribe
<1>2. UNCHANGED <<kernel, delivery, stopper, acceptor, accepted, clients, swept, dropped,
                  events, got, lost>>
  BY <1>1, ZenonT(60) DEF Receive
<1>3. asked' \in [Conn -> Nat]
  BY <1>0, <1>1 DEF Receive, HistoryTypes
<1>4. pc' \in [Thread -> ClientPc \cup CapturePc]
  <2>1. \E s \in {"push", "stuck"} : pc' = [pc EXCEPT ![c] = s]
    BY Zenon DEF ClientFrame, ClientRequest, Answer, ClientSubscribe, ClientUnsubscribe
  <2> QED
    BY <1>0, <2>1, ZenonT(60) DEF ServerTypes, ClientPc
<1>5. after' \in [Conn -> {"recv", "erase"}]
  <2>1. \E next \in {"recv", "erase"} : after' = [after EXCEPT ![c] = next]
    BY Zenon DEF ClientFrame, ClientRequest, Answer, ClientSubscribe, ClientUnsubscribe
  <2> QED
    BY <1>0, <2>1, Zenon DEF ServerTypes
<1>6. subs' \in [Conn -> SUBSET RequestId]
  <2>1. \/ subs' = subs
        \/ \E id \in RequestId : \/ subs' = [subs EXCEPT ![c] = @ \cup {id}]
                                 \/ subs' = [subs EXCEPT ![c] = @ \ {id}]
    BY Zenon DEF ClientFrame, ClientRequest, Answer, ClientSubscribe, ClientUnsubscribe
  <2> QED
    BY <1>0, <2>1, ZenonT(60) DEF ServerTypes
<1>7. ServerTypes'
  BY <1>0, <1>2, <1>4, <1>5, <1>6, Zenon DEF ServerTypes
<1>8. HistoryTypes'
  BY <1>0, <1>2, <1>3, Zenon DEF HistoryTypes
<1> QED
  BY <1>0, <1>2, <1>7, <1>8, QuietTypes, Zenon DEF TypeOK

(* A step of deliver(), on any thread. *)
LEMMA DeliverTypeStep ==
  ASSUME IpcInv, NEW a \in Thread, Deliver(a)
  PROVE  TypeOK'
<1>0. ServerTypes /\ KernelTypes /\ DeliveryTypes /\ HistoryTypes /\ TypeOK
  BY Zenon DEF IpcInv, TypeOK
<1>1. /\ pc[a] \in {"push", "swap", "send"}
      /\ To(a) \in Conn /\ Encoded(a) \in Frame /\ cfd[To(a)] \in Fd
  <2>1. pc[a] \in {"push", "swap", "send"}
    BY ZenonT(60) DEF Deliver, Push, Overflow, Swap, TakeQueue, SendBlocks, SendOk, SendFails, GiveUp,
           SendEnd, Sending
  <2> QED
    BY <2>1, DeliverTypes, Zenon
<1>2. CASE Push(a)
  <2>1. UNCHANGED <<kernel, histories>>
    BY <1>2, Zenon DEF Push
  <2>2. ServerTypes'
    BY <1>0, <1>2, Zenon DEF Push, ServerTypes, ClientPc
  <2>3. /\ outq' = [outq EXCEPT ![To(a)] = Append(@, Encoded(a))]
        /\ UNCHANGED <<toSend, sentUpTo, todo, targets>>
    BY <1>2, Zenon DEF Push
  <2>4. DeliveryTypes'
    BY <1>0, <1>1, <2>3 DEF DeliveryTypes
  <2> QED
    BY <1>0, <2>1, <2>2, <2>4, QuietTypes, Zenon DEF TypeOK
<1>3. CASE Overflow(a)
  <2>1. UNCHANGED <<kernel, stopper, acceptor, accepted, clients, swept, subs, after,
                    toSend, sentUpTo, todo, asked, events, got>>
    BY <1>3, Zenon DEF Overflow
  <2>2. pc' \in [Thread -> ClientPc \cup CapturePc] /\ targets' \in Seq(Conn)
    <3>1. LeaveDeliver(a)
      BY <1>3, ZenonT(60) DEF Overflow
    <3> QED
      BY <1>1, <3>1, LeaveTypes, Zenon
  <2>3. /\ outq' = [outq EXCEPT ![To(a)] = <<>>]
        /\ dropped' = dropped + 1
        /\ lost' = lost \cup ({To(a)} \X (Range(outq[To(a)]) \cup {Encoded(a)}))
    BY <1>3, Zenon DEF Overflow
  <2>4. Range(outq[To(a)]) \subseteq Frame
    BY <1>0, <1>1 DEF Range, DeliveryTypes
  <2>5. lost' \in SUBSET (Conn \X Frame)
    BY <1>0, <1>1, <2>3, <2>4, Zenon DEF HistoryTypes
  <2>6. ServerTypes'
    BY <1>0, <2>1, <2>2, <2>3 DEF ServerTypes
  <2>7. DeliveryTypes'
    BY <1>0, <1>1, <2>1, <2>2, <2>3 DEF DeliveryTypes
  <2>8. HistoryTypes'
    BY <1>0, <2>1, <2>5, Zenon DEF HistoryTypes
  <2> QED
    BY <1>0, <2>1, <2>6, <2>7, <2>8, QuietTypes, Zenon DEF TypeOK
<1>4. CASE Swap(a)
  <2>1. UNCHANGED <<kernel, histories>>
    BY <1>4, Zenon DEF Swap, TakeQueue
  <2>2. ServerTypes'
    BY <1>0, <1>4, Zenon DEF Swap, TakeQueue, ServerTypes, ClientPc
  <2>3. /\ toSend' = [toSend EXCEPT ![a] = outq[To(a)]]
        /\ outq' = [outq EXCEPT ![To(a)] = <<>>]
        /\ sentUpTo' = [sentUpTo EXCEPT ![a] = 0]
        /\ UNCHANGED <<todo, targets>>
    BY <1>4, Zenon DEF Swap, TakeQueue
  <2>4. DeliveryTypes'
    BY <1>0, <1>1, <2>3 DEF DeliveryTypes
  <2> QED
    BY <1>0, <2>1, <2>2, <2>4, QuietTypes, Zenon DEF TypeOK
<1>5. ASSUME Writable(SocketOf(a)) PROVE SocketOf(a) \in Conn
  BY <1>0, <1>1, <1>5, Zenon DEF SocketOf, Writable, KernelTypes
<1>6. CASE SendBlocks(a)
  <2>1. UNCHANGED <<delivery, histories>> /\ ServerTypes'
    BY <1>0, <1>6, Zenon DEF SendBlocks, ServerTypes
  <2>2. /\ waiting' = [waiting EXCEPT ![a] = SocketOf(a)] /\ Writable(SocketOf(a))
        /\ UNCHANGED <<fdTable, cfd, sock, peer, unread>>
    BY <1>6, Zenon DEF SendBlocks
  <2>3. KernelTypes'
    BY <1>0, <1>5, <2>2, Zenon DEF KernelTypes
  <2> QED
    BY <1>0, <2>1, <2>3, QuietTypes, Zenon DEF TypeOK
<1>7. CASE SendOk(a)
  <2>a. UNCHANGED <<stopper, acceptor, accepted, clients, swept, fdTable, cfd, sock, peer,
                    subs, outq, pc, after, toSend, todo, targets, dropped, asked, events,
                    lost>>
    BY <1>7, ZenonT(60) DEF SendOk
  <2>1. ServerTypes' /\ UNCHANGED <<outq, toSend, todo, targets, asked, events, lost>>
    BY <1>0, <2>a, Zenon DEF ServerTypes
  <2>2. /\ Writable(SocketOf(a))
        /\ got' = [got EXCEPT ![SocketOf(a)] = @ \cup {toSend[a][sentUpTo[a] + 1]}]
        /\ unread' = [unread EXCEPT ![SocketOf(a)] = @ + 1]
        /\ waiting' = [waiting EXCEPT ![a] = None]
        /\ sentUpTo' = [sentUpTo EXCEPT ![a] = @ + 1]
        /\ UNCHANGED <<fdTable, cfd, sock, peer>>
    BY <1>7, Zenon DEF SendOk
  <2>3. sentUpTo[a] < Len(toSend[a])
    BY <1>7, Zenon DEF SendOk, Sending
  <2>4. toSend[a][sentUpTo[a] + 1] \in Frame
    BY <1>0, <2>3 DEF DeliveryTypes
  <2>5. KernelTypes'
    BY <1>0, <1>5, <2>2 DEF KernelTypes
  <2>6. DeliveryTypes'
    BY <1>0, <2>1, <2>2 DEF DeliveryTypes
  <2>7. HistoryTypes'
    BY <1>0, <1>5, <2>1, <2>2, <2>4, Zenon DEF HistoryTypes
  <2> QED
    BY <2>1, <2>5, <2>6, <2>7, Zenon DEF TypeOK
<1>8. CASE SendFails(a)
  <2>1. UNCHANGED <<stopper, acceptor, accepted, clients, swept, subs, after, fdTable, cfd,
                    sock, peer, unread, outq, todo, asked, events, got>>
    BY <1>8, ZenonT(60) DEF SendFails, GiveUp
  <2>2. pc' \in [Thread -> ClientPc \cup CapturePc] /\ targets' \in Seq(Conn)
    <3>1. LeaveDeliver(a)
      BY <1>8, ZenonT(60) DEF SendFails, GiveUp
    <3> QED
      BY <1>1, <3>1, LeaveTypes, Zenon
  <2>l. lost' = lost \cup {<<To(a), toSend[a][i]>> : i \in (sentUpTo[a] + 1)..Len(toSend[a])}
    BY <1>8, ZenonT(60) DEF SendFails, GiveUp
  <2>3. /\ dropped' = dropped + Len(toSend[a])
        /\ toSend' = [toSend EXCEPT ![a] = <<>>]
        /\ sentUpTo' = [sentUpTo EXCEPT ![a] = 0]
        /\ waiting' = [waiting EXCEPT ![a] = None]
    BY <1>8, ZenonT(60) DEF SendFails, GiveUp
  <2>4. /\ \A i \in (sentUpTo[a] + 1)..Len(toSend[a]) : toSend[a][i] \in Frame
        /\ Len(toSend[a]) \in Nat
    BY <1>0 DEF DeliveryTypes
  <2>5. lost' \in SUBSET (Conn \X Frame)
    BY <1>0, <1>1, <2>l, <2>4 DEF HistoryTypes
  <2>6. ServerTypes'
    <3>1. dropped' \in Nat
      BY <1>0, <2>3, <2>4 DEF ServerTypes
    <3> QED
      BY <1>0, <2>1, <2>2, <3>1, Zenon DEF ServerTypes
  <2>7. KernelTypes'
    BY <1>0, <2>1, <2>3, ZenonT(60) DEF KernelTypes
  <2>8. DeliveryTypes'
    <3>1. outq' \in [Conn -> Seq(Frame)] /\ todo' \in SUBSET Fd
      BY <1>0, <2>1, Zenon DEF DeliveryTypes
    <3>2. toSend' \in [Thread -> Seq(Frame)]
      BY <1>0, <2>3 DEF DeliveryTypes
    <3>3. sentUpTo' \in [Thread -> Nat]
      BY <1>0, <2>3, Zenon DEF DeliveryTypes
    <3> QED
      BY <2>2, <3>1, <3>2, <3>3, Zenon DEF DeliveryTypes
  <2>9. HistoryTypes'
    BY <1>0, <2>1, <2>5, Zenon DEF HistoryTypes
  <2> QED
    BY <2>6, <2>7, <2>8, <2>9, Zenon DEF TypeOK
<1>9. CASE SendEnd(a)
  <2>1. UNCHANGED <<kernel, histories, stopper, acceptor, accepted, clients, swept, subs,
                    after, dropped, outq, todo>>
    BY <1>9, Zenon DEF SendEnd
  <2>2. pc' \in [Thread -> ClientPc \cup CapturePc] /\ targets' \in Seq(Conn)
    <3>1. LeaveDeliver(a)
      BY <1>9, ZenonT(60) DEF SendEnd
    <3> QED
      BY <1>1, <3>1, LeaveTypes, Zenon
  <2>3. toSend' = [toSend EXCEPT ![a] = <<>>] /\ sentUpTo' = [sentUpTo EXCEPT ![a] = 0]
    BY <1>9, Zenon DEF SendEnd
  <2>4. ServerTypes'
    BY <1>0, <2>1, <2>2, Zenon DEF ServerTypes
  <2>5. DeliveryTypes'
    BY <1>0, <2>1, <2>2, <2>3 DEF DeliveryTypes
  <2> QED
    BY <1>0, <2>1, <2>4, <2>5, QuietTypes, Zenon DEF TypeOK
<1> QED
  BY <1>2, <1>3, <1>4, <1>6, <1>7, <1>8, <1>9, Zenon DEF Deliver

(* broadcast() before it delivers. *)
LEMMA BroadcastTypeStep ==
  ASSUME IpcInv, BroadcastLock \/ \E f \in Fd : BroadcastVisit(f)
  PROVE  TypeOK'
<1>0. ServerTypes /\ DeliveryTypes /\ HistoryTypes /\ TypeOK
  BY Zenon DEF IpcInv, TypeOK
<1>1. CASE BroadcastLock
  <2>1. UNCHANGED <<kernel, outq, toSend, sentUpTo, asked, got, lost>>
    BY <1>1, Zenon DEF BroadcastLock
  <2>2. ServerTypes'
    BY <1>0, <1>1, ZenonT(60) DEF BroadcastLock, ServerTypes, CapturePc
  <2>3. targets' \in Seq(Conn) /\ todo' \in SUBSET Fd /\ events' = events + 1
    BY <1>1 DEF BroadcastLock
  <2>4. DeliveryTypes' /\ HistoryTypes'
    BY <1>0, <2>1, <2>3 DEF DeliveryTypes, HistoryTypes
  <2> QED
    BY <1>0, <2>1, <2>2, <2>4, QuietTypes, Zenon DEF TypeOK
<1>2. ASSUME NEW f \in Fd, BroadcastVisit(f) PROVE TypeOK'
  <2>1. UNCHANGED <<kernel, histories, outq, toSend, sentUpTo>> /\ ServerTypes'
    BY <1>0, <1>2, Zenon DEF BroadcastVisit, ServerTypes
  <2>2. clients[f] \in Conn
    BY <1>0, <1>2, Zenon DEF BroadcastVisit, CaptureInv, IpcInv, ServerTypes
  <2>3. /\ todo' = todo \ {f}
        /\ targets' = targets \/ targets' = Append(targets, clients[f])
    BY <1>2, ZenonT(60) DEF BroadcastVisit
  <2>a. targets \in Seq(Conn)
    BY <1>0, Zenon DEF DeliveryTypes
  <2>b. targets' \in Seq(Conn)
    BY <2>2, <2>3, <2>a
  <2>4. DeliveryTypes'
    BY <1>0, <2>1, <2>3, <2>b, Zenon DEF DeliveryTypes
  <2> QED
    BY <1>0, <2>1, <2>4, QuietTypes, Zenon DEF TypeOK
<1> QED
  BY <1>1, <1>2, Zenon

(* Every action keeps the types. *)
LEMMA TypeStep == IpcInv /\ Next => TypeOK'
<1> SUFFICES ASSUME IpcInv, Next PROVE TypeOK'
  BY Zenon
<1>1. ASSUME NEW c \in Conn, ClientStep(c) PROVE TypeOK'
  BY <1>1, ServerTypeStep, KernelTypeStep, DeliverTypeStep, Zenon DEF ClientStep, Thread
<1>2. CASE CaptureStep
  BY <1>2, ServerTypeStep, BroadcastTypeStep, DeliverTypeStep, Zenon DEF CaptureStep, Thread
<1>3. CASE AcceptStep \/ StopBegin \/ StopStep \/ Start
  BY <1>3, ServerTypeStep, KernelTypeStep, Zenon DEF AcceptStep, StopStep
<1> QED
  BY <1>1, <1>2, <1>3, KernelTypeStep, FrameTypeStep, BroadcastTypeStep, Zenon DEF Next

-----------------------------------------------------------------------------
(* A step that moves client threads only between the places where they are *)
(* registered, and touches no descriptor, keeps the ownership invariants.  *)
LEMMA QuietOwnership ==
  ASSUME IpcInv, TypeOK',
         UNCHANGED <<stopper, acceptor, accepted, clients, swept, fdTable, cfd, sock>>,
         \A c \in Conn : pc'[c] = pc[c] \/ (pc[c] \in Registered /\ pc'[c] \in Registered)
  PROVE  Ownership'
<1>0. FdInv /\ AcceptInv /\ EntryInv /\ StopInv
  BY Zenon DEF IpcInv, Ownership
<1>a. /\ accepted # None => accepted \in Conn
      /\ \A f \in Fd : clients[f] # None => clients[f] \in Conn
  BY ConnRanges, Zenon DEF IpcInv
<1>b. "none" \notin Registered /\ "close" \notin Registered /\ "leaked" \notin Registered
  BY Zenon DEF Registered
<1>1. FdInv'
  <2>1. FdOwner' /\ SocketFd'
    BY <1>0, Zenon DEF FdInv, FdOwner, SocketFd
  <2>2. ThreadSocket'
    <3>1. SUFFICES ASSUME NEW c \in Conn
                   PROVE /\ pc'[c] \in ClientPc
                         /\ pc'[c] \in Registered \cup {"close", "leaked"} => sock[c] \in {"open", "shut"}
                         /\ sock[c] \in {"none", "queued"} => pc'[c] = "none"
                         /\ sock[c] = "open" => pc'[c] # "done" /\ (pc'[c] = "none" => c = accepted)
      BY Zenon DEF ThreadSocket
    <3>2. CASE pc'[c] = pc[c]
      BY <1>0, <3>2, Zenon DEF FdInv, ThreadSocket
    <3>3. CASE pc[c] \in Registered /\ pc'[c] \in Registered
      BY <1>0, <3>3, Zenon DEF FdInv, ThreadSocket, Registered, ClientPc
    <3> QED
      BY <3>2, <3>3, Zenon
  <2> QED
    BY <2>1, <2>2, Zenon DEF FdInv
<1>2. AcceptInv'
  BY <1>0, <1>a, <1>b, Zenon DEF AcceptInv
<1>3. EntryInv'
  <2>1. \A c \in Conn : pc'[c] \in Registered <=> pc[c] \in Registered
    BY Zenon
  <2> QED
    BY <1>0, <1>a, <2>1, Zenon DEF EntryInv
<1>4. StopInv'
  BY <1>0, <1>b, Zenon DEF StopInv, StopDisconnectsAll
<1> QED
  BY <1>1, <1>2, <1>3, <1>4, Zenon DEF Ownership

(* A step of another thread keeps what the capture thread relies on, when  *)
(* it changes clients_ only with clients_mutex_ free.                      *)
LEMMA QuietCapture ==
  ASSUME IpcInv, TypeOK',
         UNCHANGED <<todo, targets>>, pc'[Capture] = pc[Capture],
         pc[Capture] = "collect" => clients' = clients,
         \A c \in Conn : cfd[c] \in Fd => cfd'[c] \in Fd
  PROVE  CaptureInv'
  BY DEF IpcInv, CaptureInv, TypeOK, DeliveryTypes

(* A step that does not concern out_queue keeps its bound. *)
LEMMA QuietQueue ==
  ASSUME IpcInv, TypeOK', outq' = outq,
         pc[Capture] = "swap" => targets' = targets,
         \A a \in Thread : pc'[a] = "swap" <=> pc[a] = "swap"
  PROVE  OutQueueShort'
  BY Zenon DEF IpcInv, OutQueueShort, To, Thread

(* deliver() moves only the thread that runs it. *)
LEMMA DeliverMoves ==
  ASSUME IpcInv, NEW a \in Thread, Deliver(a)
  PROVE  /\ pc[a] \in {"push", "swap", "send"}
         /\ \A b \in Thread : b # a => pc'[b] = pc[b]
         /\ Push(a) => pc'[a] = "swap"
         /\ Swap(a) => pc'[a] = "send"
         /\ SendOk(a) \/ SendBlocks(a) => pc'[a] = "send" /\ pc[a] = "send"
         /\ Overflow(a) \/ SendFails(a) \/ SendEnd(a) =>
              pc[a] # "swap" /\ pc'[a] \in IF a = Capture THEN {"push", "idle"} ELSE {"recv", "erase"}
<1>0. pc \in [Thread -> ClientPc \cup CapturePc] /\ after \in [Conn -> {"recv", "erase"}]
  BY Zenon DEF IpcInv, TypeOK, ServerTypes, KernelTypes
<1>1. LeaveDeliver(a) =>
        /\ \A b \in Thread : b # a => pc'[b] = pc[b]
        /\ pc'[a] \in IF a = Capture THEN {"push", "idle"} ELSE {"recv", "erase"}
  BY <1>0, Zenon DEF LeaveDeliver, Thread
<1>2. Push(a) => pc[a] = "push" /\ pc' = [pc EXCEPT ![a] = "swap"]
  BY Zenon DEF Push
<1>3. Swap(a) => pc[a] = "swap" /\ pc' = [pc EXCEPT ![a] = "send"]
  BY Zenon DEF Swap, TakeQueue
<1>4. SendOk(a) \/ SendBlocks(a) => pc[a] = "send" /\ pc' = pc
  BY Zenon DEF SendOk, SendBlocks, Sending
<1>5. Overflow(a) => pc[a] = "push" /\ LeaveDeliver(a)
  BY Zenon DEF Overflow
<1>6. SendFails(a) \/ SendEnd(a) => pc[a] = "send" /\ LeaveDeliver(a)
  BY ZenonT(60) DEF SendFails, GiveUp, Sending, SendEnd
<1>7. Push(a) \/ Swap(a) => \A b \in Thread : b # a => pc'[b] = pc[b]
  BY <1>0, <1>2, <1>3, Zenon
<1>8. (Push(a) => pc'[a] = "swap") /\ (Swap(a) => pc'[a] = "send")
  BY <1>0, <1>2, <1>3, Zenon
<1> QED
  BY <1>1, <1>2, <1>3, <1>4, <1>5, <1>6, <1>7, <1>8, Zenon DEF Deliver

(* A step of deliver() moves its thread between registered places (or the  *)
(* capture thread) and keeps the capture thread's own invariant.           *)
LEMMA DeliverOwnership ==
  ASSUME IpcInv, TypeOK', NEW a \in Thread, Deliver(a)
  PROVE  Ownership'
<1> USE DEF Deliver, kernel, delivery, histories
<1>1. UNCHANGED <<stopper, acceptor, accepted, clients, swept, fdTable, cfd, sock>>
  BY ZenonT(60) DEF Push, Overflow, Swap, TakeQueue, SendBlocks, Sending, SendOk, SendFails, GiveUp, SendEnd
<1>5. \A c \in Conn : pc'[c] = pc[c] \/ (pc[c] \in Registered /\ pc'[c] \in Registered)
  <2>1. Capture \notin Conn
    BY IpcAssumption, Zenon DEF IpcAssumption
  <2> QED
    BY <2>1, DeliverMoves, ZenonT(60) DEF Registered, Thread
<1> QED
  BY <1>1, <1>5, QuietOwnership, Zenon

(* The steps of deliver() keep the capture thread's part of the invariant. *)
LEMMA DeliverCapture ==
  ASSUME IpcInv, TypeOK', NEW a \in Thread, Deliver(a)
  PROVE  CaptureInv'
<1> USE DEF Deliver, kernel, delivery, histories
<1>1. UNCHANGED <<clients, cfd, todo>>
  BY ZenonT(60) DEF Push, Overflow, Swap, TakeQueue, SendBlocks, Sending, SendOk, SendFails, GiveUp, SendEnd
<1>2. CASE a # Capture
  <2>1. targets' = targets /\ pc'[Capture] = pc[Capture]
    BY <1>2, ZenonT(60) DEF Push, Overflow, Swap, TakeQueue, SendBlocks, Sending, SendOk, SendFails, GiveUp, SendEnd,
                LeaveDeliver, IpcInv, TypeOK, ServerTypes, Thread
  <2> QED
    BY <1>1, <2>1, QuietCapture, ZenonT(60)
<1>3. CASE a = Capture
  <2>1. /\ targets \in Seq(Conn) /\ targets # <<>>
        /\ \A i \in DOMAIN targets : cfd[targets[i]] \in Fd
    BY <1>3, ZenonT(60) DEF Push, Overflow, Swap, TakeQueue, SendBlocks, Sending, SendOk, SendFails, GiveUp, SendEnd,
                IpcInv, TypeOK, DeliveryTypes, CaptureInv
  <2>2. \/ targets' = targets /\ pc'[Capture] \in {"swap", "send"}
        \/ targets' = Tail(targets) /\ pc'[Capture] = IF Len(targets) > 1 THEN "push" ELSE "idle"
    BY <1>3, ZenonT(60) DEF Push, Overflow, Swap, TakeQueue, SendBlocks, Sending, SendOk, SendFails, GiveUp, SendEnd,
                LeaveDeliver, IpcInv, TypeOK, ServerTypes, Thread
  <2>3. CASE targets' = targets /\ pc'[Capture] \in {"swap", "send"}
    BY <1>1, <2>1, <2>3, Zenon DEF CaptureInv, CapturePc
  <2>4. CASE targets' = Tail(targets) /\ pc'[Capture] = IF Len(targets) > 1 THEN "push" ELSE "idle"
    <3>1. \A i \in DOMAIN targets' : targets'[i] = targets[i+1] /\ i+1 \in DOMAIN targets
      BY <2>1, <2>4
    <3>2. Len(targets) > 1 => targets' # <<>>
      <4>1. Len(targets') = Len(targets) - 1 /\ Len(targets) \in Nat
        BY <2>1, <2>4
      <4>2. targets' = <<>> => Len(targets') = 0
        OBVIOUS
      <4> QED
        BY <4>1, <4>2
    <3>3. \A i \in DOMAIN targets' : cfd'[targets'[i]] \in Fd
      BY <1>1, <2>1, <3>1, Zenon
    <3> QED
      BY <2>4, <3>2, <3>3, Zenon DEF CaptureInv, CapturePc
  <2> QED
    BY <2>2, <2>3, <2>4, Zenon
<1> QED
  BY <1>2, <1>3, Zenon

(* Only a push lengthens out_queue, and its thread goes on to the swap     *)
(* that empties it.                                                        *)
LEMMA DeliverQueue ==
  ASSUME IpcInv, TypeOK', NEW a \in Thread, Deliver(a)
  PROVE  OutQueueShort'
<1> DEFINE t == To(a)
<1> USE IpcAssumption DEF IpcAssumption, delivery
<1>1. pc \in [Thread -> ClientPc \cup CapturePc] /\ outq \in [Conn -> Seq(Frame)]
  BY ZenonT(60) DEF IpcInv, TypeOK, ServerTypes, DeliveryTypes
<1>2. t \in Conn /\ Encoded(a) \in Frame
  BY DeliverTypes, ZenonT(60) DEF Deliver, Push, Overflow, Swap, TakeQueue, SendBlocks, Sending, SendOk, SendFails, GiveUp, SendEnd
<1>3. \A c \in Conn : Len(outq[c]) \in Nat
  BY <1>1
<1>4. CASE Push(a)
  <2>1. /\ pc[a] = "push" /\ pc' = [pc EXCEPT ![a] = "swap"] /\ targets' = targets
        /\ outq' = [outq EXCEPT ![t] = Append(@, Encoded(a))]
    BY <1>4, Zenon DEF Push
  <2>2. \A c \in Conn : Len(outq'[c]) = IF c = t THEN Len(outq[c]) + 1 ELSE Len(outq[c])
    BY <1>1, <1>2, <2>1
  <2>3. \A b \in Thread : pc'[b] = IF b = a THEN "swap" ELSE pc[b]
    BY <1>1, <2>1, Zenon
  <2>4. OutQueueShort
    BY Zenon DEF IpcInv
  <2>5. To(Capture)' = To(Capture) /\ (a = Capture => t = To(Capture)) /\ (a # Capture => t = a)
    BY <2>1, Zenon DEF To
  <2>6. ASSUME NEW c \in Conn
        PROVE  Len(outq'[c]) <= (IF pc'[c] = "swap" THEN 1 ELSE 0)
                 + (IF pc'[Capture] = "swap" /\ To(Capture)' = c THEN 1 ELSE 0)
    <3>1. Len(outq[c]) <= (IF pc[c] = "swap" THEN 1 ELSE 0)
                 + (IF pc[Capture] = "swap" /\ To(Capture) = c THEN 1 ELSE 0)
      BY <2>4, Zenon DEF OutQueueShort
    <3>2. CASE a = Capture
      BY <3>1, <3>2, <1>3, <2>1, <2>2, <2>3, <2>5 DEF Thread
    <3>3. CASE a # Capture
      BY <3>1, <3>3, <1>3, <2>1, <2>2, <2>3, <2>5 DEF Thread
    <3> QED
      BY <3>2, <3>3, Zenon
  <2> QED
    BY <2>6, Zenon DEF OutQueueShort
<1>5. CASE Swap(a)
  <2>1. /\ pc[a] = "swap" /\ pc' = [pc EXCEPT ![a] = "send"] /\ targets' = targets
        /\ outq' = [outq EXCEPT ![t] = <<>>]
    BY <1>5, Zenon DEF Swap, TakeQueue
  <2>2. \A c \in Conn : Len(outq'[c]) = IF c = t THEN 0 ELSE Len(outq[c])
    BY <1>1, <1>2, <2>1, ZenonT(60)
  <2>3. \A b \in Thread : pc'[b] = IF b = a THEN "send" ELSE pc[b]
    BY <1>1, <2>1, Zenon
  <2>4. OutQueueShort
    BY Zenon DEF IpcInv
  <2>5. To(Capture)' = To(Capture) /\ (a = Capture => t = To(Capture)) /\ (a # Capture => t = a)
    BY <2>1, Zenon DEF To
  <2> QED
    BY <1>3, <2>1, <2>2, <2>3, <2>4, <2>5 DEF OutQueueShort, Thread
<1>6. CASE Overflow(a) \/ SendBlocks(a) \/ SendOk(a) \/ SendFails(a) \/ SendEnd(a)
  <2>1. \A b \in Thread : pc'[b] = "swap" <=> pc[b] = "swap"
    BY <1>6, DeliverMoves, Zenon
  <2>2. pc[Capture] = "swap" => targets' = targets
    BY <1>6, ZenonT(60) DEF Overflow, SendBlocks, Sending, SendOk, SendFails, GiveUp, SendEnd, LeaveDeliver
  <2>a. outq' = outq \/ outq' = [outq EXCEPT ![t] = <<>>]
    BY <1>6, ZenonT(60) DEF Overflow, SendBlocks, Sending, SendOk, SendFails, GiveUp, SendEnd
  <2>3. \A c \in Conn : Len(outq'[c]) <= Len(outq[c])
    BY <1>1, <1>2, <1>3, <2>a
  <2>4. OutQueueShort /\ \A c \in Conn : Len(outq'[c]) \in Nat
    BY DEF IpcInv, TypeOK, DeliveryTypes
  <2>5. pc[Capture] = "swap" => To(Capture)' = To(Capture)
    BY <2>2, Zenon DEF To
  <2> QED
    BY <1>3, <2>1, <2>3, <2>4, <2>5 DEF OutQueueShort, Thread
<1> QED
  BY <1>4, <1>5, <1>6, Zenon DEF Deliver

-----------------------------------------------------------------------------
(* The steps that change who owns what, one lemma each. *)

(* start() changes no client. *)
LEMMA StartOwnership ==
  ASSUME IpcInv, Start
  PROVE  Ownership'
<1> USE IpcAssumption DEF IpcAssumption, IpcInv, Ownership, TypeOK, ServerTypes, KernelTypes, Thread, kernel, Start
<1>1. FdInv'
  <2>1. FdOwner'
    BY Zenon DEF FdInv, FdOwner, SocketFd
  <2>2. SocketFd'
    BY Zenon DEF FdInv, FdOwner, SocketFd
  <2>3. ThreadSocket'
    BY Zenon DEF FdInv, ThreadSocket, Registered, ClientPc
  <2> QED
    BY <2>1, <2>2, <2>3, Zenon DEF FdInv
<1>2. AcceptInv'
  BY Zenon DEF AcceptInv
<1>3. EntryInv'
  BY Zenon DEF EntryInv, AcceptInv, FdInv, FdOwner, SocketFd, ThreadSocket, Registered
<1>4. StopInv'
  BY Zenon DEF StopInv, StopDisconnectsAll, FdInv, SocketFd, ThreadSocket, AcceptInv, EntryInv, Registered, ClientPc
<1> QED
  BY <1>1, <1>2, <1>3, <1>4, Zenon

(* A connection in the backlog is nobody's yet. *)
LEMMA ConnectOwnership ==
  ASSUME IpcInv, NEW c \in Conn, PeerConnect(c)
  PROVE  Ownership'
<1> USE IpcAssumption DEF IpcAssumption, IpcInv, Ownership, Thread, kernel, PeerConnect, running
<1>t. /\ sock \in [Conn -> {"none", "queued", "open", "shut", "closed", "ended"}]
      /\ clients \in [Fd -> Conn \cup {None}] /\ fdTable \in [Fd -> Conn \cup {None}]
      /\ cfd \in [Conn -> Fd \cup {None}] /\ accepted \in Conn \cup {None}
      /\ pc \in [Conn \cup {Capture} -> ClientPc \cup CapturePc]
  BY Zenon DEF TypeOK, ServerTypes, KernelTypes
<1>a. /\ \A x \in Conn : sock'[x] = IF x = c THEN "queued" ELSE sock[x]
      /\ sock[c] = "none"
      /\ UNCHANGED <<stopper, acceptor, accepted, clients, swept, fdTable, cfd, pc>>
  BY <1>t, Zenon
<1> HIDE DEF PeerConnect, running
<1>1. FdInv'
  <2>1. FdOwner'
    BY <1>a, ConnRanges, Zenon DEF FdInv, FdOwner, SocketFd
  <2>2. SocketFd'
    BY <1>a, ConnRanges, Zenon DEF FdInv, FdOwner, SocketFd
  <2>3. ThreadSocket'
    BY <1>a, ConnRanges, ZenonT(60) DEF FdInv, ThreadSocket, Registered, ClientPc
  <2> QED
    BY <2>1, <2>2, <2>3, Zenon DEF FdInv
<1>2. AcceptInv'
  BY <1>a, ConnRanges, Zenon DEF AcceptInv
<1>3. EntryInv'
  BY <1>a, ConnRanges, Zenon DEF EntryInv, AcceptInv, FdInv, FdOwner, SocketFd, ThreadSocket, Registered
<1>4. StopInv'
  BY <1>a, ConnRanges DEF StopInv, StopDisconnectsAll, FdInv, SocketFd, ThreadSocket, AcceptInv, EntryInv, Registered, ClientPc
<1> QED
  BY <1>1, <1>2, <1>3, <1>4, Zenon

(* The accept thread ends with nothing in its hands. *)
LEMMA AcceptEndOwnership ==
  ASSUME IpcInv, AcceptEnd
  PROVE  Ownership'
<1> USE IpcAssumption DEF IpcAssumption, IpcInv, Ownership, TypeOK, ServerTypes, KernelTypes, Thread, kernel, AcceptEnd, AcceptGivesUp, running
<1>1. FdInv'
  <2>1. FdOwner'
    BY Zenon DEF FdInv, FdOwner, SocketFd
  <2>2. SocketFd'
    BY Zenon DEF FdInv, FdOwner, SocketFd
  <2>3. ThreadSocket'
    BY Zenon DEF FdInv, ThreadSocket, Registered, ClientPc
  <2> QED
    BY <2>1, <2>2, <2>3, Zenon DEF FdInv
<1>2. AcceptInv'
  BY Zenon DEF AcceptInv
<1>3. EntryInv'
  BY Zenon DEF EntryInv, AcceptInv, FdInv, FdOwner, SocketFd, ThreadSocket, Registered
<1>4. StopInv'
  BY Zenon DEF StopInv, StopDisconnectsAll, FdInv, SocketFd, ThreadSocket, AcceptInv, EntryInv, Registered, ClientPc
<1> QED
  BY <1>1, <1>2, <1>3, <1>4, Zenon

(* stop() begins by lowering running_. *)
LEMMA StopBeginOwnership ==
  ASSUME IpcInv, StopBegin
  PROVE  Ownership'
<1> USE IpcAssumption DEF IpcAssumption, IpcInv, Ownership, TypeOK, ServerTypes, KernelTypes, Thread, kernel, StopBegin, running
<1>1. FdInv'
  <2>1. FdOwner'
    BY Zenon DEF FdInv, FdOwner, SocketFd
  <2>2. SocketFd'
    BY Zenon DEF FdInv, FdOwner, SocketFd
  <2>3. ThreadSocket'
    BY Zenon DEF FdInv, ThreadSocket, Registered, ClientPc
  <2> QED
    BY <2>1, <2>2, <2>3, Zenon DEF FdInv
<1>2. AcceptInv'
  BY Zenon DEF AcceptInv
<1>3. EntryInv'
  BY ZenonT(60) DEF EntryInv, AcceptInv, FdInv, FdOwner, SocketFd, ThreadSocket, Registered
<1>4. StopInv'
  BY Zenon DEF StopInv, StopDisconnectsAll, FdInv, SocketFd, ThreadSocket, AcceptInv, EntryInv, Registered, ClientPc
<1> QED
  BY <1>1, <1>2, <1>3, <1>4, Zenon

(* stop() goes on when the accept thread is done. *)
LEMMA StopJoinOwnership ==
  ASSUME IpcInv, StopJoin
  PROVE  Ownership'
<1> USE IpcAssumption DEF IpcAssumption, IpcInv, Ownership, TypeOK, ServerTypes, KernelTypes, Thread, kernel, StopJoin, JoinWhen
<1>1. FdInv'
  <2>1. FdOwner'
    BY Zenon DEF FdInv, FdOwner, SocketFd
  <2>2. SocketFd'
    BY Zenon DEF FdInv, FdOwner, SocketFd
  <2>3. ThreadSocket'
    BY Zenon DEF FdInv, ThreadSocket, Registered, ClientPc
  <2> QED
    BY <2>1, <2>2, <2>3, Zenon DEF FdInv
<1>2. AcceptInv'
  BY Zenon DEF AcceptInv
<1>3. EntryInv'
  BY Zenon DEF EntryInv, AcceptInv, FdInv, FdOwner, SocketFd, ThreadSocket, Registered
<1>4. StopInv'
  BY Zenon DEF StopInv, StopDisconnectsAll, FdInv, SocketFd, ThreadSocket, AcceptInv, EntryInv, Registered, ClientPc
<1> QED
  BY <1>1, <1>2, <1>3, <1>4, Zenon

(* The accepted connection becomes its thread's. *)
LEMMA SpawnOwnership ==
  ASSUME IpcInv, AcceptSpawn
  PROVE  Ownership'
<1> USE IpcAssumption DEF IpcAssumption, IpcInv, Ownership, Thread, kernel, AcceptSpawn
<1>t. /\ sock \in [Conn -> {"none", "queued", "open", "shut", "closed", "ended"}]
      /\ clients \in [Fd -> Conn \cup {None}] /\ fdTable \in [Fd -> Conn \cup {None}]
      /\ cfd \in [Conn -> Fd \cup {None}] /\ accepted \in Conn \cup {None}
      /\ pc \in [Conn \cup {Capture} -> ClientPc \cup CapturePc]
  BY Zenon DEF TypeOK, ServerTypes, KernelTypes
<1>a. /\ accepted \in Conn /\ acceptor = "spawn" /\ acceptor' = "accept" /\ accepted' = None
      /\ pc[accepted] = "none" /\ sock[accepted] = "open"
      /\ \A x \in Conn : pc'[x] = IF x = accepted THEN "find" ELSE pc[x]
      /\ UNCHANGED <<stopper, clients, swept, fdTable, cfd, sock>>
  BY <1>t, Zenon DEF AcceptInv
<1> HIDE DEF AcceptSpawn
<1>1. FdInv'
  <2>1. FdOwner'
    BY <1>a, ConnRanges, Zenon DEF FdInv, FdOwner, SocketFd
  <2>2. SocketFd'
    BY <1>a, ConnRanges, Zenon DEF FdInv, FdOwner, SocketFd
  <2>3. ThreadSocket'
    BY <1>a, ConnRanges, ZenonT(60) DEF FdInv, ThreadSocket, Registered, ClientPc
  <2> QED
    BY <2>1, <2>2, <2>3, Zenon DEF FdInv
<1>2. AcceptInv'
  BY <1>a, ConnRanges, Zenon DEF AcceptInv
<1>3. EntryInv'
  BY <1>a, ConnRanges DEF EntryInv, AcceptInv, FdInv, FdOwner, SocketFd, ThreadSocket, Registered
<1>4. StopInv'
  BY <1>a, ConnRanges, ZenonT(60) DEF StopInv, StopDisconnectsAll, FdInv, SocketFd, ThreadSocket, AcceptInv, EntryInv, Registered, ClientPc
<1> QED
  BY <1>1, <1>2, <1>3, <1>4, Zenon

(* A peer of another uid never gets a descriptor. *)
LEMMA RejectOwnership ==
  ASSUME IpcInv, NEW c \in Conn, Accept(c), c \notin Authorized
  PROVE  Ownership'
<1> USE IpcAssumption DEF IpcAssumption, IpcInv, Ownership, Thread, kernel, Accept
<1>t. /\ sock \in [Conn -> {"none", "queued", "open", "shut", "closed", "ended"}]
      /\ clients \in [Fd -> Conn \cup {None}] /\ fdTable \in [Fd -> Conn \cup {None}]
      /\ cfd \in [Conn -> Fd \cup {None}] /\ accepted \in Conn \cup {None}
      /\ pc \in [Conn \cup {Capture} -> ClientPc \cup CapturePc]
  BY Zenon DEF TypeOK, ServerTypes, KernelTypes
<1>a. /\ \A x \in Conn : sock'[x] = IF x = c THEN "closed" ELSE sock[x]
      /\ sock[c] = "queued"
      /\ UNCHANGED <<stopper, acceptor, accepted, clients, swept, fdTable, cfd, pc>>
  BY <1>t, Zenon
<1> HIDE DEF Accept
<1>1. FdInv'
  <2>1. FdOwner'
    BY <1>a, ConnRanges, Zenon DEF FdInv, FdOwner, SocketFd
  <2>2. SocketFd'
    BY <1>a, ConnRanges, Zenon DEF FdInv, FdOwner, SocketFd
  <2>3. ThreadSocket'
    BY <1>a, ConnRanges, ZenonT(60) DEF FdInv, ThreadSocket, Registered, ClientPc
  <2> QED
    BY <2>1, <2>2, <2>3, Zenon DEF FdInv
<1>2. AcceptInv'
  BY <1>a, ConnRanges, Zenon DEF AcceptInv
<1>3. EntryInv'
  BY <1>a, ConnRanges, Zenon DEF EntryInv, AcceptInv, FdInv, FdOwner, SocketFd, ThreadSocket, Registered
<1>4. StopInv'
  BY <1>a, ConnRanges DEF StopInv, StopDisconnectsAll, FdInv, SocketFd, ThreadSocket, AcceptInv, EntryInv, Registered, ClientPc
<1> QED
  BY <1>1, <1>2, <1>3, <1>4, Zenon

(* An accepted connection gets a descriptor nobody has. *)
LEMMA AcceptOwnership ==
  ASSUME IpcInv, NEW c \in Conn, Accept(c), c \in Authorized
  PROVE  Ownership'
<1> USE IpcAssumption DEF IpcAssumption, IpcInv, Ownership, Thread, kernel, Accept, running
<1>t. /\ sock \in [Conn -> {"none", "queued", "open", "shut", "closed", "ended"}]
      /\ clients \in [Fd -> Conn \cup {None}] /\ fdTable \in [Fd -> Conn \cup {None}]
      /\ cfd \in [Conn -> Fd \cup {None}] /\ accepted \in Conn \cup {None}
      /\ pc \in [Conn \cup {Capture} -> ClientPc \cup CapturePc]
  BY Zenon DEF TypeOK, ServerTypes, KernelTypes
<1>f. PICK f \in Fd : /\ fdTable[f] = None
                       /\ fdTable' = [fdTable EXCEPT ![f] = c]
                       /\ cfd' = [cfd EXCEPT ![c] = f]
                       /\ sock' = [sock EXCEPT ![c] = "open"]
                       /\ acceptor' = "insert" /\ accepted' = c
  BY Zenon DEF LowestFree
<1>a. /\ \A x \in Conn : sock'[x] = IF x = c THEN "open" ELSE sock[x]
      /\ \A x \in Conn : cfd'[x] = IF x = c THEN f ELSE cfd[x]
      /\ \A g \in Fd : fdTable'[g] = IF g = f THEN c ELSE fdTable[g]
      /\ sock[c] = "queued" /\ fdTable[f] = None /\ acceptor = "accept" /\ stopper = "up"
      /\ acceptor' = "insert" /\ accepted' = c
      /\ UNCHANGED <<stopper, clients, swept, pc>>
  BY <1>t, <1>f, Zenon
<1>c. pc[c] = "none"
  BY <1>a, Zenon DEF FdInv, ThreadSocket
<1> HIDE DEF Accept, running
<1>1. FdInv'
  <2>0. accepted = None /\ f # None
    BY <1>a, Zenon DEF AcceptInv
  <2>1. FdOwner'
    BY <1>a, ConnRanges DEF FdInv, FdOwner
  <2>2. ASSUME NEW x \in Conn, sock'[x] \in {"open", "shut"}
        PROVE  cfd'[x] \in Fd /\ fdTable'[cfd'[x]] = x
    <3>1. CASE x = c
      BY <1>a, <3>1, Zenon
    <3>2. CASE x # c
      <4>1. sock[x] \in {"open", "shut"} /\ cfd'[x] = cfd[x]
        BY <1>a, <2>2, <3>2, Zenon
      <4>2. cfd[x] \in Fd /\ fdTable[cfd[x]] = x
        BY <4>1, Zenon DEF FdInv, SocketFd
      <4>3. cfd[x] # f
        BY <1>a, <4>2, ConnRanges, Zenon
      <4> QED
        BY <1>a, <4>1, <4>2, <4>3, ZenonT(60)
    <3> QED
      BY <3>1, <3>2, Zenon
  <2>3. ThreadSocket'
    <3> SUFFICES ASSUME NEW x \in Conn
                 PROVE  /\ pc[x] \in ClientPc
                        /\ pc[x] \in Registered \cup {"close", "leaked"} => sock'[x] \in {"open", "shut"}
                        /\ sock'[x] \in {"none", "queued"} => pc[x] = "none"
                        /\ sock'[x] = "open" => pc[x] # "done" /\ (pc[x] = "none" => x = c)
      BY <1>a, Zenon DEF ThreadSocket
    <3>1. CASE x = c
      BY <1>a, <1>c, <3>1, Zenon DEF Registered, ClientPc
    <3>2. CASE x # c
      BY <1>a, <2>0, <3>2, ConnRanges, Zenon DEF FdInv, ThreadSocket
    <3> QED
      BY <3>1, <3>2, Zenon
  <2> QED
    BY <2>1, <2>2, <2>3, Zenon DEF FdInv, SocketFd
<1>2. AcceptInv'
  <2>1. \A g \in Fd : clients[g] # c
    BY <1>a, ConnRanges DEF EntryInv, FdInv, FdOwner
  <2> QED
    BY <1>a, <1>c, <2>1, ConnRanges, Zenon DEF AcceptInv
<1>3. EntryInv'
  BY <1>a, ConnRanges, <1>c DEF EntryInv, AcceptInv, FdInv, FdOwner, SocketFd, ThreadSocket, Registered
<1>4. StopInv'
  BY <1>a, ConnRanges, <1>c, Zenon DEF StopInv, StopDisconnectsAll, FdInv, SocketFd, ThreadSocket, AcceptInv, EntryInv, Registered, ClientPc
<1> QED
  BY <1>1, <1>2, <1>3, <1>4, Zenon

(* At the client limit the accepted connection is closed. *)
LEMMA FullOwnership ==
  ASSUME IpcInv, AcceptInsert, CloseFd(accepted), acceptor' = "accept", accepted' = None, UNCHANGED clients
  PROVE  Ownership'
<1> USE IpcAssumption DEF IpcAssumption, IpcInv, Ownership, Thread, kernel, AcceptInsert, InsertUpTo, CloseFd
<1>t. /\ sock \in [Conn -> {"none", "queued", "open", "shut", "closed", "ended"}]
      /\ clients \in [Fd -> Conn \cup {None}] /\ fdTable \in [Fd -> Conn \cup {None}]
      /\ cfd \in [Conn -> Fd \cup {None}] /\ accepted \in Conn \cup {None}
      /\ pc \in [Conn \cup {Capture} -> ClientPc \cup CapturePc]
  BY Zenon DEF TypeOK, ServerTypes, KernelTypes
<1>a. /\ accepted \in Conn /\ cfd[accepted] \in Fd /\ fdTable[cfd[accepted]] = accepted
      /\ pc[accepted] = "none" /\ acceptor = "insert" /\ acceptor' = "accept" /\ accepted' = None
      /\ \A x \in Conn : sock'[x] = IF x = accepted THEN "closed" ELSE sock[x]
      /\ \A g \in Fd : fdTable'[g] = IF g = cfd[accepted] THEN None ELSE fdTable[g]
      /\ UNCHANGED <<stopper, clients, swept, cfd, pc>>
  BY <1>t, Zenon DEF AcceptInv, FdInv, SocketFd
<1> HIDE DEF AcceptInsert, InsertUpTo, CloseFd
<1>1. FdInv'
  <2>1. FdOwner'
    BY <1>a, ConnRanges DEF FdInv, FdOwner, SocketFd
  <2>2. SocketFd'
    BY <1>a, ConnRanges, ZenonT(60) DEF FdInv, FdOwner, SocketFd
  <2>3. ThreadSocket'
    BY <1>a, ConnRanges, ZenonT(60) DEF FdInv, ThreadSocket, Registered, ClientPc
  <2> QED
    BY <2>1, <2>2, <2>3, Zenon DEF FdInv
<1>2. AcceptInv'
  BY <1>a, ConnRanges, Zenon DEF AcceptInv
<1>3. EntryInv'
  BY <1>a, ConnRanges DEF EntryInv, AcceptInv, FdInv, FdOwner, SocketFd, ThreadSocket, Registered
<1>4. StopInv'
  BY <1>a, ConnRanges, Zenon DEF StopInv, StopDisconnectsAll, FdInv, SocketFd, ThreadSocket, AcceptInv, EntryInv, Registered, ClientPc
<1> QED
  BY <1>1, <1>2, <1>3, <1>4, Zenon

(* The accepted connection is registered under its own descriptor. *)
LEMMA InsertOwnership ==
  ASSUME IpcInv, AcceptInsert, clients' = [clients EXCEPT ![cfd[accepted]] = accepted], acceptor' = "spawn", UNCHANGED <<kernel, accepted>>
  PROVE  Ownership'
<1> USE IpcAssumption DEF IpcAssumption, IpcInv, Ownership, Thread, kernel, AcceptInsert, InsertUpTo
<1>t. /\ sock \in [Conn -> {"none", "queued", "open", "shut", "closed", "ended"}]
      /\ clients \in [Fd -> Conn \cup {None}] /\ fdTable \in [Fd -> Conn \cup {None}]
      /\ cfd \in [Conn -> Fd \cup {None}] /\ accepted \in Conn \cup {None}
      /\ pc \in [Conn \cup {Capture} -> ClientPc \cup CapturePc]
  BY Zenon DEF TypeOK, ServerTypes, KernelTypes
<1>a. /\ accepted \in Conn /\ cfd[accepted] \in Fd /\ fdTable[cfd[accepted]] = accepted
      /\ pc[accepted] = "none" /\ sock[accepted] = "open"
      /\ acceptor = "insert" /\ acceptor' = "spawn"
      /\ \A g \in Fd : clients'[g] = IF g = cfd[accepted] THEN accepted ELSE clients[g]
      /\ UNCHANGED <<stopper, accepted, swept, fdTable, sock, cfd, pc>>
  BY <1>t, Zenon DEF AcceptInv, FdInv, SocketFd
<1> HIDE DEF AcceptInsert, InsertUpTo
<1>1. FdInv'
  <2>1. FdOwner'
    BY <1>a, ConnRanges, Zenon DEF FdInv, FdOwner, SocketFd
  <2>2. SocketFd'
    BY <1>a, ConnRanges, Zenon DEF FdInv, FdOwner, SocketFd
  <2>3. ThreadSocket'
    BY <1>a, ConnRanges, ZenonT(60) DEF FdInv, ThreadSocket, Registered, ClientPc
  <2> QED
    BY <2>1, <2>2, <2>3, Zenon DEF FdInv
<1>2. AcceptInv'
  BY <1>a, ConnRanges, Zenon DEF AcceptInv
<1>3. EntryInv'
  <2>1. \A f \in Fd : clients'[f] # None =>
          /\ fdTable'[f] = clients'[f]
          /\ \/ pc'[clients'[f]] \in Registered
             \/ acceptor' = "spawn" /\ accepted' = clients'[f]
    BY <1>a, ConnRanges DEF EntryInv, AcceptInv, FdInv, FdOwner, SocketFd, ThreadSocket, Registered
  <2>2. ASSUME stopper' \notin {"shut", "stopped"}, NEW x \in Conn, pc'[x] \in Registered
        PROVE  clients'[cfd'[x]] = x
    <3>1. pc[x] \in Registered /\ x # accepted /\ cfd[x] \in Fd /\ fdTable[cfd[x]] = x
      BY <1>a, ConnRanges, <2>2, Zenon DEF FdInv, SocketFd, ThreadSocket, Registered
    <3>2. clients[cfd[x]] = x /\ cfd[x] # cfd[accepted]
      BY <1>a, ConnRanges, <2>2, <3>1, Zenon DEF EntryInv
    <3> QED
      BY <1>a, ConnRanges, <3>1, <3>2, Zenon
  <2>3. acceptor' = "spawn" => clients'[cfd'[accepted']] = accepted'
    BY <1>a, ConnRanges, ZenonT(60)
  <2> QED
    BY <2>1, <2>2, <2>3, ZenonT(60) DEF EntryInv
<1>4. StopInv'
  BY <1>a, ConnRanges, Zenon DEF StopInv, StopDisconnectsAll, FdInv, SocketFd, ThreadSocket, AcceptInv, EntryInv, Registered, ClientPc
<1> QED
  BY <1>1, <1>2, <1>3, <1>4, Zenon

(* When no thread can be made, entry and descriptor go together. *)
LEMMA SpawnFailsOwnership ==
  ASSUME IpcInv, AcceptSpawnFails
  PROVE  Ownership'
<1> USE IpcAssumption DEF IpcAssumption, IpcInv, Ownership, Thread, kernel, AcceptSpawnFails, CloseFd
<1>t. /\ sock \in [Conn -> {"none", "queued", "open", "shut", "closed", "ended"}]
      /\ clients \in [Fd -> Conn \cup {None}] /\ fdTable \in [Fd -> Conn \cup {None}]
      /\ cfd \in [Conn -> Fd \cup {None}] /\ accepted \in Conn \cup {None}
      /\ pc \in [Conn \cup {Capture} -> ClientPc \cup CapturePc]
  BY Zenon DEF TypeOK, ServerTypes, KernelTypes
<1>a. /\ accepted \in Conn /\ cfd[accepted] \in Fd /\ fdTable[cfd[accepted]] = accepted
      /\ pc[accepted] = "none" /\ acceptor = "spawn" /\ acceptor' = "accept" /\ accepted' = None
      /\ \A g \in Fd : clients'[g] = IF g = cfd[accepted] THEN None ELSE clients[g]
      /\ \A x \in Conn : sock'[x] = IF x = accepted THEN "closed" ELSE sock[x]
      /\ \A g \in Fd : fdTable'[g] = IF g = cfd[accepted] THEN None ELSE fdTable[g]
      /\ UNCHANGED <<stopper, swept, cfd, pc>>
  BY <1>t, Zenon DEF AcceptInv, FdInv, SocketFd
<1> HIDE DEF AcceptSpawnFails, CloseFd
<1>1. FdInv'
  <2>1. FdOwner'
    BY <1>a, ConnRanges DEF FdInv, FdOwner, SocketFd
  <2>2. SocketFd'
    BY <1>a, ConnRanges, ZenonT(60) DEF FdInv, FdOwner, SocketFd
  <2>3. ThreadSocket'
    BY <1>a, ConnRanges, ZenonT(60) DEF FdInv, ThreadSocket, Registered, ClientPc
  <2> QED
    BY <2>1, <2>2, <2>3, Zenon DEF FdInv
<1>2. AcceptInv'
  BY <1>a, ConnRanges, Zenon DEF AcceptInv
<1>3. EntryInv'
  <2>1. \A f \in Fd : clients'[f] # None =>
          /\ fdTable'[f] = clients'[f]
          /\ \/ pc'[clients'[f]] \in Registered
             \/ acceptor' = "spawn" /\ accepted' = clients'[f]
    BY <1>a, ConnRanges DEF EntryInv, AcceptInv, FdInv, FdOwner, SocketFd, ThreadSocket, Registered
  <2>2. ASSUME stopper' \notin {"shut", "stopped"}, NEW x \in Conn, pc'[x] \in Registered
        PROVE  clients'[cfd'[x]] = x
    <3>1. pc[x] \in Registered /\ x # accepted /\ cfd[x] \in Fd /\ fdTable[cfd[x]] = x
      BY <1>a, ConnRanges, <2>2, Zenon DEF FdInv, SocketFd, ThreadSocket, Registered
    <3>2. clients[cfd[x]] = x /\ cfd[x] # cfd[accepted]
      BY <1>a, ConnRanges, <2>2, <3>1, Zenon DEF EntryInv
    <3> QED
      BY <1>a, ConnRanges, <3>1, <3>2, ZenonT(60)
  <2>3. acceptor' = "spawn" => clients'[cfd'[accepted']] = accepted'
    BY <1>a, ConnRanges, Zenon
  <2> QED
    BY <2>1, <2>2, <2>3, ZenonT(60) DEF EntryInv
<1>4. StopInv'
  BY <1>a, ConnRanges, Zenon DEF StopInv, StopDisconnectsAll, FdInv, SocketFd, ThreadSocket, AcceptInv, EntryInv, Registered, ClientPc
<1> QED
  BY <1>1, <1>2, <1>3, <1>4, Zenon

(* A thread that finds no entry was overtaken by stop(). *)
LEMMA LeakOwnership ==
  ASSUME IpcInv, NEW c \in Conn, ClientFind(c), clients[cfd[c]] = None
  PROVE  Ownership'
<1> USE IpcAssumption DEF IpcAssumption, IpcInv, Ownership, Thread, kernel, ClientFind
<1>t. /\ sock \in [Conn -> {"none", "queued", "open", "shut", "closed", "ended"}]
      /\ clients \in [Fd -> Conn \cup {None}] /\ fdTable \in [Fd -> Conn \cup {None}]
      /\ cfd \in [Conn -> Fd \cup {None}] /\ accepted \in Conn \cup {None}
      /\ pc \in [Conn \cup {Capture} -> ClientPc \cup CapturePc]
  BY Zenon DEF TypeOK, ServerTypes, KernelTypes
<1>a. /\ cfd[c] \in Fd /\ fdTable[cfd[c]] = c /\ pc[c] = "find" /\ clients[cfd[c]] = None
      /\ \A x \in Conn : pc'[x] = IF x = c THEN "leaked" ELSE pc[x]
      /\ UNCHANGED <<stopper, acceptor, accepted, clients, swept, fdTable, cfd, sock>>
  BY <1>t, Zenon DEF FdInv, SocketFd, ThreadSocket, Registered
<1>c. stopper \in {"shut", "stopped"} /\ \A f \in Fd : clients[f] # c
  <2> HIDE DEF ClientFind
  <2>1. stopper \in {"shut", "stopped"}
    BY <1>a, ConnRanges, Zenon DEF EntryInv, Registered
  <2> QED
    BY <1>a, <2>1, ConnRanges, ZenonT(60) DEF StopInv
<1> HIDE DEF ClientFind
<1>1. FdInv'
  <2>1. FdOwner'
    BY <1>a, <1>c, ConnRanges, Zenon DEF FdInv, FdOwner, SocketFd
  <2>2. SocketFd'
    BY <1>a, <1>c, ConnRanges, Zenon DEF FdInv, FdOwner, SocketFd
  <2>3. ThreadSocket'
    BY <1>a, <1>c, ConnRanges, ZenonT(60) DEF FdInv, ThreadSocket, Registered, ClientPc
  <2> QED
    BY <2>1, <2>2, <2>3, Zenon DEF FdInv
<1>2. AcceptInv'
  BY <1>a, <1>c, ConnRanges, Zenon DEF AcceptInv
<1>3. EntryInv'
  BY <1>a, <1>c, ConnRanges DEF EntryInv, AcceptInv, FdInv, FdOwner, SocketFd, ThreadSocket, Registered
<1>4. StopInv'
  BY <1>a, <1>c, ConnRanges, ZenonT(60) DEF StopInv, StopDisconnectsAll, FdInv, SocketFd, ThreadSocket, AcceptInv, EntryInv, Registered, ClientPc
<1> QED
  BY <1>1, <1>2, <1>3, <1>4, Zenon

(* A client thread erases its own entry and no other. *)
LEMMA EraseOwnership ==
  ASSUME IpcInv, NEW c \in Conn, ClientErase(c)
  PROVE  Ownership'
<1> USE IpcAssumption DEF IpcAssumption, IpcInv, Ownership, Thread, kernel, ClientErase
<1>t. /\ sock \in [Conn -> {"none", "queued", "open", "shut", "closed", "ended"}]
      /\ clients \in [Fd -> Conn \cup {None}] /\ fdTable \in [Fd -> Conn \cup {None}]
      /\ cfd \in [Conn -> Fd \cup {None}] /\ accepted \in Conn \cup {None}
      /\ pc \in [Conn \cup {Capture} -> ClientPc \cup CapturePc]
  BY Zenon DEF TypeOK, ServerTypes, KernelTypes
<1>a. /\ cfd[c] \in Fd /\ fdTable[cfd[c]] = c /\ pc[c] = "erase"
      /\ \A x \in Conn : pc'[x] = IF x = c THEN "close" ELSE pc[x]
      /\ \A g \in Fd : clients'[g] = IF g = cfd[c] THEN None ELSE clients[g]
      /\ UNCHANGED <<stopper, acceptor, accepted, swept, fdTable, cfd, sock>>
  BY <1>t, ZenonT(60) DEF FdInv, SocketFd, ThreadSocket, Registered
<1> HIDE DEF ClientErase
<1>1. FdInv'
  <2>1. FdOwner'
    BY <1>a, ConnRanges, Zenon DEF FdInv, FdOwner, SocketFd
  <2>2. SocketFd'
    BY <1>a, ConnRanges, Zenon DEF FdInv, FdOwner, SocketFd
  <2>3. ThreadSocket'
    BY <1>a, ConnRanges, ZenonT(60) DEF FdInv, ThreadSocket, Registered, ClientPc
  <2> QED
    BY <2>1, <2>2, <2>3, Zenon DEF FdInv
<1>2. AcceptInv'
  BY <1>a, ConnRanges, Zenon DEF AcceptInv
<1>3. EntryInv'
  <2>1. \A f \in Fd : clients'[f] # None =>
          /\ fdTable'[f] = clients'[f]
          /\ \/ pc'[clients'[f]] \in Registered
             \/ acceptor' = "spawn" /\ accepted' = clients'[f]
    BY <1>a, ConnRanges DEF EntryInv, AcceptInv, FdInv, FdOwner, SocketFd, Registered
  <2>2. ASSUME stopper' \notin {"shut", "stopped"}, NEW x \in Conn, pc'[x] \in Registered
        PROVE  clients'[cfd'[x]] = x
    <3>1. pc[x] \in Registered /\ x # c /\ cfd[x] \in Fd /\ fdTable[cfd[x]] = x
      BY <1>a, <2>2, Zenon DEF FdInv, SocketFd, ThreadSocket, Registered
    <3>2. clients[cfd[x]] = x /\ cfd[x] # cfd[c]
      BY <1>a, <2>2, <3>1, Zenon DEF EntryInv
    <3> QED
      BY <1>a, <3>1, <3>2, ZenonT(60)
  <2>3. acceptor' = "spawn" => clients'[cfd'[accepted']] = accepted'
    BY <1>a, ConnRanges, ZenonT(60) DEF EntryInv, AcceptInv, FdInv, SocketFd
  <2> QED
    BY <2>1, <2>2, <2>3, Zenon DEF EntryInv
<1>4. StopInv'
  BY <1>a, ConnRanges DEF StopInv, StopDisconnectsAll, FdInv, SocketFd, ThreadSocket, AcceptInv, EntryInv, Registered, ClientPc
<1> QED
  BY <1>1, <1>2, <1>3, <1>4, Zenon

(* The descriptor a client thread closes is no longer registered. *)
LEMMA CloseOwnership ==
  ASSUME IpcInv, NEW c \in Conn, ClientClose(c)
  PROVE  Ownership'
<1> USE IpcAssumption DEF IpcAssumption, IpcInv, Ownership, Thread, kernel, ClientClose, CloseFd
<1>t. /\ sock \in [Conn -> {"none", "queued", "open", "shut", "closed", "ended"}]
      /\ clients \in [Fd -> Conn \cup {None}] /\ fdTable \in [Fd -> Conn \cup {None}]
      /\ cfd \in [Conn -> Fd \cup {None}] /\ accepted \in Conn \cup {None}
      /\ pc \in [Conn \cup {Capture} -> ClientPc \cup CapturePc]
  BY Zenon DEF TypeOK, ServerTypes, KernelTypes
<1>a. /\ cfd[c] \in Fd /\ fdTable[cfd[c]] = c /\ pc[c] = "close"
      /\ \A x \in Conn : pc'[x] = IF x = c THEN "done" ELSE pc[x]
      /\ \A x \in Conn : IF x = c THEN sock'[x] \in {"closed", "ended"} ELSE sock'[x] = sock[x]
      /\ \A g \in Fd : fdTable'[g] = IF g = cfd[c] THEN None ELSE fdTable[g]
      /\ UNCHANGED <<stopper, acceptor, accepted, clients, swept, cfd>>
  BY <1>t, ZenonT(60) DEF FdInv, SocketFd, ThreadSocket, Registered
<1> HIDE DEF ClientClose, CloseFd
<1>1. FdInv'
  <2>1. FdOwner'
    BY <1>a, ConnRanges DEF FdInv, FdOwner, SocketFd
  <2>2. SocketFd'
    BY <1>a, ConnRanges, ZenonT(60) DEF FdInv, FdOwner, SocketFd
  <2>3. ThreadSocket'
    BY <1>a, ConnRanges, ZenonT(60) DEF FdInv, ThreadSocket, Registered, ClientPc
  <2> QED
    BY <2>1, <2>2, <2>3, Zenon DEF FdInv
<1>2. AcceptInv'
  BY <1>a, ConnRanges, Zenon DEF AcceptInv
<1>3. EntryInv'
  <2>1. \A f \in Fd : clients'[f] # None =>
          /\ fdTable'[f] = clients'[f]
          /\ \/ pc'[clients'[f]] \in Registered
             \/ acceptor' = "spawn" /\ accepted' = clients'[f]
    BY <1>a, ConnRanges DEF EntryInv, AcceptInv, FdInv, FdOwner, SocketFd, Registered
  <2>2. ASSUME stopper' \notin {"shut", "stopped"}, NEW x \in Conn, pc'[x] \in Registered
        PROVE  clients'[cfd'[x]] = x
    <3>1. pc[x] \in Registered /\ x # c /\ cfd[x] \in Fd /\ fdTable[cfd[x]] = x
      BY <1>a, <2>2, ZenonT(60) DEF FdInv, SocketFd, ThreadSocket, Registered
    <3>2. clients[cfd[x]] = x /\ cfd[x] # cfd[c]
      BY <1>a, <2>2, <3>1, Zenon DEF EntryInv
    <3> QED
      BY <1>a, <3>1, <3>2, Zenon
  <2>3. acceptor' = "spawn" => clients'[cfd'[accepted']] = accepted'
    BY <1>a, ConnRanges, Zenon DEF EntryInv, AcceptInv, FdInv, SocketFd
  <2> QED
    BY <2>1, <2>2, <2>3, Zenon DEF EntryInv
<1>4. StopInv'
  BY <1>a, ConnRanges DEF StopInv, StopDisconnectsAll, FdInv, SocketFd, ThreadSocket, AcceptInv, EntryInv, Registered, ClientPc
<1> QED
  BY <1>1, <1>2, <1>3, <1>4, Zenon

(* stop() takes every client that still has an open socket and a thread. *)
LEMMA SweepOwnership ==
  ASSUME IpcInv, StopSweep
  PROVE  Ownership'
<1> USE IpcAssumption DEF IpcAssumption, IpcInv, Ownership, Thread, kernel, StopSweep
<1>t. /\ sock \in [Conn -> {"none", "queued", "open", "shut", "closed", "ended"}]
      /\ clients \in [Fd -> Conn \cup {None}] /\ fdTable \in [Fd -> Conn \cup {None}]
      /\ cfd \in [Conn -> Fd \cup {None}] /\ accepted \in Conn \cup {None}
      /\ pc \in [Conn \cup {Capture} -> ClientPc \cup CapturePc]
  BY Zenon DEF TypeOK, ServerTypes, KernelTypes
<1>a. /\ stopper = "sweep" /\ stopper' = "shut" /\ acceptor = "done"
      /\ swept' = {f \in Fd : clients[f] # None}
      /\ \A g \in Fd : clients'[g] = None
      /\ UNCHANGED <<acceptor, accepted, fdTable, cfd, sock, pc>>
  BY <1>t, Zenon DEF AcceptInv
<1> HIDE DEF StopSweep
<1>1. FdInv'
  <2>1. FdOwner'
    BY <1>a, ConnRanges, Zenon DEF FdInv, FdOwner, SocketFd
  <2>2. SocketFd'
    BY <1>a, ConnRanges, Zenon DEF FdInv, FdOwner, SocketFd
  <2>3. ThreadSocket'
    BY <1>a, ConnRanges, Zenon DEF FdInv, ThreadSocket, Registered, ClientPc
  <2> QED
    BY <2>1, <2>2, <2>3, Zenon DEF FdInv
<1>2. AcceptInv'
  BY <1>a, ConnRanges, Zenon DEF AcceptInv
<1>3. EntryInv'
  BY <1>a, ConnRanges, Zenon DEF EntryInv, AcceptInv, FdInv, FdOwner, SocketFd, ThreadSocket, Registered
<1>4. StopInv'
  BY <1>a, ConnRanges DEF StopInv, StopDisconnectsAll, FdInv, SocketFd, ThreadSocket, AcceptInv, EntryInv, Registered, ClientPc
<1> QED
  BY <1>1, <1>2, <1>3, <1>4, Zenon

(* stop() shuts down the sockets of all it has taken. *)
LEMMA ShutdownOwnership ==
  ASSUME IpcInv, StopShutdown
  PROVE  Ownership'
<1> USE IpcAssumption DEF IpcAssumption, IpcInv, Ownership, Thread, kernel, StopShutdown
<1>t. /\ sock \in [Conn -> {"none", "queued", "open", "shut", "closed", "ended"}]
      /\ clients \in [Fd -> Conn \cup {None}] /\ fdTable \in [Fd -> Conn \cup {None}]
      /\ cfd \in [Conn -> Fd \cup {None}] /\ accepted \in Conn \cup {None}
      /\ pc \in [Conn \cup {Capture} -> ClientPc \cup CapturePc]
  BY Zenon DEF TypeOK, ServerTypes, KernelTypes
<1>a. /\ stopper = "shut" /\ stopper' = "stopped" /\ acceptor = "done"
      /\ \A x \in Conn : sock'[x] = IF sock[x] = "open" /\ \E f \in swept : fdTable[f] = x
                                    THEN "shut" ELSE sock[x]
      /\ UNCHANGED <<acceptor, accepted, clients, swept, fdTable, cfd, pc>>
  BY <1>t, Zenon DEF AcceptInv
<1> HIDE DEF StopShutdown
<1>1. FdInv'
  <2>1. FdOwner'
    BY <1>a, ConnRanges, Zenon DEF FdInv, FdOwner, SocketFd
  <2>2. SocketFd'
    BY <1>a, ConnRanges, Zenon DEF FdInv, FdOwner, SocketFd
  <2>3. ThreadSocket'
    BY <1>a, ConnRanges, Zenon DEF FdInv, ThreadSocket, Registered, ClientPc
  <2> QED
    BY <2>1, <2>2, <2>3, Zenon DEF FdInv
<1>2. AcceptInv'
  BY <1>a, ConnRanges, Zenon DEF AcceptInv
<1>3. EntryInv'
  BY <1>a, ConnRanges, Zenon DEF EntryInv, AcceptInv, FdInv, FdOwner, SocketFd, ThreadSocket, Registered
<1>4. StopInv'
  BY <1>a, ConnRanges DEF StopInv, StopDisconnectsAll, FdInv, SocketFd, ThreadSocket, AcceptInv, EntryInv, Registered, ClientPc
<1> QED
  BY <1>1, <1>2, <1>3, <1>4, Zenon

-----------------------------------------------------------------------------
(* Outside deliver() and broadcast() no step touches the capture thread's  *)
(* variables or an out_queue, no step reaches or leaves a swap, and        *)
(* clients_ only changes while clients_mutex_ is free.                     *)
Elsewhere ==
  \/ Start \/ AcceptStep \/ StopBegin \/ StopStep
  \/ \E c \in Conn : \/ PeerConnect(c) \/ PeerRead(c) \/ PeerLeave(c) \/ ClientFrame(c)
                     \/ ClientFind(c) \/ ClientLoopEnds(c) \/ ClientErase(c) \/ ClientClose(c)

(* The step of a thread that is not delivering leaves deliver()'s alone. *)
LEMMA ElsewhereQuiet ==
  ASSUME IpcInv, Elsewhere
  PROVE  /\ UNCHANGED <<todo, targets, outq>> /\ pc'[Capture] = pc[Capture]
         /\ pc[Capture] = "collect" => clients' = clients
         /\ \A c \in Conn : cfd[c] \in Fd => cfd'[c] \in Fd
         /\ \A a \in Thread : pc'[a] = "swap" <=> pc[a] = "swap"
<1> USE IpcAssumption DEF IpcAssumption, kernel, delivery, histories, Thread, ClientsMutexFree
<1>0. /\ pc \in [Thread -> ClientPc \cup CapturePc] /\ cfd \in [Conn -> Fd \cup {None}]
      /\ acceptor \in {"insert", "spawn"} => accepted \in Conn /\ pc[accepted] = "none"
  BY ConnRanges, Zenon DEF IpcInv, TypeOK, ServerTypes, KernelTypes, Ownership, AcceptInv
<1>1. CASE Start \/ StopBegin \/ StopStep
  BY <1>1, Zenon DEF Start, StopBegin, StopStep, StopJoin, JoinWhen, StopSweep, StopShutdown
<1>2. CASE \E c \in Conn : Accept(c)
  <2> PICK c \in Conn : Accept(c)
    BY <1>2, Zenon
  <2>1. UNCHANGED <<todo, targets, outq, pc, clients>>
    BY Zenon DEF Accept
  <2>2. \A x \in Conn : cfd[x] \in Fd => cfd'[x] \in Fd
    BY <1>0, Zenon DEF Accept
  <2> QED
    BY <2>1, <2>2, Zenon
<1>3. CASE AcceptInsert \/ AcceptSpawnFails \/ AcceptEnd
  BY <1>3, Zenon DEF AcceptInsert, InsertUpTo, AcceptSpawnFails, CloseFd, AcceptEnd, AcceptGivesUp
<1>4. CASE AcceptSpawn
  BY <1>0, <1>4, Zenon DEF AcceptSpawn
<1>5. CASE \E c \in Conn : PeerConnect(c) \/ PeerRead(c) \/ PeerLeave(c)
  BY <1>5, Zenon DEF PeerConnect, PeerRead, PeerLeave
<1>6. ASSUME NEW c \in Conn, ClientFrame(c)
      PROVE  /\ UNCHANGED <<todo, targets, outq, clients, cfd>>
             /\ \A a \in Thread : pc'[a] = pc[a] \/ (a = c /\ pc[a] # "swap" /\ pc'[a] # "swap")
  BY <1>0, <1>6, Zenon DEF ClientFrame, ClientRequest, Answer, ClientSubscribe, ClientUnsubscribe, Receive
<1>7. ASSUME NEW c \in Conn, ClientFind(c) \/ ClientLoopEnds(c) \/ ClientErase(c) \/ ClientClose(c)
      PROVE  /\ UNCHANGED <<todo, targets, outq, cfd>>
             /\ pc[Capture] = "collect" => clients' = clients
             /\ \A a \in Thread : pc'[a] = pc[a] \/ (a = c /\ pc[a] # "swap" /\ pc'[a] # "swap")
  BY <1>0, <1>7, Zenon DEF ClientFind, ClientLoopEnds, ClientErase, ClientClose, CloseFd
<1>8. CASE \E c \in Conn : \/ ClientFrame(c) \/ ClientFind(c) \/ ClientLoopEnds(c)
                           \/ ClientErase(c) \/ ClientClose(c)
  BY <1>6, <1>7, <1>8, Zenon
<1> QED
  BY <1>1, <1>2, <1>3, <1>4, <1>5, <1>8, Zenon DEF Elsewhere, AcceptStep

(* broadcast() collects clients that have, or had, a descriptor. *)
LEMMA BroadcastCapture ==
  ASSUME IpcInv, TypeOK', BroadcastLock \/ (\E f \in Fd : BroadcastVisit(f)) \/ BroadcastUnlock
  PROVE  CaptureInv'
<1> USE IpcAssumption DEF IpcAssumption, kernel, delivery, histories, Thread
<1>0. /\ pc \in [Thread -> ClientPc \cup CapturePc] /\ targets \in Seq(Conn)
      /\ CaptureInv /\ TypeOK
  BY ZenonT(60) DEF IpcInv, TypeOK, ServerTypes, DeliveryTypes
<1>1. CASE BroadcastLock
  <2>1. pc'[Capture] = "collect" /\ targets' = <<>> /\ clients' = clients
    BY <1>0, <1>1, Zenon DEF BroadcastLock
  <2>2. \A f \in todo' : clients[f] # None
    BY <1>1, Zenon DEF BroadcastLock
  <2> QED
    BY <2>1, <2>2 DEF CaptureInv, CapturePc
<1>2. CASE \E f \in Fd : BroadcastVisit(f)
  <2> PICK f \in Fd : BroadcastVisit(f)
    BY <1>2, Zenon
  <2>1. clients[f] \in Conn /\ cfd[clients[f]] \in Fd
    <3>1. clients[f] # None /\ clients[f] \in Conn
      BY <1>0, ConnRanges, Zenon DEF BroadcastVisit, CaptureInv
    <3>2. fdTable[f] = clients[f] /\ cfd[fdTable[f]] = f
      BY <3>1, ConnRanges, Zenon DEF IpcInv, Ownership, EntryInv, FdInv, FdOwner
    <3> QED
      BY <3>1, <3>2, Zenon
  <2>2. pc[Capture] = "collect" /\ todo' \subseteq todo /\ UNCHANGED <<pc, cfd, clients>>
    BY Zenon DEF BroadcastVisit
  <2>3. targets' = targets \/ targets' = Append(targets, clients[f])
    BY Zenon DEF BroadcastVisit
  <2>4. \A i \in DOMAIN targets' : cfd[targets'[i]] \in Fd
    <3>1. CASE targets' = targets
      BY <1>0, <3>1, Zenon DEF CaptureInv
    <3>2. CASE targets' = Append(targets, clients[f])
      <4>1. \A i \in DOMAIN targets' : \/ i \in DOMAIN targets /\ targets'[i] = targets[i]
                                       \/ targets'[i] = clients[f]
        BY <1>0, <2>1, <3>2
      <4> QED
        BY <1>0, <2>1, <4>1, Zenon DEF CaptureInv
    <3> QED
      BY <2>3, <3>1, <3>2, Zenon
  <2> QED
    BY <1>0, <2>2, <2>4, Zenon DEF CaptureInv, CapturePc
<1>3. CASE BroadcastUnlock
  BY <1>0, <1>3, Zenon DEF BroadcastUnlock, CaptureInv, CapturePc
<1> QED
  BY <1>1, <1>2, <1>3, Zenon

(* broadcast() touches no out_queue while it collects. *)
LEMMA BroadcastQuiet ==
  ASSUME IpcInv, BroadcastLock \/ (\E f \in Fd : BroadcastVisit(f)) \/ BroadcastUnlock
  PROVE  /\ UNCHANGED <<stopper, acceptor, accepted, clients, swept, fdTable, cfd, sock, outq>>
         /\ pc[Capture] # "swap"
         /\ \A c \in Conn : pc'[c] = pc[c]
         /\ \A a \in Thread : pc'[a] = "swap" <=> pc[a] = "swap"
<1>1. Capture \notin Conn /\ pc \in [Thread -> ClientPc \cup CapturePc]
  BY IpcAssumption, Zenon DEF IpcAssumption, IpcInv, TypeOK, ServerTypes, KernelTypes
<1> QED
  BY <1>1, Zenon DEF BroadcastLock, BroadcastVisit, BroadcastUnlock, kernel, delivery, histories, Thread

(* The steps that leave descriptors, sockets and clients_ alone and move a *)
(* thread at most between places where it is registered.                   *)
LEMMA ClientMoves ==
  ASSUME IpcInv, TypeOK', NEW c \in Conn,
         \/ PeerRead(c) \/ PeerLeave(c) \/ ClientFrame(c) \/ ClientLoopEnds(c)
         \/ ClientFind(c) /\ clients[cfd[c]] # None
  PROVE  Ownership'
<1>1. pc \in [Thread -> ClientPc \cup CapturePc]
  BY Zenon DEF IpcInv, TypeOK, ServerTypes, KernelTypes
<1>2. UNCHANGED <<stopper, acceptor, accepted, clients, swept, fdTable, cfd, sock>>
  BY Zenon DEF PeerRead, PeerLeave, ClientFrame, ClientRequest, Answer, ClientSubscribe, ClientUnsubscribe,
         Receive, ClientLoopEnds, ClientFind, kernel
<1>3. \A x \in Conn : pc'[x] = pc[x] \/ (pc[x] \in Registered /\ pc'[x] \in Registered)
  <2>1. CASE PeerRead(c) \/ PeerLeave(c)
    BY <2>1, Zenon DEF PeerRead, PeerLeave
  <2>2. CASE ClientFrame(c)
    BY <1>1, <2>2, Zenon DEF ClientFrame, ClientRequest, Answer, ClientSubscribe, ClientUnsubscribe, Receive,
                      Registered, Thread
  <2>3. CASE ClientLoopEnds(c) \/ (ClientFind(c) /\ clients[cfd[c]] # None)
    <3>1. /\ pc[c] \in Registered
          /\ pc' = [pc EXCEPT ![c] = "erase"] \/ pc' = [pc EXCEPT ![c] = "recv"]
      BY <2>3, Zenon DEF ClientLoopEnds, ClientFind, Registered
    <3> QED
      BY <1>1, <3>1, Zenon DEF Registered, Thread
  <2> QED
    BY <2>1, <2>2, <2>3, Zenon
<1> QED
  BY <1>2, <1>3, QuietOwnership, Zenon

(* Every step keeps the ownership of descriptors. *)
LEMMA OwnershipStep ==
  ASSUME IpcInv, TypeOK', Next
  PROVE  Ownership'
<1>1. CASE Start \/ StopBegin \/ StopStep
  BY <1>1, StartOwnership, StopBeginOwnership, StopJoinOwnership, SweepOwnership,
     ShutdownOwnership, Zenon DEF StopStep
<1>2. CASE AcceptStep
  <2>1. CASE AcceptInsert
    BY <2>1, FullOwnership, InsertOwnership, Zenon DEF AcceptInsert, InsertUpTo
  <2> QED
    BY <1>2, <2>1, AcceptOwnership, RejectOwnership, SpawnOwnership, SpawnFailsOwnership,
       AcceptEndOwnership, Zenon DEF AcceptStep
<1>3. CASE \E c \in Conn : PeerConnect(c) \/ PeerRead(c) \/ PeerLeave(c) \/ ClientFrame(c)
  BY <1>3, ConnectOwnership, ClientMoves, Zenon
<1>4. CASE \E c \in Conn : ClientStep(c)
  BY <1>4, ClientMoves, LeakOwnership, EraseOwnership, CloseOwnership, DeliverOwnership, Zenon
     DEF ClientStep, Thread
<1>5. CASE BroadcastLock \/ CaptureStep
  <2>1. CASE Deliver(Capture)
    BY <2>1, DeliverOwnership, Zenon DEF Thread
  <2>2. CASE BroadcastLock \/ (\E f \in Fd : BroadcastVisit(f)) \/ BroadcastUnlock
    BY <2>2, BroadcastQuiet, QuietOwnership, Zenon
  <2> QED
    BY <1>5, <2>1, <2>2, Zenon DEF CaptureStep
<1> QED
  BY <1>1, <1>2, <1>3, <1>4, <1>5, Zenon DEF Next

(* Every step keeps the invariant. *)
LEMMA IpcInvStep == IpcInv /\ [Next]_vars => IpcInv'
<1> SUFFICES ASSUME IpcInv, [Next]_vars PROVE IpcInv'
  BY Zenon
<1>1. CASE Next
  <2>1. TypeOK' /\ Ownership'
    BY <1>1, TypeStep, OwnershipStep, Zenon
  <2>2. CASE Elsewhere
    BY <2>1, <2>2, ElsewhereQuiet, QuietCapture, QuietQueue, Zenon DEF IpcInv
  <2>3. CASE \E a \in Thread : Deliver(a)
    BY <2>1, <2>3, DeliverCapture, DeliverQueue, Zenon DEF IpcInv
  <2>4. CASE BroadcastLock \/ (\E f \in Fd : BroadcastVisit(f)) \/ BroadcastUnlock
    BY <2>1, <2>4, BroadcastCapture, BroadcastQuiet, QuietQueue, Zenon DEF IpcInv
  <2> QED
    BY <1>1, <2>2, <2>3, <2>4, Zenon DEF Next, ClientStep, CaptureStep, Elsewhere, Thread
<1>2. CASE UNCHANGED vars
  <2>1. UNCHANGED <<kernel, delivery, histories>> /\ ServerTypes' /\ TypeOK
    BY <1>2, Zenon DEF vars, kernel, delivery, histories, IpcInv, TypeOK, ServerTypes
  <2>2. TypeOK'
    BY <2>1, QuietTypes, Zenon DEF TypeOK
  <2>3. Ownership'
    BY <1>2, <2>2, QuietOwnership, Zenon DEF vars
  <2>4. CaptureInv' /\ OutQueueShort'
    BY <1>2, <2>2, QuietCapture, QuietQueue, Zenon DEF vars
  <2> QED
    BY <2>2, <2>3, <2>4, Zenon DEF IpcInv
<1> QED
  BY <1>1, <1>2, Zenon

(* The server keeps descriptors, clients_, threads and queues together. *)
THEOREM IpcInvariant == Spec => []IpcInv
  BY IpcInvInit, IpcInvStep, PTL DEF Spec

(* Every variable of the server stays in its type. *)
THEOREM IpcTypeOK == Spec => []TypeOK
<1>1. IpcInv => TypeOK
  BY Zenon DEF IpcInv
<1> QED
  BY <1>1, IpcInvariant, PTL

(* An entry of clients_ owns the descriptor it is filed under: client_loop *)
(* erases before it closes, so a number is never registered for a client   *)
(* while another connection has it.                                        *)
THEOREM IpcEntryIsLive == Spec => []EntryIsLive
<1>1. IpcInv => EntryIsLive
  <2> SUFFICES ASSUME IpcInv, NEW f \in Fd, clients[f] # None
               PROVE  /\ fdTable[f] = clients[f] /\ cfd[clients[f]] = f
                      /\ pc[clients[f]] \notin {"close", "done", "leaked"}
    BY Zenon DEF EntryIsLive
  <2>1. fdTable[f] = clients[f] /\ cfd[clients[f]] = f
    BY Zenon DEF IpcInv, Ownership, EntryInv, FdInv, FdOwner
  <2>2. pc[clients[f]] \in Registered \cup {"none"}
    BY Zenon DEF IpcInv, Ownership, EntryInv, AcceptInv
  <2> QED
    BY <2>1, <2>2, Zenon DEF Registered
<1> QED
  BY <1>1, IpcInvariant, PTL

(* deliver() leaves at most one frame per delivering thread in out_queue.  *)
THEOREM IpcOutQueueShort == Spec => []OutQueueShort
<1>1. IpcInv => OutQueueShort
  BY Zenon DEF IpcInv
<1> QED
  BY <1>1, IpcInvariant, PTL

(* When stop() has returned, no client is left connected but those whose   *)
(* thread is about to close its descriptor.                                *)
THEOREM IpcStopDisconnectsAll == Spec => []StopDisconnectsAll
<1>1. IpcInv => StopDisconnectsAll
  BY Zenon DEF IpcInv, Ownership, StopInv
<1> QED
  BY <1>1, IpcInvariant, PTL

(* A thread about to push finds out_queue with room: the branch of         *)
(* deliver() that drops a batch is not taken.                              *)
RoomToPush ==
  \A a \in Thread : pc[a] = "push" => Len(outq[To(a)]) < kMaxOutgoingQueue

(* With room for two frames (the code has 1024) the drop branch of         *)
(* deliver() is dead: the queue bound never drops a slow consumer's events,*)
(* its frames wait in send() instead.                                      *)
THEOREM IpcNeverFull ==
  ASSUME kMaxOutgoingQueue >= 2
  PROVE  Spec => []RoomToPush
<1>1. IpcInv => RoomToPush
  <2> SUFFICES ASSUME IpcInv, NEW a \in Thread, pc[a] = "push"
               PROVE  Len(outq[To(a)]) < kMaxOutgoingQueue
    BY Zenon DEF RoomToPush
  <2>1. To(a) \in Conn
    BY DeliverTypes, Zenon
  <2>2. Len(outq[To(a)]) \in Nat
    BY <2>1 DEF IpcInv, TypeOK, ServerTypes, KernelTypes
  <2>3. pc[To(a)] # "swap" \/ pc[Capture] # "swap"
    BY Zenon DEF To
  <2>4. Len(outq[To(a)]) <= 1
    BY <2>1, <2>2, <2>3 DEF IpcInv, OutQueueShort
  <2>5. kMaxOutgoingQueue \in Nat
    BY IpcAssumption, Zenon DEF IpcAssumption
  <2> QED
    BY <2>2, <2>4, <2>5
<1> QED
  BY <1>1, IpcInvariant, PTL

-----------------------------------------------------------------------------
(* The descriptors under which a client is registered. *)
Entries == {f \in Fd : clients[f] # None}

(* Registering is the only step that adds an entry to clients_, and it     *)
(* adds one, below the limit.                                              *)
LEMMA EntriesStep ==
  ASSUME IpcInv, [Next]_vars
  PROVE  \/ Entries' \subseteq Entries
         \/ /\ ~(Cardinality(Entries) >= kMaxClients)
            /\ \E f : Entries' \subseteq Entries \cup {f}
<1>0. clients \in [Fd -> Conn \cup {None}] /\ cfd \in [Conn -> Fd \cup {None}]
  BY Zenon DEF IpcInv, TypeOK, ServerTypes, KernelTypes
<1>1. CASE AcceptInsert
  <2>1. CASE clients' = clients
    BY <2>1, Zenon DEF Entries
  <2>2. CASE /\ ~(Cardinality(Entries) >= kMaxClients)
             /\ clients' = [clients EXCEPT ![cfd[accepted]] = accepted]
    <3>1. Entries' \subseteq Entries \cup {cfd[accepted]}
      BY <1>0, <2>2, Zenon DEF Entries
    <3> QED
      BY <2>2, <3>1, Zenon
  <2> QED
    BY <1>1, <2>1, <2>2, ZenonT(60) DEF AcceptInsert, InsertUpTo, Entries
<1>2. ASSUME NEW f, clients' = [clients EXCEPT ![f] = None]
      PROVE  Entries' \subseteq Entries
  BY <1>0, <1>2, Zenon DEF Entries
<1>3. CASE AcceptSpawnFails \/ \E c \in Conn : ClientErase(c)
  BY <1>2, <1>3, ZenonT(60) DEF AcceptSpawnFails, ClientErase
<1>4. CASE StopSweep
  BY <1>4, Zenon DEF StopSweep, Entries
<1>5. ASSUME UNCHANGED clients PROVE Entries' \subseteq Entries
  BY <1>5, Zenon DEF Entries
<1>6. CASE Start \/ StopBegin \/ StopJoin \/ StopShutdown \/ AcceptSpawn \/ AcceptEnd
           \/ BroadcastLock \/ BroadcastUnlock \/ UNCHANGED vars
  <2>1. UNCHANGED clients
    BY <1>6, ZenonT(60) DEF Start, StopBegin, StopJoin, JoinWhen, StopShutdown, AcceptSpawn,
       AcceptEnd, AcceptGivesUp, BroadcastLock, BroadcastUnlock, vars
  <2> QED
    BY <1>5, <2>1, Zenon
<1>7. CASE \E c \in Conn : \/ Accept(c) \/ PeerConnect(c) \/ PeerRead(c) \/ PeerLeave(c)
                           \/ ClientFrame(c) \/ ClientFind(c) \/ ClientLoopEnds(c) \/ ClientClose(c)
  <2>1. UNCHANGED clients
    BY <1>7, ZenonT(60) DEF Accept, PeerConnect, PeerRead, PeerLeave, ClientFrame, ClientRequest,
       Answer, ClientSubscribe, ClientUnsubscribe, Receive, ClientFind, ClientLoopEnds, ClientClose
  <2> QED
    BY <1>5, <2>1, Zenon
<1>8. CASE (\E f \in Fd : BroadcastVisit(f)) \/ \E a \in Thread : Deliver(a)
  <2>1. UNCHANGED clients
    BY <1>8, ZenonT(60) DEF BroadcastVisit, Deliver, Push, Overflow, Swap, TakeQueue, SendBlocks,
       SendOk, SendFails, GiveUp, SendEnd
  <2> QED
    BY <1>5, <2>1, Zenon
<1> QED
  BY <1>1, <1>3, <1>4, <1>6, <1>7, <1>8, ZenonT(60)
     DEF Next, AcceptStep, ClientStep, CaptureStep, StopStep, Thread

(* accept_loop() keeps clients_ within kMaxClients, whatever accepts,      *)
(* exits and a concurrent stop() overlap.                                  *)
THEOREM IpcClientsBounded == Spec => []ClientsBounded
<1>1. Init => ClientsBounded
  <2> SUFFICES ASSUME Init PROVE ClientsBounded
    BY Zenon
  <2>1. {f \in Fd : clients[f] # None} = {}
    BY Zenon DEF Init
  <2> QED
    BY <2>1, FS_EmptySet, IpcAssumption DEF ClientsBounded, IpcAssumption
<1>2. ASSUME IpcInv, ClientsBounded, [Next]_vars PROVE ClientsBounded'
  <2>1. IsFiniteSet(Entries) /\ IsFiniteSet(Entries')
    BY DescriptorAssumption, FS_Subset, Zenon DEF DescriptorAssumption, Entries
  <2>2. /\ Cardinality(Entries) \in Nat /\ Cardinality(Entries') \in Nat
        /\ kMaxClients \in Nat /\ Cardinality(Entries) <= kMaxClients
    BY <1>2, <2>1, FS_CardinalityType, IpcAssumption, Zenon DEF ClientsBounded, Entries, IpcAssumption
  <2>3. CASE Entries' \subseteq Entries
    BY <2>1, <2>2, <2>3, FS_Subset DEF ClientsBounded, Entries
  <2>4. CASE /\ ~(Cardinality(Entries) >= kMaxClients)
             /\ \E f : Entries' \subseteq Entries \cup {f}
    <3> PICK f : Entries' \subseteq Entries \cup {f}
      BY <2>4, Zenon
    <3>1. /\ IsFiniteSet(Entries \cup {f})
          /\ Cardinality(Entries \cup {f}) \in {Cardinality(Entries), Cardinality(Entries) + 1}
      BY <2>1, FS_AddElement, Zenon
    <3>2. Cardinality(Entries') <= Cardinality(Entries \cup {f})
      BY <3>1, FS_Subset, Zenon
    <3>3. Cardinality(Entries') <= kMaxClients
      BY <2>2, <2>4, <3>1, <3>2
    <3> QED
      BY <3>3, Zenon DEF ClientsBounded, Entries
  <2> QED
    BY <1>2, <2>3, <2>4, EntriesStep, Zenon
<1> QED
  BY <1>1, <1>2, IpcInvariant, PTL DEF Spec
-----------------------------------------------------------------------------
(* The frames a failing send() abandons are no more than to_send holds. *)
LEMMA AbandonedFew ==
  ASSUME NEW c, NEW s \in Seq(Frame), NEW k \in Nat
  PROVE  /\ IsFiniteSet({<<c, s[i]>> : i \in (k + 1)..Len(s)})
         /\ Cardinality({<<c, s[i]>> : i \in (k + 1)..Len(s)}) <= Len(s)
<1> DEFINE abandoned == {<<c, s[i]>> : i \in (k + 1)..Len(s)}
           all == {<<c, s[i]>> : i \in 1..Len(s)}
           f == [i \in 1..Len(s) |-> <<c, s[i]>>]
<1>1. Len(s) \in Nat /\ IsFiniteSet(1..Len(s)) /\ Cardinality(1..Len(s)) = Len(s)
  <2> HIDE DEF abandoned, all, f
  <2>1. ASSUME NEW n \in Nat PROVE IsFiniteSet(1..n) /\ Cardinality(1..n) = n
    <3>1. 1 \in Int /\ n \in Int
      OBVIOUS
    <3>2. IsFiniteSet(1..n) /\ Cardinality(1..n) = IF 1 > n THEN 0 ELSE n - 1 + 1
      BY <3>1, FS_Interval, ZenonT(60)
    <3> QED
      BY <3>2
  <2>2. Len(s) \in Nat
    OBVIOUS
  <2> QED
    BY <2>1, <2>2, Zenon
<1>2. f \in Surjection(1..Len(s), all)
  BY ZenonT(60) DEF Surjection
<1>3. IsFiniteSet(all) /\ Cardinality(all) <= Len(s)
  <2> HIDE DEF all, f
  <2> QED
    BY <1>1, <1>2, FS_Surjection
<1>4. abandoned \subseteq all
  BY <1>1
<1>5. IsFiniteSet(abandoned) /\ Cardinality(abandoned) <= Cardinality(all)
  <2> HIDE DEF abandoned, all
  <2> QED
    BY <1>3, <1>4, FS_Subset, Zenon
<1>6. Cardinality(abandoned) \in Nat /\ Cardinality(all) \in Nat
  BY <1>3, <1>5, FS_CardinalityType, Zenon
<1> HIDE DEF abandoned, all
<1>7. IsFiniteSet(abandoned) /\ Cardinality(abandoned) <= Len(s)
  BY <1>1, <1>3, <1>5, <1>6
<1> QED
  BY <1>7, Zenon DEF abandoned

(* Only a full queue and a failing send lose frames. *)
LEMMA LostStep ==
  ASSUME IpcInv, [Next]_vars
  PROVE  \/ UNCHANGED <<lost, dropped>>
         \/ \E a \in Thread : Overflow(a) \/ SendFails(a)
<1> USE DEF histories
<1>1. CASE Start \/ StopBegin \/ StopStep \/ AcceptStep \/ UNCHANGED vars
  BY <1>1, ZenonT(60) DEF Start, StopBegin, StopStep, StopJoin, JoinWhen, StopSweep, StopShutdown,
     AcceptStep, Accept, AcceptInsert, InsertUpTo, AcceptSpawn, AcceptSpawnFails, AcceptEnd,
     AcceptGivesUp, vars
<1>2. CASE \E c \in Conn : \/ PeerConnect(c) \/ PeerRead(c) \/ PeerLeave(c) \/ ClientFrame(c)
                           \/ ClientFind(c) \/ ClientLoopEnds(c) \/ ClientErase(c) \/ ClientClose(c)
  BY <1>2, ZenonT(60) DEF PeerConnect, PeerRead, PeerLeave, ClientFrame, ClientRequest, Answer,
     ClientSubscribe, ClientUnsubscribe, Receive, ClientFind, ClientLoopEnds, ClientErase, ClientClose
<1>3. CASE BroadcastLock \/ (\E f \in Fd : BroadcastVisit(f)) \/ BroadcastUnlock
  BY <1>3, ZenonT(60) DEF BroadcastLock, BroadcastVisit, BroadcastUnlock
<1>4. ASSUME NEW a \in Thread, Deliver(a)
      PROVE  UNCHANGED <<lost, dropped>> \/ Overflow(a) \/ SendFails(a)
  BY <1>4, ZenonT(60) DEF Deliver, Push, Swap, TakeQueue, SendBlocks, SendOk, SendEnd
<1> QED
  BY <1>1, <1>2, <1>3, <1>4, ZenonT(60) DEF Next, ClientStep, CaptureStep, Thread

(* What is lost is finite, and counted. *)
Counted == IsFiniteSet(lost) /\ LossesCounted

(* With room for two frames in out_queue (the code has 1024),              *)
(* dropped_events_ never falls behind the frames lost to failing sends.    *)
THEOREM IpcLossesCounted ==
  ASSUME kMaxOutgoingQueue >= 2
  PROVE  Spec => []LossesCounted
<1>1. Init => Counted
  BY FS_EmptySet DEF Init, Counted, LossesCounted
<1>2. ASSUME IpcInv, RoomToPush, Counted, [Next]_vars PROVE Counted'
  <2>1. CASE UNCHANGED <<lost, dropped>>
    BY <1>2, <2>1, Zenon DEF Counted, LossesCounted
  <2>2. ASSUME NEW a \in Thread, Overflow(a) PROVE FALSE
    <3>1. To(a) \in Conn /\ Len(outq[To(a)]) \in Nat /\ kMaxOutgoingQueue \in Nat
      BY <1>2, <2>2, DeliverTypes, IpcAssumption
         DEF Overflow, IpcInv, TypeOK, DeliveryTypes, IpcAssumption
    <3>2. pc[a] = "push" /\ Len(outq[To(a)]) >= kMaxOutgoingQueue
      BY <2>2, Zenon DEF Overflow
    <3>3. Len(outq[To(a)]) < kMaxOutgoingQueue
      BY <1>2, <3>2, Zenon DEF RoomToPush
    <3> QED
      BY <3>1, <3>2, <3>3
  <2>3. ASSUME NEW a \in Thread, SendFails(a) PROVE Counted'
    <3> DEFINE more == {<<To(a), toSend[a][i]>> : i \in (sentUpTo[a] + 1)..Len(toSend[a])}
               n == Len(toSend[a])
    <3>1. lost' = lost \cup more /\ dropped' = dropped + n
      BY <2>3, ZenonT(60) DEF SendFails, GiveUp
    <3>2. toSend[a] \in Seq(Frame) /\ sentUpTo[a] \in Nat /\ n \in Nat /\ dropped \in Nat
      BY <1>2 DEF IpcInv, TypeOK, DeliveryTypes, ServerTypes
    <3>3. IsFiniteSet(more) /\ Cardinality(more) <= n
      BY <3>2, AbandonedFew, ZenonT(60)
    <3> HIDE DEF more, n
    <3>4. IsFiniteSet(lost) /\ Cardinality(lost) <= dropped
      BY <1>2, Zenon DEF Counted, LossesCounted
    <3>5. /\ IsFiniteSet(lost \cup more) /\ IsFiniteSet(lost \cap more)
          /\ Cardinality(lost \cup more)
               = Cardinality(lost) + Cardinality(more) - Cardinality(lost \cap more)
      BY <3>3, <3>4, FS_Union, FS_Subset, Zenon
    <3>6. /\ Cardinality(lost) \in Nat /\ Cardinality(more) \in Nat
          /\ Cardinality(lost \cap more) \in Nat
      BY <3>3, <3>4, <3>5, FS_CardinalityType, Zenon
    <3>7. Cardinality(lost \cup more) <= dropped + n
      BY <3>2, <3>3, <3>4, <3>5, <3>6
    <3> QED
      BY <3>1, <3>5, <3>7, Zenon DEF Counted, LossesCounted
  <2> QED
    BY <1>2, <2>1, <2>2, <2>3, LostStep, Zenon
<1>3. Counted => LossesCounted
  BY Zenon DEF Counted
<1> QED
  BY <1>1, <1>2, <1>3, IpcInvariant, IpcNeverFull, PTL DEF Spec
=============================================================================
