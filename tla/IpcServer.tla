----------------------------- MODULE IpcServer -----------------------------
(***************************************************************************)
(* The daemon's socket server (src/src/ipc/unix_socket_server.cpp).        *)
(*                                                                         *)
(* One accept thread, one detached thread per client, the capture thread   *)
(* in broadcast(), and the thread that calls stop().  They share clients_  *)
(* (under clients_mutex_), every Client's subscriptions and out_queue      *)
(* (under its out_mutex), and the process's table of file descriptors,     *)
(* which hands a closed number out again.  A critical section is one step; *)
(* the two that can wait inside (broadcast() waiting for an out_mutex with *)
(* clients_mutex_ held, and a subscribe at the limit waiting for the mutex *)
(* it holds) are states of their own.                                      *)
(*                                                                         *)
(* A connection stands for the peer, the socket and the Client object.     *)
(* The kernel is external: accept() takes the lowest free descriptor; a    *)
(* send() fails on a closed descriptor, a shut-down socket or a peer that  *)
(* has left, and blocks while the peer's buffer is full, holding the       *)
(* socket it was called on even if the descriptor is closed meanwhile.     *)
(***************************************************************************)
EXTENDS Integers, Sequences, FiniteSets, Functions

CONSTANTS
  Conn,                        \* connections peers may open, each once
  Authorized,                  \* those whose peer has the daemon's uid
  Fd,                          \* descriptors available to the server
  RequestId,                   \* request_id strings
  kMaxClients,
  kMaxSubscriptionsPerClient,
  kMaxOutgoingQueue,
  SocketBuffer,                \* frames a peer may leave unread
  MaxRequests,                 \* bound on the requests of a connection
  MaxEvents,                   \* bound on the broadcasts
  ThreadFaults,                \* whether creating a thread may fail
  Capture,                     \* the capture thread, in broadcast()
  None

ASSUME IpcAssumption ==
  /\ Authorized \subseteq Conn
  /\ Fd \subseteq Nat
  /\ kMaxClients \in Nat /\ kMaxSubscriptionsPerClient \in Nat
  /\ kMaxOutgoingQueue \in Nat \ {0}
  /\ SocketBuffer \in Nat /\ MaxRequests \in Nat /\ MaxEvents \in Nat
  /\ ThreadFaults \in BOOLEAN
  /\ Capture \notin Conn
  /\ None \notin Conn /\ None \notin Fd /\ None \notin RequestId

(* A process has finitely many descriptors. *)
ASSUME DescriptorAssumption == IsFiniteSet(Fd)

VARIABLES
  stopper,   \* "down", "up", and in stop(): "join", "sweep", "shut", "stopped"
  acceptor,  \* accept thread: "none" | "accept" | "insert" | "spawn" | "done"
  accepted,  \* connection in the accept thread's hands, or None
  clients,   \* clients_: descriptor -> connection or None
  swept,     \* stop()'s to_close
  fdTable,   \* kernel: descriptor -> connection or None
  cfd,       \* Client::fd
  sock,      \* server's socket: "none" | "queued" | "open" | "shut", then
             \* "closed" (never shut down) or "ended"
  peer,      \* "up" | "gone"
  unread,    \* kernel: frames the peer has not read yet
  waiting,   \* kernel: socket on which a thread's send() blocks, or None
  subs,      \* Client::subscriptions
  outq,      \* Client::out_queue
  pc,        \* where each client thread, and the capture thread, is
  after,     \* where a client thread goes after deliver()
  toSend,    \* deliver()'s to_send, per thread
  sentUpTo,  \* how many frames of to_send have been sent, per thread
  todo,      \* broadcast(): descriptors of clients_ not visited yet
  targets,   \* broadcast(): subscribers still to be served
  dropped,   \* dropped_events_
  asked,     \* history: requests received on each connection
  events,    \* history: number of broadcasts
  got,       \* history: frames each peer has been sent
  lost       \* history: frames taken for a client and never sent to it

kernel    == <<fdTable, cfd, sock, peer, unread, waiting>>
delivery  == <<outq, toSend, sentUpTo, targets, todo>>
histories == <<asked, events, got, lost>>
vars == <<stopper, acceptor, accepted, clients, swept, fdTable, cfd, sock, peer,
          unread, waiting, subs, outq, pc, after, toSend, sentUpTo, todo, targets,
          dropped, asked, events, got, lost>>

Thread == Conn \cup {Capture}
Frame  == ({"reply"} \X Conn \X Nat) \cup ({"event"} \X {None} \X Nat)
ClientPc  == {"none", "find", "recv", "push", "swap", "send", "stuck",
              "erase", "close", "done", "leaked"}
CapturePc == {"idle", "collect", "push", "swap", "send"}

ServerTypes ==
  /\ stopper \in {"down", "up", "join", "sweep", "shut", "stopped"}
  /\ acceptor \in {"none", "accept", "insert", "spawn", "done"}
  /\ accepted \in Conn \cup {None}
  /\ clients \in [Fd -> Conn \cup {None}]
  /\ swept \in SUBSET Fd
  /\ subs \in [Conn -> SUBSET RequestId]
  /\ pc \in [Thread -> ClientPc \cup CapturePc]
  /\ after \in [Conn -> {"recv", "erase"}]
  /\ dropped \in Nat
KernelTypes ==
  /\ fdTable \in [Fd -> Conn \cup {None}]
  /\ cfd \in [Conn -> Fd \cup {None}]
  /\ sock \in [Conn -> {"none", "queued", "open", "shut", "closed", "ended"}]
  /\ peer \in [Conn -> {"up", "gone"}]
  /\ unread \in [Conn -> Nat]
  /\ waiting \in [Thread -> Conn \cup {None}]
DeliveryTypes ==
  /\ outq \in [Conn -> Seq(Frame)]
  /\ toSend \in [Thread -> Seq(Frame)]
  /\ sentUpTo \in [Thread -> Nat]
  /\ todo \in SUBSET Fd
  /\ targets \in Seq(Conn)
HistoryTypes ==
  /\ asked \in [Conn -> Nat]
  /\ events \in Nat
  /\ got \in [Conn -> SUBSET Frame]
  /\ lost \in SUBSET (Conn \X Frame)

TypeOK == ServerTypes /\ KernelTypes /\ DeliveryTypes /\ HistoryTypes

running == stopper = "up"

(* clients_mutex_ is free unless broadcast() waits with it; a client's     *)
(* out_mutex is free unless its thread waits for itself.                   *)
ClientsMutexFree == pc[Capture] # "collect"
OutMutexFree(c)  == pc[c] # "stuck"
(* The frame a thread hands to deliver(), and the client it is for. *)
Encoded(a) == IF a = Capture THEN <<"event", None, events>> ELSE <<"reply", a, asked[a]>>
To(a)      == IF a = Capture THEN Head(targets) ELSE a

Init ==
  /\ stopper = "down" /\ acceptor = "none" /\ accepted = None
  /\ clients = [f \in Fd |-> None] /\ swept = {}
  /\ fdTable = [f \in Fd |-> None]
  /\ cfd = [c \in Conn |-> None]
  /\ sock = [c \in Conn |-> "none"]
  /\ peer = [c \in Conn |-> "up"]
  /\ unread = [c \in Conn |-> 0]
  /\ waiting = [a \in Thread |-> None]
  /\ subs = [c \in Conn |-> {}]
  /\ outq = [c \in Conn |-> <<>>]
  /\ pc = [a \in Thread |-> IF a = Capture THEN "idle" ELSE "none"]
  /\ after = [c \in Conn |-> "recv"]
  /\ toSend = [a \in Thread |-> <<>>]
  /\ sentUpTo = [a \in Thread |-> 0]
  /\ todo = {} /\ targets = <<>>
  /\ dropped = 0
  /\ asked = [c \in Conn |-> 0]
  /\ events = 0
  /\ got = [c \in Conn |-> {}]
  /\ lost = {}
-----------------------------------------------------------------------------
(* start(): when it fails everything it opened is closed again. *)
Start ==
  /\ stopper = "down"
  /\ stopper' = "up" /\ acceptor' = "accept"
  /\ UNCHANGED <<accepted, clients, swept, kernel, subs, delivery, pc, after,
                 dropped, histories>>

(* A peer connects, reads a frame, or leaves. *)
PeerConnect(c) ==
  /\ running /\ sock[c] = "none"
  /\ sock' = [sock EXCEPT ![c] = "queued"]
  /\ UNCHANGED <<stopper, acceptor, accepted, clients, swept, fdTable, cfd, peer,
                 unread, waiting, subs, delivery, pc, after, dropped, histories>>

PeerRead(c) ==
  /\ peer[c] = "up" /\ unread[c] > 0
  /\ unread' = [unread EXCEPT ![c] = @ - 1]
  /\ UNCHANGED <<stopper, acceptor, accepted, clients, swept, fdTable, cfd, sock,
                 peer, waiting, subs, delivery, pc, after, dropped, histories>>

PeerLeave(c) ==
  /\ sock[c] # "none" /\ peer[c] = "up"
  /\ peer' = [peer EXCEPT ![c] = "gone"]
  /\ unread' = [unread EXCEPT ![c] = 0]
  /\ UNCHANGED <<stopper, acceptor, accepted, clients, swept, fdTable, cfd, sock,
                 waiting, subs, delivery, pc, after, dropped, histories>>
-----------------------------------------------------------------------------
(* accept_loop: a peer of another uid is closed at once. *)
LowestFree(f) == fdTable[f] = None /\ \A g \in Fd : fdTable[g] = None => f <= g

Accept(c) ==
  /\ acceptor = "accept" /\ running /\ sock[c] = "queued"
  /\ \E f \in Fd : LowestFree(f)
  /\ IF c \in Authorized
     THEN \E f \in Fd :
            /\ LowestFree(f)
            /\ fdTable' = [fdTable EXCEPT ![f] = c]
            /\ cfd' = [cfd EXCEPT ![c] = f]
            /\ sock' = [sock EXCEPT ![c] = "open"]
            /\ acceptor' = "insert" /\ accepted' = c
     ELSE /\ sock' = [sock EXCEPT ![c] = "closed"]
          /\ UNCHANGED <<fdTable, cfd, acceptor, accepted>>
  /\ UNCHANGED <<stopper, clients, swept, peer, unread, waiting, subs, delivery, pc,
                 after, dropped, histories>>

CloseFd(c) ==
  /\ fdTable' = [fdTable EXCEPT ![cfd[c]] = None]
  /\ sock' = [sock EXCEPT ![c] = IF @ = "shut" THEN "ended" ELSE "closed"]
  /\ UNCHANGED <<cfd, peer, unread, waiting>>

(* Under clients_mutex_: register the client, or close it at the limit. *)
InsertUpTo(limit) ==
  /\ acceptor = "insert" /\ ClientsMutexFree
  /\ IF Cardinality({f \in Fd : clients[f] # None}) >= limit
     THEN /\ CloseFd(accepted)
          /\ acceptor' = "accept" /\ accepted' = None
          /\ UNCHANGED clients
     ELSE /\ clients' = [clients EXCEPT ![cfd[accepted]] = accepted]
          /\ acceptor' = "spawn"
          /\ UNCHANGED <<kernel, accepted>>
  /\ UNCHANGED <<stopper, swept, subs, delivery, pc, after, dropped, histories>>

(* Mutant: the limit is tested with > instead of >=. *)
AcceptInsertOffByOne == InsertUpTo(kMaxClients + 1)

AcceptInsert == InsertUpTo(kMaxClients)

AcceptSpawn ==
  /\ acceptor = "spawn"
  /\ pc' = [pc EXCEPT ![accepted] = "find"]
  /\ acceptor' = "accept" /\ accepted' = None
  /\ UNCHANGED <<stopper, clients, swept, kernel, subs, delivery, after, dropped,
                 histories>>

AcceptSpawnFails ==
  /\ ThreadFaults /\ acceptor = "spawn" /\ ClientsMutexFree
  /\ clients' = [clients EXCEPT ![cfd[accepted]] = None]
  /\ CloseFd(accepted)
  /\ acceptor' = "accept" /\ accepted' = None
  /\ UNCHANGED <<stopper, swept, subs, delivery, pc, after, dropped, histories>>

(* The accept thread fails to accept and sees ~running_. *)
AcceptGivesUp(next) ==
  /\ acceptor = "accept" /\ ~running
  /\ acceptor' = next
  /\ UNCHANGED <<stopper, accepted, clients, swept, kernel, subs, delivery, pc,
                 after, dropped, histories>>

(* Mutant: a failing accept is retried without looking at running_. *)
AcceptEndRetries == AcceptGivesUp("accept")

AcceptEnd == AcceptGivesUp("done")
-----------------------------------------------------------------------------
(* client_loop: the thread looks its Client up and returns, leaving the    *)
(* descriptor open, when stop() has taken the client away.                 *)
ClientFind(c) ==
  /\ pc[c] = "find" /\ ClientsMutexFree
  /\ pc' = [pc EXCEPT ![c] = IF clients[cfd[c]] = None THEN "leaked" ELSE "recv"]
  /\ UNCHANGED <<stopper, acceptor, accepted, clients, swept, kernel, subs, delivery,
                 after, dropped, histories>>

(* recv() returns a frame, and handle_frame() prepares its answer.  The    *)
(* daemon's handler accepts every subscribe and unsubscribe, and both use  *)
(* the request's own id; the subscription_id in the params is not read.    *)
Receive(c) ==
  /\ pc[c] = "recv" /\ sock[c] = "open" /\ peer[c] = "up"
  /\ asked[c] < MaxRequests
  /\ asked' = [asked EXCEPT ![c] = @ + 1]
  /\ UNCHANGED <<stopper, acceptor, accepted, clients, swept, kernel, delivery,
                 dropped, events, got, lost>>

(* An ordinary request, a malformed one and a shutdown are answered (the   *)
(* latter two with an error) and the loop goes on; after a frame that is   *)
(* too large it ends.                                                      *)
Answer(c, step, next) ==
  /\ Receive(c)
  /\ pc' = [pc EXCEPT ![c] = step]
  /\ after' = [after EXCEPT ![c] = next]
  /\ UNCHANGED subs

(* Mutant: the error of a frame is not delivered. *)
ClientRequestSilent(c, next) == Answer(c, next, next)

ClientRequest(c, next) == Answer(c, "push", next)

(* The limit check calls deliver() with out_mutex held: std::mutex is not  *)
(* recursive, the thread waits for itself.                                 *)
ClientSubscribe(c, id) ==
  /\ Receive(c)
  /\ IF Cardinality(subs[c]) >= kMaxSubscriptionsPerClient
     THEN /\ pc' = [pc EXCEPT ![c] = "stuck"]
          /\ UNCHANGED subs
     ELSE /\ pc' = [pc EXCEPT ![c] = "push"]
          /\ subs' = [subs EXCEPT ![c] = @ \cup {id}]
  /\ after' = [after EXCEPT ![c] = "recv"]

ClientUnsubscribe(c, id) ==
  /\ Receive(c)
  /\ pc' = [pc EXCEPT ![c] = "push"]
  /\ subs' = [subs EXCEPT ![c] = @ \ {id}]
  /\ after' = [after EXCEPT ![c] = "recv"]

(* recv() reports the end of the stream, or the loop sees ~running_. *)
ClientLoopEnds(c) ==
  /\ pc[c] = "recv"
  /\ ~running \/ sock[c] = "shut" \/ peer[c] = "gone"
  /\ pc' = [pc EXCEPT ![c] = "erase"]
  /\ UNCHANGED <<stopper, acceptor, accepted, clients, swept, kernel, subs, delivery,
                 after, dropped, histories>>

(* The client leaves clients_ first; only then is its descriptor free. *)
ClientErase(c) ==
  /\ pc[c] = "erase" /\ ClientsMutexFree
  /\ clients' = [clients EXCEPT ![cfd[c]] = None]
  /\ pc' = [pc EXCEPT ![c] = "close"]
  /\ UNCHANGED <<stopper, acceptor, accepted, swept, kernel, subs, delivery, after,
                 dropped, histories>>

(* Mutant: the descriptor is closed without waiting for the erase. *)
ClientCloseFirst(c) ==
  /\ pc[c] \in {"erase", "close"} /\ fdTable[cfd[c]] = c
  /\ CloseFd(c)
  /\ pc' = [pc EXCEPT ![c] = IF @ = "erase" THEN "erase" ELSE "done"]
  /\ UNCHANGED <<stopper, acceptor, accepted, clients, swept, subs, delivery, after,
                 dropped, histories>>

ClientClose(c) ==
  /\ pc[c] = "close"
  /\ CloseFd(c)
  /\ pc' = [pc EXCEPT ![c] = "done"]
  /\ UNCHANGED <<stopper, acceptor, accepted, clients, swept, subs, delivery, after,
                 dropped, histories>>
-----------------------------------------------------------------------------
(* deliver(), run by a client thread for itself and by broadcast().        *)
(* Where the thread goes afterwards:                                       *)
LeaveDeliver(a) ==
  /\ pc' = [pc EXCEPT ![a] = IF a # Capture THEN after[a]
                             ELSE IF Len(targets) > 1 THEN "push" ELSE "idle"]
  /\ targets' = IF a = Capture THEN Tail(targets) ELSE targets

(* The first critical section queues the frame ... *)
Push(a) ==
  /\ pc[a] = "push" /\ OutMutexFree(To(a))
  /\ Len(outq[To(a)]) < kMaxOutgoingQueue
  /\ outq' = [outq EXCEPT ![To(a)] = Append(@, Encoded(a))]
  /\ pc' = [pc EXCEPT ![a] = "swap"]
  /\ UNCHANGED <<stopper, acceptor, accepted, clients, swept, kernel, subs, after,
                 toSend, sentUpTo, todo, targets, dropped, histories>>

(* ... or throws the queue away, together with the frame. *)
Overflow(a) ==
  /\ pc[a] = "push" /\ OutMutexFree(To(a))
  /\ Len(outq[To(a)]) >= kMaxOutgoingQueue
  /\ outq' = [outq EXCEPT ![To(a)] = <<>>]
  /\ dropped' = dropped + 1
  /\ lost' = lost \cup ({To(a)} \X (Range(outq[To(a)]) \cup {Encoded(a)}))
  /\ LeaveDeliver(a)
  /\ UNCHANGED <<stopper, acceptor, accepted, clients, swept, kernel, subs, after,
                 toSend, sentUpTo, todo, asked, events, got>>

(* The second takes whatever is queued by then. *)
TakeQueue(a, rest) ==
  /\ pc[a] = "swap" /\ OutMutexFree(To(a))
  /\ toSend' = [toSend EXCEPT ![a] = outq[To(a)]]
  /\ outq' = [outq EXCEPT ![To(a)] = rest]
  /\ sentUpTo' = [sentUpTo EXCEPT ![a] = 0]
  /\ pc' = [pc EXCEPT ![a] = "send"]
  /\ UNCHANGED <<stopper, acceptor, accepted, clients, swept, kernel, subs, after,
                 todo, targets, dropped, histories>>

(* Mutant: the queue is copied instead of swapped. *)
SwapCopies(a) == TakeQueue(a, outq[To(a)])

Swap(a) == TakeQueue(a, <<>>)

(* send() acts on the socket behind the client's descriptor number at the  *)
(* moment of the call, and keeps to that socket while it blocks.           *)
SocketOf(a) == IF waiting[a] # None THEN waiting[a] ELSE fdTable[cfd[To(a)]]
Writable(r) == r # None /\ sock[r] \in {"open", "closed"} /\ peer[r] = "up"
Sending(a)  == pc[a] = "send" /\ sentUpTo[a] < Len(toSend[a])

SendBlocks(a) ==
  /\ Sending(a) /\ waiting[a] = None
  /\ Writable(SocketOf(a)) /\ unread[SocketOf(a)] >= SocketBuffer
  /\ waiting' = [waiting EXCEPT ![a] = SocketOf(a)]
  /\ UNCHANGED <<stopper, acceptor, accepted, clients, swept, fdTable, cfd, sock, peer,
                 unread, subs, delivery, pc, after, dropped, histories>>

SendOk(a) ==
  /\ Sending(a)
  /\ LET r == SocketOf(a) IN
     /\ Writable(r) /\ unread[r] < SocketBuffer
     /\ got' = [got EXCEPT ![r] = @ \cup {toSend[a][sentUpTo[a] + 1]}]
     /\ unread' = [unread EXCEPT ![r] = @ + 1]
  /\ waiting' = [waiting EXCEPT ![a] = None]
  /\ sentUpTo' = [sentUpTo EXCEPT ![a] = @ + 1]
  /\ UNCHANGED <<stopper, acceptor, accepted, clients, swept, fdTable, cfd, sock, peer,
                 subs, outq, pc, after, toSend, todo, targets, dropped, asked, events,
                 lost>>

(* A failing send abandons the rest of to_send, and counts all of it. *)
GiveUp(a, count) ==
  /\ Sending(a) /\ ~Writable(SocketOf(a))
  /\ dropped' = dropped + count
  /\ lost' = lost \cup {<<To(a), toSend[a][i]>> : i \in (sentUpTo[a] + 1)..Len(toSend[a])}
  /\ toSend' = [toSend EXCEPT ![a] = <<>>]
  /\ sentUpTo' = [sentUpTo EXCEPT ![a] = 0]
  /\ waiting' = [waiting EXCEPT ![a] = None]
  /\ LeaveDeliver(a)
  /\ UNCHANGED <<stopper, acceptor, accepted, clients, swept, fdTable, cfd, sock, peer,
                 unread, subs, outq, after, todo, asked, events, got>>

(* Mutant: only the frame that failed is counted. *)
SendFailsCountsOne(a) == GiveUp(a, 1)

SendFails(a) == GiveUp(a, Len(toSend[a]))

SendEnd(a) ==
  /\ pc[a] = "send" /\ sentUpTo[a] = Len(toSend[a])
  /\ toSend' = [toSend EXCEPT ![a] = <<>>]
  /\ sentUpTo' = [sentUpTo EXCEPT ![a] = 0]
  /\ LeaveDeliver(a)
  /\ UNCHANGED <<stopper, acceptor, accepted, clients, swept, kernel, subs, outq, after,
                 todo, dropped, histories>>

Deliver(a) == Push(a) \/ Overflow(a) \/ Swap(a) \/ SendBlocks(a) \/ SendOk(a)
              \/ SendFails(a) \/ SendEnd(a)
-----------------------------------------------------------------------------
(* broadcast(): under clients_mutex_, visit the clients in descriptor      *)
(* order, taking each out_mutex to see whether it has a subscription.      *)
BroadcastLock ==
  /\ pc[Capture] = "idle" /\ stopper # "down" /\ events < MaxEvents
  /\ pc' = [pc EXCEPT ![Capture] = "collect"]
  /\ todo' = {f \in Fd : clients[f] # None}
  /\ targets' = <<>>
  /\ events' = events + 1
  /\ UNCHANGED <<stopper, acceptor, accepted, clients, swept, kernel, subs, outq, after,
                 toSend, sentUpTo, dropped, asked, got, lost>>

BroadcastVisit(f) ==
  /\ pc[Capture] = "collect" /\ f \in todo /\ \A g \in todo : f <= g
  /\ OutMutexFree(clients[f])
  /\ todo' = todo \ {f}
  /\ targets' = IF subs[clients[f]] # {} THEN Append(targets, clients[f]) ELSE targets
  /\ UNCHANGED <<stopper, acceptor, accepted, clients, swept, kernel, subs, outq, pc, after,
                 toSend, sentUpTo, dropped, histories>>

BroadcastUnlock ==
  /\ pc[Capture] = "collect" /\ todo = {}
  /\ pc' = [pc EXCEPT ![Capture] = IF targets = <<>> THEN "idle" ELSE "push"]
  /\ UNCHANGED <<stopper, acceptor, accepted, clients, swept, kernel, subs, delivery, after,
                 dropped, histories>>
-----------------------------------------------------------------------------
(* stop(): running_ falls and the listening socket is closed, ... *)
StopBegin ==
  /\ running
  /\ stopper' = "join"
  /\ UNCHANGED <<acceptor, accepted, clients, swept, kernel, subs, delivery, pc, after,
                 dropped, histories>>

(* ... the accept thread is joined, ... *)
JoinWhen(condition) ==
  /\ stopper = "join" /\ condition
  /\ stopper' = "sweep"
  /\ UNCHANGED <<acceptor, accepted, clients, swept, kernel, subs, delivery, pc, after,
                 dropped, histories>>

(* Mutant: the accept thread is not waited for. *)
StopNoJoin == JoinWhen(TRUE)

StopJoin == JoinWhen(acceptor = "done")

(* ... clients_ is emptied, ... *)
StopSweep ==
  /\ stopper = "sweep" /\ ClientsMutexFree
  /\ swept' = {f \in Fd : clients[f] # None}
  /\ clients' = [f \in Fd |-> None]
  /\ stopper' = "shut"
  /\ UNCHANGED <<acceptor, accepted, kernel, subs, delivery, pc, after, dropped, histories>>

(* ... and the sockets are shut down. *)
StopShutdown ==
  /\ stopper = "shut"
  /\ sock' = [c \in Conn |-> IF sock[c] = "open" /\ \E f \in swept : fdTable[f] = c
                             THEN "shut" ELSE sock[c]]
  /\ stopper' = "stopped"
  /\ UNCHANGED <<acceptor, accepted, clients, swept, fdTable, cfd, peer, unread,
                 waiting, subs, delivery, pc, after, dropped, histories>>

AcceptStep == (\E c \in Conn : Accept(c)) \/ AcceptInsert \/ AcceptSpawn
              \/ AcceptSpawnFails \/ AcceptEnd

ClientStep(c) == ClientFind(c) \/ ClientLoopEnds(c) \/ ClientErase(c) \/ ClientClose(c)
                 \/ Deliver(c)

ClientFrame(c) ==
  \/ \E next \in {"recv", "erase"} : ClientRequest(c, next)
  \/ \E id \in RequestId : ClientSubscribe(c, id)
  \/ \E id \in RequestId : ClientUnsubscribe(c, id)

CaptureStep == (\E f \in Fd : BroadcastVisit(f)) \/ BroadcastUnlock \/ Deliver(Capture)

StopStep == StopJoin \/ StopSweep \/ StopShutdown

Next ==
  \/ Start
  \/ \E c \in Conn : \/ PeerConnect(c) \/ PeerRead(c) \/ PeerLeave(c)
                     \/ ClientFrame(c) \/ ClientStep(c)
  \/ AcceptStep
  \/ BroadcastLock \/ CaptureStep
  \/ StopBegin \/ StopStep

Spec == Init /\ [][Next]_vars

(* The operating system runs every thread of the daemon; peers owe nothing. *)
Fairness ==
  /\ WF_vars(AcceptStep)
  /\ \A c \in Conn : WF_vars(ClientStep(c))
  /\ WF_vars(CaptureStep)
  /\ WF_vars(StopStep)

FairSpec == Spec /\ Fairness
-----------------------------------------------------------------------------
(* A client in clients_ owns its descriptor: since the thread erases the   *)
(* entry before it closes the number, no accept can register a second      *)
(* client under the number of a first, and no erase removes another's.     *)
EntryIsLive ==
  \A f \in Fd : clients[f] # None =>
    /\ fdTable[f] = clients[f] /\ cfd[clients[f]] = f
    /\ pc[clients[f]] \notin {"close", "done", "leaked"}

(* "kMaxClients" clients at most, whatever accepts and exits overlap. *)
ClientsBounded == Cardinality({f \in Fd : clients[f] # None}) <= kMaxClients

(* deliver() never leaves more than one frame per delivering thread in     *)
(* out_queue: since every push is followed by the same thread's swap, the  *)
(* queue holds at most the client thread's frame and broadcast()'s.        *)
OutQueueShort ==
  \A c \in Conn : Len(outq[c]) <= (IF pc[c] = "swap" THEN 1 ELSE 0)
                                 + (IF pc[Capture] = "swap" /\ To(Capture) = c THEN 1 ELSE 0)

(* Drop accounting: dropped_events_ never falls behind the frames that     *)
(* were taken for a client and not sent.                                   *)
LossesCounted == Cardinality(lost) <= dropped

(* When stop() returns, every connection the server ever accepted is shut  *)
(* down, closed, or about to be closed by its thread.                      *)
StopDisconnectsAll ==
  stopper = "stopped" => \A c \in Conn : sock[c] = "open" => pc[c] = "close"

(* As long as the peers read what they are sent, a request is answered,    *)
(* unless its connection ends or the answer is dropped and counted:        *)
(* "invalid frames are answered with an error frame, never a crash"        *)
(* (docs/architecture.md:83-84).                                           *)
RequestAnswered ==
  (\A c \in Conn : WF_vars(PeerRead(c))) =>
    \A c \in Conn : \A k \in 1..MaxRequests :
      asked[c] = k ~> \/ <<"reply", c, k>> \in got[c]
                      \/ <<c, <<"reply", c, k>>>> \in lost
                      \/ sock[c] # "open" \/ peer[c] = "gone"

(* stop() returns, also while peers do not read and broadcast() is blocked. *)
StopTerminates == stopper = "join" ~> stopper = "stopped"
=============================================================================
