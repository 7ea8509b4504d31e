---------------------------- MODULE DaemonProofs ----------------------------
(***************************************************************************)
(* Safety of the daemon core, for every set of configurations, number of   *)
(* pcap interfaces and bound on the events.                                *)
(*                                                                         *)
(* That the capture thread never meets a released store depends on where   *)
(* the main thread can be when it has no thread to fear: Teardown says     *)
(* that without a backend there is no capture thread, and that the store   *)
(* is opened and released only then.                                       *)
(***************************************************************************)
EXTENDS Daemon, TLAPS

(* SMT proves a leaf that names no prover. *)
USE SMTT(60)

(* The capture thread lives only under a backend, and there is no backend  *)
(* before start() has one nor once stop() has come to the store.  The      *)
(* thread is joined unless it took running_ down itself and ended.         *)
Teardown ==
  process = "up" =>
    /\ backend = "null" => loop = "none"
    /\ main \in {"store", "ebpf", "pcap", "resetStore", "exited"} => backend = "null"
    /\ main = "joinBackend" => backend = "stopping"
    /\ backend = "stopping" => main \in {"joinBackend", "resetBackend"}
    /\ backend = "failed" => loop = "done"
    /\ main = "resetBackend" => loop \in {"none", "done"}

(* The inductive invariant. *)
DaemonInv == TypeOK /\ EventsAccounted /\ Teardown /\ StoreOutlivesCapture
             /\ BackendOutlivesThread

(* The state before start() satisfies the invariant. *)
LEMMA DaemonInit == Init => DaemonInv
BY DaemonAssumption
   DEF Init, DaemonInv, TypeOK, EventsAccounted, Teardown, StoreOutlivesCapture,
            BackendOutlivesThread,
       MainPc, StartPc, StopPc, DaemonAssumption

(* The steps of start() keep the invariant. *)
LEMMA StartSteps ==
  ASSUME DaemonInv, process = "up",
         OpenStore \/ TryEbpf \/ TryPcap \/ MakeServer \/ Listen \/ Proceed
  PROVE  DaemonInv'
<1> USE DEF DaemonInv, TypeOK, EventsAccounted, Teardown, StoreOutlivesCapture,
            BackendOutlivesThread,
            MainPc, StartPc, StopPc, pipeline
<1>a. Candidates \in Nat
  BY DaemonAssumption DEF DaemonAssumption
<1>1. CASE OpenStore
  BY <1>1 DEF OpenStore
<1>2. CASE TryEbpf
  BY <1>2 DEF TryEbpf, BackendStarts
<1>3. CASE TryPcap
  BY <1>a, <1>3 DEF TryPcap, BackendStarts
<1>4. CASE MakeServer
  BY <1>4 DEF MakeServer
<1>5. CASE Listen
  BY <1>5 DEF Listen
<1>6. CASE Proceed
  BY <1>6 DEF Proceed
<1> QED
  BY <1>1, <1>2, <1>3, <1>4, <1>5, <1>6

(* The steps of run() and stop() keep the invariant. *)
LEMMA StopSteps ==
  ASSUME DaemonInv, process = "up",
         \/ RunCheck \/ RunTurn \/ StopBegin \/ StopServer \/ ResetServer
         \/ StopBackend \/ JoinBackend \/ ResetBackend \/ ResetStore
  PROVE  DaemonInv'
<1> USE DEF DaemonInv, TypeOK, EventsAccounted, Teardown, StoreOutlivesCapture,
            BackendOutlivesThread,
            MainPc, StartPc, StopPc, pipeline
<1>1. CASE RunCheck
  BY <1>1 DEF RunCheck
<1>2. CASE RunTurn
  BY <1>2 DEF RunTurn
<1>3. CASE StopBegin
  BY <1>3 DEF StopBegin, StopFrom
<1>4. CASE StopServer
  BY <1>4 DEF StopServer
<1>5. CASE ResetServer
  BY <1>5 DEF ResetServer, ResetServerThen
<1>6. CASE StopBackend
  BY <1>6 DEF StopBackend, StopBackendThen
<1>7. CASE JoinBackend
  BY <1>7 DEF JoinBackend
<1>8. CASE ResetBackend
  BY <1>8 DEF ResetBackend
<1>9. CASE ResetStore
  BY <1>9 DEF ResetStore
<1> QED
  BY <1>1, <1>2, <1>3, <1>4, <1>5, <1>6, <1>7, <1>8, <1>9

(* The steps of the capture thread keep the invariant. *)
LEMMA CaptureSteps ==
  ASSUME DaemonInv, process = "up", CaptureEvent \/ CaptureStep \/ LoopFails
  PROVE  DaemonInv'
<1> USE DEF DaemonInv, TypeOK, EventsAccounted, Teardown, StoreOutlivesCapture,
            BackendOutlivesThread,
            MainPc, StartPc, StopPc
<1>1. CASE CaptureEvent
  BY <1>1 DEF CaptureEvent, Filter
<1>2. CASE CheckServer
  BY <1>2 DEF CheckServer
<1>3. CASE BroadcastReturns
  BY <1>3 DEF BroadcastReturns
<1>4. CASE CheckStore
  BY <1>4 DEF CheckStore
<1>5. CASE StoreEvent
  BY <1>5 DEF StoreEvent
<1>6. CASE LoopEnds
  BY <1>6 DEF LoopEnds
<1>7. CASE LoopFails
  BY <1>7 DEF LoopFails
<1> QED
  BY <1>1, <1>2, <1>3, <1>4, <1>5, <1>6, <1>7 DEF CaptureStep

(* Signals, client threads and a fatal use of a destroyed server keep it.  *)
LEMMA OtherSteps ==
  ASSUME DaemonInv, process = "up",
         \/ RequestStop \/ UseAfterDestroy
         \/ ClientConnects \/ ClientAsks \/ ClientAnswered \/ ClientLeaves
  PROVE  DaemonInv'
<1> USE DEF DaemonInv, TypeOK, EventsAccounted, Teardown, StoreOutlivesCapture,
            BackendOutlivesThread,
            MainPc, StartPc, StopPc, pipeline
<1>1. CASE RequestStop
  BY <1>1 DEF RequestStop
<1>2. CASE UseAfterDestroy
  BY <1>2 DEF UseAfterDestroy
<1>3. CASE ClientConnects \/ ClientAsks \/ ClientAnswered \/ ClientLeaves
  <2>1. client' \in {"recv", "handler", "done"}
    BY <1>3, ZenonT(60) DEF ClientConnects, ClientAsks, ClientAnswered, ClientLeaves, ClientMoves
  <2>2. UNCHANGED <<config, main, tries, running, requested, server, backend, store, process,
                    dropped>> /\ UNCHANGED pipeline
    BY <1>3, ZenonT(60) DEF ClientConnects, ClientAsks, ClientAnswered, ClientLeaves, ClientMoves
  <2> QED
    BY <2>1, <2>2
<1> QED
  BY <1>1, <1>2, <1>3

(* The inductive invariant holds in every reachable state of the daemon.   *)
THEOREM DaemonInvariant == Spec => []DaemonInv
<1>1. DaemonInv /\ [Next]_vars => DaemonInv'
  <2> SUFFICES ASSUME DaemonInv, [Next]_vars PROVE DaemonInv'
    OBVIOUS
  <2>1. CASE Next
    BY <2>1, StartSteps, StopSteps, CaptureSteps, OtherSteps DEF Next, MainStep
  <2>2. CASE UNCHANGED vars
    BY <2>2 DEF vars, DaemonInv, TypeOK, EventsAccounted, Teardown, StoreOutlivesCapture,
                  BackendOutlivesThread
  <2> QED
    BY <2>1, <2>2
<1> QED
  BY <1>1, DaemonInit, PTL DEF Spec

(* The daemon's state keeps its type.                                      *)
THEOREM DaemonTypeOK == Spec => []TypeOK
<1>1. DaemonInv => TypeOK
  BY DEF DaemonInv
<1> QED
  BY <1>1, DaemonInvariant, PTL

(* on_capture_event() never calls store() on a store that stop() released. *)
THEOREM DaemonStoreOutlivesCapture == Spec => []StoreOutlivesCapture
<1>1. DaemonInv => StoreOutlivesCapture
  BY DEF DaemonInv
<1> QED
  BY <1>1, DaemonInvariant, PTL

(* The capture thread never runs after stop() destroyed its backend.       *)
THEOREM DaemonBackendOutlivesThread == Spec => []BackendOutlivesThread
<1>1. DaemonInv => BackendOutlivesThread
  BY DEF DaemonInv
<1> QED
  BY <1>1, DaemonInvariant, PTL

(* Every captured event is filtered, published or in the pipeline.         *)
THEOREM DaemonEventsAccounted == Spec => []EventsAccounted
<1>1. DaemonInv => EventsAccounted
  BY DEF DaemonInv
<1> QED
  BY <1>1, DaemonInvariant, PTL
=============================================================================
