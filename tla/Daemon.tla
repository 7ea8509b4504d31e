------------------------------- MODULE Daemon -------------------------------
(***************************************************************************)
(* The daemon core (src/src/daemon/daemon.cpp, main.cpp) and the life of   *)
(* its capture backend (pcap_capture.cpp, ebpf_manager.cpp).               *)
(*                                                                         *)
(* The main thread runs start(), run() and stop(); the backend's thread    *)
(* runs on_capture_event(); a client thread of the socket server runs      *)
(* handle_request().  They share the pointers server_, backend_ and        *)
(* store_, which the main thread sets and resets without a lock, and the   *)
(* atomic counters.                                                        *)
(*                                                                         *)
(* The socket server and the store appear as what IpcServer and            *)
(* SqliteStore show of them: broadcast() may block on a slow subscriber    *)
(* until the server is stopped, and store() accepts or refuses.  Using a   *)
(* destroyed object is undefined: the process dies, or it goes on as if    *)
(* the object were still there.                                            *)
(***************************************************************************)
EXTENDS Naturals

CONSTANTS
  Configs,     \* configurations: storage, ebpf and fallback on or off
  Candidates,  \* interfaces start() tries for pcap ("any" is always one)
  MaxEvents    \* bound on the captured events

ASSUME DaemonAssumption ==
  /\ Configs \subseteq [storage : {"on", "off"}, ebpf : {"on", "off"}, fallback : {"on", "off"}]
  /\ Candidates \in Nat \ {0}
  /\ MaxEvents \in Nat

VARIABLES
  config,     \* config_
  main,       \* where the main thread is
  tries,      \* pcap interfaces tried so far
  running,    \* running_
  requested,  \* stop_requested_
  server,     \* server_: "null" | "made" | "up" | "stopped"
  backend,    \* backend_: "null" | "up", or with running_ false: "stopping"
              \* (by its stop()) | "failed" (by its own thread)
  store,      \* store_: "null", "open", or "dead" (a store without Impl)
  loop,       \* backend thread: "none" | "poll" | "kept" | "broadcast" |
              \* "offer" | "storing" | "done"
  send,       \* how the broadcast in progress fares: "ok" | "fails" | "blocks"
  client,     \* a client thread: "none" | "recv" | "handler" | "done"
  process,    \* "up" | "aborted"
  seen,       \* events_seen_
  published,  \* events_published_
  dropped,    \* events_dropped_
  unsent,     \* the server's own dropped_events_
  filtered,   \* history: events the policy dropped
  refused     \* history: events the store refused

pipeline == <<loop, send, seen, published, unsent, filtered, refused>>
vars == <<config, main, tries, running, requested, server, backend, store, loop, send,
          client, process, seen, published, dropped, unsent, filtered, refused>>

StartPc == {"store", "ebpf", "pcap", "server", "listen"}
StopPc  == {"stop", "stopServer", "resetServer", "stopBackend", "joinBackend",
            "resetBackend", "resetStore"}
(* "failed": start() returned false; "ready": it returned true. *)
MainPc  == StartPc \cup StopPc \cup {"failed", "ready", "run", "turn", "exited"}

TypeOK ==
  /\ config \in Configs
  /\ main \in MainPc
  /\ tries \in 0..Candidates
  /\ running \in {"yes", "no"}
  /\ requested \in {"yes", "no"}
  /\ server \in {"null", "made", "up", "stopped"}
  /\ backend \in {"null", "up", "stopping", "failed"}
  /\ store \in {"null", "open", "dead"}
  /\ loop \in {"none", "poll", "kept", "broadcast", "offer", "storing", "done"}
  /\ send \in {"ok", "fails", "blocks", "stuck"}
  /\ client \in {"none", "recv", "handler", "done"}
  /\ process \in {"up", "aborted"}
  /\ seen \in Nat /\ published \in Nat /\ dropped \in Nat /\ unsent \in Nat
  /\ filtered \in Nat /\ refused \in Nat

Init ==
  /\ config \in Configs
  /\ main = "store" /\ tries = 0
  /\ running = "no" /\ requested = "no"
  /\ server = "null" /\ backend = "null" /\ store = "null"
  /\ loop = "none" /\ send = "ok" /\ client = "none" /\ process = "up"
  /\ seen = 0 /\ published = 0 /\ dropped = 0 /\ unsent = 0
  /\ filtered = 0 /\ refused = 0
-----------------------------------------------------------------------------
(* start(): the store is constructed first.  make_unique never yields      *)
(* null, so a store that could not open its database is kept, dead.        *)
OpenStore ==
  /\ main = "store"
  /\ main' = "ebpf"
  /\ IF config.storage = "on" THEN store' \in {"open", "dead"} ELSE UNCHANGED store
  /\ UNCHANGED <<config, tries, running, requested, server, backend, pipeline, client,
                 process, dropped>>

(* A backend that starts has its thread running before server_ is set. *)
BackendStarts ==
  /\ backend' = "up" /\ loop' = "poll" /\ main' = "server"
  /\ UNCHANGED <<send, seen, published, unsent, filtered, refused>>

TryEbpf ==
  /\ main = "ebpf"
  /\ \/ config.ebpf = "on" /\ BackendStarts
     \/ main' = "pcap" /\ UNCHANGED <<backend, pipeline>>
  /\ UNCHANGED <<config, tries, running, requested, server, store, client, process,
                 dropped>>

(* The interfaces are tried in turn; without a backend start() fails, and  *)
(* returns without releasing the store.                                    *)
TryPcap ==
  /\ main = "pcap"
  /\ \/ /\ config.fallback = "on" /\ tries < Candidates
        /\ tries' = tries + 1
        /\ BackendStarts \/ UNCHANGED <<main, backend, pipeline>>
     \/ /\ config.fallback = "off" \/ tries = Candidates
        /\ main' = "failed"
        /\ UNCHANGED <<tries, backend, pipeline>>
  /\ UNCHANGED <<config, running, requested, server, store, client, process, dropped>>

MakeServer ==
  /\ main = "server"
  /\ server' = "made" /\ main' = "listen"
  /\ UNCHANGED <<config, tries, running, requested, backend, store, pipeline, client,
                 process, dropped>>

(* The server starts and with it the daemon, or stop() undoes the rest. *)
Listen ==
  /\ main = "listen"
  /\ \/ server' = "up" /\ running' = "yes" /\ main' = "ready"
     \/ main' = "stop" /\ UNCHANGED <<server, running>>
  /\ UNCHANGED <<config, tries, requested, backend, store, pipeline, client, process,
                 dropped>>

(* main(): run the daemon, or stop it because privileges could not be      *)
(* dropped or the sandbox not installed.  After a failed start() the       *)
(* destructor stops what is left.                                          *)
Proceed ==
  /\ \/ main = "ready" /\ main' \in {"run", "stop"}
     \/ main = "failed" /\ main' = "stop"
  /\ UNCHANGED <<config, tries, running, requested, server, backend, store, pipeline,
                 client, process, dropped>>

RequestStop ==
  /\ requested = "no"
  /\ requested' = "yes"
  /\ UNCHANGED <<config, main, tries, running, server, backend, store, pipeline, client,
                 process, dropped>>

(* run(): while no stop is requested, a turn sleeps and then copies the    *)
(* server's drops over the daemon's counter (the prune of the store and    *)
(* the status leave no trace here).                                        *)
RunCheck ==
  /\ main = "run"
  /\ main' = IF requested = "yes" THEN "stop" ELSE "turn"
  /\ UNCHANGED <<config, tries, running, requested, server, backend, store, pipeline,
                 client, process, dropped>>

RunTurn ==
  /\ main = "turn"
  /\ main' = "run" /\ dropped' = unsent
  /\ UNCHANGED <<config, tries, running, requested, server, backend, store, pipeline,
                 client, process>>

-----------------------------------------------------------------------------
(* stop(): nothing to do, or running_ falls, ... *)
StopFrom(first) ==
  /\ main = "stop"
  /\ running' = "no"
  /\ main' = IF running = "no" /\ server = "null" /\ backend = "null" /\ store = "null"
             THEN "exited" ELSE first
  /\ UNCHANGED <<config, tries, requested, server, backend, store, pipeline, client,
                 process, dropped>>

(* Mutant: the backend is stopped before the server. *)
StopBackendFirst == StopFrom("stopBackend")

StopBegin == StopFrom("stopServer")

(* ... the server is stopped, which shuts its sockets down and so releases *)
(* a blocked send (unless the client's thread closed the descriptor before *)
(* stop() shut its number down: then the send stays stuck), and destroyed, *)
(* although the capture thread or a client thread may be inside it, ...    *)
StopServer ==
  /\ main = "stopServer"
  /\ server' = IF server = "up" THEN "stopped" ELSE server
  /\ send' \in IF send = "blocks" THEN {"blocks", "stuck"} ELSE {send}
  /\ main' = "resetServer"
  /\ UNCHANGED <<config, tries, running, requested, backend, store, loop, client, process,
                 seen, published, dropped, unsent, filtered, refused>>

ResetServerThen(next) ==
  /\ main = "resetServer"
  /\ server' = "null" /\ main' = next
  /\ UNCHANGED <<config, tries, running, requested, backend, store, pipeline, client,
                 process, dropped>>

(* Mutant: the store is released together with the server. *)
ResetServerStoreNext == ResetServerThen("resetStore")

ResetServer == ResetServerThen("stopBackend")

(* ... the backend's thread is told to stop and joined; but when the       *)
(* thread itself took running_ down, stop() returns at once, ...           *)
StopBackendThen(next) ==
  /\ main = "stopBackend"
  /\ IF backend = "up" THEN backend' = "stopping" /\ main' = next
                       ELSE main' = "resetBackend" /\ UNCHANGED backend
  /\ UNCHANGED <<config, tries, running, requested, server, store, pipeline, client,
                 process, dropped>>

(* Mutant: the thread is not joined. *)
StopBackendDetaches == StopBackendThen("resetBackend")

StopBackend == StopBackendThen("joinBackend")

JoinBackend ==
  /\ main = "joinBackend" /\ loop = "done"
  /\ loop' = "none" /\ main' = "resetBackend"
  /\ UNCHANGED <<config, tries, running, requested, server, backend, store, send, client,
                 process, seen, published, dropped, unsent, filtered, refused>>

(* ... the backend is destroyed (the destructor of a std::thread that was  *)
(* not joined calls std::terminate), and the store is destroyed.           *)
ResetBackend ==
  /\ main = "resetBackend"
  /\ backend' = "null" /\ main' = "resetStore"
  /\ process' = IF loop = "none" THEN process ELSE "aborted"
  /\ UNCHANGED <<config, tries, running, requested, server, store, pipeline, client, dropped>>

ResetStore ==
  /\ main = "resetStore"
  /\ store' = "null" /\ main' = "exited"
  /\ UNCHANGED <<config, tries, running, requested, server, backend, pipeline, client,
                 process, dropped>>

MainStep ==
  \/ OpenStore \/ TryEbpf \/ TryPcap \/ MakeServer \/ Listen \/ Proceed \/ RunCheck \/ RunTurn
  \/ StopBegin \/ StopServer \/ ResetServer \/ StopBackend \/ JoinBackend
  \/ ResetBackend \/ ResetStore
-----------------------------------------------------------------------------
(* on_capture_event(): correlate the event and apply the policy, which     *)
(* drops it or lets it pass, ...                                           *)
Filter(after) ==
  /\ loop = "poll" /\ seen < MaxEvents
  /\ seen' = seen + 1
  /\ \/ loop' = "kept" /\ UNCHANGED <<dropped, filtered>>
     \/ /\ dropped' = dropped + 1 /\ filtered' = filtered + 1
        /\ loop' = after
  /\ UNCHANGED <<config, main, tries, running, requested, server, backend, store, send,
                 client, process, published, unsent, refused>>

(* Mutant: a dropped event goes on down the pipeline. *)
CaptureNoReturn == Filter("kept")

CaptureEvent == Filter("poll")

(* ... test server_ and call broadcast(), where a send may fail, or block  *)
(* on a subscriber that does not read until the server is stopped, ...     *)
CheckServer ==
  /\ loop = "kept"
  /\ loop' = IF server = "null" THEN "offer" ELSE "broadcast"
  /\ send' \in IF server = "up" THEN {"ok", "fails", "blocks"} ELSE {"ok"}
  /\ UNCHANGED <<config, main, tries, running, requested, server, backend, store, client,
                 process, seen, published, dropped, unsent, filtered, refused>>

BroadcastReturns ==
  /\ loop = "broadcast" /\ send # "stuck" /\ (send # "blocks" \/ server # "up")
  /\ loop' = "offer" /\ send' = "ok"
  /\ unsent' = IF send = "ok" THEN unsent ELSE unsent + 1
  /\ UNCHANGED <<config, main, tries, running, requested, server, backend, store, client,
                 process, seen, published, dropped, filtered, refused>>

(* ... and test store_ and offer the event to it. *)
CheckStore ==
  /\ loop = "offer"
  /\ IF store = "null" THEN loop' = "poll" /\ published' = published + 1
                       ELSE loop' = "storing" /\ UNCHANGED published
  /\ UNCHANGED <<config, main, tries, running, requested, server, backend, store, send,
                 client, process, seen, dropped, unsent, filtered, refused>>

StoreEvent ==
  /\ loop = "storing"
  /\ \/ store = "open" /\ UNCHANGED <<dropped, refused>>
     \/ dropped' = dropped + 1 /\ refused' = refused + 1
  /\ loop' = "poll" /\ published' = published + 1
  /\ UNCHANGED <<config, main, tries, running, requested, server, backend, store, send,
                 client, process, seen, unsent, filtered>>

(* The backend's loop ends when its stop() says so, or takes running_ down *)
(* itself after an error of pcap_dispatch or ring_buffer__poll.            *)
LoopEnds ==
  /\ loop = "poll" /\ backend = "stopping"
  /\ loop' = "done"
  /\ UNCHANGED <<config, main, tries, running, requested, server, backend, store, send,
                 client, process, seen, published, dropped, unsent, filtered, refused>>

LoopFails ==
  /\ loop = "poll"
  /\ loop' = "done"
  /\ backend' = IF backend = "up" THEN "failed" ELSE backend
  /\ UNCHANGED <<config, main, tries, running, requested, server, store, send, client,
                 process, seen, published, dropped, unsent, filtered, refused>>

CaptureStep == CheckServer \/ BroadcastReturns \/ CheckStore \/ StoreEvent \/ LoopEnds
-----------------------------------------------------------------------------
(* A client thread, detached: it serves requests until its connection ends *)
(* or is shut down.                                                        *)
ClientMoves(from, to) ==
  /\ client = from /\ client' = to
  /\ UNCHANGED <<config, main, tries, running, requested, server, backend, store, pipeline,
                 process, dropped>>

ClientConnects == server = "up" /\ ClientMoves("none", "recv")
ClientAsks     == server = "up" /\ ClientMoves("recv", "handler")
ClientAnswered == ClientMoves("handler", "recv")
ClientLeaves   == ClientMoves("recv", "done")

(* A thread inside a destroyed server may bring the process down. *)
UseAfterDestroy ==
  /\ server = "null" /\ (loop = "broadcast" \/ client \in {"recv", "handler"})
  /\ process' = "aborted"
  /\ UNCHANGED <<config, main, tries, running, requested, server, backend, store, pipeline,
                 client, dropped>>

Next ==
  /\ process = "up"
  /\ \/ MainStep \/ RequestStop
     \/ CaptureEvent \/ CaptureStep \/ LoopFails
     \/ ClientConnects \/ ClientAsks \/ ClientAnswered \/ ClientLeaves
     \/ UseAfterDestroy

Spec == Init /\ [][Next]_vars

(* The operating system runs the main thread and the capture thread. *)
FairSpec ==
  /\ Spec
  /\ WF_vars(process = "up" /\ MainStep)
  /\ WF_vars(process = "up" /\ CaptureStep)
-----------------------------------------------------------------------------
(* The capture thread never calls a store that stop() has released: store_ *)
(* is reset only after the backend's thread has been joined.               *)
StoreOutlivesCapture == loop = "storing" => store # "null"

(* stop() never destroys the backend while the backend's thread is at work *)
(* with it, whichever of the two takes running_ down first.                *)
BackendOutlivesThread == loop \notin {"none", "done"} => backend # "null"

(* Every event the backend reports is counted once as filtered or as       *)
(* published, except the one in the pipeline, whatever stop() does.        *)
EventsAccounted ==
  seen = filtered + published
         + (IF loop \in {"kept", "broadcast", "offer", "storing"} THEN 1 ELSE 0)

(* A requested stop ends the daemon, also while a subscriber that does not *)
(* read blocks the capture thread: the server is stopped, which releases   *)
(* the send, before the backend's thread is joined.  Two outcomes are      *)
(* exempt because stop() really has them: the process is terminated, or    *)
(* the descriptor race of unix_socket_server.cpp:176 leaves a send stuck.  *)
StopCompletes ==
  requested = "yes" ~> (main = "exited" \/ process = "aborted" \/ send = "stuck")
=============================================================================
