--------------------------- MODULE DriverInstance ---------------------------
(***************************************************************************)
(* One Lua driver (src/src/drivers/driver_engine.cpp): the engine's load   *)
(* path, the life cycle of the instance, its fault budget, and the host    *)
(* state the lezcap bindings change while a callback runs                  *)
(* (drivers/lua/bindings/lezcap.cpp).                                      *)
(*                                                                         *)
(* The instance is driven by one thread.  What interleaves is the caller   *)
(* and the script: a callback is a span of steps, between which the script *)
(* may call any binding its manifest grants, and which ends in a return,   *)
(* an error or an exceeded budget.                                         *)
(*                                                                         *)
(* Outside the model: what the script computes (any binding call and any   *)
(* outcome is possible), the event table, and the files.  create() may     *)
(* always fail; as written it hands the allocator a StateData where        *)
(* budget_alloc() expects an AllocContext, so the first allocation is      *)
(* refused.  The life cycle below is what follows once it succeeds.        *)
(***************************************************************************)
EXTENDS Integers, Sequences, FiniteSets

CONSTANTS
  Documents,       \* manifest texts the engine is given
  Allowdirs,       \* allowlisted directories, each a sequence of characters
  Sources,         \* script contents; a content stands for its own hash
  Descriptors,     \* endpoint descriptors that validate
  Events,          \* events: [type, transport, confidence]; transport may be "none"
  Filters,         \* filters a script may register
  Engine,          \* EngineLimits: endpoints, subscriptions, rate, faults
  Window,          \* length of the rate window (1000 ms)
  MaxTime,         \* bound on the clock
  MaxDropped       \* bound on events_dropped

KnownCapabilities == {"events", "capture", "dns", "process", "policy", "endpoint",
                      "spec", "log", "util", "status"}

ASSUME DriverAssumption ==
  /\ Engine \in [endpoints : Nat, subscriptions : Nat, rate : Nat, faults : Nat]
  /\ \A d \in Documents : d.endpoints \in Nat /\ d.subscriptions \in Nat /\ d.script \in Seq(STRING)
  /\ Allowdirs \subseteq Seq(STRING)
  /\ Window \in Nat \ {0} /\ MaxTime \in Nat /\ MaxDropped \in Nat

VARIABLES
  manifest,     \* host_.manifest of the instance
  state,        \* state_, or "absent" when there is no instance
  caller,       \* who waits for load(): "engine" (load_from_manifest_text) or "host"
  sandbox,      \* sandbox_: "none" | "live"
  aborted,      \* Sandbox::aborted_
  running,      \* what the script is running, "none" between calls
  faults,       \* faults_
  endpoints,    \* host_.endpoints
  filters,      \* host_.capture_filters
  now,          \* the steady clock
  windowStart,  \* last_event_window_start_ms
  inWindow,     \* events_in_window
  dropped,      \* events_dropped
  emitted       \* events_emitted: the time at which each was counted, in order

rate == <<now, windowStart, inWindow, dropped, emitted>>
life == <<manifest, state, caller, sandbox, aborted, running, faults>>
vars == <<life, endpoints, filters, rate>>

Callbacks == {"chunk", "on_load", "on_start", "on_event", "on_stop"}
States    == {"absent", "Discovered", "Loaded", "Started", "Quarantined", "Failed"}

Lower(a, b) == IF a <= b THEN a ELSE b

(* The limits of the constructor: the manifest may only lower the engine's. *)
MaxEndpoints     == Lower(Engine.endpoints, manifest.endpoints)
MaxSubscriptions == Lower(Engine.subscriptions, manifest.subscriptions)

TypeOK ==
  /\ manifest \in Documents
  /\ state \in States
  /\ caller \in {"engine", "host"}
  /\ sandbox \in {"none", "live"}
  /\ aborted \in {"yes", "no"}
  /\ running \in Callbacks \cup {"none", "load"}
  /\ faults \in Nat
  /\ endpoints \in Seq(Descriptors)
  /\ filters \in Seq(Filters)
  /\ now \in 0..MaxTime /\ windowStart \in 0..MaxTime
  /\ inWindow \in Nat
  /\ dropped \in 0..MaxDropped
  /\ emitted \in Seq(0..MaxTime)

Init ==
  /\ manifest \in Documents
  /\ state = "absent" /\ caller = "host" /\ running = "none"
  /\ sandbox = "none" /\ aborted = "no"
  /\ faults = 0
  /\ endpoints = <<>> /\ filters = <<>>
  /\ now = 0 /\ windowStart = 0 /\ inWindow = 0 /\ dropped = 0
  /\ emitted = <<>>

-----------------------------------------------------------------------------
(* The engine: from a manifest text to an instance. *)

(* DriverManifest::parse: the fields that are only checked for shape are    *)
(* "wellFormed".                                                            *)
Parses(d) ==
  /\ d.wellFormed = "yes"
  /\ d.capabilities \subseteq KnownCapabilities /\ Cardinality(d.capabilities) <= 16
  /\ Cardinality(d.types) <= 16
  /\ d.endpoints <= 64 /\ d.subscriptions <= 64

HasPrefix(path, dir) ==
  Len(dir) <= Len(path) /\ \A i \in 1..Len(dir) : path[i] = dir[i]

(* path_within_allowlist: a string prefix that ends at a separator.  The    *)
(* mutant is the plain prefix test.                                         *)
AnyPrefix(path, dirs) == \E dir \in dirs : HasPrefix(path, dir)

PathWithinAllowlist(path, dirs) ==
  \E dir \in dirs :
    /\ HasPrefix(path, dir)
    /\ \/ Len(path) = Len(dir)
       \/ Len(dir) > 0 /\ dir[Len(dir)] = "/"
       \/ path[Len(dir) + 1] = "/"

(* verify_script_hash: no pin, or the pin of exactly this content. *)
HashVerified(d, source) == d.pin \in {"", source}

(* load_from_manifest_text() up to instance->load().  A manifest that is    *)
(* refused, or a script that cannot be read, changes nothing.               *)
LoadFromManifestText(d, source) ==
  /\ state = "absent"
  /\ Parses(d)
  /\ Allowdirs # {} => PathWithinAllowlist(d.script, Allowdirs)
  /\ HashVerified(d, source)
  /\ manifest' = d /\ state' = "Discovered" /\ caller' = "engine" /\ running' = "load"
  /\ faults' = 0 /\ endpoints' = <<>> /\ filters' = <<>>
  /\ windowStart' = 0 /\ inWindow' = 0 /\ dropped' = 0
  /\ emitted' = <<>>
  /\ UNCHANGED <<sandbox, aborted, now>>

(* A caller that kept the instance calls load() on it again. *)
LoadAgain ==
  /\ state = "Discovered" /\ running = "none"
  /\ caller' = "host" /\ running' = "load"
  /\ UNCHANGED <<manifest, state, sandbox, aborted, faults, endpoints, filters, rate>>

-----------------------------------------------------------------------------
(* The life cycle. *)

(* load() fails: the state is Failed and the sandbox destroyed; the engine  *)
(* then drops the instance it was constructing.                             *)
LoadFails ==
  /\ state' = IF caller = "engine" THEN "absent" ELSE "Failed"
  /\ sandbox' = "none" /\ running' = "none"

(* create(), register_lezcap() or load_source() refuses. *)
NoSandbox ==
  /\ running = "load"
  /\ LoadFails
  /\ UNCHANGED <<manifest, caller, aborted, faults, endpoints, filters, rate>>

(* A fresh sandbox with the granted bindings; the chunk starts to run. *)
RunChunk ==
  /\ running = "load"
  /\ sandbox' = "live" /\ aborted' = "no" /\ running' = "chunk"
  /\ UNCHANGED <<manifest, state, caller, faults, endpoints, filters, rate>>

(* record_fault(): the count, and quarantine at the threshold; below it the *)
(* thread sleeps.  The mutant compares before it counts.                    *)
RecordFaultLate(s) ==
  /\ faults' = faults + 1
  /\ state' = IF faults >= Engine.faults THEN "Quarantined" ELSE s

RecordFault(s) ==
  /\ faults' = faults + 1
  /\ state' = IF faults + 1 >= Engine.faults THEN "Quarantined" ELSE s

(* pcall() after mark_aborted(): a budget that is hit marks the sandbox. *)
Outcome(budget) == aborted' = IF budget THEN "yes" ELSE aborted

(* The chunk fails, or defines no on_load. *)
ChunkFails(budget) ==
  /\ running = "chunk"
  /\ LoadFails /\ Outcome(budget)
  /\ UNCHANGED <<manifest, caller, faults, endpoints, filters, rate>>

ChunkReturns ==
  /\ running = "chunk" /\ running' = "on_load"
  /\ UNCHANGED <<manifest, state, caller, sandbox, aborted, faults, endpoints, filters, rate>>

(* The fault is recorded, and Failed then overwrites what it set. *)
OnLoadFails(budget) ==
  /\ running = "on_load"
  /\ LoadFails /\ Outcome(budget)
  /\ faults' = faults + 1
  /\ UNCHANGED <<manifest, caller, endpoints, filters, rate>>

OnLoadReturns ==
  /\ running = "on_load" /\ running' = "none" /\ state' = "Loaded" /\ caller' = "host"
  /\ UNCHANGED <<manifest, sandbox, aborted, faults, endpoints, filters, rate>>

(* start(): a missing on_start is a success. *)
Start ==
  /\ state = "Loaded" /\ running = "none"
  /\ \/ running' = "on_start" /\ UNCHANGED state
     \/ state' = "Started" /\ UNCHANGED running
  /\ UNCHANGED <<manifest, caller, sandbox, aborted, faults, endpoints, filters, rate>>

OnStartReturns ==
  /\ running = "on_start" /\ running' = "none" /\ state' = "Started"
  /\ UNCHANGED <<manifest, caller, sandbox, aborted, faults, endpoints, filters, rate>>

(* A failed on_start leaves the driver Loaded, to be started again. *)
OnStartFails(budget) ==
  /\ running = "on_start" /\ running' = "none"
  /\ RecordFault("Loaded") /\ Outcome(budget)
  /\ UNCHANGED <<manifest, caller, sandbox, endpoints, filters, rate>>

(* on_event(): the manifest's subscription and every filter must admit the  *)
(* event.  An event without network data passes a transport filter.  The    *)
(* mutant asks for one matching filter.                                     *)
Subscribed(e) == manifest.types = {} \/ e.type \in manifest.types

Passes(f, e) ==
  /\ f.type \in {"", e.type}
  /\ f.transport \in {"", e.transport} \/ e.transport = "none"
  /\ e.confidence >= f.confidence

AdmitsAny(e) ==
  Subscribed(e) /\ (filters = <<>> \/ \E i \in DOMAIN filters : Passes(filters[i], e))

Admits(e) == Subscribed(e) /\ \A i \in DOMAIN filters : Passes(filters[i], e)

OnEvent(e) ==
  /\ state = "Started" /\ running = "none" /\ sandbox = "live"
  /\ Admits(e)
  /\ running' = "on_event"
  /\ UNCHANGED <<manifest, state, caller, sandbox, aborted, faults, endpoints, filters, rate>>

OnEventReturns ==
  /\ running = "on_event" /\ running' = "none"
  /\ UNCHANGED <<manifest, state, caller, sandbox, aborted, faults, endpoints, filters, rate>>

OnEventFails(budget) ==
  /\ running = "on_event" /\ running' = "none"
  /\ RecordFault("Started") /\ Outcome(budget)
  /\ UNCHANGED <<manifest, caller, sandbox, endpoints, filters, rate>>

(* The end of stop(): the sandbox goes; Started and Loaded become           *)
(* Discovered.  The mutants forget a driver that never started, and one     *)
(* that must stay where it is.                                              *)
StoppedIfStarted(s) == IF s = "Started" THEN "Discovered" ELSE s

StoppedAlways(s) == "Discovered"

Stopped(s) == IF s \in {"Started", "Loaded"} THEN "Discovered" ELSE s

(* stop() of a driver whose on_stop is to run. *)
StopCallsScript ==
  /\ state = "Started" /\ running = "none" /\ sandbox = "live"
  /\ running' = "on_stop"
  /\ UNCHANGED <<manifest, state, caller, sandbox, aborted, faults, endpoints, filters, rate>>

(* stop() of any other driver, or of one without on_stop. *)
StopAtOnce ==
  /\ state # "absent" /\ running = "none"
  /\ sandbox' = "none" /\ state' = Stopped(state)
  /\ UNCHANGED <<manifest, caller, aborted, running, faults, endpoints, filters, rate>>

OnStopReturns ==
  /\ running = "on_stop" /\ running' = "none"
  /\ sandbox' = "none" /\ state' = Stopped(state)
  /\ UNCHANGED <<manifest, caller, aborted, faults, endpoints, filters, rate>>

(* The fault is counted and teardown proceeds. *)
OnStopFails(budget) ==
  /\ running = "on_stop" /\ running' = "none"
  /\ sandbox' = "none" /\ RecordFault("Discovered") /\ Outcome(budget)
  /\ UNCHANGED <<manifest, caller, endpoints, filters, rate>>

(* ~DriverInstance after its stop(). *)
Destroy ==
  /\ state \notin {"absent", "Loaded", "Started"} /\ running = "none"
  /\ state' = "absent" /\ sandbox' = "none"
  /\ UNCHANGED <<manifest, caller, aborted, running, faults, endpoints, filters, rate>>

-----------------------------------------------------------------------------
(* The bindings, callable while the script runs if the manifest grants      *)
(* their capability.  A refused call changes nothing.                       *)

Granted(capability) == running \in Callbacks /\ capability \in manifest.capabilities

(* endpoint_declare.  The mutant checks the limit too late by one. *)
EndpointDeclareLate(d) ==
  /\ Granted("endpoint")
  /\ Len(endpoints) <= MaxEndpoints
  /\ endpoints' = Append(endpoints, d)
  /\ UNCHANGED <<life, filters, rate>>

EndpointDeclare(d) ==
  /\ Granted("endpoint")
  /\ Len(endpoints) < MaxEndpoints
  /\ endpoints' = Append(endpoints, d)
  /\ UNCHANGED <<life, filters, rate>>

(* capture_register_filter *)
CaptureRegisterFilter(f) ==
  /\ Granted("capture")
  /\ Len(filters) < MaxSubscriptions
  /\ filters' = Append(filters, f)
  /\ UNCHANGED <<life, endpoints, rate>>

(* event_emit: a new window when the old one is over, then the limit (zero  *)
(* is no limit).  An event counts as emitted before it is converted; one    *)
(* that is too large counts as dropped too.  The mutant forgets the         *)
(* length of a window.                                                      *)
WindowOverAtOnce == now >= windowStart

WindowOver == now - windowStart >= Window

EventEmit(oversize) ==
  LET used == IF WindowOver THEN 0 ELSE inWindow
      full == Engine.rate > 0 /\ used >= Engine.rate
      lost == full \/ oversize
  IN /\ Granted("events")
     /\ lost => dropped < MaxDropped
     /\ windowStart' = IF WindowOver THEN now ELSE windowStart
     /\ inWindow' = IF full THEN used ELSE used + 1
     /\ emitted' = IF full THEN emitted ELSE Append(emitted, now)
     /\ dropped' = IF lost THEN dropped + 1 ELSE dropped
     /\ UNCHANGED <<life, endpoints, filters, now>>

Tick ==
  /\ now < MaxTime /\ now' = now + 1
  /\ UNCHANGED <<life, endpoints, filters, windowStart, inWindow, dropped, emitted>>

-----------------------------------------------------------------------------
Engineer == LoadAgain \/ NoSandbox \/ RunChunk \/ Start \/ StopCallsScript \/ StopAtOnce
            \/ Destroy \/ \E e \in Events : OnEvent(e)

Returns == ChunkReturns \/ OnLoadReturns \/ OnStartReturns \/ OnEventReturns \/ OnStopReturns

Fails(budget) == ChunkFails(budget) \/ OnLoadFails(budget) \/ OnStartFails(budget)
                 \/ OnEventFails(budget) \/ OnStopFails(budget)

Next ==
  \/ \E d \in Documents, source \in Sources : LoadFromManifestText(d, source)
  \/ Engineer
  \/ Returns
  \/ \E budget \in BOOLEAN : Fails(budget)
  \/ \E d \in Descriptors : EndpointDeclare(d)
  \/ \E f \in Filters : CaptureRegisterFilter(f)
  \/ \E oversize \in BOOLEAN : EventEmit(oversize)
  \/ Tick

Spec == Init /\ [][Next]_vars

-----------------------------------------------------------------------------
(* Properties *)

(* start(), on_event() and stop() call into sandbox_; start() does so       *)
(* without looking.  In every state from which a callback can be entered,   *)
(* and while one runs, the sandbox is there, whatever sequence of loads,    *)
(* faults, stops and reloads came before.                                   *)
SandboxPresent ==
  (state \in {"Loaded", "Started"} \/ running \in Callbacks) => sandbox = "live"

(* A driver that can still run has not used up its fault budget, counted    *)
(* over its whole life: reloading an instance does not refill it.           *)
FaultBudget ==
  state \in {"Discovered", "Loaded", "Started"} /\ faults > 0 => faults < Engine.faults

(* Quarantined and Failed are final: the instance stays there until it is   *)
(* destroyed, and no callback of it is entered again.                       *)
QuarantineIsFinal ==
  [][(state \in {"Quarantined", "Failed"}) =>
       state' \in {state, "absent"} /\ running' = "none"]_vars

(* However often the instance is reloaded, it never holds more endpoints or *)
(* filters than the lower of the engine's limit and its manifest's.         *)
LimitsHold == Len(endpoints) <= MaxEndpoints /\ Len(filters) <= MaxSubscriptions

(* The script of every driver lies in an allowlisted directory: that        *)
(* directory, written without a trailing slash, is the script's path up to  *)
(* one of its separators, and not merely a prefix of its name.              *)
WithoutSlash(dir) ==
  IF dir # <<>> /\ dir[Len(dir)] = "/" THEN SubSeq(dir, 1, Len(dir) - 1) ELSE dir

Ancestors(path) == {SubSeq(path, 1, i - 1) : i \in {j \in DOMAIN path : path[j] = "/"}}

ScriptAllowed ==
  state # "absent" /\ Allowdirs # {} =>
    \E dir \in Allowdirs : WithoutSlash(dir) \in Ancestors(manifest.script) \cup {manifest.script}

(* Filters are reductions: over the life of an instance the set of events   *)
(* it is sent only shrinks.                                                 *)
FiltersOnlyNarrow ==
  [][state # "absent" /\ state' # "absent" =>
       \A e \in Events : Admits(e)' => Admits(e)]_vars

(* The rate limiter counts per window and not per sliding second: any span  *)
(* as long as a window holds at most two windows' worth of events, so that  *)
(* an event and the one two windows' worth later are a window apart.        *)
BurstBound ==
  Engine.rate > 0 =>
    \A i \in DOMAIN emitted :
      (i + 2 * Engine.rate \in DOMAIN emitted) => emitted[i + 2 * Engine.rate] - emitted[i] >= Window
=============================================================================
