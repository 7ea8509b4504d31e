---------------------------- MODULE DriverProofs ----------------------------
(***************************************************************************)
(* Proofs about the Lua driver instance: for every manifest, script, set   *)
(* of limits and sequence of calls, a callback finds its sandbox, faults   *)
(* are bounded by the engine's threshold, quarantine is final, what the    *)
(* script registers stays within its limits and only narrows what it is    *)
(* sent, no burst of events passes the rate limit, and a script that was   *)
(* loaded lies on the allowlist.                                           *)
(***************************************************************************)
EXTENDS DriverInstance, TLAPS

(* SMT proves a leaf that names no prover. *)
USE SMTT(60)

(* Which state a driver is in while its script runs: load() runs the chunk *)
(* and on_load, start() on_start, and a started driver the other two.      *)
Phases ==
  /\ running \in {"load", "chunk", "on_load"} => state = "Discovered"
  /\ running = "on_start" => state = "Loaded"
  /\ running \in {"on_event", "on_stop"} => state = "Started"

LifeInv == Phases /\ SandboxPresent /\ FaultBudget

DriverInv == TypeOK /\ LifeInv /\ LimitsHold

(* What the limiter's two numbers say about the events emitted so far: the *)
(* last inWindow of them are in the current window, those before are in    *)
(* earlier ones, and those a whole allowance before that are at least the  *)
(* length of a window older than the current one.                          *)
RateInv ==
  Engine.rate > 0 =>
    /\ windowStart <= now /\ inWindow <= Engine.rate /\ inWindow <= Len(emitted)
    /\ \A i \in DOMAIN emitted :
         /\ emitted[i] <= now /\ emitted[i] < windowStart + Window
         /\ (i + inWindow <= Len(emitted)) => emitted[i] < windowStart
         /\ (i + inWindow + Engine.rate <= Len(emitted)) => emitted[i] + Window <= windowStart
    /\ BurstBound

(* The allowlist was consulted for the manifest the instance holds. *)
AllowInv == state # "absent" /\ Allowdirs # {} => PathWithinAllowlist(manifest.script, Allowdirs)
-----------------------------------------------------------------------------
(* Initially there is no instance, and nothing is registered. *)
LEMMA DriverInvInit == Init => DriverInv
<1> SUFFICES ASSUME Init PROVE DriverInv
  OBVIOUS
<1> USE DriverAssumption DEF Init, DriverAssumption
<1>1. TypeOK
  BY DEF TypeOK, States, Callbacks
<1>2. LifeInv
  BY DEF LifeInv, Phases, SandboxPresent, FaultBudget, Callbacks
<1>3. LimitsHold
  BY DEF LimitsHold, MaxEndpoints, MaxSubscriptions, Lower
<1> QED
  BY <1>1, <1>2, <1>3 DEF DriverInv

(* Appending to a list keeps the type of its entries. *)
LEMMA AppendTyped ==
  ASSUME NEW S, NEW s \in Seq(S), NEW e \in S
  PROVE  Append(s, e) \in Seq(S)
  OBVIOUS

(* Every call of the engine and of the script keeps the types. *)
LEMMA TypeStep == TypeOK /\ [Next]_vars => TypeOK'
<1> SUFFICES ASSUME TypeOK, [Next]_vars PROVE TypeOK'
  OBVIOUS
<1> USE DriverAssumption DEF DriverAssumption, TypeOK, States, Callbacks, life, rate
<1>1. ASSUME NEW d \in Documents, NEW source \in Sources, LoadFromManifestText(d, source)
      PROVE  TypeOK'
  BY <1>1 DEF LoadFromManifestText
<1>2. CASE LoadAgain
  BY <1>2 DEF LoadAgain
<1>3. CASE NoSandbox
  BY <1>3 DEF NoSandbox, LoadFails
<1>4. CASE RunChunk
  BY <1>4 DEF RunChunk
<1>5. CASE Start
  BY <1>5 DEF Start
<1>6. CASE StopCallsScript
  BY <1>6 DEF StopCallsScript
<1>7. CASE StopAtOnce
  BY <1>7 DEF StopAtOnce, Stopped
<1>8. CASE Destroy
  BY <1>8 DEF Destroy
<1>9. ASSUME NEW e \in Events, OnEvent(e)
      PROVE  TypeOK'
  BY <1>9 DEF OnEvent
<1>10. CASE ChunkReturns
  BY <1>10 DEF ChunkReturns
<1>11. CASE OnLoadReturns
  BY <1>11 DEF OnLoadReturns
<1>12. CASE OnStartReturns
  BY <1>12 DEF OnStartReturns
<1>13. CASE OnEventReturns
  BY <1>13 DEF OnEventReturns
<1>14. CASE OnStopReturns
  BY <1>14 DEF OnStopReturns, Stopped
<1>15. ASSUME NEW budget \in BOOLEAN, ChunkFails(budget)
      PROVE  TypeOK'
  BY <1>15 DEF ChunkFails, LoadFails, Outcome
<1>16. ASSUME NEW budget \in BOOLEAN, OnLoadFails(budget)
      PROVE  TypeOK'
  BY <1>16 DEF OnLoadFails, LoadFails, Outcome
<1>17. ASSUME NEW budget \in BOOLEAN, OnStartFails(budget)
      PROVE  TypeOK'
  BY <1>17 DEF OnStartFails, RecordFault, Outcome
<1>18. ASSUME NEW budget \in BOOLEAN, OnEventFails(budget)
      PROVE  TypeOK'
  BY <1>18 DEF OnEventFails, RecordFault, Outcome
<1>19. ASSUME NEW budget \in BOOLEAN, OnStopFails(budget)
      PROVE  TypeOK'
  BY <1>19 DEF OnStopFails, RecordFault, Outcome
<1>20. ASSUME NEW d \in Descriptors, EndpointDeclare(d)
      PROVE  TypeOK'
  BY <1>20 DEF EndpointDeclare
<1>21. ASSUME NEW f \in Filters, CaptureRegisterFilter(f)
      PROVE  TypeOK'
  BY <1>21 DEF CaptureRegisterFilter
<1>22. ASSUME NEW oversize \in BOOLEAN, EventEmit(oversize)
      PROVE  TypeOK'
  <2>1. emitted' \in Seq(0..MaxTime)
    <3>1. emitted' = emitted \/ emitted' = Append(emitted, now)
      BY <1>22, ZenonT(60) DEF EventEmit
    <3>2. emitted \in Seq(0..MaxTime) /\ now \in 0..MaxTime
      OBVIOUS
    <3> HIDE DriverAssumption DEF TypeOK, DriverAssumption
    <3>3. Append(emitted, now) \in Seq(0..MaxTime)
      BY <3>2, AppendTyped
    <3>4. CASE emitted' = emitted
      BY <3>2, <3>4
    <3>5. CASE emitted' = Append(emitted, now)
      BY <3>3, <3>5
    <3> QED
      BY <3>1, <3>4, <3>5
  <2>2. windowStart' \in 0..MaxTime /\ inWindow' \in Nat /\ now' = now
    BY <1>22 DEF EventEmit
  <2>3. dropped' \in 0..MaxDropped
    BY <1>22 DEF EventEmit
  <2>4. UNCHANGED <<life, endpoints, filters>>
    BY <1>22, ZenonT(60) DEF EventEmit
  <2> QED
    BY <2>1, <2>2, <2>3, <2>4
<1>23. CASE Tick
  BY <1>23 DEF Tick
<1>24. CASE UNCHANGED vars
  BY <1>24 DEF vars
<1> QED
  BY ZenonT(60), <1>1, <1>2, <1>3, <1>4, <1>5, <1>6, <1>7, <1>8, <1>9, <1>10, <1>11, 
     <1>12, <1>13, <1>14, <1>15, <1>16, <1>17, <1>18, <1>19, <1>20, <1>21, 
     <1>22, <1>23, <1>24
     DEF Next, Engineer, Returns, Fails

(* Every call keeps the life cycle in order: the sandbox goes only with    *)
(* the states that need it, and a fault that exhausts the budget           *)
(* quarantines the driver in the same call.                                *)
LEMMA LifeStep == TypeOK /\ LifeInv /\ [Next]_vars => LifeInv'
<1> SUFFICES ASSUME TypeOK, LifeInv, [Next]_vars PROVE LifeInv'
  OBVIOUS
<1> USE DriverAssumption
    DEF DriverAssumption, LifeInv, Phases, SandboxPresent, FaultBudget, Callbacks, life
<1>0. faults \in Nat /\ state \in States
  BY DEF TypeOK
<1>1. ASSUME NEW d \in Documents, NEW source \in Sources, LoadFromManifestText(d, source)
      PROVE  LifeInv'
  BY <1>0, <1>1 DEF LoadFromManifestText
<1>2. CASE LoadAgain
  BY <1>0, <1>2 DEF LoadAgain
<1>3. CASE NoSandbox
  BY <1>0, <1>3 DEF NoSandbox, LoadFails
<1>4. CASE RunChunk
  BY <1>0, <1>4 DEF RunChunk
<1>5. CASE Start
  BY <1>0, <1>5 DEF Start
<1>6. CASE StopCallsScript
  BY <1>0, <1>6 DEF StopCallsScript
<1>7. CASE StopAtOnce
  BY <1>0, <1>7 DEF StopAtOnce, Stopped
<1>8. CASE Destroy
  BY <1>0, <1>8 DEF Destroy
<1>9. ASSUME NEW e \in Events, OnEvent(e)
      PROVE  LifeInv'
  BY <1>0, <1>9 DEF OnEvent
<1>10. CASE ChunkReturns
  BY <1>0, <1>10 DEF ChunkReturns
<1>11. CASE OnLoadReturns
  BY <1>0, <1>11 DEF OnLoadReturns
<1>12. CASE OnStartReturns
  BY <1>0, <1>12 DEF OnStartReturns
<1>13. CASE OnEventReturns
  BY <1>0, <1>13 DEF OnEventReturns
<1>14. CASE OnStopReturns
  BY <1>0, <1>14 DEF OnStopReturns, Stopped
<1>15. ASSUME NEW budget \in BOOLEAN, ChunkFails(budget)
      PROVE  LifeInv'
  BY <1>0, <1>15 DEF ChunkFails, LoadFails, Outcome
<1>16. ASSUME NEW budget \in BOOLEAN, OnLoadFails(budget)
      PROVE  LifeInv'
  BY <1>0, <1>16 DEF OnLoadFails, LoadFails, Outcome
<1>17. ASSUME NEW budget \in BOOLEAN, OnStartFails(budget)
      PROVE  LifeInv'
  BY <1>0, <1>17 DEF OnStartFails, RecordFault, Outcome
<1>18. ASSUME NEW budget \in BOOLEAN, OnEventFails(budget)
      PROVE  LifeInv'
  BY <1>0, <1>18 DEF OnEventFails, RecordFault, Outcome
<1>19. ASSUME NEW budget \in BOOLEAN, OnStopFails(budget)
      PROVE  LifeInv'
  BY <1>0, <1>19 DEF OnStopFails, RecordFault, Outcome
<1>20. ASSUME NEW d \in Descriptors, EndpointDeclare(d)
      PROVE  LifeInv'
  BY <1>0, <1>20 DEF EndpointDeclare
<1>21. ASSUME NEW f \in Filters, CaptureRegisterFilter(f)
      PROVE  LifeInv'
  BY <1>0, <1>21 DEF CaptureRegisterFilter
<1>22. ASSUME NEW oversize \in BOOLEAN, EventEmit(oversize)
      PROVE  LifeInv'
  BY <1>0, <1>22 DEF EventEmit, WindowOver
<1>23. CASE Tick
  BY <1>0, <1>23 DEF Tick
<1>24. CASE UNCHANGED vars
  BY <1>0, <1>24 DEF vars
<1> QED
  BY ZenonT(60), <1>1, <1>2, <1>3, <1>4, <1>5, <1>6, <1>7, <1>8, <1>9, <1>10, <1>11, 
     <1>12, <1>13, <1>14, <1>15, <1>16, <1>17, <1>18, <1>19, <1>20, <1>21, 
     <1>22, <1>23, <1>24
     DEF Next, Engineer, Returns, Fails
-----------------------------------------------------------------------------
(* Only a new instance changes the manifest, and it starts with nothing    *)
(* registered; while one lives its filters are only appended to.           *)
LEMMA Registered ==
  ASSUME TypeOK, [Next]_vars
  PROVE  \/ state = "absent" /\ endpoints' = <<>> /\ filters' = <<>>
         \/ UNCHANGED <<manifest, endpoints, filters>>
         \/ /\ UNCHANGED <<manifest, filters>> /\ Len(endpoints) < MaxEndpoints
            /\ \E d \in Descriptors : endpoints' = Append(endpoints, d)
         \/ /\ UNCHANGED <<manifest, endpoints>> /\ Len(filters) < MaxSubscriptions
            /\ \E f \in Filters : filters' = Append(filters, f)
<1> USE DEF life
<1>1. ASSUME NEW d \in Documents, NEW source \in Sources, LoadFromManifestText(d, source)
      PROVE  state = "absent" /\ endpoints' = <<>> /\ filters' = <<>>
  BY <1>1 DEF LoadFromManifestText
<1>2. CASE Engineer \/ Returns \/ Tick \/ UNCHANGED vars
  <2>1. UNCHANGED <<manifest, endpoints, filters>>
    BY <1>2, ZenonT(60) DEF Engineer, LoadAgain, NoSandbox, RunChunk, Start, StopCallsScript,
       StopAtOnce, Destroy, OnEvent, Returns, ChunkReturns, OnLoadReturns, OnStartReturns,
       OnEventReturns, OnStopReturns, Tick, vars
  <2> QED
    BY <2>1
<1>3. ASSUME NEW budget \in BOOLEAN, Fails(budget)
      PROVE  UNCHANGED <<manifest, endpoints, filters>>
  BY <1>3, ZenonT(60)
     DEF Fails, ChunkFails, OnLoadFails, OnStartFails, OnEventFails, OnStopFails
<1>4. ASSUME NEW oversize \in BOOLEAN, EventEmit(oversize)
      PROVE  UNCHANGED <<manifest, endpoints, filters>>
  BY <1>4, ZenonT(60) DEF EventEmit
<1>5. ASSUME NEW d \in Descriptors, EndpointDeclare(d)
      PROVE  /\ UNCHANGED <<manifest, filters>> /\ Len(endpoints) < MaxEndpoints
             /\ endpoints' = Append(endpoints, d)
  BY <1>5 DEF EndpointDeclare
<1>6. ASSUME NEW f \in Filters, CaptureRegisterFilter(f)
      PROVE  /\ UNCHANGED <<manifest, endpoints>> /\ Len(filters) < MaxSubscriptions
             /\ filters' = Append(filters, f)
  BY <1>6 DEF CaptureRegisterFilter
<1> QED
  BY ZenonT(60), <1>1, <1>2, <1>3, <1>4, <1>5, <1>6 DEF Next

(* A registration is refused at the limit, which the manifest fixes. *)
LEMMA LimitsStep ==
  ASSUME TypeOK, TypeOK', LimitsHold, [Next]_vars
  PROVE  LimitsHold'
<1> USE DEF LimitsHold, MaxEndpoints, MaxSubscriptions
<1>1. /\ Lower(Engine.endpoints, manifest'.endpoints) \in Nat
      /\ Lower(Engine.subscriptions, manifest'.subscriptions) \in Nat
  BY DriverAssumption DEF DriverAssumption, TypeOK, Lower
<1>2. /\ Lower(Engine.endpoints, manifest.endpoints) \in Nat
      /\ Lower(Engine.subscriptions, manifest.subscriptions) \in Nat
  BY DriverAssumption DEF DriverAssumption, TypeOK, Lower
<1>3. endpoints \in Seq(Descriptors) /\ filters \in Seq(Filters)
  BY DEF TypeOK
<1>4. CASE endpoints' = <<>> /\ filters' = <<>>
  BY <1>1, <1>4
<1>5. CASE UNCHANGED <<manifest, endpoints, filters>>
  BY <1>5
<1>6. CASE /\ UNCHANGED <<manifest, filters>> /\ Len(endpoints) < MaxEndpoints
           /\ \E d \in Descriptors : endpoints' = Append(endpoints, d)
  <2>1. Len(endpoints') = Len(endpoints) + 1
    BY <1>3, <1>6
  <2> QED
    BY <1>2, <1>3, <1>6, <2>1
<1>7. CASE /\ UNCHANGED <<manifest, endpoints>> /\ Len(filters) < MaxSubscriptions
           /\ \E f \in Filters : filters' = Append(filters, f)
  <2>1. Len(filters') = Len(filters) + 1
    BY <1>3, <1>7
  <2> QED
    BY <1>2, <1>3, <1>7, <2>1
<1> QED
  BY ZenonT(60), Registered, <1>4, <1>5, <1>6, <1>7

-----------------------------------------------------------------------------
(* The limiter's state changes with a new instance, with an event that     *)
(* a script emits and with the clock.                                      *)
LEMMA Limiter ==
  ASSUME TypeOK, [Next]_vars
  PROVE  \/ UNCHANGED rate
         \/ emitted' = <<>> /\ windowStart' = 0 /\ inWindow' = 0 /\ now' = now
         \/ \E oversize \in BOOLEAN : EventEmit(oversize)
         \/ now' = now + 1 /\ UNCHANGED <<windowStart, inWindow, emitted>>
<1>1. ASSUME NEW d \in Documents, NEW source \in Sources, LoadFromManifestText(d, source)
      PROVE  emitted' = <<>> /\ windowStart' = 0 /\ inWindow' = 0 /\ now' = now
  BY <1>1, ZenonT(60) DEF LoadFromManifestText
<1>2. CASE Engineer \/ Returns \/ UNCHANGED vars
  <2>1. UNCHANGED rate
    BY <1>2, ZenonT(60) DEF Engineer, LoadAgain, NoSandbox, RunChunk, Start, StopCallsScript,
       StopAtOnce, Destroy, OnEvent, Returns, ChunkReturns, OnLoadReturns, OnStartReturns,
       OnEventReturns, OnStopReturns, vars
  <2> QED
    BY <2>1
<1>3. ASSUME NEW budget \in BOOLEAN, Fails(budget)
      PROVE  UNCHANGED rate
  BY <1>3, ZenonT(60)
     DEF Fails, ChunkFails, OnLoadFails, OnStartFails, OnEventFails, OnStopFails
<1>4. ASSUME NEW d \in Descriptors, EndpointDeclare(d)
      PROVE  UNCHANGED rate
  BY <1>4, ZenonT(60) DEF EndpointDeclare
<1>5. ASSUME NEW f \in Filters, CaptureRegisterFilter(f)
      PROVE  UNCHANGED rate
  BY <1>5, ZenonT(60) DEF CaptureRegisterFilter
<1>6. CASE Tick
  BY <1>6, ZenonT(60) DEF Tick
<1> QED
  BY ZenonT(60), <1>1, <1>2, <1>3, <1>4, <1>5, <1>6 DEF Next

(* An event that is let through is the last of a window that has room, or  *)
(* the first of a new one.                                                 *)
LEMMA RateStep ==
  ASSUME TypeOK, RateInv, [Next]_vars
  PROVE  RateInv'
<1> DEFINE r == Engine.rate
           n == Len(emitted)
<1>1. SUFFICES ASSUME r > 0 PROVE RateInv'
  BY DEF RateInv
<1>2. /\ r \in Nat /\ Window \in Nat /\ Window > 0
      /\ now \in Nat /\ windowStart \in Nat /\ inWindow \in Nat
      /\ emitted \in Seq(0..MaxTime) /\ MaxTime \in Nat
  BY DriverAssumption DEF DriverAssumption, TypeOK
<1>3. n \in Nat /\ DOMAIN emitted = 1..n /\ \A i \in DOMAIN emitted : emitted[i] \in Nat
  BY <1>2
<1>4. /\ windowStart <= now /\ inWindow <= r /\ inWindow <= n
      /\ \A i \in DOMAIN emitted :
           /\ emitted[i] <= now /\ emitted[i] < windowStart + Window
           /\ (i + inWindow <= n) => emitted[i] < windowStart
           /\ (i + inWindow + r <= n) => emitted[i] + Window <= windowStart
      /\ \A i \in DOMAIN emitted :
           (i + 2 * r \in DOMAIN emitted) => emitted[i + 2 * r] - emitted[i] >= Window
  BY <1>1 DEF RateInv, BurstBound
<1>5. CASE UNCHANGED rate
  BY <1>5 DEF rate, RateInv, BurstBound
<1>6. CASE emitted' = <<>> /\ windowStart' = 0 /\ inWindow' = 0 /\ now' = now
  BY <1>2, <1>6 DEF RateInv, BurstBound
<1>7. CASE now' = now + 1 /\ UNCHANGED <<windowStart, inWindow, emitted>>
  BY <1>2, <1>3, <1>4, <1>7 DEF RateInv, BurstBound
<1>8. ASSUME NEW oversize \in BOOLEAN, EventEmit(oversize) PROVE RateInv'
  <2> DEFINE used == IF WindowOver THEN 0 ELSE inWindow
             full == r > 0 /\ used >= r
  <2>1. /\ windowStart' = IF WindowOver THEN now ELSE windowStart
        /\ inWindow' = IF full THEN used ELSE used + 1
        /\ emitted' = IF full THEN emitted ELSE Append(emitted, now)
        /\ now' = now
    BY <1>8, ZenonT(60) DEF EventEmit
  <2>2. CASE full
    <3>1. ~WindowOver
      BY <1>1, <1>2, <2>2
    <3>2. UNCHANGED <<windowStart, inWindow, emitted, now>>
      BY <2>1, <2>2, <3>1
    <3> QED
      BY <3>2 DEF RateInv, BurstBound
  <2>3. CASE ~full
    <3> DEFINE start == windowStart'
               c == inWindow'
    <3>1. /\ emitted' = Append(emitted, now) /\ now' = now
          /\ start = IF now - windowStart >= Window THEN now ELSE windowStart
          /\ c = IF now - windowStart >= Window THEN 1 ELSE inWindow + 1
      BY <2>1, <2>3, <1>2 DEF WindowOver
    <3>2. start \in Nat /\ c \in Nat /\ start <= now /\ c <= r /\ c >= 1 /\ c <= n + 1
      BY <1>1, <1>2, <1>3, <1>4, <2>3, <3>1 DEF WindowOver
    <3>3. ASSUME NEW i \in DOMAIN emitted
          PROVE  /\ emitted[i] <= now /\ emitted[i] < start + Window
                 /\ (i + c <= n + 1) => emitted[i] < start
                 /\ (i + c + r <= n + 1) => emitted[i] + Window <= start
      <4>1. i \in Nat /\ i >= 1 /\ i <= n /\ emitted[i] \in Nat
        BY <1>3, <3>3
      <4>2. /\ emitted[i] <= now /\ emitted[i] < windowStart + Window /\ inWindow <= r
            /\ (i + inWindow <= n) => emitted[i] < windowStart
            /\ (i + inWindow + r <= n) => emitted[i] + Window <= windowStart
        BY <1>4, <3>3
      <4>3. CASE now - windowStart >= Window
        <5>1. start = now /\ c = 1
          BY <3>1, <4>3
        <5>2. (i + 1 + r <= n + 1) => i + inWindow <= n
          BY <1>2, <1>3, <1>4, <4>1
        <5> QED
          BY <1>2, <1>3, <4>1, <4>3, <4>2, <5>1, <5>2
      <4>4. CASE ~(now - windowStart >= Window)
        <5>1. start = windowStart /\ c = inWindow + 1
          BY <3>1, <4>4
        <5> QED
          BY <1>2, <1>3, <4>1, <4>2, <5>1
      <4> QED
        BY <4>3, <4>4
    <3>4. /\ DOMAIN emitted' = 1..n + 1 /\ Len(emitted') = n + 1 /\ emitted'[n + 1] = now
          /\ \A i \in DOMAIN emitted : emitted'[i] = emitted[i]
      BY <1>2, <1>3, <3>1
    <3>5. now < start + Window
      BY <1>2, <3>1
    <3> HIDE DEF start, c, n, r
    <3>6. ASSUME NEW i \in DOMAIN emitted'
          PROVE  /\ emitted'[i] <= now /\ emitted'[i] < start + Window
                 /\ (i + c <= n + 1) => emitted'[i] < start
                 /\ (i + c + r <= n + 1) => emitted'[i] + Window <= start
      <4>1. CASE i = n + 1
        BY <1>1, <1>2, <1>3, <3>2, <3>4, <3>5, <4>1
      <4>2. CASE i \in DOMAIN emitted
        BY <3>3, <3>4, <4>2
      <4> QED
        BY <1>3, <3>4, <3>6, <4>1, <4>2
    <3>7. ASSUME NEW i \in DOMAIN emitted', i + 2 * r \in DOMAIN emitted'
          PROVE  emitted'[i + 2 * r] - emitted'[i] >= Window
      <4>1. i \in Nat /\ i >= 1 /\ i \in DOMAIN emitted /\ emitted[i] \in Nat
        BY <1>1, <1>2, <1>3, <3>4, <3>7
      <4>2. CASE i + 2 * r = n + 1
        <5>1. i + c + r <= n + 1
          BY <1>2, <1>3, <3>2, <4>1, <4>2
        <5>2. emitted'[i + 2 * r] = now /\ emitted'[i] = emitted[i]
          BY <3>4, <4>1, <4>2
        <5>3. emitted[i] + Window <= start
          BY <3>3, <4>1, <5>1
        <5> QED
          BY <1>2, <3>2, <4>1, <5>2, <5>3
      <4>3. CASE i + 2 * r # n + 1
        <5>1. i + 2 * r \in DOMAIN emitted
          BY <1>2, <1>3, <3>4, <3>7, <4>1, <4>3
        <5> QED
          BY <1>4, <3>4, <4>1, <5>1
      <4> QED
        BY <4>2, <4>3
    <3> QED
      BY <3>1, <3>2, <3>4, <3>6, <3>7 DEF RateInv, BurstBound, start, c, r
  <2> QED
    BY <2>2, <2>3
<1> QED
  BY ZenonT(60), Limiter, <1>5, <1>6, <1>7, <1>8

(* The manifest of an instance is the one the allowlist was consulted for. *)
LEMMA AllowStep ==
  ASSUME TypeOK, LifeInv, AllowInv, [Next]_vars
  PROVE  AllowInv'
<1>0. running # "none" => state # "absent"
  BY DEF TypeOK, Callbacks, LifeInv, Phases
<1>1. CASE UNCHANGED manifest /\ (state' # "absent" => state # "absent")
  BY <1>1 DEF AllowInv
<1>2. ASSUME NEW d \in Documents, NEW source \in Sources, LoadFromManifestText(d, source)
      PROVE  AllowInv'
  BY <1>2, ZenonT(60) DEF LoadFromManifestText, AllowInv
<1>3. CASE Engineer \/ Returns \/ (\E budget \in BOOLEAN : Fails(budget))
           \/ (\E d \in Descriptors : EndpointDeclare(d))
           \/ (\E f \in Filters : CaptureRegisterFilter(f))
           \/ (\E oversize \in BOOLEAN : EventEmit(oversize)) \/ Tick \/ UNCHANGED vars
  <2>1. UNCHANGED manifest
    BY <1>3, ZenonT(60) DEF Engineer, LoadAgain, NoSandbox, RunChunk, Start, StopCallsScript,
       StopAtOnce, Destroy, OnEvent, Returns, ChunkReturns, OnLoadReturns, OnStartReturns,
       OnEventReturns, OnStopReturns, Fails, ChunkFails, OnLoadFails, OnStartFails, OnEventFails,
       OnStopFails, EndpointDeclare, CaptureRegisterFilter, EventEmit, Tick, vars, life
  <2>2. state' = "absent" \/ state # "absent" \/ state' = state
    <3>1. CASE Engineer
      BY <1>0, <3>1 DEF Engineer, LoadAgain, NoSandbox, RunChunk, Start, StopCallsScript,
         StopAtOnce, Destroy, OnEvent
    <3>2. CASE Returns
      BY <1>0, <3>2 DEF Returns, ChunkReturns, OnLoadReturns, OnStartReturns, OnEventReturns,
         OnStopReturns
    <3>3. ASSUME NEW budget \in BOOLEAN, Fails(budget) PROVE state # "absent"
      BY <1>0, <3>3 DEF Fails, ChunkFails, OnLoadFails, OnStartFails, OnEventFails, OnStopFails
    <3>4. ASSUME \/ \E d \in Descriptors : EndpointDeclare(d)
                 \/ \E f \in Filters : CaptureRegisterFilter(f)
                 \/ \E oversize \in BOOLEAN : EventEmit(oversize)
                 \/ Tick \/ UNCHANGED vars
          PROVE  state' = state
      BY <3>4, ZenonT(60) DEF EndpointDeclare, CaptureRegisterFilter, EventEmit, Tick, vars, life
    <3> QED
      BY <1>3, <3>1, <3>2, <3>3, <3>4, ZenonT(60)
  <2> QED
    BY <1>1, <2>1, <2>2
<1> QED
  BY ZenonT(60), <1>2, <1>3 DEF Next

(* The inductive invariant holds in every reachable state. *)
THEOREM DriverInvariant == Spec => []DriverInv
<1>1. DriverInv /\ [Next]_vars => DriverInv'
  BY TypeStep, LifeStep, LimitsStep, ZenonT(60) DEF DriverInv
<1> QED
  BY DriverInvInit, <1>1, PTL DEF Spec

(* Type correctness of the instance, its clock and its counters. *)
THEOREM DriverTypeOK == Spec => []TypeOK
<1>1. DriverInv => TypeOK
  BY DEF DriverInv
<1> QED
  BY <1>1, DriverInvariant, PTL

(* start(), on_event() and stop() never call into a destroyed sandbox. *)
THEOREM DriverSandboxPresent == Spec => []SandboxPresent
<1>1. DriverInv => SandboxPresent
  BY DEF DriverInv, LifeInv
<1> QED
  BY <1>1, DriverInvariant, PTL

(* record_fault() quarantines in time: a driver that can still run is      *)
(* below the threshold, over all its reloads.                              *)
THEOREM DriverFaultBudget == Spec => []FaultBudget
<1>1. DriverInv => FaultBudget
  BY DEF DriverInv, LifeInv
<1> QED
  BY <1>1, DriverInvariant, PTL

(* endpoint_declare and capture_register_filter respect the lower of the   *)
(* engine's and the manifest's limits.                                     *)
THEOREM DriverLimitsHold == Spec => []LimitsHold
<1>1. DriverInv => LimitsHold
  BY DEF DriverInv
<1> QED
  BY <1>1, DriverInvariant, PTL

(* No sequence of calls revives a quarantined or failed instance. *)
THEOREM DriverQuarantineIsFinal == Spec => QuarantineIsFinal
<1> DEFINE Final == (state \in {"Quarantined", "Failed"}) =>
                       state' \in {state, "absent"} /\ running' = "none"
<1>1. ASSUME DriverInv, [Next]_vars PROVE [Final]_vars
  <2> SUFFICES ASSUME Next, state \in {"Quarantined", "Failed"}
               PROVE  state' \in {state, "absent"} /\ running' = "none"
    BY <1>1
  <2>1. running = "none"
    BY <1>1 DEF DriverInv, LifeInv, Phases, TypeOK, Callbacks
  <2>2. ASSUME NEW capability PROVE ~Granted(capability)
    BY <2>1 DEF Granted, Callbacks
  <2>3. ASSUME NEW d \in Documents, NEW source \in Sources PROVE ~LoadFromManifestText(d, source)
    BY DEF LoadFromManifestText
  <2>4. ~LoadAgain /\ ~NoSandbox /\ ~RunChunk /\ ~Start /\ ~StopCallsScript
    BY <2>1 DEF LoadAgain, NoSandbox, RunChunk, Start, StopCallsScript
  <2>5. ~Returns /\ \A e \in Events : ~OnEvent(e)
    BY <2>1 DEF Returns, ChunkReturns, OnLoadReturns, OnStartReturns, OnEventReturns,
       OnStopReturns, OnEvent
  <2>6. \A budget \in BOOLEAN : ~Fails(budget)
    BY <2>1 DEF Fails, ChunkFails, OnLoadFails, OnStartFails, OnEventFails, OnStopFails
  <2>7. /\ \A d \in Descriptors : ~EndpointDeclare(d)
        /\ \A f \in Filters : ~CaptureRegisterFilter(f)
        /\ \A oversize \in BOOLEAN : ~EventEmit(oversize)
    BY <2>2, ZenonT(60) DEF EndpointDeclare, CaptureRegisterFilter, EventEmit
  <2>8. CASE StopAtOnce
    BY <2>1, <2>8 DEF StopAtOnce, Stopped
  <2>9. CASE Destroy
    BY <2>1, <2>9 DEF Destroy
  <2>10. CASE Tick
    BY <2>1, <2>10 DEF Tick, life
  <2> QED
    BY ZenonT(60), <2>3, <2>4, <2>5, <2>6, <2>7, <2>8, <2>9, <2>10 DEF Next, Engineer
<1> QED
  BY <1>1, DriverInvariant, PTL DEF Spec, QuarantineIsFinal

(* A filter, once registered, stays; a new one only removes events from    *)
(* those on_event() delivers.                                              *)
THEOREM DriverFiltersOnlyNarrow == Spec => FiltersOnlyNarrow
<1> DEFINE Narrow == state # "absent" /\ state' # "absent" =>
                        \A e \in Events : Admits(e)' => Admits(e)
<1>1. ASSUME DriverInv, [Next]_vars PROVE [Narrow]_vars
  <2> SUFFICES ASSUME state # "absent", NEW e \in Events, Admits(e)'
               PROVE  Admits(e)
    OBVIOUS
  <2>1. filters \in Seq(Filters) /\ TypeOK
    BY <1>1 DEF DriverInv, TypeOK
  <2>2. \/ UNCHANGED <<manifest, filters>>
        \/ manifest' = manifest /\ \E f \in Filters : filters' = Append(filters, f)
    BY <1>1, <2>1, Registered, ZenonT(60)
  <2>3. manifest' = manifest
    BY <2>2
  <2>4. \A i \in DOMAIN filters : i \in DOMAIN filters' /\ filters'[i] = filters[i]
    BY <2>1, <2>2
  <2>5. \A i \in DOMAIN filters' : Passes(filters'[i], e)
    BY ZenonT(60) DEF Admits
  <2>6. Subscribed(e)
    <3>1. manifest'.types = {} \/ e.type \in manifest'.types
      BY ZenonT(60) DEF Admits, Subscribed
    <3> QED
      BY <2>3, <3>1 DEF Subscribed
  <2> QED
    BY <2>4, <2>5, <2>6 DEF Admits
<1> QED
  BY <1>1, DriverInvariant, PTL DEF Spec, FiltersOnlyNarrow

-----------------------------------------------------------------------------
(* The limiter's numbers and the consulted allowlist, in every reachable   *)
(* state.                                                                  *)
THEOREM DriverHistory == Spec => [](RateInv /\ AllowInv)
<1>1. Init => RateInv /\ AllowInv
  BY DriverAssumption DEF Init, RateInv, BurstBound, AllowInv, DriverAssumption
<1>2. DriverInv /\ (RateInv /\ AllowInv) /\ [Next]_vars => (RateInv /\ AllowInv)'
  BY RateStep, AllowStep, ZenonT(60) DEF DriverInv
<1> QED
  BY <1>1, <1>2, DriverInvariant, PTL DEF Spec

(* event_emit: although a window may start anywhere, no span of a window's *)
(* length holds more than two windows' worth of events.                    *)
THEOREM DriverBurstBound == Spec => []BurstBound
<1>1. RateInv => BurstBound
  BY DEF RateInv, BurstBound
<1> QED
  BY <1>1, DriverHistory, PTL

(* HasPrefix: sequences that agree on their first k elements have the same *)
(* prefix of length k.                                                     *)
LEMMA SamePrefix ==
  ASSUME NEW C, NEW s \in Seq(C), NEW t \in Seq(C), NEW k \in Nat, k <= Len(s), k <= Len(t),
         \A i \in 1..k : s[i] = t[i]
  PROVE  SubSeq(s, 1, k) = SubSeq(t, 1, k)
  OBVIOUS

(* Sequences of one length with the same elements are the same sequence.   *)
LEMMA SameSeq ==
  ASSUME NEW C, NEW s \in Seq(C), NEW t \in Seq(C), Len(s) = Len(t),
         \A i \in 1..Len(s) : s[i] = t[i]
  PROVE  s = t
  OBVIOUS

(* WithoutSlash leaves a directory without a trailing separator whole.     *)
LEMMA WholeSeq ==
  ASSUME NEW C, NEW s \in Seq(C)
  PROVE  SubSeq(s, 1, Len(s)) = s
  OBVIOUS

(* path_within_allowlist: a prefix that ends at a separator of the path,   *)
(* or is all of it, is one of its directories or the path itself.          *)
LEMMA PrefixIsAncestor ==
  ASSUME NEW Chars, NEW path \in Seq(Chars), NEW dir \in Seq(Chars), HasPrefix(path, dir)
  PROVE  (\/ Len(path) = Len(dir)
          \/ Len(dir) > 0 /\ dir[Len(dir)] = "/"
          \/ path[Len(dir) + 1] = "/")
         => WithoutSlash(dir) \in Ancestors(path) \cup {path}
<1>0. PICK n \in Nat : n = Len(dir)
  OBVIOUS
<1>1. /\ n \in Nat /\ Len(path) \in Nat /\ n <= Len(path)
      /\ DOMAIN path = 1..Len(path) /\ DOMAIN dir = 1..n
      /\ \A i \in 1..n : path[i] = dir[i]
  BY <1>0 DEF HasPrefix
<1>2. ASSUME NEW k \in 0..n PROVE SubSeq(dir, 1, k) = SubSeq(path, 1, k)
  <2>1. k \in Nat /\ k <= Len(dir) /\ k <= Len(path) /\ \A i \in 1..k : dir[i] = path[i]
    BY <1>0, <1>1, <1>2
  <2> QED
    BY <2>1, SamePrefix
<1>3. SubSeq(dir, 1, n) = dir /\ (n = Len(path) => dir = path)
  <2>1. SubSeq(dir, 1, n) = dir
    BY <1>0, WholeSeq, ZenonT(60)
  <2>2. ASSUME n = Len(path) PROVE dir = path
    <3>1. Len(dir) = Len(path) /\ \A i \in 1..Len(dir) : dir[i] = path[i]
      BY <1>0, <1>1, <2>2, ZenonT(60)
    <3> QED
      BY <3>1, SameSeq, ZenonT(60)
  <2> QED
    BY <2>1, <2>2
<1>4. CASE dir # <<>> /\ dir[n] = "/"
  <2>1. n >= 1
    BY <1>0, <1>1, <1>4
  <2>2. n \in DOMAIN path /\ path[n] = "/" /\ n - 1 \in 0..n
    BY <1>1, <1>4, <2>1
  <2>3. WithoutSlash(dir) = SubSeq(path, 1, n - 1)
    BY <1>0, <1>2, <1>4, <2>2 DEF WithoutSlash
  <2> QED
    BY <2>2, <2>3, ZenonT(60) DEF Ancestors
<1>5. ASSUME ~(dir # <<>> /\ dir[n] = "/") PROVE WithoutSlash(dir) = dir
  BY <1>0, <1>5, ZenonT(60) DEF WithoutSlash
<1>6. CASE n = Len(path) /\ WithoutSlash(dir) = dir
  BY <1>3, <1>6, ZenonT(60)
<1>7. CASE n # Len(path) /\ WithoutSlash(dir) = dir /\ path[n + 1] = "/"
  <2>0. n # Len(path)
    BY <1>7
  <2>1. n + 1 \in 1..Len(path) /\ (n + 1) - 1 = n /\ n \in 0..n
    <3>1. \A a, b \in Nat : a <= b /\ a # b => a + 1 \in 1..b /\ (a + 1) - 1 = a /\ a \in 0..a
      OBVIOUS
    <3> QED
      BY <1>1, <2>0, <3>1, ZenonT(60)
  <2>2. \E j \in DOMAIN path : path[j] = "/" /\ dir = SubSeq(path, 1, j - 1)
    <3>1. dir = SubSeq(path, 1, n)
      BY <1>2, <1>3, <2>1, ZenonT(60)
    <3>2. n + 1 \in DOMAIN path /\ dir = SubSeq(path, 1, (n + 1) - 1)
      BY <1>1, <2>1, <3>1, ZenonT(60)
    <3> QED
      BY <1>7, <3>2, ZenonT(60)
  <2> QED
    BY <1>7, <2>2, ZenonT(60) DEF Ancestors
<1>8. Len(dir) > 0 => dir # <<>>
  OBVIOUS
<1> QED
  BY <1>0, <1>4, <1>5, <1>6, <1>7, <1>8, ZenonT(60)

(* load_from_manifest_text(): no driver runs a script outside the          *)
(* allowlisted directories, nor one whose path merely begins with the name *)
(* of such a directory.                                                    *)
THEOREM DriverScriptAllowed == Spec => []ScriptAllowed
<1>1. TypeOK /\ AllowInv => ScriptAllowed
  <2> SUFFICES ASSUME TypeOK, PathWithinAllowlist(manifest.script, Allowdirs)
               PROVE  \E dir \in Allowdirs :
                        WithoutSlash(dir) \in Ancestors(manifest.script) \cup {manifest.script}
    BY ZenonT(60) DEF AllowInv, ScriptAllowed
  <2> DEFINE path == manifest.script
  <2>1. PICK dir \in Allowdirs :
          /\ HasPrefix(path, dir)
          /\ \/ Len(path) = Len(dir)
             \/ Len(dir) > 0 /\ dir[Len(dir)] = "/"
             \/ path[Len(dir) + 1] = "/"
    BY ZenonT(60) DEF PathWithinAllowlist
  <2>2. path \in Seq(STRING) /\ dir \in Seq(STRING)
    BY DriverAssumption DEF DriverAssumption, TypeOK
  <2>3. WithoutSlash(dir) \in Ancestors(path) \cup {path}
    BY <2>1, <2>2, PrefixIsAncestor, ZenonT(60)
  <2> QED
    BY <2>3, ZenonT(60)
<1> QED
  BY <1>1, DriverHistory, DriverTypeOK, PTL
=============================================================================
