---------------------------- MODULE BridgeProofs ----------------------------
(***************************************************************************)
(* Proofs about the path between the browser and the daemon, for any       *)
(* number of requests, events, outages and reconnections: a page that has  *)
(* no port has a timeout pending, every response carries the id of the     *)
(* request it answers, no request is answered twice, and what is stored is *)
(* in order, each event at most once.                                      *)
(***************************************************************************)
EXTENDS Bridge, FiniteSetTheorems, WellFoundedInduction, TLAPS

(* SMT proves a leaf that names no prover. *)
USE SMTT(60)

(* The page's part: reconnectTimer is set only while its timeout is        *)
(* pending, and only a page with a port has a host.                        *)
PageInv ==
  /\ timer => alarm
  /\ NeverStranded
  /\ ~connected => host = "down"

(* What the page may post, and what the host writes: a response is a match *)
(* of its two ids.                                                         *)
Posted  == [id : Nat, op : Allowed \cup {m.op : m \in Others},
            form : {"request"} \cup {m.form : m \in Others}]
Matched == [kind : {"event"}, event : Nat] \cup [kind : {"error"}, id : Nat]
             \cup {r \in [kind : {"response"}, id : Nat, op : Allowed, for : Nat] : r.id = r.for}

(* What the connection carries while the host works on request id. *)
RequestOf(id) == [id : {id}, op : Allowed, form : {"request"}]
FrameOf(id)   == [kind : {"event"}, event : Nat]
                   \cup [kind : {"response"}, op : Allowed, for : {id}]
ConnOf(id)    == [open : BOOLEAN, peer : BOOLEAN, rx : Seq(RequestOf(id)),
                  tx : Seq(FrameOf(id)), subscribed : BOOLEAN]

Bounds == [requests : Nat, others : Nat, outages : Nat, clears : Nat]

Working == {"connecting", "sending", "polling"}

(* The host's part: its connection belongs to the request at hand, and     *)
(* there is none before it connects or after it is done.                   *)
HostInv ==
  /\ inbox \in Seq(Posted) /\ outbox \in Seq(Matched)
  /\ request.id \in Nat
  /\ host \in Working => request \in RequestOf(request.id)
  /\ conn \in ConnOf(request.id)
  /\ host \notin {"sending", "polling"} => conn = Closed
  /\ published \in Nat /\ spent \in Bounds

BridgeInv == PageInv /\ HostInv
-----------------------------------------------------------------------------
(* Initially there is no host, no connection and no timeout. *)
LEMMA BridgeInvInit == Init => BridgeInv
<1> SUFFICES ASSUME Init PROVE BridgeInv
  OBVIOUS
<1>1. PageInv
  BY DEF Init, PageInv, NeverStranded
<1>2. HostInv
  BY DEF Init, HostInv, NoRequest, Closed, ConnOf, Working, Bounds
<1> QED
  BY <1>1, <1>2 DEF BridgeInv

(* The timer, the UI and a lost port leave a page without a port only with *)
(* a timeout pending.                                                      *)
LEMMA PageStep == BridgeInv /\ [Next]_vars => PageInv'
<1> SUFFICES ASSUME BridgeInv, [Next]_vars PROVE PageInv'
  OBVIOUS
<1> USE DEF pageVars, storeVars, portVars, hostVars, daemonVars
<1>0. PageInv
  BY DEF BridgeInv
<1>1. ASSUME ScheduleReconnect PROVE alarm'
  BY <1>0, <1>1, ZenonT(60) DEF ScheduleReconnect, PageInv
<1>2. CASE Startup \/ RouteConnect
  <2>1. CASE ConnectSucceeds /\ UNCHANGED <<timer, alarm>>
    BY <1>0, <2>1 DEF ConnectSucceeds, PageInv, NeverStranded
  <2>2. CASE ConnectFails /\ ScheduleReconnect
    <3>1. alarm' /\ connected' = connected /\ host' = host
      BY <1>1, <2>2, ZenonT(60) DEF ConnectFails
    <3> QED
      BY <1>0, <3>1 DEF PageInv, NeverStranded
  <2> QED
    BY <1>2, <2>1, <2>2, ZenonT(60) DEF Startup, RouteConnect
<1>3. CASE TimerFires
  BY <1>0, <1>3 DEF TimerFires, ConnectSucceeds, ConnectFails, PageInv, NeverStranded
<1>4. CASE HandleDisconnect
  <2>1. alarm' /\ host = "down" /\ host' = host
    BY <1>1, <1>4, ZenonT(60) DEF HandleDisconnect
  <2> QED
    BY <2>1 DEF PageInv, NeverStranded
<1>5. ASSUME UNCHANGED <<started, connected, timer, alarm>>, host = "down" => host' = "down"
      PROVE  PageInv'
  BY <1>0, <1>5 DEF PageInv, NeverStranded
<1>6. CASE HandleMessage \/ LoadDone \/ StoreDone \/ Clear \/ (\E m \in Others : Post(m))
           \/ DaemonHandles \/ DaemonAnswers \/ DaemonPublishes \/ DaemonStops \/ DaemonStarts
           \/ UNCHANGED vars
  <2>1. UNCHANGED <<started, connected, timer, alarm>> /\ host' = host
    BY <1>6, ZenonT(60) DEF HandleMessage, LoadDone, StoreDone, Clear, Post, DaemonHandles,
       DaemonAnswers, DaemonPublishes, DaemonStops, DaemonStarts, vars
  <2> QED
    BY <1>5, <2>1
<1>7. CASE HostStep \/ HostKilled
  <2>1. UNCHANGED <<started, connected, timer, alarm>>
    BY <1>7, ZenonT(60) DEF HostStep, HostExits, HostRefuses, HostAccepts, HostConnects, HostSends,
       Poll, PollData, PollClosed, PollTimeout, HostKilled
  <2>2. host \in {"reading", "connecting", "sending", "polling"} \/ host # "down"
    BY <1>7, ZenonT(60) DEF HostStep, HostExits, HostRefuses, HostAccepts, HostConnects, HostSends,
       Poll, PollData, PollClosed, PollTimeout, HostKilled
  <2> QED
    BY <1>5, <2>1, <2>2
<1> QED
  BY <1>1, <1>2, <1>3, <1>4, <1>6, <1>7, ZenonT(60) DEF Next, Page, External
-----------------------------------------------------------------------------
(* A function on 1..m, such as the batch of frames PollData relays, is a    *)
(* sequence.                                                               *)
LEMMA RelaySeq == \A S : \A m \in Nat : \A f \in [1..m -> S] : f \in Seq(S)
OBVIOUS

(* Appending one frame or several keeps a sequence over its set. *)
LEMMA SeqFacts ==
  ASSUME NEW S, NEW s \in Seq(S)
  PROVE  /\ \A e \in S : Append(s, e) \in Seq(S)
         /\ s # <<>> => Head(s) \in S /\ Tail(s) \in Seq(S)
         /\ \A t \in Seq(S) : s \o t \in Seq(S)
  OBVIOUS

(* The fields of the connection change one at a time, and stay what they   *)
(* are for the request at hand.                                            *)
LEMMA ConnFacts ==
  ASSUME NEW id, NEW c \in ConnOf(id)
  PROVE  /\ c.rx \in Seq(RequestOf(id)) /\ c.tx \in Seq(FrameOf(id))
         /\ [c EXCEPT !.subscribed = TRUE] \in ConnOf(id)
         /\ [c EXCEPT !.peer = FALSE] \in ConnOf(id)
         /\ \A r \in Seq(RequestOf(id)) : [c EXCEPT !.rx = r] \in ConnOf(id)
         /\ \A t \in Seq(FrameOf(id)) : [c EXCEPT !.tx = t] \in ConnOf(id)
         /\ \A r \in Seq(RequestOf(id)), t \in Seq(FrameOf(id)) :
              [c EXCEPT !.rx = r, !.tx = t] \in ConnOf(id)
<1>1. c.rx \in Seq(RequestOf(id)) /\ c.tx \in Seq(FrameOf(id))
  BY ZenonT(60) DEF ConnOf
<1>2. [c EXCEPT !.subscribed = TRUE] \in ConnOf(id)
  BY ZenonT(60) DEF ConnOf
<1>3. [c EXCEPT !.peer = FALSE] \in ConnOf(id)
  BY ZenonT(60) DEF ConnOf
<1>4. ASSUME NEW r \in Seq(RequestOf(id)) PROVE [c EXCEPT !.rx = r] \in ConnOf(id)
  BY ZenonT(60) DEF ConnOf
<1>5. ASSUME NEW d \in ConnOf(id), NEW t \in Seq(FrameOf(id)) PROVE [d EXCEPT !.tx = t] \in ConnOf(id)
  BY ZenonT(60) DEF ConnOf
<1>6. ASSUME NEW r \in Seq(RequestOf(id)), NEW t \in Seq(FrameOf(id))
      PROVE  [c EXCEPT !.rx = r, !.tx = t] \in ConnOf(id)
  BY <1>4, <1>5, ZenonT(60)
<1> QED
  BY <1>1, <1>2, <1>3, <1>4, <1>5, <1>6, ZenonT(60)

(* No connection is a connection of any request. *)
LEMMA ClosedFacts ==
  ASSUME NEW id
  PROVE  /\ Closed \in ConnOf(id)
         /\ [Closed EXCEPT !.open = TRUE, !.peer = TRUE] \in ConnOf(id)
         /\ [Closed EXCEPT !.peer = FALSE] = Closed
<1>1. Closed \in ConnOf(id)
  BY DEF Closed, ConnOf
<1>2. ASSUME NEW d \in ConnOf(id)
      PROVE  [d EXCEPT !.open = TRUE] \in ConnOf(id) /\ [d EXCEPT !.peer = TRUE] \in ConnOf(id)
  BY ZenonT(60) DEF ConnOf
<1>3. ASSUME NEW d \in ConnOf(id), d.peer = FALSE PROVE [d EXCEPT !.peer = FALSE] = d
  BY <1>3, ZenonT(60) DEF ConnOf
<1>4. Closed.peer = FALSE
  BY ZenonT(60) DEF Closed
<1> QED
  BY <1>1, <1>2, <1>3, <1>4, ZenonT(60)

(* What the page and the environment have used up stays a number. *)
LEMMA SpentFacts ==
  ASSUME NEW s \in Bounds
  PROVE  /\ s.requests \in Nat
         /\ [s EXCEPT !.requests = s.requests + 2] \in Bounds
         /\ [s EXCEPT !.requests = s.requests + 1, !.others = s.others + 1] \in Bounds
         /\ [s EXCEPT !.outages = s.outages + 1] \in Bounds
         /\ [s EXCEPT !.clears = s.clears + 1] \in Bounds
<1>1. ASSUME NEW r \in Bounds, NEW n \in Nat
      PROVE  /\ [r EXCEPT !.requests = n] \in Bounds /\ [r EXCEPT !.others = n] \in Bounds
             /\ [r EXCEPT !.outages = n] \in Bounds /\ [r EXCEPT !.clears = n] \in Bounds
  BY <1>1, ZenonT(60) DEF Bounds
<1>2. /\ s.requests \in Nat /\ s.requests + 1 \in Nat /\ s.requests + 2 \in Nat
      /\ s.others + 1 \in Nat /\ s.outages + 1 \in Nat /\ s.clears + 1 \in Nat
  BY DEF Bounds
<1> QED
  BY <1>1, <1>2, ZenonT(60)

(* A step that changes neither the host nor its connection. *)
LEMMA HostQuiet ==
  ASSUME HostInv, UNCHANGED <<host, request, conn, published>>,
         inbox' \in Seq(Posted), outbox' \in Seq(Matched),
         spent' \in Bounds
  PROVE  HostInv'
  BY DEF HostInv

(* The page's callbacks post requests and read answers. *)
LEMMA PageHost ==
  ASSUME BridgeInv, Page
  PROVE  HostInv'
<1> USE DEF pageVars, storeVars, portVars, hostVars, daemonVars
<1>0. /\ HostInv /\ inbox \in Seq(Posted) /\ outbox \in Seq(Matched)
      /\ spent \in Bounds
      /\ (~connected => host = "down")
  BY DEF BridgeInv, HostInv, PageInv
<1>1. ASSUME ConnectSucceeds PROVE HostInv'
  <2>1. Greeting \in Seq(Posted)
    BY <1>0 DEF Greeting, Posted, Allowed, Bounds
  <2>2. inbox' \in Seq(Posted)
    BY <1>0, <1>1, <2>1, SeqFacts DEF ConnectSucceeds
  <2>3. spent' \in Bounds
    BY <1>0, <1>1, SpentFacts, ZenonT(60) DEF ConnectSucceeds
  <2>4. /\ UNCHANGED <<request, conn, published, outbox>>
        /\ host' = host \/ (host = "down" /\ host' = "reading")
    BY <1>0, <1>1 DEF ConnectSucceeds
  <2> QED
    BY <1>0, <2>2, <2>3, <2>4 DEF HostInv, Working
<1>2. ASSUME ConnectFails PROVE HostInv'
  BY <1>0, <1>2, HostQuiet DEF ConnectFails
<1>3. CASE Startup \/ TimerFires \/ RouteConnect
  BY <1>1, <1>2, <1>3, ZenonT(60) DEF Startup, TimerFires, RouteConnect
<1>4. CASE HandleDisconnect
  <2>1. UNCHANGED <<host, request, conn, published, outbox, spent>> /\ inbox' = <<>>
    BY <1>4 DEF HandleDisconnect
  <2> QED
    BY <1>0, <2>1, HostQuiet
<1>5. CASE HandleMessage
  <2>1. UNCHANGED <<host, request, conn, published, inbox, spent>>
    BY <1>5, ZenonT(60) DEF HandleMessage
  <2>2. outbox # <<>> /\ outbox' = Tail(outbox)
    BY <1>5 DEF HandleMessage
  <2> QED
    BY <1>0, <2>1, <2>2, SeqFacts, HostQuiet
<1>6. CASE LoadDone \/ StoreDone
  <2>1. UNCHANGED <<host, request, conn, published, inbox, outbox, spent>>
    BY <1>6, ZenonT(60) DEF LoadDone, StoreDone
  <2> QED
    BY <1>0, <2>1, HostQuiet
<1>7. CASE Clear
  <2>1. UNCHANGED <<host, request, conn, published, inbox, outbox>>
    BY <1>7, ZenonT(60) DEF Clear
  <2>2. spent' \in Bounds
    BY <1>0, <1>7, SpentFacts, ZenonT(60) DEF Clear
  <2> QED
    BY <1>0, <2>1, <2>2, HostQuiet
<1>8. ASSUME NEW m \in Others, Post(m) PROVE HostInv'
  <2>1. UNCHANGED <<host, request, conn, published, outbox>>
    BY <1>8, ZenonT(60) DEF Post
  <2>2. /\ spent' = [spent EXCEPT !.requests = spent.requests + 1, !.others = spent.others + 1]
        /\ inbox' = Append(inbox, [id |-> spent.requests + 1, op |-> m.op, form |-> m.form])
    BY <1>8 DEF Post
  <2>3. [id |-> spent.requests + 1, op |-> m.op, form |-> m.form] \in Posted
    BY <1>0 DEF Posted, Bounds
  <2>4. inbox' \in Seq(Posted)
    BY <1>0, <2>2, <2>3, SeqFacts
  <2>5. spent' \in Bounds
    BY <1>0, <2>2, SpentFacts, ZenonT(60)
  <2> QED
    BY <1>0, <2>1, <2>4, <2>5, HostQuiet
<1> QED
  BY <1>3, <1>4, <1>5, <1>6, <1>7, <1>8, ZenonT(60) DEF Page

(* The daemon answers a request under its own id, and publishes. *)
LEMMA ExternalHost ==
  ASSUME BridgeInv, External
  PROVE  HostInv'
<1> USE DEF pageVars, storeVars, portVars, hostVars, daemonVars
<1> DEFINE id == request.id
<1>0. /\ HostInv /\ conn \in ConnOf(id) /\ published \in Nat /\ id \in Nat
      /\ spent \in Bounds
      /\ host \notin {"sending", "polling"} => conn = Closed
  BY DEF BridgeInv, HostInv
<1>1. ASSUME UNCHANGED <<host, request, inbox, outbox>>, conn' \in ConnOf(id),
             conn = Closed => conn' = Closed, published' \in Nat,
             spent' \in Bounds
      PROVE  HostInv'
  BY <1>0, <1>1 DEF HostInv
<1> HIDE DEF id
<1>2. CASE DaemonHandles
  <2>1. UNCHANGED <<host, request, inbox, outbox, published, spent>> /\ conn # Closed
    BY <1>2 DEF DaemonHandles, Closed
  <2>2. conn' = [conn EXCEPT !.subscribed = TRUE]
    BY <1>2 DEF DaemonHandles
  <2>3. conn' \in ConnOf(id)
    BY <1>0, <2>2, ConnFacts, ZenonT(60)
  <2> QED
    BY <1>0, <1>1, <2>1, <2>3
<1>3. CASE DaemonAnswers
  <2>1. UNCHANGED <<host, request, inbox, outbox, published, spent>> /\ conn # Closed
    BY <1>3 DEF DaemonAnswers, Closed
  <2>2. conn.rx \in Seq(RequestOf(id)) /\ conn.tx \in Seq(FrameOf(id)) /\ conn.rx # <<>>
    BY <1>0, <1>3 DEF DaemonAnswers, ConnOf
  <2>3. Head(conn.rx) \in RequestOf(id) /\ Tail(conn.rx) \in Seq(RequestOf(id))
    BY <2>2, SeqFacts
  <2>4. [kind |-> "response", op |-> Head(conn.rx).op, for |-> Head(conn.rx).id] \in FrameOf(id)
    BY <2>3 DEF RequestOf, FrameOf
  <2> DEFINE answer == [kind |-> "response", op |-> Head(conn.rx).op, for |-> Head(conn.rx).id]
  <2>5. conn' = [conn EXCEPT !.rx = Tail(conn.rx), !.tx = Append(conn.tx, answer)]
    BY <1>3 DEF DaemonAnswers
  <2> HIDE DEF answer
  <2>6. Append(conn.tx, answer) \in Seq(FrameOf(id))
    BY <2>2, <2>4, SeqFacts DEF answer
  <2>7. conn' \in ConnOf(id)
    BY <1>0, <2>3, <2>5, <2>6, ConnFacts, ZenonT(60)
  <2> QED
    BY <1>0, <1>1, <2>1, <2>7
<1>4. CASE DaemonPublishes
  <2>1. UNCHANGED <<host, request, inbox, outbox, spent>> /\ published' \in Nat
    BY <1>0, <1>4 DEF DaemonPublishes
  <2>2. conn.tx \in Seq(FrameOf(id)) /\ [kind |-> "event", event |-> published + 1] \in FrameOf(id)
    BY <1>0 DEF ConnOf, FrameOf
  <2> DEFINE frames == Append(conn.tx, [kind |-> "event", event |-> published + 1])
  <2>a. conn' = conn \/ conn' = [conn EXCEPT !.tx = frames]
    BY <1>4 DEF DaemonPublishes
  <2>b. frames \in Seq(FrameOf(id)) /\ conn.rx \in Seq(RequestOf(id))
    BY <1>0, <2>2, SeqFacts DEF ConnOf
  <2> HIDE DEF frames
  <2>3. conn' \in ConnOf(id)
    BY <1>0, <2>a, <2>b, ConnFacts, ZenonT(60)
  <2>4. conn = Closed => conn' = Closed
    BY <1>4 DEF DaemonPublishes, Closed
  <2> QED
    BY <1>0, <1>1, <2>1, <2>3, <2>4
<1>5. CASE DaemonStops
  <2>1. UNCHANGED <<host, request, inbox, outbox, published>>
    BY <1>5 DEF DaemonStops
  <2>2. conn' = [conn EXCEPT !.peer = FALSE]
    BY <1>5 DEF DaemonStops
  <2>3. conn' \in ConnOf(id)
    BY <1>0, <2>2, ConnFacts, ZenonT(60)
  <2>4. conn = Closed => conn' = Closed
    BY <2>2, ClosedFacts, ZenonT(60)
  <2>5. spent' \in Bounds
    BY <1>0, <1>5, SpentFacts, ZenonT(60) DEF DaemonStops
  <2> QED
    BY <1>0, <1>1, <2>1, <2>3, <2>4, <2>5
<1>6. CASE DaemonStarts
  BY <1>0, <1>1, <1>6 DEF DaemonStarts
<1>7. CASE HostKilled
  <2>1. spent' \in Bounds
    BY <1>0, <1>7, SpentFacts, ZenonT(60) DEF HostKilled
  <2>2. request'.id \in Nat /\ conn' \in ConnOf(request'.id) /\ conn' = Closed
    BY <1>7 DEF HostKilled, NoRequest, Closed, ConnOf
  <2>3. UNCHANGED <<inbox, outbox, published>> /\ host' = "down"
    BY <1>7 DEF HostKilled
  <2> QED
    BY <1>0, <2>1, <2>2, <2>3 DEF HostInv, Working
<1> QED
  BY <1>2, <1>3, <1>4, <1>5, <1>6, <1>7 DEF External

(* The host relays, refuses and gives up: every response it writes is the  *)
(* daemon's to the request at hand.                                        *)
LEMMA HostHost ==
  ASSUME BridgeInv, HostStep
  PROVE  HostInv'
<1> USE DEF pageVars, storeVars, portVars, hostVars, daemonVars
<1> DEFINE id == request.id
<1>0. /\ HostInv /\ inbox \in Seq(Posted) /\ outbox \in Seq(Matched) /\ published \in Nat
      /\ id \in Nat /\ conn \in ConnOf(id)
      /\ spent \in Bounds
      /\ host \in Working => request \in RequestOf(id)
      /\ host \notin {"sending", "polling"} => conn = Closed
  BY DEF BridgeInv, HostInv
<1> HIDE DEF id
<1>1. \A n \in Nat : [kind |-> "error", id |-> n] \in Matched
  BY DEF Matched
<1>2. ASSUME NEW n \in Nat, SendError(n) PROVE outbox' \in Seq(Matched)
  BY <1>0, <1>1, <1>2, SeqFacts DEF SendError
<1>3. ASSUME HostDone, UNCHANGED <<inbox, spent>>, outbox' \in Seq(Matched) PROVE HostInv'
  <2>1. request'.id \in Nat /\ conn' \in ConnOf(request'.id) /\ conn' = Closed
    BY <1>3 DEF HostDone, NoRequest, Closed, ConnOf
  <2>2. host' = "reading" /\ published' = published
    BY <1>3 DEF HostDone
  <2> QED
    BY <1>0, <1>3, <2>1, <2>2 DEF HostInv, Working
<1>4. CASE HostExits
  <2>1. UNCHANGED <<request, conn, published, spent>> /\ host = "reading" /\ host' = "down"
    BY <1>4, ZenonT(60) DEF HostExits
  <2>2. /\ inbox # <<>> /\ inbox' = Tail(inbox)
        /\ outbox' = outbox \/ outbox' = Append(outbox, [kind |-> "error", id |-> 0])
    BY <1>4, ZenonT(60) DEF HostExits
  <2>3. inbox' \in Seq(Posted) /\ outbox' \in Seq(Matched)
    BY <1>0, <1>1, <2>2, SeqFacts
  <2> QED
    BY <1>0, <2>1, <2>3 DEF HostInv, Working
<1>5. CASE HostRefuses
  <2>1. UNCHANGED <<host, request, conn, published, spent>>
    BY <1>5, ZenonT(60) DEF HostRefuses
  <2>2. inbox # <<>> /\ inbox' = Tail(inbox)
    BY <1>5, ZenonT(60) DEF HostRefuses
  <2>a. Head(inbox) \in Posted /\ inbox' \in Seq(Posted)
    BY <1>0, <2>2, SeqFacts
  <2>3. Head(inbox).id \in Nat /\ inbox' \in Seq(Posted)
    BY <2>a DEF Posted
  <2>4. SendError(0) \/ SendError(Head(inbox).id)
    BY <1>5, ZenonT(60) DEF HostRefuses
  <2>5. outbox' \in Seq(Matched)
    BY <1>2, <2>3, <2>4
  <2> QED
    BY <1>0, <2>1, <2>3, <2>5, HostQuiet
<1>6. CASE HostAccepts
  <2>1. /\ UNCHANGED <<outbox, conn, published, spent>> /\ host = "reading" /\ host' = "connecting"
        /\ request' = Head(inbox) /\ inbox # <<>> /\ inbox' = Tail(inbox)
        /\ Head(inbox).form = "request" /\ Head(inbox).op \in Allowed
    BY <1>6 DEF HostAccepts
  <2>2. Head(inbox) \in Posted /\ inbox' \in Seq(Posted)
    BY <1>0, <2>1, SeqFacts
  <2>3. request'.id \in Nat /\ request' \in RequestOf(request'.id)
    BY <2>1, <2>2 DEF Posted, RequestOf
  <2>4. conn' = Closed /\ conn' \in ConnOf(request'.id)
    BY <1>0, <2>1 DEF Closed, ConnOf
  <2> QED
    BY <1>0, <2>1, <2>2, <2>3, <2>4 DEF HostInv, Working
<1>7. CASE HostConnects
  <2>1. \/ /\ host = "connecting" /\ host' = "sending"
           /\ conn' = IF conn.open THEN conn ELSE [Closed EXCEPT !.open = TRUE, !.peer = TRUE]
           /\ UNCHANGED <<request, inbox, outbox, published, spent>>
        \/ SendError(id) /\ HostDone /\ UNCHANGED <<inbox, spent>>
    BY <1>7, ZenonT(60) DEF HostConnects, id
  <2>2. CASE SendError(id) /\ HostDone /\ UNCHANGED <<inbox, spent>>
    BY <1>0, <1>2, <1>3, <2>2
  <2>3. CASE /\ host = "connecting" /\ host' = "sending"
             /\ conn' = IF conn.open THEN conn ELSE [Closed EXCEPT !.open = TRUE, !.peer = TRUE]
             /\ UNCHANGED <<request, inbox, outbox, published, spent>>
    <3>1. conn = Closed /\ conn' = [Closed EXCEPT !.open = TRUE, !.peer = TRUE]
      BY <1>0, <2>3 DEF Closed
    <3>2. conn' \in ConnOf(id)
      BY <3>1, ClosedFacts, ZenonT(60)
    <3> QED
      BY <1>0, <2>3, <3>2 DEF HostInv, Working, id
  <2> QED
    BY <2>1, <2>2, <2>3, ZenonT(60)
<1>8. CASE HostSends
  <2>1. \/ /\ host = "sending" /\ host' = "polling"
           /\ conn' = [conn EXCEPT !.rx = Append(@, request)]
           /\ UNCHANGED <<request, inbox, outbox, published, spent>>
        \/ SendError(id) /\ HostDone /\ UNCHANGED <<inbox, spent>>
    BY <1>8, ZenonT(60) DEF HostSends, id
  <2>2. CASE SendError(id) /\ HostDone /\ UNCHANGED <<inbox, spent>>
    BY <1>0, <1>2, <1>3, <2>2
  <2>3. CASE /\ host = "sending" /\ host' = "polling"
             /\ conn' = [conn EXCEPT !.rx = Append(@, request)]
             /\ UNCHANGED <<request, inbox, outbox, published, spent>>
    <3>1. conn.rx \in Seq(RequestOf(id)) /\ request \in RequestOf(id)
      BY <1>0, <2>3 DEF ConnOf, Working
    <3>2. Append(conn.rx, request) \in Seq(RequestOf(id)) /\ conn.tx \in Seq(FrameOf(id))
      BY <1>0, <3>1, SeqFacts DEF ConnOf
    <3>3. conn' \in ConnOf(id)
      BY <1>0, <2>3, <3>2, ConnFacts, ZenonT(60)
    <3> QED
      BY <1>0, <2>3, <3>3 DEF HostInv, Working, id
  <2> QED
    BY <2>1, <2>2, <2>3, ZenonT(60)
<1>9. CASE PollData
  <2>1. HostDone /\ UNCHANGED <<inbox, spent>>
    BY <1>9, ZenonT(60) DEF PollData
  <2>2. PICK n \in 0..Len(conn.tx) :
          outbox' = outbox \o [i \in 1..n |-> Relayed(SubSeq(conn.tx, 1, n)[i])]
    BY <1>9, ZenonT(60) DEF PollData
  <2>3. conn.tx \in Seq(FrameOf(id))
    BY <1>0 DEF ConnOf
  <2>4. \A frame \in FrameOf(id) : Relayed(frame) \in Matched
    <3> SUFFICES ASSUME NEW frame \in FrameOf(id) PROVE Relayed(frame) \in Matched
      OBVIOUS
    <3>1. CASE frame \in [kind : {"event"}, event : Nat]
      BY <3>1 DEF Relayed, Matched
    <3>2. CASE frame \in [kind : {"response"}, op : Allowed, for : {id}]
      BY <1>0, <3>2 DEF Relayed, Matched, id
    <3> QED
      BY <3>1, <3>2 DEF FrameOf
  <2>5. \A i \in 1..n : SubSeq(conn.tx, 1, n)[i] \in FrameOf(id)
    BY <2>3
  <2>6. [i \in 1..n |-> Relayed(SubSeq(conn.tx, 1, n)[i])] \in [1..n -> Matched]
    BY <2>4, <2>5
  <2>7. n \in Nat
    BY <2>3
  <2>8. [i \in 1..n |-> Relayed(SubSeq(conn.tx, 1, n)[i])] \in Seq(Matched)
    BY <2>6, <2>7, RelaySeq, ZenonT(60)
  <2>9. outbox' \in Seq(Matched)
    BY <1>0, <2>2, <2>8, SeqFacts
  <2> QED
    BY <1>3, <2>1, <2>9
<1>10. CASE PollClosed
  <2>1. SendError(id) /\ HostDone /\ UNCHANGED <<inbox, spent>>
    BY <1>10, ZenonT(60) DEF PollClosed, id
  <2> QED
    BY <1>0, <1>2, <1>3, <2>1
<1>11. CASE PollTimeout
  <2>1. HostDone /\ UNCHANGED <<inbox, outbox, spent>>
    BY <1>11, ZenonT(60) DEF PollTimeout
  <2> QED
    BY <1>0, <1>3, <2>1
<1> QED
  BY <1>4, <1>5, <1>6, <1>7, <1>8, <1>9, <1>10, <1>11, ZenonT(60) DEF HostStep, Poll
-----------------------------------------------------------------------------
(* The inductive invariant holds in every reachable state. *)
THEOREM BridgeInvariant == Spec => []BridgeInv
<1>1. ASSUME BridgeInv, UNCHANGED vars PROVE HostInv'
  BY <1>1 DEF BridgeInv, HostInv, vars
<1>2. BridgeInv /\ [Next]_vars => BridgeInv'
  BY <1>1, PageStep, PageHost, HostHost, ExternalHost, ZenonT(60) DEF BridgeInv, Next
<1> QED
  BY BridgeInvInit, <1>2, PTL DEF Spec

(* background.ts never strands the page: without a port it has a timeout   *)
(* pending that will try again.                                            *)
THEOREM BridgeNeverStranded == Spec => []NeverStranded
<1>1. BridgeInv => NeverStranded
  BY DEF BridgeInv, PageInv
<1> QED
  BY <1>1, BridgeInvariant, PTL

(* main.cpp relays a response under the id of the request it answers, also *)
(* when earlier requests were given up: each has a connection of its own.  *)
THEOREM BridgeAnswersMatch == Spec => []AnswersMatch
<1>1. BridgeInv => AnswersMatch
  <2> SUFFICES ASSUME outbox \in Seq(Matched), NEW i \in DOMAIN outbox, outbox[i].kind = "response"
               PROVE  outbox[i].id = outbox[i].for
    BY DEF BridgeInv, HostInv, AnswersMatch
  <2>1. outbox[i] \in Matched
    OBVIOUS
  <2> QED
    BY <2>1 DEF Matched
<1> QED
  BY <1>1, BridgeInvariant, PTL
-----------------------------------------------------------------------------
(* What is still to be answered: ids are given in order, so that those in  *)
(* the pipe are distinct and newer than the one the host works on.         *)
Numbered(pipe, working, ans, n) ==
  /\ n \in 0..MaxRequests
  /\ ans \in [0..MaxRequests -> Nat]
  /\ \A id \in 1..MaxRequests : ans[id] <= 1 /\ (id > n => ans[id] = 0)
  /\ \A i \in DOMAIN pipe : pipe[i].id \in 1..n /\ ans[pipe[i].id] = 0
  /\ \A i, j \in DOMAIN pipe : i < j => pipe[i].id < pipe[j].id
  /\ \A id \in working : /\ id \in 1..n /\ ans[id] = 0
                         /\ \A i \in DOMAIN pipe : id < pipe[i].id

AtHand == IF host \in Working THEN {request.id} ELSE {}

(* The connection carries one request, then its one response. *)
OneResponse ==
  /\ Len(conn.rx) <= 1
  /\ host # "polling" => conn.rx = <<>>
  /\ (host # "polling" \/ conn.rx # <<>>) => \A i \in DOMAIN conn.tx : conn.tx[i].kind = "event"
  /\ \A i, j \in DOMAIN conn.tx :
       (conn.tx[i].kind = "response" /\ conn.tx[j].kind = "response") => i = j

AnswerInv == Numbered(inbox, AtHand, answers, spent.requests) /\ OneResponse

(* The page posts its next request under the next id. *)
LEMMA NumberedPost ==
  ASSUME NEW pipe \in Seq(Posted), NEW working, NEW ans, NEW n,
         Numbered(pipe, working, ans, n), n + 1 <= MaxRequests,
         NEW m \in Posted, m.id = n + 1
  PROVE  Numbered(Append(pipe, m), working, ans, n + 1)
<1>1. /\ DOMAIN Append(pipe, m) = 1..Len(pipe) + 1
      /\ \A i \in DOMAIN pipe : Append(pipe, m)[i] = pipe[i]
      /\ Append(pipe, m)[Len(pipe) + 1] = m
      /\ DOMAIN pipe = 1..Len(pipe) /\ Len(pipe) \in Nat
  OBVIOUS
<1>2. n \in Nat /\ n + 1 \in 0..MaxRequests
  BY BridgeAssumption DEF BridgeAssumption, Numbered
<1>3. \A i \in DOMAIN Append(pipe, m) : i \in DOMAIN pipe \/ i = Len(pipe) + 1
  BY <1>1
<1> DEFINE q == Append(pipe, m)
<1> HIDE DEF q
<1>4. \A i \in DOMAIN q : q[i].id \in 1..n + 1 /\ ans[q[i].id] = 0
  BY <1>1, <1>2, <1>3 DEF Numbered, q
<1>5. \A i, j \in DOMAIN q : i < j => q[i].id < q[j].id
  BY <1>1, <1>2, <1>3 DEF Numbered, q
<1>6. \A id \in working : /\ id \in 1..n + 1 /\ ans[id] = 0
                          /\ \A i \in DOMAIN q : id < q[i].id
  BY <1>1, <1>2, <1>3 DEF Numbered, q
<1>7. /\ ans \in [0..MaxRequests -> Nat]
      /\ \A id \in 1..MaxRequests : ans[id] <= 1 /\ (id > n + 1 => ans[id] = 0)
  BY <1>2, BridgeAssumption DEF Numbered, BridgeAssumption
<1> QED
  BY <1>2, <1>4, <1>5, <1>6, <1>7, ZenonT(60) DEF Numbered, q

(* The numbering survives when the pipe, or the request at hand, is lost. *)
LEMMA NumberedEmpty ==
  ASSUME NEW pipe, NEW working, NEW ans, NEW n, Numbered(pipe, working, ans, n)
  PROVE  Numbered(<<>>, working, ans, n) /\ Numbered(pipe, {}, ans, n)
  BY DEF Numbered

(* The host takes the first request from the pipe; it may keep it at hand. *)
LEMMA NumberedNext ==
  ASSUME NEW pipe \in Seq(Posted), pipe # <<>>, NEW working, NEW ans, NEW n, Numbered(pipe, working, ans, n)
  PROVE  /\ Numbered(Tail(pipe), {}, ans, n)
         /\ Numbered(Tail(pipe), {Head(pipe).id}, ans, n)
<1>1. /\ \A i \in DOMAIN Tail(pipe) : i + 1 \in DOMAIN pipe /\ Tail(pipe)[i] = pipe[i + 1] /\ i \in Nat /\ i >= 1
      /\ Head(pipe) = pipe[1] /\ 1 \in DOMAIN pipe
  OBVIOUS
<1> DEFINE q == Tail(pipe)
<1> HIDE DEF q
<1>2. \A i \in DOMAIN q : q[i].id \in 1..n /\ ans[q[i].id] = 0
  BY <1>1 DEF Numbered, q
<1>3. \A i, j \in DOMAIN q : i < j => q[i].id < q[j].id
  BY <1>1 DEF Numbered, q
<1>4. \A id \in {Head(pipe).id} : /\ id \in 1..n /\ ans[id] = 0
                          /\ \A i \in DOMAIN q : id < q[i].id
  BY <1>1 DEF Numbered, q
<1> QED
  BY <1>2, <1>3, <1>4 DEF Numbered, q

(* One response, or none, for the request at hand: it is not at hand again. *)
LEMMA NumberedAnswer ==
  ASSUME NEW pipe, NEW id, NEW ans, NEW n, Numbered(pipe, {id}, ans, n), NEW k \in {0, 1}
  PROVE  Numbered(pipe, {}, [ans EXCEPT ![id] = @ + k], n)
<1>1. id \in 1..n /\ ans[id] = 0 /\ \A i \in DOMAIN pipe : id < pipe[i].id
  BY DEF Numbered
<1> DEFINE a == [ans EXCEPT ![id] = @ + k]
<1>2. /\ a \in [0..MaxRequests -> Nat] /\ a[id] = k
      /\ \A j \in 0..MaxRequests : j # id => a[j] = ans[j]
  BY <1>1, BridgeAssumption DEF Numbered, BridgeAssumption
<1> HIDE DEF a
<1>3. \A j \in 1..MaxRequests : a[j] <= 1 /\ (j > n => a[j] = 0)
  BY <1>1, <1>2, BridgeAssumption DEF Numbered, BridgeAssumption
<1>4. \A i \in DOMAIN pipe : pipe[i].id \in 1..n /\ a[pipe[i].id] = 0
  BY <1>1, <1>2, BridgeAssumption DEF Numbered, BridgeAssumption
<1> QED
  BY <1>2, <1>3, <1>4 DEF Numbered, a

(* Writing two messages is writing one after the other. *)
LEMMA AppendTwo ==
  ASSUME NEW S, NEW s \in Seq(S), NEW a \in S, NEW b \in S
  PROVE  s \o <<a, b>> = Append(Append(s, a), b)
  OBVIOUS

(* Every step keeps the requests numbered: ids are given in order, and an  *)
(* answer is written only for the request that is taken from the pipe or   *)
(* at hand, which then is neither.                                         *)
LEMMA NumberedStep ==
  ASSUME BridgeInv, AnswerInv, [Next]_vars
  PROVE  Numbered(inbox, AtHand, answers, spent.requests)'
<1> USE DEF pageVars, storeVars, portVars, hostVars, daemonVars
<1> DEFINE n == spent.requests
           k == spent'.requests
<1>0. /\ Numbered(inbox, AtHand, answers, n) /\ inbox \in Seq(Posted) /\ spent \in Bounds
      /\ (~connected => host = "down") /\ n \in Nat
  BY DEF BridgeInv, HostInv, PageInv, AnswerInv, Bounds
<1>a. ASSUME NEW working, Numbered(inbox', working, answers', k),
             working = AtHand'
      PROVE  Numbered(inbox, AtHand, answers, spent.requests)'
  <2>1. Numbered(inbox', AtHand', answers', k)
    BY <1>a, ZenonT(60)
  <2> QED
    BY <2>1, ZenonT(60) DEF Numbered
<1>b. ASSUME UNCHANGED <<inbox, host, request, answers>>, k = n
      PROVE  Numbered(inbox, AtHand, answers, spent.requests)'
  <2>1. AtHand' = AtHand
    BY <1>b DEF AtHand
  <2> QED
    BY <1>0, <1>a, <1>b, <2>1, ZenonT(60)
<1>1. ASSUME ConnectSucceeds PROVE Numbered(inbox, AtHand, answers, spent.requests)'
  <2> DEFINE first  == [id |-> n + 1, op |-> "hello", form |-> "request"]
             second == [id |-> n + 2, op |-> "subscribe", form |-> "request"]
  <2>1. first \in Posted /\ second \in Posted /\ first.id = n + 1 /\ second.id = n + 1 + 1
    BY <1>0 DEF Posted, Allowed
  <2>2. n + 2 <= MaxRequests /\ k = n + 1 + 1 /\ n + 1 <= MaxRequests /\ n + 1 + 1 <= MaxRequests
    BY <1>0, <1>1, BridgeAssumption DEF ConnectSucceeds, Bounds, BridgeAssumption
  <2>3. answers' = answers /\ AtHand' = AtHand /\ (inbox' = inbox \o Greeting \/ inbox' = Greeting)
    BY <1>0, <1>1 DEF ConnectSucceeds, AtHand, Working
  <2>4. Greeting = <<first, second>>
    BY DEF Greeting
  <2> HIDE DEF first, second, k
  <2>5. PICK q \in {inbox, <<>>} : inbox' = Append(Append(q, first), second)
    <3>1. <<first, second>> = Append(Append(<<>>, first), second)
      OBVIOUS
    <3>2. inbox \o <<first, second>> = Append(Append(inbox, first), second)
      BY <1>0, <2>1, AppendTwo
    <3> QED
      BY <2>3, <2>4, <3>1, <3>2
  <2>6. q \in Seq(Posted) /\ Numbered(q, AtHand, answers, n)
    <3>1. Numbered(<<>>, AtHand, answers, n)
      BY <1>0, NumberedEmpty, ZenonT(60)
    <3>2. <<>> \in Seq(Posted) /\ (q = inbox \/ q = <<>>)
      BY <2>5
    <3> QED
      BY <1>0, <3>1, <3>2, ZenonT(60)
  <2>7. Numbered(Append(q, first), AtHand, answers, n + 1) /\ Append(q, first) \in Seq(Posted)
    BY <2>1, <2>2, <2>6, NumberedPost, SeqFacts
  <2>8. Numbered(Append(Append(q, first), second), AtHand, answers, n + 1 + 1)
    BY <2>1, <2>2, <2>7, NumberedPost, ZenonT(60)
  <2> QED
    BY <1>a, <2>2, <2>3, <2>5, <2>8
<1>2. ASSUME ConnectFails PROVE Numbered(inbox, AtHand, answers, spent.requests)'
  BY <1>b, <1>2 DEF ConnectFails
<1>3. CASE Startup \/ TimerFires \/ RouteConnect
  BY <1>1, <1>2, <1>3, ZenonT(60) DEF Startup, TimerFires, RouteConnect
<1>4. CASE HandleDisconnect
  <2>1. UNCHANGED <<host, request, answers, spent>> /\ inbox' = <<>>
    BY <1>4 DEF HandleDisconnect
  <2>2. AtHand' = AtHand
    BY <2>1 DEF AtHand
  <2> QED
    BY <1>0, <1>a, <2>1, <2>2, NumberedEmpty
<1>5. CASE HandleMessage \/ LoadDone \/ StoreDone \/ DaemonHandles \/ DaemonAnswers
           \/ DaemonPublishes \/ DaemonStarts \/ UNCHANGED vars
  <2>1. UNCHANGED <<inbox, host, request, answers, spent>>
    BY <1>5, ZenonT(60) DEF HandleMessage, LoadDone, StoreDone, DaemonHandles, DaemonAnswers,
       DaemonPublishes, DaemonStarts, vars
  <2> QED
    BY <1>b, <2>1
<1>6. CASE Clear \/ DaemonStops
  <2>1. UNCHANGED <<inbox, host, request, answers>>
    BY <1>6, ZenonT(60) DEF Clear, DaemonStops
  <2>2. spent' = [spent EXCEPT !.clears = @ + 1] \/ spent' = [spent EXCEPT !.outages = @ + 1]
    BY <1>6, ZenonT(60) DEF Clear, DaemonStops
  <2>3. k = n
    BY <1>0, <2>2 DEF Bounds
  <2> QED
    BY <1>b, <2>1, <2>3
<1>7. CASE HostKilled
  <2>1. UNCHANGED <<inbox, answers>> /\ AtHand' = {}
    BY <1>7 DEF HostKilled, AtHand, Working
  <2>2. k = n
    BY <1>0, <1>7 DEF Bounds, HostKilled
  <2> QED
    BY <1>0, <1>a, <2>1, <2>2, NumberedEmpty
<1>8. ASSUME NEW m \in Others, Post(m) PROVE Numbered(inbox, AtHand, answers, spent.requests)'
  <2> DEFINE new == [id |-> n + 1, op |-> m.op, form |-> m.form]
  <2>1. new \in Posted /\ new.id = n + 1
    BY <1>0 DEF Posted
  <2>2. n + 1 <= MaxRequests /\ k = n + 1
    BY <1>0, <1>8, BridgeAssumption DEF Post, Bounds, BridgeAssumption
  <2>3. UNCHANGED <<answers, host, request>> /\ inbox' = Append(inbox, new)
    BY <1>8 DEF Post
  <2>4. AtHand' = AtHand
    BY <2>3 DEF AtHand
  <2> HIDE DEF new, k
  <2> QED
    BY <1>0, <1>a, <2>1, <2>2, <2>3, <2>4, NumberedPost
<1>9. ASSUME host = "reading", host' # "connecting", host' \in {"reading", "down"}, inbox # <<>>,
             inbox' = Tail(inbox), spent' = spent,
             answers' = answers \/ answers' = [answers EXCEPT ![Head(inbox).id] = @ + 1]
      PROVE  Numbered(inbox, AtHand, answers, spent.requests)'
  <2>1. AtHand' = {}
    BY <1>9 DEF AtHand, Working
  <2>2. /\ Numbered(Tail(inbox), {}, answers, n)
        /\ Numbered(Tail(inbox), {Head(inbox).id}, answers, n)
    BY <1>0, <1>9, NumberedNext, ZenonT(60)
  <2>3. Numbered(Tail(inbox), {}, [answers EXCEPT ![Head(inbox).id] = @ + 1], n)
    BY <2>2, NumberedAnswer, ZenonT(60)
  <2> QED
    BY <1>9, <1>a, <2>1, <2>2, <2>3
<1>10. CASE HostExits
  <2>1. /\ host = "reading" /\ host' = "down" /\ inbox # <<>> /\ inbox' = Tail(inbox)
        /\ UNCHANGED <<answers, spent>>
    BY <1>10, ZenonT(60) DEF HostExits
  <2> QED
    BY <1>9, <2>1
<1>11. CASE HostRefuses
  <2>1. /\ host = "reading" /\ host' = host /\ inbox # <<>> /\ inbox' = Tail(inbox) /\ spent' = spent
        /\ answers' = answers \/ answers' = [answers EXCEPT ![Head(inbox).id] = @ + 1]
    BY <1>11, ZenonT(60) DEF HostRefuses, Answer, Answers
  <2> QED
    BY <1>9, <2>1
<1>12. CASE HostAccepts
  <2>1. AtHand' = {Head(inbox).id} /\ inbox # <<>> /\ inbox' = Tail(inbox) /\ UNCHANGED <<answers, spent>>
    BY <1>12 DEF HostAccepts, AtHand, Working
  <2> QED
    BY <1>0, <1>a, <2>1, NumberedNext
<1>13. ASSUME host \in Working, HostDone, UNCHANGED <<inbox, spent>>, NEW a \in {0, 1},
              answers' = [answers EXCEPT ![request.id] = @ + a]
       PROVE  Numbered(inbox, AtHand, answers, spent.requests)'
  <2>1. AtHand = {request.id} /\ AtHand' = {}
    BY <1>13 DEF AtHand, HostDone, Working
  <2>2. Numbered(inbox, {request.id}, answers, n)
    BY <1>0, <2>1
  <2>3. Numbered(inbox, {}, [answers EXCEPT ![request.id] = @ + a], n)
    BY <2>2, NumberedAnswer, ZenonT(60)
  <2> QED
    BY <1>13, <1>a, <2>1, <2>3
<1>14. CASE HostConnects \/ HostSends
  <2>1. host \in Working /\ UNCHANGED <<inbox, spent>>
    BY <1>14 DEF HostConnects, HostSends, Working
  <2>2. CASE UNCHANGED <<request, answers>> /\ host' \in Working
    <3>1. AtHand' = AtHand
      BY <2>1, <2>2 DEF AtHand
    <3> QED
      BY <1>0, <1>a, <2>1, <2>2, <3>1
  <2>3. CASE HostDone /\ Answer(request.id)
    BY <1>13, <2>1, <2>3 DEF Answer, Answers
  <2>4. \/ UNCHANGED <<request, answers>> /\ host' \in {"sending", "polling"}
        \/ HostDone /\ Answer(request.id)
    BY <1>14, ZenonT(60) DEF HostConnects, HostSends
  <2> QED
    BY <2>2, <2>3, <2>4 DEF Working
<1>15. CASE PollClosed
  BY <1>13, <1>15 DEF PollClosed, Answer, Answers, Working
<1>16. CASE PollTimeout
  <2>1. HostDone /\ host \in Working /\ UNCHANGED <<inbox, spent, answers>>
    BY <1>16 DEF PollTimeout, Working
  <2>2. AtHand' = {}
    BY <2>1 DEF AtHand, HostDone, Working
  <2> QED
    BY <1>0, <1>a, <2>1, <2>2, NumberedEmpty
<1>17. CASE PollData
  <2>1. HostDone /\ host = "polling" /\ UNCHANGED <<inbox, spent>>
    BY <1>17 DEF PollData
  <2>2. PICK m \in 0..Len(conn.tx) :
          answers' = [answers EXCEPT ![request.id] =
                        @ + Cardinality({i \in 1..m : SubSeq(conn.tx, 1, m)[i].kind = "response"})]
    BY <1>17, ZenonT(60) DEF PollData, Answers
  <2> DEFINE found == {i \in 1..m : SubSeq(conn.tx, 1, m)[i].kind = "response"}
  <2>3. conn.tx \in Seq(FrameOf(request.id))
    BY DEF BridgeInv, HostInv, ConnOf
  <2>4. \A i \in 1..m : i \in DOMAIN conn.tx /\ SubSeq(conn.tx, 1, m)[i] = conn.tx[i]
    BY <2>3
  <2>5. \A i, j \in found : i = j
    BY <2>4 DEF AnswerInv, OneResponse
  <2>6. found = {} \/ \E i \in found : found = {i}
    BY <2>5, ZenonT(60)
  <2>7. Cardinality(found) \in {0, 1}
    <3>1. \A x : Cardinality({x}) = 1
      BY FS_Singleton, ZenonT(60)
    <3>2. Cardinality({}) = 0
      BY FS_EmptySet, ZenonT(60)
    <3> HIDE DEF found
    <3> QED
      BY <2>6, <3>1, <3>2, ZenonT(60)
  <2> QED
    BY <1>13, <2>1, <2>2, <2>7, ZenonT(60) DEF Working
<1> QED
  BY <1>3, <1>4, <1>5, <1>6, <1>7, <1>8, <1>10, <1>11, <1>12, <1>14, <1>15, <1>16, <1>17, ZenonT(60)
     DEF Next, Page, HostStep, Poll, External

(* A connection carries one request. *)
LEMMA TailOfOne == ASSUME NEW S, NEW s \in Seq(S), Len(s) = 1 PROVE Tail(s) = <<>>
<1>1. s # <<>>
  OBVIOUS
<1>2. Tail(s) \in Seq(S) /\ Len(Tail(s)) = 0
  BY <1>1
<1>3. \A t \in Seq(S) : Len(t) = 0 => t = <<>>
  OBVIOUS
<1> QED
  BY <1>2, <1>3, ZenonT(60)

(* The daemon answers a request once, and the connection ends with it. *)
LEMMA OneResponseStep ==
  ASSUME BridgeInv, AnswerInv, [Next]_vars
  PROVE  OneResponse'
<1> USE DEF pageVars, storeVars, portVars, hostVars, daemonVars
<1> DEFINE id == request.id
<1>0. /\ OneResponse /\ conn \in ConnOf(id) /\ conn.rx \in Seq(RequestOf(id))
      /\ conn.tx \in Seq(FrameOf(id))
      /\ host \notin {"sending", "polling"} => conn = Closed
      /\ ~connected => host = "down"
  BY DEF BridgeInv, HostInv, PageInv, AnswerInv, ConnOf
<1>a. ASSUME UNCHANGED <<conn.rx, conn.tx>>, host' = "polling" <=> host = "polling"
      PROVE  OneResponse'
  BY <1>0, <1>a DEF OneResponse
<1>b. ASSUME conn' = Closed PROVE OneResponse'
  BY <1>b DEF OneResponse, Closed
<1> HIDE DEF id
<1>1. CASE Startup \/ TimerFires \/ RouteConnect
  <2>1. conn' = conn /\ (host' = host \/ (~connected /\ host' = "reading"))
    BY <1>1, ZenonT(60) DEF Startup, TimerFires, RouteConnect, ConnectSucceeds, ConnectFails
  <2> QED
    BY <1>0, <1>a, <2>1
<1>2. CASE HandleDisconnect \/ HandleMessage \/ LoadDone \/ StoreDone \/ Clear \/ DaemonStarts
           \/ (\E m \in Others : Post(m)) \/ UNCHANGED vars
  <2>1. conn' = conn /\ host' = host
    BY <1>2, ZenonT(60) DEF HandleDisconnect, HandleMessage, LoadDone, StoreDone, Clear,
       DaemonStarts, Post, vars
  <2> QED
    BY <1>a, <2>1
<1>3. CASE HostExits \/ HostRefuses \/ HostAccepts
  <2>1. conn' = conn /\ host = "reading" /\ (host' = host \/ host' = "down" \/ host' = "connecting")
    BY <1>3, ZenonT(60) DEF HostExits, HostRefuses, HostAccepts
  <2> QED
    BY <1>a, <2>1
<1>4. CASE HostKilled \/ PollData \/ PollClosed \/ PollTimeout
  <2>1. conn' = Closed
    BY <1>4, ZenonT(60) DEF HostKilled, PollData, PollClosed, PollTimeout, HostDone
  <2> QED
    BY <1>b, <2>1
<1>5. CASE HostConnects
  <2>1. \/ conn' = Closed
        \/ /\ host = "connecting" /\ host' = "sending"
           /\ conn' = IF conn.open THEN conn ELSE [Closed EXCEPT !.open = TRUE, !.peer = TRUE]
    BY <1>5, ZenonT(60) DEF HostConnects, HostDone
  <2>2. ASSUME host = "connecting", host' = "sending",
               conn' = IF conn.open THEN conn ELSE [Closed EXCEPT !.open = TRUE, !.peer = TRUE]
        PROVE  OneResponse'
    <3>1. conn = Closed
      BY <1>0, <2>2
    <3>2. conn'.rx = <<>> /\ conn'.tx = <<>>
      BY <2>2, <3>1 DEF Closed
    <3> QED
      BY <3>2 DEF OneResponse
  <2> QED
    BY <1>b, <2>1, <2>2
<1>6. CASE HostSends
  <2>1. \/ conn' = Closed
        \/ /\ host = "sending" /\ host' = "polling"
           /\ conn' = [conn EXCEPT !.rx = Append(@, request)]
    BY <1>6, ZenonT(60) DEF HostSends, HostDone
  <2>2. ASSUME host = "sending", host' = "polling", conn' = [conn EXCEPT !.rx = Append(@, request)]
        PROVE  OneResponse'
    <3>1. conn.rx = <<>> /\ \A i \in DOMAIN conn.tx : conn.tx[i].kind = "event"
      BY <1>0, <2>2 DEF OneResponse
    <3>2. conn'.rx = <<request>> /\ conn'.tx = conn.tx
      BY <1>0, <2>2, <3>1 DEF ConnOf
    <3> QED
      BY <2>2, <3>1, <3>2 DEF OneResponse
  <2> QED
    BY <1>b, <2>1, <2>2
<1>7. CASE DaemonHandles \/ DaemonStops
  <2>1. /\ conn' = [conn EXCEPT !.subscribed = TRUE] \/ conn' = [conn EXCEPT !.peer = FALSE]
        /\ host' = host
    BY <1>7, ZenonT(60) DEF DaemonHandles, DaemonStops
  <2>2. conn'.rx = conn.rx /\ conn'.tx = conn.tx
    BY <1>0, <2>1 DEF ConnOf
  <2> QED
    BY <1>a, <2>1, <2>2
<1>8. CASE DaemonAnswers
  <2> DEFINE answer == [kind |-> "response", op |-> Head(conn.rx).op, for |-> Head(conn.rx).id]
  <2>1. conn.rx # <<>> /\ host' = host
    BY <1>8, ZenonT(60) DEF DaemonAnswers
  <2>b. conn' = [conn EXCEPT !.rx = Tail(conn.rx), !.tx = Append(conn.tx, answer)]
    BY <1>8, ZenonT(60) DEF DaemonAnswers
  <2>2. answer.kind = "response"
    OBVIOUS
  <2> HIDE DEF answer
  <2>3. /\ Len(conn.rx) = 1 /\ host = "polling"
        /\ \A i \in DOMAIN conn.tx : conn.tx[i].kind = "event"
    <3>1. Len(conn.rx) \in Nat \ {0}
      BY <1>0, <2>1
    <3>2. /\ host = "polling" /\ Len(conn.rx) <= 1
          /\ \A i \in DOMAIN conn.tx : conn.tx[i].kind = "event"
      BY <1>0, <2>1, ZenonT(60) DEF OneResponse
    <3>3. \A n \in Nat \ {0} : n <= 1 => n = 1
      OBVIOUS
    <3> QED
      BY <3>1, <3>2, <3>3, ZenonT(60)
  <2>a. conn'.rx = Tail(conn.rx) /\ conn'.tx = Append(conn.tx, answer)
    BY <1>0, <2>b, ZenonT(60) DEF ConnOf
  <2>4. conn'.rx = <<>> /\ conn'.tx = Append(conn.tx, answer)
    BY <1>0, <2>a, <2>3, TailOfOne
  <2>5. \A i \in DOMAIN conn'.tx : i = Len(conn.tx) + 1 \/ conn'.tx[i].kind = "event"
    BY <1>0, <2>3, <2>4
  <2> QED
    BY <2>1, <2>3, <2>4, <2>5 DEF OneResponse
<1>9. CASE DaemonPublishes
  <2> DEFINE new == [kind |-> "event", event |-> published + 1]
  <2>1. host' = host /\ (conn' = conn \/ conn' = [conn EXCEPT !.tx = Append(conn.tx, new)])
    BY <1>9 DEF DaemonPublishes
  <2>2. new.kind = "event"
    OBVIOUS
  <2> HIDE DEF new
  <2>3. ASSUME conn' = [conn EXCEPT !.tx = Append(conn.tx, new)] PROVE OneResponse'
    <3>1. conn'.rx = conn.rx /\ conn'.tx = Append(conn.tx, new)
      BY <1>0, <2>3 DEF ConnOf
    <3>2. \A i \in DOMAIN conn'.tx : \/ conn'.tx[i].kind = "event"
                                     \/ i \in DOMAIN conn.tx /\ conn'.tx[i] = conn.tx[i]
      BY <1>0, <2>2, <3>1
    <3> QED
      BY <1>0, <2>1, <3>1, <3>2 DEF OneResponse
  <2> QED
    BY <1>a, <2>1, <2>3
<1> QED
  BY <1>1, <1>2, <1>3, <1>4, <1>5, <1>6, <1>7, <1>8, <1>9, ZenonT(60)
     DEF Next, Page, HostStep, Poll, External
-----------------------------------------------------------------------------
(* Less-than on the natural numbers is well founded. *)
LessThan == {pair \in Nat \X Nat : pair[1] < pair[2]}

(* There is no endless descent among the numbers. *)
LEMMA LessWellFounded == IsWellFoundedOn(LessThan, Nat)
  BY NatLessThanWellFounded, ZenonT(60) DEF OpToRel, LessThan

(* A non-empty set of numbers, such as the appends that wait for their     *)
(* load, has a least element.                                              *)
LEMMA LeastNumber ==
  ASSUME NEW T, T \subseteq Nat, T # {}
  PROVE  \E x \in T : \A y \in T : x <= y
<1>1. \E x \in T : \A y \in T : ~(<<y, x>> \in LessThan)
  BY LessWellFounded, WFMin, ZenonT(60)
<1>2. \A x, y \in Nat : ~(<<y, x>> \in LessThan) => x <= y
  BY DEF LessThan
<1>3. \A x, y \in T : ~(<<y, x>> \in LessThan) => x <= y
  BY <1>2, ZenonT(60)
<1> QED
  BY <1>1, <1>3, ZenonT(60)

(* A list as storage.ts keeps it: within the cap and oldest first. *)
Kept(list) ==
  /\ list \in Seq(Nat) /\ Len(list) <= MaxStored
  /\ \A i, j \in DOMAIN list : i < j => list[i] < list[j]

AtMost(list, e) == \A i \in DOMAIN list : list[i] <= e

Appends == [event : Nat, loaded : BOOLEAN, list : Seq(Nat)]

(* The events of a pipe, oldest first; all newer than b; none newer than b. *)
Dated(pipe)    == {i \in DOMAIN pipe : pipe[i].kind = "event"}
Rising(pipe)   == /\ \A i \in Dated(pipe) : pipe[i].event \in Nat
                  /\ \A i, j \in Dated(pipe) : i < j => pipe[i].event < pipe[j].event
Newer(pipe, b) == \A i \in Dated(pipe) : b < pipe[i].event
Known(pipe, b) == \A i \in Dated(pipe) : pipe[i].event <= b

(* On its way from the daemon to storage an event passes the connection,   *)
(* the port and a pending append, and overtakes none at any of them.       *)
InOrder(list, pending, port, wire, last) ==
  /\ last \in Nat /\ Kept(list) /\ pending \in Seq(Appends)
  /\ \A i \in DOMAIN pending :
       /\ pending[i].loaded = TRUE => Kept(pending[i].list) /\ AtMost(pending[i].list, pending[i].event)
       /\ pending[i].loaded = FALSE => \A k \in DOMAIN list : list[k] < pending[i].event
       /\ \A j \in DOMAIN pending : i < j => pending[i].event < pending[j].event
       /\ Newer(port, pending[i].event) /\ Newer(wire, pending[i].event)
       /\ pending[i].event <= last
  /\ \A k \in DOMAIN list : Newer(port, list[k]) /\ Newer(wire, list[k]) /\ list[k] <= last
  /\ Rising(port) /\ Rising(wire)
  /\ \A i \in Dated(port) : Newer(wire, port[i].event)
  /\ Known(port, last) /\ Known(wire, last)

(* What cannot overtake: nothing on the wire. *)
LEMMA OrderDropped ==
  ASSUME NEW list, NEW pending, NEW port, NEW wire, NEW last,
         InOrder(list, pending, port, wire, last)
  PROVE  /\ InOrder(list, pending, port, <<>>, last)
         /\ InOrder(<<>>, pending, port, wire, last)
<1>1. Dated(<<>>) = {}
  BY DEF Dated
<1>2. InOrder(list, pending, port, <<>>, last)
  BY <1>1, ZenonT(60) DEF InOrder, Newer, Rising, Known
<1>3. Kept(<<>>) /\ DOMAIN <<>> = {}
  BY BridgeAssumption DEF Kept, BridgeAssumption
<1>4. InOrder(<<>>, pending, port, wire, last)
  BY <1>3, ZenonT(60) DEF InOrder
<1> QED
  BY <1>2, <1>4

(* A message goes behind those that a pipe holds. *)
LEMMA DatedAppend ==
  ASSUME NEW S, NEW pipe \in Seq(S), NEW m
  PROVE  /\ \A i \in Dated(pipe) : Append(pipe, m)[i] = pipe[i]
         /\ Append(pipe, m)[Len(pipe) + 1] = m
         /\ \A i \in Dated(pipe) : i < Len(pipe) + 1 /\ i \in Nat
         /\ Len(pipe) \in Nat
  BY DEF Dated

(* Neither an error nor a response is an event. *)
LEMMA DatedKinds ==
  ASSUME NEW S, NEW pipe \in Seq(S), NEW m
  PROVE  Dated(Append(pipe, m)) =
           IF m.kind = "event" THEN Dated(pipe) \cup {Len(pipe) + 1} ELSE Dated(pipe)
<1>1. /\ DOMAIN Append(pipe, m) = 1..Len(pipe) + 1 /\ Len(pipe) \in Nat
      /\ \A i \in DOMAIN pipe : Append(pipe, m)[i] = pipe[i]
      /\ Append(pipe, m)[Len(pipe) + 1] = m
      /\ DOMAIN pipe = 1..Len(pipe)
  OBVIOUS
<1> DEFINE longer == Append(pipe, m)
<1> HIDE DEF longer
<1> QED
  BY <1>1 DEF Dated, longer

(* Two pipes that hold the same events are in the same order with the rest. *)
LEMMA SameDates ==
  ASSUME NEW p, NEW q, Dated(p) = Dated(q), \A i \in Dated(p) : p[i].event = q[i].event
  PROVE  /\ Rising(p) => Rising(q)
         /\ \A b : (Newer(p, b) => Newer(q, b)) /\ (Known(p, b) => Known(q, b))
<1>1. Rising(p) => Rising(q)
  BY DEF Rising
<1>2. \A b : (Newer(p, b) => Newer(q, b)) /\ (Known(p, b) => Known(q, b))
  BY ZenonT(60) DEF Newer, Known
<1> QED
  BY <1>1, <1>2

(* A pipe may change where it carries no events. *)
LEMMA OrderSame ==
  ASSUME NEW list, NEW pending, NEW port, NEW wire, NEW last,
         InOrder(list, pending, port, wire, last),
         NEW p, Dated(p) = Dated(port), \A i \in Dated(p) : p[i].event = port[i].event,
         NEW w, Dated(w) = Dated(wire), \A i \in Dated(w) : w[i].event = wire[i].event
  PROVE  InOrder(list, pending, p, w, last)
<1>1. Rising(p) /\ \A b : (Newer(port, b) => Newer(p, b)) /\ (Known(port, b) => Known(p, b))
  BY SameDates, ZenonT(60) DEF InOrder
<1>2. Rising(w) /\ \A b : (Newer(wire, b) => Newer(w, b)) /\ (Known(wire, b) => Known(w, b))
  BY SameDates, ZenonT(60) DEF InOrder
<1> QED
  BY <1>1, <1>2 DEF InOrder

(* A message that is no event changes no order. *)
LEMMA OrderPlain ==
  ASSUME NEW list, NEW pending, NEW port, NEW wire, NEW last,
         InOrder(list, pending, port, wire, last), NEW S, NEW m, m.kind # "event"
  PROVE  /\ port \in Seq(S) => InOrder(list, pending, Append(port, m), wire, last)
         /\ wire \in Seq(S) => InOrder(list, pending, port, Append(wire, m), last)
<1>1. ASSUME NEW pipe \in Seq(S)
      PROVE  /\ Dated(Append(pipe, m)) = Dated(pipe)
             /\ \A i \in Dated(Append(pipe, m)) : Append(pipe, m)[i].event = pipe[i].event
  <2>1. Dated(Append(pipe, m)) = Dated(pipe)
    BY DatedKinds, ZenonT(60)
  <2>2. \A i \in Dated(pipe) : Append(pipe, m)[i] = pipe[i]
    BY DatedAppend, ZenonT(60)
  <2> QED
    BY <2>1, <2>2, ZenonT(60)
<1> QED
  BY <1>1, OrderSame, ZenonT(60)

(* A new event is newer than all before it. *)
LEMMA OrderPublish ==
  ASSUME NEW list, NEW pending, NEW port, NEW S, NEW wire \in Seq(S), NEW last,
         InOrder(list, pending, port, wire, last)
  PROVE  /\ InOrder(list, pending, port, wire, last + 1)
         /\ InOrder(list, pending, port, Append(wire, [kind |-> "event", event |-> last + 1]), last + 1)
<1>1. /\ last \in Nat /\ last + 1 \in Nat /\ pending \in Seq(Appends) /\ Kept(list)
      /\ \A i \in DOMAIN list : list[i] \in Nat
      /\ \A i \in DOMAIN pending : pending[i].event \in Nat
      /\ \A i \in Dated(port) : port[i].event \in Nat
      /\ \A i \in Dated(wire) : wire[i].event \in Nat
  <2>1. /\ last \in Nat /\ pending \in Seq(Appends) /\ Kept(list) /\ Rising(port) /\ Rising(wire)
    BY DEF InOrder
  <2>2. \A i \in DOMAIN list : list[i] \in Nat
    BY <2>1 DEF Kept
  <2>3. \A i \in DOMAIN pending : pending[i].event \in Nat
    <3>1. \A i \in DOMAIN pending : pending[i] \in Appends
      BY <2>1
    <3> QED
      BY <3>1 DEF Appends
  <2> QED
    BY <2>1, <2>2, <2>3 DEF Rising
<1>2. \A i \in DOMAIN list : list[i] < last + 1
  BY <1>1 DEF InOrder
<1>3. \A i \in DOMAIN pending : pending[i].event < last + 1
  BY <1>1 DEF InOrder
<1>4. Known(port, last + 1) /\ \A i \in Dated(port) : port[i].event < last + 1
  BY <1>1 DEF InOrder, Known
<1>5. Known(wire, last + 1) /\ \A i \in Dated(wire) : wire[i].event < last + 1
  BY <1>1 DEF InOrder, Known
<1>6. InOrder(list, pending, port, wire, last + 1)
  BY <1>1, <1>2, <1>3, <1>4, <1>5 DEF InOrder
<1> DEFINE m == [kind |-> "event", event |-> last + 1]
           w == Append(wire, m)
<1>7. m.kind = "event" /\ m.event = last + 1
  OBVIOUS
<1> HIDE DEF m
<1>8. /\ Dated(w) = Dated(wire) \cup {Len(wire) + 1}
      /\ \A i \in Dated(wire) : w[i] = wire[i] /\ i < Len(wire) + 1 /\ i \in Nat
      /\ w[Len(wire) + 1] = m /\ Len(wire) \in Nat
  <2>1. Dated(w) = Dated(wire) \cup {Len(wire) + 1}
    BY <1>7, DatedKinds, ZenonT(60)
  <2>2. \A i \in Dated(wire) : w[i] = wire[i]
    BY DatedAppend, ZenonT(60)
  <2>3. \A i \in Dated(wire) : i < Len(wire) + 1 /\ i \in Nat
    BY DatedAppend, ZenonT(60)
  <2>4. w[Len(wire) + 1] = m /\ Len(wire) \in Nat
    BY DatedAppend, ZenonT(60)
  <2> QED
    BY <2>1, <2>2, <2>3, <2>4, ZenonT(60)
<1> HIDE DEF w
<1>9. Rising(w)
  <2>1. Rising(wire)
    BY DEF InOrder
  <2> QED
    BY <1>1, <1>5, <1>7, <1>8, <2>1 DEF Rising
<1>10. Known(w, last + 1)
  BY <1>1, <1>5, <1>7, <1>8 DEF Known
<1>11. ASSUME NEW b, Newer(wire, b), b < last + 1 PROVE Newer(w, b)
  BY <1>7, <1>8, <1>11, ZenonT(60) DEF Newer
<1>12. InOrder(list, pending, port, w, last + 1)
  <2>1. \A k \in DOMAIN list : Newer(w, list[k])
    BY <1>2, <1>11, ZenonT(60) DEF InOrder
  <2>2. \A i \in DOMAIN pending : Newer(w, pending[i].event)
    BY <1>3, <1>11, ZenonT(60) DEF InOrder
  <2>3. \A i \in Dated(port) : Newer(w, port[i].event)
    BY <1>4, <1>11, ZenonT(60) DEF InOrder
  <2> QED
    BY <1>6, <1>9, <1>10, <2>1, <2>2, <2>3, ZenonT(60) DEF InOrder
<1> QED
  BY <1>6, <1>12 DEF w, m

(* The events of two pipes one behind the other. *)
LEMMA DatedConcat ==
  ASSUME NEW S, NEW p \in Seq(S), NEW q \in Seq(S)
  PROVE  /\ \A i \in Dated(p \o q) :
              \/ i \in Dated(p) /\ (p \o q)[i] = p[i]
              \/ i - Len(p) \in Dated(q) /\ (p \o q)[i] = q[i - Len(p)] /\ i > Len(p) /\ i \in Nat
         /\ \A i \in Dated(p) : i \in Nat /\ i <= Len(p)
         /\ Len(p) \in Nat
<1>1. /\ DOMAIN (p \o q) = 1..Len(p) + Len(q) /\ Len(p) \in Nat /\ Len(q) \in Nat
      /\ DOMAIN p = 1..Len(p) /\ DOMAIN q = 1..Len(q)
      /\ \A i \in 1..Len(p) + Len(q) : (p \o q)[i] = IF i <= Len(p) THEN p[i] ELSE q[i - Len(p)]
  OBVIOUS
<1> DEFINE r == p \o q
<1> HIDE DEF r
<1>2. ASSUME NEW i \in Dated(r)
      PROVE  \/ i \in Dated(p) /\ r[i] = p[i]
             \/ i - Len(p) \in Dated(q) /\ r[i] = q[i - Len(p)] /\ i > Len(p) /\ i \in Nat
  <2>1. i \in 1..Len(p) + Len(q) /\ r[i].kind = "event"
    BY <1>1, <1>2 DEF Dated, r
  <2>2. CASE i <= Len(p)
    <3>1. i \in DOMAIN p /\ r[i] = p[i]
      BY <1>1, <2>1, <2>2 DEF r
    <3> QED
      BY <2>1, <3>1 DEF Dated
  <2>3. CASE i > Len(p)
    <3>1. i - Len(p) \in DOMAIN q /\ r[i] = q[i - Len(p)] /\ i \in Nat
      BY <1>1, <2>1, <2>3 DEF r
    <3> QED
      BY <2>1, <2>3, <3>1 DEF Dated
  <2> QED
    BY <1>1, <2>1, <2>2, <2>3
<1>3. \A i \in Dated(p) : i \in Nat /\ i <= Len(p)
  BY <1>1 DEF Dated
<1> QED
  BY <1>1, <1>2, <1>3, ZenonT(60) DEF r

(* What is relayed was on the wire, in this order. *)
LEMMA OrderRelay ==
  ASSUME NEW list, NEW pending, NEW S, NEW port \in Seq(S), NEW wire, NEW last,
         InOrder(list, pending, port, wire, last),
         NEW batch \in Seq(S), Dated(batch) \subseteq Dated(wire),
         \A i \in Dated(batch) : batch[i].event = wire[i].event
  PROVE  InOrder(list, pending, port \o batch, <<>>, last)
<1> DEFINE r == port \o batch
<1>1. \A i \in Dated(r) :
         \/ i \in Dated(port) /\ r[i] = port[i]
         \/ i - Len(port) \in Dated(batch) /\ r[i] = batch[i - Len(port)] /\ i > Len(port) /\ i \in Nat
  BY DatedConcat, ZenonT(60)
<1>2. Len(port) \in Nat /\ \A i \in Dated(port) : i \in Nat /\ i <= Len(port)
  BY DatedConcat, ZenonT(60)
<1> HIDE DEF r
<1>3. /\ Rising(port) /\ Rising(wire) /\ Known(port, last) /\ Known(wire, last)
      /\ \A i \in Dated(port) : Newer(wire, port[i].event)
  BY DEF InOrder
<1>4. \A i \in Dated(batch) : i \in Dated(wire) /\ batch[i].event = wire[i].event
  OBVIOUS
<1>5. Rising(r)
  <2>1. \A i \in Dated(r) : r[i].event \in Nat
    BY <1>1, <1>3, <1>4 DEF Rising
  <2>2. ASSUME NEW i \in Dated(r), NEW j \in Dated(r), i < j PROVE r[i].event < r[j].event
    <3>1. CASE i \in Dated(port) /\ r[i] = port[i]
      BY <1>1, <1>2, <1>3, <1>4, <2>2, <3>1 DEF Rising, Newer
    <3>2. CASE i - Len(port) \in Dated(batch) /\ r[i] = batch[i - Len(port)] /\ i > Len(port) /\ i \in Nat
      BY <1>1, <1>2, <1>3, <1>4, <2>2, <3>2 DEF Rising
    <3> QED
      BY <1>1, <3>1, <3>2
  <2> QED
    BY <2>1, <2>2 DEF Rising
<1>6. Known(r, last)
  BY <1>1, <1>3, <1>4, ZenonT(60) DEF Known
<1>7. ASSUME NEW b, Newer(port, b), Newer(wire, b) PROVE Newer(r, b)
  BY <1>1, <1>4, <1>7, ZenonT(60) DEF Newer
<1>8. Dated(<<>>) = {}
  BY DEF Dated
<1>9. Rising(<<>>) /\ Known(<<>>, last) /\ \A b : Newer(<<>>, b)
  BY <1>8 DEF Rising, Known, Newer
<1>10. InOrder(list, pending, r, <<>>, last)
  BY <1>5, <1>6, <1>7, <1>9 DEF InOrder
<1> QED
  BY <1>10 DEF r

(* The page takes the oldest message of the port. *)
LEMMA DatedTail ==
  ASSUME NEW S, NEW p \in Seq(S), p # <<>>
  PROVE  /\ \A i \in Dated(Tail(p)) : i + 1 \in Dated(p) /\ Tail(p)[i] = p[i + 1] /\ i \in Nat \ {0}
         /\ Head(p).kind = "event" => 1 \in Dated(p) /\ Head(p) = p[1]
<1>1. /\ \A i \in DOMAIN Tail(p) : i + 1 \in DOMAIN p /\ Tail(p)[i] = p[i + 1] /\ i \in Nat \ {0}
      /\ Head(p) = p[1] /\ 1 \in DOMAIN p
  OBVIOUS
<1> DEFINE q == Tail(p)
<1> HIDE DEF q
<1> QED
  BY <1>1 DEF Dated, q

(* The page takes the first message from its port; an event waits to be     *)
(* appended behind those that wait already.                                 *)
LEMMA OrderReceive ==
  ASSUME NEW list, NEW pending, NEW S, NEW port \in Seq(S), port # <<>>, NEW wire, NEW last,
         InOrder(list, pending, port, wire, last)
  PROVE  /\ InOrder(list, pending, Tail(port), wire, last)
         /\ Head(port).kind = "event" =>
              InOrder(list, Append(pending, [event |-> Head(port).event, loaded |-> FALSE, list |-> <<>>]),
                      Tail(port), wire, last)
<1> DEFINE q == Tail(port)
           e == Head(port).event
<1>1. \A i \in Dated(q) : i + 1 \in Dated(port) /\ q[i] = port[i + 1] /\ i \in Nat \ {0}
  BY DatedTail, ZenonT(60)
<1>2. Head(port).kind = "event" => 1 \in Dated(port) /\ e = port[1].event
  BY DatedTail, ZenonT(60)
<1> HIDE DEF q, e
<1>3. Rising(port) /\ Rising(q)
  BY <1>1 DEF InOrder, Rising
<1>4. \A b : (Newer(port, b) => Newer(q, b)) /\ (Known(port, b) => Known(q, b))
  BY <1>1, ZenonT(60) DEF Newer, Known
<1>5. \A i \in Dated(q) : Newer(wire, q[i].event)
  BY <1>1, ZenonT(60) DEF InOrder
<1>6. InOrder(list, pending, q, wire, last)
  BY <1>3, <1>4, <1>5 DEF InOrder
<1>7. ASSUME Head(port).kind = "event"
      PROVE  InOrder(list, Append(pending, [event |-> e, loaded |-> FALSE, list |-> <<>>]), q, wire, last)
  <2> DEFINE new == [event |-> e, loaded |-> FALSE, list |-> <<>>]
             more == Append(pending, new)
  <2>1. 1 \in Dated(port) /\ e = port[1].event /\ e \in Nat /\ e <= last
    BY <1>2, <1>3, <1>7 DEF InOrder, Rising, Known
  <2>2. new \in Appends /\ new.event = e /\ new.loaded = FALSE
    BY <2>1 DEF Appends
  <2> HIDE DEF new
  <2>3. pending \in Seq(Appends)
    BY DEF InOrder
  <2>4. /\ more \in Seq(Appends) /\ DOMAIN more = 1..Len(pending) + 1 /\ Len(pending) \in Nat
        /\ more[Len(pending) + 1] = new
        /\ \A i \in DOMAIN pending : more[i] = pending[i]
        /\ DOMAIN pending = 1..Len(pending)
    BY <2>2, <2>3
  <2> HIDE DEF more
  <2>5. Newer(q, e) /\ Newer(wire, e)
    <3>1. Newer(wire, e)
      BY <2>1 DEF InOrder
    <3>2. Newer(q, e)
      BY <1>1, <1>3, <2>1 DEF Rising, Newer
    <3> QED
      BY <3>1, <3>2
  <2>6. \A k \in DOMAIN list : list[k] < e
    BY <2>1 DEF InOrder, Newer
  <2>7. \A i \in DOMAIN pending : pending[i].event < e
    BY <2>1 DEF InOrder, Newer
  <2>8. ASSUME NEW i \in DOMAIN more
        PROVE  /\ more[i].loaded = TRUE => Kept(more[i].list) /\ AtMost(more[i].list, more[i].event)
               /\ more[i].loaded = FALSE => \A k \in DOMAIN list : list[k] < more[i].event
               /\ \A j \in DOMAIN more : i < j => more[i].event < more[j].event
               /\ Newer(q, more[i].event) /\ Newer(wire, more[i].event)
               /\ more[i].event <= last
    <3>1. CASE i = Len(pending) + 1
      <4>1. more[i] = new /\ \A j \in DOMAIN more : ~(i < j)
        BY <2>4, <3>1
      <4> QED
        BY <2>1, <2>2, <2>5, <2>6, <4>1
    <3>2. CASE i \in DOMAIN pending
      <4>1. more[i] = pending[i]
        BY <2>4, <3>2
      <4>2. /\ pending[i].loaded = TRUE => Kept(pending[i].list) /\ AtMost(pending[i].list, pending[i].event)
            /\ pending[i].loaded = FALSE => \A k \in DOMAIN list : list[k] < pending[i].event
            /\ \A j \in DOMAIN pending : i < j => pending[i].event < pending[j].event
            /\ Newer(port, pending[i].event) /\ Newer(wire, pending[i].event)
            /\ pending[i].event <= last
        BY <3>2, ZenonT(60) DEF InOrder
      <4>3. \A j \in DOMAIN more : i < j => more[i].event < more[j].event
        BY <2>2, <2>4, <2>7, <3>2, <4>1, <4>2
      <4> QED
        BY <1>4, <4>1, <4>2, <4>3, ZenonT(60)
    <3>3. i = Len(pending) + 1 \/ i \in DOMAIN pending
      BY <2>4, <2>8
    <3> QED
      BY <3>1, <3>2, <3>3, ZenonT(60)
  <2>9. InOrder(list, more, q, wire, last)
    BY <1>6, <2>4, <2>8, ZenonT(60) DEF InOrder
  <2> QED
    BY <2>9 DEF more, new
<1> QED
  BY <1>6, <1>7 DEF q, e

(* The newest entries of a list in order are in order. *)
LEMMA NewestKept ==
  ASSUME NEW s \in Seq(Nat), \A i, j \in DOMAIN s : i < j => s[i] < s[j]
  PROVE  /\ Kept(Newest(s))
         /\ \A i \in DOMAIN Newest(s) : \E j \in DOMAIN s : Newest(s)[i] = s[j]
<1> DEFINE n == Len(s)
           from == IF n > MaxStored THEN n - MaxStored + 1 ELSE 1
           t == SubSeq(s, from, n)
<1>1. MaxStored \in Nat /\ MaxStored > 0
  BY BridgeAssumption DEF BridgeAssumption
<1>2. n \in Nat /\ from \in Nat /\ from >= 1 /\ n - from + 1 <= MaxStored /\ DOMAIN s = 1..n
  BY <1>1
<1>3. /\ t \in Seq(Nat) /\ Len(t) = IF from <= n THEN n - from + 1 ELSE 0
      /\ DOMAIN t = 1..Len(t) /\ \A i \in 1..Len(t) : t[i] = s[from + i - 1]
  BY <1>2
<1> HIDE DEF n, from, t
<1>4. \A i \in DOMAIN t : i \in Nat /\ from + i - 1 \in DOMAIN s /\ t[i] = s[from + i - 1]
  BY <1>2, <1>3
<1>5. Len(t) <= MaxStored
  BY <1>1, <1>2, <1>3
<1>6. \A i, j \in DOMAIN t : i < j => t[i] < t[j]
  BY <1>2, <1>4
<1>7. Newest(s) = t
  BY DEF Newest, t, from, n
<1> QED
  BY <1>3, <1>4, <1>5, <1>6, <1>7 DEF Kept

(* appendEvents extends a list by an event newer than all of it. *)
LEMMA ExtendedKept ==
  ASSUME NEW list, Kept(list), NEW e \in Nat, \A k \in DOMAIN list : list[k] < e
  PROVE  Kept(Extended(list, e)) /\ AtMost(Extended(list, e), e)
<1> DEFINE s == Append(list, e)
<1>1. /\ s \in Seq(Nat) /\ Len(list) \in Nat /\ DOMAIN s = 1..Len(list) + 1
      /\ DOMAIN list = 1..Len(list)
      /\ \A i \in DOMAIN list : s[i] = list[i] /\ list[i] \in Nat
      /\ s[Len(list) + 1] = e
  BY DEF Kept
<1> HIDE DEF s
<1>2. \A i, j \in DOMAIN s : i < j => s[i] < s[j]
  BY <1>1 DEF Kept
<1>3. \A i \in DOMAIN s : s[i] <= e
  BY <1>1
<1>4. Kept(Newest(s)) /\ \A i \in DOMAIN Newest(s) : \E j \in DOMAIN s : Newest(s)[i] = s[j]
  BY <1>1, <1>2, NewestKept
<1> QED
  BY <1>3, <1>4, ZenonT(60) DEF AtMost, Extended, s

(* Replacing one pending append leaves the others. *)
LEMMA ReplaceOne ==
  ASSUME NEW S, NEW s \in Seq(S), NEW i \in DOMAIN s, NEW e \in S
  PROVE  /\ [s EXCEPT ![i] = e] \in Seq(S) /\ DOMAIN [s EXCEPT ![i] = e] = DOMAIN s
         /\ [s EXCEPT ![i] = e][i] = e
         /\ \A j \in DOMAIN s : j # i => [s EXCEPT ![i] = e][j] = s[j]
  OBVIOUS

(* The store that a load finds holds only older events. *)
LEMMA OrderLoad ==
  ASSUME NEW list, NEW pending, NEW port, NEW wire, NEW last,
         InOrder(list, pending, port, wire, last), NEW i \in DOMAIN pending, pending[i].loaded = FALSE,
         NEW more, more = [pending EXCEPT ![i] = [event |-> @.event, loaded |-> TRUE,
                                                  list |-> Extended(list, @.event)]]
  PROVE  InOrder(list, more, port, wire, last)
<1> DEFINE e == pending[i].event
           new == [event |-> e, loaded |-> TRUE, list |-> Extended(list, e)]
<1>1. pending \in Seq(Appends) /\ Kept(list) /\ \A k \in DOMAIN list : list[k] < e
  BY DEF InOrder
<1>2. e \in Nat
  <2>1. pending[i] \in Appends
    BY <1>1
  <2> QED
    BY <2>1 DEF Appends
<1> HIDE DEF e
<1>3. Kept(Extended(list, e)) /\ AtMost(Extended(list, e), e)
  BY <1>1, <1>2, ExtendedKept, ZenonT(60)
<1>4. new \in Appends /\ new.event = e /\ new.loaded = TRUE /\ new.list = Extended(list, e)
  BY <1>2, <1>3 DEF Appends, Kept
<1>5. more = [pending EXCEPT ![i] = new]
  BY ZenonT(60) DEF e
<1> HIDE DEF new
<1>6. /\ more \in Seq(Appends) /\ DOMAIN more = DOMAIN pending /\ more[i] = new
      /\ \A j \in DOMAIN pending : j # i => more[j] = pending[j]
  <2>1. /\ [pending EXCEPT ![i] = new] \in Seq(Appends)
        /\ DOMAIN [pending EXCEPT ![i] = new] = DOMAIN pending
    BY <1>1, <1>4, ReplaceOne, ZenonT(60)
  <2>2. [pending EXCEPT ![i] = new][i] = new
    BY <1>1, <1>4, ReplaceOne, ZenonT(60)
  <2>3. \A j \in DOMAIN pending : j # i => [pending EXCEPT ![i] = new][j] = pending[j]
    BY <1>1, <1>4, ReplaceOne, ZenonT(60)
  <2> QED
    BY <1>5, <2>1, <2>2, <2>3, ZenonT(60)
<1>7. \A j \in DOMAIN pending : more[j].event = pending[j].event
  BY <1>4, <1>6 DEF e
<1>8. ASSUME NEW j \in DOMAIN more
      PROVE  /\ more[j].loaded = TRUE => Kept(more[j].list) /\ AtMost(more[j].list, more[j].event)
             /\ more[j].loaded = FALSE => \A k \in DOMAIN list : list[k] < more[j].event
  <2>1. CASE j = i
    BY <1>3, <1>4, <1>6, <2>1
  <2>2. CASE j # i
    <3>1. more[j] = pending[j] /\ j \in DOMAIN pending
      BY <1>6, <1>8, <2>2
    <3> QED
      BY <3>1, ZenonT(60) DEF InOrder
  <2> QED
    BY <2>1, <2>2, ZenonT(60)
<1>9. ASSUME NEW j \in DOMAIN more
      PROVE  /\ \A k \in DOMAIN more : j < k => more[j].event < more[k].event
             /\ Newer(port, more[j].event) /\ Newer(wire, more[j].event)
             /\ more[j].event <= last
  BY <1>6, <1>7, ZenonT(60) DEF InOrder
<1> QED
  BY <1>6, <1>8, <1>9, ZenonT(60) DEF InOrder

(* What is written back is older than everything that follows. *)
LEMMA OrderStore ==
  ASSUME NEW list, NEW pending, NEW port, NEW wire, NEW last,
         InOrder(list, pending, port, wire, last), pending # <<>>, Head(pending).loaded = TRUE
  PROVE  InOrder(Head(pending).list, Tail(pending), port, wire, last)
<1> DEFINE new == Head(pending).list
           e == Head(pending).event
           rest == Tail(pending)
<1>1. pending \in Seq(Appends)
  BY DEF InOrder
<1>2. /\ rest \in Seq(Appends) /\ Head(pending) = pending[1] /\ 1 \in DOMAIN pending
      /\ \A i \in DOMAIN rest : i + 1 \in DOMAIN pending /\ rest[i] = pending[i + 1] /\ i \in Nat \ {0}
  BY <1>1
<1> HIDE DEF rest
<1>3. e \in Nat
  <2>1. Head(pending) \in Appends
    BY <1>1
  <2> QED
    BY <2>1 DEF Appends
<1>4. /\ Kept(new) /\ AtMost(new, e) /\ Newer(port, e) /\ Newer(wire, e) /\ e <= last
      /\ \A j \in DOMAIN pending : 1 < j => e < pending[j].event
  BY <1>2, ZenonT(60) DEF InOrder
<1> HIDE DEF new, e
<1>5. \A k \in DOMAIN new : new[k] \in Nat /\ new[k] <= e
  BY <1>4 DEF Kept, AtMost
<1>6. \A i \in DOMAIN rest : rest[i].event \in Nat /\ e < rest[i].event
  <2>1. \A i \in DOMAIN rest : rest[i] \in Appends
    BY <1>2
  <2>2. \A i \in DOMAIN rest : 1 < i + 1
    BY <1>2
  <2> QED
    BY <1>2, <1>4, <2>1, <2>2 DEF Appends
<1>7. \A k \in DOMAIN new : \A i \in DOMAIN rest : new[k] < rest[i].event
  BY <1>3, <1>5, <1>6
<1>8. last \in Nat /\ Rising(port) /\ Rising(wire)
  BY DEF InOrder
<1>9. \A k \in DOMAIN new : Newer(port, new[k]) /\ Newer(wire, new[k]) /\ new[k] <= last
  BY <1>3, <1>4, <1>5, <1>8 DEF Newer, Rising
<1>10. ASSUME NEW i \in DOMAIN rest
       PROVE  /\ rest[i].loaded = TRUE => Kept(rest[i].list) /\ AtMost(rest[i].list, rest[i].event)
              /\ \A j \in DOMAIN rest : i < j => rest[i].event < rest[j].event
              /\ Newer(port, rest[i].event) /\ Newer(wire, rest[i].event)
              /\ rest[i].event <= last
  <2>1. \A j \in DOMAIN rest : i < j => i + 1 < j + 1
    BY <1>2
  <2> QED
    BY <1>2, <2>1, ZenonT(60) DEF InOrder
<1> QED
  <2>1. InOrder(new, rest, port, wire, last)
    BY <1>2, <1>4, <1>7, <1>9, <1>10, ZenonT(60) DEF InOrder
  <2> QED
    BY <2>1 DEF new, rest

OrderInv == InOrder(stored, appends, outbox, conn.tx, published)

(* Every step keeps the events in order. *)
LEMMA OrderStep ==
  ASSUME BridgeInv, OrderInv, [Next]_vars
  PROVE  OrderInv'
<1> USE DEF pageVars, storeVars, portVars, hostVars, daemonVars
<1> DEFINE id == request.id
<1>0. /\ InOrder(stored, appends, outbox, conn.tx, published) /\ outbox \in Seq(Matched)
      /\ conn \in ConnOf(id) /\ conn.tx \in Seq(FrameOf(id)) /\ published \in Nat
      /\ host \notin {"sending", "polling"} => conn = Closed
  BY DEF BridgeInv, HostInv, OrderInv, ConnOf
<1> HIDE DEF id
<1>a. ASSUME InOrder(stored', appends', outbox', conn'.tx, published') PROVE OrderInv'
  BY <1>a, ZenonT(60) DEF OrderInv, InOrder
<1>b. ASSUME UNCHANGED <<stored, appends, outbox, published>>, conn'.tx = conn.tx
      PROVE  OrderInv'
  BY <1>0, <1>a, <1>b, ZenonT(60)
<1>c. ASSUME UNCHANGED <<stored, appends, outbox, published>>, conn'.tx = <<>>
      PROVE  OrderInv'
  BY <1>0, <1>a, <1>c, OrderDropped, ZenonT(60)
<1>d. \A n : [kind |-> "error", id |-> n].kind # "event"
  OBVIOUS
<1>e. Closed.tx = <<>>
  BY DEF Closed
<1>1. CASE Startup \/ TimerFires \/ RouteConnect \/ HandleDisconnect \/ DaemonStarts
           \/ HostAccepts \/ (\E m \in Others : Post(m)) \/ UNCHANGED vars
  <2>1. UNCHANGED <<stored, appends, outbox, published, conn>>
    BY <1>1, ZenonT(60) DEF Startup, TimerFires, RouteConnect, HandleDisconnect, DaemonStarts,
       HostAccepts, Post, ConnectSucceeds, ConnectFails, vars
  <2> QED
    BY <1>b, <2>1, ZenonT(60)
<1>2. CASE HandleMessage
  <2> DEFINE new == [event |-> Head(outbox).event, loaded |-> FALSE, list |-> <<>>]
  <2>1. /\ outbox # <<>> /\ outbox' = Tail(outbox) /\ UNCHANGED <<stored, conn, published>>
        /\ appends' = IF Head(outbox).kind = "event" THEN Append(appends, new) ELSE appends
    BY <1>2, ZenonT(60) DEF HandleMessage
  <2>2. /\ InOrder(stored, appends, Tail(outbox), conn.tx, published)
        /\ Head(outbox).kind = "event" =>
             InOrder(stored, Append(appends, new), Tail(outbox), conn.tx, published)
    BY <1>0, <2>1, OrderReceive, ZenonT(60)
  <2> HIDE DEF new
  <2> QED
    BY <1>a, <2>1, <2>2, ZenonT(60)
<1>3. CASE LoadDone
  <2> DEFINE waiting == {i \in DOMAIN appends : ~appends[i].loaded}
             first == CHOOSE i \in waiting : \A j \in waiting : i <= j
  <2>1. /\ waiting # {} /\ UNCHANGED <<stored, outbox, conn, published>>
        /\ appends' = [appends EXCEPT ![first] = [event |-> @.event, loaded |-> TRUE,
                                                  list |-> Extended(stored, @.event)]]
    BY <1>3, ZenonT(60) DEF LoadDone
  <2>2. appends \in Seq(Appends) /\ Len(appends) \in Nat /\ DOMAIN appends = 1..Len(appends)
    BY <1>0 DEF InOrder
  <2>3. \E i \in waiting : \A j \in waiting : i <= j
    <3>1. waiting \subseteq Nat
      BY <2>2
    <3> HIDE DEF waiting
    <3> QED
      BY <2>1, <3>1, LeastNumber, ZenonT(60)
  <2>4. first \in waiting
    <3> HIDE DEF waiting
    <3> QED
      BY <2>3, ZenonT(60)
  <2> HIDE DEF first
  <2>5. first \in DOMAIN appends /\ appends[first].loaded = FALSE
    <3>1. appends[first] \in Appends /\ first \in DOMAIN appends /\ ~appends[first].loaded
      BY <2>2, <2>4
    <3> QED
      BY <3>1, ZenonT(60) DEF Appends
  <2>6. InOrder(stored, appends', outbox, conn.tx, published)
    BY <1>0, <2>1, <2>5, OrderLoad, ZenonT(60)
  <2> QED
    BY <1>a, <2>1, <2>6, ZenonT(60)
<1>4. CASE StoreDone
  <2>1. /\ appends # <<>> /\ Head(appends).loaded /\ UNCHANGED <<outbox, conn, published>>
        /\ stored' = Head(appends).list /\ appends' = Tail(appends)
    BY <1>4, ZenonT(60) DEF StoreDone
  <2>2. Head(appends) \in Appends
    BY <1>0, <2>1 DEF InOrder
  <2>3. Head(appends).loaded = TRUE
    BY <2>1, <2>2, ZenonT(60) DEF Appends
  <2>4. InOrder(Head(appends).list, Tail(appends), outbox, conn.tx, published)
    BY <1>0, <2>1, <2>3, OrderStore, ZenonT(60)
  <2> QED
    BY <1>a, <2>1, <2>4, ZenonT(60)
<1>5. CASE Clear
  <2>1. stored' = <<>> /\ UNCHANGED <<appends, outbox, conn, published>>
    BY <1>5, ZenonT(60) DEF Clear
  <2>2. InOrder(<<>>, appends, outbox, conn.tx, published)
    BY <1>0, OrderDropped, ZenonT(60)
  <2> QED
    BY <1>a, <2>1, <2>2, ZenonT(60)
<1>6. CASE DaemonHandles \/ DaemonStops
  <2>1. /\ conn' = [conn EXCEPT !.subscribed = TRUE] \/ conn' = [conn EXCEPT !.peer = FALSE]
        /\ UNCHANGED <<stored, appends, outbox, published>>
    BY <1>6, ZenonT(60) DEF DaemonHandles, DaemonStops
  <2>2. conn'.tx = conn.tx
    BY <1>0, <2>1 DEF ConnOf
  <2> QED
    BY <1>b, <2>1, <2>2, ZenonT(60)
<1>7. CASE DaemonAnswers
  <2> DEFINE answer == [kind |-> "response", op |-> Head(conn.rx).op, for |-> Head(conn.rx).id]
  <2>1. /\ conn' = [conn EXCEPT !.rx = Tail(conn.rx), !.tx = Append(conn.tx, answer)]
        /\ UNCHANGED <<stored, appends, outbox, published>>
    BY <1>7, ZenonT(60) DEF DaemonAnswers
  <2>2. answer.kind # "event"
    OBVIOUS
  <2> HIDE DEF answer
  <2>3. conn'.tx = Append(conn.tx, answer)
    BY <1>0, <2>1, ZenonT(60) DEF ConnOf
  <2>4. InOrder(stored, appends, outbox, Append(conn.tx, answer), published)
    BY <1>0, <2>2, OrderPlain, ZenonT(60)
  <2> QED
    BY <1>a, <2>1, <2>3, <2>4, ZenonT(60)
<1>8. CASE DaemonPublishes
  <2> DEFINE new == [kind |-> "event", event |-> published + 1]
  <2>1. /\ conn' = conn \/ conn' = [conn EXCEPT !.tx = Append(conn.tx, new)]
        /\ UNCHANGED <<stored, appends, outbox>> /\ published' = published + 1
    BY <1>8, ZenonT(60) DEF DaemonPublishes
  <2>2. /\ InOrder(stored, appends, outbox, conn.tx, published + 1)
        /\ InOrder(stored, appends, outbox, Append(conn.tx, new), published + 1)
    BY <1>0, OrderPublish, ZenonT(60)
  <2> HIDE DEF new
  <2>3. conn'.tx = conn.tx \/ conn'.tx = Append(conn.tx, new)
    BY <1>0, <2>1, ZenonT(60) DEF ConnOf
  <2> QED
    BY <1>a, <2>1, <2>2, <2>3, ZenonT(60)
<1>9. CASE HostKilled \/ PollTimeout
  <2>1. conn' = Closed /\ UNCHANGED <<stored, appends, outbox, published>>
    BY <1>9, ZenonT(60) DEF HostKilled, PollTimeout, HostDone
  <2> QED
    BY <1>c, <1>e, <2>1, ZenonT(60)
<1>10. ASSUME NEW n, SendError(n), UNCHANGED <<stored, appends, published>>,
              conn'.tx = conn.tx \/ conn'.tx = <<>>
       PROVE  OrderInv'
  <2>1. outbox' = Append(outbox, [kind |-> "error", id |-> n])
    BY <1>10 DEF SendError
  <2>2. InOrder(stored, appends, Append(outbox, [kind |-> "error", id |-> n]), conn.tx, published)
    BY <1>0, <1>d, OrderPlain, ZenonT(60)
  <2>3. InOrder(stored, appends, Append(outbox, [kind |-> "error", id |-> n]), <<>>, published)
    BY <2>2, OrderDropped, ZenonT(60)
  <2> QED
    BY <1>10, <1>a, <2>1, <2>2, <2>3, ZenonT(60)
<1>11. CASE HostExits
  <2>1. UNCHANGED <<stored, appends, conn, published>> /\ (outbox' = outbox \/ SendError(0))
    BY <1>11, ZenonT(60) DEF HostExits, SendError
  <2> QED
    BY <1>b, <1>10, <2>1, ZenonT(60)
<1>12. CASE HostRefuses
  <2>1. UNCHANGED <<stored, appends, conn, published>> /\ (SendError(0) \/ SendError(Head(inbox).id))
    BY <1>12, ZenonT(60) DEF HostRefuses
  <2> QED
    BY <1>10, <2>1, ZenonT(60)
<1>13. CASE PollClosed
  <2>1. UNCHANGED <<stored, appends, published>> /\ SendError(request.id) /\ conn' = Closed
    BY <1>13, ZenonT(60) DEF PollClosed, HostDone
  <2> QED
    BY <1>10, <1>e, <2>1, ZenonT(60)
<1>14. CASE HostConnects
  <2>1. \/ UNCHANGED <<stored, appends, published>> /\ SendError(request.id) /\ conn' = Closed
        \/ /\ UNCHANGED <<stored, appends, outbox, published>>
           /\ conn' = conn \/ conn' = [Closed EXCEPT !.open = TRUE, !.peer = TRUE]
    BY <1>14, ZenonT(60) DEF HostConnects, HostDone
  <2>2. [Closed EXCEPT !.open = TRUE, !.peer = TRUE].tx = <<>>
    BY ZenonT(60) DEF Closed
  <2> QED
    BY <1>10, <1>b, <1>c, <1>e, <2>1, <2>2, ZenonT(60)
<1>15. CASE HostSends
  <2>1. \/ UNCHANGED <<stored, appends, published>> /\ SendError(request.id) /\ conn' = Closed
        \/ /\ UNCHANGED <<stored, appends, outbox, published>>
           /\ conn' = [conn EXCEPT !.rx = Append(conn.rx, request)]
    BY <1>15, ZenonT(60) DEF HostSends, HostDone
  <2>2. [conn EXCEPT !.rx = Append(conn.rx, request)].tx = conn.tx
    BY <1>0, ZenonT(60) DEF ConnOf
  <2> QED
    BY <1>10, <1>b, <1>e, <2>1, <2>2, ZenonT(60)
<1>16. CASE PollData
  <2>1. conn' = Closed /\ UNCHANGED <<stored, appends, published>>
    BY <1>16, ZenonT(60) DEF PollData, HostDone
  <2>2. PICK n \in 0..Len(conn.tx) :
          outbox' = outbox \o [i \in 1..n |-> Relayed(SubSeq(conn.tx, 1, n)[i])]
    BY <1>16, ZenonT(60) DEF PollData
  <2> DEFINE batch == [i \in 1..n |-> Relayed(SubSeq(conn.tx, 1, n)[i])]
  <2>3. \A i \in 1..n : i \in DOMAIN conn.tx /\ SubSeq(conn.tx, 1, n)[i] = conn.tx[i]
    BY <1>0
  <2>4. n \in Nat /\ DOMAIN batch = 1..n /\ \A i \in 1..n : batch[i] = Relayed(conn.tx[i])
    BY <1>0, <2>2, <2>3
  <2>5. \A frame : (Relayed(frame).kind = "event") => frame.kind = "event" /\ Relayed(frame) = frame
    BY DEF Relayed
  <2> DEFINE Any == {batch[i] : i \in 1..n} \cup Matched
  <2>6. batch \in Seq(Any) /\ outbox \in Seq(Any)
    <3>1. batch \in [1..n -> Any] /\ Matched \subseteq Any
      BY <2>4
    <3> HIDE DEF batch, Any
    <3>2. batch \in Seq(Any)
      BY <2>4, <3>1, RelaySeq, ZenonT(60)
    <3>3. outbox \in Seq(Any)
      BY <1>0, <3>1
    <3> QED
      BY <3>2, <3>3
  <2> HIDE DEF batch, Any
  <2>7. ASSUME NEW i \in Dated(batch) PROVE i \in Dated(conn.tx) /\ batch[i].event = conn.tx[i].event
    <3>1. i \in 1..n /\ batch[i].kind = "event"
      BY <2>4, <2>7, ZenonT(60) DEF Dated
    <3>2. batch[i] = conn.tx[i] /\ conn.tx[i].kind = "event" /\ i \in DOMAIN conn.tx
      BY <2>3, <2>4, <2>5, <3>1, ZenonT(60)
    <3> QED
      BY <3>2, ZenonT(60) DEF Dated
  <2>8. InOrder(stored, appends, outbox \o batch, <<>>, published)
    BY <1>0, <2>6, <2>7, OrderRelay, ZenonT(60)
  <2> QED
    BY <1>a, <1>e, <2>1, <2>2, <2>8, ZenonT(60) DEF batch
<1> QED
  BY <1>1, <1>2, <1>3, <1>4, <1>5, <1>6, <1>7, <1>8, <1>9, <1>11, <1>12, <1>13, <1>14, <1>15, <1>16,
     ZenonT(60) DEF Next, Page, HostStep, Poll, External
-----------------------------------------------------------------------------
(* The requests are numbered and the events in order in every reachable    *)
(* state.                                                                  *)
LEMMA HistoryInit == Init => AnswerInv /\ OrderInv
<1> SUFFICES ASSUME Init PROVE AnswerInv /\ OrderInv
  OBVIOUS
<1>1. Numbered(inbox, AtHand, answers, spent.requests)
  <2>1. AtHand = {} /\ inbox = <<>> /\ spent.requests = 0
    BY DEF Init, AtHand, Working
  <2>2. answers \in [0..MaxRequests -> Nat] /\ \A id \in 1..MaxRequests : answers[id] = 0
    BY BridgeAssumption DEF Init, BridgeAssumption
  <2>3. 0 \in 0..MaxRequests /\ DOMAIN inbox = {}
    BY <2>1, BridgeAssumption DEF BridgeAssumption
  <2> QED
    BY <2>1, <2>2, <2>3 DEF Numbered
<1>2. conn.rx = <<>> /\ conn.tx = <<>> /\ host = "down"
  BY DEF Init, Closed
<1>3. OneResponse
  BY <1>2 DEF OneResponse
<1>4. OrderInv
  <2>1. stored = <<>> /\ appends = <<>> /\ outbox = <<>> /\ published = 0 /\ Dated(<<>>) = {}
    BY DEF Init, Dated
  <2>2. Kept(<<>>) /\ DOMAIN <<>> = {} /\ <<>> \in Seq(Appends) /\ 0 \in Nat
    BY BridgeAssumption DEF Kept, BridgeAssumption
  <2> QED
    BY <1>2, <2>1, <2>2, ZenonT(60) DEF OrderInv, InOrder, Rising, Known
<1> QED
  BY <1>1, <1>3, <1>4 DEF AnswerInv

(* In every reachable state the requests are numbered and answered at most  *)
(* once, and the events on their way to the store are in order behind what  *)
(* is stored (main.cpp handle_message, storage.ts appendEvents).            *)
THEOREM BridgeHistory == Spec => [](AnswerInv /\ OrderInv)
<1>1. BridgeInv /\ (AnswerInv /\ OrderInv) /\ [Next]_vars => (AnswerInv /\ OrderInv)'
  <2> SUFFICES ASSUME BridgeInv, AnswerInv, OrderInv, [Next]_vars PROVE AnswerInv' /\ OrderInv'
    OBVIOUS
  <2>1. AnswerInv'
    BY NumberedStep, OneResponseStep, ZenonT(60) DEF AnswerInv
  <2>2. OrderInv'
    BY OrderStep, ZenonT(60)
  <2> QED
    BY <2>1, <2>2
<1> QED
  BY HistoryInit, <1>1, BridgeInvariant, PTL DEF Spec

(* main.cpp answers no request twice: not by two responses, and not by a   *)
(* response and an error, although the daemon and the port may go away at  *)
(* any step.                                                               *)
THEOREM BridgeAnsweredOnce == Spec => []AnsweredOnce
<1>1. AnswerInv => AnsweredOnce
  BY ZenonT(60) DEF AnswerInv, Numbered, AnsweredOnce
<1> QED
  BY <1>1, BridgeHistory, PTL

(* storage.ts keeps the stored events within the cap and oldest first,     *)
(* although appends overlap and overwrite each other.                      *)
THEOREM BridgeStoredInOrder == Spec => []StoredInOrder
<1>1. OrderInv => StoredInOrder
  BY ZenonT(60) DEF OrderInv, InOrder, Kept, StoredInOrder
<1> QED
  BY <1>1, BridgeHistory, PTL
=============================================================================
