------------------------------- MODULE Bridge -------------------------------
(***************************************************************************)
(* The path between the browser and the daemon: the extension's background *)
(* page (extension/{chromium,firefox}/src/background.ts with               *)
(* shared/src/native-messaging.ts and storage.ts) and the native messaging *)
(* host (native_host/src/main.cpp, daemon_client.cpp).                     *)
(*                                                                         *)
(* The host handles one message at a time and opens a connection of its own *)
(* for each request it forwards.  The page reacts to port messages, to its  *)
(* reconnect timer and to its UI pages; storing an event takes two          *)
(* asynchronous calls of the browser's storage.  The browser and the daemon *)
(* are external: the browser delivers a port's messages in order and then   *)
(* its disconnection; the daemon answers each request once and may stop and *)
(* start at any time.                                                       *)
(***************************************************************************)
EXTENDS Naturals, Sequences, FiniteSets

CONSTANTS
  Others,      \* messages besides the page's own requests: [form, op]
  MaxStored,   \* MAX_EVENTS
  MaxRequests, MaxOthers, MaxEvents, MaxOutages, MaxClears  \* bounds on the instance

ASSUME BridgeAssumption == MaxStored \in Nat \ {0} /\ MaxRequests \in Nat

VARIABLES
  \* the background page
  started,   \* the page has tried to connect
  booted,    \* the module's start-up code has run
  connected, \* NativeMessaging.connected
  timer,     \* reconnectTimer # null
  alarm,     \* a timeout is pending in the event loop
  appends,   \* calls of appendEvents in progress, oldest first
  stored,    \* storage.local[STORAGE_KEY]
  \* the port's two pipes and the host
  inbox, outbox,
  host,      \* where the host is
  request,   \* the message it handles
  \* the host's connection and the daemon
  conn,      \* [open, peer, rx, tx, subscribed]
  daemon,    \* up or down
  published, \* events broadcast so far
  answers,   \* history: answers written for each request
  acked,     \* history: a subscription was acknowledged to this page
  spent      \* how much of each bound has been used

vars == <<started, booted, connected, timer, alarm, appends, stored, inbox, outbox, host,
          request, conn, daemon, published, answers, acked, spent>>

pageVars   == <<started, booted, connected, timer, alarm>>
storeVars  == <<appends, stored>>
portVars   == <<inbox, outbox>>
hostVars   == <<host, request, answers>>
daemonVars == <<conn, daemon, published>>

NoRequest == [id |-> 0, op |-> "none", form |-> "request"]
Closed    == [open |-> FALSE, peer |-> FALSE, rx |-> <<>>, tx |-> <<>>, subscribed |-> FALSE]
Allowed   == {"hello", "get_status", "subscribe", "unsubscribe", "set_policy", "get_policy"}

Init ==
  /\ started = FALSE /\ booted = FALSE /\ connected = FALSE /\ timer = FALSE /\ alarm = FALSE
  /\ appends = <<>> /\ stored = <<>>
  /\ inbox = <<>> /\ outbox = <<>>
  /\ host = "down" /\ request = NoRequest
  /\ conn = Closed /\ daemon = "up" /\ published = 0
  /\ answers = [id \in 0..MaxRequests |-> 0] /\ acked = FALSE
  /\ spent = [requests |-> 0, others |-> 0, outages |-> 0, clears |-> 0]

-----------------------------------------------------------------------------
(* The background page: connection *)

(* scheduleReconnect(): one timeout at a time. *)
ScheduleReconnect ==
  /\ timer' = TRUE
  /\ alarm' = (alarm \/ ~timer)

(* connectAndSubscribe(): a port that is connected is used again; otherwise *)
(* connectNative starts a host, or fails and the timer is set.              *)
Greeting == <<[id |-> spent.requests + 1, op |-> "hello", form |-> "request"],
              [id |-> spent.requests + 2, op |-> "subscribe", form |-> "request"]>>

ConnectSucceeds ==
  /\ spent.requests + 2 <= MaxRequests
  /\ connected' = TRUE
  /\ inbox' = IF connected THEN inbox \o Greeting ELSE Greeting
  /\ host' = IF connected THEN host ELSE "reading"
  /\ spent' = [spent EXCEPT !.requests = @ + 2]
  /\ UNCHANGED <<storeVars, outbox, request, answers, daemonVars, acked>>

ConnectFails ==
  /\ ~connected
  /\ UNCHANGED <<connected, storeVars, portVars, hostVars, daemonVars, acked, spent>>

(* The autoStart preference has been read and is true; a UI page may have  *)
(* asked for a connection before.                                          *)
Startup ==
  /\ ~booted
  /\ booted' = TRUE /\ started' = TRUE
  /\ \/ ConnectSucceeds /\ UNCHANGED <<timer, alarm>>
     \/ ConnectFails /\ ScheduleReconnect

(* Mutant: the callback leaves reconnectTimer set. *)
TimerFiresStale ==
  /\ alarm
  /\ UNCHANGED <<started, booted>>
  /\ \/ ConnectSucceeds /\ alarm' = FALSE /\ UNCHANGED timer
     \/ ConnectFails /\ alarm' = FALSE /\ UNCHANGED timer

TimerFires ==
  /\ alarm
  /\ UNCHANGED <<started, booted>>
  /\ \/ ConnectSucceeds /\ alarm' = FALSE /\ timer' = FALSE
     \/ ConnectFails /\ alarm' = TRUE /\ timer' = TRUE  \* reset, then scheduled again

(* 'ezcap:connect' from a UI page; a pending timeout stays pending. *)
RouteConnect ==
  /\ started' = TRUE /\ booted' = booted
  /\ \/ ConnectSucceeds /\ UNCHANGED <<timer, alarm>>
     \/ ConnectFails /\ ScheduleReconnect

(* A navigation report, or any other message the browser hands to the host. *)
Post(m) ==
  /\ connected /\ host # "down"
  /\ spent.others < MaxOthers /\ spent.requests < MaxRequests
  /\ inbox' = Append(inbox, [id |-> spent.requests + 1, op |-> m.op, form |-> m.form])
  /\ spent' = [spent EXCEPT !.requests = @ + 1, !.others = @ + 1]
  /\ UNCHANGED <<pageVars, storeVars, outbox, hostVars, daemonVars, acked>>

(* handleDisconnect, after the last message of the port. *)
HandleDisconnect ==
  /\ connected /\ host = "down" /\ outbox = <<>>
  /\ connected' = FALSE /\ acked' = FALSE
  /\ ScheduleReconnect
  /\ inbox' = <<>>
  /\ UNCHANGED <<started, booted, storeVars, outbox, hostVars, daemonVars, spent>>

-----------------------------------------------------------------------------
(* The background page: events *)

(* handleMessage: onEvent starts an append and does not wait for it; the   *)
(* page has no handler for responses and errors.                           *)
HandleMessage ==
  /\ connected /\ outbox # <<>>
  /\ outbox' = Tail(outbox)
  /\ LET m == Head(outbox)
     IN /\ appends' = IF m.kind = "event"
                      THEN Append(appends, [event |-> m.event, loaded |-> FALSE, list |-> <<>>])
                      ELSE appends
        /\ acked' = (acked \/ (m.kind = "response" /\ m.op = "subscribe"))
  /\ UNCHANGED <<pageVars, stored, inbox, hostVars, daemonVars, spent>>

Newest(list) == SubSeq(list, IF Len(list) > MaxStored THEN Len(list) - MaxStored + 1 ELSE 1, Len(list))

(* appendEvents: what is stored is loaded, extended and cut to the newest; *)
(* the mutant puts the new event first.                                    *)
ExtendedFront(list, e) == Newest(<<e>> \o list)

Extended(list, e) == Newest(Append(list, e))

(* The browser serves loads and stores in the order they were asked for. *)
LoadDone ==
  LET waiting == {i \in DOMAIN appends : ~appends[i].loaded}
  IN /\ waiting # {}
     /\ LET i == CHOOSE i \in waiting : \A j \in waiting : i <= j
        IN appends' = [appends EXCEPT ![i] = [event |-> @.event, loaded |-> TRUE,
                                              list |-> Extended(stored, @.event)]]
     /\ UNCHANGED <<pageVars, stored, portVars, hostVars, daemonVars, acked, spent>>

StoreDone ==
  /\ appends # <<>> /\ Head(appends).loaded
  /\ stored' = Head(appends).list
  /\ appends' = Tail(appends)
  /\ UNCHANGED <<pageVars, portVars, hostVars, daemonVars, acked, spent>>

(* 'ezcap:clear' *)
Clear ==
  /\ spent.clears < MaxClears
  /\ stored' = <<>>
  /\ spent' = [spent EXCEPT !.clears = @ + 1]
  /\ UNCHANGED <<pageVars, appends, portVars, hostVars, daemonVars, acked>>

-----------------------------------------------------------------------------
(* The host *)

Answers(id, n) == answers' = [answers EXCEPT ![id] = @ + n]

Answer(id) == Answers(id, 1)

SendError(id) == outbox' = Append(outbox, [kind |-> "error", id |-> id])

(* MessageReader::read refuses a bad frame and main() then exits without a  *)
(* word; text that is not JSON and a malformed envelope end the host after  *)
(* an error.                                                                *)
HostExits ==
  /\ host = "reading" /\ inbox # <<>>
  /\ Head(inbox).form \in {"bad frame", "bad json", "bad envelope"}
  /\ outbox' = IF Head(inbox).form = "bad frame" THEN outbox
               ELSE Append(outbox, [kind |-> "error", id |-> 0])
  /\ inbox' = Tail(inbox)
  /\ host' = "down"
  /\ UNCHANGED <<pageVars, storeVars, request, answers, daemonVars, acked, spent>>

(* What handle_message answers by itself.  Before the request id has been   *)
(* checked the error carries none.                                          *)
HostRefuses ==
  /\ host = "reading" /\ inbox # <<>>
  /\ LET m == Head(inbox)
     IN \/ /\ m.form \in {"not a request", "incomplete", "bad id"}
           /\ SendError(0) /\ UNCHANGED answers
        \/ /\ m.form = "forbidden field" \/ (m.form = "request" /\ m.op \notin Allowed)
           /\ SendError(m.id) /\ Answer(m.id)
  /\ inbox' = Tail(inbox)
  /\ UNCHANGED <<pageVars, storeVars, host, request, daemonVars, acked, spent>>

HostAccepts ==
  /\ host = "reading" /\ inbox # <<>>
  /\ Head(inbox).form = "request" /\ Head(inbox).op \in Allowed
  /\ request' = Head(inbox) /\ inbox' = Tail(inbox)
  /\ host' = "connecting"
  /\ UNCHANGED <<pageVars, storeVars, outbox, answers, daemonVars, acked, spent>>

(* The end of handle_message destroys the client: its connection is closed. *)
(* The mutant keeps the connection for the next request.                    *)
HostDoneKeeps ==
  /\ host' = "reading" /\ request' = NoRequest
  /\ UNCHANGED daemonVars

HostDone ==
  /\ host' = "reading" /\ request' = NoRequest
  /\ conn' = Closed
  /\ UNCHANGED <<daemon, published>>

(* connect() may fail for other reasons than a daemon that is down. *)
HostConnects ==
  /\ host = "connecting"
  /\ \/ /\ daemon = "up"
        /\ host' = "sending"
        /\ conn' = IF conn.open THEN conn ELSE [Closed EXCEPT !.open = TRUE, !.peer = TRUE]
        /\ UNCHANGED <<outbox, request, answers, daemon, published>>
     \/ /\ SendError(request.id) /\ Answer(request.id)
        /\ HostDone
  /\ UNCHANGED <<pageVars, storeVars, inbox, acked, spent>>

(* send_request() fails when the peer is gone, or for a frame too large. *)
HostSends ==
  /\ host = "sending"
  /\ \/ /\ conn.peer
        /\ host' = "polling"
        /\ conn' = [conn EXCEPT !.rx = Append(@, request)]
        /\ UNCHANGED <<outbox, request, answers, daemon, published>>
     \/ /\ SendError(request.id) /\ Answer(request.id)
        /\ HostDone
  /\ UNCHANGED <<pageVars, storeVars, inbox, acked, spent>>

(* A frame of the daemon becomes an event, or the response to the request  *)
(* at hand.                                                                 *)
Relayed(frame) ==
  IF frame.kind = "event" THEN frame
  ELSE [kind |-> "response", id |-> request.id, op |-> frame.op, for |-> frame.for]

(* One poll of five seconds.  Data: one recv, which ends anywhere, so that  *)
(* some complete frames are relayed and the rest is dropped with the        *)
(* connection.                                                              *)
PollData ==
  /\ host = "polling" /\ conn.peer /\ conn.tx # <<>>
  /\ \E n \in 0..Len(conn.tx) :
       LET frames == SubSeq(conn.tx, 1, n)
       IN /\ outbox' = outbox \o [i \in 1..n |-> Relayed(frames[i])]
          /\ Answers(request.id, Cardinality({i \in 1..n : frames[i].kind = "response"}))
  /\ HostDone
  /\ UNCHANGED <<pageVars, storeVars, inbox, acked, spent>>

(* POLLHUP wins over data that could still be read; data that arrive may be *)
(* over the limit.  The mutant relays what is there after the error.        *)
PollClosedRelays ==
  /\ host = "polling" /\ ~conn.peer
  /\ outbox' = Append(outbox, [kind |-> "error", id |-> request.id])
                 \o [i \in DOMAIN conn.tx |-> Relayed(conn.tx[i])]
  /\ answers' = [answers EXCEPT ![request.id] =
                   @ + 1 + Len(SelectSeq(conn.tx, LAMBDA f : f.kind = "response"))]
  /\ HostDone
  /\ UNCHANGED <<pageVars, storeVars, inbox, acked, spent>>

PollClosed ==
  /\ host = "polling" /\ (~conn.peer \/ conn.tx # <<>>)
  /\ SendError(request.id) /\ Answer(request.id)
  /\ HostDone
  /\ UNCHANGED <<pageVars, storeVars, inbox, acked, spent>>

(* A timeout, or a signal, is success without frames: nothing is written.   *)
(* The mutant polls again.                                                  *)
PollForever ==
  /\ host = "polling" /\ conn.peer /\ conn.tx = <<>>
  /\ UNCHANGED vars

PollTimeout ==
  /\ host = "polling" /\ conn.peer /\ conn.tx = <<>>
  /\ HostDone
  /\ UNCHANGED <<pageVars, storeVars, portVars, answers, acked, spent>>

-----------------------------------------------------------------------------
(* External: the daemon behind the connection, and a host that is killed *)

(* The request takes effect, then its response is written; events may come  *)
(* in between.                                                              *)
DaemonHandles ==
  /\ conn.peer /\ conn.rx # <<>> /\ ~conn.subscribed
  /\ Head(conn.rx).op = "subscribe"
  /\ conn' = [conn EXCEPT !.subscribed = TRUE]
  /\ UNCHANGED <<pageVars, storeVars, portVars, hostVars, daemon, published, acked, spent>>

DaemonAnswers ==
  /\ conn.peer /\ conn.rx # <<>>
  /\ Head(conn.rx).op = "subscribe" => conn.subscribed
  /\ conn' = [conn EXCEPT
                !.rx = Tail(@),
                !.tx = Append(@, [kind |-> "response", op |-> Head(conn.rx).op, for |-> Head(conn.rx).id])]
  /\ UNCHANGED <<pageVars, storeVars, portVars, hostVars, daemon, published, acked, spent>>

DaemonPublishes ==
  /\ daemon = "up" /\ published < MaxEvents
  /\ published' = published + 1
  /\ conn' = IF conn.subscribed /\ conn.peer
             THEN [conn EXCEPT !.tx = Append(@, [kind |-> "event", event |-> published + 1])]
             ELSE conn
  /\ UNCHANGED <<pageVars, storeVars, portVars, hostVars, daemon, acked, spent>>

DaemonStops ==
  /\ daemon = "up" /\ spent.outages < MaxOutages
  /\ daemon' = "down"
  /\ conn' = [conn EXCEPT !.peer = FALSE]
  /\ spent' = [spent EXCEPT !.outages = @ + 1]
  /\ UNCHANGED <<pageVars, storeVars, portVars, hostVars, published, acked>>

DaemonStarts ==
  /\ daemon = "down"
  /\ daemon' = "up"
  /\ UNCHANGED <<pageVars, storeVars, portVars, hostVars, conn, published, acked, spent>>

HostKilled ==
  /\ host # "down" /\ spent.outages < MaxOutages
  /\ host' = "down" /\ request' = NoRequest /\ conn' = Closed
  /\ spent' = [spent EXCEPT !.outages = @ + 1]
  /\ UNCHANGED <<pageVars, storeVars, portVars, answers, daemon, published, acked>>

-----------------------------------------------------------------------------
Poll == PollData \/ PollClosed \/ PollTimeout

HostStep == HostExits \/ HostRefuses \/ HostAccepts \/ HostConnects \/ HostSends \/ Poll

Page == Startup \/ TimerFires \/ RouteConnect \/ HandleDisconnect \/ HandleMessage
          \/ LoadDone \/ StoreDone \/ Clear \/ \E m \in Others : Post(m)

External == DaemonHandles \/ DaemonAnswers \/ DaemonPublishes \/ DaemonStops \/ DaemonStarts
              \/ HostKilled

Next == Page \/ HostStep \/ External

Spec == Init /\ [][Next]_vars

(* The operating system schedules the host; nothing is assumed of the       *)
(* browser and of the daemon.                                               *)
FairSpec == Spec /\ WF_vars(HostStep)

-----------------------------------------------------------------------------
(* Properties *)

(* background.ts: once the page has tried to connect, a page without a port *)
(* has a timeout pending that will try again, whatever sequence of timer,   *)
(* UI and disconnect callbacks ran.                                         *)
NeverStranded == (started /\ ~connected) => alarm

(* main.cpp:168-176 stamps every response with the id of the request at     *)
(* hand: it is the daemon's response to that very request, although an      *)
(* earlier request may have been given up before its response came.         *)
AnswersMatch ==
  \A i \in DOMAIN outbox : (outbox[i].kind = "response") => outbox[i].id = outbox[i].for

(* handle_message: no request is answered twice, neither by two responses   *)
(* nor by a response and an error.                                          *)
AnsweredOnce == \A id \in 1..MaxRequests : answers[id] <= 1

(* storage.ts: the stored events never exceed the cap and are oldest first, *)
(* each at most once, although appends overlap and overwrite each other.    *)
StoredInOrder ==
  /\ Len(stored) <= MaxStored
  /\ \A i, j \in DOMAIN stored : i < j => stored[i] < stored[j]

(* main.cpp: a daemon that is silent, slow or gone never holds the host for *)
(* good: it comes back to read the browser's next message.                  *)
HostReturns ==
  (host \in {"connecting", "sending", "polling"}) ~> (host \in {"reading", "down"})

(* daemon_client.hpp:11-13: the host "streams subscription events back".    *)
(* While the port and the daemon are up, a page that was told it is         *)
(* subscribed has a subscription at the daemon.                             *)
SubscriptionHeld ==
  (acked /\ connected /\ host # "down" /\ daemon = "up") => conn.subscribed
=============================================================================
