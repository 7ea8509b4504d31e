------------------------------ MODULE Pipeline ------------------------------
(***************************************************************************)
(* The way of one event from the capture backend to its consumers:         *)
(* normalisation (event_normalizer.cpp, ebpf_events.cpp), correlation with *)
(* browser navigations (correlator.cpp) and redaction under the active     *)
(* policy (policy_engine.cpp), in the order Daemon::on_capture_event calls *)
(* them on the capture thread.  IPC clients change the policy, and         *)
(* navigations and browser processes arrive, between any two of its steps: *)
(* the correlator takes its mutex twice and the engine's own mutex is taken *)
(* only for the redaction.                                                 *)
(*                                                                         *)
(* IpcServer, SqliteStore and Daemon model what happens to the event after *)
(* it is published.                                                        *)
(***************************************************************************)
EXTENDS PacketParser, Redaction, Attribution

CONSTANTS
  Clients,      \* IPC client threads that may be inside set_policy
  PolicyDocs,   \* documents they send
  Frames,       \* captured frames
  KernelEvents, \* records of the eBPF ring buffer: [kind, pid, name]
  Sites,        \* what a navigation reports: [host, url]
  Browsers,     \* sets of browser pids that may be reported
  Ages,         \* how old an event may be when its backend delivers it
  MaxTime, MaxUpdates, MaxVisits, MaxEvents   \* bounds on the instance

NoBrowser == [url |-> <<>>, attached |-> FALSE]
NoProcess == 0
NoEvent   == [type |-> "none"]

(* A document's sensitive domains are strings, and a frame's name is what   *)
(* its question spells, unless the question is damaged.                     *)
ASSUME PipelineAssumption ==
  /\ Ages \subseteq Nat /\ NavigationWindow \in Nat /\ MaxNavigations \in Nat \ {0}
  /\ MaxTime \in Nat
  /\ \A pids \in Browsers : NoProcess \notin pids
  /\ \A doc \in PolicyDocs : "sensitive" \in DOMAIN doc => doc.sensitive \subseteq Seq(STRING)
  /\ \A site \in Sites : site.host \in Seq(STRING) /\ site.url \in Seq(STRING)
  /\ \A r \in KernelEvents : r.kind \in {"connect", "dns", "state"} /\ r.name \in Seq(STRING)
  /\ \A f \in Frames : /\ f.question \in Seq(Nat) /\ f.name \in Seq(STRING)
                       /\ f.size \in Nat /\ f.ihl \in Nat
                       /\ ParseDnsQname(f.question) \in {<<>>, f.name}

VARIABLES
  policy,      \* PolicyEngine::policy_
  updates,     \* per client: the copy update_from_json works on, or idle
  navigations, \* Correlator::navigations_
  browsers,    \* Correlator::browser_processes_
  now,         \* the system clock
  stage,       \* where on_capture_event is
  event,       \* the event being handled, before redaction
  processMatch,\* correlate()'s local of that name
  published,   \* the event as the consumers get it
  used,        \* history: the policy it was redacted under
  held,        \* history: the navigations when correlate() began to match
  wireName,    \* history: the name in the frame or record the event came from
  spent        \* how much of each bound has been used

vars == <<policy, updates, navigations, browsers, now, stage, event,
          processMatch, published, used, held, wireName, spent>>

policyVars     == <<policy, updates>>
evidenceVars   == <<navigations, browsers>>
eventVars      == <<stage, event, processMatch, published, used, held, wireName>>

Idle == [busy |-> FALSE]

(* The constructor's defaults. *)
DefaultPolicy == [mode |-> "query-string-removal", sensitive |-> {}, persist |-> FALSE,
                  retention |-> 3600]

Init ==
  /\ policy = DefaultPolicy
  /\ updates = [c \in Clients |-> Idle]
  /\ navigations = <<>> /\ browsers = {}
  /\ now = 0
  /\ stage = "idle" /\ event = NoEvent /\ processMatch = FALSE
  /\ published = NoEvent /\ used = DefaultPolicy /\ held = <<>> /\ wireName = <<>>
  /\ spent = [updates |-> 0, visits |-> 0, events |-> 0]

Spend(what, bound) ==
  /\ spent[what] < bound
  /\ spent' = [spent EXCEPT ![what] = @ + 1]

-----------------------------------------------------------------------------
(* set_policy.  The document overrides the fields it has; it is checked     *)
(* against limits while the copy is edited and the copy is installed only   *)
(* when everything was accepted.                                            *)

MaxDomains == 256
MaxDomain  == 253
MinRetention == 60
MaxRetention == 31536000

DocValid(doc) ==
  /\ "metadata_only" \in DOMAIN doc => doc.metadata_only
  /\ "mode" \in DOMAIN doc => doc.mode \in Modes
  /\ "sensitive" \in DOMAIN doc =>
       Cardinality(doc.sensitive) <= MaxDomains /\ \A d \in doc.sensitive : Len(d) <= MaxDomain
  /\ "persist" \in DOMAIN doc => doc.persist \in BOOLEAN
  /\ "retention" \in DOMAIN doc => doc.retention \in MinRetention..MaxRetention

Merge(base, doc) ==
  [field \in DOMAIN base |-> IF field \in DOMAIN doc THEN doc[field] ELSE base[field]]

SetPolicyBegin(c, doc) ==
  /\ ~updates[c].busy
  /\ Spend("updates", MaxUpdates)
  /\ updates' = [updates EXCEPT ![c] = [busy |-> TRUE, base |-> policy, doc |-> doc]]
  /\ UNCHANGED <<policy, evidenceVars, now, eventVars>>

(* Mutant: the fields are stored as they are read, without the validation. *)
SetPolicyUnchecked(c) ==
  /\ updates[c].busy
  /\ policy' = Merge(updates[c].base, updates[c].doc)
  /\ updates' = [updates EXCEPT ![c] = Idle]
  /\ UNCHANGED <<evidenceVars, now, eventVars, spent>>

SetPolicyEnd(c) ==
  /\ updates[c].busy
  /\ policy' = IF DocValid(updates[c].doc) THEN Merge(updates[c].base, updates[c].doc)
               ELSE policy
  /\ updates' = [updates EXCEPT ![c] = Idle]
  /\ UNCHANGED <<evidenceVars, now, eventVars, spent>>

-----------------------------------------------------------------------------
(* Evidence from the browser.  A navigation carries the browser's time,     *)
(* which may lag the daemon's clock, and may arrive out of order.           *)

RecordNavigation(site, ts) ==
  /\ Spend("visits", MaxVisits)
  /\ navigations' = Bounded(Append(navigations, [host |-> site.host, url |-> site.url, ts |-> ts]))
  /\ UNCHANGED <<policyVars, browsers, now, eventVars>>

SetBrowserProcesses(pids) ==
  /\ pids # browsers
  /\ browsers' = pids
  /\ UNCHANGED <<policyVars, navigations, now, eventVars, spent>>

Tick ==
  /\ now < MaxTime
  /\ now' = now + 1
  /\ UNCHANGED <<policyVars, evidenceVars, eventVars, spent>>

-----------------------------------------------------------------------------
(* The capture thread *)

Normalized(type, src, pid, name, ts, confidence) ==
  [type |-> type, source |-> src, pid |-> pid, name |-> name, ts |-> ts,
   confidence |-> confidence, browser |-> NoBrowser, redacted |-> FALSE, kinds |-> {}]

FromFrame(f, ts) ==
  IF DnsName(f) # <<>> \/ OnDnsPort(f)
  THEN Normalized("Dns", "pcap", NoProcess, DnsName(f), ts, 20)
  ELSE Normalized("Connection", "pcap", NoProcess, <<>>, ts, 10)

(* connect, DNS and socket state records; only DNS records have a name *)
FromKernel(r, ts) ==
  CASE r.kind = "connect" -> Normalized("Connection", "ebpf", r.pid, <<>>, ts, 95)
    [] r.kind = "dns"     -> Normalized("Dns", "ebpf", r.pid, r.name, ts, 90)
    [] r.kind = "state"   -> Normalized("Connection", "ebpf", r.pid, <<>>, ts, 90)

Deliver(from, e) ==
  /\ stage = "idle"
  /\ Spend("events", MaxEvents)
  /\ stage' = "delivered" /\ event' = e /\ wireName' = from.name
  /\ processMatch' = FALSE /\ published' = NoEvent /\ held' = <<>>
  /\ UNCHANGED <<policyVars, evidenceVars, now, used>>

CaptureFrame(f, ts) == FrameValid(f) /\ Deliver(f, FromFrame(f, ts))

CaptureKernel(r, ts) == Deliver(r, FromKernel(r, ts))

(* is_browser_process, under the correlator's mutex, which is then released *)
LookUpProcess ==
  /\ stage = "delivered"
  /\ stage' = "looked up"
  /\ processMatch' = (event.pid # NoProcess /\ event.pid \in browsers)
  /\ UNCHANGED <<policyVars, evidenceVars, now, event, published, used, held, wireName, spent>>

(* The second critical section of correlate(): prune, match, score, attach. *)
Correlate ==
  /\ stage = "looked up"
  /\ navigations' = Prune(navigations, now)
  /\ LET match == BestMatch(event, navigations')
         score == ScoreEvidence(processMatch, match.found,
                                match.found /\ HostMatch(event, match.nav),
                                event.source = "pcap")
     IN event' = [event EXCEPT
                    !.confidence = score,
                    !.browser = IF match.found /\ score >= Probable
                                THEN [attached |-> TRUE, url |-> match.nav.url,
                                      host |-> match.nav.host, ts |-> match.nav.ts]
                                ELSE NoBrowser]
  /\ held' = navigations
  /\ stage' = "correlated"
  /\ UNCHANGED <<policyVars, browsers, now, processMatch, published, used, wireName, spent>>

(* PolicyEngine::apply.  Every backend sets metadata_only, so the drop of an *)
(* event without it never happens.  The audit is that of the last call of    *)
(* the redactor.                                                             *)
Redacted(p, e) ==
  LET name    == RedactDnsName(p, e.name)
      hasUrl  == e.browser.attached /\ e.browser.url # <<>>
      url     == RedactUrl(p, e.browser.url)
      browser == IF ~hasUrl THEN e.browser
                 ELSE IF url = <<>> THEN NoBrowser
                 ELSE [e.browser EXCEPT !.url = url]
  IN [e EXCEPT !.name = name, !.browser = browser,
               !.redacted = (name # e.name \/ browser # e.browser),
               !.kinds = IF hasUrl THEN UrlKinds(p, e.browser.url) ELSE DnsKinds(p, e.name)]

Publish ==
  /\ stage = "correlated"
  /\ published' = Redacted(policy, event)
  /\ used' = policy
  /\ stage' = "idle" /\ held' = <<>>
  /\ UNCHANGED <<policyVars, evidenceVars, now, event, processMatch, wireName, spent>>

Next ==
  \/ \E c \in Clients, doc \in PolicyDocs : SetPolicyBegin(c, doc)
  \/ \E c \in Clients : SetPolicyEnd(c)
  \/ \E site \in Sites, age \in {0, 1} : now - age >= 0 /\ RecordNavigation(site, now - age)
  \/ \E pids \in Browsers : SetBrowserProcesses(pids)
  \/ Tick
  \/ \E f \in Frames, age \in Ages : now - age >= 0 /\ CaptureFrame(f, now - age)
  \/ \E r \in KernelEvents, age \in Ages : now - age >= 0 /\ CaptureKernel(r, now - age)
  \/ LookUpProcess
  \/ Correlate
  \/ Publish

Spec == Init /\ [][Next]_vars

-----------------------------------------------------------------------------
(* What the pipeline promises *)

(* Type correctness.  The policy in force always passes the limits of       *)
(* update_from_json, whatever documents were sent and refused.              *)
TypeOK ==
  /\ policy.mode \in Modes /\ policy.persist \in BOOLEAN
  /\ policy.retention \in MinRetention..MaxRetention
  /\ Cardinality(policy.sensitive) <= MaxDomains
  /\ Len(navigations) <= MaxNavigations
  /\ stage \in {"idle", "delivered", "looked up", "correlated"}
  /\ now \in 0..MaxTime
  /\ (stage # "idle") => event.type \in {"Connection", "Dns"}

(* A name is in a domain when it, or what follows one of its dots, is the   *)
(* domain; letter case does not matter.                                     *)
Parents(name) ==
  {name} \cup {SubSeq(name, i + 1, Len(name)) : i \in {j \in DOMAIN name : name[j] = "."}}

Sensitive(p, name) ==
  {ToLower(s) : s \in Parents(name)} \cap {ToLower(d) : d \in p.sensitive} # {}

BareHost(url) == url # <<>> /\ ":" \notin Range(UrlHost(url)) /\ UrlHost(url) # <<>>

WasPublished == published # NoEvent

(* docs/privacy.md: a sensitive domain never shows.  An event whose DNS     *)
(* name lies in a domain of the policy it was redacted under is published   *)
(* without the name, and a navigation to such a host is published without   *)
(* its tab (redactor.cpp domain_excluded, policy_engine.cpp apply), for a   *)
(* URL whose authority is a bare host name.                                 *)
SensitiveWithheld ==
  WasPublished =>
    /\ (event.name # <<>> /\ Sensitive(used, event.name)) => published.name = <<>>
    /\ (event.browser.attached /\ BareHost(event.browser.url)
          /\ Sensitive(used, UrlHost(event.browser.url))) => ~published.browser.attached

(* redact_url: no mode that set_policy can install lets a query string or a *)
(* fragment through to the consumers.                                       *)
UrlsStripped ==
  (WasPublished /\ published.browser.attached) => {"?", "#"} \cap Range(published.browser.url) = {}

(* confidence.hpp: pcap evidence stays in the weak band and never names a   *)
(* tab; indirect evidence stays below the direct band; a tab is named only  *)
(* on the evidence of a process that was reported as a browser.             *)
AttributionHonest ==
  (stage = "correlated") =>
    /\ event.source = "pcap" => event.confidence < 40 /\ ~event.browser.attached
    /\ event.confidence < 90
    /\ event.browser.attached => processMatch /\ event.confidence >= 40

(* correlator.cpp best_match after the pruning: for an event delivered      *)
(* within three windows, the attached navigation is the best of ALL those   *)
(* held before the pruning (a host match first, then the nearest in time,   *)
(* then the first recorded), and one is attached whenever the event's       *)
(* process is a browser and a navigation lies within the window.            *)
InWindow == {i \in DOMAIN held : AbsDelta(held[i].ts, event.ts) <= NavigationWindow}

Precedes(i, j) ==
  LET host(k)  == event.name # <<>> /\ held[k].host = event.name
      delta(k) == AbsDelta(held[k].ts, event.ts)
  IN \/ host(i) /\ ~host(j)
     \/ host(i) = host(j) /\ delta(i) < delta(j)
     \/ host(i) = host(j) /\ delta(i) = delta(j) /\ i <= j

BestNavigation ==
  (stage = "correlated" /\ now - event.ts <= 3 * NavigationWindow) =>
    /\ processMatch /\ InWindow # {} => event.browser.attached
    /\ event.browser.attached =>
         \E i \in InWindow : /\ \A j \in InWindow : Precedes(i, j)
                             /\ event.browser.url = held[i].url
                             /\ event.browser.ts = held[i].ts

(* parse_dns_qname: a frame cut short anywhere, or damaged, yields the      *)
(* whole name that was on the wire or no name, never a part of it.          *)
NameWholeOrAbsent ==
  (stage # "idle" /\ event.source = "pcap") => event.name \in {<<>>, wireName}
=============================================================================
