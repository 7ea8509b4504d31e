---------------------------- MODULE Attribution -----------------------------
(***************************************************************************)
(* Scoring and matching of browser navigations (src/src/attribution/       *)
(* correlator.cpp, confidence.cpp).  Confidences are hundredths; times are *)
(* clock ticks.                                                            *)
(***************************************************************************)
EXTENDS Integers, Sequences, FiniteSetsExt

CONSTANTS
  NavigationWindow,  \* kNavigationWindow
  MaxNavigations     \* kMaxNavigations

NoMatch == [found |-> FALSE]

AbsDelta(a, b) == IF a > b THEN a - b ELSE b - a

HostMatch(event, nav) == event.name # <<>> /\ nav.host # <<>> /\ event.name = nav.host

(* The walk of best_match: host evidence first, then the smaller distance; *)
(* an earlier navigation keeps its place on a tie.                         *)
BetterByTime(event, nav, best) ==
  \/ ~best.found
  \/ AbsDelta(nav.ts, event.ts) < AbsDelta(best.nav.ts, event.ts)

Better(event, nav, best) ==
  \/ ~best.found
  \/ HostMatch(event, nav) /\ ~HostMatch(event, best.nav)
  \/ /\ HostMatch(event, nav) = HostMatch(event, best.nav)
     /\ AbsDelta(nav.ts, event.ts) < AbsDelta(best.nav.ts, event.ts)

BestSoFar(event, navs) ==
  LET best[n \in 0..Len(navs)] ==
        IF n = 0 THEN NoMatch
        ELSE IF /\ AbsDelta(navs[n].ts, event.ts) <= NavigationWindow
                /\ Better(event, navs[n], best[n - 1])
             THEN [found |-> TRUE, nav |-> navs[n]]
        ELSE best[n - 1]
  IN best

BestMatch(event, navs) == BestSoFar(event, navs)[Len(navs)]

(* Expired navigations are dropped from the front only, up to the first    *)
(* that is still young.                                                    *)
Expired(nav, now) == now - nav.ts > 4 * NavigationWindow

Prune(navs, now) ==
  LET keep == Min({i \in DOMAIN navs : ~Expired(navs[i], now)} \cup {Len(navs) + 1})
  IN SubSeq(navs, keep, Len(navs))

Bounded(navs) == SubSeq(navs, Max({1, Len(navs) - MaxNavigations + 1}), Len(navs))

-----------------------------------------------------------------------------
(* score_evidence, for the indirect evidence the correlator passes *)

Weight(holds, w) == IF holds THEN w ELSE 0

PcapCap == 69

ScoreEvidence(process, temporal, host, pcapOnly) ==
  LET score == Weight(process, 40) + Weight(temporal, 12) + Weight(host, 18)
  IN IF pcapOnly THEN Min({score, PcapCap}) ELSE score

(* The score from which a tab is named. *)
ProbableLow == 30

Probable == 40
=============================================================================
