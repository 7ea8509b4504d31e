----------------------------- MODULE Redaction ------------------------------
(***************************************************************************)
(* What the redactor makes of a DNS name and of a URL under a policy       *)
(* (src/src/policy/redactor.cpp).                                          *)
(*                                                                         *)
(* A name or a URL is a sequence of tokens: a letter or a short path stands *)
(* for itself, and ".", "://", "/", "?", "#" and ":" are the separators the *)
(* code searches for.  A policy is a record [mode, sensitive, ...].  The    *)
(* two strip flags are set by the engine's constructor and nothing clears   *)
(* them, so they are not part of the record.                                *)
(***************************************************************************)
EXTENDS Naturals, Sequences, FiniteSets, FiniteSetsExt

Modes == {"hostname-only", "query-string-removal", "full-hostname",
          "domain-hash", "domain-mask"}

(* std::string::find: the first position of a token of T at or after from; *)
(* one past the end when there is none.                                    *)
Find(s, T, from) == Min({i \in from..Len(s) : s[i] \in T} \cup {Len(s) + 1})

(* resize at the first t *)
CutAt(s, t) == SubSeq(s, 1, Find(s, {t}, 1) - 1)

LowerCase == [A |-> "a", B |-> "b", C |-> "c"]

ToLower(s) == [i \in DOMAIN s |-> IF s[i] \in DOMAIN LowerCase THEN LowerCase[s[i]] ELSE s[i]]

(* Mutant: the suffix is compared without looking for the dot before it,   *)
(* and only a longer host is looked at.                                    *)
HostUnderDomainProper(host, domain) ==
  /\ Len(host) > Len(domain)
  /\ SubSeq(host, Len(host) - Len(domain) + 1, Len(host)) = domain

HostUnderDomain(host, domain) ==
  \/ host = domain
  \/ /\ Len(host) > Len(domain)
     /\ SubSeq(host, Len(host) - Len(domain) + 1, Len(host)) = domain
     /\ host[Len(host) - Len(domain)] = "."

DomainExcluded(policy, host) ==
  \E domain \in policy.sensitive : HostUnderDomain(ToLower(host), ToLower(domain))

(* The hash is a digest nothing reads back; the mask keeps the first       *)
(* character and the last two labels.                                      *)
Digest == <<"digest">>

Mask(host) ==
  LET dots == {i \in DOMAIN host : host[i] = "."}
      end  == IF Cardinality(dots) > 1 THEN Max(dots \ {Max(dots)}) ELSE Max(dots \cup {0})
  IN [i \in DOMAIN host |-> IF end > 2 /\ i \in 2..end - 1 THEN "*" ELSE host[i]]

TransformHostname(policy, host) ==
  CASE policy.mode = "domain-hash" -> Digest
    [] policy.mode = "domain-mask" -> Mask(host)
    [] OTHER -> host

HostStart(url) == LET scheme == Find(url, {"://"}, 1)
                  IN IF scheme > Len(url) THEN 1 ELSE scheme + 1

HasScheme(url) == "://" \in Range(url)

UrlHost(url) == SubSeq(url, HostStart(url), Find(url, {"/", "?", "#"}, HostStart(url)) - 1)

(* Fragment first, then query.  The mutant cuts the query only. *)
StripFragmentless(url) == CutAt(url, "?")

Strip(url) == CutAt(CutAt(url, "#"), "?")

RedactUrl(policy, url) ==
  LET start    == HostStart(url)
      stripped == Strip(url)
      from     == Min({start, Len(stripped) + 1})
      rest     == Find(stripped, {"/", "?", "#"}, from)
  IN IF UrlHost(url) # <<>> /\ DomainExcluded(policy, UrlHost(url)) THEN <<>>
     ELSE IF ~HasScheme(url) THEN stripped
     ELSE CASE policy.mode = "hostname-only" ->
                 SubSeq(stripped, 1, Find(stripped, {"/"}, from) - 1)
            [] policy.mode \in {"domain-hash", "domain-mask"} ->
                 SubSeq(stripped, 1, from - 1) \o TransformHostname(policy, UrlHost(url))
                   \o SubSeq(stripped, rest, Len(stripped))
            [] OTHER -> stripped

RedactDnsName(policy, name) ==
  IF name = <<>> \/ DomainExcluded(policy, name) THEN <<>>
  ELSE TransformHostname(policy, name)

(* The kinds last_redactions() reports for each of the two. *)
ModeKind(policy) == CASE policy.mode = "domain-hash" -> {"hostname-hash"}
                      [] policy.mode = "domain-mask" -> {"hostname-mask"}
                      [] OTHER -> {}

UrlKinds(policy, url) ==
  IF UrlHost(url) # <<>> /\ DomainExcluded(policy, UrlHost(url)) THEN {"domain-excluded"}
  ELSE (IF "#" \in Range(url) THEN {"fragment"} ELSE {})
       \cup (IF \/ "?" \in Range(CutAt(url, "#"))
                \/ policy.mode = "hostname-only" /\ HasScheme(url)
             THEN {"query-string"} ELSE {})
       \cup (IF HasScheme(url) THEN ModeKind(policy) ELSE {})

DnsKinds(policy, name) ==
  CASE name = <<>> -> {}
    [] name # <<>> /\ DomainExcluded(policy, name) -> {"domain-excluded"}
    [] OTHER -> ModeKind(policy)
=============================================================================
