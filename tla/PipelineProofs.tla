--------------------------- MODULE PipelineProofs ---------------------------
(***************************************************************************)
(* Proofs about the way of an event from capture to its consumers.         *)
(*                                                                         *)
(* The first sections establish what the three pure components compute:    *)
(* the redactor, the correlator's walk over the navigations and the parser *)
(* of DNS names.  Their loops are recursive functions, and what they       *)
(* compute is proved by induction on the number of turns, from the         *)
(* principle that a set of numbers has a least member.  The last sections  *)
(* carry these facts through the steps of the pipeline.                    *)
(***************************************************************************)
EXTENDS Pipeline, FiniteSetTheorems, WellFoundedInduction, TLAPS

USE SMTT(60)

-----------------------------------------------------------------------------
(* Induction and recursion on the natural numbers *)

(* The smaller pairs of numbers. *)
LessThan == {pair \in Nat \X Nat : pair[1] < pair[2]}

(* There is no endless descent among the numbers. *)
LEMMA LessWellFounded == IsWellFoundedOn(LessThan, Nat)
  BY NatLessThanWellFounded, ZenonT(60) DEF OpToRel, LessThan

(* A set of numbers that is not empty has a least member. *)
LEMMA LeastNumber ==
  ASSUME NEW T, T \subseteq Nat, T # {}
  PROVE \E x \in T : \A y \in T : x <= y
<1>1. \E x \in T : \A y \in T : ~(<<y, x>> \in LessThan)
  BY LessWellFounded, WFMin, ZenonT(60)
<1>2. \A x, y \in Nat : ~(<<y, x>> \in LessThan) => x <= y
  BY DEF LessThan
<1>3. \A x, y \in T : ~(<<y, x>> \in LessThan) => x <= y
  BY <1>2, ZenonT(60)
<1> QED BY <1>1, <1>3, ZenonT(60)

(* A set that has 0, and n + 1 with every n, has all numbers. *)
LEMMA Induction ==
  ASSUME NEW T, 0 \in T, \A n \in Nat : n \in T => n + 1 \in T
  PROVE  Nat \subseteq T
<1>1. SUFFICES ASSUME Nat \ T # {} PROVE FALSE
  BY ZenonT(60)
<1>2. PICK x \in Nat \ T : \A y \in Nat \ T : x <= y
  <2>1. Nat \ T \subseteq Nat
    BY ZenonT(60)
  <2> QED
    BY <1>1, <2>1, LeastNumber, ZenonT(60)
<1>3. x # 0 /\ x - 1 \in Nat /\ ~(x <= x - 1) /\ (x - 1) + 1 = x
  <2>1. x # 0 /\ x \in Nat
    BY <1>2, ZenonT(60)
  <2> QED BY <2>1
<1> QED
  BY <1>2, <1>3, ZenonT(60)

(* The function that starts with v and goes on by step. *)
Iterates(g, N, v, step) == g[0] = v /\ \A n \in 1..N : g[n] = step[<<n, g[n - 1]>>]

(* Every step function has its iterates: the recursive functions that stand *)
(* for the code's loops are well defined.                                    *)
LEMMA Recursion ==
  ASSUME NEW V, NEW v \in V, NEW N \in Nat, NEW step \in [(1..N) \X V -> V]
  PROVE  \E g \in [0..N -> V] : Iterates(g, N, v, step)
<1> DEFINE Fits(m, g) == g[0] = v /\ \A n \in 1..m : n <= N => g[n] = step[<<n, g[n - 1]>>]
           T == {m \in Nat : \E g \in [0..m -> V] : Fits(m, g)}
<1>1. 0 \in T
  <2>1. [n \in 0..0 |-> v] \in [0..0 -> V] /\ Fits(0, [n \in 0..0 |-> v])
    OBVIOUS
  <2> HIDE DEF Fits
  <2> QED BY <2>1, ZenonT(60)
<1>2. ASSUME NEW m \in Nat, m \in T PROVE m + 1 \in T
  <2>1. PICK g \in [0..m -> V] : Fits(m, g)
    BY <1>2
  <2> DEFINE w == IF m + 1 <= N THEN step[<<m + 1, g[m]>>] ELSE v
             h == [n \in 0..m + 1 |-> IF n = m + 1 THEN w ELSE g[n]]
  <2>2. w \in V
    <3>1. g[m] \in V
      OBVIOUS
    <3>2. m + 1 <= N => m + 1 \in 1..N
      OBVIOUS
    <3>3. m + 1 <= N => <<m + 1, g[m]>> \in (1..N) \X V
      BY <3>1, <3>2, ZenonT(60)
    <3> QED BY <3>3, ZenonT(60)
  <2>3. h \in [0..m + 1 -> V]
    BY <2>2
  <2>4. h[0] = v /\ h[m + 1] = w /\ \A n \in 0..m : h[n] = g[n]
    BY <2>1
  <2> HIDE DEF h
  <2>5. ASSUME NEW n \in 1..m + 1, n <= N PROVE h[n] = step[<<n, h[n - 1]>>]
    <3>1. CASE n = m + 1
      <4>1. n - 1 = m /\ m \in 0..m
        BY <3>1
      <4> QED
        BY <2>4, <2>5, <3>1, <4>1, ZenonT(60)
    <3>2. CASE n # m + 1
      <4>1. n \in 1..m /\ n \in 0..m /\ n - 1 \in 0..m
        BY <3>2
      <4> QED
        BY <2>1, <2>4, <2>5, <4>1, ZenonT(60)
    <3> QED BY <3>1, <3>2
  <2>6. Fits(m + 1, h)
    BY <2>4, <2>5, ZenonT(60)
  <2> HIDE DEF Fits
  <2>7. m + 1 \in Nat
    OBVIOUS
  <2> QED
    BY <2>3, <2>6, <2>7, ZenonT(60)
<1> HIDE DEF T
<1>3. N \in T
  BY <1>1, <1>2, Induction
<1>4. PICK g \in [0..N -> V] : Fits(N, g)
  BY <1>3 DEF T
<1>5. \A n \in 1..N : n <= N
  OBVIOUS
<1>6. Iterates(g, N, v, step)
  BY <1>4, <1>5, ZenonT(60) DEF Iterates
<1> QED
  BY <1>6, ZenonT(60)

-----------------------------------------------------------------------------
(* The redactor *)

(* The least of a set of numbers that is not empty. *)
LEMMA MinIsLeast ==
  ASSUME NEW T, T \subseteq Nat, T # {}
  PROVE  Min(T) \in T /\ \A y \in T : Min(T) <= y
  BY LeastNumber, ZenonT(60) DEF Min

(* Sequences none of whose elements is in T. *)
Without(s, T) == \A i \in DOMAIN s : s[i] \notin T

(* std::string::find: the position found is the first, or one past the end. *)
LEMMA FindFirst ==
  ASSUME NEW C, NEW s \in Seq(C), NEW T, NEW from \in 1..Len(s) + 1
  PROVE  /\ Find(s, T, from) \in from..Len(s) + 1
         /\ \A i \in from..Find(s, T, from) - 1 : s[i] \notin T
         /\ Find(s, T, from) <= Len(s) => s[Find(s, T, from)] \in T
<1> DEFINE S == {i \in from..Len(s) : s[i] \in T} \cup {Len(s) + 1}
           m == Min(S)
<1>1. Len(s) \in Nat /\ S \subseteq Nat /\ S # {}
  OBVIOUS
<1>2. m \in S /\ \A y \in S : m <= y
  BY <1>1, MinIsLeast, ZenonT(60)
<1>3. Find(s, T, from) = m
  BY ZenonT(60) DEF Find
<1> HIDE DEF m
<1> QED
  BY <1>1, <1>2, <1>3

(* A part of a sequence: its length and its elements. *)
LEMMA PartOf ==
  ASSUME NEW C, NEW s \in Seq(C), NEW a \in 1..Len(s) + 1, NEW b \in 0..Len(s)
  PROVE  /\ SubSeq(s, a, b) \in Seq(C)
         /\ \A i \in DOMAIN SubSeq(s, a, b) :
              a + i - 1 \in a..b /\ a + i - 1 \in DOMAIN s /\ SubSeq(s, a, b)[i] = s[a + i - 1]
  OBVIOUS

(* The same for a part from the beginning. *)
LEMMA PrefixOf ==
  ASSUME NEW C, NEW s \in Seq(C), NEW b \in 0..Len(s)
  PROVE  /\ SubSeq(s, 1, b) \in Seq(C)
         /\ \A i \in DOMAIN SubSeq(s, 1, b) :
              i \in 1..b /\ i \in DOMAIN s /\ SubSeq(s, 1, b)[i] = s[i]
  OBVIOUS

(* A part has no element the whole has not. *)
LEMMA PartWithout ==
  ASSUME NEW C, NEW s \in Seq(C), NEW T, Without(s, T),
         NEW a \in 1..Len(s) + 1, NEW b \in 0..Len(s)
  PROVE  Without(SubSeq(s, a, b), T)
  BY PartOf, ZenonT(60) DEF Without

(* Nor has a sequence any element that its two parts have not. *)
LEMMA JoinWithout ==
  ASSUME NEW C, NEW s \in Seq(C), NEW t \in Seq(C), NEW T, Without(s, T), Without(t, T)
  PROVE  s \o t \in Seq(C) /\ Without(s \o t, T)
  BY DEF Without

(* resize at the first t: no t is left, and nothing new comes in. *)
LEMMA CutWithout ==
  ASSUME NEW C, NEW s \in Seq(C), NEW t, NEW T, Without(s, T)
  PROVE  CutAt(s, t) \in Seq(C) /\ Without(CutAt(s, t), T \cup {t})
<1> DEFINE m == Find(s, {t}, 1)
<1>1. 1 \in 1..Len(s) + 1 /\ Len(s) \in Nat
  OBVIOUS
<1>2. m \in 1..Len(s) + 1 /\ \A i \in 1..m - 1 : s[i] # t
  BY <1>1, FindFirst, ZenonT(60)
<1>3. CutAt(s, t) = SubSeq(s, 1, m - 1)
  BY ZenonT(60) DEF CutAt
<1> HIDE DEF m
<1>4. m - 1 \in 0..Len(s)
  BY <1>1, <1>2
<1>5. /\ CutAt(s, t) \in Seq(C)
      /\ \A i \in DOMAIN CutAt(s, t) :
           i \in 1..m - 1 /\ i \in DOMAIN s /\ CutAt(s, t)[i] = s[i]
  <2> DEFINE p == SubSeq(s, 1, m - 1)
  <2>1. p \in Seq(C) /\ \A i \in DOMAIN p : i \in 1..m - 1 /\ i \in DOMAIN s /\ p[i] = s[i]
    BY <1>4, PrefixOf, ZenonT(60)
  <2>2. CutAt(s, t) = p
    BY <1>3
  <2> HIDE DEF p
  <2> QED
    BY <2>1, <2>2, ZenonT(60)
<1>6. ASSUME NEW i \in DOMAIN CutAt(s, t) PROVE CutAt(s, t)[i] \notin T \cup {t}
  <2>1. i \in 1..m - 1 /\ i \in DOMAIN s /\ CutAt(s, t)[i] = s[i]
    BY <1>5, <1>6
  <2>2. s[i] # t /\ s[i] \notin T
    BY <1>2, <2>1, ZenonT(60) DEF Without
  <2> QED
    BY <2>1, <2>2, ZenonT(60)
<1> QED
  BY <1>5, <1>6, ZenonT(60) DEF Without

(* Fragment and query are cut off whatever the URL. *)
LEMMA StripWithout ==
  ASSUME NEW C, NEW url \in Seq(C)
  PROVE  Strip(url) \in Seq(C) /\ Without(Strip(url), {"?", "#"})
<1>1. Without(url, {})
  BY ZenonT(60) DEF Without
<1>2. CutAt(url, "#") \in Seq(C) /\ Without(CutAt(url, "#"), {} \cup {"#"})
  BY <1>1, CutWithout, ZenonT(60)
<1>3. CutAt(CutAt(url, "#"), "?") \in Seq(C)
      /\ Without(CutAt(CutAt(url, "#"), "?"), ({} \cup {"#"}) \cup {"?"})
  BY <1>2, CutWithout, ZenonT(60)
<1>4. ({} \cup {"#"}) \cup {"?"} = {"?", "#"}
  BY ZenonT(60)
<1> QED
  BY <1>3, <1>4, ZenonT(60) DEF Strip

(* The host of a URL is a part of it that holds no separator. *)
LEMMA HostPart ==
  ASSUME NEW C, NEW url \in Seq(C)
  PROVE  /\ HostStart(url) \in 1..Len(url) + 1
         /\ UrlHost(url) \in Seq(C)
         /\ Without(UrlHost(url), {"/", "?", "#"})
<1>1. 1 \in 1..Len(url) + 1 /\ Len(url) \in Nat
  OBVIOUS
<1>2. HostStart(url) \in 1..Len(url) + 1
  <2> DEFINE scheme == Find(url, {"://"}, 1)
  <2>1. scheme \in 1..Len(url) + 1
    BY <1>1, FindFirst, ZenonT(60)
  <2>2. HostStart(url) = IF scheme > Len(url) THEN 1 ELSE scheme + 1
    BY ZenonT(60) DEF HostStart
  <2> HIDE DEF scheme
  <2> QED
    BY <1>1, <2>1, <2>2
<1> DEFINE T == {"/", "?", "#"}
           a == HostStart(url)
           m == Find(url, T, a)
<1>3. UrlHost(url) = SubSeq(url, a, m - 1)
  BY ZenonT(60) DEF UrlHost
<1> HIDE DEF a, T
<1>4. m \in a..Len(url) + 1 /\ \A i \in a..m - 1 : url[i] \notin T
  BY <1>2, FindFirst, ZenonT(60) DEF a
<1> HIDE DEF m
<1>5. a \in 1..Len(url) + 1
  BY <1>2, ZenonT(60) DEF a
<1>6. m - 1 \in 0..Len(url)
  BY <1>1, <1>4, <1>5
<1>7. /\ UrlHost(url) \in Seq(C)
      /\ \A i \in DOMAIN UrlHost(url) :
           a + i - 1 \in a..m - 1 /\ UrlHost(url)[i] = url[a + i - 1]
  BY <1>3, <1>5, <1>6, PartOf, ZenonT(60)
<1>8. Without(UrlHost(url), T)
  BY <1>4, <1>7, ZenonT(60) DEF Without
<1> QED
  BY <1>2, <1>7, <1>8, ZenonT(60) DEF T

(* What names and URLs are made of, with what the redactor puts there. *)
Glyphs == STRING \cup {"digest", "*", "a", "b", "c"}

(* A string of the input is one of these. *)
LEMMA StringGlyphs == \A s \in Seq(STRING) : s \in Seq(Glyphs)
  BY DEF Glyphs

(* hash and mask: neither puts a separator into the host. *)
LEMMA TransformWithout ==
  ASSUME NEW p, NEW host \in Seq(Glyphs), Without(host, {"?", "#"})
  PROVE  TransformHostname(p, host) \in Seq(Glyphs) /\ Without(TransformHostname(p, host), {"?", "#"})
<1>1. Digest \in Seq(Glyphs) /\ Without(Digest, {"?", "#"})
  <2>1. \A c \in Glyphs : <<c>> \in Seq(Glyphs) /\ DOMAIN <<c>> = {1} /\ <<c>>[1] = c
    OBVIOUS
  <2>2. "digest" \in Glyphs /\ "digest" \notin {"?", "#"}
    BY ZenonT(60) DEF Glyphs
  <2> QED
    BY <2>1, <2>2, ZenonT(60) DEF Digest, Without
<1>2. Mask(host) \in Seq(Glyphs) /\ Without(Mask(host), {"?", "#"})
  <2> DEFINE dots == {i \in DOMAIN host : host[i] = "."}
             end  == IF Cardinality(dots) > 1 THEN Max(dots \ {Max(dots)}) ELSE Max(dots \cup {0})
  <2>1. Mask(host) = [i \in DOMAIN host |-> IF end > 2 /\ i \in 2..end - 1 THEN "*" ELSE host[i]]
    BY ZenonT(60) DEF Mask
  <2> HIDE DEF end
  <2>2. DOMAIN Mask(host) = DOMAIN host /\ \A i \in DOMAIN host : Mask(host)[i] \in {"*", host[i]}
    BY <2>1, ZenonT(60)
  <2>3. Mask(host) \in [DOMAIN host -> Glyphs]
    <3>1. \A i \in DOMAIN host : host[i] \in Glyphs
      OBVIOUS
    <3>2. "*" \in Glyphs
      BY ZenonT(60) DEF Glyphs
    <3>3. \A i \in DOMAIN host : (IF end > 2 /\ i \in 2..end - 1 THEN "*" ELSE host[i]) \in Glyphs
      BY <3>1, <3>2, ZenonT(60)
    <3> QED
      BY <2>1, <3>3, ZenonT(60)
  <2>4. Len(host) \in Nat /\ DOMAIN host = 1..Len(host)
    OBVIOUS
  <2>5. Mask(host) \in Seq(Glyphs)
    BY <2>3, <2>4
  <2>6. \A c : c \in {"*"} => c \notin {"?", "#"}
    OBVIOUS
  <2> QED
    BY <2>2, <2>5, <2>6, ZenonT(60) DEF Without
<1>3. \/ TransformHostname(p, host) = Digest
      \/ TransformHostname(p, host) = Mask(host)
      \/ TransformHostname(p, host) = host
  BY ZenonT(60) DEF TransformHostname
<1> QED
  BY <1>1, <1>2, <1>3, ZenonT(60)

(* redact_url: no mode lets a query or a fragment through. *)
LEMMA RedactedUrl ==
  ASSUME NEW p, NEW url \in Seq(Glyphs)
  PROVE  Without(RedactUrl(p, url), {"?", "#"})
<1> DEFINE T        == {"?", "#"}
           start    == HostStart(url)
           stripped == Strip(url)
           from     == Min({start, Len(stripped) + 1})
           rest     == Find(stripped, {"/", "?", "#"}, from)
           path     == Find(stripped, {"/"}, from)
           host     == TransformHostname(p, UrlHost(url))
<1>1. stripped \in Seq(Glyphs) /\ Without(stripped, T)
  BY StripWithout, ZenonT(60)
<1>2. host \in Seq(Glyphs) /\ Without(host, T)
  <2>1. UrlHost(url) \in Seq(Glyphs) /\ Without(UrlHost(url), {"/", "?", "#"})
    BY HostPart, ZenonT(60)
  <2>2. Without(UrlHost(url), T)
    BY <2>1, ZenonT(60) DEF Without
  <2> QED
    BY <2>1, <2>2, TransformWithout, ZenonT(60)
<1>3. \/ RedactUrl(p, url) = <<>>
      \/ RedactUrl(p, url) = stripped
      \/ RedactUrl(p, url) = SubSeq(stripped, 1, path - 1)
      \/ RedactUrl(p, url) = SubSeq(stripped, 1, from - 1) \o host \o SubSeq(stripped, rest, Len(stripped))
  BY ZenonT(60) DEF RedactUrl
<1>4. start \in 1..Len(url) + 1 /\ Len(url) \in Nat
  <2>1. Len(url) \in Nat
    OBVIOUS
  <2> QED
    BY <2>1, HostPart, ZenonT(60)
<1> HIDE DEF T, start, stripped, host
<1>5. Len(stripped) \in Nat /\ from \in 1..Len(stripped) + 1
  <2>1. Len(stripped) \in Nat /\ start \in Nat /\ start >= 1
    BY <1>1, <1>4
  <2>2. {start, Len(stripped) + 1} \subseteq Nat /\ {start, Len(stripped) + 1} # {}
    BY <2>1
  <2>3. from \in {start, Len(stripped) + 1} /\ \A y \in {start, Len(stripped) + 1} : from <= y
    BY <2>2, MinIsLeast, ZenonT(60)
  <2> HIDE DEF from
  <2> QED
    BY <2>1, <2>3
<1>6. rest \in from..Len(stripped) + 1 /\ path \in from..Len(stripped) + 1
  BY <1>1, <1>5, FindFirst, ZenonT(60)
<1> HIDE DEF from, rest, path
<1>7. /\ 1 \in 1..Len(stripped) + 1 /\ rest \in 1..Len(stripped) + 1
      /\ path - 1 \in 0..Len(stripped) /\ from - 1 \in 0..Len(stripped)
      /\ Len(stripped) \in 0..Len(stripped)
  BY <1>5, <1>6
<1>8. /\ SubSeq(stripped, 1, path - 1) \in Seq(Glyphs) /\ Without(SubSeq(stripped, 1, path - 1), T)
      /\ SubSeq(stripped, 1, from - 1) \in Seq(Glyphs) /\ Without(SubSeq(stripped, 1, from - 1), T)
      /\ SubSeq(stripped, rest, Len(stripped)) \in Seq(Glyphs)
      /\ Without(SubSeq(stripped, rest, Len(stripped)), T)
  BY <1>1, <1>7, PartOf, PartWithout, ZenonT(60)
<1>9. Without(SubSeq(stripped, 1, from - 1) \o host \o SubSeq(stripped, rest, Len(stripped)), T)
  BY <1>2, <1>8, JoinWithout, ZenonT(60)
<1>10. Without(<<>>, T)
  BY DEF Without
<1> QED
  BY <1>1, <1>3, <1>8, <1>9, <1>10, ZenonT(60) DEF T

-----------------------------------------------------------------------------
(* ToLower keeps the length and the dots. *)
LEMMA LowerShape ==
  ASSUME NEW s \in Seq(Glyphs)
  PROVE  /\ Len(ToLower(s)) = Len(s) /\ ToLower(s) \in Seq(Glyphs)
         /\ \A i \in DOMAIN s : s[i] = "." => ToLower(s)[i] = "."
<1>1. Len(s) \in Nat /\ DOMAIN s = 1..Len(s) /\ \A i \in DOMAIN s : s[i] \in Glyphs
  OBVIOUS
<1>2. \A c \in DOMAIN LowerCase : LowerCase[c] \in Glyphs
  <2>1. DOMAIN LowerCase = {"A", "B", "C"}
    BY DEF LowerCase
  <2>2. LowerCase["A"] = "a" /\ LowerCase["B"] = "b" /\ LowerCase["C"] = "c"
    BY DEF LowerCase
  <2> QED
    BY <2>1, <2>2, ZenonT(60) DEF Glyphs
<1>3. "." \notin DOMAIN LowerCase
  BY DEF LowerCase
<1>4. ToLower(s) = [i \in DOMAIN s |-> IF s[i] \in DOMAIN LowerCase THEN LowerCase[s[i]] ELSE s[i]]
  BY ZenonT(60) DEF ToLower
<1>5. \A i \in DOMAIN s : (IF s[i] \in DOMAIN LowerCase THEN LowerCase[s[i]] ELSE s[i]) \in Glyphs
  BY <1>1, <1>2, ZenonT(60)
<1>6. ToLower(s) \in [1..Len(s) -> Glyphs]
  BY <1>1, <1>4, <1>5, ZenonT(60)
<1>7. ToLower(s) \in Seq(Glyphs) /\ Len(ToLower(s)) = Len(s)
  BY <1>1, <1>6
<1> QED
  BY <1>3, <1>4, <1>7, ZenonT(60)

(* What follows a part of a name, in lower case, follows it there too. *)
LEMMA LowerTail ==
  ASSUME NEW s \in Seq(Glyphs), NEW i \in DOMAIN s
  PROVE  ToLower(SubSeq(s, i + 1, Len(s))) = SubSeq(ToLower(s), i + 1, Len(s))
<1> DEFINE t == SubSeq(s, i + 1, Len(s))
           low == ToLower(s)
           u == SubSeq(low, i + 1, Len(s))
<1>1. i \in 1..Len(s) /\ Len(s) \in Nat
  OBVIOUS
<1>2. /\ t \in Seq(Glyphs) /\ Len(t) = Len(s) - i
      /\ \A k \in 1..Len(s) - i : t[k] = s[i + k] /\ i + k \in DOMAIN s
  BY <1>1
<1>3. low \in Seq(Glyphs) /\ Len(low) = Len(s)
  BY LowerShape, ZenonT(60)
<1>4. ToLower(t) \in Seq(Glyphs) /\ Len(ToLower(t)) = Len(s) - i
  BY <1>2, LowerShape, ZenonT(60)
<1> HIDE DEF low
<1>5. /\ u \in Seq(Glyphs) /\ Len(u) = Len(s) - i
      /\ \A k \in 1..Len(s) - i : u[k] = low[i + k]
  BY <1>1, <1>3
<1>6. DOMAIN t = 1..Len(s) - i
  BY <1>2
<1>7. ASSUME NEW k \in 1..Len(s) - i PROVE ToLower(t)[k] = u[k]
  <2>1. t[k] = s[i + k] /\ i + k \in DOMAIN s /\ k \in DOMAIN t /\ u[k] = low[i + k]
    BY <1>2, <1>5, <1>6, <1>7, ZenonT(60)
  <2> HIDE DEF t, u
  <2> QED
    BY <2>1, ZenonT(60) DEF low, ToLower
<1> HIDE DEF t, u
<1>8. ToLower(t) = u
  <2> DEFINE v == ToLower(t)
  <2>1. v \in Seq(Glyphs) /\ u \in Seq(Glyphs) /\ Len(v) = Len(u) /\ \A k \in 1..Len(v) : v[k] = u[k]
    BY <1>4, <1>5, <1>7, ZenonT(60)
  <2> HIDE DEF v
  <2>2. v = u
    BY <2>1
  <2> QED
    BY <2>2 DEF v
<1> QED
  BY <1>8, ZenonT(60) DEF t, u, low

(* domain_excluded: a name in a sensitive domain is recognised. *)
LEMMA SensitiveExcluded ==
  ASSUME NEW p, NEW name \in Seq(Glyphs), p.sensitive \subseteq Seq(Glyphs), Sensitive(p, name)
  PROVE  DomainExcluded(p, name)
<1>1. PICK s \in Parents(name), d \in p.sensitive : ToLower(s) = ToLower(d)
  BY ZenonT(60) DEF Sensitive
<1> SUFFICES HostUnderDomain(ToLower(name), ToLower(d))
  BY ZenonT(60) DEF DomainExcluded
<1>2. CASE s = name
  BY <1>1, <1>2, ZenonT(60) DEF HostUnderDomain
<1>3. ASSUME NEW i \in DOMAIN name, name[i] = ".", s = SubSeq(name, i + 1, Len(name))
      PROVE  HostUnderDomain(ToLower(name), ToLower(d))
  <2> DEFINE low == ToLower(name)
             dom == ToLower(d)
  <2>1. low \in Seq(Glyphs) /\ Len(low) = Len(name) /\ low[i] = "."
    BY <1>3, LowerShape, ZenonT(60)
  <2>2. dom = SubSeq(low, i + 1, Len(name))
    BY <1>1, <1>3, LowerTail, ZenonT(60)
  <2>3. i \in 1..Len(name) /\ Len(name) \in Nat
    BY <1>3
  <2> HIDE DEF low, dom
  <2>4. i \in 1..Len(low) /\ Len(low) \in Nat /\ dom = SubSeq(low, i + 1, Len(low))
    BY <2>1, <2>2, <2>3, ZenonT(60)
  <2>5. Len(dom) = Len(low) - i
    BY <2>1, <2>4
  <2>6. Len(low) > Len(dom) /\ Len(low) - Len(dom) = i
    BY <2>4, <2>5
  <2> QED
    BY <2>1, <2>4, <2>6, ZenonT(60) DEF HostUnderDomain, low, dom
<1> QED
  BY <1>1, <1>2, <1>3, ZenonT(60) DEF Parents

-----------------------------------------------------------------------------
(* The correlator *)

(* score_evidence: what the three kinds of evidence add up to; the cap on  *)
(* pcap evidence lies above.                                               *)
LEMMA ScoreSum ==
  ASSUME NEW process \in BOOLEAN, NEW temporal \in BOOLEAN, NEW host \in BOOLEAN, NEW pcap \in BOOLEAN
  PROVE  /\ ScoreEvidence(process, temporal, host, pcap) \in 0..70
         /\ ~process => ScoreEvidence(process, temporal, host, pcap) < 40
         /\ process => ScoreEvidence(process, temporal, host, pcap) >= 40
<1> DEFINE score == Weight(process, 40) + Weight(temporal, 12) + Weight(host, 18)
<1>1. score \in Nat /\ score <= 70 /\ (~process => score < 40) /\ (process => score >= 40)
  BY DEF Weight
<1> HIDE DEF score
<1>2. {score, PcapCap} \subseteq Nat /\ {score, PcapCap} # {} /\ PcapCap = 69
  BY <1>1 DEF PcapCap
<1>3. Min({score, PcapCap}) \in {score, PcapCap} /\ \A y \in {score, PcapCap} : Min({score, PcapCap}) <= y
  BY <1>2, MinIsLeast, ZenonT(60)
<1> DEFINE capped == Min({score, PcapCap})
<1>4. ScoreEvidence(process, temporal, host, pcap) = IF pcap THEN capped ELSE score
  BY ZenonT(60) DEF ScoreEvidence, score
<1>5. capped \in {score, 69} /\ capped <= score
  BY <1>2, <1>3, ZenonT(60)
<1> HIDE DEF capped
<1> QED
  BY <1>1, <1>4, <1>5

(* A navigation as it is recorded. *)
Nav == [host : Seq(STRING), url : Seq(STRING), ts : Nat]

(* The pruning drops expired navigations from the front and nothing else. *)
LEMMA PruneTail ==
  ASSUME NEW navs \in Seq(Nav), NEW time \in Nat
  PROVE  /\ Prune(navs, time) \in Seq(Nav)
         /\ \E k \in 0..Len(navs) :
              /\ Len(Prune(navs, time)) = Len(navs) - k
              /\ \A i \in 1..Len(navs) - k : Prune(navs, time)[i] = navs[k + i]
              /\ \A i \in 1..k : Expired(navs[i], time)
<1> DEFINE S == {i \in DOMAIN navs : ~Expired(navs[i], time)} \cup {Len(navs) + 1}
           m == Min(S)
<1>1. Len(navs) \in Nat /\ DOMAIN navs = 1..Len(navs) /\ S \subseteq Nat /\ S # {}
  OBVIOUS
<1>2. m \in S /\ \A y \in S : m <= y
  BY <1>1, MinIsLeast, ZenonT(60)
<1>3. Prune(navs, time) = SubSeq(navs, m, Len(navs))
  BY ZenonT(60) DEF Prune
<1> HIDE DEF m
<1>4. m \in 1..Len(navs) + 1 /\ \A i \in 1..m - 1 : Expired(navs[i], time)
  BY <1>1, <1>2
<1>5. m - 1 \in 0..Len(navs) /\ Len(navs) \in 0..Len(navs)
  BY <1>1, <1>4
<1>6. /\ Prune(navs, time) \in Seq(Nav)
      /\ Len(Prune(navs, time)) = Len(navs) - (m - 1)
      /\ \A i \in 1..Len(navs) - (m - 1) : Prune(navs, time)[i] = navs[(m - 1) + i]
  BY <1>1, <1>3, <1>4
<1> QED
  BY <1>4, <1>5, <1>6, ZenonT(60)

(* record_navigation keeps the newest kMaxNavigations. *)
LEMMA BoundedTail ==
  ASSUME NEW navs \in Seq(Nav)
  PROVE  Bounded(navs) \in Seq(Nav) /\ Len(Bounded(navs)) <= MaxNavigations
<1> DEFINE m == Max({1, Len(navs) - MaxNavigations + 1})
<1>0. MaxNavigations \in Nat \ {0} /\ Len(navs) \in Nat
  <2>1. Len(navs) \in Nat
    OBVIOUS
  <2> QED
    BY <2>1, PipelineAssumption, ZenonT(60) DEF PipelineAssumption
<1>1. m \in {1, Len(navs) - MaxNavigations + 1} /\ m >= 1 /\ m >= Len(navs) - MaxNavigations + 1
  <2> DEFINE S == {1, Len(navs) - MaxNavigations + 1}
  <2>1. \E x \in S : \A y \in S : x >= y
    BY <1>0
  <2>2. m \in S /\ \A y \in S : m >= y
    BY <2>1, ZenonT(60) DEF Max
  <2> QED
    BY <2>2, ZenonT(60)
<1>2. Bounded(navs) = SubSeq(navs, m, Len(navs))
  BY ZenonT(60) DEF Bounded
<1> HIDE DEF m
<1>3. m \in 1..Len(navs) + 1 /\ Len(navs) - m + 1 <= MaxNavigations
  BY <1>0, <1>1
<1> QED
  BY <1>0, <1>2, <1>3

(* What best_match holds when it has found a navigation. *)
Hit(nav) == [found |-> TRUE, nav |-> nav]

(* What best_match's result tells apart. *)
LEMMA HitFields ==
  ASSUME NEW nav
  PROVE  Hit(nav).found = TRUE /\ Hit(nav).nav = nav /\ NoMatch.found = FALSE /\ Hit(nav) # NoMatch
<1>1. Hit(nav).found = TRUE /\ Hit(nav).nav = nav
  BY DEF Hit
<1>2. NoMatch.found = FALSE
  BY DEF NoMatch
<1> QED
  BY <1>1, <1>2, ZenonT(60)

(* The navigations best_match considers. *)
Near(e, nav) == AbsDelta(nav.ts, e.ts) <= NavigationWindow

(* The walk of best_match, one navigation at a time. *)
LEMMA WalkSteps ==
  ASSUME NEW e, NEW navs \in Seq(Nav)
  PROVE  /\ BestSoFar(e, navs)[0] = NoMatch
         /\ \A n \in 1..Len(navs) :
              BestSoFar(e, navs)[n] =
                IF Near(e, navs[n]) /\ Better(e, navs[n], BestSoFar(e, navs)[n - 1])
                THEN Hit(navs[n]) ELSE BestSoFar(e, navs)[n - 1]
<1> DEFINE N == Len(navs)
           V == {NoMatch} \cup {Hit(navs[i]) : i \in 1..N}
           Step(n, best) == IF Near(e, navs[n]) /\ Better(e, navs[n], best)
                            THEN Hit(navs[n]) ELSE best
           step == [q \in (1..N) \X V |-> Step(q[1], q[2])]
           Walk(best) == [n \in 0..N |-> IF n = 0 THEN NoMatch ELSE Step(n, best[n - 1])]
<1>1. N \in Nat
  OBVIOUS
<1> HIDE DEF N
<1>2. \A n \in 1..N : \A best \in V : Step(n, best) \in V
  BY ZenonT(60)
<1>3. NoMatch \in V
  BY ZenonT(60)
<1>4. BestSoFar(e, navs) = CHOOSE best : best = Walk(best)
  BY ZenonT(60) DEF BestSoFar, Hit, Near, N
<1> HIDE DEF Step, V
<1>5. step \in [(1..N) \X V -> V]
  <2>1. \A q \in (1..N) \X V : q[1] \in 1..N /\ q[2] \in V
    OBVIOUS
  <2>2. \A q \in (1..N) \X V : Step(q[1], q[2]) \in V
    BY <1>2, <2>1, ZenonT(60)
  <2> QED
    BY <2>2, ZenonT(60)
<1> HIDE DEF step
<1>6. PICK g \in [0..N -> V] : Iterates(g, N, NoMatch, step)
  BY <1>1, <1>3, <1>5, Recursion, ZenonT(60)
<1>7. ASSUME NEW n \in 1..N PROVE g[n] = Step(n, g[n - 1])
  <2>1. n - 1 \in 0..N
    BY <1>1
  <2>2. g[n - 1] \in V
    BY <2>1, ZenonT(60)
  <2>3. <<n, g[n - 1]>> \in (1..N) \X V /\ <<n, g[n - 1]>>[1] = n /\ <<n, g[n - 1]>>[2] = g[n - 1]
    BY <2>2
  <2> QED
    BY <1>6, <2>3, ZenonT(60) DEF step, Iterates
<1>8. g = Walk(g)
  <2>1. \A n \in 0..N : n # 0 => n \in 1..N
    BY <1>1
  <2>2. \A n \in 0..N : g[n] = IF n = 0 THEN NoMatch ELSE Step(n, g[n - 1])
    BY <1>6, <1>7, <2>1, ZenonT(60) DEF Iterates
  <2> QED
    BY <2>2, ZenonT(60)
<1>9. BestSoFar(e, navs) = Walk(BestSoFar(e, navs))
  BY <1>4, <1>8, ZenonT(60)
<1>10. 0 \in 0..N /\ \A n \in 1..N : n \in 0..N /\ n # 0
  BY <1>1
<1>11. /\ BestSoFar(e, navs)[0] = NoMatch
       /\ \A n \in 1..N : BestSoFar(e, navs)[n] = Step(n, BestSoFar(e, navs)[n - 1])
  BY <1>9, <1>10, ZenonT(60)
<1> QED
  BY <1>11, ZenonT(60) DEF Step, N

(* The order in which best_match prefers navigations, on what it compares: *)
(* host evidence first (rank 0), then the smaller distance, then the place. *)
First(rank, delta, i, j) ==
  \/ rank[i] < rank[j]
  \/ rank[i] = rank[j] /\ delta[i] < delta[j]
  \/ rank[i] = rank[j] /\ delta[i] = delta[j] /\ i <= j

(* The order without the place: what makes best_match replace its best. *)
Beats(rank, delta, i, j) ==
  \/ rank[i] < rank[j]
  \/ rank[i] = rank[j] /\ delta[i] < delta[j]

(* A navigation that is better than the best so far is better than all      *)
(* before it; one that is not comes after the best.                         *)
LEMMA FirstStep ==
  ASSUME NEW N \in Nat, NEW rank \in [1..N -> Int], NEW delta \in [1..N -> Int],
         NEW n \in 1..N, NEW i \in 1..n - 1
  PROVE  /\ First(rank, delta, n, n)
         /\ Beats(rank, delta, n, i) =>
              \A j \in 1..n - 1 : First(rank, delta, i, j) => First(rank, delta, n, j)
         /\ ~Beats(rank, delta, n, i) => First(rank, delta, i, n)
<1>1. i \in 1..N /\ n \in Int /\ i \in Int /\ i <= n /\ \A j \in 1..n - 1 : j \in 1..N
  OBVIOUS
<1>2. rank[i] \in Int /\ rank[n] \in Int /\ delta[i] \in Int /\ delta[n] \in Int
  BY <1>1
<1>3. First(rank, delta, n, n)
  BY <1>1, <1>2 DEF First
<1>4. ~Beats(rank, delta, n, i) => First(rank, delta, i, n)
  <2>1. \A a, b, c, d \in Int :
          ~(a < b \/ (a = b /\ c < d)) => b < a \/ (b = a /\ d < c) \/ (b = a /\ d = c)
    OBVIOUS
  <2> QED
    BY <1>1, <1>2, <2>1, ZenonT(60) DEF First, Beats
<1>5. ASSUME Beats(rank, delta, n, i), NEW j \in 1..n - 1, First(rank, delta, i, j)
      PROVE  First(rank, delta, n, j)
  <2>1. j \in 1..N /\ rank[j] \in Int /\ delta[j] \in Int
    BY <1>1
  <2> QED
    BY <1>1, <1>2, <1>5, <2>1 DEF First, Beats
<1> QED
  BY <1>3, <1>4, <1>5, ZenonT(60)

(* What best_match compares for each navigation. *)
Ranks(e, navs)  == [i \in 1..Len(navs) |-> IF HostMatch(e, navs[i]) THEN 0 ELSE 1]
Deltas(e, navs) == [i \in 1..Len(navs) |-> AbsDelta(navs[i].ts, e.ts)]

(* b is the best of the first n navigations, none if none is near. *)
BestOf(e, navs, n, b) ==
  \/ b = NoMatch /\ \A j \in 1..n : ~Near(e, navs[j])
  \/ \E i \in 1..n : /\ Near(e, navs[i]) /\ b = Hit(navs[i])
                     /\ \A j \in 1..n : Near(e, navs[j]) => First(Ranks(e, navs), Deltas(e, navs), i, j)

(* What is compared are numbers, and best_match's test compares them. *)
LEMMA BetterBeats ==
  ASSUME NEW e, e.ts \in Nat, NEW navs \in Seq(Nav), NEW n \in 1..Len(navs), NEW i \in 1..Len(navs)
  PROVE  /\ Ranks(e, navs) \in [1..Len(navs) -> Int] /\ Deltas(e, navs) \in [1..Len(navs) -> Int]
         /\ Better(e, navs[n], Hit(navs[i])) <=> Beats(Ranks(e, navs), Deltas(e, navs), n, i)
         /\ Better(e, navs[n], NoMatch)
<1>1. \A k \in 1..Len(navs) : navs[k].ts \in Nat
  <2>1. \A k \in 1..Len(navs) : navs[k] \in Nav
    OBVIOUS
  <2>2. \A nav \in Nav : nav.ts \in Nat
    BY DEF Nav
  <2> QED
    BY <2>1, <2>2, ZenonT(60)
<1>2. \A x, y \in Nat : AbsDelta(x, y) \in Int
  BY DEF AbsDelta
<1>3. Deltas(e, navs) \in [1..Len(navs) -> Int]
  BY <1>1, <1>2, ZenonT(60) DEF Deltas
<1>4. Ranks(e, navs) \in [1..Len(navs) -> Int]
  BY DEF Ranks
<1> DEFINE hn == HostMatch(e, navs[n])
           hi == HostMatch(e, navs[i])
           dn == AbsDelta(navs[n].ts, e.ts)
           di == AbsDelta(navs[i].ts, e.ts)
<1>5. /\ Ranks(e, navs)[n] = IF hn THEN 0 ELSE 1
      /\ Ranks(e, navs)[i] = IF hi THEN 0 ELSE 1
      /\ Deltas(e, navs)[n] = dn /\ Deltas(e, navs)[i] = di
  BY ZenonT(60) DEF Ranks, Deltas
<1>6. hn \in BOOLEAN /\ hi \in BOOLEAN
  BY ZenonT(60) DEF HostMatch
<1>7. Better(e, navs[n], Hit(navs[i])) <=> (hn /\ ~hi) \/ (hn = hi /\ dn < di)
  BY HitFields, ZenonT(60) DEF Better
<1>8. Better(e, navs[n], NoMatch)
  BY HitFields, ZenonT(60) DEF Better
<1> HIDE DEF hn, hi, dn, di
<1> DEFINE rn == IF hn THEN 0 ELSE 1
           ri == IF hi THEN 0 ELSE 1
<1>9. (rn < ri <=> hn /\ ~hi) /\ (rn = ri <=> hn = hi)
  BY <1>6
<1>10. Beats(Ranks(e, navs), Deltas(e, navs), n, i) <=> rn < ri \/ (rn = ri /\ dn < di)
  BY <1>5, ZenonT(60) DEF Beats
<1> HIDE DEF rn, ri
<1>11. Better(e, navs[n], Hit(navs[i])) <=> Beats(Ranks(e, navs), Deltas(e, navs), n, i)
  BY <1>7, <1>9, <1>10, ZenonT(60)
<1> QED
  BY <1>3, <1>4, <1>8, <1>11, ZenonT(60)

(* One turn of best_match's loop keeps the best. *)
LEMMA BestStep ==
  ASSUME NEW e, e.ts \in Nat, NEW navs \in Seq(Nav), NEW n \in 1..Len(navs), NEW b,
         BestOf(e, navs, n - 1, b)
  PROVE  BestOf(e, navs, n, IF Near(e, navs[n]) /\ Better(e, navs[n], b) THEN Hit(navs[n]) ELSE b)
<1> DEFINE N     == Len(navs)
           rank  == Ranks(e, navs)
           delta == Deltas(e, navs)
<1>1. N \in Nat /\ n \in 1..N /\ n \in 1..n /\ \A j \in 1..n : j = n \/ j \in 1..n - 1
  OBVIOUS
<1>2. \A j \in 1..n - 1 : j \in 1..n /\ j \in 1..N
  OBVIOUS
<1>3. rank \in [1..N -> Int] /\ delta \in [1..N -> Int] /\ Better(e, navs[n], NoMatch)
  BY <1>1, BetterBeats, ZenonT(60)
<1>4. CASE b = NoMatch /\ \A j \in 1..n - 1 : ~Near(e, navs[j])
  <2>1. CASE Near(e, navs[n])
    <3>1. First(rank, delta, n, n)
      BY <1>1 DEF First
    <3>2. \A j \in 1..n : Near(e, navs[j]) => First(rank, delta, n, j)
      BY <1>1, <1>4, <3>1, ZenonT(60)
    <3> QED
      BY <1>1, <1>3, <1>4, <2>1, <3>2, ZenonT(60) DEF BestOf
  <2>2. CASE ~Near(e, navs[n])
    <3>1. \A j \in 1..n : ~Near(e, navs[j])
      BY <1>1, <1>4, <2>2, ZenonT(60)
    <3> QED
      BY <1>4, <2>2, <3>1, ZenonT(60) DEF BestOf
  <2> QED
    BY <2>1, <2>2, ZenonT(60)
<1>5. ASSUME NEW i \in 1..n - 1, Near(e, navs[i]), b = Hit(navs[i]),
             \A j \in 1..n - 1 : Near(e, navs[j]) => First(rank, delta, i, j)
      PROVE  BestOf(e, navs, n, IF Near(e, navs[n]) /\ Better(e, navs[n], b) THEN Hit(navs[n]) ELSE b)
  <2>0. i \in 1..n /\ i \in 1..N
    BY <1>2, ZenonT(60)
  <2>1. Better(e, navs[n], b) <=> Beats(rank, delta, n, i)
    BY <1>1, <1>5, <2>0, BetterBeats, ZenonT(60)
  <2> HIDE DEF rank, delta, N
  <2>2. /\ First(rank, delta, n, n)
        /\ Beats(rank, delta, n, i) =>
             \A j \in 1..n - 1 : First(rank, delta, i, j) => First(rank, delta, n, j)
        /\ ~Beats(rank, delta, n, i) => First(rank, delta, i, n)
    BY <1>1, <1>3, FirstStep, ZenonT(60)
  <2>3. CASE Near(e, navs[n]) /\ Better(e, navs[n], b)
    <3>1. \A j \in 1..n : Near(e, navs[j]) => First(rank, delta, n, j)
      BY <1>1, <1>5, <2>1, <2>2, <2>3, ZenonT(60)
    <3> QED
      BY <1>1, <2>3, <3>1, ZenonT(60) DEF BestOf, rank, delta
  <2>4. CASE ~(Near(e, navs[n]) /\ Better(e, navs[n], b))
    <3>1. \A j \in 1..n : Near(e, navs[j]) => First(rank, delta, i, j)
      BY <1>1, <1>5, <2>1, <2>2, <2>4, ZenonT(60)
    <3> QED
      BY <1>5, <2>0, <2>4, <3>1, ZenonT(60) DEF BestOf, rank, delta
  <2> QED
    BY <2>3, <2>4, ZenonT(60)
<1> QED
  BY <1>4, <1>5, ZenonT(60) DEF BestOf

(* best_match returns the best of all navigations it is given. *)
LEMMA BestIsBest ==
  ASSUME NEW e, e.ts \in Nat, NEW navs \in Seq(Nav)
  PROVE  BestOf(e, navs, Len(navs), BestMatch(e, navs))
<1> DEFINE N == Len(navs)
           b == BestSoFar(e, navs)
           T == {n \in Nat : n <= N => BestOf(e, navs, n, b[n])}
<1>1. N \in Nat
  OBVIOUS
<1>2. /\ b[0] = NoMatch
      /\ \A n \in 1..N : b[n] = IF Near(e, navs[n]) /\ Better(e, navs[n], b[n - 1])
                                THEN Hit(navs[n]) ELSE b[n - 1]
  BY WalkSteps, ZenonT(60)
<1> HIDE DEF b
<1>3. 0 \in T
  <2>1. \A j \in 1..0 : FALSE
    OBVIOUS
  <2>2. BestOf(e, navs, 0, b[0])
    BY <1>2, <2>1, ZenonT(60) DEF BestOf
  <2>3. 0 \in Nat
    OBVIOUS
  <2> QED
    BY <2>2, <2>3, ZenonT(60)
<1>4. ASSUME NEW n \in Nat, n \in T PROVE n + 1 \in T
  <2>1. SUFFICES ASSUME n + 1 <= N PROVE BestOf(e, navs, n + 1, b[n + 1])
    <3>1. n + 1 \in Nat
      OBVIOUS
    <3> QED
      BY <3>1, ZenonT(60)
  <2>2. n <= N /\ n + 1 \in 1..N /\ (n + 1) - 1 = n
    BY <1>1, <2>1
  <2>3. BestOf(e, navs, (n + 1) - 1, b[(n + 1) - 1])
    BY <1>4, <2>2, ZenonT(60)
  <2> QED
    BY <1>2, <2>2, <2>3, BestStep, ZenonT(60)
<1> HIDE DEF T
<1>5. N \in T
  BY <1>1, <1>3, <1>4, Induction
<1>6. N <= N
  BY <1>1
<1> QED
  BY <1>5, <1>6, ZenonT(60) DEF T, BestMatch, b

-----------------------------------------------------------------------------
(* The parser of DNS names *)

(* The DNS name *)

(* What is read at each position, given what is read with one label less. *)
Row(data, left, shorter) ==
  [i \in 1..Len(data) + 65 |->
     LET rest == shorter[i + data[i] + 1]
     IN IF left = 0 \/ i > Len(data) THEN OutOfData
        ELSE IF data[i] = 0 THEN <<>>
        ELSE IF ~LabelAt(data, i) \/ rest = Malformed THEN Malformed
        ELSE IF rest = <<>> THEN Label(data, i)
        ELSE Label(data, i) \o <<".">> \o rest]

(* Without a label left nothing is read on. *)
LEMMA RowZero ==
  ASSUME NEW data, NEW x, NEW y
  PROVE  Row(data, 0, x) = Row(data, 0, y)
<1>1. ASSUME NEW z PROVE Row(data, 0, z) = [i \in 1..Len(data) + 65 |-> OutOfData]
  BY ZenonT(60) DEF Row
<1>2. /\ Row(data, 0, x) = [i \in 1..Len(data) + 65 |-> OutOfData]
      /\ Row(data, 0, y) = [i \in 1..Len(data) + 65 |-> OutOfData]
  BY <1>1, ZenonT(60)
<1> QED
  BY <1>2, ZenonT(60)

(* The loop of parse_dns_qname, one label at a time. *)
LEMMA NameRows ==
  ASSUME NEW data
  PROVE  \A n \in 0..MaxLabels : NamesFrom(data)[n] = Row(data, n, NamesFrom(data)[n - 1])
<1> DEFINE N == MaxLabels
           Fits(m, g) == \A n \in 0..m : g[n] = Row(data, n, g[n - 1])
           T == {m \in Nat : \E g : Fits(m, g)}
           Rows(g) == [n \in 0..N |-> Row(data, n, g[n - 1])]
<1>1. N \in Nat
  BY ParserAssumption DEF ParserAssumption
<1>2. NamesFrom(data) = CHOOSE g : g = Rows(g)
  BY ZenonT(60) DEF NamesFrom, Row
<1>3. 0 \in T
  <2> DEFINE g == [n \in 0..0 |-> Row(data, 0, <<>>)]
  <2>1. 0 \in 0..0 /\ 0 \in Nat /\ \A n \in 0..0 : n = 0
    OBVIOUS
  <2>2. Fits(0, g)
    BY <2>1, RowZero, ZenonT(60)
  <2> HIDE DEF Fits
  <2> QED
    BY <2>1, <2>2, ZenonT(60)
<1>4. ASSUME NEW m \in Nat, m \in T PROVE m + 1 \in T
  <2>1. PICK g : Fits(m, g)
    BY <1>4, ZenonT(60)
  <2> DEFINE h == [n \in 0..m + 1 |-> IF n = m + 1 THEN Row(data, m + 1, g[m]) ELSE g[n]]
  <2>2. /\ m + 1 \in Nat /\ m + 1 \in 0..m + 1 /\ m \in 0..m + 1 /\ m # m + 1
        /\ (m + 1) - 1 = m
    OBVIOUS
  <2>3. \A n \in 0..m + 1 : n = m + 1 \/ (n \in 0..m /\ n # m + 1)
    OBVIOUS
  <2>4. \A n \in 0..m : n = 0 \/ (n - 1 \in 0..m + 1 /\ n - 1 # m + 1)
    OBVIOUS
  <2>5. ASSUME NEW n \in 0..m + 1 PROVE h[n] = Row(data, n, h[n - 1])
    <3>1. CASE n = m + 1
      BY <2>2, <3>1, ZenonT(60)
    <3>2. CASE n \in 0..m /\ n # m + 1
      <4>1. h[n] = Row(data, n, g[n - 1])
        BY <2>1, <2>5, <3>2, ZenonT(60)
      <4>2. CASE n = 0
        BY <4>1, <4>2, RowZero, ZenonT(60)
      <4>3. CASE n - 1 \in 0..m + 1 /\ n - 1 # m + 1
        BY <4>1, <4>3, ZenonT(60)
      <4> QED
        BY <2>4, <3>2, <4>2, <4>3, ZenonT(60)
    <3> QED
      BY <2>3, <3>1, <3>2, ZenonT(60)
  <2>6. Fits(m + 1, h)
    BY <2>5, ZenonT(60)
  <2> HIDE DEF Fits, h
  <2> QED
    BY <2>2, <2>6, ZenonT(60)
<1> HIDE DEF T
<1>5. N \in T
  BY <1>1, <1>3, <1>4, Induction
<1>6. PICK g : Fits(N, g)
  BY <1>5, ZenonT(60) DEF T
<1> DEFINE f == [n \in 0..N |-> g[n]]
<1>7. \A n \in 0..N : n = 0 \/ n - 1 \in 0..N
  BY <1>1
<1>8. \A n \in 0..N : f[n] = Row(data, n, f[n - 1])
  <2> TAKE n \in 0..N
  <2>1. f[n] = Row(data, n, g[n - 1])
    BY <1>6, ZenonT(60)
  <2>2. CASE n = 0
    BY <2>1, <2>2, RowZero, ZenonT(60)
  <2>3. CASE n - 1 \in 0..N
    BY <2>1, <2>3, ZenonT(60)
  <2> QED
    BY <1>7, <2>2, <2>3, ZenonT(60)
<1>9. f = Rows(f)
  BY <1>8, ZenonT(60)
<1> HIDE DEF f
<1>10. NamesFrom(data) = Rows(NamesFrom(data))
  BY <1>2, <1>9, ZenonT(60)
<1> QED
  BY <1>10, ZenonT(60)

(* A frame cut short still holds its first bytes. *)
Cut(t, d) == Len(t) <= Len(d) /\ \A i \in 1..Len(t) : t[i] = d[i]

(* What was captured of the question is its beginning. *)
LEMMA TakeCuts ==
  ASSUME NEW C, NEW d \in Seq(C), NEW k \in Nat
  PROVE  Take(d, k) \in Seq(C) /\ Cut(Take(d, k), d)
  BY DEF Take, Cut

(* Sequences of one length with the same elements are the same sequence. *)
LEMMA SameSeq ==
  ASSUME NEW C, NEW s \in Seq(C), NEW t \in Seq(C), Len(s) = Len(t),
         \A i \in 1..Len(s) : s[i] = t[i]
  PROVE  s = t
  OBVIOUS

(* b elements after the first a. *)
LEMMA Slice ==
  ASSUME NEW s \in Seq(Nat), NEW a \in Nat, NEW b \in Nat, a + b <= Len(s)
  PROVE  /\ SubSeq(s, a + 1, a + b) \in Seq(Nat) /\ Len(SubSeq(s, a + 1, a + b)) = b
         /\ \A j \in 1..b : SubSeq(s, a + 1, a + b)[j] = s[a + j]
<1>1. Len(s) \in Nat
  OBVIOUS
<1>2. SubSeq(s, a + 1, a + b) \in Seq(Nat)
  BY <1>1
<1>3. Len(SubSeq(s, a + 1, a + b)) = b
  BY <1>1
<1>4. ASSUME NEW j \in 1..b PROVE SubSeq(s, a + 1, a + b)[j] = s[a + j]
  BY <1>1, <1>3
<1> QED
  BY <1>2, <1>3, <1>4, ZenonT(60)

(* A label that was captured whole is the same label in the whole frame. *)
LEMMA LabelCut ==
  ASSUME NEW d \in Seq(Nat), NEW t \in Seq(Nat), Cut(t, d), NEW i \in 1..Len(t), LabelAt(t, i)
  PROVE  /\ LabelAt(d, i) /\ Label(t, i) = Label(d, i) /\ t[i] = d[i]
         /\ i + d[i] + 1 \in 1..Len(t) + 65 /\ i + d[i] + 1 \in 1..Len(d) + 65
<1>1. /\ Len(t) \in Nat /\ Len(d) \in Nat /\ Len(t) <= Len(d) /\ \A j \in 1..Len(t) : t[j] = d[j]
  BY DEF Cut
<1> DEFINE c == d[i]
<1>2. t[i] = c /\ c \in Nat
  <2>1. i \in 1..Len(d) /\ \A j \in 1..Len(d) : d[j] \in Nat
    BY <1>1
  <2> QED
    BY <1>1, <2>1, ZenonT(60)
<1>3. c < 64 /\ i + c <= Len(t) /\ \A j \in i + 1..i + c : t[j] \in DOMAIN Letters
  BY <1>2, ZenonT(60) DEF LabelAt
<1> HIDE DEF c
<1>4. i + c + 1 \in 1..Len(t) + 65 /\ i + c + 1 \in 1..Len(d) + 65 /\ i + c <= Len(d)
  BY <1>1, <1>2, <1>3
<1>5. \A j \in i + 1..i + c : j \in 1..Len(t)
  BY <1>1, <1>2, <1>3
<1>6. \A j \in i + 1..i + c : d[j] \in DOMAIN Letters
  BY <1>1, <1>3, <1>5, ZenonT(60)
<1>7. LabelAt(d, i)
  BY <1>3, <1>4, <1>6, ZenonT(60) DEF LabelAt, c
<1>8. SubSeq(t, i + 1, i + c) = SubSeq(d, i + 1, i + c)
  <2> DEFINE u == SubSeq(t, i + 1, i + c)
             v == SubSeq(d, i + 1, i + c)
  <2>0. i \in Nat /\ c \in Nat /\ \A j \in 1..c : i + j \in 1..Len(t)
    BY <1>1, <1>2, <1>3
  <2>1. u \in Seq(Nat) /\ Len(u) = c /\ \A j \in 1..c : u[j] = t[i + j]
    BY <1>3, <2>0, Slice, ZenonT(60)
  <2>2. v \in Seq(Nat) /\ Len(v) = c /\ \A j \in 1..c : v[j] = d[i + j]
    BY <1>4, <2>0, Slice, ZenonT(60)
  <2> HIDE DEF u, v
  <2>3. \A j \in 1..c : u[j] = v[j]
    BY <1>1, <2>0, <2>1, <2>2, ZenonT(60)
  <2>5. u = v
    BY <2>1, <2>2, <2>3, SameSeq, ZenonT(60)
  <2> QED
    BY <2>5, ZenonT(60) DEF u, v
<1>9. Label(t, i) = Label(d, i)
  BY <1>2, <1>3, <1>4, <1>8, ZenonT(60) DEF Label, c
<1> QED
  BY <1>2, <1>4, <1>7, <1>9, ZenonT(60) DEF c

(* Where the cut frame yields a name, the whole frame yields the same. *)
Agrees(t, short, long) ==
  \A i \in 1..Len(t) + 65 : short[i] = Malformed \/ short[i] = long[i]

(* One label more keeps that. *)
LEMMA RowsAgree ==
  ASSUME NEW d \in Seq(Nat), NEW t \in Seq(Nat), Cut(t, d), NEW n \in Nat, NEW f, NEW g,
         Agrees(t, g, f)
  PROVE  Agrees(t, Row(t, n, g), Row(d, n, f))
<1> SUFFICES ASSUME NEW i \in 1..Len(t) + 65
             PROVE  Row(t, n, g)[i] = Malformed \/ Row(t, n, g)[i] = Row(d, n, f)[i]
  BY ZenonT(60) DEF Agrees
<1>1. Len(t) \in Nat /\ Len(d) \in Nat /\ Len(t) <= Len(d)
  BY DEF Cut
<1>2. i \in 1..Len(d) + 65
  BY <1>1
<1>3. CASE n = 0 \/ i > Len(t)
  BY <1>3, ZenonT(60) DEF Row, OutOfData
<1>4. CASE ~(n = 0 \/ i > Len(t))
  <2>1. i \in 1..Len(t) /\ ~(i > Len(d))
    BY <1>1, <1>4
  <2>2. t[i] = d[i]
    BY <2>1, ZenonT(60) DEF Cut
  <2>3. CASE t[i] = 0
    BY <1>2, <1>4, <2>1, <2>2, <2>3, ZenonT(60) DEF Row
  <2>4. CASE t[i] # 0 /\ ~LabelAt(t, i)
    BY <1>4, <2>4, ZenonT(60) DEF Row
  <2>5. CASE t[i] # 0 /\ LabelAt(t, i)
    <3>1. /\ LabelAt(d, i) /\ Label(t, i) = Label(d, i)
          /\ i + d[i] + 1 \in 1..Len(t) + 65
      BY <2>1, <2>5, LabelCut, ZenonT(60)
    <3> DEFINE gr == g[i + t[i] + 1]
               fr == f[i + d[i] + 1]
    <3>2. gr = Malformed \/ gr = fr
      BY <2>2, <3>1, ZenonT(60) DEF Agrees
    <3>3. Row(t, n, g)[i] = IF gr = Malformed THEN Malformed
                            ELSE IF gr = <<>> THEN Label(t, i)
                            ELSE Label(t, i) \o <<".">> \o gr
      BY <1>4, <2>5, ZenonT(60) DEF Row
    <3>4. Row(d, n, f)[i] = IF fr = Malformed THEN Malformed
                            ELSE IF fr = <<>> THEN Label(d, i)
                            ELSE Label(d, i) \o <<".">> \o fr
      BY <1>2, <1>4, <2>1, <2>2, <2>5, <3>1, ZenonT(60) DEF Row
    <3> HIDE DEF gr, fr
    <3> QED
      BY <3>1, <3>2, <3>3, <3>4, ZenonT(60)
  <2> QED
    BY <2>3, <2>4, <2>5, ZenonT(60)
<1> QED
  BY <1>3, <1>4, ZenonT(60)

(* parse_dns_qname on a frame cut short: the whole name, or none. *)
LEMMA CutName ==
  ASSUME NEW d \in Seq(Nat), NEW k \in Nat
  PROVE  ParseDnsQname(Take(d, k)) \in {<<>>, ParseDnsQname(d)}
<1> DEFINE t == Take(d, k)
           N == MaxLabels
           g == NamesFrom(t)
           f == NamesFrom(d)
           T == {n \in Nat : n <= N => Agrees(t, g[n], f[n])}
<1>1. t \in Seq(Nat) /\ Cut(t, d)
  BY TakeCuts, ZenonT(60)
<1>2. N \in Nat
  BY ParserAssumption DEF ParserAssumption
<1>3. \A n \in 0..N : g[n] = Row(t, n, g[n - 1]) /\ f[n] = Row(d, n, f[n - 1])
  BY NameRows, ZenonT(60)
<1>4. ParseDnsQname(t) = IF g[N][1] = Malformed \/ Len(g[N][1]) >= MaxName THEN <<>> ELSE g[N][1]
  BY ZenonT(60) DEF ParseDnsQname
<1>5. ParseDnsQname(d) = IF f[N][1] = Malformed \/ Len(f[N][1]) >= MaxName THEN <<>> ELSE f[N][1]
  BY ZenonT(60) DEF ParseDnsQname
<1> HIDE DEF t, g, f, N
<1>6. 0 \in T
  <2>1. 0 \in 0..N /\ 0 \in Nat
    BY <1>2
  <2>2. g[0] = Row(t, 0, g[0 - 1])
    BY <1>3, <2>1, ZenonT(60)
  <2>3. \A i \in 1..Len(t) + 65 : Row(t, 0, g[0 - 1])[i] = Malformed
    BY ZenonT(60) DEF Row, OutOfData
  <2>4. \A i \in 1..Len(t) + 65 : g[0][i] = Malformed
    BY <2>2, <2>3, ZenonT(60)
  <2> QED
    BY <2>1, <2>4, ZenonT(60) DEF Agrees
<1>7. ASSUME NEW n \in Nat, n \in T PROVE n + 1 \in T
  <2>1. SUFFICES ASSUME n + 1 <= N PROVE Agrees(t, g[n + 1], f[n + 1])
    <3>1. n + 1 \in Nat
      OBVIOUS
    <3> QED
      BY <3>1, ZenonT(60)
  <2>2. n <= N /\ n + 1 \in 0..N /\ (n + 1) - 1 = n /\ n + 1 \in Nat
    BY <1>2, <2>1
  <2>3. Agrees(t, g[n], f[n])
    BY <1>7, <2>2, ZenonT(60)
  <2>4. Agrees(t, Row(t, n + 1, g[n]), Row(d, n + 1, f[n]))
    BY <1>1, <2>2, <2>3, RowsAgree, ZenonT(60)
  <2> QED
    BY <1>3, <2>2, <2>4, ZenonT(60)
<1> HIDE DEF T
<1>8. N \in T
  BY <1>2, <1>6, <1>7, Induction
<1>9. N <= N /\ 1 \in 1..Len(t) + 65
  BY <1>1, <1>2
<1>10. g[N][1] = Malformed \/ g[N][1] = f[N][1]
  BY <1>8, <1>9, ZenonT(60) DEF T, Agrees
<1> QED
  BY <1>4, <1>5, <1>10, ZenonT(60) DEF t

-----------------------------------------------------------------------------
(* Policies and evidence *)

(* A policy that set_policy may install. *)
PolicyOK(p) ==
  /\ DOMAIN p = {"mode", "sensitive", "persist", "retention"}
  /\ p.mode \in Modes /\ p.persist \in BOOLEAN /\ p.retention \in MinRetention..MaxRetention
  /\ Cardinality(p.sensitive) <= MaxDomains /\ p.sensitive \subseteq Seq(STRING)

(* The policy in force and every copy a client thread works on. *)
PolicyInv ==
  /\ PolicyOK(policy) /\ PolicyOK(used) /\ DOMAIN updates = Clients
  /\ \A c \in Clients : updates[c].busy => PolicyOK(updates[c].base) /\ updates[c].doc \in PolicyDocs

(* What the browser reported. *)
EvidenceInv == navigations \in Seq(Nav) /\ Len(navigations) <= MaxNavigations /\ now \in 0..MaxTime

(* The fields of an event. *)
Fields == {"type", "source", "pid", "name", "ts", "confidence", "browser", "redacted", "kinds"}

(* The event on its way through the pipeline. *)
EventInv ==
  /\ stage \in {"idle", "delivered", "looked up", "correlated"}
  /\ processMatch \in BOOLEAN
  /\ stage # "idle" =>
       /\ published = NoEvent
       /\ DOMAIN event = Fields
       /\ event.type \in {"Connection", "Dns"}
       /\ event.name \in Seq(STRING) /\ event.ts \in Nat
       /\ event.source = "pcap" => event.pid = NoProcess /\ event.name \in {<<>>, wireName}
       /\ stage # "delivered" /\ processMatch => event.pid # NoProcess
       /\ stage = "correlated" /\ event.browser.attached =>
            "url" \in DOMAIN event.browser /\ event.browser.url \in Seq(STRING)

(* The defaults may be installed. *)
LEMMA DefaultOK == PolicyOK(DefaultPolicy)
<1>1. DOMAIN DefaultPolicy = {"mode", "sensitive", "persist", "retention"}
  BY DEF DefaultPolicy
<1>2. /\ DefaultPolicy.mode \in Modes /\ DefaultPolicy.persist \in BOOLEAN
      /\ DefaultPolicy.sensitive = {}
  BY DEF DefaultPolicy, Modes
<1>3. DefaultPolicy.retention \in MinRetention..MaxRetention /\ 0 <= MaxDomains
  <2>1. DefaultPolicy.retention = 3600
    BY DEF DefaultPolicy
  <2>2. MinRetention \in Nat /\ MaxRetention \in Nat /\ MinRetention <= 3600 /\ 3600 <= MaxRetention
    BY DEF MinRetention, MaxRetention
  <2>3. 0 <= MaxDomains
    BY DEF MaxDomains
  <2> QED
    BY <2>1, <2>2, <2>3
<1>4. Cardinality({}) = 0
  BY FS_EmptySet, ZenonT(60)
<1> QED
  BY <1>1, <1>2, <1>3, <1>4, ZenonT(60) DEF PolicyOK

(* update_from_json: what it accepts is within the limits. *)
LEMMA MergeOK ==
  ASSUME NEW base, NEW doc \in PolicyDocs, PolicyOK(base), DocValid(doc)
  PROVE  PolicyOK(Merge(base, doc))
<1> DEFINE D == {"mode", "sensitive", "persist", "retention"}
           m == Merge(base, doc)
<1>1. DOMAIN base = D
  BY ZenonT(60) DEF PolicyOK
<1>2. DOMAIN m = D /\ \A field \in D : m[field] = IF field \in DOMAIN doc THEN doc[field] ELSE base[field]
  BY <1>1, ZenonT(60) DEF Merge
<1>3. m.mode = IF "mode" \in DOMAIN doc THEN doc.mode ELSE base.mode
  BY <1>2, ZenonT(60)
<1>4. m.sensitive = IF "sensitive" \in DOMAIN doc THEN doc.sensitive ELSE base.sensitive
  BY <1>2, ZenonT(60)
<1>5. m.persist = IF "persist" \in DOMAIN doc THEN doc.persist ELSE base.persist
  BY <1>2, ZenonT(60)
<1>6. m.retention = IF "retention" \in DOMAIN doc THEN doc.retention ELSE base.retention
  BY <1>2, ZenonT(60)
<1>7. "sensitive" \in DOMAIN doc => doc.sensitive \subseteq Seq(STRING)
  BY PipelineAssumption, ZenonT(60) DEF PipelineAssumption
<1> HIDE DEF m
<1>8. m.mode \in Modes
  BY <1>3, ZenonT(60) DEF PolicyOK, DocValid
<1>9. Cardinality(m.sensitive) <= MaxDomains /\ m.sensitive \subseteq Seq(STRING)
  BY <1>4, <1>7, ZenonT(60) DEF PolicyOK, DocValid
<1>10. m.persist \in BOOLEAN
  BY <1>5, ZenonT(60) DEF PolicyOK, DocValid
<1>11. m.retention \in MinRetention..MaxRetention
  BY <1>6, ZenonT(60) DEF PolicyOK, DocValid
<1> QED
  BY <1>2, <1>8, <1>9, <1>10, <1>11, ZenonT(60) DEF PolicyOK, m

(* set_policy: whatever is sent, and however two calls overlap, the policy  *)
(* in force is one that was accepted.                                       *)
LEMMA PolicyStep ==
  ASSUME PolicyInv, [Next]_vars
  PROVE  PolicyInv'
<1>1. ASSUME UNCHANGED <<policy, updates>>, used' = used \/ used' = policy PROVE PolicyInv'
  BY <1>1, ZenonT(60) DEF PolicyInv, PolicyOK
<1>2. ASSUME NEW c \in Clients, NEW doc \in PolicyDocs, SetPolicyBegin(c, doc) PROVE PolicyInv'
  <2>1. policy' = policy /\ used' = used
    BY <1>2, ZenonT(60) DEF SetPolicyBegin, eventVars
  <2> DEFINE u == [busy |-> TRUE, base |-> policy, doc |-> doc]
  <2>2. u.base = policy /\ u.doc = doc
    OBVIOUS
  <2>3. updates' = [updates EXCEPT ![c] = u]
    BY <1>2, ZenonT(60) DEF SetPolicyBegin
  <2> HIDE DEF u
  <2>4. DOMAIN updates' = Clients /\ updates'[c] = u /\ \A d \in Clients : d # c => updates'[d] = updates[d]
    BY <2>3, ZenonT(60) DEF PolicyInv
  <2> QED
    BY <2>1, <2>2, <2>4, ZenonT(60) DEF PolicyInv
<1>3. ASSUME NEW c \in Clients, SetPolicyEnd(c) PROVE PolicyInv'
  <2>1. used' = used
    BY <1>3, ZenonT(60) DEF SetPolicyEnd, eventVars
  <2>2. PolicyOK(policy')
    BY <1>3, MergeOK, ZenonT(60) DEF SetPolicyEnd, PolicyInv
  <2>3. Idle.busy = FALSE
    BY DEF Idle
  <2>4. DOMAIN updates' = Clients /\ updates'[c] = Idle /\ \A d \in Clients : d # c => updates'[d] = updates[d]
    BY <1>3, ZenonT(60) DEF SetPolicyEnd, PolicyInv
  <2> QED
    BY <2>1, <2>2, <2>3, <2>4, ZenonT(60) DEF PolicyInv
<1>4. ASSUME NEW site, NEW ts, RecordNavigation(site, ts) PROVE PolicyInv'
  BY <1>1, <1>4, ZenonT(60) DEF RecordNavigation, policyVars, eventVars
<1>5. ASSUME NEW pids, SetBrowserProcesses(pids) PROVE PolicyInv'
  BY <1>1, <1>5, ZenonT(60) DEF SetBrowserProcesses, policyVars, eventVars
<1>6. CASE Tick
  BY <1>1, <1>6, ZenonT(60) DEF Tick, policyVars, eventVars
<1>7. ASSUME NEW from, NEW e, Deliver(from, e) PROVE PolicyInv'
  BY <1>1, <1>7, ZenonT(60) DEF Deliver, policyVars
<1>8. CASE LookUpProcess
  BY <1>1, <1>8, ZenonT(60) DEF LookUpProcess, policyVars
<1>9. CASE Correlate
  BY <1>1, <1>9, ZenonT(60) DEF Correlate, policyVars
<1>10. CASE Publish
  BY <1>1, <1>10, ZenonT(60) DEF Publish, policyVars
<1>11. CASE UNCHANGED vars
  BY <1>1, <1>11, ZenonT(60) DEF vars
<1> QED
  BY <1>2, <1>3, <1>4, <1>5, <1>6, <1>7, <1>8, <1>9, <1>10, <1>11, ZenonT(60)
     DEF Next, CaptureFrame, CaptureKernel

(* The evidence stays within kMaxNavigations. *)
LEMMA EvidenceStep ==
  ASSUME EvidenceInv, [Next]_vars
  PROVE  EvidenceInv' /\ now <= now'
<1>0. now \in Nat /\ now <= now /\ MaxTime \in Nat
  BY PipelineAssumption DEF EvidenceInv, PipelineAssumption
<1>1. ASSUME UNCHANGED <<navigations, now>> PROVE EvidenceInv' /\ now <= now'
  BY <1>0, <1>1, ZenonT(60) DEF EvidenceInv
<1>2. ASSUME NEW site \in Sites, NEW age \in {0, 1}, now - age >= 0, RecordNavigation(site, now - age)
      PROVE  EvidenceInv' /\ now <= now'
  <2> DEFINE nav == [host |-> site.host, url |-> site.url, ts |-> now - age]
             navs == Append(navigations, nav)
  <2>1. now - age \in Nat
    BY <1>0, <1>2
  <2>2. site.host \in Seq(STRING) /\ site.url \in Seq(STRING)
    BY PipelineAssumption, ZenonT(60) DEF PipelineAssumption
  <2>3. nav \in Nav
    BY <2>1, <2>2 DEF Nav
  <2>4. navigations' = Bounded(navs) /\ now' = now
    BY <1>2, ZenonT(60) DEF RecordNavigation
  <2> HIDE DEF nav
  <2>5. navs \in Seq(Nav)
    BY <2>3 DEF EvidenceInv
  <2> HIDE DEF navs
  <2>6. navigations' \in Seq(Nav) /\ Len(navigations') <= MaxNavigations
    BY <2>4, <2>5, BoundedTail, ZenonT(60)
  <2> QED
    BY <1>0, <2>4, <2>6, ZenonT(60) DEF EvidenceInv
<1>3. CASE Tick
  <2>1. navigations' = navigations /\ now' = now + 1 /\ now < MaxTime
    BY <1>3, ZenonT(60) DEF Tick, evidenceVars
  <2>2. now' \in 0..MaxTime /\ now <= now'
    BY <1>0, <2>1
  <2> QED
    BY <2>1, <2>2, ZenonT(60) DEF EvidenceInv
<1>4. CASE Correlate
  <2>1. navigations' = Prune(navigations, now) /\ now' = now
    BY <1>4, ZenonT(60) DEF Correlate
  <2>2. PICK k \in 0..Len(navigations) : Len(Prune(navigations, now)) = Len(navigations) - k
    BY <1>0, PruneTail, ZenonT(60) DEF EvidenceInv
  <2>3. Prune(navigations, now) \in Seq(Nav)
    BY <1>0, PruneTail, ZenonT(60) DEF EvidenceInv
  <2>4. Len(navigations) - k <= MaxNavigations
    <3>1. Len(navigations) \in Nat /\ Len(navigations) <= MaxNavigations
      BY DEF EvidenceInv
    <3>2. MaxNavigations \in Nat
      BY PipelineAssumption DEF PipelineAssumption
    <3> QED
      BY <3>1, <3>2
  <2> QED
    BY <1>0, <2>1, <2>2, <2>3, <2>4, ZenonT(60) DEF EvidenceInv
<1>5. ASSUME NEW c, NEW doc, SetPolicyBegin(c, doc) PROVE UNCHANGED <<navigations, now>>
  BY <1>5, ZenonT(60) DEF SetPolicyBegin, evidenceVars
<1>6. ASSUME NEW c, SetPolicyEnd(c) PROVE UNCHANGED <<navigations, now>>
  BY <1>6, ZenonT(60) DEF SetPolicyEnd, evidenceVars
<1>7. ASSUME NEW pids, SetBrowserProcesses(pids) PROVE UNCHANGED <<navigations, now>>
  BY <1>7, ZenonT(60) DEF SetBrowserProcesses
<1>8. ASSUME NEW from, NEW e, Deliver(from, e) PROVE UNCHANGED <<navigations, now>>
  BY <1>8, ZenonT(60) DEF Deliver, evidenceVars
<1>9. ASSUME LookUpProcess \/ Publish \/ UNCHANGED vars PROVE UNCHANGED <<navigations, now>>
  BY <1>9, ZenonT(60) DEF LookUpProcess, Publish, evidenceVars, vars
<1> QED
  BY <1>1, <1>2, <1>3, <1>4, <1>5, <1>6, <1>7, <1>8, <1>9, ZenonT(60)
     DEF Next, CaptureFrame, CaptureKernel

-----------------------------------------------------------------------------
(* Matching and parsing on what is kept and captured *)

(* What the pruning drops lies outside the window of an event that was      *)
(* delivered within three windows.                                          *)
LEMMA ExpiredNotNear ==
  ASSUME NEW e, e.ts \in Nat, NEW nav \in Nav, NEW time \in Nat,
         time - e.ts <= 3 * NavigationWindow, Near(e, nav)
  PROVE  ~Expired(nav, time)
<1>1. NavigationWindow \in Nat /\ nav.ts \in Nat
  BY PipelineAssumption DEF PipelineAssumption, Nav
<1> DEFINE a == nav.ts
           b == e.ts
           W == NavigationWindow
<1>2. a \in Nat /\ b \in Nat /\ W \in Nat /\ time - b <= 3 * W
  BY <1>1
<1>3. AbsDelta(a, b) <= W
  BY DEF Near
<1>4. ~Expired(nav, time) <=> ~(time - a > 4 * W)
  BY ZenonT(60) DEF Expired
<1> HIDE DEF a, b, W
<1>5. ~(time - a > 4 * W)
  BY <1>2, <1>3 DEF AbsDelta
<1> QED
  BY <1>4, <1>5

(* The pruning moves every navigation k places forward. *)
Moved(navs, pruned, k) ==
  /\ Len(pruned) = Len(navs) - k
  /\ \A i \in 1..Len(navs) - k : pruned[i] = navs[k + i]

(* A navigation's place in the order is that of its fields. *)
LEMMA FirstMoved ==
  ASSUME NEW e, NEW navs \in Seq(Nav), NEW pruned \in Seq(Nav), NEW k \in 0..Len(navs),
         Moved(navs, pruned, k), NEW i \in 1..Len(pruned), NEW j \in 1..Len(pruned),
         First(Ranks(e, pruned), Deltas(e, pruned), i, j)
  PROVE  First(Ranks(e, navs), Deltas(e, navs), k + i, k + j)
<1>1. /\ k + i \in 1..Len(navs) /\ k + j \in 1..Len(navs)
      /\ i \in 1..Len(navs) - k /\ j \in 1..Len(navs) - k
      /\ (i <= j => k + i <= k + j)
  BY DEF Moved
<1>2. pruned[i] = navs[k + i] /\ pruned[j] = navs[k + j]
  BY <1>1, ZenonT(60) DEF Moved
<1>3. /\ Ranks(e, pruned)[i] = Ranks(e, navs)[k + i] /\ Ranks(e, pruned)[j] = Ranks(e, navs)[k + j]
      /\ Deltas(e, pruned)[i] = Deltas(e, navs)[k + i] /\ Deltas(e, pruned)[j] = Deltas(e, navs)[k + j]
  BY <1>1, <1>2, ZenonT(60) DEF Ranks, Deltas
<1> QED
  BY <1>1, <1>3, ZenonT(60) DEF First

(* correlate: the match among what the pruning leaves is the best of all    *)
(* navigations, for an event delivered within three windows.                *)
LEMMA MatchIsBest ==
  ASSUME NEW e, e.ts \in Nat, NEW navs \in Seq(Nav), NEW time \in Nat,
         time - e.ts <= 3 * NavigationWindow
  PROVE  BestOf(e, navs, Len(navs), BestMatch(e, Prune(navs, time)))
<1> DEFINE pruned == Prune(navs, time)
           m == BestMatch(e, pruned)
           N == Len(navs)
<1>1. pruned \in Seq(Nav)
  BY PruneTail, ZenonT(60)
<1>2. PICK k \in 0..N : Moved(navs, pruned, k) /\ \A i \in 1..k : Expired(navs[i], time)
  BY PruneTail, ZenonT(60) DEF Moved
<1>3. BestOf(e, pruned, Len(pruned), m)
  BY <1>1, BestIsBest, ZenonT(60)
<1> HIDE DEF m, pruned
<1>4. \A i \in 1..N : navs[i] \in Nav
  OBVIOUS
<1>5. \A i \in 1..k : i \in 1..N
  OBVIOUS
<1>6. \A i \in 1..k : ~Near(e, navs[i])
  BY <1>2, <1>4, <1>5, ExpiredNotNear, ZenonT(60)
<1>7. Len(pruned) = N - k /\ \A i \in 1..Len(pruned) : pruned[i] = navs[k + i] /\ k + i \in 1..N
  <2>1. Len(pruned) = N - k /\ \A i \in 1..Len(pruned) : pruned[i] = navs[k + i]
    BY <1>2, ZenonT(60) DEF Moved
  <2>2. \A i \in 1..N - k : k + i \in 1..N
    OBVIOUS
  <2> QED
    BY <2>1, <2>2, ZenonT(60)
<1>8. ASSUME NEW j \in 1..N, Near(e, navs[j]) PROVE \E i \in 1..Len(pruned) : j = k + i
  <2>1. j \notin 1..k
    BY <1>6, <1>8, ZenonT(60)
  <2>2. j - k \in 1..N - k /\ j = k + (j - k)
    BY <2>1
  <2> QED
    BY <1>7, <2>2, ZenonT(60)
<1>9. CASE m = NoMatch /\ \A j \in 1..Len(pruned) : ~Near(e, pruned[j])
  <2>1. \A j \in 1..N : ~Near(e, navs[j])
    BY <1>7, <1>8, <1>9, ZenonT(60)
  <2> QED
    BY <1>9, <2>1, ZenonT(60) DEF BestOf, m, pruned
<1>10. ASSUME NEW i \in 1..Len(pruned), Near(e, pruned[i]), m = Hit(pruned[i]),
              \A j \in 1..Len(pruned) :
                Near(e, pruned[j]) => First(Ranks(e, pruned), Deltas(e, pruned), i, j)
       PROVE  BestOf(e, navs, N, m)
  <2>1. \A j \in 1..N : Near(e, navs[j]) => First(Ranks(e, navs), Deltas(e, navs), k + i, j)
    <3>1. SUFFICES ASSUME NEW j \in 1..N, Near(e, navs[j])
                   PROVE  First(Ranks(e, navs), Deltas(e, navs), k + i, j)
      BY ZenonT(60)
    <3>2. PICK l \in 1..Len(pruned) : j = k + l
      BY <1>8, <3>1, ZenonT(60)
    <3>3. Near(e, pruned[l])
      BY <1>7, <3>1, <3>2, ZenonT(60)
    <3>4. First(Ranks(e, pruned), Deltas(e, pruned), i, l)
      BY <1>10, <3>3, ZenonT(60)
    <3>5. First(Ranks(e, navs), Deltas(e, navs), k + i, k + l)
      BY <1>1, <1>2, <3>4, FirstMoved, ZenonT(60)
    <3> QED
      BY <3>2, <3>5, ZenonT(60)
  <2>2. k + i \in 1..N /\ navs[k + i] = pruned[i]
    BY <1>7, ZenonT(60)
  <2> QED
    BY <1>10, <2>1, <2>2, ZenonT(60) DEF BestOf
<1> QED
  BY <1>3, <1>9, <1>10, ZenonT(60) DEF BestOf, m, pruned

(* Whatever best_match returns is nothing or one of the navigations.        *)
LEMMA MatchIsOne ==
  ASSUME NEW e, e.ts \in Nat, NEW navs \in Seq(Nav), NEW time \in Nat
  PROVE  BestMatch(e, Prune(navs, time)) = NoMatch
         \/ \E nav \in Nav : BestMatch(e, Prune(navs, time)) = Hit(nav)
<1> DEFINE pruned == Prune(navs, time)
<1>1. pruned \in Seq(Nav)
  BY PruneTail, ZenonT(60)
<1> HIDE DEF pruned
<1>2. \A i \in 1..Len(pruned) : pruned[i] \in Nav
  BY <1>1
<1>3. BestOf(e, pruned, Len(pruned), BestMatch(e, pruned))
  BY <1>1, BestIsBest, ZenonT(60)
<1> QED
  BY <1>2, <1>3, ZenonT(60) DEF BestOf, pruned

(* parse_dns_qname on what was captured of a frame. *)
LEMMA FrameName ==
  ASSUME NEW f \in Frames
  PROVE  DnsName(f) \in {<<>>, f.name}
<1>1. f.question \in Seq(Nat) /\ f.size \in Nat /\ f.ihl \in Nat
      /\ ParseDnsQname(f.question) \in {<<>>, f.name}
  BY PipelineAssumption, ZenonT(60) DEF PipelineAssumption
<1>2. CASE OnDnsPort(f) /\ Remaining(f) >= 8 + 12 /\ f.questions >= 1
  <2>1. Remaining(f) \in Int
    BY <1>1 DEF Remaining, EthernetHeader, IpHeader
  <2>2. Remaining(f) - (8 + 12) \in Nat
    BY <1>2, <2>1
  <2>3. ParseDnsQname(Take(f.question, Remaining(f) - (8 + 12))) \in {<<>>, ParseDnsQname(f.question)}
    BY <1>1, <2>2, CutName, ZenonT(60)
  <2>4. DnsName(f) = ParseDnsQname(Take(f.question, Remaining(f) - (8 + 12)))
    BY <1>2, ZenonT(60) DEF DnsName
  <2> QED
    BY <1>1, <2>3, <2>4, ZenonT(60)
<1>3. CASE ~(OnDnsPort(f) /\ Remaining(f) >= 8 + 12 /\ f.questions >= 1)
  BY <1>3, ZenonT(60) DEF DnsName
<1> QED
  BY <1>2, <1>3

-----------------------------------------------------------------------------
(* The steps of one event *)

(* The correlator sets two fields and leaves the others.                    *)
WithMatch(e, c, b) == [e EXCEPT !.confidence = c, !.browser = b]

(* correlate changes the confidence and the tab of an event, nothing else. *)
LEMMA CorrelatedFields ==
  ASSUME NEW e, DOMAIN e = Fields, NEW c, NEW b
  PROVE  /\ DOMAIN WithMatch(e, c, b) = Fields
         /\ WithMatch(e, c, b).confidence = c /\ WithMatch(e, c, b).browser = b
         /\ \A field \in Fields \ {"confidence", "browser"} : WithMatch(e, c, b)[field] = e[field]
<1> DEFINE r == WithMatch(e, c, b)
<1>2. "confidence" \in Fields /\ "browser" \in Fields /\ "confidence" # "browser"
  BY DEF Fields
<1> DEFINE q == [e EXCEPT !.confidence = c]
<1>3. DOMAIN q = Fields /\ q["confidence"] = c
      /\ \A field \in Fields \ {"confidence"} : q[field] = e[field]
  BY <1>2
<1>4. r = [q EXCEPT !.browser = b]
  BY ZenonT(60) DEF WithMatch
<1> HIDE DEF q, r
<1>5. r.confidence = c /\ r.browser = b
  BY <1>2, <1>3, <1>4, ZenonT(60)
<1>6. \A field \in Fields \ {"confidence", "browser"} : r[field] = e[field]
  BY <1>3, <1>4, ZenonT(60)
<1>7. DOMAIN r = Fields
  BY <1>3, <1>4, ZenonT(60)
<1> QED
  BY <1>5, <1>6, <1>7, ZenonT(60) DEF r

(* apply replaces the name and the tab, and notes what it did.              *)
WithRedaction(e, n, b, d, k) ==
  [e EXCEPT !.name = n, !.browser = b, !.redacted = d, !.kinds = k]

(* What apply publishes has the redacted name and the redacted tab. *)
LEMMA RedactedFields ==
  ASSUME NEW e, DOMAIN e = Fields, NEW n, NEW b, NEW d, NEW k
  PROVE  WithRedaction(e, n, b, d, k).name = n /\ WithRedaction(e, n, b, d, k).browser = b
<1>1. /\ "name" \in Fields /\ "browser" \in Fields
      /\ "name" # "browser" /\ "name" # "redacted" /\ "name" # "kinds"
      /\ "browser" # "redacted" /\ "browser" # "kinds"
  BY DEF Fields
<1> DEFINE q == [e EXCEPT !.name = n]
           s == [q EXCEPT !.browser = b]
           t == [s EXCEPT !.redacted = d]
<1>2. WithRedaction(e, n, b, d, k) = [t EXCEPT !.kinds = k]
  BY ZenonT(60) DEF WithRedaction
<1>3. DOMAIN q = Fields /\ q["name"] = n
  BY <1>1
<1> HIDE DEF q
<1>4. DOMAIN s = Fields /\ s["name"] = n /\ s["browser"] = b
  BY <1>1, <1>3
<1> HIDE DEF s
<1>5. DOMAIN t = Fields /\ t["name"] = n /\ t["browser"] = b
  BY <1>1, <1>4
<1> HIDE DEF t
<1> QED
  BY <1>1, <1>2, <1>5

(* What the backends make of a frame or a record.                           *)
LEMMA NormalizedFields ==
  ASSUME NEW type, NEW src, NEW pid, NEW name, NEW ts, NEW c, NEW e,
         e = Normalized(type, src, pid, name, ts, c)
  PROVE  /\ DOMAIN e = Fields /\ e.type = type /\ e.source = src /\ e.pid = pid
         /\ e.name = name /\ e.ts = ts
  BY DEF Normalized, Fields

(* An event as a backend delivers it.                                       *)
Fresh(e, wire) ==
  /\ DOMAIN e = Fields /\ e.type \in {"Connection", "Dns"} /\ e.name \in Seq(STRING) /\ e.ts \in Nat
  /\ e.source = "pcap" => e.pid = NoProcess /\ e.name \in {<<>>, wire}

(* The event of a frame: its name is whole or absent.                       *)
LEMMA FreshFrame ==
  ASSUME NEW f \in Frames, NEW ts \in Nat
  PROVE  Fresh(FromFrame(f, ts), f.name)
<1> DEFINE e == FromFrame(f, ts)
<1>0. <<>> \in Seq(STRING)
  OBVIOUS
<1>1. f.name \in Seq(STRING)
  BY PipelineAssumption, ZenonT(60) DEF PipelineAssumption
<1>2. DnsName(f) \in {<<>>, f.name}
  BY FrameName, ZenonT(60)
<1>3. CASE DnsName(f) # <<>> \/ OnDnsPort(f)
  <2>1. e = Normalized("Dns", "pcap", NoProcess, DnsName(f), ts, 20)
    BY <1>3, ZenonT(60) DEF FromFrame
  <2>2. DOMAIN e = Fields /\ e.type = "Dns" /\ e.pid = NoProcess /\ e.name = DnsName(f) /\ e.ts = ts
    BY <2>1, NormalizedFields
  <2> QED
    BY <1>0, <1>1, <1>2, <2>2, ZenonT(60) DEF Fresh
<1>4. CASE ~(DnsName(f) # <<>> \/ OnDnsPort(f))
  <2>1. e = Normalized("Connection", "pcap", NoProcess, <<>>, ts, 10)
    BY <1>4, ZenonT(60) DEF FromFrame
  <2>2. DOMAIN e = Fields /\ e.type = "Connection" /\ e.pid = NoProcess /\ e.name = <<>> /\ e.ts = ts
    BY <2>1, NormalizedFields
  <2> QED
    BY <1>0, <1>1, <2>2, ZenonT(60) DEF Fresh
<1> QED
  BY <1>3, <1>4

(* The event of a kernel record is not pcap evidence.                       *)
LEMMA FreshKernel ==
  ASSUME NEW r \in KernelEvents, NEW ts \in Nat
  PROVE  Fresh(FromKernel(r, ts), r.name)
<1> DEFINE e == FromKernel(r, ts)
<1>0. <<>> \in Seq(STRING)
  OBVIOUS
<1>1. r.name \in Seq(STRING) /\ r.kind \in {"connect", "dns", "state"}
  BY PipelineAssumption, ZenonT(60) DEF PipelineAssumption
<1>2. "ebpf" # "pcap" /\ "connect" # "dns" /\ "connect" # "state" /\ "dns" # "state"
  OBVIOUS
<1>3. CASE r.kind = "connect"
  <2>1. e = Normalized("Connection", "ebpf", r.pid, <<>>, ts, 95)
    BY <1>3 DEF FromKernel
  <2>2. DOMAIN e = Fields /\ e.type = "Connection" /\ e.source = "ebpf" /\ e.name = <<>> /\ e.ts = ts
    BY <2>1, NormalizedFields
  <2> QED
    BY <1>0, <1>1, <1>2, <2>2, ZenonT(60) DEF Fresh
<1>4. CASE r.kind = "dns"
  <2>1. e = Normalized("Dns", "ebpf", r.pid, r.name, ts, 90)
    BY <1>4 DEF FromKernel
  <2>2. DOMAIN e = Fields /\ e.type = "Dns" /\ e.source = "ebpf" /\ e.name = r.name /\ e.ts = ts
    BY <2>1, NormalizedFields
  <2> QED
    BY <1>0, <1>1, <1>2, <2>2, ZenonT(60) DEF Fresh
<1>5. CASE r.kind = "state"
  <2>1. e = Normalized("Connection", "ebpf", r.pid, <<>>, ts, 90)
    BY <1>5 DEF FromKernel
  <2>2. DOMAIN e = Fields /\ e.type = "Connection" /\ e.source = "ebpf" /\ e.name = <<>> /\ e.ts = ts
    BY <2>1, NormalizedFields
  <2> QED
    BY <1>0, <1>1, <1>2, <2>2, ZenonT(60) DEF Fresh
<1> QED
  BY <1>1, <1>3, <1>4, <1>5, ZenonT(60)

-----------------------------------------------------------------------------
(* What is claimed of an event on its way and of the published one.         *)
EventClaims == AttributionHonest /\ BestNavigation /\ SensitiveWithheld /\ UrlsStripped

(* What BestNavigation says once its hypotheses hold.                       *)
Chosen ==
  /\ processMatch /\ InWindow # {} => event.browser.attached
  /\ event.browser.attached =>
       \E i \in InWindow : /\ \A j \in InWindow : Precedes(i, j)
                           /\ event.browser.url = held[i].url
                           /\ event.browser.ts = held[i].ts

(* Other threads leave the event alone; time only ends BestNavigation's     *)
(* claim.                                                                   *)
LEMMA OutsideStep ==
  ASSUME EventInv, EventClaims, UNCHANGED eventVars, now \in Nat, now' \in Nat, now <= now'
  PROVE  EventInv' /\ EventClaims'
<1>1. /\ stage' = stage /\ event' = event /\ processMatch' = processMatch
      /\ published' = published /\ used' = used /\ held' = held /\ wireName' = wireName
  BY ZenonT(60) DEF eventVars
<1>2. EventInv'
  BY <1>1, ZenonT(60) DEF EventInv
<1>3. AttributionHonest'
  BY <1>1, ZenonT(60) DEF EventClaims, AttributionHonest
<1>4. SensitiveWithheld' /\ UrlsStripped'
  BY <1>1, ZenonT(60) DEF EventClaims, SensitiveWithheld, UrlsStripped, WasPublished
<1>5. BestNavigation'
  <2>1. SUFFICES ASSUME stage' = "correlated", now' - event'.ts <= 3 * NavigationWindow PROVE Chosen'
    BY ZenonT(60) DEF BestNavigation, Chosen
  <2>2. stage = "correlated" /\ event.ts \in Nat
    BY <1>1, <2>1 DEF EventInv
  <2>3. now - event.ts <= 3 * NavigationWindow
    <3>1. \A a, b, c, w \in Int : a <= b /\ b - c <= 3 * w => a - c <= 3 * w
      OBVIOUS
    <3>2. now \in Int /\ now' \in Int /\ event.ts \in Int /\ NavigationWindow \in Int
      BY <2>2, PipelineAssumption DEF PipelineAssumption
    <3> QED
      BY <1>1, <2>1, <3>1, <3>2, ZenonT(60)
  <2>4. Chosen
    BY <2>2, <2>3, ZenonT(60) DEF EventClaims, BestNavigation, Chosen
  <2> QED
    BY <1>1, <2>4, ZenonT(60) DEF Chosen, InWindow, Precedes
<1> QED
  BY <1>2, <1>3, <1>4, <1>5 DEF EventClaims

(* on_event: nothing is claimed yet of an event that was just delivered.    *)
LEMMA DeliverStep ==
  ASSUME NEW from, NEW e, Fresh(e, from.name), Deliver(from, e)
  PROVE  EventInv' /\ EventClaims'
<1>1. /\ stage' = "delivered" /\ event' = e /\ wireName' = from.name
      /\ processMatch' = FALSE /\ published' = NoEvent
  BY ZenonT(60) DEF Deliver
<1>2. "delivered" # "idle" /\ "delivered" # "correlated"
  OBVIOUS
<1>3. EventInv'
  BY <1>1, <1>2, ZenonT(60) DEF EventInv, Fresh
<1>4. AttributionHonest' /\ BestNavigation'
  BY <1>1, <1>2, ZenonT(60) DEF AttributionHonest, BestNavigation
<1>5. SensitiveWithheld' /\ UrlsStripped'
  BY <1>1, ZenonT(60) DEF SensitiveWithheld, UrlsStripped, WasPublished
<1> QED
  BY <1>3, <1>4, <1>5 DEF EventClaims

(* is_browser_process is asked only for an event that has a process.        *)
LEMMA LookUpStep ==
  ASSUME EventInv, LookUpProcess
  PROVE  EventInv' /\ EventClaims'
<1>1. /\ stage = "delivered" /\ stage' = "looked up" /\ event' = event /\ published' = published
      /\ wireName' = wireName
      /\ processMatch' = (event.pid # NoProcess /\ event.pid \in browsers)
  BY ZenonT(60) DEF LookUpProcess
<1>2. "delivered" # "idle" /\ "looked up" # "correlated" /\ "looked up" # "idle"
  OBVIOUS
<1>3. processMatch' \in BOOLEAN /\ (processMatch' => event.pid # NoProcess)
  BY <1>1, ZenonT(60)
<1>4. published = NoEvent
  BY <1>1, <1>2, ZenonT(60) DEF EventInv
<1>5. EventInv'
  BY <1>1, <1>2, <1>3, <1>4, ZenonT(60) DEF EventInv
<1>6. AttributionHonest' /\ BestNavigation'
  BY <1>1, <1>2, ZenonT(60) DEF AttributionHonest, BestNavigation
<1>7. SensitiveWithheld' /\ UrlsStripped'
  BY <1>1, <1>4, ZenonT(60) DEF SensitiveWithheld, UrlsStripped, WasPublished
<1> QED
  BY <1>5, <1>6, <1>7 DEF EventClaims

(* Precedes for any event and any navigations.                              *)
Order(x, navs, i, j) ==
  LET host(k)  == x.name # <<>> /\ navs[k].host = x.name
      delta(k) == AbsDelta(navs[k].ts, x.ts)
  IN \/ host(i) /\ ~host(j)
     \/ host(i) = host(j) /\ delta(i) < delta(j)
     \/ host(i) = host(j) /\ delta(i) = delta(j) /\ i <= j

(* The order of best_match's walk is the one BestNavigation states.         *)
LEMMA FirstPrecedes ==
  ASSUME NEW e, NEW x, x.name = e.name, x.ts = e.ts, NEW navs,
         NEW i \in 1..Len(navs), NEW j \in 1..Len(navs),
         First(Ranks(e, navs), Deltas(e, navs), i, j)
  PROVE  Order(x, navs, i, j)
<1> DEFINE host(k) == x.name # <<>> /\ navs[k].host = x.name
           rank  == Ranks(e, navs)
           delta == Deltas(e, navs)
<1>1. \A k : host(k) <=> HostMatch(e, navs[k])
  BY ZenonT(60) DEF HostMatch
<1>2. rank[i] = (IF host(i) THEN 0 ELSE 1) /\ rank[j] = (IF host(j) THEN 0 ELSE 1)
  BY <1>1, ZenonT(60) DEF Ranks
<1>3. delta[i] = AbsDelta(navs[i].ts, x.ts) /\ delta[j] = AbsDelta(navs[j].ts, x.ts)
  BY ZenonT(60) DEF Deltas
<1>4. First(rank, delta, i, j)
  OBVIOUS
<1> DEFINE hi == host(i)
           hj == host(j)
<1>5. (hi <=> hj) => hi = hj
  BY ZenonT(60)
<1>6. rank[i] = (IF hi THEN 0 ELSE 1) /\ rank[j] = (IF hj THEN 0 ELSE 1)
  BY <1>2, ZenonT(60)
<1>7. Order(x, navs, i, j) <=>
        \/ hi /\ ~hj
        \/ hi = hj /\ AbsDelta(navs[i].ts, x.ts) < AbsDelta(navs[j].ts, x.ts)
        \/ hi = hj /\ AbsDelta(navs[i].ts, x.ts) = AbsDelta(navs[j].ts, x.ts) /\ i <= j
  BY ZenonT(60) DEF Order
<1> HIDE DEF rank, delta, hi, hj
<1>8. (rank[i] < rank[j] => hi /\ ~hj) /\ (rank[i] = rank[j] => (hi <=> hj))
  BY <1>6
<1>9. rank[i] = rank[j] => hi = hj
  BY <1>5, <1>8, ZenonT(60)
<1>10. \/ rank[i] < rank[j]
       \/ rank[i] = rank[j] /\ delta[i] < delta[j]
       \/ rank[i] = rank[j] /\ delta[i] = delta[j] /\ i <= j
  BY <1>4, ZenonT(60) DEF First
<1> QED
  BY <1>3, <1>7, <1>8, <1>9, <1>10, ZenonT(60)

(* The tab correlate attaches.                                              *)
Tab(nav) == [attached |-> TRUE, url |-> nav.url, host |-> nav.host, ts |-> nav.ts]

(* correlate attaches it to a match whose confidence is at least 0.40. *)
Attached(match, score) == IF match.found /\ score >= Probable THEN Tab(match.nav) ELSE NoBrowser

(* Its fields.                                                              *)
LEMMA TabFields ==
  ASSUME NEW nav
  PROVE  /\ Tab(nav).attached = TRUE /\ Tab(nav).url = nav.url /\ Tab(nav).ts = nav.ts
         /\ NoBrowser.attached = FALSE /\ "url" \in DOMAIN Tab(nav)
  BY DEF Tab, NoBrowser

(* correlate: a tab is attached exactly when a navigation was found and the *)
(* process is a browser's.                                                  *)
LEMMA AttachRule ==
  ASSUME NEW process \in BOOLEAN, NEW match, match.found \in BOOLEAN, NEW host \in BOOLEAN,
         NEW pcap \in BOOLEAN
  PROVE  LET score == ScoreEvidence(process, match.found, host, pcap)
             b     == Attached(match, score)
         IN /\ score < 90 /\ (~process => score < 40) /\ (process => score >= 40)
            /\ b.attached <=> match.found /\ process
            /\ b.attached => /\ b.url = match.nav.url /\ b.ts = match.nav.ts
                            /\ "url" \in DOMAIN b
<1> DEFINE score == ScoreEvidence(process, match.found, host, pcap)
           b     == Attached(match, score)
<1>1. score \in 0..70 /\ (~process => score < 40) /\ (process => score >= 40)
  BY ScoreSum, ZenonT(60)
<1> HIDE DEF score
<1>2. score < 90 /\ (score >= Probable <=> process)
  BY <1>1 DEF Probable
<1>3. /\ b.attached <=> match.found /\ process
      /\ b.attached => /\ b.url = match.nav.url /\ b.ts = match.nav.ts
                      /\ "url" \in DOMAIN b
  BY <1>1, <1>2, TabFields, ZenonT(60) DEF Attached
<1> QED
  BY <1>1, <1>2, <1>3, ZenonT(60) DEF score

(* The second critical section of correlate.                                *)
LEMMA CorrelateStep ==
  ASSUME EventInv, EvidenceInv, Correlate
  PROVE  EventInv' /\ EventClaims'
<1> DEFINE m     == BestMatch(event, Prune(navigations, now))
           host  == m.found /\ HostMatch(event, m.nav)
           pcap  == event.source = "pcap"
           score == ScoreEvidence(processMatch, m.found, host, pcap)
           b     == Attached(m, score)
<1>1. /\ stage = "looked up" /\ stage' = "correlated" /\ held' = navigations /\ now' = now
      /\ processMatch' = processMatch /\ published' = published /\ wireName' = wireName
  BY ZenonT(60) DEF Correlate
<1>2. event' = WithMatch(event, score, b)
  BY ZenonT(60) DEF Correlate, WithMatch, Attached, Tab
<1>3. /\ "looked up" # "idle" /\ "looked up" # "delivered" /\ "correlated" # "idle"
      /\ "looked up" # "correlated"
  OBVIOUS
<1>4. /\ processMatch \in BOOLEAN /\ published = NoEvent /\ DOMAIN event = Fields
      /\ event.type \in {"Connection", "Dns"}
      /\ event.name \in Seq(STRING) /\ event.ts \in Nat
      /\ event.source = "pcap" => event.pid = NoProcess /\ event.name \in {<<>>, wireName}
      /\ processMatch => event.pid # NoProcess
  BY <1>1, <1>3, ZenonT(60) DEF EventInv
<1>5. navigations \in Seq(Nav) /\ now \in Nat
  BY DEF EvidenceInv
<1>6. m = NoMatch \/ \E nav \in Nav : m = Hit(nav)
  BY <1>4, <1>5, MatchIsOne, ZenonT(60)
<1> HIDE DEF m
<1>7. m.found \in BOOLEAN /\ (m.found => m.nav.url \in Seq(STRING))
  <2>1. \A nav \in Nav : nav.url \in Seq(STRING)
    BY DEF Nav
  <2> QED
    BY <1>6, <2>1, HitFields, ZenonT(60)
<1>8. host \in BOOLEAN /\ pcap \in BOOLEAN
  BY ZenonT(60) DEF HostMatch
<1> HIDE DEF host, pcap
<1>9. /\ score < 90 /\ (~processMatch => score < 40) /\ (processMatch => score >= 40)
      /\ b.attached <=> m.found /\ processMatch
      /\ b.attached => /\ b.url = m.nav.url /\ b.ts = m.nav.ts
                      /\ "url" \in DOMAIN b
  BY <1>4, <1>7, <1>8, AttachRule
<1> HIDE DEF score, b
<1>10. /\ DOMAIN event' = Fields /\ event'.confidence = score /\ event'.browser = b
       /\ \A field \in Fields \ {"confidence", "browser"} : event'[field] = event[field]
  BY <1>2, <1>4, CorrelatedFields
<1>11. /\ event'.type = event.type /\ event'.source = event.source /\ event'.pid = event.pid
       /\ event'.name = event.name /\ event'.ts = event.ts
  <2>1. {"type", "source", "pid", "name", "ts"} \subseteq Fields \ {"confidence", "browser"}
    BY DEF Fields
  <2> QED
    BY <1>10, <2>1, ZenonT(60)
<1>12. EventInv'
  BY <1>1, <1>3, <1>4, <1>7, <1>9, <1>10, <1>11, ZenonT(60) DEF EventInv
<1>13. AttributionHonest'
  BY <1>1, <1>4, <1>9, <1>10, <1>11, ZenonT(60) DEF AttributionHonest
<1>14. SensitiveWithheld' /\ UrlsStripped'
  BY <1>1, <1>4, ZenonT(60) DEF SensitiveWithheld, UrlsStripped, WasPublished
<1>15. BestNavigation'
  <2>1. SUFFICES ASSUME now - event.ts <= 3 * NavigationWindow PROVE Chosen'
    BY <1>1, <1>11, ZenonT(60) DEF BestNavigation, Chosen
  <2>2. BestOf(event, navigations, Len(navigations), m)
    BY <1>4, <1>5, <2>1, MatchIsBest, ZenonT(60) DEF m
  <2>3. DOMAIN navigations = 1..Len(navigations)
    BY <1>5
  <2>4. \A i : i \in InWindow' <=> i \in 1..Len(navigations) /\ Near(event, navigations[i])
    BY <1>1, <1>11, <2>3, ZenonT(60) DEF InWindow, Near
  <2>5. \A i, j : Order(event', navigations, i, j) => Precedes(i, j)'
    BY <1>1, ZenonT(60) DEF Order, Precedes
  <2>6. CASE m = NoMatch /\ \A j \in 1..Len(navigations) : ~Near(event, navigations[j])
    <3>1. InWindow' = {} /\ ~m.found
      BY <2>4, <2>6, HitFields, ZenonT(60)
    <3> QED
      BY <1>9, <1>10, <3>1, ZenonT(60) DEF Chosen
  <2>7. ASSUME NEW i \in 1..Len(navigations), Near(event, navigations[i]), m = Hit(navigations[i]),
               \A j \in 1..Len(navigations) :
                 Near(event, navigations[j]) =>
                   First(Ranks(event, navigations), Deltas(event, navigations), i, j)
        PROVE  Chosen'
    <3>1. i \in InWindow' /\ m.found /\ m.nav = navigations[i]
      BY <2>4, <2>7, HitFields, ZenonT(60)
    <3>2. \A j \in InWindow' : Precedes(i, j)'
      BY <1>11, <2>4, <2>5, <2>7, FirstPrecedes, ZenonT(60)
    <3>3. b.attached => event'.browser.url = held'[i].url /\ event'.browser.ts = held'[i].ts
      BY <1>1, <1>9, <1>10, <3>1, ZenonT(60)
    <3> QED
      BY <1>1, <1>9, <1>10, <3>1, <3>2, <3>3, ZenonT(60) DEF Chosen
  <2> QED
    BY <2>2, <2>6, <2>7, ZenonT(60) DEF BestOf
<1> QED
  BY <1>12, <1>13, <1>14, <1>15 DEF EventClaims

(* apply: what leaves the daemon was redacted under one policy.             *)
LEMMA PublishStep ==
  ASSUME EventInv, PolicyInv, Publish
  PROVE  EventInv' /\ EventClaims'
<1> DEFINE p       == policy
           e       == event
           name    == RedactDnsName(p, e.name)
           hasUrl  == e.browser.attached /\ e.browser.url # <<>>
           url     == RedactUrl(p, e.browser.url)
           browser == IF ~hasUrl THEN e.browser
                      ELSE IF url = <<>> THEN NoBrowser
                      ELSE [e.browser EXCEPT !.url = url]
<1>1. /\ stage = "correlated" /\ stage' = "idle" /\ event' = event /\ used' = policy
      /\ processMatch' = processMatch /\ published' = Redacted(policy, event)
  BY ZenonT(60) DEF Publish
<1>2. "correlated" # "idle" /\ "idle" # "delivered" /\ "idle" # "looked up"
  OBVIOUS
<1>3. /\ DOMAIN e = Fields /\ e.name \in Seq(STRING) /\ processMatch \in BOOLEAN
      /\ e.browser.attached => "url" \in DOMAIN e.browser /\ e.browser.url \in Seq(STRING)
  BY <1>1, <1>2, ZenonT(60) DEF EventInv
<1>4. p.sensitive \subseteq Seq(Glyphs)
  BY StringGlyphs, ZenonT(60) DEF PolicyInv, PolicyOK
<1>5. published'.name = name /\ published'.browser = browser
  <2>1. published' = WithRedaction(e, name, browser, (name # e.name \/ browser # e.browser),
                       IF hasUrl THEN UrlKinds(p, e.browser.url) ELSE DnsKinds(p, e.name))
    BY <1>1, ZenonT(60) DEF Redacted, WithRedaction
  <2> HIDE DEF name, browser, hasUrl
  <2> QED
    BY <1>3, <2>1, RedactedFields
<1>6. EventInv'
  BY <1>1, <1>2, <1>3, ZenonT(60) DEF EventInv
<1>7. AttributionHonest' /\ BestNavigation'
  BY <1>1, <1>2, ZenonT(60) DEF AttributionHonest, BestNavigation
<1>8. UrlsStripped'
  <2>1. SUFFICES ASSUME browser.attached PROVE {"?", "#"} \cap Range(browser.url) = {}
    BY <1>5, ZenonT(60) DEF UrlsStripped
  <2> HIDE DEF url
  <2>2. NoBrowser.attached = FALSE
    BY TabFields, ZenonT(60)
  <2>3. CASE ~hasUrl
    <3>1. browser.url = <<>>
      BY <2>1, <2>3, ZenonT(60)
    <3>2. Range(<<>>) = {}
      BY DEF Range
    <3> QED
      BY <3>1, <3>2, ZenonT(60)
  <2>4. CASE hasUrl
    <3>1. Without(url, {"?", "#"})
      BY <1>3, <2>4, RedactedUrl, StringGlyphs, ZenonT(60) DEF url
    <3>2. url # <<>> /\ browser = [e.browser EXCEPT !.url = url]
      BY <2>1, <2>2, <2>4, ZenonT(60)
    <3>3. browser.url = url
      BY <1>3, <2>4, <3>2, ZenonT(60)
    <3> QED
      BY <3>1, <3>2, <3>3, ZenonT(60) DEF Range, Without
  <2> QED
    BY <2>3, <2>4
<1>9. SensitiveWithheld'
  <2>1. ASSUME Sensitive(policy, event.name) PROVE name = <<>>
    <3>1. event.name \in Seq(Glyphs)
      BY <1>3, StringGlyphs, ZenonT(60)
    <3>2. DomainExcluded(policy, event.name)
      BY <1>4, <2>1, <3>1, SensitiveExcluded, ZenonT(60)
    <3> QED
      BY <3>2, ZenonT(60) DEF RedactDnsName
  <2>2. ASSUME event.browser.attached, BareHost(event.browser.url),
               Sensitive(policy, UrlHost(event.browser.url))
        PROVE  ~browser.attached
    <3>1. event.browser.url \in Seq(Glyphs)
      BY <1>3, <2>2, StringGlyphs, ZenonT(60)
    <3>2. UrlHost(event.browser.url) \in Seq(Glyphs)
      BY <3>1, HostPart, ZenonT(60)
    <3>3. DomainExcluded(policy, UrlHost(event.browser.url))
      BY <1>4, <2>2, <3>2, SensitiveExcluded, ZenonT(60)
    <3>4. UrlHost(event.browser.url) # <<>> /\ event.browser.url # <<>>
      BY <2>2, ZenonT(60) DEF BareHost
    <3>5. url = <<>>
      BY <3>3, <3>4, ZenonT(60) DEF RedactUrl
    <3> HIDE DEF url
    <3>6. browser = NoBrowser
      BY <2>2, <3>4, <3>5, ZenonT(60)
    <3> QED
      BY <3>6, TabFields, ZenonT(60)
  <2> HIDE DEF name, browser
  <2> QED
    BY <1>1, <1>5, <2>1, <2>2, ZenonT(60) DEF SensitiveWithheld
<1> QED
  BY <1>6, <1>7, <1>8, <1>9 DEF EventClaims

(* The invariant of the whole pipeline: accepted policies, recorded evidence, *)
(* the event on its way, and what is claimed of it.                           *)
PipelineInv == PolicyInv /\ EvidenceInv /\ EventInv /\ EventClaims

(* The daemon starts with the constructor's policy, no evidence and no      *)
(* event.                                                                   *)
LEMMA InvInit ==
  ASSUME Init
  PROVE  PipelineInv
<1>1. /\ policy = DefaultPolicy /\ used = DefaultPolicy /\ updates = [c \in Clients |-> Idle]
      /\ navigations = <<>> /\ now = 0 /\ stage = "idle" /\ processMatch = FALSE
      /\ published = NoEvent
  BY ZenonT(60) DEF Init
<1>2. PolicyInv
  <2>1. Idle.busy = FALSE
    BY DEF Idle
  <2> QED
    BY <1>1, <2>1, DefaultOK, ZenonT(60) DEF PolicyInv
<1>3. EvidenceInv
  <2>1. <<>> \in Seq(Nav) /\ Len(<<>>) = 0
    OBVIOUS
  <2>2. 0 <= MaxNavigations /\ 0 \in 0..MaxTime
    BY PipelineAssumption DEF PipelineAssumption
  <2> QED
    BY <1>1, <2>1, <2>2, ZenonT(60) DEF EvidenceInv
<1>4. "idle" # "correlated"
  OBVIOUS
<1>5. EventInv
  BY <1>1, ZenonT(60) DEF EventInv
<1>6. AttributionHonest /\ BestNavigation
  BY <1>1, <1>4, ZenonT(60) DEF AttributionHonest, BestNavigation
<1>7. SensitiveWithheld /\ UrlsStripped
  BY <1>1, ZenonT(60) DEF SensitiveWithheld, UrlsStripped, WasPublished
<1> QED
  BY <1>2, <1>3, <1>5, <1>6, <1>7 DEF PipelineInv, EventClaims

(* Every step of the capture thread and of the other threads keeps it.      *)
LEMMA InvStep ==
  ASSUME PipelineInv, [Next]_vars
  PROVE  PipelineInv'
<1>1. PolicyInv /\ EvidenceInv /\ EventInv /\ EventClaims
  BY DEF PipelineInv
<1>2. PolicyInv' /\ EvidenceInv' /\ now <= now'
  BY <1>1, PolicyStep, EvidenceStep, ZenonT(60)
<1>3. now \in Nat /\ now' \in Nat
  <2>1. MaxTime \in Nat /\ now \in 0..MaxTime /\ now' \in 0..MaxTime
    BY <1>1, <1>2, PipelineAssumption, ZenonT(60) DEF EvidenceInv, PipelineAssumption
  <2> QED
    BY <2>1
<1>4. ASSUME UNCHANGED eventVars PROVE EventInv' /\ EventClaims'
  BY <1>1, <1>2, <1>3, <1>4, OutsideStep, ZenonT(60)
<1>5. ASSUME NEW age \in Ages, now - age >= 0 PROVE now - age \in Nat
  <2>1. age \in Nat
    BY PipelineAssumption, ZenonT(60) DEF PipelineAssumption
  <2> QED
    BY <1>3, <1>5, <2>1
<1>6. ASSUME NEW c, NEW doc, SetPolicyBegin(c, doc) PROVE UNCHANGED eventVars
  BY <1>6, ZenonT(60) DEF SetPolicyBegin, eventVars
<1>7. ASSUME NEW c, SetPolicyEnd(c) PROVE UNCHANGED eventVars
  BY <1>7, ZenonT(60) DEF SetPolicyEnd, eventVars
<1>8. ASSUME NEW site, NEW ts, RecordNavigation(site, ts) PROVE UNCHANGED eventVars
  BY <1>8, ZenonT(60) DEF RecordNavigation, eventVars
<1>9. ASSUME NEW pids, SetBrowserProcesses(pids) PROVE UNCHANGED eventVars
  BY <1>9, ZenonT(60) DEF SetBrowserProcesses, eventVars
<1>10. ASSUME Tick \/ UNCHANGED vars PROVE UNCHANGED eventVars
  BY <1>10, ZenonT(60) DEF Tick, vars, eventVars
<1>11. ASSUME NEW f \in Frames, NEW age \in Ages, now - age >= 0, CaptureFrame(f, now - age)
       PROVE  EventInv' /\ EventClaims'
  BY <1>5, <1>11, FreshFrame, DeliverStep, ZenonT(60) DEF CaptureFrame
<1>12. ASSUME NEW r \in KernelEvents, NEW age \in Ages, now - age >= 0, CaptureKernel(r, now - age)
       PROVE  EventInv' /\ EventClaims'
  BY <1>5, <1>12, FreshKernel, DeliverStep, ZenonT(60) DEF CaptureKernel
<1>13. ASSUME LookUpProcess PROVE EventInv' /\ EventClaims'
  BY <1>1, <1>13, LookUpStep, ZenonT(60)
<1>14. ASSUME Correlate PROVE EventInv' /\ EventClaims'
  BY <1>1, <1>14, CorrelateStep, ZenonT(60)
<1>15. ASSUME Publish PROVE EventInv' /\ EventClaims'
  BY <1>1, <1>15, PublishStep, ZenonT(60)
<1>16. EventInv' /\ EventClaims'
  BY <1>4, <1>6, <1>7, <1>8, <1>9, <1>10, <1>11, <1>12, <1>13, <1>14, <1>15, ZenonT(60) DEF Next
<1> QED
  BY <1>2, <1>16 DEF PipelineInv

(* The invariant holds in every reachable state of the pipeline.            *)
LEMMA PipelineAlways == Spec => []PipelineInv
<1>1. Init => PipelineInv
  BY InvInit
<1>2. PipelineInv /\ [Next]_vars => PipelineInv'
  BY InvStep
<1> QED
  BY <1>1, <1>2, PTL DEF Spec

(* set_policy: the policy in force passes every limit of update_from_json,  *)
(* whatever documents clients send and however their calls overlap.         *)
THEOREM PipelineTypeOK == Spec => []TypeOK
<1>1. PipelineInv => TypeOK
  BY ZenonT(60) DEF PipelineInv, PolicyInv, PolicyOK, EvidenceInv, EventInv, TypeOK
<1> QED
  BY <1>1, PipelineAlways, PTL

(* domain_excluded, apply: a sensitive domain of the policy an event is     *)
(* redacted under shows neither in the DNS name nor in the tab.             *)
THEOREM PipelineSensitiveWithheld == Spec => []SensitiveWithheld
<1>1. PipelineInv => SensitiveWithheld
  BY DEF PipelineInv, EventClaims
<1> QED
  BY <1>1, PipelineAlways, PTL

(* redact_url: no consumer gets a query string or a fragment.               *)
THEOREM PipelineUrlsStripped == Spec => []UrlsStripped
<1>1. PipelineInv => UrlsStripped
  BY DEF PipelineInv, EventClaims
<1> QED
  BY <1>1, PipelineAlways, PTL

(* score_evidence, correlate: weak evidence never names a tab.              *)
THEOREM PipelineAttributionHonest == Spec => []AttributionHonest
<1>1. PipelineInv => AttributionHonest
  BY DEF PipelineInv, EventClaims
<1> QED
  BY <1>1, PipelineAlways, PTL

(* best_match after prune: the tab is the best of all navigations held.     *)
THEOREM PipelineBestNavigation == Spec => []BestNavigation
<1>1. PipelineInv => BestNavigation
  BY DEF PipelineInv, EventClaims
<1> QED
  BY <1>1, PipelineAlways, PTL

(* parse_dns_qname: a captured name is the whole name on the wire.          *)
THEOREM PipelineNameWholeOrAbsent == Spec => []NameWholeOrAbsent
<1>1. PipelineInv => NameWholeOrAbsent
  BY ZenonT(60) DEF PipelineInv, EventInv, NameWholeOrAbsent
<1> QED
  BY <1>1, PipelineAlways, PTL
=============================================================================
