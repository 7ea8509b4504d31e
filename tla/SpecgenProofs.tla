--------------------------- MODULE SpecgenProofs ---------------------------
(***************************************************************************)
(* Proofs about spec generation, for every set of tables, every limit and  *)
(* lists of every length.                                                  *)
(*                                                                         *)
(* The emitters fill JSON objects in the order of a sort, so what they     *)
(* write depends on which endpoint sorts last among those that share a     *)
(* key.  The first sections show that the comparison is a strict order     *)
(* that tells apart any two endpoints generate() lets into one document;   *)
(* so there is exactly one last endpoint under every key, whatever the     *)
(* order of the list.                                                      *)
(***************************************************************************)
EXTENDS Specgen, FiniteSetTheorems, SequenceTheorems, TLAPS

-----------------------------------------------------------------------------
(* Induction *)

(* The pairs of numbers of which the first is smaller. *)
Smaller == {pair \in Nat \X Nat : pair[1] < pair[2]}

(* Among the numbers in a set there is a least one. *)
LEMMA LeastOf ==
  ASSUME NEW T, T \subseteq Nat, T # {}
  PROVE \E x \in T : \A y \in T : x <= y
<1>1. IsWellFoundedOn(Smaller, Nat)
  BY NatLessThanWellFounded, Zenon DEF OpToRel, Smaller
<1>2. PICK x \in T : \A y \in T : ~(<<y, x>> \in Smaller)
  BY <1>1, WFMin, Zenon
<1>3. \A y \in T : x <= y
  <2>1. \A m, n \in Nat : ~(<<n, m>> \in Smaller) => m <= n
    BY DEF Smaller
  <2> QED BY <1>2, <2>1, Zenon
<1> QED
  BY <1>3, Zenon

(* What holds of 0 and passes from n to n + 1 holds of every number. *)
LEMMA Counting ==
  ASSUME NEW T, 0 \in T, \A n \in Nat : n \in T => n + 1 \in T
  PROVE  Nat \subseteq T
<1>1. SUFFICES ASSUME Nat \ T # {} PROVE FALSE
  BY Zenon
<1>2. PICK x \in Nat \ T : \A y \in Nat \ T : x <= y
  BY <1>1, LeastOf, Nat \ T \subseteq Nat, Zenon
<1>3. x - 1 \in Nat /\ ~(x <= x - 1) /\ (x - 1) + 1 = x
  <2>1. x # 0 /\ x \in Nat
    BY <1>2, Zenon
  <2> QED BY <2>1
<1> QED
  BY <1>2, <1>3, Zenon

-----------------------------------------------------------------------------
(* The order of strings *)

(* No string comes before itself. *)
LEMMA BeforeIrreflexive ==
  ASSUME NEW s \in Seq(Nat)
  PROVE  ~Before(s, s)
<1> SUFFICES ASSUME NEW i \in 0..Len(s), i < Len(s), s[i + 1] < s[i + 1]
             PROVE  FALSE
  BY DEF Before
<1>1. s[i + 1] \in Nat
  OBVIOUS
<1> QED BY <1>1

(* What comes before s comes before everything that s comes before. *)
LEMMA BeforeTransitive ==
  ASSUME NEW r \in Seq(Nat), NEW s \in Seq(Nat), NEW t \in Seq(Nat),
         Before(r, s), Before(s, t)
  PROVE  Before(r, t)
<1>1. PICK i \in 0..Len(r) : /\ i < Len(s)
                             /\ \A j \in 1..i : r[j] = s[j]
                             /\ i = Len(r) \/ r[i + 1] < s[i + 1]
  BY DEF Before
<1>2. PICK k \in 0..Len(s) : /\ k < Len(t)
                             /\ \A j \in 1..k : s[j] = t[j]
                             /\ k = Len(s) \/ s[k + 1] < t[k + 1]
  BY DEF Before
<1>3. CASE i <= k
  <2>1. i < Len(t) /\ \A j \in 1..i : r[j] = t[j]
    BY <1>1, <1>2, <1>3
  <2>2. i = Len(r) \/ r[i + 1] < t[i + 1]
    <3>1. CASE i = k
      <4>1. i < Len(r) => /\ i + 1 \in 1..Len(r) /\ i + 1 \in 1..Len(s)
                          /\ i + 1 \in 1..Len(t)
        BY <1>1, <2>1, SMTT(30)
      <4>2. i < Len(r) => r[i + 1] \in Nat /\ s[i + 1] \in Nat /\ t[i + 1] \in Nat
        BY <4>1
      <4> QED BY <1>1, <1>2, <3>1, <4>2, SMTT(30)
    <3>2. CASE i # k
      BY <1>1, <1>2, <1>3, <3>2
    <3> QED BY <3>1, <3>2
  <2> QED BY <2>1, <2>2 DEF Before
<1>4. CASE k < i
  <2>1. k \in 0..Len(r) /\ k < Len(t) /\ \A j \in 1..k : r[j] = t[j]
    BY <1>1, <1>2, <1>4, SMTT(30)
  <2>2. r[k + 1] < t[k + 1]
    BY <1>1, <1>2, <1>4
  <2> QED BY <2>1, <2>2 DEF Before
<1> QED BY <1>1, <1>2, <1>3, <1>4

(* Of two different strings one comes before the other: they part at the    *)
(* first position where one ends or their characters differ.                *)
LEMMA BeforeTotal ==
  ASSUME NEW s \in Seq(Nat), NEW t \in Seq(Nat), s # t
  PROVE  Before(s, t) \/ Before(t, s)
<1> DEFINE Parts == {i \in Nat : i >= Len(s) \/ i >= Len(t) \/ s[i + 1] # t[i + 1]}
<1>1. Len(s) \in Parts
  OBVIOUS
<1>2. PICK i \in Parts : \A k \in Parts : i <= k
  <2> HIDE DEF Parts
  <2>1. Parts \subseteq Nat
    BY DEF Parts
  <2> QED BY <1>1, <2>1, LeastOf, Zenon
<1>3. i <= Len(s) /\ i <= Len(t)
  BY <1>1, <1>2
<1>4. \A j \in 1..i : s[j] = t[j]
  <2> SUFFICES ASSUME NEW j \in 1..i PROVE s[j] = t[j]
    OBVIOUS
  <2>1. j - 1 \in Nat /\ ~(i <= j - 1)
    OBVIOUS
  <2>2. j - 1 \notin Parts
    BY <1>2, <2>1, Zenon
  <2> QED BY <2>1, <2>2
<1>5. CASE i = Len(s) /\ i = Len(t)
  <2>1. Len(s) = Len(t) /\ \A j \in 1..Len(s) : s[j] = t[j]
    BY <1>4, <1>5
  <2> QED BY <2>1, SeqEqual, Zenon
<1>6. CASE i = Len(s) /\ i < Len(t)
  BY <1>4, <1>6 DEF Before
<1>7. CASE i < Len(s) /\ i = Len(t)
  BY <1>4, <1>7 DEF Before
<1>8. CASE i < Len(s) /\ i < Len(t)
  <2>1. s[i + 1] \in Nat /\ t[i + 1] \in Nat /\ s[i + 1] # t[i + 1]
    BY <1>2, <1>8
  <2>2. i \in 0..Len(s) /\ i \in 0..Len(t) /\ (s[i + 1] < t[i + 1] \/ t[i + 1] < s[i + 1])
    BY <1>3, <2>1
  <2> QED BY <1>4, <1>8, <2>2 DEF Before
<1> QED BY <1>3, <1>5, <1>6, <1>7, <1>8

-----------------------------------------------------------------------------
(* The order of endpoints *)

(* sort_endpoints is given a strict order: no endpoint sorts before itself. *)
LEMMA SortsIrreflexive ==
  ASSUME NEW a \in Inputs
  PROVE  ~SortsBefore(a, a)
  BY SpecgenAssumption, BeforeIrreflexive, Zenon DEF SortsBefore

(* ... and what sorts before b sorts before all that b sorts before. *)
LEMMA SortsTransitive ==
  ASSUME NEW a \in Inputs, NEW b \in Inputs, NEW c \in Inputs,
         SortsBefore(a, b), SortsBefore(b, c)
  PROVE  SortsBefore(a, c)
<1>1. /\ a.ns \in Seq(Nat) /\ a.name \in Seq(Nat) /\ a.version \in Seq(Nat)
      /\ b.ns \in Seq(Nat) /\ b.name \in Seq(Nat) /\ b.version \in Seq(Nat)
      /\ c.ns \in Seq(Nat) /\ c.name \in Seq(Nat) /\ c.version \in Seq(Nat)
  BY SpecgenAssumption, Zenon
<1>2. Before(a.ns, b.ns) /\ Before(b.ns, c.ns) => Before(a.ns, c.ns)
  BY <1>1, BeforeTransitive, Zenon
<1>3. Before(a.name, b.name) /\ Before(b.name, c.name) => Before(a.name, c.name)
  BY <1>1, BeforeTransitive, Zenon
<1>4. Before(a.version, b.version) /\ Before(b.version, c.version) => Before(a.version, c.version)
  BY <1>1, BeforeTransitive, Zenon
<1> QED
  BY <1>2, <1>3, <1>4 DEF SortsBefore

(* The comparison tells apart any two endpoints that generate() lets into   *)
(* one document.                                                            *)
LEMMA SortsTotal ==
  ASSUME NEW a \in Inputs, NEW b \in Inputs, ~Same(a, b)
  PROVE  SortsBefore(a, b) \/ SortsBefore(b, a)
<1>1. /\ a.ns \in Seq(Nat) /\ a.name \in Seq(Nat) /\ a.version \in Seq(Nat)
      /\ b.ns \in Seq(Nat) /\ b.name \in Seq(Nat) /\ b.version \in Seq(Nat)
  BY SpecgenAssumption, Zenon
<1>2. a.ns # b.ns => Before(a.ns, b.ns) \/ Before(b.ns, a.ns)
  BY <1>1, BeforeTotal, Zenon
<1>3. a.name # b.name => Before(a.name, b.name) \/ Before(b.name, a.name)
  BY <1>1, BeforeTotal, Zenon
<1>4. a.version # b.version => Before(a.version, b.version) \/ Before(b.version, a.version)
  BY <1>1, BeforeTotal, Zenon
<1> QED
  BY <1>2, <1>3, <1>4, Zenon DEF SortsBefore, Same

(* No endpoint of S sorts after the one at i. *)
SortsLast(es, S, i) == i \in S /\ \A j \in S : ~SortsBefore(es[i], es[j])

(* Among endpoints one sorts last. *)
LEMMA OneSortsLast ==
  ASSUME NEW es \in Seq(Inputs), NEW S, S \subseteq DOMAIN es, S # {}
  PROVE  \E i \in S : SortsLast(es, S, i)
<1> DEFINE Good(n) == \A U : U \subseteq DOMAIN es /\ U \subseteq 1..n /\ U # {} =>
                               \E i \in U : SortsLast(es, U, i)
           T == {n \in Nat : Good(n)}
<1>1. 0 \in T
  OBVIOUS
<1>2. ASSUME NEW n \in Nat, n \in T PROVE n + 1 \in T
  <2>1. n + 1 \in Nat /\ Good(n)
    BY <1>2
  <2> HIDE DEF T
  <2>2. ASSUME NEW U, U \subseteq DOMAIN es, U \subseteq 1..(n + 1), U # {}
        PROVE  \E i \in U : SortsLast(es, U, i)
    <3> DEFINE m == n + 1
               V == U \ {m}
    <3>1. V \subseteq DOMAIN es /\ V \subseteq 1..n
      BY <2>2
    <3>2. \A j \in U : es[j] \in Inputs
      BY <2>2
    <3> HIDE DEF m
    <3>3. CASE V = {}
      <4>1. m \in U /\ U = {m}
        BY <2>2, <3>3, Zenon
      <4>2. SortsLast(es, U, m)
        BY <3>2, <4>1, SortsIrreflexive, Zenon DEF SortsLast
      <4> QED BY <4>1, <4>2, Zenon
    <3>4. CASE V # {}
      <4>1. PICK i \in V : SortsLast(es, V, i)
        BY <2>1, <3>1, <3>4, Zenon
      <4>2. i \in U /\ \A j \in U : j \in V \/ j = m
        BY Zenon
      <4>3. CASE m \in U /\ SortsBefore(es[i], es[m])
        <5>1. ASSUME NEW j \in U PROVE ~SortsBefore(es[m], es[j])
          <6>1. j = m => ~SortsBefore(es[m], es[j])
            BY <3>2, <4>3, SortsIrreflexive, Zenon
          <6>2. j \in V => ~SortsBefore(es[i], es[j])
            BY <4>1, Zenon DEF SortsLast
          <6>3. SortsBefore(es[m], es[j]) => SortsBefore(es[i], es[j])
            BY <3>2, <4>2, <4>3, SortsTransitive, Zenon
          <6> QED BY <4>2, <6>1, <6>2, <6>3, Zenon
        <5>2. SortsLast(es, U, m)
          BY <4>3, <5>1, Zenon DEF SortsLast
        <5> QED BY <4>3, <5>2, Zenon
      <4>4. CASE ~(m \in U /\ SortsBefore(es[i], es[m]))
        <5>1. SortsLast(es, U, i)
          BY <4>1, <4>2, <4>4, Zenon DEF SortsLast
        <5> QED BY <4>2, <5>1, Zenon
      <4> QED BY <4>3, <4>4, Zenon
    <3> QED BY <3>3, <3>4, Zenon
  <2> QED BY <2>1, <2>2, Zenon DEF T
<1>3. Len(es) \in Nat /\ S \subseteq 1..Len(es)
  OBVIOUS
<1> HIDE DEF Good
<1>4. Good(Len(es))
  <2>1. Nat \subseteq T
    <3> HIDE DEF T
    <3> QED BY <1>1, <1>2, Counting, Zenon
  <2> QED BY <1>3, <2>1, Zenon
<1> QED
  BY <1>3, <1>4, Zenon DEF Good

(* Endpoints no two of which have the same namespace, name and version, as  *)
(* in the lists generate() accepts.                                         *)
Distinct(es) == \A i, j \in DOMAIN es : i # j => ~Same(es[i], es[j])

(* generate() compares every pair of endpoints, each once. *)
LEMMA AcceptedDistinct ==
  ASSUME NEW es \in Seq(Inputs)
  PROVE  Accepts(es) <=> Len(es) <= MaxBundle /\ Distinct(es)
<1>1. \A i, j \in DOMAIN es : i # j => i < j \/ j < i
  OBVIOUS
<1>2. \A i, j \in DOMAIN es : i < j => i # j
  OBVIOUS
<1>3. \A i, j \in DOMAIN es : Same(es[i], es[j]) => Same(es[j], es[i])
  BY Zenon DEF Same
<1> QED
  BY <1>1, <1>2, <1>3, Zenon DEF Accepts, Distinct

(* The endpoint that is left under a key is the one that sorts last. *)
LEMMA SortedLastIs ==
  ASSUME NEW es \in Seq(Inputs), Distinct(es), NEW S, S \subseteq DOMAIN es,
         NEW i, SortsLast(es, S, i)
  PROVE  SortedLast(es, S) = i
<1>1. ASSUME NEW j, SortsLast(es, S, j) PROVE j = i
  <2>1. /\ i \in S /\ j \in S /\ i \in DOMAIN es /\ j \in DOMAIN es
        /\ ~SortsBefore(es[i], es[j]) /\ ~SortsBefore(es[j], es[i])
    BY <1>1, Zenon DEF SortsLast
  <2>2. es[i] \in Inputs /\ es[j] \in Inputs
    BY <2>1
  <2>3. Same(es[i], es[j])
    BY <2>1, <2>2, SortsTotal, Zenon
  <2> QED BY <2>1, <2>3, Zenon DEF Distinct
<1>2. {k \in S : \A j \in S : ~SortsBefore(es[k], es[j])} = {i}
  BY <1>1, Zenon DEF SortsLast
<1>3. i \in Nat
  <2>1. i \in DOMAIN es
    BY Zenon DEF SortsLast
  <2> QED BY <2>1
<1>4. Max({i}) = i
  BY <1>3 DEF Max
<1> QED
  BY <1>2, <1>4, Zenon DEF SortedLast

(* It is one of those that go under the key. *)
LEMMA SortedLastWithin ==
  ASSUME NEW es \in Seq(Inputs), Distinct(es), NEW S, S \subseteq DOMAIN es, S # {}
  PROVE  SortedLast(es, S) \in S
<1>1. PICK i \in S : SortsLast(es, S, i)
  BY OneSortsLast, Zenon
<1> QED
  BY <1>1, SortedLastIs, Zenon

-----------------------------------------------------------------------------
(* The same endpoints in another order *)

Shuffle(es, p) == [i \in DOMAIN es |-> es[p[i]]]

(* Where the endpoints at S are found after the shuffle. *)
Moved(es, p, S) == {i \in DOMAIN es : p[i] \in S}

(* A shuffle has the same positions and the same endpoints. *)
LEMMA ShuffleFacts ==
  ASSUME NEW es \in Seq(Inputs), NEW p \in Bijection(DOMAIN es, DOMAIN es)
  PROVE  /\ Shuffle(es, p) \in Seq(Inputs)
         /\ DOMAIN Shuffle(es, p) = DOMAIN es
         /\ Len(Shuffle(es, p)) = Len(es)
         /\ \A i \in DOMAIN es : p[i] \in DOMAIN es /\ Shuffle(es, p)[i] = es[p[i]]
         /\ \A i \in DOMAIN es : \E j \in DOMAIN es : p[j] = i
         /\ \A i, j \in DOMAIN es : p[i] = p[j] => i = j
<1>1. /\ p \in [DOMAIN es -> DOMAIN es]
      /\ \A i \in DOMAIN es : \E j \in DOMAIN es : p[j] = i
      /\ \A i, j \in DOMAIN es : p[i] = p[j] => i = j
  BY Zenon DEF Bijection, Injection, Surjection, IsInjective
<1>2. Shuffle(es, p) \in Seq(Inputs) /\ Len(Shuffle(es, p)) = Len(es)
  BY <1>1 DEF Shuffle
<1> QED
  BY <1>1, <1>2, Zenon DEF Shuffle

(* generate() accepts a list in every order or in none. *)
LEMMA ShuffleAccepted ==
  ASSUME NEW es \in Seq(Inputs), NEW p \in Bijection(DOMAIN es, DOMAIN es), Accepts(es)
  PROVE  Accepts(Shuffle(es, p)) /\ Distinct(Shuffle(es, p))
<1> DEFINE sh == Shuffle(es, p)
<1>1. /\ sh \in Seq(Inputs) /\ DOMAIN sh = DOMAIN es /\ Len(sh) = Len(es)
      /\ \A i \in DOMAIN es : p[i] \in DOMAIN es /\ sh[i] = es[p[i]]
      /\ \A i, j \in DOMAIN es : p[i] = p[j] => i = j
  BY ShuffleFacts, Zenon
<1> HIDE DEF sh
<1>2. Len(es) <= MaxBundle /\ Distinct(es)
  BY AcceptedDistinct, Zenon
<1>3. Distinct(sh)
  <2> SUFFICES ASSUME NEW i \in DOMAIN es, NEW j \in DOMAIN es, i # j
               PROVE  ~Same(sh[i], sh[j])
    BY <1>1, Zenon DEF Distinct
  <2>1. p[i] \in DOMAIN es /\ p[j] \in DOMAIN es /\ p[i] # p[j]
    BY <1>1, Zenon
  <2>2. ~Same(es[p[i]], es[p[j]])
    BY <1>2, <2>1, Zenon DEF Distinct
  <2> QED BY <1>1, <2>2, Zenon
<1>4. Accepts(sh)
  BY <1>1, <1>2, <1>3, AcceptedDistinct, Zenon
<1> QED
  BY <1>3, <1>4 DEF sh

(* The same endpoint is left under a key. *)
LEMMA ShuffleSortedLast ==
  ASSUME NEW es \in Seq(Inputs), NEW p \in Bijection(DOMAIN es, DOMAIN es), Accepts(es),
         NEW S, S \subseteq DOMAIN es, S # {}
  PROVE  Shuffle(es, p)[SortedLast(Shuffle(es, p), Moved(es, p, S))] = es[SortedLast(es, S)]
<1> DEFINE sh == Shuffle(es, p)
           U  == Moved(es, p, S)
<1>1. /\ sh \in Seq(Inputs) /\ DOMAIN sh = DOMAIN es
      /\ \A i \in DOMAIN es : p[i] \in DOMAIN es /\ sh[i] = es[p[i]]
      /\ \A i \in DOMAIN es : \E j \in DOMAIN es : p[j] = i
  BY ShuffleFacts, Zenon
<1>2. Distinct(es) /\ Distinct(sh)
  BY AcceptedDistinct, ShuffleAccepted, Zenon
<1> HIDE DEF sh
<1>3. U \subseteq DOMAIN sh /\ U # {}
  BY <1>1, Zenon DEF Moved
<1>4. \A i \in U : i \in DOMAIN es /\ p[i] \in S
  BY Zenon DEF Moved
<1>5. \A j \in S : \E k \in U : p[k] = j
  BY <1>1, Zenon DEF Moved
<1> HIDE DEF U
<1>6. PICK i \in U : SortsLast(sh, U, i)
  BY <1>1, <1>3, OneSortsLast, Zenon
<1>7. SortedLast(sh, U) = i
  BY <1>1, <1>2, <1>3, <1>6, SortedLastIs, Zenon
<1>8. SortsLast(es, S, p[i])
  <2>1. ASSUME NEW j \in S PROVE ~SortsBefore(es[p[i]], es[j])
    <3>1. PICK k \in U : p[k] = j
      BY <1>5, Zenon
    <3>2. ~SortsBefore(sh[i], sh[k])
      BY <1>6, Zenon DEF SortsLast
    <3> QED BY <1>1, <1>4, <3>1, <3>2, Zenon
  <2> QED BY <1>4, <2>1, Zenon DEF SortsLast
<1>9. SortedLast(es, S) = p[i]
  BY <1>2, <1>8, SortedLastIs, Zenon
<1>10. sh[SortedLast(sh, U)] = es[SortedLast(es, S)]
  BY <1>1, <1>4, <1>7, <1>9, Zenon
<1> QED
  BY <1>10 DEF sh, U

(* So objects keyed by joined names are the same ... *)
LEMMA ShuffleByName ==
  ASSUME NEW es \in Seq(Inputs), NEW p \in Bijection(DOMAIN es, DOMAIN es), Accepts(es),
         NEW S, S \subseteq DOMAIN es
  PROVE  ByName(Shuffle(es, p), Moved(es, p, S)) = ByName(es, S)
<1> DEFINE sh == Shuffle(es, p)
           U  == Moved(es, p, S)
           At(k)  == {i \in S : Joined(es[i]) = k}
           AtU(k) == {i \in U : Joined(sh[i]) = k}
<1>1. /\ \A i \in DOMAIN es : p[i] \in DOMAIN es /\ sh[i] = es[p[i]]
      /\ \A i \in DOMAIN es : \E j \in DOMAIN es : p[j] = i
  BY ShuffleFacts, Zenon
<1>2. \A i \in U : i \in DOMAIN es /\ p[i] \in S
  BY Zenon DEF Moved
<1>3. \A j \in S : \E k \in U : p[k] = j
  BY <1>1, Zenon DEF Moved
<1>4. {Joined(sh[i]) : i \in U} = {Joined(es[i]) : i \in S}
  <2> HIDE DEF sh, U
  <2>1. \A i \in U : \E j \in S : sh[i] = es[j]
    BY <1>1, <1>2, Zenon
  <2>2. ASSUME NEW j \in S PROVE \E i \in U : sh[i] = es[j]
    <3>1. PICK i \in U : p[i] = j
      BY <1>3, Zenon
    <3>2. sh[i] = es[j]
      BY <1>1, <1>2, <3>1, Zenon
    <3> QED BY <3>2, Zenon
  <2> QED BY <2>1, <2>2, Zenon
<1>5. ASSUME NEW k \in {Joined(es[i]) : i \in S}
      PROVE  sh[SortedLast(sh, AtU(k))] = es[SortedLast(es, At(k))]
  <2>1. At(k) # {} /\ At(k) \subseteq DOMAIN es
    BY <1>5, Zenon
  <2>2. AtU(k) = Moved(es, p, At(k))
    <3> HIDE DEF sh
    <3> QED BY <1>1, Zenon DEF Moved
  <2> HIDE DEF At, AtU
  <2> QED BY <2>1, <2>2, ShuffleSortedLast, Zenon
<1> HIDE DEF sh, U
<1>6. ByName(sh, U) = ByName(es, S)
  BY <1>4, <1>5, Zenon DEF ByName
<1> QED
  BY <1>6 DEF sh, U

(* ... and so are those keyed by paths. *)
LEMMA ShuffleByPath ==
  ASSUME NEW es \in Seq(Inputs), NEW p \in Bijection(DOMAIN es, DOMAIN es), Accepts(es),
         NEW S, S \subseteq DOMAIN es
  PROVE  ByPath(Shuffle(es, p), Moved(es, p, S)) = ByPath(es, S)
<1> DEFINE sh == Shuffle(es, p)
           U  == Moved(es, p, S)
           At(k)  == {i \in S : Path(es[i]) = k}
           AtU(k) == {i \in U : Path(sh[i]) = k}
<1>1. /\ \A i \in DOMAIN es : p[i] \in DOMAIN es /\ sh[i] = es[p[i]]
      /\ \A i \in DOMAIN es : \E j \in DOMAIN es : p[j] = i
  BY ShuffleFacts, Zenon
<1>2. \A i \in U : i \in DOMAIN es /\ p[i] \in S
  BY Zenon DEF Moved
<1>3. \A j \in S : \E k \in U : p[k] = j
  BY <1>1, Zenon DEF Moved
<1>4. {Path(sh[i]) : i \in U} = {Path(es[i]) : i \in S}
  <2> HIDE DEF sh, U
  <2>1. \A i \in U : \E j \in S : sh[i] = es[j]
    BY <1>1, <1>2, Zenon
  <2>2. ASSUME NEW j \in S PROVE \E i \in U : sh[i] = es[j]
    <3>1. PICK i \in U : p[i] = j
      BY <1>3, Zenon
    <3>2. sh[i] = es[j]
      BY <1>1, <1>2, <3>1, Zenon
    <3> QED BY <3>2, Zenon
  <2> QED BY <2>1, <2>2, Zenon
<1>5. ASSUME NEW k \in {Path(es[i]) : i \in S}
      PROVE  sh[SortedLast(sh, AtU(k))] = es[SortedLast(es, At(k))]
  <2>1. At(k) # {} /\ At(k) \subseteq DOMAIN es
    BY <1>5, Zenon
  <2>2. AtU(k) = Moved(es, p, At(k))
    <3> HIDE DEF sh
    <3> QED BY <1>1, Zenon DEF Moved
  <2> HIDE DEF At, AtU
  <2> QED BY <2>1, <2>2, ShuffleSortedLast, Zenon
<1> HIDE DEF sh, U
<1>6. ByPath(sh, U) = ByPath(es, S)
  BY <1>4, <1>5, Zenon DEF ByPath
<1> QED
  BY <1>6 DEF sh, U

(* The document is the same, whichever the format. *)
LEMMA ShuffleDocument ==
  ASSUME NEW es \in Seq(Inputs), NEW p \in Bijection(DOMAIN es, DOMAIN es), Accepts(es),
         NEW f \in Formats
  PROVE  Document(f, Shuffle(es, p)) = Document(f, es)
<1> DEFINE sh == Shuffle(es, p)
<1>1. /\ DOMAIN sh = DOMAIN es
      /\ \A i \in DOMAIN es : p[i] \in DOMAIN es /\ sh[i] = es[p[i]]
      /\ \A i \in DOMAIN es : \E j \in DOMAIN es : p[j] = i
  BY ShuffleFacts, Zenon
<1>2. \A S : S \subseteq DOMAIN es => /\ ByName(sh, Moved(es, p, S)) = ByName(es, S)
                                      /\ ByPath(sh, Moved(es, p, S)) = ByPath(es, S)
  BY ShuffleByName, ShuffleByPath, Zenon
<1> HIDE DEF sh
<1>3. \A side : Having(es, side) \subseteq DOMAIN es /\ Having(sh, side) = Moved(es, p, Having(es, side))
  BY <1>1, Zenon DEF Having, Moved
<1>4. EventSurfaces(es) \subseteq DOMAIN es /\ EventSurfaces(sh) = Moved(es, p, EventSurfaces(es))
  BY <1>1, Zenon DEF EventSurfaces, Moved
<1>5. DOMAIN sh = Moved(es, p, DOMAIN es)
  BY <1>1, Zenon DEF Moved
<1>6. Range(sh) = Range(es)
  <2>1. \A i \in DOMAIN sh : \E j \in DOMAIN es : sh[i] = es[j]
    BY <1>1, Zenon
  <2>2. ASSUME NEW j \in DOMAIN es PROVE \E i \in DOMAIN sh : sh[i] = es[j]
    <3>1. PICK i \in DOMAIN es : p[i] = j
      BY <1>1, Zenon
    <3>2. i \in DOMAIN sh /\ sh[i] = es[j]
      BY <1>1, <3>1, Zenon
    <3> QED BY <3>2, Zenon
  <2>3. {sh[i] : i \in DOMAIN sh} = {es[j] : j \in DOMAIN es}
    <3>1. {sh[i] : i \in DOMAIN sh} \subseteq {es[j] : j \in DOMAIN es}
      BY <2>1, Zenon
    <3>2. {es[j] : j \in DOMAIN es} \subseteq {sh[i] : i \in DOMAIN sh}
      BY <2>2, Zenon
    <3> QED BY <3>1, <3>2, Zenon
  <2> QED BY <2>3, Zenon DEF Range
<1>7. /\ \A side : ByName(sh, Having(sh, side)) = ByName(es, Having(es, side))
      /\ ByName(sh, EventSurfaces(sh)) = ByName(es, EventSurfaces(es))
      /\ ByPath(sh, EventSurfaces(sh)) = ByPath(es, EventSurfaces(es))
      /\ ByName(sh, DOMAIN sh) = ByName(es, DOMAIN es)
      /\ ByPath(sh, DOMAIN sh) = ByPath(es, DOMAIN es)
  BY <1>2, <1>3, <1>4, <1>5, Zenon
<1>8. EmitOpenApi31(sh) = EmitOpenApi31(es)
  BY <1>6, <1>7, Zenon DEF EmitOpenApi31
<1>9. EmitAsyncApi2(sh) = EmitAsyncApi2(es)
  BY <1>7, Zenon DEF EmitAsyncApi2
<1>10. EmitJsonSchema(sh) = EmitJsonSchema(es)
  BY <1>7, Zenon DEF EmitJsonSchema
<1>11. Document(f, sh) = Document(f, es)
  BY <1>8, <1>9, <1>10, Zenon DEF Document
<1> QED
  BY <1>11 DEF sh

-----------------------------------------------------------------------------
(* The calls of a script *)

(* What a script holds is an error, or the document of its list, which      *)
(* generate() accepts.                                                      *)
SpecgenInv ==
  /\ passed \in Seq(Inputs) /\ format \in Formats
  /\ result # Refused => Accepts(passed) /\ result = Document(format, passed)

(* It does so initially and after every call, and a list that is added to   *)
(* has no document yet.                                                     *)
LEMMA SpecgenInvHolds == Spec => []SpecgenInv
<1>1. Init => SpecgenInv
  BY DEF Init, SpecgenInv
<1>2. SpecgenInv /\ [Next]_vars => SpecgenInv'
  <2> SUFFICES ASSUME SpecgenInv, [Next]_vars PROVE SpecgenInv'
    OBVIOUS
  <2>1. ASSUME NEW f \in Formats, SpecGenerate(f) PROVE SpecgenInv'
    <3>1. result' # Refused => result' = Generate(f, passed)
      BY <2>1, Zenon DEF SpecGenerate
    <3>2. result' # Refused => Accepts(passed) /\ result' = Document(f, passed)
      BY <3>1, Zenon DEF Generate
    <3> QED
      BY <2>1, <3>2, Zenon DEF SpecGenerate, SpecgenInv
  <2>2. ASSUME NEW t \in Inputs, AddTable(t) PROVE SpecgenInv'
    <3>1. passed' \in Seq(Inputs)
      BY <2>2 DEF AddTable, SpecgenInv
    <3> QED
      BY <2>2, <3>1, Zenon DEF AddTable, SpecgenInv
  <2>3. CASE UNCHANGED vars
    BY <2>3, Zenon DEF vars, SpecgenInv
  <2> QED
    BY <2>1, <2>2, <2>3, Zenon DEF Next
<1> QED
  BY <1>1, <1>2, PTL DEF Spec

(* specgen.hpp: identical inputs produce identical output.  Whatever the    *)
(* tables, the order in which a script lists its endpoints decides neither  *)
(* whether generate() produces a document nor what is in it.                *)
THEOREM SpecgenOrderIrrelevant == Spec => []OrderIrrelevant
<1>1. SpecgenInv => OrderIrrelevant
  <2> SUFFICES ASSUME SpecgenInv, result # Refused,
                      NEW p \in Bijection(DOMAIN passed, DOMAIN passed)
               PROVE  Generate(format, [i \in DOMAIN passed |-> passed[p[i]]]) = result
    BY Zenon DEF OrderIrrelevant, Documented
  <2>1. passed \in Seq(Inputs) /\ format \in Formats /\ Accepts(passed)
        /\ result = Document(format, passed)
    BY Zenon DEF SpecgenInv
  <2>2. Accepts(Shuffle(passed, p))
    BY <2>1, ShuffleAccepted, Zenon
  <2>3. Document(format, Shuffle(passed, p)) = Document(format, passed)
    BY <2>1, ShuffleDocument, Zenon
  <2>4. Generate(format, Shuffle(passed, p)) = result
    BY <2>1, <2>2, <2>3, Zenon DEF Generate
  <2> QED BY <2>4, Zenon DEF Shuffle
<1> QED
  BY <1>1, SpecgenInvHolds, PTL

(* Two endpoints of a list that generate() accepts have different paths. *)
LEMMA PathsDiffer ==
  ASSUME NEW es \in Seq(Inputs), Distinct(es),
         NEW i \in DOMAIN es, NEW j \in DOMAIN es, Path(es[i]) = Path(es[j])
  PROVE  i = j
<1>1. es[i].ns = es[j].ns /\ es[i].name = es[j].name /\ es[i].version = es[j].version
  BY DEF Path
<1> QED
  BY <1>1, Zenon DEF Distinct, Same

(* emit_openapi31 and emit_asyncapi2 key their paths and channels by        *)
(* namespace, name and version, which generate() has checked to differ: no  *)
(* endpoint replaces another.                                               *)
THEOREM SpecgenNothingOverwritten == Spec => []NothingOverwritten
<1>1. SpecgenInv => NothingOverwritten
  <2> SUFFICES ASSUME SpecgenInv, result # Refused
               PROVE  /\ format = "openapi-3.1" =>
                           \A i \in DOMAIN passed :
                             \E p \in DOMAIN result.paths : result.paths[p] = passed[i]
                      /\ format = "asyncapi-2" =>
                           Cardinality(DOMAIN result.channels) =
                             Cardinality({i \in DOMAIN passed : passed[i].kind # "operation"})
    BY Zenon DEF NothingOverwritten, Documented
  <2>1. passed \in Seq(Inputs) /\ Accepts(passed) /\ result = Document(format, passed)
    BY Zenon DEF SpecgenInv
  <2>2. Distinct(passed)
    BY <2>1, AcceptedDistinct, Zenon
  <2>3. ASSUME format = "openapi-3.1", NEW i \in DOMAIN passed
        PROVE  \E p \in DOMAIN result.paths : result.paths[p] = passed[i]
    <3> DEFINE k == Path(passed[i])
               S == {j \in DOMAIN passed : Path(passed[j]) = k}
    <3>1. result.paths = ByPath(passed, DOMAIN passed)
      BY <2>1, <2>3 DEF Document, EmitOpenApi31
    <3>2. S = {i}
      BY <2>1, <2>2, PathsDiffer, Zenon
    <3>3. passed[i] \in Inputs
      BY <2>1
    <3>4. SortsLast(passed, S, i)
      BY <3>2, <3>3, SortsIrreflexive, Zenon DEF SortsLast
    <3>5. SortedLast(passed, S) = i
      BY <2>1, <2>2, <3>4, SortedLastIs, Zenon
    <3>6. k \in DOMAIN result.paths /\ result.paths[k] = passed[i]
      BY <3>1, <3>5, Zenon DEF ByPath
    <3> QED BY <3>6, Zenon
  <2>4. ASSUME format = "asyncapi-2"
        PROVE  Cardinality(DOMAIN result.channels) =
                 Cardinality({i \in DOMAIN passed : passed[i].kind # "operation"})
    <3> DEFINE E == EventSurfaces(passed)
               F == {Path(passed[i]) : i \in E}
               m == [i \in E |-> Path(passed[i])]
    <3>1. DOMAIN result.channels = F
      <4>1. result.channels = [k \in DOMAIN ByPath(passed, E) |-> Joined(ByPath(passed, E)[k])]
        BY <2>1, <2>4 DEF Document, EmitAsyncApi2
      <4> QED BY <4>1, Zenon DEF ByPath
    <3>2. E = {i \in DOMAIN passed : passed[i].kind # "operation"}
      BY DEF EventSurfaces
    <3>3. IsFiniteSet(E)
      <4>1. IsFiniteSet(DOMAIN passed)
        <5>1. DOMAIN passed = 1..Len(passed) /\ Len(passed) \in Int
          BY <2>1
        <5> QED BY <5>1, FS_Interval
      <4> QED BY <3>2, <4>1, FS_Subset, Zenon
    <3>4. \A i, j \in E : Path(passed[i]) = Path(passed[j]) => i = j
      BY <2>1, <2>2, <3>2, PathsDiffer, Zenon
    <3> HIDE DEF E
    <3>5. m \in Bijection(E, F)
      BY <3>4, Zenon DEF Bijection, Injection, Surjection, IsInjective
    <3>6. Cardinality(F) = Cardinality(E)
      <4>1. ExistsBijection(E, F)
        BY <3>5, Zenon DEF ExistsBijection
      <4> QED BY <3>3, <4>1, FS_Bijection, Zenon
    <3> QED BY <3>1, <3>2, <3>6, Zenon
  <2> QED BY <2>3, <2>4, Zenon
<1> QED
  BY <1>1, SpecgenInvHolds, PTL

(* Every $ref of a document resolves inside it: emit_openapi31 stores a     *)
(* schema under the name an operation refers to, and emit_asyncapi2 a       *)
(* message under the name a channel refers to, whoever else writes there.   *)
THEOREM SpecgenRefsResolve == Spec => []RefsResolve
<1>1. SpecgenInv => RefsResolve
  <2> SUFFICES ASSUME SpecgenInv, result # Refused
               PROVE  /\ format = "openapi-3.1" =>
                           \A r \in result.refs :
                             r[1] \in IF r[2] = "request" THEN DOMAIN result.requests
                                                          ELSE DOMAIN result.responses
                      /\ format = "asyncapi-2" =>
                           \A c \in DOMAIN result.channels :
                             result.channels[c] \in DOMAIN result.messages
    BY Zenon DEF RefsResolve, Documented
  <2>1. passed \in Seq(Inputs) /\ Accepts(passed) /\ result = Document(format, passed)
    BY Zenon DEF SpecgenInv
  <2>2. Distinct(passed)
    BY <2>1, AcceptedDistinct, Zenon
  <2>3. ASSUME format = "openapi-3.1", NEW r \in result.refs
        PROVE  r[1] \in IF r[2] = "request" THEN DOMAIN result.requests
                                            ELSE DOMAIN result.responses
    <3> DEFINE Names(side) == {Joined(passed[i]) : i \in Having(passed, side)}
    <3>1. /\ DOMAIN result.requests = DOMAIN ByName(passed, Having(passed, "request"))
          /\ DOMAIN result.responses = DOMAIN ByName(passed, Having(passed, "response"))
          /\ result.refs = UNION {{<<Joined(e), side>> : side \in Refs(e)} : e \in Range(passed)}
      BY <2>1, <2>3 DEF Document, EmitOpenApi31
    <3>2. DOMAIN result.requests = Names("request") /\ DOMAIN result.responses = Names("response")
      BY <3>1, Zenon DEF ByName
    <3>a. PICK e \in Range(passed) : \E side \in Refs(e) : r = <<Joined(e), side>>
      BY <2>3, <3>1, Zenon
    <3>3. PICK side \in Refs(e) : r = <<Joined(e), side>>
      BY <3>a, Zenon
    <3>4. PICK i \in DOMAIN passed : passed[i] = e
      BY <3>a, Zenon DEF Range
    <3>5. side \in {"request", "response"} /\ HasSchema(e, side)
      BY <3>3, Zenon DEF Refs
    <3>6. Joined(e) \in Names(side)
      BY <3>4, <3>5, Zenon DEF Having
    <3>7. r[1] = Joined(e) /\ r[2] = side
      BY <3>3
    <3> HIDE DEF Names
    <3> QED BY <3>2, <3>5, <3>6, <3>7
  <2>4. ASSUME format = "asyncapi-2", NEW c \in DOMAIN result.channels
        PROVE  result.channels[c] \in DOMAIN result.messages
    <3> DEFINE E == EventSurfaces(passed)
               S == {i \in E : Path(passed[i]) = c}
    <3>1. /\ result.channels = [k \in DOMAIN ByPath(passed, E) |-> Joined(ByPath(passed, E)[k])]
          /\ DOMAIN result.messages = DOMAIN ByName(passed, E)
      BY <2>1, <2>4 DEF Document, EmitAsyncApi2
    <3>2. E \subseteq DOMAIN passed
      BY Zenon DEF EventSurfaces
    <3> HIDE DEF E
    <3>3. c \in {Path(passed[i]) : i \in E} /\ result.channels[c] = Joined(ByPath(passed, E)[c])
      <4>1. c \in DOMAIN ByPath(passed, E) /\ result.channels[c] = Joined(ByPath(passed, E)[c])
        BY <2>4, <3>1, Zenon
      <4> QED BY <4>1, Zenon DEF ByPath
    <3>4. S \subseteq DOMAIN passed /\ S # {}
      BY <3>2, <3>3, Zenon
    <3>5. SortedLast(passed, S) \in E
      <4>1. SortedLast(passed, S) \in S
        BY <2>1, <2>2, <3>4, SortedLastWithin, Zenon
      <4> QED BY <4>1, Zenon
    <3>6. ByPath(passed, E)[c] = passed[SortedLast(passed, S)]
      BY <3>3, Zenon DEF ByPath
    <3> HIDE DEF S
    <3>7. result.channels[c] = Joined(passed[SortedLast(passed, S)])
      BY <3>3, <3>6, Zenon
    <3>8. DOMAIN result.messages = {Joined(passed[i]) : i \in E}
      BY <3>1, Zenon DEF ByName
    <3> QED BY <3>5, <3>7, <3>8, Zenon
  <2> QED BY <2>3, <2>4, Zenon
<1> QED
  BY <1>1, SpecgenInvHolds, PTL
=============================================================================
