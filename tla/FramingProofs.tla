--------------------------- MODULE FramingProofs ---------------------------
(***************************************************************************)
(* Proofs about the framing of the daemon's socket, for every stream of    *)
(* requests, every limit on a request, every size of the receive buffer    *)
(* and every way recv() cuts the stream.                                   *)
(*                                                                         *)
(* The argument: splitting a stream in chunks, with the incomplete line    *)
(* kept for the next chunk, gives what splitting it at once would give     *)
(* (SplitConcat); and what splitting a prefix of a peer's stream gives is  *)
(* known (PrefixSplit).  So after every turn of the loop the frames, the   *)
(* replies and the buffers are functions of the number of bytes received.  *)
(***************************************************************************)
EXTENDS Framing, SequenceTheorems, WellFoundedInduction, TLAPS

-----------------------------------------------------------------------------
(* Induction and recursion *)

(* The pairs of numbers in ascending order. *)
Ascending == {pair \in Nat \X Nat : pair[1] < pair[2]}

(* A set of numbers has a least member, unless it is empty. *)
LEMMA HasLeast ==
  ASSUME NEW T, T \subseteq Nat, T # {}
  PROVE \E x \in T : \A y \in T : x <= y
<1>1. IsWellFoundedOn(Ascending, Nat)
  BY NatLessThanWellFounded, Zenon DEF OpToRel, Ascending
<1>2. PICK x \in T : \A y \in T : ~(<<y, x>> \in Ascending)
  BY <1>1, WFMin, Zenon
<1>3. \A m, n \in Nat : ~(<<n, m>> \in Ascending) => m <= n
  BY DEF Ascending
<1> QED
  BY <1>2, <1>3, Zenon

(* Induction over the numbers. *)
LEMMA NumberInduction ==
  ASSUME NEW T, 0 \in T, \A n \in Nat : n \in T => n + 1 \in T
  PROVE  Nat \subseteq T
<1>1. SUFFICES ASSUME Nat \ T # {} PROVE FALSE
  BY Zenon
<1>2. PICK x \in Nat \ T : \A y \in Nat \ T : x <= y
  BY <1>1, HasLeast, Nat \ T \subseteq Nat, Zenon
<1>3. x - 1 \in Nat /\ ~(x <= x - 1) /\ (x - 1) + 1 = x
  <2>1. x # 0 /\ x \in Nat
    BY <1>2, Zenon
  <2> QED BY <2>1
<1> QED
  BY <1>2, <1>3, Zenon

(* Induction over the numbers up to N. *)
LEMMA BoundedInduction ==
  ASSUME NEW N \in Nat, NEW T, 0 \in T, \A n \in 0..N : n < N /\ n \in T => n + 1 \in T
  PROVE  0..N \subseteq T
<1> DEFINE U == {n \in Nat : n <= N => n \in T}
<1>1. 0 \in U
  OBVIOUS
<1>2. \A n \in Nat : n \in U => n + 1 \in U
  OBVIOUS
<1>3. Nat \subseteq U
  <2> HIDE DEF U
  <2> QED BY <1>1, <1>2, NumberInduction, Zenon
<1> QED
  BY <1>3

(* Induction over the strings of bytes, one byte at a time. *)
LEMMA ByteInduction ==
  ASSUME NEW T, <<>> \in T, \A s \in Seq(Nat) : \A x \in Nat : s \in T => Append(s, x) \in T
  PROVE  Seq(Nat) \subseteq T
<1> DEFINE U == {n \in Nat : \A s \in Seq(Nat) : Len(s) = n => s \in T}
<1>1. 0 \in U
  <2>1. \A s \in Seq(Nat) : Len(s) = 0 => s = <<>>
    OBVIOUS
  <2>2. 0 \in Nat
    OBVIOUS
  <2> QED BY <2>1, <2>2, Zenon
<1>2. ASSUME NEW n \in Nat, n \in U PROVE n + 1 \in U
  <2>1. ASSUME NEW s \in Seq(Nat), Len(s) = n + 1 PROVE s \in T
    <3>1. s # <<>>
      BY <2>1
    <3>2. PICK r \in Seq(Nat), x \in Nat : s = Append(r, x)
      BY <3>1, SequenceEmptyOrAppend, Zenon
    <3>3. Len(r) = n
      BY <2>1, <3>2
    <3> QED BY <1>2, <3>2, <3>3, Zenon
  <2>2. n + 1 \in Nat
    OBVIOUS
  <2> QED BY <2>1, <2>2, Zenon
<1>3. Nat \subseteq U
  <2> HIDE DEF U
  <2> QED BY <1>1, <1>2, NumberInduction, Zenon
<1>4. \A s \in Seq(Nat) : Len(s) \in Nat
  OBVIOUS
<1> QED
  BY <1>3, <1>4, Zenon

(* g starts with v and goes on by next. *)
Unrolls(g, N, v, next) == g[0] = v /\ \A n \in 1..N : g[n] = next[<<n, g[n - 1]>>]

(* A loop of N turns computes something: the functions that recurse on the  *)
(* number of a turn are well defined.                                       *)
LEMMA LoopExists ==
  ASSUME NEW V, NEW v \in V, NEW N \in Nat, NEW next \in [(1..N) \X V -> V]
  PROVE  \E g \in [0..N -> V] : Unrolls(g, N, v, next)
<1> DEFINE T == {m \in 0..N : \E g \in [0..m -> V] : Unrolls(g, m, v, next)}
<1>1. 0 \in T
  <2>1. [n \in 0..0 |-> v] \in [0..0 -> V] /\ Unrolls([n \in 0..0 |-> v], 0, v, next)
    BY DEF Unrolls
  <2>2. 0 \in 0..N
    OBVIOUS
  <2> QED BY <2>1, <2>2, Zenon
<1>2. ASSUME NEW m \in 0..N, m < N, m \in T PROVE m + 1 \in T
  <2>1. PICK g \in [0..m -> V] : Unrolls(g, m, v, next)
    BY <1>2, Zenon
  <2> DEFINE w == next[<<m + 1, g[m]>>]
             h == [n \in 0..m + 1 |-> IF n = m + 1 THEN w ELSE g[n]]
  <2>2. m \in 0..m /\ m + 1 \in 1..N /\ m + 1 \in 0..N
    BY <1>2
  <2>3. w \in V
    <3>1. g[m] \in V
      BY <2>2, Zenon
    <3>2. <<m + 1, g[m]>> \in (1..N) \X V
      BY <2>2, <3>1, Zenon
    <3> QED BY <3>2, Zenon
  <2> HIDE DEF w
  <2>4. h \in [0..m + 1 -> V] /\ h[m + 1] = w /\ \A n \in 0..m : h[n] = g[n]
    BY <2>3
  <2> HIDE DEF h
  <2>5. ASSUME NEW n \in 1..m + 1 PROVE h[n] = next[<<n, h[n - 1]>>]
    <3>1. CASE n = m + 1
      <4>1. n - 1 = m
        BY <3>1
      <4> QED BY <2>2, <2>4, <3>1, <4>1, Zenon DEF w
    <3>2. CASE n # m + 1
      <4>1. n \in 1..m /\ n \in 0..m /\ n - 1 \in 0..m
        BY <3>2
      <4> QED BY <2>1, <2>4, <4>1, Zenon DEF Unrolls
    <3> QED BY <3>1, <3>2, Zenon
  <2>6. h[0] = v
    <3>1. 0 \in 0..m
      OBVIOUS
    <3> QED BY <2>1, <2>4, <3>1, Zenon DEF Unrolls
  <2>7. Unrolls(h, m + 1, v, next)
    BY <2>5, <2>6, Zenon DEF Unrolls
  <2> QED BY <2>2, <2>4, <2>7, Zenon
<1> HIDE DEF T
<1>3. N \in T
  <2>1. 0..N \subseteq T
    BY <1>1, <1>2, BoundedInduction, Zenon
  <2>2. N \in 0..N
    OBVIOUS
  <2> QED BY <2>1, <2>2, Zenon
<1> QED
  BY <1>3, Zenon DEF T

-----------------------------------------------------------------------------
(* The stream of a peer *)

Request == [length : Nat, defects : SUBSET Range(Order)]

(* The length of a request is a number. *)
LEMMA LengthTyped ==
  ASSUME NEW s \in Seq(Request)
  PROVE  Len(s) \in Nat /\ DOMAIN s = 1..Len(s) /\ \A n \in 1..Len(s) : s[n].length \in Nat
<1>1. \A q \in Request : q.length \in Nat
  BY Zenon DEF Request
<1> HIDE DEF Request
<1>2. Len(s) \in Nat /\ DOMAIN s = 1..Len(s) /\ \A n \in 1..Len(s) : s[n] \in Request
  BY LenProperties, ElementOfSeq, Zenon
<1> QED
  BY <1>1, <1>2, Zenon

(* Where the requests end. *)
LEMMA EndSteps ==
  ASSUME NEW s \in Seq(Request)
  PROVE  /\ End(s) \in [0..Len(s) -> Nat]
         /\ End(s)[0] = 0
         /\ \A n \in 1..Len(s) : End(s)[n] = End(s)[n - 1] + s[n].length + 1
<1> DEFINE N == Len(s)
           next == [q \in (1..N) \X Nat |-> q[2] + s[q[1]].length + 1]
           Loop(at) == [i \in 0..N |-> IF i = 0 THEN 0 ELSE at[i - 1] + s[i].length + 1]
<1>1. N \in Nat /\ \A n \in 1..N : s[n].length \in Nat
  BY LengthTyped, Zenon
<1>2. End(s) = CHOOSE at : at = Loop(at)
  BY Zenon DEF End
<1> HIDE DEF N
<1>3. next \in [(1..N) \X Nat -> Nat]
  BY <1>1
<1>4. \A n \in 1..N : \A m \in Nat : next[<<n, m>>] = m + s[n].length + 1
  BY <1>1
<1> HIDE DEF next
<1>5. PICK g \in [0..N -> Nat] : Unrolls(g, N, 0, next)
  <2>1. 0 \in Nat
    OBVIOUS
  <2> QED BY <1>1, <1>3, <2>1, LoopExists, Zenon
<1>6. \A n \in 1..N : n - 1 \in 0..N /\ n \in 0..N /\ n # 0
  BY <1>1
<1>7. \A n \in 1..N : g[n] = g[n - 1] + s[n].length + 1
  BY <1>4, <1>5, <1>6, Zenon DEF Unrolls
<1>8. g = Loop(g)
  <2>1. \A n \in 0..N : n # 0 => n \in 1..N
    BY <1>1
  <2>2. \A n \in 0..N : g[n] = IF n = 0 THEN 0 ELSE g[n - 1] + s[n].length + 1
    BY <1>5, <1>7, <2>1, Zenon DEF Unrolls
  <2> QED BY <2>2, Zenon
<1>9. End(s) = Loop(End(s))
  BY <1>2, <1>8, Zenon
<1> DEFINE e == End(s)
<1> HIDE DEF e
<1>10. e[0] = 0 /\ \A n \in 1..N : e[n] = e[n - 1] + s[n].length + 1
  <2>1. 0 \in 0..N
    BY <1>1
  <2> QED BY <1>6, <1>9, <2>1, Zenon DEF e
<1>11. \A n \in 0..N : e[n] \in Nat
  <2> DEFINE T == {n \in 0..N : e[n] \in Nat}
  <2>1. 0 \in T
    BY <1>1, <1>10
  <2>2. ASSUME NEW n \in 0..N, n < N, n \in T PROVE n + 1 \in T
    <3>1. n + 1 \in 1..N /\ n + 1 \in 0..N /\ (n + 1) - 1 = n
      BY <1>1, <2>2
    <3>2. e[n + 1] = e[n] + s[n + 1].length + 1
      BY <1>10, <3>1
    <3> QED BY <1>1, <2>2, <3>1, <3>2
  <2> HIDE DEF T
  <2>3. 0..N \subseteq T
    BY <1>1, <2>1, <2>2, BoundedInduction, Zenon
  <2> QED BY <2>3, Zenon DEF T
<1>12. e \in [0..N -> Nat]
  <2>1. e = [n \in 0..N |-> e[n]]
    BY <1>9, Zenon DEF e
  <2> QED BY <1>11, <2>1, Zenon
<1> QED
  BY <1>10, <1>12, Zenon DEF N, e

(* Later requests end later. *)
LEMMA EndGrows ==
  ASSUME NEW s \in Seq(Request), NEW m \in 0..Len(s), NEW n \in 0..Len(s), m < n
  PROVE  End(s)[m] < End(s)[n]
<1> DEFINE N == Len(s)
           e == End(s)
           T == {k \in 0..N : m < k => e[m] < e[k]}
<1>1. /\ N \in Nat /\ e \in [0..N -> Nat] /\ m \in 0..N /\ n \in 0..N
      /\ \A k \in 1..N : e[k] = e[k - 1] + s[k].length + 1 /\ s[k].length \in Nat
  BY EndSteps, LengthTyped, Zenon
<1> HIDE DEF e, N
<1>2. 0 \in T
  BY <1>1
<1>3. ASSUME NEW k \in 0..N, k < N, k \in T PROVE k + 1 \in T
  <2>1. k + 1 \in 1..N /\ k + 1 \in 0..N /\ (k + 1) - 1 = k
    BY <1>1, <1>3
  <2>2. e[k] \in Nat /\ e[k + 1] \in Nat /\ e[m] \in Nat /\ e[k] < e[k + 1]
    <3>1. e[k + 1] = e[(k + 1) - 1] + s[k + 1].length + 1 /\ s[k + 1].length \in Nat
      BY <1>1, <2>1, Zenon
    <3>2. e[k] \in Nat /\ e[m] \in Nat
      BY <1>1, Zenon
    <3> QED BY <2>1, <3>1, <3>2
  <2>3. m < k + 1 => m < k \/ m = k
    BY <1>1
  <2>4. m < k => e[m] < e[k]
    BY <1>3
  <2> QED BY <2>1, <2>2, <2>3, <2>4
<1> HIDE DEF T
<1>4. n \in T
  <2>1. 0..N \subseteq T
    BY <1>1, <1>2, <1>3, BoundedInduction, Zenon
  <2> QED BY <1>1, <2>1, Zenon
<1> QED
  BY <1>4 DEF T, e

(* The bytes of a stream: each request's own number up to its newline. *)
LEMMA BytesAre ==
  ASSUME NEW s \in Seq(Request)
  PROVE  /\ Bytes(s) \in Seq(Nat)
         /\ Len(Bytes(s)) = End(s)[Len(s)]
         /\ \A k \in 1..Len(s) :
              /\ Bytes(s)[End(s)[k]] = Newline
              /\ \A p \in 1..Len(Bytes(s)) :
                   End(s)[k - 1] < p /\ p < End(s)[k] => Bytes(s)[p] = k
<1> DEFINE N == Len(s)
           e == End(s)
           B == Bytes(s)
           Inside(p, i) == e[i - 1] < p /\ p < e[i]
           Byte(p) == IF \E i \in DOMAIN s : e[i] = p THEN Newline
                      ELSE CHOOSE i \in DOMAIN s : Inside(p, i)
<1>1. /\ N \in Nat /\ e \in [0..N -> Nat] /\ e[0] = 0 /\ DOMAIN s = 1..N
  BY EndSteps, LengthTyped, Zenon
<1>2. \A k \in 1..N : e[k - 1] \in Nat /\ e[k] \in Nat /\ e[k - 1] < e[k]
  <2> SUFFICES ASSUME NEW k \in 1..N PROVE e[k - 1] \in Nat /\ e[k] \in Nat /\ e[k - 1] < e[k]
    BY Zenon
  <2>1. k - 1 \in 0..N /\ k \in 0..N /\ k - 1 < k
    BY <1>1
  <2>2. End(s)[k - 1] < End(s)[k]
    BY <2>1, EndGrows, Zenon
  <2> QED BY <1>1, <2>1, <2>2
<1>3. \A i, k \in 0..N : i < k => e[i] < e[k]
  BY EndGrows, Zenon
<1>4. B = [p \in 1..e[N] |-> Byte(p)]
  BY Zenon DEF Bytes
<1> HIDE DEF N, e, B, Byte
<1>5. ASSUME NEW i \in 1..N, NEW k \in 1..N, NEW p \in Nat, Inside(p, k), Inside(p, i) \/ e[i] = p
      PROVE  i = k /\ Inside(p, i)
  <2>1. i < k => e[i] <= e[k - 1]
    <3>1. i < k => i = k - 1 \/ i < k - 1
      BY <1>1
    <3>2. i \in 0..N /\ k - 1 \in 0..N
      BY <1>1
    <3>3. i < k - 1 => e[i] < e[k - 1]
      BY <1>3, <3>2, Zenon
    <3>4. e[i] \in Nat /\ e[k - 1] \in Nat
      BY <1>2, Zenon
    <3>5. e[i] < e[k - 1] => e[i] <= e[k - 1]
      BY <3>4
    <3>6. i = k - 1 => e[i] <= e[k - 1]
      BY <3>4
    <3> QED BY <3>1, <3>3, <3>5, <3>6, Zenon
  <2>2. k < i => e[k] <= e[i - 1]
    <3>1. k < i => k = i - 1 \/ k < i - 1
      BY <1>1
    <3>2. k \in 0..N /\ i - 1 \in 0..N
      BY <1>1
    <3>3. k < i - 1 => e[k] < e[i - 1]
      BY <1>3, <3>2, Zenon
    <3>4. e[k] \in Nat /\ e[i - 1] \in Nat
      BY <1>2, Zenon
    <3>5. e[k] < e[i - 1] => e[k] <= e[i - 1]
      BY <3>4
    <3>6. k = i - 1 => e[k] <= e[i - 1]
      BY <3>4
    <3> QED BY <3>1, <3>3, <3>5, <3>6, Zenon
  <2>3. e[i] \in Nat /\ e[k] \in Nat /\ e[i - 1] \in Nat /\ e[k - 1] \in Nat /\ e[i - 1] < e[i]
    BY <1>2
  <2>4. ~(i < k) /\ ~(k < i)
    BY <1>5, <2>1, <2>2, <2>3
  <2>5. i = k
    BY <2>4
  <2> QED BY <1>5, <2>3, <2>5
<1>6. ASSUME NEW p \in 1..e[N] PROVE \E i \in 1..N : e[i] = p \/ Inside(p, i)
  <2> DEFINE T == {i \in 0..N : p <= e[i]}
  <2>1. N \in T /\ T \subseteq Nat
    BY <1>1
  <2>2. PICK i \in T : \A j \in T : i <= j
    <3> HIDE DEF T
    <3> QED BY <2>1, HasLeast, Zenon
  <2>3. i \in 1..N /\ i - 1 \in 0..N /\ e[i] \in Nat /\ e[i - 1] \in Nat
    BY <1>1, <2>2
  <2>4. ~(p <= e[i - 1])
    BY <2>2, <2>3
  <2>5. p <= e[i]
    BY <2>2
  <2> QED BY <2>3, <2>4, <2>5
<1>7. e[N] \in Nat /\ \A p \in 1..e[N] : p \in Nat
  BY <1>1
<1>8. \A p \in 1..e[N] : \A k \in 1..N : Inside(p, k) => B[p] = k
  <2> SUFFICES ASSUME NEW p \in 1..e[N], NEW k \in 1..N, Inside(p, k) PROVE B[p] = k
    BY Zenon
  <2> HIDE DEF Inside
  <2>1. p \in Nat
    BY <1>7, Zenon
  <2>2. \A i \in 1..N : Inside(p, i) \/ e[i] = p => i = k
    BY <1>5, <2>1, Zenon
  <2>3. ~(e[k] = p)
    BY <1>2, <2>1 DEF Inside
  <2>4. ~\E i \in DOMAIN s : e[i] = p
    BY <1>1, <2>2, <2>3, Zenon
  <2>5. (CHOOSE i \in DOMAIN s : Inside(p, i)) = k
    BY <1>1, <2>2, Zenon
  <2>6. Byte(p) = k
    BY <2>4, <2>5, Zenon DEF Byte
  <2> QED BY <1>4, <2>6, Zenon
<1>9. \A p \in 1..e[N] : (\E i \in 1..N : e[i] = p) => B[p] = Newline
  <2>1. \A p \in 1..e[N] : (\E i \in DOMAIN s : e[i] = p) => Byte(p) = Newline
    BY Zenon DEF Byte
  <2> QED BY <1>1, <1>4, <2>1, Zenon
<1>10. B \in Seq(Nat) /\ Len(B) = e[N]
  <2>1. \A p \in 1..e[N] : B[p] \in Nat
    <3> SUFFICES ASSUME NEW p \in 1..e[N] PROVE B[p] \in Nat
      BY Zenon
    <3>1. PICK i \in 1..N : e[i] = p \/ Inside(p, i)
      BY <1>6, Zenon
    <3>2. B[p] = Newline \/ B[p] = i
      <4> HIDE DEF Inside
      <4> QED BY <1>8, <1>9, <3>1, Zenon
    <3> QED BY <3>2 DEF Newline
  <2>2. \A p \in 1..e[N] : Byte(p) \in Nat
    BY <1>4, <2>1, Zenon
  <2>3. B \in [1..e[N] -> Nat]
    BY <1>4, <2>2, Zenon
  <2> QED BY <1>7, <2>3
<1>11. \A k \in 1..N : e[k] \in 1..e[N]
  <2> SUFFICES ASSUME NEW k \in 1..N PROVE e[k] \in 1..e[N]
    BY Zenon
  <2>1. k \in 0..N /\ N \in 0..N /\ (k = N \/ k < N)
    BY <1>1
  <2>2. e[k] <= e[N]
    BY <1>1, <1>3, <2>1
  <2> QED BY <1>2, <1>7, <2>2
<1>12. \A k \in 1..N : B[e[k]] = Newline
  BY <1>9, <1>11, Zenon
<1> QED
  BY <1>8, <1>10, <1>12, Zenon DEF N, e, B

-----------------------------------------------------------------------------
(* Splitting a buffer *)

(* Complete lines and what follows them. *)
Lines == [frames : Seq(Seq(Nat)), rest : Seq(Nat)]

NoLines == [frames |-> <<>>, rest |-> <<>>]

Split(b) == Scan(b)[Len(b)]

(* The next byte ends a line or adds to the incomplete one. *)
LEMMA TakeByteIs ==
  ASSUME NEW v \in Lines, NEW x \in Nat
  PROVE  /\ TakeByte(v, x) \in Lines
         /\ x = Newline => /\ TakeByte(v, x).frames = Append(v.frames, v.rest)
                           /\ TakeByte(v, x).rest = <<>>
         /\ x # Newline => /\ TakeByte(v, x).frames = v.frames
                           /\ TakeByte(v, x).rest = Append(v.rest, x)
<1>1. v.frames \in Seq(Seq(Nat)) /\ v.rest \in Seq(Nat) /\ v = [frames |-> v.frames, rest |-> v.rest]
  BY Zenon DEF Lines
<1>2. /\ Append(v.frames, v.rest) \in Seq(Seq(Nat))
      /\ Append(v.rest, x) \in Seq(Nat)
      /\ <<>> \in Seq(Nat)
  BY <1>1, AppendProperties, EmptySeq, Zenon
<1>3. CASE x = Newline
  <2>1. TakeByte(v, x) = [frames |-> Append(v.frames, v.rest), rest |-> <<>>]
    BY <1>3, Zenon DEF TakeByte
  <2>2. TakeByte(v, x).frames = Append(v.frames, v.rest) /\ TakeByte(v, x).rest = <<>>
    BY <2>1
  <2>3. TakeByte(v, x) \in Lines
    BY <1>2, <2>1 DEF Lines
  <2> QED BY <1>3, <2>2, <2>3, Zenon
<1>4. CASE x # Newline
  <2>1. TakeByte(v, x) = [v EXCEPT !.rest = Append(v.rest, x)]
    BY <1>4, Zenon DEF TakeByte
  <2>2. TakeByte(v, x) = [frames |-> v.frames, rest |-> Append(v.rest, x)]
    BY <1>1, <2>1, Zenon
  <2>3. TakeByte(v, x).frames = v.frames /\ TakeByte(v, x).rest = Append(v.rest, x)
    BY <2>2
  <2>4. TakeByte(v, x) \in Lines
    BY <1>1, <1>2, <2>2 DEF Lines
  <2> QED BY <1>4, <2>3, <2>4, Zenon
<1> QED BY <1>3, <1>4, Zenon

(* The loop of split_frames and extract_frames, one byte at a time. *)
LEMMA ScanSteps ==
  ASSUME NEW b \in Seq(Nat)
  PROVE  /\ Scan(b)[0] = NoLines
         /\ \A n \in 1..Len(b) : Scan(b)[n] = TakeByte(Scan(b)[n - 1], b[n])
         /\ \A n \in 0..Len(b) : Scan(b)[n] \in Lines
<1> DEFINE N == Len(b)
           next == [q \in (1..N) \X Lines |-> TakeByte(q[2], b[q[1]])]
           Loop(at) == [i \in 0..N |-> IF i = 0 THEN NoLines ELSE TakeByte(at[i - 1], b[i])]
<1>1. N \in Nat /\ \A n \in 1..N : b[n] \in Nat
  BY LenProperties, ElementOfSeq, Zenon
<1>2. Scan(b) = CHOOSE at : at = Loop(at)
  BY Zenon DEF Scan, NoLines
<1> HIDE DEF N
<1>3. next \in [(1..N) \X Lines -> Lines]
  <2>1. \A q \in (1..N) \X Lines : q[1] \in 1..N /\ q[2] \in Lines
    BY Zenon
  <2>2. \A q \in (1..N) \X Lines : TakeByte(q[2], b[q[1]]) \in Lines
    BY <1>1, <2>1, TakeByteIs, Zenon
  <2> QED BY <2>2, Zenon
<1>4. \A n \in 1..N : \A v \in Lines : next[<<n, v>>] = TakeByte(v, b[n])
  <2> SUFFICES ASSUME NEW n \in 1..N, NEW v \in Lines PROVE next[<<n, v>>] = TakeByte(v, b[n])
    BY Zenon
  <2>1. <<n, v>> \in (1..N) \X Lines /\ <<n, v>>[1] = n /\ <<n, v>>[2] = v
    BY Zenon
  <2> QED BY <2>1, Zenon
<1> HIDE DEF next
<1>5. NoLines \in Lines
  BY EmptySeq, Zenon DEF NoLines, Lines
<1>6. PICK g \in [0..N -> Lines] : Unrolls(g, N, NoLines, next)
  BY <1>1, <1>3, <1>5, LoopExists, Zenon
<1>7. /\ \A n \in 1..N : n - 1 \in 0..N /\ n \in 0..N /\ n # 0
      /\ \A n \in 0..N : n # 0 => n \in 1..N
      /\ 0 \in 0..N
  BY <1>1
<1>8. \A n \in 1..N : g[n] = TakeByte(g[n - 1], b[n])
  BY <1>4, <1>6, <1>7, Zenon DEF Unrolls
<1>9. g = Loop(g)
  <2>1. \A n \in 0..N : g[n] = IF n = 0 THEN NoLines ELSE TakeByte(g[n - 1], b[n])
    BY <1>6, <1>7, <1>8, Zenon DEF Unrolls
  <2> QED BY <2>1, Zenon
<1>10. Scan(b) = Loop(Scan(b))
  BY <1>2, <1>9, Zenon
<1> DEFINE e == Scan(b)
<1> HIDE DEF e
<1>11. e[0] = NoLines /\ \A n \in 1..N : e[n] = TakeByte(e[n - 1], b[n])
  BY <1>7, <1>10, Zenon DEF e
<1>12. \A n \in 0..N : e[n] \in Lines
  <2> DEFINE T == {n \in 0..N : e[n] \in Lines}
  <2>1. 0 \in T
    BY <1>5, <1>7, <1>11, Zenon
  <2>2. ASSUME NEW n \in 0..N, n < N, n \in T PROVE n + 1 \in T
    <3>1. n + 1 \in 1..N /\ n + 1 \in 0..N /\ (n + 1) - 1 = n
      BY <1>1, <2>2
    <3>2. e[n + 1] = TakeByte(e[n], b[n + 1])
      BY <1>11, <3>1, Zenon
    <3>3. e[n] \in Lines /\ b[n + 1] \in Nat
      BY <1>1, <2>2, <3>1, Zenon
    <3>4. TakeByte(e[n], b[n + 1]) \in Lines
      BY <3>3, TakeByteIs, Zenon
    <3> QED BY <3>1, <3>2, <3>4, Zenon
  <2> HIDE DEF T
  <2>3. 0..N \subseteq T
    BY <1>1, <2>1, <2>2, BoundedInduction, Zenon
  <2> QED BY <2>3, Zenon DEF T
<1> QED
  BY <1>11, <1>12, Zenon DEF N, e

(* What was found before the last byte does not depend on it. *)
LEMMA SplitAppend ==
  ASSUME NEW b \in Seq(Nat), NEW x \in Nat
  PROVE  /\ Split(Append(b, x)) = TakeByte(Split(b), x)
         /\ Split(b) \in Lines
<1> DEFINE c == Append(b, x)
           N == Len(b)
           T == {n \in 0..N : Scan(c)[n] = Scan(b)[n]}
<1>1. /\ N \in Nat /\ c \in Seq(Nat) /\ Len(c) = N + 1 /\ c[N + 1] = x
      /\ \A n \in 1..N : c[n] = b[n]
  OBVIOUS
<1>2. /\ Scan(b)[0] = NoLines
      /\ \A n \in 1..N : Scan(b)[n] = TakeByte(Scan(b)[n - 1], b[n])
      /\ \A n \in 0..N : Scan(b)[n] \in Lines
  BY ScanSteps, Zenon
<1>3. /\ Scan(c)[0] = NoLines
      /\ \A n \in 1..N + 1 : Scan(c)[n] = TakeByte(Scan(c)[n - 1], c[n])
  BY <1>1, ScanSteps, Zenon
<1> HIDE DEF c, N
<1>4. 0 \in T
  <2>1. 0 \in 0..N
    BY <1>1
  <2> QED BY <1>2, <1>3, <2>1, Zenon
<1>5. ASSUME NEW n \in 0..N, n < N, n \in T PROVE n + 1 \in T
  <2>1. n + 1 \in 0..N /\ n + 1 \in 1..N /\ n + 1 \in 1..N + 1 /\ (n + 1) - 1 = n
    BY <1>1, <1>5
  <2>2. Scan(c)[n + 1] = TakeByte(Scan(c)[n], c[n + 1])
    BY <1>3, <2>1, Zenon
  <2>3. Scan(b)[n + 1] = TakeByte(Scan(b)[n], b[n + 1])
    BY <1>2, <2>1, Zenon
  <2>4. Scan(c)[n] = Scan(b)[n] /\ c[n + 1] = b[n + 1]
    BY <1>1, <1>5, <2>1, Zenon
  <2> QED BY <2>1, <2>2, <2>3, <2>4, Zenon
<1> HIDE DEF T
<1>6. 0..N \subseteq T
  BY <1>1, <1>4, <1>5, BoundedInduction, Zenon
<1>7. N \in 0..N /\ N + 1 \in 1..N + 1 /\ (N + 1) - 1 = N
  BY <1>1
<1>8. Scan(c)[N] = Scan(b)[N]
  BY <1>6, <1>7, Zenon DEF T
<1>9. Scan(c)[N + 1] = TakeByte(Scan(c)[N], c[N + 1])
  BY <1>3, <1>7, Zenon
<1>10. Split(c) = TakeByte(Split(b), x)
  BY <1>1, <1>8, <1>9, Zenon DEF Split, N
<1>11. Split(b) \in Lines
  BY <1>2, <1>7, Zenon DEF Split, N
<1> QED
  BY <1>10, <1>11 DEF c

(* An empty buffer has no lines. *)
LEMMA SplitEmpty == Split(<<>>) = NoLines
<1>1. <<>> \in Seq(Nat) /\ Len(<<>>) = 0
  BY EmptySeq, Zenon
<1>2. Scan(<<>>)[0] = NoLines
  BY <1>1, ScanSteps, Zenon
<1> QED
  BY <1>1, <1>2, Zenon DEF Split

(* What the two ends take from a buffer is its split. *)
LEMMA SplitTyped ==
  ASSUME NEW b \in Seq(Nat)
  PROVE  /\ Split(b) = [frames |-> Frames(b), rest |-> Rest(b)]
         /\ Frames(b) \in Seq(Seq(Nat)) /\ Rest(b) \in Seq(Nat)
<1>1. 0 \in Nat
  OBVIOUS
<1>2. Split(b) \in Lines
  BY <1>1, SplitAppend, Zenon
<1>3. Split(b).frames = Frames(b) /\ Split(b).rest = Rest(b)
  BY Zenon DEF Split, Frames, Rest
<1> QED
  BY <1>2, <1>3, Zenon DEF Lines

(* ... which grows with the buffer. *)
LEMMA FramesAppend ==
  ASSUME NEW b \in Seq(Nat), NEW x \in Nat
  PROVE  /\ x = Newline => /\ Frames(Append(b, x)) = Append(Frames(b), Rest(b))
                           /\ Rest(Append(b, x)) = <<>>
         /\ x # Newline => /\ Frames(Append(b, x)) = Frames(b)
                           /\ Rest(Append(b, x)) = Append(Rest(b), x)
<1>1. Split(Append(b, x)) = TakeByte(Split(b), x) /\ Split(b) \in Lines
  BY SplitAppend, Zenon
<1>2. \A c : Frames(c) = Split(c).frames /\ Rest(c) = Split(c).rest
  BY Zenon DEF Split, Frames, Rest
<1>3. LET v == Split(b)
      IN  /\ x = Newline => /\ TakeByte(v, x).frames = Append(v.frames, v.rest)
                            /\ TakeByte(v, x).rest = <<>>
          /\ x # Newline => /\ TakeByte(v, x).frames = v.frames
                            /\ TakeByte(v, x).rest = Append(v.rest, x)
  BY <1>1, TakeByteIs, Zenon
<1> QED
  BY <1>1, <1>2, <1>3, Zenon

(* An empty buffer has no frames and no rest. *)
LEMMA FramesEmpty == Frames(<<>>) = <<>> /\ Rest(<<>>) = <<>>
<1>1. Frames(<<>>) = Split(<<>>).frames /\ Rest(<<>>) = Split(<<>>).rest
  BY Zenon DEF Split, Frames, Rest
<1>2. NoLines.frames = <<>> /\ NoLines.rest = <<>>
  BY DEF NoLines
<1> QED
  BY <1>1, <1>2, SplitEmpty, Zenon

-----------------------------------------------------------------------------
(* Splitting in chunks *)

Plain(c) == \A i \in 1..Len(c) : c[i] # Newline

(* A text without newlines stays so while other bytes are added. *)
LEMMA PlainAppend ==
  ASSUME NEW c \in Seq(Nat), NEW x \in Nat
  PROVE  Plain(Append(c, x)) <=> Plain(c) /\ x # Newline
<1>1. /\ Len(c) \in Nat /\ Len(Append(c, x)) = Len(c) + 1 /\ Append(c, x)[Len(c) + 1] = x
      /\ \A i \in 1..Len(c) : Append(c, x)[i] = c[i]
  OBVIOUS
<1>2. \A i \in 1..Len(c) + 1 : i \in 1..Len(c) \/ i = Len(c) + 1
  BY <1>1
<1>3. Len(c) + 1 \in 1..Len(c) + 1 /\ \A i \in 1..Len(c) : i \in 1..Len(c) + 1
  BY <1>1
<1> QED
  BY <1>1, <1>2, <1>3, Zenon DEF Plain

(* What is kept for the next chunk has no newline. *)
LEMMA RestPlain == \A b \in Seq(Nat) : Plain(Rest(b))
<1> DEFINE T == {b \in Seq(Nat) : Plain(Rest(b))}
<1>1. Plain(<<>>)
  BY DEF Plain
<1>2. <<>> \in T
  BY <1>1, FramesEmpty, EmptySeq, Zenon
<1>3. ASSUME NEW b \in Seq(Nat), NEW x \in Nat, b \in T PROVE Append(b, x) \in T
  <2>1. Append(b, x) \in Seq(Nat) /\ Rest(b) \in Seq(Nat) /\ Plain(Rest(b))
    BY <1>3, AppendProperties, SplitTyped, Zenon
  <2>2. CASE x = Newline
    <3>1. Rest(Append(b, x)) = <<>>
      BY <2>2, FramesAppend, Zenon
    <3> QED BY <1>1, <2>1, <3>1, Zenon
  <2>3. CASE x # Newline
    <3>1. Rest(Append(b, x)) = Append(Rest(b), x)
      BY <2>3, FramesAppend, Zenon
    <3>2. Plain(Append(Rest(b), x))
      BY <2>1, <2>3, PlainAppend, Zenon
    <3> QED BY <2>1, <3>1, <3>2, Zenon
  <2> QED BY <2>2, <2>3, Zenon
<1> HIDE DEF T
<1>4. Seq(Nat) \subseteq T
  BY <1>2, <1>3, ByteInduction, Zenon
<1> QED
  BY <1>4, Zenon DEF T

(* A text without newlines is an incomplete line. *)
LEMMA PlainSplit == \A b \in Seq(Nat) : Plain(b) => Frames(b) = <<>> /\ Rest(b) = b
<1> DEFINE T == {b \in Seq(Nat) : Plain(b) => Frames(b) = <<>> /\ Rest(b) = b}
<1>1. <<>> \in T
  BY FramesEmpty, EmptySeq, Zenon
<1>2. ASSUME NEW b \in Seq(Nat), NEW x \in Nat, b \in T PROVE Append(b, x) \in T
  <2>1. Append(b, x) \in Seq(Nat)
    BY AppendProperties, Zenon
  <2>2. ASSUME Plain(Append(b, x))
        PROVE  Frames(Append(b, x)) = <<>> /\ Rest(Append(b, x)) = Append(b, x)
    <3>1. Plain(b) /\ x # Newline
      BY <2>2, PlainAppend, Zenon
    <3>2. Frames(b) = <<>> /\ Rest(b) = b
      BY <1>2, <3>1, Zenon
    <3>3. Frames(Append(b, x)) = Frames(b) /\ Rest(Append(b, x)) = Append(Rest(b), x)
      BY <3>1, FramesAppend, Zenon
    <3> QED BY <3>2, <3>3, Zenon
  <2> QED BY <2>1, <2>2, Zenon
<1> HIDE DEF T
<1>3. Seq(Nat) \subseteq T
  BY <1>1, <1>2, ByteInduction, Zenon
<1> QED
  BY <1>3, Zenon DEF T

(* A byte added to the second part of a string is added to the string. *)
LEMMA ConcatAppend ==
  ASSUME NEW S, NEW s \in Seq(S), NEW t \in Seq(S), NEW x \in S
  PROVE  s \o Append(t, x) = Append(s \o t, x)
<1>1. s \o t \in Seq(S) /\ <<x>> \in Seq(S)
  OBVIOUS
<1>2. Append(t, x) = t \o <<x>> /\ Append(s \o t, x) = (s \o t) \o <<x>>
  BY <1>1, AppendIsConcat, Zenon
<1>3. (s \o t) \o <<x>> = s \o (t \o <<x>>)
  BY <1>1, ConcatAssociative
<1> QED
  BY <1>2, <1>3, Zenon

(* It does not matter where recv() cuts the stream: splitting the first     *)
(* part, and then what that left with the second part appended, gives the   *)
(* frames and the rest of the whole.                                        *)
LEMMA SplitConcat ==
  ASSUME NEW s \in Seq(Nat), NEW t \in Seq(Nat)
  PROVE  /\ Frames(s \o t) = Frames(s) \o Frames(Rest(s) \o t)
         /\ Rest(s \o t) = Rest(Rest(s) \o t)
<1> DEFINE Good(u) == /\ Frames(s \o u) = Frames(s) \o Frames(Rest(s) \o u)
                      /\ Rest(s \o u) = Rest(Rest(s) \o u)
           T == {u \in Seq(Nat) : Good(u)}
<1>1. Frames(s) \in Seq(Seq(Nat)) /\ Rest(s) \in Seq(Nat)
  BY SplitTyped, Zenon
<1>a. \A a, b \in Seq(Nat) : \A x \in Nat : a \o Append(b, x) = Append(a \o b, x)
  BY ConcatAppend
<1>b. \A a, b \in Seq(Seq(Nat)) : \A x \in Seq(Nat) : a \o Append(b, x) = Append(a \o b, x)
  BY ConcatAppend
<1>2. <<>> \in T
  <2>1. s \o <<>> = s /\ Rest(s) \o <<>> = Rest(s) /\ Frames(s) \o <<>> = Frames(s)
    BY <1>1, ConcatEmptySeq, Zenon
  <2>2. Frames(Rest(s)) = <<>> /\ Rest(Rest(s)) = Rest(s)
    BY <1>1, RestPlain, PlainSplit, Zenon
  <2>3. <<>> \in Seq(Nat)
    BY EmptySeq, Zenon
  <2> QED BY <2>1, <2>2, <2>3, Zenon
<1>3. ASSUME NEW u \in Seq(Nat), NEW x \in Nat, u \in T PROVE Append(u, x) \in T
  <2> DEFINE a == s \o u
             r == Rest(s) \o u
  <2>1. Append(u, x) \in Seq(Nat) /\ a \in Seq(Nat) /\ r \in Seq(Nat)
    BY <1>1, AppendProperties, ConcatProperties, Zenon
  <2>2. s \o Append(u, x) = Append(a, x) /\ Rest(s) \o Append(u, x) = Append(r, x)
    BY <1>1, <1>a, Zenon
  <2>3. Frames(a) = Frames(s) \o Frames(r) /\ Rest(a) = Rest(r)
    BY <1>3, Zenon
  <2> HIDE DEF a, r
  <2>4. Frames(r) \in Seq(Seq(Nat)) /\ Rest(r) \in Seq(Nat)
    BY <2>1, SplitTyped, Zenon
  <2>5. CASE x = Newline
    <3>1. Frames(Append(a, x)) = Append(Frames(a), Rest(a)) /\ Rest(Append(a, x)) = <<>>
      BY <2>1, <2>5, FramesAppend, Zenon
    <3>2. Frames(Append(r, x)) = Append(Frames(r), Rest(r)) /\ Rest(Append(r, x)) = <<>>
      BY <2>1, <2>5, FramesAppend, Zenon
    <3>3. Frames(s) \o Append(Frames(r), Rest(r)) = Append(Frames(s) \o Frames(r), Rest(r))
      BY <1>1, <1>b, <2>4, Zenon
    <3> QED BY <2>1, <2>2, <2>3, <3>1, <3>2, <3>3, Zenon
  <2>6. CASE x # Newline
    <3>1. Frames(Append(a, x)) = Frames(a) /\ Rest(Append(a, x)) = Append(Rest(a), x)
      BY <2>1, <2>6, FramesAppend, Zenon
    <3>2. Frames(Append(r, x)) = Frames(r) /\ Rest(Append(r, x)) = Append(Rest(r), x)
      BY <2>1, <2>6, FramesAppend, Zenon
    <3> QED BY <2>1, <2>2, <2>3, <3>1, <3>2, Zenon
  <2> QED BY <2>5, <2>6, Zenon
<1> HIDE DEF T
<1>4. Seq(Nat) \subseteq T
  BY <1>2, <1>3, ByteInduction, Zenon
<1> QED
  BY <1>4, Zenon DEF T

-----------------------------------------------------------------------------
(* Splitting a prefix of a stream *)

Copies(i, m) == [k \in 1..m |-> i]

Wholes(s, k) == [i \in 1..k |-> Copies(i, s[i].length)]

(* One more byte of a request. *)
LEMMA CopiesAppend ==
  ASSUME NEW i \in Nat, NEW m \in Nat
  PROVE  /\ Append(Copies(i, m), i) = Copies(i, m + 1)
         /\ Copies(i, m) \in Seq(Nat) /\ Len(Copies(i, m)) = m
         /\ Copies(i, 0) = <<>>
<1>1. Copies(i, m) \in Seq(Nat) /\ Len(Copies(i, m)) = m
  BY DEF Copies
<1>2. Copies(i, 0) = <<>>
  BY DEF Copies
<1>3. Append(Copies(i, m), i) = Copies(i, m + 1)
  <2>1. Append(Copies(i, m), i) \in Seq(Nat) /\ Copies(i, m + 1) \in Seq(Nat)
    BY <1>1 DEF Copies
  <2>2. Len(Append(Copies(i, m), i)) = m + 1 /\ Len(Copies(i, m + 1)) = m + 1
    BY <1>1 DEF Copies
  <2>3. \A k \in 1..m + 1 : Append(Copies(i, m), i)[k] = i /\ Copies(i, m + 1)[k] = i
    BY <1>1 DEF Copies
  <2> QED BY <2>1, <2>2, <2>3, SeqEqual
<1> QED
  BY <1>1, <1>2, <1>3

(* One more request. *)
LEMMA WholesAppend ==
  ASSUME NEW s \in Seq(Request), NEW k \in 0..Len(s)
  PROVE  /\ Wholes(s, k) \in Seq(Seq(Nat)) /\ Len(Wholes(s, k)) = k
         /\ \A i \in 1..k : Wholes(s, k)[i] = Copies(i, s[i].length)
         /\ k < Len(s) => Append(Wholes(s, k), Copies(k + 1, s[k + 1].length)) = Wholes(s, k + 1)
<1>1. Len(s) \in Nat /\ \A i \in 1..Len(s) : i \in Nat /\ s[i].length \in Nat
  <2>1. Len(s) \in Nat /\ \A i \in 1..Len(s) : s[i].length \in Nat
    BY LengthTyped, Zenon
  <2> QED BY <2>1
<1>2. \A i \in 1..Len(s) : Copies(i, s[i].length) \in Seq(Nat)
  BY <1>1, CopiesAppend, Zenon
<1>3. \A n \in 0..Len(s) : /\ Wholes(s, n) \in Seq(Seq(Nat)) /\ Len(Wholes(s, n)) = n
                           /\ \A i \in 1..n : Wholes(s, n)[i] = Copies(i, s[i].length)
  <2> SUFFICES ASSUME NEW n \in 0..Len(s)
               PROVE  /\ Wholes(s, n) \in Seq(Seq(Nat)) /\ Len(Wholes(s, n)) = n
                      /\ \A i \in 1..n : Wholes(s, n)[i] = Copies(i, s[i].length)
    BY Zenon
  <2>1. n \in Nat /\ \A i \in 1..n : i \in 1..Len(s)
    BY <1>1
  <2>2. \A i \in 1..n : Copies(i, s[i].length) \in Seq(Nat)
    BY <1>2, <2>1, Zenon
  <2>3. Wholes(s, n) \in [1..n -> Seq(Nat)]
    BY <2>2, Zenon DEF Wholes
  <2>4. Wholes(s, n) \in Seq(Seq(Nat)) /\ Len(Wholes(s, n)) = n
    BY <2>1, <2>3
  <2> QED BY <2>4, Zenon DEF Wholes
<1>4. ASSUME k < Len(s)
      PROVE  Append(Wholes(s, k), Copies(k + 1, s[k + 1].length)) = Wholes(s, k + 1)
  <2> DEFINE w == Copies(k + 1, s[k + 1].length)
             a == Wholes(s, k)
             b == Wholes(s, k + 1)
  <2>1. k \in Nat /\ k + 1 \in 0..Len(s) /\ k + 1 \in 1..Len(s) /\ k + 1 \in 1..k + 1
        /\ \A i \in 1..k : i \in 1..k + 1
    BY <1>1, <1>4
  <2>2. /\ w \in Seq(Nat) /\ a \in Seq(Seq(Nat)) /\ Len(a) = k /\ b \in Seq(Seq(Nat)) /\ Len(b) = k + 1
        /\ b[k + 1] = w /\ \A i \in 1..k : a[i] = b[i]
    BY <1>2, <1>3, <2>1, Zenon
  <2> HIDE DEF w, a, b
  <2>3. Append(a, w) \in Seq(Seq(Nat)) /\ Len(Append(a, w)) = Len(b)
    BY <2>1, <2>2
  <2>4. \A i \in 1..Len(Append(a, w)) : Append(a, w)[i] = b[i]
    BY <2>1, <2>2
  <2>5. Append(a, w) = b
    BY <2>2, <2>3, <2>4, SeqEqual, Zenon
  <2> QED BY <2>5 DEF w, a, b
<1> QED
  BY <1>3, <1>4, Zenon

(* The first k requests and part of the next are what the split of r found. *)
SplitAt(s, r, k) ==
  /\ k \in 0..Len(s) /\ End(s)[k] <= Len(r)
  /\ k < Len(s) => Len(r) < End(s)[k + 1]
  /\ k = Len(s) => Len(r) = End(s)[k]
  /\ Frames(r) = Wholes(s, k)
  /\ Rest(r) = Copies(k + 1, Len(r) - End(s)[k])

IsPrefixOf(r, b) == Len(r) <= Len(b) /\ \A p \in 1..Len(r) : r[p] = b[p]

(* The frames of a prefix of a stream are the peer's requests that are      *)
(* complete in it, and the rest is the part of the next one.                *)
LEMMA PrefixSplit ==
  ASSUME NEW s \in Seq(Request)
  PROVE  \A r \in Seq(Nat) : IsPrefixOf(r, Bytes(s)) => \E k \in 0..Len(s) : SplitAt(s, r, k)
<1> DEFINE N == Len(s)
           e == End(s)
           B == Bytes(s)
           T == {r \in Seq(Nat) : IsPrefixOf(r, B) => \E k \in 0..N : SplitAt(s, r, k)}
<1>1. /\ N \in Nat /\ e[0] = 0 /\ \A n \in 0..N : e[n] \in Nat
      /\ \A n \in 1..N : e[n] = e[n - 1] + s[n].length + 1 /\ s[n].length \in Nat
  BY EndSteps, LengthTyped, Zenon
<1>2. \A m, n \in 0..N : m < n => e[m] < e[n]
  BY EndGrows, Zenon
<1>3. /\ Len(B) = e[N]
      /\ \A k \in 1..N :
           /\ B[e[k]] = Newline
           /\ \A p \in 1..Len(B) : e[k - 1] < p /\ p < e[k] => B[p] = k
  BY BytesAre, Zenon
<1>4. \A r, k : SplitAt(s, r, k) <=>
        /\ k \in 0..N /\ e[k] <= Len(r)
        /\ k < N => Len(r) < e[k + 1]
        /\ k = N => Len(r) = e[k]
        /\ Frames(r) = Wholes(s, k)
        /\ Rest(r) = Copies(k + 1, Len(r) - e[k])
  BY Zenon DEF SplitAt
<1>5. \A k \in 0..N : k < N => Append(Wholes(s, k), Copies(k + 1, s[k + 1].length)) = Wholes(s, k + 1)
  BY WholesAppend, Zenon
<1> HIDE DEF N, e, B
<1>6. <<>> \in T
  <2>1. 0 \in 0..N /\ (0 < N => 1 \in 0..N /\ 0 < 1)
    BY <1>1
  <2>2. 0 < N => e[0] < e[1]
    BY <1>2, <2>1, Zenon
  <2>3. Wholes(s, 0) = <<>> /\ Copies(1, 0) = <<>>
    BY DEF Wholes, Copies
  <2>4. Len(<<>>) = 0 /\ <<>> \in Seq(Nat) /\ 0 + 1 = 1 /\ Len(<<>>) - e[0] = 0 /\ e[0] <= Len(<<>>)
    BY <1>1
  <2>5. /\ 0 < N => Len(<<>>) < e[0 + 1]
        /\ 0 = N => Len(<<>>) = e[0]
        /\ Frames(<<>>) = Wholes(s, 0)
        /\ Rest(<<>>) = Copies(0 + 1, Len(<<>>) - e[0])
    BY <1>1, <2>2, <2>3, <2>4, FramesEmpty, Zenon
  <2>6. SplitAt(s, <<>>, 0)
    BY <1>4, <2>1, <2>4, <2>5, Zenon
  <2> QED BY <2>1, <2>4, <2>6, Zenon
<1>7. ASSUME NEW r \in Seq(Nat), NEW x \in Nat, r \in T PROVE Append(r, x) \in T
  <2>1. Append(r, x) \in Seq(Nat)
    BY AppendProperties, Zenon
  <2>2. ASSUME IsPrefixOf(Append(r, x), B) PROVE \E k \in 0..N : SplitAt(s, Append(r, x), k)
    <3>1. /\ Len(r) \in Nat /\ Len(Append(r, x)) = Len(r) + 1 /\ Append(r, x)[Len(r) + 1] = x
          /\ \A i \in 1..Len(r) : Append(r, x)[i] = r[i]
      OBVIOUS
    <3>2. Len(r) + 1 <= Len(B) /\ x = B[Len(r) + 1] /\ IsPrefixOf(r, B)
      <4>1. Len(r) + 1 \in 1..Len(r) + 1 /\ \A i \in 1..Len(r) : i \in 1..Len(r) + 1
        BY <3>1
      <4>2. Len(r) + 1 <= Len(B) /\ x = B[Len(r) + 1] /\ \A i \in 1..Len(r) : r[i] = B[i]
        BY <2>2, <3>1, <4>1, Zenon DEF IsPrefixOf
      <4>3. Len(B) \in Nat
        BY <1>1, <1>3
      <4>4. Len(r) <= Len(B)
        BY <3>1, <4>2, <4>3
      <4> QED BY <4>2, <4>4, Zenon DEF IsPrefixOf
    <3>3. PICK k \in 0..N : SplitAt(s, r, k)
      BY <1>7, <3>2, Zenon
    <3>4. /\ e[k] <= Len(r) /\ (k < N => Len(r) < e[k + 1]) /\ (k = N => Len(r) = e[k])
          /\ Frames(r) = Wholes(s, k) /\ Rest(r) = Copies(k + 1, Len(r) - e[k])
      BY <1>4, <3>3, Zenon
    <3>5. k \in Nat /\ k < N /\ k + 1 \in 1..N /\ k + 1 \in 0..N /\ (k + 1) - 1 = k
      <4>1. k # N
        BY <1>1, <1>3, <3>1, <3>2, <3>4
      <4> QED BY <1>1, <4>1
    <3>6. e[k] \in Nat /\ e[k + 1] = e[k] + s[k + 1].length + 1 /\ s[k + 1].length \in Nat
      BY <1>1, <3>5, Zenon
    <3>7. Len(r) + 1 \in 1..Len(B) /\ Len(r) - e[k] \in Nat /\ Len(r) < e[k + 1]
      <4>1. Len(B) \in Nat
        BY <1>1, <1>3
      <4>2. Len(r) \in Nat /\ Len(r) + 1 <= Len(B)
        <5>1. Len(r) \in Nat /\ Len(Append(r, x)) = Len(r) + 1
          BY <3>1, Zenon
        <5>2. Len(Append(r, x)) <= Len(B)
          BY <2>2, Zenon DEF IsPrefixOf
        <5> QED BY <5>1, <5>2, Zenon
      <4>3. e[k] \in Nat /\ e[k] <= Len(r) /\ Len(r) < e[k + 1]
        BY <3>4, <3>5, <3>6, Zenon
      <4> QED BY <4>1, <4>2, <4>3
    <3>8. CASE Len(r) + 1 < e[k + 1]
      <4>1. e[k] < Len(r) + 1 /\ k + 1 # Newline
        BY <3>1, <3>4, <3>5, <3>6 DEF Newline
      <4>2. x = k + 1 /\ x # Newline
        BY <1>3, <3>2, <3>5, <3>7, <3>8, <4>1, Zenon
      <4>3. Frames(Append(r, x)) = Wholes(s, k) /\ Rest(Append(r, x)) = Append(Rest(r), x)
        BY <3>4, <4>2, FramesAppend, Zenon
      <4>4. k + 1 \in Nat
        BY <3>5
      <4>5. Append(Copies(k + 1, Len(r) - e[k]), k + 1) = Copies(k + 1, (Len(r) - e[k]) + 1)
        BY <3>7, <4>4, CopiesAppend, Zenon
      <4>6. (Len(r) - e[k]) + 1 = (Len(r) + 1) - e[k] /\ e[k] <= Len(r) + 1 /\ k # N
        BY <1>1, <3>1, <3>4, <3>5, <3>6
      <4>7. Rest(Append(r, x)) = Copies(k + 1, Len(Append(r, x)) - e[k])
        BY <3>1, <3>4, <4>2, <4>3, <4>5, <4>6, Zenon
      <4>8. SplitAt(s, Append(r, x), k)
        BY <1>4, <3>1, <3>8, <4>3, <4>6, <4>7, Zenon
      <4> QED BY <4>8, Zenon
    <3>9. CASE Len(r) + 1 = e[k + 1]
      <4>1. x = Newline
        BY <1>3, <3>2, <3>5, <3>9, Zenon
      <4>2. Frames(Append(r, x)) = Append(Frames(r), Rest(r)) /\ Rest(Append(r, x)) = <<>>
        BY <4>1, FramesAppend, Zenon
      <4>3. Len(r) - e[k] = s[k + 1].length
        BY <3>1, <3>6, <3>9
      <4>4. Frames(Append(r, x)) = Wholes(s, k + 1)
        BY <1>5, <3>4, <3>5, <4>2, <4>3, Zenon
      <4>5. Copies((k + 1) + 1, 0) = <<>> /\ e[k + 1] - e[k + 1] = 0 /\ e[k + 1] <= e[k + 1]
        BY <3>6 DEF Copies
      <4>6. k + 1 < N => e[k + 1] < e[(k + 1) + 1]
        <5>1. k + 1 < N => (k + 1) + 1 \in 0..N /\ k + 1 < (k + 1) + 1
          BY <1>1, <3>5
        <5> QED BY <1>2, <3>5, <5>1, Zenon
      <4>7. SplitAt(s, Append(r, x), k + 1)
        <5>1. /\ e[k + 1] <= Len(Append(r, x))
              /\ k + 1 < N => Len(Append(r, x)) < e[(k + 1) + 1]
              /\ k + 1 = N => Len(Append(r, x)) = e[k + 1]
          BY <3>1, <3>9, <4>5, <4>6, Zenon
        <5>2. Rest(Append(r, x)) = Copies((k + 1) + 1, Len(Append(r, x)) - e[k + 1])
          BY <3>1, <3>9, <4>2, <4>5, Zenon
        <5> QED BY <1>4, <3>5, <4>4, <5>1, <5>2, Zenon
      <4> QED BY <3>5, <4>7, Zenon
    <3>10. Len(r) + 1 < e[k + 1] \/ Len(r) + 1 = e[k + 1]
      BY <3>1, <3>6, <3>7
    <3> QED BY <3>8, <3>9, <3>10, Zenon
  <2> QED BY <2>1, <2>2, Zenon
<1> HIDE DEF T
<1>8. Seq(Nat) \subseteq T
  BY <1>6, <1>7, ByteInduction, Zenon
<1> QED
  BY <1>8, Zenon DEF T, N, B

-----------------------------------------------------------------------------
(* Replies *)

(* The defects are numbered. *)
LEMMA OrderIndexed == DOMAIN Order \subseteq Nat
<1>1. Order \in Seq({"not json", "not an object", "forbidden field", "no version", "version",
                      "no operation", "operation", "no id", "bad id", "params type",
                      "params count"})
  BY DEF Order
<1> HIDE DEF Order
<1>2. Len(Order) \in Nat /\ DOMAIN Order = 1..Len(Order)
  BY <1>1, LenProperties, Zenon
<1> QED BY <1>2

(* A function on the numbers up to n is a sequence. *)
LEMMA FunctionIsSeq ==
  ASSUME NEW S, NEW n \in Nat, NEW f \in [1..n -> S]
  PROVE  f \in Seq(S) /\ Len(f) = n
  OBVIOUS

(* parse_request accepts nothing that has a defect: each has a code. *)
LEMMA VerdictOk ==
  ASSUME NEW d \in SUBSET Range(Order), Verdict(d) = "ok"
  PROVE  d = {}
<1> SUFFICES ASSUME d # {} PROVE FALSE
  BY Zenon
<1> DEFINE T == {i \in DOMAIN Order : Order[i] \in d}
<1>1. T # {}
  BY Zenon DEF Range
<1>2. DOMAIN Order \subseteq Nat
  BY OrderIndexed, Zenon
<1>3. Min(T) \in T
  <2>1. T \subseteq Nat
    BY <1>2, Zenon
  <2> HIDE DEF T
  <2> QED BY <1>1, <2>1, HasLeast, Zenon DEF Min
<1>4. Order[Min(T)] \in Range(Order)
  BY <1>3, Zenon DEF Range
<1>5. Verdict(d) = Code[Order[Min(T)]]
  BY Zenon DEF Verdict
<1> HIDE DEF T
<1>6. \A c \in Range(Order) : Code[c] # "ok"
  BY DEF Code
<1> QED
  BY <1>4, <1>5, <1>6, Zenon

(* A reply carries the frame it answers and is not a refusal for length. *)
LEMMA HandleIs ==
  ASSUME NEW s, NEW f \in Seq(Nat)
  PROVE  HandleFrame(s, f).frame = f /\ HandleFrame(s, f) # Refusal
<1>1. CASE f = <<>>
  <2>1. HandleFrame(s, f) = [frame |-> f, id |-> 0, code |-> "invalid_json"]
    BY <1>1, Zenon DEF HandleFrame
  <2>2. HandleFrame(s, f).code = "invalid_json" /\ HandleFrame(s, f).frame = f
    BY <2>1
  <2>3. Refusal.code = "message_too_large"
    BY DEF Refusal
  <2> QED BY <2>2, <2>3
<1>2. CASE f # <<>>
  <2> DEFINE c == Verdict(s[Head(f)].defects)
             j == IF c = "ok" THEN Head(f) ELSE 0
  <2>1. HandleFrame(s, f) = [frame |-> f, id |-> j, code |-> c]
    BY <1>2, Zenon DEF HandleFrame
  <2> HIDE DEF c, j
  <2>2. HandleFrame(s, f).frame = f
    BY <2>1
  <2>3. Refusal.frame = <<>>
    BY DEF Refusal
  <2> QED BY <1>2, <2>2, <2>3, Zenon
<1> QED BY <1>1, <1>2, Zenon

(* The answer to a whole request carries its own id, and only if the        *)
(* request has no defect.                                                   *)
LEMMA HandleWhole ==
  ASSUME NEW s \in Seq(Request), NEW i \in 1..Len(s),
         HandleFrame(s, Copies(i, s[i].length)).id # 0
  PROVE  HandleFrame(s, Copies(i, s[i].length)).id = i /\ s[i].defects = {}
<1> DEFINE f == Copies(i, s[i].length)
           c == Verdict(s[Head(f)].defects)
           j == IF c = "ok" THEN Head(f) ELSE 0
<1>1. s[i].length \in Nat /\ Len(s) \in Nat
  BY LengthTyped, Zenon
<1>2. i \in Nat
  BY <1>1
<1>3. f \in Seq(Nat) /\ Len(f) = s[i].length
  BY <1>1, <1>2, CopiesAppend, Zenon
<1>4. f # <<>>
  <2> SUFFICES ASSUME f = <<>> PROVE FALSE
    BY Zenon
  <2>1. HandleFrame(s, f) = [frame |-> f, id |-> 0, code |-> "invalid_json"]
    BY Zenon DEF HandleFrame
  <2> HIDE DEF f
  <2>2. HandleFrame(s, f).id = 0
    BY <2>1
  <2> QED BY <2>2, Zenon DEF f
<1>5. Head(f) = i
  <2>1. f[1] = i
    <3>1. 1 \in 1..s[i].length
      BY <1>1, <1>3, <1>4
    <3> QED BY <3>1, Zenon DEF Copies
  <2> HIDE DEF f
  <2> QED BY <1>3, <1>4, <2>1
<1>6. HandleFrame(s, f) = [frame |-> f, id |-> j, code |-> c]
  BY <1>4, Zenon DEF HandleFrame
<1> HIDE DEF f
<1>7. HandleFrame(s, f).id = j
  <2> HIDE DEF c, j
  <2> QED BY <1>6
<1>8. HandleFrame(s, f).id # 0
  BY Zenon DEF f
<1>9. c = "ok" /\ j = i
  BY <1>5, <1>7, <1>8, Zenon
<1>10. s[i].defects \in SUBSET Range(Order)
  <2>1. \A q \in Request : q.defects \in SUBSET Range(Order)
    BY Zenon DEF Request
  <2>2. s[i] \in Request
    BY ElementOfSeq, Zenon
  <2> QED BY <2>1, <2>2, Zenon
<1>11. Verdict(s[i].defects) = "ok"
  BY <1>5, <1>9, Zenon
<1> HIDE DEF c, j
<1>12. HandleFrame(s, f).id = i
  BY <1>7, <1>9, Zenon
<1> QED
  BY <1>10, <1>11, <1>12, VerdictOk, Zenon DEF f

Answers(s, fs) == [k \in DOMAIN fs |-> HandleFrame(s, fs[k])]

AnyAnswer(s) == {HandleFrame(s, f) : f \in Seq(Nat)}

(* One answer for each frame, in order. *)
LEMMA AnswersAre ==
  ASSUME NEW s, NEW fs \in Seq(Seq(Nat))
  PROVE  /\ Answers(s, fs) \in Seq(AnyAnswer(s)) /\ Len(Answers(s, fs)) = Len(fs)
         /\ DOMAIN Answers(s, fs) = DOMAIN fs
         /\ \A k \in 1..Len(fs) : Answers(s, fs)[k] = HandleFrame(s, fs[k]) /\ fs[k] \in Seq(Nat)
<1>1. Len(fs) \in Nat /\ DOMAIN fs = 1..Len(fs) /\ \A k \in 1..Len(fs) : fs[k] \in Seq(Nat)
  BY LenProperties, ElementOfSeq, Zenon
<1>2. Answers(s, fs) \in [1..Len(fs) -> AnyAnswer(s)]
  <2>1. \A k \in DOMAIN fs : HandleFrame(s, fs[k]) \in AnyAnswer(s)
    BY <1>1, Zenon DEF AnyAnswer
  <2>2. Answers(s, fs) \in [DOMAIN fs -> AnyAnswer(s)]
    BY <2>1, Zenon DEF Answers
  <2> QED BY <1>1, <2>2, Zenon
<1>3. Answers(s, fs) \in Seq(AnyAnswer(s)) /\ Len(Answers(s, fs)) = Len(fs)
  BY <1>1, <1>2, FunctionIsSeq, Zenon
<1>4. \A k \in 1..Len(fs) : Answers(s, fs)[k] = HandleFrame(s, fs[k])
  BY <1>1, Zenon DEF Answers
<1> QED
  BY <1>1, <1>2, <1>3, <1>4, Zenon

(* Answering the frames of one chunk after those of another. *)
LEMMA AnswersConcat ==
  ASSUME NEW s, NEW fs \in Seq(Seq(Nat)), NEW gs \in Seq(Seq(Nat))
  PROVE  Answers(s, fs \o gs) = Answers(s, fs) \o Answers(s, gs)
<1> DEFINE a == Answers(s, fs)
           b == Answers(s, gs)
           h == fs \o gs
           c == Answers(s, h)
<1>1. /\ h \in Seq(Seq(Nat)) /\ Len(h) = Len(fs) + Len(gs) /\ Len(fs) \in Nat /\ Len(gs) \in Nat
      /\ \A i \in 1..Len(fs) + Len(gs) : h[i] = IF i <= Len(fs) THEN fs[i] ELSE gs[i - Len(fs)]
  BY ConcatProperties
<1>2. /\ a \in Seq(AnyAnswer(s)) /\ Len(a) = Len(fs) /\ \A k \in 1..Len(fs) : a[k] = HandleFrame(s, fs[k])
      /\ b \in Seq(AnyAnswer(s)) /\ Len(b) = Len(gs) /\ \A k \in 1..Len(gs) : b[k] = HandleFrame(s, gs[k])
  BY AnswersAre, Zenon
<1> HIDE DEF h
<1>3. /\ c \in Seq(AnyAnswer(s)) /\ Len(c) = Len(h) /\ \A k \in 1..Len(h) : c[k] = HandleFrame(s, h[k])
  BY <1>1, AnswersAre, Zenon
<1> HIDE DEF a, b, c
<1>4. /\ a \o b \in Seq(AnyAnswer(s)) /\ Len(a \o b) = Len(fs) + Len(gs)
      /\ \A i \in 1..Len(fs) + Len(gs) : (a \o b)[i] = IF i <= Len(fs) THEN a[i] ELSE b[i - Len(fs)]
  <2>1. /\ a \o b \in Seq(AnyAnswer(s)) /\ Len(a \o b) = Len(a) + Len(b)
        /\ \A i \in 1..Len(a) + Len(b) : (a \o b)[i] = IF i <= Len(a) THEN a[i] ELSE b[i - Len(a)]
    <3>1. a \in Seq(AnyAnswer(s)) /\ b \in Seq(AnyAnswer(s))
      BY <1>2, Zenon
    <3> QED BY <3>1, ConcatProperties
  <2> QED BY <1>2, <2>1, Zenon
<1>5. ASSUME NEW i \in 1..Len(fs) + Len(gs) PROVE c[i] = (a \o b)[i]
  <2>1. CASE i <= Len(fs)
    <3>1. i \in 1..Len(fs)
      BY <1>1, <2>1
    <3> QED BY <1>1, <1>2, <1>3, <1>4, <2>1, <3>1, Zenon
  <2>2. CASE ~(i <= Len(fs))
    <3>1. i - Len(fs) \in 1..Len(gs)
      BY <1>1, <2>2
    <3> QED BY <1>1, <1>2, <1>3, <1>4, <2>2, <3>1, Zenon
  <2> QED BY <2>1, <2>2, Zenon
<1>6. c = a \o b
  <2>1. Len(c) = Len(a \o b) /\ \A i \in 1..Len(c) : c[i] = (a \o b)[i]
    BY <1>1, <1>3, <1>4, <1>5, Zenon
  <2> QED BY <1>3, <1>4, <2>1, SeqEqual, Zenon
<1> QED
  BY <1>6 DEF a, b, c, h

-----------------------------------------------------------------------------
(* The turns of the client thread *)

(* What recv() has returned so far. *)
Received == SubSeq(Bytes(stream), 1, Len(Bytes(stream)) - Len(wire))

Short(fs) == \A n \in DOMAIN fs : Len(fs[n]) <= MaxRequest

(* Every complete line has been answered, and no limit was reached. *)
Serving ==
  /\ buffer = Rest(Received)
  /\ replies = Answers(stream, Frames(Received))
  /\ Short(Frames(Received)) /\ Len(Rest(Received)) < MaxRequest
  /\ open \/ wire = <<>>

(* Some of the requests have been, and then one reached the limit. *)
GivenUp ==
  /\ ~open
  /\ \E m \in 0..Len(stream) :
       /\ replies = Append(Answers(stream, Wholes(stream, m)), Refusal)
       /\ Short(Wholes(stream, m))
  /\ \E i \in DOMAIN stream : stream[i].length >= MaxRequest

(* The inductive invariant: all of the state follows from the stream and    *)
(* how much of it has been received.                                        *)
FramingInv ==
  /\ stream \in Streams
  /\ Len(wire) \in 0..Len(Bytes(stream))
  /\ wire = SubSeq(Bytes(stream), Len(Bytes(stream)) - Len(wire) + 1, Len(Bytes(stream)))
  /\ host = [buffer |-> Rest(Received), frames |-> Frames(Received)]
  /\ Serving \/ GivenUp

(* Streams are sequences of requests. *)
LEMMA StreamTyped ==
  ASSUME NEW s \in Streams
  PROVE  s \in Seq(Request) /\ Bytes(s) \in Seq(Nat) /\ Len(Bytes(s)) \in Nat
<1>1. s \in Seq(Request)
  BY FramingAssumption, Zenon DEF Request
<1>2. Bytes(s) \in Seq(Nat)
  BY <1>1, BytesAre, Zenon
<1> QED
  BY <1>1, <1>2, LenProperties, Zenon

(* The bytes from position m + 1 up to n. *)
LEMMA SliceOf ==
  ASSUME NEW b \in Seq(Nat), NEW m \in Nat, NEW n \in Nat, m <= n, n <= Len(b)
  PROVE  /\ SubSeq(b, m + 1, n) \in Seq(Nat)
         /\ Len(SubSeq(b, m + 1, n)) = n - m
         /\ \A i \in 1..n - m : SubSeq(b, m + 1, n)[i] = b[m + i]
<1>1. \A i \in m + 1..n : b[i] \in Nat
  OBVIOUS
<1>2. m + 1 \in Int /\ n \in Int
  OBVIOUS
<1>3. /\ SubSeq(b, m + 1, n) \in Seq(Nat)
      /\ Len(SubSeq(b, m + 1, n)) = IF m + 1 <= n THEN n - (m + 1) + 1 ELSE 0
      /\ \A i \in 1..n - (m + 1) + 1 : SubSeq(b, m + 1, n)[i] = b[(m + 1) + i - 1]
  BY <1>1, <1>2, SubSeqProperties
<1> QED
  BY <1>3

(* The first g bytes are a prefix. *)
LEMMA FirstBytes ==
  ASSUME NEW b \in Seq(Nat), NEW g \in 0..Len(b)
  PROVE  SubSeq(b, 1, g) \in Seq(Nat) /\ Len(SubSeq(b, 1, g)) = g /\ IsPrefixOf(SubSeq(b, 1, g), b)
<1>1. 0 \in Nat /\ g \in Nat /\ 0 <= g /\ g <= Len(b) /\ 0 + 1 = 1 /\ g - 0 = g
      /\ \A i \in 1..g : 0 + i = i
  OBVIOUS
<1>2. /\ SubSeq(b, 0 + 1, g) \in Seq(Nat) /\ Len(SubSeq(b, 0 + 1, g)) = g - 0
      /\ \A i \in 1..g - 0 : SubSeq(b, 0 + 1, g)[i] = b[0 + i]
  BY <1>1, SliceOf, Zenon
<1>3. /\ SubSeq(b, 1, g) \in Seq(Nat) /\ Len(SubSeq(b, 1, g)) = g
      /\ \A i \in 1..g : SubSeq(b, 1, g)[i] = b[i]
  BY <1>1, <1>2
<1> QED
  BY <1>1, <1>3, Zenon DEF IsPrefixOf

(* recv() moves n bytes from what is left to what has been received. *)
LEMMA RecvMoves ==
  ASSUME NEW b \in Seq(Nat), NEW g \in Nat, NEW n \in Nat, g + n <= Len(b)
  PROVE  LET w == SubSeq(b, g + 1, Len(b))
         IN  /\ w \in Seq(Nat) /\ Len(w) = Len(b) - g
             /\ SubSeq(w, n + 1, Len(w)) = SubSeq(b, (g + n) + 1, Len(b))
             /\ Len(SubSeq(w, n + 1, Len(w))) = Len(b) - (g + n)
             /\ SubSeq(w, 1, n) \in Seq(Nat) /\ SubSeq(b, 1, g) \in Seq(Nat)
             /\ SubSeq(b, 1, g + n) = SubSeq(b, 1, g) \o SubSeq(w, 1, n)
<1> DEFINE L == Len(b)
           w == SubSeq(b, g + 1, L)
           v == SubSeq(w, n + 1, Len(w))
           u == SubSeq(b, (g + n) + 1, L)
           c == SubSeq(w, 1, n)
           r == SubSeq(b, 1, g)
           t == SubSeq(b, 1, g + n)
<1>1. /\ L \in Nat /\ g <= L /\ g + n \in Nat /\ g + n <= L /\ L <= Len(b)
      /\ L - g \in Nat /\ n <= L - g /\ g \in 0..Len(b) /\ g + n \in 0..Len(b)
  OBVIOUS
<1>2. w \in Seq(Nat) /\ Len(w) = L - g /\ \A i \in 1..L - g : w[i] = b[g + i]
  BY <1>1, SliceOf, Zenon
<1>3. u \in Seq(Nat) /\ Len(u) = L - (g + n) /\ \A i \in 1..L - (g + n) : u[i] = b[(g + n) + i]
  BY <1>1, SliceOf, Zenon
<1>4. r \in Seq(Nat) /\ Len(r) = g /\ \A i \in 1..g : r[i] = b[i]
  BY <1>1, FirstBytes, Zenon DEF IsPrefixOf
<1>5. t \in Seq(Nat) /\ Len(t) = g + n /\ \A i \in 1..g + n : t[i] = b[i]
  BY <1>1, FirstBytes, Zenon DEF IsPrefixOf
<1> HIDE DEF L, w, u, r, t
<1>6. v \in Seq(Nat) /\ Len(v) = (L - g) - n /\ \A i \in 1..(L - g) - n : v[i] = w[n + i]
  <2>1. Len(w) \in Nat /\ n <= Len(w) /\ Len(w) <= Len(w)
    BY <1>1, <1>2
  <2>2. v \in Seq(Nat) /\ Len(v) = Len(w) - n /\ \A i \in 1..Len(w) - n : v[i] = w[n + i]
    BY <1>2, <2>1, SliceOf, Zenon
  <2> QED BY <1>2, <2>2, Zenon
<1>7. c \in Seq(Nat) /\ Len(c) = n /\ \A i \in 1..n : c[i] = w[i]
  <2>1. n \in 0..Len(w)
    BY <1>1, <1>2
  <2> QED BY <1>2, <2>1, FirstBytes, Zenon DEF IsPrefixOf
<1> HIDE DEF v, c
<1>8. v = u
  <2>1. (L - g) - n = L - (g + n)
    BY <1>1
  <2>2. ASSUME NEW i \in 1..L - (g + n) PROVE v[i] = u[i]
    <3>1. n + i \in 1..L - g /\ g + (n + i) = (g + n) + i
      BY <1>1
    <3>2. v[i] = w[n + i]
      BY <1>6, <2>1, Zenon
    <3> QED BY <1>2, <1>3, <3>1, <3>2, Zenon
  <2>3. Len(v) = Len(u) /\ \A i \in 1..Len(v) : v[i] = u[i]
    BY <1>3, <1>6, <2>1, <2>2, Zenon
  <2> QED BY <1>3, <1>6, <2>3, SeqEqual, Zenon
<1>9. t = r \o c
  <2>1. /\ r \o c \in Seq(Nat) /\ Len(r \o c) = Len(r) + Len(c)
        /\ \A i \in 1..Len(r) + Len(c) : (r \o c)[i] = IF i <= Len(r) THEN r[i] ELSE c[i - Len(r)]
    BY <1>4, <1>7, ConcatProperties, Zenon
  <2>2. /\ Len(r \o c) = g + n
        /\ \A i \in 1..g + n : (r \o c)[i] = IF i <= g THEN r[i] ELSE c[i - g]
    BY <1>4, <1>7, <2>1, Zenon
  <2>3. ASSUME NEW i \in 1..g + n PROVE t[i] = (r \o c)[i]
    <3>1. CASE i <= g
      <4>1. i \in 1..g
        BY <3>1
      <4> QED BY <1>4, <1>5, <2>2, <3>1, <4>1, Zenon
    <3>2. CASE ~(i <= g)
      <4>1. i - g \in 1..n /\ i - g \in 1..L - g /\ g + (i - g) = i
        BY <1>1, <3>2
      <4>2. (r \o c)[i] = w[i - g]
        BY <1>7, <2>2, <3>2, <4>1, Zenon
      <4> QED BY <1>2, <1>5, <4>1, <4>2, Zenon
    <3> QED BY <3>1, <3>2, Zenon
  <2>4. Len(t) = Len(r \o c) /\ \A i \in 1..Len(t) : t[i] = (r \o c)[i]
    BY <1>5, <2>2, <2>3, Zenon
  <2> QED BY <1>5, <2>1, <2>4, SeqEqual, Zenon
<1>10. Len(v) = L - (g + n)
  BY <1>3, <1>8, Zenon
<1> QED
  BY <1>2, <1>4, <1>7, <1>8, <1>9, <1>10, Zenon DEF L, w, v, u, c, r, t

(* Where a state stands in its stream: what has been received is a prefix,  *)
(* the lines found in it are the peer's requests.                           *)
LEMMA ReceivedIs ==
  ASSUME FramingInv
  PROVE  /\ stream \in Seq(Request) /\ Bytes(stream) \in Seq(Nat)
         /\ Len(Bytes(stream)) \in Nat /\ Len(wire) \in Nat
         /\ Received \in Seq(Nat) /\ Len(Received) = Len(Bytes(stream)) - Len(wire)
         /\ Frames(Received) \in Seq(Seq(Nat)) /\ Rest(Received) \in Seq(Nat)
         /\ \E k \in 0..Len(stream) : SplitAt(stream, Received, k)
<1>1. stream \in Streams /\ Len(wire) \in 0..Len(Bytes(stream))
  BY Zenon DEF FramingInv
<1>2. stream \in Seq(Request) /\ Bytes(stream) \in Seq(Nat) /\ Len(Bytes(stream)) \in Nat
  BY <1>1, StreamTyped, Zenon
<1>3. Len(Bytes(stream)) - Len(wire) \in 0..Len(Bytes(stream)) /\ Len(wire) \in Nat
  BY <1>1, <1>2
<1>4. /\ Received \in Seq(Nat) /\ Len(Received) = Len(Bytes(stream)) - Len(wire)
      /\ IsPrefixOf(Received, Bytes(stream))
  BY <1>2, <1>3, FirstBytes, Zenon DEF Received
<1>5. Frames(Received) \in Seq(Seq(Nat)) /\ Rest(Received) \in Seq(Nat)
  BY <1>4, SplitTyped, Zenon
<1>6. \E k \in 0..Len(stream) : SplitAt(stream, Received, k)
  BY <1>2, <1>4, PrefixSplit, Zenon
<1> QED
  BY <1>2, <1>3, <1>4, <1>5, <1>6, Zenon

(* A line or an incomplete line of r that is too long belongs to a request  *)
(* that reaches the limit.                                                  *)
LEMMA LongRequest ==
  ASSUME NEW s \in Seq(Request), NEW r \in Seq(Nat), NEW k \in 0..Len(s), SplitAt(s, r, k),
         \/ \E n \in DOMAIN Frames(r) : Len(Frames(r)[n]) > MaxRequest
         \/ Len(Rest(r)) >= MaxRequest
  PROVE  \E i \in DOMAIN s : s[i].length >= MaxRequest
<1>1. /\ Len(s) \in Nat /\ DOMAIN s = 1..Len(s) /\ \A i \in 1..Len(s) : s[i].length \in Nat
      /\ MaxRequest \in Nat \ {0}
  BY LengthTyped, FramingAssumption, Zenon
<1>2. /\ Frames(r) = Wholes(s, k) /\ Rest(r) = Copies(k + 1, Len(r) - End(s)[k])
      /\ End(s)[k] <= Len(r) /\ (k < Len(s) => Len(r) < End(s)[k + 1])
      /\ (k = Len(s) => Len(r) = End(s)[k])
  BY Zenon DEF SplitAt
<1>3. /\ Wholes(s, k) \in Seq(Seq(Nat)) /\ Len(Wholes(s, k)) = k
      /\ \A i \in 1..k : Wholes(s, k)[i] = Copies(i, s[i].length)
  BY WholesAppend, Zenon
<1>4. CASE \E n \in DOMAIN Frames(r) : Len(Frames(r)[n]) > MaxRequest
  <2>1. DOMAIN Wholes(s, k) = 1..k
    BY Zenon DEF Wholes
  <2>2. PICK n \in 1..k : Len(Wholes(s, k)[n]) > MaxRequest
    BY <1>2, <1>4, <2>1, Zenon
  <2>3. n \in Nat /\ n \in 1..Len(s) /\ s[n].length \in Nat
    BY <1>1
  <2>4. Len(Wholes(s, k)[n]) = s[n].length
    BY <1>3, <2>3, CopiesAppend, Zenon
  <2>5. s[n].length >= MaxRequest
    BY <1>1, <2>2, <2>3, <2>4
  <2> QED BY <1>1, <2>3, <2>5, Zenon
<1>5. CASE Len(Rest(r)) >= MaxRequest
  <2>1. End(s)[k] \in Nat /\ Len(r) \in Nat /\ k + 1 \in Nat
    <3>1. End(s)[k] \in Nat
      BY EndSteps, Zenon
    <3>2. Len(r) \in Nat /\ k + 1 \in Nat
      BY <1>1
    <3> QED BY <3>1, <3>2, Zenon
  <2>2. Len(r) - End(s)[k] \in Nat
    BY <1>2, <2>1
  <2>3. Len(Rest(r)) = Len(r) - End(s)[k]
    <3>1. \A m \in Nat : Len(Copies(k + 1, m)) = m
      BY <2>1, CopiesAppend, Zenon
    <3> QED BY <1>2, <2>2, <3>1, Zenon
  <2>a. Len(s) \in Nat /\ MaxRequest \in Nat /\ MaxRequest # 0
    BY <1>1, Zenon
  <2>b. k = Len(s) => Len(r) - End(s)[k] = 0
    <3>1. k = Len(s) => Len(r) = End(s)[k]
      BY <1>2, Zenon
    <3> QED BY <2>1, <3>1
  <2>c. Len(r) - End(s)[k] # 0
    <3>1. Len(r) - End(s)[k] >= MaxRequest
      BY <1>5, <2>3, Zenon
    <3> QED BY <2>2, <2>a, <3>1
  <2>4. k # Len(s)
    BY <2>b, <2>c, Zenon
  <2>5. k + 1 \in 1..Len(s) /\ k < Len(s) /\ (k + 1) - 1 = k
    BY <2>4, <2>a
  <2>6. End(s)[k + 1] = End(s)[k] + s[k + 1].length + 1 /\ s[k + 1].length \in Nat
    BY <1>1, <2>5, EndSteps, Zenon
  <2>7. s[k + 1].length >= MaxRequest
    <3>1. Len(r) < End(s)[k + 1] /\ Len(r) - End(s)[k] >= MaxRequest
      BY <1>2, <1>5, <2>3, <2>5, Zenon
    <3> QED BY <2>1, <2>a, <2>6, <3>1
  <2> QED BY <1>1, <2>5, <2>7, Zenon
<1> QED
  BY <1>4, <1>5, Zenon

(* At the start nothing has been received. *)
LEMMA FramingInit == Init => FramingInv
<1> SUFFICES ASSUME Init PROVE FramingInv
  BY Zenon
<1> DEFINE B == Bytes(stream)
<1>1. /\ stream \in Streams /\ wire = B /\ buffer = <<>> /\ open = TRUE /\ replies = <<>>
      /\ host = [buffer |-> <<>>, frames |-> <<>>]
  BY Zenon DEF Init
<1>2. B \in Seq(Nat) /\ Len(B) \in Nat /\ stream \in Seq(Request)
  BY <1>1, StreamTyped, Zenon
<1>3. Len(B) - Len(B) = 0 /\ Len(B) - Len(B) + 1 = 1 /\ Len(B) \in 0..Len(B) /\ 0 \in 0..Len(B)
  BY <1>2
<1>4. Received = <<>>
  <2>1. SubSeq(B, 1, 0) \in Seq(Nat) /\ Len(SubSeq(B, 1, 0)) = 0
    BY <1>2, <1>3, FirstBytes, Zenon
  <2> HIDE DEF B
  <2>2. SubSeq(B, 1, 0) = <<>>
    BY <2>1
  <2> QED BY <1>1, <1>3, <2>2, Zenon DEF Received, B
<1>5. wire = SubSeq(B, Len(B) - Len(wire) + 1, Len(B))
  BY <1>1, <1>2, <1>3, SubSeqFull, Zenon
<1>6. Answers(stream, <<>>) = <<>> /\ Short(<<>>)
  <2>1. DOMAIN <<>> = {}
    OBVIOUS
  <2>2. Answers(stream, <<>>) = <<>>
    BY DEF Answers
  <2> QED BY <2>1, <2>2, Zenon DEF Short
<1>7. Len(<<>>) < MaxRequest
  BY FramingAssumption
<1>8. Serving
  BY <1>1, <1>4, <1>6, <1>7, FramesEmpty, Zenon DEF Serving
<1> QED
  BY <1>1, <1>3, <1>4, <1>5, <1>8, FramesEmpty, Zenon DEF FramingInv

(* A turn of the loop in which recv() returned n bytes. *)
LEMMA ReceiveStep ==
  ASSUME FramingInv, NEW n \in 1..RecvMax, n <= Len(wire), Receive(n)
  PROVE  FramingInv'
<1> DEFINE B == Bytes(stream)
           g == Len(B) - Len(wire)
           chunk  == SubSeq(wire, 1, n)
           filled == Rest(Received) \o chunk
           R == Received \o chunk
<1>1. /\ stream \in Seq(Request) /\ B \in Seq(Nat) /\ Len(B) \in Nat /\ Len(wire) \in Nat
      /\ Received \in Seq(Nat) /\ Frames(Received) \in Seq(Seq(Nat)) /\ Rest(Received) \in Seq(Nat)
      /\ \E k \in 0..Len(stream) : SplitAt(stream, Received, k)
  BY ReceivedIs, Zenon
<1>2. /\ stream \in Streams /\ Len(wire) \in 0..Len(B)
      /\ wire = SubSeq(B, g + 1, Len(B)) /\ Received = SubSeq(B, 1, g)
      /\ host = [buffer |-> Rest(Received), frames |-> Frames(Received)]
  BY Zenon DEF FramingInv, Received
<1>3. Serving
  BY Zenon DEF FramingInv, Receive, GivenUp
<1>4. host.buffer = Rest(Received) /\ host.frames = Frames(Received)
  BY <1>2
<1>5. /\ stream' = stream /\ wire' = SubSeq(wire, n + 1, Len(wire))
      /\ host' = [buffer |-> Rest(filled), frames |-> Frames(Received) \o Frames(filled)]
      /\ \/ /\ TooLongFrames(filled) \/ TooLongRest(filled)
            /\ open' = FALSE /\ replies' = Append(replies, Refusal)
         \/ /\ ~TooLongFrames(filled) /\ ~TooLongRest(filled)
            /\ open' = open /\ buffer' = Rest(filled)
            /\ replies' = replies \o Answers(stream, Frames(filled))
  <2>1. buffer = Rest(Received)
    BY <1>3, Zenon DEF Serving
  <2> HIDE DEF Received
  <2> QED BY <1>4, <2>1, Zenon DEF Receive, ExtractRest, Answers
<1>6. g \in Nat /\ n \in Nat /\ g + n <= Len(B)
  <2>1. RecvMax \in Nat
    BY FramingAssumption
  <2> HIDE DEF B
  <2> QED BY <1>1, <1>2, <2>1
<1> HIDE DEF g, B
<1>7. /\ chunk \in Seq(Nat)
      /\ wire' = SubSeq(B, (g + n) + 1, Len(B)) /\ Len(wire') = Len(B) - (g + n)
      /\ SubSeq(B, 1, g + n) = R
  <2> DEFINE w == SubSeq(B, g + 1, Len(B))
  <2>1. /\ SubSeq(w, n + 1, Len(w)) = SubSeq(B, (g + n) + 1, Len(B))
        /\ Len(SubSeq(w, n + 1, Len(w))) = Len(B) - (g + n)
        /\ SubSeq(w, 1, n) \in Seq(Nat)
        /\ SubSeq(B, 1, g + n) = SubSeq(B, 1, g) \o SubSeq(w, 1, n)
    <3>1. B \in Seq(Nat) /\ g \in Nat /\ n \in Nat /\ g + n <= Len(B)
      BY <1>1, <1>6, Zenon
    <3>2. \A b \in Seq(Nat) : \A x, y \in Nat : x + y <= Len(b) =>
            LET v == SubSeq(b, x + 1, Len(b))
            IN  /\ SubSeq(v, y + 1, Len(v)) = SubSeq(b, (x + y) + 1, Len(b))
                /\ Len(SubSeq(v, y + 1, Len(v))) = Len(b) - (x + y)
                /\ SubSeq(v, 1, y) \in Seq(Nat)
                /\ SubSeq(b, 1, x + y) = SubSeq(b, 1, x) \o SubSeq(v, 1, y)
      BY RecvMoves, ZenonT(40)
    <3>3. \A x, y \in Nat : x + y <= Len(B) =>
            LET v == SubSeq(B, x + 1, Len(B))
            IN  /\ SubSeq(v, y + 1, Len(v)) = SubSeq(B, (x + y) + 1, Len(B))
                /\ Len(SubSeq(v, y + 1, Len(v))) = Len(B) - (x + y)
                /\ SubSeq(v, 1, y) \in Seq(Nat)
                /\ SubSeq(B, 1, x + y) = SubSeq(B, 1, x) \o SubSeq(v, 1, y)
      BY <3>1, <3>2, Zenon
    <3> QED BY <3>1, <3>3, Zenon
  <2>2. w = wire
    BY <1>2, Zenon
  <2> HIDE DEF w
  <2> QED BY <1>2, <1>5, <2>1, <2>2, Zenon
<1>8. Len(wire') \in 0..Len(B) /\ Len(B) - Len(wire') = g + n
  <2>1. Len(wire') = Len(B) - (g + n) /\ Len(B) \in Nat
    BY <1>1, <1>7, Zenon
  <2> QED BY <1>6, <2>1
<1>9. Bytes(stream') = B
  BY <1>5, Zenon DEF B
<1>10. Received' = R
  BY <1>7, <1>8, <1>9, Zenon DEF Received
<1> HIDE DEF chunk
<1>11. /\ Frames(R) = Frames(Received) \o Frames(filled) /\ Rest(R) = Rest(filled)
       /\ R \in Seq(Nat) /\ filled \in Seq(Nat) /\ IsPrefixOf(R, B)
  <2>1. R \in Seq(Nat) /\ filled \in Seq(Nat)
    BY <1>1, <1>7, ConcatProperties, Zenon
  <2>2. IsPrefixOf(R, B)
    <3>1. g + n \in 0..Len(B)
      BY <1>1, <1>6
    <3> QED BY <1>1, <1>7, <3>1, FirstBytes, Zenon
  <2> QED BY <1>1, <1>7, <2>1, <2>2, SplitConcat, Zenon
<1>12. Frames(filled) \in Seq(Seq(Nat)) /\ Rest(filled) \in Seq(Nat) /\ MaxRequest \in Nat
  BY <1>11, SplitTyped, FramingAssumption, Zenon
<1> HIDE DEF R, filled
<1>13. host' = [buffer |-> Rest(R), frames |-> Frames(R)]
  BY <1>5, <1>11, Zenon
<1>14. replies = Answers(stream, Frames(Received)) /\ Short(Frames(Received)) /\ (open \/ wire = <<>>)
  BY <1>3, Zenon DEF Serving
<1>15. CASE TooLongFrames(filled) \/ TooLongRest(filled)
  <2>1. open' = FALSE /\ replies' = Append(replies, Refusal)
    BY <1>5, <1>15, Zenon
  <2>2. PICK k \in 0..Len(stream) : SplitAt(stream, Received, k)
    BY <1>1, Zenon
  <2>3. Frames(Received) = Wholes(stream, k)
    BY <2>2, Zenon DEF SplitAt
  <2>4. /\ replies' = Append(Answers(stream, Wholes(stream, k)), Refusal)
        /\ Short(Wholes(stream, k))
    BY <1>14, <2>1, <2>3, Zenon
  <2>5. PICK j \in 0..Len(stream) : SplitAt(stream, R, j)
    BY <1>1, <1>11, PrefixSplit, Zenon DEF B
  <2>6. \/ \E i \in DOMAIN Frames(R) : Len(Frames(R)[i]) > MaxRequest
        \/ Len(Rest(R)) >= MaxRequest
    <3>1. CASE TooLongFrames(filled)
      <4> DEFINE a == Frames(Received)
                 f == Frames(filled)
      <4>1. PICK i \in DOMAIN f : Len(f[i]) > MaxRequest
        BY <3>1, Zenon DEF TooLongFrames
      <4>2. a \in Seq(Seq(Nat)) /\ f \in Seq(Seq(Nat))
        BY <1>1, <1>12, Zenon
      <4> HIDE DEF a, f
      <4>3. Len(a) + i \in DOMAIN (a \o f) /\ (a \o f)[Len(a) + i] = f[i]
        BY <4>1, <4>2
      <4> QED BY <1>11, <4>1, <4>3, Zenon DEF a, f
    <3>2. CASE TooLongRest(filled)
      BY <1>11, <3>2, Zenon DEF TooLongRest
    <3> QED BY <1>15, <3>1, <3>2, Zenon
  <2>7. \E i \in DOMAIN stream : stream[i].length >= MaxRequest
    BY <1>1, <1>11, <2>5, <2>6, LongRequest, Zenon
  <2>8. GivenUp'
    BY <1>5, <2>1, <2>4, <2>7, Zenon DEF GivenUp
  <2> QED
    BY <1>2, <1>5, <1>7, <1>8, <1>9, <1>10, <1>13, <2>8, Zenon DEF FramingInv
<1>16. CASE ~TooLongFrames(filled) /\ ~TooLongRest(filled)
  <2>1. /\ open' = open /\ buffer' = Rest(filled)
        /\ replies' = replies \o Answers(stream, Frames(filled))
    BY <1>5, <1>16, Zenon
  <2>2. replies' = Answers(stream, Frames(R))
    BY <1>1, <1>11, <1>12, <1>14, <2>1, AnswersConcat, Zenon
  <2>3. Short(Frames(R))
    <3> DEFINE a == Frames(Received)
               f == Frames(filled)
    <3>1. a \in Seq(Seq(Nat)) /\ f \in Seq(Seq(Nat))
      BY <1>1, <1>12, Zenon
    <3>2. \A i \in DOMAIN a : Len(a[i]) <= MaxRequest
      BY <1>14, Zenon DEF Short
    <3>3. \A i \in DOMAIN f : ~(Len(f[i]) > MaxRequest)
      BY <1>16, Zenon DEF TooLongFrames
    <3> HIDE DEF a, f
    <3>4. \A i \in DOMAIN f : Len(f[i]) <= MaxRequest
      BY <1>12, <3>1, <3>3
    <3>5. ASSUME NEW i \in DOMAIN (a \o f) PROVE Len((a \o f)[i]) <= MaxRequest
      <4>1. CASE i <= Len(a)
        <5>1. i \in DOMAIN a /\ (a \o f)[i] = a[i]
          BY <3>1, <4>1
        <5> QED BY <3>2, <5>1, Zenon
      <4>2. CASE ~(i <= Len(a))
        <5>1. i - Len(a) \in DOMAIN f /\ (a \o f)[i] = f[i - Len(a)]
          BY <3>1, <4>2
        <5> QED BY <3>4, <5>1, Zenon
      <4> QED BY <4>1, <4>2, Zenon
    <3> QED BY <1>11, <3>5, Zenon DEF Short, a, f
  <2>4. Len(Rest(R)) < MaxRequest
    <3>1. ~(Len(Rest(filled)) >= MaxRequest)
      BY <1>16, Zenon DEF TooLongRest
    <3>2. Len(Rest(filled)) < MaxRequest
      BY <1>12, <3>1
    <3> QED BY <1>11, <3>2, Zenon
  <2>5. open
    BY Zenon DEF Receive
  <2>6. Serving'
    BY <1>5, <1>10, <1>11, <2>1, <2>2, <2>3, <2>4, <2>5, Zenon DEF Serving
  <2> QED
    BY <1>2, <1>5, <1>7, <1>8, <1>9, <1>10, <1>13, <2>6, Zenon DEF FramingInv
<1> QED
  BY <1>15, <1>16, Zenon

(* The invariant holds throughout. *)
LEMMA FramingInvHolds == Spec => []FramingInv
<1>1. FramingInv /\ [Next]_vars => FramingInv'
  <2> SUFFICES ASSUME FramingInv, [Next]_vars PROVE FramingInv'
    BY Zenon
  <2>1. ASSUME NEW n \in 1..RecvMax, n <= Len(wire), Receive(n) PROVE FramingInv'
    BY <2>1, ReceiveStep, Zenon
  <2>2. CASE PeerCloses
    <3>1. Serving /\ wire = <<>>
      BY <2>2, Zenon DEF FramingInv, PeerCloses, GivenUp
    <3>2. Received' = Received
      BY <2>2, Zenon DEF PeerCloses, Received
    <3>3. Serving'
      BY <2>2, <3>1, <3>2, Zenon DEF PeerCloses, Serving
    <3> QED BY <2>2, <3>2, <3>3, Zenon DEF PeerCloses, FramingInv
  <2>3. CASE UNCHANGED vars
    <3>1. Received' = Received
      BY <2>3, Zenon DEF vars, Received
    <3> QED BY <2>3, <3>1, Zenon DEF vars, FramingInv, Serving, GivenUp
  <2> QED BY <2>1, <2>2, <2>3, Zenon DEF Next
<1> QED
  BY <1>1, FramingInit, PTL DEF Spec

-----------------------------------------------------------------------------
(* What the peer and the other end see *)

(* The replies to the first m requests, without a refusal among them. *)
LEMMA WholeAnswers ==
  ASSUME NEW s \in Seq(Request), NEW m \in 0..Len(s)
  PROVE  LET a == Answers(s, Wholes(s, m))
         IN  /\ a \in Seq(AnyAnswer(s)) /\ Len(a) = m /\ DOMAIN a = 1..m
             /\ \A i \in 1..m : /\ a[i] = HandleFrame(s, Copies(i, s[i].length))
                                /\ a[i].frame = Copies(i, s[i].length)
                                /\ a[i] # Refusal
<1> DEFINE w == Wholes(s, m)
           a == Answers(s, w)
<1>1. w \in Seq(Seq(Nat)) /\ Len(w) = m /\ \A i \in 1..m : w[i] = Copies(i, s[i].length)
  BY WholesAppend, Zenon
<1> HIDE DEF w
<1>2. /\ a \in Seq(AnyAnswer(s)) /\ Len(a) = m
      /\ \A i \in 1..m : a[i] = HandleFrame(s, w[i]) /\ w[i] \in Seq(Nat)
  BY <1>1, AnswersAre, Zenon
<1> HIDE DEF a
<1>3. DOMAIN a = 1..m
  BY <1>2, LenProperties, Zenon
<1>4. \A i \in 1..m : HandleFrame(s, w[i]).frame = w[i] /\ HandleFrame(s, w[i]) # Refusal
  BY <1>2, HandleIs, Zenon
<1>5. \A i \in 1..m : /\ a[i] = HandleFrame(s, Copies(i, s[i].length))
                      /\ a[i].frame = Copies(i, s[i].length)
                      /\ a[i] # Refusal
  BY <1>1, <1>2, <1>4, Zenon
<1> QED
  BY <1>2, <1>3, <1>5, Zenon DEF a, w

(* What was served are the first m requests; and either the connection is   *)
(* in service, or it was given up for a request that reached the limit.     *)
ServedFirst(m) ==
  /\ m \in 0..Len(stream)
  /\ Served = Answers(stream, Wholes(stream, m))
  /\ Short(Wholes(stream, m))
  /\ ~Refused => Serving /\ SplitAt(stream, Received, m)
  /\ Refused => ~open /\ \E i \in DOMAIN stream : stream[i].length >= MaxRequest

(* The invariant says so. *)
LEMMA ServedIs ==
  ASSUME FramingInv
  PROVE  \E m \in 0..Len(stream) : ServedFirst(m)
<1>1. stream \in Seq(Request) /\ \E k \in 0..Len(stream) : SplitAt(stream, Received, k)
  BY ReceivedIs, Zenon
<1>2. CASE Serving
  <2>1. PICK m \in 0..Len(stream) : SplitAt(stream, Received, m)
    BY <1>1, Zenon
  <2> DEFINE a == Answers(stream, Wholes(stream, m))
  <2>2. replies = a /\ Short(Wholes(stream, m))
    BY <1>2, <2>1, Zenon DEF Serving, SplitAt
  <2>3. a \in Seq(AnyAnswer(stream)) /\ \A i \in 1..m : a[i] # Refusal
    BY <1>1, WholeAnswers, Zenon
  <2>4. Len(a) = m
    BY <1>1, WholeAnswers, Zenon
  <2> HIDE DEF a
  <2>5. ~Refused
    <3> SUFFICES ASSUME a # <<>>, a[Len(a)] = Refusal PROVE FALSE
      BY <2>2, Zenon DEF Refused
    <3>1. Len(a) \in 1..m
      BY <2>3, <2>4
    <3> QED BY <2>3, <3>1, Zenon
  <2>6. Served = a
    BY <2>2, <2>5, Zenon DEF Served
  <2> QED BY <1>2, <2>1, <2>2, <2>5, <2>6, Zenon DEF ServedFirst, a
<1>3. CASE GivenUp
  <2>1. PICK m \in 0..Len(stream) :
          /\ replies = Append(Answers(stream, Wholes(stream, m)), Refusal)
          /\ Short(Wholes(stream, m))
    BY <1>3, Zenon DEF GivenUp
  <2> DEFINE a == Answers(stream, Wholes(stream, m))
             S == AnyAnswer(stream) \cup {Refusal}
  <2>2. a \in Seq(AnyAnswer(stream))
    BY <1>1, WholeAnswers, Zenon
  <2>3. a \in Seq(S) /\ Refusal \in S
    <3>1. AnyAnswer(stream) \subseteq S /\ Refusal \in S
      BY Zenon
    <3> HIDE DEF S, a
    <3> QED BY <2>2, <3>1, SeqMonotonic, Zenon
  <2> HIDE DEF a, S
  <2>4. /\ Append(a, Refusal) # <<>> /\ Len(Append(a, Refusal)) = Len(a) + 1 /\ Len(a) \in Nat
        /\ Append(a, Refusal)[Len(a) + 1] = Refusal
    BY <2>3
  <2>5. Refused
    BY <2>1, <2>4, Zenon DEF Refused, a
  <2>6. SubSeq(Append(a, Refusal), 1, Len(a)) = a
    BY <2>3
  <2>7. Served = a
    <3>1. replies = Append(a, Refusal) /\ Len(replies) = Len(a) + 1
      BY <2>1, <2>4, Zenon DEF a
    <3>2. Len(replies) - 1 = Len(a)
      BY <2>4, <3>1
    <3> QED BY <2>5, <2>6, <3>1, <3>2, Zenon DEF Served
  <2> QED BY <1>3, <2>1, <2>5, <2>7, Zenon DEF ServedFirst, GivenUp, a
<1> QED
  BY <1>2, <1>3, Zenon DEF FramingInv

(* split_frames: however recv() cuts the stream, the frames that the client *)
(* thread handles are the peer's requests, whole and in the order sent, and *)
(* parse_request's verdict on each is that on its own text.                 *)
THEOREM FramingServedInOrder == Spec => []ServedInOrder
<1>1. FramingInv => ServedInOrder
  <2> SUFFICES ASSUME FramingInv PROVE ServedInOrder
    BY Zenon
  <2>1. PICK m \in 0..Len(stream) : ServedFirst(m)
    BY ServedIs, Zenon
  <2>2. stream \in Seq(Request)
    BY ReceivedIs, Zenon
  <2>3. Served = Answers(stream, Wholes(stream, m))
    BY <2>1, Zenon DEF ServedFirst
  <2>4. /\ Len(Served) = m /\ DOMAIN Served = 1..m
        /\ \A i \in 1..m : /\ Served[i] = HandleFrame(stream, Copies(i, stream[i].length))
                           /\ Served[i].frame = Copies(i, stream[i].length)
    BY <2>2, <2>3, WholeAnswers, Zenon
  <2>5. m <= Len(stream) /\ \A i \in 1..m : i \in 1..Len(stream)
    <3>1. Len(stream) \in Nat
      BY <2>2, LengthTyped, Zenon
    <3> QED BY <3>1
  <2>6. \A i \in 1..m : Served[i].id # 0 => Served[i].id = i /\ stream[i].defects = {}
    <3>1. \A i \in 1..Len(stream) :
            LET h == HandleFrame(stream, Copies(i, stream[i].length))
            IN  h.id # 0 => h.id = i /\ stream[i].defects = {}
      BY <2>2, HandleWhole, Zenon
    <3> SUFFICES ASSUME NEW i \in 1..m
                 PROVE  Served[i].id # 0 => Served[i].id = i /\ stream[i].defects = {}
      BY Zenon
    <3>2. i \in 1..Len(stream) /\ Served[i] = HandleFrame(stream, Copies(i, stream[i].length))
      BY <2>4, <2>5, Zenon
    <3> QED BY <3>1, <3>2, Zenon
  <2>7. \A i \in 1..m : Served[i].frame = Whole(i)
    BY <2>4, Zenon DEF Whole, Copies
  <2> QED BY <2>4, <2>5, <2>6, <2>7, Zenon DEF ServedInOrder
<1> QED
  BY <1>1, FramingInvHolds, PTL

(* kMaxRequestBytes: a connection is given up only for a request that       *)
(* reaches the limit; a peer that keeps under it is answered in full, and a *)
(* request over it is never handled, its connection being given up by the   *)
(* time its newline has come in.                                            *)
THEOREM FramingRefusedForLength == Spec => []RefusedForLength
<1>1. FramingInv => RefusedForLength
  <2> SUFFICES ASSUME FramingInv PROVE RefusedForLength
    BY Zenon
  <2>1. PICK m \in 0..Len(stream) : ServedFirst(m)
    BY ServedIs, Zenon
  <2>2. /\ stream \in Seq(Request) /\ Len(Bytes(stream)) \in Nat /\ Len(wire) \in Nat
        /\ Len(Received) = Len(Bytes(stream)) - Len(wire)
    BY ReceivedIs, Zenon
  <2> DEFINE N == Len(stream)
             e == End(stream)
             L == Len(Bytes(stream))
  <2>3. /\ N \in Nat /\ DOMAIN stream = 1..N /\ \A i \in 1..N : stream[i].length \in Nat
        /\ MaxRequest \in Nat /\ L = e[N]
        /\ \A i \in 0..N : e[i] \in Nat
    <3>1. N \in Nat /\ DOMAIN stream = 1..N /\ \A i \in 1..N : stream[i].length \in Nat
      BY <2>2, LengthTyped, Zenon
    <3>2. L = e[N]
      BY <2>2, BytesAre, Zenon
    <3>3. \A i \in 0..N : e[i] \in Nat
      BY <2>2, EndSteps, Zenon
    <3>4. MaxRequest \in Nat
      BY FramingAssumption, Zenon
    <3> QED BY <3>1, <3>2, <3>3, <3>4, Zenon
  <2>4. \A i, j \in 0..N : i < j => e[i] < e[j]
    BY <2>2, EndGrows, Zenon
  <2>5. Len(Served) = m
    <3>1. Served = Answers(stream, Wholes(stream, m))
      BY <2>1, Zenon DEF ServedFirst
    <3>2. Len(Answers(stream, Wholes(stream, m))) = m
      BY <2>2, WholeAnswers, Zenon
    <3> QED BY <3>1, <3>2, Zenon
  <2>6. ~Refused => (m < N => Len(Received) < e[m + 1])
    BY <2>1, Zenon DEF ServedFirst, SplitAt
  <2>7. ASSUME \A i \in DOMAIN stream : stream[i].length < MaxRequest
        PROVE  ~Refused /\ (~open => Len(Served) = Len(stream))
    <3>1. ~Refused
      <4>1. \A i \in DOMAIN stream : ~(stream[i].length >= MaxRequest)
        BY <2>3, <2>7
      <4> QED BY <2>1, <4>1, Zenon DEF ServedFirst
    <3>2. ASSUME ~open PROVE m = N
      <4>1. wire = <<>>
        BY <2>1, <3>1, <3>2, Zenon DEF ServedFirst, Serving
      <4>2. Len(wire) = 0
        BY <4>1
      <4> HIDE DEF N, e, L
      <4>3. Len(Received) = e[N]
        <5>1. Len(Received) = L - Len(wire) /\ L \in Nat
          BY <2>2, Zenon DEF L
        <5> QED BY <2>3, <4>2, <5>1
      <4> SUFFICES ASSUME m # N PROVE FALSE
        BY Zenon
      <4>4. m \in 0..N
        BY Zenon DEF N
      <4>5. N \in Nat
        BY <2>3, Zenon
      <4>6. m < N /\ m + 1 \in 0..N /\ N \in 0..N /\ (m + 1 = N \/ m + 1 < N)
        BY <4>4, <4>5
      <4>7. e[N] < e[m + 1] /\ (m + 1 = N \/ e[m + 1] < e[N])
        BY <2>4, <2>6, <3>1, <4>3, <4>6, Zenon
      <4>8. e[N] \in Nat /\ e[m + 1] \in Nat
        BY <2>3, <4>6, Zenon
      <4> QED BY <4>7, <4>8
    <3> QED BY <2>5, <3>1, <3>2, Zenon
  <2>8. ASSUME NEW i \in DOMAIN stream, stream[i].length > MaxRequest
        PROVE  /\ Len(Served) < i
               /\ e[i] + Len(wire) <= L => ~open
    <3>1. i \in 1..N /\ stream[i].length \in Nat
      BY <2>3, Zenon
    <3> DEFINE w == Wholes(stream, m)
    <3>2. \A j \in 1..m : Len(w[j]) <= MaxRequest
      <4>1. DOMAIN w = 1..m
        BY Zenon DEF Wholes
      <4> QED BY <2>1, <4>1, Zenon DEF ServedFirst, Short
    <3>3. i \in 1..m => Len(w[i]) = stream[i].length
      <4>1. i \in 1..m => w[i] = Copies(i, stream[i].length)
        BY Zenon DEF Wholes
      <4>2. i \in Nat
        BY <2>3, <3>1
      <4>3. Len(Copies(i, stream[i].length)) = stream[i].length
        BY <3>1, <4>2, CopiesAppend, Zenon
      <4> QED BY <4>1, <4>3, Zenon
    <3> HIDE DEF w, N, e, L
    <3>4. i \notin 1..m
      <4> SUFFICES ASSUME i \in 1..m PROVE FALSE
        BY Zenon
      <4>1. stream[i].length <= MaxRequest
        BY <3>2, <3>3, Zenon
      <4>2. MaxRequest \in Nat
        BY <2>3, Zenon
      <4> QED BY <2>8, <3>1, <4>1, <4>2
    <3>5. m \in 0..N /\ N \in Nat
      BY <2>3, Zenon DEF N
    <3>6. m < i /\ m < N /\ m + 1 \in 0..N /\ i \in 0..N /\ (m + 1 = i \/ m + 1 < i)
      BY <3>1, <3>4, <3>5
    <3>7. ASSUME e[i] + Len(wire) <= L, open PROVE FALSE
      <4>1. ~Refused
        BY <2>1, <3>7, Zenon DEF ServedFirst
      <4>2. Len(Received) < e[m + 1] /\ (m + 1 = i \/ e[m + 1] < e[i])
        BY <2>4, <2>6, <3>6, <4>1, Zenon
      <4>3. e[i] \in Nat /\ e[m + 1] \in Nat
        BY <2>3, <3>6, Zenon
      <4>4. Len(Received) = L - Len(wire) /\ L \in Nat /\ Len(wire) \in Nat
        BY <2>2, Zenon DEF L
      <4> QED BY <3>7, <4>2, <4>3, <4>4
    <3> QED BY <2>5, <3>6, <3>7, Zenon
  <2> QED BY <2>7, <2>8, Zenon DEF RefusedForLength
<1> QED
  BY <1>1, FramingInvHolds, PTL

(* extract_frames, in the native host, and split_frames, in the daemon,     *)
(* find the same frames in the same bytes while the daemon serves them.     *)
THEOREM FramingEndsAgree == Spec => []EndsAgree
<1>1. FramingInv => EndsAgree
  <2> SUFFICES ASSUME FramingInv, open, ~Refused
               PROVE  host.frames = [i \in DOMAIN Served |-> Served[i].frame]
    BY Zenon DEF EndsAgree
  <2>1. PICK m \in 0..Len(stream) : ServedFirst(m)
    BY ServedIs, Zenon
  <2>2. stream \in Seq(Request)
    BY ReceivedIs, Zenon
  <2>3. Frames(Received) = Wholes(stream, m) /\ Served = Answers(stream, Wholes(stream, m))
    BY <2>1, Zenon DEF ServedFirst, SplitAt
  <2>4. DOMAIN Served = 1..m /\ \A i \in 1..m : Served[i].frame = Copies(i, stream[i].length)
    BY <2>2, <2>3, WholeAnswers, Zenon
  <2>5. [i \in DOMAIN Served |-> Served[i].frame] = Wholes(stream, m)
    BY <2>4, Zenon DEF Wholes
  <2>6. host = [buffer |-> Rest(Received), frames |-> Frames(Received)]
    BY Zenon DEF FramingInv
  <2>7. host.frames = Frames(Received)
    BY <2>6
  <2> QED BY <2>3, <2>5, <2>7, Zenon
<1> QED
  BY <1>1, FramingInvHolds, PTL
=============================================================================
