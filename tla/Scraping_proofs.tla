--------------------------- MODULE Scraping_proofs ----------------------------
(***************************************************************************)
(* Proofs about the scrapers, for any sites and failures, and for any      *)
(* products, rounds and deaths of the Swish scanner.                       *)
(*                                                                         *)
(* What a scrape delivers is said of its end; ScrapeInv says of every      *)
(* moment which pages have been taken (PagesAreTaken), that the ids hot    *)
(* has seen are those of its rows (RowsAreSeen), and what the records are  *)
(* made of (RecordsAreMade).  The rest is about the data: what FlattenSeq, *)
(* Pick and the adapters make of any sequence.                             *)
(*                                                                         *)
(* The two files of the scanner are written one after the other, so that   *)
(* processed ids have their record (RecordsMatchState) is not inductive:   *)
(* SaveProgress writes the state of the memory of the scan.  What it needs *)
(* is that a running scan knows the two files as they are                  *)
(* (ScanKnowsFiles), which holds because every write of a file goes        *)
(* through the memory.                                                     *)
(***************************************************************************)
EXTENDS Scraping, FiniteSetTheorems, WellFoundedInduction, TLAPS

-----------------------------------------------------------------------------
(* Induction and iteration over the naturals, with a set in the place of a predicate. *)

\* Every set of naturals that is not empty has a least member.
LEMMA LeastMember ==
  ASSUME NEW S \in SUBSET Nat, S # {}
  PROVE  /\ Min(S) \in S
         /\ \A m \in S : Min(S) <= m
<1> DEFINE R == OpToRel(<, Nat)
<1>1. IsWellFoundedOn(R, Nat)
  BY NatLessThanWellFounded
<1>2. \A i, j \in Nat : i < j => <<i, j>> \in R
  BY DEF OpToRel
<1> HIDE DEF R
<1>3. PICK n \in S : \A m \in S : ~ (<<m, n>> \in R)
  BY <1>1, WFMin
<1>4. ASSUME NEW m \in S PROVE n <= m
  <2>1. m \in Nat /\ n \in Nat /\ ~ (m < n)
    BY <1>2, <1>3
  <2> QED  BY <2>1
<1> QED
  BY <1>4 DEF Min

\* Induction, over a set in the place of a predicate.
LEMMA Induction ==
  ASSUME NEW S, 0 \in S, \A n \in Nat : n \in S => n + 1 \in S
  PROVE  \A n \in Nat : n \in S
<1> SUFFICES ASSUME Nat \ S # {} PROVE FALSE
  OBVIOUS
<1> DEFINE n == Min(Nat \ S)
<1>1. n \in Nat \ S /\ \A m \in Nat \ S : n <= m
  BY LeastMember
<1> HIDE DEF n
<1>2. n # 0 /\ n - 1 \in Nat /\ ~(n <= n - 1)
  BY <1>1
<1>3. n - 1 \in S
  BY <1>1, <1>2
<1> QED
  BY <1>1, <1>2, <1>3

\* A first value and what follows each define a function.
Iterates(f, V, first, next) == f \in [Nat -> V] /\ f[0] = first /\ \A n \in Nat : f[n + 1] = next[n][f[n]]

\* A function of the naturals that goes on from its first value as it is told at every
\* number.
LEMMA Iteration ==
  ASSUME NEW V, NEW first \in V, NEW next, \A n \in Nat : next[n] \in [V -> V]
  PROVE  \E f : Iterates(f, V, first, next)
<1> DEFINE Upto(n, f) == f \in [0 .. n -> V] /\ f[0] = first /\ \A i \in 0 .. n - 1 : f[i + 1] = next[i][f[i]]
           Defined == {n \in Nat : \E f \in [0 .. n -> V] : Upto(n, f)}
<1>1. 0 \in Defined
  <2> DEFINE f == [i \in 0 .. 0 |-> first]
  <2>1. f \in [0 .. 0 -> V] /\ f[0] = first
    OBVIOUS
  <2>2. Upto(0, f)
    BY <2>1
  <2> QED  BY <2>1, <2>2
<1>2. ASSUME NEW n \in Nat, n \in Defined PROVE n + 1 \in Defined
  <2>1. PICK f \in [0 .. n -> V] : Upto(n, f)
    BY <1>2
  <2> DEFINE g == [i \in 0 .. n + 1 |-> IF i = n + 1 THEN next[n][f[n]] ELSE f[i]]
  <2>2. g \in [0 .. n + 1 -> V] /\ g[0] = first
    BY <2>1
  <2>3. ASSUME NEW i \in 0 .. (n + 1) - 1 PROVE g[i + 1] = next[i][g[i]]
    <3>1. CASE i = n
      <4>1. g[i + 1] = next[n][f[n]] /\ g[i] = f[i]
        BY <3>1
      <4> QED  BY <3>1, <4>1
    <3>2. CASE i # n
      <4>1. i \in 0 .. n - 1
        BY <3>2
      <4>2. g[i + 1] = f[i + 1] /\ g[i] = f[i]
        BY <4>1
      <4> QED  BY <2>1, <4>1, <4>2
    <3> QED BY <3>1, <3>2
  <2>4. Upto(n + 1, g)
    BY <2>2, <2>3
  <2> HIDE DEF g
  <2>5. n + 1 \in Nat /\ \E h \in [0 .. n + 1 -> V] : Upto(n + 1, h)
    BY <2>2, <2>4
  <2> QED  BY <2>5
<1> HIDE DEF Defined
<1>3. \A n \in Nat : n \in Defined
  BY <1>1, <1>2, Induction
<1> USE DEF Defined
<1> DEFINE G(n) == CHOOSE f \in [0 .. n -> V] : Upto(n, f)
<1>4. \A n \in Nat : Upto(n, G(n))
  BY <1>3
<1> HIDE DEF G, Defined
\* Any two of them agree where both are defined.
<1>5. ASSUME NEW n \in Nat PROVE G(n + 1)[n] = G(n)[n]
  <2> DEFINE Same == {i \in Nat : i <= n => G(n + 1)[i] = G(n)[i]}
  <2>1. 0 \in Same
    BY <1>4
  <2>2. ASSUME NEW i \in Nat, i \in Same PROVE i + 1 \in Same
    <3> SUFFICES ASSUME i + 1 <= n PROVE G(n + 1)[i + 1] = G(n)[i + 1]
      OBVIOUS
    <3>1. i \in 0 .. n - 1 /\ i \in 0 .. (n + 1) - 1 /\ G(n + 1)[i] = G(n)[i]
      BY <2>2
    <3>2. G(n)[i + 1] = next[i][G(n)[i]]
      BY <1>4, <3>1
    <3>3. G(n + 1)[i + 1] = next[i][G(n + 1)[i]]
      <4>1. Upto(n + 1, G(n + 1))
        BY <1>4
      <4> QED  BY <3>1, <4>1
    <3> QED  BY <3>1, <3>2, <3>3
  <2> HIDE DEF Same
  <2>3. \A i \in Nat : i \in Same
    BY <2>1, <2>2, Induction
  <2> QED  BY <2>3 DEF Same
<1> DEFINE f == [n \in Nat |-> G(n)[n]]
<1>6. f \in [Nat -> V] /\ f[0] = first
  BY <1>4
<1>7. ASSUME NEW n \in Nat PROVE f[n + 1] = next[n][f[n]]
  <2>1. G(n + 1)[n + 1] = next[n][G(n + 1)[n]]
    BY <1>4
  <2> QED  BY <1>5, <2>1
<1> QED  BY <1>6, <1>7 DEF Iterates

-----------------------------------------------------------------------------
(* Sequences: what is said of one is said of its places.                   *)

\* What a sequence is: its places are the numbers up to its length.
LEMMA SeqFacts ==
  ASSUME NEW s, IsSeq(s)
  PROVE  /\ Len(s) \in Nat /\ DOMAIN s = 1 .. Len(s)
         /\ s = <<>> <=> Len(s) = 0
         /\ s = [i \in 1 .. Len(s) |-> s[i]]
  BY DEF IsSeq

\* A function on the first so many numbers is a sequence.
LEMMA SeqFrom ==
  ASSUME NEW n \in Nat, NEW s, s = [i \in 1 .. n |-> s[i]]
  PROVE  IsSeq(s) /\ Len(s) = n
<1>1. s \in [1 .. n -> Range(s)]
  BY DEF Range
<1>2. s \in Seq(Range(s)) /\ Len(s) = n
  BY <1>1
<1> QED
  BY <1>2 DEF IsSeq

\* A sequence over a set is one, and what it holds is in the set.
LEMMA SeqIn ==
  ASSUME NEW T, NEW s \in Seq(T)
  PROVE  IsSeq(s) /\ \A i \in 1 .. Len(s) : s[i] \in T
<1>1. Len(s) \in Nat /\ s = [i \in 1 .. Len(s) |-> s[i]] /\ \A i \in 1 .. Len(s) : s[i] \in T
  OBVIOUS
<1> QED
  BY <1>1, SeqFrom

\* The empty sequence has no places.
LEMMA NoPlaces == IsSeq(<<>>) /\ Len(<<>>) = 0
<1>1. \A T : <<>> \in Seq(T)
  OBVIOUS
<1>2. IsSeq(<<>>)
  BY <1>1, Zenon DEF IsSeq
<1>3. Len(<<>>) = 0
  OBVIOUS
<1> QED
  BY <1>2, <1>3, Zenon

\* Two sequences one after the other: the places of the first, then those of the second.
LEMMA SeqConcat ==
  ASSUME NEW s, IsSeq(s), NEW t, IsSeq(t)
  PROVE  /\ IsSeq(s \o t) /\ Len(s \o t) = Len(s) + Len(t)
         /\ \A i \in 1 .. Len(s) : (s \o t)[i] = s[i]
         /\ \A i \in 1 .. Len(t) : (s \o t)[Len(s) + i] = t[i]
<1> DEFINE T == Range(s) \cup Range(t)
<1>1. s \in Seq(T) /\ t \in Seq(T)
  BY DEF IsSeq
<1> HIDE DEF T
<1>2. s \o t \in Seq(T)
  BY <1>1
<1>3. IsSeq(s \o t)
  BY <1>2, SeqIn
<1>4. Len(s \o t) = Len(s) + Len(t)
  BY <1>1
<1>5. \A i \in 1 .. Len(s) : (s \o t)[i] = s[i]
  BY <1>1
<1>6. \A i \in 1 .. Len(t) : (s \o t)[Len(s) + i] = t[i]
  BY <1>1
<1> QED
  BY <1>3, <1>4, <1>5, <1>6

\* Every place of a concatenation is one of the first or of the second sequence.
LEMMA PlacesOfConcat ==
  ASSUME NEW s, IsSeq(s), NEW t, IsSeq(t), NEW p \in 1 .. Len(s \o t)
  PROVE  \/ p \in 1 .. Len(s) /\ (s \o t)[p] = s[p]
         \/ \E q \in 1 .. Len(t) : p = Len(s) + q /\ (s \o t)[p] = t[q]
<1>1. Len(s) \in Nat /\ Len(t) \in Nat /\ Len(s \o t) = Len(s) + Len(t)
  BY SeqConcat, SeqFacts
<1>2. /\ \A i \in 1 .. Len(s) : (s \o t)[i] = s[i]
      /\ \A i \in 1 .. Len(t) : (s \o t)[Len(s) + i] = t[i]
  BY SeqConcat
<1>3. CASE p \in 1 .. Len(s)
  BY <1>2, <1>3
<1>4. CASE p \notin 1 .. Len(s)
  <2>1. p - Len(s) \in 1 .. Len(t) /\ p = Len(s) + (p - Len(s))
    BY <1>1, <1>4
  <2> QED
    BY <1>2, <2>1
<1> QED
  BY <1>3, <1>4

\* The same of a sequence that is called by a name of its own.
LEMMA PlacesOfJoined ==
  ASSUME NEW s, IsSeq(s), NEW t, IsSeq(t), NEW w, w = s \o t, NEW p \in DOMAIN w
  PROVE  \/ p \in DOMAIN s /\ w[p] = s[p]
         \/ \E q \in 1 .. Len(t) : p = Len(s) + q /\ w[p] = t[q]
<1>1. /\ IsSeq(w) /\ Len(w) = Len(s) + Len(t)
      /\ \A i \in 1 .. Len(s) : w[i] = s[i]
      /\ \A i \in 1 .. Len(t) : w[Len(s) + i] = t[i]
  BY SeqConcat
<1>2. Len(s) \in Nat /\ Len(t) \in Nat /\ DOMAIN w = 1 .. Len(w) /\ DOMAIN s = 1 .. Len(s)
  BY <1>1, SeqFacts
<1>3. CASE p \in 1 .. Len(s)
  BY <1>1, <1>2, <1>3
<1>4. CASE p \notin 1 .. Len(s)
  <2>1. p - Len(s) \in 1 .. Len(t) /\ p = Len(s) + (p - Len(s))
    BY <1>1, <1>2, <1>4
  <2>2. w[p] = t[p - Len(s)]
    BY <1>1, <2>1
  <2> QED
    BY <2>1, <2>2
<1> QED
  BY <1>3, <1>4

\* Nothing before a sequence leaves it as it is.
LEMMA ConcatNothing ==
  ASSUME NEW s, IsSeq(s)
  PROVE  <<>> \o s = s
<1>1. s \in Seq(Range(s))
  BY DEF IsSeq
<1> QED
  BY <1>1

\* What is reached from part to part is reached by all the parts together.
LEMMA Flattened ==
  ASSUME NEW ss, IsSeq(ss), \A n \in 1 .. Len(ss) : IsSeq(ss[n]),
         NEW V, <<>> \in V[0], \A n \in 1 .. Len(ss) : \A s \in V[n - 1] : s \o ss[n] \in V[n]
  PROVE  FlattenSeq(ss) \in V[Len(ss)]
<1>1. Len(ss) \in Nat /\ DOMAIN ss = 1 .. Len(ss) /\ (Len(ss) = 0 => ss = <<>>)
  BY SeqFacts
<1>2. CASE Len(ss) = 0
  <2>1. FlattenSeq(ss) = <<>>
    BY <1>1, <1>2 DEF FlattenSeq
  <2> QED  BY <1>2, <2>1
<1>3. CASE Len(ss) # 0
  <2> DEFINE T == UNION {Range(ss[n]) : n \in 1 .. Len(ss)}
             W == Seq(T)
             none == <<>>
             next == [n \in Nat |-> [s \in W |-> IF n + 1 \in 1 .. Len(ss) THEN s \o ss[n + 1] ELSE s]]
             flatten == CHOOSE h : h = [i \in 1 .. Len(ss) |-> IF i = 1 THEN ss[i] ELSE h[i - 1] \o ss[i]]
  <2>1. \A n \in 1 .. Len(ss) : ss[n] \in W
    <3> SUFFICES ASSUME NEW n \in 1 .. Len(ss) PROVE ss[n] \in Seq(T)
      OBVIOUS
    <3>1. ss[n] \in Seq(Range(ss[n])) /\ Range(ss[n]) \subseteq T
      BY DEF IsSeq
    <3> HIDE DEF T
    <3> QED  BY <3>1
  <2> HIDE DEF T
  <2>2. none \in W /\ \A n \in Nat : next[n] \in [W -> W]
    BY <2>1
  <2>3. \A n \in Nat : n + 1 \in 1 .. Len(ss) => \A s \in W : next[n][s] = s \o ss[n + 1]
    OBVIOUS
  <2> HIDE DEF W, next, none
  <2>4. PICK f : Iterates(f, W, none, next)
    BY <2>2, Iteration
  <2>5. ASSUME NEW n \in 1 .. Len(ss) PROVE f[n] = f[n - 1] \o ss[n]
    <3>1. n - 1 \in Nat /\ (n - 1) + 1 = n
      BY <1>1
    <3>2. f[n] = next[n - 1][f[n - 1]] /\ f[n - 1] \in W
      BY <2>4, <3>1 DEF Iterates
    <3> QED  BY <2>3, <3>1, <3>2
  <2>6. f[0] = <<>> /\ f[1] = ss[1]
    <3>1. f[0] = <<>>
      BY <2>4 DEF Iterates, none
    <3>2. 1 \in 1 .. Len(ss)
      BY <1>1, <1>3
    <3>3. ASSUME NEW n \in 1 .. Len(ss), n = 1 PROVE f[n] = f[0] \o ss[n]
      <4>1. n - 1 = 0
        BY <3>3
      <4>2. f[n] = f[n - 1] \o ss[n]
        BY <2>5
      <4> QED  BY <4>1, <4>2
    <3>4. f[1] = f[0] \o ss[1]
      BY <3>2, <3>3
    <3> QED  BY <3>1, <3>2, <3>4, ConcatNothing
  <2> DEFINE g == [i \in 1 .. Len(ss) |-> f[i]]
  <2>7. g = [i \in 1 .. Len(ss) |-> IF i = 1 THEN ss[i] ELSE g[i - 1] \o ss[i]]
    <3>1. ASSUME NEW i \in 1 .. Len(ss) PROVE g[i] = IF i = 1 THEN ss[i] ELSE g[i - 1] \o ss[i]
      <4>1. CASE i = 1
        BY <2>6, <4>1
      <4>2. CASE i # 1
        <5>1. i - 1 \in 1 .. Len(ss)
          BY <1>1, <4>2
        <5> QED  BY <2>5, <4>2, <5>1
      <4> QED  BY <4>1, <4>2
    <3> HIDE DEF g
    <3>2. g = [i \in 1 .. Len(ss) |-> g[i]]
      BY DEF g
    <3> QED  BY <3>1, <3>2
  <2> HIDE DEF g
  <2>8. flatten = [i \in 1 .. Len(ss) |-> IF i = 1 THEN ss[i] ELSE flatten[i - 1] \o ss[i]]
    BY <2>7
  <2>9. FlattenSeq(ss) = flatten[Len(ss)]
    BY <1>3 DEF FlattenSeq
  <2> HIDE DEF flatten
  <2> DEFINE Reached == {n \in Nat : n \in 1 .. Len(ss) => flatten[n] \in V[n]}
  <2>10. 0 \in Reached
    BY <1>1
  <2>11. ASSUME NEW n \in Nat, n \in Reached PROVE n + 1 \in Reached
    <3> SUFFICES ASSUME n + 1 \in 1 .. Len(ss) PROVE flatten[n + 1] \in V[n + 1]
      OBVIOUS
    <3>1. CASE n = 0
      <4>1. flatten[1] = ss[1]
        BY <2>8, <3>1
      <4>2. ASSUME NEW m \in 1 .. Len(ss), m = 1 PROVE <<>> \o ss[m] \in V[m]
        <5>1. m - 1 = 0
          BY <4>2
        <5>2. <<>> \in V[m - 1]
          BY <5>1
        <5> QED  BY <5>2
      <4>3. 1 \in 1 .. Len(ss)
        BY <3>1
      <4> QED  BY <3>1, <4>1, <4>2, <4>3, ConcatNothing
    <3>2. CASE n # 0
      <4>1. n \in 1 .. Len(ss) /\ n + 1 # 1 /\ (n + 1) - 1 = n
        BY <1>1, <3>2
      <4>2. flatten[n + 1] = flatten[n] \o ss[n + 1] /\ flatten[n] \in V[n]
        BY <2>8, <2>11, <4>1
      <4> QED  BY <4>1, <4>2
    <3> QED  BY <3>1, <3>2
  <2> HIDE DEF Reached
  <2>12. \A n \in Nat : n \in Reached
    BY <2>10, <2>11, Induction
  <2>13. Len(ss) \in 1 .. Len(ss)
    BY <1>1, <1>3
  <2> QED  BY <1>1, <2>9, <2>12, <2>13 DEF Reached
<1> QED
  BY <1>2, <1>3

\* What a sequence holds is at its places.
LEMMA Held ==
  ASSUME NEW s, IsSeq(s)
  PROVE  \A x : x \in Range(s) <=> \E i \in 1 .. Len(s) : s[i] = x
<1>1. DOMAIN s = 1 .. Len(s)
  BY SeqFacts
<1> QED  BY <1>1 DEF Range

\* A concatenation holds what both hold.
LEMMA ConcatHolds ==
  ASSUME NEW s, IsSeq(s), NEW t, IsSeq(t)
  PROVE  Range(s \o t) = Range(s) \cup Range(t)
<1>1. /\ IsSeq(s \o t) /\ Len(s \o t) = Len(s) + Len(t)
      /\ \A i \in 1 .. Len(s) : (s \o t)[i] = s[i]
      /\ \A i \in 1 .. Len(t) : (s \o t)[Len(s) + i] = t[i]
  BY SeqConcat
<1>0. Len(s) \in Nat /\ Len(t) \in Nat
  BY SeqFacts
<1>2. ASSUME NEW x, x \in Range(s \o t) PROVE x \in Range(s) \cup Range(t)
  <2>1. PICK p \in 1 .. Len(s \o t) : (s \o t)[p] = x
    BY <1>1, <1>2, Held
  <2>2. \/ p \in 1 .. Len(s) /\ (s \o t)[p] = s[p]
        \/ \E q \in 1 .. Len(t) : p = Len(s) + q /\ (s \o t)[p] = t[q]
    BY PlacesOfConcat
  <2> QED  BY <2>1, <2>2, Held
<1>3. ASSUME NEW x, x \in Range(s) PROVE x \in Range(s \o t)
  <2>1. PICK p \in 1 .. Len(s) : s[p] = x
    BY <1>3, Held
  <2>2. p \in 1 .. Len(s \o t) /\ (s \o t)[p] = x
    BY <1>0, <1>1, <2>1
  <2> QED  BY <1>1, <2>2, Held
<1>4. ASSUME NEW x, x \in Range(t) PROVE x \in Range(s \o t)
  <2>1. PICK q \in 1 .. Len(t) : t[q] = x
    BY <1>4, Held
  <2>2. Len(s) + q \in 1 .. Len(s \o t) /\ (s \o t)[Len(s) + q] = x
    BY <1>0, <1>1, <2>1
  <2> QED  BY <1>1, <2>2, Held
<1> QED  BY <1>2, <1>3, <1>4

\* Sequences one after the other: what the parts hold.
LEMMA FlatHolds ==
  ASSUME NEW ss, IsSeq(ss), \A n \in 1 .. Len(ss) : IsSeq(ss[n])
  PROVE  /\ IsSeq(FlattenSeq(ss))
         /\ Range(FlattenSeq(ss)) = UNION {Range(ss[n]) : n \in 1 .. Len(ss)}
<1> DEFINE UpTo(n) == UNION {Range(ss[m]) : m \in 1 .. n}
           V == [n \in 0 .. Len(ss) |-> {t \in Seq(UpTo(n)) : Range(t) = UpTo(n)}]
<1>1. Len(ss) \in Nat
  BY SeqFacts
<1>2. Range(<<>>) = {}
  BY DEF Range
<1>3. <<>> \in V[0]
  <2>1. UpTo(0) = {}  OBVIOUS
  <2>2. <<>> \in Seq(UpTo(0))  OBVIOUS
  <2> QED  BY <1>1, <1>2, <2>1, <2>2
<1>4. ASSUME NEW n \in 1 .. Len(ss), NEW t \in V[n - 1] PROVE t \o ss[n] \in V[n]
  <2>1. n - 1 \in 0 .. Len(ss) /\ n \in 0 .. Len(ss)
    BY <1>1
  <2>2. UpTo(n) = UpTo(n - 1) \cup Range(ss[n])
    <3>1. 1 .. n = (1 .. n - 1) \cup {n}
      BY <1>1
    <3> QED  BY <3>1
  <2>3. t \in Seq(UpTo(n - 1)) /\ Range(t) = UpTo(n - 1)
    BY <2>1
  <2>4. ss[n] \in Seq(Range(ss[n]))
    BY DEF IsSeq
  <2> HIDE DEF UpTo
  <2>5. t \in Seq(UpTo(n)) /\ ss[n] \in Seq(UpTo(n))
    BY <2>2, <2>3, <2>4
  <2>6. t \o ss[n] \in Seq(UpTo(n))
    BY <2>5
  <2>7. IsSeq(t) /\ IsSeq(ss[n])
    BY <2>5, SeqIn
  <2>8. Range(t \o ss[n]) = UpTo(n)
    BY <2>2, <2>3, <2>7, ConcatHolds
  <2> QED  BY <2>1, <2>6, <2>8
<1>5. FlattenSeq(ss) \in V[Len(ss)]
  <2> HIDE DEF V
  <2> QED  BY <1>3, <1>4, Flattened
<1>6. FlattenSeq(ss) \in Seq(UpTo(Len(ss))) /\ Range(FlattenSeq(ss)) = UpTo(Len(ss))
  BY <1>1, <1>5
<1> HIDE DEF UpTo
<1>7. IsSeq(FlattenSeq(ss))
  BY <1>6, SeqIn
<1> QED
  BY <1>6, <1>7 DEF UpTo

\* A sequence of one item.
LEMMA One ==
  ASSUME NEW x
  PROVE  /\ IsSeq(<<x>>) /\ Len(<<x>>) = 1 /\ <<x>>[1] = x /\ Range(<<x>>) = {x}
         /\ <<>> # <<x>>
<1>1. <<x>> \in Seq({x}) /\ Len(<<x>>) = 1 /\ <<x>>[1] = x /\ <<>> # <<x>>
  OBVIOUS
<1>2. IsSeq(<<x>>)
  BY <1>1, SeqIn
<1>3. \A y : y \in Range(<<x>>) <=> \E i \in 1 .. 1 : <<x>>[i] = y
  BY <1>1, <1>2, Held
<1>4. Range(<<x>>) = {x}
  BY <1>1, <1>3
<1> QED  BY <1>1, <1>2, <1>4

\* The empty sequence holds nothing.
LEMMA NoneHeld == Range(<<>>) = {}
BY DEF Range

\* t holds what s holds at the places up to last, each once and in their order.
Picks(g, t, s, places, last) ==
  /\ g \in [1 .. Len(t) -> Nat]
  /\ \A k \in 1 .. Len(t) : g[k] \in places /\ g[k] \in 1 .. last /\ t[k] = s[g[k]]
  /\ \A n \in 1 .. last : n \in places => \E k \in 1 .. Len(t) : g[k] = n
  /\ \A j, k \in 1 .. Len(t) : j < k => g[j] < g[k]

\* One place more.
LEMMA PicksNext ==
  ASSUME NEW n \in Nat \ {0}, NEW places, NEW s, NEW t, IsSeq(t), NEW g, Picks(g, t, s, places, n - 1),
         NEW u, u = IF n \in places THEN <<s[n]>> ELSE <<>>
  PROVE  IsSeq(t \o u) /\ \E h : Picks(h, t \o u, s, places, n)
<1>1. Len(t) \in Nat
  BY SeqFacts
<1>2. CASE n \notin places
  <2>1. u = <<>> /\ t \in Seq(Range(t))
    BY <1>2 DEF IsSeq
  <2>2. t \o u = t
    BY <2>1
  <2>3. \A m \in 1 .. n : m \in places => m \in 1 .. n - 1
    BY <1>2
  <2>4. Picks(g, t, s, places, n)
    BY <2>3 DEF Picks
  <2> QED  BY <2>2, <2>4
<1>3. CASE n \in places
  <2>1. u = <<s[n]>> /\ IsSeq(u) /\ Len(u) = 1 /\ u[1] = s[n]
    BY <1>3, One
  <2> DEFINE w == t \o u
             h == [k \in 1 .. Len(t) + 1 |-> IF k = Len(t) + 1 THEN n ELSE g[k]]
  <2>2. /\ IsSeq(w) /\ Len(w) = Len(t) + 1 /\ w[Len(t) + 1] = s[n]
        /\ \A k \in 1 .. Len(t) : w[k] = t[k]
    BY <2>1, SeqConcat, 1 \in 1 .. 1
  <2>3. /\ \A k \in 1 .. Len(t) : h[k] = g[k] /\ g[k] \in Nat
        /\ h[Len(t) + 1] = n
        /\ h \in [1 .. Len(t) + 1 -> Nat]
    <3>1. \A k \in 1 .. Len(t) : k \in 1 .. Len(t) + 1 /\ k # Len(t) + 1 /\ g[k] \in Nat
      BY <1>1 DEF Picks
    <3>2. Len(t) + 1 \in 1 .. Len(t) + 1
      BY <1>1
    <3>3. \A k \in 1 .. Len(t) + 1 : k # Len(t) + 1 => k \in 1 .. Len(t)
      BY <1>1
    <3> QED  BY <3>1, <3>2, <3>3
  <2> HIDE DEF w, h
  <2>4. \A k \in 1 .. Len(w) : k \in 1 .. Len(t) \/ k = Len(t) + 1
    BY <1>1, <2>2
  <2>5. ASSUME NEW k \in 1 .. Len(w) PROVE h[k] \in places /\ h[k] \in 1 .. n /\ w[k] = s[h[k]]
    <3>1. CASE k = Len(t) + 1
      BY <1>3, <2>2, <2>3, <3>1
    <3>2. CASE k \in 1 .. Len(t)
      <4>1. g[k] \in places /\ g[k] \in 1 .. n - 1 /\ t[k] = s[g[k]]
        BY <3>2 DEF Picks
      <4> QED  BY <2>2, <2>3, <3>2, <4>1
    <3> QED  BY <2>4, <3>1, <3>2
  <2>6. ASSUME NEW m \in 1 .. n, m \in places PROVE \E k \in 1 .. Len(w) : h[k] = m
    <3>1. CASE m = n
      BY <1>1, <2>2, <2>3, <3>1
    <3>2. CASE m # n
      <4>1. PICK k \in 1 .. Len(t) : g[k] = m
        BY <2>6, <3>2 DEF Picks
      <4> QED  BY <1>1, <2>2, <2>3, <4>1
    <3> QED  BY <3>1, <3>2
  <2>7. ASSUME NEW j \in 1 .. Len(w), NEW k \in 1 .. Len(w), j < k PROVE h[j] < h[k]
    <3>1. j \in 1 .. Len(t) /\ g[j] \in 1 .. n - 1 /\ h[j] = g[j]
      BY <1>1, <2>2, <2>3, <2>7 DEF Picks
    <3>2. CASE k = Len(t) + 1
      BY <2>3, <3>1, <3>2
    <3>3. CASE k \in 1 .. Len(t)
      BY <2>3, <2>7, <3>1, <3>3 DEF Picks
    <3> QED  BY <2>4, <3>2, <3>3
  <2>8. Picks(h, w, s, places, n)
    BY <2>2, <2>3, <2>5, <2>6, <2>7 DEF Picks
  <2> QED  BY <2>2, <2>8 DEF w
<1> QED  BY <1>2, <1>3

\* Pick: the places asked for, each once and in their order.
LEMMA Picked ==
  ASSUME NEW s, IsSeq(s), NEW places
  PROVE  IsSeq(Pick(s, places)) /\ \E g : Picks(g, Pick(s, places), s, places, Len(s))
<1> DEFINE ss == [n \in DOMAIN s |-> IF n \in places THEN <<s[n]>> ELSE <<>>]
           T == Range(s)
           V == [n \in 0 .. Len(s) |-> {t \in Seq(T) : \E g : Picks(g, t, s, places, n)}]
<1>1. Len(s) \in Nat /\ DOMAIN s = 1 .. Len(s) /\ s \in Seq(T)
  BY SeqFacts DEF IsSeq
<1>2. IsSeq(ss) /\ Len(ss) = Len(s) /\ \A n \in 1 .. Len(s) : ss[n] = IF n \in places THEN <<s[n]>> ELSE <<>>
  <2>1. ss = [n \in 1 .. Len(s) |-> ss[n]] /\ \A n \in 1 .. Len(s) : ss[n] = IF n \in places THEN <<s[n]>> ELSE <<>>
    BY <1>1
  <2> HIDE DEF ss
  <2> QED  BY <1>1, <2>1, SeqFrom
<1>3. \A n \in 1 .. Len(s) : ss[n] \in Seq(T) /\ IsSeq(ss[n])
  <2> SUFFICES ASSUME NEW n \in 1 .. Len(s) PROVE ss[n] \in Seq(T) /\ IsSeq(ss[n])
    OBVIOUS
  <2>1. s[n] \in T
    BY <1>1
  <2> HIDE DEF T, ss
  <2>2. <<s[n]>> \in Seq(T) /\ <<>> \in Seq(T)
    BY <2>1
  <2>3. ss[n] \in Seq(T)
    BY <1>2, <2>2
  <2> QED  BY <2>3, SeqIn
<1>4. <<>> \in V[0]
  <2> DEFINE g == [k \in 1 .. Len(<<>>) |-> 0]
  <2>1. Picks(g, <<>>, s, places, 0)
    BY NoPlaces DEF Picks
  <2> HIDE DEF g
  <2>2. <<>> \in Seq(T)
    OBVIOUS
  <2>3. 0 \in 0 .. Len(s)
    BY <1>1
  <2> QED  BY <2>1, <2>2, <2>3
<1>5. ASSUME NEW n \in 1 .. Len(s), NEW t \in V[n - 1] PROVE t \o ss[n] \in V[n]
  <2>1. n \in Nat \ {0} /\ n - 1 \in 0 .. Len(s) /\ n \in 0 .. Len(s)
    BY <1>1
  <2>2. t \in Seq(T) /\ \E g : Picks(g, t, s, places, n - 1)
    BY <2>1
  <2>3. ss[n] = IF n \in places THEN <<s[n]>> ELSE <<>>
    BY <1>2
  <2>4. IsSeq(t)
    BY <2>2, SeqIn
  <2> HIDE DEF ss, T
  <2>5. \E h : Picks(h, t \o ss[n], s, places, n)
    BY <2>1, <2>2, <2>3, <2>4, PicksNext
  <2>6. t \o ss[n] \in Seq(T)
    BY <1>3, <2>2
  <2> QED  BY <2>1, <2>5, <2>6
<1>6. FlattenSeq(ss) \in V[Len(ss)]
  <2> HIDE DEF V, ss
  <2> QED  BY <1>2, <1>3, <1>4, <1>5, Flattened
<1>7. Pick(s, places) = FlattenSeq(ss)
  BY DEF Pick
<1> HIDE DEF ss
<1>8. FlattenSeq(ss) \in Seq(T) /\ \E g : Picks(g, FlattenSeq(ss), s, places, Len(s))
  <2>1. Len(ss) \in 0 .. Len(s)
    BY <1>1, <1>2
  <2> QED  BY <1>2, <1>6, <2>1
<1> HIDE DEF T
<1>9. IsSeq(FlattenSeq(ss))
  BY <1>8, SeqIn
<1> QED  BY <1>7, <1>8, <1>9

\* Keep: what is in the set and nothing else.
LEMMA Kept ==
  ASSUME NEW s, IsSeq(s), NEW S
  PROVE  IsSeq(Keep(s, S)) /\ Range(Keep(s, S)) = Range(s) \cap S
<1> DEFINE places == {n \in DOMAIN s : s[n] \in S}
           t == Pick(s, places)
<1>1. Len(s) \in Nat /\ DOMAIN s = 1 .. Len(s)
  BY SeqFacts
<1>2. IsSeq(t) /\ \E g : Picks(g, t, s, places, Len(s))
  BY Picked
<1>3. PICK g : Picks(g, t, s, places, Len(s))
  BY <1>2
<1>4. Keep(s, S) = t
  BY DEF Keep
<1>5. \A n : n \in places <=> n \in 1 .. Len(s) /\ s[n] \in S
  BY <1>1
<1> HIDE DEF t, places
<1>6. ASSUME NEW x, x \in Range(t) PROVE x \in Range(s) \cap S
  <2>1. PICK k \in 1 .. Len(t) : t[k] = x
    BY <1>2, <1>6, Held
  <2>2. g[k] \in places /\ x = s[g[k]]
    BY <1>3, <2>1 DEF Picks
  <2> QED  BY <1>5, <2>2, Held
<1>7. ASSUME NEW x, x \in Range(s) \cap S PROVE x \in Range(t)
  <2>1. PICK n \in 1 .. Len(s) : s[n] = x
    BY <1>7, Held
  <2>2. PICK k \in 1 .. Len(t) : g[k] = n
    BY <1>3, <1>5, <1>7, <2>1 DEF Picks
  <2>3. t[k] = x
    BY <1>3, <2>1, <2>2 DEF Picks
  <2> QED  BY <1>2, <2>3, Held
<1> QED  BY <1>2, <1>4, <1>6, <1>7

\* t holds one item of s for every key that s has.
TakesFirsts(g, t, s, keys) ==
  /\ g \in [1 .. Len(t) -> 1 .. Len(s)]
  /\ \A k \in 1 .. Len(t) : t[k] = s[g[k]]
  /\ \A j, k \in 1 .. Len(t) : j # k => keys[g[j]] # keys[g[k]]
  /\ \A n \in 1 .. Len(s) : \E k \in 1 .. Len(t) : keys[g[k]] = keys[n]

\* Firsts: for every key the first item that has it, and no other.
LEMMA FirstsTaken ==
  ASSUME NEW s, IsSeq(s), NEW keys
  PROVE  IsSeq(Firsts(s, keys)) /\ \E g : TakesFirsts(g, Firsts(s, keys), s, keys)
<1> DEFINE places == {n \in DOMAIN s : \A m \in 1 .. n - 1 : keys[m] # keys[n]}
           t == Pick(s, places)
<1>1. Len(s) \in Nat /\ DOMAIN s = 1 .. Len(s)
  BY SeqFacts
<1>2. IsSeq(t) /\ \E g : Picks(g, t, s, places, Len(s))
  BY Picked
<1>3. PICK g : Picks(g, t, s, places, Len(s))
  BY <1>2
<1>4. Firsts(s, keys) = t
  BY DEF Firsts
<1>5. \A n : n \in places <=> n \in 1 .. Len(s) /\ \A m \in 1 .. n - 1 : keys[m] # keys[n]
  BY <1>1
<1> HIDE DEF t, places
<1>6. Len(t) \in Nat
  BY <1>2, SeqFacts
<1>7. g \in [1 .. Len(t) -> 1 .. Len(s)] /\ \A k \in 1 .. Len(t) : t[k] = s[g[k]]
  BY <1>3 DEF Picks
<1>8. ASSUME NEW j \in 1 .. Len(t), NEW k \in 1 .. Len(t), j < k PROVE keys[g[j]] # keys[g[k]]
  <2>1. g[j] < g[k] /\ g[j] \in 1 .. Len(s) /\ g[k] \in 1 .. Len(s) /\ g[k] \in places
    BY <1>3, <1>8 DEF Picks
  <2>2. g[j] \in 1 .. g[k] - 1
    BY <1>1, <2>1
  <2> QED  BY <1>5, <2>1, <2>2
<1>9. ASSUME NEW j \in 1 .. Len(t), NEW k \in 1 .. Len(t), j # k PROVE keys[g[j]] # keys[g[k]]
  <2>1. j < k \/ k < j
    BY <1>6, <1>9
  <2> QED  BY <1>8, <2>1
<1>10. ASSUME NEW n \in 1 .. Len(s) PROVE \E k \in 1 .. Len(t) : keys[g[k]] = keys[n]
  <2> DEFINE Same == {m \in 1 .. Len(s) : keys[m] = keys[n]}
             least == Min(Same)
  <2>1. least \in Same /\ \A m \in Same : least <= m
    <3>1. Same \in SUBSET Nat /\ Same # {}
      BY <1>1
    <3> HIDE DEF Same
    <3> QED  BY <3>1, LeastMember
  <2> HIDE DEF least
  <2>2. \A m \in 1 .. least - 1 : keys[m] # keys[least]
    <3> SUFFICES ASSUME NEW m \in 1 .. least - 1, keys[m] = keys[least] PROVE FALSE
      OBVIOUS
    <3>1. m \in 1 .. Len(s) /\ ~(least <= m)
      BY <1>1, <2>1
    <3>2. m \in Same
      BY <2>1, <3>1
    <3> QED  BY <2>1, <3>1, <3>2
  <2>3. least \in places /\ least \in 1 .. Len(s)
    BY <1>5, <2>1, <2>2
  <2>4. PICK k \in 1 .. Len(t) : g[k] = least
    BY <1>3, <2>3 DEF Picks
  <2> QED  BY <2>1, <2>4
<1>11. TakesFirsts(g, t, s, keys)
  BY <1>7, <1>9, <1>10 DEF TakesFirsts
<1> QED  BY <1>2, <1>4, <1>11

\* A sequence of sequences holds, one after the other, what each of them holds: every
\* place of the whole is a place of one part, and no two are the same.
Located(at, t, ss, last) ==
  /\ at \in [1 .. Len(t) -> Nat \X Nat]
  /\ \A p \in 1 .. Len(t) : /\ at[p][1] \in 1 .. last /\ at[p][2] \in 1 .. Len(ss[at[p][1]])
                            /\ t[p] = ss[at[p][1]][at[p][2]]
  /\ \A p, q \in 1 .. Len(t) : p # q => at[p] # at[q]

\* One part more.
LEMMA LocatedNext ==
  ASSUME NEW n \in Nat \ {0}, NEW ss, IsSeq(ss[n]), NEW t, IsSeq(t), NEW at, Located(at, t, ss, n - 1)
  PROVE  \E to : Located(to, t \o ss[n], ss, n)
<1> DEFINE u == ss[n]
           w == t \o u
           to == [p \in 1 .. Len(w) |-> IF p \in 1 .. Len(t) THEN at[p] ELSE <<n, p - Len(t)>>]
<1>1. Len(t) \in Nat /\ Len(u) \in Nat
  BY SeqFacts
<1>2. /\ Len(w) = Len(t) + Len(u)
      /\ \A i \in 1 .. Len(t) : w[i] = t[i]
      /\ \A i \in 1 .. Len(u) : w[Len(t) + i] = u[i]
  BY SeqConcat
<1>3. \A p \in 1 .. Len(w) : p \in 1 .. Len(t) => to[p] = at[p]
  OBVIOUS
<1>4. \A p \in 1 .. Len(w) : p \notin 1 .. Len(t) => to[p] = <<n, p - Len(t)>>
  OBVIOUS
<1>5. to = [p \in 1 .. Len(w) |-> to[p]]
  OBVIOUS
<1>6. u = ss[n]
  OBVIOUS
<1> HIDE DEF u, w, to
<1>7. \A p \in 1 .. Len(w) : p \notin 1 .. Len(t) => p - Len(t) \in 1 .. Len(u) /\ Len(t) + (p - Len(t)) = p
  BY <1>1, <1>2
<1>8. \A p \in 1 .. Len(t) : /\ at[p] \in Nat \X Nat /\ at[p][1] \in 1 .. n - 1 /\ at[p][2] \in 1 .. Len(ss[at[p][1]])
                             /\ t[p] = ss[at[p][1]][at[p][2]]
  BY DEF Located
<1>9. ASSUME NEW p \in 1 .. Len(w)
      PROVE  /\ to[p] \in Nat \X Nat /\ to[p][1] \in 1 .. n /\ to[p][2] \in 1 .. Len(ss[to[p][1]])
             /\ w[p] = ss[to[p][1]][to[p][2]]
  <2>1. CASE p \in 1 .. Len(t)
    <3>1. at[p][1] \in 1 .. n
      BY <1>8, <2>1
    <3> QED  BY <1>2, <1>3, <1>8, <2>1, <3>1
  <2>2. CASE p \notin 1 .. Len(t)
    <3>1. to[p] = <<n, p - Len(t)>> /\ p - Len(t) \in 1 .. Len(u) /\ p - Len(t) \in Nat /\ n \in 1 .. n
      BY <1>1, <1>4, <1>7, <2>2
    <3>2. to[p][1] = n /\ to[p][2] = p - Len(t) /\ to[p] \in Nat \X Nat
      BY <3>1
    <3>3. w[p] = u[p - Len(t)]
      BY <1>2, <1>7, <2>2
    <3> QED  BY <1>6, <3>1, <3>2, <3>3
  <2> QED  BY <2>1, <2>2
<1>10. ASSUME NEW p \in 1 .. Len(w), NEW q \in 1 .. Len(w), p # q PROVE to[p] # to[q]
  <2>1. CASE p \in 1 .. Len(t) /\ q \in 1 .. Len(t)
    <3>1. at[p] # at[q]
      BY <1>10, <2>1 DEF Located
    <3> QED  BY <1>3, <2>1, <3>1
  <2>2. CASE p \notin 1 .. Len(t) /\ q \notin 1 .. Len(t)
    <3>1. to[p][2] = p - Len(t) /\ to[q][2] = q - Len(t)
      BY <1>4, <2>2
    <3>2. p - Len(t) # q - Len(t)
      BY <1>1, <1>10
    <3> QED  BY <3>1, <3>2
  <2>3. CASE p \in 1 .. Len(t) /\ q \notin 1 .. Len(t)
    <3>1. to[p][1] \in 1 .. n - 1 /\ to[q][1] = n
      BY <1>3, <1>4, <1>8, <2>3
    <3>2. n \notin 1 .. n - 1
      OBVIOUS
    <3> QED  BY <3>1, <3>2
  <2>4. CASE p \notin 1 .. Len(t) /\ q \in 1 .. Len(t)
    <3>1. to[q][1] \in 1 .. n - 1 /\ to[p][1] = n
      BY <1>3, <1>4, <1>8, <2>4
    <3>2. n \notin 1 .. n - 1
      OBVIOUS
    <3> QED  BY <3>1, <3>2
  <2> QED  BY <2>1, <2>2, <2>3, <2>4
<1>11. to \in [1 .. Len(w) -> Nat \X Nat]
  BY <1>5, <1>9
<1>12. Located(to, w, ss, n)
  BY <1>9, <1>10, <1>11 DEF Located
<1> QED  BY <1>12 DEF w, u

\* Where the items of a flattened sequence come from.
LEMMA FlatLocated ==
  ASSUME NEW ss, IsSeq(ss), \A n \in 1 .. Len(ss) : IsSeq(ss[n])
  PROVE  \E at : Located(at, FlattenSeq(ss), ss, Len(ss))
<1> DEFINE T == UNION {Range(ss[m]) : m \in 1 .. Len(ss)}
           V == [n \in 0 .. Len(ss) |-> {t \in Seq(T) : \E at : Located(at, t, ss, n)}]
<1>1. Len(ss) \in Nat
  BY SeqFacts
<1>2. <<>> \in V[0]
  <2> DEFINE at == [p \in 1 .. Len(<<>>) |-> <<0, 0>>]
  <2>1. Located(at, <<>>, ss, 0)
    BY NoPlaces DEF Located
  <2> HIDE DEF at
  <2>2. <<>> \in Seq(T) /\ 0 \in 0 .. Len(ss)
    BY <1>1
  <2> QED  BY <2>1, <2>2
<1>3. \A n \in 1 .. Len(ss) : ss[n] \in Seq(T)
  <2> SUFFICES ASSUME NEW n \in 1 .. Len(ss) PROVE ss[n] \in Seq(T)
    OBVIOUS
  <2>1. ss[n] \in Seq(Range(ss[n])) /\ Range(ss[n]) \subseteq T
    BY DEF IsSeq
  <2> HIDE DEF T
  <2> QED  BY <2>1
<1>4. ASSUME NEW n \in 1 .. Len(ss), NEW t \in V[n - 1] PROVE t \o ss[n] \in V[n]
  <2>1. n \in Nat \ {0} /\ n - 1 \in 0 .. Len(ss) /\ n \in 0 .. Len(ss)
    BY <1>1
  <2>2. t \in Seq(T) /\ \E at : Located(at, t, ss, n - 1)
    BY <2>1
  <2> HIDE DEF T
  <2>3. IsSeq(t)
    BY <2>2, SeqIn
  <2>4. \E to : Located(to, t \o ss[n], ss, n)
    BY <2>1, <2>2, <2>3, LocatedNext
  <2>5. t \o ss[n] \in Seq(T)
    BY <1>3, <2>2
  <2> QED  BY <2>1, <2>4, <2>5
<1>5. FlattenSeq(ss) \in V[Len(ss)]
  <2> HIDE DEF V
  <2> QED  BY <1>2, <1>4, Flattened
<1> QED  BY <1>1, <1>5

\* Sequences of one item each, one after the other.
LEMMA FlatSingles ==
  ASSUME NEW ss, IsSeq(ss), \A n \in 1 .. Len(ss) : IsSeq(ss[n]) /\ Len(ss[n]) = 1
  PROVE  /\ IsSeq(FlattenSeq(ss)) /\ Len(FlattenSeq(ss)) = Len(ss)
         /\ \A n \in 1 .. Len(ss) : FlattenSeq(ss)[n] = ss[n][1]
<1> DEFINE T == UNION {Range(ss[m]) : m \in 1 .. Len(ss)}
           V == [n \in 0 .. Len(ss) |-> {t \in Seq(T) : Len(t) = n /\ \A m \in 1 .. n : t[m] = ss[m][1]}]
<1>1. Len(ss) \in Nat
  BY SeqFacts
<1>2. <<>> \in V[0]
  <2>1. <<>> \in Seq(T) /\ 0 \in 0 .. Len(ss) /\ Len(<<>>) = 0
    BY <1>1
  <2> QED  BY <2>1
<1>3. \A n \in 1 .. Len(ss) : ss[n] \in Seq(T)
  <2> SUFFICES ASSUME NEW n \in 1 .. Len(ss) PROVE ss[n] \in Seq(T)
    OBVIOUS
  <2>1. ss[n] \in Seq(Range(ss[n])) /\ Range(ss[n]) \subseteq T
    BY DEF IsSeq
  <2> HIDE DEF T
  <2> QED  BY <2>1
<1>4. ASSUME NEW n \in 1 .. Len(ss), NEW t \in V[n - 1] PROVE t \o ss[n] \in V[n]
  <2>1. n \in Nat \ {0} /\ n - 1 \in 0 .. Len(ss) /\ n \in 0 .. Len(ss)
    BY <1>1
  <2>2. t \in Seq(T) /\ Len(t) = n - 1 /\ \A m \in 1 .. n - 1 : t[m] = ss[m][1]
    BY <2>1
  <2> HIDE DEF T, V
  <2>3. IsSeq(t)
    BY <2>2, SeqIn
  <2>4. t \o ss[n] \in Seq(T)
    BY <1>3, <2>2
  <2> DEFINE w == t \o ss[n]
  <2>5. /\ Len(w) = (n - 1) + 1
        /\ \A i \in 1 .. n - 1 : w[i] = t[i]
        /\ \A i \in 1 .. 1 : w[(n - 1) + i] = ss[n][i]
    <3>1. IsSeq(ss[n]) /\ Len(ss[n]) = 1 /\ Len(t) = n - 1
      BY <2>2
    <3>2. /\ Len(w) = Len(t) + Len(ss[n])
          /\ \A i \in 1 .. Len(t) : w[i] = t[i]
          /\ \A i \in 1 .. Len(ss[n]) : w[Len(t) + i] = ss[n][i]
      <4> HIDE DEF w
      <4>1. /\ Len(t \o ss[n]) = Len(t) + Len(ss[n])
            /\ \A i \in 1 .. Len(t) : (t \o ss[n])[i] = t[i]
            /\ \A i \in 1 .. Len(ss[n]) : (t \o ss[n])[Len(t) + i] = ss[n][i]
        <5>1. IsSeq(ss[n])
          BY <3>1
        <5> QED  BY <2>3, <5>1, SeqConcat
      <4> QED  BY <4>1 DEF w
    <3> QED  BY <3>1, <3>2
  <2> HIDE DEF w
  <2>6. Len(w) = n /\ w[n] = ss[n][1]
    <3>1. 1 \in 1 .. 1 /\ (n - 1) + 1 = n
      BY <2>1
    <3> QED  BY <2>5, <3>1
  <2>7. ASSUME NEW m \in 1 .. n PROVE w[m] = ss[m][1]
    <3>1. CASE m = n
      BY <2>6, <3>1
    <3>2. CASE m # n
      <4>1. m \in 1 .. n - 1
        BY <2>1, <3>2
      <4> QED  BY <2>2, <2>5, <4>1
    <3> QED  BY <3>1, <3>2
  <2>8. w \in Seq(T)
    BY <2>4 DEF w
  <2> QED  BY <2>1, <2>6, <2>7, <2>8 DEF V, w
<1>5. FlattenSeq(ss) \in V[Len(ss)]
  <2> HIDE DEF V
  <2> QED  BY <1>2, <1>4, Flattened
<1>6. /\ FlattenSeq(ss) \in Seq(T) /\ Len(FlattenSeq(ss)) = Len(ss)
      /\ \A m \in 1 .. Len(ss) : FlattenSeq(ss)[m] = ss[m][1]
  BY <1>1, <1>5
<1> HIDE DEF T
<1>7. IsSeq(FlattenSeq(ss))
  BY <1>6, SeqIn
<1> QED  BY <1>6, <1>7

\* A set of which every member is told by a member of a finite set has no more members.
LEMMA ToldApart ==
  ASSUME NEW O, NEW F, IsFiniteSet(F), NEW R,
         \A o \in O : \E f \in F : <<o, f>> \in R,
         \A f \in F : \A o, p \in O : <<o, f>> \in R /\ <<p, f>> \in R => o = p
  PROVE  Cardinality(F) >= Cardinality(O)
<1> DEFINE m == [o \in O |-> CHOOSE f \in F : <<o, f>> \in R]
<1>1. \A o \in O : m[o] \in F /\ <<o, m[o]>> \in R
  OBVIOUS
<1>2. m \in [O -> F]
  BY <1>1
<1> HIDE DEF m
<1>3. \A o, p \in O : m[o] = m[p] => o = p
  BY <1>1
<1>4. m \in Injection(O, F)
  BY <1>2, <1>3 DEF Injection, IsInjective
<1>5. IsFiniteSet(O) /\ Cardinality(O) <= Cardinality(F)
  BY <1>4, FS_Injection
<1>6. Cardinality(O) \in Nat /\ Cardinality(F) \in Nat
  BY <1>5, FS_CardinalityType
<1> QED  BY <1>5, <1>6

-----------------------------------------------------------------------------
(* A scrape.                                                               *)

Sections == DOMAIN Sites[source]

\* The item is among the rows of its section; of hot, an item with its id is among all.
Taken(c, i) ==
  IF source = "hot" THEN i.id = None \/ \E b \in Sections : \E j \in Range(rows[b]) : j.id = i.id
  ELSE i \in Range(rows[c])

RowsTypeOK ==
  /\ page \in [Sections -> Nat] /\ broken \subseteq Sections
  /\ IsSeq(rows) /\ Len(rows) = Len(Sites[source])
  /\ \A c \in Sections : IsSeq(rows[c]) /\ Range(rows[c]) \subseteq Range(FlattenSeq(Sites[source][c]))

\* Every page before the next has been taken, and every page of a section that ended
\* without a failure.
PagesAreTaken ==
  \A c \in Sections : \A n \in DOMAIN Sites[source][c] :
    n < page[c] \/ (page[c] = 0 /\ c \notin broken) => \A i \in Range(Sites[source][c][n]) : Taken(c, i)

SectionsEnd ==
  /\ phase \in {"details", "done"} => \A c \in Sections \ broken : page[c] = 0
  /\ ~Paged(source) /\ phase \in {"listing", "details"} =>
       \A c \in Sections : page[c] = 0 /\ rows[c] = FlattenSeq(Sites[source][c])

\* The ids hot has seen are those of its rows, and no two rows have one id.
RowsAreSeen ==
  source = "hot" =>
    /\ \A c \in Sections : \A k \in DOMAIN rows[c] : rows[c][k].id \in seen \ {None}
    /\ \A id \in seen : \E c \in Sections : \E j \in Range(rows[c]) : j.id = id
    /\ \A b, c \in Sections : \A j \in DOMAIN rows[b] : \A k \in DOMAIN rows[c] :
         rows[b][j].id = rows[c][k].id => b = c /\ j = k

\* The sources whose listing comes with the opening list all of it.
AllListed == ~Paged(source) => \A c \in Sections : rows[c] = FlattenSeq(Sites[source][c])

DealsMade == FlattenSeq([k \in DOMAIN items |-> DealsOf(items[k], Outcome(k))])
StoresMade ==
  LET all == FlattenSeq([k \in DOMAIN items |-> StoresOf(items[k], Outcome(k))])
  IN IF source = "teamim" THEN all ELSE OneOfEach(all)

\* The records are made of the listing, or of nothing when the scrape ended before it.
RecordsAreMade ==
  /\ phase \in {"opening", "listing"} => items = <<>>
  /\ phase # "done" => deals = <<>> /\ stores = <<>>
  /\ phase = "details" => items = Gathered /\ detail = [k \in DOMAIN items |-> detail[k]]
  /\ phase = "done" => \/ items = <<>> /\ deals = <<>> /\ stores = <<>> /\ broken = Sections
                       \/ items = Gathered /\ deals = DealsMade /\ stores = StoresMade /\ AllListed

\* A detail is asked for by its key, of a chit whatever its key is.
DetailsHaveKeys ==
  \A k \in DOMAIN detail :
    /\ detail[k] \in {"due", "ok"} => source \in Cashcards \/ DetailKey(source, items[k]) # None
    /\ detail[k] = "bare" => source \in Cashcards

ScrapeInv ==
  /\ source \in Sources
  /\ phase \in {"opening", "listing", "details", "done"}
  /\ source # "swish" =>
       RowsTypeOK /\ PagesAreTaken /\ SectionsEnd /\ RowsAreSeen /\ RecordsAreMade /\ DetailsHaveKeys

\* What is raised ends the scrape with nothing, and it was an opening or an answer.
RaisedForAReason ==
  source # "swish" /\ error # None =>
    phase = "done" /\ deals = <<>> /\ stores = <<>> /\ (spoilt \/ opened < Openings(source))

-----------------------------------------------------------------------------
\* A site is a list of sections, each a list of pages, each a list of items.
LEMMA SiteFacts ==
  ASSUME NEW s \in Sources
  PROVE  /\ IsSeq(Sites[s]) /\ Len(Sites[s]) \in Nat /\ DOMAIN Sites[s] = 1 .. Len(Sites[s])
         /\ \A c \in DOMAIN Sites[s] :
              /\ IsSeq(Sites[s][c]) /\ Len(Sites[s][c]) \in Nat /\ DOMAIN Sites[s][c] = 1 .. Len(Sites[s][c])
              /\ \A n \in DOMAIN Sites[s][c] : IsSeq(Sites[s][c][n])
              /\ IsSeq(FlattenSeq(Sites[s][c]))
              /\ Range(FlattenSeq(Sites[s][c])) = UNION {Range(Sites[s][c][n]) : n \in DOMAIN Sites[s][c]}
<1>1. IsSeq(Sites[s]) /\ \A c \in DOMAIN Sites[s] : IsSeq(Sites[s][c]) /\ \A n \in DOMAIN Sites[s][c] : IsSeq(Sites[s][c][n])
  BY SitesAssumption
<1>2. Len(Sites[s]) \in Nat /\ DOMAIN Sites[s] = 1 .. Len(Sites[s])
  BY <1>1, SeqFacts
<1>3. ASSUME NEW c \in DOMAIN Sites[s]
      PROVE  /\ Len(Sites[s][c]) \in Nat /\ DOMAIN Sites[s][c] = 1 .. Len(Sites[s][c])
             /\ IsSeq(FlattenSeq(Sites[s][c]))
             /\ Range(FlattenSeq(Sites[s][c])) = UNION {Range(Sites[s][c][n]) : n \in DOMAIN Sites[s][c]}
  <2> DEFINE ss == Sites[s][c]
  <2>1. IsSeq(ss) /\ \A n \in DOMAIN ss : IsSeq(ss[n])
    BY <1>1
  <2> HIDE DEF ss
  <2>2. Len(ss) \in Nat /\ DOMAIN ss = 1 .. Len(ss)
    BY <2>1, SeqFacts
  <2>3. /\ IsSeq(FlattenSeq(ss))
        /\ Range(FlattenSeq(ss)) = UNION {Range(ss[n]) : n \in 1 .. Len(ss)}
    BY <2>1, <2>2, FlatHolds
  <2> QED  BY <2>2, <2>3 DEF ss
<1> QED  BY <1>1, <1>2, <1>3

\* Unseen: of hot one item for each id that is new, of the other sources all.
LEMMA UnseenItems ==
  ASSUME NEW p, IsSeq(p)
  PROVE  /\ IsSeq(Unseen(p)) /\ Range(Unseen(p)) \subseteq Range(p)
         /\ source # "hot" => Unseen(p) = p
         /\ source = "hot" =>
              /\ \A k \in 1 .. Len(Unseen(p)) : Unseen(p)[k].id \notin seen \cup {None}
              /\ \A j, k \in 1 .. Len(Unseen(p)) : Unseen(p)[j].id = Unseen(p)[k].id => j = k
              /\ \A i \in Range(p) : i.id \notin seen \cup {None} => \E j \in Range(Unseen(p)) : j.id = i.id
<1>1. CASE source # "hot"
  <2>1. Unseen(p) = p
    BY <1>1 DEF Unseen
  <2> QED  BY <1>1, <2>1
<1>2. CASE source = "hot"
  <2> DEFINE fresh == {i \in Range(p) : i.id \notin seen \cup {None}}
             new == Keep(p, fresh)
             keys == [k \in DOMAIN new |-> new[k].id]
             u == Firsts(new, keys)
  <2>1. IsSeq(new) /\ Range(new) = Range(p) \cap fresh
    BY Kept
  <2>2. Unseen(p) = u
    BY <1>2 DEF Unseen
  <2>3. \A i \in Range(new) : i \in Range(p) /\ i.id \notin seen \cup {None}
    BY <2>1
  <2>4. \A i \in Range(p) : i.id \notin seen \cup {None} => i \in Range(new)
    BY <2>1
  <2>5. DOMAIN new = 1 .. Len(new) /\ \A k \in DOMAIN new : keys[k] = new[k].id
    BY <2>1, SeqFacts
  <2> HIDE DEF fresh, new, keys
  <2> HIDE DEF u
  <2>6. IsSeq(u) /\ \E g : TakesFirsts(g, u, new, keys)
    <3>1. IsSeq(new)
      BY <2>1
    <3> QED  BY <3>1, FirstsTaken DEF u
  <2>7. PICK g : TakesFirsts(g, u, new, keys)
    BY <2>6
  <2>8. \A k \in 1 .. Len(u) : u[k] \in Range(new) /\ u[k].id = keys[g[k]]
    <3>1. \A k \in 1 .. Len(u) : g[k] \in 1 .. Len(new) /\ u[k] = new[g[k]]
      BY <2>7 DEF TakesFirsts
    <3> QED  BY <2>1, <2>5, <3>1, Held
  <2>9. \A i \in Range(u) : i \in Range(new)
    BY <2>6, <2>8, Held
  <2>10. ASSUME NEW i \in Range(p), i.id \notin seen \cup {None} PROVE \E j \in Range(u) : j.id = i.id
    <3>1. PICK n \in 1 .. Len(new) : new[n] = i
      BY <2>1, <2>4, <2>10, Held
    <3>2. PICK k \in 1 .. Len(u) : keys[g[k]] = keys[n]
      BY <2>7 DEF TakesFirsts
    <3>3. u[k].id = i.id /\ u[k] \in Range(u)
      BY <2>5, <2>6, <2>8, <3>1, <3>2, Held
    <3> QED  BY <3>3
  <2>11. ASSUME NEW j \in 1 .. Len(u), NEW k \in 1 .. Len(u), u[j].id = u[k].id PROVE j = k
    <3>1. u[j].id = keys[g[j]] /\ u[k].id = keys[g[k]]
      BY <2>8
    <3>2. j # k => keys[g[j]] # keys[g[k]]
      BY <2>7, Zenon DEF TakesFirsts
    <3> QED  BY <2>11, <3>1, <3>2
  <2>12. Range(u) \subseteq Range(p) /\ \A k \in 1 .. Len(u) : u[k].id \notin seen \cup {None}
    BY <2>3, <2>8, <2>9
  <2> QED  BY <1>2, <2>2, <2>6, <2>10, <2>11, <2>12
<1> QED  BY <1>1, <1>2

-----------------------------------------------------------------------------
\* A scrape begins with empty rows of the sections of its source.
LEMMA ScrapeInvInit == Init => ScrapeInv
<1> SUFFICES ASSUME Init PROVE ScrapeInv
  OBVIOUS
<1>1. /\ source \in Sources /\ phase = "opening" /\ seen = {} /\ items = <<>> /\ detail = <<>>
      /\ stores = <<>> /\ deals = <<>> /\ broken = {}
      /\ page = [c \in Sections |-> 1] /\ rows = [c \in Sections |-> <<>>]
  BY DEF Init, Sections
<1>2. Len(Sites[source]) \in Nat /\ Sections = 1 .. Len(Sites[source])
  BY <1>1, SiteFacts DEF Sections
<1>3. IsSeq(rows) /\ Len(rows) = Len(Sites[source])
  <2>1. rows = [c \in 1 .. Len(Sites[source]) |-> rows[c]]
    BY <1>1, <1>2
  <2> QED  BY <1>2, <2>1, SeqFrom
<1>4. RowsTypeOK
  BY <1>1, <1>3, NoPlaces, NoneHeld DEF RowsTypeOK
<1>5. PagesAreTaken
  <2> SUFFICES ASSUME NEW c \in Sections, NEW n \in DOMAIN Sites[source][c], n < 1 PROVE FALSE
    BY <1>1 DEF PagesAreTaken
  <2>1. n \in 1 .. Len(Sites[source][c])
    BY <1>1, SiteFacts DEF Sections
  <2> QED  BY <2>1
<1>6. RowsAreSeen
  <2>1. \A c \in Sections : DOMAIN rows[c] = {}
    BY <1>1
  <2> QED  BY <1>1, <2>1 DEF RowsAreSeen
<1>7. SectionsEnd /\ RecordsAreMade /\ DetailsHaveKeys
  BY <1>1 DEF SectionsEnd, RecordsAreMade, DetailsHaveKeys
<1> QED  BY <1>1, <1>4, <1>5, <1>6, <1>7 DEF ScrapeInv

-----------------------------------------------------------------------------
\* What does not touch the rows leaves what is said of them true.
LEMMA RowsStay ==
  ASSUME RowsTypeOK, PagesAreTaken, RowsAreSeen,
         UNCHANGED <<source, page, rows, seen>>, broken \subseteq broken', broken' \subseteq Sections
  PROVE  RowsTypeOK' /\ PagesAreTaken' /\ RowsAreSeen' /\ Sections' = Sections
<1>1. Sections' = Sections
  BY DEF Sections
<1>2. RowsTypeOK'
  BY <1>1 DEF RowsTypeOK
<1>3. ASSUME NEW c, NEW i PROVE Taken(c, i)' = Taken(c, i)
  BY <1>1 DEF Taken
<1>4. PagesAreTaken'
  BY <1>1, <1>3 DEF PagesAreTaken
<1>5. RowsAreSeen'
  BY <1>1 DEF RowsAreSeen
<1> QED  BY <1>1, <1>2, <1>4, <1>5

\* The listing that came with the opening is taken whole.
LEMMA StartListingStep ==
  ASSUME ScrapeInv, source # "swish", StartListing
  PROVE  ScrapeInv'
<1>1. /\ source \in Sources /\ RowsTypeOK /\ PagesAreTaken /\ RowsAreSeen /\ RecordsAreMade /\ DetailsHaveKeys
  BY DEF ScrapeInv
<1>2. /\ phase = "opening" /\ phase' = "listing"
      /\ UNCHANGED <<source, seen, items, detail, broken, stores, deals>>
  BY DEF StartListing, runVars, resultVars
<1>3. Sections' = Sections
  BY <1>2 DEF Sections
<1>4. RecordsAreMade' /\ DetailsHaveKeys'
  BY <1>1, <1>2 DEF RecordsAreMade, DetailsHaveKeys, DetailKey, Cashcards
<1>5. CASE Paged(source)
  <2>1. UNCHANGED <<page, rows>>
    BY <1>5 DEF StartListing
  <2>2. broken \subseteq broken' /\ broken' \subseteq Sections
    BY <1>1, <1>2 DEF RowsTypeOK
  <2>3. RowsTypeOK' /\ PagesAreTaken' /\ RowsAreSeen'
    BY <1>1, <1>2, <2>1, <2>2, RowsStay
  <2>4. SectionsEnd'
    BY <1>2, <1>5 DEF SectionsEnd
  <2> QED  BY <1>1, <1>2, <1>4, <2>3, <2>4 DEF ScrapeInv
<1>6. CASE ~Paged(source)
  <2>1. page' = [c \in Sections |-> 0] /\ rows' = [c \in Sections |-> FlattenSeq(Sites[source][c])]
    <3>1. DOMAIN page = Sections /\ DOMAIN rows = Sections
      BY <1>1, SeqFacts, SiteFacts DEF RowsTypeOK, Sections
    <3> QED  BY <1>6, <3>1 DEF StartListing
  <2>2. \A c \in Sections : page'[c] = 0 /\ rows'[c] = FlattenSeq(Sites[source][c])
    BY <2>1
  <2>3. Sections = 1 .. Len(Sites[source]) /\ Len(Sites[source]) \in Nat
    BY <1>1, SiteFacts DEF Sections
  <2>4. IsSeq(rows') /\ Len(rows') = Len(Sites[source])
    <3>1. rows' = [c \in 1 .. Len(Sites[source]) |-> rows'[c]]
      BY <2>1, <2>3
    <3> QED  BY <2>3, <3>1, SeqFrom
  <2>5. RowsTypeOK'
    <3>1. \A c \in Sections : IsSeq(rows'[c]) /\ Range(rows'[c]) \subseteq Range(FlattenSeq(Sites[source][c]))
      BY <1>1, <2>2, SiteFacts DEF Sections
    <3>2. page' \in [Sections -> Nat] /\ broken' \subseteq Sections
      BY <1>1, <1>2, <2>1 DEF RowsTypeOK
    <3> QED  BY <1>2, <1>3, <2>4, <3>1, <3>2 DEF RowsTypeOK
  <2>6. source # "hot"
    BY <1>6 DEF Paged
  <2>7. PagesAreTaken'
    <3> SUFFICES ASSUME NEW c \in Sections, NEW n \in DOMAIN Sites[source][c], NEW i \in Range(Sites[source][c][n])
                 PROVE  i \in Range(rows'[c])
      BY <1>2, <1>3, <2>6 DEF PagesAreTaken, Taken
    <3>1. Range(FlattenSeq(Sites[source][c])) = UNION {Range(Sites[source][c][m]) : m \in DOMAIN Sites[source][c]}
      BY <1>1, SiteFacts DEF Sections
    <3>2. i \in Range(FlattenSeq(Sites[source][c]))
      BY <3>1
    <3> QED  BY <2>2, <3>2
  <2>8. RowsAreSeen'
    BY <1>2, <2>6 DEF RowsAreSeen
  <2>9. SectionsEnd'
    BY <1>2, <1>3, <2>2 DEF SectionsEnd
  <2> QED  BY <1>1, <1>2, <1>4, <2>5, <2>7, <2>8, <2>9 DEF ScrapeInv
<1> QED  BY <1>5, <1>6

\* Where a page ends its section, no page is left.
LEMMA LastPage ==
  ASSUME ScrapeInv, source # "swish", Paged(source), NEW c \in Sections, page[c] # 0,
         NEW p, p = IF page[c] <= Len(Sites[source][c]) THEN Sites[source][c][page[c]] ELSE <<>>,
         ~More(c, p), NEW n \in DOMAIN Sites[source][c]
  PROVE  n <= page[c]
<1> SUFFICES ASSUME ~(n <= page[c]) PROVE FALSE
  OBVIOUS
<1> DEFINE pages == Sites[source][c]
<1>1. source \in Sources /\ c \in DOMAIN Sites[source] /\ page[c] \in Nat
  BY DEF ScrapeInv, RowsTypeOK, Sections
<1>2. /\ Len(pages) \in Nat /\ n \in 1 .. Len(pages)
      /\ \A m \in 1 .. Len(pages) : IsSeq(pages[m])
  BY <1>1, SiteFacts
<1>3. /\ source = "hot" => \A m \in 1..Len(pages) - 1 : Len(pages[m]) >= PageSize
      /\ source = "paisplus" => Len(pages) <= MaxCategoryPages /\ \A m \in 1..Len(pages) - 1 : pages[m] # <<>>
      /\ source \in {"behatsdaa", "llm"} => Len(pages) <= 1
  BY <1>1, ListingsEndWhereTheyEnd
<1> HIDE DEF pages
<1>4. page[c] \in 1 .. Len(pages) - 1 /\ page[c] < Len(pages)
  BY <1>1, <1>2
<1>5. p = pages[page[c]]
  BY <1>1, <1>2, <1>4 DEF pages
<1>6. CASE source = "hot"
  <2>1. ~(Len(p) >= PageSize)
    BY <1>6 DEF More
  <2> QED  BY <1>3, <1>4, <1>5, <1>6, <2>1
<1>7. CASE source = "paisplus"
  <2>1. ~(p # <<>> /\ page[c] < Len(pages) /\ page[c] < MaxCategoryPages)
    BY <1>7 DEF More, pages
  <2>2. p # <<>> /\ Len(pages) <= MaxCategoryPages
    BY <1>3, <1>4, <1>5, <1>7
  <2>3. page[c] < MaxCategoryPages
    BY <1>1, <1>2, <1>4, <2>2, SitesAssumption
  <2> QED  BY <1>4, <2>1, <2>2, <2>3
<1>8. CASE source \in {"behatsdaa", "llm"}
  BY <1>1, <1>2, <1>3, <1>4, <1>8
<1> QED  BY <1>6, <1>7, <1>8 DEF Paged

\* A page that comes is taken, and everything that was stays.
LEMMA PageComesStep ==
  ASSUME ScrapeInv, source # "swish", NEW c \in Sections, PageComes(c)
  PROVE  ScrapeInv'
<1> DEFINE p == IF page[c] <= Len(Sites[source][c]) THEN Sites[source][c][page[c]] ELSE <<>>
           u == Unseen(p)
<1>1. /\ source \in Sources /\ RowsTypeOK /\ PagesAreTaken /\ SectionsEnd /\ RowsAreSeen /\ RecordsAreMade /\ DetailsHaveKeys
  BY DEF ScrapeInv
<1>2. /\ phase = "listing" /\ page[c] # 0
      /\ rows' = [rows EXCEPT ![c] = @ \o u]
      /\ seen' = IF source = "hot" THEN seen \cup ({i.id : i \in Range(p)} \ {None}) ELSE seen
      /\ page' = [page EXCEPT ![c] = IF More(c, p) THEN @ + 1 ELSE 0]
      /\ UNCHANGED <<source, phase, items, detail, broken, stores, deals>>
  BY DEF PageComes, Turn, runVars, resultVars
<1>3. Sections' = Sections
  BY <1>2 DEF Sections
<1>4. Paged(source)
  BY <1>1, <1>2 DEF SectionsEnd
<1>5. /\ Len(Sites[source]) \in Nat /\ Sections = 1 .. Len(Sites[source])
      /\ Len(Sites[source][c]) \in Nat /\ DOMAIN Sites[source][c] = 1 .. Len(Sites[source][c])
      /\ \A n \in 1 .. Len(Sites[source][c]) : IsSeq(Sites[source][c][n])
  BY <1>1, SiteFacts DEF Sections
<1>6. /\ page \in [Sections -> Nat] /\ page[c] \in Nat /\ page[c] >= 1 /\ IsSeq(rows)
      /\ DOMAIN rows = Sections /\ IsSeq(rows[c])
  <2>1. page \in [Sections -> Nat] /\ IsSeq(rows) /\ Len(rows) = Len(Sites[source]) /\ IsSeq(rows[c])
    BY <1>1 DEF RowsTypeOK
  <2>2. DOMAIN rows = 1 .. Len(rows)
    BY <2>1, SeqFacts
  <2> QED  BY <1>2, <1>5, <2>1, <2>2
<1>7. page[c] <= Len(Sites[source][c]) => page[c] \in DOMAIN Sites[source][c] /\ p = Sites[source][c][page[c]]
  BY <1>5, <1>6
<1>8. IsSeq(p) /\ (p = <<>> \/ (page[c] \in DOMAIN Sites[source][c] /\ p = Sites[source][c][page[c]]))
  BY <1>5, <1>7, NoPlaces
<1>9. ~More(c, p) => \A n \in DOMAIN Sites[source][c] : n <= page[c]
  <2> SUFFICES ASSUME ~More(c, p), NEW n \in DOMAIN Sites[source][c] PROVE n <= page[c]
    OBVIOUS
  <2>1. p = IF page[c] <= Len(Sites[source][c]) THEN Sites[source][c][page[c]] ELSE <<>>
    OBVIOUS
  <2> HIDE DEF p
  <2> QED  BY <1>2, <1>4, <2>1, LastPage
<1> HIDE DEF p
<1>10. /\ IsSeq(u) /\ Range(u) \subseteq Range(p)
       /\ source # "hot" => u = p
       /\ source = "hot" =>
            /\ \A k \in 1 .. Len(u) : u[k].id \notin seen \cup {None}
            /\ \A j, k \in 1 .. Len(u) : u[j].id = u[k].id => j = k
            /\ \A i \in Range(p) : i.id \notin seen \cup {None} => \E j \in Range(u) : j.id = i.id
  BY <1>8, UnseenItems
<1> HIDE DEF u
<1>11. Range(p) \subseteq Range(FlattenSeq(Sites[source][c]))
  <2>1. Range(FlattenSeq(Sites[source][c])) = UNION {Range(Sites[source][c][m]) : m \in DOMAIN Sites[source][c]}
    BY <1>1, SiteFacts DEF Sections
  <2> QED  BY <1>8, <2>1, NoneHeld
<1>12. /\ rows'[c] = rows[c] \o u /\ \A b \in Sections : b # c => rows'[b] = rows[b]
       /\ rows' = [b \in Sections |-> rows'[b]]
  BY <1>2, <1>6
<1>13. IsSeq(rows'[c]) /\ Range(rows'[c]) = Range(rows[c]) \cup Range(u) /\ Len(rows'[c]) = Len(rows[c]) + Len(u)
  <2>1. IsSeq(u)
    BY <1>10
  <2>2. IsSeq(rows[c] \o u) /\ Len(rows[c] \o u) = Len(rows[c]) + Len(u)
    BY <1>6, <2>1, SeqConcat
  <2>3. Range(rows[c] \o u) = Range(rows[c]) \cup Range(u)
    BY <1>6, <2>1, ConcatHolds
  <2> QED  BY <1>12, <2>2, <2>3
<1>14. \A b \in Sections : Range(rows[b]) \subseteq Range(rows'[b])
  BY <1>12, <1>13
<1>15. RowsTypeOK'
  <2>1. IsSeq(rows') /\ Len(rows') = Len(Sites[source])
    BY <1>5, <1>12, SeqFrom
  <2>2. page' \in [Sections -> Nat]
    BY <1>2, <1>6
  <2>3. \A b \in Sections : IsSeq(rows'[b]) /\ Range(rows'[b]) \subseteq Range(FlattenSeq(Sites[source][b]))
    <3> SUFFICES ASSUME NEW b \in Sections
                 PROVE  IsSeq(rows'[b]) /\ Range(rows'[b]) \subseteq Range(FlattenSeq(Sites[source][b]))
      OBVIOUS
    <3>1. IsSeq(rows[b]) /\ Range(rows[b]) \subseteq Range(FlattenSeq(Sites[source][b]))
      BY <1>1 DEF RowsTypeOK
    <3> QED  BY <1>10, <1>11, <1>12, <1>13, <3>1
  <2> QED  BY <1>1, <1>2, <1>3, <2>1, <2>2, <2>3 DEF RowsTypeOK
<1>16. ASSUME NEW b \in Sections, NEW i, Taken(b, i) PROVE Taken(b, i)'
  <2>1. CASE source = "hot"
    <3>1. CASE i.id = None
      BY <1>2, <2>1, <3>1 DEF Taken
    <3>2. CASE i.id # None
      <4>1. PICK a \in Sections : \E j \in Range(rows[a]) : j.id = i.id
        BY <1>16, <2>1, <3>2 DEF Taken
      <4> QED  BY <1>2, <1>3, <1>14, <2>1, <4>1 DEF Taken
    <3> QED  BY <3>1, <3>2
  <2>2. CASE source # "hot"
    BY <1>2, <1>14, <1>16, <2>2 DEF Taken
  <2> QED  BY <2>1, <2>2
<1>17. ASSUME NEW i \in Range(p) PROVE Taken(c, i)'
  <2>1. CASE source = "hot" /\ i.id # None
    <3>1. CASE i.id \in seen
      <4>1. PICK a \in Sections : \E j \in Range(rows[a]) : j.id = i.id
        BY <1>1, <2>1, <3>1 DEF RowsAreSeen
      <4> QED  BY <1>2, <1>3, <1>14, <2>1, <4>1 DEF Taken
    <3>2. CASE i.id \notin seen
      <4>1. PICK j \in Range(u) : j.id = i.id
        BY <1>10, <2>1, <3>2
      <4>2. j \in Range(rows'[c])
        BY <1>13
      <4> QED  BY <1>2, <1>3, <2>1, <4>1, <4>2 DEF Taken
    <3> QED  BY <3>1, <3>2
  <2>2. CASE source = "hot" /\ i.id = None
    BY <1>2, <2>2 DEF Taken
  <2>3. CASE source # "hot"
    BY <1>2, <1>10, <1>13, <2>3 DEF Taken
  <2> QED  BY <2>1, <2>2, <2>3
<1>18. PagesAreTaken'
  <2> SUFFICES ASSUME NEW b \in Sections, NEW n \in DOMAIN Sites[source][b],
                      n < page'[b] \/ (page'[b] = 0 /\ b \notin broken), NEW i \in Range(Sites[source][b][n])
               PROVE  Taken(b, i)'
    BY <1>2, <1>3 DEF PagesAreTaken
  <2>1. CASE b # c
    <3>1. page'[b] = page[b]
      BY <1>2, <1>6, <2>1
    <3>2. Taken(b, i)
      BY <1>1, <3>1 DEF PagesAreTaken
    <3> QED  BY <1>16, <3>2
  <2>2. CASE b = c
    <3>1. n \in 1 .. Len(Sites[source][c])
      BY <1>5, <2>2
    <3>2. page'[c] = IF More(c, p) THEN page[c] + 1 ELSE 0
      BY <1>2, <1>6
    <3>3. n <= page[c]
      <4>1. CASE More(c, p)
        <5>1. n < page[c] + 1
          BY <1>6, <2>2, <3>2, <4>1
        <5> QED  BY <1>5, <1>6, <3>1, <5>1
      <4>2. CASE ~More(c, p)
        BY <1>9, <2>2, <4>2
      <4> QED  BY <4>1, <4>2
    <3>4. CASE n < page[c]
      <4>1. Taken(c, i)
        BY <1>1, <2>2, <3>4 DEF PagesAreTaken
      <4> QED  BY <1>16, <2>2, <4>1
    <3>5. CASE n = page[c]
      <4>1. p = Sites[source][c][n]
        BY <1>5, <1>7, <3>1, <3>5
      <4> QED  BY <1>17, <2>2, <4>1
    <3> QED  BY <1>5, <1>6, <3>1, <3>3, <3>4, <3>5
  <2> QED  BY <2>1, <2>2
<1>19. RowsAreSeen'
  <2> SUFFICES ASSUME source = "hot"
               PROVE  /\ \A b \in Sections : \A k \in DOMAIN rows'[b] : rows'[b][k].id \in seen' \ {None}
                      /\ \A id \in seen' : \E b \in Sections : \E j \in Range(rows'[b]) : j.id = id
                      /\ \A a, b \in Sections : \A j \in DOMAIN rows'[a] : \A k \in DOMAIN rows'[b] :
                           rows'[a][j].id = rows'[b][k].id => a = b /\ j = k
    <3>1. source' = source
      BY <1>2
    <3> QED  BY <1>3, <3>1, Zenon DEF RowsAreSeen
  <2>1. seen' = seen \cup ({i.id : i \in Range(p)} \ {None})
    BY <1>2
  <2>2. /\ \A b \in Sections : \A k \in DOMAIN rows[b] : rows[b][k].id \in seen \ {None}
        /\ \A id \in seen : \E b \in Sections : \E j \in Range(rows[b]) : j.id = id
        /\ \A a, b \in Sections : \A j \in DOMAIN rows[a] : \A k \in DOMAIN rows[b] :
             rows[a][j].id = rows[b][k].id => a = b /\ j = k
    BY <1>1 DEF RowsAreSeen
  \* A place of the rows is an old one, or one of the new items of the section.
  <2>3. ASSUME NEW b \in Sections, NEW k \in DOMAIN rows'[b]
        PROVE  \/ k \in DOMAIN rows[b] /\ rows'[b][k] = rows[b][k]
               \/ b = c /\ \E q \in 1 .. Len(u) : k = Len(rows[c]) + q /\ rows'[b][k] = u[q]
    <3>1. CASE b # c
      BY <1>12, <3>1
    <3>2. CASE b = c
      <4>1. IsSeq(u) /\ IsSeq(rows[c])
        BY <1>6, <1>10
      <4>2. rows'[c] = rows[c] \o u /\ k \in DOMAIN rows'[c]
        BY <1>12, <3>2
      <4>3. \/ k \in DOMAIN rows[c] /\ rows'[c][k] = rows[c][k]
            \/ \E q \in 1 .. Len(u) : k = Len(rows[c]) + q /\ rows'[c][k] = u[q]
        BY <4>1, <4>2, PlacesOfJoined
      <4> QED  BY <3>2, <4>3
    <3> QED  BY <3>1, <3>2
  <2>4. ASSUME NEW q \in 1 .. Len(u) PROVE u[q].id \in seen' \ {None} /\ u[q].id \notin seen
    <3>1. u[q] \in Range(p)
      BY <1>10, Held
    <3> QED  BY <1>10, <2>1, <3>1
  <2>5. ASSUME NEW b \in Sections, NEW k \in DOMAIN rows'[b] PROVE rows'[b][k].id \in seen' \ {None}
    <3>1. CASE k \in DOMAIN rows[b] /\ rows'[b][k] = rows[b][k]
      BY <2>1, <2>2, <3>1
    <3>2. CASE b = c /\ \E q \in 1 .. Len(u) : k = Len(rows[c]) + q /\ rows'[b][k] = u[q]
      BY <2>4, <3>2
    <3> QED  BY <2>3, <3>1, <3>2
  <2>6. ASSUME NEW id \in seen' PROVE \E b \in Sections : \E j \in Range(rows'[b]) : j.id = id
    <3>1. CASE id \in seen
      BY <1>14, <2>2, <3>1
    <3>2. CASE id \notin seen
      <4>1. PICK i \in Range(p) : i.id = id /\ id # None
        BY <2>1, <3>2
      <4>2. PICK j \in Range(u) : j.id = id
        BY <1>10, <3>2, <4>1
      <4> QED  BY <1>13, <4>2
    <3> QED  BY <3>1, <3>2
  <2>7. ASSUME NEW a \in Sections, NEW b \in Sections, NEW j \in DOMAIN rows'[a], NEW k \in DOMAIN rows'[b],
               rows'[a][j].id = rows'[b][k].id
        PROVE  a = b /\ j = k
    <3>1. CASE j \in DOMAIN rows[a] /\ rows'[a][j] = rows[a][j]
      <4>1. rows'[a][j].id \in seen
        BY <2>2, <3>1
      <4>2. CASE k \in DOMAIN rows[b] /\ rows'[b][k] = rows[b][k]
        BY <2>2, <2>7, <3>1, <4>2
      <4>3. CASE b = c /\ \E q \in 1 .. Len(u) : k = Len(rows[c]) + q /\ rows'[b][k] = u[q]
        BY <2>4, <2>7, <4>1, <4>3
      <4> QED  BY <2>3, <4>2, <4>3
    <3>2. CASE a = c /\ \E q \in 1 .. Len(u) : j = Len(rows[c]) + q /\ rows'[a][j] = u[q]
      <4>1. PICK q \in 1 .. Len(u) : j = Len(rows[c]) + q /\ rows'[a][j] = u[q]
        BY <3>2
      <4>2. CASE k \in DOMAIN rows[b] /\ rows'[b][k] = rows[b][k]
        BY <2>2, <2>4, <2>7, <4>1, <4>2
      <4>3. CASE b = c /\ \E r \in 1 .. Len(u) : k = Len(rows[c]) + r /\ rows'[b][k] = u[r]
        <5>1. PICK r \in 1 .. Len(u) : k = Len(rows[c]) + r /\ rows'[b][k] = u[r]
          BY <4>3
        <5>2. q = r
          BY <1>10, <2>7, <4>1, <5>1
        <5> QED  BY <3>2, <4>1, <4>3, <5>1, <5>2
      <4> QED  BY <2>3, <4>2, <4>3
    <3> QED  BY <2>3, <3>1, <3>2
  <2> QED  BY <2>5, <2>6, <2>7
<1>20. SectionsEnd'
  BY <1>2, <1>4 DEF SectionsEnd
<1>21. RecordsAreMade' /\ DetailsHaveKeys'
  BY <1>1, <1>2 DEF RecordsAreMade, DetailsHaveKeys, DetailKey, Cashcards
<1> QED  BY <1>1, <1>2, <1>15, <1>18, <1>19, <1>20, <1>21 DEF ScrapeInv

\* A page that fails ends its section, which is broken then, or leaves it as it is.
LEMMA PageFailsStep ==
  ASSUME ScrapeInv, source # "swish", NEW c \in Sections, PageFails(c)
  PROVE  ScrapeInv'
<1>1. /\ source \in Sources /\ RowsTypeOK /\ PagesAreTaken /\ SectionsEnd /\ RowsAreSeen /\ RecordsAreMade /\ DetailsHaveKeys
  BY DEF ScrapeInv
<1>2. /\ phase = "listing" /\ page[c] # 0
      /\ \/ UNCHANGED <<page, broken>>
         \/ page' = [page EXCEPT ![c] = 0] /\ broken' = broken \cup {c}
      /\ UNCHANGED <<source, phase, rows, seen, items, detail, stores, deals>>
  BY DEF PageFails, Turn, runVars, resultVars
<1>3. Paged(source)
  BY <1>1, <1>2 DEF SectionsEnd
<1>4. Sections' = Sections
  BY <1>2 DEF Sections
<1>5. SectionsEnd' /\ RecordsAreMade' /\ DetailsHaveKeys'
  BY <1>1, <1>2, <1>3 DEF SectionsEnd, RecordsAreMade, DetailsHaveKeys, DetailKey, Cashcards
<1>6. CASE UNCHANGED <<page, broken>>
  <2>1. RowsTypeOK' /\ PagesAreTaken' /\ RowsAreSeen'
    <3>1. broken \subseteq broken' /\ broken' \subseteq Sections
      BY <1>1, <1>6 DEF RowsTypeOK
    <3> QED  BY <1>1, <1>2, <1>6, <3>1, RowsStay
  <2> QED  BY <1>1, <1>2, <1>5, <2>1 DEF ScrapeInv
<1>7. CASE page' = [page EXCEPT ![c] = 0] /\ broken' = broken \cup {c}
  <2>1. RowsTypeOK' /\ RowsAreSeen'
    BY <1>1, <1>2, <1>4, <1>7 DEF RowsTypeOK, RowsAreSeen
  <2>2. PagesAreTaken'
    <3> SUFFICES ASSUME NEW b \in Sections, NEW n \in DOMAIN Sites[source][b],
                        n < page'[b] \/ (page'[b] = 0 /\ b \notin broken'), NEW i \in Range(Sites[source][b][n])
                 PROVE  Taken(b, i)
      BY <1>2, <1>4 DEF PagesAreTaken, Taken
    <3>1. DOMAIN page = Sections
      BY <1>1 DEF RowsTypeOK
    <3>2. CASE b # c
      <4>1. page'[b] = page[b] /\ (b \notin broken' => b \notin broken)
        BY <1>7, <3>1, <3>2
      <4> QED  BY <1>1, <4>1 DEF PagesAreTaken
    <3>3. CASE b = c
      <4>1. page'[b] = 0 /\ b \in broken'
        BY <1>7, <3>1, <3>3
      <4>2. n \in Nat
        <5>1. n \in 1 .. Len(Sites[source][b])
          BY <1>1, SiteFacts DEF Sections
        <5> QED  BY <5>1
      <4>3. ~(n < 0)
        BY <4>2, <1>1, SiteFacts DEF Sections
      <4> QED  BY <4>1, <4>3
    <3> QED  BY <3>2, <3>3
  <2> QED  BY <1>1, <1>2, <1>5, <2>1, <2>2 DEF ScrapeInv
<1> QED  BY <1>2, <1>6, <1>7

\* The records made of items and details that stay are the same.
LEMMA MadeStay ==
  ASSUME UNCHANGED <<source, items, detail>>
  PROVE  DealsMade' = DealsMade /\ StoresMade' = StoresMade
<1>1. DealsMade' = DealsMade
  BY DEF DealsMade, DealsOf, DetailOf, DetailKey, Outcome, Cashcards
<1>2. StoresMade' = StoresMade
  BY DEF StoresMade, OneOfEach, StoresOf, DealsOf, DetailOf, DetailKey, Outcome, Cashcards
<1> QED  BY <1>1, <1>2

\* Once the listing is read, its items and the keys of their details are settled.
LEMMA DetailStep ==
  ASSUME ScrapeInv, source # "swish",
         StartDetails \/ (\E k \in DOMAIN detail : DetailComes(k) \/ DetailFails(k)) \/ Finish
  PROVE  ScrapeInv'
<1>1. /\ source \in Sources /\ RowsTypeOK /\ PagesAreTaken /\ SectionsEnd /\ RowsAreSeen /\ RecordsAreMade /\ DetailsHaveKeys
  BY DEF ScrapeInv
<1>2. UNCHANGED <<source, page, rows, seen, broken>>
  BY DEF StartDetails, DetailComes, DetailFails, Finish, runVars, resultVars
<1>3. RowsTypeOK' /\ PagesAreTaken' /\ RowsAreSeen' /\ Sections' = Sections
  <2>1. broken \subseteq broken' /\ broken' \subseteq Sections
    BY <1>1, <1>2 DEF RowsTypeOK
  <2> QED  BY <1>1, <1>2, <2>1, RowsStay
<1>4. DOMAIN page = Sections
  BY <1>1 DEF RowsTypeOK
<1>5. Listed' = Listed
  BY <1>2 DEF Listed
<1>6. CASE StartDetails
  <2>1. /\ phase' = "details" /\ phase = "listing" /\ \A c \in Sections : page[c] = 0
        /\ items' = Gathered
        /\ detail' = [k \in DOMAIN items' |-> IF crawl /\ Asked(source, items'[k]) THEN "due" ELSE "none"]
        /\ UNCHANGED <<stores, deals>>
    BY <1>4, <1>6 DEF StartDetails, runVars, resultVars
  <2>2. Gathered' = Gathered
    BY <1>2, <1>5 DEF Gathered
  <2>3. RecordsAreMade'
    BY <1>1, <2>1, <2>2 DEF RecordsAreMade
  <2>4. DetailsHaveKeys'
    <3> SUFFICES ASSUME NEW k \in DOMAIN detail'
                 PROVE  /\ detail'[k] \in {"due", "ok"} => source \in Cashcards \/ DetailKey(source, items'[k]) # None
                        /\ detail'[k] # "bare"
      BY <1>2 DEF DetailsHaveKeys, DetailKey, Cashcards
    <3> QED  BY <2>1 DEF Asked
  <2>5. SectionsEnd'
    BY <1>1, <1>2, <1>3, <2>1 DEF SectionsEnd
  <2> QED  BY <1>1, <1>2, <1>3, <2>1, <2>3, <2>4, <2>5 DEF ScrapeInv
<1>7. ASSUME NEW k \in DOMAIN detail, DetailComes(k) \/ DetailFails(k) PROVE ScrapeInv'
  <2>1. /\ phase = "details" /\ detail[k] = "due"
        /\ \E new : detail' = [detail EXCEPT ![k] = new] /\ (new = "bare" => source \in Cashcards)
        /\ UNCHANGED <<phase, items, stores, deals>>
    BY <1>7 DEF DetailComes, DetailFails, runVars, resultVars
  <2>2. PICK new : detail' = [detail EXCEPT ![k] = new] /\ (new = "bare" => source \in Cashcards)
    BY <2>1
  <2>3. Gathered' = Gathered
    BY <1>2, <1>5 DEF Gathered
  <2>4. detail = [j \in DOMAIN items |-> detail[j]] /\ items = Gathered /\ deals = <<>> /\ stores = <<>>
    BY <1>1, <2>1 DEF RecordsAreMade
  <2>5. detail' = [j \in DOMAIN items |-> detail'[j]]
    BY <2>2, <2>4
  <2>6. RecordsAreMade'
    BY <2>1, <2>3, <2>4, <2>5 DEF RecordsAreMade
  <2>7. DetailsHaveKeys'
    <3> SUFFICES ASSUME NEW j \in DOMAIN detail'
                 PROVE  /\ detail'[j] \in {"due", "ok"} => source \in Cashcards \/ DetailKey(source, items[j]) # None
                        /\ detail'[j] = "bare" => source \in Cashcards
      BY <1>2, <2>1 DEF DetailsHaveKeys, DetailKey, Cashcards
    <3>1. j \in DOMAIN detail
      BY <2>2
    <3>2. CASE j = k
      <4>1. detail'[j] = new
        BY <2>2, <3>1, <3>2
      <4> QED  BY <1>1, <2>1, <2>2, <3>1, <3>2, <4>1 DEF DetailsHaveKeys
    <3>3. CASE j # k
      <4>1. detail'[j] = detail[j]
        BY <2>2, <3>1, <3>3
      <4> QED  BY <1>1, <3>1, <4>1 DEF DetailsHaveKeys
    <3> QED  BY <3>2, <3>3
  <2>8. SectionsEnd'
    BY <1>1, <1>2, <1>3, <2>1 DEF SectionsEnd
  <2> QED  BY <1>1, <1>2, <1>3, <2>1, <2>6, <2>7, <2>8 DEF ScrapeInv
<1>8. CASE Finish
  <2>1. /\ phase = "details" /\ phase' = "done"
        /\ deals' = DealsMade /\ stores' = StoresMade
        /\ UNCHANGED <<items, detail>>
    BY <1>8 DEF Finish, DealsMade, StoresMade
  <2>2. Gathered' = Gathered
    BY <1>2, <1>5 DEF Gathered
  <2>3. UNCHANGED <<source, items, detail>>
    BY <1>2, <2>1
  <2>4. DealsMade' = DealsMade /\ StoresMade' = StoresMade
    BY <2>3, MadeStay
  <2>5. RecordsAreMade'
    <3>1. AllListed'
      BY <1>1, <1>2, <1>3, <2>1 DEF SectionsEnd, AllListed
    <3> QED  BY <1>1, <2>1, <2>2, <2>4, <3>1 DEF RecordsAreMade
  <2>6. DetailsHaveKeys'
    BY <1>1, <1>2, <2>1 DEF DetailsHaveKeys, DetailKey, Cashcards
  <2>7. SectionsEnd'
    BY <1>1, <1>2, <1>3, <2>1 DEF SectionsEnd
  <2> QED  BY <1>1, <1>2, <1>3, <2>1, <2>5, <2>6, <2>7 DEF ScrapeInv
<1> QED  BY <1>6, <1>7, <1>8

\* What is left: an opening request answered or failed, and nothing at all.
LEMMA OtherStep ==
  ASSUME ScrapeInv, source # "swish", Opened \/ OpeningFails \/ UNCHANGED vars
  PROVE  ScrapeInv'
<1>1. /\ source \in Sources /\ RowsTypeOK /\ PagesAreTaken /\ SectionsEnd /\ RowsAreSeen /\ RecordsAreMade /\ DetailsHaveKeys
  BY DEF ScrapeInv
<1>2. /\ UNCHANGED <<source, page, rows, seen, items, detail, stores, deals>>
      /\ \/ UNCHANGED <<phase, broken>>
         \/ phase = "opening" /\ phase' = "done" /\ broken' = Sections
  BY DEF Opened, OpeningFails, vars, runVars, resultVars, Sections
<1>3. RowsTypeOK' /\ PagesAreTaken' /\ RowsAreSeen' /\ Sections' = Sections
  <2>1. broken \subseteq broken' /\ broken' \subseteq Sections
    BY <1>1, <1>2 DEF RowsTypeOK
  <2> QED  BY <1>1, <1>2, <2>1, RowsStay
<1>4. DetailsHaveKeys'
  BY <1>1, <1>2 DEF DetailsHaveKeys, DetailKey, Cashcards
<1>5. CASE UNCHANGED <<phase, broken>>
  <2>1. Gathered' = Gathered
    BY <1>2 DEF Gathered, Listed
  <2>2. UNCHANGED <<source, items, detail>>
    BY <1>2
  <2>3. DealsMade' = DealsMade /\ StoresMade' = StoresMade
    BY <2>2, MadeStay
  <2>4. RecordsAreMade'
    <3>1. AllListed => AllListed'
      BY <1>2, <1>3 DEF AllListed
    <3> QED  BY <1>1, <1>2, <1>3, <1>5, <2>1, <2>3, <3>1 DEF RecordsAreMade
  <2>5. SectionsEnd'
    BY <1>1, <1>2, <1>3, <1>5 DEF SectionsEnd
  <2> QED  BY <1>1, <1>2, <1>3, <1>4, <1>5, <2>4, <2>5 DEF ScrapeInv
<1>6. CASE phase = "opening" /\ phase' = "done" /\ broken' = Sections
  <2>1. RecordsAreMade'
    BY <1>1, <1>2, <1>3, <1>6 DEF RecordsAreMade
  <2>2. SectionsEnd'
    BY <1>1, <1>2, <1>3, <1>6 DEF SectionsEnd
  <2> QED  BY <1>1, <1>2, <1>3, <1>4, <1>6, <2>1, <2>2 DEF ScrapeInv
<1> QED  BY <1>2, <1>5, <1>6

\* An answer that cannot be read ends the scrape with nothing.
LEMMA UnreadableStep ==
  ASSUME ScrapeInv, source # "swish", AnswerIsUnreadable
  PROVE  ScrapeInv'
<1>1. /\ source \in Sources /\ RowsTypeOK /\ PagesAreTaken /\ RowsAreSeen /\ RecordsAreMade
  BY DEF ScrapeInv
<1>2. /\ phase \in {"opening", "listing", "details"} /\ phase' = "done"
      /\ items' = <<>> /\ detail' = <<>> /\ broken' = Sections
      /\ UNCHANGED <<source, page, rows, seen, stores, deals>>
  BY DEF AnswerIsUnreadable, runVars, Sections
<1>3. RowsTypeOK' /\ PagesAreTaken' /\ RowsAreSeen' /\ Sections' = Sections
  <2>1. broken \subseteq broken' /\ broken' \subseteq Sections
    BY <1>1, <1>2 DEF RowsTypeOK
  <2> QED  BY <1>1, <1>2, <2>1, RowsStay
<1>4. RecordsAreMade'
  BY <1>1, <1>2, <1>3 DEF RecordsAreMade
<1>5. SectionsEnd'
  BY <1>2, <1>3 DEF SectionsEnd
<1>6. DetailsHaveKeys'
  BY <1>2 DEF DetailsHaveKeys
<1> QED  BY <1>1, <1>2, <1>3, <1>4, <1>5, <1>6 DEF ScrapeInv

\* Every step keeps the invariant.
LEMMA ScrapeInvStep ==
  ASSUME ScrapeInv, [Next]_<<vars, scanVars>>
  PROVE  ScrapeInv'
<1>1. CASE source = "swish"
  <2>1. source' = source /\ (phase' = phase \/ phase' = "done")
    BY <1>1 DEF Next, ReadSwish, Done, ScanNext, vars, runVars
  <2> QED  BY <1>1, <2>1 DEF ScrapeInv
<1>2. CASE source # "swish"
  <2>1. \/ Opened \/ StartListing \/ Listing \/ StartDetails \/ Detailing \/ Finish
        \/ OpeningFails \/ AnswerIsUnreadable \/ UNCHANGED vars
    BY <1>2 DEF Next, Scrape, Done
  <2>2. CASE Listing
    <3>1. DOMAIN page = Sections
      BY <1>2 DEF ScrapeInv, RowsTypeOK
    <3>2. PICK c \in Sections : PageComes(c) \/ PageFails(c)
      BY <2>2, <3>1 DEF Listing
    <3> QED  BY <1>2, <3>2, PageComesStep, PageFailsStep
  <2>3. CASE StartListing
    BY <1>2, <2>3, StartListingStep
  <2>4. CASE StartDetails \/ Detailing \/ Finish
    BY <1>2, <2>4, DetailStep DEF Detailing
  <2>5. CASE Opened \/ OpeningFails \/ UNCHANGED vars
    BY <1>2, <2>5, OtherStep
  <2>6. CASE AnswerIsUnreadable
    BY <1>2, <2>6, UnreadableStep
  <2> QED  BY <2>1, <2>2, <2>3, <2>4, <2>5, <2>6
<1> QED  BY <1>1, <1>2

\* A scrape begins with nothing raised.
LEMMA RaisedInit == Init => RaisedForAReason
BY DEF Init, RaisedForAReason

\* Only a failed opening and an unreadable answer raise, and both end the scrape.
LEMMA RaisedStep ==
  ASSUME ScrapeInv, RaisedForAReason, [Next]_<<vars, scanVars>>
  PROVE  RaisedForAReason'
<1>1. source' = source
  BY DEF Next, Scrape, Opened, StartListing, Listing, PageComes, PageFails, StartDetails, Detailing, DetailComes,
         DetailFails, Finish, OpeningFails, AnswerIsUnreadable, Done, ReadSwish, vars, runVars
<1>2. CASE source = "swish"
  BY <1>1, <1>2 DEF RaisedForAReason
<1>3. CASE source # "swish"
  <2>1. \/ StartListing \/ Listing \/ StartDetails \/ Detailing \/ Finish \/ Opened
        \/ OpeningFails \/ AnswerIsUnreadable \/ UNCHANGED vars
    BY <1>3 DEF Next, Scrape, Done
  <2>2. CASE StartListing \/ Listing \/ StartDetails \/ Detailing \/ Finish \/ Opened
    <3>1. phase # "done" /\ error' = error
      BY <2>2 DEF StartListing, Listing, PageComes, PageFails, StartDetails, Detailing, DetailComes, DetailFails,
                  Finish, Opened, resultVars
    <3> QED  BY <1>3, <3>1 DEF RaisedForAReason
  <2>3. CASE OpeningFails
    <3>1. /\ phase = "opening" /\ phase' = "done" /\ opened < Openings(source)
          /\ UNCHANGED <<source, opened, deals, stores>>
      BY <2>3 DEF OpeningFails, runVars
    <3>2. deals = <<>> /\ stores = <<>>
      BY <1>3, <3>1 DEF ScrapeInv, RecordsAreMade
    <3>3. Openings(source') = Openings(source)
      BY <1>1
    <3>4. opened' < Openings(source')
      BY <3>1, <3>3
    <3> QED  BY <3>1, <3>2, <3>4 DEF RaisedForAReason
  <2>4. CASE AnswerIsUnreadable
    <3>1. phase \in {"opening", "listing", "details"} /\ phase' = "done" /\ spoilt' = TRUE /\ UNCHANGED <<deals, stores>>
      BY <2>4 DEF AnswerIsUnreadable
    <3>2. deals = <<>> /\ stores = <<>>
      BY <1>3, <3>1 DEF ScrapeInv, RecordsAreMade
    <3> QED  BY <3>1, <3>2 DEF RaisedForAReason
  <2>5. CASE UNCHANGED vars
    <3>1. UNCHANGED <<source, phase, opened, deals, stores, error, spoilt>>
      BY <2>5 DEF vars
    <3>2. Openings(source') = Openings(source)
      BY <1>1
    <3>3. opened < Openings(source) => opened' < Openings(source')
      BY <3>1, <3>2
    <3> QED  BY <3>1, <3>3 DEF RaisedForAReason
  <2> QED  BY <2>1, <2>2, <2>3, <2>4, <2>5
<1> QED  BY <1>2, <1>3

-----------------------------------------------------------------------------
\* The whole listing of a site is that of its sections.
LEMMA WholeHolds ==
  ASSUME NEW s \in Sources
  PROVE  /\ IsSeq(Whole(s))
         /\ Range(Whole(s)) = UNION {Range(FlattenSeq(Sites[s][c])) : c \in DOMAIN Sites[s]}
<1> DEFINE ss == [c \in DOMAIN Sites[s] |-> FlattenSeq(Sites[s][c])]
<1>1. /\ Len(Sites[s]) \in Nat /\ DOMAIN Sites[s] = 1 .. Len(Sites[s])
      /\ \A c \in DOMAIN Sites[s] : IsSeq(FlattenSeq(Sites[s][c]))
  BY SiteFacts
<1>2. \A c \in DOMAIN Sites[s] : ss[c] = FlattenSeq(Sites[s][c])
  OBVIOUS
<1>3. ss = [c \in 1 .. Len(Sites[s]) |-> ss[c]]
  BY <1>1
<1> HIDE DEF ss
<1>4. IsSeq(ss) /\ Len(ss) = Len(Sites[s])
  BY <1>1, <1>3, SeqFrom
<1>5. \A c \in 1 .. Len(ss) : IsSeq(ss[c])
  BY <1>1, <1>2, <1>4
<1>6. IsSeq(FlattenSeq(ss)) /\ Range(FlattenSeq(ss)) = UNION {Range(ss[c]) : c \in 1 .. Len(ss)}
  BY <1>4, <1>5, FlatHolds
<1>7. UNION {Range(ss[c]) : c \in 1 .. Len(ss)} = UNION {Range(FlattenSeq(Sites[s][c])) : c \in DOMAIN Sites[s]}
  BY <1>1, <1>2, <1>4
<1>8. Whole(s) = FlattenSeq(ss)
  BY DEF Whole, ss
<1> QED  BY <1>6, <1>7, <1>8

\* The rows, one section after the other.
LEMMA RowsHold ==
  ASSUME ScrapeInv, source # "swish"
  PROVE  /\ IsSeq(FlattenSeq(rows))
         /\ Range(FlattenSeq(rows)) = UNION {Range(rows[c]) : c \in Sections}
         /\ Range(FlattenSeq(rows)) \subseteq Range(Whole(source))
<1>1. /\ source \in Sources /\ IsSeq(rows) /\ Len(rows) = Len(Sites[source])
      /\ \A c \in Sections : IsSeq(rows[c]) /\ Range(rows[c]) \subseteq Range(FlattenSeq(Sites[source][c]))
  BY DEF ScrapeInv, RowsTypeOK
<1>2. Sections = 1 .. Len(rows)
  BY <1>1, SiteFacts DEF Sections
<1>3. IsSeq(FlattenSeq(rows)) /\ Range(FlattenSeq(rows)) = UNION {Range(rows[c]) : c \in 1 .. Len(rows)}
  BY <1>1, <1>2, FlatHolds
<1>4. Range(Whole(source)) = UNION {Range(FlattenSeq(Sites[source][c])) : c \in Sections}
  BY <1>1, WholeHolds DEF Sections
<1>5. UNION {Range(rows[c]) : c \in Sections} \subseteq UNION {Range(FlattenSeq(Sites[source][c])) : c \in Sections}
  BY <1>1
<1> QED  BY <1>2, <1>3, <1>4, <1>5

\* The branches of a set that a chain of names and logos links to one of them.
Closed(all, b) == {S \in SUBSET all : b \in S /\ \A y \in S, x \in all : Linked(x, y) => x \in S}

\* What is linked to a branch is linked to the same branches.
LEMMA ChainsAreOne ==
  ASSUME NEW all, NEW a \in all, NEW b \in all,
         \/ Linked(a, b)
         \/ \A S \in Closed(all, b) : a \in S
  PROVE  Closed(all, a) = Closed(all, b)
<1>1. \A x, y : Linked(x, y) => Linked(y, x)
  BY DEF Linked
<1>2. CASE Linked(a, b)
  <2>1. Linked(b, a)
    BY <1>1, <1>2
  <2> QED  BY <1>2, <2>1 DEF Closed
<1>3. CASE \A S \in Closed(all, b) : a \in S
  <2>1. Closed(all, b) \subseteq Closed(all, a)
    BY <1>3 DEF Closed
  <2>2. ASSUME NEW S \in Closed(all, a), b \notin S PROVE FALSE
    <3> DEFINE rest == all \ S
    <3>1. \A y \in rest, x \in all : Linked(x, y) => x \in rest
      BY <1>1, <2>2 DEF Closed
    <3>2. rest \in Closed(all, b)
      BY <2>2, <3>1 DEF Closed
    <3>3. a \in rest /\ a \in S
      <4>1. a \in rest
        BY <1>3, <3>2
      <4> QED  BY <2>2, <4>1 DEF Closed
    <3> QED  BY <3>3
  <2>3. Closed(all, a) \subseteq Closed(all, b)
    BY <2>2 DEF Closed
  <2> QED  BY <2>1, <2>3
<1> QED  BY <1>2, <1>3

\* GroupBranches: every named branch is in a restaurant, and no branch of one restaurant is
\* linked to one of another.
LEMMA BranchesAreGrouped ==
  ASSUME NEW records, IsSeq(records)
  PROVE  /\ IsSeq(GroupBranches(records))
         /\ \A i \in Range(records) : i.name # <<>> => \E k \in 1 .. Len(GroupBranches(records)) : i \in Range(GroupBranches(records)[k])
         /\ \A j, k \in 1 .. Len(GroupBranches(records)) : j # k =>
              \A a \in Range(GroupBranches(records)[j]), b \in Range(GroupBranches(records)[k]) : ~Linked(a, b)
<1> DEFINE named == Keep(records, {r \in Range(records) : r.name # <<>>})
           all == Range(named)
           restaurants == [k \in DOMAIN named |-> RestaurantOf(named, named[k])]
           groups == Firsts(restaurants, restaurants)
           Chain(b) == {x \in all : \A S \in Closed(all, b) : x \in S}
<1>1. IsSeq(named) /\ Range(named) = Range(records) \cap {r \in Range(records) : r.name # <<>>}
  BY Kept
<1>2. GroupBranches(records) = groups
  BY DEF GroupBranches
<1>3. \A i \in Range(records) : i.name # <<>> => i \in all
  BY <1>1
<1> HIDE DEF named
<1>4. \A b : RestaurantOf(named, b) = Keep(named, Chain(b))
  BY DEF RestaurantOf, Closed
<1>5. Len(named) \in Nat /\ DOMAIN named = 1 .. Len(named)
  BY <1>1, SeqFacts
<1>6. \A k \in 1 .. Len(named) : restaurants[k] = Keep(named, Chain(named[k])) /\ named[k] \in all
  BY <1>1, <1>4, <1>5, Held
<1>7. restaurants = [k \in 1 .. Len(named) |-> restaurants[k]]
  BY <1>5
<1> HIDE DEF restaurants
<1>8. IsSeq(restaurants) /\ Len(restaurants) = Len(named)
  BY <1>5, <1>7, SeqFrom
<1>9. \A b : Range(Keep(named, Chain(b))) = Chain(b)
  <2> SUFFICES ASSUME NEW b PROVE Range(Keep(named, Chain(b))) = Chain(b)
    OBVIOUS
  <2>1. Chain(b) \subseteq all
    OBVIOUS
  <2> HIDE DEF Chain
  <2>2. Range(Keep(named, Chain(b))) = all \cap Chain(b)
    BY <1>1, Kept
  <2> QED  BY <2>1, <2>2
<1>10. IsSeq(groups) /\ \E g : TakesFirsts(g, groups, restaurants, restaurants)
  <2>1. IsSeq(restaurants)
    BY <1>8
  <2> QED  BY <2>1, FirstsTaken
<1> HIDE DEF groups
<1>11. PICK g : TakesFirsts(g, groups, restaurants, restaurants)
  BY <1>10
<1>12. ASSUME NEW k \in 1 .. Len(groups)
       PROVE  /\ g[k] \in 1 .. Len(named) /\ groups[k] = restaurants[g[k]]
              /\ Range(groups[k]) = Chain(named[g[k]])
  <2>1. g[k] \in 1 .. Len(named) /\ groups[k] = restaurants[g[k]]
    BY <1>8, <1>11 DEF TakesFirsts
  <2> HIDE DEF Chain
  <2> QED  BY <1>6, <1>9, <2>1
<1>13. ASSUME NEW i \in Range(records), i.name # <<>> PROVE \E k \in 1 .. Len(groups) : i \in Range(groups[k])
  <2>1. PICK n \in 1 .. Len(named) : named[n] = i
    BY <1>1, <1>3, <1>13, Held
  <2>2. PICK k \in 1 .. Len(groups) : restaurants[g[k]] = restaurants[n]
    BY <1>8, <1>11, <2>1 DEF TakesFirsts
  <2>3. i \in Chain(i)
    BY <1>3, <1>13 DEF Closed
  <2>4. groups[k] = Keep(named, Chain(i))
    BY <1>6, <1>12, <2>1, <2>2
  <2>5. Range(groups[k]) = Chain(i)
    <3> HIDE DEF Chain
    <3> QED  BY <1>9, <2>4
  <2> QED  BY <2>3, <2>5
<1>14. ASSUME NEW j \in 1 .. Len(groups), NEW k \in 1 .. Len(groups), j # k,
              NEW a \in Range(groups[j]), NEW b \in Range(groups[k]), Linked(a, b)
       PROVE  FALSE
  <2> DEFINE x == named[g[j]]
             y == named[g[k]]
  <2>1. x \in all /\ y \in all /\ restaurants[g[j]] = Keep(named, Chain(x)) /\ restaurants[g[k]] = Keep(named, Chain(y))
    BY <1>6, <1>12
  <2>2. a \in Chain(x) /\ b \in Chain(y)
    BY <1>12
  <2> HIDE DEF x, y, all
  <2>3. Closed(all, a) = Closed(all, x) /\ Closed(all, b) = Closed(all, y) /\ Closed(all, a) = Closed(all, b)
    <3>1. a \in all /\ (\A S \in Closed(all, x) : a \in S) /\ b \in all /\ (\A S \in Closed(all, y) : b \in S)
      BY <2>2
    <3> QED  BY <1>14, <2>1, <3>1, ChainsAreOne
  <2>4. Chain(x) = Chain(y)
    BY <2>3
  <2> HIDE DEF Chain
  <2>5. restaurants[g[j]] = restaurants[g[k]]
    BY <2>1, <2>4
  <2>6. restaurants[g[j]] # restaurants[g[k]]
    BY <1>11, <1>14 DEF TakesFirsts
  <2> QED  BY <2>5, <2>6
<1> QED  BY <1>2, <1>10, <1>13, <1>14

\* The items are listed by the site, and of hot and paisplus no two have one id.
LEMMA ItemsHold ==
  ASSUME ScrapeInv, source # "swish", items = Gathered \/ items = <<>>
  PROVE  /\ IsSeq(items) /\ Len(items) \in Nat /\ DOMAIN items = 1 .. Len(items)
         /\ source # "teamim" => Range(items) \subseteq Range(Whole(source))
         /\ source \in {"hot", "paisplus"} => \A j, k \in 1 .. Len(items) : items[j].id = items[k].id => j = k
<1> DEFINE all == FlattenSeq(rows)
<1>1. IsSeq(all) /\ Range(all) \subseteq Range(Whole(source))
  BY RowsHold
<1>2. ASSUME items = Gathered
      PROVE  /\ IsSeq(items)
             /\ source # "teamim" => Range(items) \subseteq Range(Whole(source))
             /\ source \in {"hot", "paisplus"} => \A j, k \in 1 .. Len(items) : items[j].id = items[k].id => j = k
  <2>1. CASE source = "paisplus"
    <3> DEFINE keys == [k \in DOMAIN all |-> all[k].id]
    <3>1. items = Firsts(all, keys)
      BY <1>2, <2>1 DEF Gathered, Listed
    <3>2. DOMAIN all = 1 .. Len(all) /\ \A k \in DOMAIN all : keys[k] = all[k].id
      BY <1>1, SeqFacts
    <3> HIDE DEF keys, all
    <3>3. IsSeq(items) /\ \E g : TakesFirsts(g, items, all, keys)
      <4>1. IsSeq(all)
        BY <1>1
      <4> QED  BY <3>1, <4>1, FirstsTaken
    <3>4. PICK g : TakesFirsts(g, items, all, keys)
      BY <3>3
    <3>5. \A k \in 1 .. Len(items) : g[k] \in 1 .. Len(all) /\ items[k] = all[g[k]] /\ items[k].id = keys[g[k]]
      BY <3>2, <3>4 DEF TakesFirsts
    <3>6. Range(items) \subseteq Range(Whole(source))
      BY <1>1, <3>3, <3>5, Held
    <3>7. ASSUME NEW j \in 1 .. Len(items), NEW k \in 1 .. Len(items), items[j].id = items[k].id PROVE j = k
      <4>1. keys[g[j]] = keys[g[k]]
        BY <3>5, <3>7
      <4> QED  BY <3>4, <4>1 DEF TakesFirsts
    <3> QED  BY <3>3, <3>6, <3>7
  <2>2. CASE source = "behatsdaa"
    <3> DEFINE usable == {c \in Range(all) : UsableWallet(c.wallet)}
    <3>1. items = Keep(all, usable)
      BY <1>2, <2>2 DEF Gathered, Listed
    <3> HIDE DEF usable, all
    <3>2. IsSeq(all)
      BY <1>1
    <3>3. IsSeq(items) /\ Range(items) = Range(all) \cap usable
      BY <3>1, <3>2, Kept
    <3> QED  BY <1>1, <2>2, <3>3
  <2>3. CASE source = "teamim"
    <3>1. items = GroupBranches(all)
      BY <1>2, <2>3 DEF Gathered, Listed
    <3> HIDE DEF all
    <3>2. IsSeq(all)
      BY <1>1
    <3>3. IsSeq(items)
      BY <3>1, <3>2, BranchesAreGrouped
    <3> QED  BY <2>3, <3>3
  <2>4. CASE source = "hot"
    <3>1. items = all
      BY <1>2, <2>4 DEF Gathered, Listed
    <3>2. /\ source \in Sources /\ IsSeq(rows) /\ Len(rows) = Len(Sites[source])
          /\ \A c \in Sections : IsSeq(rows[c])
          /\ \A b, c \in Sections : \A j \in DOMAIN rows[b] : \A k \in DOMAIN rows[c] :
               rows[b][j].id = rows[c][k].id => b = c /\ j = k
      BY <2>4 DEF ScrapeInv, RowsTypeOK, RowsAreSeen
    <3>3. Sections = 1 .. Len(rows)
      BY <3>2, SiteFacts DEF Sections
    <3>4. \A c \in 1 .. Len(rows) : IsSeq(rows[c]) /\ DOMAIN rows[c] = 1 .. Len(rows[c])
      BY <3>2, <3>3, SeqFacts
    <3>5. PICK at : Located(at, all, rows, Len(rows))
      BY <3>2, <3>4, FlatLocated
    <3> HIDE DEF all
    <3>6. \A p \in 1 .. Len(all) : /\ at[p] \in Nat \X Nat /\ at[p][1] \in Sections /\ at[p][2] \in DOMAIN rows[at[p][1]]
                                   /\ all[p] = rows[at[p][1]][at[p][2]]
      BY <3>3, <3>4, <3>5 DEF Located
    <3>7. ASSUME NEW p \in 1 .. Len(all), NEW q \in 1 .. Len(all), all[p].id = all[q].id PROVE p = q
      <4>1. at[p][1] = at[q][1] /\ at[p][2] = at[q][2]
        <5>1. /\ at[p][1] \in Sections /\ at[p][2] \in DOMAIN rows[at[p][1]] /\ all[p] = rows[at[p][1]][at[p][2]]
              /\ at[q][1] \in Sections /\ at[q][2] \in DOMAIN rows[at[q][1]] /\ all[q] = rows[at[q][1]][at[q][2]]
          BY <3>6
        <5>2. rows[at[p][1]][at[p][2]].id = rows[at[q][1]][at[q][2]].id
          BY <3>7, <5>1
        <5> QED  BY <3>2, <5>1, <5>2
      <4>2. at[p] = at[q]
        <5>1. at[p] \in Nat \X Nat /\ at[q] \in Nat \X Nat
          BY <3>6
        <5> QED  BY <4>1, <5>1
      <4> QED  BY <3>5, <4>2 DEF Located
    <3> QED  BY <1>1, <3>1, <3>7
  <2>5. CASE source \notin {"paisplus", "behatsdaa", "teamim", "hot"}
    <3>1. items = all
      BY <1>2, <2>5 DEF Gathered, Listed
    <3> QED  BY <1>1, <2>5, <3>1
  <2> QED  BY <2>1, <2>2, <2>3, <2>4, <2>5
<1>3. ASSUME items = <<>>
      PROVE  /\ IsSeq(items)
             /\ source # "teamim" => Range(items) \subseteq Range(Whole(source))
             /\ source \in {"hot", "paisplus"} => \A j, k \in 1 .. Len(items) : items[j].id = items[k].id => j = k
  <2>1. IsSeq(items) /\ Len(items) = 0 /\ Range(items) = {}
    BY <1>3, NoPlaces, NoneHeld
  <2>2. 1 .. Len(items) = {}
    BY <2>1
  <2> QED  BY <2>1, <2>2
<1>4. IsSeq(items)
  BY <1>2, <1>3
<1> QED  BY <1>2, <1>3, <1>4, SeqFacts

\* A detail that is there is what the site answers for the key of the item.
LEMMA DetailKnown ==
  ASSUME ScrapeInv, source # "swish", NEW k, DetailOf(items[k], Outcome(k)) # None
  PROVE  \/ /\ source \in Cashcards \/ DetailKey(source, items[k]) # None
            /\ DetailOf(items[k], Outcome(k)) = Truth[source][DetailKey(source, items[k])]
         \/ source \in Cashcards /\ Outcome(k) = "bare" /\ DetailOf(items[k], Outcome(k)) = <<>>
<1>1. CASE Outcome(k) = "ok"
  <2>1. DetailOf(items[k], Outcome(k)) = Truth[source][DetailKey(source, items[k])]
    BY <1>1 DEF DetailOf
  <2>2. k \in DOMAIN detail /\ detail[k] = "ok"
    BY <1>1 DEF Outcome
  <2>3. source \in Cashcards \/ DetailKey(source, items[k]) # None
    BY <2>2 DEF ScrapeInv, DetailsHaveKeys
  <2> QED  BY <2>1, <2>3
<1>2. CASE Outcome(k) = "bare"
  <2>1. k \in DOMAIN detail /\ detail[k] = "bare"
    BY <1>2 DEF Outcome
  <2>2. source \in Cashcards
    BY <2>1 DEF ScrapeInv, DetailsHaveKeys
  <2> QED  BY <1>2, <2>2 DEF DetailOf
<1>3. CASE Outcome(k) \notin {"ok", "bare"}
  <2>1. DetailOf(items[k], Outcome(k)) = None
    BY <1>3 DEF DetailOf
  <2> QED  BY <2>1
<1> QED  BY <1>1, <1>2, <1>3

\* What is known of a product of paisplus is what the site answers for its id.
LEMMA ProductKnown ==
  ASSUME ScrapeInv, source = "paisplus", NEW k, DetailOf(items[k], Outcome(k)) # None
  PROVE  items[k].id # None /\ DetailOf(items[k], Outcome(k)) = Truth[source][items[k].id]
<1>1. source \notin Cashcards /\ source # "swish"
  BY DEF Cashcards, CashcardTiers
<1> QED  BY <1>1, DetailKnown DEF DetailKey

\* What is known of a chit is what the site answers for its id, or that no list came.
LEMMA ChitKnown ==
  ASSUME ScrapeInv, source \in Cashcards, NEW k, items[k] \in Range(Whole(source)),
         DetailOf(items[k], Outcome(k)) # None
  PROVE  /\ IsSeq(items[k].rules) /\ IsSeq(DetailOf(items[k], Outcome(k)))
         /\ \/ DetailOf(items[k], Outcome(k)) = Truth[source][items[k].id]
            \/ Outcome(k) = "bare" /\ DetailOf(items[k], Outcome(k)) = <<>>
<1>1. source \notin {"hot", "swish", "paisplus"} /\ DetailKey(source, items[k]) = items[k].id
  BY DEF Cashcards, CashcardTiers, DetailKey
<1>2. source \in Sources
  BY DEF ScrapeInv
<1>3. IsSeq(items[k].rules) /\ IsSeq(Truth[source][items[k].id])
  BY <1>2, TruthAssumption
<1>4. \/ DetailOf(items[k], Outcome(k)) = Truth[source][items[k].id]
      \/ Outcome(k) = "bare" /\ DetailOf(items[k], Outcome(k)) = <<>>
  BY <1>1, DetailKnown
<1> QED  BY <1>3, <1>4, NoPlaces

\* An item makes one deal or none, for most sources.
LEMMA FewDeals ==
  ASSUME NEW i, NEW d
  PROVE  /\ IsSeq(HotDeals(i, d)) /\ Len(HotDeals(i, d)) = 1
         /\ IsSeq(MastercardDeals(i, d)) /\ IsSeq(BehatsdaaDeals(i, d)) /\ IsSeq(HeverDeals(i, d))
         /\ IsSeq(TeamimDeals(i, d)) /\ IsSeq(TopcashDeals(i, d)) /\ IsSeq(LlmDeals(i, d))
<1>1. \A x : IsSeq(<<x>>) /\ Len(<<x>>) = 1
  BY One
<1>2. IsSeq(<<>>)
  BY NoPlaces
<1>3. IsSeq(HotDeals(i, d)) /\ Len(HotDeals(i, d)) = 1
  BY <1>1, Zenon DEF HotDeals
<1>4. IsSeq(MastercardDeals(i, d))
  BY <1>1, <1>2, Zenon DEF MastercardDeals
<1>5. IsSeq(BehatsdaaDeals(i, d))
  BY <1>1, <1>2, Zenon DEF BehatsdaaDeals
<1>6. IsSeq(HeverDeals(i, d))
  BY <1>1, <1>2, Zenon DEF HeverDeals
<1>7. IsSeq(TeamimDeals(i, d))
  BY <1>1, <1>2, Zenon DEF TeamimDeals
<1>8. IsSeq(TopcashDeals(i, d))
  BY <1>1, <1>2, Zenon DEF TopcashDeals
<1>9. IsSeq(LlmDeals(i, d))
  BY <1>1, <1>2, Zenon DEF LlmDeals
<1> QED  BY <1>3, <1>4, <1>5, <1>6, <1>7, <1>8, <1>9

\* A product of paisplus makes a deal for each priced entry and tier.
LEMMA PaisMade ==
  ASSUME NEW p, IsSeq(p.prices)
  PROVE  /\ IsSeq(PaisDeals(p, p)) /\ IsSeq(PaisStores(p))
         /\ \A e \in Range(p.prices) : \A price \in {e.club, e.discounted} :
              Range(PaisTier(p, e, price)) \subseteq Range(PaisDeals(p, p))
<1> DEFINE n == Len(p.prices)
           ss == [k \in DOMAIN p.prices |-> PaisTiers(p, p.prices[k])]
           store(e) == IF PaisTiers(p, e) = <<>> THEN <<>>
                       ELSE <<[BlankStore EXCEPT !.name = PaisStore(p, e), !.branch = PaisBranch(p, e)]>>
           tt == [k \in DOMAIN p.prices |-> store(p.prices[k])]
<1>1. n \in Nat /\ DOMAIN p.prices = 1 .. n
  BY SeqFacts
<1>2. \A x : IsSeq(<<x>>)
  BY One
<1>3. \A e, price : IsSeq(PaisTier(p, e, price))
  BY <1>2, NoPlaces, Zenon DEF PaisTier
<1>4. \A e : IsSeq(store(e))
  BY <1>2, NoPlaces, Zenon
<1>5. PaisDeals(p, p) = FlattenSeq(ss) /\ PaisStores(p) = FlattenSeq(tt)
  BY DEF PaisDeals, PaisStores
<1>6. /\ ss = [k \in 1 .. n |-> ss[k]] /\ tt = [k \in 1 .. n |-> tt[k]]
      /\ \A k \in 1 .. n :
           /\ ss[k] = PaisTier(p, p.prices[k], p.prices[k].club) \o PaisTier(p, p.prices[k], p.prices[k].discounted)
           /\ tt[k] = store(p.prices[k])
  BY <1>1 DEF PaisTiers
<1> HIDE DEF ss, tt, store, n
<1>7. IsSeq(ss) /\ Len(ss) = n /\ IsSeq(tt) /\ Len(tt) = n
  BY <1>1, <1>6, SeqFrom
<1>8. ASSUME NEW k \in 1 .. n
      PROVE  /\ IsSeq(ss[k])
             /\ Range(ss[k]) = Range(PaisTier(p, p.prices[k], p.prices[k].club))
                               \cup Range(PaisTier(p, p.prices[k], p.prices[k].discounted))
  <2> DEFINE s == PaisTier(p, p.prices[k], p.prices[k].club)
             t == PaisTier(p, p.prices[k], p.prices[k].discounted)
  <2>1. IsSeq(s) /\ IsSeq(t) /\ ss[k] = s \o t
    BY <1>3, <1>6
  <2> HIDE DEF s, t
  <2>2. IsSeq(s \o t)
    BY <2>1, SeqConcat
  <2>3. Range(s \o t) = Range(s) \cup Range(t)
    BY <2>1, ConcatHolds
  <2> QED  BY <2>1, <2>2, <2>3 DEF s, t
<1>9. IsSeq(FlattenSeq(ss)) /\ Range(FlattenSeq(ss)) = UNION {Range(ss[k]) : k \in 1 .. Len(ss)}
  BY <1>7, <1>8, FlatHolds
<1>10. IsSeq(FlattenSeq(tt))
  BY <1>4, <1>6, <1>7, FlatHolds
<1>11. ASSUME NEW e \in Range(p.prices), NEW price \in {e.club, e.discounted}
       PROVE  Range(PaisTier(p, e, price)) \subseteq Range(FlattenSeq(ss))
  <2>1. PICK k \in 1 .. n : p.prices[k] = e
    BY Held DEF n
  <2>2. Range(PaisTier(p, e, price)) \subseteq Range(ss[k])
    BY <1>8, <2>1
  <2>3. Range(ss[k]) \subseteq Range(FlattenSeq(ss))
    BY <1>7, <1>9
  <2> QED  BY <2>2, <2>3
<1> QED  BY <1>5, <1>9, <1>10, <1>11

\* A chit makes, for each named merchant or for itself, a deal by each rule of its tier.
LEMMA CardsMade ==
  ASSUME NEW s, NEW c, IsSeq(c.rules), NEW merchants, IsSeq(merchants)
  PROVE  /\ IsSeq(CashcardDeals(s, c, merchants))
         /\ \A x \in Range(CashcardDeals(s, c, merchants)) :
              \E t \in Range(ChitTargets(c, merchants)) : x.store = t.name
         /\ CardRules(s, c) # <<>> => \A t \in Range(ChitTargets(c, merchants)) : t.name # None =>
              \E x \in Range(CashcardDeals(s, c, merchants)) : x.desc[1] = t.name
<1> DEFINE targets == ChitTargets(c, merchants)
           rules == CardRules(s, c)
           made(t) == [r \in DOMAIN rules |-> CardDeal(s, c, t, rules[r])]
           ss == [k \in DOMAIN targets |-> IF targets[k].name = None THEN <<>> ELSE made(targets[k])]
<1>1. IsSeq(targets)
  <2>1. \A x : IsSeq(<<x>>)
    BY One
  <2> QED  BY <2>1, Zenon DEF ChitTargets
<1>2. IsSeq(rules)
  BY Kept DEF CardRules
<1>3. CashcardDeals(s, c, merchants) = FlattenSeq(ss)
  BY DEF CashcardDeals
<1> HIDE DEF targets, rules
<1>4. /\ Len(targets) \in Nat /\ DOMAIN targets = 1 .. Len(targets)
      /\ Len(rules) \in Nat /\ DOMAIN rules = 1 .. Len(rules)
  BY <1>1, <1>2, SeqFacts
<1>5. ASSUME NEW t
      PROVE  /\ IsSeq(made(t)) /\ \A d \in Range(made(t)) : \E r : d = CardDeal(s, c, t, r)
             /\ rules # <<>> => \E r : CardDeal(s, c, t, r) \in Range(made(t))
  <2> DEFINE m == made(t)
  <2>1. m = [r \in 1 .. Len(rules) |-> m[r]] /\ \A r \in 1 .. Len(rules) : m[r] = CardDeal(s, c, t, rules[r])
    BY <1>4
  <2> HIDE DEF m
  <2>2. IsSeq(m) /\ Len(m) = Len(rules)
    BY <1>4, <2>1, SeqFrom
  <2>3. ASSUME NEW d \in Range(m) PROVE \E r : d = CardDeal(s, c, t, r)
    <3>1. PICK k \in 1 .. Len(rules) : m[k] = d
      BY <2>2, Held
    <3> QED  BY <2>1, <3>1
  <2>4. ASSUME rules # <<>> PROVE \E r : CardDeal(s, c, t, r) \in Range(m)
    <3>1. Len(rules) # 0
      BY <1>2, <2>4, SeqFacts
    <3>2. 1 \in 1 .. Len(rules)
      BY <1>4, <3>1
    <3>3. m[1] \in Range(m) /\ m[1] = CardDeal(s, c, t, rules[1])
      BY <2>1, <2>2, <3>2, Held
    <3> QED  BY <3>3
  <2> QED  BY <2>2, <2>3, <2>4 DEF m
<1> HIDE DEF made
<1>6. ss = [k \in 1 .. Len(targets) |-> ss[k]] /\ \A k \in 1 .. Len(targets) : ss[k] = IF targets[k].name = None THEN <<>> ELSE made(targets[k])
  BY <1>4
<1> HIDE DEF ss
<1>7. IsSeq(ss) /\ Len(ss) = Len(targets)
  BY <1>4, <1>6, SeqFrom
<1>8. \A k \in 1 .. Len(ss) : IsSeq(ss[k])
  BY <1>5, <1>6, <1>7, NoPlaces
<1>9. IsSeq(FlattenSeq(ss)) /\ Range(FlattenSeq(ss)) = UNION {Range(ss[k]) : k \in 1 .. Len(ss)}
  BY <1>7, <1>8, FlatHolds
<1>10. ASSUME NEW x \in Range(FlattenSeq(ss)) PROVE \E t \in Range(targets) : x.store = t.name
  <2>1. PICK k \in 1 .. Len(targets) : x \in Range(ss[k])
    BY <1>7, <1>9
  <2>2. targets[k] \in Range(targets)
    BY <1>1, Held
  <2>3. x \in Range(made(targets[k]))
    BY <1>6, <2>1, NoneHeld
  <2>4. PICK r : x = CardDeal(s, c, targets[k], r)
    BY <1>5, <2>3
  <2>5. x.store = targets[k].name
    BY <2>4 DEF CardDeal, BlankDeal
  <2> QED  BY <2>2, <2>5
<1>11. ASSUME rules # <<>>, NEW t \in Range(targets), t.name # None
       PROVE  \E x \in Range(FlattenSeq(ss)) : x.desc[1] = t.name
  <2>1. PICK k \in 1 .. Len(targets) : targets[k] = t
    BY <1>1, Held
  <2>2. ss[k] = made(t)
    BY <1>6, <1>11, <2>1
  <2>3. Range(made(t)) \subseteq Range(FlattenSeq(ss))
    BY <1>7, <1>9, <2>2
  <2>4. PICK r : CardDeal(s, c, t, r) \in Range(made(t))
    BY <1>5, <1>11
  <2>5. CardDeal(s, c, t, r).desc[1] = t.name
    BY DEF CardDeal, BlankDeal
  <2> QED  BY <2>3, <2>4, <2>5
<1> QED  BY <1>3, <1>9, <1>10, <1>11 DEF targets, rules

\* The sources the cash cards are.
LEMMA CashcardNames == Cashcards = {"networks_regular", "networks_vip", "food_regular", "food_vip"}
BY DEF Cashcards, CashcardTiers

\* The items are gathered from the listing, or there are none.
LEMMA ItemsAre ==
  ASSUME ScrapeInv, source # "swish"
  PROVE  items = Gathered \/ items = <<>>
BY DEF ScrapeInv, RecordsAreMade

\* The adapter of each source.
LEMMA DealsBySource ==
  ASSUME NEW i, NEW outcome, NEW d, d = DetailOf(i, outcome)
  PROVE  /\ source = "hot" => DealsOf(i, outcome) = HotDeals(i, d)
         /\ source = "behatsdaa" => DealsOf(i, outcome) = BehatsdaaDeals(i, d)
         /\ source = "hever" => DealsOf(i, outcome) = HeverDeals(i, d)
         /\ source = "paisplus" => DealsOf(i, outcome) = IF d = None THEN <<>> ELSE PaisDeals(d, d)
         /\ source \in Cashcards => DealsOf(i, outcome) = IF d = None THEN <<>> ELSE CashcardDeals(source, i, d)
         /\ source = "mastercard" => DealsOf(i, outcome) = MastercardDeals(i, d)
         /\ source = "teamim" => DealsOf(i, outcome) = TeamimDeals(i, d)
         /\ source = "topcash" => DealsOf(i, outcome) = TopcashDeals(i, d)
         /\ source = "llm" => DealsOf(i, outcome) = LlmDeals(i, d)
BY CashcardNames DEF DealsOf

\* What an item makes is a list of deals.
LEMMA DealsAreLists ==
  ASSUME ScrapeInv, source # "swish", NEW k \in 1 .. Len(items)
  PROVE  IsSeq(DealsOf(items[k], Outcome(k)))
<1> DEFINE i == items[k]
           d == DetailOf(items[k], Outcome(k))
<1>1. source \in Sources /\ source # "swish"
  BY DEF ScrapeInv
<1>2. IsSeq(items) /\ (source # "teamim" => Range(items) \subseteq Range(Whole(source)))
  BY ItemsAre, ItemsHold
<1>3. source # "teamim" => i \in Range(Whole(source))
  BY <1>2, Held
<1>4. source = "paisplus" /\ d # None => i.id # None /\ d = Truth[source][i.id]
  BY ProductKnown
<1>8. source \in Cashcards /\ i \in Range(Whole(source)) /\ d # None => IsSeq(i.rules) /\ IsSeq(d)
  BY ChitKnown
<1> HIDE DEF i, d
<1>5. CASE source \in Cashcards
  <2>1. source \notin {"hot", "mastercard", "behatsdaa", "hever", "teamim", "topcash", "llm", "paisplus"}
    BY <1>5, CashcardNames
  <2>2. DealsOf(items[k], Outcome(k)) = IF d = None THEN <<>> ELSE CashcardDeals(source, i, d)
    BY <1>5, DealsBySource DEF d, i
  <2>3. CASE d = None
    BY <2>2, <2>3, NoPlaces
  <2>4. CASE d # None
    <3>1. i \in Range(Whole(source))
      BY <1>3, <2>1
    <3>2. IsSeq(i.rules) /\ IsSeq(d)
      BY <1>5, <1>8, <2>4, <3>1
    <3>3. IsSeq(CashcardDeals(source, i, d))
      BY <3>2, CardsMade
    <3> QED  BY <2>2, <2>4, <3>3
  <2> QED  BY <2>3, <2>4
<1>6. CASE source = "paisplus"
  <2>1. DealsOf(items[k], Outcome(k)) = IF d = None THEN <<>> ELSE PaisDeals(d, d)
    BY <1>6, DealsBySource DEF d, i
  <2>2. CASE d = None
    BY <2>1, <2>2, NoPlaces
  <2>3. CASE d # None
    <3>1. i.id # None /\ d = Truth[source][i.id]
      BY <1>4, <1>6, <2>3
    <3>2. IsSeq(d.prices)
      BY <1>1, <1>3, <1>6, <3>1, TruthAssumption
    <3>3. IsSeq(PaisDeals(d, d))
      BY <3>2, PaisMade
    <3> QED  BY <2>1, <2>3, <3>3
  <2> QED  BY <2>2, <2>3
<1>7. CASE source \in {"hot", "mastercard", "behatsdaa", "hever", "teamim", "topcash", "llm"}
  <2>1. \/ DealsOf(items[k], Outcome(k)) = HotDeals(i, d)
        \/ DealsOf(items[k], Outcome(k)) = MastercardDeals(i, d)
        \/ DealsOf(items[k], Outcome(k)) = BehatsdaaDeals(i, d)
        \/ DealsOf(items[k], Outcome(k)) = HeverDeals(i, d)
        \/ DealsOf(items[k], Outcome(k)) = TeamimDeals(i, d)
        \/ DealsOf(items[k], Outcome(k)) = TopcashDeals(i, d)
        \/ DealsOf(items[k], Outcome(k)) = LlmDeals(i, d)
    BY <1>7, DealsBySource DEF d, i
  <2> QED  BY <2>1, FewDeals
<1> QED  BY <1>1, <1>5, <1>6, <1>7, SitesAssumption

\* The deals are those of the items, and of hot one for each item, in their order.
LEMMA DealsHold ==
  ASSUME ScrapeInv, source # "swish"
  PROVE  /\ IsSeq(deals)
         /\ \A x \in Range(deals) : \E k \in 1 .. Len(items) : x \in Range(DealsOf(items[k], Outcome(k)))
         /\ phase = "done" => \A k \in 1 .. Len(items) : Range(DealsOf(items[k], Outcome(k))) \subseteq Range(deals)
         /\ source = "hot" =>
              /\ \A k \in DOMAIN deals :
                   k \in 1 .. Len(items) /\ deals[k] = HotDeals(items[k], DetailOf(items[k], Outcome(k)))[1]
              /\ phase = "done" => DOMAIN deals = DOMAIN items
<1> DEFINE ss == [k \in DOMAIN items |-> DealsOf(items[k], Outcome(k))]
<1>1. IsSeq(items) /\ Len(items) \in Nat /\ DOMAIN items = 1 .. Len(items)
  BY ItemsAre, ItemsHold
<1>2. \A k \in 1 .. Len(items) : IsSeq(DealsOf(items[k], Outcome(k)))
  BY DealsAreLists
<1>3. CASE deals = <<>> /\ (phase = "done" => items = <<>>)
  <2>1. IsSeq(deals) /\ Range(deals) = {} /\ DOMAIN deals = {}
    BY <1>3, NoPlaces, NoneHeld
  <2>2. phase = "done" => 1 .. Len(items) = {} /\ DOMAIN items = {}
    <3>1. phase = "done" => Len(items) = 0
      BY <1>3, NoPlaces
    <3> QED  BY <1>1, <3>1
  <2> QED  BY <2>1, <2>2
<1>4. CASE deals = DealsMade
  <2>1. deals = FlattenSeq(ss)
    BY <1>4 DEF DealsMade
  <2>2. ss = [k \in 1 .. Len(items) |-> ss[k]] /\ \A k \in 1 .. Len(items) : ss[k] = DealsOf(items[k], Outcome(k))
    BY <1>1
  <2> HIDE DEF ss
  <2>3. IsSeq(ss) /\ Len(ss) = Len(items)
    BY <1>1, <2>2, SeqFrom
  <2>4. \A k \in 1 .. Len(ss) : IsSeq(ss[k])
    BY <1>2, <2>2, <2>3
  <2>5. IsSeq(FlattenSeq(ss)) /\ Range(FlattenSeq(ss)) = UNION {Range(ss[k]) : k \in 1 .. Len(ss)}
    BY <2>3, <2>4, FlatHolds
  <2>6. ASSUME NEW x \in Range(deals) PROVE \E k \in 1 .. Len(items) : x \in Range(DealsOf(items[k], Outcome(k)))
    <3>1. PICK k \in 1 .. Len(ss) : x \in Range(ss[k])
      BY <2>1, <2>5
    <3> QED  BY <2>2, <2>3, <3>1
  <2>7. ASSUME NEW k \in 1 .. Len(items) PROVE Range(DealsOf(items[k], Outcome(k))) \subseteq Range(deals)
    <3>1. Range(ss[k]) \subseteq Range(deals)
      BY <2>1, <2>3, <2>5
    <3> QED  BY <2>2, <3>1
  <2>8. ASSUME source = "hot"
        PROVE  /\ DOMAIN deals = 1 .. Len(items)
               /\ \A k \in 1 .. Len(items) : deals[k] = HotDeals(items[k], DetailOf(items[k], Outcome(k)))[1]
    <3>1. \A k \in 1 .. Len(items) : ss[k] = HotDeals(items[k], DetailOf(items[k], Outcome(k)))
      BY <2>2, <2>8, DealsBySource
    <3>2. \A k \in 1 .. Len(ss) : IsSeq(ss[k]) /\ Len(ss[k]) = 1
      BY <2>3, <3>1, FewDeals
    <3>3. /\ IsSeq(FlattenSeq(ss)) /\ Len(FlattenSeq(ss)) = Len(ss)
          /\ \A k \in 1 .. Len(ss) : FlattenSeq(ss)[k] = ss[k][1]
      BY <2>3, <3>2, FlatSingles
    <3>4. DOMAIN deals = 1 .. Len(items)
      BY <2>1, <2>3, <3>3, SeqFacts
    <3> QED  BY <2>1, <2>3, <3>1, <3>3, <3>4
  <2> QED  BY <1>1, <2>1, <2>5, <2>6, <2>7, <2>8
<1> QED  BY <1>3, <1>4 DEF ScrapeInv, RecordsAreMade

-----------------------------------------------------------------------------
\* An item that is taken is delivered, if the listing is gathered whole.
LEMMA TakenIsDelivered ==
  ASSUME ScrapeInv, source # "swish", items = Gathered, NEW c \in Sections, NEW i, Taken(c, i), Expected(i)
  PROVE  \E k \in 1 .. Len(items) : SameItem(i, items[k])
<1> DEFINE all == FlattenSeq(rows)
<1>1. IsSeq(all) /\ Range(all) = UNION {Range(rows[b]) : b \in Sections}
  BY RowsHold
<1>2. IsSeq(items) /\ DOMAIN items = 1 .. Len(items)
  BY ItemsHold
<1>3. CASE source = "hot"
  <2>1. items = all
    BY <1>3 DEF Gathered, Listed
  <2>2. PICK b \in Sections : \E j \in Range(rows[b]) : j.id = i.id
    BY <1>3 DEF Taken, Expected
  <2>3. PICK j \in Range(rows[b]) : j.id = i.id
    BY <2>2
  <2>4. j \in Range(items)
    BY <1>1, <2>1
  <2>5. PICK k \in 1 .. Len(items) : items[k] = j
    BY <1>2, <2>4, Held
  <2> QED  BY <1>3, <2>3, <2>5 DEF SameItem
<1>4. CASE source # "hot"
  <2>1. i \in Range(all)
    BY <1>1, <1>4 DEF Taken
  <2>2. CASE source = "paisplus"
    <3> DEFINE keys == [k \in DOMAIN all |-> all[k].id]
    <3>1. items = Firsts(all, keys)
      BY <2>2 DEF Gathered, Listed
    <3>2. DOMAIN all = 1 .. Len(all) /\ \A k \in DOMAIN all : keys[k] = all[k].id
      BY <1>1, SeqFacts
    <3>3. PICK n \in 1 .. Len(all) : all[n] = i
      BY <1>1, <2>1, Held
    <3> HIDE DEF keys, all
    <3>4. \E g : TakesFirsts(g, items, all, keys)
      <4>1. IsSeq(all)
        BY <1>1
      <4> QED  BY <3>1, <4>1, FirstsTaken
    <3>5. PICK g : TakesFirsts(g, items, all, keys)
      BY <3>4
    <3>6. PICK k \in 1 .. Len(items) : keys[g[k]] = keys[n]
      BY <3>5 DEF TakesFirsts
    <3>7. g[k] \in 1 .. Len(all) /\ items[k] = all[g[k]]
      BY <3>5 DEF TakesFirsts
    <3>8. items[k].id = i.id
      BY <3>2, <3>3, <3>6, <3>7
    <3> QED  BY <2>2, <3>8 DEF SameItem
  <2>3. CASE source = "behatsdaa"
    <3> DEFINE usable == {x \in Range(all) : UsableWallet(x.wallet)}
    <3>1. items = Keep(all, usable)
      BY <2>3 DEF Gathered, Listed
    <3>2. i \in usable
      BY <2>1, <2>3 DEF Expected
    <3> HIDE DEF usable, all
    <3>3. IsSeq(all)
      BY <1>1
    <3>4. Range(items) = Range(all) \cap usable
      BY <3>1, <3>3, Kept
    <3>5. PICK k \in 1 .. Len(items) : items[k] = i
      BY <1>2, <2>1, <3>2, <3>4, Held
    <3> QED  BY <2>3, <3>5, CashcardNames DEF SameItem
  <2>4. CASE source = "teamim"
    <3>1. items = GroupBranches(all)
      BY <2>4 DEF Gathered, Listed
    <3>2. i.name # <<>>
      BY <2>4 DEF Expected
    <3> HIDE DEF all
    <3>3. IsSeq(all)
      BY <1>1
    <3>4. \E k \in 1 .. Len(items) : i \in Range(items[k])
      BY <2>1, <3>1, <3>2, <3>3, BranchesAreGrouped
    <3> QED  BY <2>4, <3>4 DEF SameItem
  <2>5. CASE source \notin {"paisplus", "behatsdaa", "teamim"}
    <3>1. items = all
      BY <1>4, <2>5 DEF Gathered, Listed
    <3>2. PICK k \in 1 .. Len(items) : items[k] = i
      BY <1>2, <2>1, <3>1, Held
    <3> QED  BY <1>4, <2>5, <3>2 DEF SameItem
  <2> QED  BY <2>2, <2>3, <2>4, <2>5
<1> QED  BY <1>3, <1>4

\* Every item of a section that no failure cut short is delivered with its deals.
LEMMA AnsweredIsDeliveredHolds == ScrapeInv /\ RaisedForAReason => AnsweredIsDelivered
<1> SUFFICES ASSUME ScrapeInv, phase = "done", source # "swish", NEW c \in DOMAIN page \ broken,
                    NEW i \in Range(FlattenSeq(Sites[source][c])), Expected(i)
             PROVE  \E k \in DOMAIN items : /\ SameItem(i, items[k])
                                            /\ Range(DealsOf(items[k], Outcome(k))) \subseteq Range(deals)
  BY DEF AnsweredIsDelivered, RaisedForAReason
<1>1. source \in Sources /\ RowsTypeOK /\ PagesAreTaken /\ SectionsEnd /\ RecordsAreMade
  BY DEF ScrapeInv
<1>2. c \in Sections /\ c \notin broken /\ page[c] = 0
  BY <1>1 DEF RowsTypeOK, SectionsEnd
<1>3. items = Gathered
  BY <1>1, <1>2 DEF RecordsAreMade
<1>4. PICK n \in DOMAIN Sites[source][c] : i \in Range(Sites[source][c][n])
  <2>1. Range(FlattenSeq(Sites[source][c])) = UNION {Range(Sites[source][c][n]) : n \in DOMAIN Sites[source][c]}
    BY <1>1, <1>2, SiteFacts DEF Sections
  <2> QED  BY <2>1
<1>5. Taken(c, i)
  BY <1>1, <1>2, <1>4 DEF PagesAreTaken
<1>6. PICK k \in 1 .. Len(items) : SameItem(i, items[k])
  BY <1>2, <1>3, <1>5, TakenIsDelivered
<1>7. k \in DOMAIN items /\ Range(DealsOf(items[k], Outcome(k))) \subseteq Range(deals)
  BY <1>3, <1>6, ItemsHold, DealsHold
<1> QED  BY <1>6, <1>7

\* The stores each adapter makes of an item.
LEMMA StoresBySource ==
  ASSUME NEW i, NEW outcome, NEW d, d = DetailOf(i, outcome)
  PROVE  /\ source = "hot" => StoresOf(i, outcome) = HotStores(i)
         /\ source = "teamim" => StoresOf(i, outcome) = TeamimStores(i)
         /\ source = "paisplus" => StoresOf(i, outcome) = IF d = None THEN <<>> ELSE PaisStores(d)
BY CashcardNames DEF StoresOf

\* The stores of one item are a list, and a restaurant is one store under its canonical name.
LEMMA StoresAreLists ==
  ASSUME ScrapeInv, source \in {"hot", "paisplus", "teamim"}, NEW k \in 1 .. Len(items)
  PROVE  /\ IsSeq(StoresOf(items[k], Outcome(k)))
         /\ source = "teamim" => /\ Len(StoresOf(items[k], Outcome(k))) = 1
                                 /\ StoresOf(items[k], Outcome(k))[1].name = CanonicalName(items[k])
<1> DEFINE i == items[k]
           d == DetailOf(items[k], Outcome(k))
<1>1. source \in Sources /\ source # "swish"
  BY DEF ScrapeInv
<1>2. \A x : IsSeq(<<x>>) /\ Len(<<x>>) = 1 /\ <<x>>[1] = x
  BY One
<1>3. CASE source = "hot"
  <2>1. StoresOf(items[k], Outcome(k)) = HotStores(i)
    BY <1>3, StoresBySource DEF i
  <2> HIDE DEF i
  <2>2. IsSeq(HotStores(i))
    BY <1>2, NoPlaces, Zenon DEF HotStores
  <2> QED  BY <1>3, <2>1, <2>2
<1>4. CASE source = "teamim"
  <2>1. StoresOf(items[k], Outcome(k)) = TeamimStores(i)
    BY <1>4, StoresBySource DEF i
  <2> HIDE DEF i
  <2> DEFINE store == [BlankStore EXCEPT !.name = CanonicalName(i), !.url = FirstNonempty([n \in DOMAIN i |-> i[n].website])]
  <2>2. TeamimStores(i) = <<store>>
    BY DEF TeamimStores
  <2>3. store.name = CanonicalName(i)
    BY DEF BlankStore
  <2> HIDE DEF store
  <2> QED  BY <1>2, <2>1, <2>2, <2>3 DEF i
<1>5. CASE source = "paisplus"
  <2>1. StoresOf(items[k], Outcome(k)) = IF d = None THEN <<>> ELSE PaisStores(d)
    BY <1>5, StoresBySource DEF d
  <2>2. d # None => i.id # None /\ d = Truth[source][i.id]
    BY <1>5, ProductKnown
  <2>3. i \in Range(Whole(source))
    <3>1. IsSeq(items) /\ Range(items) \subseteq Range(Whole(source))
      BY <1>1, <1>5, ItemsAre, ItemsHold
    <3> QED  BY <3>1, Held
  <2> HIDE DEF i, d
  <2>4. CASE d = None
    BY <1>5, <2>1, <2>4, NoPlaces
  <2>5. CASE d # None
    <3>1. i.id # None /\ d = Truth[source][i.id]
      BY <1>5, <2>2, <2>5
    <3>2. IsSeq(d.prices)
      BY <1>1, <1>5, <2>3, <3>1, TruthAssumption
    <3>3. IsSeq(PaisStores(d))
      BY <3>2, PaisMade
    <3> QED  BY <1>5, <2>1, <2>5, <3>3
  <2> QED  BY <2>4, <2>5
<1> QED  BY <1>3, <1>4, <1>5

\* No two stores are one.
LEMMA StoresAreApart ==
  ASSUME ScrapeInv, ChainsAreNamedApart, phase = "done", source \in {"hot", "paisplus", "teamim"},
         NEW j \in DOMAIN stores, NEW k \in DOMAIN stores,
         stores[j].name = stores[k].name, stores[j].branch = stores[k].branch
  PROVE  j = k
<1> DEFINE ss == [n \in DOMAIN items |-> StoresOf(items[n], Outcome(n))]
           all == FlattenSeq(ss)
           keys == [n \in DOMAIN all |-> IF source = "paisplus" THEN <<all[n].name, all[n].branch>> ELSE <<all[n].name>>]
<1>1. source \in Sources /\ source # "swish" /\ RowsTypeOK /\ RecordsAreMade
  BY DEF ScrapeInv
<1>2. IsSeq(items) /\ Len(items) \in Nat /\ DOMAIN items = 1 .. Len(items)
  BY <1>1, ItemsAre, ItemsHold
<1>3. stores # <<>>
  OBVIOUS
<1>4. items = Gathered /\ stores = StoresMade /\ AllListed
  BY <1>1, <1>3 DEF RecordsAreMade
<1>5. ss = [n \in 1 .. Len(items) |-> ss[n]] /\ \A n \in 1 .. Len(items) : ss[n] = StoresOf(items[n], Outcome(n))
  BY <1>2
<1>6. stores = IF source = "teamim" THEN all ELSE Firsts(all, keys)
  BY <1>4 DEF StoresMade, OneOfEach
<1>7. \A n \in DOMAIN all : keys[n] = IF source = "paisplus" THEN <<all[n].name, all[n].branch>> ELSE <<all[n].name>>
  OBVIOUS
<1> HIDE DEF keys, all, ss
<1>8. IsSeq(ss) /\ Len(ss) = Len(items)
  BY <1>2, <1>5, SeqFrom
<1>9. \A n \in 1 .. Len(ss) : IsSeq(ss[n])
  BY <1>5, <1>8, StoresAreLists
<1>10. IsSeq(all)
  BY <1>8, <1>9, FlatHolds DEF all
<1>11. CASE source # "teamim"
  <2>1. IsSeq(stores) /\ \E g : TakesFirsts(g, stores, all, keys)
    <3>1. stores = Firsts(all, keys)
      BY <1>6, <1>11
    <3> QED  BY <1>10, <3>1, FirstsTaken
  <2>2. PICK g : TakesFirsts(g, stores, all, keys)
    BY <2>1
  <2>3. DOMAIN stores = 1 .. Len(stores) /\ DOMAIN all = 1 .. Len(all)
    BY <1>10, <2>1, SeqFacts
  <2>4. \A n \in DOMAIN stores : g[n] \in DOMAIN all /\ stores[n] = all[g[n]]
    BY <2>2, <2>3 DEF TakesFirsts
  <2>5. keys[g[j]] = keys[g[k]]
    <3>1. \A n \in DOMAIN stores : keys[g[n]] = IF source = "paisplus" THEN <<stores[n].name, stores[n].branch>> ELSE <<stores[n].name>>
      BY <1>7, <2>4
    <3>2. /\ keys[g[j]] = IF source = "paisplus" THEN <<stores[j].name, stores[j].branch>> ELSE <<stores[j].name>>
          /\ keys[g[k]] = IF source = "paisplus" THEN <<stores[k].name, stores[k].branch>> ELSE <<stores[k].name>>
      BY <3>1
    <3> QED  BY <3>2
  <2> QED  BY <2>2, <2>3, <2>5 DEF TakesFirsts
<1>12. CASE source = "teamim"
  <2>1. \A n \in 1 .. Len(ss) : IsSeq(ss[n]) /\ Len(ss[n]) = 1 /\ ss[n][1].name = CanonicalName(items[n])
    BY <1>5, <1>8, <1>12, StoresAreLists
  <2>2. IsSeq(all) /\ Len(all) = Len(ss) /\ \A n \in 1 .. Len(ss) : all[n] = ss[n][1]
    BY <1>8, <2>1, FlatSingles DEF all
  <2>3. stores = all /\ DOMAIN stores = 1 .. Len(items) /\ \A n \in 1 .. Len(items) : stores[n].name = CanonicalName(items[n])
    BY <1>6, <1>8, <1>12, <2>1, <2>2, SeqFacts
  <2>4. rows = [c \in DOMAIN Sites["teamim"] |-> FlattenSeq(Sites["teamim"][c])]
    <3>1. \A c \in Sections : rows[c] = FlattenSeq(Sites["teamim"][c])
      BY <1>4, <1>12 DEF AllListed, Paged
    <3>2. IsSeq(rows) /\ Len(rows) = Len(Sites["teamim"])
      BY <1>1, <1>12 DEF RowsTypeOK
    <3>3. rows = [c \in 1 .. Len(rows) |-> rows[c]]
      BY <3>2, SeqFacts
    <3>4. Sections = 1 .. Len(rows) /\ Sections = DOMAIN Sites["teamim"]
      BY <1>1, <1>12, <3>2, SiteFacts DEF Sections
    <3> QED  BY <3>1, <3>3, <3>4
  <2>5. items = GroupBranches(Whole("teamim"))
    BY <1>4, <1>12, <2>4 DEF Gathered, Listed, Whole
  <2>6. j # k => CanonicalName(items[j]) # CanonicalName(items[k])
    BY <1>1, <1>2, <1>12, <2>3, <2>5 DEF ChainsAreNamedApart
  <2> QED  BY <2>3, <2>6
<1> QED  BY <1>11, <1>12

\* No two items are one offer, and no two stores one.
LEMMA OffersAreTakenOnceHolds ==
  ASSUME ChainsAreNamedApart
  PROVE  ScrapeInv => OffersAreTakenOnce
<1> SUFFICES ASSUME ScrapeInv, phase = "done", source \in {"hot", "paisplus", "teamim"}
             PROVE  /\ \A j, k \in DOMAIN items : j # k =>
                         IF source = "teamim" THEN \A a \in Range(items[j]), b \in Range(items[k]) : ~Linked(a, b)
                         ELSE ~SameItem(items[j], items[k])
                    /\ IsInjective([k \in DOMAIN stores |-> <<stores[k].name, stores[k].branch>>])
  BY DEF OffersAreTakenOnce
<1>1. items = Gathered \/ items = <<>>
  BY ItemsAre
<1>2. /\ DOMAIN items = 1 .. Len(items)
      /\ source \in {"hot", "paisplus"} => \A j, k \in 1 .. Len(items) : items[j].id = items[k].id => j = k
  BY <1>1, ItemsHold
<1>3. ASSUME NEW j \in DOMAIN items, NEW k \in DOMAIN items, j # k
      PROVE  IF source = "teamim" THEN \A a \in Range(items[j]), b \in Range(items[k]) : ~Linked(a, b)
             ELSE ~SameItem(items[j], items[k])
  <2>1. CASE source = "teamim"
    <3>1. items = GroupBranches(FlattenSeq(rows))
      <4>1. items # <<>>
        OBVIOUS
      <4> QED  BY <1>1, <2>1, <4>1 DEF Gathered, Listed
    <3>2. IsSeq(FlattenSeq(rows))
      BY RowsHold
    <3>3. \A a \in Range(items[j]), b \in Range(items[k]) : ~Linked(a, b)
      BY <1>2, <1>3, <3>1, <3>2, BranchesAreGrouped
    <3> QED  BY <2>1, <3>3
  <2>2. CASE source # "teamim"
    BY <1>2, <1>3, <2>2 DEF SameItem
  <2> QED  BY <2>1, <2>2
<1>4. IsInjective([k \in DOMAIN stores |-> <<stores[k].name, stores[k].branch>>])
  <2> DEFINE f == [k \in DOMAIN stores |-> <<stores[k].name, stores[k].branch>>]
  <2>1. ASSUME NEW j \in DOMAIN f, NEW k \in DOMAIN f, f[j] = f[k] PROVE j = k
    <3>1. j \in DOMAIN stores /\ k \in DOMAIN stores /\ stores[j].name = stores[k].name /\ stores[j].branch = stores[k].branch
      BY <2>1
    <3> QED  BY <3>1, StoresAreApart
  <2> HIDE DEF f
  <2>2. IsInjective(f)
    BY <2>1 DEF IsInjective
  <2> QED  BY <2>2 DEF f
<1> QED  BY <1>3, <1>4

-----------------------------------------------------------------------------
\* Whatever requests fail, and in whatever order their answers come: every item of a
\* section that no failure cut short is delivered with its deals, only a failed opening or
\* an answer that cannot be read ends the scrape with nothing, and no offer, branch or
\* store is taken twice; if no two restaurants come out with one name.
THEOREM OffersArriveOnce ==
  ASSUME ChainsAreNamedApart
  PROVE  Spec => []EachOfferArrivesOnce
<1>1. Init => ScrapeInv
  BY ScrapeInvInit
<1>2. ScrapeInv /\ [Next]_<<vars, scanVars>> => ScrapeInv'
  BY ScrapeInvStep
<1>3. Init => RaisedForAReason
  BY RaisedInit
<1>4. ScrapeInv /\ RaisedForAReason /\ [Next]_<<vars, scanVars>> => RaisedForAReason'
  BY RaisedStep
<1>5. ScrapeInv /\ RaisedForAReason => EachOfferArrivesOnce
  BY AnsweredIsDeliveredHolds, OffersAreTakenOnceHolds DEF EachOfferArrivesOnce
<1> QED  BY <1>1, <1>2, <1>3, <1>4, <1>5, PTL DEF Spec

-----------------------------------------------------------------------------
\* A run of words within another's is within what holds the other.
LEMMA InsideOfInside ==
  ASSUME NEW a, IsSeq(a), NEW b, IsSeq(b), NEW text, IsSeq(text), Inside(a \o b, text)
  PROVE  Inside(a, text)
<1>1. Len(a) \in Nat /\ Len(b) \in Nat /\ Len(text) \in Nat
  BY SeqFacts
<1>2. Len(a \o b) = Len(a) + Len(b) /\ \A n \in 1 .. Len(a) : (a \o b)[n] = a[n]
  BY SeqConcat
<1>3. PICK i \in 0 .. Len(text) - (Len(a) + Len(b)) : SubSeq(text, i + 1, i + (Len(a) + Len(b))) = a \o b
  BY <1>2 DEF Inside
<1>4. i \in 0 .. Len(text) - Len(a) /\ i \in Nat
  BY <1>1, <1>3
<1>5. \A n \in 1 .. Len(a) : text[i + n] = a[n]
  <2> SUFFICES ASSUME NEW n \in 1 .. Len(a) PROVE text[i + n] = a[n]
    OBVIOUS
  <2>1. n \in 1 .. Len(a) + Len(b)
    BY <1>1
  <2>2. SubSeq(text, i + 1, i + (Len(a) + Len(b)))[n] = text[i + n]
    BY <1>1, <1>4, <2>1
  <2> QED  BY <1>2, <1>3, <2>2
<1>6. SubSeq(text, i + 1, i + Len(a)) = [n \in 1 .. Len(a) |-> text[i + n]]
  BY <1>1, <1>4
<1>7. a = [n \in 1 .. Len(a) |-> a[n]]
  BY SeqFacts
<1>8. SubSeq(text, i + 1, i + Len(a)) = a
  BY <1>5, <1>6, <1>7
<1> QED  BY <1>4, <1>8 DEF Inside

\* LookupKey: the key of the page that is the chain's own or names it.
LEMMA LookupNames ==
  ASSUME NEW k, IsSeq(k), LookupKey(k) # None
  PROVE  IsSeq(LookupKey(k)) /\ Inside(k, LookupKey(k))
<1> DEFINE around == {p \in Limitations : Inside(k, p)}
<1>1. CASE k \in Limitations
  <2>1. LookupKey(k) = k
    BY <1>1 DEF LookupKey
  <2>2. Len(k) \in Nat /\ k \in Seq(Range(k))
    BY SeqFacts DEF IsSeq
  <2>3. SubSeq(k, 0 + 1, 0 + Len(k)) = k /\ 0 \in 0 .. Len(k) - Len(k)
    BY <2>2
  <2> QED  BY <2>1, <2>3 DEF Inside
<1>2. CASE k \notin Limitations
  <2>1. around # {} /\ LookupKey(k) = CHOOSE p \in around : \A q \in around : Len(p) <= Len(q)
    BY <1>2 DEF LookupKey
  <2>2. \A p \in around : IsSeq(p) /\ Inside(k, p) /\ Len(p) \in Nat
    BY ReferenceAssumption, SeqFacts
  <2> HIDE DEF around
  <2>3. \E p \in around : \A q \in around : Len(p) <= Len(q)
    <3> DEFINE lengths == {Len(p) : p \in around}
    <3>1. lengths \in SUBSET Nat /\ lengths # {}
      BY <2>1, <2>2
    <3>2. \A p \in around : Len(p) \in lengths
      OBVIOUS
    <3>3. \A n \in lengths : \E p \in around : Len(p) = n
      OBVIOUS
    <3> HIDE DEF lengths
    <3>4. Min(lengths) \in lengths /\ \A n \in lengths : Min(lengths) <= n
      BY <3>1, LeastMember
    <3>5. PICK p \in around : Len(p) = Min(lengths)
      BY <3>3, <3>4
    <3> QED  BY <3>2, <3>4, <3>5
  <2>4. LookupKey(k) \in around
    BY <2>1, <2>3
  <2> QED  BY <2>2, <2>4
<1> QED  BY <1>1, <1>2

\* ClassifyGroupDeal: of a group that has stores, one of them or the group.
LEMMA ClassifiedIsKnown ==
  ASSUME NEW brand \in DOMAIN Groups, NEW title, Groups[brand].stores # <<>>
  PROVE  ClassifyGroupDeal(brand, title).store \in {brand.base} \cup {m.name : m \in Range(Groups[brand].stores)}
<1> DEFINE group == Groups[brand]
           named == {n \in DOMAIN group.stores : group.stores[n].name \in title.words}
           wide == [store |-> CleanStoreName(brand), members |-> group.stores]
           one(name) == [store |-> name, members |-> <<>>]
<1>1. IsSeq(group.stores)
  BY ReferenceAssumption
<1>2. \/ ClassifyGroupDeal(brand, title) = wide
      \/ named # {} /\ ClassifyGroupDeal(brand, title) = one(group.stores[Min(named)].name)
  BY DEF ClassifyGroupDeal
<1>3. CASE ClassifyGroupDeal(brand, title) = wide
  BY <1>3 DEF CleanStoreName
<1>4. CASE named # {} /\ ClassifyGroupDeal(brand, title) = one(group.stores[Min(named)].name)
  <2>1. named \in SUBSET Nat /\ named \subseteq DOMAIN group.stores
    <3>1. DOMAIN group.stores = 1 .. Len(group.stores)
      BY <1>1, SeqFacts
    <3> QED  BY <3>1
  <2> HIDE DEF named
  <2>2. Min(named) \in DOMAIN group.stores
    BY <1>4, <2>1, LeastMember
  <2>3. group.stores[Min(named)] \in Range(group.stores)
    BY <2>2 DEF Range
  <2>4. ClassifyGroupDeal(brand, title).store = group.stores[Min(named)].name
    BY <1>4
  <2> QED  BY <2>3, <2>4
<1> QED  BY <1>2, <1>3, <1>4

\* A deal of hot: who takes it, and the reward its detail states.
LEMMA HotDealIs ==
  ASSUME NEW i, NEW d
  PROVE  /\ i.brand # None => HotDeals(i, d)[1].store = HotStore(i).store
         /\ d # None => HotDeals(i, d)[1].logic = HotDiscount(d.main, d.text)
<1> DEFINE where == IF i.brand = None THEN [store |-> i.title.text, members |-> <<>>] ELSE HotStore(i)
           desc == IF i.description = None THEN <<i.title>> ELSE <<i.title, i.description>>
           url == IF i.website # None THEN i.website ELSE <<"benefit", i.id>>
           benefit == IF d = None THEN i.link ELSE FirstOf(d.link, i.link)
           terms == IF d = None THEN i.terms ELSE d.terms
           logic == IF d = None THEN None ELSE HotDiscount(d.main, d.text)
           type == IF i.main.type \in DOMAIN HotDealType THEN HotDealType[i.main.type] ELSE None
           deal == [BlankDeal EXCEPT !.store = where.store, !.members = where.members, !.desc = desc, !.price = i.price,
                      !.title = i.title, !.url = url, !.benefit = benefit, !.terms = terms, !.logic = logic, !.type = type]
<1>1. HotDeals(i, d) = <<deal>>
  BY DEF HotDeals
<1>2. i.brand # None => where.store = HotStore(i).store
  OBVIOUS
<1>3. d # None => logic = HotDiscount(d.main, d.text)
  OBVIOUS
<1> HIDE DEF where, desc, url, benefit, terms, logic, type
<1>4. deal.store = where.store /\ deal.logic = logic
  BY DEF BlankDeal
<1> HIDE DEF deal
<1>5. HotDeals(i, d)[1] = deal
  BY <1>1, One
<1> QED  BY <1>2, <1>3, <1>4, <1>5

\* HotStore: a card keeps its own name, every other deal is classified by its group.
LEMMA HotStoreIsKnown ==
  ASSUME NEW i, CleanBrand(i.brand) \in DOMAIN Groups, Groups[CleanBrand(i.brand)].stores # <<>>
  PROVE  HotStore(i).store \in {CleanBrand(i.brand).base} \cup {m.name : m \in Range(Groups[CleanBrand(i.brand)].stores)}
<1> DEFINE brand == CleanBrand(i.brand)
           cards == SelectSeq(i.swish, LAMBDA s : s \in DOMAIN Groups)
<1>1. CASE cards = <<>>
  <2>1. HotStore(i) = ClassifyGroupDeal(brand, i.title)
    BY <1>1 DEF HotStore
  <2> QED  BY <2>1, ClassifiedIsKnown
<1>2. CASE cards # <<>>
  <2> DEFINE other == ClassifyGroupDeal(cards[1], i.title)
  <2>1. HotStore(i) = [other EXCEPT !.store = CleanStoreName(brand)]
    BY <1>2 DEF HotStore
  <2>2. \E s, m : other = [store |-> s, members |-> m]
    BY DEF ClassifyGroupDeal
  <2> HIDE DEF other
  <2>3. HotStore(i).store = CleanStoreName(brand)
    BY <2>1, <2>2
  <2> QED  BY <2>3 DEF CleanStoreName
<1> QED  BY <1>1, <1>2

\* HotDiscount: a stated percentage is the reward, unless the deal is a gift card or its
\* text states what it is worth.
LEMMA StatedIsRewarded ==
  ASSUME NEW main, NEW text, main.type # "1300", text.worth = None,
         \E p \in {main.value, main.valueNum, main.titlePct} : p # None
  PROVE  HotDiscount(main, text)[2] \in {Reward("percent", p) : p \in {main.value, main.valueNum, main.titlePct}}
<1> DEFINE pct == StatedPercent(main, text)
<1>1. pct \in {main.value, main.valueNum, main.titlePct} /\ pct # None
  BY DEF StatedPercent, FirstOf
<1>2. HotDiscount(main, text) = <<Reward("quantity", 1), Reward("percent", pct)>>
  BY <1>1 DEF HotDiscount
<1> HIDE DEF pct
<1> QED  BY <1>1, <1>2

\* A deal names a store that takes it.
LEMMA DealsAreRedeemableHolds == ScrapeInv => DealsAreRedeemable
<1> SUFFICES ASSUME ScrapeInv PROVE DealsAreRedeemable
  OBVIOUS
<1>1. ASSUME source \in Cashcards, NEW k \in DOMAIN items, NEW x \in Range(DealsOf(items[k], Outcome(k)))
      PROVE  LET m == Truth[source][items[k].id]
             IN IF m = <<>> \/ Outcome(k) = "bare" THEN x.store = items[k].name ELSE x.store \in {t.name : t \in Range(m)}
  <2>1. source \in Sources /\ source \notin {"swish", "teamim"}
    BY <1>1, CashcardNames DEF ScrapeInv
  <2> DEFINE i == items[k]
             d == DetailOf(items[k], Outcome(k))
  <2>3. i \in Range(Whole(source))
    <3>1. IsSeq(items) /\ DOMAIN items = 1 .. Len(items) /\ Range(items) \subseteq Range(Whole(source))
      BY <2>1, ItemsAre, ItemsHold
    <3> QED  BY <3>1, Held
  <2>4. DealsOf(items[k], Outcome(k)) = IF d = None THEN <<>> ELSE CashcardDeals(source, i, d)
    BY <1>1, DealsBySource
  <2>5. d # None
    BY <1>1, <2>4, NoneHeld
  <2>6. Outcome(k) = "bare" => d = <<>>
    BY DEF DetailOf
  <2>15. d = Truth[source][i.id] \/ (Outcome(k) = "bare" /\ d = <<>>)
    BY <1>1, <2>3, <2>5, ChitKnown
  <2>13. IsSeq(i.rules)
    BY <1>1, <2>3, <2>5, ChitKnown
  <2>14. IsSeq(d)
    BY <1>1, <2>3, <2>5, ChitKnown
  <2> HIDE DEF i, d
  <2>8. x \in Range(CashcardDeals(source, i, d))
    BY <1>1, <2>4, <2>5
  <2>9. PICK t \in Range(ChitTargets(i, d)) : x.store = t.name
    BY <2>8, <2>13, <2>14, CardsMade
  <2>10. x.store = t.name
    BY <2>9
  <2>11. CASE d = <<>>
    <3>1. Range(ChitTargets(i, d)) = {[name |-> i.name, limits |-> i.limits, site |-> None]}
      BY <2>11, One DEF ChitTargets
    <3>2. t.name = i.name
      BY <2>9, <3>1
    <3> QED  BY <2>10, <2>11, <2>15, <3>2 DEF i
  <2>12. CASE d # <<>>
    <3>1. t \in Range(d)
      BY <2>9, <2>12 DEF ChitTargets
    <3> QED  BY <2>6, <2>10, <2>12, <2>15, <3>1 DEF i
  <2> QED  BY <2>11, <2>12
<1>2. ASSUME source = "hot", NEW k \in DOMAIN deals
      PROVE  LET i == items[k]  b == CleanBrand(i.brand)
             IN i.brand # None /\ b \in DOMAIN Groups /\ Groups[b].stores # <<>>
                  => deals[k].store \in {b.base} \cup {m.name : m \in Range(Groups[b].stores)}
  <2> DEFINE i == items[k]
             b == CleanBrand(i.brand)
  <2> SUFFICES ASSUME i.brand # None, b \in DOMAIN Groups, Groups[b].stores # <<>>
               PROVE  deals[k].store \in {b.base} \cup {m.name : m \in Range(Groups[b].stores)}
    OBVIOUS
  <2>1. deals[k] = HotDeals(i, DetailOf(items[k], Outcome(k)))[1]
    BY <1>2, DealsHold
  <2> HIDE DEF i
  <2>2. deals[k].store = HotStore(i).store
    BY <2>1, HotDealIs
  <2>3. HotStore(i).store \in {b.base} \cup {m.name : m \in Range(Groups[b].stores)}
    BY HotStoreIsKnown
  <2> QED  BY <2>2, <2>3
<1>3. ASSUME source = "behatsdaa", NEW k \in DOMAIN items, NEW x \in Range(DealsOf(items[k], Outcome(k))), x.terms[2] # None
      PROVE  LET i == items[k]  full == i.name \o i.suffix
             IN Inside(i.name, x.terms[2]) \/ (full \in DOMAIN Aliases /\ Inside(Aliases[full], x.terms[2]))
  <2> DEFINE i == items[k]
             d == DetailOf(items[k], Outcome(k))
             full == i.name \o i.suffix
  <2> SUFFICES Inside(i.name, x.terms[2]) \/ (full \in DOMAIN Aliases /\ Inside(Aliases[full], x.terms[2]))
    OBVIOUS
  <2>1. IsSeq(items) /\ DOMAIN items = 1 .. Len(items) /\ Range(items) \subseteq Range(Whole(source))
    BY <1>3, ItemsAre, ItemsHold
  <2>2. i \in Range(Whole(source)) /\ source \in Sources
    BY <1>3, <2>1, Held DEF ScrapeInv
  <2>3. x \in Range(BehatsdaaDeals(i, d))
    BY <1>3, DealsBySource
  <2> HIDE DEF i, d
  <2>4. IsSeq(i.name) /\ IsSeq(i.suffix)
    BY <1>3, <2>2, TruthAssumption
  <2>5. x.terms[2] = Lookup(i)
    <3> DEFINE name == i.name \o i.suffix
               desc == <<name, i.wallet.name>>
               price == <<i.wallet.percent, i.wallet.cap, i.wallet.name>>
               terms == <<"general", Lookup(i), i.wallet.name>>
               logic == <<Reward("quantity", 1), Reward("percent", i.wallet.percent), i.wallet.cap>>
               url == FirstOf(i.website, "behatsdaa")
               deal == [BlankDeal EXCEPT !.store = name, !.title = name, !.desc = desc, !.price = price,
                          !.terms = terms, !.logic = logic, !.benefit = "behatsdaa", !.url = url, !.type = "giftcard_discount"]
    <3>1. BehatsdaaDeals(i, d) = <<>> \/ BehatsdaaDeals(i, d) = <<deal>>
      BY DEF BehatsdaaDeals
    <3>2. terms[2] = Lookup(i)
      OBVIOUS
    <3> HIDE DEF name, desc, price, terms, logic, url
    <3>3. deal.terms = terms
      BY DEF BlankDeal
    <3> HIDE DEF deal
    <3>4. x = deal
      BY <2>3, <3>1, NoneHeld, One
    <3> QED  BY <3>2, <3>3, <3>4
  <2>6. \/ LookupKey(Keyed(full)) # None /\ Lookup(i) = LookupKey(Keyed(full))
        \/ LookupKey(i.name) # None /\ Lookup(i) = LookupKey(i.name)
    BY <1>3, <2>5 DEF Lookup, FirstOf
  <2>7. CASE LookupKey(Keyed(full)) # None /\ Lookup(i) = LookupKey(Keyed(full))
    <3>1. IsSeq(full)
      BY <2>4, SeqConcat
    <3>2. CASE full \in DOMAIN Aliases
      <4>1. Keyed(full) = Aliases[full] /\ IsSeq(Aliases[full])
        BY <3>2, ReferenceAssumption DEF Keyed
      <4> QED  BY <2>5, <2>7, <3>2, <4>1, LookupNames
    <3>3. CASE full \notin DOMAIN Aliases
      <4>1. Keyed(full) = full
        BY <3>3 DEF Keyed
      <4>2. IsSeq(Lookup(i)) /\ Inside(full, Lookup(i))
        BY <2>7, <3>1, <4>1, LookupNames
      <4> QED  BY <2>4, <2>5, <4>2, InsideOfInside
    <3> QED  BY <3>2, <3>3
  <2>8. CASE LookupKey(i.name) # None /\ Lookup(i) = LookupKey(i.name)
    BY <2>4, <2>5, <2>8, LookupNames
  <2> QED  BY <2>6, <2>7, <2>8
<1> QED  BY <1>1, <1>2, <1>3 DEF DealsAreRedeemable

\* A percentage the listing states is the discount.
LEMMA HeadlineSurvivesHolds == ScrapeInv => HeadlineSurvives
<1> SUFFICES ASSUME ScrapeInv, phase = "done", source = "hot", NEW k \in DOMAIN items,
                    LET d == DetailOf(items[k], Outcome(k))
                    IN /\ d # None /\ d.main.type # "1300" /\ d.text.worth = None
                       /\ \E p \in {d.main.value, d.main.valueNum, d.main.titlePct} : p # None
             PROVE  LET d == DetailOf(items[k], Outcome(k))
                    IN deals[k].logic[2] \in {Reward("percent", p) : p \in {d.main.value, d.main.valueNum, d.main.titlePct}}
  BY DEF HeadlineSurvives
<1> DEFINE d == DetailOf(items[k], Outcome(k))
<1>1. k \in DOMAIN deals /\ deals[k] = HotDeals(items[k], d)[1]
  BY DealsHold
<1> HIDE DEF d
<1>2. d # None /\ d.main.type # "1300" /\ d.text.worth = None /\ \E p \in {d.main.value, d.main.valueNum, d.main.titlePct} : p # None
  BY DEF d
<1>3. deals[k].logic = HotDiscount(d.main, d.text)
  BY <1>1, <1>2, HotDealIs
<1>4. HotDiscount(d.main, d.text)[2] \in {Reward("percent", p) : p \in {d.main.value, d.main.valueNum, d.main.titlePct}}
  BY <1>2, StatedIsRewarded
<1> QED  BY <1>3, <1>4 DEF d

\* Every deal names a store that takes it, carries the limitations of its own chain, and
\* gives the percentage its listing states, whatever fails on the way.
THEOREM DealsAreTrue == Spec => []DealsTellTheTruth
<1>1. Init => ScrapeInv
  BY ScrapeInvInit
<1>2. ScrapeInv /\ [Next]_<<vars, scanVars>> => ScrapeInv'
  BY ScrapeInvStep
<1>3. ScrapeInv => DealsTellTheTruth
  BY DealsAreRedeemableHolds, HeadlineSurvivesHolds DEF DealsTellTheTruth
<1> QED  BY <1>1, <1>2, <1>3, PTL DEF Spec

AllOffers == UNION {Offers(k) : k \in DOMAIN items}
Fingerprints == {Fingerprint(x) : x \in Range(deals)}

\* A scrape has finitely many fingerprints.
LEMMA FewFingerprints ==
  ASSUME IsSeq(deals)
  PROVE  IsFiniteSet(Fingerprints)
<1> DEFINE m == [k \in 1 .. Len(deals) |-> Fingerprint(deals[k])]
<1>1. Len(deals) \in Nat /\ \A x : x \in Range(deals) <=> \E k \in 1 .. Len(deals) : deals[k] = x
  BY SeqFacts, Held
<1>2. m \in [1 .. Len(deals) -> Fingerprints]
  <2> SUFFICES ASSUME NEW k \in 1 .. Len(deals) PROVE Fingerprint(deals[k]) \in Fingerprints
    OBVIOUS
  <2> QED  BY <1>1 DEF Fingerprints
<1>3. \A f \in Fingerprints : \E k \in 1 .. Len(deals) : m[k] = f
  <2> SUFFICES ASSUME NEW f \in Fingerprints PROVE \E k \in 1 .. Len(deals) : m[k] = f
    OBVIOUS
  <2>1. PICK x \in Range(deals) : f = Fingerprint(x)
    BY DEF Fingerprints
  <2>2. PICK k \in 1 .. Len(deals) : deals[k] = x
    BY <1>1
  <2> QED  BY <2>1, <2>2
<1> HIDE DEF m
<1>4. m \in Surjection(1 .. Len(deals), Fingerprints)
  BY <1>2, <1>3 DEF Surjection
<1>5. IsFiniteSet(1 .. Len(deals))
  BY <1>1, FS_Interval
<1> QED  BY <1>4, <1>5, FS_Surjection

\* An offer is one of a listed item's, whose deals are all there.
LEMMA OfferFrom ==
  ASSUME ScrapeInv, source # "swish", source # "teamim", phase = "done", NEW o \in AllOffers
  PROVE  \E k \in 1 .. Len(items) :
           /\ o \in Offers(k) /\ items[k] \in Range(Whole(source))
           /\ Range(DealsOf(items[k], Outcome(k))) \subseteq Range(deals)
<1>1. /\ IsSeq(items) /\ Len(items) \in Nat /\ DOMAIN items = 1 .. Len(items)
      /\ Range(items) \subseteq Range(Whole(source))
  BY ItemsAre, ItemsHold
<1>2. PICK k \in DOMAIN items : o \in Offers(k)
  BY DEF AllOffers
<1>3. items[k] \in Range(items)
  BY <1>1, <1>2, Held
<1>4. Range(DealsOf(items[k], Outcome(k))) \subseteq Range(deals)
  BY <1>1, <1>2, DealsHold
<1> QED  BY <1>1, <1>2, <1>3, <1>4

\* Offers that begin a description are told apart by it.
LEMMA ToldByDescription ==
  ASSUME IsSeq(deals), \A o \in AllOffers : \E x \in Range(deals) : x.desc[1] = o
  PROVE  Cardinality(Fingerprints) >= Cardinality(AllOffers)
<1> DEFINE R == {q \in AllOffers \X Fingerprints : q[2][1][1] = q[1]}
<1>1. ASSUME NEW o \in AllOffers PROVE \E f \in Fingerprints : <<o, f>> \in R
  <2>1. PICK x \in Range(deals) : x.desc[1] = o
    OBVIOUS
  <2>2. Fingerprint(x) \in Fingerprints
    BY DEF Fingerprints
  <2>3. Fingerprint(x)[1][1] = o
    BY <2>1 DEF Fingerprint
  <2> QED  BY <2>2, <2>3
<1>2. \A f \in Fingerprints : \A o, p \in AllOffers : <<o, f>> \in R /\ <<p, f>> \in R => o = p
  OBVIOUS
<1>3. IsFiniteSet(Fingerprints)
  BY FewFingerprints
<1> HIDE DEF R
<1> QED  BY <1>1, <1>2, <1>3, ToldApart

\* The companies of hever.
LEMMA CompaniesAreTold ==
  ASSUME ScrapeInv, source = "hever", phase = "done"
  PROVE  Cardinality(Fingerprints) >= Cardinality(AllOffers)
<1>1. ASSUME NEW o \in AllOffers PROVE \E x \in Range(deals) : x.desc[1] = o
  <2>1. PICK k \in 1 .. Len(items) :
          o \in Offers(k) /\ Range(DealsOf(items[k], Outcome(k))) \subseteq Range(deals)
    BY OfferFrom
  <2> DEFINE i == items[k]
             d == DetailOf(items[k], Outcome(k))
             desc == IF i.desc = None THEN <<i.company>> ELSE <<i.company, i.desc>>
             terms == <<i.limitations, "loading bonus", i.company>>
             benefit == IF i.sn = None THEN None ELSE <<"gift card", i.sn>>
             url == FirstOf(i.website, benefit)
             deal == [BlankDeal EXCEPT !.store = i.company, !.title = i.company, !.price = "loading bonus",
                        !.logic = LoadingBonus, !.desc = desc, !.terms = terms, !.benefit = benefit,
                        !.url = url, !.type = "giftcard_discount"]
  <2>2. o = i.company /\ i.company # None
    BY <2>1, CashcardNames DEF Offers
  <2>3. HeverDeals(i, d) = <<deal>>
    BY <2>2 DEF HeverDeals
  <2>4. desc[1] = i.company
    OBVIOUS
  <2>5. DealsOf(items[k], Outcome(k)) = HeverDeals(i, d)
    BY DealsBySource
  <2> HIDE DEF i, d, desc, terms, benefit, url
  <2>6. deal.desc = desc
    BY DEF BlankDeal
  <2> HIDE DEF deal
  <2>7. deal \in Range(<<deal>>)
    BY One
  <2>8. deal \in Range(deals)
    BY <2>1, <2>3, <2>5, <2>7
  <2> QED  BY <2>2, <2>4, <2>6, <2>8
<1>2. IsSeq(deals)
  BY DealsHold
<1> QED  BY <1>1, <1>2, ToldByDescription

\* The places where the loadable cards are redeemed.
LEMMA PlacesAreTold ==
  ASSUME ScrapeInv, source \in Cashcards, phase = "done"
  PROVE  Cardinality(Fingerprints) >= Cardinality(AllOffers)
<1>1. source \in Sources /\ source \notin {"swish", "teamim", "hever", "behatsdaa", "paisplus"}
  BY CashcardNames DEF ScrapeInv
<1>2. ASSUME NEW o \in AllOffers PROVE \E x \in Range(deals) : x.desc[1] = o
  <2>1. PICK k \in 1 .. Len(items) :
          /\ o \in Offers(k) /\ items[k] \in Range(Whole(source))
          /\ Range(DealsOf(items[k], Outcome(k))) \subseteq Range(deals)
    BY <1>1, OfferFrom
  <2> DEFINE i == items[k]
             d == DetailOf(items[k], Outcome(k))
  <2>2. d # None /\ CardRules(source, i) # <<>> /\ o \in {t.name : t \in Range(ChitTargets(i, d))} \ {None}
    BY <1>1, <2>1 DEF Offers
  <2>4. DealsOf(items[k], Outcome(k)) = CashcardDeals(source, i, d)
    BY <2>2, DealsBySource
  <2>5. i \in Range(Whole(source))
    BY <2>1
  <2>6. IsSeq(i.rules)
    BY <2>2, <2>5, ChitKnown
  <2>7. IsSeq(d)
    BY <2>2, <2>5, ChitKnown
  <2> HIDE DEF i, d
  <2>8. PICK t \in Range(ChitTargets(i, d)) : o = t.name /\ t.name # None
    BY <2>2
  <2>9. PICK x \in Range(CashcardDeals(source, i, d)) : x.desc[1] = t.name
    BY <2>2, <2>6, <2>7, <2>8, CardsMade
  <2> QED  BY <2>1, <2>4, <2>8, <2>9
<1>3. IsSeq(deals)
  BY <1>1, DealsHold
<1> QED  BY <1>2, <1>3, ToldByDescription

\* The chains of behatsdaa, for each of its wallets.
LEMMA WalletsAreTold ==
  ASSUME ChainsAreSplitOneWay, ScrapeInv, source = "behatsdaa", phase = "done"
  PROVE  Cardinality(Fingerprints) >= Cardinality(AllOffers)
<1> DEFINE offer(c) == <<c.name, c.suffix, c.wallet.name>>
           told(o) == <<o[1] \o o[2], o[3]>>
           R == {q \in AllOffers \X Fingerprints : q[2][1] = told(q[1])}
<1>1. source \in Sources /\ source # "swish" /\ source # "teamim"
  BY DEF ScrapeInv
<1>2. ASSUME NEW o \in AllOffers
      PROVE  /\ \E c \in Range(Whole(source)) : o = offer(c)
             /\ \E f \in Fingerprints : f[1] = told(o)
  <2>1. PICK k \in 1 .. Len(items) :
          /\ o \in Offers(k) /\ items[k] \in Range(Whole(source))
          /\ Range(DealsOf(items[k], Outcome(k))) \subseteq Range(deals)
    BY <1>1, OfferFrom
  <2> DEFINE i == items[k]
             d == DetailOf(items[k], Outcome(k))
             name == i.name \o i.suffix
             desc == <<name, i.wallet.name>>
             price == <<i.wallet.percent, i.wallet.cap, i.wallet.name>>
             terms == <<"general", Lookup(i), i.wallet.name>>
             logic == <<Reward("quantity", 1), Reward("percent", i.wallet.percent), i.wallet.cap>>
             url == FirstOf(i.website, "behatsdaa")
             deal == [BlankDeal EXCEPT !.store = name, !.title = name, !.desc = desc, !.price = price,
                        !.terms = terms, !.logic = logic, !.benefit = "behatsdaa", !.url = url, !.type = "giftcard_discount"]
  <2>2. ~(i.name = <<>> \/ i.generic) /\ o = offer(i)
    <3>1. Offers(k) = IF i.name = <<>> \/ i.generic THEN {} ELSE {offer(i)}
      BY CashcardNames DEF Offers
    <3> QED  BY <2>1, <3>1
  <2>3. BehatsdaaDeals(i, d) = <<deal>>
    BY <2>2 DEF BehatsdaaDeals
  <2>4. DealsOf(items[k], Outcome(k)) = BehatsdaaDeals(i, d)
    BY DealsBySource
  <2>5. desc = told(o)
    BY <2>2
  <2>6. i \in Range(Whole(source))
    BY <2>1
  <2> HIDE DEF i, d, name, desc, price, terms, logic, url
  <2>7. deal.desc = desc
    BY DEF BlankDeal
  <2> HIDE DEF deal
  <2>8. deal \in Range(<<deal>>)
    BY One
  <2>9. deal \in Range(deals)
    BY <2>1, <2>3, <2>4, <2>8
  <2>10. Fingerprint(deal) \in Fingerprints /\ Fingerprint(deal)[1] = deal.desc
    BY <2>9 DEF Fingerprints, Fingerprint
  <2> HIDE DEF told, offer
  <2> QED  BY <2>2, <2>5, <2>6, <2>7, <2>10
<1>3. ASSUME NEW o \in AllOffers, NEW q \in AllOffers, told(o) = told(q) PROVE o = q
  <2>1. PICK c \in Range(Whole(source)) : o = offer(c)
    BY <1>2
  <2>2. PICK e \in Range(Whole(source)) : q = offer(e)
    BY <1>2
  <2>3. c.name \o c.suffix = e.name \o e.suffix /\ c.wallet.name = e.wallet.name
    BY <1>3, <2>1, <2>2
  <2>4. c.name = e.name /\ c.suffix = e.suffix
    BY <1>1, <2>3 DEF ChainsAreSplitOneWay
  <2> QED  BY <2>1, <2>2, <2>3, <2>4
<1> HIDE DEF told, offer
<1>4. ASSUME NEW o \in AllOffers PROVE \E f \in Fingerprints : <<o, f>> \in R
  <2>1. PICK f \in Fingerprints : f[1] = told(o)
    BY <1>2
  <2> QED  BY <2>1
<1>5. ASSUME NEW f \in Fingerprints, NEW o \in AllOffers, NEW q \in AllOffers, <<o, f>> \in R, <<q, f>> \in R
      PROVE  o = q
  <2>1. told(o) = told(q)
    BY <1>5
  <2> QED  BY <1>3, <2>1
<1>6. IsFiniteSet(Fingerprints)
  <2>1. IsSeq(deals)
    BY <1>1, DealsHold
  <2> QED  BY <2>1, FewFingerprints
<1> HIDE DEF R
<1> QED  BY <1>4, <1>5, <1>6, ToldApart

\* The branches of paisplus, at each of their prices.
LEMMA BranchesAreTold ==
  ASSUME BranchesStayApart, ScrapeInv, source = "paisplus", phase = "done"
  PROVE  Cardinality(Fingerprints) >= Cardinality(AllOffers)
<1> DEFINE product(c) == Truth[source][c.id]
           known == {c \in Range(Whole(source)) : c.id \in DOMAIN Truth[source]}
           told(o, f, c, e) == /\ o = <<product(c).brand, e.name, f[2][1]>>
                               /\ f[1][1] = PaisStore(product(c), e) /\ f[1][2] = PaisBranch(product(c), e)
           R == {q \in AllOffers \X Fingerprints : \E c \in known : \E e \in Range(product(c).prices) : told(q[1], q[2], c, e)}
<1>1. source \in Sources /\ source # "swish" /\ source # "teamim"
  BY DEF ScrapeInv
<1>2. ASSUME NEW o \in AllOffers
      PROVE  \E f \in Fingerprints : \E c \in known : \E e \in Range(product(c).prices) : told(o, f, c, e)
  <2>1. PICK k \in 1 .. Len(items) :
          /\ o \in Offers(k) /\ items[k] \in Range(Whole(source))
          /\ Range(DealsOf(items[k], Outcome(k))) \subseteq Range(deals)
    BY <1>1, OfferFrom
  <2> DEFINE i == items[k]
             d == DetailOf(items[k], Outcome(k))
             priced(e) == {<<d.brand, e.name, price>> : price \in {e.club, e.discounted} \ {None}}
             entries == {e \in Range(d.prices) : e.market # None /\ PaisStore(d, e) # <<>>}
  <2>2. d # None /\ o \in UNION {priced(e) : e \in entries}
    <3>1. d # None => Offers(k) = UNION {priced(e) : e \in entries}
      BY CashcardNames DEF Offers
    <3>2. d = None => Offers(k) = {}
      BY CashcardNames DEF Offers
    <3> QED  BY <2>1, <3>1, <3>2
  <2>3. i.id # None /\ d = product(i)
    BY <2>2, ProductKnown
  <2>4. i \in known
    BY <1>1, <2>1, <2>3, TruthAssumption
  <2>5. DealsOf(items[k], Outcome(k)) = PaisDeals(d, d)
    BY <2>2, DealsBySource
  <2>6. IsSeq(d.prices)
    BY <1>1, <2>1, <2>3, TruthAssumption
  <2>7. PICK e \in entries : o \in priced(e)
    BY <2>2
  <2>8. PICK price \in {e.club, e.discounted} : price # None /\ o = <<d.brand, e.name, price>>
    BY <2>7
  <2>9. e \in Range(d.prices) /\ e.market # None /\ PaisStore(d, e) # <<>>
    BY <2>7
  <2> HIDE DEF i, d, product
  <2> DEFINE desc == <<PaisStore(d, e), PaisBranch(d, e), d.short>>
             both == <<price, e.market>>
             logic == IF e.market > price THEN <<Reward("quantity", 1), Reward("amount", e.market - price)>> ELSE None
             url == <<"product", d.id>>
             deal == [BlankDeal EXCEPT !.store = PaisStore(d, e), !.title = d.name, !.desc = desc, !.price = both,
                        !.terms = d.terms, !.logic = logic, !.benefit = url, !.url = url, !.type = "giftcard_discount"]
  <2>10. PaisTier(d, e, price) = <<deal>>
    BY <2>8, <2>9 DEF PaisTier
  <2>11. desc[1] = PaisStore(d, e) /\ desc[2] = PaisBranch(d, e) /\ both[1] = price
    OBVIOUS
  <2> HIDE DEF desc, both, logic, url
  <2>12. deal.desc = desc /\ deal.price = both
    BY DEF BlankDeal
  <2> HIDE DEF deal
  <2>13. deal \in Range(<<deal>>)
    BY One
  <2>14. Range(PaisTier(d, e, price)) \subseteq Range(PaisDeals(d, d))
    BY <2>6, <2>8, <2>9, PaisMade
  <2>15. deal \in Range(deals)
    BY <2>1, <2>5, <2>10, <2>13, <2>14
  <2> DEFINE f == Fingerprint(deal)
  <2>16. f \in Fingerprints /\ f[1] = deal.desc /\ f[2] = deal.price
    BY <2>15 DEF Fingerprints, Fingerprint
  <2> HIDE DEF f
  <2>17. told(o, f, i, e)
    BY <2>3, <2>8, <2>11, <2>12, <2>16
  <2>18. e \in Range(product(i).prices)
    BY <2>3, <2>9
  <2> HIDE DEF told, known
  <2> QED  BY <2>4, <2>16, <2>17, <2>18
<1>3. ASSUME NEW f, NEW o, NEW q, NEW b \in known, NEW c \in known,
             NEW e \in Range(product(b).prices), NEW g \in Range(product(c).prices),
             told(o, f, b, e), told(q, f, c, g)
      PROVE  o = q
  <2>1. {b.id, c.id} \subseteq DOMAIN Truth.paisplus /\ Truth.paisplus[b.id] = product(b) /\ Truth.paisplus[c.id] = product(c)
    OBVIOUS
  <2>2. /\ PaisStore(product(b), e) = PaisStore(product(c), g)
        /\ PaisBranch(product(b), e) = PaisBranch(product(c), g)
    BY <1>3
  <2>3. product(b).brand = product(c).brand /\ e.name = g.name
    <3>1. b \in Range(Whole("paisplus")) /\ c \in Range(Whole("paisplus")) /\ "paisplus" \in Sources
      BY <1>1
    <3>2. e \in Range(Truth.paisplus[b.id].prices) /\ g \in Range(Truth.paisplus[c.id].prices)
      BY <2>1
    <3> QED  BY <2>1, <2>2, <3>1, <3>2 DEF BranchesStayApart
  <2> QED  BY <1>3, <2>3
<1> HIDE DEF told, product, known
<1>4. ASSUME NEW o \in AllOffers PROVE \E f \in Fingerprints : <<o, f>> \in R
  BY <1>2
<1>5. ASSUME NEW f \in Fingerprints, NEW o \in AllOffers, NEW q \in AllOffers, <<o, f>> \in R, <<q, f>> \in R
      PROVE  o = q
  BY <1>3, <1>5
<1>6. IsFiniteSet(Fingerprints)
  <2>1. IsSeq(deals)
    BY <1>1, DealsHold
  <2> QED  BY <2>1, FewFingerprints
<1> HIDE DEF R
<1> QED  BY <1>4, <1>5, <1>6, ToldApart

\* Two offers never share a fingerprint: the scrape stage, which keeps one record of
\* each, drops none of them.
THEOREM NoOfferIsDropped ==
  ASSUME ChainsAreSplitOneWay, BranchesStayApart
  PROVE  Spec => []FingerprintsTellOffersApart
<1>1. ScrapeInv => FingerprintsTellOffersApart
  <2> SUFFICES ASSUME ScrapeInv, phase = "done", source \in {"hever", "behatsdaa", "paisplus"} \cup Cashcards
               PROVE  Cardinality(Fingerprints) >= Cardinality(AllOffers)
    BY DEF FingerprintsTellOffersApart, Fingerprints, AllOffers
  <2> QED  BY CompaniesAreTold, WalletsAreTold, BranchesAreTold, PlacesAreTold
<1>2. Init => ScrapeInv
  BY ScrapeInvInit
<1>3. ScrapeInv /\ [Next]_<<vars, scanVars>> => ScrapeInv'
  BY ScrapeInvStep
<1> QED  BY <1>1, <1>2, <1>3, PTL DEF Spec

-----------------------------------------------------------------------------
(* The scanner of Swish.                                                   *)

ScanStates == [processed : SUBSET Products, blocked : SUBSET Products, queue : SUBSET Products]

ScanTypeOK ==
  /\ state \in ScanStates
  /\ database \in Seq(Products)
  /\ memory \in [state : ScanStates, saved : SUBSET Products, todo : SUBSET Products]
  /\ visiting \in SUBSET Products

\* While a scan runs, its copies are what the files hold; the id it is visiting has
\* its record.
ScanKnowsFiles ==
  /\ step \in {"scan", "record"} => memory.state = state /\ memory.saved = Saved
  /\ visiting \subseteq Saved

ScanInv == ScanTypeOK /\ RecordsMatchState /\ ScanKnowsFiles

-----------------------------------------------------------------------------
\* A record appended to the database: the ids before it stay in their places, and the
\* database holds nothing twice if the id is new.
LEMMA AppendedRecord ==
  ASSUME NEW D \in Seq(Products), NEW pid \in Products
  PROVE  /\ Append(D, pid) \in Seq(Products)
         /\ ToSet(Append(D, pid)) = ToSet(D) \cup {pid}
         /\ IsPrefix(D, Append(D, pid))
         /\ IsInjective(D) /\ pid \notin ToSet(D) => IsInjective(Append(D, pid))
<1> DEFINE E == Append(D, pid)
<1>1. /\ E \in Seq(Products) /\ Len(E) = Len(D) + 1
      /\ DOMAIN E = 1 .. Len(D) + 1 /\ DOMAIN D = 1 .. Len(D) /\ Len(D) \in Nat
      /\ \A i \in 1 .. Len(D) : E[i] = D[i]
      /\ E[Len(D) + 1] = pid
  OBVIOUS
<1>2. ToSet(E) = ToSet(D) \cup {pid}
  <2>1. ToSet(E) \subseteq ToSet(D) \cup {pid}  BY <1>1 DEF ToSet
  <2>2. ToSet(D) \cup {pid} \subseteq ToSet(E)  BY <1>1 DEF ToSet
  <2> QED  BY <2>1, <2>2
<1>3. IsPrefix(D, E)
  BY <1>1 DEF IsPrefix
<1>4. ASSUME IsInjective(D), pid \notin ToSet(D)
      PROVE  IsInjective(E)
  BY <1>1, <1>4 DEF IsInjective, ToSet
<1> QED  BY <1>1, <1>2, <1>3, <1>4

\* The empty database is a database without doubles.
LEMMA EmptyDatabase == <<>> \in Seq(Products) /\ ToSet(<<>>) = {} /\ IsInjective(<<>>)
BY DEF ToSet, IsInjective

\* What _reconcile_state does to the state: the id becomes processed and nothing is lost.
LEMMA Reconciled ==
  ASSUME NEW s \in ScanStates, NEW pid \in Products
  PROVE  /\ Reconcile(s, pid) \in ScanStates
         /\ Reconcile(s, pid).processed = s.processed \cup {pid}
         /\ Known(s) \subseteq Known(Reconcile(s, pid))
BY DEF Reconcile, ScanStates, Known

-----------------------------------------------------------------------------
\* The scanner's first states satisfy the invariant.
LEMMA ScanInvInit == ScanInit => ScanInv
BY EmptyDatabase DEF ScanInit, ScanInv, ScanTypeOK, RecordsMatchState, ScanKnowsFiles,
                     ScanStates, NoState, NoMemory, Saved

\* One step of the scanner keeps the invariant and loses neither id nor record.
LEMMA ScanInvStep ==
  ASSUME ScanInv, [ScanNext]_scanVars
  PROVE  ScanInv' /\ Known(state) \subseteq Known(state') /\ IsPrefix(database, database')
<1> USE DEF ScanInv
<1>0. IsPrefix(database, database)
  BY DEF ScanTypeOK, IsPrefix
<1>1. CASE UNCHANGED scanVars
  BY <1>0, <1>1 DEF scanVars, ScanTypeOK, RecordsMatchState, ScanKnowsFiles, Saved
<1>2. CASE Catalog
  <2>1. PICK first \in SUBSET Products, second \in SUBSET Products :
          state' = [state EXCEPT !.queue = @ \cup ((first \cup second) \ state.processed)]
    BY <1>2 DEF Catalog
  <2>2. step' = "start" /\ UNCHANGED <<database, memory, visiting>>
    BY <1>2 DEF Catalog
  <2> QED
    BY <1>0, <2>1, <2>2 DEF ScanTypeOK, ScanStates, RecordsMatchState, ScanKnowsFiles,
                            Saved, Known
<1>3. CASE StartScan
  <2>1. visiting' \subseteq Products /\ Saved \subseteq Products
    BY <1>3 DEF StartScan, ScanTypeOK, Saved, ToSet
  <2> QED
    BY <1>0, <1>3, <2>1 DEF StartScan, roundVars, ScanTypeOK, ScanStates,
                            RecordsMatchState, ScanKnowsFiles, Saved, Known
<1>4. ASSUME NEW pid \in Products, SkipSaved(pid)
      PROVE  ScanInv' /\ Known(state) \subseteq Known(state') /\ IsPrefix(database, database')
  <2>1. step = "scan" /\ pid \in Saved /\ state' = Reconcile(state, pid)
    BY <1>4 DEF SkipSaved, ScanKnowsFiles
  <2>2. /\ memory' = [memory EXCEPT !.state = state', !.todo = @ \ {pid}]
        /\ UNCHANGED <<database, step, visiting>>
    BY <1>4 DEF SkipSaved
  <2>3. /\ state' \in ScanStates /\ state'.processed = state.processed \cup {pid}
        /\ Known(state) \subseteq Known(state')
    BY <2>1, Reconciled DEF ScanTypeOK
  <2> QED
    BY <1>0, <2>1, <2>2, <2>3 DEF ScanTypeOK, RecordsMatchState, ScanKnowsFiles, Saved
<1>5. ASSUME NEW pid \in Products, MeetBlock(pid)
      PROVE  ScanInv' /\ Known(state) \subseteq Known(state') /\ IsPrefix(database, database')
  <2>1. /\ step = "scan"
        /\ state' = [state EXCEPT !.blocked = @ \cup {pid}, !.queue = @ \ {pid}]
        /\ memory' = [memory EXCEPT !.state = state', !.todo = @ \ {pid}]
        /\ UNCHANGED <<database, step, visiting>>
    BY <1>5 DEF MeetBlock, ToVisit, ScanKnowsFiles
  <2> QED
    BY <1>0, <2>1 DEF ScanTypeOK, ScanStates, RecordsMatchState, ScanKnowsFiles, Saved,
                      Known
<1>6. ASSUME NEW pid \in Products, MeetNothing(pid)
      PROVE  ScanInv' /\ Known(state) \subseteq Known(state') /\ IsPrefix(database, database')
  BY <1>0, <1>6 DEF MeetNothing, roundVars, ScanTypeOK, ScanStates, RecordsMatchState,
                    ScanKnowsFiles, Saved, Known
<1>7. ASSUME NEW pid \in Products, SaveRecord(pid)
      PROVE  ScanInv' /\ Known(state) \subseteq Known(state') /\ IsPrefix(database, database')
  <2>1. /\ pid \notin Saved /\ memory.saved = Saved /\ memory.state = state
        /\ database' = Append(database, pid)
        /\ memory' = [memory EXCEPT !.saved = @ \cup {pid}, !.todo = @ \ {pid}]
        /\ step' = "record" /\ visiting' = {pid} /\ UNCHANGED state
    BY <1>7 DEF SaveRecord, ToVisit, ScanKnowsFiles
  <2>2. /\ database' \in Seq(Products) /\ Saved' = Saved \cup {pid}
        /\ IsPrefix(database, database') /\ IsInjective(database')
    BY <2>1, AppendedRecord DEF ScanTypeOK, RecordsMatchState, Saved
  <2> QED
    BY <2>1, <2>2 DEF ScanTypeOK, ScanStates, RecordsMatchState, ScanKnowsFiles
<1>8. CASE SaveProgress
  <2>1. PICK pid \in visiting : state' = Reconcile(memory.state, pid)
    BY <1>8 DEF SaveProgress
  <2>2. /\ pid \in Products /\ pid \in Saved /\ state' = Reconcile(state, pid)
        /\ memory.saved = Saved
    BY <1>8, <2>1 DEF SaveProgress, ScanKnowsFiles, ScanTypeOK
  <2>3. /\ memory' = [memory EXCEPT !.state = state'] /\ visiting' = {} /\ UNCHANGED database
    BY <1>8 DEF SaveProgress
  <2>4. /\ state' \in ScanStates /\ state'.processed = state.processed \cup {pid}
        /\ Known(state) \subseteq Known(state')
    BY <2>2, Reconciled DEF ScanTypeOK
  <2> QED
    BY <1>0, <2>2, <2>3, <2>4 DEF ScanTypeOK, RecordsMatchState, ScanKnowsFiles, Saved
<1>9. CASE EndScan
  BY <1>0, <1>9 DEF EndScan, NoMemory, NoState, roundVars, ScanTypeOK, ScanStates,
                    RecordsMatchState, ScanKnowsFiles, Saved
<1>10. CASE Retry
  <2> DEFINE again == state.blocked \cup (Known(state) \ Saved)
  <2>1. again \subseteq Products /\ UNCHANGED <<database, memory, visiting>> /\ step = "scanned"
    BY <1>10 DEF Retry, ScanTypeOK, ScanStates, Known
  <2>2. CASE again = {}
    BY <1>0, <1>10, <2>1, <2>2 DEF Retry, ScanTypeOK, RecordsMatchState,
                                   ScanKnowsFiles, Saved
  <2>3. CASE again # {}
    <3>1. state' = [state EXCEPT !.queue = @ \cup again, !.blocked = {}] /\ step' = "start"
      BY <1>10, <2>3 DEF Retry
    <3> QED
      BY <1>0, <2>1, <3>1 DEF ScanTypeOK, ScanStates, RecordsMatchState,
                              ScanKnowsFiles, Saved, Known
  <2> QED  BY <2>2, <2>3
<1>11. CASE Verify
  BY <1>0, <1>11 DEF Verify, ScanTypeOK, RecordsMatchState, ScanKnowsFiles, Saved
<1>12. CASE Die
  BY <1>0, <1>12 DEF Die, NoMemory, NoState, ScanTypeOK, ScanStates, RecordsMatchState,
                     ScanKnowsFiles, Saved
<1> QED
  BY <1>1, <1>2, <1>3, <1>4, <1>5, <1>6, <1>7, <1>8, <1>9, <1>10, <1>11,
                                                                                   <1>12 DEF ScanNext, Visit

-----------------------------------------------------------------------------
\* Whatever blocks the scanner and wherever it dies, whatever scrapes read its files
\* meanwhile: an id once catalogued stays known, a processed id has its one record, and
\* the database only grows.
THEOREM NothingIsLost == Spec => ScannerLosesNothing
<1>1. Init => ScanInv  BY ScanInvInit DEF Init
<1>2. [Next]_<<vars, scanVars>> => [ScanNext]_scanVars
  BY DEF Next
<1>3. ScanInv /\ [Next]_<<vars, scanVars>> => ScanInv'  BY <1>2, ScanInvStep
<1>4. ScanInv => RecordsMatchState  BY DEF ScanInv
<1>5. ScanInv /\ [Next]_<<vars, scanVars>>
        => [Known(state) \subseteq Known(state') /\ IsPrefix(database, database')]_scanVars
  BY <1>2, ScanInvStep
<1> QED  BY <1>1, <1>3, <1>4, <1>5, PTL DEF Spec, ScannerLosesNothing, IdsAreNeverForgotten
=============================================================================
