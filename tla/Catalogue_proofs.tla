--------------------------- MODULE Catalogue_proofs ---------------------------
(***************************************************************************)
(* The catalogue of stores, for any records, stores, groups, cards, words  *)
(* and typed names, either storage, and any number of commands and deaths  *)
(* in any interleaving of their reads and writes.                          *)
(*                                                                         *)
(* The invariant is of the files, of the copies of them that the commands  *)
(* hold, and of what each has yet to write.  Of every store there is, in   *)
(* any of these, an id has one name and one maker: this needs no luck with *)
(* the files.  Where a file loses nothing (a document of MongoDB, or one   *)
(* command at a time), each planned write is right by the files and the    *)
(* writes before it, so that its command may die anywhere, and stays right *)
(* whatever the others write, since stores, aliases and deals only grow.   *)
(***************************************************************************)
EXTENDS Catalogue, FiniteSetTheorems, WellFoundedInduction, TLAPS


-----------------------------------------------------------------------------
(* Minima, induction and iteration over the naturals.                      *)

\* Every set of naturals that is not empty has a least member.
LEMMA LeastMember ==
  ASSUME NEW S \in SUBSET Nat, S # {}
  PROVE  /\ Min(S) \in S
         /\ \A m \in S : Min(S) <= m
<1> DEFINE R == OpToRel(<, Nat)
<1>1. IsWellFoundedOn(R, Nat)
  BY NatLessThanWellFounded
<1>2. \A i, j \in Nat : i < j => <<i, j>> \in R
  BY DEF OpToRel
<1> HIDE DEF R
<1>3. PICK n \in S : \A m \in S : ~ (<<m, n>> \in R)
  BY <1>1, WFMin
<1>4. ASSUME NEW m \in S PROVE n <= m
  <2>1. m \in Nat /\ n \in Nat /\ ~ (m < n)
    BY <1>2, <1>3
  <2> QED  BY <2>1
<1> QED
  BY <1>4 DEF Min

\* Induction, over a set in the place of a predicate.
LEMMA Induction ==
  ASSUME NEW S, 0 \in S, \A n \in Nat : n \in S => n + 1 \in S
  PROVE  \A n \in Nat : n \in S
<1> SUFFICES ASSUME Nat \ S # {} PROVE FALSE
  OBVIOUS
<1> DEFINE n == Min(Nat \ S)
<1>1. n \in Nat \ S /\ \A m \in Nat \ S : n <= m
  BY LeastMember
<1> HIDE DEF n
<1>2. n # 0 /\ n - 1 \in Nat /\ ~(n <= n - 1)
  BY <1>1
<1>3. n - 1 \in S
  BY <1>1, <1>2
<1> QED
  BY <1>1, <1>2, <1>3

\* A first value and what follows each define a function.
Iterates(f, V, first, next) == f \in [Nat -> V] /\ f[0] = first /\ \A n \in Nat : f[n + 1] = next[n][f[n]]

\* A function of the naturals that goes on from its first value as it is told at every
\* number.
LEMMA Iteration ==
  ASSUME NEW V, NEW first \in V, NEW next, \A n \in Nat : next[n] \in [V -> V]
  PROVE  \E f : Iterates(f, V, first, next)
<1> DEFINE Upto(n, f) == f \in [0 .. n -> V] /\ f[0] = first /\ \A i \in 0 .. n - 1 : f[i + 1] = next[i][f[i]]
           Defined == {n \in Nat : \E f \in [0 .. n -> V] : Upto(n, f)}
<1>1. 0 \in Defined
  <2> DEFINE f == [i \in 0 .. 0 |-> first]
  <2>1. f \in [0 .. 0 -> V] /\ f[0] = first
    OBVIOUS
  <2>2. Upto(0, f)
    BY <2>1
  <2> QED  BY <2>1, <2>2
<1>2. ASSUME NEW n \in Nat, n \in Defined PROVE n + 1 \in Defined
  <2>1. PICK f \in [0 .. n -> V] : Upto(n, f)
    BY <1>2
  <2> DEFINE g == [i \in 0 .. n + 1 |-> IF i = n + 1 THEN next[n][f[n]] ELSE f[i]]
  <2>2. g \in [0 .. n + 1 -> V] /\ g[0] = first
    BY <2>1
  <2>3. ASSUME NEW i \in 0 .. (n + 1) - 1 PROVE g[i + 1] = next[i][g[i]]
    <3>1. CASE i = n
      <4>1. g[i + 1] = next[n][f[n]] /\ g[i] = f[i]
        BY <3>1
      <4> QED  BY <3>1, <4>1
    <3>2. CASE i # n
      <4>1. i \in 0 .. n - 1
        BY <3>2
      <4>2. g[i + 1] = f[i + 1] /\ g[i] = f[i]
        BY <4>1
      <4> QED  BY <2>1, <4>1, <4>2
    <3> QED BY <3>1, <3>2
  <2>4. Upto(n + 1, g)
    BY <2>2, <2>3
  <2> HIDE DEF g
  <2>5. n + 1 \in Nat /\ \E h \in [0 .. n + 1 -> V] : Upto(n + 1, h)
    BY <2>2, <2>4
  <2> QED  BY <2>5
<1> HIDE DEF Defined
<1>3. \A n \in Nat : n \in Defined
  BY <1>1, <1>2, Induction
<1> USE DEF Defined
<1> DEFINE G(n) == CHOOSE f \in [0 .. n -> V] : Upto(n, f)
<1>4. \A n \in Nat : Upto(n, G(n))
  BY <1>3
<1> HIDE DEF G, Defined
\* Any two of them agree where both are defined.
<1>5. ASSUME NEW n \in Nat PROVE G(n + 1)[n] = G(n)[n]
  <2> DEFINE Same == {i \in Nat : i <= n => G(n + 1)[i] = G(n)[i]}
  <2>1. 0 \in Same
    BY <1>4
  <2>2. ASSUME NEW i \in Nat, i \in Same PROVE i + 1 \in Same
    <3> SUFFICES ASSUME i + 1 <= n PROVE G(n + 1)[i + 1] = G(n)[i + 1]
      OBVIOUS
    <3>1. i \in 0 .. n - 1 /\ i \in 0 .. (n + 1) - 1 /\ G(n + 1)[i] = G(n)[i]
      BY <2>2
    <3>2. G(n)[i + 1] = next[i][G(n)[i]]
      BY <1>4, <3>1
    <3>3. G(n + 1)[i + 1] = next[i][G(n + 1)[i]]
      <4>1. Upto(n + 1, G(n + 1))
        BY <1>4
      <4> QED  BY <3>1, <4>1
    <3> QED  BY <3>1, <3>2, <3>3
  <2> HIDE DEF Same
  <2>3. \A i \in Nat : i \in Same
    BY <2>1, <2>2, Induction
  <2> QED  BY <2>3 DEF Same
<1> DEFINE f == [n \in Nat |-> G(n)[n]]
<1>6. f \in [Nat -> V] /\ f[0] = first
  BY <1>4
<1>7. ASSUME NEW n \in Nat PROVE f[n + 1] = next[n][f[n]]
  <2>1. G(n + 1)[n + 1] = next[n][G(n + 1)[n]]
    BY <1>4
  <2> QED  BY <1>5, <2>1
<1> QED  BY <1>6, <1>7 DEF Iterates

-----------------------------------------------------------------------------
(* Sequences of whatever: what is said of one is said of its places.       *)

IsSeq(s) == s \in Seq(Range(s))

\* What a sequence is: its places are the numbers up to its length.
LEMMA SeqFacts ==
  ASSUME NEW s, IsSeq(s)
  PROVE  /\ Len(s) \in Nat /\ DOMAIN s = 1 .. Len(s)
         /\ s = <<>> <=> Len(s) = 0
         /\ s = [i \in 1 .. Len(s) |-> s[i]]
  BY DEF IsSeq

\* A function on the first so many numbers is a sequence.
LEMMA SeqFrom ==
  ASSUME NEW n \in Nat, NEW s, s = [i \in 1 .. n |-> s[i]]
  PROVE  IsSeq(s) /\ Len(s) = n
<1>1. s \in [1 .. n -> Range(s)]
  BY DEF Range
<1>2. s \in Seq(Range(s)) /\ Len(s) = n
  BY <1>1
<1> QED
  BY <1>2 DEF IsSeq

\* A sequence over a set is one, and what it holds is in the set.
LEMMA SeqIn ==
  ASSUME NEW T, NEW s \in Seq(T)
  PROVE  IsSeq(s) /\ \A i \in 1 .. Len(s) : s[i] \in T
<1>1. Len(s) \in Nat /\ s = [i \in 1 .. Len(s) |-> s[i]] /\ \A i \in 1 .. Len(s) : s[i] \in T
  OBVIOUS
<1> QED
  BY <1>1, SeqFrom

\* The empty sequence has no places.
LEMMA NoPlaces == IsSeq(<<>>) /\ Len(<<>>) = 0
<1>1. \A T : <<>> \in Seq(T)
  OBVIOUS
<1>2. IsSeq(<<>>)
  BY <1>1, Zenon DEF IsSeq
<1>3. Len(<<>>) = 0
  OBVIOUS
<1> QED
  BY <1>2, <1>3, Zenon

\* Appending leaves the places there were and adds one.
LEMMA SeqAppend ==
  ASSUME NEW s, IsSeq(s), NEW x
  PROVE  /\ IsSeq(Append(s, x)) /\ Len(Append(s, x)) = Len(s) + 1
         /\ \A i \in 1 .. Len(s) : Append(s, x)[i] = s[i]
         /\ Append(s, x)[Len(s) + 1] = x
<1> DEFINE T == Range(s) \cup {x}
<1>1. s \in Seq(T) /\ x \in T
  BY DEF IsSeq
<1> HIDE DEF T
<1>2. Append(s, x) \in Seq(T)
  BY <1>1
<1>3. IsSeq(Append(s, x))
  BY <1>2, SeqIn
<1> QED
  BY <1>1, <1>3

\* The tail of a sequence has the places after the first.
LEMMA SeqTail ==
  ASSUME NEW s, IsSeq(s), s # <<>>
  PROVE  /\ Len(s) \in Nat \ {0} /\ Head(s) = s[1]
         /\ IsSeq(Tail(s)) /\ Len(Tail(s)) = Len(s) - 1
         /\ \A i \in 1 .. Len(s) - 1 : Tail(s)[i] = s[i + 1]
<1> DEFINE T == Range(s)
<1>1. s \in Seq(T)
  BY DEF IsSeq
<1> HIDE DEF T
<1>2. Tail(s) \in Seq(T)
  BY <1>1
<1>3. IsSeq(Tail(s))
  BY <1>2, SeqIn
<1> QED
  BY <1>1, <1>3

\* Two sequences one after the other: the places of the first, then those of the second.
LEMMA SeqConcat ==
  ASSUME NEW s, IsSeq(s), NEW t, IsSeq(t)
  PROVE  /\ IsSeq(s \o t) /\ Len(s \o t) = Len(s) + Len(t)
         /\ \A i \in 1 .. Len(s) : (s \o t)[i] = s[i]
         /\ \A i \in 1 .. Len(t) : (s \o t)[Len(s) + i] = t[i]
<1> DEFINE T == Range(s) \cup Range(t)
<1>1. s \in Seq(T) /\ t \in Seq(T)
  BY DEF IsSeq
<1> HIDE DEF T
<1>2. s \o t \in Seq(T)
  BY <1>1
<1>3. IsSeq(s \o t)
  BY <1>2, SeqIn
<1>4. Len(s \o t) = Len(s) + Len(t)
  BY <1>1
<1>5. \A i \in 1 .. Len(s) : (s \o t)[i] = s[i]
  BY <1>1
<1>6. \A i \in 1 .. Len(t) : (s \o t)[Len(s) + i] = t[i]
  BY <1>1
<1> QED
  BY <1>3, <1>4, <1>5, <1>6

\* Every place of a concatenation is one of the first or of the second sequence.
LEMMA PlacesOfConcat ==
  ASSUME NEW s, IsSeq(s), NEW t, IsSeq(t), NEW p \in 1 .. Len(s \o t)
  PROVE  \/ p \in 1 .. Len(s) /\ (s \o t)[p] = s[p]
         \/ \E q \in 1 .. Len(t) : p = Len(s) + q /\ (s \o t)[p] = t[q]
<1>1. Len(s) \in Nat /\ Len(t) \in Nat /\ Len(s \o t) = Len(s) + Len(t)
  BY SeqConcat, SeqFacts
<1>2. /\ \A i \in 1 .. Len(s) : (s \o t)[i] = s[i]
      /\ \A i \in 1 .. Len(t) : (s \o t)[Len(s) + i] = t[i]
  BY SeqConcat
<1>3. CASE p \in 1 .. Len(s)
  BY <1>2, <1>3
<1>4. CASE p \notin 1 .. Len(s)
  <2>1. p - Len(s) \in 1 .. Len(t) /\ p = Len(s) + (p - Len(s))
    BY <1>1, <1>4
  <2> QED
    BY <1>2, <2>1
<1> QED
  BY <1>3, <1>4

\* The sequence of the places up to a bound, in their order and each once.
Ascends(s, places, last) ==
  /\ IsSeq(s)
  /\ \A i \in 1 .. Len(s) : s[i] \in places /\ s[i] \in 1 .. last
  /\ \A p \in 1 .. last : p \in places => \E i \in 1 .. Len(s) : s[i] = p
  /\ \A i, j \in 1 .. Len(s) : i < j => s[i] < s[j]

\* One more number: the places in order up to it (a step of InOrder).
LEMMA AscendsNext ==
  ASSUME NEW n \in Nat, NEW places, NEW s, Ascends(s, places, n)
  PROVE  Ascends(IF n + 1 \in places THEN Append(s, n + 1) ELSE s, places, n + 1)
<1>1. IsSeq(s) /\ Len(s) \in Nat
  BY SeqFacts DEF Ascends
<1>2. CASE n + 1 \notin places
  <2>1. \A p \in 1 .. n + 1 : p \in places => p \in 1 .. n
    BY <1>2
  <2> QED
    BY <1>2, <2>1 DEF Ascends
<1>3. CASE n + 1 \in places
  <2>1. PICK t : t = Append(s, n + 1)
    OBVIOUS
  <2>2. /\ IsSeq(t) /\ Len(t) = Len(s) + 1 /\ t[Len(s) + 1] = n + 1
        /\ \A i \in 1 .. Len(s) : t[i] = s[i]
    BY <1>1, <2>1, SeqAppend
  <2>3. \A i \in 1 .. Len(t) : i \in 1 .. Len(s) \/ i = Len(s) + 1
    BY <1>1, <2>2
  <2>4. \A i \in 1 .. Len(t) : t[i] \in places /\ t[i] \in 1 .. n + 1
    BY <1>3, <2>2, <2>3 DEF Ascends
  <2>5. ASSUME NEW i \in 1 .. Len(t), NEW j \in 1 .. Len(t), i < j PROVE t[i] < t[j]
    <3>1. i \in 1 .. Len(s)
      BY <1>1, <2>2, <2>5
    <3>2. t[i] = s[i] /\ s[i] \in 1 .. n
      BY <2>2, <3>1 DEF Ascends
    <3>3. CASE j = Len(s) + 1
      BY <2>2, <3>2, <3>3
    <3>4. CASE j \in 1 .. Len(s)
      BY <2>2, <2>5, <3>1, <3>4 DEF Ascends
    <3> QED  BY <2>3, <3>3, <3>4
  <2>6. ASSUME NEW p \in 1 .. n + 1, p \in places PROVE \E i \in 1 .. Len(t) : t[i] = p
    <3>1. CASE p = n + 1
      <4>1. Len(s) + 1 \in 1 .. Len(t)
        BY <1>1, <2>2
      <4> QED  BY <2>2, <3>1, <4>1
    <3>2. CASE p # n + 1
      <4>1. PICK i \in 1 .. Len(s) : s[i] = p
        <5>1. p \in 1 .. n
          BY <3>2
        <5> QED  BY <2>6, <5>1 DEF Ascends
      <4>2. i \in 1 .. Len(t) /\ t[i] = p
        BY <1>1, <2>2, <4>1
      <4> QED  BY <4>2
    <3> QED  BY <3>1, <3>2
  <2> QED
    BY <1>3, <2>1, <2>2, <2>4, <2>5, <2>6 DEF Ascends
<1> QED
  BY <1>2, <1>3

\* InOrder: the places that are asked for, each once and ascending.
LEMMA Ordered ==
  ASSUME NEW places, NEW last \in Nat
  PROVE  Ascends(InOrder(places, last), places, last)
<1> DEFINE next == [n \in Nat |-> [s \in Seq(Nat) |-> IF n + 1 \in places THEN Append(s, n + 1) ELSE s]]
           none == <<>>
           V == Seq(Nat)
<1>1. none \in V /\ \A n \in Nat : next[n] \in [V -> V]
  OBVIOUS
<1>2. \A n \in Nat, s \in V : next[n][s] = IF n + 1 \in places THEN Append(s, n + 1) ELSE s
  OBVIOUS
<1> HIDE DEF next, none, V
<1>3. PICK f : Iterates(f, V, none, next)
  BY <1>1, Iteration
<1> USE DEF Iterates
<1> DEFINE upto == CHOOSE h : h = [n \in Nat |->
                     IF n = 0 THEN <<>> ELSE IF n \in places THEN Append(h[n - 1], n) ELSE h[n - 1]]
<1>4. ASSUME NEW n \in Nat
      PROVE  f[n] = IF n = 0 THEN <<>> ELSE IF n \in places THEN Append(f[n - 1], n) ELSE f[n - 1]
  <2>1. CASE n = 0
    BY <1>3, <2>1 DEF none
  <2>2. CASE n # 0
    <3>1. n - 1 \in Nat /\ n = (n - 1) + 1
      BY <2>2
    <3>2. f[n] = next[n - 1][f[n - 1]] /\ f[n - 1] \in V
      BY <1>3, <3>1
    <3>3. next[n - 1][f[n - 1]] = IF n \in places THEN Append(f[n - 1], n) ELSE f[n - 1]
      BY <1>2, <3>1, <3>2
    <3> QED  BY <2>2, <3>2, <3>3
  <2> QED  BY <2>1, <2>2
<1>5. f = [n \in Nat |-> IF n = 0 THEN <<>> ELSE IF n \in places THEN Append(f[n - 1], n) ELSE f[n - 1]]
  BY <1>3, <1>4
<1>6. upto = [n \in Nat |-> IF n = 0 THEN <<>> ELSE IF n \in places THEN Append(upto[n - 1], n) ELSE upto[n - 1]]
  BY <1>5
<1>7. InOrder(places, last) = upto[last]
  BY DEF InOrder
<1> HIDE DEF upto
<1> DEFINE Reached == {n \in Nat : Ascends(upto[n], places, n)}
<1>8. 0 \in Reached
  <2>1. upto[0] = <<>>
    BY <1>6
  <2>2. ASSUME NEW s, IsSeq(s), Len(s) = 0 PROVE Ascends(s, places, 0)
    BY <2>2 DEF Ascends
  <2> QED  BY <2>1, <2>2, NoPlaces
<1>9. ASSUME NEW n \in Nat, n \in Reached PROVE n + 1 \in Reached
  <2>1. n + 1 \in Nat /\ n + 1 # 0 /\ (n + 1) - 1 = n
    OBVIOUS
  <2>2. upto[n + 1] = IF n + 1 \in places THEN Append(upto[n], n + 1) ELSE upto[n]
    BY <1>6, <2>1
  <2> QED  BY <1>9, <2>1, <2>2, AscendsNext
<1> HIDE DEF Reached
<1>10. \A n \in Nat : n \in Reached
  BY <1>8, <1>9, Induction
<1> QED  BY <1>7, <1>10 DEF Reached

\* Nothing before a sequence leaves it as it is.
LEMMA ConcatNothing ==
  ASSUME NEW s, IsSeq(s)
  PROVE  <<>> \o s = s
<1>1. s \in Seq(Range(s))
  BY DEF IsSeq
<1> QED
  BY <1>1

\* What is reached from part to part is reached by all the parts together.
LEMMA Flattened ==
  ASSUME NEW ss, IsSeq(ss), \A n \in 1 .. Len(ss) : IsSeq(ss[n]),
         NEW V, <<>> \in V[0], \A n \in 1 .. Len(ss) : \A s \in V[n - 1] : s \o ss[n] \in V[n]
  PROVE  FlattenSeq(ss) \in V[Len(ss)]
<1>1. Len(ss) \in Nat /\ DOMAIN ss = 1 .. Len(ss) /\ (Len(ss) = 0 => ss = <<>>)
  BY SeqFacts
<1>2. CASE Len(ss) = 0
  <2>1. FlattenSeq(ss) = <<>>
    BY <1>1, <1>2 DEF FlattenSeq
  <2> QED  BY <1>2, <2>1
<1>3. CASE Len(ss) # 0
  <2> DEFINE T == UNION {Range(ss[n]) : n \in 1 .. Len(ss)}
             W == Seq(T)
             none == <<>>
             next == [n \in Nat |-> [s \in W |-> IF n + 1 \in 1 .. Len(ss) THEN s \o ss[n + 1] ELSE s]]
             flatten == CHOOSE h : h = [i \in 1 .. Len(ss) |-> IF i = 1 THEN ss[i] ELSE h[i - 1] \o ss[i]]
  <2>1. \A n \in 1 .. Len(ss) : ss[n] \in W
    <3> SUFFICES ASSUME NEW n \in 1 .. Len(ss) PROVE ss[n] \in Seq(T)
      OBVIOUS
    <3>1. ss[n] \in Seq(Range(ss[n])) /\ Range(ss[n]) \subseteq T
      BY DEF IsSeq
    <3> HIDE DEF T
    <3> QED  BY <3>1
  <2> HIDE DEF T
  <2>2. none \in W /\ \A n \in Nat : next[n] \in [W -> W]
    BY <2>1
  <2>3. \A n \in Nat : n + 1 \in 1 .. Len(ss) => \A s \in W : next[n][s] = s \o ss[n + 1]
    OBVIOUS
  <2> HIDE DEF W, next, none
  <2>4. PICK f : Iterates(f, W, none, next)
    BY <2>2, Iteration
  <2>5. ASSUME NEW n \in 1 .. Len(ss) PROVE f[n] = f[n - 1] \o ss[n]
    <3>1. n - 1 \in Nat /\ (n - 1) + 1 = n
      BY <1>1
    <3>2. f[n] = next[n - 1][f[n - 1]] /\ f[n - 1] \in W
      BY <2>4, <3>1 DEF Iterates
    <3> QED  BY <2>3, <3>1, <3>2
  <2>6. f[0] = <<>> /\ f[1] = ss[1]
    <3>1. f[0] = <<>>
      BY <2>4 DEF Iterates, none
    <3>2. 1 \in 1 .. Len(ss)
      BY <1>1, <1>3
    <3>3. ASSUME NEW n \in 1 .. Len(ss), n = 1 PROVE f[n] = f[0] \o ss[n]
      <4>1. n - 1 = 0
        BY <3>3
      <4>2. f[n] = f[n - 1] \o ss[n]
        BY <2>5
      <4> QED  BY <4>1, <4>2
    <3>4. f[1] = f[0] \o ss[1]
      BY <3>2, <3>3
    <3> QED  BY <3>1, <3>2, <3>4, ConcatNothing
  <2> DEFINE g == [i \in 1 .. Len(ss) |-> f[i]]
  <2>7. g = [i \in 1 .. Len(ss) |-> IF i = 1 THEN ss[i] ELSE g[i - 1] \o ss[i]]
    <3>1. ASSUME NEW i \in 1 .. Len(ss) PROVE g[i] = IF i = 1 THEN ss[i] ELSE g[i - 1] \o ss[i]
      <4>1. CASE i = 1
        BY <2>6, <4>1
      <4>2. CASE i # 1
        <5>1. i - 1 \in 1 .. Len(ss)
          BY <1>1, <4>2
        <5> QED  BY <2>5, <4>2, <5>1
      <4> QED  BY <4>1, <4>2
    <3> HIDE DEF g
    <3>2. g = [i \in 1 .. Len(ss) |-> g[i]]
      BY DEF g
    <3> QED  BY <3>1, <3>2
  <2> HIDE DEF g
  <2>8. flatten = [i \in 1 .. Len(ss) |-> IF i = 1 THEN ss[i] ELSE flatten[i - 1] \o ss[i]]
    BY <2>7
  <2>9. FlattenSeq(ss) = flatten[Len(ss)]
    BY <1>3 DEF FlattenSeq
  <2> HIDE DEF flatten
  <2> DEFINE Reached == {n \in Nat : n \in 1 .. Len(ss) => flatten[n] \in V[n]}
  <2>10. 0 \in Reached
    BY <1>1
  <2>11. ASSUME NEW n \in Nat, n \in Reached PROVE n + 1 \in Reached
    <3> SUFFICES ASSUME n + 1 \in 1 .. Len(ss) PROVE flatten[n + 1] \in V[n + 1]
      OBVIOUS
    <3>1. CASE n = 0
      <4>1. flatten[1] = ss[1]
        BY <2>8, <3>1
      <4>2. ASSUME NEW m \in 1 .. Len(ss), m = 1 PROVE <<>> \o ss[m] \in V[m]
        <5>1. m - 1 = 0
          BY <4>2
        <5>2. <<>> \in V[m - 1]
          BY <5>1
        <5> QED  BY <5>2
      <4>3. 1 \in 1 .. Len(ss)
        BY <3>1
      <4> QED  BY <3>1, <4>1, <4>2, <4>3, ConcatNothing
    <3>2. CASE n # 0
      <4>1. n \in 1 .. Len(ss) /\ n + 1 # 1 /\ (n + 1) - 1 = n
        BY <1>1, <3>2
      <4>2. flatten[n + 1] = flatten[n] \o ss[n + 1] /\ flatten[n] \in V[n]
        BY <2>8, <2>11, <4>1
      <4> QED  BY <4>1, <4>2
    <3> QED  BY <3>1, <3>2
  <2> HIDE DEF Reached
  <2>12. \A n \in Nat : n \in Reached
    BY <2>10, <2>11, Induction
  <2>13. Len(ss) \in 1 .. Len(ss)
    BY <1>1, <1>3
  <2> QED  BY <1>1, <2>9, <2>12, <2>13 DEF Reached
<1> QED
  BY <1>2, <1>3

\* A finite set makes a sequence of all its elements.
LEMMA Sequenced ==
  ASSUME NEW S, IsFiniteSet(S)
  PROVE  IsSeq(SetToSeq(S)) /\ \A i \in 1 .. Len(SetToSeq(S)) : SetToSeq(S)[i] \in S
<1> DEFINE n == Cardinality(S)
           s == SetToSeq(S)
<1>1. n \in Nat
  BY FS_CardinalityType
<1>2. \E f \in [1 .. n -> S] : IsInjective(f)
  <2>1. PICK m \in Nat : ExistsBijection(1 .. m, S)
    BY FS_NatBijection
  <2>2. m = n
    BY <2>1, FS_CountingElements
  <2>3. PICK f \in Bijection(1 .. m, S) : TRUE
    BY <2>1 DEF ExistsBijection
  <2>4. f \in [1 .. n -> S] /\ \A a, b \in 1 .. n : f[a] = f[b] => a = b
    BY <2>2, <2>3 DEF Bijection, Injection, IsInjective
  <2> QED  BY <2>4 DEF IsInjective
<1>3. s \in [1 .. n -> S]
  BY <1>2 DEF SetToSeq
<1> HIDE DEF s, n
<1>4. s = [i \in 1 .. n |-> s[i]] /\ \A i \in 1 .. n : s[i] \in S
  BY <1>3
<1>5. IsSeq(s) /\ Len(s) = n
  BY <1>1, <1>4, SeqFrom
<1> QED
  BY <1>4, <1>5 DEF s

-----------------------------------------------------------------------------
(* What the matcher answers.                                               *)

\* A stage names one of the stores it was given, or says nothing.
IsCandidate(c, Ids) == c.store \in Ids \/ (c.store = None /\ c.confidence = 0)

\* The highest entry, if there is one, names a store of the catalogue.
LEMMA HighestNames ==
  ASSUME NEW entries, IsSeq(entries), NEW Ids, \A k \in 1 .. Len(entries) : entries[k].store \in Ids,
         NEW stage, NEW score, NEW places, places \subseteq DOMAIN entries
  PROVE  IsCandidate(Highest(stage, entries, places, score), Ids)
<1> DEFINE top == Foremost({k \in places : score[k] > 0}, score)
<1>1. DOMAIN entries = 1 .. Len(entries) /\ Len(entries) \in Nat
  BY SeqFacts
<1>2. top \subseteq 1 .. Len(entries)
  BY <1>1 DEF Foremost
<1>3. Highest(stage, entries, places, score) =
        IF top = {} THEN NoCandidate ELSE Candidate(stage, score[Min(top)], entries[Min(top)].store)
  BY DEF Highest
<1> HIDE DEF top
<1>4. CASE top = {}
  BY <1>3, <1>4 DEF IsCandidate, NoCandidate, Candidate
<1>5. CASE top # {}
  <2>1. top \in SUBSET Nat
    BY <1>1, <1>2
  <2>2. Min(top) \in 1 .. Len(entries)
    BY <1>2, <1>5, <2>1, LeastMember
  <2> QED
    BY <1>3, <1>5, <2>2 DEF IsCandidate, Candidate
<1> QED
  BY <1>4, <1>5

\* So does the store found by its domain.
LEMMA DomainNames ==
  ASSUME NEW ss, IsSeq(ss), NEW Ids, \A k \in 1 .. Len(ss) : ss[k].id \in Ids, NEW domain
  PROVE  IsCandidate(DomainMatch(domain, ss), Ids)
<1> DEFINE holders == {k \in DOMAIN ss : domain # None /\ ss[k].domain = domain}
           last == CHOOSE k \in holders : \A j \in holders : j <= k
<1>1. DOMAIN ss = 1 .. Len(ss) /\ Len(ss) \in Nat
  BY SeqFacts
<1>2. holders \subseteq 1 .. Len(ss)
  BY <1>1
<1>3. DomainMatch(domain, ss) = IF holders = {} THEN NoCandidate ELSE Candidate("domain", 95, ss[last].id)
  BY DEF DomainMatch
<1> HIDE DEF holders
<1>4. CASE holders = {}
  BY <1>3, <1>4 DEF IsCandidate, NoCandidate, Candidate
<1>5. CASE holders # {}
  <2> DEFINE gaps == {n \in Nat : Len(ss) - n \in holders}
  <2>1. gaps \in SUBSET Nat /\ gaps # {}
    <3>1. PICK k \in holders : TRUE
      BY <1>5
    <3>2. Len(ss) - k \in Nat /\ Len(ss) - (Len(ss) - k) = k
      BY <1>1, <1>2
    <3> QED  BY <3>1, <3>2
  <2>2. Min(gaps) \in gaps /\ \A n \in gaps : Min(gaps) <= n
    BY <2>1, LeastMember
  <2>3. Len(ss) - Min(gaps) \in holders /\ Min(gaps) \in Nat
    BY <2>2
  <2>4. \A j \in holders : j <= Len(ss) - Min(gaps)
    <3> SUFFICES ASSUME NEW j \in holders PROVE j <= Len(ss) - Min(gaps)
      OBVIOUS
    <3>1. Len(ss) - j \in Nat /\ Len(ss) - (Len(ss) - j) = j /\ j \in Nat
      BY <1>1, <1>2
    <3>2. Min(gaps) <= Len(ss) - j
      BY <2>2, <3>1
    <3> QED  BY <1>1, <2>3, <3>1, <3>2
  <2>5. last \in holders
    BY <2>3, <2>4
  <2> HIDE DEF last, gaps
  <2> QED
    BY <1>2, <1>3, <1>5, <2>5 DEF IsCandidate, Candidate
<1> QED
  BY <1>4, <1>5

\* The entries are the aliases and then the names of the stores.
AreEntries(entries, ss, al) ==
  /\ IsSeq(entries)
  /\ \A k \in 1 .. Len(al) : k \in 1 .. Len(entries) /\ entries[k] = al[k]
  /\ \A k \in 1 .. Len(entries) :
       \/ \E j \in 1 .. Len(al) : entries[k] = al[j]
       \/ \E j \in 1 .. Len(ss) : entries[k].store = ss[j].id

\* The entries of AliasIndex are the aliases and the stores' own names, and nothing else.
LEMMA EntriesOf ==
  ASSUME NEW ss, IsSeq(ss), NEW al, IsSeq(al)
  PROVE  AreEntries(Entries(ss, al), ss, al)
<1> DEFINE own == OwnNames(ss)
           both == al \o own
<1>1. DOMAIN ss = 1 .. Len(ss) /\ Len(ss) \in Nat /\ Len(al) \in Nat
  BY SeqFacts
<1>2. own = [k \in 1 .. Len(ss) |-> own[k]] /\ \A k \in 1 .. Len(ss) : own[k].store = ss[k].id
  BY <1>1 DEF OwnNames
<1>3. Entries(ss, al) = both
  BY DEF Entries
<1> HIDE DEF own
<1>4. IsSeq(own) /\ Len(own) = Len(ss)
  BY <1>1, <1>2, SeqFrom
<1>5. IsSeq(both) /\ Len(both) = Len(al) + Len(ss) /\ \A k \in 1 .. Len(al) : both[k] = al[k]
  BY <1>4, SeqConcat
<1>6. ASSUME NEW k \in 1 .. Len(both)
      PROVE  \/ k \in 1 .. Len(al) /\ both[k] = al[k]
             \/ \E q \in 1 .. Len(own) : k = Len(al) + q /\ both[k] = own[q]
  BY <1>4, PlacesOfConcat, Z3
<1> HIDE DEF both
<1>7. ASSUME NEW k \in 1 .. Len(both)
      PROVE  \/ \E j \in 1 .. Len(al) : both[k] = al[j]
             \/ \E j \in 1 .. Len(ss) : both[k].store = ss[j].id
  <2>1. CASE k \in 1 .. Len(al) /\ both[k] = al[k]
    BY <2>1
  <2>2. CASE \E q \in 1 .. Len(own) : k = Len(al) + q /\ both[k] = own[q]
    <3>1. PICK q \in 1 .. Len(own) : both[k] = own[q]
      BY <2>2
    <3>2. q \in 1 .. Len(ss) /\ both[k].store = ss[q].id
      BY <1>2, <1>4, <3>1
    <3> QED  BY <3>2
  <2> QED  BY <1>6, <2>1, <2>2
<1>8. ASSUME NEW k \in 1 .. Len(al) PROVE k \in 1 .. Len(both)
  <2>1. Len(both) = Len(al) + Len(ss)
    BY <1>5
  <2> QED  BY <1>1, <2>1, Z3
<1> QED
  BY <1>3, <1>5, <1>7, <1>8 DEF AreEntries

\* It names a store of the catalogue or none, and one when it is sure.
LEMMA VerdictNames ==
  ASSUME NEW ss, IsSeq(ss), NEW al, IsSeq(al), NEW Ids,
         \A k \in 1 .. Len(ss) : ss[k].id \in Ids, \A k \in 1 .. Len(al) : al[k].store \in Ids,
         NEW form, NEW domain
  PROVE  /\ Verdict(form, domain, ss, al).store \in Ids \cup {None}
         /\ Verdict(form, domain, ss, al).auto \in BOOLEAN
         /\ Verdict(form, domain, ss, al).auto => Verdict(form, domain, ss, al).store \in Ids
<1> DEFINE entries == Entries(ss, al)
           stages == <<ExactAlias(form, entries), DomainMatch(domain, ss), Fuzzy(form, entries, ss),
                       Containment(form, entries, ss), TokenOverlap(form, entries, ss)>>
           sure == {k \in 1 .. 5 : stages[k].confidence >= 90}
           best == Foremost({k \in 1 .. 5 : stages[k].store # None}, [k \in 1 .. 5 |-> stages[k].confidence])
<1>1. IsSeq(entries) /\ \A k \in 1 .. Len(entries) : entries[k].store \in Ids
  <2>1. AreEntries(entries, ss, al)
    BY EntriesOf
  <2> HIDE DEF entries, stages, sure, best
  <2> QED  BY <2>1 DEF AreEntries
<1> HIDE DEF entries
<1>2. /\ IsCandidate(ExactAlias(form, entries), Ids) /\ IsCandidate(Fuzzy(form, entries, ss), Ids)
      /\ IsCandidate(Containment(form, entries, ss), Ids) /\ IsCandidate(TokenOverlap(form, entries, ss), Ids)
  <2>1. Telling(entries) \subseteq DOMAIN entries /\ Held(entries, ss) \subseteq DOMAIN entries
    BY DEF Telling, Held
  <2> QED  BY <1>1, <2>1, HighestNames DEF ExactAlias, Fuzzy, Containment, TokenOverlap
<1>3. IsCandidate(DomainMatch(domain, ss), Ids)
  BY DomainNames
<1>4. \A k \in 1 .. 5 : IsCandidate(stages[k], Ids)
  BY <1>2, <1>3
<1>5. Verdict(form, domain, ss, al) =
        IF sure # {} THEN [auto |-> TRUE, store |-> stages[Min(sure)].store]
        ELSE [auto |-> FALSE, store |-> IF best = {} THEN None ELSE stages[Min(best)].store]
  BY DEF Verdict, entries
<1>6. sure \in SUBSET Nat /\ best \in SUBSET Nat /\ sure \subseteq 1 .. 5 /\ best \subseteq 1 .. 5
  BY DEF Foremost
<1>7. ASSUME sure # {} PROVE stages[Min(sure)].store \in Ids
  <2>1. Min(sure) \in sure
    BY <1>6, <1>7, LeastMember
  <2>2. IsCandidate(stages[Min(sure)], Ids) /\ stages[Min(sure)].confidence >= 90
    BY <1>4, <2>1
  <2> QED  BY <2>2 DEF IsCandidate
<1>8. ASSUME best # {} PROVE stages[Min(best)].store \in Ids \cup {None}
  <2>1. Min(best) \in 1 .. 5
    BY <1>6, <1>8, LeastMember
  <2> HIDE DEF stages, best
  <2>2. IsCandidate(stages[Min(best)], Ids)
    BY <1>4, <2>1
  <2> QED  BY <2>2 DEF IsCandidate
<1> HIDE DEF stages, sure, best
<1> QED
  BY <1>5, <1>7, <1>8

\* Of a whole name that was taught, and says who bears it, it is sure.
LEMMA TaughtIsSure ==
  ASSUME NEW ss, IsSeq(ss), NEW al, IsSeq(al), NEW k \in 1 .. Len(al),
         Range(al[k].form) \notin LowInformation, NEW domain
  PROVE  Verdict(al[k].form, domain, ss, al).auto
<1> DEFINE form == al[k].form
           entries == Entries(ss, al)
           score == [j \in DOMAIN entries |-> IF entries[j].form = form THEN 100 ELSE 0]
           hits == {j \in Telling(entries) : score[j] > 0}
           first == ExactAlias(form, entries)
           stages == <<first, DomainMatch(domain, ss), Fuzzy(form, entries, ss),
                       Containment(form, entries, ss), TokenOverlap(form, entries, ss)>>
           sure == {j \in 1 .. 5 : stages[j].confidence >= 90}
<1>1. sure # {} => Verdict(form, domain, ss, al) = [auto |-> TRUE, store |-> stages[Min(sure)].store]
  BY DEF Verdict
<1> PICK v : v = Verdict(form, domain, ss, al)
  OBVIOUS
<1> SUFFICES v.auto
  OBVIOUS
<1>2. AreEntries(entries, ss, al)
  BY EntriesOf
<1> HIDE DEF entries
<1>3. first = Highest("exact", entries, Telling(entries), score)
  BY DEF ExactAlias
<1> HIDE DEF first
<1>4. IsSeq(entries) /\ k \in 1 .. Len(entries) /\ entries[k] = al[k]
  BY <1>2 DEF AreEntries
<1>5. DOMAIN entries = 1 .. Len(entries) /\ Len(entries) \in Nat
  BY <1>4, SeqFacts
<1>6. ASSUME NEW j \in hits PROVE score[j] = 100 /\ j \in Nat
  <2>1. j \in DOMAIN entries /\ score[j] > 0
    BY DEF Telling
  <2>2. score[j] = IF entries[j].form = form THEN 100 ELSE 0
    BY <2>1
  <2> HIDE DEF score
  <2>3. score[j] = 100
    BY <2>1, <2>2, Z3
  <2> QED  BY <1>5, <2>1, <2>3
<1>7. k \in hits
  <2>1. k \in Telling(entries)
    BY <1>4, <1>5 DEF Telling
  <2>2. score[k] = 100
    BY <1>4, <1>5
  <2> HIDE DEF score
  <2> QED  BY <2>1, <2>2
<1> HIDE DEF hits
<1>8. Foremost(hits, score) = hits
  <2> HIDE DEF score
  <2>1. \A i, j \in hits : score[j] <= score[i]
    BY <1>6
  <2> QED  BY <2>1 DEF Foremost
<1>9. Min(hits) \in hits
  BY <1>6, <1>7, LeastMember
<1>10. Highest("exact", entries, Telling(entries), score) =
         IF Foremost(hits, score) = {} THEN NoCandidate
         ELSE Candidate("exact", score[Min(Foremost(hits, score))], entries[Min(Foremost(hits, score))].store)
  BY DEF Highest, hits
<1> HIDE DEF score
<1>11. first = Candidate("exact", score[Min(hits)], entries[Min(hits)].store)
  BY <1>3, <1>7, <1>8, <1>10
<1>12. first.confidence = 100
  BY <1>6, <1>9, <1>11 DEF Candidate
<1>13. 1 \in sure
  <2>1. stages[1] = first
    OBVIOUS
  <2> HIDE DEF stages
  <2> QED  BY <1>12, <2>1
<1> HIDE DEF sure, stages
<1>14. v = [auto |-> TRUE, store |-> stages[Min(sure)].store]
  BY <1>1, <1>13
<1> QED
  BY <1>14
-----------------------------------------------------------------------------
(* The invariant, part by part and of any files and writes.                *)

IdsOf(ss) == {ss[k].id : k \in DOMAIN ss}
Triple(s) == <<s.id, s.name, s.by>>
NamesOf(ss) == {Triple(ss[k]) : k \in DOMAIN ss}
Closed == {"approved", "created"}
Sources == {Records[r].source : r \in DOMAIN Records} \ {None}

\* The rows of the files, and the files.
IsItem(i) ==
  /\ i = [id |-> i.id, raw |-> i.raw, best |-> i.best, status |-> i.status, store |-> i.store, by |-> i.by]
  /\ i.raw \in DOMAIN Records
AreStores(ss) ==
  /\ IsSeq(ss) /\ \A k \in 1 .. Len(ss) : IsStore(ss[k])
  /\ \A j, k \in 1 .. Len(ss) : ss[j].id = ss[k].id => j = k
AreItems(q) == IsSeq(q) /\ \A k \in 1 .. Len(q) : IsItem(q[k])
AreGroups(gs) ==
  /\ IsFiniteSet(DOMAIN gs)
  /\ \A g \in DOMAIN gs :
       /\ gs[g] = [managed |-> gs[g].managed, members |-> gs[g].members] /\ gs[g].managed \in BOOLEAN
       /\ IsSeq(gs[g].members) /\ \A n \in 1 .. Len(gs[g].members) : IsGroupMember(gs[g].members[n])
       /\ g \in DOMAIN Cards => gs[g].managed

\* What an actor may write.
Ops(a) ==
  CASE a = "operator" -> {"store", "alias", "deal", "item"}
    [] a = "bulk" -> {"store", "alias", "item", "club"}
    [] a = "pipeline" -> {"store", "add", "club"}
    [] OTHER -> {"add", "groups"}
MayWrite(a, w) ==
  /\ w.op \in Ops(a)
  /\ w.op = "store" => IsStore(w.row) /\ (a # "pipeline" => w.row.by = a)
  /\ w.op = "item" => IsItem(w.row) /\ w.row.status # "pending" /\ w.row.by = a
  /\ w.op = "add" => IsItem(w.row) /\ w.row = NewItem(w.row.id, w.row.raw, w.row.best)
OpsOk(a, ws) == \A p \in 1 .. Len(ws) : MayWrite(a, ws[p])

\* What is held for a write is a file of the kind.
FileOk(w, file) ==
  /\ w.op = "store" => AreStores(file)
  /\ w.op = "alias" => IsSeq(file)
  /\ w.op = "club" => DOMAIN file = Sources
  /\ w.op \in {"item", "add"} => AreItems(file)

ShapeOf(a) ==
  /\ IsSeq(todo[a]) /\ OpsOk(a, todo[a])
  /\ held[a] # {} => todo[a] # <<>> /\ ~Direct(Head(todo[a]))
  /\ \A file \in held[a] : FileOk(Head(todo[a]), file)

Shape ==
  /\ AreStores(stores) /\ IsSeq(aliases) /\ AreItems(queue) /\ DOMAIN clubs = Sources
  /\ \A i \in hand : IsItem(i)
  /\ todo = [a \in Actors |-> todo[a]] /\ held = [a \in Actors |-> held[a]]
  /\ begun \in [Actors -> Nat]
  /\ \A a \in Actors : ShapeOf(a)

\* Until two commands have met, one has writes to make, and holds its file as it is.
Current ==
  /\ "syncs" \notin met => todo["hot"] = <<>> \/ todo["swish"] = <<>>
  /\ Alone => \A a, b \in Actors : a # b => todo[a] = <<>> \/ todo[b] = <<>>
  /\ Alone => \A a \in Actors : \A file \in held[a] : file = FileOf(Head(todo[a]))

\* What is held for a write of some kind, and the rows that are yet to be written.
HeldFor(ops) ==
  UNION {held[a] : a \in {b \in Actors : todo[b] # <<>> /\ Head(todo[b]).op \in ops}}
RowsIn(ws, ops) == {ws[p].row : p \in {n \in 1 .. Len(ws) : ws[n].op \in ops}}
Planned(ops) == UNION {RowsIn(todo[a], ops) : a \in Actors}

\* All the stores and items there are, in the files and in the hands of the actors.
AllNames ==
  NamesOf(stores) \cup (UNION {NamesOf(file) : file \in HeldFor({"store"})}) \cup {Triple(s) : s \in Planned({"store"})}
AllItems ==
  Range(queue) \cup hand \cup (UNION {Range(file) : file \in HeldFor({"item", "add"})}) \cup Planned({"item", "add"})

\* An id is of a command that has begun.
Past(id, turns) == id \in NewIds => id[2] < turns[id[1]]

\* An id has one name and one maker, and what the bulk resolution closed agrees with it.
Named(names, items, turns) ==
  /\ \A m, n \in names : m[1] = n[1] => m = n
  /\ \A n \in names : Past(n[1], turns)
  /\ \A i \in items : i.by = "bulk" =>
       /\ Past(i.store, turns)
       /\ \A n \in names : n[1] = i.store => Online(Whole(Records[i.raw].name)) = Online(Whole(n[2]))

\* An item closed onto a store follows the store, its alias and, of the operator's, its
\* deal: N, T and D are what there is of them.
Settled(item, N, T, D) ==
  /\ item.by = "bulk" => item.status \in Closed
  /\ item.status \in Closed =>
       /\ \E n \in N : n[1] = item.store /\ (item.by = "bulk" => Online(Whole(Records[item.raw].name)) = Online(Whole(n[2])))
       /\ [store |-> item.store, form |-> Whole(Records[item.raw].name)] \in T
       /\ item.by = "operator" /\ ~IsMember(item.raw) => <<item.raw, item.store>> \in D

\* A write finds what it relies on, in the files or in the writes before it.
Right(w, N, T, D) ==
  /\ w.op = "alias" => \E n \in N : n[1] = w.row.store
  /\ w.op = "item" => Settled(w.row, N, T, D)

NamesIn(ws, p) == {Triple(ws[i].row) : i \in {j \in 1 .. p : ws[j].op = "store"}}
TaughtIn(ws, p) == {ws[i].row : i \in {j \in 1 .. p : ws[j].op = "alias"}}
DealsIn(ws, p) == {ws[i].row : i \in {j \in 1 .. p : ws[j].op = "deal"}}

Backed(ws, N, T, D) ==
  \A p \in 1 .. Len(ws) :
    Right(ws[p], N \cup NamesIn(ws, p - 1), T \cup TaughtIn(ws, p - 1), D \cup DealsIn(ws, p - 1))

\* The items as they were read, in the files and in the hands of the actors.
ItemsRead == Range(queue) \cup hand \cup UNION {Range(file) : file \in HeldFor({"item", "add"})}

Relied ==
  Kept =>
    /\ \A t \in Range(aliases) : \E n \in NamesOf(stores) : n[1] = t.store
    /\ \A i \in AllItems : i.best = None \/ \E n \in NamesOf(stores) : n[1] = i.best
    /\ \A i \in ItemsRead : Settled(i, NamesOf(stores), Range(aliases), deals)
    /\ \A a \in Actors : Backed(todo[a], NamesOf(stores), Range(aliases), deals)

\* A store that has a name beside those of that name the bulk resolution made.
Other(f, N, T) ==
  \E n \in N :
    /\ Whole(n[2]) = f \/ \E t \in T : t.store = n[1] /\ t.form = f
    /\ Whole(n[2]) # f \/ n[3] # "bulk"

MadeOk(N, T) ==
  \A m, n \in N : m # n /\ m[3] = "bulk" /\ n[3] = "bulk" /\ Whole(m[2]) = Whole(n[2]) => Other(Whole(n[2]), N, T)

NewStores(ws) == {p \in 1 .. Len(ws) : ws[p].op = "store"}

FreshNames(ws, N, T) ==
  /\ \A p \in NewStores(ws), n \in N :
       n[3] = "bulk" /\ Whole(ws[p].row.name) = Whole(n[2]) => Other(Whole(n[2]), N, T)
  /\ \A p, r \in NewStores(ws) : Whole(ws[p].row.name) = Whole(ws[r].row.name) => p = r

Made ==
  Kept =>
    /\ MadeOk(NamesOf(stores), Range(aliases))
    /\ FreshNames(todo["bulk"], NamesOf(stores), Range(aliases))
    /\ \A p \in NewStores(todo["pipeline"]) : Triple(todo["pipeline"][p].row) \in NamesOf(stores)

\* The members that wait, and those a sync will add to them.
Waits(item) == IsMember(item.raw) /\ item.status = "pending"
Added(ws) == {p \in 1 .. Len(ws) : ws[p].op = "add" /\ IsMember(ws[p].row.raw)}
WaitOk(q) ==
  \A j, k \in 1 .. Len(q) :
    Waits(q[j]) /\ Waits(q[k]) /\ Records[q[j].raw].text = Records[q[k].raw].text => j = k
FreshAdds(ws, q) ==
  /\ \A p \in Added(ws), k \in 1 .. Len(q) :
       Waits(q[k]) => Records[ws[p].row.raw].text # Records[q[k].raw].text
  /\ \A p, r \in Added(ws) : Records[ws[p].row.raw].text = Records[ws[r].row.raw].text => p = r

Waiting == Alone => WaitOk(queue) /\ \A a \in Actors : FreshAdds(todo[a], queue)

\* The entries made by hand, as they were to begin with but for the stores of members.
ByHand(gs) == {g \in DOMAIN gs : ~gs[g].managed}
HandAs(gs) ==
  /\ AreGroups(gs) /\ ByHand(gs) = ByHand(Groups)
  /\ \A g \in ByHand(Groups) :
       /\ Len(gs[g].members) = Len(Groups[g].members)
       /\ \A n \in 1 .. Len(Groups[g].members) : gs[g].members[n].raw = Groups[g].members[n].raw
KeepsStores(gs, new) ==
  \A g \in ByHand(gs) : \A n \in 1 .. Len(gs[g].members) :
    gs[g].members[n].store # None => new[g].members[n].store = gs[g].members[n].store
FreshGroups(ws, gs) ==
  \A p \in 1 .. Len(ws) : ws[p].op = "groups" =>
    p = Len(ws) /\ HandAs(ws[p].row) /\ ("syncs" \notin met => KeepsStores(gs, ws[p].row))

Entered == HandAs(groups) /\ \A a \in Actors : FreshGroups(todo[a], groups)

IInv == Shape /\ Current /\ Named(AllNames, AllItems, begun) /\ Relied /\ Made /\ Waiting /\ Entered

\* What a command may begin with: writes that are right by the files as they are.
Good(a, ws) ==
  /\ IsSeq(ws) /\ OpsOk(a, ws)
  /\ \A p \in NewStores(ws) :
       \/ Triple(ws[p].row) \in NamesOf(stores)
       \/ a # "pipeline" /\ \E m \in Nat : ws[p].row.id = NewId(a, begun[a], m)
  /\ \A p, r \in NewStores(ws) : ws[p].row.id = ws[r].row.id => p = r
  /\ Kept \/ a = "bulk" => Backed(ws, NamesOf(stores), Range(aliases), deals)
  /\ Kept => \A i \in RowsIn(ws, {"item", "add"}) : i.best = None \/ \E n \in NamesOf(stores) : n[1] = i.best
  /\ Kept /\ a = "bulk" => FreshNames(ws, NamesOf(stores), Range(aliases))
  /\ a = "pipeline" => \A p \in NewStores(ws) : Triple(ws[p].row) \in NamesOf(stores)
  /\ FreshAdds(ws, queue) /\ FreshGroups(ws, groups)
-----------------------------------------------------------------------------
(* What the parts keep when the files grow and the writes are made.        *)

\* A settled item stays settled when stores, aliases and deals are added.
LEMMA SettledGrows ==
  ASSUME NEW item, NEW N, NEW T, NEW D, Settled(item, N, T, D),
         NEW N2, NEW T2, NEW D2, N \subseteq N2, T \subseteq T2, D \subseteq D2
  PROVE  Settled(item, N2, T2, D2)
  BY DEF Settled


\* A write that is right stays so when the files grow.
LEMMA RightGrows ==
  ASSUME NEW w, NEW N, NEW T, NEW D, Right(w, N, T, D),
         NEW N2, NEW T2, NEW D2, N \subseteq N2, T \subseteq T2, D \subseteq D2
  PROVE  Right(w, N2, T2, D2)
<1>1. w.op = "item" => Settled(w.row, N2, T2, D2)
  BY SettledGrows DEF Right
<1> QED
  BY <1>1 DEF Right

\* So do all the writes of an actor: nothing that another actor writes makes them wrong.
LEMMA BackedGrows ==
  ASSUME NEW ws, NEW N, NEW T, NEW D, Backed(ws, N, T, D),
         NEW N2, NEW T2, NEW D2, N \subseteq N2, T \subseteq T2, D \subseteq D2
  PROVE  Backed(ws, N2, T2, D2)
<1> SUFFICES ASSUME NEW p \in 1 .. Len(ws)
             PROVE  Right(ws[p], N2 \cup NamesIn(ws, p - 1), T2 \cup TaughtIn(ws, p - 1), D2 \cup DealsIn(ws, p - 1))
  BY DEF Backed
<1>1. Right(ws[p], N \cup NamesIn(ws, p - 1), T \cup TaughtIn(ws, p - 1), D \cup DealsIn(ws, p - 1))
  BY DEF Backed
<1>2. /\ N \cup NamesIn(ws, p - 1) \subseteq N2 \cup NamesIn(ws, p - 1)
      /\ T \cup TaughtIn(ws, p - 1) \subseteq T2 \cup TaughtIn(ws, p - 1)
      /\ D \cup DealsIn(ws, p - 1) \subseteq D2 \cup DealsIn(ws, p - 1)
  OBVIOUS
<1> QED
  BY <1>1, <1>2, RightGrows

\* The first write made, the others find what it gave in the files.
LEMMA BackedTail ==
  ASSUME NEW ws, IsSeq(ws), ws # <<>>, NEW N, NEW T, NEW D, Backed(ws, N, T, D),
         NEW N2, NEW T2, NEW D2,
         N \cup NamesIn(ws, 1) \subseteq N2, T \cup TaughtIn(ws, 1) \subseteq T2, D \cup DealsIn(ws, 1) \subseteq D2
  PROVE  Backed(Tail(ws), N2, T2, D2)
<1> DEFINE t == Tail(ws)
<1>1. Len(ws) \in Nat \ {0} /\ Len(t) = Len(ws) - 1 /\ \A i \in 1 .. Len(ws) - 1 : t[i] = ws[i + 1]
  BY SeqTail
<1> HIDE DEF t
<1> SUFFICES ASSUME NEW p \in 1 .. Len(t)
             PROVE  Right(t[p], N2 \cup NamesIn(t, p - 1), T2 \cup TaughtIn(t, p - 1), D2 \cup DealsIn(t, p - 1))
  BY DEF Backed, t
<1>2. p + 1 \in 1 .. Len(ws) /\ (p + 1) - 1 = p /\ t[p] = ws[p + 1]
  BY <1>1
<1>3. Right(ws[p + 1], N \cup NamesIn(ws, p), T \cup TaughtIn(ws, p), D \cup DealsIn(ws, p))
  BY <1>2 DEF Backed
\* A place among the first is the first of all or one of the rest.
<1>4. \A i \in 1 .. p : i = 1 \/ (i - 1 \in 1 .. p - 1 /\ ws[i] = t[i - 1])
  <2> SUFFICES ASSUME NEW i \in 1 .. p, i # 1 PROVE i - 1 \in 1 .. p - 1 /\ ws[i] = t[i - 1]
    OBVIOUS
  <2>1. i - 1 \in 1 .. p - 1 /\ i - 1 \in 1 .. Len(ws) - 1 /\ (i - 1) + 1 = i
    BY <1>1
  <2> QED  BY <1>1, <2>1
<1>5. 1 \in 1 .. 1
  OBVIOUS
<1>6. NamesIn(ws, p) \subseteq NamesIn(ws, 1) \cup NamesIn(t, p - 1)
  BY <1>4, <1>5 DEF NamesIn
<1>7. TaughtIn(ws, p) \subseteq TaughtIn(ws, 1) \cup TaughtIn(t, p - 1)
  BY <1>4, <1>5 DEF TaughtIn
<1>8. DealsIn(ws, p) \subseteq DealsIn(ws, 1) \cup DealsIn(t, p - 1)
  BY <1>4, <1>5 DEF DealsIn
<1>9. /\ N \cup NamesIn(ws, p) \subseteq N2 \cup NamesIn(t, p - 1)
      /\ T \cup TaughtIn(ws, p) \subseteq T2 \cup TaughtIn(t, p - 1)
      /\ D \cup DealsIn(ws, p) \subseteq D2 \cup DealsIn(t, p - 1)
  BY <1>6, <1>7, <1>8
<1> QED
  BY <1>2, <1>3, <1>9, RightGrows

\* Writes after writes: both backed by the files, and so are they together.
LEMMA BackedConcat ==
  ASSUME NEW N, NEW T, NEW D,
         NEW s, IsSeq(s), Backed(s, N, T, D), NEW t, IsSeq(t), Backed(t, N, T, D)
  PROVE  Backed(s \o t, N, T, D)
<1> DEFINE u == s \o t
<1>1. Len(s) \in Nat /\ Len(t) \in Nat /\ IsSeq(u) /\ Len(u) = Len(s) + Len(t)
  BY SeqConcat, SeqFacts
<1>2. /\ \A i \in 1 .. Len(s) : u[i] = s[i]
      /\ \A i \in 1 .. Len(t) : u[Len(s) + i] = t[i]
  BY SeqConcat
<1> SUFFICES ASSUME NEW p \in 1 .. Len(u)
             PROVE  Right(u[p], N \cup NamesIn(u, p - 1), T \cup TaughtIn(u, p - 1), D \cup DealsIn(u, p - 1))
  BY DEF Backed
<1>3. \/ p \in 1 .. Len(s) /\ u[p] = s[p]
      \/ \E i \in 1 .. Len(t) : p = Len(s) + i /\ u[p] = t[i]
  BY PlacesOfConcat, Z3
<1> HIDE DEF u
<1>4. CASE p \in 1 .. Len(s) /\ u[p] = s[p]
  <2>1. \A i \in 1 .. p - 1 : u[i] = s[i]
    BY <1>1, <1>2, <1>4
  <2>2. /\ NamesIn(s, p - 1) \subseteq NamesIn(u, p - 1)
        /\ TaughtIn(s, p - 1) \subseteq TaughtIn(u, p - 1)
        /\ DealsIn(s, p - 1) \subseteq DealsIn(u, p - 1)
    BY <2>1 DEF NamesIn, TaughtIn, DealsIn
  <2>3. Right(s[p], N \cup NamesIn(s, p - 1), T \cup TaughtIn(s, p - 1), D \cup DealsIn(s, p - 1))
    BY <1>4 DEF Backed
  <2>4. /\ N \cup NamesIn(s, p - 1) \subseteq N \cup NamesIn(u, p - 1)
        /\ T \cup TaughtIn(s, p - 1) \subseteq T \cup TaughtIn(u, p - 1)
        /\ D \cup DealsIn(s, p - 1) \subseteq D \cup DealsIn(u, p - 1)
    BY <2>2
  <2> QED
    BY <1>4, <2>3, <2>4, RightGrows
<1>5. CASE \E i \in 1 .. Len(t) : p = Len(s) + i /\ u[p] = t[i]
  <2>1. PICK i \in 1 .. Len(t) : p = Len(s) + i /\ u[p] = t[i]
    BY <1>5
  <2>2. \A j \in 1 .. i - 1 : Len(s) + j \in 1 .. p - 1 /\ u[Len(s) + j] = t[j]
    <3> SUFFICES ASSUME NEW j \in 1 .. i - 1 PROVE Len(s) + j \in 1 .. p - 1 /\ u[Len(s) + j] = t[j]
      OBVIOUS
    <3>1. j \in 1 .. Len(t) /\ Len(s) + j \in 1 .. p - 1
      BY <1>1, <2>1
    <3> QED  BY <1>2, <3>1
  <2>3. /\ NamesIn(t, i - 1) \subseteq NamesIn(u, p - 1)
        /\ TaughtIn(t, i - 1) \subseteq TaughtIn(u, p - 1)
        /\ DealsIn(t, i - 1) \subseteq DealsIn(u, p - 1)
    BY <2>2 DEF NamesIn, TaughtIn, DealsIn
  <2>4. Right(t[i], N \cup NamesIn(t, i - 1), T \cup TaughtIn(t, i - 1), D \cup DealsIn(t, i - 1))
    BY <2>1 DEF Backed
  <2>5. /\ N \cup NamesIn(t, i - 1) \subseteq N \cup NamesIn(u, p - 1)
        /\ T \cup TaughtIn(t, i - 1) \subseteq T \cup TaughtIn(u, p - 1)
        /\ D \cup DealsIn(t, i - 1) \subseteq D \cup DealsIn(u, p - 1)
    BY <2>3
  <2> QED
    BY <2>1, <2>4, <2>5, RightGrows
<1> QED
  BY <1>3, <1>4, <1>5

\* What remains of some writes after the first.
LEMMA Rest ==
  ASSUME NEW ws, IsSeq(ws), ws # <<>>
  PROVE  /\ 1 \in 1 .. Len(ws)
         /\ \A p \in 1 .. Len(Tail(ws)) :
              p + 1 \in 1 .. Len(ws) /\ p + 1 # 1 /\ Tail(ws)[p] = ws[p + 1] /\ (p + 1 = Len(ws) => p = Len(Tail(ws)))
         /\ \A p, r \in 1 .. Len(Tail(ws)) : p + 1 = r + 1 => p = r
<1> DEFINE t == Tail(ws)
<1>1. Len(ws) \in Nat \ {0} /\ Len(t) = Len(ws) - 1 /\ \A i \in 1 .. Len(ws) - 1 : t[i] = ws[i + 1]
  BY SeqTail
<1> HIDE DEF t
<1>2. ASSUME NEW p \in 1 .. Len(t)
      PROVE  p + 1 \in 1 .. Len(ws) /\ p + 1 # 1 /\ t[p] = ws[p + 1] /\ (p + 1 = Len(ws) => p = Len(t))
  BY <1>1
<1>3. 1 \in 1 .. Len(ws) /\ Len(t) \in Nat
  BY <1>1
<1>4. \A p, r \in 1 .. Len(t) : p + 1 = r + 1 => p = r
  BY <1>3
<1> QED
  BY <1>2, <1>3, <1>4 DEF t

\* The writes that remain keep their ids from those already given.

-----------------------------------------------------------------------------
(* One write into a file.                                                  *)

Has(rows, id) == \E k \in 1 .. Len(rows) : rows[k].id = id

\* Some rows with one in the place of those with its id, or in the place after all.
PutIn(new, rows, row) ==
  /\ IsSeq(new)
  /\ Has(rows, row.id) =>
       /\ Len(new) = Len(rows)
       /\ \A k \in 1 .. Len(rows) : new[k] = IF rows[k].id = row.id THEN row ELSE rows[k]
  /\ ~Has(rows, row.id) =>
       /\ Len(new) = Len(rows) + 1 /\ new[Len(rows) + 1] = row
       /\ \A k \in 1 .. Len(rows) : new[k] = rows[k] /\ rows[k].id # row.id

\* save: the row takes the place of those with its id, or the place after all.
LEMMA PutRows ==
  ASSUME NEW rows, IsSeq(rows), NEW row
  PROVE  PutIn(Put(rows, row), rows, row)
<1>1. DOMAIN rows = 1 .. Len(rows) /\ Len(rows) \in Nat
  BY SeqFacts
<1>2. CASE Has(rows, row.id)
  <2> DEFINE new == [k \in DOMAIN rows |-> IF rows[k].id = row.id THEN row ELSE rows[k]]
  <2>1. Put(rows, row) = new
    BY <1>1, <1>2 DEF Put, Has
  <2>2. new = [k \in 1 .. Len(rows) |-> new[k]]
    BY <1>1
  <2>3. \A k \in 1 .. Len(rows) : new[k] = IF rows[k].id = row.id THEN row ELSE rows[k]
    BY <1>1
  <2> HIDE DEF new
  <2>4. IsSeq(new) /\ Len(new) = Len(rows)
    BY <1>1, <2>2, SeqFrom
  <2> QED  BY <1>1, <1>2, <2>1, <2>3, <2>4 DEF PutIn
<1>3. CASE ~Has(rows, row.id)
  <2>1. Put(rows, row) = Append(rows, row)
    BY <1>1, <1>3 DEF Put, Has
  <2>2. PICK new : new = Append(rows, row)
    OBVIOUS
  <2>3. /\ IsSeq(new) /\ Len(new) = Len(rows) + 1 /\ new[Len(rows) + 1] = row
        /\ \A k \in 1 .. Len(rows) : new[k] = rows[k]
    BY <2>2, SeqAppend
  <2> QED  BY <1>1, <1>3, <2>1, <2>2, <2>3 DEF Has, PutIn
<1> QED  BY <1>2, <1>3

\* A store written: the file stays a file of stores, each id once, and has the store, in
\* the place of the one of that id if it was there.
LEMMA StoreWritten ==
  ASSUME NEW ss, AreStores(ss), NEW row, IsStore(row)
  PROVE  /\ AreStores(Put(ss, row))
         /\ NamesOf(Put(ss, row)) \subseteq NamesOf(ss) \cup {Triple(row)}
         /\ (\A n \in NamesOf(ss) : n[1] = row.id => n = Triple(row)) =>
              NamesOf(Put(ss, row)) = NamesOf(ss) \cup {Triple(row)}
<1> DEFINE new == Put(ss, row)
<1>1. IsSeq(ss) /\ DOMAIN ss = 1 .. Len(ss) /\ Len(ss) \in Nat
  BY SeqFacts DEF AreStores
<1>2. PutIn(new, ss, row) /\ IsSeq(new)
  <2>1. PutIn(new, ss, row)
    BY <1>1, PutRows
  <2> QED  BY <2>1 DEF PutIn
<1> HIDE DEF new
<1>3. DOMAIN new = 1 .. Len(new)
  BY <1>2, SeqFacts
<1>4. CASE Has(ss, row.id)
  <2>0. Len(new) = Len(ss) /\ \A k \in 1 .. Len(ss) : new[k] = IF ss[k].id = row.id THEN row ELSE ss[k]
    BY <1>2, <1>4 DEF PutIn
  <2>1. PICK j \in 1 .. Len(ss) : ss[j].id = row.id
    BY <1>4 DEF Has
  <2>2. new[j] = row /\ j \in 1 .. Len(new)
    BY <1>2, <2>0, <2>1
  <2>3. \A k \in 1 .. Len(new) : IsStore(new[k]) /\ new[k].id = ss[k].id
    BY <1>2, <2>0 DEF AreStores
  <2>4. AreStores(new)
    BY <1>2, <2>0, <2>3 DEF AreStores
  <2>5. NamesOf(new) \subseteq NamesOf(ss) \cup {Triple(row)}
    BY <1>1, <2>0, <1>3 DEF NamesOf
  <2>6. ASSUME \A n \in NamesOf(ss) : n[1] = row.id => n = Triple(row) PROVE NamesOf(ss) \cup {Triple(row)} \subseteq NamesOf(new)
    <3>1. Triple(row) \in NamesOf(new)
      BY <1>3, <2>2 DEF NamesOf
    <3>2. ASSUME NEW k \in 1 .. Len(ss) PROVE Triple(ss[k]) \in NamesOf(new)
      <4>1. CASE ss[k].id = row.id
        <5>1. Triple(ss[k]) \in NamesOf(ss) /\ Triple(ss[k])[1] = row.id
          BY <1>1, <4>1 DEF NamesOf, Triple
        <5>2. Triple(ss[k]) = Triple(row)
          BY <2>6, <5>1
        <5> QED  BY <3>1, <5>2
      <4>2. CASE ss[k].id # row.id
        BY <2>0, <1>3, <4>2 DEF NamesOf
      <4> QED  BY <4>1, <4>2
    <3> QED  BY <1>1, <3>1, <3>2 DEF NamesOf
  <2> QED  BY <2>4, <2>5, <2>6 DEF new
<1>5. CASE ~Has(ss, row.id)
  <2>0. /\ Len(new) = Len(ss) + 1 /\ new[Len(ss) + 1] = row
        /\ \A k \in 1 .. Len(ss) : new[k] = ss[k] /\ ss[k].id # row.id
    BY <1>2, <1>5 DEF PutIn
  <2>1. \A k \in 1 .. Len(new) : k \in 1 .. Len(ss) \/ k = Len(ss) + 1
    BY <1>1, <2>0
  <2>2. \A k \in 1 .. Len(ss) : k \in 1 .. Len(new)
    BY <1>1, <2>0
  <2>3. Len(ss) + 1 \in 1 .. Len(new)
    BY <1>1, <2>0
  <2>4. \A k \in 1 .. Len(new) : IsStore(new[k])
    BY <2>0, <2>1 DEF AreStores
  <2>5. \A j, k \in 1 .. Len(new) : new[j].id = new[k].id => j = k
    BY <2>0, <2>1 DEF AreStores
  <2>6. AreStores(new)
    BY <1>2, <2>4, <2>5 DEF AreStores
  <2>7. NamesOf(new) \subseteq NamesOf(ss) \cup {Triple(row)}
    BY <1>1, <1>3, <2>0, <2>1 DEF NamesOf
  <2>8. NamesOf(ss) \cup {Triple(row)} \subseteq NamesOf(new)
    BY <1>1, <1>3, <2>0, <2>2, <2>3 DEF NamesOf
  <2> QED  BY <2>6, <2>7, <2>8 DEF new
<1> QED
  BY <1>4, <1>5

\* An item written into a queue: it is there with those that were.
LEMMA ItemPut ==
  ASSUME NEW q, AreItems(q), NEW row, IsItem(row)
  PROVE  /\ AreItems(Put(q, row)) /\ Range(Put(q, row)) \subseteq Range(q) \cup {row}
         /\ AreItems(Append(q, row)) /\ Range(Append(q, row)) \subseteq Range(q) \cup {row}
<1> DEFINE new == Put(q, row)
           more == Append(q, row)
<1>1. IsSeq(q) /\ DOMAIN q = 1 .. Len(q) /\ Len(q) \in Nat
  BY SeqFacts DEF AreItems
<1>2. PutIn(new, q, row) /\ IsSeq(new)
  <2>1. PutIn(new, q, row)
    BY <1>1, PutRows
  <2> QED  BY <2>1 DEF PutIn
<1>3. IsSeq(more) /\ Len(more) = Len(q) + 1 /\ more[Len(q) + 1] = row /\ \A k \in 1 .. Len(q) : more[k] = q[k]
  BY <1>1, SeqAppend
<1> HIDE DEF new, more
<1>4. DOMAIN new = 1 .. Len(new) /\ DOMAIN more = 1 .. Len(more)
  BY <1>2, <1>3, SeqFacts
<1>5. \A k \in 1 .. Len(more) : k \in 1 .. Len(q) \/ k = Len(q) + 1
  BY <1>1, <1>3
<1>6. \A k \in 1 .. Len(more) : more[k] = row \/ \E j \in 1 .. Len(q) : more[k] = q[j]
  BY <1>3, <1>5
<1>7. \A k \in 1 .. Len(new) : new[k] = row \/ \E j \in 1 .. Len(q) : new[k] = q[j]
  <2>1. CASE Has(q, row.id)
    BY <1>2, <2>1 DEF PutIn
  <2>2. CASE ~Has(q, row.id)
    <3>1. /\ Len(new) = Len(q) + 1 /\ new[Len(q) + 1] = row
          /\ \A k \in 1 .. Len(q) : new[k] = q[k]
      BY <1>2, <2>2 DEF PutIn
    <3>2. \A k \in 1 .. Len(new) : k \in 1 .. Len(q) \/ k = Len(q) + 1
      BY <1>1, <3>1
    <3> QED  BY <3>1, <3>2
  <2> QED  BY <2>1, <2>2
<1>8. AreItems(new) /\ AreItems(more)
  BY <1>2, <1>3, <1>6, <1>7 DEF AreItems
<1>9. Range(new) \subseteq Range(q) \cup {row} /\ Range(more) \subseteq Range(q) \cup {row}
  BY <1>1, <1>4, <1>6, <1>7 DEF Range
<1> QED
  BY <1>8, <1>9 DEF new, more

\* A row appended to a file is in it with those that were.
LEMMA RowAppended ==
  ASSUME NEW s, IsSeq(s), NEW x
  PROVE  IsSeq(Append(s, x)) /\ Range(Append(s, x)) = Range(s) \cup {x}
<1> DEFINE more == Append(s, x)
<1>1. IsSeq(s) /\ DOMAIN s = 1 .. Len(s) /\ Len(s) \in Nat
  BY SeqFacts
<1>2. IsSeq(more) /\ Len(more) = Len(s) + 1 /\ more[Len(s) + 1] = x /\ \A k \in 1 .. Len(s) : more[k] = s[k]
  BY <1>1, SeqAppend
<1> HIDE DEF more
<1>3. DOMAIN more = 1 .. Len(more)
  BY <1>2, SeqFacts
<1>4. \A k \in 1 .. Len(more) : k \in 1 .. Len(s) \/ k = Len(s) + 1
  BY <1>1, <1>2
<1>5. Len(s) + 1 \in 1 .. Len(more) /\ \A k \in 1 .. Len(s) : k \in 1 .. Len(more)
  BY <1>1, <1>2
<1> QED
  BY <1>1, <1>2, <1>3, <1>4, <1>5 DEF Range, more

-----------------------------------------------------------------------------
(* The steps, and the shape of things.                                     *)

\* A command begins, and its first write has no file yet.
Started(a, ws) ==
  /\ todo[a] = <<>> /\ held[a] = {} /\ UNCHANGED <<storage, held>> /\ UNCHANGED fileVars
  /\ todo'[a] = ws /\ begun'[a] = begun[a] + 1 /\ begun' \in [Actors -> Nat]
  /\ \A b \in Actors : b # a => todo'[b] = todo[b] /\ begun'[b] = begun[b]
  /\ todo' = [b \in Actors |-> todo'[b]]
  /\ met \subseteq met'
  /\ \A b \in Actors : todo[b] # <<>> => (IF {a, b} = Syncs THEN "syncs" ELSE "others") \in met'

\* What Begin does, actor by actor.
LEMMA BeginFacts ==
  ASSUME Shape, NEW a \in Actors, NEW ws, Begin(a, ws)
  PROVE  Started(a, ws)
<1>1. todo[a] = <<>> /\ held[a] = {}
  BY DEF Begin, Shape, ShapeOf
<1>2. UNCHANGED <<storage, held>> /\ UNCHANGED fileVars
  BY DEF Begin
<1>3. todo' = [todo EXCEPT ![a] = ws] /\ begun' = [begun EXCEPT ![a] = @ + 1]
  BY DEF Begin
<1>4. todo = [b \in Actors |-> todo[b]] /\ begun \in [Actors -> Nat]
  BY DEF Shape
<1>5. /\ todo'[a] = ws /\ todo' = [b \in Actors |-> todo'[b]]
      /\ \A b \in Actors : b # a => todo'[b] = todo[b]
  BY <1>3, <1>4
<1>6. /\ begun'[a] = begun[a] + 1 /\ begun' \in [Actors -> Nat]
      /\ \A b \in Actors : b # a => begun'[b] = begun[b]
  BY <1>3, <1>4
<1>7. met' = met \cup {IF {a, b} = Syncs THEN "syncs" ELSE "others" : b \in {c \in Actors : todo[c] # <<>>}}
  BY DEF Begin
<1>8. met \subseteq met' /\ \A b \in Actors : todo[b] # <<>> => (IF {a, b} = Syncs THEN "syncs" ELSE "others") \in met'
  BY <1>7
<1> QED
  BY <1>1, <1>2, <1>5, <1>6, <1>8 DEF Started

\* What an actor still has to write is as it was, or nothing, or the rest; the file it
\* holds it has just read, or held already.
Rests(a) ==
  /\ UNCHANGED <<storage, arrived, hand, begun, met>>
  /\ todo' = [b \in Actors |-> todo'[b]] /\ held' = [b \in Actors |-> held'[b]]
  /\ \A b \in Actors : b # a => todo'[b] = todo[b] /\ held'[b] = held[b]

\* A file is read for a write that needs one.
ReadBy(a) ==
  /\ todo[a] # <<>> /\ ~Direct(Head(todo[a])) /\ todo'[a] = todo[a] /\ held[a] = {}
  /\ held'[a] = {FileOf(Head(todo[a]))} /\ UNCHANGED fileVars

\* The first write is made in a file of its kind: as it is, or as it was read.
WrittenBy(a, w, file) ==
  /\ todo[a] # <<>> /\ w = todo[a][1] /\ Head(todo[a]) = w /\ MayWrite(a, w)
  /\ todo'[a] = Tail(todo[a]) /\ held'[a] = {}
  /\ FileOk(w, file) /\ Apply(w, file)
  /\ file = FileOf(w) \/ (~Direct(w) /\ file \in held[a])

\* A process dies.
DeadBy(a) == todo'[a] = <<>> /\ held'[a] = {} /\ UNCHANGED fileVars

\* The file of a write is of its kind.
LEMMA FileOfOk ==
  ASSUME Shape, NEW w
  PROVE  FileOk(w, FileOf(w))
<1>1. AreStores(stores) /\ IsSeq(aliases) /\ AreItems(queue) /\ DOMAIN clubs = Sources
  BY DEF Shape
<1>2. CASE w.op = "store"
  <2>1. FileOf(w) = stores
    BY <1>2 DEF FileOf
  <2> QED  BY <1>1, <1>2, <2>1 DEF FileOk
<1>3. CASE w.op = "alias"
  <2>1. FileOf(w) = aliases
    BY <1>3 DEF FileOf
  <2> QED  BY <1>1, <1>3, <2>1 DEF FileOk
<1>4. CASE w.op = "club"
  <2>1. FileOf(w) = clubs
    BY <1>4 DEF FileOf
  <2> QED  BY <1>1, <1>4, <2>1 DEF FileOk
<1>5. CASE w.op \in {"item", "add"}
  <2>1. FileOf(w) = queue
    BY <1>5 DEF FileOf
  <2> QED  BY <1>1, <1>5, <2>1 DEF FileOk
<1> QED
  BY <1>2, <1>3, <1>4, <1>5 DEF FileOk

\* What an actor does with its writes.
LEMMA ActorFacts ==
  ASSUME Shape, NEW a \in Actors
  PROVE  /\ Read(a) => Rests(a) /\ ReadBy(a)
         /\ Write(a) => Rests(a) /\ \E w, file : WrittenBy(a, w, file)
         /\ Crash(a) => Rests(a) /\ DeadBy(a)
<1>1. /\ todo = [b \in Actors |-> todo[b]] /\ held = [b \in Actors |-> held[b]]
      /\ IsSeq(todo[a]) /\ OpsOk(a, todo[a])
      /\ \A file \in held[a] : FileOk(Head(todo[a]), file)
      /\ held[a] # {} => ~Direct(Head(todo[a]))
  BY DEF Shape, ShapeOf
<1>2. ASSUME Read(a) PROVE Rests(a) /\ ReadBy(a)
  <2>1. /\ UNCHANGED <<storage, arrived, hand, todo, begun, met, crashes>> /\ UNCHANGED fileVars
        /\ held' = [held EXCEPT ![a] = {FileOf(Head(todo[a]))}] /\ held[a] = {}
        /\ todo[a] # <<>> /\ ~Direct(Head(todo[a]))
    BY <1>2 DEF Read
  <2>2. /\ held'[a] = {FileOf(Head(todo[a]))} /\ held' = [b \in Actors |-> held'[b]]
        /\ \A b \in Actors : b # a => held'[b] = held[b]
    <3>1. PICK x : x = {FileOf(Head(todo[a]))}
      OBVIOUS
    <3> QED  BY <1>1, <2>1, <3>1
  <2> QED  BY <1>1, <2>1, <2>2 DEF Rests, ReadBy
<1>3. ASSUME Write(a) PROVE Rests(a) /\ \E w, file : WrittenBy(a, w, file)
  <2>1. /\ UNCHANGED <<storage, arrived, hand, begun, met, crashes>> /\ todo[a] # <<>>
        /\ todo' = [todo EXCEPT ![a] = Tail(@)] /\ held' = [held EXCEPT ![a] = {}]
    BY <1>3 DEF Write
  <2>2. /\ todo'[a] = Tail(todo[a]) /\ todo' = [b \in Actors |-> todo'[b]]
        /\ \A b \in Actors : b # a => todo'[b] = todo[b]
    BY <1>1, <2>1
  <2>3. held'[a] = {} /\ held' = [b \in Actors |-> held'[b]] /\ \A b \in Actors : b # a => held'[b] = held[b]
    BY <1>1, <2>1
  <2>4. PICK w : w = Head(todo[a])
    OBVIOUS
  <2>5. w = todo[a][1] /\ MayWrite(a, w)
    <3>1. Head(todo[a]) = todo[a][1] /\ 1 \in 1 .. Len(todo[a])
      BY <1>1, <2>1, SeqTail, Rest
    <3> QED  BY <1>1, <2>4, <3>1 DEF OpsOk
  <2>6. \E file \in IF Direct(w) THEN {FileOf(w)} ELSE held[a] : Apply(w, file)
    BY <1>3, <2>4 DEF Write
  <2>7. PICK file \in IF Direct(w) THEN {FileOf(w)} ELSE held[a] : Apply(w, file)
    BY <2>6
  <2>8. file = FileOf(w) \/ (~Direct(w) /\ file \in held[a])
    BY <2>7
  <2>9. FileOk(w, file)
    BY <1>1, <2>4, <2>8, FileOfOk
  <2>10. WrittenBy(a, w, file)
    BY <2>1, <2>2, <2>3, <2>4, <2>5, <2>7, <2>8, <2>9 DEF WrittenBy
  <2> QED  BY <2>1, <2>2, <2>3, <2>10 DEF Rests
<1>4. ASSUME Crash(a) PROVE Rests(a) /\ DeadBy(a)
  <2>1. /\ UNCHANGED <<storage, arrived, hand, begun, met>> /\ UNCHANGED fileVars
        /\ todo' = [todo EXCEPT ![a] = <<>>] /\ held' = [held EXCEPT ![a] = {}]
    BY <1>4 DEF Crash
  <2>2. /\ todo'[a] = <<>> /\ todo' = [b \in Actors |-> todo'[b]]
        /\ \A b \in Actors : b # a => todo'[b] = todo[b]
    BY <1>1, <2>1
  <2>3. held'[a] = {} /\ held' = [b \in Actors |-> held'[b]] /\ \A b \in Actors : b # a => held'[b] = held[b]
    BY <1>1, <2>1
  <2> QED  BY <2>1, <2>2, <2>3 DEF Rests, DeadBy
<1> QED
  BY <1>2, <1>3, <1>4

\* The shape of what a command begins with.
LEMMA ShapeBegins ==
  ASSUME Shape, NEW a \in Actors, NEW ws, Started(a, ws), hand' \subseteq hand, IsSeq(ws), OpsOk(a, ws)
  PROVE  Shape'
<1>1. /\ stores' = stores /\ aliases' = aliases /\ queue' = queue /\ clubs' = clubs
      /\ storage' = storage /\ held' = held
  BY DEF Started, fileVars
<1>2. /\ AreStores(stores) /\ IsSeq(aliases) /\ AreItems(queue) /\ DOMAIN clubs = Sources
      /\ held = [b \in Actors |-> held[b]]
  BY DEF Shape
<1>3. \A i \in hand' : IsItem(i)
  BY DEF Shape
<1>4. /\ todo' = [b \in Actors |-> todo'[b]] /\ begun' \in [Actors -> Nat]
  BY DEF Started
<1>5. ASSUME NEW b \in Actors
      PROVE  ShapeOf(b)'
  <2>1. CASE b = a
    BY <1>1, <2>1 DEF Started, ShapeOf
  <2>2. CASE b # a
    <3>1. todo'[b] = todo[b] /\ held'[b] = held[b]
      BY <1>1, <2>2 DEF Started
    <3>2. ShapeOf(b)
      BY DEF Shape
    <3> QED  BY <1>1, <3>1, <3>2 DEF ShapeOf, Direct
  <2> QED  BY <2>1, <2>2
<1> QED
  BY <1>1, <1>2, <1>3, <1>4, <1>5 DEF Shape

\* What becomes of every file by one write.
LEMMA FilesWritten ==
  ASSUME Shape, NEW a \in Actors, NEW w, NEW file, WrittenBy(a, w, file)
  PROVE  /\ w.op # "store" => stores' = stores
         /\ w.op = "store" => stores' = Put(file, w.row) /\ AreStores(file) /\ IsStore(w.row)
         /\ w.op # "alias" => aliases' = aliases
         /\ w.op = "alias" => aliases' = Append(file, w.row) /\ IsSeq(file)
         /\ w.op # "deal" => deals' = deals
         /\ w.op = "deal" => deals' = file \cup {w.row}
         /\ w.op \notin {"item", "add"} => queue' = queue
         /\ w.op \in {"item", "add"} => AreItems(file) /\ IsItem(w.row)
         /\ w.op = "item" => queue' = Put(file, w.row) \/ queue' = queue
         /\ w.op = "add" => queue' = Append(file, w.row)
         /\ w.op # "groups" => groups' = groups
         /\ w.op = "groups" => groups' = w.row
         /\ DOMAIN clubs' = Sources
<1>1. Apply(w, file) /\ FileOk(w, file) /\ MayWrite(a, w)
  BY DEF WrittenBy
<1>2. DOMAIN clubs = Sources
  BY DEF Shape
<1>3. DOMAIN clubs' = Sources
  <2>1. CASE w.op = "club"
    <3>1. clubs' = Joined(file, w) /\ DOMAIN file = Sources
      BY <1>1, <2>1 DEF Apply, FileOk
    <3>2. PICK known : known = IF storage = "mongo" THEN clubs ELSE file
      OBVIOUS
    <3>3. DOMAIN known = Sources
      BY <1>2, <3>1, <3>2
    <3>4. clubs' = [known EXCEPT ![w.club] = file[w.club] \cup w.row]
      BY <3>1, <3>2 DEF Joined
    <3> QED  BY <3>3, <3>4
  <2>2. CASE w.op # "club"
    BY <1>1, <1>2, <2>2 DEF Apply
  <2> QED  BY <2>1, <2>2
<1>4. w.op = "item" => queue' = Put(file, w.row) \/ queue' = queue
  BY <1>1 DEF Apply, Replaced
<1>5. w.op = "add" => queue' = Append(file, w.row)
  BY <1>1 DEF Apply
<1>6. w.op \notin {"item", "add"} => queue' = queue
  BY <1>1 DEF Apply
<1>7. (w.op # "store" => stores' = stores) /\ (w.op = "store" => stores' = Put(file, w.row))
  BY <1>1 DEF Apply
<1>8. (w.op # "alias" => aliases' = aliases) /\ (w.op = "alias" => aliases' = Append(file, w.row))
  BY <1>1 DEF Apply
<1>9. (w.op # "deal" => deals' = deals) /\ (w.op = "deal" => deals' = file \cup {w.row})
  BY <1>1 DEF Apply
<1>10. (w.op # "groups" => groups' = groups) /\ (w.op = "groups" => groups' = w.row)
  BY <1>1 DEF Apply
<1>11. /\ w.op = "store" => AreStores(file) /\ IsStore(w.row)
       /\ w.op = "alias" => IsSeq(file)
       /\ w.op \in {"item", "add"} => AreItems(file) /\ IsItem(w.row)
  BY <1>1 DEF FileOk, MayWrite
<1> QED
  BY <1>3, <1>4, <1>5, <1>6, <1>7, <1>8, <1>9, <1>10, <1>11

\* The rest of what an actor may write it may write.
LEMMA OpsOkTail ==
  ASSUME NEW a, NEW ws, IsSeq(ws), ws # <<>>, OpsOk(a, ws)
  PROVE  IsSeq(Tail(ws)) /\ OpsOk(a, Tail(ws))
<1>1. /\ IsSeq(Tail(ws))
      /\ \A p \in 1 .. Len(Tail(ws)) : p + 1 \in 1 .. Len(ws) /\ Tail(ws)[p] = ws[p + 1]
  BY SeqTail, Rest
<1> QED
  BY <1>1 DEF OpsOk

\* No writes are nobody's fault.
LEMMA NoWrites ==
  ASSUME NEW a, NEW N, NEW T, NEW D, NEW q, NEW gs
  PROVE  /\ IsSeq(<<>>) /\ OpsOk(a, <<>>) /\ Backed(<<>>, N, T, D) /\ NewStores(<<>>) = {}
         /\ FreshNames(<<>>, N, T) /\ FreshAdds(<<>>, q) /\ FreshGroups(<<>>, gs)
         /\ \A ops : RowsIn(<<>>, ops) = {}
<1> PICK ws : ws = <<>>
  OBVIOUS
<1>1. IsSeq(ws) /\ Len(ws) = 0
  BY NoPlaces
<1>2. \A p \in 1 .. Len(ws) : FALSE
  BY <1>1
<1>3. NewStores(ws) = {} /\ Added(ws) = {} /\ \A ops : RowsIn(ws, ops) = {}
  BY <1>2 DEF NewStores, Added, RowsIn
<1>4. OpsOk(a, ws) /\ Backed(ws, N, T, D) /\ FreshGroups(ws, gs)
  BY <1>2 DEF OpsOk, Backed, FreshGroups
<1>5. FreshNames(ws, N, T) /\ FreshAdds(ws, q)
  BY <1>3 DEF FreshNames, FreshAdds
<1> QED
  BY <1>1, <1>3, <1>4, <1>5

\* The shape is kept by every read, write and death.
LEMMA ShapeGoesOn ==
  ASSUME Shape, NEW a \in Actors, Rests(a),
         ReadBy(a) \/ DeadBy(a) \/ \E w, file : WrittenBy(a, w, file)
  PROVE  Shape'
<1>1. AreStores(stores') /\ IsSeq(aliases') /\ AreItems(queue') /\ DOMAIN clubs' = Sources
  <2>0. AreStores(stores) /\ IsSeq(aliases) /\ AreItems(queue) /\ DOMAIN clubs = Sources
    BY DEF Shape
  <2>1. CASE ReadBy(a) \/ DeadBy(a)
    BY <2>0, <2>1 DEF ReadBy, DeadBy, fileVars
  <2>2. ASSUME NEW w, NEW file, WrittenBy(a, w, file)
        PROVE  AreStores(stores') /\ IsSeq(aliases') /\ AreItems(queue') /\ DOMAIN clubs' = Sources
    <3>1. AreStores(stores')
      <4>1. w.op = "store" => stores' = Put(file, w.row) /\ AreStores(file) /\ IsStore(w.row)
        BY <2>2, FilesWritten
      <4>2. w.op # "store" => stores' = stores
        BY <2>2, FilesWritten
      <4> QED  BY <2>0, <4>1, <4>2, StoreWritten
    <3>2. IsSeq(aliases')
      <4>1. w.op = "alias" => aliases' = Append(file, w.row) /\ IsSeq(file)
        BY <2>2, FilesWritten
      <4>2. w.op # "alias" => aliases' = aliases
        BY <2>2, FilesWritten
      <4> QED  BY <2>0, <4>1, <4>2, RowAppended
    <3>3. AreItems(queue')
      <4>1. w.op \in {"item", "add"} => AreItems(file) /\ IsItem(w.row)
        BY <2>2, FilesWritten
      <4>2. w.op \in {"item", "add"} => queue' \in {Put(file, w.row), Append(file, w.row), queue}
        BY <2>2, FilesWritten
      <4>3. w.op \notin {"item", "add"} => queue' = queue
        BY <2>2, FilesWritten
      <4>4. w.op \in {"item", "add"} => AreItems(Put(file, w.row)) /\ AreItems(Append(file, w.row))
        BY <4>1, ItemPut
      <4>5. CASE w.op \in {"item", "add"}
        <5>1. AreItems(Put(file, w.row)) /\ AreItems(Append(file, w.row)) /\ AreItems(queue)
          BY <2>0, <4>4, <4>5
        <5>2. queue' = Put(file, w.row) \/ queue' = Append(file, w.row) \/ queue' = queue
          BY <4>2, <4>5
        <5> QED  BY <5>1, <5>2 DEF AreItems
      <4> QED  BY <2>0, <4>3, <4>5
    <3>4. DOMAIN clubs' = Sources
      BY <2>2, FilesWritten
    <3> QED  BY <3>1, <3>2, <3>3, <3>4
  <2> QED  BY <2>1, <2>2
<1>2. ShapeOf(a)'
  <2>0. storage' = storage /\ ShapeOf(a)
    BY DEF Rests, Shape
  <2>1. CASE ReadBy(a)
    <3>1. /\ todo'[a] = todo[a] /\ held'[a] = {FileOf(Head(todo[a]))}
          /\ todo[a] # <<>> /\ ~Direct(Head(todo[a]))
      BY <2>1 DEF ReadBy
    <3>2. FileOk(Head(todo[a]), FileOf(Head(todo[a])))
      BY FileOfOk
    <3> QED  BY <2>0, <3>1, <3>2 DEF ShapeOf, Direct
  <2>2. CASE DeadBy(a)
    <3>1. todo'[a] = <<>> /\ held'[a] = {}
      BY <2>2 DEF DeadBy
    <3> QED  BY <3>1, NoWrites DEF ShapeOf
  <2>3. CASE \E w, file : WrittenBy(a, w, file)
    <3>1. todo'[a] = Tail(todo[a]) /\ held'[a] = {} /\ todo[a] # <<>>
      BY <2>3 DEF WrittenBy
    <3>2. IsSeq(Tail(todo[a])) /\ OpsOk(a, Tail(todo[a]))
      BY <2>0, <3>1, OpsOkTail DEF ShapeOf
    <3> QED  BY <3>1, <3>2 DEF ShapeOf
  <2> QED  BY <2>1, <2>2, <2>3
<1>3. ASSUME NEW b \in Actors, b # a PROVE ShapeOf(b)'
  <2>1. todo'[b] = todo[b] /\ held'[b] = held[b] /\ storage' = storage /\ ShapeOf(b)
    BY <1>3 DEF Rests, Shape
  <2> QED  BY <2>1 DEF ShapeOf, Direct
<1>4. /\ todo' = [b \in Actors |-> todo'[b]] /\ held' = [b \in Actors |-> held'[b]]
      /\ begun' = begun /\ hand' = hand
  BY DEF Rests
<1>5. begun \in [Actors -> Nat] /\ \A i \in hand : IsItem(i)
  BY DEF Shape
<1> QED
  BY <1>1, <1>2, <1>3, <1>4, <1>5 DEF Shape

\* The operator reads an item.
LEMMA TakeFacts ==
  ASSUME Shape, Take
  PROVE  /\ UNCHANGED <<storage, todo, held, begun, met>> /\ UNCHANGED fileVars
         /\ hand' \subseteq Range(queue)
<1>1. UNCHANGED <<storage, arrived, todo, held, begun, met, crashes>> /\ UNCHANGED fileVars
  BY DEF Take
<1>2. PICK k \in DOMAIN queue : hand' = {queue[k]}
  BY DEF Take
<1> QED
  BY <1>1, <1>2 DEF Range

\* Nothing else changes by that.
LEMMA ShapeTaken ==
  ASSUME Shape, UNCHANGED <<storage, todo, held, begun, met>>, UNCHANGED fileVars, hand' \subseteq Range(queue) \cup hand
  PROVE  Shape'
<1>1. /\ stores' = stores /\ aliases' = aliases /\ queue' = queue /\ clubs' = clubs
      /\ storage' = storage /\ held' = held /\ todo' = todo /\ begun' = begun
  BY DEF fileVars
<1>2. \A i \in hand' : IsItem(i)
  <2>1. AreItems(queue) /\ DOMAIN queue = 1 .. Len(queue)
    BY SeqFacts DEF Shape, AreItems
  <2>2. \A i \in Range(queue) : IsItem(i)
    BY <2>1 DEF AreItems, Range
  <2> QED  BY <2>2 DEF Shape
<1>3. \A a \in Actors : ShapeOf(a)'
  BY <1>1 DEF Shape, ShapeOf, Direct
<1> QED
  BY <1>1, <1>2, <1>3 DEF Shape

-----------------------------------------------------------------------------
(* Who writes while nobody else does.                                      *)

\* A step of an actor's own: a read, a death, or a write.
Goes(a) == Rests(a) /\ (ReadBy(a) \/ DeadBy(a) \/ \E w, file : WrittenBy(a, w, file))

\* By such a step the actor is at its work before it.
LEMMA GoerIsBusy ==
  ASSUME Shape, NEW a \in Actors, Read(a) \/ Write(a) \/ Crash(a)
  PROVE  Goes(a) /\ todo[a] # <<>>
<1>1. Goes(a)
  BY ActorFacts DEF Goes
<1>2. todo[a] # <<>>
  BY DEF Read, Write, Crash
<1> QED
  BY <1>1, <1>2

\* The commands that meet are told by what a command finds when it begins.
LEMMA CurrentBegins ==
  ASSUME Shape, Current, NEW a \in Actors, NEW ws, Started(a, ws)
  PROVE  Current'
<1>1. /\ todo[a] = <<>> /\ held[a] = {} /\ held' = held /\ met \subseteq met'
      /\ \A b \in Actors : b # a => todo'[b] = todo[b]
      /\ \A b \in Actors : todo[b] # <<>> => (IF {a, b} = Syncs THEN "syncs" ELSE "others") \in met'
  BY DEF Started
<1>2. ASSUME "syncs" \notin met' PROVE todo'["hot"] = <<>> \/ todo'["swish"] = <<>>
  <2>1. "hot" \in Actors /\ "swish" \in Actors /\ {"swish", "hot"} = Syncs
    BY DEF Actors, Syncs
  <2>2. "syncs" \notin met
    BY <1>1, <1>2
  <2>3. todo["hot"] = <<>> \/ todo["swish"] = <<>>
    BY <2>2 DEF Current
  <2>4. a = "hot" => todo["swish"] = <<>>
    BY <1>1, <1>2, <2>1
  <2>5. a = "swish" => todo["hot"] = <<>>
    BY <1>1, <1>2, <2>1
  <2> QED  BY <1>1, <2>1, <2>3, <2>4, <2>5
<1>3. ASSUME Alone' PROVE \A b \in Actors : todo[b] = <<>> /\ held[b] = {} /\ (b # a => todo'[b] = <<>>)
  <2>1. met' = {}
    BY <1>3 DEF Alone
  <2>2. ASSUME NEW b \in Actors PROVE todo[b] = <<>>
    BY <1>1, <2>1
  <2>3. \A b \in Actors : held[b] # {} => todo[b] # <<>>
    BY DEF Shape, ShapeOf
  <2> QED  BY <1>1, <2>2, <2>3
<1>4. Alone' => \A b, c \in Actors : b # c => todo'[b] = <<>> \/ todo'[c] = <<>>
  BY <1>3
<1>5. Alone' => \A b \in Actors : held'[b] = {}
  BY <1>1, <1>3
<1> QED
  BY <1>2, <1>4, <1>5 DEF Current

\* They stay as far apart as they are while they go on.
LEMMA CurrentGoesOn ==
  ASSUME Shape, Current, NEW a \in Actors, Goes(a), todo[a] # <<>>
  PROVE  Current'
<1>1. met' = met /\ storage' = storage /\ \A b \in Actors : b # a => todo'[b] = todo[b] /\ held'[b] = held[b]
  BY DEF Goes, Rests
<1>2. \A b \in Actors : todo[b] = <<>> => b # a /\ todo'[b] = <<>>
  BY <1>1
<1>3. "syncs" \notin met => todo["hot"] = <<>> \/ todo["swish"] = <<>>
  BY DEF Current
<1>4. "hot" \in Actors /\ "swish" \in Actors
  BY DEF Actors, Syncs
<1>5. "syncs" \notin met' => todo'["hot"] = <<>> \/ todo'["swish"] = <<>>
  BY <1>1, <1>2, <1>3, <1>4
<1>6. ASSUME Alone' PROVE Alone /\ \A b \in Actors : b # a => todo[b] = <<>> /\ todo'[b] = <<>> /\ held'[b] = {}
  <2>1. Alone
    BY <1>1, <1>6 DEF Alone
  <2>2. \A b \in Actors : b # a => todo[b] = <<>>
    BY <2>1 DEF Current
  <2>3. \A b \in Actors : held[b] # {} => todo[b] # <<>>
    BY DEF Shape, ShapeOf
  <2> QED  BY <1>1, <2>1, <2>2, <2>3
<1>7. Alone' => \A b, c \in Actors : b # c => todo'[b] = <<>> \/ todo'[c] = <<>>
  BY <1>6
<1>8. ASSUME Alone', NEW b \in Actors, NEW file \in held'[b]
      PROVE  file = FileOf(Head(todo[b]))'
  <2>1. b = a
    BY <1>6, <1>8
  <2>2. ReadBy(a)
    <3>1. ~DeadBy(a)
      BY <1>8, <2>1 DEF DeadBy
    <3>2. ~(\E w, f : WrittenBy(a, w, f))
      BY <1>8, <2>1 DEF WrittenBy
    <3> QED  BY <3>1, <3>2 DEF Goes
  <2>3. file = FileOf(Head(todo[a])) /\ todo'[a] = todo[a] /\ UNCHANGED fileVars
    BY <1>8, <2>1, <2>2 DEF ReadBy
  <2> QED  BY <2>1, <2>3 DEF FileOf, fileVars
<1> QED
  BY <1>5, <1>7, <1>8 DEF Current

\* Two commands that have not met have not met by now.
LEMMA AloneBefore ==
  ASSUME UNCHANGED storage, met \subseteq met'
  PROVE  (Alone' => Alone) /\ (Kept' => Kept)
  BY DEF Alone, Kept

\* What is written in the files that lose nothing is written in the files as they are.
LEMMA KeptFile ==
  ASSUME Shape, Current, NEW a \in Actors, NEW w, NEW file, WrittenBy(a, w, file)
  PROVE  /\ Alone => file = FileOf(w)
         /\ Kept /\ w.op \in {"store", "alias", "deal"} => file = FileOf(w)
<1>1. Alone => file = FileOf(w)
  BY DEF WrittenBy, Current
<1>2. ASSUME storage = "mongo", w.op \in {"store", "alias", "deal"} PROVE file = FileOf(w)
  BY <1>2 DEF WrittenBy, Direct
<1> QED
  BY <1>1, <1>2 DEF Kept

\* A command begins while the files stay as they are.
LEMMA BeginsWith ==
  ASSUME NEW a \in Actors, NEW ws, Started(a, ws)
  PROVE  /\ stores' = stores /\ aliases' = aliases /\ queue' = queue /\ groups' = groups /\ deals' = deals
         /\ todo'[a] = ws /\ held' = held /\ \A b \in Actors : b # a => todo'[b] = todo[b]
         /\ met \subseteq met' /\ (Alone' => Alone) /\ (Kept' => Kept)
  BY AloneBefore DEF Started, fileVars

\* No names, items or rows are held or planned that were not.
LEMMA HeldBegins ==
  ASSUME Shape, NEW a \in Actors, NEW ws, Started(a, ws), NEW ops
  PROVE  HeldFor(ops)' \subseteq HeldFor(ops) /\ Planned(ops)' \subseteq Planned(ops) \cup RowsIn(ws, ops)
<1>1. /\ todo[a] = <<>> /\ held[a] = {} /\ held' = held /\ todo'[a] = ws
      /\ \A b \in Actors : b # a => todo'[b] = todo[b]
  BY DEF Started
<1>2. ASSUME NEW b \in Actors, todo'[b] # <<>>, Head(todo'[b]).op \in ops
      PROVE  held'[b] \subseteq HeldFor(ops)
  <2>1. CASE b = a
    BY <1>1, <2>1
  <2>2. CASE b # a
    <3>1. todo[b] # <<>> /\ Head(todo[b]).op \in ops /\ held'[b] = held[b]
      BY <1>1, <1>2, <2>2
    <3> QED  BY <3>1 DEF HeldFor
  <2> QED  BY <2>1, <2>2
<1>3. ASSUME NEW b \in Actors PROVE RowsIn(todo'[b], ops) \subseteq Planned(ops) \cup RowsIn(ws, ops)
  BY <1>1 DEF Planned
<1> QED
  BY <1>2, <1>3 DEF HeldFor, Planned

\* Nor by an actor's own step, but for the file it reads.
LEMMA HeldGoesOn ==
  ASSUME Shape, NEW a \in Actors, Goes(a), NEW ops
  PROVE  /\ \A f \in HeldFor(ops)' : f \in HeldFor(ops) \/ \E w : w.op \in ops /\ f = FileOf(w)
         /\ Planned(ops)' \subseteq Planned(ops)
<1>1. \A b \in Actors : b # a => todo'[b] = todo[b] /\ held'[b] = held[b]
  BY DEF Goes, Rests
<1>2. ASSUME NEW b \in Actors, todo'[b] # <<>>, Head(todo'[b]).op \in ops, NEW f \in held'[b]
      PROVE  f \in HeldFor(ops) \/ \E w : w.op \in ops /\ f = FileOf(w)
  <2>1. CASE b = a
    <3>1. ~DeadBy(a) /\ ~(\E w, file : WrittenBy(a, w, file))
      BY <1>2, <2>1 DEF DeadBy, WrittenBy
    <3>2. f = FileOf(Head(todo[a])) /\ todo'[a] = todo[a]
      BY <1>2, <2>1, <3>1 DEF Goes, ReadBy
    <3> QED  BY <1>2, <2>1, <3>2
  <2>2. CASE b # a
    <3>1. todo[b] # <<>> /\ Head(todo[b]).op \in ops /\ f \in held[b]
      BY <1>1, <1>2, <2>2
    <3> QED  BY <3>1 DEF HeldFor
  <2> QED  BY <2>1, <2>2
<1>3. ASSUME NEW b \in Actors PROVE RowsIn(todo'[b], ops) \subseteq RowsIn(todo[b], ops)
  <2>1. CASE todo'[b] = todo[b]
    BY <2>1
  <2>2. CASE todo'[b] = <<>>
    BY <2>2, NoWrites
  <2>3. CASE todo[b] # <<>> /\ todo'[b] = Tail(todo[b])
    <3>1. IsSeq(todo[b])
      BY DEF Shape, ShapeOf
    <3>2. \A p \in 1 .. Len(Tail(todo[b])) : p + 1 \in 1 .. Len(todo[b]) /\ Tail(todo[b])[p] = todo[b][p + 1]
      BY <2>3, <3>1, Rest
    <3> QED  BY <2>3, <3>2 DEF RowsIn
  <2>4. \/ todo'[b] = todo[b] \/ todo'[b] = <<>> \/ (todo[b] # <<>> /\ todo'[b] = Tail(todo[b]))
    BY <1>1 DEF Goes, ReadBy, DeadBy, WrittenBy
  <2> QED  BY <2>1, <2>2, <2>3, <2>4
<1> QED
  BY <1>2, <1>3 DEF HeldFor, Planned

-----------------------------------------------------------------------------
(* The ids name one store each.                                            *)

\* Fewer names and items are named no worse.
LEMMA NamedShrinks ==
  ASSUME NEW names, NEW items, NEW turns, Named(names, items, turns),
         NEW names2, names2 \subseteq names, NEW items2, items2 \subseteq items
  PROVE  Named(names2, items2, turns)
  BY DEF Named

\* The files and the rows of an actor's own step are of those there were.
LEMMA NamesGoOn ==
  ASSUME Shape, NEW a \in Actors, Goes(a), todo[a] # <<>>
  PROVE  /\ AllNames' \subseteq AllNames /\ AllItems' \subseteq AllItems
         /\ \A i \in ItemsRead' : i \in ItemsRead \/ \E w, file : WrittenBy(a, w, file) /\ w.op \in {"item", "add"} /\ i = w.row
<1>1. /\ \A f \in HeldFor({"store"})' : f \in HeldFor({"store"}) \/ f = stores
      /\ Planned({"store"})' \subseteq Planned({"store"})
  <2>1. \A w : w.op \in {"store"} => FileOf(w) = stores
    BY DEF FileOf
  <2>2. /\ \A f \in HeldFor({"store"})' : f \in HeldFor({"store"}) \/ \E w : w.op \in {"store"} /\ f = FileOf(w)
        /\ Planned({"store"})' \subseteq Planned({"store"})
    BY HeldGoesOn
  <2> QED  BY <2>1, <2>2
<1>2. /\ \A f \in HeldFor({"item", "add"})' : f \in HeldFor({"item", "add"}) \/ f = queue
      /\ Planned({"item", "add"})' \subseteq Planned({"item", "add"})
  <2>1. \A w : w.op \in {"item", "add"} => FileOf(w) = queue
    BY DEF FileOf
  <2>2. /\ \A f \in HeldFor({"item", "add"})' : f \in HeldFor({"item", "add"}) \/ \E w : w.op \in {"item", "add"} /\ f = FileOf(w)
        /\ Planned({"item", "add"})' \subseteq Planned({"item", "add"})
    BY HeldGoesOn
  <2> QED  BY <2>1, <2>2
<1>3. ASSUME NEW w, NEW file, WrittenBy(a, w, file)
      PROVE  /\ \A ops : w.op \in ops => w.row \in Planned(ops)
             /\ \A ops : w.op \in ops => file \in HeldFor(ops) \/ file = FileOf(w)
  <2>1. w = todo[a][1] /\ Head(todo[a]) = w /\ IsSeq(todo[a]) /\ (file = FileOf(w) \/ file \in held[a])
    BY <1>3 DEF WrittenBy, Shape, ShapeOf
  <2>2. 1 \in 1 .. Len(todo[a])
    BY <2>1, Rest
  <2>3. \A ops : w.op \in ops => w.row \in RowsIn(todo[a], ops)
    BY <2>1, <2>2 DEF RowsIn
  <2>4. \A ops : w.op \in ops => held[a] \subseteq HeldFor(ops)
    BY <2>1 DEF HeldFor
  <2> QED  BY <2>1, <2>3, <2>4 DEF Planned
<1>4. NamesOf(stores') \subseteq AllNames
  <2>1. CASE stores' = stores
    BY <2>1 DEF AllNames
  <2>2. ASSUME NEW w, NEW file, WrittenBy(a, w, file), w.op = "store" PROVE NamesOf(stores') \subseteq AllNames
    <3>1. stores' = Put(file, w.row) /\ AreStores(file) /\ IsStore(w.row)
      BY <2>2, FilesWritten
    <3>2. NamesOf(stores') \subseteq NamesOf(file) \cup {Triple(w.row)}
      BY <3>1, StoreWritten
    <3>3. w.row \in Planned({"store"}) /\ (file \in HeldFor({"store"}) \/ file = FileOf(w))
      <4>1. w.op \in {"store"}
        BY <2>2
      <4> QED  BY <1>3, <2>2, <4>1
    <3>4. FileOf(w) = stores
      BY <2>2 DEF FileOf
    <3> QED  BY <3>2, <3>3, <3>4 DEF AllNames
  <2>3. ReadBy(a) \/ DeadBy(a) => stores' = stores
    BY DEF ReadBy, DeadBy, fileVars
  <2>4. \A w, file : WrittenBy(a, w, file) => w.op = "store" \/ stores' = stores
    BY FilesWritten
  <2> QED  BY <2>1, <2>2, <2>3, <2>4 DEF Goes
<1>5. \A i \in Range(queue') :
        \/ i \in Range(queue) \cup UNION {Range(file) : file \in HeldFor({"item", "add"})}
        \/ \E w, file : WrittenBy(a, w, file) /\ w.op \in {"item", "add"} /\ i = w.row
  <2>1. CASE queue' = queue
    BY <2>1
  <2>2. ASSUME NEW w, NEW file, WrittenBy(a, w, file), w.op \in {"item", "add"}
        PROVE  Range(queue') \subseteq Range(queue) \cup (UNION {Range(f) : f \in HeldFor({"item", "add"})}) \cup {w.row}
    <3>1. AreItems(file) /\ IsItem(w.row)
      BY <2>2, FilesWritten
    <3>2. queue' = Put(file, w.row) \/ queue' = Append(file, w.row) \/ queue' = queue
      BY <2>2, FilesWritten
    <3>3. Range(queue') \subseteq Range(file) \cup {w.row} \/ queue' = queue
      <4>1. Range(Put(file, w.row)) \subseteq Range(file) \cup {w.row}
        BY <3>1, ItemPut
      <4>2. Range(Append(file, w.row)) \subseteq Range(file) \cup {w.row}
        BY <3>1, ItemPut
      <4> QED  BY <3>2, <4>1, <4>2
    <3>4. file \in HeldFor({"item", "add"}) \/ file = FileOf(w)
      BY <1>3, <2>2
    <3>5. FileOf(w) = queue
      BY <2>2 DEF FileOf
    <3> QED  BY <3>3, <3>4, <3>5
  <2>3. ReadBy(a) \/ DeadBy(a) => queue' = queue
    BY DEF ReadBy, DeadBy, fileVars
  <2>4. \A w, file : WrittenBy(a, w, file) => w.op \in {"item", "add"} \/ queue' = queue
    BY FilesWritten
  <2> QED  BY <2>1, <2>2, <2>3, <2>4 DEF Goes
<1>6. hand' = hand
  BY DEF Goes, Rests
<1>7. AllNames' \subseteq AllNames
  <2>1. \A f \in HeldFor({"store"})' : NamesOf(f) \subseteq AllNames
    BY <1>1 DEF AllNames
  <2> QED  BY <1>1, <1>4, <2>1 DEF AllNames
<1>8. \A f \in HeldFor({"item", "add"})' : Range(f) \subseteq Range(queue) \cup UNION {Range(g) : g \in HeldFor({"item", "add"})}
  BY <1>2
<1>9. \A i \in Range(queue') : i \in AllItems
  <2>1. \A w, file : WrittenBy(a, w, file) /\ w.op \in {"item", "add"} => w.row \in Planned({"item", "add"})
    BY <1>3
  <2> QED  BY <1>5, <2>1 DEF AllItems
<1>10. AllItems' \subseteq AllItems
  BY <1>2, <1>6, <1>8, <1>9 DEF AllItems
<1>11. \A i \in ItemsRead' : i \in ItemsRead \/ \E w, file : WrittenBy(a, w, file) /\ w.op \in {"item", "add"} /\ i = w.row
  BY <1>5, <1>6, <1>8 DEF ItemsRead
<1> QED
  BY <1>7, <1>10, <1>11

\* A command's writes bring no id that is another's.
LEMMA NamesBegin ==
  ASSUME Shape, Named(AllNames, AllItems, begun), NEW a \in Actors, NEW ws, Good(a, ws),
         Started(a, ws), hand' \subseteq hand
  PROVE  Named(AllNames, AllItems, begun)' /\ AllItems' \subseteq AllItems \cup RowsIn(ws, {"item", "add"}) /\ ItemsRead' \subseteq ItemsRead
<1> DEFINE new == {Triple(s) : s \in RowsIn(ws, {"store"})}
           rows == RowsIn(ws, {"item", "add"})
<1>1. stores' = stores /\ queue' = queue
  BY BeginsWith
<1>2. HeldFor({"store"})' \subseteq HeldFor({"store"}) /\ Planned({"store"})' \subseteq Planned({"store"}) \cup RowsIn(ws, {"store"})
  BY HeldBegins
<1>3. /\ HeldFor({"item", "add"})' \subseteq HeldFor({"item", "add"})
      /\ Planned({"item", "add"})' \subseteq Planned({"item", "add"}) \cup rows
  BY HeldBegins
<1>4. AllNames' \subseteq AllNames \cup new
  BY <1>1, <1>2 DEF AllNames
<1>5. AllItems' \subseteq AllItems \cup rows
  BY <1>1, <1>3 DEF AllItems
<1>6. ItemsRead' \subseteq ItemsRead
  BY <1>1, <1>3 DEF ItemsRead
<1>7. /\ begun'[a] = begun[a] + 1 /\ begun' \in [Actors -> Nat] /\ begun \in [Actors -> Nat]
      /\ \A b \in Actors : b # a => begun'[b] = begun[b]
  BY DEF Started, Shape
<1> DEFINE Own(id) == \E m \in Nat : id = NewId(a, begun[a], m)
           Is(p) == p \in NewStores(ws)
<1>8. \A n \in new : \E p \in NewStores(ws) : n = Triple(ws[p].row) /\ n[1] = ws[p].row.id
  BY DEF RowsIn, NewStores, Triple
<1>9. \A p \in NewStores(ws) : Triple(ws[p].row) \in NamesOf(stores) \/ Own(ws[p].row.id)
  BY DEF Good
<1>10. NamesOf(stores) \subseteq AllNames
  BY DEF AllNames
<1>11. \A n \in new : n \in AllNames \/ Own(n[1])
  BY <1>8, <1>9, <1>10
<1>12. ASSUME NEW id, Own(id) PROVE ~Past(id, begun) /\ Past(id, begun')
  <2>1. PICK m \in Nat : id = <<a, begun[a], m>>
    BY <1>12 DEF NewId
  <2>2. id \in NewIds /\ id[2] = begun[a] /\ id[1] = a
    BY <1>7, <2>1 DEF NewIds
  <2>3. ~(begun[a] < begun[a]) /\ begun[a] < begun'[a]
    BY <1>7
  <2> QED  BY <2>2, <2>3 DEF Past
<1>13. ASSUME NEW id, Past(id, begun) PROVE Past(id, begun')
  <2>1. ASSUME id \in NewIds PROVE id[2] < begun'[id[1]]
    <3>1. id[2] < begun[id[1]] /\ id[1] \in Actors /\ id[2] \in Nat
      BY <1>13, <2>1 DEF Past, NewIds
    <3>2. begun[id[1]] \in Nat /\ begun'[id[1]] \in Nat /\ begun[id[1]] <= begun'[id[1]]
      BY <1>7, <3>1
    <3> QED  BY <3>1, <3>2
  <2> QED  BY <2>1 DEF Past
<1>14. /\ \A m, n \in AllNames : m[1] = n[1] => m = n
       /\ \A n \in AllNames : Past(n[1], begun)
       /\ \A i \in AllItems : i.by = "bulk" =>
            /\ Past(i.store, begun)
            /\ \A n \in AllNames : n[1] = i.store => Online(Whole(Records[i.raw].name)) = Online(Whole(n[2]))
  BY DEF Named
<1>15. \A p, r \in NewStores(ws) : ws[p].row.id = ws[r].row.id => p = r
  BY DEF Good
<1>16. ASSUME NEW m \in AllNames', NEW n \in AllNames', m[1] = n[1] PROVE m = n
  <2>1. m \in AllNames \/ (m \in new /\ Own(m[1]))
    BY <1>4, <1>11
  <2>2. n \in AllNames \/ (n \in new /\ Own(n[1]))
    BY <1>4, <1>11
  <2>3. CASE m \in AllNames /\ n \in AllNames
    BY <1>14, <1>16, <2>3
  <2>4. CASE m \in AllNames /\ Own(n[1])
    <3>1. Past(m[1], begun) /\ ~Past(n[1], begun)
      BY <1>12, <1>14, <2>4
    <3> QED  BY <1>16, <3>1
  <2>5. CASE n \in AllNames /\ Own(m[1])
    <3>1. Past(n[1], begun) /\ ~Past(m[1], begun)
      BY <1>12, <1>14, <2>5
    <3> QED  BY <1>16, <3>1
  <2>6. CASE m \in new /\ n \in new
    BY <1>8, <1>15, <1>16, <2>6
  <2> QED  BY <2>1, <2>2, <2>3, <2>4, <2>5, <2>6
<1>17. \A n \in AllNames' : Past(n[1], begun')
  BY <1>4, <1>11, <1>12, <1>13, <1>14
<1>18. ASSUME NEW i \in AllItems', i.by = "bulk"
       PROVE  /\ Past(i.store, begun')
              /\ \A n \in AllNames' : n[1] = i.store => Online(Whole(Records[i.raw].name)) = Online(Whole(n[2]))
  <2>1. CASE i \in AllItems
    <3>1. Past(i.store, begun)
      BY <1>14, <1>18, <2>1
    <3>2. \A n \in AllNames' : n[1] = i.store => n \in AllNames
      <4>1. ASSUME NEW n \in AllNames', n[1] = i.store, n \notin AllNames PROVE FALSE
        <5>1. Own(n[1])
          BY <1>4, <1>11, <4>1
        <5> QED  BY <1>12, <3>1, <4>1, <5>1
      <4> QED  BY <4>1
    <3> QED  BY <1>13, <1>14, <1>18, <2>1, <3>1, <3>2
  <2>2. CASE i \in rows
    <3>1. PICK p \in 1 .. Len(ws) : ws[p].op \in {"item", "add"} /\ i = ws[p].row
      BY <2>2 DEF RowsIn
    <3>2. MayWrite(a, ws[p])
      BY <3>1 DEF Good, OpsOk
    <3>3. ws[p].op = "item" /\ a = "bulk"
      <4>1. ws[p].op = "add" => i.by = None
        BY <3>1, <3>2 DEF MayWrite, NewItem
      <4>2. None # "bulk"
        BY CatalogueAssumption DEF CatalogueAssumption, Actors
      <4> QED  BY <1>18, <3>1, <3>2, <4>1, <4>2 DEF MayWrite
    <3>4. Backed(ws, NamesOf(stores), Range(aliases), deals)
      BY <3>3 DEF Good
    <3>5. PICK N, T, D : N = NamesOf(stores) \cup NamesIn(ws, p - 1) /\ Right(ws[p], N, T, D)
      BY <3>4 DEF Backed
    <3>6. Settled(i, N, T, D)
      BY <3>1, <3>3, <3>5 DEF Right
    <3>7. PICK n \in N : n[1] = i.store /\ Online(Whole(Records[i.raw].name)) = Online(Whole(n[2]))
      BY <1>18, <3>6 DEF Settled
    <3>8. n \in AllNames'
      <4>1. NamesOf(stores) \subseteq AllNames'
        BY <1>1 DEF AllNames
      <4>2. NamesIn(ws, p - 1) \subseteq new
        <5>1. \A j \in 1 .. p - 1 : j \in 1 .. Len(ws)
          <6>1. Len(ws) \in Nat
            BY SeqFacts DEF Good
          <6> QED  BY <6>1
        <5> QED  BY <5>1 DEF NamesIn, RowsIn
      <4>3. new \subseteq AllNames'
        <5>1. RowsIn(ws, {"store"}) \subseteq Planned({"store"})'
          <6>1. todo'[a] = ws
            BY BeginsWith
          <6> QED  BY <6>1 DEF Planned
        <5> QED  BY <5>1 DEF AllNames
      <4> QED  BY <3>5, <4>1, <4>2, <4>3
    <3>9. Past(i.store, begun')
      BY <1>17, <3>7, <3>8
    <3> QED  BY <1>16, <3>7, <3>8, <3>9
  <2> QED  BY <1>5, <2>1, <2>2
<1>19. Named(AllNames, AllItems, begun)'
  BY <1>16, <1>17, <1>18 DEF Named
<1> QED
  BY <1>5, <1>6, <1>19

-----------------------------------------------------------------------------
(* What the files that lose nothing hold.                                  *)

\* By an actor's own step they get what its first write brings, and lose nothing.
Grown(a) ==
  \/ /\ NamesOf(stores') = NamesOf(stores) /\ Range(aliases') = Range(aliases) /\ deals' = deals
     /\ todo'[a] = todo[a] \/ todo'[a] = <<>>
  \/ /\ todo[a] # <<>> /\ todo'[a] = Tail(todo[a])
     /\ NamesOf(stores') = NamesOf(stores) \cup NamesIn(todo[a], 1)
     /\ Range(aliases') = Range(aliases) \cup TaughtIn(todo[a], 1)
     /\ deals' = deals \cup DealsIn(todo[a], 1)

\* Of a list of writes the first brings its row.
LEMMA FirstBrings ==
  ASSUME NEW ws, IsSeq(ws), ws # <<>>
  PROVE  /\ NamesIn(ws, 1) = IF ws[1].op = "store" THEN {Triple(ws[1].row)} ELSE {}
         /\ TaughtIn(ws, 1) = IF ws[1].op = "alias" THEN {ws[1].row} ELSE {}
         /\ DealsIn(ws, 1) = IF ws[1].op = "deal" THEN {ws[1].row} ELSE {}
         /\ NamesIn(ws, 0) = {} /\ TaughtIn(ws, 0) = {} /\ DealsIn(ws, 0) = {}
<1>1. 1 .. 1 = {1} /\ 1 .. 0 = {}
  OBVIOUS
<1> QED
  BY <1>1 DEF NamesIn, TaughtIn, DealsIn

\* So it is while nobody rewrites them at once.
LEMMA FilesGrow ==
  ASSUME Shape, Current, Named(AllNames, AllItems, begun), Kept, NEW a \in Actors, Goes(a)
  PROVE  Grown(a)
<1>1. CASE ReadBy(a) \/ DeadBy(a)
  BY <1>1 DEF ReadBy, DeadBy, fileVars, Grown
<1>2. ASSUME NEW w, NEW file, WrittenBy(a, w, file)
      PROVE  Grown(a)
  <2>1. /\ todo[a] # <<>> /\ w = todo[a][1] /\ todo'[a] = Tail(todo[a]) /\ IsSeq(todo[a])
    BY <1>2 DEF WrittenBy, Shape, ShapeOf
  <2>2. /\ NamesIn(todo[a], 1) = IF w.op = "store" THEN {Triple(w.row)} ELSE {}
        /\ TaughtIn(todo[a], 1) = IF w.op = "alias" THEN {w.row} ELSE {}
        /\ DealsIn(todo[a], 1) = IF w.op = "deal" THEN {w.row} ELSE {}
    BY <2>1, FirstBrings
  <2>3. NamesOf(stores') = NamesOf(stores) \cup NamesIn(todo[a], 1)
    <3>1. CASE w.op # "store"
      <4>1. stores' = stores
        BY <1>2, <3>1, FilesWritten
      <4> QED  BY <2>2, <3>1, <4>1
    <3>2. CASE w.op = "store"
      <4>1. stores' = Put(file, w.row) /\ AreStores(file) /\ IsStore(w.row)
        BY <1>2, <3>2, FilesWritten
      <4>2. file = FileOf(w) /\ FileOf(w) = stores
        <5>1. Kept /\ w.op \in {"store", "alias", "deal"} => file = FileOf(w)
          BY <1>2, KeptFile
        <5> QED  BY <3>2, <5>1 DEF FileOf
      <4>3. \A n \in NamesOf(stores) : n[1] = w.row.id => n = Triple(w.row)
        <5>1. w.row \in RowsIn(todo[a], {"store"})
          <6>1. 1 \in 1 .. Len(todo[a])
            BY <2>1, Rest
          <6> QED  BY <2>1, <3>2, <6>1 DEF RowsIn
        <5>2. Triple(w.row) \in AllNames /\ NamesOf(stores) \subseteq AllNames
          BY <5>1 DEF AllNames, Planned
        <5>3. Triple(w.row)[1] = w.row.id
          BY DEF Triple
        <5> QED  BY <5>2, <5>3 DEF Named
      <4> QED  BY <2>2, <3>2, <4>1, <4>2, <4>3, StoreWritten
    <3> QED  BY <3>1, <3>2
  <2>4. Range(aliases') = Range(aliases) \cup TaughtIn(todo[a], 1)
    <3>1. CASE w.op # "alias"
      <4>1. aliases' = aliases
        BY <1>2, <3>1, FilesWritten
      <4> QED  BY <2>2, <3>1, <4>1
    <3>2. CASE w.op = "alias"
      <4>1. aliases' = Append(file, w.row) /\ IsSeq(file)
        BY <1>2, <3>2, FilesWritten
      <4>2. file = FileOf(w) /\ FileOf(w) = aliases
        <5>1. Kept /\ w.op \in {"store", "alias", "deal"} => file = FileOf(w)
          BY <1>2, KeptFile
        <5> QED  BY <3>2, <5>1 DEF FileOf
      <4> QED  BY <2>2, <3>2, <4>1, <4>2, RowAppended
    <3> QED  BY <3>1, <3>2
  <2>5. deals' = deals \cup DealsIn(todo[a], 1)
    <3>1. CASE w.op # "deal"
      <4>1. deals' = deals
        BY <1>2, <3>1, FilesWritten
      <4> QED  BY <2>2, <3>1, <4>1
    <3>2. CASE w.op = "deal"
      <4>1. deals' = file \cup {w.row}
        BY <1>2, <3>2, FilesWritten
      <4>2. file = FileOf(w) /\ FileOf(w) = deals
        <5>1. Kept /\ w.op \in {"store", "alias", "deal"} => file = FileOf(w)
          BY <1>2, KeptFile
        <5> QED  BY <3>2, <5>1 DEF FileOf
      <4> QED  BY <2>2, <3>2, <4>1, <4>2
    <3> QED  BY <3>1, <3>2
  <2> QED  BY <2>1, <2>3, <2>4, <2>5 DEF Grown
<1> QED
  BY <1>1, <1>2 DEF Goes

\* A command's writes rely on no more than there is.
LEMMA ReliedBegins ==
  ASSUME Shape, Relied, NEW a \in Actors, NEW ws, Good(a, ws), Started(a, ws), Kept',
         AllItems' \subseteq AllItems \cup RowsIn(ws, {"item", "add"}), ItemsRead' \subseteq ItemsRead
  PROVE  Relied'
<1>1. /\ stores' = stores /\ aliases' = aliases /\ deals' = deals /\ todo'[a] = ws /\ Kept
      /\ \A b \in Actors : b # a => todo'[b] = todo[b]
  BY BeginsWith
<1>2. /\ \A t \in Range(aliases) : \E n \in NamesOf(stores) : n[1] = t.store
      /\ \A i \in AllItems : i.best = None \/ \E n \in NamesOf(stores) : n[1] = i.best
      /\ \A i \in ItemsRead : Settled(i, NamesOf(stores), Range(aliases), deals)
      /\ \A b \in Actors : Backed(todo[b], NamesOf(stores), Range(aliases), deals)
  BY <1>1 DEF Relied
<1>3. /\ Backed(ws, NamesOf(stores), Range(aliases), deals)
      /\ \A i \in RowsIn(ws, {"item", "add"}) : i.best = None \/ \E n \in NamesOf(stores) : n[1] = i.best
  BY <1>1 DEF Good
<1>4. \A b \in Actors : Backed(todo'[b], NamesOf(stores'), Range(aliases'), deals')
  <2>1. \A b \in Actors : Backed(todo'[b], NamesOf(stores), Range(aliases), deals)
    BY <1>1, <1>2, <1>3
  <2> QED  BY <1>1, <2>1
<1>5. \A i \in ItemsRead' : Settled(i, NamesOf(stores'), Range(aliases'), deals')
  BY <1>1, <1>2
<1>6. \A i \in AllItems' : i.best = None \/ \E n \in NamesOf(stores') : n[1] = i.best
  BY <1>1, <1>2, <1>3
<1> QED
  BY <1>1, <1>2, <1>4, <1>5, <1>6 DEF Relied

\* By an actor's own step there is more, and its own writes are as right as they were.
LEMMA ReliedGoesOn ==
  ASSUME Shape, Current, Named(AllNames, AllItems, begun), Relied, NEW a \in Actors, Goes(a), todo[a] # <<>>, Kept'
  PROVE  Relied'
<1>1. Kept /\ \A b \in Actors : b # a => todo'[b] = todo[b]
  BY AloneBefore DEF Goes, Rests
<1>2. /\ \A t \in Range(aliases) : \E n \in NamesOf(stores) : n[1] = t.store
      /\ \A i \in AllItems : i.best = None \/ \E n \in NamesOf(stores) : n[1] = i.best
      /\ \A i \in ItemsRead : Settled(i, NamesOf(stores), Range(aliases), deals)
      /\ \A b \in Actors : Backed(todo[b], NamesOf(stores), Range(aliases), deals)
  BY <1>1 DEF Relied
<1>3. Grown(a)
  BY <1>1, FilesGrow
<1> DEFINE N2 == NamesOf(stores')
           T2 == Range(aliases')
           D2 == deals'
<1>4. NamesOf(stores) \subseteq N2 /\ Range(aliases) \subseteq T2 /\ deals \subseteq D2
  BY <1>3 DEF Grown
<1>5. IsSeq(todo[a]) /\ 1 \in 1 .. Len(todo[a])
  <2>1. IsSeq(todo[a])
    BY DEF Shape, ShapeOf
  <2> QED  BY <2>1, Rest
<1>6. Right(todo[a][1], NamesOf(stores), Range(aliases), deals)
  <2>1. Right(todo[a][1], NamesOf(stores) \cup NamesIn(todo[a], 1 - 1), Range(aliases) \cup TaughtIn(todo[a], 1 - 1), deals \cup DealsIn(todo[a], 1 - 1))
    BY <1>2, <1>5 DEF Backed
  <2>2. 1 - 1 = 0
    OBVIOUS
  <2>3. NamesIn(todo[a], 0) = {} /\ TaughtIn(todo[a], 0) = {} /\ DealsIn(todo[a], 0) = {}
    BY <1>5, FirstBrings
  <2>4. /\ NamesOf(stores) \cup NamesIn(todo[a], 1 - 1) = NamesOf(stores)
        /\ Range(aliases) \cup TaughtIn(todo[a], 1 - 1) = Range(aliases)
        /\ deals \cup DealsIn(todo[a], 1 - 1) = deals
    BY <2>2, <2>3
  <2> QED  BY <2>1, <2>4
<1>7. \A t \in T2 : \E n \in N2 : n[1] = t.store
  <2>1. \A t \in TaughtIn(todo[a], 1) : \E n \in NamesOf(stores) : n[1] = t.store
    <3>1. TaughtIn(todo[a], 1) = IF todo[a][1].op = "alias" THEN {todo[a][1].row} ELSE {}
      BY <1>5, FirstBrings
    <3> QED  BY <1>6, <3>1 DEF Right
  <2>2. T2 \subseteq Range(aliases) \cup TaughtIn(todo[a], 1)
    BY <1>3 DEF Grown
  <2> QED  BY <1>2, <1>4, <2>1, <2>2
<1>8. \A i \in AllItems' : i.best = None \/ \E n \in N2 : n[1] = i.best
  <2>1. AllItems' \subseteq AllItems
    BY NamesGoOn
  <2> QED  BY <1>2, <1>4, <2>1
<1>9. ASSUME NEW i \in ItemsRead' PROVE Settled(i, N2, T2, D2)
  <2>1. Settled(i, NamesOf(stores), Range(aliases), deals)
    <3>1. i \in ItemsRead \/ \E w, file : WrittenBy(a, w, file) /\ w.op \in {"item", "add"} /\ i = w.row
      BY <1>9, NamesGoOn
    <3>2. ASSUME NEW w, NEW file, WrittenBy(a, w, file), w.op \in {"item", "add"}, i = w.row
          PROVE  Settled(i, NamesOf(stores), Range(aliases), deals)
      <4>1. w = todo[a][1] /\ MayWrite(a, w)
        BY <3>2 DEF WrittenBy
      <4>2. CASE w.op = "item"
        BY <1>6, <3>2, <4>1, <4>2 DEF Right
      <4>3. CASE w.op = "add"
        <5>1. i.by = None /\ i.status = "pending"
          BY <3>2, <4>1, <4>3 DEF MayWrite, NewItem
        <5>2. None # "bulk"
          BY CatalogueAssumption DEF CatalogueAssumption, Actors
        <5> QED  BY <5>1, <5>2 DEF Settled, Closed
      <4> QED  BY <3>2, <4>2, <4>3
    <3> QED  BY <1>2, <3>1, <3>2
  <2> QED  BY <1>4, <2>1, SettledGrows
<1>10. ASSUME NEW b \in Actors PROVE Backed(todo'[b], N2, T2, D2)
  <2>1. Backed(todo[b], NamesOf(stores), Range(aliases), deals)
    BY <1>2
  <2>2. CASE todo'[b] = todo[b]
    BY <1>4, <2>1, <2>2, BackedGrows
  <2>3. CASE b = a /\ todo'[b] = <<>>
    BY <2>3, NoWrites
  <2>4. CASE b = a /\ todo'[a] # todo[a] /\ todo'[a] # <<>>
    <3>1. /\ todo'[a] = Tail(todo[a]) /\ NamesOf(stores) \cup NamesIn(todo[a], 1) \subseteq N2
          /\ Range(aliases) \cup TaughtIn(todo[a], 1) \subseteq T2 /\ deals \cup DealsIn(todo[a], 1) \subseteq D2
      BY <1>3, <2>4 DEF Grown
    <3>2. Backed(Tail(todo[a]), N2, T2, D2)
      BY <1>5, <2>1, <2>4, <3>1, BackedTail
    <3> QED  BY <2>4, <3>1, <3>2
  <2> QED  BY <1>1, <2>2, <2>3, <2>4
<1> HIDE DEF N2, T2, D2
<1> QED
  BY <1>7, <1>8, <1>9, <1>10 DEF Relied, N2, T2, D2

-----------------------------------------------------------------------------
(* No name is made twice.                                                  *)

\* A name that leads elsewhere as well does so however the files grow.
LEMMA OtherGrows ==
  ASSUME NEW f, NEW N, NEW T, Other(f, N, T), NEW N2, NEW T2, N \subseteq N2, T \subseteq T2
  PROVE  Other(f, N2, T2)
<1>1. PICK n \in N : /\ Whole(n[2]) = f \/ \E t \in T : t.store = n[1] /\ t.form = f
                     /\ Whole(n[2]) # f \/ n[3] # "bulk"
  BY DEF Other
<1>2. n \in N2 /\ (Whole(n[2]) = f \/ \E t \in T2 : t.store = n[1] /\ t.form = f)
  BY <1>1
<1> QED
  BY <1>1, <1>2 DEF Other

\* The parts of a store's row.
LEMMA TripleParts ==
  ASSUME NEW s
  PROVE  Triple(s)[1] = s.id /\ Triple(s)[2] = s.name /\ Triple(s)[3] = s.by
  BY DEF Triple

\* Names grow by one that no store of the bulk resolution bears but with another beside it.
LEMMA MadeGrows ==
  ASSUME NEW N, NEW T, MadeOk(N, T), NEW n, NEW T2, T \subseteq T2,
         n[3] = "bulk" => \A m \in N : m[3] = "bulk" /\ Whole(n[2]) = Whole(m[2]) => Other(Whole(m[2]), N, T)
  PROVE  MadeOk(N \cup {n}, T2)
<1> SUFFICES ASSUME NEW k \in N \cup {n}, NEW m \in N \cup {n}, k # m, k[3] = "bulk", m[3] = "bulk", Whole(k[2]) = Whole(m[2])
             PROVE  Other(Whole(m[2]), N \cup {n}, T2)
  BY DEF MadeOk
<1>1. Other(Whole(m[2]), N, T)
  <2>1. CASE k \in N /\ m \in N
    BY <2>1 DEF MadeOk
  <2>2. CASE k = n /\ m \in N
    BY <2>2
  <2>3. CASE k \in N /\ m = n
    BY <2>3
  <2> QED  BY <2>1, <2>2, <2>3
<1> QED
  BY <1>1, OtherGrows

\* What a list makes anew it makes anew of more aliases, and of one more name that is not
\* the bulk resolution's.
LEMMA FreshGrows ==
  ASSUME NEW ws, NEW N, NEW T, FreshNames(ws, N, T), NEW N2, NEW T2, N \subseteq N2, T \subseteq T2,
         \A n \in N2 \ N : n[3] # "bulk"
  PROVE  FreshNames(ws, N2, T2)
<1>1. ASSUME NEW p \in NewStores(ws), NEW n \in N2, n[3] = "bulk", Whole(ws[p].row.name) = Whole(n[2])
      PROVE  Other(Whole(n[2]), N2, T2)
  <2>1. n \in N
    BY <1>1
  <2>2. Other(Whole(n[2]), N, T)
    BY <1>1, <2>1 DEF FreshNames
  <2> QED  BY <2>2, OtherGrows
<1> QED
  BY <1>1 DEF FreshNames

\* And of the name it has just made.
LEMMA FreshTail ==
  ASSUME NEW ws, IsSeq(ws), ws # <<>>, NEW N, NEW T, FreshNames(ws, N, T), NEW T2, T \subseteq T2
  PROVE  FreshNames(Tail(ws), N \cup NamesIn(ws, 1), T2)
<1> DEFINE t == Tail(ws)
           N2 == N \cup NamesIn(ws, 1)
<1>1. /\ 1 \in 1 .. Len(ws)
      /\ \A p \in 1 .. Len(t) : p + 1 \in 1 .. Len(ws) /\ p + 1 # 1 /\ t[p] = ws[p + 1]
      /\ \A p, r \in 1 .. Len(t) : p + 1 = r + 1 => p = r
  BY Rest
<1>2. NamesIn(ws, 1) = IF ws[1].op = "store" THEN {Triple(ws[1].row)} ELSE {}
  BY FirstBrings
<1> HIDE DEF t
<1>3. \A p \in NewStores(t) : p \in 1 .. Len(t) /\ p + 1 \in NewStores(ws) /\ t[p] = ws[p + 1] /\ p + 1 # 1
  BY <1>1 DEF NewStores
<1>4. ASSUME NEW p \in NewStores(t), NEW n \in N2, n[3] = "bulk", Whole(t[p].row.name) = Whole(n[2])
      PROVE  Other(Whole(n[2]), N2, T2)
  <2>1. CASE n \in N
    <3>1. Other(Whole(n[2]), N, T)
      BY <1>3, <1>4, <2>1 DEF FreshNames
    <3> QED  BY <3>1, OtherGrows
  <2>2. CASE n \in NamesIn(ws, 1)
    <3>1. ws[1].op = "store" /\ n = Triple(ws[1].row) /\ 1 \in NewStores(ws)
      BY <1>1, <1>2, <2>2 DEF NewStores
    <3>2. Whole(ws[p + 1].row.name) = Whole(ws[1].row.name)
      BY <1>3, <1>4, <3>1, TripleParts
    <3>3. p + 1 = 1
      BY <1>3, <3>1, <3>2 DEF FreshNames
    <3> QED  BY <1>3, <3>3
  <2> QED  BY <2>1, <2>2
<1>5. \A p, r \in NewStores(t) : Whole(t[p].row.name) = Whole(t[r].row.name) => p = r
  <2>1. ASSUME NEW p \in NewStores(t), NEW r \in NewStores(t), Whole(t[p].row.name) = Whole(t[r].row.name) PROVE p = r
    <3>1. p + 1 = r + 1
      BY <1>3, <2>1 DEF FreshNames
    <3> QED  BY <1>1, <1>3, <3>1
  <2> QED  BY <2>1
<1> QED
  BY <1>4, <1>5 DEF FreshNames, t

\* A command begins: the bulk resolution with names that are new.
LEMMA MadeBegins ==
  ASSUME Shape, Made, NEW a \in Actors, NEW ws, Good(a, ws), Started(a, ws)
  PROVE  Made'
<1>1. /\ stores' = stores /\ aliases' = aliases /\ todo'[a] = ws /\ (Kept' => Kept)
      /\ \A b \in Actors : b # a => todo'[b] = todo[b]
  BY BeginsWith
<1>2. "bulk" \in Actors /\ "pipeline" \in Actors
  BY DEF Actors
<1>3. ASSUME Kept'
      PROVE  FreshNames(todo'["bulk"], NamesOf(stores), Range(aliases))
  <2>1. a = "bulk" => FreshNames(ws, NamesOf(stores), Range(aliases))
    BY <1>1, <1>3 DEF Good
  <2>2. FreshNames(todo["bulk"], NamesOf(stores), Range(aliases))
    BY <1>1, <1>3 DEF Made
  <2> QED  BY <1>1, <1>2, <2>1, <2>2
<1>4. ASSUME Kept', NEW p \in NewStores(todo'["pipeline"])
      PROVE  Triple(todo'["pipeline"][p].row) \in NamesOf(stores)
  <2>1. a = "pipeline" => \A r \in NewStores(ws) : Triple(ws[r].row) \in NamesOf(stores)
    BY DEF Good
  <2>2. \A r \in NewStores(todo["pipeline"]) : Triple(todo["pipeline"][r].row) \in NamesOf(stores)
    BY <1>1, <1>4 DEF Made
  <2> QED  BY <1>1, <1>2, <1>4, <2>1, <2>2
<1>5. Kept' => MadeOk(NamesOf(stores), Range(aliases))
  BY <1>1 DEF Made
<1> QED
  BY <1>1, <1>3, <1>4, <1>5 DEF Made

\* An actor's own step makes none of the names that are made.
LEMMA MadeGoesOn ==
  ASSUME Shape, Current, Named(AllNames, AllItems, begun), Made, NEW a \in Actors, Goes(a)
  PROVE  Made'
<1> SUFFICES ASSUME Kept' PROVE Made'
  BY DEF Made
<1>1. Kept /\ \A b \in Actors : b # a => todo'[b] = todo[b]
  BY AloneBefore DEF Goes, Rests
<1> DEFINE N == NamesOf(stores)
           T == Range(aliases)
           N2 == NamesOf(stores')
           T2 == Range(aliases')
<1>2. /\ MadeOk(N, T) /\ FreshNames(todo["bulk"], N, T)
      /\ \A p \in NewStores(todo["pipeline"]) : Triple(todo["pipeline"][p].row) \in N
  BY <1>1 DEF Made
<1>3. Grown(a)
  BY <1>1, FilesGrow
<1>4. N \subseteq N2 /\ T \subseteq T2
  BY <1>3 DEF Grown
<1>5. "bulk" \in Actors /\ "pipeline" \in Actors
  BY DEF Actors
<1>6. IsSeq(todo[a]) /\ OpsOk(a, todo[a]) /\ IsSeq(todo["pipeline"]) /\ IsSeq(todo["bulk"])
  BY <1>5 DEF Shape, ShapeOf
<1>7. \A n \in N2 \ N :
        /\ todo[a] # <<>> /\ todo'[a] = Tail(todo[a]) /\ N2 = N \cup NamesIn(todo[a], 1) /\ n = Triple(todo[a][1].row)
        /\ todo[a][1].op = "store" /\ 1 \in NewStores(todo[a]) /\ NamesIn(todo[a], 1) = {n}
  <2>1. ASSUME NEW n \in N2 \ N
        PROVE  todo[a] # <<>> /\ todo'[a] = Tail(todo[a]) /\ N2 = N \cup NamesIn(todo[a], 1)
    BY <1>3, <2>1 DEF Grown
  <2>2. ASSUME todo[a] # <<>>
        PROVE  NamesIn(todo[a], 1) = (IF todo[a][1].op = "store" THEN {Triple(todo[a][1].row)} ELSE {}) /\ 1 \in 1 .. Len(todo[a])
    BY <1>6, <2>2, FirstBrings, Rest
  <2> QED  BY <2>1, <2>2 DEF NewStores
<1>8. ASSUME NEW n \in N2 \ N, n[3] = "bulk" PROVE a = "bulk"
  <2>1. todo[a][1].op = "store" /\ n[3] = todo[a][1].row.by /\ 1 \in 1 .. Len(todo[a]) /\ 1 \in NewStores(todo[a])
    BY <1>7, <1>8, TripleParts DEF NewStores
  <2>2. MayWrite(a, todo[a][1])
    BY <1>6, <2>1 DEF OpsOk
  <2>3. a # "pipeline"
    <3>1. n = Triple(todo[a][1].row)
      BY <1>7, <1>8
    <3> QED  BY <1>2, <1>8, <2>1, <3>1
  <2> QED  BY <1>8, <2>1, <2>2, <2>3 DEF MayWrite
<1>9. MadeOk(N2, T2)
  <2>1. CASE N2 = N
    <3>1. \A f : Other(f, N, T) => Other(f, N, T2)
      BY <1>4, OtherGrows
    <3> QED  BY <1>2, <2>1, <3>1 DEF MadeOk
  <2>2. CASE N2 # N
    <3>1. PICK n \in N2 \ N : TRUE
      BY <1>4, <2>2
    <3>2. N2 = N \cup {n}
      BY <1>7, <3>1
    <3>3. n[3] = "bulk" => \A m \in N : m[3] = "bulk" /\ Whole(n[2]) = Whole(m[2]) => Other(Whole(m[2]), N, T)
      <4>1. ASSUME n[3] = "bulk", NEW m \in N, m[3] = "bulk", Whole(n[2]) = Whole(m[2]) PROVE Other(Whole(m[2]), N, T)
        <5>1. a = "bulk" /\ 1 \in NewStores(todo["bulk"]) /\ n = Triple(todo["bulk"][1].row)
          BY <1>7, <1>8, <3>1, <4>1
        <5>2. Whole(todo["bulk"][1].row.name) = Whole(m[2])
          BY <4>1, <5>1, TripleParts
        <5> QED  BY <1>2, <4>1, <5>1, <5>2 DEF FreshNames
      <4> QED  BY <4>1
    <3>4. MadeOk(N \cup {n}, T2)
      BY <1>2, <1>4, <3>3, MadeGrows
    <3> QED  BY <3>2, <3>4
  <2> QED  BY <2>1, <2>2
<1>10. FreshNames(todo'["bulk"], N2, T2)
  <2>1. CASE todo'["bulk"] = <<>>
    BY <2>1, NoWrites
  <2>2. CASE todo'["bulk"] = todo["bulk"]
    <3>1. \A n \in N2 \ N : n[3] # "bulk"
      <4>1. ASSUME NEW n \in N2 \ N, n[3] = "bulk" PROVE FALSE
        <5>1. a = "bulk" /\ todo[a] # <<>> /\ todo'[a] = Tail(todo[a])
          BY <1>7, <1>8, <4>1
        <5>2. Len(todo[a]) \in Nat \ {0} /\ Len(Tail(todo[a])) = Len(todo[a]) - 1
          BY <1>6, <5>1, SeqTail
        <5>3. Tail(todo[a]) = todo[a]
          BY <2>2, <5>1
        <5>4. Len(Tail(todo[a])) = Len(todo[a])
          BY <5>3
        <5> QED  BY <5>2, <5>4
      <4> QED  BY <4>1
    <3>2. FreshNames(todo["bulk"], N2, T2)
      BY <1>2, <1>4, <3>1, FreshGrows
    <3> QED  BY <2>2, <3>2
  <2>3. CASE a = "bulk" /\ todo[a] # <<>> /\ todo'[a] = Tail(todo[a]) /\ N2 = N \cup NamesIn(todo[a], 1)
    <3>1. FreshNames(Tail(todo["bulk"]), N \cup NamesIn(todo["bulk"], 1), T2)
      BY <1>2, <1>4, <1>6, <2>3, FreshTail
    <3> QED  BY <2>3, <3>1
  <2> QED  BY <1>1, <1>3, <1>5, <2>1, <2>2, <2>3 DEF Grown
<1>11. ASSUME NEW p \in NewStores(todo'["pipeline"]) PROVE Triple(todo'["pipeline"][p].row) \in N2
  <2>1. CASE todo'["pipeline"] = <<>>
    BY <1>11, <2>1, NoWrites
  <2>2. CASE todo'["pipeline"] = todo["pipeline"]
    BY <1>2, <1>4, <1>11, <2>2
  <2>3. CASE todo["pipeline"] # <<>> /\ todo'["pipeline"] = Tail(todo["pipeline"])
    <3>1. \A r \in 1 .. Len(Tail(todo["pipeline"])) :
            r + 1 \in 1 .. Len(todo["pipeline"]) /\ Tail(todo["pipeline"])[r] = todo["pipeline"][r + 1]
      BY <1>6, <2>3, Rest
    <3>2. p + 1 \in NewStores(todo["pipeline"]) /\ todo'["pipeline"][p] = todo["pipeline"][p + 1]
      BY <1>11, <2>3, <3>1 DEF NewStores
    <3> QED  BY <1>2, <1>4, <3>2
  <2> QED  BY <1>1, <1>3, <1>5, <2>1, <2>2, <2>3 DEF Grown
<1> HIDE DEF N2, T2
<1> QED
  BY <1>9, <1>10, <1>11 DEF Made, N2, T2

-----------------------------------------------------------------------------
(* No name waits twice.                                                    *)

\* A command begins: it adds nobody who waits.
LEMMA WaitingBegins ==
  ASSUME Shape, Waiting, NEW a \in Actors, NEW ws, Good(a, ws), Started(a, ws)
  PROVE  Waiting'
<1>1. /\ queue' = queue /\ todo'[a] = ws /\ (Alone' => Alone)
      /\ \A b \in Actors : b # a => todo'[b] = todo[b]
  BY BeginsWith
<1>2. FreshAdds(ws, queue)
  BY DEF Good
<1> QED
  BY <1>1, <1>2 DEF Waiting

\* The items of a new queue that wait are of those that waited.
LEMMA FewerWait ==
  ASSUME NEW q, WaitOk(q), NEW q2,
         \A k \in 1 .. Len(q2) : Waits(q2[k]) => k \in 1 .. Len(q) /\ q2[k] = q[k]
  PROVE  /\ WaitOk(q2)
         /\ \A ws : FreshAdds(ws, q) => FreshAdds(ws, q2)
<1>1. WaitOk(q2)
  BY DEF WaitOk
<1>2. ASSUME NEW ws, FreshAdds(ws, q) PROVE FreshAdds(ws, q2)
  BY <1>2 DEF FreshAdds
<1> QED
  BY <1>1, <1>2

\* The rest of a list adds no more than the list.
LEMMA FreshAddsTail ==
  ASSUME NEW ws, IsSeq(ws), ws # <<>>, NEW q, FreshAdds(ws, q)
  PROVE  /\ FreshAdds(Tail(ws), q)
         /\ ws[1].op = "add" => FreshAdds(Tail(ws), Append(q, ws[1].row)) \/ ~IsSeq(q)
<1> DEFINE t == Tail(ws)
<1>1. /\ 1 \in 1 .. Len(ws)
      /\ \A p \in 1 .. Len(t) : p + 1 \in 1 .. Len(ws) /\ p + 1 # 1 /\ t[p] = ws[p + 1]
      /\ \A p, r \in 1 .. Len(t) : p + 1 = r + 1 => p = r
  BY Rest
<1> HIDE DEF t
<1>2. \A p \in Added(t) : p \in 1 .. Len(t) /\ p + 1 \in Added(ws) /\ t[p] = ws[p + 1] /\ p + 1 # 1
  BY <1>1 DEF Added
<1>3. \A p, r \in Added(t) : Records[t[p].row.raw].text = Records[t[r].row.raw].text => p = r
  <2>1. ASSUME NEW p \in Added(t), NEW r \in Added(t), Records[t[p].row.raw].text = Records[t[r].row.raw].text
        PROVE  p = r
    <3>1. p + 1 = r + 1
      BY <1>2, <2>1 DEF FreshAdds
    <3> QED  BY <1>1, <1>2, <3>1
  <2> QED  BY <2>1
<1>4. \A p \in Added(t), k \in 1 .. Len(q) : Waits(q[k]) => Records[t[p].row.raw].text # Records[q[k].raw].text
  BY <1>2 DEF FreshAdds
<1>5. FreshAdds(t, q)
  BY <1>3, <1>4 DEF FreshAdds
<1>6. ASSUME ws[1].op = "add", IsSeq(q) PROVE FreshAdds(t, Append(q, ws[1].row))
  <2> DEFINE more == Append(q, ws[1].row)
  <2>1. Len(q) \in Nat /\ Len(more) = Len(q) + 1 /\ more[Len(q) + 1] = ws[1].row /\ \A k \in 1 .. Len(q) : more[k] = q[k]
    BY <1>6, SeqAppend, SeqFacts
  <2> HIDE DEF more
  <2>2. ASSUME NEW p \in Added(t), NEW k \in 1 .. Len(more), Waits(more[k])
        PROVE  Records[t[p].row.raw].text # Records[more[k].raw].text
    <3>1. CASE k \in 1 .. Len(q)
      BY <1>4, <2>1, <2>2, <3>1
    <3>2. CASE k = Len(q) + 1
      <4>1. more[k] = ws[1].row /\ 1 \in Added(ws)
        BY <1>1, <1>6, <2>1, <2>2, <3>2 DEF Waits, Added
      <4>2. Records[ws[p + 1].row.raw].text # Records[ws[1].row.raw].text
        BY <1>2, <4>1 DEF FreshAdds
      <4> QED  BY <1>2, <4>1, <4>2
    <3>3. k \in 1 .. Len(q) \/ k = Len(q) + 1
      BY <2>1
    <3> QED  BY <3>1, <3>2, <3>3
  <2>3. FreshAdds(t, more)
    BY <1>3, <2>2 DEF FreshAdds
  <2> QED  BY <2>3 DEF more
<1> QED
  BY <1>5, <1>6 DEF t

\* A decision leaves one fewer waiting, and an item added waits alone.
LEMMA WaitingGoesOn ==
  ASSUME Shape, Current, Waiting, NEW a \in Actors, Goes(a), todo[a] # <<>>
  PROVE  Waiting'
<1> SUFFICES ASSUME Alone' PROVE Waiting'
  BY DEF Waiting
<1>1. Alone /\ \A b \in Actors : b # a => todo'[b] = todo[b]
  BY AloneBefore DEF Goes, Rests
<1>2. WaitOk(queue) /\ FreshAdds(todo[a], queue)
  BY <1>1 DEF Waiting
<1>3. \A b \in Actors : b # a => todo'[b] = <<>>
  BY <1>1 DEF Current
<1>4. IsSeq(todo[a]) /\ AreItems(queue) /\ IsSeq(queue)
  BY DEF Shape, ShapeOf, AreItems
<1>5. CASE ReadBy(a) \/ DeadBy(a)
  <2>1. queue' = queue /\ (todo'[a] = todo[a] \/ todo'[a] = <<>>)
    BY <1>5 DEF ReadBy, DeadBy, fileVars
  <2>2. \A b \in Actors : FreshAdds(todo'[b], queue)
    BY <1>2, <1>3, <2>1, NoWrites
  <2> QED  BY <1>2, <2>1, <2>2 DEF Waiting
<1>6. ASSUME NEW w, NEW file, WrittenBy(a, w, file) PROVE Waiting'
  <2>1. w = todo[a][1] /\ todo'[a] = Tail(todo[a]) /\ MayWrite(a, w) /\ file = FileOf(w)
    <3>1. Alone => file = FileOf(w)
      BY <1>6, KeptFile
    <3> QED  BY <1>1, <1>6, <3>1 DEF WrittenBy
  <2>2. FreshAdds(Tail(todo[a]), queue)
    BY <1>2, <1>4, FreshAddsTail
  <2>3. WaitOk(queue') /\ FreshAdds(Tail(todo[a]), queue')
    <3>1. CASE w.op \notin {"item", "add"}
      <4>1. queue' = queue
        BY <1>6, <3>1, FilesWritten
      <4> QED  BY <1>2, <2>2, <4>1
    <3>2. CASE w.op = "item"
      <4>1. file = queue /\ w.row.status # "pending"
        BY <2>1, <3>2 DEF FileOf, MayWrite
      <4>2. queue' = Put(queue, w.row) \/ queue' = queue
        BY <1>6, <3>2, <4>1, FilesWritten
      <4>3. \A k \in 1 .. Len(queue') : Waits(queue'[k]) => k \in 1 .. Len(queue) /\ queue'[k] = queue[k]
        <5>1. CASE queue' = queue
          BY <5>1
        <5>2. CASE queue' = Put(queue, w.row)
          <6>1. PutIn(queue', queue, w.row)
            BY <1>4, <5>2, PutRows
          <6>2. ~Waits(w.row) /\ Len(queue) \in Nat
            BY <1>4, <4>1, SeqFacts DEF Waits
          <6>3. \A k \in 1 .. Len(queue') : (k \in 1 .. Len(queue) /\ queue'[k] = queue[k]) \/ queue'[k] = w.row
            BY <6>1, <6>2 DEF PutIn
          <6> QED  BY <6>2, <6>3
        <5> QED  BY <4>2, <5>1, <5>2
      <4> QED  BY <1>2, <2>2, <4>3, FewerWait
    <3>3. CASE w.op = "add"
      <4>1. queue' = Append(queue, w.row)
        <5>1. file = queue
          BY <2>1, <3>3 DEF FileOf
        <5> QED  BY <1>6, <3>3, <5>1, FilesWritten
      <4>2. FreshAdds(Tail(todo[a]), queue')
        BY <1>2, <1>4, <2>1, <3>3, <4>1, FreshAddsTail
      <4>3. Len(queue) \in Nat /\ Len(queue') = Len(queue) + 1 /\ queue'[Len(queue) + 1] = w.row /\ \A k \in 1 .. Len(queue) : queue'[k] = queue[k]
        BY <1>4, <4>1, SeqAppend, SeqFacts
      <4>4. \A k \in 1 .. Len(queue) : Waits(queue[k]) /\ Waits(w.row) => Records[queue[k].raw].text # Records[w.row.raw].text
        <5>1. ASSUME Waits(w.row) PROVE 1 \in Added(todo[a])
          <6>1. 1 \in 1 .. Len(todo[a])
            BY <1>4, Rest
          <6> QED  BY <2>1, <3>3, <5>1, <6>1 DEF Waits, Added
        <5> QED  BY <1>2, <2>1, <5>1 DEF FreshAdds
      <4>5. ASSUME NEW j \in 1 .. Len(queue'), NEW k \in 1 .. Len(queue'), Waits(queue'[j]), Waits(queue'[k]),
                   Records[queue'[j].raw].text = Records[queue'[k].raw].text
            PROVE  j = k
        <5>1. (j \in 1 .. Len(queue) \/ j = Len(queue) + 1) /\ (k \in 1 .. Len(queue) \/ k = Len(queue) + 1)
          BY <4>3
        <5>2. CASE j \in 1 .. Len(queue) /\ k \in 1 .. Len(queue)
          BY <1>2, <4>3, <4>5, <5>2 DEF WaitOk
        <5>3. CASE j \in 1 .. Len(queue) /\ k = Len(queue) + 1
          BY <4>3, <4>4, <4>5, <5>3
        <5>4. CASE k \in 1 .. Len(queue) /\ j = Len(queue) + 1
          BY <4>3, <4>4, <4>5, <5>4
        <5> QED  BY <5>1, <5>2, <5>3, <5>4
      <4>6. WaitOk(queue')
        BY <4>5 DEF WaitOk
      <4> QED  BY <4>2, <4>6
    <3> QED  BY <3>1, <3>2, <3>3
  <2>4. \A b \in Actors : FreshAdds(todo'[b], queue')
    BY <1>3, <2>1, <2>3, NoWrites
  <2> QED  BY <2>3, <2>4 DEF Waiting
<1> QED
  BY <1>5, <1>6 DEF Goes

-----------------------------------------------------------------------------
(* The entries made by hand.                                               *)

\* A command begins, with the stores of hand-made members as it found them.
LEMMA EnteredBegins ==
  ASSUME Shape, Entered, NEW a \in Actors, NEW ws, Good(a, ws), Started(a, ws)
  PROVE  Entered'
<1>1. /\ groups' = groups /\ todo'[a] = ws /\ met \subseteq met'
      /\ \A b \in Actors : b # a => todo'[b] = todo[b]
  BY BeginsWith
<1>3. \A b \in Actors : FreshGroups(todo'[b], groups)
  BY <1>1 DEF Good, Entered
<1>4. HandAs(groups)'
  BY <1>1 DEF Entered
<1>5. \A b \in Actors : FreshGroups(todo[b], groups)'
  BY <1>1, <1>3 DEF FreshGroups
<1> QED
  BY <1>4, <1>5 DEF Entered

\* The rest of a list ends as the list does.
LEMMA GroupsTail ==
  ASSUME NEW ws, IsSeq(ws), ws # <<>>, NEW gs, FreshGroups(ws, gs)
  PROVE  FreshGroups(Tail(ws), gs) /\ (ws[1].op = "groups" => Tail(ws) = <<>>)
<1> DEFINE t == Tail(ws)
<1>1. /\ 1 \in 1 .. Len(ws)
      /\ \A p \in 1 .. Len(t) : p + 1 \in 1 .. Len(ws) /\ t[p] = ws[p + 1] /\ (p + 1 = Len(ws) => p = Len(t))
  BY Rest
<1>2. IsSeq(t) /\ Len(t) = Len(ws) - 1
  BY SeqTail
<1>3. (t = <<>> <=> Len(t) = 0) /\ Len(t) \in Nat
  BY <1>2, SeqFacts
<1> HIDE DEF t
<1>4. ws[1].op = "groups" => t = <<>>
  <2>1. ASSUME ws[1].op = "groups" PROVE Len(ws) = 1
    BY <1>1, <2>1 DEF FreshGroups
  <2>2. ws[1].op = "groups" => Len(t) = 0
    BY <1>2, <2>1
  <2> QED  BY <1>3, <2>2
<1>5. FreshGroups(t, gs)
  BY <1>1 DEF FreshGroups
<1> QED
  BY <1>4, <1>5 DEF t

\* The groups are written by a sync that saw no other write them, or by one that met it.
LEMMA EnteredGoesOn ==
  ASSUME Shape, Current, Entered, NEW a \in Actors, Goes(a), todo[a] # <<>>
  PROVE  Entered' /\ (groups' # groups => HandAs(groups') /\ ("syncs" \notin met => KeepsStores(groups, groups')))
<1>1. met' = met /\ \A b \in Actors : b # a => todo'[b] = todo[b]
  BY DEF Goes, Rests
<1>2. HandAs(groups) /\ \A b \in Actors : FreshGroups(todo[b], groups)
  BY DEF Entered
<1>3. IsSeq(todo[a]) /\ OpsOk(a, todo[a])
  BY DEF Shape, ShapeOf
<1>4. FreshGroups(todo'[a], groups)
  <2>1. todo'[a] = todo[a] \/ todo'[a] = <<>> \/ todo'[a] = Tail(todo[a])
    BY DEF Goes, ReadBy, DeadBy, WrittenBy
  <2>2. FreshGroups(Tail(todo[a]), groups)
    BY <1>2, <1>3, GroupsTail
  <2> QED  BY <1>2, <2>1, <2>2, NoWrites
<1>5. CASE groups' = groups
  <2>1. \A b \in Actors : FreshGroups(todo'[b], groups)
    BY <1>1, <1>2, <1>4
  <2>2. \A b \in Actors : FreshGroups(todo[b], groups)'
    BY <1>1, <1>5, <2>1 DEF FreshGroups
  <2> QED  BY <1>2, <1>5, <2>2 DEF Entered
<1>6. ASSUME NEW w, NEW file, WrittenBy(a, w, file), groups' # groups
      PROVE  Entered' /\ HandAs(groups') /\ ("syncs" \notin met => KeepsStores(groups, groups'))
  <2>1. w.op = "groups" /\ groups' = w.row
    BY <1>6, FilesWritten
  <2>2. w = todo[a][1] /\ todo'[a] = Tail(todo[a]) /\ w.op \in Ops(a) /\ 1 \in 1 .. Len(todo[a])
    BY <1>3, <1>6, Rest DEF WrittenBy, MayWrite
  <2>3. HandAs(w.row) /\ ("syncs" \notin met => KeepsStores(groups, w.row))
    BY <1>2, <2>1, <2>2 DEF FreshGroups
  <2>4. todo'[a] = <<>>
    BY <1>2, <1>3, <2>1, <2>2, GroupsTail
  <2>5. a \in Syncs
    BY <2>1, <2>2 DEF Ops, Actors, Syncs
  <2>6. ASSUME NEW b \in Actors PROVE FreshGroups(todo'[b], groups')
    <3>1. CASE b = a
      BY <2>4, <3>1, NoWrites
    <3>2. CASE b # a
      <4>1. FreshGroups(todo[b], groups) /\ todo'[b] = todo[b] /\ OpsOk(b, todo[b])
        BY <1>1, <1>2, <3>2 DEF Shape, ShapeOf
      <4>2. ASSUME NEW p \in 1 .. Len(todo[b]), todo[b][p].op = "groups" PROVE "syncs" \in met
        <5>1. todo[b][p].op \in Ops(b)
          BY <4>1 DEF OpsOk, MayWrite
        <5>2. b \in Syncs
          BY <4>2, <5>1 DEF Ops, Actors, Syncs
        <5>3. todo[b] # <<>>
          <6>1. Len(<<>>) = 0
            BY NoPlaces
          <6> QED  BY <6>1
        <5>4. todo["hot"] # <<>> /\ todo["swish"] # <<>>
          BY <2>5, <3>2, <5>2, <5>3 DEF Syncs
        <5> QED  BY <5>4 DEF Current
      <4> QED  BY <4>1, <4>2 DEF FreshGroups
    <3> QED  BY <3>1, <3>2
  <2>7. \A b \in Actors : FreshGroups(todo[b], groups)'
    BY <1>1, <2>6 DEF FreshGroups
  <2>8. HandAs(groups)'
    BY <2>1, <2>3
  <2> QED  BY <2>1, <2>3, <2>7, <2>8 DEF Entered
<1>7. groups' = groups \/ \E w, file : WrittenBy(a, w, file)
  BY DEF Goes, ReadBy, DeadBy, fileVars
<1> QED
  BY <1>2, <1>5, <1>6, <1>7

-----------------------------------------------------------------------------
(* Writes put together, and what they give to those after them.            *)

\* The best candidates of items are in the catalogue while it loses nothing.
BestOk(w) ==
  Kept /\ w.op \in {"item", "add"} => w.row.best = None \/ \E n \in NamesOf(stores) : n[1] = w.row.best
May(a, w) == MayWrite(a, w) /\ BestOk(w)
MayAll(a, ws) == \A p \in 1 .. Len(ws) : May(a, ws[p])

\* Some writes of an actor find what they rely on, and give at least N2, T2 and D2.
Sound(a, ws, N2, T2, D2, N, T, D) ==
  /\ IsSeq(ws) /\ MayAll(a, ws) /\ Backed(ws, N, T, D)
  /\ N2 \subseteq NamesIn(ws, Len(ws)) /\ T2 \subseteq TaughtIn(ws, Len(ws)) /\ D2 \subseteq DealsIn(ws, Len(ws))

\* What a sequence gives the one after it gives as well.
LEMMA GivenByBoth ==
  ASSUME NEW s, IsSeq(s), NEW t, IsSeq(t)
  PROVE  /\ NamesIn(s, Len(s)) \cup NamesIn(t, Len(t)) \subseteq NamesIn(s \o t, Len(s \o t))
         /\ TaughtIn(s, Len(s)) \cup TaughtIn(t, Len(t)) \subseteq TaughtIn(s \o t, Len(s \o t))
         /\ DealsIn(s, Len(s)) \cup DealsIn(t, Len(t)) \subseteq DealsIn(s \o t, Len(s \o t))
<1> DEFINE u == s \o t
<1>1. Len(s) \in Nat /\ Len(t) \in Nat /\ Len(u) = Len(s) + Len(t)
  BY SeqConcat, SeqFacts
<1>2. /\ \A i \in 1 .. Len(s) : u[i] = s[i]
      /\ \A i \in 1 .. Len(t) : u[Len(s) + i] = t[i]
  BY SeqConcat
<1> HIDE DEF u
<1>3. /\ \A i \in 1 .. Len(s) : i \in 1 .. Len(u)
      /\ \A i \in 1 .. Len(t) : Len(s) + i \in 1 .. Len(u)
  BY <1>1, Z3
\* A write of either is one of both.
<1>4. /\ \A i \in 1 .. Len(s) : \E j \in 1 .. Len(u) : u[j] = s[i]
      /\ \A i \in 1 .. Len(t) : \E j \in 1 .. Len(u) : u[j] = t[i]
  BY <1>2, <1>3
<1>5. NamesIn(s, Len(s)) \cup NamesIn(t, Len(t)) \subseteq NamesIn(u, Len(u))
  BY <1>4 DEF NamesIn
<1>6. TaughtIn(s, Len(s)) \cup TaughtIn(t, Len(t)) \subseteq TaughtIn(u, Len(u))
  BY <1>4 DEF TaughtIn
<1>7. DealsIn(s, Len(s)) \cup DealsIn(t, Len(t)) \subseteq DealsIn(u, Len(u))
  BY <1>4 DEF DealsIn
<1> QED
  BY <1>5, <1>6, <1>7 DEF u

\* Writes that rely on no more than what those before them give.
LEMMA SoundThen ==
  ASSUME NEW N, NEW T, NEW D, NEW a,
         NEW s, NEW N2, NEW T2, NEW D2, Sound(a, s, N2, T2, D2, N, T, D),
         NEW t, IsSeq(t), MayAll(a, t), \A p \in 1 .. Len(t) : Right(t[p], N \cup N2, T \cup T2, D \cup D2)
  PROVE  Sound(a, s \o t, N2 \cup NamesIn(t, Len(t)), T2 \cup TaughtIn(t, Len(t)), D2 \cup DealsIn(t, Len(t)), N, T, D)
<1> DEFINE u == s \o t
<1>1. /\ IsSeq(s) /\ Len(s) \in Nat /\ Len(t) \in Nat /\ IsSeq(u) /\ Len(u) = Len(s) + Len(t)
      /\ \A i \in 1 .. Len(s) : u[i] = s[i]
  BY SeqConcat, SeqFacts DEF Sound
<1>2. \A p \in 1 .. Len(u) :
        \/ p \in 1 .. Len(s) /\ u[p] = s[p]
        \/ \E i \in 1 .. Len(t) : p = Len(s) + i /\ u[p] = t[i]
  BY <1>1, PlacesOfConcat, Z3
<1>6. /\ N2 \cup NamesIn(t, Len(t)) \subseteq NamesIn(u, Len(u))
      /\ T2 \cup TaughtIn(t, Len(t)) \subseteq TaughtIn(u, Len(u))
      /\ D2 \cup DealsIn(t, Len(t)) \subseteq DealsIn(u, Len(u))
  BY <1>1, GivenByBoth DEF Sound
<1> HIDE DEF u
<1>3. MayAll(a, u)
  BY <1>2 DEF MayAll, Sound
<1>4. ASSUME NEW p \in 1 .. Len(u)
      PROVE  Right(u[p], N \cup NamesIn(u, p - 1), T \cup TaughtIn(u, p - 1), D \cup DealsIn(u, p - 1))
  <2>1. CASE p \in 1 .. Len(s) /\ u[p] = s[p]
    <3>1. \A i \in 1 .. p - 1 : u[i] = s[i]
      BY <1>1, <2>1
    <3>2. /\ NamesIn(s, p - 1) \subseteq NamesIn(u, p - 1) /\ TaughtIn(s, p - 1) \subseteq TaughtIn(u, p - 1)
          /\ DealsIn(s, p - 1) \subseteq DealsIn(u, p - 1)
      BY <3>1 DEF NamesIn, TaughtIn, DealsIn
    <3>3. Right(s[p], N \cup NamesIn(s, p - 1), T \cup TaughtIn(s, p - 1), D \cup DealsIn(s, p - 1))
      BY <2>1 DEF Sound, Backed
    <3>4. /\ N \cup NamesIn(s, p - 1) \subseteq N \cup NamesIn(u, p - 1)
          /\ T \cup TaughtIn(s, p - 1) \subseteq T \cup TaughtIn(u, p - 1)
          /\ D \cup DealsIn(s, p - 1) \subseteq D \cup DealsIn(u, p - 1)
      BY <3>2
    <3> QED  BY <2>1, <3>3, <3>4, RightGrows
  <2>2. CASE \E i \in 1 .. Len(t) : p = Len(s) + i /\ u[p] = t[i]
    <3>1. PICK i \in 1 .. Len(t) : p = Len(s) + i /\ u[p] = t[i]
      BY <2>2
    <3>2. \A j \in 1 .. Len(s) : j \in 1 .. p - 1 /\ u[j] = s[j]
      BY <1>1, <3>1
    <3>3. /\ NamesIn(s, Len(s)) \subseteq NamesIn(u, p - 1) /\ TaughtIn(s, Len(s)) \subseteq TaughtIn(u, p - 1)
          /\ DealsIn(s, Len(s)) \subseteq DealsIn(u, p - 1)
      BY <3>2 DEF NamesIn, TaughtIn, DealsIn
    <3>4. /\ N \cup N2 \subseteq N \cup NamesIn(u, p - 1) /\ T \cup T2 \subseteq T \cup TaughtIn(u, p - 1)
          /\ D \cup D2 \subseteq D \cup DealsIn(u, p - 1)
      BY <3>3 DEF Sound
    <3>5. Right(t[i], N \cup N2, T \cup T2, D \cup D2)
      OBVIOUS
    <3> QED  BY <3>1, <3>4, <3>5, RightGrows
  <2> QED  BY <1>2, <2>1, <2>2
<1>5. Backed(u, N, T, D)
  BY <1>4 DEF Backed
<1> QED
  BY <1>1, <1>3, <1>5, <1>6 DEF Sound, u

\* No writes are sound.
LEMMA SoundNothing ==
  ASSUME NEW N, NEW T, NEW D, NEW a
  PROVE  Sound(a, <<>>, {}, {}, {}, N, T, D)
<1> PICK ws : ws = <<>>
  OBVIOUS
<1>0. IsSeq(ws) /\ Len(ws) = 0 /\ Backed(ws, N, T, D)
  BY NoWrites, NoPlaces
<1>1. IsSeq(ws) /\ MayAll(a, ws) /\ Backed(ws, N, T, D)
  BY <1>0 DEF MayAll
<1> QED
  BY <1>1 DEF Sound

\* A single write.
LEMMA SingleWrite ==
  ASSUME NEW w
  PROVE  /\ IsSeq(<<w>>) /\ Len(<<w>>) = 1 /\ <<w>>[1] = w /\ \A p \in 1 .. Len(<<w>>) : <<w>>[p] = w
         /\ w.op = "store" => NamesIn(<<w>>, Len(<<w>>)) = {Triple(w.row)}
         /\ w.op = "alias" => TaughtIn(<<w>>, Len(<<w>>)) = {w.row}
         /\ w.op = "deal" => DealsIn(<<w>>, Len(<<w>>)) = {w.row}
<1>1. <<w>> \in Seq({w}) /\ Len(<<w>>) = 1 /\ <<w>>[1] = w
  OBVIOUS
<1>2. PICK s : s = <<w>>
  OBVIOUS
<1>3. IsSeq(s)
  BY <1>1, <1>2, SeqIn
<1>4. \A p \in 1 .. Len(s) : s[p] = w
  BY <1>1, <1>2
<1>5. 1 \in 1 .. Len(s)
  BY <1>1, <1>2
<1>6. w.op = "store" => NamesIn(s, Len(s)) = {Triple(w.row)}
  BY <1>4, <1>5 DEF NamesIn
<1>7. w.op = "alias" => TaughtIn(s, Len(s)) = {w.row}
  BY <1>4, <1>5 DEF TaughtIn
<1>8. w.op = "deal" => DealsIn(s, Len(s)) = {w.row}
  BY <1>4, <1>5 DEF DealsIn
<1> QED
  BY <1>1, <1>2, <1>3, <1>4, <1>6, <1>7, <1>8

\* One write more, right by what the files and the writes before it have.
LEMMA SoundNext ==
  ASSUME NEW N, NEW T, NEW D, NEW a,
         NEW s, NEW N2, NEW T2, NEW D2, Sound(a, s, N2, T2, D2, N, T, D),
         NEW w, May(a, w), Right(w, N \cup N2, T \cup T2, D \cup D2)
  PROVE  /\ Sound(a, s \o <<w>>, N2, T2, D2, N, T, D)
         /\ w.op = "store" => Sound(a, s \o <<w>>, N2 \cup {Triple(w.row)}, T2, D2, N, T, D)
         /\ w.op = "alias" => Sound(a, s \o <<w>>, N2, T2 \cup {w.row}, D2, N, T, D)
         /\ w.op = "deal" => Sound(a, s \o <<w>>, N2, T2, D2 \cup {w.row}, N, T, D)
<1> PICK t : t = <<w>>
  OBVIOUS
<1>1. /\ IsSeq(t) /\ \A p \in 1 .. Len(t) : t[p] = w /\ Right(t[p], N \cup N2, T \cup T2, D \cup D2)
      /\ w.op = "store" => NamesIn(t, Len(t)) = {Triple(w.row)}
      /\ w.op = "alias" => TaughtIn(t, Len(t)) = {w.row}
      /\ w.op = "deal" => DealsIn(t, Len(t)) = {w.row}
  BY SingleWrite
<1>2. MayAll(a, t)
  BY <1>1 DEF MayAll
<1>3. Sound(a, s \o t, N2 \cup NamesIn(t, Len(t)), T2 \cup TaughtIn(t, Len(t)), D2 \cup DealsIn(t, Len(t)), N, T, D)
  BY <1>1, <1>2, SoundThen
<1>4. \A N3, T3, D3 : N3 \subseteq N2 \cup NamesIn(t, Len(t)) /\ T3 \subseteq T2 \cup TaughtIn(t, Len(t))
        /\ D3 \subseteq D2 \cup DealsIn(t, Len(t)) => Sound(a, s \o t, N3, T3, D3, N, T, D)
  BY <1>3 DEF Sound
<1> QED
  BY <1>1, <1>4

\* The stores some writes found, each once.
Founding(ws, R) ==
  /\ \A p \in NewStores(ws) : ws[p].row \in R
  /\ \A p, r \in NewStores(ws) : ws[p].row.id = ws[r].row.id => p = r

\* Writes after writes found the stores of both, if these have different ids.
LEMMA FoundingBoth ==
  ASSUME NEW s, IsSeq(s), NEW R, Founding(s, R), NEW t, IsSeq(t), NEW R2, Founding(t, R2),
         \A x \in R, y \in R2 : x.id # y.id
  PROVE  Founding(s \o t, R \cup R2)
<1> DEFINE u == s \o t
<1>1. \A p \in 1 .. Len(u) :
        \/ p \in 1 .. Len(s) /\ u[p] = s[p]
        \/ \E i \in 1 .. Len(t) : p = Len(s) + i /\ u[p] = t[i]
  BY PlacesOfConcat, Z3
<1> HIDE DEF u
<1>2. ASSUME NEW p \in NewStores(u)
      PROVE  \/ p \in NewStores(s) /\ u[p] = s[p]
             \/ \E i \in NewStores(t) : p = Len(s) + i /\ u[p] = t[i]
  BY <1>1 DEF NewStores
<1>3. \A p \in NewStores(u) : u[p].row \in R \cup R2
  BY <1>2 DEF Founding
<1>4. ASSUME NEW p \in NewStores(u), NEW r \in NewStores(u), u[p].row.id = u[r].row.id PROVE p = r
  <2>1. CASE p \in NewStores(s) /\ u[p] = s[p] /\ r \in NewStores(s) /\ u[r] = s[r]
    BY <1>4, <2>1 DEF Founding
  <2>2. ASSUME NEW i \in NewStores(t), p = Len(s) + i, u[p] = t[i], NEW j \in NewStores(t), r = Len(s) + j, u[r] = t[j]
        PROVE  p = r
    BY <1>4, <2>2 DEF Founding
  <2>3. ASSUME NEW x \in NewStores(s), NEW i \in NewStores(t) PROVE s[x].row.id # t[i].row.id
    BY DEF Founding
  <2> QED  BY <1>2, <1>4, <2>1, <2>2, <2>3
<1> QED
  BY <1>3, <1>4 DEF Founding, u

\* Writes without a store found none.
LEMMA FoundsNone ==
  ASSUME NEW ws, \A p \in 1 .. Len(ws) : ws[p].op # "store"
  PROVE  Founding(ws, {})
<1>1. NewStores(ws) = {}
  BY DEF NewStores
<1> QED
  BY <1>1 DEF Founding

\* A single write founds its store, or none.
LEMMA FoundsOne ==
  ASSUME NEW w
  PROVE  /\ Founding(<<w>>, {w.row})
         /\ w.op # "store" => Founding(<<w>>, {})
<1> PICK ws : ws = <<w>>
  OBVIOUS
<1>1. Len(ws) = 1 /\ \A p \in 1 .. Len(ws) : ws[p] = w
  BY SingleWrite
<1>2. \A p \in NewStores(ws) : p = 1 /\ ws[p] = w
  BY <1>1 DEF NewStores
<1>3. Founding(ws, {w.row})
  BY <1>2 DEF Founding
<1>4. w.op # "store" => Founding(ws, {})
  BY <1>1, FoundsNone
<1> QED
  BY <1>3, <1>4

\* A store is written, and the name of an item taught.
LEMMA FoundAndTaught ==
  ASSUME NEW N, NEW T, NEW D, NEW a \in {"operator", "bulk"}, NEW id, NEW name, NEW taught, NEW mcc
  PROVE  LET ws == <<NewStore(id, name, mcc, a), SaveAlias(id, taught)>>
         IN /\ Sound(a, ws, {<<id, name, a>>}, {[store |-> id, form |-> Whole(taught)]}, {}, N, T, D)
            /\ Founding(ws, {NewStore(id, name, mcc, a).row})
<1> DEFINE found == NewStore(id, name, mcc, a)
           learn == SaveAlias(id, taught)
<1>1. learn.op = "alias" /\ learn.row = [store |-> id, form |-> Whole(taught)] /\ May(a, learn)
  BY DEF SaveAlias, Ops, May, MayWrite, BestOk
<1>2. /\ found.op = "store" /\ found.op \in Ops(a) /\ IsStore(found.row)
      /\ found.row.id = id /\ found.row.name = name /\ found.row.by = a /\ May(a, found)
  BY DEF NewStore, SaveStore, Ops, IsStore, May, MayWrite, BestOk
<1>3. <<found, learn>> = <<found>> \o <<learn>>
  OBVIOUS
<1> HIDE DEF found, learn
<1>4. Right(found, N \cup {}, T \cup {}, D \cup {})
  BY <1>2 DEF Right
<1>5. Sound(a, <<>> \o <<found>>, {} \cup {Triple(found.row)}, {}, {}, N, T, D)
  <2>1. Sound(a, <<>>, {}, {}, {}, N, T, D)
    BY SoundNothing
  <2> QED  BY <1>2, <1>4, <2>1, SoundNext
<1>6. <<>> \o <<found>> = <<found>> /\ {} \cup {Triple(found.row)} = {<<id, name, a>>}
  BY <1>2, ConcatNothing, SingleWrite DEF Triple
<1>7. Sound(a, <<found>>, {<<id, name, a>>}, {}, {}, N, T, D)
  BY <1>5, <1>6
<1>8. Right(learn, N \cup {<<id, name, a>>}, T \cup {}, D \cup {})
  <2>1. <<id, name, a>>[1] = id /\ <<id, name, a>> \in N \cup {<<id, name, a>>} /\ learn.row.store = id
    BY <1>1
  <2>2. \E n \in N \cup {<<id, name, a>>} : n[1] = learn.row.store
    BY <2>1
  <2> QED  BY <1>1, <2>2 DEF Right
<1>9. Sound(a, <<found>> \o <<learn>>, {<<id, name, a>>}, {} \cup {learn.row}, {}, N, T, D)
  BY <1>1, <1>7, <1>8, SoundNext
<1>10. Founding(<<found>> \o <<learn>>, {found.row})
  <2>1. Founding(<<found>>, {found.row}) /\ Founding(<<learn>>, {}) /\ IsSeq(<<found>>) /\ IsSeq(<<learn>>)
    BY <1>1, FoundsOne, SingleWrite
  <2>2. Founding(<<found>> \o <<learn>>, {found.row} \cup {})
    BY <2>1, FoundingBoth
  <2>3. {found.row} \cup {} = {found.row}
    OBVIOUS
  <2> QED  BY <2>2, <2>3
<1>11. {} \cup {learn.row} = {[store |-> id, form |-> Whole(taught)]}
  BY <1>1
<1> QED
  BY <1>3, <1>9, <1>10, <1>11 DEF found, learn

-----------------------------------------------------------------------------
(* The decisions of the operator.                                          *)

\* The best candidate of an item, while the catalogue loses nothing.
BestIn(item) == Kept => item.best = None \/ \E n \in NamesOf(stores) : n[1] = item.best

\* What the files say of any store and any item.
LEMMA Stored ==
  ASSUME IInv
  PROVE  /\ IsSeq(stores) /\ IsSeq(aliases) /\ IsSeq(queue)
         /\ Len(stores) \in Nat /\ DOMAIN stores = 1 .. Len(stores)
         /\ Len(queue) \in Nat /\ DOMAIN queue = 1 .. Len(queue)
         /\ StoreIds = IdsOf(stores)
         /\ \A id \in IdsOf(stores) : \E n \in NamesOf(stores) : n[1] = id
         /\ \A n \in NamesOf(stores) : n[1] \in IdsOf(stores)
         /\ \A k \in 1 .. Len(queue) : IsItem(queue[k]) /\ queue[k].raw \in DOMAIN Records /\ BestIn(queue[k])
         /\ \A item \in hand : IsItem(item) /\ item.raw \in DOMAIN Records /\ BestIn(item)
<1>1. IsSeq(stores) /\ IsSeq(aliases) /\ IsSeq(queue) /\ AreItems(queue)
  BY DEF IInv, Shape, AreStores, AreItems
<1>2. Len(stores) \in Nat /\ DOMAIN stores = 1 .. Len(stores) /\ Len(queue) \in Nat /\ DOMAIN queue = 1 .. Len(queue)
  BY <1>1, SeqFacts
<1>3. \A id \in IdsOf(stores) : \E n \in NamesOf(stores) : n[1] = id
  <2> SUFFICES ASSUME NEW k \in DOMAIN stores PROVE \E n \in NamesOf(stores) : n[1] = stores[k].id
    BY DEF IdsOf
  <2>1. Triple(stores[k]) \in NamesOf(stores) /\ Triple(stores[k])[1] = stores[k].id
    BY TripleParts DEF NamesOf
  <2> QED  BY <2>1
<1>4. \A n \in NamesOf(stores) : n[1] \in IdsOf(stores)
  BY TripleParts DEF NamesOf, IdsOf
<1>5. StoreIds = IdsOf(stores)
  BY DEF StoreIds, IdsOf
<1>6. ASSUME NEW i \in Range(queue) \cup hand PROVE IsItem(i) /\ i.raw \in DOMAIN Records /\ BestIn(i)
  <2>1. i \in AllItems
    BY <1>6 DEF AllItems
  <2>2. IsItem(i)
    BY <1>1, <1>2, <1>6 DEF AreItems, Range, IInv, Shape
  <2>3. BestIn(i)
    BY <2>1 DEF IInv, Relied, BestIn
  <2> QED  BY <2>2, <2>3 DEF IsItem
<1>7. \A k \in 1 .. Len(queue) : queue[k] \in Range(queue)
  BY <1>2 DEF Range
<1> QED
  BY <1>1, <1>2, <1>3, <1>4, <1>5, <1>6, <1>7

\* An item may be closed onto a store once the store, the alias and the deal are before
\* it.
LEMMA Closing ==
  ASSUME NEW i, IsItem(i), BestIn(i), NEW status, status # "pending", NEW id, NEW by \in {"operator", "bulk"},
         NEW N, NEW T, NEW D, by = "bulk" => status \in Closed,
         status \in Closed =>
           /\ \E n \in N : n[1] = id /\ (by = "bulk" => Online(Whole(NameOf(i))) = Online(Whole(n[2])))
           /\ [store |-> id, form |-> Whole(NameOf(i))] \in T
           /\ by = "operator" /\ ~IsMember(i.raw) => <<i.raw, id>> \in D
  PROVE  /\ CloseItem(i, status, id, by).op = "item" /\ May(by, CloseItem(i, status, id, by))
         /\ Right(CloseItem(i, status, id, by), N, T, D)
<1> PICK w : w = CloseItem(i, status, id, by)
  OBVIOUS
<1>1. w.op = "item" /\ w.row = [i EXCEPT !.status = status, !.store = id, !.by = by]
  BY DEF CloseItem
<1>2. i = [id |-> i.id, raw |-> i.raw, best |-> i.best, status |-> i.status, store |-> i.store, by |-> i.by]
      /\ i.raw \in DOMAIN Records
  BY DEF IsItem
<1>3. w.row = [id |-> i.id, raw |-> i.raw, best |-> i.best, status |-> status, store |-> id, by |-> by]
  BY <1>1, <1>2
<1>4. /\ w.row.raw = i.raw /\ w.row.best = i.best /\ w.row.status = status /\ w.row.store = id /\ w.row.by = by
      /\ IsItem(w.row)
  BY <1>2, <1>3 DEF IsItem
<1>5. Settled(w.row, N, T, D)
  BY <1>4 DEF Settled, NameOf
<1>6. May(by, w)
  BY <1>1, <1>4 DEF May, MayWrite, BestOk, BestIn, Ops
<1> QED
  BY <1>1, <1>5, <1>6 DEF Right

\* Writes without items and groups add nobody and enter nothing.
LEMMA AddsNobody ==
  ASSUME NEW a \in {"operator", "bulk", "pipeline"}, NEW ws, IsSeq(ws), MayAll(a, ws), NEW q, NEW gs,
         a = "pipeline" => \A p \in 1 .. Len(ws) : ws[p].op = "add" => ~IsMember(ws[p].row.raw)
  PROVE  /\ OpsOk(a, ws) /\ FreshAdds(ws, q) /\ FreshGroups(ws, gs)
         /\ Kept => \A i \in RowsIn(ws, {"item", "add"}) : i.best = None \/ \E n \in NamesOf(stores) : n[1] = i.best
<1>1. \A p \in 1 .. Len(ws) : May(a, ws[p])
  BY DEF MayAll
<1>2. OpsOk(a, ws)
  BY <1>1 DEF OpsOk, May
<1>3. \A p \in 1 .. Len(ws) : ws[p].op # "groups" /\ (a # "pipeline" => ws[p].op # "add")
  BY <1>2 DEF OpsOk, MayWrite, Ops
<1>4. Added(ws) = {}
  BY <1>3 DEF Added
<1>5. Kept => \A i \in RowsIn(ws, {"item", "add"}) : i.best = None \/ \E n \in NamesOf(stores) : n[1] = i.best
  BY <1>1 DEF May, BestOk, RowsIn
<1> QED
  BY <1>2, <1>3, <1>4, <1>5 DEF FreshAdds, FreshGroups

\* A decision of the operator whose writes are sound is good, whatever it decides.
LEMMA DecisionOk ==
  ASSUME IInv, NEW ws, NEW R, Founding(ws, R), \A x \in R : x.id = NewId("operator", begun["operator"], 1),
         NEW N, Kept => N = NamesOf(stores),
         NEW N2, NEW T2, NEW D2, Sound("operator", ws, N2, T2, D2, N, Range(aliases), deals)
  PROVE  Good("operator", ws)
<1>1. IsSeq(ws) /\ MayAll("operator", ws)
  BY DEF Sound
<1>2. /\ OpsOk("operator", ws) /\ FreshAdds(ws, queue) /\ FreshGroups(ws, groups)
      /\ Kept => \A i \in RowsIn(ws, {"item", "add"}) : i.best = None \/ \E n \in NamesOf(stores) : n[1] = i.best
  BY <1>1, AddsNobody
<1>3. \A p \in NewStores(ws) : "operator" # "pipeline" /\ \E m \in Nat : ws[p].row.id = NewId("operator", begun["operator"], m)
  BY DEF Founding
<1>4. \A p, r \in NewStores(ws) : ws[p].row.id = ws[r].row.id => p = r
  BY DEF Founding
<1>5. Kept \/ "operator" = "bulk" => Backed(ws, NamesOf(stores), Range(aliases), deals)
  BY DEF Sound
<1> QED
  BY <1>1, <1>2, <1>3, <1>4, <1>5 DEF Good

\* The deal of a decision, before its item is closed.
LEMMA DealThenItem ==
  ASSUME NEW i, IsItem(i), BestIn(i), NEW id, NEW status \in Closed,
         NEW s, NEW R, Founding(s, R), NEW N, NEW T, NEW D,
         NEW N2, NEW T2, Sound("operator", s, N2, T2, {}, N, T, D),
         \E n \in N \cup N2 : n[1] = id,
         [store |-> id, form |-> Whole(NameOf(i))] \in T2
  PROVE  LET ws == s \o DealFor(i, id) \o <<CloseItem(i, status, id, "operator")>>
         IN /\ Founding(ws, R)
            /\ Sound("operator", ws, {}, {}, {}, N, T, D)
<1> DEFINE item == CloseItem(i, status, id, "operator")
           deal == SaveDeal(i.raw, id)
           none == <<>>
<1>1. IsSeq(s)
  BY DEF Sound
<1>2. deal.op = "deal" /\ deal.row = <<i.raw, id>> /\ May("operator", deal)
      /\ \A N3, T3, D3 : Right(deal, N3, T3, D3)
  BY DEF SaveDeal, Ops, Right, May, MayWrite, BestOk
<1> HIDE DEF deal
\* What is written before the item.
<1>4. PICK u : u = s \o DealFor(i, id)
  OBVIOUS
<1>5. /\ IsSeq(u) /\ Founding(u, R)
      /\ \E D2 : Sound("operator", u, N2, T2, D2, N, T, D) /\ (~IsMember(i.raw) => <<i.raw, id>> \in D2)
  <2>1. CASE IsMember(i.raw)
    <3>1. u = s \o none
      BY <1>4, <2>1 DEF DealFor
    <3>2. u = s
      <4>1. s \in Seq(Range(s))
        BY <1>1 DEF IsSeq
      <4> QED  BY <3>1, <4>1
    <3> QED  BY <1>1, <2>1, <3>2
  <2>2. CASE ~IsMember(i.raw)
    <3>1. u = s \o <<deal>>
      BY <1>4, <2>2 DEF DealFor, deal
    <3>2. Sound("operator", u, N2, T2, {} \cup {deal.row}, N, T, D)
      BY <1>1, <1>2, <3>1, SoundNext
    <3>3. Founding(<<deal>>, {}) /\ IsSeq(<<deal>>)
      BY <1>2, FoundsOne, SingleWrite
    <3>4. Founding(u, R \cup {})
      BY <1>1, <3>1, <3>3, FoundingBoth
    <3>5. R \cup {} = R /\ <<i.raw, id>> \in {} \cup {deal.row}
      BY <1>2
    <3> QED  BY <3>2, <3>4, <3>5 DEF Sound
  <2> QED  BY <2>1, <2>2
<1>6. PICK D2 : Sound("operator", u, N2, T2, D2, N, T, D) /\ (~IsMember(i.raw) => <<i.raw, id>> \in D2)
  BY <1>5
<1>7. item.op = "item" /\ May("operator", item) /\ Right(item, N \cup N2, T \cup T2, D \cup D2)
  <2>1. status # "pending"
    BY DEF Closed
  <2>2. \E n \in N \cup N2 : n[1] = id
    OBVIOUS
  <2>3. /\ [store |-> id, form |-> Whole(NameOf(i))] \in T \cup T2
        /\ ~IsMember(i.raw) => <<i.raw, id>> \in D \cup D2
    BY <1>6
  <2> HIDE DEF item
  <2>4. /\ CloseItem(i, status, id, "operator").op = "item" /\ May("operator", CloseItem(i, status, id, "operator"))
        /\ Right(CloseItem(i, status, id, "operator"), N \cup N2, T \cup T2, D \cup D2)
    BY <2>1, <2>2, <2>3, Closing
  <2> QED  BY <2>4 DEF item
<1> HIDE DEF item
<1>8. Sound("operator", u \o <<item>>, N2, T2, D2, N, T, D)
  BY <1>6, <1>7, SoundNext
<1>9. Sound("operator", u \o <<item>>, {}, {}, {}, N, T, D)
  BY <1>8 DEF Sound
<1>10. Founding(<<item>>, {}) /\ IsSeq(<<item>>)
  BY <1>7, FoundsOne, SingleWrite
<1>11. Founding(u \o <<item>>, R \cup {})
  BY <1>5, <1>10, FoundingBoth
<1>12. R \cup {} = R
  OBVIOUS
<1> QED
  BY <1>4, <1>9, <1>11, <1>12 DEF item

\* approve and approve_existing: an alias, a deal, and the item at the end.
LEMMA LinkOk ==
  ASSUME IInv, NEW i \in hand, NEW id, Kept => id \in IdsOf(stores)
  PROVE  Good("operator", LinkWrites(i, id))
<1> PICK N : N = IF id \in IdsOf(stores) THEN NamesOf(stores) ELSE {<<id>>}
  OBVIOUS
<1> DEFINE T == Range(aliases)
           learn == SaveAlias(id, NameOf(i))
           ws == LinkWrites(i, id)
<1>1. IsItem(i) /\ BestIn(i)
  BY Stored
<1>2. (Kept => N = NamesOf(stores)) /\ \E n \in N : n[1] = id
  <2>1. <<id>>[1] = id
    OBVIOUS
  <2> QED  BY <2>1, Stored
<1>3. learn.op = "alias" /\ learn.row = [store |-> id, form |-> Whole(NameOf(i))] /\ May("operator", learn)
  BY DEF SaveAlias, Ops, May, MayWrite, BestOk
<1>4. ws = <<learn>> \o DealFor(i, id) \o <<CloseItem(i, "approved", id, "operator")>>
  BY DEF LinkWrites
<1> HIDE DEF learn, ws
<1>5. Right(learn, N \cup {}, T \cup {}, deals \cup {})
  BY <1>2, <1>3 DEF Right
<1>6. Sound("operator", <<>> \o <<learn>>, {}, {} \cup {learn.row}, {}, N, T, deals)
  <2> HIDE DEF T
  <2>1. Sound("operator", <<>>, {}, {}, {}, N, T, deals)
    BY SoundNothing
  <2> QED  BY <1>3, <1>5, <2>1, SoundNext
<1>7. <<>> \o <<learn>> = <<learn>> /\ {} \cup {learn.row} = {learn.row} /\ N \cup {} = N
  BY ConcatNothing, SingleWrite
<1>8. Founding(<<learn>>, {})
  BY <1>3, FoundsOne
<1>9. Sound("operator", <<learn>>, {}, {learn.row}, {}, N, T, deals)
  BY <1>6, <1>7
<1>10. "approved" \in Closed /\ \E n \in N \cup {} : n[1] = id
  BY <1>2 DEF Closed
<1>11. Founding(ws, {}) /\ Sound("operator", ws, {}, {}, {}, N, T, deals)
  BY <1>1, <1>3, <1>4, <1>8, <1>9, <1>10, DealThenItem
<1>12. Good("operator", ws)
  BY <1>2, <1>11, DecisionOk
<1> QED
  BY <1>12 DEF ws

\* create_new: a store before what names it, and the item at the end.
LEMMA CreateOk ==
  ASSUME IInv, NEW i \in hand, NEW name
  PROVE  LET id == NewId("operator", begun["operator"], 1)
         IN Good("operator", <<NewStore(id, name, {}, "operator"), SaveAlias(id, NameOf(i))>> \o DealFor(i, id)
                             \o <<CloseItem(i, "created", id, "operator")>>)
<1> PICK id : id = NewId("operator", begun["operator"], 1)
  OBVIOUS
<1> PICK N : N = NamesOf(stores)
  OBVIOUS
<1> DEFINE T == Range(aliases)
           row == NewStore(id, name, {}, "operator").row
           taught == [store |-> id, form |-> Whole(NameOf(i))]
           s == <<NewStore(id, name, {}, "operator"), SaveAlias(id, NameOf(i))>>
           ws == s \o DealFor(i, id) \o <<CloseItem(i, "created", id, "operator")>>
<1>1. IsItem(i) /\ BestIn(i)
  BY Stored
<1>3. row.id = id
  BY DEF NewStore, SaveStore
<1>4. Sound("operator", s, {<<id, name, "operator">>}, {taught}, {}, N, T, deals) /\ Founding(s, {row})
  <2>1. "operator" \in {"operator", "bulk"}
    OBVIOUS
  <2> QED  BY <2>1, FoundAndTaught
<1> HIDE DEF s, row
<1>5. "created" \in Closed /\ \E n \in N \cup {<<id, name, "operator">>} : n[1] = id
  <2>1. <<id, name, "operator">>[1] = id
    OBVIOUS
  <2> QED  BY <2>1 DEF Closed
<1>6. [store |-> id, form |-> Whole(NameOf(i))] \in {taught}
  OBVIOUS
<1>7. Founding(ws, {row}) /\ Sound("operator", ws, {}, {}, {}, N, T, deals)
  <2> HIDE DEF taught
  <2> QED  BY <1>1, <1>4, <1>5, <1>6, DealThenItem
<1> HIDE DEF ws
<1>8. \A x \in {row} : x.id = NewId("operator", begun["operator"], 1)
  BY <1>3
<1>9. Good("operator", ws)
  BY <1>7, <1>8, DecisionOk
<1> QED
  BY <1>9 DEF ws, s

\* discard and skip: the item alone, closed onto nothing.
LEMMA LeaveOk ==
  ASSUME IInv, NEW i \in hand, NEW status \in {"discarded", "skipped"}
  PROVE  Good("operator", <<CloseItem(i, status, None, "operator")>>)
<1> PICK N : N = NamesOf(stores)
  OBVIOUS
<1> DEFINE T == Range(aliases)
           item == CloseItem(i, status, None, "operator")
<1>1. IsItem(i) /\ BestIn(i)
  BY Stored
<1>2. status # "pending" /\ status \notin Closed /\ "operator" # "bulk" /\ "operator" \in {"operator", "bulk"}
  BY DEF Closed
<1>3. item.op = "item" /\ May("operator", item) /\ Right(item, N \cup {}, T \cup {}, deals \cup {})
  <2> HIDE DEF T
  <2> QED  BY <1>1, <1>2, Closing
<1> HIDE DEF item
<1>5. Sound("operator", <<>> \o <<item>>, {}, {}, {}, N, T, deals)
  <2> HIDE DEF T
  <2>1. Sound("operator", <<>>, {}, {}, {}, N, T, deals)
    BY SoundNothing
  <2> QED  BY <1>3, <2>1, SoundNext
<1>6. <<>> \o <<item>> = <<item>>
  BY ConcatNothing, SingleWrite
<1>7. Founding(<<item>>, {})
  BY <1>3, FoundsOne
<1>8. Sound("operator", <<item>>, {}, {}, {}, N, T, deals)
  BY <1>5, <1>6
<1>9. Good("operator", <<item>>)
  BY <1>7, <1>8, DecisionOk
<1> QED
  BY <1>9 DEF item

\* Every decision of the operator begins with writes that are good.
LEMMA ReviewOk ==
  ASSUME IInv, Review
  PROVE  \E ws : Good("operator", ws) /\ Begin("operator", ws) /\ hand' \subseteq hand
<1>1. PICK i \in hand : Approve(i) \/ ApproveExisting(i) \/ CreateNew(i) \/ Discard(i) \/ Skip(i)
  BY DEF Review
<1>2. \A ws : Decide(ws) => Begin("operator", ws) /\ hand' \subseteq hand
  BY DEF Decide
<1>3. CASE Approve(i)
  <2>1. Decide(LinkWrites(i, i.best)) /\ i.best # None
    BY <1>3 DEF Approve
  <2>2. Kept => i.best \in IdsOf(stores)
    BY <2>1, Stored DEF BestIn
  <2>3. Good("operator", LinkWrites(i, i.best))
    BY <2>2, LinkOk
  <2> QED  BY <1>2, <2>1, <2>3
<1>4. CASE ApproveExisting(i)
  <2>1. PICK id \in StoreIds : Decide(LinkWrites(i, id))
    BY <1>4 DEF ApproveExisting
  <2>2. Good("operator", LinkWrites(i, id))
    BY <2>1, Stored, LinkOk
  <2> QED  BY <1>2, <2>1, <2>2
<1>5. CASE CreateNew(i)
  <2>1. PICK name, ws : /\ Good("operator", ws) /\ Decide(ws)
    <3>1. PICK name \in {NameOf(i)} \cup TypedNames :
            LET id == NewId("operator", begun["operator"], 1)
            IN Decide(<<NewStore(id, name, {}, "operator"), SaveAlias(id, NameOf(i))>> \o DealFor(i, id)
                      \o <<CloseItem(i, "created", id, "operator")>>)
      BY <1>5 DEF CreateNew
    <3> QED  BY <3>1, CreateOk
  <2> QED  BY <1>2, <2>1
<1>6. CASE Discard(i)
  <2>1. Decide(<<CloseItem(i, "discarded", None, "operator")>>) /\ Good("operator", <<CloseItem(i, "discarded", None, "operator")>>)
    BY <1>6, LeaveOk DEF Discard
  <2> QED  BY <1>2, <2>1
<1>7. CASE Skip(i)
  <2>1. Decide(<<CloseItem(i, "skipped", None, "operator")>>) /\ Good("operator", <<CloseItem(i, "skipped", None, "operator")>>)
    BY <1>7, LeaveOk DEF Skip
  <2> QED  BY <1>2, <2>1
<1> QED
  BY <1>1, <1>3, <1>4, <1>5, <1>6, <1>7

-----------------------------------------------------------------------------
(* The pipeline.                                                           *)

\* A candidate is in the catalogue while it loses nothing.
LEMMA VerdictOfFiles ==
  ASSUME IInv, Kept, NEW form, NEW domain
  PROVE  LET v == Verdict(form, domain, stores, aliases)
         IN /\ v.store \in IdsOf(stores) \cup {None} /\ v.auto \in BOOLEAN
            /\ v.auto => v.store \in IdsOf(stores)
<1>1. IsSeq(stores) /\ IsSeq(aliases) /\ DOMAIN stores = 1 .. Len(stores) /\ DOMAIN aliases = 1 .. Len(aliases)
  BY Stored, SeqFacts
<1>2. \A k \in 1 .. Len(stores) : stores[k].id \in IdsOf(stores)
  BY <1>1 DEF IdsOf
<1>3. \A k \in 1 .. Len(aliases) : aliases[k].store \in IdsOf(stores)
  <2>1. \A t \in Range(aliases) : \E n \in NamesOf(stores) : n[1] = t.store
    BY DEF IInv, Relied
  <2>2. \A k \in 1 .. Len(aliases) : aliases[k] \in Range(aliases)
    BY <1>1 DEF Range
  <2> QED  BY <2>1, <2>2, Stored
<1> QED
  BY <1>1, <1>2, <1>3, VerdictNames

\* So it is for an item queued with it.
LEMMA BestOfFiles ==
  ASSUME IInv, NEW form, NEW domain, NEW item, item.best = Verdict(form, domain, stores, aliases).store
  PROVE  BestIn(item)
<1>1. Kept => item.best \in IdsOf(stores) \cup {None}
  BY VerdictOfFiles
<1> QED
  BY <1>1, Stored DEF BestIn

\* An id leads to its own store: no two stores have one.
LEMMA StoreOfId ==
  ASSUME IInv
  PROVE  /\ \A k \in 1 .. Len(stores) : StoreOf(stores[k].id) = stores[k]
         /\ \A id \in IdsOf(stores) : \E k \in 1 .. Len(stores) : stores[k].id = id /\ StoreOf(id) = stores[k]
<1>1. DOMAIN stores = 1 .. Len(stores) /\ \A j, k \in 1 .. Len(stores) : stores[j].id = stores[k].id => j = k
  BY Stored DEF IInv, Shape, AreStores
<1>2. ASSUME NEW k \in 1 .. Len(stores) PROVE StoreOf(stores[k].id) = stores[k]
  <2>1. k \in DOMAIN stores /\ \A j \in DOMAIN stores : stores[j].id = stores[k].id => j = k
    BY <1>1
  <2>2. (CHOOSE j \in DOMAIN stores : stores[j].id = stores[k].id) = k
    BY <2>1
  <2> QED  BY <2>2 DEF StoreOf
<1> QED
  BY <1>1, <1>2 DEF IdsOf


\* A matched store learns its URL under its name, and a club learns the store.
LEMMA MatchedOk ==
  ASSUME IInv, NEW r \in DOMAIN Records, NEW id
  PROVE  Good("pipeline", Matched(r, id))
<1> DEFINE row == StoreOf(id)
           w == SaveStore([row EXCEPT !.url = Records[r].url])
           club == JoinClub(Records[r].source, {id})
           learns == id \in StoreIds /\ row.url = None /\ Records[r].url # None
           first == IF learns THEN <<w>> ELSE <<>>
           ws == Matched(r, id)
<1> PICK N : N = NamesOf(stores)
  OBVIOUS
<1> DEFINE T == Range(aliases)
           R == IF learns THEN {w.row} ELSE {}
<1>1. ws = first \o <<club>>
  BY DEF Matched
<1>2. club.op = "club" /\ May("pipeline", club) /\ \A N2, T2, D2 : Right(club, N2, T2, D2)
  BY DEF JoinClub, May, MayWrite, BestOk, Ops, Right
<1>3. ASSUME id \in StoreIds
      PROVE  w.op = "store" /\ May("pipeline", w) /\ Triple(w.row) \in N /\ \A N2, T2, D2 : Right(w, N2, T2, D2)
  <2>1. PICK k \in 1 .. Len(stores) : stores[k].id = id /\ row = stores[k]
    BY <1>3, Stored, StoreOfId
  <2>2. IsStore(row) /\ Triple(row) \in N
    BY <2>1, Stored DEF NamesOf, IInv, Shape, AreStores
  <2> HIDE DEF row
  <2>3. row = [id |-> row.id, name |-> row.name, url |-> row.url, domain |-> row.domain, mcc |-> row.mcc, by |-> row.by]
    BY <2>2 DEF IsStore
  <2>4. w.op = "store" /\ w.row = [row EXCEPT !.url = Records[r].url]
    BY DEF SaveStore
  <2>5. w.row = [id |-> row.id, name |-> row.name, url |-> Records[r].url, domain |-> row.domain, mcc |-> row.mcc, by |-> row.by]
    BY <2>3, <2>4
  <2>6. IsStore(w.row) /\ Triple(w.row) = Triple(row)
    BY <2>5 DEF IsStore, Triple
  <2> QED  BY <2>2, <2>4, <2>6 DEF May, MayWrite, BestOk, Ops, Right
<1> HIDE DEF w, club, row
<1>4. Sound("pipeline", first, {}, {}, {}, N, T, deals) /\ Founding(first, R)
  <2>1. CASE ~learns
    <3>1. first = <<>> /\ R = {}
      BY <2>1
    <3>2. Sound("pipeline", <<>>, {}, {}, {}, N, T, deals)
      BY SoundNothing
    <3>3. Founding(<<>>, {})
      <4> PICK none : none = <<>>
        OBVIOUS
      <4>1. \A p \in 1 .. Len(none) : FALSE
        BY NoPlaces
      <4> QED  BY <4>1, FoundsNone
    <3> QED  BY <3>1, <3>2, <3>3
  <2>2. CASE learns
    <3>1. first = <<w>> /\ R = {w.row}
      BY <2>2
    <3>2. Sound("pipeline", <<>>, {}, {}, {}, N, T, deals)
      BY SoundNothing
    <3>3. Sound("pipeline", <<>> \o <<w>>, {}, {}, {}, N, T, deals)
      BY <1>3, <2>2, <3>2, SoundNext
    <3>4. <<>> \o <<w>> = <<w>>
      BY ConcatNothing, SingleWrite
    <3> QED  BY <3>1, <3>3, <3>4, FoundsOne
  <2> QED  BY <2>1, <2>2
<1> HIDE DEF first, R
<1>5. Sound("pipeline", first \o <<club>>, {}, {}, {}, N, T, deals)
  BY <1>2, <1>4, SoundNext
<1>6. Founding(first \o <<club>>, R \cup {})
  <2>1. IsSeq(first) /\ IsSeq(<<club>>) /\ Founding(<<club>>, {})
    BY <1>2, <1>4, FoundsOne, SingleWrite DEF Sound
  <2> QED  BY <1>4, <2>1, FoundingBoth
<1>7. IsSeq(ws) /\ MayAll("pipeline", ws) /\ Backed(ws, N, T, deals) /\ Founding(ws, R)
  <2>1. R \cup {} = R
    OBVIOUS
  <2> QED  BY <1>1, <1>5, <1>6, <2>1 DEF Sound
<1>8. \A x \in R : Triple(x) \in N
  BY <1>3 DEF R
<1>9. \A p \in NewStores(ws) : Triple(ws[p].row) \in NamesOf(stores)
  BY <1>7, <1>8 DEF Founding
<1> HIDE DEF ws
<1>10. \A p \in 1 .. Len(ws) : ws[p].op # "add"
  <2>1. IsSeq(first) /\ \A p \in 1 .. Len(first) : first[p].op # "add"
    <3>1. CASE learns
      <4>1. first = <<w>> /\ w.op = "store"
        BY <1>3, <3>1 DEF first
      <4> QED  BY <4>1, SingleWrite
    <3>2. CASE ~learns
      <4>1. first = <<>>
        BY <3>2 DEF first
      <4>2. \A p \in 1 .. Len(first) : FALSE
        <5>1. Len(first) = 0
          BY <4>1, NoPlaces
        <5> QED  BY <5>1
      <4> QED  BY <4>1, <4>2, NoPlaces
    <3> QED  BY <3>1, <3>2
  <2>2. IsSeq(<<club>>) /\ \A p \in 1 .. Len(<<club>>) : <<club>>[p] = club
    BY SingleWrite
  <2> QED  BY <1>1, <1>2, <2>1, <2>2, PlacesOfConcat
<1>11. /\ OpsOk("pipeline", ws) /\ FreshAdds(ws, queue) /\ FreshGroups(ws, groups)
       /\ Kept => \A i \in RowsIn(ws, {"item", "add"}) : i.best = None \/ \E n \in NamesOf(stores) : n[1] = i.best
  BY <1>7, <1>10, AddsNobody
<1>12. Backed(ws, NamesOf(stores), Range(aliases), deals)
  BY <1>7
<1>13. Good("pipeline", ws)
  BY <1>7, <1>9, <1>11, <1>12 DEF Good, Founding
<1> QED
  BY <1>13 DEF ws

\* A single item to add, with nothing to rely on.
LEMMA AddOk ==
  ASSUME NEW id, NEW r \in DOMAIN Records, NEW best, NEW a \in {"pipeline", "hot", "swish"}, BestIn(NewItem(id, r, best))
  PROVE  LET w == AddItem(id, r, best)
         IN w.op = "add" /\ w.row = NewItem(id, r, best) /\ w.row.raw = r /\ May(a, w) /\ \A N, T, D : Right(w, N, T, D)
<1> PICK row : row = NewItem(id, r, best)
  OBVIOUS
<1>1. row = [id |-> id, raw |-> r, best |-> best, status |-> "pending", store |-> None, by |-> None]
  BY DEF NewItem
<1>5. row.id = id /\ row.raw = r /\ row.best = best /\ row.status = "pending" /\ row.store = None /\ row.by = None
  BY <1>1
<1>6. row = [id |-> row.id, raw |-> row.raw, best |-> row.best, status |-> row.status, store |-> row.store, by |-> row.by]
  BY <1>1, <1>5
<1>7. IsItem(row) /\ row = NewItem(row.id, row.raw, row.best)
  BY <1>5, <1>6 DEF IsItem
<1>2. row.id = id /\ row.raw = r /\ row.best = best /\ IsItem(row) /\ row = NewItem(row.id, row.raw, row.best)
  BY <1>5, <1>7
<1>3. AddItem(id, r, best) = [op |-> "add", row |-> row]
  BY DEF AddItem
<1>4. BestIn(row)
  OBVIOUS
<1> QED
  BY <1>2, <1>3, <1>4 DEF May, MayWrite, BestOk, BestIn, Ops, Right

\* A name for review.
LEMMA QueuedOk ==
  ASSUME IInv, NEW r \in DOMAIN Records, ~IsMember(r), NEW form, NEW domain
  PROVE  Good("pipeline", Queued(r, Verdict(form, domain, stores, aliases).store))
<1> PICK best : best = Verdict(form, domain, stores, aliases).store
  OBVIOUS
<1> DEFINE id == NewId("pipeline", begun["pipeline"], 1)
           w == AddItem(id, r, best)
<1> PICK ws : ws = Queued(r, best)
  OBVIOUS
<1> PICK N : N = NamesOf(stores)
  OBVIOUS
<1> DEFINE T == Range(aliases)
<1>1. ws = <<w>> \/ ws = <<>>
  BY DEF Queued
<1>2. w.op = "add" /\ w.row.raw = r /\ May("pipeline", w) /\ \A N2, T2, D2 : Right(w, N2, T2, D2)
  <2>1. NewItem(id, r, best).best = best
    BY DEF NewItem
  <2> HIDE DEF id
  <2>2. BestIn(NewItem(id, r, best))
    BY <2>1, BestOfFiles
  <2> QED  BY <2>2, AddOk
<1> HIDE DEF w
<1>3. /\ Sound("pipeline", ws, {}, {}, {}, N, T, deals)
      /\ \A p \in 1 .. Len(ws) : ws[p] = w
  <2>1. Sound("pipeline", <<>>, {}, {}, {}, N, T, deals)
    BY SoundNothing
  <2>2. Sound("pipeline", <<>> \o <<w>>, {}, {}, {}, N, T, deals)
    BY <1>2, <2>1, SoundNext
  <2>3. <<>> \o <<w>> = <<w>> /\ \A p \in 1 .. Len(<<w>>) : <<w>>[p] = w
    BY ConcatNothing, SingleWrite
  <2>4. CASE ws = <<>>
    <3>1. Len(ws) = 0
      BY <2>4, NoPlaces
    <3>2. \A p \in 1 .. Len(ws) : FALSE
      BY <3>1
    <3> QED  BY <2>1, <2>4, <3>2
  <2>5. CASE ws = <<w>>
    BY <2>2, <2>3, <2>5
  <2> QED  BY <1>1, <2>4, <2>5
<1>4. IsSeq(ws) /\ MayAll("pipeline", ws) /\ Backed(ws, N, T, deals)
  BY <1>3 DEF Sound
<1>5. \A p \in 1 .. Len(ws) : ws[p].op = "add" => ~IsMember(ws[p].row.raw)
  BY <1>2, <1>3
<1>6. NewStores(ws) = {}
  BY <1>2, <1>3 DEF NewStores
<1>7. /\ OpsOk("pipeline", ws) /\ FreshAdds(ws, queue) /\ FreshGroups(ws, groups)
      /\ Kept => \A i \in RowsIn(ws, {"item", "add"}) : i.best = None \/ \E n \in NamesOf(stores) : n[1] = i.best
  BY <1>4, <1>5, AddsNobody
<1>8. Good("pipeline", ws)
  BY <1>4, <1>6, <1>7 DEF Good
<1> QED
  BY <1>8

\* The pipeline begins with writes that are good, whether it matches or queues.
LEMMA ArriveOk ==
  ASSUME IInv, NEW r \in DOMAIN Records, Arrive(r)
  PROVE  \E ws : Good("pipeline", ws) /\ Begin("pipeline", ws) /\ hand' \subseteq hand
<1> DEFINE form == Stripped(Records[r].name)
           domain == Records[r].domain
           v == Verdict(form, domain, stores, aliases)
<1>1. /\ ~IsMember(r) /\ hand' = hand
      /\ Begin("pipeline", IF v.auto THEN Matched(r, v.store) ELSE Queued(r, v.store))
  BY DEF Arrive
<1> HIDE DEF form, domain
<1>2. Good("pipeline", Matched(r, v.store)) /\ Good("pipeline", Queued(r, v.store))
  BY <1>1, MatchedOk, QueuedOk
<1> HIDE DEF v
<1>3. CASE v.auto
  BY <1>1, <1>2, <1>3
<1>4. CASE ~v.auto
  BY <1>1, <1>2, <1>4
<1> QED
  BY <1>3, <1>4

-----------------------------------------------------------------------------
(* What the bulk resolution decides of an item.                            *)

\* A link is to a store whose name agrees on being online.
Agrees(id, name) == \E n \in NamesOf(stores) : n[1] = id /\ Online(Whole(name)) = Online(Whole(n[2]))

\* What passes the veto agrees with the name on being online.
LEMMA EligibleAgrees ==
  ASSUME IInv, NEW name, NEW ids, NEW id \in Eligible(ids, Online(Whole(name)))
  PROVE  id \in ids /\ id \in IdsOf(stores) /\ Agrees(id, name)
<1>1. id \in ids /\ id \in IdsOf(stores) /\ Online(Whole(StoreOf(id).name)) = Online(Whole(name))
  BY Stored DEF Eligible
<1>2. PICK k \in 1 .. Len(stores) : stores[k].id = id /\ StoreOf(id) = stores[k]
  BY <1>1, StoreOfId
<1>3. Triple(stores[k]) \in NamesOf(stores)
  BY Stored DEF NamesOf
<1>4. Triple(stores[k])[1] = id /\ Triple(stores[k])[2] = stores[k].name
  BY <1>2, TripleParts
<1> QED
  BY <1>1, <1>2, <1>3, <1>4 DEF Agrees

\* A name the evidence leads to no single store of: if the bulk resolution made a store of
\* this name already, there is another.
LEMMA NameIsContested ==
  ASSUME IInv, Kept, NEW name, Cardinality(Eligible(ByForm(Whole(name)), Online(Whole(name)))) # 1,
         NEW n \in NamesOf(stores), n[3] = "bulk", Whole(n[2]) = Whole(name)
  PROVE  Other(Whole(name), NamesOf(stores), Range(aliases))
<1> PICK f : f = Whole(name)
  OBVIOUS
<1> DEFINE only == Eligible(ByForm(f), Online(f))
           N == NamesOf(stores)
           T == Range(aliases)
<1> SUFFICES ASSUME ~Other(f, N, T) PROVE FALSE
  OBVIOUS
<1>1. DOMAIN stores = 1 .. Len(stores) /\ DOMAIN aliases = 1 .. Len(aliases) /\ StoreIds = IdsOf(stores)
  BY Stored, SeqFacts
<1>2. PICK j \in 1 .. Len(stores) : n = Triple(stores[j])
  BY <1>1 DEF NamesOf
<1>3. n[1] = stores[j].id /\ n[2] = stores[j].name
  BY <1>2, TripleParts
\* All who have the name are made by the bulk resolution, under the name, and are one.
<1>4. ASSUME NEW m \in N, Whole(m[2]) = f \/ \E t \in T : t.store = m[1] /\ t.form = f
      PROVE  m = n
  <2>1. Whole(m[2]) = f /\ m[3] = "bulk"
    BY <1>4 DEF Other
  <2>2. MadeOk(N, T)
    BY DEF IInv, Made
  <2> QED  BY <2>1, <2>2 DEF MadeOk
<1>5. ASSUME NEW id \in ByForm(f), id \in IdsOf(stores) PROVE id = stores[j].id
  <2>1. PICK k \in 1 .. Len(stores) : stores[k].id = id /\ StoreOf(id) = stores[k]
    BY <1>5, StoreOfId
  <2>2. Triple(stores[k]) \in N /\ Triple(stores[k])[1] = id /\ Triple(stores[k])[2] = stores[k].name
    BY <1>1, <2>1, TripleParts DEF NamesOf
  <2>3. Whole(stores[k].name) = f \/ \E t \in T : t.store = id /\ t.form = f
    <3>1. CASE Whole(StoreOf(id).name) = f
      BY <2>1, <3>1
    <3>2. CASE id \in {aliases[x].store : x \in {y \in DOMAIN aliases : aliases[y].form = f}}
      <4>1. PICK x \in DOMAIN aliases : aliases[x].form = f /\ aliases[x].store = id
        BY <3>2
      <4>2. aliases[x] \in T
        BY <4>1 DEF Range
      <4> QED  BY <4>1, <4>2
    <3> QED  BY <1>5, <3>1, <3>2 DEF ByForm
  <2>4. Triple(stores[k]) = n
    BY <1>4, <2>2, <2>3
  <2> QED  BY <1>3, <2>2, <2>4
<1>6. stores[j].id \in only
  <2>1. stores[j].id \in IdsOf(stores) /\ StoreOf(stores[j].id) = stores[j]
    BY <1>1, StoreOfId DEF IdsOf
  <2>2. stores[j].id \in ByForm(f)
    BY <1>1, <1>3, <2>1 DEF ByForm
  <2> QED  BY <1>1, <1>3, <2>1, <2>2 DEF Eligible
<1>7. only = {stores[j].id}
  <2>1. \A id \in only : id \in ByForm(f) /\ id \in IdsOf(stores)
    BY <1>1 DEF Eligible
  <2> HIDE DEF only
  <2> QED  BY <1>5, <1>6, <2>1
<1>8. Cardinality({stores[j].id}) = 1
  BY FS_Singleton
<1> QED
  BY <1>7, <1>8

\* What becomes of an item: nothing, a link that is right, or a store that is called for.
RightFor(d, k) ==
  /\ d.at = k
  /\ d.act = "link" => d.store \in IdsOf(stores) /\ Agrees(d.store, NameOf(queue[k]))
  /\ d.act = "create" /\ Kept =>
       \A n \in NamesOf(stores) :
         n[3] = "bulk" /\ Whole(n[2]) = Whole(NameOf(queue[k])) =>
           Other(Whole(NameOf(queue[k])), NamesOf(stores), Range(aliases))

\* plan_resolutions: whatever rule decides an item, a link is to a store that agrees with
\* it.
LEMMA ResolveOk ==
  ASSUME IInv, NEW k \in 1 .. Len(queue)
  PROVE  RightFor(Resolve(k), k)
<1> PICK rec : rec = Records[queue[k].raw]
  OBVIOUS
<1> PICK name : name = rec.name
  OBVIOUS
<1> DEFINE online  == Online(Whole(name))
           v       == Verdict(Stripped(name), rec.url, stores, aliases)
           trusted == v.auto /\ Eligible({v.store}, online) # {}
           unclear == \E f \in {Whole(name), Stripped(name)} : Cardinality(Eligible(ByForm(f), online)) > 1
           only(n) == Eligible(Evidence(rec)[n], online)
           sole    == {n \in 1 .. 4 : Cardinality(only(n)) = 1}
           d       == Resolve(k)
<1>1. d = IF trusted THEN IF unclear THEN Defer(k) ELSE LinkTo(k, v.store)
          ELSE IF sole # {} THEN LinkTo(k, CHOOSE id \in only(Min(sole)) : TRUE)
          ELSE CreateOrDefer(k, rec, online)
  BY DEF Resolve
<1>2. name = NameOf(queue[k])
  BY DEF NameOf
<1>3. RightFor(Defer(k), k)
  BY DEF RightFor, Defer
<1>4. ASSUME NEW id, id \in IdsOf(stores), Agrees(id, name) PROVE RightFor(LinkTo(k, id), k)
  BY <1>2, <1>4 DEF RightFor, LinkTo
<1>5. ASSUME trusted PROVE v.store \in IdsOf(stores) /\ Agrees(v.store, name)
  <2>1. PICK id : id \in Eligible({v.store}, online)
    BY <1>5
  <2>2. id \in {v.store} /\ id \in IdsOf(stores) /\ Agrees(id, name)
    BY <2>1, EligibleAgrees
  <2> QED  BY <2>2
<1>6. ASSUME sole # {} PROVE LET id == CHOOSE x \in only(Min(sole)) : TRUE IN id \in IdsOf(stores) /\ Agrees(id, name)
  <2>1. sole \in SUBSET Nat
    OBVIOUS
  <2>2. PICK n : n = Min(sole)
    OBVIOUS
  <2>3. n \in sole
    BY <1>6, <2>1, <2>2, LeastMember
  <2>4. only(n) # {}
    <3>1. PICK S : S = only(n)
      OBVIOUS
    <3>2. Cardinality(S) = 1
      BY <2>3, <3>1
    <3>3. S # {}
      <4>1. Cardinality({}) = 0
        BY FS_EmptySet
      <4>2. S = {} => Cardinality(S) = 0
        BY <4>1, Zenon
      <4> QED  BY <3>2, <4>2
    <3> QED  BY <3>1, <3>3
  <2>5. PICK id : id = CHOOSE x \in only(n) : TRUE
    OBVIOUS
  <2>6. id \in only(n)
    BY <2>4, <2>5
  <2>7. id \in IdsOf(stores) /\ Agrees(id, name)
    BY <2>6, EligibleAgrees
  <2> QED  BY <2>2, <2>5, <2>7
<1>7. ASSUME sole = {} PROVE RightFor(CreateOrDefer(k, rec, online), k)
  <2>1. CreateOrDefer(k, rec, online) = Defer(k) \/ \E mcc : CreateOrDefer(k, rec, online) = CreateWith(k, mcc)
    <3> HIDE DEF online
    <3> QED  BY DEF CreateOrDefer
  <2>2. Cardinality(Eligible(ByForm(Whole(name)), online)) # 1
    <3>1. Evidence(rec)[2] = ByForm(Whole(name))
      BY DEF Evidence
    <3>2. 2 \in 1 .. 4 /\ 2 \notin sole
      BY <1>7
    <3> QED  BY <3>1, <3>2
  <2>3. ASSUME NEW mcc PROVE RightFor(CreateWith(k, mcc), k)
    <3>1. Kept => \A n \in NamesOf(stores) :
            n[3] = "bulk" /\ Whole(n[2]) = Whole(name) => Other(Whole(name), NamesOf(stores), Range(aliases))
      BY <2>2, NameIsContested
    <3> QED  BY <1>2, <3>1 DEF RightFor, CreateWith
  <2> QED  BY <1>3, <2>1, <2>3
<1> HIDE DEF trusted, unclear, sole, only, v, online
<1>8. CASE trusted /\ unclear
  BY <1>1, <1>3, <1>8
<1>9. CASE trusted /\ ~unclear
  BY <1>1, <1>4, <1>5, <1>9
<1>10. CASE ~trusted /\ sole # {}
  BY <1>1, <1>4, <1>6, <1>10
<1>11. CASE ~trusted /\ sole = {}
  BY <1>1, <1>7, <1>11
<1> QED
  BY <1>8, <1>9, <1>10, <1>11

-----------------------------------------------------------------------------
(* The writes of the bulk resolution.                                      *)

\* Two parts that are right by themselves are right one after the other.
LEMMA SoundBoth ==
  ASSUME NEW N, NEW T, NEW D, NEW a,
         NEW s, Sound(a, s, {}, {}, {}, N, T, D), NEW t, Sound(a, t, {}, {}, {}, N, T, D)
  PROVE  Sound(a, s \o t, {}, {}, {}, N, T, D)
<1> DEFINE u == s \o t
<1>1. IsSeq(s) /\ IsSeq(t) /\ IsSeq(u) /\ Backed(u, N, T, D)
  BY BackedConcat, SeqConcat DEF Sound
<1>2. \A p \in 1 .. Len(u) :
        \/ p \in 1 .. Len(s) /\ u[p] = s[p]
        \/ \E i \in 1 .. Len(t) : p = Len(s) + i /\ u[p] = t[i]
  BY <1>1, PlacesOfConcat, Z3
<1> HIDE DEF u
<1>3. MayAll(a, u)
  BY <1>2 DEF MayAll, Sound
<1> QED
  BY <1>1, <1>3 DEF Sound, u

\* Any number of parts, that found no store of each other's.
PartsFit(a, parts, R, N, T, D) ==
  /\ IsSeq(parts)
  /\ \A n \in 1 .. Len(parts) : Sound(a, parts[n], {}, {}, {}, N, T, D) /\ Founding(parts[n], R[n])
  /\ \A m, n \in 1 .. Len(parts) : m < n => \A x \in R[m], y \in R[n] : x.id # y.id

AllOf(R, S) == UNION {R[n] : n \in S}

\* Parts that are sound, each for itself, one after the other: the writes of a whole
\* plan.
LEMMA SoundParts ==
  ASSUME NEW N, NEW T, NEW D, NEW a, NEW parts, NEW R, PartsFit(a, parts, R, N, T, D)
  PROVE  /\ Sound(a, FlattenSeq(parts), {}, {}, {}, N, T, D)
         /\ Founding(FlattenSeq(parts), AllOf(R, 1 .. Len(parts)))
<1> DEFINE W == UNION {Range(parts[n]) : n \in 1 .. Len(parts)}
           Rows(i) == AllOf(R, 1 .. i)
           V == [i \in Nat |-> {s \in Seq(W) : Sound(a, s, {}, {}, {}, N, T, D) /\ Founding(s, Rows(i))}]
           all == FlattenSeq(parts)
<1>0. /\ IsSeq(parts)
      /\ \A n \in 1 .. Len(parts) : Sound(a, parts[n], {}, {}, {}, N, T, D) /\ Founding(parts[n], R[n])
      /\ \A m, n \in 1 .. Len(parts) : m < n => \A x \in R[m], y \in R[n] : x.id # y.id
  BY DEF PartsFit
<1>1. Len(parts) \in Nat
  BY <1>0, SeqFacts
<1>2. \A n \in 1 .. Len(parts) : IsSeq(parts[n]) /\ parts[n] \in Seq(W)
  <2> SUFFICES ASSUME NEW n \in 1 .. Len(parts) PROVE IsSeq(parts[n]) /\ parts[n] \in Seq(W)
    OBVIOUS
  <2>1. IsSeq(parts[n]) /\ parts[n] \in Seq(Range(parts[n])) /\ Range(parts[n]) \subseteq W
    BY <1>0 DEF IsSeq, Sound
  <2> HIDE DEF W
  <2> QED  BY <2>1
<1> HIDE DEF W
<1>3. \A i \in Nat : \A s : s \in V[i] <=> s \in Seq(W) /\ Sound(a, s, {}, {}, {}, N, T, D) /\ Founding(s, Rows(i))
  OBVIOUS
<1> HIDE DEF V
<1>4. <<>> \in V[0]
  <2> PICK none : none = <<>>
    OBVIOUS
  <2>1. Sound(a, none, {}, {}, {}, N, T, D) /\ none \in Seq(W) /\ Len(none) = 0
    BY SoundNothing
  <2>2. Founding(none, {}) /\ Rows(0) = {}
    <3>1. \A p \in 1 .. Len(none) : none[p].op # "store"
      BY <2>1
    <3>2. Founding(none, {})
      BY <3>1, FoundsNone
    <3> QED  BY <3>2 DEF AllOf
  <2> QED  BY <1>3, <2>1, <2>2
<1>5. ASSUME NEW n \in 1 .. Len(parts), NEW s \in V[n - 1] PROVE s \o parts[n] \in V[n]
  <2>1. n \in Nat /\ n - 1 \in Nat
    BY <1>1
  <2>2. s \in Seq(W) /\ Sound(a, s, {}, {}, {}, N, T, D) /\ Founding(s, Rows(n - 1)) /\ IsSeq(s)
    BY <1>3, <2>1 DEF Sound
  <2>3. s \o parts[n] \in Seq(W)
    BY <1>2, <2>2
  <2>4. Sound(a, s \o parts[n], {}, {}, {}, N, T, D)
    BY <1>0, <2>2, SoundBoth
  <2>5. \A x \in Rows(n - 1), y \in R[n] : x.id # y.id
    <3> SUFFICES ASSUME NEW m \in 1 .. n - 1, NEW x \in R[m], NEW y \in R[n] PROVE x.id # y.id
      BY DEF AllOf
    <3>1. m \in 1 .. Len(parts) /\ m < n
      BY <1>1
    <3> QED  BY <1>0, <3>1
  <2>6. Founding(s \o parts[n], Rows(n - 1) \cup R[n])
    <3> HIDE DEF Rows
    <3> QED  BY <1>0, <1>2, <2>2, <2>5, FoundingBoth
  <2>7. Rows(n - 1) \cup R[n] = Rows(n)
    <3>1. \A m \in 1 .. n : m \in 1 .. n - 1 \/ m = n
      BY <2>1
    <3>2. n \in 1 .. n /\ \A m \in 1 .. n - 1 : m \in 1 .. n
      BY <2>1
    <3> QED  BY <3>1, <3>2 DEF AllOf
  <2> HIDE DEF Rows
  <2> QED  BY <1>3, <2>1, <2>3, <2>4, <2>6, <2>7
<1>6. all \in V[Len(parts)]
  BY <1>0, <1>2, <1>4, <1>5, Flattened
<1> HIDE DEF all
<1>7. Sound(a, all, {}, {}, {}, N, T, D) /\ Founding(all, Rows(Len(parts)))
  BY <1>1, <1>3, <1>6
<1> QED
  BY <1>7 DEF all

\* What is made of the items, each at its place.
PlanOk(P) ==
  /\ \A d \in P : d.at \in 1 .. Len(queue) /\ RightFor(d, d.at)
  /\ \A d, e \in P : d.at = e.at => d = e

\* A plan decides every item once.
LEMMA PlanIsOk ==
  ASSUME IInv
  PROVE  PlanOk(Plan)
<1>1. \A k \in Candidates : k \in 1 .. Len(queue) /\ RightFor(Resolve(k), k)
  BY Stored, ResolveOk DEF Candidates
<1>2. \A k \in Candidates : Resolve(k).at = k
  BY <1>1 DEF RightFor
<1>3. \A d \in Plan : \E k \in Candidates : d = Resolve(k)
  BY DEF Plan
<1>4. \A d \in Plan : d.at \in 1 .. Len(queue) /\ RightFor(d, d.at)
  BY <1>1, <1>2, <1>3
<1>5. \A d, e \in Plan : d.at = e.at => d = e
  BY <1>2, <1>3
<1> QED
  BY <1>4, <1>5 DEF PlanOk

\* The first who bears a name.
LEMMA FirstBearer ==
  ASSUME NEW P, PlanOk(P), IInv, NEW d \in Creates(P)
  PROVE  /\ Bearers(P, d) \subseteq 1 .. Len(queue)
         /\ Min(Bearers(P, d)) \in Bearers(P, d) /\ Min(Bearers(P, d)) \in Nat
         /\ \A k \in Bearers(P, d) : Whole(NameOf(queue[k])) = Whole(NameOf(queue[d.at]))
<1> DEFINE B == Bearers(P, d)
<1>1. B \subseteq 1 .. Len(queue) /\ \A k \in B : Whole(NameOf(queue[k])) = Whole(NameOf(queue[d.at]))
  BY DEF Bearers, Creates, PlanOk
<1>2. d.at \in B
  BY DEF Bearers
<1> HIDE DEF B
<1>3. B \in SUBSET Nat /\ B # {}
  BY <1>1, <1>2
<1>4. Min(B) \in B
  BY <1>3, LeastMember
<1> QED
  BY <1>1, <1>3, <1>4 DEF B

\* The store a founder founds.
Row(P, d) == NewStore(IdFor(P, d), NameOf(queue[d.at]), d.mcc, "bulk").row

\* The writes of a store to create: the store, its alias and the items that bear its
\* name.
LEMMA CreateWritesOk ==
  ASSUME IInv, NEW P, PlanOk(P), NEW d \in Creates(P)
  PROVE  /\ Founding(CreateWrites(P, d), {Row(P, d)})
         /\ Sound("bulk", CreateWrites(P, d), {}, {}, {}, NamesOf(stores), Range(aliases), deals)
<1> PICK id : id = IdFor(P, d)
  OBVIOUS
<1> PICK name : name = NameOf(queue[d.at])
  OBVIOUS
<1> DEFINE N == NamesOf(stores)
           T == Range(aliases)
           first == <<NewStore(id, name, d.mcc, "bulk"), SaveAlias(id, name)>>
           group == InOrder(Bearers(P, d), Len(queue))
           closing == [n \in DOMAIN group |-> CloseItem(queue[group[n]], "created", id, "bulk")]
           row == NewStore(id, name, d.mcc, "bulk").row
           taught == [store |-> id, form |-> Whole(name)]
<1>1. CreateWrites(P, d) = first \o closing /\ row = Row(P, d)
  BY DEF CreateWrites, Row
<1>2. Len(queue) \in Nat
  BY Stored
<1>3. Sound("bulk", first, {<<id, name, "bulk">>}, {taught}, {}, N, T, deals) /\ Founding(first, {row}) /\ IsSeq(first)
  <2>1. "bulk" \in {"operator", "bulk"}
    OBVIOUS
  <2>2. Sound("bulk", first, {<<id, name, "bulk">>}, {taught}, {}, N, T, deals) /\ Founding(first, {row})
    BY <1>2, <2>1, FoundAndTaught
  <2> QED  BY <2>2 DEF Sound
<1> HIDE DEF first, row
<1>4. IsSeq(group) /\ Len(group) \in Nat /\ DOMAIN group = 1 .. Len(group) /\ \A n \in 1 .. Len(group) : group[n] \in Bearers(P, d)
  <2>1. Ascends(group, Bearers(P, d), Len(queue))
    BY <1>2, Ordered
  <2> HIDE DEF group
  <2> QED  BY <2>1, SeqFacts DEF Ascends
<1> HIDE DEF group
<1>5. closing = [n \in 1 .. Len(group) |-> closing[n]]
      /\ \A n \in 1 .. Len(group) : closing[n] = CloseItem(queue[group[n]], "created", id, "bulk")
  BY <1>4
<1>6. IsSeq(closing) /\ Len(closing) = Len(group)
  <2> HIDE DEF closing
  <2> QED  BY <1>4, <1>5, SeqFrom
<1> HIDE DEF closing
<1>7. ASSUME NEW n \in 1 .. Len(closing)
      PROVE  /\ closing[n].op = "item" /\ May("bulk", closing[n])
             /\ Right(closing[n], N \cup {<<id, name, "bulk">>}, T \cup {taught}, deals \cup {})
  <2>1. PICK k : k = group[n]
    OBVIOUS
  <2>2. k \in Bearers(P, d) /\ closing[n] = CloseItem(queue[k], "created", id, "bulk")
    BY <1>4, <1>5, <1>6, <2>1
  <2>3. k \in 1 .. Len(queue) /\ Whole(NameOf(queue[k])) = Whole(name)
    BY <2>2, FirstBearer
  <2>4. IsItem(queue[k]) /\ BestIn(queue[k])
    BY <2>3, Stored
  <2>5. <<id, name, "bulk">> \in N \cup {<<id, name, "bulk">>} /\ <<id, name, "bulk">>[1] = id /\ <<id, name, "bulk">>[2] = name
    OBVIOUS
  <2>6. \E m \in N \cup {<<id, name, "bulk">>} : m[1] = id /\ Online(Whole(NameOf(queue[k]))) = Online(Whole(m[2]))
    BY <2>3, <2>5
  <2>7. [store |-> id, form |-> Whole(NameOf(queue[k]))] \in T \cup {taught}
    BY <2>3
  <2>8. "created" # "pending" /\ "created" \in Closed /\ "bulk" # "operator"
    BY DEF Closed
  <2> HIDE DEF N, T, taught
  <2>9. LET w == CloseItem(queue[k], "created", id, "bulk")
        IN w.op = "item" /\ May("bulk", w) /\ Right(w, N \cup {<<id, name, "bulk">>}, T \cup {taught}, deals \cup {})
    BY <2>3, <2>4, <2>6, <2>7, <2>8, Closing
  <2> QED  BY <2>2, <2>9
<1>8. MayAll("bulk", closing) /\ Founding(closing, {})
  <2>1. \A n \in 1 .. Len(closing) : May("bulk", closing[n]) /\ closing[n].op # "store"
    BY <1>7
  <2> QED  BY <2>1, FoundsNone DEF MayAll
<1>9. Sound("bulk", first \o closing, {<<id, name, "bulk">>} \cup NamesIn(closing, Len(closing)), {taught} \cup TaughtIn(closing, Len(closing)),
            {} \cup DealsIn(closing, Len(closing)), N, T, deals)
  <2> HIDE DEF N, T, taught
  <2> QED  BY <1>2, <1>3, <1>6, <1>7, <1>8, SoundThen
<1>10. Founding(first \o closing, {row} \cup {})
  BY <1>3, <1>6, <1>8, FoundingBoth
<1>11. {row} \cup {} = {row}
  OBVIOUS
<1> QED
  BY <1>1, <1>9, <1>10, <1>11 DEF Sound

\* The writes of a link: the alias before the item.
LEMMA BulkLinkOk ==
  ASSUME IInv, NEW P, PlanOk(P), NEW d \in Links(P)
  PROVE  /\ Founding(BulkLink(d), {})
         /\ Sound("bulk", BulkLink(d), {}, {}, {}, NamesOf(stores), Range(aliases), deals)
<1> DEFINE N == NamesOf(stores)
           T == Range(aliases)
           learn == SaveAlias(d.store, NameOf(queue[d.at]))
           item == CloseItem(queue[d.at], "approved", d.store, "bulk")
<1>1. /\ d.at \in 1 .. Len(queue) /\ IsItem(queue[d.at]) /\ BestIn(queue[d.at])
      /\ d.store \in IdsOf(stores) /\ Agrees(d.store, NameOf(queue[d.at]))
  <2>1. d.at \in 1 .. Len(queue) /\ d.store \in IdsOf(stores) /\ Agrees(d.store, NameOf(queue[d.at]))
    BY DEF Links, PlanOk, RightFor
  <2> QED  BY <2>1, Stored
<1>2. learn.op = "alias" /\ learn.row = [store |-> d.store, form |-> Whole(NameOf(queue[d.at]))] /\ May("bulk", learn)
  BY DEF SaveAlias, Ops, May, MayWrite, BestOk
<1>3. BulkLink(d) = <<learn>> \o <<item>>
  BY DEF BulkLink
<1> HIDE DEF learn, N, T
<1>4. \E n \in N : n[1] = d.store /\ Online(Whole(NameOf(queue[d.at]))) = Online(Whole(n[2]))
  BY <1>1 DEF Agrees, N
<1>5. Right(learn, N \cup {}, T \cup {}, deals \cup {})
  BY <1>2, <1>4 DEF Right
<1>6. Sound("bulk", <<>> \o <<learn>>, {}, {} \cup {learn.row}, {}, N, T, deals)
  <2>1. Sound("bulk", <<>>, {}, {}, {}, N, T, deals)
    BY SoundNothing
  <2> QED  BY <1>1, <1>2, <1>5, <2>1, SoundNext
<1>7. <<>> \o <<learn>> = <<learn>> /\ {} \cup {learn.row} = {learn.row}
  BY ConcatNothing, SingleWrite
<1>8. Sound("bulk", <<learn>>, {}, {learn.row}, {}, N, T, deals)
  BY <1>6, <1>7
<1>9. item.op = "item" /\ May("bulk", item) /\ Right(item, N \cup {}, T \cup {learn.row}, deals \cup {})
  <2>1. "approved" # "pending" /\ "approved" \in Closed /\ "bulk" # "operator"
    BY DEF Closed
  <2>2. \E n \in N \cup {} : n[1] = d.store /\ Online(Whole(NameOf(queue[d.at]))) = Online(Whole(n[2]))
    BY <1>4
  <2>3. [store |-> d.store, form |-> Whole(NameOf(queue[d.at]))] \in T \cup {learn.row}
    BY <1>2
  <2> QED  BY <1>1, <2>1, <2>2, <2>3, Closing
<1> HIDE DEF item
<1>11. Sound("bulk", <<learn>> \o <<item>>, {}, {learn.row}, {}, N, T, deals)
  BY <1>1, <1>8, <1>9, SoundNext
<1>12. Founding(<<learn>> \o <<item>>, {})
  <2>1. Founding(<<learn>>, {}) /\ Founding(<<item>>, {}) /\ IsSeq(<<learn>>) /\ IsSeq(<<item>>)
    BY <1>2, <1>9, FoundsOne, SingleWrite
  <2>2. Founding(<<learn>> \o <<item>>, {} \cup {})
    BY <2>1, FoundingBoth
  <2>3. {} \cup {} = {}
    OBVIOUS
  <2> QED  BY <2>2, <2>3
<1> QED
  BY <1>3, <1>11, <1>12 DEF Sound, N, T

\* What some decisions write, each right by itself, fits together.
LEMMA EachFits ==
  ASSUME IInv, NEW f, NEW R,
         \A d \in DOMAIN f :
           Sound("bulk", f[d], {}, {}, {}, NamesOf(stores), Range(aliases), deals) /\ Founding(f[d], R[d]),
         \A d, e \in DOMAIN f : d.at # e.at => \A x \in R[d], y \in R[e] : x.id # y.id
  PROVE  /\ Sound("bulk", Each(f), {}, {}, {}, NamesOf(stores), Range(aliases), deals)
         /\ Founding(Each(f), AllOf(R, DOMAIN f))
<1> DEFINE at == {d.at : d \in DOMAIN f}
           places == InOrder(at, Len(queue))
           Of(n) == CHOOSE d \in DOMAIN f : d.at = places[n]
           parts == [n \in DOMAIN places |-> f[Of(n)]]
           R2 == [n \in DOMAIN places |-> R[Of(n)]]
           all == AllOf(R, DOMAIN f)
           ws == Each(f)
<1>1. ws = FlattenSeq(parts)
  BY DEF Each
<1> HIDE DEF ws
<1>2. /\ IsSeq(places) /\ Len(places) \in Nat /\ DOMAIN places = 1 .. Len(places)
      /\ \A n \in 1 .. Len(places) : places[n] \in at /\ places[n] \in 1 .. Len(queue)
      /\ \A m, n \in 1 .. Len(places) : m < n => places[m] < places[n]
  <2>1. Ascends(places, at, Len(queue))
    BY Stored, Ordered
  <2> HIDE DEF places, at
  <2> QED  BY <2>1, SeqFacts DEF Ascends
<1>3. \A n \in 1 .. Len(places) : \E d \in DOMAIN f : d.at = places[n]
  BY <1>2
<1> HIDE DEF places
<1>4. \A n \in 1 .. Len(places) : Of(n) \in DOMAIN f /\ Of(n).at = places[n]
  BY <1>3
<1> HIDE DEF Of, at
<1>5. /\ parts = [n \in 1 .. Len(places) |-> parts[n]]
      /\ \A n \in 1 .. Len(places) : parts[n] = f[Of(n)] /\ R2[n] = R[Of(n)]
  BY <1>2
<1> HIDE DEF parts, R2
<1>6. IsSeq(parts) /\ Len(parts) = Len(places)
  BY <1>2, <1>5, SeqFrom
<1>7. ASSUME NEW n \in 1 .. Len(parts)
      PROVE  /\ Sound("bulk", parts[n], {}, {}, {}, NamesOf(stores), Range(aliases), deals)
             /\ Founding(parts[n], R2[n])
  BY <1>4, <1>5, <1>6
<1>8. ASSUME NEW m \in 1 .. Len(parts), NEW n \in 1 .. Len(parts), m < n, NEW x \in R2[m], NEW y \in R2[n]
      PROVE  x.id # y.id
  <2>1. places[m] < places[n] /\ places[m] \in Nat /\ places[n] \in Nat
    BY <1>2, <1>6, <1>8
  <2>2. Of(m).at # Of(n).at
    BY <1>4, <1>6, <2>1
  <2>3. x \in R[Of(m)] /\ y \in R[Of(n)] /\ Of(m) \in DOMAIN f /\ Of(n) \in DOMAIN f
    BY <1>4, <1>5, <1>6
  <2> QED  BY <2>2, <2>3
<1>10. PartsFit("bulk", parts, R2, NamesOf(stores), Range(aliases), deals)
  BY <1>6, <1>7, <1>8 DEF PartsFit
<1>11. /\ Sound("bulk", FlattenSeq(parts), {}, {}, {}, NamesOf(stores), Range(aliases), deals)
       /\ Founding(FlattenSeq(parts), AllOf(R2, 1 .. Len(parts)))
  BY <1>10, SoundParts
<1>12. AllOf(R2, 1 .. Len(parts)) \subseteq all
  BY <1>4, <1>5, <1>6 DEF AllOf
<1>13. Founding(FlattenSeq(parts), all)
  <2> HIDE DEF all
  <2> QED  BY <1>11, <1>12 DEF Founding
<1> QED
  BY <1>1, <1>11, <1>13 DEF ws

\* The stores of the founders, and what they close.
LEMMA FoundersWrite ==
  ASSUME IInv, NEW P, PlanOk(P)
  PROVE  LET ws == Each([d \in Founders(P) |-> CreateWrites(P, d)])
         IN /\ Sound("bulk", ws, {}, {}, {}, NamesOf(stores), Range(aliases), deals)
            /\ Founding(ws, {Row(P, d) : d \in Founders(P)})
<1> DEFINE f == [d \in Founders(P) |-> CreateWrites(P, d)]
           R == [d \in Founders(P) |-> {Row(P, d)}]
           all == {Row(P, d) : d \in Founders(P)}
<1>1. DOMAIN f = Founders(P) /\ \A d \in Founders(P) : f[d] = CreateWrites(P, d) /\ R[d] = {Row(P, d)} /\ d \in Creates(P)
  BY DEF Founders
<1> HIDE DEF f, R
<1>2. \A d \in DOMAIN f :
        /\ Sound("bulk", f[d], {}, {}, {}, NamesOf(stores), Range(aliases), deals)
        /\ Founding(f[d], R[d])
  BY <1>1, CreateWritesOk
<1>3. ASSUME NEW d \in DOMAIN f, NEW e \in DOMAIN f, d.at # e.at, NEW x \in R[d], NEW y \in R[e]
      PROVE  x.id # y.id
  <2>1. x = Row(P, d) /\ y = Row(P, e)
    BY <1>1
  <2>2. x.id = NewId("bulk", begun["bulk"], d.at) /\ y.id = NewId("bulk", begun["bulk"], e.at)
    BY <1>1, <2>1 DEF Row, NewStore, SaveStore, IdFor, Founders
  <2> QED  BY <1>3, <2>2 DEF NewId
<1>4. /\ Sound("bulk", Each(f), {}, {}, {}, NamesOf(stores), Range(aliases), deals)
      /\ Founding(Each(f), AllOf(R, DOMAIN f))
  BY <1>2, <1>3, EachFits
<1>5. AllOf(R, DOMAIN f) = all
  BY <1>1 DEF AllOf
<1> QED
  BY <1>4, <1>5 DEF f

\* All the links of a plan, in the order of their items.
LEMMA LinksWrite ==
  ASSUME IInv, NEW P, PlanOk(P)
  PROVE  LET ws == Each([d \in Links(P) |-> BulkLink(d)])
         IN /\ Sound("bulk", ws, {}, {}, {}, NamesOf(stores), Range(aliases), deals)
            /\ Founding(ws, {})
<1> DEFINE f == [d \in Links(P) |-> BulkLink(d)]
           R == [d \in Links(P) |-> {}]
<1>1. DOMAIN f = Links(P) /\ \A d \in Links(P) : f[d] = BulkLink(d) /\ R[d] = {}
  OBVIOUS
<1> HIDE DEF f, R
<1>2. \A d \in DOMAIN f :
        /\ Sound("bulk", f[d], {}, {}, {}, NamesOf(stores), Range(aliases), deals)
        /\ Founding(f[d], R[d])
  BY <1>1, BulkLinkOk
<1>3. \A d, e \in DOMAIN f : d.at # e.at => \A x \in R[d], y \in R[e] : x.id # y.id
  BY <1>1
<1>4. /\ Sound("bulk", Each(f), {}, {}, {}, NamesOf(stores), Range(aliases), deals)
      /\ Founding(Each(f), AllOf(R, DOMAIN f))
  BY <1>2, <1>3, EachFits
<1>5. AllOf(R, DOMAIN f) = {}
  BY <1>1 DEF AllOf
<1> QED
  BY <1>4, <1>5 DEF f

\* The clubs are finitely many, and rely on nothing.
LEMMA ClubsWrite ==
  ASSUME IInv, NEW P
  PROVE  LET joined == SetToSeq({s \in DOMAIN clubs : Joins(P, s) # {}})
             ws == [n \in DOMAIN joined |-> JoinClub(joined[n], Joins(P, joined[n]))]
         IN /\ Sound("bulk", ws, {}, {}, {}, NamesOf(stores), Range(aliases), deals)
            /\ Founding(ws, {})
<1> DEFINE S == {s \in DOMAIN clubs : Joins(P, s) # {}}
           joined == SetToSeq(S)
           ws == [n \in DOMAIN joined |-> JoinClub(joined[n], Joins(P, joined[n]))]
<1>1. IsFiniteSet(S)
  <2>1. IsFiniteSet(DOMAIN Records)
    BY CatalogueAssumption
  <2>2. IsFiniteSet({Records[r].source : r \in DOMAIN Records})
    <3> DEFINE f == [r \in DOMAIN Records |-> Records[r].source]
               I == {Records[r].source : r \in DOMAIN Records}
    <3>1. f \in Surjection(DOMAIN Records, I)
      BY DEF Surjection
    <3> HIDE DEF f, I
    <3>2. IsFiniteSet(I)
      BY <2>1, <3>1, FS_Surjection
    <3> QED  BY <3>2 DEF I
  <2>3. S \subseteq {Records[r].source : r \in DOMAIN Records}
    BY DEF IInv, Shape, Sources
  <2> HIDE DEF S
  <2> QED  BY <2>2, <2>3, FS_Subset
<1> HIDE DEF S
<1>2. IsSeq(joined)
  BY <1>1, Sequenced
<1>3. Len(joined) \in Nat /\ DOMAIN joined = 1 .. Len(joined)
  <2> HIDE DEF joined
  <2> QED  BY <1>2, SeqFacts
<1> HIDE DEF joined
<1>4. ws = [n \in 1 .. Len(joined) |-> ws[n]] /\ \A n \in 1 .. Len(joined) : ws[n].op = "club"
  BY <1>3 DEF JoinClub
<1> HIDE DEF ws
<1>5. IsSeq(ws) /\ Len(ws) = Len(joined)
  BY <1>3, <1>4, SeqFrom
<1>6. \A n \in 1 .. Len(ws) : ws[n].op = "club"
  BY <1>4, <1>5
<1>7. MayAll("bulk", ws) /\ Founding(ws, {})
  <2>1. \A n \in 1 .. Len(ws) : May("bulk", ws[n]) /\ ws[n].op # "store"
    BY <1>6 DEF May, MayWrite, BestOk, Ops
  <2> QED  BY <2>1, FoundsNone DEF MayAll
<1>8. Backed(ws, NamesOf(stores), Range(aliases), deals)
  BY <1>6 DEF Backed, Right
<1>9. Sound("bulk", ws, {}, {}, {}, NamesOf(stores), Range(aliases), deals)
  BY <1>5, <1>7, <1>8 DEF Sound
<1> QED
  BY <1>7, <1>9 DEF ws, joined, S


\* The stores of a plan have ids of this turn, and while the catalogue loses nothing, names
\* no store of the bulk resolution has without another.
LEMMA FoundedAreFresh ==
  ASSUME IInv, NEW P, PlanOk(P), NEW ws, Founding(ws, {Row(P, d) : d \in Founders(P)})
  PROVE  /\ \A p \in NewStores(ws) : \E m \in Nat : ws[p].row.id = NewId("bulk", begun["bulk"], m)
         /\ Kept => FreshNames(ws, NamesOf(stores), Range(aliases))
<1> PICK N : N = NamesOf(stores)
  OBVIOUS
<1> PICK T : T = Range(aliases)
  OBVIOUS
<1>1. \A d \in Founders(P) : d \in Creates(P) /\ d \in P
  BY DEF Founders, Creates
<1>2. ASSUME NEW d \in Founders(P)
      PROVE  /\ Row(P, d).id = IdFor(P, d) /\ Row(P, d).name = NameOf(queue[d.at])
             /\ \E m \in Nat : IdFor(P, d) = NewId("bulk", begun["bulk"], m)
  <2>1. Min(Bearers(P, d)) \in Nat
    BY <1>1, FirstBearer
  <2> QED  BY <2>1 DEF Row, NewStore, SaveStore, IdFor
<1>3. ASSUME NEW p \in NewStores(ws) PROVE \E d \in Founders(P) : ws[p].row = Row(P, d)
  BY DEF Founding
<1>4. \A p \in NewStores(ws) : \E m \in Nat : ws[p].row.id = NewId("bulk", begun["bulk"], m)
  BY <1>2, <1>3
<1>5. ASSUME Kept, NEW p \in NewStores(ws), NEW n \in N, n[3] = "bulk", Whole(ws[p].row.name) = Whole(n[2])
      PROVE  Other(Whole(n[2]), N, T)
  <2>1. PICK d \in Founders(P) : ws[p].row = Row(P, d)
    BY <1>3
  <2>2. RightFor(d, d.at) /\ d.act = "create"
    BY <1>1 DEF Creates, PlanOk
  <2>3. Whole(n[2]) = Whole(NameOf(queue[d.at]))
    BY <1>2, <1>5, <2>1
  <2> QED  BY <1>5, <2>2, <2>3 DEF RightFor
<1>6. ASSUME NEW p \in NewStores(ws), NEW r \in NewStores(ws), Whole(ws[p].row.name) = Whole(ws[r].row.name)
      PROVE  p = r
  <2>1. PICK d \in Founders(P) : ws[p].row = Row(P, d)
    BY <1>3
  <2>2. PICK e \in Founders(P) : ws[r].row = Row(P, e)
    BY <1>3
  <2>3. Whole(NameOf(queue[d.at])) = Whole(NameOf(queue[e.at]))
    BY <1>2, <1>6, <2>1, <2>2
  <2>4. Bearers(P, d) = Bearers(P, e)
    BY <2>3 DEF Bearers
  <2>5. IdFor(P, d) = IdFor(P, e)
    BY <2>4 DEF IdFor
  <2>6. ws[p].row.id = ws[r].row.id
    BY <1>2, <2>1, <2>2, <2>5
  <2> QED  BY <2>6 DEF Founding
<1>7. Kept => FreshNames(ws, N, T)
  BY <1>5, <1>6 DEF FreshNames
<1> QED
  BY <1>4, <1>7

\* The bulk resolution begins with writes that are good, by one reading of the files.
LEMMA BulkOk ==
  ASSUME IInv, BulkResolve
  PROVE  \E ws : Good("bulk", ws) /\ Begin("bulk", ws) /\ hand' \subseteq hand
<1> PICK P : P = Plan
  OBVIOUS
<1> DEFINE all == {Row(P, d) : d \in Founders(P)}
           creates == Each([d \in Founders(P) |-> CreateWrites(P, d)])
           links == Each([d \in Links(P) |-> BulkLink(d)])
           joined == SetToSeq({s \in DOMAIN clubs : Joins(P, s) # {}})
           joins == [n \in DOMAIN joined |-> JoinClub(joined[n], Joins(P, joined[n]))]
           ws == creates \o links \o joins
           Fits(s) == Sound("bulk", s, {}, {}, {}, NamesOf(stores), Range(aliases), deals)
<1>1. PlanOk(P)
  BY PlanIsOk
<1>2. Fits(creates) /\ Founding(creates, all)
  BY <1>1, FoundersWrite
<1>3. Fits(links) /\ Founding(links, {})
  BY <1>1, LinksWrite
<1>4. Fits(joins) /\ Founding(joins, {})
  BY ClubsWrite
<1>5. Begin("bulk", ws) /\ hand' = hand
  BY DEF BulkResolve, Writes
<1> HIDE DEF creates, links, joins, all
<1>6. Fits(creates \o links) /\ Founding(creates \o links, all \cup {})
  <2>1. IsSeq(creates) /\ IsSeq(links)
    BY <1>2, <1>3 DEF Sound
  <2> QED  BY <1>2, <1>3, <2>1, SoundBoth, FoundingBoth
<1>7. Fits(ws) /\ Founding(ws, (all \cup {}) \cup {})
  <2>1. IsSeq(creates \o links) /\ IsSeq(joins)
    BY <1>4, <1>6 DEF Sound
  <2>2. \A x \in all \cup {}, y \in {} : x.id # y.id
    OBVIOUS
  <2> QED  BY <1>4, <1>6, <2>1, <2>2, SoundBoth, FoundingBoth
<1>8. (all \cup {}) \cup {} = all
  OBVIOUS
<1> HIDE DEF ws
<1>9. /\ \A p \in NewStores(ws) : \E m \in Nat : ws[p].row.id = NewId("bulk", begun["bulk"], m)
      /\ Kept => FreshNames(ws, NamesOf(stores), Range(aliases))
  BY <1>1, <1>7, <1>8, FoundedAreFresh DEF all
<1>10. IsSeq(ws) /\ MayAll("bulk", ws) /\ Backed(ws, NamesOf(stores), Range(aliases), deals)
  BY <1>7 DEF Sound
<1>11. /\ OpsOk("bulk", ws) /\ FreshAdds(ws, queue) /\ FreshGroups(ws, groups)
       /\ Kept => \A i \in RowsIn(ws, {"item", "add"}) : i.best = None \/ \E n \in NamesOf(stores) : n[1] = i.best
  BY <1>10, AddsNobody
<1>12. \A p, r \in NewStores(ws) : ws[p].row.id = ws[r].row.id => p = r
  BY <1>7 DEF Founding
<1>13. Good("bulk", ws)
  BY <1>9, <1>10, <1>11, <1>12 DEF Good
<1> QED
  BY <1>5, <1>13

-----------------------------------------------------------------------------
(* The syncs.                                                              *)

\* The parts of a sequence are made of what it is made of.
LEMMA FlattenIn ==
  ASSUME NEW M, NEW parts, IsSeq(parts), \A n \in 1 .. Len(parts) : parts[n] \in Seq(M)
  PROVE  FlattenSeq(parts) \in Seq(M)
<1> DEFINE V == [i \in Nat |-> Seq(M)]
<1>1. Len(parts) \in Nat
  BY SeqFacts
<1>2. \A i \in Nat : V[i] = Seq(M)
  OBVIOUS
<1> HIDE DEF V
<1>3. <<>> \in V[0]
  <2>1. <<>> \in Seq(M)
    OBVIOUS
  <2>2. V[0] = Seq(M)
    BY <1>2
  <2> QED  BY <2>1, <2>2
<1>4. ASSUME NEW n \in 1 .. Len(parts), NEW s \in V[n - 1] PROVE s \o parts[n] \in V[n]
  <2>1. n \in Nat /\ n - 1 \in Nat
    BY <1>1
  <2>2. s \in Seq(M) /\ parts[n] \in Seq(M)
    BY <1>2, <2>1
  <2>3. s \o parts[n] \in Seq(M)
    BY <2>2
  <2> QED  BY <1>2, <2>1, <2>3
<1>5. \A n \in 1 .. Len(parts) : IsSeq(parts[n])
  BY SeqIn
<1>6. FlattenSeq(parts) \in V[Len(parts)]
  BY <1>3, <1>4, <1>5, Flattened
<1> QED
  BY <1>1, <1>2, <1>6

\* The same, of one part for each element of a finite set.
LEMMA FlattenOver ==
  ASSUME NEW M, NEW S, IsFiniteSet(S), NEW part, \A x \in S : part[x] \in Seq(M)
  PROVE  FlattenSeq([n \in DOMAIN SetToSeq(S) |-> part[SetToSeq(S)[n]]]) \in Seq(M)
<1> DEFINE order == SetToSeq(S)
           parts == [n \in DOMAIN order |-> part[order[n]]]
<1>1. IsSeq(order) /\ \A i \in 1 .. Len(order) : order[i] \in S
  BY Sequenced
<1> HIDE DEF order
<1>2. Len(order) \in Nat /\ DOMAIN order = 1 .. Len(order)
  BY <1>1, SeqFacts
<1>3. parts = [n \in 1 .. Len(order) |-> parts[n]] /\ \A n \in 1 .. Len(order) : parts[n] \in Seq(M)
  BY <1>1, <1>2
<1> HIDE DEF parts
<1>4. IsSeq(parts) /\ Len(parts) = Len(order)
  BY <1>2, <1>3, SeqFrom
<1>5. FlattenSeq(parts) \in Seq(M)
  BY <1>3, <1>4, FlattenIn
<1> QED
  BY <1>5 DEF parts, order
\* _resolve_member: a member of a group gets a store, or none.
LEMMA MemberOfFiles ==
  ASSUME NEW r \in DOMAIN Records
  PROVE  IsGroupMember(Resolved(r)) /\ Resolved(r).raw = r
<1>1. Resolved(r) = [raw |-> r, store |-> IF MemberVerdict(r).auto THEN MemberVerdict(r).store ELSE None]
  BY DEF Resolved
<1> QED
  BY <1>1 DEF IsGroupMember

\* A sync queues names that wait nowhere, and keeps the entries made by hand.
LEMMA SyncOk ==
  ASSUME IInv, NEW a \in Syncs, NEW raws, IsSeq(raws), \A n \in 1 .. Len(raws) : raws[n] \in DOMAIN Records,
         NEW all, HandAs(all), KeepsStores(groups, all), Sync(a, raws, all)
  PROVE  \E ws : Good(a, ws) /\ Begin(a, ws) /\ hand' \subseteq hand
<1> DEFINE places == Unresolved(raws)
           new == InOrder(places, Len(raws))
           adds == [n \in DOMAIN new |-> AddItem(NewId(a, begun[a], new[n]), raws[new[n]], MemberVerdict(raws[new[n]]).store)]
           last == SaveGroups(all)
           ws == adds \o <<last>>
<1>1. Begin(a, ws) /\ hand' = hand
  BY DEF Sync
<1>2. Len(raws) \in Nat /\ DOMAIN raws = 1 .. Len(raws)
  BY SeqFacts
<1>3. /\ IsSeq(new) /\ Len(new) \in Nat /\ DOMAIN new = 1 .. Len(new)
      /\ \A n \in 1 .. Len(new) : new[n] \in places /\ new[n] \in 1 .. Len(raws)
      /\ \A m, n \in 1 .. Len(new) : m < n => new[m] < new[n]
  <2>1. Ascends(new, places, Len(raws))
    BY <1>2, Ordered
  <2> HIDE DEF places, new
  <2> QED  BY <2>1, SeqFacts DEF Ascends
<1> HIDE DEF new
<1>4. /\ adds = [n \in 1 .. Len(new) |-> adds[n]]
      /\ \A n \in 1 .. Len(new) : adds[n] = AddItem(NewId(a, begun[a], new[n]), raws[new[n]], MemberVerdict(raws[new[n]]).store)
  BY <1>3
<1> HIDE DEF adds
<1>5. IsSeq(adds) /\ Len(adds) = Len(new)
  BY <1>3, <1>4, SeqFrom
<1>6. IsSeq(<<last>>) /\ Len(<<last>>) = 1 /\ <<last>>[1] = last
  BY SingleWrite
<1>7. last.op = "groups" /\ last.row = all
  BY DEF SaveGroups
<1> HIDE DEF last
<1>8. IsSeq(ws) /\ Len(ws) = Len(adds) + 1
  BY <1>5, <1>6, SeqConcat
<1>9. ASSUME NEW p \in 1 .. Len(ws)
      PROVE  \/ p \in 1 .. Len(adds) /\ ws[p] = adds[p]
             \/ p = Len(ws) /\ ws[p] = last
  <2>1. CASE p \in 1 .. Len(adds) /\ ws[p] = adds[p]
    BY <2>1
  <2>2. CASE \E i \in 1 .. Len(<<last>>) : p = Len(adds) + i /\ ws[p] = <<last>>[i]
    <3>1. PICK i \in 1 .. 1 : p = Len(adds) + i /\ ws[p] = <<last>>[i]
      BY <1>6, <2>2
    <3>2. i = 1
      OBVIOUS
    <3> HIDE DEF ws
    <3> QED  BY <1>6, <1>8, <3>1, <3>2
  <2>3. \/ p \in 1 .. Len(adds) /\ ws[p] = adds[p]
        \/ \E i \in 1 .. Len(<<last>>) : p = Len(adds) + i /\ ws[p] = <<last>>[i]
    BY <1>5, <1>6, PlacesOfConcat, Z3
  <2> QED  BY <2>1, <2>2, <2>3
<1> HIDE DEF ws
\* What is added: a name that is not known, and its best candidate.
<1>10. ASSUME NEW n \in 1 .. Len(adds)
       PROVE  /\ adds[n].op = "add" /\ adds[n].row.raw = raws[new[n]] /\ May(a, adds[n])
              /\ \A N, T, D : Right(adds[n], N, T, D)
  <2>1. PICK r : r = raws[new[n]]
    OBVIOUS
  <2>2. PICK best : best = MemberVerdict(r).store
    OBVIOUS
  <2>3. r \in DOMAIN Records
    BY <1>3, <1>5, <2>1
  <2>4. PICK id : id = NewId(a, begun[a], new[n])
    OBVIOUS
  <2>5. adds[n] = AddItem(id, r, best)
    BY <1>4, <1>5, <2>1, <2>2, <2>4
  <2>6. NewItem(id, r, best).best = best
    BY DEF NewItem
  <2>7. BestIn(NewItem(id, r, best))
    BY <2>2, <2>6, BestOfFiles DEF MemberVerdict
  <2>8. a \in {"pipeline", "hot", "swish"}
    BY DEF Syncs
  <2> QED  BY <2>1, <2>3, <2>5, <2>7, <2>8, AddOk
<1>11. MayAll(a, ws)
  <2>1. "groups" \in Ops(a)
    BY DEF Ops, Syncs
  <2>2. May(a, last)
    BY <1>7, <2>1 DEF May, MayWrite, BestOk
  <2> QED  BY <1>9, <1>10, <2>2 DEF MayAll
<1>12. Backed(ws, NamesOf(stores), Range(aliases), deals)
  <2> SUFFICES ASSUME NEW p \in 1 .. Len(ws), NEW N, NEW T, NEW D
               PROVE  Right(ws[p], N, T, D)
    BY DEF Backed
  <2>1. CASE p \in 1 .. Len(adds) /\ ws[p] = adds[p]
    BY <1>10, <2>1
  <2>2. CASE ws[p] = last
    BY <1>7, <2>2 DEF Right
  <2> QED  BY <1>9, <2>1, <2>2
<1>13. FreshAdds(ws, queue)
  <2>1. ASSUME NEW p \in Added(ws) PROVE p \in 1 .. Len(new) /\ ws[p].row.raw = raws[new[p]]
    BY <1>5, <1>7, <1>9, <1>10 DEF Added
  <2>2. ASSUME NEW p \in Added(ws), NEW k \in 1 .. Len(queue), Waits(queue[k])
        PROVE  Records[ws[p].row.raw].text # Records[queue[k].raw].text
    <3>1. DOMAIN queue = 1 .. Len(queue)
      BY Stored
    <3>2. Records[queue[k].raw].text \in PendingNames
      BY <2>2, <3>1 DEF PendingNames, Waits
    <3>3. new[p] \in places
      BY <1>3, <2>1
    <3>4. Records[raws[new[p]]].text \notin PendingNames
      BY <3>3 DEF Unresolved, Unknown
    <3> QED  BY <2>1, <3>2, <3>4
  <2>3. ASSUME NEW p \in Added(ws), NEW r \in Added(ws),
               Records[ws[p].row.raw].text = Records[ws[r].row.raw].text
        PROVE  ~(p < r)
    <3> SUFFICES ASSUME p < r PROVE FALSE
      OBVIOUS
    <3>1. new[p] < new[r] /\ new[p] \in 1 .. Len(raws) /\ new[r] \in 1 .. Len(raws) /\ new[r] \in places
      BY <1>3, <2>1
    <3>2. new[p] \in 1 .. new[r] - 1
      BY <1>2, <3>1
    <3>3. Records[raws[new[p]]].text # Records[raws[new[r]]].text
      BY <3>1, <3>2 DEF Unresolved
    <3> QED  BY <2>1, <2>3, <3>3
  <2>4. ASSUME NEW p \in Added(ws), NEW r \in Added(ws),
               Records[ws[p].row.raw].text = Records[ws[r].row.raw].text
        PROVE  p = r
    <3>1. ~(p < r) /\ ~(r < p)
      BY <2>3, <2>4
    <3>2. p \in Nat /\ r \in Nat
      BY <1>3, <2>1
    <3> QED  BY <3>1, <3>2
  <2> QED  BY <2>2, <2>4 DEF FreshAdds
<1>14. FreshGroups(ws, groups)
  BY <1>7, <1>9, <1>10 DEF FreshGroups
<1>15. NewStores(ws) = {}
  BY <1>7, <1>9, <1>10 DEF NewStores
<1>16. Kept => \A i \in RowsIn(ws, {"item", "add"}) : i.best = None \/ \E n \in NamesOf(stores) : n[1] = i.best
  BY <1>11 DEF MayAll, May, BestOk, RowsIn
<1>17. OpsOk(a, ws) /\ a # "pipeline" /\ a # "bulk"
  BY <1>11 DEF MayAll, May, OpsOk, Syncs
<1>18. Good(a, ws)
  BY <1>8, <1>12, <1>13, <1>14, <1>15, <1>16, <1>17 DEF Good
<1> QED
  BY <1>1, <1>18

\* Groups that have the hand-made entries of those before have those of the beginning.
LEMMA HandAgain ==
  ASSUME HandAs(groups), NEW all, AreGroups(all), ByHand(all) = ByHand(groups),
         \A g \in ByHand(groups) :
           /\ Len(all[g].members) = Len(groups[g].members)
           /\ \A n \in 1 .. Len(groups[g].members) : all[g].members[n].raw = groups[g].members[n].raw
  PROVE  HandAs(all)
<1>1. ByHand(groups) = ByHand(Groups)
  BY DEF HandAs
<1>2. \A g \in ByHand(Groups) :
        /\ Len(groups[g].members) = Len(Groups[g].members)
        /\ \A n \in 1 .. Len(Groups[g].members) : groups[g].members[n].raw = Groups[g].members[n].raw
  BY DEF HandAs
<1>3. \A g \in ByHand(Groups) :
        /\ Len(all[g].members) = Len(Groups[g].members)
        /\ \A n \in 1 .. Len(Groups[g].members) : all[g].members[n].raw = Groups[g].members[n].raw
  BY <1>1, <1>2
<1> QED
  BY <1>1, <1>3 DEF HandAs

\* The entries made by hand are renewed, and nobody loses a store.
LEMMA SyncHotOk ==
  ASSUME IInv, SyncHot
  PROVE  \E ws : Good("hot", ws) /\ Begin("hot", ws) /\ hand' \subseteq hand
<1> DEFINE M == UNION {Range(groups[g].members) : g \in HandMade}
           part == [g \in HandMade |-> groups[g].members]
           flat == FlattenSeq([n \in DOMAIN SetToSeq(HandMade) |-> part[SetToSeq(HandMade)[n]]])
           members == FlattenSeq([n \in DOMAIN SetToSeq(HandMade) |-> groups[SetToSeq(HandMade)[n]].members])
           none == {n \in DOMAIN members : members[n].store = None}
           unknown == InOrder(none, Len(members))
           raws == [n \in DOMAIN unknown |-> members[unknown[n]].raw]
           renewed(ms) == [n \in DOMAIN ms |-> IF ms[n].store # None THEN ms[n] ELSE Resolved(ms[n].raw)]
           all == [g \in DOMAIN groups |-> IF g \in HandMade THEN [groups[g] EXCEPT !.members = renewed(@)] ELSE groups[g]]
<1>1. Sync("hot", raws, all)
  BY DEF SyncHot
<1>2. /\ IsFiniteSet(DOMAIN groups)
      /\ \A g \in DOMAIN groups :
           /\ groups[g] = [managed |-> groups[g].managed, members |-> groups[g].members] /\ groups[g].managed \in BOOLEAN
           /\ IsSeq(groups[g].members) /\ \A n \in 1 .. Len(groups[g].members) : IsGroupMember(groups[g].members[n])
           /\ g \in DOMAIN Cards => groups[g].managed
  BY DEF IInv, Entered, HandAs, AreGroups
<1>3. HandMade \subseteq DOMAIN groups
  BY DEF HandMade
<1>4. \A m \in M : IsGroupMember(m)
  <2> SUFFICES ASSUME NEW g \in HandMade, NEW n \in DOMAIN groups[g].members PROVE IsGroupMember(groups[g].members[n])
    BY DEF Range
  <2>1. DOMAIN groups[g].members = 1 .. Len(groups[g].members)
    BY <1>2, <1>3, SeqFacts
  <2> QED  BY <1>2, <1>3, <2>1
<1>5. members \in Seq(M)
  <2>1. \A g \in HandMade : part[g] \in Seq(M)
    <3> SUFFICES ASSUME NEW g \in HandMade PROVE groups[g].members \in Seq(M)
      OBVIOUS
    <3>1. groups[g].members \in Seq(Range(groups[g].members)) /\ Range(groups[g].members) \subseteq M
      BY <1>2, <1>3 DEF IsSeq
    <3> HIDE DEF M
    <3> QED  BY <3>1
  <2>2. IsFiniteSet(HandMade)
    BY <1>2, <1>3, FS_Subset
  <2>3. flat \in Seq(M)
    <3> HIDE DEF M, part
    <3> QED  BY <2>1, <2>2, FlattenOver
  <2>4. \A n \in DOMAIN SetToSeq(HandMade) : part[SetToSeq(HandMade)[n]] = groups[SetToSeq(HandMade)[n]].members
    <3>1. IsSeq(SetToSeq(HandMade)) /\ \A i \in 1 .. Len(SetToSeq(HandMade)) : SetToSeq(HandMade)[i] \in HandMade
      BY <2>2, Sequenced
    <3>2. DOMAIN SetToSeq(HandMade) = 1 .. Len(SetToSeq(HandMade))
      BY <3>1, SeqFacts
    <3> QED  BY <3>1, <3>2
  <2> DEFINE parts == [n \in DOMAIN SetToSeq(HandMade) |-> part[SetToSeq(HandMade)[n]]]
             parts2 == [n \in DOMAIN SetToSeq(HandMade) |-> groups[SetToSeq(HandMade)[n]].members]
  <2>5. parts = parts2
    BY <2>4
  <2>6. flat = FlattenSeq(parts) /\ members = FlattenSeq(parts2)
    OBVIOUS
  <2> HIDE DEF parts, parts2, flat, members
  <2> QED  BY <2>3, <2>5, <2>6
<1> HIDE DEF members, M, part, flat
<1>6. IsSeq(members) /\ Len(members) \in Nat /\ \A n \in 1 .. Len(members) : IsGroupMember(members[n])
  <2>1. IsSeq(members) /\ \A n \in 1 .. Len(members) : members[n] \in M
    BY <1>5, SeqIn
  <2> QED  BY <1>4, <2>1, SeqFacts
<1>7. IsSeq(raws) /\ \A n \in 1 .. Len(raws) : raws[n] \in DOMAIN Records
  <2>1. Ascends(unknown, none, Len(members))
    BY <1>6, Ordered
  <2> HIDE DEF unknown, none
  <2>2. IsSeq(unknown) /\ Len(unknown) \in Nat /\ DOMAIN unknown = 1 .. Len(unknown)
    BY <2>1, SeqFacts DEF Ascends
  <2>3. \A n \in 1 .. Len(unknown) : unknown[n] \in 1 .. Len(members)
    BY <2>1 DEF Ascends
  <2>4. /\ raws = [n \in 1 .. Len(unknown) |-> raws[n]]
        /\ \A n \in 1 .. Len(unknown) : raws[n] \in DOMAIN Records
    BY <1>6, <2>2, <2>3 DEF IsGroupMember
  <2> HIDE DEF raws
  <2>5. IsSeq(raws) /\ Len(raws) = Len(unknown)
    BY <2>2, <2>4, SeqFrom
  <2> QED  BY <2>4, <2>5
<1>8. \A g \in HandMade : ~groups[g].managed
  BY DEF HandMade
\* An entry made by hand, and its members one by one.
<1>9. ASSUME NEW g \in HandMade
      PROVE  /\ all[g] = [managed |-> all[g].managed, members |-> all[g].members] /\ all[g].managed = FALSE
             /\ IsSeq(all[g].members) /\ Len(all[g].members) = Len(groups[g].members)
             /\ \A n \in 1 .. Len(groups[g].members) :
                  /\ IsGroupMember(all[g].members[n]) /\ all[g].members[n].raw = groups[g].members[n].raw
                  /\ groups[g].members[n].store # None => all[g].members[n] = groups[g].members[n]
  <2>1. PICK ms : ms = groups[g].members
    OBVIOUS
  <2>2. PICK rs : rs = renewed(ms)
    OBVIOUS
  <2>3. /\ g \in DOMAIN groups /\ groups[g] = [managed |-> FALSE, members |-> ms] /\ IsSeq(ms)
        /\ \A n \in 1 .. Len(ms) : IsGroupMember(ms[n])
    BY <1>2, <1>3, <1>8, <2>1
  <2>4. all[g] = [managed |-> all[g].managed, members |-> all[g].members] /\ all[g].managed = FALSE /\ all[g].members = rs
    <3>1. PICK e : e = groups[g]
      OBVIOUS
    <3>2. all[g] = [e EXCEPT !.members = renewed(ms)]
      BY <2>1, <2>3, <3>1
    <3>3. all[g] = [e EXCEPT !.members = rs]
      <4> HIDE DEF all, renewed
      <4> QED  BY <2>2, <3>2
    <3>4. e = [managed |-> FALSE, members |-> ms]
      BY <2>3, <3>1
    <3> HIDE DEF all, renewed
    <3>5. [e EXCEPT !.members = rs] = [managed |-> FALSE, members |-> rs]
      <4>1. ASSUME NEW b, NEW x, NEW y
            PROVE  [[managed |-> b, members |-> x] EXCEPT !.members = y] = [managed |-> b, members |-> y]
        OBVIOUS
      <4> QED  BY <3>4, <4>1
    <3>6. all[g] = [managed |-> FALSE, members |-> rs]
      BY <3>3, <3>5
    <3> QED  BY <3>6
  <2>5. Len(ms) \in Nat /\ DOMAIN ms = 1 .. Len(ms)
    BY <2>3, SeqFacts
  <2>6. /\ rs = [n \in 1 .. Len(ms) |-> rs[n]]
        /\ \A n \in 1 .. Len(ms) : rs[n] = IF ms[n].store # None THEN ms[n] ELSE Resolved(ms[n].raw)
    BY <2>2, <2>5
  <2>7. IsSeq(rs) /\ Len(rs) = Len(ms)
    BY <2>5, <2>6, SeqFrom
  <2>8. ASSUME NEW n \in 1 .. Len(ms)
        PROVE  IsGroupMember(rs[n]) /\ rs[n].raw = ms[n].raw /\ (ms[n].store # None => rs[n] = ms[n])
    <3>1. IsGroupMember(ms[n]) /\ ms[n].raw \in DOMAIN Records
      BY <2>3 DEF IsGroupMember
    <3>2. CASE ms[n].store # None
      <4>1. rs[n] = ms[n]
        BY <2>6, <3>2
      <4> QED  BY <3>1, <4>1
    <3>3. CASE ms[n].store = None
      <4>1. rs[n] = Resolved(ms[n].raw)
        BY <2>6, <3>3
      <4> QED  BY <3>1, <3>3, <4>1, MemberOfFiles
    <3> QED  BY <3>2, <3>3
  <2> HIDE DEF all, renewed
  <2> QED  BY <2>1, <2>2, <2>4, <2>7, <2>8
<1>10. DOMAIN all = DOMAIN groups /\ \A g \in DOMAIN groups : g \notin HandMade => all[g] = groups[g]
  OBVIOUS
<1> HIDE DEF all, renewed, raws
<1>11. AreGroups(all)
  <2> SUFFICES ASSUME NEW g \in DOMAIN groups
               PROVE  /\ all[g] = [managed |-> all[g].managed, members |-> all[g].members] /\ all[g].managed \in BOOLEAN
                      /\ IsSeq(all[g].members) /\ \A n \in 1 .. Len(all[g].members) : IsGroupMember(all[g].members[n])
                      /\ g \in DOMAIN Cards => all[g].managed
    BY <1>2, <1>10 DEF AreGroups
  <2>1. CASE g \in HandMade
    <3>1. g \notin DOMAIN Cards
      BY <1>2, <1>8, <2>1
    <3> QED  BY <1>9, <2>1, <3>1
  <2>2. CASE g \notin HandMade
    BY <1>2, <1>10, <2>2
  <2> QED  BY <2>1, <2>2
<1>12. HandMade = ByHand(groups) /\ ByHand(all) = ByHand(groups)
  <2>1. HandMade = ByHand(groups)
    BY DEF HandMade, ByHand
  <2> QED  BY <1>8, <1>9, <1>10, <2>1 DEF ByHand
<1>13. HandAs(all)
  <2>1. HandAs(groups)
    BY DEF IInv, Entered
  <2>2. \A g \in ByHand(groups) :
          /\ Len(all[g].members) = Len(groups[g].members)
          /\ \A n \in 1 .. Len(groups[g].members) : all[g].members[n].raw = groups[g].members[n].raw
    BY <1>9, <1>12
  <2> QED  BY <1>11, <1>12, <2>1, <2>2, HandAgain
<1>14. KeepsStores(groups, all)
  BY <1>9, <1>12 DEF KeepsStores
<1>15. "hot" \in Syncs
  BY DEF Syncs
<1> QED
  BY <1>1, <1>7, <1>13, <1>14, <1>15, SyncOk

\* An entry for each card, and those made by hand as they are.
LEMMA SyncSwishOk ==
  ASSUME IInv, SyncSwish
  PROVE  \E ws : Good("swish", ws) /\ Begin("swish", ws) /\ hand' \subseteq hand
<1> DEFINE raws == FlattenSeq([n \in DOMAIN SetToSeq(DOMAIN Cards) |-> Cards[SetToSeq(DOMAIN Cards)[n]]])
           all == [g \in HandMade \cup DOMAIN Cards |-> IF g \in DOMAIN Cards THEN SwishEntry(g) ELSE groups[g]]
<1>1. Sync("swish", raws, all)
  BY DEF SyncSwish
<1>2. IsFiniteSet(DOMAIN Cards) /\ \A g \in DOMAIN Cards : Cards[g] \in Seq(DOMAIN Records)
  BY CatalogueAssumption
<1>3. raws \in Seq(DOMAIN Records)
  BY <1>2, FlattenOver
<1> HIDE DEF raws
<1>4. IsSeq(raws) /\ \A n \in 1 .. Len(raws) : raws[n] \in DOMAIN Records
  BY <1>3, SeqIn
<1>5. /\ IsFiniteSet(DOMAIN groups)
      /\ \A g \in DOMAIN groups :
           /\ groups[g] = [managed |-> groups[g].managed, members |-> groups[g].members] /\ groups[g].managed \in BOOLEAN
           /\ IsSeq(groups[g].members) /\ \A n \in 1 .. Len(groups[g].members) : IsGroupMember(groups[g].members[n])
           /\ g \in DOMAIN Cards => groups[g].managed
  BY DEF IInv, Entered, HandAs, AreGroups
<1>6. HandMade \subseteq DOMAIN groups /\ \A g \in HandMade : ~groups[g].managed /\ g \notin DOMAIN Cards
  BY <1>5 DEF HandMade
<1>7. /\ DOMAIN all = HandMade \cup DOMAIN Cards
      /\ \A g \in HandMade : all[g] = groups[g]
      /\ \A g \in DOMAIN Cards : all[g] = SwishEntry(g)
  BY <1>6
<1> HIDE DEF all
<1>8. AreGroups(all)
  <2>1. IsFiniteSet(DOMAIN all)
    <3>1. IsFiniteSet(HandMade)
      BY <1>5, <1>6, FS_Subset
    <3> QED  BY <1>2, <1>7, <3>1, FS_Union
  <2>2. ASSUME NEW g \in DOMAIN all
        PROVE  /\ all[g] = [managed |-> all[g].managed, members |-> all[g].members] /\ all[g].managed \in BOOLEAN
               /\ IsSeq(all[g].members) /\ \A n \in 1 .. Len(all[g].members) : IsGroupMember(all[g].members[n])
               /\ g \in DOMAIN Cards => all[g].managed
    <3>1. CASE g \in HandMade
      BY <1>5, <1>6, <1>7, <3>1
    <3>2. CASE g \in DOMAIN Cards
      <4> DEFINE ms == [n \in DOMAIN Cards[g] |-> Resolved(Cards[g][n])]
      <4>1. Len(Cards[g]) \in Nat /\ DOMAIN Cards[g] = 1 .. Len(Cards[g]) /\ \A n \in 1 .. Len(Cards[g]) : Cards[g][n] \in DOMAIN Records
        <5>1. IsSeq(Cards[g]) /\ \A n \in 1 .. Len(Cards[g]) : Cards[g][n] \in DOMAIN Records
          BY <1>2, <3>2, SeqIn
        <5> QED  BY <5>1, SeqFacts
      <4>2. ms = [n \in 1 .. Len(Cards[g]) |-> ms[n]] /\ \A n \in 1 .. Len(Cards[g]) : ms[n] = Resolved(Cards[g][n])
        BY <4>1
      <4>3. all[g] = [managed |-> TRUE, members |-> ms]
        BY <1>7, <3>2 DEF SwishEntry
      <4> HIDE DEF ms
      <4>4. IsSeq(ms) /\ Len(ms) = Len(Cards[g])
        BY <4>1, <4>2, SeqFrom
      <4>5. ASSUME NEW n \in 1 .. Len(ms) PROVE IsGroupMember(ms[n])
        <5>1. PICK r : r = Cards[g][n]
          OBVIOUS
        <5>2. r \in DOMAIN Records /\ ms[n] = Resolved(r)
          BY <4>1, <4>2, <4>4, <5>1
        <5>3. IsGroupMember(Resolved(r))
          BY <5>2, MemberOfFiles
        <5> QED  BY <5>2, <5>3
      <4> QED  BY <4>3, <4>4, <4>5
    <3> QED  BY <1>7, <2>2, <3>1, <3>2
  <2> QED  BY <2>1, <2>2 DEF AreGroups
<1>9. HandMade = ByHand(groups) /\ ByHand(all) = ByHand(groups)
  <2>1. HandMade = ByHand(groups)
    BY DEF HandMade, ByHand
  <2>2. \A g \in DOMAIN Cards : all[g].managed
    BY <1>7 DEF SwishEntry
  <2> QED  BY <1>6, <1>7, <2>1, <2>2 DEF ByHand
<1>10. HandAs(all)
  <2>1. HandAs(groups)
    BY DEF IInv, Entered
  <2>2. \A g \in ByHand(groups) :
          /\ Len(all[g].members) = Len(groups[g].members)
          /\ \A n \in 1 .. Len(groups[g].members) : all[g].members[n].raw = groups[g].members[n].raw
    BY <1>7, <1>9
  <2> QED  BY <1>8, <1>9, <2>1, <2>2, HandAgain
<1>11. KeepsStores(groups, all)
  BY <1>7, <1>9 DEF KeepsStores
<1>12. "swish" \in Syncs
  BY DEF Syncs
<1> QED
  BY <1>1, <1>4, <1>10, <1>11, <1>12, SyncOk

-----------------------------------------------------------------------------
(* The invariant.                                                          *)

\* What is held or planned when nobody is at work.
LEMMA NobodyAtWork ==
  ASSUME \A a \in Actors : todo[a] = <<>> /\ held[a] = {}, NEW ops
  PROVE  HeldFor(ops) = {} /\ Planned(ops) = {}
<1>1. \A a \in Actors : RowsIn(todo[a], ops) = {}
  BY NoWrites
<1>2. \A a \in Actors : held[a] = {}
  OBVIOUS
<1> QED
  BY <1>1, <1>2 DEF HeldFor, Planned

\* The seeded files have the shapes they keep.
LEMMA InitShape ==
  ASSUME Init
  PROVE  Shape /\ \A k \in 1 .. Len(stores) : stores[k].by = "seed" /\ stores[k].id \notin NewIds
<1>1. /\ stores = SeedStores /\ aliases = <<>> /\ queue = <<>> /\ hand = {}
      /\ todo = [a \in Actors |-> <<>>] /\ held = [a \in Actors |-> {}] /\ begun = [a \in Actors |-> 0]
      /\ clubs = [s \in {Records[r].source : r \in DOMAIN Records} \ {None} |-> {}]
  BY DEF Init
<1>2. IsSeq(stores) /\ DOMAIN stores = 1 .. Len(stores)
  BY <1>1, SeqFacts, CatalogueAssumption DEF IsSeq
<1>3. IsSeq(aliases) /\ IsSeq(queue) /\ Len(queue) = 0
  BY <1>1, NoPlaces
<1>4. \A k \in 1 .. Len(stores) : IsStore(stores[k]) /\ stores[k].by = "seed" /\ stores[k].id \notin NewIds
  BY <1>1, <1>2, CatalogueAssumption
<1>5. \A j, k \in 1 .. Len(stores) : stores[j].id = stores[k].id => j = k
  BY <1>1, <1>2, CatalogueAssumption
<1>6. AreStores(stores) /\ AreItems(queue)
  <2>1. \A k \in 1 .. Len(queue) : FALSE
    BY <1>3
  <2> QED  BY <1>2, <1>3, <1>4, <1>5, <2>1 DEF AreStores, AreItems
<1>7. DOMAIN clubs = Sources
  BY <1>1 DEF Sources
<1>8. /\ todo = [a \in Actors |-> todo[a]] /\ held = [a \in Actors |-> held[a]] /\ begun \in [Actors -> Nat]
      /\ \A a \in Actors : todo[a] = <<>> /\ held[a] = {}
  BY <1>1
<1>9. \A a \in Actors : ShapeOf(a)
  BY <1>8, NoWrites DEF ShapeOf
<1>10. \A i \in hand : IsItem(i)
  BY <1>1
<1> QED
  BY <1>3, <1>4, <1>6, <1>7, <1>8, <1>9, <1>10 DEF Shape

\* The files as they are seeded.
LEMMA InitOk ==
  ASSUME Init
  PROVE  IInv
<1>1. /\ aliases = <<>> /\ queue = <<>> /\ groups = Groups /\ hand = {} /\ met = {}
      /\ todo = [a \in Actors |-> <<>>] /\ held = [a \in Actors |-> {}]
  BY DEF Init
<1>2. Shape /\ \A k \in 1 .. Len(stores) : stores[k].by = "seed" /\ stores[k].id \notin NewIds
  BY InitShape
<1>3. /\ \A a \in Actors : todo[a] = <<>> /\ held[a] = {}
      /\ "hot" \in Actors /\ "swish" \in Actors /\ "bulk" \in Actors /\ "pipeline" \in Actors
  BY <1>1 DEF Actors, Syncs
<1>4. Current
  BY <1>1, <1>3 DEF Current
<1>5. Len(queue) = 0 /\ Range(queue) = {} /\ Range(aliases) = {}
  <2>1. Len(<<>>) = 0 /\ DOMAIN <<>> = {}
    BY NoPlaces
  <2> QED  BY <1>1, <2>1 DEF Range
<1>6. /\ \A ops : HeldFor(ops) = {} /\ Planned(ops) = {}
  BY <1>3, NobodyAtWork
<1>7. AllNames = NamesOf(stores) /\ AllItems = {} /\ ItemsRead = {}
  BY <1>1, <1>5, <1>6 DEF AllNames, AllItems, ItemsRead
<1>8. /\ IsSeq(stores) /\ DOMAIN stores = 1 .. Len(stores)
      /\ \A j, k \in 1 .. Len(stores) : stores[j].id = stores[k].id => j = k
  BY <1>2, SeqFacts DEF Shape, AreStores
<1>9. \A n \in NamesOf(stores) : \E k \in 1 .. Len(stores) : n = Triple(stores[k]) /\ n[1] = stores[k].id /\ n[3] = "seed" /\ n[1] \notin NewIds
  BY <1>2, <1>8, TripleParts DEF NamesOf
<1>10. Named(AllNames, AllItems, begun)
  <2>1. \A m, n \in NamesOf(stores) : m[1] = n[1] => m = n
    BY <1>8, <1>9
  <2>2. \A n \in NamesOf(stores) : Past(n[1], begun)
    BY <1>9 DEF Past
  <2> QED  BY <1>7, <2>1, <2>2 DEF Named
<1>11. Relied
  <2>1. \A a \in Actors : Backed(todo[a], NamesOf(stores), Range(aliases), deals)
    BY <1>3, NoWrites
  <2> QED  BY <1>5, <1>7, <2>1 DEF Relied
<1>12. Made
  <2>1. MadeOk(NamesOf(stores), Range(aliases))
    BY <1>9 DEF MadeOk
  <2>2. FreshNames(todo["bulk"], NamesOf(stores), Range(aliases)) /\ NewStores(todo["pipeline"]) = {}
    BY <1>3, NoWrites
  <2> QED  BY <2>1, <2>2 DEF Made
<1>13. Waiting
  <2>1. WaitOk(queue)
    <3>1. \A k \in 1 .. Len(queue) : FALSE
      BY <1>5
    <3> QED  BY <3>1 DEF WaitOk
  <2>2. \A a \in Actors : FreshAdds(todo[a], queue)
    BY <1>3, NoWrites
  <2> QED  BY <2>1, <2>2 DEF Waiting
<1>14. AreGroups(groups)
  <2>1. IsFiniteSet(DOMAIN groups)
    BY <1>1, CatalogueAssumption
  <2>2. ASSUME NEW g \in DOMAIN groups
        PROVE  /\ groups[g] = [managed |-> groups[g].managed, members |-> groups[g].members] /\ groups[g].managed \in BOOLEAN
               /\ IsSeq(groups[g].members) /\ \A n \in 1 .. Len(groups[g].members) : IsGroupMember(groups[g].members[n])
               /\ g \in DOMAIN Cards => groups[g].managed
    <3>1. /\ groups[g] = [managed |-> groups[g].managed, members |-> groups[g].members] /\ groups[g].managed \in BOOLEAN
          /\ g \in DOMAIN Cards => groups[g].managed
          /\ groups[g].members \in Seq(Range(groups[g].members))
          /\ \A m \in Range(groups[g].members) : IsGroupMember(m)
      BY <1>1, CatalogueAssumption
    <3>2. IsSeq(groups[g].members) /\ \A n \in 1 .. Len(groups[g].members) : groups[g].members[n] \in Range(groups[g].members)
      BY <3>1, SeqIn
    <3> QED  BY <3>1, <3>2
  <2> QED  BY <2>1, <2>2 DEF AreGroups
<1>15. Entered
  <2>1. HandAs(groups)
    BY <1>1, <1>14 DEF HandAs
  <2>2. \A a \in Actors : FreshGroups(todo[a], groups)
    BY <1>3, NoWrites
  <2> QED  BY <2>1, <2>2 DEF Entered
<1> QED
  BY <1>2, <1>4, <1>10, <1>11, <1>12, <1>13, <1>15 DEF IInv

\* A command begins with good writes, whoever else is at work.
LEMMA BeginStep ==
  ASSUME IInv, NEW a \in Actors, NEW ws, Good(a, ws), Begin(a, ws), hand' \subseteq hand
  PROVE  IInv' /\ groups' = groups
<1>1. Shape /\ Current /\ Named(AllNames, AllItems, begun) /\ Relied /\ Made /\ Waiting /\ Entered
  BY DEF IInv
<1>2. Started(a, ws)
  BY <1>1, BeginFacts
<1>3. IsSeq(ws) /\ OpsOk(a, ws)
  BY DEF Good
<1>4. Shape'
  BY <1>1, <1>2, <1>3, ShapeBegins
<1>5. Current'
  BY <1>1, <1>2, CurrentBegins
<1>6. /\ Named(AllNames, AllItems, begun)'
      /\ AllItems' \subseteq AllItems \cup RowsIn(ws, {"item", "add"}) /\ ItemsRead' \subseteq ItemsRead
  BY <1>1, <1>2, NamesBegin
<1>7. Relied'
  <2>1. ASSUME Kept' PROVE Relied'
    BY <1>1, <1>2, <1>6, <2>1, ReliedBegins
  <2> QED  BY <2>1 DEF Relied
<1>8. Made'
  BY <1>1, <1>2, MadeBegins
<1>9. Waiting'
  BY <1>1, <1>2, WaitingBegins
<1>10. Entered'
  BY <1>1, <1>2, EnteredBegins
<1>11. groups' = groups
  BY <1>2, BeginsWith
<1> QED
  BY <1>4, <1>5, <1>6, <1>7, <1>8, <1>9, <1>10, <1>11 DEF IInv

\* A command at work reads, writes or dies.
LEMMA WorkStep ==
  ASSUME IInv, NEW a \in Actors, Read(a) \/ Write(a) \/ Crash(a)
  PROVE  /\ IInv'
         /\ groups' # groups => HandAs(groups') /\ ("syncs" \notin met => KeepsStores(groups, groups'))
<1>1. Shape /\ Current /\ Named(AllNames, AllItems, begun) /\ Relied /\ Made /\ Waiting /\ Entered
  BY DEF IInv
<1>2. Goes(a) /\ todo[a] # <<>>
  BY <1>1, GoerIsBusy
<1>3. Shape'
  BY <1>1, <1>2, ShapeGoesOn DEF Goes
<1>4. Current'
  BY <1>1, <1>2, CurrentGoesOn
<1>5. Named(AllNames, AllItems, begun)'
  <2>1. AllNames' \subseteq AllNames /\ AllItems' \subseteq AllItems /\ begun' = begun
    BY <1>1, <1>2, NamesGoOn DEF Goes, Rests
  <2>2. Named(AllNames', AllItems', begun')
    BY <1>1, <2>1, NamedShrinks
  <2> QED  BY <2>2
<1>6. Relied'
  <2>1. ASSUME Kept' PROVE Relied'
    BY <1>1, <1>2, <2>1, ReliedGoesOn
  <2> QED  BY <2>1 DEF Relied
<1>7. Made'
  BY <1>1, <1>2, MadeGoesOn
<1>8. Waiting'
  BY <1>1, <1>2, WaitingGoesOn
<1>9. Entered' /\ (groups' # groups => HandAs(groups') /\ ("syncs" \notin met => KeepsStores(groups, groups')))
  BY <1>1, <1>2, EnteredGoesOn
<1> QED
  BY <1>3, <1>4, <1>5, <1>6, <1>7, <1>8, <1>9 DEF IInv

\* An item is shown, or nothing happens at all.
LEMMA ShownStep ==
  ASSUME IInv, UNCHANGED <<storage, todo, held, begun, met>>, UNCHANGED fileVars, hand' \subseteq Range(queue) \cup hand
  PROVE  IInv'
<1>1. Shape /\ Current /\ Named(AllNames, AllItems, begun) /\ Relied /\ Made /\ Waiting /\ Entered
  BY DEF IInv
<1>2. /\ stores' = stores /\ aliases' = aliases /\ queue' = queue /\ clubs' = clubs /\ groups' = groups /\ deals' = deals
      /\ storage' = storage /\ todo' = todo /\ held' = held /\ begun' = begun /\ met' = met
  BY DEF fileVars
<1>3. Shape'
  BY <1>1, ShapeTaken
<1>4. Current'
  BY <1>1, <1>2 DEF Current, Alone, FileOf
<1>5. /\ \A ops : HeldFor(ops)' = HeldFor(ops) /\ Planned(ops)' = Planned(ops)
  BY <1>2 DEF HeldFor, Planned
<1>6. AllNames' = AllNames /\ AllItems' \subseteq AllItems /\ ItemsRead' \subseteq ItemsRead
  BY <1>2 DEF AllNames, AllItems, ItemsRead, HeldFor, Planned
<1>7. Named(AllNames, AllItems, begun)'
  <2>1. AllNames' \subseteq AllNames
    BY <1>6
  <2>2. Named(AllNames', AllItems', begun')
    BY <1>1, <1>2, <1>6, <2>1, NamedShrinks
  <2> QED  BY <2>2
<1>8. Kept' = Kept /\ Alone' = Alone
  BY <1>2 DEF Kept, Alone
<1>9. Relied'
  BY <1>1, <1>2, <1>6, <1>8 DEF Relied
<1>10. Made'
  BY <1>1, <1>2, <1>8 DEF Made
<1>11. Waiting'
  BY <1>1, <1>2, <1>8 DEF Waiting
<1>12. Entered'
  BY <1>1, <1>2 DEF Entered, FreshGroups
<1> QED
  BY <1>3, <1>4, <1>7, <1>9, <1>10, <1>11, <1>12 DEF IInv

\* Every step keeps the invariant, and what it writes of the groups is as it was read.
LEMMA NextStep ==
  ASSUME IInv, [Next]_vars
  PROVE  /\ IInv'
         /\ groups' # groups => HandAs(groups') /\ ("syncs" \notin met => KeepsStores(groups, groups'))
<1> DEFINE Begins == \E a \in Actors : \E ws : Good(a, ws) /\ Begin(a, ws) /\ hand' \subseteq hand
<1>0. "operator" \in Actors /\ "bulk" \in Actors /\ "pipeline" \in Actors /\ "hot" \in Actors /\ "swish" \in Actors
  BY DEF Actors, Syncs
<1>1. ASSUME NEW r \in DOMAIN Records, Arrive(r) PROVE Begins
  BY <1>0, <1>1, ArriveOk
<1>2. CASE Take
  <2>1. /\ UNCHANGED <<storage, todo, held, begun, met>> /\ UNCHANGED fileVars /\ hand' \subseteq Range(queue) \cup hand
    BY <1>2, TakeFacts DEF IInv
  <2> QED  BY <2>1, ShownStep DEF fileVars
<1>3. ASSUME Review PROVE Begins
  BY <1>0, <1>3, ReviewOk
<1>4. ASSUME BulkResolve PROVE Begins
  BY <1>0, <1>4, BulkOk
<1>5. ASSUME SyncHot PROVE Begins
  BY <1>0, <1>5, SyncHotOk
<1>6. ASSUME SyncSwish PROVE Begins
  BY <1>0, <1>6, SyncSwishOk
<1>7. ASSUME NEW a \in Actors, Read(a) \/ Write(a) \/ Crash(a)
      PROVE  /\ IInv'
             /\ groups' # groups => HandAs(groups') /\ ("syncs" \notin met => KeepsStores(groups, groups'))
  BY <1>7, WorkStep
<1>8. CASE Begins
  BY <1>8, BeginStep
<1>9. CASE UNCHANGED vars
  <2>1. UNCHANGED <<storage, todo, held, begun, met>> /\ UNCHANGED fileVars /\ hand' \subseteq Range(queue) \cup hand
    BY <1>9 DEF vars, fileVars
  <2> QED  BY <2>1, ShownStep DEF fileVars
<1> HIDE DEF Begins
<1> QED
  BY <1>1, <1>2, <1>3, <1>4, <1>5, <1>6, <1>7, <1>8, <1>9 DEF Next

\* The invariant holds of every state, whichever commands are at work at once: of the files
\* as they are, as each command has read them, and as its writes will leave them.
THEOREM CatalogueInvariant == Spec => []IInv
<1>1. Init => IInv
  BY InitOk
<1>2. IInv /\ [Next]_vars => IInv'
  BY NextStep
<1> QED
  BY <1>1, <1>2, PTL DEF Spec

-----------------------------------------------------------------------------
(* What it says of the catalogue.                                          *)

\* Of the files that lose nothing, every settled item has its store, alias and deal.
LEMMA Taught ==
  ASSUME IInv
  PROVE  DecidedIsTaught
<1> SUFFICES ASSUME Kept, NEW k \in DOMAIN queue, queue[k].status \in {"approved", "created"}
             PROVE  /\ queue[k].store \in StoreIds
                    /\ [store |-> queue[k].store, form |-> Whole(NameOf(queue[k]))] \in Range(aliases)
                    /\ queue[k].by = "operator" /\ ~IsMember(queue[k].raw) => <<queue[k].raw, queue[k].store>> \in deals
  BY DEF DecidedIsTaught
<1>1. queue[k] \in ItemsRead
  BY DEF ItemsRead, Range
<1>2. Settled(queue[k], NamesOf(stores), Range(aliases), deals) /\ StoreIds = IdsOf(stores)
  BY <1>1, Stored DEF IInv, Relied
<1>3. PICK n \in NamesOf(stores) : n[1] = queue[k].store
  BY <1>2 DEF Settled, Closed
<1>4. n[1] \in IdsOf(stores)
  BY Stored
<1> QED
  BY <1>2, <1>3, <1>4 DEF Settled, Closed, NameOf

\* DecidedIsTaught, whatever dies, of the stores, aliases and deals of MongoDB whichever
\* commands are at work, and of those of JSON files until two were at work at once: every
\* decision writes its item last.
THEOREM CatalogueTeaches == Spec => []DecidedIsTaught
  BY CatalogueInvariant, Taught, PTL

\* DecisionsStick, of the items of members too, when no member bears a name of a category:
\* such a name is taught and never found again.
THEOREM CatalogueSticks ==
  ASSUME \A r \in DOMAIN Records : IsMember(r) => Range(Whole(Records[r].name)) \notin LowInformation
  PROVE  Spec => []DecisionsStick
<1>1. ASSUME IInv PROVE DecisionsStick
  <2>1. DecidedIsTaught
    BY <1>1, Taught
  <2>2. ASSUME Kept, NEW k \in DOMAIN queue, IsMember(queue[k].raw), queue[k].status \in {"approved", "created"}
        PROVE  MemberVerdict(queue[k].raw).auto
    <3>1. [store |-> queue[k].store, form |-> Whole(NameOf(queue[k]))] \in Range(aliases)
      BY <2>1, <2>2 DEF DecidedIsTaught
    <3>2. IsSeq(stores) /\ IsSeq(aliases) /\ DOMAIN aliases = 1 .. Len(aliases) /\ queue[k].raw \in DOMAIN Records
      BY <1>1, Stored, SeqFacts
    <3>3. PICK j \in 1 .. Len(aliases) : aliases[j].form = Whole(NameOf(queue[k]))
      BY <3>1, <3>2 DEF Range
    <3>4. Range(aliases[j].form) \notin LowInformation
      BY <2>2, <3>2, <3>3 DEF NameOf
    <3>5. Verdict(aliases[j].form, None, stores, aliases).auto
      BY <3>2, <3>4, TaughtIsSure
    <3> QED  BY <3>3, <3>5 DEF MemberVerdict, NameOf
  <2>3. DecidedMembersResolve
    BY <2>2 DEF DecidedMembersResolve
  <2> QED  BY <2>1, <2>3 DEF DecisionsStick
<1> QED
  BY <1>1, CatalogueInvariant, PTL

\* OnlineParity, of files that lose rows as well: no store is ever written under another
\* name, so that what the bulk resolution closed agrees with its store if it is there.
THEOREM CatalogueParity == Spec => []OnlineParity
<1>1. ASSUME IInv PROVE OnlineParity
  <2> SUFFICES ASSUME NEW k \in DOMAIN queue, NEW j \in DOMAIN stores, queue[k].by = "bulk", queue[k].store = stores[j].id
               PROVE  Online(Whole(NameOf(queue[k]))) = Online(Whole(stores[j].name))
    BY DEF OnlineParity
  <2>1. Triple(stores[j]) \in AllNames /\ Triple(stores[j])[1] = stores[j].id /\ Triple(stores[j])[2] = stores[j].name
    BY TripleParts DEF AllNames, NamesOf
  <2>2. queue[k] \in AllItems
    BY DEF AllItems, Range
  <2>3. \A n \in AllNames : n[1] = queue[k].store => Online(Whole(Records[queue[k].raw].name)) = Online(Whole(n[2]))
    BY <1>1, <2>2 DEF IInv, Named
  <2> QED  BY <2>1, <2>3 DEF NameOf
<1> QED
  BY <1>1, CatalogueInvariant, PTL

\* NamesAreMadeOnce, also of runs that died halfway and of those that came after them.
THEOREM CatalogueMakesOnce == Spec => []NamesAreMadeOnce
<1>1. ASSUME IInv PROVE NamesAreMadeOnce
  <2> SUFFICES ASSUME Kept, NEW j \in DOMAIN stores, NEW k \in DOMAIN stores, j # k, stores[j].by = "bulk", stores[k].by = "bulk",
                      Whole(stores[j].name) = Whole(stores[k].name)
               PROVE  \E id \in ByForm(Whole(stores[k].name)) :
                        StoreOf(id).by # "bulk" \/ Whole(StoreOf(id).name) # Whole(stores[k].name)
    BY DEF NamesAreMadeOnce
  <2> PICK f : f = Whole(stores[k].name)
    OBVIOUS
  <2>1. /\ DOMAIN stores = 1 .. Len(stores) /\ DOMAIN aliases = 1 .. Len(aliases)
        /\ MadeOk(NamesOf(stores), Range(aliases)) /\ StoreIds = IdsOf(stores)
    BY <1>1, Stored, SeqFacts DEF IInv, Made
  <2>2. stores[j].id # stores[k].id
    BY <1>1, <2>1 DEF IInv, Shape, AreStores
  <2>3. PICK m \in NamesOf(stores) : m[1] = stores[j].id /\ m[2] = stores[j].name /\ m[3] = stores[j].by
    BY TripleParts DEF NamesOf
  <2>4. PICK n \in NamesOf(stores) : n[1] = stores[k].id /\ n[2] = stores[k].name /\ n[3] = stores[k].by
    BY TripleParts DEF NamesOf
  <2>5. Other(f, NamesOf(stores), Range(aliases))
    BY <2>1, <2>2, <2>3, <2>4 DEF MadeOk
  <2>6. PICK o \in NamesOf(stores) :
          /\ Whole(o[2]) = f \/ \E t \in Range(aliases) : t.store = o[1] /\ t.form = f
          /\ Whole(o[2]) # f \/ o[3] # "bulk"
    BY <2>5 DEF Other
  <2>7. PICK i \in 1 .. Len(stores) : o[1] = stores[i].id /\ o[2] = stores[i].name /\ o[3] = stores[i].by
    <3>1. PICK i \in DOMAIN stores : o = Triple(stores[i])
      BY DEF NamesOf
    <3>2. o[1] = stores[i].id /\ o[2] = stores[i].name /\ o[3] = stores[i].by
      BY <3>1, TripleParts
    <3> QED  BY <2>1, <3>2
  <2>8. StoreOf(stores[i].id) = stores[i] /\ stores[i].id \in StoreIds
    BY <1>1, <2>1, StoreOfId DEF StoreIds
  <2>9. stores[i].id \in ByForm(f)
    <3>1. CASE Whole(stores[i].name) = f
      BY <2>8, <3>1 DEF ByForm
    <3>2. CASE \E t \in Range(aliases) : t.store = stores[i].id /\ t.form = f
      <4>1. PICK x \in DOMAIN aliases : aliases[x].store = stores[i].id /\ aliases[x].form = f
        BY <3>2 DEF Range
      <4> QED  BY <4>1 DEF ByForm
    <3> QED  BY <2>6, <2>7, <3>1, <3>2
  <2> QED  BY <2>6, <2>7, <2>8, <2>9
<1> QED
  BY <1>1, CatalogueInvariant, PTL

\* MembersWaitOnce, across any number of syncs, dead or alive, one after the other.
THEOREM CatalogueWaitsOnce == Spec => []MembersWaitOnce
<1>1. ASSUME IInv PROVE MembersWaitOnce
  <2>1. DOMAIN queue = 1 .. Len(queue) /\ (Alone => WaitOk(queue))
    BY <1>1, Stored DEF IInv, Waiting
  <2> QED  BY <2>1 DEF MembersWaitOnce, WaitOk, Waits
<1> QED
  BY <1>1, CatalogueInvariant, PTL

\* HandEntriesSurvive: what a sync writes has every entry of hand it read, which are those
\* of the beginning, and their stores as they are unless the other sync wrote meanwhile.
THEOREM CatalogueKeepsHandEntries == Spec => HandEntriesSurvive
<1> DEFINE Survive == \A g \in DOMAIN groups : ~groups[g].managed =>
              /\ g \in DOMAIN groups' /\ ~groups'[g].managed
              /\ \A n \in DOMAIN groups[g].members :
                   LET m == groups[g].members[n] m2 == groups'[g].members[n]
                   IN m2.raw = m.raw /\ (m.store # None /\ "syncs" \notin met => m2.store = m.store)
<1>1. ASSUME IInv, [Next]_vars PROVE [Survive]_vars
  <2>1. CASE groups' = groups
    BY <2>1
  <2>2. CASE groups' # groups
    <3>1. HandAs(groups) /\ HandAs(groups') /\ ("syncs" \notin met => KeepsStores(groups, groups'))
      BY <1>1, <2>2, NextStep DEF IInv, Entered
    <3>2. ASSUME NEW g \in DOMAIN groups, ~groups[g].managed
          PROVE  /\ g \in DOMAIN groups' /\ ~groups'[g].managed
                 /\ \A n \in DOMAIN groups[g].members :
                      LET m == groups[g].members[n] m2 == groups'[g].members[n]
                      IN m2.raw = m.raw /\ (m.store # None /\ "syncs" \notin met => m2.store = m.store)
      <4>1. g \in ByHand(groups) /\ g \in ByHand(Groups) /\ g \in ByHand(groups')
        BY <3>1, <3>2 DEF HandAs, ByHand
      <4>2. IsSeq(groups[g].members)
        BY <3>1, <3>2 DEF HandAs, AreGroups
      <4>3. DOMAIN groups[g].members = 1 .. Len(groups[g].members)
        BY <4>2, SeqFacts
      <4>4. \A n \in 1 .. Len(groups[g].members) : groups'[g].members[n].raw = groups[g].members[n].raw
        BY <3>1, <4>1 DEF HandAs
      <4>5. "syncs" \notin met => \A n \in 1 .. Len(groups[g].members) :
              groups[g].members[n].store # None => groups'[g].members[n].store = groups[g].members[n].store
        BY <3>1, <4>1 DEF KeepsStores
      <4>6. g \in DOMAIN groups' /\ ~groups'[g].managed
        BY <4>1 DEF ByHand
      <4> QED  BY <4>3, <4>4, <4>5, <4>6
    <3> QED  BY <3>2
  <2> QED  BY <2>1, <2>2
<1> QED
  BY <1>1, CatalogueInvariant, PTL DEF Spec, HandEntriesSurvive
=============================================================================
