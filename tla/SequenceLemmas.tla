--------------------------- MODULE SequenceLemmas ---------------------------
(***************************************************************************)
(* Facts about sequences that the proofs of TxPath, Exchange and Perf      *)
(* share: what FlattenSeq() makes of a sequence that grows at its end or   *)
(* loses its head, its elements, and the elements of it that are in a set. *)
(*                                                                         *)
(* Facts about FlattenSeq() need induction.  A predicate cannot be passed  *)
(* to the library's induction theorems here, so that it is written as a    *)
(* set of numbers, of which the complement has a least element.            *)
(***************************************************************************)
EXTENDS Integers, Sequences, SequencesExt, SequenceTheorems,
        WellFoundedInduction, TLAPS

(* Induction, sequences and FlattenSeq(). *)

\* Every non-empty set of numbers has a least one.
LEMMA LeastNumber ==
    ASSUME NEW T, T \subseteq Nat, T # {}
    PROVE  \E m \in T : \A k \in T : m =< k
<1>1. PICK m \in T : \A k \in T : <<k, m>> \notin OpToRel(<, Nat)
  <2>1. IsWellFoundedOn(OpToRel(<, Nat), Nat)
    BY NatLessThanWellFounded
  <2> QED
    BY <2>1, WFMin
<1>2. \A k \in T : ~(k < m)
    BY <1>1 DEF OpToRel
<1> QED
    BY <1>2

\* Induction along 1..n, with the set P in the place of a predicate.
LEMMA IntervalInduction ==
    ASSUME NEW n \in Nat, NEW P, n > 0 => 1 \in P,
           \A i \in 1..(n - 1) : i \in P => i + 1 \in P
    PROVE  1..n \subseteq P
<1> DEFINE T == {i \in 1..n : i \notin P}
<1> SUFFICES ASSUME T # {} PROVE FALSE
    OBVIOUS
<1>1. T \subseteq Nat
    OBVIOUS
<1>2. PICK m \in T : \A k \in T : m =< k
    BY <1>1, LeastNumber
<1>3. m \in 1..n /\ m \notin P /\ m # 1
    BY <1>2
<1>4. m - 1 \in 1..(n - 1) /\ m - 1 \in 1..n /\ m - 1 \notin T
    BY <1>2, <1>3
<1>5. m - 1 \in P /\ (m - 1) + 1 = m
    BY <1>3, <1>4
<1> QED
    BY <1>3, <1>4, <1>5

\* The empty sequence is the one of length 0.
LEMMA EmptyLen ==
    ASSUME NEW S, NEW s \in Seq(S)
    PROVE  s = <<>> <=> Len(s) = 0
OBVIOUS

\* Concatenation, kept folded where it does not matter what it is.
Cat(s, t) == s \o t

\* It is associative.
LEMMA CatAssoc ==
    ASSUME NEW S, NEW s \in Seq(S), NEW t \in Seq(S), NEW u \in Seq(S)
    PROVE  Cat(Cat(s, t), u) = Cat(s, Cat(t, u))
BY DEF Cat

\* f is the function by which FlattenSeq() walks through the first n
\* elements of ss.
Flattens(f, ss, n) ==
    \A i \in 1..n : f[i] = IF i = 1 THEN ss[i] ELSE Cat(f[i - 1], ss[i])

\* There is such a function: a shortest ss without one could be extended.
LEMMA FlattensExists ==
    ASSUME NEW ss, NEW n \in Nat
    PROVE  \E f : Flattens([i \in 1..n |-> f[i]], ss, n)
<1> DEFINE F(f, m) == [i \in 1..m |-> f[i]]
           T == {m \in Nat : ~ \E f : Flattens(F(f, m), ss, m)}
<1>1. SUFFICES ASSUME T # {} PROVE FALSE
    OBVIOUS
<1>2. PICK m \in T : \A k \in T : m =< k
    BY <1>1, LeastNumber
<1>3. m \in Nat /\ \A f : ~Flattens(F(f, m), ss, m)
    BY <1>2
<1>4. m # 0
  <2>1. Flattens(F(<<>>, 0), ss, 0)
    BY DEF Flattens
  <2> QED
    BY <1>3, <2>1
<1>5. m - 1 \in Nat /\ m - 1 \notin T
  <2> HIDE DEF T
  <2> QED
    BY <1>2, <1>3, <1>4
<1>6. PICK f : Flattens(F(f, m - 1), ss, m - 1)
    BY <1>5
<1>7. Flattens(f, ss, m - 1)
  <2> SUFFICES ASSUME NEW i \in 1..(m - 1)
               PROVE  f[i] = IF i = 1 THEN ss[i] ELSE Cat(f[i - 1], ss[i])
    BY DEF Flattens
  <2>1. F(f, m - 1)[i] = f[i] /\ (i # 1 => F(f, m - 1)[i - 1] = f[i - 1])
    BY <1>5
  <2> HIDE DEF F
  <2> QED
    BY <1>6, <2>1 DEF Flattens
<1> DEFINE g == [i \in 1..m |-> IF i = 1 THEN ss[i] ELSE Cat(f[i - 1], ss[i])]
<1>8. \A i \in 1..m : g[i] = IF i = 1 THEN ss[i] ELSE Cat(f[i - 1], ss[i])
    OBVIOUS
<1>9. F(g, m) = g
    OBVIOUS
<1> HIDE DEF g, F, T
<1>10. \A i \in 1..(m - 1) : g[i] = f[i]
    BY <1>3, <1>7, <1>8 DEF Flattens
<1>11. \A i \in 1..m : i # 1 => g[i - 1] = f[i - 1]
    BY <1>3, <1>10
<1>12. Flattens(g, ss, m)
    BY <1>8, <1>11 DEF Flattens
<1> QED
    BY <1>3, <1>9, <1>12

\* What FlattenSeq() chooses is such a function.
LEMMA FlattenIs ==
    ASSUME NEW S, NEW ss \in Seq(Seq(S)), ss # <<>>
    PROVE  \E f : Flattens(f, ss, Len(ss)) /\ FlattenSeq(ss) = f[Len(ss)]
<1>1. Len(ss) # 0 /\ Len(ss) \in Nat
    OBVIOUS
<1> DEFINE Body(f) == [i \in 1..Len(ss) |->
                           IF i = 1 THEN ss[i] ELSE f[i - 1] \o ss[i]]
           f == CHOOSE f : f = Body(f)
<1>2. PICK h : Flattens([i \in 1..Len(ss) |-> h[i]], ss, Len(ss))
    BY FlattensExists, <1>1
<1> DEFINE g == [i \in 1..Len(ss) |-> h[i]]
<1>3. g = Body(g)
    BY <1>2 DEF Flattens, Cat
<1>4. f = Body(f)
    BY <1>3
<1>5. Flattens(f, ss, Len(ss))
    BY <1>4 DEF Flattens, Cat
<1>6. FlattenSeq(ss) = f[Len(ss)]
    BY <1>1 DEF FlattenSeq
<1> QED
    BY <1>5, <1>6

\* What f computes at one place, and at the next.
LEMMA FlattensStep ==
    ASSUME NEW f, NEW ss, NEW n \in Nat, Flattens(f, ss, n)
    PROVE  /\ n > 0 => f[1] = ss[1]
           /\ \A i \in 1..(n - 1) : f[i + 1] = Cat(f[i], ss[i + 1])
<1>1. n > 0 => f[1] = ss[1]
    BY DEF Flattens
<1>2. ASSUME NEW i \in 1..(n - 1) PROVE f[i + 1] = Cat(f[i], ss[i + 1])
  <2>1. i + 1 \in 1..n /\ i + 1 # 1 /\ (i + 1) - 1 = i
    OBVIOUS
  <2> QED
    BY <2>1 DEF Flattens
<1> QED
    BY <1>1, <1>2

\* The results are sequences.
LEMMA FlattensType ==
    ASSUME NEW S, NEW ss \in Seq(Seq(S)), NEW n \in 0..Len(ss),
           NEW f, Flattens(f, ss, n)
    PROVE  \A i \in 1..n : f[i] \in Seq(S)
<1> DEFINE P == {i \in 1..n : f[i] \in Seq(S)}
<1>1. n \in Nat /\ \A i \in 1..n : ss[i] \in Seq(S)
    OBVIOUS
<1>2. n > 0 => 1 \in P
  <2>1. n > 0 => f[1] = ss[1]
    BY <1>1, FlattensStep
  <2> QED
    BY <1>1, <2>1
<1>3. ASSUME NEW i \in 1..(n - 1), i \in P PROVE i + 1 \in P
  <2>1. i + 1 \in 1..n /\ ss[i + 1] \in Seq(S)
    BY <1>1
  <2>2. f[i + 1] = Cat(f[i], ss[i + 1])
    BY <1>1, FlattensStep
  <2>3. f[i] \in Seq(S)
    BY <1>3
  <2>4. Cat(f[i], ss[i + 1]) \in Seq(S)
    BY <2>1, <2>3 DEF Cat
  <2> QED
    BY <2>1, <2>2, <2>4
<1> HIDE DEF P
<1>4. 1..n \subseteq P
    BY <1>1, <1>2, <1>3, IntervalInduction
<1> QED
    BY <1>4 DEF P

\* s and t have the same first k elements.
Agree(s, t, k) == \A i \in 1..k : s[i] = t[i]

\* They depend on what has been walked through only.
LEMMA FlattensAgree ==
    ASSUME NEW ss, NEW tt, NEW k \in Nat, NEW n \in Nat, NEW m \in Nat,
           k =< n, k =< m, Agree(ss, tt, k),
           NEW f, NEW g, Flattens(f, ss, n), Flattens(g, tt, m)
    PROVE  Agree(f, g, k)
<1> USE DEF Agree
<1> DEFINE P == {i \in 1..k : f[i] = g[i]}
<1>1. k > 0 => 1 \in P
  <2>1. k > 0 => f[1] = ss[1] /\ g[1] = tt[1]
    BY FlattensStep
  <2> QED
    BY <2>1
<1>2. ASSUME NEW i \in 1..(k - 1), i \in P PROVE i + 1 \in P
  <2>1. /\ i + 1 \in 1..k /\ ss[i + 1] = tt[i + 1]
        /\ i \in 1..(n - 1) /\ i \in 1..(m - 1)
    OBVIOUS
  <2>2. f[i + 1] = Cat(f[i], ss[i + 1]) /\ g[i + 1] = Cat(g[i], tt[i + 1])
    BY <2>1, FlattensStep
  <2> QED
    BY <1>2, <2>1, <2>2
<1> HIDE DEF P
<1>3. 1..k \subseteq P
    BY <1>1, <1>2, IntervalInduction
<1> QED
    BY <1>3 DEF P

\* FlattenSeq() of a sequence to which something has been appended.
LEMMA FlattenAppend ==
    ASSUME NEW S, NEW ss \in Seq(Seq(S)), NEW t \in Seq(S)
    PROVE  /\ FlattenSeq(ss) \in Seq(S)
           /\ FlattenSeq(Append(ss, t)) = FlattenSeq(ss) \o t
<1> DEFINE tt == Append(ss, t)
           n == Len(ss)
<1>1. tt \in Seq(Seq(S)) /\ tt # <<>>
  <2> DEFINE W == Seq(S)
  <2>1. ss \in Seq(W) /\ t \in W
    OBVIOUS
  <2> HIDE DEF W
  <2>2. tt \in Seq(W) /\ Len(tt) = Len(ss) + 1
    BY <2>1
  <2>3. tt # <<>>
    BY <2>1, <2>2
  <2> QED
    BY <2>2, <2>3 DEF W
<1>2. /\ Len(tt) = n + 1 /\ n \in Nat /\ tt[n + 1] = t
      /\ \A i \in 1..n : ss[i] = tt[i]
    OBVIOUS
<1> HIDE DEF tt
<1>3. PICK g : Flattens(g, tt, n + 1) /\ FlattenSeq(tt) = g[n + 1]
    BY <1>1, <1>2, FlattenIs
<1>4. CASE ss = <<>>
  <2>1. FlattenSeq(ss) = <<>> /\ n = 0
    BY <1>4 DEF FlattenSeq
  <2>2. g[1] = tt[1]
    BY <1>2, <1>3, FlattensStep
  <2>3. FlattenSeq(tt) = t
    BY <1>2, <1>3, <2>1, <2>2
  <2>4. t = <<>> \o t
    OBVIOUS
  <2> QED
    BY <2>1, <2>3, <2>4 DEF tt
<1>5. CASE ss # <<>>
  <2>1. PICK f : Flattens(f, ss, n) /\ FlattenSeq(ss) = f[n]
    BY <1>5, FlattenIs
  <2>2. n \in 1..n
    BY <1>5
  <2> HIDE DEF n
  <2>3. f[n] \in Seq(S)
    <3>1. n \in 0..Len(ss)
      BY DEF n
    <3> QED
      BY <2>1, <2>2, <3>1, FlattensType
  <2>4. f[n] = g[n]
    <3>2. Agree(ss, tt, n)
      BY <1>2 DEF Agree
    <3>3. n \in Nat /\ n =< n /\ n =< n + 1 /\ n + 1 \in Nat
      BY <1>2
    <3>4. Flattens(f, ss, n) /\ Flattens(g, tt, n + 1)
      BY <1>3, <2>1
    <3>5. Agree(f, g, n)
      BY <3>2, <3>3, <3>4, FlattensAgree
    <3> QED
      BY <2>2, <3>5 DEF Agree
  <2>5. g[n + 1] = Cat(g[n], tt[n + 1])
    <3>1. n \in 1..((n + 1) - 1) /\ n + 1 \in Nat
      BY <1>2, <2>2
    <3> QED
      BY <1>3, <3>1, FlattensStep
  <2> QED
    BY <1>2, <1>3, <2>1, <2>3, <2>4, <2>5 DEF tt, Cat
<1> QED
    BY <1>4, <1>5

\* FlattenSeq() may as well start with the first element.
LEMMA FlattenHead ==
    ASSUME NEW S, NEW ss \in Seq(Seq(S)), ss # <<>>
    PROVE  FlattenSeq(ss) = Head(ss) \o FlattenSeq(Tail(ss))
<1> DEFINE tt == Tail(ss)
           n == Len(ss)
           h == Head(ss)
<1>1. /\ n \in Nat /\ n - 1 \in Nat /\ Len(tt) = n - 1
      /\ h = ss[1] /\ \A i \in 1..(n - 1) : tt[i] = ss[i + 1]
    OBVIOUS
<1>2. h \in Seq(S) /\ tt \in Seq(Seq(S))
  <2> DEFINE W == Seq(S)
  <2>1. ss \in Seq(W)
    OBVIOUS
  <2> HIDE DEF W
  <2>2. h \in W /\ tt \in Seq(W)
    BY <2>1
  <2> QED
    BY <2>2 DEF W
<1>3. tt = <<>> <=> n - 1 = 0
  <2> HIDE DEF tt, n
  <2> QED
    BY <1>1, <1>2, EmptyLen
<1>5. PICK f : Flattens(f, ss, n) /\ FlattenSeq(ss) = f[n]
    BY FlattenIs
<1>6. f[1] = h /\ \A i \in 1..(n - 1) : f[i + 1] = Cat(f[i], ss[i + 1])
    BY <1>1, <1>5, FlattensStep
<1> SUFFICES FlattenSeq(ss) = h \o FlattenSeq(tt)
    OBVIOUS
<1> HIDE DEF tt, n, h
<1>7. CASE n - 1 = 0
  <2>1. FlattenSeq(tt) = <<>>
    BY <1>1, <1>3, <1>7 DEF FlattenSeq
  <2>2. h = h \o <<>>
    BY <1>2
  <2>3. n = 1
    BY <1>1, <1>7
  <2> QED
    BY <1>5, <1>6, <2>1, <2>2, <2>3
<1>8. CASE n - 1 # 0
  <2>1. PICK g : Flattens(g, tt, n - 1) /\ FlattenSeq(tt) = g[n - 1]
    BY <1>1, <1>2, <1>3, <1>8, FlattenIs
  <2>2. \A i \in 1..(n - 1) : g[i] \in Seq(S)
    <3>1. n - 1 \in 0..Len(tt)
      BY <1>1
    <3> QED
      BY <1>2, <2>1, <3>1, FlattensType
  <2>3. /\ g[1] = tt[1]
        /\ \A i \in 1..((n - 1) - 1) : g[i + 1] = Cat(g[i], tt[i + 1])
    BY <1>1, <1>8, <2>1, FlattensStep
  <2> DEFINE P == {i \in 1..(n - 1) : f[i + 1] = Cat(h, g[i])}
  <2>4. 1 \in P
    <3>1. 1 \in 1..(n - 1)
      BY <1>1, <1>8
    <3>2. f[1 + 1] = Cat(f[1], ss[1 + 1]) /\ tt[1] = ss[1 + 1]
      BY <1>1, <1>6, <3>1
    <3> QED
      BY <1>6, <2>3, <3>1, <3>2
  <2>5. ASSUME NEW i \in 1..((n - 1) - 1), i \in P PROVE i + 1 \in P
    <3>1. /\ i \in 1..(n - 1) /\ i + 1 \in 1..(n - 1)
          /\ (i + 1) + 1 \in 1..n
      BY <1>1
    <3>2. f[(i + 1) + 1] = Cat(f[i + 1], ss[(i + 1) + 1])
      BY <1>6, <3>1
    <3>3. f[i + 1] = Cat(h, g[i])
      BY <2>5
    <3>4. g[i + 1] = Cat(g[i], ss[(i + 1) + 1])
      BY <1>1, <2>3, <3>1
    <3>5. ss[(i + 1) + 1] \in Seq(S)
      BY <3>1 DEF n
    <3>6. Cat(Cat(h, g[i]), ss[(i + 1) + 1])
              = Cat(h, Cat(g[i], ss[(i + 1) + 1]))
      BY <1>2, <2>2, <3>1, <3>5, CatAssoc
    <3> QED
      BY <3>1, <3>2, <3>3, <3>4, <3>6
  <2> HIDE DEF P
  <2>6. 1..(n - 1) \subseteq P
    BY <1>1, <2>4, <2>5, IntervalInduction
  <2>7. n - 1 \in P
    BY <1>1, <1>8, <2>6
  <2>8. f[(n - 1) + 1] = Cat(h, g[n - 1]) /\ (n - 1) + 1 = n
    BY <1>1, <2>7 DEF P
  <2> QED
    BY <1>5, <2>1, <2>8 DEF Cat
<1> QED
    BY <1>7, <1>8

\* FlattenSeq() drops nothing.
LEMMA FlattenHas ==
    ASSUME NEW S, NEW ss \in Seq(Seq(S)), NEW k \in DOMAIN ss,
           NEW x \in ToSet(ss[k])
    PROVE  x \in ToSet(FlattenSeq(ss))
<1> DEFINE n == Len(ss)
<1>1. n \in Nat /\ k \in 1..n /\ ss # <<>>
    OBVIOUS
<1>2. PICK f : Flattens(f, ss, n) /\ FlattenSeq(ss) = f[n]
    BY <1>1, FlattenIs
<1>3. \A i \in 1..n : f[i] \in Seq(S) /\ ss[i] \in Seq(S)
  <2>1. n \in 0..Len(ss)
    OBVIOUS
  <2>2. \A i \in 1..n : f[i] \in Seq(S)
    BY <1>2, <2>1, FlattensType
  <2> QED
    BY <2>2
<1>4. f[1] = ss[1] /\ \A i \in 1..(n - 1) : f[i + 1] = Cat(f[i], ss[i + 1])
    BY <1>1, <1>2, FlattensStep
<1>5. \A s, t \in Seq(S) : ToSet(Cat(s, t)) = ToSet(s) \cup ToSet(t)
  <2> SUFFICES ASSUME NEW s \in Seq(S), NEW t \in Seq(S)
               PROVE  ToSet(s \o t) = ToSet(s) \cup ToSet(t)
    BY DEF Cat
  <2>1. ToSet(s \o t) \subseteq ToSet(s) \cup ToSet(t)
    BY DEF ToSet
  <2>2. ToSet(s) \subseteq ToSet(s \o t)
    BY DEF ToSet
  <2>3. ToSet(t) \subseteq ToSet(s \o t)
    <3> SUFFICES ASSUME NEW i \in DOMAIN t
                 PROVE  \E j \in DOMAIN (s \o t) : (s \o t)[j] = t[i]
      BY DEF ToSet
    <3>1. Len(s) + i \in DOMAIN (s \o t) /\ (s \o t)[Len(s) + i] = t[i]
      OBVIOUS
    <3> QED
      BY <3>1
  <2> QED
    BY <2>1, <2>2, <2>3
<1> HIDE DEF n
<1> DEFINE P == {i \in 1..n : k =< i => x \in ToSet(f[i])}
<1>6. 1 \in P
    BY <1>1, <1>4
<1>7. ASSUME NEW i \in 1..(n - 1), i \in P PROVE i + 1 \in P
  <2>1. i \in 1..n /\ i + 1 \in 1..n
    BY <1>1
  <2>2. ToSet(f[i + 1]) = ToSet(f[i]) \cup ToSet(ss[i + 1])
    BY <1>3, <1>4, <1>5, <2>1
  <2>3. k =< i + 1 => k =< i \/ k = i + 1
    BY <1>1
  <2> QED
    BY <1>7, <2>1, <2>2, <2>3
<1> HIDE DEF P
<1>8. 1..n \subseteq P
    BY <1>1, <1>6, <1>7, IntervalInduction
<1>9. n \in P /\ k =< n
    BY <1>1, <1>8
<1> QED
    BY <1>2, <1>9 DEF P

\* What an append does to the objects of a sequence.
LEMMA AppendSet ==
    ASSUME NEW S, NEW s \in Seq(S), NEW a \in S
    PROVE  /\ ToSet(Append(s, a)) = ToSet(s) \cup {a}
           /\ IsInjective(s) /\ a \notin ToSet(s) => IsInjective(Append(s, a))
<1> DEFINE t == Append(s, a)
           n == Len(s)
<1>1. /\ n \in Nat /\ DOMAIN t = 1..(n + 1) /\ DOMAIN s = 1..n
      /\ t[n + 1] = a /\ \A i \in 1..n : t[i] = s[i]
    OBVIOUS
<1> HIDE DEF t, n
<1>2. ToSet(t) = ToSet(s) \cup {a}
  <2>1. ToSet(t) \subseteq ToSet(s) \cup {a}
    BY <1>1 DEF ToSet
  <2>2. n + 1 \in 1..(n + 1) /\ \A i \in 1..n : i \in 1..(n + 1)
    BY <1>1
  <2>3. ToSet(s) \cup {a} \subseteq ToSet(t)
    BY <1>1, <2>2 DEF ToSet
  <2> QED
    BY <2>1, <2>3
<1>3. ASSUME IsInjective(s), a \notin ToSet(s) PROVE IsInjective(t)
  <2>1. \A i \in 1..n : s[i] # a
    BY <1>1, <1>3 DEF ToSet
  <2> QED
    BY <1>1, <1>3, <2>1 DEF IsInjective
<1> QED
    BY <1>2, <1>3 DEF t

\* What a receive does to them.
LEMMA TailSet ==
    ASSUME NEW S, NEW s \in Seq(S), s # <<>>
    PROVE  /\ Head(s) \in S
           /\ ToSet(s) = {Head(s)} \cup ToSet(Tail(s))
           /\ IsInjective(s) => /\ IsInjective(Tail(s))
                                /\ Head(s) \notin ToSet(Tail(s))
<1> DEFINE t == Tail(s)
           n == Len(s)
           h == Head(s)
<1>1. /\ n \in Nat /\ n >= 1 /\ DOMAIN t = 1..(n - 1) /\ DOMAIN s = 1..n
      /\ s[1] = h /\ h \in S /\ \A i \in 1..(n - 1) : t[i] = s[i + 1]
    OBVIOUS
<1> SUFFICES /\ ToSet(s) = {h} \cup ToSet(t)
             /\ IsInjective(s) => IsInjective(t) /\ h \notin ToSet(t)
    BY <1>1
<1> HIDE DEF t, n, h
<1>2. ToSet(s) = {h} \cup ToSet(t)
  <2>1. ASSUME NEW i \in 1..n, i # 1 PROVE s[i] \in ToSet(t)
    <3>1. i - 1 \in 1..(n - 1) /\ (i - 1) + 1 = i
      BY <1>1, <2>1
    <3>2. t[i - 1] = s[(i - 1) + 1]
      BY <1>1, <3>1
    <3>3. t[i - 1] = s[i]
      BY <3>1, <3>2
    <3> QED
      BY <1>1, <3>1, <3>3 DEF ToSet
  <2>2. \A i \in 1..(n - 1) : i + 1 \in 1..n
    BY <1>1
  <2>3. ToSet(s) \subseteq {h} \cup ToSet(t)
    BY <1>1, <2>1 DEF ToSet
  <2>4. {h} \cup ToSet(t) \subseteq ToSet(s)
    BY <1>1, <2>2 DEF ToSet
  <2> QED
    BY <2>3, <2>4
<1>3. ASSUME IsInjective(s) PROVE IsInjective(t) /\ h \notin ToSet(t)
  <2>1. \A i \in 1..(n - 1) : i + 1 \in 1..n /\ i + 1 # 1
    BY <1>1
  <2>2. h \notin ToSet(t)
    BY <1>1, <1>3, <2>1 DEF IsInjective, ToSet
  <2>3. ASSUME NEW i \in 1..(n - 1), NEW j \in 1..(n - 1), t[i] = t[j]
        PROVE  i = j
    <3>1. s[i + 1] = s[j + 1]
      BY <1>1, <2>3
    <3>2. i + 1 = j + 1
      BY <1>1, <1>3, <2>1, <3>1 DEF IsInjective
    <3> QED
      BY <1>1, <3>2
  <2>4. IsInjective(t)
    BY <1>1, <2>3 DEF IsInjective
  <2> QED
    BY <2>2, <2>4
<1> QED
    BY <1>2, <1>3

-----------------------------------------------------------------------------
(* The elements of a sequence that are in a set. *)

Keep(M, s) == FlattenSeq([i \in DOMAIN s |->
                              IF s[i] \in M THEN <<s[i]>> ELSE <<>>])

\* The pieces of which Keep() is put together.
LEMMA PiecesType ==
    ASSUME NEW S, NEW s \in Seq(S), NEW M
    PROVE  [i \in DOMAIN s |-> IF s[i] \in M THEN <<s[i]>> ELSE <<>>]
               \in Seq(Seq(S))
<1>1. \A i \in 1..Len(s) : s[i] \in S
    OBVIOUS
<1>2. \A i \in 1..Len(s) :
          (IF s[i] \in M THEN <<s[i]>> ELSE <<>>) \in Seq(S)
    BY <1>1
<1> DEFINE W == Seq(S)
           g(i) == IF s[i] \in M THEN <<s[i]>> ELSE <<>>
<1>3. Len(s) \in Nat /\ DOMAIN s = 1..Len(s) /\ \A i \in 1..Len(s) : g(i) \in W
    BY <1>2
<1> SUFFICES [i \in DOMAIN s |-> g(i)] \in Seq(W)
    OBVIOUS
<1> HIDE DEF W, g
<1> QED
    BY <1>3

\* An item appended is kept if it is in M.
LEMMA KeepAppend ==
    ASSUME NEW S, NEW s \in Seq(S), NEW k \in S, NEW M
    PROVE  /\ Keep(M, s) \in Seq(S)
           /\ k \in M => Keep(M, Append(s, k)) = Append(Keep(M, s), k)
           /\ k \notin M => Keep(M, Append(s, k)) = Keep(M, s)
<1> DEFINE t == Append(s, k)
           n == Len(s)
           g(u, i) == IF u[i] \in M THEN <<u[i]>> ELSE <<>>
           ss == [i \in DOMAIN s |-> g(s, i)]
           tt == [i \in DOMAIN t |-> g(t, i)]
           a == IF k \in M THEN <<k>> ELSE <<>>
           W == Seq(S)
<1>1. ss \in Seq(W) /\ tt \in Seq(W) /\ a \in W
  <2>1. ss \in Seq(Seq(S))
    BY PiecesType
  <2>2. tt \in Seq(Seq(S))
    <3>1. t \in Seq(S)
      OBVIOUS
    <3> HIDE DEF t
    <3> QED
      BY <3>1, PiecesType
  <2>3. a \in Seq(S)
    OBVIOUS
  <2> QED
    BY <2>1, <2>2, <2>3
<1>2. /\ n \in Nat /\ DOMAIN t = 1..(n + 1) /\ DOMAIN s = 1..n
      /\ t[n + 1] = k /\ \A i \in 1..n : t[i] = s[i]
    OBVIOUS
<1>3. tt = Append(ss, a)
  <2>1. tt = [i \in 1..(n + 1) |-> g(t, i)]
    BY <1>2
  <2>2. \A i \in 1..n : g(t, i) = g(s, i)
    BY <1>2
  <2>3. g(t, n + 1) = a
    BY <1>2
  <2>4. ss = [i \in 1..n |-> g(s, i)]
    BY <1>2
  <2>5. Len(ss) = n /\ Len(tt) = n + 1
    BY <1>2, <2>1, <2>4
  <2>6. \A i \in 1..n : tt[i] = ss[i]
    <3> HIDE DEF t, a, g
    <3> QED
      BY <1>2, <2>1, <2>2, <2>4
  <2>7. tt[n + 1] = a
    <3> HIDE DEF t, a, g
    <3> QED
      BY <1>2, <2>1, <2>3
  <2> HIDE DEF ss, tt, a, W, n
  <2>8. /\ Append(ss, a) \in Seq(W) /\ Len(Append(ss, a)) = n + 1
        /\ \A i \in 1..(n + 1) : Append(ss, a)[i] = tt[i]
    BY <1>1, <1>2, <2>5, <2>6, <2>7
  <2> QED
    BY <1>1, <2>5, <2>8, SeqEqual
<1>4. Keep(M, s) = FlattenSeq(ss) /\ Keep(M, t) = FlattenSeq(tt)
    BY DEF Keep
<1>5. ss \in Seq(Seq(S)) /\ a \in Seq(S)
    BY <1>1
<1> HIDE DEF ss, tt
<1>6. /\ FlattenSeq(ss) \in Seq(S)
      /\ FlattenSeq(Append(ss, a)) = FlattenSeq(ss) \o a
    BY <1>5, FlattenAppend
<1>7. Keep(M, s) \in Seq(S)
    BY <1>4, <1>6
<1>8. Keep(M, t) = Keep(M, s) \o a
    BY <1>3, <1>4, <1>6
<1>9. k \in M => Keep(M, s) \o <<k>> = Append(Keep(M, s), k)
    BY <1>7
<1>10. Keep(M, s) \o <<>> = Keep(M, s)
    BY <1>7
<1> QED
    BY <1>7, <1>8, <1>9, <1>10

\* The head of a sequence is the head of what is kept, if it is in M.
LEMMA KeepHead ==
    ASSUME NEW S, NEW s \in Seq(S), s # <<>>, NEW M
    PROVE  Keep(M, s) = IF Head(s) \in M THEN <<Head(s)>> \o Keep(M, Tail(s))
                      ELSE Keep(M, Tail(s))
<1> DEFINE t == Tail(s)
           n == Len(s)
           g(u, i) == IF u[i] \in M THEN <<u[i]>> ELSE <<>>
           ss == [i \in DOMAIN s |-> g(s, i)]
           tt == [i \in DOMAIN t |-> g(t, i)]
           a == IF Head(s) \in M THEN <<Head(s)>> ELSE <<>>
           W == Seq(S)
<1>1. ss \in Seq(W)
    BY PiecesType
<1>2. /\ n \in Nat /\ n >= 1 /\ DOMAIN t = 1..(n - 1) /\ DOMAIN s = 1..n
      /\ s[1] = Head(s) /\ \A i \in 1..(n - 1) : t[i] = s[i + 1]
      /\ t \in Seq(S)
    OBVIOUS
<1>3. Head(ss) = a /\ Len(ss) = n /\ ss # <<>>
  <2>1. ss = [i \in 1..n |-> g(s, i)]
    BY <1>2
  <2>2. Len(ss) = n
    BY <1>2, <2>1
  <2>3. ss[1] = a
    BY <1>2, <2>1
  <2> HIDE DEF ss, W, a, n
  <2>4. ss # <<>>
    BY <1>1, <1>2, <2>2
  <2> QED
    BY <1>1, <1>2, <2>2, <2>3, <2>4
<1>4. Tail(ss) = tt
  <2>1. tt = [i \in 1..(n - 1) |-> g(t, i)]
    BY <1>2
  <2>2. \A i \in 1..(n - 1) : g(t, i) = g(s, i + 1) /\ i + 1 \in 1..n
    BY <1>2
  <2>3. ss = [i \in 1..n |-> g(s, i)]
    BY <1>2
  <2>4. tt \in Seq(W) /\ Len(tt) = n - 1
    <3>1. tt \in Seq(Seq(S))
      <4> HIDE DEF t
      <4> QED
        BY <1>2, PiecesType
    <3> QED
      BY <1>2, <2>1, <3>1
  <2>5. \A i \in 1..(n - 1) : tt[i] = ss[i + 1]
    <3> HIDE DEF t, g
    <3> QED
      BY <1>2, <2>1, <2>2, <2>3
  <2> HIDE DEF ss, tt, W, n
  <2>6. /\ Tail(ss) \in Seq(W) /\ Len(Tail(ss)) = n - 1
        /\ \A i \in 1..(n - 1) : Tail(ss)[i] = ss[i + 1]
    BY <1>1, <1>3, HeadTailProperties
  <2> QED
    BY <2>4, <2>5, <2>6, SeqEqual
<1>5. Keep(M, s) = FlattenSeq(ss) /\ Keep(M, t) = FlattenSeq(tt)
    BY DEF Keep
<1>6. ss \in Seq(Seq(S))
    BY <1>1
<1> HIDE DEF ss, tt
<1>7. FlattenSeq(ss) = Head(ss) \o FlattenSeq(Tail(ss))
    BY <1>3, <1>6, FlattenHead
<1>8. Keep(M, s) = a \o Keep(M, t)
    BY <1>3, <1>4, <1>5, <1>7
<1>9. Keep(M, t) \in Seq(S)
  <2>1. Head(s) \in S
    OBVIOUS
  <2> QED
    BY <1>2, <2>1, KeepAppend
<1>10. <<>> \o Keep(M, t) = Keep(M, t)
    BY <1>9
<1> QED
    BY <1>8, <1>10

\* Nothing is kept of nothing.
LEMMA KeepEmpty == ASSUME NEW M PROVE Keep(M, <<>>) = <<>>
<1>1. [i \in DOMAIN <<>> |-> IF <<>>[i] \in M THEN <<<<>>[i]>> ELSE <<>>]
          = <<>>
    OBVIOUS
<1> QED
    BY <1>1 DEF Keep, FlattenSeq
\* What is kept is a sequence of elements of the same kind.
LEMMA KeepType ==
    ASSUME NEW S, NEW s \in Seq(S), NEW M
    PROVE  Keep(M, s) \in Seq(S)
<1>1. CASE s = <<>>
    BY <1>1, KeepEmpty
<1>2. CASE s # <<>>
  <2>1. Head(s) \in S
    BY <1>2
  <2> QED
    BY <2>1, KeepAppend
<1> QED
    BY <1>1, <1>2

\* Every element that is in M is kept.
LEMMA KeepHas ==
    ASSUME NEW S, NEW s \in Seq(S), NEW M, NEW i \in DOMAIN s, s[i] \in M
    PROVE  s[i] \in ToSet(Keep(M, s)) /\ Keep(M, s) # <<>>
<1> DEFINE ss == [j \in DOMAIN s |-> IF s[j] \in M THEN <<s[j]>> ELSE <<>>]
<1>1. ss \in Seq(Seq(S))
    BY PiecesType
<1>2. i \in DOMAIN ss /\ ss[i] = <<s[i]>>
    OBVIOUS
<1>3. s[i] \in ToSet(<<s[i]>>)
    BY DEF ToSet
<1>4. Keep(M, s) = FlattenSeq(ss)
    BY DEF Keep
<1> HIDE DEF ss
<1>5. s[i] \in ToSet(FlattenSeq(ss))
    BY <1>1, <1>2, <1>3, FlattenHas
<1>6. ToSet(<<>>) = {}
    BY DEF ToSet
<1> QED
    BY <1>4, <1>5, <1>6

\* If none is in M, nothing is kept.
LEMMA KeepNone ==
    ASSUME NEW S, NEW s \in Seq(S), NEW M, \A i \in DOMAIN s : s[i] \notin M
    PROVE  Keep(M, s) = <<>>
<1> DEFINE ss == [j \in DOMAIN s |-> IF s[j] \in M THEN <<s[j]>> ELSE <<>>]
           n == Len(ss)
<1>1. ss \in Seq(Seq(S))
    BY PiecesType
<1>2. \A i \in DOMAIN ss : ss[i] = <<>>
    OBVIOUS
<1>3. Keep(M, s) = FlattenSeq(ss)
    BY DEF Keep
<1>4. CASE ss = <<>>
    BY <1>3, <1>4 DEF FlattenSeq
<1>5. CASE ss # <<>>
  <2> HIDE DEF ss
  <2>1. n \in Nat \ {0} /\ DOMAIN ss = 1..n
    <3> DEFINE W == Seq(S)
    <3>1. ss \in Seq(W)
      BY <1>1
    <3> HIDE DEF W
    <3> QED
      BY <1>5, <3>1
  <2>2. PICK f : Flattens(f, ss, n) /\ FlattenSeq(ss) = f[n]
    BY <1>1, <1>5, FlattenIs
  <2>3. f[1] = ss[1] /\ \A i \in 1..(n - 1) : f[i + 1] = Cat(f[i], ss[i + 1])
    BY <2>1, <2>2, FlattensStep
  <2> HIDE DEF n
  <2> DEFINE P == {i \in 1..n : f[i] = <<>>}
  <2>4. 1 \in P
    BY <1>2, <2>1, <2>3
  <2>5. ASSUME NEW i \in 1..(n - 1), i \in P PROVE i + 1 \in P
    <3>1. i + 1 \in 1..n
      BY <2>1
    <3>2. f[i + 1] = Cat(<<>>, <<>>)
      BY <1>2, <2>1, <2>3, <2>5, <3>1
    <3> QED
      BY <3>1, <3>2 DEF Cat
  <2> HIDE DEF P
  <2>6. 1..n \subseteq P
    BY <2>1, <2>4, <2>5, IntervalInduction
  <2> QED
    BY <1>3, <2>1, <2>2, <2>6 DEF P
<1> QED
    BY <1>4, <1>5
=============================================================================
