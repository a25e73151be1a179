------------------------------ MODULE ListsProofs ------------------------------
(* Facts about lists that the proofs share.  The library's induction theorems take
   an operator, so what holds along a list is proved from its least counterexample. *)
EXTENDS Lists, FiniteSets, FiniteSetTheorems, SequenceTheorems, WellFoundedInduction, TLAPS

\* Every set of natural numbers that is not empty has a least element.
LEMMA LeastElement ==
  ASSUME NEW T, T \subseteq Nat, T # {}
  PROVE  \E n \in T : \A m \in T : n <= m
<1>1. PICK n \in T : \A m \in T : ~(<<m, n>> \in OpToRel(<, Nat))
  BY WFMin, NatLessThanWellFounded
<1>2. \A m \in T : ~(m < n)
  BY <1>1 DEF OpToRel
<1>3. QED
  BY <1>2

\* The members of a list with one more element.
LEMMA AppendSet ==
  ASSUME NEW T, NEW q \in Seq(T), NEW x \in T
  PROVE  ToSet(Append(q, x)) = ToSet(q) \cup {x}
<1>1. ToSet(q) \cup {x} \subseteq ToSet(Append(q, x))
  <2>1. ToSet(q) \subseteq ToSet(Append(q, x))
    BY DEF ToSet
  <2>2. x = Append(q, x)[Len(q) + 1] /\ Len(q) + 1 \in DOMAIN Append(q, x)
    OBVIOUS
  <2>3. QED
    BY <2>1, <2>2 DEF ToSet
<1>2. ToSet(Append(q, x)) \subseteq ToSet(q) \cup {x}
  BY DEF ToSet
<1>3. QED
  BY <1>1, <1>2

\* A list without repetitions has none with one new element more.
LEMMA AppendDistinct ==
  ASSUME NEW T, NEW q \in Seq(T), NEW x \in T, IsInjective(q), x \notin ToSet(q)
  PROVE  IsInjective(Append(q, x))
BY DEF IsInjective, ToSet

\* The members of two lists joined.
LEMMA ConcatSet ==
  ASSUME NEW T, NEW q \in Seq(T), NEW r \in Seq(T)
  PROVE  ToSet(q \o r) = ToSet(q) \cup ToSet(r)
<1>1. ASSUME NEW i \in DOMAIN (q \o r) PROVE (q \o r)[i] \in ToSet(q) \cup ToSet(r)
  <2>1. CASE i <= Len(q)
    BY <2>1 DEF ToSet
  <2>2. CASE i > Len(q)
    <3>1. i - Len(q) \in DOMAIN r /\ (q \o r)[i] = r[i - Len(q)]
      BY <2>2
    <3>2. QED
      BY <3>1 DEF ToSet
  <2>3. QED
    BY <2>1, <2>2
<1>2. ToSet(q) \subseteq ToSet(q \o r)
  <2>1. \A i \in DOMAIN q : i \in DOMAIN (q \o r) /\ (q \o r)[i] = q[i]
    OBVIOUS
  <2>2. QED
    BY <2>1 DEF ToSet
<1>3. ToSet(r) \subseteq ToSet(q \o r)
  <2>1. \A i \in DOMAIN r : i + Len(q) \in DOMAIN (q \o r) /\ (q \o r)[i + Len(q)] = r[i]
    OBVIOUS
  <2>2. QED
    BY <2>1 DEF ToSet
<1>4. QED
  BY <1>1, <1>2, <1>3 DEF ToSet

\* The members of a list are its head and those of its tail.
LEMMA TailSet ==
  ASSUME NEW T, NEW q \in Seq(T), q # <<>>
  PROVE  ToSet(q) = ToSet(Tail(q)) \cup {Head(q)}
<1>1. ASSUME NEW i \in DOMAIN q PROVE q[i] \in ToSet(Tail(q)) \cup {Head(q)}
  <2>1. CASE i = 1
    BY <2>1
  <2>2. CASE i # 1
    <3>1. i - 1 \in DOMAIN Tail(q) /\ q[i] = Tail(q)[i - 1]
      BY <2>2
    <3>2. QED
      BY <3>1 DEF ToSet
  <2>3. QED
    BY <2>1, <2>2
<1>2. ToSet(Tail(q)) \subseteq ToSet(q)
  BY DEF ToSet
<1>3. Head(q) \in ToSet(q)
  BY DEF ToSet
<1>4. ToSet(q) \subseteq ToSet(Tail(q)) \cup {Head(q)}
  BY <1>1 DEF ToSet
<1>5. QED
  BY <1>2, <1>3, <1>4

\* A part of a list has no other members than the list.
LEMMA SubSeqSet ==
  ASSUME NEW T, NEW q \in Seq(T), NEW m \in 1 .. Len(q) + 1, NEW n \in m - 1 .. Len(q)
  PROVE  /\ SubSeq(q, m, n) \in Seq(T) /\ Len(SubSeq(q, m, n)) = n - m + 1
         /\ ToSet(SubSeq(q, m, n)) \subseteq ToSet(q)
<1>1. SubSeq(q, m, n) \in Seq(T) /\ Len(SubSeq(q, m, n)) = n - m + 1
  BY SubSeqProperties
<1>2. \A i \in DOMAIN SubSeq(q, m, n) :
        m + i - 1 \in DOMAIN q /\ SubSeq(q, m, n)[i] = q[m + i - 1]
  BY <1>1, SubSeqProperties
<1>3. QED
  BY <1>1, <1>2 DEF ToSet

\* A list without repetitions has as many members as elements.
LEMMA InjectiveCount ==
  ASSUME NEW T, NEW q \in Seq(T), IsInjective(q)
  PROVE  IsFiniteSet(ToSet(q)) /\ Cardinality(ToSet(q)) = Len(q)
<1>1. q \in [1 .. Len(q) -> ToSet(q)] /\ Len(q) \in Nat
  BY DEF ToSet
<1>2. q \in Bijection(1 .. Len(q), ToSet(q))
  BY <1>1 DEF Bijection, Injection, Surjection, IsInjective, ToSet
<1>3. ExistsBijection(1 .. Len(q), ToSet(q))
  BY <1>2 DEF ExistsBijection
<1>4. QED
  BY <1>1, <1>3, FS_CountingElements, FS_NatBijection

\* A list without repetitions, cut in two: nothing is lost, and the parts are disjoint.
LEMMA CutInTwo ==
  ASSUME NEW T, NEW w \in Seq(T), IsInjective(w), NEW n \in 0 .. Len(w)
  PROVE  LET taken == {w[i] : i \in 1 .. n}
             rest == SubSeq(w, n + 1, Len(w))
         IN  /\ taken \subseteq T /\ IsFiniteSet(taken) /\ Cardinality(taken) = n
             /\ rest \in Seq(T) /\ IsInjective(rest) /\ (rest # <<>> => n < Len(w))
             /\ taken \cup ToSet(rest) = ToSet(w) /\ taken \cap ToSet(rest) = {}
<1> DEFINE taken == {w[i] : i \in 1 .. n}
           rest == SubSeq(w, n + 1, Len(w))
           first == SubSeq(w, 1, n)
<1>1. rest \in Seq(T) /\ Len(rest) = Len(w) - n /\ \A i \in 1 .. Len(w) - n : rest[i] = w[n + i]
  <2>1. \A i \in n + 1 .. Len(w) : w[i] \in T
    OBVIOUS
  <2>2. QED
    BY <2>1, SubSeqProperties
<1>2. first \in Seq(T) /\ Len(first) = n /\ \A i \in 1 .. n : first[i] = w[i]
  <2>1. \A i \in 1 .. n : w[i] \in T
    OBVIOUS
  <2>2. QED
    BY <2>1, SubSeqProperties
<1> HIDE DEF rest, first
<1>3. DOMAIN rest = 1 .. Len(w) - n /\ DOMAIN first = 1 .. n /\ DOMAIN w = 1 .. Len(w)
  BY <1>1, <1>2
<1>4. IsInjective(first) /\ IsInjective(rest)
  <2>1. \A i, j \in 1 .. Len(w) : w[i] = w[j] => i = j
    BY <1>3 DEF IsInjective
  <2>2. \A i \in 1 .. Len(w) - n : n + i \in 1 .. Len(w)
    OBVIOUS
  <2>3. \A i \in 1 .. n : i \in 1 .. Len(w)
    OBVIOUS
  <2>4. \A i, j \in 1 .. n : first[i] = first[j] => i = j
    BY <1>2, <2>1, <2>3
  <2>5. \A i, j \in 1 .. Len(w) - n : rest[i] = rest[j] => i = j
    <3>1. SUFFICES ASSUME NEW i \in 1 .. Len(w) - n, NEW j \in 1 .. Len(w) - n, rest[i] = rest[j]
                   PROVE  i = j
      OBVIOUS
    <3>2. n + i = n + j
      BY <1>1, <2>1, <2>2, <3>1
    <3>3. QED
      BY <3>2
  <2>6. IsInjective(first)
    BY <1>3, <2>4 DEF IsInjective
  <2>7. IsInjective(rest)
    BY <1>3, <2>5 DEF IsInjective
  <2>8. QED
    BY <2>6, <2>7
<1>5. ToSet(first) = taken
  BY <1>2, <1>3 DEF ToSet
<1>6. IsFiniteSet(taken) /\ Cardinality(taken) = n
  BY <1>2, <1>4, <1>5, InjectiveCount
<1>7. taken \cap ToSet(rest) = {}
  <2>1. \A i \in 1 .. n : \A j \in 1 .. Len(w) - n : w[i] # w[n + j]
    BY DEF IsInjective
  <2>2. ToSet(rest) = {w[n + j] : j \in 1 .. Len(w) - n}
    BY <1>1, <1>3 DEF ToSet
  <2>3. QED
    BY <2>1, <2>2
<1>8. ToSet(w) \subseteq taken \cup ToSet(rest)
  <2>1. ASSUME NEW i \in 1 .. Len(w) PROVE w[i] \in taken \cup ToSet(rest)
    <3>1. CASE i <= n
      BY <3>1
    <3>2. CASE ~(i <= n)
      <4>1. i - n \in 1 .. Len(w) - n /\ w[i] = rest[i - n]
        BY <3>2, <1>1
      <4>2. QED
        BY <4>1, <1>3 DEF ToSet
    <3>3. QED
      BY <3>1, <3>2
  <2>2. QED
    BY <2>1, <1>3 DEF ToSet
<1>9. taken \subseteq ToSet(w) /\ ToSet(rest) \subseteq ToSet(w) /\ taken \subseteq T
  <2>1. \A i \in 1 .. Len(w) - n : n + i \in DOMAIN w
    BY <1>3
  <2>2. \A i \in 1 .. n : i \in DOMAIN w /\ w[i] \in T
    BY <1>3
  <2>3. ToSet(rest) \subseteq ToSet(w)
    BY <1>1, <1>3, <2>1 DEF ToSet
  <2>4. QED
    BY <2>2, <2>3 DEF ToSet
<1>10. rest # <<>> => n < Len(w)
  BY <1>1
<1>11. QED
  BY <1>1, <1>4, <1>6, <1>7, <1>8, <1>9, <1>10 DEF rest

KeepStep(s, S, f, i) ==
  IF i = 0 THEN <<>> ELSE IF s[i] \in S THEN Append(f[i - 1], s[i]) ELSE f[i - 1]

KeepFcn(s, S, n, f) == f = [i \in 0 .. n |-> KeepStep(s, S, f, i)]

\* The function Keep is defined by exists, for a list of any length.
LEMMA KeepExists ==
  ASSUME NEW s, NEW S
  PROVE  \A n \in Nat : \E f : KeepFcn(s, S, n, f)
<1> DEFINE T == {n \in Nat : ~\E f : KeepFcn(s, S, n, f)}
<1> SUFFICES ASSUME T # {} PROVE FALSE
  OBVIOUS
<1>1. PICK n \in T : \A m \in T : n <= m
  BY LeastElement
<1>2. n # 0
  <2>1. KeepFcn(s, S, 0, [i \in 0 .. 0 |-> <<>>])
    BY DEF KeepFcn, KeepStep
  <2>2. QED
    BY <2>1
<1>3. PICK g : KeepFcn(s, S, n - 1, g)
  BY <1>1, <1>2
<1> DEFINE h == [i \in 0 .. n |-> IF i = n THEN KeepStep(s, S, g, n) ELSE g[i]]
<1>4. KeepFcn(s, S, n, h)
  <2>1. \A i \in 0 .. n : h[i] = KeepStep(s, S, h, i)
    <3> SUFFICES ASSUME NEW i \in 0 .. n PROVE h[i] = KeepStep(s, S, h, i)
      OBVIOUS
    <3>1. CASE i = n
      BY <1>2, <3>1 DEF KeepStep
    <3>2. CASE i # n
      <4>1. h[i] = KeepStep(s, S, g, i)
        BY <1>3, <3>2 DEF KeepFcn
      <4>2. i # 0 => h[i - 1] = g[i - 1]
        BY <3>2
      <4>3. QED
        BY <4>1, <4>2 DEF KeepStep
    <3>3. QED
      BY <3>1, <3>2
  <2> HIDE DEF h
  <2>2. h = [i \in 0 .. n |-> h[i]]
    BY DEF h
  <2>3. QED
    BY <2>1, <2>2 DEF KeepFcn
<1>5. QED
  BY <1>1, <1>4

\* Keep is the last value of a function that takes the steps.
LEMMA KeepUnfold ==
  ASSUME NEW s, NEW S, Len(s) \in Nat
  PROVE  \E f : KeepFcn(s, S, Len(s), f) /\ Keep(s, S) = f[Len(s)]
<1> DEFINE F == CHOOSE f : KeepFcn(s, S, Len(s), f)
<1>1. KeepFcn(s, S, Len(s), F)
  BY KeepExists
<1>2. Keep(s, S) = F[Len(s)]
  BY DEF Keep, KeepFcn, KeepStep
<1>3. QED
  BY <1>1, <1>2

\* What Keep returns: a list, of exactly the members of s that are in S, not longer than s,
\* and without repetitions when s has none.
LEMMA KeepProperties ==
  ASSUME NEW T, NEW s \in Seq(T), NEW S
  PROVE  /\ Keep(s, S) \in Seq(T)
         /\ ToSet(Keep(s, S)) = ToSet(s) \cap S
         /\ Len(Keep(s, S)) <= Len(s)
         /\ IsInjective(s) => IsInjective(Keep(s, S))
<1>1. PICK f : KeepFcn(s, S, Len(s), f) /\ Keep(s, S) = f[Len(s)]
  BY KeepUnfold
<1> DEFINE P(i) == /\ f[i] \in Seq(T)
                   /\ ToSet(f[i]) = {s[j] : j \in 1 .. i} \cap S
                   /\ Len(f[i]) <= i
                   /\ IsInjective(s) => IsInjective(f[i])
           B == {i \in Nat : i <= Len(s) /\ ~P(i)}
<1>2. \A i \in 0 .. Len(s) : f[i] = KeepStep(s, S, f, i)
  BY <1>1 DEF KeepFcn
<1>3. B = {}
  <2> SUFFICES ASSUME B # {} PROVE FALSE
    OBVIOUS
  <2>1. PICK i \in B : \A m \in B : i <= m
    BY LeastElement
  <2>2. CASE i = 0
    <3>1. f[0] = <<>>
      BY <1>2, <2>2 DEF KeepStep
    <3>2. P(0)
      BY <3>1 DEF ToSet, IsInjective
    <3>3. QED
      BY <2>1, <2>2, <3>2
  <2>3. CASE i # 0
    <3> HIDE DEF P
    <3>9. i \in 1 .. Len(s) /\ i - 1 \in 0 .. Len(s) /\ P(i - 1)
      BY <2>1, <2>3
    <3> USE DEF P
    <3>1. i \in 1 .. Len(s) /\ i - 1 \in 0 .. Len(s) /\ P(i - 1)
      BY <3>9
    <3>0. f[i] = KeepStep(s, S, f, i)
      BY <1>2, <3>1
    <3>2. s[i] \in T
      BY <3>1
    <3> HIDE DEF B
    <3>3. {s[j] : j \in 1 .. i} = {s[j] : j \in 1 .. (i - 1)} \cup {s[i]}
      BY <3>1
    <3>4. CASE s[i] \in S
      <4>1. f[i] = Append(f[i - 1], s[i])
        BY <2>3, <3>0, <3>4 DEF KeepStep
      <4>2. ToSet(f[i]) = ToSet(f[i - 1]) \cup {s[i]}
        BY <3>1, <3>2, <4>1, AppendSet
      <4>3. f[i] \in Seq(T) /\ Len(f[i]) <= i
        BY <3>1, <3>2, <4>1
      <4>4. IsInjective(s) => IsInjective(f[i])
        <5> SUFFICES ASSUME IsInjective(s) PROVE IsInjective(f[i])
          OBVIOUS
        <5>1. s[i] \notin {s[j] : j \in 1 .. (i - 1)}
          BY <3>1 DEF IsInjective
        <5>2. s[i] \notin ToSet(f[i - 1]) /\ f[i - 1] \in Seq(T)
          BY <3>1, <5>1
        <5>3. IsInjective(f[i - 1])
          BY <3>1
        <5>4. IsInjective(Append(f[i - 1], s[i]))
          BY <3>2, <5>2, <5>3, AppendDistinct
        <5>5. QED
          BY <4>1, <5>4, Zenon
      <4>5. P(i)
        BY <3>1, <3>3, <3>4, <4>2, <4>3, <4>4
      <4>6. QED
        BY <2>1, <4>5 DEF B
    <3>5. CASE s[i] \notin S
      <4>1. f[i] = f[i - 1]
        BY <2>3, <3>0, <3>5 DEF KeepStep
      <4>2. P(i)
        BY <3>1, <3>3, <3>5, <4>1
      <4>3. QED
        BY <2>1, <4>2 DEF B
    <3>6. QED
      BY <3>4, <3>5
  <2>4. QED
    BY <2>2, <2>3
<1>4. P(Len(s))
  <2>1. Len(s) \in Nat
    OBVIOUS
  <2> HIDE DEF P
  <2>2. QED
    BY <1>3, <2>1
<1>5. ToSet(s) = {s[j] : j \in 1 .. Len(s)}
  BY DEF ToSet
<1>6. QED
  BY <1>1, <1>4, <1>5

InOrder(s, n, t) ==
  \A a, b \in 1 .. Len(t) : a < b =>
    \E c, d \in 1 .. n : c < d /\ s[c] = t[a] /\ s[d] = t[b]

\* Keep does not change the order of what it keeps.
LEMMA KeepOrder ==
  ASSUME NEW T, NEW s \in Seq(T), NEW S
  PROVE  InOrder(s, Len(s), Keep(s, S))
<1>1. PICK f : KeepFcn(s, S, Len(s), f) /\ Keep(s, S) = f[Len(s)]
  BY KeepUnfold
<1> DEFINE P(i) == /\ f[i] \in Seq(T)
                   /\ \A a \in 1 .. Len(f[i]) : \E c \in 1 .. i : s[c] = f[i][a]
                   /\ InOrder(s, i, f[i])
           B == {i \in Nat : i <= Len(s) /\ ~P(i)}
<1>2. \A i \in 0 .. Len(s) : f[i] = KeepStep(s, S, f, i)
  BY <1>1 DEF KeepFcn
<1>3. B = {}
  <2> SUFFICES ASSUME B # {} PROVE FALSE
    OBVIOUS
  <2>1. PICK i \in B : \A m \in B : i <= m
    BY LeastElement
  <2>2. CASE i = 0
    <3>1. f[0] = <<>>
      BY <1>2, <2>2 DEF KeepStep
    <3>2. P(0)
      BY <3>1 DEF InOrder
    <3>3. QED
      BY <2>1, <2>2, <3>2
  <2>3. CASE i # 0
    <3>1. i \in 1 .. Len(s) /\ i - 1 \in 0 .. Len(s) /\ P(i - 1)
      <4> HIDE DEF P
      <4>1. QED
        BY <2>1, <2>3
    <3>2. f[i] = KeepStep(s, S, f, i)
      BY <1>2, <3>1
    <3>3. \A c \in 1 .. (i - 1) : c \in 1 .. i /\ c < i
      BY <3>1
    <3>4. P(i)
      <4>1. CASE s[i] \notin S
        <5>1. f[i] = f[i - 1]
          BY <2>3, <3>2, <4>1 DEF KeepStep
        <5>2. f[i] \in Seq(T) /\ \A a \in 1 .. Len(f[i]) : \E c \in 1 .. i : s[c] = f[i][a]
          BY <3>1, <3>3, <5>1
        <5>3. InOrder(s, i - 1, f[i])
          BY <3>1, <5>1
        <5>4. InOrder(s, i, f[i])
          BY <3>3, <5>3 DEF InOrder
        <5>5. QED
          BY <5>2, <5>4
      <4>2. CASE s[i] \in S
        <5> DEFINE g == f[i - 1]
        <5>1. f[i] = Append(g, s[i])
          BY <2>3, <3>2, <4>2 DEF KeepStep
        <5>2. g \in Seq(T) /\ s[i] \in T /\ i \in 1 .. i
          BY <3>1
        <5>3. \A a \in 1 .. Len(g) : \E c \in 1 .. (i - 1) : s[c] = g[a]
          BY <3>1
        <5>4. InOrder(s, i - 1, g)
          BY <3>1
        <5> HIDE DEF g
        <5>5. /\ f[i] \in Seq(T) /\ Len(f[i]) = Len(g) + 1 /\ f[i][Len(g) + 1] = s[i]
              /\ \A a \in 1 .. Len(g) : f[i][a] = g[a]
          BY <5>1, <5>2
        <5>6. \A a \in 1 .. Len(f[i]) : a \in 1 .. Len(g) \/ a = Len(g) + 1
          BY <5>2, <5>5
        <5>7. \A a \in 1 .. Len(f[i]) : \E c \in 1 .. i : s[c] = f[i][a]
          BY <3>3, <5>2, <5>3, <5>5, <5>6
        <5>8. ASSUME NEW a \in 1 .. Len(f[i]), NEW b \in 1 .. Len(f[i]), a < b
              PROVE  \E c, d \in 1 .. i : c < d /\ s[c] = f[i][a] /\ s[d] = f[i][b]
          <6>1. a \in 1 .. Len(g)
            BY <5>2, <5>5, <5>8
          <6>2. CASE b \in 1 .. Len(g)
            BY <3>3, <5>4, <5>5, <5>8, <6>1, <6>2 DEF InOrder
          <6>3. CASE b = Len(g) + 1
            <7>1. PICK c \in 1 .. (i - 1) : s[c] = g[a]
              BY <5>3, <6>1
            <7>2. c \in 1 .. i /\ c < i /\ s[c] = f[i][a] /\ s[i] = f[i][b]
              BY <3>3, <5>5, <6>1, <6>3, <7>1
            <7>3. QED
              BY <5>2, <7>2
          <6>4. QED
            BY <5>6, <6>2, <6>3
        <5>9. InOrder(s, i, f[i])
          BY <5>8 DEF InOrder
        <5>10. QED
          BY <5>5, <5>7, <5>9
      <4>3. QED
        BY <4>1, <4>2
    <3>5. QED
      BY <2>1, <3>4
  <2>4. QED
    BY <2>2, <2>3
<1>4. InOrder(s, Len(s), f[Len(s)])
  <2>1. P(Len(s))
    <3>1. Len(s) \in Nat
      OBVIOUS
    <3> HIDE DEF P
    <3>2. QED
      BY <1>3, <3>1
  <2>2. QED
    BY <2>1
<1>5. QED
  BY <1>1, <1>4

-------------------------------------------------------------------------------
(* Lists that lost elements. *)

\* r is q with some of its elements left out; f says where each of r's was.
Embeds(f, r, q) ==
  /\ f \in [DOMAIN r -> DOMAIN q]
  /\ \A a, b \in DOMAIN r : f[a] = f[b] => a = b
  /\ \A a \in DOMAIN r : r[a] = q[f[a]]

Shrinks(r, q) == \E f : Embeds(f, r, q)

\* x has one place in q at most.
Once(q, x) == \A i, j \in DOMAIN q : q[i] = x /\ q[j] = x => i = j

\* The places in q of the members of S.
Places(q, S) == {i \in DOMAIN q : q[i] \in S}

\* A list is its own remainder.
LEMMA ShrinksReflexive ==
  ASSUME NEW q
  PROVE  Shrinks(q, q)
<1>1. Embeds([a \in DOMAIN q |-> a], q, q)
  BY DEF Embeds
<1>2. QED
  BY <1>1 DEF Shrinks

\* What is left of what was left.
LEMMA ShrinksTransitive ==
  ASSUME NEW p, NEW q, NEW r, Shrinks(r, q), Shrinks(q, p)
  PROVE  Shrinks(r, p)
<1>1. PICK f : Embeds(f, r, q)
  BY DEF Shrinks
<1>2. PICK g : Embeds(g, q, p)
  BY DEF Shrinks
<1>3. Embeds([a \in DOMAIN r |-> g[f[a]]], r, p)
  BY <1>1, <1>2 DEF Embeds
<1>4. QED
  BY <1>3 DEF Shrinks

\* Leaving out brings in no member and repeats none.
LEMMA ShrinksMembers ==
  ASSUME NEW r, NEW q, Shrinks(r, q)
  PROVE  /\ ToSet(r) \subseteq ToSet(q)
         /\ \A x : Once(q, x) => Once(r, x)
<1>1. PICK f : Embeds(f, r, q)
  BY DEF Shrinks
<1>2. ToSet(r) \subseteq ToSet(q)
  BY <1>1 DEF Embeds, ToSet
<1>3. ASSUME NEW x, Once(q, x) PROVE Once(r, x)
  BY <1>1, <1>3 DEF Embeds, Once
<1>4. QED
  BY <1>2, <1>3

\* The places of a set in a list can be counted.
LEMMA PlacesFinite ==
  ASSUME NEW T, NEW q \in Seq(T), NEW S
  PROVE  /\ IsFiniteSet(Places(q, S)) /\ Cardinality(Places(q, S)) \in Nat
         /\ Places(q, S) \subseteq 1 .. Len(q)
<1>1. Places(q, S) \subseteq 1 .. Len(q) /\ Len(q) \in Nat
  BY DEF Places
<1>2. IsFiniteSet(1 .. Len(q))
  BY <1>1, FS_Interval
<1>3. QED
  BY <1>1, <1>2, FS_Subset, FS_CardinalityType

\* Leaving out leaves no more places than there were.
LEMMA ShrinksPlaces ==
  ASSUME NEW T, NEW q \in Seq(T), NEW r, Shrinks(r, q), NEW S
  PROVE  Cardinality(Places(r, S)) <= Cardinality(Places(q, S))
<1>1. PICK f : Embeds(f, r, q)
  BY DEF Shrinks
<1> DEFINE g == [a \in Places(r, S) |-> f[a]]
<1>2. g \in Injection(Places(r, S), Places(q, S))
  BY <1>1 DEF Embeds, Places, Injection, IsInjective
<1>3. QED
  BY <1>2, PlacesFinite, FS_Injection

\* A list without its first elements.
LEMMA SuffixShrinks ==
  ASSUME NEW T, NEW q \in Seq(T), NEW n \in 0 .. Len(q)
  PROVE  /\ SubSeq(q, n + 1, Len(q)) \in Seq(T)
         /\ Shrinks(SubSeq(q, n + 1, Len(q)), q)
<1> DEFINE r == SubSeq(q, n + 1, Len(q))
<1>1. r \in Seq(T) /\ Len(r) = Len(q) - n /\ \A i \in 1 .. Len(q) - n : r[i] = q[n + i]
  <2>1. \A i \in n + 1 .. Len(q) : q[i] \in T
    OBVIOUS
  <2>2. QED
    BY <2>1, SubSeqProperties
<1> HIDE DEF r
<1>2. DOMAIN r = 1 .. Len(q) - n /\ DOMAIN q = 1 .. Len(q) /\ Len(q) \in Nat
  BY <1>1
<1>3. Embeds([a \in DOMAIN r |-> n + a], r, q)
  BY <1>1, <1>2 DEF Embeds
<1>4. Shrinks(r, q)
  BY <1>3 DEF Shrinks
<1>5. QED
  BY <1>1, <1>4 DEF r

\* A list without the element at i: the last is still the last, unless it was
\* the one, and i is the place that its members have lost.
LEMMA RemoveAtShrinks ==
  ASSUME NEW T, NEW q \in Seq(T), NEW i \in 1 .. Len(q)
  PROVE  LET r == RemoveAt(q, i)
         IN  /\ r \in Seq(T) /\ Len(r) = Len(q) - 1 /\ Shrinks(r, q)
             /\ i # Len(q) => r # <<>> /\ r[Len(r)] = q[Len(q)]
             /\ \A S : i \in Places(q, S) =>
                  Cardinality(Places(r, S)) <= Cardinality(Places(q, S)) - 1
<1> DEFINE N == Len(q)
           r == RemoveAt(q, i)
           j == i + 1
           left == SubSeq(q, 1, i - 1)
           right == SubSeq(q, j, N)
           f == [a \in 1 .. (N - 1) |-> IF a < i THEN a ELSE a + 1]
<1>1. N \in Nat /\ i \in Nat /\ i >= 1 /\ i <= N
  OBVIOUS
<1>2. DOMAIN q = 1 .. N /\ \A a \in 1 .. N : q[a] \in T
  OBVIOUS
<1>3. r = left \o right
  BY DEF RemoveAt
<1>4. N = Len(q) /\ j = i + 1
  OBVIOUS
<1>5. left \in Seq(T) /\ Len(left) = i - 1 /\ \A a \in 1 .. (i - 1) : left[a] = q[a]
  <2>1. \A a \in 1 .. i - 1 : q[a] \in T
    BY <1>1, <1>2
  <2>2. QED
    BY <1>1, <2>1, SubSeqProperties
<1> HIDE DEF N, j, r
<1>6. right \in Seq(T) /\ Len(right) = N - i /\ \A a \in 1 .. (N - i) : right[a] = q[i + a]
  <2>1. j \in Int /\ N \in Int /\ \A a \in j .. N : q[a] \in T
    BY <1>1, <1>2, <1>4
  <2>2. /\ right \in Seq(T)
        /\ Len(right) = IF j <= N THEN N - j + 1 ELSE 0
        /\ \A a \in 1 .. N - j + 1 : right[a] = q[j + a - 1]
    BY <2>1, SubSeqProperties
  <2> HIDE DEF right
  <2>3. (\A a \in 1 .. (N - i) : a \in 1 .. N - j + 1 /\ j + a - 1 = i + a)
    BY <1>1, <1>4
  <2>4. (IF j <= N THEN N - j + 1 ELSE 0) = N - i
    BY <1>1, <1>4
  <2>5. QED
    BY <2>2, <2>3, <2>4
<1> HIDE DEF left, right
<1>7. r \in Seq(T) /\ Len(r) = N - 1 /\ DOMAIN r = 1 .. (N - 1)
  <2>1. r \in Seq(T) /\ Len(r) = Len(left) + Len(right)
    BY <1>3, <1>5, <1>6, ConcatProperties
  <2>2. (i - 1) + (N - i) = N - 1
    BY <1>1
  <2>3. QED
    BY <1>5, <1>6, <2>1, <2>2
<1>8. \A a \in 1 .. (N - 1) : r[a] = IF a < i THEN q[a] ELSE q[a + 1]
  <2>1. SUFFICES ASSUME NEW a \in 1 .. (N - 1) PROVE r[a] = IF a < i THEN q[a] ELSE q[a + 1]
    OBVIOUS
  <2>2. r[a] = IF a <= Len(left) THEN left[a] ELSE right[a - Len(left)]
    <3>1. a \in 1 .. Len(left) + Len(right)
      BY <1>1, <1>5, <1>6
    <3>2. QED
      BY <1>3, <1>5, <1>6, <3>1, ConcatProperties
  <2>3. CASE a < i
    <3>1. a <= i - 1 /\ a \in 1 .. (i - 1)
      BY <2>3, <1>1
    <3>2. QED
      BY <1>5, <2>2, <2>3, <3>1
  <2>4. CASE ~(a < i)
    <3>1. a - (i - 1) \in 1 .. (N - i) /\ i + (a - (i - 1)) = a + 1 /\ ~(a <= i - 1)
      BY <2>4, <1>1
    <3>2. r[a] = right[a - (i - 1)]
      BY <1>5, <2>2, <3>1
    <3>3. QED
      BY <1>6, <2>4, <3>1, <3>2
  <2>5. QED
    BY <2>3, <2>4
<1>9. Embeds(f, r, q) /\ \A a \in DOMAIN r : f[a] # i
  <2>1. \A a \in 1 .. (N - 1) : f[a] \in 1 .. N /\ f[a] # i
    BY <1>1
  <2>2. \A a \in 1 .. (N - 1) : r[a] = q[f[a]]
    BY <1>8
  <2>3. \A a, b \in 1 .. (N - 1) : f[a] = f[b] => a = b
    BY <1>1
  <2>4. f \in [1 .. (N - 1) -> 1 .. N]
    BY <2>1
  <2> HIDE DEF f
  <2>5. QED
    BY <1>2, <1>7, <2>1, <2>2, <2>3, <2>4 DEF Embeds
<1> HIDE DEF f
<1>10. Shrinks(r, q)
  BY <1>9 DEF Shrinks
<1>11. ASSUME i # N PROVE r # <<>> /\ r[Len(r)] = q[N]
  <2>1. N - 1 \in 1 .. (N - 1) /\ ~(N - 1 < i) /\ (N - 1) + 1 = N /\ N - 1 # 0
    BY <1>1, <1>11
  <2>2. r[N - 1] = q[N]
    BY <1>8, <2>1
  <2>3. QED
    BY <1>7, <2>1, <2>2
<1>12. ASSUME NEW S, i \in Places(q, S)
       PROVE  Cardinality(Places(r, S)) <= Cardinality(Places(q, S)) - 1
  <2> DEFINE g == [a \in Places(r, S) |-> f[a]]
  <2>1. g \in Injection(Places(r, S), Places(q, S) \ {i})
    BY <1>9 DEF Embeds, Places, Injection, IsInjective
  <2>2. IsFiniteSet(Places(q, S))
    BY PlacesFinite
  <2>3. IsFiniteSet(Places(q, S) \ {i}) /\ Cardinality(Places(q, S) \ {i}) = Cardinality(Places(q, S)) - 1
    BY <1>12, <2>2, FS_RemoveElement
  <2>4. Cardinality(Places(r, S)) <= Cardinality(Places(q, S) \ {i})
    BY <2>1, <2>3, FS_Injection
  <2>5. QED
    BY <2>3, <2>4
<1>13. QED
  BY <1>4, <1>7, <1>10, <1>11, <1>12 DEF r

\* A list with one more element.
LEMMA AppendPlaces ==
  ASSUME NEW T, NEW q \in Seq(T), NEW x \in T, NEW S
  PROVE  /\ x \notin S => Cardinality(Places(Append(q, x), S)) <= Cardinality(Places(q, S))
         /\ Cardinality(Places(Append(q, x), S)) <= Cardinality(Places(q, S)) + 1
<1> DEFINE r == Append(q, x)
<1>1. Len(r) = Len(q) + 1 /\ DOMAIN r = 1 .. Len(q) + 1 /\ DOMAIN q = 1 .. Len(q) /\ Len(q) \in Nat
  OBVIOUS
<1>2. (\A i \in DOMAIN q : r[i] = q[i]) /\ r[Len(q) + 1] = x
  OBVIOUS
<1> HIDE DEF r
<1>3. Places(r, S) \subseteq Places(q, S) \cup {Len(q) + 1}
  BY <1>1, <1>2 DEF Places
<1>4. x \notin S => Places(r, S) \subseteq Places(q, S)
  BY <1>1, <1>2, <1>3 DEF Places
<1>5. IsFiniteSet(Places(q, S)) /\ Cardinality(Places(q, S)) \in Nat
  BY PlacesFinite
<1>6. /\ IsFiniteSet(Places(q, S) \cup {Len(q) + 1})
      /\ Cardinality(Places(q, S) \cup {Len(q) + 1}) <= Cardinality(Places(q, S)) + 1
  <2> DEFINE P == Places(q, S)
             e == Len(q) + 1
  <2>1. IsFiniteSet(P) /\ Cardinality(P) \in Nat
    BY <1>5
  <2> HIDE DEF P, e
  <2>2. IsFiniteSet(P \cup {e}) /\ Cardinality(P \cup {e}) <= Cardinality(P) + 1
    <3>1. Cardinality(P \cup {e}) = IF e \in P THEN Cardinality(P) ELSE Cardinality(P) + 1
      BY <2>1, FS_AddElement
    <3>2. IsFiniteSet(P \cup {e})
      BY <2>1, FS_AddElement
    <3>3. QED
      BY <2>1, <3>1, <3>2
  <2>3. QED
    BY <2>2 DEF P, e
<1>7. Cardinality(Places(r, S)) <= Cardinality(Places(q, S)) + 1
  <2>1. /\ IsFiniteSet(Places(r, S))
        /\ Cardinality(Places(r, S)) <= Cardinality(Places(q, S) \cup {Len(q) + 1})
    BY <1>3, <1>6, FS_Subset
  <2>2. Cardinality(Places(r, S)) \in Nat /\ Cardinality(Places(q, S) \cup {Len(q) + 1}) \in Nat
    BY <1>6, <2>1, FS_CardinalityType
  <2>3. QED
    BY <1>5, <1>6, <2>1, <2>2
<1>8. x \notin S => Cardinality(Places(r, S)) <= Cardinality(Places(q, S))
  BY <1>4, <1>5, FS_Subset
<1>9. QED
  BY <1>7, <1>8 DEF r

\* One more element at the end of what is left.
LEMMA AppendShrinks ==
  ASSUME NEW T, NEW q \in Seq(T), NEW r \in Seq(T), NEW x \in T, Shrinks(r, q)
  PROVE  Shrinks(Append(r, x), Append(q, x))
<1> DEFINE R == Append(r, x)
           Q == Append(q, x)
<1>1. PICK f : Embeds(f, r, q)
  BY DEF Shrinks
<1>2. /\ DOMAIN R = 1 .. Len(r) + 1 /\ DOMAIN r = 1 .. Len(r) /\ Len(r) \in Nat
      /\ DOMAIN Q = 1 .. Len(q) + 1 /\ DOMAIN q = 1 .. Len(q) /\ Len(q) \in Nat
      /\ (\A a \in 1 .. Len(r) : R[a] = r[a]) /\ R[Len(r) + 1] = x
      /\ (\A a \in 1 .. Len(q) : Q[a] = q[a]) /\ Q[Len(q) + 1] = x
  OBVIOUS
<1> HIDE DEF R, Q
<1> DEFINE g == [a \in DOMAIN R |-> IF a = Len(r) + 1 THEN Len(q) + 1 ELSE f[a]]
<1>3. \A a \in 1 .. Len(r) : f[a] \in 1 .. Len(q) /\ r[a] = q[f[a]]
  BY <1>1, <1>2 DEF Embeds
<1>4. \A a \in DOMAIN R : a \in 1 .. Len(r) \/ a = Len(r) + 1
  BY <1>2
<1>5. \A a \in DOMAIN R : g[a] \in DOMAIN Q /\ R[a] = Q[g[a]]
  BY <1>2, <1>3, <1>4
<1>6. \A a, b \in DOMAIN R : g[a] = g[b] => a = b
  BY <1>1, <1>2, <1>3, <1>4 DEF Embeds
<1>7. g \in [DOMAIN R -> DOMAIN Q]
  BY <1>5
<1> HIDE DEF g
<1>8. Embeds(g, R, Q)
  BY <1>5, <1>6, <1>7 DEF Embeds
<1>9. QED
  BY <1>8 DEF Shrinks, R, Q

\* What is new can be put at the end once, and anything else keeps its places.
LEMMA AppendOnce ==
  ASSUME NEW T, NEW q \in Seq(T), NEW x \in T, NEW y, Once(q, y), y = x => x \notin ToSet(q)
  PROVE  Once(Append(q, x), y)
<1> DEFINE r == Append(q, x)
<1>1. DOMAIN r = 1 .. Len(q) + 1 /\ DOMAIN q = 1 .. Len(q) /\ Len(q) \in Nat
  OBVIOUS
<1>2. (\A i \in DOMAIN q : r[i] = q[i]) /\ r[Len(q) + 1] = x
  OBVIOUS
<1> HIDE DEF r
<1>3. Once(r, y)
  <2> SUFFICES ASSUME NEW i \in DOMAIN r, NEW j \in DOMAIN r, r[i] = y, r[j] = y PROVE i = j
    BY DEF Once
  <2>1. (i \in DOMAIN q \/ i = Len(q) + 1) /\ (j \in DOMAIN q \/ j = Len(q) + 1)
    BY <1>1
  <2>2. CASE y = x
    BY <2>1, <2>2, <1>2 DEF ToSet
  <2>3. CASE y # x
    BY <2>1, <2>3, <1>2 DEF Once
  <2>4. QED
    BY <2>2, <2>3
<1>4. QED
  BY <1>3 DEF r

\* Keep leaves elements out.
LEMMA KeepShrinks ==
  ASSUME NEW T, NEW s \in Seq(T), NEW S
  PROVE  Shrinks(Keep(s, S), s)
<1>1. PICK f : KeepFcn(s, S, Len(s), f) /\ Keep(s, S) = f[Len(s)]
  BY KeepUnfold
<1> DEFINE first(i) == SubSeq(s, 1, i)
           P(i) == f[i] \in Seq(T) /\ Shrinks(f[i], first(i))
           B == {i \in Nat : i <= Len(s) /\ ~P(i)}
<1>2. \A i \in 0 .. Len(s) : f[i] = KeepStep(s, S, f, i)
  BY <1>1 DEF KeepFcn
<1>3. \A i \in 0 .. Len(s) : first(i) \in Seq(T) /\ Len(first(i)) = i
  <2>1. ASSUME NEW i \in 0 .. Len(s) PROVE first(i) \in Seq(T) /\ Len(first(i)) = i
    <3>1. \A a \in 1 .. i : s[a] \in T
      OBVIOUS
    <3>2. QED
      BY <3>1, SubSeqProperties
  <2>2. QED
    BY <2>1
<1>4. ASSUME NEW i \in 1 .. Len(s) PROVE first(i) = Append(first(i - 1), s[i])
  <2> DEFINE a == first(i)
             b == Append(first(i - 1), s[i])
  <2>1. /\ a \in Seq(T) /\ Len(a) = i /\ \A m \in 1 .. i : a[m] = s[m]
    <3>1. \A m \in 1 .. i : s[m] \in T
      OBVIOUS
    <3>2. QED
      BY <3>1, SubSeqProperties
  <2>2. /\ first(i - 1) \in Seq(T) /\ Len(first(i - 1)) = i - 1
        /\ \A m \in 1 .. (i - 1) : first(i - 1)[m] = s[m]
    <3>1. \A m \in 1 .. (i - 1) : s[m] \in T
      OBVIOUS
    <3>2. QED
      BY <3>1, SubSeqProperties
  <2> DEFINE c == first(i - 1)
  <2> HIDE DEF first
  <2>3. b \in Seq(T) /\ Len(b) = (i - 1) + 1 /\ (\A m \in 1 .. (i - 1) : b[m] = c[m]) /\ b[(i - 1) + 1] = s[i]
    <3>1. c \in Seq(T) /\ Len(c) = i - 1 /\ s[i] \in T
      BY <2>2
    <3>2. QED
      BY <3>1, AppendProperties
  <2>4. Len(b) = i /\ b[i] = s[i]
    BY <2>3
  <2>5. \A m \in 1 .. i : m \in 1 .. (i - 1) \/ m = i
    OBVIOUS
  <2> HIDE DEF a, b, c
  <2>6. \A m \in 1 .. i : a[m] = b[m]
    BY <2>1, <2>2, <2>3, <2>4, <2>5 DEF c
  <2>7. a = b
    BY <2>1, <2>3, <2>4, <2>6, SeqEqual
  <2>8. QED
    BY <2>7 DEF a, b
<1> HIDE DEF first
<1>5. B = {}
  <2> SUFFICES ASSUME B # {} PROVE FALSE
    OBVIOUS
  <2>1. PICK i \in B : \A m \in B : i <= m
    <3> HIDE DEF P
    <3>1. B \subseteq Nat
      OBVIOUS
    <3>2. QED
      BY <3>1, LeastElement
  <2>2. CASE i = 0
    <3>1. f[0] = <<>>
      BY <1>2, <2>2 DEF KeepStep
    <3>2. first(0) = <<>>
      BY <1>3
    <3>3. P(0)
      BY <3>1, <3>2, ShrinksReflexive
    <3>4. QED
      BY <2>1, <2>2, <3>3
  <2>3. CASE i # 0
    <3>1. i \in 1 .. Len(s) /\ i - 1 \in 0 .. Len(s) /\ P(i - 1)
      <4> HIDE DEF P
      <4>1. QED
        BY <2>1, <2>3
    <3>2. f[i] = KeepStep(s, S, f, i)
      BY <1>2, <3>1
    <3>3. s[i] \in T /\ first(i - 1) \in Seq(T) /\ first(i) = Append(first(i - 1), s[i])
      <4>1. s[i] \in T
        BY <3>1
      <4>2. first(i - 1) \in Seq(T)
        BY <1>3, <3>1
      <4>3. first(i) = Append(first(i - 1), s[i])
        BY <1>4, <3>1
      <4>4. QED
        BY <4>1, <4>2, <4>3
    <3>4. CASE s[i] \in S
      <4>1. f[i] = Append(f[i - 1], s[i])
        BY <2>3, <3>2, <3>4 DEF KeepStep
      <4>2. P(i)
        BY <3>1, <3>3, <4>1, AppendShrinks
      <4>3. QED
        BY <2>1, <4>2
    <3>5. CASE s[i] \notin S
      <4>1. f[i] = f[i - 1]
        BY <2>3, <3>2, <3>5 DEF KeepStep
      <4>2. Shrinks(first(i - 1), first(i))
        <5> DEFINE a == first(i - 1)
                   b == first(i)
        <5>1. /\ DOMAIN a = 1 .. Len(a) /\ DOMAIN b = 1 .. Len(a) + 1
              /\ \A m \in 1 .. Len(a) : b[m] = a[m]
          BY <3>3
        <5> HIDE DEF a, b
        <5>2. Len(a) \in Nat
          BY <3>3 DEF a
        <5>3. Embeds([m \in DOMAIN a |-> m], a, b)
          BY <5>1, <5>2 DEF Embeds
        <5>4. QED
          BY <5>3 DEF Shrinks, a, b
      <4>3. P(i)
        BY <3>1, <4>1, <4>2, ShrinksTransitive
      <4>4. QED
        BY <2>1, <4>3
    <3>6. QED
      BY <3>4, <3>5
  <2>4. QED
    BY <2>2, <2>3
<1>6. P(Len(s))
  <2>1. Len(s) \in Nat
    OBVIOUS
  <2> HIDE DEF P
  <2>2. QED
    BY <1>5, <2>1
<1>7. first(Len(s)) = s
  <2>1. \A a \in 1 .. Len(s) : s[a] \in T
    OBVIOUS
  <2>2. /\ first(Len(s)) \in Seq(T) /\ Len(first(Len(s))) = Len(s)
        /\ \A a \in 1 .. Len(s) : first(Len(s))[a] = s[a]
    BY <2>1, SubSeqProperties DEF first
  <2>3. QED
    BY <2>2, SeqEqual
<1>8. QED
  BY <1>1, <1>6, <1>7
===============================================================================
