----------------------------- MODULE Induction -----------------------------
(***************************************************************************)
(* Induction without operator parameters: the smallest number and the      *)
(* largest set, the induction rule for a set of numbers, and with them     *)
(* what FlattenSeq returns, and that functions defined by tail recursion    *)
(* or along a sequence exist. Lemmas about sequences.                      *)
(***************************************************************************)
EXTENDS SequencesExt, Integers, FiniteSetTheorems, WellFoundedInduction, SequenceTheorems, TLAPS

\* A function on 1 .. k whose values are all in T is a sequence over T.
LEMMA SequenceOfItems ==
    ASSUME NEW T, NEW k \in Nat, NEW s,
           s = [i \in 1 .. k |-> s[i]], \A i \in 1 .. k : s[i] \in T
    PROVE  s \in Seq(T)
  <1>1. [i \in 1 .. k |-> s[i]] \in [1 .. k -> T]
    OBVIOUS
  <1> QED
    BY <1>1

\* Every set of natural numbers that is not empty has a smallest one: the strict subset order
\* is well founded on the intervals 1 .. x.
LEMMA LeastNat ==
    ASSUME NEW T \in SUBSET Nat, T # {}
    PROVE  \E x \in T : \A y \in T : x <= y
  <1> DEFINE U == {1 .. x : x \in T}
             R == StrictSubsetOrdering(Nat)
             F == FiniteSubsetsOf(Nat)
  <1>1. U \subseteq F /\ U # {}
    <2>1. \A x \in T : 1 .. x \in SUBSET Nat /\ IsFiniteSet(1 .. x)
      BY FS_Interval
    <2> QED
      BY <2>1 DEF FiniteSubsetsOf
  <1>2. IsWellFoundedOn(R, F)
    BY FS_StrictSubsetOrderingWellFounded
  <1> HIDE DEF R, F, U
  <1>3. PICK V \in U : \A W \in U : ~ (<< W, V >> \in R)
    BY <1>1, <1>2, WFMin, Zenon
  <1>4. PICK x \in T : V = 1 .. x
    BY <1>3 DEF U
  <1>5. ASSUME NEW y \in T, y < x PROVE FALSE
    <2>1. 1 .. y \in U /\ 1 .. y \in SUBSET Nat /\ V \in SUBSET Nat
      BY <1>4 DEF U
    <2>2. 1 .. y \subseteq V /\ 1 .. y # V
      BY <1>4, <1>5
    <2>3. << 1 .. y, V >> \in R
      BY <2>1, <2>2 DEF R, StrictSubsetOrdering
    <2> QED
      BY <1>3, <2>1, <2>3
  <1> QED
    BY <1>5

\* Induction: a set that has zero and with every number the next one has them all.
LEMMA NatSetInduction ==
    ASSUME NEW S, 0 \in S, \A n \in Nat : n \in S => n + 1 \in S
    PROVE  Nat \subseteq S
  <1> SUFFICES ASSUME Nat \ S # {} PROVE FALSE
    OBVIOUS
  <1>1. PICK x \in Nat \ S : \A y \in Nat \ S : x <= y
    BY LeastNat
  <1>2. x - 1 \in Nat /\ x - 1 \in S
    BY <1>1
  <1> QED
    BY <1>1, <1>2

\* Among subsets of a finite set one is largest.
LEMMA LargestSet ==
    ASSUME NEW S, IsFiniteSet(S), NEW G \in SUBSET (SUBSET S), G # {}
    PROVE  \E D \in G : \A E \in G : D \subseteq E => E = D
  <1> DEFINE T == {Cardinality(S \ D) : D \in G}
  <1>1. \A D \in G : IsFiniteSet(S \ D) /\ Cardinality(S \ D) \in Nat
    BY FS_Subset, FS_CardinalityType
  <1>2. T \in SUBSET Nat /\ T # {}
    BY <1>1
  <1>3. PICK x \in T : \A y \in T : x <= y
    <2> HIDE DEF T
    <2> QED BY <1>2, LeastNat
  <1>4. PICK D \in G : x = Cardinality(S \ D)
    BY <1>3
  <1>5. ASSUME NEW E \in G, D \subseteq E PROVE E = D
    <2>1. S \ E \subseteq S \ D /\ Cardinality(S \ D) <= Cardinality(S \ E)
      BY <1>3, <1>4, <1>5
    <2>2. S \ E = S \ D
      BY <1>1, <2>1, FS_Subset
    <2> QED
      BY <1>5, <2>2
  <1> QED
    BY <1>5

-----------------------------------------------------------------------------
\* The recursive function of FlattenSeq
IsFlat(ss, f) == f = [i \in 1 .. Len(ss) |-> IF i = 1 THEN ss[i] ELSE f[i-1] \o ss[i]]

\* The recursion of FlattenSeq is well defined: one step after the other.
LEMMA FlattenUnfolds ==
    ASSUME NEW S, NEW ss \in Seq(S), Len(ss) # 0
    PROVE  \E f : IsFlat(ss, f) /\ FlattenSeq(ss) = f[Len(ss)]
  <1> DEFINE T == {n \in Nat : \E f : f = [i \in 1 .. n |-> IF i = 1 THEN ss[i] ELSE f[i-1] \o ss[i]]}
  <1>1. 0 \in T
    <2>1. << >> = [i \in 1 .. 0 |-> IF i = 1 THEN ss[i] ELSE << >>[i-1] \o ss[i]]
      OBVIOUS
    <2> QED
      BY <2>1
  <1>2. ASSUME NEW n \in Nat, n \in T PROVE n + 1 \in T
    <2>1. PICK f : f = [i \in 1 .. n |-> IF i = 1 THEN ss[i] ELSE f[i-1] \o ss[i]]
      BY <1>2
    <2> DEFINE g == [i \in 1 .. n + 1 |-> IF i = 1 THEN ss[i] ELSE f[i-1] \o ss[i]]
    <2>2. ASSUME NEW i \in 1 .. n + 1
          PROVE  g[i] = IF i = 1 THEN ss[i] ELSE g[i-1] \o ss[i]
      <3>1. CASE i = 1
        BY <3>1
      <3>2. CASE i # 1
        <4>1. i - 1 \in 1 .. n
          BY <3>2
        <4>2. f[i-1] = (IF i - 1 = 1 THEN ss[i-1] ELSE f[i-1-1] \o ss[i-1])
          BY <2>1, <4>1
        <4>3. g[i-1] = (IF i - 1 = 1 THEN ss[i-1] ELSE f[i-1-1] \o ss[i-1])
          BY <4>1
        <4>4. g[i] = f[i-1] \o ss[i]
          BY <3>2
        <4> HIDE DEF g
        <4> QED
          BY <3>2, <4>2, <4>3, <4>4
      <3> QED
        BY <3>1, <3>2
    <2>3. g = [i \in 1 .. n + 1 |-> IF i = 1 THEN ss[i] ELSE g[i-1] \o ss[i]]
      BY <2>2
    <2>4. n + 1 \in Nat
      OBVIOUS
    <2> HIDE DEF g
    <2> QED
      BY <2>3, <2>4, Zenon
  <1>3. Len(ss) \in T
    <2> HIDE DEF T
    <2> QED BY <1>1, <1>2, NatSetInduction
  <1>4. \E f : IsFlat(ss, f)
    BY <1>3 DEF IsFlat
  <1> QED
    BY <1>4 DEF IsFlat, FlattenSeq

\* The x-th element of F is the j-th of the k-th sequence, before it are those of the k-th up
\* to it, and before these are only elements of sequences before the k-th.
IsBlock(ss, F, x, k, j) ==
    /\ j <= x
    /\ \A m \in 1 .. j : F[x - j + m] = ss[k][m]
    /\ \A w \in 1 .. x - j : \E l \in 1 .. k - 1 : \E m \in 1 .. Len(ss[l]) : F[w] = ss[l][m]

HasBlock(ss, F, x, n) == \E k \in 1 .. n : \E j \in 1 .. Len(ss[k]) : IsBlock(ss, F, x, k, j)

\* A sequence that is put behind others leaves their blocks and adds one.
LEMMA BlocksGrow ==
    ASSUME NEW S, NEW ss \in Seq(Seq(S)), NEW n \in 1 .. Len(ss) - 1, NEW P \in Seq(S),
           \A x \in 1 .. Len(P) : HasBlock(ss, P, x, n)
    PROVE  \A x \in 1 .. Len(P \o ss[n + 1]) : HasBlock(ss, P \o ss[n + 1], x, n + 1)
  <1> DEFINE s == ss[n + 1]
             F == P \o s
  <1>0. n + 1 \in 1 .. Len(ss) /\ s \in Seq(S) /\ Len(P) \in Nat /\ Len(s) \in Nat
    OBVIOUS
  <1>1. /\ Len(F) = Len(P) + Len(s)
        /\ \A w \in 1 .. Len(P) : F[w] = P[w]
        /\ \A w \in 1 .. Len(s) : F[Len(P) + w] = s[w]
    <2> HIDE DEF s
    <2> QED
      BY <1>0
  <1> HIDE DEF s, F
  <1>2. ASSUME NEW x \in 1 .. Len(P) PROVE HasBlock(ss, F, x, n + 1)
    <2>1. PICK k \in 1 .. n : \E j \in 1 .. Len(ss[k]) : IsBlock(ss, P, x, k, j)
      BY DEF HasBlock
    <2>2. k \in 1 .. Len(ss) /\ k \in 1 .. n + 1 /\ Len(ss[k]) \in Nat
      OBVIOUS
    <2>3. PICK j \in 1 .. Len(ss[k]) : IsBlock(ss, P, x, k, j)
      BY <2>1
    <2>4. j <= x /\ j \in Nat /\ x \in Nat
      BY <2>2, <2>3 DEF IsBlock
    <2>5. \A m \in 1 .. j : F[x - j + m] = ss[k][m]
      <3> SUFFICES ASSUME NEW m \in 1 .. j PROVE F[x - j + m] = ss[k][m]
        OBVIOUS
      <3>1. x - j + m \in 1 .. Len(P)
        BY <1>0, <2>4
      <3> QED
        BY <1>1, <2>3, <3>1 DEF IsBlock
    <2>6. ASSUME NEW w \in 1 .. x - j
          PROVE  \E l \in 1 .. k - 1 : \E m \in 1 .. Len(ss[l]) : F[w] = ss[l][m]
      <3>1. w \in 1 .. Len(P)
        BY <1>0, <2>4
      <3>2. \E l \in 1 .. k - 1 : \E m \in 1 .. Len(ss[l]) : P[w] = ss[l][m]
        BY <2>3 DEF IsBlock
      <3>3. F[w] = P[w]
        BY <1>1, <3>1
      <3> QED
        BY <3>2, <3>3
    <2> QED
      BY <2>2, <2>4, <2>5, <2>6 DEF HasBlock, IsBlock
  <1>3. ASSUME NEW i \in 1 .. Len(s) PROVE HasBlock(ss, F, Len(P) + i, n + 1)
    <2>1. i <= Len(P) + i /\ Len(P) + i - i = Len(P)
      BY <1>0
    <2>2. \A m \in 1 .. i : F[Len(P) + m] = s[m]
      BY <1>0, <1>1
    <2>3. ASSUME NEW w \in 1 .. Len(P)
          PROVE  \E l \in 1 .. n : \E m \in 1 .. Len(ss[l]) : F[w] = ss[l][m]
      <3>1. PICK l \in 1 .. n : \E m \in 1 .. Len(ss[l]) : IsBlock(ss, P, w, l, m)
        BY DEF HasBlock
      <3>2. PICK m \in 1 .. Len(ss[l]) : IsBlock(ss, P, w, l, m)
        BY <3>1
      <3>3. l \in 1 .. Len(ss) /\ m \in 1 .. m /\ w - m + m = w
        OBVIOUS
      <3>4. P[w] = ss[l][m]
        BY <3>2, <3>3 DEF IsBlock
      <3> QED
        BY <1>1, <3>4
    <2>4. IsBlock(ss, F, Len(P) + i, n + 1, i)
      BY <2>1, <2>2, <2>3 DEF IsBlock, s
    <2>5. n + 1 \in 1 .. n + 1 /\ i \in 1 .. Len(ss[n + 1])
      BY DEF s
    <2> QED
      BY <2>4, <2>5 DEF HasBlock
  <1>4. ASSUME NEW x \in 1 .. Len(F), x \notin 1 .. Len(P) PROVE HasBlock(ss, F, x, n + 1)
    <2>1. x - Len(P) \in 1 .. Len(s) /\ Len(P) + (x - Len(P)) = x
      BY <1>0, <1>1, <1>4
    <2> QED
      BY <1>3, <2>1
  <1>5. \A x \in 1 .. Len(F) : HasBlock(ss, F, x, n + 1)
    BY <1>2, <1>4
  <1> QED
    BY <1>5 DEF F, s

\* FlattenSeq puts the sequences one behind the other.
LEMMA FlattenBlocks ==
    ASSUME NEW S, NEW ss \in Seq(Seq(S))
    PROVE  /\ FlattenSeq(ss) \in Seq(S)
           /\ \A x \in 1 .. Len(FlattenSeq(ss)) : HasBlock(ss, FlattenSeq(ss), x, Len(ss))
  <1> DEFINE Blocks(n, F) == F \in Seq(S) /\ \A x \in 1 .. Len(F) : HasBlock(ss, F, x, n)
  <1>1. CASE Len(ss) = 0
    <2>1. FlattenSeq(ss) = ss /\ ss = << >>
      BY <1>1 DEF FlattenSeq
    <2> QED
      BY <2>1
  <1>2. CASE Len(ss) # 0
    <2>1. PICK f : IsFlat(ss, f) /\ FlattenSeq(ss) = f[Len(ss)]
      BY <1>2, FlattenUnfolds
    <2> DEFINE T == {n \in Nat : n \in 1 .. Len(ss) => Blocks(n, f[n])}
    <2>2. 0 \in T
      OBVIOUS
    <2>3. ASSUME NEW n \in Nat, n \in T, n + 1 \in 1 .. Len(ss) PROVE Blocks(n + 1, f[n + 1])
      <3>1. CASE n = 0
        <4>1. f[1] = ss[1] /\ ss[1] \in Seq(S) /\ Len(ss[1]) \in Nat
          BY <2>1, <2>3, <3>1 DEF IsFlat
        <4>2. ASSUME NEW x \in 1 .. Len(ss[1]) PROVE IsBlock(ss, ss[1], x, 1, x)
          <5>1. x - x = 0 /\ \A m \in 1 .. x : 0 + m = m
            BY <4>1
          <5> QED
            BY <4>1, <5>1 DEF IsBlock
        <4>3. \A x \in 1 .. Len(ss[1]) : HasBlock(ss, ss[1], x, 1)
          BY <4>2 DEF HasBlock
        <4> QED
          BY <3>1, <4>1, <4>3
      <3>2. CASE n # 0
        <4>1. n \in 1 .. Len(ss) - 1 /\ n \in 1 .. Len(ss)
          BY <2>3, <3>2
        <4>2. f[n + 1] = f[n] \o ss[n + 1]
          <5>1. f[n + 1] = (IF n + 1 = 1 THEN ss[n + 1] ELSE f[n + 1 - 1] \o ss[n + 1])
            <6>1. \A i \in 1 .. Len(ss) : f[i] = (IF i = 1 THEN ss[i] ELSE f[i-1] \o ss[i])
              BY <2>1, Zenon DEF IsFlat
            <6> QED
              BY <2>3, <6>1
          <5>2. n + 1 # 1 /\ n + 1 - 1 = n
            BY <3>2
          <5> QED
            BY <5>1, <5>2
        <4>3. Blocks(n, f[n])
          BY <2>3, <4>1
        <4>4. f[n + 1] \in Seq(S)
          BY <2>3, <4>2, <4>3
        <4> QED
          BY <4>1, <4>2, <4>3, <4>4, BlocksGrow
      <3> QED
        BY <3>1, <3>2
    <2>4. Len(ss) \in T
      <3> HIDE DEF Blocks
      <3>1. \A n \in Nat : n \in T => n + 1 \in T
        BY <2>3
      <3> HIDE DEF T
      <3> QED
        BY <2>2, <3>1, NatSetInduction
    <2> HIDE DEF Blocks
    <2>5. Blocks(Len(ss), f[Len(ss)])
      BY <1>2, <2>4
    <2> QED
      BY <2>1, <2>5 DEF Blocks
  <1> QED
    BY <1>1, <1>2

-----------------------------------------------------------------------------
(* Recursive functions that are well defined *)

IsRun(V, v0, step, g, n) ==
    /\ g \in [0 .. n -> V] /\ g[0] = v0
    /\ \A k \in Nat : k < n => g[k + 1] = step[g[k]]

\* r is where the steps lead that begin with x.
IsOrbit(V, x, step, r) ==
    /\ r \in [Nat -> V] /\ r[0] = x
    /\ \A n \in Nat : r[n + 1] = step[r[n]]

\* A step can be repeated as often as one likes.
LEMMA Iteration ==
    ASSUME NEW V, NEW v0 \in V, NEW step \in [V -> V]
    PROVE  \E r : IsOrbit(V, v0, step, r)
  <1> DEFINE Run(g, n) == IsRun(V, v0, step, g, n)
             T == {n \in Nat : \E g : Run(g, n)}
  <1>1. 0 \in T
    <2>1. Run([k \in 0 .. 0 |-> v0], 0)
      BY DEF IsRun
    <2> QED
      BY <2>1
  <1>2. ASSUME NEW n \in Nat, n \in T PROVE n + 1 \in T
    <2>1. PICK g : Run(g, n)
      BY <1>2
    <2> DEFINE h == [k \in 0 .. n + 1 |-> IF k = n + 1 THEN step[g[n]] ELSE g[k]]
    <2>2. g \in [0 .. n -> V] /\ g[0] = v0 /\ \A k \in Nat : k < n => g[k + 1] = step[g[k]]
      BY <2>1 DEF IsRun
    <2>3. h \in [0 .. n + 1 -> V] /\ h[0] = v0
      BY <2>2
    <2>4. ASSUME NEW k \in Nat, k < n + 1 PROVE h[k + 1] = step[h[k]]
      <3>1. CASE k = n
        BY <2>2, <3>1
      <3>2. CASE k < n
        <4>1. k + 1 \in 0 .. n + 1 /\ k + 1 # n + 1 /\ k \in 0 .. n + 1 /\ k # n + 1
          BY <3>2
        <4>2. h[k + 1] = g[k + 1] /\ h[k] = g[k]
          BY <4>1
        <4> HIDE DEF h
        <4> QED
          BY <2>2, <3>2, <4>2
      <3> QED
        BY <2>4, <3>1, <3>2
    <2> HIDE DEF h
    <2>5. Run(h, n + 1)
      BY <2>3, <2>4 DEF IsRun
    <2> QED
      BY <2>5
  <1>3. \A n \in Nat : \E g : Run(g, n)
    <2> HIDE DEF Run
    <2>1. Nat \subseteq T
      <3> HIDE DEF T
      <3> QED
        BY <1>1, <1>2, NatSetInduction
    <2> QED
      BY <2>1
  <1>4. ASSUME NEW n \in Nat, NEW m \in Nat, NEW g, NEW h, Run(g, n), Run(h, m), n <= m
        PROVE  g[n] = h[n]
    <2> DEFINE U == {k \in Nat : k <= n => g[k] = h[k]}
    <2>1. 0 \in U
      BY <1>4 DEF IsRun
    <2>2. ASSUME NEW k \in Nat, k \in U PROVE k + 1 \in U
      <3>1. CASE k + 1 <= n
        <4>1. k < n /\ k < m /\ g[k] = h[k]
          BY <1>4, <2>2, <3>1
        <4> QED
          BY <1>4, <4>1 DEF IsRun
      <3> QED
        BY <3>1
    <2>3. Nat \subseteq U
      <3> HIDE DEF U
      <3> QED
        BY <2>1, <2>2, NatSetInduction
    <2> QED
      BY <2>3
  <1> DEFINE G == [n \in Nat |-> CHOOSE g : Run(g, n)]
             f == [n \in Nat |-> G[n][n]]
  <1>5. \A n \in Nat : Run(G[n], n)
    <2> HIDE DEF Run
    <2> QED
      BY <1>3
  <1>6. f \in [Nat -> V] /\ f[0] = v0
    <2>1. \A n \in Nat : G[n] \in [0 .. n -> V] /\ G[n][0] = v0 /\ n \in 0 .. n
      <3> HIDE DEF G
      <3> QED
        BY <1>5 DEF IsRun
    <2> HIDE DEF G
    <2> QED
      BY <2>1
  <1>7. ASSUME NEW n \in Nat PROVE f[n + 1] = step[f[n]]
    <2>1. n + 1 \in Nat /\ n <= n + 1 /\ n < n + 1
      OBVIOUS
    <2>2. G[n + 1][n + 1] = step[G[n + 1][n]]
      <3> HIDE DEF G
      <3> QED
        BY <1>5, <2>1 DEF IsRun
    <2>3. G[n][n] = G[n + 1][n]
      <3> HIDE DEF G, Run
      <3> QED
        BY <1>4, <1>5, <2>1
    <2> HIDE DEF G
    <2> QED
      BY <2>1, <2>2, <2>3
  <1> HIDE DEF f
  <1> QED
    BY <1>6, <1>7 DEF IsOrbit

\* f is the value of where the steps end.
IsLoop(V, ended, value, step, f) ==
    f = [x \in V |-> IF x \in ended THEN value[x] ELSE f[step[x]]]

\* A loop: a state either has a value, or the value of the state after one more step.
LEMMA Loop ==
    ASSUME NEW V, NEW ended, NEW value, NEW step \in [V -> V]
    PROVE  \E f : IsLoop(V, ended, value, step, f)
  <1> DEFINE Orbit(x, r) == IsOrbit(V, x, step, r)
             Ends(x, v) == \E r \in [Nat -> V] : \E n \in Nat :
                               /\ Orbit(x, r) /\ r[n] \in ended /\ v = value[r[n]]
                               /\ \A k \in Nat : k < n => r[k] \notin ended
             f == [x \in V |-> CHOOSE v : Ends(x, v)]
  <1>1. ASSUME NEW x \in V PROVE \E r \in [Nat -> V] : Orbit(x, r)
    BY Iteration DEF IsOrbit
  <1>2. ASSUME NEW x \in V, x \in ended, NEW v PROVE Ends(x, v) <=> v = value[x]
    <2>1. ASSUME Ends(x, v) PROVE v = value[x]
      <3>1. PICK r \in [Nat -> V], n \in Nat :
                /\ Orbit(x, r) /\ r[n] \in ended /\ v = value[r[n]]
                /\ \A k \in Nat : k < n => r[k] \notin ended
        BY <2>1
      <3>2. n = 0
        BY <1>2, <3>1 DEF IsOrbit
      <3> QED
        BY <1>2, <3>1, <3>2 DEF IsOrbit
    <2>2. ASSUME v = value[x] PROVE Ends(x, v)
      <3>1. PICK r \in [Nat -> V] : Orbit(x, r)
        BY <1>1
      <3>2. r[0] \in ended /\ v = value[r[0]] /\ \A k \in Nat : k < 0 => r[k] \notin ended
        BY <1>2, <2>2, <3>1 DEF IsOrbit
      <3> QED
        BY <3>1, <3>2
    <2> QED
      BY <2>1, <2>2
  <1>3. ASSUME NEW x \in V, x \notin ended, NEW v PROVE Ends(x, v) <=> Ends(step[x], v)
    <2>1. ASSUME Ends(x, v) PROVE Ends(step[x], v)
      <3>1. PICK r \in [Nat -> V], n \in Nat :
                /\ Orbit(x, r) /\ r[n] \in ended /\ v = value[r[n]]
                /\ \A k \in Nat : k < n => r[k] \notin ended
        BY <2>1
      <3>2. n # 0 /\ n - 1 \in Nat
        BY <1>3, <3>1 DEF IsOrbit
      <3> DEFINE s == [k \in Nat |-> r[k + 1]]
      <3>3. s \in [Nat -> V] /\ Orbit(step[x], s)
        BY <3>1 DEF IsOrbit
      <3>4. s[n - 1] = r[n] /\ \A k \in Nat : k < n - 1 => s[k] \notin ended
        BY <3>1, <3>2
      <3> HIDE DEF s, Orbit
      <3> QED
        BY <3>1, <3>2, <3>3, <3>4
    <2>2. ASSUME Ends(step[x], v) PROVE Ends(x, v)
      <3>1. PICK r \in [Nat -> V], n \in Nat :
                /\ Orbit(step[x], r) /\ r[n] \in ended /\ v = value[r[n]]
                /\ \A k \in Nat : k < n => r[k] \notin ended
        BY <2>2
      <3> DEFINE s == [k \in Nat |-> IF k = 0 THEN x ELSE r[k - 1]]
      <3>2. s \in [Nat -> V]
        BY <3>1
      <3>3. ASSUME NEW k \in Nat PROVE s[k + 1] = step[s[k]]
        <4>1. CASE k = 0
          BY <3>1, <4>1 DEF IsOrbit
        <4>2. CASE k # 0
          <5>1. k - 1 \in Nat /\ s[k + 1] = r[k] /\ s[k] = r[k - 1]
            BY <4>2
          <5> HIDE DEF s
          <5>2. r[k - 1 + 1] = step[r[k - 1]] /\ k - 1 + 1 = k
            BY <3>1, <5>1 DEF IsOrbit
          <5> QED
            BY <5>1, <5>2
        <4> QED
          BY <4>1, <4>2
      <3>4. s[0] = x /\ s[n + 1] = r[n] /\ \A k \in Nat : k < n + 1 => s[k] \notin ended
        BY <1>3, <3>1
      <3>5. Orbit(x, s)
        <4> HIDE DEF s
        <4> QED
          BY <3>2, <3>3, <3>4 DEF IsOrbit
      <3> HIDE DEF s, Orbit
      <3> QED
        BY <3>1, <3>2, <3>4, <3>5
    <2> QED
      BY <2>1, <2>2
  <1> HIDE DEF Ends
  <1>4. ASSUME NEW x \in V
        PROVE  f[x] = IF x \in ended THEN value[x] ELSE f[step[x]]
    <2>1. CASE x \in ended
      <3>1. (CHOOSE v : Ends(x, v)) = value[x]
        BY <1>2, <2>1
      <3> QED
        BY <2>1, <3>1
    <2>2. CASE x \notin ended
      <3>1. (CHOOSE v : Ends(x, v)) = (CHOOSE v : Ends(step[x], v))
        BY <1>3, <2>2
      <3>2. step[x] \in V
        OBVIOUS
      <3>3. f[x] = (CHOOSE v : Ends(x, v)) /\ f[step[x]] = (CHOOSE v : Ends(step[x], v))
        BY <3>2
      <3> HIDE DEF f
      <3> QED
        BY <2>2, <3>1, <3>3
    <2> QED
      BY <2>1, <2>2
  <1> QED
    <2>1. f = [x \in V |-> IF x \in ended THEN value[x] ELSE f[step[x]]]
      <3>1. f = [x \in V |-> f[x]]
        OBVIOUS
      <3> HIDE DEF f
      <3> QED
        BY <1>4, <3>1
    <2> QED
      BY <2>1 DEF IsLoop

\* f is the function on sequences that is v0 for the empty one and step of its value for the
\* front and of the last item for any other.
IsFold(T, V, v0, step, f) ==
    f \in [Seq(T) -> V] /\
    f = [s \in Seq(T) |-> IF s = << >> THEN v0 ELSE step[<< f[Front(s)], Last(s) >>]]

\* A function on sequences is given by its value for the empty one and by what one item more
\* makes of its value.
LEMMA FrontRecursion ==
    ASSUME NEW T, NEW V, NEW v0 \in V, NEW step \in [V \X T -> V]
    PROVE  \E f : IsFold(T, V, v0, step, f)
  <1> DEFINE W == [Seq(T) -> V]
             w0 == [s \in Seq(T) |-> v0]
             Better(g) == [s \in Seq(T) |-> IF s = << >> THEN v0 ELSE step[<< g[Front(s)], Last(s) >>]]
             better == [g \in W |-> Better(g)]
  <1>1. ASSUME NEW s \in Seq(T), s # << >>
        PROVE  Front(s) \in Seq(T) /\ Last(s) \in T /\ Len(s) \in Nat /\ Len(Front(s)) + 1 = Len(s)
    <2>1. Len(s) \in Nat /\ Len(s) # 0 /\ Len(s) - 1 \in Nat
      BY <1>1
    <2>2. Front(s) = [i \in 1 .. Len(s) - 1 |-> s[i]] /\ \A i \in 1 .. Len(s) - 1 : s[i] \in T
      BY <2>1 DEF Front
    <2>3. Front(s) \in Seq(T) /\ Len(Front(s)) = Len(s) - 1
      BY <2>1, <2>2
    <2> QED
      BY <2>1, <2>3 DEF Last
  <1>2. w0 \in W /\ better \in [W -> W]
    <2>1. ASSUME NEW g \in W PROVE Better(g) \in W
      BY <1>1
    <2> HIDE DEF W, Better
    <2> QED
      BY <2>1 DEF W
  <1>3. PICK F : F \in [Nat -> W] /\ F[0] = w0 /\ \A n \in Nat : F[n + 1] = better[F[n]]
    <2> HIDE DEF W, w0, better, Better
    <2>1. \E F : IsOrbit(W, w0, better, F)
      BY <1>2, Iteration
    <2> QED
      BY <2>1 DEF IsOrbit
  <1> DEFINE f == [s \in Seq(T) |-> F[Len(s)][s]]
  <1>4. f \in [Seq(T) -> V]
    BY <1>3
  <1>5. ASSUME NEW s \in Seq(T) PROVE f[s] = IF s = << >> THEN v0 ELSE step[<< f[Front(s)], Last(s) >>]
    <2>1. CASE s = << >>
      BY <1>3, <2>1
    <2>2. CASE s # << >>
      <3> DEFINE n == Len(Front(s))
      <3>1. Front(s) \in Seq(T) /\ n \in Nat /\ n + 1 = Len(s)
        BY <1>1, <2>2
      <3>2. F[n] \in W /\ F[n + 1] = Better(F[n])
        BY <1>3, <3>1
      <3>3. f[Front(s)] = F[n][Front(s)] /\ f[s] = F[n + 1][s]
        BY <3>1
      <3> HIDE DEF f, n
      <3> QED
        BY <2>2, <3>2, <3>3
    <2> QED
      BY <2>1, <2>2
  <1>6. f = [s \in Seq(T) |-> IF s = << >> THEN v0 ELSE step[<< f[Front(s)], Last(s) >>]]
    <2>1. f = [s \in Seq(T) |-> f[s]]
      OBVIOUS
    <2> HIDE DEF f
    <2> QED
      BY <1>5, <2>1
  <1> HIDE DEF f
  <1> QED
    BY <1>4, <1>6 DEF IsFold

-----------------------------------------------------------------------------
(* Sequences *)

\* A sequence that is not empty has a front and a last item.
LEMMA FrontLast ==
    ASSUME NEW T, NEW s \in Seq(T), s # << >>
    PROVE  /\ Front(s) \in Seq(T) /\ Last(s) \in T /\ s = Append(Front(s), Last(s))
           /\ Len(s) \in Nat \ {0} /\ Len(Front(s)) = Len(s) - 1 /\ Last(s) = s[Len(s)]
  <1>1. Len(s) \in Nat /\ Len(s) # 0 /\ Len(s) - 1 \in Nat
    OBVIOUS
  <1>2. Front(s) = [i \in 1 .. Len(s) - 1 |-> s[i]] /\ \A i \in 1 .. Len(s) - 1 : s[i] \in T
    BY <1>1 DEF Front
  <1>3. Front(s) \in Seq(T) /\ Len(Front(s)) = Len(s) - 1
    BY <1>1, <1>2
  <1>4. Last(s) \in T /\ Last(s) = s[Len(s)]
    BY <1>1 DEF Last
  <1>5. s = Append(Front(s), Last(s))
    BY <1>1, <1>2, <1>3, <1>4
  <1> QED
    BY <1>1, <1>3, <1>4, <1>5

\* The front and the last item of a sequence with one more
LEMMA AppendFront ==
    ASSUME NEW T, NEW s \in Seq(T), NEW x \in T
    PROVE  Append(s, x) \in Seq(T) /\ Append(s, x) # << >> /\ Front(Append(s, x)) = s /\ Last(Append(s, x)) = x
  <1>1. Append(s, x) \in Seq(T) /\ Len(Append(s, x)) = Len(s) + 1 /\ Len(s) \in Nat
    OBVIOUS
  <1>2. Front(Append(s, x)) = s
    BY <1>1 DEF Front
  <1>3. Last(Append(s, x)) = x
    BY <1>1 DEF Last
  <1> QED
    BY <1>1, <1>2, <1>3

\* One item more behind two sequences
LEMMA ConcatAppend ==
    ASSUME NEW T, NEW a \in Seq(T), NEW s \in Seq(T), NEW x \in T
    PROVE  a \o Append(s, x) = Append(a \o s, x)
  <1>1. Append(s, x) = s \o << x >> /\ << x >> \in Seq(T)
    BY AppendIsConcat
  <1>2. a \o s \in Seq(T)
    OBVIOUS
  <1>3. Append(a \o s, x) = (a \o s) \o << x >>
    BY <1>2, AppendIsConcat
  <1> QED
    BY <1>1, <1>3, ConcatAssociative

\* The last item of two sequences is that of the second.
LEMMA LastOfConcat ==
    ASSUME NEW T, NEW a \in Seq(T), NEW b \in Seq(T), b # << >>
    PROVE  a \o b # << >> /\ Last(a \o b) = Last(b)
  <1>1. /\ Len(a) \in Nat /\ Len(b) \in Nat /\ Len(b) \in 1 .. Len(b)
        /\ Len(a \o b) = Len(a) + Len(b) /\ a \o b \in Seq(T)
        /\ \A i \in 1 .. Len(a) + Len(b) : (a \o b)[i] = IF i <= Len(a) THEN a[i] ELSE b[i - Len(a)]
    BY ConcatProperties, EmptySeq
  <1>2. Len(a) + Len(b) \in 1 .. Len(a) + Len(b) /\ ~(Len(a) + Len(b) <= Len(a))
        /\ (Len(a) + Len(b)) - Len(a) = Len(b)
    BY <1>1
  <1> QED
    BY <1>1, <1>2 DEF Last
=============================================================================
