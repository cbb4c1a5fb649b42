--------------------------- MODULE InstallProofs ---------------------------
(***************************************************************************)
(* Proofs about Paths.tla and Install.tla: what normalizePath makes of a   *)
(* path, that an uninstall takes away what the install before it has put,  *)
(* that an install that succeeds has installed everything, and that the    *)
(* runs leave all other files alone.                                       *)
(***************************************************************************)
EXTENDS Install, Induction

-----------------------------------------------------------------------------
(* The place a path names *)

\* A place is a path.
LEMMA EnterType ==
    ASSUME NEW place \in Seq(Part), NEW part \in Part
    PROVE  Enter(place, part) \in Seq(Part)
  <1>1. place # << >> => Front(place) \in Seq(Part)
    BY FrontLast
  <1>2. Append(place, part) \in Seq(Part)
    BY AppendProperties
  <1>3. CASE part = "."
    BY <1>3 DEF Enter
  <1>4. CASE part = ".."
    BY <1>1, <1>4 DEF Enter
  <1>5. CASE part # "." /\ part # ".."
    BY <1>2, <1>5 DEF Enter
  <1> QED
    BY <1>3, <1>4, <1>5

\* Resolve goes along its path.
LEMMA ResolveUnfolds ==
    /\ Resolve \in [Seq(Part) -> Seq(Part)] /\ Resolve[<< >>] = << >>
    /\ \A s \in Seq(Part), x \in Part : Resolve[Append(s, x)] = Enter(Resolve[s], x)
  <1> DEFINE P == Seq(Part)
             enter == [at \in P \X Part |-> Enter(at[1], at[2])]
             IsResolve(f) == f = [s \in P |-> IF s = << >> THEN << >> ELSE Enter(f[Front(s)], Last(s))]
  <1>1. << >> \in P /\ enter \in [P \X Part -> P]
    <2>1. \A at \in P \X Part : Enter(at[1], at[2]) \in P
      BY EnterType
    <2> QED
      BY <2>1
  <1>2. ASSUME NEW s \in P, s # << >>
        PROVE  Front(s) \in P /\ Last(s) \in Part
    BY <1>2, FrontLast
  <1>3. \E f : f \in [P -> P] /\ IsResolve(f)
    <2>1. PICK f \in [P -> P] : f = [s \in P |-> IF s = << >> THEN << >>
                                                 ELSE enter[<< f[Front(s)], Last(s) >>]]
      <3> HIDE DEF enter
      <3>1. \E f : IsFold(Part, P, << >>, enter, f)
        BY <1>1, FrontRecursion
      <3> QED
        BY <3>1 DEF IsFold
    <2>2. \A s \in P : s # << >> => enter[<< f[Front(s)], Last(s) >>] = Enter(f[Front(s)], Last(s))
      BY <1>2
    <2> HIDE DEF enter, P
    <2>3. IsResolve(f)
      BY <2>1, <2>2
    <2> QED
      BY <2>1, <2>3
  <1>4. IsResolve(Resolve)
    <2> HIDE DEF P
    <2>1. Resolve = CHOOSE f : IsResolve(f)
      BY DEF Resolve, P
    <2> HIDE DEF IsResolve
    <2> QED
      BY <1>3, <2>1
  <1>5. ASSUME NEW f, IsResolve(f), NEW g, g \in [P -> P], IsResolve(g), NEW n \in Nat,
               \A s \in P : Len(s) <= n => f[s] = g[s]
        PROVE  \A s \in P : Len(s) <= n + 1 => f[s] = g[s]
    <2> SUFFICES ASSUME NEW s \in P, Len(s) <= n + 1, s # << >> PROVE f[s] = g[s]
      BY <1>5
    <2>1. Len(Front(s)) <= n /\ Front(s) \in P
      BY FrontLast
    <2>2. f[Front(s)] = g[Front(s)]
      BY <1>5, <2>1
    <2>3. f[s] = Enter(f[Front(s)], Last(s)) /\ g[s] = Enter(g[Front(s)], Last(s))
      BY <1>5
    <2> QED
      BY <2>2, <2>3
  <1>6. Resolve \in [P -> P]
    <2>1. PICK g : g \in [P -> P] /\ IsResolve(g)
      BY <1>3
    <2> DEFINE U == {n \in Nat : \A s \in P : Len(s) <= n => Resolve[s] = g[s]}
    <2>2. 0 \in U
      <3>1. \A s \in P : Len(s) <= 0 => s = << >>
        OBVIOUS
      <3>2. Resolve[<< >>] = << >> /\ g[<< >>] = << >>
        BY <1>1, <1>4, <2>1
      <3> QED
        BY <3>1, <3>2
    <2>3. ASSUME NEW n \in Nat, n \in U PROVE n + 1 \in U
      <3> HIDE DEF IsResolve, P
      <3> QED
        BY <1>4, <1>5, <2>1, <2>3
    <2>4. Nat \subseteq U
      <3> HIDE DEF U
      <3> QED
        BY <2>2, <2>3, NatSetInduction
    <2>5. \A s \in P : Resolve[s] = g[s]
      BY <2>4
    <2>6. Resolve = [s \in P |-> Resolve[s]]
      BY <1>4
    <2> HIDE DEF P
    <2> QED
      BY <2>1, <2>5, <2>6
  <1>7. ASSUME NEW s \in P, NEW x \in Part PROVE Resolve[Append(s, x)] = Enter(Resolve[s], x)
    <2>1. Append(s, x) \in P /\ Append(s, x) # << >> /\ Front(Append(s, x)) = s /\ Last(Append(s, x)) = x
      BY AppendFront
    <2> HIDE DEF P
    <2> QED
      BY <1>4, <2>1
  <1> QED
    BY <1>1, <1>4, <1>6, <1>7

\* Paths that name the same place do so with the same parts behind them.
LEMMA ResolveConcat ==
    ASSUME NEW a \in Seq(Part), NEW b \in Seq(Part), Resolve[a] = Resolve[b],
           NEW s \in Seq(Part)
    PROVE  Resolve[a \o s] = Resolve[b \o s]
  <1> DEFINE U == {n \in Nat : \A t \in Seq(Part) : Len(t) = n => Resolve[a \o t] = Resolve[b \o t]}
  <1>1. 0 \in U
    <2>1. \A t \in Seq(Part) : Len(t) = 0 => a \o t = a /\ b \o t = b
      OBVIOUS
    <2> QED
      BY <2>1
  <1>2. ASSUME NEW n \in Nat, n \in U PROVE n + 1 \in U
    <2> SUFFICES ASSUME NEW t \in Seq(Part), Len(t) = n + 1 PROVE Resolve[a \o t] = Resolve[b \o t]
      OBVIOUS
    <2>1. /\ Front(t) \in Seq(Part) /\ Last(t) \in Part /\ t = Append(Front(t), Last(t))
          /\ Len(Front(t)) = n
      <3>1. t # << >>
        OBVIOUS
      <3>2. Len(Front(t)) = Len(t) - 1
        BY <3>1, FrontLast
      <3> QED
        BY <3>1, <3>2, FrontLast
    <2> DEFINE u == Front(t)
               x == Last(t)
    <2> HIDE DEF u, x
    <2>2. u \in Seq(Part) /\ x \in Part /\ t = Append(u, x) /\ Len(u) = n
      BY <2>1 DEF u, x
    <2>3. a \o t = Append(a \o u, x) /\ b \o t = Append(b \o u, x)
      <3>1. a \o Append(u, x) = Append(a \o u, x)
        BY <2>2, ConcatAppend
      <3>2. b \o Append(u, x) = Append(b \o u, x)
        BY <2>2, ConcatAppend
      <3> QED
        BY <2>2, <3>1, <3>2
    <2>4. a \o u \in Seq(Part) /\ b \o u \in Seq(Part)
      BY <2>2
    <2>5. Resolve[a \o u] = Resolve[b \o u]
      BY <1>2, <2>2
    <2>6. Resolve[Append(a \o u, x)] = Enter(Resolve[a \o u], x)
          /\ Resolve[Append(b \o u, x)] = Enter(Resolve[b \o u], x)
      BY <2>2, <2>4, ResolveUnfolds
    <2> QED
      BY <2>3, <2>5, <2>6
  <1>3. Nat \subseteq U
    <2> HIDE DEF U
    <2> QED
      BY <1>1, <1>2, NatSetInduction
  <1> QED
    BY <1>3
-----------------------------------------------------------------------------
(* The loop of normalizePath *)

\* What is left without the part at i
LEMMA RemoveAtSplit ==
    ASSUME NEW d \in Seq(Part), NEW x \in Part, NEW e \in Seq(Part)
    PROVE  RemoveAt(d \o << x >> \o e, Len(d) + 1) = d \o e
  <1> DEFINE s == d \o << x >> \o e
             n == Len(d)
  <1>1. << x >> \in Seq(Part) /\ Len(<< x >>) = 1 /\ n \in Nat /\ Len(e) \in Nat
    OBVIOUS
  <1>2. d \o << x >> \in Seq(Part) /\ Len(d \o << x >>) = n + 1
    BY <1>1, ConcatProperties
  <1>3. s \in Seq(Part) /\ Len(s) = n + 1 + Len(e)
    BY <1>1, <1>2, ConcatProperties
  <1>4. \A i \in 1 .. n : s[i] = d[i]
    BY <1>1, <1>2, ConcatProperties
  <1>5. \A i \in 1 .. Len(e) : s[n + 1 + i] = e[i]
    BY <1>1, <1>2, ConcatProperties
  <1> HIDE DEF s, n
  <1>6. SubSeq(s, 1, (n + 1) - 1) = d
    <2>1. /\ SubSeq(s, 1, n) \in Seq(Part) /\ Len(SubSeq(s, 1, n)) = n
          /\ \A i \in 1 .. n : SubSeq(s, 1, n)[i] = s[i]
      BY <1>1, <1>3, SubSeqProperties
    <2>2. SubSeq(s, 1, n) = d
      BY <1>1, <1>4, <2>1, SeqEqual DEF n
    <2> QED
      BY <1>1, <2>2
  <1>7. SubSeq(s, (n + 1) + 1, Len(s)) = e
    <2> DEFINE r == SubSeq(s, n + 2, Len(s))
    <2>1. r \in Seq(Part) /\ Len(r) = Len(e) /\ \A i \in 1 .. Len(e) : r[i] = s[n + 1 + i]
      BY <1>1, <1>3, SubSeqProperties
    <2> HIDE DEF r
    <2>2. r = e
      BY <1>1, <1>5, <2>1, SeqEqual
    <2> QED
      BY <1>1, <2>2 DEF r
  <1>8. RemoveAt(s, n + 1) = SubSeq(s, 1, (n + 1) - 1) \o SubSeq(s, (n + 1) + 1, Len(s))
    BY Zenon DEF RemoveAt
  <1> QED
    BY <1>6, <1>7, <1>8 DEF s, n

\* A sequence is what is before an item, the item and what is behind it.
LEMMA SplitAt ==
    ASSUME NEW p \in Seq(Part), NEW i \in 1 .. Len(p)
    PROVE  \E d, e \in Seq(Part) : Len(d) = i - 1 /\ p = d \o << p[i] >> \o e
  <1> DEFINE n == Len(p)
             d == SubSeq(p, 1, i - 1)
             e == SubSeq(p, i + 1, n)
  <1>1. n \in Nat /\ i \in Nat /\ 1 <= i /\ i <= n /\ p[i] \in Part
    OBVIOUS
  <1>2. d \in Seq(Part) /\ e \in Seq(Part) /\ Len(d) = i - 1
    BY <1>1, SubSeqProperties
  <1>3. SubSeq(p, 1, i) = d \o << p[i] >>
    <2>1. i \in 1 .. Len(p) /\ 1 \in 1 .. Len(p) /\ i \in 1 .. Len(p)
      BY <1>1
    <2> HIDE DEF d
    <2> QED
      BY <2>1, SubSeqRecursiveSecond DEF d
  <1>4. SubSeq(p, 1, n) = SubSeq(p, 1, i) \o e
    <2>1. 1 \in 1 .. Len(p) + 1 /\ i \in 1 - 1 .. Len(p) /\ n \in i .. Len(p)
      BY <1>1
    <2>2. SubSeq(p, 1, i) \o SubSeq(p, i + 1, n) = SubSeq(p, 1, n)
      <3> HIDE DEF n
      <3> QED
        BY <2>1, ConcatAdjacentSubSeq
    <2> QED
      BY <2>2
  <1>5. SubSeq(p, 1, n) = p
    BY SubSeqFull
  <1> HIDE DEF d, e, n
  <1> QED
    BY <1>2, <1>3, <1>4, <1>5

\* What is at a place between two sequences
LEMMA ItemOfSplit ==
    ASSUME NEW d \in Seq(Part), NEW x \in Part, NEW e \in Seq(Part)
    PROVE  /\ d \o << x >> \o e \in Seq(Part) /\ (d \o << x >> \o e)[Len(d) + 1] = x
           /\ Len(d) \in Nat /\ Len(e) \in Nat /\ Len(d \o << x >> \o e) = Len(d) + 1 + Len(e)
           /\ d \o e \in Seq(Part) /\ Len(d \o e) = Len(d) + Len(e)
  <1>1. << x >> \in Seq(Part) /\ Len(<< x >>) = 1 /\ Len(d) \in Nat /\ Len(e) \in Nat
    OBVIOUS
  <1>2. /\ d \o << x >> \in Seq(Part) /\ Len(d \o << x >>) = Len(d) + 1
        /\ (d \o << x >>)[Len(d) + 1] = x
    BY <1>1, ConcatProperties
  <1>3. /\ d \o << x >> \o e \in Seq(Part) /\ Len(d \o << x >> \o e) = Len(d) + 1 + Len(e)
        /\ (d \o << x >> \o e)[Len(d) + 1] = x
    BY <1>1, <1>2, ConcatProperties
  <1> QED
    BY <1>1, <1>3, ConcatProperties

\* ".": it goes, and the next part is passed over.
LEMMA StepAtDot ==
    ASSUME NEW d \in Seq(Part), NEW x \in Part, x = ".", NEW e \in Seq(Part)
    PROVE  NormalizeStep(d \o << x >> \o e, Len(d) + 1)
               = << d \o e, IF e = << >> THEN 1 ELSE Len(d) + 2 >>
  <1> DEFINE p == d \o << x >> \o e
             i == Len(d) + 1
  <1>1. p[i] = "." /\ RemoveAt(p, i) = d \o e /\ Len(d) \in Nat /\ Len(e) \in Nat
    BY ItemOfSplit, RemoveAtSplit
  <1>2. AfterErase(d \o e, i) = IF e = << >> THEN 1 ELSE Len(d) + 2
    <2>1. Len(d \o e) = Len(d) + Len(e) /\ (e = << >> <=> Len(e) = 0)
      BY ItemOfSplit
    <2> QED
      BY <1>1, <2>1 DEF AfterErase
  <1> HIDE DEF p, i
  <1>3. NormalizeStep(p, i) = << RemoveAt(p, i), AfterErase(RemoveAt(p, i), i) >>
    BY <1>1 DEF NormalizeStep
  <1> QED
    BY <1>1, <1>2, <1>3 DEF p, i

\* "..": it goes with the part before it, and the next part is passed over.
LEMMA StepAtDots ==
    ASSUME NEW d \in Seq(Part), NEW z \in Part, NEW x \in Part, x = "..", NEW e \in Seq(Part)
    PROVE  NormalizeStep(Append(d, z) \o << x >> \o e, Len(Append(d, z)) + 1)
               = << d \o e, IF e = << >> THEN 1 ELSE Len(d) + 2 >>
  <1> DEFINE a == Append(d, z)
             p == a \o << x >> \o e
             i == Len(a) + 1
  <1>1. a \in Seq(Part) /\ Len(a) = Len(d) + 1 /\ Len(d) \in Nat /\ Len(e) \in Nat /\ a = d \o << z >>
    BY AppendProperties, AppendIsConcat
  <1>2. p[i] = ".." /\ RemoveAt(p, i) = a \o e
    <2> HIDE DEF a
    <2> QED
      BY <1>1, ItemOfSplit, RemoveAtSplit
  <1>3. RemoveAt(a \o e, i - 1) = d \o e
    <2>1. RemoveAt(d \o << z >> \o e, Len(d) + 1) = d \o e
      BY RemoveAtSplit
    <2>2. i - 1 = Len(d) + 1
      BY <1>1
    <2> HIDE DEF a, i
    <2> QED
      BY <1>1, <2>1, <2>2
  <1>4. AfterErase(d \o e, i - 1) = IF e = << >> THEN 1 ELSE Len(d) + 2
    <2>1. Len(d \o e) = Len(d) + Len(e) /\ (e = << >> <=> Len(e) = 0)
      BY ItemOfSplit
    <2> HIDE DEF a
    <2> QED
      BY <1>1, <2>1 DEF AfterErase
  <1> HIDE DEF p, i, a
  <1>5. NormalizeStep(p, i) = << EraseParent(p, i), AfterErase(EraseParent(p, i), i - 1) >>
    BY <1>2 DEF NormalizeStep
  <1>6. EraseParent(p, i) = d \o e
    BY <1>2, <1>3 DEF EraseParent
  <1> QED
    BY <1>4, <1>5, <1>6 DEF p, i, a

\* Any other part is passed.
LEMMA StepAtName ==
    ASSUME NEW d \in Seq(Part), NEW x \in Part, ~Special(x), NEW e \in Seq(Part)
    PROVE  NormalizeStep(d \o << x >> \o e, Len(d) + 1) = << Append(d, x) \o e, Len(Append(d, x)) + 1 >>
  <1> DEFINE p == d \o << x >> \o e
             i == Len(d) + 1
  <1>1. p[i] = x /\ Len(d) \in Nat
    BY ItemOfSplit
  <1>2. Append(d, x) = d \o << x >> /\ Len(Append(d, x)) = Len(d) + 1
    BY AppendProperties, AppendIsConcat
  <1> HIDE DEF p, i
  <1>3. NormalizeStep(p, i) = << p, i + 1 >>
    BY <1>1 DEF NormalizeStep, Special
  <1> QED
    BY <1>1, <1>2, <1>3 DEF p, i

\* A path and the part of it the loop is at
NormalizeStates == Seq(Part) \X (Nat \ {0})

\* The loop stays among its states.
LEMMA NormalizeStepType ==
    ASSUME NEW p \in Seq(Part), NEW i \in 1 .. Len(p), ~(i = 1 /\ p[1] = "..")
    PROVE  NormalizeStep(p, i) \in NormalizeStates
  <1>1. PICK d \in Seq(Part), e \in Seq(Part) : Len(d) = i - 1 /\ p = d \o << p[i] >> \o e
    BY SplitAt
  <1>2. p[i] \in Part /\ Len(d) + 1 = i /\ Len(d) \in Nat
    BY <1>1
  <1> DEFINE x == p[i]
  <1> HIDE DEF x
  <1>3. x \in Part /\ p = d \o << x >> \o e
    BY <1>1, <1>2 DEF x
  <1>4. CASE x = "."
    <2>1. NormalizeStep(p, i) = << d \o e, IF e = << >> THEN 1 ELSE Len(d) + 2 >>
      BY <1>2, <1>3, <1>4, StepAtDot
    <2>2. d \o e \in Seq(Part)
      BY <1>3, ItemOfSplit
    <2>3. (IF e = << >> THEN 1 ELSE Len(d) + 2) \in Nat \ {0}
      BY <1>2
    <2>4. << d \o e, IF e = << >> THEN 1 ELSE Len(d) + 2 >> \in NormalizeStates
      BY <2>2, <2>3 DEF NormalizeStates
    <2> QED
      BY <2>1, <2>4
  <1>5. CASE x = ".."
    <2>1. d # << >>
      BY <1>1, <1>2, <1>5 DEF x
    <2>2. PICK c \in Seq(Part), z \in Part : d = Append(c, z)
      BY <2>1, SequenceEmptyOrAppend
    <2>3. NormalizeStep(p, i) = << c \o e, IF e = << >> THEN 1 ELSE Len(c) + 2 >>
      <3>1. NormalizeStep(Append(c, z) \o << x >> \o e, Len(Append(c, z)) + 1)
                = << c \o e, IF e = << >> THEN 1 ELSE Len(c) + 2 >>
        BY <1>3, <1>5, StepAtDots
      <3> QED
        BY <1>2, <1>3, <2>2, <3>1
    <2>4. c \o e \in Seq(Part) /\ Len(c) \in Nat
      BY <1>3, ItemOfSplit
    <2>5. (IF e = << >> THEN 1 ELSE Len(c) + 2) \in Nat \ {0}
      BY <2>4
    <2>6. << c \o e, IF e = << >> THEN 1 ELSE Len(c) + 2 >> \in NormalizeStates
      BY <2>4, <2>5 DEF NormalizeStates
    <2> QED
      BY <2>3, <2>6
  <1>6. CASE ~Special(x)
    <2>1. NormalizeStep(p, i) = << Append(d, x) \o e, Len(Append(d, x)) + 1 >>
      BY <1>2, <1>3, <1>6, StepAtName
    <2>2. Append(d, x) \in Seq(Part) /\ Len(Append(d, x)) = Len(d) + 1
      BY <1>3, AppendProperties
    <2>3. Append(d, x) \o e \in Seq(Part)
      BY <2>2, ConcatProperties
    <2>4. Len(Append(d, x)) + 1 \in Nat \ {0}
      BY <1>2, <2>2
    <2>5. << Append(d, x) \o e, Len(Append(d, x)) + 1 >> \in NormalizeStates
      BY <2>3, <2>4 DEF NormalizeStates
    <2> QED
      BY <2>1, <2>5
  <1> QED
    BY <1>4, <1>5, <1>6 DEF Special

\* The loop of normalizePath, unfolded once. It is defined for any path: where it would never
\* end the function may have any value.
LEMMA NormalizeUnfolds ==
    ASSUME NEW p \in Seq(Part), NEW i \in Nat \ {0}
    PROVE  NormalizeFrom[<< p, i >>] =
               IF i > Len(p) THEN Valid(p)
               ELSE IF i = 1 /\ p[1] = ".." THEN Invalid ELSE NormalizeFrom[NormalizeStep(p, i)]
  <1> DEFINE V == NormalizeStates
             ended == {at \in V : at[2] > Len(at[1]) \/ (at[2] = 1 /\ at[1][1] = "..")}
             value == [at \in V |-> IF at[2] > Len(at[1]) THEN Valid(at[1]) ELSE Invalid]
             step == [at \in V |-> IF at \in ended THEN at ELSE NormalizeStep(at[1], at[2])]
             Unfolds(f) == f = [at \in V |-> IF at[2] > Len(at[1]) THEN Valid(at[1])
                                              ELSE IF at[2] = 1 /\ at[1][1] = ".." THEN Invalid
                                              ELSE f[NormalizeStep(at[1], at[2])]]
  <1>1. step \in [V -> V]
    <2>1. ASSUME NEW at \in V, at \notin ended PROVE NormalizeStep(at[1], at[2]) \in V
      <3>1. at[1] \in Seq(Part) /\ at[2] \in 1 .. Len(at[1])
        BY <2>1 DEF NormalizeStates
      <3> QED
        BY <2>1, <3>1, NormalizeStepType
    <2> HIDE DEF V, ended
    <2> QED
      BY <2>1
  <1>2. \E f : Unfolds(f)
    <2>1. PICK f : IsLoop(V, ended, value, step, f)
      <3> HIDE DEF V, ended, value, step
      <3> QED
        BY <1>1, Loop
    <2>2. f = [at \in V |-> IF at \in ended THEN value[at] ELSE f[step[at]]]
      BY <2>1 DEF IsLoop
    <2>3. ASSUME NEW at \in V
          PROVE  (IF at \in ended THEN value[at] ELSE f[step[at]])
                  = (IF at[2] > Len(at[1]) THEN Valid(at[1])
                     ELSE IF at[2] = 1 /\ at[1][1] = ".." THEN Invalid
                     ELSE f[NormalizeStep(at[1], at[2])])
      <3> HIDE DEF V
      <3> QED
        OBVIOUS
    <2>4. Unfolds(f)
      <3> HIDE DEF V, ended, value, step
      <3> QED
        BY <2>2, <2>3
    <2> QED
      BY <2>4
  <1>3. Unfolds(NormalizeFrom)
    <2>1. NormalizeFrom = CHOOSE f : Unfolds(f)
      BY DEF NormalizeFrom, NormalizeStates
    <2> HIDE DEF Unfolds
    <2> QED
      BY <1>2, <2>1
  <1>4. << p, i >> \in V
    BY DEF NormalizeStates
  <1> HIDE DEF V
  <1> QED
    BY <1>3, <1>4

-----------------------------------------------------------------------------
(* Plain paths *)

\* The loop has passed d and e is before it: does it stay below the root?
Below(d, e) ==
    \A k \in 1 .. Len(e) : e[k] = ".." => Resolve[d \o SubSeq(e, 1, k - 1)] # << >>

\* A path without special parts
Ordinary(p) == \A k \in 1 .. Len(p) : ~Special(p[k])

\* What was passed is ordinary, and what comes has no two special parts in a row.
Clean(d, e) == Ordinary(d) /\ NoRowOf(2, e)

\* What holds at the begin of each round: no special part is just behind another one that
\* was passed over, and the last part is not special unless all that was passed is ordinary.
Good(d, e) ==
    /\ Below(d, e) /\ NoRowOf(3, e)
    /\ d # << >> /\ e # << >> /\ Special(Last(d)) => ~Special(e[1])
    /\ e # << >> /\ Special(Last(e)) => Clean(d, e)

\* The loop ends in a path that names the same place.
InPlace(d, e) ==
    \E q \in Seq(Part) :
        /\ NormalizeFrom[<< d \o e, Len(d) + 1 >>] = Valid(q) /\ Resolve[q] = Resolve[d \o e]
        /\ Clean(d, e) => Ordinary(q)

\* A sequence that is not empty is its first item and what is behind it.
LEMMA FirstRest ==
    ASSUME NEW e \in Seq(Part), e # << >>
    PROVE  \E x \in Part, r \in Seq(Part) : e = << x >> \o r
  <1>1. Len(e) \in Nat /\ 1 \in 1 .. Len(e)
    BY EmptySeq
  <1>2. PICK d \in Seq(Part), r \in Seq(Part) : Len(d) = 1 - 1 /\ e = d \o << e[1] >> \o r
    BY <1>1, SplitAt
  <1>3. e[1] \in Part
    BY <1>1
  <1>4. d = << >>
    BY <1>2
  <1>5. d \o << e[1] >> = << e[1] >>
    BY <1>3, <1>4
  <1> QED
    BY <1>2, <1>3, <1>5

\* The items of a sequence with one more in front
LEMMA ItemsOfRest ==
    ASSUME NEW x \in Part, NEW r \in Seq(Part)
    PROVE  /\ << x >> \o r \in Seq(Part) /\ Len(<< x >> \o r) = Len(r) + 1 /\ Len(r) \in Nat
           /\ (<< x >> \o r)[1] = x /\ << x >> \o r # << >>
           /\ \A k \in 1 .. Len(r) : (<< x >> \o r)[k + 1] = r[k]
           /\ r # << >> => Last(<< x >> \o r) = Last(r)
           /\ r = << >> => Last(<< x >> \o r) = x
           /\ \A k \in 1 .. Len(r) : SubSeq(<< x >> \o r, 1, k) = << x >> \o SubSeq(r, 1, k - 1)
  <1> DEFINE e == << x >> \o r
  <1>1. << x >> \in Seq(Part) /\ Len(<< x >>) = 1 /\ << x >>[1] = x /\ Len(r) \in Nat
    OBVIOUS
  <1>2. /\ e \in Seq(Part) /\ Len(e) = Len(r) + 1 /\ e[1] = x
        /\ \A k \in 1 .. Len(r) : e[k + 1] = r[k]
    BY <1>1, ConcatProperties
  <1> HIDE DEF e
  <1>3. e # << >>
    BY <1>1, <1>2
  <1>4. (r # << >> => Last(e) = Last(r)) /\ (r = << >> => Last(e) = x)
    <2>1. r # << >> => Len(r) \in 1 .. Len(r)
      BY <1>1
    <2> QED
      BY <1>1, <1>2, <2>1 DEF Last
  <1>5. ASSUME NEW k \in 1 .. Len(r) PROVE SubSeq(e, 1, k) = << x >> \o SubSeq(r, 1, k - 1)
    <2>1. SubSeq(e, 1, k) = << e[1] >> \o SubSeq(e, 1 + 1, k)
      BY <1>1, <1>2, SubSeqRecursiveFirst
    <2> DEFINE s == SubSeq(e, 2, k)
               u == SubSeq(r, 1, k - 1)
    <2>2. k \in Nat /\ 1 <= k /\ k <= Len(r) /\ 2 \in Int /\ k \in Int /\ k - 1 \in Int
      BY <1>1
    <2>3. s \in Seq(Part) /\ Len(s) = k - 1 /\ \A i \in 1 .. k - 1 : s[i] = e[i + 1]
      <3>1. \A i \in 2 .. k : e[i] \in Part
        BY <1>1, <1>2, <2>2
      <3>2. /\ s \in Seq(Part) /\ Len(s) = (IF 2 <= k THEN k - 2 + 1 ELSE 0)
            /\ \A i \in 1 .. k - 2 + 1 : s[i] = e[2 + i - 1]
        BY <2>2, <3>1, SubSeqProperties
      <3> HIDE DEF s
      <3> QED
        BY <2>2, <3>2
    <2>4. u \in Seq(Part) /\ Len(u) = k - 1 /\ \A i \in 1 .. k - 1 : u[i] = r[i]
      <3>1. \A i \in 1 .. k - 1 : r[i] \in Part
        BY <1>1, <2>2
      <3>2. /\ u \in Seq(Part) /\ Len(u) = (IF 1 <= k - 1 THEN k - 1 - 1 + 1 ELSE 0)
            /\ \A i \in 1 .. k - 1 - 1 + 1 : u[i] = r[1 + i - 1]
        BY <2>2, <3>1, SubSeqProperties
      <3> HIDE DEF u
      <3> QED
        BY <2>2, <3>2
    <2> HIDE DEF s, u
    <2>5. \A i \in 1 .. Len(s) : s[i] = u[i]
      <3> SUFFICES ASSUME NEW i \in 1 .. k - 1 PROVE s[i] = u[i]
        BY <2>3
      <3>1. i \in 1 .. Len(r)
        BY <2>2
      <3> QED
        BY <1>2, <2>3, <2>4, <3>1
    <2>6. s = u
      BY <2>3, <2>4, <2>5, SeqEqual
    <2> QED
      BY <1>2, <2>1, <2>6 DEF s, u
  <1> QED
    BY <1>1, <1>2, <1>3, <1>4, <1>5 DEF e

\* A part between two paths belongs to the first one or to the second one.
LEMMA AppendThen ==
    ASSUME NEW d \in Seq(Part), NEW x \in Part, NEW r \in Seq(Part)
    PROVE  d \o (<< x >> \o r) = Append(d, x) \o r /\ d \o << x >> \o r = Append(d, x) \o r
  <1>1. << x >> \in Seq(Part) /\ Append(d, x) = d \o << x >>
    BY AppendIsConcat
  <1>2. (d \o << x >>) \o r = d \o (<< x >> \o r)
    BY <1>1, ConcatAssociative
  <1> QED
    BY <1>1, <1>2

\* One part more is passed.
LEMMA BelowRest ==
    ASSUME NEW d \in Seq(Part), NEW x \in Part, NEW r \in Seq(Part), Below(d, << x >> \o r)
    PROVE  (x = ".." => Resolve[d] # << >>) /\ Below(Append(d, x), r)
  <1> DEFINE e == << x >> \o r
  <1>1. x = ".." => Resolve[d] # << >>
    <2>1. 1 \in 1 .. Len(e) /\ e[1] = x
      BY ItemsOfRest
    <2>2. SubSeq(e, 1, 1 - 1) = << >> /\ d \o << >> = d
      BY SubSeqEmpty, ConcatEmptySeq
    <2> HIDE DEF e
    <2>3. Below(d, e)
      BY DEF e
    <2> QED
      BY <2>1, <2>2, <2>3 DEF Below
  <1>2. ASSUME NEW k \in 1 .. Len(r), r[k] = ".." PROVE Resolve[Append(d, x) \o SubSeq(r, 1, k - 1)] # << >>
    <2>1. /\ k + 1 \in 1 .. Len(e) /\ e[k + 1] = ".." /\ k \in Nat /\ (k + 1) - 1 = k
          /\ SubSeq(e, 1, k) = << x >> \o SubSeq(r, 1, k - 1)
      BY <1>2, ItemsOfRest
    <2>2. SubSeq(r, 1, k - 1) \in Seq(Part)
      <3>1. \A i \in 1 .. k - 1 : r[i] \in Part
        BY <2>1
      <3> QED
        BY <2>1, <3>1, SubSeqProperties
    <2>3. d \o (<< x >> \o SubSeq(r, 1, k - 1)) = Append(d, x) \o SubSeq(r, 1, k - 1)
      BY <2>2, AppendThen
    <2> HIDE DEF e
    <2>4. Below(d, e)
      BY DEF e
    <2> QED
      BY <2>1, <2>3, <2>4 DEF Below
  <1> QED
    BY <1>1, <1>2 DEF Below

\* Whether a path stays below the root depends on the place it begins at.
LEMMA BelowSame ==
    ASSUME NEW a \in Seq(Part), NEW b \in Seq(Part), Resolve[a] = Resolve[b],
           NEW e \in Seq(Part), Below(a, e)
    PROVE  Below(b, e)
  <1> SUFFICES ASSUME NEW k \in 1 .. Len(e), e[k] = ".." PROVE Resolve[b \o SubSeq(e, 1, k - 1)] # << >>
    BY DEF Below
  <1>1. SubSeq(e, 1, k - 1) \in Seq(Part)
    <2>1. k - 1 \in Int /\ \A i \in 1 .. k - 1 : e[i] \in Part
      OBVIOUS
    <2> QED
      BY <2>1, SubSeqProperties
  <1>2. Resolve[a \o SubSeq(e, 1, k - 1)] = Resolve[b \o SubSeq(e, 1, k - 1)]
    BY <1>1, ResolveConcat
  <1> QED
    BY <1>2 DEF Below

\* A path without its first part has no more special parts in a row than it.
LEMMA NoRowRest ==
    ASSUME NEW x \in Part, NEW r \in Seq(Part), NEW n \in Nat, NoRowOf(n, << x >> \o r)
    PROVE  NoRowOf(n, r)
  <1> DEFINE e == << x >> \o r
  <1> SUFFICES ASSUME NEW k \in 1 .. Len(r), \A j \in k .. k + n - 1 : j <= Len(r) /\ Special(r[j])
               PROVE  FALSE
    BY DEF NoRowOf
  <1>1. Len(e) = Len(r) + 1 /\ Len(r) \in Nat /\ \A j \in 1 .. Len(r) : e[j + 1] = r[j]
    BY ItemsOfRest
  <1>2. NoRowOf(n, e)
    OBVIOUS
  <1> HIDE DEF e
  <1>3. \A j \in k + 1 .. k + 1 + n - 1 : j <= Len(e) /\ Special(e[j])
    <2> SUFFICES ASSUME NEW j \in k + 1 .. k + 1 + n - 1 PROVE j <= Len(e) /\ Special(e[j])
      OBVIOUS
    <2>1. j - 1 \in k .. k + n - 1 /\ j - 1 + 1 = j
      BY <1>1
    <2>2. j - 1 <= Len(r) /\ Special(r[j - 1]) /\ j - 1 \in 1 .. Len(r)
      BY <1>1, <2>1
    <2>3. e[j - 1 + 1] = r[j - 1]
      BY <1>1, <2>2
    <2> QED
      BY <1>1, <2>1, <2>2, <2>3
  <1>4. k + 1 \in 1 .. Len(e)
    BY <1>1
  <1> QED
    BY <1>2, <1>3, <1>4 DEF NoRowOf

\* Two and three special parts in a row
LEMMA NoRowFirst ==
    ASSUME NEW x \in Part, NEW y \in Part, NEW r \in Seq(Part), Special(x), Special(y)
    PROVE  /\ ~NoRowOf(2, << x >> \o (<< y >> \o r))
           /\ NoRowOf(3, << x >> \o (<< y >> \o r)) /\ r # << >> => ~Special(r[1])
  <1> DEFINE f == << y >> \o r
             e == << x >> \o f
  <1>1. /\ f \in Seq(Part) /\ Len(f) = Len(r) + 1 /\ Len(r) \in Nat /\ f[1] = y
        /\ \A k \in 1 .. Len(r) : f[k + 1] = r[k]
    BY ItemsOfRest
  <1> HIDE DEF f
  <1>2. /\ Len(e) = Len(f) + 1 /\ e[1] = x /\ \A k \in 1 .. Len(f) : e[k + 1] = f[k]
    BY <1>1, ItemsOfRest
  <1> HIDE DEF e
  <1>3. 1 \in 1 .. Len(e) /\ e[2] = y /\ 2 <= Len(e)
    BY <1>1, <1>2
  <1>4. ~NoRowOf(2, e)
    <2>1. \A j \in 1 .. 1 + 2 - 1 : j = 1 \/ j = 2
      OBVIOUS
    <2>2. \A j \in 1 .. 1 + 2 - 1 : j <= Len(e) /\ Special(e[j])
      BY <1>2, <1>3, <2>1
    <2> QED
      BY <1>3, <2>2 DEF NoRowOf
  <1>5. ASSUME NoRowOf(3, e), r # << >>, Special(r[1]) PROVE FALSE
    <2>1. 1 \in 1 .. Len(r) /\ 2 \in 1 .. Len(f)
      BY <1>1, <1>5
    <2>2. f[2] = r[1] /\ e[3] = f[2] /\ 3 <= Len(e)
      BY <1>1, <1>2, <2>1
    <2>3. \A j \in 1 .. 1 + 3 - 1 : j = 1 \/ j = 2 \/ j = 3
      OBVIOUS
    <2>4. \A j \in 1 .. 1 + 3 - 1 : j <= Len(e) /\ Special(e[j])
      BY <1>2, <1>3, <1>5, <2>2, <2>3
    <2> QED
      BY <1>3, <1>5, <2>4 DEF NoRowOf
  <1> QED
    BY <1>4, <1>5 DEF e, f

\* A path of ordinary parts stays as it is, and is the place it names.
LEMMA OrdinaryStays ==
    ASSUME NEW p \in Seq(Part), Ordinary(p)
    PROVE  NormalizeFrom[<< p, 1 >>] = Valid(p) /\ Resolve[p] = p
  <1> DEFINE U == {n \in Nat : \A i \in Nat \ {0} :
                                  i + n = Len(p) + 1 => NormalizeFrom[<< p, i >>] = Valid(p)}
  <1>1. 0 \in U
    <2> SUFFICES ASSUME NEW i \in Nat \ {0}, i + 0 = Len(p) + 1 PROVE NormalizeFrom[<< p, i >>] = Valid(p)
      OBVIOUS
    <2>1. i > Len(p)
      OBVIOUS
    <2> QED
      BY <2>1, NormalizeUnfolds
  <1>2. ASSUME NEW n \in Nat, n \in U PROVE n + 1 \in U
    <2> SUFFICES ASSUME NEW i \in Nat \ {0}, i + (n + 1) = Len(p) + 1
                 PROVE  NormalizeFrom[<< p, i >>] = Valid(p)
      OBVIOUS
    <2>1. i \in 1 .. Len(p) /\ ~(i > Len(p)) /\ i + 1 \in Nat \ {0} /\ (i + 1) + n = Len(p) + 1
      OBVIOUS
    <2>2. ~Special(p[i])
      BY <2>1 DEF Ordinary
    <2>3. NormalizeStep(p, i) = << p, i + 1 >>
      BY <2>2 DEF NormalizeStep, Special
    <2>4. NormalizeFrom[<< p, i + 1 >>] = Valid(p)
      BY <1>2, <2>1
    <2>5. ~(i = 1 /\ p[1] = "..")
      BY <2>2 DEF Special
    <2>6. NormalizeFrom[<< p, i >>] = NormalizeFrom[NormalizeStep(p, i)]
      BY <2>1, <2>5, NormalizeUnfolds
    <2> QED
      BY <2>3, <2>4, <2>6
  <1>3. Nat \subseteq U
    <2> HIDE DEF U
    <2> QED
      BY <1>1, <1>2, NatSetInduction
  <1>4. NormalizeFrom[<< p, 1 >>] = Valid(p)
    <2>1. Len(p) \in Nat /\ 1 + Len(p) = Len(p) + 1
      OBVIOUS
    <2> QED
      BY <1>3, <2>1
  <1> DEFINE W == {n \in Nat : \A s \in Seq(Part) : Len(s) = n /\ Ordinary(s) => Resolve[s] = s}
  <1>5. 0 \in W
    <2>1. \A s \in Seq(Part) : Len(s) = 0 => s = << >>
      OBVIOUS
    <2> QED
      BY <2>1, ResolveUnfolds
  <1>6. ASSUME NEW n \in Nat, n \in W PROVE n + 1 \in W
    <2> SUFFICES ASSUME NEW s \in Seq(Part), Len(s) = n + 1, Ordinary(s) PROVE Resolve[s] = s
      OBVIOUS
    <2>1. s # << >>
      OBVIOUS
    <2>2. PICK r \in Seq(Part), x \in Part : s = Append(r, x)
      BY <2>1, SequenceEmptyOrAppend
    <2>3. /\ Len(r) = n /\ (\A i \in 1 .. Len(r) : s[i] = r[i]) /\ s[n + 1] = x
      BY <2>2, AppendProperties
    <2>4. Ordinary(r) /\ ~Special(x)
      BY <2>3 DEF Ordinary
    <2>5. Resolve[r] = r
      BY <1>6, <2>3, <2>4
    <2>6. Resolve[s] = Enter(r, x)
      BY <2>2, <2>5, ResolveUnfolds
    <2> QED
      BY <2>2, <2>4, <2>6 DEF Enter, Special
  <1>7. Nat \subseteq W
    <2> HIDE DEF W
    <2> QED
      BY <1>5, <1>6, NatSetInduction
  <1>8. Resolve[p] = p
    BY <1>7
  <1> QED
    BY <1>4, <1>8

\* A round at a special part: it goes, perhaps with the part before it, which is ordinary. The
\* path that is left in front names the same place.
LEMMA Erased ==
    ASSUME NEW d \in Seq(Part), NEW x \in Part, Special(x), NEW r \in Seq(Part),
           Good(d, << x >> \o r)
    PROVE  \E c \in Seq(Part) :
              /\ NormalizeFrom[<< d \o (<< x >> \o r), Len(d) + 1 >>]
                     = NormalizeFrom[<< c \o r, IF r = << >> THEN 1 ELSE Len(c) + 2 >>]
              /\ Resolve[c] = Resolve[Append(d, x)] /\ (Ordinary(d) => Ordinary(c))
  <1> DEFINE e == << x >> \o r
             p == d \o << x >> \o r
             i == Len(d) + 1
  <1>1. /\ p \in Seq(Part) /\ p[i] = x /\ i \in Nat \ {0} /\ ~(i > Len(p)) /\ d \o e = p
        /\ Len(d) \in Nat /\ i = Len(d) + 1
    <2>1. d \o e = p
      BY AppendThen
    <2> QED
      BY <2>1, ItemOfSplit
  <1>2. Resolve[Append(d, x)] = Enter(Resolve[d], x)
    BY ResolveUnfolds
  <1>3. e \in Seq(Part) /\ e # << >> /\ e[1] = x
    BY ItemsOfRest
  <1>4. Good(d, e)
    OBVIOUS
  <1> HIDE DEF e
  <1>5. CASE x = "."
    <2>1. NormalizeStep(p, i) = << d \o r, IF r = << >> THEN 1 ELSE Len(d) + 2 >>
      BY <1>5, StepAtDot
    <2>2. ~(i = 1 /\ p[1] = "..")
      BY <1>1, <1>5
    <2>3. Resolve[Append(d, x)] = Resolve[d]
      BY <1>2, <1>5 DEF Enter
    <2> HIDE DEF p, i
    <2>4. NormalizeFrom[<< p, i >>] = NormalizeFrom[NormalizeStep(p, i)]
      BY <1>1, <2>2, NormalizeUnfolds
    <2>5. NormalizeFrom[<< d \o e, Len(d) + 1 >>]
              = NormalizeFrom[<< d \o r, IF r = << >> THEN 1 ELSE Len(d) + 2 >>]
      BY <1>1, <2>1, <2>4
    <2> QED
      BY <2>3, <2>5 DEF e
  <1>6. CASE x = ".."
    <2>1. Resolve[d] # << >>
      BY <1>6, BelowRest DEF Good
    <2>2. d # << >>
      BY <2>1, ResolveUnfolds
    <2>3. PICK c \in Seq(Part), z \in Part : d = Append(c, z)
      BY <2>2, SequenceEmptyOrAppend
    <2>4. ~Special(z)
      <3>1. Last(d) = z
        BY <2>3, AppendFront
      <3> QED
        BY <1>3, <1>4, <2>2, <3>1 DEF Good
    <2>5. Resolve[d] = Append(Resolve[c], z) /\ Resolve[c] \in Seq(Part)
      BY <2>3, <2>4, ResolveUnfolds DEF Enter, Special
    <2>6. Resolve[Append(d, x)] = Resolve[c]
      <3>1. Front(Resolve[d]) = Resolve[c]
        BY <2>5, AppendFront
      <3> QED
        BY <1>2, <1>6, <2>1, <3>1 DEF Enter
    <2>7. NormalizeStep(p, i) = << c \o r, IF r = << >> THEN 1 ELSE Len(c) + 2 >>
      BY <1>6, <2>3, StepAtDots
    <2>8. ~(i = 1 /\ p[1] = "..")
      <3>1. Len(d) = Len(c) + 1 /\ Len(c) \in Nat
        BY <2>3, AppendProperties
      <3> HIDE DEF i
      <3> QED
        BY <1>1, <3>1
    <2>9. Ordinary(d) => Ordinary(c)
      <3>1. Len(d) = Len(c) + 1 /\ Len(c) \in Nat /\ \A k \in 1 .. Len(c) : d[k] = c[k]
        BY <2>3, AppendProperties
      <3>2. \A k \in 1 .. Len(c) : k \in 1 .. Len(d)
        BY <3>1
      <3> QED
        BY <3>1, <3>2 DEF Ordinary
    <2> HIDE DEF p, i
    <2>10. NormalizeFrom[<< p, i >>] = NormalizeFrom[NormalizeStep(p, i)]
      BY <1>1, <2>8, NormalizeUnfolds
    <2>11. NormalizeFrom[<< d \o e, Len(d) + 1 >>]
              = NormalizeFrom[<< c \o r, IF r = << >> THEN 1 ELSE Len(c) + 2 >>]
      BY <1>1, <2>7, <2>10
    <2> QED
      BY <2>6, <2>9, <2>11 DEF e
  <1> QED
    BY <1>5, <1>6 DEF Special

\* An ordinary path and one more ordinary part
LEMMA OrdinaryAppend ==
    ASSUME NEW d \in Seq(Part), Ordinary(d), NEW x \in Part, ~Special(x)
    PROVE  Ordinary(Append(d, x))
  <1> DEFINE a == Append(d, x)
  <1>1. Len(a) = Len(d) + 1 /\ (\A k \in 1 .. Len(d) : a[k] = d[k]) /\ a[Len(d) + 1] = x /\ Len(d) \in Nat
    BY AppendProperties
  <1> HIDE DEF a
  <1>2. Ordinary(a)
    BY <1>1 DEF Ordinary
  <1> QED
    BY <1>2 DEF a

\* An ordinary part is passed.
LEMMA PassName ==
    ASSUME NEW d \in Seq(Part), NEW x \in Part, ~Special(x), NEW r \in Seq(Part),
           Good(d, << x >> \o r)
    PROVE  Good(Append(d, x), r) /\ (InPlace(Append(d, x), r) => InPlace(d, << x >> \o r))
  <1> DEFINE e == << x >> \o r
             a == Append(d, x)
             p == d \o << x >> \o r
             i == Len(d) + 1
  <1>1. /\ e \in Seq(Part) /\ e # << >> /\ e[1] = x /\ (r # << >> => Last(e) = Last(r))
        /\ a \in Seq(Part) /\ Last(a) = x
    BY ItemsOfRest, AppendFront
  <1>2. Below(a, r) /\ NoRowOf(3, r) /\ (NoRowOf(2, e) => NoRowOf(2, r))
    BY BelowRest, NoRowRest DEF Good
  <1>3. Ordinary(d) => Ordinary(a)
    BY OrdinaryAppend
  <1>4. Clean(d, e) => Clean(a, r)
    BY <1>2, <1>3 DEF Clean
  <1>5. Good(a, r)
    <2>1. Good(d, e)
      OBVIOUS
    <2> HIDE DEF a, e
    <2> QED
      BY <1>1, <1>2, <1>4, <2>1 DEF Good
  <1>6. ASSUME InPlace(a, r) PROVE InPlace(d, e)
    <2>1. PICK q \in Seq(Part) :
              /\ NormalizeFrom[<< a \o r, Len(a) + 1 >>] = Valid(q) /\ Resolve[q] = Resolve[a \o r]
              /\ Clean(a, r) => Ordinary(q)
      BY <1>6 DEF InPlace
    <2>2. d \o e = p /\ a \o r = p
      BY AppendThen
    <2>3. /\ p \in Seq(Part) /\ p[i] = x /\ i \in Nat \ {0} /\ ~(i > Len(p))
      BY ItemOfSplit
    <2>4. NormalizeStep(p, i) = << a \o r, Len(a) + 1 >>
      BY StepAtName
    <2> HIDE DEF p, a, e
    <2>5. NormalizeFrom[<< p, i >>] = NormalizeFrom[NormalizeStep(p, i)]
      <3>1. ~(i = 1 /\ p[1] = "..")
        BY <2>3 DEF Special
      <3> HIDE DEF i
      <3> QED
        BY <2>3, <3>1, NormalizeUnfolds
    <2> QED
      BY <1>4, <2>1, <2>2, <2>4, <2>5 DEF InPlace
  <1> QED
    BY <1>5, <1>6

\* A special part at the end goes, and the loop begins again.
LEMMA EraseLast ==
    ASSUME NEW d \in Seq(Part), NEW x \in Part, Special(x), Good(d, << x >> \o << >>)
    PROVE  InPlace(d, << x >> \o << >>)
  <1> DEFINE r == << >>
             e == << x >> \o r
  <1>1. r \in Seq(Part)
    OBVIOUS
  <1>2. e \in Seq(Part) /\ e # << >> /\ Last(e) = x
    BY <1>1, ItemsOfRest
  <1>3. PICK c \in Seq(Part) :
            /\ NormalizeFrom[<< d \o e, Len(d) + 1 >>] = NormalizeFrom[<< c \o r, 1 >>]
            /\ Resolve[c] = Resolve[Append(d, x)] /\ (Ordinary(d) => Ordinary(c))
    BY <1>1, Erased
  <1>4. Ordinary(d)
    <2>1. Good(d, e)
      OBVIOUS
    <2> HIDE DEF e
    <2> QED
      BY <1>2, <2>1 DEF Good, Clean
  <1>5. NormalizeFrom[<< c, 1 >>] = Valid(c) /\ Resolve[c] = c
    BY <1>3, <1>4, OrdinaryStays
  <1>6. c \o r = c /\ d \o e = Append(d, x)
    <2>1. Append(d, x) \in Seq(Part)
      BY AppendProperties
    <2> QED
      BY <1>1, <2>1, AppendThen, ConcatEmptySeq
  <1> HIDE DEF e, r
  <1>7. InPlace(d, e)
    BY <1>3, <1>4, <1>5, <1>6 DEF InPlace
  <1> QED
    BY <1>7 DEF e, r

\* Any other special part goes, and the part behind it is passed over.
LEMMA EraseAndPass ==
    ASSUME NEW d \in Seq(Part), NEW x \in Part, Special(x), NEW y \in Part, NEW s \in Seq(Part),
           Good(d, << x >> \o (<< y >> \o s))
    PROVE  \E c \in Seq(Part) :
              /\ Good(Append(c, y), s)
              /\ InPlace(Append(c, y), s) => InPlace(d, << x >> \o (<< y >> \o s))
  <1> DEFINE r == << y >> \o s
             e == << x >> \o r
  <1>1. r \in Seq(Part) /\ r # << >> /\ r[1] = y /\ (s # << >> => Last(r) = Last(s))
    BY ItemsOfRest
  <1>2. e \in Seq(Part) /\ e # << >> /\ e[1] = x /\ Last(e) = Last(r) /\ Good(d, e)
    <2> HIDE DEF r
    <2> QED
      BY <1>1, ItemsOfRest DEF r
  <1>3. PICK c \in Seq(Part) :
            /\ NormalizeFrom[<< d \o e, Len(d) + 1 >>] = NormalizeFrom[<< c \o r, Len(c) + 2 >>]
            /\ Resolve[c] = Resolve[Append(d, x)] /\ (Ordinary(d) => Ordinary(c))
    <2> HIDE DEF r
    <2>1. Good(d, << x >> \o r)
      BY <1>2
    <2>2. PICK c \in Seq(Part) :
              /\ NormalizeFrom[<< d \o (<< x >> \o r), Len(d) + 1 >>]
                     = NormalizeFrom[<< c \o r, IF r = << >> THEN 1 ELSE Len(c) + 2 >>]
              /\ Resolve[c] = Resolve[Append(d, x)] /\ (Ordinary(d) => Ordinary(c))
      BY <1>1, <2>1, Erased
    <2> QED
      BY <1>1, <2>2
  <1> DEFINE a == Append(c, y)
             b == Append(Append(d, x), y)
  <1>4. /\ Append(d, x) \in Seq(Part) /\ a \in Seq(Part) /\ b \in Seq(Part) /\ Last(a) = y
        /\ Len(a) = Len(c) + 1 /\ Len(c) \in Nat
    BY AppendProperties, AppendFront
  <1>5. Resolve[b] = Resolve[a]
    BY <1>3, <1>4, ResolveUnfolds
  <1>6. Below(a, s)
    <2>1. Below(Append(d, x), r)
      <3> HIDE DEF r
      <3> QED
        BY <1>1, <1>2, BelowRest DEF Good, e
    <2>2. Below(b, s)
      BY <1>4, <2>1, BelowRest
    <2> HIDE DEF a, b
    <2> QED
      BY <1>4, <1>5, <2>2, BelowSame
  <1>7. NoRowOf(3, s) /\ (NoRowOf(2, e) => NoRowOf(2, s))
    <2>1. ASSUME NEW n \in Nat, NoRowOf(n, e) PROVE NoRowOf(n, s)
      <3>1. NoRowOf(n, r)
        <4> HIDE DEF r
        <4> QED
          BY <1>1, <2>1, NoRowRest
      <3> QED
        BY <3>1, NoRowRest
    <2>2. NoRowOf(3, e)
      BY <1>2 DEF Good
    <2> HIDE DEF e
    <2> QED
      BY <2>1, <2>2
  <1>8. Clean(d, e) => Clean(a, s)
    <2> SUFFICES ASSUME Ordinary(d), NoRowOf(2, e) PROVE Ordinary(a) /\ NoRowOf(2, s)
      BY DEF Clean
    <2>1. ~Special(y)
      BY NoRowFirst
    <2>2. Ordinary(c)
      BY <1>3
    <2>3. Ordinary(a)
      BY <2>1, <2>2, OrdinaryAppend
    <2> QED
      BY <1>7, <2>3
  <1>9. Good(a, s)
    <2>1. Special(y) /\ s # << >> => ~Special(s[1])
      <3>1. NoRowOf(3, e)
        BY <1>2 DEF Good
      <3> QED
        BY <3>1, NoRowFirst
    <2>2. s # << >> /\ Special(Last(s)) => Clean(a, s)
      <3> HIDE DEF a, e
      <3> QED
        BY <1>1, <1>2, <1>8 DEF Good
    <2> HIDE DEF a
    <2> QED
      BY <1>4, <1>6, <1>7, <2>1, <2>2 DEF Good
  <1>10. ASSUME InPlace(a, s) PROVE InPlace(d, e)
    <2>1. PICK q \in Seq(Part) :
              /\ NormalizeFrom[<< a \o s, Len(a) + 1 >>] = Valid(q) /\ Resolve[q] = Resolve[a \o s]
              /\ Clean(a, s) => Ordinary(q)
      BY <1>10 DEF InPlace
    <2>2. c \o r = a \o s
      BY AppendThen
    <2>3. d \o e = b \o s
      <3>1. d \o e = Append(d, x) \o r
        <4> HIDE DEF r
        <4> QED
          BY <1>1, AppendThen
      <3>2. Append(d, x) \o r = b \o s
        BY <1>4, AppendThen
      <3> QED
        BY <3>1, <3>2
    <2>4. Resolve[d \o e] = Resolve[a \o s]
      <3> HIDE DEF a, b, e
      <3> QED
        BY <1>4, <1>5, <2>3, ResolveConcat
    <2>5. Len(c) + 2 = Len(a) + 1
      BY <1>4
    <2> HIDE DEF a, b, e, r
    <2> QED
      BY <1>3, <1>8, <2>1, <2>2, <2>4, <2>5 DEF InPlace
  <1> QED
    BY <1>9, <1>10

\* normalizePath ends, and in place.
LEMMA NormalizesInPlace ==
    ASSUME NEW d \in Seq(Part), NEW e \in Seq(Part), Good(d, e)
    PROVE  InPlace(d, e)
  <1> DEFINE U == {n \in Nat : \A a, f \in Seq(Part) : Len(f) <= n /\ Good(a, f) => InPlace(a, f)}
  <1>1. ASSUME NEW a \in Seq(Part), Good(a, << >>) PROVE InPlace(a, << >>)
    <2>1. a \o << >> = a /\ Len(a) \in Nat
      BY ConcatEmptySeq
    <2>2. NormalizeFrom[<< a, Len(a) + 1 >>] = Valid(a)
      <3>1. Len(a) + 1 \in Nat \ {0} /\ Len(a) + 1 > Len(a)
        BY <2>1
      <3> QED
        BY <3>1, NormalizeUnfolds
    <2> QED
      BY <2>1, <2>2 DEF InPlace, Clean
  <1>2. 0 \in U
    <2>1. \A f \in Seq(Part) : Len(f) <= 0 => f = << >>
      OBVIOUS
    <2> QED
      BY <1>1, <2>1
  <1>3. ASSUME NEW n \in Nat, n \in U PROVE n + 1 \in U
    <2> SUFFICES ASSUME NEW a \in Seq(Part), NEW f \in Seq(Part), Len(f) <= n + 1, Good(a, f), f # << >>
                 PROVE  InPlace(a, f)
      BY <1>1
    <2>1. PICK x \in Part, r \in Seq(Part) : f = << x >> \o r
      BY FirstRest
    <2>2. Len(r) <= n /\ Len(r) \in Nat
      <3>1. Len(f) = Len(r) + 1 /\ Len(r) \in Nat
        BY <2>1, ItemsOfRest
      <3> QED
        BY <3>1
    <2>3. CASE ~Special(x)
      <3>1. Append(a, x) \in Seq(Part)
        BY AppendProperties
      <3>2. Good(Append(a, x), r) /\ (InPlace(Append(a, x), r) => InPlace(a, f))
        BY <2>1, <2>3, PassName
      <3> QED
        BY <1>3, <2>2, <3>1, <3>2
    <2>4. CASE Special(x) /\ r = << >>
      BY <2>1, <2>4, EraseLast
    <2>5. CASE Special(x) /\ r # << >>
      <3>1. PICK y \in Part, s \in Seq(Part) : r = << y >> \o s
        BY <2>5, FirstRest
      <3>2. Len(s) <= n
        <4>1. Len(r) = Len(s) + 1 /\ Len(s) \in Nat
          BY <3>1, ItemsOfRest
        <4> QED
          BY <2>2, <4>1
      <3>3. PICK c \in Seq(Part) :
                Good(Append(c, y), s) /\ (InPlace(Append(c, y), s) => InPlace(a, f))
        BY <2>1, <2>5, <3>1, EraseAndPass
      <3>4. Append(c, y) \in Seq(Part)
        BY AppendProperties
      <3> QED
        BY <1>3, <3>2, <3>3, <3>4
    <2> QED
      BY <2>3, <2>4, <2>5
  <1>4. Nat \subseteq U
    <2> HIDE DEF U
    <2> QED
      BY <1>2, <1>3, NatSetInduction
  <1>5. Len(e) \in Nat /\ Len(e) <= Len(e)
    OBVIOUS
  <1> QED
    BY <1>4, <1>5

-----------------------------------------------------------------------------
(* Any path *)

\* What normalizePath returns is a path, which ends with the last part of the text unless that
\* is special.
Ends(p, i) ==
    \/ NormalizeFrom[<< p, i >>] = Invalid
    \/ \E q \in Seq(Part) :
          /\ NormalizeFrom[<< p, i >>] = Valid(q)
          /\ p # << >> /\ ~Special(Last(p)) => q # << >> /\ Last(q) = Last(p)

\* The loop ends: a round makes the path shorter or moves on.
LEMMA NormalizeEnds ==
    ASSUME NEW p \in Seq(Part), NEW i \in Nat \ {0}
    PROVE  Ends(p, i)
  <1> DEFINE U == {n \in Nat : \A s \in Seq(Part), k \in Nat \ {0} : Len(s) <= n => Ends(s, k)}
  <1>1. ASSUME NEW s \in Seq(Part), NEW k \in Nat \ {0}, k > Len(s) PROVE Ends(s, k)
    <2>1. NormalizeFrom[<< s, k >>] = Valid(s)
      BY <1>1, NormalizeUnfolds
    <2> QED
      BY <2>1 DEF Ends
  <1>2. 0 \in U
    BY <1>1
  <1>3. ASSUME NEW n \in Nat, n \in U PROVE n + 1 \in U
    <2> SUFFICES ASSUME NEW s \in Seq(Part), Len(s) = n + 1 PROVE \A k \in Nat \ {0} : Ends(s, k)
      <3>1. \A r \in Seq(Part) : Len(r) <= n + 1 => Len(r) <= n \/ Len(r) = n + 1
        OBVIOUS
      <3> QED
        BY <1>3, <3>1
    <2> DEFINE W == {m \in Nat : \A k \in Nat \ {0} : k + m = n + 2 => Ends(s, k)}
    <2>1. 0 \in W
      BY <1>1
    <2>2. ASSUME NEW m \in Nat, m \in W PROVE m + 1 \in W
      <3> SUFFICES ASSUME NEW k \in Nat \ {0}, k + (m + 1) = n + 2 PROVE Ends(s, k)
        OBVIOUS
      <3>1. k \in 1 .. Len(s) /\ (k + 1) + m = n + 2 /\ k + 1 \in Nat \ {0} /\ ~(k > Len(s))
        OBVIOUS
      <3>2. Ends(s, k + 1)
        BY <2>2, <3>1
      <3>3. PICK d \in Seq(Part), e \in Seq(Part) : Len(d) = k - 1 /\ s = d \o << s[k] >> \o e
        BY <3>1, SplitAt
      <3> DEFINE x == s[k]
      <3>4. x \in Part /\ Len(d) + 1 = k
        BY <3>1, <3>3
      <3> HIDE DEF x
      <3>5. s = d \o << x >> \o e /\ Len(e) \in Nat /\ Len(d) \in Nat /\ s # << >>
            /\ Len(d) + 1 + Len(e) = n + 1
        BY <3>3, <3>4, ItemOfSplit DEF x
      <3>6. (e # << >> => Last(s) = Last(e)) /\ (e = << >> => Last(s) = x)
        <4>1. << x >> \o e \in Seq(Part) /\ << x >> \o e # << >>
              /\ (e # << >> => Last(<< x >> \o e) = Last(e)) /\ (e = << >> => Last(<< x >> \o e) = x)
          BY <3>4, ItemsOfRest
        <4>2. s = d \o (<< x >> \o e)
          <5>1. << x >> \in Seq(Part) /\ s = (d \o << x >>) \o e
            BY <3>4, <3>5
          <5> QED
            BY <5>1, ConcatAssociative
        <4>3. Last(d \o (<< x >> \o e)) = Last(<< x >> \o e)
          BY <4>1, LastOfConcat
        <4> QED
          BY <4>1, <4>2, <4>3
      <3>7. ASSUME NEW c \in Seq(Part), NEW j \in Nat \ {0}, Len(c) <= Len(d), Special(x),
                   NormalizeFrom[<< s, k >>] = NormalizeFrom[<< c \o e, j >>]
            PROVE  Ends(s, k)
        <4>1. c \o e \in Seq(Part) /\ Len(c \o e) <= n
          <5>1. c \o e \in Seq(Part) /\ Len(c \o e) = Len(c) + Len(e) /\ Len(c) \in Nat
            BY ConcatProperties
          <5> QED
            BY <3>5, <3>7, <5>1
        <4>2. Ends(c \o e, j)
          BY <1>3, <4>1
        <4>3. e # << >> => c \o e # << >> /\ Last(c \o e) = Last(e)
          BY LastOfConcat
        <4> QED
          BY <3>6, <3>7, <4>2, <4>3 DEF Ends
      <3>8. CASE x = "."
        <4>1. NormalizeStep(s, k) = << d \o e, IF e = << >> THEN 1 ELSE Len(d) + 2 >>
          BY <3>4, <3>5, <3>8, StepAtDot
        <4>2. ~(k = 1 /\ s[1] = "..")
          BY <3>8 DEF x
        <4>3. NormalizeFrom[<< s, k >>] = NormalizeFrom[NormalizeStep(s, k)]
          BY <3>1, <4>2, NormalizeUnfolds
        <4>4. (IF e = << >> THEN 1 ELSE Len(d) + 2) \in Nat \ {0}
          BY <3>5
        <4>5. Len(d) <= Len(d) /\ Special(x)
          BY <3>5, <3>8 DEF Special
        <4>6. NormalizeFrom[<< s, k >>] = NormalizeFrom[<< d \o e, IF e = << >> THEN 1 ELSE Len(d) + 2 >>]
          BY <4>1, <4>3
        <4> QED
          BY <3>7, <4>4, <4>5, <4>6
      <3>9. CASE x = ".."
        <4>1. CASE d = << >>
          <5>1. k = 1 /\ s[1] = ".."
            BY <3>4, <3>9, <4>1 DEF x
          <5>2. NormalizeFrom[<< s, k >>] = Invalid
            BY <3>1, <5>1, NormalizeUnfolds
          <5> QED
            BY <5>2 DEF Ends
        <4>2. CASE d # << >>
          <5>1. PICK c \in Seq(Part), z \in Part : d = Append(c, z)
            BY <4>2, SequenceEmptyOrAppend
          <5>2. Len(d) = Len(c) + 1 /\ Len(c) \in Nat
            BY <5>1, AppendProperties
          <5>3. NormalizeStep(s, k) = << c \o e, IF e = << >> THEN 1 ELSE Len(c) + 2 >>
            <6>1. NormalizeStep(Append(c, z) \o << x >> \o e, Len(Append(c, z)) + 1)
                      = << c \o e, IF e = << >> THEN 1 ELSE Len(c) + 2 >>
              BY <3>4, <3>9, StepAtDots
            <6> QED
              BY <3>4, <3>5, <5>1, <6>1
          <5>4. ~(k = 1 /\ s[1] = "..")
            BY <3>4, <5>2
          <5>5. NormalizeFrom[<< s, k >>] = NormalizeFrom[NormalizeStep(s, k)]
            BY <3>1, <5>4, NormalizeUnfolds
          <5>6. (IF e = << >> THEN 1 ELSE Len(c) + 2) \in Nat \ {0}
            BY <5>2
          <5>7. Len(c) <= Len(d) /\ Special(x)
            BY <3>9, <5>2 DEF Special
          <5>8. NormalizeFrom[<< s, k >>] = NormalizeFrom[<< c \o e, IF e = << >> THEN 1 ELSE Len(c) + 2 >>]
            BY <5>3, <5>5
          <5> QED
            BY <3>7, <5>1, <5>6, <5>7, <5>8
        <4> QED
          BY <4>1, <4>2
      <3>10. CASE ~Special(x)
        <4>1. NormalizeStep(s, k) = << s, k + 1 >>
          BY <3>10 DEF NormalizeStep, Special, x
        <4>2. ~(k = 1 /\ s[1] = "..")
          BY <3>10 DEF Special, x
        <4>3. NormalizeFrom[<< s, k >>] = NormalizeFrom[NormalizeStep(s, k)]
          BY <3>1, <4>2, NormalizeUnfolds
        <4> QED
          BY <3>2, <4>1, <4>3 DEF Ends
      <3> QED
        BY <3>8, <3>9, <3>10 DEF Special
    <2>3. Nat \subseteq W
      <3> HIDE DEF W
      <3> QED
        BY <2>1, <2>2, NatSetInduction
    <2> SUFFICES ASSUME NEW k \in Nat \ {0} PROVE Ends(s, k)
      OBVIOUS
    <2>4. CASE k > Len(s)
      BY <1>1, <2>4
    <2>5. CASE ~(k > Len(s))
      <3>1. n + 2 - k \in Nat /\ k + (n + 2 - k) = n + 2
        BY <2>5
      <3> QED
        BY <2>3, <3>1
    <2> QED
      BY <2>4, <2>5
  <1>4. Nat \subseteq U
    <2> HIDE DEF U
    <2> QED
      BY <1>2, <1>3, NatSetInduction
  <1>5. Len(p) \in Nat /\ Len(p) <= Len(p)
    OBVIOUS
  <1> QED
    BY <1>4, <1>5

-----------------------------------------------------------------------------
(* Paths normalizePath can cope with *)

\* A path of ordinary parts names the place that has these parts.
LEMMA OrdinaryResolves ==
    ASSUME NEW p \in Seq(Part), Ordinary(p)
    PROVE  Resolve[p] = p
  <1> DEFINE U == {n \in Nat : \A s \in Seq(Part) : Len(s) = n /\ Ordinary(s) => Resolve[s] = s}
  <1>1. 0 \in U
    <2>1. \A s \in Seq(Part) : Len(s) = 0 => s = << >>
      OBVIOUS
    <2> QED
      BY <2>1, ResolveUnfolds
  <1>2. ASSUME NEW n \in Nat, n \in U PROVE n + 1 \in U
    <2> SUFFICES ASSUME NEW s \in Seq(Part), Len(s) = n + 1, Ordinary(s) PROVE Resolve[s] = s
      OBVIOUS
    <2>1. s # << >>
      OBVIOUS
    <2>2. PICK u \in Seq(Part), x \in Part : s = Append(u, x)
      BY <2>1, SequenceEmptyOrAppend
    <2>3. /\ Len(u) = n /\ Len(s) = Len(u) + 1 /\ s[Len(u) + 1] = x
          /\ \A k \in 1 .. Len(u) : s[k] = u[k]
      BY <2>2, AppendProperties
    <2>4. Ordinary(u) /\ ~Special(x)
      BY <2>3 DEF Ordinary
    <2>5. Resolve[u] = u
      BY <1>2, <2>3, <2>4
    <2>6. Resolve[s] = Enter(u, x)
      BY <2>2, <2>5, ResolveUnfolds
    <2> QED
      BY <2>2, <2>4, <2>6 DEF Enter, Special
  <1>3. Nat \subseteq U
    <2> HIDE DEF U
    <2> QED
      BY <1>1, <1>2, NatSetInduction
  <1> QED
    BY <1>3

\* The loop makes of a plain path one that names the same place: the place itself, if the path
\* has no two special parts in a row.
LEMMA PlainNormalizes ==
    ASSUME NEW p \in Seq(Part), IsPlainPath(p)
    PROVE  \E q \in Seq(Part) :
              /\ NormalizeFrom[<< p, 1 >>] = Valid(q) /\ Resolve[q] = Resolve[p]
              /\ NoRowOf(2, p) => q = Resolve[p]
  <1>1. Below(<< >>, p)
    <2> SUFFICES ASSUME NEW k \in 1 .. Len(p), p[k] = ".." PROVE Resolve[<< >> \o SubSeq(p, 1, k - 1)] # << >>
      BY DEF Below
    <2>1. SubSeq(p, 1, k - 1) \in Seq(Part)
      <3>1. k - 1 \in Int /\ \A i \in 1 .. k - 1 : p[i] \in Part
        OBVIOUS
      <3> QED
        BY <3>1, SubSeqProperties
    <2>2. << >> \o SubSeq(p, 1, k - 1) = SubSeq(p, 1, k - 1)
      BY <2>1, ConcatEmptySeq
    <2> QED
      BY <2>2 DEF IsPlainPath, StaysBelowRoot
  <1>2. Ordinary(<< >>) /\ << >> \in Seq(Part) /\ << >> \o p = p /\ Len(<< >>) + 1 = 1
    BY ConcatEmptySeq DEF Ordinary
  <1>3. Good(<< >>, p)
    BY <1>1, <1>2 DEF Good, Clean, IsPlainPath
  <1>4. InPlace(<< >>, p)
    BY <1>2, <1>3, NormalizesInPlace
  <1>5. PICK q \in Seq(Part) :
            /\ NormalizeFrom[<< p, 1 >>] = Valid(q) /\ Resolve[q] = Resolve[p]
            /\ NoRowOf(2, p) => Ordinary(q)
    BY <1>2, <1>4 DEF InPlace, Clean
  <1> QED
    BY <1>5, OrdinaryResolves

-----------------------------------------------------------------------------
(* What never changes during a run *)

\* The scripts and the prefix are those of the configuration.
ScriptInv == installFiles \in Scripts /\ prefix \in InstallPrefixes /\ destDir \in DestDirs \cup {NoText}

\* ScriptInv is an invariant.
LEMMA ScriptInvariant == Spec => []ScriptInv
  <1>1. Init => ScriptInv
    BY DEF Init, ScriptInv
  <1>2. ScriptInv /\ [Next]_vars => ScriptInv'
    <2> SUFFICES ASSUME ScriptInv, [Next]_vars PROVE ScriptInv'
      OBVIOUS
    <2>1. CASE Start
      BY <2>1 DEF Start, ScriptInv, script
    <2>2. CASE ~Start
      <3>1. UNCHANGED << script, destDir >>
        BY <2>2 DEF Next, vars, script, runVars, Make, NextTarget, SkipInstruction, InstallFile,
                    BeginUninstall, UninstallFile, Return, Kill
      <3> QED
        BY <3>1 DEF ScriptInv, script
    <2> QED
      BY <2>1, <2>2
  <1> QED
    BY <1>1, <1>2, PTL DEF Spec

\* The texts of an instruction have parts.
LEMMA TextsOfInstructions ==
    ASSUME ScriptInv, NEW t \in Targets, NEW i \in DOMAIN installFiles[t]
    PROVE  /\ installFiles[t] \in Seq(Seq(Texts)) /\ installFiles[t][i] \in Seq(Texts)
           /\ \A k \in DOMAIN installFiles[t][i] :
                 installFiles[t][i][k] \in Texts /\ installFiles[t][i][k].parts \in Seq(Part)
  <1>1. installFiles[t] \in Seq(Seq(Texts))
    BY InstallAssumption DEF ScriptInv
  <1>2. installFiles[t][i] \in Seq(Texts)
    BY <1>1
  <1> QED
    BY <1>1, <1>2 DEF Texts

\* normalizePath of any plain path a script has leads to the place it names.
\* (OS::normalizePath)
THEOREM NormalizedInPlaceInvariant == Spec => []NormalizedInPlace
  <1>1. ScriptInv => NormalizedInPlace
    <2> SUFFICES ASSUME ScriptInv, NEW a \in Installable, NEW k \in DOMAIN a[2]
                 PROVE  LET path == BuildDir \o a[2][k].parts
                            normal == NormalizePath(Text(TRUE, path, FALSE), BuildDir)
                        IN IsPlainPath(path) =>
                               /\ normal.valid
                               /\ Resolve[normal.path] = Resolve[path]
                               /\ NoRowOf(2, path) => normal.path = Resolve[path]
      BY DEF NormalizedInPlace
    <2>1. a[2][k].parts \in Seq(Part)
      <3>1. PICK t \in Targets : a \in {t} \X ToSet(installFiles[t])
        BY DEF Installable, InstructionsOf
      <3>2. PICK i \in DOMAIN installFiles[t] : a[2] = installFiles[t][i]
        BY <3>1 DEF ToSet
      <3> QED
        BY <3>2, TextsOfInstructions
    <2> DEFINE path == BuildDir \o a[2][k].parts
    <2>2. path \in Seq(Part)
      BY <2>1, InstallAssumption
    <2> HIDE DEF path
    <2>3. NormalizePath(Text(TRUE, path, FALSE), BuildDir) = NormalizeFrom[<< path, 1 >>]
      BY DEF NormalizePath, Text
    <2>4. ASSUME IsPlainPath(path)
          PROVE  LET normal == NormalizeFrom[<< path, 1 >>]
                 IN /\ normal.valid
                    /\ Resolve[normal.path] = Resolve[path]
                    /\ NoRowOf(2, path) => normal.path = Resolve[path]
      <3>1. PICK q \in Seq(Part) :
                /\ NormalizeFrom[<< path, 1 >>] = Valid(q) /\ Resolve[q] = Resolve[path]
                /\ NoRowOf(2, path) => q = Resolve[path]
        BY <2>2, <2>4, PlainNormalizes
      <3> QED
        BY <3>1 DEF Valid
    <2> QED
      BY <2>3, <2>4 DEF path
  <1> QED
    BY <1>1, ScriptInvariant, PTL

-----------------------------------------------------------------------------
(* The loops of installTargets and uninstallTargets *)

\* The targets the run asks for, in the order of the loop
Called == IF names = << >> THEN Order ELSE names

\* What a loop over t has still to look at
IsRest(s, t) == Len(s) <= Len(t) /\ \A k \in 1 .. Len(s) : s[k] = t[Len(t) - Len(s) + k]

\* How many targets the loop has taken, and how many instructions of the last one are done
Cur == Len(Called) - Len(todo)

Got == IF Cur = 0 THEN 0
       ELSE Len(installFiles[Called[Cur]]) - Len(instructions) - (IF removals = << >> THEN 0 ELSE 1)

\* The instruction the files to be removed are of
Present == Len(installFiles[target]) - Len(instructions)

\* What uninstallTargets looks for, below a prefix
RemovalsUnder(p, t, instruction) ==
    LET dir == DirBelow(p, instruction[1]).path
    IN IF IsTargetInstall(instruction) THEN << Append(dir, Output[t]) >>
       ELSE [i \in 1 .. Len(instruction) - 1 |-> Append(dir, BaseName(instruction[i + 1]))]

\* The prefix is all that removals take from the state.
LEMMA RemovalsOfPrefix ==
    \A t, instruction : Removals(t, instruction) = RemovalsUnder(InstallPrefix, t, instruction)
  BY DEF Removals, RemovalsUnder

\* The types of what the loops use; a run that has ended has nothing left to do.
LoopType ==
    /\ names \in Selections \cup {<< >>} /\ todo \in Seq(Part) /\ instructions \in Seq(Seq(Texts))
    /\ ~Running => todo = << >> /\ instructions = << >> /\ removals = << >>

\* Where the loops are
LoopPlace ==
    /\ IsRest(todo, Called)
    /\ Cur = 0 => instructions = << >> /\ removals = << >>
    /\ Cur # 0 => /\ target = Called[Cur] /\ target \in Targets
                  /\ IsRest(instructions, installFiles[target])
    /\ removals # << >> =>
          /\ command = "-u" /\ Cur # 0
          /\ Present \in DOMAIN installFiles[target] /\ installFiles[target][Present] # << >>
          /\ TargetInstallsOnly => removals = RemovalsUnder(InstallPrefix, target, installFiles[target][Present])

\* The invariant of the loops
LoopInv == ScriptInv /\ LoopType /\ (Running => LoopPlace)

\* One round of a loop
LEMMA RestSteps ==
    ASSUME NEW T, NEW t \in Seq(T), NEW s \in Seq(T), IsRest(s, t)
    PROVE  /\ Len(s) \in Nat /\ Len(t) \in Nat /\ Len(t) - Len(s) \in 0 .. Len(t)
           /\ s # << >> => /\ Tail(s) \in Seq(T) /\ IsRest(Tail(s), t) /\ Len(Tail(s)) = Len(s) - 1
                           /\ Len(t) - Len(s) + 1 \in 1 .. Len(t)
                           /\ Head(s) = t[Len(t) - Len(s) + 1] /\ Head(s) \in T
           /\ s = << >> => Len(t) - Len(s) = Len(t)
  <1>1. Len(s) \in Nat /\ Len(t) \in Nat /\ Len(s) <= Len(t)
    BY DEF IsRest
  <1>2. ASSUME s # << >>
        PROVE  /\ Tail(s) \in Seq(T) /\ IsRest(Tail(s), t) /\ Len(Tail(s)) = Len(s) - 1
               /\ Head(s) = t[Len(t) - Len(s) + 1] /\ Len(s) # 0 /\ Head(s) \in T
    <2>1. /\ Tail(s) \in Seq(T) /\ Len(Tail(s)) = Len(s) - 1 /\ Head(s) = s[1] /\ Len(s) # 0
          /\ \A k \in 1 .. Len(s) - 1 : Tail(s)[k] = s[k + 1]
      BY <1>2, HeadTailProperties, EmptySeq
    <2>2. \A k \in 1 .. Len(s) - 1 : s[k + 1] = t[Len(t) - Len(s) + (k + 1)]
      BY <1>1 DEF IsRest
    <2>3. \A k \in 1 .. Len(s) - 1 : Len(t) - Len(s) + (k + 1) = Len(t) - (Len(s) - 1) + k
      BY <1>1
    <2>4. IsRest(Tail(s), t)
      BY <1>1, <2>1, <2>2, <2>3 DEF IsRest
    <2>5. s[1] = t[Len(t) - Len(s) + 1] /\ s[1] \in T
      BY <1>1, <2>1 DEF IsRest
    <2> QED
      BY <2>1, <2>4, <2>5
  <1>3. Len(t) - Len(s) \in 0 .. Len(t) /\ (s # << >> => Len(t) - Len(s) + 1 \in 1 .. Len(t))
    BY <1>1, <1>2
  <1>4. s = << >> => Len(t) - Len(s) = Len(t)
    BY <1>1
  <1> QED
    BY <1>1, <1>2, <1>3, <1>4

\* A loop begins with all of its list.
LEMMA RestBegins ==
    ASSUME NEW T, NEW t \in Seq(T)
    PROVE  IsRest(t, t)
  BY DEF IsRest

\* The targets on the command line are a sequence of names, and an instruction is of a target.
LEMMA CalledType ==
    ASSUME ScriptInv, LoopType
    PROVE  /\ Called \in Seq(Part) /\ \A t \in Targets : installFiles[t] \in Seq(Seq(Texts))
  <1>1. Called \in Seq(Part)
    BY InstallAssumption DEF Called, LoopType, Part
  <1>2. \A t \in Targets : installFiles[t] \in Seq(Seq(Texts))
    BY InstallAssumption DEF ScriptInv
  <1> QED
    BY <1>1, <1>2

\* What a step must leave alone for the targets and the instructions to be the same
Fixed == UNCHANGED << script, names, destDir >>

\* The targets, the instructions and the prefix are then the same.
LEMMA FixedLoops ==
    ASSUME Fixed
    PROVE  /\ Called' = Called /\ installFiles' = installFiles /\ prefix' = prefix /\ destDir' = destDir
           /\ names' = names /\ (TargetInstallsOnly' <=> TargetInstallsOnly)
           /\ InstallPrefix' = InstallPrefix
  <1>1. installFiles' = installFiles /\ prefix' = prefix /\ destDir' = destDir /\ names' = names
    BY DEF Fixed, script
  <1>2. InstallPrefix' = InstallPrefix
    BY <1>1 DEF InstallPrefix, PrefixAsConfigured, ConfiguredPrefix
  <1>4. TargetInstallsOnly' <=> TargetInstallsOnly
    BY <1>1 DEF TargetInstallsOnly, Installable, InstructionsOf
  <1> QED
    BY <1>1, <1>2, <1>4 DEF Called

\* The instruction installs the output of its target.
LEMMA TargetInstruction ==
    ASSUME TargetInstallsOnly, NEW t \in Targets, NEW k \in DOMAIN installFiles[t],
           installFiles[t][k] # << >>
    PROVE  IsTargetInstall(installFiles[t][k])
  <1> DEFINE a == << t, installFiles[t][k] >>
  <1>1. a \in {t} \X ToSet(installFiles[t])
    BY DEF ToSet
  <1>2. a \in Installable
    BY <1>1 DEF Installable, InstructionsOf
  <1> QED
    BY <1>2 DEF TargetInstallsOnly

\* A run that has stopped looks at nothing.
LEMMA StopsLoops ==
    ASSUME ScriptInv', LoopType, names' = names, NEW how, Stop(how), how # "running"
    PROVE  LoopInv'
  BY DEF Stop, LoopInv, LoopType, Running

\* The loops are where they seem to be.
LEMMA LoopInvariant == Spec => []LoopInv
  <1>1. Init => LoopInv
    <2> SUFFICES ASSUME Init PROVE LoopInv
      OBVIOUS
    <2>1. ScriptInv
      BY DEF Init, ScriptInv
    <2> QED
      BY <2>1 DEF Init, LoopInv, LoopType, Running
  <1>2. ASSUME LoopInv, ScriptInv', [Next]_vars PROVE LoopInv'
    <2>1. LoopType /\ ScriptInv /\ Called \in Seq(Part) /\ Len(Called) \in Nat
          /\ \A t \in Targets : installFiles[t] \in Seq(Seq(Texts)) /\ Len(installFiles[t]) \in Nat
      BY <1>2, CalledType DEF LoopInv
    <2>2. CASE Start
      <3>1. LoopType'
        <4>1. names' \in Selections /\ names' \in Seq(STRING) /\ Order \in Seq(STRING)
          BY <2>2, InstallAssumption DEF Start
        <4>2. todo' \in Seq(Part)
          BY <2>2, <4>1 DEF Start, Part
        <4> QED
          BY <2>1, <2>2, <4>1, <4>2 DEF Start, LoopType, Running
      <3>2. todo' = Called' /\ Called' \in Seq(Part)
        BY <2>2, <3>1 DEF Start, Called, LoopType
      <3>3. IsRest(todo', Called') /\ Cur' = 0
        <4>1. IsRest(todo', Called')
          BY <3>2, RestBegins
        <4> QED
          BY <3>2, <4>1 DEF Cur
      <3>4. instructions' = << >> /\ removals' = << >>
        BY <2>1, <2>2 DEF Start, LoopType
      <3> QED
        BY <1>2, <3>1, <3>3, <3>4 DEF LoopInv, LoopPlace
    <2>3. CASE Make
      BY <1>2, <2>3 DEF Make, LoopInv, LoopType, Running
    <2>4. CASE NextTarget
      <3>0. IsRest(todo, Called) /\ todo # << >> /\ Fixed
        BY <1>2, <2>4 DEF NextTarget, LoopInv, LoopPlace, Fixed
      <3>1. CASE Head(todo) \in Targets
        <4>1. /\ Tail(todo) \in Seq(Part) /\ IsRest(Tail(todo), Called) /\ Len(Tail(todo)) = Len(todo) - 1
              /\ Head(todo) = Called[Cur + 1] /\ Len(todo) \in Nat /\ Cur \in Nat
          BY <2>1, <3>0, RestSteps DEF LoopType, Cur
        <4>2. /\ todo' = Tail(todo) /\ target' = Head(todo) /\ instructions' = installFiles[target']
              /\ removals' = << >> /\ Running' /\ Called' = Called /\ installFiles' = installFiles
          BY <2>4, <3>0, <3>1, FixedLoops DEF NextTarget, Running
        <4>3. Cur' = Cur + 1
          BY <2>1, <4>1, <4>2 DEF Cur
        <4>4. IsRest(instructions', installFiles'[target'])
          BY <2>1, <3>1, <4>2, RestBegins
        <4>5. LoopType'
          BY <2>1, <3>0, <3>1, <4>1, <4>2, FixedLoops DEF LoopType
        <4>6. LoopPlace'
          BY <3>1, <4>1, <4>2, <4>3, <4>4 DEF LoopPlace
        <4> QED
          BY <1>2, <4>5, <4>6 DEF LoopInv
      <3>2. CASE Head(todo) \notin Targets
        BY <1>2, <2>1, <2>4, <3>2, StopsLoops DEF NextTarget
      <3> QED
        BY <3>1, <3>2
    <2>5. ASSUME AtInstruction, instructions' = Tail(instructions), Fixed,
                 UNCHANGED << todo, target, result, command >>,
                 removals' = << >> \/ /\ command = "-u" /\ Head(instructions) # << >>
                                      /\ TargetInstallsOnly
                                         => removals' = RemovalsUnder(InstallPrefix, target, Head(instructions))
          PROVE  LoopInv'
      <3>1. /\ LoopPlace /\ Running /\ removals = << >> /\ instructions # << >>
            /\ Cur # 0 /\ target = Called[Cur] /\ target \in Targets /\ IsRest(instructions, installFiles[target])
        BY <1>2, <2>5 DEF LoopInv, LoopPlace, AtInstruction
      <3> DEFINE t == installFiles[target]
      <3>2. t \in Seq(Seq(Texts)) /\ instructions \in Seq(Seq(Texts))
        BY <2>1, <3>1 DEF LoopType
      <3> HIDE DEF t
      <3>3. IsRest(instructions, t)
        BY <3>1 DEF t
      <3>4. /\ Tail(instructions) \in Seq(Seq(Texts)) /\ IsRest(Tail(instructions), t)
            /\ Len(Tail(instructions)) = Len(instructions) - 1
            /\ Head(instructions) = t[Len(t) - Len(instructions) + 1]
            /\ Len(t) - Len(instructions) + 1 \in 1 .. Len(t)
            /\ Len(instructions) \in Nat /\ Len(t) \in Nat
        BY <3>1, <3>2, <3>3, RestSteps
      <3>5. Called' = Called /\ installFiles' = installFiles /\ names' = names /\ t' = t
        BY <2>5, FixedLoops DEF t
      <3>6. Cur' = Cur
        BY <2>5, <3>5 DEF Cur
      <3>7. Present' = Len(t) - Len(instructions) + 1
        BY <2>5, <3>4, <3>5 DEF Present, t
      <3>8. Present' \in DOMAIN t /\ t[Present'] = Head(instructions)
        BY <3>2, <3>4, <3>7
      <3>9. LoopType'
        BY <2>1, <2>5, <3>1, <3>4, <3>5 DEF LoopType, Running
      <3>10. removals' # << >> => /\ command' = "-u" /\ Present' \in DOMAIN installFiles'[target']
                                  /\ installFiles'[target'][Present'] # << >>
        BY <2>5, <3>5, <3>8 DEF t
      <3>11. removals' # << >> /\ TargetInstallsOnly'
             => removals' = RemovalsUnder(InstallPrefix', target', installFiles'[target'][Present'])
        <4> SUFFICES ASSUME removals' # << >>, TargetInstallsOnly'
                     PROVE  removals' = RemovalsUnder(InstallPrefix', target', installFiles'[target'][Present'])
          OBVIOUS
        <4>1. TargetInstallsOnly /\ InstallPrefix' = InstallPrefix
          BY <2>5, FixedLoops
        <4>2. removals' = RemovalsUnder(InstallPrefix, target, Head(instructions))
          BY <2>5, <4>1
        <4> QED
          BY <2>5, <3>5, <3>8, <4>1, <4>2 DEF t
      <3>12. LoopPlace'
        BY <2>5, <3>1, <3>4, <3>5, <3>6, <3>10, <3>11 DEF LoopPlace, t
      <3> QED
        BY <1>2, <3>9, <3>12 DEF LoopInv
    <2>6. CASE SkipInstruction
      BY <2>5, <2>6 DEF SkipInstruction, AtInstruction, Fixed, Running
    <2>7. CASE InstallFile
      <3>1. names' = names /\ Fixed /\ AtInstruction
        BY <2>7 DEF InstallFile, Fixed
      <3>2. \/ Stop("error")
            \/ instructions' = Tail(instructions) /\ UNCHANGED << todo, target, removals, result, command >>
        BY <2>7 DEF InstallFile, Throw
      <3> QED
        BY <1>2, <2>1, <2>5, <3>1, <3>2, StopsLoops DEF AtInstruction
    <2>8. CASE BeginUninstall
      <3>1. names' = names /\ Fixed /\ AtInstruction /\ command = "-u" /\ Head(instructions) # << >>
        BY <2>8 DEF BeginUninstall, Fixed
      <3>2. \/ Stop("error")
            \/ /\ removals' = RemovalsUnder(InstallPrefix, target, Head(instructions)) /\ instructions' = Tail(instructions)
               /\ UNCHANGED << todo, target, result, command >>
        BY <2>8, RemovalsOfPrefix DEF BeginUninstall, Throw
      <3> QED
        BY <1>2, <2>1, <2>5, <3>1, <3>2, StopsLoops
    <2>9. CASE UninstallFile
      <3>1. CASE Stop("error")
        BY <1>2, <2>1, <2>9, <3>1, StopsLoops DEF UninstallFile
      <3>2. CASE ~Stop("error")
        <4>1. /\ removals' = Tail(removals) /\ UNCHANGED << todo, target, instructions, result, command >>
              /\ Running /\ removals # << >> /\ Fixed
          BY <2>9, <3>2 DEF UninstallFile, Throw, Fixed
        <4>2. /\ Called' = Called /\ installFiles' = installFiles /\ names' = names
              /\ (TargetInstallsOnly' <=> TargetInstallsOnly)
          BY <4>1, FixedLoops
        <4>3. TargetInstallsOnly => removals' = << >>
          <5> SUFFICES ASSUME TargetInstallsOnly PROVE removals' = << >>
            OBVIOUS
          <5>0. TargetInstallsOnly
            OBVIOUS
          <5>1. /\ Cur # 0 /\ target \in Targets /\ Present \in DOMAIN installFiles[target]
                /\ installFiles[target][Present] # << >>
                /\ removals = RemovalsUnder(InstallPrefix, target, installFiles[target][Present])
            BY <1>2, <4>1 DEF LoopInv, LoopPlace
          <5>2. IsTargetInstall(installFiles[target][Present])
            BY <5>0, <5>1, TargetInstruction
          <5>3. \E x : removals = << x >>
            BY <5>1, <5>2 DEF RemovalsUnder
          <5> QED
            BY <4>1, <5>3
        <4>4. Cur' = Cur /\ Present' = Present
          BY <4>1, <4>2 DEF Cur, Present
        <4>5. LoopType'
          BY <2>1, <4>1, <4>2 DEF LoopType, Running
        <4>6. LoopPlace
          BY <1>2, <4>1 DEF LoopInv
        <4>7. LoopPlace'
          BY <4>1, <4>2, <4>3, <4>4, <4>6 DEF LoopPlace
        <4> QED
          BY <1>2, <4>5, <4>7 DEF LoopInv
      <3> QED
        BY <3>1, <3>2
    <2>10. CASE Return
      BY <1>2, <2>1, <2>10, StopsLoops DEF Return
    <2>11. CASE Kill
      BY <1>2, <2>1, <2>11, StopsLoops DEF Kill
    <2>12. CASE UNCHANGED vars
      <3>1. /\ UNCHANGED << names, todo, instructions, removals, result, command, target >> /\ Fixed
        BY <2>12 DEF vars, runVars, script, Fixed
      <3>2. Called' = Called /\ installFiles' = installFiles /\ (TargetInstallsOnly' <=> TargetInstallsOnly)
            /\ InstallPrefix' = InstallPrefix
        BY <3>1, FixedLoops
      <3>3. Cur' = Cur /\ Present' = Present
        BY <3>1, <3>2 DEF Cur, Present
      <3> QED
        BY <1>2, <3>1, <3>2, <3>3 DEF LoopInv, LoopType, LoopPlace, Running
    <2> QED
      BY <1>2, <2>2, <2>3, <2>4, <2>6, <2>7, <2>8, <2>9, <2>10, <2>11, <2>12 DEF Next
  <1> QED
    BY <1>1, <1>2, ScriptInvariant, PTL DEF Spec

-----------------------------------------------------------------------------
(* The instructions a run meets, in the order of its loops: each by the number of its target *)
(* and its own.                                                                              *)

Positions == {q \in (1 .. Len(Called)) \X (Nat \ {0}) :
                  /\ Called[q[1]] \in Targets /\ q[2] \in DOMAIN installFiles[Called[q[1]]]
                  /\ installFiles[Called[q[1]]][q[2]] # << >>}

\* Those of P the loops have dealt with once they are at m
Until(P, m) == {q \in P : q[1] < m[1] \/ (q[1] = m[1] /\ q[2] <= m[2])}

\* Where the run is
Here == << Cur, Got >>

\* The directory of an instruction, and the file of the target below it
DirUnder(p, instruction) == DirBelow(p, instruction[1])

FileUnder(p, t, instruction) == Append(DirUnder(p, instruction).path, Output[t])

\* The places of the outputs, and the instructions whose outputs uninstall would find
PlaceOf == [q \in Positions |-> Resolve[FileUnder(InstallPrefix, Called[q[1]], installFiles[Called[q[1]]][q[2]])]]

Ready == {q \in Positions :
            /\ DirUnder(InstallPrefix, installFiles[Called[q[1]]][q[2]]).valid
            /\ Exists(FileUnder(InstallPrefix, Called[q[1]], installFiles[Called[q[1]]][q[2]]))}

\* Up to m there is nothing that would stop an uninstall, and what runs have put and not yet
\* taken away is that of the instructions from n to m.
Leaves(m, n) ==
    /\ m[1] <= Len(Called) /\ \A j \in 1 .. m[1] : Called[j] \in Targets
    /\ Until(Positions, m) \ Until(Positions, n) \subseteq Ready
    /\ \A place \in put : \E q \in Until(Positions, m) \ Until(Positions, n) : place = PlaceOf[q]

\* Places in that order
Marks == Nat \X Nat

\* An install that began with nothing installed has put what uninstall will find, up to where
\* it is or has stopped.
InstallInv ==
    command = "-i" /\ clean /\ TargetInstallsOnly =>
        /\ Running => \A m \in Marks : m = Here => Leaves(m, << 0, 0 >>)
        /\ ~Running => \E m \in Marks : Leaves(m, << 0, 0 >>)

\* The uninstall takes that away in the same order.
UninstallInv ==
    undoes /\ TargetInstallsOnly /\ NoneTwice =>
        /\ command = "-u"
        /\ Running => \E m \in Marks : \A n \in Marks : n = Here => Leaves(m, n)
        /\ result \in {"ok", "error", "panic"} => put = {}

-----------------------------------------------------------------------------
\* The next instruction of the same target
LEMMA UntilNext ==
    ASSUME NEW P, P \subseteq Nat \X (Nat \ {0}), NEW c \in Nat, NEW i \in Nat
    PROVE  /\ Until(P, << c, i + 1 >>) = Until(P, << c, i >>) \cup (P \cap {<< c, i + 1 >>})
           /\ << c, i + 1 >> \notin Until(P, << c, i >>)
  <1>1. \A q \in P : q[1] \in Nat /\ q[2] \in Nat /\ q = << q[1], q[2] >>
    OBVIOUS
  <1>2. ASSUME NEW q \in P
        PROVE  q \in Until(P, << c, i + 1 >>) <=> q \in Until(P, << c, i >>) \/ q = << c, i + 1 >>
    BY <1>1 DEF Until
  <1>3. Until(P, << c, i + 1 >>) \subseteq P /\ Until(P, << c, i >>) \subseteq P
    BY DEF Until
  <1>4. << c, i + 1 >> \notin Until(P, << c, i >>)
    BY DEF Until
  <1> QED
    BY <1>2, <1>3, <1>4

\* The next target
LEMMA UntilTarget ==
    ASSUME NEW P, P \subseteq Nat \X (Nat \ {0}), NEW c \in Nat, NEW i \in Nat,
           \A q \in P : q[1] = c => q[2] <= i
    PROVE  Until(P, << c + 1, 0 >>) = Until(P, << c, i >>)
  <1>1. \A q \in P : q[1] \in Nat /\ q[2] \in Nat \ {0}
    OBVIOUS
  <1>2. ASSUME NEW q \in P
        PROVE  q \in Until(P, << c + 1, 0 >>) <=> q \in Until(P, << c, i >>)
    BY <1>1 DEF Until
  <1> QED
    BY <1>2 DEF Until

\* An instruction that is not dealt with at m is behind all that are.
LEMMA UntilOrder ==
    ASSUME NEW P, P \subseteq Nat \X (Nat \ {0}), NEW c \in Nat, NEW i \in Nat, NEW m \in Marks,
           << c, i + 1 >> \in P, << c, i + 1 >> \notin Until(P, m)
    PROVE  Until(P, m) \subseteq Until(P, << c, i >>)
  <1>1. \A q \in P : q[1] \in Nat /\ q[2] \in Nat /\ q = << q[1], q[2] >>
    OBVIOUS
  <1>2. m[1] \in Nat /\ m[2] \in Nat
    BY DEF Marks
  <1>3. ~(c < m[1] \/ (c = m[1] /\ i + 1 <= m[2]))
    BY DEF Until
  <1>4. ASSUME NEW q \in P, q[1] < m[1] \/ (q[1] = m[1] /\ q[2] <= m[2])
        PROVE  q[1] < c \/ (q[1] = c /\ q[2] <= i)
    BY <1>1, <1>2, <1>3, <1>4
  <1> QED
    BY <1>4 DEF Until

-----------------------------------------------------------------------------
(* Where the run is *)

\* The positions are pairs of numbers.
LEMMA PositionsType ==
    ASSUME LoopInv
    PROVE  Positions \subseteq Nat \X (Nat \ {0})
  <1>1. Len(Called) \in Nat
    BY CalledType DEF LoopInv
  <1> QED
    BY <1>1 DEF Positions

\* The run is at an instruction of a target, or before all of them.
LEMMA HereType ==
    ASSUME LoopInv, Running
    PROVE  /\ Here \in Marks /\ Cur \in 0 .. Len(Called) /\ Len(Called) \in Nat
           /\ Cur = 0 => Got = 0 /\ instructions = << >> /\ removals = << >>
           /\ Cur # 0 => /\ target = Called[Cur] /\ target \in Targets
                         /\ installFiles[target] \in Seq(Seq(Texts))
                         /\ IsRest(instructions, installFiles[target])
                         /\ Present \in 0 .. Len(installFiles[target]) /\ Len(installFiles[target]) \in Nat
                         /\ Got \in Nat /\ Present = IF removals = << >> THEN Got ELSE Got + 1
  <1>1. /\ Called \in Seq(Part) /\ todo \in Seq(Part) /\ IsRest(todo, Called) /\ LoopPlace
        /\ instructions \in Seq(Seq(Texts)) /\ \A t \in Targets : installFiles[t] \in Seq(Seq(Texts))
    BY CalledType DEF LoopInv, LoopType, LoopPlace
  <1>2. Cur \in 0 .. Len(Called) /\ Len(Called) \in Nat
    BY <1>1, RestSteps DEF Cur
  <1>3. Cur = 0 => Got = 0 /\ instructions = << >> /\ removals = << >>
    BY <1>1 DEF LoopPlace, Got
  <1>4. ASSUME Cur # 0
        PROVE  /\ target = Called[Cur] /\ target \in Targets /\ installFiles[target] \in Seq(Seq(Texts))
               /\ IsRest(instructions, installFiles[target])
               /\ Present \in 0 .. Len(installFiles[target]) /\ Len(installFiles[target]) \in Nat
               /\ Got \in Nat /\ Present = IF removals = << >> THEN Got ELSE Got + 1
    <2>1. target = Called[Cur] /\ target \in Targets /\ IsRest(instructions, installFiles[target])
          /\ installFiles[target] \in Seq(Seq(Texts))
      BY <1>1, <1>4 DEF LoopPlace
    <2>2. Present \in 0 .. Len(installFiles[target]) /\ Len(installFiles[target]) \in Nat
      BY <1>1, <2>1, RestSteps DEF Present
    <2>3. Got = Present - (IF removals = << >> THEN 0 ELSE 1)
      BY <1>4, <2>1 DEF Got, Present
    <2>4. removals # << >> => Present # 0
      BY <1>1, <2>1 DEF LoopPlace
    <2> QED
      BY <2>1, <2>2, <2>3, <2>4
  <1>5. Here \in Marks
    BY <1>2, <1>3, <1>4 DEF Here, Marks
  <1> QED
    BY <1>2, <1>3, <1>4, <1>5

\* The instruction a loop is at has its position.
LEMMA PresentPosition ==
    ASSUME LoopInv, Running, Cur # 0, NEW k \in DOMAIN installFiles[target], installFiles[target][k] # << >>
    PROVE  << Cur, k >> \in Positions
  <1>1. target = Called[Cur] /\ target \in Targets /\ Cur \in 1 .. Len(Called)
        /\ installFiles[target] \in Seq(Seq(Texts))
    BY HereType
  <1>2. k \in Nat \ {0}
    BY <1>1
  <1> QED
    BY <1>1, <1>2 DEF Positions

-----------------------------------------------------------------------------
(* How the loops move *)

\* What is to be installed, and where, is then the same, and what uninstall finds stays.
LEMMA FixedPlan ==
    ASSUME Fixed
    PROVE  /\ Positions' = Positions /\ PlaceOf' = PlaceOf /\ (NoneTwice' <=> NoneTwice)
           /\ dirs \subseteq dirs' /\ DOMAIN files \subseteq DOMAIN files' => Ready \subseteq Ready'
  <1>1. /\ Called' = Called /\ installFiles' = installFiles /\ InstallPrefix' = InstallPrefix /\ names' = names
    BY FixedLoops
  <1>2. Positions' = Positions
    BY <1>1 DEF Positions
  <1>3. PlaceOf' = PlaceOf
    BY <1>1, <1>2 DEF PlaceOf
  <1>4. NoneTwice' <=> NoneTwice
    BY <1>1 DEF NoneTwice, Steps, Removed, Removals, Chosen
  <1>5. ASSUME dirs \subseteq dirs', DOMAIN files \subseteq DOMAIN files' PROVE Ready \subseteq Ready'
    BY <1>1, <1>2, <1>5 DEF Ready, Exists
  <1> QED
    BY <1>2, <1>3, <1>4, <1>5

\* What is left to be taken away stays when files and directories only become more.
LEMMA LeavesKept ==
    ASSUME Fixed, dirs \subseteq dirs', DOMAIN files \subseteq DOMAIN files', put' = put,
           NEW m \in Marks, NEW n \in Marks, NEW k \in Marks, NEW l \in Marks, Leaves(m, n),
           Until(Positions, k) = Until(Positions, m), Until(Positions, l) = Until(Positions, n),
           k[1] <= Len(Called), \A j \in 1 .. k[1] : Called[j] \in Targets
    PROVE  Leaves(k, l)'
  <1>1. Positions' = Positions /\ PlaceOf' = PlaceOf /\ Ready \subseteq Ready' /\ Called' = Called
    BY FixedPlan, FixedLoops
  <1> QED
    BY <1>1 DEF Leaves

\* NextTarget
LEMMA MovesToTarget ==
    ASSUME LoopInv, NextTarget, Head(todo) \in Targets
    PROVE  /\ Here' = << Cur + 1, 0 >> /\ Cur + 1 \in 1 .. Len(Called) /\ Called[Cur + 1] \in Targets
           /\ Until(Positions, << Cur + 1, 0 >>) = Until(Positions, Here)
  <1>1. /\ Running /\ removals = << >> /\ instructions = << >> /\ todo # << >> /\ Fixed /\ LoopPlace
        /\ todo' = Tail(todo) /\ instructions' = installFiles[Head(todo)] /\ removals' = << >>
    BY DEF NextTarget, Fixed, LoopInv
  <1>2. Called' = Called /\ installFiles' = installFiles
    BY <1>1, FixedLoops
  <1>3. Called \in Seq(Part) /\ todo \in Seq(Part) /\ IsRest(todo, Called) /\ Len(Called) \in Nat
        /\ \A t \in Targets : Len(installFiles[t]) \in Nat
    BY <1>1, CalledType DEF LoopInv, LoopType, LoopPlace
  <1>4. /\ Len(Tail(todo)) = Len(todo) - 1 /\ Cur + 1 \in 1 .. Len(Called) /\ Head(todo) = Called[Cur + 1]
        /\ Len(todo) \in Nat
    BY <1>1, <1>3, RestSteps DEF Cur
  <1>5. Cur' = Cur + 1 /\ Cur \in Nat
    BY <1>1, <1>2, <1>3, <1>4 DEF Cur
  <1>6. Got' = 0
    BY <1>1, <1>2, <1>3, <1>4, <1>5 DEF Got
  <1>7. Here \in Marks /\ Got \in Nat /\ (Cur # 0 => Got = Len(installFiles[Called[Cur]]))
    <2>1. Here \in Marks
      BY <1>1, HereType
    <2>2. Cur # 0 => target = Called[Cur] /\ Present = Got /\ Len(installFiles[target]) \in Nat
      BY <1>1, HereType
    <2> QED
      BY <1>1, <2>1, <2>2 DEF Here, Marks, Present
  <1>8. ASSUME NEW q \in Positions, q[1] = Cur PROVE q[2] <= Got
    <2>1. /\ Cur # 0 /\ q[2] \in DOMAIN installFiles[Called[Cur]]
          /\ Called[Cur] \in Targets
      BY <1>8 DEF Positions
    <2>2. installFiles[Called[Cur]] \in Seq(Seq(Texts))
      BY <2>1, CalledType DEF LoopInv
    <2> QED
      BY <1>7, <2>1, <2>2
  <1>9. Until(Positions, << Cur + 1, 0 >>) = Until(Positions, << Cur, Got >>)
    BY <1>5, <1>7, <1>8, PositionsType, UntilTarget
  <1> QED
    BY <1>4, <1>5, <1>6, <1>9 DEF Here

\* The loop of one target takes its next instruction.
LEMMA MovesToInstruction ==
    ASSUME LoopInv, AtInstruction
    PROVE  /\ Cur # 0 /\ Cur \in Nat /\ Got \in Nat /\ target \in Targets /\ target = Called[Cur]
           /\ Got + 1 \in DOMAIN installFiles[target]
           /\ Head(instructions) = installFiles[target][Got + 1] /\ Head(instructions) \in Seq(Texts)
           /\ Fixed /\ UNCHANGED todo /\ instructions' = Tail(instructions)
              => Here' = << Cur, Got + (IF removals' = << >> THEN 1 ELSE 0) >>
  <1>1. /\ Running /\ removals = << >> /\ instructions # << >> /\ instructions \in Seq(Seq(Texts))
    BY DEF AtInstruction, LoopInv, LoopType
  <1>2. /\ Cur \in 0 .. Len(Called) /\ Cur # 0 /\ target = Called[Cur] /\ target \in Targets
        /\ installFiles[target] \in Seq(Seq(Texts)) /\ Len(Called) \in Nat
        /\ IsRest(instructions, installFiles[target]) /\ Present = Got /\ Present \in Nat
        /\ Len(installFiles[target]) \in Nat
    <2>1. Cur # 0 /\ Running
      BY <1>1, HereType DEF AtInstruction
    <2> QED
      BY <1>1, <2>1, HereType
  <1>3. /\ Len(Tail(instructions)) = Len(instructions) - 1 /\ Present + 1 \in 1 .. Len(installFiles[target])
        /\ Head(instructions) = installFiles[target][Present + 1] /\ Head(instructions) \in Seq(Texts)
        /\ Len(instructions) \in Nat
    BY <1>1, <1>2, RestSteps DEF Present
  <1>4. ASSUME Fixed, UNCHANGED todo, instructions' = Tail(instructions)
        PROVE  Here' = << Cur, Got + (IF removals' = << >> THEN 1 ELSE 0) >>
    <2>1. Called' = Called /\ installFiles' = installFiles
      BY <1>4, FixedLoops
    <2>2. Cur' = Cur
      BY <1>4, <2>1 DEF Cur
    <2>3. Got' = Len(installFiles[target]) - (Len(instructions) - 1) - (IF removals' = << >> THEN 0 ELSE 1)
      BY <1>2, <1>3, <1>4, <2>1, <2>2 DEF Got
    <2>4. Got' = Got + (IF removals' = << >> THEN 1 ELSE 0)
      <3>1. Len(installFiles[target]) - Len(instructions) = Got
        BY <1>2 DEF Present
      <3> QED
        BY <1>2, <1>3, <2>3, <3>1
    <2> QED
      BY <2>2, <2>4 DEF Here
  <1> QED
    BY <1>2, <1>3, <1>4

\* An uninstall of outputs has removed one.
LEMMA MovesToRemoved ==
    ASSUME LoopInv, Running, removals # << >>, TargetInstallsOnly
    PROVE  /\ << Cur, Got + 1 >> \in Positions /\ Cur \in Nat /\ Got \in Nat
           /\ removals = << FileUnder(InstallPrefix, Called[Cur], installFiles[Called[Cur]][Got + 1]) >>
           /\ Fixed /\ UNCHANGED << todo, instructions >> /\ removals' = << >>
              => Here' = << Cur, Got + 1 >>
  <1>1. /\ Cur \in 0 .. Len(Called) /\ Len(Called) \in Nat /\ Here \in Marks
        /\ Cur # 0 => target = Called[Cur] /\ target \in Targets /\ Present = Got + 1
    BY HereType
  <1>2. /\ Cur # 0 /\ Present \in DOMAIN installFiles[target] /\ installFiles[target][Present] # << >>
        /\ removals = RemovalsUnder(InstallPrefix, target, installFiles[target][Present])
    BY DEF LoopInv, LoopPlace
  <1>3. << Cur, Present >> \in Positions
    BY <1>2, PresentPosition
  <1>4. IsTargetInstall(installFiles[target][Present])
    BY <1>1, <1>2, TargetInstruction
  <1>5. removals = << FileUnder(InstallPrefix, target, installFiles[target][Present]) >>
    BY <1>2, <1>4 DEF RemovalsUnder, FileUnder, DirUnder
  <1>6. Cur \in Nat /\ Got \in Nat
    BY <1>1 DEF Here, Marks
  <1>7. ASSUME Fixed, UNCHANGED << todo, instructions >>, removals' = << >>
        PROVE  Here' = << Cur, Got + 1 >>
    <2>1. Called' = Called /\ installFiles' = installFiles
      BY <1>7, FixedLoops
    <2>2. Cur' = Cur
      BY <1>7, <2>1 DEF Cur
    <2>3. Got' = Len(installFiles[Called[Cur]]) - Len(instructions) - 0
      BY <1>2, <1>7, <2>1, <2>2 DEF Got
    <2>4. Got' = Present
      <3>1. Present \in Int
        BY <1>1, <1>2, <1>6
      <3> QED
        BY <1>1, <1>2, <2>3, HereType DEF Present
    <2> QED
      BY <1>1, <1>2, <2>2, <2>4 DEF Here
  <1> QED
    BY <1>1, <1>2, <1>3, <1>5, <1>6, <1>7

-----------------------------------------------------------------------------
(* Texts *)

\* normalizePath makes a path, which ends as its text does.
LEMMA NormalizePathType ==
    ASSUME NEW text, text.parts \in Seq(Part)
    PROVE  LET normal == NormalizePath(text, BuildDir)
               parts == IF text.parts = << >> \/ text.abs THEN text.parts ELSE BuildDir \o text.parts
           IN /\ normal.path \in Seq(Part) /\ parts \in Seq(Part)
              /\ normal.valid /\ parts # << >> /\ ~Special(Last(parts))
                 => normal.path # << >> /\ Last(normal.path) = Last(parts)
  <1> DEFINE parts == IF text.parts = << >> \/ text.abs THEN text.parts ELSE BuildDir \o text.parts
  <1>1. parts \in Seq(Part)
    BY InstallAssumption
  <1> HIDE DEF parts
  <1>2. Ends(parts, 1)
    BY <1>1, NormalizeEnds
  <1>3. NormalizePath(text, BuildDir) = NormalizeFrom[<< parts, 1 >>]
    BY DEF NormalizePath, parts
  <1>4. CASE NormalizeFrom[<< parts, 1 >>] = Invalid
    BY <1>1, <1>3, <1>4 DEF Invalid, parts
  <1>5. CASE NormalizeFrom[<< parts, 1 >>] # Invalid
    <2>1. PICK q \in Seq(Part) :
              /\ NormalizeFrom[<< parts, 1 >>] = Valid(q)
              /\ parts # << >> /\ ~Special(Last(parts)) => q # << >> /\ Last(q) = Last(parts)
      BY <1>2, <1>5 DEF Ends
    <2>2. NormalizePath(text, BuildDir).path = q
      BY <1>3, <2>1 DEF Valid
    <2> QED
      BY <1>1, <2>1, <2>2 DEF parts
  <1> QED
    BY <1>4, <1>5

\* Behind a separator come the parts as they are.
LEMMA ConcatSlash ==
    ASSUME NEW p, NEW q, p.slash
    PROVE  Concat(p, q).parts = p.parts \o q.parts
  BY DEF Concat, Text

\* The paths below the prefix have parts.
LEMMA PrefixParts ==
    ASSUME ScriptInv, NEW t \in Targets, NEW i \in DOMAIN installFiles[t],
           NEW k \in DOMAIN installFiles[t][i]
    PROVE  Concat(InstallPrefix.text, installFiles[t][i][k]).parts \in Seq(Part)
  <1> DEFINE text == installFiles[t][i][k]
  <1>1. text.parts \in Seq(Part)
    BY TextsOfInstructions
  <1>2. CASE destDir # NoText
    <2>1. destDir.parts \in Seq(Part)
      BY <1>2, InstallAssumption DEF ScriptInv, Texts
    <2>2. NormalizePath(destDir, BuildDir).path \in Seq(Part)
      BY <2>1, NormalizePathType
    <2>3. InstallPrefix.text.slash /\ InstallPrefix.text.parts \in Seq(Part)
      BY <1>2, <2>2 DEF InstallPrefix, Text
    <2>4. Concat(InstallPrefix.text, text).parts = InstallPrefix.text.parts \o text.parts
      BY <2>3, ConcatSlash
    <2> QED
      BY <1>1, <2>3, <2>4
  <1>3. CASE destDir = NoText /\ prefix = NoText
    <2>1. InstallPrefix.text.slash /\ InstallPrefix.text.parts = << "usr" >> /\ << "usr" >> \in Seq(Part)
      <3>1. InstallPrefix.text = Text(TRUE, << "usr" >>, TRUE)
        BY <1>3 DEF InstallPrefix, PrefixAsConfigured, ConfiguredPrefix
      <3>2. << "usr" >> \in Seq(Part)
        <4>1. "usr" \in Part
          BY PartAssumption
        <4> QED
          BY <4>1
      <3> QED
        BY <3>1, <3>2 DEF Text
    <2>2. Concat(InstallPrefix.text, text).parts = InstallPrefix.text.parts \o text.parts
      BY <2>1, ConcatSlash
    <2> QED
      BY <1>1, <2>1, <2>2
  <1>4. CASE destDir = NoText /\ prefix # NoText
    <2>1. InstallPrefix.text = prefix /\ prefix \in InstallPrefixes
      BY <1>4 DEF InstallPrefix, PrefixAsConfigured, ConfiguredPrefix, ScriptInv
    <2>2. installFiles[t][i] \in Instructions
      <3>1. installFiles[t][i] \in ToSet(installFiles[t])
        BY DEF ToSet
      <3>2. installFiles \in Scripts
        BY DEF ScriptInv
      <3>3. ToSet(installFiles[t]) \in {ToSet(s[x]) : s \in Scripts, x \in Targets}
        BY <3>2
      <3> QED
        BY <3>1, <3>3 DEF Instructions
    <2> QED
      BY <2>1, <2>2, GlueAssumption
  <1> QED
    BY <1>2, <1>3, <1>4

\* The output of a target ends with its name.
LEMMA OutputEnds ==
    ASSUME NEW t \in Targets, NormalizePath(OutputText(t), BuildDir).valid
    PROVE  /\ NormalizePath(OutputText(t), BuildDir).path # << >>
           /\ Last(NormalizePath(OutputText(t), BuildDir).path) = Output[t]
           /\ Output[t] \in Part /\ ~Special(Output[t])
  <1>1. Output[t] \in Part /\ ~Special(Output[t]) /\ Dir[t] \in Seq(Part) /\ BuildDir \in Seq(Part)
    BY InstallAssumption
  <1>2. << Output[t] >> \in Seq(Part) /\ << Output[t] >> # << >> /\ Last(<< Output[t] >>) = Output[t]
    BY <1>1 DEF Last
  <1> DEFINE q == Dir[t] \o << Output[t] >>
             p == BuildDir \o q
  <1>3. q \in Seq(Part) /\ q # << >> /\ Last(q) = Output[t]
    <2>1. Dir[t] \o << Output[t] >> # << >> /\ Last(Dir[t] \o << Output[t] >>) = Last(<< Output[t] >>)
      <3>1. \A b \in Seq(Part) : b # << >> => Dir[t] \o b # << >> /\ Last(Dir[t] \o b) = Last(b)
        BY <1>1, LastOfConcat
      <3> QED
        BY <1>2, <3>1
    <2>2. Dir[t] \o << Output[t] >> \in Seq(Part)
      BY <1>1, <1>2, ConcatProperties
    <2> QED
      BY <1>2, <2>1, <2>2
  <1>4. p # << >> /\ Last(p) = Output[t]
    <2> HIDE DEF q
    <2> QED
      BY <1>1, <1>3, LastOfConcat
  <1>5. OutputText(t).parts = q /\ OutputText(t).abs = FALSE
    BY DEF OutputText, Text
  <1> HIDE DEF q
  <1>6. p = IF OutputText(t).parts = << >> \/ OutputText(t).abs THEN OutputText(t).parts
            ELSE BuildDir \o OutputText(t).parts
    BY <1>3, <1>5
  <1> QED
    BY <1>1, <1>3, <1>4, <1>5, <1>6, NormalizePathType

-----------------------------------------------------------------------------
(* install *)

\* The way to a place with one part more
LEMMA AncestorsAppend ==
    ASSUME NEW p \in Seq(Part), NEW x \in Part
    PROVE  Ancestors(Append(p, x)) = Ancestors(p) \cup {Resolve[p]}
  <1> DEFINE s == Append(p, x)
  <1>1. s \in Seq(Part) /\ Len(s) = Len(p) + 1 /\ Len(p) \in Nat
        /\ \A i \in 1 .. Len(p) : s[i] = p[i]
    BY AppendProperties
  <1> HIDE DEF s
  <1>2. ASSUME NEW k \in 0 .. Len(p) PROVE SubSeq(s, 1, k) = SubSeq(p, 1, k)
    <2>1. /\ SubSeq(s, 1, k) \in Seq(Part) /\ Len(SubSeq(s, 1, k)) = k
          /\ \A i \in 1 .. k : SubSeq(s, 1, k)[i] = s[i]
      <3>1. \A i \in 1 .. k : s[i] \in Part
        BY <1>1
      <3> QED
        BY <1>1, <3>1, SubSeqProperties
    <2>2. /\ SubSeq(p, 1, k) \in Seq(Part) /\ Len(SubSeq(p, 1, k)) = k
          /\ \A i \in 1 .. k : SubSeq(p, 1, k)[i] = p[i]
      <3>1. \A i \in 1 .. k : p[i] \in Part
        BY <1>1
      <3> QED
        BY <1>1, <3>1, SubSeqProperties
    <2>3. \A i \in 1 .. k : s[i] = p[i]
      BY <1>1
    <2> DEFINE u == SubSeq(s, 1, k)
               v == SubSeq(p, 1, k)
    <2> HIDE DEF u, v
    <2>4. u \in Seq(Part) /\ v \in Seq(Part) /\ Len(u) = Len(v) /\ \A i \in 1 .. Len(u) : u[i] = v[i]
      BY <2>1, <2>2, <2>3 DEF u, v
    <2>5. u = v
      BY <2>4, SeqEqual
    <2> QED
      BY <2>5 DEF u, v
  <1>3. Ancestors(s) = {Resolve[SubSeq(p, 1, k)] : k \in 0 .. Len(p)}
    <2>1. Len(s) - 1 = Len(p)
      BY <1>1
    <2> QED
      BY <1>2, <2>1 DEF Ancestors
  <1>4. SubSeq(p, 1, Len(p)) = p
    BY SubSeqFull
  <1>5. {Resolve[SubSeq(p, 1, k)] : k \in 0 .. Len(p)} = Ancestors(p) \cup {Resolve[p]}
    <2>1. \A k : k \in 0 .. Len(p) <=> k \in 0 .. Len(p) - 1 \/ k = Len(p)
      BY <1>1
    <2> QED
      BY <1>4, <2>1 DEF Ancestors
  <1> QED
    BY <1>3, <1>5 DEF s

\* An install that succeeds has made all directories on its way.
LEMMA MakesAll ==
    ASSUME NEW to \in Seq(Part), Ancestors(to) \cap DOMAIN files = {}
    PROVE  MadeFor(to) = Ancestors(to)
  <1>1. \A k \in 0 .. Len(to) - 1 : Resolve[SubSeq(to, 1, k)] \notin DOMAIN files
    BY DEF Ancestors
  <1>2. \A k \in 0 .. Len(to) - 1 : \A j \in 0 .. k : j \in 0 .. Len(to) - 1
    OBVIOUS
  <1> QED
    BY <1>1, <1>2 DEF MadeFor, Ancestors

\* Installing the output of a target leaves what its uninstall looks for.
LEMMA InstallsOutput ==
    ASSUME ScriptInv, NEW t \in Targets, NEW i \in DOMAIN installFiles[t],
           installFiles[t][i] # << >>, IsTargetInstall(installFiles[t][i]),
           Source(t, installFiles[t][i]).valid, Dest(t, installFiles[t][i]).valid,
           RunInstall(Source(t, installFiles[t][i]).path, Dest(t, installFiles[t][i]).path,
                      DestIsFile(installFiles[t][i])),
           Installs(Source(t, installFiles[t][i]).path, Dest(t, installFiles[t][i]).path,
                    DestIsFile(installFiles[t][i]))
    PROVE  LET path == FileUnder(InstallPrefix, t, installFiles[t][i])
           IN /\ DirUnder(InstallPrefix, installFiles[t][i]).valid
              /\ Ancestors(path) \subseteq dirs' /\ Resolve[path] \in DOMAIN files'
              /\ put' = put \cup {Resolve[path]}
              /\ dirs \subseteq dirs' /\ DOMAIN files \subseteq DOMAIN files'
  <1> DEFINE ins == installFiles[t][i]
             from == Source(t, ins).path
             to == Dest(t, ins).path
  <1>1. DestIsFile(ins) = FALSE /\ 1 \in DOMAIN ins
    <2>1. ins \in Seq(Texts)
      BY TextsOfInstructions
    <2> QED
      BY <2>1 DEF IsTargetInstall, DestIsFile
  <1>2. Dest(t, ins) = DirUnder(InstallPrefix, ins)
    BY <1>1 DEF Dest, DirUnder
  <1>3. to \in Seq(Part)
    <2>1. Concat(InstallPrefix.text, ins[1]).parts \in Seq(Part)
      BY <1>1, PrefixParts
    <2> QED
      BY <1>2, <2>1, NormalizePathType DEF DirUnder, DirBelow, Invalid
  <1>4. Last(from) = Output[t] /\ Output[t] \in Part /\ ~Special(Output[t])
    <2>1. Source(t, ins) = NormalizePath(OutputText(t), BuildDir)
      BY DEF Source
    <2> QED
      BY <2>1, OutputEnds
  <1>5. Resolve[to] \in dirs /\ Place(from, to, FALSE) = Append(Resolve[to], Output[t])
        /\ Ancestors(to) \cap DOMAIN files = {}
    BY <1>1, <1>4 DEF Installs, Place
  <1>6. Resolve[Append(to, Output[t])] = Append(Resolve[to], Output[t])
    BY <1>3, <1>4, ResolveUnfolds DEF Enter, Special
  <1>7. /\ dirs' = dirs \cup Ancestors(to) /\ put' = put \cup {Append(Resolve[to], Output[t])}
        /\ DOMAIN files' = DOMAIN files \cup {Append(Resolve[to], Output[t])}
    <2>1. MadeFor(to) = Ancestors(to)
      BY <1>3, <1>5, MakesAll
    <2>2. /\ dirs' = dirs \cup MadeFor(to) /\ put' = put \cup {Place(from, to, FALSE)}
          /\ files' = Holding(Place(from, to, FALSE), files[Resolve[from]])
      BY <1>1 DEF RunInstall
    <2> QED
      BY <1>5, <2>1, <2>2 DEF Holding
  <1>8. Ancestors(Append(to, Output[t])) \subseteq dirs'
    <2> HIDE DEF to
    <2>1. Ancestors(Append(to, Output[t])) = Ancestors(to) \cup {Resolve[to]}
      BY <1>3, <1>4, AncestorsAppend
    <2> QED
      BY <1>5, <1>7, <2>1
  <1> QED
    BY <1>2, <1>6, <1>7, <1>8 DEF FileUnder

-----------------------------------------------------------------------------
(* An uninstall takes away what the install before it has put. *)

\* An instruction of a target's output is where LeavesKept and InstallsOutput say.
LEMMA PlaceOfOutput ==
    ASSUME NEW q \in Positions
    PROVE  PlaceOf[q] = Resolve[FileUnder(InstallPrefix, Called[q[1]], installFiles[Called[q[1]]][q[2]])]
  BY DEF PlaceOf

\* No two instructions remove the same file.
LEMMA PlacesApart ==
    ASSUME LoopInv, TargetInstallsOnly, NoneTwice,
           NEW q \in Positions, NEW r \in Positions, PlaceOf[q] = PlaceOf[r]
    PROVE  q = r
  <1>1. \A s \in Positions :
            /\ s[1] \in DOMAIN Called /\ Called[s[1]] \in Targets /\ s[2] \in DOMAIN installFiles[Called[s[1]]]
            /\ installFiles[Called[s[1]]][s[2]] # << >> /\ s = << s[1], s[2] >>
    <2>1. Called \in Seq(Part)
      BY CalledType DEF LoopInv
    <2> QED
      BY <2>1 DEF Positions
  <1>2. \A s \in Positions : Called[s[1]] \in Chosen
    <2> SUFFICES ASSUME NEW s \in Positions PROVE Called[s[1]] \in Chosen
      OBVIOUS
    <2>1. CASE names = << >>
      BY <1>1, <2>1 DEF Chosen
    <2>2. CASE names # << >>
      BY <1>1, <2>2 DEF Chosen, Called, ToSet
    <2> QED
      BY <2>1, <2>2
  <1>3. \A s \in Positions : << Called[s[1]], s[2] >> \in Steps
    <2> SUFFICES ASSUME NEW s \in Positions PROVE << Called[s[1]], s[2] >> \in Steps
      OBVIOUS
    <2> DEFINE t == Called[s[1]]
    <2>1. << t, s[2] >> \in {t} \X {k \in DOMAIN installFiles[t] : installFiles[t][k] # << >>}
      BY <1>1
    <2> QED
      BY <1>2, <2>1 DEF Steps
  <1>4. \A s \in Positions : Removed(<< Called[s[1]], s[2] >>) = PlaceOf[s]
    <2> SUFFICES ASSUME NEW s \in Positions PROVE Removed(<< Called[s[1]], s[2] >>) = PlaceOf[s]
      OBVIOUS
    <2> DEFINE t == Called[s[1]]
    <2>1. IsTargetInstall(installFiles[t][s[2]])
      BY <1>1, TargetInstruction
    <2>2. Removals(t, installFiles[t][s[2]]) = << FileUnder(InstallPrefix, t, installFiles[t][s[2]]) >>
      BY <2>1 DEF Removals, FileUnder, DirUnder
    <2>3. Removed(<< t, s[2] >>) = Resolve[FileUnder(InstallPrefix, t, installFiles[t][s[2]])]
      BY <2>2 DEF Removed
    <2> QED
      BY <2>3, PlaceOfOutput
  <1>5. << Called[q[1]], q[2] >> = << Called[r[1]], r[2] >>
    BY <1>3, <1>4 DEF NoneTwice
  <1>6. IsInjective(Called)
    BY InstallAssumption DEF Called, NoneTwice
  <1>7. q[1] = r[1] /\ q[2] = r[2]
    BY <1>1, <1>5, <1>6 DEF IsInjective
  <1> QED
    BY <1>1, <1>7

\* Steps that leave the files, and what is put, to others
LEMMA InstallStays ==
    ASSUME LoopInv, InstallInv, Fixed, dirs \subseteq dirs', DOMAIN files \subseteq DOMAIN files',
           put' = put, UNCHANGED << command, clean >>,
           Running' => Running /\ Until(Positions, Here') = Until(Positions, Here)
                       /\ Here' \in Marks /\ Here'[1] <= Len(Called)
                       /\ (command = "-i" => \A j \in 1 .. Here'[1] : j <= Cur \/ Called[j] \in Targets)
    PROVE  InstallInv'
  <1> SUFFICES ASSUME command = "-i", clean, TargetInstallsOnly
               PROVE  /\ Running' => \A m \in Marks : m = Here' => Leaves(m, << 0, 0 >>)'
                      /\ ~Running' => \E m \in Marks : Leaves(m, << 0, 0 >>)'
    <2>1. TargetInstallsOnly' => TargetInstallsOnly
      BY FixedLoops
    <2> QED
      BY <2>1 DEF InstallInv
  <1>0. << 0, 0 >> \in Marks
    BY DEF Marks
  <1>1. Running => Leaves(Here, << 0, 0 >>) /\ Here \in Marks
    BY HereType DEF InstallInv
  <1>2. PICK n \in Marks : Leaves(n, << 0, 0 >>) /\ (Running => n = Here)
    BY <1>1 DEF InstallInv
  <1>3. n[1] <= Len(Called) /\ \A j \in 1 .. n[1] : Called[j] \in Targets
    BY <1>2 DEF Leaves
  <1>4. ASSUME Running', NEW m \in Marks, m = Here' PROVE Leaves(m, << 0, 0 >>)'
    <2>1. Until(Positions, m) = Until(Positions, n) /\ m[1] <= Len(Called)
      BY <1>2, <1>4
    <2>2. \A j \in 1 .. m[1] : Called[j] \in Targets
      <3>1. n[1] = Cur /\ Cur \in Nat
        BY <1>2, <1>4, HereType DEF Here
      <3>2. \A j \in 1 .. m[1] : j \in 1 .. n[1] \/ Called[j] \in Targets
        BY <1>4, <3>1
      <3> QED
        BY <1>3, <3>2
    <2> QED
      BY <1>0, <1>2, <2>1, <2>2, LeavesKept
  <1>5. Leaves(n, << 0, 0 >>)'
    BY <1>0, <1>2, <1>3, LeavesKept
  <1> QED
    BY <1>4, <1>5

\* The same, for an uninstall
LEMMA UninstallStays ==
    ASSUME LoopInv, UninstallInv, Fixed, dirs \subseteq dirs', DOMAIN files \subseteq DOMAIN files',
           put' = put, UNCHANGED << command, undoes >>,
           Running' => Running /\ Until(Positions, Here') = Until(Positions, Here) /\ Here' \in Marks,
           result' \in {"ok", "error", "panic"} => result' = result \/ put = {}
                                                   \/ ~(undoes /\ TargetInstallsOnly /\ NoneTwice)
    PROVE  UninstallInv'
  <1> SUFFICES ASSUME undoes, TargetInstallsOnly, NoneTwice
               PROVE  /\ command = "-u"
                      /\ Running' => \E m \in Marks : \A n \in Marks : n = Here' => Leaves(m, n)'
                      /\ result' \in {"ok", "error", "panic"} => put = {}
    <2>1. (TargetInstallsOnly' => TargetInstallsOnly) /\ (NoneTwice' => NoneTwice)
      BY FixedLoops, FixedPlan
    <2> QED
      BY <2>1 DEF UninstallInv
  <1>1. command = "-u" /\ (result' \in {"ok", "error", "panic"} => put = {})
    BY DEF UninstallInv
  <1>2. ASSUME Running' PROVE \E m \in Marks : \A n \in Marks : n = Here' => Leaves(m, n)'
    <2>1. Running /\ Until(Positions, Here') = Until(Positions, Here) /\ Here \in Marks
      BY <1>2, HereType
    <2>2. PICK l \in Marks : l = Here
      BY <2>1
    <2>3. PICK m \in Marks : Leaves(m, l)
      BY <2>1, <2>2 DEF UninstallInv
    <2>4. m[1] <= Len(Called) /\ \A j \in 1 .. m[1] : Called[j] \in Targets
      BY <2>3 DEF Leaves
    <2>5. ASSUME NEW n \in Marks, n = Here' PROVE Leaves(m, n)'
      <3>1. Until(Positions, n) = Until(Positions, l)
        BY <2>1, <2>2, <2>5
      <3> QED
        BY <2>3, <2>4, <3>1, LeavesKept
    <2> QED
      BY <2>5
  <1> QED
    BY <1>1, <1>2

\* Once all that is to be taken away is behind the loops, nothing is left.
LEMMA UninstallEnds ==
    ASSUME LoopInv, UninstallInv, Running, undoes, TargetInstallsOnly, NoneTwice,
           \A m \in Marks : Leaves(m, Here) => Until(Positions, m) \subseteq Until(Positions, Here)
    PROVE  put = {}
  <1>1. PICK m \in Marks : Leaves(m, Here)
    BY HereType DEF UninstallInv
  <1> QED
    BY <1>1 DEF Leaves

\* All instructions of the targets up to the present one are done.
LEMMA TargetDone ==
    ASSUME LoopInv, Running, instructions = << >>, removals = << >>,
           NEW q \in Positions, q[1] <= Cur
    PROVE  q \in Until(Positions, Here)
  <1>1. q[1] \in Nat \ {0} /\ q[2] \in DOMAIN installFiles[Called[q[1]]] /\ Called[q[1]] \in Targets
    BY PositionsType, HereType DEF Positions
  <1>2. Cur \in Nat /\ Cur # 0
    BY <1>1, HereType
  <1>3. Got = Len(installFiles[Called[Cur]]) /\ installFiles[Called[Cur]] \in Seq(Seq(Texts))
    BY <1>2, HereType DEF Present
  <1>4. q[1] = Cur => q[2] <= Got
    BY <1>1, <1>3
  <1> QED
    BY <1>1, <1>2, <1>4 DEF Until, Here

\* The instruction that cannot be undone is behind all that have been installed.
LEMMA StopsBehind ==
    ASSUME LoopInv, Running, << Cur, Got + 1 >> \in Positions, << Cur, Got + 1 >> \notin Ready,
           NEW m \in Marks, Leaves(m, Here)
    PROVE  Until(Positions, m) \subseteq Until(Positions, Here)
  <1>1. Cur \in Nat /\ Got \in Nat
    BY HereType DEF Here, Marks
  <1>2. << Cur, Got + 1 >> \notin Until(Positions, Here)
    BY <1>1, PositionsType, UntilNext DEF Here
  <1>3. << Cur, Got + 1 >> \notin Until(Positions, m)
    BY <1>2 DEF Leaves
  <1> QED
    BY <1>1, <1>3, PositionsType, UntilOrder DEF Here

\* OS::install of an output
LEMMA InstallFileKeeps ==
    ASSUME LoopInv, InstallInv, UninstallInv, InstallFile
    PROVE  InstallInv' /\ UninstallInv'
  <1>1. /\ AtInstruction /\ Running /\ Head(instructions) # << >> /\ command = "-i" /\ Fixed
        /\ UNCHANGED << command, clean, undoes >>
    BY DEF InstallFile, AtInstruction, Fixed
  <1>2. UninstallInv'
    <2>1. (TargetInstallsOnly' <=> TargetInstallsOnly) /\ (NoneTwice' <=> NoneTwice)
      BY <1>1, FixedLoops, FixedPlan
    <2> QED
      BY <1>1, <2>1 DEF UninstallInv
  <1> DEFINE ins == Head(instructions)
             from == Source(target, ins)
             to == Dest(target, ins)
             success == from.valid /\ to.valid /\ Installs(from.path, to.path, DestIsFile(ins))
  <1>3. CASE ~success
    <2>1. /\ dirs \subseteq dirs' /\ UNCHANGED << files, put >> /\ ~Running'
      BY <1>3 DEF InstallFile, RunInstall, Throw, Stop, disk, Running
    <2> QED
      BY <1>1, <1>2, <2>1, InstallStays
  <1>4. CASE success
    <2>1. /\ RunInstall(from.path, to.path, DestIsFile(ins)) /\ from.valid /\ to.valid
          /\ Installs(from.path, to.path, DestIsFile(ins))
          /\ instructions' = Tail(instructions) /\ UNCHANGED << todo, target, removals, result >>
      BY <1>4 DEF InstallFile
    <2> DEFINE k == Got + 1
    <2>2. /\ Cur # 0 /\ Cur \in Nat /\ Got \in Nat /\ target \in Targets /\ target = Called[Cur]
          /\ k \in DOMAIN installFiles[target] /\ ins = installFiles[target][k] /\ Here' = << Cur, k >>
          /\ Cur <= Len(Called)
      <3>1. removals' = << >>
        BY <1>1, <2>1 DEF AtInstruction
      <3> QED
        BY <1>1, <2>1, <3>1, MovesToInstruction, HereType
    <2> SUFFICES ASSUME clean, TargetInstallsOnly, NEW m \in Marks, m = Here' PROVE Leaves(m, << 0, 0 >>)'
      <3>1. Running' /\ (TargetInstallsOnly' => TargetInstallsOnly) /\ (clean' => clean)
        BY <1>1, <2>1, FixedLoops DEF Running
      <3> QED
        BY <1>2, <3>1 DEF InstallInv
    <2> DEFINE p == << Cur, k >>
    <2>3. p \in Positions
      BY <1>1, <2>2, PresentPosition
    <2>4. IsTargetInstall(installFiles[target][k]) /\ installFiles[target][k] # << >>
      BY <1>1, <2>2, TargetInstruction
    <2> DEFINE path == FileUnder(InstallPrefix, target, installFiles[target][k])
    <2>5. /\ DirUnder(InstallPrefix, installFiles[target][k]).valid
          /\ Ancestors(path) \subseteq dirs' /\ Resolve[path] \in DOMAIN files'
          /\ put' = put \cup {Resolve[path]}
          /\ dirs \subseteq dirs' /\ DOMAIN files \subseteq DOMAIN files'
      <3> HIDE DEF k
      <3>1. ScriptInv
        BY DEF LoopInv
      <3> QED
        BY <2>1, <2>2, <2>4, <3>1, InstallsOutput
    <2>6. Resolve[path] = PlaceOf[p]
      BY <2>2, <2>3, PlaceOfOutput
    <2>7. /\ Called' = Called /\ installFiles' = installFiles /\ InstallPrefix' = InstallPrefix
          /\ Positions' = Positions /\ PlaceOf' = PlaceOf /\ Ready \subseteq Ready'
      BY <1>1, <2>5, FixedLoops, FixedPlan
    <2>8. p \in Ready'
      BY <2>2, <2>3, <2>5, <2>7 DEF Ready, Exists
    <2>9. Until(Positions, m) = Until(Positions, Here) \cup {p}
      <3>1. Until(Positions, << Cur, Got + 1 >>)
                = Until(Positions, << Cur, Got >>) \cup (Positions \cap {<< Cur, Got + 1 >>})
        BY <2>2, PositionsType, UntilNext
      <3> QED
        BY <2>2, <2>3, <3>1 DEF Here
    <2>10. Until(Positions, << 0, 0 >>) = {}
      <3>1. \A q \in Positions : q[1] \in Nat \ {0}
        BY PositionsType, HereType, <1>1 DEF Positions
      <3> QED
        BY <3>1 DEF Until
    <2>11. Leaves(Here, << 0, 0 >>)
      BY <1>1, HereType DEF InstallInv
    <2>12. m[1] <= Len(Called) /\ \A j \in 1 .. m[1] : Called[j] \in Targets
      BY <2>2, <2>11 DEF Leaves, Here
    <2>13. Until(Positions, m) \ Until(Positions, << 0, 0 >>) \subseteq Ready'
      BY <2>7, <2>8, <2>9, <2>10, <2>11 DEF Leaves
    <2>14. \A place \in put' : \E q \in Until(Positions, m) \ Until(Positions, << 0, 0 >>) : place = PlaceOf[q]
      BY <2>5, <2>6, <2>9, <2>10, <2>11 DEF Leaves
    <2> HIDE DEF p, k, path
    <2> QED
      BY <2>7, <2>12, <2>13, <2>14 DEF Leaves
  <1> QED
    BY <1>3, <1>4

\* OS::uninstall of an output
LEMMA UninstallFileKeeps ==
    ASSUME LoopInv, InstallInv, UninstallInv, UninstallFile
    PROVE  InstallInv' /\ UninstallInv'
  <1>1. /\ Running /\ removals # << >> /\ Fixed /\ UNCHANGED << command, clean, undoes, dirs >> /\ command = "-u"
    BY DEF UninstallFile, Fixed, LoopInv, LoopPlace
  <1>2. InstallInv'
    BY <1>1 DEF InstallInv
  <1> SUFFICES ASSUME undoes, TargetInstallsOnly, NoneTwice
               PROVE  /\ Running' => \E m \in Marks : \A n \in Marks : n = Here' => Leaves(m, n)'
                      /\ result' \in {"ok", "error", "panic"} => put' = {}
    <2>1. (TargetInstallsOnly' => TargetInstallsOnly) /\ (NoneTwice' => NoneTwice)
      BY <1>1, FixedLoops, FixedPlan
    <2> QED
      BY <1>1, <1>2, <2>1 DEF UninstallInv
  <1> DEFINE p == << Cur, Got + 1 >>
             path == FileUnder(InstallPrefix, Called[Cur], installFiles[Called[Cur]][Got + 1])
  <1>3. /\ p \in Positions /\ Cur \in Nat /\ Got \in Nat /\ removals = << path >>
        /\ Fixed /\ UNCHANGED << todo, instructions >> /\ removals' = << >> => Here' = p
    BY <1>1, MovesToRemoved
  <1>4. PlaceOf[p] = Resolve[path]
    BY <1>3, PlaceOfOutput
  <1>5. CASE ~Exists(path)
    <2>1. p \notin Ready
      BY <1>3, <1>5 DEF Ready
    <2>2. put = {}
      BY <1>1, <1>3, <2>1, StopsBehind, UninstallEnds
    <2>3. put' = put /\ ~Running'
      BY <1>3, <1>5 DEF UninstallFile, Throw, Stop, Running
    <2> QED
      BY <2>2, <2>3
  <1>6. CASE Exists(path)
    <2> HIDE DEF path, p
    <2>1. /\ removals' = << >> /\ files' = [place \in DOMAIN files \ {Resolve[path]} |-> files[place]]
          /\ put' = put \ {Resolve[path]} /\ UNCHANGED << todo, instructions, result >>
      BY <1>3, <1>6 DEF UninstallFile
    <2>2. Running' /\ Here' = p
      BY <1>1, <1>3, <2>1 DEF Running
    <2>3. /\ Called' = Called /\ installFiles' = installFiles /\ InstallPrefix' = InstallPrefix
          /\ Positions' = Positions /\ PlaceOf' = PlaceOf
      BY <1>1, FixedLoops, FixedPlan
    <2>4. PICK m \in Marks : Leaves(m, Here)
      BY <1>1, HereType DEF UninstallInv
    <2>5. m[1] <= Len(Called) /\ \A j \in 1 .. m[1] : Called[j] \in Targets
      BY <2>4 DEF Leaves
    <2>6. Until(Positions, p) = Until(Positions, Here) \cup {p}
      <3>1. Until(Positions, << Cur, Got + 1 >>)
                = Until(Positions, << Cur, Got >>) \cup (Positions \cap {<< Cur, Got + 1 >>})
        <4>1. Cur \in Nat /\ Got \in Nat /\ Positions \subseteq Nat \X (Nat \ {0})
          BY <1>3, PositionsType
        <4> QED
          BY <4>1, UntilNext
      <3> QED
        BY <1>3, <3>1 DEF Here, p
    <2>7. \A q \in Positions \ {p} : PlaceOf[q] # Resolve[path]
      BY <1>3, <1>4, PlacesApart
    <2>8. Ready \ {p} \subseteq Ready'
      <3> SUFFICES ASSUME NEW q \in Ready, q # p PROVE q \in Ready'
        OBVIOUS
      <3> DEFINE file == FileUnder(InstallPrefix, Called[q[1]], installFiles[Called[q[1]]][q[2]])
      <3>1. q \in Positions /\ Ancestors(file) \subseteq dirs /\ Resolve[file] \in DOMAIN files
            /\ DirUnder(InstallPrefix, installFiles[Called[q[1]]][q[2]]).valid
        BY DEF Ready, Exists
      <3>2. Resolve[file] = PlaceOf[q]
        BY <3>1, PlaceOfOutput
      <3>3. Resolve[file] \in DOMAIN files' /\ Ancestors(file) \subseteq dirs'
        BY <1>1, <2>1, <2>7, <3>1, <3>2
      <3> QED
        BY <2>3, <3>1, <3>3 DEF Ready, Exists
    <2>9. \A place \in put : \E q \in Until(Positions, m) \ Until(Positions, Here) : place = PlaceOf[q]
      BY <2>4 DEF Leaves
    <2>10. Until(Positions, m) \ Until(Positions, Here) \subseteq Ready
      BY <2>4 DEF Leaves
    <2>11. \A place \in put' : \E q \in Until(Positions, m) \ Until(Positions, p) : place = PlaceOf[q]
      BY <1>4, <2>1, <2>6, <2>9
    <2>12. Until(Positions, m) \ Until(Positions, p) \subseteq Ready'
      BY <2>6, <2>8, <2>10
    <2>13. ASSUME NEW n \in Marks, n = Here' PROVE Leaves(m, n)'
      BY <2>2, <2>3, <2>5, <2>11, <2>12, <2>13 DEF Leaves
    <2>14. result' \notin {"ok", "error", "panic"}
      BY <2>2 DEF Running
    <2> QED
      BY <2>13, <2>14
  <1> QED
    BY <1>5, <1>6

\* The names on the command line are a sequence.
LEMMA CalledOfLoop == LoopInv => Called \in Seq(Part) /\ Len(Called) \in Nat
  BY CalledType DEF LoopInv

\* The invariants of installs and uninstalls
LEMMA UndoInvariant == Spec => [](InstallInv /\ UninstallInv)
  <1>1. Init => InstallInv /\ UninstallInv
    <2> SUFFICES ASSUME Init PROVE InstallInv /\ UninstallInv
      OBVIOUS
    <2>1. Leaves(<< 0, 0 >>, << 0, 0 >>) /\ << 0, 0 >> \in Marks
      <3>1. put = {} /\ Len(Called) \in Nat
        BY InstallAssumption DEF Init, Called
      <3> QED
        BY <3>1 DEF Leaves, Marks
    <2>2. ~Running /\ undoes = FALSE
      BY DEF Init, Running
    <2> QED
      BY <2>1, <2>2 DEF InstallInv, UninstallInv
  <1>2. ASSUME LoopInv, LoopInv', InstallInv, UninstallInv, [Next]_vars PROVE InstallInv' /\ UninstallInv'
    <2>1. CASE Start
      <3>1. Here' = << 0, 0 >> /\ ~Running /\ Running' /\ result' = "running" /\ UNCHANGED << disk, put, script >>
        <4>1. todo' = Called'
          BY <2>1 DEF Start, Called
        <4>2. Called' \in Seq(Part)
          <5>1. (LoopInv => Called \in Seq(Part) /\ Len(Called) \in Nat)'
            BY CalledOfLoop, PTL
          <5> QED
            BY <1>2, <5>1
        <4>3. Cur' = 0
          BY <4>1, <4>2 DEF Cur
        <4> QED
          BY <2>1, <4>3 DEF Here, Got, Start, Running
      <3>2. InstallInv'
        <4> SUFFICES ASSUME clean', NEW m \in Marks, m = << 0, 0 >> PROVE Leaves(m, << 0, 0 >>)'
          BY <3>1 DEF InstallInv
        <4>1. put' = {}
          BY <2>1, <3>1 DEF Start
        <4>2. Len(Called') \in Nat
          <5>1. (LoopInv => Called \in Seq(Part) /\ Len(Called) \in Nat)'
            BY CalledOfLoop, PTL
          <5> QED
            BY <1>2, <5>1
        <4> QED
          BY <4>1, <4>2 DEF Leaves
      <3>3. UninstallInv'
        <4> SUFFICES ASSUME undoes', TargetInstallsOnly'
                     PROVE  /\ command' = "-u"
                            /\ \E m \in Marks : \A n \in Marks : n = Here' => Leaves(m, n)'
          BY <3>1 DEF UninstallInv
        <4>1. command = "-i" /\ command' = "-u" /\ clean /\ names' = names /\ destDir' = destDir
          BY <2>1 DEF Start
        <4>2. Fixed
          BY <3>1, <4>1 DEF Fixed
        <4>3. TargetInstallsOnly
          BY <4>2, FixedLoops
        <4>4. PICK m \in Marks : Leaves(m, << 0, 0 >>)
          BY <1>2, <3>1, <4>1, <4>3 DEF InstallInv
        <4>5. m[1] <= Len(Called) /\ \A j \in 1 .. m[1] : Called[j] \in Targets
          BY <4>4 DEF Leaves
        <4>6. Leaves(m, << 0, 0 >>)'
          <5>1. << 0, 0 >> \in Marks /\ files' = files /\ dirs' = dirs /\ put' = put
            BY <3>1 DEF Marks, disk
          <5> QED
            BY <4>2, <4>4, <4>5, <5>1, LeavesKept
        <4> QED
          BY <3>1, <4>1, <4>6
      <3> QED
        BY <3>2, <3>3
    <2>2. CASE Make
      <3>1. /\ Fixed /\ dirs' = dirs /\ put' = put /\ UNCHANGED << command, clean, undoes >>
            /\ ~Running' /\ result' = "none"
        BY <2>2 DEF Make, Fixed, history, Running
      <3>2. DOMAIN files \subseteq DOMAIN files'
        <4>1. PICK place, content : files' = Holding(place, content)
          BY <2>2 DEF Make
        <4> QED
          BY <4>1 DEF Holding
      <3>3. InstallInv'
        BY <1>2, <3>1, <3>2, InstallStays
      <3>4. UninstallInv'
        BY <1>2, <3>1, <3>2, UninstallStays
      <3> QED
        BY <3>3, <3>4
    <2>3. ASSUME Running, Fixed, UNCHANGED << disk, command, history >>, Stop("ok") \/ Stop("panic") \/ Stop("error"),
                 undoes /\ TargetInstallsOnly /\ NoneTwice
                 => \A m \in Marks : Leaves(m, Here) => Until(Positions, m) \subseteq Until(Positions, Here)
          PROVE  InstallInv' /\ UninstallInv'
      <3>1. /\ files' = files /\ dirs' = dirs /\ put' = put /\ UNCHANGED << clean, undoes >> /\ ~Running'
        BY <2>3 DEF disk, history, Stop, Running
      <3>2. undoes /\ TargetInstallsOnly /\ NoneTwice => put = {}
        BY <1>2, <2>3, UninstallEnds
      <3>3. InstallInv'
        BY <1>2, <2>3, <3>1, InstallStays
      <3>4. UninstallInv'
        BY <1>2, <2>3, <3>1, <3>2, UninstallStays
      <3> QED
        BY <3>3, <3>4
    <2>4. ASSUME Running, Running', result' = result, Fixed, UNCHANGED << disk, command, history >>,
                 Until(Positions, Here') = Until(Positions, Here), Here' \in Marks, Here'[1] <= Len(Called),
                 command = "-i" => \A j \in 1 .. Here'[1] : j <= Cur \/ Called[j] \in Targets
          PROVE  InstallInv' /\ UninstallInv'
      <3>1. /\ files' = files /\ dirs' = dirs /\ put' = put /\ UNCHANGED << clean, undoes >>
            /\ result' \notin {"ok", "error", "panic"}
        BY <2>4 DEF disk, history, Running
      <3>2. InstallInv'
        BY <1>2, <2>4, <3>1, InstallStays
      <3>3. UninstallInv'
        BY <1>2, <2>4, <3>1, UninstallStays
      <3> QED
        BY <3>2, <3>3
    <2>5. CASE NextTarget
      <3>1. Running /\ Fixed /\ UNCHANGED << disk, command, history >> /\ removals = << >>
            /\ instructions = << >> /\ todo # << >>
        BY <2>5 DEF NextTarget, Fixed
      <3>2. Cur \in Nat /\ Here \in Marks
        BY <1>2, <3>1, HereType
      <3>3. CASE Head(todo) \in Targets
        <4>1. /\ Here' = << Cur + 1, 0 >> /\ Cur + 1 \in 1 .. Len(Called) /\ Called[Cur + 1] \in Targets
              /\ Until(Positions, << Cur + 1, 0 >>) = Until(Positions, Here)
          BY <1>2, <2>5, <3>3, MovesToTarget
        <4>2. \A j \in 1 .. Cur + 1 : j <= Cur \/ j = Cur + 1
          BY <3>2
        <4>3. result' = result /\ Running'
          BY <2>5, <3>1, <3>3 DEF NextTarget, Running
        <4>4. Here' \in Marks /\ Here'[1] = Cur + 1 /\ Cur + 1 <= Len(Called)
          BY <3>2, <4>1 DEF Marks
        <4> QED
          BY <2>4, <3>1, <4>1, <4>2, <4>3, <4>4
      <3>4. CASE Head(todo) \notin Targets
        <4>1. Stop("panic")
          BY <2>5, <3>4 DEF NextTarget
        <4>2. Cur + 1 \in 1 .. Len(Called) /\ Called[Cur + 1] \notin Targets /\ Len(Called) \in Nat
          <5>1. Called \in Seq(Part) /\ todo \in Seq(Part) /\ IsRest(todo, Called)
            BY <1>2, <3>1, CalledType DEF LoopInv, LoopType, LoopPlace
          <5> QED
            BY <3>1, <3>4, <5>1, RestSteps DEF Cur
        <4>3. ASSUME NEW m \in Marks, Leaves(m, Here)
              PROVE  Until(Positions, m) \subseteq Until(Positions, Here)
          <5>1. m[1] <= Cur
            BY <3>2, <4>2, <4>3 DEF Leaves, Marks
          <5>2. \A q \in Until(Positions, m) : q \in Positions /\ q[1] <= Cur
            <6>1. \A q \in Positions : q[1] \in Nat
              BY <1>2, PositionsType
            <6> QED
              BY <3>2, <5>1, <6>1 DEF Until, Marks
          <5> QED
            BY <1>2, <3>1, <5>2, TargetDone
        <4> QED
          BY <2>3, <3>1, <4>1, <4>3
      <3> QED
        BY <3>3, <3>4
    <2>6. CASE SkipInstruction
      <3>1. /\ Running /\ Fixed /\ UNCHANGED << disk, command, history, todo, result, removals >> /\ AtInstruction
            /\ removals = << >> /\ Head(instructions) = << >> /\ instructions' = Tail(instructions)
        BY <2>6 DEF SkipInstruction, AtInstruction, Fixed
      <3>2. /\ Cur \in Nat /\ Got \in Nat /\ Here' = << Cur, Got + 1 >>
            /\ target = Called[Cur] /\ installFiles[target][Got + 1] = << >> /\ Cur <= Len(Called)
        BY <1>2, <3>1, MovesToInstruction, HereType
      <3>3. << Cur, Got + 1 >> \notin Positions
        BY <3>2 DEF Positions
      <3>4. Until(Positions, << Cur, Got + 1 >>) = Until(Positions, << Cur, Got >>)
        <4>1. Until(Positions, << Cur, Got + 1 >>)
                  = Until(Positions, << Cur, Got >>) \cup (Positions \cap {<< Cur, Got + 1 >>})
          BY <1>2, <3>2, PositionsType, UntilNext
        <4>2. Positions \cap {<< Cur, Got + 1 >>} = {}
          BY <3>3
        <4> QED
          BY <4>1, <4>2
      <3>5. Until(Positions, Here') = Until(Positions, Here) /\ Here' \in Marks /\ Here'[1] = Cur
        BY <3>2, <3>4 DEF Here, Marks
      <3>6. \A j \in 1 .. Cur : j <= Cur
        BY <3>2
      <3>7. Running'
        BY <3>1 DEF Running
      <3> QED
        BY <2>4, <3>1, <3>2, <3>5, <3>6, <3>7
    <2>7. CASE InstallFile
      BY <1>2, <2>7, InstallFileKeeps
    <2>8. CASE BeginUninstall
      <3>1. /\ Running /\ Fixed /\ UNCHANGED << disk, command, history >> /\ AtInstruction /\ command = "-u"
            /\ removals = << >> /\ Head(instructions) # << >>
        BY <2>8 DEF BeginUninstall, AtInstruction, Fixed
      <3>2. /\ Cur # 0 /\ Cur \in Nat /\ Got \in Nat /\ target \in Targets /\ target = Called[Cur]
            /\ Got + 1 \in DOMAIN installFiles[target] /\ Head(instructions) = installFiles[target][Got + 1]
            /\ Cur <= Len(Called)
        BY <1>2, <3>1, MovesToInstruction, HereType
      <3>3. << Cur, Got + 1 >> \in Positions
        BY <1>2, <3>1, <3>2, PresentPosition
      <3>4. CASE DirUnder(InstallPrefix, Head(instructions)).valid
        <4>1. /\ removals' = Removals(target, Head(instructions)) /\ instructions' = Tail(instructions)
              /\ result' = result /\ Running' /\ UNCHANGED todo
          BY <2>8, <3>1, <3>4 DEF BeginUninstall, DirUnder, Running
        <4>2. TargetInstallsOnly => Here' = Here /\ Here \in Marks
          <5> SUFFICES ASSUME TargetInstallsOnly PROVE Here' = Here /\ Here \in Marks
            OBVIOUS
          <5>1. IsTargetInstall(Head(instructions))
            BY <3>1, <3>2, TargetInstruction
          <5>2. removals' # << >>
            BY <4>1, <5>1 DEF Removals
          <5>3. Here' = << Cur, Got + 0 >>
            BY <1>2, <3>1, <4>1, <5>2, MovesToInstruction
          <5> QED
            BY <3>2, <5>3 DEF Here, Marks
        <4>3. CASE TargetInstallsOnly
          BY <2>4, <3>1, <3>2, <4>1, <4>2, <4>3 DEF Here
        <4>4. CASE ~TargetInstallsOnly
          <5>1. ~TargetInstallsOnly'
            BY <3>1, <4>4, FixedLoops
          <5> QED
            BY <5>1 DEF InstallInv, UninstallInv
        <4> QED
          BY <4>3, <4>4
      <3>5. CASE ~DirUnder(InstallPrefix, Head(instructions)).valid
        <4>1. Stop("error")
          BY <2>8, <3>5 DEF BeginUninstall, DirUnder, Throw
        <4>2. << Cur, Got + 1 >> \notin Ready
          BY <3>2, <3>5 DEF Ready
        <4> QED
          BY <1>2, <2>3, <3>1, <3>3, <4>1, <4>2, StopsBehind
      <3> QED
        BY <3>4, <3>5
    <2>9. CASE UninstallFile
      BY <1>2, <2>9, UninstallFileKeeps
    <2>10. CASE Return
      <3>1. Running /\ Fixed /\ UNCHANGED << disk, command, history >> /\ Stop("ok") /\ removals = << >>
            /\ instructions = << >> /\ todo = << >>
        BY <2>10 DEF Return, Fixed
      <3>2. \A m \in Marks : Until(Positions, m) \subseteq Until(Positions, Here)
        <4>1. Cur = Len(Called) /\ Len(Called) \in Nat
          BY <1>2, <3>1, HereType DEF Cur
        <4>2. \A q \in Positions : q[1] <= Cur
          BY <4>1 DEF Positions
        <4>3. \A q \in Positions : q \in Until(Positions, Here)
          BY <1>2, <3>1, <4>2, TargetDone
        <4> QED
          BY <4>3 DEF Until
      <3> QED
        BY <2>3, <3>1, <3>2
    <2>11. CASE Kill
      <3>1. /\ Running /\ Fixed /\ ~Running' /\ result' = "killed"
            /\ UNCHANGED << files, dirs, put, clean, undoes, command >>
        BY <2>11 DEF Kill, Fixed, Stop, Running, disk, history
      <3>2. InstallInv'
        BY <1>2, <3>1, InstallStays
      <3>3. UninstallInv'
        BY <1>2, <3>1, UninstallStays
      <3> QED
        BY <3>2, <3>3
    <2>12. CASE UNCHANGED vars
      <3>1. /\ Fixed /\ UNCHANGED << files, dirs, put, clean, undoes, command, result, todo, instructions, removals >>
        BY <2>12 DEF vars, script, disk, runVars, history, Fixed
      <3>2. Called' = Called /\ installFiles' = installFiles
        BY <3>1, FixedLoops
      <3>3. Cur' = Cur
        BY <3>1, <3>2 DEF Cur
      <3>4. Here' = Here /\ (Running' <=> Running)
        BY <3>1, <3>2, <3>3 DEF Here, Got, Running
      <3>5. Running => Here \in Marks /\ Here[1] <= Len(Called) /\ \A j \in 1 .. Here[1] : j <= Cur
        BY <1>2, HereType DEF Here
      <3>6. InstallInv'
        BY <1>2, <3>1, <3>4, <3>5, InstallStays
      <3>7. UninstallInv'
        BY <1>2, <3>1, <3>4, <3>5, UninstallStays
      <3> QED
        BY <3>6, <3>7
    <2> QED
      BY <1>2, <2>1, <2>2, <2>5, <2>6, <2>7, <2>8, <2>9, <2>10, <2>11, <2>12 DEF Next
  <1> QED
    BY <1>1, <1>2, LoopInvariant, PTL DEF Spec

\* An uninstall leaves nothing of the install before it, whatever stopped that.
\* (MeiqueScript::installTargets and uninstallTargets, OS::install and OS::uninstall)
THEOREM UninstallUndoesInstallInvariant == Spec => []UninstallUndoesInstall
  <1>1. UninstallInv => UninstallUndoesInstall
    BY DEF UninstallInv, UninstallUndoesInstall
  <1> QED
    BY <1>1, UndoInvariant, PTL

-----------------------------------------------------------------------------
(* Where a plain instruction installs *)

\* The way the parts of a path are put together does not matter.
LEMMA ConcatParts ==
    \A a, b, c \in Seq(Part) : a \o b \in Seq(Part) /\ (a \o b) \o c = a \o (b \o c)
  BY ConcatAssociative, ConcatProperties

\* A text whose path is plain names the place of that path.
LEMMA PlainText ==
    ASSUME NEW text, text.parts \in Seq(Part), NEW path,
           path = IF text.parts = << >> \/ text.abs THEN text.parts ELSE BuildDir \o text.parts,
           IsPlainPath(path)
    PROVE  LET normal == NormalizePath(text, BuildDir)
           IN /\ normal.valid /\ normal.path \in Seq(Part) /\ path \in Seq(Part)
              /\ Resolve[normal.path] = Resolve[path]
              /\ NoRowOf(2, path) => normal.path = Resolve[path]
              /\ path # << >> /\ ~Special(Last(path)) => Last(normal.path) = Last(path)
  <1>1. path \in Seq(Part) /\ NormalizePath(text, BuildDir) = NormalizeFrom[<< path, 1 >>]
    BY InstallAssumption DEF NormalizePath
  <1>2. PICK q \in Seq(Part) :
            /\ NormalizeFrom[<< path, 1 >>] = Valid(q) /\ Resolve[q] = Resolve[path]
            /\ NoRowOf(2, path) => q = Resolve[path]
    BY <1>1, PlainNormalizes
  <1>3. NormalizePath(text, BuildDir).path = q /\ NormalizePath(text, BuildDir).valid
    BY <1>1, <1>2 DEF Valid
  <1>4. path # << >> /\ ~Special(Last(path)) => Last(q) = Last(path)
    BY <1>3, NormalizePathType
  <1> QED
    BY <1>1, <1>2, <1>3, <1>4

\* Does the prefix make the path it is meant to make?
PlainPrefix ==
    IF destDir = NoText THEN prefix = NoText \/ prefix.slash
    ELSE IsPlainPath(DestDirPath) /\ NoRowOf(2, DestDirPath)

\* A text behind the prefix names the place below the directory of the prefix.
LEMMA BelowPrefix ==
    ASSUME ScriptInv, PlainPrefix, NEW text, text.parts \in Seq(Part),
           IsPlainPath(PrefixDir \o text.parts)
    PROVE  LET normal == DirBelow(InstallPrefix, text)
           IN /\ normal.valid /\ normal.path \in Seq(Part) /\ PrefixDir \o text.parts \in Seq(Part)
              /\ Resolve[normal.path] = Resolve[PrefixDir \o text.parts]
  <1> DEFINE dest == Concat(InstallPrefix.text, text)
  <1>1. InstallPrefix.valid /\ InstallPrefix.text.slash /\ InstallPrefix.text.parts \in Seq(Part)
        /\ \/ InstallPrefix.text.abs /\ PrefixDir = InstallPrefix.text.parts
           \/ /\ InstallPrefix.text.abs = FALSE /\ InstallPrefix.text.parts # << >>
              /\ PrefixDir = BuildDir \o InstallPrefix.text.parts
    <2>1. CASE destDir # NoText
      <3>1. /\ destDir.parts \in Seq(Part) /\ destDir.abs \in BOOLEAN
            /\ destDir.parts = << >> => destDir.abs
        <4>1. destDir \in Texts
          BY <2>1, InstallAssumption DEF ScriptInv
        <4>2. destDir.parts = << >> /\ ~destDir.abs => destDir = NoText
          BY <4>1 DEF Texts, NoText, Text
        <4> QED
          BY <2>1, <4>1, <4>2 DEF Texts
      <3>2. IsPlainPath(DestDirPath) /\ NoRowOf(2, DestDirPath)
        BY <2>1 DEF PlainPrefix
      <3>3. DestDirPath = IF destDir.parts = << >> \/ destDir.abs THEN destDir.parts ELSE BuildDir \o destDir.parts
        BY <3>1 DEF DestDirPath
      <3>4. NormalizePath(destDir, BuildDir).path = Resolve[DestDirPath]
            /\ NormalizePath(destDir, BuildDir).valid
            /\ NormalizePath(destDir, BuildDir).path \in Seq(Part)
        BY <3>1, <3>2, <3>3, PlainText
      <3>5. InstallPrefix.valid /\ InstallPrefix.text = Text(TRUE, Resolve[DestDirPath], TRUE) /\ PrefixDir = Resolve[DestDirPath]
        BY <2>1, <3>4 DEF InstallPrefix, PrefixAsConfigured, PrefixDir
      <3> QED
        BY <3>4, <3>5 DEF Text
    <2>2. CASE destDir = NoText /\ prefix = NoText
      <3>1. InstallPrefix.valid /\ InstallPrefix.text = Text(TRUE, << "usr" >>, TRUE) /\ ConfiguredPrefix = Text(TRUE, << "usr" >>, TRUE)
        BY <2>2 DEF InstallPrefix, PrefixAsConfigured, ConfiguredPrefix
      <3>2. PrefixDir = << "usr" >>
        BY <2>2, <3>1 DEF PrefixDir, Text
      <3>3. << "usr" >> \in Seq(Part)
        BY PartAssumption
      <3> QED
        BY <3>1, <3>2, <3>3 DEF Text
    <2>3. CASE destDir = NoText /\ prefix # NoText
      <3>1. InstallPrefix.valid /\ InstallPrefix.text = prefix /\ ConfiguredPrefix = prefix /\ prefix \in Texts /\ prefix.slash
        BY <2>3, InstallAssumption DEF InstallPrefix, PrefixAsConfigured, ConfiguredPrefix, ScriptInv, PlainPrefix
      <3>2. /\ prefix.parts \in Seq(Part) /\ prefix.abs \in BOOLEAN /\ prefix.slash \in BOOLEAN
            /\ prefix.parts = << >> => prefix.abs
        BY <3>1 DEF Texts
      <3>3. PrefixDir = IF prefix.abs THEN prefix.parts ELSE BuildDir \o prefix.parts
        BY <2>3, <3>1 DEF PrefixDir
      <3> QED
        BY <3>1, <3>2, <3>3
    <2> QED
      BY <2>1, <2>2, <2>3
  <1>2. dest.parts = InstallPrefix.text.parts \o text.parts
    BY <1>1, ConcatSlash
  <1>3. dest.parts \in Seq(Part)
    BY <1>1, <1>2
  <1>4. dest.abs = (InstallPrefix.text.abs \/ (InstallPrefix.text.parts = << >> /\ text.abs))
    BY DEF Concat, Text
  <1>5. PrefixDir \o text.parts = IF dest.parts = << >> \/ dest.abs THEN dest.parts ELSE BuildDir \o dest.parts
    <2>1. CASE InstallPrefix.text.abs /\ PrefixDir = InstallPrefix.text.parts
      BY <1>2, <1>4, <2>1
    <2>2. CASE InstallPrefix.text.abs = FALSE /\ InstallPrefix.text.parts # << >> /\ PrefixDir = BuildDir \o InstallPrefix.text.parts
      <3>1. dest.abs = FALSE
        BY <1>4, <2>2
      <3>2. dest.parts # << >>
        BY <1>1, <1>2, <2>2, ConcatProperties
      <3>3. (BuildDir \o InstallPrefix.text.parts) \o text.parts = BuildDir \o (InstallPrefix.text.parts \o text.parts)
        <4>1. /\ BuildDir \in Seq(Part) /\ InstallPrefix.text.parts \in Seq(Part)
              /\ text.parts \in Seq(Part)
          BY <1>1, InstallAssumption
        <4> QED
          BY <4>1, ConcatParts, Zenon
      <3> HIDE DEF dest
      <3>4. PrefixDir \o text.parts = (BuildDir \o InstallPrefix.text.parts) \o text.parts
        BY <2>2
      <3>5. PrefixDir \o text.parts = BuildDir \o dest.parts
        BY <1>2, <3>3, <3>4
      <3> QED
        BY <3>1, <3>2, <3>5
    <2> QED
      BY <1>1, <2>1, <2>2
  <1> HIDE DEF dest
  <1>6. IsPlainPath(PrefixDir \o text.parts)
    OBVIOUS
  <1> QED
    <2>1. DirBelow(InstallPrefix, text) = NormalizePath(dest, BuildDir)
      BY <1>1 DEF DirBelow, dest
    <2> QED
      BY <1>3, <1>5, <1>6, <2>1, PlainText

\* The source of a plain instruction is what it names.
LEMMA PlainSource ==
    ASSUME ScriptInv, NEW t \in Targets, NEW i \in DOMAIN installFiles[t], installFiles[t][i] # << >>,
           Plain(t, installFiles[t][i])
    PROVE  LET ins == installFiles[t][i]
               from == Source(t, ins)
           IN /\ from.valid /\ from.path \in Seq(Part) /\ Resolve[from.path] = Wanted(t, ins)
              /\ Last(from.path) = Last(WantedPath(t, ins)) /\ Last(from.path) \in Part
              /\ ~Special(Last(from.path))
  <1> DEFINE ins == installFiles[t][i]
             path == WantedPath(t, ins)
  <1>0. /\ IsPlainPath(path) /\ path # << >> /\ ~Special(Last(path))
        /\ BuildDir \in Seq(Part) /\ SourceDir \in Seq(Part) /\ Dir[t] \in Seq(Part) /\ Output[t] \in Part
    BY InstallAssumption DEF Plain
  <1>1. 1 \in DOMAIN ins /\ ins[1].parts \in Seq(Part) /\ ins[1] \in Texts
    <2>1. ins \in Seq(Texts) /\ 1 \in DOMAIN ins
      BY TextsOfInstructions
    <2> QED
      BY <2>1, TextsOfInstructions
  <1> DEFINE text == IF IsTargetInstall(ins) THEN OutputText(t)
                     ELSE IF ins[1].abs THEN ins[1]
                     ELSE Concat(Text(TRUE, SourceDir \o Dir[t], TRUE), ins[1])
  <1>2. /\ text.parts \in Seq(Part)
        /\ path = IF text.parts = << >> \/ text.abs THEN text.parts ELSE BuildDir \o text.parts
    <2>1. CASE IsTargetInstall(ins)
      <3> DEFINE o == << Output[t] >>
      <3>1. o \in Seq(Part) /\ o # << >>
        BY <1>0
      <3>2. text.parts = Dir[t] \o o /\ text.abs = FALSE
        BY <2>1 DEF OutputText, Text
      <3>3. path = BuildDir \o Dir[t] \o o
        BY <2>1 DEF WantedPath
      <3> HIDE DEF o, text, path
      <3>4. Dir[t] \o o \in Seq(Part) /\ Dir[t] \o o # << >>
        <4>1. \A b \in Seq(Part) : b # << >> => Dir[t] \o b # << >>
          BY <1>0, LastOfConcat
        <4> QED
          BY <1>0, <3>1, <4>1
      <3>5. (BuildDir \o Dir[t]) \o o = BuildDir \o (Dir[t] \o o)
        <4> DEFINE d == Dir[t]
        <4>1. d \in Seq(Part) /\ BuildDir \in Seq(Part)
          BY <1>0
        <4> HIDE DEF d
        <4>2. (BuildDir \o d) \o o = BuildDir \o (d \o o)
          BY <3>1, <4>1, ConcatParts
        <4> QED
          BY <4>2 DEF d
      <3> QED
        BY <3>2, <3>3, <3>4, <3>5
    <2>2. CASE ~IsTargetInstall(ins) /\ ins[1].abs
      BY <1>1, <2>2 DEF WantedPath
    <2>3. CASE ~IsTargetInstall(ins) /\ ~ins[1].abs
      <3> DEFINE dir == SourceDir \o Dir[t]
      <3>1. dir \in Seq(Part)
        BY <1>0
      <3>2. path = dir \o ins[1].parts
        BY <2>3 DEF WantedPath
      <3> HIDE DEF dir
      <3>3. Text(TRUE, dir, TRUE).slash /\ Text(TRUE, dir, TRUE).parts = dir
        BY DEF Text
      <3>4. text = Concat(Text(TRUE, dir, TRUE), ins[1])
        BY <2>3 DEF dir
      <3>5. text.parts = dir \o ins[1].parts /\ text.abs
        <4> HIDE DEF text
        <4>1. text.parts = dir \o ins[1].parts
          <5> DEFINE p == Text(TRUE, dir, TRUE)
          <5>1. p.slash /\ p.parts = dir /\ text = Concat(p, ins[1])
            BY <3>3, <3>4
          <5> HIDE DEF p
          <5> QED
            BY <5>1, ConcatSlash
        <4>2. text.abs
          BY <3>4 DEF Concat, Text
        <4> QED
          BY <4>1, <4>2
      <3> HIDE DEF text, path
      <3> QED
        BY <1>1, <3>1, <3>2, <3>5
    <2> QED
      BY <2>1, <2>2, <2>3
  <1>3. Source(t, ins) = NormalizePath(text, BuildDir)
    BY DEF Source
  <1>4. path \in Seq(Part) /\ Last(path) \in Part
    <2> HIDE DEF text, path
    <2>1. path \in Seq(Part)
      BY <1>0, <1>2, PlainText
    <2> QED
      BY <1>0, <2>1, FrontLast
  <1>5. /\ NormalizePath(text, BuildDir).valid /\ NormalizePath(text, BuildDir).path \in Seq(Part)
        /\ Resolve[NormalizePath(text, BuildDir).path] = Resolve[path]
        /\ Last(NormalizePath(text, BuildDir).path) = Last(path)
    <2> HIDE DEF text, path
    <2> QED
      BY <1>0, <1>2, PlainText
  <1> HIDE DEF text
  <1> QED
    BY <1>0, <1>3, <1>4, <1>5 DEF Wanted

\* An install of a plain instruction writes to its destination.
LEMMA PlainPlace ==
    ASSUME ScriptInv, NEW t \in Targets, NEW i \in DOMAIN installFiles[t], installFiles[t][i] # << >>,
           Plain(t, installFiles[t][i])
    PROVE  LET ins == installFiles[t][i]
               from == Source(t, ins).path
               to == Dest(t, ins)
           IN /\ to.valid /\ to.path \in Seq(Part)
              /\ DestIsFile(ins) \/ Resolve[to.path] \in dirs
                 => Place(from, to.path, DestIsFile(ins)) = Destination(t, ins)
  <1> DEFINE ins == installFiles[t][i]
             from == Source(t, ins).path
             to == Dest(t, ins)
             path == DestPath(ins)
  <1>1. IsPlainPath(path) /\ PlainPrefix
    BY DEF Plain, PlainPrefix
  <1>2. /\ ins \in Seq(Texts) /\ \A k \in DOMAIN ins : ins[k] \in Texts /\ ins[k].parts \in Seq(Part)
        /\ ~IsTargetInstall(ins) => 2 \in DOMAIN ins
        /\ DestIsFile(ins) => 3 \in DOMAIN ins
        /\ 1 \in DOMAIN ins
    <2>0. ins \in Seq(Texts) /\ ins # << >>
      BY TextsOfInstructions
    <2> HIDE DEF ins
    <2>1. Len(ins) \in Nat \ {0} /\ DOMAIN ins = 1 .. Len(ins)
      BY <2>0
    <2>2. ~IsTargetInstall(ins) => Len(ins) >= 2
      BY <2>1 DEF IsTargetInstall
    <2>3. DestIsFile(ins) => Len(ins) = 3
      BY DEF DestIsFile
    <2>4. \A k \in DOMAIN ins : ins[k] \in Texts /\ ins[k].parts \in Seq(Part)
      BY TextsOfInstructions DEF ins
    <2> QED
      BY <2>0, <2>1, <2>2, <2>3, <2>4
  <1> DEFINE dir == IF IsTargetInstall(ins) THEN DirBelow(InstallPrefix, ins[1])
                    ELSE IF ins[2].abs THEN NormalizePath(ins[2], BuildDir)
                    ELSE DirBelow(InstallPrefix, ins[2])
  <1>3. /\ dir.valid /\ dir.path \in Seq(Part) /\ path \in Seq(Part)
        /\ Resolve[dir.path] = Resolve[path]
    <2>1. CASE IsTargetInstall(ins)
      <3>1. path = PrefixDir \o ins[1].parts /\ dir = DirBelow(InstallPrefix, ins[1])
        BY <2>1 DEF DestPath
      <3> HIDE DEF dir, path, ins
      <3> QED
        BY <1>1, <1>2, <3>1, BelowPrefix
    <2>2. CASE ~IsTargetInstall(ins) /\ ins[2].abs
      <3>1. path = ins[2].parts /\ dir = NormalizePath(ins[2], BuildDir)
        BY <2>2 DEF DestPath
      <3>2. ins[2].parts = IF ins[2].parts = << >> \/ ins[2].abs THEN ins[2].parts ELSE BuildDir \o ins[2].parts
        BY <2>2
      <3> HIDE DEF dir, path, ins
      <3> QED
        BY <1>1, <1>2, <2>2, <3>1, <3>2, PlainText
    <2>3. CASE ~IsTargetInstall(ins) /\ ~ins[2].abs
      <3>1. path = PrefixDir \o ins[2].parts /\ dir = DirBelow(InstallPrefix, ins[2])
        BY <2>3 DEF DestPath
      <3> HIDE DEF dir, path, ins
      <3> QED
        BY <1>1, <1>2, <2>3, <3>1, BelowPrefix
    <2> QED
      BY <2>1, <2>2, <2>3
  <1>4. to = IF DestIsFile(ins) THEN Valid(dir.path \o ins[3].parts) ELSE dir
    BY <1>3 DEF Dest
  <1>5. /\ Last(from) = Last(WantedPath(t, ins))
    BY PlainSource
  <1> HIDE DEF dir, path, ins, from
  <1>6. CASE DestIsFile(ins)
    <2>1. to.valid /\ to.path = dir.path \o ins[3].parts /\ to.path \in Seq(Part)
      <3>1. dir.path \o ins[3].parts \in Seq(Part)
        BY <1>2, <1>3, <1>6
      <3>2. to = Valid(dir.path \o ins[3].parts)
        BY <1>4, <1>6
      <3> HIDE DEF to
      <3> QED
        BY <3>1, <3>2 DEF Valid
    <2>2. Resolve[dir.path \o ins[3].parts] = Resolve[path \o ins[3].parts]
      BY <1>2, <1>3, <1>6, ResolveConcat
    <2>3. Place(from, to.path, DestIsFile(ins)) = Resolve[to.path]
      BY <1>6 DEF Place
    <2>4. Destination(t, ins) = Resolve[path \o ins[3].parts]
      BY <1>6 DEF Destination, path
    <2> QED
      BY <2>1, <2>2, <2>3, <2>4 DEF ins, from
  <1>7. CASE ~DestIsFile(ins)
    <2>1. to = dir
      BY <1>4, <1>7
    <2>2. Destination(t, ins) = Append(Resolve[path], Last(WantedPath(t, ins)))
      BY <1>7 DEF Destination, path
    <2>3. Resolve[to.path] \in dirs => Place(from, to.path, DestIsFile(ins)) = Append(Resolve[to.path], Last(from))
      BY <1>7 DEF Place
    <2> QED
      BY <1>3, <1>5, <1>7, <2>1, <2>2, <2>3 DEF ins, from
  <1> QED
    BY <1>6, <1>7

\* What uninstallTargets removes for the output of a target is where a plain instruction has
\* put it.
LEMMA PlainRemoval ==
    ASSUME ScriptInv, NEW t \in Targets, NEW i \in DOMAIN installFiles[t], installFiles[t][i] # << >>,
           IsTargetInstall(installFiles[t][i]), Plain(t, installFiles[t][i])
    PROVE  Resolve[FileUnder(InstallPrefix, t, installFiles[t][i])] = Destination(t, installFiles[t][i])
  <1> DEFINE ins == installFiles[t][i]
             dir == DirUnder(InstallPrefix, ins)
  <1>1. /\ ins[1].parts \in Seq(Part) /\ IsPlainPath(PrefixDir \o ins[1].parts) /\ PlainPrefix
        /\ ~DestIsFile(ins) /\ DestPath(ins) = PrefixDir \o ins[1].parts
    <2>1. ins \in Seq(Texts) /\ 1 \in DOMAIN ins
      BY TextsOfInstructions
    <2>2. DestPath(ins) = PrefixDir \o ins[1].parts
      BY DEF DestPath
    <2> QED
      BY <2>1, <2>2, TextsOfInstructions DEF Plain, PlainPrefix, DestIsFile, IsTargetInstall
  <1>2. dir.path \in Seq(Part) /\ Resolve[dir.path] = Resolve[DestPath(ins)]
    <2> HIDE DEF ins
    <2> QED
      BY <1>1, BelowPrefix DEF DirUnder
  <1>3. Output[t] \in Part /\ ~Special(Output[t]) /\ BuildDir \in Seq(Part) /\ Dir[t] \in Seq(Part)
    BY InstallAssumption
  <1>4. Last(WantedPath(t, ins)) = Output[t]
    <2> DEFINE o == Output[t]
               d == BuildDir \o Dir[t]
    <2>1. WantedPath(t, ins) = d \o << o >>
      BY DEF WantedPath
    <2>2. d \in Seq(Part) /\ o \in Part
      BY <1>3
    <2> HIDE DEF o, d
    <2>3. d \o << o >> = Append(d, o)
      BY <2>2, AppendIsConcat
    <2> QED
      BY <2>1, <2>2, <2>3, AppendFront DEF o
  <1>5. Resolve[Append(dir.path, Output[t])] = Append(Resolve[dir.path], Output[t])
    BY <1>2, <1>3, ResolveUnfolds DEF Enter, Special
  <1> QED
    BY <1>1, <1>2, <1>4, <1>5 DEF FileUnder, Destination

\* An instruction is one of those a script can be asked for.
LEMMA InstallableOf ==
    ASSUME NEW t \in Targets, NEW i \in DOMAIN installFiles[t], installFiles[t][i] # << >>
    PROVE  << t, installFiles[t][i] >> \in Installable
  <1>1. << t, installFiles[t][i] >> \in {t} \X ToSet(installFiles[t])
    BY DEF ToSet
  <1> QED
    BY <1>1 DEF Installable, InstructionsOf

\* Installs and uninstalls write to, and remove, what they are asked for and nothing else.
\* (OS::install, OS::uninstall)
THEOREM OthersStayAlways == Spec => OthersStay
  <1>1. ASSUME LoopInv, [Next]_vars, Running, command = "-u" => TargetInstallsOnly,
               NEW place \in DOMAIN files,
               \A a \in Installable : Plain(a[1], a[2]) /\ place # Destination(a[1], a[2])
        PROVE  place \in DOMAIN files' /\ files'[place] = files[place]
    <2>1. CASE InstallFile
      <3> DEFINE ins == Head(instructions)
                 from == Source(target, ins)
                 to == Dest(target, ins)
      <3>1. CASE files' = files
        BY <3>1
      <3>2. CASE files' # files
        <4>1. /\ AtInstruction /\ ins # << >>
              /\ Installs(from.path, to.path, DestIsFile(ins))
              /\ files' = Holding(Place(from.path, to.path, DestIsFile(ins)), files[Resolve[from.path]])
          BY <2>1, <3>2 DEF InstallFile, RunInstall, disk
        <4>2. /\ target \in Targets /\ Got + 1 \in DOMAIN installFiles[target]
              /\ ins = installFiles[target][Got + 1]
          BY <1>1, <4>1, MovesToInstruction
        <4>3. << target, ins >> \in Installable
          BY <4>1, <4>2, InstallableOf
        <4>4. Plain(target, ins) /\ place # Destination(target, ins)
          BY <1>1, <4>3
        <4>5. DestIsFile(ins) \/ Resolve[to.path] \in dirs
          BY <4>1 DEF Installs
        <4>6. Place(from.path, to.path, DestIsFile(ins)) = Destination(target, ins)
          <5>1. ScriptInv
            BY <1>1 DEF LoopInv
          <5> QED
            BY <4>1, <4>2, <4>4, <4>5, <5>1, PlainPlace
        <4> HIDE DEF ins, from, to
        <4> QED
          BY <1>1, <4>1, <4>4, <4>6 DEF Holding
      <3> QED
        BY <3>1, <3>2
    <2>2. CASE UninstallFile
      <3>1. CASE files' = files
        BY <3>1
      <3>2. CASE files' # files
        <4>1. removals # << >> /\ files' = [p \in DOMAIN files \ {Resolve[Head(removals)]} |-> files[p]]
          BY <2>2, <3>2 DEF UninstallFile
        <4> DEFINE k == Present
                   ins == installFiles[target][k]
        <4>2. /\ target \in Targets /\ k \in DOMAIN installFiles[target] /\ ins # << >>
              /\ TargetInstallsOnly /\ removals = RemovalsUnder(InstallPrefix, target, ins)
          BY <1>1, <4>1 DEF LoopInv, LoopPlace
        <4>3. IsTargetInstall(ins)
          BY <1>1, <4>2, TargetInstruction
        <4>4. Head(removals) = FileUnder(InstallPrefix, target, ins)
          BY <4>2, <4>3 DEF RemovalsUnder, FileUnder, DirUnder
        <4>5. << target, ins >> \in Installable
          BY <4>2, InstallableOf
        <4>6. Plain(target, ins) /\ place # Destination(target, ins)
          BY <1>1, <4>5
        <4>7. Resolve[Head(removals)] = Destination(target, ins)
          <5>1. ScriptInv
            BY <1>1 DEF LoopInv
          <5> HIDE DEF k
          <5> QED
            BY <4>2, <4>3, <4>4, <4>6, <5>1, PlainRemoval
        <4> QED
          BY <1>1, <4>1, <4>6, <4>7
      <3> QED
        BY <3>1, <3>2
    <2>3. CASE ~InstallFile /\ ~UninstallFile
      <3>1. files' = files
        BY <1>1, <2>3 DEF Next, Start, Make, NextTarget, SkipInstruction, BeginUninstall, Return,
           Kill,
                          vars, disk
      <3> QED
        BY <1>1, <3>1
    <2> QED
      BY <2>1, <2>2, <2>3
  <1>2. LoopInv /\ [Next]_vars =>
            [Running /\ (command = "-u" => TargetInstallsOnly) =>
                \A place \in DOMAIN files :
                   (\A a \in Installable : Plain(a[1], a[2]) /\ place # Destination(a[1], a[2]))
                   => place \in DOMAIN files' /\ files'[place] = files[place]]_vars
    BY <1>1
  <1> QED
    BY <1>2, LoopInvariant, PTL DEF Spec, OthersStay

-----------------------------------------------------------------------------
(* An install that succeeds has installed all it was asked for. *)

\* What is installed at a position, where it goes, and where what is there is what was to be
\* installed
InstructionAt == [q \in Positions |-> << Called[q[1]], installFiles[Called[q[1]]][q[2]] >>]

GoesTo == [q \in Positions |-> Destination(Called[q[1]], installFiles[Called[q[1]]][q[2]])]

ComesFrom == [q \in Positions |-> Wanted(Called[q[1]], installFiles[Called[q[1]]][q[2]])]

Done == {q \in Positions : /\ ComesFrom[q] \in DOMAIN files /\ GoesTo[q] \in DOMAIN files
                           /\ files[GoesTo[q]] = files[ComesFrom[q]]}

\* What SuccessMeansInstalled asks of the instructions
AllPlain == (\A a \in Asked : Plain(a[1], a[2])) /\ Apart(Asked)

\* What an install has dealt with is there, and stays until it is through with the rest.
SuccessInv ==
    command = "-i" /\ AllPlain =>
        /\ Running => \A m \in Marks : m = Here => Until(Positions, m) \subseteq Done
        /\ result = "ok" => Positions \subseteq Done

\* The positions are those of the instructions the command line asks for.
LEMMA AskedPositions ==
    ASSUME LoopInv
    PROVE  /\ \A q \in Positions : InstructionAt[q] \in Asked /\ InstructionAt[q][1] \in Targets
           /\ \A a \in Asked : \E q \in Positions : InstructionAt[q] = a
  <1>1. Called \in Seq(Part) /\ \A t \in Targets : installFiles[t] \in Seq(Seq(Texts))
    BY CalledType DEF LoopInv
  <1>2. \A t : t \in Chosen <=> t \in Targets /\ \E c \in 1 .. Len(Called) : Called[c] = t
    <2>1. CASE names = << >>
      <3>1. \A t : t \in Targets <=> \E c \in 1 .. Len(Called) : Called[c] = t
        BY <1>1, <2>1 DEF Called, Targets
      <3> QED
        BY <2>1, <3>1 DEF Chosen
    <2>2. CASE names # << >>
      BY <1>1, <2>2 DEF Chosen, Called, ToSet
    <2> QED
      BY <2>1, <2>2
  <1>3. ASSUME NEW q \in Positions PROVE InstructionAt[q] \in Asked /\ InstructionAt[q][1] \in Targets
    <2> DEFINE t == Called[q[1]]
               ins == installFiles[t][q[2]]
    <2>1. t \in Targets /\ t \in Chosen /\ q[2] \in DOMAIN installFiles[t] /\ ins # << >>
      BY <1>2 DEF Positions
    <2>2. << t, ins >> \in {t} \X ToSet(installFiles[t])
      BY <2>1 DEF ToSet
    <2>3. InstructionAt[q] = << t, ins >>
      BY DEF InstructionAt
    <2> QED
      BY <2>1, <2>2, <2>3 DEF Asked, InstructionsOf
  <1>4. ASSUME NEW a \in Asked PROVE \E q \in Positions : InstructionAt[q] = a
    <2>1. PICK t \in Chosen : a \in {t} \X ToSet(installFiles[t]) /\ a[2] # << >>
      BY DEF Asked, InstructionsOf
    <2>2. PICK k \in DOMAIN installFiles[t] : a = << t, installFiles[t][k] >>
      BY <2>1 DEF ToSet
    <2>3. PICK c \in 1 .. Len(Called) : Called[c] = t
      BY <1>2
    <2>4. k \in Nat \ {0} /\ t \in Targets
      BY <1>1, <1>2
    <2>5. << c, k >> \in Positions
      BY <2>1, <2>2, <2>3, <2>4 DEF Positions
    <2>6. InstructionAt[<< c, k >>] = a
      BY <2>2, <2>3, <2>5 DEF InstructionAt
    <2> QED
      BY <2>5, <2>6
  <1> QED
    BY <1>3, <1>4

\* Where plain instructions install is the same too.
LEMMA FixedPlaces ==
    ASSUME Fixed
    PROVE  /\ Positions' = Positions /\ GoesTo' = GoesTo /\ ComesFrom' = ComesFrom
           /\ AllPlain' <=> AllPlain
  <1>1. /\ Called' = Called /\ installFiles' = installFiles /\ names' = names /\ prefix' = prefix
        /\ destDir' = destDir /\ Positions' = Positions
    BY FixedLoops, FixedPlan
  <1>2. PrefixDir' = PrefixDir /\ DestDirPath' = DestDirPath
    BY <1>1 DEF PrefixDir, DestDirPath, ConfiguredPrefix
  <1>3. GoesTo' = GoesTo
    BY <1>1, <1>2 DEF GoesTo, Destination, DestPath
  <1>4. ComesFrom' = ComesFrom
    BY <1>1 DEF ComesFrom, Wanted, WantedPath
  <1>5. Asked' = Asked
    BY <1>1 DEF Asked, InstructionsOf, Chosen
  <1>6. (\A a \in Asked : Plain(a[1], a[2]))' <=> \A a \in Asked : Plain(a[1], a[2])
    BY <1>1, <1>2, <1>5 DEF Plain, DestPath, WantedPath
  <1>7. Apart(Asked)' <=> Apart(Asked)
    BY <1>1, <1>2, <1>5 DEF Apart, Destination, DestPath, Wanted, WantedPath
  <1> QED
    BY <1>1, <1>3, <1>4, <1>6, <1>7 DEF AllPlain

\* OS::install of a plain instruction
LEMMA InstallFileDone ==
    ASSUME LoopInv, InstallFile, SuccessInv, AllPlain, Running', NEW m \in Marks, m = Here'
    PROVE  Until(Positions, m) \subseteq Done'
  <1> DEFINE ins == Head(instructions)
             from == Source(target, ins)
             to == Dest(target, ins)
             place == Place(from.path, to.path, DestIsFile(ins))
             k == Got + 1
             p == << Cur, k >>
  <1>1. /\ AtInstruction /\ Running /\ ins # << >> /\ command = "-i" /\ Fixed
        /\ Installs(from.path, to.path, DestIsFile(ins))
        /\ files' = Holding(place, files[Resolve[from.path]])
        /\ instructions' = Tail(instructions) /\ UNCHANGED << todo, removals >> /\ removals = << >>
    BY DEF InstallFile, RunInstall, AtInstruction, Fixed, Throw, Stop, Running
  <1>2. /\ Cur # 0 /\ Cur \in Nat /\ Got \in Nat /\ target \in Targets /\ target = Called[Cur]
        /\ k \in DOMAIN installFiles[target] /\ ins = installFiles[target][k] /\ Here' = p
    BY <1>1, MovesToInstruction
  <1>3. p \in Positions
    BY <1>1, <1>2, PresentPosition
  <1>4. Until(Positions, m) = Until(Positions, Here) \cup {p}
    <2>1. Until(Positions, << Cur, Got + 1 >>)
              = Until(Positions, << Cur, Got >>) \cup (Positions \cap {<< Cur, Got + 1 >>})
      BY <1>2, PositionsType, UntilNext
    <2> QED
      BY <1>2, <1>3, <2>1 DEF Here
  <1>5. InstructionAt[p] = << target, ins >> /\ GoesTo[p] = Destination(target, ins)
        /\ ComesFrom[p] = Wanted(target, ins)
    BY <1>2, <1>3 DEF InstructionAt, GoesTo, ComesFrom
  <1>6. << target, ins >> \in Asked /\ Plain(target, ins)
    <2>1. << target, ins >> \in Asked
      BY <1>3, <1>5, AskedPositions
    <2> QED
      BY <2>1 DEF AllPlain
  <1>7. place = GoesTo[p] /\ Resolve[from.path] = ComesFrom[p]
    <2>1. ScriptInv /\ (DestIsFile(ins) \/ Resolve[to.path] \in dirs)
      BY <1>1 DEF LoopInv, Installs
    <2> HIDE DEF k
    <2> QED
      BY <1>1, <1>2, <1>5, <1>6, <2>1, PlainPlace, PlainSource
  <1>8. ComesFrom[p] \in DOMAIN files
    BY <1>1, <1>7 DEF Installs, Exists
  <1>9. Until(Positions, Here) \subseteq Done
    BY <1>1, HereType DEF SuccessInv
  <1> HIDE DEF ins, from, to, place, k, p
  <1>10. files' = Holding(GoesTo[p], files[ComesFrom[p]])
    BY <1>1, <1>7
  <1>11. ASSUME NEW q \in Positions
         PROVE  /\ GoesTo[p] # ComesFrom[q]
                /\ GoesTo[p] = GoesTo[q] => ComesFrom[p] = ComesFrom[q]
    <2>1. InstructionAt[q] \in Asked /\ InstructionAt[p] \in Asked /\ Apart(Asked)
      BY <1>3, AskedPositions DEF AllPlain
    <2>2. \A r \in Positions : /\ GoesTo[r] = Destination(InstructionAt[r][1], InstructionAt[r][2])
                               /\ ComesFrom[r] = Wanted(InstructionAt[r][1], InstructionAt[r][2])
      BY DEF GoesTo, ComesFrom, InstructionAt
    <2>3. GoesTo[p] # ComesFrom[q]
      BY <1>3, <2>1, <2>2 DEF Apart
    <2>4. GoesTo[p] = GoesTo[q] => InstructionAt[p] = InstructionAt[q]
      BY <1>3, <2>1, <2>2 DEF Apart
    <2> QED
      BY <1>3, <2>2, <2>3, <2>4
  <1>12. ASSUME NEW q \in Positions, q \in Done \/ q = p
         PROVE  /\ ComesFrom[q] \in DOMAIN files' /\ GoesTo[q] \in DOMAIN files'
                /\ files'[GoesTo[q]] = files'[ComesFrom[q]]
    <2>1. ComesFrom[q] \in DOMAIN files
      BY <1>8, <1>12 DEF Done
    <2>2. files'[ComesFrom[q]] = files[ComesFrom[q]] /\ ComesFrom[q] \in DOMAIN files'
      BY <1>10, <1>11, <2>1 DEF Holding
    <2>3. CASE GoesTo[q] = GoesTo[p]
      BY <1>10, <1>11, <2>2, <2>3 DEF Holding
    <2>4. CASE GoesTo[q] # GoesTo[p]
      BY <1>10, <1>12, <2>2, <2>4 DEF Holding, Done
    <2> QED
      BY <2>3, <2>4
  <1>13. Positions' = Positions /\ GoesTo' = GoesTo /\ ComesFrom' = ComesFrom
    BY <1>1, FixedPlaces
  <1>14. \A q \in Until(Positions, m) : q \in Positions /\ (q \in Done \/ q = p)
    BY <1>3, <1>4, <1>9 DEF Until
  <1> QED
    BY <1>12, <1>13, <1>14 DEF Done

\* SuccessInv is an invariant.
LEMMA SuccessInvariant == Spec => []SuccessInv
  <1>1. Init => SuccessInv
    BY DEF Init, SuccessInv, Running
  <1>2. ASSUME LoopInv, SuccessInv, [Next]_vars PROVE SuccessInv'
    <2>1. CASE Start
      <3>1. ASSUME Running', NEW m \in Marks, m = Here' PROVE Until(Positions, m)' = {}
        <4>1. todo' = Called'
          BY <2>1 DEF Start, Called
        <4>2. Len(Called') \in Nat
          BY <2>1, InstallAssumption DEF Start, Called
        <4>3. m = << 0, 0 >>
          BY <3>1, <4>1, <4>2 DEF Here, Cur, Got
        <4>4. \A q \in Positions' : q[1] \in Nat \ {0}
          BY <4>2 DEF Positions
        <4> QED
          BY <4>3, <4>4 DEF Until
      <3>2. result' # "ok"
        BY <2>1 DEF Start
      <3> QED
        BY <3>1, <3>2 DEF SuccessInv
    <2>2. ASSUME ~Running', result' # "ok" PROVE SuccessInv'
      BY <2>2 DEF SuccessInv
    <2>3. CASE command' = "-u"
      BY <2>3 DEF SuccessInv
    <2>4. ASSUME Running, Fixed, files' = files, command' = command,
                 result' = "ok" /\ AllPlain /\ command = "-i" => Positions \subseteq Done,
                 Running' => Until(Positions, Here') = Until(Positions, Here)
          PROVE  SuccessInv'
      <3>1. /\ Positions' = Positions /\ (AllPlain' <=> AllPlain) /\ Done' = Done
        BY <2>4, FixedPlaces DEF Done
      <3> SUFFICES ASSUME command = "-i", AllPlain
                   PROVE  /\ Running' => \A m \in Marks : m = Here' => Until(Positions, m) \subseteq Done
                          /\ result' = "ok" => Positions \subseteq Done
        BY <2>4, <3>1 DEF SuccessInv
      <3>2. Until(Positions, Here) \subseteq Done
        BY <1>2, <2>4, HereType DEF SuccessInv
      <3> QED
        BY <2>4, <3>2
    <2>5. CASE Make
      BY <2>2, <2>5 DEF Make, Running
    <2>6. CASE NextTarget
      <3>1. CASE Head(todo) \in Targets
        <4>1. /\ Running /\ Fixed /\ files' = files /\ command' = command /\ result' # "ok"
          BY <2>6, <3>1 DEF NextTarget, Fixed, disk, Running
        <4>2. Until(Positions, Here') = Until(Positions, Here)
          BY <1>2, <2>6, <3>1, MovesToTarget
        <4> QED
          BY <2>4, <4>1, <4>2
      <3>2. CASE Head(todo) \notin Targets
        BY <2>2, <2>6, <3>2 DEF NextTarget, Stop, Running
      <3> QED
        BY <3>1, <3>2
    <2>7. CASE SkipInstruction
      <3>1. /\ Running /\ Fixed /\ files' = files /\ command' = command /\ result' # "ok" /\ AtInstruction
            /\ removals = << >> /\ removals' = << >> /\ Head(instructions) = << >>
            /\ instructions' = Tail(instructions) /\ todo' = todo
        BY <2>7 DEF SkipInstruction, AtInstruction, Fixed, disk, Running
      <3>2. /\ Cur \in Nat /\ Got \in Nat /\ Here' = << Cur, Got + 1 >>
            /\ target = Called[Cur] /\ installFiles[target][Got + 1] = << >>
        BY <1>2, <3>1, MovesToInstruction
      <3>3. Positions \cap {<< Cur, Got + 1 >>} = {}
        BY <3>2 DEF Positions
      <3>4. Until(Positions, << Cur, Got + 1 >>)
                = Until(Positions, << Cur, Got >>) \cup (Positions \cap {<< Cur, Got + 1 >>})
        BY <1>2, <3>2, PositionsType, UntilNext
      <3>5. Until(Positions, Here') = Until(Positions, Here)
        BY <3>2, <3>3, <3>4 DEF Here
      <3> QED
        BY <2>4, <3>1, <3>5
    <2>8. CASE InstallFile
      <3>1. CASE Running'
        <4>1. /\ Fixed /\ Running /\ result' # "ok" /\ command = "-i"
          BY <2>8, <3>1 DEF InstallFile, AtInstruction, Fixed, Running
        <4>2. Positions' = Positions /\ (AllPlain' <=> AllPlain)
          BY <4>1, FixedPlaces
        <4> SUFFICES ASSUME AllPlain, NEW m \in Marks, m = Here' PROVE Until(Positions, m) \subseteq Done'
          BY <4>1, <4>2 DEF SuccessInv
        <4> QED
          BY <1>2, <2>8, <3>1, InstallFileDone
      <3>2. CASE ~Running'
        <4>1. result' # "ok"
          BY <2>8, <3>2 DEF InstallFile, Throw, Stop, Running, AtInstruction
        <4> QED
          BY <2>2, <3>2, <4>1
      <3> QED
        BY <3>1, <3>2
    <2>9. CASE BeginUninstall
      BY <2>3, <2>9 DEF BeginUninstall
    <2>10. CASE UninstallFile
      BY <1>2, <2>3, <2>10 DEF UninstallFile, LoopInv, LoopPlace
    <2>11. CASE Return
      <3>1. /\ Running /\ Fixed /\ files' = files /\ command' = command /\ ~Running' /\ removals = << >>
            /\ instructions = << >> /\ todo = << >>
        BY <2>11 DEF Return, Stop, Fixed, disk, Running
      <3>2. Positions \subseteq Until(Positions, Here)
        <4>1. Cur = Len(Called) /\ Len(Called) \in Nat
          BY <1>2, <3>1, HereType DEF Cur
        <4>2. \A q \in Positions : q[1] <= Cur
          BY <4>1 DEF Positions
        <4> QED
          BY <1>2, <3>1, <4>2, TargetDone
      <3>3. AllPlain /\ command = "-i" => Positions \subseteq Done
        <4>1. AllPlain /\ command = "-i" => Until(Positions, Here) \subseteq Done
          BY <1>2, <3>1, HereType DEF SuccessInv
        <4> QED
          BY <3>2, <4>1
      <3> QED
        BY <2>4, <3>1, <3>3
    <2>12. CASE Kill
      BY <2>2, <2>12 DEF Kill, Stop, Running
    <2>13. CASE UNCHANGED vars
      <3>1. /\ Fixed /\ UNCHANGED << files, command, result, todo, instructions, removals >>
        BY <2>13 DEF vars, script, disk, runVars, Fixed
      <3>2. Called' = Called /\ installFiles' = installFiles
        BY <3>1, FixedLoops
      <3>3. Cur' = Cur
        BY <3>1, <3>2 DEF Cur
      <3>4. Here' = Here /\ (Running' <=> Running)
        BY <3>1, <3>2, <3>3 DEF Here, Got, Running
      <3>5. Positions' = Positions /\ (AllPlain' <=> AllPlain) /\ Done' = Done
        BY <3>1, FixedPlaces DEF Done
      <3> QED
        BY <1>2, <3>1, <3>4, <3>5 DEF SuccessInv
    <2> QED
      BY <1>2, <2>1, <2>5, <2>6, <2>7, <2>8, <2>9, <2>10, <2>11, <2>12, <2>13 DEF Next
  <1> QED
    BY <1>1, <1>2, LoopInvariant, PTL DEF Spec

\* An install that reports success has put the present revision of every file in its place.
\* (MeiqueScript::installTargets, OS::install)
THEOREM SuccessMeansInstalledInvariant == Spec => []SuccessMeansInstalled
  <1>1. LoopInv /\ SuccessInv => SuccessMeansInstalled
    <2> SUFFICES ASSUME LoopInv, SuccessInv, result = "ok", command = "-i", AllPlain, NEW a \in Asked
                 PROVE  /\ Wanted(a[1], a[2]) \in DOMAIN files /\ Destination(a[1], a[2]) \in DOMAIN files
                        /\ files[Destination(a[1], a[2])] = files[Wanted(a[1], a[2])]
      BY DEF SuccessMeansInstalled, AllPlain
    <2>1. PICK q \in Positions : InstructionAt[q] = a
      BY AskedPositions
    <2>2. q \in Done
      BY DEF SuccessInv
    <2>3. ComesFrom[q] = Wanted(a[1], a[2]) /\ GoesTo[q] = Destination(a[1], a[2])
      BY <2>1 DEF ComesFrom, GoesTo, InstructionAt
    <2> QED
      BY <2>2, <2>3 DEF Done
  <1> QED
    BY <1>1, LoopInvariant, SuccessInvariant, PTL

-----------------------------------------------------------------------------
(* Types *)

\* What the files of a state are and what has been put into them
FilesInv ==
    /\ DOMAIN files \cap dirs = {} /\ \A place \in DOMAIN files : files[place].rev \in 0 .. MaxRev
    /\ put \subseteq DOMAIN files

\* The types of what describes the run
RunInv ==
    /\ command \in {"-i", "-u"} /\ target \in Targets \cup {NoTarget}
    /\ result \in {"none", "running", "ok", "error", "panic", "killed"}

\* One file more, or with something else in it
LEMMA HoldingKeeps ==
    ASSUME FilesInv, NEW place, NEW content, content.rev \in 0 .. MaxRev
    PROVE  LET held == Holding(place, content)
           IN /\ DOMAIN held = DOMAIN files \cup {place}
              /\ \A p \in DOMAIN held : held[p].rev \in 0 .. MaxRev
  BY DEF Holding, FilesInv

\* Every variable of Install has its type, and no place is both a file and a directory.
THEOREM InstallTypeInvariant == Spec => []TypeOK
  <1>1. Init => FilesInv /\ RunInv
    BY InstallAssumption DEF Init, FilesInv, RunInv
  <1>2. ASSUME LoopInv, FilesInv, RunInv, [Next]_vars PROVE FilesInv' /\ RunInv'
    <2>1. CASE Make
      <3>1. PICK t \in Targets : \E i \in DOMAIN installFiles[t] :
                LET place == Resolve[Source(t, installFiles[t][i]).path]
                    rev == IF place \in DOMAIN files THEN files[place].rev + 1 ELSE 1
                IN rev <= MaxRev /\ place \notin dirs /\ files' = Holding(place, [of |-> place, rev |-> rev])
        BY <2>1 DEF Make
      <3>2. PICK i \in DOMAIN installFiles[t] :
                LET place == Resolve[Source(t, installFiles[t][i]).path]
                    rev == IF place \in DOMAIN files THEN files[place].rev + 1 ELSE 1
                IN rev <= MaxRev /\ place \notin dirs /\ files' = Holding(place, [of |-> place, rev |-> rev])
        BY <3>1
      <3> DEFINE place == Resolve[Source(t, installFiles[t][i]).path]
                 rev == IF place \in DOMAIN files THEN files[place].rev + 1 ELSE 1
                 content == [of |-> place, rev |-> rev]
      <3>3. rev <= MaxRev /\ place \notin dirs /\ files' = Holding(place, content)
        BY <3>2
      <3> HIDE DEF place
      <3>4. content.rev \in 0 .. MaxRev
        BY <1>2, <3>3, InstallAssumption DEF FilesInv
      <3> HIDE DEF content, rev
      <3>5. DOMAIN files' = DOMAIN files \cup {place} /\ \A p \in DOMAIN files' : files'[p].rev \in 0 .. MaxRev
        BY <1>2, <3>3, <3>4, HoldingKeeps
      <3>6. dirs' = dirs /\ put' = put /\ RunInv'
        BY <1>2, <2>1 DEF Make, history, RunInv
      <3> QED
        BY <1>2, <3>3, <3>5, <3>6 DEF FilesInv
    <2>2. CASE InstallFile
      <3> DEFINE ins == Head(instructions)
                 from == Source(target, ins)
                 to == Dest(target, ins)
                 place == Place(from.path, to.path, DestIsFile(ins))
                 content == files[Resolve[from.path]]
      <3>1. RunInv'
        BY <1>2, <2>2 DEF InstallFile, Throw, Stop, RunInv
      <3>2. CASE UNCHANGED << disk, put >>
        BY <1>2, <3>1, <3>2 DEF disk, FilesInv
      <3>3. CASE RunInstall(from.path, to.path, DestIsFile(ins))
        <4>1. dirs' = dirs \cup MadeFor(to.path) /\ MadeFor(to.path) \cap DOMAIN files = {}
          BY <3>3 DEF RunInstall, MadeFor
        <4>2. CASE Installs(from.path, to.path, DestIsFile(ins))
          <5>1. /\ place \notin dirs' /\ Resolve[from.path] \in DOMAIN files
                /\ files' = Holding(place, content) /\ put' = put \cup {place}
            BY <3>3, <4>1, <4>2 DEF RunInstall, Installs, Exists
          <5>2. content.rev \in 0 .. MaxRev
            BY <1>2, <5>1 DEF FilesInv
          <5> HIDE DEF ins, from, to, place, content
          <5>3. DOMAIN files' = DOMAIN files \cup {place} /\ \A p \in DOMAIN files' : files'[p].rev \in 0 .. MaxRev
            BY <1>2, <5>1, <5>2, HoldingKeeps
          <5> QED
            BY <1>2, <3>1, <4>1, <5>1, <5>3 DEF FilesInv
        <4>3. CASE ~Installs(from.path, to.path, DestIsFile(ins))
          <5>1. UNCHANGED << files, put >>
            BY <3>3, <4>3 DEF RunInstall
          <5> HIDE DEF ins, from, to, place, content
          <5> QED
            BY <1>2, <3>1, <4>1, <5>1 DEF FilesInv
        <4> QED
          BY <4>2, <4>3
      <3> QED
        BY <2>2, <3>2, <3>3 DEF InstallFile
    <2>3. CASE UninstallFile
      <3>1. RunInv' /\ dirs' = dirs
        BY <1>2, <2>3 DEF UninstallFile, Throw, Stop, RunInv
      <3>2. CASE UNCHANGED << files, put >>
        BY <1>2, <3>1, <3>2 DEF FilesInv
      <3>3. CASE ~UNCHANGED << files, put >>
        <4> DEFINE gone == Resolve[Head(removals)]
        <4>1. files' = [place \in DOMAIN files \ {gone} |-> files[place]] /\ put' = put \ {gone}
          BY <2>3, <3>3 DEF UninstallFile
        <4> HIDE DEF gone
        <4> QED
          BY <1>2, <3>1, <4>1 DEF FilesInv
      <3> QED
        BY <3>2, <3>3
    <2>4. CASE Start \/ NextTarget \/ SkipInstruction \/ BeginUninstall \/ Return \/ Kill \/ UNCHANGED vars
      <3>1. UNCHANGED << files, dirs, put >>
        BY <2>4 DEF Start, NextTarget, SkipInstruction, BeginUninstall, Return, Kill, vars, disk,
           history
      <3>2. RunInv'
        BY <1>2, <2>4 DEF Start, NextTarget, SkipInstruction, BeginUninstall, Return, Kill, vars,
           runVars,
                          Throw, Stop, RunInv
      <3> QED
        BY <1>2, <3>1, <3>2 DEF FilesInv
    <2> QED
      BY <1>2, <2>1, <2>2, <2>3, <2>4 DEF Next
  <1>3. LoopInv /\ FilesInv /\ RunInv => TypeOK
    BY DEF LoopInv, ScriptInv, LoopType, FilesInv, RunInv, TypeOK
  <1> QED
    BY <1>1, <1>2, <1>3, LoopInvariant, PTL DEF Spec
=============================================================================
