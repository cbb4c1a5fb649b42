--------------------------- MODULE UpToDateProofs ---------------------------
(***************************************************************************)
(* Proofs about UpToDate.tla: what time stamps and the saved hashes tell   *)
(* is true, so builds make again what has to be made and nothing else, for *)
(* every project and every sequence of edits and builds.                   *)
(***************************************************************************)
EXTENDS UpToDate, TLAPS

USE DEF disk, process, history

\* Files and targets differ, and a file belongs to a target that is not a custom one.
LEMMA FilesAreNoTargets ==
    ASSUME NEW f \in Files
    PROVE  /\ f \notin Targets /\ f \in Node /\ f \in Source
           /\ TargetOf(f) \in Targets \ Custom /\ f \in FilesOf[TargetOf(f)]
           /\ Includes[f] \subseteq Others
           /\ \A t \in Targets : f \in FilesOf[t] => t = TargetOf(f)
  <1>1. TargetOf(f) \in Targets /\ f \in FilesOf[TargetOf(f)]
    BY ProjectAssumption DEF TargetOf
  <1>2. TargetOf(f) \notin Custom
    BY <1>1, ProjectAssumption
  <1>3. \A t \in Targets : f \in FilesOf[t] => t = TargetOf(f)
    BY <1>1, ProjectAssumption
  <1> QED
    BY <1>1, <1>2, <1>3, ProjectAssumption DEF Node, Source

\* The sources of a node are sources.
LEMMA SourcesAreSources ==
    ASSUME NEW n \in Files \cup Custom
    PROVE  SourcesOf(n) \subseteq Source
  BY ProjectAssumption DEF SourcesOf, Source

\* What is made of n is above it.
LEMMA ParentsAreAbove ==
    ASSUME NEW n
    PROVE  Parents(n) \subseteq Above(n) /\ Above(n) \subseteq Targets
  BY DEF Above, Parents

\* A recipe has two parts.
LEMMA RecipeParts ==
    ASSUME NEW n \in Node
    PROVE  /\ Recipe(n) = << Recipe(n)[1], Recipe(n)[2] >>
           /\ n \in Files => /\ Recipe(n)[1] = options[TargetOf(n)]
                             /\ Recipe(n)[2] = Revisions(SourcesOf(n))
           /\ n \in Custom => Recipe(n)[1] = Revisions(SourcesOf(n))
           /\ n \in Targets \ Custom => Recipe(n)[1] = options[n]
           /\ n \in Targets => Recipe(n)[2] = Parts(n)
  <1>1. CASE n \in Files
    BY <1>1, FilesAreNoTargets, ProjectAssumption DEF Recipe, SourcesOf
  <1>2. CASE n \in Custom
    BY <1>2, FilesAreNoTargets, ProjectAssumption DEF Recipe, SourcesOf, Parts
  <1>3. CASE n \in Targets \ Custom
    BY <1>3, FilesAreNoTargets, ProjectAssumption DEF Recipe, Parts
  <1> QED
    BY <1>1, <1>2, <1>3 DEF Node

\* Every step keeps the types.
LEMMA TypeStep ==
    ASSUME TypeOK, Next
    PROVE  TypeOK'
  <1>1. CASE \E s \in Edited : Edit(s)
    BY <1>1, ProjectAssumption DEF Edit, TypeOK, Children, InTree
  <1>2. CASE \E t \in Changed : ChangeOptions(t)
    BY <1>2 DEF ChangeOptions, TypeOK, InTree
  <1>3. CASE \E t \in Targets : Clean(t)
    BY <1>3 DEF Clean, TypeOK, Absent, InTree
  <1>4. CASE \E chosen \in Selections : Start(chosen)
    <2>1. PICK chosen \in Selections : Start(chosen)
      BY <1>4
    <2>2. scope' \subseteq Targets
      BY <2>1 DEF Start, Below
    <2>3. hash' \in [Targets -> {"unknown", "old", "new"}]
      BY <2>1 DEF Start, TypeOK
    <2>4. marked' \subseteq Node
      BY <2>1, <2>2 DEF Start, MarkChanges, Node
    <2>5. /\ expanded' = {} /\ built' = {} /\ failed' = FALSE /\ ran' = {} /\ covered' = {}
          /\ phase' = "building" /\ UNCHANGED << disk, owed, faults >>
      BY <2>1 DEF Start
    <2> QED
      BY <2>2, <2>3, <2>4, <2>5 DEF TypeOK
  <1>5. CASE Finish \/ \E how \in Interrupts : Interrupt(how)
    <2>1. faults' \in 0 .. MaxFaults
      <3>1. MaxFaults \in Nat /\ faults \in 0 .. MaxFaults
        BY ProjectAssumption DEF TypeOK
      <3>2. faults' = faults \/ (faults < MaxFaults /\ faults' = faults + 1)
        BY <1>5 DEF Finish, Interrupt
      <3> QED
        BY <3>1, <3>2
    <2>2. /\ savedHash' \in {hash, savedHash} /\ hash' = savedHash' /\ covered' \in {{}, built}
          /\ owed' = owed \cup LeftOver(savedHash')
          /\ phase' = "idle" /\ scope' = {} /\ marked' = {} /\ expanded' = {} /\ built' = {}
          /\ failed' = FALSE /\ ran' = {} /\ UNCHANGED << rev, mtime, options, product, clock >>
      BY <1>5 DEF Finish, Leave, Interrupt
    <2>3. savedHash' \in [Targets -> {"unknown", "old", "new"}]
      BY <2>2 DEF TypeOK
    <2>4. covered' \subseteq Node /\ owed' \subseteq Node
      BY <2>2 DEF TypeOK, InTree, LeftOver
    <2> QED
      BY <2>1, <2>2, <2>3, <2>4 DEF TypeOK
  <1>6. CASE \E t \in Targets : Expand(t)
    BY <1>6, ProjectAssumption DEF Expand, MayExpand, TypeOK, Node, InTree
  <1>7. CASE \E n \in Node : Skip(n)
    BY <1>7 DEF Skip, IsReady, MayTake, TypeOK, InTree
  <1>8. CASE \E n \in Node : Make(n)
    BY <1>8, ParentsAreAbove DEF Make, IsReady, MayTake, MarkAbove, TypeOK, Node, InTree
  <1>9. CASE \E n \in Node : Fail(n)
    <2>1. PICK n \in Node : Fail(n)
      BY <1>9
    <2>2. faults' \in 0 .. MaxFaults
      BY <2>1, ProjectAssumption DEF Fail, TypeOK
    <2>3. /\ marked' = marked \cup (Above(n) \cap scope) /\ failed' = TRUE /\ ran' = ran \cup {n}
          /\ UNCHANGED << disk, phase, scope, hash, expanded, built, covered, owed >>
      BY <2>1 DEF Fail, MarkAbove
    <2>4. marked' \subseteq Node
      BY <2>3, ParentsAreAbove DEF TypeOK, Node
    <2> QED
      BY <2>2, <2>3, <2>4 DEF TypeOK, InTree
  <1> QED
    BY <1>1, <1>2, <1>3, <1>4, <1>5, <1>6, <1>7, <1>8, <1>9 DEF Next

\* Every step keeps the form of what products were made of.
LEMMA MadeStep ==
    ASSUME TypeOK, MadeInv, Next
    PROVE  MadeInv'
  <1>1. CASE \E n \in Node : Make(n)
    <2>1. PICK n \in Node : Make(n)
      BY <1>1
    <2>2. /\ product' = [product EXCEPT ![n] = [time |-> clock, made |-> Recipe(n)]]
          /\ DOMAIN product = Node
      BY <2>1 DEF Make, TypeOK
    <2>3. Recipe(n) = << Recipe(n)[1], Recipe(n)[2] >>
      BY RecipeParts
    <2> QED
      BY <2>2, <2>3 DEF MadeInv
  <1>2. CASE \E t \in Targets : Clean(t)
    BY <1>2 DEF Clean, MadeInv
  <1>3. CASE ~(\E n \in Node : Make(n)) /\ ~(\E t \in Targets : Clean(t))
    <2>1. product' = product
      BY <1>3 DEF Next, Edit, ChangeOptions, Start, Finish, Leave, Expand, Skip, Fail, Interrupt
    <2> QED
      BY <2>1 DEF MadeInv
  <1> QED
    BY <1>1, <1>2, <1>3

\* Time stamps go on telling the truth.
LEMMA TimesStep ==
    ASSUME TypeOK, TimesInv, Next
    PROVE  TimesInv'
  <1> SUFFICES ASSUME NEW n \in Files \cup Custom, product'[n] # Absent
               PROVE  (/\ Recorded(n) \subseteq Source \X Nat
                       /\ \A p \in Recorded(n) : p[2] <= rev[p[1]] /\ (Newer(p[1], n) => p[2] < rev[p[1]])
                       /\ (\A s \in SourcesOf(n) : ~Newer(s, n)) => Recorded(n) = Revisions(SourcesOf(n)))'
    BY DEF TimesInv
  <1>1. /\ n \in Node /\ SourcesOf(n) \subseteq Source
        /\ DOMAIN product = Node /\ rev \in [Source -> Nat] /\ mtime \in [Source -> Nat]
        /\ clock \in Nat \ {0} /\ product[n].time \in Nat /\ product[n].time <= clock
        /\ \A s \in Source : mtime[s] <= clock
    BY SourcesAreSources, ProjectAssumption DEF TypeOK, Node
  <1>2. product[n] # Absent =>
            /\ Recorded(n) \subseteq Source \X Nat
            /\ \A p \in Recorded(n) : p[2] <= rev[p[1]] /\ (Newer(p[1], n) => p[2] < rev[p[1]])
            /\ (\A s \in SourcesOf(n) : ~Newer(s, n)) => Recorded(n) = Revisions(SourcesOf(n))
    BY DEF TimesInv
  <1>3. ASSUME NEW s \in Source, Edit(s)
        PROVE  (/\ Recorded(n) \subseteq Source \X Nat
                /\ \A p \in Recorded(n) : p[2] <= rev[p[1]] /\ (Newer(p[1], n) => p[2] < rev[p[1]])
                /\ (\A r \in SourcesOf(n) : ~Newer(r, n)) => Recorded(n) = Revisions(SourcesOf(n)))'
    <2>1. /\ product' = product /\ clock' = clock + 1
          /\ rev' = [rev EXCEPT ![s] = @ + 1] /\ mtime' = [mtime EXCEPT ![s] = clock']
      BY <1>3 DEF Edit
    <2>2. (Recorded(n))' = Recorded(n) /\ product[n] # Absent
      BY <2>1 DEF Recorded
    <2>3. (Recorded(n) \subseteq Source \X Nat)'
      BY <1>2, <2>2
    <2>4. ASSUME NEW p \in Recorded(n)
          PROVE  p[2] <= rev'[p[1]] /\ ((Newer(p[1], n))' => p[2] < rev'[p[1]])
      <3>1. p[1] \in Source /\ p[2] \in Nat /\ p[2] <= rev[p[1]] /\ (Newer(p[1], n) => p[2] < rev[p[1]])
        BY <1>2, <2>2, <2>4
      <3>2. CASE p[1] = s
        BY <1>1, <2>1, <3>1, <3>2
      <3>3. CASE p[1] # s
        <4>1. rev'[p[1]] = rev[p[1]] /\ mtime'[p[1]] = mtime[p[1]]
          BY <1>1, <2>1, <3>1, <3>3
        <4> QED
          BY <2>1, <3>1, <4>1 DEF Newer
      <3> QED
        BY <3>2, <3>3
    <2>5. ASSUME (\A r \in SourcesOf(n) : ~Newer(r, n))'
          PROVE  (Recorded(n) = Revisions(SourcesOf(n)))'
      <3>1. s \notin SourcesOf(n)
        BY <1>1, <2>1, <2>5 DEF Newer, SourcesOf
      <3>2. \A r \in SourcesOf(n) : rev'[r] = rev[r] /\ mtime'[r] = mtime[r]
        BY <1>1, <2>1, <3>1
      <3>3. \A r \in SourcesOf(n) : ~Newer(r, n)
        BY <2>1, <2>5, <3>2 DEF Newer, SourcesOf
      <3>4. (Revisions(SourcesOf(n)))' = Revisions(SourcesOf(n))
        BY <3>2 DEF Revisions, SourcesOf
      <3> QED
        BY <1>2, <2>2, <3>3, <3>4
    <2> QED
      BY <2>2, <2>3, <2>4, <2>5
  <1>4. ASSUME Make(n)
        PROVE  (/\ Recorded(n) \subseteq Source \X Nat
                /\ \A p \in Recorded(n) : p[2] <= rev[p[1]] /\ (Newer(p[1], n) => p[2] < rev[p[1]])
                /\ (\A s \in SourcesOf(n) : ~Newer(s, n)) => Recorded(n) = Revisions(SourcesOf(n)))'
    <2>1. /\ product' = [product EXCEPT ![n] = [time |-> clock, made |-> Recipe(n)]]
          /\ UNCHANGED << rev, mtime, clock >>
      BY <1>4 DEF Make
    <2>2. product'[n].time = clock /\ product'[n].made = Recipe(n)
      BY <1>1, <2>1
    <2>3. (Recorded(n))' = Revisions(SourcesOf(n))
      BY <2>2, RecipeParts, FilesAreNoTargets, ProjectAssumption, <1>1 DEF Recorded
    <2>4. (Revisions(SourcesOf(n)))' = Revisions(SourcesOf(n))
      BY <2>1 DEF Revisions, SourcesOf
    <2>5. Revisions(SourcesOf(n)) \subseteq Source \X Nat
      BY <1>1 DEF Revisions
    <2>6. \A p \in Revisions(SourcesOf(n)) :
              p[2] = rev[p[1]] /\ p[1] \in Source /\ rev[p[1]] \in Nat
      BY <1>1 DEF Revisions
    <2>7. \A s \in Source : ~(Newer(s, n))'
      BY <1>1, <2>1, <2>2 DEF Newer
    <2> QED
      BY <2>1, <2>3, <2>4, <2>5, <2>6, <2>7
  <1>5. CASE product'[n] = product[n] /\ UNCHANGED << rev, mtime >>
    <2>1. (Recorded(n))' = Recorded(n) /\ (Revisions(SourcesOf(n)))' = Revisions(SourcesOf(n))
      BY <1>5 DEF Recorded, Revisions, SourcesOf
    <2> QED
      BY <1>2, <1>5, <2>1 DEF Newer, SourcesOf
  <1>6. CASE ~(\E s \in Edited : Edit(s)) /\ ~Make(n)
    <2>1. UNCHANGED << rev, mtime >>
      BY <1>6 DEF Next, ChangeOptions, Clean, Start, Finish, Leave, Expand, Skip, Make, Fail, Interrupt
    <2>2. CASE \E t \in Targets : Clean(t)
      BY <1>1, <1>5, <2>1, <2>2 DEF Clean
    <2>3. CASE \E m \in Node : Make(m)
      BY <1>1, <1>5, <1>6, <2>1, <2>3 DEF Make
    <2>4. CASE ~(\E t \in Targets : Clean(t)) /\ ~(\E m \in Node : Make(m))
      <3>1. product' = product
        BY <1>6, <2>4 DEF Next, ChangeOptions, Start, Finish, Leave, Expand, Skip, Fail, Interrupt
      <3> QED
        BY <1>5, <2>1, <3>1
    <2> QED
      BY <2>2, <2>3, <2>4
  <1> QED
    BY <1>3, <1>4, <1>6, ProjectAssumption

\* What is compiled in a build stays as new as its sources.
LEMMA CompiledStep ==
    ASSUME TypeOK, CompiledInv, Next
    PROVE  CompiledInv'
  <1> USE DEF CompiledInv
  <1>1. CASE \/ (\E s \in Edited : Edit(s)) \/ (\E t \in Changed : ChangeOptions(t))
             \/ \E t \in Targets : Clean(t)
    BY <1>1 DEF Edit, ChangeOptions, Clean
  <1>2. CASE \E chosen \in Selections : Start(chosen)
    BY <1>2 DEF Start
  <1>3. CASE Finish \/ \E how \in Interrupts : Interrupt(how)
    <2>1. /\ phase' = "idle" /\ built' = {} /\ marked' = {} /\ ran' = {} /\ covered' \in {{}, built}
          /\ UNCHANGED << mtime, product >>
      BY <1>3 DEF Finish, Leave, Interrupt
    <2> QED
      BY <2>1 DEF ShouldCompile, Newer
  <1>4. CASE \E t \in Targets : Expand(t)
    BY <1>4 DEF Expand, ShouldCompile, Newer
  <1>5. ASSUME NEW n \in Node, Skip(n) PROVE CompiledInv'
    <2>1. /\ built' = built \cup {n} /\ UNCHANGED << disk, phase, covered >> /\ phase = "building"
          /\ n \in Files => ~ShouldCompile(n)
      BY <1>5 DEF Skip, IsReady, Building, IsUpToDate
    <2>2. \A f \in Files : (ShouldCompile(f))' = ShouldCompile(f)
      BY <2>1 DEF ShouldCompile, Newer
    <2> QED
      BY <2>1, <2>2
  <1>6. ASSUME NEW n \in Node, Make(n) PROVE CompiledInv'
    <2>1. /\ product' = [product EXCEPT ![n] = [time |-> clock, made |-> Recipe(n)]]
          /\ built' = built \cup {n} /\ UNCHANGED << mtime, phase, covered >> /\ phase = "building"
          /\ n \notin built /\ DOMAIN product = Node
      BY <1>6 DEF Make, IsReady, MayTake, Building, TypeOK
    <2>2. ASSUME NEW f \in Files \cap (built' \cup covered') PROVE ~(ShouldCompile(f))'
      <3>1. CASE f = n
        <4>1. product'[f].time = clock
          BY <2>1, <3>1
        <4>2. \A s \in Source : mtime[s] <= clock /\ mtime[s] \in Int /\ clock \in Int
          BY DEF TypeOK
        <4>3. {f} \cup Includes[f] \subseteq Source
          BY FilesAreNoTargets DEF Source
        <4> QED
          BY <2>1, <4>1, <4>2, <4>3 DEF ShouldCompile, Newer
      <3>2. CASE f # n
        <4>1. product'[f] = product[f] /\ ~ShouldCompile(f)
          BY <2>1, <2>2, <3>2 DEF Node
        <4> QED
          BY <2>1, <4>1 DEF ShouldCompile, Newer
      <3> QED
        BY <3>1, <3>2
    <2> QED
      BY <2>1, <2>2
  <1>7. CASE \E n \in Node : Fail(n)
    BY <1>7 DEF Fail, IsReady, Building, ShouldCompile, Newer
  <1> QED
    BY <1>1, <1>2, <1>3, <1>4, <1>5, <1>6, <1>7 DEF Next

\* A node whose product is fresh is up to date.
LEMMA FreshIsUpToDate ==
    ASSUME TypeOK, TimesInv, NEW n \in Node, IsFresh(n), n \notin marked
    PROVE  IsUpToDate(n)
  <1>1. product[n] # Absent
    <2>1. << Recipe(n)[1], Recipe(n)[2] >> # << >>
      OBVIOUS
    <2> QED
      BY <2>1, RecipeParts DEF IsFresh, Absent
  <1>2. ASSUME n \in Files \cup Custom, NEW s \in SourcesOf(n) PROVE ~Newer(s, n)
    <2>1. Recorded(n) = Revisions(SourcesOf(n))
      BY <1>2, RecipeParts, FilesAreNoTargets, ProjectAssumption DEF Recorded, IsFresh
    <2>2. << s, rev[s] >> \in Recorded(n) /\ s \in Source /\ rev[s] \in Int
      BY <1>2, <2>1, SourcesAreSources DEF Revisions, TypeOK
    <2>3. Newer(s, n) => rev[s] < rev[s]
      BY <1>1, <1>2, <2>2 DEF TimesInv
    <2> QED
      BY <2>2, <2>3
  <1>3. n \in Files => ~ShouldCompile(n)
    BY <1>2 DEF ShouldCompile, SourcesOf
  <1>4. n \in Custom => \A s \in FilesOf[n] : ~Newer(s, n)
    BY <1>2, FilesAreNoTargets, ProjectAssumption DEF SourcesOf
  <1> QED
    BY <1>1, <1>3, <1>4 DEF IsUpToDate

\* A build that has nothing to do does nothing.
LEMMA IdleStep ==
    ASSUME TypeOK, TimesInv, IdleInv, Next
    PROVE  IdleInv'
  <1> SUFFICES ASSUME phase' = "building", wasFresh'
               PROVE  marked' = {} /\ ran' = {} /\ (\A n \in InTree : IsFresh(n))'
    BY DEF IdleInv
  <1>1. ASSUME NEW chosen \in Selections, Start(chosen)
        PROVE  marked' = {} /\ ran' = {} /\ (\A n \in InTree : IsFresh(n))'
    <2>1. /\ \A n \in InTree' : IsFresh(n)
          /\ \A t \in scope' \ Custom : savedHash[t] = options[t]
          /\ marked' = {t \in scope' \ Custom : savedHash[t] # options[t]}
          /\ ran' = {} /\ UNCHANGED disk
      BY <1>1 DEF Start, MarkChanges
    <2>2. \A n \in InTree' : (IsFresh(n))'
      BY <2>1 DEF IsFresh, Recipe, Revisions
    <2> QED
      BY <2>1, <2>2
  <1>2. CASE ~(\E chosen \in Selections : Start(chosen))
    <2>1. phase = "building" /\ wasFresh
      BY <1>2 DEF Next, Edit, ChangeOptions, Clean, Finish, Leave, Expand, Skip, Make, Fail, Interrupt
    <2>2. marked = {} /\ ran = {} /\ \A n \in InTree : IsFresh(n)
      BY <2>1 DEF IdleInv
    <2>3. \A n \in InTree : IsUpToDate(n)
      BY <2>2, FreshIsUpToDate DEF InTree
    <2>4. UNCHANGED << marked, ran, disk, scope >>
      <3>1. \A n \in Node : ~Make(n) /\ ~Fail(n)
        BY <2>3 DEF Make, Fail, IsReady, MayTake
      <3> QED
        BY <1>2, <2>1, <2>2, <3>1 DEF Next, Edit, ChangeOptions, Clean, Finish, Leave, Expand, Skip, Interrupt
    <2>5. InTree' = InTree /\ \A n \in InTree : (IsFresh(n))'
      BY <2>2, <2>4 DEF InTree, IsFresh, Recipe, Revisions
    <2> QED
      BY <2>2, <2>4, <2>5
  <1> QED
    BY <1>1, <1>2

\* RebuildInv holds for every project, whatever is edited, fails or is interrupted.
THEOREM RebuildInvariant == Spec => []RebuildInv
  <1>1. Init => RebuildInv
    <2> SUFFICES ASSUME Init PROVE RebuildInv
      OBVIOUS
    <2>1. TypeOK
      <3>1. /\ clock = 1 /\ faults = 0 /\ failed = FALSE /\ phase = "idle"
            /\ covered = {} /\ owed = {} /\ scope = {}
            /\ built = {} /\ marked = {} /\ expanded = {} /\ ran = {}
            /\ rev = [s \in Source |-> 0] /\ mtime = [s \in Source |-> 1]
            /\ options = [t \in Targets |-> "old"] /\ savedHash = [t \in Targets |-> "unknown"]
            /\ hash = savedHash /\ product = [n \in Node |-> Absent] /\ Absent.time = 0
        BY DEF Init, Absent
      <3>2. MaxRev \in Nat /\ MaxFaults \in Nat
        BY ProjectAssumption
      <3>3. /\ rev \in [Source -> 0 .. MaxRev] /\ mtime \in [Source -> 1 .. clock]
            /\ faults \in 0 .. MaxFaults /\ clock \in Nat \ {0}
            /\ \A n \in Node : product[n].time \in 0 .. clock
        BY <3>1, <3>2
      <3> QED
        BY <3>1, <3>3 DEF TypeOK
    <2>2. MadeInv /\ TimesInv /\ CompiledInv /\ IdleInv
      BY ProjectAssumption DEF Init, MadeInv, TimesInv, CompiledInv, IdleInv, Node
    <2> QED
      BY <2>1, <2>2 DEF RebuildInv
  <1>2. RebuildInv /\ [Next]_vars => RebuildInv'
    <2> SUFFICES ASSUME RebuildInv, [Next]_vars PROVE RebuildInv'
      OBVIOUS
    <2>1. CASE Next
      BY <2>1, TypeStep, MadeStep, TimesStep, CompiledStep, IdleStep DEF RebuildInv
    <2>2. CASE UNCHANGED vars
      <3>1. TypeOK'
        BY <2>2 DEF RebuildInv, TypeOK, InTree, vars
      <3>2. MadeInv' /\ CompiledInv'
        BY <2>2 DEF RebuildInv, MadeInv, CompiledInv, ShouldCompile, Newer, vars
      <3>3. TimesInv'
        BY <2>2 DEF RebuildInv, TimesInv, Recorded, SourcesOf, Revisions, Newer, vars
      <3>4. IdleInv'
        BY <2>2 DEF RebuildInv, IdleInv, InTree, IsFresh, Recipe, Revisions, vars
      <3> QED
        BY <3>1, <3>2, <3>3, <3>4 DEF RebuildInv
    <2> QED
      BY <2>1, <2>2
  <1> QED
    BY <1>1, <1>2, PTL DEF Spec

\* A build that begins with everything up to date runs no command (Gcc::shouldCompile and
\* the tests of createTargetJob and createCustomTargetJob).
THEOREM FreshBuildsAreIdle == Spec => []FreshMeansIdle
  <1>1. RebuildInv => FreshMeansIdle
    BY DEF RebuildInv, IdleInv, FreshMeansIdle
  <1> QED
    BY <1>1, RebuildInvariant, PTL

\* After a build that succeeded every object was compiled from its source and headers as they
\* are, whatever failed or was interrupted before.
THEOREM ObjectsAreCurrent == Spec => []ObjectsFollowSources
  <1>1. RebuildInv => ObjectsFollowSources
    <2> SUFFICES ASSUME RebuildInv, NEW f \in covered \cap Files
                 PROVE  product[f].made[2] = Recipe(f)[2]
      BY DEF ObjectsFollowSources
    <2>1. ~ShouldCompile(f)
      BY DEF RebuildInv, CompiledInv
    <2>2. \A s \in SourcesOf(f) : ~Newer(s, f)
      BY <2>1 DEF ShouldCompile, SourcesOf
    <2>3. product[f] # Absent
      <3>1. mtime[f] \in Int /\ mtime[f] >= 1 /\ f \in SourcesOf(f)
        BY FilesAreNoTargets DEF RebuildInv, TypeOK, SourcesOf
      <3> QED
        BY <2>2, <3>1 DEF Newer, Absent
    <2>4. product[f].made[2] = Revisions(SourcesOf(f))
      BY <2>2, <2>3 DEF RebuildInv, TimesInv, Recorded
    <2> QED
      BY <2>4, RecipeParts, FilesAreNoTargets
  <1> QED
    BY <1>1, RebuildInvariant, PTL
-----------------------------------------------------------------------------
(* What is owed *)

\* What is ready has all it is made of, and its file list if it is a file.
LEMMA ReadyIs ==
    ASSUME TypeOK, NEW n \in Node, IsReady(n)
    PROVE  /\ phase = "building" /\ ~failed /\ n \notin built /\ Children(n) \subseteq built
           /\ \A m \in built : n \notin Children(m)
           /\ n \in Targets => n \in scope
           /\ n \in Files => TargetOf(n) \in expanded /\ TargetOf(n) \in scope
  BY FilesAreNoTargets DEF IsReady, MayTake, Building, InTree, TypeOK

\* What is skipped is there: an absent product is older than every source.
LEMMA SkippedIsThere ==
    ASSUME TypeOK, NEW n \in Node \ NeverRun, IsUpToDate(n)
    PROVE  product[n] # Absent
  <1>1. \A s \in Source : product[n] = Absent => Newer(s, n)
    BY DEF TypeOK, Newer, Absent
  <1>2. CASE n \in Files
    BY <1>1, <1>2, FilesAreNoTargets DEF IsUpToDate, ShouldCompile
  <1>3. CASE n \in Custom
    <2>1. FilesOf[n] \subseteq Source
      BY <1>3, ProjectAssumption
    <2> QED
      BY <1>1, <1>3, <2>1 DEF IsUpToDate, NeverRun
  <1>4. CASE n \in Targets \ Custom
    BY <1>4 DEF IsUpToDate
  <1> QED
    BY <1>2, <1>3, <1>4 DEF Node

\* What is skipped and not owed is fresh: the time stamps answer for the sources, the saved
\* hash for the options, and the marks for what it is made of.
LEMMA SkippedIsFresh ==
    ASSUME RebuildInv, HashInv, MarksInv, PartsInv,
           NEW n \in Node \ (owed \cup NeverRun), IsReady(n), IsUpToDate(n)
    PROVE  /\ IsFresh(n)
           /\ n \notin Custom => product[n].made[1] = options[OwnTarget(n)]
  <1>1. TypeOK /\ product[n] # Absent /\ n \notin marked
    BY SkippedIsThere DEF RebuildInv, IsUpToDate
  <1>2. product[n].made = << product[n].made[1], product[n].made[2] >>
    BY <1>1 DEF RebuildInv, MadeInv
  <1>3. n \in Files \cup Custom => Recorded(n) = Revisions(SourcesOf(n))
    <2>1. ASSUME n \in Files \cup Custom PROVE \A s \in SourcesOf(n) : ~Newer(s, n)
      BY <2>1, FilesAreNoTargets, ProjectAssumption DEF IsUpToDate, ShouldCompile, SourcesOf
    <2> QED
      BY <1>1, <2>1 DEF RebuildInv, TimesInv
  <1>4. ASSUME n \notin Custom PROVE product[n].made[1] = options[OwnTarget(n)]
    <2>1. OwnTarget(n) \in Targets \ Custom /\ OwnTarget(n) \in scope
      BY <1>1, <1>4, ReadyIs, FilesAreNoTargets DEF OwnTarget, Node
    <2>2. product[n].made[1] = savedHash[OwnTarget(n)]
      BY <1>1, <1>4, ReadyIs DEF HashInv, MadeFor
    <2>3. savedHash[OwnTarget(n)] = options[OwnTarget(n)]
      <3>1. CASE n \in Files
        BY <1>1, <2>1, <3>1, ReadyIs, FilesAreNoTargets DEF HashInv, OwnTarget
      <3>2. CASE n \notin Files
        BY <1>1, <2>1, <3>2, ReadyIs DEF HashInv, OwnTarget
      <3> QED
        BY <3>1, <3>2
    <2> QED
      BY <2>2, <2>3
  <1>5. ASSUME n \in Targets PROVE product[n].made[2] = Parts(n)
    <2>1. n \in scope /\ n \notin built /\ Children(n) \subseteq built
      BY <1>1, <1>5, ReadyIs
    <2>2. Children(n) \cap ran = {}
      BY <1>1, <2>1 DEF MarksInv
    <2> QED
      BY <1>1, <1>5, <2>1, <2>2 DEF PartsInv
  <1>6. product[n].made[1] = Recipe(n)[1] /\ product[n].made[2] = Recipe(n)[2]
    <2>1. CASE n \in Files
      <3>1. n \notin Custom /\ OwnTarget(n) = TargetOf(n)
        BY <2>1, FilesAreNoTargets, ProjectAssumption DEF OwnTarget
      <3> QED
        BY <1>3, <1>4, <2>1, <3>1, RecipeParts DEF Recorded
    <2>2. CASE n \in Custom
      <3>1. n \notin Files /\ n \in Targets
        BY <2>2, FilesAreNoTargets, ProjectAssumption
      <3> QED
        BY <1>3, <1>5, <2>2, <3>1, RecipeParts DEF Recorded
    <2>3. CASE n \in Targets \ Custom
      <3>1. OwnTarget(n) = n
        BY <2>3, FilesAreNoTargets DEF OwnTarget
      <3> QED
        BY <1>4, <1>5, <2>3, <3>1, RecipeParts
    <2> QED
      BY <2>1, <2>2, <2>3 DEF Node
  <1>7. Recipe(n) = << Recipe(n)[1], Recipe(n)[2] >>
    BY RecipeParts
  <1> QED
    BY <1>2, <1>4, <1>6, <1>7 DEF IsFresh

\* What is dealt with stays fresh in the build: nothing it is made of is made again.
LEMMA FreshStays ==
    ASSUME TypeOK, NEW n \in built, IsFresh(n), NEW m \in Node, IsReady(m),
           NEW v, product' = [product EXCEPT ![m] = v], UNCHANGED << rev, options >>
    PROVE  (IsFresh(n))'
  <1>1. n \in Node /\ n # m /\ Children(n) \subseteq built /\ m \notin built /\ DOMAIN product = Node
        /\ built \subseteq Node
    BY ReadyIs DEF TypeOK, InTree
  <1>2. /\ product'[n] = product[n]
        /\ \A c \in Children(n) : product'[c] = product[c]
    BY <1>1
  <1>3. (Recipe(n))' = Recipe(n)
    BY <1>2 DEF Recipe, Revisions
  <1> QED
    BY <1>2, <1>3 DEF IsFresh

\* What is not owed was made with the options whose hash is saved.
LEMMA HashStep ==
    ASSUME RebuildInv, HashInv, MarksInv, PartsInv, Next
    PROVE  HashInv'
  <1>1. TypeOK /\ CompiledInv
    BY DEF RebuildInv
  <1>2. CASE \/ (\E s \in Edited : Edit(s)) \/ (\E t \in Changed : ChangeOptions(t))
             \/ \E t \in Targets : Clean(t)
    <2>1. /\ phase = "idle" /\ phase' = "idle" /\ built = {} /\ built' = {} /\ savedHash' = savedHash
          /\ owed' = owed /\ \A n \in Node : product'[n] \in {product[n], Absent}
      BY <1>1, <1>2 DEF Edit, ChangeOptions, Clean, CompiledInv
    <2> QED
      BY <2>1 DEF HashInv, MadeFor, OwnTarget
  <1>3. CASE \E chosen \in Selections : Start(chosen)
    <2>1. /\ built = {} /\ built' = {} /\ UNCHANGED << disk, owed >> /\ scope' \subseteq Targets
          /\ hash' = [t \in Targets |-> IF t \in scope' \ Custom THEN options[t] ELSE savedHash[t]]
          /\ marked' = {t \in scope' \ Custom : savedHash[t] # options[t]} /\ expanded' = {}
      BY <1>1, <1>3 DEF Start, MarkChanges, CompiledInv, Below
    <2> QED
      BY <2>1 DEF HashInv, MadeFor, OwnTarget
  <1>4. CASE Finish \/ \E how \in Interrupts : Interrupt(how)
    <2>1. /\ built' = {} /\ phase' = "idle" /\ product' = product
          /\ owed' = owed \cup LeftOver(savedHash')
      BY <1>4 DEF Finish, Interrupt, Leave
    <2>2. ASSUME NEW n \in Node \ (Custom \cup owed'), product'[n] # Absent
          PROVE  product'[n].made[1] = (MadeFor(n))'
      <3>1. savedHash'[OwnTarget(n)] = MadeFor(n)
        BY <2>1, <2>2 DEF LeftOver
      <3>2. product[n].made[1] = MadeFor(n)
        BY <2>1, <2>2 DEF HashInv
      <3>3. (MadeFor(n))' = savedHash'[OwnTarget(n)]
        BY <2>1 DEF MadeFor, OwnTarget
      <3> QED
        BY <2>1, <3>1, <3>2, <3>3
    <2> QED
      BY <2>1, <2>2 DEF HashInv
  <1>5. ASSUME NEW t \in Targets, Expand(t) PROVE HashInv'
    <2>1. /\ UNCHANGED << product, options, savedHash, phase, scope, hash, built, owed >>
          /\ expanded' = expanded \cup {t} /\ marked \subseteq marked'
          /\ t \in marked => FilesOf[t] \subseteq marked'
      BY <1>5 DEF Expand
    <2> QED
      BY <2>1 DEF HashInv, MadeFor, OwnTarget
  <1>6. ASSUME NEW n \in Node, Skip(n) PROVE HashInv'
    <2>1. n \notin Custom \cup owed => product[n].made[1] = options[OwnTarget(n)]
      BY <1>6, SkippedIsFresh DEF Skip, NeverRun
    <2>2. built' = built \cup {n} /\ UNCHANGED << disk, phase, scope, hash, marked, expanded, owed >>
      BY <1>6 DEF Skip
    <2> QED
      BY <2>1, <2>2 DEF HashInv, MadeFor, OwnTarget
  <1>7. ASSUME NEW n \in Node, Make(n) PROVE HashInv'
    <2>1. /\ product' = [product EXCEPT ![n] = [time |-> clock, made |-> Recipe(n)]]
          /\ built' = built \cup {n} /\ marked \subseteq marked' /\ owed' = owed \ {n}
          /\ UNCHANGED << options, savedHash, phase, scope, hash, expanded >>
          /\ DOMAIN product = Node
      BY <1>1, <1>7 DEF Make, MarkAbove, TypeOK
    <2>2. product'[n].made[1] = Recipe(n)[1] /\ \A m \in Node \ {n} : product'[m] = product[m]
      BY <2>1
    <2>3. n \notin Custom => Recipe(n)[1] = options[OwnTarget(n)]
      BY RecipeParts, FilesAreNoTargets DEF OwnTarget, Node
    <2>4. ASSUME NEW m \in Node \ (Custom \cup owed'), product'[m] # Absent
          PROVE  product'[m].made[1] = (MadeFor(m))'
      <3>1. CASE m = n
        BY <2>1, <2>2, <2>3, <2>4, <3>1 DEF MadeFor, OwnTarget
      <3>2. CASE m # n
        <4>1. (MadeFor(m))' = MadeFor(m) /\ m \notin owed
          BY <2>1, <2>4, <3>2 DEF MadeFor, OwnTarget
        <4> QED
          BY <2>2, <2>4, <3>2, <4>1 DEF HashInv
      <3> QED
        BY <3>1, <3>2
    <2>5. HashInv!2'
      BY <2>1 DEF HashInv
    <2> QED
      BY <2>4, <2>5 DEF HashInv
  <1>8. CASE \E n \in Node : Fail(n)
    BY <1>8 DEF Fail, MarkAbove, HashInv, MadeFor, OwnTarget
  <1> QED
    BY <1>2, <1>3, <1>4, <1>5, <1>6, <1>7, <1>8 DEF Next

\* Targets are marked when the command of a part of them was run.
LEMMA MarksStep ==
    ASSUME RebuildInv, MarksInv, Next
    PROVE  MarksInv'
  <1>1. TypeOK /\ CompiledInv
    BY DEF RebuildInv
  <1>2. CASE \/ (\E s \in Edited : Edit(s)) \/ (\E t \in Changed : ChangeOptions(t))
             \/ (\E t \in Targets : Clean(t))
             \/ (\E t \in Targets : Expand(t)) \/ \E n \in Node : Skip(n)
    <2>1. UNCHANGED << scope, ran >> /\ marked \subseteq marked'
      BY <1>2 DEF Edit, ChangeOptions, Clean, Expand, Skip
    <2> QED
      BY <2>1 DEF MarksInv
  <1>3. CASE (\E chosen \in Selections : Start(chosen)) \/ Finish \/ \E how \in Interrupts : Interrupt(how)
    BY <1>3 DEF Start, Finish, Interrupt, Leave, MarksInv
  <1>4. ASSUME NEW n \in Node, Make(n) \/ Fail(n) PROVE MarksInv'
    <2>1. scope' = scope /\ ran' = ran \cup {n} /\ marked' = marked \cup (Above(n) \cap scope)
      BY <1>4 DEF Make, Fail, MarkAbove
    <2>2. \A t \in scope : n \in Children(t) => t \in Above(n)
      BY <1>1, ParentsAreAbove DEF TypeOK, Parents
    <2> QED
      BY <2>1, <2>2 DEF MarksInv
  <1> QED
    BY <1>2, <1>3, <1>4 DEF Next

\* What is not owed is made of what is there, until a part of it is made again.
LEMMA PartsStep ==
    ASSUME RebuildInv, PartsInv, FreshInv, Next
    PROVE  PartsInv'
  <1>1. TypeOK /\ CompiledInv
    BY DEF RebuildInv
  <1>2. CASE \/ (\E s \in Edited : Edit(s)) \/ (\E t \in Changed : ChangeOptions(t))
             \/ (\E t \in Targets : Expand(t)) \/ \E n \in Node : Fail(n)
    <2>1. UNCHANGED << product, built, owed >> /\ ran \subseteq ran'
      BY <1>2 DEF Edit, ChangeOptions, Expand, Fail
    <2> QED
      BY <2>1 DEF PartsInv, Parts
  <1>3. ASSUME NEW u \in Targets, Clean(u) PROVE PartsInv'
    <2>1. /\ product' = [n \in Node |-> IF n \in FilesOf[u] THEN Absent ELSE product[n]]
          /\ UNCHANGED << built, owed, ran >> /\ built = {}
      BY <1>1, <1>3 DEF Clean, CompiledInv
    <2> SUFFICES ASSUME NEW t \in Targets \ owed, product'[t] # Absent,
                        \A c \in Children(t) \cap Files : product'[c] # Absent
                 PROVE  product'[t].made[2] = (Parts(t))'
      BY <2>1 DEF PartsInv
    <2>2. /\ t \in Node /\ Children(t) \subseteq Node
          /\ \A c \in Children(t) : c \in FilesOf[u] => c \in Files
      BY ProjectAssumption DEF Node, Children, Source
    <2>3. product'[t] = product[t] /\ \A c \in Children(t) : product'[c] = product[c]
      BY <2>1, <2>2
    <2>4. (Parts(t))' = Parts(t)
      BY <2>3 DEF Parts
    <2> QED
      BY <2>1, <2>3, <2>4 DEF PartsInv
  <1>4. CASE \E chosen \in Selections : Start(chosen)
    <2>1. built = {} /\ built' = {} /\ ran = {} /\ ran' = {} /\ product' = product /\ owed' = owed
      BY <1>1, <1>4 DEF Start, CompiledInv
    <2> QED
      BY <2>1 DEF PartsInv, Parts
  <1>5. CASE Finish \/ \E how \in Interrupts : Interrupt(how)
    <2>1. built' = {} /\ product' = product /\ owed' = owed \cup LeftOver(savedHash')
      BY <1>5 DEF Finish, Interrupt, Leave
    <2> SUFFICES ASSUME NEW t \in Targets \ owed', product[t] # Absent
                 PROVE  \/ product[t].made[2] = Parts(t)
                        \/ \E c \in Children(t) \cap Files : product[c] = Absent
      BY <2>1 DEF PartsInv, Parts
    <2>2. t \in Node /\ t \notin owed /\ t \notin LeftOver(savedHash')
      BY <2>1 DEF Node
    <2>3. CASE t \in built
      <3>1. IsFresh(t)
        BY <2>2, <2>3 DEF FreshInv, NeverRun
      <3> QED
        BY <2>2, <3>1, RecipeParts DEF IsFresh
    <2>4. CASE t \notin built
      <3>1. Children(t) \cap built \cap ran = {}
        BY <2>2, <2>4 DEF LeftOver
      <3> QED
        BY <2>2, <2>4, <3>1 DEF PartsInv
    <2> QED
      BY <2>3, <2>4
  <1>6. ASSUME NEW n \in Node, Skip(n) PROVE PartsInv'
    <2>1. built' = built \cup {n} /\ UNCHANGED << product, owed, ran >>
      BY <1>6 DEF Skip
    <2>2. n \in Files => product[n] # Absent
      BY <1>1, <1>6, SkippedIsThere, FilesAreNoTargets, ProjectAssumption DEF Skip, NeverRun
    <2> QED
      BY <2>1, <2>2 DEF PartsInv, Parts
  <1>7. ASSUME NEW n \in Node, Make(n) PROVE PartsInv'
    <2>1. /\ product' = [product EXCEPT ![n] = [time |-> clock, made |-> Recipe(n)]]
          /\ built' = built \cup {n} /\ ran' = ran \cup {n} /\ owed' = owed \ {n}
          /\ DOMAIN product = Node
      BY <1>1, <1>7 DEF Make, TypeOK
    <2> SUFFICES ASSUME NEW t \in Targets \ (built' \cup owed'), product'[t] # Absent,
                        Children(t) \cap built' \cap ran' = {}
                 PROVE  \/ product'[t].made[2] = (Parts(t))'
                        \/ \E c \in Children(t) \cap Files : c \notin built' /\ product'[c] = Absent
      BY DEF PartsInv
    <2>2. t \in Node /\ t # n /\ n \notin Children(t) /\ Children(t) \subseteq Node
      BY <2>1, ProjectAssumption DEF Node, Children
    <2>3. product'[t] = product[t] /\ \A c \in Children(t) : product'[c] = product[c]
      BY <2>1, <2>2
    <2>4. (Parts(t))' = Parts(t)
      BY <2>3 DEF Parts
    <2>5. \/ product[t].made[2] = Parts(t)
          \/ \E c \in Children(t) \cap Files : c \notin built /\ product[c] = Absent
      BY <2>1, <2>2, <2>3 DEF PartsInv
    <2> QED
      BY <2>1, <2>2, <2>3, <2>4, <2>5
  <1> QED
    BY <1>2, <1>3, <1>4, <1>5, <1>6, <1>7 DEF Next

\* What was dealt with and is not owed is fresh.
LEMMA FreshStep ==
    ASSUME RebuildInv, HashInv, MarksInv, PartsInv, FreshInv, Next
    PROVE  FreshInv'
  <1>1. TypeOK /\ CompiledInv
    BY DEF RebuildInv
  <1>2. CASE \/ (\E s \in Edited : Edit(s)) \/ (\E t \in Changed : ChangeOptions(t))
             \/ (\E t \in Targets : Clean(t)) \/ \E chosen \in Selections : Start(chosen)
    <2>1. built' = {} /\ covered' = {}
      BY <1>1, <1>2 DEF Edit, ChangeOptions, Clean, Start, CompiledInv
    <2> QED
      BY <2>1 DEF FreshInv
  <1>3. CASE \/ Finish \/ (\E how \in Interrupts : Interrupt(how))
             \/ (\E t \in Targets : Expand(t)) \/ \E n \in Node : Fail(n)
    <2>1. /\ built' \cup covered' \subseteq built \cup covered /\ owed \subseteq owed'
          /\ UNCHANGED << rev, options, product >>
      BY <1>3 DEF Finish, Interrupt, Leave, Expand, Fail
    <2>2. NeverRun' = NeverRun /\ \A n : (IsFresh(n))' <=> IsFresh(n)
      BY <2>1 DEF NeverRun, IsFresh, Recipe, Revisions
    <2> QED
      BY <2>1, <2>2 DEF FreshInv
  <1>4. ASSUME NEW n \in Node, Skip(n) PROVE FreshInv'
    <2>1. n \notin owed \cup NeverRun => IsFresh(n)
      BY <1>4, SkippedIsFresh DEF Skip
    <2>2. built' = built \cup {n} /\ UNCHANGED << rev, options, product, covered, owed >>
      BY <1>4 DEF Skip
    <2>3. NeverRun' = NeverRun /\ \A m : (IsFresh(m))' <=> IsFresh(m)
      BY <2>2 DEF NeverRun, IsFresh, Recipe, Revisions
    <2> QED
      BY <2>1, <2>2, <2>3 DEF FreshInv
  <1>5. ASSUME NEW n \in Node, Make(n) PROVE FreshInv'
    <2>1. /\ product' = [product EXCEPT ![n] = [time |-> clock, made |-> Recipe(n)]]
          /\ built' = built \cup {n} /\ UNCHANGED << rev, options, covered >> /\ owed' = owed \ {n}
          /\ DOMAIN product = Node /\ IsReady(n) /\ phase = "building"
      BY <1>1, <1>5 DEF Make, TypeOK, IsReady, Building
    <2>2. covered' = {} /\ n \notin Children(n) /\ n \notin built
      BY <1>1, <2>1, ReadyIs DEF CompiledInv
    <2>3. (IsFresh(n))'
      <3>1. Children(n) \subseteq Node
        BY ProjectAssumption DEF Children, Node
      <3>2. \A c \in Children(n) : product'[c] = product[c]
        BY <2>1, <2>2, <3>1
      <3>3. (Recipe(n))' = Recipe(n)
        BY <2>1, <3>2 DEF Recipe, Revisions
      <3> QED
        BY <2>1, <3>3 DEF IsFresh
    <2>4. ASSUME NEW m \in built, m \notin owed', m \notin NeverRun' PROVE (IsFresh(m))'
      <3>1. m \in Node /\ m # n
        BY <1>1, <2>2 DEF TypeOK, InTree
      <3>2. m \notin NeverRun
        BY <2>1, <2>4, <3>1 DEF NeverRun
      <3>3. IsFresh(m)
        BY <2>1, <2>4, <3>1, <3>2 DEF FreshInv
      <3> QED
        BY <1>1, <2>1, <3>3, FreshStays
    <2> QED
      BY <2>1, <2>2, <2>3, <2>4 DEF FreshInv
  <1> QED
    BY <1>2, <1>3, <1>4, <1>5 DEF Next

\* What is not owed follows its parts and its options, over any number of builds of any
\* targets, edits, failures and interruptions.
THEOREM OwedInvariant == Spec => []OwedInv
  <1>1. Init => OwedInv
    BY DEF Init, OwedInv, HashInv, MarksInv, PartsInv, FreshInv, Node
  <1>2. RebuildInv /\ OwedInv /\ [Next]_vars => OwedInv'
    <2> SUFFICES ASSUME RebuildInv, HashInv, MarksInv, PartsInv, FreshInv, [Next]_vars
                 PROVE  HashInv' /\ MarksInv' /\ PartsInv' /\ FreshInv'
      BY DEF OwedInv
    <2>1. CASE Next
      BY <2>1, HashStep, MarksStep, PartsStep, FreshStep
    <2>2. CASE UNCHANGED vars
      <3>1. HashInv'
        BY <2>2 DEF HashInv, MadeFor, OwnTarget, vars
      <3>2. MarksInv'
        BY <2>2 DEF MarksInv, vars
      <3>3. PartsInv'
        BY <2>2 DEF PartsInv, Parts, vars
      <3>4. FreshInv'
        BY <2>2 DEF FreshInv, NeverRun, IsFresh, Recipe, Revisions, vars
      <3> QED
        BY <3>1, <3>2, <3>3, <3>4
    <2> QED
      BY <2>1, <2>2
  <1> QED
    BY <1>1, <1>2, RebuildInvariant, PTL DEF Spec

\* After a build that succeeded everything it dealt with is what its sources, options and
\* dependencies now make it, unless an earlier build owes it.
THEOREM SuccessIsFresh == Spec => []SuccessMeansFresh
  <1>1. OwedInv => SuccessMeansFresh
    BY DEF OwedInv, FreshInv, SuccessMeansFresh
  <1> QED
    BY <1>1, OwedInvariant, PTL
=============================================================================
