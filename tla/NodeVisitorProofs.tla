------------------------- MODULE NodeVisitorProofs -------------------------
(***************************************************************************)
(* Proofs about NodeVisitor.tla: a visit of any graph is never inside one  *)
(* node twice, and that of a tree calls the visitor with each node once,   *)
(* after the nodes below it; and that the visits of TargetTree.tla are     *)
(* such visits.                                                            *)
(***************************************************************************)
EXTENDS TargetTree, Induction

Graph == next \in [Nodes -> Seq(Nodes)]

\* The children of a node are nodes.
LEMMA NextAreNodes ==
    ASSUME Graph, NEW n \in Nodes
    PROVE  /\ next[n] \in Seq(Nodes) /\ Len(next[n]) \in Nat /\ DOMAIN next[n] = 1 .. Len(next[n])
           /\ NextOf(n) \subseteq Nodes
           /\ \A k \in DOMAIN next[n] : next[n][k] \in Nodes /\ next[n][k] \in NextOf(n)
  BY DEF Graph, NextOf

\* What can be reached from S is S and what can be reached in one step from what can be reached, and
\* it is no more than that.
LEMMA ReachIs ==
    ASSUME Graph, NEW S \in SUBSET Nodes
    PROVE  /\ S \subseteq Reach(S) /\ Reach(S) \subseteq Nodes
           /\ \A n \in Reach(S) : NextOf(n) \subseteq Reach(S)
           /\ \A C \in SUBSET Nodes :
                 S \subseteq C /\ (\A n \in C : NextOf(n) \subseteq C) => Reach(S) \subseteq C
  <1>1. \A n \in Nodes : NextOf(n) \subseteq Nodes
    BY NextAreNodes
  <1> QED
    BY <1>1 DEF Reach

\* The root of a tree is nobody's child.
LEMMA RootIsNoChild ==
    ASSUME Graph, NEW r \in Nodes, IsTree(r), NEW n \in Reach({r})
    PROVE  r \notin NextOf(n)
  <1> DEFINE B == Reach(NextOf(r))
  <1>1. /\ NextOf(r) \subseteq B /\ B \subseteq Nodes
        /\ \A m \in B : NextOf(m) \subseteq B
    BY NextAreNodes, ReachIs
  <1>2. r \notin B
    BY ReachIs DEF IsTree, OnCycle
  <1> HIDE DEF B
  <1>3. Reach({r}) \subseteq {r} \cup B
    <2>1. \A C \in SUBSET Nodes :
              {r} \subseteq C /\ (\A m \in C : NextOf(m) \subseteq C) => Reach({r}) \subseteq C
      BY ReachIs
    <2>2. \A m \in {r} \cup B : NextOf(m) \subseteq {r} \cup B
      BY <1>1
    <2> QED
      BY <1>1, <2>1, <2>2
  <1> QED
    BY <1>1, <1>2, <1>3

\* In a tree a node is a child in one place only.
LEMMA OnePlace ==
    ASSUME Graph, NEW r \in Nodes, IsTree(r), NEW m \in Reach({r}), NEW n \in Reach({r}),
           NEW j \in DOMAIN next[m], NEW k \in DOMAIN next[n], next[m][j] = next[n][k]
    PROVE  m = n /\ j = k
  <1>1. m \in Nodes /\ n \in Nodes
    BY ReachIs
  <1>2. m = n
    BY <1>1, NextAreNodes DEF IsTree
  <1>3. \A i, l \in DOMAIN next[m] : next[m][i] = next[m][l] => i = l
    <2> DEFINE D == 1 .. Len(next[m])
               f == [i \in D |-> next[m][i]]
    <2>0. Len(next[m]) \in Int /\ 1 \in Int /\ Len(next[m]) \in Nat
      BY <1>1, NextAreNodes
    <2>5. IsFiniteSet(D) /\ Cardinality(D) = IF 1 > Len(next[m]) THEN 0 ELSE Len(next[m]) - 1 + 1
      BY <2>0, FS_Interval, Zenon
    <2>1. IsFiniteSet(D) /\ Cardinality(D) = Len(next[m]) /\ Len(next[m]) \in Nat
      BY <2>0, <2>5
    <2>2. f \in Surjection(D, NextOf(m))
      BY <1>1, NextAreNodes DEF Surjection, NextOf
    <2>3. IsFiniteSet(NextOf(m)) /\ Cardinality(NextOf(m)) = Len(next[m])
      BY <1>1, <2>1, <2>2, FS_Surjection DEF IsTree
    <2>4. f \in Injection(D, NextOf(m))
      BY <2>1, <2>2, <2>3, FS_SurjSameCardinalityImpliesInj
    <2> QED
      BY <1>1, <2>4, NextAreNodes DEF Injection, IsInjective
  <1> QED
    BY <1>2, <1>3

-----------------------------------------------------------------------------
\* The stack when a call of visitNode returns, ...
LEMMA TailIs ==
    ASSUME NEW S, NEW s \in Seq(S), s # << >>
    PROVE  /\ Tail(s) \in Seq(S) /\ Len(s) \in Nat \ {0} /\ Len(Tail(s)) = Len(s) - 1
           /\ DOMAIN Tail(s) = 1 .. Len(s) - 1 /\ DOMAIN s = 1 .. Len(s)
           /\ \A i \in 1 .. Len(s) - 1 : Tail(s)[i] = s[i + 1] /\ i + 1 \in DOMAIN s
           /\ Head(s) = s[1] /\ 1 \in DOMAIN s
  OBVIOUS

\* ... when one is made for the first node, ...
LEMMA FirstCall ==
    ASSUME NEW S, NEW e \in S
    PROVE  /\ << e >> \o << >> \in Seq(S) /\ Len(<< e >> \o << >>) = 1
           /\ DOMAIN (<< e >> \o << >>) = {1} /\ (<< e >> \o << >>)[1] = e
  OBVIOUS

\* ... and when one is made for a child, while the caller has come to its next.
LEMMA NestedCall ==
    ASSUME NEW S, NEW s \in Seq(S), s # << >>, NEW e \in S, NEW f \in S,
           NEW t, t = << e >> \o (<< f >> \o Tail(s))
    PROVE  /\ t \in Seq(S) /\ Len(t) = Len(s) + 1 /\ DOMAIN t = 1 .. Len(s) + 1
           /\ t[1] = e /\ t[2] = f /\ \A i \in 3 .. Len(s) + 1 : t[i] = s[i - 1]
  <1> DEFINE u == << f >> \o Tail(s)
  <1>1. /\ u \in Seq(S) /\ Len(u) = Len(s) /\ u[1] = f
        /\ \A i \in 2 .. Len(s) : u[i] = s[i]
    BY TailIs
  <1>2. Len(s) \in Nat
    OBVIOUS
  <1> HIDE DEF u
  <1>3. t = << e >> \o u
    BY DEF u
  <1>4. t \in Seq(S) /\ Len(t) = 1 + Len(u) /\ t[1] = e
    BY <1>1, <1>3
  <1>5. \A i \in 2 .. 1 + Len(u) : t[i] = u[i - 1]
    BY <1>1, <1>3
  <1>6. t[2] = u[1]
    BY <1>1, <1>2, <1>5, s # << >>
  <1>7. \A i \in 3 .. Len(s) + 1 : t[i] = s[i - 1]
    BY <1>1, <1>2, <1>5
  <1> QED
    BY <1>1, <1>2, <1>4, <1>6, <1>7

\* The visitor is called with one more node.
LEMMA OneMoreCalled ==
    ASSUME NEW S, NEW s \in Seq(S), NEW e \in S
    PROVE  /\ Append(s, e) \in Seq(S) /\ DOMAIN Append(s, e) = 1 .. Len(s) + 1 /\ Len(s) \in Nat
           /\ DOMAIN s = 1 .. Len(s) /\ Append(s, e)[Len(s) + 1] = e
           /\ \A i \in 1 .. Len(s) : Append(s, e)[i] = s[i]
  OBVIOUS

-----------------------------------------------------------------------------
Frame == Nodes \X (Nat \ {0})

\* The call of visitNode that is being executed
LEMMA TheCurrentCall ==
    ASSUME VisitorTypeOK, Running
    PROVE  /\ stack \in Seq(Frame) /\ stack # << >> /\ 1 \in DOMAIN stack
           /\ Current \in Nodes /\ Position \in Nat \ {0} /\ << Current, Position >> \in Frame
           /\ stack[1] = << Current, Position >> /\ visit[Current] = "Visiting"
           /\ Len(next[Current]) \in Nat /\ Graph
           /\ HasChild => Position \in DOMAIN next[Current] /\ Child \in Nodes
                          /\ Child \in NextOf(Current)
  <1>1. stack \in Seq(Frame) /\ stack # << >> /\ Graph
    BY DEF VisitorTypeOK, Running, Frame, Graph
  <1>2. 1 \in DOMAIN stack /\ Head(stack) = stack[1] /\ stack[1] \in Frame
    BY <1>1, TailIs
  <1>3. Current \in Nodes /\ Position \in Nat \ {0} /\ stack[1] = << Current, Position >>
    BY <1>2 DEF Current, Position, Frame
  <1>4. visit[Current] = "Visiting"
    BY <1>2, <1>3 DEF VisitorTypeOK
  <1>5. Len(next[Current]) \in Nat /\ DOMAIN next[Current] = 1 .. Len(next[Current])
    BY <1>1, <1>3, NextAreNodes
  <1>6. HasChild => Position \in DOMAIN next[Current]
    BY <1>3, <1>5 DEF HasChild
  <1>7. HasChild => Child \in Nodes /\ Child \in NextOf(Current)
    BY <1>1, <1>3, <1>6, NextAreNodes DEF Child
  <1> QED
    BY <1>1, <1>2, <1>3, <1>4, <1>5, <1>6, <1>7 DEF Frame

\* The stack once a child was entered
LEMMA TheChildIsCalled ==
    ASSUME VisitorTypeOK, EnterChild
    PROVE  /\ stack' \in Seq(Frame) /\ DOMAIN stack' = 1 .. Len(stack) + 1
           /\ Len(stack') = Len(stack) + 1 /\ Len(stack) \in Nat \ {0}
           /\ stack'[1] = << Child, 1 >> /\ stack'[2] = << Current, Position + 1 >>
           /\ \A i \in 3 .. Len(stack) + 1 : stack'[i] = stack[i - 1]
  <1>1. stack \in Seq(Frame) /\ stack # << >> /\ Len(stack) \in Nat \ {0}
    BY TheCurrentCall, TailIs DEF EnterChild
  <1>2. << Child, 1 >> \in Frame /\ << Current, Position + 1 >> \in Frame
    BY TheCurrentCall DEF EnterChild, Frame
  <1>3. stack' = << << Child, 1 >> >> \o (<< << Current, Position + 1 >> >> \o Tail(stack))
    BY DEF EnterChild, VisitNode
  <1> QED
    BY <1>1, <1>2, <1>3, NestedCall

\* A visit has its types and is never inside a node twice, whatever the graph.
LEMMA SafeInit == VisitorInit => VisitorTypeOK /\ StackInv
  BY DEF VisitorInit, VisitorTypeOK, StackInv, NoNodeTwice, VisitStatus

LEMMA SafeVisitNext ==
    ASSUME VisitorTypeOK, StackInv, VisitNext
    PROVE  VisitorTypeOK' /\ StackInv'
  <1> DEFINE h == Head(pending)
  <1>1. /\ h \in Nodes /\ pending' \in Seq(Nodes) /\ stack = << >>
        /\ next' = next /\ roots' = roots /\ called' = called /\ outcome' = outcome
    BY DEF VisitNext, VisitorTypeOK
  <1>2. CASE visit[h] # "NotVisited"
    <2>1. stack' = stack /\ visit' = visit
      BY <1>2 DEF VisitNext
    <2> QED
      BY <1>1, <2>1 DEF VisitorTypeOK, StackInv, NoNodeTwice
  <1>3. CASE visit[h] = "NotVisited"
    <2>1. stack' = << << h, 1 >> >> \o << >> /\ visit' = [visit EXCEPT ![h] = "Visiting"]
      BY <1>3 DEF VisitNext, VisitNode
    <2>2. << h, 1 >> \in Frame
      BY <1>1 DEF Frame
    <2>3. stack' \in Seq(Frame) /\ DOMAIN stack' = {1} /\ stack'[1] = << h, 1 >>
      BY <2>1, <2>2, FirstCall
    <2>4. visit' \in [Nodes -> VisitStatus] /\ visit'[h] = "Visiting"
          /\ \A n \in Nodes : n # h => visit'[n] = visit[n]
      BY <1>1, <2>1 DEF VisitorTypeOK, VisitStatus
    <2>5. VisitorTypeOK'
      BY <1>1, <2>3, <2>4 DEF VisitorTypeOK, Frame
    <2>6. \A i \in DOMAIN called : called[i] \in Nodes /\ called[i] # h /\ visit'[called[i]] = "Visited"
      BY <1>3, <2>4 DEF VisitorTypeOK, StackInv
    <2>7. Len(next[h]) \in Nat
      BY <1>1, NextAreNodes DEF VisitorTypeOK, Graph
    <2> QED
      BY <1>1, <2>3, <2>4, <2>5, <2>6, <2>7 DEF StackInv, NoNodeTwice
  <1> QED
    BY <1>2, <1>3

LEMMA SafeEnterChild ==
    ASSUME VisitorTypeOK, StackInv, EnterChild
    PROVE  VisitorTypeOK' /\ StackInv'
  <1>1. /\ next' = next /\ roots' = roots /\ pending' = pending /\ called' = called
        /\ outcome' = outcome /\ Running /\ HasChild /\ visit[Child] = "NotVisited"
        /\ visit' = [visit EXCEPT ![Child] = "Visiting"]
    BY DEF EnterChild, VisitNode
  <1>2. /\ Child \in Nodes /\ Current \in Nodes /\ Position \in Nat \ {0}
        /\ Len(next[Current]) \in Nat /\ Graph /\ visit[Current] = "Visiting"
        /\ stack[1] = << Current, Position >> /\ stack \in Seq(Frame)
    BY <1>1, TheCurrentCall
  <1>3. visit' \in [Nodes -> VisitStatus] /\ visit'[Child] = "Visiting"
        /\ \A n \in Nodes : n # Child => visit'[n] = visit[n]
    BY <1>1, <1>2 DEF VisitorTypeOK, VisitStatus
  <1>4. /\ stack' \in Seq(Frame) /\ DOMAIN stack' = 1 .. Len(stack) + 1 /\ Len(stack) \in Nat \ {0}
        /\ stack'[1] = << Child, 1 >> /\ stack'[2] = << Current, Position + 1 >>
        /\ \A i \in 3 .. Len(stack) + 1 : stack'[i] = stack[i - 1]
    BY TheChildIsCalled
  <1>5. \A i \in DOMAIN stack : stack[i] \in Frame /\ stack[i][1] \in Nodes /\ stack[i][1] # Child
                                /\ visit'[stack[i][1]] = "Visiting"
    BY <1>1, <1>2, <1>3 DEF StackInv, Frame
  <1>6. \A i \in DOMAIN called : called[i] \in Nodes /\ visit'[called[i]] = "Visited"
    BY <1>1, <1>3 DEF VisitorTypeOK, StackInv
  <1>7. DOMAIN stack = 1 .. Len(stack)
    BY <1>2
  <1>8. \A i \in 3 .. Len(stack) + 1 : i - 1 \in DOMAIN stack /\ i - 1 > 1
    BY <1>4, <1>7
  <1>9. \A i \in DOMAIN stack' : i = 1 \/ i = 2 \/ i \in 3 .. Len(stack) + 1
    BY <1>4
  <1>10. VisitorTypeOK'
    <2>1. \A i \in DOMAIN stack' : visit'[stack'[i][1]] = "Visiting"
      BY <1>2, <1>3, <1>4, <1>5, <1>8, <1>9
    <2> QED
      BY <1>1, <1>3, <1>4, <2>1 DEF VisitorTypeOK, Frame
  <1>11. ASSUME NEW i \in DOMAIN stack'
         PROVE  /\ visit'[stack'[i][1]] = "Visiting"
                /\ stack'[i][2] <= Len(next'[stack'[i][1]]) + 1
                /\ i > 1 => stack'[i][2] > 1
                            /\ stack'[i - 1][1] = next'[stack'[i][1]][stack'[i][2] - 1]
    <2>1. visit'[stack'[i][1]] = "Visiting"
      BY <1>10, <1>11 DEF VisitorTypeOK
    <2>2. CASE i = 1
      <3>1. Len(next[Child]) \in Nat
        BY <1>2, NextAreNodes
      <3> QED
        BY <1>1, <1>4, <2>1, <2>2, <3>1
    <2>3. CASE i = 2
      <3>1. stack'[i][2] = Position + 1 /\ stack'[i][1] = Current /\ stack'[i - 1][1] = Child
        BY <1>4, <2>3
      <3>2. Position <= Len(next[Current]) /\ Position + 1 > 1 /\ (Position + 1) - 1 = Position
        BY <1>1, <1>2 DEF HasChild
      <3>3. Child = next[Current][(Position + 1) - 1]
        BY <3>2 DEF Child
      <3> QED
        BY <1>1, <1>2, <2>1, <3>1, <3>2, <3>3
    <2>4. CASE i \in 3 .. Len(stack) + 1
      <3>1. stack'[i] = stack[i - 1] /\ i - 1 \in DOMAIN stack /\ i - 1 > 1
        BY <1>4, <1>8, <2>4
      <3>2. stack'[i - 1][1] = stack[(i - 1) - 1][1]
        <4>1. CASE i = 3
          BY <1>2, <1>4, <4>1
        <4>2. CASE i # 3
          <5>1. i - 1 \in 3 .. Len(stack) + 1
            BY <1>4, <2>4, <4>2
          <5> QED
            BY <1>4, <5>1
        <4> QED
          BY <4>1, <4>2
      <3>3. /\ stack[i - 1][2] <= Len(next[stack[i - 1][1]]) + 1 /\ stack[i - 1][2] > 1
            /\ stack[(i - 1) - 1][1] = next[stack[i - 1][1]][stack[i - 1][2] - 1]
        BY <3>1 DEF StackInv
      <3> QED
        BY <1>1, <2>1, <3>1, <3>2, <3>3
    <2> QED
      BY <1>9, <1>11, <2>2, <2>3, <2>4
  <1>12. ASSUME NEW i \in DOMAIN stack', NEW j \in DOMAIN stack', stack'[i][1] = stack'[j][1]
         PROVE  i = j
    <2>1. \A k, l \in DOMAIN stack : stack[k][1] = stack[l][1] => k = l
      BY DEF StackInv, NoNodeTwice
    <2>2. \A k \in DOMAIN stack' : (stack'[k][1] = Child <=> k = 1)
      BY <1>2, <1>1, <1>4, <1>5, <1>8, <1>9
    <2>3. \A k \in DOMAIN stack' : k # 1 => k - 1 \in DOMAIN stack /\ stack'[k][1] = stack[k - 1][1]
      <3>1. 2 - 1 \in DOMAIN stack /\ stack'[2][1] = stack[2 - 1][1]
        BY <1>2, <1>4, <1>7
      <3> QED
        BY <1>4, <1>8, <1>9, <3>1
    <2>4. i # 1 /\ j # 1 => i - 1 = j - 1
      BY <1>12, <2>1, <2>3
    <2>5. i \in Int /\ j \in Int
      BY <1>4, <1>12
    <2> QED
      BY <1>12, <2>2, <2>4, <2>5
  <1> QED
    BY <1>1, <1>6, <1>10, <1>11, <1>12 DEF StackInv, NoNodeTwice

\* A call returns, and the visitor may be called with its node before.
LEMMA SafeReturn ==
    ASSUME VisitorTypeOK, StackInv, MeetVisited \/ FinishNode
    PROVE  VisitorTypeOK' /\ StackInv'
  <1>1. /\ next' = next /\ roots' = roots /\ pending' = pending
        /\ outcome' = outcome /\ Running /\ stack' = Tail(stack)
    BY DEF MeetVisited, FinishNode
  <1>2. /\ Current \in Nodes /\ stack[1] = << Current, Position >> /\ stack \in Seq(Frame)
        /\ stack # << >> /\ visit[Current] = "Visiting" /\ 1 \in DOMAIN stack
    BY <1>1, TheCurrentCall
  <1>3. /\ stack' \in Seq(Frame) /\ DOMAIN stack' = 1 .. Len(stack) - 1 /\ Len(stack) \in Nat \ {0}
        /\ \A i \in DOMAIN stack' : stack'[i] = stack[i + 1] /\ i + 1 \in DOMAIN stack
    BY <1>1, <1>2, TailIs
  <1>4. \A i \in DOMAIN stack' : stack'[i][1] \in Nodes /\ stack'[i][1] # Current
    <2>1. \A i \in DOMAIN stack' : i + 1 # 1
      BY <1>3
    <2>2. \A k \in DOMAIN stack : stack[k][1] = stack[1][1] => k = 1
      BY <1>2 DEF StackInv, NoNodeTwice
    <2> QED
      BY <1>2, <1>3, <2>1, <2>2 DEF Frame
  <1>5. /\ visit' \in [Nodes -> VisitStatus] /\ \A n \in Nodes : n # Current => visit'[n] = visit[n]
        /\ called' \in Seq(Nodes)
        /\ \A i \in DOMAIN called' : visit'[called'[i]] = "Visited"
        /\ \A i, j \in DOMAIN called' : called'[i] = called'[j] => i = j
    <2>1. CASE MeetVisited
      BY <2>1 DEF MeetVisited, VisitorTypeOK, StackInv, NoNodeTwice
    <2>2. CASE FinishNode
      <3>1. called' = Append(called, Current) /\ visit' = [visit EXCEPT ![Current] = "Visited"]
        BY <2>2 DEF FinishNode
      <3>2. /\ visit' \in [Nodes -> VisitStatus] /\ visit'[Current] = "Visited"
            /\ \A n \in Nodes : n # Current => visit'[n] = visit[n]
        BY <1>2, <3>1 DEF VisitorTypeOK, VisitStatus
      <3>3. /\ called' \in Seq(Nodes) /\ DOMAIN called' = 1 .. Len(called) + 1 /\ Len(called) \in Nat
            /\ DOMAIN called = 1 .. Len(called) /\ called'[Len(called) + 1] = Current
            /\ \A i \in 1 .. Len(called) : called'[i] = called[i]
        BY <1>2, <3>1, OneMoreCalled DEF VisitorTypeOK
      <3>4. \A i \in DOMAIN called : called[i] \in Nodes /\ called[i] # Current
                                     /\ visit'[called[i]] = "Visited"
        BY <1>2, <3>2 DEF VisitorTypeOK, StackInv
      <3>5. \A i, j \in DOMAIN called : called[i] = called[j] => i = j
        BY DEF StackInv, NoNodeTwice
      <3>6. \A i \in DOMAIN called' : i \in DOMAIN called \/ i = Len(called) + 1
        BY <3>3
      <3>7. \A i \in DOMAIN called' : visit'[called'[i]] = "Visited"
        BY <3>2, <3>3, <3>4, <3>6
      <3>8. \A i, j \in DOMAIN called' : called'[i] = called'[j] => i = j
        BY <3>3, <3>4, <3>5, <3>6
      <3> QED
        BY <3>2, <3>3, <3>7, <3>8
    <2> QED
      BY <2>1, <2>2
  <1>6. \A i \in DOMAIN stack' : visit'[stack'[i][1]] = "Visiting"
    BY <1>3, <1>4, <1>5 DEF StackInv
  <1>7. VisitorTypeOK'
    BY <1>1, <1>3, <1>5, <1>6 DEF VisitorTypeOK, Frame
  <1>8. ASSUME NEW i \in DOMAIN stack'
        PROVE  /\ stack'[i][2] <= Len(next'[stack'[i][1]]) + 1
               /\ i > 1 => stack'[i][2] > 1
                           /\ stack'[i - 1][1] = next'[stack'[i][1]][stack'[i][2] - 1]
    <2>1. stack'[i] = stack[i + 1] /\ i + 1 \in DOMAIN stack /\ i \in Nat \ {0} /\ i + 1 > 1
      BY <1>3, <1>8
    <2>2. /\ stack[i + 1][2] <= Len(next[stack[i + 1][1]]) + 1
          /\ stack[(i + 1) - 1][1] = next[stack[i + 1][1]][stack[i + 1][2] - 1]
          /\ stack[i + 1][2] > 1
      BY <2>1 DEF StackInv
    <2>3. i > 1 => i - 1 \in DOMAIN stack' /\ (i - 1) + 1 = (i + 1) - 1
      BY <1>3, <1>8
    <2>4. i > 1 => stack'[i - 1] = stack[(i + 1) - 1]
      BY <1>3, <2>3
    <2> QED
      BY <1>1, <2>1, <2>2, <2>4
  <1>9. \A i, j \in DOMAIN stack' : stack'[i][1] = stack'[j][1] => i = j
    <2>1. \A k, l \in DOMAIN stack : stack[k][1] = stack[l][1] => k = l
      BY DEF StackInv, NoNodeTwice
    <2>2. \A i, j \in DOMAIN stack' : stack'[i][1] = stack'[j][1] => i + 1 = j + 1
      BY <1>3, <2>1
    <2> QED
      BY <1>3, <2>2
  <1> QED
    BY <1>5, <1>6, <1>7, <1>8, <1>9 DEF StackInv, NoNodeTwice

LEMMA SafeStep ==
    VisitorTypeOK /\ StackInv /\ [VisitStep]_visitorVars => VisitorTypeOK' /\ StackInv'
  <1> SUFFICES ASSUME VisitorTypeOK, StackInv, [VisitStep]_visitorVars
               PROVE  VisitorTypeOK' /\ StackInv'
    OBVIOUS
  <1>1. CASE Done \/ MeetAncestor
    BY <1>1 DEF Done, MeetAncestor, VisitorTypeOK, StackInv, NoNodeTwice
  <1>2. CASE UNCHANGED visitorVars
    BY <1>2 DEF visitorVars, VisitorTypeOK, StackInv, NoNodeTwice
  <1> QED
    BY <1>1, <1>2, SafeVisitNext, SafeEnterChild, SafeReturn DEF VisitStep

-----------------------------------------------------------------------------
(* The visit of a tree *)

Tree == Len(roots) = 1 /\ IsTree(roots[1])

InTree(r) ==
    /\ outcome # "cyclic" /\ (outcome = "done" => stack = << >> /\ pending = << >>)
    /\ AccountInv /\ EnteredInv(r) /\ PassedInv /\ RootInv(r)

\* A visit leaves the graph as it is.
LEMMA TreeStays ==
    ASSUME next' = next, roots' = roots
    PROVE  Tree' = Tree /\ \A n \in Nodes : Reach({n})' = Reach({n})
  <1>1. \A n : NextOf(n)' = NextOf(n)
    BY DEF NextOf
  <1>2. \A S : Reach(S)' = Reach(S)
    BY <1>1 DEF Reach
  <1>3. \A n : OnCycle(n)' = OnCycle(n)
    BY <1>1, <1>2 DEF OnCycle
  <1>4. \A n : IsTree(n)' = IsTree(n)
    BY <1>1, <1>2, <1>3 DEF IsTree
  <1> QED
    BY <1>2, <1>4 DEF Tree

\* In a tree the visit has not been to the child it comes to.
LEMMA ChildIsNew ==
    ASSUME VisitorTypeOK, Running, HasChild, NEW r \in Nodes, IsTree(r), EnteredInv(r)
    PROVE  visit[Child] = "NotVisited" /\ Child \in Reach({r}) /\ Child # r /\ Current \in Reach({r})
  <1>1. /\ Current \in Nodes /\ Position \in DOMAIN next[Current] /\ Child \in NextOf(Current)
        /\ Child \in Nodes /\ visit[Current] = "Visiting" /\ Graph
        /\ stack[1] = << Current, Position >> /\ 1 \in DOMAIN stack /\ Position \in Nat
    BY TheCurrentCall
  <1>2. Current \in Reach({r}) /\ Child \in Reach({r})
    BY <1>1, ReachIs DEF EnteredInv
  <1>3. Child # r
    BY <1>1, <1>2, RootIsNoChild
  <1>4. ASSUME visit[Child] # "NotVisited"
        PROVE  FALSE
    <2>1. PICK m \in Nodes : \E k \in DOMAIN next[m] :
              /\ visit[m] # "NotVisited" /\ next[m][k] = Child
              /\ \A i \in DOMAIN stack : stack[i][1] = m => k < stack[i][2]
      BY <1>1, <1>3, <1>4 DEF EnteredInv
    <2>2. PICK k \in DOMAIN next[m] :
              /\ visit[m] # "NotVisited" /\ next[m][k] = Child
              /\ \A i \in DOMAIN stack : stack[i][1] = m => k < stack[i][2]
      BY <2>1
    <2>3. m \in Reach({r})
      BY <2>2 DEF EnteredInv
    <2>4. next[m][k] = next[Current][Position]
      BY <2>2 DEF Child
    <2>5. m = Current /\ k = Position
      BY <1>1, <1>2, <2>3, <2>4, OnePlace
    <2>6. k < Position
      BY <1>1, <2>2, <2>5
    <2> QED
      BY <1>1, <2>5, <2>6
  <1> QED
    BY <1>2, <1>3, <1>4

LEMMA TreeVisitNext ==
    ASSUME VisitorTypeOK, StackInv, NEW r \in Nodes, Graph, InTree(r), VisitNext
    PROVE  InTree(r)'
  <1>1. /\ pending = << r >> /\ stack = << >> /\ \A n \in Nodes : visit[n] = "NotVisited"
        /\ next' = next /\ called' = called /\ outcome' = "visiting"
    BY DEF VisitNext, InTree, RootInv
  <1>2. pending' = << >> /\ Head(pending) = r
    BY <1>1 DEF VisitNext
  <1>3. /\ stack' = << << r, 1 >> >> \o << >> /\ visit' = [visit EXCEPT ![r] = "Visiting"]
    BY <1>1, <1>2 DEF VisitNext, VisitNode
  <1>4. << r, 1 >> \in Frame
    BY DEF Frame
  <1>5. Len(stack') = 1 /\ DOMAIN stack' = {1} /\ stack'[1] = << r, 1 >>
    BY <1>3, <1>4, FirstCall
  <1>6. visit'[r] = "Visiting" /\ \A n \in Nodes : n # r => visit'[n] = "NotVisited"
    BY <1>1, <1>3 DEF VisitorTypeOK
  <1>7. DOMAIN called = {}
    <2>1. \A i \in DOMAIN called : called[i] \in Nodes /\ visit[called[i]] = "Visited"
      BY DEF StackInv, VisitorTypeOK
    <2> QED
      BY <1>1, <2>1
  <1>8. AccountInv'
    BY <1>5, <1>6 DEF AccountInv
  <1>9. EnteredInv(r)'
    <2>1. r \in Reach({r}) /\ Reach({r})' = Reach({r})
      <3>1. Reach({r})' = Reach({r})
        BY <1>1 DEF Reach, NextOf
      <3> QED
        BY <3>1, ReachIs
    <2> QED
      BY <1>6, <2>1 DEF EnteredInv
  <1>10. PassedInv'
    BY <1>1, <1>5, <1>7 DEF PassedInv
  <1>11. RootInv(r)'
    BY <1>2, <1>5, <1>6 DEF RootInv
  <1> QED
    BY <1>1, <1>8, <1>9, <1>10, <1>11 DEF InTree

LEMMA TreeEnterChild ==
    ASSUME VisitorTypeOK, StackInv, NEW r \in Nodes, IsTree(r), InTree(r), EnterChild
    PROVE  InTree(r)'
  <1>1. /\ next' = next /\ pending' = pending /\ called' = called
        /\ outcome' = outcome /\ outcome = "visiting" /\ Running /\ HasChild
        /\ visit' = [visit EXCEPT ![Child] = "Visiting"] /\ visit[Child] = "NotVisited"
    BY DEF EnterChild, VisitNode, Running
  <1>2. /\ Child \in Nodes /\ Current \in Nodes /\ Position \in Nat \ {0} /\ Graph
        /\ Position \in DOMAIN next[Current] /\ visit[Current] = "Visiting"
        /\ stack[1] = << Current, Position >> /\ stack \in Seq(Frame) /\ 1 \in DOMAIN stack
    BY <1>1, TheCurrentCall
  <1>3. visit'[Child] = "Visiting" /\ \A n \in Nodes : n # Child => visit'[n] = visit[n]
    BY <1>1, <1>2 DEF VisitorTypeOK
  <1>4. /\ DOMAIN stack' = 1 .. Len(stack) + 1 /\ Len(stack) \in Nat \ {0}
        /\ Len(stack') = Len(stack) + 1
        /\ stack'[1] = << Child, 1 >> /\ stack'[2] = << Current, Position + 1 >>
        /\ \A i \in 3 .. Len(stack) + 1 : stack'[i] = stack[i - 1]
    BY TheChildIsCalled
  <1>5. DOMAIN stack = 1 .. Len(stack)
    BY <1>2
  <1>6. \A i \in 3 .. Len(stack) + 1 : i - 1 \in DOMAIN stack /\ i - 1 > 1
    BY <1>4, <1>5
  <1>7. \A i \in DOMAIN stack' : i = 1 \/ i = 2 \/ i \in 3 .. Len(stack) + 1
    BY <1>4
  <1>8. \A i \in DOMAIN stack : stack[i][1] \in Nodes /\ stack[i][1] # Child
    BY <1>1, <1>2 DEF StackInv, Frame
  <1>9. Child \in Reach({r}) /\ Reach({r})' = Reach({r})
    BY <1>1, ChildIsNew DEF InTree, Reach, NextOf
  <1>10. AccountInv'
    <2>1. ASSUME NEW n \in Nodes, visit'[n] = "Visiting"
          PROVE  \E i \in DOMAIN stack' : stack'[i][1] = n
      <3>1. CASE n = Child
        BY <1>4, <3>1
      <3>2. CASE n # Child
        <4>1. PICK i \in DOMAIN stack : stack[i][1] = n
          BY <1>3, <2>1, <3>2 DEF InTree, AccountInv
        <4>2. CASE i = 1
          <5>1. 2 \in DOMAIN stack' /\ stack'[2][1] = n
            BY <1>2, <1>4, <4>1, <4>2
          <5> QED
            BY <5>1
        <4>3. CASE i # 1
          <5>1. i + 1 \in 3 .. Len(stack) + 1 /\ (i + 1) - 1 = i /\ i + 1 \in DOMAIN stack'
            BY <1>4, <1>5, <4>1, <4>3
          <5>2. stack'[i + 1] = stack[i]
            BY <1>4, <5>1
          <5> QED
            BY <4>1, <5>1, <5>2
        <4> QED
          BY <4>2, <4>3
      <3> QED
        BY <3>1, <3>2
    <2>2. \A n \in Nodes : visit'[n] = "Visited" => \E i \in DOMAIN called' : called'[i] = n
      BY <1>1, <1>3 DEF InTree, AccountInv
    <2> QED
      BY <2>1, <2>2 DEF AccountInv
  <1>11. EnteredInv(r)'
    <2>1. ASSUME NEW n \in Nodes, visit'[n] # "NotVisited"
          PROVE  /\ n \in Reach({r})
                 /\ n # r => \E m \in Nodes : \E k \in DOMAIN next[m] :
                       /\ visit'[m] # "NotVisited" /\ next[m][k] = n
                       /\ \A i \in DOMAIN stack' : stack'[i][1] = m => k < stack'[i][2]
      <3>1. CASE n = Child
        <4>1. next[Current][Position] = n /\ visit'[Current] # "NotVisited"
          BY <1>2, <1>3, <3>1 DEF Child
        <4>2. ASSUME NEW i \in DOMAIN stack', stack'[i][1] = Current
              PROVE  Position < stack'[i][2]
          <5>1. i # 1
            BY <1>1, <1>2, <1>4, <4>2
          <5>2. i \notin 3 .. Len(stack) + 1
            BY <1>2, <1>4, <1>6, <4>2 DEF StackInv, NoNodeTwice
          <5>3. i = 2
            BY <1>7, <5>1, <5>2
          <5> QED
            BY <1>2, <1>4, <5>3
        <4> QED
          BY <1>2, <1>9, <3>1, <4>1, <4>2
      <3>2. CASE n # Child
        <4>1. visit[n] # "NotVisited"
          BY <1>3, <2>1, <3>2
        <4>2. n \in Reach({r})
          BY <4>1 DEF InTree, EnteredInv
        <4>3. ASSUME n # r
              PROVE  \E m \in Nodes : \E k \in DOMAIN next[m] :
                       /\ visit'[m] # "NotVisited" /\ next[m][k] = n
                       /\ \A i \in DOMAIN stack' : stack'[i][1] = m => k < stack'[i][2]
          <5>1. PICK m \in Nodes : \E k \in DOMAIN next[m] :
                    /\ visit[m] # "NotVisited" /\ next[m][k] = n
                    /\ \A i \in DOMAIN stack : stack[i][1] = m => k < stack[i][2]
            BY <4>1, <4>3 DEF InTree, EnteredInv
          <5>2. PICK k \in DOMAIN next[m] :
                    /\ visit[m] # "NotVisited" /\ next[m][k] = n
                    /\ \A i \in DOMAIN stack : stack[i][1] = m => k < stack[i][2]
            BY <5>1
          <5>3. m # Child /\ visit'[m] # "NotVisited" /\ k \in Nat
            BY <1>1, <1>2, <1>3, <5>2, NextAreNodes
          <5>4. ASSUME NEW i \in DOMAIN stack', stack'[i][1] = m
                PROVE  k < stack'[i][2]
            <6>1. i # 1
              BY <1>4, <5>3, <5>4
            <6>2. CASE i = 2
              <7>1. m = Current /\ stack'[i][2] = Position + 1
                BY <1>4, <5>4, <6>2
              <7>2. k < Position
                BY <1>2, <5>2, <7>1
              <7> QED
                BY <1>2, <5>3, <7>1, <7>2
            <6>3. CASE i \in 3 .. Len(stack) + 1
              BY <1>4, <1>6, <5>2, <5>4, <6>3
            <6> QED
              BY <1>7, <5>4, <6>1, <6>2, <6>3
          <5> QED
            BY <5>2, <5>3, <5>4
        <4> QED
          BY <4>2, <4>3
      <3> QED
        BY <3>1, <3>2
    <2> QED
      BY <1>1, <1>9, <2>1 DEF EnteredInv
  <1>12. PassedInv'
    <2>1. ASSUME NEW i \in DOMAIN stack', NEW k \in 1 .. stack'[i][2] - 1
          PROVE  visit'[next[stack'[i][1]][k]] = "Visited" \/ (i > 1 /\ k = stack'[i][2] - 1)
      <3>1. CASE i = 1
        BY <1>4, <2>1, <3>1
      <3>2. CASE i = 2
        <4>1. stack'[i][1] = Current /\ stack'[i][2] = Position + 1 /\ k \in 1 .. Position
          BY <1>2, <1>4, <2>1, <3>2
        <4>2. CASE k = Position
          BY <1>2, <3>2, <4>1, <4>2
        <4>3. CASE k # Position
          <5>1. k \in 1 .. stack[1][2] - 1
            BY <1>2, <4>1, <4>3
          <5>2. visit[next[Current][k]] = "Visited"
            BY <1>2, <5>1 DEF InTree, PassedInv
          <5>3. next[Current][k] \in Nodes /\ next[Current][k] # Child
            <6>1. k \in DOMAIN next[Current]
              BY <1>1, <1>2, <4>1, NextAreNodes DEF HasChild
            <6> QED
              BY <1>1, <1>2, <5>2, <6>1, NextAreNodes
          <5> QED
            BY <1>3, <4>1, <5>2, <5>3
        <4> QED
          BY <4>2, <4>3
      <3>3. CASE i \in 3 .. Len(stack) + 1
        <4>1. stack'[i] = stack[i - 1] /\ i - 1 \in DOMAIN stack /\ i > 1 /\ stack[i - 1] \in Frame
          BY <1>2, <1>4, <1>6, <3>3
        <4>2. k \in 1 .. stack[i - 1][2] - 1
          BY <2>1, <4>1
        <4>3. visit[next[stack[i - 1][1]][k]] = "Visited" \/ k = stack[i - 1][2] - 1
          BY <4>1, <4>2 DEF InTree, PassedInv
        <4>4. ASSUME visit[next[stack[i - 1][1]][k]] = "Visited"
              PROVE  visit'[next[stack[i - 1][1]][k]] = "Visited"
          <5>1. stack[i - 1][1] \in Nodes /\ stack[i - 1][2] \in Nat
            BY <4>1 DEF Frame
          <5>2. stack[i - 1][2] <= Len(next[stack[i - 1][1]]) + 1
            BY <4>1 DEF StackInv
          <5>3. k \in DOMAIN next[stack[i - 1][1]]
            BY <1>2, <4>2, <5>1, <5>2, NextAreNodes
          <5>4. next[stack[i - 1][1]][k] \in Nodes
            BY <1>2, <5>1, <5>3, NextAreNodes
          <5> QED
            BY <1>1, <1>3, <4>4, <5>4
        <4> QED
          BY <4>1, <4>3, <4>4
      <3> QED
        BY <1>7, <2>1, <3>1, <3>2, <3>3
    <2>2. \A i \in DOMAIN called : \A c \in NextOf(called[i]) : \E j \in 1 .. i - 1 : called[j] = c
      BY DEF InTree, PassedInv
    <2>3. \A n : NextOf(n)' = NextOf(n)
      BY <1>1 DEF NextOf
    <2> QED
      BY <1>1, <2>1, <2>2, <2>3 DEF PassedInv
  <1>13. RootInv(r)'
    <2>1. stack # << >>
      BY <1>1 DEF Running
    <2>2. pending = << >> /\ visit[r] # "NotVisited" /\ stack[Len(stack)][1] = r
      BY <2>1 DEF InTree, RootInv
    <2>3. visit'[r] # "NotVisited"
      BY <1>1, <1>3, <2>2
    <2>4. stack'[Len(stack) + 1][1] = stack[Len(stack)][1]
      <3>1. CASE Len(stack) = 1
        BY <1>2, <1>4, <3>1
      <3>2. CASE Len(stack) # 1
        <4>1. Len(stack) + 1 \in 3 .. Len(stack) + 1 /\ (Len(stack) + 1) - 1 = Len(stack)
          BY <1>4, <3>2
        <4> QED
          BY <1>4, <4>1
      <3> QED
        BY <3>1, <3>2
    <2> QED
      BY <1>1, <1>4, <2>2, <2>3, <2>4 DEF RootInv
  <1> QED
    BY <1>1, <1>10, <1>11, <1>12, <1>13 DEF InTree

LEMMA TreeFinishNode ==
    ASSUME VisitorTypeOK, StackInv, NEW r \in Nodes, IsTree(r), InTree(r), FinishNode
    PROVE  InTree(r)'
  <1>1. /\ next' = next /\ pending' = pending /\ called' = Append(called, Current)
        /\ outcome' = outcome /\ outcome = "visiting" /\ Running /\ ~HasChild
        /\ visit' = [visit EXCEPT ![Current] = "Visited"] /\ stack' = Tail(stack)
    BY DEF FinishNode, Running
  <1>2. /\ Current \in Nodes /\ Position \in Nat \ {0} /\ Graph /\ visit[Current] = "Visiting"
        /\ stack[1] = << Current, Position >> /\ stack \in Seq(Frame) /\ 1 \in DOMAIN stack
        /\ stack # << >>
    BY <1>1, TheCurrentCall
  <1>3. visit'[Current] = "Visited" /\ \A n \in Nodes : n # Current => visit'[n] = visit[n]
    BY <1>1, <1>2 DEF VisitorTypeOK
  <1>4. /\ DOMAIN stack' = 1 .. Len(stack) - 1 /\ Len(stack) \in Nat \ {0}
        /\ Len(stack') = Len(stack) - 1 /\ DOMAIN stack = 1 .. Len(stack)
        /\ \A i \in DOMAIN stack' : stack'[i] = stack[i + 1] /\ i + 1 \in DOMAIN stack
    BY <1>1, <1>2, TailIs
  <1>5. /\ DOMAIN called' = 1 .. Len(called) + 1 /\ Len(called) \in Nat
        /\ DOMAIN called = 1 .. Len(called) /\ called'[Len(called) + 1] = Current
        /\ \A i \in 1 .. Len(called) : called'[i] = called[i]
    BY <1>1, <1>2, OneMoreCalled DEF VisitorTypeOK
  <1>6. \A n \in Nodes : visit[n] = "Visited" => visit'[n] = "Visited"
    BY <1>3
  <1>7. \A n \in Nodes : visit'[n] # "NotVisited" <=> visit[n] # "NotVisited"
    BY <1>2, <1>3
  <1>8. \A n : NextOf(n)' = NextOf(n)
    BY <1>1 DEF NextOf
  <1>9. AccountInv'
    <2>1. ASSUME NEW n \in Nodes, visit'[n] = "Visiting"
          PROVE  \E i \in DOMAIN stack' : stack'[i][1] = n
      <3>1. n # Current
        BY <1>3, <2>1
      <3>2. PICK i \in DOMAIN stack : stack[i][1] = n
        BY <1>3, <2>1, <3>1 DEF InTree, AccountInv
      <3>3. i # 1
        BY <1>2, <3>1, <3>2
      <3>4. i - 1 \in DOMAIN stack' /\ (i - 1) + 1 = i
        BY <1>4, <3>2, <3>3
      <3>5. stack'[i - 1] = stack[i]
        BY <1>4, <3>4
      <3> QED
        BY <3>2, <3>4, <3>5
    <2>2. ASSUME NEW n \in Nodes, visit'[n] = "Visited"
          PROVE  \E i \in DOMAIN called' : called'[i] = n
      <3>1. CASE n = Current
        <4>1. Len(called) + 1 \in DOMAIN called'
          BY <1>5
        <4> QED
          BY <1>5, <3>1, <4>1
      <3>2. CASE n # Current
        <4>1. PICK i \in DOMAIN called : called[i] = n
          BY <1>3, <2>2, <3>2 DEF InTree, AccountInv
        <4>2. i \in DOMAIN called' /\ called'[i] = n
          BY <1>5, <4>1
        <4> QED
          BY <4>2
      <3> QED
        BY <3>1, <3>2
    <2> QED
      BY <2>1, <2>2 DEF AccountInv
  <1>10. EnteredInv(r)'
    <2>1. Reach({r})' = Reach({r})
      BY <1>1 DEF Reach, NextOf
    <2>2. ASSUME NEW n \in Nodes, visit'[n] # "NotVisited"
          PROVE  /\ n \in Reach({r})
                 /\ n # r => \E m \in Nodes : \E k \in DOMAIN next[m] :
                       /\ visit'[m] # "NotVisited" /\ next[m][k] = n
                       /\ \A i \in DOMAIN stack' : stack'[i][1] = m => k < stack'[i][2]
      <3>1. visit[n] # "NotVisited"
        BY <1>7, <2>2
      <3>2. n \in Reach({r})
        BY <3>1 DEF InTree, EnteredInv
      <3>3. ASSUME n # r
            PROVE  \E m \in Nodes : \E k \in DOMAIN next[m] :
                       /\ visit'[m] # "NotVisited" /\ next[m][k] = n
                       /\ \A i \in DOMAIN stack' : stack'[i][1] = m => k < stack'[i][2]
        <4>1. PICK m \in Nodes : \E k \in DOMAIN next[m] :
                  /\ visit[m] # "NotVisited" /\ next[m][k] = n
                  /\ \A i \in DOMAIN stack : stack[i][1] = m => k < stack[i][2]
          BY <3>1, <3>3 DEF InTree, EnteredInv
        <4>2. PICK k \in DOMAIN next[m] :
                  /\ visit[m] # "NotVisited" /\ next[m][k] = n
                  /\ \A i \in DOMAIN stack : stack[i][1] = m => k < stack[i][2]
          BY <4>1
        <4>3. \A i \in DOMAIN stack' : stack'[i][1] = m => k < stack'[i][2]
          BY <1>4, <4>2
        <4> QED
          BY <1>7, <4>2, <4>3
      <3> QED
        BY <3>2, <3>3
    <2>3. next' = next
      BY <1>1
    <2>4. ASSUME NEW n \in Nodes, visit'[n] # "NotVisited"
          PROVE  /\ n \in Reach({r})'
                 /\ n # r => \E m \in Nodes : \E k \in DOMAIN next'[m] :
                       /\ visit'[m] # "NotVisited" /\ next'[m][k] = n
                       /\ \A i \in DOMAIN stack' : stack'[i][1] = m => k < stack'[i][2]
      <3>1. n \in Reach({r})'
        BY <2>1, <2>2, <2>4
      <3>2. ASSUME n # r
            PROVE  \E m \in Nodes : \E k \in DOMAIN next'[m] :
                       /\ visit'[m] # "NotVisited" /\ next'[m][k] = n
                       /\ \A i \in DOMAIN stack' : stack'[i][1] = m => k < stack'[i][2]
        <4>1. PICK m \in Nodes : \E k \in DOMAIN next[m] :
                       /\ visit'[m] # "NotVisited" /\ next[m][k] = n
                       /\ \A i \in DOMAIN stack' : stack'[i][1] = m => k < stack'[i][2]
          BY <2>2, <2>4, <3>2
        <4>2. next'[m] = next[m]
          BY <2>3
        <4> QED
          BY <4>1, <4>2
      <3> QED
        BY <3>1, <3>2
    <2> QED
      BY <2>4, Zenon DEF EnteredInv
  <1>11. PassedInv'
    <2>1. ASSUME NEW i \in DOMAIN stack', NEW k \in 1 .. stack'[i][2] - 1
          PROVE  visit'[next[stack'[i][1]][k]] = "Visited" \/ (i > 1 /\ k = stack'[i][2] - 1)
      <3>1. stack'[i] = stack[i + 1] /\ i + 1 \in DOMAIN stack /\ i \in Nat \ {0}
            /\ i + 1 > 1 /\ stack[i + 1] \in Frame
        BY <1>2, <1>4, <2>1
      <3>2. k \in 1 .. stack[i + 1][2] - 1
        BY <2>1, <3>1
      <3>3. visit[next[stack[i + 1][1]][k]] = "Visited" \/ k = stack[i + 1][2] - 1
        BY <3>1, <3>2 DEF InTree, PassedInv
      <3>4. stack[i + 1][1] \in Nodes /\ stack[i + 1][2] \in Nat
            /\ stack[i + 1][2] <= Len(next[stack[i + 1][1]]) + 1
        BY <3>1 DEF Frame, StackInv
      <3>5. k \in DOMAIN next[stack[i + 1][1]]
        BY <1>2, <3>2, <3>4, NextAreNodes
      <3>6. next[stack[i + 1][1]][k] \in Nodes
        BY <1>2, <3>4, <3>5, NextAreNodes
      <3>7. CASE visit[next[stack[i + 1][1]][k]] = "Visited"
        BY <1>6, <3>1, <3>6, <3>7
      <3>8. CASE k = stack[i + 1][2] - 1 /\ i > 1
        BY <3>1, <3>8
      <3>9. CASE k = stack[i + 1][2] - 1 /\ i = 1
        <4>1. stack[(i + 1) - 1][1] = next[stack[i + 1][1]][stack[i + 1][2] - 1]
          BY <3>1 DEF StackInv
        <4>2. next[stack[i + 1][1]][k] = Current
          BY <1>2, <3>9, <4>1
        <4> QED
          BY <1>3, <3>1, <4>2
      <3>10. i > 1 \/ i = 1
        BY <3>1
      <3> QED
        BY <3>3, <3>7, <3>8, <3>9, <3>10
    <2>2. ASSUME NEW i \in DOMAIN called', NEW c \in NextOf(called'[i])
          PROVE  \E j \in 1 .. i - 1 : called'[j] = c
      <3>1. CASE i \in DOMAIN called
        <4>1. PICK j \in 1 .. i - 1 : called[j] = c
          BY <1>5, <2>2, <3>1 DEF InTree, PassedInv
        <4>2. called'[j] = c
          BY <1>5, <3>1, <4>1
        <4> QED
          BY <4>1, <4>2
      <3>2. CASE i = Len(called) + 1
        <4>1. PICK k \in DOMAIN next[Current] : next[Current][k] = c
          BY <1>5, <2>2, <3>2 DEF NextOf
        <4>2. k \in 1 .. stack[1][2] - 1 /\ k \in DOMAIN next[Current] /\ c \in Nodes
          BY <1>1, <1>2, <4>1, NextAreNodes DEF HasChild
        <4>3. visit[c] = "Visited"
          BY <1>2, <4>1, <4>2 DEF InTree, PassedInv
        <4>4. PICK j \in DOMAIN called : called[j] = c
          BY <4>2, <4>3 DEF InTree, AccountInv
        <4>5. j \in 1 .. i - 1 /\ called'[j] = c
          BY <1>5, <3>2, <4>4
        <4> QED
          BY <4>5
      <3> QED
        BY <1>5, <2>2, <3>1, <3>2
    <2>3. next' = next
      BY <1>1
    <2> QED
      BY <1>8, <2>1, <2>2, <2>3 DEF PassedInv
  <1>12. RootInv(r)'
    <2>1. pending = << >> /\ visit[r] # "NotVisited" /\ stack[Len(stack)][1] = r
      BY <1>2 DEF InTree, RootInv
    <2>2. ASSUME stack' # << >>
          PROVE  stack'[Len(stack')][1] = r
      <3>1. stack' \in Seq(Frame)
        BY <1>1, <1>2, TailIs
      <3>2. Len(stack') \in DOMAIN stack' /\ Len(stack') + 1 = Len(stack)
        BY <1>4, <2>2, <3>1
      <3> QED
        BY <1>4, <2>1, <3>2
    <2> QED
      BY <1>1, <1>7, <2>1, <2>2 DEF RootInv
  <1> QED
    BY <1>1, <1>9, <1>10, <1>11, <1>12 DEF InTree

LEMMA TreeUntouched ==
    ASSUME NEW r \in Nodes, InTree(r), UNCHANGED << next, pending, visit, stack, called >>,
           outcome' = outcome \/ (outcome' = "done" /\ stack = << >> /\ pending = << >>)
    PROVE  InTree(r)'
  <1>1. Reach({r})' = Reach({r}) /\ \A n : NextOf(n)' = NextOf(n)
    BY DEF Reach, NextOf
  <1>2. AccountInv' /\ PassedInv' /\ RootInv(r)'
    BY <1>1 DEF InTree, AccountInv, PassedInv, RootInv
  <1>3. EnteredInv(r)'
    <2>1. ASSUME NEW n \in Nodes, visit'[n] # "NotVisited"
          PROVE  /\ n \in Reach({r})'
                 /\ n # r => \E m \in Nodes : \E k \in DOMAIN next'[m] :
                       /\ visit'[m] # "NotVisited" /\ next'[m][k] = n
                       /\ \A i \in DOMAIN stack' : stack'[i][1] = m => k < stack'[i][2]
      <3>1. EnteredInv(r) /\ visit' = visit /\ stack' = stack /\ next' = next
        BY DEF InTree
      <3>2. n \in Reach({r})'
        BY <1>1, <2>1, <3>1 DEF EnteredInv
      <3> QED
        BY <2>1, <3>1, <3>2 DEF EnteredInv
    <2> QED
      BY <2>1, Zenon DEF EnteredInv
  <1> QED
    BY <1>2, <1>3 DEF InTree

\* What the invariant says while a tree is visited
LEMMA TheTree ==
    ASSUME VisitorInv, Tree
    PROVE  Graph /\ roots[1] \in Nodes /\ IsTree(roots[1]) /\ InTree(roots[1])
  <1>1. Graph /\ roots \in Seq(Nodes) /\ Len(roots) = 1 /\ IsTree(roots[1])
    BY DEF VisitorInv, VisitorTypeOK, Tree, Graph
  <1>2. roots[1] \in Nodes
    BY <1>1
  <1>3. TreeVisitInv
    BY DEF VisitorInv
  <1>4. InTree(roots[1])
    BY <1>1, <1>3 DEF TreeVisitInv, InTree
  <1> QED
    BY <1>1, <1>2, <1>4

\* A visit of a tree never comes to a node it has been to, so that it is neither refused nor cut short.
LEMMA TreeStep ==
    VisitorInv /\ [VisitStep]_visitorVars => TreeVisitInv'
  <1> SUFFICES ASSUME VisitorInv, [VisitStep]_visitorVars, Tree'
               PROVE  InTree(roots[1])'
    BY DEF TreeVisitInv, Tree, InTree
  <1> DEFINE r == roots[1]
  <1>1. next' = next /\ roots' = roots
    BY DEF VisitStep, visitorVars, VisitNext, Done, EnterChild, MeetAncestor, MeetVisited, FinishNode
  <1>2. Tree
    BY <1>1, TreeStays
  <1>3. VisitorTypeOK /\ StackInv /\ Graph /\ r \in Nodes /\ IsTree(r) /\ InTree(r)
    BY <1>2, TheTree DEF VisitorInv
  <1>4. ~MeetAncestor /\ ~MeetVisited
    BY <1>3, ChildIsNew DEF MeetAncestor, MeetVisited, InTree
  <1>5. r' = r
    BY <1>1
  <1> HIDE DEF r
  <1>6. CASE Done \/ UNCHANGED visitorVars
    <2>1. PICK n \in Nodes : n = r
      BY <1>3
    <2>2. /\ UNCHANGED << next, pending, visit, stack, called >>
          /\ outcome' = outcome \/ (outcome' = "done" /\ stack = << >> /\ pending = << >>)
      BY <1>6 DEF Done, visitorVars
    <2>3. InTree(n)'
      BY <1>3, <2>1, <2>2, TreeUntouched
    <2> QED
      BY <1>5, <2>1, <2>3 DEF r
  <1>7. CASE VisitNext
    <2>1. PICK n \in Nodes : n = r
      BY <1>3
    <2>2. InTree(n)'
      BY <1>3, <1>7, <2>1, TreeVisitNext
    <2> QED
      BY <1>5, <2>1, <2>2 DEF r
  <1>8. CASE EnterChild
    <2>1. PICK n \in Nodes : n = r
      BY <1>3
    <2>2. InTree(n)'
      BY <1>3, <1>8, <2>1, TreeEnterChild
    <2> QED
      BY <1>5, <2>1, <2>2 DEF r
  <1>9. CASE FinishNode
    <2>1. PICK n \in Nodes : n = r
      BY <1>3
    <2>2. InTree(n)'
      BY <1>3, <1>9, <2>1, TreeFinishNode
    <2> QED
      BY <1>5, <2>1, <2>2 DEF r
  <1> QED
    BY <1>4, <1>6, <1>7, <1>8, <1>9 DEF VisitStep, r

LEMMA TreeVisitInit == VisitorInit => TreeVisitInv
  <1> SUFFICES ASSUME VisitorInit, Len(roots) = 1
               PROVE  InTree(roots[1])
    BY DEF TreeVisitInv, InTree
  <1>1. /\ pending = << roots[1] >> /\ stack = << >> /\ called = << >> /\ outcome = "visiting"
        /\ \A n \in Nodes : visit[n] = "NotVisited"
    BY DEF VisitorInit
  <1>2. DOMAIN stack = {} /\ DOMAIN called = {}
    BY <1>1
  <1> QED
    BY <1>1, <1>2 DEF InTree, AccountInv, EnteredInv, PassedInv, RootInv

-----------------------------------------------------------------------------
LEMMA VisitorStarts == VisitorInit => VisitorInv
  BY SafeInit, TreeVisitInit DEF VisitorInv

\* The invariant of a visit of any graph from any roots (NodeVisitor::visitNode)
THEOREM VisitorInvariant == VisitorSpec => []VisitorInv
  <1>1. VisitorInv /\ [VisitStep]_visitorVars => VisitorInv'
    BY SafeStep, TreeStep DEF VisitorInv
  <1> QED
    BY <1>1, VisitorStarts, PTL DEF VisitorSpec

\* A finished visit of a tree has called the visitor with every node there is below the root.
LEMMA AllAreCalled ==
    ASSUME VisitorInv, Tree, outcome = "done"
    PROVE  {called[i] : i \in DOMAIN called} = Reach({roots[1]})
  <1> DEFINE r == roots[1]
             V == {called[i] : i \in DOMAIN called}
  <1>1. VisitorTypeOK /\ StackInv /\ Graph /\ r \in Nodes /\ InTree(r)
    BY TheTree DEF VisitorInv
  <1>2. stack = << >> /\ pending = << >> /\ DOMAIN stack = {}
    BY <1>1 DEF InTree
  <1>3. V \subseteq Nodes /\ \A n \in V : visit[n] = "Visited"
    BY <1>1 DEF VisitorTypeOK, StackInv
  <1>4. V \subseteq Reach({r})
    BY <1>1, <1>3 DEF InTree, EnteredInv
  <1>5. \A n \in Nodes : visit[n] # "NotVisited" => n \in V
    BY <1>1, <1>2 DEF InTree, AccountInv, VisitorTypeOK, VisitStatus
  <1>6. r \in V
    BY <1>1, <1>2, <1>5 DEF InTree, RootInv
  <1>7. \A n \in V : NextOf(n) \subseteq V
    <2>1. ASSUME NEW i \in DOMAIN called, NEW c \in NextOf(called[i])
          PROVE  c \in V
      <3>1. PICK j \in 1 .. i - 1 : called[j] = c
        BY <1>1, <2>1 DEF InTree, PassedInv
      <3>2. j \in DOMAIN called
        BY <1>1, <2>1, <3>1 DEF VisitorTypeOK
      <3> QED
        BY <3>1, <3>2
    <2> QED
      BY <2>1
  <1>8. Reach({r}) \subseteq V
    <2> HIDE DEF V
    <2>1. \A C \in SUBSET Nodes :
              {r} \subseteq C /\ (\A n \in C : NextOf(n) \subseteq C) => Reach({r}) \subseteq C
      BY <1>1, ReachIs
    <2> QED
      BY <1>3, <1>6, <1>7, <2>1
  <1> QED
    BY <1>4, <1>8

LEMMA VisitedAsTree == VisitorInv => TreeIsVisited
  BY AllAreCalled DEF VisitorInv, StackInv, TreeIsVisited, TreeVisitInv, Tree, PassedInv

\* TreeIsVisited: no node is visited twice; in a tree no visit is refused or cut short, the visitor is
\* called with all nodes, and with none before its children.
THEOREM TreeVisited == VisitorSpec => []TreeIsVisited
  BY VisitedAsTree, VisitorInvariant, PTL

-----------------------------------------------------------------------------
(* The visits of the constructors of NodeTree and JobFactory *)

\* What is left of a list of nodes is a list of nodes.
LEMMA OnlyIsSeq ==
    ASSUME NEW S, NEW s \in Seq(S), NEW A
    PROVE  Only(s, A) \in Seq(S \cap A)
  <1> DEFINE ss == [i \in DOMAIN s |-> IF s[i] \in A THEN << s[i] >> ELSE << >>]
  <1>1. DOMAIN s = 1 .. Len(s) /\ Len(s) \in Nat
    OBVIOUS
  <1>2. \A i \in DOMAIN s : ss[i] \in Seq(S \cap A)
    OBVIOUS
  <1>3. ss \in Seq(Seq(S \cap A)) /\ Len(ss) = Len(s)
    BY <1>1, <1>2
  <1> HIDE DEF ss
  <1>4. CASE Len(ss) = 0
    BY <1>3, <1>4 DEF Only, FlattenSeq, ss
  <1>5. CASE Len(ss) # 0
    BY <1>3, <1>5, FlattenBlocks DEF Only, ss
  <1> QED
    BY <1>4, <1>5

LEMMA ReverseIsSeq ==
    ASSUME NEW S, NEW s \in Seq(S)
    PROVE  Reverse(s) \in Seq(S)
  <1>1. \A i \in 1 .. Len(s) : Len(s) - i + 1 \in 1 .. Len(s) /\ s[Len(s) - i + 1] \in S
    OBVIOUS
  <1> QED
    BY <1>1 DEF Reverse

\* A visit begins with nothing visited.
LEMMA VisitStarts ==
    ASSUME Graph', NEW rs, rs \in Seq(Nodes), StartVisit(rs)
    PROVE  VisitorInv'
  <1>1. /\ roots' = rs /\ pending' = rs /\ stack' = << >> /\ called' = << >>
        /\ outcome' = "visiting" /\ visit' = [n \in Nodes |-> "NotVisited"]
    BY DEF StartVisit
  <1>2. VisitorInit'
    BY <1>1 DEF VisitorInit, Graph
  <1>3. VisitorInit' => VisitorInv'
    BY VisitorStarts, PTL
  <1> QED
    BY <1>2, <1>3

\* Every visit is one of a graph over the nodes, from a list of nodes.
VisitsInv ==
    /\ VisitorInv
    /\ declared \in [Targets -> Seq(Targets)] /\ targets \in Seq(Targets)
    /\ phase = "connect" => roots = << >> /\ pending = << >> /\ stack = << >> /\ called = << >>
                            /\ outcome = "done" /\ visit = [n \in Nodes |-> "NotVisited"]

LEMMA VisitsStart == TreeInit => VisitsInv
  <1> SUFFICES ASSUME TreeInit
               PROVE  VisitsInv
    OBVIOUS
  <1>1. /\ next \in [Nodes -> Seq(Nodes)] /\ roots = << >> /\ pending = << >> /\ stack = << >>
        /\ called = << >> /\ outcome = "done" /\ visit = [n \in Nodes |-> "NotVisited"]
    BY DEF TreeInit
  <1>2. VisitorInv
    BY <1>1 DEF VisitorInv, VisitorTypeOK, VisitStatus, StackInv, NoNodeTwice, TreeVisitInv
  <1>3. declared \in [Targets -> Seq(Targets)]
    BY DEF TreeInit
  <1>4. targets \in Seq(Targets)
    <2>1. Order \in Seq(Nodes) /\ Order # << >>
      BY TargetAssumption
    <2>2. /\ Tail(Order) \in Seq(Nodes) /\ Len(Tail(Order)) = Len(Order) - 1 /\ Len(Order) \in Nat
          /\ \A i \in 1 .. Len(Order) - 1 : Tail(Order)[i] = Order[i + 1] /\ i + 1 \in DOMAIN Order
      BY <2>1, TailIs
    <2>4. \A i \in 1 .. Len(Order) - 1 : i + 1 \in DOMAIN Order \ {1}
      BY <2>2
    <2>3. \A i \in 1 .. Len(Tail(Order)) : Tail(Order)[i] \in Targets
      BY <2>2, <2>4, TargetAssumption
    <2>5. Tail(Order) \in Seq(Targets)
      <3> DEFINE s == Tail(Order)
      <3>1. s \in Seq(Nodes) /\ \A i \in 1 .. Len(s) : s[i] \in Targets
        BY <2>2, <2>3
      <3> HIDE DEF s
      <3>2. s \in Seq(Targets)
        BY <3>1
      <3> QED
        BY <3>2 DEF s
    <2> QED
      BY <2>5 DEF TreeInit
  <1> QED
    BY <1>1, <1>2, <1>3, <1>4 DEF VisitsInv

LEMMA VisitsStep ==
    VisitsInv /\ [TreeNext]_treeVars => VisitsInv'
  <1> SUFFICES ASSUME VisitsInv, [TreeNext]_treeVars
               PROVE  VisitsInv'
    OBVIOUS
  <1>1. Targets \subseteq Nodes /\ Seq(Targets) \subseteq Seq(Nodes)
    BY TargetAssumption
  <1>2. /\ VisitorInv /\ declared \in [Targets -> Seq(Targets)] /\ targets \in Seq(Targets) /\ Graph
    BY DEF VisitsInv, VisitorInv, VisitorTypeOK, Graph
  <1>3. ASSUME UNCHANGED visitorVars
        PROVE  VisitorInv'
    BY <1>2, <1>3, SafeStep, TreeStep DEF VisitorInv
  <1>4. ASSUME VisitStep
        PROVE  VisitorInv'
    BY <1>2, <1>4, SafeStep, TreeStep DEF VisitorInv
  <1>5. CASE BuildNotExpandedTree
    <2>1. Graph'
      <3>1. \A n \in Targets : Reverse(declared[n]) \in Seq(Nodes)
        BY <1>1, <1>2, ReverseIsSeq
      <3>2. next' = [n \in Nodes |-> IF n \in Targets THEN Reverse(declared[n]) ELSE << >>]
        BY <1>5 DEF BuildNotExpandedTree
      <3> QED
        BY <3>1, <3>2 DEF Graph
    <2>2. targets' = targets /\ declared' = declared /\ phase' # "connect" /\ phase = "connect"
      BY <1>5 DEF BuildNotExpandedTree, script
    <2>3. CASE selected = << >>
      <3>1. StartVisit(targets)
        BY <1>5, <2>3 DEF BuildNotExpandedTree
      <3>2. VisitorInv'
        BY <1>1, <1>2, <2>1, <3>1, VisitStarts
      <3> QED
        BY <1>2, <2>2, <3>2 DEF VisitsInv
    <2>4. CASE selected # << >>
      <3>1. UNCHANGED << roots, pending, visit, stack, called, outcome >>
        BY <1>5, <2>4 DEF BuildNotExpandedTree, NoVisit
      <3>2. /\ roots = << >> /\ pending = << >> /\ stack = << >> /\ called = << >>
            /\ outcome = "done" /\ visit = [n \in Nodes |-> "NotVisited"]
        BY <2>2 DEF VisitsInv
      <3>3. next' \in [Nodes -> Seq(Nodes)]
        BY <2>1 DEF Graph
      <3>4. VisitorInv'
        BY <3>1, <3>2, <3>3 DEF VisitorInv, VisitorTypeOK, VisitStatus, StackInv, NoNodeTwice, TreeVisitInv
      <3> QED
        BY <1>2, <2>2, <3>4 DEF VisitsInv
    <2> QED
      BY <2>3, <2>4
  <1>6. CASE SelectNext
    <2>1. targets' = targets /\ declared' = declared /\ next' = next /\ phase' # "connect"
      BY <1>6 DEF SelectNext, script
    <2>2. Graph'
      BY <1>2, <2>1 DEF Graph
    <2>3. CASE Head(toSelect) \in Targets
      <3>1. StartVisit(<< Head(toSelect) >>) /\ << Head(toSelect) >> \in Seq(Nodes)
        BY <1>1, <1>6, <2>3 DEF SelectNext
      <3>2. VisitorInv'
        BY <2>2, <3>1, VisitStarts
      <3> QED
        BY <1>2, <2>1, <3>2 DEF VisitsInv
    <2>4. CASE Head(toSelect) \notin Targets
      <3>1. UNCHANGED visitorVars
        BY <1>6, <2>1, <2>4 DEF SelectNext, NoVisit, visitorVars
      <3> QED
        BY <1>2, <1>3, <2>1, <3>1 DEF VisitsInv
    <2> QED
      BY <2>3, <2>4
  <1>7. CASE SelectedVisited \/ CyclesChecked \/ OptionsCached
    <2>1. targets' = targets /\ declared' = declared /\ phase' # "connect" /\ UNCHANGED visitorVars
      BY <1>7 DEF SelectedVisited, CyclesChecked, OptionsCached, script
    <2> QED
      BY <1>2, <1>3, <2>1 DEF VisitsInv
  <1>8. CASE RemoveUnused
    <2>1. targets' = Only(targets, used) /\ declared' = declared /\ phase' # "connect"
          /\ StartVisit(targets')
      BY <1>8 DEF RemoveUnused, script
    <2>2. targets' \in Seq(Targets) /\ targets' \in Seq(Nodes)
      <3>1. Only(targets, used) \in Seq(Targets \cap used)
        BY <1>2, OnlyIsSeq
      <3> QED
        BY <1>1, <2>1, <3>1
    <2>3. Graph'
      <3> DEFINE A == Nodes \ (Targets \ used)
      <3>1. ASSUME NEW n \in Nodes
            PROVE  Only(next[n], A) \in Seq(Nodes)
        <4>1. next[n] \in Seq(Nodes)
          BY <1>2 DEF Graph
        <4>2. Only(next[n], A) \in Seq(Nodes \cap A)
          BY <4>1, OnlyIsSeq
        <4> QED
          BY <4>2
      <3>2. next' = [n \in Nodes |-> IF n \in Targets \ used THEN << >> ELSE Only(next[n], A)]
        BY <1>8 DEF RemoveUnused, Unlink
      <3> HIDE DEF A
      <3> QED
        BY <3>1, <3>2 DEF Graph
    <2>4. VisitorInv'
      BY <2>1, <2>2, <2>3, VisitStarts
    <2> QED
      BY <1>2, <2>1, <2>2, <2>4 DEF VisitsInv
  <1>9. CASE ConnectForest
    <2> DEFINE heads == Only(targets, {t \in Targets : IsRoot(t)})
    <2>1. heads \in Seq(Targets)
      <3>1. heads \in Seq(Targets \cap {t \in Targets : IsRoot(t)})
        BY <1>2, OnlyIsSeq
      <3> QED
        BY <3>1
    <2>2. targets' = targets /\ declared' = declared /\ phase' # "connect" /\ root' = RootOf(heads)
      BY <1>9 DEF ConnectForest, script
    <2>3. Len(heads) > 1 => next' = [next EXCEPT ![FakeRoot] = Reverse(heads)]
      BY <1>9 DEF ConnectForest
    <2>4. ~(Len(heads) > 1) => next' = next
      BY <1>9 DEF ConnectForest
    <2>5. heads = << >> => NoVisit
      BY <1>9 DEF ConnectForest
    <2>6. heads # << >> => StartVisit(root')
      BY <1>9 DEF ConnectForest
    <2> HIDE DEF heads
    <2>7. Graph'
      <3>1. Reverse(heads) \in Seq(Nodes)
        BY <1>1, <2>1, ReverseIsSeq
      <3> QED
        BY <1>2, <2>3, <2>4, <3>1 DEF Graph
    <2>8. CASE heads = << >>
      <3>1. UNCHANGED visitorVars
        BY <2>4, <2>5, <2>8 DEF NoVisit, visitorVars
      <3> QED
        BY <1>2, <1>3, <2>2, <3>1 DEF VisitsInv
    <2>9. CASE heads # << >>
      <3>1. root' \in Seq(Nodes)
        <4>1. << FakeRoot >> \in Seq(Nodes) /\ heads \in Seq(Nodes)
          BY <1>1, <2>1, TargetAssumption
        <4> QED
          BY <2>2, <4>1 DEF RootOf
      <3>2. VisitorInv'
        BY <2>6, <2>7, <2>9, <3>1, VisitStarts
      <3> QED
        BY <1>2, <2>2, <3>2 DEF VisitsInv
    <2> QED
      BY <2>8, <2>9
  <1>10. CASE Visiting
    <2>1. VisitStep /\ targets' = targets /\ declared' = declared
      BY <1>10 DEF Visiting, script
    <2>2. phase' # "connect"
      BY <1>10 DEF Visiting, CacheOptions
    <2> QED
      BY <1>2, <1>4, <2>1, <2>2 DEF VisitsInv
  <1>11. CASE UNCHANGED treeVars
    <2>1. targets' = targets /\ declared' = declared /\ phase' = phase /\ UNCHANGED visitorVars
      BY <1>11 DEF treeVars, ownVars, script
    <2> QED
      BY <1>2, <1>3, <2>1 DEF VisitsInv, visitorVars
  <1> QED
    BY <1>5, <1>6, <1>7, <1>8, <1>9, <1>10, <1>11 DEF TreeNext

\* TreeIsVisited of all the visits that the constructors of NodeTree and JobFactory make
THEOREM TreesAreVisited == TreeSpec => []TreeIsVisited
  <1>1. VisitsInv => TreeIsVisited
    BY VisitedAsTree DEF VisitsInv
  <1> QED
    BY <1>1, VisitsStart, VisitsStep, PTL DEF TreeSpec
=============================================================================
