---------------------------- MODULE NodeVisitor ----------------------------
(***************************************************************************)
(* NodeVisitor (nodevisitor.cpp): the depth-first visit that checks a tree *)
(* of targets for cycles, collects the targets that are used, caches the   *)
(* options of every target, marks parents and deletes the nodes.           *)
(*                                                                         *)
(* The recursion of visitNode is an explicit stack of << node, the index   *)
(* of its next child >>. Which graph is visited, and from where, is up to  *)
(* the module that starts a visit: TargetTree.tla. A dependency that is    *)
(* stated twice occurs twice in next.                                      *)
(***************************************************************************)
EXTENDS Integers, Sequences, FiniteSets

CONSTANT Nodes

ASSUME VisitorAssumption == IsFiniteSet(Nodes)

VARIABLES
    next,      \* NextNodeGetter: the children (or the parents) of each node
    roots,     \* the nodes the constructor iterates over
    pending,   \* the nodes the constructor still iterates over
    visit,     \* m_status
    stack,     \* the calls of visitNode that have not returned, last one first
    called,    \* the nodes m_visitor was called with, in order
    outcome    \* "visiting", "done", or "cyclic" when the Error was thrown

visitorVars == << next, roots, pending, visit, stack, called, outcome >>

VisitStatus == {"NotVisited", "Visiting", "Visited"}

VisitorTypeOK ==
    /\ next \in [Nodes -> Seq(Nodes)]
    /\ roots \in Seq(Nodes) /\ pending \in Seq(Nodes)
    /\ visit \in [Nodes -> VisitStatus]
    /\ stack \in Seq(Nodes \X (Nat \ {0}))
    /\ \A i \in DOMAIN stack : visit[stack[i][1]] = "Visiting"
    /\ called \in Seq(Nodes)
    /\ outcome \in {"visiting", "done", "cyclic"}

\* The constructor iterates over the nodes of rs: all targets, or one root.
StartVisit(rs) ==
    /\ roots' = rs /\ pending' = rs
    /\ visit' = [n \in Nodes |-> "NotVisited"]
    /\ stack' = << >>
    /\ called' = << >>
    /\ outcome' = "visiting"

\* visitNode(n), called with the calls in rest below it
VisitNode(n, rest) ==
    /\ stack' = << << n, 1 >> >> \o rest
    /\ visit' = [visit EXCEPT ![n] = "Visiting"]

\* The loop of the constructor: visit the next node unless it was reached already.
VisitNext ==
    /\ outcome = "visiting" /\ stack = << >> /\ pending # << >>
    /\ pending' = Tail(pending)
    /\ IF visit[Head(pending)] = "NotVisited"
       THEN VisitNode(Head(pending), << >>)
       ELSE UNCHANGED << visit, stack >>
    /\ UNCHANGED << next, roots, called, outcome >>

Done ==
    /\ outcome = "visiting" /\ stack = << >> /\ pending = << >>
    /\ outcome' = "done"
    /\ UNCHANGED << next, roots, pending, visit, stack, called >>

-----------------------------------------------------------------------------
Running  == outcome = "visiting" /\ stack # << >>
Current  == Head(stack)[1]
Position == Head(stack)[2]
Child    == next[Current][Position]
HasChild == Position <= Len(next[Current])

EnterChild ==
    /\ Running /\ HasChild
    /\ visit[Child] = "NotVisited"
    /\ VisitNode(Child, << << Current, Position + 1 >> >> \o Tail(stack))
    /\ UNCHANGED << next, roots, pending, called, outcome >>

\* Cyclic dependence found on your targets.
MeetAncestor ==
    /\ Running /\ HasChild
    /\ visit[Child] = "Visiting"
    /\ outcome' = "cyclic"
    /\ UNCHANGED << next, roots, pending, visit, stack, called >>

\* A child that was visited before ends the visit of the node: the node stays
\* Visiting, its visitor is not called and its other children are not looked at.
MeetVisited ==
    /\ Running /\ HasChild
    /\ visit[Child] = "Visited"
    /\ stack' = Tail(stack)
    /\ UNCHANGED << next, roots, pending, visit, called, outcome >>

\* Fault: the visitor is called before the children are visited.
FinishTooEarly ==
    /\ Running /\ (HasChild => visit[Child] = "NotVisited")
    /\ called' = Append(called, Current)
    /\ visit' = [visit EXCEPT ![Current] = "Visited"]
    /\ stack' = Tail(stack)
    /\ UNCHANGED << next, roots, pending, outcome >>

FinishNode ==
    /\ Running /\ ~HasChild
    /\ called' = Append(called, Current)
    /\ visit' = [visit EXCEPT ![Current] = "Visited"]
    /\ stack' = Tail(stack)
    /\ UNCHANGED << next, roots, pending, outcome >>

VisitStep ==
    VisitNext \/ Done \/ EnterChild \/ MeetAncestor \/ MeetVisited \/ FinishNode

\* One visit of any graph, from any roots
VisitorInit ==
    /\ next \in [Nodes -> Seq(Nodes)]
    /\ roots \in Seq(Nodes) /\ pending = roots
    /\ visit = [n \in Nodes |-> "NotVisited"]
    /\ stack = << >> /\ called = << >> /\ outcome = "visiting"

VisitorSpec == VisitorInit /\ [][VisitStep]_visitorVars

-----------------------------------------------------------------------------
(* The graph itself *)

NextOf(n) == {next[n][i] : i \in DOMAIN next[n]}

\* What can be reached from the nodes of S
Reach(S) ==
    LET IsClosed(C) == S \subseteq C /\ \A n \in C : NextOf(n) \subseteq C
    IN {n \in Nodes : \A C \in SUBSET Nodes : IsClosed(C) => n \in C}

OnCycle(n) == n \in Reach(NextOf(n))

\* Below r no node is reached along two ways.
IsTree(r) ==
    /\ \A n \in Reach({r}) : ~OnCycle(n) /\ Len(next[n]) = Cardinality(NextOf(n))
    /\ \A m, n \in Reach({r}) : m # n => NextOf(m) \cap NextOf(n) = {}

-----------------------------------------------------------------------------
\* In every graph visitNode is never inside the same node twice, so that it ends on every graph, and
\* no node is handed to the visitor twice (~NodeTree deletes the nodes it is given).
NoNodeTwice ==
    /\ \A i, j \in DOMAIN stack : stack[i][1] = stack[j][1] => i = j
    /\ \A i, j \in DOMAIN called : called[i] = called[j] => i = j

\* The visit of a tree from its root moreover calls the visitor once for every node, after all
\* children of the node: what cacheTargetCompilerOptions and the merge of the options
\* of used targets rely on.
TreeIsVisited ==
    /\ NoNodeTwice
    /\ Len(roots) = 1 /\ IsTree(roots[1]) =>
        /\ outcome # "cyclic"
        /\ outcome = "done" => {called[i] : i \in DOMAIN called} = Reach({roots[1]})
        /\ \A i \in DOMAIN called : \A c \in NextOf(called[i]) :
              \E j \in 1 .. i - 1 : called[j] = c

-----------------------------------------------------------------------------
(* Why this holds: an inductive invariant *)

\* Every call on the stack was made by the one below it, for the child before the one it has
\* come to; its node is Visiting, and those that the visitor was called with are Visited.
StackInv ==
    /\ \A i \in DOMAIN stack :
          /\ visit[stack[i][1]] = "Visiting"
          /\ stack[i][2] <= Len(next[stack[i][1]]) + 1
          /\ i > 1 => stack[i][2] > 1 /\ stack[i - 1][1] = next[stack[i][1]][stack[i][2] - 1]
    /\ \A i \in DOMAIN called : visit[called[i]] = "Visited"
    /\ NoNodeTwice

\* In a tree what is Visiting is on the stack, and what is Visited was the visitor called with, ...
AccountInv ==
    /\ \A n \in Nodes : visit[n] = "Visiting" => \E i \in DOMAIN stack : stack[i][1] = n
    /\ \A n \in Nodes : visit[n] = "Visited" => \E i \in DOMAIN called : called[i] = n

\* ... each node but the root was entered from its parent, which has come past it, ...
EnteredInv(root) ==
    \A n \in Nodes : visit[n] # "NotVisited" =>
        /\ n \in Reach({root})
        /\ n # root => \E m \in Nodes : \E k \in DOMAIN next[m] :
              /\ visit[m] # "NotVisited" /\ next[m][k] = n
              /\ \A i \in DOMAIN stack : stack[i][1] = m => k < stack[i][2]

\* ... and what a node has come past is Visited, but for the child that is being visited.
PassedInv ==
    /\ \A i \in DOMAIN stack : \A k \in 1 .. stack[i][2] - 1 :
          visit[next[stack[i][1]][k]] = "Visited" \/ (i > 1 /\ k = stack[i][2] - 1)
    /\ \A i \in DOMAIN called : \A c \in NextOf(called[i]) : \E j \in 1 .. i - 1 : called[j] = c

\* The constructor calls visitNode with the root, and with nothing else.
RootInv(root) ==
    \/ pending = << root >> /\ stack = << >> /\ \A n \in Nodes : visit[n] = "NotVisited"
    \/ /\ pending = << >> /\ visit[root] # "NotVisited"
       /\ stack # << >> => stack[Len(stack)][1] = root

TreeVisitInv ==
    Len(roots) = 1 /\ IsTree(roots[1]) =>
        /\ outcome # "cyclic" /\ (outcome = "done" => stack = << >> /\ pending = << >>)
        /\ AccountInv /\ EnteredInv(roots[1]) /\ PassedInv /\ RootInv(roots[1])

VisitorInv == VisitorTypeOK /\ StackInv /\ TreeVisitInv
=============================================================================
