------------------------------ MODULE NodeTree ------------------------------
(***************************************************************************)
(* The dependency tree of a build (nodetree.cpp) while jobs are running:   *)
(* the status of every node, the lazy expansion of a target into its       *)
(* source files, the search for a node that may be built next, and what    *)
(* the end of a job publishes (~NodeGuard).                                *)
(*                                                                         *)
(* The tree is shared by the main thread and by every job thread; the      *)
(* mutex NodeTree::m_mutex is treeLock.                                    *)
(***************************************************************************)
EXTENDS Integers, Sequences, FiniteSets, SequencesExt

CONSTANTS
    Targets,   \* nodes with isTarget
    Hooks,     \* the "<hook>" nodes
    Files,     \* the source file nodes targets expand to
    Root,      \* m_root: a target, or a "<fakeroot>" that is not in Targets
    Custom,    \* the targets with isCustomTarget()
    Deps,      \* Deps[n]: the targets n waits for, in the order of its children
    HookOf,    \* HookOf[n]: << >>, or << h >> when n has hooks
    FilesOf,   \* FilesOf[n]: the files of n (_files), never visited for Custom
    NoNode     \* the null Node*

Node == Targets \cup Hooks \cup Files \cup {Root}

\* Node::isFake: the fake root and the hooks
IsFake(n) == n \notin Targets /\ n \notin Files

\* The children n has when NodeTree's constructor returns, and the ones it has
\* once it is expanded.
FirstChildren == [n \in Node |-> Deps[n] \o HookOf[n]]
AllChildren   == [n \in Node |-> IF n \in Custom THEN FirstChildren[n]
                                 ELSE FirstChildren[n] \o FilesOf[n]]

Elements(s) == {s[i] : i \in DOMAIN s}

\* Node::parents is the inverse of Node::children. NodeVisitor<NodeGetParent>
\* calls its visitor on the node and on everything above it.
Parents == [n \in Node |-> {p \in Node : n \in Elements(AllChildren[p])}]
Ancestors[n \in Node] == Parents[n] \cup UNION {Ancestors[p] : p \in Parents[n]}

ASSUME KindsAssumption ==
    /\ IsFiniteSet(Targets) /\ IsFiniteSet(Hooks) /\ IsFiniteSet(Files)
    /\ Targets \cap Hooks = {} /\ Targets \cap Files = {} /\ Hooks \cap Files = {}
    /\ Custom \subseteq Targets
    /\ Root \notin Hooks /\ Root \notin Files
    /\ NoNode \notin Node

\* Only targets and a fake root have children: a leaf is a hook or a file. There is a fake root
\* when there is more than one root (connectForest).
ASSUME ChildrenAssumption ==
    /\ Deps \in [Node -> Seq(Targets)]
    /\ HookOf \in [Node -> Seq(Hooks)]
    /\ FilesOf \in [Node -> Seq(Files)]
    /\ \A n \in Node \ (Targets \cup {Root}) : AllChildren[n] = << >>
    /\ Root \notin Targets => /\ HookOf[Root] = << >> /\ FilesOf[Root] = << >>
                               /\ Len(Deps[Root]) > 1

\* JobFactory's constructor caches the options of no target that is reached
\* along two paths (see ForestIsBuilt of TargetTree.tla), so the builds that get as far as
\* creating jobs are those of trees.
ASSUME TreeAssumption ==
    \A n \in Node : Cardinality(Parents[n]) = IF n = Root THEN 0 ELSE 1

\* The visit in NodeTree's constructor throws when it meets a node again it has not left (see
\* TargetTree.tla): there is no set of nodes in which each is below another.
ASSUME AcyclicAssumption ==
    \A S \in SUBSET Node : S # {} => \E n \in S : Parents[n] \cap S = {}

-----------------------------------------------------------------------------
VARIABLES
    status,        \* Node::status of every node
    shouldBuild,   \* Node::shouldBuild
    children,      \* Node::children
    hasFail,       \* NodeTree::m_hasFail
    treeLock       \* who holds NodeTree::m_mutex: "main" or "free"

treeVars == << status, shouldBuild, children, hasFail, treeLock >>

\* Node::Status, compared with < in the code
Pristine == 0
Expanded == 1
Building == 2
Built    == 3
Status   == Pristine .. Built

TreeTypeOK ==
    /\ status \in [Node -> Status]
    /\ shouldBuild \in [Node -> BOOLEAN]
    /\ children \in [Node -> Seq(Node)]
    /\ hasFail \in BOOLEAN
    /\ treeLock \in {"free", "main"}

\* fillTargetOptions has marked the targets whose options changed since the
\* last build: any set of targets that are not custom.
TreeInit ==
    /\ status = [n \in Node |-> Pristine]
    /\ \E changed \in SUBSET (Targets \ Custom) :
          shouldBuild = [n \in Node |-> n \in changed]
    /\ children = FirstChildren
    /\ hasFail = FALSE
    /\ treeLock = "free"

-----------------------------------------------------------------------------
(* findAGoodNode *)

IsUnbuilt(c) == status[c] < Built

\* The search goes down into the i-th child of n: it is not claimed yet, and it
\* is no file while a target or hook listed up to it is unbuilt.
Enters(n, i) ==
    LET c == children[n][i] IN
    /\ status[c] < Building
    /\ \/ c \notin Files
       \/ \A j \in 1 .. i : IsUnbuilt(children[n][j]) => children[n][j] \in Files

\* The nodes a search that finds nothing visits below n, in its order.
Visits[n \in Node] ==
    << n >> \o FlattenSeq([i \in DOMAIN children[n] |->
                              IF Enters(n, i) THEN Visits[children[n][i]] ELSE << >>])

Search(n) == IF status[n] >= Building THEN << >> ELSE Visits[n]

\* Fault: a child that is building counts as built.
IsGoodWhileBuilding(n) ==
    /\ status[n] < Building
    /\ \/ children[n] = << >>
       \/ ~IsFake(n) /\ \A i \in DOMAIN children[n] : status[children[n][i]] >= Building

\* A visited node is the result when it is not claimed and nothing below it is
\* left to do.
IsGood(n) ==
    /\ status[n] < Building
    /\ \/ children[n] = << >>
       \/ ~IsFake(n) /\ \A i \in DOMAIN children[n] : status[children[n][i]] = Built

\* The search returns the first good node it visits ...
FoundAt(visits, i) ==
    /\ i \in DOMAIN visits
    /\ visits[i] \in Node
    /\ IsGood(visits[i])
    /\ \A j \in 1 .. i - 1 : ~IsGood(visits[j])

FindsNothing(visits) == \A i \in DOMAIN visits : ~IsGood(visits[i])

\* Fault: *target is assigned once.
IsFirstTarget(visits, i, t) ==
    \/ t = NoNode /\ \A j \in 1 .. i : visits[j] \notin Targets
    \/ \E j \in 1 .. i : t = visits[j] /\ t \in Targets /\ \A k \in 1 .. j - 1 : visits[k] \notin Targets

\* ... and leaves in *target the last target it entered, whether or not that
\* target is the parent of what it returns.
IsLastTarget(visits, i, t) ==
    \/ t = NoNode /\ \A j \in 1 .. i : visits[j] \notin Targets
    \/ \E j \in 1 .. i : t = visits[j] /\ t \in Targets /\ \A k \in j + 1 .. i : visits[k] \notin Targets

\* Some node that is not fake was left because a child of it is not built:
\* m_needToWait after a search that found nothing.
LeavesUnbuilt(visits) ==
    \E i \in DOMAIN visits :
        /\ ~IsFake(visits[i])
        /\ \E j \in DOMAIN children[visits[i]] : IsUnbuilt(children[visits[i]][j])

-----------------------------------------------------------------------------
(* expandTargetNode and the visitor over the parents *)

\* Its files join the children of t and inherit its shouldBuild. The search only
\* returns a pristine target when its dependencies are Built, so that the
\* recursion on _deps returns at once (SourcesWaitForDependencies of Build.tla).
ExpandTargetNode(t) ==
    /\ status' = [status EXCEPT ![t] = Expanded]
    /\ IF t \in Custom
       THEN UNCHANGED << children, shouldBuild >>
       ELSE /\ children' = [children EXCEPT ![t] = @ \o FilesOf[t]]
            /\ shouldBuild' = [n \in Node |-> IF n \in Elements(FilesOf[t])
                                              THEN shouldBuild[t] ELSE shouldBuild[n]]
    /\ UNCHANGED hasFail

\* Fault: no parent is marked.
MarkNothing(n) == UNCHANGED << shouldBuild, status, children, hasFail >>

\* Everything above a node a job was made for has to be built again; a hook is
\* fake and marks nothing.
MarkAncestors(n) ==
    /\ shouldBuild' = IF IsFake(n) THEN shouldBuild
                      ELSE [m \in Node |-> shouldBuild[m] \/ m \in Ancestors[n]]
    /\ UNCHANGED << status, children, hasFail >>

\* Fault: the node of a failed job is published too.
ReleaseFailedNode(n, failed) ==
    /\ treeLock = "free"
    /\ hasFail' = (hasFail \/ failed)
    /\ status' = [status EXCEPT ![n] = Built]
    /\ UNCHANGED << shouldBuild, children, treeLock >>

\* ~NodeGuard: the node of a failed job stays Building.
ReleaseNode(n, failed) ==
    /\ treeLock = "free"
    /\ hasFail' = (hasFail \/ failed)
    /\ status' = IF failed THEN status ELSE [status EXCEPT ![n] = Built]
    /\ UNCHANGED << shouldBuild, children, treeLock >>
=============================================================================
