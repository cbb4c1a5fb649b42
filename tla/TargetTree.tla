----------------------------- MODULE TargetTree -----------------------------
(***************************************************************************)
(* How the tree of a build comes to be: NodeTree's constructor             *)
(* (nodetree.cpp) connects the targets of the script, removes the ones     *)
(* that were not asked for, looks for cycles and joins what is left under  *)
(* one root; JobFactory's constructor then caches the options of every     *)
(* target. Each of its visits is a run of NodeVisitor, whose next is       *)
(* Node::children.                                                         *)
(*                                                                         *)
(* Hooks are left to NodeTree.tla: they are leaves that no visit but the   *)
(* last one meets.                                                         *)
(***************************************************************************)
EXTENDS NodeVisitor, SequencesExt

CONSTANTS
    Targets,       \* _meiqueAllTargets
    Order,         \* the order m_targetNodes is iterated in, after the fake root
    MaxNext,       \* bound on the dependencies of a target
    FakeRoot,      \* "<fakeroot>"
    Kinds,         \* what the targets may be: [Targets -> Kind]
    Selections,    \* the target names the command line may give
    Exclusions     \* the sets of targets with _excludeFromAll

Kind == {"program", "shared", "static", "custom"}

ASSUME TargetAssumption ==
    /\ Kinds \subseteq [Targets -> Kind]
    /\ FakeRoot \notin Targets
    /\ Nodes = Targets \cup {FakeRoot}
    /\ Order \in Seq(Nodes) /\ MaxNext \in Nat
    /\ Order # << >> /\ Order[1] = FakeRoot
    /\ {Order[i] : i \in DOMAIN Order \ {1}} = Targets

VARIABLES
    declared,   \* _deps of every target
    kind,       \* _type and _libType of every target
    excluded,   \* the targets with _excludeFromAll
    selected,   \* the names on the command line, in order
    parents,    \* Node::parents
    targets,    \* the targets in m_targetNodes, in the order it is iterated
    toSelect,   \* the names removeUnusedTargets has still to look at
    used,       \* usedTargets
    root,       \* m_root, or << >> for null
    options,    \* m_targetCompilerOptions
    phase       \* where the constructors are

script   == << declared, kind, excluded, selected >>
ownVars  == << script, parents, targets, toSelect, used, root, options, phase >>
treeVars == << visitorVars, ownVars >>

Phase == {"connect", "select", "visitSelected", "remove", "checkCycles", "join",
          "cacheOptions", "ready", "error", "crash"}

\* Every variable has its type: the fields of NodeTree and what the script declares; and
\* the calls on the stack of visitNode are those of nodes that are Visiting.
TypeOK ==
    /\ VisitorTypeOK
    /\ declared \in [Targets -> Seq(Targets)] /\ kind \in Kinds /\ excluded \subseteq Targets
    /\ parents \in [Nodes -> Seq(Nodes)]
    /\ targets \in Seq(Targets) /\ used \subseteq Targets
    /\ root \in {<< >>} \cup {<< n >> : n \in Nodes}
    /\ DOMAIN options \subseteq Targets
    /\ phase \in Phase

TreeInit ==
    /\ declared \in [Targets -> UNION {[1 .. k -> Targets] : k \in 0 .. MaxNext}]
    /\ kind \in Kinds
    /\ excluded \in Exclusions
    /\ selected \in Selections
    /\ parents = [n \in Nodes |-> << >>]
    /\ targets = Tail(Order)
    /\ toSelect = selected
    /\ used = {}
    /\ root = << >>
    /\ options = << >>
    /\ phase = "connect"
    /\ next = [n \in Nodes |-> << >>]
    /\ roots = << >> /\ pending = << >> /\ stack = << >> /\ called = << >>
    /\ visit = [n \in Nodes |-> "NotVisited"]
    /\ outcome = "done"

NoVisit == UNCHANGED << roots, pending, visit, stack, called, outcome >>

PushFront(f, n, m) == [f EXCEPT ![n] = << m >> \o @]

\* The members of s that are in S, in their order
Only(s, S) == FlattenSeq([i \in DOMAIN s |-> IF s[i] \in S THEN << s[i] >> ELSE << >>])

-----------------------------------------------------------------------------
\* buildNotExpandedTree: every target and, for each dependency, a link both ways, at the front.
Edges == FlattenSeq([i \in DOMAIN targets |->
             [j \in DOMAIN declared[targets[i]] |-> << targets[i], declared[targets[i]][j] >>]])

LinksToParents == FoldLeft(LAMBDA f, e : PushFront(f, e[2], e[1]), parents, Edges)

BuildNotExpandedTree ==
    /\ phase = "connect"
    /\ next' = [n \in Nodes |-> IF n \in Targets THEN Reverse(declared[n]) ELSE << >>]
    /\ parents' = LinksToParents
    /\ IF selected = << >>
       THEN phase' = "checkCycles" /\ StartVisit(targets)
       ELSE phase' = "select" /\ NoVisit
    /\ UNCHANGED << script, targets, toSelect, used, root, options >>

\* removeUnusedTargets: visit the next target asked for, if there is such a target.
SelectNext ==
    /\ phase = "select" /\ toSelect # << >>
    /\ toSelect' = Tail(toSelect)
    /\ IF Head(toSelect) \in Targets
       THEN phase' = "visitSelected" /\ StartVisit(<< Head(toSelect) >>)
       ELSE phase' = "error" /\ NoVisit
    /\ UNCHANGED << script, next, parents, targets, used, root, options >>

\* The visitor has put its nodes into usedTargets, or has thrown.
SelectedVisited ==
    /\ phase = "visitSelected" /\ outcome # "visiting"
    /\ used' = used \cup {called[i] : i \in DOMAIN called}
    /\ phase' = IF outcome = "cyclic" THEN "error"
                ELSE IF toSelect = << >> THEN "remove" ELSE "select"
    /\ UNCHANGED << visitorVars, script, parents, targets, toSelect, root, options >>

\* The links of the removed nodes go, both ways.
Unlink(removed) ==
    /\ next' = [n \in Nodes |-> IF n \in removed THEN << >> ELSE Only(next[n], Nodes \ removed)]
    /\ parents' = [n \in Nodes |-> IF n \in removed THEN << >> ELSE Only(parents[n], Nodes \ removed)]

RemoveUnused ==
    /\ phase = "remove"
    /\ targets' = Only(targets, used)
    /\ Unlink(Targets \ used)
    /\ phase' = "checkCycles" /\ StartVisit(targets')
    /\ UNCHANGED << script, toSelect, used, root, options >>

\* Check for cyclic dependencies
CyclesChecked ==
    /\ phase = "checkCycles" /\ outcome # "visiting"
    /\ phase' = IF outcome = "cyclic" THEN "error" ELSE "join"
    /\ UNCHANGED << visitorVars, script, parents, targets, toSelect, used, root, options >>

-----------------------------------------------------------------------------
\* Fault: what the script excludes is left out though it was asked for.
IsRootUnlessExcluded(t) == parents[t] = << >> /\ t \notin excluded

\* A target nobody depends on is a root if it was asked for or is not excluded.
IsRoot(t) ==
    /\ parents[t] = << >>
    /\ t \in ToSet(selected) \/ t \notin excluded

RootOf(heads) == IF Len(heads) > 1 THEN << FakeRoot >> ELSE heads

\* connectForest, then JobFactory's constructor goes on with a root.
ConnectForest ==
    LET heads == Only(targets, {t \in Targets : IsRoot(t)}) IN
    /\ phase = "join"
    /\ root' = RootOf(heads)
    /\ IF Len(heads) > 1
       THEN /\ next' = [next EXCEPT ![FakeRoot] = Reverse(heads)]
            /\ parents' = [n \in Nodes |-> IF n \in ToSet(heads) THEN << FakeRoot >> \o parents[n]
                                           ELSE parents[n]]
       ELSE UNCHANGED << next, parents >>
    /\ IF heads = << >> THEN phase' = "ready" /\ NoVisit
                        ELSE phase' = "cacheOptions" /\ StartVisit(root')
    /\ UNCHANGED << script, targets, toSelect, used, options >>

-----------------------------------------------------------------------------
(* The options of a target: whose flags and include paths compile has, and   *)
(* the libraries and the archives it is linked with.                         *)

IsLibrary(t) == kind[t] \in {"shared", "static"}

\* _targets: use() takes a library and declares it as a dependency as well. Custom
\* targets use nothing.
UsedBy(t) == IF kind[t] = "custom" THEN << >> ELSE SelectSeq(declared[t], IsLibrary)

FillTargetOptions(t) ==
    [compile |-> IF kind[t] = "custom" THEN << >> ELSE << t >>, libraries |-> << >>, archives |-> << >>]

MergeOptions(mine, other) == [field \in DOMAIN mine |-> mine[field] \o other[field]]

\* Fault: an archive is added behind those it uses.
AppendLibrary(mine, d) ==
    IF kind[d] = "shared" THEN [mine EXCEPT !.libraries = Append(@, d)]
                          ELSE [mine EXCEPT !.archives = Append(@, d)]

AddLibrary(mine, d) ==
    IF kind[d] = "shared" THEN [mine EXCEPT !.libraries = Append(@, d)]
                          ELSE [mine EXCEPT !.archives = << d >> \o @]

\* Fault: what a used target uses itself is not passed on.
OwnOptionsOnly(t) ==
    FoldLeft(LAMBDA mine, d : AddLibrary(MergeOptions(mine, FillTargetOptions(d)), d),
             FillTargetOptions(t), UsedBy(t))

\* mergeCompilerAndLinkerOptions: the options of the used targets as they are by now
MergedOptions(t) ==
    FoldLeft(LAMBDA mine, d : AddLibrary(MergeOptions(mine, options[d]), d),
             FillTargetOptions(t), UsedBy(t))

\* Gcc::link: libraries come before archives. (An archive itself is not linked.)
LinkLine(t) == options[t].libraries \o options[t].archives

\* The visitor is called with n: cacheTargetCompilerOptions, then the merge. The options of
\* a target that was not visited are null.
CacheOptions(n) ==
    IF n \notin Targets THEN UNCHANGED << options, phase >>
    ELSE IF ToSet(UsedBy(n)) \subseteq DOMAIN options
         THEN options' = (n :> MergedOptions(n)) @@ options /\ UNCHANGED phase
         ELSE phase' = "crash" /\ UNCHANGED options

OptionsCached ==
    /\ phase = "cacheOptions" /\ outcome # "visiting"
    /\ phase' = IF outcome = "cyclic" THEN "error" ELSE "ready"
    /\ UNCHANGED << visitorVars, script, parents, targets, toSelect, used, root, options >>

Visiting ==
    /\ phase \in {"visitSelected", "checkCycles", "cacheOptions"}
    /\ VisitStep
    /\ IF phase = "cacheOptions" /\ called' # called THEN CacheOptions(Last(called'))
                                                   ELSE UNCHANGED << options, phase >>
    /\ UNCHANGED << script, parents, targets, toSelect, used, root >>

TreeNext ==
    \/ BuildNotExpandedTree \/ SelectNext \/ SelectedVisited \/ RemoveUnused
    \/ CyclesChecked \/ ConnectForest \/ OptionsCached \/ Visiting

TreeSpec == TreeInit /\ [][TreeNext]_treeVars

-----------------------------------------------------------------------------
(* The dependencies as the script states them *)

Closure(S) ==
    LET step[k \in 0 .. Cardinality(Targets)] ==
            IF k = 0 THEN S
            ELSE step[k - 1] \cup UNION {ToSet(declared[t]) : t \in step[k - 1]}
    IN step[Cardinality(Targets)]

\* What the command line asks for; without names everything that is not excluded
Wanted == IF selected = << >> THEN Targets \ excluded ELSE ToSet(selected)

\* No target is needed twice, and there is no cycle.
IsForest ==
    /\ \A t \in Targets : t \notin Closure(ToSet(declared[t]))
    /\ \A t \in Targets :
          Cardinality({p \in Targets \X (1 .. MaxNext) :
                          p[2] \in DOMAIN declared[p[1]] /\ declared[p[1]][p[2]] = t}) <= 1

\* The targets a build of the tree gets to, and those whose options it can use
InBuild    == Reach(ToSet(root)) \cap Targets
HasOptions == DOMAIN options

\* The targets t uses, directly or through others
UsesOf(t) ==
    LET step[k \in 0 .. Cardinality(Targets)] ==
            IF k = 0 THEN ToSet(UsedBy(t))
            ELSE step[k - 1] \cup UNION {ToSet(UsedBy(u)) : u \in step[k - 1]}
    IN step[Cardinality(Targets)]

IsOnce(s, S) == ToSet(s) = S /\ Len(s) = Cardinality(S)

Count(s, n) == Cardinality({i \in DOMAIN s : s[i] = n})

-----------------------------------------------------------------------------
\* Node::parents is the inverse of Node::children, as often as a dependency is stated,
\* and no node in use is linked to one that removeUnusedTargets has deleted.
LinksAgree ==
    phase # "connect" =>
        /\ \A m, n \in Nodes : Count(next[m], n) = Count(parents[n], m)
        /\ \A n \in ToSet(targets) : ToSet(next[n]) \subseteq ToSet(targets)

\* The links agree, and the tree of a forest is complete: what is wanted and not only needed by something
\* excluded is built, with all it depends on and with nothing else, and all options are
\* cached. (nodetree.cpp's constructor, jobfactory.cpp's constructor)
ForestIsBuilt ==
    LET heads == {t \in Wanted : \A u \in Targets \ Wanted : t \notin Closure(ToSet(declared[u]))}
    IN /\ LinksAgree
       /\ phase = "ready" /\ IsForest =>
            /\ InBuild = IF selected = << >> THEN Closure(heads) ELSE Closure(Wanted)
            /\ HasOptions = InBuild

\* The options of all targets that are used, directly or not, reach their users, each
\* once: flags and include paths, and libraries and archives for the linker.
OptionsReachUsers ==
    phase = "ready" /\ IsForest => \A t \in HasOptions :
        /\ kind[t] # "custom" => IsOnce(options[t].compile, {t} \cup UsesOf(t))
        /\ IsOnce(LinkLine(t), UsesOf(t))

\* The linker takes from an archive what is missing so far: every archive stands before
\* those it uses (tests/static_linker_flags). (addStaticLibrary, LinkerOptions::merge)
ArchivesAreInOrder ==
    phase = "ready" /\ IsForest => \A t \in HasOptions : \A i, j \in DOMAIN LinkLine(t) :
        kind[LinkLine(t)[i]] = "static" /\ LinkLine(t)[j] \in UsesOf(LinkLine(t)[i])
        /\ kind[LinkLine(t)[j]] = "static" => i < j

\* "Cyclic dependency not detected" (tests/cyclic_dependency/script.sh:5): once the check
\* for cycles is passed no target depends on itself.
CycleIsFound == phase = "join" => \A n \in Targets : ~OnCycle(n)
=============================================================================
