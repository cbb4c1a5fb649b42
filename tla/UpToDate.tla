------------------------------ MODULE UpToDate ------------------------------
(***************************************************************************)
(* What one run of meique leaves behind for the next: objects and outputs  *)
(* with their time stamps, and the hashes of the options in the cache. A   *)
(* build decides from them which commands it need not run                  *)
(* (Gcc::shouldCompile, createTargetJob, createCustomTargetJob,            *)
(* fillTargetOptions).                                                     *)
(*                                                                         *)
(* In which order the nodes of one build are dealt with is the subject of  *)
(* Build.tla; here every order BuildPlan.tla allows is taken, and a        *)
(* command and the creation of its job are one step: the jobs that are     *)
(* still running when another one fails are the ones dealt with before it. *)
(***************************************************************************)
EXTENDS Integers, Sequences, FiniteSets

CONSTANTS
    Targets, Custom,   \* the targets, and the custom ones among them
    Files,             \* the source files of the other targets
    Others,            \* headers, and the files of custom targets
    DepsOf,            \* the targets a target depends on
    FilesOf,           \* the files of a target
    Selections,        \* the targets a build may be asked for: those named on the command
                       \* line, or all that are not excluded from it when none is
    Includes,          \* the headers a source file includes
    MaxRev,            \* bound on the revisions of a file
    Edited, Changed,   \* the sources, and the targets whose options, the user changes
    MaxFaults,         \* bound on the failures and interruptions of builds
    Failing,           \* nodes whose command may fail
    Interrupts         \* how a build may be interrupted: "CTRL+C", "kill"

Node   == Targets \cup Files
Source == Files \cup Others

ASSUME ProjectAssumption ==
    /\ Custom \subseteq Targets /\ Targets \cap Source = {} /\ Files \cap Others = {}
    /\ DepsOf \in [Targets -> SUBSET Targets]
    /\ FilesOf \in [Targets -> SUBSET Source]
    /\ \A t \in Targets : FilesOf[t] \subseteq IF t \in Custom THEN Others ELSE Files
    /\ \A f \in Files : \E t \in Targets : \A u \in Targets : f \in FilesOf[u] <=> u = t
    /\ Selections \subseteq SUBSET Targets
    /\ Includes \in [Files -> SUBSET Others]
    /\ Edited \subseteq Source /\ Changed \subseteq Targets
    /\ MaxRev \in Nat /\ MaxFaults \in Nat
    /\ Failing \subseteq Node
    /\ Interrupts \subseteq {"CTRL+C", "kill"}

VARIABLES
    \* on disk
    rev, mtime,    \* the revision and the time stamp of every source
    options,       \* the options meique.lua gives to every target
    product,       \* the object or output of every node: its time, what it was made of
    savedHash,     \* TargetHash in meiquecache.lua
    clock,
    \* the process
    phase,         \* "idle" or "building"
    scope,         \* the targets of the tree: those asked for, and what they depend on
    hash,          \* MeiqueCache::m_targetHashes
    marked,        \* the nodes with shouldBuild
    expanded,      \* the targets that are expanded
    built,         \* the nodes that are Built
    failed,        \* m_errorOccured
    \* what the properties are about
    wasFresh,      \* was the whole tree up to date when the build began?
    ran,           \* the nodes whose command the build ran
    covered,       \* what the last build dealt with, if it succeeded and nothing changed since
    owed,          \* what builds that ended left to be made again, and forgot
    faults         \* how many failures and interruptions there were

disk    == << rev, mtime, options, product, savedHash, clock >>
process == << phase, scope, hash, marked, expanded, built, failed >>
history == << wasFresh, ran, covered, owed, faults >>
vars    == << disk, process, history >>

Absent == [time |-> 0, made |-> << >>]

Children(n) == IF n \in Files THEN {}
               ELSE DepsOf[n] \cup IF n \in Custom THEN {} ELSE FilesOf[n]
TargetOf(f) == CHOOSE t \in Targets : f \in FilesOf[t]

Parents(n) == {t \in Targets : n \in Children(t)}

\* What is made of n, and of that, and so on
Above(n) ==
    LET IsClosed(S) == \A m \in {n} \cup S : Parents(m) \subseteq S
    IN {t \in Targets : \A S \in SUBSET Targets : IsClosed(S) => t \in S}

\* The targets of S, what they depend on, and so on
Below(S) ==
    LET IsClosed(D) == S \subseteq D /\ \A t \in D : DepsOf[t] \subseteq D
    IN {t \in Targets : \A D \in SUBSET Targets : IsClosed(D) => t \in D}

\* The nodes of the tree: files are added to it for targets that are not custom.
InTree == {n \in Node : n \in scope \/ (n \in Files /\ TargetOf(n) \in scope)}

Revisions(S) == {<< s, rev[s] >> : s \in S}

\* What a command run now would make the product of n of
Recipe(n) ==
    CASE n \in Files  -> << options[TargetOf(n)], Revisions({n} \cup Includes[n]) >>
      [] n \in Custom -> << Revisions(FilesOf[n]), {<< c, product[c].made >> : c \in Children(n)} >>
      [] OTHER        -> << options[n], {<< c, product[c].made >> : c \in Children(n)} >>

IsFresh(n) == product[n].made = Recipe(n)

\* A node has the options of its target.
OwnTarget(n) == IF n \in Files THEN TargetOf(n) ELSE n

-----------------------------------------------------------------------------
Init ==
    /\ rev = [s \in Source |-> 0]
    /\ mtime = [s \in Source |-> 1]
    /\ options = [t \in Targets |-> "old"]
    /\ product = [n \in Node |-> Absent]
    /\ savedHash = [t \in Targets |-> "unknown"]
    /\ clock = 1
    /\ phase = "idle"
    /\ scope = {} /\ hash = savedHash
    /\ marked = {} /\ expanded = {} /\ built = {} /\ failed = FALSE
    /\ wasFresh = FALSE /\ ran = {}
    /\ covered = {} /\ owed = {} /\ faults = 0

(* Between two builds *)

\* A second passes between a build and the next edit: a file edited in the second it
\* was compiled in would count as compiled.
Edit(s) ==
    /\ phase = "idle"
    /\ rev[s] < MaxRev
    /\ rev' = [rev EXCEPT ![s] = @ + 1]
    /\ clock' = clock + 1
    /\ mtime' = [mtime EXCEPT ![s] = clock']
    /\ covered' = {}
    /\ UNCHANGED << options, product, savedHash, process, wasFresh, ran, owed, faults >>

ChangeOptions(t) ==
    /\ phase = "idle"
    /\ \E o \in {"old", "new"} \ {options[t]} : options' = [options EXCEPT ![t] = o]
    /\ covered' = {}
    /\ UNCHANGED << rev, mtime, product, savedHash, clock, process, wasFresh, ran, owed, faults >>

\* cleanTargets removes the objects of a target.
Clean(t) ==
    /\ phase = "idle"
    /\ product' = [n \in Node |-> IF n \in FilesOf[t] THEN Absent ELSE product[n]]
    /\ covered' = {}
    /\ UNCHANGED << rev, mtime, options, savedHash, clock, process, wasFresh, ran, owed, faults >>

-----------------------------------------------------------------------------
(* A build *)

\* fillTargetOptions: targets of the tree whose options have another hash than the last time.
MarkChanges == marked' = {t \in scope' \ Custom : savedHash[t] # options[t]}

\* Read the cache and build the tree (removeUnusedTargets, connectForest); the hash of the
\* options is stored as soon as it is known.
Start(chosen) ==
    /\ phase = "idle"
    /\ phase' = "building"
    /\ scope' = Below(chosen)
    /\ MarkChanges
    /\ hash' = [t \in Targets |-> IF t \in scope' \ Custom THEN options[t] ELSE savedHash[t]]
    /\ expanded' = {} /\ built' = {} /\ failed' = FALSE
    /\ wasFresh' = (/\ \A n \in InTree' : IsFresh(n)
                    /\ \A t \in scope' \ Custom : savedHash[t] = options[t])
    /\ ran' = {}
    /\ covered' = {}
    /\ UNCHANGED << disk, owed, faults >>

Building == phase = "building" /\ ~failed

\* A search that finds the nodes of done Built may expand a target, and take a node.
MayExpand(t, done) == t \in scope \ (Custom \cup expanded) /\ DepsOf[t] \subseteq done

MayTake(n, done) ==
    /\ n \in InTree \ done
    /\ Children(n) \subseteq done
    /\ n \in Files => TargetOf(n) \in expanded
    /\ n \in Targets \ Custom => n \in expanded

\* expandTargetNode: the files inherit shouldBuild.
Expand(t) ==
    /\ Building
    /\ MayExpand(t, built)
    /\ expanded' = expanded \cup {t}
    /\ marked' = IF t \in marked THEN marked \cup FilesOf[t] ELSE marked
    /\ UNCHANGED << disk, phase, scope, hash, built, failed, history >>

\* Fault: a product of the same second counts as older than its source.
NewerOrAsNew(s, n) == mtime[s] >= product[n].time

Newer(s, n) == mtime[s] > product[n].time

\* Fault: the headers a source file includes are not looked at.
SourceIsNewer(f) == Newer(f, f)

\* Gcc::shouldCompile: an object that is absent is as old as can be.
ShouldCompile(f) == \E s \in {f} \cup Includes[f] : Newer(s, f)

IsUpToDate(n) ==
    /\ n \notin marked
    /\ n \in Files            => ~ShouldCompile(n)
    /\ n \in Custom           => \A s \in FilesOf[n] : ~Newer(s, n)
    /\ n \in Targets \ Custom => product[n] # Absent

IsReady(n) == Building /\ MayTake(n, built)

Skip(n) ==
    /\ IsReady(n) /\ IsUpToDate(n)
    /\ built' = built \cup {n}
    /\ UNCHANGED << disk, phase, scope, hash, marked, expanded, failed, history >>

\* Fault: what is made of n is not made again.
MarkNothing(n) == UNCHANGED marked

\* createJob marks everything in the tree above the node of a job.
MarkAbove(n) == marked' = marked \cup (Above(n) \cap scope)

Make(n) ==
    /\ IsReady(n) /\ ~IsUpToDate(n)
    /\ MarkAbove(n)
    /\ product' = [product EXCEPT ![n] = [time |-> clock, made |-> Recipe(n)]]
    /\ built' = built \cup {n}
    /\ ran' = ran \cup {n}
    /\ owed' = owed \ {n}
    /\ UNCHANGED << rev, mtime, options, savedHash, clock, phase, scope, hash, expanded, failed,
                    wasFresh, covered, faults >>

\* A command that fails leaves its product as it was.
Fail(n) ==
    /\ IsReady(n) /\ ~IsUpToDate(n) /\ n \in Failing
    /\ faults < MaxFaults /\ faults' = faults + 1
    /\ MarkAbove(n)
    /\ failed' = TRUE
    /\ ran' = ran \cup {n}
    /\ UNCHANGED << disk, phase, scope, hash, expanded, built, wasFresh, covered, owed >>

\* What a build leaves to be made again without a trace on disk: a target, when a part of it
\* was made and it was not, and what was made with other options than those whose hash is saved
MadeFor(n)  == IF n \in built THEN options[OwnTarget(n)] ELSE savedHash[OwnTarget(n)]
LeftOver(saved) ==
    {n \in Node : /\ product[n] # Absent
                  /\ \/ n \notin built /\ Children(n) \cap built \cap ran # {}
                     \/ n \notin Custom /\ saved[OwnTarget(n)] # MadeFor(n)}

\* The process ends, and what it knew with it; ~MeiqueCache and handleCtrlC save the cache.
Leave(saves, done) ==
    /\ phase' = "idle"
    /\ savedHash' = IF saves THEN hash ELSE savedHash
    /\ owed' = owed \cup LeftOver(savedHash')
    /\ covered' = done
    /\ hash' = savedHash'
    /\ scope' = {} /\ marked' = {} /\ expanded' = {} /\ built' = {} /\ failed' = FALSE
    /\ wasFresh' = FALSE /\ ran' = {}
    /\ UNCHANGED << rev, mtime, options, product, clock >>

\* createJob gives up when a job ends after the search that had to wait for it: that search
\* found nothing to do while jobs were running.
EndsEarly ==
    \E jobs \in SUBSET (ran \cap built) \ {{}} :
        LET before == built \ jobs
        IN /\ \A n \in before : Children(n) \cap jobs = {}
           /\ \A t \in expanded : DepsOf[t] \cap jobs = {}
           /\ ~\E t \in Targets : MayExpand(t, before)
           /\ ~\E n \in Node \ jobs : MayTake(n, before)

Finish ==
    /\ phase = "building"
    /\ \/ failed /\ Leave(TRUE, {})
       \/ ~failed /\ (built = InTree \/ EndsEarly) /\ Leave(TRUE, built)
    /\ UNCHANGED faults

Interrupt(how) ==
    /\ phase = "building"
    /\ how \in Interrupts
    /\ faults < MaxFaults /\ faults' = faults + 1
    /\ Leave(how = "CTRL+C", {})

Next ==
    \/ \E s \in Edited : Edit(s)
    \/ \E t \in Changed : ChangeOptions(t)
    \/ \E t \in Targets : Clean(t)
    \/ \E chosen \in Selections : Start(chosen)
    \/ Finish
    \/ \E t \in Targets : Expand(t)
    \/ \E n \in Node : Skip(n) \/ Make(n) \/ Fail(n)
    \/ \E how \in Interrupts : Interrupt(how)

Spec == Init /\ [][Next]_vars

-----------------------------------------------------------------------------
\* Every variable has its type: time stamps are those of the past, hashes those of
\* options there were, and a node is Built only after the nodes below it.
TypeOK ==
    /\ clock \in Nat \ {0} /\ failed \in BOOLEAN
    /\ rev \in [Source -> 0 .. MaxRev]
    /\ mtime \in [Source -> 1 .. clock]
    /\ options \in [Targets -> {"old", "new"}]
    /\ DOMAIN product = Node /\ \A n \in Node : product[n].time \in 0 .. clock
    /\ savedHash \in [Targets -> {"unknown", "old", "new"}]
    /\ hash \in [Targets -> {"unknown", "old", "new"}]
    /\ scope \subseteq Targets /\ marked \subseteq Node /\ expanded \subseteq scope
    /\ built \subseteq InTree /\ ran \subseteq Node
    /\ \A n \in built : Children(n) \subseteq built
    /\ \A f \in built \cap Files : TargetOf(f) \in expanded
    /\ phase \in {"idle", "building"}
    /\ covered \subseteq Node /\ owed \subseteq Node
    /\ faults \in 0 .. MaxFaults

\* A custom target with outputs but without files is not run, unless something it depends
\* on was made (jobfactory.cpp:251).
NeverRun == {t \in Custom : FilesOf[t] = {} /\ product[t] = Absent}

\* After a build that succeeded everything it dealt with is what its sources, options and
\* dependencies now make it, unless an earlier build owes it: whatever was edited, built by
\* name, failed, was interrupted or was given up early in any order. What is owed may go
\* without a command in every later build (createTargetJob looks only for the output,
\* jobfactory.cpp:220, and marks do not outlive the process, jobfactory.cpp:113).
SuccessMeansFresh == \A n \in covered \ (owed \cup NeverRun) : IsFresh(n)

\* What tests/basic_relink/script.sh:12 asks for: after a success every output was linked from
\* the objects there are. (TLC refutes it, without any failure: an edit of lib.c, a build of lib
\* by name and a build of everything leave the program as it was linked before; so does a build
\* that ended early.)
OutputsFollowObjects == \A t \in covered \ Custom : t \in Targets => product[t].made[2] = Recipe(t)[2]

\* No build, and nothing that is owed, ever makes a later one miss an edit of a source or a
\* header: after a success every object was compiled from the files as they are.
ObjectsFollowSources == \A f \in covered \cap Files : product[f].made[2] = Recipe(f)[2]

\* A build that begins with its tree up to date runs no command.
FreshMeansIdle == phase = "building" /\ wasFresh => ran = {}

-----------------------------------------------------------------------------
(* Why they hold: inductive invariants *)

\* What a product was made of has two parts: the options and the rest, or the revisions
\* and the rest for a custom target.
MadeInv ==
    \A n \in Node : product[n] # Absent => product[n].made = << product[n].made[1], product[n].made[2] >>

\* The sources that decide whether a file or a custom target is up to date, and their
\* revisions when it was made
SourcesOf(n) == IF n \in Files THEN {n} \cup Includes[n] ELSE FilesOf[n]
Recorded(n)  == IF n \in Files THEN product[n].made[2] ELSE product[n].made[1]

\* Time stamps tell the truth: a source is newer than a product exactly when the product
\* was made of an earlier revision of it.
TimesInv ==
    \A n \in Files \cup Custom : product[n] # Absent =>
        /\ Recorded(n) \subseteq Source \X Nat
        /\ \A p \in Recorded(n) : p[2] <= rev[p[1]] /\ (Newer(p[1], n) => p[2] < rev[p[1]])
        /\ (\A s \in SourcesOf(n) : ~Newer(s, n)) => Recorded(n) = Revisions(SourcesOf(n))

\* An object that is dealt with is as new as its sources, and stays so until an edit.
CompiledInv ==
    /\ phase = "building" => covered = {}
    /\ phase = "idle" => built = {} /\ marked = {} /\ ran = {}
    /\ \A f \in Files \cap (built \cup covered) : ~ShouldCompile(f)

\* A build that begins with everything fresh finds everything up to date.
IdleInv == phase = "building" /\ wasFresh => marked = {} /\ ran = {} /\ \A n \in InTree : IsFresh(n)

RebuildInv == TypeOK /\ MadeInv /\ TimesInv /\ CompiledInv /\ IdleInv

Parts(n) == {<< c, product[c].made >> : c \in Children(n)}

\* What is not owed was made with the options whose hash is saved, and a build marks what has
\* to get others, ...
HashInv ==
    /\ \A n \in Node \ (Custom \cup owed) : product[n] # Absent => product[n].made[1] = MadeFor(n)
    /\ phase = "building" => \A t \in Targets \ Custom :
           /\ hash[t] = IF t \in scope THEN options[t] ELSE savedHash[t]
           /\ t \in scope /\ savedHash[t] # options[t] =>
                  t \in marked /\ (t \in expanded => FilesOf[t] \subseteq marked)

\* ... a target of the tree is marked when the command of a part of it was run, ...
MarksInv == \A t \in scope : Children(t) \cap ran # {} => t \in marked

\* ... what is not owed is made of what is there until a part of it is made again, ...
PartsInv ==
    \A t \in Targets \ (built \cup owed) : product[t] # Absent =>
        \/ product[t].made[2] = Parts(t)
        \/ \E c \in Children(t) \cap Files : c \notin built /\ product[c] = Absent
        \/ Children(t) \cap built \cap ran # {}

\* ... and what was dealt with is fresh.
FreshInv == \A n \in (built \cup covered) \ (owed \cup NeverRun) : IsFresh(n)

OwedInv == HashInv /\ MarksInv /\ PartsInv /\ FreshInv
=============================================================================
