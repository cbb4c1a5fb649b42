----------------------------- MODULE JobFactory -----------------------------
(***************************************************************************)
(* JobFactory::createJob (jobfactory.cpp): one step of the main thread per  *)
(* critical section or unlocked access. It searches the tree for a node,   *)
(* expands a target that is found pristine, claims the node and makes its  *)
(* job; when there is nothing to do yet it waits for onTreeChange.         *)
(***************************************************************************)
EXTENDS Job

CONSTANTS
    BadFiles,         \* files whose name has the suffix of no known language
    SpuriousWakeups   \* may a condition variable wake up without a notification?

ASSUME FactoryAssumption == BadFiles \subseteq Files /\ SpuriousWakeups \in BOOLEAN

VARIABLES
    pc,            \* where the main thread is
    found,         \* createJob's node
    foundTarget,   \* createJob's target, the one findAGoodNode assigns
    needToWait,    \* m_needToWait
    treeChanged,   \* m_treeChangedMeanWhile
    compileCache,  \* targets whose options are in Gcc::m_compileCommandCache
    jobTarget      \* the target a job was created with

factoryVars == << pc, found, foundTarget, needToWait, treeChanged, compileCache, jobTarget >>

FactoryPC == {"reset", "find", "expand", "findAgain", "check", "prewait", "waitTree",
              "woken", "claim", "lockLua", "create", "mark"}
\* The steps of JobManager::run, and "unwound" when an Error has left it.
ManagerPC == {"loop", "limit", "waitJobs", "recheck", "count", "spawn", "drain",
              "waitDone", "returned", "unwound"}

FactoryTypeOK ==
    /\ pc \in FactoryPC \cup ManagerPC
    /\ found \in Node \cup {NoNode}
    /\ foundTarget \in Targets \cup {NoNode}
    /\ needToWait \in BOOLEAN
    /\ treeChanged \in BOOLEAN
    /\ compileCache \subseteq Targets \cup {NoNode}
    /\ jobTarget \in [Node -> Targets \cup {NoNode}]

FactoryInit ==
    /\ pc = "loop"
    /\ found = NoNode
    /\ foundTarget = NoNode
    /\ needToWait = FALSE
    /\ treeChanged = FALSE
    /\ compileCache = {}
    /\ jobTarget = [n \in Node |-> NoNode]

Goto(from, to) == pc = from /\ pc' = to

-----------------------------------------------------------------------------
\* Neither flag is written under a lock.
ResetFlags ==
    /\ Goto("reset", "find")
    /\ needToWait' = FALSE
    /\ treeChanged' = FALSE
    /\ UNCHANGED << treeVars, jobVars, found, foundTarget, compileCache, jobTarget >>

\* The search below n leaves a node and its target, or null and m_needToWait
\* (which is read after a null result only).
SearchFrom(n) ==
    \/ \E i \in DOMAIN Search(n), t \in Targets \cup {NoNode} :
          /\ FoundAt(Search(n), i)
          /\ found' = Search(n)[i]
          /\ IsLastTarget(Search(n), i, t) /\ foundTarget' = t
          /\ UNCHANGED needToWait
    \/ /\ FindsNothing(Search(n))
       /\ found' = NoNode
       /\ needToWait' = LeavesUnbuilt(Search(n))
       /\ UNCHANGED foundTarget

\* The first search. The tree stays locked when a target has to be expanded.
FindAGoodNode ==
    /\ treeLock = "free"
    /\ pc = "find"
    /\ SearchFrom(Root)
    /\ IF found' \in Targets /\ status[found'] = Pristine
       THEN pc' = "expand" /\ treeLock' = "main"
       ELSE pc' = "check" /\ UNCHANGED treeLock
    /\ UNCHANGED << status, shouldBuild, children, hasFail, jobVars,
                    treeChanged, compileCache, jobTarget >>

\* Holding the tree, wait for the LuaState and expand.
ExpandFound ==
    /\ Goto("expand", "findAgain")
    /\ luaLock = "free"
    /\ luaLock' = "main"
    /\ ExpandTargetNode(found)
    /\ UNCHANGED << treeLock, job, result, found, foundTarget, needToWait, treeChanged,
                    compileCache, jobTarget >>

\* Search the expanded target; both locks are released.
FindInExpanded ==
    /\ Goto("findAgain", "check")
    /\ SearchFrom(found)
    /\ treeLock' = "free"
    /\ luaLock' = "free"
    /\ UNCHANGED << status, shouldBuild, children, hasFail, job, result, treeChanged,
                    compileCache, jobTarget >>

\* With no node: wait for a change of the tree, unless none is needed or one has
\* been flagged since the search; then there is no job to return.
CheckFound ==
    /\ pc = "check"
    /\ pc' = IF found # NoNode THEN "claim"
             ELSE IF needToWait /\ ~treeChanged THEN "prewait" ELSE "drain"
    /\ UNCHANGED << treeVars, jobVars, found, foundTarget, needToWait, treeChanged,
                    compileCache, jobTarget >>

WaitForTree ==
    /\ Goto("prewait", "waitTree")
    /\ UNCHANGED << treeVars, jobVars, found, foundTarget, needToWait, treeChanged,
                    compileCache, jobTarget >>

\* After the wait: no job once some job has failed, else search again.
AfterWait ==
    /\ pc = "woken"
    /\ pc' = IF hasFail THEN "drain" ELSE "reset"
    /\ UNCHANGED << treeVars, jobVars, found, foundTarget, needToWait, treeChanged,
                    compileCache, jobTarget >>

\* The node is claimed without a lock.
ClaimFound ==
    /\ Goto("claim", "lockLua")
    /\ status' = [status EXCEPT ![found] = Building]
    /\ UNCHANGED << shouldBuild, children, hasFail, treeLock, jobVars, found, foundTarget,
                    needToWait, treeChanged, compileCache, jobTarget >>

LockLua ==
    /\ Goto("lockLua", "create")
    /\ luaLock = "free"
    /\ luaLock' = "main"
    /\ UNCHANGED << treeVars, job, result, found, foundTarget, needToWait, treeChanged,
                    compileCache, jobTarget >>

-----------------------------------------------------------------------------
(* The creation of the job, with the LuaState and then the tree locked, and  *)
(* both released at the end.                                                *)

\* A custom target gets the target of the search, the others the node or the
\* target of the search; they are the same but for a hook (see JobsRunForTheirTarget).
TargetOfJob == IF found \in Targets \ Custom THEN found ELSE foundTarget

\* What the time stamps, the output file and the options say is up to date. A
\* hook always runs.
MayBeUpToDate == found \notin Hooks /\ ~shouldBuild[found]

NodeIsUpToDate ==
    /\ MayBeUpToDate
    /\ pc' = "reset"
    /\ status' = [status EXCEPT ![found] = Built]
    /\ UNCHANGED << job, jobTarget, compileCache >>

\* Gcc::compile knows the command of the target already, or makes it from the
\* language of this file.
CanCompile == found \in Files => foundTarget \in compileCache \/ found \notin BadFiles

NodeGetsJob ==
    /\ CanCompile
    /\ pc' = "mark"
    /\ SetJob(found, "none", "created")
    /\ jobTarget' = [jobTarget EXCEPT ![found] = TargetOfJob]
    /\ compileCache' = IF found \in Files THEN compileCache \cup {foundTarget} ELSE compileCache
    /\ UNCHANGED status

\* The Error of Gcc::compile leaves createJob, JobManager::run and
\* Meique::buildTargets, whose JobFactory and NodeTree it destroys.
CompileThrows ==
    /\ ~CanCompile
    /\ pc' = "unwound"
    /\ UNCHANGED << status, job, jobTarget, compileCache >>

CreateJobFor ==
    /\ pc = "create"
    /\ treeLock = "free"
    /\ NodeIsUpToDate \/ NodeGetsJob \/ CompileThrows
    /\ luaLock' = "free"
    /\ UNCHANGED << shouldBuild, children, hasFail, treeLock, result, found, foundTarget,
                    needToWait, treeChanged >>

\* Before createJob returns the job.
MarkParents ==
    /\ Goto("mark", "count")
    /\ treeLock = "free"
    /\ MarkAncestors(found)
    /\ UNCHANGED << treeLock, jobVars, found, foundTarget, needToWait, treeChanged,
                    compileCache, jobTarget >>

-----------------------------------------------------------------------------
\* onTreeChange, called by the thread of a job: set the flag, then notify.
SetTreeChanged ==
    /\ treeChanged' = TRUE
    /\ UNCHANGED << pc, found, foundTarget, needToWait, compileCache, jobTarget >>

WakeTreeWaiter ==
    /\ pc' = IF pc = "waitTree" THEN "woken" ELSE pc
    /\ UNCHANGED << found, foundTarget, needToWait, treeChanged, compileCache, jobTarget >>

SpuriousTreeWakeup ==
    /\ SpuriousWakeups
    /\ Goto("waitTree", "woken")
    /\ UNCHANGED << treeVars, jobVars, found, foundTarget, needToWait, treeChanged,
                    compileCache, jobTarget >>

CreateJob ==
    \/ ResetFlags \/ FindAGoodNode \/ ExpandFound \/ FindInExpanded \/ CheckFound
    \/ WaitForTree \/ AfterWait \/ ClaimFound \/ LockLua \/ CreateJobFor \/ MarkParents
=============================================================================
