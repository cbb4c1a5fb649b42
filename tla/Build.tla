------------------------------- MODULE Build -------------------------------
(***************************************************************************)
(* A build: the main thread in JobManager::run, which asks the JobFactory  *)
(* for jobs, and the threads of the jobs it has started, all sharing the   *)
(* NodeTree and the LuaState.                                              *)
(***************************************************************************)
EXTENDS JobManager

vars == << treeVars, jobVars, factoryVars, managerVars >>

Init == TreeInit /\ JobInit /\ FactoryInit /\ ManagerInit

\* The main thread
MainStep ==
    \/ Run
    \/ CreateJob /\ UNCHANGED managerVars

Spurious ==
    \/ SpuriousTreeWakeup /\ UNCHANGED managerVars
    \/ SpuriousJobsWakeup

-----------------------------------------------------------------------------
(* The steps of initJobThread for the job of node n *)

Begin(n)   == BeginRun(n) /\ UNCHANGED << treeVars, factoryVars, managerVars >>
End(n)     == EndRun(n) /\ UNCHANGED << treeVars, factoryVars, managerVars >>
Report(n)  == ReportResult(n) /\ OnJobFinished(n) /\ UNCHANGED << treeVars, factoryRest >>
Release(n) == DeleteNodeGuard(n) /\ UNCHANGED << factoryVars, managerVars >>
Flag(n)    == FlagTreeChange(n) /\ SetTreeChanged /\ UNCHANGED << treeVars, managerVars >>
Notify(n)  == NotifyTreeChange(n) /\ WakeTreeWaiter /\ UNCHANGED << treeVars, managerVars >>

JobStep(n) == Begin(n) \/ End(n) \/ Report(n) \/ Release(n) \/ Flag(n) \/ Notify(n)

Next == MainStep \/ Spurious \/ \E n \in Node : JobStep(n)

Spec == Init /\ [][Next]_vars

\* Threads are scheduled, commands and functions end, and mutexes are handed over
\* (every thread takes each of them a bounded number of times, so weak fairness is
\* enough). Nothing is assumed of spurious wakeups.
FairSpec == Spec /\ WF_vars(MainStep) /\ \A n \in Node : WF_vars(JobStep(n))

-----------------------------------------------------------------------------
\* Every variable has its type: the fields of NodeTree, JobFactory and JobManager.
TypeOK == TreeTypeOK /\ JobTypeOK /\ FactoryTypeOK /\ ManagerTypeOK

InDoRun(n) == job[n] \in {"started", "running", "exited"}

\* Never do more than MaxJobs threads run a command: "-jN Allow N jobs at once".
\* The main thread tests m_jobsRunning long before it adds to it (JobManager::run).
JobLimit == Cardinality({n \in Node : InDoRun(n)}) <= MaxJobs

\* A node is claimed (and compiled, linked or run) only after everything it is made
\* of was published as Built by ~NodeGuard.
BuildOrder ==
    \A n \in Node : status[n] >= Building =>
        \A i \in DOMAIN children[n] : status[children[n][i]] = Built

\* Expansion is lazy, and follows the dependencies all the same: a target is expanded
\* after those it depends on, so that the recursion of expandTargetNode ends at once, and
\* no source file is compiled before the dependencies and the hook of its target have
\* succeeded, though the files join the tree while other targets are building.
SourcesWaitForDependencies ==
    /\ pc = "expand" => \A i \in DOMAIN Deps[found] : status[Deps[found][i]] > Pristine
    /\ \A t \in Targets \ Custom : \A i \in DOMAIN FilesOf[t] : status[FilesOf[t][i]] >= Building =>
           \A j \in DOMAIN FirstChildren[t] :
               status[FirstChildren[t][j]] = Built /\ result[FirstChildren[t][j]] = 0

\* run() returns after the last command has ended, and returns success exactly when
\* no job failed (JobManager::run, onJobFinished).
ExitStatus ==
    pc = "returned" => /\ \A n \in Node : ~InDoRun(n)
                       /\ success <=> \A n \in Node : result[n] = 0

\* Nothing that needs a failed node is ever claimed: ~NodeGuard leaves it Building.
FailureIsContained ==
    \A n \in Node : result[n] # 0 => \A a \in Ancestors[n] : status[a] < Building

\* When a job was made for a part of a target, the target gets a job too before the
\* build is over with it: it is not skipped as up to date (createJob's visitor over
\* the parents against the tests of createTargetJob and createCustomTargetJob).
RebuildReachesTargets ==
    \A n \in Node \ Hooks : job[n] \notin {"none", "created"} =>
        \A t \in Parents[n] \cap Targets : status[t] = Built => job[t] # "none"

\* Compilations and targets run with the options and the directory of their own
\* target, though findAGoodNode reports it through a pointer it overwrites. (A hook may
\* get another target: the last one the search entered.)
JobsRunForTheirTarget ==
    \A n \in Targets \cup Files : jobTarget[n] # NoNode =>
        n = jobTarget[n] \/ n \in Elements(FilesOf[jobTarget[n]])

\* Once a failure was reported, a main thread that has not passed its last test of
\* m_errorOccured makes no other job; a job in the making is the last one.
ScheduledAfterError == errorOccured /\ pc \in {"loop", "limit", "waitJobs", "recheck",
                                               "drain", "waitDone", "returned"}
ErrorStopsScheduling ==
    [][ScheduledAfterError => /\ ScheduledAfterError'
                              /\ \A n \in Node : job[n] = "none" => job'[n] = "none"]_vars

\* The only place where a build can hang is the wait for a change of the tree: every
\* wait of JobManager::run for a free place or for the last job ends, and so does every
\* wait for a lock.
EndsOrWaitsForTree == <>(pc \in {"returned", "unwound"}) \/ <>[](pc = "waitTree")

\* Every thread that is started ends: no order in which the tree, the LuaState and
\* the mutexes are taken blocks it for ever.
JobsEnd == \A n \in Node : job[n] = "started" ~> job[n] = "gone"

\* "by default all targets are ran" (meique.1:39): a build that returns success has dealt
\* with every target.
SuccessMeansAllBuilt ==
    pc = "returned" /\ success => \A t \in Targets : status[t] >= Building

\* meique "exits with a status" (meique.1:94): the build comes to an end.
BuildEnds == <>(pc \in {"returned", "unwound"})

-----------------------------------------------------------------------------
(* The build implements the abstract plan of BuildPlan.tla. Its tasks are    *)
(* the targets, hooks and files; what they need is fixed from the start,     *)
(* while the tree learns it as it expands.                                   *)

PlanTask == Node \ ({Root} \ Targets)

\* A target needs its parts, a file what its target waits for.
PlanNeeds == [n \in PlanTask |->
                 Elements(AllChildren[n])
                     \cup UNION {Elements(FirstChildren[t]) :
                                    t \in {t \in Parents[n] : n \in Files}}]

PlanState(n) ==
    CASE InDoRun(n)                                                 -> "running"
      [] job[n] \in {"reported", "published", "flagged", "gone"} /\ result[n] # 0
                                                                    -> "failed"
      [] job[n] = "reported" /\ result[n] = 0                       -> "succeeded"
      [] status[n] = Built                                          -> "done"
      [] OTHER                                                      -> "todo"

PlanStates == [n \in PlanTask |-> PlanState(n)]
PlanClosed == pc \in {"drain", "waitDone", "returned", "unwound"} \/ ScheduledAfterError
PlanAnswer == IF pc = "returned" THEN IF success THEN "success" ELSE "error" ELSE "none"

Plan == INSTANCE BuildPlan WITH
    Task   <- PlanTask,
    Needs  <- PlanNeeds,
    task   <- PlanStates,
    closed <- PlanClosed,
    answer <- PlanAnswer

\* Every step of the threads is a step of the plan or changes nothing in it.
ImplementsPlan == Plan!PlanSpec
=============================================================================
