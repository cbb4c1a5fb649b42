----------------------------- MODULE JobManager -----------------------------
(***************************************************************************)
(* JobManager::run and onJobFinished (jobmanager.cpp). The main thread     *)
(* keeps at most MaxJobs jobs running and stops asking for more after a    *)
(* failure; the threads of the jobs report to it.                          *)
(*                                                                         *)
(* Every section under m_jobsRunningMutex is one step: the mutex is never  *)
(* held across a wait for another one, and a thread that waits on one of   *)
(* its two conditions gives it up in the same step.                        *)
(***************************************************************************)
EXTENDS JobFactory

CONSTANT MaxJobs   \* the number of -j

ASSUME MaxJobsAssumption == MaxJobs \in Nat \ {0}

VARIABLES
    jobsRunning,   \* m_jobsRunning
    errorOccured,  \* m_errorOccured
    success        \* what run() returned

managerVars == << jobsRunning, errorOccured, success >>

ManagerTypeOK ==
    /\ jobsRunning \in Nat
    /\ errorOccured \in BOOLEAN
    /\ success \in BOOLEAN

ManagerInit ==
    /\ jobsRunning = 0
    /\ errorOccured = FALSE
    /\ success = FALSE

\* What the steps of run leave alone but for pc, the jobs and managerVars
factoryRest == << found, foundTarget, needToWait, treeChanged, compileCache, jobTarget >>

-----------------------------------------------------------------------------
\* while (!m_errorOccured)
TestLoop ==
    /\ pc = "loop"
    /\ pc' = IF errorOccured THEN "drain" ELSE "limit"
    /\ UNCHANGED << treeVars, jobVars, factoryRest, managerVars >>

\* Fault: one job too many.
WaitAboveLimit ==
    /\ pc = "limit"
    /\ pc' = IF jobsRunning > MaxJobs THEN "waitJobs" ELSE "recheck"
    /\ UNCHANGED << treeVars, jobVars, factoryRest, managerVars >>

\* Wait once, and whatever woke it up go on.
WaitBelowLimit ==
    /\ pc = "limit"
    /\ pc' = IF jobsRunning >= MaxJobs THEN "waitJobs" ELSE "recheck"
    /\ UNCHANGED << treeVars, jobVars, factoryRest, managerVars >>

\* Fault: the error is not tested after the wait.
RecheckNothing ==
    /\ Goto("recheck", "reset")
    /\ UNCHANGED << treeVars, jobVars, factoryRest, managerVars >>

RecheckError ==
    /\ pc = "recheck"
    /\ pc' = IF errorOccured THEN "drain" ELSE "reset"
    /\ UNCHANGED << treeVars, jobVars, factoryRest, managerVars >>

CountJob ==
    /\ Goto("count", "spawn")
    /\ jobsRunning' = jobsRunning + 1
    /\ SetJob(found, "created", "counted")
    /\ UNCHANGED << treeVars, result, luaLock, factoryRest, errorOccured, success >>

SpawnJob ==
    /\ Goto("spawn", "loop")
    /\ StartThread(found)
    /\ UNCHANGED << treeVars, factoryRest, managerVars >>

\* run returns whether no job has failed so far.
Return ==
    /\ pc' = "returned"
    /\ success' = ~errorOccured

\* Fault: the last job is not waited for.
DrainAllButOne ==
    /\ pc = "drain"
    /\ IF jobsRunning > 1
       THEN pc' = "waitDone" /\ UNCHANGED success
       ELSE Return
    /\ UNCHANGED << treeVars, jobVars, factoryRest, jobsRunning, errorOccured >>

\* "Waiting for unfinished jobs..."
Drain ==
    /\ pc = "drain"
    /\ IF jobsRunning # 0
       THEN pc' = "waitDone" /\ UNCHANGED success
       ELSE Return
    /\ UNCHANGED << treeVars, jobVars, factoryRest, jobsRunning, errorOccured >>

SpuriousJobsWakeup ==
    /\ SpuriousWakeups
    /\ \/ Goto("waitJobs", "recheck") /\ UNCHANGED success
       \/ pc = "waitDone" /\ Return
    /\ UNCHANGED << treeVars, jobVars, factoryRest, jobsRunning, errorOccured >>

Run ==
    \/ TestLoop \/ WaitBelowLimit \/ RecheckError \/ CountJob \/ SpawnJob \/ Drain

-----------------------------------------------------------------------------
\* What the main thread does when left jobs remain and it waits for a free place or
\* for the last job.
WakeManager(left, error) ==
    IF pc = "waitJobs" /\ left < MaxJobs THEN pc' = "recheck" /\ UNCHANGED success
    ELSE IF pc = "waitDone" /\ left = 0 THEN pc' = "returned" /\ success' = ~error
    ELSE UNCHANGED << pc, success >>

\* Faults: only the last result counts; the last job is tested for before it is
\* subtracted.
OnJobFinishedForgets(n) ==
    /\ jobsRunning' = jobsRunning - 1
    /\ errorOccured' = (result[n] # 0)
    /\ WakeManager(jobsRunning', errorOccured')
OnJobFinishedEarly(n) ==
    /\ jobsRunning' = jobsRunning - 1
    /\ errorOccured' = (errorOccured \/ result[n] # 0)
    /\ WakeManager(jobsRunning, errorOccured')

\* The thread of job n calls onJobFinished, which notifies the main thread.
OnJobFinished(n) ==
    /\ jobsRunning' = jobsRunning - 1
    /\ errorOccured' = (errorOccured \/ result[n] # 0)
    /\ WakeManager(jobsRunning', errorOccured')
=============================================================================
