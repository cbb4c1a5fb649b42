-------------------------------- MODULE Job --------------------------------
(***************************************************************************)
(* The threads that run the jobs (job.cpp, luajob.cpp, oscommandjob.cpp).  *)
(* A job is named by its node: a node gets at most one job.                *)
(*                                                                         *)
(* Compilations and links run a command in a process of their own. Custom  *)
(* targets and hooks call a Lua function of the one LuaState, whose mutex  *)
(* (luaLock) they hold for as long as the function runs and which the main *)
(* thread also takes.                                                      *)
(***************************************************************************)
EXTENDS NodeTree

CONSTANT Failing   \* the nodes whose command or function may fail

ASSUME FailingAssumption == Failing \subseteq Node

VARIABLES
    job,       \* where the job of every node is
    result,    \* what doRun() returned for the node: 0 is success
    luaLock    \* who holds the mutex of the LuaState: "free", "main" or a node

jobVars == << job, result, luaLock >>

\* none: there is no job; created: createJob made it; counted: m_jobsRunning
\* includes it; started: its thread exists; running: inside doRun(); exited:
\* doRun() returned; reported: onFinished() returned; published: ~NodeGuard has
\* released the tree; flagged: onTreeChange has set the flag; gone: the thread
\* ended.
JobState == {"none", "created", "counted", "started", "running", "exited",
             "reported", "published", "flagged", "gone"}

JobTypeOK ==
    /\ job \in [Node -> JobState]
    /\ result \in [Node -> {0, 1}]
    /\ luaLock \in {"free", "main"} \cup Node

JobInit ==
    /\ job = [n \in Node |-> "none"]
    /\ result = [n \in Node |-> 0]
    /\ luaLock = "free"

SetJob(n, from, to) == job[n] = from /\ job' = [job EXCEPT ![n] = to]

IsLuaJob(n) == n \in Custom \cup Hooks

-----------------------------------------------------------------------------
\* Job::run: the thread starts detached.
StartThread(n) == SetJob(n, "counted", "started") /\ UNCHANGED << result, luaLock >>

\* doRun begins; LuaJob::doRun first waits for the LuaState.
BeginRun(n) ==
    /\ SetJob(n, "started", "running")
    /\ IF IsLuaJob(n) THEN luaLock = "free" /\ luaLock' = n
                      ELSE UNCHANGED luaLock
    /\ UNCHANGED result

\* Fault: a Lua error leaves the LuaState locked.
EndRunKeepsLua(n) ==
    /\ SetJob(n, "running", "exited")
    /\ \E r \in IF n \in Failing THEN {0, 1} ELSE {0} :
          /\ result' = [result EXCEPT ![n] = r]
          /\ luaLock' = IF IsLuaJob(n) /\ r = 0 THEN "free" ELSE luaLock

\* doRun returns the status of the command, or 1 for a Lua error.
EndRun(n) ==
    /\ SetJob(n, "running", "exited")
    /\ \E r \in IF n \in Failing THEN {0, 1} ELSE {0} :
          result' = [result EXCEPT ![n] = r]
    /\ luaLock' = IF IsLuaJob(n) THEN "free" ELSE luaLock

\* onFinished is called; what it does to the JobManager is in JobManager.tla.
ReportResult(n) == SetJob(n, "exited", "reported") /\ UNCHANGED << result, luaLock >>

\* The job is deleted: ~NodeGuard locks the tree, ...
DeleteNodeGuard(n) ==
    /\ SetJob(n, "reported", "published")
    /\ ReleaseNode(n, result[n] # 0)
    /\ UNCHANGED << result, luaLock >>

\* ... then calls onTreeChange, which sets a flag and notifies.
FlagTreeChange(n)   == SetJob(n, "published", "flagged") /\ UNCHANGED << result, luaLock >>
NotifyTreeChange(n) == SetJob(n, "flagged", "gone") /\ UNCHANGED << result, luaLock >>
=============================================================================
