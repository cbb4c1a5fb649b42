------------------------------ MODULE BuildInv ------------------------------
(***************************************************************************)
(* The inductive invariant behind the safety theorems of BuildProofs.tla.  *)
(* It says, for every place the main thread can be in, what it knows of    *)
(* the node it has in its hands and of the number of jobs.                 *)
(***************************************************************************)
EXTENDS Build

\* The jobs m_jobsRunning stands for
Counted == {n \in Node : job[n] \in {"counted", "started", "running", "exited"}}

Reported(n) == job[n] \in {"reported", "published", "flagged", "gone"}

\* A node that is not claimed has no job, and a claimed node has all it is made of.
NodesInv ==
    /\ \A n \in Node : status[n] < Building => job[n] = "none"
    /\ BuildOrder

\* What the main thread has in its hands.
FoundInv ==
    /\ pc \in {"expand", "findAgain"} => found \in Targets /\ status[found] < Building
    /\ pc \in {"check", "claim"} /\ found # NoNode => IsGood(found)
    /\ pc \in {"claim", "lockLua", "create", "mark", "count", "spawn"} => found \in Node
    /\ pc \in {"lockLua", "create"} => status[found] = Building /\ job[found] = "none"
    /\ pc \in {"mark", "count"} => job[found] = "created"
    /\ pc = "spawn" => job[found] = "counted"
    /\ \A n \in Node : job[n] = "created" => pc \in {"mark", "count"} /\ n = found
    /\ \A n \in Node : job[n] = "counted" => pc = "spawn" /\ n = found

\* m_jobsRunning counts the jobs.
CountInv == jobsRunning = Cardinality(Counted)

\* From the test of the limit to the count there is room for one more.
HasRoom == pc \in {"recheck", "reset", "find", "expand", "findAgain", "check", "prewait",
                   "waitTree", "woken", "claim", "lockLua", "create", "mark", "count"}
LimitInv ==
    /\ jobsRunning <= MaxJobs
    /\ HasRoom => jobsRunning < MaxJobs

\* The failures that were reported are the ones m_errorOccured tells of.
ErrorInv ==
    /\ \A n \in Node : result[n] # 0 => job[n] = "exited" \/ Reported(n)
    /\ errorOccured <=> \E n \in Node : Reported(n) /\ result[n] # 0
    /\ pc = "returned" => jobsRunning = 0 /\ (success <=> ~errorOccured)

\* The result of a job and the status of its node
ResultInv ==
    \A n \in Node :
        /\ job[n] \in {"none", "created", "counted", "started", "running"} => result[n] = 0
        /\ job[n] \notin {"none", "published", "flagged", "gone"} => status[n] = Building
        /\ job[n] \in {"published", "flagged", "gone"} =>
               status[n] = IF result[n] = 0 THEN Built ELSE Building

\* How far the tree is expanded. A fake root stays as it is.
ExpandedInv ==
    /\ \A n \in Node : status[n] # Pristine => n \in Targets \cup Hooks \cup Files
    /\ \A n \in Node :
           children[n] = IF status[n] = Pristine THEN FirstChildren[n] ELSE AllChildren[n]
    /\ \A t \in Targets : status[t] # Pristine =>
           \A i \in DOMAIN FirstChildren[t] : status[FirstChildren[t][i]] = Built
    /\ \A t \in Targets \ Custom : \A i \in DOMAIN FilesOf[t] :
           status[FilesOf[t][i]] # Pristine => status[t] # Pristine

\* The target the search reports is that of the node it returns, but for a hook.
IsTargetOf(n, t) ==
    /\ n \in Targets => t = n
    /\ n \in Files => t \in Targets \ Custom /\ n \in Elements(FilesOf[t])

\* What the main thread holds is expanded, and belongs to the target it holds.
HeldInv ==
    /\ pc = "expand" => IsGood(found) /\ status[found] = Pristine
    /\ pc = "findAgain" => status[found] # Pristine
    /\ pc \in {"check", "claim"} /\ found \in Targets => status[found] # Pristine
    /\ pc \in {"check", "claim", "lockLua", "create"} /\ found # NoNode =>
           /\ IsTargetOf(found, foundTarget)
           /\ found \in Files => status[foundTarget] # Pristine

\* Above a job everything is marked from the last step of createJob on, and nothing is
\* skipped as up to date then or later.
MarkedInv ==
    \A n \in Node \ Hooks : \A t \in Parents[n] \cap Targets :
        /\ job[n] \notin {"none", "created"} \/ (job[n] = "created" /\ pc = "count") => shouldBuild[t]
        /\ status[t] = Built /\ job[t] = "none" => job[n] = "none"

\* What holds with and without spurious wakeups, and what needs their absence
SafeInv  == TypeOK /\ NodesInv /\ FoundInv /\ CountInv
LimitsInv == SafeInv /\ LimitInv /\ ErrorInv
TreeInv == SafeInv /\ ResultInv /\ ExpandedInv /\ HeldInv /\ MarkedInv /\ JobsRunForTheirTarget
=============================================================================
