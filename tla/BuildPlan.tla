----------------------------- MODULE BuildPlan -----------------------------
(***************************************************************************)
(* What a parallel build promises, without trees, threads or locks: tasks  *)
(* start after everything they need is done, at most MaxJobs run at once,  *)
(* after a failure one more task may start and no other, and the answer    *)
(* comes when nothing runs and says whether a task failed.                 *)
(* It does not promise that every task is done when the answer comes.      *)
(***************************************************************************)
EXTENDS Integers, FiniteSets

CONSTANTS
    Task,      \* what can be built
    Needs,     \* Needs[t]: the tasks t is made of
    MaxJobs

VARIABLES
    task,      \* "todo", "running", "succeeded" (not published yet), "failed", "done"
    closed,    \* nothing starts any more
    answer     \* "none", "success" or "error"

planVars == << task, closed, answer >>

In(state) == {t \in Task : task[t] = state}

PlanInit ==
    /\ task = [t \in Task |-> "todo"]
    /\ closed = FALSE
    /\ answer = "none"

IsReady(t) == task[t] = "todo" /\ Needs[t] \subseteq In("done")

Move(t, state) == task' = [task EXCEPT ![t] = state]

\* The first start after a failure is the last one.
Start(t) ==
    /\ ~closed
    /\ IsReady(t)
    /\ Cardinality(In("running")) < MaxJobs
    /\ Move(t, "running")
    /\ closed' = (In("failed") # {})
    /\ UNCHANGED answer

\* t is up to date.
Skip(t) == IsReady(t) /\ Move(t, "done") /\ UNCHANGED << closed, answer >>

Succeed(t) == task[t] = "running" /\ Move(t, "succeeded") /\ UNCHANGED closed

\* A failure may find the scheduler before or after it decided to start another.
Fail(t) ==
    /\ task[t] = "running"
    /\ Move(t, "failed")
    /\ closed' \in {closed, TRUE}

Publish(t) == task[t] = "succeeded" /\ Move(t, "done") /\ UNCHANGED << closed, answer >>

Close == closed' = TRUE /\ UNCHANGED << task, answer >>

\* The answer may come with the end of the last task.
Answer ==
    /\ answer = "none" /\ closed
    /\ In("running")' = {}
    /\ answer' = IF In("failed")' = {} THEN "success" ELSE "error"

PlanNext ==
    \/ \E t \in Task : Start(t) \/ Skip(t) \/ Publish(t)
    \/ \E t \in Task : (Succeed(t) \/ Fail(t)) /\ (UNCHANGED answer \/ Answer)
    \/ Close
    \/ Answer /\ UNCHANGED << task, closed >>

PlanSpec == PlanInit /\ [][PlanNext]_planVars
=============================================================================
