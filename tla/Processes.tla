----------------------------- MODULE Processes -----------------------------
(***************************************************************************)
(* The processes meique starts: OS::exec (os_unix.cpp), called by the      *)
(* threads of jobs while they run at once, then by the main thread for one  *)
(* test after the other (Meique::testTargets). All threads share the       *)
(* descriptors and the working directory of the one process they are in; a *)
(* child has a copy of both from the moment of its fork.                   *)
(*                                                                         *)
(* A command job is one call. The function of a Lua job (a custom target,  *)
(* a hook) holds the LuaState and makes several calls, in a directory it   *)
(* has changed to (OS::ChangeWorkingDirectory).                            *)
(***************************************************************************)
EXTENDS Naturals, Sequences, FiniteSets

CONSTANTS
    Main, Jobs,    \* the threads
    LuaJobs,       \* those that run a Lua function
    Calls,         \* of every thread: its calls of exec, [output, dir, writes]
    BuildDir,      \* the working directory of meique
    WorkDir,       \* Job::workingDirectory() of the Lua jobs
    NoDir,         \* no workingDir is given
    Capacity,      \* how much a pipe takes in before the writer has to wait
    MaxFds,        \* the descriptors a process may have open for pipes
    ForkMayFail

Threads == Jobs \cup {Main}

\* The calls, each with the child and the pipe it makes
Ids == UNION {{t} \X DOMAIN Calls[t] : t \in Threads}
CallOf(c) == Calls[c[1]][c[2]]

\* A command job and a test name the directory of their command.
ASSUME ProcessAssumption ==
    /\ Main \notin Jobs /\ LuaJobs \subseteq Jobs /\ "free" \notin LuaJobs
    /\ \A t \in Threads : Len(Calls[t]) \in Nat \ {0} /\ DOMAIN Calls[t] = 1 .. Len(Calls[t])
    /\ \A c \in Ids : CallOf(c).output \in BOOLEAN /\ CallOf(c).writes \in Nat
    /\ \A c \in Ids : CallOf(c).dir = NoDir => c[1] \in LuaJobs
    /\ Capacity \in Nat \ {0} /\ MaxFds \in Nat /\ ForkMayFail \in BOOLEAN

VARIABLES
    at,        \* where each thread is
    call,      \* the call of exec it is in or comes to
    luaLock,   \* who has the LuaState: a thread or "free"
    cwd,       \* the working directory of meique
    oldDir,    \* m_oldDir of each Lua job
    fds,       \* the ends of pipes that meique has open: <<call, "read" or "write">>
    pipe,      \* what is in each pipe: how many pieces have been written and not read
    output,    \* what each call has appended to *output: who wrote it
    child,     \* each child: [state, dir, inherits], with the write ends it got
    written,   \* how much each child has written
    alive      \* has the process of meique not ended?

threadVars == << at, call, luaLock, cwd, oldDir >>
pipeVars   == << fds, pipe, output >>
childVars  == << child, written >>
vars       == << threadVars, pipeVars, childVars, alive >>

At == {"start", "call", "fork", "close", "read", "wait", "leave", "done"}
ChildState == {"none", "forked", "running", "zombie", "reaped"}

Init ==
    /\ at = [t \in Threads |-> "start"] /\ call = [t \in Threads |-> 1]
    /\ luaLock = "free" /\ cwd = BuildDir /\ oldDir = [t \in LuaJobs |-> BuildDir]
    /\ fds = {} /\ pipe = [c \in Ids |-> << >>] /\ output = [c \in Ids |-> << >>]
    /\ child = [c \in Ids |-> [state |-> "none", dir |-> BuildDir, inherits |-> {}]]
    /\ written = [c \in Ids |-> 0]
    /\ alive = TRUE

Goto(t, place) == at' = [at EXCEPT ![t] = place]

Current(t) == << t, call[t] >>

-----------------------------------------------------------------------------
(* A thread before, between and after its calls *)

\* Fault: the LuaState is not locked.
BeginUnlocked(t) ==
    /\ at[t] = "start" /\ t \in Jobs
    /\ Goto(t, "call")
    /\ IF t \in LuaJobs
       THEN oldDir' = [oldDir EXCEPT ![t] = cwd] /\ cwd' = WorkDir[t]
       ELSE UNCHANGED << oldDir, cwd >>
    /\ UNCHANGED << call, luaLock, pipeVars, childVars, alive >>

\* LuaJob::doRun locks the LuaState and changes to the directory of its target.
Begin(t) ==
    /\ at[t] = "start" /\ t \in Jobs
    /\ Goto(t, "call")
    /\ IF t \in LuaJobs
       THEN /\ luaLock = "free" /\ luaLock' = t
            /\ oldDir' = [oldDir EXCEPT ![t] = cwd] /\ cwd' = WorkDir[t]
       ELSE UNCHANGED << luaLock, oldDir, cwd >>
    /\ UNCHANGED << call, pipeVars, childVars, alive >>

\* JobManager::run has returned, and the tests begin.
BeginTests ==
    /\ at[Main] = "start" /\ \A t \in Jobs : at[t] = "done"
    /\ Goto(Main, "call")
    /\ UNCHANGED << call, luaLock, cwd, oldDir, pipeVars, childVars, alive >>

\* ~ChangeWorkingDirectory, then the lock is given up.
Leave(t) ==
    /\ at[t] = "leave"
    /\ Goto(t, "done")
    /\ IF t \in LuaJobs THEN cwd' = oldDir[t] /\ luaLock' = "free" ELSE UNCHANGED << cwd, luaLock >>
    /\ UNCHANGED << call, oldDir, pipeVars, childVars, alive >>

\* An Error of exec ends a Lua function (luaD_rawrunprotected catches it), but nothing
\* catches it in the thread of a command, and in the main thread it ends the run.
Throw(t) ==
    IF t \in LuaJobs THEN Goto(t, "leave") /\ UNCHANGED alive
                     ELSE alive' = FALSE /\ UNCHANGED at

-----------------------------------------------------------------------------
(* OS::exec *)

\* pipe(2)
CreatePipe(t) ==
    /\ at[t] = "call" /\ CallOf(Current(t)).output
    /\ IF Cardinality(fds) + 2 <= MaxFds
       THEN /\ fds' = fds \cup ({Current(t)} \X {"read", "write"})
            /\ Goto(t, "fork") /\ UNCHANGED alive
       ELSE Throw(t) /\ UNCHANGED fds
    /\ UNCHANGED << call, luaLock, cwd, oldDir, pipe, output, childVars >>

WriteEnds == {c \in Ids : << c, "write" >> \in fds}

\* The child is a copy: it has every write end that is open now, whoever opened it.
Fork(t) ==
    /\ at[t] = IF CallOf(Current(t)).output THEN "fork" ELSE "call"
    /\ child' = [child EXCEPT ![Current(t)] =
                    [state |-> "forked", dir |-> cwd, inherits |-> WriteEnds]]
    /\ Goto(t, IF CallOf(Current(t)).output THEN "close" ELSE "wait")
    /\ UNCHANGED << call, luaLock, cwd, oldDir, pipeVars, written, alive >>

ForkFails(t) ==
    /\ ForkMayFail
    /\ at[t] = IF CallOf(Current(t)).output THEN "fork" ELSE "call"
    /\ Throw(t)
    /\ UNCHANGED << call, luaLock, cwd, oldDir, pipeVars, childVars >>

\* Fault: meique keeps its own write end.
CloseNothing(t) == at[t] = "close" /\ Goto(t, "read") /\ UNCHANGED fds

CloseWriteEnd(t) == at[t] = "close" /\ Goto(t, "read") /\ fds' = fds \ {<< Current(t), "write" >>}

Close(t) ==
    /\ CloseWriteEnd(t)
    /\ UNCHANGED << call, luaLock, cwd, oldDir, pipe, output, childVars, alive >>

\* What is in the pipe, read() hands over, a piece at a time.
Read(t) ==
    LET c == Current(t) IN
    /\ at[t] = "read" /\ pipe[c] # << >>
    /\ output' = [output EXCEPT ![c] = Append(@, Head(pipe[c]))]
    /\ pipe' = [pipe EXCEPT ![c] = Tail(@)]
    /\ UNCHANGED << threadVars, fds, childVars, alive >>

HoldsWriteEnd(d, c) == child[d].state \in {"forked", "running"} /\ c \in child[d].inherits

\* Fault: an empty pipe is taken for its end.
AtEndOnceEmpty(c) == pipe[c] = << >>

\* read() returns 0 once nobody can write any more: not meique, and no child that
\* inherited the end.
AtEnd(c) ==
    /\ pipe[c] = << >>
    /\ << c, "write" >> \notin fds
    /\ \A d \in Ids : ~HoldsWriteEnd(d, c)

ReadEnd(t) ==
    /\ at[t] = "read" /\ AtEnd(Current(t))
    /\ Goto(t, "wait")
    /\ UNCHANGED << call, luaLock, cwd, oldDir, pipeVars, childVars, alive >>

\* waitpid. A Lua function gives up when a command fails whose output it does not want
\* (meiqueAutomoc), a list of calls ends after the last one.
Wait(t) ==
    LET c == Current(t) IN
    /\ at[t] = "wait" /\ child[c].state = "zombie"
    /\ child' = [child EXCEPT ![c].state = "reaped"]
    /\ \E status \in {0, 1} :
          IF call[t] = Len(Calls[t]) \/ (t \in LuaJobs /\ ~CallOf(c).output /\ status # 0)
          THEN Goto(t, "leave") /\ UNCHANGED call
          ELSE Goto(t, "call") /\ call' = [call EXCEPT ![t] = @ + 1]
    /\ UNCHANGED << luaLock, cwd, oldDir, pipeVars, written, alive >>

-----------------------------------------------------------------------------
(* The children *)

\* chdir to workingDir, dup2, execl
Execute(c) ==
    /\ child[c].state = "forked"
    /\ child' = [child EXCEPT ![c] =
                    [state |-> "running", inherits |-> @.inherits,
                     dir |-> IF CallOf(c).dir = NoDir THEN @.dir ELSE CallOf(c).dir]]
    /\ UNCHANGED << threadVars, pipeVars, written, alive >>

Write(c) ==
    /\ child[c].state = "running" /\ written[c] < CallOf(c).writes
    /\ written' = [written EXCEPT ![c] = @ + 1]
    /\ IF CallOf(c).output
       THEN Len(pipe[c]) < Capacity /\ pipe' = [pipe EXCEPT ![c] = Append(@, << c, written'[c] >>)]
       ELSE UNCHANGED pipe
    /\ UNCHANGED << threadVars, fds, output, child, alive >>

Exit(c) ==
    /\ child[c].state = "running" /\ written[c] = CallOf(c).writes
    /\ child' = [child EXCEPT ![c].state = "zombie"]
    /\ UNCHANGED << threadVars, pipeVars, written, alive >>

-----------------------------------------------------------------------------
ThreadStep(t) ==
    /\ alive
    /\ \/ Begin(t) \/ Leave(t) \/ CreatePipe(t) \/ Fork(t) \/ ForkFails(t) \/ Close(t)
       \/ Read(t) \/ ReadEnd(t) \/ Wait(t)

ChildStep(c) == Execute(c) \/ Write(c) \/ Exit(c)

Next ==
    \/ \E t \in Threads : ThreadStep(t)
    \/ alive /\ BeginTests
    \/ \E c \in Ids : ChildStep(c)

Spec == Init /\ [][Next]_vars

\* Threads and processes are scheduled, and commands end.
FairSpec ==
    /\ Spec
    /\ \A t \in Threads : WF_vars(ThreadStep(t))
    /\ WF_vars(alive /\ BeginTests)
    /\ \A c \in Ids : WF_vars(ChildStep(c))

-----------------------------------------------------------------------------
Dir == {BuildDir} \cup {WorkDir[t] : t \in LuaJobs} \cup {CallOf(c).dir : c \in Ids}

\* Every variable has its type, no pipe holds more than it can, and no more descriptors are
\* open than may be.
TypeOK ==
    /\ at \in [Threads -> At]
    /\ DOMAIN call = Threads /\ \A t \in Threads : call[t] \in DOMAIN Calls[t]
    /\ luaLock \in LuaJobs \cup {"free"}
    /\ cwd \in Dir /\ oldDir \in [LuaJobs -> Dir]
    /\ fds \subseteq Ids \X {"read", "write"} /\ IsFiniteSet(fds) /\ Cardinality(fds) <= MaxFds
    /\ child \in [Ids -> [state : ChildState, dir : Dir, inherits : SUBSET Ids]]
    /\ written \in [Ids -> Nat]
    /\ DOMAIN pipe = Ids /\ DOMAIN output = Ids
    /\ \A c \in Ids : pipe[c] \in Seq(Ids \X Nat) /\ Len(pipe[c]) <= Capacity
    /\ alive \in BOOLEAN

\* A call has returned when its thread is past it.
Returned(c) == child[c].state = "reaped"

\* A call that returns has in *output all that its command has written, in order, and
\* nothing of another command, though the ends of its pipe may be in many processes.
OutputIsComplete ==
    \A c \in Ids : Returned(c) =>
        output[c] = IF CallOf(c).output THEN [i \in 1 .. CallOf(c).writes |-> << c, i >>] ELSE << >>

\* A command runs in the directory it was given, and without one in that of the Lua
\* function which starts it, whatever the threads do to the working directory meanwhile;
\* and when no Lua function runs meique is in its build directory, where its cache belongs.
RunsInItsDirectory ==
    /\ \A c \in Ids : child[c].state = "running" =>
          child[c].dir = IF CallOf(c).dir # NoDir THEN CallOf(c).dir ELSE WorkDir[c[1]]
    /\ luaLock = "free" => cwd = BuildDir

\* Every build and its tests come to an end: no exec waits for ever for output or for its
\* child, in whatever order threads fork and close.
AllReturn == <>(~alive \/ \A t \in Threads : at[t] = "done")

\* "Run tests matching a regular expression, all tests if none was specified."
\* (meique.cpp:308): no test ends the run before the next one.
AllTestsRun == at[Main] # "start" => alive

-----------------------------------------------------------------------------
(* Why the first two of these hold: an inductive invariant *)

\* How far a call is: those before the current one have returned, and the current one has
\* a child from the fork to waitpid.
CallsInv ==
    \A c \in Ids :
        /\ c[2] < call[c[1]] => Returned(c)
        /\ c[2] > call[c[1]] => child[c].state = "none"
        /\ c[2] = call[c[1]] =>
              /\ at[c[1]] \in {"start", "call", "fork"} => child[c].state = "none"
              /\ at[c[1]] \in {"close", "read", "wait"} => child[c].state \in {"forked", "running", "zombie"}
              /\ at[c[1]] \in {"leave", "done"}         => child[c].state \in {"none", "reaped"}

\* Who is in the code of exec that deals with the pipe wants the output, and has the write
\* end until it closes it; so the child inherits it.
EndsInv ==
    /\ \A t \in Threads :
          /\ at[t] \in {"fork", "close", "read"} => CallOf(Current(t)).output
          /\ at[t] \in {"fork", "close"} => << Current(t), "write" >> \in fds
    /\ \A c \in Ids : CallOf(c).output /\ child[c].state # "none" => c \in child[c].inherits

\* The pieces of a call's output after the first n
Pieces(c, n, k) == [i \in 1 .. k |-> << c, n + i >>]

\* What a command has written, in order, is what was read and what is in the pipe.
PipeInv ==
    \A c \in Ids :
        /\ output[c] = Pieces(c, 0, Len(output[c])) /\ Len(output[c]) \in Nat
        /\ pipe[c] = Pieces(c, Len(output[c]), Len(pipe[c]))
        /\ Len(output[c]) + Len(pipe[c]) = IF CallOf(c).output THEN written[c] ELSE 0
        /\ written[c] <= CallOf(c).writes
        /\ child[c].state \in {"none", "forked"} => written[c] = 0
        /\ child[c].state \in {"zombie", "reaped"} => written[c] = CallOf(c).writes

\* Who waits for the child has read all it will ever write.
ReadInv ==
    \A c \in Ids :
        CallOf(c).output /\ (Returned(c) \/ (c = Current(c[1]) /\ at[c[1]] = "wait")) =>
            pipe[c] = << >> /\ child[c].state \in {"zombie", "reaped"}

\* Who has the LuaState has changed to the directory of its target, and nobody else has.
DirInv ==
    /\ luaLock = "free" => cwd = BuildDir
    /\ luaLock # "free" => cwd = WorkDir[luaLock] /\ oldDir[luaLock] = BuildDir
    /\ \A t \in LuaJobs : luaLock = t <=> at[t] \notin {"start", "done"}
    /\ \A c \in Ids : CallOf(c).dir = NoDir /\ child[c].state # "none" => child[c].dir = WorkDir[c[1]]
    /\ \A c \in Ids : CallOf(c).dir # NoDir /\ child[c].state = "running" => child[c].dir = CallOf(c).dir

ProcessInv == TypeOK /\ CallsInv /\ EndsInv /\ PipeInv /\ ReadInv /\ DirInv
=============================================================================
