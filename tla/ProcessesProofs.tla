-------------------------- MODULE ProcessesProofs --------------------------
(***************************************************************************)
(* Proofs about Processes.tla: whatever the threads of meique and their    *)
(* children do in whatever order, a call of exec returns all its command   *)
(* has written, and every command runs in its own directory.               *)
(***************************************************************************)
EXTENDS Processes, FiniteSetTheorems, SequenceTheorems, TLAPS

USE DEF threadVars, pipeVars, childVars

\* A call is a thread and a number of one of its calls.
LEMMA IdsAre ==
    /\ \A c \in Ids : c = << c[1], c[2] >> /\ c[1] \in Threads /\ c[2] \in DOMAIN Calls[c[1]]
                      /\ c[2] \in Nat
    /\ \A t \in Threads : \A i \in DOMAIN Calls[t] : << t, i >> \in Ids
  <1>1. \A t \in Threads : DOMAIN Calls[t] \subseteq Nat
    BY ProcessAssumption
  <1> QED
    BY <1>1 DEF Ids

\* The call a thread is in or comes to
LEMMA CurrentIs ==
    ASSUME TypeOK, NEW t \in Threads
    PROVE  /\ Current(t) \in Ids /\ Current(t)[1] = t /\ Current(t)[2] = call[t] /\ call[t] \in Nat
           /\ \A c \in Ids : c[1] = t /\ c[2] = call[t] <=> c = Current(t)
  <1>1. call[t] \in DOMAIN Calls[t]
    BY DEF TypeOK
  <1> QED
    BY <1>1, IdsAre DEF Current

\* What an Error of exec does
LEMMA ThrowIs ==
    ASSUME NEW t \in Threads, Throw(t)
    PROVE  \/ t \in LuaJobs /\ at' = [at EXCEPT ![t] = "leave"] /\ alive' = alive
           \/ t \notin LuaJobs /\ at' = at /\ alive' = FALSE
  BY DEF Throw, Goto

Kid == [state : ChildState, dir : Dir, inherits : SUBSET Ids]

\* A child that gets on to another state
LEMMA ChildGetsOn ==
    ASSUME TypeOK, NEW c \in Ids, NEW s \in ChildState, child' = [child EXCEPT ![c].state = s]
    PROVE  /\ child' \in [Ids -> Kid]
           /\ child'[c].state = s /\ child'[c].dir = child[c].dir /\ child'[c].inherits = child[c].inherits
           /\ \A d \in Ids : d # c => child'[d] = child[d]
  <1>1. child[c] \in Kid
    BY DEF TypeOK, Kid
  <1>2. [child[c] EXCEPT !.state = s] = [state |-> s, dir |-> child[c].dir, inherits |-> child[c].inherits]
    BY <1>1 DEF Kid
  <1>3. [state |-> s, dir |-> child[c].dir, inherits |-> child[c].inherits] \in Kid
    BY <1>1 DEF Kid
  <1>4. child' = [child EXCEPT ![c] = [child[c] EXCEPT !.state = s]]
    BY DEF TypeOK
  <1> QED
    BY <1>2, <1>3, <1>4 DEF TypeOK, Kid

\* A child that goes to its directory and runs
LEMMA ChildExecutes ==
    ASSUME TypeOK, NEW c \in Ids, Execute(c)
    PROVE  /\ child' \in [Ids -> Kid]
           /\ child[c].state = "forked" /\ child'[c].state = "running"
           /\ child'[c].dir = IF CallOf(c).dir = NoDir THEN child[c].dir ELSE CallOf(c).dir
           /\ child'[c].inherits = child[c].inherits
           /\ \A d \in Ids : d # c => child'[d] = child[d]
  <1> DEFINE place == IF CallOf(c).dir = NoDir THEN child[c].dir ELSE CallOf(c).dir
             kid   == [state |-> "running", inherits |-> child[c].inherits, dir |-> place]
  <1>1. child[c] \in Kid /\ child \in [Ids -> Kid]
    BY DEF TypeOK, Kid
  <1>2. kid \in Kid
    BY <1>1 DEF Kid, Dir, ChildState
  <1>3. child[c].state = "forked" /\ child' = [child EXCEPT ![c] = kid]
    BY DEF Execute
  <1> QED
    BY <1>1, <1>2, <1>3

\* Every step keeps the types.
LEMMA TypeStep ==
    ASSUME TypeOK, Next
    PROVE  TypeOK'
  <1>0. LuaJobs \subseteq Threads
    BY ProcessAssumption DEF Threads
  <1>1. ASSUME NEW t \in Threads, Begin(t) \/ Leave(t) PROVE TypeOK'
    <2>1. /\ at' \in [Threads -> At] /\ luaLock' \in LuaJobs \cup {"free"}
          /\ UNCHANGED << call, pipeVars, childVars, alive >>
      BY <1>1 DEF Begin, Leave, Goto, TypeOK, At
    <2>2. cwd' \in Dir /\ oldDir' \in [LuaJobs -> Dir]
      <3>1. \A s \in LuaJobs : WorkDir[s] \in Dir
        BY DEF Dir
      <3>2. cwd \in Dir /\ oldDir \in [LuaJobs -> Dir]
        BY DEF TypeOK
      <3>3. CASE Begin(t)
        BY <3>1, <3>2, <3>3 DEF Begin
      <3>4. CASE Leave(t)
        BY <3>2, <3>4 DEF Leave
      <3> QED
        BY <1>1, <3>3, <3>4
    <2> QED
      BY <2>1, <2>2 DEF TypeOK
  <1>2. CASE BeginTests
    <2>1. at' \in [Threads -> At] /\ UNCHANGED << call, luaLock, cwd, oldDir, pipeVars, childVars, alive >>
      BY <1>2 DEF BeginTests, Goto, TypeOK, At
    <2> QED
      BY <2>1 DEF TypeOK
  <1>3. ASSUME NEW t \in Threads, CreatePipe(t) PROVE TypeOK'
    <2>1. /\ at' \in [Threads -> At] /\ alive' \in BOOLEAN
          /\ UNCHANGED << call, luaLock, cwd, oldDir, pipe, output, childVars >>
      BY <1>3, ThrowIs DEF CreatePipe, Goto, TypeOK, At
    <2>2. fds' \subseteq Ids \X {"read", "write"} /\ IsFiniteSet(fds') /\ Cardinality(fds') <= MaxFds
      <3>1. fds \subseteq Ids \X {"read", "write"} /\ IsFiniteSet(fds) /\ Cardinality(fds) <= MaxFds
        BY DEF TypeOK
      <3>2. CASE fds' = fds
        BY <3>1, <3>2
      <3>3. CASE fds' # fds
        <4> DEFINE r == << Current(t), "read" >>
                   w == << Current(t), "write" >>
        <4>1. fds' = (fds \cup {r}) \cup {w} /\ Cardinality(fds) + 2 <= MaxFds
          BY <1>3, <3>3 DEF CreatePipe
        <4>2. r \in Ids \X {"read", "write"} /\ w \in Ids \X {"read", "write"}
          BY CurrentIs
        <4>3. /\ IsFiniteSet(fds \cup {r}) /\ Cardinality(fds) \in Nat
              /\ Cardinality(fds \cup {r}) \in {Cardinality(fds), Cardinality(fds) + 1}
          BY <3>1, FS_AddElement, FS_CardinalityType
        <4>4. /\ IsFiniteSet(fds') /\ Cardinality(fds \cup {r}) \in Nat
              /\ Cardinality(fds') \in {Cardinality(fds \cup {r}), Cardinality(fds \cup {r}) + 1}
          BY <4>1, <4>3, FS_AddElement, FS_CardinalityType
        <4>5. MaxFds \in Nat
          BY ProcessAssumption
        <4> HIDE DEF r, w
        <4> QED
          BY <3>1, <4>1, <4>2, <4>3, <4>4, <4>5
      <3> QED
        BY <3>2, <3>3
    <2> QED
      BY <2>1, <2>2 DEF TypeOK
  <1>4. ASSUME NEW t \in Threads, Fork(t) PROVE TypeOK'
    <2>1. /\ at' \in [Threads -> At]
          /\ UNCHANGED << call, luaLock, cwd, oldDir, pipeVars, written, alive >>
      BY <1>4 DEF Fork, Goto, TypeOK, At
    <2>2. [state |-> "forked", dir |-> cwd, inherits |-> WriteEnds] \in Kid
      BY DEF TypeOK, ChildState, WriteEnds, Kid
    <2>3. child' \in [Ids -> Kid]
      BY <1>4, <2>2 DEF Fork, TypeOK, Kid
    <2> QED
      BY <2>1, <2>3 DEF TypeOK, Kid
  <1>5. ASSUME NEW t \in Threads, ForkFails(t) PROVE TypeOK'
    <2>1. /\ at' \in [Threads -> At] /\ alive' \in BOOLEAN
          /\ UNCHANGED << call, luaLock, cwd, oldDir, pipeVars, childVars >>
      BY <1>5, ThrowIs DEF ForkFails, TypeOK, At
    <2> QED
      BY <2>1 DEF TypeOK
  <1>6. ASSUME NEW t \in Threads, Close(t) PROVE TypeOK'
    <2>1. /\ at' \in [Threads -> At] /\ fds' = fds \ {<< Current(t), "write" >>}
          /\ UNCHANGED << call, luaLock, cwd, oldDir, pipe, output, childVars, alive >>
      BY <1>6 DEF Close, CloseWriteEnd, Goto, TypeOK, At
    <2>2. IsFiniteSet(fds') /\ Cardinality(fds') <= MaxFds
      <3>1. IsFiniteSet(fds) /\ Cardinality(fds) \in Nat /\ Cardinality(fds) <= MaxFds /\ MaxFds \in Nat
        BY FS_CardinalityType, ProcessAssumption DEF TypeOK
      <3>2. IsFiniteSet(fds') /\ Cardinality(fds') \in {Cardinality(fds), Cardinality(fds) - 1}
        BY <2>1, <3>1, FS_RemoveElement
      <3> QED
        BY <3>1, <3>2
    <2> QED
      BY <2>1, <2>2 DEF TypeOK
  <1>7. ASSUME NEW t \in Threads, Read(t) PROVE TypeOK'
    <2>1. /\ pipe' = [pipe EXCEPT ![Current(t)] = Tail(@)] /\ pipe[Current(t)] # << >>
          /\ DOMAIN output' = Ids
          /\ UNCHANGED << threadVars, fds, childVars, alive >>
      BY <1>7 DEF Read, TypeOK
    <2>2. ASSUME NEW c \in Ids PROVE pipe'[c] \in Seq(Ids \X Nat) /\ Len(pipe'[c]) <= Capacity
      <3>1. pipe[c] \in Seq(Ids \X Nat) /\ Len(pipe[c]) <= Capacity /\ Capacity \in Nat
        BY ProcessAssumption DEF TypeOK
      <3>2. CASE c = Current(t)
        BY <2>1, <3>1, <3>2 DEF TypeOK
      <3>3. CASE c # Current(t)
        BY <2>1, <3>1, <3>3 DEF TypeOK
      <3> QED
        BY <3>2, <3>3
    <2> QED
      BY <2>1, <2>2 DEF TypeOK
  <1>8. ASSUME NEW t \in Threads, ReadEnd(t) PROVE TypeOK'
    <2>1. at' \in [Threads -> At] /\ UNCHANGED << call, luaLock, cwd, oldDir, pipeVars, childVars, alive >>
      BY <1>8 DEF ReadEnd, Goto, TypeOK, At
    <2> QED
      BY <2>1 DEF TypeOK
  <1>9. ASSUME NEW t \in Threads, Wait(t) PROVE TypeOK'
    <2>1. at' \in [Threads -> At] /\ UNCHANGED << luaLock, cwd, oldDir, pipeVars, written, alive >>
      BY <1>9 DEF Wait, Goto, TypeOK, At
    <2>2. child' \in [Ids -> Kid]
      <3>1. child' = [child EXCEPT ![Current(t)].state = "reaped"]
        BY <1>9 DEF Wait
      <3> QED
        BY <3>1, CurrentIs, ChildGetsOn DEF ChildState
    <2>3. DOMAIN call' = Threads /\ \A s \in Threads : call'[s] \in DOMAIN Calls[s]
      <3>1. call' = call \/ (call[t] # Len(Calls[t]) /\ call' = [call EXCEPT ![t] = @ + 1])
        BY <1>9 DEF Wait
      <3>2. call[t] \in 1 .. Len(Calls[t]) /\ DOMAIN Calls[t] = 1 .. Len(Calls[t]) /\ Len(Calls[t]) \in Nat
        BY ProcessAssumption DEF TypeOK
      <3>3. call[t] # Len(Calls[t]) => call[t] + 1 \in DOMAIN Calls[t]
        BY <3>2
      <3> QED
        BY <3>1, <3>3 DEF TypeOK
    <2> QED
      BY <2>1, <2>2, <2>3 DEF TypeOK, Kid
  <1>10. ASSUME NEW c \in Ids, Execute(c) PROVE TypeOK'
    <2>1. UNCHANGED << threadVars, pipeVars, written, alive >>
      BY <1>10 DEF Execute
    <2>2. child' \in [Ids -> Kid]
      BY <1>10, ChildExecutes
    <2> QED
      BY <2>1, <2>2 DEF TypeOK, Kid
  <1>11. ASSUME NEW c \in Ids, Write(c) PROVE TypeOK'
    <2>1. /\ written' = [written EXCEPT ![c] = @ + 1] /\ DOMAIN pipe' = Ids
          /\ UNCHANGED << threadVars, fds, output, child, alive >>
      BY <1>11 DEF Write, TypeOK
    <2>2. written' \in [Ids -> Nat]
      BY <2>1 DEF TypeOK
    <2>3. ASSUME NEW d \in Ids PROVE pipe'[d] \in Seq(Ids \X Nat) /\ Len(pipe'[d]) <= Capacity
      <3>1. pipe[d] \in Seq(Ids \X Nat) /\ Len(pipe[d]) <= Capacity /\ Capacity \in Nat
        BY ProcessAssumption DEF TypeOK
      <3>2. CASE pipe' = pipe
        BY <3>1, <3>2
      <3>3. CASE pipe' # pipe
        <4>1. Len(pipe[c]) < Capacity /\ pipe' = [pipe EXCEPT ![c] = Append(@, << c, written'[c] >>)]
          BY <1>11, <3>3 DEF Write
        <4>2. << c, written'[c] >> \in Ids \X Nat
          BY <2>2
        <4>3. CASE d = c
          BY <3>1, <4>1, <4>2, <4>3 DEF TypeOK
        <4>4. CASE d # c
          BY <3>1, <4>1, <4>4 DEF TypeOK
        <4> QED
          BY <4>3, <4>4
      <3> QED
        BY <3>2, <3>3
    <2> QED
      BY <2>1, <2>2, <2>3 DEF TypeOK
  <1>12. ASSUME NEW c \in Ids, Exit(c) PROVE TypeOK'
    <2>1. /\ child' = [child EXCEPT ![c].state = "zombie"]
          /\ UNCHANGED << threadVars, pipeVars, written, alive >>
      BY <1>12 DEF Exit
    <2>2. child' \in [Ids -> Kid]
      BY <2>1, ChildGetsOn DEF ChildState
    <2> QED
      BY <2>1, <2>2 DEF TypeOK, Kid
  <1> QED
    BY <1>1, <1>2, <1>3, <1>4, <1>5, <1>6, <1>7, <1>8, <1>9, <1>10, <1>11, <1>12
       DEF Next, ThreadStep, ChildStep

\* A call keeps its place: before the current one all have returned, after it none has begun.
LEMMA CallsStep ==
    ASSUME TypeOK, CallsInv, EndsInv, Next
    PROVE  CallsInv'
  <1> DEFINE Place(c) ==
        /\ c[2] < call[c[1]] => Returned(c)
        /\ c[2] > call[c[1]] => child[c].state = "none"
        /\ c[2] = call[c[1]] =>
              /\ at[c[1]] \in {"start", "call", "fork"} => child[c].state = "none"
              /\ at[c[1]] \in {"close", "read", "wait"} => child[c].state \in {"forked", "running", "zombie"}
              /\ at[c[1]] \in {"leave", "done"}         => child[c].state \in {"none", "reaped"}
  <1> SUFFICES ASSUME NEW c \in Ids PROVE Place(c)'
    BY DEF CallsInv
  <1>1. Place(c)
    BY DEF CallsInv
  <1>2. /\ c[1] \in Threads /\ c[2] \in Nat /\ DOMAIN at = Threads /\ call[c[1]] \in Nat
        /\ DOMAIN call = Threads /\ DOMAIN child = Ids
    BY IdsAre, CurrentIs DEF TypeOK
  <1>3. ASSUME NEW t \in Threads, call' = call, child' = child,
               \/ at' = at
               \/ at[t] = "start" /\ at' = [at EXCEPT ![t] = "call"]
               \/ at[t] = "call" /\ at' = [at EXCEPT ![t] = "fork"]
               \/ at[t] \in {"call", "fork"} /\ at' = [at EXCEPT ![t] = "leave"]
               \/ at[t] = "close" /\ at' = [at EXCEPT ![t] = "read"]
               \/ at[t] = "read" /\ at' = [at EXCEPT ![t] = "wait"]
               \/ at[t] = "leave" /\ at' = [at EXCEPT ![t] = "done"]
        PROVE  Place(c)'
    BY <1>1, <1>2, <1>3 DEF Returned
  <1>4. ASSUME NEW t \in Threads,
               \/ Begin(t) \/ Leave(t) \/ CreatePipe(t) \/ ForkFails(t) \/ Close(t) \/ Read(t) \/ ReadEnd(t)
        PROVE  Place(c)'
    <2>1. call' = call /\ child' = child
      BY <1>4 DEF Begin, Leave, CreatePipe, ForkFails, Close, Read, ReadEnd
    <2>2. CASE Begin(t) \/ Leave(t)
      BY <1>3, <2>1, <2>2 DEF Begin, Leave, Goto
    <2>3. CASE CreatePipe(t)
      BY <1>3, <2>1, <2>3, ThrowIs DEF CreatePipe, Goto
    <2>4. CASE ForkFails(t)
      <3>1. at[t] \in {"call", "fork"} /\ Throw(t)
        BY <2>4 DEF ForkFails
      <3> QED
        BY <1>3, <2>1, <3>1, ThrowIs
    <2>5. CASE Close(t) \/ Read(t) \/ ReadEnd(t)
      BY <1>3, <2>1, <2>5 DEF Close, CloseWriteEnd, Read, ReadEnd, Goto
    <2> QED
      BY <1>4, <2>2, <2>3, <2>4, <2>5
  <1>5. CASE BeginTests
    BY <1>3, <1>5 DEF BeginTests, Goto, Threads
  <1>6. ASSUME NEW t \in Threads, Fork(t) PROVE Place(c)'
    <2>1. /\ call' = call /\ child' = [child EXCEPT ![Current(t)] =
                                         [state |-> "forked", dir |-> cwd, inherits |-> WriteEnds]]
          /\ at' = [at EXCEPT ![t] = "close"] \/ at' = [at EXCEPT ![t] = "wait"]
      BY <1>6 DEF Fork, Goto
    <2>2. CASE c = Current(t)
      BY <1>2, <2>1, <2>2, CurrentIs
    <2>3. CASE c # Current(t)
      <3>1. child'[c] = child[c]
        BY <1>2, <2>1, <2>3
      <3>2. c[1] = t => c[2] # call[t]
        BY <2>3, CurrentIs
      <3> QED
        BY <1>1, <1>2, <2>1, <3>1, <3>2 DEF Returned
    <2> QED
      BY <2>2, <2>3
  <1>7. ASSUME NEW t \in Threads, Wait(t) PROVE Place(c)'
    <2>1. /\ child[Current(t)].state = "zombie" /\ at[t] = "wait"
          /\ child' = [child EXCEPT ![Current(t)].state = "reaped"]
          /\ \/ at' = [at EXCEPT ![t] = "leave"] /\ call' = call
             \/ at' = [at EXCEPT ![t] = "call"] /\ call' = [call EXCEPT ![t] = @ + 1]
      BY <1>7 DEF Wait, Goto
    <2>2. child'[Current(t)].state = "reaped" /\ \A d \in Ids : d # Current(t) => child'[d] = child[d]
      BY <2>1, ChildGetsOn, CurrentIs DEF ChildState
    <2>3. CASE c = Current(t)
      BY <1>2, <2>1, <2>2, <2>3, CurrentIs DEF Returned
    <2>4. CASE c # Current(t)
      <3>1. c[1] = t => c[2] # call[t]
        BY <2>4, CurrentIs
      <3> QED
        BY <1>1, <1>2, <2>1, <2>2, <2>4, <3>1, CurrentIs DEF Returned
    <2> QED
      BY <2>3, <2>4
  <1>8. ASSUME NEW d \in Ids, Execute(d) \/ Exit(d) PROVE Place(c)'
    <2>1. /\ at' = at /\ call' = call
          /\ child[d].state \in {"forked", "running"} /\ child'[d].state \in {"running", "zombie"}
          /\ \A e \in Ids : e # d => child'[e] = child[e]
      BY <1>8, ChildExecutes, ChildGetsOn DEF Execute, Exit, ChildState
    <2>2. d = c => c[2] = call[c[1]] /\ at[c[1]] \in {"close", "read", "wait"}
      BY <1>1, <1>2, <2>1 DEF Returned, TypeOK, At
    <2> QED
      BY <1>1, <2>1, <2>2 DEF Returned
  <1>9. ASSUME NEW d \in Ids, Write(d) PROVE Place(c)'
    BY <1>1, <1>9 DEF Write, Returned
  <1> QED
    BY <1>4, <1>5, <1>6, <1>7, <1>8, <1>9 DEF Next, ThreadStep, ChildStep

\* A child inherits the write end of its own pipe.
LEMMA EndsStep ==
    ASSUME TypeOK, CallsInv, EndsInv, Next
    PROVE  EndsInv'
  <1>0. /\ DOMAIN at = Threads /\ DOMAIN child = Ids /\ DOMAIN call = Threads
        /\ \A t \in Threads : Current(t) \in Ids /\ Current(t)[1] = t
    BY CurrentIs DEF TypeOK
  <1>1. ASSUME NEW t \in Threads, Begin(t) \/ Leave(t) \/ ForkFails(t) \/ Read(t) \/ ReadEnd(t) PROVE EndsInv'
    <2>1. /\ UNCHANGED << call, fds, child >>
          /\ \A s \in Threads : at'[s] = at[s] \/ at'[s] \in {"call", "done", "leave", "wait"}
      BY <1>0, <1>1, ThrowIs DEF Begin, Leave, ForkFails, Read, ReadEnd, Goto
    <2> QED
      BY <2>1 DEF EndsInv, Current
  <1>2. CASE BeginTests
    <2>1. /\ UNCHANGED << call, fds, child >>
          /\ \A s \in Threads : at'[s] = at[s] \/ at'[s] = "call"
      BY <1>0, <1>2 DEF BeginTests, Goto
    <2> QED
      BY <2>1 DEF EndsInv, Current
  <1>3. ASSUME NEW t \in Threads, CreatePipe(t) PROVE EndsInv'
    <2>1. /\ UNCHANGED << call, child >> /\ CallOf(Current(t)).output
          /\ \/ /\ << Current(t), "write" >> \in fds' /\ fds \subseteq fds'
                /\ at' = [at EXCEPT ![t] = "fork"]
             \/ fds' = fds /\ (at' = at \/ at' = [at EXCEPT ![t] = "leave"])
      BY <1>3, ThrowIs DEF CreatePipe, Goto
    <2> QED
      BY <1>0, <2>1 DEF EndsInv, Current
  <1>4. ASSUME NEW t \in Threads, Fork(t) PROVE EndsInv'
    <2>1. /\ UNCHANGED << call, fds >>
          /\ child' = [child EXCEPT ![Current(t)] =
                          [state |-> "forked", dir |-> cwd, inherits |-> WriteEnds]]
          /\ \/ CallOf(Current(t)).output /\ at[t] = "fork" /\ at' = [at EXCEPT ![t] = "close"]
             \/ ~CallOf(Current(t)).output /\ at' = [at EXCEPT ![t] = "wait"]
      BY <1>4 DEF Fork, Goto
    <2>2. CallOf(Current(t)).output => Current(t) \in WriteEnds
      BY <1>0, <2>1 DEF EndsInv, WriteEnds
    <2> QED
      BY <1>0, <2>1, <2>2 DEF EndsInv, Current
  <1>5. ASSUME NEW t \in Threads, Close(t) PROVE EndsInv'
    <2>1. /\ UNCHANGED << call, child >> /\ at[t] = "close" /\ at' = [at EXCEPT ![t] = "read"]
          /\ fds' = fds \ {<< Current(t), "write" >>}
      BY <1>5 DEF Close, CloseWriteEnd, Goto
    <2>2. \A s \in Threads \ {t} : Current(s) # Current(t)
      BY <1>0
    <2> QED
      BY <1>0, <2>1, <2>2 DEF EndsInv, Current
  <1>6. ASSUME NEW t \in Threads, Wait(t) PROVE EndsInv'
    <2>1. /\ fds' = fds /\ child' = [child EXCEPT ![Current(t)].state = "reaped"]
          /\ child[Current(t)].state = "zombie"
          /\ at' = [at EXCEPT ![t] = "leave"] \/ at' = [at EXCEPT ![t] = "call"]
          /\ \A s \in Threads : s # t => call'[s] = call[s]
      BY <1>0, <1>6 DEF Wait, Goto
    <2>2. /\ \A d \in Ids : child'[d].inherits = child[d].inherits
          /\ \A d \in Ids : child'[d].state # "none" => child[d].state # "none"
      BY <1>0, <2>1, ChildGetsOn DEF ChildState
    <2>3. \A s \in Threads : at'[s] \in {"fork", "close", "read"} => at'[s] = at[s] /\ (Current(s))' = Current(s)
      BY <1>0, <2>1 DEF Current
    <2> QED
      BY <2>1, <2>2, <2>3 DEF EndsInv
  <1>7. ASSUME NEW d \in Ids, ChildStep(d) PROVE EndsInv'
    <2>1. /\ UNCHANGED << at, call, fds >>
          /\ \A e \in Ids : child'[e].inherits = child[e].inherits
          /\ \A e \in Ids : child'[e].state # "none" => child[e].state # "none"
      BY <1>7, ChildExecutes, ChildGetsOn DEF ChildStep, Execute, Write, Exit, ChildState
    <2> QED
      BY <2>1 DEF EndsInv, Current
  <1> QED
    BY <1>1, <1>2, <1>3, <1>4, <1>5, <1>6, <1>7 DEF Next, ThreadStep

\* Who waits has read everything, and its child writes no more.
LEMMA ReadStep ==
    ASSUME TypeOK, CallsInv, EndsInv, ReadInv, Next
    PROVE  ReadInv'
  <1> DEFINE Past(c) == Returned(c) \/ (c = Current(c[1]) /\ at[c[1]] = "wait")
  <1> SUFFICES ASSUME NEW c \in Ids, CallOf(c).output, Past(c)'
               PROVE  pipe'[c] = << >> /\ child'[c].state \in {"zombie", "reaped"}
    BY DEF ReadInv
  <1>1. Past(c) => pipe[c] = << >> /\ child[c].state \in {"zombie", "reaped"}
    BY DEF ReadInv
  <1>2. /\ c[1] \in Threads /\ DOMAIN at = Threads /\ DOMAIN call = Threads
        /\ DOMAIN child = Ids /\ DOMAIN pipe = Ids
    BY IdsAre DEF TypeOK
  <1>3. CASE UNCHANGED << call, child, pipe >> /\ (at'[c[1]] = "wait" => at[c[1]] = "wait")
    BY <1>1, <1>3 DEF Current, Returned
  <1>4. ASSUME NEW t \in Threads, Begin(t) \/ Leave(t) \/ CreatePipe(t) \/ ForkFails(t) \/ Close(t)
        PROVE  UNCHANGED << call, child, pipe >> /\ (at'[c[1]] = "wait" => at[c[1]] = "wait")
    BY <1>2, <1>4, ThrowIs DEF Begin, Leave, CreatePipe, ForkFails, Close, CloseWriteEnd, Goto
  <1>5. BeginTests => UNCHANGED << call, child, pipe >> /\ (at'[c[1]] = "wait" => at[c[1]] = "wait")
    BY <1>2 DEF BeginTests, Goto
  <1>6. ASSUME NEW t \in Threads, Fork(t)
        PROVE  pipe'[c] = << >> /\ child'[c].state \in {"zombie", "reaped"}
    <2>1. /\ UNCHANGED << call, pipe >>
          /\ child' = [child EXCEPT ![Current(t)] =
                          [state |-> "forked", dir |-> cwd, inherits |-> WriteEnds]]
          /\ CallOf(Current(t)).output => at' = [at EXCEPT ![t] = "close"]
          /\ at' = [at EXCEPT ![t] = "close"] \/ at' = [at EXCEPT ![t] = "wait"]
      BY <1>6 DEF Fork, Goto
    <2>2. c # Current(t)
      BY <1>2, <2>1, CurrentIs DEF Returned
    <2>3. child'[c] = child[c]
      BY <1>2, <2>1, <2>2
    <2>4. Past(c)
      BY <1>2, <2>1, <2>2, <2>3 DEF Current, Returned
    <2> QED
      BY <1>1, <2>1, <2>3, <2>4
  <1>7. ASSUME NEW t \in Threads, Read(t)
        PROVE  pipe'[c] = << >> /\ child'[c].state \in {"zombie", "reaped"}
    <2>1. /\ pipe' = [pipe EXCEPT ![Current(t)] = Tail(@)] /\ at[t] = "read"
          /\ UNCHANGED << at, call, child >>
      BY <1>7 DEF Read
    <2>2. ~Returned(Current(t)) /\ Current(t)[1] = t /\ Current(t) \in Ids
      BY <2>1, CurrentIs DEF CallsInv, Returned
    <2>3. Past(c) /\ c # Current(t)
      BY <2>1, <2>2 DEF Current, Returned
    <2> QED
      BY <1>1, <1>2, <2>1, <2>3
  <1>8. ASSUME NEW t \in Threads, ReadEnd(t)
        PROVE  pipe'[c] = << >> /\ child'[c].state \in {"zombie", "reaped"}
    <2>1. /\ at[t] = "read" /\ AtEnd(Current(t)) /\ at' = [at EXCEPT ![t] = "wait"]
          /\ UNCHANGED << call, child, pipe >>
      BY <1>8 DEF ReadEnd, Goto
    <2>2. CASE c = Current(t)
      <3>1. pipe[c] = << >> /\ ~(child[c].state \in {"forked", "running"} /\ c \in child[c].inherits)
        BY <2>1, <2>2 DEF AtEnd, HoldsWriteEnd
      <3>2. child[c].state \in {"forked", "running", "zombie"}
        BY <2>1, <2>2, CurrentIs DEF CallsInv
      <3>3. c \in child[c].inherits
        BY <3>2 DEF EndsInv
      <3> QED
        BY <2>1, <3>1, <3>2, <3>3
    <2>3. CASE c # Current(t)
      <3>1. Past(c)
        BY <1>2, <2>1, <2>3, CurrentIs DEF Current, Returned
      <3> QED
        BY <1>1, <2>1, <3>1
    <2> QED
      BY <2>2, <2>3
  <1>9. ASSUME NEW t \in Threads, Wait(t)
        PROVE  pipe'[c] = << >> /\ child'[c].state \in {"zombie", "reaped"}
    <2>1. /\ pipe' = pipe /\ child' = [child EXCEPT ![Current(t)].state = "reaped"] /\ at[t] = "wait"
          /\ \/ at' = [at EXCEPT ![t] = "leave"] /\ call' = call
             \/ at' = [at EXCEPT ![t] = "call"] /\ call' = [call EXCEPT ![t] = @ + 1]
      BY <1>9 DEF Wait, Goto
    <2>2. /\ child'[Current(t)].state = "reaped" /\ Current(t)[1] = t
          /\ \A d \in Ids : d # Current(t) => child'[d] = child[d]
      BY <2>1, ChildGetsOn, CurrentIs DEF ChildState
    <2>3. Past(c)
      BY <1>2, <2>1, <2>2 DEF Current, Returned
    <2> QED
      BY <1>1, <2>1, <2>2, <2>3
  <1>10. ASSUME NEW d \in Ids, ChildStep(d)
         PROVE  pipe'[c] = << >> /\ child'[c].state \in {"zombie", "reaped"}
    <2>1. /\ UNCHANGED << at, call >>
          /\ child[d].state \in {"forked", "running"} /\ child'[d].state # "reaped"
          /\ \A e \in Ids : e # d => child'[e] = child[e] /\ pipe'[e] = pipe[e]
      BY <1>2, <1>10, ChildExecutes, ChildGetsOn DEF ChildStep, Execute, Write, Exit, ChildState
    <2>2. Past(c) /\ c # d
      BY <1>1, <2>1 DEF Current, Returned
    <2> QED
      BY <1>1, <2>1, <2>2
  <1> QED
    BY <1>3, <1>4, <1>5, <1>6, <1>7, <1>8, <1>9, <1>10 DEF Next, ThreadStep

\* Pieces are a sequence, to which one more piece is appended behind and from which the first
\* is taken in front.
LEMMA PiecesAre ==
    ASSUME NEW c, NEW n \in Nat, NEW k \in Nat
    PROVE  /\ Pieces(c, n, k) \in Seq({c} \X Nat) /\ Len(Pieces(c, n, k)) = k
           /\ Append(Pieces(c, n, k), << c, n + k + 1 >>) = Pieces(c, n, k + 1)
           /\ k > 0 => /\ Head(Pieces(c, n, k)) = << c, n + 1 >>
                       /\ Tail(Pieces(c, n, k)) = Pieces(c, n + 1, k - 1)
  <1>1. Pieces(c, n, k) \in Seq({c} \X Nat) /\ Len(Pieces(c, n, k)) = k
    BY DEF Pieces
  <1>2. Append(Pieces(c, n, k), << c, n + k + 1 >>) = Pieces(c, n, k + 1)
    BY DEF Pieces
  <1>3. ASSUME k > 0 PROVE Head(Pieces(c, n, k)) = << c, n + 1 >>
    BY <1>3 DEF Pieces
  <1>4. ASSUME k > 0 PROVE Tail(Pieces(c, n, k)) = Pieces(c, n + 1, k - 1)
    BY <1>4 DEF Pieces
  <1> QED
    BY <1>1, <1>2, <1>3, <1>4

\* Nothing that is written is lost, doubled or overtaken.
LEMMA PipeStep ==
    ASSUME TypeOK, CallsInv, PipeInv, Next
    PROVE  PipeInv'
  <1> DEFINE Flow(c) ==
        /\ output[c] = Pieces(c, 0, Len(output[c])) /\ Len(output[c]) \in Nat
        /\ pipe[c] = Pieces(c, Len(output[c]), Len(pipe[c]))
        /\ Len(output[c]) + Len(pipe[c]) = IF CallOf(c).output THEN written[c] ELSE 0
        /\ written[c] <= CallOf(c).writes
      Kept(c) ==
        /\ child[c].state \in {"none", "forked"} => written[c] = 0
        /\ child[c].state \in {"zombie", "reaped"} => written[c] = CallOf(c).writes
  <1> SUFFICES ASSUME NEW c \in Ids PROVE Flow(c)' /\ Kept(c)'
    BY DEF PipeInv
  <1>1. /\ Flow(c) /\ Kept(c) /\ Len(pipe[c]) \in Nat /\ Len(output[c]) \in Nat /\ written[c] \in Nat
        /\ DOMAIN child = Ids /\ DOMAIN pipe = Ids /\ DOMAIN output = Ids /\ DOMAIN written = Ids
    BY DEF PipeInv, TypeOK
  <1>2. ASSUME UNCHANGED << pipe, output, written >> PROVE Flow(c)'
    BY <1>1, <1>2
  <1>3. ASSUME written' = written,
               \/ child'[c].state = child[c].state
               \/ child[c].state = "forked" /\ child'[c].state = "running"
               \/ child[c].state = "zombie" /\ child'[c].state = "reaped"
               \/ child[c].state = "none" /\ child'[c].state = "forked"
               \/ child'[c].state = "zombie" /\ written[c] = CallOf(c).writes
        PROVE  Kept(c)'
    BY <1>1, <1>3
  <1> HIDE DEF Flow, Kept
  <1>4. ASSUME NEW t \in Threads,
               Begin(t) \/ Leave(t) \/ CreatePipe(t) \/ ForkFails(t) \/ Close(t) \/ ReadEnd(t)
        PROVE  Flow(c)' /\ Kept(c)'
    BY <1>2, <1>3, <1>4 DEF Begin, Leave, CreatePipe, ForkFails, Close, ReadEnd
  <1>5. ASSUME NEW t \in Threads, Fork(t) PROVE Flow(c)' /\ Kept(c)'
    <2>1. /\ UNCHANGED << pipe, output, written >> /\ at[t] \in {"call", "fork"}
          /\ child' = [child EXCEPT ![Current(t)] =
                          [state |-> "forked", dir |-> cwd, inherits |-> WriteEnds]]
      BY <1>5 DEF Fork
    <2>2. child[Current(t)].state = "none"
      BY <2>1, CurrentIs DEF CallsInv
    <2> QED
      BY <1>1, <1>2, <1>3, <2>1, <2>2, CurrentIs
  <1>6. ASSUME NEW t \in Threads, Wait(t) PROVE Flow(c)' /\ Kept(c)'
    <2>1. /\ UNCHANGED << pipe, output, written >> /\ child[Current(t)].state = "zombie"
          /\ child' = [child EXCEPT ![Current(t)].state = "reaped"]
      BY <1>6 DEF Wait
    <2>2. child'[Current(t)].state = "reaped" /\ \A d \in Ids : d # Current(t) => child'[d] = child[d]
      BY <2>1, ChildGetsOn, CurrentIs DEF ChildState
    <2> QED
      BY <1>2, <1>3, <2>1, <2>2
  <1>7. ASSUME NEW t \in Threads, Read(t) PROVE Flow(c)' /\ Kept(c)'
    <2>1. /\ pipe[Current(t)] # << >>
          /\ output' = [output EXCEPT ![Current(t)] = Append(@, Head(pipe[Current(t)]))]
          /\ pipe' = [pipe EXCEPT ![Current(t)] = Tail(@)]
          /\ UNCHANGED << child, written >>
      BY <1>7 DEF Read
    <2>2. CASE c # Current(t)
      <3>1. pipe'[c] = pipe[c] /\ output'[c] = output[c]
        BY <1>1, <2>1, <2>2
      <3> QED
        BY <1>1, <1>3, <2>1, <3>1 DEF Flow
    <2>3. CASE c = Current(t)
      <3> DEFINE m == Len(output[c])
                 k == Len(pipe[c])
      <3>1. /\ m \in Nat /\ k \in Nat /\ output[c] = Pieces(c, 0, m) /\ pipe[c] = Pieces(c, m, k)
            /\ m + k = IF CallOf(c).output THEN written[c] ELSE 0
        BY <1>1 DEF Flow
      <3>2. k > 0
        <4>1. k = 0 => pipe[c] = << >>
          BY <3>1 DEF Pieces
        <4> QED
          BY <2>1, <2>3, <3>1, <4>1
      <3>3. output'[c] = Append(output[c], Head(pipe[c])) /\ pipe'[c] = Tail(pipe[c])
        BY <1>1, <2>1, <2>3
      <3> HIDE DEF m, k
      <3>4. Head(pipe[c]) = << c, m + 1 >> /\ Tail(pipe[c]) = Pieces(c, m + 1, k - 1)
        BY <3>1, <3>2, PiecesAre
      <3>5. Append(output[c], << c, m + 1 >>) = Pieces(c, 0, m + 1)
        <4>1. Append(Pieces(c, 0, m), << c, 0 + m + 1 >>) = Pieces(c, 0, m + 1)
          <5>1. 0 \in Nat
            OBVIOUS
          <5> QED
            BY <3>1, <5>1, PiecesAre, Zenon
        <4>2. 0 + m + 1 = m + 1
          BY <3>1
        <4> QED
          BY <3>1, <4>1, <4>2
      <3>6. output'[c] = Pieces(c, 0, m + 1) /\ pipe'[c] = Pieces(c, m + 1, k - 1)
        BY <3>3, <3>4, <3>5
      <3>7. Len(output'[c]) = m + 1 /\ Len(pipe'[c]) = k - 1
        <4>1. 0 \in Nat /\ m + 1 \in Nat /\ k - 1 \in Nat
          BY <3>1, <3>2
        <4>2. Len(Pieces(c, 0, m + 1)) = m + 1 /\ Len(Pieces(c, m + 1, k - 1)) = k - 1
          BY <4>1, PiecesAre, Zenon
        <4> QED
          BY <3>6, <4>2
      <3>8. (m + 1) + (k - 1) = m + k
        BY <3>1
      <3>9. Kept(c)' /\ written'[c] = written[c]
        BY <1>1, <1>3, <2>1
      <3>10. written[c] <= CallOf(c).writes /\ m + 1 \in Nat
        BY <1>1, <3>1 DEF Flow
      <3> QED
        BY <3>1, <3>6, <3>7, <3>8, <3>9, <3>10 DEF Flow
    <2> QED
      BY <2>2, <2>3
  <1>8. ASSUME NEW d \in Ids, Execute(d) \/ Exit(d) PROVE Flow(c)' /\ Kept(c)'
    <2>1. /\ UNCHANGED << pipe, output, written >>
          /\ \A e \in Ids : e # d => child'[e] = child[e]
          /\ \/ child[d].state = "forked" /\ child'[d].state = "running"
             \/ child'[d].state = "zombie" /\ written[d] = CallOf(d).writes
      BY <1>8, ChildExecutes, ChildGetsOn DEF Execute, Exit, ChildState
    <2> QED
      BY <1>2, <1>3, <2>1
  <1>9. ASSUME NEW d \in Ids, Write(d) PROVE Flow(c)' /\ Kept(c)'
    <2>1. /\ UNCHANGED << output, child >> /\ child[d].state = "running" /\ written[d] < CallOf(d).writes
          /\ written' = [written EXCEPT ![d] = @ + 1]
          /\ IF CallOf(d).output THEN pipe' = [pipe EXCEPT ![d] = Append(@, << d, written'[d] >>)]
                                ELSE pipe' = pipe
      BY <1>9 DEF Write
    <2>2. CASE c # d
      <3>1. pipe'[c] = pipe[c] /\ written'[c] = written[c]
        BY <1>1, <2>1, <2>2
      <3> QED
        BY <1>1, <2>1, <3>1 DEF Flow, Kept
    <2>3. CASE c = d
      <3> DEFINE m == Len(output[c])
                 k == Len(pipe[c])
      <3>1. /\ m \in Nat /\ k \in Nat /\ output[c] = Pieces(c, 0, m) /\ pipe[c] = Pieces(c, m, k)
            /\ m + k = IF CallOf(c).output THEN written[c] ELSE 0
        BY <1>1 DEF Flow
      <3>2. written'[c] = written[c] + 1 /\ CallOf(c).writes \in Nat /\ written[c] + 1 <= CallOf(c).writes
        BY <1>1, <2>1, <2>3, ProcessAssumption
      <3>3. Kept(c)'
        BY <2>1, <2>3 DEF Kept
      <3> HIDE DEF m, k
      <3>4. CASE CallOf(c).output
        <4>1. pipe'[c] = Append(pipe[c], << c, m + k + 1 >>)
          BY <1>1, <2>1, <2>3, <3>1, <3>2, <3>4
        <4>2. pipe'[c] = Pieces(c, m, k + 1) /\ Len(pipe'[c]) = k + 1
          <5>1. Append(Pieces(c, m, k), << c, m + k + 1 >>) = Pieces(c, m, k + 1)
            BY <3>1, PiecesAre, Zenon
          <5>2. k + 1 \in Nat
            BY <3>1
          <5>3. Len(Pieces(c, m, k + 1)) = k + 1
            BY <3>1, <5>2, PiecesAre, Zenon
          <5> QED
            BY <3>1, <4>1, <5>1, <5>3
        <4>3. m + (k + 1) = written'[c]
          BY <1>1, <3>1, <3>2, <3>4
        <4> QED
          BY <2>1, <3>1, <3>2, <3>3, <3>4, <4>2, <4>3 DEF Flow, m
      <3>5. CASE ~CallOf(c).output
        BY <2>1, <2>3, <3>1, <3>2, <3>3, <3>5 DEF Flow, m, k
      <3> QED
        BY <3>4, <3>5
    <2> QED
      BY <2>2, <2>3
  <1>10. CASE BeginTests
    BY <1>2, <1>3, <1>10 DEF BeginTests
  <1> QED
    BY <1>4, <1>5, <1>6, <1>7, <1>8, <1>9, <1>10 DEF Next, ThreadStep, ChildStep

\* The working directory is that of the Lua function that runs, or the build directory.
LEMMA DirStep ==
    ASSUME TypeOK, CallsInv, DirInv, Next
    PROVE  DirInv'
  <1> DEFINE Lock ==
        /\ luaLock = "free" => cwd = BuildDir
        /\ luaLock # "free" => cwd = WorkDir[luaLock] /\ oldDir[luaLock] = BuildDir
        /\ \A t \in LuaJobs : luaLock = t <=> at[t] \notin {"start", "done"}
      Place(c) ==
        /\ CallOf(c).dir = NoDir /\ child[c].state # "none" => child[c].dir = WorkDir[c[1]]
        /\ CallOf(c).dir # NoDir /\ child[c].state = "running" => child[c].dir = CallOf(c).dir
  <1>1. Lock /\ \A c \in Ids : Place(c)
    BY DEF DirInv
  <1>2. /\ DOMAIN at = Threads /\ DOMAIN child = Ids /\ DOMAIN oldDir = LuaJobs
        /\ luaLock \in LuaJobs \cup {"free"} /\ "free" \notin LuaJobs
        /\ LuaJobs \subseteq Threads /\ Main \notin LuaJobs
    BY ProcessAssumption DEF TypeOK, Threads
  <1> SUFFICES Lock' /\ \A c \in Ids : Place(c)'
    BY DEF DirInv
  <1>3. ASSUME UNCHANGED << luaLock, cwd, oldDir >>,
               \A t \in LuaJobs : at'[t] \in {"start", "done"} <=> at[t] \in {"start", "done"}
        PROVE  Lock'
    BY <1>1, <1>3
  <1>4. ASSUME NEW t \in Threads, Begin(t) \/ Leave(t) PROVE Lock' /\ \A c \in Ids : Place(c)'
    <2>1. child' = child
      BY <1>4 DEF Begin, Leave
    <2>2. CASE t \notin LuaJobs
      <3>1. UNCHANGED << luaLock, cwd, oldDir >> /\ \A s \in LuaJobs : at'[s] = at[s]
        BY <1>2, <1>4, <2>2 DEF Begin, Leave, Goto
      <3> QED
        BY <1>1, <1>3, <2>1, <3>1
    <2>3. CASE t \in LuaJobs /\ Begin(t)
      <3>1. /\ luaLock = "free" /\ luaLock' = t /\ at' = [at EXCEPT ![t] = "call"]
            /\ oldDir' = [oldDir EXCEPT ![t] = cwd] /\ cwd' = WorkDir[t]
        BY <2>3 DEF Begin, Goto
      <3> QED
        BY <1>1, <1>2, <2>1, <2>3, <3>1
    <2>4. CASE t \in LuaJobs /\ Leave(t)
      <3>1. /\ luaLock' = "free" /\ at[t] = "leave" /\ at' = [at EXCEPT ![t] = "done"]
            /\ oldDir' = oldDir /\ cwd' = oldDir[t]
        BY <2>4 DEF Leave, Goto
      <3> QED
        BY <1>1, <1>2, <2>1, <2>4, <3>1
    <2> QED
      BY <1>4, <2>2, <2>3, <2>4
  <1>5. CASE BeginTests
    <2>1. UNCHANGED << luaLock, cwd, oldDir, child >> /\ \A s \in LuaJobs : at'[s] = at[s]
      BY <1>2, <1>5 DEF BeginTests, Goto
    <2> QED
      BY <1>1, <1>3, <2>1
  <1>6. ASSUME NEW t \in Threads, CreatePipe(t) \/ ForkFails(t) \/ Close(t) \/ Read(t) \/ ReadEnd(t)
        PROVE  Lock' /\ \A c \in Ids : Place(c)'
    <2>1. /\ UNCHANGED << luaLock, cwd, oldDir, child >>
          /\ \A s \in LuaJobs : at'[s] = at[s] \/ (at[s] \in {"call", "fork", "close", "read"}
                                                /\ at'[s] \in {"fork", "leave", "read", "wait"})
      BY <1>2, <1>6, ThrowIs DEF CreatePipe, ForkFails, Close, CloseWriteEnd, Read, ReadEnd, Goto
    <2> QED
      BY <1>1, <1>3, <2>1
  <1>7. ASSUME NEW t \in Threads, Fork(t) PROVE Lock' /\ \A c \in Ids : Place(c)'
    <2>1. /\ UNCHANGED << luaLock, cwd, oldDir >> /\ at[t] \in {"call", "fork"}
          /\ at' = [at EXCEPT ![t] = "close"] \/ at' = [at EXCEPT ![t] = "wait"]
          /\ child' = [child EXCEPT ![Current(t)] =
                          [state |-> "forked", dir |-> cwd, inherits |-> WriteEnds]]
      BY <1>7 DEF Fork, Goto
    <2>2. Lock'
      BY <1>2, <1>3, <2>1
    <2>3. CallOf(Current(t)).dir = NoDir => cwd = WorkDir[t]
      <3>1. CallOf(Current(t)).dir = NoDir => t \in LuaJobs
        BY CurrentIs, ProcessAssumption
      <3> QED
        BY <1>1, <1>2, <2>1, <3>1
    <2>4. \A c \in Ids : Place(c)'
      BY <1>1, <1>2, <2>1, <2>3, CurrentIs
    <2> QED
      BY <2>2, <2>4
  <1>8. ASSUME NEW t \in Threads, Wait(t) PROVE Lock' /\ \A c \in Ids : Place(c)'
    <2>1. /\ UNCHANGED << luaLock, cwd, oldDir >> /\ at[t] = "wait"
          /\ at' = [at EXCEPT ![t] = "leave"] \/ at' = [at EXCEPT ![t] = "call"]
          /\ child[Current(t)].state = "zombie"
          /\ child' = [child EXCEPT ![Current(t)].state = "reaped"]
      BY <1>8 DEF Wait, Goto
    <2>2. Lock'
      BY <1>2, <1>3, <2>1
    <2>3. /\ child'[Current(t)].state = "reaped" /\ child'[Current(t)].dir = child[Current(t)].dir
          /\ \A d \in Ids : d # Current(t) => child'[d] = child[d]
      BY <2>1, ChildGetsOn, CurrentIs DEF ChildState
    <2>4. \A c \in Ids : Place(c)'
      BY <1>1, <2>1, <2>3
    <2> QED
      BY <2>2, <2>4
  <1>9. ASSUME NEW d \in Ids, Execute(d) PROVE Lock' /\ \A c \in Ids : Place(c)'
    <2>1. UNCHANGED << luaLock, cwd, oldDir, at >>
      BY <1>9 DEF Execute
    <2>2. \A c \in Ids : Place(c)'
      BY <1>1, <1>9, ChildExecutes
    <2> QED
      BY <1>3, <2>1, <2>2
  <1>10. ASSUME NEW d \in Ids, Write(d) \/ Exit(d) PROVE Lock' /\ \A c \in Ids : Place(c)'
    <2>1. /\ UNCHANGED << luaLock, cwd, oldDir, at >> /\ child[d].state = "running"
          /\ child'[d].state \in {"running", "zombie"} /\ child'[d].dir = child[d].dir
          /\ \A e \in Ids : e # d => child'[e] = child[e]
      BY <1>10, ChildGetsOn DEF Write, Exit, ChildState
    <2>2. \A c \in Ids : Place(c)'
      BY <1>1, <2>1
    <2> QED
      BY <1>3, <2>1, <2>2
  <1> QED
    BY <1>4, <1>5, <1>6, <1>7, <1>8, <1>9, <1>10 DEF Next, ThreadStep, ChildStep

\* ProcessInv holds for every number of threads and calls, whatever forks or pipes fail.
THEOREM ProcessInvariant == Spec => []ProcessInv
  <1>1. Init => ProcessInv
    <2> SUFFICES ASSUME Init PROVE ProcessInv
      OBVIOUS
    <2>1. TypeOK
      <3>1. \A t \in Threads : 1 \in DOMAIN Calls[t]
        BY ProcessAssumption
      <3>2. IsFiniteSet(fds) /\ Cardinality(fds) <= MaxFds
        BY FS_EmptySet, ProcessAssumption DEF Init
      <3>3. child \in [Ids -> Kid]
        BY DEF Init, Kid, ChildState, Dir
      <3>4. /\ at \in [Threads -> At] /\ DOMAIN call = Threads /\ \A t \in Threads : call[t] = 1
            /\ luaLock = "free" /\ cwd \in Dir /\ oldDir \in [LuaJobs -> Dir] /\ fds = {}
            /\ written \in [Ids -> Nat] /\ DOMAIN pipe = Ids /\ DOMAIN output = Ids
            /\ \A c \in Ids : pipe[c] = << >>
            /\ alive \in BOOLEAN
        BY DEF Init, At, Dir
      <3>5. Capacity \in Nat
        BY ProcessAssumption
      <3>6. \A c \in Ids : pipe[c] \in Seq(Ids \X Nat) /\ Len(pipe[c]) <= Capacity
        <4>1. << >> \in Seq(Ids \X Nat) /\ Len(<< >>) = 0
          OBVIOUS
        <4>2. 0 <= Capacity
          BY <3>5
        <4> QED
          BY <3>4, <4>1, <4>2
      <3> QED
        BY <3>1, <3>2, <3>3, <3>4, <3>6 DEF TypeOK, Kid
    <2>2. CallsInv /\ EndsInv
      <3>1. \A c \in Ids : c[1] \in Threads /\ c[2] \in DOMAIN Calls[c[1]] /\ c[2] \in Nat
        BY IdsAre
      <3>2. \A c \in Ids : c[2] >= 1
        BY <3>1, ProcessAssumption
      <3> QED
        BY <3>1, <3>2 DEF Init, CallsInv, EndsInv
    <2>3. PipeInv /\ ReadInv
      <3>1. \A c \in Ids : Pieces(c, 0, 0) = << >>
        BY DEF Pieces
      <3>2. \A c \in Ids : CallOf(c).writes \in Nat
        BY ProcessAssumption
      <3>3. \A c \in Ids : /\ output[c] = << >> /\ pipe[c] = << >> /\ written[c] = 0
                            /\ child[c].state = "none" /\ at[c[1]] = "start"
        BY IdsAre DEF Init
      <3>4. PipeInv
        <4>1. Len(<< >>) = 0
          OBVIOUS
        <4>2. \A c \in Ids : 0 <= CallOf(c).writes
          BY <3>2
        <4> SUFFICES ASSUME NEW c \in Ids
                     PROVE  /\ output[c] = Pieces(c, 0, Len(output[c])) /\ Len(output[c]) \in Nat
                            /\ pipe[c] = Pieces(c, Len(output[c]), Len(pipe[c]))
                            /\ Len(output[c]) + Len(pipe[c]) = IF CallOf(c).output THEN written[c] ELSE 0
                            /\ written[c] <= CallOf(c).writes
                            /\ child[c].state \in {"none", "forked"} => written[c] = 0
                            /\ child[c].state \in {"zombie", "reaped"} => written[c] = CallOf(c).writes
          BY DEF PipeInv
        <4>3. Len(output[c]) = 0 /\ Len(pipe[c]) = 0
          BY <3>3, <4>1
        <4>4. output[c] = Pieces(c, 0, 0) /\ pipe[c] = Pieces(c, 0, 0)
          BY <3>1, <3>3
        <4> QED
          BY <3>3, <4>2, <4>3, <4>4
      <3>5. ReadInv
        BY <3>3 DEF ReadInv, Returned
      <3> QED
        BY <3>4, <3>5
    <2>4. DirInv
      BY ProcessAssumption DEF Init, DirInv, Threads
    <2> QED
      BY <2>1, <2>2, <2>3, <2>4 DEF ProcessInv
  <1>2. ProcessInv /\ [Next]_vars => ProcessInv'
    <2> SUFFICES ASSUME ProcessInv, [Next]_vars PROVE ProcessInv'
      OBVIOUS
    <2>1. CASE Next
      BY <2>1, TypeStep, CallsStep, EndsStep, PipeStep, ReadStep, DirStep DEF ProcessInv
    <2>2. CASE UNCHANGED vars
      <3>1. TypeOK'
        BY <2>2 DEF vars, ProcessInv, TypeOK
      <3>2. CallsInv'
        BY <2>2 DEF vars, ProcessInv, CallsInv, Returned
      <3>3. EndsInv'
        BY <2>2 DEF vars, ProcessInv, EndsInv, Current
      <3>4. PipeInv'
        BY <2>2 DEF vars, ProcessInv, PipeInv
      <3>5. ReadInv'
        BY <2>2 DEF vars, ProcessInv, ReadInv, Returned, Current
      <3>6. DirInv'
        BY <2>2 DEF vars, ProcessInv, DirInv
      <3> QED
        BY <3>1, <3>2, <3>3, <3>4, <3>5, <3>6 DEF ProcessInv
    <2> QED
      BY <2>1, <2>2
  <1> QED
    BY <1>1, <1>2, PTL DEF Spec

\* A call of OS::exec that returns has in *output all that its command has written, in order,
\* and nothing of another command.
THEOREM OutputComplete == Spec => []OutputIsComplete
  <1>1. ProcessInv => OutputIsComplete
    <2> SUFFICES ASSUME ProcessInv, NEW c \in Ids, Returned(c)
                 PROVE  output[c] = IF CallOf(c).output
                                    THEN [i \in 1 .. CallOf(c).writes |-> << c, i >>] ELSE << >>
      BY DEF OutputIsComplete
    <2>1. /\ output[c] = Pieces(c, 0, Len(output[c])) /\ Len(output[c]) \in Nat /\ Len(pipe[c]) \in Nat
          /\ Len(output[c]) + Len(pipe[c]) = IF CallOf(c).output THEN written[c] ELSE 0
          /\ written[c] = CallOf(c).writes
      BY DEF ProcessInv, PipeInv, Returned, TypeOK
    <2>2. \A k : Pieces(c, 0, k) = [i \in 1 .. k |-> << c, i >>]
      BY DEF Pieces
    <2>3. CASE CallOf(c).output
      <3>1. Len(pipe[c]) = 0
        BY <2>3 DEF ProcessInv, ReadInv
      <3>2. Len(output[c]) = CallOf(c).writes
        BY <2>1, <2>3, <3>1
      <3> QED
        BY <2>1, <2>2, <2>3, <3>2
    <2>4. CASE ~CallOf(c).output
      <3>1. Len(output[c]) = 0
        <4>1. \A m, n \in Nat : m + n = 0 => m = 0
          OBVIOUS
        <4>2. Len(output[c]) + Len(pipe[c]) = 0
          BY <2>1, <2>4
        <4> QED
          BY <2>1, <4>1, <4>2
      <3> QED
        BY <2>1, <2>2, <2>4, <3>1
    <2> QED
      BY <2>3, <2>4
  <1> QED
    BY <1>1, ProcessInvariant, PTL

\* A command runs in the directory it was given or in that of its Lua function, and when no
\* Lua function runs meique is in its build directory.
THEOREM DirectoriesAreRight == Spec => []RunsInItsDirectory
  <1>1. ProcessInv => RunsInItsDirectory
    BY DEF ProcessInv, DirInv, RunsInItsDirectory
  <1> QED
    BY <1>1, ProcessInvariant, PTL
=============================================================================
