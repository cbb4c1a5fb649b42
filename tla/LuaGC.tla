------------------------------- MODULE LuaGC -------------------------------
(***************************************************************************)
(* The collector of the Lua interpreter meique runs its scripts in         *)
(* (lgc.cpp, with the objects of lfunc.cpp, lstring.cpp and lstate.cpp):   *)
(* an incremental mark and sweep, a step at a time, between which the      *)
(* program goes on and changes what refers to what. Barriers keep the      *)
(* marks right.                                                            *)
(*                                                                         *)
(* An object has fields, pairs of a key and an object: the entries of a    *)
(* table, the upvalue of a function, the value of a closed upvalue, the    *)
(* environment of a userdata. What a thread refers to is its stack; an     *)
(* open upvalue refers to a place in the stack of a thread. Metatables     *)
(* live as long as the state: all that is kept of them are the weak mode   *)
(* of a table and whether a userdata has a finalizer.                      *)
(***************************************************************************)
EXTENDS Naturals, SequencesExt

CONSTANTS
    Object,       \* places in memory, one kind of object each
    Kind,         \* "thread", "table", "function", "upval", "udata" or "string"
    Main,         \* g->mainthread
    Global,       \* gt(L), the table of globals; stands for the registry too
    Scalar,       \* a key that is no object: its entry is in the array part of a table or not
    HasGC,        \* the userdata with a __gc method
    Order,        \* the objects as g->rootgc has them: a bound, one order of creation
    Worlds,       \* bounds on what a program does: the objects it makes, the kinds of those it
                  \* puts into tables as keys and as values, and the weak modes it gives to tables
    MaxStack,     \* bound on the stack of a thread
    MaxFields     \* bound on the entries of a table

Of(kind) == {o \in Object : Kind[o] = kind}

ASSUME GCAssumption ==
    /\ Kind \in [Object -> {"thread", "table", "function", "upval", "udata", "string"}]
    /\ Main \in Of("thread") /\ Global \in Of("table")
    /\ Scalar \notin Object /\ HasGC \subseteq Of("udata")
    /\ Order \in Seq(Object) /\ ToSet(Order) = Object
    /\ \A w \in Worlds : w.objects \subseteq Object /\ w.modes \subseteq SUBSET {"key", "value"}
    /\ MaxStack \in Nat /\ MaxFields \in Nat

VARIABLES
    heap,        \* the objects there are
    color,       \* of each: "white" (g->currentwhite), "dead" (the other white), "gray" or "black"
    gcstate,     \* g->gcstate
    gray,        \* g->gray, g->grayagain, g->weak: lists whose order means nothing, and that
                 \* nothing reads after the mark phase: they are empty here then
    grayagain,
    weak,
    tosweep,     \* what is after g->sweepgc, or in the buckets from g->sweepstrgc on
    tmudata,     \* g->tmudata: the userdata whose finalizers are to be called
    finalized,   \* the userdata with FINALIZEDBIT
    fields, stack, opens,   \* what refers to what; the place of an open upvalue, or << >>
    mode,        \* __mode of the metatables
    running,     \* the thread that runs: L
    world,       \* the one of Worlds the program is of
    calls,       \* history: how often the finalizer of a userdata was called
    doomed       \* history: what was garbage when the collection began, and still is

marks   == << color, gray, grayagain, weak >>
cycle   == << gcstate, tosweep, tmudata, finalized >>
graph   == << fields, stack, opens, mode, running, world >>
vars    == << heap, marks, cycle, graph, calls, doomed >>

-----------------------------------------------------------------------------
(* What refers to what *)

Keys(F)   == {f[1] : f \in F} \ {Scalar}
Values(o) == {f[2] : f \in fields[o]}

\* The value of an upvalue, as a set of at most one object
UpValue(uv) == IF opens[uv] = << >> THEN Values(uv) ELSE {stack[opens[uv][1]][opens[uv][2]]}

\* Strings are values: a table that is weak holds them all the same.
Held(t, S, part) == IF part \in mode[t] THEN S \cap Of("string") ELSE S

\* What the collector has to keep because of o
Refers(o) ==
    CASE Kind[o] = "table"  -> Held(o, Values(o), "value") \cup Held(o, Keys(fields[o]), "key")
      [] Kind[o] = "thread" -> ToSet(stack[o])
      [] Kind[o] = "upval"  -> UpValue(o)
      [] OTHER              -> Values(o)

Closure(S) ==
    LET from[k \in 0 .. Cardinality(heap)] ==
            IF k = 0 THEN S ELSE LET T == from[k - 1] IN T \cup UNION {Refers(o) : o \in T}
    IN from[Cardinality(heap)]

\* What the program may come to use
Reachable == Closure({Main, Global, running} \cup tmudata)

-----------------------------------------------------------------------------
(* Marking: functions of the marks m, with the fields color, gray, grayagain *)
(* and weak                                                                  *)

Now == [color |-> color, gray |-> gray, grayagain |-> grayagain, weak |-> weak]

Become(m) ==
    /\ color' = m.color /\ gray' = m.gray /\ grayagain' = m.grayagain /\ weak' = m.weak

Paint(m, S, c) == [m EXCEPT !.color = [o \in Object |-> IF o \in S THEN c ELSE m.color[o]]]

White(m, S) == {o \in S : m.color[o] \in {"white", "dead"}}

\* What is marked with the white ones of S: the environment of a userdata, the value of an
\* upvalue.
Through(m, S) ==
    LET fresh == White(m, S)
    IN fresh \cup White(m, UNION {Values(u) : u \in fresh \cap Of("udata")})
             \cup White(m, UNION {UpValue(uv) : uv \in fresh \cap Of("upval")})

\* reallymarkobject of what is white in S: userdata are never gray, open upvalues never
\* black; a table, a function or a thread comes to the list.
Mark(m, S) ==
    LET all == Through(m, Through(m, S))
        done == {o \in all : Kind[o] = "udata" \/ (Kind[o] = "upval" /\ opens[o] = << >>)}
    IN [Paint(Paint(m, all, "gray"), done, "black")
            EXCEPT !.gray = @ \cup {o \in all : Kind[o] \in {"table", "function", "thread"}}]

\* propagatemark with traversetable, traverseclosure or traversestack. A table that is weak
\* stays gray, on the list of those to be cleared; so does a thread, which is traversed again
\* at the end.
PropagateMark(m, o) ==
    LET n == [m EXCEPT !.gray = @ \ {o}]
        held == (IF "value" \in mode[o] THEN {} ELSE Values(o))
                  \cup (IF "key" \in mode[o] THEN {} ELSE Keys(fields[o]))
    IN CASE Kind[o] = "table" /\ mode[o] = {} -> Mark(Paint(n, {o}, "black"), held)
         [] Kind[o] = "table" /\ mode[o] # {} -> Mark([n EXCEPT !.weak = @ \cup {o}], held)
         [] Kind[o] = "function"              -> Mark(Paint(n, {o}, "black"), {Global} \cup Values(o))
         [] Kind[o] = "thread"                -> Mark([n EXCEPT !.grayagain = @ \cup {o}],
                                                      {Global} \cup ToSet(stack[o]))

PropagateAll(m) ==
    LET after[k \in 0 .. Cardinality(heap)] ==
            IF k = 0 THEN m
            ELSE LET n == after[k - 1]
                 IN IF n.gray = {} THEN n ELSE PropagateMark(n, CHOOSE o \in n.gray : TRUE)
    IN after[Cardinality(heap)]

-----------------------------------------------------------------------------
(* The barriers *)

\* Fault: the table stays black.
NoBarrier(m, t, S) == m

\* luaC_barrierback
Again(m, t) ==
    [Paint(m, {t}, "gray") EXCEPT !.grayagain = IF gcstate = "propagate" THEN @ \cup {t} ELSE {}]

\* luaC_barriert: a black table that is given something white becomes gray again.
BarrierBack(m, t, S) ==
    IF m.color[t] = "black" /\ White(m, S) # {}
    THEN Again(m, t)
    ELSE m

\* luaC_barrier: what is stored is marked, or the owner becomes white while it is swept.
BarrierForward(m, o, v) ==
    IF m.color[o] # "black" \/ White(m, {v}) = {} THEN m
    ELSE IF gcstate = "propagate" THEN Mark(m, {v}) ELSE Paint(m, {o}, "white")

-----------------------------------------------------------------------------
(* Upvalues *)

OpenUpvals == {uv \in heap : opens[uv] # << >>}
OpenIn(th) == {uv \in OpenUpvals : opens[uv][1] = th}

\* luaC_linkupval: a closed upvalue that was marked needs the barrier it had no use for before.
LinkUpvals(m, S) ==
    LET marked == {uv \in S : m.color[uv] = "gray"}
    IN IF gcstate = "propagate"
       THEN Mark(Paint(m, marked, "black"), UNION {UpValue(uv) : uv \in marked})
       ELSE Paint(m, marked, "white")

\* luaF_close of the upvalues S: dead ones are freed, the others get the value they had in
\* the stack. m are the marks before.
Dead(S) == {o \in S : color[o] = "dead"}

CloseUpvals(S) ==
    /\ fields' = [uv \in Object |-> IF uv \in S \ Dead(S) THEN {<< Scalar, v >> : v \in UpValue(uv)}
                                     ELSE fields[uv]]
    /\ opens' = [uv \in Object |-> IF uv \in S THEN << >> ELSE opens[uv]]

-----------------------------------------------------------------------------
(* The program: what the running thread does between two steps *)

Regs    == ToSet(stack[running])
Known   == Regs \cup {Global}
Depth   == Len(stack[running])
HasRoom == Depth < MaxStack

Push(v) == stack' = [stack EXCEPT ![running] = Append(@, v)]

\* What can be read out of o
Inside(o) ==
    CASE Kind[o] = "table"    -> Values(o) \cup Keys(fields[o])
      [] Kind[o] = "udata"    -> Values(o)
      [] Kind[o] = "function" -> UNION {UpValue(uv) : uv \in Values(o)}
      [] OTHER                -> {}

\* luaH_new, luaS_newudata, luaE_newthread, newlstr: the environment of a userdata is that of
\* the function that makes it.
New(o) ==
    /\ HasRoom /\ o \in world.objects \ heap /\ Kind[o] \in {"table", "udata", "thread", "string"}
    /\ heap' = heap \cup {o} /\ Push(o)
    /\ color' = [color EXCEPT ![o] = "white"]
    /\ fields' = [fields EXCEPT ![o] = IF Kind[o] = "udata" THEN {<< Scalar, Global >>} ELSE {}]
    /\ calls' = [calls EXCEPT ![o] = 0]
    /\ UNCHANGED << gray, grayagain, weak, cycle, opens, mode, running, world >>

\* A field, a key, an upvalue is read; what is never garbage is left out.
Fetch(v) ==
    /\ HasRoom /\ v \notin {Main, Global} /\ \E o \in Known : v \in Inside(o)
    /\ Push(v)
    /\ UNCHANGED << heap, marks, cycle, fields, opens, mode, running, world, calls >>

\* luaS_newlstr finds the string, which may be dead.
Intern(s) ==
    /\ HasRoom /\ s \in heap /\ Kind[s] = "string"
    /\ Push(s)
    /\ color' = [color EXCEPT ![s] = IF @ = "dead" THEN "white" ELSE @]
    /\ UNCHANGED << heap, gray, grayagain, weak, cycle, fields, opens, mode, running, world, calls >>

\* lua_rawset, OP_SETTABLE: the entry with key k becomes v.
SetTable(t, k, v) ==
    LET rest == {f \in fields[t] : f[1] # k} IN
    /\ t \in Known /\ Kind[t] = "table" /\ Cardinality(rest) < MaxFields
    /\ k \in {Scalar} \cup UNION {Of(kind) : kind \in world.keys}
    /\ Kind[v] \in world.values
    /\ fields' = [fields EXCEPT ![t] = rest \cup {<< k, v >>}]
    /\ Become(BarrierBack(Now, t, {k, v} \ {Scalar}))
    /\ UNCHANGED << heap, cycle, stack, opens, mode, running, world, calls >>

\* The entry becomes nil.
RemoveField(t, f) ==
    /\ t \in Known /\ Kind[t] = "table" /\ f \in fields[t]
    /\ fields' = [fields EXCEPT ![t] = @ \ {f}]
    /\ UNCHANGED << heap, marks, cycle, stack, opens, mode, running, world, calls >>

\* lua_setmetatable, with a metatable that says new of weakness and that may be white
SetMode(t, new) ==
    /\ t \in Regs /\ Kind[t] = "table" /\ new \in world.modes \ {mode[t]}
    /\ mode' = [mode EXCEPT ![t] = new]
    /\ UNCHANGED marks \/ (color[t] = "black" /\ Become(Again(Now, t)))
    /\ UNCHANGED << heap, cycle, fields, stack, opens, running, world, calls >>

\* lua_setfenv of a userdata
SetEnv(u, t) ==
    /\ u \in Regs /\ Kind[u] = "udata" /\ t \in Known /\ Kind[t] = "table"
    /\ fields' = [fields EXCEPT ![u] = {<< Scalar, t >>}]
    /\ Become(BarrierForward(Now, u, t))
    /\ UNCHANGED << heap, cycle, stack, opens, mode, running, world, calls >>

\* OP_SETUPVAL: an upvalue that is open is a place in a stack, which needs no barrier.
SetUpval(f, v) ==
    /\ f \in Regs /\ Kind[f] = "function" /\ v \in Regs
    /\ \E uv \in Values(f) :
         IF opens[uv] = << >>
         THEN /\ fields' = [fields EXCEPT ![uv] = {<< Scalar, v >>}]
              /\ Become(BarrierForward(Now, uv, v))
              /\ UNCHANGED stack
         ELSE /\ stack' = [stack EXCEPT ![opens[uv][1]][opens[uv][2]] = v]
              /\ UNCHANGED << fields, marks >>
    /\ UNCHANGED << heap, cycle, opens, mode, running, world, calls >>

\* OP_CLOSURE over the variable at place i: luaF_findupval finds its upvalue, dead or not,
\* or makes uv.
NewClosure(f, i, uv) ==
    LET old == {u \in OpenUpvals : opens[u] = << running, i >>} IN
    /\ HasRoom /\ f \in world.objects \ heap /\ Kind[f] = "function" /\ Kind[uv] = "upval" /\ i \in 1 .. Depth
    /\ IF old = {} THEN uv \in world.objects \ heap ELSE uv \in old
    /\ heap' = heap \cup {f, uv}
    /\ opens' = [opens EXCEPT ![uv] = << running, i >>]
    /\ fields' = [fields EXCEPT ![f] = {<< Scalar, uv >>}]
    /\ color' = [color EXCEPT ![f] = "white", ![uv] = IF old = {} \/ @ = "dead" THEN "white" ELSE @]
    /\ Push(f)
    /\ UNCHANGED << gray, grayagain, weak, cycle, mode, running, world, calls >>

\* A variable goes out of scope: luaF_close of its place.
Pop ==
    LET closing == {uv \in OpenIn(running) : opens[uv][2] = Depth} IN
    /\ Depth > 0
    /\ stack' = [stack EXCEPT ![running] = Front(@)]
    /\ Become(LinkUpvals(Now, closing \ Dead(closing)))
    /\ heap' = heap \ Dead(closing)
    /\ CloseUpvals(closing)
    /\ UNCHANGED << cycle, mode, running, world, calls >>

\* lua_xmove of the n values on top of the stack, which are no variables, and the other thread
\* runs: a coroutine is resumed by the main thread, which holds it, or yields to it.
Switch(th, n) ==
    LET left == SubSeq(stack[running], 1, Depth - n) IN
    /\ n <= Depth /\ th # running
    /\ IF running = Main THEN th \in ToSet(left) ELSE th = Main
    /\ \A uv \in OpenIn(running) : opens[uv][2] <= Depth - n
    /\ Len(stack[th]) + n <= MaxStack
    /\ stack' = [stack EXCEPT ![running] = left,
                              ![th] = @ \o SubSeq(stack[running], Depth - n + 1, Depth)]
    /\ running' = th
    /\ UNCHANGED << heap, marks, cycle, fields, opens, mode, world, calls >>

Program ==
    \/ \E o \in Object : New(o) \/ Fetch(o) \/ Intern(o)
    \/ \E t \in Known, v \in Regs : \E k \in Regs \cup {Scalar} : SetTable(t, k, v)
    \/ \E t \in Known : \E f \in fields[t] : RemoveField(t, f)
    \/ \E t \in Regs, new \in world.modes : SetMode(t, new)
    \/ \E u \in Regs, t \in Known : SetEnv(u, t)
    \/ \E f, v \in Regs : SetUpval(f, v)
    \/ \E f, uv \in Object, i \in 1 .. MaxStack : NewClosure(f, i, uv)
    \/ Pop
    \/ \E th \in Of("thread"), n \in 0 .. 1 : Switch(th, n)

-----------------------------------------------------------------------------
(* The steps of the collector *)

MarkRoot ==
    /\ gcstate = "pause" /\ gcstate' = "propagate"
    /\ Become(Mark([Now EXCEPT !.gray = {}, !.grayagain = {}, !.weak = {}], {Main, Global}))
    /\ UNCHANGED << heap, tosweep, finalized, tmudata, graph, calls >>

Propagate(o) ==
    /\ gcstate = "propagate" /\ o \in gray
    /\ Become(PropagateMark(Now, o))
    /\ UNCHANGED << heap, cycle, graph, calls >>

RemarkUpvals(m) == Mark(m, UNION {UpValue(uv) : uv \in {uv \in OpenUpvals : m.color[uv] = "gray"}})

RemarkWeak(m) == PropagateAll(Mark([m EXCEPT !.gray = m.weak, !.weak = {}], {running}))

RemarkGray(m) == PropagateAll([m EXCEPT !.gray = m.grayagain, !.grayagain = {}])

\* Fault: the bit that says that a userdata was finalized is not looked at.
SeparatedAgain(m) == White(m, heap \cap Of("udata"))

\* luaC_separateudata: the userdata nothing refers to; those with a finalizer go to tmudata.
Separated(m) == White(m, heap \cap Of("udata")) \ finalized

\* Fault: those whose finalizer was called are kept with those whose is not.
KeepFinalized(m, S) == PropagateAll(Mark(Paint(m, S, "white"), S \cup finalized))

\* marktmu: userdata are kept for their finalizers, even if the collection before marked them.
MarkTmu(m, S) == PropagateAll(Mark(Paint(m, S, "white"), S))

\* iscleared, but for strings: they are values, and are marked.
IsCleared(m, o, isKey, done) ==
    /\ o # Scalar /\ Kind[o] # "string"
    /\ White(m, {o}) # {} \/ (o \in done /\ ~isKey)

\* cleartable: the array part is passed over unless values are weak.
Cleared(m, t, done, hasArray) ==
    {f \in fields[t] : /\ IsCleared(m, f[1], TRUE, done) \/ IsCleared(m, f[2], FALSE, done)
                       /\ f[1] = Scalar /\ hasArray => "value" \in mode[t]}

WeakStrings(m) == {s \in Of("string") : \E t \in m.weak : \E f \in fields[t] : s \in {f[1], f[2]}}

Atomic ==
    LET remarked == RemarkGray(RemarkWeak(PropagateAll(RemarkUpvals(Now))))
        done == finalized \cup Separated(remarked)
        tm == tmudata \cup (Separated(remarked) \cap HasGC)
        m == MarkTmu(remarked, tm)
        final == Paint(m, White(m, heap) \ WeakStrings(m), "dead")
    IN /\ gcstate = "propagate" /\ gray = {}
       /\ finalized' = done /\ tmudata' = tm
       /\ Become([Paint(final, White(m, WeakStrings(m)), "gray") EXCEPT !.grayagain = {}, !.weak = {}])
       /\ \E arrays \in SUBSET m.weak :
            fields' = [t \in Object |->
                          IF t \in m.weak THEN fields[t] \ Cleared(m, t, done, t \in arrays)
                          ELSE fields[t]]
       /\ gcstate' = "sweepstring" /\ tosweep' = heap \cap Of("string")
       /\ UNCHANGED << heap, stack, opens, mode, running, world, calls >>

\* The strings of a bucket: dead ones go, the others become white.
SweepString(bucket) ==
    /\ gcstate = "sweepstring" /\ bucket \subseteq tosweep
    /\ heap' = heap \ Dead(bucket)
    /\ color' = [s \in Object |-> IF s \in bucket THEN "white" ELSE color[s]]
    /\ IF bucket = tosweep
       THEN gcstate' = "sweep" /\ tosweep' = heap \ (Of("string") \cup OpenUpvals \cup tmudata)
       ELSE tosweep' = tosweep \ bucket /\ UNCHANGED gcstate
    /\ UNCHANGED << gray, grayagain, weak, finalized, tmudata, graph, calls >>

FirstOf(S) == Order[Min({i \in DOMAIN Order : Order[i] \in S})]

\* sweeplist, one object: a thread with its open upvalues. One that goes closes those that stay.
Sweep(o) ==
    LET gone == Dead({o} \cup OpenIn(o))
        closed == IF o \in gone THEN OpenIn(o) \ gone ELSE {}
    IN /\ gcstate = "sweep" /\ o = FirstOf(tosweep)
       /\ heap' = heap \ gone /\ finalized' = finalized \ gone
       /\ color' = [x \in Object |-> IF x \in {o} \cup OpenIn(o) THEN "white" ELSE color[x]]
       /\ fields' = [x \in Object |-> IF x \in gone THEN {}
                                      ELSE IF x \in closed THEN {<< Scalar, v >> : v \in UpValue(x)}
                                      ELSE fields[x]]
       /\ opens' = [x \in Object |-> IF x \in gone \cup closed THEN << >> ELSE opens[x]]
       /\ stack' = [th \in Of("thread") |-> IF th \in gone THEN << >> ELSE stack[th]]
       /\ mode' = [t \in Object |-> IF t \in gone THEN {} ELSE mode[t]]
       /\ tosweep' = tosweep \ {o}
       /\ gcstate' = IF tosweep' = {} THEN "finalize" ELSE gcstate
       /\ UNCHANGED << gray, grayagain, weak, tmudata, running, world, calls >>

\* GCTM: the userdata returns to the others, and its finalizer is called with it.
CallGCTM(u) ==
    /\ gcstate = "finalize" /\ u \in tmudata /\ HasRoom
    /\ tmudata' = tmudata \ {u}
    /\ color' = [color EXCEPT ![u] = "white"]
    /\ Push(u)
    /\ calls' = [calls EXCEPT ![u] = @ + 1]
    /\ UNCHANGED << heap, gcstate, gray, grayagain, weak, tosweep, finalized, fields, opens, mode, running, world >>

EndCycle ==
    /\ gcstate = "finalize" /\ tmudata = {}
    /\ gcstate' = "pause"
    /\ UNCHANGED << heap, marks, tosweep, finalized, tmudata, graph, calls >>

SingleStep ==
    \/ MarkRoot \/ \E o \in gray : Propagate(o)
    \/ Atomic \/ \E bucket \in SUBSET tosweep : SweepString(bucket)
    \/ \E o \in tosweep : Sweep(o)
    \/ \E u \in tmudata : CallGCTM(u)
    \/ EndCycle

-----------------------------------------------------------------------------

\* f_luaopen and lua_newstate: the state with its globals
Init ==
    /\ heap = {Main, Global}
    /\ color = [o \in Object |-> "white"]
    /\ gcstate = "pause" /\ tosweep = {} /\ tmudata = {} /\ finalized = {}
    /\ gray = {} /\ grayagain = {} /\ weak = {}
    /\ fields = [o \in Object |-> {}] /\ opens = [o \in Object |-> << >>]
    /\ stack = [th \in Of("thread") |-> << >>] /\ mode = [o \in Object |-> {}]
    /\ running = Main /\ world \in Worlds
    /\ calls = [o \in Object |-> 0] /\ doomed = {}

\* What the program can no longer come to, but through finalizers
Garbage == heap \ Closure({Main, Global, running} \cup tmudata \cup (heap \cap (HasGC \ finalized)))

\* What is garbage when a collection begins stays doomed as long as nothing brings it back:
\* a string that is made again, an entry of a weak table, an upvalue that is found again.
Remember == doomed' = IF gcstate = "pause" /\ gcstate' = "propagate" THEN Garbage ELSE IF doomed = {} THEN {} ELSE doomed \ Reachable'

Next == (Program \/ SingleStep) /\ Remember

Spec == Init /\ [][Next]_vars

-----------------------------------------------------------------------------
(* Properties *)

\* Whatever the program can still come to is there: what refers to what changes between any
\* two steps of the collector, and the barriers see to it that nothing is lost. An entry
\* that is left in a weak table is there too.
NothingReachableIsFreed ==
    /\ Reachable \subseteq heap
    /\ \A t \in Reachable : Values(t) \cup Keys(fields[t]) \subseteq heap

\* What is garbage when a collection begins is gone when it ends.
GarbageIsCollected == gcstate = "pause" => doomed \cap heap = {}

\* A finalizer is called once at most, and a userdata that has one does not go without.
FinalizersRunOnce ==
    [][\A u \in HasGC : calls[u] <= 1 /\ (u \in heap \ heap' => calls[u] = 1)]_vars
=============================================================================
