----------------------------- MODULE LuaGCInv -----------------------------
(***************************************************************************)
(* The inductive invariant of LuaGC: what is alive refers only to what is  *)
(* alive, in every phase; while the program runs between the steps of the  *)
(* mark phase, what is black refers to nothing white and what is gray is   *)
(* on a list; while it runs between those of a sweep, what is not white    *)
(* yet is still to be swept.                                               *)
(***************************************************************************)
EXTENDS LuaGC

\* What a register or an entry may be: upvalues are no values.
Value == Object \ Of("upval")

\* Everything an object refers to, the weak entries of a table too
Contents ==
    [o \in Object |->
        CASE Kind[o] = "table"  -> Values(o) \cup Keys(fields[o])
          [] Kind[o] = "thread" -> ToSet(stack[o])
          [] Kind[o] = "upval"  -> UpValue(o)
          [] OTHER              -> Values(o)]

\* What a traversal of it marks
Strong ==
    [o \in Object |->
        IF Kind[o] = "table"
        THEN (IF "value" \in mode[o] THEN {} ELSE Values(o))
               \cup (IF "key" \in mode[o] THEN {} ELSE Keys(fields[o]))
        ELSE Contents[o]]

\* What the collector keeps because of it
Kept == [o \in Object |-> Refers(o)]

Live == {o \in heap : color[o] # "dead"}

NonWhite(m) == {o \in heap : m.color[o] \in {"gray", "black"}}

Whites(m) == {o \in heap : m.color[o] \in {"white", "dead"}}

-----------------------------------------------------------------------------
(* Types *)

\* The parts of an object that are entries: what the keys and the values can be
EntryOK(o, e) ==
    CASE Kind[o] = "table"    -> e[1] \in Value \cup {Scalar} /\ e[2] \in Value
      [] Kind[o] = "function" -> e[1] = Scalar /\ e[2] \in Of("upval")
      [] Kind[o] = "upval"    -> e[1] = Scalar /\ e[2] \in Value
      [] Kind[o] = "udata"    -> e[1] = Scalar /\ e[2] \in Of("table")
      [] OTHER                -> FALSE

FieldsOK ==
    /\ fields \in [Object -> SUBSET ((Object \cup {Scalar}) \X Object)]
    /\ \A o \in Object : \A e \in fields[o] : EntryOK(o, e)
    /\ \A o \in Object : o \notin heap \/ opens[o] # << >> => fields[o] = {}

StackOK ==
    /\ stack \in [Of("thread") -> Seq(Value)]
    /\ \A th \in Of("thread") : th \notin heap => stack[th] = << >>

\* An open upvalue is a place in the stack of a thread.
OpensOK ==
    /\ opens \in [Object -> {<< >>} \cup (Of("thread") \X (Nat \ {0}))]
    /\ \A uv \in Object : opens[uv] # << >> =>
          /\ uv \in heap /\ Kind[uv] = "upval" /\ opens[uv][1] \in heap
          /\ opens[uv][2] <= Len(stack[opens[uv][1]])

ListsOK(m) ==
    /\ m.gray \subseteq heap \cap (Of("table") \cup Of("function") \cup Of("thread"))
    /\ m.grayagain \subseteq heap \cap (Of("table") \cup Of("thread"))
    /\ m.weak \subseteq heap \cap Of("table")

HeapOK ==
    /\ heap \subseteq Object /\ {Main, Global, running} \subseteq heap /\ running \in Of("thread")
    /\ color \in [Object -> {"white", "dead", "gray", "black"}]
    /\ ListsOK(Now)
    /\ tosweep \subseteq heap \ OpenUpvals
    /\ tmudata \subseteq heap \cap HasGC /\ finalized \subseteq heap \cap Of("udata")
    /\ mode \in [Object -> SUBSET {"key", "value"}]
    /\ world \in Worlds /\ calls \in [Object -> Nat]
    /\ gcstate \in {"pause", "propagate", "sweepstring", "sweep", "finalize"}

TypeOK == HeapOK /\ FieldsOK /\ StackOK /\ OpensOK

-----------------------------------------------------------------------------
(* Safety *)

\* What is alive refers to what is alive.
LiveOK ==
    /\ {Main, Global, running} \cup tmudata \subseteq Live
    /\ \A o \in Live : Contents[o] \subseteq Live

\* What is black has nothing white.
BlackOK(m) == \A o \in heap : m.color[o] = "black" => Contents[o] \subseteq NonWhite(m)

\* What can become black, and where what is gray is to be found
ColoursOK(m) ==
    /\ \A o \in heap : m.color[o] # "dead"
    /\ \A o \in heap : m.color[o] = "black" =>
          Kind[o] \in {"table", "function", "udata", "upval"} /\ opens[o] = << >>
    /\ \A o \in heap : m.color[o] = "gray" =>
          /\ Kind[o] # "udata"
          /\ Kind[o] = "upval" => opens[o] # << >>
          /\ Kind[o] = "function" => o \in m.gray
          /\ Kind[o] = "table" => o \in m.gray \cup m.grayagain \cup m.weak
          /\ Kind[o] = "thread" => o \in m.gray \cup m.grayagain
    /\ {Main, Global} \cup m.gray \cup m.grayagain \cup m.weak \subseteq NonWhite(m)

TriColour(m) == ListsOK(m) /\ BlackOK(m) /\ ColoursOK(m)

\* What is not white is still to be swept, alone or with its thread; open upvalues are never black.
Unswept == IF gcstate = "sweepstring" THEN tosweep \cup (heap \ Of("string")) ELSE tosweep

SweepOK ==
    \A o \in heap : color[o] # "white" =>
        /\ o \in Unswept \cup tmudata \/ (opens[o] # << >> /\ opens[o][1] \in Unswept)
        /\ color[o] = "black" => opens[o] = << >>

PhaseOK ==
    /\ gcstate = "propagate" => TriColour(Now)
    /\ gcstate # "propagate" => SweepOK /\ gray = {} /\ grayagain = {} /\ weak = {}
    /\ gcstate = "sweepstring" => tosweep \subseteq Of("string")
    /\ gcstate \in {"finalize", "pause", "propagate"} => tosweep = {}
    /\ gcstate \in {"pause", "propagate"} => tmudata = {}

\* What was not garbage when the collection began, with what came since
Spared == heap \ doomed

\* Only what is spared is marked, and what is doomed dies.
DoomOK ==
    /\ gcstate = "propagate" =>
          /\ {Main, Global, running} \cup (heap \cap (HasGC \ finalized)) \subseteq Spared
          /\ \A o \in Spared : Kept[o] \subseteq Spared
          /\ NonWhite(Now) \subseteq Spared
    /\ gcstate # "propagate" => \A o \in doomed \cap heap : color[o] = "dead"

\* Before a userdata is finalized its finalizer was not called, afterwards it waits or was called.
FinalOK ==
    \A u \in HasGC :
        /\ calls[u] \in {0, 1}
        /\ u \in heap \ finalized => calls[u] = 0
        /\ u \in tmudata => u \in finalized /\ calls[u] = 0
        /\ u \in finalized \ tmudata => calls[u] = 1
        /\ u \in heap /\ color[u] = "dead" => u \in finalized \ tmudata

Inv == TypeOK /\ LiveOK /\ PhaseOK /\ DoomOK /\ FinalOK
=============================================================================
