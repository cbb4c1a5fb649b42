------------------------------- MODULE LuaVM -------------------------------
(***************************************************************************)
(* The machine of the Lua interpreter meique runs its scripts in: the      *)
(* instructions (lvm.cpp), calls and protected calls (ldo.cpp), upvalues   *)
(* (lfunc.cpp) and meique's own conditions, where a table is as true as    *)
(* its metamethod __eval says (l_isfalse), for its scopes: DEBUG:addFiles  *)
(* is a call only in a build for debugging.                                *)
(*                                                                         *)
(* A state m of the machine has                                            *)
(*   stack, top   the values from 0 on and the first that is free, L->top  *)
(*   ci           the frames of Lua functions that run                     *)
(*   heap         the tables: map, from keys to values, and meta, 0 or the *)
(*                table that is the metatable                              *)
(*   cls          the functions: the path of the prototype among those     *)
(*                inside the script's and the upvalues, or a native's name *)
(*   upv          the upvalues: open ones are at a place of the stack      *)
(*   status       "running", "done" or "error", with results               *)
(*                                                                         *)
(* What C does when a function it called is back is in the frame of that   *)
(* function, then, a list of steps. C functions have no frame: they do not *)
(* call back, but for pcall. The stack does not move when it grows.        *)
(***************************************************************************)
EXTENDS LuaCheck
LOCAL INSTANCE SequencesExt
LOCAL INSTANCE FiniteSetsExt
LOCAL INSTANCE TLC

CONSTANTS Scripts,      \* names of scripts
          Tokens(_),    \* the tokens of a script
          Compile(_),   \* the parser: luaD_protectedparser
          StackSize,    \* bounds the values of a script
          MaxTagLoop    \* MAXTAGLOOP

VARIABLES script,
          compiled,     \* what the parser made of it: its prototype, or why there is none
          m

vars == << script, compiled, m >>

RECURSIVE ProtoAt(_, _), gettable(_, _, _, _, _), settable(_, _, _, _, _), precall(_, _, _, _), Continue(_, _),
          isfalse(_, _, _, _), concat(_, _, _, _), Throw(_, _, _)

Str(s)        == << "string", s >>
TableAt(n)    == << "table", n >>
Function(n)   == << "function", n >>
IsTable(v)    == v[1] = "table"
IsFunction(v) == v[1] = "function"
IsNumber(v)   == v[1] = "number"
IsString(v)   == v[1] = "string"

ProtoAt(p, path) == IF path = << >> THEN p ELSE ProtoAt(p.protos[Head(path)], Tail(path))

frame(n)     == Last(n.ci)
proto(n)     == ProtoAt(compiled.proto, n.cls[frame(n).cl].p)
code(n)      == proto(n).code
ptop(n)      == frame(n).base + proto(n).maxstack       \* ci->top
goto(n, pc)  == [n EXCEPT !.ci[Len(n.ci)].pc = pc]
reg(n, r)    == n.stack[frame(n).base + r]
setreg(n, r, v) == [n EXCEPT !.stack[frame(n).base + r] = v]
operand(n, x) == IF x[1] = "K" THEN x[2] ELSE reg(n, x[2])

\* Values from the place `at` on
put(n, at, vs) == [n EXCEPT !.stack = [i \in DOMAIN @ |-> IF i \in at .. at + Len(vs) - 1 THEN vs[i - at + 1] ELSE @[i]]]
taken(n, from, to) == [i \in 1 .. to - from |-> n.stack[from + i - 1]]
nils(k) == [i \in 1 .. k |-> Nil]

-----------------------------------------------------------------------------
(* Tables and metamethods *)

get(n, t, key) == LET map == n.heap[t].map IN IF key \in DOMAIN map THEN map[key] ELSE Nil

set(n, t, key, v) ==
    [n EXCEPT !.heap[t].map = IF v = Nil THEN [k \in DOMAIN @ \ {key} |-> @[k]] ELSE (key :> v) @@ @]

newtable(n, map) == [n EXCEPT !.heap = Append(@, [map |-> map, meta |-> 0])]

border(n, t) == CHOOSE b \in 0 .. Cardinality(DOMAIN n.heap[t].map) : get(n, t, Number(b + 1)) = Nil /\ \A i \in 1 .. b : get(n, t, Number(i)) # Nil

gettmbyobj(n, v, event) ==
    IF IsTable(v) /\ n.heap[v[2]].meta # 0 THEN get(n, n.heap[v[2]].meta, Str(event)) ELSE Nil

\* Calls f; its result goes to the place res, and the steps after are done.
callTMres(n, res, f, p1, p2, after) ==
    precall([put(n, n.top, << f, p1, p2 >>) EXCEPT !.top = @ + 3], n.top, 1, << << "res", res >> >> \o after)

callTM(n, f, p1, p2, p3) == precall([put(n, n.top, << f, p1, p2, p3 >>) EXCEPT !.top = @ + 4], n.top, 0, << >>)

gettable(n, t, key, res, loop) ==
    LET raw == IF IsTable(t) THEN get(n, t[2], key) ELSE Nil
        tm == gettmbyobj(n, t, "__index")
    IN CASE loop = 0 -> Throw(n, Str("loop in gettable"), << >>)
         [] loop > 0 /\ IsTable(t) /\ (raw # Nil \/ tm = Nil) -> [n EXCEPT !.stack[res] = raw]
         [] loop > 0 /\ ~IsTable(t) /\ tm = Nil -> Throw(n, Str("attempt to index"), << >>)
         [] OTHER -> IF IsFunction(tm) THEN callTMres(n, res, tm, t, key, << >>) ELSE gettable(n, tm, key, res, loop - 1)

settable(n, t, key, v, loop) ==
    LET raw == IF IsTable(t) THEN get(n, t[2], key) ELSE Nil
        tm == gettmbyobj(n, t, "__newindex")
    IN CASE loop = 0 -> Throw(n, Str("loop in settable"), << >>)
         [] loop > 0 /\ IsTable(t) /\ key = Nil -> Throw(n, Str("table index is nil"), << >>)
         [] loop > 0 /\ IsTable(t) /\ key # Nil /\ (raw # Nil \/ tm = Nil) -> set(n, t[2], key, v)
         [] loop > 0 /\ ~IsTable(t) /\ tm = Nil -> Throw(n, Str("attempt to index"), << >>)
         [] OTHER -> IF IsFunction(tm) THEN callTM(n, tm, t, key, v) ELSE settable(n, tm, key, v, loop - 1)

binTM(n, p1, p2, event) == LET tm == gettmbyobj(n, p1, event) IN IF tm # Nil THEN tm ELSE gettmbyobj(n, p2, event)

-----------------------------------------------------------------------------
(* Upvalues *)

openat(n, at) == {u \in DOMAIN n.upv : n.upv[u].open /\ n.upv[u].at >= at}

findupval(n, at) ==
    LET found == {u \in openat(n, at) : n.upv[u].at = at}
    IN IF found # {} THEN [n |-> n, u |-> Max(found)]
       ELSE [n |-> [n EXCEPT !.upv = Append(@, [open |-> TRUE, at |-> at, v |-> Nil])], u |-> Len(n.upv) + 1]

close(n, at) ==
    [n EXCEPT !.upv = [u \in DOMAIN @ |-> IF u \in openat(n, at)
                                          THEN [open |-> FALSE, at |-> 0, v |-> n.stack[@[u].at]] ELSE @[u]]]

upvalue(n, u)   == IF n.upv[u].open THEN n.stack[n.upv[u].at] ELSE n.upv[u].v
setupval(n, u, v) == IF n.upv[u].open THEN [n EXCEPT !.stack[n.upv[u].at] = v] ELSE [n EXCEPT !.upv[u].v = v]

-----------------------------------------------------------------------------
(* Calls *)

\* The results vs of the function at func, of which the caller wants nresults
poscall(n, func, wanted, vs) ==
    LET k == IF wanted = MultRet THEN Len(vs) ELSE wanted
    IN [put(n, func, [i \in 1 .. k |-> IF i <= Len(vs) THEN vs[i] ELSE Nil]) EXCEPT !.top = func + k]

\* The arguments of a function with ... stay below its frame, those for its parameters are moved.
adjust_varargs(n, p, func) ==
    LET missing == Max({0, p.numparams - (n.top - func - 1)})
        filled == put(n, n.top, nils(missing))
        base == n.top + missing
        fixed == taken(filled, func + 1, func + 1 + p.numparams)
        moved == [put(put(filled, base, fixed), func + 1, nils(p.numparams)) EXCEPT !.top = base + p.numparams]
        extra == taken(filled, func + 1 + p.numparams, base)
        arg == [k \in {Number(i) : i \in DOMAIN extra} |-> extra[k[2]]] @@ (Str("n") :> Number(Len(extra)))
        with == [put(newtable(moved, arg), moved.top, << TableAt(Len(n.heap) + 1) >>) EXCEPT !.top = @ + 1]
    IN [n |-> IF p.needsarg THEN with ELSE moved, base |-> base]

enter(n, func, nresults, then) ==
    LET cl == n.stack[func][2]
        p == ProtoAt(compiled.proto, n.cls[cl].p)
        cut == [n EXCEPT !.top = Min({@, func + 1 + p.numparams})]
        args == IF p.isvararg THEN adjust_varargs(n, p, func) ELSE [n |-> cut, base |-> func + 1]
        top == args.base + p.maxstack
    IN [put(args.n, args.n.top, nils(top - args.n.top)) EXCEPT
            !.top = top,
            !.ci = Append(@, [func |-> func, base |-> args.base, nresults |-> nresults, pc |-> 1, cl |-> cl, then |-> then])]

\* C functions: type, setmetatable, error and pcall (lbaselib.cpp)
native(n, func, nresults, then) ==
    LET name == n.cls[n.stack[func][2]].native
        args == taken(n, func + 1, n.top)
        back(k, v) == Continue(poscall(k, func, nresults, << v >>), then)
        meta == IF args[2] = Nil THEN 0 ELSE args[2][2]
    IN CASE name = "type" /\ args # << >> -> back(n, Str(args[1][1]))
         [] name = "setmetatable" /\ Len(args) > 1 /\ IsTable(args[1]) /\ args[2][1] \in {"nil", "table"} ->
              back([n EXCEPT !.heap[args[1][2]].meta = meta], args[1])
         [] name = "error" -> Throw(n, IF args = << >> THEN Nil ELSE args[1], then)
         [] name = "pcall" /\ args # << >> ->
              precall(n, func + 1, MultRet, << << "pcall", func, nresults, Len(n.ci) >> >> \o then)
         [] OTHER -> Throw(n, Str("bad argument"), then)

precall(n, func, nresults, then) ==
    LET f == n.stack[func]
        tm == gettmbyobj(n, f, "__call")
        hole == put(n, func, << tm >> \o taken(n, func, n.top))
    IN IF IsFunction(f)
       THEN IF n.cls[f[2]].native = "" THEN enter(n, func, nresults, then) ELSE native(n, func, nresults, then)
       ELSE IF IsFunction(tm) THEN precall([hole EXCEPT !.top = @ + 1], func, nresults, then)
       ELSE Throw(n, Str("attempt to call"), then)

\* The frames down to the protected call are left; without one, the script ends.
Throw(n, v, then) ==
    LET k == SelectInSeq(then, LAMBDA s : s[1] = "pcall")
        func == then[k][2]
        caught == [close(n, func + 1) EXCEPT !.ci = SubSeq(@, 1, then[k][4])]
    IN IF k > 0 THEN Continue(poscall(caught, func, then[k][3], << Bool(FALSE), v >>), SubSeq(then, k + 1, Len(then)))
       ELSE IF n.ci = << >> THEN [n EXCEPT !.status = "error"]
       ELSE Throw([n EXCEPT !.ci = Front(@)], v, frame(n).then)

-----------------------------------------------------------------------------
(* Conditions *)

\* The jump of a test: the pc is at the JMP after the instruction.
branch(n, yes) == goto(n, IF yes THEN code(n)[frame(n).pc].b ELSE frame(n).pc + 1)

\* The end of a condition: jumps if it is not what x says, 1 for false; OP_TESTSET copies.
decide(n, false, x) ==
    LET yes == (IF false THEN 1 ELSE 0) # x.when
        copied == IF yes /\ x.to # NoReg THEN setreg(n, x.to, reg(n, x.from)) ELSE n
    IN branch(copied, yes)

If(when) == [when |-> when, to |-> NoReg, from |-> NoReg]

\* l_isfalse inside depth calls of itself, and what is done with its result x. A table without
\* __eval leaves top one higher.
isfalse(n, v, depth, x) ==
    LET tm == gettmbyobj(n, v, "__eval")
        above == [n EXCEPT !.top = @ + 1]
    IN IF ~IsTable(v) THEN decide([n EXCEPT !.top = @ - depth], v \in {Nil, Bool(FALSE)}, x)
       ELSE IF tm = Nil THEN decide([above EXCEPT !.top = @ - depth], FALSE, x)
       ELSE callTMres(above, above.top, tm, v, Nil, << << "test", depth + 1, x >> >>)

\* The result of a metamethod, as a condition
callcomp(n, tm, l, r, x) == callTMres(n, n.top, tm, l, r, << << "test", 0, x >> >>)

get_compTM(n, l, r) ==
    LET tm == gettmbyobj(n, l, "__eq") IN IF gettmbyobj(n, r, "__eq") = tm THEN tm ELSE Nil

equalval(n, l, r, a) ==
    LET tm == IF IsTable(l) /\ IsTable(r) /\ l # r THEN get_compTM(n, l, r) ELSE Nil
    IN IF tm = Nil THEN decide(n, l # r, If(a)) ELSE callcomp(n, tm, l, r, If(a))

orderTM(n, l, r, event) ==
    LET tm == gettmbyobj(n, l, event) IN IF gettmbyobj(n, r, event) = tm THEN tm ELSE Nil

lessthan(n, l, r, a) ==
    LET tm == orderTM(n, l, r, "__lt")
    IN CASE IsNumber(l) /\ IsNumber(r) -> decide(n, ~(l[2] < r[2]), If(a))
         [] l[1] = r[1] /\ tm # Nil    -> callcomp(n, tm, l, r, If(a))
         [] OTHER                      -> Throw(n, Str("attempt to compare"), << >>)

lessequal(n, l, r, a) ==
    LET le == orderTM(n, l, r, "__le")
        lt == orderTM(n, r, l, "__lt")
    IN CASE IsNumber(l) /\ IsNumber(r)          -> decide(n, ~(l[2] <= r[2]), If(a))
         [] l[1] = r[1] /\ le # Nil             -> callcomp(n, le, l, r, If(a))
         [] l[1] = r[1] /\ le = Nil /\ lt # Nil -> callcomp(n, lt, r, l, If(1 - a))
         [] OTHER                               -> Throw(n, Str("attempt to compare"), << >>)

-----------------------------------------------------------------------------
(* Arithmetic and strings *)

\* A number, or a string that is one; Nil for others
tonumber(v) ==
    IF IsString(v) /\ \E k \in 0 .. 9 : ToString(k) = v[2] THEN Number(CHOOSE k \in 0 .. 9 : ToString(k) = v[2])
    ELSE IF IsNumber(v) THEN v ELSE Nil

tostring(v) == IF IsNumber(v) THEN ToString(v[2]) ELSE v[2]

Events == [ADD |-> "__add", SUB |-> "__sub", MUL |-> "__mul", MOD |-> "__mod", UNM |-> "__unm"]

Arith(n, ra, b, x, o) ==
    LET l == tonumber(b)
        r == tonumber(x)
        tm == binTM(n, b, x, Events[o])
    IN CASE l # Nil /\ r # Nil                -> setreg(n, ra, Number(Calc(o, l[2], r[2])))
         [] (l = Nil \/ r = Nil) /\ tm # Nil -> callTMres(n, frame(n).base + ra, tm, b, x, << >>)
         [] OTHER                             -> Throw(n, Str("attempt to perform arithmetic"), << >>)

joinable(v) == IsString(v) \/ IsNumber(v)

\* The registers up to last, of which there are total, are put together from the right; then
\* the result is copied from register b to a.
concat(n, total, last, i) ==
    LET top == frame(n).base + last + 1
        l == n.stack[top - 2]
        r == n.stack[top - 1]
        tm == binTM(n, l, r, "__concat")
        more == [k \in 2 .. total |-> \A j \in 1 .. k : joinable(n.stack[top - j])]
        k == Max({j \in 2 .. total : more[j]})
        joined == FoldLeft(LAMBDA s, v : s \o tostring(v), "", taken(n, top - k, top))
    IN CASE total = 1 -> setreg(n, i.a, reg(n, i.b[2]))
         [] total > 1 /\ joinable(l) /\ joinable(r) ->
              concat([n EXCEPT !.stack[top - k] = Str(joined)], total - k + 1, last - k + 1, i)
         [] total > 1 /\ ~(joinable(l) /\ joinable(r)) /\ tm # Nil ->
              callTMres(n, top - 2, tm, l, r, << << "concat", total - 1, last - 1, i >> >>)
         [] OTHER -> Throw(n, Str("attempt to concatenate"), << >>)

-----------------------------------------------------------------------------
(* What C does with the results of a function it called *)

Continue(n, then) ==
    IF then = << >> THEN n
    ELSE LET s == Head(then)
             rest == Tail(then)
             values == taken(n, s[2] + 1, n.top)
             settop == [n EXCEPT !.top = ptop(n)]
             i == s[2]
         IN CASE s[1] = "res"    -> Continue([n EXCEPT !.top = @ - 1, !.stack[s[2]] = n.stack[n.top - 1]], rest)
              [] s[1] = "test"   -> isfalse(n, n.stack[n.top], s[2], s[3])
              [] s[1] = "concat" -> concat(n, s[2], s[3], s[4])
              [] s[1] = "pcall"  -> Continue(poscall(n, s[2], s[3], << Bool(TRUE) >> \o values), rest)
              [] s[1] = "settop" -> Continue(settop, rest)
              [] s[1] = "for"    -> LET going == reg(n, i.a + 3) # Nil
                                    IN branch(IF going THEN setreg(settop, i.a + 2, reg(n, i.a + 3)) ELSE settop, going)

-----------------------------------------------------------------------------
(* The instructions *)

I == code(m)[frame(m).pc]

\* The state with the pc after the instruction, and the places of its register a
Now == goto(m, frame(m).pc + 1)
RA  == frame(m).base + I.a

At(ops) == m.status = "running" /\ I.op \in ops /\ UNCHANGED << script, compiled >>

Env == TableAt(1)

Move == At({"MOVE"}) /\ m' = setreg(Now, I.a, reg(m, I.b))

LoadK == At({"LOADK"}) /\ m' = setreg(Now, I.a, I.b)

LoadBool == At({"LOADBOOL"}) /\ m' = goto(setreg(m, I.a, Bool(I.b)), frame(m).pc + 1 + I.c)

LoadNil == At({"LOADNIL"}) /\ m' = put(Now, RA, nils(I.b - I.a + 1))

GetUpval == At({"GETUPVAL"}) /\ m' = setreg(Now, I.a, upvalue(m, m.cls[frame(m).cl].upvals[I.b + 1]))

SetUpval == At({"SETUPVAL"}) /\ m' = setupval(Now, m.cls[frame(m).cl].upvals[I.b + 1], reg(m, I.a))

GetGlobal == At({"GETGLOBAL"}) /\ m' = gettable(Now, Env, Str(I.b), RA, MaxTagLoop)

SetGlobal == At({"SETGLOBAL"}) /\ m' = settable(Now, Env, Str(I.b), reg(m, I.a), MaxTagLoop)

GetTable == At({"GETTABLE"}) /\ m' = gettable(Now, reg(m, I.b), operand(m, I.c), RA, MaxTagLoop)

SetTable == At({"SETTABLE"}) /\ m' = settable(Now, reg(m, I.a), operand(m, I.b), operand(m, I.c), MaxTagLoop)

Self ==
    At({"SELF"}) /\ m' = gettable(setreg(Now, I.a + 1, reg(m, I.b)), reg(m, I.b), operand(m, I.c), RA, MaxTagLoop)

NewTable == At({"NEWTABLE"}) /\ m' = setreg(newtable(Now, << >>), I.a, TableAt(Len(m.heap) + 1))

Arithmetic == At({"ADD", "SUB", "MUL", "MOD"}) /\ m' = Arith(Now, I.a, operand(m, I.b), operand(m, I.c), I.op)

Minus == At({"UNM"}) /\ m' = Arith(Now, I.a, operand(m, I.b), operand(m, I.b), I.op)

Not ==
    /\ At({"NOT"})
    /\ LET v == reg(m, I.b)
           tm == gettmbyobj(m, v, "__not")
       IN m' = IF ~IsTable(v) THEN setreg(Now, I.a, Bool(v \in {Nil, Bool(FALSE)}))
               ELSE IF tm = Nil THEN Throw(Now, Str("attempt to use not operator on"), << >>)
               ELSE callTMres(Now, RA, tm, v, Nil, << >>)

Length ==
    /\ At({"LEN"})
    /\ LET v == operand(m, I.b)
       IN m' = CASE IsTable(v)  -> setreg(Now, I.a, Number(border(m, v[2])))
                 [] IsString(v) -> setreg(Now, I.a, Number(Len(v[2])))
                 [] OTHER       -> Throw(Now, Str("attempt to get length of"), << >>)

Concat == At({"CONCAT"}) /\ m' = concat(Now, I.c[2] - I.b[2] + 1, I.c[2], I)

Jump == At({"JMP"}) /\ m' = goto(m, I.b)

Equal == At({"EQ"}) /\ m' = equalval(Now, operand(m, I.b), operand(m, I.c), I.a)

LessThan == At({"LT"}) /\ m' = lessthan(Now, operand(m, I.b), operand(m, I.c), I.a)

LessEqual == At({"LE"}) /\ m' = lessequal(Now, operand(m, I.b), operand(m, I.c), I.a)

Test == At({"TEST"}) /\ m' = isfalse(Now, reg(m, I.a), 0, If(I.c))

TestSet == At({"TESTSET"}) /\ m' = isfalse(Now, reg(m, I.b), 0, [when |-> I.c, to |-> I.a, from |-> I.b])

\* The top of the arguments; without a number, the instruction before has set it.
argtop(b) == [Now EXCEPT !.top = IF b = 0 THEN @ ELSE RA + b]

Call == At({"CALL"}) /\ m' = precall(argtop(I.b), RA, I.c - 1, IF I.c = 0 THEN << >> ELSE << << "settop" >> >>)

\* A Lua function takes the place of the frame that calls it.
replace(n) ==
    LET called == frame(n)
        k == Len(n.ci) - 1
        caller == n.ci[k]
        closed == close(n, caller.base)
        down == put(closed, caller.func, taken(closed, called.func, n.top))
    IN [down EXCEPT !.top = caller.func + n.top - called.func,
                    !.ci = Append(Front(Front(@)), [called EXCEPT !.func = caller.func,
                                                                  !.base = caller.func + called.base - called.func,
                                                                  !.nresults = caller.nresults,
                                                                  !.then = caller.then])]

TailCall ==
    /\ At({"TAILCALL"})
    /\ LET n == precall(argtop(I.b), RA, MultRet, << >>)
       IN m' = IF Len(n.ci) > Len(m.ci) /\ frame(n).func = RA THEN replace(n) ELSE n

Return ==
    /\ At({"RETURN"})
    /\ LET f == frame(m)
           vs == taken(m, RA, IF I.b = 0 THEN m.top ELSE RA + I.b - 1)
           left == [close(m, f.base) EXCEPT !.ci = Front(@)]
       IN m' = IF Len(m.ci) = 1 THEN [left EXCEPT !.status = "done", !.results = vs]
               ELSE Continue(poscall(left, f.func, f.nresults, vs), f.then)

goeson(idx, limit, step) == IF step > 0 THEN idx <= limit ELSE limit <= idx

ForLoop ==
    /\ At({"FORLOOP"})
    /\ LET idx == reg(m, I.a)[2] + reg(m, I.a + 2)[2]
           looped == put(goto(m, I.b), RA, << Number(idx) >>)
       IN m' = IF goeson(idx, reg(m, I.a + 1)[2], reg(m, I.a + 2)[2]) THEN setreg(looped, I.a + 3, Number(idx)) ELSE Now

ForPrep ==
    /\ At({"FORPREP"})
    /\ LET v == [k \in 0 .. 2 |-> tonumber(reg(m, I.a + k))]
       IN m' = IF \E k \in 0 .. 2 : v[k] = Nil THEN Throw(Now, Str("must be a number"), << >>)
               ELSE put(goto(m, I.b), RA, << Number(v[0][2] - v[2][2]), v[1], v[2] >>)

TForLoop ==
    /\ At({"TFORLOOP"})
    /\ LET called == [put(Now, RA + 3, taken(m, RA, RA + 3)) EXCEPT !.top = RA + 6]
       IN m' = precall(called, RA + 3, I.c, << << "for", I >> >>)

SetList ==
    /\ At({"SETLIST"})
    /\ LET k == IF I.b = 0 THEN m.top - RA - 1 ELSE I.b
           first == (I.c - 1) * FieldsPerFlush
           t == reg(m, I.a)[2]
           topped == [Now EXCEPT !.top = IF I.b = 0 THEN ptop(m) ELSE @]
       IN m' = FoldLeft(LAMBDA n, j : set(n, t, Number(first + j), reg(m, I.a + j)), topped, [j \in 1 .. k |-> j])

CloseUpvals == At({"CLOSE"}) /\ m' = close(Now, RA)

\* The upvalues are those of the function that runs, or places of its frame.
MakeClosure ==
    /\ At({"CLOSURE"})
    /\ LET f == m.cls[frame(m).cl]
           nups == proto(m).protos[I.b].nups
           Capture(s, p) == IF p.op = "GETUPVAL" THEN [s EXCEPT !.us = Append(@, f.upvals[p.b + 1])]
                            ELSE LET found == findupval(s.n, frame(m).base + p.b)
                                 IN [n |-> found.n, us |-> Append(s.us, found.u)]
           all == FoldLeft(Capture, [n |-> goto(m, frame(m).pc + 1 + nups), us |-> << >>],
                           SubSeq(code(m), frame(m).pc + 1, frame(m).pc + nups))
           made == [all.n EXCEPT !.cls = Append(@, [p |-> Append(f.p, I.b), upvals |-> all.us, native |-> ""])]
       IN m' = setreg(made, I.a, Function(Len(made.cls)))

VarArg ==
    /\ At({"VARARG"})
    /\ LET k == frame(m).base - frame(m).func - proto(m).numparams - 1
           extra == taken(m, frame(m).base - k, frame(m).base)
           wanted == IF I.b = 0 THEN k ELSE I.b - 1
           given == put(Now, RA, [j \in 1 .. wanted |-> IF j <= k THEN extra[j] ELSE Nil])
       IN m' = IF I.b = 0 THEN [given EXCEPT !.top = RA + k] ELSE given

-----------------------------------------------------------------------------
Natives == << "type", "setmetatable", "error", "pcall" >>

\* The script is called with the natives as globals and the global _G.
Machine ==
    [stack |-> [i \in 0 .. StackSize - 1 |-> IF i = 0 THEN Function(Len(Natives) + 1) ELSE Nil], top |-> 1, ci |-> << >>,
     heap |-> << [map |-> [k \in {Str(Natives[i]) : i \in DOMAIN Natives} |-> Function(SelectInSeq(Natives, LAMBDA x : x = k[2]))]
                         @@ (Str("_G") :> TableAt(1)), meta |-> 0] >>,
     cls |-> [i \in DOMAIN Natives |-> [p |-> << >>, upvals |-> << >>, native |-> Natives[i]]]
             \o << [p |-> << >>, upvals |-> << >>, native |-> ""] >>,
     upv |-> << >>, status |-> "running", results |-> << >>]

Init ==
    /\ script \in Scripts
    /\ compiled = Compile(Tokens(script))
    /\ m = enter(Machine, 0, MultRet, << >>)

Next ==
    \/ Move \/ LoadK \/ LoadBool \/ LoadNil \/ GetUpval \/ SetUpval \/ GetGlobal \/ SetGlobal \/ GetTable \/ SetTable
    \/ Self \/ NewTable \/ Arithmetic \/ Minus \/ Not \/ Length \/ Concat \/ Jump \/ Equal \/ LessThan \/ LessEqual
    \/ Test \/ TestSet \/ Call \/ TailCall \/ Return \/ ForLoop \/ ForPrep \/ TForLoop \/ SetList \/ CloseUpvals
    \/ MakeClosure \/ VarArg

Spec == Init /\ [][Next]_vars

-----------------------------------------------------------------------------
(* Properties *)

\* What the parser asserts when it closes a function (lparser.cpp:374), and its assertions on
\* registers, blocks and jumps on the way.
CodeIsWellFormed ==
    m = enter(Machine, 0, MultRet, << >>) => compiled.ok /\ ~compiled.err /\ WellFormed(compiled.proto)

\* lvm.cpp:415: lua_assert(L->top == L->ci->top || luaG_checkopenop(i)): between instructions
\* the top of the stack is that of the frame, unless an open list of values is on it. A table
\* without __eval in a condition breaks it: l_isfalse (lvm.cpp:312) leaves the top one higher.
TopIsKept == m.status = "running" => m.top = ptop(m) \/ luaG_checkopenop(I)
=============================================================================
