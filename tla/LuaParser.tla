----------------------------- MODULE LuaParser -----------------------------
(***************************************************************************)
(* The parser of the Lua interpreter (lparser.cpp): recursive descent over *)
(* the tokens, calling the code generator of LuaCode as it goes. All of    *)
(* the grammar is here; that a call must begin on the line its function    *)
(* ends on is left out with the lines.                                     *)
(***************************************************************************)
EXTENDS LuaCode
LOCAL INSTANCE SequencesExt
LOCAL INSTANCE FiniteSetsExt

RECURSIVE singlevaraux(_, _, _), subexpr(_, _), operators(_, _), suffixes(_), items(_, _), moreexprs(_, _),
          moreparams(_), moretargets(_, _), storeall(_, _), elseparts(_, _), morenames(_, _), chunk(_), fields(_)

-----------------------------------------------------------------------------
(* Variables and blocks *)

new_localvar(c, name) == [c EXCEPT !.fs.newvar = Append(@, name)]

adjustlocalvars(c, nvars) ==
    [c EXCEPT !.fs.actvar = @ \o SubSeq(c.fs.newvar, 1, nvars),
              !.fs.newvar = SubSeq(@, nvars + 1, Len(@))]

removevars(c, tolevel) == [c EXCEPT !.fs.actvar = SubSeq(@, 1, tolevel)]

\* The register of a name, -1 if fs has no such variable
searchvar(fs, name) == Max({i \in 1 .. Len(fs.actvar) : fs.actvar[i] = name} \cup {0}) - 1

markupval(fs, level) ==
    LET around == {i \in 1 .. Len(fs.bl) : fs.bl[i].nactvar <= level}
    IN IF around = {} THEN fs ELSE [fs EXCEPT !.bl[Max(around)].upval = TRUE]

\* The FuncState with the upvalue v, << kind, place >>
indexupvalue(fs, v) == IF Contains(fs.upvalues, v) THEN fs ELSE [fs EXCEPT !.upvalues = Append(@, v)]

indexof(fs, v) == SelectInSeq(fs.upvalues, LAMBDA u : u = v) - 1

\* fss: the FuncStates from the outermost on
singlevaraux(fss, name, base) ==
    IF fss = << >> THEN [fss |-> fss, k |-> "VGLOBAL", info |-> name]
    ELSE LET fs == Last(fss)
             v == searchvar(fs, name)
             outer == singlevaraux(Front(fss), name, FALSE)
             with == indexupvalue(fs, << outer.k, outer.info >>)
         IN IF v >= 0
            THEN [fss |-> IF base THEN fss ELSE Append(Front(fss), markupval(fs, v)), k |-> "VLOCAL", info |-> v]
            ELSE IF outer.k = "VGLOBAL" THEN [fss |-> fss, k |-> "VGLOBAL", info |-> name]
            ELSE [fss |-> Append(outer.fss, with), k |-> "VUPVAL", info |-> indexof(with, << outer.k, outer.info >>)]

singlevar(c) ==
    LET found == singlevaraux(Append(c.up, c.fs), Name(c), TRUE)
    IN [luaX_next(check(c, "name")) EXCEPT !.up = Front(found.fss), !.fs = Last(found.fss),
                                           !.e = Exp(found.k, found.info)]

adjust_assign(c, nvars, nexps) ==
    LET extra == nvars - nexps
        open == Max({extra + 1, 0})
        set == luaK_setreturns(c, open)
        closed == IF c.e.k = "VVOID" THEN c ELSE luaK_exp2nextreg(c)
    IN IF hasmultret(c.e) THEN (IF open > 1 THEN luaK_reserveregs(set, open - 1) ELSE set)
       ELSE IF extra > 0 THEN luaK_nil(luaK_reserveregs(closed, extra), closed.fs.freereg, extra)
       ELSE closed

enterblock(c, isbreakable) ==
    [Asserting(c, c.fs.freereg = nactvar(c))
        EXCEPT !.fs.bl = Append(@, [breaks |-> {}, loop |-> isbreakable, nactvar |-> nactvar(c), upval |-> FALSE])]

leaveblock(c) ==
    LET bl == Last(c.fs.bl)
        d == removevars([c EXCEPT !.fs.bl = Front(@)], bl.nactvar)
        closed == IF bl.upval THEN luaK_codeABC(d, "CLOSE", bl.nactvar, 0, 0) ELSE d
    IN luaK_patchtohere([Asserting(closed, ~(bl.loop /\ bl.upval)) EXCEPT !.fs.freereg = nactvar(closed)], bl.breaks)

open_func(c) == [c EXCEPT !.up = Append(@, c.fs), !.fs = NewFuncState]

\* The Proto of fs
Proto(fs) ==
    [code |-> fs.code, numparams |-> fs.numparams, maxstack |-> fs.maxstack, protos |-> fs.protos,
     nups |-> Len(fs.upvalues), isvararg |-> fs.isvararg, hasarg |-> fs.hasarg, needsarg |-> fs.needsarg]

close_func(c) == luaK_ret(removevars(c, 0), 0, 0)

pushclosure(c, func) ==
    LET d == [c EXCEPT !.fs.protos = Append(@, Proto(func))]
        g == Relocable(On(d, Exp("VVOID", 0)), "CLOSURE", Len(d.fs.protos), 0)
        pseudo == [i \in 1 .. Len(func.upvalues) |->
                     Instr(IF func.upvalues[i][1] = "VLOCAL" THEN "MOVE" ELSE "GETUPVAL", 0, func.upvalues[i][2], 0)]
    IN [g EXCEPT !.fs.code = @ \o pseudo]

-----------------------------------------------------------------------------
(* Expressions *)

expr(c) == subexpr(c, 0)

luaK_indexed(c, t) == LET d == luaK_exp2RK(c) IN On(d, [t EXCEPT !.k = "VINDEXED", !.aux = RK(d.e)])

str_checkname(c) == luaX_next(check(c, "name"))

field(c) ==
    LET d == luaK_exp2anyreg(c)
        n == luaX_next(d)
    IN luaK_indexed(On(str_checkname(n), Exp("VK", << "string", Name(n) >>)), d.e)

yindex(c) == checknext(luaK_exp2val(expr(luaX_next(c))), "]")

moreexprs(c, n) ==
    IF Token(c) = "," THEN moreexprs(expr(luaX_next(luaK_exp2nextreg(c))), n + 1) ELSE [c EXCEPT !.n = n]

explist1(c) == moreexprs(expr(c), 1)

recfield(c, t) ==
    LET key == IF Token(c) = "name" THEN On(str_checkname(c), Exp("VK", << "string", Name(c) >>)) ELSE yindex(c)
        k == luaK_exp2RK(checknext(key, "="))
        v == luaK_exp2RK(expr(k))
    IN [luaK_codeABC(v, "SETTABLE", t, RK(k.e), RK(v.e)) EXCEPT !.fs.freereg = c.fs.freereg]

\* ConsControl: t is the register of the table, v the last item, of na, tostore not stored yet
closelistfield(c, cc) ==
    LET d == luaK_exp2nextreg(On(c, cc.v))
    IN IF cc.v.k = "VVOID" THEN [c |-> c, cc |-> cc]
       ELSE IF cc.tostore = FieldsPerFlush
       THEN [c |-> luaK_setlist(d, cc.t, cc.na, cc.tostore), cc |-> [cc EXCEPT !.v = Exp("VVOID", 0), !.tostore = 0]]
       ELSE [c |-> d, cc |-> [cc EXCEPT !.v = Exp("VVOID", 0)]]

lastlistfield(c, cc) ==
    LET d == On(c, cc.v)
        closed == IF cc.v.k = "VVOID" THEN d ELSE luaK_exp2nextreg(d)
    IN IF cc.tostore = 0 THEN c
       ELSE IF hasmultret(cc.v) THEN luaK_setlist(luaK_setreturns(d, MultRet), cc.t, cc.na, MultRet)
       ELSE luaK_setlist(closed, cc.t, cc.na, cc.tostore)

isrecord(c) == Token(c) = "[" \/ (Token(c) = "name" /\ Len(c.toks) > 1 /\ c.toks[2][1] = "=")

items(c, cc) ==
    LET k == closelistfield(c, cc)
        d == IF isrecord(c) THEN recfield(k.c, cc.t) ELSE expr(k.c)
        now == IF isrecord(c) THEN k.cc ELSE [k.cc EXCEPT !.v = d.e, !.na = @ + 1, !.tostore = @ + 1]
    IN IF Token(c) = "}" THEN lastlistfield(luaX_next(c), cc)
       ELSE IF Token(d) \in {",", ";"} THEN items(luaX_next(d), now)
       ELSE lastlistfield(checknext(d, "}"), now)

constructor(c) ==
    LET t == luaK_exp2nextreg(Relocable(On(c, Exp("VVOID", 0)), "NEWTABLE", 0, 0))
        cc == [t |-> t.e.info, v |-> Exp("VVOID", 0), na |-> 0, tostore |-> 0]
    IN On(items(checknext(t, "{"), cc), t.e)

moreparams(c) ==
    CASE Token(c) = "name" ->
           LET d == new_localvar(luaX_next(c), Name(c)) IN IF Token(d) = "," THEN moreparams(luaX_next(d)) ELSE d
      [] Token(c) = "..." ->
           [new_localvar(luaX_next(c), "arg") EXCEPT !.fs.isvararg = TRUE, !.fs.hasarg = TRUE, !.fs.needsarg = TRUE]
      [] OTHER -> Fail(c)

parlist(c) ==
    LET d == IF Token(c) = ")" THEN c ELSE moreparams(c)
        a == adjustlocalvars(d, Len(d.fs.newvar))
    IN luaK_reserveregs([a EXCEPT !.fs.numparams = nactvar(a) - (IF a.fs.hasarg THEN 1 ELSE 0)], nactvar(a))

body(c, needself) ==
    LET o == checknext(open_func(c), "(")
        s == IF needself THEN adjustlocalvars(new_localvar(o, "self"), 1) ELSE o
        d == close_func(check(chunk(checknext(parlist(s), ")")), "end"))
    IN pushclosure(luaX_next([d EXCEPT !.fs = Last(d.up), !.up = Front(@)]), d.fs)

\* f is the function, in a register; its arguments come to those after it.
funcargs(c, f) ==
    LET list == luaK_setreturns(explist1(luaX_next(c)), MultRet)
        args == CASE Token(c) = "(" -> IF Token(luaX_next(c)) = ")" THEN On(luaX_next(luaX_next(c)), Exp("VVOID", 0))
                                       ELSE checknext(list, ")")
                  [] Token(c) = "{" -> constructor(c)
                  [] Token(c) = "string" -> On(luaX_next(c), Exp("VK", << "string", c.toks[1][2] >>))
                  [] Token(c) = ":" -> On(c, Exp("VVOID", 0))
                  [] OTHER -> Fail(On(c, Exp("VVOID", 0)))
        closed == IF args.e.k = "VVOID" \/ hasmultret(args.e) THEN args ELSE luaK_exp2nextreg(args)
        nparams == IF hasmultret(args.e) THEN MultRet ELSE closed.fs.freereg - (f.info + 1)
        d == luaK_codeABC(Asserting(closed, f.k = "VNONRELOC"), "CALL", f.info, nparams + 1, 2)
    IN [On(d, Exp("VCALL", Len(d.fs.code))) EXCEPT !.fs.freereg = f.info + 1]

prefixexp(c) ==
    CASE Token(c) = "("    -> luaK_dischargevars(checknext(expr(luaX_next(c)), ")"))
      [] Token(c) = "name" -> singlevar(c)
      [] OTHER             -> Fail(c)

suffixes(c) ==
    CASE Token(c) = "." -> suffixes(field(c))
      [] Token(c) = "[" -> LET d == luaK_exp2anyreg(c) IN suffixes(luaK_indexed(yindex(d), d.e))
      [] Token(c) = ":" -> LET n == luaX_next(c)
                               s == luaK_self(str_checkname(n), << "string", Name(n) >>)
                           IN suffixes(funcargs(s, s.e))
      [] Token(c) \in {"(", "string", "{"} -> LET d == luaK_exp2nextreg(c) IN suffixes(funcargs(d, d.e))
      [] OTHER -> c

primaryexp(c) == LET d == prefixexp(c) IN IF d.err THEN d ELSE suffixes(d)

simpleexp(c) ==
    LET n == luaX_next(c)
        used == luaK_codeABC([n EXCEPT !.fs.needsarg = FALSE], "VARARG", 0, 1, 0)
    IN CASE Token(c) = "number"   -> On(n, Exp("VKNUM", Number(c.toks[1][2])))
         [] Token(c) = "string"   -> On(n, Exp("VK", << "string", c.toks[1][2] >>))
         [] Token(c) = "nil"      -> On(n, Exp("VNIL", 0))
         [] Token(c) = "true"     -> On(n, Exp("VTRUE", 0))
         [] Token(c) = "false"    -> On(n, Exp("VFALSE", 0))
         [] Token(c) = "..."      -> IF c.fs.isvararg THEN On(used, Exp("VVARARG", Len(used.fs.code))) ELSE Fail(c)
         [] Token(c) = "{"        -> constructor(c)
         [] Token(c) = "function" -> body(n, FALSE)
         [] OTHER                 -> primaryexp(c)

\* Left and right priority of the binary operators
priority ==
    [o \in {"+", "-"} |-> << 6, 6 >>] @@ [o \in {"*", "%"} |-> << 7, 7 >>] @@ [o \in {".."} |-> << 5, 4 >>]
    @@ [o \in {"~=", "==", "<", "<=", ">", ">="} |-> << 3, 3 >>] @@ [o \in {"and"} |-> << 2, 2 >>]
    @@ [o \in {"or"} |-> << 1, 1 >>]

UnaryPriority == 8

\* Binary operators with a priority above limit, and their second operands
operators(c, limit) ==
    LET o == Token(c)
        d == luaK_infix(luaX_next(c), o)
    IN IF o \notin DOMAIN priority \/ priority[o][1] <= limit THEN c
       ELSE operators(luaK_posfix(subexpr(d, priority[o][2]), o, d.e), limit)

subexpr(c, limit) ==
    LET o == Token(c)
    IN operators(IF o \in {"not", "-", "#"} THEN luaK_prefix(subexpr(luaX_next(c), UnaryPriority), o) ELSE simpleexp(c),
                 limit)

-----------------------------------------------------------------------------
(* Statements *)

block_follow(c) == Token(c) \in {"else", "elseif", "end", "until", "<eof>"}

block(c) == leaveblock(chunk(enterblock(c, FALSE)))

\* Fault: a variable that is assigned to is not saved for the tables before it.
noconflict(c, lhs) == [c |-> c, lhs |-> lhs]

\* An assignment to the local variable c.e after tables that are indexed with it: they get a
\* copy.
check_conflict(c, lhs) ==
    LET v == c.e.info
        uses(e) == e.k = "VINDEXED" /\ (e.info = v \/ e.aux = << "R", v >>)
        copy(e) == IF ~uses(e) THEN e
                   ELSE [e EXCEPT !.info = IF @ = v THEN c.fs.freereg ELSE @,
                                  !.aux = IF @ = << "R", v >> THEN << "R", c.fs.freereg >> ELSE @]
        moved == luaK_reserveregs(luaK_codeABC(c, "MOVE", c.fs.freereg, v, 0), 1)
    IN IF \E i \in DOMAIN lhs : uses(lhs[i]) THEN [c |-> moved, lhs |-> [i \in DOMAIN lhs |-> copy(lhs[i])]]
       ELSE [c |-> c, lhs |-> lhs]

\* The values are in the last registers, that of the last variable on top.
storeall(c, lhs) ==
    IF lhs = << >> THEN c
    ELSE storeall(luaK_storevar(On(c, Exp("VNONRELOC", c.fs.freereg - 1)), Last(lhs)), Front(lhs))

isvariable(e) == e.k \in {"VLOCAL", "VUPVAL", "VGLOBAL", "VINDEXED"}

moretargets(c, lhs) ==
    LET d == primaryexp(luaX_next(c))
        now == IF d.e.k = "VLOCAL" THEN check_conflict(d, lhs) ELSE [c |-> d, lhs |-> lhs]
        l == explist1(checknext(c, "="))
        one == luaK_storevar(luaK_setoneret(l), Last(lhs))
        adjusted == adjust_assign(l, Len(lhs), l.n)
        trimmed == [adjusted EXCEPT !.fs.freereg = @ - Max({l.n - Len(lhs), 0})]
    IN IF ~isvariable(Last(lhs)) THEN Fail(c)
       ELSE IF Token(c) = "," THEN (IF d.err THEN d ELSE moretargets(now.c, Append(now.lhs, d.e)))
       ELSE IF l.err THEN l
       ELSE IF l.n = Len(lhs) THEN storeall(one, Front(lhs)) ELSE storeall(trimmed, lhs)

exprstat(c) ==
    LET d == primaryexp(c)
    IN IF d.err THEN d
       ELSE IF d.e.k = "VCALL" THEN [d EXCEPT !.fs.code[d.e.info].c = 1]
       ELSE moretargets(d, << d.e >>)

\* The jumps of a condition that does not hold are in c.e.f.
cond(c) == LET d == expr(c) IN luaK_goiftrue(IF d.e.k = "VNIL" THEN [d EXCEPT !.e.k = "VFALSE"] ELSE d)

breakstat(c) ==
    LET loops == {i \in 1 .. Len(c.fs.bl) : c.fs.bl[i].loop}
        k == Max(loops)
        upval == \E i \in k + 1 .. Len(c.fs.bl) : c.fs.bl[i].upval
        d == IF upval THEN luaK_codeABC(c, "CLOSE", c.fs.bl[k].nactvar, 0, 0) ELSE c
    IN IF loops = {} THEN Fail(c)
       ELSE [luaK_jump(d) EXCEPT !.fs.bl[k].breaks = @ \cup jumplist(d)]

whilestat(c) ==
    LET t == cond(luaX_next(luaK_getlabel(c)))
        b == block(checknext(enterblock(t, TRUE), "do"))
        back == luaK_patchlist(luaK_jump(b), jumplist(b), here(c))
    IN luaK_patchtohere(leaveblock(checknext(back, "end")), t.e.f)

repeatstat(c) ==
    LET inside == enterblock(enterblock(luaK_getlabel(c), TRUE), FALSE)
        t == cond(checknext(chunk(luaX_next(inside)), "until"))
        left == leaveblock(luaK_patchtohere(breakstat(t), t.e.f))
        again == IF Last(t.fs.bl).upval THEN luaK_patchlist(luaK_jump(left), jumplist(left), here(c))
                 ELSE luaK_patchlist(leaveblock(t), t.e.f, here(c))
    IN IF t.err THEN t ELSE leaveblock(again)

exp1(c) == luaK_exp2nextreg(expr(c))

forbody(c, base, nvars, isnum) ==
    LET a == checknext(adjustlocalvars(c, 3), "do")
        prepared == IF isnum THEN luaK_codeABC(a, "FORPREP", base, NoJump, 0) ELSE luaK_jump(a)
        prep == IF isnum THEN {Len(prepared.fs.code)} ELSE jumplist(a)
        o == luaK_reserveregs(adjustlocalvars(enterblock(prepared, FALSE), nvars), nvars)
        left == luaK_patchtohere(leaveblock(block(o)), prep)
        looped == IF isnum THEN luaK_codeABC(left, "FORLOOP", base, NoJump, 0)
                  ELSE luaK_jump(luaK_codeABC(left, "TFORLOOP", base, 0, nvars))
    IN luaK_patchlist(looped, {Len(looped.fs.code)}, here(prepared))

fornum(c, varname) ==
    LET base == c.fs.freereg
        vars == new_localvar(new_localvar(new_localvar(new_localvar(c, "(index)"), "(limit)"), "(step)"), varname)
        limit == exp1(checknext(exp1(checknext(vars, "=")), ","))
        step == IF Token(limit) = "," THEN exp1(luaX_next(limit))
                ELSE luaK_reserveregs(luaK_codeABC(limit, "LOADK", limit.fs.freereg, Number(1), 0), 1)
    IN forbody(step, base, 1, TRUE)

morenames(c, n) ==
    LET d == luaX_next(c)
    IN IF Token(c) = "," THEN morenames(new_localvar(str_checkname(d), Name(d)), n + 1) ELSE [c EXCEPT !.n = n]

forlist(c, varname) ==
    LET base == c.fs.freereg
        control == new_localvar(new_localvar(new_localvar(c, "(generator)"), "(state)"), "(control)")
        vars == morenames(new_localvar(control, varname), 1)
        list == explist1(checknext(vars, "in"))
    IN forbody(luaK_checkstack(adjust_assign(list, 3, list.n), 3), base, vars.n, FALSE)

forstat(c) ==
    LET n == luaX_next(enterblock(c, TRUE))
        d == str_checkname(n)
        loop == CASE Token(d) = "="          -> fornum(d, Name(n))
                  [] Token(d) \in {",", "in"} -> forlist(d, Name(n))
                  [] OTHER                    -> Fail(d)
    IN leaveblock(checknext(loop, "end"))

\* The jumps to the next part are in c.e.f.
test_then_block(c) ==
    LET t == cond(luaX_next(c)) IN On(block(checknext(t, "then")), t.e)

\* What comes after a part: escapes are the jumps over what remains.
elseparts(c, escapes) ==
    LET away == luaK_patchtohere(luaK_jump(c), c.e.f)
    IN CASE Token(c) = "elseif" -> elseparts(test_then_block(away), escapes \cup jumplist(c))
         [] Token(c) = "else" -> luaK_patchtohere(block(luaX_next(away)), escapes \cup jumplist(c))
         [] OTHER -> luaK_patchtohere(c, escapes \cup c.e.f)

ifstat(c) == checknext(elseparts(test_then_block(c), {}), "end")

localfunc(c) ==
    LET v == Exp("VLOCAL", c.fs.freereg)
        d == adjustlocalvars(luaK_reserveregs(new_localvar(str_checkname(c), Name(c)), 1), 1)
    IN luaK_storevar(body(d, FALSE), v)

localstat(c) ==
    LET vars == morenames(new_localvar(str_checkname(c), Name(c)), 1)
        list == IF Token(vars) = "=" THEN explist1(luaX_next(vars)) ELSE [On(vars, Exp("VVOID", 0)) EXCEPT !.n = 0]
    IN adjustlocalvars(adjust_assign(list, vars.n, list.n), vars.n)

fields(c) == IF Token(c) = "." THEN fields(field(c)) ELSE c

funcstat(c) ==
    LET names == fields(singlevar(luaX_next(c)))
        needself == Token(names) = ":"
        v == IF needself THEN field(names) ELSE names
    IN luaK_storevar(body(v, needself), v.e)

retstat(c) ==
    LET d == luaX_next(c)
        l == explist1(d)
        open == luaK_setreturns(l, MultRet)
        tail == l.e.k = "VCALL" /\ l.n = 1
        one == luaK_exp2anyreg(l)
    IN CASE block_follow(d) \/ Token(d) = ";" -> luaK_ret(d, 0, 0)
         [] hasmultret(l.e) /\ tail  -> luaK_ret([open EXCEPT !.fs.code[l.e.info].op = "TAILCALL"], nactvar(l), MultRet)
         [] hasmultret(l.e) /\ ~tail -> luaK_ret(open, nactvar(l), MultRet)
         [] ~hasmultret(l.e) /\ l.n = 1 -> luaK_ret(one, one.e.info, 1)
         [] OTHER -> luaK_ret(luaK_exp2nextreg(l), nactvar(l), l.n)

statement(c) ==
    CASE Token(c) = "if"       -> ifstat(c)
      [] Token(c) = "while"    -> whilestat(c)
      [] Token(c) = "do"       -> checknext(block(luaX_next(c)), "end")
      [] Token(c) = "for"      -> forstat(c)
      [] Token(c) = "repeat"   -> repeatstat(c)
      [] Token(c) = "function" -> funcstat(c)
      [] Token(c) = "local"    -> LET d == luaX_next(c)
                                  IN IF Token(d) = "function" THEN localfunc(luaX_next(d)) ELSE localstat(d)
      [] Token(c) = "return"   -> retstat(c)
      [] Token(c) = "break"    -> breakstat(luaX_next(c))
      [] OTHER                 -> exprstat(c)

chunk(c) ==
    LET d == testnext(statement(c), ";")
        kept == Asserting(d, d.fs.maxstack >= d.fs.freereg /\ d.fs.freereg >= nactvar(d))
        now == [kept EXCEPT !.fs.freereg = nactvar(d)]
    IN IF block_follow(c) THEN c
       ELSE IF Token(c) \in {"return", "break"} THEN now
       ELSE chunk(now)

luaY_parser(toks) == close_func(check(chunk(Start(toks)), "<eof>"))

\* What loading a script gives: its prototype, whether an assertion failed, whether the syntax is wrong
luaD_protectedparser(toks) ==
    LET c == luaY_parser(toks) IN [proto |-> Proto(c.fs), ok |-> c.ok, err |-> c.err]
=============================================================================
