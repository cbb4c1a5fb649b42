------------------------------ MODULE LuaCode ------------------------------
(***************************************************************************)
(* The compiler of the Lua interpreter meique runs its scripts in: the     *)
(* parser (lparser.cpp) and the code generator (lcode.cpp), one pass from  *)
(* tokens to instructions, with meique's own call without parentheses,     *)
(* a:b:c() for a:b():c().                                                  *)
(*                                                                         *)
(* The operators have the names of the functions they stand for. A state c *)
(* of the compiler has                                                     *)
(*   toks     the tokens that are not read yet, << kind, value >>          *)
(*   fs, up   the FuncState of the function that is compiled and those of  *)
(*            the functions around it                                      *)
(*   e, n     the expdesc and the number a function of the parser gives    *)
(*            back through its pointers                                    *)
(*   err      a syntax error was met: the rest is not read                 *)
(*   ok       every lua_assert met so far held                             *)
(*                                                                         *)
(* An expdesc has its lists of jumps t and f as sets of positions of jumps *)
(* in the code. Constants are in the instructions: an operand that is a    *)
(* register or a constant is << "R", register >> or << "K", constant >>.   *)
(* Lines, names for debugging, size hints of tables and the limits of the  *)
(* sizes (200 local variables, 250 registers...) are left out.             *)
(***************************************************************************)
EXTENDS Integers, Sequences, FiniteSets
LOCAL INSTANCE SequencesExt
LOCAL INSTANCE FiniteSetsExt

CONSTANT FieldsPerFlush      \* LFIELDS_PER_FLUSH

ASSUME FlushAssumption == FieldsPerFlush \in Nat \ {0}

NoReg   == -1
MultRet == -1
NoJump  == 0

Nil       == << "nil" >>
Bool(b)   == << "boolean", b >>
Number(n) == << "number", n >>

Exp(k, info) == [k |-> k, info |-> info, aux |-> 0, t |-> {}, f |-> {}]

NewFuncState ==
    [code |-> << >>, lasttarget |-> 0, jpc |-> {}, freereg |-> 0, maxstack |-> 2, actvar |-> << >>,
     newvar |-> << >>, upvalues |-> << >>, protos |-> << >>, bl |-> << >>, numparams |-> 0,
     isvararg |-> FALSE, hasarg |-> FALSE, needsarg |-> FALSE]

Start(toks) ==
    [toks |-> toks, fs |-> [NewFuncState EXCEPT !.isvararg = TRUE], up |-> << >>,
     e |-> Exp("VVOID", 0), n |-> 0, err |-> FALSE, ok |-> TRUE]

Token(c)       == IF c.toks = << >> THEN "<eof>" ELSE c.toks[1][1]
On(c, e)       == [c EXCEPT !.e = e]
Set(c, k, i)   == [c EXCEPT !.e.k = k, !.e.info = i]
Asserting(c, p)   == [c EXCEPT !.ok = @ /\ p]
Fail(c)        == [c EXCEPT !.err = TRUE, !.toks = << >>]
Instr(o, a, b, x) == [op |-> o, a |-> a, b |-> b, c |-> x]

nactvar(c)  == Len(c.fs.actvar)
here(c)     == Len(c.fs.code) + 1      \* fs->pc
hasjumps(e) == e.t # e.f
isnumeral(e) == e.k = "VKNUM" /\ e.t = {} /\ e.f = {}
hasmultret(e) == e.k \in {"VCALL", "VVARARG"}

luaX_next(c)     == [c EXCEPT !.toks = IF @ = << >> THEN @ ELSE Tail(@)]
check(c, kind)     == IF Token(c) = kind THEN c ELSE Fail(c)
checknext(c, kind) == IF Token(c) = kind THEN luaX_next(c) ELSE Fail(c)
testnext(c, kind)  == IF Token(c) = kind THEN luaX_next(c) ELSE c
Name(c)            == IF Token(c) = "name" THEN c.toks[1][2] ELSE ""

-----------------------------------------------------------------------------
(* lcode.cpp: jumps *)

TestModes == {"EQ", "LT", "LE", "TEST", "TESTSET", "TFORLOOP"}

getjumpcontrol(c, j) == IF j > 1 /\ c.fs.code[j - 1].op \in TestModes THEN j - 1 ELSE j

need_value(c, list) == \E j \in list : c.fs.code[getjumpcontrol(c, j)].op # "TESTSET"

patchtestreg(i, reg) ==
    IF reg # NoReg /\ reg # i.b THEN [i EXCEPT !.a = reg] ELSE Instr("TEST", i.b, 0, i.c)

\* Those of the jumps that produce a value: OP_TESTSET is before them.
valuejumps(c, list) == {j \in list : c.fs.code[getjumpcontrol(c, j)].op = "TESTSET"}

removevalues(c, list) ==
    LET values == valuejumps(c, list)
    IN [c EXCEPT !.fs.code = [p \in DOMAIN @ |-> IF p + 1 \in values THEN patchtestreg(@[p], NoReg) ELSE @[p]]]

patchlistaux(c, list, vtarget, reg, dtarget) ==
    LET values == valuejumps(c, list)
        Patched(p, i) == IF p \in values THEN [i EXCEPT !.b = vtarget]
                         ELSE IF p \in list THEN [i EXCEPT !.b = dtarget]
                         ELSE IF p + 1 \in values THEN patchtestreg(i, reg)
                         ELSE i
    IN [c EXCEPT !.fs.code = [p \in DOMAIN @ |-> Patched(p, @[p])]]

dischargejpc(c) == [patchlistaux(c, c.fs.jpc, here(c), NoReg, here(c)) EXCEPT !.fs.jpc = {}]

luaK_getlabel(c) == [c EXCEPT !.fs.lasttarget = here(c)]

luaK_patchtohere(c, list) == [luaK_getlabel(c) EXCEPT !.fs.jpc = @ \cup list]

luaK_patchlist(c, list, target) ==
    IF target = here(c) THEN luaK_patchtohere(c, list)
    ELSE patchlistaux(Asserting(c, target < here(c)), list, target, NoReg, target)

luaK_code(c, i) == LET d == dischargejpc(c) IN [d EXCEPT !.fs.code = Append(@, i)]

luaK_codeABC(c, o, a, b, x) == luaK_code(c, Instr(o, a, b, x))

\* luaK_jump, and the list it gives back: the jump, and those that were to come here
luaK_jump(c) == luaK_code([c EXCEPT !.fs.jpc = {}], Instr("JMP", 0, NoJump, 0))
jumplist(c)  == {here(c)} \cup c.fs.jpc

condjump(c, o, a, b, x) == luaK_jump(luaK_codeABC(c, o, a, b, x))

luaK_ret(c, first, nret) == luaK_codeABC(c, "RETURN", first, nret + 1, 0)

\* LOADNIL of n registers; what is still clean, or next to the LOADNIL before, needs no
\* instruction of its own.
luaK_nil(c, from, n) ==
    LET p == Len(c.fs.code)
        free == here(c) > c.fs.lasttarget
        joins == /\ free /\ p > 0 /\ c.fs.code[p].op = "LOADNIL"
                 /\ c.fs.code[p].a <= from /\ from <= c.fs.code[p].b + 1
    IN IF free /\ p = 0 /\ from >= nactvar(c) THEN c
       ELSE IF joins THEN [c EXCEPT !.fs.code[p].b = Max({@, from + n - 1})]
       ELSE luaK_codeABC(c, "LOADNIL", from, from + n - 1, 0)

-----------------------------------------------------------------------------
(* lcode.cpp: registers and expressions *)

\* Fault: the size of the frame is that of the last call.
checklaststack(c, n) == [c EXCEPT !.fs.maxstack = c.fs.freereg + n]

luaK_checkstack(c, n) == [c EXCEPT !.fs.maxstack = Max({@, c.fs.freereg + n})]

luaK_reserveregs(c, n) == [luaK_checkstack(c, n) EXCEPT !.fs.freereg = @ + n]

freereg(c, reg) ==
    IF reg >= nactvar(c) THEN [Asserting(c, reg = c.fs.freereg - 1) EXCEPT !.fs.freereg = @ - 1] ELSE c

freeexp(c, e) == IF e.k = "VNONRELOC" THEN freereg(c, e.info) ELSE c

\* The operand an expression has become
RK(e) == IF e.k = "VK" THEN << "K", e.info >> ELSE << "R", e.info >>
freeRK(c, rk) == IF rk[1] = "R" THEN freereg(c, rk[2]) ELSE c

Relocable(c, o, b, x) ==
    LET d == luaK_codeABC(c, o, 0, b, x) IN Set(d, "VRELOCABLE", Len(d.fs.code))

luaK_setreturns(c, nresults) ==
    CASE c.e.k = "VCALL"   -> [c EXCEPT !.fs.code[c.e.info].c = nresults + 1]
      [] c.e.k = "VVARARG" -> luaK_reserveregs([c EXCEPT !.fs.code[c.e.info].b = nresults + 1,
                                                         !.fs.code[c.e.info].a = c.fs.freereg], 1)
      [] OTHER             -> c

luaK_setoneret(c) ==
    CASE c.e.k = "VCALL"   -> Set(c, "VNONRELOC", c.fs.code[c.e.info].a)
      [] c.e.k = "VVARARG" -> [c EXCEPT !.fs.code[c.e.info].b = 2, !.e.k = "VRELOCABLE"]
      [] OTHER             -> c

luaK_dischargevars(c) ==
    CASE c.e.k = "VLOCAL"   -> [c EXCEPT !.e.k = "VNONRELOC"]
      [] c.e.k = "VUPVAL"   -> Relocable(c, "GETUPVAL", c.e.info, 0)
      [] c.e.k = "VGLOBAL"  -> Relocable(c, "GETGLOBAL", c.e.info, 0)
      [] c.e.k = "VINDEXED" -> Relocable(freereg(freeRK(c, c.e.aux), c.e.info), "GETTABLE", c.e.info, c.e.aux)
      [] OTHER              -> luaK_setoneret(c)

discharge2reg(c, reg) ==
    LET d == luaK_dischargevars(c)
        coded == CASE d.e.k = "VNIL" -> luaK_nil(d, reg, 1)
                   [] d.e.k \in {"VFALSE", "VTRUE"} -> luaK_codeABC(d, "LOADBOOL", reg, d.e.k = "VTRUE", 0)
                   [] d.e.k \in {"VK", "VKNUM"} -> luaK_codeABC(d, "LOADK", reg, d.e.info, 0)
                   [] d.e.k = "VRELOCABLE" -> [d EXCEPT !.fs.code[d.e.info].a = reg]
                   [] d.e.k = "VNONRELOC" -> IF reg # d.e.info THEN luaK_codeABC(d, "MOVE", reg, d.e.info, 0) ELSE d
                   [] OTHER -> d
    IN IF d.e.k \in {"VVOID", "VJMP"} THEN d ELSE Set(coded, "VNONRELOC", reg)

discharge2anyreg(c) ==
    IF c.e.k = "VNONRELOC" THEN c
    ELSE LET d == luaK_reserveregs(c, 1) IN discharge2reg(d, d.fs.freereg - 1)

\* The values of jumps that produce none: LOADBOOL false, that skips the next, LOADBOOL true
loadbools(c, reg) ==
    LET d == IF c.e.k = "VJMP" THEN c ELSE luaK_jump(c)
        p == luaK_codeABC(luaK_getlabel(d), "LOADBOOL", reg, FALSE, 1)
        q == luaK_codeABC(luaK_getlabel(p), "LOADBOOL", reg, TRUE, 0)
    IN luaK_patchtohere(q, IF c.e.k = "VJMP" THEN {} ELSE jumplist(c))

exp2reg(c, reg) ==
    LET d == discharge2reg(c, reg)
        e == IF d.e.k = "VJMP" THEN [d.e EXCEPT !.t = @ \cup d.e.info] ELSE d.e
        needs == need_value(d, e.t) \/ need_value(d, e.f)
        g == IF needs THEN loadbools(d, reg) ELSE d
        pf == Len(g.fs.code) - 1
        final == here(g)
        patched == patchlistaux(patchlistaux(luaK_getlabel(g), e.f, final, reg, pf), e.t, final, reg, pf + 1)
    IN On(IF hasjumps(e) THEN patched ELSE d, Exp("VNONRELOC", reg))

luaK_exp2nextreg(c) ==
    LET d == luaK_dischargevars(c)
        r == luaK_reserveregs(freeexp(d, d.e), 1)
    IN exp2reg(r, r.fs.freereg - 1)

luaK_exp2anyreg(c) ==
    LET d == luaK_dischargevars(c)
    IN IF d.e.k = "VNONRELOC" /\ ~hasjumps(d.e) THEN d
       ELSE IF d.e.k = "VNONRELOC" /\ d.e.info >= nactvar(d) THEN exp2reg(d, d.e.info)
       ELSE luaK_exp2nextreg(d)

luaK_exp2val(c) == IF hasjumps(c.e) THEN luaK_exp2anyreg(c) ELSE luaK_dischargevars(c)

luaK_exp2RK(c) ==
    LET d == luaK_exp2val(c)
    IN CASE d.e.k \in {"VKNUM", "VK"} -> Set(d, "VK", d.e.info)
         [] d.e.k \in {"VTRUE", "VFALSE"} -> Set(d, "VK", Bool(d.e.k = "VTRUE"))
         [] d.e.k = "VNIL" -> Set(d, "VK", Nil)
         [] OTHER -> luaK_exp2anyreg(d)

\* The value c.e is stored in the variable var.
luaK_storevar(c, var) ==
    CASE var.k = "VLOCAL" -> exp2reg(freeexp(c, c.e), var.info)
      [] var.k = "VUPVAL" -> LET d == luaK_exp2anyreg(c)
                             IN freeexp(luaK_codeABC(d, "SETUPVAL", d.e.info, var.info, 0), d.e)
      [] var.k = "VGLOBAL" -> LET d == luaK_exp2anyreg(c)
                              IN freeexp(luaK_codeABC(d, "SETGLOBAL", d.e.info, var.info, 0), d.e)
      [] var.k = "VINDEXED" -> LET d == luaK_exp2RK(c)
                               IN freeexp(luaK_codeABC(d, "SETTABLE", var.info, var.aux, RK(d.e)), d.e)

luaK_self(c, key) ==
    LET d == luaK_exp2anyreg(c)
        f == freeexp(d, d.e)
        r == luaK_reserveregs(f, 2)
    IN Set(luaK_codeABC(r, "SELF", f.fs.freereg, d.e.info, << "K", key >>), "VNONRELOC", f.fs.freereg)

\* The jumps of a comparison: the instruction that is tested is before the last of them.
invertjump(c) ==
    LET p == getjumpcontrol(c, Max(c.e.info))
    IN [Asserting(c, c.fs.code[p].op \in {"EQ", "LT", "LE"}) EXCEPT !.fs.code[p].a = 1 - @]

\* Gives the state; the list of the jump is jumplist of the state just before it.
jumponcond(c, goes) ==
    IF c.e.k = "VRELOCABLE" /\ c.fs.code[c.e.info].op = "NOT"
    THEN luaK_codeABC([c EXCEPT !.fs.code = Front(@)], "TEST", c.fs.code[c.e.info].b, 0, 1 - goes)
    ELSE LET d == discharge2anyreg(c)
         IN luaK_codeABC(freeexp(d, d.e), "TESTSET", NoReg, d.e.info, goes)

luaK_goiftrue(c) ==
    LET d == luaK_dischargevars(c)
        tested == CASE d.e.k = "VJMP" -> invertjump(d)
                    [] d.e.k \in {"VK", "VKNUM", "VTRUE", "VFALSE"} -> d
                    [] OTHER -> jumponcond(d, 0)
        list == CASE d.e.k = "VJMP" -> d.e.info
                  [] d.e.k \in {"VK", "VKNUM", "VTRUE"} -> {}
                  [] OTHER -> jumplist(tested)
        g == IF d.e.k \in {"VJMP", "VK", "VKNUM", "VTRUE"} THEN tested ELSE luaK_jump(tested)
    IN On(luaK_patchtohere(g, d.e.t), [g.e EXCEPT !.f = @ \cup list, !.t = {}])

luaK_goiffalse(c) ==
    LET d == luaK_dischargevars(c)
        tested == IF d.e.k \in {"VJMP", "VNIL", "VFALSE", "VTRUE"} THEN d ELSE jumponcond(d, 1)
        list == CASE d.e.k = "VJMP" -> d.e.info
                  [] d.e.k \in {"VNIL", "VFALSE"} -> {}
                  [] OTHER -> jumplist(tested)
        g == IF d.e.k \in {"VJMP", "VNIL", "VFALSE"} THEN tested ELSE luaK_jump(tested)
    IN On(luaK_patchtohere(g, d.e.f), [g.e EXCEPT !.t = @ \cup list, !.f = {}])

codenot(c) ==
    LET d == luaK_dischargevars(c)
        r == discharge2anyreg(d)
        g == CASE d.e.k \in {"VNIL", "VFALSE"} -> [d EXCEPT !.e.k = "VTRUE"]
               [] d.e.k \in {"VK", "VKNUM", "VTRUE"} -> [d EXCEPT !.e.k = "VFALSE"]
               [] d.e.k = "VJMP" -> invertjump(d)
               [] OTHER -> Relocable(freeexp(r, r.e), "NOT", r.e.info, 0)
    IN removevalues([g EXCEPT !.e.t = g.e.f, !.e.f = g.e.t], g.e.t \cup g.e.f)

-----------------------------------------------------------------------------
(* lcode.cpp: operators *)

ArithOps == [x \in {"+", "-", "*", "%"} |->
    CASE x = "+" -> "ADD" [] x = "-" -> "SUB" [] x = "*" -> "MUL" [] x = "%" -> "MOD"]

Calc(o, x, y) ==
    CASE o = "ADD" -> x + y [] o = "SUB" -> x - y [] o = "MUL" -> x * y [] o = "MOD" -> x % y [] o = "UNM" -> -x

constfolds(o, e1, e2) ==
    /\ isnumeral(e1) /\ isnumeral(e2) /\ o \notin {"LEN", "CONCAT"}
    /\ o = "MOD" => e2.info[2] # 0

\* c.e is the second operand, e1 the first; of two registers the higher one is freed first.
codearith(c, o, e1) ==
    IF constfolds(o, e1, c.e) THEN On(c, [e1 EXCEPT !.info = Number(Calc(o, e1.info[2], c.e.info[2]))])
    ELSE LET c2 == IF o \in {"UNM", "LEN"} THEN c ELSE luaK_exp2RK(c)
             c1 == luaK_exp2RK(On(c2, e1))
             both == c1.e.k = "VNONRELOC" /\ c2.e.k = "VNONRELOC"
             freed == IF both /\ c1.e.info > c2.e.info THEN freeexp(freeexp(c1, c1.e), c2.e)
                      ELSE freeexp(freeexp(c1, c2.e), c1.e)
         IN Relocable(freed, o, RK(c1.e), IF o \in {"UNM", "LEN"} THEN 0 ELSE RK(c2.e))

codecomp(c, o, goes, e1) ==
    LET c1 == luaK_exp2RK(On(c, e1))
        c2 == luaK_exp2RK(On(c1, c.e))
        d == On(freeexp(freeexp(c2, c2.e), c1.e), c1.e)
        swap == goes = 0 /\ o # "EQ"
        tested == luaK_codeABC(d, o, IF swap THEN 1 ELSE goes, RK(IF swap THEN c2.e ELSE c1.e),
                               RK(IF swap THEN c1.e ELSE c2.e))
    IN Set(luaK_jump(tested), "VJMP", jumplist(tested))

luaK_prefix(c, o) ==
    LET zero == Exp("VKNUM", Number(0))
    IN CASE o = "-" -> LET d == IF isnumeral(c.e) THEN c ELSE luaK_exp2anyreg(c)
                       IN codearith(On(d, zero), "UNM", d.e)
         [] o = "not" -> codenot(c)
         [] o = "#" -> LET d == luaK_exp2anyreg(c) IN codearith(On(d, zero), "LEN", d.e)

luaK_infix(c, o) ==
    CASE o = "and" -> luaK_goiftrue(c)
      [] o = "or" -> luaK_goiffalse(c)
      [] o = ".." -> luaK_exp2nextreg(c)
      [] o \in DOMAIN ArithOps -> IF isnumeral(c.e) THEN c ELSE luaK_exp2RK(c)
      [] OTHER -> luaK_exp2RK(c)

concatposfix(c, e1) ==
    LET d == luaK_exp2val(c)
    IN IF d.e.k = "VRELOCABLE" /\ d.fs.code[d.e.info].op = "CONCAT"
       THEN LET g == freeexp(Asserting(d, e1.info = d.fs.code[d.e.info].b[2] - 1), e1)
            IN [g EXCEPT !.fs.code[d.e.info].b = << "R", e1.info >>, !.e = [e1 EXCEPT !.k = "VRELOCABLE", !.info = d.e.info]]
       ELSE codearith(luaK_exp2nextreg(d), "CONCAT", e1)

luaK_posfix(c, o, e1) ==
    LET d == luaK_dischargevars(c)
    IN CASE o = "and" -> [Asserting(d, e1.t = {}) EXCEPT !.e.f = @ \cup e1.f]
         [] o = "or"  -> [Asserting(d, e1.f = {}) EXCEPT !.e.t = @ \cup e1.t]
         [] o = ".."  -> concatposfix(c, e1)
         [] o = "=="  -> codecomp(c, "EQ", 1, e1)
         [] o = "~="  -> codecomp(c, "EQ", 0, e1)
         [] o = "<"   -> codecomp(c, "LT", 1, e1)
         [] o = "<="  -> codecomp(c, "LE", 1, e1)
         [] o = ">"   -> codecomp(c, "LT", 0, e1)
         [] o = ">="  -> codecomp(c, "LE", 0, e1)
         [] OTHER     -> codearith(c, ArithOps[o], e1)

luaK_setlist(c, base, nelems, tostore) ==
    LET n == IF tostore = MultRet THEN 0 ELSE tostore
        d == luaK_codeABC(Asserting(c, tostore # 0), "SETLIST", base, n, (nelems - 1) \div FieldsPerFlush + 1)
    IN [d EXCEPT !.fs.freereg = base + 1]
=============================================================================
