------------------------------ MODULE LuaCheck ------------------------------
(***************************************************************************)
(* luaG_checkcode (ldebug.cpp), what the parser asserts of every function  *)
(* it compiles: that the instructions only use registers of the frame and  *)
(* upvalues the function has, that jumps stay inside the code, that a test *)
(* is before a jump and that an open list of values is used by the next    *)
(* instruction.                                                            *)
(***************************************************************************)
EXTENDS LuaParser

\* Of an instruction: is it a test, what are b and c ("R" a register, "K" a register or a
\* constant, "U" anything, "N" not used, "J" a jump)
Mode(test, b, x) == [test |-> test, b |-> b, c |-> x]

luaP_opmodes ==
    [MOVE      |-> Mode(FALSE, "R", "N"), LOADK    |-> Mode(FALSE, "U", "N"), LOADBOOL  |-> Mode(FALSE, "U", "U"),
     LOADNIL   |-> Mode(FALSE, "R", "N"), GETUPVAL |-> Mode(FALSE, "U", "N"), GETGLOBAL |-> Mode(FALSE, "U", "N"),
     GETTABLE  |-> Mode(FALSE, "R", "K"), SETUPVAL |-> Mode(FALSE, "U", "N"), SETGLOBAL |-> Mode(FALSE, "U", "N"),
     SETTABLE  |-> Mode(FALSE, "K", "K"), NEWTABLE |-> Mode(FALSE, "U", "U"), SELF      |-> Mode(FALSE, "R", "K"),
     ADD       |-> Mode(FALSE, "K", "K"), SUB      |-> Mode(FALSE, "K", "K"), MUL       |-> Mode(FALSE, "K", "K"),
     MOD       |-> Mode(FALSE, "K", "K"), UNM      |-> Mode(FALSE, "K", "N"), NOT       |-> Mode(FALSE, "R", "N"),
     LEN       |-> Mode(FALSE, "K", "N"), CONCAT   |-> Mode(FALSE, "K", "K"), JMP       |-> Mode(FALSE, "J", "N"),
     EQ        |-> Mode(TRUE, "K", "K"),  LT       |-> Mode(TRUE, "K", "K"),  LE        |-> Mode(TRUE, "K", "K"),
     TEST      |-> Mode(TRUE, "R", "U"),  TESTSET  |-> Mode(TRUE, "R", "U"),  CALL      |-> Mode(FALSE, "U", "U"),
     TAILCALL  |-> Mode(FALSE, "U", "U"), RETURN   |-> Mode(FALSE, "U", "N"), FORLOOP   |-> Mode(FALSE, "J", "N"),
     FORPREP   |-> Mode(FALSE, "J", "N"), TFORLOOP |-> Mode(TRUE, "N", "U"),  SETLIST   |-> Mode(FALSE, "U", "U"),
     CLOSE     |-> Mode(FALSE, "N", "N"), CLOSURE  |-> Mode(FALSE, "U", "N"), VARARG    |-> Mode(FALSE, "U", "N")]

checkreg(p, r) == 0 <= r /\ r < p.maxstack

checkArgMode(p, r, mode) ==
    CASE mode = "N" -> r = 0
      [] mode = "U" -> TRUE
      [] mode = "R" -> checkreg(p, r)
      [] mode = "J" -> r \in DOMAIN p.code
      [] mode = "K" -> r[1] = "K" \/ checkreg(p, r[2])

luaG_checkopenop(i) == i.op \in {"CALL", "TAILCALL", "RETURN", "SETLIST"} /\ i.b = 0

precheck(p) ==
    /\ p.numparams + (IF p.hasarg THEN 1 ELSE 0) <= p.maxstack
    /\ p.needsarg => p.hasarg
    /\ p.code[Len(p.code)].op = "RETURN"

\* b values in the registers from a on, -1: as many as there are
checkvalues(p, pc, a, n) ==
    IF n = MultRet THEN luaG_checkopenop(p.code[pc + 1]) ELSE n > 0 => checkreg(p, a + n - 1)

\* What symbexec checks of the instruction at pc
checkinstruction(p, pc) ==
    LET i == p.code[pc]
        skips == luaP_opmodes[i.op].test \/ (i.op = "LOADBOOL" /\ i.c = 1)
    IN /\ checkreg(p, i.a)
       /\ checkArgMode(p, i.b, luaP_opmodes[i.op].b)
       /\ checkArgMode(p, i.c, luaP_opmodes[i.op].c)
       /\ skips => pc + 2 <= Len(p.code)
       /\ luaP_opmodes[i.op].test => p.code[pc + 1].op = "JMP"
       /\ CASE i.op \in {"GETUPVAL", "SETUPVAL"} -> i.b < p.nups
            [] i.op = "SELF"     -> checkreg(p, i.a + 1)
            [] i.op = "CONCAT"   -> i.b[2] < i.c[2]
            [] i.op = "TFORLOOP" -> i.c >= 1 /\ checkreg(p, i.a + 2 + i.c)
            [] i.op \in {"FORLOOP", "FORPREP"}   -> checkreg(p, i.a + 3)
            [] i.op \in {"CALL", "TAILCALL"}     -> checkvalues(p, pc, i.a, i.b) /\ checkvalues(p, pc, i.a, i.c - 1)
            [] i.op = "RETURN"   -> i.b > 1 => checkreg(p, i.a + i.b - 2)
            [] i.op = "SETLIST"  -> i.b > 0 => checkreg(p, i.a + i.b)
            [] i.op = "CLOSURE"  -> /\ i.b \in DOMAIN p.protos /\ pc + p.protos[i.b].nups < Len(p.code)
                                    /\ \A j \in 1 .. p.protos[i.b].nups : p.code[pc + j].op \in {"GETUPVAL", "MOVE"}
            [] i.op = "VARARG"   -> p.isvararg /\ ~p.needsarg /\ checkvalues(p, pc, i.a, i.b - 1)
            [] OTHER             -> TRUE

luaG_checkcode(p) == precheck(p) /\ \A pc \in DOMAIN p.code : checkinstruction(p, pc)

RECURSIVE WellFormed(_)

WellFormed(p) == luaG_checkcode(p) /\ \A i \in DOMAIN p.protos : WellFormed(p.protos[i])
=============================================================================
