----------------------------- MODULE MCScripts -----------------------------
(* Syntax trees of scripts: conditions of all shapes, and programs that use  *)
(* what the interpreter has.                                                 *)
EXTENDS Integers, Sequences

N(x) == << "name", x >>
K(k) == << "num", k >>
S(x) == << "str", x >>
B(b) == << "bool", b >>
Nil == << "nil" >>
Dots == << "dots" >>
Fun(params, body) == << "fn", params, body >>
Ix(o, k) == << "index", o, k >>
Dot(o, name) == << "index", o, S(name) >>
Bin(o, a, b) == << "bin", o, a, b >>
Un(o, a) == << "un", o, a >>
Paren(e) == << "paren", e >>
Call(f, args) == << "call", N(f), args >>
Apply(f, args) == << "call", f, args >>
Meth(o, name, args) == << "self", o, name, args >>
List(items) == << "table", items >>
Pair(k, v) == << "pair", S(k), v >>

Locals(xs, es) == << "local", xs, es >>
Let(x, e) == Locals(<< x >>, << e >>)
Sets(xs, es) == << "set", xs, es >>
Set(x, e) == Sets(<< x >>, << e >>)
Set1(x, e) == Set(N(x), e)
Do(e) == << "do", e >>
Block(b) == << "block", b >>
If(c, a, b) == << "if", c, a, b >>
While(c, b) == << "while", c, b >>
Repeat(b, c) == << "repeat", b, c >>
For(x, es, b) == << "for", x, es, b >>
In(xs, es, b) == << "in", xs, es, b >>
Function(f, params, body) == << "function", f, params, body >>
Method(path, name, params, body) == << "method", path, name, params, body >>
Return(es) == << "return", es >>
Give(e) == Return(<< e >>)
Break == << "break" >>

\* x = x + e
Add(x, e) == Set1(x, Bin("+", N(x), e))

-----------------------------------------------------------------------------
Off == N("_meiqueNone")
On  == N("_meiqueNotNone")

\* The scopes of meiqueapi.lua:48-82
Scopes == <<
    Set(Off, List(<< >>)), Set(On, List(<< >>)),
    Set(Dot(Off, "__call"), Fun(<< "func", "..." >>, << Give(Off) >>)),
    Set(Dot(Off, "__index"), Dot(Off, "__call")),
    Set(Dot(Off, "__eval"), Fun(<< "table" >>, << Give(B(FALSE)) >>)),
    Set(Dot(Off, "__not"), Fun(<< "table" >>, << Give(On) >>)),
    Set(Dot(On, "__index"), Fun(<< "table", "key" >>, <<
        Let("typeName", Call("type", << Ix(N("_G"), N("key")) >>)),
        If(Bin("==", N("typeName"), S("function")),
           << Give(Fun(<< "a", "..." >>, << Give(Apply(Ix(N("_G"), N("key")), << Dots >>)) >>)) >>,
           << If(Bin("==", N("typeName"), S("nil")),
                 << Give(Nil) >>,
                 << Give(Fun(<< >>, << Give(Ix(N("_G"), N("key"))) >>)) >>) >>) >>)),
    Set(Dot(On, "__eval"), Fun(<< "table" >>, << Give(B(TRUE)) >>)),
    Set(Dot(On, "__not"), Fun(<< "table" >>, << Give(Off) >>)),
    Do(Call("setmetatable", << Off, Off >>)), Do(Call("setmetatable", << On, On >>)) >>

\* Those of them that conditions need
Truths == <<
    Set(Off, List(<< Pair("__eval", Fun(<< >>, << Give(B(FALSE)) >>)), Pair("__not", Fun(<< >>, << Give(On) >>)) >>)),
    Set(On, List(<< Pair("__eval", Fun(<< >>, << Give(B(TRUE)) >>)), Pair("__not", Fun(<< >>, << Give(Off) >>)) >>)),
    Do(Call("setmetatable", << Off, Off >>)), Do(Call("setmetatable", << On, On >>)),
    Let("x", K(1)) >>

-----------------------------------------------------------------------------
(* Conditions: two operators on three operands, some of it negated, in a place of a script *)

Operands == [constant |-> Nil, variable |-> N("x"), comparison |-> Bin("<", N("x"), K(0)), off |-> Off]

Condition(c) ==
    LET a == Operands[c.a]
        b == IF c.negated = "inner" THEN Un("not", Operands[c.b]) ELSE Operands[c.b]
        d == Operands[c.d]
        e == IF c.left THEN Bin(c.o, Bin(c.p, a, b), d) ELSE Bin(c.o, a, Bin(c.p, b, d))
    IN IF c.negated = "all" THEN Un("not", e) ELSE e

Place(place, e) ==
    CASE place = "return" -> << Give(e) >>
      [] place = "if"     -> << If(e, << Give(K(1)) >>, << Give(K(2)) >>) >>
      [] place = "while"  -> << While(e, << Set1("x", Bin("-", N("x"), K(1))), If(Bin("<", N("x"), Un("-", K(2))), << Break >>, << >>) >>),
                                Give(N("x")) >>
      [] place = "list"   -> << Give(Apply(Fun(<< "y", "z" >>, << Return(<< N("z"), N("y") >>) >>), << e, Bin("==", N("x"), e) >>)) >>

Conditions ==
    [o : {"and", "or"}, p : {"and", "or"}, left : BOOLEAN, negated : {"no", "inner", "all"},
     a : DOMAIN Operands, b : DOMAIN Operands, d : DOMAIN Operands \ {"variable"}, place : {"return", "if"}]

ConditionScript(c) == Truths \o Place(c.place, Condition(c))

-----------------------------------------------------------------------------
(* Programs, by what they are about *)

Plus(a, b) == Bin("+", a, b)
Times(a, b) == Bin("*", a, b)
Cat(a, b) == Bin("..", a, b)
Meta(items) == List(items)
Setmeta(t, m) == Call("setmetatable", << t, m >>)
a == N("a")
f == N("f")
i == N("i")
n == N("n")
t == N("t")
v == N("v")

Closures == <<
    \* two functions share the variable they are made with, the next call makes another
    << Function("counter", << >>, << Let("n", K(0)),
           Return(<< Fun(<< >>, << Add("n", K(1)), Give(n) >>), Fun(<< >>, << Give(n) >>) >>) >>),
       Locals(<< "a", "b" >>, << Call("counter", << >>) >>), Do(Call("a", << >>)), Do(Call("a", << >>)),
       Let("c", Call("counter", << >>)),
       Return(<< Call("a", << >>), Call("b", << >>), Call("c", << >>) >>) >>,
    \* every turn of a loop has its own variable, also the last, left with break
    << Let("f", List(<< >>)),
       For("i", << K(1), K(3) >>, << Let("j", Times(i, K(2))),
           Set(Ix(f, i), Fun(<< >>, << Set1("j", Plus(N("j"), i)), Give(N("j")) >>)),
           If(Bin("==", i, K(2)), << Break >>, << >>) >>),
       Return(<< Apply(Ix(f, K(1)), << >>), Apply(Ix(f, K(1)), << >>), Apply(Ix(f, K(2)), << >>), Ix(f, K(3)) >>) >>,
    << Let("n", K(0)), Locals(<< "f", "g" >>, << >>),
       While(B(TRUE), << Let("k", n), Add("n", K(1)),
           Block(<< Let("z", n), Set1("f", Fun(<< >>, << Set1("z", Plus(N("z"), N("k"))), Give(N("z")) >>)),
                    If(Bin("==", n, K(2)), << Break >>, << Set1("g", f) >>) >>) >>),
       Let("other", K(7)), Let("another", K(8)),
       Return(<< Call("f", << >>), Call("f", << >>), Call("g", << >>), n >>) >>,
    << Locals(<< "n", "f" >>, << K(0) >>),
       Repeat(<< Let("k", n), Set1("f", Fun(<< >>, << Give(N("k")) >>)), Add("n", K(1)) >>, Bin("==", N("k"), K(2))),
       Return(<< Call("f", << >>), n >>) >>,
    << Let("f", Nil), Block(<< Let("x", K(5)), Set1("f", Fun(<< >>, << Give(N("x")) >>)), Set1("x", K(6)) >>), Let("y", K(9)),
       Return(<< Call("f", << >>), N("y") >>) >>,
    \* a variable two functions out
    << Function("f", << "a" >>, << Give(Fun(<< "b" >>, << Give(Fun(<< "c" >>, << Set1("a", Plus(a, N("b"))),
           Give(Plus(a, N("c"))) >>)) >>)) >>),
       Let("g", Apply(Call("f", << K(1) >>), << K(10) >>)),
       Return(<< Call("g", << K(0) >>), Call("g", << K(100) >>) >>) >>,
    \* a function that calls itself, and one in the place of its caller
    << Function("f", << "n" >>, << If(Bin("<=", n, K(1)), << Give(K(1)) >>, << Give(Times(n, Call("f", << Bin("-", n, K(1)) >>))) >>) >>),
       Function("g", << "n", "f" >>, << If(Bin("==", n, K(0)), << Return(<< Call("f", << >>), K(0) >>) >>, << >>),
           Let("m", n), Give(Call("g", << Bin("-", n, K(1)), Fun(<< >>, << Give(N("m")) >>) >>)) >>),
       Return(<< Call("f", << K(4) >>), Call("g", << K(3) >>) >>) >> >>

Loops == <<
    << Let("s", S("")), For("i", << K(3), K(1), Un("-", K(1)) >>, << Set1("s", Cat(N("s"), i)) >>),
       For("i", << K(1), K(0) >>, << Set1("s", Cat(N("s"), S("x"))) >>),
       For("i", << S("1"), S("2") >>, << Set1("s", Cat(N("s"), i)) >>), Give(N("s")) >>,
    << For("i", << Nil, K(1) >>, << >>), Give(K(1)) >>,
    << Function("iter", << "t", "i" >>, << Add("i", K(1)), If(Ix(t, i), << Return(<< i, Ix(t, i) >>) >>, << >>) >>),
       Let("s", K(0)),
       In(<< "i", "v" >>, << N("iter"), List(<< K(5), K(6), K(7) >>), K(0) >>,
          << If(Bin("==", v, K(7)), << Break >>, << >>), Set1("s", Plus(N("s"), Times(v, i))) >>),
       In(<< "i" >>, << N("iter"), List(<< >>), K(0) >>, << Set1("s", Nil) >>), Give(N("s")) >>,
    << In(<< "i" >>, << Nil >>, << >>), Give(K(1)) >>,
    << Let("n", K(0)), Let("t", List(<< K(1), K(2), K(3), K(4) >>)),
       While(Ix(t, Plus(n, K(1))), << Add("n", K(1)),
           If(Bin("==", n, K(1)), << Set(Ix(t, n), K(9)) >>,
              << If(Bin("~=", n, K(3)), << Set(Ix(t, n), S("x")) >>, << Let("z", n), Give(Cat(Ix(t, K(1)), Cat(Ix(t, K(2)), N("z")))) >>) >>) >>),
       Give(K(0)) >> >>

Values == <<
    \* ... keeps what is over, parentheses and the middle of a list take one value
    << Function("f", << "a", "..." >>, << Locals(<< "b", "c" >>, << Dots >>), Return(<< a, N("b"), N("c"), Dots >>) >>),
       Return(<< Call("f", << K(1), K(2) >>), Paren(Call("f", << K(3), K(4) >>)), Call("f", << K(5), K(6), K(7), K(8) >>) >>) >>,
    << Function("f", << "..." >>, << Let("t", List(<< Dots, Dots >>)), Return(<< Un("#", t), Dots >>) >>),
       Return(<< Call("f", << >>), Call("f", << Call("f", << K(1), K(2) >>) >>) >>) >>,
    << Function("f", << "a", "..." >>, << Return(<< Dot(N("arg"), "n"), Ix(N("arg"), K(2)), a >>) >>),
       Return(<< Call("f", << K(1), K(2), K(3) >>), Call("f", << >>) >>) >>,
    \* more elements than are stored at once
    << Function("f", << >>, << Return(<< K(8), K(9) >>) >>),
       Let("t", List(<< K(1), K(2), Pair("x", K(3)), K(4), K(5), Call("f", << >>), Call("f", << >>) >>)),
       Return(<< Un("#", t), Ix(t, K(3)), Ix(t, K(5)), Ix(t, K(7)), Dot(t, "x") >>) >>,
    << Let("t", List(<< K(1), K(2), K(3), Nil >>)), Return(<< Un("#", t), Un("#", S("abc")) >>) >>,
    \* assignments: the table and the index are those before it
    << Locals(<< "i", "t" >>, << K(1), List(<< >>) >>), Sets(<< Ix(t, i), i >>, << K(5), K(2) >>), Return(<< i, Ix(t, K(1)), Ix(t, K(2)) >>) >>,
    << Locals(<< "i", "t" >>, << K(1), List(<< >>) >>), Sets(<< i, Ix(t, i) >>, << K(2), K(5) >>), Return(<< i, Ix(t, K(1)), Ix(t, K(2)) >>) >>,
    << Let("t", List(<< >>)), Let("a", t), Sets(<< Dot(t, "x"), t >>, << K(1) >>), Return(<< Dot(a, "x"), t >>) >>,
    << Locals(<< "a", "v", "n" >>, << K(1), K(2), K(3) >>), Sets(<< a, v, n >>, << v, a >>), Sets(<< a >>, << a, K(7), K(8) >>),
       Function("f", << >>, << Return(<< K(8), K(9) >>) >>), Sets(<< N("g"), i, v >>, << K(7), Call("f", << >>) >>), Return(<< a, v, n, N("g"), i >>) >>,
    << Locals(<< "a", "v", "n" >>, << >>), Let("f", Fun(<< "x", "y" >>, << Return(<< N("y"), N("x") >>) >>)),
       Return(<< Call("f", << K(1) >>), Paren(Call("f", << K(1), K(2), K(3) >>)), a >>) >>,
    \* operators
    << Let("x", K(2)), Return(<< Plus(K(1), Bin("-", Times(K(2), N("x")), Un("-", K(4)))), Bin("-", Bin("-", N("x"), K(1)), Plus(K(3), N("x"))),
                                 Bin("%", K(7), K(3)), Un("-", N("x")), Un("-", Plus(K(1), K(2))), Plus(S("1"), N("x")) >>) >>,
    << Let("x", K(2)), Return(<< Un("not", Bin("<", N("x"), K(3))), Un("not", Un("not", N("x"))), Bin(">=", N("x"), K(2)), Bin(">", K(1), N("x")),
                                 Bin("~=", N("x"), Nil), Bin("==", S("a"), S("a")), Un("not", Nil), Bin("==", B(TRUE), Bin("<=", K(1), N("x"))) >>) >>,
    << Return(<< Cat(K(1), Cat(S("a"), Cat(Cat(S("b"), K(2)), S("")))), Cat(Plus(K(1), K(2)), S("c")) >>) >> >>

Metamethods == <<
    << Let("m", Meta(<< Pair("__index", Fun(<< "t", "k" >>, << Give(Cat(N("k"), S("!"))) >>)),
                        Pair("__newindex", Fun(<< "t", "k", "v" >>, << Set1("g", v) >>)),
                        Pair("__call", Fun(<< "self", "..." >>, << Return(<< Dots, N("self") >>) >>)),
                        Pair("__add", Fun(<< "a", "b" >>, << Give(S("sum")) >>)), Pair("__unm", Fun(<< "a" >>, << Give(S("minus")) >>)),
                        Pair("__concat", Fun(<< "a", "b" >>, << Give(Call("type", << a >>)) >>)) >>)),
       Let("t", Setmeta(List(<< >>), N("m"))), Set(Dot(t, "x"), K(3)), Set(Dot(t, "y"), Plus(t, K(1))),
       Return(<< Dot(t, "z"), N("g"), Un("-", t), Cat(S("a"), Cat(t, K(1))), Plus(K(1), t), Call("t", << K(4), K(5) >>) >>) >>,
    << Let("a", List(<< Pair("x", K(1)) >>)), Let("t", Setmeta(List(<< >>), Meta(<< Pair("__index", a), Pair("__newindex", a) >>))),
       Set(Dot(t, "y"), K(2)), Return(<< Dot(t, "x"), Dot(a, "y"), Dot(t, "z") >>) >>,
    << Let("t", List(<< >>)), Do(Setmeta(t, t)), Set(Dot(t, "__index"), t), Give(Dot(t, "x")) >>,
    << Let("t", List(<< >>)), Do(Setmeta(t, t)), Set(Dot(t, "__newindex"), t), Set(Dot(t, "x"), K(1)), Give(K(1)) >>,
    << Let("m", Meta(<< Pair("__eq", Fun(<< "a", "b" >>, << Give(Bin("==", Dot(a, "n"), Dot(N("b"), "n"))) >>)),
                        Pair("__lt", Fun(<< "a", "b" >>, << Give(Bin("<", Dot(a, "n"), Dot(N("b"), "n"))) >>)) >>)),
       Function("new", << "n" >>, << Give(Setmeta(List(<< Pair("n", n) >>), N("m"))) >>),
       Locals(<< "a", "b", "c" >>, << Call("new", << K(1) >>), Call("new", << K(2) >>), Call("new", << K(1) >>) >>),
       Return(<< Bin("==", a, N("b")), Bin("==", a, N("c")), Bin("~=", a, N("c")), Bin("<", a, N("b")), Bin("<=", N("b"), a), Bin(">=", a, N("c")),
                 Bin("==", a, K(1)), Bin("==", a, List(<< >>)) >>) >>,
    << Let("t", Setmeta(List(<< >>), Meta(<< Pair("__le", Fun(<< >>, << Give(Nil) >>)) >>))),
       If(Bin("<=", t, t), << Give(K(1)) >>, << If(Un("not", Bin(">=", t, t)), << Give(K(2)) >>, << Give(K(3)) >>) >>) >>,
    << Let("t", List(<< >>)), Give(Bin("<", t, t)) >>, << Give(Bin("<", K(1), S("a"))) >>, << Give(Plus(K(1), S("a"))) >>,
    << Give(Cat(K(1), Nil)) >>, << Give(Un("#", Nil)) >>, << Give(Un("not", List(<< >>))) >>, << Let("t", Nil), Set(Dot(t, "x"), K(1)), Give(K(1)) >>,
    << Let("t", List(<< >>)), Set(Ix(t, Nil), K(1)), Give(K(1)) >>, << Give(Apply(K(1), << >>)) >>, << Give(Setmeta(K(1), Nil)) >>,
    \* what a condition says may be a table too
    << Let("t", Setmeta(List(<< >>), Meta(<< Pair("__eval", Fun(<< "s" >>, << Give(Dot(N("s"), "v")) >>)) >>))),
       Let("a", Setmeta(List(<< Pair("v", t) >>), Meta(<< Pair("__eval", Fun(<< "s" >>, << Give(Dot(N("s"), "v")) >>)) >>))),
       Locals(<< "x", "y" >>, << Bin("and", a, K(1)) >>), Set(Dot(t, "v"), List(<< >>)), Set1("y", Bin("and", a, K(2))),
       Let("z", Bin("or", t, K(3))), If(a, << Set1("i", K(4)) >>, << >>),
       Return(<< N("x"), N("y"), Bin("==", N("z"), t), i >>) >> >>

Protected == <<
    << Return(<< Call("pcall", << N("error"), S("x") >>), Call("pcall", << Fun(<< >>, << Let("x", Nil), Give(Dot(N("x"), "y")) >>) >>) >>) >>,
    \* the variables of a function that fails live on
    << Let("f", Nil), Do(Call("pcall", << Fun(<< >>, << Let("v", K(1)), Set1("f", Fun(<< >>, << Add("v", K(1)), Give(v) >>)), Do(Call("error", << B(TRUE) >>)) >>) >>)),
       Let("x", K(50)), Let("y", K(60)), Return(<< Call("f", << >>), Call("f", << >>) >>) >>,
    << Let("t", Setmeta(List(<< >>), Meta(<< Pair("__index", Fun(<< "t", "k" >>, << Do(Call("error", << K(7) >>)) >>)) >>))),
       Function("f", << >>, << Locals(<< "a", "b" >>, << Call("pcall", << Fun(<< >>, << Give(Dot(t, "x")) >>) >>) >>), Do(Call("error", << N("b") >>)) >>),
       Locals(<< "a", "v" >>, << Call("pcall", << f >>) >>), Return(<< a, Plus(v, K(1)), Call("pcall", << N("type"), Nil >>), Call("pcall", << Nil >>) >>) >>,
    << Function("f", << "..." >>, << Give(Call("pcall", << N("pcall"), N("type"), Dots >>)) >>), Return(<< Call("f", << K(1) >>), Call("f", << >>) >>) >> >>

\* Scripts of meique: calls that count only in a scope
Scoped == <<
    << Set1("target", List(<< Pair("n", K(0)) >>)),
       Method(<< "target" >>, "add", << "k" >>, << Set(Dot(N("self"), "n"), Plus(Dot(N("self"), "n"), N("k"))), Give(N("self")) >>),
       Method(<< "target", "get" >>, "", << >>, << Give(K(1)) >>),
       Do(Meth(Meth(On, "target", << >>), "add", << K(3) >>)), Do(Meth(Meth(Off, "target", << >>), "add", << K(4) >>)),
       Do(Meth(Meth(Un("not", Off), "target", << >>), "add", << K(5) >>)), Do(Meth(Meth(Bin("and", On, Off), "target", << >>), "add", << K(9) >>)),
       Return(<< Dot(N("target"), "n"), Apply(Dot(N("target"), "get"), << >>), Dot(Meth(Meth(N("target"), "add", << K(1) >>), "add", << K(1) >>), "n") >>) >>,
    << Method(<< "f" >>, "", << "..." >>, << Return(<< K(7), Dots >>) >>), Return(<< Meth(On, "f", << K(1), K(2) >>), Call("type", << Dot(On, "nothing") >>), Meth(Off, "f", << K(1) >>) >>) >>,
    << Let("n", K(0)), While(Bin("and", On, Bin("<", n, K(3))), << Add("n", K(1)) >>),
       If(Off, << Set1("n", K(9)) >>, << If(Un("not", Off), << Add("n", K(10)) >>, << >>) >>), Return(<< n, Un("not", Un("not", On)), Bin("or", Off, n) >>) >> >>

Programs == Closures \o Loops \o Values \o Metamethods \o Protected

ProgramScript(k) == Programs[k]
ScopedScript(k) == Scopes \o Scoped[k]
=============================================================================
