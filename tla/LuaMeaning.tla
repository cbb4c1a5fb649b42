----------------------------- MODULE LuaMeaning -----------------------------
(***************************************************************************)
(* What a script means, from its syntax tree: the semantics of the Lua 5.1 *)
(* manual, with meique's two metamethods, __eval for conditions and __not  *)
(* for `not'. It knows nothing of registers, jumps or stacks. Write gives  *)
(* the tokens of a tree, with as few parentheses as the precedences allow. *)
(*                                                                         *)
(* A tree is a tuple that begins with its kind. A state s has the cells of *)
(* the local variables, the tables and the functions made so far; err: an  *)
(* error with the value exc is on its way to a pcall, and nothing is       *)
(* changed anymore. Evaluating gives a state and a list of values, vs.     *)
(*                                                                         *)
(* Where the manual leaves the order of evaluation open, a script must not *)
(* depend on it.                                                           *)
(***************************************************************************)
EXTENDS Integers, Sequences
LOCAL INSTANCE SequencesExt
LOCAL INSTANCE TLC

RECURSIVE Write(_), WriteAll(_), WriteBlock(_), PathTo(_), Go(_, _, _, _)

-----------------------------------------------------------------------------
(* All of the meaning is one recursion, Go, defined at the end. *)

Eval(s, env, e)                         == Go("value", s, env, e)
EvalAll(s, env, es)                     == Go("values", s, env, es)
Items(s, env, t, items, n)              == Go("items", s, env, << t, items, n >>)
Apply(s, v, args)                       == Go("apply", s, v, args)
Index(s, v, k)                          == Go("index", s, v, k)
NewIndex(s, v, k, x)                    == Go("newindex", s, v, << k, x >>)
Truth(s, v)                             == Go("truth", s, v, << >>)
Run(s, env, block)                      == Go("run", s, env, block)
Loop(s, env, cond, body)                == Go("loop", s, env, << cond, body >>)
Repeat(s, env, cond, body)              == Go("repeat", s, env, << cond, body >>)
Count(s, env, name, i, limit, step, body)   == Go("count", s, env, << name, i, limit, step, body >>)
Each(s, env, names, f, state, control, body) == Go("each", s, env, << names, f, state, control, body >>)

-----------------------------------------------------------------------------
(* Tokens *)

T(kind) == << << kind, "" >> >>

\* Precedence, from or to the unary operators; what is no operator has the highest.
Level(e) ==
    IF e[1] = "un" THEN 7
    ELSE IF e[1] # "bin" THEN 8
    ELSE CASE e[2] = "or" -> 1 [] e[2] = "and" -> 2 [] e[2] = ".." -> 4 [] e[2] \in {"+", "-"} -> 5
           [] e[2] \in {"*", "%"} -> 6 [] OTHER -> 3

AtLeast(e, level) == IF Level(e) < level THEN T("(") \o Write(e) \o T(")") ELSE Write(e)

Prefix(e) == IF e[1] \in {"name", "index", "call", "self", "paren"} THEN Write(e) ELSE T("(") \o Write(e) \o T(")")

Commas(parts) ==
    FoldLeft(LAMBDA s, p : IF s = << >> THEN p ELSE s \o T(",") \o p, << >>, parts)

WriteAll(es) == Commas([i \in DOMAIN es |-> Write(es[i])])

WriteNames(names) == Commas([i \in DOMAIN names |-> << << "name", names[i] >> >>])

WriteBody(params, body) ==
    LET named == [i \in DOMAIN params |-> IF params[i] = "..." THEN T("...") ELSE << << "name", params[i] >> >>]
    IN T("(") \o Commas(named) \o T(")") \o WriteBlock(body) \o T("end")

WriteItem(item) ==
    IF item[1] = "pair" THEN T("[") \o Write(item[2]) \o T("]") \o T("=") \o Write(item[3]) ELSE Write(item)

\* meique's a:b:c(): a call without arguments needs no parentheses before another.
WriteObject(e) ==
    IF e[1] = "self" /\ e[4] = << >> THEN Prefix(e[2]) \o T(":") \o << << "name", e[3] >> >> ELSE Prefix(e)

Write(e) ==
    CASE e[1] = "nil"   -> T("nil")
      [] e[1] = "bool"  -> T(IF e[2] THEN "true" ELSE "false")
      [] e[1] = "num"   -> << << "number", e[2] >> >>
      [] e[1] = "str"   -> << << "string", e[2] >> >>
      [] e[1] = "name"  -> << << "name", e[2] >> >>
      [] e[1] = "dots"  -> T("...")
      [] e[1] = "fn"    -> T("function") \o WriteBody(e[2], e[3])
      [] e[1] = "paren" -> T("(") \o Write(e[2]) \o T(")")
      [] e[1] = "un"    -> T(e[2]) \o AtLeast(e[3], 7)
      [] e[1] = "bin"   -> LET l == Level(e)
                               right == e[2] = ".."
                           IN AtLeast(e[3], IF right THEN l + 1 ELSE l) \o T(e[2])
                              \o AtLeast(e[4], IF right THEN l ELSE l + 1)
      [] e[1] = "index" -> Prefix(e[2]) \o T("[") \o Write(e[3]) \o T("]")
      [] e[1] = "call"  -> Prefix(e[2]) \o T("(") \o WriteAll(e[3]) \o T(")")
      [] e[1] = "self"  -> WriteObject(e[2]) \o T(":") \o << << "name", e[3] >> >> \o T("(") \o WriteAll(e[4]) \o T(")")
      [] e[1] = "table" -> T("{") \o Commas([i \in DOMAIN e[2] |-> WriteItem(e[2][i])]) \o T("}")

WriteStatement(t) ==
    CASE t[1] = "local"  -> T("local") \o WriteNames(t[2]) \o (IF t[3] = << >> THEN << >> ELSE T("=") \o WriteAll(t[3]))
      [] t[1] = "set"    -> WriteAll(t[2]) \o T("=") \o WriteAll(t[3])
      [] t[1] = "do"     -> IF t[2][1] = "call" \/ t[2][1] = "self" THEN Write(t[2]) ELSE << >>
      [] t[1] = "block"  -> T("do") \o WriteBlock(t[2]) \o T("end")
      [] t[1] = "while"  -> T("while") \o Write(t[2]) \o T("do") \o WriteBlock(t[3]) \o T("end")
      [] t[1] = "repeat" -> T("repeat") \o WriteBlock(t[2]) \o T("until") \o Write(t[3])
      [] t[1] = "if"     -> T("if") \o Write(t[2]) \o T("then") \o WriteBlock(t[3])
                            \o (IF Len(t[4]) = 1 /\ t[4][1][1] = "if"
                                THEN << << "elseif", "" >> >> \o Tail(WriteBlock(t[4]))
                                ELSE (IF t[4] = << >> THEN << >> ELSE T("else") \o WriteBlock(t[4])) \o T("end"))
      [] t[1] = "for"    -> T("for") \o << << "name", t[2] >> >> \o T("=") \o WriteAll(t[3]) \o T("do")
                            \o WriteBlock(t[4]) \o T("end")
      [] t[1] = "in"     -> T("for") \o WriteNames(t[2]) \o T("in") \o WriteAll(t[3]) \o T("do")
                            \o WriteBlock(t[4]) \o T("end")
      [] t[1] = "function" -> T("local") \o T("function") \o << << "name", t[2] >> >> \o WriteBody(t[3], t[4])
      [] t[1] = "method" -> T("function") \o WriteNames(<< Head(t[2]) >>)
                            \o FoldLeft(LAMBDA names, x : names \o T(".") \o WriteNames(<< x >>), << >>, Tail(t[2]))
                            \o (IF t[3] = "" THEN << >> ELSE T(":") \o WriteNames(<< t[3] >>)) \o WriteBody(t[4], t[5])
      [] t[1] = "return" -> T("return") \o WriteAll(t[2])
      [] t[1] = "break"  -> T("break")

WriteBlock(b) ==
    FoldLeft(LAMBDA s, t : s \o WriteStatement(t) \o (IF t[1] \in {"local", "set", "do", "return"} THEN T(";") ELSE << >>),
             << >>, b)

-----------------------------------------------------------------------------
(* Values: those of the machine *)

NilV       == << "nil" >>
BoolV(b)   == << "boolean", b >>
NumV(n)    == << "number", n >>
StrV(x)    == << "string", x >>
G          == << "table", 1 >>

First(r)  == IF r.vs = << >> THEN NilV ELSE r.vs[1]
Is(s, v)  == [s |-> s, vs |-> << v >>]
Error(s, v) == [s |-> IF s.err THEN s ELSE [s EXCEPT !.err = TRUE, !.exc = v], vs |-> << >>]

Get(s, t, k) == IF k \in DOMAIN s.heap[t].map THEN s.heap[t].map[k] ELSE NilV

Put(s, t, k, v) ==
    IF s.err THEN s
    ELSE [s EXCEPT !.heap[t].map = IF v = NilV THEN [x \in DOMAIN @ \ {k} |-> @[x]] ELSE (k :> v) @@ @]

Meta(s, v, event) ==
    IF v[1] = "table" /\ s.heap[v[2]].meta # 0 THEN Get(s, s.heap[v[2]].meta, StrV(event)) ELSE NilV

Meta2(s, v, w, event) == IF Meta(s, v, event) # NilV THEN Meta(s, v, event) ELSE Meta(s, w, event)

DoIndex(s, v, k) ==
    LET raw == IF v[1] = "table" THEN Get(s, v[2], k) ELSE NilV
        h == Meta(s, v, "__index")
    IN IF raw # NilV \/ (v[1] = "table" /\ h = NilV) THEN Is(s, raw)
       ELSE IF h = NilV THEN Error(s, StrV("attempt to index"))
       ELSE IF h[1] = "function" THEN LET r == Apply(s, h, << v, k >>) IN Is(r.s, First(r))
       ELSE IF h = v THEN Error(s, StrV("loop in gettable"))
       ELSE Index(s, h, k)

DoNewIndex(s, v, k, x) ==
    LET h == Meta(s, v, "__newindex")
        new == v[1] = "table" => Get(s, v[2], k) = NilV
    IN IF v[1] = "table" /\ k = NilV THEN Error(s, StrV("table index is nil")).s
       ELSE IF h = v /\ new THEN Error(s, StrV("loop in settable")).s
       ELSE IF h # NilV /\ new THEN (IF h[1] = "function" THEN Apply(s, h, << v, k, x >>).s ELSE NewIndex(s, h, k, x))
       ELSE IF v[1] = "table" THEN Put(s, v[2], k, x)
       ELSE Error(s, StrV("attempt to index")).s

\* A condition: [s, b]
DoTruth(s, v) ==
    LET h == Meta(s, v, "__eval")
        r == Apply(s, h, << v, NilV >>)
    IN IF h = NilV \/ s.err THEN [s |-> s, b |-> v \notin {NilV, BoolV(FALSE)}] ELSE Truth(r.s, First(r))

\* What a metamethod h says of v and w; without one, an error
By(s, h, v, w, message) ==
    IF h = NilV THEN Error(s, StrV(message)) ELSE LET r == Apply(s, h, << v, w >>) IN Is(r.s, First(r))

TruthBy(s, h, v, w, message, expected) ==
    LET r == By(s, h, v, w, message)
        t == Truth(r.s, First(r))
    IN Is(t.s, BoolV(t.b = expected))

Numeral(v) == IF v[1] = "string" /\ \E n \in 0 .. 9 : ToString(n) = v[2]
              THEN NumV(CHOOSE n \in 0 .. 9 : ToString(n) = v[2]) ELSE v

Shared(s, v, w, event) == IF v[1] = w[1] /\ Meta(s, v, event) = Meta(s, w, event) THEN Meta(s, v, event) ELSE NilV

Compare(s, o, v, w) ==
    LET numbers == v[1] = "number" /\ w[1] = "number"
        le == Shared(s, v, w, "__le")
        lt == Shared(s, v, w, "__lt")
        eq == IF v[1] = "table" THEN Shared(s, v, w, "__eq") ELSE NilV
    IN CASE o = "==" -> IF v = w \/ eq = NilV THEN Is(s, BoolV(v = w)) ELSE TruthBy(s, eq, v, w, "", TRUE)
         [] o = "<"  -> IF numbers THEN Is(s, BoolV(v[2] < w[2]))
                        ELSE TruthBy(s, lt, v, w, "attempt to compare", TRUE)
         [] o = "<=" -> IF numbers THEN Is(s, BoolV(v[2] <= w[2]))
                        ELSE IF le = NilV /\ lt # NilV THEN TruthBy(s, lt, w, v, "", FALSE)
                        ELSE TruthBy(s, le, v, w, "attempt to compare", TRUE)

Events2 == [x \in {"+", "-", "*", "%"} |->
    CASE x = "+" -> "__add" [] x = "-" -> "__sub" [] x = "*" -> "__mul" [] x = "%" -> "__mod"]

Text(v) == IF v[1] = "number" THEN ToString(v[2]) ELSE v[2]

Binary(s, o, v, w) ==
    LET l == Numeral(v)
        r == Numeral(w)
        value == CASE o = "+" -> l[2] + r[2] [] o = "-" -> l[2] - r[2] [] o = "*" -> l[2] * r[2] [] o = "%" -> l[2] % r[2]
        ne == Compare(s, "==", v, w)
    IN CASE o \in {"==", "<", "<="} -> Compare(s, o, v, w)
         [] o = "~=" -> Is(ne.s, BoolV(First(ne) = BoolV(FALSE)))
         [] o = ">"  -> Compare(s, "<", w, v)
         [] o = ">=" -> Compare(s, "<=", w, v)
         [] o = ".." -> IF {v[1], w[1]} \subseteq {"number", "string"} THEN Is(s, StrV(Text(v) \o Text(w)))
                        ELSE By(s, Meta2(s, v, w, "__concat"), v, w, "attempt to concatenate")
         [] OTHER    -> IF l[1] = "number" /\ r[1] = "number" THEN Is(s, NumV(value))
                        ELSE By(s, Meta2(s, v, w, Events2[o]), v, w, "attempt to perform arithmetic")

Border(s, t) == CHOOSE b \in 0 .. 20 : Get(s, t, NumV(b + 1)) = NilV /\ \A i \in 1 .. b : Get(s, t, NumV(i)) # NilV

Unary(s, o, v) ==
    CASE o = "not" -> IF v[1] = "table" THEN By(s, Meta(s, v, "__not"), v, NilV, "attempt to use not operator on")
                      ELSE Is(s, BoolV(v \in {NilV, BoolV(FALSE)}))
      [] o = "-"   -> IF Numeral(v)[1] = "number" THEN Is(s, NumV(-Numeral(v)[2]))
                      ELSE By(s, Meta(s, v, "__unm"), v, v, "attempt to perform arithmetic")
      [] o = "#"   -> IF v[1] = "table" THEN Is(s, NumV(Border(s, v[2])))
                      ELSE IF v[1] = "string" THEN Is(s, NumV(Len(v[2]))) ELSE Error(s, StrV("attempt to get length of"))

-----------------------------------------------------------------------------
(* Expressions: env has the cell of each local variable, and the values of ... *)

Local(s, env, name, v) ==
    [s |-> [s EXCEPT !.cells = Append(@, v)], env |-> [env EXCEPT !.vars = (name :> Len(s.cells) + 1) @@ @]]

Locals(s, env, names, vs) ==
    FoldLeft(LAMBDA r, i : Local(r.s, r.env, names[i], IF i <= Len(vs) THEN vs[i] ELSE NilV),
             [s |-> s, env |-> env], [i \in DOMAIN names |-> i])

Fn(s, env, params, body) ==
    Is([s EXCEPT !.fns = Append(@, [native |-> "", params |-> params, body |-> body, vars |-> env.vars])],
       << "function", Len(s.fns) + 1 >>)

\* The elements of a table that is built, the last with all its values
DoItems(s, env, t, items, n) ==
    IF items = << >> THEN s
    ELSE LET item == Head(items)
             k == Eval(s, env, item[2])
             v == Eval(k.s, env, item[3])
             r == Eval(s, env, item)
             vs == IF Len(items) = 1 THEN r.vs ELSE << First(r) >>
         IN IF item[1] = "pair" THEN Items(NewIndex(v.s, t, First(k), First(v)), env, t, Tail(items), n)
            ELSE Items(FoldLeft(LAMBDA x, i : Put(x, t[2], NumV(n + i), vs[i]), r.s, [i \in DOMAIN vs |-> i]),
                       env, t, Tail(items), n + 1)

DoEvalAll(s, env, es) ==
    IF es = << >> THEN [s |-> s, vs |-> << >>]
    ELSE LET r == Eval(s, env, Head(es))
             rest == EvalAll(r.s, env, Tail(es))
         IN IF Len(es) = 1 THEN r ELSE [s |-> rest.s, vs |-> << First(r) >> \o rest.vs]

\* `and' and `or': the second operand counts if the first is as stop says.
Short(s, env, e, goeson) ==
    LET a == Eval(s, env, e[3])
        t == Truth(a.s, First(a))
        b == Eval(t.s, env, e[4])
    IN IF t.b = goeson THEN Is(b.s, First(b)) ELSE Is(t.s, First(a))

DoEval(s, env, e) ==
    LET table == << "table", Len(s.heap) + 1 >>
        a == Eval(s, env, e[2])
        b == Eval(a.s, env, e[3])
        args == EvalAll(a.s, env, e[3])
        f == Index(a.s, First(a), StrV(e[3]))
        margs == EvalAll(f.s, env, e[4])
        l == Eval(s, env, e[3])
        r == Eval(l.s, env, e[4])
    IN CASE e[1] = "nil"   -> Is(s, NilV)
         [] e[1] = "bool"  -> Is(s, BoolV(e[2]))
         [] e[1] = "num"   -> Is(s, NumV(e[2]))
         [] e[1] = "str"   -> Is(s, StrV(e[2]))
         [] e[1] = "name"  -> IF e[2] \in DOMAIN env.vars THEN Is(s, s.cells[env.vars[e[2]]]) ELSE Index(s, G, StrV(e[2]))
         [] e[1] = "dots"  -> [s |-> s, vs |-> env.dots]
         [] e[1] = "fn"    -> Fn(s, env, e[2], e[3])
         [] e[1] = "paren" -> Is(a.s, First(a))
         [] e[1] = "un"    -> Unary(l.s, e[2], First(l))
         [] e[1] = "bin"   -> IF e[2] \in {"and", "or"} THEN Short(s, env, e, e[2] = "and")
                              ELSE Binary(r.s, e[2], First(l), First(r))
         [] e[1] = "index" -> Index(b.s, First(a), First(b))
         [] e[1] = "call"  -> Apply(args.s, First(a), args.vs)
         [] e[1] = "self"  -> Apply(margs.s, First(f), << First(a) >> \o margs.vs)
         [] e[1] = "table" -> Is(Items([s EXCEPT !.heap = Append(@, [map |-> << >>, meta |-> 0])], env, table, e[2], 0), table)

Native(s, name, args) ==
    LET r == Apply(s, args[1], Tail(args))
    IN CASE name = "type" /\ args # << >> -> Is(s, StrV(args[1][1]))
         [] name = "setmetatable" /\ Len(args) > 1 /\ args[1][1] = "table" /\ args[2][1] \in {"nil", "table"} ->
              Is([s EXCEPT !.heap[args[1][2]].meta = IF args[2] = NilV THEN 0 ELSE args[2][2]], args[1])
         [] name = "error" -> Error(s, IF args = << >> THEN NilV ELSE args[1])
         [] name = "pcall" /\ args # << >> ->
              IF r.s.err THEN [s |-> [r.s EXCEPT !.err = FALSE], vs |-> << BoolV(FALSE), r.s.exc >>]
              ELSE [s |-> r.s, vs |-> << BoolV(TRUE) >> \o r.vs]
         [] OTHER -> Error(s, StrV("bad argument"))

DoApply(s, v, args) ==
    LET f == s.fns[v[2]]
        h == Meta(s, v, "__call")
        dots == Contains(f.params, "...")
        named == IF dots THEN Front(f.params) ELSE f.params
        extra == IF dots THEN SubSeq(args, Len(named) + 1, Len(args)) ELSE << >>
        \* What is over is in arg, too, where a function does not say `...': such a function reads it.
        arg == [k \in {NumV(i) : i \in DOMAIN extra} |-> extra[k[2]]] @@ (StrV("n") :> NumV(Len(extra)))
        plain == Locals(s, [vars |-> f.vars, dots |-> extra], named, args)
        withArg == Local([plain.s EXCEPT !.heap = Append(@, [map |-> arg, meta |-> 0])], plain.env, "arg",
                         << "table", Len(s.heap) + 1 >>)
        inner == IF dots THEN withArg ELSE plain
        r == Run(inner.s, inner.env, f.body)
    IN IF s.err THEN [s |-> s, vs |-> << >>]
       ELSE IF v[1] # "function" THEN (IF h = NilV THEN Error(s, StrV("attempt to call")) ELSE Apply(s, h, << v >> \o args))
       ELSE IF f.native # "" THEN Native(s, f.native, args)
       ELSE [s |-> r.s, vs |-> r.vs]

-----------------------------------------------------------------------------
(* Statements: out is how they end, "next", "break" or "return" with vs *)

Out(s, out) == [s |-> s, out |-> out, vs |-> << >>]

DoLoop(s, env, cond, body) ==
    LET c == Eval(s, env, cond)
        t == Truth(c.s, First(c))
        r == Run(t.s, env, body)
    IN IF s.err \/ t.s.err \/ ~t.b THEN Out(t.s, "next")
       ELSE IF r.out = "next" THEN Loop(r.s, env, cond, body)
       ELSE IF r.out = "break" THEN Out(r.s, "next") ELSE r

\* The condition sees the variables of the body: it is the last of its statements.
DoRepeat(s, env, cond, body) ==
    LET r == Run(s, env, body \o << << "until", cond >> >>)
    IN IF r.s.err \/ r.out = "until" THEN Out(r.s, "next")
       ELSE IF r.out = "next" THEN Repeat(r.s, env, cond, body)
       ELSE IF r.out = "break" THEN Out(r.s, "next") ELSE r

DoCount(s, env, name, i, limit, step, body) ==
    LET inner == Local(s, env, name, NumV(i))
        r == Run(inner.s, inner.env, body)
    IN IF s.err \/ (step > 0 /\ i > limit) \/ (step <= 0 /\ i < limit) THEN Out(s, "next")
       ELSE IF r.out = "next" THEN Count(r.s, env, name, i + step, limit, step, body)
       ELSE IF r.out = "break" THEN Out(r.s, "next") ELSE r

DoEach(s, env, names, f, state, control, body) ==
    LET c == Apply(s, f, << state, control >>)
        inner == Locals(c.s, env, names, c.vs)
        r == Run(inner.s, inner.env, body)
    IN IF c.s.err \/ First(c) = NilV THEN Out(c.s, "next")
       ELSE IF r.out = "next" THEN Each(r.s, env, names, f, state, First(c), body)
       ELSE IF r.out = "break" THEN Out(r.s, "next") ELSE r

\* A variable is set, an element of a table or a global too; what is indexed is known.
Store(s, env, target, v) ==
    CASE target[1] = "cell" -> IF s.err THEN s ELSE [s EXCEPT !.cells[target[2]] = v]
      [] OTHER              -> NewIndex(s, target[2], target[3], v)

\* The places of variables: [s, places]
Places(s, env, targets) ==
    FoldLeft(LAMBDA r, t :
                LET a == Eval(r.s, env, t[2])
                    b == Eval(a.s, env, t[3])
                IN IF t[1] = "index" THEN [s |-> b.s, places |-> Append(r.places, << "at", First(a), First(b) >>)]
                   ELSE IF t[2] \in DOMAIN env.vars
                   THEN [s |-> r.s, places |-> Append(r.places, << "cell", env.vars[t[2]] >>)]
                   ELSE [s |-> r.s, places |-> Append(r.places, << "at", G, StrV(t[2]) >>)],
             [s |-> s, places |-> << >>], targets)

Assign(s, env, targets, es) ==
    LET p == Places(s, env, targets)
        r == EvalAll(p.s, env, es)
    IN FoldRight(LAMBDA i, x : Store(x, env, p.places[i], IF i <= Len(r.vs) THEN r.vs[i] ELSE NilV),
                 [i \in DOMAIN targets |-> i], r.s)

\* The tree of a.b.c
PathTo(names) ==
    IF Len(names) = 1 THEN << "name", names[1] >> ELSE << "index", PathTo(Front(names)), << "str", Last(names) >> >>

\* A statement that declares no variable
Do(s, env, t) ==
    LET c == Eval(s, env, t[2])
        b == Truth(c.s, First(c))
        r == EvalAll(s, env, t[2])
        l == EvalAll(s, env, t[3])
        n == [i \in DOMAIN l.vs |-> Numeral(l.vs[i])]
    IN CASE t[1] = "set"    -> Out(Assign(s, env, t[2], t[3]), "next")
         [] t[1] = "do"     -> Out(c.s, "next")
         [] t[1] = "block"  -> Run(s, env, t[2])
         [] t[1] = "while"  -> Loop(s, env, t[2], t[3])
         [] t[1] = "repeat" -> Repeat(s, env, t[3], t[2])
         [] t[1] = "until"  -> Out(b.s, IF b.b THEN "until" ELSE "next")
         [] t[1] = "if"     -> IF b.s.err THEN Out(b.s, "next") ELSE Run(b.s, env, IF b.b THEN t[3] ELSE t[4])
         [] t[1] = "for"    -> IF \E i \in DOMAIN n : n[i][1] # "number" THEN Out(Error(l.s, StrV("must be a number")).s, "next")
                               ELSE Count(l.s, env, t[2], n[1][2], n[2][2], IF Len(n) > 2 THEN n[3][2] ELSE 1, t[4])
         [] t[1] = "in"     -> LET At3(i) == IF i <= Len(l.vs) THEN l.vs[i] ELSE NilV
                               IN Each(l.s, env, t[2], At3(1), At3(2), At3(3), t[4])
         [] t[1] = "return" -> [s |-> r.s, out |-> "return", vs |-> r.vs]
         [] t[1] = "break"  -> Out(s, "break")
         [] t[1] = "method" -> LET place == PathTo(IF t[3] = "" THEN t[2] ELSE Append(t[2], t[3]))
                                   params == IF t[3] = "" THEN t[4] ELSE << "self" >> \o t[4]
                               IN Out(Assign(s, env, << place >>, << << "fn", params, t[5] >> >>), "next")

DoRun(s, env, block) ==
    LET t == Head(block)
        r == EvalAll(s, env, t[3])
        declared == Locals(r.s, env, t[2], r.vs)
        named == Local(s, env, t[2], NilV)
        f == Fn(named.s, named.env, t[3], t[4])
        function == [f.s EXCEPT !.cells[Len(named.s.cells)] = First(f)]
        done == Do(s, env, t)
    IN IF block = << >> \/ s.err THEN Out(s, "next")
       ELSE IF t[1] = "local" THEN Run(declared.s, declared.env, Tail(block))
       ELSE IF t[1] = "function" THEN Run(function, named.env, Tail(block))
       ELSE IF done.out = "next" THEN Run(done.s, env, Tail(block)) ELSE done

Go(what, s, x, y) ==
    CASE what = "value"    -> DoEval(s, x, y)
      [] what = "values"   -> DoEvalAll(s, x, y)
      [] what = "items"    -> DoItems(s, x, y[1], y[2], y[3])
      [] what = "apply"    -> DoApply(s, x, y)
      [] what = "index"    -> DoIndex(s, x, y)
      [] what = "newindex" -> DoNewIndex(s, x, y[1], y[2])
      [] what = "truth"    -> DoTruth(s, x)
      [] what = "run"      -> DoRun(s, x, y)
      [] what = "loop"     -> DoLoop(s, x, y[1], y[2])
      [] what = "repeat"   -> DoRepeat(s, x, y[1], y[2])
      [] what = "count"    -> DoCount(s, x, y[1], y[2], y[3], y[4], y[5])
      [] what = "each"     -> DoEach(s, x, y[1], y[2], y[3], y[4], y[5])

\* The results of a script and its globals, or that it fails
Meaning(block, natives) ==
    LET global == [k \in {StrV(natives[i]) : i \in DOMAIN natives} |-> << "function", SelectInSeq(natives, LAMBDA x : x = k[2]) >>]
        start == [cells |-> << >>, heap |-> << [map |-> global @@ (StrV("_G") :> G), meta |-> 0] >>,
                  fns |-> [i \in DOMAIN natives |-> [native |-> natives[i], params |-> << >>, body |-> << >>, vars |-> << >>]],
                  err |-> FALSE, exc |-> NilV]
        r == Run(start, [vars |-> << >>, dots |-> << >>], block)
    IN IF r.s.err THEN << "error" >> ELSE << "done", r.vs, r.s.heap[1].map >>
=============================================================================
