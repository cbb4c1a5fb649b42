------------------------------- MODULE MCLua -------------------------------
(* Scripts for TLC: the machine's results are compared with their meaning. *)
EXTENDS LuaVM
LOCAL INSTANCE SequencesExt
LOCAL INSTANCE TLC

Lua == INSTANCE LuaMeaning
S == INSTANCE MCScripts

Keys == ({"condition"} \X S!Conditions) \cup ({"program"} \X (1 .. Len(S!Programs))) \cup ({"scoped"} \X (1 .. Len(S!Scoped)))

Tree(k) == CASE k[1] = "condition" -> S!ConditionScript(k[2])
             [] k[1] = "program"   -> S!ProgramScript(k[2])
             [] k[1] = "scoped"    -> S!ScopedScript(k[2])

MCTokens(k) == Lua!WriteBlock(Tree(k))

Means(k) == Lua!Meaning(Tree(k), Natives)

\* What is seen of a value: a scope counts as its truth, other tables and functions are all alike.
Seen(global, vs) ==
    LET scope(v, name) == Str(name) \in DOMAIN global /\ v = global[Str(name)]
        See(v) == CASE scope(v, "_meiqueNone")    -> Bool(FALSE)
                    [] scope(v, "_meiqueNotNone") -> Bool(TRUE)
                    [] OTHER -> IF IsTable(v) \/ IsFunction(v) THEN << v[1] >> ELSE v
    IN [i \in DOMAIN vs |-> See(vs[i])]

ResultIsMeant ==
    CASE m.status = "running" -> TRUE
      [] m.status = "error"   -> Means(script) = << "error" >>
      [] m.status = "done"    -> /\ Means(script)[1] = "done"
                                 /\ Seen(m.heap[1].map, m.results) = Seen(Means(script)[3], Means(script)[2])
=============================================================================
