------------------------------ MODULE Projects ------------------------------
(***************************************************************************)
(* The projects the model checker builds: values for the constants of      *)
(* NodeTree.                                                               *)
(***************************************************************************)
EXTENDS NodeTree

\* f with << >> for the nodes it does not mention
OrNothing(f) == [n \in Node |-> IF n \in DOMAIN f THEN f[n] ELSE << >>]

\* A program that depends on a library and has a hook: one root, two levels.
AppTargets == {"app", "lib"}
AppHooks   == {"app hook"}
AppFiles   == {"app.cpp", "lib.c", "lib.cpp"}
AppDeps    == OrNothing([n \in {"app"} |-> << "lib" >>])
AppHookOf  == OrNothing([n \in {"app"} |-> << "app hook" >>])
AppFilesOf == OrNothing([n \in {"app", "lib"} |->
                          IF n = "app" THEN << "app.cpp" >> ELSE << "lib.c", "lib.cpp" >>])

\* Two targets under a fake root: a custom target, and a program of two files with a
\* hook that depends on another custom target.
MixTargets == {"gen", "tool", "prog"}
MixCustom  == {"gen", "tool"}
MixHooks   == {"prog hook"}
MixFiles   == {"a.c", "b.c"}
MixDeps    == OrNothing([n \in {"fakeroot", "prog"} |->
                          IF n = "prog" THEN << "tool" >> ELSE << "gen", "prog" >>])
MixHookOf  == OrNothing([n \in {"prog"} |-> << "prog hook" >>])
MixFilesOf == OrNothing([n \in {"prog"} |-> << "a.c", "b.c" >>])

\* A program of one file
OneFilesOf == OrNothing([n \in {"prog"} |-> << "a.c" >>])

\* A custom target next to a program with a hook: both kinds of Lua jobs.
DuoTargets == {"gen", "prog"}
DuoHooks   == {"prog hook"}
DuoHookOf  == OrNothing([n \in {"prog"} |-> << "prog hook" >>])
DuoDeps    == OrNothing([n \in {"fakeroot"} |-> << "gen", "prog" >>])

Nothing == OrNothing([n \in {} |-> << >>])
=============================================================================
