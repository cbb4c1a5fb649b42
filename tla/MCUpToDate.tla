----------------------------- MODULE MCUpToDate -----------------------------
EXTENDS UpToDate

\* A program made of one file and a static library of one file, with a header they
\* share, from which a custom target generates what the program needs too.
MCTargets == {"app", "lib", "gen"}
MCFiles   == {"app.c", "lib.c"}
MCOthers  == {"api.h"}
MCDepsOf  == [t \in MCTargets |-> IF t = "app" THEN {"lib", "gen"} ELSE {}]
MCFilesOf == [t \in MCTargets |-> CASE t = "app" -> {"app.c"}
                                    [] t = "lib" -> {"lib.c"}
                                    [] t = "gen" -> {"api.h"}]
MCIncludes == [f \in MCFiles |-> {"api.h"}]

\* Builds of everything, and of the library alone
MCSelections == {MCTargets, {"lib"}}
=============================================================================
