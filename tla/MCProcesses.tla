---------------------------- MODULE MCProcesses ----------------------------
EXTENDS Processes

Exec(wanted, place, n) == [output |-> wanted, dir |-> place, writes |-> n]

\* Two commands and two Lua functions, one of which asks pkg-config where moc is; and
\* three tests
MCCalls ==
    [ cc   |-> << Exec(FALSE, "build/a", 1) >>,
      link |-> << Exec(FALSE, "build/b", 0) >>,
      moc  |-> << Exec(TRUE, "none", 2), Exec(FALSE, "none", 0) >>,
      gen  |-> << Exec(TRUE, "none", 1) >>,
      main |-> << Exec(TRUE, "build/a", 0), Exec(TRUE, "build/b", 2), Exec(TRUE, "build/a", 1) >> ]

MCWorkDir == [moc |-> "src/a", gen |-> "src/b"]
=============================================================================
