--------------------------- MODULE MCTargetTree ---------------------------
EXTENDS TargetTree

\* Three targets with any dependencies, so one order stands for all of them.
MCTargets == 1 .. 3
MCNodes   == 0 .. 3
MCOrder   == << 0, 1, 2, 3 >>

\* A program and two archives; a shared library, an archive and a custom target
MCKinds == {<< "program", "static", "static" >>, << "shared", "static", "custom" >>}

\* Nothing, one target, two targets, and a name that is no target
MCSelections == {<< >>, << 1 >>, << 2, 3 >>, << 1, 4 >>}
MCExclusions == {{}, {1}, {3}}
=============================================================================
