----------------------------- MODULE MCInstall -----------------------------
EXTENDS Install

\* An absolute text, one that names a directory, one that names a file
Abs(parts)  == Text(TRUE, parts, TRUE)
Glued(parts) == Text(TRUE, parts, FALSE)
Rel(parts)  == Text(FALSE, parts, FALSE)

MCOrder     == << "prog", "lib" >>
MCSourceDir == << "src" >>
MCBuildDir  == << "build" >>
MCOutput == [prog |-> "prog", lib |-> "lib.a"]
MCDir    == [prog |-> << "." >>, lib |-> << ".", "lib" >>]

\* A program and a library that install their outputs, somewhere; and one that installs
\* files of its sources, under their name or a new one
Somewhere == UNION {[1 .. n -> {"a", ".", ".."}] : n \in 0 .. 3}
MCScripts ==
    {[prog |-> << << Rel(p) >> >>, lib |-> << << >>, << Rel(<< "a" >>) >> >>] : p \in Somewhere}
    \cup
    {[prog |-> << << Rel(<< "doc" >>), d >>, << Rel(<< "a" >>) >> >>,
      lib  |-> << << Rel(<< "..", "doc" >>), d, Rel(<< "note" >>) >> >>] :
         d \in {Rel(<< "a" >>), Rel(<< "b" >>), Glued(<< "opt", "b" >>)}}

\* One DESTDIR is a directory, one names nothing: it climbs above the root.
MCPrefixes   == {NoText, Abs(<< "opt", "a" >>)}
MCDestDirs   == {NoText, Rel(<< "stage" >>), Abs(<< "..", "stage" >>)}
MCSelections == {<< >>, << "lib", "prog" >>, << "prog", "none" >>}

Tree == {<< >>, << "usr" >>, << "usr", "a" >>, << "opt" >>, << "opt", "a" >>, << "opt", "a", "a" >>,
         << "src" >>, << "src", "lib" >>, << "build" >>, << "build", "lib" >>,
         << "build", "stage" >>, << "build", "stage", "a" >>}
Foreign == << "usr", "a", "lib.a" >> :> Other @@ << "usr", "doc" >> :> Other
MCDisks == {[files |-> Foreign, dirs |-> Tree],
            [files |-> << >>, dirs |-> {d \in Tree : d = << >> \/ d[1] \in {"src", "build"}}]}

\* The prefix as it is usually given, and a file with a new name
GluedPrefixes == {Glued(<< "opt", "a" >>)}
NoteScripts ==
    {[prog |-> << << Rel(<< "doc" >>), Rel(<< "b" >>), Rel(<< "note" >>) >> >>, lib |-> << >>]}
=============================================================================
