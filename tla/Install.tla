------------------------------- MODULE Install -------------------------------
(***************************************************************************)
(* meique -i and meique -u, one run after the other: installTargets and    *)
(* uninstallTargets of MeiqueScript (meiquescript.cpp), OS::install and    *)
(* OS::uninstall (os_unix.cpp), which run install(1) and unlink(2) for one *)
(* file after the other. A run may be killed between two files.            *)
(*                                                                         *)
(* The file system is the places that are regular files, with what is in   *)
(* them, and the places that are directories.                              *)
(***************************************************************************)
EXTENDS Paths

CONSTANTS
    Order,         \* MeiqueScript::targetNames()
    Output,        \* _output of every target, a name
    Dir,           \* _dir of every target, relative to the source and the build directory
    SourceDir,     \* MeiqueCache::sourceDir()
    BuildDir,      \* the working directory
    Scripts,       \* what _installFiles of the targets may be
    InstallPrefixes, \* values of --install-prefix, NoText when it is not given
    DestDirs,      \* values of DESTDIR, NoText when it is not set
    Selections,    \* target names on the command line
    Disks,         \* [files, dirs] there may be before the first run
    MaxRev         \* bound on how often a source is made

Targets == {Order[i] : i \in DOMAIN Order}

Instructions == UNION {ToSet(s[t]) : s \in Scripts, t \in Targets}

ASSUME InstallAssumption ==
    /\ Order \in Seq(STRING) /\ IsInjective(Order) /\ Selections \subseteq Seq(STRING)
    /\ Output \in [Targets -> Part] /\ \A t \in Targets : ~Special(Output[t])
    /\ Dir \in [Targets -> Seq(Part)] /\ SourceDir \in Seq(Part) /\ BuildDir \in Seq(Part)
    /\ Scripts \subseteq [Targets -> Seq(Seq(Texts))]
    /\ InstallPrefixes \subseteq Texts /\ DestDirs \subseteq Texts
    /\ MaxRev \in Nat
    /\ \A d \in Disks : /\ DOMAIN d.files \cap d.dirs = {}
                        /\ \A place \in DOMAIN d.files : d.files[place].rev \in 0 .. MaxRev

\* What is made of two parts without a separator between them is a part.
ASSUME GlueAssumption ==
    \A p \in InstallPrefixes, instruction \in Instructions : \A k \in DOMAIN instruction :
        Concat(p, instruction[k]).parts \in Seq(Part)

\* The default prefix is a part like any other.
ASSUME PartAssumption == "usr" \in Part

VARIABLES
    installFiles,  \* _installFiles of every target: instructions of one to three texts
    prefix,        \* MeiqueCache::m_installPrefix
    files,         \* what is in each regular file: of which source, in which revision
    dirs,          \* the directories
    command,       \* "-i" or "-u"
    names,         \* the names on the command line
    destDir,       \* DESTDIR
    todo,          \* the targets the loop has still to look at
    target,        \* the one it is at
    instructions,  \* the instructions of that target it has still to look at
    removals,      \* the files of the present instruction that are still to be removed
    result,        \* "running", or how the last run has ended; "none" once things changed
    put,           \* history: the places installs have written to and that are still there
    clean,         \* history: was nothing installed when this run began?
    undoes         \* history: does this run uninstall just what the run before it installed,
                   \* from a place where nothing was installed?

script == << installFiles, prefix >>
disk   == << files, dirs >>
runVars == << command, names, destDir, todo, target, instructions, removals, result >>
history == << put, clean, undoes >>
vars   == << script, disk, runVars, history >>

Other == [of |-> << >>, rev |-> 0]

NoTarget == CHOOSE t \in Targets : TRUE

Running == result = "running"

-----------------------------------------------------------------------------
(* Where things are and where they go *)

ConfiguredPrefix == IF prefix = NoText THEN Text(TRUE, << "usr" >>, TRUE) ELSE prefix

\* Fault: DESTDIR is not looked at.
PrefixAsConfigured == [valid |-> TRUE, text |-> ConfiguredPrefix]

\* MeiqueCache::installPrefix throws for a DESTDIR that normalizePath cannot cope with.
InstallPrefix ==
    LET dir == NormalizePath(destDir, BuildDir)
    IN IF destDir = NoText THEN PrefixAsConfigured
       ELSE [valid |-> dir.valid, text |-> Text(TRUE, dir.path, TRUE)]

\* normalizeDirPath(m_cache.installPrefix() + text)
DirBelow(p, text) == IF p.valid THEN NormalizePath(Concat(p.text, text), BuildDir) ELSE Invalid

OutputText(t) == Text(FALSE, Dir[t] \o << Output[t] >>, FALSE)

IsTargetInstall(instruction) == Len(instruction) = 1
DestIsFile(instruction) == Len(instruction) = 3

\* Fault: a relative source is looked for in the build directory.
SourceInBuildDir(t, instruction) ==
    NormalizePath(IF IsTargetInstall(instruction) THEN OutputText(t) ELSE instruction[1], BuildDir)

Source(t, instruction) ==
    NormalizePath(IF IsTargetInstall(instruction) THEN OutputText(t)
                  ELSE IF instruction[1].abs THEN instruction[1]
                  ELSE Concat(Text(TRUE, SourceDir \o Dir[t], TRUE), instruction[1]), BuildDir)

\* The last argument of install(1), as a path; without newName it ends with a separator.
Dest(t, instruction) ==
    LET dir == IF IsTargetInstall(instruction) THEN DirBelow(InstallPrefix, instruction[1])
               ELSE IF instruction[2].abs THEN NormalizePath(instruction[2], BuildDir)
               ELSE DirBelow(InstallPrefix, instruction[2])
    IN IF dir.valid /\ DestIsFile(instruction) THEN Valid(dir.path \o instruction[3].parts)
       ELSE dir

\* Fault: a target goes by its name, not by its output.
RemovalsByName(t, instruction) ==
    << Append(DirBelow(InstallPrefix, instruction[1]).path, t) >>

\* What uninstallTargets looks for: the first text counts as the directory of all others.
Removals(t, instruction) ==
    LET dir == DirBelow(InstallPrefix, instruction[1]).path
    IN IF IsTargetInstall(instruction) THEN << Append(dir, Output[t]) >>
       ELSE [i \in 1 .. Len(instruction) - 1 |-> Append(dir, BaseName(instruction[i + 1]))]

-----------------------------------------------------------------------------
(* install -C -D [-T] and unlink *)

Exists(path) == Ancestors(path) \subseteq dirs /\ Resolve[path] \in DOMAIN files

\* The place install(1) writes to: into a directory that exists, or to the path itself.
Place(from, to, asFile) ==
    IF ~asFile /\ Resolve[to] \in dirs THEN Append(Resolve[to], Last(from)) ELSE Resolve[to]

\* The directories it makes on the way, up to a file that is in the way
MadeFor(to) ==
    LET way(k) == Resolve[SubSeq(to, 1, k)]
    IN {way(k) : k \in {i \in 0 .. Len(to) - 1 : \A j \in 0 .. i : way(j) \notin DOMAIN files}}

\* A path that ends with a separator is no file.
Installs(from, to, asFile) ==
    /\ Exists(from) /\ Ancestors(to) \cap DOMAIN files = {}
    /\ asFile \/ Resolve[to] \in dirs
    /\ Place(from, to, asFile) \notin dirs \cup MadeFor(to)

\* The files with one more, or with something else in one
Holding(place, content) ==
    [p \in DOMAIN files \cup {place} |-> IF p = place THEN content ELSE files[p]]

RunInstall(from, to, asFile) ==
    /\ dirs' = dirs \cup MadeFor(to)
    /\ IF Installs(from, to, asFile)
       THEN LET place == Place(from, to, asFile) IN
            /\ files' = Holding(place, files[Resolve[from]])
            /\ put' = put \cup {place}
       ELSE UNCHANGED << files, put >>

-----------------------------------------------------------------------------
\* The loops are left for good.
Stop(how) ==
    /\ result' = how
    /\ todo' = << >> /\ target' = NoTarget /\ instructions' = << >> /\ removals' = << >>

Throw == Stop("error")

Init ==
    /\ installFiles \in Scripts /\ prefix \in InstallPrefixes
    /\ \E d \in Disks : files = d.files /\ dirs = d.dirs
    /\ command = "-i" /\ names = << >> /\ destDir = NoText
    /\ todo = << >> /\ target = NoTarget /\ instructions = << >> /\ removals = << >>
    /\ result = "none"
    /\ put = {} /\ clean = TRUE /\ undoes = FALSE

\* The user runs meique again. installTargets and uninstallTargets begin alike.
Start ==
    /\ ~Running
    /\ command' \in {"-i", "-u"} /\ names' \in Selections /\ destDir' \in DestDirs
    /\ todo' = IF names' = << >> THEN Order ELSE names'
    /\ result' = "running"
    /\ clean' = (put = {})
    /\ undoes' = /\ command = "-i" /\ command' = "-u" /\ clean
                 /\ names' = names /\ destDir' = destDir
    /\ UNCHANGED << script, disk, target, instructions, removals, put >>

\* The user makes a source: a build, or an edit.
Make ==
    /\ ~Running
    /\ \E t \in Targets : \E i \in {k \in DOMAIN installFiles[t] : installFiles[t][k] # << >>} :
          LET place == Resolve[Source(t, installFiles[t][i]).path]
              rev == IF place \in DOMAIN files THEN files[place].rev + 1 ELSE 1
          IN /\ rev <= MaxRev /\ place \notin dirs
             /\ files' = Holding(place, [of |-> place, rev |-> rev])
    /\ result' = "none"
    /\ UNCHANGED << script, dirs, command, names, destDir, todo, target, instructions, removals,
                    history >>

AtInstruction == Running /\ removals = << >> /\ instructions # << >>

\* The next target. One that does not exist is nil, and the first field that is asked of
\* it ends the program: no Lua call protects it.
NextTarget ==
    /\ Running /\ removals = << >> /\ instructions = << >> /\ todo # << >>
    /\ IF Head(todo) \in Targets
       THEN /\ target' = Head(todo) /\ instructions' = installFiles[Head(todo)]
            /\ todo' = Tail(todo)
            /\ UNCHANGED << removals, result >>
       ELSE Stop("panic")
    /\ UNCHANGED << script, disk, command, names, destDir, history >>

\* An instruction without texts is passed over.
SkipInstruction ==
    /\ AtInstruction /\ Head(instructions) = << >>
    /\ instructions' = Tail(instructions)
    /\ UNCHANGED << script, disk, command, names, destDir, todo, target, removals, result,
                    history >>

\* OS::install
InstallFile ==
    /\ AtInstruction /\ Head(instructions) # << >> /\ command = "-i"
    /\ LET instruction == Head(instructions)
           from == Source(target, instruction)
           to == Dest(target, instruction)
           asFile == DestIsFile(instruction)
       IN IF from.valid /\ to.valid
          THEN /\ RunInstall(from.path, to.path, asFile)
               /\ IF Installs(from.path, to.path, asFile)
                  THEN /\ instructions' = Tail(instructions)
                       /\ UNCHANGED << todo, target, removals, result >>
                  ELSE Throw
          ELSE Throw /\ UNCHANGED << disk, put >>
    /\ UNCHANGED << script, command, names, destDir, clean, undoes >>

BeginUninstall ==
    /\ AtInstruction /\ Head(instructions) # << >> /\ command = "-u"
    /\ IF DirBelow(InstallPrefix, Head(instructions)[1]).valid
       THEN /\ removals' = Removals(target, Head(instructions))
            /\ instructions' = Tail(instructions)
            /\ UNCHANGED << todo, target, result >>
       ELSE Throw
    /\ UNCHANGED << script, disk, command, names, destDir, history >>

\* OS::uninstall
UninstallFile ==
    /\ Running /\ removals # << >>
    /\ IF Exists(Head(removals))
       THEN LET gone == Resolve[Head(removals)] IN
            /\ removals' = Tail(removals)
            /\ files' = [place \in DOMAIN files \ {gone} |-> files[place]]
            /\ put' = put \ {gone}
            /\ UNCHANGED << todo, target, instructions, result >>
       ELSE Throw /\ UNCHANGED << files, put >>
    /\ UNCHANGED << script, dirs, command, names, destDir, clean, undoes >>

Return ==
    /\ Running /\ removals = << >> /\ instructions = << >> /\ todo = << >>
    /\ Stop("ok")
    /\ UNCHANGED << script, disk, command, names, destDir, history >>

Kill ==
    /\ Running
    /\ Stop("killed")
    /\ UNCHANGED << script, disk, command, names, destDir, history >>

Next ==
    \/ Start \/ Make \/ NextTarget \/ SkipInstruction \/ InstallFile \/ BeginUninstall
    \/ UninstallFile \/ Return \/ Kill

Spec == Init /\ [][Next]_vars

-----------------------------------------------------------------------------
(* What is asked for: the prefix is the directory all others are in. *)

\* Every variable has its type, no place is both a file and a directory, and a run that
\* has ended has nothing left to do.
TypeOK ==
    /\ installFiles \in Scripts /\ prefix \in InstallPrefixes /\ destDir \in DestDirs \cup {NoText}
    /\ DOMAIN files \cap dirs = {} /\ \A place \in DOMAIN files : files[place].rev \in 0 .. MaxRev
    /\ command \in {"-i", "-u"} /\ target \in Targets \cup {NoTarget}
    /\ result \in {"none", "running", "ok", "error", "panic", "killed"}
    /\ ~Running => todo = << >> /\ instructions = << >> /\ removals = << >>
    /\ put \subseteq DOMAIN files

Chosen == IF names = << >> THEN Targets ELSE Targets \cap ToSet(names)

\* The instructions of the script, and of the targets the command line names
InstructionsOf(S) == {a \in UNION {{t} \X ToSet(installFiles[t]) : t \in S} : a[2] # << >>}
Installable == InstructionsOf(Targets)
Asked       == InstructionsOf(Chosen)

DestDirPath == IF destDir.abs THEN destDir.parts ELSE BuildDir \o destDir.parts

PrefixDir ==
    IF destDir # NoText THEN Resolve[DestDirPath]
    ELSE IF ConfiguredPrefix.abs THEN ConfiguredPrefix.parts
    ELSE BuildDir \o ConfiguredPrefix.parts

DestPath(instruction) ==
    IF IsTargetInstall(instruction) THEN PrefixDir \o instruction[1].parts
    ELSE IF instruction[2].abs THEN instruction[2].parts
    ELSE PrefixDir \o instruction[2].parts

\* What the instruction installs
WantedPath(t, instruction) ==
    IF IsTargetInstall(instruction) THEN BuildDir \o Dir[t] \o << Output[t] >>
    ELSE IF instruction[1].abs THEN instruction[1].parts
    ELSE SourceDir \o Dir[t] \o instruction[1].parts

Wanted(t, instruction) == Resolve[WantedPath(t, instruction)]

Destination(t, instruction) ==
    IF DestIsFile(instruction) THEN Resolve[DestPath(instruction) \o instruction[3].parts]
    ELSE Append(Resolve[DestPath(instruction)], Last(WantedPath(t, instruction)))

\* Do prefix and directory make the path they are meant to make, and is the source found?
\* A prefix that ends without a separator runs into the directory, and some paths with "."
\* and ".." lead elsewhere.
Plain(t, instruction) ==
    /\ IF destDir = NoText THEN prefix = NoText \/ prefix.slash
       ELSE IsPlainPath(DestDirPath) /\ NoRowOf(2, DestDirPath)
    /\ IsPlainPath(DestPath(instruction)) /\ IsPlainPath(WantedPath(t, instruction))
    /\ WantedPath(t, instruction) # << >> /\ ~Special(Last(WantedPath(t, instruction)))

\* No file goes where another one goes or comes from.
Apart(S) ==
    \A a, b \in S :
        /\ Destination(a[1], a[2]) # Wanted(b[1], b[2])
        /\ Destination(a[1], a[2]) = Destination(b[1], b[2]) => a = b

\* The instructions the loops meet, each with its number, and the file an uninstall removes
Steps == UNION {{t} \X {k \in DOMAIN installFiles[t] : installFiles[t][k] # << >>} : t \in Chosen}

Removed(step) == Resolve[Head(Removals(step[1], installFiles[step[1]][step[2]]))]

\* Is no target named twice, and no file removed by two of the steps?
NoneTwice == IsInjective(names) /\ \A a, b \in Steps : Removed(a) = Removed(b) => a = b

TargetInstallsOnly == \A a \in Installable : IsTargetInstall(a[2])

-----------------------------------------------------------------------------
\* A normalized path names the place its text names, if it is one of those the loop can
\* cope with; unless two parts in a row are "." or "..", it has neither of them.
\* (OS::normalizePath)
NormalizedInPlace ==
    \A a \in Installable : \A k \in DOMAIN a[2] :
        LET path == BuildDir \o a[2][k].parts
            normal == NormalizePath(Text(TRUE, path, FALSE), BuildDir)
        IN IsPlainPath(path) =>
               /\ normal.valid
               /\ Resolve[normal.path] = Resolve[path]
               /\ NoRowOf(2, path) => normal.path = Resolve[path]

\* An install that reports success has put the present revision of every file where its
\* instruction says, whatever was there before and whatever stopped earlier runs.
SuccessMeansInstalled ==
    result = "ok" /\ command = "-i" /\ (\A a \in Asked : Plain(a[1], a[2])) /\ Apart(Asked) =>
        \A a \in Asked :
            /\ Wanted(a[1], a[2]) \in DOMAIN files /\ Destination(a[1], a[2]) \in DOMAIN files
            /\ files[Destination(a[1], a[2])] = files[Wanted(a[1], a[2])]

\* "Automatic uninstall targets" (meique.1:29): an uninstall leaves nothing of an install
\* before it, even if that was killed or failed at any of its files. Holds for targets
\* that install their outputs, each to a place of its own: both loops then meet the same
\* files in the same order, and the uninstall misses none before the install has stopped.
UninstallUndoesInstall ==
    /\ result \in {"ok", "error", "panic"} /\ undoes /\ TargetInstallsOnly /\ NoneTwice
    => put = {}

\* Runs do not touch files that are none of theirs: what no instruction names stays as it
\* is. Holds of uninstalls for targets that install their outputs.
OthersStay ==
    [][Running /\ (command = "-u" => TargetInstallsOnly) =>
        \A place \in DOMAIN files :
           (\A a \in Installable : Plain(a[1], a[2]) /\ place # Destination(a[1], a[2]))
           => place \in DOMAIN files' /\ files'[place] = files[place]]_vars

\* "this directory is prepended onto all install directories" (meique.1:66): what is
\* installed is in the install directory.
InstallsUnderPrefix ==
    \A place \in put : destDir = NoText => IsPrefix(PrefixDir, place)
=============================================================================
