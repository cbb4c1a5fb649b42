------------------------------- MODULE Paths -------------------------------
(***************************************************************************)
(* Paths: what OS::normalizePath and its callers (os_unix.cpp) make of the *)
(* text of a path, and which place of the file system a path names.        *)
(*                                                                         *)
(* A text is whether it begins with a separator, its parts, and whether it *)
(* ends with a separator; split() drops what is empty between separators,  *)
(* so that several separators count as one. A path is its parts, from the  *)
(* root.                                                                   *)
(***************************************************************************)
EXTENDS Integers, SequencesExt

Part == STRING

Text(abs, parts, slash) == [abs |-> abs, parts |-> parts, slash |-> slash]

\* A text without parts is empty or a separator.
Texts == {text \in [abs : BOOLEAN, parts : Seq(Part), slash : BOOLEAN] :
              text.parts = << >> => text.abs = text.slash}

NoText == Text(FALSE, << >>, FALSE)

\* p + q: without a separator between them the last part of p and the first one of q
\* become one.
Concat(p, q) ==
    LET separate == p.slash \/ q.abs \/ p.parts = << >> \/ q.parts = << >>
    IN Text(p.abs \/ (p.parts = << >> /\ q.abs),
            IF separate THEN p.parts \o q.parts
            ELSE Front(p.parts) \o << Last(p.parts) \o Head(q.parts) >> \o Tail(q.parts),
            IF q.parts = << >> THEN p.slash \/ q.slash \/ q.abs ELSE q.slash)

-----------------------------------------------------------------------------
Special(part) == part \in {".", ".."}

Invalid == [valid |-> FALSE, path |-> << >>]
Valid(path) == [valid |-> TRUE, path |-> path]

\* Fault: the parent of a ".." stays.
EraseNothingAbove(path, i) == RemoveAt(path, i)

\* "..": the part before it goes too.
EraseParent(path, i) == RemoveAt(RemoveAt(path, i), i - 1)

\* Where the iterator is after the part that was at i now has gone and the loop has
\* moved on: it skips one part. Behind the last part it wraps to the first one (end() of a
\* list of libstdc++ is its sentinel).
AfterErase(path, i) == IF i = Len(path) + 1 THEN 1 ELSE i + 1

\* One round of the loop of normalizePath, at the part at i
NormalizeStep(path, i) ==
    CASE path[i] = "."  -> LET rest == RemoveAt(path, i) IN << rest, AfterErase(rest, i) >>
      [] path[i] = ".." -> LET rest == EraseParent(path, i) IN << rest, AfterErase(rest, i - 1) >>
      [] OTHER          -> << path, i + 1 >>

\* The loop, from the part at at[2] on
NormalizeFrom[at \in Seq(Part) \X (Nat \ {0})] ==
    IF at[2] > Len(at[1]) THEN Valid(at[1])
    ELSE IF at[2] = 1 /\ at[1][1] = ".." THEN Invalid
    ELSE NormalizeFrom[NormalizeStep(at[1], at[2])]

\* normalizePath of a text, in the working directory pwd. A text that is empty is the root.
NormalizePath(text, pwd) ==
    NormalizeFrom[<< IF text.parts = << >> \/ text.abs THEN text.parts ELSE pwd \o text.parts, 1 >>]

BaseName(text) == Last(text.parts)

-----------------------------------------------------------------------------
(* The place a path names: ".." of the root is the root. *)

Enter(place, part) ==
    CASE part = "."  -> place
      [] part = ".." -> IF place = << >> THEN place ELSE Front(place)
      [] OTHER       -> Append(place, part)

Resolve[path \in Seq(Part)] ==
    IF path = << >> THEN << >> ELSE Enter(Resolve[Front(path)], Last(path))

\* The places on the way to the last part of a path
Ancestors(path) == {Resolve[SubSeq(path, 1, k)] : k \in 0 .. Len(path) - 1}

\* Does the path never go above the root on its way?
StaysBelowRoot(path) ==
    \A k \in 1 .. Len(path) :
        path[k] = ".." => Resolve[SubSeq(path, 1, k - 1)] # << >>

\* There are no n parts in a row that are "." or "..".
NoRowOf(n, path) ==
    ~\E k \in 1 .. Len(path) : \A j \in k .. k + n - 1 : j <= Len(path) /\ Special(path[j])

\* The paths normalizePath can cope with: they stay below the root; three parts in a row
\* are never "." or ".."; and where two are, the last part is not, from which the loop would
\* begin again at the first one.
IsPlainPath(path) ==
    /\ StaysBelowRoot(path) /\ NoRowOf(3, path)
    /\ path # << >> /\ Special(Last(path)) => NoRowOf(2, path)
=============================================================================
