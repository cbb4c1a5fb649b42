----------------------------- MODULE TreeSearch -----------------------------
(***************************************************************************)
(* findAGoodNode once more, call by call as the code makes them. NodeTree  *)
(* states the result of the search without recursion over its calls; this  *)
(* module says that both agree whenever a tree can be searched.            *)
(***************************************************************************)
EXTENDS NodeTree

\* What a call leaves: the node it returns, *target and m_needToWait
Outcome(node, target, wait) == [node |-> node, target |-> target, wait |-> wait]

RECURSIVE CallFind(_, _, _), CallChildren(_, _, _)

\* findAGoodNode(target, n)
CallFind(n, target, wait) ==
    LET entered == IF n \in Targets THEN n ELSE target IN
    IF status[n] >= Building THEN Outcome(NoNode, target, wait)
    ELSE IF children[n] = << >> THEN Outcome(n, entered, wait)
    ELSE CallChildren(n, 1, Outcome(NoNode, entered, wait))

\* Its loop from the i-th child of n on, after the calls so far left so
CallChildren(n, i, so) ==
    IF i > Len(children[n])
    THEN IF IsFake(n) THEN so
         ELSE IF \E j \in DOMAIN children[n] : IsUnbuilt(children[n][j])
         THEN [so EXCEPT !.wait = TRUE]
         ELSE [so EXCEPT !.node = n]
    ELSE LET child == children[n][i]
             hasDependenceBuilding == \E j \in 1 .. i : /\ children[n][j] \notin Files
                                                        /\ IsUnbuilt(children[n][j])
             after == IF (hasDependenceBuilding /\ child \in Files) \/ status[child] >= Building
                      THEN so ELSE CallFind(child, so.target, so.wait)
         IN IF after.node # NoNode THEN after ELSE CallChildren(n, i + 1, after)

-----------------------------------------------------------------------------
\* In every state of a build and from every node, the search of NodeTree and the calls
\* of findAGoodNode return the same node and target, or nothing and the same need to
\* wait.
SearchAgrees ==
    \A n \in Node :
        LET called == CallFind(n, NoNode, FALSE) IN
        IF called.node # NoNode
        THEN \E i \in DOMAIN Search(n) :
                /\ FoundAt(Search(n), i)
                /\ Search(n)[i] = called.node
                /\ IsLastTarget(Search(n), i, called.target)
        ELSE FindsNothing(Search(n)) /\ LeavesUnbuilt(Search(n)) = called.wait
=============================================================================
