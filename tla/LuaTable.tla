------------------------------ MODULE LuaTable ------------------------------
(***************************************************************************)
(* The tables of the Lua interpreter (ltable.cpp): an array part, and a    *)
(* hash part whose colliding nodes are chained through its free nodes. An  *)
(* entry set to nil keeps its node until the next rehash; the collector    *)
(* marks its key dead, and the memory of that key may become another       *)
(* string. Scripts assign, traverse and ask for the length; constructors   *)
(* make room beforehand.                                                   *)
(*                                                                         *)
(* Keys are positive integers and strings. A string is the place in memory *)
(* it is at: what it says is only its hash.                                *)
(***************************************************************************)
EXTENDS Integers, Sequences, FiniteSets
LOCAL INSTANCE SequencesExt
LOCAL INSTANCE FiniteSetsExt

CONSTANTS
    Index,       \* the integers used as keys
    IntHash,     \* of each, the sum of the two halves of the double it is
    Place,       \* where strings may be
    Hash,        \* the hashes of strings
    Value, Nil,
    Idle, Start, Invalid,
    MaxArray,    \* bounds on the room a constructor asks for
    MaxNodes

ASSUME TableAssumption ==
    /\ Index \subseteq Nat \ {0} /\ IntHash \in [Index -> Nat] /\ Hash \subseteq Nat
    /\ Nil \notin Value \cup Index \cup Place
    /\ {Idle, Start, Invalid} \cap (Index \cup Place) = {}
    /\ MaxArray \in Nat /\ MaxNodes \in Nat

Key == Index \cup Place

VARIABLES
    t,        \* the table: its array, node and lastfree
    hash,     \* of the string at each place
    cursor,   \* the key lua_next is given: Start for nil; Idle when nothing is traversed,
              \* Invalid after "invalid key to 'next'"
    entries,  \* history: what was assigned to every key last
    met       \* history: the keys the traversal has met that still have a value

vars == << t, hash, cursor, entries, met >>

-----------------------------------------------------------------------------
(* Finding a key *)

NoNode == -1

sizearray(T) == Len(T.array)
sizenode(T)  == Cardinality(DOMAIN T.node)   \* 0: node = dummynode

hashnum(T, n)      == IntHash[n] % (IF sizenode(T) <= 2 THEN 1 ELSE sizenode(T) - 1)
mainposition(T, k) == IF k \in Index THEN hashnum(T, k) ELSE hash[k] % sizenode(T)

arrayindex(T, k) == k \in Index /\ k <= sizearray(T)

(* The nodes from node i on, in the order of their chain.                  *)
Chain(T, i) ==
    LET from[n \in DOMAIN T.node, more \in 0 .. sizenode(T)] ==
            << n >> \o (IF more = 0 \/ T.node[n].next = NoNode THEN << >>
                        ELSE from[T.node[n].next, more - 1])
    IN  from[i, sizenode(T)]

(* The first node of k's chain among the nodes N, or NoNode.               *)
Search(T, k, N) ==
    IF sizenode(T) = 0 THEN NoNode
    ELSE LET chain == Chain(T, mainposition(T, k))
             found == {n \in DOMAIN chain : chain[n] \in N}
         IN  IF found = {} THEN NoNode ELSE chain[Min(found)]

(* What the three searches compare, and what findindex does: to it a dead  *)
(* key still is the key that was there.                                    *)
Holders(T, k) == {i \in DOMAIN T.node : T.node[i].key = k /\ ~T.node[i].dead}
Remains(T, k) == {i \in DOMAIN T.node : T.node[i].key = k}

NodeOf(T, k) == Search(T, k, Holders(T, k))

luaH_get(T, k) ==
    IF arrayindex(T, k) THEN T.array[k]
    ELSE IF NodeOf(T, k) = NoNode THEN Nil
    ELSE T.node[NodeOf(T, k)].val

-----------------------------------------------------------------------------
(* Inserting a key *)

(* Fault: nodes without a value are taken for free.                        *)
novalue(T) == {i \in DOMAIN T.node : i < T.lastfree /\ T.node[i].val = Nil}

(* The nodes getfreepos may find: it goes down from lastfree, and stops at *)
(* the first that never had a key.                                         *)
FreeNodes(T) == {i \in DOMAIN T.node : i < T.lastfree /\ T.node[i].key = Nil}

mustrehash(T, k) ==
    \/ sizenode(T) = 0
    \/ T.node[mainposition(T, k)].val # Nil /\ FreeNodes(T) = {}

newkey(T, k) ==
    LET mp    == mainposition(T, k)
        free  == Max(FreeNodes(T))
        other == mainposition(T, T.node[mp].key)
        prev  == CHOOSE i \in ToSet(Chain(T, other)) : T.node[i].next = mp
        new   == [key |-> k, dead |-> FALSE, val |-> Nil, next |-> NoNode]
    IN  IF T.node[mp].val = Nil
        THEN [T EXCEPT !.node[mp].key = k, !.node[mp].dead = FALSE]
        ELSE IF other # mp
        THEN [T EXCEPT !.lastfree = free, !.node[prev].next = free,
                       !.node[free] = T.node[mp], !.node[mp] = new]
        ELSE [T EXCEPT !.lastfree = free, !.node[mp].next = free,
                       !.node[free] = [new EXCEPT !.next = T.node[mp].next]]

(* luaH_set and the assignment to what it returns, in a table with room.   *)
Put(T, k, v) ==
    IF arrayindex(T, k) THEN [T EXCEPT !.array[k] = v]
    ELSE LET T1 == IF NodeOf(T, k) = NoNode THEN newkey(T, k) ELSE T
         IN  [T1 EXCEPT !.node[NodeOf(T1, k)].val = v]

-----------------------------------------------------------------------------
(* Making room *)

twoto(l)     == 2 ^ l
ceillog2(n)  == CHOOSE l \in 0 .. n : twoto(l) >= n /\ (l = 0 \/ twoto(l - 1) < n)

setarrayvector(A, n) == [i \in 1 .. n |-> IF i <= Len(A) THEN A[i] ELSE Nil]

setnodevector(n) ==
    [i \in 0 .. (IF n = 0 THEN -1 ELSE twoto(ceillog2(n)) - 1)
        |-> [key |-> Nil, dead |-> FALSE, val |-> Nil, next |-> NoNode]]

(* The keys with a value in the order of the nodes, Nil for the others.     *)
HashKeys(T) ==
    [i \in 1 .. sizenode(T) |-> IF T.node[i - 1].val # Nil THEN T.node[i - 1].key ELSE Nil]

(* The keys of the vanishing slice, then those of the hash part from the   *)
(* last node on, are put into the new table. None of these calls rehashes: *)
(* the room was counted.                                                   *)
resize(T, na, nh) ==
    LET nodes == setnodevector(nh)
        empty == [array |-> setarrayvector(T.array, na), node |-> nodes,
                  lastfree |-> Cardinality(DOMAIN nodes)]
        keys  == SelectSeq([i \in 1 .. sizearray(T) |-> i], LAMBDA i : i > na /\ T.array[i] # Nil)
                 \o SelectSeq(Reverse(HashKeys(T)), LAMBDA k : k # Nil)
        new[n \in 0 .. Len(keys)] ==
            IF n = 0 THEN empty ELSE Put(new[n - 1], keys[n], luaH_get(T, keys[n]))
    IN  new[Len(keys)]

luaH_resizearray(T, n) == resize(T, n, sizenode(T))

(* The largest power of two such that more than half of the slots up to it *)
(* are in use.                                                             *)
computesizes(ints) ==
    Max({0} \cup {n \in {twoto(i) : i \in 0 .. Cardinality(ints)} :
                    Cardinality({k \in ints : k <= n}) > n \div 2})

InUse(T) == ({k \in 1 .. sizearray(T) : T.array[k] # Nil} \cup ToSet(HashKeys(T))) \ {Nil}

rehash(T, k) ==
    LET used == InUse(T) \cup {k}
        na   == computesizes(used \cap Index)
    IN  resize(T, na, Cardinality({u \in used : ~(u \in Index /\ u <= na)}))

luaH_set(T, k, v) ==
    IF ~arrayindex(T, k) /\ NodeOf(T, k) = NoNode /\ mustrehash(T, k)
    THEN Put(rehash(T, k), k, v)
    ELSE Put(T, k, v)

-----------------------------------------------------------------------------
(* Traversing, and the length *)

findindex(T, k) ==
    IF k = Start THEN 0
    ELSE IF arrayindex(T, k) THEN k
    ELSE LET i == Search(T, k, Remains(T, k))
         IN  IF i = NoNode THEN -1 ELSE sizearray(T) + i + 1

(* The keys in the order of their slots, Nil for those without a value.    *)
Slots(T) ==
    [i \in 1 .. sizearray(T) |-> IF T.array[i] # Nil THEN i ELSE Nil]
    \o HashKeys(T)

luaH_next(T, k) ==
    LET left == {n \in DOMAIN Slots(T) : n > findindex(T, k) /\ Slots(T)[n] # Nil}
    IN  IF findindex(T, k) = -1 THEN Invalid
        ELSE IF left = {} THEN Idle
        ELSE Slots(T)[Min(left)]

(* The border between i, present or zero, and j, absent, that the halving  *)
(* of the gap leads to.                                                    *)
Halving(T, i, j) ==
    LET gap[n \in 0 .. j] ==
            IF n = 0 THEN << i, j >>
            ELSE LET g == gap[n - 1]
                     m == (g[1] + g[2]) \div 2
                 IN  IF g[2] - g[1] <= 1 THEN g
                     ELSE IF m \in Index /\ luaH_get(T, m) # Nil THEN << m, g[2] >>
                     ELSE << g[1], m >>
    IN  gap[j][1]

(* Goes up from j, a present index or zero, by doubling; TLC's tables are  *)
(* far too small for the linear search after an overflow.                  *)
unbound_search(T, j) ==
    LET up[n \in 0 .. Cardinality(Index)] ==
            IF n = 0 THEN << j, j + 1 >>
            ELSE LET g == up[n - 1]
                 IN  IF g[2] \in Index /\ luaH_get(T, g[2]) # Nil
                     THEN << g[2], 2 * g[2] >> ELSE g
        g == up[Cardinality(Index)]
    IN  Halving(T, g[1], g[2])

luaH_getn(T) ==
    LET j == sizearray(T)
    IN  IF j > 0 /\ T.array[j] = Nil THEN Halving(T, 0, j)
        ELSE IF sizenode(T) = 0 THEN j
        ELSE unbound_search(T, j)

-----------------------------------------------------------------------------

luaH_new(na, nh) == resize([array |-> << >>, node |-> setnodevector(0), lastfree |-> 0], na, nh)

Init ==
    /\ \E na \in 0 .. MaxArray, nh \in 0 .. MaxNodes : t = luaH_new(na, nh)
    /\ hash \in [Place -> Hash]
    /\ cursor = Idle
    /\ entries = [k \in Key |-> Nil] /\ met = {}

(* t[k] = v, the whole of it: in a loop over t only for entries there are, *)
(* what the language asks of a script.                                     *)
luaV_settable(k, v) ==
    /\ cursor # Idle => entries[k] # Nil
    /\ t' = luaH_set(t, k, v)
    /\ entries' = [entries EXCEPT ![k] = v]
    /\ met' = IF v = Nil THEN met \ {k} ELSE met
    /\ UNCHANGED << hash, cursor >>

(* A constructor makes room before it stores its items (OP_SETLIST).       *)
SetList(n) ==
    /\ cursor = Idle /\ n > sizearray(t)
    /\ t' = luaH_resizearray(t, n)
    /\ UNCHANGED << hash, cursor, entries, met >>

Pairs ==
    /\ cursor' = Start /\ met' = {}
    /\ UNCHANGED << t, hash, entries >>

lua_next ==
    /\ cursor \notin {Idle, Invalid}
    /\ cursor' = luaH_next(t, cursor)
    /\ met' = IF cursor' = Idle THEN {} ELSE met \cup {cursor'}
    /\ UNCHANGED << t, hash, entries >>

(* A collection marks the keys of empty entries dead (removeentry). Where  *)
(* a string was that nothing holds any more, another may be afterwards.    *)
Collect ==
    /\ t' = [t EXCEPT !.node = [i \in DOMAIN t.node |->
                 IF t.node[i].val = Nil /\ t.node[i].key \in Place
                 THEN [t.node[i] EXCEPT !.dead = TRUE] ELSE t.node[i]]]
    /\ \E h \in [Place -> Hash] :
          /\ \A p \in Place : p \in InUse(t) \cup {cursor} => h[p] = hash[p]
          /\ hash' = h
    /\ UNCHANGED << cursor, entries, met >>

Next ==
    \/ \E k \in Key, v \in Value \cup {Nil} : luaV_settable(k, v)
    \/ \E n \in 1 .. MaxArray : SetList(n)
    \/ Pairs
    \/ lua_next
    \/ Collect

Spec == Init /\ [][Next]_vars

-----------------------------------------------------------------------------
(* Properties *)

(* Whatever collides, moves, is rehashed or dies, a search finds what was  *)
(* assigned last, and nothing where nothing was (newkey, resize,          *)
(* ltable.cpp:399, 297).                                                   *)
HoldsItsEntries == \A k \in Key : luaH_get(t, k) = entries[k]

(* A loop that clears and replaces entries as it goes meets each that      *)
(* stays once and ends, also when it stands on a key that has died since   *)
(* (luaH_next, findindex, ltable.cpp:137): as in LuaEntries.               *)
Entries == INSTANCE LuaEntries

MeetsEachEntryOnce == Entries!Spec

(* #t is a border whatever the parts are (luaH_getn, ltable.cpp:560): the  *)
(* entry at it is there, the one after it is not.                          *)
LengthIsABorder ==
    LET n == luaH_getn(t)
        Present(i) == i \in Index /\ luaH_get(t, i) # Nil
    IN  (n = 0 \/ Present(n)) /\ ~Present(n + 1)

=============================================================================
