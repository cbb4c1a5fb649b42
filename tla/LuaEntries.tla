----------------------------- MODULE LuaEntries -----------------------------
(***************************************************************************)
(* What a script may expect of a Lua table: entries that assignments       *)
(* change one at a time, and traversals (pairs, lua_next) that meet every  *)
(* entry once, provided the loop assigns to existing entries only.         *)
(***************************************************************************)
CONSTANTS Key, Value, Nil, Idle, Start

VARIABLES
    entries,   \* the value of every key; Nil: none
    cursor,    \* Idle: no traversal; Start: one that has met nothing; or the key met last
    met        \* the entries the traversal has met, those that are there no more left out

vars == << entries, cursor, met >>

Init == entries = [k \in Key |-> Nil] /\ cursor = Idle /\ met = {}

Assign(k, v) ==
    /\ cursor' = cursor
    /\ met' = IF v = Nil THEN met \ {k} ELSE met
    /\ cursor # Idle => entries[k] # Nil
    /\ entries' = [entries EXCEPT ![k] = v]

Begin == cursor' = Start /\ met' = {} /\ UNCHANGED entries

Meet(k) ==
    /\ cursor # Idle /\ cursor' = k
    /\ k \notin met /\ met' = met \cup {k}
    /\ entries[k] # Nil /\ UNCHANGED entries

End ==
    /\ cursor # Idle /\ cursor' = Idle
    /\ met' = {}
    /\ \A k \in Key \ met : entries[k] = Nil
    /\ UNCHANGED entries

Next ==
    \/ \E k \in Key : Meet(k) \/ \E v \in Value \cup {Nil} : Assign(k, v)
    \/ Begin
    \/ End

Spec == Init /\ [][Next]_vars
=============================================================================
