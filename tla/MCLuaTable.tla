----------------------------- MODULE MCLuaTable -----------------------------
(***************************************************************************)
(* A table of a few integers, with the hashes their doubles have, and two  *)
(* strings that collide with them and with each other, or do not.          *)
(***************************************************************************)
EXTENDS LuaTable, TLC

CONSTANTS s1, s2

MCPlace == {s1, s2}

Places == Permutations(MCPlace)

(* The upper half of the double; the lower one is zero.                    *)
MCIntHash == [i \in Index |->
    CASE i = 1 -> 1072693248 [] i = 2 -> 1073741824 [] i = 3 -> 1074266112
      [] i = 4 -> 1074790400 [] OTHER -> 1075052544]
=============================================================================
