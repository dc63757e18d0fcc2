--------------------------- MODULE MCAccountTables ----------------------------
(***************************************************************************)
(* Instances of AccountTables for TLC.                                     *)
(***************************************************************************)
EXTENDS AccountTables, TLC

CONSTANTS asset, holding

OnePair == {{asset, holding}}
Alike   == Permutations(Accounts) \cup Permutations(Values)
=============================================================================
