---------------------------- MODULE MCOwnerLists ----------------------------
(* The two lists kept by the operator of the contracts, the validators and  *)
(* the blocklist, in one instance for TLC: a call changes one of them.      *)
EXTENDS MCValset, Blocklist

CONSTANTS a1, a2, a3

\* An empty batch, pairs, a repeated address, and all addresses at once.
MCAddBatches ==
    {<<>>, <<a1, a2>>, <<a2, a3>>, <<a3, a1>>, <<a1, a1>>, <<a3, a2, a1>>}

ListsInit == ValsetInit /\ BlocklistInit

ListsNext ==
    \/ OperatorStep /\ UNCHANGED blocklistVars
    \/ BlocklistNext /\ UNCHANGED valsetVars

ListsSpec == ListsInit /\ [][ListsNext]_<<valsetVars, blocklistVars>>
=============================================================================
