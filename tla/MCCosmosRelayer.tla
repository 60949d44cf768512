--------------------------- MODULE MCCosmosRelayer --------------------------
(***************************************************************************)
(* Small instances of CosmosRelayer: four blocks, since the first is only  *)
(* taken as the starting point, the second gives a saved position and a    *)
(* restart has to catch up with two; two messages, two attempts in place   *)
(* of five, one stop and one replay.                                       *)
(***************************************************************************)
EXTENDS CosmosRelayer
=============================================================================
