-------------------------- MODULE MCEthereumRelayer -------------------------
(***************************************************************************)
(* Small instances of EthereumRelayer: two trailing blocks and a chain of  *)
(* four, so that two logs may be confirmed and share a batch, the chain    *)
(* may come back one block shorter and take the position with it, and a    *)
(* second head may wait while the first is handled.                        *)
(***************************************************************************)
EXTENDS EthereumRelayer
=============================================================================
