--------------------------- MODULE MCIBCTransfer ----------------------------
(***************************************************************************)
(* Instance of IBCTransfer: two channels; ceth with its alias xeth, which  *)
(* has one decimal less; atom, native to the other end of the first        *)
(* channel, which may go on over the second.  The fee decorator keeps no    *)
(* state between transactions and reads none of the chain's, so instead of *)
(* with every step it is run once, from initial states of its own.         *)
(***************************************************************************)
EXTENDS IBCTransfer, AnteFee, TLC

CONSTANTS admin, u

ceth == <<"ceth">>
xeth == <<"xeth">>
atom == <<"c1", "atom">>

MCDenoms == {ceth, xeth, atom}
MCFarEnd == [c \in Channels |-> IF c = "c1" THEN "f1" ELSE "f2"]

Entry(d, unit, n, p) == [denom |-> d, unitDenom |-> unit, decimals |-> n, permissions |-> p]
Ceth == Entry(ceth, ceth, 18, {"IBCEXPORT"})
Xeth == Entry(xeth, ceth, 17, {"IBCEXPORT"})
Atom(p) == Entry(atom, NoUnit, 6, p)
MCRegistry == <<Ceth, Xeth, Atom({"IBCEXPORT", "IBCIMPORT"})>>
MCEntries == {Ceth, Xeth, Atom({"IBCEXPORT", "IBCIMPORT"}), Atom({"IBCEXPORT"})}
MCLists == {<<Ceth, Atom({"IBCEXPORT"}), Xeth>>}

MCCoins == [d \in Denoms |-> IF d = ceth THEN 25 ELSE 0]

MCInit == Init /\ (NoTransaction \/ Offered)

MCNext ==
    \/ verdict = "none" /\ Next /\ UNCHANGED anteVars
    \/ AnteHandle /\ UNCHANGED vars

MCSpec == MCInit /\ [][MCNext]_<<vars, anteVars>>
=============================================================================
