----------------------------- MODULE AddressSet -----------------------------
(***************************************************************************)
(* What Blocklist.sol promises, and all BridgeBank.sol relies on: a set of *)
(* addresses that the owner adds to and removes from, several at a time,   *)
(* with events that tell who follows them what became of the set.          *)
(***************************************************************************)
CONSTANT Addresses

VARIABLES
    members,
    told                \* the events of the latest call

Init == members = {} /\ told = {}

\* A call that names an address twice, or one already there, adds none.
Add(S) ==
    /\ S \cap members = {}
    /\ members' = members \cup S
    /\ told' = {<<"added", a>> : a \in S}

Remove(S) ==
    /\ S \subseteq members
    /\ members' = members \ S
    /\ told' = {<<"removed", a>> : a \in S}

Next == \E S \in SUBSET Addresses : Add(S) \/ Remove(S)

Spec == Init /\ [][Next]_<<members, told>>
=============================================================================
