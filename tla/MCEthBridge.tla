---------------------------- MODULE MCEthBridge -----------------------------
(* Instances of EthBridge for TLC. *)
EXTENDS EthBridge, TLC

CONSTANTS alice, feeAccount, module

MCPeggedDenom == [s \in {"eth"} |-> "ceth"]

\* An Ethereum lock of eth, an Ethereum burn of rowan, and a lock whose
\* receiver the bank refuses.
MCContents ==
    {[receiver |-> alice, amount |-> 1, claimType |-> "lock", symbol |-> "eth"],
     [receiver |-> alice, amount |-> 2, claimType |-> "burn", symbol |-> "rowan"],
     [receiver |-> module, amount |-> 1, claimType |-> "lock", symbol |-> "eth"]}

MCInitialBalance ==
    [a \in {alice, feeAccount} |->
        IF a = alice THEN [d \in {"ceth", "rowan"} |-> IF d = "ceth" THEN 2 ELSE 1]
                     ELSE [d \in {"ceth", "rowan"} |-> IF d = "ceth" THEN 1 ELSE 0]]

MCInitialSupply == [d \in {"ceth", "rowan"} |-> IF d = "ceth" THEN 3 ELSE 1]

MCSymmetry == Permutations(Validators)
=============================================================================
