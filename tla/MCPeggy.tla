------------------------------- MODULE MCPeggy ------------------------------
(* An instance of Peggy for TLC. *)
EXTENDS Peggy, TLC

CONSTANTS v1, v2, v3, alice, aliceEth

MCPower == v1 :> 2 @@ v2 :> 2 @@ v3 :> 1
MCPowerList == << <<v1, 2>>, <<v2, 2>>, <<v3, 1>> >>
MCAccountNumber == [a \in {alice} |-> 0]
MCRecipient == [u \in {aliceEth} |-> alice]
MCPeggedDenom == [s \in {"eth"} |-> "ceth"]

MCContents ==
    [receiver: {alice}, amount: {1, 2}, claimType: {"lock"}, symbol: {"eth"}]
    \cup
    [receiver: {alice}, amount: {1, 2}, claimType: {"burn"}, symbol: {"native"}]

MCProphecies ==
    [claimType: {"burn"}, event: {0, 1}, receiver: {aliceEth}, symbol: {"eth"}, amount: {1}]
    \cup
    [claimType: {"lock"}, event: {0, 1}, receiver: {aliceEth}, symbol: {"enative"}, amount: {1}]

MCInitialSupply == [d \in {"ceth", "native"} |-> IF d = "ceth" THEN 0 ELSE 2]
MCInitialBalance == [a \in {alice} |-> MCInitialSupply]
=============================================================================
