--------------------------- MODULE MCCosmosBridge ---------------------------
(* Instances of CosmosBridge for TLC. *)
EXTENDS CosmosBridge, TLC

CONSTANTS v1, v2, v3, alice, usdt, usdt2, erowan, newUsdt, newEth

MCTokens == {usdt, usdt2, erowan, newUsdt, newEth}
MCTokenSymbols == {"eth", "USDT", "usdt", "erowan"}

MCSymbolOf ==
    usdt :> "USDT" @@ usdt2 :> "USDT" @@ erowan :> "erowan"
    @@ newUsdt :> "usdt" @@ newEth :> "eth"

MCToLower == [s \in MCTokenSymbols |-> IF s = "USDT" THEN "usdt" ELSE s]

MCNewTokenFor ==
    "erowan" :> erowan @@ "USDT" :> usdt @@ "usdt" :> newUsdt @@ "eth" :> newEth

MCInitialWallet ==
    [u \in {alice} |->
        [t \in MCTokens \cup {Ether} |-> IF t \in {usdt, usdt2, Ether} THEN 1 ELSE 0]]

MCEqual == << <<v1, 1>>, <<v2, 1>>, <<v3, 1>> >>
MCUnequal == << <<v1, 2>>, <<v2, 1>> >>
MCSingle == << <<v1, 1>> >>

\* alice locked rowan on Cosmos, and burned usdt, ceth there.
MCLockRowan ==
    [claimType |-> "lock", event |-> 1, receiver |-> alice, symbol |-> "erowan", amount |-> 1]
MCBurnUsdt ==
    [claimType |-> "burn", event |-> 2, receiver |-> alice, symbol |-> "usdt", amount |-> 1]
MCBurnEth ==
    [claimType |-> "burn", event |-> 3, receiver |-> alice, symbol |-> "eth", amount |-> 1]

MCStableValsets == {MCUnequal, MCEqual}
MCRotatingValsets == {MCEqual, MCSingle}
MCLock == {MCLockRowan}
MCAllClaims == {MCLockRowan, MCBurnUsdt, MCBurnEth}
=============================================================================
