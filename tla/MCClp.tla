------------------------------- MODULE MCClp --------------------------------
(***************************************************************************)
(* Small instances of Clp: two users, two external assets with a pool each *)
(* at first, one of them with fewer decimals than the native asset.        *)
(***************************************************************************)
EXTENDS Clp

CONSTANTS aku, ceth, cusdc, u1, u2

Entry(d, n, p) == [denom |-> d, unitDenom |-> NoUnit, decimals |-> n, permissions |-> p]

MCEntries ==
    {Entry(aku, 18, {"CLP"}), Entry(ceth, 18, {"CLP", "IBCEXPORT"}), Entry(ceth, 18, {}),
     Entry(cusdc, 17, {"CLP"}), Entry(cusdc, 0, {"CLP"})}
MCRegistry ==
    <<Entry(aku, 18, {"CLP"}), Entry(ceth, 18, {"CLP", "IBCEXPORT"}), Entry(cusdc, 17, {"CLP"})>>
MCLists == {<<Entry(aku, 18, {"CLP"}), Entry(ceth, 18, {}), Entry(ceth, 18, {"CLP", "IBCEXPORT"})>>}

MCPools ==
    [a \in {ceth, cusdc} |->
        IF a = ceth THEN [native |-> 3, external |-> 2, units |-> 3]
        ELSE [native |-> 4, external |-> 5, units |-> 4]]
MCProviders ==
    [l \in {<<ceth, u1>>, <<ceth, u2>>, <<cusdc, u1>>} |->
        IF l = <<cusdc, u1>> THEN 4 ELSE IF l[2] = u1 THEN 2 ELSE 1]
MCInitialCoins == [d \in Denoms |-> 5]
MCAsymmetries == {-2, 0, 1, 2}
=============================================================================
