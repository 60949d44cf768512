------------------------------- MODULE Coins --------------------------------
(***************************************************************************)
(* sdk.Coins as the bank handles them: an amount of every denomination,    *)
(* added, subtracted and compared denomination by denomination.            *)
(***************************************************************************)
EXTENDS Integers

CONSTANT Denoms

CoinsOf == [Denoms -> Nat]

NoCoins == [d \in Denoms |-> 0]

Coin(denom, n) == [d \in Denoms |-> IF d = denom THEN n ELSE 0]

Plus(x, y) == [d \in Denoms |-> x[d] + y[d]]

Minus(x, y) == [d \in Denoms |-> x[d] - y[d]]

\* An account that holds x can pay y.
Covers(x, y) == \A d \in Denoms : x[d] >= y[d]
=============================================================================
