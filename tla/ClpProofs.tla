------------------------------ MODULE ClpProofs -----------------------------
(***************************************************************************)
(* Two properties of x/clp for any assets, users, amounts, registry and    *)
(* number of messages: what is proved rests on the checks the handlers     *)
(* make, not on what the roundings come to.                                *)
(***************************************************************************)
EXTENDS Clp, TLAPS

\* A balance that is an amount, and not zero.
Positive(n) == n \in Int /\ n > 0

Deep(pool) == Positive(pool.native) /\ Positive(pool.external)

\* The shape of the store, which the record of a pool and the function of all
\* pools need to be updated.
PoolsInv ==
    /\ DOMAIN pools \subseteq Externals
    /\ \A a \in DOMAIN pools :
           /\ pools[a] = [native   |-> pools[a].native,
                          external |-> pools[a].external,
                          units    |-> pools[a].units]
           /\ Deep(pools[a])

-----------------------------------------------------------------------------
(* What the calculations return *)

\* What a conversion to sdk.Uint returns.
LEMMA NearestIsNat == \A n, d : Nearest(n, d) \subseteq Nat
BY DEF Nearest

\* The result of a swap is an amount.
LEMMA SwapResultIsNat ==
    ASSUME NEW toRowan, NEW decimals, NEW X, NEW x, NEW Y
    PROVE  CalcSwapResult(toRowan, decimals, X, x, Y) \subseteq Nat
BY NearestIsNat DEF CalcSwapResult

\* A leg of a swap leaves a pool that has both assets with both assets: what
\* is sent is added to one, and less than all is taken from the other.
LEMMA SwapOneKeepsDeep ==
    ASSUME NEW toRowan, NEW x \in Nat, NEW pool, NEW decimals,
           Deep(pool),
           pool = [native |-> pool.native, external |-> pool.external, units |-> pool.units],
           NEW swap \in SwapOne(toRowan, x, pool, decimals)
    PROVE  /\ swap.result \in Nat
           /\ swap.pool = [native   |-> swap.pool.native,
                           external |-> swap.pool.external,
                           units    |-> swap.pool.units]
           /\ Deep(swap.pool)
<1> DEFINE X == IF toRowan THEN pool.external ELSE pool.native
           Y == IF toRowan THEN pool.native ELSE pool.external
<1>1. PICK y \in CalcSwapResult(toRowan, decimals, X, x, Y) :
         /\ y < Y
         /\ swap = [result |-> y,
                    pool   |-> IF toRowan
                                 THEN [pool EXCEPT !.external = X + x, !.native = Y - y]
                                 ELSE [pool EXCEPT !.native = X + x, !.external = Y - y]]
  BY DEF SwapOne
<1>2. y \in Nat
  BY SwapResultIsNat
<1>3. Positive(X + x) /\ Positive(Y - y)
  BY <1>1, <1>2 DEF Deep, Positive
<1> HIDE DEF X, Y
<1>4. CASE toRowan
  <2>1. swap.pool = [native |-> Y - y, external |-> X + x, units |-> pool.units]
    BY <1>1, <1>4
  <2> QED BY <2>1, <1>1, <1>2, <1>3 DEF Deep
<1>5. CASE ~toRowan
  <2>1. swap.pool = [native |-> X + x, external |-> Y - y, units |-> pool.units]
    BY <1>1, <1>5
  <2> QED BY <2>1, <1>1, <1>2, <1>3 DEF Deep
<1> QED BY <1>4, <1>5

-----------------------------------------------------------------------------
(* Each message *)

\* A store of pools stays as it should be when one that is deep is set.
LEMMA SetPoolKeeps ==
    ASSUME PoolsInv, NEW a \in Externals, NEW pool, SetPool(a, pool), Deep(pool),
           pool = [native |-> pool.native, external |-> pool.external, units |-> pool.units]
    PROVE  PoolsInv'
<1>1. /\ DOMAIN pools' = DOMAIN pools \cup {a}
      /\ pools'[a] = pool
      /\ \A b \in DOMAIN pools : b # a => pools'[b] = pools[b]
  BY DEF SetPool, Set
<1>2. ASSUME NEW b \in DOMAIN pools'
      PROVE  /\ pools'[b] = [native   |-> pools'[b].native,
                             external |-> pools'[b].external,
                             units    |-> pools'[b].units]
             /\ Deep(pools'[b])
  BY <1>1 DEF PoolsInv
<1> QED BY <1>1, <1>2 DEF PoolsInv, Deep, Positive

\* ValidateBasic refuses a pool without one of the assets.
LEMMA CreatePoolKeeps ==
    ASSUME PoolsInv, NEW user \in Users, NEW a \in Externals,
           NEW native \in Amounts, NEW external \in Amounts,
           CreatePool(user, a, native, external)
    PROVE  PoolsInv'
<1>1. PICK units : SetPool(a, [native |-> native, external |-> external, units |-> units])
  BY DEF CreatePool
<1>2. Positive(native) /\ Positive(external)
  BY ClpConstantsAssumption DEF CreatePool, ValidCreatePool, Positive
<1> DEFINE pool == [native |-> native, external |-> external, units |-> units]
<1>3. /\ Deep(pool)
      /\ pool = [native |-> pool.native, external |-> pool.external, units |-> pool.units]
  BY <1>2 DEF Deep
<1> HIDE DEF pool
<1>4. SetPool(a, pool)
  BY <1>1 DEF pool
<1> QED BY <1>3, <1>4, SetPoolKeeps

\* Adding takes nothing from a pool.
LEMMA AddLiquidityKeeps ==
    ASSUME PoolsInv, NEW user \in Users, NEW a \in Externals,
           NEW native \in Amounts, NEW external \in Amounts,
           AddLiquidity(user, a, native, external)
    PROVE  PoolsInv'
<1>1. PICK units : SetPool(a, [native   |-> pools[a].native + native,
                               external |-> pools[a].external + external,
                               units    |-> units])
  BY DEF AddLiquidity
<1>2. Deep(pools[a])
  BY DEF AddLiquidity, ExistsPool, PoolsInv
<1>3. native \in Nat /\ external \in Nat
  BY ClpConstantsAssumption
<1> DEFINE pool == [native   |-> pools[a].native + native,
                    external |-> pools[a].external + external,
                    units    |-> units]
<1>4. Positive(pools[a].native + native) /\ Positive(pools[a].external + external)
  BY <1>2, <1>3 DEF Deep, Positive
<1>5. /\ Deep(pool)
      /\ pool = [native |-> pool.native, external |-> pool.external, units |-> pool.units]
  BY <1>4 DEF Deep
<1> HIDE DEF pool
<1>6. SetPool(a, pool)
  BY <1>1 DEF pool
<1> QED BY <1>5, <1>6, SetPoolKeeps

\* A withdrawal is of amounts, and an asymmetric one swaps an amount.
LEMMA WithdrawalFacts ==
    ASSUME NEW pool, NEW lpUnits, NEW w, NEW asymmetry,
           NEW c \in CalculateWithdrawal(pool, lpUnits, w, asymmetry)
    PROVE  c.native \in Nat /\ c.external \in Nat /\ c.swapAmount \in Nat
<1>1. c.native \in Nearest(pool.native * lpUnits * w, pool.units * MaxWbasis)
      /\ c.external \in Nearest(pool.external * lpUnits * w, pool.units * MaxWbasis)
  BY DEF CalculateWithdrawal
<1>2. \/ c.swapAmount = 0
      \/ \E n, d : c.swapAmount \in Nearest(n, d)
  BY DEF CalculateWithdrawal
<1> QED BY <1>1, <1>2, NearestIsNat

\* Without a swap, StaysDeep compares what is paid out with the pool; with one,
\* the pool is checked before the swap.
LEMMA RemoveLiquidityKeeps ==
    ASSUME PoolsInv, NEW user \in Users, NEW a \in Externals,
           NEW w \in Shares, NEW asymmetry \in Asymmetries,
           RemoveLiquidity(user, a, w, asymmetry)
    PROVE  PoolsInv'
<1> DEFINE pool    == pools[a]
           lpUnits == providers[<<a, user>>]
           Reduced(c) == [native   |-> pool.native - c.native,
                          external |-> pool.external - c.external,
                          units    |-> pool.units - lpUnits + c.unitsLeft]
<1>1. PICK c \in CalculateWithdrawal(pool, lpUnits, w, asymmetry) :
         /\ Reduced(c) \in PoolType
         /\ asymmetry # 0 => Reduced(c).native > 0 /\ Reduced(c).external > 0
         /\ \E swap \in IF asymmetry = 0 THEN {[result |-> 0, pool |-> Reduced(c)]}
                        ELSE SwapOne(asymmetry < 0, c.swapAmount, Reduced(c),
                                     GetEntry(a).decimals) :
               /\ StaysDeep(a, pool, WithdrawnCoins(a, c, asymmetry, swap.result))
               /\ SetPool(a, swap.pool)
  BY DEF RemoveLiquidity
<1>2. PICK swap \in IF asymmetry = 0 THEN {[result |-> 0, pool |-> Reduced(c)]}
                    ELSE SwapOne(asymmetry < 0, c.swapAmount, Reduced(c),
                                 GetEntry(a).decimals) :
         /\ StaysDeep(a, pool, WithdrawnCoins(a, c, asymmetry, swap.result))
         /\ SetPool(a, swap.pool)
  BY <1>1
<1>3. c.native \in Nat /\ c.external \in Nat /\ c.swapAmount \in Nat
  BY WithdrawalFacts
<1>4. Deep(pool)
  BY DEF RemoveLiquidity, ExistsPool, PoolsInv
<1> DEFINE reduced == Reduced(c)
<1>5. /\ reduced.native = pool.native - c.native
      /\ reduced.external = pool.external - c.external
      /\ reduced = [native |-> reduced.native, external |-> reduced.external,
                    units |-> reduced.units]
  OBVIOUS
<1>6. Deep(swap.pool)
      /\ swap.pool = [native |-> swap.pool.native, external |-> swap.pool.external,
                      units |-> swap.pool.units]
  <2>1. CASE asymmetry = 0
    <3>1. swap = [result |-> 0, pool |-> reduced]
      BY <1>2, <2>1
    <3>2. a # Native /\ a \in Denoms /\ Native \in Denoms
      BY ClpConstantsAssumption DEF Externals
    <3>3. c.external < pool.external /\ c.native < pool.native
      <4>1. WithdrawnCoins(a, c, asymmetry, 0) = Plus(Coin(Native, c.native), Coin(a, c.external))
        BY DEF WithdrawnCoins
      <4>2. WithdrawnCoins(a, c, asymmetry, 0)[a] = c.external
            /\ WithdrawnCoins(a, c, asymmetry, 0)[Native] = c.native
        BY <4>1, <3>2, <1>3 DEF Plus, Coin
      <4> QED BY <4>2, <3>1, <1>2 DEF StaysDeep
    <3>4. Deep(reduced)
      BY <3>3, <1>3, <1>4, <1>5 DEF Deep, Positive
    <3> QED BY <3>1, <3>4, <1>5
  <2>2. CASE asymmetry # 0
    <3>1. Deep(reduced)
      BY <2>2, <1>1 DEF Deep, Positive, PoolType
    <3>2. swap \in SwapOne(asymmetry < 0, c.swapAmount, reduced, GetEntry(a).decimals)
      BY <1>2, <2>2
    <3> DEFINE toRowan == asymmetry < 0
    <3> HIDE DEF reduced, Reduced, toRowan
    <3>3. swap \in SwapOne(toRowan, c.swapAmount, reduced, GetEntry(a).decimals)
      BY <3>2 DEF toRowan
    <3> QED BY <3>1, <3>3, <1>3, <1>5, SwapOneKeepsDeep
  <2> QED BY <2>1, <2>2
<1> QED BY <1>2, <1>6, SetPoolKeeps

\* The pools a swap changes are those of the assets it is between: a leg takes
\* it to the native asset, if it has two, and a leg from there.
SwapsPools(sent, received, amount) ==
    \E a, b \in Externals \cap {sent, received} : \E first, second :
        /\ \/ first \in SwapOne(TRUE, amount, pools[a], GetEntry(a).decimals)
           \/ first = [result |-> amount, pool |-> pools[a]]
        /\ \E toRowan : second \in SwapOne(toRowan, first.result, pools[b],
                                           GetEntry(b).decimals)
        /\ pools' = [pools EXCEPT ![a] = first.pool, ![b] = second.pool]
        /\ ExistsPool(a) /\ ExistsPool(b)

\* What Swap does to the pools.
LEMMA SwapFacts ==
    ASSUME NEW user, NEW sent \in Denoms, NEW received \in Denoms, NEW amount,
           NEW minReceived, Swap(user, sent, received, amount, minReceived)
    PROVE  SwapsPools(sent, received, amount)
<1> DEFINE twoLegs  == sent # Native /\ received # Native
           outAsset == IF received = Native THEN sent ELSE received
           a        == IF twoLegs THEN sent ELSE outAsset
           toRowan  == received = Native
<1>1. sent # received
  BY DEF Swap, ValidSwap
<1>2. a \in Externals \cap {sent, received} /\ outAsset \in Externals \cap {sent, received}
  BY <1>1 DEF Externals
<1>3. ExistsPool(a) /\ ExistsPool(outAsset)
  BY <1>2 DEF Swap
<1>4. PICK first \in IF twoLegs THEN SwapOne(TRUE, amount, pools[sent], GetEntry(sent).decimals)
                     ELSE {[result |-> amount, pool |-> pools[outAsset]]} :
        \E second \in SwapOne(toRowan, first.result, pools[outAsset],
                              GetEntry(outAsset).decimals) :
          pools' = [pools EXCEPT ![a] = first.pool, ![outAsset] = second.pool]
  BY DEF Swap
<1>5. \/ first \in SwapOne(TRUE, amount, pools[a], GetEntry(a).decimals)
      \/ first = [result |-> amount, pool |-> pools[a]]
  BY <1>4
<1> HIDE DEF a, outAsset, toRowan, twoLegs
<1> QED BY <1>2, <1>3, <1>4, <1>5 DEF SwapsPools

\* Each leg leaves its pool deep, and the result of the first is an amount.
LEMMA SwapKeeps ==
    ASSUME PoolsInv, NEW user, NEW sent \in Denoms, NEW received \in Denoms,
           NEW amount \in Amounts, NEW minReceived,
           Swap(user, sent, received, amount, minReceived)
    PROVE  PoolsInv'
<1>0. SwapsPools(sent, received, amount)
  BY SwapFacts
<1>1. PICK a, b \in Externals \cap {sent, received} : \E first, second :
             /\ \/ first \in SwapOne(TRUE, amount, pools[a], GetEntry(a).decimals)
                \/ first = [result |-> amount, pool |-> pools[a]]
             /\ \E toRowan : second \in SwapOne(toRowan, first.result, pools[b],
                                                GetEntry(b).decimals)
             /\ pools' = [pools EXCEPT ![a] = first.pool, ![b] = second.pool]
             /\ ExistsPool(a) /\ ExistsPool(b)
  BY <1>0 DEF SwapsPools
<1>2. PICK first, second :
             /\ \/ first \in SwapOne(TRUE, amount, pools[a], GetEntry(a).decimals)
                \/ first = [result |-> amount, pool |-> pools[a]]
             /\ \E toRowan : second \in SwapOne(toRowan, first.result, pools[b],
                                                GetEntry(b).decimals)
             /\ pools' = [pools EXCEPT ![a] = first.pool, ![b] = second.pool]
             /\ ExistsPool(a) /\ ExistsPool(b)
  BY <1>1
<1>3. /\ Deep(pools[a]) /\ Deep(pools[b])
      /\ pools[a] = [native |-> pools[a].native, external |-> pools[a].external,
                     units |-> pools[a].units]
      /\ pools[b] = [native |-> pools[b].native, external |-> pools[b].external,
                     units |-> pools[b].units]
  BY <1>2 DEF ExistsPool, PoolsInv
<1>4. /\ first.result \in Nat
      /\ first.pool = [native |-> first.pool.native, external |-> first.pool.external,
                       units |-> first.pool.units]
      /\ Deep(first.pool)
  <2>1. amount \in Nat
    BY ClpConstantsAssumption
  <2>2. CASE first = [result |-> amount, pool |-> pools[a]]
    BY <2>1, <2>2, <1>3
  <2> QED BY <2>1, <2>2, <1>2, <1>3, SwapOneKeepsDeep
<1>5. /\ second.pool = [native |-> second.pool.native, external |-> second.pool.external,
                        units |-> second.pool.units]
      /\ Deep(second.pool)
  BY <1>2, <1>3, <1>4, SwapOneKeepsDeep
<1>6. /\ DOMAIN pools' = DOMAIN pools
      /\ \A x \in DOMAIN pools : pools'[x] \in {pools[x], first.pool, second.pool}
  BY <1>2
<1>7. \A x \in DOMAIN pools' :
         /\ pools'[x] = [native |-> pools'[x].native, external |-> pools'[x].external,
                         units |-> pools'[x].units]
         /\ Deep(pools'[x])
  BY <1>4, <1>5, <1>6 DEF PoolsInv
<1> QED BY <1>6, <1>7 DEF PoolsInv, Deep, Positive

\* Every message, and none.
LEMMA StepKeeps == PoolsInv /\ [Next]_vars => PoolsInv'
<1> SUFFICES ASSUME PoolsInv, [Next]_vars PROVE PoolsInv'
  OBVIOUS
<1>1. ASSUME NEW user \in Users, NEW a \in Externals, DecommissionPool(user, a)
      PROVE  PoolsInv'
  <2>1. DOMAIN pools' \subseteq DOMAIN pools /\ \A b \in DOMAIN pools' : pools'[b] = pools[b]
    BY <1>1 DEF DecommissionPool, DestroyPool, Delete
  <2> QED BY <2>1 DEF PoolsInv, Deep, Positive
<1>2. CASE UNCHANGED pools
  BY <1>2 DEF PoolsInv, Deep, Positive
<1>3. CASE Message
  BY <1>1, <1>2, <1>3, CreatePoolKeeps, AddLiquidityKeeps, RemoveLiquidityKeeps, SwapKeeps
     DEF Message, clpVars
<1> QED BY <1>2, <1>3 DEF Next, vars

-----------------------------------------------------------------------------
\* No sequence of messages leaves a pool without one of its assets: the checks
\* of SwapOne, of RemoveLiquidity before its swap, and of the executor
\* together suffice, whatever the amounts and however they are rounded.
THEOREM PoolsStayDeep == Spec => []PoolsNeverRunDry
<1>1. Init => PoolsInv
  <2> SUFFICES ASSUME Init PROVE PoolsInv
    OBVIOUS
  <2>1. DOMAIN pools \subseteq Externals
        /\ \A a \in DOMAIN pools :
              pools[a] \in PoolType /\ pools[a].native > 0 /\ pools[a].external > 0
    BY GenesisAssumption DEF Init
  <2> QED BY <2>1 DEF PoolsInv, PoolType, Deep, Positive
<1>2. PoolsInv => PoolsNeverRunDry
  BY DEF PoolsInv, PoolsNeverRunDry, Deep, Positive
<1> QED BY <1>1, <1>2, StepKeeps, PTL DEF Spec

\* A pool whose asset has lost the CLP permission, or its entry, is left alone:
\* every handler that changes a pool asks the registry for each asset.
THEOREM UnpermittedPoolsStay == Spec => OnlyPermittedPoolsChange
<1> DEFINE P == \A a \in DOMAIN pools \cap DOMAIN pools' :
                   pools'[a] # pools[a] => Permitted(a)
<1>1. ASSUME NEW a, Permitted(a), NEW pool, SetPool(a, pool) PROVE P
  BY <1>1 DEF SetPool, Set
<1>2. ASSUME NEW user, NEW a, DecommissionPool(user, a) PROVE P
  BY <1>2 DEF DecommissionPool, DestroyPool, Delete
<1>3. ASSUME NEW user, NEW sent \in Denoms, NEW received \in Denoms, NEW amount,
             NEW minReceived, Swap(user, sent, received, amount, minReceived)
      PROVE  P
  <2>1. Permitted(sent) /\ Permitted(received)
    BY <1>3 DEF Swap, MaySwap
  <2>2. SwapsPools(sent, received, amount)
    BY <1>3, SwapFacts
  <2>3. PICK a, b \in {sent, received} : \E p, q : pools' = [pools EXCEPT ![a] = p, ![b] = q]
    BY <2>2 DEF SwapsPools
  <2> QED BY <2>1, <2>3
<1>4. ASSUME NEW user, NEW a, NEW native, NEW external,
             CreatePool(user, a, native, external) \/ AddLiquidity(user, a, native, external)
      PROVE  P
  <2>1. Permitted(a) /\ \E pool : SetPool(a, pool)
    BY <1>4 DEF CreatePool, AddLiquidity
  <2> QED BY <2>1, <1>1
<1>5. ASSUME NEW user, NEW a, NEW w, NEW asymmetry, RemoveLiquidity(user, a, w, asymmetry)
      PROVE  P
  <2>1. Permitted(a) /\ \E pool : SetPool(a, pool)
    BY <1>5 DEF RemoveLiquidity
  <2> QED BY <2>1, <1>1
<1>6. ASSUME UNCHANGED pools PROVE P
  BY <1>6
<1>7. [Next]_vars => [P]_vars
  <2> SUFFICES ASSUME Next PROVE P
    OBVIOUS
  <2> HIDE DEF P
  <2> QED BY <1>2, <1>3, <1>4, <1>5, <1>6 DEF Next, Message, clpVars
<1> QED BY <1>7, PTL DEF Spec, OnlyPermittedPoolsChange
=============================================================================
