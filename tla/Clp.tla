-------------------------------- MODULE Clp ---------------------------------
(***************************************************************************)
(* x/clp: liquidity pools, each of an external asset and the native one.   *)
(* Every message moves coins of its signer into or out of the one module   *)
(* account, and adjusts the balances the pools are booked with, their      *)
(* units and the units of their providers.  A message that fails changes   *)
(* nothing, so an action is enabled exactly when the handler succeeds.     *)
(*                                                                         *)
(* Amounts are computed with 18 decimals and rounded at the end: to the    *)
(* nearest integer, and where two are equally near, to whichever of them   *)
(* the last decimals make it.                                              *)
(***************************************************************************)
EXTENDS TokenRegistry

CONSTANTS
    Native,             \* the settlement asset, aku
    Users,              \* accounts that provide liquidity and swap
    ClpModule,          \* the module account
    ClpWhiteList,       \* the admins, as the genesis file names them
    PoolThreshold,      \* native balance a new pool needs (10^18)
    MaxWbasis,          \* what stands for all of a share (10000)
    GenesisPools,       \* pools and providers of the genesis file
    GenesisProviders,
    GenesisRegistry,
    InitialCoins,       \* coins of every user at first
    Amounts,            \* amounts users send
    Shares,             \* parts of MaxWbasis they withdraw
    Asymmetries,        \* and the asymmetries they ask for
    MaxMessages         \* bound on the number of messages

INSTANCE Coins

Externals == Denoms \ {Native}

SumOf(f) == MapThenSumSet(LAMBDA x : f[x], DOMAIN f)

PoolType == [native : Nat, external : Nat, units : Nat]

ASSUME ClpConstantsAssumption ==
    /\ Native \in Denoms
    /\ ClpModule \notin Users
    /\ ClpWhiteList \subseteq Users /\ ClpWhiteList # {}
    /\ PoolThreshold \in Nat \ {0}
    /\ MaxWbasis \in Nat \ {0}
    /\ InitialCoins \in CoinsOf
    /\ Amounts \subseteq Nat
    /\ Shares \subseteq Nat
    /\ Asymmetries \subseteq Int
    /\ MaxMessages \in Nat
    /\ GenesisRegistry \in Seq(RegistryEntries)
    /\ ValidSetRegistry(GenesisRegistry)

\* A genesis file that was exported from a chain: the providers of a pool hold
\* its units.
ASSUME GenesisAssumption ==
    /\ DOMAIN GenesisPools \subseteq Externals
    /\ \A a \in DOMAIN GenesisPools :
           /\ GenesisPools[a] \in PoolType
           /\ \A field \in {"native", "external", "units"} : GenesisPools[a][field] > 0
           /\ GenesisPools[a].units =
                  MapThenSumSet(LAMBDA l : GenesisProviders[l],
                                {l \in DOMAIN GenesisProviders : l[1] = a})
    /\ \A l \in DOMAIN GenesisProviders :
           /\ l \in (DOMAIN GenesisPools) \X Users
           /\ GenesisProviders[l] \in Nat

VARIABLES
    pools,              \* asset -> its pool
    providers,          \* <<asset, user>> -> units
    bank,               \* coins of every account
    messages,           \* messages so far
    adds,               \* per asset, AddLiquidity messages to the present pool
    dust,               \* coins left over when pools were decommissioned
    overbooked          \* coins pools were credited with and did not get

clpVars == <<pools, providers, bank, adds, dust, overbooked>>
vars == <<registry, pools, providers, bank, messages, adds, dust, overbooked>>

\* Who may decommission a pool.
ValidateAddress(user) == user \in ClpWhiteList

Permitted(a) == IsRegistered(a) /\ CheckEntryPermissions(GetEntry(a), {"CLP"})

ExistsPool(a) == a \in DOMAIN pools

ExistsLiquidityProvider(a, u) == <<a, u>> \in DOMAIN providers

ProvidersOf(a) == {u \in Users : ExistsLiquidityProvider(a, u)}

\* What the bank transfers: a payment fails if the payer has less.
Transfer(from, to, coins) ==
    /\ Covers(bank[from], coins)
    /\ bank' = [bank EXCEPT ![from] = Minus(@, coins), ![to] = Plus(@, coins)]

\* The store after a key is set, and after a key is deleted.
Set(store, key, value) ==
    [k \in DOMAIN store \cup {key} |-> IF k = key THEN value ELSE store[k]]
Delete(store, keys) == [k \in DOMAIN store \ keys |-> store[k]]

SetPool(a, pool) == pools' = Set(pools, a, pool)
DestroyPool(a) == pools' = Delete(pools, {a})

SetLiquidityProvider(a, u, units) == providers' = Set(providers, <<a, u>>, units)
DestroyLiquidityProvider(a, u) == providers' = Delete(providers, {<<a, u>>})

-----------------------------------------------------------------------------
(***************************************************************************)
(* Calculations.  Each is the set of its possible results.                 *)
(***************************************************************************)
Distance(m, n) == IF m > n THEN m - n ELSE n - m

\* The integers nearest to n / d, as sdk.Uint, which none below zero is.
Nearest(n, d) ==
    {k \in ((n \div d)..(n \div d) + 1) \cap Nat : 2 * Distance(k * d, n) <= d}

\* Factor between amounts of a token and amounts with 18 decimals, and whether
\* it is the external amounts that have to be multiplied by it.
NormalizationFactor(decimals) == 10 ^ Distance(decimals, 18)
AdjustExternalToken(decimals) == decimals < 18

\* Defect: the price does not slip with the amount sent.
CalcSwapResultWithoutSlip(toRowan, decimals, X, x, Y) ==
    IF 0 \in {X, x, Y} THEN {0} ELSE Nearest(x * Y, X)

\* x of a balance X is sent, the result comes from Y.
CalcSwapResult(toRowan, decimals, X, x, Y) ==
    LET nf     == NormalizationFactor(decimals)
        scaled == AdjustExternalToken(decimals) = toRowan
        Xn     == IF scaled THEN X * nf ELSE X
        xn     == IF scaled THEN x * nf ELSE x
        Yn     == IF scaled THEN Y ELSE Y * nf
    IN  IF 0 \in {X, x, Y} THEN {0}
        ELSE Nearest(xn * Xn * Yn,
                     (xn + Xn) * (xn + Xn) * (IF toRowan THEN 1 ELSE nf))

\* One leg of a swap; none if it would take the whole balance.
SwapOne(toRowan, x, pool, decimals) ==
    LET X == IF toRowan THEN pool.external ELSE pool.native
        Y == IF toRowan THEN pool.native ELSE pool.external
    IN  {[result |-> y,
          pool   |-> IF toRowan THEN [pool EXCEPT !.external = X + x, !.native = Y - y]
                                ELSE [pool EXCEPT !.native = X + x, !.external = Y - y]] :
            y \in {y \in CalcSwapResult(toRowan, decimals, X, x, Y) : y < Y}}

\* The pool's units and the new units after r native and a external coins are
\* added.  Both are rounded, each by itself.
CalculatePoolUnits(pool, r0, a0, decimals) ==
    LET nf    == NormalizationFactor(decimals)
        nfExt == IF AdjustExternalToken(decimals) THEN nf ELSE 1
        nfNat == IF AdjustExternalToken(decimals) THEN 1 ELSE nf
        R     == pool.native * nfNat
        r     == r0 * nfNat
        A     == pool.external * nfExt
        a     == a0 * nfExt
        P     == pool.units
        whole == (r + R) * (a + A)
        stakeUnits == Nearest(P * (a * R + A * r) * (whole - Distance(R * a, r * A)),
                              2 * A * R * whole)
    IN  IF R = 0 \/ A = 0 THEN {[poolUnits |-> r, lpUnits |-> r]}
        ELSE [poolUnits : {P + s : s \in stakeUnits}, lpUnits : stakeUnits]

\* What a provider gets for a share w of its units, the units left to it, and
\* what part of it the asymmetry makes it swap.  Without units of the provider
\* or of the pool there is no result: a division by zero fails.
CalculateWithdrawal(pool, lpUnits, w, asymmetry) ==
    LET Part(balance)   == Nearest(balance * lpUnits * w, pool.units * MaxWbasis)
        ToSwap(balance) == Nearest(balance * lpUnits * w * Distance(asymmetry, 0),
                                   pool.units * MaxWbasis * MaxWbasis)
    IN  IF lpUnits = 0 \/ pool.units = 0 THEN {}
        ELSE {c \in [native     : Part(pool.native),
                     external   : Part(pool.external),
                     unitsLeft  : Nearest(lpUnits * (MaxWbasis - w), MaxWbasis),
                     swapAmount : IF asymmetry > 0 THEN ToSwap(pool.native)
                                  ELSE IF asymmetry < 0 THEN ToSwap(pool.external)
                                  ELSE {0}] :
                 /\ asymmetry = MaxWbasis => c.swapAmount = c.native
                 /\ asymmetry = -MaxWbasis => c.swapAmount = c.external}

-----------------------------------------------------------------------------
(***************************************************************************)
(* Messages.  ValidateBasic of each: what is refused before its handler.   *)
(***************************************************************************)
ValidCreatePool(a, native, external) == a # Native /\ native > 0 /\ external > 0

ValidAddLiquidity(a, native, external) == a # Native /\ (native > 0 \/ external > 0)

ValidRemoveLiquidity(w, asymmetry) ==
    w \in 1..MaxWbasis /\ asymmetry \in -MaxWbasis..MaxWbasis

ValidSwap(sent, received, amount) == sent # received /\ amount > 0

CreatePool(user, a, native, external) ==
    LET nf    == IF AdjustExternalToken(GetEntry(a).decimals) THEN 1
                 ELSE NormalizationFactor(GetEntry(a).decimals)
        units == native * nf
    IN  /\ ValidCreatePool(a, native, external)
        /\ native >= PoolThreshold
        /\ Permitted(a)
        /\ ~ExistsPool(a)
        /\ Transfer(user, ClpModule, Plus(Coin(Native, native), Coin(a, external)))
        /\ SetPool(a, [native |-> native, external |-> external, units |-> units])
        /\ SetLiquidityProvider(a, user, units)
        /\ adds' = [adds EXCEPT ![a] = 0]
        /\ UNCHANGED <<registry, dust, overbooked>>

\* Defect: the units of a provider that is known are replaced.
AddUnitsReplacing(a, u, lpUnits) == SetLiquidityProvider(a, u, lpUnits)

\* A new provider is recorded, whatever its units are; a known one gets more.
AddUnits(a, u, lpUnits) ==
    SetLiquidityProvider(a, u,
        lpUnits + (IF ExistsLiquidityProvider(a, u) THEN providers[<<a, u>>] ELSE 0))

AddLiquidity(user, a, native, external) ==
    /\ ValidAddLiquidity(a, native, external)
    /\ Permitted(a)
    /\ ExistsPool(a)
    /\ Transfer(user, ClpModule, Plus(Coin(Native, native), Coin(a, external)))
    /\ \E new \in CalculatePoolUnits(pools[a], native, external, GetEntry(a).decimals) :
           /\ SetPool(a, [native   |-> pools[a].native + native,
                          external |-> pools[a].external + external,
                          units    |-> new.poolUnits])
           /\ AddUnits(a, user, new.lpUnits)
    /\ adds' = [adds EXCEPT ![a] = @ + 1]
    /\ UNCHANGED <<registry, dust, overbooked>>

\* Defect: the coins paid out may be all there are.
StaysDeepOrEmpty(a, pool, coins) ==
    coins[a] <= pool.external /\ coins[Native] <= pool.native

\* The last check of a removal, made on the coins to be paid out.
StaysDeep(a, pool, coins) == coins[a] < pool.external /\ coins[Native] < pool.native

\* Defect: the coins paid out are not adjusted to the swap.
WithdrawnCoinsUnadjusted(a, c, asymmetry, swapResult) ==
    Plus(Coin(Native, c.native), Coin(a, c.external))

\* The coins paid out after the swap.  They are adjusted only if the swap has
\* a result, though the pool is credited with swapAmount in any case.
WithdrawnCoins(a, c, asymmetry, swapResult) ==
    LET paid == Plus(Coin(Native, c.native), Coin(a, c.external))
    IN  IF swapResult = 0 THEN paid
        ELSE IF asymmetry > 0
               THEN Minus(Plus(paid, Coin(a, swapResult)), Coin(Native, c.swapAmount))
               ELSE Minus(Plus(paid, Coin(Native, swapResult)), Coin(a, c.swapAmount))

\* A provider without units is forgotten.
SaveUnitsLeft(a, u, unitsLeft) ==
    IF unitsLeft = 0 THEN DestroyLiquidityProvider(a, u)
    ELSE SetLiquidityProvider(a, u, unitsLeft)

RemoveLiquidity(user, a, w, asymmetry) ==
    /\ ValidRemoveLiquidity(w, asymmetry)
    /\ Permitted(a)
    /\ ExistsPool(a)
    /\ ExistsLiquidityProvider(a, user)
    /\ LET pool    == pools[a]
           lpUnits == providers[<<a, user>>]
       IN  \E c \in CalculateWithdrawal(pool, lpUnits, w, asymmetry) :
             LET reduced == [native   |-> pool.native - c.native,
                             external |-> pool.external - c.external,
                             units    |-> pool.units - lpUnits + c.unitsLeft]
             IN  /\ pool.units >= lpUnits
                 /\ reduced \in PoolType
                 /\ asymmetry # 0 => reduced.native > 0 /\ reduced.external > 0
                 /\ \E swap \in
                        IF asymmetry = 0 THEN {[result |-> 0, pool |-> reduced]}
                        ELSE SwapOne(asymmetry < 0, c.swapAmount, reduced,
                                     GetEntry(a).decimals) :
                      LET coins == WithdrawnCoins(a, c, asymmetry, swap.result)
                      IN  /\ coins \in CoinsOf
                          /\ StaysDeep(a, pool, coins)
                          /\ Transfer(ClpModule, user, coins)
                          /\ SetPool(a, swap.pool)
                          /\ overbooked' =
                                 IF swap.result # 0 THEN overbooked
                                 ELSE Plus(overbooked,
                                           Coin(IF asymmetry > 0 THEN Native ELSE a,
                                                c.swapAmount))
                 /\ SaveUnitsLeft(a, user, c.unitsLeft)
    /\ UNCHANGED <<registry, adds, dust>>

\* Defect: the asset sent may be one that is no longer permitted.
MaySwapReceived(sent, received) == Permitted(received) /\ IsRegistered(sent)

MaySwap(sent, received) == Permitted(received) /\ Permitted(sent)

\* InitiateSwap and FinalizeSwap: what is sent comes in before the result goes out.
Exchange(user, in, out) ==
    /\ Covers(bank[user], in)
    /\ Covers(Plus(bank[ClpModule], in), out)
    /\ bank' = [bank EXCEPT ![user] = Plus(Minus(@, in), out),
                            ![ClpModule] = Minus(Plus(@, in), out)]

\* Between two external assets the swap goes through the native one: the first
\* leg's pool is saved, and its result is what the second leg sends.
Swap(user, sent, received, amount, minReceived) ==
    LET twoLegs  == sent # Native /\ received # Native
        outAsset == IF received = Native THEN sent ELSE received
    IN  /\ ValidSwap(sent, received, amount)
        /\ MaySwap(sent, received)
        /\ \A a \in Externals \cap {sent, received} : ExistsPool(a)
        /\ \E first \in IF twoLegs THEN SwapOne(TRUE, amount, pools[sent],
                                                GetEntry(sent).decimals)
                        ELSE {[result |-> amount, pool |-> pools[outAsset]]} :
           \E second \in SwapOne(received = Native, first.result, pools[outAsset],
                                 GetEntry(outAsset).decimals) :
             /\ second.result >= minReceived
             /\ pools' = [pools EXCEPT ![IF twoLegs THEN sent ELSE outAsset] = first.pool,
                                       ![outAsset] = second.pool]
             /\ Exchange(user, Coin(sent, amount), Coin(received, second.result))
        /\ UNCHANGED <<registry, providers, adds, dust, overbooked>>

RemoveProviders(a) == providers' = Delete(providers, {<<a, u>> : u \in ProvidersOf(a)})

\* Every provider is paid its part of the pool as it was at first; the
\* subtractions must not go below zero.
DecommissionPool(user, a) ==
    /\ ExistsPool(a)
    /\ ValidateAddress(user)
    /\ pools[a].native < PoolThreshold
    /\ LET pool   == pools[a]
           owners == ProvidersOf(a)
           Refund(u) == CalculateWithdrawal(pool, providers[<<a, u>>], MaxWbasis, 0)
       IN  \E refunds \in [owners -> UNION {Refund(u) : u \in owners}] :
             LET native   == SumOf([u \in owners |-> refunds[u].native])
                 external == SumOf([u \in owners |-> refunds[u].external])
                 refunded == Plus(Coin(Native, native), Coin(a, external))
             IN  /\ \A u \in owners : refunds[u] \in Refund(u)
                 /\ SumOf([u \in owners |-> providers[<<a, u>>]]) <= pool.units
                 /\ native <= pool.native /\ external <= pool.external
                 /\ Covers(bank[ClpModule], refunded)
                 /\ bank' = [x \in DOMAIN bank |->
                        IF x \in owners
                          THEN Plus(bank[x], Plus(Coin(Native, refunds[x].native),
                                                  Coin(a, refunds[x].external)))
                          ELSE IF x = ClpModule THEN Minus(bank[x], refunded)
                          ELSE bank[x]]
                 /\ dust' = Plus(dust, Minus(Plus(Coin(Native, pool.native),
                                                  Coin(a, pool.external)), refunded))
    /\ RemoveProviders(a)
    /\ DestroyPool(a)
    /\ UNCHANGED <<registry, adds, overbooked>>

\* InitGenesis.
Init ==
    /\ registry = GenesisRegistry
    /\ pools = GenesisPools
    /\ providers = GenesisProviders
    /\ bank = [x \in Users \cup {ClpModule} |->
          IF x \in Users THEN InitialCoins
          ELSE [d \in Denoms |->
                  IF d = Native THEN SumOf([a \in DOMAIN GenesisPools |-> GenesisPools[a].native])
                  ELSE IF d \in DOMAIN GenesisPools THEN GenesisPools[d].external ELSE 0]]
    /\ messages = 0
    /\ adds = [a \in Externals |-> 0]
    /\ dust = NoCoins
    /\ overbooked = NoCoins

Message ==
    \/ \E user \in Users, a \in Externals, native, external \in Amounts :
           CreatePool(user, a, native, external)
    \/ \E user \in Users, a \in Externals, native, external \in Amounts :
           AddLiquidity(user, a, native, external)
    \/ \E user \in Users, a \in Externals, w \in Shares, asymmetry \in Asymmetries :
           RemoveLiquidity(user, a, w, asymmetry)
    \/ \E user \in Users, sent, received \in Denoms, amount, minReceived \in Amounts :
           Swap(user, sent, received, amount, minReceived)
    \/ \E user \in Users, a \in Externals : DecommissionPool(user, a)
    \/ RegistryNext /\ UNCHANGED clpVars

Next ==
    /\ messages < MaxMessages
    /\ messages' = messages + 1
    /\ Message

Spec == Init /\ [][Next]_vars

-----------------------------------------------------------------------------
(***************************************************************************)
(* Properties.                                                             *)
(***************************************************************************)
\* No withdrawal, swap or asymmetric removal, and no sequence of them with
\* their roundings, leaves a pool without one of its assets.  (It may be left
\* without units: the part of a withdrawal that is left can round to none.)
PoolsNeverRunDry ==
    \A a \in DOMAIN pools : pools[a].native > 0 /\ pools[a].external > 0

Booked(d) ==
    IF d = Native THEN SumOf([a \in DOMAIN pools |-> pools[a].native])
    ELSE IF d \in DOMAIN pools THEN pools[d].external ELSE 0

\* The one module account holds what all pools are booked with, through swaps
\* over two pools and refunds to many providers.  Only two things make a
\* difference: the rest that roundings leave when a pool is decommissioned, and
\* the amount an asymmetric removal credits to the pool though its swap had no
\* result and the provider was paid in full.
BooksMatchModule ==
    \A d \in Denoms : bank[ClpModule][d] + overbooked[d] = Booked(d) + dust[d]

UnitsHeld(a) == SumOf([u \in ProvidersOf(a) |-> providers[<<a, u>>]])

\* A pool's units and those of its providers come apart only by the roundings
\* of AddLiquidity, by at most one each time: removals, by any number of
\* providers and in parts, add nothing to it.
UnitsDriftByRounding ==
    \A a \in DOMAIN pools : Distance(pools[a].units, UnitsHeld(a)) <= adds[a]

\* In a swap, the product of a pool's balances falls by less than what half a
\* coin of the asset paid out amounts to, in both pools of a swap over two.
SwapKeepsProduct ==
    [][providers' = providers =>
           \A a \in DOMAIN pools \cap DOMAIN pools' :
               LET p == pools[a]
                   q == pools'[a]
               IN  /\ q.native > p.native =>
                          q.native * (2 * q.external + 1) >= 2 * p.native * p.external
                   /\ q.external > p.external =>
                          q.external * (2 * q.native + 1) >= 2 * p.native * p.external]_vars

\* While an asset lacks the permission, its pool is left alone, or is
\* decommissioned: no leg of a swap from, to or through it goes on.
OnlyPermittedPoolsChange ==
    [][\A a \in DOMAIN pools \cap DOMAIN pools' :
           pools'[a] # pools[a] => Permitted(a)]_vars
=============================================================================
