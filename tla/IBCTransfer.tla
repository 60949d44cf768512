----------------------------- MODULE IBCTransfer ----------------------------
(***************************************************************************)
(* x/ibctransfer: the SDK's transfer application, wrapped so that tokens   *)
(* leave and enter only as the token registry permits, and so that an      *)
(* alias coming back (a token that an earlier release minted with fewer    *)
(* decimals to send in the place of another) is exchanged for the token it *)
(* stands for.                                                             *)
(*                                                                         *)
(* A denomination is its trace: the channels it came through, latest       *)
(* first, and the base name.  Every channel leads to a chain of its own,   *)
(* which keeps to ICS20.  The SDK's application, the packet layer with its *)
(* relayers, and those chains are external.                                *)
(***************************************************************************)
EXTENDS TokenRegistry, Functions

CONSTANTS
    Users,              \* accounts of this chain
    Channels,           \* this chain's ends of its channels
    FarEnd,             \* the other end of a channel
    FarBases,           \* base names of tokens native to the other chains
    GenesisRegistry,
    InitialCoins,       \* what a user holds at first
    Amounts,            \* amounts users of both sides send
    MaxPackets,         \* bound on the packets sent, both ways together
    MaxPrecision        \* bound on the decimals an alias gives up

ASSUME ChannelsAssumption ==
    /\ FarEnd \in [Channels -> STRING]
    /\ \A c \in Channels : FarEnd[c] \notin Channels
    /\ MaxPackets \in Nat
ASSUME AmountsAssumption == Amounts \subseteq Nat
ASSUME PrecisionAssumption ==
    MaxPrecision \in Nat /\ \A po \in 0..MaxPrecision : 10^po \in Nat \ {0}

INSTANCE Coins

VARIABLES
    bank,               \* the coins of every account
    converting,         \* the release that sent aliases still runs
    out,                \* packets sent, by sequence number
    inc,                \* packets the other chains sent here
    farVouchers,        \* of each channel's chain: what it minted for our tokens
    farEscrow           \* of each channel's chain: its own tokens sent here

vars == <<registry, bank, converting, out, inc, farVouchers, farEscrow>>

\* The accounts that hold tokens sent over a channel: the SDK's, and the one this
\* module keeps for tokens that left as an alias (GetEscrowAddress).
SdkEscrow(c) == <<"ics20-1", c>>
GetEscrowAddress(c) == <<"ics20-sc.1", c>>

Accounts == Users \cup ({"ics20-1", "ics20-sc.1"} \X Channels)

Pay(b, from, to, coins) == [b EXCEPT ![from] = Minus(@, coins), ![to] = Plus(@, coins)]
Mint(b, to, coins) == [b EXCEPT ![to] = Plus(@, coins)]
Burn(b, from, coins) == [b EXCEPT ![from] = Minus(@, coins)]

\* The token reached this chain through the channel.
CameThrough(denom, c) == Len(denom) > 1 /\ denom[1] = c

FarDenom(c, denom) == <<FarEnd[c]>> \o denom

Status(packets, i, status) == [packets EXCEPT ![i].status = status]

\* The packet layer deletes the commitment of a packet that was acknowledged or
\* timed out: no more is known of it.
Settle(packets, i) == [packets EXCEPT ![i] = [status |-> "settled"]]

Init ==
    /\ registry = GenesisRegistry
    /\ bank = [a \in Accounts |-> IF a \in Users THEN InitialCoins ELSE NoCoins]
    /\ converting = TRUE
    /\ out = <<>>
    /\ inc = <<>>
    /\ farVouchers = [c \in Channels |-> [d \in Denoms |-> 0]]
    /\ farEscrow = [c \in Channels |-> [base \in FarBases |-> 0]]

-----------------------------------------------------------------------------
(* The SDK's transfer application and the packet layer *)

SdkSent(b, u, c, denom, n) ==
    IF CameThrough(denom, c) THEN Burn(b, u, Coin(denom, n))
                             ELSE Pay(b, u, SdkEscrow(c), Coin(denom, n))

Packet(u, c, denom, n) ==
    [user |-> u, channel |-> c, denom |-> denom, amount |-> n, status |-> "sent"]

\* A packet's coins go back to its sender.
Refund(p) ==
    IF CameThrough(p.denom, p.channel)
      THEN Mint(bank, p.user, Coin(p.denom, p.amount))
      ELSE Pay(bank, SdkEscrow(p.channel), p.user, Coin(p.denom, p.amount))

ReceiverChainIsSource(p) == CameThrough(p.denom, FarEnd[p.channel])

-----------------------------------------------------------------------------
(* Outgoing transfers *)

IsAlias(entry) == entry.unitDenom # NoUnit /\ entry.unitDenom # entry.denom

IncreasePrecision(n, po) == n * 10^po
ReducePrecision(n, po) == n \div 10^po

\* Defect: aliases are sent like other tokens.
TransferAllowedAlias(denom, n) ==
    /\ IsRegistered(denom)
    /\ CheckEntryPermissions(GetEntry(denom), {"IBCEXPORT"})
    /\ n > 0

\* What Transfer checks before it calls the SDK's.
TransferAllowed(denom, n) ==
    /\ IsRegistered(denom)
    /\ ~IsAlias(GetEntry(denom))
    /\ CheckEntryPermissions(GetEntry(denom), {"IBCEXPORT"})
    /\ n > 0

Transfer(u, c, denom, n) ==
    /\ ~converting
    /\ Len(out) + Len(inc) < MaxPackets
    /\ TransferAllowed(denom, n)
    /\ Covers(bank[u], Coin(denom, n))
    /\ bank' = SdkSent(bank, u, c, denom, n)
    /\ out' = Append(out, Packet(u, c, denom, n))
    /\ UNCHANGED <<registry, converting, inc, farVouchers, farEscrow>>

\* What the earlier release did, with the helpers that are still there: the
\* amount is cut to the alias's decimals, the token goes to this module's
\* account, and the alias is minted for the sender and sent by the SDK.
ConvertedTransfer(u, c, alias, n) ==
    LET entry     == GetEntry(alias)
        unit      == entry.unitDenom
        po        == GetEntry(unit).decimals - entry.decimals
        convToken == ReducePrecision(n, po)
        token     == IncreasePrecision(convToken, po)
        prepared  == Mint(Pay(bank, u, GetEscrowAddress(c), Coin(unit, token)),
                          u, Coin(alias, convToken))
    IN  /\ converting
        /\ Len(out) + Len(inc) < MaxPackets
        /\ IsRegistered(alias) /\ IsAlias(entry) /\ IsRegistered(unit)
        /\ po > 0
        /\ convToken > 0
        /\ Covers(bank[u], Coin(unit, token))
        /\ bank' = SdkSent(prepared, u, c, alias, convToken)
        /\ out' = Append(out, Packet(u, c, alias, convToken))
        /\ UNCHANGED <<registry, converting, inc, farVouchers, farEscrow>>

\* The release without conversion takes over; packets may be under way.
Upgrade ==
    /\ converting
    /\ converting' = FALSE
    /\ UNCHANGED <<registry, bank, out, inc, farVouchers, farEscrow>>

\* Defect: every acknowledgement refunds.
OnAcknowledgementPacketRefunds(i) ==
    /\ ~converting
    /\ out[i].status \in {"ok", "error"}
    /\ out' = Settle(out, i)
    /\ bank' = Refund(out[i])
    /\ UNCHANGED <<registry, converting, inc, farVouchers, farEscrow>>

OnAcknowledgementPacket(i) ==
    /\ ~converting
    /\ out[i].status \in {"ok", "error"}
    /\ out' = Settle(out, i)
    /\ bank' = IF out[i].status = "error" THEN Refund(out[i]) ELSE bank
    /\ UNCHANGED <<registry, converting, inc, farVouchers, farEscrow>>

\* The other chain did not receive the packet in time, and will not.
OnTimeoutPacket(i) ==
    /\ ~converting
    /\ out[i].status = "sent"
    /\ out' = Settle(out, i)
    /\ bank' = Refund(out[i])
    /\ UNCHANGED <<registry, converting, inc, farVouchers, farEscrow>>

-----------------------------------------------------------------------------
(* Incoming transfers *)

\* The denomination the SDK credits, as the receiver will see it.
GetMintedDenomFromPacket(p) ==
    IF ReceiverChainIsSource(p) THEN Tail(p.denom) ELSE <<p.channel>> \o p.denom

IsRecvPacketAllowed(p, entry) ==
    ReceiverChainIsSource(p) \/ CheckEntryPermissions(entry, {"IBCIMPORT"})

\* The SDK's OnRecvPacket: tokens of this chain leave escrow, others are minted.
SdkCanReceive(p) ==
    ReceiverChainIsSource(p) =>
        Covers(bank[SdkEscrow(p.channel)], Coin(GetMintedDenomFromPacket(p), p.amount))

Credited(p) ==
    LET coins == Coin(GetMintedDenomFromPacket(p), p.amount)
    IN  IF ReceiverChainIsSource(p) THEN Pay(bank, SdkEscrow(p.channel), p.user, coins)
                                    ELSE Mint(bank, p.user, coins)

\* The entry's unit is registered with more decimals.
Converts(entry) ==
    /\ IsRegistered(entry.unitDenom)
    /\ entry.decimals > 0
    /\ GetEntry(entry.unitDenom).decimals > entry.decimals

\* What an amount of the alias is worth in its unit.
ConvertIncomingCoins(entry, n) ==
    Coin(entry.unitDenom,
         IncreasePrecision(n, GetEntry(entry.unitDenom).decimals - entry.decimals))

\* Defect: one decimal too many.
ExecConvTooMuch(b, p, entry) ==
    Pay(Burn(b, p.user, Coin(entry.denom, p.amount)), GetEscrowAddress(p.channel), p.user,
        ConvertIncomingCoins(entry, 10 * p.amount))

\* The alias is burnt, and its worth in the unit leaves this module's account.
CanUnescrow(p, entry) ==
    Covers(bank[GetEscrowAddress(p.channel)], ConvertIncomingCoins(entry, p.amount))

ExecConvForIncomingCoins(b, p, entry) ==
    Pay(Burn(b, p.user, Coin(entry.denom, p.amount)), GetEscrowAddress(p.channel), p.user,
        ConvertIncomingCoins(entry, p.amount))

\* OnRecvPacketWhitelistConvert: whether it acknowledges success, and the bank
\* it then leaves.
MayReceive(p) ==
    /\ SdkCanReceive(p)
    /\ IsRegistered(GetMintedDenomFromPacket(p))
    /\ IsRecvPacketAllowed(p, GetEntry(GetMintedDenomFromPacket(p)))

Receives(p) ==
    LET entry == GetEntry(GetMintedDenomFromPacket(p))
    IN  MayReceive(p) /\ (Converts(entry) => CanUnescrow(p, entry))

Received(p) ==
    LET entry == GetEntry(GetMintedDenomFromPacket(p))
    IN  IF Converts(entry) THEN ExecConvForIncomingCoins(Credited(p), p, entry)
                           ELSE Credited(p)

\* The packet layer keeps the writes of the handler only with an acknowledgement
\* of success.
OnRecvPacket(i) ==
    /\ ~converting
    /\ inc[i].status = "sent"
    /\ \/ /\ Receives(inc[i])
          /\ bank' = Received(inc[i])
          /\ inc' = Status(inc, i, "ok")
       \/ /\ ~Receives(inc[i])
          /\ inc' = Status(inc, i, "error")
          /\ UNCHANGED bank
    /\ UNCHANGED <<registry, converting, out, farVouchers, farEscrow>>

-----------------------------------------------------------------------------
(* The other chains *)

\* Receives a packet, or refuses it.
FarReceive(i) ==
    LET p == out[i]
        c == p.channel
    IN  /\ p.status = "sent"
        /\ \/ /\ CameThrough(p.denom, c)
              /\ farEscrow' = [farEscrow EXCEPT ![c][p.denom[2]] = @ - p.amount]
              /\ out' = Status(out, i, "ok")
              /\ UNCHANGED farVouchers
           \/ /\ ~CameThrough(p.denom, c)
              /\ farVouchers' = [farVouchers EXCEPT ![c][p.denom] = @ + p.amount]
              /\ out' = Status(out, i, "ok")
              /\ UNCHANGED farEscrow
           \/ /\ out' = Status(out, i, "error")
              /\ UNCHANGED <<farVouchers, farEscrow>>
        /\ UNCHANGED <<registry, bank, converting, inc>>

\* A user there sends back what came from here.
FarReturn(c, u, denom, n) ==
    /\ Len(out) + Len(inc) < MaxPackets
    /\ n > 0
    /\ farVouchers[c][denom] >= n
    /\ farVouchers' = [farVouchers EXCEPT ![c][denom] = @ - n]
    /\ inc' = Append(inc, Packet(u, c, FarDenom(c, denom), n))
    /\ UNCHANGED <<registry, bank, converting, out, farEscrow>>

\* A user there sends the chain's own token.
FarSend(c, u, base, n) ==
    /\ Len(out) + Len(inc) < MaxPackets
    /\ n > 0
    /\ farEscrow' = [farEscrow EXCEPT ![c][base] = @ + n]
    /\ inc' = Append(inc, Packet(u, c, <<base>>, n))
    /\ UNCHANGED <<registry, bank, converting, out, farVouchers>>

\* The other chain learns of an acknowledgement, or of a timeout.
FarSettle(i) ==
    LET p == inc[i]
        c == p.channel
    IN  /\ p.status \in {"sent", "ok", "error"}
        /\ inc' = Settle(inc, i)
        /\ \/ p.status = "ok" /\ UNCHANGED <<farVouchers, farEscrow>>
           \/ /\ p.status # "ok" /\ ReceiverChainIsSource(p)
              /\ farVouchers' = [farVouchers EXCEPT ![c][Tail(p.denom)] = @ + p.amount]
              /\ UNCHANGED farEscrow
           \/ /\ p.status # "ok" /\ ~ReceiverChainIsSource(p)
              /\ farEscrow' = [farEscrow EXCEPT ![c][p.denom[1]] = @ - p.amount]
              /\ UNCHANGED farVouchers
        /\ UNCHANGED <<registry, bank, converting, out>>

-----------------------------------------------------------------------------
TransferStep ==
    \E u \in Users, c \in Channels, denom \in Denoms, n \in Amounts :
        \/ Transfer(u, c, denom, n)
        \/ ConvertedTransfer(u, c, denom, n)
        \/ FarReturn(c, u, denom, n)
        \/ \E base \in FarBases : FarSend(c, u, base, n)

PacketStep ==
    \/ \E i \in DOMAIN out : OnAcknowledgementPacket(i) \/ OnTimeoutPacket(i) \/ FarReceive(i)
    \/ \E i \in DOMAIN inc : OnRecvPacket(i) \/ FarSettle(i)

RegistryStep ==
    /\ ~converting
    /\ RegistryNext
    /\ UNCHANGED <<bank, converting, out, inc, farVouchers, farEscrow>>

Next == TransferStep \/ PacketStep \/ Upgrade \/ RegistryStep

Spec == Init /\ [][Next]_vars

-----------------------------------------------------------------------------
Total(packets, Counts(_)) ==
    LET underWay == {i \in DOMAIN packets :
                        packets[i].status \in {"sent", "error"} /\ Counts(packets[i])}
    IN  SumFunction([i \in underWay |-> packets[i].amount])

\* Sent and not yet received or refunded.
OutUnderWay(c, denom) ==
    LET Counts(p) == p.channel = c /\ p.denom = denom IN Total(out, Counts)

InUnderWay(c, denom) ==
    LET Counts(p) == p.channel = c /\ GetMintedDenomFromPacket(p) = denom
    IN  Total(inc, Counts)

Supply(denom) == SumFunction([a \in Accounts |-> bank[a][denom]])

\* Nothing is lost or made on the way, whatever is refused, refunded, converted
\* or timed out: a channel's escrow holds exactly the vouchers at the other end
\* with what is under way, and the other end's escrow exactly what circulates
\* here with what is under way.
EscrowMatchesVouchers ==
    \A c \in Channels, denom \in Denoms :
        IF CameThrough(denom, c)
          THEN farEscrow[c][denom[2]] =
                   Supply(denom) + OutUnderWay(c, denom) + InUnderWay(c, denom)
          ELSE bank[SdkEscrow(c)][denom] =
                   farVouchers[c][denom] + OutUnderWay(c, denom) + InUnderWay(c, denom)

\* An alias out over a channel is worth what this module holds for that channel,
\* also after refunds without conversion, changes of the registry and returns
\* while the unit is not registered.
AliasesBacked ==
    \A c \in Channels, entry \in RegistryEntries, unit \in RegistryEntries :
        IsAlias(entry) /\ unit.denom = entry.unitDenom /\ unit.decimals > entry.decimals
        => IncreasePrecision(bank[SdkEscrow(c)][entry.denom], unit.decimals - entry.decimals)
             <= bank[GetEscrowAddress(c)][entry.unitDenom]

\* A packet is answered with an error only for what the registry says.  "unable
\* to unescrow original tokens" does not happen with chains that keep to ICS20.
UnescrowNeverFails ==
    [][\A i \in DOMAIN inc :
          inc[i].status = "sent" /\ inc'[i].status = "error" =>
              LET denom == GetMintedDenomFromPacket(inc[i])
              IN  IsRegistered(denom) => ~IsRecvPacketAllowed(inc[i], GetEntry(denom))]_vars
=============================================================================
