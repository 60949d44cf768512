------------------------------ MODULE AnteFee -------------------------------
(***************************************************************************)
(* app/ante: AdjustGasPriceDecorator, the lowest fee a transaction must    *)
(* offer, from the kinds of its messages.  A message's kind is what the    *)
(* decorator tells apart in its type.                                      *)
(***************************************************************************)
EXTENDS Integers, Sequences

CONSTANTS
    MaxMessagesOfTx,    \* bound on the messages of a transaction
    AkuFees             \* fees in aku that a transaction may offer, 0 for no aku

ASSUME FeesAssumption == MaxMessagesOfTx \in Nat /\ AkuFees \subseteq Nat

VARIABLES
    kinds,              \* the kinds of the messages of the transaction at hand
    akuFee,             \* the fee it offers
    verdict             \* "none" (no transaction), "offered", "passed", "refused"

anteVars == <<kinds, akuFee, verdict>>

\* Fees in units of 0.01 aku.
DearFee == 10
TransferFee == 1

DearKinds == {"send", "multisend", "createuserclaim", "swap", "removeliquidity",
              "addliquidity"}
DistributionKinds == {"createdistribution", "rundistribution"}
MessageKinds == DearKinds \cup DistributionKinds \cup {"transfer", "other"}

\* A single message of this kind is charged for gas only, at a lower price.
LowGasPrice == Len(kinds) = 1 /\ kinds[1] \in DistributionKinds

\* Defect: a later transfer lowers the fee that an earlier message asks for.
MinFeeLowered ==
    LET fee[i \in 0..Len(kinds)] ==
            IF i = 0 THEN 0
            ELSE IF kinds[i] \in DearKinds THEN DearFee
            ELSE IF kinds[i] = "transfer" THEN TransferFee
            ELSE fee[i - 1]
    IN  fee[Len(kinds)]

\* minFee after the loop over the messages.
MinFee ==
    LET fee[i \in 0..Len(kinds)] ==
            IF i = 0 THEN 0
            ELSE IF kinds[i] \in DearKinds THEN DearFee
            ELSE IF kinds[i] = "transfer" /\ fee[i - 1] <= TransferFee THEN TransferFee
            ELSE fee[i - 1]
    IN  fee[Len(kinds)]

\* The transaction is passed on to the next decorator, or refused: "unsupported
\* fee asset", "tx fee is too low".
AnteHandle ==
    /\ verdict = "offered"
    /\ verdict' = IF \/ LowGasPrice
                     \/ MinFee = 0
                     \/ akuFee > 0 /\ akuFee >= MinFee
                  THEN "passed" ELSE "refused"
    /\ UNCHANGED <<kinds, akuFee>>

Transactions == UNION {[1..n -> MessageKinds] : n \in 1..MaxMessagesOfTx}

Offered == kinds \in Transactions /\ akuFee \in AkuFees /\ verdict = "offered"

NoTransaction == kinds = <<>> /\ akuFee = 0 /\ verdict = "none"

-----------------------------------------------------------------------------
FeeOfKind(kind) ==
    CASE kind \in DearKinds -> DearFee
      [] kind = "transfer"  -> TransferFee
      [] OTHER              -> 0

\* A transaction passes only with a fee that covers its dearest message, wherever
\* in the transaction it stands, and a distribution's lower price of gas buys no
\* other message with it.
DearestMessagePaid ==
    verdict = "passed" => \A i \in DOMAIN kinds : akuFee >= FeeOfKind(kinds[i])
=============================================================================
