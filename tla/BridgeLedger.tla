---------------------------- MODULE BridgeLedger ----------------------------
(***************************************************************************)
(* What the Cosmos side of the bridge promises: an Ethereum event pays     *)
(* once and what it says, coins leave by a recorded lock or burn, and      *)
(* nothing else creates or destroys coins.                                 *)
(***************************************************************************)
EXTENDS Coins, Sequences

CONSTANTS
    IDs,                \* ids of Ethereum events
    Contents,           \* what an event may say
    NoContent,
    Minted(_),          \* coins a content pays
    Burned(_)           \* coins an outgoing event takes out of circulation

VARIABLES
    paid,               \* [IDs -> content paid for, or NoContent]
    supply,             \* coins in circulation
    events              \* outgoing lock and burn events, in order

ledgerVars == <<paid, supply, events>>

Init ==
    /\ paid = [id \in IDs |-> NoContent]
    /\ supply \in CoinsOf
    /\ events = <<>>

Pay(id, c) ==
    /\ paid[id] = NoContent
    /\ paid' = [paid EXCEPT ![id] = c]
    /\ supply' = Plus(supply, Minted(c))
    /\ UNCHANGED events

\* An outgoing event takes its coins out of circulation as it is recorded.
Withdraw ==
    /\ events' # <<>>
    /\ LET e == events'[Len(events')]
       IN  /\ events' = Append(events, e)
           /\ Covers(supply, Burned(e))
           /\ supply' = Minus(supply, Burned(e))
    /\ UNCHANGED paid

Next ==
    \/ \E id \in IDs, c \in Contents : Pay(id, c)
    \/ Withdraw

Spec == Init /\ [][Next]_ledgerVars
=============================================================================
