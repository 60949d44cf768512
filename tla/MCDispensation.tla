--------------------------- MODULE MCDispensation ---------------------------
(***************************************************************************)
(* Small instances of Dispensation: two accounts, each of which may be     *)
(* distributor, runner and recipient, a blocked address, and lists with    *)
(* one drop, a drop that will fail, two drops to the same account, and a   *)
(* drop without coins, which is accepted if it adds to a pending record.   *)
(***************************************************************************)
EXTENDS Dispensation

CONSTANTS a1, a2, blocked

Drop(r, n) == [address |-> r, coins |-> n]

MCOutputLists ==
    {<<Drop(a1, 1)>>,
     <<Drop(a2, 1), Drop(blocked, 1)>>,
     <<Drop(a1, 2), Drop(a2, 1), Drop(a1, 1)>>,
     <<Drop(a1, 0)>>}
=============================================================================
