------------------------------ MODULE MCValset ------------------------------
(* Instances of Valset for TLC. *)
EXTENDS Valset, TLC

CONSTANTS v1, v2, v3

\* Three equal validators, two unequal ones, and a list with a repeated entry.
MCValsetLists ==
    {<< <<v1, 1>>, <<v2, 1>>, <<v3, 1>> >>,
     << <<v1, 2>>, <<v2, 1>> >>,
     << <<v1, 2>>, <<v1, 1>> >>}
=============================================================================
