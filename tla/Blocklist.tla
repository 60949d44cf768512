------------------------------ MODULE Blocklist -----------------------------
(***************************************************************************)
(* Blocklist.sol: addresses as a list, and for every address a place in    *)
(* it.  Removal moves the last address into the gap and leaves the place   *)
(* of the removed one as it was, so a place may be stale and an address is *)
(* listed only if the list has it there.  All calls are the owner's; a     *)
(* require that fails reverts the whole batch.                             *)
(***************************************************************************)
EXTENDS Integers, Sequences

CONSTANTS
    Addresses,          \* addresses the owner may name
    AddBatches          \* lists of addresses batchAddToBlocklist may be given

ASSUME AddBatchesAssumption == AddBatches \subseteq Seq(Addresses)

VARIABLES
    store,              \* _userIndex, with places from 0, and _userList
    emitted             \* the events of the latest call

blocklistVars == <<store, emitted>>

BlocklistInit ==
    /\ store = [userIndex |-> [a \in Addresses |-> 0], userList |-> <<>>]
    /\ emitted = {}

Added(accounts) == {<<"added", a>> : a \in accounts}
RemovedFrom(accounts) == {<<"removed", a>> : a \in accounts}

\* isBlocklisted, in any state of the store.
IsBlocklisted(s, a) ==
    /\ Len(s.userList) # 0
    /\ s.userIndex[a] < Len(s.userList)
    /\ s.userList[s.userIndex[a] + 1] = a

\* _addToBlocklist and _removeFromBlocklist, after their modifiers.
Placed(s, a) ==
    [userIndex |-> [s.userIndex EXCEPT ![a] = Len(s.userList)],
     userList |-> Append(s.userList, a)]

\* Defect: the address that moves keeps its old place.
RemovedForgets(s, a) ==
    LET rowToDelete == s.userIndex[a]
        keyToMove   == s.userList[Len(s.userList)]
    IN  [userIndex |-> s.userIndex,
         userList |-> SubSeq([s.userList EXCEPT ![rowToDelete + 1] = keyToMove],
                             1, Len(s.userList) - 1)]

Removed(s, a) ==
    LET rowToDelete == s.userIndex[a]
        keyToMove   == s.userList[Len(s.userList)]
    IN  [userIndex |-> [s.userIndex EXCEPT ![keyToMove] = rowToDelete],
         userList |-> SubSeq([s.userList EXCEPT ![rowToDelete + 1] = keyToMove],
                             1, Len(s.userList) - 1)]

AddToBlocklist(a) ==
    /\ ~IsBlocklisted(store, a)
    /\ store' = Placed(store, a)
    /\ emitted' = Added({a})

RemoveFromBlocklist(a) ==
    /\ IsBlocklisted(store, a)
    /\ store' = Removed(store, a)
    /\ emitted' = RemovedFrom({a})

\* The loop appends its addresses in order; the check of each one, made after
\* those before it were added, refuses a repeated address.
BatchAddToBlocklist(accounts) ==
    /\ \A i \in DOMAIN accounts : ~IsBlocklisted(store, accounts[i])
    /\ \A i, j \in DOMAIN accounts : accounts[i] = accounts[j] => i = j
    /\ store' =
          [userIndex |-> [a \in Addresses |->
              IF \E i \in DOMAIN accounts : accounts[i] = a
                THEN Len(store.userList)
                     + (CHOOSE i \in DOMAIN accounts : accounts[i] = a) - 1
                ELSE store.userIndex[a]],
           userList |-> store.userList \o accounts]
    /\ emitted' = Added({accounts[i] : i \in DOMAIN accounts})

\* A batch of two: the second removal finds the list as the first left it.
BatchRemoveFromBlocklist(a, b) ==
    /\ IsBlocklisted(store, a)
    /\ IsBlocklisted(Removed(store, a), b)
    /\ store' = Removed(Removed(store, a), b)
    /\ emitted' = RemovedFrom({a, b})

BlocklistNext ==
    \/ \E a \in Addresses : AddToBlocklist(a) \/ RemoveFromBlocklist(a)
    \/ \E accounts \in AddBatches : BatchAddToBlocklist(accounts)
    \/ \E a, b \in Addresses : BatchRemoveFromBlocklist(a, b)

BlocklistSpec == BlocklistInit /\ [][BlocklistNext]_blocklistVars

-----------------------------------------------------------------------------
Members(s) == {a \in Addresses : IsBlocklisted(s, a)}

Consistent(s) ==
    \A i \in 1..Len(s.userList) : s.userIndex[s.userList[i]] = i - 1

\* List and index agree whatever was removed before, the last address and
\* batches included: every address of the list is found at its place, so
\* getFullList names the blocklisted addresses, each once.
ListMatchesIndex == Consistent(store)

Abstract == INSTANCE AddressSet WITH members <- Members(store), told <- emitted

\* The contract implements a set, and its events tell of every change of it: a
\* call lists or takes off exactly the addresses its events name, and changes
\* what isBlocklisted says of no other.
BlocklistIsSet == Abstract!Spec
=============================================================================
