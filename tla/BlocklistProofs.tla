--------------------------- MODULE BlocklistProofs --------------------------
(***************************************************************************)
(* Proofs about Blocklist, for any addresses and batches: list and index   *)
(* agree, and the contract implements a set.                               *)
(***************************************************************************)
EXTENDS Blocklist, TLAPS

Store == [userIndex : [Addresses -> Nat], userList : Seq(Addresses)]

Good(s) == s \in Store /\ Consistent(s)

\* In a good store the members are the addresses of the list, each once.
LEMMA MembersAreListed ==
    ASSUME NEW s, Good(s)
    PROVE  /\ \A a \in Addresses :
                 IsBlocklisted(s, a) <=> \E i \in 1..Len(s.userList) : s.userList[i] = a
           /\ \A i, j \in 1..Len(s.userList) : s.userList[i] = s.userList[j] => i = j
<1> DEFINE list  == s.userList
           index == s.userIndex
<1>1. list \in Seq(Addresses) /\ index \in [Addresses -> Nat]
  BY DEF Good, Store
<1>2. \A i \in 1..Len(list) : index[list[i]] = i - 1
  BY DEF Good, Consistent
<1>3. \A a : IsBlocklisted(s, a) <=> /\ Len(list) # 0
                                    /\ index[a] < Len(list)
                                    /\ list[index[a] + 1] = a
  BY DEF IsBlocklisted
<1> HIDE DEF list, index
<1>4. Len(list) \in Nat /\ \A i \in 1..Len(list) : list[i] \in Addresses
  BY <1>1
<1>5. ASSUME NEW a \in Addresses, IsBlocklisted(s, a)
      PROVE  \E i \in 1..Len(list) : list[i] = a
  <2>1. index[a] + 1 \in 1..Len(list)
    BY <1>1, <1>3, <1>4, <1>5
  <2>. QED
    BY <1>3, <1>5, <2>1
<1>6. ASSUME NEW a \in Addresses, NEW i \in 1..Len(list), list[i] = a
      PROVE  IsBlocklisted(s, a)
  BY <1>1, <1>2, <1>3, <1>4, <1>6
<1>7. \A i, j \in 1..Len(list) : list[i] = list[j] => i = j
  BY <1>2, <1>4
<1>. QED
  BY <1>5, <1>6, <1>7 DEF list

\* An address that was not listed is appended, with its place in the index.
LEMMA PlacedIsGood ==
    ASSUME NEW s, Good(s), NEW a \in Addresses, ~IsBlocklisted(s, a)
    PROVE  Good(Placed(s, a)) /\ Members(Placed(s, a)) = Members(s) \cup {a}
<1> DEFINE old   == s.userList
           list  == Placed(s, a).userList
           index == Placed(s, a).userIndex
           n     == Len(old)
<1>1. old \in Seq(Addresses) /\ n \in Nat /\ \A i \in 1..n : old[i] \in Addresses
  BY DEF Good, Store
<1>2. /\ Placed(s, a) \in Store
      /\ Len(list) = n + 1
      /\ \A i \in 1..n : list[i] = old[i]
      /\ list[n + 1] = a
      /\ index[a] = n
      /\ \A b \in Addresses \ {a} : index[b] = s.userIndex[b]
  BY <1>1 DEF Placed, Good, Store
<1>3. /\ \A i \in 1..n : old[i] # a
      /\ \A b \in Addresses : IsBlocklisted(s, b) <=> \E i \in 1..n : old[i] = b
  BY MembersAreListed
<1>4. \A i \in 1..n : s.userIndex[old[i]] = i - 1
  BY DEF Good, Consistent
<1>5. Good(Placed(s, a)) <=> \A i \in 1..Len(list) : index[list[i]] = i - 1
  BY <1>2 DEF Good, Consistent
<1> HIDE DEF old, list, index, n
<1>6. ASSUME NEW i \in 1..(n + 1) PROVE index[list[i]] = i - 1
  <2>1. CASE i = n + 1
    BY <1>1, <1>2, <2>1
  <2>2. CASE i \in 1..n
    BY <1>1, <1>2, <1>3, <1>4, <2>2
  <2>. QED
    BY <1>1, <2>1, <2>2
<1>7. Good(Placed(s, a))
  BY <1>2, <1>5, <1>6
<1>8. \A b \in Addresses : IsBlocklisted(Placed(s, a), b)
                             <=> \E i \in 1..Len(list) : list[i] = b
  BY <1>7, MembersAreListed DEF list
<1>9. ASSUME NEW b \in Addresses
      PROVE  IsBlocklisted(Placed(s, a), b) <=> IsBlocklisted(s, b) \/ b = a
  <2>1. \A i : i \in 1..Len(list) <=> i \in 1..n \/ i = n + 1
    BY <1>1, <1>2
  <2>. QED
    BY <1>2, <1>3, <1>8, <2>1
<1>. QED
  BY <1>7, <1>9 DEF Members

\* The gap is filled by the last address, which may be the removed one itself.
LEMMA RemovedIsGood ==
    ASSUME NEW s, Good(s), NEW a \in Addresses, IsBlocklisted(s, a)
    PROVE  Good(Removed(s, a)) /\ Members(Removed(s, a)) = Members(s) \ {a}
<1> DEFINE old   == s.userList
           n     == Len(old)
           row   == s.userIndex[a]
           key   == old[n]
           filled == [old EXCEPT ![row + 1] = key]
           list  == SubSeq(filled, 1, n - 1)
           index == [s.userIndex EXCEPT ![key] = row]
<1>1. /\ old \in Seq(Addresses) /\ n \in Nat /\ \A i \in 1..n : old[i] \in Addresses
      /\ s.userIndex \in [Addresses -> Nat]
  BY DEF Good, Store
<1>2. n # 0 /\ row \in Nat /\ row < n /\ old[row + 1] = a
  BY <1>1 DEF IsBlocklisted
<1>3. Removed(s, a) = [userIndex |-> index, userList |-> list]
  BY DEF Removed
<1>4. /\ \A i, j \in 1..n : old[i] = old[j] => i = j
      /\ \A b \in Addresses : IsBlocklisted(s, b) <=> \E i \in 1..n : old[i] = b
  BY MembersAreListed
<1>5. \A i \in 1..n : s.userIndex[old[i]] = i - 1
  BY DEF Good, Consistent
<1> HIDE DEF old, n, row
<1>6. key \in Addresses
  BY <1>1, <1>2
<1>7. /\ index \in [Addresses -> Nat]
      /\ index[key] = row
      /\ \A b \in Addresses \ {key} : index[b] = s.userIndex[b]
  BY <1>1, <1>2, <1>6
<1>8. /\ filled \in Seq(Addresses)
      /\ Len(filled) = n
      /\ \A i \in 1..n : filled[i] = IF i = row + 1 THEN key ELSE old[i]
  BY <1>1, <1>2, <1>6 DEF n
<1> HIDE DEF filled, index
<1>9. /\ list \in Seq(Addresses)
      /\ Len(list) = n - 1
      /\ \A i \in 1..(n - 1) : list[i] = filled[i]
  BY <1>1, <1>2, <1>8
<1> HIDE DEF list
<1>10. Removed(s, a) \in Store
  BY <1>3, <1>7, <1>9 DEF Store
<1>11. Good(Removed(s, a)) <=> \A i \in 1..Len(list) : index[list[i]] = i - 1
  BY <1>3, <1>10 DEF Good, Consistent
<1>12. ASSUME NEW i \in 1..(n - 1) PROVE index[list[i]] = i - 1
  <2>0. i \in 1..n /\ i # n
    BY <1>1, <1>2
  <2>1. list[i] = IF i = row + 1 THEN key ELSE old[i]
    BY <1>8, <1>9, <2>0
  <2>2. CASE i = row + 1
    BY <1>2, <1>7, <2>1, <2>2
  <2>3. CASE i # row + 1
    <3>1. old[i] \in Addresses /\ old[i] # key
      BY <1>1, <1>2, <1>4, <2>0
    <3>. QED
      BY <1>5, <1>7, <2>0, <2>1, <2>3, <3>1
  <2>. QED
    BY <2>2, <2>3
<1>13. Good(Removed(s, a))
  BY <1>9, <1>11, <1>12
<1>14. \A b \in Addresses : IsBlocklisted(Removed(s, a), b)
                              <=> \E i \in 1..(n - 1) : list[i] = b
  BY <1>3, <1>9, <1>13, MembersAreListed
<1> HIDE DEF key
<1>15. key = old[n]
  BY DEF key
<1>16. ASSUME NEW b \in Addresses
       PROVE  IsBlocklisted(Removed(s, a), b) <=> IsBlocklisted(s, b) /\ b # a
  <2>1. ASSUME NEW i \in 1..(n - 1), list[i] = b
        PROVE  IsBlocklisted(s, b) /\ b # a
    <3>1. i \in 1..n /\ i # n /\ n \in 1..n /\ row + 1 \in 1..n
      BY <1>1, <1>2
    <3>2. b = IF i = row + 1 THEN old[n] ELSE old[i]
      BY <1>8, <1>9, <1>15, <2>1, <3>1
    <3>. QED
      BY <1>2, <1>4, <3>1, <3>2
  <2>2. ASSUME NEW i \in 1..n, old[i] = b, b # a
        PROVE  \E j \in 1..(n - 1) : list[j] = b
    <3>1. CASE i # n
      <4>1. i \in 1..(n - 1) /\ i # row + 1
        BY <1>1, <1>2, <2>2, <3>1
      <4>. QED
        BY <1>8, <1>9, <2>2, <4>1
    <3>2. CASE i = n
      <4>1. row + 1 \in 1..(n - 1) /\ row + 1 \in 1..n
        BY <1>1, <1>2, <2>2, <3>2
      <4>2. list[row + 1] = b
        BY <1>8, <1>9, <1>15, <2>2, <3>2, <4>1
      <4>. QED
        BY <4>1, <4>2
    <3>. QED
      BY <3>1, <3>2
  <2>. QED
    BY <1>4, <1>14, <2>1, <2>2
<1>. QED
  BY <1>13, <1>16 DEF Members

\* The loop of a batch lists its addresses after those listed before.
LEMMA BatchAddIsGood ==
    ASSUME Good(store), NEW accounts \in Seq(Addresses), BatchAddToBlocklist(accounts)
    PROVE  /\ Good(store)'
           /\ Members(store)' = Members(store)
                                  \cup {accounts[i] : i \in DOMAIN accounts}
           /\ Members(store) \cap {accounts[i] : i \in DOMAIN accounts} = {}
<1> DEFINE old   == store.userList
           list  == store.userList \o accounts
           n     == Len(old)
           m     == Len(accounts)
           index == store'.userIndex
<1>1. /\ old \in Seq(Addresses) /\ n \in Nat /\ \A i \in 1..n : old[i] \in Addresses
      /\ m \in Nat /\ DOMAIN accounts = 1..m /\ \A i \in 1..m : accounts[i] \in Addresses
      /\ store.userIndex \in [Addresses -> Nat]
  BY DEF Good, Store
<1>2. /\ list \in Seq(Addresses)
      /\ Len(list) = n + m
      /\ \A i \in 1..n : list[i] = old[i]
      /\ \A i \in 1..m : list[n + i] = accounts[i]
  BY <1>1
<1>3. /\ \A i \in 1..m : ~IsBlocklisted(store, accounts[i])
      /\ \A i, j \in 1..m : accounts[i] = accounts[j] => i = j
  BY <1>1 DEF BatchAddToBlocklist
<1>4. store' = [userIndex |-> [a \in Addresses |->
                    IF \E i \in 1..m : accounts[i] = a
                      THEN n + (CHOOSE i \in 1..m : accounts[i] = a) - 1
                      ELSE store.userIndex[a]],
                userList |-> list]
  BY <1>1 DEF BatchAddToBlocklist
<1>5. store'.userList = list
  BY <1>4
<1>6. /\ \A b \in Addresses : IsBlocklisted(store, b) <=> \E i \in 1..n : old[i] = b
      /\ \A i \in 1..n : store.userIndex[old[i]] = i - 1
  BY MembersAreListed DEF Good, Consistent
<1> HIDE DEF old, list, n, m
<1>7. /\ index = [a \in Addresses |->
                    IF \E i \in 1..m : accounts[i] = a
                      THEN n + (CHOOSE i \in 1..m : accounts[i] = a) - 1
                      ELSE store.userIndex[a]]
      /\ store' = [userIndex |-> index, userList |-> list]
  BY <1>4
<1> HIDE DEF index
<1>8. ASSUME NEW i \in 1..m PROVE index[accounts[i]] = n + i - 1
  <2>1. (CHOOSE j \in 1..m : accounts[j] = accounts[i]) = i
    BY <1>3
  <2>. QED
    BY <1>1, <1>7, <2>1
<1>9. ASSUME NEW i \in 1..n PROVE index[old[i]] = i - 1
  <2>1. \A j \in 1..m : accounts[j] # old[i]
    BY <1>1, <1>3, <1>6
  <2>. QED
    BY <1>1, <1>6, <1>7, <2>1
<1>10. index \in [Addresses -> Nat]
  <2>1. ASSUME NEW a \in Addresses, NEW i \in 1..m, accounts[i] = a
        PROVE  index[a] \in Nat
    BY <1>1, <1>8, <2>1
  <2>2. ASSUME NEW a \in Addresses, ~\E i \in 1..m : accounts[i] = a
        PROVE  index[a] \in Nat
    BY <1>1, <1>7, <2>2
  <2>3. index = [a \in Addresses |-> index[a]]
    BY <1>7
  <2>. QED
    BY <2>1, <2>2, <2>3
<1>11. ASSUME NEW i \in 1..(n + m) PROVE index[list[i]] = i - 1
  <2>1. CASE i \in 1..n
    BY <1>2, <1>9, <2>1
  <2>2. CASE i \notin 1..n
    <3>1. i - n \in 1..m /\ n + (i - n) = i
      BY <1>1, <2>2
    <3>2. list[i] = accounts[i - n]
      BY <1>2, <3>1
    <3>3. index[accounts[i - n]] = n + (i - n) - 1
      BY <1>8, <3>1
    <3>. QED
      BY <1>1, <3>1, <3>2, <3>3
  <2>. QED
    BY <2>1, <2>2
<1>12. Good(store')
  <2>1. store' \in Store
    BY <1>2, <1>7, <1>10 DEF Store
  <2>2. Consistent(store') <=> \A i \in 1..Len(list) : index[list[i]] = i - 1
    BY <1>7 DEF Consistent
  <2>. QED
    BY <1>2, <1>11, <2>1, <2>2 DEF Good
<1>13. \A b \in Addresses : IsBlocklisted(store', b)
                              <=> \E i \in 1..(n + m) : list[i] = b
  BY <1>2, <1>5, <1>12, MembersAreListed
<1>14. ASSUME NEW b \in Addresses
       PROVE  IsBlocklisted(store', b)
                <=> IsBlocklisted(store, b) \/ \E i \in 1..m : accounts[i] = b
  <2>1. ASSUME NEW i \in 1..(n + m), list[i] = b
        PROVE  IsBlocklisted(store, b) \/ \E j \in 1..m : accounts[j] = b
    <3>1. i \in 1..n \/ (i - n \in 1..m /\ n + (i - n) = i)
      BY <1>1
    <3>. QED
      BY <1>2, <1>6, <2>1, <3>1
  <2>2. ASSUME NEW i \in 1..n, old[i] = b PROVE IsBlocklisted(store', b)
    <3>1. i \in 1..(n + m) /\ list[i] = b
      BY <1>1, <1>2, <2>2
    <3>. QED
      BY <1>13, <3>1
  <2>3. ASSUME NEW i \in 1..m, accounts[i] = b PROVE IsBlocklisted(store', b)
    <3>1. n + i \in 1..(n + m) /\ list[n + i] = b
      BY <1>1, <1>2, <2>3
    <3>. QED
      BY <1>13, <3>1
  <2>. QED
    BY <1>6, <1>13, <2>1, <2>2, <2>3
<1> DEFINE S == {accounts[i] : i \in DOMAIN accounts}
<1>15. S \subseteq Addresses /\ \A b : b \in S <=> \E i \in 1..m : accounts[i] = b
  BY <1>1
<1> HIDE DEF S
<1>16. Members(store') = Members(store) \cup S /\ Members(store) \cap S = {}
  BY <1>3, <1>14, <1>15 DEF Members
<1>. QED
  BY <1>12, <1>16 DEF S

\* A step keeps the store good and is a step of the set.
LEMMA StepOfTheSet ==
    ASSUME Good(store), [BlocklistNext]_blocklistVars
    PROVE  Good(store)' /\ [Abstract!Next]_<<Members(store), emitted>>
<1>1. ASSUME NEW a \in Addresses, AddToBlocklist(a)
      PROVE  Good(store)' /\ Abstract!Next
  <2>1. Good(store') /\ Members(store') = Members(store) \cup {a}
    BY <1>1, PlacedIsGood DEF AddToBlocklist
  <2>2. Abstract!Add({a})
    BY <1>1, <2>1 DEF Abstract!Add, AddToBlocklist, Members, Added
  <2>. QED
    BY <2>1, <2>2 DEF Abstract!Next
<1>2. ASSUME NEW a \in Addresses, RemoveFromBlocklist(a)
      PROVE  Good(store)' /\ Abstract!Next
  <2>1. Good(store') /\ Members(store') = Members(store) \ {a}
    BY <1>2, RemovedIsGood DEF RemoveFromBlocklist
  <2>2. Abstract!Remove({a})
    BY <1>2, <2>1 DEF Abstract!Remove, RemoveFromBlocklist, Members, RemovedFrom
  <2>. QED
    BY <2>1, <2>2 DEF Abstract!Next
<1>3. ASSUME NEW accounts \in AddBatches, BatchAddToBlocklist(accounts)
      PROVE  Good(store)' /\ Abstract!Next
  <2> DEFINE S == {accounts[i] : i \in DOMAIN accounts}
  <2>1. accounts \in Seq(Addresses)
    BY AddBatchesAssumption
  <2>2. Good(store)' /\ Members(store)' = Members(store) \cup S /\ Members(store) \cap S = {}
    BY <1>3, <2>1, BatchAddIsGood
  <2>3. S \in SUBSET Addresses /\ emitted' = Added(S)
    BY <1>3, <2>1 DEF BatchAddToBlocklist
  <2> HIDE DEF S
  <2>4. Abstract!Add(S)
    BY <2>2, <2>3 DEF Abstract!Add, Added
  <2>. QED
    BY <2>2, <2>3, <2>4 DEF Abstract!Next
<1>4. ASSUME NEW a \in Addresses, NEW b \in Addresses, BatchRemoveFromBlocklist(a, b)
      PROVE  Good(store)' /\ Abstract!Next
  <2> DEFINE t == Removed(store, a)
  <2>1. /\ IsBlocklisted(store, a) /\ IsBlocklisted(t, b) /\ store' = Removed(t, b)
        /\ emitted' = RemovedFrom({a, b})
    BY <1>4 DEF BatchRemoveFromBlocklist
  <2>2. Good(t) /\ Members(t) = Members(store) \ {a}
    BY <2>1, RemovedIsGood
  <2> HIDE DEF t
  <2>3. Good(store') /\ Members(store') = Members(t) \ {b}
    BY <2>1, <2>2, RemovedIsGood
  <2>4. a \in Members(store) /\ b \in Members(t)
    BY <2>1 DEF Members
  <2>5. Abstract!Remove({a, b})
    BY <2>1, <2>2, <2>3, <2>4 DEF Abstract!Remove, RemovedFrom
  <2>. QED
    BY <2>3, <2>5 DEF Abstract!Next
<1>5. ASSUME UNCHANGED blocklistVars
      PROVE  Good(store)' /\ UNCHANGED <<Members(store), emitted>>
  BY <1>5 DEF Members, Good, blocklistVars
<1>. QED
  BY <1>1, <1>2, <1>3, <1>4, <1>5 DEF BlocklistNext

\* The list the contract is deployed with is empty.
LEMMA EmptyIsGood == BlocklistInit => Good(store) /\ Abstract!Init
BY DEF BlocklistInit, Good, Store, Consistent, Abstract!Init, Members, IsBlocklisted

\* Whatever the owner adds and removes, one by one or in batches, every address
\* of the list is found at the place the index keeps for it.
THEOREM ListAlwaysMatchesIndex == BlocklistSpec => []ListMatchesIndex
<1>1. Good(store) /\ [BlocklistNext]_blocklistVars => Good(store)'
  BY StepOfTheSet
<1>2. Good(store) => ListMatchesIndex
  BY DEF Good, ListMatchesIndex
<1>. QED
  BY EmptyIsGood, <1>1, <1>2, PTL DEF BlocklistSpec

\* The contract implements a set of addresses.
THEOREM BlocklistImplementsSet == BlocklistSpec => BlocklistIsSet
<1>1. Good(store) /\ [BlocklistNext]_blocklistVars => Good(store)' /\ [Abstract!Next]_<<Members(store), emitted>>
  BY StepOfTheSet
<1>. QED
  BY EmptyIsGood, <1>1, PTL DEF BlocklistSpec, BlocklistIsSet, Abstract!Spec
=============================================================================
