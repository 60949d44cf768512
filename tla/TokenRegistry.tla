--------------------------- MODULE TokenRegistry ----------------------------
(***************************************************************************)
(* x/tokenregistry: the tokens the chain knows, with their decimals        *)
(* and what may be done with them.  An entry whose unit is another one is  *)
(* an alias of it.  Messages take effect if the admin account sends them.  *)
(* Denominations that differ only in case are one, as for the keeper.      *)
(***************************************************************************)
EXTENDS Integers, Sequences, FiniteSetsExt

CONSTANTS
    Denoms,             \* denominations of the bank
    Senders,            \* who may send a message
    AdminAccount,       \* the admin, as the genesis file names it
    RegistryEntries,    \* entries a message may register
    RegistryLists,      \* whole registries a message may set
    NoUnit              \* the unit_denom of an entry that has none

Permissions == {"CLP", "IBCEXPORT", "IBCIMPORT"}

ASSUME RegistryAssumption ==
    /\ RegistryEntries \subseteq
           [denom : Denoms, unitDenom : Denoms \cup {NoUnit}, decimals : Nat,
            permissions : SUBSET Permissions]
    /\ RegistryLists \subseteq Seq(RegistryEntries)
    /\ AdminAccount \in Senders

VARIABLE registry       \* the list of entries

\* The places of a denomination in the list; SetRegistry may list one twice.
PlacesOf(denom) == {i \in DOMAIN registry : registry[i].denom = denom}

IsRegistered(denom) == PlacesOf(denom) # {}

\* The first entry is the one that counts.
GetEntry(denom) == registry[Min(PlacesOf(denom))]

CheckEntryPermissions(entry, required) == required \subseteq entry.permissions

IsAdminAccount(from) == from = AdminAccount

\* ValidateBasic: an entry without decimals is refused.
ValidRegister(entry) == entry.decimals > 0

ValidSetRegistry(entries) == \A i \in DOMAIN entries : ValidRegister(entries[i])

SetToken(entry) ==
    registry' = IF IsRegistered(entry.denom)
                  THEN [registry EXCEPT ![Min(PlacesOf(entry.denom))] = entry]
                  ELSE Append(registry, entry)

RemoveToken(denom) == registry' = SelectSeq(registry, LAMBDA e : e.denom # denom)

SetRegistry(entries) == registry' = entries

\* The upgrade of the module to version 2.
MigrateToVer2 ==
    SetRegistry([i \in DOMAIN registry |->
        IF /\ registry[i].decimals > 9
           /\ CheckEntryPermissions(registry[i], {"CLP", "IBCEXPORT"})
          THEN [registry[i] EXCEPT !.permissions = @ \cup {"IBCIMPORT"}]
          ELSE registry[i]])

\* The messages.
Register(from, entry) == ValidRegister(entry) /\ IsAdminAccount(from) /\ SetToken(entry)

Deregister(from, denom) == IsAdminAccount(from) /\ RemoveToken(denom)

SetRegistryMessage(from, entries) ==
    ValidSetRegistry(entries) /\ IsAdminAccount(from) /\ SetRegistry(entries)

RegistryNext ==
    \/ \E from \in Senders, entry \in RegistryEntries : Register(from, entry)
    \/ \E from \in Senders, denom \in Denoms : Deregister(from, denom)
    \/ \E from \in Senders, entries \in RegistryLists : SetRegistryMessage(from, entries)
    \/ MigrateToVer2
=============================================================================
