---------------------------- MODULE Dispensation ----------------------------
(***************************************************************************)
(* x/dispensation: a distributor pays the sum of a list of drops into the  *)
(* module account and names a runner; the runner's messages pay them out,  *)
(* a few at a time.  Recipients may have a claim on record until they are  *)
(* paid.  All records are kept under a key of status, name, type and       *)
(* recipient, distributions under one of name, type and runner, where the  *)
(* name is made of the block height and the distributor.                   *)
(***************************************************************************)
EXTENDS Integers, Sequences, FiniteSets, FiniteSetsExt

CONSTANTS
    Accounts,           \* addresses with a key
    BlockedAddrs,       \* module addresses, which may not receive coins
    DistributionTypes,  \* types in use: see TypesAssumption
    MaxRecordsPerBlock, \* records one message pays (10)
    InitialFunds,       \* what every account has at first
    OutputLists,        \* lists of drops distributors may send
    MaxBlocks,          \* bound on the block height
    MaxDistributions,   \* bound on distributions created
    MaxRestarts         \* bound on restarts from an exported genesis

\* The types that support claims, and all types.
ClaimTypes == {"liquidity_mining", "validator_subsidy"}
ValidTypes == ClaimTypes \cup {"airdrop"}

Recipients == Accounts \cup BlockedAddrs

ASSUME TypesAssumption == DistributionTypes \subseteq ValidTypes
ASSUME AddressesAssumption == Accounts \cap BlockedAddrs = {}
ASSUME DispensationBoundsAssumption ==
    /\ MaxRecordsPerBlock \in Nat \ {0}
    /\ InitialFunds \in Nat
    /\ MaxBlocks \in Nat \ {0}
    /\ MaxDistributions \in Nat
    /\ MaxRestarts \in Nat
ASSUME OutputsAssumption ==
    OutputLists \subseteq Seq([address : Recipients, coins : Nat])

VARIABLES
    height,             \* of the current block
    distributions,      \* set of name, type, runner
    pending,            \* pending records: key -> coins, runner
    completed,          \* completed records
    failed,             \* failed records
    claims,             \* user claims: set of user, type
    balances,           \* coins of every account
    module,             \* coins of the module account
    restarts,
    created,            \* number of distributions created
    deposited,          \* per account, coins paid in so far
    promised,           \* per recipient, coins of all drops so far
    refused             \* per recipient, coins of drops that failed

recordVars == <<distributions, pending, completed, failed>>
historyVars == <<created, deposited, promised, refused>>
vars == <<height, distributions, pending, completed, failed, claims, balances, module,
          restarts, created, deposited, promised, refused>>

Names == [height : 1..MaxBlocks, distributor : Accounts]
Keys == [name : Names, type : DistributionTypes, recipient : Recipients]

\* Sum of the coins of the records with the given keys.
CoinsOf(records, keys) == MapThenSumSet(LAMBDA k : records[k].coins, keys)

\* TotalOutput, and the part of it for one recipient.
DropsFor(outputs, r) ==
    MapThenSumSet(LAMBDA i : outputs[i].coins, {i \in DOMAIN outputs : outputs[i].address = r})
TotalOutput(outputs) == MapThenSumSet(LAMBDA i : outputs[i].coins, DOMAIN outputs)

RecordKey(name, type, recipient) == [name |-> name, type |-> type, recipient |-> recipient]

ExistsDistributionRecord(key) == key \in DOMAIN pending

Put(records, new) == [k \in DOMAIN records \cup DOMAIN new |->
                         IF k \in DOMAIN new THEN new[k] ELSE records[k]]

Distribution(name, type, runner) == [name |-> name, type |-> type, runner |-> runner]

ExistsDistribution(name, type, runner) == Distribution(name, type, runner) \in distributions

ExistsClaim(user, type) == [user |-> user, type |-> type] \in claims

-----------------------------------------------------------------------------
\* ValidateBasic: what is refused before the handlers.
ValidCreateDistribution(type, outputs) == type \in ValidTypes /\ outputs # <<>>

ValidCreateUserClaim(type) == type \in ClaimTypes

ValidRunDistribution(type) == type \in ValidTypes

\* A record without coins is not written, and fails the message: the first
\* drop to a recipient has coins, or adds to a pending record.
RecordsValidate(outputs, name, type) ==
    \A i \in DOMAIN outputs :
        \/ outputs[i].coins > 0
        \/ ExistsDistributionRecord(RecordKey(name, type, outputs[i].address))
        \/ \E j \in 1..(i - 1) : outputs[j].address = outputs[i].address

\* Defect: a pending record with the same key is replaced.
CreateDropsReplacing(outputs, name, type, runner) ==
    LET keys == {RecordKey(name, type, outputs[i].address) : i \in DOMAIN outputs}
    IN  /\ RecordsValidate(outputs, name, type)
        /\ pending' = Put(pending, [k \in keys |->
               [coins |-> DropsFor(outputs, k.recipient), runner |-> runner]])

\* One pending record per recipient; a pending record with the same key is
\* added to, and gets the new runner.
CreateDrops(outputs, name, type, runner) ==
    LET keys == {RecordKey(name, type, outputs[i].address) : i \in DOMAIN outputs}
    IN  /\ RecordsValidate(outputs, name, type)
        /\ pending' = Put(pending, [k \in keys |->
               [coins  |-> DropsFor(outputs, k.recipient)
                               + (IF ExistsDistributionRecord(k) THEN pending[k].coins ELSE 0),
                runner |-> runner]])

\* AccumulateDrops: fails, with the message, if the distributor lacks coins.
AccumulateDrops(distributor, amount) ==
    /\ balances[distributor] >= amount
    /\ balances' = [balances EXCEPT ![distributor] = @ - amount]
    /\ module' = module + amount

VerifyAndSetDistribution(name, type, runner) ==
    /\ ~ExistsDistribution(name, type, runner)
    /\ distributions' = distributions \cup {Distribution(name, type, runner)}

CreateDistribution(distributor, type, runner, outputs) ==
    LET name == [height |-> height, distributor |-> distributor]
    IN  /\ created < MaxDistributions
        /\ ValidCreateDistribution(type, outputs)
        /\ VerifyAndSetDistribution(name, type, runner)
        /\ AccumulateDrops(distributor, TotalOutput(outputs))
        /\ CreateDrops(outputs, name, type, runner)
        /\ created' = created + 1
        /\ deposited' = [deposited EXCEPT ![distributor] = @ + TotalOutput(outputs)]
        /\ promised' = [r \in Recipients |-> promised[r] + DropsFor(outputs, r)]
        /\ UNCHANGED <<height, completed, failed, claims, restarts, refused>>

CreateUserClaim(user, type) ==
    /\ ValidCreateUserClaim(type)
    /\ ~ExistsClaim(user, type)
    /\ claims' = claims \cup {[user |-> user, type |-> type]}
    /\ UNCHANGED <<height, recordVars, balances, module, restarts, historyVars>>

-----------------------------------------------------------------------------
Matching(name, type, runner) ==
    {k \in DOMAIN pending : k.name = name /\ k.type = type /\ pending[k].runner = runner}

\* Defect: the limit is reached one record early.
GetLimitedRecordsOneLess(name, type, runner) ==
    LET matching == Matching(name, type, runner)
    IN  {ks \in SUBSET matching :
            Cardinality(ks) = Min({MaxRecordsPerBlock - 1, Cardinality(matching)})}

\* GetLimitedRecordsForRunner: the first MaxRecordsPerBlock records that
\* match.  Which come first depends on the recipients' addresses, so the
\* result is the set of all possible choices.
GetLimitedRecordsForRunner(name, type, runner) ==
    LET matching == Matching(name, type, runner)
    IN  {ks \in SUBSET matching :
            Cardinality(ks) = Min({MaxRecordsPerBlock, Cardinality(matching)})}

\* Recipients are distinct in ks, since name and type are the same.
PaidTo(ks, a) == CoinsOf(pending, {k \in ks : k.recipient = a})

\* ChangeRecordStatus for all records of the message: a record of the same
\* key and status is replaced.
ChangeRecordStatus(paid, notPaid) ==
    /\ completed' = Put(completed, [k \in paid |-> pending[k]])
    /\ failed' = Put(failed, [k \in notPaid |-> pending[k]])
    /\ pending' = [k \in DOMAIN pending \ (paid \cup notPaid) |-> pending[k]]

\* Defect: any payment ends all claims of the recipient.
DeleteClaimsOfAnyType(paid) ==
    claims' = {c \in claims : \A k \in paid : k.recipient # c.user}

\* A paid record of a type that supports claims ends the recipient's claim.
DeleteClaims(paid) ==
    claims' = claims \ {[user |-> k.recipient, type |-> k.type] :
                            k \in {k \in paid : k.type \in ClaimTypes}}

\* RunDistribution: the transfer of a drop fails if the bank does not let the
\* recipient receive coins.  The module account always holds enough, see
\* EveryDropAccounted.
RunDistribution(name, type, runner) ==
    /\ ValidRunDistribution(type)
    /\ \E ks \in GetLimitedRecordsForRunner(name, type, runner) :
           LET paid    == {k \in ks : k.recipient \notin BlockedAddrs}
               notPaid == ks \ paid
           IN  /\ balances' = [a \in Accounts |-> balances[a] + PaidTo(paid, a)]
               /\ module' = module - CoinsOf(pending, paid)
               /\ ChangeRecordStatus(paid, notPaid)
               /\ DeleteClaims(paid)
               /\ refused' = [r \in Recipients |-> refused[r] + PaidTo(notPaid, r)]
    /\ UNCHANGED <<height, distributions, restarts, created, deposited, promised>>

-----------------------------------------------------------------------------
NextBlock ==
    /\ height < MaxBlocks
    /\ height' = height + 1
    /\ UNCHANGED <<recordVars, claims, balances, module, restarts, historyVars>>

\* GetRecords, the list of records an export has: each with its status.
GetRecords ==
    LET Listed(status, store) ==
            {[status |-> status, key |-> k, record |-> store[k]] : k \in DOMAIN store}
    IN  Listed("pending", pending) \cup Listed("completed", completed)
            \cup Listed("failed", failed)

\* SetDistributionRecord of a list, for one status.
StoreOf(records, status) ==
    LET ofStatus == {r \in records : r.status = status}
    IN  [k \in {r.key : r \in ofStatus} |-> (CHOOSE r \in ofStatus : r.key = k).record]

\* A new chain starts from what ExportGenesis lists, and may count its blocks
\* from the start.
RestartFromGenesis ==
    /\ restarts < MaxRestarts
    /\ restarts' = restarts + 1
    /\ height' = 1
    /\ LET records == GetRecords
       IN  /\ pending' = StoreOf(records, "pending")
           /\ completed' = StoreOf(records, "completed")
           /\ failed' = StoreOf(records, "failed")
    /\ UNCHANGED <<distributions, claims, balances, module, historyVars>>

Init ==
    /\ height = 1
    /\ distributions = {}
    /\ pending = [k \in {} |-> 0]
    /\ completed = [k \in {} |-> 0]
    /\ failed = [k \in {} |-> 0]
    /\ claims = {}
    /\ balances = [a \in Accounts |-> InitialFunds]
    /\ module = 0
    /\ restarts = 0
    /\ created = 0
    /\ deposited = [a \in Accounts |-> 0]
    /\ promised = [r \in Recipients |-> 0]
    /\ refused = [r \in Recipients |-> 0]

Next ==
    \/ \E distributor, runner \in Accounts, type \in DistributionTypes,
          outputs \in OutputLists :
              CreateDistribution(distributor, type, runner, outputs)
    \/ \E user \in Accounts, type \in DistributionTypes : CreateUserClaim(user, type)
    \/ \E name \in Names, type \in DistributionTypes, runner \in Accounts :
           RunDistribution(name, type, runner)
    \/ NextBlock
    \/ RestartFromGenesis

Spec == Init /\ [][Next]_vars

\* As long as drops are pending, some runner goes on sending messages.
RunningSpec ==
    /\ Spec
    /\ WF_vars(\E name \in Names, type \in DistributionTypes, runner \in Accounts :
                   RunDistribution(name, type, runner))

-----------------------------------------------------------------------------
(***************************************************************************)
(* Properties.                                                             *)
(***************************************************************************)
PendingFor(r) == CoinsOf(pending, {k \in DOMAIN pending : k.recipient = r})

\* Whatever distributions share a name, and in whatever order they are created
\* and run, every drop is paid once, refused once or still pending, and the
\* module account holds exactly the coins of the drops not paid.
EveryDropAccounted ==
    /\ \A a \in Accounts :
           balances[a] = InitialFunds - deposited[a] + promised[a] - PendingFor(a)
    /\ \A r \in BlockedAddrs : promised[r] = PendingFor(r) + refused[r]
    /\ module = MapThenSumSet(LAMBDA r : PendingFor(r) + refused[r], Recipients)

\* A claim ends only when a drop of its type is paid to the claimant.
ClaimEndsWithPayment ==
    [][\A c \in claims \ claims' :
           \E k \in DOMAIN pending \ DOMAIN pending' :
               /\ k.recipient = c.user
               /\ k.type = c.type
               /\ k \in DOMAIN completed'
               /\ balances'[c.user] >= balances[c.user] + pending[k].coins]_vars

\* Once no more distributions are created (their number is bounded here), all
\* pending drops are at last paid or refused, those merged into another
\* runner's record included, though a message settles only a few.
EveryDropSettled == (DOMAIN pending # {}) ~> (DOMAIN pending = {})
=============================================================================
