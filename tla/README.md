# Verification of the SmallBiznis control plane

TLA+ models of the services that keep points, vouchers, rules, tenants and
campaigns, the TLC
configurations that check them on small instances, and TLAPS proofs of what
matters most for every instance. Paths are relative to the repository's root.

## 1. The system

The repository holds one Go module with several gRPC services. Each runs in as
many replicas as are started, keeps its state in its own PostgreSQL tables
through GORM, and talks to the others by unary gRPC calls without retries.

| Component | State | Operations that change it | Module |
| --- | --- | --- | --- |
| ledger (`services/ledger`) | `ledger_entries` (a hash chain), `credit_pools`, `balances` | `AddEntry` (credit, debit), `ReverEntry` | `Ledger`, `PointsAccount` |
| loyalty (`services/loyalty`) | `point_transactions` | `AddPoint`, `Redemption`, `RunExpiryJob` | `Earning` |
| orchestrator (`services/orchestrator`) | none of its own | `ProcessEarning` calls rule, loyalty, voucher, ledger | `Earning` |
| voucher (`services/voucher`) | `voucher_pools`, `voucher_pool_items`, `voucher_issuances` | create a pool, import items, issue, redeem; a listing that panics | `Voucher` |
| rule (`services/rule`) | `rules`; in memory `rulesByTrigger`, `RuleCache`, two singleflight groups, the CEL environments | create, update, delete, `BatchEvaluate`, `EvaluateRule`, `StreamEvaluate` | `RuleCache` (caches), `RuleBook` (rows, listing, environments) |
| tenant, bootstrap, domain | `tenants`, `domains`, `api_keys`; tenant keys in Redis | `CreateTenant`, `Migrate`, `VerifyDomain` | `Provisioning` |
| campaign, transaction | `campaigns`, `transactions` | create, update, delete, clone, change of status | `Catalog` |
| sequence (`pkg/sequence`) | counters in Redis | `NextTenantCode`, `nextDailyCode` | `Environment` |
| apikey, license, inventory | tables, or nothing | none: no handlers | - |
| `pkg/task`, `pkg/message`, `pkg/workflow` | queues of Asynq, Kafka, Temporal | none: no service uses them | - |
| `pkg/repository`, `pkg/db/option` | none | filters, orderings, locks of the queries | inside the modules above |
| the rest of `pkg`, `cmd` | none that matters here | wiring, transport, observability | - |

How they interact: a point of sale sends an earning event to the orchestrator.
It asks the rule service which rules match (`BatchEvaluate`), and for each
action calls loyalty's `AddPoint` or voucher's `IssueVoucher`. Loyalty calls the
ledger's `AddEntry`, then reads the balance, then inserts its own transaction
row. `Redemption` reads the balance first and then debits. No transaction spans
two services, nothing compensates, and no call is retried by the code - only by
the client that sends the event again with the same reference.

What is hard here, and what correct means:

- **ledger**: handlers of all replicas run in READ COMMITTED transactions whose
  every SELECT is a `FOR UPDATE`. Correct: nobody spends points twice or more
  than there are, balance rows and pools are two views of one number, the oldest
  points go first, the entries form one hash chain, a client that sends a call again
  does not book it again, the row locks cannot deadlock and no call waits for ever.
- **voucher**: no transaction and no lock at all; several errors are ignored; a
  unique index refuses nearly every issuance. Correct: the stock counters agree with
  the items and issuances, a voucher stays with the user it was given to.
- **orchestrator and loyalty**: a saga without compensation over calls that may
  be refused, fail, succeed with their reply lost, or go on after their caller is gone.
  Correct: what is recorded was booked, once; what was booked is recorded or reported
  as failed; an event that is sent again is not credited again.
- **rule**: three levels of storage filled by two kinds of flights, one group
  of which all tenants share. Correct: nobody's event is evaluated with another
  tenant's rules or with half a set; a lone request finds the rules there are; deleted rules
  disappear.
- **rule, again**: pages cut by a cursor from a table that changes; one cache of
  CEL environments for events of every tenant, filled without a lock. Correct:
  a listing misses and repeats nothing; a cached environment answers like a
  fresh one, as far as its key tells them apart; what a match rewards is what the
  rule shows.
- **tenant, bootstrap, domain**: checks made before the transaction that relies
  on them, Redis written inside a transaction, a lock that ends with its
  statement. Correct: tenants come whole, with codes and slugs of their own;
  Redis and the table agree; no domain is verified without its record.
- **campaign, transaction, sequence**: daily counters that expire, an ignored
  error, whole rows written back from an old read. Correct: codes are unique;
  updates change what they name; what was deleted stays deleted.

## 2. The modules

`X.tla` is a component, `MCX.tla` its instances for TLC, `XProofs.tla` its
theorems. PROJECT.json maps each definition to its source lines.

### Ledger

One member of one tenant: the queries read and lock no other member's rows, so
members do not interact (but see the empty reference below, which is checked
tenant-wide and here within the member). `Request` is a handler of some replica. Each
statement of `processAddEntry` and `processRevertCredit` that may wait is an
action: `GetLastEntry`, `FindOriginal`, `FindPools`, `FindBalance` issue a
SELECT ... FOR UPDATE, `Lock` grants one row of it. As in Postgres the rows are
those of the statement's snapshot, a row waited for is re-read, and a row
inserted meanwhile is not seen. `Write` makes the checks and takes the insert's
time; `CommitCredit`, `CommitDebit`, `CommitRevert` publish all writes and release
the locks. The writes of a transaction touch only rows it has locked or inserts,
so merging them at the commit hides nothing another transaction could see.
`Abort` is a dying replica. `Refuse` and `Receive` hold the look-up by reference,
which the code makes outside the transaction and whose error it drops
(`service.go:90`): when the look-up fails, a used reference goes on, and the history
variable `unchecked` remembers it. A revert looks nothing up, and its entry carries the
original's `TransactionID` as its reference (`service.go:457`), the same each time it
is reverted; `TransactionID` is a constant, and a client may use one of them as its own
reference.

Abstractions: `created_at` and the snowflake id are one number, given in the
order of the inserts; a hash stands for the entry it covers together with the
`CreatedAt` it was made with; `int64` overflow is not modelled (amounts are small).
GORM's habits are modelled where they decide something: a zero field is dropped
from a filter (an empty reference matches any entry) and from `Updates` with a
struct (a balance of 0 is not written).

`PointsAccount` is the abstract ledger: a number that credits raise and debits
lower. `Ledger` implements it with `points <- Total(remaining)` (`AccountSpec`).
`Earning` is built on it.

### Voucher

One campaign. Each SQL statement is an action, because each commits by itself. `Fail`
is a checked statement that fails or a handler that dies; the ignored error of `SaveItem`
is an alternative inside it (that of the last update, `TakeStock`, leaves what `Fail`
leaves). `SaveItem` writes back the whole row read earlier. A code stands for its hash,
encryption and mask.

`CreateIssuances` has the unique index `ux_tenant_idempotent`. It is declared on
`IdempotencyKey` alone (`model.go:98`), which no call sets, so `voucher_issuances` admits
one row with the empty key, of any tenant and campaign. `keyUsed` says that this row
exists: only the first issuance, inserted by itself, goes in, and `IssueElsewhere` is
another campaign's that comes first. Refused, `IssueVoucher` answers an error and
`RedeemVoucher`, which ignores the insert's error, that the voucher is redeemed; in both
the items stay as they were saved.

`contested` and `killed` are history variables. An item is contested when two handlers
had read it before either wrote it back: only then, says `OwnerKept`, can a voucher pass
from one user to another. `killed` says that a handler died with the panic of another:
`ListMyVouchers` changes no row, but it dereferences the redemption time of an issued
voucher, which has none, and the panic ends whichever handlers run in the process.

### Earning

One member. `Handler` is a request together with the chain of calls made for
it. `Receive` takes an earning event, with the actions of its matching rules, or
a redemption. `RewardPoint`, `Notify`, `RewardVoucher`, `EndOfRewards` are
`ProcessEarning`'s loop; `CheckBalance`, `LookUp`, `Book`, `Reply`, `ReadBalance`,
`Record` are `AddPoint` and `Redemption`; `LogBalance` and `Answer` end the request.

What fails: `CallFails` is a call that fails before it does anything or whose reply is
lost; `LookUpFails` is the ledger's look-up by reference, whose error it ignores, so that
a used reference goes on; `Record` may lose the reply to its COMMIT; `Die` is a
replica that dies with the request. A chain outlives its caller: after `Die`
the services further down go on and answer nobody (`gone`, until `Vanish`), and `Orphan`
is a call that fails for its caller alone while what it called goes on, as
a handler of its own. So an orphaned `AddEntry` may commit after the client has sent
its event again.

The ledger's `GetBalance` dereferences a missing balance row. Its SELECT
(`CheckBalance`, `LogBalance`) and the dereference (`Panic`, from "nil") are two steps,
and an `AddEntry` may commit between them; the panic takes any of the calls in
the ledger service with it, since any of them may run in that process. Voucher rewards
call a nil client, because `cmd/orchestrator/main.go` provides none, and end the
orchestrator's process. `overlap` and `doubtful` are history variables: that two requests
were at work at the same time, and the references that two of them had or whose look-up
failed.

`RunExpiryJob` and `GetExpiringPoints` query a column `point_transactions` does
not have and change nothing; they are left out.

### RuleCache

One replica, one trigger, any tenants. `versions[t]` is the history of the
active rules of a tenant, so "whole" can be said of a set that was compiled from
an older version. `refresh[t]` is the singleflight of `refreshRuleSet` and `load`
the one of `BatchEvaluate`, which all tenants share. A flight reads the table
(`RefreshList`, `LoadList`), stores what compiled (`RefreshStore`, `LoadStore`), and
the refresh caches what the map then holds (`RefreshSet`). `RefreshFail`,
`LoadFail` are failing queries - also a first caller that goes away, whose
context the query uses; `Expire` is the TTL, `Restart` an empty memory. A rule
either names attributes, and compiles only in an environment that declares
them, or it does not. That the end of a flight wakes all who wait for it (`Wake`,
`EndLoad`) is what `golang.org/x/sync/singleflight` does: it is modelled as external and
nothing is claimed of it. Left out: environments of equal names and different types
(RuleBook has them); rules that never compile; an entry that expires between a
refresh and the read that follows it; `softVersionCheck`, the subscriber and
`bumpVersionAndBroadcast`, which act on values that nothing in the repository writes.

### RuleBook

One replica and one tenant. Edits (`CreateRule`, `UpdateRule`, `DeleteRule`, and
`ImportRule` for rows as the generator in `testdata` writes them) run between
the calls of clients that page through `ListRules` and the steps of evaluations:
`Fetch` (GetByID), `LoadEnv` and `BuildEnv` (GetOrBuildEnv's look-up and its
store, which nothing locks), `ExecuteRule`, `Answer`. An action is a type and
the set of payloads the client sent with it; what JSON does to it decides three
things and is modelled by them (a rule's actions are a set, nothing depends on their
order): nil entries vanish, the type is written as a
number (`SetActions`) and read as a name (`ActionsRead`), an answer shows the payload of
the action's own type (`ProtoActionsFromModel`). A value is its kind: an event
maps attributes to kinds (`StructToMap`, `buildContext`), an environment maps them to
CEL types, an expression needs one attribute of one type or none at all. An environment is
cached under the sorted names joined with commas (`celengine.go:26`), not under the
names: `Join` is that conversion, a constant of which is only assumed that it tells apart
sets of names without commas (`Plain`). In the instance `{amount, currency}` and
`{"amount,currency"}` join alike.
Row ids are the edits' numbers, so they grow with time as snowflake ids do.

### Environment, Provisioning, Catalog

`Environment` is what the control plane's services share: the Redis counters
(`Increment`, `SetExpiry`, `Drop`), the clock, with the last two seconds of a day as an
instant of their own, and the bounds. Both other modules extend it. A daily counter is to
expire at 23:59:59, but go-redis cuts the duration to whole seconds (`generator.go:79`), so
it may go up to a second earlier, and how long EXPIRE takes makes it later:
`Drop` may happen at any time from a day's last two seconds on.

`Provisioning`: a `Provisioner` is a call of `CreateTenant` or `VerifyDomain`, or
the start of a replica, which runs `Migrate`. `Look` is the check outside the
transaction, `DrawCode` the counter, `InsertTenant`, `InsertDomain`, `InsertKey` the
transaction's statements, whose effect others see at `Commit`; `CacheTenant`
is the Redis pipeline in the middle of it, which `CacheFails` may leave half done.
`CommitUnheard` is a commit whose reply is lost. `FindDomain`, `LookUpRecord`,
`PanicOnCode`, `MarkVerified` are `VerifyDomain`, whose FOR UPDATE holds nothing.
`AddCustomDomain` and `PublishRecord` are external: nothing in the repository creates such a
domain or its DNS record. `GetTenant` and `ListDomains` are operators, with gorm's
habit of dropping an empty id from the filter.

`Catalog`: handlers of `services/campaign` and `services/transaction` for one
tenant. `Draw` and `Expire` are INCR and EXPIRE, between which the day may end,
`DropCounter` the end of a key; `ReadCampaign` and `WriteCampaign` are the two statements of `UpdateCampaign`, and
`WriteCampaign` has what `Updates` with a struct leaves out. `intended` is a
history variable: the campaigns as they would be had each call been one step.
A campaign's status, start and reward stand for the fields a client may name.
Random characters at the end of a code are left out; a duplicate is therefore
something `InsertTransaction` may or may not be refused for.

## 3. What the runs check

| Run | Instance | Properties and what they show |
| --- | --- | --- |
| LedgerSpend | 3 handlers, 4 inserts, credits of 1 and 2, debits of 2 and -1, crashes | `TypeOK`; `LockOrder`: rows are asked for in one order, so no cycle of waits can form; `BalancesNeverOverdrawn`; `BooksAgree`: two first credits that race make two balance rows and still the totals agree |
| LedgerRevert | 2 handlers, 4 inserts, a debit of -1, reverts of the first two entries, fair | `PoolsNeverOverdrawn`, `EntriesExplainPools`, `AccountSpec` (refinement), `EveryCallEnds` (liveness) |
| LedgerRetry | 1 handler, 5 inserts, references used again, empty ones, one equal to a transaction id, reverts, failing look-ups, crashes | `ReferenceOnce` but for reverts and failed look-ups, `OneBalanceRow`, `ChainLinear`, `OldestPointsFirst`: true when calls follow each other |
| LedgerDuplicate (violation) | 2 handlers, one reference | `ReferenceOnce` fails: the look-up is outside the transaction |
| LedgerVerify (violation) | 1 handler | `ChainVerifies` fails at the first entry |
| VoucherStock | 2 handlers, 7 kinds of calls of which 4 are made, 1 fault, 3 codes, 2 users, another campaign | `TypeOK`; `StockBacked` under every interleaving, fault and panic; `StockBalances` without faults, of the issuances the index let in; `OwnerKept` and `IssuanceTellsOwner` but for items two calls had in their hands at once |
| EarningFaults | 2 handlers, 3 requests of 8 kinds, 1 fault | `TypeOK`; `TransactionsBooked` and `EverythingRecorded` whatever fails, panics or is orphaned; `CreditedOnce` but for doubtful references; `BalanceAfterTrue`: the balance its credit left, or a later one when requests overlap, 0 where it could not be read |
| RuleCache | 2 tenants, 2 requests, 2 edits, 1 expiry, 1 fault | `TenantIsolation`, `WholeSets`; `OwnRulesFound` and `RefreshTakesEffect` (a refresh that finds something caches what its hash is of) for requests that do not overlap |
| RuleBook | 1 lister with pages of one, 2 evaluators, 4 requests, names that join alike | `ListedOnce` while rules are created, updated and deleted; `EnvironmentsAgree` whoever filled the cache; `RewardsAsShown` |
| RuleCreate (violation) | the same, small | `RulesReadable` fails: a rule created with an action cannot be read back |
| Provisioning | 2 callers, 3 calls, 2 faults | `TenantWhole`, `TenantCodesDistinct` under races, faults and panics; `RedisAgrees`; `VerifiedByRecord`; `TenantsDistinct` for calls that do not overlap |
| Catalog | 2 handlers, 3 calls, 2 faults, 2 days | `CodesUnique` but from a day's last two seconds on or without Redis; `UpdatesKeepOthers` for calls that do not overlap; `DeletedStaysDeleted` always |

Every property of a passing run has a mutant in PROJECT.json: a plausible bug in
a definition that models code (comment "Mutation:") under which TLC finds the
property violated.

Why the bounds are enough. Three handlers are the fewest with one that waits
while two others change what it waits for; four inserts allow two racing first
credits and then two debits over their pools; five calls of one handler
allow a credit, its retry, and debits over two pools. In Voucher four calls are
create, issue, and two that collide; in Earning three requests are an event, its
retry and a redemption; in RuleCache two tenants and two requests are enough for
one to join the other's load, and two edits for a rule that comes and goes.
In RuleBook pages of one rule put an edit between any two rules, and four requests are
edits and evaluations in any mixture: two rules, a change and a page between, or two
evaluations of two rules; in Provisioning the third call meets what two that raced or
failed have left, and the second fault hits the one that comes after; in Catalog
three calls are two rows and what is done to one, or a row, an update of it and a
deletion in between, and two days a counter that ends and one that begins.
Larger instances only repeat these steps, and the proofs cover
them for the properties that are proved.

TLC's search for deadlocks is on in every run: `Rest` is a stuttering step allowed only
when all calls the bound admits have been answered. For the row locks of the ledger it
proves nothing, because a waiting replica may always die (`Abort`); that handlers do not
wait for each other in a circle is what `LockOrder` and the theorem `LocksNeverDeadlock`
show, and that each call ends is `EveryCallEnds`, whose fairness does not ask for `Abort`.
Elsewhere only RuleCache's requests wait, for flights, where a leftover waiter would be
reported once the bounded faults are used up; no other handler at work is without a step.

Fairness. Only `EveryCallEnds` needs it (`FairSpec`): weak fairness of each
handler's next statement, as handlers are goroutines the Go scheduler runs, and
strong fairness of `Lock`, as Postgres grants a row lock to its waiters in the
order they came. Nothing is assumed of arrivals and crashes.

## 4. What is proved

TLAPS proves these for every value of the constants - any number of handlers,
calls, tenants, any bound - from the named assumptions in the modules. They type
the constants; beyond that `ProvisioningAssumption` keeps the kinds of host names
apart, `VoucherAssumption` has requests name a user because the code refuses those
that do not, `TransactionAssumption` says that a transaction has no field called
metadata beside its metadata, `JoinAssumption` that joining tells sets of names without
commas apart, and `DraftAssumption` what a rule is made of. Every
invariant and every action property of a passing run is a theorem, and so is the
refinement `AccountSpec`.

- **LedgerProofs**: `LedgerInv` is inductive, and from it `TypeOK`,
  `PoolsNeverOverdrawn`, `BalancesNeverOverdrawn`, `ReadsStayCurrent`, `LockOrder`.
  That no pool is overdrawn does not follow from the previous state alone: one has to
  know that the amounts allocated were read under locks still held
  (`ReadsStayCurrent`), that each row has one holder, that what is seen is
  locked (`LocksOK`), that new rows do not collide with old ones (`BornOK`, `RowsOK`)
  and which checks the transaction has passed (`CallOK`). `LocksNeverDeadlock` draws
  the conclusion from `LockOrder`: of the rows that a set of waiting handlers ask
  for next, whoever asks for the last one waits for a row whose holder asks for a
  later one still; so no set of handlers waits for itself, and while one waits
  another can go on or lock its next row (`NobodyStuck`).
- **LedgerBooksProofs**: `BooksInv` is inductive, and from it `EntriesExplainPools`,
  `BooksAgree` and `LedgerIsAccount`, the refinement of `PointsAccount`: each commit is a
  credit or a debit of the account, every other step leaves its points alone. `Total`, `Booked`
  and `Available` are sums by a recursive function, and induction over data is out of
  reach; instead each sum is shown to be a difference of two cardinalities, of a token
  for each unit of the positive and of the negative terms (`SumIsNet`), so that adding
  or changing a term is a fact about finite sets. `SessionOK` says what a transaction
  holds when it writes: no pool it still waits for, at most one locked balance row, and for a
  debit that balance row and, at the commit, pools whose balances as read cover its amount. So
  the allocation adds up to the amount (`AllocationTotal`), and what leaves the pools leaves the
  balance row. `AloneInv` is inductive when there is one
  handler (`OneHandler`, the instance of LedgerRetry: a client that waits for each answer), and
  from it `ReferenceOnce`, `OneBalanceRow`, `ChainLinear` and
  `OldestPointsFirst`: what the handler looked up is what the tables still hold. Failed
  look-ups and reverts are among its steps, and are the two exceptions of `ReferenceOnce`.
- **EarningProofs**: `EarningInv` is inductive, and from it `TypeOK`,
  `TransactionsBooked` and `GrantsRecorded`. The strengthening says where each step
  leaves a request (`ControlOK`), that between booking and recording the entry
  is the request's own and on no row yet (`BookedOK`), and that what was granted so
  far is on record (`GrantedOK`). `RecordedInv` says that as long as no request has lost
  its caller every entry is recorded, or its own request is about to, or a client is or
  will be told of a failure under its reference (`InHand`), and that whatever is still at
  work for nobody was reported as failed (`OrphansTold`); the requests that have a caller
  and the answers are no more than were served, so when all are answered nobody is
  left: `EverythingRecorded`. `CreditInv` follows a reference from the look-up that found
  it free to its booking (`StillFree`): it stays free unless another request had it,
  which `doubtful` remembers (`SharedOK`): `CreditedOnce`. `SerialInv` has
  the account's points as the running sum of its entries, and what a request knows of
  that sum after its own entry: `BalanceAfterTrue`. That the running sums exist is
  shown by the least entry that would have none (`Least`).
- **RuleCacheProofs**: `RuleCacheInv` is inductive, and from it `TenantIsolation`
  and `WholeSets`. What is stored, cached or being read is a
  version of its own tenant's rules (`RulesOK`, `LoadOK`), and requests hold no rules
  before they answer (`ResultsOK`). Isolation is a consequence of wholeness, not
  shown step by step (`CoreIsolates`). `FreshInv` follows a request that has the replica to
  itself (`AloneOK`) from the version it found when it came (`SinceOK`) to the rules it is
  answered with (`FindsOK`), and a refresh to what it stores (`EffectOK`): `OwnRulesFound`,
  `RefreshTakesEffect`.
- **RuleBookProofs**: `RuleBookInv` is inductive, and from it `ListedOnce`,
  `EnvironmentsAgree` and `RewardsAsShown`; with the kinds of values, `TypeOK`. The query's
  order is total, so each set of rules has one listing: rules are ranked by how many
  come before them, which is a bijection (`RankGrows`, `Sorted`). A page is the start of it, and
  of the rules nobody touched a client was given the active ones that are not behind
  its cursor (`ListingOK`); a page moves the cursor over what it gives. The names an
  environment declares join to the key it is cached under, those of a call's environment to
  the key of its event, and an answer is the result in the call's environment
  (`CallOK`); so the names are the same when no comma is among them (`JoinAssumption`).
- **VoucherProofs**: three invariants. `Core` is `TypeOK` with what each handler has in its
  hands at its next statement (`ControlOK`). `OwnerInv` follows the items a handler has read
  and not written back: unless another handler has one too, it is as it was read, and what was
  written of it stays: `OwnerKept`, `IssuanceTellsOwner`. `StockInv` explains
  the counters under every interleaving, fault and panic: there is a map from items and one
  from issuances to the handler that still has to count them (`owner`, `taker`), or to no one
  when they were counted or their handler failed, and the counters are what remains
  (`CounterOK`). From it `StockBacked`, and `StockBalances` because without a fault the maps are
  empty once nobody is at work.
- **ProvisioningProofs**: `ProvisioningInv` is inductive, and from it follow all six
  properties of Provisioning. `TenantWhole` alone says nothing of a transaction under way;
  the strengthening says what a call has inserted when it is at each statement
  (`MakersOK`), that ids and codes belong to one call or one tenant (`OwnersOK`),
  so that what a call writes to Redis overwrites nothing of another (`CachedOK`,
  `SetsApart`), that a call that met no other still sees what it looked up
  (`AloneOK`), and that the row `VerifyDomain` judged is the one it updates although
  nothing locks it (`HostsOK`, `VerifiersOK`).
- **CatalogProofs**: `CatalogInv` is inductive, and from it follow all four
  properties of Catalog. `CodesUnique` needs to know that a number in use is one the
  counter has reached, or its day is at its end (`CountersOK`: no expiry is
  set to an earlier day), that a code drawn and not used yet is nobody else's (`DrawnOK`),
  and which rows without a code cost which fault (`FaultsOK`). `UpdatesKeepOthers` needs
  that a call that met no other still holds the row as it is (`AloneOK`), and that what
  `Updates` writes is what was meant (`NamedIsMeant`).

Only model-checked: `EveryCallEnds`, because liveness under fairness is out of the
prover's reach (`NobodyStuck` is the safe part of it), and the three properties
that TLC shows violated. Proved and in no run: `ReadsStayCurrent`, `NobodyStuck`, `GrantsRecorded`,
RuleBook's `TypeOK`, and the strengthened invariants.

## 5. Findings

With a run that shows them (PROJECT.json, "findings"):

1. Two concurrent `AddEntry` calls book one reference twice (LedgerDuplicate).
2. `VerifyChain` rejects every ledger `AddEntry` writes (LedgerVerify).
3. A rule created with an action can never be read back (RuleCreate).

Met while modelling, as the models have them, without a run of their own:

- A voucher issued to one user can be redeemed by another when both calls read it
  before either writes it back (`voucher/service.go:387`, against the check at :380; hence
  `contested`).
- `voucher_issuances` admits one row without an idempotency key, and nothing sets one:
  the unique index is on the key alone (`voucher/model.go:98`), where the comment at :104
  says it is unique per tenant. Every later `IssueVoucher`, and one of two vouchers or more,
  takes the items and then answers an error; every later `RedeemVoucher` answers that it
  has redeemed and records nothing.
- `AddEntry` ignores the error of its look-up by reference (`ledger/service.go:90`): while the
  look-up fails, a call that is sent again is booked again.
- `ProcessEarning` answers SUCCESS although a reward was refused: the second
  `REWARD_POINT` of an event reuses its reference (`orchestrator/service.go:222`,
  against `cmd/orchestrator/high-level-flow.mmd:29`).
- A trigger's last rule, once cached, goes on being evaluated after it is deleted:
  the refresh compiles nothing, stores nothing and caches what it finds
  (`rule/service.go:685`); hence the premise of `RefreshTakesEffect`.
- Two first credits create two balance rows; later calls use the lower id. The
  totals still agree (`BooksAgree`).
- A balance update to 0 is skipped (`SetBalance`), which matters after a revert.
- `ReverEntry` copies the original's type and amount, lowers the balance whatever
  the type, leaves the pools alone, and may be repeated: each time it books the original's
  transaction id as reference again (`ledger/service.go:457`).
- `VerifyChain` reads without ORDER BY; `AddEntry`'s reply is read back by
  reference without the tenant.
- An empty reference matches any entry, so `AddEntry` refuses it once there is one.
- Voucher: the error of saving an item is ignored; the same codes can be imported
  twice; `ListMyVouchers` dereferences a nil `RedeemedAt`.
- `BalanceAfter` is read by another call than the credit it describes, so it may be
  a later balance, or 0 when that call fails.
- `GetBalance` of a member without a balance row panics and ends the ledger's process with
  whatever it is at work on; an entry that committed there meanwhile is reported as failed and
  never recorded by loyalty (`EverythingRecorded` allows for it).
- Rule: a tenant's request may join another tenant's load and then find none of
  its own rules, which it answers as success with no results (hence the
  premise of `OwnRulesFound`).
- Rule: environments are cached by attribute names joined with commas, so that an attribute
  called "amount,currency" shares the environment of the two (the other exception in
  `EnvironmentsAgree`).
- Rule: environments are cached by attribute names only, so an event whose values
  have other types than the first one's is evaluated in the wrong environment
  (the exception in `EnvironmentsAgree`); `UpdateRule` accepts the empty expression
  `CreateRule` refuses; points of an action without a type are shown and never
  rewarded; `evaluateRulesBatch` without ids answers nothing and stores under a bare
  trigger.
- Tenant: the API key's secret is returned to nobody, only its hash is kept; `Migrate`
  looks for a default tenant, not for its slug, and `fx.go` ignores its error; the
  default tenant is never cached; with an empty id `GetTenant` and `ListDomains` match
  any row, and `CreateTenant` with an empty slug is refused as soon as there is a
  tenant; the PLATFORM keys of `cmd/controlplane/config.yaml` do not match the
  config struct, so that `Migrate` and `CreateTenant` refuse.
- Campaign: `GetActiveCampaigns` leaves out active campaigns without a start, which
  `IsActive` counts; `UpdateCampaign` answers with an empty rule id that it does not
  write; a campaign whose reward type is updated without its value shows no
  reward; `CloneCampaign` keeps the code and the rule.
- Transaction: `GetTransaction` and `UpdateTransactionStatus` parse a code "TXN-..." to the
  id 0, so they find nothing and every transaction stays PENDING; the counter's key names
  the tenant "T002" for all tenants.
- Sequence: a daily counter may go from two seconds before the end of its UTC day on, so
  that its numbers begin again; a code drawn in the last second always has number 1.
- `redis.New` retries only after a success.

## 6. Plan

Done in this order: Ledger with `PointsAccount`, Voucher, Earning, RuleCache, their
runs and proofs; then Environment, Provisioning and Catalog with their proofs, RuleBook; then
the proofs of Ledger's books, of Voucher, of RuleBook and of what Earning and RuleCache promise
to a request that runs alone. Next:

1. **Proofs**: that the ledger as Earning sees it (`Book`) is the one Ledger implements;
   what of RuleCache's sharing of loads between tenants is harmless.
2. **Event evaluation**: Earning's rewards taken from RuleCache's result.

### Not modelled

- `RunExpiryJob` and `GetExpiringPoints` (loyalty): their queries name the column
  `member_id`, which `point_transactions` does not have, and fail before they change anything.
- `bumpVersionAndBroadcast` has no caller, so its subscriber and `softVersionCheck`
  never see a value.
- Reads that answer a row as it is: `GetEntry` and, within Ledger, `GetBalance` (Earning has
  its look and its panic), `GetDomain`,
  `ListTenants`, `ListTransactions`, `ListVoucherPools`.
- Inventory, apikey and license (no handlers); `pkg/task`, `pkg/message`, `pkg/workflow`,
  `pkg/minio`, `pkg/ffmpeg` (no service uses them).
- Configuration, connection set-up, transport, logging, tracing, health checks,
  generated code: no state the properties concern.
- Snowflake ids are assumed unique although every process uses node 1; a collision would
  be an insert that fails on its primary key.
