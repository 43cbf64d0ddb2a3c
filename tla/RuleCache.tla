----------------------------- MODULE RuleCache -----------------------------
(***************************************************************************)
(* The rule service (services/rule) and the three places one replica keeps *)
(* the rules of a trigger: the table, the package variable rulesByTrigger, *)
(* and the RuleCache with its singleflight group.  A Request is a          *)
(* BatchEvaluate in that replica.                                          *)
(*                                                                         *)
(* The caches are keyed by tenant and trigger, the second singleflight     *)
(* group by trigger only; one trigger stands for all.  Rules the trigger   *)
(* does not select - inactive, of another trigger - are not in the table   *)
(* modelled here, nor is one that compiles in no environment.              *)
(*                                                                         *)
(* StreamEvaluate stores what it compiles under the bare trigger, a key    *)
(* nothing reads.  Nothing in the code publishes an invalidation or writes *)
(* the versions and hashes in Redis (bumpVersionAndBroadcast has no        *)
(* caller), so the subscriber and softVersionCheck never have any effect.  *)
(***************************************************************************)
EXTENDS Integers, Sequences, SequencesExt

CONSTANTS
    Tenant,
    Request,       \* the BatchEvaluate calls that may run at the same time
    MaxEdits,      \* bound: how often rules are created, updated or deleted
    MaxRequests,   \* bound: how many calls arrive
    MaxExpiries,   \* bound: how often a cached set outlives its TTL
    MaxFaults      \* bound: how many queries fail or replicas restart

ASSUME RuleCacheAssumption ==
    /\ Tenant # {}
    /\ MaxEdits \in Nat /\ MaxRequests \in Nat
    /\ MaxExpiries \in Nat /\ MaxFaults \in Nat

\* One revision of a rule.  It names attributes of the event, or it is a
\* constant expression.
Rule == [tenant : Tenant, rev : 1..MaxEdits, names : BOOLEAN]

\* An event, with the attributes the rules name or without.
Event == [tenant : Tenant, has : BOOLEAN]

VARIABLES
    versions,   \* the active rules of each tenant: all the table has held
    compiled,   \* rulesByTrigger; {} where there is nothing
    cache,      \* RuleCache.items; asOf is the version its Hash was made of
    refresh,    \* the singleflight of refreshRuleSet, by tenant
    load,       \* the singleflight of BatchEvaluate itself
    pc,         \* the next step of each request
    event,      \* the event it evaluates
    since,      \* history: the version of the table when it arrived
    result,     \* the rules it evaluates
    edits, requests, expiries, faults,
    overlap     \* history: two requests were at work at the same time

memory == <<compiled, cache, refresh, load>>
local == <<pc, event, since, result>>
bounds == <<edits, requests, expiries, faults, overlap>>
vars == <<versions, memory, local, bounds>>

PC == {"idle", "second", "wait1", "wait2", "fresh1", "fresh2",
       "load", "answer"}

NoEvent == CHOOSE e \in Event : TRUE
NoEntry == [rules |-> {}, asOf |-> 0, expired |-> FALSE]
NoRefresh == [step |-> "none", read |-> 0]
NoLoad == [step |-> "none", event |-> NoEvent, read |-> 0]

Table(t) == Last(versions[t])

Init ==
    /\ versions = [t \in Tenant |-> <<{}>>]
    /\ compiled = [t \in Tenant |-> {}]
    /\ cache = [t \in Tenant |-> NoEntry]
    /\ refresh = [t \in Tenant |-> NoRefresh]
    /\ load = NoLoad
    /\ pc = [r \in Request |-> "idle"]
    /\ event = [r \in Request |-> NoEvent]
    /\ since = [r \in Request |-> 1]
    /\ result = [r \in Request |-> {}]
    /\ edits = 0 /\ requests = 0 /\ expiries = 0 /\ faults = 0
    /\ overlap = FALSE

----------------------------------------------------------------------------
\* The table is edited; no cache hears of it.
Edit(t, S) ==
    /\ edits < MaxEdits /\ edits' = edits + 1
    /\ versions' = [versions EXCEPT ![t] = Append(@, S)]
    /\ UNCHANGED <<memory, local, requests, expiries, faults, overlap>>

NewRule(t, names) == [tenant |-> t, rev |-> edits + 1, names |-> names]

CreateRule(t) == \E n \in BOOLEAN : Edit(t, Table(t) \cup {NewRule(t, n)})

\* UpdateRule writes every column of the rule.
UpdateRule(t) ==
    \E old \in Table(t), n \in BOOLEAN :
        Edit(t, (Table(t) \ {old}) \cup {NewRule(t, n)})

\* DeleteRule, or an update that makes the rule inactive or moves it to another
\* trigger.
DeleteRule(t) == \E old \in Table(t) : Edit(t, Table(t) \ {old})

----------------------------------------------------------------------------
\* A rule compiles in a CEL environment that declares the names it uses.
Compilable(S, has) == {x \in S : has \/ ~x.names}

\* Mutation: a set that is there already is kept.
StoreMissing(key, S) ==
    compiled' = IF compiled[key] = {} THEN [compiled EXCEPT ![key] = S] ELSE compiled

\* Mutation: the rules are stored one by one, next to those already there.
StoreMerged(key, S) == compiled' = [compiled EXCEPT ![key] = @ \cup S]

\* CompileAndCacheRules stores what compiled, and nothing when nothing did.
Store(key, S) ==
    compiled' = IF S = {} THEN compiled ELSE [compiled EXCEPT ![key] = S]

\* Mutation: the key is the trigger alone, the same for all tenants.
TriggerKey(t) == CHOOSE u \in Tenant : TRUE
RuleKey(t) == t

Goto(r, step) == pc' = [pc EXCEPT ![r] = step]
Fault == faults < MaxFaults /\ faults' = faults + 1

\* The calls of R have been answered; nothing of them is left.
Forget(R) ==
    /\ event' = [r \in Request |-> IF r \in R THEN NoEvent ELSE event[r]]
    /\ since' = [r \in Request |-> IF r \in R THEN 1 ELSE since[r]]
    /\ result' = [r \in Request |-> IF r \in R THEN {} ELSE result[r]]

\* RuleCache.Get, and the entry is not empty.
Hit(t) == cache[t].asOf # 0 /\ ~cache[t].expired /\ cache[t].rules # {}

\* GetCompiledOrRefresh for tenant t: it answers from the cache, or refreshes the
\* entry - the first caller starts the singleflight, the others wait for it.
Look(r, t, wait) ==
    \/ /\ Hit(t)
       /\ result' = [result EXCEPT ![r] = cache[t].rules]
       /\ Goto(r, "answer")
       /\ UNCHANGED refresh
    \/ /\ ~Hit(t)
       /\ refresh' = [refresh EXCEPT ![t].step = IF @ = "none" THEN "list" ELSE @]
       /\ Goto(r, wait)
       /\ UNCHANGED result

\* BatchEvaluate is called, and looks the rules up.
Receive(r) ==
    /\ pc[r] = "idle" /\ requests < MaxRequests
    /\ \E e \in Event :
          /\ event' = [event EXCEPT ![r] = e]
          /\ since' = [since EXCEPT ![r] = Len(versions[e.tenant])]
          /\ Look(r, e.tenant, "wait1")
    /\ requests' = requests + 1
    /\ overlap' = (overlap \/ \E q \in Request : pc[q] # "idle")
    /\ UNCHANGED <<versions, compiled, cache, load, edits, expiries, faults>>

\* After the load the rules are looked up again.
LookAgain(r) ==
    /\ pc[r] = "second"
    /\ Look(r, event[r].tenant, "wait2")
    /\ UNCHANGED <<versions, compiled, cache, load, event, since, bounds>>

\* refreshRuleSet reads the table ...
RefreshList(t) ==
    /\ refresh[t].step = "list"
    /\ refresh' = [refresh EXCEPT ![t] = [step |-> "store", read |-> Len(versions[t])]]
    /\ UNCHANGED <<versions, compiled, cache, load, local, bounds>>

\* ... compiles the rules in an environment without attributes ...
RefreshStore(t) ==
    /\ refresh[t].step = "store"
    /\ Store(RuleKey(t), Compilable(versions[t][refresh[t].read], FALSE))
    /\ refresh' = [refresh EXCEPT ![t].step = "set"]
    /\ UNCHANGED <<versions, cache, load, local, bounds>>

Waiting(t) == {r \in Request : pc[r] \in {"wait1", "wait2"} /\ event[r].tenant = t}

\* singleflight hands the end of the flight to all who wait.
Wake(t) ==
    pc' = [r \in Request |-> IF r \notin Waiting(t) THEN pc[r]
                             ELSE IF pc[r] = "wait1" THEN "fresh1" ELSE "fresh2"]

\* ... and caches, with the hash of the rules it read, what rulesByTrigger has
\* now.
RefreshSet(t) ==
    /\ refresh[t].step = "set"
    /\ cache' = [cache EXCEPT ![t] = [rules |-> compiled[RuleKey(t)],
                                      asOf |-> refresh[t].read, expired |-> FALSE]]
    /\ refresh' = [refresh EXCEPT ![t] = NoRefresh]
    /\ Wake(t)
    /\ UNCHANGED <<versions, compiled, load, event, since, result, bounds>>

\* The query fails, perhaps because the first caller has gone away: so it does
\* for all who wait.  A first lookup returns the error, the second's is ignored.
RefreshFail(t) ==
    /\ refresh[t].step = "list" /\ Fault
    /\ refresh' = [refresh EXCEPT ![t] = NoRefresh]
    /\ pc' = [r \in Request |-> IF r \notin Waiting(t) THEN pc[r]
                                ELSE IF pc[r] = "wait1" THEN "idle" ELSE "answer"]
    /\ Forget({r \in Waiting(t) : pc[r] = "wait1"})
    /\ UNCHANGED <<versions, compiled, cache, load, edits, requests, expiries, overlap>>

\* After the refresh the entry is read again.  A first lookup that found no
\* rule goes on to compile them in the event's own environment, in a
\* singleflight that all tenants share.
Reread(r) ==
    LET rules == cache[event[r].tenant].rules
    IN  /\ pc[r] \in {"fresh1", "fresh2"}
        /\ \/ /\ pc[r] = "fresh1" /\ rules = {}
              /\ load' = IF load.step # "none" THEN load
                         ELSE [step |-> "list", event |-> event[r], read |-> 0]
              /\ Goto(r, "load")
              /\ UNCHANGED result
           \/ /\ pc[r] = "fresh2" \/ rules # {}
              /\ result' = [result EXCEPT ![r] = rules]
              /\ Goto(r, "answer")
              /\ UNCHANGED load
        /\ UNCHANGED <<versions, compiled, cache, refresh, event, since, bounds>>

LoadList ==
    /\ load.step = "list"
    /\ load' = [load EXCEPT !.step = "store", !.read = Len(versions[load.event.tenant])]
    /\ UNCHANGED <<versions, compiled, cache, refresh, local, bounds>>

\* All who wait in the load group go on to step.
EndLoad(step) ==
    /\ load' = NoLoad
    /\ pc' = [r \in Request |-> IF pc[r] = "load" THEN step ELSE pc[r]]

\* Mutation: the environment is the empty one here too.
LoadStoreBlank ==
    LET e == load.event
    IN  /\ load.step = "store"
        /\ Store(RuleKey(e.tenant), Compilable(versions[e.tenant][load.read], FALSE))
        /\ EndLoad("second")
        /\ UNCHANGED <<versions, cache, refresh, event, since, result, bounds>>

LoadStore ==
    LET e == load.event
    IN  /\ load.step = "store"
        /\ Store(RuleKey(e.tenant), Compilable(versions[e.tenant][load.read], e.has))
        /\ EndLoad("second")
        /\ UNCHANGED <<versions, cache, refresh, event, since, result, bounds>>

LoadFail ==
    /\ load.step = "list" /\ Fault
    /\ EndLoad("idle") /\ Forget({r \in Request : pc[r] = "load"})
    /\ UNCHANGED <<versions, compiled, cache, refresh, edits, requests, expiries, overlap>>

\* The rules are evaluated and the call answered.
Answer(r) ==
    /\ pc[r] = "answer"
    /\ Goto(r, "idle") /\ Forget({r})
    /\ UNCHANGED <<versions, memory, bounds>>

\* Ten minutes pass - not between a refresh and the reads that waited for it.
Expire(t) ==
    /\ cache[t].asOf # 0 /\ ~cache[t].expired
    /\ \A r \in Request : event[r].tenant = t => pc[r] \notin {"fresh1", "fresh2"}
    /\ expiries < MaxExpiries /\ expiries' = expiries + 1
    /\ cache' = [cache EXCEPT ![t].expired = TRUE]
    /\ UNCHANGED <<versions, compiled, refresh, load, local, edits, requests, faults, overlap>>

\* The replica restarts; its memory is empty.
Restart ==
    /\ Fault
    /\ compiled' = [t \in Tenant |-> {}]
    /\ cache' = [t \in Tenant |-> NoEntry]
    /\ refresh' = [t \in Tenant |-> NoRefresh]
    /\ load' = NoLoad
    /\ pc' = [r \in Request |-> "idle"]
    /\ Forget(Request)
    /\ UNCHANGED <<versions, edits, requests, expiries, overlap>>

RefreshStep(t) == RefreshList(t) \/ RefreshStore(t) \/ RefreshSet(t)
LoadStep == LoadList \/ LoadStore
RequestStep(r) == LookAgain(r) \/ Reread(r) \/ Answer(r)

\* Every call the bound admits has been answered.
Rest ==
    /\ \A r \in Request : pc[r] = "idle"
    /\ requests = MaxRequests /\ UNCHANGED vars

Next ==
    \/ \E t \in Tenant :
          \/ CreateRule(t) \/ UpdateRule(t) \/ DeleteRule(t)
          \/ RefreshStep(t) \/ RefreshFail(t) \/ Expire(t)
    \/ \E r \in Request : Receive(r) \/ RequestStep(r)
    \/ LoadStep \/ LoadFail \/ Restart \/ Rest

Spec == Init /\ [][Next]_vars

----------------------------------------------------------------------------
(***************************************************************************)
(* Properties.                                                             *)
(***************************************************************************)

\* Every variable has its type: the caches hold compiled rules, a flight is at
\* one of the steps of its function and has read a version of the table.
TypeOK ==
    /\ versions \in [Tenant -> Seq(SUBSET Rule)]
    /\ compiled \in [Tenant -> SUBSET Rule]
    /\ cache \in [Tenant -> [rules : SUBSET Rule, asOf : Nat, expired : BOOLEAN]]
    /\ refresh \in [Tenant -> [step : {"none", "list", "store", "set"}, read : Nat]]
    /\ load \in [step : {"none", "list", "store"}, event : Event, read : Nat]
    /\ pc \in [Request -> PC]
    /\ event \in [Request -> Event]
    /\ since \in [Request -> Nat]
    /\ result \in [Request -> SUBSET Rule]
    /\ edits \in Nat /\ requests \in Nat /\ expiries \in Nat /\ faults \in Nat
    /\ overlap \in BOOLEAN

OwnedBy(t, S) == \A x \in S : x.tenant = t

\* An event is evaluated with rules of its own tenant only, whatever the
\* tenants' flights through the shared maps interleave.
TenantIsolation == \A r \in Request : OwnedBy(event[r].tenant, result[r])

Whole(t, S) ==
    S # {} => \E i \in DOMAIN versions[t], has \in BOOLEAN :
                  S = Compilable(versions[t][i], has)

\* What a request evaluates is what compiled of one version of the table, never
\* a mixture of two.
WholeSets == \A r \in Request : Whole(event[r].tenant, result[r])

\* What the table and the caches hold, and what a flight has read.
RulesOK(t) ==
    /\ versions[t] # <<>> /\ \A i \in DOMAIN versions[t] : OwnedBy(t, versions[t][i])
    /\ Whole(t, compiled[t]) /\ Whole(t, cache[t].rules)
    /\ refresh[t].step \in {"store", "set"} => refresh[t].read \in DOMAIN versions[t]

LoadOK == load.step = "store" => load.read \in DOMAIN versions[load.event.tenant]
ResultsOK == \A r \in Request : pc[r] # "answer" => result[r] = {}
WaitersHaveFlight ==
    /\ \A r \in Request : pc[r] \in {"wait1", "wait2"} => refresh[event[r].tenant].step # "none"
    /\ \A r \in Request : pc[r] = "load" => load.step # "none"

\* The strengthening that makes the two inductive.
RuleCacheInv ==
    /\ TypeOK
    /\ \A t \in Tenant : RulesOK(t)
    /\ LoadOK /\ ResultsOK
    /\ WaitersHaveFlight /\ WholeSets /\ TenantIsolation

\* A request that had the replica to itself and met no fault finds a rule when
\* all the while its tenant had one that compiles for the event.
OwnRulesFound ==
    \A r \in Request :
        LET t == event[r].tenant
        IN  /\ pc[r] = "answer" /\ ~overlap /\ faults = 0
            /\ \A i \in since[r]..Len(versions[t]) :
                  Compilable(versions[t][i], event[r].has) # {}
            => result[r] # {}

\* What version i of t's rules compiles to in the environment of a refresh.
Refreshed(t, i) == Compilable(versions[t][i], FALSE)

\* A refresh that finds something takes effect: the rules cached are those the
\* entry's hash is of, as far as they compile without attributes, whatever was
\* edited, loaded or expired before.  (One that finds nothing keeps what was there.)
RefreshTakesEffect ==
    \A t \in Tenant :
        ~overlap /\ cache[t].asOf # 0 /\ Refreshed(t, cache[t].asOf) # {}
            => cache[t].rules = Refreshed(t, cache[t].asOf)

=============================================================================
