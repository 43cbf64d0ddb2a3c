--------------------------- MODULE RuleCacheProofs ---------------------------
(***************************************************************************)
(* RuleCacheInv is an inductive invariant of RuleCache, for any tenants,   *)
(* any number of requests and any bounds: events are evaluated with whole  *)
(* versions of their own tenant's rules, and nobody waits for a flight     *)
(* that has ended.                                                         *)
(*                                                                         *)
(* FreshInv adds to it what a request that has the replica to itself       *)
(* relies on, and what is left of a refresh where rules are constant: such *)
(* a request finds its tenant's rules, and such a refresh takes effect.    *)
(***************************************************************************)
EXTENDS RuleCache, TLAPS

\* Whole versions of a tenant's rules are the tenant's: isolation need not be
\* shown step by step.
Core ==
    /\ TypeOK
    /\ \A t \in Tenant : RulesOK(t)
    /\ LoadOK /\ ResultsOK /\ WaitersHaveFlight /\ WholeSets

LEMMA CoreIsolates == Core => RuleCacheInv
<1> SUFFICES ASSUME Core PROVE TenantIsolation
  BY DEF Core, RuleCacheInv
<1>1. ASSUME NEW r \in Request, NEW x \in result[r]
      PROVE  x.tenant = event[r].tenant
  <2>1. event[r].tenant \in Tenant
    BY DEF Core, TypeOK, Event
  <2>2. PICK i \in DOMAIN versions[event[r].tenant], has \in BOOLEAN :
           result[r] = Compilable(versions[event[r].tenant][i], has)
    BY <1>1 DEF Core, WholeSets, Whole
  <2> QED
    BY <1>1, <2>1, <2>2 DEF Core, RulesOK, OwnedBy, Compilable
<1> QED
  BY <1>1 DEF TenantIsolation, OwnedBy

LEMMA NoEventIsOne == NoEvent \in Event
<1>1. \E e : e \in Event
  <2>1. PICK t \in Tenant : TRUE
    BY RuleCacheAssumption
  <2>2. [tenant |-> t, has |-> TRUE] \in Event
    BY <2>1 DEF Event
  <2> QED
    BY <2>2
<1> QED
  BY <1>1 DEF NoEvent

LEMMA InitCore == Init => Core
<1> SUFFICES ASSUME Init PROVE Core
  OBVIOUS
<1> USE DEF Init
<1>1. TypeOK
  <2>1. versions \in [Tenant -> Seq(SUBSET Rule)]
    OBVIOUS
  <2>2. event \in [Request -> Event] /\ load \in [step : {"none", "list", "store"}, event : Event, read : Nat]
    BY NoEventIsOne DEF NoLoad
  <2> QED
    BY <2>1, <2>2 DEF TypeOK, NoEntry, NoRefresh, PC
<1>2. ASSUME NEW t \in Tenant
      PROVE  RulesOK(t)
  BY DEF RulesOK, Whole, OwnedBy, NoEntry, NoRefresh
<1>3. LoadOK /\ ResultsOK /\ WaitersHaveFlight /\ WholeSets
  BY DEF LoadOK, ResultsOK, WaitersHaveFlight, WholeSets, Whole, NoLoad
<1> QED
  BY <1>1, <1>2, <1>3 DEF Core

----------------------------------------------------------------------------
\* A step that edits no table keeps what is whole.
LEMMA WholeKept ==
  ASSUME UNCHANGED versions, NEW t, NEW S, Whole(t, S)
  PROVE  Whole(t, S)'
BY DEF Whole

\* What compiles of a version is whole.
LEMMA CompilableWhole ==
  ASSUME NEW t, NEW i \in DOMAIN versions[t], NEW has \in BOOLEAN
  PROVE  Whole(t, Compilable(versions[t][i], has))
BY DEF Whole

\* Editing a table adds a version of the tenant's own rules.
LEMMA EditCore ==
  ASSUME Core, NEW t \in Tenant, NEW S \in SUBSET Rule, OwnedBy(t, S), Edit(t, S)
  PROVE  Core'
<1> USE DEF Edit, memory, local
<1>1. TypeOK /\ versions[t] \in Seq(SUBSET Rule)
  BY DEF Core, TypeOK
<1>2. TypeOK'
  BY <1>1 DEF TypeOK
<1>3. ASSUME NEW u \in Tenant
      PROVE  /\ DOMAIN versions[u] \subseteq DOMAIN versions'[u]
             /\ \A i \in DOMAIN versions[u] : versions'[u][i] = versions[u][i]
             /\ \A i \in DOMAIN versions'[u] \ DOMAIN versions[u] :
                   u = t /\ versions'[u][i] = S
  BY <1>1 DEF TypeOK
<1>4. ASSUME NEW u \in Tenant, NEW T, Whole(u, T)
      PROVE  \A i \in DOMAIN versions[u] : Whole(u, T)'
  BY <1>3, <1>4 DEF Whole
<1>5. ASSUME NEW u \in Tenant, NEW T, Whole(u, T)
      PROVE  Whole(u, T)'
  BY <1>3, <1>5 DEF Whole
<1>6. ASSUME NEW u \in Tenant
      PROVE  RulesOK(u)'
  <2>1. RulesOK(u)
    BY DEF Core
  <2>2. versions'[u] # <<>>
    <3>1. CASE u = t
      <4>1. versions'[u] = Append(versions[t], S)
        BY <1>1, <3>1 DEF TypeOK
      <4> QED
        BY <1>1, <4>1
    <3>2. CASE u # t
      BY <1>1, <2>1, <3>2 DEF RulesOK, TypeOK
    <3> QED
      BY <3>1, <3>2
  <2>3. \A i \in DOMAIN versions'[u] : OwnedBy(u, versions'[u][i])
    BY <1>3, <2>1 DEF RulesOK, OwnedBy
  <2>4. Whole(u, compiled[u])' /\ Whole(u, cache[u].rules)'
    BY <1>5, <2>1 DEF RulesOK
  <2> QED
    BY <1>3, <2>1, <2>2, <2>3, <2>4 DEF RulesOK, OwnedBy
<1>7. LoadOK'
  BY <1>1, <1>3 DEF Core, LoadOK, TypeOK, Event
<1>8. ResultsOK' /\ WaitersHaveFlight'
  BY DEF Core, ResultsOK, WaitersHaveFlight
<1>9. WholeSets'
  BY <1>1, <1>5 DEF Core, WholeSets, TypeOK, Event
<1> QED
  BY <1>2, <1>6, <1>7, <1>8, <1>9 DEF Core

\* The current table is a version of the tenant's rules.
LEMMA TableOwned ==
  ASSUME Core, NEW t \in Tenant
  PROVE  Table(t) \in SUBSET Rule /\ OwnedBy(t, Table(t))
<1>1. versions[t] \in Seq(SUBSET Rule) /\ versions[t] # <<>>
  BY DEF Core, TypeOK, RulesOK
<1>2. Len(versions[t]) \in DOMAIN versions[t]
  BY <1>1
<1> QED
  BY <1>1, <1>2 DEF Table, Last, Core, RulesOK

LEMMA EditsCore ==
  ASSUME Core, NEW t \in Tenant, CreateRule(t) \/ UpdateRule(t) \/ DeleteRule(t)
  PROVE  Core'
<1>1. PICK S : /\ Edit(t, S)
               /\ \/ S \subseteq Table(t)
                  \/ \E n \in BOOLEAN : S \subseteq Table(t) \cup {NewRule(t, n)}
  BY DEF CreateRule, UpdateRule, DeleteRule
<1>2. edits + 1 \in 1..MaxEdits
  BY <1>1, RuleCacheAssumption DEF Edit, Core, TypeOK
<1>3. S \in SUBSET Rule /\ OwnedBy(t, S)
  BY <1>1, <1>2, TableOwned DEF OwnedBy, NewRule, Rule
<1> QED
  BY <1>1, <1>3, EditCore

----------------------------------------------------------------------------
\* Storing what compiles of a version keeps rulesByTrigger whole.
LEMMA StoreKeeps ==
  ASSUME Core, UNCHANGED versions, NEW t \in Tenant, NEW S, Whole(t, S),
         S \subseteq Rule, Store(t, S)
  PROVE  /\ compiled' \in [Tenant -> SUBSET Rule]
         /\ \A u \in Tenant : Whole(u, compiled[u])'
<1>1. compiled' \in [Tenant -> SUBSET Rule]
  BY DEF Core, TypeOK, Store
<1>2. ASSUME NEW u \in Tenant
      PROVE  Whole(u, compiled[u])'
  <2>1. Whole(u, compiled[u])
    BY DEF Core, RulesOK
  <2>2. compiled'[u] = compiled[u] \/ (u = t /\ compiled'[u] = S)
    BY DEF Store, Core, TypeOK
  <2> QED
    BY <2>1, <2>2 DEF Whole
<1> QED
  BY <1>1, <1>2

LEMMA RefreshListCore ==
  ASSUME Core, NEW t \in Tenant, RefreshList(t)
  PROVE  Core'
<1> USE DEF RefreshList, local, bounds
<1>1. TypeOK /\ versions[t] \in Seq(SUBSET Rule) /\ versions[t] # <<>>
  BY DEF Core, TypeOK, RulesOK
<1>2. TypeOK'
  BY <1>1 DEF TypeOK
<1>3. ASSUME NEW u \in Tenant
      PROVE  RulesOK(u)'
  <2>1. RulesOK(u)
    BY DEF Core
  <2>2. CASE u = t
    <3>1. Len(versions[t]) \in DOMAIN versions[t]
      BY <1>1
    <3>2. refresh'[u].read = Len(versions[t])
      BY <1>1, <2>2 DEF TypeOK
    <3> QED
      BY <2>1, <2>2, <3>1, <3>2 DEF RulesOK, OwnedBy, Whole
  <2>3. CASE u # t
    <3>1. refresh'[u] = refresh[u]
      BY <1>1, <2>3 DEF TypeOK
    <3> QED
      BY <2>1, <3>1 DEF RulesOK, OwnedBy, Whole
  <2> QED
    BY <2>2, <2>3
<1>4. WaitersHaveFlight'
  BY <1>1 DEF Core, TypeOK, WaitersHaveFlight
<1>5. LoadOK' /\ ResultsOK' /\ WholeSets'
  BY DEF Core, LoadOK, ResultsOK, WholeSets, Whole
<1> QED
  BY <1>2, <1>3, <1>4, <1>5 DEF Core

LEMMA RefreshStoreCore ==
  ASSUME Core, NEW t \in Tenant, RefreshStore(t)
  PROVE  Core'
<1> DEFINE S == Compilable(versions[t][refresh[t].read], FALSE)
<1> USE DEF RefreshStore, local, bounds, RuleKey
<1>1. TypeOK /\ refresh[t].read \in DOMAIN versions[t]
  BY DEF Core, RulesOK
<1>2. Whole(t, S) /\ S \subseteq Rule
  <2>1. versions[t] \in Seq(SUBSET Rule)
    BY <1>1 DEF TypeOK
  <2>2. versions[t][refresh[t].read] \subseteq Rule
    BY <1>1, <2>1
  <2>3. Whole(t, S)
    BY <1>1, CompilableWhole
  <2> QED
    BY <2>2, <2>3 DEF Compilable
<1> HIDE DEF S
<1>3. /\ compiled' \in [Tenant -> SUBSET Rule]
      /\ \A u \in Tenant : Whole(u, compiled[u])'
  BY <1>2, StoreKeeps DEF S
<1>4. TypeOK'
  BY <1>1, <1>3 DEF TypeOK
<1>5. ASSUME NEW u \in Tenant
      PROVE  RulesOK(u)'
  BY <1>1, <1>3, ZenonT(40) DEF Core, TypeOK, RulesOK, OwnedBy, Whole
<1>6. WaitersHaveFlight'
  BY <1>1 DEF Core, TypeOK, WaitersHaveFlight
<1>7. LoadOK' /\ ResultsOK' /\ WholeSets'
  BY DEF Core, LoadOK, ResultsOK, WholeSets, Whole
<1> QED
  BY <1>4, <1>5, <1>6, <1>7 DEF Core

LEMMA RefreshSetCore ==
  ASSUME Core, NEW t \in Tenant, RefreshSet(t)
  PROVE  Core'
<1> USE DEF RefreshSet, bounds, RuleKey, NoRefresh
<1>1. TypeOK
  BY DEF Core
<1>2. TypeOK'
  BY <1>1 DEF TypeOK, Wake, PC
<1>3. ASSUME NEW u \in Tenant
      PROVE  RulesOK(u)'
  BY <1>1, ZenonT(40) DEF Core, TypeOK, RulesOK, OwnedBy, Whole
<1>4. WaitersHaveFlight'
  BY <1>1 DEF Core, TypeOK, WaitersHaveFlight, Wake, Waiting
<1>5. LoadOK' /\ WholeSets'
  BY DEF Core, LoadOK, WholeSets, Whole
<1>6. ResultsOK'
  BY <1>1 DEF Core, ResultsOK, Wake, Waiting, TypeOK
<1> QED
  BY <1>2, <1>3, <1>4, <1>5, <1>6 DEF Core

\* Calls that are answered leave no result behind.
LEMMA ForgetWhole ==
  ASSUME Core, UNCHANGED versions, NEW R, Forget(R)
  PROVE  WholeSets'
<1>1. ASSUME NEW r \in Request
      PROVE  Whole(event[r].tenant, result[r])'
  <2>1. CASE r \in R
    BY <2>1 DEF Forget, Whole
  <2>2. CASE r \notin R
    <3>1. event'[r] = event[r] /\ result'[r] = result[r]
      BY <2>2 DEF Forget
    <3> QED
      BY <3>1 DEF Core, WholeSets, Whole
  <2> QED
    BY <2>1, <2>2
<1> QED
  BY <1>1 DEF WholeSets

LEMMA RefreshFailCore ==
  ASSUME Core, NEW t \in Tenant, RefreshFail(t)
  PROVE  Core'
<1> USE DEF RefreshFail, Fault, NoRefresh
<1>1. TypeOK
  BY DEF Core
<1>2. TypeOK'
  BY <1>1, NoEventIsOne DEF TypeOK, Forget, PC
<1>3. ASSUME NEW u \in Tenant
      PROVE  RulesOK(u)'
  BY <1>1, ZenonT(40) DEF Core, TypeOK, RulesOK, OwnedBy, Whole
<1>4. WaitersHaveFlight'
  BY <1>1 DEF Core, TypeOK, WaitersHaveFlight, Waiting, Forget
<1>5. LoadOK' /\ ResultsOK'
  BY <1>1 DEF Core, LoadOK, ResultsOK, Waiting, Forget, TypeOK
<1>6. WholeSets'
  BY ForgetWhole
<1> QED
  BY <1>2, <1>3, <1>4, <1>5, <1>6 DEF Core

----------------------------------------------------------------------------
\* A request that looks the rules up gets whole ones from the cache, or waits
\* for a flight that is under way.
LEMMA LookCore ==
  ASSUME Core, NEW r \in Request, NEW t \in Tenant, NEW wait \in {"wait1", "wait2"},
         pc[r] # "answer",
         event' \in [Request -> Event], event'[r].tenant = t,
         \A q \in Request : q # r => event'[q] = event[q],
         since' \in [Request -> Nat], requests' \in Nat, overlap' \in BOOLEAN,
         UNCHANGED <<versions, compiled, cache, load, edits, expiries, faults>>,
         Look(r, t, wait)
  PROVE  Core'
<1>1. TypeOK
  BY DEF Core
<1>2. TypeOK'
  <2>1. pc' \in [Request -> PC] /\ result' \in [Request -> SUBSET Rule]
    <3>1. pc' = [pc EXCEPT ![r] = "answer"] \/ pc' = [pc EXCEPT ![r] = wait]
      BY DEF Look, Goto
    <3>2. result' = result \/ result' = [result EXCEPT ![r] = cache[t].rules]
      BY DEF Look
    <3> QED
      BY <1>1, <3>1, <3>2, ZenonT(40) DEF TypeOK, PC
  <2>2. refresh' \in [Tenant -> [step : {"none", "list", "store", "set"}, read : Nat]]
    <3> DEFINE next == IF refresh[t].step = "none" THEN "list" ELSE refresh[t].step
               flight == [refresh[t] EXCEPT !.step = next]
    <3>1. refresh' = refresh \/ refresh' = [refresh EXCEPT ![t] = flight]
      BY DEF Look
    <3>2. next \in {"none", "list", "store", "set"}
      BY <1>1 DEF TypeOK
    <3> HIDE DEF next
    <3>3. flight \in [step : {"none", "list", "store", "set"}, read : Nat]
      <4>1. refresh[t] \in [step : {"none", "list", "store", "set"}, read : Nat]
        BY <1>1 DEF TypeOK
      <4> QED
        BY <3>2, <4>1
    <3> QED
      BY <1>1, <3>1, <3>3 DEF TypeOK
  <2> QED
    BY <1>1, <2>1, <2>2 DEF TypeOK
<1>3. ASSUME NEW u \in Tenant
      PROVE  /\ refresh'[u].read = refresh[u].read
             /\ refresh'[u].step \in {"store", "set"} => refresh'[u].step = refresh[u].step
             /\ refresh[u].step # "none" => refresh'[u].step # "none"
  BY <1>1, SMTT(20) DEF Look, TypeOK
<1>4. ASSUME NEW u \in Tenant
      PROVE  RulesOK(u)'
  BY <1>3 DEF Core, RulesOK, OwnedBy, Whole
<1>5. LoadOK'
  BY DEF Core, LoadOK
<1>6. pc' \in [Request -> PC] /\ \A q \in Request : q # r => pc'[q] = pc[q] /\ result'[q] = result[q]
  BY <1>1, <1>2 DEF Look, Goto, TypeOK
<1>7. \/ result'[r] = cache[t].rules /\ pc'[r] = "answer"
      \/ result'[r] = {} /\ pc'[r] = wait /\ refresh'[t].step # "none"
  BY <1>1 DEF Look, Goto, Core, ResultsOK, TypeOK
<1>8. ResultsOK'
  BY <1>6, <1>7 DEF Core, ResultsOK
<1>9. WaitersHaveFlight'
  <2>1. ASSUME NEW q \in Request, pc'[q] \in {"wait1", "wait2"}
        PROVE  refresh'[event'[q].tenant].step # "none"
    <3>1. event[q].tenant \in Tenant
      BY <1>1 DEF TypeOK, Event
    <3> QED
      BY <1>3, <1>6, <1>7, <2>1, <3>1 DEF Core, WaitersHaveFlight
  <2>2. ASSUME NEW q \in Request, pc'[q] = "load"
        PROVE  load'.step # "none"
    BY <1>6, <1>7, <2>2 DEF Core, WaitersHaveFlight
  <2> QED
    BY <2>1, <2>2 DEF WaitersHaveFlight
<1>10. WholeSets'
  <2>1. Whole(t, cache[t].rules)
    BY DEF Core, RulesOK
  <2>2. \A q \in Request : Whole(event[q].tenant, result[q])
    BY DEF Core, WholeSets
  <2> QED
    BY <1>6, <1>7, <2>1, <2>2 DEF WholeSets, Whole
<1> QED
  BY <1>2, <1>4, <1>5, <1>8, <1>9, <1>10 DEF Core

LEMMA ReceiveCore ==
  ASSUME Core, NEW r \in Request, Receive(r)
  PROVE  Core'
<1>1. PICK e \in Event : /\ event' = [event EXCEPT ![r] = e]
                         /\ since' = [since EXCEPT ![r] = Len(versions[e.tenant])]
                         /\ Look(r, e.tenant, "wait1")
  BY DEF Receive
<1>2. TypeOK /\ e.tenant \in Tenant
  BY DEF Core, Event
<1>3. Len(versions[e.tenant]) \in Nat
  BY <1>2 DEF TypeOK
<1>4. since' \in [Request -> Nat] /\ requests' \in Nat /\ overlap' \in BOOLEAN
  BY <1>1, <1>2, <1>3 DEF Receive, TypeOK
<1>5. /\ event' \in [Request -> Event] /\ event'[r].tenant = e.tenant
      /\ \A q \in Request : q # r => event'[q] = event[q]
  BY <1>1, <1>2 DEF TypeOK
<1> QED
  BY <1>1, <1>2, <1>4, <1>5, LookCore DEF Receive

LEMMA LookAgainCore ==
  ASSUME Core, NEW r \in Request, LookAgain(r)
  PROVE  Core'
<1>1. TypeOK /\ event[r].tenant \in Tenant
  BY DEF Core, TypeOK, Event
<1>2. since' \in [Request -> Nat] /\ requests' \in Nat /\ overlap' \in BOOLEAN
  BY <1>1 DEF LookAgain, bounds, TypeOK
<1>3. event' \in [Request -> Event] /\ \A q \in Request : event'[q] = event[q]
  BY <1>1 DEF LookAgain, TypeOK
<1> QED
  BY <1>1, <1>2, <1>3, LookCore DEF LookAgain, bounds

\* After the refresh a request evaluates the whole set it reads, or waits for the
\* load it starts or joins.
LEMMA RereadCore ==
  ASSUME Core, NEW r \in Request, Reread(r)
  PROVE  Core'
<1> DEFINE rules == cache[event[r].tenant].rules
<1>1. TypeOK /\ event[r].tenant \in Tenant /\ pc[r] \in {"fresh1", "fresh2"}
  BY DEF Core, TypeOK, Event, Reread
<1>2. /\ UNCHANGED <<versions, compiled, cache, refresh, event, since>> /\ UNCHANGED bounds
      /\ \/ /\ load' = IF load.step # "none" THEN load
                       ELSE [step |-> "list", event |-> event[r], read |-> 0]
            /\ pc' = [pc EXCEPT ![r] = "load"]
            /\ UNCHANGED result
         \/ /\ result' = [result EXCEPT ![r] = rules]
            /\ pc' = [pc EXCEPT ![r] = "answer"]
            /\ UNCHANGED load
  BY DEF Reread, Goto
<1>3. rules \subseteq Rule
  BY <1>1 DEF TypeOK
<1> HIDE DEF rules
<1>4. TypeOK'
  <2>1. pc' \in [Request -> PC] /\ result' \in [Request -> SUBSET Rule]
    BY <1>1, <1>2, <1>3 DEF TypeOK, PC
  <2>2. load' \in [step : {"none", "list", "store"}, event : Event, read : Nat]
    BY <1>1, <1>2 DEF TypeOK
  <2> QED
    BY <1>1, <1>2, <2>1, <2>2 DEF TypeOK, bounds
<1>5. ASSUME NEW u \in Tenant
      PROVE  RulesOK(u)'
  BY <1>2 DEF Core, RulesOK, OwnedBy, Whole
<1>6. LoadOK' /\ WaitersHaveFlight' /\ ResultsOK'
  <2>1. LoadOK'
    BY <1>2 DEF Core, LoadOK
  <2>2. \A q \in Request : pc'[q] = pc[q] \/ (q = r /\ pc'[q] \in {"load", "answer"})
    BY <1>1, <1>2 DEF TypeOK
  <2>3. ASSUME NEW q \in Request, pc'[q] = "load"
        PROVE  load'.step # "none"
    BY <1>1, <1>2, <2>3 DEF Core, WaitersHaveFlight, TypeOK
  <2>4. WaitersHaveFlight'
    BY <1>2, <2>2, <2>3 DEF Core, WaitersHaveFlight
  <2>5. ASSUME NEW q \in Request, pc'[q] # "answer"
        PROVE  result'[q] = {}
    BY <1>1, <1>2, <2>5 DEF Core, ResultsOK, TypeOK
  <2> QED
    BY <2>1, <2>4, <2>5 DEF ResultsOK
<1>7. WholeSets'
  <2>1. Whole(event[r].tenant, rules)
    BY <1>1 DEF Core, RulesOK, rules
  <2>2. \A q \in Request : Whole(event[q].tenant, result[q])
    BY DEF Core, WholeSets
  <2>3. \A q \in Request : result'[q] = result[q] \/ (q = r /\ result'[q] = rules)
    BY <1>1, <1>2 DEF TypeOK
  <2> QED
    BY <1>2, <2>1, <2>2, <2>3 DEF WholeSets, Whole
<1> QED
  BY <1>4, <1>5, <1>6, <1>7 DEF Core

----------------------------------------------------------------------------
LEMMA LoadListCore ==
  ASSUME Core, LoadList
  PROVE  Core'
<1> USE DEF LoadList, local, bounds
<1>1. TypeOK /\ load.event.tenant \in Tenant
  BY DEF Core, TypeOK, Event
<1>2. /\ versions[load.event.tenant] \in Seq(SUBSET Rule)
      /\ versions[load.event.tenant] # <<>>
  BY <1>1 DEF Core, TypeOK, RulesOK
<1>3. /\ Len(versions[load.event.tenant]) \in DOMAIN versions[load.event.tenant]
      /\ Len(versions[load.event.tenant]) \in Nat
  BY <1>2
<1>4. TypeOK'
  BY <1>1, <1>3 DEF TypeOK
<1>5. ASSUME NEW u \in Tenant
      PROVE  RulesOK(u)'
  BY DEF Core, RulesOK, OwnedBy, Whole
<1>6. LoadOK'
  BY <1>1, <1>3 DEF LoadOK, TypeOK
<1>7. WaitersHaveFlight'
  BY <1>1 DEF Core, TypeOK, WaitersHaveFlight
<1>8. ResultsOK' /\ WholeSets'
  BY DEF Core, ResultsOK, WholeSets, Whole
<1> QED
  BY <1>4, <1>5, <1>6, <1>7, <1>8 DEF Core

LEMMA LoadStoreCore ==
  ASSUME Core, LoadStore
  PROVE  Core'
<1> DEFINE t == load.event.tenant
           S == Compilable(versions[t][load.read], load.event.has)
<1>1. TypeOK /\ t \in Tenant /\ load.event.has \in BOOLEAN /\ load.read \in DOMAIN versions[t]
  BY DEF Core, TypeOK, Event, LoadStore, LoadOK
<1>2. Whole(t, S) /\ S \subseteq Rule
  <2>1. versions[t] \in Seq(SUBSET Rule)
    BY <1>1 DEF TypeOK
  <2>2. versions[t][load.read] \subseteq Rule
    BY <1>1, <2>1
  <2>3. Whole(t, S)
    BY <1>1, CompilableWhole
  <2> QED
    BY <2>2, <2>3 DEF Compilable
<1>3. /\ Store(t, S) /\ load' = NoLoad
      /\ UNCHANGED <<versions, cache, refresh, event, since, result>> /\ UNCHANGED bounds
      /\ pc' = [r \in Request |-> IF pc[r] = "load" THEN "second" ELSE pc[r]]
  BY DEF LoadStore, RuleKey, EndLoad
<1> HIDE DEF S, t
<1>4. /\ compiled' \in [Tenant -> SUBSET Rule]
      /\ \A u \in Tenant : Whole(u, compiled[u])'
  BY <1>1, <1>2, <1>3, StoreKeeps
<1>5. TypeOK'
  BY <1>1, <1>3, <1>4, NoEventIsOne DEF TypeOK, bounds, PC, NoLoad
<1>6. ASSUME NEW u \in Tenant
      PROVE  RulesOK(u)'
  BY <1>3, <1>4 DEF Core, RulesOK, OwnedBy, Whole
<1>7. LoadOK' /\ WaitersHaveFlight' /\ ResultsOK'
  BY <1>3 DEF Core, LoadOK, NoLoad, WaitersHaveFlight, ResultsOK
<1>8. WholeSets'
  BY <1>3 DEF Core, WholeSets, Whole
<1> QED
  BY <1>5, <1>6, <1>7, <1>8 DEF Core

LEMMA LoadFailCore ==
  ASSUME Core, LoadFail
  PROVE  Core'
<1> USE DEF LoadFail, EndLoad, Fault
<1>1. TypeOK
  BY DEF Core
<1>2. TypeOK'
  BY <1>1, NoEventIsOne DEF TypeOK, Forget, PC, NoLoad
<1>3. ASSUME NEW u \in Tenant
      PROVE  RulesOK(u)'
  BY DEF Core, RulesOK, OwnedBy, Whole
<1>4. LoadOK' /\ WaitersHaveFlight' /\ ResultsOK'
  BY <1>1 DEF Core, TypeOK, LoadOK, NoLoad, WaitersHaveFlight, ResultsOK, Forget
<1>5. WholeSets'
  BY ForgetWhole
<1> QED
  BY <1>2, <1>3, <1>4, <1>5 DEF Core

----------------------------------------------------------------------------
LEMMA AnswerCore ==
  ASSUME Core, NEW r \in Request, Answer(r)
  PROVE  Core'
<1> USE DEF Answer, Goto, memory, bounds
<1>1. TypeOK
  BY DEF Core
<1>2. TypeOK'
  BY <1>1, NoEventIsOne DEF TypeOK, Forget, PC
<1>3. ASSUME NEW u \in Tenant
      PROVE  RulesOK(u)'
  BY DEF Core, RulesOK, OwnedBy, Whole
<1>4. LoadOK' /\ WaitersHaveFlight' /\ ResultsOK'
  BY <1>1 DEF Core, TypeOK, LoadOK, WaitersHaveFlight, ResultsOK, Forget
<1>5. WholeSets'
  BY ForgetWhole
<1> QED
  BY <1>2, <1>3, <1>4, <1>5 DEF Core

LEMMA ExpireCore ==
  ASSUME Core, NEW t \in Tenant, Expire(t)
  PROVE  Core'
<1> DEFINE entry == [cache[t] EXCEPT !.expired = TRUE]
<1>1. TypeOK
  BY DEF Core
<1>2. /\ cache' = [cache EXCEPT ![t] = entry] /\ expiries' = expiries + 1
      /\ UNCHANGED <<versions, compiled, refresh, load, pc, event, since, result,
                     edits, requests, faults, overlap>>
  BY DEF Expire, local
<1>3. /\ entry \in [rules : SUBSET Rule, asOf : Nat, expired : BOOLEAN]
      /\ entry.rules = cache[t].rules
  BY <1>1 DEF TypeOK
<1> HIDE DEF entry
<1>4. TypeOK'
  BY <1>1, <1>2, <1>3 DEF TypeOK
<1>5. ASSUME NEW u \in Tenant
      PROVE  RulesOK(u)'
  <2>1. cache'[u].rules = cache[u].rules
    BY <1>1, <1>2, <1>3 DEF TypeOK
  <2> QED
    BY <1>2, <2>1 DEF Core, RulesOK, OwnedBy, Whole
<1>6. LoadOK' /\ WaitersHaveFlight' /\ ResultsOK' /\ WholeSets'
  BY <1>2 DEF Core, LoadOK, WaitersHaveFlight, ResultsOK, WholeSets, Whole
<1> QED
  BY <1>4, <1>5, <1>6 DEF Core

LEMMA RestartCore ==
  ASSUME Core, Restart
  PROVE  Core'
<1> USE DEF Restart, Fault
<1>1. TypeOK
  BY DEF Core
<1>2. TypeOK'
  BY <1>1, NoEventIsOne DEF TypeOK, Forget, PC, NoLoad, NoEntry, NoRefresh
<1>3. ASSUME NEW u \in Tenant
      PROVE  RulesOK(u)'
  BY DEF Core, RulesOK, OwnedBy, Whole, NoEntry, NoRefresh
<1>4. LoadOK' /\ WaitersHaveFlight' /\ ResultsOK'
  BY <1>1 DEF Core, TypeOK, LoadOK, NoLoad, WaitersHaveFlight, ResultsOK, Forget
<1>5. WholeSets'
  BY ForgetWhole
<1> QED
  BY <1>2, <1>3, <1>4, <1>5 DEF Core

----------------------------------------------------------------------------
LEMMA NextCore == Core /\ [Next]_vars => Core'
<1> SUFFICES ASSUME Core, [Next]_vars PROVE Core'
  OBVIOUS
<1>1. CASE UNCHANGED vars
  <2> USE <1>1 DEF vars, memory, local, bounds
  <2>1. TypeOK'
    BY DEF Core, TypeOK
  <2>2. \A t \in Tenant : RulesOK(t)'
    BY DEF Core, RulesOK, Whole, OwnedBy
  <2>3. LoadOK' /\ ResultsOK' /\ WaitersHaveFlight' /\ WholeSets'
    BY DEF Core, LoadOK, ResultsOK, WaitersHaveFlight, WholeSets, Whole
  <2> QED
    BY <2>1, <2>2, <2>3 DEF Core
<1>2. ASSUME NEW t \in Tenant, CreateRule(t) \/ UpdateRule(t) \/ DeleteRule(t)
      PROVE  Core'
  BY <1>2, EditsCore
<1>3. ASSUME NEW t \in Tenant, RefreshStep(t) \/ RefreshFail(t) \/ Expire(t)
      PROVE  Core'
  BY <1>3, RefreshListCore, RefreshStoreCore, RefreshSetCore, RefreshFailCore, ExpireCore
     DEF RefreshStep
<1>4. ASSUME NEW r \in Request, Receive(r) \/ RequestStep(r)
      PROVE  Core'
  BY <1>4, ReceiveCore, LookAgainCore, RereadCore, AnswerCore DEF RequestStep
<1>5. CASE LoadStep \/ LoadFail \/ Restart
  BY <1>5, LoadListCore, LoadStoreCore, LoadFailCore, RestartCore DEF LoadStep
<1>6. CASE Rest
  BY <1>1, <1>6 DEF Rest
<1> QED
  BY <1>1, <1>2, <1>3, <1>4, <1>5, <1>6 DEF Next

\* RuleCacheInv holds in every reachable state of the rule service's caches:
\* whatever edits, refreshes, loads, failures and restarts interleave.
THEOREM RuleCacheInvariant == Spec => []RuleCacheInv
<1>1. Spec => []Core
  BY InitCore, NextCore, PTL DEF Spec
<1> QED
  BY <1>1, CoreIsolates, PTL

\* No event is evaluated with another tenant's rules (BatchEvaluate, with the
\* shared map rulesByTrigger and the load group all tenants share).
THEOREM Isolation == Spec => []TenantIsolation
BY RuleCacheInvariant, PTL DEF RuleCacheInv

\* What an event is evaluated with is what compiled of one version of its
\* tenant's rules, though they are stored, read and cached in separate steps.
THEOREM OnlyWholeSets == Spec => []WholeSets
BY RuleCacheInvariant, PTL DEF RuleCacheInv

----------------------------------------------------------------------------
(***************************************************************************)
(* Requests that do not overlap: what they find, and what a refresh does.  *)
(***************************************************************************)

\* The requests at work.
Running == {r \in Request : pc[r] # "idle"}

\* Of requests that do not overlap one is at work, and a flight has somebody who
\* waits for it.
AloneOK ==
    /\ \A q, r \in Running : q = r
    /\ \A t \in Tenant : refresh[t].step # "none" =>
          \E r \in Request : pc[r] \in {"wait1", "wait2"} /\ event[r].tenant = t
    /\ load.step # "none" => \E r \in Request : pc[r] = "load" /\ event[r] = load.event

\* What a refresh that finds something has stored and cached.
EffectOK(t) ==
    /\ cache[t].asOf # 0 =>
          /\ cache[t].asOf \in DOMAIN versions[t]
          /\ Refreshed(t, cache[t].asOf) # {} => cache[t].rules = Refreshed(t, cache[t].asOf)
    /\ refresh[t].step = "set" /\ Refreshed(t, refresh[t].read) # {} =>
          compiled[t] = Refreshed(t, refresh[t].read)

\* All the while the tenant has had a rule that compiles for the event.
Lasting(r) ==
    LET t == event[r].tenant
    IN  \A i \in since[r]..Len(versions[t]) : Compilable(versions[t][i], event[r].has) # {}

\* What such a request can rely on.
FindsOK(r) ==
    Lasting(r) =>
        /\ pc[r] \in {"second", "wait2"} => compiled[event[r].tenant] # {}
        /\ pc[r] = "fresh2" => cache[event[r].tenant].rules # {}
        /\ pc[r] = "answer" => result[r] # {}

\* A request has arrived after its version of the table, and before the version
\* it loads.
SinceOK(r) == since[r] <= Len(versions[event[r].tenant])
LoadSince == load.step = "store" => \A r \in Request : pc[r] = "load" => since[r] <= load.read

FreshInv ==
    /\ \A t \in Tenant : versions[t][1] = {}
    /\ \A r \in Request : SinceOK(r)
    /\ ~overlap => /\ AloneOK /\ LoadSince
                   /\ \A t \in Tenant : EffectOK(t)
                   /\ faults = 0 => \A r \in Request : FindsOK(r)

\* A request that is at work is the only one, and flights are for it.
LEMMA Only ==
  ASSUME FreshInv, ~overlap, NEW r \in Running
  PROVE  /\ \A q \in Request \ {r} : pc[q] = "idle"
         /\ \A t \in Tenant : refresh[t].step # "none" =>
               pc[r] \in {"wait1", "wait2"} /\ event[r].tenant = t
         /\ load.step # "none" => pc[r] = "load" /\ event[r] = load.event
<1>1. AloneOK
  BY DEF FreshInv
<1>2. \A q \in Request \ {r} : pc[q] = "idle"
  BY <1>1 DEF AloneOK, Running
<1> QED
  BY <1>1, <1>2 DEF AloneOK

\* When nobody is at work there is no flight.
LEMMA Quiet ==
  ASSUME FreshInv, ~overlap, \A q \in Request : pc[q] = "idle"
  PROVE  load.step = "none" /\ \A t \in Tenant : refresh[t].step = "none"
  BY DEF FreshInv, AloneOK

LEMMA LenType ==
  ASSUME Core, NEW t \in Tenant
  PROVE  Len(versions[t]) \in Nat \ {0} /\ DOMAIN versions[t] = 1..Len(versions[t])
<1>1. versions[t] \in Seq(SUBSET Rule) /\ versions[t] # <<>>
  BY DEF Core, TypeOK, RulesOK
<1> QED
  BY <1>1

\* An edit adds a version; what lasts after it lasted before.
LEMMA EditFresh ==
  ASSUME Core, FreshInv, NEW t \in Tenant, NEW S, Edit(t, S)
  PROVE  FreshInv'
<1>1. /\ TypeOK /\ \A u \in Tenant : versions[u] \in Seq(SUBSET Rule) /\ versions[u] # <<>>
      /\ UNCHANGED <<compiled, cache, refresh, load, pc, event, since, result, faults, overlap>>
  BY DEF Core, TypeOK, RulesOK, Edit, memory, local
<1>2. ASSUME NEW u \in Tenant
      PROVE  /\ Len(versions[u]) \in Nat /\ Len(versions'[u]) \in Nat
             /\ 1 <= Len(versions[u]) /\ Len(versions[u]) <= Len(versions'[u])
             /\ DOMAIN versions[u] = 1..Len(versions[u])
             /\ DOMAIN versions'[u] = 1..Len(versions'[u])
             /\ \A i \in DOMAIN versions[u] : versions'[u][i] = versions[u][i]
  <2>1. versions'[u] = versions[u] \/ versions'[u] = Append(versions[u], S)
    BY <1>1 DEF Edit, TypeOK
  <2> DEFINE s == versions[u]
  <2>2. s \in Seq(SUBSET Rule) /\ s # <<>> /\ (versions'[u] = s \/ versions'[u] = Append(s, S))
    BY <1>1, <2>1
  <2> HIDE DEF s
  <2>3. /\ Len(s) \in Nat /\ 1 <= Len(s) /\ DOMAIN s = 1..Len(s)
        /\ Len(Append(s, S)) = Len(s) + 1 /\ DOMAIN Append(s, S) = 1..Len(s) + 1
        /\ \A i \in 1..Len(s) : Append(s, S)[i] = s[i]
    BY <2>2
  <2>4. /\ Len(s) \in Nat /\ Len(versions'[u]) \in Nat
        /\ 1 <= Len(s) /\ Len(s) <= Len(versions'[u])
        /\ DOMAIN s = 1..Len(s) /\ DOMAIN versions'[u] = 1..Len(versions'[u])
        /\ \A i \in DOMAIN s : versions'[u][i] = s[i]
    BY <2>2, <2>3
  <2> QED
    BY <2>4 DEF s
<1>3. \A u \in Tenant : versions'[u][1] = {}
  BY <1>2 DEF FreshInv
<1>4. \A r \in Request : event[r].tenant \in Tenant /\ since[r] \in Nat
  BY <1>1 DEF TypeOK, Event
<1>5. \A r \in Request : SinceOK(r)'
  BY <1>1, <1>2, <1>4 DEF FreshInv, SinceOK
<1>6. ASSUME NEW u \in Tenant, EffectOK(u)
      PROVE  EffectOK(u)'
  <2>1. \A i \in DOMAIN versions[u] : i \in DOMAIN versions'[u] /\ Refreshed(u, i)' = Refreshed(u, i)
    BY <1>2 DEF Refreshed, Compilable
  <2>2. refresh[u].step = "set" => refresh[u].read \in DOMAIN versions[u]
    BY DEF Core, RulesOK
  <2>3. cache[u].asOf # 0 => cache[u].asOf \in DOMAIN versions[u]
    BY <1>6 DEF EffectOK
  <2>4. cache[u].asOf # 0 => Refreshed(u, cache[u].asOf)' = Refreshed(u, cache[u].asOf)
    BY <1>1, <2>1, <2>3 DEF Refreshed
  <2>5. refresh[u].step = "set" => Refreshed(u, refresh[u].read)' = Refreshed(u, refresh[u].read)
    BY <1>1, <2>1, <2>2 DEF Refreshed
  <2> QED
    BY <1>1, <1>6, <2>1, <2>3, <2>4, <2>5 DEF EffectOK
<1>7. ASSUME NEW r \in Request, FindsOK(r)
      PROVE  FindsOK(r)'
  <2>1. Lasting(r)' => Lasting(r)
    <3> SUFFICES ASSUME Lasting(r)', NEW i \in since[r]..Len(versions[event[r].tenant])
                 PROVE  Compilable(versions[event[r].tenant][i], event[r].has) # {}
      BY DEF Lasting
    <3> DEFINE u == event[r].tenant
    <3>1. u \in Tenant /\ since[r] \in Nat
      BY <1>4
    <3> QED
      BY <1>1, <1>2, <1>4, <1>3, <3>1, SMTT(20) DEF Lasting, FreshInv, Compilable
  <2> QED
    BY <1>1, <1>7, <2>1 DEF FindsOK
<1>8. AloneOK => AloneOK'
  BY <1>1 DEF AloneOK, Running
<1>9. LoadSince => LoadSince'
  BY <1>1 DEF LoadSince
<1> QED
  BY <1>1, <1>3, <1>5, <1>6, <1>7, <1>8, <1>9 DEF FreshInv

\* The other steps leave the tables alone.
LEMMA KeepsVersions ==
  ASSUME FreshInv, UNCHANGED versions, \A r \in Request : SinceOK(r)',
         ~overlap' => /\ AloneOK' /\ LoadSince'
                      /\ \A t \in Tenant : EffectOK(t)'
                      /\ faults' = 0 => \A r \in Request : FindsOK(r)'
  PROVE  FreshInv'
  BY DEF FreshInv

LEMMA SinceKept ==
  ASSUME FreshInv, UNCHANGED versions, NEW r \in Request,
         event'[r] = event[r], since'[r] = since[r]
  PROVE  SinceOK(r)' /\ (Lasting(r)' <=> Lasting(r))
  BY DEF FreshInv, SinceOK, Lasting

LEMMA SinceForgot ==
  ASSUME Core, FreshInv, UNCHANGED versions, NEW R \in SUBSET Request, Forget(R)
  PROVE  \A r \in Request : SinceOK(r)'
<1>1. ASSUME NEW r \in R
      PROVE  SinceOK(r)'
  <2>1. event'[r] = NoEvent /\ since'[r] = 1 /\ NoEvent.tenant \in Tenant
    BY NoEventIsOne DEF Forget, Event
  <2>2. Len(versions[NoEvent.tenant]) \in Nat \ {0}
    BY <2>1, LenType
  <2> QED
    BY <2>1, <2>2 DEF SinceOK
<1>2. ASSUME NEW r \in Request \ R
      PROVE  SinceOK(r)'
  <2>1. event'[r] = event[r] /\ since'[r] = since[r]
    BY DEF Forget
  <2> QED
    BY <2>1, SinceKept
<1> QED
  BY <1>1, <1>2

\* A cache and a flight that are left alone keep what they are worth.
LEMMA EffectKept ==
  ASSUME UNCHANGED versions, NEW t \in Tenant, EffectOK(t),
         \/ cache'[t].asOf = 0
         \/ cache'[t].asOf = cache[t].asOf /\ cache'[t].rules = cache[t].rules,
         \/ refresh'[t].step # "set"
         \/ refresh'[t] = refresh[t] /\ compiled'[t] = compiled[t]
  PROVE  EffectOK(t)'
<1>1. cache'[t].asOf # 0 =>
         /\ cache'[t].asOf \in DOMAIN versions'[t]
         /\ Refreshed(t, cache[t].asOf)' # {} => cache'[t].rules = Refreshed(t, cache[t].asOf)'
  BY DEF EffectOK, Refreshed
<1>2. refresh'[t].step = "set" /\ Refreshed(t, refresh[t].read)' # {} =>
         compiled'[t] = Refreshed(t, refresh[t].read)'
  BY DEF EffectOK, Refreshed
<1> QED
  BY <1>1, <1>2 DEF EffectOK

\* A request that looks the rules up with the replica to itself gets some from
\* the cache, or starts a refresh.
LEMMA LookFresh ==
  ASSUME Core, FreshInv, NEW r \in Request, NEW t \in Tenant,
         NEW wait \in {"wait1", "wait2"}, ~overlap,
         \A q \in Request \ {r} : pc[q] = "idle",
         load.step = "none", \A u \in Tenant : refresh[u].step = "none",
         UNCHANGED <<versions, compiled, cache, load, faults>>,
         event' \in [Request -> Event], event'[r].tenant = t,
         Look(r, t, wait),
         faults = 0 /\ wait = "wait2" /\ Lasting(r)' => compiled[t] # {}
  PROVE  /\ AloneOK' /\ LoadSince'
         /\ \A u \in Tenant : EffectOK(u)'
         /\ faults' = 0 => \A q \in Request : FindsOK(q)'
<1>1. TypeOK
  BY DEF Core
<1>2. /\ \A q \in Request \ {r} : pc'[q] = "idle"
      /\ \/ pc'[r] = "answer" /\ result'[r] = cache[t].rules /\ cache[t].rules # {}
            /\ refresh' = refresh
         \/ pc'[r] = wait /\ refresh' = [refresh EXCEPT ![t].step = "list"]
  BY <1>1 DEF Look, Goto, Hit, TypeOK
<1>3. ASSUME NEW u \in Tenant
      PROVE  /\ refresh'[u].step \in {"none", "list"}
             /\ refresh'[u].step # "none" => u = t /\ pc'[r] = wait
  BY <1>1, <1>2 DEF TypeOK
<1>4. AloneOK'
  <2>1. \A u \in Tenant : refresh'[u].step # "none" =>
           \E q \in Request : pc'[q] \in {"wait1", "wait2"} /\ event'[q].tenant = u
    BY <1>3
  <2> QED
    BY <1>2, <2>1 DEF AloneOK, Running
<1>5. LoadSince'
  BY DEF LoadSince
<1>6. ASSUME NEW u \in Tenant
      PROVE  EffectOK(u)'
  <2>1. UNCHANGED <<versions, cache>> /\ refresh'[u].step # "set" /\ EffectOK(u)
    BY <1>3 DEF FreshInv
  <2> QED
    BY <2>1, EffectKept
<1>7. ASSUME faults' = 0, NEW q \in Request
      PROVE  FindsOK(q)'
  <2>1. CASE q # r
    BY <1>2, <2>1 DEF FindsOK
  <2>2. CASE q = r
    BY <1>2, <1>7, <2>2 DEF FindsOK
  <2> QED
    BY <2>1, <2>2
<1> QED
  BY <1>4, <1>5, <1>6, <1>7

LEMMA ReceiveFresh ==
  ASSUME Core, FreshInv, NEW r \in Request, Receive(r)
  PROVE  FreshInv'
<1>1. PICK e \in Event : /\ event' = [event EXCEPT ![r] = e]
                         /\ since' = [since EXCEPT ![r] = Len(versions[e.tenant])]
                         /\ Look(r, e.tenant, "wait1")
  BY DEF Receive
<1>2. /\ TypeOK /\ e.tenant \in Tenant /\ pc[r] = "idle"
      /\ overlap' = (overlap \/ \E q \in Request : pc[q] # "idle")
      /\ UNCHANGED <<versions, compiled, cache, load, faults>>
  BY DEF Core, Event, Receive
<1>3. /\ event' \in [Request -> Event] /\ event'[r].tenant = e.tenant
      /\ since'[r] = Len(versions[e.tenant])
      /\ \A q \in Request \ {r} : event'[q] = event[q] /\ since'[q] = since[q]
  BY <1>1, <1>2 DEF TypeOK
<1>4. ASSUME NEW q \in Request
      PROVE  SinceOK(q)'
  <2>1. CASE q # r
    BY <1>2, <1>3, <2>1, SinceKept
  <2>2. CASE q = r
    <3>1. Len(versions[e.tenant]) \in Nat
      BY <1>2, LenType
    <3> QED
      BY <1>2, <1>3, <2>2, <3>1 DEF SinceOK
  <2> QED
    BY <2>1, <2>2
<1>5. ASSUME ~overlap'
      PROVE  /\ AloneOK' /\ LoadSince'
             /\ \A t \in Tenant : EffectOK(t)'
             /\ faults' = 0 => \A q \in Request : FindsOK(q)'
  <2>1. ~overlap /\ \A q \in Request : pc[q] = "idle"
    BY <1>2, <1>5
  <2>2. load.step = "none" /\ \A u \in Tenant : refresh[u].step = "none"
    BY <2>1, Quiet
  <2> QED
    BY <1>1, <1>2, <1>3, <2>1, <2>2, LookFresh
<1> QED
  BY <1>2, <1>4, <1>5, KeepsVersions

LEMMA LookAgainFresh ==
  ASSUME Core, FreshInv, NEW r \in Request, LookAgain(r)
  PROVE  FreshInv'
<1>1. /\ TypeOK /\ event[r].tenant \in Tenant /\ pc[r] = "second" /\ r \in Running
      /\ Look(r, event[r].tenant, "wait2")
      /\ UNCHANGED <<versions, compiled, cache, load, event, since, faults, overlap>>
  BY DEF Core, TypeOK, Event, LookAgain, bounds, Running
<1>2. \A q \in Request : SinceOK(q)' /\ (Lasting(q)' <=> Lasting(q))
  BY <1>1, SinceKept
<1>3. ASSUME ~overlap
      PROVE  /\ AloneOK' /\ LoadSince'
             /\ \A t \in Tenant : EffectOK(t)'
             /\ faults' = 0 => \A q \in Request : FindsOK(q)'
  <2>1. /\ \A q \in Request \ {r} : pc[q] = "idle"
        /\ load.step = "none" /\ \A u \in Tenant : refresh[u].step = "none"
    <3>1. \A u \in Tenant : refresh[u].step # "none" => pc[r] \in {"wait1", "wait2"}
      BY <1>1, <1>3, Only
    <3>2. load.step # "none" => pc[r] = "load"
      BY <1>1, <1>3, Only
    <3> QED
      BY <1>1, <1>3, <3>1, <3>2, Only
  <2>2. faults = 0 /\ Lasting(r)' => compiled[event[r].tenant] # {}
    BY <1>1, <1>2, <1>3 DEF FreshInv, FindsOK
  <2>3. event' \in [Request -> Event] /\ event'[r].tenant = event[r].tenant
    BY <1>1 DEF TypeOK
  <2> QED
    BY <1>1, <1>3, <2>1, <2>2, <2>3, LookFresh
<1> QED
  BY <1>1, <1>2, <1>3, KeepsVersions

LEMMA RefreshListFresh ==
  ASSUME Core, FreshInv, NEW t \in Tenant, RefreshList(t)
  PROVE  FreshInv'
<1>1. /\ TypeOK /\ refresh[t].step = "list"
      /\ UNCHANGED <<versions, compiled, cache, load, pc, event, since, result, faults, overlap>>
  BY DEF Core, RefreshList, local, bounds
<1>2. /\ refresh'[t].step = "store" /\ refresh'[t].read = Len(versions[t])
      /\ \A u \in Tenant \ {t} : refresh'[u] = refresh[u]
  BY <1>1 DEF RefreshList, TypeOK
<1>3. \A q \in Request : SinceOK(q)' /\ (Lasting(q)' <=> Lasting(q))
  BY <1>1, SinceKept
<1>4. AloneOK => AloneOK'
  BY <1>1, <1>2 DEF AloneOK, Running
<1>5. LoadSince => LoadSince'
  BY <1>1 DEF LoadSince
<1>6. ASSUME NEW u \in Tenant, EffectOK(u)
      PROVE  EffectOK(u)'
  <2>1. CASE u # t
    BY <1>1, <1>2, <1>6, <2>1, EffectKept
  <2>2. CASE u = t
    BY <1>1, <1>2, <1>6, <2>2, EffectKept
  <2> QED
    BY <2>1, <2>2
<1>7. ASSUME NEW q \in Request, FindsOK(q)
      PROVE  FindsOK(q)'
  BY <1>1, <1>3, <1>7 DEF FindsOK
<1> QED
  BY <1>1, <1>3, <1>4, <1>5, <1>6, <1>7, KeepsVersions DEF FreshInv

\* The refresh stores every rule it has read, when all are constants; and what
\* rulesByTrigger has is never replaced by nothing.
LEMMA RefreshStoreFresh ==
  ASSUME Core, FreshInv, NEW t \in Tenant, RefreshStore(t)
  PROVE  FreshInv'
<1> DEFINE S == Compilable(versions[t][refresh[t].read], FALSE)
<1>1. /\ TypeOK /\ refresh[t].step = "store" /\ refresh[t].read \in DOMAIN versions[t]
      /\ UNCHANGED <<versions, cache, load, pc, event, since, result, faults, overlap>>
  BY DEF Core, RulesOK, RefreshStore, local, bounds
<1>2. /\ refresh'[t].step = "set" /\ refresh'[t].read = refresh[t].read
      /\ \A u \in Tenant \ {t} : refresh'[u] = refresh[u]
  BY <1>1 DEF RefreshStore, TypeOK
<1>3. /\ S # {} => compiled'[t] = S
      /\ S = {} => compiled'[t] = compiled[t]
      /\ \A u \in Tenant \ {t} : compiled'[u] = compiled[u]
  BY <1>1 DEF RefreshStore, RuleKey, Store, TypeOK
<1>4. \A q \in Request : SinceOK(q)' /\ (Lasting(q)' <=> Lasting(q))
  BY <1>1, SinceKept
<1>5. AloneOK => AloneOK'
  BY <1>1, <1>2 DEF AloneOK, Running
<1>6. LoadSince => LoadSince'
  BY <1>1 DEF LoadSince
<1>7. ASSUME NEW u \in Tenant, EffectOK(u)
      PROVE  EffectOK(u)'
  <2>1. CASE u # t
    BY <1>1, <1>2, <1>3, <1>7, <2>1, EffectKept
  <2>2. CASE u = t
    <3>1. S = Refreshed(t, refresh[t].read) /\ S = Refreshed(t, refresh[t].read)'
      BY <1>1, <1>2 DEF Refreshed
    <3>2. cache[t].asOf # 0 => Refreshed(t, cache[t].asOf)' = Refreshed(t, cache[t].asOf)
      BY <1>1 DEF Refreshed
    <3> QED
      BY <1>1, <1>2, <1>3, <1>7, <2>2, <3>1, <3>2 DEF EffectOK
  <2> QED
    BY <2>1, <2>2
<1>8. ASSUME NEW q \in Request, FindsOK(q)
      PROVE  FindsOK(q)'
  <2>1. event[q].tenant \in Tenant
    BY <1>1 DEF TypeOK, Event
  <2>2. compiled[event[q].tenant] # {} => compiled'[event[q].tenant] # {}
    BY <1>3, <2>1
  <2> QED
    BY <1>1, <1>4, <1>8, <2>2 DEF FindsOK
<1> QED
  BY <1>1, <1>4, <1>5, <1>6, <1>7, <1>8, KeepsVersions DEF FreshInv

LEMMA RefreshSetFresh ==
  ASSUME Core, FreshInv, NEW t \in Tenant, RefreshSet(t)
  PROVE  FreshInv'
<1>1. /\ TypeOK /\ refresh[t].step = "set" /\ refresh[t].read \in DOMAIN versions[t]
      /\ UNCHANGED <<versions, compiled, load, event, since, result, faults, overlap>>
  BY DEF Core, RulesOK, RefreshSet, bounds
<1>2. /\ refresh'[t].step = "none" /\ cache'[t].rules = compiled[t]
      /\ cache'[t].asOf = refresh[t].read
      /\ \A u \in Tenant \ {t} : refresh'[u] = refresh[u] /\ cache'[u] = cache[u]
  BY <1>1 DEF RefreshSet, TypeOK, NoRefresh, RuleKey
<1>3. \A q \in Request :
         pc'[q] = IF q \notin Waiting(t) THEN pc[q]
                  ELSE IF pc[q] = "wait1" THEN "fresh1" ELSE "fresh2"
  BY DEF RefreshSet, Wake
<1>4. \A q \in Request : SinceOK(q)' /\ (Lasting(q)' <=> Lasting(q))
  BY <1>1, SinceKept
<1>5. ASSUME ~overlap
      PROVE  /\ AloneOK' /\ LoadSince'
             /\ \A u \in Tenant : EffectOK(u)'
             /\ faults' = 0 => \A q \in Request : FindsOK(q)'
  <2>1. PICK r \in Running : pc[r] \in {"wait1", "wait2"} /\ event[r].tenant = t
    BY <1>1, <1>5 DEF FreshInv, AloneOK, Running
  <2>2. /\ \A q \in Request \ {r} : pc[q] = "idle"
        /\ \A u \in Tenant : refresh[u].step # "none" => event[r].tenant = u
        /\ load.step = "none" /\ r \in Request
    <3>1. load.step # "none" => pc[r] = "load"
      BY <1>5, Only
    <3> QED
      BY <1>5, <2>1, <3>1, Only DEF Running
  <2>3. /\ \A q \in Request \ {r} : pc'[q] = "idle"
        /\ pc'[r] = IF pc[r] = "wait1" THEN "fresh1" ELSE "fresh2"
    BY <1>3, <2>1, <2>2 DEF Waiting
  <2>4. \A u \in Tenant : refresh'[u].step = "none"
    BY <1>2, <2>1, <2>2
  <2>5. AloneOK' /\ LoadSince'
    BY <1>1, <2>2, <2>3, <2>4 DEF AloneOK, Running, LoadSince
  <2>6. ASSUME NEW u \in Tenant
        PROVE  EffectOK(u)'
    <3>1. EffectOK(u)
      BY <1>5 DEF FreshInv
    <3> QED
      <4>1. CASE u # t
        BY <1>1, <1>2, <2>4, <3>1, <4>1, EffectKept
      <4>2. CASE u = t
        <5>1. PICK i \in DOMAIN versions[t] : i = refresh[t].read /\ i = cache'[t].asOf
          BY <1>1, <1>2
        <5>2. Refreshed(t, i)' = Refreshed(t, i)
          BY <1>1 DEF Refreshed
        <5>3. Refreshed(t, i) # {} => compiled[t] = Refreshed(t, i)
          BY <1>1, <3>1, <4>2, <5>1 DEF EffectOK
        <5>4. Refreshed(t, cache[t].asOf)' = Refreshed(t, i)
          BY <5>1, <5>2 DEF Refreshed
        <5> QED
          BY <1>1, <1>2, <2>4, <4>2, <5>1, <5>3, <5>4 DEF EffectOK
      <4> QED
        BY <4>1, <4>2
  <2>7. ASSUME faults' = 0, NEW q \in Request
        PROVE  FindsOK(q)'
    <3>1. FindsOK(q)
      BY <1>1, <1>5, <2>7 DEF FreshInv
    <3>2. CASE q # r
      BY <2>3, <3>2 DEF FindsOK
    <3>3. CASE q = r
      BY <1>1, <1>2, <1>4, <2>1, <2>3, <3>1, <3>3 DEF FindsOK
    <3> QED
      BY <3>2, <3>3
  <2> QED
    BY <2>5, <2>6, <2>7
<1> QED
  BY <1>1, <1>4, <1>5, KeepsVersions

\* What a failed or restarted flight leaves needs no more than this: nobody is in
\* a flight, and the caches are what they were or empty.
LEMMA NobodyWaits ==
  ASSUME FreshInv, ~overlap, UNCHANGED versions, load'.step = "none",
         \A u \in Tenant : refresh'[u].step = "none",
         \A u \in Tenant : \/ cache'[u].asOf = 0
                           \/ cache'[u].asOf = cache[u].asOf /\ cache'[u].rules = cache[u].rules,
         \A q \in Request : pc'[q] # "idle" => pc[q] # "idle"
  PROVE  AloneOK' /\ LoadSince' /\ \A u \in Tenant : EffectOK(u)'
<1>1. AloneOK'
  BY DEF FreshInv, AloneOK, Running
<1>2. LoadSince'
  BY DEF LoadSince
<1>3. ASSUME NEW u \in Tenant
      PROVE  EffectOK(u)'
  <2>1. EffectOK(u) /\ refresh'[u].step # "set"
    BY DEF FreshInv
  <2> QED
    BY <2>1, EffectKept
<1> QED
  BY <1>1, <1>2, <1>3

LEMMA RefreshFailFresh ==
  ASSUME Core, FreshInv, NEW t \in Tenant, RefreshFail(t)
  PROVE  FreshInv'
<1>1. /\ TypeOK /\ refresh[t].step = "list" /\ faults' # 0
      /\ UNCHANGED <<versions, compiled, cache, load, overlap>>
  BY DEF Core, RefreshFail, Fault, TypeOK
<1>2. /\ refresh'[t].step = "none"
      /\ \A u \in Tenant \ {t} : refresh'[u] = refresh[u]
      /\ \A q \in Request : pc'[q] # "idle" => pc[q] # "idle"
  BY <1>1 DEF RefreshFail, TypeOK, NoRefresh, Waiting
<1>3. \A q \in Request : SinceOK(q)'
  <2>1. {r \in Waiting(t) : pc[r] = "wait1"} \in SUBSET Request
    BY DEF Waiting
  <2> QED
    BY <1>1, <2>1, SinceForgot DEF RefreshFail
<1>4. ASSUME ~overlap
      PROVE  AloneOK' /\ LoadSince' /\ \A u \in Tenant : EffectOK(u)'
  <2>1. PICK r \in Running : pc[r] \in {"wait1", "wait2"} /\ event[r].tenant = t
    BY <1>1, <1>4 DEF FreshInv, AloneOK, Running
  <2>2. \A u \in Tenant : refresh[u].step # "none" => event[r].tenant = u
    BY <1>4, <2>1, Only
  <2>3. load.step # "none" => pc[r] = "load"
    BY <1>4, <2>1, Only
  <2>4. \A u \in Tenant : refresh'[u].step = "none"
    BY <1>2, <2>1, <2>2
  <2> QED
    BY <1>1, <1>2, <1>4, <2>1, <2>3, <2>4, NobodyWaits
<1> QED
  BY <1>1, <1>3, <1>4, KeepsVersions

\* The request that reads the entry again has it to itself.
LEMMA RereadFresh ==
  ASSUME Core, FreshInv, NEW r \in Request, Reread(r)
  PROVE  FreshInv'
<1> DEFINE rules == cache[event[r].tenant].rules
<1>1. /\ TypeOK /\ pc[r] \in {"fresh1", "fresh2"} /\ r \in Running
      /\ UNCHANGED <<versions, compiled, cache, refresh, event, since, faults, overlap>>
  BY DEF Core, Reread, Running, bounds
<1>2. /\ \A q \in Request \ {r} : pc'[q] = pc[q]
      /\ \/ /\ pc'[r] = "load"
            /\ load' = IF load.step # "none" THEN load
                       ELSE [step |-> "list", event |-> event[r], read |-> 0]
         \/ /\ pc'[r] = "answer" /\ result'[r] = rules /\ load' = load
            /\ pc[r] = "fresh2" \/ rules # {}
  BY <1>1 DEF Reread, Goto, TypeOK
<1>3. \A q \in Request : SinceOK(q)' /\ (Lasting(q)' <=> Lasting(q))
  BY <1>1, SinceKept
<1>4. ASSUME ~overlap
      PROVE  /\ AloneOK' /\ LoadSince'
             /\ \A u \in Tenant : EffectOK(u)'
             /\ faults' = 0 => \A q \in Request : FindsOK(q)'
  <2>1. /\ \A q \in Request \ {r} : pc'[q] = "idle"
        /\ load.step = "none" /\ \A u \in Tenant : refresh[u].step = "none"
    <3>1. \A u \in Tenant : refresh[u].step # "none" => pc[r] \in {"wait1", "wait2"}
      BY <1>1, <1>4, Only
    <3>2. load.step # "none" => pc[r] = "load"
      BY <1>1, <1>4, Only
    <3> QED
      BY <1>1, <1>2, <1>4, <3>1, <3>2, Only
  <2>2. AloneOK'
    <3>1. load'.step # "none" => pc'[r] = "load" /\ event'[r] = load'.event
      BY <1>1, <1>2, <2>1
    <3> QED
      BY <1>1, <2>1, <3>1 DEF AloneOK, Running
  <2>3. LoadSince'
    BY <1>2, <2>1 DEF LoadSince
  <2>4. ASSUME NEW u \in Tenant
        PROVE  EffectOK(u)'
    BY <1>1, <1>4, EffectKept DEF FreshInv
  <2>5. ASSUME faults' = 0, NEW q \in Request
        PROVE  FindsOK(q)'
    <3>1. FindsOK(r)
      BY <1>1, <1>4, <2>5 DEF FreshInv
    <3>2. CASE q # r
      BY <2>1, <3>2 DEF FindsOK
    <3>3. CASE q = r
      BY <1>1, <1>2, <1>3, <3>1, <3>3 DEF FindsOK
    <3> QED
      BY <3>2, <3>3
  <2> QED
    BY <2>2, <2>3, <2>4, <2>5
<1> QED
  BY <1>1, <1>3, <1>4, KeepsVersions

LEMMA LoadListFresh ==
  ASSUME Core, FreshInv, LoadList
  PROVE  FreshInv'
<1>1. /\ TypeOK /\ load.step = "list"
      /\ UNCHANGED <<versions, compiled, cache, refresh, pc, event, since, result, faults, overlap>>
  BY DEF Core, LoadList, local, bounds
<1>2. /\ load'.step = "store" /\ load'.event = load.event
      /\ load'.read = Len(versions[load.event.tenant])
  BY <1>1 DEF LoadList, TypeOK
<1>3. \A q \in Request : SinceOK(q)' /\ (Lasting(q)' <=> Lasting(q))
  BY <1>1, SinceKept
<1>4. AloneOK => AloneOK'
  BY <1>1, <1>2 DEF AloneOK, Running
<1>5. AloneOK => LoadSince'
  <2> SUFFICES ASSUME AloneOK, NEW q \in Request, pc[q] = "load"
               PROVE  since[q] <= load'.read
    BY <1>1 DEF LoadSince
  <2>1. event[q] = load.event
    BY <1>1 DEF AloneOK, Running
  <2> QED
    BY <1>2, <2>1 DEF FreshInv, SinceOK
<1>6. ASSUME NEW u \in Tenant, EffectOK(u)
      PROVE  EffectOK(u)'
  BY <1>1, <1>6, EffectKept
<1>7. ASSUME NEW q \in Request, FindsOK(q)
      PROVE  FindsOK(q)'
  BY <1>1, <1>3, <1>7 DEF FindsOK
<1> QED
  BY <1>1, <1>3, <1>4, <1>5, <1>6, <1>7, KeepsVersions DEF FreshInv

\* The load compiles the rules in the event's own environment: what has lasted
\* since the request came is there.
LEMMA LoadStoreFresh ==
  ASSUME Core, FreshInv, LoadStore
  PROVE  FreshInv'
<1> DEFINE t == load.event.tenant
           S == Compilable(versions[t][load.read], load.event.has)
<1>1. /\ TypeOK /\ t \in Tenant /\ load.step = "store" /\ load.read \in DOMAIN versions[t]
      /\ UNCHANGED <<versions, cache, refresh, event, since, result, faults, overlap>>
  BY DEF Core, TypeOK, Event, LoadStore, LoadOK, bounds
<1>2. /\ S # {} => compiled'[t] = S
      /\ \A q \in Request : pc'[q] = IF pc[q] = "load" THEN "second" ELSE pc[q]
  BY <1>1 DEF LoadStore, EndLoad, NoLoad, RuleKey, Store, TypeOK
<1>3. \A q \in Request : SinceOK(q)' /\ (Lasting(q)' <=> Lasting(q))
  BY <1>1, SinceKept
<1>4. load'.step = "none"
  BY DEF LoadStore, EndLoad, NoLoad
<1>5. ASSUME ~overlap
      PROVE  /\ AloneOK' /\ LoadSince'
             /\ \A u \in Tenant : EffectOK(u)'
             /\ faults' = 0 => \A q \in Request : FindsOK(q)'
  <2>1. PICK r \in Running : pc[r] = "load" /\ event[r] = load.event
    BY <1>1, <1>5 DEF FreshInv, AloneOK, Running
  <2>2. \A q \in Request \ {r} : pc[q] = "idle"
    BY <1>5, <2>1, Only
  <2>3. \A u \in Tenant : refresh'[u].step = "none"
    BY <1>1, <1>5, <2>1, Only
  <2>4. AloneOK' /\ LoadSince' /\ \A u \in Tenant : EffectOK(u)'
    BY <1>1, <1>2, <1>4, <1>5, <2>3, NobodyWaits
  <2>5. ASSUME faults' = 0, NEW q \in Request
        PROVE  FindsOK(q)'
    <3>1. CASE q # r
      BY <1>2, <2>2, <3>1 DEF FindsOK
    <3>2. CASE q = r
      <4> SUFFICES ASSUME Lasting(r) PROVE compiled'[t] # {}
        BY <1>1, <1>2, <1>3, <2>1, <3>2 DEF FindsOK
      <4>1. since[r] <= load.read /\ since[r] \in Nat
        BY <1>1, <1>5, <2>1 DEF FreshInv, LoadSince, TypeOK, Running
      <4>2. load.read \in since[r]..Len(versions[t])
        BY <1>1, <4>1, LenType
      <4>3. S # {}
        BY <2>1, <4>2 DEF Lasting
      <4>4. compiled'[t] = S
        BY <1>1, <4>3 DEF LoadStore, RuleKey, Store, TypeOK
      <4> QED
        BY <4>3, <4>4
    <3> QED
      BY <3>1, <3>2
  <2> QED
    BY <2>4, <2>5
<1> QED
  BY <1>1, <1>3, <1>5, KeepsVersions

LEMMA LoadFailFresh ==
  ASSUME Core, FreshInv, LoadFail
  PROVE  FreshInv'
<1>1. /\ TypeOK /\ load.step = "list" /\ faults' # 0 /\ load'.step = "none"
      /\ UNCHANGED <<versions, compiled, cache, refresh, overlap>>
      /\ \A q \in Request : pc'[q] # "idle" => pc[q] # "idle"
  BY DEF Core, LoadFail, Fault, EndLoad, NoLoad, TypeOK
<1>2. \A q \in Request : SinceOK(q)'
  BY <1>1, SinceForgot DEF LoadFail
<1>3. ASSUME ~overlap
      PROVE  AloneOK' /\ LoadSince' /\ \A u \in Tenant : EffectOK(u)'
  <2>1. PICK r \in Running : pc[r] = "load"
    BY <1>1, <1>3 DEF FreshInv, AloneOK, Running
  <2>2. \A u \in Tenant : refresh'[u].step = "none"
    BY <1>1, <1>3, <2>1, Only
  <2> QED
    BY <1>1, <1>3, <2>2, NobodyWaits
<1> QED
  BY <1>1, <1>2, <1>3, KeepsVersions

LEMMA AnswerFresh ==
  ASSUME Core, FreshInv, NEW r \in Request, Answer(r)
  PROVE  FreshInv'
<1>1. /\ TypeOK /\ pc[r] = "answer" /\ r \in Running /\ pc'[r] = "idle" /\ Forget({r})
      /\ UNCHANGED <<versions, compiled, cache, refresh, load, faults, overlap>>
      /\ \A q \in Request \ {r} : pc'[q] = pc[q]
  BY DEF Core, Answer, Running, memory, bounds, Goto, TypeOK
<1>2. \A q \in Request : SinceOK(q)'
  BY <1>1, SinceForgot
<1>3. ASSUME ~overlap
      PROVE  /\ AloneOK' /\ LoadSince' /\ \A u \in Tenant : EffectOK(u)'
             /\ \A q \in Request : FindsOK(q)'
  <2>1. /\ \A q \in Request \ {r} : pc[q] = "idle"
        /\ load.step = "none" /\ \A u \in Tenant : refresh[u].step = "none"
    <3>1. \A u \in Tenant : refresh[u].step # "none" => pc[r] \in {"wait1", "wait2"}
      BY <1>1, <1>3, Only
    <3>2. load.step # "none" => pc[r] = "load"
      BY <1>1, <1>3, Only
    <3> QED
      BY <1>1, <1>3, <3>1, <3>2, Only
  <2>2. \A q \in Request : pc'[q] = "idle"
    BY <1>1, <2>1
  <2>3. AloneOK' /\ LoadSince' /\ \A u \in Tenant : EffectOK(u)'
    BY <1>1, <1>3, <2>1, <2>2, NobodyWaits
  <2> QED
    BY <2>2, <2>3 DEF FindsOK
<1> QED
  BY <1>1, <1>2, <1>3, KeepsVersions

LEMMA ExpireFresh ==
  ASSUME Core, FreshInv, NEW t \in Tenant, Expire(t)
  PROVE  FreshInv'
<1>1. UNCHANGED <<versions, compiled, refresh, load, pc, event, since, result, faults, overlap>>
  BY DEF Expire, local
<1>2. \A u \in Tenant : cache'[u].rules = cache[u].rules /\ cache'[u].asOf = cache[u].asOf
  BY DEF Core, TypeOK, Expire
<1>3. \A q \in Request : SinceOK(q)' /\ (Lasting(q)' <=> Lasting(q))
  BY <1>1, SinceKept
<1>4. (AloneOK => AloneOK') /\ (LoadSince => LoadSince')
  BY <1>1 DEF AloneOK, Running, LoadSince
<1>5. ASSUME NEW u \in Tenant, EffectOK(u)
      PROVE  EffectOK(u)'
  BY <1>1, <1>2, <1>5, EffectKept
<1>6. ASSUME NEW q \in Request, FindsOK(q)
      PROVE  FindsOK(q)'
  <2>1. event[q].tenant \in Tenant
    BY DEF Core, TypeOK, Event
  <2> QED
    BY <1>1, <1>2, <1>3, <1>6, <2>1 DEF FindsOK
<1> QED
  BY <1>1, <1>3, <1>4, <1>5, <1>6, KeepsVersions DEF FreshInv

LEMMA RestartFresh ==
  ASSUME Core, FreshInv, Restart
  PROVE  FreshInv'
<1>1. /\ faults' # 0 /\ load'.step = "none" /\ UNCHANGED <<versions, overlap>>
      /\ \A u \in Tenant : refresh'[u].step = "none" /\ cache'[u].asOf = 0
      /\ \A q \in Request : pc'[q] = "idle"
  BY DEF Core, TypeOK, Restart, Fault, NoLoad, NoRefresh, NoEntry
<1>2. \A q \in Request : SinceOK(q)'
  BY <1>1, SinceForgot DEF Restart
<1>3. ~overlap => AloneOK' /\ LoadSince' /\ \A u \in Tenant : EffectOK(u)'
  BY <1>1, NobodyWaits
<1> QED
  BY <1>1, <1>2, <1>3, KeepsVersions

LEMMA NextFresh == Core /\ FreshInv /\ [Next]_vars => FreshInv'
<1> SUFFICES ASSUME Core, FreshInv, [Next]_vars PROVE FreshInv'
  OBVIOUS
<1>1. CASE UNCHANGED vars
  <2>1. UNCHANGED <<versions, compiled, cache, refresh, load, pc, event, since, result,
                    faults, overlap>>
    BY <1>1 DEF vars, memory, local, bounds
  <2>2. \A q \in Request : SinceOK(q)' /\ (Lasting(q)' <=> Lasting(q))
    BY <2>1, SinceKept
  <2>3. (AloneOK => AloneOK') /\ (LoadSince => LoadSince')
    BY <2>1 DEF AloneOK, Running, LoadSince
  <2>4. ASSUME NEW u \in Tenant, EffectOK(u)
        PROVE  EffectOK(u)'
    BY <2>1, <2>4, EffectKept
  <2>5. ASSUME NEW q \in Request, FindsOK(q)
        PROVE  FindsOK(q)'
    BY <2>1, <2>2, <2>5 DEF FindsOK
  <2> QED
    BY <2>1, <2>2, <2>3, <2>4, <2>5, KeepsVersions DEF FreshInv
<1>2. ASSUME NEW t \in Tenant, CreateRule(t) \/ UpdateRule(t) \/ DeleteRule(t)
      PROVE  FreshInv'
  BY <1>2, EditFresh DEF CreateRule, UpdateRule, DeleteRule
<1>3. ASSUME NEW t \in Tenant, RefreshStep(t) \/ RefreshFail(t) \/ Expire(t)
      PROVE  FreshInv'
  BY <1>3, RefreshListFresh, RefreshStoreFresh, RefreshSetFresh, RefreshFailFresh, ExpireFresh
     DEF RefreshStep
<1>4. ASSUME NEW r \in Request, Receive(r) \/ RequestStep(r)
      PROVE  FreshInv'
  BY <1>4, ReceiveFresh, LookAgainFresh, RereadFresh, AnswerFresh DEF RequestStep
<1>5. CASE LoadStep \/ LoadFail \/ Restart
  BY <1>5, LoadListFresh, LoadStoreFresh, LoadFailFresh, RestartFresh DEF LoadStep
<1>6. CASE Rest
  BY <1>1, <1>6 DEF Rest
<1> QED
  BY <1>1, <1>2, <1>3, <1>4, <1>5, <1>6 DEF Next

LEMMA InitFresh == Init => FreshInv
<1> SUFFICES ASSUME Init PROVE FreshInv
  OBVIOUS
<1> USE DEF Init
<1>1. \A t \in Tenant : versions[t] = <<{}>> /\ versions[t][1] = {} /\ Len(versions[t]) = 1
  OBVIOUS
<1>2. NoEvent.tenant \in Tenant
  BY NoEventIsOne DEF Event
<1>3. \A r \in Request : SinceOK(r)
  BY <1>1, <1>2 DEF SinceOK
<1>4. AloneOK /\ LoadSince
  BY DEF AloneOK, LoadSince, Running, NoRefresh, NoLoad
<1>5. \A t \in Tenant : EffectOK(t)
  BY DEF EffectOK, NoEntry, NoRefresh
<1>6. \A r \in Request : FindsOK(r)
  BY DEF FindsOK
<1> QED
  BY <1>1, <1>3, <1>4, <1>5, <1>6 DEF FreshInv

\* What a request that has the replica to itself relies on, and what a refresh that
\* finds something caches, holds in every reachable state.
THEOREM FreshInvariant == Spec => []FreshInv
<1>1. Spec => []Core
  BY InitCore, NextCore, PTL DEF Spec
<1> QED
  BY <1>1, InitFresh, NextFresh, PTL DEF Spec

\* A request alone on the replica that meets no fault finds a rule when its
\* tenant has had one for it all the while, wherever BatchEvaluate finds it: in
\* the cache, after a refresh or after a load of its own.
THEOREM RulesAreFound == Spec => []OwnRulesFound
<1>1. FreshInv => OwnRulesFound
  <2> SUFFICES ASSUME FreshInv, NEW r \in Request, pc[r] = "answer", ~overlap, faults = 0,
                      \A i \in since[r]..Len(versions[event[r].tenant]) :
                         Compilable(versions[event[r].tenant][i], event[r].has) # {}
               PROVE  result[r] # {}
    BY DEF OwnRulesFound
  <2>1. Lasting(r) /\ FindsOK(r)
    BY DEF Lasting, FreshInv
  <2> QED
    BY <2>1 DEF FindsOK
<1> QED
  BY <1>1, FreshInvariant, PTL

\* Of requests that do not overlap: the rules refreshRuleSet caches are those its
\* hash is of, as they compile without attributes, though it stores them in
\* rulesByTrigger first and caches what it finds there - unless none compiles.
THEOREM RefreshesTakeEffect == Spec => []RefreshTakesEffect
<1>1. FreshInv => RefreshTakesEffect
  BY DEF FreshInv, EffectOK, RefreshTakesEffect
<1> QED
  BY <1>1, FreshInvariant, PTL
=============================================================================
