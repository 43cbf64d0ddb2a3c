------------------------- MODULE ProvisioningProofs -------------------------
(***************************************************************************)
(* Proofs about Provisioning, for any provisioners, slugs, hosts and bounds. *)
(*                                                                         *)
(* The argument: a call at work owns its id and its code, so what it writes *)
(* to Redis or commits touches no other tenant; what it has inserted follows *)
(* from the statement it is at; and a call that never overlapped another    *)
(* still sees, when it commits, what it looked up before.                   *)
(***************************************************************************)
EXTENDS Provisioning, TLAPS

Making(p) == step[p] \in {"look", "code", "tenant", "domain", "key", "cache", "commit"}
Drawn(p) == step[p] \in {"tenant", "domain", "key", "cache", "commit"}
Created(p) == step[p] = "commit" /\ job[p].op = "create"

\* What a call has inserted when it is at a statement.
Written(s) ==
    CASE s = "domain" -> {"tenant"}
      [] s = "key" -> {"tenant", "domain"}
      [] s \in {"cache", "commit"} -> {"tenant", "domain", "key"}
      [] OTHER -> {}

\* What a call that makes a tenant holds.
MakersOK ==
    \A p \in Provisioner :
        /\ id[p] # 0 <=> Making(p)
        /\ code[p] # 0 <=> Drawn(p)
        /\ written[p] = Written(step[p])
        /\ Making(p) => job[p].op \in {"create", "migrate"} /\ job[p].name \in Slug \cup {NoSlug}
        /\ step[p] = "cache" => job[p].op = "create"

\* Ids and codes belong to one call or one tenant each.
OwnersOK ==
    /\ \A p \in Provisioner : id[p] <= served /\ code[p] <= counter[TenantKey]
    /\ \A p \in Provisioner : id[p] \notin DOMAIN tenants
    /\ \A p, q \in Provisioner : id[p] = id[q] /\ id[p] # 0 => p = q
    /\ \A p, q \in Provisioner : code[p] = code[q] /\ code[p] # 0 => p = q
    /\ \A t \in DOMAIN tenants :
          /\ t <= served /\ tenants[t].code \in 1..counter[TenantKey]
          /\ \A p \in Provisioner : code[p] # tenants[t].code

\* A domain of the platform is verified and has no code; the tenants' own have distinct hosts.
HostsOK ==
    /\ \A d \in domains : d.host \notin CustomHost => d.verified /\ ~d.code
    /\ \A d, e \in domains : d.host = e.host /\ d.host \in CustomHost => d = e

\* What a call that verifies a domain has found.
VerifiersOK ==
    \A p \in Provisioner :
        /\ step[p] \in {"dns", "update"} =>
              job[p].name \in CustomHost /\ \E d \in domains : d.host = job[p].name
        /\ step[p] = "update" =>
              job[p].name \in published /\ \A d \in domains : d.host = job[p].name => d.code

\* What CacheTenant has written, and what is left when a call ends.
CachedOK ==
    /\ \A t \in cachedIds : t <= served
    /\ \A p \in Provisioner : step[p] = "look" => id[p] \notin cachedIds
    /\ \A p \in Provisioner : Created(p) =>
          /\ id[p] \in cachedIds
          /\ code[p] \in DOMAIN codeOwner /\ codeOwner[code[p]] = id[p]

\* Calls that never overlapped: what one looked up still holds.
AloneOK ==
    ~busy =>
        /\ \A p, q \in Provisioner : step[p] # "idle" /\ step[q] # "idle" => p = q
        /\ \A p \in Provisioner : Making(p) /\ step[p] # "look" =>
              \A t \in DOMAIN tenants :
                  IF job[p].op = "migrate"
                  THEN ~tenants[t].default
                  ELSE tenants[t].slug # job[p].name
        /\ \A p \in Provisioner : Created(p) => hostOwner[job[p].name] = id[p]

ProvisioningInv ==
    /\ TypeOK /\ MakersOK /\ OwnersOK /\ HostsOK /\ VerifiersOK /\ CachedOK /\ AloneOK
    /\ TenantWhole /\ TenantCodesDistinct /\ TenantsDistinct /\ RedisAgrees /\ VerifiedByRecord

USE EnvironmentAssumption, ProvisioningAssumption
USE DEF environment, redis, tables, cache, calls, vars

LEMMA CounterType ==
    ASSUME EnvironmentTypeOK
    PROVE  TenantKey \in Key /\ counter[TenantKey] \in Nat
    BY DEF EnvironmentTypeOK, Key, TenantKey

\* What a call that ends leaves of it.
LEMMA EndSets ==
    ASSUME TypeOK, NEW P \in SUBSET Provisioner, End(P)
    PROVE  /\ step' \in [Provisioner -> Step] /\ job' \in [Provisioner -> Job]
           /\ id' \in [Provisioner -> Id \cup {0}] /\ code' \in [Provisioner -> Nat]
           /\ written' \in [Provisioner -> SUBSET {"tenant", "domain", "key"}]
           /\ \A p \in P : step'[p] = "idle" /\ id'[p] = 0 /\ code'[p] = 0 /\ written'[p] = {}
           /\ \A p \in Provisioner \ P :
                 /\ step'[p] = step[p] /\ job'[p] = job[p] /\ id'[p] = id[p]
                 /\ code'[p] = code[p] /\ written'[p] = written[p]
    BY DEF TypeOK, End, Step, Job, Host, NoJob

\* Calls may end without a commit at any time, if what they left in Redis is known.
LEMMA EndKeeps ==
    ASSUME ProvisioningInv, NEW P \in SUBSET Provisioner, End(P),
           UNCHANGED <<redis, time, served, tables, cache, published, busy>>,
           faults' \in 0..MaxFaults, broken' \subseteq Id \cup {0}, broken \subseteq broken',
           \A p \in P : id[p] \in cachedIds => id[p] \in broken'
    PROVE  ProvisioningInv'
<1>. USE DEF ProvisioningInv
<1>. TypeOK  OBVIOUS
<1>e. /\ step' \in [Provisioner -> Step] /\ job' \in [Provisioner -> Job]
      /\ id' \in [Provisioner -> Id \cup {0}] /\ code' \in [Provisioner -> Nat]
      /\ written' \in [Provisioner -> SUBSET {"tenant", "domain", "key"}]
      /\ \A p \in P : step'[p] = "idle" /\ id'[p] = 0 /\ code'[p] = 0 /\ written'[p] = {}
      /\ \A p \in Provisioner \ P :
            /\ step'[p] = step[p] /\ job'[p] = job[p] /\ id'[p] = id[p]
            /\ code'[p] = code[p] /\ written'[p] = written[p]
    BY EndSets
<1>1. TypeOK'
    BY <1>e DEF TypeOK, EnvironmentTypeOK
<1>2. MakersOK'
    BY <1>e DEF MakersOK, Making, Drawn, Written
<1>3. OwnersOK'
    <2>1. EnvironmentTypeOK  BY DEF TypeOK
    <2>. QED  BY <1>e, <2>1, CounterType DEF OwnersOK, TypeOK, EnvironmentTypeOK, Id
<1>4. HostsOK' /\ VerifiersOK'
    BY <1>e DEF HostsOK, VerifiersOK
<1>5. CachedOK'
    BY <1>e DEF CachedOK, Created, TypeOK, Id
<1>6. AloneOK'
    BY <1>e DEF AloneOK, Making, Created
<1>7. TenantWhole' /\ TenantCodesDistinct' /\ TenantsDistinct' /\ VerifiedByRecord'
    BY DEF TenantWhole, ListDomains, TenantCodesDistinct, TenantsDistinct, VerifiedByRecord
<1>8. RedisAgrees'
    BY <1>e DEF TypeOK, Id, RedisAgrees, GetTenant, Range
<1>. QED  BY <1>1, <1>2, <1>3, <1>4, <1>5, <1>6, <1>7, <1>8

LEMMA LookKeeps ==
    ASSUME ProvisioningInv, NEW p \in Provisioner, Look(p)
    PROVE  ProvisioningInv'
<1>1. CASE Return(p)
    <2>1. TypeOK /\ id[p] \notin cachedIds
        BY DEF ProvisioningInv, CachedOK, Look
    <2>. QED  BY <1>1, <2>1, EndKeeps DEF Look, Return, TypeOK, EnvironmentTypeOK
<1>2. CASE Goto(p, "code") /\ UNCHANGED <<job, id, code, written>>
  <2>. USE DEF ProvisioningInv, Look
  <2>e. /\ step' \in [Provisioner -> Step] /\ step'[p] = "code" /\ step[p] = "look"
        /\ \A q \in Provisioner \ {p} : step'[q] = step[q]
    BY <1>2 DEF TypeOK, Goto, Step
  <2>1. TypeOK'
    BY <1>2, <2>e DEF TypeOK, EnvironmentTypeOK
  <2>2. MakersOK'
    BY <1>2, <2>e DEF MakersOK, Making, Drawn, Written
  <2>3. OwnersOK' /\ HostsOK'
    BY <1>2 DEF OwnersOK, HostsOK
  <2>4. VerifiersOK'
    BY <1>2, <2>e DEF VerifiersOK
  <2>5. CachedOK'
    BY <1>2, <2>e DEF CachedOK, Created
  <2>6. AloneOK'
    <3>1. \A t \in DOMAIN tenants :
            IF job[p].op = "migrate" THEN ~tenants[t].default ELSE tenants[t].slug # job[p].name
        BY <1>2, <2>e DEF DefaultTenants, WithSlug, Return, End, TypeOK
    <3>2. ASSUME ~busy, NEW q \in Provisioner, Making(q)', step'[q] # "look"
          PROVE  q = p
        BY <2>e, <3>2 DEF AloneOK, Making
    <3>. QED  BY <1>2, <2>e, <3>1, <3>2 DEF AloneOK, Making, Created
  <2>7. TenantWhole' /\ TenantCodesDistinct' /\ TenantsDistinct' /\ VerifiedByRecord'
    BY DEF TenantWhole, ListDomains, TenantCodesDistinct, TenantsDistinct, VerifiedByRecord
  <2>8. RedisAgrees'
    BY <1>2 DEF RedisAgrees, GetTenant
  <2>. QED  BY <2>1, <2>2, <2>3, <2>4, <2>5, <2>6, <2>7, <2>8
<1>. QED  BY <1>1, <1>2 DEF Look

\* A call without a tenant to make has no id.
LEMMA NoId ==
    ASSUME ProvisioningInv, NEW p \in Provisioner, ~Making(p)
    PROVE  id[p] = 0 /\ code[p] = 0 /\ id[p] \notin cachedIds
    BY DEF ProvisioningInv, MakersOK, Making, Drawn, TypeOK, Id

LEMMA FailKeeps ==
    ASSUME ProvisioningInv, NEW p \in Provisioner, FailCall(p)
    PROVE  ProvisioningInv'
<1>. TypeOK  BY DEF ProvisioningInv
<1>1. broken' \subseteq Id \cup {0} /\ broken \subseteq broken' /\ id[p] \in broken'
    BY DEF FailCall, Break, TypeOK
<1>2. faults' \in 0..MaxFaults
    BY DEF FailCall, Fault, TypeOK, EnvironmentTypeOK
<1>. QED  BY <1>1, <1>2, EndKeeps DEF FailCall, Return

LEMMA PanicKeeps ==
    ASSUME ProvisioningInv, NEW p \in Provisioner, PanicOnCode(p)
    PROVE  ProvisioningInv'
<1>. TypeOK  BY DEF ProvisioningInv
<1>1. PICK P \in SUBSET Provisioner : End(P) /\ Break(P)
    BY DEF PanicOnCode
<1>2. broken' \subseteq Id \cup {0} /\ broken \subseteq broken' /\ \A q \in P : id[q] \in broken'
    BY <1>1 DEF Break, TypeOK
<1>3. faults' \in 0..MaxFaults
    BY DEF PanicOnCode, TypeOK, EnvironmentTypeOK
<1>. QED  BY <1>1, <1>2, <1>3, EndKeeps DEF PanicOnCode

\* A call of VerifyDomain that goes on to step s.
LEMMA VerifyGoes ==
    ASSUME ProvisioningInv, NEW p \in Provisioner, NEW s \in {"dns", "update"},
           step[p] \in {"find", "dns"}, Goto(p, s),
           UNCHANGED <<environment, tables, cache, published, job, id, code, written, broken, busy>>,
           job[p].name \in CustomHost, \E d \in domains : d.host = job[p].name,
           s = "update" =>
               job[p].name \in published /\ \A d \in domains : d.host = job[p].name => d.code
    PROVE  ProvisioningInv'
<1>. USE DEF ProvisioningInv
<1>e. /\ step' \in [Provisioner -> Step] /\ step'[p] = s
      /\ \A q \in Provisioner \ {p} : step'[q] = step[q]
    BY DEF TypeOK, Goto, Step
<1>1. TypeOK'
    BY <1>e DEF TypeOK, EnvironmentTypeOK
<1>2. MakersOK'
    BY <1>e DEF MakersOK, Making, Drawn, Written
<1>3. OwnersOK' /\ HostsOK'
    BY DEF OwnersOK, HostsOK
<1>4. VerifiersOK'
    BY <1>e DEF VerifiersOK
<1>5. CachedOK'
    BY <1>e DEF CachedOK, Created
<1>6. AloneOK'
    BY <1>e DEF AloneOK, Making, Created
<1>7. TenantWhole' /\ TenantCodesDistinct' /\ TenantsDistinct' /\ VerifiedByRecord'
    BY DEF TenantWhole, ListDomains, TenantCodesDistinct, TenantsDistinct, VerifiedByRecord
<1>8. RedisAgrees'
    BY DEF RedisAgrees, GetTenant
<1>. QED  BY <1>1, <1>2, <1>3, <1>4, <1>5, <1>6, <1>7, <1>8

LEMMA VerifyEnds ==
    ASSUME ProvisioningInv, NEW p \in Provisioner, step[p] \in {"find", "dns"}, Return(p),
           UNCHANGED <<environment, tables, cache, published, broken, busy>>
    PROVE  ProvisioningInv'
<1>1. TypeOK /\ id[p] \notin cachedIds
    BY NoId DEF ProvisioningInv, Making
<1>. QED  BY <1>1, EndKeeps DEF Return, TypeOK, EnvironmentTypeOK

LEMMA FindKeeps ==
    ASSUME ProvisioningInv, NEW p \in Provisioner, FindDomain(p)
    PROVE  ProvisioningInv'
<1>1. CASE \E d \in domains : d.host = job[p].name /\ ~d.verified
    <2>1. job[p].name \in CustomHost
        BY <1>1 DEF ProvisioningInv, HostsOK
    <2>. QED  BY <1>1, <2>1, VerifyGoes DEF FindDomain
<1>2. CASE ~ \E d \in domains : d.host = job[p].name /\ ~d.verified
    BY <1>2, VerifyEnds DEF FindDomain
<1>. QED  BY <1>1, <1>2

\* The domain a call has read is the only one of its host.
LEMMA AskedIs ==
    ASSUME ProvisioningInv, NEW p \in Provisioner, step[p] \in {"dns", "update"}
    PROVE  /\ Asked(p) \in domains /\ Asked(p).host = job[p].name
           /\ job[p].name \in CustomHost
           /\ \A d \in domains : d.host = job[p].name => d = Asked(p)
<1>1. job[p].name \in CustomHost /\ \E d \in domains : d.host = job[p].name
    BY DEF ProvisioningInv, VerifiersOK
<1>2. Asked(p) \in domains /\ Asked(p).host = job[p].name
    BY <1>1 DEF Asked
<1>. QED  BY <1>1, <1>2 DEF ProvisioningInv, HostsOK

LEMMA LookUpKeeps ==
    ASSUME ProvisioningInv, NEW p \in Provisioner, LookUpRecord(p)
    PROVE  ProvisioningInv'
<1>1. CASE Asked(p).host \in published /\ Goto(p, "update") /\ UNCHANGED <<job, id, code, written>>
    <2>1. step[p] = "dns" /\ Asked(p).code
        BY DEF LookUpRecord
    <2>. QED  BY <1>1, <2>1, AskedIs, VerifyGoes DEF LookUpRecord
<1>2. CASE Return(p)
    BY <1>2, VerifyEnds DEF LookUpRecord
<1>. QED  BY <1>1, <1>2 DEF LookUpRecord

\* A domain of a tenant's own is not one of those TenantWhole counts.
LEMMA OwnDomainsApart ==
    ASSUME TypeOK, TenantWhole, domains' \subseteq Domain,
           UNCHANGED <<tenants, keys>>,
           {d \in domains' : d.host \notin CustomHost} = {d \in domains : d.host \notin CustomHost},
           \A d \in domains' : d.tenant \in DOMAIN tenants
    PROVE  TenantWhole'
<1>1. ASSUME NEW t \in DOMAIN tenants
      PROVE  \E d \in domains' : {e \in ListDomains(t)' : e.host \notin CustomHost} = {d}
    <2>1. PICK d \in domains : {e \in ListDomains(t) : e.host \notin CustomHost} = {d}
        BY DEF TenantWhole
    <2>2. {e \in ListDomains(t)' : e.host \notin CustomHost}
            = {e \in ListDomains(t) : e.host \notin CustomHost}
        BY DEF ListDomains
    <2>3. d \in domains'
        BY <2>1, <2>2 DEF ListDomains
    <2>. QED  BY <2>1, <2>2, <2>3
<1>. QED  BY <1>1 DEF TenantWhole

LEMMA MarkKeeps ==
    ASSUME ProvisioningInv, NEW p \in Provisioner, MarkVerified(p)
    PROVE  ProvisioningInv'
<1>. USE DEF ProvisioningInv
<1>. DEFINE old == Asked(p)
            new == [old EXCEPT !.verified = TRUE]
<1>a. /\ old \in domains /\ old.host = job[p].name /\ old.host \in CustomHost
      /\ \A d \in domains : d.host = old.host => d = old
    BY AskedIs DEF MarkVerified
<1>n. /\ new \in Domain /\ new.tenant = old.tenant /\ new.host = old.host
      /\ new.code = old.code /\ new.verified
    BY <1>a DEF TypeOK, Domain
<1>d. domains' = (domains \ {old}) \cup {new}
    BY DEF MarkVerified
<1>c. old.code /\ old.host \in published
    BY <1>a DEF VerifiersOK, MarkVerified
<1>. HIDE DEF old, new
<1>e. /\ step' \in [Provisioner -> Step] /\ job' \in [Provisioner -> Job]
      /\ id' \in [Provisioner -> Id \cup {0}] /\ code' \in [Provisioner -> Nat]
      /\ written' \in [Provisioner -> SUBSET {"tenant", "domain", "key"}]
      /\ step'[p] = "idle" /\ id'[p] = 0 /\ code'[p] = 0 /\ written'[p] = {}
      /\ \A q \in Provisioner \ {p} :
            /\ step'[q] = step[q] /\ job'[q] = job[q] /\ id'[q] = id[q]
            /\ code'[q] = code[q] /\ written'[q] = written[q]
    BY EndSets DEF MarkVerified, Return
<1>i. id[p] = 0 /\ code[p] = 0
    BY NoId DEF MarkVerified, Making
<1>u. UNCHANGED <<environment, tenants, keys, cache, published, broken, busy>>
    BY DEF MarkVerified
<1>1. TypeOK'
    BY <1>d, <1>e, <1>n, <1>u DEF TypeOK, EnvironmentTypeOK
<1>2. MakersOK'
    BY <1>e DEF MakersOK, Making, Drawn, Written
<1>3. OwnersOK'
    BY <1>e, <1>i, <1>u, CounterType DEF OwnersOK, TypeOK
<1>4. HostsOK'
    BY <1>a, <1>d, <1>n DEF HostsOK
<1>5. VerifiersOK'
    <2>1. ASSUME NEW q \in Provisioner, step'[q] \in {"dns", "update"}
          PROVE  step'[q] = step[q] /\ job'[q] = job[q]
        BY <1>e, <2>1
    <2>2. ASSUME NEW h \in Host, \E d \in domains : d.host = h
          PROVE  \E d \in domains' : d.host = h
        BY <1>a, <1>d, <1>n, <2>2
    <2>3. ASSUME NEW h \in Host, \A d \in domains : d.host = h => d.code
          PROVE  \A d \in domains' : d.host = h => d.code
        BY <1>a, <1>c, <1>d, <1>n, <2>3
    <2>. QED  BY <1>u, <2>1, <2>2, <2>3 DEF VerifiersOK, Host
<1>6. CachedOK'
    BY <1>e, <1>u DEF CachedOK, Created
<1>7. AloneOK'
    BY <1>e, <1>u DEF AloneOK, Making, Created
<1>8. TenantWhole'
    <2>1. {d \in domains' : d.host \notin CustomHost} = {d \in domains : d.host \notin CustomHost}
        BY <1>a, <1>d, <1>n
    <2>2. \A d \in domains' : d.tenant \in DOMAIN tenants
        BY <1>a, <1>d, <1>n DEF TenantWhole
    <2>. QED  BY <1>1, <1>u, <2>1, <2>2, OwnDomainsApart DEF TypeOK
<1>9. VerifiedByRecord'
    BY <1>a, <1>c, <1>d, <1>n, <1>u DEF VerifiedByRecord
<1>10. TenantCodesDistinct' /\ TenantsDistinct'
    BY <1>u DEF TenantCodesDistinct, TenantsDistinct
<1>11. RedisAgrees'
    BY <1>e, <1>i, <1>u DEF TypeOK, Id, RedisAgrees, GetTenant, Range
<1>. QED  BY <1>1, <1>2, <1>3, <1>4, <1>5, <1>6, <1>7, <1>8, <1>9, <1>10, <1>11

LEMMA AddKeeps ==
    ASSUME ProvisioningInv, AddCustomDomain
    PROVE  ProvisioningInv'
<1>. USE DEF ProvisioningInv
<1>n. PICK new \in Domain :
          /\ new.host \in CustomHost /\ ~new.verified /\ new.tenant \in DOMAIN tenants
          /\ \A d \in domains : d.host # new.host
          /\ domains' = domains \cup {new}
    <2>1. PICK t \in DOMAIN tenants, h \in CustomHost, c \in BOOLEAN :
              /\ \A d \in domains : d.host # h
              /\ domains' = domains \cup {[tenant |-> t, host |-> h, code |-> c, verified |-> FALSE]}
        BY DEF AddCustomDomain
    <2>. QED  BY <2>1 DEF TypeOK, Domain, Host
<1>u. UNCHANGED <<environment, tenants, keys, cache, published, calls, broken, busy>>
    BY DEF AddCustomDomain
<1>1. TypeOK'
    BY <1>n, <1>u DEF TypeOK, EnvironmentTypeOK
<1>2. MakersOK' /\ OwnersOK' /\ CachedOK' /\ AloneOK'
    BY <1>u DEF MakersOK, Making, Drawn, OwnersOK, CachedOK, AloneOK, Created
<1>3. HostsOK' /\ VerifiersOK' /\ VerifiedByRecord'
    BY <1>n, <1>u DEF HostsOK, VerifiersOK, VerifiedByRecord
<1>4. TenantWhole'
    BY <1>1, <1>n, <1>u, OwnDomainsApart DEF TypeOK, TenantWhole
<1>5. TenantCodesDistinct' /\ TenantsDistinct' /\ RedisAgrees'
    BY <1>u DEF TenantCodesDistinct, TenantsDistinct, RedisAgrees, GetTenant
<1>. QED  BY <1>1, <1>2, <1>3, <1>4, <1>5

LEMMA RecordKeeps ==
    ASSUME ProvisioningInv, PublishRecord
    PROVE  ProvisioningInv'
<1>. USE DEF ProvisioningInv
<1>u. UNCHANGED <<environment, tables, cache, calls, broken, busy>> /\ published \subseteq published'
    BY DEF PublishRecord
<1>1. TypeOK'
    <2>1. published' \subseteq CustomHost
        BY DEF PublishRecord, TypeOK, HostsOK
    <2>. QED  BY <1>u, <2>1 DEF TypeOK, EnvironmentTypeOK
<1>2. MakersOK' /\ OwnersOK' /\ CachedOK' /\ AloneOK'
    BY <1>u DEF MakersOK, Making, Drawn, OwnersOK, CachedOK, AloneOK, Created
<1>3. HostsOK' /\ VerifiersOK' /\ VerifiedByRecord'
    BY <1>u DEF HostsOK, VerifiersOK, VerifiedByRecord
<1>4. TenantWhole' /\ TenantCodesDistinct' /\ TenantsDistinct' /\ RedisAgrees'
    BY <1>u DEF TenantWhole, ListDomains, TenantCodesDistinct, TenantsDistinct, RedisAgrees, GetTenant
<1>. QED  BY <1>1, <1>2, <1>3, <1>4

LEMMA ArriveKeeps ==
    ASSUME ProvisioningInv, NEW p \in Provisioner, Arrive(p)
    PROVE  ProvisioningInv'
<1>. USE DEF ProvisioningInv
<1>j. PICK j \in Job :
          /\ j.op \in {"create", "migrate"} => j.name \in Slug \cup {NoSlug}
          /\ step' = [step EXCEPT ![p] = FirstStep[j.op]]
          /\ job' = [job EXCEPT ![p] = j]
          /\ id' = [id EXCEPT ![p] = IF j.op = "verify" THEN 0 ELSE served + 1]
    BY DEF Arrive, Goto
<1>f. FirstStep[j.op] = IF j.op = "verify" THEN "find" ELSE "look"
    BY DEF FirstStep, Job
<1>s. served \in Nat /\ served' = served + 1 /\ served' \in 1..MaxCalls
    BY DEF Arrive, TypeOK, EnvironmentTypeOK
<1>e. /\ step' \in [Provisioner -> Step] /\ job' \in [Provisioner -> Job]
      /\ id' \in [Provisioner -> Id \cup {0}]
      /\ step'[p] = (IF j.op = "verify" THEN "find" ELSE "look") /\ job'[p] = j
      /\ id'[p] = IF j.op = "verify" THEN 0 ELSE served + 1
      /\ \A q \in Provisioner \ {p} :
            step'[q] = step[q] /\ job'[q] = job[q] /\ id'[q] = id[q]
    BY <1>f, <1>j, <1>s DEF TypeOK, Step, Id
<1>u. /\ UNCHANGED <<redis, time, faults, tables, cache, published, code, written, broken>>
      /\ step[p] = "idle" /\ busy' = (busy \/ \E q \in Provisioner : step[q] # "idle")
    BY DEF Arrive
<1>o. id[p] = 0 /\ code[p] = 0
    BY <1>u, NoId DEF Making
<1>1. TypeOK'
    BY <1>e, <1>s, <1>u DEF TypeOK, EnvironmentTypeOK
<1>2. MakersOK'
    <2>1. ASSUME NEW q \in Provisioner \ {p}
          PROVE  Making(q)' = Making(q) /\ Drawn(q)' = Drawn(q)
        BY <1>e DEF Making, Drawn
    <2>2. /\ Making(p)' <=> j.op # "verify"
          /\ ~Drawn(p)' /\ ~Drawn(p) /\ Written(step'[p]) = {} /\ Written(step[p]) = {}
        BY <1>e, <1>u DEF Making, Drawn, Written
    <2>3. code'[p] = 0 /\ written'[p] = {} /\ (id'[p] # 0 <=> j.op # "verify")
        BY <1>e, <1>o, <1>s, <1>u, <2>2 DEF MakersOK
    <2>4. j.op # "verify" => j.op \in {"create", "migrate"} /\ j.name \in Slug \cup {NoSlug}
        BY <1>j DEF Job
    <2>. SUFFICES ASSUME NEW q \in Provisioner
                  PROVE  /\ id'[q] # 0 <=> Making(q)'
                         /\ code'[q] # 0 <=> Drawn(q)'
                         /\ written'[q] = Written(step'[q])
                         /\ Making(q)' => /\ job'[q].op \in {"create", "migrate"}
                                         /\ job'[q].name \in Slug \cup {NoSlug}
                         /\ step'[q] = "cache" => job'[q].op = "create"
        BY DEF MakersOK
    <2>5. CASE q = p
        BY <1>e, <2>2, <2>3, <2>4, <2>5
    <2>6. CASE q # p
        BY <1>e, <1>u, <2>1, <2>6 DEF MakersOK
    <2>. QED  BY <2>5, <2>6
<1>3. OwnersOK'
    <2>1. ASSUME NEW q \in Provisioner
          PROVE  id'[q] <= served' /\ id'[q] \notin DOMAIN tenants
        BY <1>e, <1>s, <1>u DEF OwnersOK, TypeOK, Id
    <2>2. ASSUME NEW q \in Provisioner, NEW r \in Provisioner, id'[q] = id'[r], id'[q] # 0
          PROVE  q = r
        BY <1>e, <1>s, <2>2 DEF OwnersOK, TypeOK, Id
    <2>3. \A t \in DOMAIN tenants : t <= served'
        BY <1>s DEF OwnersOK, TypeOK, Id
    <2>. QED  BY <1>u, <2>1, <2>2, <2>3 DEF OwnersOK
<1>4. HostsOK' /\ VerifiedByRecord'
    BY <1>u DEF HostsOK, VerifiedByRecord
<1>5. VerifiersOK'
    BY <1>e, <1>u DEF VerifiersOK
<1>6. CachedOK'
    <2>1. \A t \in cachedIds : t <= served'
        BY <1>s DEF CachedOK, TypeOK, Id
    <2>2. ASSUME NEW q \in Provisioner, step'[q] = "look"
          PROVE  id'[q] \notin cachedIds
        BY <1>e, <1>s, <2>2 DEF CachedOK, TypeOK, Id
    <2>3. ASSUME NEW q \in Provisioner, Created(q)'
          PROVE  q # p /\ Created(q)
        BY <1>e, <2>3 DEF Created
    <2>. QED  BY <1>e, <1>u, <2>1, <2>2, <2>3 DEF CachedOK
<1>7. AloneOK'
    BY <1>e, <1>u DEF AloneOK, Making, Created
<1>8. TenantWhole' /\ TenantCodesDistinct' /\ TenantsDistinct'
    BY <1>u, ZenonT(40) DEF TenantWhole, ListDomains, TenantCodesDistinct, TenantsDistinct
<1>9. RedisAgrees'
    BY <1>e, <1>o, <1>u DEF TypeOK, Id, RedisAgrees, GetTenant, Range
<1>. QED  BY <1>1, <1>2, <1>3, <1>4, <1>5, <1>6, <1>7, <1>8, <1>9

LEMMA DrawKeeps ==
    ASSUME ProvisioningInv, NEW p \in Provisioner, DrawCode(p)
    PROVE  ProvisioningInv'
<1>. USE DEF ProvisioningInv
<1>c. /\ TenantKey \in Key /\ counter[TenantKey] \in Nat
      /\ counter' \in [Key -> Nat] /\ counter'[TenantKey] = counter[TenantKey] + 1
      /\ expiry' = expiry
    BY CounterType DEF DrawCode, Increment, TypeOK, EnvironmentTypeOK
<1>e. /\ step[p] = "code"
      /\ step' \in [Provisioner -> Step] /\ code' \in [Provisioner -> Nat]
      /\ step'[p] = "tenant" /\ code'[p] = counter[TenantKey] + 1
      /\ \A q \in Provisioner \ {p} : step'[q] = step[q] /\ code'[q] = code[q]
    BY <1>c DEF DrawCode, Goto, TypeOK, Step
<1>u. UNCHANGED <<time, served, faults, tables, cache, published, job, id, written, broken, busy>>
    BY DEF DrawCode
<1>1. TypeOK'
    BY <1>c, <1>e, <1>u DEF TypeOK, EnvironmentTypeOK
<1>2. MakersOK'
    BY <1>c, <1>e, <1>u DEF MakersOK, Making, Drawn, Written
<1>3. OwnersOK'
    BY <1>c, <1>e, <1>u DEF OwnersOK, TypeOK
<1>4. HostsOK' /\ VerifiersOK' /\ VerifiedByRecord'
    BY <1>e, <1>u DEF HostsOK, VerifiersOK, VerifiedByRecord
<1>5. CachedOK'
    BY <1>e, <1>u DEF CachedOK, Created
<1>6. AloneOK'
    BY <1>e, <1>u DEF AloneOK, Making, Created
<1>7. TenantWhole' /\ TenantCodesDistinct' /\ TenantsDistinct' /\ RedisAgrees'
    BY <1>u DEF TenantWhole, ListDomains, TenantCodesDistinct, TenantsDistinct, RedisAgrees, GetTenant
<1>. QED  BY <1>1, <1>2, <1>3, <1>4, <1>5, <1>6, <1>7

LEMMA InsertKeeps ==
    ASSUME ProvisioningInv, NEW p \in Provisioner,
           InsertTenant(p) \/ InsertDomain(p) \/ InsertKey(p)
    PROVE  ProvisioningInv'
<1>. USE DEF ProvisioningInv
<1>i. PICK table \in {"tenant", "domain", "key"}, next \in {"domain", "key", "cache", "commit"} :
          /\ Insert(p, table, next)
          /\ table = "tenant" => next = "domain"
          /\ table = "domain" => next = "key"
          /\ table = "key" => next = IF job[p].op = "create" THEN "cache" ELSE "commit"
    BY DEF InsertTenant, InsertDomain, InsertKey
<1>e. /\ step[p] = table
      /\ step' \in [Provisioner -> Step]
      /\ written' \in [Provisioner -> SUBSET {"tenant", "domain", "key"}]
      /\ step'[p] = next /\ written'[p] = written[p] \cup {table}
      /\ \A q \in Provisioner \ {p} : step'[q] = step[q] /\ written'[q] = written[q]
    BY <1>i DEF Insert, Goto, TypeOK, Step
<1>u. UNCHANGED <<environment, tables, cache, published, job, id, code, broken, busy>>
    BY <1>i DEF Insert
<1>1. TypeOK'
    BY <1>e, <1>u DEF TypeOK, EnvironmentTypeOK
<1>2. MakersOK'
    <2>1. Written(table) \cup {table} = Written(next)
        BY <1>i DEF Written
    <2>2. Making(p) /\ Drawn(p) /\ Making(p)' /\ Drawn(p)'
        BY <1>e DEF Making, Drawn
    <2>3. ASSUME NEW q \in Provisioner \ {p}
          PROVE  Making(q)' = Making(q) /\ Drawn(q)' = Drawn(q)
        BY <1>e DEF Making, Drawn
    <2>. QED  BY <1>e, <1>i, <1>u, <2>1, <2>2, <2>3, SMTT(20) DEF MakersOK
<1>3. OwnersOK' /\ HostsOK' /\ VerifiedByRecord'
    BY <1>u DEF OwnersOK, HostsOK, VerifiedByRecord
<1>4. VerifiersOK'
    BY <1>e, <1>u DEF VerifiersOK
<1>5. CachedOK'
    <2>1. ASSUME NEW q \in Provisioner, Created(q)'
          PROVE  q # p /\ Created(q)
        BY <1>e, <1>i, <1>u, <2>1 DEF Created
    <2>2. ASSUME NEW q \in Provisioner, step'[q] = "look"
          PROVE  step[q] = "look"
        BY <1>e, <2>2
    <2>. QED  BY <1>u, <2>1, <2>2 DEF CachedOK
<1>6. AloneOK'
    <2>1. ASSUME NEW q \in Provisioner
          PROVE  /\ Created(q)' => Created(q)
                 /\ Making(q)' /\ step'[q] # "look" => Making(q) /\ step[q] # "look"
                 /\ step'[q] # "idle" => step[q] # "idle"
        BY <1>e, <1>i, <1>u DEF Created, Making
    <2>. QED  BY <1>u, <2>1 DEF AloneOK
<1>7. TenantWhole' /\ TenantCodesDistinct' /\ TenantsDistinct' /\ RedisAgrees'
    BY <1>u DEF TenantWhole, ListDomains, TenantCodesDistinct, TenantsDistinct, RedisAgrees, GetTenant
<1>. QED  BY <1>1, <1>2, <1>3, <1>4, <1>5, <1>6, <1>7

\* A call's SETs touch its own id, code and host, and all three if nothing fails.
LEMMA SetsOwn ==
    ASSUME ProvisioningInv, NEW p \in Provisioner, step[p] = "cache", NEW n \in 1..3, Sets(p, n)
    PROVE  /\ id[p] \in Id /\ cachedIds' = cachedIds \cup {id[p]}
           /\ \A c \in DOMAIN codeOwner' : c \in Nat /\ codeOwner'[c] \in Id
           /\ \A c \in DOMAIN codeOwner \ {code[p]} :
                 c \in DOMAIN codeOwner' /\ codeOwner'[c] = codeOwner[c]
           /\ hostOwner' \in [Host -> Id \cup {0}]
           /\ \A h \in Host \ {job[p].name} : hostOwner'[h] = hostOwner[h]
           /\ n = 3 => /\ code[p] \in DOMAIN codeOwner' /\ codeOwner'[code[p]] = id[p]
                       /\ hostOwner'[job[p].name] = id[p]
<1>. USE DEF ProvisioningInv
<1>1. id[p] \in Id /\ code[p] \in Nat /\ job[p].name \in Host
    BY DEF MakersOK, Making, TypeOK, Host
<1>2. cachedIds' = cachedIds \cup {id[p]}
    BY DEF Sets
<1>3. /\ \A c \in DOMAIN codeOwner' : c \in Nat /\ codeOwner'[c] \in Id
      /\ \A c \in DOMAIN codeOwner \ {code[p]} :
            c \in DOMAIN codeOwner' /\ codeOwner'[c] = codeOwner[c]
      /\ n = 3 => code[p] \in DOMAIN codeOwner' /\ codeOwner'[code[p]] = id[p]
    BY <1>1 DEF Sets, TypeOK
<1>4. /\ hostOwner' \in [Host -> Id \cup {0}]
      /\ \A h \in Host \ {job[p].name} : hostOwner'[h] = hostOwner[h]
      /\ n = 3 => hostOwner'[job[p].name] = id[p]
    BY <1>1 DEF Sets, TypeOK
<1>. QED  BY <1>1, <1>2, <1>3, <1>4

\* What Redis says of a tenant made before is not what a call overwrites.
LEMMA SetsApart ==
    ASSUME ProvisioningInv, NEW p \in Provisioner, step[p] = "cache", NEW n \in 1..3, Sets(p, n),
           NEW t \in DOMAIN tenants, ~tenants[t].default
    PROVE  /\ t \in cachedIds'
           /\ tenants[t].code \in DOMAIN codeOwner' /\ codeOwner'[tenants[t].code] = t
           /\ ~busy => hostOwner'[tenants[t].slug] = t
<1>. USE DEF ProvisioningInv
<1>1. tenants[t].code # code[p] /\ tenants[t].slug \in Host
    BY DEF OwnersOK, TypeOK, Tenant, Host
<1>2. ~busy => tenants[t].slug # job[p].name
    BY DEF AloneOK, MakersOK, Making
<1>. QED  BY <1>1, <1>2, SetsOwn DEF RedisAgrees

LEMMA CacheKeeps ==
    ASSUME ProvisioningInv, NEW p \in Provisioner, CacheTenant(p)
    PROVE  ProvisioningInv'
<1>. USE DEF ProvisioningInv
<1>s. step[p] = "cache" /\ Sets(p, 3)
    BY DEF CacheTenant
<1>c. /\ id[p] \in Id /\ cachedIds' = cachedIds \cup {id[p]}
      /\ \A c \in DOMAIN codeOwner' : c \in Nat /\ codeOwner'[c] \in Id
      /\ \A c \in DOMAIN codeOwner \ {code[p]} :
            c \in DOMAIN codeOwner' /\ codeOwner'[c] = codeOwner[c]
      /\ hostOwner' \in [Host -> Id \cup {0}]
      /\ \A h \in Host \ {job[p].name} : hostOwner'[h] = hostOwner[h]
      /\ code[p] \in DOMAIN codeOwner' /\ codeOwner'[code[p]] = id[p]
      /\ hostOwner'[job[p].name] = id[p]
    BY <1>s, SetsOwn
<1>e. /\ step' \in [Provisioner -> Step] /\ step'[p] = "commit"
      /\ \A q \in Provisioner \ {p} : step'[q] = step[q]
    BY DEF CacheTenant, Goto, TypeOK, Step
<1>u. UNCHANGED <<environment, tables, published, job, id, code, written, broken, busy>>
    BY DEF CacheTenant
<1>1. TypeOK'
    BY <1>c, <1>e, <1>u DEF TypeOK, EnvironmentTypeOK
<1>2. MakersOK'
    BY <1>e, <1>s, <1>u DEF MakersOK, Making, Drawn, Written
<1>3. OwnersOK' /\ HostsOK' /\ VerifiedByRecord'
    BY <1>u DEF OwnersOK, HostsOK, VerifiedByRecord
<1>4. VerifiersOK'
    BY <1>e, <1>u DEF VerifiersOK
<1>5. CachedOK'
    <2>1. \A t \in cachedIds' : t <= served
        BY <1>c DEF CachedOK, OwnersOK
    <2>2. ASSUME NEW q \in Provisioner, step'[q] = "look"
          PROVE  id[q] \notin cachedIds'
        BY <1>c, <1>e, <2>2 DEF CachedOK, OwnersOK, Id
    <2>3. ASSUME NEW q \in Provisioner \ {p}, Created(q)'
          PROVE  Created(q) /\ code[q] # code[p]
        BY <1>e, <1>s, <1>u, <2>3 DEF Created, MakersOK, Drawn, OwnersOK
    <2>. QED  BY <1>c, <1>u, <2>1, <2>2, <2>3 DEF CachedOK
<1>6. AloneOK'
    <2>1. ASSUME NEW q \in Provisioner, ~busy, step'[q] # "idle"
          PROVE  q = p
        BY <1>e, <1>s, <2>1 DEF AloneOK
    <2>. QED  BY <1>c, <1>e, <1>s, <1>u, <2>1 DEF AloneOK, Making, Created
<1>7. TenantWhole' /\ TenantCodesDistinct' /\ TenantsDistinct'
    BY <1>u DEF TenantWhole, ListDomains, TenantCodesDistinct, TenantsDistinct
<1>8. RedisAgrees'
    <2>1. \A t \in cachedIds' \ (broken \cup Range(id)) : GetTenant(t) # {}
        BY <1>c DEF RedisAgrees, Range, TypeOK
    <2>. QED  BY <1>s, <1>u, <2>1, SetsApart DEF RedisAgrees, GetTenant
<1>. QED  BY <1>1, <1>2, <1>3, <1>4, <1>5, <1>6, <1>7, <1>8

LEMMA CacheFailKeeps ==
    ASSUME ProvisioningInv, NEW p \in Provisioner, CacheFails(p)
    PROVE  ProvisioningInv'
<1>. USE DEF ProvisioningInv
<1>s. PICK n \in 1..3 : step[p] = "cache" /\ Sets(p, n)
    BY DEF CacheFails
<1>c. /\ id[p] \in Id /\ cachedIds' = cachedIds \cup {id[p]}
      /\ \A c \in DOMAIN codeOwner' : c \in Nat /\ codeOwner'[c] \in Id
      /\ \A c \in DOMAIN codeOwner \ {code[p]} :
            c \in DOMAIN codeOwner' /\ codeOwner'[c] = codeOwner[c]
      /\ hostOwner' \in [Host -> Id \cup {0}]
      /\ \A h \in Host \ {job[p].name} : hostOwner'[h] = hostOwner[h]
    BY <1>s, SetsOwn
<1>e. /\ step' \in [Provisioner -> Step] /\ job' \in [Provisioner -> Job]
      /\ id' \in [Provisioner -> Id \cup {0}] /\ code' \in [Provisioner -> Nat]
      /\ written' \in [Provisioner -> SUBSET {"tenant", "domain", "key"}]
      /\ step'[p] = "idle" /\ id'[p] = 0 /\ code'[p] = 0 /\ written'[p] = {}
      /\ \A q \in Provisioner \ {p} :
            /\ step'[q] = step[q] /\ job'[q] = job[q] /\ id'[q] = id[q]
            /\ code'[q] = code[q] /\ written'[q] = written[q]
    BY EndSets DEF CacheFails, Return
<1>u. /\ UNCHANGED <<redis, time, served, tables, published, busy>>
      /\ faults' \in 0..MaxFaults /\ broken' = broken \cup {id[p]}
    BY DEF CacheFails, Fault, Break, TypeOK, EnvironmentTypeOK
<1>1. TypeOK'
    BY <1>c, <1>e, <1>u DEF TypeOK, EnvironmentTypeOK
<1>2. MakersOK'
    BY <1>e DEF MakersOK, Making, Drawn, Written
<1>3. OwnersOK'
    BY <1>e, <1>u, CounterType, SMTT(20) DEF OwnersOK, TypeOK, EnvironmentTypeOK, Id
<1>4. HostsOK' /\ VerifiersOK' /\ VerifiedByRecord'
    BY <1>e, <1>u DEF HostsOK, VerifiersOK, VerifiedByRecord
<1>5. CachedOK'
    <2>1. \A t \in cachedIds' : t <= served
        BY <1>c DEF CachedOK, OwnersOK
    <2>2. ASSUME NEW q \in Provisioner, step'[q] = "look"
          PROVE  id'[q] \notin cachedIds'
        BY <1>c, <1>e, <2>2 DEF CachedOK, OwnersOK, Id
    <2>3. ASSUME NEW q \in Provisioner, Created(q)'
          PROVE  q # p /\ Created(q) /\ code[q] # code[p]
        BY <1>e, <1>s, <1>u, <2>3 DEF Created, MakersOK, Drawn, OwnersOK
    <2>. QED  BY <1>c, <1>e, <1>u, <2>1, <2>2, <2>3 DEF CachedOK
<1>6. AloneOK'
    <2>1. ASSUME ~busy, NEW q \in Provisioner
          PROVE  step'[q] = "idle"
        BY <1>e, <1>s, <2>1 DEF AloneOK
    <2>. QED  BY <1>u, <2>1 DEF AloneOK, Making, Created
<1>7. TenantWhole' /\ TenantCodesDistinct' /\ TenantsDistinct'
    BY <1>u DEF TenantWhole, ListDomains, TenantCodesDistinct, TenantsDistinct
<1>8. RedisAgrees'
    <2>1. ASSUME NEW t \in cachedIds' \ (broken' \cup Range(id'))
          PROVE  GetTenant(t)' # {}
        BY <1>c, <1>e, <1>u DEF RedisAgrees, Range, TypeOK, GetTenant
    <2>. QED  BY <1>s, <1>u, <2>1, SetsApart DEF RedisAgrees
<1>. QED  BY <1>1, <1>2, <1>3, <1>4, <1>5, <1>6, <1>7, <1>8

\* A tenant becomes visible with its domain and its key.
LEMMA PublishKeeps ==
    ASSUME ProvisioningInv, NEW p \in Provisioner, step[p] = "commit", Publish(p), Return(p),
           UNCHANGED <<redis, time, served, cache, published, busy>>,
           faults' \in 0..MaxFaults, broken' \subseteq Id \cup {0}, broken \subseteq broken'
    PROVE  ProvisioningInv'
<1>. USE DEF ProvisioningInv
<1>. DEFINE made == NewTenant(p)
            dom == NewDomain(p)
<1>j. PICK t0 \in Id :
      /\ t0 = id[p] /\ t0 \notin DOMAIN tenants /\ t0 <= served
      /\ job[p].op \in {"create", "migrate"} /\ job[p].name \in Slug \cup {NoSlug}
      /\ code[p] \in 1..counter[TenantKey] /\ counter[TenantKey] \in Nat
      /\ written[p] = {"tenant", "domain", "key"}
    BY CounterType DEF MakersOK, Making, Drawn, Written, OwnersOK, TypeOK
<1>t. /\ DOMAIN tenants' = DOMAIN tenants \cup {t0} /\ tenants'[t0] = made
      /\ \A t \in DOMAIN tenants : tenants'[t] = tenants[t]
      /\ domains' = domains \cup {dom} /\ keys' = keys \cup {t0}
    BY <1>j DEF Publish
<1>m. /\ made \in Tenant /\ made.slug = job[p].name /\ made.code = code[p]
      /\ made.default <=> job[p].op = "migrate"
    BY <1>j DEF NewTenant, Tenant, TypeOK
<1>d. /\ dom \in Domain /\ dom.tenant = t0 /\ dom.host \notin CustomHost
      /\ dom.verified /\ ~dom.code
    BY <1>j DEF NewDomain, Domain, Host
<1>e. /\ step' \in [Provisioner -> Step] /\ job' \in [Provisioner -> Job]
      /\ id' \in [Provisioner -> Id \cup {0}] /\ code' \in [Provisioner -> Nat]
      /\ written' \in [Provisioner -> SUBSET {"tenant", "domain", "key"}]
      /\ step'[p] = "idle" /\ id'[p] = 0 /\ code'[p] = 0 /\ written'[p] = {}
      /\ \A q \in Provisioner \ {p} :
            /\ step'[q] = step[q] /\ job'[q] = job[q] /\ id'[q] = id[q]
            /\ code'[q] = code[q] /\ written'[q] = written[q]
    BY EndSets DEF Return
<1>. HIDE DEF made, dom
<1>1. TypeOK'
    BY <1>d, <1>e, <1>j, <1>m, <1>t DEF TypeOK, EnvironmentTypeOK
<1>2. MakersOK'
    BY <1>e DEF MakersOK, Making, Drawn, Written
<1>3. OwnersOK'
    <2>1. ASSUME NEW q \in Provisioner
          PROVE  /\ id'[q] <= served /\ code'[q] <= counter[TenantKey]
                 /\ id'[q] \notin DOMAIN tenants'
                 /\ code'[q] # code[p]
        BY <1>e, <1>j, <1>t DEF OwnersOK, TypeOK, EnvironmentTypeOK, Id
    <2>2. ASSUME NEW t \in DOMAIN tenants'
          PROVE  /\ t <= served /\ tenants'[t].code \in 1..counter[TenantKey]
                 /\ \A q \in Provisioner : code'[q] # tenants'[t].code
        BY <1>e, <1>j, <1>m, <1>t, <2>1 DEF OwnersOK
    <2>. QED  BY <1>e, <2>1, <2>2 DEF OwnersOK
<1>4. HostsOK' /\ VerifiedByRecord'
    BY <1>d, <1>t DEF HostsOK, VerifiedByRecord
<1>5. VerifiersOK'
    BY <1>d, <1>e, <1>t DEF VerifiersOK
<1>6. CachedOK'
    BY <1>e DEF CachedOK, Created
<1>7. AloneOK'
    <2>1. ASSUME ~busy, NEW q \in Provisioner
          PROVE  step'[q] = "idle"
        BY <1>e, <2>1 DEF AloneOK
    <2>. QED  BY <2>1 DEF AloneOK, Making, Created
<1>8. TenantWhole'
    <2>1. keys' = DOMAIN tenants' /\ \A d \in domains' : d.tenant \in DOMAIN tenants'
        BY <1>d, <1>t DEF TenantWhole
    <2>2. ASSUME NEW t \in DOMAIN tenants
          PROVE  \E d \in domains' : {e \in ListDomains(t)' : e.host \notin CustomHost} = {d}
        <3>1. PICK d \in domains : {e \in ListDomains(t) : e.host \notin CustomHost} = {d}
            BY DEF TenantWhole
        <3>2. ListDomains(t)' = ListDomains(t)
            BY <1>d, <1>j, <1>t DEF ListDomains, TypeOK, Id
        <3>. QED  BY <1>t, <3>1, <3>2
    <2>3. {e \in ListDomains(t0)' : e.host \notin CustomHost} = {dom}
        BY <1>d, <1>j, <1>t DEF ListDomains, TenantWhole, Id
    <2>. QED  BY <1>t, <2>1, <2>2, <2>3 DEF TenantWhole
<1>9. TenantCodesDistinct'
    BY <1>j, <1>m, <1>t DEF TenantCodesDistinct, OwnersOK
<1>10. TenantsDistinct'
    <2>1. ASSUME ~busy, NEW t \in DOMAIN tenants
          PROVE  IF made.default THEN ~tenants[t].default ELSE tenants[t].slug # made.slug
        BY <1>m, <2>1 DEF AloneOK, Making
    <2>2. \A t \in DOMAIN tenants : tenants[t].default \in BOOLEAN
        BY DEF TypeOK, Tenant
    <2>3. made.default \in BOOLEAN
        BY <1>m DEF Tenant
    <2>. QED  BY <1>t, <2>1, <2>2, <2>3 DEF TenantsDistinct
<1>11. RedisAgrees'
    <2>1. ~made.default => /\ t0 \in cachedIds
                           /\ made.code \in DOMAIN codeOwner /\ codeOwner[made.code] = t0
                           /\ ~busy => hostOwner[made.slug] = t0
        BY <1>j, <1>m DEF CachedOK, AloneOK, Created
    <2>2. ASSUME NEW t \in cachedIds \ (broken' \cup Range(id'))
          PROVE  GetTenant(t)' # {}
        <3>1. CASE t \in Range(id)
            BY <1>e, <1>j, <1>t, <3>1 DEF Range, TypeOK, GetTenant
        <3>2. CASE t \notin Range(id)
            BY <1>t, <3>2 DEF RedisAgrees, GetTenant
        <3>. QED  BY <3>1, <3>2
    <2>. QED  BY <1>t, <2>1, <2>2 DEF RedisAgrees
<1>. QED  BY <1>1, <1>2, <1>3, <1>4, <1>5, <1>6, <1>7, <1>8, <1>9, <1>10, <1>11

LEMMA CommitKeeps ==
    ASSUME ProvisioningInv, NEW p \in Provisioner, Commit(p) \/ CommitUnheard(p)
    PROVE  ProvisioningInv'
<1>. TypeOK  BY DEF ProvisioningInv
<1>1. faults' \in 0..MaxFaults
    BY DEF Commit, CommitUnheard, Fault, TypeOK, EnvironmentTypeOK
<1>2. broken' \subseteq Id \cup {0} /\ broken \subseteq broken'
    BY DEF Commit, CommitUnheard, Break, TypeOK
<1>. QED  BY <1>1, <1>2, PublishKeeps DEF Commit, CommitUnheard

LEMMA InitOK ==
    ASSUME Init
    PROVE  ProvisioningInv
<1>. USE DEF Init, EnvironmentInit
<1>t. tenants = << >> /\ DOMAIN tenants = {} /\ DOMAIN codeOwner = {}
    OBVIOUS
<1>1. TypeOK
    <2>1. EnvironmentTypeOK
        BY DEF EnvironmentTypeOK, NoExpiry, Key
    <2>. QED  BY <1>t, <2>1 DEF TypeOK, Step, Job, NoJob, Host
<1>2. MakersOK /\ OwnersOK /\ HostsOK /\ VerifiersOK /\ CachedOK /\ AloneOK
    <2>1. counter[TenantKey] = 0
        BY <1>1, CounterType DEF TypeOK
    <2>. QED  BY <1>t, <2>1 DEF MakersOK, Making, Drawn, Written, OwnersOK, HostsOK, VerifiersOK,
                              CachedOK, AloneOK, Created
<1>3. TenantWhole /\ TenantCodesDistinct /\ TenantsDistinct /\ VerifiedByRecord /\ RedisAgrees
    BY <1>t DEF TenantWhole, TenantCodesDistinct, TenantsDistinct, VerifiedByRecord, RedisAgrees
<1>. QED  BY <1>1, <1>2, <1>3 DEF ProvisioningInv

LEMMA StutterKeeps ==
    ASSUME ProvisioningInv, UNCHANGED vars
    PROVE  ProvisioningInv'
<1>. USE DEF ProvisioningInv
<1>1. TypeOK' /\ MakersOK' /\ OwnersOK' /\ HostsOK' /\ VerifiersOK' /\ CachedOK' /\ AloneOK'
    BY DEF TypeOK, EnvironmentTypeOK, MakersOK, Making, Drawn, OwnersOK, HostsOK, VerifiersOK,
           CachedOK, AloneOK, Created
<1>2. TenantWhole' /\ TenantCodesDistinct' /\ TenantsDistinct' /\ RedisAgrees' /\ VerifiedByRecord'
    BY DEF TenantWhole, ListDomains, TenantCodesDistinct, TenantsDistinct, RedisAgrees, GetTenant,
           VerifiedByRecord
<1>. QED  BY <1>1, <1>2

----------------------------------------------------------------------------
\* The inductive invariant: whatever the calls of CreateTenant, Migrate and
\* VerifyDomain do in whatever order, and wherever they fail or die.
THEOREM ProvisioningInvariant == Spec => []ProvisioningInv
<1>1. Init => ProvisioningInv
    BY InitOK
<1>2. ProvisioningInv /\ [Next]_vars => ProvisioningInv'
    <2>. SUFFICES ASSUME ProvisioningInv, [Next]_vars
                  PROVE  ProvisioningInv'
        OBVIOUS
    <2>1. ASSUME NEW p \in Provisioner, Arrive(p) \/ Look(p) \/ DrawCode(p)
          PROVE  ProvisioningInv'
        BY <2>1, ArriveKeeps, LookKeeps, DrawKeeps
    <2>2. ASSUME NEW p \in Provisioner, InsertTenant(p) \/ InsertDomain(p) \/ InsertKey(p)
          PROVE  ProvisioningInv'
        BY <2>2, InsertKeeps
    <2>3. ASSUME NEW p \in Provisioner, CacheTenant(p) \/ CacheFails(p)
          PROVE  ProvisioningInv'
        BY <2>3, CacheKeeps, CacheFailKeeps
    <2>4. ASSUME NEW p \in Provisioner, Commit(p) \/ CommitUnheard(p) \/ FailCall(p)
          PROVE  ProvisioningInv'
        BY <2>4, CommitKeeps, FailKeeps
    <2>5. ASSUME NEW p \in Provisioner,
                 FindDomain(p) \/ LookUpRecord(p) \/ PanicOnCode(p) \/ MarkVerified(p)
          PROVE  ProvisioningInv'
        BY <2>5, FindKeeps, LookUpKeeps, PanicKeeps, MarkKeeps
    <2>6. CASE AddCustomDomain \/ PublishRecord
        BY <2>6, AddKeeps, RecordKeeps
    <2>7. CASE Rest \/ UNCHANGED vars
        BY <2>7, StutterKeeps DEF Rest
    <2>. QED  BY <2>1, <2>2, <2>3, <2>4, <2>5, <2>6, <2>7 DEF Next
<1>. QED  BY <1>1, <1>2, PTL DEF Spec

\* Every variable keeps its type: an id is given out once, no counter grows
\* past its bound.
THEOREM TypeCorrect == Spec => []TypeOK
BY ProvisioningInvariant, PTL DEF ProvisioningInv

\* CreateTenant and Migrate make a tenant, its domain and its API key together
\* or not at all.
THEOREM TenantsWhole == Spec => []TenantWhole
BY ProvisioningInvariant, PTL DEF ProvisioningInv

\* NextTenantCode gives no two tenants one code.
THEOREM CodesDistinct == Spec => []TenantCodesDistinct
BY ProvisioningInvariant, PTL DEF ProvisioningInv

\* Without overlapping calls the look-ups of CreateTenant and Migrate are
\* enough to keep slugs and the default tenant unique.
THEOREM SlugsDistinct == Spec => []TenantsDistinct
BY ProvisioningInvariant, PTL DEF ProvisioningInv

\* Redis knows every tenant cacheTenant was run for, and only calls that
\* failed leave more there than the database has.
THEOREM RedisKeepsUp == Spec => []RedisAgrees
BY ProvisioningInvariant, PTL DEF ProvisioningInv

\* VerifyDomain, with a lock that does not last, verifies no domain whose
\* record it has not seen.
THEOREM OnlyByRecord == Spec => []VerifiedByRecord
BY ProvisioningInvariant, PTL DEF ProvisioningInv
=============================================================================
