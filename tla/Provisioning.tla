---------------------------- MODULE Provisioning ----------------------------
(***************************************************************************)
(* Tenants, their domains and API keys (services/tenant, bootstrap, domain). *)
(*                                                                         *)
(* A Provisioner is a handler of some replica, or the start of a replica,   *)
(* which runs Migrate.  What a transaction writes is seen by nobody before  *)
(* it commits; what it sends to Redis is seen at once.  Ids are the numbers *)
(* of the calls that make them (snowflake ids).                            *)
(***************************************************************************)
EXTENDS Environment, Functions

CONSTANTS
    Provisioner,    \* the handlers and starts that may run at the same time
    Slug,           \* the slugs clients ask for
    NoSlug,         \* the slug of an empty name
    PlatformSlug,   \* the configured platform's id
    PlatformHost,   \* the configured platform's host name
    CustomHost      \* host names of the tenants' own

\* A slug also stands for its host name, the slug under the root domain.
Host == Slug \cup {NoSlug, PlatformHost} \cup CustomHost

ASSUME ProvisioningAssumption ==
    /\ PlatformSlug \in Slug /\ NoSlug \notin Slug
    /\ PlatformHost \notin Slug \cup {NoSlug} \cup CustomHost
    /\ CustomHost \cap (Slug \cup {NoSlug}) = {}

Id == 1..MaxCalls
Tenant == [slug : Slug \cup {NoSlug}, code : Nat, default : BOOLEAN]
Domain == [tenant : Id, host : Host, code : BOOLEAN, verified : BOOLEAN]
Job == [op : {"create", "migrate", "verify"}, name : Host]

VARIABLES
    tenants,    \* tenants: slug, code and is_default by id
    domains,    \* domains, with whether they have a verification code
    keys,       \* api_keys: the tenant each belongs to
    cachedIds,  \* Redis "tenant:{id}": the tenants described there
    codeOwner,  \* Redis "tenant:code:{code}": the tenant's id
    hostOwner,  \* Redis "tenant:domain:{host}": the same, 0 if unset
    published,  \* the custom hosts whose DNS TXT record carries their code
    step,       \* the next statement of each call
    job,        \* the request
    id,         \* the tenant it makes
    code,       \* the tenant code it drew
    written,    \* what its open transaction has inserted
    broken,     \* history: the calls that failed or died
    busy        \* history: two calls were at work at the same time

tables == <<tenants, domains, keys>>
cache == <<cachedIds, codeOwner, hostOwner>>
calls == <<step, job, id, code, written>>
vars == <<environment, tables, cache, published, calls, broken, busy>>

Step == {"idle", "look", "code", "tenant", "domain", "key", "cache", "commit",
         "find", "dns", "update"}
NoJob == [op |-> "create", name |-> NoSlug]

Init ==
    /\ EnvironmentInit
    /\ tenants = << >> /\ domains = {} /\ keys = {}
    /\ cachedIds = {} /\ codeOwner = << >>
    /\ hostOwner = [h \in Host |-> 0]
    /\ published = {}
    /\ step = [p \in Provisioner |-> "idle"]
    /\ job = [p \in Provisioner |-> NoJob]
    /\ id = [p \in Provisioner |-> 0]
    /\ code = [p \in Provisioner |-> 0]
    /\ written = [p \in Provisioner |-> {}]
    /\ broken = {} /\ busy = FALSE

----------------------------------------------------------------------------
Goto(p, next) == step' = [step EXCEPT ![p] = next]

\* The calls of P end and their transactions with them.
End(P) ==
    /\ step' = [p \in Provisioner |-> IF p \in P THEN "idle" ELSE step[p]]
    /\ job' = [p \in Provisioner |-> IF p \in P THEN NoJob ELSE job[p]]
    /\ id' = [p \in Provisioner |-> IF p \in P THEN 0 ELSE id[p]]
    /\ code' = [p \in Provisioner |-> IF p \in P THEN 0 ELSE code[p]]
    /\ written' = [p \in Provisioner |-> IF p \in P THEN {} ELSE written[p]]

\* The call answers.
Return(p) == End({p})

Break(P) == broken' = broken \cup {id[p] : p \in P}

FirstStep == [create |-> "look", migrate |-> "look", verify |-> "find"]

\* Mutation: Migrate leaves the id to the database.
ArriveWithoutId(p) ==
    /\ step[p] = "idle" /\ served < MaxCalls
    /\ served' = served + 1
    /\ \E j \in Job :
          /\ j.op = "migrate" /\ j.name = PlatformSlug
          /\ Goto(p, FirstStep[j.op])
          /\ job' = [job EXCEPT ![p] = j]
    /\ busy' = (busy \/ \E q \in Provisioner : step[q] # "idle")
    /\ UNCHANGED <<redis, time, faults, tables, cache, published, id, code, written, broken>>

\* A call arrives, or a replica starts.  Calls that are refused at once are left
\* out: any where the platform is not configured, VerifyDomain of an unknown host.
Arrive(p) ==
    /\ step[p] = "idle" /\ served < MaxCalls
    /\ served' = served + 1
    /\ \E j \in Job :
          /\ j.op = "create" => j.name \in Slug \cup {NoSlug}
          /\ j.op = "migrate" => j.name = PlatformSlug
          /\ j.op = "verify" => \E d \in domains : d.host = j.name
          /\ Goto(p, FirstStep[j.op])
          /\ job' = [job EXCEPT ![p] = j]
          /\ id' = [id EXCEPT ![p] = IF j.op = "verify" THEN 0 ELSE served + 1]
    /\ busy' = (busy \/ \E q \in Provisioner : step[q] # "idle")
    /\ UNCHANGED <<redis, time, faults, tables, cache, published, code, written, broken>>

DefaultTenants == {t \in DOMAIN tenants : tenants[t].default}

\* gorm drops an empty slug from the filter: any tenant has it.
WithSlug(slug) == {t \in DOMAIN tenants : slug = NoSlug \/ tenants[t].slug = slug}

\* Mutation: a default tenant does not keep Migrate from going on.
LookForSlug(p) ==
    /\ step[p] = "look"
    /\ IF \E t \in DOMAIN tenants : tenants[t].slug = job[p].name /\ ~tenants[t].default
       THEN Return(p)
       ELSE Goto(p, "code") /\ UNCHANGED <<job, id, code, written>>
    /\ UNCHANGED <<environment, tables, cache, published, broken, busy>>

\* CreateTenant looks the slug up, Migrate the default tenant, both outside
\* the transaction that relies on it.
Look(p) ==
    /\ step[p] = "look"
    /\ IF (IF job[p].op = "migrate" THEN DefaultTenants ELSE WithSlug(job[p].name)) # {}
       THEN Return(p)
       ELSE Goto(p, "code") /\ UNCHANGED <<job, id, code, written>>
    /\ UNCHANGED <<environment, tables, cache, published, broken, busy>>

\* Mutation: the counter is read and written back, not incremented.
DrawLastCode(p) ==
    /\ step[p] = "code"
    /\ code' = [code EXCEPT ![p] = Cardinality(DOMAIN tenants) + 1]
    /\ Increment(TenantKey)
    /\ Goto(p, "tenant")
    /\ UNCHANGED <<time, served, faults, tables, cache, published, job, id, written, broken, busy>>

\* NextTenantCode.
DrawCode(p) ==
    /\ step[p] = "code"
    /\ code' = [code EXCEPT ![p] = counter[TenantKey] + 1]
    /\ Increment(TenantKey)
    /\ Goto(p, "tenant")
    /\ UNCHANGED <<time, served, faults, tables, cache, published, job, id, written, broken, busy>>

\* An insert of the transaction.
Insert(p, table, next) ==
    /\ step[p] = table
    /\ written' = [written EXCEPT ![p] = @ \cup {table}]
    /\ Goto(p, next)
    /\ UNCHANGED <<environment, tables, cache, published, job, id, code, broken, busy>>

InsertTenant(p) == Insert(p, "tenant", "domain")
InsertDomain(p) == Insert(p, "domain", "key")

\* Mutation: an API key whose secret cannot be hashed is left out.
InsertKeyOrNot(p) ==
    \/ Insert(p, "key", IF job[p].op = "create" THEN "cache" ELSE "commit")
    \/ /\ step[p] = "key"
       /\ Goto(p, "commit")
       /\ UNCHANGED <<environment, tables, cache, published, job, id, code, written, broken, busy>>

\* A new secret's hash; nobody is told the secret.  Migrate ends here, only
\* CreateTenant writes to Redis.
InsertKey(p) == Insert(p, "key", IF job[p].op = "create" THEN "cache" ELSE "commit")

\* The first n of the pipeline's three SETs.
Sets(p, n) ==
    /\ cachedIds' = IF n >= 1 THEN cachedIds \cup {id[p]} ELSE cachedIds
    /\ codeOwner' = IF n >= 2
                  THEN [c \in DOMAIN codeOwner \cup {code[p]} |->
                          IF c = code[p] THEN id[p] ELSE codeOwner[c]]
                  ELSE codeOwner
    /\ hostOwner' = IF n >= 3 THEN [hostOwner EXCEPT ![job[p].name] = id[p]] ELSE hostOwner

\* Mutation: the domain's key is written after the answer, if at all.
CacheTwo(p) ==
    /\ step[p] = "cache"
    /\ Sets(p, 2) /\ Goto(p, "commit")
    /\ UNCHANGED <<environment, tables, published, job, id, code, written, broken, busy>>

\* cacheTenant, inside the transaction.
CacheTenant(p) ==
    /\ step[p] = "cache"
    /\ Sets(p, 3) /\ Goto(p, "commit")
    /\ UNCHANGED <<environment, tables, published, job, id, code, written, broken, busy>>

\* The pipeline fails after some of it was done, and the transaction with it.
CacheFails(p) ==
    /\ step[p] = "cache" /\ Fault
    /\ \E n \in 1..3 : Sets(p, n)
    /\ Return(p) /\ Break({p})
    /\ UNCHANGED <<redis, time, served, tables, published, busy>>

NewTenant(p) ==
    [slug |-> job[p].name, code |-> code[p], default |-> job[p].op = "migrate"]

\* A system domain counts as verified; it needs no code.
NewDomain(p) ==
    [tenant |-> id[p], host |-> IF job[p].op = "migrate" THEN PlatformHost ELSE job[p].name,
     code |-> FALSE, verified |-> TRUE]

\* What the transaction inserted becomes visible.
Publish(p) ==
    /\ tenants' = IF "tenant" \notin written[p] THEN tenants
                  ELSE [t \in DOMAIN tenants \cup {id[p]} |->
                          IF t = id[p] THEN NewTenant(p) ELSE tenants[t]]
    /\ domains' = domains \cup (IF "domain" \in written[p] THEN {NewDomain(p)} ELSE {})
    /\ keys' = keys \cup (IF "key" \in written[p] THEN {id[p]} ELSE {})

\* What GetTenant may answer: gorm drops an empty id, here 0, from the filter.
GetTenant(t) == {tenants[u] : u \in {v \in DOMAIN tenants : t \in {0, v}}}

\* CreateTenant answers with what GetTenant reads back.
Commit(p) ==
    /\ step[p] = "commit"
    /\ Publish(p)
    /\ Return(p)
    /\ UNCHANGED <<environment, cache, published, broken, busy>>

\* The commit is done, its reply lost: the caller is told it failed.
CommitUnheard(p) ==
    /\ step[p] = "commit" /\ Fault
    /\ Publish(p)
    /\ Return(p) /\ Break({p})
    /\ UNCHANGED <<redis, time, served, cache, published, busy>>

\* A statement fails, or the replica dies: the transaction is rolled back.
FailCall(p) ==
    /\ step[p] # "idle" /\ Fault
    /\ Return(p) /\ Break({p})
    /\ UNCHANGED <<redis, time, served, tables, cache, published, busy>>

----------------------------------------------------------------------------
\* Nothing in the repository creates a domain of a tenant's own, or the TXT
\* record that proves it; VerifyDomain reads both.
AddCustomDomain ==
    /\ \E t \in DOMAIN tenants, h \in CustomHost, c \in BOOLEAN :
          /\ \A d \in domains : d.host # h
          /\ domains' = domains \cup {[tenant |-> t, host |-> h, code |-> c, verified |-> FALSE]}
    /\ UNCHANGED <<environment, tenants, keys, cache, published, calls, broken, busy>>

PublishRecord ==
    /\ \E d \in domains :
          /\ d.code /\ d.host \notin published
          /\ published' = published \cup {d.host}
    /\ UNCHANGED <<environment, tables, cache, calls, broken, busy>>

\* VerifyDomain reads the row of a tenant and host FOR UPDATE, outside a
\* transaction: the lock ends with the statement.
FindDomain(p) ==
    /\ step[p] = "find"
    /\ IF \E d \in domains : d.host = job[p].name /\ ~d.verified
       THEN Goto(p, "dns") /\ UNCHANGED <<job, id, code, written>>
       ELSE Return(p)
    /\ UNCHANGED <<environment, tables, cache, published, broken, busy>>

\* ListDomains of a tenant; without one, of all.
ListDomains(t) == {d \in domains : t \in {0, d.tenant}}

Asked(p) == CHOOSE d \in domains : d.host = job[p].name

\* Mutation: the resolvers' answer is not waited for.
TrustRecord(p) ==
    /\ step[p] = "dns" /\ Asked(p).code
    /\ Goto(p, "update")
    /\ UNCHANGED <<environment, tables, cache, published, job, id, code, written, broken, busy>>

\* VerifyDNSRecord asks two public resolvers and then the system's: each may
\* fail, or not know the record yet.  No other way of verifying is supported.
LookUpRecord(p) ==
    /\ step[p] = "dns" /\ Asked(p).code
    /\ \/ /\ Asked(p).host \in published
          /\ Goto(p, "update") /\ UNCHANGED <<job, id, code, written>>
       \/ Return(p)
    /\ UNCHANGED <<environment, tables, cache, published, broken, busy>>

\* A domain without a verification code: a nil pointer is dereferenced, which
\* ends the process and every call it serves, or only this call where net/http
\* recovers it.
PanicOnCode(p) ==
    /\ step[p] = "dns" /\ ~Asked(p).code
    /\ \E P \in SUBSET Provisioner : p \in P /\ End(P) /\ Break(P)
    /\ UNCHANGED <<environment, tables, cache, published, busy>>

MarkVerified(p) ==
    /\ step[p] = "update"
    /\ domains' = (domains \ {Asked(p)}) \cup {[Asked(p) EXCEPT !.verified = TRUE]}
    /\ Return(p)
    /\ UNCHANGED <<environment, tenants, keys, cache, published, broken, busy>>

----------------------------------------------------------------------------
\* All calls were served.
Rest ==
    /\ served = MaxCalls /\ \A p \in Provisioner : step[p] = "idle"
    /\ UNCHANGED vars

Next ==
    \/ \E p \in Provisioner :
          \/ Arrive(p) \/ Look(p) \/ DrawCode(p)
          \/ InsertTenant(p) \/ InsertDomain(p) \/ InsertKey(p)
          \/ CacheTenant(p) \/ CacheFails(p)
          \/ Commit(p) \/ CommitUnheard(p) \/ FailCall(p)
          \/ FindDomain(p) \/ LookUpRecord(p) \/ PanicOnCode(p) \/ MarkVerified(p)
    \/ AddCustomDomain \/ PublishRecord \/ Rest

Spec == Init /\ [][Next]_vars

----------------------------------------------------------------------------
TypeOK ==
    /\ EnvironmentTypeOK
    /\ DOMAIN tenants \subseteq Id
    /\ \A t \in DOMAIN tenants : tenants[t] \in Tenant
    /\ domains \subseteq Domain /\ keys \subseteq Id
    /\ cachedIds \subseteq Id
    /\ \A c \in DOMAIN codeOwner : c \in Nat /\ codeOwner[c] \in Id
    /\ hostOwner \in [Host -> Id \cup {0}]
    /\ published \subseteq CustomHost
    /\ step \in [Provisioner -> Step]
    /\ job \in [Provisioner -> Job]
    /\ id \in [Provisioner -> Id \cup {0}]
    /\ code \in [Provisioner -> Nat]
    /\ written \in [Provisioner -> SUBSET {"tenant", "domain", "key"}]
    /\ broken \subseteq Id \cup {0} /\ busy \in BOOLEAN

\* A tenant, its one domain under the platform and its API key exist together,
\* whatever fails or dies in between: the "single transactional flow" of
\* CreateTenant and Migrate.
TenantWhole ==
    /\ keys = DOMAIN tenants
    /\ \A t \in DOMAIN tenants :
          \E d \in domains : {e \in ListDomains(t) : e.host \notin CustomHost} = {d}
    /\ \A d \in domains : d.tenant \in DOMAIN tenants

\* No two tenants have one code, whatever calls race, fail or draw a code and
\* then make no tenant.
TenantCodesDistinct ==
    \A t, u \in DOMAIN tenants : tenants[t].code = tenants[u].code => t = u

\* Calls that do not overlap make one default tenant, and two tenants with one
\* slug only if one is the default: Migrate looks for a default tenant, not
\* for the platform's slug.
TenantsDistinct ==
    ~busy => \A t, u \in DOMAIN tenants :
        /\ tenants[t].default /\ tenants[u].default => t = u
        /\ tenants[t].slug = tenants[u].slug /\ tenants[t].default = tenants[u].default
              => t = u

\* Redis knows every tenant CreateTenant made by its id and its code, and by
\* its host if no calls overlapped; and it knows no tenant the database lacks
\* except those of calls still running, failed or dead.
RedisAgrees ==
    /\ \A t \in DOMAIN tenants : ~tenants[t].default =>
          /\ t \in cachedIds
          /\ tenants[t].code \in DOMAIN codeOwner /\ codeOwner[tenants[t].code] = t
          /\ ~busy => hostOwner[tenants[t].slug] = t
    /\ \A t \in cachedIds \ (broken \cup Range(id)) : GetTenant(t) # {}

\* A tenant's own domain is verified only once its TXT record carried its code.
VerifiedByRecord ==
    \A d \in domains :
        d.verified /\ d.host \in CustomHost => d.code /\ d.host \in published
=============================================================================
