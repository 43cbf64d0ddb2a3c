--------------------------- MODULE CatalogProofs ---------------------------
(***************************************************************************)
(* Proofs about Catalog, for any handlers and bounds.                      *)
(*                                                                         *)
(* The argument: a daily counter is only dropped in the last two seconds of *)
(* its day or after, so until then every code in use has a number the       *)
(* counter has reached and the next one is new.  A call that met no other writes back   *)
(* the row it read, with the fields it was asked to change.                 *)
(***************************************************************************)
EXTENDS Catalog, TLAPS

\* What a handler holds at its next statement.
HandlersOK ==
    \A h \in Handler :
        /\ phase[h] # "idle" =>
              /\ made[h] \in 1..served /\ request[h].on < made[h]
              /\ 2 * request[h].day <= time
        /\ phase[h] \in {"incr", "expire"} => request[h].op \in {"create", "pay"}
        /\ phase[h] = "expire" => drawn[h] \in Code
        /\ phase[h] \in {"read", "write"} => request[h].on # 0
        /\ phase[h] = "write" => row[h] \in Campaign /\ row[h].rule <= request[h].on
        /\ phase[h] = "insert" =>
              /\ request[h].op \in {"create", "pay", "clone"}
              /\ request[h].op = "create" => drawn[h] \in Code
              /\ request[h].op = "clone" => row[h] \in Campaign /\ row[h].rule < made[h]
        /\ phase[h] = "settle" => request[h].on \in DOMAIN transactions

\* An id belongs to one handler or one row, and a row's code and rule stay.
IdsOK ==
    /\ \A i \in DOMAIN campaigns \cup DOMAIN transactions : i <= served
    /\ \A c \in DOMAIN campaigns : campaigns[c].rule <= c
    /\ \A g, h \in Handler : phase[g] # "idle" /\ phase[h] # "idle" =>
          /\ made[g] = made[h] => g = h
          /\ made[g] # request[h].on
    /\ \A h \in Handler : phase[h] # "idle" =>
          made[h] \notin DOMAIN campaigns \cup DOMAIN transactions
    /\ \A h \in Handler : phase[h] = "write" /\ request[h].on \in DOMAIN campaigns =>
          /\ row[h].code = campaigns[request[h].on].code
          /\ row[h].rule = campaigns[request[h].on].rule

\* The code's counter has reached its number, or its day is at its end.
Counted(c) == c[2] <= counter[c[1]] \/ time >= 2 * c[1][2] + 1

CountersOK ==
    /\ \A k \in Key : expiry[k] # NoExpiry => expiry[k] >= k[2]
    /\ \A c \in DOMAIN campaigns : Counted(campaigns[c].code)
    /\ \A t \in DOMAIN transactions : transactions[t].code # NoCode => Counted(transactions[t].code)
    /\ \A h \in Handler : drawn[h] # NoCode => Counted(drawn[h])
    /\ \A h \in Handler : row[h] # NoRow => Counted(row[h].code)

\* A code drawn and not used yet is nobody else's.
DrawnOK ==
    ~late =>
        /\ \A g, h \in Handler : drawn[g] = drawn[h] /\ drawn[g] # NoCode => g = h
        /\ \A h \in Handler : drawn[h] # NoCode =>
              /\ \A c \in DOMAIN campaigns : campaigns[c].rule = c => drawn[h] # campaigns[c].code
              /\ \A t \in DOMAIN transactions : drawn[h] # transactions[t].code

\* Each transaction without a code cost a fault.
Blank(h) == phase[h] = "insert" /\ request[h].op = "pay" /\ drawn[h] = NoCode
Uncoded == {t \in DOMAIN transactions : transactions[t].code = NoCode}

FaultsOK ==
    /\ \A h \in Handler : Blank(h) => faults >= 1
    /\ Uncoded # {} => faults >= 1
    /\ \A g, h \in Handler : Blank(g) /\ Blank(h) /\ g # h => faults >= 2
    /\ \A h \in Handler : Blank(h) /\ Uncoded # {} => faults >= 2

\* Calls that met no other: the row read is still the row.
AloneOK ==
    ~overlapped =>
        /\ \A g, h \in Handler : phase[g] # "idle" /\ phase[h] # "idle" => g = h
        /\ campaigns = intended
        /\ \A h \in Handler : phase[h] = "write" /\ request[h].on \in DOMAIN campaigns =>
              row[h] = campaigns[request[h].on]

CatalogInv ==
    /\ TypeOK /\ HandlersOK /\ IdsOK /\ CountersOK /\ DrawnOK /\ FaultsOK /\ AloneOK
    /\ CodesUnique

USE EnvironmentAssumption
USE DEF redis, environment, book, handling, vars

LEMMA CodesTyped ==
    /\ NoCode \notin Code
    /\ \A c \in Code : c[1] \in Key /\ c[2] \in Nat /\ c[1][2] \in 0..MaxTime /\ c # parseID(c)
    /\ NoCode # parseID(NoCode)
    /\ NoRow \notin Campaign
<1>1. ASSUME NEW c \in Code
      PROVE  /\ c[1] \in Key /\ c[2] \in Nat /\ c[1][2] \in 0..MaxTime
             /\ c[1][1] \in {"T", "CMP", "TXN"}
    BY DEF Code, Key
<1>2. NoCode \notin Code
    BY DEF NoCode, Code
<1>3. \A c : parseID(c)[1][1] = "0" /\ parseID(c) # NoCode
    BY DEF parseID, NoCode
<1>4. NoRow \notin Campaign
    BY <1>2 DEF NoRow, Campaign
<1>. QED  BY <1>1, <1>2, <1>3, <1>4

\* The clock's day.
LEMMA Days ==
    ASSUME EnvironmentTypeOK
    PROVE  /\ Today \in 0..MaxTime
           /\ time \in {2 * Today, 2 * Today + 1}
    BY DEF EnvironmentTypeOK, Today

LEMMA KeyTyped ==
    ASSUME TypeOK, NEW h \in Handler
    PROVE  DailyKey(h) \in Key /\ DailyKey(h)[2] = request[h].day /\ request[h].day \in 0..MaxTime
    BY DEF TypeOK, DailyKey, Key, Request

\* What a handler that answers leaves.
LEMMA AnswerSets ==
    ASSUME TypeOK, NEW h \in Handler, Answer(h)
    PROVE  /\ phase' \in [Handler -> Phase] /\ request' \in [Handler -> Request]
           /\ made' \in [Handler -> RowId \cup {0}] /\ drawn' \in [Handler -> Code \cup {NoCode}]
           /\ row' \in [Handler -> Campaign \cup {NoRow}]
           /\ phase'[h] = "idle" /\ drawn'[h] = NoCode /\ row'[h] = NoRow
           /\ \A g \in Handler \ {h} :
                 /\ phase'[g] = phase[g] /\ request'[g] = request[g] /\ made'[g] = made[g]
                 /\ drawn'[g] = drawn[g] /\ row'[g] = row[g]
<1>1. NoRequest \in Request
    BY DEF NoRequest, Request, Reward
<1>2. "idle" \in Phase
    BY DEF Phase
<1>. QED  BY <1>1, <1>2 DEF TypeOK, Answer

\* A step of Redis and the clock that makes no used number new again.
RedisKept ==
    /\ EnvironmentTypeOK'
    /\ time <= time' /\ served <= served' /\ faults <= faults'
    /\ \A k \in Key : expiry'[k] # NoExpiry => expiry'[k] >= k[2]
    /\ \A c \in Code : Counted(c) => Counted(c)'

LEMMA StillKept ==
    ASSUME CatalogInv, UNCHANGED <<redis, time>>,
           served' \in 0..MaxCalls, served <= served', faults' \in 0..MaxFaults, faults <= faults'
    PROVE  RedisKept
BY DEF CatalogInv, TypeOK, EnvironmentTypeOK, CountersOK, RedisKept, Counted

LEMMA TickKept ==
    ASSUME CatalogInv, Tick
    PROVE  RedisKept
<1>. USE DEF CatalogInv
<1>e. EnvironmentTypeOK  BY DEF TypeOK
<1>t. time' = time + 1 /\ UNCHANGED <<counter, expiry, served, faults>> /\ time < MaxTime
    BY DEF Tick, redis
<1>1. EnvironmentTypeOK'
    BY <1>e, <1>t DEF EnvironmentTypeOK
<1>2. ASSUME NEW c \in Code, Counted(c)
      PROVE  Counted(c)'
    <2>1. c[1][2] \in 0..MaxTime
        BY CodesTyped
    <2>. QED  BY <1>2, <1>e, <1>t, <2>1 DEF Counted, EnvironmentTypeOK
<1>. QED  BY <1>1, <1>2, <1>e, <1>t DEF RedisKept, EnvironmentTypeOK, CountersOK

\* A key that goes is one whose day is at its end.
LEMMA DropKept ==
    ASSUME CatalogInv, NEW key \in Key, Drop(key)
    PROVE  RedisKept
<1>. USE DEF CatalogInv
<1>e. EnvironmentTypeOK  BY DEF TypeOK
<1>t. UNCHANGED <<time, served, faults>>
    BY DEF Drop
<1>f. /\ counter' = [k \in Key |-> IF k = key THEN 0 ELSE counter[k]]
      /\ expiry' = [k \in Key |-> IF k = key THEN NoExpiry ELSE expiry[k]]
    BY DEF Drop, Forget
<1>g. time >= 2 * key[2] + 1
    <2>1. expiry[key] >= key[2] /\ expiry[key] \in 0..MaxTime /\ time >= 2 * expiry[key] + 1
        BY <1>e DEF Drop, Ending, CountersOK, EnvironmentTypeOK
    <2>2. key[2] \in 0..MaxTime
        BY DEF Key
    <2>. QED  BY <1>e, <2>1, <2>2 DEF EnvironmentTypeOK
<1>1. EnvironmentTypeOK'
    BY <1>e, <1>f, <1>t DEF EnvironmentTypeOK
<1>2. \A k \in Key : expiry'[k] # NoExpiry => expiry'[k] >= k[2]
    BY <1>f DEF CountersOK
<1>3. ASSUME NEW c \in Code, Counted(c)
      PROVE  Counted(c)'
    <2>1. c[1] \in Key  BY CodesTyped
    <2>2. CASE c[1] = key
        BY <1>g, <1>t, <2>2 DEF Counted
    <2>3. CASE c[1] # key
        BY <1>3, <1>f, <1>t, <2>1, <2>3 DEF Counted
    <2>. QED  BY <2>2, <2>3
<1>. QED  BY <1>1, <1>2, <1>3, <1>e, <1>t DEF RedisKept, EnvironmentTypeOK

\* EXPIRE of a daily key whose day has begun.
LEMMA SetExpiryKept ==
    ASSUME CatalogInv, NEW key \in Key, SetExpiry(key), 2 * key[2] <= time,
           UNCHANGED <<time, served, faults>>
    PROVE  RedisKept
<1>. USE DEF CatalogInv
<1>e. EnvironmentTypeOK  BY DEF TypeOK
<1>k. key[2] \in 0..MaxTime  BY DEF Key
<1>f. /\ expiry' = [expiry EXCEPT ![key] = IF counter[key] = 0 THEN @ ELSE Today]
      /\ counter' = counter
    BY DEF SetExpiry
<1>t. Today \in 0..MaxTime /\ Today >= key[2]
    BY <1>e, <1>k, Days
<1>1. EnvironmentTypeOK'
    BY <1>e, <1>f, <1>t DEF EnvironmentTypeOK
<1>2. \A k \in Key : expiry'[k] # NoExpiry => expiry'[k] >= k[2]
    BY <1>e, <1>f, <1>t DEF CountersOK, EnvironmentTypeOK
<1>3. \A c \in Code : Counted(c) => Counted(c)'
    BY <1>f DEF Counted
<1>. QED  BY <1>e, <1>1, <1>2, <1>3 DEF RedisKept, EnvironmentTypeOK

\* A handler answers and has written nothing.
LEMMA AnswerKeeps ==
    ASSUME CatalogInv, NEW h \in Handler, Answer(h),
           UNCHANGED <<redis, time, served, campaigns, intended, overlapped, late, refused>>,
           faults' \in 0..MaxFaults, faults <= faults',
           DOMAIN transactions' = DOMAIN transactions,
           \A t \in DOMAIN transactions : transactions'[t] = transactions[t]
    PROVE  CatalogInv'
<1>. USE DEF CatalogInv
<1>a. /\ phase' \in [Handler -> Phase] /\ request' \in [Handler -> Request]
      /\ made' \in [Handler -> RowId \cup {0}] /\ drawn' \in [Handler -> Code \cup {NoCode}]
      /\ row' \in [Handler -> Campaign \cup {NoRow}]
      /\ phase'[h] = "idle" /\ drawn'[h] = NoCode /\ row'[h] = NoRow
      /\ \A g \in Handler \ {h} :
            /\ phase'[g] = phase[g] /\ request'[g] = request[g] /\ made'[g] = made[g]
            /\ drawn'[g] = drawn[g] /\ row'[g] = row[g]
    BY AnswerSets
<1>1. TypeOK'
    BY <1>a DEF TypeOK, EnvironmentTypeOK
<1>2. HandlersOK'
    BY <1>a DEF HandlersOK
<1>3. IdsOK'
    BY <1>a DEF IdsOK
<1>4. CountersOK'
    BY <1>a DEF CountersOK, Counted
<1>5. DrawnOK'
    BY <1>a DEF DrawnOK
<1>6. FaultsOK'
    BY <1>a DEF FaultsOK, Blank, Uncoded, TypeOK, EnvironmentTypeOK
<1>7. AloneOK'
    BY <1>a DEF AloneOK
<1>8. CodesUnique'
    BY DEF CodesUnique, TypeOK, EnvironmentTypeOK
<1>. QED  BY <1>1, <1>2, <1>3, <1>4, <1>5, <1>6, <1>7, <1>8

LEMMA FailKeeps ==
    ASSUME CatalogInv, NEW h \in Handler, FailHandler(h)
    PROVE  CatalogInv'
<1>1. faults' \in 0..MaxFaults /\ faults <= faults'
    BY DEF FailHandler, Fault, CatalogInv, TypeOK, EnvironmentTypeOK
<1>. QED  BY <1>1, AnswerKeeps DEF FailHandler

\* The code of a transaction is never the number of a row.
LEMMA SettleKeeps ==
    ASSUME CatalogInv, NEW h \in Handler, UpdateTransactionStatus(h)
    PROVE  CatalogInv'
<1>. DEFINE found == GetTransaction(transactions[request[h].on].code)
<1>1. TypeOK /\ HandlersOK  BY DEF CatalogInv
<1>2. request[h].on \in DOMAIN transactions
    BY <1>1 DEF HandlersOK, UpdateTransactionStatus
<1>3. \A t \in DOMAIN transactions : transactions[t].code \in Code \cup {NoCode}
    BY <1>1 DEF TypeOK, Transaction
<1>4. \A c, d \in Code \cup {NoCode} : c # parseID(d)
    BY CodesTyped DEF parseID, Code, Key, NoCode
<1>5. found = {}
    BY <1>2, <1>3, <1>4 DEF GetTransaction
<1>. HIDE DEF found
<1>6. DOMAIN transactions' = DOMAIN transactions
    BY DEF UpdateTransactionStatus
<1>7. ASSUME NEW t \in DOMAIN transactions
      PROVE  transactions'[t] = transactions[t]
    BY <1>5 DEF UpdateTransactionStatus, found
<1>8. faults' \in 0..MaxFaults /\ faults <= faults'
    BY <1>1 DEF UpdateTransactionStatus, TypeOK, EnvironmentTypeOK
<1>. QED  BY <1>6, <1>7, <1>8, AnswerKeeps DEF UpdateTransactionStatus

\* The clock or EXPIRE moves, and a handler may come to its insert.
LEMMA MoveKeeps ==
    ASSUME CatalogInv, RedisKept, UNCHANGED <<book, request, made, drawn, row>>,
           UNCHANGED <<served, intended, overlapped, late, refused>>,
           phase' \in [Handler -> Phase],
           \A g \in Handler : phase'[g] # phase[g] => phase[g] = "expire" /\ phase'[g] = "insert"
    PROVE  CatalogInv'
<1>. USE DEF CatalogInv
<1>e. \A g \in Handler : phase'[g] = "idle" <=> phase[g] = "idle"
    OBVIOUS
<1>1. TypeOK'
    BY DEF TypeOK, RedisKept
<1>2. HandlersOK'
    BY <1>e DEF HandlersOK, RedisKept, EnvironmentTypeOK, TypeOK, Request
<1>3. IdsOK'
    BY <1>e DEF IdsOK
<1>4. CountersOK'
    BY CodesTyped DEF CountersOK, RedisKept, TypeOK, Campaign, Transaction
<1>5. DrawnOK'
    BY DEF DrawnOK
<1>6. FaultsOK'
    <2>1. \A g \in Handler : Blank(g)' => Blank(g)
        BY CodesTyped DEF Blank, HandlersOK
    <2>. QED  BY <2>1 DEF FaultsOK, Uncoded, RedisKept, TypeOK, EnvironmentTypeOK
<1>7. AloneOK'
    BY <1>e DEF AloneOK
<1>8. CodesUnique'
    BY DEF CodesUnique, RedisKept, TypeOK, EnvironmentTypeOK
<1>. QED  BY <1>1, <1>2, <1>3, <1>4, <1>5, <1>6, <1>7, <1>8

LEMMA PassTimeKeeps ==
    ASSUME CatalogInv, PassTime \/ DropCounter
    PROVE  CatalogInv'
<1>1. RedisKept
    BY TickKept, DropKept DEF PassTime, DropCounter
<1>2. phase' = phase /\ phase' \in [Handler -> Phase]
    BY DEF PassTime, DropCounter, handling, CatalogInv, TypeOK
<1>3. UNCHANGED <<served, faults>>
    BY DEF PassTime, DropCounter, Tick, Drop
<1>. QED  BY <1>1, <1>2, <1>3, MoveKeeps DEF PassTime, DropCounter

LEMMA ExpireKeeps ==
    ASSUME CatalogInv, NEW h \in Handler, Expire(h) \/ ExpireFails(h)
    PROVE  CatalogInv'
<1>. TypeOK /\ HandlersOK  BY DEF CatalogInv
<1>1. DailyKey(h) \in Key /\ 2 * DailyKey(h)[2] <= time
    BY KeyTyped DEF HandlersOK, Expire, ExpireFails
<1>2. RedisKept
    <2>1. CASE Expire(h)
        BY <1>1, <2>1, SetExpiryKept DEF Expire
    <2>2. CASE ExpireFails(h)
        BY <2>2, StillKept DEF ExpireFails, Fault, TypeOK, EnvironmentTypeOK
    <2>. QED  BY <2>1, <2>2
<1>3. /\ phase' \in [Handler -> Phase]
      /\ \A g \in Handler : phase'[g] # phase[g] => phase[g] = "expire" /\ phase'[g] = "insert"
    BY DEF Expire, ExpireFails, Proceed, TypeOK, Phase
<1>. QED  BY <1>2, <1>3, MoveKeeps DEF Expire, ExpireFails

\* What a new request is about.
LEMMA NewRequests ==
    ASSUME CatalogInv, NEW r \in NewRequest
    PROVE  /\ r \in Request /\ r.day = Today
           /\ r.on \in DOMAIN campaigns \cup DOMAIN transactions \cup {0}
           /\ FirstPhase[r.op] \in {"incr", "read", "delete", "settle"}
           /\ FirstPhase[r.op] = "incr" => r.op \in {"create", "pay"}
           /\ FirstPhase[r.op] = "read" => r.on # 0
           /\ FirstPhase[r.op] = "settle" => r.on \in DOMAIN transactions
<1>. TypeOK  BY DEF CatalogInv
<1>. DEFINE starts == {NoStart, Today + 1}
<1>1. Today \in 0..MaxTime
    BY Days DEF TypeOK
<1>2. starts \subseteq Start \cup {NoStart}
    BY <1>1 DEF Start
<1>4. DOMAIN campaigns \subseteq RowId /\ DOMAIN transactions \subseteq RowId
    BY DEF TypeOK
<1>f. /\ FirstPhase["create"] = "incr" /\ FirstPhase["pay"] = "incr"
      /\ FirstPhase["update"] = "read" /\ FirstPhase["clone"] = "read"
      /\ FirstPhase["delete"] = "delete" /\ FirstPhase["settle"] = "settle"
    BY DEF FirstPhase
<1>. DEFINE Fits == /\ r \in Request /\ r.day = Today
                    /\ \/ r.op \in {"create", "pay"} /\ r.on = 0
                       \/ r.op \in {"update", "clone", "delete"} /\ r.on \in DOMAIN campaigns
                       \/ r.op = "settle" /\ r.on \in DOMAIN transactions
<1>a. SUFFICES Fits
    BY <1>4, <1>f DEF RowId
<1>b. \A op \in {"create", "pay", "update", "delete", "clone", "settle"}, on \in RowId \cup {0} :
         /\ Ask(op, on) \in Request /\ Ask(op, on).day = Today
         /\ Ask(op, on).op = op /\ Ask(op, on).on = on
    BY <1>1 DEF Ask, NoRequest, Request, Reward
<1>c. \A s \in starts :
         /\ AskCreate(s) \in Request /\ AskCreate(s).day = Today
         /\ AskCreate(s).op = "create" /\ AskCreate(s).on = 0
    BY <1>1, <1>2 DEF AskCreate, Ask, NoRequest, Request, Reward
<1>d. \A c \in DOMAIN campaigns, u \in {"ACTIVE", "unspecified"}, s \in starts, t \in Reward,
         v \in Reward :
         /\ AskUpdate(c, u, s, t, v) \in Request /\ AskUpdate(c, u, s, t, v).day = Today
         /\ AskUpdate(c, u, s, t, v).op = "update" /\ AskUpdate(c, u, s, t, v).on = c
    <2>. SUFFICES ASSUME NEW c \in DOMAIN campaigns, NEW u \in {"ACTIVE", "unspecified"},
                         NEW s \in starts, NEW t \in Reward, NEW v \in Reward
                  PROVE  /\ AskUpdate(c, u, s, t, v) \in Request
                         /\ AskUpdate(c, u, s, t, v).day = Today
                         /\ AskUpdate(c, u, s, t, v).op = "update"
                         /\ AskUpdate(c, u, s, t, v).on = c
        OBVIOUS
    <2>1. c \in RowId /\ s \in Start \cup {NoStart}
        BY <1>2, <1>4
    <2>2. /\ Ask("update", c) \in Request /\ Ask("update", c).day = Today
          /\ Ask("update", c).op = "update" /\ Ask("update", c).on = c
        BY <1>b, <2>1
    <2>. QED  BY <2>1, <2>2 DEF AskUpdate, Request, CampaignStatus
<1>h. \A c \in DOMAIN campaigns :
         /\ AskRule(c) \in Request /\ AskRule(c).day = Today
         /\ AskRule(c).op = "update" /\ AskRule(c).on = c
    <2>. SUFFICES ASSUME NEW c \in DOMAIN campaigns
                  PROVE  /\ AskRule(c) \in Request /\ AskRule(c).day = Today
                         /\ AskRule(c).op = "update" /\ AskRule(c).on = c
        OBVIOUS
    <2>1. /\ Ask("update", c) \in Request /\ Ask("update", c).day = Today
          /\ Ask("update", c).op = "update" /\ Ask("update", c).on = c
        BY <1>4, <1>b
    <2>. QED  BY <2>1 DEF AskRule, Request
<1>. DEFINE mine == {Ask(o, c) : o \in {"delete", "clone"}, c \in DOMAIN campaigns}
            rules == {AskRule(c) : c \in DOMAIN campaigns}
            rewards == {AskUpdate(c, "unspecified", NoStart, "VOUCHER", v) :
                          c \in DOMAIN campaigns, v \in {"VOUCHER", "none"}}
            states == {AskUpdate(c, u, s, "none", "none") :
                         c \in DOMAIN campaigns, u \in {"ACTIVE", "unspecified"}, s \in starts}
<1>g. NoStart \in starts
    OBVIOUS
<1>e. NewRequest = {AskCreate(s) : s \in starts} \cup {Ask("pay", 0)} \cup mine
                   \cup {Ask("settle", t) : t \in DOMAIN transactions}
                   \cup rules \cup rewards \cup states
    BY DEF NewRequest
<1>. HIDE DEF starts
<1>5. CASE r \in {AskCreate(s) : s \in starts} \/ r = Ask("pay", 0)
    BY <1>5, <1>b, <1>c
<1>6. CASE r \in mine \/ r \in {Ask("settle", t) : t \in DOMAIN transactions}
    BY <1>4, <1>6, <1>b
<1>7. CASE r \in rules
    BY <1>7, <1>h
<1>8. CASE r \in rewards
    <2>1. PICK c \in DOMAIN campaigns, v \in {"VOUCHER", "none"} :
             r = AskUpdate(c, "unspecified", NoStart, "VOUCHER", v)
        BY <1>8
    <2>. QED  BY <2>1, <1>d, <1>g DEF Reward
<1>9. CASE r \in states
    <2>1. PICK c \in DOMAIN campaigns, u \in {"ACTIVE", "unspecified"}, s \in starts :
             r = AskUpdate(c, u, s, "none", "none")
        BY <1>9
    <2>. QED  BY <2>1, <1>d DEF Reward
<1>. HIDE DEF mine, rules, rewards, states
<1>. QED  BY <1>5, <1>6, <1>7, <1>8, <1>9, <1>e

LEMMA ReceiveKeeps ==
    ASSUME CatalogInv, NEW h \in Handler, Receive(h)
    PROVE  CatalogInv'
<1>. USE DEF CatalogInv
<1>r. PICK r \in NewRequest :
      /\ Proceed(h, FirstPhase[r.op])
      /\ request' = [request EXCEPT ![h] = r]
      /\ made' = [made EXCEPT ![h] = served + 1]
    BY DEF Receive
<1>n. /\ r \in Request /\ r.day = Today
      /\ r.on \in DOMAIN campaigns \cup DOMAIN transactions \cup {0}
      /\ FirstPhase[r.op] \in {"incr", "read", "delete", "settle"}
      /\ FirstPhase[r.op] = "incr" => r.op \in {"create", "pay"}
      /\ FirstPhase[r.op] = "read" => r.on # 0
      /\ FirstPhase[r.op] = "settle" => r.on \in DOMAIN transactions
    BY NewRequests
<1>s. served \in Nat /\ served' = served + 1 /\ served' \in 1..MaxCalls
    BY DEF Receive, TypeOK, EnvironmentTypeOK
<1>a. /\ phase' \in [Handler -> Phase] /\ request' \in [Handler -> Request]
      /\ made' \in [Handler -> RowId \cup {0}]
      /\ phase[h] = "idle" /\ request'[h] = r /\ made'[h] = served + 1
      /\ phase'[h] = FirstPhase[r.op]
      /\ phase'[h] \in {"incr", "read", "delete", "settle"}
      /\ \A g \in Handler \ {h} :
            phase'[g] = phase[g] /\ request'[g] = request[g] /\ made'[g] = made[g]
    BY <1>n, <1>r, <1>s DEF Receive, Proceed, TypeOK, Phase, RowId
<1>o. /\ r.on <= served
      /\ \A i \in DOMAIN campaigns \cup DOMAIN transactions : i \in RowId /\ i <= served
    BY <1>n, <1>s DEF IdsOK, TypeOK
<1>u. /\ UNCHANGED <<redis, time, faults, book, drawn, row, intended, late, refused>>
      /\ overlapped' = (overlapped \/ \E g \in Handler : phase[g] # "idle")
    BY DEF Receive
<1>1. TypeOK'
    BY <1>a, <1>s, <1>u DEF TypeOK, EnvironmentTypeOK
<1>2. HandlersOK'
    <2>1. 2 * r.day <= time
        BY <1>n, Days DEF TypeOK
    <2>2. r.on < served + 1 /\ served + 1 \in 1..served'
        BY <1>n, <1>o, <1>s DEF Request, RowId
    <2>3. \A g \in Handler \ {h} : phase[g] # "idle" => made[g] \in 1..served'
        BY <1>s DEF HandlersOK
    <2>. QED  BY <1>a, <1>n, <1>u, <2>1, <2>2, <2>3 DEF HandlersOK
<1>3. IdsOK'
    <2>1. \A g \in Handler \ {h} : phase[g] # "idle" =>
             /\ made[g] \in 1..served /\ request[g].on < made[g]
             /\ request[g].on \in RowId \cup {0}
        BY DEF HandlersOK, TypeOK, Request
    <2>2. \A g \in Handler \ {h} : phase[g] # "idle" =>
             made[g] # served + 1 /\ request[g].on # served + 1 /\ made[g] # r.on
        BY <1>n, <1>s, <2>1 DEF IdsOK, RowId
    <2>3. r.on # served + 1 /\ served + 1 \notin DOMAIN campaigns \cup DOMAIN transactions
        BY <1>n, <1>o, <1>s DEF RowId
    <2>4. \A i \in DOMAIN campaigns \cup DOMAIN transactions : i <= served'
        BY <1>o, <1>s DEF RowId
    <2>. QED  BY <1>a, <1>u, <2>2, <2>3, <2>4 DEF IdsOK
<1>4. CountersOK'
    BY <1>u DEF CountersOK, Counted
<1>5. DrawnOK'
    BY <1>u DEF DrawnOK
<1>6. FaultsOK'
    BY <1>a, <1>u DEF FaultsOK, Blank, Uncoded
<1>7. AloneOK'
    BY <1>a, <1>u DEF AloneOK
<1>8. CodesUnique'
    BY <1>u DEF CodesUnique
<1>. QED  BY <1>1, <1>2, <1>3, <1>4, <1>5, <1>6, <1>7, <1>8

\* The number a handler draws is new, unless the day is at its end.
LEMMA DrawKeeps ==
    ASSUME CatalogInv, NEW h \in Handler, Draw(h)
    PROVE  CatalogInv'
<1>. USE DEF CatalogInv
<1>c. counter \in [Key -> Nat] /\ time \in Nat /\ EnvironmentTypeOK
    BY DEF TypeOK, EnvironmentTypeOK
<1>k. PICK key \in Key : /\ key = DailyKey(h)
                         /\ key[2] = request[h].day /\ key[2] \in 0..MaxTime
    BY KeyTyped
<1>w. PICK new \in Code : new = <<key, counter[key] + 1>>
    <2>1. counter[key] + 1 \in Nat
        BY <1>c
    <2>. QED  BY <2>1 DEF Code
<1>v. new # NoCode /\ new[1] = key /\ new[2] = counter[key] + 1
    BY <1>w, CodesTyped
<1>i. /\ counter' = [counter EXCEPT ![key] = @ + 1] /\ expiry' = expiry
      /\ drawn' = [drawn EXCEPT ![h] = new]
    BY <1>k, <1>w DEF Draw, Increment
<1>l. late' \in BOOLEAN /\ (~late' => ~late /\ ~(time >= 2 * key[2] + 1))
    <2>1. late' = (late \/ time >= 2 * request[h].day + 1)
        BY DEF Draw, Ending
    <2>. QED  BY Zenon, <1>k, <2>1 DEF TypeOK
<1>p. /\ phase' \in [Handler -> Phase] /\ phase[h] = "incr"
      /\ phase'[h] \in {"expire", "insert"}
      /\ \A g \in Handler \ {h} : phase'[g] = phase[g]
    BY DEF Draw, Proceed, TypeOK, Phase
<1>u. UNCHANGED <<time, served, faults, book, request, made, row, intended, overlapped, refused>>
    BY DEF Draw
<1>x. ASSUME NEW c \in Code, Counted(c)
      PROVE  Counted(c)' /\ (~late' => c # new)
    <2>1. c[1] \in Key /\ c[2] \in Nat /\ c[1][2] \in 0..MaxTime
        BY CodesTyped
    <2>2. counter'[c[1]] \in Nat /\ counter'[c[1]] >= counter[c[1]]
        BY <1>c, <1>i, <1>k, <2>1
    <2>3. Counted(c)'
        BY <1>c, <1>u, <1>x, <2>1, <2>2 DEF Counted
    <2>4. ASSUME c = new, ~late'
          PROVE  FALSE
        BY <1>c, <1>k, <1>l, <1>v, <1>x, <2>4 DEF Counted
    <2>. QED  BY <2>3, <2>4
<1>y. Counted(new)'
    BY <1>c, <1>i, <1>k, <1>v DEF Counted
<1>t. /\ \A c \in DOMAIN campaigns : campaigns[c].code \in Code
      /\ \A t \in DOMAIN transactions : transactions[t].code \in Code \cup {NoCode}
      /\ \A g \in Handler : row[g] # NoRow => row[g].code \in Code
      /\ \A g \in Handler : drawn[g] # NoCode => drawn[g] \in Code
    BY DEF TypeOK, Campaign, Transaction
<1>d. /\ drawn' \in [Handler -> Code \cup {NoCode}] /\ drawn'[h] = new
      /\ \A g \in Handler \ {h} : drawn'[g] = drawn[g]
    BY <1>i DEF TypeOK
<1>1. TypeOK'
    <2>1. counter' \in [Key -> Nat]
        BY <1>c, <1>i
    <2>2. EnvironmentTypeOK'
        BY <1>c, <1>i, <1>u, <2>1 DEF EnvironmentTypeOK
    <2>. QED  BY <1>d, <1>l, <1>p, <1>u, <2>2 DEF TypeOK
<1>2. HandlersOK'
    BY <1>d, <1>p, <1>u, <1>v DEF HandlersOK
<1>3. IdsOK'
    BY <1>p, <1>u DEF IdsOK
<1>4. CountersOK'
    BY <1>d, <1>i, <1>t, <1>u, <1>x, <1>y DEF CountersOK
<1>5. DrawnOK'
    BY <1>d, <1>l, <1>t, <1>u, <1>v, <1>x DEF DrawnOK, CountersOK
<1>6. FaultsOK'
    BY <1>d, <1>p, <1>u, <1>v DEF FaultsOK, Blank, Uncoded
<1>7. AloneOK'
    BY <1>p, <1>u DEF AloneOK
<1>8. CodesUnique'
    BY <1>l, <1>u DEF CodesUnique
<1>. QED  BY <1>1, <1>2, <1>3, <1>4, <1>5, <1>6, <1>7, <1>8

LEMMA DrawFailKeeps ==
    ASSUME CatalogInv, NEW h \in Handler, DrawFails(h)
    PROVE  CatalogInv'
<1>. USE DEF CatalogInv
<1>f. faults \in Nat /\ faults' = faults + 1 /\ faults' \in 1..MaxFaults
    BY DEF DrawFails, Fault, TypeOK, EnvironmentTypeOK
<1>1. CASE request[h].op # "pay"
    BY <1>1, <1>f, AnswerKeeps DEF DrawFails
<1>2. CASE request[h].op = "pay"
  <2>u. UNCHANGED <<redis, time, served, book, request, made, drawn, row>>
        /\ UNCHANGED <<intended, overlapped, late, refused>>
    BY <1>2 DEF DrawFails
  <2>p. /\ phase' \in [Handler -> Phase] /\ phase[h] = "incr" /\ phase'[h] = "insert"
        /\ \A g \in Handler \ {h} : phase'[g] = phase[g]
    BY <1>2 DEF DrawFails, Proceed, TypeOK, Phase
  <2>1. TypeOK'
    BY <1>f, <2>p, <2>u DEF TypeOK, EnvironmentTypeOK
  <2>2. HandlersOK'
    BY <1>2, <2>p, <2>u DEF HandlersOK
  <2>3. IdsOK'
    BY <2>p, <2>u DEF IdsOK
  <2>4. CountersOK' /\ DrawnOK'
    BY <2>u DEF CountersOK, Counted, DrawnOK
  <2>5. FaultsOK'
    BY <1>f, <2>p, <2>u DEF FaultsOK, Blank, Uncoded
  <2>6. AloneOK'
    BY <2>p, <2>u DEF AloneOK
  <2>7. CodesUnique'
    BY <1>f, <2>u DEF CodesUnique
  <2>. QED  BY <2>1, <2>2, <2>3, <2>4, <2>5, <2>6, <2>7
<1>. QED  BY <1>1, <1>2

\* A row is inserted under the handler's own id.
LEMMA InsertCampaignKeeps ==
    ASSUME CatalogInv, NEW h \in Handler, InsertCampaign(h)
    PROVE  CatalogInv'
<1>. USE DEF CatalogInv
<1>a. /\ phase' \in [Handler -> Phase] /\ request' \in [Handler -> Request]
      /\ made' \in [Handler -> RowId \cup {0}] /\ drawn' \in [Handler -> Code \cup {NoCode}]
      /\ row' \in [Handler -> Campaign \cup {NoRow}]
      /\ phase'[h] = "idle" /\ drawn'[h] = NoCode /\ row'[h] = NoRow
      /\ \A g \in Handler \ {h} :
            /\ phase'[g] = phase[g] /\ request'[g] = request[g] /\ made'[g] = made[g]
            /\ drawn'[g] = drawn[g] /\ row'[g] = row[g]
    BY AnswerSets DEF InsertCampaign
<1>u. UNCHANGED <<environment, transactions, overlapped, late, refused>>
    BY DEF InsertCampaign
<1>m. PICK id \in RowId :
      /\ id = made[h] /\ id \notin DOMAIN campaigns \cup DOMAIN transactions /\ id <= served
      /\ \A g \in Handler \ {h} : phase[g] # "idle" => made[g] # id /\ request[g].on # id
    BY DEF InsertCampaign, HandlersOK, IdsOK, RowId, TypeOK
<1>n. PICK new \in Campaign :
      /\ new = NewCampaign(h) /\ new.rule <= id /\ Counted(new.code)
      /\ new.rule = id => new.code = drawn[h] /\ drawn[h] # NoCode
    <2>1. phase[h] = "insert" /\ request[h].op \in {"create", "clone"}
        BY DEF InsertCampaign, HandlersOK
    <2>2. CASE request[h].op = "create"
        <3>1. drawn[h] \in Code /\ drawn[h] # NoCode /\ Counted(drawn[h])
            BY <2>1, <2>2, CodesTyped DEF HandlersOK, CountersOK
        <3>2. request[h] \in Request /\ id \in Nat
            BY DEF TypeOK, RowId
        <3>3. NewCampaign(h) = [code |-> drawn[h], rule |-> id, status |-> "DRAFT",
                                start |-> request[h].start, type |-> request[h].type,
                                value |-> request[h].value]
            BY <1>m, <2>2 DEF NewCampaign
        <3>4. NewCampaign(h) \in Campaign
            BY <3>1, <3>2, <3>3 DEF Request, Campaign, CampaignStatus
        <3>. QED  BY <3>1, <3>2, <3>3, <3>4
    <2>3. CASE request[h].op = "clone"
        <3>1. row[h] \in Campaign /\ row[h].rule < id /\ Counted(row[h].code)
            BY <1>m, <2>1, <2>3, CodesTyped DEF HandlersOK, CountersOK
        <3>2. row[h].rule \in Nat /\ id \in Nat
            BY <3>1 DEF Campaign, RowId
        <3>3. NewCampaign(h) = [row[h] EXCEPT !.status = "DRAFT"]
            BY <2>3 DEF NewCampaign
        <3>4. /\ NewCampaign(h) \in Campaign /\ NewCampaign(h).rule = row[h].rule
              /\ NewCampaign(h).code = row[h].code
            BY <3>1, <3>3 DEF Campaign, CampaignStatus
        <3>. QED  BY <3>1, <3>2, <3>4
    <2>. QED  BY <2>1, <2>2, <2>3
<1>w. /\ DOMAIN campaigns' = DOMAIN campaigns \cup {id} /\ campaigns'[id] = new
      /\ \A c \in DOMAIN campaigns : campaigns'[c] = campaigns[c] /\ c # id
      /\ DOMAIN intended' = DOMAIN campaigns'
      /\ campaigns = intended => campaigns' = intended'
    BY <1>m, <1>n DEF InsertCampaign, With, TypeOK
<1>1. TypeOK'
    BY <1>a, <1>u, <1>w DEF TypeOK, EnvironmentTypeOK
<1>2. HandlersOK'
    BY <1>a, <1>u DEF HandlersOK
<1>3. IdsOK'
    BY <1>a, <1>m, <1>n, <1>u, <1>w DEF IdsOK
<1>4. CountersOK'
    BY <1>a, <1>n, <1>u, <1>w DEF CountersOK, Counted
<1>5. DrawnOK'
    <2>1. \A g \in Handler : drawn'[g] # NoCode => g # h /\ drawn'[g] = drawn[g]
        BY <1>a
    <2>. QED  BY <1>n, <1>u, <1>w, <2>1 DEF DrawnOK
<1>6. FaultsOK'
    BY <1>a, <1>u DEF FaultsOK, Blank, Uncoded
<1>7. AloneOK'
    <2>1. \A g \in Handler : phase'[g] # "idle" => g # h
        BY <1>a
    <2>2. ASSUME ~overlapped, NEW g \in Handler PROVE phase'[g] = "idle"
        BY <1>a, <2>2 DEF AloneOK, InsertCampaign
    <2>. QED  BY <1>u, <1>w, <2>2 DEF AloneOK
<1>8. CodesUnique'
    <2>1. ASSUME ~late, NEW c \in DOMAIN campaigns, campaigns[c].rule = c, new.rule = id
          PROVE  campaigns[c].code # new.code
        BY <1>n, <2>1 DEF DrawnOK
    <2>. QED  BY <1>u, <1>w, <2>1 DEF CodesUnique
<1>. QED  BY <1>1, <1>2, <1>3, <1>4, <1>5, <1>6, <1>7, <1>8

\* A transaction is refused only if its code is one already used.
LEMMA InsertTransactionKeeps ==
    ASSUME CatalogInv, NEW h \in Handler, InsertTransaction(h)
    PROVE  CatalogInv'
<1>. USE DEF CatalogInv
<1>. DEFINE same == {t \in DOMAIN transactions : transactions[t].code = drawn[h]}
<1>a. /\ phase' \in [Handler -> Phase] /\ request' \in [Handler -> Request]
      /\ made' \in [Handler -> RowId \cup {0}] /\ drawn' \in [Handler -> Code \cup {NoCode}]
      /\ row' \in [Handler -> Campaign \cup {NoRow}]
      /\ phase'[h] = "idle" /\ drawn'[h] = NoCode /\ row'[h] = NoRow
      /\ \A g \in Handler \ {h} :
            /\ phase'[g] = phase[g] /\ request'[g] = request[g] /\ made'[g] = made[g]
            /\ drawn'[g] = drawn[g] /\ row'[g] = row[g]
    BY AnswerSets DEF InsertTransaction
<1>u. UNCHANGED <<environment, campaigns, intended, overlapped, late>>
    BY DEF InsertTransaction
<1>o. \A g \in Handler : phase'[g] # "idle" => g # h
    BY <1>a
<1>1. CASE same # {} /\ refused' = TRUE /\ UNCHANGED transactions
  <2>1. TypeOK'
    BY <1>1, <1>a, <1>u DEF TypeOK, EnvironmentTypeOK
  <2>2. HandlersOK'
    BY <1>1, <1>a, <1>u DEF HandlersOK
  <2>3. IdsOK'
    BY <1>1, <1>a, <1>u DEF IdsOK
  <2>4. CountersOK'
    BY <1>1, <1>a, <1>u DEF CountersOK, Counted
  <2>5. DrawnOK'
    BY <1>1, <1>a, <1>u DEF DrawnOK
  <2>6. FaultsOK'
    BY <1>1, <1>a, <1>u DEF FaultsOK, Blank, Uncoded
  <2>7. AloneOK'
    BY <1>a, <1>u DEF AloneOK
  <2>8. CodesUnique'
    <3>1. CASE drawn[h] # NoCode
        BY <1>1, <1>u, <3>1 DEF CodesUnique, DrawnOK, TypeOK
    <3>2. CASE drawn[h] = NoCode
        <4>1. Blank(h) /\ Uncoded # {}
            BY <1>1, <3>2 DEF Blank, Uncoded, InsertTransaction
        <4>. QED  BY <1>u, <4>1 DEF FaultsOK, CodesUnique
    <3>. QED  BY <3>1, <3>2
  <2>. QED  BY <2>1, <2>2, <2>3, <2>4, <2>5, <2>6, <2>7, <2>8
<1>2. CASE /\ transactions' = With(transactions, made[h], [code |-> drawn[h], status |-> "PENDING"])
           /\ UNCHANGED refused
  <2>m. PICK id \in RowId :
        /\ id = made[h] /\ id \notin DOMAIN campaigns \cup DOMAIN transactions /\ id <= served
        /\ \A g \in Handler \ {h} : phase[g] # "idle" => made[g] # id /\ request[g].on # id
      BY DEF InsertTransaction, HandlersOK, IdsOK, RowId, TypeOK
  <2>w. /\ DOMAIN transactions' = DOMAIN transactions \cup {id}
        /\ transactions'[id] = [code |-> drawn[h], status |-> "PENDING"]
        /\ transactions'[id].code = drawn[h]
        /\ \A t \in DOMAIN transactions : transactions'[t] = transactions[t] /\ t # id
      BY <1>2, <2>m DEF With
  <2>1. TypeOK'
      <3>1. transactions'[id] \in Transaction
          BY <2>w DEF TypeOK, Transaction
      <3>. QED  BY <1>2, <1>a, <1>u, <2>w, <3>1 DEF TypeOK, EnvironmentTypeOK
  <2>2. HandlersOK'
      BY <1>a, <1>u, <2>w DEF HandlersOK
  <2>3. IdsOK'
      BY <1>a, <1>u, <2>m, <2>w DEF IdsOK
  <2>4. CountersOK'
      BY <1>a, <1>u, <2>w DEF CountersOK, Counted
  <2>5. DrawnOK'
      <3>1. \A g \in Handler : drawn'[g] # NoCode => g # h /\ drawn'[g] = drawn[g]
          BY <1>a
      <3>. QED  BY <1>u, <2>w, <3>1 DEF DrawnOK
  <2>6. FaultsOK'
      <3>1. \A g \in Handler : Blank(g)' => g # h /\ Blank(g)
          BY <1>a DEF Blank
      <3>2. Uncoded' # {} => Uncoded # {} \/ Blank(h)
          BY <2>w DEF Blank, Uncoded, InsertTransaction
      <3>. QED  BY <1>u, <3>1, <3>2 DEF FaultsOK
  <2>7. AloneOK'
      BY <1>a, <1>u DEF AloneOK
  <2>8. CodesUnique'
      BY <1>2, <1>u DEF CodesUnique
  <2>. QED  BY <2>1, <2>2, <2>3, <2>4, <2>5, <2>6, <2>7, <2>8
<1>. QED  BY <1>1, <1>2 DEF InsertTransaction

LEMMA ReadKeeps ==
    ASSUME CatalogInv, NEW h \in Handler, ReadCampaign(h)
    PROVE  CatalogInv'
<1>. USE DEF CatalogInv
<1>1. CASE request[h].on \notin DOMAIN campaigns
    BY <1>1, AnswerKeeps DEF ReadCampaign, TypeOK, EnvironmentTypeOK
<1>2. CASE request[h].on \in DOMAIN campaigns
  <2>c. PICK c \in DOMAIN campaigns :
        /\ c = request[h].on /\ campaigns[c] \in Campaign /\ campaigns[c].rule <= c
        /\ campaigns[c].rule \in Nat /\ c \in Nat /\ Counted(campaigns[c].code)
      BY <1>2 DEF TypeOK, IdsOK, CountersOK, Campaign, RowId
  <2>r. /\ row' \in [Handler -> Campaign \cup {NoRow}] /\ row'[h] = campaigns[c]
        /\ \A g \in Handler \ {h} : row'[g] = row[g]
      BY <1>2, <2>c DEF ReadCampaign, TypeOK
  <2>p. /\ phase' \in [Handler -> Phase] /\ phase[h] = "read"
        /\ phase'[h] = IF request[h].op = "clone" THEN "insert" ELSE "write"
        /\ \A g \in Handler \ {h} : phase'[g] = phase[g]
      BY <1>2 DEF ReadCampaign, Proceed, TypeOK, Phase
  <2>u. UNCHANGED <<environment, book, request, made, drawn, intended, overlapped, late, refused>>
      BY <1>2 DEF ReadCampaign
  <2>1. TypeOK'
      BY <2>p, <2>r, <2>u DEF TypeOK, EnvironmentTypeOK
  <2>2. HandlersOK'
      <3>1. made[h] \in Nat /\ request[h].on < made[h]
          BY <2>p DEF HandlersOK, TypeOK, RowId
      <3>. QED  BY <2>c, <2>p, <2>r, <2>u, <3>1 DEF HandlersOK
  <2>3. IdsOK'
      BY <2>c, <2>p, <2>r, <2>u DEF IdsOK
  <2>4. CountersOK'
      BY <2>c, <2>r, <2>u DEF CountersOK, Counted
  <2>5. DrawnOK' /\ CodesUnique'
      BY <2>u DEF DrawnOK, CodesUnique
  <2>6. FaultsOK'
      BY <2>p, <2>u DEF FaultsOK, Blank, Uncoded
  <2>7. AloneOK'
      BY <2>c, <2>p, <2>r, <2>u DEF AloneOK
  <2>. QED  BY <2>1, <2>2, <2>3, <2>4, <2>5, <2>6, <2>7
<1>. QED  BY <1>1, <1>2

\* The fields a request names, one by one and at once.
LEMMA NamedIsMeant ==
    ASSUME NEW r \in Request, NEW c \in Campaign
    PROVE  /\ Named(r, c) \in Campaign
           /\ Named(r, c).code = c.code /\ Named(r, c).rule = c.rule
           /\ Named(r, c).start = NoStart => c.start = NoStart
           /\ Meant(r, c) = Named(r, c)
<1>c. /\ c.status \in CampaignStatus /\ c.start \in Start \cup {NoStart}
      /\ c.type \in Reward /\ c.value \in Reward
      /\ c = [code |-> c.code, rule |-> c.rule, status |-> c.status, start |-> c.start,
              type |-> c.type, value |-> c.value]
    BY DEF Campaign
<1>r. /\ r.status \in CampaignStatus \cup {"unspecified"} /\ r.start \in Start \cup {NoStart}
      /\ r.type \in Reward /\ r.value \in Reward
      /\ DOMAIN r = {"op", "on", "day", "status", "start", "type", "value", "dsl"}
    BY DEF Request
<1>d. DOMAIN c = {"code", "rule", "status", "start", "type", "value"}
    BY DEF Campaign
<1>1. /\ Named(r, c) \in Campaign
      /\ Named(r, c).code = c.code /\ Named(r, c).rule = c.rule
      /\ Named(r, c).status = IF r.status # "unspecified" THEN r.status ELSE c.status
      /\ Named(r, c).start = IF r.start # NoStart THEN r.start ELSE c.start
      /\ Named(r, c).type = IF r.type # "none" THEN r.type ELSE c.type
      /\ Named(r, c).value = IF r.value # "none" THEN r.value ELSE c.value
    BY <1>c, <1>r DEF Named, Campaign
<1>2. /\ DOMAIN Meant(r, c) = DOMAIN c
      /\ Meant(r, c)["code"] = c["code"] /\ Meant(r, c)["rule"] = c["rule"]
      /\ Meant(r, c)["status"] = IF r["status"] # NoRequest["status"] THEN r["status"] ELSE c["status"]
      /\ Meant(r, c)["start"] = IF r["start"] # NoRequest["start"] THEN r["start"] ELSE c["start"]
      /\ Meant(r, c)["type"] = IF r["type"] # NoRequest["type"] THEN r["type"] ELSE c["type"]
      /\ Meant(r, c)["value"] = IF r["value"] # NoRequest["value"] THEN r["value"] ELSE c["value"]
    BY <1>d, <1>r DEF Meant
<1>3. /\ NoRequest.status = "unspecified" /\ NoRequest.start = NoStart
      /\ NoRequest.type = "none" /\ NoRequest.value = "none"
    BY DEF NoRequest
<1>4. Meant(r, c) = [code |-> Named(r, c).code, rule |-> Named(r, c).rule,
                     status |-> Named(r, c).status, start |-> Named(r, c).start,
                     type |-> Named(r, c).type, value |-> Named(r, c).value]
    BY <1>1, <1>2, <1>3, <1>d DEF Meant
<1>5. Meant(r, c) = Named(r, c)
    BY <1>1, <1>4 DEF Campaign
<1>. QED  BY <1>1, <1>5

\* An update writes back what it read, and keeps the row's code and rule.
LEMMA WriteKeeps ==
    ASSUME CatalogInv, NEW h \in Handler, WriteCampaign(h)
    PROVE  CatalogInv'
<1>. USE DEF CatalogInv
<1>u. /\ UNCHANGED <<environment, transactions, overlapped, late, refused>> /\ Answer(h)
      /\ phase[h] = "write"
    BY DEF WriteCampaign
<1>1. CASE request[h].on \notin DOMAIN campaigns
    BY <1>1, <1>u, AnswerKeeps DEF WriteCampaign, TypeOK, EnvironmentTypeOK
<1>2. CASE request[h].on \in DOMAIN campaigns
  <2>a. /\ phase' \in [Handler -> Phase] /\ request' \in [Handler -> Request]
        /\ made' \in [Handler -> RowId \cup {0}] /\ drawn' \in [Handler -> Code \cup {NoCode}]
        /\ row' \in [Handler -> Campaign \cup {NoRow}]
        /\ phase'[h] = "idle" /\ drawn'[h] = NoCode /\ row'[h] = NoRow
        /\ \A g \in Handler \ {h} :
              /\ phase'[g] = phase[g] /\ request'[g] = request[g] /\ made'[g] = made[g]
              /\ drawn'[g] = drawn[g] /\ row'[g] = row[g]
      BY <1>u, AnswerSets
  <2>c. PICK c \in DOMAIN campaigns : c = request[h].on
      BY <1>2
  <2>r. /\ row[h] \in Campaign /\ campaigns[c] \in Campaign /\ request[h] \in Request
        /\ row[h].code = campaigns[c].code /\ row[h].rule = campaigns[c].rule
        /\ ~overlapped => row[h] = campaigns[c]
      BY <1>u, <2>c DEF HandlersOK, IdsOK, AloneOK, TypeOK
  <2>k. PICK copy \in Campaign :
        /\ copy = Named(request[h], row[h])
        /\ copy.code = campaigns[c].code /\ copy.rule = campaigns[c].rule
        /\ ~overlapped => /\ Meant(request[h], campaigns[c]) = copy
                          /\ copy.start = NoStart => campaigns[c].start = NoStart
      BY <2>r, NamedIsMeant
  <2>n. PICK new :
        /\ new = [copy EXCEPT !.rule = IF request[h].dsl THEN campaigns[c].rule ELSE @,
                              !.start = IF @ = NoStart THEN campaigns[c].start ELSE @]
        /\ campaigns' = [campaigns EXCEPT ![c] = new]
        /\ intended' = [intended EXCEPT ![c] = Meant(request[h], @)]
      BY <2>c, <2>k DEF WriteCampaign
  <2>f. /\ new \in Campaign
        /\ new.code = campaigns[c].code /\ new.rule = campaigns[c].rule
        /\ ~overlapped => new = copy
    <3>1. /\ copy.start \in Start \cup {NoStart} /\ campaigns[c].start \in Start \cup {NoStart}
          /\ copy.rule \in RowId
        BY <2>r DEF Campaign
    <3>2. /\ new \in Campaign /\ new.code = copy.code /\ new.rule = copy.rule
          /\ new.start = IF copy.start = NoStart THEN campaigns[c].start ELSE copy.start
          /\ new.status = copy.status /\ new.type = copy.type /\ new.value = copy.value
        BY <2>k, <2>n, <3>1 DEF Campaign
    <3>3. ASSUME ~overlapped PROVE new.start = copy.start
        BY <2>k, <3>2, <3>3
    <3>. QED  BY <2>k, <3>2, <3>3 DEF Campaign
  <2>w. /\ DOMAIN campaigns' = DOMAIN campaigns /\ campaigns'[c] = new
        /\ \A d \in DOMAIN campaigns \ {c} : campaigns'[d] = campaigns[d]
        /\ \A d \in DOMAIN campaigns :
              campaigns'[d].code = campaigns[d].code /\ campaigns'[d].rule = campaigns[d].rule
        /\ DOMAIN intended' = DOMAIN campaigns'
      BY <2>f, <2>n DEF TypeOK
  <2>1. TypeOK'
      BY <1>u, <2>a, <2>f, <2>w DEF TypeOK, EnvironmentTypeOK
  <2>2. HandlersOK'
      BY <1>u, <2>a DEF HandlersOK
  <2>3. IdsOK'
      BY <1>u, <2>a, <2>w DEF IdsOK
  <2>4. CountersOK'
      BY <1>u, <2>a, <2>w DEF CountersOK, Counted
  <2>5. DrawnOK'
      BY <1>u, <2>a, <2>w DEF DrawnOK
  <2>6. FaultsOK'
      BY <1>u, <2>a DEF FaultsOK, Blank, Uncoded
  <2>7. AloneOK'
      <3>1. ASSUME ~overlapped, NEW g \in Handler PROVE phase'[g] = "idle"
          BY <1>u, <2>a, <3>1 DEF AloneOK
      <3>2. ASSUME ~overlapped PROVE campaigns' = intended'
          BY <2>f, <2>k, <2>n, <3>2 DEF AloneOK
      <3>. QED  BY <1>u, <3>1, <3>2 DEF AloneOK
  <2>8. CodesUnique'
      BY <1>u, <2>w DEF CodesUnique
  <2>. QED  BY <2>1, <2>2, <2>3, <2>4, <2>5, <2>6, <2>7, <2>8
<1>. QED  BY <1>1, <1>2

LEMMA DeleteKeeps ==
    ASSUME CatalogInv, NEW h \in Handler, DeleteCampaign(h)
    PROVE  CatalogInv'
<1>. USE DEF CatalogInv
<1>a. /\ phase' \in [Handler -> Phase] /\ request' \in [Handler -> Request]
      /\ made' \in [Handler -> RowId \cup {0}] /\ drawn' \in [Handler -> Code \cup {NoCode}]
      /\ row' \in [Handler -> Campaign \cup {NoRow}]
      /\ phase'[h] = "idle" /\ drawn'[h] = NoCode /\ row'[h] = NoRow
      /\ \A g \in Handler \ {h} :
            /\ phase'[g] = phase[g] /\ request'[g] = request[g] /\ made'[g] = made[g]
            /\ drawn'[g] = drawn[g] /\ row'[g] = row[g]
    BY AnswerSets DEF DeleteCampaign
<1>u. /\ UNCHANGED <<environment, transactions, overlapped, late, refused>>
      /\ phase[h] = "delete"
    BY DEF DeleteCampaign
<1>w. /\ DOMAIN campaigns' \subseteq DOMAIN campaigns
      /\ \A c \in DOMAIN campaigns' : campaigns'[c] = campaigns[c]
      /\ DOMAIN intended' = DOMAIN campaigns'
      /\ campaigns = intended => campaigns' = intended'
    BY DEF DeleteCampaign, Without, TypeOK
<1>1. TypeOK'
    BY <1>a, <1>u, <1>w DEF TypeOK, EnvironmentTypeOK
<1>2. HandlersOK'
    BY <1>a, <1>u DEF HandlersOK
<1>3. IdsOK'
    BY <1>a, <1>u, <1>w DEF IdsOK
<1>4. CountersOK'
    BY <1>a, <1>u, <1>w DEF CountersOK, Counted
<1>5. DrawnOK'
    BY <1>a, <1>u, <1>w DEF DrawnOK
<1>6. FaultsOK'
    BY <1>a, <1>u DEF FaultsOK, Blank, Uncoded
<1>7. AloneOK'
    <2>1. ASSUME ~overlapped, NEW g \in Handler PROVE phase'[g] = "idle"
        BY <1>a, <1>u, <2>1 DEF AloneOK
    <2>. QED  BY <1>u, <1>w, <2>1 DEF AloneOK
<1>8. CodesUnique'
    BY <1>u, <1>w DEF CodesUnique
<1>. QED  BY <1>1, <1>2, <1>3, <1>4, <1>5, <1>6, <1>7, <1>8

LEMMA StutterKeeps ==
    ASSUME CatalogInv, UNCHANGED vars
    PROVE  CatalogInv'
<1>. USE DEF CatalogInv
<1>1. TypeOK' /\ HandlersOK' /\ IdsOK' /\ AloneOK' /\ CodesUnique'
    BY DEF TypeOK, EnvironmentTypeOK, HandlersOK, IdsOK, AloneOK, CodesUnique
<1>2. CountersOK' /\ DrawnOK' /\ FaultsOK'
    BY DEF CountersOK, Counted, DrawnOK, FaultsOK, Blank, Uncoded
<1>. QED  BY <1>1, <1>2

LEMMA InitOK ==
    ASSUME Init
    PROVE  CatalogInv
<1>. USE DEF Init, EnvironmentInit
<1>t. /\ DOMAIN campaigns = {} /\ DOMAIN transactions = {} /\ DOMAIN intended = {}
      /\ campaigns = intended
    OBVIOUS
<1>1. TypeOK
    <2>1. EnvironmentTypeOK
        BY DEF EnvironmentTypeOK
    <2>2. NoRequest \in Request
        BY DEF NoRequest, Request, Reward
    <2>. QED  BY <1>t, <2>1, <2>2 DEF TypeOK, Phase
<1>2. HandlersOK /\ IdsOK /\ AloneOK
    BY <1>t DEF HandlersOK, IdsOK, AloneOK
<1>3. CountersOK /\ DrawnOK /\ FaultsOK /\ CodesUnique
    BY <1>t DEF CountersOK, DrawnOK, FaultsOK, Blank, Uncoded, CodesUnique
<1>. QED  BY <1>1, <1>2, <1>3 DEF CatalogInv

----------------------------------------------------------------------------
\* The inductive invariant: whatever the handlers of campaigns and transactions
\* do in whatever order, at whatever time of the day, and wherever they fail.
THEOREM CatalogInvariant == Spec => []CatalogInv
<1>1. Init => CatalogInv
    BY InitOK
<1>2. CatalogInv /\ [Next]_vars => CatalogInv'
    <2>. SUFFICES ASSUME CatalogInv, [Next]_vars
                  PROVE  CatalogInv'
        OBVIOUS
    <2>1. ASSUME NEW h \in Handler, Receive(h) \/ Draw(h) \/ DrawFails(h)
          PROVE  CatalogInv'
        BY <2>1, ReceiveKeeps, DrawKeeps, DrawFailKeeps
    <2>2. ASSUME NEW h \in Handler, Expire(h) \/ ExpireFails(h) \/ FailHandler(h)
          PROVE  CatalogInv'
        BY <2>2, ExpireKeeps, FailKeeps
    <2>3. ASSUME NEW h \in Handler, InsertCampaign(h) \/ InsertTransaction(h)
          PROVE  CatalogInv'
        BY <2>3, InsertCampaignKeeps, InsertTransactionKeeps
    <2>4. ASSUME NEW h \in Handler, ReadCampaign(h) \/ WriteCampaign(h) \/ DeleteCampaign(h)
          PROVE  CatalogInv'
        BY <2>4, ReadKeeps, WriteKeeps, DeleteKeeps
    <2>5. ASSUME NEW h \in Handler, UpdateTransactionStatus(h)
          PROVE  CatalogInv'
        BY <2>5, SettleKeeps
    <2>6. CASE PassTime \/ DropCounter
        BY <2>6, PassTimeKeeps
    <2>7. CASE Rest \/ UNCHANGED vars
        BY <2>7, StutterKeeps DEF Rest
    <2>. QED  BY <2>1, <2>2, <2>3, <2>4, <2>5, <2>6, <2>7 DEF Next
<1>. QED  BY <1>1, <1>2, PTL DEF Spec

\* Every variable keeps its type: nothing settles a transaction, no key expires
\* on a day that is not there.
THEOREM TypeCorrect == Spec => []TypeOK
BY CatalogInvariant, PTL DEF CatalogInv

\* The codes of nextDailyCode are given out once, unless a counter is used in
\* the last two seconds of its day or after; without that, and with fewer than two
\* failures of Redis, the unique index refuses no transaction.
THEOREM DailyCodesUnique == Spec => []CodesUnique
BY CatalogInvariant, PTL DEF CatalogInv

\* Updates of UpdateCampaign that meet no other call change what they name.
THEOREM LoneUpdates == Spec => []UpdatesKeepOthers
<1>1. CatalogInv => UpdatesKeepOthers
    BY DEF CatalogInv, AloneOK, UpdatesKeepOthers, ActiveCampaigns, OnlyActive, IsActive,
           GetCampaign
<1>. QED  BY <1>1, CatalogInvariant, PTL

\* An update or a clone in flight brings no deleted campaign back.
THEOREM StaysDeleted == Spec => DeletedStaysDeleted
<1>1. TypeOK /\ [Next]_vars =>
         [\A c \in DOMAIN campaigns' \ DOMAIN campaigns :
             \E h \in Handler : phase[h] = "insert" /\ made[h] = c]_vars
    <2>. SUFFICES ASSUME TypeOK, Next, NEW c \in DOMAIN campaigns' \ DOMAIN campaigns
                  PROVE  \E h \in Handler : phase[h] = "insert" /\ made[h] = c
        OBVIOUS
    <2>1. ASSUME NEW h \in Handler, InsertCampaign(h)
          PROVE  phase[h] = "insert" /\ made[h] = c
        BY <2>1 DEF InsertCampaign, With
    <2>2. ASSUME NEW h \in Handler, WriteCampaign(h) \/ DeleteCampaign(h)
          PROVE  FALSE
        <3>1. CASE WriteCampaign(h)
            BY <3>1 DEF WriteCampaign
        <3>2. CASE DeleteCampaign(h)
            BY <3>2 DEF DeleteCampaign, Without
        <3>. QED  BY <2>2, <3>1, <3>2
    <2>3. ASSUME NEW h \in Handler,
                 \/ Receive(h) \/ Draw(h) \/ DrawFails(h) \/ Expire(h) \/ ExpireFails(h)
                 \/ InsertTransaction(h) \/ ReadCampaign(h) \/ UpdateTransactionStatus(h)
                 \/ FailHandler(h)
          PROVE  UNCHANGED campaigns
        BY <2>3 DEF Receive, Draw, DrawFails, Expire, ExpireFails, InsertTransaction, ReadCampaign,
                    UpdateTransactionStatus, FailHandler
    <2>4. CASE PassTime \/ DropCounter \/ Rest
        BY <2>4 DEF PassTime, DropCounter, Rest
    <2>. QED  BY <2>1, <2>2, <2>3, <2>4 DEF Next
<1>. QED  BY <1>1, TypeCorrect, PTL DEF Spec, DeletedStaysDeleted
=============================================================================
