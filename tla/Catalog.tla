------------------------------ MODULE Catalog ------------------------------
(***************************************************************************)
(* Campaigns and payment transactions of one tenant (services/campaign,     *)
(* services/transaction), whose codes come from the daily Redis counters.   *)
(*                                                                         *)
(* Of a campaign's fields the status, the start and the reward stand for all *)
(* UpdateCampaign may name; the rule is the one it treats differently.      *)
(***************************************************************************)
EXTENDS Environment

CONSTANT Handler    \* the handlers at work at the same time

VARIABLES
    campaigns,      \* campaigns, by the number of the call that made them
    transactions,   \* transactions: code and status, by the same
    phase,          \* the next statement of each handler
    request,        \* what it was asked
    made,           \* the id of the row it makes
    drawn,          \* the code it drew
    row,            \* the campaign it read
    intended,       \* history: what the campaigns hold if every call were one step
    overlapped,     \* history: two calls were at work at the same time
    late,           \* history: a counter was used at the end of its day or after
    refused         \* history: a transaction was refused as a duplicate

book == <<campaigns, transactions>>
handling == <<phase, request, made, drawn, row>>
vars == <<environment, book, handling, intended, overlapped, late, refused>>

CampaignStatus == {"DRAFT", "ACTIVE", "INACTIVE", "EXPIRED"}
NoStart == -1
Start == 0..MaxTime + 1
NoCode == << >>

RowId == 1..MaxCalls
Code == Key \X Nat
Reward == {"POINT", "VOUCHER", "none"}
Campaign == [code : Code, rule : RowId, status : CampaignStatus, start : Start \cup {NoStart},
             type : Reward, value : Reward]
\* Nothing settles a transaction: see UpdateTransactionStatus.
Transaction == [code : Code \cup {NoCode}, status : {"PENDING"}]
NoRow == [code |-> NoCode, rule |-> 0, status |-> "DRAFT", start |-> NoStart,
          type |-> "none", value |-> "none"]

\* The field "unspecified", "none" or NoStart is one the request leaves out.
Request == [op : {"create", "pay", "update", "delete", "clone", "settle"},
            on : RowId \cup {0},                \* the row it is about
            day : 0..MaxTime,                   \* the day its code is drawn on
            status : CampaignStatus \cup {"unspecified"},
            start : Start \cup {NoStart},
            type : Reward, value : Reward,
            dsl : BOOLEAN]
NoRequest == [op |-> "create", on |-> 0, day |-> 0, status |-> "unspecified",
              start |-> NoStart, type |-> "none", value |-> "none", dsl |-> FALSE]

FirstPhase == [create |-> "incr", pay |-> "incr", update |-> "read", clone |-> "read",
               delete |-> "delete", settle |-> "settle"]
Phase == {"idle", "incr", "expire", "insert", "read", "write", "delete", "settle"}

Init ==
    /\ EnvironmentInit
    /\ campaigns = << >> /\ transactions = << >>
    /\ phase = [h \in Handler |-> "idle"]
    /\ request = [h \in Handler |-> NoRequest]
    /\ made = [h \in Handler |-> 0]
    /\ drawn = [h \in Handler |-> NoCode]
    /\ row = [h \in Handler |-> NoRow]
    /\ intended = << >> /\ overlapped = FALSE /\ late = FALSE /\ refused = FALSE

----------------------------------------------------------------------------
\* The table f with the row r under the id i.
With(f, i, r) == [x \in DOMAIN f \cup {i} |-> IF x = i THEN r ELSE f[x]]
Without(f, i) == [x \in DOMAIN f \ {i} |-> f[x]]

Proceed(h, next) == phase' = [phase EXCEPT ![h] = next]

\* The handler answers.
Answer(h) ==
    /\ phase' = [phase EXCEPT ![h] = "idle"]
    /\ request' = [request EXCEPT ![h] = NoRequest]
    /\ made' = [made EXCEPT ![h] = 0]
    /\ drawn' = [drawn EXCEPT ![h] = NoCode]
    /\ row' = [row EXCEPT ![h] = NoRow]

\* The requests of an instance.
Ask(op, on) == [NoRequest EXCEPT !.op = op, !.on = on, !.day = Today]
AskCreate(s) == [Ask("create", 0) EXCEPT !.start = s, !.type = "POINT", !.value = "POINT"]
AskRule(c) == [Ask("update", c) EXCEPT !.dsl = TRUE]
AskUpdate(c, u, s, t, v) ==
    [Ask("update", c) EXCEPT !.status = u, !.start = s, !.type = t, !.value = v]

\* What a client may ask for: an update, a clone or a deletion names a campaign
\* there is, the others are refused at once; a start is the next day.
NewRequest ==
    LET starts == {NoStart, Today + 1}
    IN  {AskCreate(s) : s \in starts}
        \cup {Ask("pay", 0)}
        \cup {Ask(o, c) : o \in {"delete", "clone"}, c \in DOMAIN campaigns}
        \cup {Ask("settle", t) : t \in DOMAIN transactions}
        \cup {AskRule(c) : c \in DOMAIN campaigns}
        \cup {AskUpdate(c, "unspecified", NoStart, "VOUCHER", v) :
                c \in DOMAIN campaigns, v \in {"VOUCHER", "none"}}
        \cup {AskUpdate(c, u, s, "none", "none") :
                c \in DOMAIN campaigns, u \in {"ACTIVE", "unspecified"}, s \in starts}

Receive(h) ==
    /\ phase[h] = "idle" /\ served < MaxCalls
    /\ served' = served + 1
    /\ \E r \in NewRequest :
          /\ Proceed(h, FirstPhase[r.op])
          /\ request' = [request EXCEPT ![h] = r]
          /\ made' = [made EXCEPT ![h] = served + 1]
    /\ overlapped' = (overlapped \/ \E g \in Handler : phase[g] # "idle")
    /\ UNCHANGED <<redis, time, faults, book, drawn, row, intended, late, refused>>

\* The counter of the day the code is drawn on; the transactions of every
\* tenant use the one of "T002".
DailyKey(h) == <<IF request[h].op = "pay" THEN "TXN" ELSE "CMP", request[h].day>>

\* nextDailyCode's INCR.  The first number of the day is told to expire.
Draw(h) ==
    /\ phase[h] = "incr"
    /\ Increment(DailyKey(h))
    /\ drawn' = [drawn EXCEPT ![h] = <<DailyKey(h), counter[DailyKey(h)] + 1>>]
    /\ Proceed(h, IF counter[DailyKey(h)] = 0 THEN "expire" ELSE "insert")
    /\ late' = (late \/ Ending(request[h].day))
    /\ UNCHANGED <<time, served, faults, book, request, made, row, intended, overlapped, refused>>

\* INCR fails: CreateCampaign answers the error, CreateTransaction goes on
\* without a code.
DrawFails(h) ==
    /\ phase[h] = "incr" /\ Fault
    /\ IF request[h].op = "pay"
       THEN Proceed(h, "insert") /\ UNCHANGED <<request, made, drawn, row>>
       ELSE Answer(h)
    /\ UNCHANGED <<redis, time, served, book, intended, overlapped, late, refused>>

\* Mutation: the midnight the key expires at is the one that began the day.
ExpireAtOnce(h) ==
    /\ phase[h] = "expire"
    /\ Forget({DailyKey(h)})
    /\ Proceed(h, "insert")
    /\ UNCHANGED <<time, served, faults, book, request, made, drawn, row, intended,
                   overlapped, late, refused>>

Expire(h) ==
    /\ phase[h] = "expire"
    /\ SetExpiry(DailyKey(h))
    /\ Proceed(h, "insert")
    /\ UNCHANGED <<time, served, faults, book, request, made, drawn, row, intended,
                   overlapped, late, refused>>

\* The error of EXPIRE is ignored.
ExpireFails(h) ==
    /\ phase[h] = "expire" /\ Fault
    /\ Proceed(h, "insert")
    /\ UNCHANGED <<redis, time, served, book, request, made, drawn, row, intended,
                   overlapped, late, refused>>

\* CreateCampaign's row is its own rule; CloneCampaign's keeps the original's
\* code, rule and start.
NewCampaign(h) ==
    IF request[h].op = "clone"
    THEN [row[h] EXCEPT !.status = "DRAFT"]
    ELSE [code |-> drawn[h], rule |-> made[h], status |-> "DRAFT", start |-> request[h].start,
          type |-> request[h].type, value |-> request[h].value]

InsertCampaign(h) ==
    /\ phase[h] = "insert" /\ request[h].op # "pay"
    /\ campaigns' = With(campaigns, made[h], NewCampaign(h))
    /\ intended' = With(intended, made[h], NewCampaign(h))
    /\ Answer(h)
    /\ UNCHANGED <<environment, transactions, overlapped, late, refused>>

\* The unique index refuses a second row without a code, and one with the day
\* and number of another if their random characters agree too.
InsertTransaction(h) ==
    /\ phase[h] = "insert" /\ request[h].op = "pay"
    /\ LET same == {t \in DOMAIN transactions : transactions[t].code = drawn[h]}
       IN \/ /\ same = {} \/ drawn[h] # NoCode
             /\ transactions' = With(transactions, made[h], [code |-> drawn[h], status |-> "PENDING"])
             /\ UNCHANGED refused
          \/ /\ same # {} /\ refused' = TRUE
             /\ UNCHANGED transactions
    /\ Answer(h)
    /\ UNCHANGED <<environment, campaigns, intended, overlapped, late>>

\* UpdateCampaign and CloneCampaign read the row first.
ReadCampaign(h) ==
    /\ phase[h] = "read"
    /\ IF request[h].on \in DOMAIN campaigns
       THEN /\ row' = [row EXCEPT ![h] = campaigns[request[h].on]]
            /\ Proceed(h, IF request[h].op = "clone" THEN "insert" ELSE "write")
            /\ UNCHANGED <<request, made, drawn>>
       ELSE Answer(h)
    /\ UNCHANGED <<environment, book, intended, overlapped, late, refused>>

\* Mutation: the status is not tested for being there.  The name of the
\* unspecified status is no empty string; here it reads as a draft.
ReplaceStatus(r, c) ==
    [c EXCEPT !.status = IF r.status # "unspecified" THEN r.status ELSE "DRAFT",
              !.start = IF r.start # NoStart THEN r.start ELSE @,
              !.type = IF r.type # "none" THEN r.type ELSE @,
              !.value = IF r.value # "none" THEN r.value ELSE @]

\* The campaign c with the fields the request names.
Named(r, c) ==
    [c EXCEPT !.status = IF r.status # "unspecified" THEN r.status ELSE @,
              !.start = IF r.start # NoStart THEN r.start ELSE @,
              !.type = IF r.type # "none" THEN r.type ELSE @,
              !.value = IF r.value # "none" THEN r.value ELSE @]

\* The same, said of every field at once.
Meant(r, c) ==
    [f \in DOMAIN c |-> IF f \in DOMAIN r /\ r[f] # NoRequest[f] THEN r[f] ELSE c[f]]

\* Mutation: the copy is saved, not updated: Save inserts a row that is gone.
SaveCampaign(h) ==
    /\ phase[h] = "write"
    /\ campaigns' = With(campaigns, request[h].on, Named(request[h], row[h]))
    /\ intended' = With(intended, request[h].on, Named(request[h], row[h]))
    /\ Answer(h)
    /\ UNCHANGED <<environment, transactions, overlapped, late, refused>>

\* Updates writes every field of the copy that is not empty, the fields read
\* before as well; it therefore leaves out a rule set to "" for a new
\* expression, and a start that is still nil.  No row updated is no error.
WriteCampaign(h) ==
    /\ phase[h] = "write"
    /\ LET c == request[h].on
           copy == Named(request[h], row[h])
       IN IF c \in DOMAIN campaigns
          THEN /\ campaigns' = [campaigns EXCEPT ![c] =
                     [copy EXCEPT !.rule = IF request[h].dsl THEN campaigns[c].rule ELSE @,
                                  !.start = IF @ = NoStart THEN campaigns[c].start ELSE @]]
               /\ intended' = [intended EXCEPT ![c] = Meant(request[h], @)]
          ELSE UNCHANGED <<campaigns, intended>>
    /\ Answer(h)
    /\ UNCHANGED <<environment, transactions, overlapped, late, refused>>

DeleteCampaign(h) ==
    /\ phase[h] = "delete"
    /\ campaigns' = Without(campaigns, request[h].on)
    /\ intended' = Without(intended, request[h].on)
    /\ Answer(h)
    /\ UNCHANGED <<environment, transactions, overlapped, late, refused>>

\* Mutation: the transaction's code is looked up as it is.
parseCode(c) == c

\* The number snowflake.ParseString reads from a code: none, so 0.
parseID(c) == <<<<"0", 0>>, 0>>

\* The transactions GetTransaction finds for a code.
GetTransaction(c) == {t \in DOMAIN transactions : transactions[t].code = parseID(c)}

\* UpdateTransactionStatus: the UPDATE finds no row, and neither does the SELECT
\* of the answer.
UpdateTransactionStatus(h) ==
    /\ phase[h] = "settle"
    /\ LET found == GetTransaction(transactions[request[h].on].code)
       IN transactions' = [t \in DOMAIN transactions |->
              IF t \in found
              THEN [transactions[t] EXCEPT !.status = "SUCCESS"] ELSE transactions[t]]
    /\ Answer(h)
    /\ UNCHANGED <<environment, campaigns, intended, overlapped, late, refused>>

\* A statement fails, or the replica dies.
FailHandler(h) ==
    /\ phase[h] # "idle" /\ Fault
    /\ Answer(h)
    /\ UNCHANGED <<redis, time, served, book, intended, overlapped, late, refused>>

----------------------------------------------------------------------------
\* The clock moves between any two statements.
PassTime ==
    /\ Tick
    /\ UNCHANGED <<book, handling, intended, overlapped, late, refused>>

\* Redis drops a counter that has expired.
DropCounter ==
    /\ \E k \in Key : Drop(k)
    /\ UNCHANGED <<book, handling, intended, overlapped, late, refused>>

\* All calls were served.
Rest ==
    /\ served = MaxCalls /\ \A h \in Handler : phase[h] = "idle"
    /\ UNCHANGED vars

Next ==
    \/ \E h \in Handler :
          \/ Receive(h) \/ Draw(h) \/ DrawFails(h) \/ Expire(h) \/ ExpireFails(h)
          \/ InsertCampaign(h) \/ InsertTransaction(h)
          \/ ReadCampaign(h) \/ WriteCampaign(h) \/ DeleteCampaign(h)
          \/ UpdateTransactionStatus(h) \/ FailHandler(h)
    \/ PassTime \/ DropCounter \/ Rest

Spec == Init /\ [][Next]_vars

----------------------------------------------------------------------------
\* What a caller is shown of a campaign: its reward, if it is one of its type.
ToProto(c) == [c EXCEPT !.value = IF @ = c.type THEN @ ELSE "none"]
GetCampaign(f, c) == IF c \in DOMAIN f THEN {ToProto(f[c])} ELSE {}

\* ListCampaigns and GetActiveCampaigns: NULL <= now is not true.
OnlyActive(f) == {c \in DOMAIN f : f[c].status = "ACTIVE"}
ActiveCampaigns(f) == {c \in OnlyActive(f) : f[c].start # NoStart /\ f[c].start <= Today}

\* Campaign.IsActive, which the model offers and no service calls.
IsActive(c) == c.status = "ACTIVE" /\ (c.start = NoStart \/ c.start <= Today)

TypeOK ==
    /\ EnvironmentTypeOK
    /\ DOMAIN campaigns \subseteq RowId
    /\ \A c \in DOMAIN campaigns : campaigns[c] \in Campaign
    /\ DOMAIN transactions \subseteq RowId
    /\ \A t \in DOMAIN transactions : transactions[t] \in Transaction
    /\ DOMAIN intended = DOMAIN campaigns
    /\ phase \in [Handler -> Phase]
    /\ request \in [Handler -> Request]
    /\ made \in [Handler -> RowId \cup {0}]
    /\ drawn \in [Handler -> Code \cup {NoCode}]
    /\ row \in [Handler -> Campaign \cup {NoRow}]
    /\ overlapped \in BOOLEAN /\ late \in BOOLEAN /\ refused \in BOOLEAN

\* The codes of the daily counters: two campaigns created, not cloned, have one
\* code - and a transaction is refused as another's duplicate - only if a
\* counter was used in the last two seconds of its day, when Redis drops it, or
\* after, or if Redis failed for two transactions.
CodesUnique ==
    /\ late \/ \A c, d \in {x \in DOMAIN campaigns : campaigns[x].rule = x} :
          campaigns[c].code = campaigns[d].code => c = d
    /\ refused => late \/ faults >= 2

\* A deleted campaign stays deleted, whatever updates and clones had read it
\* before: a row appears only where a handler inserts a new one.
DeletedStaysDeleted ==
    [][\A c \in DOMAIN campaigns' \ DOMAIN campaigns :
          \E h \in Handler : phase[h] = "insert" /\ made[h] = c]_vars

\* Updates that overlap no other call change what they name and nothing else,
\* so that GetCampaign shows what the last updates said and GetActiveCampaigns
\* lists the campaigns that were activated and have begun.
UpdatesKeepOthers ==
    ~overlapped =>
        /\ \A c \in RowId : GetCampaign(campaigns, c) = GetCampaign(intended, c)
        /\ ActiveCampaigns(campaigns) =
              {c \in DOMAIN intended : IsActive(intended[c]) /\ intended[c].start # NoStart}
=============================================================================
