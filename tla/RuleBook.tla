----------------------------- MODULE RuleBook -----------------------------
(***************************************************************************)
(* The table of the rule service for one tenant (services/rule): how rules  *)
(* are written and read back, listed page by page while they change, and    *)
(* evaluated one by one with the CEL environments a replica keeps           *)
(* (pkg/celengine).  BatchEvaluate and its caches are RuleCache's.          *)
(***************************************************************************)
EXTENDS Integers, Sequences, FiniteSets, SequencesExt

CONSTANTS
    Lister,         \* clients, each of which lists the rules once
    Evaluator,      \* handlers that evaluate at the same time
    Draft,          \* the rules clients write
    Transaction,    \* the transactions events report
    Plain,          \* the names of attributes without a comma, the empty one apart
    Join(_),        \* names sorted and written one after the other, with commas between
    Limit,          \* rules per page
    MaxRequests     \* bound: how often the table is written or an evaluation asked for

ASSUME RuleBookAssumption ==
    /\ Limit \in Nat \ {0}
    /\ MaxRequests \in Nat

\* Written so, plain names can be told apart; "a,b" and the two names "a" and "b" cannot.
ASSUME JoinAssumption == \A S, T \in SUBSET Plain : Join(S) = Join(T) => S = T

VARIABLES
    rules,          \* rules, by the number of the edit that made them
    envs,           \* envCache: CEL environments by the joined names they declare
    listing,        \* each client's place in its listing and what it was given
    due,            \* history: the rules it began with that nobody has written since
    pc,             \* the next step of each evaluation
    call,           \* what it was asked, the rule it read, its environment, its answer
    edits, calls

table == <<rules, edits>>
lists == <<listing, due>>
evaluations == <<envs, pc, call, calls>>
vars == <<table, lists, evaluations>>

----------------------------------------------------------------------------
(* Actions of a rule: their JSON, and what is made of it. *)

ActionType == {"REWARD_POINT", "VOUCHER", "CASHBACK", "NOTIFY", "TAG", "UNSPECIFIED"}

\* An action has a type and may hold payloads of several; Nil is a nil entry.
\* A rule's actions are a set: nothing depends on their order.
Action == [type : ActionType, payloads : SUBSET ActionType]
Nil == [type |-> "UNSPECIFIED", payloads |-> {"UNSPECIFIED"}]

ModelActionsFromProto(src) == src \ {Nil}

\* json.Marshal writes the type of an action, a protobuf enum, as its number.
SetActions(actions) == [types |-> "numbers", actions |-> actions]

\* UnmarshalJSON reads the type into a string: a number there is an error.
ActionsRead(stored) == stored.actions = {} \/ stored.types = "names"

\* An answer shows of each action the payload of its type, of one without a
\* type the points.
ProtoActionsFromModel(actions) ==
    {[a EXCEPT !.payloads =
         @ \cap {IF a.type = "UNSPECIFIED" THEN "REWARD_POINT" ELSE a.type}] : a \in actions}

\* Mutation: every payload an action holds is rewarded.
RewardsOfAll(actions) == UNION {a.payloads : a \in actions}

\* buildActionSummary adds up the payloads of their action's type only.
Rewards(actions) ==
    {t \in ActionType \ {"UNSPECIFIED"} : \E a \in actions : a.type = t /\ t \in a.payloads}

----------------------------------------------------------------------------
(* Events, CEL environments and expressions. *)

\* The JSON of a transaction: zero fields are left out, its metadata is a map.
StructToMap(t) ==
    [n \in {m \in DOMAIN t.fields : t.fields[m] # "zero"}
           \cup IF t.metadata = << >> THEN {} ELSE {"metadata"}
       |-> IF n \in DOMAIN t.fields THEN t.fields[n] ELSE "map"]

\* The event the orchestrator makes of it, by attribute the kind of its value;
\* what the metadata says goes before the transaction's own fields.
buildContext(t) ==
    LET fields == StructToMap(t)
    IN [n \in {"user_id"} \cup DOMAIN fields \cup DOMAIN t.metadata |->
           IF n \in DOMAIN t.metadata THEN t.metadata[n]
           ELSE IF n \in DOMAIN fields THEN fields[n] ELSE "text"]

\* The type an environment gives an attribute.
CelType == [text |-> "string", number |-> "int", flag |-> "bool", map |-> "map"]
BuildCelEnvFromAttributes(event) == [n \in DOMAIN event |-> CelType[event[n]]]

\* A transaction's fields and its metadata are values of these kinds; the JSON
\* has the metadata beside the fields.
ASSUME TransactionAssumption ==
    \A t \in Transaction :
        /\ \A n \in DOMAIN t.fields : t.fields[n] \in {"zero"} \cup DOMAIN CelType
        /\ \A n \in DOMAIN t.metadata : t.metadata[n] \in DOMAIN CelType
        /\ "metadata" \notin DOMAIN t.fields

\* Mutation: environments are cached by how many attributes they declare.
EnvSize(event) == Cardinality(DOMAIN event)

\* The key of GetOrBuildEnv: the names, not the types, in one string.
EnvKey(event) == Join(DOMAIN event)

\* celengine.Evaluate: the expression must compile in the environment, and its
\* operators must have an overload for the values the event brings.
Evaluate(env, expr, event) ==
    IF \/ expr.name = ""
       \/ /\ expr.name \in DOMAIN env \cap DOMAIN event
          /\ env[expr.name] = expr.type /\ CelType[event[expr.name]] = expr.type
    THEN expr.gives ELSE "error"

----------------------------------------------------------------------------
\* An expression names one attribute and the type it needs, or none; the empty
\* expression does not compile.
Expr == [name : STRING, type : STRING, gives : {"match", "no match", "error"}]
NoExpr == [name |-> "", type |-> "", gives |-> "error"]

Row == [active : BOOLEAN, priority : Int, expr : Expr,
        actions : [types : {"numbers", "names"}, actions : SUBSET Action]]

\* What a client writes.
ASSUME DraftAssumption ==
    Draft \subseteq [active : BOOLEAN, priority : Int, expr : Expr, actions : SUBSET Action]

\* What a caller is shown of a rule, unless its actions cannot be read.
ToProto(row) ==
    [ok |-> ActionsRead(row.actions),
     rule |-> [row EXCEPT !.actions = ProtoActionsFromModel(@.actions)]]

NoCursor == << >>
NoListing == [state |-> "idle", cursor |-> NoCursor, given |-> << >>]
Question(event, r) ==
    [event |-> event, rule |-> r, row |-> << >>, env |-> << >>, answer |-> << >>]
NoCall == Question(<< >>, 0)
Stages == {"idle", "fetch", "env", "build", "evaluate", "answer"}

Init ==
    /\ rules = << >> /\ edits = 0
    /\ listing = [l \in Lister |-> NoListing]
    /\ due = [l \in Lister |-> << >>]
    /\ envs = << >>
    /\ pc = [e \in Evaluator |-> "idle"]
    /\ call = [e \in Evaluator |-> NoCall]
    /\ calls = 0

----------------------------------------------------------------------------
(* Edits. *)

Without(rows, S) == [j \in DOMAIN rows \ S |-> rows[j]]

\* The table is written, and of its rules those in S.
Edit(table2, S) ==
    /\ edits + calls < MaxRequests /\ edits' = edits + 1
    /\ rules' = table2
    /\ due' = [l \in Lister |-> IF listing[l].state = "reading"
                               THEN Without(due[l], S) ELSE due[l]]
    /\ UNCHANGED <<listing, evaluations>>

With(i, row) == [j \in DOMAIN rules \cup {i} |-> IF j = i THEN row ELSE rules[j]]

RowOf(draft) == [draft EXCEPT !.actions = SetActions(ModelActionsFromProto(@))]

\* CreateRule refuses an empty expression; the row is written before it is read back for the answer.
CreateRule ==
    \E d \in Draft : d.expr # NoExpr /\ Edit(With(edits + 1, RowOf(d)), {})

\* Rules imported with the names of their types, as the generator in
\* services/rule/testdata writes them.
ImportRule ==
    \E d \in Draft :
        /\ d.expr # NoExpr /\ d.actions # {}
        /\ Edit(With(edits + 1, [RowOf(d) EXCEPT !.actions.types = "names"]), {})

\* UpdateRule writes every column of a rule that is still there, an empty
\* expression too.
UpdateRule == \E r \in DOMAIN rules, d \in Draft : Edit(With(r, RowOf(d)), {r})

DeleteRule ==
    \E r \in DOMAIN rules : Edit(Without(rules, {r}), {r})

\* CreateRule and UpdateRule answer what they wrote in the same way.
GetRule(r) ==
    IF r \in DOMAIN rules THEN ToProto(rules[r]) ELSE [ok |-> FALSE, rule |-> << >>]

----------------------------------------------------------------------------
(* ListRules. *)

Active == {r \in DOMAIN rules : rules[r].active}

\* ORDER BY priority DESC, rule_id ASC.
Precedes(p, r, q, s) == p > q \/ (p = q /\ r < s)
Before(r, s) == Precedes(rules[r].priority, r, rules[s].priority, s)

\* Mutation: rules of the priority the last page ended with are skipped.
SkipPriority(cursor) ==
    {r \in Active : cursor = NoCursor \/ rules[r].priority < cursor[1]}

\* The rows behind the cursor.
After(cursor) ==
    {r \in Active : cursor = NoCursor
                    \/ Precedes(cursor[1], cursor[2], rules[r].priority, r)}

\* The rules of S as the query sorts them.
InOrder(S) ==
    CHOOSE q \in SetToSeqs(S) : \A i, j \in DOMAIN q : i < j => Before(q[i], q[j])

\* Who asks for the next page gives the last rule it was given.
encodeCursor(page) == <<rules[Last(page)].priority, Last(page)>>

StartListing(l) ==
    /\ listing[l].state = "idle"
    /\ listing' = [listing EXCEPT ![l].state = "reading"]
    /\ due' = [due EXCEPT ![l] = rules]
    /\ UNCHANGED <<table, evaluations>>

\* One call of ListRules reads one rule more than a page to know if there is
\* another page; one rule whose actions cannot be read fails the page.
ListRules(l) ==
    /\ listing[l].state = "reading"
    /\ LET found == InOrder(After(listing[l].cursor))
           page == SubSeq(found, 1, IF Len(found) < Limit THEN Len(found) ELSE Limit)
       IN listing' = [listing EXCEPT ![l] =
              IF \E r \in Range(page) : ~ToProto(rules[r]).ok THEN [@ EXCEPT !.state = "failed"]
              ELSE [state |-> IF Len(found) > Limit THEN "reading" ELSE "done",
                    cursor |-> IF Len(found) > Limit THEN encodeCursor(page) ELSE NoCursor,
                    given |-> @.given \o page]]
    /\ UNCHANGED <<table, due, evaluations>>

----------------------------------------------------------------------------
(* EvaluateRule, and StreamEvaluate with one rule id. *)

Goto(e, stage) == pc' = [pc EXCEPT ![e] = stage]

Ask(e) ==
    /\ pc[e] = "idle" /\ edits + calls < MaxRequests /\ calls' = calls + 1
    /\ \E r \in DOMAIN rules, t \in Transaction :
          call' = [call EXCEPT ![e] = Question(buildContext(t), r)]
    /\ Goto(e, "fetch")
    /\ UNCHANGED <<table, lists, envs>>

\* StreamEvaluate without ids compiles every active rule, stores the programs
\* where nothing looks for them and answers nothing; what is left of it is the
\* environment.  So it is, here, of a BatchEvaluate that has to compile.
AskForAll(e) ==
    /\ pc[e] = "idle" /\ edits + calls < MaxRequests /\ calls' = calls + 1
    /\ \E t \in Transaction :
          call' = [call EXCEPT ![e] = Question(buildContext(t), 0)]
    /\ Goto(e, "env")
    /\ UNCHANGED <<table, lists, envs>>

Done(E) ==
    /\ pc' = [e \in Evaluator |-> IF e \in E THEN "idle" ELSE pc[e]]
    /\ call' = [e \in Evaluator |-> IF e \in E THEN NoCall ELSE call[e]]

\* GetByID; a rule that is gone is an error of the call, or of its result.
Fetch(e) ==
    /\ pc[e] = "fetch"
    /\ IF call[e].rule \in DOMAIN rules
       THEN /\ call' = [call EXCEPT ![e].row = rules[call[e].rule]]
            /\ Goto(e, "env")
       ELSE Done({e})
    /\ UNCHANGED <<table, lists, envs, calls>>

\* GetOrBuildEnv: the cached environment, or else one of its own.
LoadEnv(e) ==
    /\ pc[e] = "env"
    /\ LET key == EnvKey(call[e].event)
       IN IF key \in DOMAIN envs
          THEN call' = [call EXCEPT ![e].env = envs[key]] /\ Goto(e, "evaluate")
          ELSE UNCHANGED call /\ Goto(e, "build")
    /\ UNCHANGED <<table, lists, envs, calls>>

\* Built without a lock: of two that are built at once the last is kept.
BuildEnv(e) ==
    /\ pc[e] = "build"
    /\ LET env == BuildCelEnvFromAttributes(call[e].event)
           key == EnvKey(call[e].event)
       IN /\ call' = [call EXCEPT ![e].env = env]
          /\ envs' = [k \in DOMAIN envs \cup {key} |-> IF k = key THEN env ELSE envs[k]]
    /\ Goto(e, "evaluate")
    /\ UNCHANGED <<table, lists, calls>>

\* executeRule: a match is answered with the summary of the actions, or is an
\* error if they cannot be read.
Result(c) ==
    LET gave == Evaluate(c.env, c.row.expr, c.event)
        fails == gave = "match" /\ ~ActionsRead(c.row.actions)
    IN [result |-> IF fails THEN "error" ELSE gave,
        rewards |-> IF gave = "match" /\ ~fails THEN Rewards(c.row.actions.actions) ELSE {}]

ExecuteRule(e) ==
    /\ pc[e] = "evaluate"
    /\ IF call[e].rule = 0 THEN Done({e})
       ELSE call' = [call EXCEPT ![e].answer = Result(call[e])] /\ Goto(e, "answer")
    /\ UNCHANGED <<table, lists, envs, calls>>

\* EvaluateRule returns the result; StreamEvaluate sends it and waits for the
\* next request.
Answer(e) ==
    /\ pc[e] = "answer"
    /\ Done({e})
    /\ UNCHANGED <<table, lists, envs, calls>>

\* The replica restarts: its environments are gone and its calls fail.
Restart ==
    /\ envs' = << >>
    /\ Done(Evaluator)
    /\ UNCHANGED <<table, lists, calls>>

\* Nobody asks, lists or edits any more.
Rest ==
    /\ edits + calls = MaxRequests
    /\ \A e \in Evaluator : pc[e] = "idle"
    /\ \A l \in Lister : listing[l].state \in {"done", "failed"}
    /\ UNCHANGED vars

----------------------------------------------------------------------------
Next ==
    \/ CreateRule \/ ImportRule \/ UpdateRule \/ DeleteRule
    \/ \E l \in Lister : StartListing(l) \/ ListRules(l)
    \/ \E e \in Evaluator : Ask(e) \/ AskForAll(e) \/ Fetch(e) \/ LoadEnv(e)
                            \/ BuildEnv(e) \/ ExecuteRule(e) \/ Answer(e)
    \/ Restart \/ Rest

Spec == Init /\ [][Next]_vars

----------------------------------------------------------------------------
TypeOK ==
    /\ DOMAIN rules \subseteq 1..edits
    /\ \A r \in DOMAIN rules : rules[r] \in Row
    /\ \A k \in DOMAIN envs : \A n \in DOMAIN envs[k] : envs[k][n] \in Range(CelType)
    /\ \A l \in Lister :
          /\ listing[l].state \in {"idle", "reading", "done", "failed"}
          /\ listing[l].given \in Seq(1..edits)
          /\ DOMAIN due[l] \subseteq 1..edits
    /\ pc \in [Evaluator -> Stages]
    /\ edits \in Nat /\ calls \in Nat /\ edits + calls <= MaxRequests

\* Every rule can be read back: CreateRule and GetRule answer without an error
\* whatever actions the rule has (TestService_CreateAndGetRule).
RulesReadable == \A r \in DOMAIN rules : GetRule(r).ok

\* Keyset paging over a table that changes: of the rules nobody updated or
\* deleted while it was read, a listing gives each that was active once and in
\* order, and when it is done none is missing.
ListedOnce ==
    \A l \in Lister :
        LET given == listing[l].given
        IN /\ \A i, j \in DOMAIN given : i < j /\ {given[i], given[j]} \subseteq DOMAIN due[l] =>
                 Precedes(due[l][given[i]].priority, given[i], due[l][given[j]].priority, given[j])
           /\ listing[l].state = "done" =>
                 \A r \in DOMAIN due[l] : due[l][r].active <=> r \in Range(given)

\* An environment out of the cache answers like one built for the event itself,
\* whoever built it and when, but for what the key does not tell: names with
\* commas in them, and the type of the attribute the rule is about.
EnvironmentsAgree ==
    \A e \in Evaluator : pc[e] = "answer" =>
        LET own == BuildCelEnvFromAttributes(call[e].event)
            env == call[e].env
            name == call[e].row.expr.name
        IN \/ call[e].answer = Result([call[e] EXCEPT !.env = own])
           \/ ~(DOMAIN env \cup DOMAIN own \subseteq Plain)
           \/ DOMAIN env = DOMAIN own /\ name \in DOMAIN own /\ env[name] # own[name]

\* A match rewards what GetRule shows of the rule: the payloads of the actions'
\* own types, whatever other payloads the client sent along.
RewardsAsShown ==
    \A e \in Evaluator : pc[e] = "answer" /\ call[e].answer.result = "match" =>
        LET shown == ToProto(call[e].row).rule.actions
        IN call[e].answer.rewards =
              {t \in ActionType \ {"UNSPECIFIED"} :
                  \E a \in shown : a.type = t /\ a.payloads # {}}
=============================================================================
