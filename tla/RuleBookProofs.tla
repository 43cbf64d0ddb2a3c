-------------------------- MODULE RuleBookProofs --------------------------
(***************************************************************************)
(* Proofs about RuleBook, for any clients, handlers, rules, transactions,   *)
(* page size and bounds.                                                    *)
(*                                                                         *)
(* A listing is right because the order of its query is total: each set of  *)
(* rules has one listing (ranked by how many come before), a page is the    *)
(* start of it, and what nobody touched lies on the side of the cursor      *)
(* where it was.  Evaluations take from the cache only environments that    *)
(* were built for names that join to those of their own events: the same   *)
(* names, if no comma is among them.                                        *)
(***************************************************************************)
EXTENDS RuleBook, FiniteSetTheorems, SequenceTheorems, TLAPS

\* The table: rules are numbered by the edits that made them.
RulesOK ==
    /\ edits \in Nat /\ DOMAIN rules \subseteq 1..edits
    /\ \A r \in DOMAIN rules : rules[r] \in Row

----------------------------------------------------------------------------
(* What edits write. *)

LEMMA RowOfIsRow ==
  ASSUME NEW d \in Draft
  PROVE  RowOf(d) \in Row /\ [RowOf(d) EXCEPT !.actions.types = "names"] \in Row
<1>1. d \in [active : BOOLEAN, priority : Int, expr : Expr, actions : SUBSET Action]
  BY DraftAssumption
<1>2. d.actions \ {Nil} \in SUBSET Action
  BY <1>1
<1>3. PICK set : set = [types |-> "numbers", actions |-> d.actions \ {Nil}]
  OBVIOUS
<1>4. RowOf(d) = [d EXCEPT !.actions = set]
  BY <1>3 DEF RowOf, SetActions, ModelActionsFromProto
<1>5. PICK named : named = [set EXCEPT !.types = "names"]
  OBVIOUS
<1>6. {set, named} \subseteq [types : {"numbers", "names"}, actions : SUBSET Action]
  BY <1>2, <1>3, <1>5
<1>7. PICK row : row = [d EXCEPT !.actions = set]
  OBVIOUS
<1>8. row \in Row /\ row.actions = set
  BY <1>1, <1>6, <1>7 DEF Row
<1>9. [row EXCEPT !.actions.types = "names"] = [row EXCEPT !.actions = named]
  BY <1>5, <1>8
<1>10. [row EXCEPT !.actions = named] \in Row
  BY <1>6, <1>8 DEF Row
<1> QED
  BY <1>4, <1>7, <1>8, <1>9, <1>10

----------------------------------------------------------------------------
(* The order of the query is total on rules, so each set of them has a listing. *)

\* The rules of S that come before r, and the place of r among them.
Ahead(S, r) == {s \in S : Before(s, r)}
Rank(S) == [r \in S |-> Cardinality(Ahead(S, r)) + 1]

\* Rules that come earlier have fewer rules ahead.
LEMMA RankGrows ==
  ASSUME RulesOK, NEW S \in SUBSET DOMAIN rules, IsFiniteSet(S)
  PROVE  /\ Rank(S) \in [S -> 1..Cardinality(S)]
         /\ \A r, s \in S : Before(r, s) => Rank(S)[r] < Rank(S)[s]
<1>1. \A r \in S : rules[r].priority \in Int /\ r \in Int
  BY DEF RulesOK, Row
<1>2. ASSUME NEW r \in S
      PROVE  /\ IsFiniteSet(Ahead(S, r)) /\ Cardinality(Ahead(S, r)) \in Nat
             /\ Cardinality(Ahead(S, r)) + 1 \in 1..Cardinality(S)
  <2>1. Ahead(S, r) \in SUBSET S /\ r \notin Ahead(S, r)
    BY <1>1 DEF Ahead, Before, Precedes
  <2>2. /\ IsFiniteSet(Ahead(S, r)) /\ Cardinality(Ahead(S, r)) <= Cardinality(S)
        /\ Cardinality(S) = Cardinality(Ahead(S, r)) => S = Ahead(S, r)
    BY <2>1, FS_Subset
  <2>3. Cardinality(S) # Cardinality(Ahead(S, r))
    BY <2>1, <2>2
  <2>4. Cardinality(S) \in Nat /\ Cardinality(Ahead(S, r)) \in Nat
    BY <2>2, FS_CardinalityType
  <2> QED
    BY <2>2, <2>3, <2>4
<1>3. Rank(S) \in [S -> 1..Cardinality(S)]
  BY <1>2 DEF Rank
<1>4. ASSUME NEW r \in S, NEW s \in S, Before(r, s)
      PROVE  Rank(S)[r] < Rank(S)[s]
  <2>1. Ahead(S, r) \in SUBSET Ahead(S, s)
    BY <1>1, <1>4 DEF Ahead, Before, Precedes
  <2>2. r \in Ahead(S, s) /\ r \notin Ahead(S, r)
    BY <1>1, <1>4 DEF Ahead, Before, Precedes
  <2>3. /\ Cardinality(Ahead(S, r)) <= Cardinality(Ahead(S, s))
        /\ Cardinality(Ahead(S, s)) = Cardinality(Ahead(S, r)) => Ahead(S, s) = Ahead(S, r)
    BY <1>2, <2>1, FS_Subset
  <2>4. Cardinality(Ahead(S, s)) # Cardinality(Ahead(S, r))
    BY <2>2, <2>3
  <2> QED
    BY <1>2, <2>3, <2>4 DEF Rank
<1> QED
  BY <1>3, <1>4

\* InOrder lists every rule of S, and each before those it precedes.
LEMMA Sorted ==
  ASSUME RulesOK, NEW S \in SUBSET DOMAIN rules
  PROVE  /\ Cardinality(S) \in Nat
         /\ InOrder(S) \in [1..Cardinality(S) -> S]
         /\ \A r \in S : \E i \in 1..Cardinality(S) : InOrder(S)[i] = r
         /\ \A i, j \in 1..Cardinality(S) :
               i < j => Before(InOrder(S)[i], InOrder(S)[j])
<1>1. IsFiniteSet(S)
  <2>1. edits \in Int /\ 1 \in Int
    BY DEF RulesOK
  <2>2. IsFiniteSet(1..edits)
    BY <2>1, FS_Interval
  <2> QED
    BY <2>2, FS_Subset DEF RulesOK
<1>2. PICK n \in Nat : n = Cardinality(S)
  BY <1>1, FS_CardinalityType
<1>3. PICK rank : rank = Rank(S)
  OBVIOUS
<1>4. rank \in [S -> 1..n] /\ \A r, s \in S : Before(r, s) => rank[r] < rank[s]
  BY <1>1, <1>2, <1>3, RankGrows
<1>5. \A r, s \in S : r # s => Before(r, s) \/ Before(s, r)
  BY DEF RulesOK, Row, Before, Precedes
<1>6. \A r, s \in S : rank[r] \in Int /\ (rank[r] = rank[s] => r = s)
  BY <1>4, <1>5
<1>7. \A i \in 1..n : \E r \in S : rank[r] = i
  <2>1. rank \in Injection(S, 1..n)
    BY <1>4, <1>6 DEF Injection, IsInjective
  <2>2. IsFiniteSet(1..n) /\ Cardinality(1..n) = n
    <3>1. PICK a \in Int, b \in Int : a = 1 /\ b = n
      BY <1>2
    <3> QED
      BY <1>2, <3>1, FS_Interval
  <2>3. rank \in Surjection(S, 1..n)
    BY <1>2, <2>1, <2>2, FS_Injection
  <2> QED
    BY <2>3 DEF Surjection
<1>8. PICK q : q = [i \in 1..n |-> CHOOSE r \in S : rank[r] = i]
  OBVIOUS
<1>9. q \in [1..n -> S] /\ \A i \in 1..n : rank[q[i]] = i
  BY <1>7, <1>8
<1>10. \A i, j \in 1..n : i # j => q[i] # q[j]
  BY <1>9
<1>11. ASSUME NEW i \in 1..n, NEW j \in 1..n, i < j
       PROVE  Before(q[i], q[j])
  <2>1. q[i] \in S /\ q[j] \in S /\ rank[q[i]] = i /\ rank[q[j]] = j /\ q[i] # q[j]
    BY <1>9, <1>10, <1>11
  <2>2. Before(q[j], q[i]) => j < i
    BY <1>4, <2>1
  <2> QED
    BY <1>5, <1>11, <2>1, <2>2
<1>12. q \in SetToSeqs(S)
  BY <1>2, <1>9, <1>10 DEF SetToSeqs
<1>13. \A i, j \in DOMAIN q : i < j => Before(q[i], q[j])
  BY <1>9, <1>11
<1>14. PICK o : o = InOrder(S)
  OBVIOUS
<1>15. o \in SetToSeqs(S) /\ \A i, j \in DOMAIN o : i < j => Before(o[i], o[j])
  BY <1>12, <1>13, <1>14 DEF InOrder
<1>16. o \in [1..n -> S] /\ \A i, j \in 1..n : i # j => o[i] # o[j]
  BY <1>2, <1>15 DEF SetToSeqs
<1>17. o \in Injection(1..n, S) /\ IsFiniteSet(1..n) /\ Cardinality(1..n) = n
  <2>1. PICK a \in Int, b \in Int : a = 1 /\ b = n
    BY <1>2
  <2>2. IsFiniteSet(1..n) /\ Cardinality(1..n) = n
    BY <1>2, <2>1, FS_Interval
  <2> QED
    BY <1>16, <2>2 DEF Injection, IsInjective
<1>18. o \in Surjection(1..n, S)
  BY <1>1, <1>2, <1>17, FS_Injection
<1>19. \A r \in S : \E i \in 1..n : o[i] = r
  BY <1>18 DEF Surjection
<1> QED
  BY <1>2, <1>14, <1>15, <1>16, <1>19
----------------------------------------------------------------------------
(* Listings. *)

\* The rules behind the cursor of a listing.
Behind(cursor, r, row) ==
    cursor = NoCursor \/ Precedes(cursor[1], cursor[2], row.priority, r)

GivenInOrder(l) ==
    \A i, j \in DOMAIN listing[l].given :
        i < j /\ {listing[l].given[i], listing[l].given[j]} \subseteq DOMAIN due[l] =>
            Precedes(due[l][listing[l].given[i]].priority, listing[l].given[i],
                     due[l][listing[l].given[j]].priority, listing[l].given[j])

\* While it reads, what nobody touched is as it was, and it was given what is
\* active and not behind the cursor; once it is done, all that is active.
ListingOK(l) ==
    /\ listing[l] \in [state : {"idle", "reading", "done", "failed"},
                       cursor : {NoCursor} \cup Int \X Nat, given : Seq(Nat)]
    /\ \A r \in DOMAIN due[l] : r \in Nat /\ due[l][r] \in Row
    /\ listing[l].state = "idle" => listing[l] = NoListing
    /\ listing[l].state = "reading" =>
          \A r \in DOMAIN due[l] :
              /\ r \in DOMAIN rules /\ rules[r] = due[l][r]
              /\ due[l][r].active /\ ~Behind(listing[l].cursor, r, due[l][r])
                    <=> r \in Range(listing[l].given)
    /\ listing[l].state = "done" =>
          \A r \in DOMAIN due[l] : due[l][r].active <=> r \in Range(listing[l].given)
    /\ GivenInOrder(l)

ListsOK ==
    /\ DOMAIN listing = Lister /\ DOMAIN due = Lister
    /\ \A l \in Lister : ListingOK(l)

LEMMA ListingsAreRight == ListsOK => ListedOnce
  BY DEF ListsOK, ListingOK, ListedOnce, GivenInOrder

\* An edit touches what it changes of the rules there are.
LEMMA EditKeepsListings ==
  ASSUME ListsOK, NEW table2, NEW S, Edit(table2, S),
         \A r \in DOMAIN rules \ S : r \in DOMAIN table2 /\ table2[r] = rules[r]
  PROVE  ListsOK'
<1>1. /\ listing' = listing /\ rules' = table2 /\ DOMAIN due' = Lister
      /\ \A l \in Lister : due'[l] = IF listing[l].state = "reading"
                                     THEN Without(due[l], S) ELSE due[l]
  BY DEF Edit, ListsOK
<1>2. ASSUME NEW l \in Lister PROVE ListingOK(l)'
  <2>1. ListingOK(l)
    BY DEF ListsOK
  <2>2. /\ DOMAIN due'[l] \subseteq DOMAIN due[l]
        /\ \A r \in DOMAIN due'[l] : due'[l][r] = due[l][r]
        /\ listing[l].state = "reading" => DOMAIN due'[l] \cap S = {}
        /\ listing[l].state # "reading" => DOMAIN due'[l] = DOMAIN due[l]
    BY <1>1 DEF Without
  <2>3. GivenInOrder(l)'
    <3>1. GivenInOrder(l) /\ listing'[l] = listing[l]
      BY <1>1, <2>1 DEF ListingOK
    <3> QED
      BY <2>2, <3>1, SMTT(30) DEF GivenInOrder
  <2>4. listing[l].state = "reading" =>
            \A r \in DOMAIN due'[l] : r \in DOMAIN rules' /\ rules'[r] = due'[l][r]
    BY <1>1, <2>1, <2>2 DEF ListingOK
  <2> QED
    BY <1>1, <2>1, <2>2, <2>3, <2>4 DEF ListingOK
<1> QED
  BY <1>1, <1>2 DEF ListsOK

LEMMA EditsKeepRules ==
  ASSUME RulesOK, ListsOK, CreateRule \/ ImportRule \/ UpdateRule \/ DeleteRule
  PROVE  RulesOK' /\ ListsOK'
<1>1. edits + 1 \in Nat /\ edits + 1 \notin DOMAIN rules
  BY DEF RulesOK
<1>2. ASSUME NEW row \in Row, NEW r \in DOMAIN rules \cup {edits + 1}, NEW S, {r} \cap DOMAIN rules \subseteq S,
             Edit(With(r, row), S)
      PROVE  RulesOK' /\ ListsOK'
  <2>1. \A q \in DOMAIN rules \ S : q \in DOMAIN With(r, row) /\ With(r, row)[q] = rules[q]
    BY <1>2 DEF With
  <2>2. ListsOK'
    BY <1>2, <2>1, EditKeepsListings
  <2>3. rules' = With(r, row) /\ edits' = edits + 1
    BY <1>2 DEF Edit
  <2>4. r \in 1..(edits + 1)
    BY DEF RulesOK
  <2>5. DOMAIN rules' = DOMAIN rules \cup {r}
    BY <2>3 DEF With
  <2>6. DOMAIN rules' \subseteq 1..edits'
    BY <2>3, <2>4, <2>5 DEF RulesOK
  <2>7. \A q \in DOMAIN rules' : rules'[q] \in Row
    BY <1>2, <2>3 DEF RulesOK, With
  <2> QED
    BY <1>1, <2>2, <2>3, <2>6, <2>7 DEF RulesOK
<1>3. CASE CreateRule
  <2>1. PICK d \in Draft : Edit(With(edits + 1, RowOf(d)), {})
    BY <1>3 DEF CreateRule
  <2> QED
    BY <1>1, <1>2, <2>1, RowOfIsRow
<1>4. CASE ImportRule
  <2>1. PICK d \in Draft :
            Edit(With(edits + 1, [RowOf(d) EXCEPT !.actions.types = "names"]), {})
    BY <1>4 DEF ImportRule
  <2> QED
    BY <1>1, <1>2, <2>1, RowOfIsRow
<1>5. CASE UpdateRule
  <2>1. PICK r \in DOMAIN rules, d \in Draft : Edit(With(r, RowOf(d)), {r})
    BY <1>5 DEF UpdateRule
  <2> QED
    BY <1>2, <2>1, RowOfIsRow
<1>6. CASE DeleteRule
  <2>1. PICK r \in DOMAIN rules : Edit(Without(rules, {r}), {r})
    BY <1>6 DEF DeleteRule
  <2>2. ListsOK'
    BY <2>1, EditKeepsListings DEF Without
  <2>3. rules' = [j \in DOMAIN rules \ {r} |-> rules[j]] /\ edits' = edits + 1
    BY <2>1 DEF Edit, Without
  <2>4. RulesOK'
    BY <2>3 DEF RulesOK
  <2> QED
    BY <2>2, <2>4
<1> QED
  BY <1>3, <1>4, <1>5, <1>6

\* A listing nobody else takes part in.
LEMMA OtherListings ==
  ASSUME ListsOK, NEW l \in Lister, UNCHANGED rules,
         DOMAIN listing' = Lister, DOMAIN due' = Lister,
         \A k \in Lister \ {l} : listing'[k] = listing[k] /\ due'[k] = due[k],
         ListingOK(l)'
  PROVE  ListsOK'
<1>1. ASSUME NEW k \in Lister, k # l PROVE ListingOK(k)'
  <2>1. ListingOK(k) /\ listing'[k] = listing[k] /\ due'[k] = due[k]
    BY <1>1 DEF ListsOK
  <2>2. GivenInOrder(k)'
    BY <2>1 DEF ListingOK, GivenInOrder
  <2> QED
    BY <2>1, <2>2 DEF ListingOK
<1> QED
  BY <1>1 DEF ListsOK

LEMMA StartKeepsListings ==
  ASSUME RulesOK, ListsOK, NEW l \in Lister, StartListing(l)
  PROVE  ListsOK'
<1>1. ListingOK(l) /\ listing[l] = NoListing
  BY DEF ListsOK, ListingOK, StartListing
<1>2. PICK new : new = [NoListing EXCEPT !.state = "reading"]
  OBVIOUS
<1>3. new = [state |-> "reading", cursor |-> NoCursor, given |-> << >>]
  BY <1>2 DEF NoListing
<1>4. listing' = [listing EXCEPT ![l] = new]
  BY <1>1, <1>2 DEF StartListing
<1>5. /\ listing'[l] = new /\ due'[l] = rules /\ rules' = rules
      /\ DOMAIN listing' = Lister /\ DOMAIN due' = Lister
      /\ \A k \in Lister \ {l} : listing'[k] = listing[k] /\ due'[k] = due[k]
  BY <1>1, <1>4 DEF ListsOK, StartListing, table
<1>6. new \in [state : {"idle", "reading", "done", "failed"},
               cursor : {NoCursor} \cup Int \X Nat, given : Seq(Nat)]
  BY <1>3
<1>7. Range(new.given) = {} /\ DOMAIN new.given = {}
  BY <1>3 DEF Range
<1>8. GivenInOrder(l)'
  BY <1>5, <1>7 DEF GivenInOrder
<1>9. ListingOK(l)'
  BY <1>3, <1>5, <1>6, <1>7, <1>8 DEF ListingOK, Behind, RulesOK
<1> QED
  BY <1>5, <1>9, OtherListings DEF StartListing, table
\* What a listing was given and the page that follows it.
LEMMA Joined ==
  ASSUME NEW f \in Seq(Nat), NEW g \in Seq(Nat),
         NEW a \in Nat, a = Len(f), NEW b \in Nat, b = Len(g)
  PROVE  /\ f \o g \in Seq(Nat) /\ Range(f \o g) = Range(f) \cup Range(g)
         /\ DOMAIN f = 1..a /\ DOMAIN (f \o g) = 1..(a + b)
         /\ \A i \in 1..a : (f \o g)[i] = f[i]
         /\ \A i \in 1..(a + b) : ~(i <= a) => i - a \in 1..b /\ (f \o g)[i] = g[i - a]
<1>1. DOMAIN f = 1..a
  BY LenProperties
<1>2. DOMAIN g = 1..b
  BY LenProperties
<1>3. PICK h \in Seq(Nat) : h = f \o g
  BY ConcatProperties
<1>4. /\ Len(h) = a + b
      /\ \A i \in 1..(a + b) : h[i] = IF i <= a THEN f[i] ELSE g[i - a]
  BY <1>1, <1>2, <1>3, ConcatProperties
<1>5. DOMAIN h = 1..(a + b)
  BY <1>3, <1>4, LenProperties
<1>6. \A i \in 1..a : i \in 1..(a + b) /\ h[i] = f[i]
  BY <1>4
<1>7. \A i \in 1..(a + b) : ~(i <= a) => i - a \in 1..b /\ h[i] = g[i - a]
  BY <1>4
<1>8. \A i \in 1..b : i + a \in 1..(a + b) /\ h[i + a] = g[i]
  <2>1. ASSUME NEW i \in 1..b PROVE i + a \in 1..(a + b) /\ ~(i + a <= a) /\ (i + a) - a = i
    OBVIOUS
  <2> QED
    BY <1>7, <2>1
<1>9. \A i \in 1..(a + b) : ~(i <= a) \/ i \in 1..a
  OBVIOUS
<1>10. Range(h) = Range(f) \cup Range(g)
  <2>1. ASSUME NEW i \in DOMAIN h PROVE h[i] \in Range(f) \cup Range(g)
    <3>1. CASE i \in 1..a
      BY <1>1, <1>6, <3>1 DEF Range
    <3>2. CASE ~(i <= a)
      <4>1. i - a \in 1..b /\ h[i] = g[i - a]
        BY <1>5, <1>7, <2>1, <3>2
      <4> QED
        BY <1>2, <4>1 DEF Range
    <3> QED
      BY <1>5, <1>9, <2>1, <3>1, <3>2
  <2>2. ASSUME NEW i \in DOMAIN f PROVE f[i] \in Range(h)
    BY <1>1, <1>5, <1>6, <2>2 DEF Range
  <2>3. ASSUME NEW i \in DOMAIN g PROVE g[i] \in Range(h)
    <3>1. i + a \in DOMAIN h /\ h[i + a] = g[i]
      BY <1>2, <1>5, <1>8, <2>3
    <3> QED
      BY <3>1 DEF Range
  <2> QED
    BY <2>1, <2>2, <2>3 DEF Range
<1> QED
  BY <1>1, <1>2, <1>3, <1>5, <1>6, <1>7, <1>10

\* One page more.
LEMMA PageKeepsListings ==
  ASSUME RulesOK, ListsOK, NEW l \in Lister, ListRules(l)
  PROVE  ListsOK'
<1>1. PICK old : old = listing[l]
  OBVIOUS
<1>2. ListingOK(l) /\ old.state = "reading"
  BY <1>1 DEF ListsOK, ListRules
<1>3. /\ old \in [state : {"idle", "reading", "done", "failed"},
                  cursor : {NoCursor} \cup Int \X Nat, given : Seq(Nat)]
      /\ \A r \in DOMAIN due[l] : r \in Nat /\ due[l][r] \in Row
      /\ \A r \in DOMAIN due[l] :
            /\ r \in DOMAIN rules /\ rules[r] = due[l][r]
            /\ due[l][r].active /\ ~Behind(old.cursor, r, due[l][r]) <=> r \in Range(old.given)
      /\ GivenInOrder(l)
  BY <1>1, <1>2 DEF ListingOK
<1>4. PICK found : found = InOrder(After(old.cursor))
  OBVIOUS
<1>5. PICK n \in Nat : n = Cardinality(After(old.cursor))
  BY Sorted DEF After, Active
<1>6. /\ found \in [1..n -> After(old.cursor)]
      /\ \A r \in After(old.cursor) : \E i \in 1..n : found[i] = r
      /\ \A i, j \in 1..n : i < j => Before(found[i], found[j])
  <2>1. After(old.cursor) \in SUBSET DOMAIN rules
    BY DEF After, Active
  <2> QED
    BY <1>4, <1>5, <2>1, Sorted
<1>7. found \in Seq(Nat) /\ Len(found) = n
  BY <1>6 DEF RulesOK, After, Active
<1>8. PICK m \in Nat : m = IF n < Limit THEN n ELSE Limit
  BY RuleBookAssumption
<1>9. m <= n /\ (n <= Limit => m = n) /\ (n > Limit => m = Limit /\ m \in 1..n)
  BY <1>8, RuleBookAssumption
<1>10. PICK page : page = SubSeq(found, 1, m)
  OBVIOUS
<1>11. /\ page \in Seq(Nat) /\ Len(page) = m /\ DOMAIN page = 1..m
       /\ \A i \in 1..m : page[i] = found[i]
  BY <1>7, <1>9, <1>10
<1>12. PICK next : next = listing'[l]
  OBVIOUS
<1>13. /\ next = IF \E r \in Range(page) : ~ToProto(rules[r]).ok
                 THEN [old EXCEPT !.state = "failed"]
                 ELSE [state |-> IF n > Limit THEN "reading" ELSE "done",
                       cursor |-> IF n > Limit THEN encodeCursor(page) ELSE NoCursor,
                       given |-> old.given \o page]
       /\ DOMAIN listing' = Lister /\ \A k \in Lister \ {l} : listing'[k] = listing[k]
  BY <1>1, <1>4, <1>7, <1>8, <1>10, <1>12 DEF ListsOK, ListRules
<1>14. UNCHANGED <<rules, due>>
  BY DEF ListRules, table
<1>15. CASE next = [old EXCEPT !.state = "failed"]
  <2>1. next.state = "failed" /\ next.given = old.given /\ next.cursor = old.cursor
    BY <1>3, <1>15
  <2>2. next \in [state : {"idle", "reading", "done", "failed"},
                  cursor : {NoCursor} \cup Int \X Nat, given : Seq(Nat)]
    BY <1>3, <1>15
  <2>3. GivenInOrder(l)'
    <3>1. GivenInOrder(l) /\ listing'[l].given = listing[l].given /\ due' = due
      BY <1>1, <1>3, <1>12, <1>14, <2>1
    <3> QED
      BY <3>1, SMTT(30) DEF GivenInOrder
  <2>4. ListingOK(l)'
    BY <1>3, <1>12, <1>14, <2>1, <2>2, <2>3 DEF ListingOK
  <2> QED
    BY <1>13, <1>14, <2>4, OtherListings DEF ListsOK
<1>16. CASE next = [state |-> IF n > Limit THEN "reading" ELSE "done",
                    cursor |-> IF n > Limit THEN encodeCursor(page) ELSE NoCursor,
                    given |-> old.given \o page]
  <2>1. \* What nobody touched and the query finds.
        \A r \in DOMAIN due[l] : r \in After(old.cursor)
                               <=> due[l][r].active /\ Behind(old.cursor, r, due[l][r])
    BY <1>3 DEF After, Active, Behind
  <2>2. PICK given : given = old.given \o page
    OBVIOUS
  <2>3. given \in Seq(Nat) /\ Range(given) = Range(old.given) \cup Range(page)
    <3>1. old.given \in Seq(Nat) /\ Len(old.given) \in Nat /\ m = Len(page) /\ page \in Seq(Nat)
      BY <1>3, <1>11
    <3> QED
      BY <2>2, <3>1, Joined
  <2>3a. PICK had \in Nat :
             /\ DOMAIN old.given = 1..had /\ DOMAIN given = 1..(had + m)
             /\ \A i \in 1..had : given[i] = old.given[i]
             /\ \A i \in 1..(had + m) : ~(i <= had) => i - had \in 1..m /\ given[i] = page[i - had]
    <3>1. PICK a \in Nat : a = Len(old.given)
      BY <1>3
    <3>2. old.given \in Seq(Nat) /\ m = Len(page) /\ page \in Seq(Nat)
      BY <1>3, <1>11
    <3>3. /\ DOMAIN old.given = 1..a /\ DOMAIN given = 1..(a + m)
          /\ \A i \in 1..a : given[i] = old.given[i]
          /\ \A i \in 1..(a + m) : ~(i <= a) => i - a \in 1..m /\ given[i] = page[i - a]
      BY <2>2, <3>1, <3>2, Joined
    <3> QED
      BY <3>3, Zenon
  <2>4. \A r : r \in Range(given) <=> r \in Range(old.given) \/ \E i \in 1..m : found[i] = r
    BY <1>11, <2>3 DEF Range
  <2>5. \A r \in DOMAIN rules : rules[r].priority \in Int /\ r \in Nat
    BY DEF RulesOK, Row
  <2>6. ASSUME NEW r \in DOMAIN due[l], n > Limit
        PROVE  due[l][r].active /\ ~Behind(encodeCursor(page), r, due[l][r])
                  <=> r \in Range(given)
    <3>1. m \in 1..n /\ found[m] \in After(old.cursor) /\ found[m] \in DOMAIN rules
      BY <1>6, <1>9, <2>6 DEF After, Active
    <3>2. encodeCursor(page) = <<rules[found[m]].priority, found[m]>>
      BY <1>9, <1>11, <2>6 DEF encodeCursor, Last
    <3>3. Behind(encodeCursor(page), r, due[l][r])
             <=> Precedes(rules[found[m]].priority, found[m], due[l][r].priority, r)
      BY <3>2 DEF Behind, NoCursor
    <3>4. r \in DOMAIN rules /\ rules[r] = due[l][r]
      BY <1>3
    <3>5. ASSUME r \in Range(old.given)
          PROVE  due[l][r].active
                 /\ ~Precedes(rules[found[m]].priority, found[m], due[l][r].priority, r)
      <4>1. due[l][r].active /\ old.cursor # NoCursor
            /\ ~Precedes(old.cursor[1], old.cursor[2], due[l][r].priority, r)
        BY <1>3, <3>5 DEF Behind
      <4>2. Precedes(old.cursor[1], old.cursor[2], rules[found[m]].priority, found[m])
        BY <3>1, <4>1 DEF After
      <4>3. old.cursor[1] \in Int /\ old.cursor[2] \in Nat
        BY <1>3, <4>1
      <4> QED
        BY <2>5, <3>1, <3>4, <4>1, <4>2, <4>3 DEF Precedes
    <3>6. ASSUME NEW i \in 1..m, found[i] = r
          PROVE  due[l][r].active
                 /\ ~Precedes(rules[found[m]].priority, found[m], due[l][r].priority, r)
      <4>1. r \in After(old.cursor) /\ i \in 1..n
        BY <1>6, <1>9, <3>6
      <4>2. due[l][r].active
        BY <2>1, <4>1
      <4>3. i = m \/ Precedes(due[l][r].priority, r, rules[found[m]].priority, found[m])
        BY <1>6, <3>1, <3>4, <3>6, <4>1 DEF Before
      <4> QED
        BY <2>5, <3>1, <3>4, <3>6, <4>2, <4>3 DEF Precedes
    <3>7. ASSUME due[l][r].active,
                 ~Precedes(rules[found[m]].priority, found[m], due[l][r].priority, r),
                 r \notin Range(old.given)
          PROVE  \E i \in 1..m : found[i] = r
      <4>1. r \in After(old.cursor)
        BY <1>3, <2>1, <3>7
      <4>2. PICK i \in 1..n : found[i] = r
        BY <1>6, <4>1
      <4>3. ~(m < i)
        BY <1>6, <3>1, <3>4, <3>7, <4>2 DEF Before
      <4> QED
        BY <4>2, <4>3
    <3> QED
      BY <2>4, <3>3, <3>5, <3>6, <3>7
  <2>7. ASSUME NEW r \in DOMAIN due[l], ~(n > Limit)
        PROVE  due[l][r].active <=> r \in Range(given)
    <3>1. m = n
      BY <1>9, <2>7, RuleBookAssumption
    <3> QED
      BY <1>3, <1>6, <2>1, <2>4, <3>1
  <2>8. ASSUME NEW i \in DOMAIN given, NEW j \in DOMAIN given, i < j,
               given[i] \in DOMAIN due[l], given[j] \in DOMAIN due[l]
        PROVE  Precedes(due[l][given[i]].priority, given[i], due[l][given[j]].priority, given[j])
    <3>1. /\ given[i] \in DOMAIN rules /\ rules[given[i]] = due[l][given[i]]
          /\ given[j] \in DOMAIN rules /\ rules[given[j]] = due[l][given[j]]
      BY <1>3, <2>8
    <3>2. CASE j <= had
      <4>1. i \in DOMAIN old.given /\ j \in DOMAIN old.given
            /\ given[i] = old.given[i] /\ given[j] = old.given[j]
        BY <2>3a, <2>8, <3>2
      <4> QED
        BY <1>1, <1>3, <2>8, <4>1 DEF GivenInOrder
    <3>3. CASE i <= had /\ ~(j <= had)
      <4>1. i \in DOMAIN old.given /\ given[i] = old.given[i]
        BY <2>3a, <2>8, <3>3
      <4>2. given[i] \in Range(old.given)
        BY <4>1 DEF Range
      <4>3. /\ old.cursor # NoCursor
            /\ ~Precedes(old.cursor[1], old.cursor[2], due[l][given[i]].priority, given[i])
        BY <1>3, <2>8, <4>2 DEF Behind
      <4>4. j - had \in 1..m /\ given[j] = page[j - had]
        BY <2>3a, <3>3
      <4>5. given[j] \in After(old.cursor)
        BY <1>6, <1>9, <1>11, <4>4
      <4>6. Precedes(old.cursor[1], old.cursor[2], rules[given[j]].priority, given[j])
        BY <4>3, <4>5 DEF After
      <4>7. old.cursor[1] \in Int /\ old.cursor[2] \in Nat
        BY <1>3, <4>3
      <4> QED
        BY <2>5, <3>1, <4>3, <4>6, <4>7 DEF Precedes
    <3>4. CASE ~(i <= had)
      <4>1. /\ i - had \in 1..m /\ given[i] = page[i - had]
            /\ j - had \in 1..m /\ given[j] = page[j - had]
            /\ i - had < j - had
        <5>1. /\ i \in 1..(had + m) /\ j \in 1..(had + m) /\ i < j
              /\ ~(i <= had)
          BY <2>3a, <2>8, <3>4
        <5>2. ~(j <= had) /\ i - had \in 1..m /\ j - had \in 1..m /\ i - had < j - had
          BY <5>1
        <5> QED
          BY <2>3a, <5>1, <5>2
      <4>2. Before(given[i], given[j])
        BY <1>6, <1>9, <1>11, <4>1
      <4> QED
        BY <3>1, <4>2 DEF Before
    <3> QED
      BY <2>3a, <2>8, <3>2, <3>3, <3>4
  <2>9. n > Limit => encodeCursor(page) \in Int \X Nat
    <3> SUFFICES ASSUME n > Limit PROVE encodeCursor(page) \in Int \X Nat
      OBVIOUS
    <3>1. m \in 1..n /\ found[m] \in DOMAIN rules
      BY <1>6, <1>9 DEF After, Active
    <3>2. encodeCursor(page) = <<rules[found[m]].priority, found[m]>>
      BY <1>9, <1>11 DEF encodeCursor, Last
    <3> QED
      BY <2>5, <3>1, <3>2
  <2>10. /\ next.given = given
         /\ n > Limit => next.state = "reading" /\ next.cursor = encodeCursor(page)
         /\ ~(n > Limit) => next.state = "done"
         /\ next \in [state : {"idle", "reading", "done", "failed"},
                      cursor : {NoCursor} \cup Int \X Nat, given : Seq(Nat)]
    BY <1>16, <2>2, <2>3, <2>9
  <2>11. GivenInOrder(l)'
    BY <1>12, <1>14, <2>8, <2>10 DEF GivenInOrder
  <2>12. DOMAIN due[l]' = DOMAIN due[l]
    BY <1>14
  <2>13. next.state = "reading" =>
             \A r \in DOMAIN due[l] :
                 /\ r \in DOMAIN rules /\ rules[r] = due[l][r]
                 /\ due[l][r].active /\ ~Behind(next.cursor, r, due[l][r])
                       <=> r \in Range(next.given)
    BY <1>3, <2>6, <2>10
  <2>14. next.state = "done" =>
             \A r \in DOMAIN due[l] : due[l][r].active <=> r \in Range(next.given)
    BY <2>7, <2>10
  <2>15. next.state # "idle"
    BY <2>10
  <2>16. ListingOK(l)'
    BY <1>3, <1>12, <1>14, <2>10, <2>11, <2>12, <2>13, <2>14, <2>15 DEF ListingOK
  <2> QED
    BY <1>13, <1>14, <2>16, OtherListings DEF ListsOK
<1> QED
  BY <1>13, <1>15, <1>16
----------------------------------------------------------------------------
(* Evaluations. *)

\* The environment of a call joins to the same names as its event.
SameKey(c) == Join(DOMAIN c.env) = EnvKey(c.event)

CallOK(e) ==
    /\ DOMAIN call[e] = {"event", "rule", "row", "env", "answer"}
    /\ pc[e] \in {"evaluate", "answer"} => SameKey(call[e])
    /\ pc[e] \in {"env", "build", "evaluate", "answer"} /\ call[e].rule # 0 =>
          call[e].row \in Row
    /\ pc[e] = "answer" => call[e].rule # 0 /\ call[e].answer = Result(call[e])

\* An environment is cached under the names it declares, joined.
EvaluationsOK ==
    /\ DOMAIN pc = Evaluator /\ DOMAIN call = Evaluator
    /\ \A k \in DOMAIN envs : Join(DOMAIN envs[k]) = k
    /\ \A e \in Evaluator : CallOK(e)

LEMMA AnswersAgree == EvaluationsOK => EnvironmentsAgree
<1> SUFFICES ASSUME EvaluationsOK, NEW e \in Evaluator, pc[e] = "answer",
                    NEW own, own = BuildCelEnvFromAttributes(call[e].event)
             PROVE  LET env == call[e].env
                        name == call[e].row.expr.name
                    IN \/ call[e].answer = Result([call[e] EXCEPT !.env = own])
                       \/ ~(DOMAIN env \cup DOMAIN own \subseteq Plain)
                       \/ /\ DOMAIN env = DOMAIN own /\ name \in DOMAIN own
                          /\ env[name] # own[name]
  BY DEF EnvironmentsAgree
<1>1. PICK c : c = call[e]
  OBVIOUS
<1>2. /\ DOMAIN c = {"event", "rule", "row", "env", "answer"} /\ c.answer = Result(c)
      /\ Join(DOMAIN c.env) = Join(DOMAIN c.event)
  BY <1>1 DEF EvaluationsOK, CallOK, SameKey, EnvKey
<1>3. DOMAIN own = DOMAIN c.event
  BY <1>1 DEF BuildCelEnvFromAttributes
<1>4. DOMAIN c.env \cup DOMAIN own \subseteq Plain => DOMAIN c.env = DOMAIN own
  BY <1>2, <1>3, JoinAssumption
<1>5. PICK name : name = c.row.expr.name
  OBVIOUS
<1>6. ASSUME DOMAIN c.env = DOMAIN own, name \in DOMAIN own => c.env[name] = own[name]
      PROVE  c.answer = Result([c EXCEPT !.env = own])
  <2>1. PICK d : d = [c EXCEPT !.env = own]
    OBVIOUS
  <2>2. d.env = own /\ d.row = c.row /\ d.event = c.event
    BY <1>2, <2>1
  <2>3. Evaluate(d.env, d.row.expr, d.event) = Evaluate(c.env, c.row.expr, c.event)
    BY <1>5, <1>6, <2>2 DEF Evaluate
  <2>4. Result(d) = Result(c)
    BY <2>2, <2>3 DEF Result
  <2> QED
    BY <1>2, <2>1, <2>4
<1> QED
  BY <1>1, <1>4, <1>5, <1>6

\* One action as an answer shows it.
Shown(a) ==
    [a EXCEPT !.payloads =
        @ \cap {IF a.type = "UNSPECIFIED" THEN "REWARD_POINT" ELSE a.type}]

\* A row that matched rewards what is shown of it.
LEMMA ShownIsRewarded ==
  ASSUME NEW row \in Row
  PROVE  Rewards(row.actions.actions) =
            {t \in ActionType \ {"UNSPECIFIED"} :
                \E a \in ToProto(row).rule.actions : a.type = t /\ a.payloads # {}}
<1>1. PICK set : set = row.actions.actions
  OBVIOUS
<1>2. set \subseteq Action
  BY <1>1 DEF Row
<1>3. PICK shown : shown = ProtoActionsFromModel(set)
  OBVIOUS
<1>4. ToProto(row).rule.actions = shown
  <2>1. PICK seen : seen = [row EXCEPT !.actions = shown]
    OBVIOUS
  <2>2. seen.actions = shown
    BY <2>1 DEF Row
  <2>3. ToProto(row).rule = seen
    BY <1>1, <1>3, <2>1 DEF ToProto
  <2> QED
    BY <2>2, <2>3
<1>5. ASSUME NEW t \in ActionType \ {"UNSPECIFIED"}, NEW a \in Action,
             NEW s, s = Shown(a)
      PROVE  a.type = t /\ t \in a.payloads <=> s.type = t /\ s.payloads # {}
  <2>1. /\ s.type = a.type
        /\ s.payloads = a.payloads
                          \cap {IF a.type = "UNSPECIFIED" THEN "REWARD_POINT" ELSE a.type}
    BY <1>5 DEF Action, Shown
  <2> QED
    BY <2>1
<1>6. shown = {Shown(a) : a \in set}
  BY <1>3 DEF ProtoActionsFromModel, Shown
<1>7. ASSUME NEW t \in ActionType \ {"UNSPECIFIED"}
      PROVE  (\E a \in set : a.type = t /\ t \in a.payloads)
                <=> \E s \in shown : s.type = t /\ s.payloads # {}
  <2>1. \A a \in set : a.type = t /\ t \in a.payloads
                          <=> Shown(a).type = t /\ Shown(a).payloads # {}
    BY <1>2, <1>5
  <2> QED
    BY <1>6, <2>1
<1>8. Rewards(set) = {t \in ActionType \ {"UNSPECIFIED"} :
                         \E a \in set : a.type = t /\ t \in a.payloads}
  BY DEF Rewards
<1> QED
  BY <1>1, <1>4, <1>7, <1>8

LEMMA MatchesRewardAsShown == EvaluationsOK => RewardsAsShown
<1> SUFFICES ASSUME EvaluationsOK, NEW e \in Evaluator, pc[e] = "answer",
                    call[e].answer.result = "match"
             PROVE  call[e].answer.rewards =
                        {t \in ActionType \ {"UNSPECIFIED"} :
                            \E a \in ToProto(call[e].row).rule.actions :
                                a.type = t /\ a.payloads # {}}
  BY DEF RewardsAsShown
<1>1. call[e].row \in Row /\ call[e].answer = Result(call[e])
  BY DEF EvaluationsOK, CallOK
<1>2. call[e].answer.rewards = Rewards(call[e].row.actions.actions)
  BY <1>1 DEF Result
<1> QED
  BY <1>1, <1>2, ShownIsRewarded

\* A step of one evaluation.
LEMMA OtherCalls ==
  ASSUME EvaluationsOK, NEW e \in Evaluator, CallOK(e)',
         DOMAIN pc' = Evaluator, DOMAIN call' = Evaluator,
         \A f \in Evaluator \ {e} : pc'[f] = pc[f] /\ call'[f] = call[f],
         \A k \in DOMAIN envs' : Join(DOMAIN envs'[k]) = k
  PROVE  EvaluationsOK'
<1>1. ASSUME NEW f \in Evaluator, f # e PROVE CallOK(f)'
  BY <1>1 DEF EvaluationsOK, CallOK
<1> QED
  BY <1>1 DEF EvaluationsOK

LEMMA DoneKeepsEvaluations ==
  ASSUME EvaluationsOK, NEW E, Done(E), \A k \in DOMAIN envs' : Join(DOMAIN envs'[k]) = k
  PROVE  EvaluationsOK'
<1>1. DOMAIN pc' = Evaluator /\ DOMAIN call' = Evaluator
  BY DEF Done
<1>2. ASSUME NEW e \in Evaluator PROVE CallOK(e)'
  <2>1. CASE e \in E
    <3>1. pc'[e] = "idle" /\ call'[e] = NoCall
      BY <2>1 DEF Done
    <3> QED
      BY <3>1 DEF CallOK, NoCall, Question
  <2>2. CASE e \notin E
    <3>1. pc'[e] = pc[e] /\ call'[e] = call[e]
      BY <2>2 DEF Done
    <3> QED
      BY <3>1 DEF EvaluationsOK, CallOK
  <2> QED
    BY <2>1, <2>2
<1> QED
  BY <1>1, <1>2 DEF EvaluationsOK

LEMMA AskKeepsEvaluations ==
  ASSUME EvaluationsOK, NEW e \in Evaluator, Ask(e) \/ AskForAll(e)
  PROVE  EvaluationsOK'
<1>1. PICK event, r, stage :
          /\ call' = [call EXCEPT ![e] = Question(event, r)] /\ pc' = [pc EXCEPT ![e] = stage]
          /\ stage = "fetch" \/ (stage = "env" /\ r = 0)
  <2>1. CASE Ask(e)
    <3>1. PICK r \in DOMAIN rules, t \in Transaction :
              call' = [call EXCEPT ![e] = Question(buildContext(t), r)]
      BY <2>1 DEF Ask
    <3>2. pc' = [pc EXCEPT ![e] = "fetch"]
      BY <2>1 DEF Ask, Goto
    <3> QED
      BY <3>1, <3>2
  <2>2. CASE AskForAll(e)
    <3>1. PICK t \in Transaction : call' = [call EXCEPT ![e] = Question(buildContext(t), 0)]
      BY <2>2 DEF AskForAll
    <3>2. pc' = [pc EXCEPT ![e] = "env"]
      BY <2>2 DEF AskForAll, Goto
    <3> QED
      BY <3>1, <3>2
  <2> QED
    BY <2>1, <2>2
<1>2. PICK c : c = Question(event, r)
  OBVIOUS
<1>3. c.rule = r /\ DOMAIN c = {"event", "rule", "row", "env", "answer"}
  BY <1>2 DEF Question
<1>4. /\ call'[e] = c /\ pc'[e] = stage /\ DOMAIN pc' = Evaluator /\ DOMAIN call' = Evaluator
      /\ \A f \in Evaluator \ {e} : pc'[f] = pc[f] /\ call'[f] = call[f]
  BY <1>1, <1>2 DEF EvaluationsOK
<1>5. CallOK(e)'
  BY <1>1, <1>3, <1>4 DEF CallOK
<1> QED
  BY <1>4, <1>5, OtherCalls DEF EvaluationsOK, Ask, AskForAll
\* The call of e goes on with c, which keeps what was asked.
LEMMA CallGoesOn ==
  ASSUME EvaluationsOK, NEW e \in Evaluator, NEW c, NEW stage,
         call' = [call EXCEPT ![e] = c], pc' = [pc EXCEPT ![e] = stage],
         \A k \in DOMAIN envs' : Join(DOMAIN envs'[k]) = k,
         DOMAIN c = {"event", "rule", "row", "env", "answer"},
         stage \in {"evaluate", "answer"} => SameKey(c),
         stage \in {"env", "build", "evaluate", "answer"} /\ c.rule # 0 => c.row \in Row,
         stage = "answer" => c.rule # 0 /\ c.answer = Result(c)
  PROVE  EvaluationsOK'
<1>1. /\ call'[e] = c /\ pc'[e] = stage /\ DOMAIN pc' = Evaluator /\ DOMAIN call' = Evaluator
      /\ \A f \in Evaluator \ {e} : pc'[f] = pc[f] /\ call'[f] = call[f]
  BY DEF EvaluationsOK
<1>2. CallOK(e)'
  BY <1>1 DEF CallOK
<1> QED
  BY <1>1, <1>2, OtherCalls

LEMMA EvaluationStep ==
  ASSUME RulesOK, EvaluationsOK, NEW e \in Evaluator,
         Fetch(e) \/ LoadEnv(e) \/ BuildEnv(e) \/ ExecuteRule(e) \/ Answer(e)
  PROVE  EvaluationsOK'
<1>1. PICK c : c = call[e]
  OBVIOUS
<1>2. /\ DOMAIN c = {"event", "rule", "row", "env", "answer"}
      /\ pc[e] = "evaluate" => SameKey(c)
      /\ pc[e] \in {"env", "build", "evaluate"} /\ c.rule # 0 => c.row \in Row
      /\ \A k \in DOMAIN envs : Join(DOMAIN envs[k]) = k
  BY <1>1 DEF EvaluationsOK, CallOK
<1>3. CASE Fetch(e)
  <2>1. CASE Done({e})
    BY <1>2, <1>3, <2>1, DoneKeepsEvaluations DEF Fetch
  <2>2. CASE c.rule \in DOMAIN rules
    <3>1. PICK d : d = [c EXCEPT !.row = rules[c.rule]]
      OBVIOUS
    <3>2. call' = [call EXCEPT ![e] = d] /\ pc' = [pc EXCEPT ![e] = "env"] /\ envs' = envs
      BY <1>1, <1>3, <2>2, <3>1 DEF Fetch, Goto
    <3>3. DOMAIN d = DOMAIN c /\ d.row \in Row
      BY <1>2, <2>2, <3>1 DEF RulesOK
    <3> QED
      BY <1>2, <3>2, <3>3, CallGoesOn
  <2> QED
    BY <1>1, <1>3, <2>1, <2>2 DEF Fetch
<1>4. CASE LoadEnv(e)
  <2>1. CASE EnvKey(c.event) \in DOMAIN envs
    <3>1. PICK d : d = [c EXCEPT !.env = envs[EnvKey(c.event)]]
      OBVIOUS
    <3>2. call' = [call EXCEPT ![e] = d] /\ pc' = [pc EXCEPT ![e] = "evaluate"] /\ envs' = envs
      BY <1>1, <1>4, <2>1, <3>1 DEF LoadEnv, Goto
    <3>3. SameKey(d)
      BY <1>2, <2>1, <3>1 DEF SameKey
    <3>4. DOMAIN d = DOMAIN c /\ d.rule = c.rule /\ d.row = c.row
      BY <1>2, <3>1
    <3>5. c.rule # 0 => c.row \in Row
      BY <1>2, <1>4 DEF LoadEnv
    <3> QED
      BY <1>2, <3>2, <3>3, <3>4, <3>5, CallGoesOn
  <2>2. CASE EnvKey(c.event) \notin DOMAIN envs
    <3>1. call' = call /\ pc' = [pc EXCEPT ![e] = "build"] /\ envs' = envs
      BY <1>1, <1>4, <2>2 DEF LoadEnv, Goto
    <3>2. /\ pc'[e] = "build" /\ DOMAIN pc' = Evaluator /\ DOMAIN call' = Evaluator
          /\ \A f \in Evaluator \ {e} : pc'[f] = pc[f] /\ call'[f] = call[f]
      BY <3>1 DEF EvaluationsOK
    <3>3. c.rule # 0 => c.row \in Row
      BY <1>2, <1>4 DEF LoadEnv
    <3>4. CallOK(e)'
      BY <1>1, <1>2, <3>1, <3>2, <3>3 DEF CallOK
    <3> QED
      BY <1>2, <3>1, <3>2, <3>4, OtherCalls
  <2> QED
    BY <2>1, <2>2
<1>5. CASE BuildEnv(e)
  <2>1. PICK env : env = BuildCelEnvFromAttributes(c.event)
    OBVIOUS
  <2>2. PICK key : key = EnvKey(c.event)
    OBVIOUS
  <2>3. Join(DOMAIN env) = key
    BY <2>1, <2>2 DEF BuildCelEnvFromAttributes, EnvKey
  <2>4. PICK d : d = [c EXCEPT !.env = env]
    OBVIOUS
  <2>5. /\ call' = [call EXCEPT ![e] = d] /\ pc' = [pc EXCEPT ![e] = "evaluate"]
        /\ envs' = [k \in DOMAIN envs \cup {key} |-> IF k = key THEN env ELSE envs[k]]
    BY <1>1, <1>5, <2>1, <2>2, <2>4 DEF BuildEnv, Goto
  <2>6. \A k \in DOMAIN envs' : Join(DOMAIN envs'[k]) = k
    BY <1>2, <2>3, <2>5
  <2>7. DOMAIN d = DOMAIN c /\ d.rule = c.rule /\ d.row = c.row /\ d.event = c.event /\ d.env = env
    BY <1>2, <2>4
  <2>8. c.rule # 0 => c.row \in Row
    BY <1>2, <1>5 DEF BuildEnv
  <2>9. SameKey(d)
    BY <2>2, <2>3, <2>7 DEF SameKey
  <2> QED
    BY <1>2, <2>5, <2>6, <2>7, <2>8, <2>9, CallGoesOn
<1>6. CASE ExecuteRule(e)
  <2>1. CASE Done({e})
    BY <1>2, <1>6, <2>1, DoneKeepsEvaluations DEF ExecuteRule
  <2>2. CASE c.rule # 0
    <3>1. PICK d : d = [c EXCEPT !.answer = Result(c)]
      OBVIOUS
    <3>2. call' = [call EXCEPT ![e] = d] /\ pc' = [pc EXCEPT ![e] = "answer"] /\ envs' = envs
      BY <1>1, <1>6, <2>2, <3>1 DEF ExecuteRule, Goto
    <3>3. /\ DOMAIN d = DOMAIN c /\ d.rule = c.rule /\ d.row = c.row
          /\ d.event = c.event /\ d.env = c.env /\ d.answer = Result(c)
      BY <1>2, <3>1
    <3>4. d.answer = Result(d)
      BY <3>3 DEF Result
    <3>5. c.row \in Row /\ SameKey(d)
      BY <1>2, <1>6, <2>2, <3>3 DEF ExecuteRule, SameKey
    <3> QED
      BY <1>2, <2>2, <3>2, <3>3, <3>4, <3>5, CallGoesOn
  <2> QED
    BY <1>1, <1>6, <2>1, <2>2 DEF ExecuteRule
<1>7. CASE Answer(e)
  BY <1>2, <1>7, DoneKeepsEvaluations DEF Answer
<1> QED
  BY <1>3, <1>4, <1>5, <1>6, <1>7

----------------------------------------------------------------------------
(* The three together. *)

RuleBookInv == RulesOK /\ ListsOK /\ EvaluationsOK

LEMMA InitRuleBook == Init => RuleBookInv
<1> SUFFICES ASSUME Init PROVE RuleBookInv
  OBVIOUS
<1>1. RulesOK
  BY DEF Init, RulesOK
<1>2. ASSUME NEW l \in Lister PROVE ListingOK(l)
  <2>1. listing[l] = NoListing /\ due[l] = << >>
    BY DEF Init
  <2>2. NoListing \in [state : {"idle", "reading", "done", "failed"},
                       cursor : {NoCursor} \cup Int \X Nat, given : Seq(Nat)]
    BY DEF NoListing
  <2>3. NoListing.state = "idle" /\ NoListing.given = << >>
    BY DEF NoListing
  <2> QED
    BY <2>1, <2>2, <2>3 DEF ListingOK, GivenInOrder
<1>3. ListsOK
  BY <1>2 DEF Init, ListsOK
<1>4. ASSUME NEW e \in Evaluator PROVE CallOK(e)
  <2>1. pc[e] = "idle" /\ call[e] = NoCall
    BY DEF Init
  <2> QED
    BY <2>1 DEF CallOK, NoCall, Question
<1>5. EvaluationsOK
  BY <1>4 DEF Init, EvaluationsOK
<1> QED
  BY <1>1, <1>3, <1>5 DEF RuleBookInv

\* What a step of one part leaves of the others.
LEMMA TableKept == RulesOK /\ UNCHANGED table => RulesOK'
  BY DEF RulesOK, table

LEMMA ListsKept == ListsOK /\ UNCHANGED <<rules, lists>> => ListsOK'
<1> SUFFICES ASSUME ListsOK, UNCHANGED <<rules, lists>> PROVE ListsOK'
  OBVIOUS
<1>1. rules' = rules /\ listing' = listing /\ due' = due
  BY DEF lists
<1>2. ASSUME NEW l \in Lister PROVE ListingOK(l)'
  BY <1>1 DEF ListsOK, ListingOK, GivenInOrder
<1> QED
  BY <1>1, <1>2 DEF ListsOK

LEMMA EvaluationsKept == EvaluationsOK /\ UNCHANGED evaluations => EvaluationsOK'
<1> SUFFICES ASSUME EvaluationsOK, UNCHANGED evaluations PROVE EvaluationsOK'
  OBVIOUS
<1>1. envs' = envs /\ pc' = pc /\ call' = call
  BY DEF evaluations
<1>2. ASSUME NEW e \in Evaluator PROVE CallOK(e)'
  BY <1>1 DEF EvaluationsOK, CallOK
<1> QED
  BY <1>1, <1>2 DEF EvaluationsOK

LEMMA NextRuleBook == RuleBookInv /\ [Next]_vars => RuleBookInv'
<1> SUFFICES ASSUME RuleBookInv, [Next]_vars PROVE RuleBookInv'
  OBVIOUS
<1> USE DEF RuleBookInv
<1>1. CASE CreateRule \/ ImportRule \/ UpdateRule \/ DeleteRule
  <2>1. UNCHANGED evaluations
    BY <1>1 DEF CreateRule, ImportRule, UpdateRule, DeleteRule, Edit
  <2> QED
    BY <1>1, <2>1, EditsKeepRules, EvaluationsKept
<1>2. ASSUME NEW l \in Lister, StartListing(l) \/ ListRules(l) PROVE RuleBookInv'
  <2>1. UNCHANGED <<table, evaluations>>
    BY <1>2 DEF StartListing, ListRules
  <2> QED
    BY <1>2, <2>1, StartKeepsListings, PageKeepsListings, TableKept, EvaluationsKept
<1>3. ASSUME NEW e \in Evaluator,
             Ask(e) \/ AskForAll(e) \/ Fetch(e) \/ LoadEnv(e)
                \/ BuildEnv(e) \/ ExecuteRule(e) \/ Answer(e)
      PROVE  RuleBookInv'
  <2>1. UNCHANGED <<table, lists>>
    BY <1>3 DEF Ask, AskForAll, Fetch, LoadEnv, BuildEnv, ExecuteRule, Answer
  <2>2. EvaluationsOK'
    BY <1>3, AskKeepsEvaluations, EvaluationStep
  <2> QED
    BY <2>1, <2>2, TableKept, ListsKept DEF table
<1>4. CASE Restart
  <2>1. UNCHANGED <<table, lists>> /\ envs' = << >> /\ Done(Evaluator)
    BY <1>4 DEF Restart
  <2> QED
    BY <2>1, DoneKeepsEvaluations, TableKept, ListsKept DEF table
<1>5. CASE UNCHANGED vars
  BY <1>5, TableKept, ListsKept, EvaluationsKept DEF vars, table
<1> QED
  BY <1>1, <1>2, <1>3, <1>4, <1>5 DEF Next, Rest

\* In every reachable state rows are what clients may write, a listing was given
\* what lies before its cursor, and the names a call's environment declares join
\* to what those of its event do (the key of GetOrBuildEnv).
THEOREM RuleBookInvariant == Spec => []RuleBookInv
<1> QED
  BY InitRuleBook, NextRuleBook, PTL DEF Spec

\* Keyset paging over a table that changes: of the rules nobody updated or
\* deleted meanwhile, ListRules gives each active one once, in order, and misses
\* none, for any page size and however edits and pages interleave.
THEOREM ListingsAreComplete == Spec => []ListedOnce
<1>1. RuleBookInv => ListedOnce
  BY ListingsAreRight DEF RuleBookInv
<1> QED
  BY <1>1, RuleBookInvariant, PTL

\* A cached environment answers like a fresh one (GetOrBuildEnv), unless a name
\* has a comma in it or the attribute the rule is about is given another type.
THEOREM CachedEnvironmentsAgree == Spec => []EnvironmentsAgree
<1>1. RuleBookInv => EnvironmentsAgree
  BY AnswersAgree DEF RuleBookInv
<1> QED
  BY <1>1, RuleBookInvariant, PTL

\* What executeRule rewards is what GetRule shows of the rule it evaluated.
THEOREM RewardsAreShown == Spec => []RewardsAsShown
<1>1. RuleBookInv => RewardsAsShown
  BY MatchesRewardAsShown DEF RuleBookInv
<1> QED
  BY <1>1, RuleBookInvariant, PTL
----------------------------------------------------------------------------
(* Types. *)

LEMMA EventsTyped ==
  ASSUME NEW t \in Transaction
  PROVE  \A n \in DOMAIN buildContext(t) : buildContext(t)[n] \in DOMAIN CelType
<1>1. PICK json : json = StructToMap(t)
  OBVIOUS
<1>2. {"map", "text"} \subseteq DOMAIN CelType
  BY DEF CelType
<1>3. ASSUME NEW n \in DOMAIN json PROVE json[n] \in DOMAIN CelType
  <2>1. json[n] = IF n \in DOMAIN t.fields THEN t.fields[n] ELSE "map"
    BY <1>1, <1>3 DEF StructToMap
  <2>2. n \in DOMAIN t.fields => t.fields[n] # "zero"
    <3>1. n \in DOMAIN t.fields => n # "metadata"
      BY TransactionAssumption
    <3> QED
      BY <1>1, <1>3, <3>1 DEF StructToMap
  <2> QED
    BY <1>2, <2>1, <2>2, TransactionAssumption
<1>4. ASSUME NEW n \in DOMAIN buildContext(t)
      PROVE  buildContext(t)[n] = IF n \in DOMAIN t.metadata THEN t.metadata[n]
                                  ELSE IF n \in DOMAIN json THEN json[n] ELSE "text"
  BY <1>1, <1>4 DEF buildContext
<1> QED
  BY <1>2, <1>3, <1>4, TransactionAssumption

\* What TypeOK says beyond RuleBookInv, and that events have typed values.
EventsOK(e) == \A n \in DOMAIN call[e].event : call[e].event[n] \in DOMAIN CelType
EnvsOK == \A k \in DOMAIN envs : \A n \in DOMAIN envs[k] : envs[k][n] \in Range(CelType)
NumbersOK(l) ==
    /\ DOMAIN due[l] \subseteq 1..edits
    /\ \A i \in DOMAIN listing[l].given : listing[l].given[i] \in 1..edits
CallsTyped == pc \in [Evaluator -> Stages] /\ \A e \in Evaluator : EventsOK(e)
BoundsOK == edits \in Nat /\ calls \in Nat /\ edits + calls <= MaxRequests
TypeInv ==
    /\ EnvsOK /\ CallsTyped
    /\ \A l \in Lister : NumbersOK(l)
    /\ BoundsOK

LEMMA TypeFromInv == RuleBookInv /\ TypeInv => TypeOK
<1> SUFFICES ASSUME RuleBookInv, TypeInv PROVE TypeOK
  OBVIOUS
<1>1. ASSUME NEW l \in Lister
      PROVE  /\ listing[l].state \in {"idle", "reading", "done", "failed"}
             /\ listing[l].given \in Seq(1..edits)
             /\ DOMAIN due[l] \subseteq 1..edits
  <2>1. ListingOK(l) /\ NumbersOK(l)
    BY DEF RuleBookInv, ListsOK, TypeInv
  <2>2. listing[l].given \in Seq(Nat) /\ listing[l].state \in {"idle", "reading", "done", "failed"}
    BY <2>1 DEF ListingOK
  <2>3. listing[l].given \in Seq(1..edits)
    <3>1. PICK given \in Seq(Nat) : given = listing[l].given
      BY <2>2
    <3>2. PICK S : S = 1..edits
      OBVIOUS
    <3>3. PICK n \in Nat : given \in [1..n -> Nat]
      BY <3>1, SeqDef
    <3>4. \A i \in 1..n : given[i] \in S
      BY <2>1, <3>1, <3>2, <3>3 DEF NumbersOK
    <3>5. given \in [1..n -> S]
      BY <3>3, <3>4
    <3>6. given \in Seq(S)
      BY <3>5, SeqDef
    <3> QED
      BY <3>1, <3>2, <3>6
  <2> QED
    BY <2>1, <2>2, <2>3 DEF NumbersOK
<1>2. RulesOK /\ EnvsOK /\ CallsTyped /\ BoundsOK
  BY DEF RuleBookInv, TypeInv
<1> QED
  BY <1>1, <1>2 DEF TypeOK, RulesOK, EnvsOK, CallsTyped, BoundsOK

LEMMA InitTyped == Init => TypeInv
<1> SUFFICES ASSUME Init PROVE TypeInv
  OBVIOUS
<1>1. \A e \in Evaluator : call[e].event = << >>
  BY DEF Init, NoCall, Question
<1>2. \A l \in Lister : listing[l].given = << >> /\ due[l] = << >>
  BY DEF Init, NoListing
<1>3. pc \in [Evaluator -> Stages]
  BY DEF Init, Stages
<1> QED
  BY <1>1, <1>2, <1>3, RuleBookAssumption
     DEF Init, TypeInv, EnvsOK, CallsTyped, EventsOK, NumbersOK, BoundsOK

LEMMA EditTyped ==
  ASSUME RulesOK, TypeInv, NEW table2, NEW S, S \subseteq DOMAIN rules, Edit(table2, S)
  PROVE  TypeInv'
<1>1. /\ edits' = edits + 1 /\ edits + calls < MaxRequests /\ listing' = listing
      /\ envs' = envs /\ pc' = pc /\ call' = call /\ calls' = calls
      /\ \A l \in Lister : DOMAIN due'[l] \subseteq DOMAIN due[l]
  BY DEF Edit, evaluations, Without
<1>2. edits \in Nat /\ 1..edits \subseteq 1..(edits + 1) /\ S \subseteq 1..edits
  BY DEF RulesOK
<1>3. ASSUME NEW l \in Lister PROVE NumbersOK(l)'
  <2>1. NumbersOK(l)
    BY DEF TypeInv
  <2> QED
    BY <1>1, <1>2, <2>1 DEF NumbersOK
<1>4. BoundsOK'
  BY <1>1, <1>2, RuleBookAssumption DEF TypeInv, BoundsOK
<1>5. EnvsOK' /\ CallsTyped'
  BY <1>1 DEF TypeInv, EnvsOK, CallsTyped, EventsOK
<1> QED
  BY <1>1, <1>3, <1>4, <1>5 DEF TypeInv

LEMMA ListingTyped ==
  ASSUME RulesOK, ListsOK, TypeInv, NEW l \in Lister, StartListing(l) \/ ListRules(l)
  PROVE  TypeInv'
<1>1. /\ edits' = edits /\ calls' = calls
      /\ envs' = envs /\ pc' = pc /\ call' = call
      /\ \A k \in Lister \ {l} : listing'[k] = listing[k] /\ due'[k] = due[k]
  BY DEF StartListing, ListRules, table, evaluations, ListsOK
<1>2. EnvsOK' /\ CallsTyped'
  BY <1>1 DEF TypeInv, EnvsOK, CallsTyped, EventsOK
<1>3. NumbersOK(l)
  BY DEF TypeInv
<1>4. NumbersOK(l)'
  <2>1. CASE StartListing(l)
    <3>1. listing[l] = NoListing
      BY <2>1 DEF StartListing, ListsOK, ListingOK
    <3>2. due'[l] = rules /\ listing'[l] = [NoListing EXCEPT !.state = "reading"]
      BY <2>1, <3>1 DEF StartListing, ListsOK
    <3>3. listing'[l].given = << >>
      BY <3>2 DEF NoListing
    <3> QED
      BY <1>1, <1>3, <3>2, <3>3 DEF NumbersOK, RulesOK
  <2>2. CASE ListRules(l)
    <3>1. PICK old : old = listing[l]
      OBVIOUS
    <3>2. /\ old \in [state : {"idle", "reading", "done", "failed"},
                      cursor : {NoCursor} \cup Int \X Nat, given : Seq(Nat)]
          /\ due' = due
      BY <2>2, <3>1 DEF ListRules, ListsOK, ListingOK
    <3>3. PICK page : page = SubSeq(InOrder(After(old.cursor)), 1,
                                    IF Len(InOrder(After(old.cursor))) < Limit
                                    THEN Len(InOrder(After(old.cursor))) ELSE Limit)
      OBVIOUS
    <3>4. /\ page \in Seq(Nat) /\ \A i \in DOMAIN page : page[i] \in 1..edits
      <4>1. After(old.cursor) \in SUBSET DOMAIN rules
        BY DEF After, Active
      <4>2. PICK n \in Nat : n = Cardinality(After(old.cursor))
        BY <4>1, Sorted
      <4>3. PICK found : found = InOrder(After(old.cursor))
        OBVIOUS
      <4>4. found \in [1..n -> 1..edits]
        BY <4>1, <4>2, <4>3, Sorted DEF RulesOK
      <4>5. found \in Seq(Nat) /\ Len(found) = n
        BY <4>4 DEF RulesOK
      <4>6. PICK m \in Nat : m = IF n < Limit THEN n ELSE Limit
        BY RuleBookAssumption
      <4>7. m <= n /\ page = SubSeq(found, 1, m)
        BY <3>3, <4>3, <4>5, <4>6, RuleBookAssumption
      <4> QED
        BY <4>4, <4>5, <4>7
    <3>5. listing'[l] = [old EXCEPT !.state = "failed"]
          \/ listing'[l].given = old.given \o page
      BY <2>2, <3>1, <3>3 DEF ListRules, ListsOK
    <3>6. listing'[l].given \in {old.given, old.given \o page}
      BY <3>2, <3>5
    <3>7. \A i \in DOMAIN old.given : old.given[i] \in 1..edits
      BY <1>3, <3>1 DEF NumbersOK
    <3>8. Range(old.given \o page) \subseteq 1..edits
      <4>1. old.given \in Seq(Nat) /\ Len(old.given) \in Nat /\ Len(page) \in Nat
        BY <3>2, <3>4
      <4>2. Range(old.given \o page) = Range(old.given) \cup Range(page)
        BY <3>4, <4>1, Joined
      <4> QED
        BY <3>4, <3>7, <4>2 DEF Range
    <3>9. \A i \in DOMAIN listing'[l].given : listing'[l].given[i] \in 1..edits
      BY <3>6, <3>7, <3>8 DEF Range
    <3> QED
      BY <1>1, <1>3, <3>2, <3>9 DEF NumbersOK
  <2> QED
    BY <2>1, <2>2
<1>5. ASSUME NEW k \in Lister, k # l PROVE NumbersOK(k)'
  BY <1>1, <1>5 DEF TypeInv, NumbersOK
<1>6. BoundsOK'
  BY <1>1 DEF TypeInv, BoundsOK
<1> QED
  BY <1>2, <1>4, <1>5, <1>6 DEF TypeInv

\* A step that keeps the table and the listings, and after which each call has
\* the event it had, one of a transaction, or none.
LEMMA CallTyped ==
  ASSUME TypeInv, UNCHANGED <<table, lists>>, EnvsOK', BoundsOK',
         pc' \in [Evaluator -> Stages],
         \A e \in Evaluator : \/ call'[e].event = call[e].event
                              \/ call'[e].event = << >>
                              \/ \E t \in Transaction : call'[e].event = buildContext(t)
  PROVE  TypeInv'
<1>1. ASSUME NEW e \in Evaluator PROVE EventsOK(e)'
  <2>1. EventsOK(e)
    BY DEF TypeInv, CallsTyped
  <2> QED
    BY <2>1, EventsTyped DEF EventsOK
<1>2. ASSUME NEW l \in Lister PROVE NumbersOK(l)'
  BY DEF TypeInv, NumbersOK, table, lists
<1> QED
  BY <1>1, <1>2 DEF TypeInv, CallsTyped, table

LEMMA EvaluationTyped ==
  ASSUME EvaluationsOK, TypeInv, NEW e \in Evaluator,
         Ask(e) \/ AskForAll(e) \/ Fetch(e) \/ LoadEnv(e)
            \/ BuildEnv(e) \/ ExecuteRule(e) \/ Answer(e)
  PROVE  TypeInv'
<1>1. /\ UNCHANGED <<table, lists>>
      /\ pc \in [Evaluator -> Stages] /\ BoundsOK /\ EnvsOK /\ EventsOK(e)
      /\ DOMAIN call = Evaluator /\ DOMAIN call[e] = {"event", "rule", "row", "env", "answer"}
  BY DEF Ask, AskForAll, Fetch, LoadEnv, BuildEnv, ExecuteRule, Answer, TypeInv, CallsTyped,
         EvaluationsOK, CallOK
<1>2. BoundsOK'
  <2>1. edits' = edits /\ (calls' = calls \/ (calls' = calls + 1 /\ edits + calls < MaxRequests))
    BY DEF table, Ask, AskForAll, Fetch, LoadEnv, BuildEnv, ExecuteRule, Answer
  <2> QED
    BY <1>1, <2>1, RuleBookAssumption DEF BoundsOK
<1>3. EnvsOK'
  <2>1. CASE BuildEnv(e)
    <3>1. PICK env : env = BuildCelEnvFromAttributes(call[e].event)
      OBVIOUS
    <3>2. \A n \in DOMAIN env : env[n] \in Range(CelType)
      BY <1>1, <3>1 DEF EventsOK, BuildCelEnvFromAttributes, Range
    <3>3. PICK key : envs' = [k \in DOMAIN envs \cup {key} |-> IF k = key THEN env ELSE envs[k]]
      BY <2>1, <3>1 DEF BuildEnv
    <3> QED
      BY <1>1, <3>2, <3>3 DEF EnvsOK
  <2>2. CASE ~BuildEnv(e)
    BY <1>1, <2>2 DEF EnvsOK, Ask, AskForAll, Fetch, LoadEnv, ExecuteRule, Answer
  <2> QED
    BY <2>1, <2>2
<1>4. CASE Ask(e) \/ AskForAll(e)
  <2>1. PICK t \in Transaction, r \in DOMAIN rules \cup {0} :
            call' = [call EXCEPT ![e] = Question(buildContext(t), r)]
    BY <1>4 DEF Ask, AskForAll
  <2>2. \E stage \in {"fetch", "env"} : pc' = [pc EXCEPT ![e] = stage]
    BY <1>4 DEF Ask, AskForAll, Goto
  <2>3. call'[e].event = buildContext(t) /\ \A f \in Evaluator \ {e} : call'[f] = call[f]
    BY <1>1, <2>1 DEF Question
  <2>4. pc' \in [Evaluator -> Stages]
    BY <1>1, <2>2 DEF Stages
  <2> QED
    BY <1>1, <1>2, <1>3, <2>3, <2>4, CallTyped
<1>5. CASE Done({e})
  <2>1. \A f \in Evaluator : call'[f] = call[f] \/ call'[f].event = << >>
    BY <1>5 DEF Done, NoCall, Question
  <2>2. pc' \in [Evaluator -> Stages]
    BY <1>1, <1>5 DEF Done, Stages
  <2> QED
    BY <1>1, <1>2, <1>3, <2>1, <2>2, CallTyped
<1>6. CASE (Fetch(e) \/ LoadEnv(e) \/ BuildEnv(e) \/ ExecuteRule(e)) /\ ~Done({e})
  <2>1. \E stage \in {"env", "evaluate", "build", "answer"} : pc' = [pc EXCEPT ![e] = stage]
    BY <1>6 DEF Fetch, LoadEnv, BuildEnv, ExecuteRule, Goto
  <2>2. \/ call' = call
        \/ \E v : call' = [call EXCEPT ![e].row = v] \/ call' = [call EXCEPT ![e].env = v]
                     \/ call' = [call EXCEPT ![e].answer = v]
    BY <1>6 DEF Fetch, LoadEnv, BuildEnv, ExecuteRule
  <2>3. \A f \in Evaluator : call'[f].event = call[f].event
    BY <1>1, <2>2
  <2>4. pc' \in [Evaluator -> Stages]
    BY <1>1, <2>1 DEF Stages
  <2> QED
    BY <1>1, <1>2, <1>3, <2>3, <2>4, CallTyped
<1> QED
  BY <1>4, <1>5, <1>6 DEF Answer

LEMMA NextTyped == RuleBookInv /\ TypeInv /\ [Next]_vars => TypeInv'
<1> SUFFICES ASSUME RuleBookInv, TypeInv, [Next]_vars PROVE TypeInv'
  OBVIOUS
<1> USE DEF RuleBookInv
<1>1. CASE CreateRule \/ ImportRule \/ UpdateRule \/ DeleteRule
  <2>1. \E table2, S : S \subseteq DOMAIN rules /\ Edit(table2, S)
    BY <1>1 DEF CreateRule, ImportRule, UpdateRule, DeleteRule
  <2> QED
    BY <2>1, EditTyped DEF ListsOK
<1>2. ASSUME NEW l \in Lister, StartListing(l) \/ ListRules(l) PROVE TypeInv'
  BY <1>2, ListingTyped
<1>3. ASSUME NEW e \in Evaluator,
             Ask(e) \/ AskForAll(e) \/ Fetch(e) \/ LoadEnv(e)
                \/ BuildEnv(e) \/ ExecuteRule(e) \/ Answer(e)
      PROVE  TypeInv'
  BY <1>3, EvaluationTyped
<1>4. CASE Restart
  <2>1. /\ UNCHANGED <<table, lists, calls>> /\ EnvsOK' /\ pc' \in [Evaluator -> Stages]
        /\ \A e \in Evaluator : call'[e].event = << >>
    BY <1>4 DEF Restart, EnvsOK, Done, Stages, NoCall, Question
  <2>2. BoundsOK'
    BY <2>1 DEF TypeInv, BoundsOK, table
  <2> QED
    BY <2>1, <2>2, CallTyped
<1>5. CASE UNCHANGED vars
  <2>1. ASSUME NEW l \in Lister PROVE NumbersOK(l)'
    BY <1>5 DEF TypeInv, NumbersOK, vars, table, lists
  <2> QED
    BY <1>5, <2>1 DEF TypeInv, EnvsOK, CallsTyped, EventsOK, BoundsOK, vars, table, evaluations
<1> QED
  BY <1>1, <1>2, <1>3, <1>4, <1>5 DEF Next, Rest

\* Every variable keeps its type, for any drafts and transactions.
THEOREM TypeCorrect == Spec => []TypeOK
<1>1. Spec => []TypeInv
  BY InitTyped, NextTyped, RuleBookInvariant, PTL DEF Spec
<1> QED
  BY <1>1, TypeFromInv, RuleBookInvariant, PTL
=============================================================================
