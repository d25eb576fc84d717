--------------------------- MODULE ConsoleProofs ---------------------------
(***************************************************************************)
(* Theorems about the read model and the events page of the console, for   *)
(* every set of events, destinations and filters, every page size, and any *)
(* number of clicks, writes and failures.                                  *)
(*                                                                         *)
(* First what the statements of the read model return, for every table.    *)
(* The status: SQL's where clause and deriveOverallStatus agree.  The      *)
(* pages: "order by" is a strict total order of the rows, so the number of *)
(* rows before a row is a bijection from n rows to 0..n-1, and limit and   *)
(* offset cut that interval.                                               *)
(***************************************************************************)
EXTENDS Console, FiniteSetTheorems, TLAPS

TablesInv == DatabaseTypeOK /\ created \in [Events -> Times]

-----------------------------------------------------------------------------
(* The overall status. *)

\* deriveOverallStatus by the rows it is derived from.
LEMMA StatusOfRows ==
  ASSUME DatabaseTypeOK, NEW e \in Events
  PROVE  /\ DeliveriesOf(e) \in DeliveryTables
         /\ "failed" \in {DeliveriesOf(e)[d] : d \in DOMAIN DeliveriesOf(e)}
              <=> HasRowOf(e, "failed")
         /\ {DeliveriesOf(e)[d] : d \in DOMAIN DeliveriesOf(e)} = {"delivered"}
              <=> HasRow(e) /\ ~HasRowNotDelivered(e)
<1> DEFINE D == {d \in Destinations : Exists(row[<<e, d>>])}
           table == [d \in D |-> row[<<e, d>>].status]
           statuses == {table[d] : d \in DOMAIN table}
<1>1. DeliveriesOf(e) = table /\ DOMAIN table = D
  BY DEF DeliveriesOf
<1>2. \A d \in Destinations : row[<<e, d>>] \in Rows
  BY DEF DatabaseTypeOK, Deliveries
<1>3. \A d \in D : table[d] \in Statuses
  BY <1>2 DEF Exists, Rows
<1>4. table \in DeliveryTables
  <2>1. table \in [D -> Statuses]
    BY <1>3
  <2> QED BY <2>1 DEF DeliveryTables
<1>5. statuses = {row[<<e, d>>].status : d \in D}
  OBVIOUS
<1> HIDE DEF table, statuses
<1>6. "failed" \in statuses <=> HasRowOf(e, "failed")
  BY <1>5 DEF HasRowOf, Exists
<1>7. statuses = {"delivered"} <=> HasRow(e) /\ ~HasRowNotDelivered(e)
  BY <1>5 DEF HasRow, HasRowNotDelivered
<1> QED BY <1>1, <1>4, <1>6, <1>7 DEF statuses

\* The where clause of a status and deriveOverallStatus agree on every table.
LEMMA StatusClauseIsDerived ==
  ASSUME DatabaseTypeOK, NEW e \in Events, NEW status \in OverallStatuses
  PROVE  StatusClause(e, status) <=> OverallStatus(DeliveriesOf(e)) = status
<1> DEFINE failed  == HasRowOf(e, "failed")
           success == HasRow(e) /\ ~HasRowNotDelivered(e)
<1>1. failed => HasRow(e) /\ HasRowNotDelivered(e)
  BY DEF HasRowOf, HasRow, HasRowNotDelivered, Exists
<1>2. HasRowNotDelivered(e) => HasRow(e)
  BY DEF HasRow, HasRowNotDelivered
<1>3. /\ failed => OverallStatus(DeliveriesOf(e)) = "failed"
      /\ success => OverallStatus(DeliveriesOf(e)) = "success"
      /\ ~failed /\ ~success => OverallStatus(DeliveriesOf(e)) = "queued"
  BY StatusOfRows, <1>1 DEF OverallStatus
<1>4. /\ status = "failed" => (StatusClause(e, status) <=> failed)
      /\ status = "success" => (StatusClause(e, status) <=> success)
      /\ status = "queued" => (StatusClause(e, status) <=> ~failed /\ ~success)
  BY <1>1, <1>2, NotSetAssumption DEF StatusClause, OverallStatuses
<1>5. status = "failed" \/ status = "success" \/ status = "queued"
  BY DEF OverallStatuses
<1> HIDE DEF failed, success
<1> QED BY <1>1, <1>3, <1>4, <1>5 DEF failed, success

-----------------------------------------------------------------------------
(* The pages. *)

\* What "order by" does: no row comes before itself, of two rows one comes
\* first, whatever timestamps are equal, and it is transitive.
LEMMA OrderIsTotal ==
  ASSUME TablesInv, NEW f
  PROVE  /\ \A e \in Events : ~Before(e, e, f)
         /\ \A e, g \in Events : e # g => Before(e, g, f) \/ Before(g, e, f)
         /\ \A e, g, h \in Events :
              Before(e, g, f) /\ Before(g, h, f) => Before(e, h, f)
<1>1. \A e \in Events : e \in Int /\ created[e] \in Int /\ Stamped[e] \in Int
  BY EventIdsAssumption, TimesAssumption, StampedAssumption DEF TablesInv
<1>2. CASE f.sortBy = "created_at" /\ f.ascending
  BY <1>1, <1>2 DEF Before
<1>3. CASE f.sortBy = "created_at" /\ ~f.ascending
  BY <1>1, <1>3 DEF Before
<1>4. CASE f.sortBy # "created_at" /\ f.ascending
  BY <1>1, <1>4 DEF Before
<1>5. CASE f.sortBy # "created_at" /\ ~f.ascending
  BY <1>1, <1>5 DEF Before
<1> QED BY <1>2, <1>3, <1>4, <1>5

\* The rows of S that come before e, and how many they are.
Preceding(S, e, f) == {g \in S : Before(g, e, f)}

Rank(S, f) == [e \in S |-> Cardinality(Preceding(S, e, f))]

\* A row that comes later has a greater rank.
LEMMA RankGrows ==
  ASSUME TablesInv, NEW f, NEW S \in SUBSET Events, IsFiniteSet(S),
         NEW e \in S, NEW g \in S, Before(e, g, f)
  PROVE  Rank(S, f)[e] \in Nat /\ Rank(S, f)[g] \in Nat
         /\ Rank(S, f)[e] < Rank(S, f)[g]
<1> DEFINE P == Preceding(S, e, f)
           Q == Preceding(S, g, f)
<1>1. P \in SUBSET S /\ Q \in SUBSET S /\ e \notin P
  BY OrderIsTotal DEF Preceding
<1>2. P \cup {e} \in SUBSET Q
  BY OrderIsTotal DEF Preceding
<1>3. Rank(S, f)[e] = Cardinality(P) /\ Rank(S, f)[g] = Cardinality(Q)
  BY DEF Rank
<1> HIDE DEF P, Q
<1>4. IsFiniteSet(P) /\ IsFiniteSet(Q)
  BY <1>1, FS_Subset
<1>5. Cardinality(P) \in Nat /\ Cardinality(Q) \in Nat
      /\ Cardinality(P \cup {e}) = Cardinality(P) + 1
      /\ Cardinality(P \cup {e}) <= Cardinality(Q)
  BY <1>1, <1>2, <1>4, FS_Subset, FS_AddElement, FS_CardinalityType
<1> QED BY <1>3, <1>5

\* Every position of the list is taken by exactly one row.
LEMMA RankIsBijection ==
  ASSUME TablesInv, NEW f, NEW S \in SUBSET Events, IsFiniteSet(S)
  PROVE  Rank(S, f) \in Bijection(S, 0 .. (Cardinality(S) - 1))
<1> DEFINE n == Cardinality(S)
           positions == 0 .. (n - 1)
           rank == Rank(S, f)
<1>1. n \in Nat
  BY FS_CardinalityType
<1>2. IsFiniteSet(positions) /\ Cardinality(positions) = n
  BY <1>1, FS_Interval
<1>3. ASSUME NEW e \in S PROVE rank[e] \in positions
  <2> DEFINE P == Preceding(S, e, f)
  <2>1. P \in SUBSET (S \ {e})
    BY OrderIsTotal DEF Preceding
  <2>2. rank[e] = Cardinality(P)
    BY DEF Rank
  <2> HIDE DEF P
  <2>3. IsFiniteSet(S \ {e}) /\ Cardinality(S \ {e}) = n - 1
    BY FS_RemoveElement
  <2>4. IsFiniteSet(P) /\ Cardinality(P) <= n - 1
    BY <2>1, <2>3, FS_Subset
  <2>5. Cardinality(P) \in Nat
    BY <2>4, FS_CardinalityType
  <2> QED BY <1>1, <2>2, <2>4, <2>5
<1>4. rank \in [S -> positions]
  <2>1. DOMAIN rank = S /\ rank = [e \in S |-> rank[e]]
    BY DEF Rank
  <2> HIDE DEF rank
  <2> QED BY <1>3, <2>1
<1>5. ASSUME NEW e \in S, NEW g \in S, e # g PROVE rank[e] # rank[g]
  <2>1. Before(e, g, f) \/ Before(g, e, f)
    BY <1>5, OrderIsTotal
  <2> QED BY <2>1, RankGrows
<1>6. rank \in Injection(S, positions)
  BY <1>4, <1>5 DEF Injection, IsInjective
<1>7. rank \in Surjection(S, positions)
  BY <1>2, <1>6, FS_Injection
<1> QED BY <1>6, <1>7 DEF Bijection

\* The offsets of a list's pages: monotone, and one apart by a page.
LEMMA MultiplesGrow ==
  ASSUME NEW limit \in Nat \ {0}, NEW m \in Nat, NEW n \in Nat, m < n
  PROVE  m * limit \in Nat /\ n * limit \in Nat /\ m * limit + limit <= n * limit
<1>1. n = m + 1 + (n - m - 1) /\ n - m - 1 \in Nat
  OBVIOUS
<1>2. \A k \in Nat : k * limit \in Nat
  OBVIOUS
<1>3. n * limit = m * limit + limit + (n - m - 1) * limit
  BY <1>1
<1> QED BY <1>1, <1>2, <1>3

\* What a limit leaves of the rows after those an offset skips.
Cut(count, limit, skipped) ==
  LET left == count - skipped
  IN IF left < 0 THEN 0 ELSE IF left > limit THEN limit ELSE left

\* A page holds as many rows as the list has left at its offset, at most as
\* many as it was asked for.
LEMMA PageHolds ==
  ASSUME TablesInv, NEW f, IsFiniteSet(Matching(f)),
         NEW limit \in Nat \ {0}, NEW skipped \in Nat
  PROVE  /\ IsFiniteSet(Page(f, limit, skipped))
         /\ Cardinality(Page(f, limit, skipped))
              = Cut(Cardinality(Matching(f)), limit, skipped)
<1> DEFINE S == Matching(f)
           n == Cardinality(S)
           rank == Rank(S, f)
           P == Page(f, limit, skipped)
           last == IF skipped + limit <= n THEN skipped + limit - 1 ELSE n - 1
           T == skipped .. last
           place == [e \in P |-> rank[e]]
<1>1. S \in SUBSET Events
  BY DEF Matching, TablesInv, DatabaseTypeOK
<1>2. rank \in Bijection(S, 0 .. (n - 1)) /\ n \in Nat
  BY <1>1, RankIsBijection, FS_CardinalityType
<1>3. P = {e \in S : rank[e] \in skipped .. (skipped + limit - 1)}
  BY DEF Page, Rank, Preceding
<1> HIDE DEF P, rank, S
<1>4. P = {e \in S : rank[e] \in T}
  BY <1>2, <1>3 DEF Bijection, Injection
<1>5. place \in Injection(P, T)
  BY <1>2, <1>4 DEF Bijection, Injection, IsInjective
<1>6. place \in Surjection(P, T)
  BY <1>2, <1>4 DEF Bijection, Surjection, Injection
<1>7. P \in SUBSET S /\ IsFiniteSet(S)
  BY <1>4 DEF S
<1>8. IsFiniteSet(P)
  BY <1>7, FS_Subset
<1>9. Cardinality(T) = Cardinality(P)
  BY <1>5, <1>6, <1>8, FS_Surjection
<1>10. skipped \in Int /\ last \in Int
  BY <1>2
<1>11. Cardinality(T) = IF skipped > last THEN 0 ELSE last - skipped + 1
  <2> HIDE DEF last
  <2> QED BY <1>10, FS_Interval
<1> QED BY <1>2, <1>8, <1>9, <1>11 DEF Cut, P, S

\* From page to page of a list that does not change every row is met once.
LEMMA PagesPartition ==
  ASSUME TablesInv, IsFiniteSet(stored), NEW filters, NEW limit \in Nat \ {0}
  PROVE  PagesCover(filters, limit)
<1> SUFFICES ASSUME NEW f \in filters
    PROVE  LET pages == [n \in 0..Cardinality(stored) |-> Page(f, limit, n * limit)]
           IN /\ \A n \in DOMAIN pages : Cardinality(pages[n]) <= limit
              /\ \A e \in Matching(f) : \E n \in DOMAIN pages :
                   /\ e \in pages[n]
                   /\ \A other \in DOMAIN pages \ {n} : e \notin pages[other]
  BY DEF PagesCover
<1> DEFINE S == Matching(f)
           rank == Rank(S, f)
           N == 0 .. Cardinality(stored)
<1>1. S \in SUBSET stored /\ stored \in SUBSET Events
  BY DEF Matching, TablesInv, DatabaseTypeOK
<1>2. IsFiniteSet(S) /\ Cardinality(S) <= Cardinality(stored)
      /\ Cardinality(S) \in Nat /\ Cardinality(stored) \in Nat
  BY <1>1, FS_Subset, FS_CardinalityType
<1>3. \A n \in N : n * limit \in Nat
  BY <1>2
<1>4. ASSUME NEW n \in N PROVE Cardinality(Page(f, limit, n * limit)) <= limit
  BY <1>2, <1>3, PageHolds DEF Cut
<1>5. ASSUME NEW e \in S
      PROVE  \E n \in N : /\ e \in Page(f, limit, n * limit)
                          /\ \A other \in N \ {n} : e \notin Page(f, limit, other * limit)
  <2>1. rank[e] \in 0 .. (Cardinality(S) - 1)
    BY <1>1, <1>2, RankIsBijection DEF Bijection, Injection
  <2>2. \A n \in N : e \in Page(f, limit, n * limit) <=>
                       rank[e] \in (n * limit) .. (n * limit + limit - 1)
    BY DEF Page, Rank, Preceding
  <2> DEFINE r == rank[e]
             q == r \div limit
  <2> HIDE DEF rank, S
  <2>3. r \in Nat /\ r < Cardinality(stored)
    BY <1>2, <2>1
  <2> HIDE DEF r
  <2>4. q \in Nat /\ q * limit <= r /\ r < q * limit + limit
    BY <2>3
  <2>5. q <= r
    <3>1. q * limit \in Nat /\ q * limit >= q
      BY <2>4
    <3> QED BY <2>3, <2>4, <3>1
  <2> HIDE DEF q
  <2>6. q \in N /\ q * limit \in Nat
    BY <1>2, <2>3, <2>4, <2>5
  <2>7. e \in Page(f, limit, q * limit)
    BY <2>2, <2>3, <2>4, <2>6 DEF r
  <2>8. ASSUME NEW other \in N \ {q}, e \in Page(f, limit, other * limit)
        PROVE  FALSE
    <3>1. r \in (other * limit) .. (other * limit + limit - 1) /\ other \in Nat
      BY <1>2, <2>2, <2>8 DEF r
    <3>2. CASE other < q
      BY <2>3, <2>4, <3>1, <3>2, MultiplesGrow
    <3>3. CASE q < other
      BY <2>3, <2>4, <3>1, <3>3, MultiplesGrow
    <3> QED BY <2>4, <3>1, <3>2, <3>3
  <2> QED BY <2>6, <2>7, <2>8
<1> QED BY <1>4, <1>5

-----------------------------------------------------------------------------
(* The tables. *)

LEMMA ReplayTyped ==
  ASSUME DatabaseTypeOK, NEW e, NEW targets, ReplayEventDeliveries(e, targets)
  PROVE  DatabaseTypeOK'
<1>1. \A r \in Rows : Replayed(r) \in Rows
  BY DEF Rows, Replayed, Statuses
<1> QED BY <1>1 DEF DatabaseTypeOK, ReplayEventDeliveries

LEMMA WriteTyped ==
  ASSUME TablesInv, Write
  PROVE  TablesInv'
<1>1. PICK e \in Written :
        \/ Ingest(e) \/ UserDeleted(e) \/ OthersReplay(e, {})
        \/ \E d \in Destinations :
             \/ OthersReplay(e, {d})
             \/ \E status \in Statuses : WorkerWrites(<<e, d>>, status)
  BY DEF Write
<1>2. e \in Events
  BY BoundsAssumption
<1>3. CASE Ingest(e)
  BY <1>2, <1>3 DEF TablesInv, DatabaseTypeOK, Ingest, InsertIfNotExists
<1>4. CASE UserDeleted(e)
  <2>1. NoRow \in Rows
    BY DEF NoRow, Rows
  <2> QED BY <1>2, <1>4, <2>1 DEF TablesInv, DatabaseTypeOK, UserDeleted, DeleteByUserId
<1>5. ASSUME NEW named, OthersReplay(e, named)
      PROVE  TablesInv'
  BY <1>5, ReplayTyped DEF TablesInv, OthersReplay
<1>6. ASSUME NEW d \in Destinations, NEW status \in Statuses, WorkerWrites(<<e, d>>, status)
      PROVE  TablesInv'
  <2> DEFINE update == [status |-> status, attempts |-> 1,
                        deliveredAt |-> status = "delivered"]
  <2>1. <<e, d>> \in Deliveries
    BY <1>2 DEF Deliveries
  <2>2. update \in Updates
    BY DEF Updates
  <2>3. row[<<e, d>>] \in Rows
    BY <2>1 DEF TablesInv, DatabaseTypeOK
  <2>4. Upserted(row[<<e, d>>], update) \in Rows
    BY <2>2, <2>3 DEF Upserted, Updates, Rows
  <2> QED BY <1>6, <2>1, <2>4 DEF TablesInv, DatabaseTypeOK, WorkerWrites, WriteDeliveryState
<1> QED BY <1>1, <1>3, <1>4, <1>5, <1>6

\* Only replays and the writes of others change the tables.
LEMMA TablesKept ==
  ASSUME TablesInv, [ConsoleNext]_consoleVars
  PROVE  TablesInv'
<1>1. CASE Write
  BY <1>1, WriteTyped
<1>2. ASSUME NEW c, ReplayWritten(c), created' = created
      PROVE  TablesInv'
  BY <1>2, ReplayTyped DEF TablesInv, ReplayWritten
<1>3. ASSUME NEW c, ReplayHandled(c) \/ ReplayFails(c)
      PROVE  TablesInv'
  <2>1. created' = created /\ (ReplayWritten(c) \/ UNCHANGED <<stored, row>>)
    BY <1>3 DEF ReplayHandled, ReplayFails, NothingReplayed
  <2> QED BY <1>2, <2>1 DEF TablesInv, DatabaseTypeOK
<1>4. CASE UNCHANGED tableVars
  BY <1>4 DEF tableVars, TablesInv, DatabaseTypeOK
<1>5. CASE Operate
  BY <1>4, <1>5 DEF Operate, Select, ApplyFilters, ClearFilters, NextPage, PrevPage,
                    ClickReplay
<1>6. CASE \E k \in ListKeys : ListStep(k)
  BY <1>4, <1>6 DEF ListStep, ReadCount, ReadPage, ReadList
<1>7. CASE \E k \in Events : DetailStep(k) \/ DetailFails(k)
  BY <1>4, <1>7 DEF DetailStep, ReadEvent, ReadRows, DetailLands, DetailFails
<1>8. CASE BeginListFetch \/ BeginDetailFetch \/ (\E c \in calls : ReplayAnswered(c))
           \/ UNCHANGED consoleVars
  BY <1>4, <1>8 DEF BeginListFetch, BeginDetailFetch, ReplayAnswered, consoleVars
<1> QED BY <1>1, <1>3, <1>5, <1>6, <1>7, <1>8 DEF ConsoleNext

LEMMA TablesInit == ConsoleInit => TablesInv
BY DatabasesAssumption DEF ConsoleInit, TablesInv, DatabaseTypeOK

\* The status an operator filters by is the status the answer shows: SQL's
\* where clause and deriveOverallStatus select the same events.
THEOREM FilterIsStatus == ConsoleSpec => []FilterMeansStatus
<1>1. TablesInv => FilterMeansStatus
  BY StatusClauseIsDerived DEF FilterMeansStatus, TablesInv, DatabaseTypeOK
<1> QED BY <1>1, TablesInit, TablesKept, PTL DEF ConsoleSpec

-----------------------------------------------------------------------------
(* The list and its pages. *)

ListInv ==
  /\ lists \in [ListKeys -> ListAnswers \cup {NoAnswer}]
  /\ listFetch \in [ListKeys -> ListFetches \cup {NoFetch}]

PageInv ==
  /\ selected \in Events \cup {NoEvent}
  /\ applied \in ConsoleFilters
  /\ offset \in Offsets

LEMMA QueriesTyped ==
  ASSUME TablesInv, NEW f
  PROVE  /\ Count(f) \in Totals
         /\ \A limit, o : Items(f, limit, o) \in PageItems
<1>1. Matching(f) \in SUBSET Events
  BY DEF Matching, TablesInv, DatabaseTypeOK
<1>2. Cardinality(Matching(f)) \in Nat /\ Cardinality(Events) \in Nat
      /\ Cardinality(Matching(f)) <= Cardinality(Events)
  BY <1>1, FS_Subset, FS_CardinalityType, EventsAssumption
<1>3. Count(f) \in Totals
  BY <1>2 DEF Count, Totals
<1>4. ASSUME NEW limit, NEW o
      PROVE  Items(f, limit, o) \in PageItems
  <2> DEFINE S == Page(f, Limit(limit), Offset(o))
  <2>1. S \in SUBSET Events
    BY <1>1 DEF Page
  <2>2. \A e \in S : DeliveriesOf(e) \in DeliveryTables
    BY <2>1, StatusOfRows DEF TablesInv
  <2> HIDE DEF S
  <2>3. [e \in S |-> DeliveriesOf(e)] \in [S -> DeliveryTables]
    BY <2>2
  <2> QED BY <2>1, <2>3 DEF Items, PageItems, S
<1> QED BY <1>3, <1>4

\* They return the same as long as the tables stay as they are.
LEMMA QueriesUnchanged ==
  ASSUME UNCHANGED tableVars
  PROVE  \A f : Count(f)' = Count(f) /\ \A l, o : Items(f, l, o)' = Items(f, l, o)
<1> USE DEF tableVars
<1>1. \A e, f : Matches(e, f)' <=> Matches(e, f)
  BY DEF Matches, StatusClause, HasRow, HasRowOf, HasRowNotDelivered, Exists
<1>2. \A f : Matching(f)' = Matching(f)
  BY <1>1 DEF Matching
<1>3. \A e, g, f : Before(e, g, f)' <=> Before(e, g, f)
  BY DEF Before
<1>4. \A f, l, o : Page(f, l, o)' = Page(f, l, o)
  BY <1>2, <1>3 DEF Page
<1>5. \A e : DeliveriesOf(e)' = DeliveriesOf(e)
  BY DEF DeliveriesOf, Exists
<1> QED BY <1>2, <1>4, <1>5 DEF Count, Items

LEMMA BegunTyped == Begun \in ListFetches
BY DEF Begun, ListFetches

LEMMA TornTyped ==
  ASSUME ListInv
  PROVE  Torn(listFetch) \in [ListKeys -> ListFetches \cup {NoFetch}]
<1> SUFFICES ASSUME NEW k \in ListKeys, listFetch[k] # NoFetch
             PROVE  [listFetch[k] EXCEPT !.torn = TRUE] \in ListFetches
  BY DEF Torn, ListInv
<1>1. listFetch[k] \in ListFetches
  BY DEF ListInv
<1> QED BY <1>1 DEF ListFetches

LEMMA ReadsTyped ==
  ASSUME ListInv, NEW k \in ListKeys, listFetch[k] # NoFetch,
         NEW total \in Totals \cup {listFetch[k].total},
         NEW items \in PageItems \cup {listFetch[k].items},
         ListReads(k, [listFetch[k] EXCEPT !.total = total, !.items = items])
  PROVE  ListInv'
<1> DEFINE fetch == [listFetch[k] EXCEPT !.total = total, !.items = items]
<1>1. listFetch[k] \in ListFetches
  BY DEF ListInv
<1>2. /\ fetch \in ListFetches
      /\ fetch.total = total /\ fetch.items = items /\ fetch.torn = listFetch[k].torn
  BY <1>1 DEF ListFetches
<1> HIDE DEF fetch
<1>3. CASE fetch.total # NoAnswer /\ fetch.items # NoAnswer
  <2>1. fetch \in ListAnswers
    BY <1>2, <1>3 DEF ListFetches, ListAnswers
  <2> QED BY <1>3, <2>1 DEF ListInv, ListReads, fetch
<1>4. CASE ~(fetch.total # NoAnswer /\ fetch.items # NoAnswer)
  BY <1>2, <1>4 DEF ListInv, ListReads, fetch
<1> QED BY <1>3, <1>4

LEMMA ListStepTyped ==
  ASSUME TablesInv, ListInv, NEW k \in ListKeys, ListStep(k)
  PROVE  ListInv'
<1> DEFINE fetch == listFetch[k]
<1>1. fetch # NoFetch /\ fetch \in ListFetches
  BY DEF ListStep, ReadCount, ReadPage, ReadList, ListInv
<1>2. \A t, i : /\ [fetch EXCEPT !.total = t] = [fetch EXCEPT !.total = t, !.items = fetch.items]
                /\ [fetch EXCEPT !.items = i] = [fetch EXCEPT !.total = fetch.total, !.items = i]
  BY <1>1 DEF ListFetches
<1>3. PICK total \in Totals \cup {fetch.total}, items \in PageItems \cup {fetch.items} :
        ListReads(k, [fetch EXCEPT !.total = total, !.items = items])
  <2>1. CASE ReadCount(k)
    <3>1. Count(k[2]) \in Totals /\ fetch.items \in PageItems \cup {fetch.items}
      BY QueriesTyped
    <3>2. ListReads(k, [fetch EXCEPT !.total = Count(k[2])])
      BY <2>1 DEF ReadCount
    <3>3. ListReads(k, [fetch EXCEPT !.total = Count(k[2]), !.items = fetch.items])
      BY <1>2, <3>2
    <3> QED BY <3>1, <3>3
  <2>2. CASE ReadPage(k)
    BY <1>2, <2>2, QueriesTyped DEF ReadPage
  <2>3. CASE ReadList(k)
    BY <2>3, QueriesTyped DEF ReadList
  <2> QED BY <2>1, <2>2, <2>3 DEF ListStep
<1> QED BY <1>1, <1>3, ReadsTyped

LEMMA KeysTyped ==
  ASSUME PageInv
  PROVE  CurrentKey \in ListKeys /\ ListKey(offset, applied) \in ListKeys
BY DEF PageInv, CurrentKey, ListKey, ListKeys

\* What a step does to the list's answers: reads one, begins some, or leaves
\* them and, if it writes the tables, marks those half read.
LEMMA ListMoves ==
  ASSUME PageInv, ListInv, [ConsoleNext]_consoleVars
  PROVE  \/ \E k \in ListKeys : ListStep(k)
         \/ lists' = lists /\ listFetch' = Torn(listFetch)
         \/ /\ UNCHANGED <<tableVars, lists>>
            /\ listFetch' \in {listFetch, [listFetch EXCEPT ![CurrentKey] = Begun]}
<1>1. CASE Operate
  BY <1>1 DEF Operate, Select, ApplyFilters, ClearFilters, NextPage, PrevPage,
              ClickReplay, queryVars
<1>2. CASE BeginListFetch
  BY <1>2, KeysTyped DEF BeginListFetch, ListInv
<1>3. CASE BeginDetailFetch \/ UNCHANGED consoleVars
  BY <1>3 DEF BeginDetailFetch, consoleVars, queryVars
<1>4. CASE \E k \in Events : DetailStep(k) \/ DetailFails(k)
  BY <1>4 DEF DetailStep, ReadEvent, ReadRows, DetailLands, DetailFails
<1>5. CASE \E c \in calls : ReplayHandled(c) \/ ReplayFails(c)
  BY <1>5 DEF ReplayHandled, ReplayFails, ReplayWritten, NothingReplayed, tableVars
<1>6. CASE \E c \in calls : ReplayAnswered(c)
  <2>0. PICK c \in calls : ReplayAnswered(c)
    BY <1>6
  <2> DEFINE next == Refetched(listFetch[CurrentKey], lists[CurrentKey], Begun)
  <2>1. next = listFetch[CurrentKey] \/ next = Begun
    BY DEF Refetched
  <2>2. UNCHANGED <<tableVars, lists>>
        /\ listFetch' \in {listFetch, [listFetch EXCEPT ![CurrentKey] = next]}
    BY <2>0 DEF ReplayAnswered
  <2> QED BY <2>1, <2>2 DEF ListInv
<1>7. CASE Write
  BY <1>7 DEF Write
<1>8. CASE \E k \in ListKeys : ListStep(k)
  BY <1>8
<1> QED BY <1>1, <1>2, <1>3, <1>4, <1>5, <1>6, <1>7, <1>8 DEF ConsoleNext

\* A mark changes nothing else of a fetch.
LEMMA TornFetch ==
  ASSUME ListInv, NEW k \in ListKeys, Torn(listFetch)[k] # NoFetch
  PROVE  /\ listFetch[k] # NoFetch
         /\ Torn(listFetch)[k].total = listFetch[k].total
         /\ Torn(listFetch)[k].items = listFetch[k].items
         /\ (listFetch[k].total = NoAnswer) # (listFetch[k].items = NoAnswer)
              => Torn(listFetch)[k].torn
<1>1. listFetch[k] # NoFetch /\ listFetch[k] \in ListFetches
  BY DEF Torn, ListInv
<1> QED BY <1>1 DEF Torn, ListFetches

LEMMA ListKept ==
  ASSUME TablesInv, PageInv, ListInv, [ConsoleNext]_consoleVars
  PROVE  ListInv'
<1>1. CASE \E k \in ListKeys : ListStep(k)
  BY <1>1, ListStepTyped
<1>2. CASE lists' = lists /\ listFetch' = Torn(listFetch)
  BY <1>2, TornTyped DEF ListInv
<1>3. CASE /\ lists' = lists
           /\ listFetch' \in {listFetch, [listFetch EXCEPT ![CurrentKey] = Begun]}
  BY <1>3, BegunTyped DEF ListInv
<1> QED BY <1>1, <1>2, <1>3, ListMoves

-----------------------------------------------------------------------------
(* The page. *)

LEMMA Multiples ==
  ASSUME NEW n \in Nat
  PROVE  n * PageSize \in Nat /\ n * PageSize >= n
         /\ (n + 1) * PageSize = n * PageSize + PageSize
BY PageSizeAssumption

\* "Next" and "Prev" lead from page to page of the list.
LEMMA NextOffset ==
  ASSUME PageInv, ListInv, NextPage
  PROVE  offset' \in Offsets
<1>1. PICK n \in 0 .. (Cardinality(Events) - 1) : offset = n * PageSize
  BY DEF PageInv, Offsets
<1>2. ListShown \in ListAnswers /\ offset + PageSize < ListShown.total
  BY KeysTyped DEF NextPage, ListShown, ListInv
<1>3. Cardinality(Events) \in Nat
  BY FS_CardinalityType, EventsAssumption
<1>4. (n + 1) * PageSize < Cardinality(Events) /\ n \in Nat
  BY <1>1, <1>2, <1>3, Multiples DEF ListAnswers, Totals
<1>5. n + 1 < Cardinality(Events)
  <2>1. n + 1 \in Nat
    BY <1>4
  <2>2. (n + 1) * PageSize \in Nat /\ (n + 1) * PageSize >= n + 1
    BY <2>1, Multiples
  <2> QED BY <1>3, <1>4, <2>1, <2>2
<1>6. offset' = (n + 1) * PageSize
  BY <1>1, <1>4, Multiples DEF NextPage
<1> QED BY <1>3, <1>4, <1>5, <1>6 DEF Offsets

LEMMA PrevOffset ==
  ASSUME PageInv, PrevPage
  PROVE  offset' \in Offsets
<1>1. PICK n \in 0 .. (Cardinality(Events) - 1) : offset = n * PageSize
  BY DEF PageInv, Offsets
<1>2. Cardinality(Events) \in Nat
  BY FS_CardinalityType, EventsAssumption
<1>3. n # 0
  BY <1>1, PageSizeAssumption DEF PrevPage
<1>4. n - 1 \in 0 .. (Cardinality(Events) - 1) /\ n - 1 \in Nat
  BY <1>2, <1>3
<1>5. offset' = (n - 1) * PageSize
  <2>1. n * PageSize = (n - 1) * PageSize + PageSize
    BY <1>4, Multiples
  <2>2. (n - 1) * PageSize \in Nat
    BY <1>4, Multiples
  <2> QED BY <1>1, <2>1, <2>2, PageSizeAssumption DEF PrevPage
<1> QED BY <1>4, <1>5 DEF Offsets

LEMMA FirstOffset == 0 \in Offsets
<1>1. Cardinality(Events) \in Nat /\ Cardinality(Events) > 0
  BY FS_CardinalityType, FS_EmptySet, EventsAssumption
<1>2. 0 \in 0 .. (Cardinality(Events) - 1) /\ 0 * PageSize = 0
  BY <1>1, PageSizeAssumption
<1> QED BY <1>2 DEF Offsets

LEMMA PageKept ==
  ASSUME PageInv, ListInv, [ConsoleNext]_consoleVars
  PROVE  PageInv'
<1>1. CASE UNCHANGED pageVars
  BY <1>1 DEF PageInv, pageVars
<1>2. CASE \E e \in Events : Select(e)
  BY <1>2 DEF Select, PageInv
<1>3. CASE (\E f \in ConsoleFilters : ApplyFilters(f)) \/ ClearFilters
  BY <1>3, FirstOffset, FiltersAssumption DEF ApplyFilters, ClearFilters, PageInv
<1>4. CASE NextPage
  BY <1>4, NextOffset DEF NextPage, PageInv
<1>5. CASE PrevPage
  BY <1>5, PrevOffset DEF PrevPage, PageInv
<1>6. CASE (\E b \in Buttons : ClickReplay(b)) \/ BeginListFetch \/ BeginDetailFetch
           \/ Write \/ UNCHANGED consoleVars
  BY <1>1, <1>6 DEF ClickReplay, BeginListFetch, BeginDetailFetch, Write, consoleVars
<1>7. CASE \E k \in ListKeys : ListStep(k)
  BY <1>1, <1>7 DEF ListStep, ReadCount, ReadPage, ReadList
<1>8. CASE \E k \in Events : DetailStep(k) \/ DetailFails(k)
  BY <1>1, <1>8 DEF DetailStep, ReadEvent, ReadRows, DetailLands, DetailFails
<1>9. CASE \E c \in calls : ReplayHandled(c) \/ ReplayFails(c) \/ ReplayAnswered(c)
  BY <1>1, <1>9 DEF ReplayHandled, ReplayFails, ReplayAnswered
<1> QED BY <1>2, <1>3, <1>4, <1>5, <1>6, <1>7, <1>8, <1>9 DEF ConsoleNext, Operate

-----------------------------------------------------------------------------
(* The details. *)

DetailsTyped ==
  /\ details \in [Events -> DetailAnswers \cup {NoAnswer}]
  /\ detailFetch \in [Events -> DetailFetches \cup {NoFetch}]
  /\ erred \subseteq Events /\ awaited \subseteq Events

\* What is kept or fetched under an event's key is of that event.
DetailsKeyed ==
  \A e \in Events : /\ details[e] # NoAnswer => details[e].event = e
                    /\ detailFetch[e] # NoFetch => detailFetch[e].event = e

Fresh(fetch) == fetch # NoFetch /\ (fetch.stage = "read" => ~fetch.old)

\* A refresh that is awaited is under way, and has not read before the replay.
AwaitedFresh == \A e \in awaited : Fresh(detailFetch[e])

DetailInv == DetailsTyped /\ DetailsKeyed /\ AwaitedFresh

LEMMA OneFetchKept ==
  ASSUME DetailInv, NEW k \in Events, NEW fetch \in DetailFetches \cup {NoFetch},
         fetch # NoFetch => fetch.event = k,
         details' = details, detailFetch' = [detailFetch EXCEPT ![k] = fetch],
         erred' \subseteq Events, awaited' \subseteq awaited \cup {k},
         k \in awaited' => Fresh(fetch)
  PROVE  DetailInv'
<1>1. \A e \in Events : detailFetch'[e] = IF e = k THEN fetch ELSE detailFetch[e]
  BY DEF DetailInv, DetailsTyped
<1>2. DetailsTyped'
  BY DEF DetailInv, DetailsTyped
<1>3. DetailsKeyed'
  BY <1>1 DEF DetailInv, DetailsKeyed
<1>4. AwaitedFresh'
  BY <1>1 DEF DetailInv, DetailsTyped, AwaitedFresh, Fresh
<1> QED BY <1>2, <1>3, <1>4 DEF DetailInv

LEMMA BegunDetail ==
  ASSUME NEW e \in Events
  PROVE  LET begun == [stage |-> "begun", event |-> e]
         IN begun \in DetailFetches /\ begun.event = e /\ Fresh(begun)
BY NoFetchAssumption DEF DetailFetches, Fresh

LEMMA DetailStepKept ==
  ASSUME TablesInv, DetailInv, NEW k \in Events, DetailStep(k) \/ DetailFails(k)
  PROVE  DetailInv'
<1> DEFINE fetch == detailFetch[k]
<1>1. fetch # NoFetch /\ fetch \in DetailFetches /\ fetch.event = k
  BY DEF DetailStep, ReadEvent, ReadRows, DetailLands, DetailFails, At,
         DetailInv, DetailsTyped, DetailsKeyed
<1>2. erred \subseteq Events /\ awaited \subseteq Events
  BY DEF DetailInv, DetailsTyped
<1>3. ASSUME DetailErrs(k), details' = details
      PROVE  DetailInv'
  BY <1>2, <1>3, OneFetchKept DEF DetailErrs
<1>4. CASE ReadEvent(k) /\ k \in stored
  <2> DEFINE found == [fetch EXCEPT !.stage = "found"]
  <2>1. found \in DetailFetches /\ found.event = k /\ found.stage = "found"
    BY <1>1, <1>4 DEF ReadEvent, At, DetailFetches, DetailAnswers
  <2>2. Fresh(found)
    BY <2>1, NoFetchAssumption DEF Fresh
  <2>3. detailFetch' = [detailFetch EXCEPT ![k] = found]
    BY <1>1, <1>4 DEF ReadEvent
  <2>4. details' = details /\ erred' = erred /\ awaited' = awaited
    BY <1>1, <1>4 DEF ReadEvent
  <2> HIDE DEF found
  <2> QED BY <1>2, <2>1, <2>2, <2>3, <2>4, OneFetchKept
<1>5. CASE ReadEvent(k) /\ k \notin stored
  BY <1>1, <1>3, <1>5 DEF ReadEvent
<1>6. CASE ReadRows(k)
  <2> DEFINE read == [stage |-> "read", event |-> k,
                      deliveries |-> DeliveriesOf(k), old |-> FALSE]
  <2>1. read \in DetailFetches /\ read.event = k
    BY StatusOfRows DEF TablesInv, DetailFetches, DetailAnswers
  <2>2. Fresh(read)
    BY <2>1, NoFetchAssumption DEF Fresh
  <2>3. detailFetch' = [detailFetch EXCEPT ![k] = read]
    BY <1>1, <1>6 DEF ReadRows
  <2> QED BY <1>2, <1>6, <2>1, <2>2, <2>3, OneFetchKept DEF ReadRows
<1>7. CASE DetailLands(k)
  <2>1. fetch \in DetailAnswers
    BY <1>1, <1>7 DEF DetailLands, At, DetailFetches
  <2>2. /\ \A e \in Events : details'[e] = IF e = k THEN fetch ELSE details[e]
        /\ \A e \in Events : detailFetch'[e] = IF e = k THEN NoFetch ELSE detailFetch[e]
    BY <1>7 DEF DetailLands, DetailInv, DetailsTyped
  <2>3. DetailsTyped'
    BY <1>7, <2>1 DEF DetailLands, DetailInv, DetailsTyped
  <2>4. DetailsKeyed'
    BY <1>1, <2>2 DEF DetailInv, DetailsKeyed
  <2>5. AwaitedFresh'
    BY <1>2, <1>7, <2>2 DEF DetailLands, DetailInv, AwaitedFresh
  <2> QED BY <2>3, <2>4, <2>5 DEF DetailInv
<1>8. CASE DetailFails(k)
  BY <1>3, <1>8 DEF DetailFails
<1> QED BY <1>4, <1>5, <1>6, <1>7, <1>8 DEF DetailStep

\* A replay ages what was read of its event, and of no other.
LEMMA AgedDetail ==
  ASSUME DetailInv, NEW e \in Events, NEW k \in Events
  PROVE  /\ Aged(details, e)[k] \in DetailAnswers \cup {NoAnswer}
         /\ Aged(detailFetch, e)[k] \in DetailFetches \cup {NoFetch}
         /\ Aged(details, e)[k] # NoAnswer => Aged(details, e)[k].event = k
         /\ Aged(detailFetch, e)[k] # NoFetch => Aged(detailFetch, e)[k].event = k
         /\ k # e => Aged(detailFetch, e)[k] = detailFetch[k]
<1>1. /\ details[k] \in DetailAnswers \cup {NoAnswer}
      /\ detailFetch[k] \in DetailFetches \cup {NoFetch}
      /\ details[k] # NoAnswer => details[k].event = k
      /\ detailFetch[k] # NoFetch => detailFetch[k].event = k
  BY DEF DetailInv, DetailsTyped, DetailsKeyed
<1>2. \A d \in DetailAnswers : /\ [d EXCEPT !.old = TRUE] \in DetailAnswers
                               /\ [d EXCEPT !.old = TRUE].event = d.event
  BY DEF DetailAnswers
<1>3. \A d \in DetailFetches : d.stage = "read" <=> d \in DetailAnswers
  BY DEF DetailFetches, DetailAnswers
<1>4. DetailAnswers \subseteq DetailFetches
  BY DEF DetailFetches
<1>5. \A data \in {details, detailFetch} :
        Aged(data, e)[k] =
          IF data[k] # NoAnswer /\ data[k] # NoFetch
            THEN IF data[k].stage = "read" /\ data[k].event = e
                   THEN [data[k] EXCEPT !.old = TRUE] ELSE data[k]
            ELSE data[k]
  BY DEF Aged
<1> QED BY <1>1, <1>2, <1>3, <1>4, <1>5

LEMMA WrittenKept ==
  ASSUME DetailInv, NEW e \in Events, erred' = erred,
         details' = Aged(details, e), detailFetch' = Aged(detailFetch, e),
         awaited' = awaited \ {e}
  PROVE  DetailInv'
<1>1. DetailsTyped'
  <2>1. DOMAIN details' = Events /\ DOMAIN detailFetch' = Events
        /\ details' = [k \in Events |-> details'[k]]
        /\ detailFetch' = [k \in Events |-> detailFetch'[k]]
    BY DEF Aged
  <2>2. \A k \in Events : /\ details'[k] \in DetailAnswers \cup {NoAnswer}
                          /\ detailFetch'[k] \in DetailFetches \cup {NoFetch}
    BY AgedDetail
  <2> QED BY <2>1, <2>2 DEF DetailInv, DetailsTyped
<1>2. DetailsKeyed'
  BY AgedDetail DEF DetailsKeyed
<1>3. AwaitedFresh'
  BY AgedDetail DEF AwaitedFresh, DetailInv, DetailsTyped
<1> QED BY <1>1, <1>2, <1>3 DEF DetailInv

LEMMA AnsweredKept ==
  ASSUME PageInv, DetailInv, NEW c \in Replays, ReplayAnswered(c)
  PROVE  DetailInv'
<1> DEFINE key   == c.refresh
           begun == [stage |-> "begun", event |-> key]
           next  == Refetched(detailFetch[key], details[key], begun)
           shown == c.result = "success" /\ key = selected
<1>1. key \in Events
  BY DEF Replays
<1>2. begun \in DetailFetches /\ begun.event = key /\ Fresh(begun)
  BY <1>1, BegunDetail
<1>3. erred' = erred /\ details' = details /\ erred \subseteq Events
  BY DEF ReplayAnswered, DetailInv, DetailsTyped
<1>4. CASE shown
  <2>1. detailFetch' = [detailFetch EXCEPT ![key] = next]
    BY <1>4 DEF ReplayAnswered, DetailKey
  <2>2. next \in DetailFetches \cup {NoFetch} /\ (next # NoFetch => next.event = key)
    BY <1>1, <1>2 DEF Refetched, DetailInv, DetailsTyped, DetailsKeyed
  <2>3. awaited' \subseteq awaited \cup {key}
        /\ (key \in awaited' => key \in awaited \/ details[key] # NoAnswer)
    BY DEF ReplayAnswered, DetailKey
  <2>4. key \in awaited' => Fresh(next)
    BY <1>2, <2>3 DEF Refetched, DetailInv, AwaitedFresh
  <2> HIDE DEF next
  <2> QED BY <1>1, <1>3, <2>1, <2>2, <2>3, <2>4, OneFetchKept
<1>5. CASE ~shown
  <2>1. detailFetch' = detailFetch /\ awaited' = awaited
    BY <1>5 DEF ReplayAnswered, DetailKey
  <2> QED BY <1>3, <2>1 DEF DetailInv, DetailsTyped, DetailsKeyed, AwaitedFresh
<1> QED BY <1>4, <1>5

LEMMA DetailKept ==
  ASSUME TablesInv, PageInv, DetailInv, calls \subseteq Replays,
         [ConsoleNext]_consoleVars
  PROVE  DetailInv'
<1>1. CASE UNCHANGED <<details, detailFetch, erred, awaited>>
  BY <1>1 DEF DetailInv, DetailsTyped, DetailsKeyed, AwaitedFresh
<1>2. CASE Operate
  BY <1>1, <1>2 DEF Operate, Select, ApplyFilters, ClearFilters, NextPage, PrevPage,
                    ClickReplay, queryVars
<1>3. CASE BeginListFetch \/ Write \/ UNCHANGED consoleVars
  BY <1>1, <1>3 DEF BeginListFetch, Write, consoleVars, queryVars
<1>4. CASE \E k \in ListKeys : ListStep(k)
  BY <1>1, <1>4 DEF ListStep, ReadCount, ReadPage, ReadList
<1>5. CASE BeginDetailFetch
  <2>1. selected \in Events
    BY <1>5 DEF BeginDetailFetch, PageInv
  <2>2. erred \subseteq Events
    BY DEF DetailInv, DetailsTyped
  <2> QED BY <1>5, <2>1, <2>2, BegunDetail, OneFetchKept DEF BeginDetailFetch, DetailKey
<1>6. CASE \E k \in Events : DetailStep(k) \/ DetailFails(k)
  BY <1>6, DetailStepKept
<1>7. ASSUME NEW c \in calls, ReplayHandled(c) \/ ReplayFails(c)
      PROVE  DetailInv'
  <2>1. c.event \in Events
    BY DEF Replays
  <2>2. erred' = erred /\ (ReplayWritten(c) \/ NothingReplayed)
    BY <1>7 DEF ReplayHandled, ReplayFails
  <2>3. CASE ReplayWritten(c)
    BY <2>1, <2>2, <2>3, WrittenKept DEF ReplayWritten
  <2>4. CASE NothingReplayed
    BY <1>1, <2>2, <2>4 DEF NothingReplayed
  <2> QED BY <2>2, <2>3, <2>4
<1>8. ASSUME NEW c \in calls, ReplayAnswered(c)
      PROVE  DetailInv'
  BY <1>8, AnsweredKept
<1> QED BY <1>2, <1>3, <1>4, <1>5, <1>6, <1>7, <1>8 DEF ConsoleNext

-----------------------------------------------------------------------------
(* The buttons and their calls. *)

\* A destination's button, and the call it still waits for, are of the event
\* shown; a call names nothing that its operator did not see as failed.
ButtonsFit(hint, called, last, event) ==
  /\ hint \in [Buttons -> HintStates]
  /\ called \subseteq Replays
  /\ last \in [Destinations -> Events \cup {NoEvent}]
  /\ \A d \in Destinations : hint[d] = "success" => last[d] = event
  /\ \A c \in called : /\ c.button \in Destinations => c.event = event
                       /\ c.named \subseteq c.seen

ButtonInv == ButtonsFit(hints, calls, about, selected)

\* What is still on the page after a step is what was there before it.
LEMMA RenderKept ==
  ASSUME PageInv', NEW hint, NEW called, Render(hint, called),
         ButtonsFit(hint, called, about', selected)
  PROVE  ButtonInv'
<1> DEFINE kept == {b \in Buttons : /\ Mounted(b) /\ Mounted(b)'
                                    /\ KeyedByEvent(b) => selected' = selected}
           after(c) == IF c.button \in kept THEN [c EXCEPT !.refresh = selected']
                                            ELSE [c EXCEPT !.button = Gone]
<1>1. /\ hints' = [b \in Buttons |-> IF b \in kept THEN hint[b] ELSE "idle"]
      /\ calls' = {after(c) : c \in called}
  BY DEF Render
<1>2. kept \subseteq Buttons /\ Destinations \subseteq Buttons
  BY DEF Buttons
<1>3. \A b \in kept : selected' \in Events
  BY DEF Mounted, PageInv
<1>4. \A d \in Destinations : d \in kept => selected' = selected
  BY ButtonsAssumption DEF KeyedByEvent
<1> HIDE DEF kept
<1>5. hints' \in [Buttons -> HintStates]
  BY <1>1 DEF ButtonsFit, HintStates
<1>6. \A d \in Destinations : hints'[d] = "success" => about'[d] = selected'
  BY <1>1, <1>2, <1>4 DEF ButtonsFit
<1>7. ASSUME NEW c \in called
      PROVE  /\ after(c) \in Replays
             /\ after(c).button \in Destinations => after(c).event = selected'
             /\ after(c).named \subseteq after(c).seen
  <2>1. /\ c \in Replays
        /\ c.button \in Destinations => c.event = selected
        /\ c.named \subseteq c.seen
    BY DEF ButtonsFit
  <2>2. CASE c.button \in kept
    <3>1. after(c) = [c EXCEPT !.refresh = selected']
      BY <2>2
    <3> QED BY <1>3, <1>4, <2>1, <2>2, <3>1 DEF Replays
  <2>3. CASE c.button \notin kept
    <3>1. after(c) = [c EXCEPT !.button = Gone]
      BY <2>3
    <3> QED BY <2>1, <3>1, ButtonsAssumption DEF Replays
  <2> QED BY <2>2, <2>3
<1> HIDE DEF after
<1> QED BY <1>1, <1>5, <1>6, <1>7 DEF ButtonInv, ButtonsFit

\* A step of the page that presses no button.
LEMMA ShownKept ==
  ASSUME PageInv', ButtonInv, about' = about, Render(hints, calls)
  PROVE  ButtonInv'
BY RenderKept DEF ButtonInv

LEMMA SeenTyped ==
  ASSUME ListInv, PageInv, DetailInv
  PROVE  SeenFailed \subseteq Destinations
<1>1. \A deliveries \in DeliveryTables : DOMAIN deliveries \subseteq Destinations
  BY DEF DeliveryTables
<1>2. CASE DetailShown # NoAnswer /\ DOMAIN DetailShown.deliveries # {}
  <2>1. DetailShown \in DetailAnswers
    BY <1>2 DEF DetailShown, DetailKey, PageInv, DetailInv, DetailsTyped
  <2>2. DetailShown.deliveries \in DeliveryTables
    BY <2>1 DEF DetailAnswers
  <2> QED BY <1>1, <1>2, <2>2 DEF SeenFailed, PanelDeliveries
<1>3. CASE ~(DetailShown # NoAnswer /\ DOMAIN DetailShown.deliveries # {})
           /\ selected \in Listed
  <2>1. ListShown \in ListAnswers
    BY <1>3, KeysTyped DEF Listed, ListShown, ListInv
  <2>2. PICK S \in SUBSET Events : ListShown.items \in [S -> DeliveryTables]
    BY <2>1 DEF ListAnswers, PageItems
  <2>3. ListShown.items[selected] \in DeliveryTables
    BY <1>3, <2>2 DEF Listed
  <2> QED BY <1>1, <1>3, <2>3 DEF SeenFailed, PanelDeliveries
<1>4. CASE ~(DetailShown # NoAnswer /\ DOMAIN DetailShown.deliveries # {})
           /\ selected \notin Listed
  BY <1>4 DEF SeenFailed, PanelDeliveries
<1> QED BY <1>2, <1>3, <1>4

LEMMA ClickKept ==
  ASSUME ListInv, PageInv, PageInv', DetailInv, ButtonInv,
         NEW b \in Buttons, ClickReplay(b)
  PROVE  ButtonInv'
<1> DEFINE hint == [hints EXCEPT ![b] = "pending"]
           new  == [button |-> b, event |-> selected, named |-> Named(b),
                    seen |-> SeenFailed, refresh |-> selected, result |-> "none"]
<1>1. selected \in Events /\ Named(b) \subseteq SeenFailed
  BY DEF ClickReplay, Mounted, Named, PageInv
<1>2. SeenFailed \subseteq Destinations
  BY SeenTyped
<1>3. new \in Replays /\ new.event = selected /\ new.named \subseteq new.seen
  BY <1>1, <1>2 DEF Replays
<1>4. hint \in [Buttons -> HintStates]
      /\ \A d \in Destinations : hint[d] = "success" => hints[d] = "success"
  BY DEF ButtonInv, ButtonsFit, HintStates, Buttons
<1>5. about' = about /\ Render(hint, calls \cup {new})
  BY DEF ClickReplay
<1> HIDE DEF hint, new
<1>6. ButtonsFit(hint, calls \cup {new}, about', selected)
  BY <1>3, <1>4, <1>5 DEF ButtonInv, ButtonsFit
<1> QED BY <1>5, <1>6, RenderKept

\* A call that is carried out keeps everything but its result.
LEMMA AnsweredCall ==
  ASSUME ButtonInv, NEW c \in calls, NEW result \in {"success", "error"},
         calls' = Answered(c, result), UNCHANGED <<hints, about, selected>>
  PROVE  ButtonInv'
<1>1. c \in Replays /\ (c.button \in Destinations => c.event = selected)
      /\ c.named \subseteq c.seen
  BY DEF ButtonInv, ButtonsFit
<1>2. [c EXCEPT !.result = result] \in Replays
      /\ [c EXCEPT !.result = result].button = c.button
      /\ [c EXCEPT !.result = result].event = c.event
      /\ [c EXCEPT !.result = result].named = c.named
      /\ [c EXCEPT !.result = result].seen = c.seen
  BY <1>1 DEF Replays
<1> QED BY <1>1, <1>2 DEF ButtonInv, ButtonsFit, Answered

LEMMA ReplayAnswerKept ==
  ASSUME PageInv', ButtonInv, NEW c \in calls, ReplayAnswered(c)
  PROVE  ButtonInv'
<1> DEFINE hint == IF c.button = Gone THEN hints
                                      ELSE [hints EXCEPT ![c.button] = c.result]
<1>1. /\ hints \in [Buttons -> HintStates]
      /\ about \in [Destinations -> Events \cup {NoEvent}]
      /\ \A d \in Destinations : hints[d] = "success" => about[d] = selected
      /\ c \in Replays /\ (c.button \in Destinations => c.event = selected)
  BY DEF ButtonInv, ButtonsFit
<1>2. c.result \in HintStates /\ c.button \in Buttons \cup {Gone} /\ c.event \in Events
  BY <1>1 DEF ReplayAnswered, Replays, HintStates
<1>3. /\ Render(hint, calls \ {c})
      /\ about' = IF c.result = "success" /\ c.button \in Destinations
                    THEN [about EXCEPT ![c.button] = c.event] ELSE about
  BY DEF ReplayAnswered
<1>4. hint \in [Buttons -> HintStates]
  BY <1>1, <1>2
<1>5. about' \in [Destinations -> Events \cup {NoEvent}]
  BY <1>1, <1>2, <1>3
<1>6. ASSUME NEW d \in Destinations, hint[d] = "success"
      PROVE  about'[d] = selected
  <2>1. d \in Buttons /\ d # Gone
    BY ButtonsAssumption DEF Buttons
  <2>2. CASE c.button = d
    <3>1. c.result = "success"
      BY <1>1, <1>6, <2>1, <2>2
    <3> QED BY <1>1, <1>3, <2>2, <3>1
  <2>3. CASE c.button # d
    <3>1. hints[d] = "success"
      BY <1>1, <1>6, <2>1, <2>3
    <3> QED BY <1>1, <1>3, <2>3, <3>1
  <2> QED BY <2>2, <2>3
<1> HIDE DEF hint
<1>7. ButtonsFit(hint, calls \ {c}, about', selected)
  BY <1>4, <1>5, <1>6 DEF ButtonInv, ButtonsFit
<1> QED BY <1>3, <1>7, RenderKept

LEMMA ButtonKept ==
  ASSUME ListInv, PageInv, PageInv', DetailInv, ButtonInv, [ConsoleNext]_consoleVars
  PROVE  ButtonInv'
<1>1. CASE UNCHANGED <<hints, calls, about, selected>>
  BY <1>1 DEF ButtonInv
<1>2. CASE Operate
  <2>1. CASE \E b \in Buttons : ClickReplay(b)
    BY <2>1, ClickKept
  <2>2. CASE ~\E b \in Buttons : ClickReplay(b)
    BY <1>2, <2>2, ShownKept DEF Operate, Select, ApplyFilters, ClearFilters, NextPage,
                                 PrevPage
  <2> QED BY <2>1, <2>2
<1>3. CASE BeginListFetch \/ BeginDetailFetch \/ Write \/ UNCHANGED consoleVars
  BY <1>1, <1>3 DEF BeginListFetch, BeginDetailFetch, Write, consoleVars, pageVars,
                    buttonVars
<1>4. CASE \E k \in ListKeys : ListStep(k)
  BY <1>4, ShownKept DEF ListStep, ReadCount, ReadPage, ReadList
<1>5. CASE \E k \in Events : DetailStep(k) \/ DetailFails(k)
  BY <1>1, <1>5, ShownKept DEF DetailStep, ReadEvent, ReadRows, DetailLands, DetailFails,
                               pageVars, buttonVars
<1>6. ASSUME NEW c \in calls, ReplayHandled(c) \/ ReplayFails(c)
      PROVE  ButtonInv'
  <2>1. UNCHANGED <<hints, about, selected>>
        /\ \E result \in {"success", "error"} : calls' = Answered(c, result)
    BY <1>6 DEF ReplayHandled, ReplayFails, pageVars
  <2> QED BY <2>1, AnsweredCall
<1>7. ASSUME NEW c \in calls, ReplayAnswered(c)
      PROVE  ButtonInv'
  BY <1>7, ReplayAnswerKept
<1> QED BY <1>2, <1>3, <1>4, <1>5, <1>6, <1>7 DEF ConsoleNext

-----------------------------------------------------------------------------
(* The page as a whole. *)

ConsoleInv == TablesInv /\ ListInv /\ PageInv /\ DetailInv /\ ButtonInv

LEMMA ConsoleInvInit == ConsoleInit => ConsoleInv
<1> SUFFICES ASSUME ConsoleInit PROVE ConsoleInv
  OBVIOUS
<1>1. TablesInv
  BY TablesInit
<1>2. ListInv
  BY DEF ConsoleInit, ListInv
<1>3. PageInv
  BY FirstOffset, FiltersAssumption, BoundsAssumption DEF ConsoleInit, PageInv
<1>4. DetailInv
  BY DEF ConsoleInit, DetailInv, DetailsTyped, DetailsKeyed, AwaitedFresh
<1>5. ButtonInv
  BY DEF ConsoleInit, ButtonInv, ButtonsFit, Buttons, HintStates
<1> QED BY <1>1, <1>2, <1>3, <1>4, <1>5 DEF ConsoleInv

LEMMA ConsoleInvKept == ConsoleInv /\ [ConsoleNext]_consoleVars => ConsoleInv'
<1> SUFFICES ASSUME ConsoleInv, [ConsoleNext]_consoleVars PROVE ConsoleInv'
  OBVIOUS
<1>1. TablesInv' /\ ListInv' /\ PageInv'
  BY TablesKept, ListKept, PageKept DEF ConsoleInv
<1>2. calls \subseteq Replays
  BY DEF ConsoleInv, ButtonInv, ButtonsFit
<1>3. DetailInv' /\ ButtonInv'
  BY <1>1, <1>2, DetailKept, ButtonKept DEF ConsoleInv
<1> QED BY <1>1, <1>3 DEF ConsoleInv

\* The page, its cache, its requests and its buttons as an invariant.
THEOREM ConsoleInvariant == ConsoleSpec => []ConsoleInv
BY ConsoleInvInit, ConsoleInvKept, PTL DEF ConsoleSpec

\* Every reachable state of the page is well typed; in particular "Prev" and
\* "Next" never lead outside the list's pages.
THEOREM ConsoleTyped == ConsoleSpec => []ConsoleTypeOK
<1>1. ConsoleInv => ConsoleTypeOK
  BY DEF ConsoleInv, ConsoleTypeOK, TablesInv, ListInv, PageInv, DetailInv, DetailsTyped,
         ButtonInv, ButtonsFit
<1> QED BY <1>1, ConsoleInvariant, PTL

\* The panel never shows another event's detail under the one selected.
THEOREM PanelShowsSelection == ConsoleSpec => []PanelOfSelection
<1>1. ConsoleInv => PanelOfSelection
  BY DEF ConsoleInv, PageInv, DetailInv, DetailsKeyed, PanelOfSelection, DetailShown,
         DetailKey
<1> QED BY <1>1, ConsoleInvariant, PTL

\* "Replay queued." beside a destination is about that destination of the
\* event shown.
THEOREM HintsAreOwn == ConsoleSpec => []HintsOfTimelineAreOwn
<1>1. ConsoleInv => HintsOfTimelineAreOwn
  BY DEF ConsoleInv, ButtonInv, ButtonsFit, HintsOfTimelineAreOwn
<1> QED BY <1>1, ConsoleInvariant, PTL

\* Nothing delivered is resent that the operator was not shown as failed.
THEOREM ResendsWhatWasSeen == ConsoleSpec => ResendsOnlySeenFailed
<1>1. ASSUME ConsoleInv, [ConsoleNext]_consoleVars,
             NEW c \in calls, NEW d \in ReplayTargets(c.event, c.named),
             row[<<c.event, d>>].status = "delivered"
      PROVE  d \in c.seen
  <2>1. c.named \subseteq c.seen
    BY <1>1 DEF ConsoleInv, ButtonInv, ButtonsFit
  <2>2. c.named # {}
    BY <1>1 DEF ReplayTargets, ReplaySelects
  <2> QED BY <2>1, <2>2 DEF ReplayTargets
<1>2. ConsoleInv /\ [ConsoleNext]_consoleVars =>
        [\A c \in calls :
           (ReplayHandled(c) \/ ReplayFails(c)) /\ ReplayWritten(c) =>
             \A d \in ReplayTargets(c.event, c.named) :
               row[<<c.event, d>>].status = "delivered" => d \in c.seen]_consoleVars
  BY <1>1
<1> QED BY <1>2, ConsoleInvariant, PTL DEF ConsoleSpec, ResendsOnlySeenFailed

\* A panel refreshed after a replay shows what was read after it.
THEOREM RefreshIsFresh == ConsoleSpec => RefreshShowsReplay
<1>1. ASSUME ConsoleInv, NEW e \in awaited, DetailLands(e)
      PROVE  ~details'[e].old
  <2>1. e \in Events /\ details'[e] = detailFetch[e] /\ detailFetch[e].stage = "read"
    BY <1>1 DEF DetailLands, At, ConsoleInv, DetailInv, DetailsTyped
  <2> QED BY <1>1, <2>1 DEF ConsoleInv, DetailInv, AwaitedFresh, Fresh
<1>2. ConsoleInv /\ [ConsoleNext]_consoleVars =>
        [\A e \in awaited : DetailLands(e) => ~details'[e].old]_consoleVars
  BY <1>1
<1> QED BY <1>2, ConsoleInvariant, PTL DEF ConsoleSpec, RefreshShowsReplay

-----------------------------------------------------------------------------
(* What the page hides. *)

\* The page's own filter, without its times; of name and source the API's
\* patterns, which is all the API ensures.
Fits(f, e, deliveries) ==
  /\ f.eventId # NotSet => Includes(e, f.eventId)
  /\ f.destination # NotSet =>
       \E d \in DOMAIN deliveries : Includes(d, f.destination)
  /\ f.status # NotSet => OverallStatus(deliveries) = f.status
  /\ f.name # NotSet => ILikeWithin(NameOf[e], f.name)
  /\ f.source # NotSet => ILike(SourceOf[e], f.source)

ItemsFit(f, items) ==
  items # NoAnswer => \A e \in DOMAIN items : Fits(f, e, items[e])

\* Every answer kept or fetched under a key passes the filter of the key.
FitInv ==
  \A k \in ListKeys :
    /\ lists[k] # NoAnswer => ItemsFit(k[2], lists[k].items)
    /\ listFetch[k] # NoFetch => ItemsFit(k[2], listFetch[k].items)

\* The API's where clause selects only what fits.
LEMMA ItemsReadFit ==
  ASSUME TablesInv, NEW f \in ConsoleFilters, NEW limit, NEW o
  PROVE  ItemsFit(f, Items(f, limit, o))
<1>1. f \in Filters
  BY FiltersAssumption
<1>2. /\ DOMAIN Items(f, limit, o) \subseteq Matching(f)
      /\ \A e \in DOMAIN Items(f, limit, o) : Items(f, limit, o)[e] = DeliveriesOf(e)
  BY DEF Items, Page
<1>3. ASSUME NEW e \in Matching(f)
      PROVE  Fits(f, e, DeliveriesOf(e))
  <2>1. Matches(e, f) /\ e \in Events
    BY DEF Matching, TablesInv, DatabaseTypeOK
  <2>2. f.destination # NotSet =>
          \E d \in DOMAIN DeliveriesOf(e) : Includes(d, f.destination)
    <3>1. f.destination # NotSet =>
            f.destination \in Destinations /\ Exists(row[<<e, f.destination>>])
      BY <1>1, <2>1 DEF Matches, Filters
    <3>2. f.destination # NotSet => f.destination \in DOMAIN DeliveriesOf(e)
      BY <3>1 DEF DeliveriesOf
    <3> QED BY <3>1, <3>2, IncludesAssumption
  <2>3. f.status # NotSet => OverallStatus(DeliveriesOf(e)) = f.status
    <3>1. f.status # NotSet => f.status \in OverallStatuses /\ StatusClause(e, f.status)
      BY <1>1, <2>1 DEF Matches, Filters
    <3> QED BY <2>1, <3>1, StatusClauseIsDerived DEF TablesInv
  <2>4. f.eventId # NotSet => Includes(e, f.eventId)
    BY <2>1, IncludesAssumption DEF Matches
  <2> QED BY <2>1, <2>2, <2>3, <2>4 DEF Fits, Matches
<1> QED BY <1>2, <1>3 DEF ItemsFit

LEMMA ListStepFits ==
  ASSUME TablesInv, ListInv, FitInv, NEW k \in ListKeys, ListStep(k)
  PROVE  FitInv'
<1> DEFINE fetch == listFetch[k]
           Read(items) == items = fetch.items \/ items = Items(k[2], PageSize, k[1])
<1>1. fetch # NoFetch /\ fetch \in ListFetches
  BY DEF ListStep, ReadCount, ReadPage, ReadList, ListInv
<1>2. k[2] \in ConsoleFilters
  BY DEF ListKeys
<1>3. PICK next : ListReads(k, next) /\ Read(next.items)
  <2>1. CASE ReadCount(k)
    <3> DEFINE next == [fetch EXCEPT !.total = Count(k[2])]
    <3>1. next.items = fetch.items
      BY <1>1 DEF ListFetches
    <3> QED BY <2>1, <3>1 DEF ReadCount
  <2>2. CASE ReadPage(k)
    <3> DEFINE next == [fetch EXCEPT !.items = Items(k[2], PageSize, k[1])]
    <3>1. next.items = Items(k[2], PageSize, k[1])
      BY <1>1 DEF ListFetches
    <3> QED BY <2>2, <3>1 DEF ReadPage
  <2>3. CASE ReadList(k)
    <3> DEFINE next == [fetch EXCEPT !.total = Count(k[2]),
                                     !.items = Items(k[2], PageSize, k[1])]
    <3>1. next.items = Items(k[2], PageSize, k[1])
      BY <1>1 DEF ListFetches
    <3> QED BY <2>3, <3>1 DEF ReadList
  <2> QED BY <2>1, <2>2, <2>3 DEF ListStep
<1>4. ItemsFit(k[2], next.items)
  BY <1>1, <1>2, <1>3, ItemsReadFit DEF FitInv
<1>5. \A other \in ListKeys :
        /\ lists'[other] \in {lists[other]} \cup {next}
        /\ listFetch'[other] \in {listFetch[other], NoFetch} \cup {next}
        /\ other # k => lists'[other] = lists[other] /\ listFetch'[other] = listFetch[other]
  BY <1>3 DEF ListReads, ListInv
<1> QED BY <1>4, <1>5 DEF FitInv

LEMMA FitKept ==
  ASSUME TablesInv, PageInv, ListInv, FitInv, [ConsoleNext]_consoleVars
  PROVE  FitInv'
<1>1. CASE \E k \in ListKeys : ListStep(k)
  BY <1>1, ListStepFits
<1>2. CASE lists' = lists /\ listFetch' = Torn(listFetch)
  BY <1>2, TornFetch DEF FitInv
<1>3. CASE /\ lists' = lists
           /\ listFetch' \in {listFetch, [listFetch EXCEPT ![CurrentKey] = Begun]}
  <2>1. Begun.items = NoAnswer
    BY DEF Begun
  <2> QED BY <1>3, <2>1 DEF FitInv, ItemsFit, ListInv
<1> QED BY <1>1, <1>2, <1>3, ListMoves

\* What the page hides of an answer it hides for the event's own timestamp, or
\* for a text that matches the filter as a pattern only.
THEOREM HidesByTimeOrWildcard == ConsoleSpec => []HiddenByTimeOrWildcard
<1>1. ConsoleInit => FitInv
  BY DEF ConsoleInit, FitInv
<1>2. ConsoleInv /\ FitInv /\ [ConsoleNext]_consoleVars => FitInv'
  BY FitKept DEF ConsoleInv
<1>3. ASSUME ConsoleInv, FitInv
      PROVE  HiddenByTimeOrWildcard
  <2> SUFFICES ASSUME NEW e \in Listed, e \notin Visible
               PROVE  \/ applied.from # NotSet /\ ~(Stamped[e] >= applied.from)
                      \/ applied.to # NotSet /\ ~(Stamped[e] <= applied.to)
                      \/ /\ applied.name # NotSet
                         /\ ILikeWithin(NameOf[e], applied.name)
                         /\ ~Includes(NameOf[e], applied.name)
                      \/ /\ applied.source # NotSet
                         /\ ILike(SourceOf[e], applied.source)
                         /\ ~Includes(SourceOf[e], applied.source)
    <3>1. applied \in Filters
      BY <1>3, FiltersAssumption DEF ConsoleInv, PageInv
    <3>2. /\ applied.from # NotSet => applied.from \in Int
          /\ applied.to # NotSet => applied.to \in Int
      BY <3>1, TimesAssumption DEF Filters
    <3>3. Listed \subseteq Events
      <4>1. ListShown \in ListAnswers \cup {NoAnswer}
        BY <1>3, KeysTyped DEF ConsoleInv, ListShown, ListInv
      <4>2. ListShown # NoAnswer => DOMAIN ListShown.items \subseteq Events
        BY <4>1 DEF ListAnswers, PageItems
      <4> QED BY <4>2 DEF Listed
    <3>4. \A e \in Listed : Stamped[e] \in Int
      BY <3>3, TimesAssumption, StampedAssumption
    <3> QED BY <3>2, <3>4 DEF HiddenByTimeOrWildcard
  <2>1. ListShown # NoAnswer /\ e \in DOMAIN ListShown.items
    BY DEF Listed
  <2>2. CurrentKey \in ListKeys /\ CurrentKey[2] = applied /\ ListShown = lists[CurrentKey]
    BY <1>3, KeysTyped DEF ConsoleInv, CurrentKey, ListKey, ListShown
  <2>3. ListShown.items # NoAnswer
    <3>1. ListShown.items \in PageItems
      BY <1>3, <2>1, <2>2 DEF ConsoleInv, ListInv, ListAnswers
    <3> QED BY <3>1, NoAnswerAssumption
  <2>4. Fits(applied, e, ListShown.items[e])
    BY <1>3, <2>1, <2>2, <2>3 DEF FitInv, ItemsFit
  <2> QED BY <2>4 DEF Fits, Visible
<1> QED BY <1>1, <1>2, <1>3, ConsoleInvariant, PTL DEF ConsoleSpec

-----------------------------------------------------------------------------
(* Pages and totals. *)

\* From page to page of any list the operator may ask for, on tables that do
\* not change, each event that matches is met exactly once.
THEOREM PagesCoverAll == ConsoleSpec => []PagesCoverMatches
<1>1. TablesInv => PagesCoverMatches
  <2> SUFFICES ASSUME TablesInv PROVE PagesCoverMatches
    OBVIOUS
  <2>1. IsFiniteSet(stored)
    BY EventsAssumption, FS_Subset DEF TablesInv, DatabaseTypeOK
  <2> QED BY <2>1, PageSizeAssumption, PagesPartition DEF PagesCoverMatches
<1> QED BY <1>1, TablesInit, TablesKept, PTL DEF ConsoleSpec

\* What a total says of the page at an offset.
TotalFits(total, items, o) ==
  Cardinality(DOMAIN items) = Cut(total, PageSize, o)

\* A fetch is half read at most; of one that no write has torn, the half that
\* was read is what the tables still hold.
FetchCurrent ==
  \A k \in ListKeys :
    LET fetch == listFetch[k]
    IN fetch # NoFetch =>
         /\ fetch.total = NoAnswer \/ fetch.items = NoAnswer
         /\ fetch.torn \/ fetch.total \in {NoAnswer, Count(k[2])}
         /\ fetch.torn \/ fetch.items \in {NoAnswer, Items(k[2], PageSize, k[1])}

TotalInv == TotalFitsPage /\ FetchCurrent

\* The two statements fit when no write comes between them.
LEMMA ReadsFit ==
  ASSUME TablesInv, NEW k \in ListKeys
  PROVE  TotalFits(Count(k[2]), Items(k[2], PageSize, k[1]), k[1])
<1> DEFINE f == k[2]
<1>1. k[1] \in Nat
  <2>1. PICK n \in 0 .. (Cardinality(Events) - 1) : k[1] = n * PageSize
    BY DEF ListKeys, Offsets
  <2>2. Cardinality(Events) \in Nat
    BY FS_CardinalityType, EventsAssumption
  <2>3. n \in Nat
    BY <2>2
  <2> QED BY <2>1, <2>3, Multiples
<1>2. Limit(PageSize) = PageSize /\ Offset(k[1]) = k[1] /\ PageSize \in Nat \ {0}
  BY <1>1, PageSizeAssumption DEF Limit, Offset
<1>3. IsFiniteSet(Matching(f))
  BY EventsAssumption, FS_Subset DEF Matching, TablesInv, DatabaseTypeOK
<1>4. DOMAIN Items(f, PageSize, k[1]) = Page(f, PageSize, k[1])
  BY <1>2 DEF Items
<1> QED BY <1>1, <1>2, <1>3, <1>4, PageHolds DEF TotalFits, Count

LEMMA TotalFitsMeans ==
  TotalFitsPage <=>
    \A k \in ListKeys :
      lists[k] # NoAnswer /\ ~lists[k].torn => TotalFits(lists[k].total, lists[k].items, k[1])
BY DEF TotalFitsPage, TotalFits, Cut

LEMMA ListStepTotals ==
  ASSUME TablesInv, ListInv, TotalInv, NEW k \in ListKeys, ListStep(k)
  PROVE  TotalInv'
<1> DEFINE fetch == listFetch[k]
           count == Count(k[2])
           items == Items(k[2], PageSize, k[1])
<1>1. fetch # NoFetch /\ fetch \in ListFetches
  BY DEF ListStep, ReadCount, ReadPage, ReadList, ListInv
<1>2. count # NoAnswer /\ items # NoAnswer
  BY QueriesTyped, NoAnswerAssumption
<1>3. /\ fetch.total = NoAnswer \/ fetch.items = NoAnswer
      /\ fetch.torn \/ fetch.total \in {NoAnswer, count}
      /\ fetch.torn \/ fetch.items \in {NoAnswer, items}
  BY <1>1 DEF TotalInv, FetchCurrent
<1> HIDE DEF count, items
<1>4. PICK next :
        /\ ListReads(k, next) /\ next.torn = fetch.torn
        /\ \/ next.total = count /\ next.items = fetch.items
           \/ next.total = fetch.total /\ next.items = items
           \/ next.total = count /\ next.items = items
  <2>1. CASE ReadCount(k)
    <3> DEFINE next == [fetch EXCEPT !.total = count]
    <3>1. next.total = count /\ next.items = fetch.items /\ next.torn = fetch.torn
      BY <1>1 DEF ListFetches
    <3> QED BY <2>1, <3>1 DEF ReadCount, count
  <2>2. CASE ReadPage(k)
    <3> DEFINE next == [fetch EXCEPT !.items = items]
    <3>1. next.total = fetch.total /\ next.items = items /\ next.torn = fetch.torn
      BY <1>1 DEF ListFetches
    <3> QED BY <2>2, <3>1 DEF ReadPage, items
  <2>3. CASE ReadList(k)
    <3> DEFINE next == [fetch EXCEPT !.total = count, !.items = items]
    <3>1. next.total = count /\ next.items = items /\ next.torn = fetch.torn
      BY <1>1 DEF ListFetches
    <3> QED BY <2>3, <3>1 DEF ReadList, count, items
  <2> QED BY <2>1, <2>2, <2>3 DEF ListStep
<1>5. UNCHANGED tableVars
  BY DEF ListStep, ReadCount, ReadPage, ReadList
<1>6. \A f : Count(f)' = Count(f) /\ \A l, o : Items(f, l, o)' = Items(f, l, o)
  BY <1>5, QueriesUnchanged
<1>7. CASE next.total # NoAnswer /\ next.items # NoAnswer
  <2>1. lists' = [lists EXCEPT ![k] = next] /\ listFetch' = [listFetch EXCEPT ![k] = NoFetch]
    BY <1>4, <1>7 DEF ListReads
  <2>2. ~next.torn => next.total = count /\ next.items = items
    BY <1>3, <1>4, <1>7
  <2>3. ~next.torn => TotalFits(next.total, next.items, k[1])
    BY <2>2, ReadsFit DEF count, items
  <2>4. TotalFitsPage'
    BY <2>1, <2>3, TotalFitsMeans DEF TotalFitsPage, TotalFits, Cut, ListInv, TotalInv
  <2>5. FetchCurrent'
    BY <1>6, <2>1 DEF FetchCurrent, ListInv, TotalInv
  <2> QED BY <2>4, <2>5 DEF TotalInv
<1>8. CASE ~(next.total # NoAnswer /\ next.items # NoAnswer)
  <2>1. lists' = lists /\ listFetch' = [listFetch EXCEPT ![k] = next]
    BY <1>4, <1>8 DEF ListReads
  <2>2. /\ next.torn \/ next.total \in {NoAnswer, count}
        /\ next.torn \/ next.items \in {NoAnswer, items}
    BY <1>3, <1>4
  <2>3. FetchCurrent'
    BY <1>6, <1>8, <2>1, <2>2 DEF FetchCurrent, ListInv, TotalInv, count, items
  <2> QED BY <2>1, <2>3 DEF TotalInv, TotalFitsPage
<1> QED BY <1>7, <1>8

LEMMA TotalKept ==
  ASSUME TablesInv, PageInv, ListInv, TotalInv, [ConsoleNext]_consoleVars
  PROVE  TotalInv'
<1>1. CASE \E k \in ListKeys : ListStep(k)
  BY <1>1, ListStepTotals
<1>2. CASE lists' = lists /\ listFetch' = Torn(listFetch)
  <2>1. TotalFitsPage'
    BY <1>2 DEF TotalInv, TotalFitsPage
  <2>2. FetchCurrent'
    BY <1>2, TornFetch DEF TotalInv, FetchCurrent
  <2> QED BY <2>1, <2>2 DEF TotalInv
<1>3. CASE /\ UNCHANGED <<tableVars, lists>>
           /\ listFetch' \in {listFetch, [listFetch EXCEPT ![CurrentKey] = Begun]}
  <2>1. Begun.total = NoAnswer /\ Begun.items = NoAnswer
    BY DEF Begun
  <2>2. \A f : Count(f)' = Count(f) /\ \A l, o : Items(f, l, o)' = Items(f, l, o)
    BY <1>3, QueriesUnchanged
  <2>3. FetchCurrent'
    BY <1>3, <2>1, <2>2 DEF TotalInv, FetchCurrent, ListInv
  <2> QED BY <1>3, <2>3 DEF TotalInv, TotalFitsPage
<1> QED BY <1>1, <1>2, <1>3, ListMoves

\* The total of an answer fits its page, unless a write fell between the two
\* statements, however fetches are cancelled, begun again and overtaken.
THEOREM TotalsFit == ConsoleSpec => []TotalFitsPage
<1>1. ConsoleInit => TotalInv
  BY DEF ConsoleInit, TotalInv, TotalFitsPage, FetchCurrent
<1>2. ConsoleInv /\ TotalInv /\ [ConsoleNext]_consoleVars => TotalInv'
  BY TotalKept DEF ConsoleInv
<1>3. TotalInv => TotalFitsPage
  BY DEF TotalInv
<1> QED BY <1>1, <1>2, <1>3, ConsoleInvariant, PTL DEF ConsoleSpec
=============================================================================
