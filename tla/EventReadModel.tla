--------------------------- MODULE EventReadModel ---------------------------
(***************************************************************************)
(* What GET /admin/events and GET /admin/events/:event_id read of the      *)
(* tables.  Each operator below is one SQL statement, or what the          *)
(* repository makes of its rows; the statements of one answer run one by   *)
(* one, so that a write may fall between them (see Console).               *)
(*                                                                         *)
(* The API takes an event_id and a destination as they are, an event_name  *)
(* and a source as a pattern, in which "%" and "_" stand for any text and  *)
(* any character.  Of the sort fields there are the two timestamps;        *)
(* event_name sorts like event_timestamp.                                  *)
(***************************************************************************)
EXTENDS EventDatabase, Integers, FiniteSets

CONSTANTS
  Times,       \* readings of a clock
  NotSet,         \* a filter that is not set
  Stamped,     \* [Events -> Times], event_timestamp: what the client said
  Texts,
  NameOf,      \* [Events -> Texts], event_name
  SourceOf,    \* [Events -> Texts], source, a missing one as the empty text
  ILike(_,_),        \* the text matches the pattern, whatever the case
  ILikeWithin(_,_)   \* a part of the text does: the pattern between two "%"

ASSUME EventIdsAssumption == Events \subseteq Int
ASSUME TimesAssumption == Times \subseteq Int
ASSUME StampedAssumption == Stamped \in [Events -> Times]
ASSUME TextsAssumption ==
  NameOf \in [Events -> Texts] /\ SourceOf \in [Events -> Texts]

VARIABLE created   \* [Events -> Times], created_at of the stored events

OverallStatuses == {"queued", "success", "failed"}

ASSUME NotSetAssumption == NotSet \notin OverallStatuses

Filters ==
  [name        : Texts \cup {NotSet},
   source      : Texts \cup {NotSet},
   eventId     : Events \cup {NotSet},
   destination : Destinations \cup {NotSet},
   status      : OverallStatuses \cup {NotSet},
   from        : Times \cup {NotSet},
   to          : Times \cup {NotSet},
   sortBy      : {"created_at", "event_timestamp"},
   ascending   : BOOLEAN]

-----------------------------------------------------------------------------
(* The rows of an event, and its status derived from them. *)

DeliveryTables == UNION {[D -> Statuses] : D \in SUBSET Destinations}

\* [destination -> status], of the rows there are.
DeliveriesOf(e) ==
  [d \in {d \in Destinations : Exists(row[<<e, d>>])} |-> row[<<e, d>>].status]

\* Faulty variant: one delivered row is enough.
OverallStatusOfAny(deliveries) ==
  LET statuses == {deliveries[d] : d \in DOMAIN deliveries}
  IN CASE "failed" \in statuses    -> "failed"
       [] "failed" \notin statuses /\ "delivered" \in statuses -> "success"
       [] OTHER                    -> "queued"

\* deriveOverallStatus, for the answer.
OverallStatus(deliveries) ==
  LET statuses == {deliveries[d] : d \in DOMAIN deliveries}
  IN CASE "failed" \in statuses       -> "failed"
       [] statuses = {"delivered"}    -> "success"
       [] OTHER                       -> "queued"

\* The same, as a clause of the list's where.
HasRow(e) == \E d \in Destinations : Exists(row[<<e, d>>])

HasRowOf(e, status) == \E d \in Destinations : row[<<e, d>>].status = status

HasRowNotDelivered(e) ==
  \E d \in Destinations :
    Exists(row[<<e, d>>]) /\ row[<<e, d>>].status # "delivered"

StatusClause(e, status) ==
  CASE status = NotSet       -> TRUE
    [] status = "failed"  -> HasRowOf(e, "failed")
    [] status = "success" -> HasRow(e) /\ ~HasRowNotDelivered(e)
    [] status = "queued"  ->
         ~HasRow(e) \/ (~HasRowOf(e, "failed") /\ HasRowNotDelivered(e))

-----------------------------------------------------------------------------
(* The list. *)

Matches(e, f) ==
  /\ f.name # NotSet => ILikeWithin(NameOf[e], f.name)
  /\ f.source # NotSet => ILike(SourceOf[e], f.source)
  /\ f.eventId # NotSet => e = f.eventId
  /\ f.destination # NotSet => Exists(row[<<e, f.destination>>])
  /\ StatusClause(e, f.status)
  /\ f.from # NotSet => created[e] >= f.from
  /\ f.to # NotSet => created[e] <= f.to

Matching(f) == {e \in stored : Matches(e, f)}

\* Faulty variant: without event_id as the last column.
BeforeByTime(e, g, f) ==
  LET Earlier(s, t) == IF f.ascending THEN s < t ELSE s > t
  IN IF f.sortBy = "created_at"
       THEN Earlier(created[e], created[g])
       ELSE \/ Earlier(Stamped[e], Stamped[g])
            \/ Stamped[e] = Stamped[g] /\ created[e] > created[g]

\* order by: e comes before g.
Before(e, g, f) ==
  LET Earlier(s, t) == IF f.ascending THEN s < t ELSE s > t
  IN IF f.sortBy = "created_at"
       THEN \/ Earlier(created[e], created[g])
            \/ created[e] = created[g] /\ e > g
       ELSE \/ Earlier(Stamped[e], Stamped[g])
            \/ /\ Stamped[e] = Stamped[g]
               /\ created[e] > created[g] \/ (created[e] = created[g] /\ e > g)

\* limit and offset.
Page(f, limit, offset) ==
  {e \in Matching(f) :
     Cardinality({g \in Matching(f) : Before(g, e, f)})
       \in offset .. (offset + limit - 1)}

\* What the route makes of the two numbers.
Limit(n) == IF n < 1 THEN 1 ELSE IF n > 100 THEN 100 ELSE n

Offset(n) == IF n < 0 THEN 0 ELSE n

\* Faulty variant: the filters of the page are left out.
CountOfAll(f) == Cardinality(stored)

\* The first query: select count(*).
Count(f) == Cardinality(Matching(f))

\* The second: the page with the rows of its events, aggregated in the same
\* statement.
Items(f, limit, offset) ==
  [e \in Page(f, Limit(limit), Offset(offset)) |-> DeliveriesOf(e)]

-----------------------------------------------------------------------------
\* The filter on the overall status selects exactly the events whose answer
\* carries that status: what the console shows under "failed" are the events
\* that deriveOverallStatus calls failed.
FilterMeansStatus ==
  \A e \in stored, status \in OverallStatuses :
    StatusClause(e, status) <=> OverallStatus(DeliveriesOf(e)) = status

\* On tables that do not change the pages of a list are of the size asked for,
\* and each event that matches is on exactly one of them: none is skipped or
\* shown twice on the way from page to page, whatever timestamps are equal.
PagesCover(filters, limit) ==
  \A f \in filters :
    LET pages == [n \in 0..Cardinality(stored) |-> Page(f, limit, n * limit)]
    IN /\ \A n \in DOMAIN pages : Cardinality(pages[n]) <= limit
       /\ \A e \in Matching(f) : \E n \in DOMAIN pages :
            /\ e \in pages[n]
            /\ \A other \in DOMAIN pages \ {n} : e \notin pages[other]
=============================================================================
