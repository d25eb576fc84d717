--------------------------- MODULE EventDatabase ----------------------------
(***************************************************************************)
(* The PostgreSQL tables the program shares between its processes.         *)
(*                                                                         *)
(* stored  the event_ids of the table events (unique (event_id));          *)
(* row     the table event_deliveries, one row or none per (event_id,      *)
(*         destination).                                                   *)
(*                                                                         *)
(* Each operator is one SQL statement, hence one atomic step.              *)
(***************************************************************************)
EXTENDS DeliveryRows

VARIABLES stored, row

dbVars == <<stored, row>>

DatabaseTypeOK ==
  /\ stored \in SUBSET Events
  /\ row \in [Deliveries -> Rows]

DatabaseInit ==
  /\ stored = {}
  /\ row = [k \in Deliveries |-> NoRow]

\* insert into events ... on conflict (event_id) do nothing; the caller
\* learns through "inserted" whether rowCount was 1.
InsertIfNotExists(e, inserted) ==
  /\ inserted = (e \notin stored)
  /\ stored' = stored \cup {e}
  /\ row' = row

\* DeliveryStateWriter.write.
WriteDeliveryState(k, update) ==
  /\ row' = [row EXCEPT ![k] = Upserted(row[k], update)]
  /\ stored' = stored

\* The replay's update of an event's rows: named is the set of destinations
\* the operator named, empty for none; targets is what it returns.
ReplayTargets(e, named) ==
  {d \in IF named = {} THEN Destinations ELSE named :
     ReplaySelects(row[<<e, d>>], named # {})}

ReplayEventDeliveries(e, targets) ==
  /\ row' = [k \in Deliveries |->
               IF k[1] = e /\ k[2] \in targets THEN Replayed(row[k]) ELSE row[k]]
  /\ stored' = stored

\* PostgresPrivacyRepository.deleteByUserId, one statement: the events of the
\* user and their delivery rows.
DeleteByUserId(events) ==
  /\ stored' = stored \ events
  /\ row' = [k \in Deliveries |-> IF k[1] \in events \cap stored THEN NoRow
                                                            ELSE row[k]]
=============================================================================
