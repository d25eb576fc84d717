---------------------------- MODULE DeliveryRows ----------------------------
(***************************************************************************)
(* One row of the table event_deliveries (infra/sql/002), keyed by         *)
(* (event_id, destination), and the two statements that write it: the      *)
(* worker's upsert and the admin replay's update.  Error texts, response   *)
(* summaries and next_attempt_at are left out: no decision of the program  *)
(* reads them.  deliveredAt stands for "delivered_at is not null".         *)
(***************************************************************************)
EXTENDS Naturals

CONSTANTS
  Events,        \* event_ids
  Destinations   \* 'meta', 'google', 'tiktok'

\* The key of a row: unique (event_id, destination).
Deliveries == Events \X Destinations

\* The statuses the code writes.  The column's default 'pending' is never
\* written: every insert names its status.
Statuses == {"retrying", "failed", "delivered"}

\* "none" is the status of a row that does not exist.
Rows == [status : Statuses \cup {"none"}, attempts : Nat, deliveredAt : BOOLEAN]

NoRow == [status |-> "none", attempts |-> 0, deliveredAt |-> FALSE]

Exists(row) == row.status # "none"

\* A DeliveryStateUpdate: what the worker asks the writer to store.
Updates == [status : Statuses, attempts : Nat, deliveredAt : BOOLEAN]

\* Faulty variant: a status the table does not know.
DeliveredUpdateUnknown(attempt) ==
  [status |-> "success", attempts |-> attempt, deliveredAt |-> TRUE]

DeliveredUpdate(attempt) ==
  [status |-> "delivered", attempts |-> attempt, deliveredAt |-> TRUE]

\* Faulty variant: every column is overwritten, delivered_at too.
UpsertedOverwriting(row, update) == update

\* insert ... on conflict (event_id, destination) do update: every column is
\* overwritten, except that delivered_at survives an update without one.
Upserted(row, update) ==
  [update EXCEPT !.deliveredAt = @ \/ row.deliveredAt]

\* Faulty variant: the replay falls back on the column's default.
ReplayedPending(row) == [row EXCEPT !.status = "pending", !.deliveredAt = FALSE]

\* update event_deliveries set status = 'retrying', delivered_at = null:
\* attempt_count keeps the value of the earlier job.
Replayed(row) == [row EXCEPT !.status = "retrying", !.deliveredAt = FALSE]

\* Faulty variant: an upsert in place of the update.
ReplaySelectsMissing(row, named) ==
  IF named THEN row.status # "retrying" ELSE row.status = "failed"

\* The where clause of the replay: rows the operator named unless they are
\* already 'retrying', and without names the failed ones.
ReplaySelects(row, named) ==
  /\ Exists(row)
  /\ IF named THEN row.status # "retrying" ELSE row.status = "failed"
=============================================================================
