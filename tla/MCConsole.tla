----------------------------- MODULE MCConsole ------------------------------
EXTENDS Console, TLC

MCTimes == {1, 2}

\* The younger event has the older timestamp.
MCStamped == (1 :> 2) @@ (2 :> 1)

\* As a pattern the first name matches the second, as a text it does not.
MCTexts == {"sign-up", "sign_up", "google_ads", "Google_Ads"}
MCNameOf == (1 :> "sign_up") @@ (2 :> "sign-up")
MCSourceOf == (1 :> "google_ads") @@ (2 :> "Google_Ads")

MCIncludes(text, filter) ==
  text = filter \/ <<text, filter>> = <<"Google_Ads", "google_ads">>

MCILike(text, pattern) ==
  MCIncludes(text, pattern) \/ <<text, pattern>> = <<"sign-up", "sign_up">>

MCEverything ==
  [name |-> NotSet, source |-> NotSet, eventId |-> NotSet, destination |-> NotSet, status |-> NotSet, from |-> NotSet,
   to |-> NotSet, sortBy |-> "created_at", ascending |-> FALSE]

MCConsoleFilters ==
  {MCEverything,
   [MCEverything EXCEPT !.status = "failed", !.from = 2,
                        !.source = "google_ads", !.sortBy = "event_timestamp"],
   [MCEverything EXCEPT !.name = "sign_up"]}

RowIn(status) ==
  [status |-> status, attempts |-> 1, deliveredAt |-> status = "delivered"]

\* Nothing yet; and two events of one moment, both with a failed delivery.
MCDatabases ==
  {[stored |-> {}, row |-> [k \in Deliveries |-> NoRow],
    created |-> [e \in Events |-> 1]],
   [stored |-> Events,
    row |-> [k \in Deliveries |->
               CASE k[2] = "google"    -> RowIn("failed")
                 [] k = <<1, "meta">>  -> RowIn("delivered")
                 [] OTHER              -> NoRow],
    created |-> [e \in Events |-> 2]]}
=============================================================================
