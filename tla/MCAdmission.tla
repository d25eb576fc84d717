---------------------------- MODULE MCAdmission -----------------------------
EXTENDS ApiProcess, TLC

\* Three windows of the limiter, the timestamps of either unit apart.
MCTimes == 20..25

\* Both readers take quotes off; dotenv ends a value without quotes at a "#".
MCReadBack(place, value) ==
  CASE value = "'c'" -> "c"
    [] value = "' '" -> " "
    [] value = "q#1" -> IF place = "workspace" THEN "q" ELSE "q#1"
    [] OTHER         -> value

MCTrim(text) == IF text = " " THEN "" ELSE text

MCLower(text) ==
  CASE text = "TRUE"    -> "true"
    [] text = "Signing" -> "signing"
    [] OTHER            -> text

Numbers == ("0" :> 0) @@ ("1" :> 1) @@ ("5" :> 5) @@ ("3000" :> 3000)

MCNumber(text) ==
  CASE text \in {"", " "}      -> 0
    [] text \in DOMAIN Numbers -> Numbers[text]
    [] OTHER                   -> NaN

MCParseInt(text) ==
  CASE text = "5s"             -> 5
    [] text \in DOMAIN Numbers -> Numbers[text]
    [] OTHER                   -> NaN

MCUrlDb(url) == IF url = "redis://r/1" THEN 1 ELSE NaN

\* A developer's file, which names the database beside the URL.
Workspace ==
  [k \in EnvKeys |->
     CASE k = "NODE_ENV"                    -> "development"
       [] k = "PORT"                        -> "3000"
       [] k = "TRACKING_API_AUTH_MODE"      -> "off"
       [] k \in {"METRICS_ENABLED", "TRACKING_RATE_LIMIT_ENABLED"} -> "TRUE"
       [] k \in {"TRACKING_API_SECRET", "ADMIN_API_TOKEN"} -> ""
       [] k = "REDIS_URL"                   -> "redis://r"
       [] k = "REDIS_DB"                    -> "1"
       [] k \in {"REDIS_PORT", "ROUTER_WORKER_CONCURRENCY",
                 "TRACKING_SIGNATURE_SKEW_SECONDS",
                 "TRACKING_RATE_LIMIT_WINDOW_MS"} -> "5"
       [] k = "TRACKING_RATE_LIMIT_MAX_REQUESTS"  -> "5s"
       [] OTHER                             -> "a"]

Server ==
  [Workspace EXCEPT !["NODE_ENV"] = "production",
                    !["TRACKING_API_AUTH_MODE"] = "Signing",
                    !["TRACKING_API_SECRET"] = "'c'",
                    !["ADMIN_API_TOKEN"] = "b",
                    !["REDIS_URL"] = "redis://r/1",
                    !["REDIS_DB"] = "0"]

\* Both: a token, and a development environment.
Testing ==
  [Workspace EXCEPT !["NODE_ENV"] = "test",
                    !["TRACKING_API_AUTH_MODE"] = "shared-secret",
                    !["TRACKING_API_SECRET"] = "c",
                    !["TRACKING_RATE_LIMIT_ENABLED"] = "",
                    !["ADMIN_API_TOKEN"] = "c",
                    !["REDIS_DB"] = "0"]

\* The two readers make different names of its queue.
Hashed == [Testing EXCEPT !["ROUTER_QUEUE_NAME"] = "q#1"]

\* The check passes, and the API does not start anywhere.
Tokenless == [Server EXCEPT !["ADMIN_API_TOKEN"] = "' '", !["NODE_ENV"] = ""]

\* The check passes, and the worker does not start anywhere.
Unparsable == [Testing EXCEPT !["ROUTER_WORKER_CONCURRENCY"] = "a",
                              !["METRICS_ENABLED"] = "0"]

\* The check does not pass.
Incomplete == [Server EXCEPT !["REDIS_URL"] = ""]

MCShareds ==
  {Workspace, Server, Testing, Hashed, Tokenless, Unparsable, Incomplete}

MCConfigs == ConfigRecords
=============================================================================
