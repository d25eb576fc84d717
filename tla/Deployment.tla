----------------------------- MODULE Deployment -----------------------------
(***************************************************************************)
(* How the processes get their configuration.  scripts/env-sync.mjs checks *)
(* the one shared file, env/.env.shared, and writes four files from it,    *)
(* one after the other; it may be stopped between two of them.  Each       *)
(* process reads its own file when it starts, and refuses to start on some *)
(* values: the API and the worker of a developer's machine those of their  *)
(* workspaces, the containers of a server that of deploy/app.              *)
(***************************************************************************)
EXTENDS Sequences, Integers

CONSTANTS
  Shareds,        \* contents of env/.env.shared
  ReadBack(_,_),  \* what the reader of a place makes of a value in a file
  Trim(_),
  Lower(_),
  Number(_),      \* the integer a text is, or NaN
  ParseInt(_),    \* the integer a text begins with, or NaN
  UrlDb(_),       \* the database a Redis URL names in its path, or NaN
  NaN,
  Unset,          \* a variable that is not in the environment
  NoFile,
  NoEnv,          \* the process is not running
  MaxEdits        \* bound: how often env/.env.shared is edited

Places == {"workspace", "container"}

\* The variables a check, a start or the way of a job depends on.  REDIS_HOST
\* is none: it counts only where REDIS_URL is not given, and then no worker
\* starts.
EnvKeys ==
  {"PORT", "DATABASE_URL", "REDIS_URL", "REDIS_PORT", "REDIS_DB",
   "ROUTER_QUEUE_NAME", "ROUTER_WORKER_NAME", "ROUTER_WORKER_CONCURRENCY",
   "NODE_ENV", "METRICS_ENABLED", "TRACKING_API_AUTH_MODE",
   "TRACKING_API_SECRET", "TRACKING_SIGNATURE_SKEW_SECONDS",
   "TRACKING_RATE_LIMIT_ENABLED", "TRACKING_RATE_LIMIT_WINDOW_MS",
   "TRACKING_RATE_LIMIT_MAX_REQUESTS", "ADMIN_API_TOKEN",
   "TRACKING_API_IMAGE", "ROUTER_WORKER_IMAGE"}

\* The values of a shared file as parseEnv has them, a missing line for an
\* empty value.  They may still have their quotes, which a reader takes off.
\* No value has a quote that is not closed, so that a reader takes each line
\* for itself, and a REDIS_URL that is given is a URL.
ASSUME SharedsAssumption ==
  /\ Shareds \subseteq [EnvKeys -> STRING]
  /\ \A s \in Shareds, k \in EnvKeys, place \in Places :
       ReadBack(place, s[k]) \in STRING
ASSUME UnsetAssumption == Unset \notin STRING /\ Unset # "production"
ASSUME NumberAssumption ==
  /\ NaN \notin Int
  /\ Number("3000") # NaN /\ Number("3000") > 0

\* Faulty variant: the limiter's switch is not written for a server.
AppFileKeysUnlimited ==
  EnvKeys \ {"PORT", "NODE_ENV", "REDIS_PORT", "REDIS_DB",
             "TRACKING_RATE_LIMIT_ENABLED"}

\* What the containers of a server read.
AppFileKeys == EnvKeys \ {"PORT", "NODE_ENV", "REDIS_PORT", "REDIS_DB"}

Targets == <<"tracking-api", "router-worker", "deploy-app", "deploy-infra">>

TargetKeys ==
  [t \in {"tracking-api", "router-worker", "deploy-app", "deploy-infra"} |->
     CASE t = "tracking-api"  ->
            EnvKeys \ {"ADMIN_API_TOKEN", "TRACKING_API_IMAGE",
                       "ROUTER_WORKER_IMAGE"}
       [] t = "router-worker" ->
            {"REDIS_URL", "DATABASE_URL", "ROUTER_QUEUE_NAME",
             "ROUTER_WORKER_NAME", "ROUTER_WORKER_CONCURRENCY"}
       [] t = "deploy-app"    -> AppFileKeys
       [] t = "deploy-infra"  -> {"REDIS_PORT"}]

ASSUME NoFileAssumption ==
  \A t \in DOMAIN TargetKeys : NoFile \notin [TargetKeys[t] -> STRING]

Required ==
  {"PORT", "DATABASE_URL", "TRACKING_API_AUTH_MODE", "REDIS_URL",
   "ROUTER_QUEUE_NAME", "ROUTER_WORKER_NAME", "ROUTER_WORKER_CONCURRENCY",
   "TRACKING_API_IMAGE", "ROUTER_WORKER_IMAGE", "REDIS_PORT"}

VARIABLES
  shared,      \* env/.env.shared
  files,       \* [target -> its .env file]
  sync,        \* the run of env-sync under way: what it loaded, and the
               \* number of files it has written; 4 when it is done
  worker,      \* the environment the router worker has started in
  edits

deploymentVars == <<shared, files, sync, worker, edits>>

\* The two strings are those docker-compose sets.
Envs == [EnvKeys -> STRING \cup {Unset, "production", "3000"}]

ASSUME NoEnvAssumption == NoEnv \notin Envs
ASSUME EditsAssumption == MaxEdits \in Nat

NoSync == [loaded |-> NoEnv, written |-> 0]

DeploymentTypeOK ==
  /\ shared \in Shareds
  /\ \A i \in 1..4 :
       \/ files[Targets[i]] = NoFile
       \/ \E s \in Shareds :
            files[Targets[i]] = [k \in TargetKeys[Targets[i]] |-> s[k]]
  /\ \/ sync = NoSync
     \/ sync.loaded \in Shareds /\ sync.written \in 0..4
  /\ worker = NoEnv \/ DOMAIN worker = EnvKeys
  /\ edits \in 0..MaxEdits

DeploymentInit ==
  /\ shared \in Shareds
  /\ files = [t \in DOMAIN TargetKeys |-> NoFile]
  /\ sync = NoSync
  /\ worker = NoEnv
  /\ edits = 0

-----------------------------------------------------------------------------
(* env-sync. *)

EditShared ==
  /\ edits < MaxEdits
  /\ edits' = edits + 1
  /\ shared' \in Shareds \ {shared}
  /\ UNCHANGED <<files, sync, worker>>

Checked(s) == \A k \in Required : Trim(s[k]) # ""

Writing == sync # NoSync /\ sync.written < 4

\* The shared file is read once; a required value that is missing ends the
\* run before it writes anything.
BeginSync ==
  /\ ~Writing
  /\ Checked(shared)
  /\ sync' = [loaded |-> shared, written |-> 0]
  /\ UNCHANGED <<shared, files, worker, edits>>

\* Faulty variant: the shared file is read again for every file.
WriteTargetRereading ==
  /\ Writing
  /\ LET target == Targets[sync.written + 1]
     IN files' = [files EXCEPT
                    ![target] = [k \in TargetKeys[target] |-> shared[k]]]
  /\ sync' = [sync EXCEPT !.written = @ + 1]
  /\ UNCHANGED <<shared, worker, edits>>

WriteTarget ==
  /\ Writing
  /\ LET target == Targets[sync.written + 1]
     IN files' = [files EXCEPT
                    ![target] = [k \in TargetKeys[target] |-> sync.loaded[k]]]
  /\ sync' = [sync EXCEPT !.written = @ + 1]
  /\ UNCHANGED <<shared, worker, edits>>

\* The run is stopped between two files, or a write fails.
SyncStops ==
  /\ Writing
  /\ sync' = NoSync
  /\ UNCHANGED <<shared, files, worker, edits>>

Synced == sync # NoSync /\ sync.written = 4

-----------------------------------------------------------------------------
(* The environment of a process, and what its configuration makes of it. *)

\* dotenv reads the file of a workspace, docker-compose that of a container;
\* a process gets nothing from elsewhere.
EnvOf(place, file) ==
  [k \in EnvKeys |-> IF file # NoFile /\ k \in DOMAIN file
                       THEN ReadBack(place, file[k])
                       ELSE Unset]

\* docker-compose sets two variables over the file; it does not start a
\* service whose env_file is missing.  (Of NODE_ENV a worker reads nothing.)
InContainer(env) ==
  [env EXCEPT !["NODE_ENV"] = "production", !["PORT"] = "3000"]

ApiEnv(place) ==
  IF place = "container"
    THEN InContainer(EnvOf("container", files["deploy-app"]))
    ELSE EnvOf("workspace", files["tracking-api"])

WorkerEnv(place) ==
  IF place = "container" THEN EnvOf("container", files["deploy-app"])
                         ELSE EnvOf("workspace", files["router-worker"])

\* The code tests some values for being empty, some for being blank.
Present(env, key) == env[key] \notin {Unset, ""}

Given(env, key) == env[key] # Unset /\ Trim(env[key]) # ""

\* parseOptionalPositiveInteger and parseOptionalNonNegativeInteger of the API
\* do not throw.
Positive(env, key) ==
  Present(env, key) => ParseInt(env[key]) # NaN /\ ParseInt(env[key]) > 0

NonNegative(env, key) ==
  Present(env, key) => ParseInt(env[key]) # NaN /\ ParseInt(env[key]) >= 0

TrueWords == {"true", "1", "yes"}

FalseWords == {"false", "0", "no"}

Word(env, key) == Lower(Trim(env[key]))

\* parseBoolean does not throw.
Boolean(env, key) ==
  Present(env, key) => Word(env, key) \in TrueWords \cup FalseWords

AuthMode(env) ==
  IF env["TRACKING_API_AUTH_MODE"] = Unset
    THEN "off" ELSE Word(env, "TRACKING_API_AUTH_MODE")

PortOf(env) == Number(IF env["PORT"] = Unset THEN "3000" ELSE env["PORT"])

NodeEnv(env) == IF env["NODE_ENV"] = Unset THEN "development"
                                           ELSE env["NODE_ENV"]

\* Faulty variant: whatever is not production is development.
DevLikeUnlessProduction(env) == NodeEnv(env) # "production"

DevLike(env) == NodeEnv(env) \in {"development", "test"}

\* Where getConfig of the API does not throw.
ApiStarts(env) ==
  /\ PortOf(env) # NaN /\ PortOf(env) > 0
  /\ Present(env, "DATABASE_URL")
  /\ AuthMode(env) \in {"off", "shared-secret", "signing"}
  /\ AuthMode(env) # "off" => Given(env, "TRACKING_API_SECRET")
  /\ DevLike(env) \/ Given(env, "ADMIN_API_TOKEN")
  /\ Boolean(env, "METRICS_ENABLED")
  /\ Positive(env, "TRACKING_SIGNATURE_SKEW_SECONDS")
  /\ Boolean(env, "TRACKING_RATE_LIMIT_ENABLED")
  /\ Positive(env, "TRACKING_RATE_LIMIT_WINDOW_MS")
  /\ Positive(env, "TRACKING_RATE_LIMIT_MAX_REQUESTS")
  /\ Positive(env, "REDIS_PORT")
  /\ NonNegative(env, "REDIS_DB")

ApiConfig(env) ==
  [authMode |-> AuthMode(env),
   token    |-> Given(env, "ADMIN_API_TOKEN"),
   devLike  |-> DevLike(env),
   limited  |-> /\ Present(env, "TRACKING_RATE_LIMIT_ENABLED")
                /\ Word(env, "TRACKING_RATE_LIMIT_ENABLED") \in TrueWords]

\* parsePositiveInteger of the worker does not throw.
PositiveOrBlank(env, key) ==
  Given(env, key) => ParseInt(env[key]) # NaN /\ ParseInt(env[key]) > 0

\* Where getRouterWorkerConfig does not throw.
WorkerStarts(env) ==
  /\ Given(env, "REDIS_URL")
  /\ PositiveOrBlank(env, "REDIS_PORT")
  /\ PositiveOrBlank(env, "REDIS_DB")
  /\ PositiveOrBlank(env, "ROUTER_WORKER_CONCURRENCY")

Queue(env, db) ==
  [redis |-> Trim(env["REDIS_URL"]),
   db    |-> db,
   name  |-> IF Given(env, "ROUTER_QUEUE_NAME")
               THEN Trim(env["ROUTER_QUEUE_NAME"]) ELSE "router-deliveries"]

\* The queue the API adds to, where REDIS_URL is given: a URL without a
\* database leaves that to REDIS_DB.
ApiQueue(env) ==
  LET inUrl == UrlDb(Trim(env["REDIS_URL"]))
  IN Queue(env, CASE inUrl # NaN                                -> inUrl
                  [] inUrl = NaN /\ Present(env, "REDIS_DB")    ->
                       ParseInt(env["REDIS_DB"])
                  [] inUrl = NaN /\ ~Present(env, "REDIS_DB")   -> 0)

\* The queue the worker takes from: REDIS_DB is passed over beside a URL.
WorkerQueue(env) ==
  LET inUrl == UrlDb(Trim(env["REDIS_URL"]))
  IN Queue(env, IF inUrl = NaN THEN 0 ELSE inUrl)

StartWorker(place) ==
  /\ worker = NoEnv
  /\ place = "container" => files["deploy-app"] # NoFile
  /\ WorkerStarts(WorkerEnv(place))
  /\ worker' = WorkerEnv(place)
  /\ UNCHANGED <<shared, files, sync, edits>>

StopWorker ==
  /\ worker # NoEnv
  /\ worker' = NoEnv
  /\ UNCHANGED <<shared, files, sync, edits>>

DeploymentStep ==
  \/ EditShared \/ BeginSync \/ WriteTarget \/ SyncStops
  \/ \E place \in Places : StartWorker(place)
  \/ StopWorker
=============================================================================
