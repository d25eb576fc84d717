----------------------------- MODULE ApiProcess -----------------------------
(***************************************************************************)
(* The tracking API as a process: started in one of two places with the    *)
(* environment env-sync has written for it (module Deployment), it answers *)
(* calls by the configuration it has read (module Admission) until it      *)
(* stops.                                                                  *)
(***************************************************************************)
EXTENDS Deployment, Admission

\* Nothing rules out a configuration that getConfig may return.
ASSUME AllConfigsAssumption == ConfigRecords \subseteq Configs

VARIABLE api   \* the environment the API has started in

processVars == <<deploymentVars, admissionVars, api>>

\* Bound: the clock starts at the first of its readings.
AtFirst == \A t \in Times : clock <= t

ProcessInit == DeploymentInit /\ AdmissionInit /\ AtFirst /\ api = NoEnv

\* buildApp and listen: without a configuration the process exits at once.
StartApi(place) ==
  LET env == ApiEnv(place)
  IN /\ place = "container" => files["deploy-app"] # NoFile
     /\ ApiStarts(env)
     /\ api' = env
     /\ StartServer(ApiConfig(env))
     /\ UNCHANGED deploymentVars

StopApi == StopServer /\ api' = NoEnv /\ UNCHANGED deploymentVars

\* Bound: a call depends on nothing but the configuration and the clock, and
\* no file and no other process depends on a call.  So calls are made of the
\* first deployment only, which may have any configuration, and the files
\* change, while the API runs or not, as long as no call has been made.
CallsExplored == edits = 0 /\ Synced /\ worker = NoEnv

DeploymentExplored == AtFirst /\ setbacks = 0 /\ answer = "none"

Serve ==
  /\ CallsExplored
  /\ Running
  /\ Call \/ Tick \/ SetBack
  /\ UNCHANGED <<deploymentVars, api>>

Deploy ==
  /\ DeploymentExplored
  /\ DeploymentStep
  /\ UNCHANGED <<admissionVars, api>>

ProcessNext ==
  \/ \E place \in Places : StartApi(place)
  \/ StopApi
  \/ Serve
  \/ Deploy

ProcessSpec == ProcessInit /\ [][ProcessNext]_processVars

-----------------------------------------------------------------------------
ProcessTypeOK ==
  /\ DeploymentTypeOK
  /\ AdmissionTypeOK
  /\ api = NoEnv <=> config = NoConfig

\* The reader of each place makes the same of a line of the shared file.
ReadAlike(key) ==
  ReadBack("workspace", sync.loaded[key]) = ReadBack("container", sync.loaded[key])

\* A REDIS_DB other than 0 stands beside a REDIS_URL that names no database.
DbBesideUrl(env) ==
  /\ UrlDb(Trim(env["REDIS_URL"])) = NaN
  /\ Present(env, "REDIS_DB")
  /\ ParseInt(env["REDIS_DB"]) # 0

\* An API and a worker that have read files of one finished sync use the same
\* database of the same Redis and the same queue in it, so that a job the API
\* adds is one the worker takes, wherever each of them runs: unless the API
\* has a REDIS_DB beside its REDIS_URL, which it honours and the worker does
\* not.  Processes of different places must read the two lines alike.  (After
\* a sync that stopped half-way they may differ.)
SyncedProcessesShareQueue ==
  \A here, there \in Places :
    /\ Synced
    /\ api # NoEnv /\ api = ApiEnv(here)
    /\ worker # NoEnv /\ worker = WorkerEnv(there)
    /\ here # there => ReadAlike("REDIS_URL") /\ ReadAlike("ROUTER_QUEUE_NAME")
    => (ApiQueue(api) = WorkerQueue(worker) <=> ~DbBesideUrl(api))

\* A shared file that was developed with can be deployed, and gives the same
\* service: after a finished sync the worker starts in a container if and only
\* if it starts in its workspace, and where the API starts in its workspace,
\* what it needs to start in a container is a token for the admin routes,
\* which its workspace has no line for, and calls are authenticated and
\* limited in the one as in the other.  (For files both readers read alike.)
DeployedAsDeveloped ==
  Synced /\ (\A key \in EnvKeys : ReadAlike(key)) =>
    /\ WorkerStarts(WorkerEnv("workspace")) <=> WorkerStarts(WorkerEnv("container"))
    /\ ApiStarts(ApiEnv("workspace")) =>
         LET developed == ApiConfig(ApiEnv("workspace"))
             deployed  == ApiConfig(ApiEnv("container"))
         IN /\ ApiStarts(ApiEnv("container"))
                 <=> Given(ApiEnv("container"), "ADMIN_API_TOKEN")
            /\ deployed.authMode = developed.authMode
            /\ deployed.limited = developed.limited

\* The admin routes answer a call without a token only where the environment
\* that was written for the API names development or test, whatever else it
\* holds or lacks, and however its start interleaved with a sync.
AdminOpenOnlyInDevelopment ==
  answer \in {"admin_open", "admin"} =>
    api["NODE_ENV"] \in {"development", "test"} \/ Given(api, "ADMIN_API_TOKEN")
=============================================================================
