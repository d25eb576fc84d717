-------------------------- MODULE ApiProcessProofs --------------------------
(***************************************************************************)
(* Theorems about the API from its environment file to its answers: it is  *)
(* a process of module Admission, whose theorems carry over to it; what    *)
(* env-sync has written; and who is let in at the admin routes.            *)
(***************************************************************************)
EXTENDS ApiProcess, AdmissionProofs

LEMMA ConfigIsRecord ==
  ASSUME NEW place \in Places, ApiStarts(ApiEnv(place))
  PROVE  ApiConfig(ApiEnv(place)) \in Configs
<1> DEFINE env == ApiEnv(place)
<1>1. AuthMode(env) \in AuthModes
  BY DEF ApiStarts, AuthModes
<1>2. /\ Given(env, "ADMIN_API_TOKEN") \in BOOLEAN
      /\ DevLike(env) \in BOOLEAN
      /\ ApiConfig(env).limited \in BOOLEAN
  BY DEF Given, DevLike, ApiConfig
<1> HIDE DEF env
<1>3. ApiConfig(env) \in ConfigRecords
  BY <1>1, <1>2 DEF ApiConfig, ConfigRecords
<1> QED BY <1>3, AllConfigsAssumption DEF env

LEMMA ProcessStepIsAdmissions ==
  [ProcessNext]_processVars => [AdmissionNext]_admissionVars
<1> SUFFICES ASSUME [ProcessNext]_processVars PROVE [AdmissionNext]_admissionVars
  OBVIOUS
<1>1. ASSUME NEW place \in Places, StartApi(place)
      PROVE  \E c \in Configs : StartServer(c)
  BY <1>1, ConfigIsRecord DEF StartApi
<1>2. CASE StopApi
  BY <1>2 DEF StopApi, AdmissionNext
<1>3. CASE Serve
  BY <1>3 DEF Serve, AdmissionNext
<1>4. CASE Deploy
  BY <1>4 DEF Deploy
<1>5. CASE UNCHANGED processVars
  BY <1>5 DEF processVars
<1> QED BY <1>1, <1>2, <1>3, <1>4, <1>5 DEF ProcessNext, AdmissionNext

\* Whatever file the API has started with, and however its start interleaves
\* with env-sync, it is a process of module Admission: what is proved of the
\* pre-handler there holds of every deployment.
THEOREM ProcessImplementsAdmission == ProcessSpec => AdmissionSpec
<1>1. ProcessInit => AdmissionInit
  BY DEF ProcessInit
<1> QED BY <1>1, ProcessStepIsAdmissions, PTL DEF ProcessSpec, AdmissionSpec

\* So the limiter keeps its budget, refuses only what has spent it, and names a
\* time after which it admits again, from whatever file the API was started.
THEOREM ProcessKeepsBudget ==
  ProcessSpec => []BudgetKept /\ RefusedOnlyWhenSpent /\ []RetryAfterReachesNextWindow
BY ProcessImplementsAdmission, LimiterKeepsBudget, RefusalsAreDue, RetryAfterIsEnough, PTL

-----------------------------------------------------------------------------
(* What env-sync writes. *)

\* The lines of one target, copied from a shared file.
Copy(i, s) == [k \in TargetKeys[Targets[i]] |-> s[k]]

\* Each file is absent or a copy, and those that the run under way, or the
\* last one, has written are copies of what it loaded when it began.
SyncInv ==
  /\ shared \in Shareds
  /\ files = [t \in DOMAIN TargetKeys |-> files[t]]
  /\ \A i \in 1..4 :
       files[Targets[i]] = NoFile \/ \E s \in Shareds : files[Targets[i]] = Copy(i, s)
  /\ sync = NoSync \/ sync \in [loaded : Shareds, written : 0..4]
  /\ sync # NoSync => Checked(sync.loaded)
  /\ sync # NoSync =>
       \A i \in 1..4 : i <= sync.written => files[Targets[i]] = Copy(i, sync.loaded)

LEMMA TargetNames ==
  /\ Targets[1] = "tracking-api" /\ Targets[2] = "router-worker"
  /\ Targets[3] = "deploy-app" /\ Targets[4] = "deploy-infra"
  /\ DOMAIN TargetKeys = {"tracking-api", "router-worker", "deploy-app", "deploy-infra"}
  /\ \A i \in 1..4 : Targets[i] \in DOMAIN TargetKeys
  /\ \A i, j \in 1..4 : Targets[i] = Targets[j] => i = j
<1>1. /\ Targets[1] = "tracking-api" /\ Targets[2] = "router-worker"
      /\ Targets[3] = "deploy-app" /\ Targets[4] = "deploy-infra"
  BY DEF Targets
<1>2. DOMAIN TargetKeys = {"tracking-api", "router-worker", "deploy-app", "deploy-infra"}
  BY DEF TargetKeys
<1>3. \A i \in 1..4 : i = 1 \/ i = 2 \/ i = 3 \/ i = 4
  OBVIOUS
<1>4. \A i \in 1..4 : Targets[i] \in DOMAIN TargetKeys
  BY <1>1, <1>2, <1>3
<1>5. \A i, j \in 1..4 : Targets[i] = Targets[j] => i = j
  BY <1>1, <1>3
<1> QED BY <1>1, <1>2, <1>4, <1>5

LEMMA SyncInit == DeploymentInit => SyncInv
<1> SUFFICES ASSUME DeploymentInit PROVE SyncInv
  OBVIOUS
<1>1. files = [t \in DOMAIN TargetKeys |-> files[t]]
  BY DEF DeploymentInit
<1>2. \A i \in 1..4 : files[Targets[i]] = NoFile
  BY TargetNames DEF DeploymentInit
<1> QED BY <1>1, <1>2 DEF DeploymentInit, SyncInv

LEMMA WriteTargetKeeps ==
  ASSUME SyncInv, WriteTarget
  PROVE  SyncInv'
<1> DEFINE n == sync.written + 1
           file == [k \in TargetKeys[Targets[n]] |-> sync.loaded[k]]
<1>1. sync \in [loaded : Shareds, written : 0..4] /\ sync # NoSync /\ sync.written < 4
  BY DEF SyncInv, WriteTarget, Writing
<1>2. n \in 1..4
  BY <1>1
<1>3. file = Copy(n, sync.loaded)
  BY DEF Copy
<1>4. files' = [files EXCEPT ![Targets[n]] = file]
  BY DEF WriteTarget
<1>5. /\ sync' \in [loaded : Shareds, written : 0..4]
      /\ sync'.loaded = sync.loaded /\ sync'.written = n
  BY <1>1, <1>2 DEF WriteTarget
<1> HIDE DEF file
<1>6. files' = [t \in DOMAIN TargetKeys |-> files'[t]]
  BY <1>4 DEF SyncInv
<1>7. /\ files'[Targets[n]] = Copy(n, sync.loaded)
      /\ \A i \in 1..4 : i # n => files'[Targets[i]] = files[Targets[i]]
  BY <1>2, <1>3, <1>4, TargetNames DEF SyncInv
<1> HIDE DEF n
<1>8. \A i \in 1..4 : files'[Targets[i]] = NoFile
                      \/ \E s \in Shareds : files'[Targets[i]] = Copy(i, s)
  BY <1>1, <1>7 DEF SyncInv
<1>9. \A i \in 1..4 : i <= sync'.written => files'[Targets[i]] = Copy(i, sync'.loaded)
  <2> SUFFICES ASSUME NEW i \in 1..4, i <= n
               PROVE  files'[Targets[i]] = Copy(i, sync.loaded)
    BY <1>5
  <2>1. CASE i = n
    BY <2>1, <1>7
  <2>2. CASE i # n
    BY <2>2, <1>1, <1>7 DEF SyncInv, n
  <2> QED BY <2>1, <2>2
<1>10. shared' \in Shareds
  BY DEF WriteTarget, SyncInv
<1>11. Checked(sync'.loaded)
  BY <1>1, <1>5 DEF SyncInv, Checked
<1> QED BY <1>5, <1>6, <1>8, <1>9, <1>10, <1>11 DEF SyncInv, Copy, Checked

LEMMA SyncKeeps ==
  ASSUME SyncInv, [DeploymentStep]_deploymentVars
  PROVE  SyncInv'
<1>1. CASE WriteTarget
  BY <1>1, WriteTargetKeeps
<1>2. CASE EditShared
  BY <1>2 DEF SyncInv, EditShared, Copy, Checked
<1>3. CASE BeginSync
  <2>1. sync' \in [loaded : Shareds, written : 0..4] /\ sync'.written = 0
    BY <1>3 DEF BeginSync, SyncInv
  <2>2. \A i \in 1..4 : ~(i <= sync'.written)
    BY <2>1
  <2>3. UNCHANGED <<shared, files>>
    BY <1>3 DEF BeginSync
  <2>4. Checked(sync'.loaded)
    BY <1>3 DEF BeginSync, Checked
  <2> QED BY <2>1, <2>2, <2>3, <2>4 DEF SyncInv, Copy, Checked
<1>4. CASE SyncStops
  BY <1>4 DEF SyncInv, SyncStops, Copy, Checked
<1>5. CASE UNCHANGED <<shared, files, sync>>
  BY <1>5 DEF SyncInv, Copy, NoSync, Checked
<1> QED BY <1>1, <1>2, <1>3, <1>4, <1>5
        DEF DeploymentStep, deploymentVars, StartWorker, StopWorker

LEMMA ProcessStepIsDeployments ==
  [ProcessNext]_processVars => [DeploymentStep]_deploymentVars
BY DEF ProcessNext, processVars, StartApi, StopApi, Serve, Deploy

\* What env-sync has written is what one run of it has loaded.
THEOREM SyncInvariant == ProcessSpec => []SyncInv
<1>1. ProcessInit => SyncInv
  BY SyncInit DEF ProcessInit
<1>2. SyncInv /\ [ProcessNext]_processVars => SyncInv'
  BY SyncKeeps, ProcessStepIsDeployments
<1> QED BY <1>1, <1>2, PTL DEF ProcessSpec
-----------------------------------------------------------------------------
(* The processes that read the files. *)

\* What a finished sync leaves in the file of each process.
LEMMA SyncedFiles ==
  ASSUME SyncInv, Synced
  PROVE  /\ sync.loaded \in Shareds /\ Checked(sync.loaded)
         /\ files["tracking-api"]  = Copy(1, sync.loaded)
         /\ files["router-worker"] = Copy(2, sync.loaded)
         /\ files["deploy-app"]    = Copy(3, sync.loaded)
<1>1. sync \in [loaded : Shareds, written : 0..4] /\ sync # NoSync /\ sync.written = 4
  BY DEF SyncInv, Synced
<1>2. \A i \in 1..4 : files[Targets[i]] = Copy(i, sync.loaded)
  BY <1>1 DEF SyncInv
<1> QED BY <1>1, <1>2, TargetNames DEF SyncInv

LEMMA CopyIsAFile ==
  ASSUME NEW s \in Shareds, NEW i \in 1..4
  PROVE  /\ TargetKeys[Targets[i]] \subseteq EnvKeys
         /\ Copy(i, s) \in [TargetKeys[Targets[i]] -> STRING]
         /\ Copy(i, s) # NoFile
<1>1. /\ i = 1 \/ i = 2 \/ i = 3 \/ i = 4
      /\ Targets[i] \in DOMAIN TargetKeys
  BY TargetNames
<1>2. TargetKeys[Targets[i]] \subseteq EnvKeys
  BY <1>1, TargetNames DEF TargetKeys, AppFileKeys, EnvKeys
<1>3. s \in [EnvKeys -> STRING]
  BY SharedsAssumption
<1>4. Copy(i, s) \in [TargetKeys[Targets[i]] -> STRING]
  BY <1>2, <1>3 DEF Copy
<1> QED BY <1>1, <1>2, <1>4, NoFileAssumption

\* A line that a target has is what the reader of the place makes of the
\* shared file's, and a line that it has not is not in the environment.
LEMMA CopyIsRead ==
  ASSUME NEW s \in Shareds, NEW i \in 1..4, NEW place
  PROVE  /\ \A key \in TargetKeys[Targets[i]] :
              EnvOf(place, Copy(i, s))[key] = ReadBack(place, s[key])
         /\ \A key \in EnvKeys \ TargetKeys[Targets[i]] :
              EnvOf(place, Copy(i, s))[key] = Unset
<1>1. /\ TargetKeys[Targets[i]] \subseteq EnvKeys /\ Copy(i, s) # NoFile
      /\ DOMAIN Copy(i, s) = TargetKeys[Targets[i]]
  BY CopyIsAFile
<1>2. \A key \in TargetKeys[Targets[i]] : Copy(i, s)[key] = s[key]
  BY DEF Copy
<1> QED BY <1>1, <1>2 DEF EnvOf

LEMMA EnvsType ==
  /\ \A place, file : DOMAIN EnvOf(place, file) = EnvKeys
  /\ \A place, file : \A key \in EnvKeys \ {"NODE_ENV", "PORT"} :
       InContainer(EnvOf(place, file))[key] = EnvOf(place, file)[key]
BY DEF EnvOf, InContainer

\* What the processes have after a finished sync.
LEMMA SyncedEnvs ==
  ASSUME SyncInv, Synced
  PROVE  LET s == sync.loaded
         IN /\ \A key \in EnvKeys \ {"ADMIN_API_TOKEN", "TRACKING_API_IMAGE",
                                     "ROUTER_WORKER_IMAGE"} :
                 ApiEnv("workspace")[key] = ReadBack("workspace", s[key])
            /\ ApiEnv("workspace")["ADMIN_API_TOKEN"] = Unset
            /\ \A key \in EnvKeys \ {"PORT", "NODE_ENV", "REDIS_PORT", "REDIS_DB"} :
                 ApiEnv("container")[key] = ReadBack("container", s[key])
            /\ ApiEnv("container")["PORT"] = "3000"
            /\ ApiEnv("container")["NODE_ENV"] = "production"
            /\ ApiEnv("container")["REDIS_PORT"] = Unset
            /\ ApiEnv("container")["REDIS_DB"] = Unset
            /\ \A key \in {"REDIS_URL", "ROUTER_QUEUE_NAME", "ROUTER_WORKER_CONCURRENCY"} :
                 \A place \in Places : WorkerEnv(place)[key] = ReadBack(place, s[key])
            /\ \A key \in {"REDIS_PORT", "REDIS_DB"} :
                 \A place \in Places : WorkerEnv(place)[key] = Unset
<1> DEFINE s == sync.loaded
<1>1. s \in Shareds
  BY SyncedFiles
<1>2. /\ TargetKeys[Targets[1]] = EnvKeys \ {"ADMIN_API_TOKEN", "TRACKING_API_IMAGE",
                                            "ROUTER_WORKER_IMAGE"}
      /\ TargetKeys[Targets[2]] = {"REDIS_URL", "DATABASE_URL", "ROUTER_QUEUE_NAME",
                                   "ROUTER_WORKER_NAME", "ROUTER_WORKER_CONCURRENCY"}
      /\ TargetKeys[Targets[3]] = EnvKeys \ {"PORT", "NODE_ENV", "REDIS_PORT", "REDIS_DB"}
  BY TargetNames DEF TargetKeys, AppFileKeys
<1>3. /\ ApiEnv("workspace") = EnvOf("workspace", Copy(1, s))
      /\ ApiEnv("container") = InContainer(EnvOf("container", Copy(3, s)))
      /\ WorkerEnv("workspace") = EnvOf("workspace", Copy(2, s))
      /\ WorkerEnv("container") = EnvOf("container", Copy(3, s))
  BY SyncedFiles DEF ApiEnv, WorkerEnv
<1> HIDE DEF s
<1>4. /\ \A key \in TargetKeys[Targets[1]] :
           ApiEnv("workspace")[key] = ReadBack("workspace", s[key])
      /\ ApiEnv("workspace")["ADMIN_API_TOKEN"] = Unset
  <2>1. "ADMIN_API_TOKEN" \in EnvKeys \ TargetKeys[Targets[1]]
    BY <1>2 DEF EnvKeys
  <2> QED BY <1>1, <1>3, <2>1, CopyIsRead
<1>5. /\ \A key \in TargetKeys[Targets[3]] :
           ApiEnv("container")[key] = ReadBack("container", s[key])
      /\ ApiEnv("container")["PORT"] = "3000"
      /\ ApiEnv("container")["NODE_ENV"] = "production"
      /\ ApiEnv("container")["REDIS_PORT"] = Unset
      /\ ApiEnv("container")["REDIS_DB"] = Unset
  <2>1. \A key \in EnvKeys \ {"NODE_ENV", "PORT"} :
          ApiEnv("container")[key] = EnvOf("container", Copy(3, s))[key]
    BY <1>3, EnvsType
  <2>2. /\ \A key \in TargetKeys[Targets[3]] : key \in EnvKeys \ {"NODE_ENV", "PORT"}
        /\ {"REDIS_PORT", "REDIS_DB"} \subseteq EnvKeys \ TargetKeys[Targets[3]]
        /\ {"REDIS_PORT", "REDIS_DB"} \subseteq EnvKeys \ {"NODE_ENV", "PORT"}
        /\ {"NODE_ENV", "PORT"} \subseteq EnvKeys
    BY <1>2 DEF EnvKeys
  <2>3. ApiEnv("container")["PORT"] = "3000" /\ ApiEnv("container")["NODE_ENV"] = "production"
    BY <1>3, <2>2, EnvsType DEF InContainer
  <2> QED BY <1>1, <2>1, <2>2, <2>3, CopyIsRead
<1>6. ASSUME NEW place \in Places
      PROVE  /\ \A key \in {"REDIS_URL", "ROUTER_QUEUE_NAME", "ROUTER_WORKER_CONCURRENCY"} :
                  WorkerEnv(place)[key] = ReadBack(place, s[key])
             /\ \A key \in {"REDIS_PORT", "REDIS_DB"} : WorkerEnv(place)[key] = Unset
  <2>1. PICK i \in {2, 3} : WorkerEnv(place) = EnvOf(place, Copy(i, s))
    BY <1>3 DEF Places
  <2>2. /\ {"REDIS_URL", "ROUTER_QUEUE_NAME", "ROUTER_WORKER_CONCURRENCY"}
             \subseteq TargetKeys[Targets[i]]
        /\ {"REDIS_PORT", "REDIS_DB"} \subseteq EnvKeys \ TargetKeys[Targets[i]]
    BY <1>2 DEF EnvKeys
  <2> QED BY <1>1, <2>1, <2>2, CopyIsRead
<1> QED BY <1>2, <1>4, <1>5, <1>6 DEF s

\* Where API and worker meet after a finished sync: at one queue of one
\* database, but for an API that honours a REDIS_DB beside its REDIS_URL.
THEOREM SyncedShareQueue == ProcessSpec => []SyncedProcessesShareQueue
<1>1. SyncInv => SyncedProcessesShareQueue
  <2> SUFFICES ASSUME SyncInv, Synced, NEW here \in Places, NEW there \in Places,
                      here # there => ReadAlike("REDIS_URL") /\ ReadAlike("ROUTER_QUEUE_NAME")
               PROVE  ApiQueue(ApiEnv(here)) = WorkerQueue(WorkerEnv(there))
                        <=> ~DbBesideUrl(ApiEnv(here))
    BY DEF SyncedProcessesShareQueue
  <2> DEFINE theApi == ApiEnv(here)
             theWorker == WorkerEnv(there)
             inUrl == UrlDb(Trim(theApi["REDIS_URL"]))
  <2>1. /\ theApi["REDIS_URL"] = theWorker["REDIS_URL"]
        /\ theApi["ROUTER_QUEUE_NAME"] = theWorker["ROUTER_QUEUE_NAME"]
    BY SyncedEnvs DEF Places, ReadAlike, EnvKeys
  <2> HIDE DEF theApi, theWorker
  <2>2. \A n : Queue(theApi, n) = Queue(theWorker, n)
    BY <2>1 DEF Queue, Given
  <2>3. \A m, n : Queue(theWorker, m) = Queue(theWorker, n) <=> m = n
    BY DEF Queue
  <2>4. WorkerQueue(theWorker) = Queue(theWorker, IF inUrl = NaN THEN 0 ELSE inUrl)
    BY <2>1 DEF WorkerQueue
  <2>5. CASE inUrl # NaN
    <3>1. ApiQueue(theApi) = Queue(theApi, inUrl)
      BY <2>5 DEF ApiQueue
    <3> QED BY <2>2, <2>4, <2>5, <3>1 DEF DbBesideUrl, theApi, theWorker
  <2>6. CASE inUrl = NaN /\ ~Present(theApi, "REDIS_DB")
    <3>1. ApiQueue(theApi) = Queue(theApi, 0)
      BY <2>6 DEF ApiQueue
    <3> QED BY <2>2, <2>4, <2>6, <3>1 DEF DbBesideUrl, theApi, theWorker
  <2>7. CASE inUrl = NaN /\ Present(theApi, "REDIS_DB")
    <3>1. ApiQueue(theApi) = Queue(theApi, ParseInt(theApi["REDIS_DB"]))
      BY <2>7 DEF ApiQueue
    <3> QED BY <2>2, <2>3, <2>4, <2>7, <3>1 DEF DbBesideUrl, theApi, theWorker
  <2> QED BY <2>5, <2>6, <2>7
<1> QED BY <1>1, SyncInvariant, PTL

\* What was developed with can be deployed: the worker starts there too, and
\* the API if it has a token, with the same authentication and limiter.
THEOREM DeployedLikeDeveloped == ProcessSpec => []DeployedAsDeveloped
<1>1. SyncInv => DeployedAsDeveloped
  <2> SUFFICES ASSUME SyncInv, Synced, \A key \in EnvKeys : ReadAlike(key)
               PROVE  DeployedAsDeveloped
    BY DEF DeployedAsDeveloped
  <2> DEFINE here == ApiEnv("workspace")
             there == ApiEnv("container")
             Same(key) == here[key] = there[key]
  <2>1. /\ Same("DATABASE_URL") /\ Same("TRACKING_API_AUTH_MODE")
        /\ Same("TRACKING_API_SECRET") /\ Same("METRICS_ENABLED")
        /\ Same("TRACKING_SIGNATURE_SKEW_SECONDS") /\ Same("TRACKING_RATE_LIMIT_ENABLED")
        /\ Same("TRACKING_RATE_LIMIT_WINDOW_MS")
        /\ Same("TRACKING_RATE_LIMIT_MAX_REQUESTS")
    BY SyncedEnvs DEF ReadAlike, EnvKeys
  <2>2. /\ there["PORT"] = "3000" /\ there["NODE_ENV"] = "production"
        /\ there["REDIS_PORT"] = Unset /\ there["REDIS_DB"] = Unset
    BY SyncedEnvs
  <2> HIDE DEF here, there
  <2>3. PortOf(there) # NaN /\ PortOf(there) > 0
    BY <2>2, UnsetAssumption, NumberAssumption DEF PortOf
  <2>4. ~DevLike(there)
    BY <2>2, UnsetAssumption DEF DevLike, NodeEnv
  <2>5. Positive(there, "REDIS_PORT") /\ NonNegative(there, "REDIS_DB")
    BY <2>2 DEF Positive, NonNegative, Present
  <2>6. AuthMode(there) = AuthMode(here)
    BY <2>1 DEF AuthMode, Word
  <2>7. /\ Present(there, "DATABASE_URL") <=> Present(here, "DATABASE_URL")
        /\ Given(there, "TRACKING_API_SECRET") <=> Given(here, "TRACKING_API_SECRET")
        /\ Boolean(there, "METRICS_ENABLED") <=> Boolean(here, "METRICS_ENABLED")
        /\ Boolean(there, "TRACKING_RATE_LIMIT_ENABLED")
             <=> Boolean(here, "TRACKING_RATE_LIMIT_ENABLED")
    BY <2>1 DEF Present, Given, Boolean, Word
  <2>8. \A key \in {"TRACKING_SIGNATURE_SKEW_SECONDS", "TRACKING_RATE_LIMIT_WINDOW_MS",
                    "TRACKING_RATE_LIMIT_MAX_REQUESTS"} :
          Positive(there, key) <=> Positive(here, key)
    BY <2>1 DEF Positive, Present
  <2>9. ApiStarts(here) => (ApiStarts(there) <=> Given(there, "ADMIN_API_TOKEN"))
    BY <2>3, <2>4, <2>5, <2>6, <2>7, <2>8 DEF ApiStarts
  <2>10. /\ ApiConfig(there).authMode = ApiConfig(here).authMode
         /\ ApiConfig(there).limited = ApiConfig(here).limited
    BY <2>1, <2>6 DEF ApiConfig, Present, Word
  <2>11. WorkerStarts(WorkerEnv("workspace")) <=> WorkerStarts(WorkerEnv("container"))
    <3>1. \A key \in {"REDIS_URL", "ROUTER_WORKER_CONCURRENCY", "REDIS_PORT", "REDIS_DB"} :
            WorkerEnv("workspace")[key] = WorkerEnv("container")[key]
      BY SyncedEnvs DEF ReadAlike, EnvKeys, Places
    <3> QED BY <3>1 DEF WorkerStarts, PositiveOrBlank, Given
  <2> QED BY <2>9, <2>10, <2>11 DEF DeployedAsDeveloped, here, there
<1> QED BY <1>1, SyncInvariant, PTL

-----------------------------------------------------------------------------
(* The admin routes. *)

\* No API runs with an environment that does not name one: the container's
\* is set, and a workspace's file, if there is one, has the line.
LEMMA StartedNamesEnvironment ==
  ASSUME SyncInv, NEW place \in Places, ApiStarts(ApiEnv(place))
  PROVE  ApiEnv(place)["NODE_ENV"] # Unset
<1>1. CASE place = "container"
  <2>1. ApiEnv(place) = InContainer(EnvOf("container", files["deploy-app"]))
    BY <1>1 DEF ApiEnv
  <2>2. ApiEnv(place)["NODE_ENV"] = "production"
    BY <2>1 DEF InContainer, EnvOf, EnvKeys
  <2> QED BY <2>2, UnsetAssumption
<1>2. CASE place # "container"
  <2>1. ApiEnv(place) = EnvOf("workspace", files["tracking-api"])
    BY <1>2 DEF ApiEnv
  <2>2. files["tracking-api"] # NoFile
    BY <2>1 DEF ApiStarts, Present, EnvOf, EnvKeys
  <2>3. PICK s \in Shareds : files["tracking-api"] = Copy(1, s)
    BY <2>2, TargetNames DEF SyncInv
  <2>4. "NODE_ENV" \in TargetKeys[Targets[1]]
    BY TargetNames DEF TargetKeys, EnvKeys
  <2>5. ApiEnv(place)["NODE_ENV"] = ReadBack("workspace", s["NODE_ENV"])
    BY <2>1, <2>3, <2>4, CopyIsRead
  <2> QED BY <2>5, SharedsAssumption, UnsetAssumption DEF EnvKeys, Places
<1> QED BY <1>1, <1>2

\* The configuration that answers is that of the environment.
ServedInv ==
  /\ Running => /\ api["NODE_ENV"] # Unset
                /\ config = ApiConfig(api)
  /\ ~Running => answer = "none"
  /\ answer = "admin_open" => config.devLike
  /\ answer = "admin" => config.token

LEMMA ServedInit == ProcessInit => ServedInv
BY NoneAssumption DEF ProcessInit, AdmissionInit, ServedInv, Running

LEMMA ServedKeeps ==
  ASSUME SyncInv, ServedInv, [ProcessNext]_processVars
  PROVE  ServedInv'
<1>1. ASSUME NEW place \in Places, StartApi(place)
      PROVE  ServedInv'
  <2>1. /\ ~Running /\ answer' = answer
        /\ ApiStarts(ApiEnv(place))
        /\ api' = ApiEnv(place) /\ config' = ApiConfig(ApiEnv(place))
    BY <1>1 DEF StartApi, StartServer
  <2>2. ApiEnv(place)["NODE_ENV"] # Unset
    BY <2>1, StartedNamesEnvironment
  <2>3. answer' = "none" /\ Running'
    <3>1. config' \in ConfigRecords
      BY <2>1, ConfigIsRecord, ConfigsAssumption
    <3> QED BY <2>1, <3>1, NoneAssumption DEF ServedInv, Running
  <2> QED BY <2>1, <2>2, <2>3 DEF ServedInv
<1>2. CASE StopApi
  BY <1>2 DEF StopApi, StopServer, ServedInv, Running
<1>3. CASE Serve
  <2>1. /\ Running /\ UNCHANGED <<config, api>>
    BY <1>3 DEF Serve, Call, Unauthorized, Admit, Refuse, AdminOpen, AdminGuarded, Tick, SetBack
  <2>2. answer' = "admin_open" => config.devLike
    BY <1>3 DEF Serve, Call, Unauthorized, Admit, Refuse, AdminOpen, AdminGuarded,
                Tick, SetBack, AdminVerdict, ServedInv
  <2>3. answer' = "admin" => config.token
    BY <1>3 DEF Serve, Call, Unauthorized, Admit, Refuse, AdminOpen, AdminGuarded,
                Tick, SetBack, AdminVerdict, ServedInv
  <2> QED BY <2>1, <2>2, <2>3 DEF ServedInv, Running
<1>4. CASE Deploy \/ UNCHANGED processVars
  BY <1>4 DEF Deploy, processVars, admissionVars, ServedInv, Running
<1> QED BY <1>1, <1>2, <1>3, <1>4 DEF ProcessNext

\* The admin routes let a call in without a token only where the file of the
\* API names development or test: although getConfig takes a NODE_ENV that is
\* missing for development, no start finds it missing.
THEOREM AdminClosedByDefault == ProcessSpec => []AdminOpenOnlyInDevelopment
<1>1. ProcessInit => ServedInv
  BY ServedInit
<1>2. SyncInv /\ ServedInv /\ [ProcessNext]_processVars => ServedInv'
  BY ServedKeeps
<1>3. ServedInv => AdminOpenOnlyInDevelopment
  <2> SUFFICES ASSUME ServedInv, answer \in {"admin_open", "admin"}
               PROVE  \/ api["NODE_ENV"] \in {"development", "test"}
                      \/ Given(api, "ADMIN_API_TOKEN")
    BY DEF AdminOpenOnlyInDevelopment
  <2>1. config = ApiConfig(api) /\ api["NODE_ENV"] # Unset
    BY DEF ServedInv
  <2>2. CASE answer = "admin_open"
    BY <2>1, <2>2 DEF ServedInv, ApiConfig, DevLike, NodeEnv
  <2>3. CASE answer = "admin"
    BY <2>1, <2>3 DEF ServedInv, ApiConfig
  <2> QED BY <2>2, <2>3
<1> QED BY <1>1, <1>2, <1>3, SyncInvariant, PTL DEF ProcessSpec

-----------------------------------------------------------------------------
(* Types. *)

LEMMA EnvsTyped ==
  ASSUME SyncInv, NEW place \in Places
  PROVE  ApiEnv(place) \in Envs /\ WorkerEnv(place) \in Envs
<1>1. ASSUME NEW i \in 1..4, NEW reader \in Places
      PROVE  EnvOf(reader, files[Targets[i]]) \in Envs
  <2>1. CASE files[Targets[i]] = NoFile
    BY <2>1 DEF EnvOf, Envs
  <2>2. CASE files[Targets[i]] # NoFile
    <3>1. PICK s \in Shareds : files[Targets[i]] = Copy(i, s)
      BY <2>2 DEF SyncInv
    <3>2. \A key \in EnvKeys : EnvOf(reader, Copy(i, s))[key] \in STRING \cup {Unset}
      BY <3>1, CopyIsRead, CopyIsAFile, SharedsAssumption
    <3> QED BY <3>1, <3>2 DEF EnvOf, Envs
  <2> QED BY <2>1, <2>2
<1>2. /\ EnvOf("workspace", files["tracking-api"]) \in Envs
      /\ EnvOf("workspace", files["router-worker"]) \in Envs
      /\ EnvOf("container", files["deploy-app"]) \in Envs
  BY <1>1, TargetNames DEF Places
<1>3. ASSUME NEW env \in Envs PROVE InContainer(env) \in Envs
  <2> DEFINE Values == STRING \cup {Unset, "production", "3000"}
  <2>1. "production" \in Values /\ "3000" \in Values
    OBVIOUS
  <2>2. env \in [EnvKeys -> Values]
    BY DEF Envs
  <2> HIDE DEF Values
  <2>3. InContainer(env) \in [EnvKeys -> Values]
    BY <2>1, <2>2 DEF InContainer
  <2> QED BY <2>3 DEF Envs, Values
<1> QED BY <1>2, <1>3 DEF ApiEnv, WorkerEnv

PlaceInv ==
  /\ worker = NoEnv \/ DOMAIN worker = EnvKeys
  /\ edits \in 0..MaxEdits
  /\ api = NoEnv <=> config = NoConfig

LEMMA PlaceKeeps ==
  ASSUME SyncInv, PlaceInv, [ProcessNext]_processVars
  PROVE  PlaceInv'
<1>1. ASSUME NEW place \in Places, StartApi(place)
      PROVE  PlaceInv'
  <2>1. api' # NoEnv
    BY <1>1, EnvsTyped, NoEnvAssumption DEF StartApi
  <2>2. config' # NoConfig
    BY <1>1, ConfigIsRecord, ConfigsAssumption, NoneAssumption DEF StartApi, StartServer
  <2> QED BY <1>1, <2>1, <2>2 DEF StartApi, PlaceInv, deploymentVars
<1>2. CASE StopApi
  BY <1>2 DEF StopApi, StopServer, PlaceInv, deploymentVars
<1>3. CASE Serve
  BY <1>3 DEF Serve, Call, Unauthorized, Admit, Refuse, AdminOpen, AdminGuarded, Tick,
              SetBack, PlaceInv, deploymentVars
<1>4. CASE Deploy
  <2>1. UNCHANGED <<api, config>> /\ DeploymentStep
    BY <1>4 DEF Deploy, admissionVars
  <2>2. edits' \in 0..MaxEdits
    BY <2>1, EditsAssumption
       DEF DeploymentStep, EditShared, BeginSync, WriteTarget, SyncStops, StartWorker,
           StopWorker, PlaceInv
  <2>3. worker' = NoEnv \/ DOMAIN worker' = EnvKeys
    <3>1. \A place \in Places : DOMAIN WorkerEnv(place) = EnvKeys
      BY EnvsType DEF WorkerEnv
    <3> QED BY <2>1, <3>1
            DEF DeploymentStep, EditShared, BeginSync, WriteTarget, SyncStops,
                StartWorker, StopWorker, PlaceInv
  <2> QED BY <2>1, <2>2, <2>3 DEF PlaceInv
<1>5. CASE UNCHANGED processVars
  BY <1>5 DEF processVars, deploymentVars, admissionVars, PlaceInv
<1> QED BY <1>1, <1>2, <1>3, <1>4, <1>5 DEF ProcessNext

\* Every reachable state of files, processes and limiter is well typed, and the
\* API runs with a configuration exactly when it has an environment.
THEOREM ProcessTyped == ProcessSpec => []ProcessTypeOK
<1>1. ProcessInit => PlaceInv
  BY EditsAssumption DEF ProcessInit, DeploymentInit, AdmissionInit, PlaceInv
<1>2. SyncInv /\ PlaceInv /\ [ProcessNext]_processVars => PlaceInv'
  BY PlaceKeeps
<1>3. SyncInv /\ PlaceInv /\ AdmissionTypeOK => ProcessTypeOK
  <2> SUFFICES ASSUME SyncInv, PlaceInv, AdmissionTypeOK PROVE ProcessTypeOK
    OBVIOUS
  <2>1. \A i \in 1..4 :
          \/ files[Targets[i]] = NoFile
          \/ \E s \in Shareds :
               files[Targets[i]] = [k \in TargetKeys[Targets[i]] |-> s[k]]
    BY DEF SyncInv, Copy
  <2> QED BY <2>1 DEF SyncInv, PlaceInv, ProcessTypeOK, DeploymentTypeOK
<1> QED BY <1>1, <1>2, <1>3, SyncInvariant, ProcessImplementsAdmission,
           AdmissionTypeCorrect, PTL DEF ProcessSpec

\* The API's credentials are judged the same way from whatever file it started.
THEOREM ProcessRespectsSkew == ProcessSpec => []SkewHoldsInBothUnits
BY ProcessImplementsAdmission, SkewIsRespected, PTL

=============================================================================
