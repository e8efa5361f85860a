---------------------------- MODULE AppLifecycle ----------------------------
(***************************************************************************)
(* Startup and shutdown of the runtime (app/lifecycle.py), the lazy        *)
(* connection pool every repository shares (integrations/database/         *)
(* client.py) and the jobs a process runs on its own event loop            *)
(* (app/workers/worker.py), which nothing tracks once they are created.    *)
(***************************************************************************)
EXTENDS Naturals, FiniteSets

CONSTANTS
    AppJobs,        \* in-process jobs: asyncio.create_task(worker.run_task(...))
    AppModes,       \* "api" runs startup, "agentcore" runs prepare_workflows
    StepsFail       \* TRUE when a step of startup or shutdown may raise

VARIABLES
    appMode,        \* which entry point this process uses
    app,            \* the next step of startup or shutdown
    started,        \* DraftlyApplication._started
    background,     \* background tasks alive: the Discord gateway, Slack socket mode
    redis,          \* the Redis client
    pool,           \* DatabaseClient._pool: "none", "open" or "closing"
    appJob,         \* job -> "none", "running", "querying" (holds a connection), "over"
    stopBroke,      \* a step of _stop_infrastructure raised
    reopened        \* a query made a pool after the application closed its own

appVars == <<appMode, app, started, background, redis, pool, appJob, stopBroke, reopened>>

AppFrame == UNCHANGED <<appMode, appJob, reopened>>
StartFrame == AppFrame /\ UNCHANGED stopBroke

-----------------------------------------------------------------------------
(* Startup: each step is an await, and what raises leads to shutdown.      *)

\* Mutant: a start that has not finished leaves no mark.
MarksLast(m) == FALSE

\* "Mark as started before booting so that a partial failure still triggers
\* cleanup in shutdown()."
MarksStarted(m) == TRUE

\* create_application opens the Redis client; lifespan then calls startup.
startup == /\ app = "new" /\ appMode = "api"
           /\ app' = "database" /\ started' = MarksStarted(appMode)
           /\ StartFrame /\ UNCHANGED <<background, redis, pool>>

prepare_workflows == /\ app = "new" /\ appMode = "agentcore"
                     /\ app' = "database" /\ started' = MarksStarted(appMode)
                     /\ StartFrame /\ UNCHANGED <<background, redis, pool>>

_start_infrastructure == /\ app = "database"
                         /\ pool' = "open" /\ app' = "build"
                         /\ StartFrame /\ UNCHANGED <<started, background, redis>>

\* A warm start that fails is logged; agents and workflows are composed.
_build_agents_and_workflows ==
    /\ app = "build"
    /\ app' = IF appMode = "api" THEN "gateway" ELSE "up"
    /\ StartFrame /\ UNCHANGED <<started, background, redis, pool>>

StartTask(step, next) == /\ app = step
                         /\ \/ background' = background \cup {step}
                            \/ UNCHANGED background
                         /\ app' = next
                         /\ StartFrame /\ UNCHANGED <<started, redis, pool>>

StartGateway == StartTask("gateway", "slack")
StartSocketMode == StartTask("slack", "up")

\* except Exception: await self.shutdown(), which returns if nothing started.
StartFails == /\ StepsFail
              /\ app \in {"database", "build", "gateway", "slack"}
              /\ app' = IF started THEN "stop_slack" ELSE "down"
              /\ StartFrame /\ UNCHANGED <<started, background, redis, pool>>

-----------------------------------------------------------------------------
(* Shutdown: reverse order.                                                *)

shutdown == /\ app = "up"
            /\ app' = IF started THEN "stop_slack" ELSE "down"
            /\ AppFrame /\ UNCHANGED <<started, background, redis, pool, stopBroke>>

StopTask(step, task, next) == /\ app = step
                              /\ background' = background \ {task}
                              /\ app' = next
                              /\ AppFrame /\ UNCHANGED <<started, redis, pool, stopBroke>>

StopSlack == StopTask("stop_slack", "slack", "stop_gateway")
StopGateway == StopTask("stop_gateway", "gateway", "stop_redis")

_stop_infrastructure ==
    /\ app = "stop_redis"
    /\ redis' = "closed"
    /\ app' = "close_pool"
    /\ AppFrame /\ UNCHANGED <<started, background, pool, stopBroke>>

\* The Redis client raises: the database is not closed, the error is logged.
StopFails == /\ StepsFail
             /\ app = "stop_redis"
             /\ app' = "down" /\ started' = FALSE /\ stopBroke' = TRUE
             /\ AppFrame /\ UNCHANGED <<background, redis, pool>>

\* DatabaseClient.close: the pool waits for the connections in use.
close == /\ app = "close_pool" /\ pool = "open"
         /\ pool' = "closing" /\ app' = "wait_pool"
         /\ AppFrame /\ UNCHANGED <<started, background, redis, stopBroke>>

Closed == /\ \/ app = "close_pool" /\ pool = "none"
             \/ app = "wait_pool" /\ \A j \in AppJobs : appJob[j] # "querying"
          /\ pool' = "none" /\ app' = "down" /\ started' = FALSE
          /\ AppFrame /\ UNCHANGED <<background, redis, stopBroke>>

-----------------------------------------------------------------------------
(* Jobs on the process's own loop.                                         *)

JobFrame == UNCHANGED <<appMode, app, started, background, redis, stopBroke>>
Runs(j, st) == appJob' = [appJob EXCEPT ![j] = st]

run_task(j) == /\ app = "up" /\ appJob[j] = "none"
               /\ Runs(j, "running")
               /\ JobFrame /\ UNCHANGED <<pool, reopened>>

\* _acquire: start() makes a pool when there is none; a closing pool raises.
_acquire(j) == /\ appJob[j] = "running"
               /\ IF pool = "closing" THEN Runs(j, "over") /\ UNCHANGED <<pool, reopened>>
                  ELSE /\ pool' = "open"
                       /\ reopened' = (reopened \/ pool = "none")
                       /\ Runs(j, "querying")
               /\ JobFrame

execute(j) == /\ appJob[j] = "querying"
              /\ \E st \in {"running", "over"} : Runs(j, st)
              /\ JobFrame /\ UNCHANGED <<pool, reopened>>

\* The loop of the process ends once lifespan has returned.
LoopCloses == /\ app = "down"
              /\ appJob' = [j \in AppJobs |-> "over"]
              /\ JobFrame /\ UNCHANGED <<pool, reopened>>

-----------------------------------------------------------------------------
AppInitFor(m) ==
    /\ appMode = m /\ app = "new" /\ started = FALSE /\ background = {}
    /\ redis = "open" /\ pool = "none" /\ appJob = [j \in AppJobs |-> "none"]
    /\ stopBroke = FALSE /\ reopened = FALSE

AppInit == \E m \in AppModes : AppInitFor(m)

AppNext ==
    \/ startup \/ prepare_workflows \/ _start_infrastructure \/ _build_agents_and_workflows
    \/ StartGateway \/ StartSocketMode \/ StartFails
    \/ shutdown \/ StopSlack \/ StopGateway \/ _stop_infrastructure \/ StopFails
    \/ close \/ Closed
    \/ \E j \in AppJobs : run_task(j) \/ _acquire(j) \/ execute(j)
    \/ LoopCloses

AppSpec == AppInit /\ [][AppNext]_appVars

-----------------------------------------------------------------------------
(* Properties.                                                             *)

\* Whatever step startup failed at, shutdown has released what was acquired by
\* then: no background task is left, Redis and the application's pool are closed.
\* Excepted are a shutdown step that itself raised, and a pool a job made anew.
StoppedHoldsNothing == app = "down" /\ ~stopBroke =>
    /\ background = {}
    /\ redis = "closed"
    /\ pool = "none" \/ reopened
=============================================================================
