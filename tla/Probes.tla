-------------------------------- MODULE Probes --------------------------------
(***************************************************************************)
(* Those who pass the health registry's answers on: the OpAMP agent's      *)
(* health check (agent/agent.go) and the router's gRPC health monitor      *)
(* (route/route.go).  Each reads the two answers one after the other, with *)
(* reports coming in between.  A ticker that is due is served within the   *)
(* unit of time.  The registry is module Health.                           *)
(***************************************************************************)
EXTENDS Health

CONSTANTS
  HealthCheckInterval,  \* of the agent
  WatchInterval         \* of the gRPC health monitor

ASSUME IntervalAssumption ==
  HealthCheckInterval \in Nat \ {0} /\ WatchInterval \in Nat \ {0}

VARIABLES
  sinceCheck,  \* units since the health check's ticker fired
  check,       \* where the agent's health check is
  lastHealth,  \* what it reported last, or "nil"
  told,        \* what the OpAMP server has been told last
  missed,      \* history: whether the last SetHealth failed
  stop,        \* how far Agent.Stop is
  sinceWatch,  \* units since the ticker of the gRPC health monitor fired
  watch,       \* where the gRPC health monitor is, "off" before the router starts it
  watchAlive,  \* and what it has read
  serving,     \* the services that its server calls SERVING
  monitored    \* history: whether the monitor has set them

agentVars == <<sinceCheck, check, lastHealth, told, missed, stop>>
grpcVars  == <<sinceWatch, watch, watchAlive, serving, monitored>>
probeVars == <<vars, agentVars, grpcVars>>

\* connect tells the server "not healthy" before the client starts.
ProbesInit ==
  /\ Init
  /\ sinceCheck = 0 /\ sinceWatch = 0
  /\ check = "idle" /\ lastHealth = "nil" /\ stop = "running"
  /\ told = FALSE /\ missed = FALSE
  /\ watch = "off" /\ watchAlive = FALSE /\ serving = {} /\ monitored = FALSE

\* The subsystems.
Registry ==
  /\ \E s \in Subsystem :
       Register(s) \/ Unregister(s) \/ \E ready \in BOOLEAN : Ready(s, ready)
  /\ UNCHANGED <<agentVars, grpcVars>>

Tick ==
  /\ check = "idle" /\ watch \in {"off", "idle"}
  /\ AdvanceTime
  /\ IF sinceCheck + 1 < HealthCheckInterval
       THEN sinceCheck' = sinceCheck + 1 /\ check' = "idle"
       ELSE sinceCheck' = 0 /\ check' = "alive"
  /\ \/ watch = "off" /\ UNCHANGED <<sinceWatch, watch>>
     \/ /\ watch = "idle"
        /\ IF sinceWatch + 1 < WatchInterval
             THEN sinceWatch' = sinceWatch + 1 /\ watch' = "idle"
             ELSE sinceWatch' = 0 /\ watch' = "alive"
  /\ UNCHANGED <<lastHealth, told, missed, stop, watchAlive, serving, monitored>>

-----------------------------------------------------------------------------
(* Agent.healthCheck. *)

\* SetHealth: the client passes the health on, or returns an error that is only
\* logged; nothing is passed on after it was stopped.
SetHealth(healthy) ==
  \/ stop # "stopped" /\ told' = healthy /\ missed' = FALSE
  \/ missed' = TRUE /\ UNCHANGED told

\* The end of calculateHealth, and SetHealth if the health has changed: it counts
\* as reported whether SetHealth succeeds or not, so nothing repeats a failed one.
Conclude(healthy) ==
  LET health == IF healthy THEN "healthy" ELSE "unhealthy" IN
    /\ check' = "idle"
    /\ lastHealth' = health
    /\ IF lastHealth # health THEN SetHealth(healthy) ELSE UNCHANGED <<told, missed>>

CheckAlive ==
  /\ check = "alive"
  /\ IF IsAlive THEN check' = "ready" /\ UNCHANGED <<lastHealth, told, missed>>
                ELSE Conclude(FALSE)
  /\ UNCHANGED <<vars, sinceCheck, stop, grpcVars>>

\* Variant: once healthy, the process is so for as long as it is alive.
Healthy_AliveOnly == lastHealth = "healthy" \/ IsReady
Healthy == IsReady

CheckReady ==
  /\ check = "ready" /\ Conclude(Healthy)
  /\ UNCHANGED <<vars, sinceCheck, stop, grpcVars>>

\* Agent.Stop tells the server, if it can, and then stops the client.  healthCheck
\* goes on: its select has no return for the cancelled context.
Stop ==
  /\ \/ stop = "running" /\ stop' = "told" /\ SetHealth(FALSE)
     \/ stop = "told" /\ stop' = "stopped" /\ UNCHANGED <<told, missed>>
  /\ UNCHANGED <<vars, sinceCheck, check, lastHealth, grpcVars>>

-----------------------------------------------------------------------------
(* startGRPCHealthMonitor: both answers are read, then all services updated. *)

\* A new gRPC health server knows the service "" only, and calls it SERVING.
NewServer == {""}

\* The router starts the server and its monitor, however long after the registry.
LnS ==
  /\ watch = "off" /\ watch' = "idle" /\ sinceWatch' = 0
  /\ serving' = NewServer
  /\ UNCHANGED <<vars, agentVars, watchAlive, monitored>>

WatchAlive ==
  /\ watch = "alive" /\ watch' = "ready" /\ watchAlive' = IsAlive
  /\ UNCHANGED <<vars, agentVars, sinceWatch, serving, monitored>>

WatchReady ==
  /\ watch = "ready" /\ watch' = "idle" /\ watchAlive' = FALSE /\ monitored' = TRUE
  /\ serving' = {service \in {"ready", "alive", ""} :
                   CASE service = "ready" -> IsReady
                     [] service = "alive" -> watchAlive
                     [] service = ""      -> IsReady /\ watchAlive}
  /\ UNCHANGED <<vars, agentVars, sinceWatch>>

-----------------------------------------------------------------------------
ProbesNext ==
  \/ Registry \/ Tick
  \/ CheckAlive \/ CheckReady \/ Stop
  \/ LnS \/ WatchAlive \/ WatchReady

ProbesSpec == ProbesInit /\ [][ProbesNext]_probeVars

\* What the agent has told the OpAMP server, and its last SetHealth did not fail.
ToldHealthy == told /\ ~missed /\ stop = "running"
\* What the gRPC health service says; "" is SERVING unasked until the monitor speaks.
CalledServing == "ready" \in serving \/ (monitored /\ "" \in serving)

\* Whoever hears of the health second hand hears something recent: as long as the
\* OpAMP server is told that Refinery is healthy, every registered subsystem has
\* reported or registered within its timeout, one tick of the registry and one of
\* the agent, unless the agent's last SetHealth failed, which nothing repeats.  The
\* clients of the gRPC health service are told as much by the monitor, but not by
\* the server it starts with, which calls "" SERVING until the first tick.
HearsayFresh ==
  /\ ToldHealthy =>
       \A s \in timeouts : silent[s] < Timeout[s] + TickerTime + HealthCheckInterval
  /\ CalledServing =>
       \A s \in timeouts : silent[s] < Timeout[s] + TickerTime + WatchInterval
=============================================================================
