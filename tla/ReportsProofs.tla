---------------------------- MODULE ReportsProofs ----------------------------
(***************************************************************************)
(* Proofs about what an instance tells others of itself: its health, as    *)
(* Health and Probes have it, for any subsystems, timeouts, TickerTime and *)
(* intervals, and its usage and its configuration, as Agent has them.      *)
(*                                                                         *)
(* What is told of the health is recent: the registry is not disturbed by  *)
(* its readers, so its own invariant carries over; beside it, whoever is   *)
(* told "healthy" was told so when the answer was fresh, and as much time  *)
(* has passed since as the teller's ticker has counted.  Usage is reported *)
(* exactly, and what is called applied is installed.                       *)
(***************************************************************************)
EXTENDS Probes, Agent, TLAPS

-----------------------------------------------------------------------------
(* The registry. *)

\* A subsystem that has reported: its remaining time and its silence add up to
\* its timeout, give or take where in the tick it reported.
Accounted(s) ==
  /\ timeLeft[s] >= 0
  /\ timeLeft[s] > 0 => silent[s] + timeLeft[s] <= Timeout[s] + phase
  /\ silent[s] + timeLeft[s] + TickerTime > Timeout[s] + phase

Countdown == \A s \in timeouts : timeLeft[s] = -1 \/ Accounted(s)

\* What one step of the ticker makes of a counter.
LEMMA DecrementedValue ==
  ASSUME NEW n \in Int
  PROVE  /\ Decremented(n) \in Int
         /\ n > TickerTime => Decremented(n) = n - TickerTime
         /\ n > 0 /\ n <= TickerTime => Decremented(n) = 0
         /\ n <= 0 => Decremented(n) = n
  BY HealthAssumption DEF Decremented

\* The state stays well typed, and every registered subsystem has its entry in
\* readies, as checkReady relies on.
THEOREM TypeCorrect == Spec => []TypeOK
<1>1. Init => TypeOK
  BY HealthAssumption DEF Init, TypeOK
<1>2. ASSUME TypeOK, [Next]_vars PROVE TypeOK'
  <2> USE <1>2, HealthAssumption DEF TypeOK
  <2>1. ASSUME NEW s \in Subsystem, Register(s) PROVE TypeOK'
    BY <2>1 DEF Register
  <2>2. ASSUME NEW s \in Subsystem, Unregister(s) PROVE TypeOK'
    BY <2>2 DEF Unregister
  <2>3. ASSUME NEW s \in Subsystem, NEW ready \in BOOLEAN, Ready(s, ready) PROVE TypeOK'
    BY <2>3 DEF Ready
  <2>4. ASSUME AdvanceTime PROVE TypeOK'
    <3>1. timeLeft' \in [Subsystem -> Int]
      BY <2>4, DecrementedValue DEF AdvanceTime
    <3>2. QED
      BY <2>4, <3>1 DEF AdvanceTime
  <2>5. ASSUME UNCHANGED vars PROVE TypeOK'
    BY <2>5 DEF vars
  <2>6. QED
    BY <2>1, <2>2, <2>3, <2>4, <2>5 DEF Next
<1>3. QED
  BY <1>1, <1>2, PTL DEF Spec

\* Every step keeps the account of a subsystem's remaining time.
LEMMA CountdownStep ==
  ASSUME TypeOK, Countdown, [Next]_vars
  PROVE  Countdown'
<1> USE HealthAssumption DEF TypeOK, Countdown, Accounted
<1>1. ASSUME NEW s \in Subsystem, Register(s) PROVE Countdown'
  BY <1>1 DEF Register
<1>2. ASSUME NEW s \in Subsystem, Unregister(s) PROVE Countdown'
  BY <1>2 DEF Unregister
<1>3. ASSUME NEW s \in Subsystem, NEW ready \in BOOLEAN, Ready(s, ready) PROVE Countdown'
  BY <1>3 DEF Ready
<1>4. ASSUME AdvanceTime PROVE Countdown'
  <2> SUFFICES ASSUME NEW s \in timeouts, timeLeft[s] # -1
               PROVE  (timeLeft[s] = -1 \/ Accounted(s))'
    <3>1. \A s \in timeouts : timeLeft[s] = -1 => timeLeft'[s] = -1
      BY <1>4, DecrementedValue DEF AdvanceTime
    <3>2. QED
      BY <1>4, <3>1 DEF AdvanceTime
  <2>1. s \in Subsystem /\ Accounted(s) /\ silent'[s] = silent[s] + 1 /\ Timeout[s] \in Nat
    BY <1>4 DEF AdvanceTime
  <2>2. CASE phase + 1 < TickerTime
    BY <1>4, <2>1, <2>2 DEF AdvanceTime
  <2>3. CASE ~(phase + 1 < TickerTime)
    <3>1. phase + 1 = TickerTime /\ phase' = 0 /\ timeLeft'[s] = Decremented(timeLeft[s])
      BY <1>4, <2>1, <2>3 DEF AdvanceTime
    <3>2. \/ timeLeft[s] > TickerTime /\ timeLeft'[s] = timeLeft[s] - TickerTime
          \/ timeLeft[s] <= TickerTime /\ timeLeft'[s] = 0
      BY <2>1, <3>1, DecrementedValue
    <3>3. QED
      BY <2>1, <3>1, <3>2
  <2>4. QED
    BY <2>2, <2>3
<1>5. ASSUME UNCHANGED vars PROVE Countdown'
  BY <1>5 DEF vars
<1>6. QED
  BY <1>1, <1>2, <1>3, <1>4, <1>5 DEF Next

\* The inductive invariant of the registry.
LEMMA CountdownInvariant == Spec => [](TypeOK /\ Countdown)
<1>1. Init => Countdown
  BY DEF Init, Countdown
<1>2. QED
  BY <1>1, CountdownStep, TypeCorrect, PTL DEF Spec

\* A positive answer of IsReady is never older than a subsystem's timeout and
\* one tick, whenever in the tick it reported.
THEOREM ReadyAnswersFresh == Spec => []ReadyIsFresh
<1>1. TypeOK /\ Countdown => ReadyIsFresh
  BY HealthAssumption DEF TypeOK, Countdown, Accounted, ReadyIsFresh, IsReady
<1>2. QED
  BY <1>1, CountdownInvariant, PTL

\* A subsystem that has gone silent is found out at the latest one tick after
\* its timeout.
THEOREM SilenceAlwaysDetected == Spec => []SilenceDetected
<1>1. TypeOK /\ Countdown => SilenceDetected
  BY HealthAssumption DEF TypeOK, Countdown, Accounted, SilenceDetected, IsAlive
<1>2. QED
  BY <1>1, CountdownInvariant, PTL

\* No subsystem is declared dead more than one tick early.
THEOREM DeathNeverEarly == Spec => []NoEarlyDeath
<1>1. TypeOK /\ Countdown => NoEarlyDeath
  BY HealthAssumption DEF TypeOK, Countdown, Accounted, NoEarlyDeath, IsAlive
<1>2. QED
  BY <1>1, CountdownInvariant, PTL

\* A silent subsystem is found out on time, give or take one tick.
THEOREM DeathAlwaysOnTime == Spec => []DeathOnTime
  BY SilenceAlwaysDetected, DeathNeverEarly, PTL DEF DeathOnTime

\* An unregistered subsystem keeps IsReady false until it registers and reports
\* again; a late report changes nothing.
THEOREM UnregisteredStaysUnready == Spec => []UnregisteredNotReady
<1> DEFINE Gone == \A s \in gone : s \in seen \ timeouts /\ ~readies[s]
<1>1. Init => Gone
  BY DEF Init
<1>2. TypeOK /\ Gone /\ [Next]_vars => Gone'
  BY DEF TypeOK, Next, vars, Register, Unregister, Ready, AdvanceTime
<1>3. Gone => UnregisteredNotReady
  BY DEF UnregisteredNotReady, IsReady
<1>4. QED
  BY <1>1, <1>2, <1>3, TypeCorrect, PTL DEF Spec

-----------------------------------------------------------------------------
(* Those who pass its answers on. *)

Counters ==
  /\ sinceCheck \in Nat /\ sinceCheck < HealthCheckInterval
  /\ sinceWatch \in Nat /\ sinceWatch < WatchInterval

ProbesTypeOK ==
  /\ Counters
  /\ told \in BOOLEAN /\ missed \in BOOLEAN /\ watchAlive \in BOOLEAN /\ monitored \in BOOLEAN
  /\ check \in {"idle", "alive", "ready"} /\ watch \in {"off", "idle", "alive", "ready"}
  /\ lastHealth \in {"nil", "healthy", "unhealthy"} /\ stop \in {"running", "told", "stopped"}
  /\ serving \subseteq {"ready", "alive", ""}

\* Units since an answer was read that is not about to be replaced.
CheckAge == IF check = "idle" THEN sinceCheck ELSE HealthCheckInterval
WatchAge == IF watch = "idle" THEN sinceWatch ELSE WatchInterval

Fresh(age) == \A s \in timeouts : silent[s] < Timeout[s] + TickerTime + age

ToldFresh ==
  /\ ToldHealthy => lastHealth = "healthy" /\ Fresh(CheckAge)
  /\ CalledServing => Fresh(WatchAge)
  /\ watch = "off" => serving = {}
  /\ watch = "off" => ~monitored
  /\ ~monitored => "ready" \notin serving

Known == TypeOK /\ Countdown /\ ProbesTypeOK

\* Readers leave the registry as it is.
LEMMA ProbesImplyHealth == ProbesSpec => Spec
<1>1. ProbesInit => Init
  BY DEF ProbesInit
<1>2. ASSUME [ProbesNext]_probeVars PROVE [Next]_vars
  <2>1. CASE Registry
    BY <2>1 DEF Registry, Next
  <2>2. CASE Tick
    BY <2>2 DEF Tick, Next
  <2>3. CASE CheckAlive \/ CheckReady \/ Stop \/ LnS \/ WatchAlive \/ WatchReady
    BY <2>3 DEF CheckAlive, CheckReady, Stop, LnS, WatchAlive, WatchReady, vars
  <2>4. CASE UNCHANGED probeVars
    BY <2>4 DEF probeVars
  <2> QED
    BY <1>2, <2>1, <2>2, <2>3, <2>4 DEF ProbesNext
<1> QED
  BY <1>1, <1>2, PTL DEF ProbesSpec, Spec

\* A ticker that is due starts to count anew.
LEMMA TickCounters ==
  ASSUME Counters, Tick
  PROVE  Counters'
<1>1. \/ sinceCheck' = sinceCheck + 1 /\ sinceCheck + 1 < HealthCheckInterval
      \/ sinceCheck' = 0
  BY DEF Tick
<1>2. \/ sinceWatch' = sinceWatch + 1 /\ sinceWatch + 1 < WatchInterval
      \/ sinceWatch' = 0
      \/ sinceWatch' = sinceWatch
  BY DEF Tick
<1> QED
  BY <1>1, <1>2, IntervalAssumption DEF Counters

\* So does the ticker of a new monitor.
LEMMA StartCounters ==
  ASSUME Counters, LnS
  PROVE  Counters'
<1>1. sinceCheck' = sinceCheck /\ sinceWatch' = 0
  BY DEF LnS, agentVars
<1> QED
  BY <1>1, IntervalAssumption DEF Counters

\* The readers' own state stays well typed.
LEMMA ProbesType == ProbesSpec => []ProbesTypeOK
<1>1. ProbesInit => ProbesTypeOK
  <2>1. ProbesInit => Counters
    BY IntervalAssumption DEF ProbesInit, Counters
  <2> QED
    BY <2>1 DEF ProbesInit, ProbesTypeOK
<1>2. ASSUME ProbesTypeOK, [ProbesNext]_probeVars PROVE ProbesTypeOK'
  <2> USE <1>2 DEF ProbesTypeOK
  <2>1. CASE Registry
    BY <2>1 DEF Registry, agentVars, grpcVars, Counters
  <2>2. CASE Tick
    <3>1. Counters'
      BY <2>2, TickCounters
    <3>2. check' \in {"idle", "alive"} /\ watch' \in {"off", "idle", "alive"}
      BY <2>2 DEF Tick
    <3> QED
      BY <2>2, <3>1, <3>2 DEF Tick
  <2>3. CASE CheckAlive
    BY <2>3 DEF CheckAlive, Conclude, SetHealth, grpcVars, Counters
  <2>4. CASE CheckReady
    <3>1. Healthy \in BOOLEAN
      BY DEF Healthy, IsReady
    <3> QED
      BY <2>4, <3>1 DEF CheckReady, Conclude, SetHealth, grpcVars, Counters
  <2>5. CASE Stop
    BY <2>5 DEF Stop, SetHealth, grpcVars, Counters
  <2>6. CASE WatchAlive
    BY <2>6 DEF WatchAlive, agentVars, IsAlive, Counters
  <2>7. CASE WatchReady
    BY <2>7 DEF WatchReady, agentVars, Counters
  <2>8. CASE UNCHANGED probeVars
    BY <2>8 DEF probeVars, agentVars, grpcVars, Counters
  <2>9. CASE LnS
    <3>1. Counters'
      BY <2>9, StartCounters
    <3>2. /\ UNCHANGED <<told, missed, watchAlive, monitored, check, lastHealth, stop>>
          /\ watch' = "idle" /\ serving' = {""}
      BY <2>9 DEF LnS, NewServer, agentVars
    <3> QED
      BY <3>1, <3>2
  <2> QED
    BY <2>1, <2>2, <2>3, <2>4, <2>5, <2>6, <2>7, <2>8, <2>9 DEF ProbesNext
<1> QED
  BY <1>1, <1>2, PTL DEF ProbesSpec

\* A positive answer is fresh when it is read.
LEMMA AnswerFresh ==
  ASSUME TypeOK, Countdown, IsReady, NEW a \in Nat
  PROVE  Fresh(a)
<1> SUFFICES ASSUME NEW s \in timeouts PROVE silent[s] < Timeout[s] + TickerTime + a
  BY DEF Fresh
<1>1. timeLeft[s] > 0 /\ timeLeft[s] \in Int /\ silent[s] \in Nat /\ Timeout[s] \in Nat
  BY HealthAssumption DEF TypeOK, IsReady
<1>2. silent[s] + timeLeft[s] <= Timeout[s] + phase
  BY <1>1 DEF Countdown, Accounted
<1>3. phase \in Nat /\ TickerTime \in Nat /\ phase < TickerTime
  BY HealthAssumption DEF TypeOK
<1> QED
  BY <1>1, <1>2, <1>3

\* Nothing is older than the interval of whoever tells it.
LEMMA Ages ==
  ASSUME ProbesTypeOK
  PROVE  /\ CheckAge \in Nat /\ CheckAge <= HealthCheckInterval
         /\ WatchAge \in Nat /\ WatchAge <= WatchInterval
<1>1. Counters
  BY DEF ProbesTypeOK
<1>2. CheckAge \in Nat /\ CheckAge <= HealthCheckInterval
  <2>1. CASE check # "idle"
    BY <2>1, IntervalAssumption DEF CheckAge
  <2>2. CASE check = "idle"
    BY <1>1, <2>2, IntervalAssumption DEF Counters, CheckAge
  <2> QED
    BY <2>1, <2>2
<1>3. WatchAge \in Nat /\ WatchAge <= WatchInterval
  <2>1. CASE watch # "idle"
    BY <2>1, IntervalAssumption DEF WatchAge
  <2>2. CASE watch = "idle"
    BY <1>1, <2>2, IntervalAssumption DEF Counters, WatchAge
  <2> QED
    BY <2>1, <2>2
<1> QED
  BY <1>2, <1>3

\* A step of the registry makes no answer older than time does.
LEMMA AgeStep ==
  ASSUME TypeOK, TypeOK', NEW a \in Nat, NEW b \in Nat, Fresh(a), [Next]_vars,
         b = a + 1 \/ (b = a /\ ~AdvanceTime)
  PROVE  \A s \in timeouts' : silent'[s] < Timeout[s] + TickerTime + b
<1> SUFFICES ASSUME NEW s \in timeouts'
             PROVE  silent'[s] < Timeout[s] + TickerTime + b
  OBVIOUS
<1>1. s \in Subsystem /\ silent'[s] \in Nat /\ Timeout[s] \in Nat \ {0} /\ TickerTime \in Nat
  BY HealthAssumption DEF TypeOK
<1>2. \/ silent'[s] = 0
      \/ s \in timeouts /\ silent'[s] = silent[s]
      \/ AdvanceTime /\ s \in timeouts /\ silent'[s] = silent[s] + 1
  <2>1. ASSUME NEW t \in Subsystem, Register(t) PROVE <1>2!1 \/ <1>2!2
    BY <1>1, <2>1 DEF Register, TypeOK
  <2>2. ASSUME NEW t \in Subsystem, Unregister(t) PROVE <1>2!2
    BY <1>1, <2>2 DEF Unregister, TypeOK
  <2>3. ASSUME NEW t \in Subsystem, NEW ready \in BOOLEAN, Ready(t, ready)
        PROVE  <1>2!1 \/ <1>2!2
    BY <1>1, <2>3 DEF Ready, TypeOK
  <2>4. CASE AdvanceTime
    BY <1>1, <2>4 DEF AdvanceTime
  <2>5. CASE UNCHANGED vars
    BY <2>5 DEF vars
  <2> QED
    BY <2>1, <2>2, <2>3, <2>4, <2>5 DEF Next
<1>3. s \in timeouts => silent[s] \in Nat /\ silent[s] < Timeout[s] + TickerTime + a
  BY <1>1 DEF Fresh, TypeOK
<1> QED
  BY <1>1, <1>2, <1>3

\* The inductive step.
LEMMA ToldFreshStep ==
  ASSUME Known, Known', ToldFresh, [ProbesNext]_probeVars
  PROVE  ToldFresh'
<1> USE DEF Known
<1>1. CheckAge \in Nat /\ WatchAge \in Nat /\ CheckAge' \in Nat /\ WatchAge' \in Nat
  <2>1. CheckAge' \in Nat
    BY IntervalAssumption DEF ProbesTypeOK, Counters, CheckAge
  <2>2. WatchAge' \in Nat
    BY IntervalAssumption DEF ProbesTypeOK, Counters, WatchAge
  <2> QED
    BY Ages, <2>1, <2>2
<1>2. CASE Registry
  <2>1. check' = check /\ sinceCheck' = sinceCheck /\ watch' = watch /\ sinceWatch' = sinceWatch
        /\ told' = told /\ stop' = stop /\ lastHealth' = lastHealth /\ serving' = serving
        /\ missed' = missed /\ monitored' = monitored
    BY <1>2 DEF Registry, agentVars, grpcVars
  <2>2. CheckAge' = CheckAge /\ WatchAge' = WatchAge
    BY <2>1 DEF CheckAge, WatchAge
  <2>3. now' = now
    BY <1>2 DEF Registry, Register, Unregister, Ready
  <2>4. now \in Nat
    BY HealthAssumption DEF TypeOK
  <2>5. ~AdvanceTime
    BY <2>3, <2>4 DEF AdvanceTime
  <2>6. Next
    BY <1>2 DEF Registry, Next
  <2>7. Fresh(CheckAge) => Fresh(CheckAge)'
    BY <1>1, <2>2, <2>5, <2>6, AgeStep DEF Fresh
  <2>8. Fresh(WatchAge) => Fresh(WatchAge)'
    BY <1>1, <2>2, <2>5, <2>6, AgeStep DEF Fresh
  <2> QED
    BY <2>1, <2>7, <2>8 DEF ToldFresh, ToldHealthy, CalledServing
<1>3. CASE Tick
  <2>1. check = "idle" /\ watch \in {"off", "idle"} /\ Counters
    BY <1>3 DEF Tick, ProbesTypeOK
  <2>2. CheckAge' = CheckAge + 1
    BY <1>3, <2>1, IntervalAssumption DEF Counters, CheckAge, Tick
  <2>3. watch = "idle" => WatchAge' = WatchAge + 1
    BY <1>3, <2>1, IntervalAssumption DEF Counters, WatchAge, Tick
  <2>4. Next
    BY <1>3 DEF Tick, Next
  <2>5. Fresh(CheckAge) => Fresh(CheckAge)'
    BY <1>1, <2>2, <2>4, AgeStep DEF Fresh
  <2>6. watch = "idle" /\ Fresh(WatchAge) => Fresh(WatchAge)'
    BY <1>1, <2>3, <2>4, AgeStep DEF Fresh
  <2>7. /\ told' = told /\ missed' = missed /\ stop' = stop /\ lastHealth' = lastHealth
        /\ serving' = serving /\ monitored' = monitored /\ (watch' = "off" => watch = "off")
    BY <1>3 DEF Tick
  <2> QED
    BY <2>1, <2>5, <2>6, <2>7 DEF ToldFresh, ToldHealthy, CalledServing
<1>4. CASE CheckAlive
  <2>1. timeouts' = timeouts /\ silent' = silent /\ serving' = serving /\ WatchAge' = WatchAge
        /\ stop' = stop /\ CheckAge = HealthCheckInterval /\ UNCHANGED <<watch, monitored>>
    BY <1>4 DEF CheckAlive, vars, grpcVars, WatchAge, CheckAge
  <2>2. CASE IsAlive
    <3>1. told' = told /\ missed' = missed /\ lastHealth' = lastHealth /\ CheckAge' = CheckAge
      BY <1>4, <2>1, <2>2 DEF CheckAlive, CheckAge
    <3> QED
      BY <2>1, <3>1 DEF ToldFresh, ToldHealthy, CalledServing, Fresh
  <2>3. CASE ~IsAlive
    <3>1. ~ToldHealthy'
      BY <1>4, <2>1, <2>3 DEF CheckAlive, Conclude, SetHealth, ToldFresh, ToldHealthy
    <3> QED
      BY <2>1, <3>1 DEF ToldFresh, ToldHealthy, CalledServing, Fresh
  <2> QED
    BY <2>2, <2>3
<1>5. CASE CheckReady
  <2>1. timeouts' = timeouts /\ silent' = silent /\ serving' = serving /\ WatchAge' = WatchAge
        /\ stop' = stop /\ UNCHANGED <<watch, monitored>>
    BY <1>5 DEF CheckReady, vars, grpcVars, WatchAge
  <2>2. ToldHealthy' => IsReady /\ lastHealth' = "healthy"
    BY <1>5, <2>1 DEF CheckReady, Conclude, SetHealth, Healthy, ToldFresh, ToldHealthy, ProbesTypeOK
  <2>3. IsReady => Fresh(CheckAge)'
    BY <1>1, <2>1, AnswerFresh DEF Fresh
  <2> QED
    BY <2>1, <2>2, <2>3 DEF ToldFresh, CalledServing, Fresh
<1>6. CASE Stop
  BY <1>6 DEF Stop, ToldFresh, ToldHealthy, CalledServing, vars, grpcVars, Fresh, CheckAge, WatchAge
<1>7. CASE WatchAlive
  <2>1. timeouts' = timeouts /\ silent' = silent /\ serving' = serving /\ WatchAge' = WatchAge
        /\ CheckAge' = CheckAge /\ told' = told /\ stop' = stop /\ lastHealth' = lastHealth
        /\ missed' = missed /\ monitored' = monitored /\ watch' # "off"
    BY <1>7 DEF WatchAlive, vars, agentVars, CheckAge, WatchAge
  <2> QED
    BY <2>1 DEF ToldFresh, ToldHealthy, CalledServing, Fresh
<1>8. CASE WatchReady
  <2>1. timeouts' = timeouts /\ silent' = silent /\ CheckAge' = CheckAge
        /\ told' = told /\ stop' = stop /\ lastHealth' = lastHealth /\ missed' = missed
        /\ monitored' /\ watch' # "off"
    BY <1>8 DEF WatchReady, vars, agentVars, CheckAge
  <2>2. CalledServing' => IsReady
    BY <1>8 DEF WatchReady, CalledServing
  <2>3. IsReady => Fresh(WatchAge)'
    BY <1>1, <2>1, AnswerFresh DEF Fresh
  <2> QED
    BY <2>1, <2>2, <2>3 DEF ToldFresh, ToldHealthy, Fresh
<1>9. CASE UNCHANGED probeVars
  BY <1>9 DEF probeVars, vars, agentVars, grpcVars, ToldFresh, ToldHealthy, CalledServing, Fresh,
              CheckAge, WatchAge
<1>10. CASE LnS
  BY <1>10 DEF LnS, NewServer, vars, agentVars, ToldFresh, ToldHealthy, CalledServing, Fresh, CheckAge
<1> QED
  BY <1>2, <1>3, <1>4, <1>5, <1>6, <1>7, <1>8, <1>9, <1>10 DEF ProbesNext

\* Neither a SetHealth that succeeds nor the gRPC health monitor lets a listener
\* believe "healthy" of a process whose subsystems have neither reported nor
\* registered for their timeout, a tick of the registry and one of the teller, for
\* any subsystems, timeouts and intervals.  A SetHealth that fails may, and so does
\* the gRPC server before the monitor's first tick.
THEOREM HearsayAlwaysFresh == ProbesSpec => []HearsayFresh
<1>1. ProbesInit => ToldFresh
  BY DEF ProbesInit, ToldFresh, ToldHealthy, CalledServing
<1>2. ASSUME Known, ToldFresh PROVE HearsayFresh
  <2>1. \A s \in timeouts : silent[s] \in Nat /\ Timeout[s] \in Nat
    BY <1>2, HealthAssumption DEF Known, TypeOK
  <2>2. /\ CheckAge \in Nat /\ CheckAge <= HealthCheckInterval
        /\ WatchAge \in Nat /\ WatchAge <= WatchInterval
    BY <1>2, Ages DEF Known
  <2>3. Fresh(CheckAge) =>
          \A s \in timeouts : silent[s] < Timeout[s] + TickerTime + HealthCheckInterval
    BY <2>1, <2>2, HealthAssumption, IntervalAssumption DEF Fresh
  <2>4. Fresh(WatchAge) =>
          \A s \in timeouts : silent[s] < Timeout[s] + TickerTime + WatchInterval
    BY <2>1, <2>2, HealthAssumption, IntervalAssumption DEF Fresh
  <2> QED
    BY <1>2, <2>3, <2>4 DEF ToldFresh, HearsayFresh
<1>3. ProbesSpec => []Known
  BY ProbesImplyHealth, CountdownInvariant, ProbesType, PTL DEF Known
<1> QED
  BY <1>1, <1>2, <1>3, ToldFreshStep, PTL DEF ProbesSpec

-----------------------------------------------------------------------------
(* Usage. *)

Waiting == {"send", "pending", "wait"}

\* Types, as far as the arithmetic needs them.
Readings == DOMAIN adding \subseteq Signal /\ \A s \in DOMAIN adding : adding[s] \in Nat
Numbers ==
  /\ received \in [Signal -> Nat] /\ lastUsageData \in [Signal -> Nat]
  /\ reported \in [Signal -> Int] /\ failures \in Nat /\ lossy \in BOOLEAN
  /\ \A s \in Signal : At(currentDataPoints, s) \in Int /\ At(lastDataPoints, s) \in Int

\* Where a report is, what it holds and what the client has of it.
Reporting ==
  /\ report = [pc |-> report.pc, data |-> report.data]
  /\ report.pc \in Waiting \cup {"idle", "sent", "ended"}
  /\ report.pc \notin {"idle", "ended"} => \A s \in Signal : report.data[s] \in Int
  /\ report.pc = "ended" => stopping = "cancelled"
  /\ report.pc = "wait" => outbox = {report.data}
  /\ outbox # {} => report.pc \in {"wait", "ended"}

\* Unless the report before it failed, lastDataPoints is what the report under
\* way has taken, so that a first failure loses nothing.
Fallback ==
  /\ failures >= 2 => lossy
  /\ failures = 0 /\ report.pc = "idle" => \A s \in Signal : At(lastDataPoints, s) = 0
  /\ failures = 0 /\ report.pc \in Waiting => \A s \in Signal : report.data[s] = At(lastDataPoints, s)

UsageInv == Readings /\ Numbers /\ Reporting /\ Fallback /\ UsageExact

\* An empty report reads zero for every signal.
LEMMA EmptyReads == \A s : At(Empty, s) = 0
BY DEF At, Empty

\* The invariant holds when the agent starts with nothing counted.
LEMMA UsageInit == AgentInit => UsageInv
<1> SUFFICES ASSUME AgentInit PROVE UsageInv
  OBVIOUS
<1>1. Readings
  BY DEF AgentInit, Readings, Empty
<1>2. Numbers
  <2>1. \A s \in Signal : At(currentDataPoints, s) = 0 /\ At(lastDataPoints, s) = 0
    BY EmptyReads DEF AgentInit
  <2>2. lossy \in BOOLEAN
    BY Zenon DEF AgentInit
  <2>3. /\ received \in [Signal -> Nat] /\ lastUsageData \in [Signal -> Nat]
        /\ reported \in [Signal -> Int] /\ failures \in Nat
    BY DEF AgentInit
  <2>4. \A s \in Signal : At(currentDataPoints, s) \in Int /\ At(lastDataPoints, s) \in Int
    BY <2>1
  <2> QED
    BY <2>2, <2>3, <2>4, Zenon DEF Numbers
<1>3. Reporting
  BY DEF AgentInit, Reporting, NotSending, Waiting
<1>4. Fallback
  BY EmptyReads DEF AgentInit, Fallback, NotSending, Waiting
<1>5. UsageExact
  BY EmptyReads DEF AgentInit, UsageExact, Unreported, NotSending
<1> QED
  BY <1>1, <1>2, <1>3, <1>4, <1>5 DEF UsageInv

\* Steps that leave the tracker and its report alone.
LEMMA UsageIdle ==
  ASSUME UsageInv, Readings', received' \in [Signal -> Nat],
         UNCHANGED <<pointVars, sendVars>>, stopping' = stopping \/ report.pc # "ended"
  PROVE UsageInv'
<1>1. Numbers'
  BY DEF UsageInv, Numbers, At, pointVars, sendVars
<1>2. Reporting'
  BY DEF UsageInv, Reporting, sendVars
<1>3. Fallback'
  BY DEF UsageInv, Fallback, At, pointVars, sendVars
<1>4. UsageExact'
  BY DEF UsageInv, UsageExact, Unreported, At, pointVars, sendVars
<1> QED
  BY <1>1, <1>2, <1>3, <1>4 DEF UsageInv

\* usageTracker.Add keeps the invariant: the new reading replaces the last one.
LEMMA UsageAdd ==
  ASSUME UsageInv, NEW s \in Signal, Add(s)
  PROVE UsageInv'
<1> USE DEF UsageInv
<1>1. Readings'
  BY DEF Add, Readings
<1>2. adding[s] \in Nat
  BY DEF Add, Readings
<1>3. \A t \in Signal :
        At(currentDataPoints, t)' = At(currentDataPoints, t) + (lastUsageData'[t] - lastUsageData[t])
  <2>1. CASE adding[s] = 0
    BY <2>1 DEF Add, At, Numbers
  <2>2. CASE adding[s] # 0
    <3> TAKE t \in Signal
    <3>1. CASE t = s
      BY <1>2, <2>2, <3>1 DEF Add, At, Gathered, Numbers
    <3>2. CASE t # s
      BY <1>2, <2>2, <3>2 DEF Add, At, Numbers
    <3> QED
      BY <3>1, <3>2
  <2> QED
    BY <2>1, <2>2
<1>4. lastUsageData' \in [Signal -> Nat]
  BY <1>2 DEF Add, Numbers
<1>5. Numbers'
  <2>1. \A t \in Signal : At(lastDataPoints, t)' = At(lastDataPoints, t)
    BY DEF Add, At
  <2> QED
    BY <1>3, <1>4, <2>1 DEF Add, Numbers, sendVars
<1>6. Reporting'
  BY DEF Add, Reporting, sendVars
<1>7. \A t \in Signal : At(lastDataPoints, t)' = At(lastDataPoints, t)
  BY DEF Add, At
<1>8. Fallback'
  BY <1>7 DEF Add, Fallback, sendVars
<1>9. UsageExact'
  <2> SUFFICES ASSUME ~lossy, report.pc # "ended", NEW t \in Signal
               PROVE lastUsageData'[t] = reported[t] + Unreported(t)'
    BY DEF UsageExact, Add, sendVars
  <2>1. lastUsageData[t] = reported[t] + Unreported(t)
    BY DEF UsageExact
  <2>2. PICK n \in Int : /\ Unreported(t) = At(currentDataPoints, t) + n
                         /\ Unreported(t)' = At(currentDataPoints, t)' + n
    BY <1>7 DEF Unreported, Add, sendVars, Numbers, Reporting
  <2> QED
    BY <1>3, <1>4, <2>1, <2>2 DEF Numbers
<1> QED
  BY <1>1, <1>5, <1>6, <1>8, <1>9

\* NewReport keeps it: what it moves into the report leaves the current data points.
LEMMA UsageNewReport ==
  ASSUME UsageInv, NewReport
  PROVE UsageInv'
<1> USE DEF UsageInv
<1>1. Readings'
  BY DEF NewReport, Readings, readVars
<1>2. \A s \in Signal : /\ report'.data[s] = At(currentDataPoints, s) + At(lastDataPoints, s)
                        /\ At(lastDataPoints, s)' = At(currentDataPoints, s)
                        /\ At(currentDataPoints, s)' = 0
  BY EmptyReads DEF NewReport, At
<1>3. Numbers'
  BY <1>2 DEF NewReport, Numbers, readVars
<1>4. Reporting'
  <2>1. \A s \in Signal : report'.data[s] \in Int
    BY <1>2 DEF Numbers
  <2> QED
    BY <2>1 DEF NewReport, Reporting, Waiting
<1>5. Fallback'
  BY <1>2 DEF NewReport, Fallback, Numbers, Waiting
<1>6. UsageExact'
  <2> SUFFICES ASSUME ~lossy, NEW s \in Signal
               PROVE lastUsageData[s] = reported[s] + Unreported(s)'
    BY DEF UsageExact, NewReport
  <2>1. lastUsageData[s] = reported[s] + (At(currentDataPoints, s) + At(lastDataPoints, s))
    BY DEF UsageExact, Unreported, NewReport
  <2>2. Unreported(s)' = 0 + (At(currentDataPoints, s) + At(lastDataPoints, s))
    BY <1>2 DEF Unreported, NewReport
  <2> QED
    BY <2>1, <2>2 DEF Numbers
<1> QED
  BY <1>1, <1>3, <1>4, <1>5, <1>6

\* SendCustomMessage keeps it, whether the client takes the message or refuses it.
LEMMA UsageSendCustomMessage ==
  ASSUME UsageInv, SendCustomMessage
  PROVE UsageInv'
<1> USE DEF UsageInv
<1>1. Readings'
  BY DEF SendCustomMessage, Readings, readVars
<1>2. \A s : /\ At(currentDataPoints, s)' = At(currentDataPoints, s)
             /\ At(lastDataPoints, s)' = At(lastDataPoints, s)
  BY DEF SendCustomMessage, At, pointVars
<1>3. /\ report.pc \in {"send", "pending"} /\ failures \in Nat /\ lossy \in BOOLEAN
      /\ UNCHANGED <<lastUsageData, reported, received>>
  BY DEF SendCustomMessage, Numbers, pointVars, readVars
<1>4. Reporting'
  BY DEF SendCustomMessage, Reporting, NotSending, Waiting
<1>5. CASE report' # NotSending
  <2>1. /\ report'.data = report.data /\ report'.pc \in {"pending", "wait"}
        /\ UNCHANGED <<failures, lossy>>
    BY <1>5 DEF SendCustomMessage, Reporting
  <2>2. Numbers'
    BY <1>2, <1>3, <2>1 DEF Numbers
  <2>3. Fallback'
    BY <1>2, <1>3, <2>1 DEF Fallback, Waiting
  <2>4. \A s \in Signal : Unreported(s)' = Unreported(s)
    BY <1>2, <1>3, <2>1 DEF Unreported
  <2>5. UsageExact'
    BY <1>3, <2>1, <2>4 DEF UsageExact
  <2> QED
    BY <1>1, <1>4, <2>2, <2>3, <2>5
<1>6. CASE report' = NotSending
  <2>1. failures' = failures + 1 /\ lossy' = (lossy \/ failures >= 1) /\ report'.pc = "idle"
    BY <1>6 DEF SendCustomMessage, NotSending, Reporting
  <2>2. Numbers'
    BY <1>2, <1>3, <2>1 DEF Numbers
  <2>3. Fallback'
    <3>1. failures' # 0 /\ (failures' >= 2 => failures >= 1)
      BY <1>3, <2>1
    <3>2. failures' >= 2 => lossy'
      BY <2>1, <3>1, Zenon
    <3> QED
      BY <3>1, <3>2, Zenon DEF Fallback
  <2>4. UsageExact'
    <3> SUFFICES ASSUME ~lossy, failures = 0, NEW s \in Signal
                 PROVE lastUsageData[s] = reported[s] + Unreported(s)'
      <4>1. ~lossy' => ~lossy /\ ~(failures >= 1)
        BY <2>1, Zenon
      <4>2. ~(failures >= 1) => failures = 0
        BY <1>3
      <4> QED
        BY <1>3, <4>1, <4>2, Zenon DEF UsageExact
    <3>1. Unreported(s) = At(currentDataPoints, s) + report.data[s]
      BY <1>3 DEF Unreported
    <3>2. Unreported(s)' = At(currentDataPoints, s) + At(lastDataPoints, s)
      BY <1>2, <2>1 DEF Unreported
    <3> QED
      BY <1>3, <3>1, <3>2 DEF UsageExact, Fallback, Waiting
  <2> QED
    BY <1>1, <1>4, <2>2, <2>3, <2>4
<1> QED
  BY <1>5, <1>6

\* The client that takes the pending message keeps it: the data has one place.
LEMMA UsageClientSends ==
  ASSUME UsageInv, ClientSends
  PROVE UsageInv'
<1> USE DEF UsageInv
<1>1. report.pc = "wait" /\ outbox = {report.data}
  BY DEF ClientSends, Reporting
<1>2. /\ report' = [report EXCEPT !.pc = "sent"] /\ outbox' = {}
      /\ \A s \in Signal : reported'[s] = reported[s] + report.data[s]
      /\ UNCHANGED <<adding, received, lastUsageData, failures, lossy, currentDataPoints, lastDataPoints>>
  BY <1>1 DEF ClientSends, readVars, pointVars
<1>3. Readings'
  BY <1>2 DEF Readings
<1>4. \A s : /\ At(currentDataPoints, s)' = At(currentDataPoints, s)
             /\ At(lastDataPoints, s)' = At(lastDataPoints, s)
  BY <1>2 DEF At
<1>5. Numbers'
  <2>1. reported' \in [Signal -> Int]
    BY <1>1 DEF ClientSends, Numbers, Reporting
  <2> QED
    BY <1>2, <1>4, <2>1 DEF Numbers
<1>6. report'.pc = "sent" /\ report'.data = report.data
  BY <1>2 DEF Reporting
<1>7. Reporting'
  BY <1>1, <1>2, <1>6 DEF Reporting, Waiting
<1>8. Fallback'
  BY <1>2, <1>6 DEF Fallback, Waiting
<1>9. UsageExact'
  <2> SUFFICES ASSUME ~lossy, NEW s \in Signal
               PROVE lastUsageData[s] = reported'[s] + Unreported(s)'
    BY <1>2 DEF UsageExact
  <2>1. Unreported(s) = At(currentDataPoints, s) + report.data[s]
    BY <1>1 DEF Unreported
  <2>2. Unreported(s)' = At(currentDataPoints, s) + 0
    BY <1>4, <1>6 DEF Unreported
  <2> QED
    BY <1>1, <1>2, <2>1, <2>2 DEF UsageExact, Numbers, Reporting
<1> QED
  BY <1>3, <1>5, <1>7, <1>8, <1>9

\* completeSend keeps it: a report that went out is no longer owed.
LEMMA UsageCompleteSend ==
  ASSUME UsageInv, completeSend
  PROVE UsageInv'
<1> USE DEF UsageInv
<1>1. /\ report.pc = "sent" /\ report' = NotSending /\ failures' = 0
      /\ UNCHANGED <<adding, received, lastUsageData, reported, lossy, outbox, currentDataPoints>>
  BY DEF completeSend, readVars
<1>2. \A s : /\ At(currentDataPoints, s)' = At(currentDataPoints, s)
             /\ At(lastDataPoints, s)' = 0
  BY <1>1, EmptyReads DEF completeSend, Completed, At
<1>3. Readings'
  BY <1>1 DEF Readings
<1>4. Numbers'
  BY <1>1, <1>2 DEF Numbers
<1>5. Reporting'
  BY <1>1 DEF Reporting, NotSending, Waiting
<1>6. Fallback'
  BY <1>1, <1>2 DEF Fallback, NotSending, Waiting
<1>7. \A s \in Signal : Unreported(s)' = Unreported(s)
  BY <1>1, <1>2 DEF Unreported, NotSending
<1>8. UsageExact'
  BY <1>1, <1>7 DEF UsageExact
<1> QED
  BY <1>3, <1>4, <1>5, <1>6, <1>8

\* The end of the report loop keeps it, with the report it was sending left unsent.
LEMMA UsageCancelled ==
  ASSUME UsageInv, Cancelled
  PROVE UsageInv'
<1> USE DEF UsageInv
<1>1. /\ stopping = "cancelled" /\ stopping' = stopping /\ report'.pc = "ended" /\ report'.data = report.data
      /\ report' = [pc |-> "ended", data |-> report.data]
      /\ UNCHANGED <<adding, received, pointVars, outbox, reported, failures, lossy>>
  BY DEF Cancelled, readVars, Reporting
<1>2. \A s : /\ At(currentDataPoints, s)' = At(currentDataPoints, s)
             /\ At(lastDataPoints, s)' = At(lastDataPoints, s)
  BY <1>1 DEF pointVars, At
<1>3. Readings' /\ Numbers'
  BY <1>1, <1>2 DEF Readings, Numbers, pointVars
<1>4. Reporting'
  BY <1>1 DEF Reporting, Waiting
<1>5. Fallback' /\ UsageExact'
  BY <1>1 DEF Fallback, UsageExact, Waiting
<1> QED
  BY <1>3, <1>4, <1>5

\* Every step preserves the invariant.  A report has only ended once Stop has
\* cancelled the context, so no step of Stop comes after that.
LEMMA UsageStep ==
  ASSUME UsageInv, [AgentNext]_opampVars
  PROVE UsageInv'
<1>1. ASSUME NEW s \in Signal, Receive(s) PROVE UsageInv'
  <2>1. Readings' /\ received' \in [Signal -> Nat]
    BY <1>1 DEF UsageInv, Receive, Readings, Numbers
  <2> QED
    BY <1>1, <2>1, UsageIdle DEF Receive
<1>2. CASE RecordUsage
  <2>1. Readings' /\ received' \in [Signal -> Nat]
    BY <1>2 DEF UsageInv, RecordUsage, Readings, Numbers
  <2> QED
    BY <1>2, <2>1, UsageIdle DEF RecordUsage
<1>3. ASSUME NEW r \in RemoteConfig, NEW readable \in BOOLEAN, updateRemoteConfig(r, readable)
      PROVE UsageInv'
  <2>1. Readings' /\ received' \in [Signal -> Nat]
    BY <1>3 DEF UsageInv, updateRemoteConfig, Readings, Numbers, readVars
  <2> QED
    BY <1>3, <2>1, UsageIdle DEF updateRemoteConfig
<1>4. CASE StopAgent
  <2>1. Readings' /\ received' \in [Signal -> Nat]
    BY <1>4 DEF UsageInv, StopAgent, Readings, Numbers, readVars
  <2>2. report.pc # "ended"
    BY <1>4 DEF StopAgent, UsageInv, Reporting
  <2> QED
    BY <1>4, <2>1, <2>2, UsageIdle DEF StopAgent
<1>5. CASE UNCHANGED opampVars
  <2>1. Readings' /\ received' \in [Signal -> Nat]
    BY <1>5 DEF UsageInv, opampVars, Readings, Numbers, readVars
  <2> QED
    BY <1>5, <2>1, UsageIdle DEF opampVars
<1> QED
  BY <1>1, <1>2, <1>3, <1>4, <1>5, UsageAdd, UsageNewReport, UsageSendCustomMessage,
     UsageClientSends, UsageCompleteSend, UsageCancelled DEF AgentNext

\* However Adds, reports, the client, its errors and Stop interleave, and for
\* any signals and bounds: as long as no two reports in a row fail, what has
\* been reported and what is kept for a report are the usage that was added.
THEOREM UsageAlwaysExact == AgentSpec => []UsageExact
<1>1. UsageInv => UsageExact
  BY DEF UsageInv
<1> QED
  BY <1>1, UsageInit, UsageStep, PTL DEF AgentSpec

-----------------------------------------------------------------------------
(* Remote configuration. *)

RemoteInv ==
  /\ remote = [received |-> remote.received, status |-> remote.status, hash |-> remote.hash]
  /\ AppliedIsInstalled

\* What onMessage leaves: the status of another configuration is only replaced
\* together with its hash, and "APPLIED" only with every part put in place.
LEMMA RemoteUpdate ==
  ASSUME RemoteInv, NEW r \in RemoteConfig, NEW readable \in BOOLEAN, updateRemoteConfig(r, readable)
  PROVE RemoteInv'
<1> USE DEF RemoteInv
<1>1. CASE ~isConfigChanged(r) \/ r.parts = {}
  <2>1. /\ UNCHANGED installed /\ remote'.status = remote.status /\ remote'.hash = remote.hash
        /\ remote' = [received |-> remote'.received, status |-> remote'.status, hash |-> remote'.hash]
    BY <1>1 DEF updateRemoteConfig
  <2>2. unhashed => unhashed'
    BY Zenon DEF updateRemoteConfig
  <2> QED
    BY <2>1, <2>2 DEF AppliedIsInstalled
<1>2. CASE isConfigChanged(r) /\ r.parts # {} /\ r.hash = NoHash
  <2>1. unhashed'
    BY <1>2, Zenon DEF updateRemoteConfig
  <2>2. remote' = [remote EXCEPT !.received = {r}]
    BY <1>2 DEF updateRemoteConfig, WithStatus
  <2> QED
    BY <2>1, <2>2 DEF AppliedIsInstalled
<1>3. CASE isConfigChanged(r) /\ r.parts # {} /\ r.hash # NoHash
  <2> DEFINE ok == readable /\ r.valid
  <2>1. remote' = [received |-> {r}, status |-> ReloadStatus(ok), hash |-> r.hash]
    BY <1>3 DEF updateRemoteConfig, WithStatus
  <2>2. CASE ~ok
    BY <2>1, <2>2 DEF AppliedIsInstalled, ReloadStatus
  <2>3. CASE ok
    <3>1. \A p \in r.parts : installed'[p] = {r}
      BY <1>3, <2>3, RemoteAssumption DEF updateRemoteConfig
    <3>2. \A q \in RemoteConfig : q.hash = r.hash => q = r
      BY RemoteAssumption
    <3> QED
      BY <2>1, <3>1, <3>2 DEF AppliedIsInstalled
  <2> QED
    BY <2>2, <2>3
<1> QED
  BY <1>1, <1>2, <1>3

\* For any configurations the server may offer, in any order and however often:
\* what it is told is applied is in place, part by part, unless one without a
\* hash has been offered.
THEOREM AppliedAlwaysInstalled == AgentSpec => []AppliedIsInstalled
<1>1. AgentInit => RemoteInv
  BY DEF AgentInit, RemoteInv, AppliedIsInstalled
<1>2. RemoteInv /\ [AgentNext]_opampVars => RemoteInv'
  <2> SUFFICES ASSUME RemoteInv, [AgentNext]_opampVars PROVE RemoteInv'
    OBVIOUS
  <2>1. CASE UNCHANGED remoteVars
    BY <2>1 DEF remoteVars, RemoteInv, AppliedIsInstalled
  <2>2. CASE UNCHANGED opampVars
    BY <2>1, <2>2 DEF opampVars
  <2>3. ASSUME NEW s \in Signal, Receive(s) \/ Add(s) PROVE UNCHANGED remoteVars
    BY <2>3 DEF Receive, Add
  <2>4. CASE RecordUsage \/ NewReport \/ SendCustomMessage \/ ClientSends \/ completeSend
             \/ Cancelled \/ StopAgent
    BY <2>1, <2>4 DEF RecordUsage, NewReport, SendCustomMessage, ClientSends, completeSend,
                      Cancelled, StopAgent
  <2> QED
    BY <2>1, <2>2, <2>3, <2>4, RemoteUpdate DEF AgentNext
<1>3. RemoteInv => AppliedIsInstalled
  BY DEF RemoteInv
<1> QED
  BY <1>1, <1>2, <1>3, PTL DEF AgentSpec
=============================================================================
