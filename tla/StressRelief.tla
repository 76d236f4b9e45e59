---------------------------- MODULE StressRelief ----------------------------
(***************************************************************************)
(* Stress relief in a cluster of Refinery nodes (collect/stressRelief.go): *)
(* every node measures its own stress level, publishes it, combines the    *)
(* reports it has with its own level and switches stress relief on and off *)
(* with hysteresis.                                                        *)
(*                                                                         *)
(* The publish/subscribe service is external.  It runs every callback in a *)
(* goroutine of its own, so messages arrive in any order; a message whose  *)
(* publication fails is logged and gone.  The measured level is an input.  *)
(***************************************************************************)
EXTENDS Integers, Sequences, FiniteSets, Bags, FiniteSetsExt

CONSTANTS
  Node,
  Level,          \* stress levels a node may measure
  Configs,        \* stress-relief configurations: mode, levels and, in ticks,
                  \* the MinimumActivationDuration
  InitialConfig,  \* the one that all nodes start with
  MaxDuration,    \* bound: the longest minimum duration of a configuration
  ReportTicks,    \* maxTicksBetweenReports
  PeerTimeout,    \* PeerEntryTimeout, in ticks
  MaxChanges,     \* bound: changes of the measured levels
  MaxFaults,      \* bound: reloads, lost messages and crashes together
  MaxInFlight     \* bound: messages under way at a time

ASSUME StressAssumption ==
  /\ IsFiniteSet(Node) /\ Node # {}
  /\ IsFiniteSet(Level) /\ Level \subseteq Nat /\ 0 \in Level
  /\ InitialConfig \in Configs
  /\ Configs \subseteq [mode : {"never", "monitor", "always"}, activate : Nat, deactivate : Nat,
                         minimum : 0..MaxDuration]
  \* as the documentation of ActivationLevel demands
  /\ \A c \in Configs : c.deactivate < c.activate
  /\ {MaxDuration, PeerTimeout, MaxChanges, MaxFaults, MaxInFlight} \subseteq Nat
  /\ ReportTicks \in Nat \ {0}

VARIABLES
  alive,     \* nodes whose monitor goroutine runs
  measured,  \* the level each node's queues and memory amount to
  inFlight,  \* bag of messages [to, from, level]
  due,       \* nodes whose ticker has fired
  calc,      \* per node: <<>>, or Recalc between its two critical sections
  reports,   \* stressLevels: per node, the level and age of each peer's report
  config,
  stressed,
  stay,      \* ticks until the clock is after stayOnUntil
  published, \* lastLevel
  counter,   \* tickCounter
  budget,    \* what is left of the bounds
  \* history
  calmFor,   \* ticks since Recalc last saw at least the deactivation level, up to
             \* MaxDuration + 1
  promised,  \* the minimum duration in force at that Recalc
  peak       \* the highest level any node ever measured

netVars    == <<inFlight>>
envVars    == <<alive, measured, budget>>
nodeVars   == <<due, calc, reports, config, stressed, stay, published, counter>>
history    == <<calmFor, promised, peak>>
stressVars == <<netVars, envVars, nodeVars, history>>

Up(n, top) == IF n < top THEN n + 1 ELSE top
Down(n)    == IF n > 0 THEN n - 1 ELSE 0
NoReport   == [level |-> 0, age |-> PeerTimeout + 1]  \* what a missing entry amounts to

-----------------------------------------------------------------------------
StressInit ==
  /\ alive = Node
  /\ measured = [n \in Node |-> 0]
  /\ inFlight = EmptyBag
  /\ due = {} /\ calc = [n \in Node |-> <<>>]
  /\ reports = [n \in Node |-> [m \in Node |-> NoReport]]
  /\ config = [n \in Node |-> InitialConfig]
  /\ stressed = [n \in Node |-> FALSE]
  /\ stay = [n \in Node |-> 0]
  /\ published = [n \in Node |-> 0] /\ counter = [n \in Node |-> 0]
  /\ budget = [changes |-> MaxChanges, faults |-> MaxFaults]
  /\ calmFor = [n \in Node |-> MaxDuration + 1] /\ promised = [n \in Node |-> 0]
  /\ peak = 0

-----------------------------------------------------------------------------
(* The environment. *)

Spend(what) == budget[what] > 0 /\ budget' = [budget EXCEPT ![what] = @ - 1]

LevelChanges(n, l) ==
  /\ n \in alive /\ l # measured[n] /\ Spend("changes")
  /\ measured' = [measured EXCEPT ![n] = l]
  /\ UNCHANGED <<alive, netVars, nodeVars, history>>

Crash(n) ==
  /\ n \in alive /\ Spend("faults")
  /\ alive' = alive \ {n}
  /\ UNCHANGED <<measured, netVars, nodeVars, history>>

Lose(msg) ==
  /\ BagIn(msg, inFlight) /\ Spend("faults")
  /\ inFlight' = inFlight (-) SetToBag({msg})
  /\ UNCHANGED <<alive, measured, nodeVars, history>>

\* onStressLevelUpdate: the report counts from when it arrives.
onStressLevelUpdate(msg) ==
  /\ BagIn(msg, inFlight)
  /\ inFlight' = inFlight (-) SetToBag({msg})
  /\ reports' = [reports EXCEPT ![msg.to][msg.from] = [level |-> msg.level, age |-> 0]]
  /\ UNCHANGED <<due, calc, config, stressed, stay, published, counter>>
  /\ UNCHANGED <<envVars, history>>

\* UpdateFromConfig reloads mode, levels and minimum duration; it leaves stressed
\* and stayOnUntil to the next Recalc.
UpdateFromConfig(n, c) ==
  /\ n \in alive /\ c # config[n] /\ Spend("faults")
  /\ config' = [config EXCEPT ![n] = c]
  /\ UNCHANGED <<due, calc, reports, stressed, stay, published, counter>>
  /\ UNCHANGED <<alive, measured, netVars, history>>

\* 100 ms pass, long against a Recalc, and the tickers fire.
StressTick ==
  /\ due \cap alive = {} /\ \A n \in alive : calc[n] = <<>>
  /\ due' = alive
  /\ reports' = [n \in Node |-> [m \in Node |->
                   [reports[n][m] EXCEPT !.age = Up(@, PeerTimeout + 1)]]]
  /\ stay' = [n \in Node |-> Down(stay[n])]
  /\ calmFor' = [n \in Node |-> Up(calmFor[n], MaxDuration + 1)]
  /\ UNCHANGED <<calc, config, stressed, published, counter, promised, peak>>
  /\ UNCHANGED <<netVars, envVars>>

-----------------------------------------------------------------------------
(* The monitor goroutine. *)

\* Variant: reports never expire.
Expired_Never(report) == FALSE
Expired(report) == report.age > PeerTimeout

\* Variant: the total is not divided by the number of reports.
ClusterLevel_Total(reps) ==
  LET R     == {m \in DOMAIN reps : ~Expired(reps[m]) /\ reps[m].level # 0}
      total == MapThenSumSet(LAMBDA m : reps[m].level * reps[m].level, R)
  IN CHOOSE r \in 0..total : r * r <= total /\ (r + 1) * (r + 1) > total
\* clusterStressLevel: the integer part of the root of the mean square of the
\* live reports, those of level 0 left out.
ClusterLevel(reps) ==
  LET R     == {m \in DOMAIN reps : ~Expired(reps[m]) /\ reps[m].level # 0}
      k     == IF R = {} THEN 1 ELSE Cardinality(R)
      total == MapThenSumSet(LAMBDA m : reps[m].level * reps[m].level, R)
  IN CHOOSE r \in 0..total : r * r * k <= total /\ (r + 1) * (r + 1) * k > total

\* Recalc's first half: measure, enter the own report, expire old ones.
clusterStressLevel(n) ==
  /\ n \in due \cap alive /\ calc[n] = <<>>
  /\ due' = due \ {n}
  /\ LET reps == [reports[n] EXCEPT ![n] = [level |-> measured[n], age |-> 0]] IN
       /\ reports' = [reports EXCEPT ![n] =
                        [m \in Node |-> IF Expired(reps[m]) THEN NoReport ELSE reps[m]]]
       /\ calc' = [calc EXCEPT ![n] = << [own |-> measured[n], cluster |-> ClusterLevel(reps)] >>]
  /\ peak' = Max({peak, measured[n]})
  /\ UNCHANGED <<config, stressed, stay, published, counter, calmFor, promised>>
  /\ UNCHANGED <<netVars, envVars>>

Overall(c) == Max({c.own, c.cluster})

Activated(n) ==
  LET c == config[n] IN
    CASE c.mode = "never"   -> FALSE
      [] c.mode = "always"  -> TRUE
      [] c.mode = "monitor" -> stressed[n] \/ Overall(calc[n][1]) >= c.activate

\* Variant: the time is set only when stress relief is switched on.
Extends_OnActivation(n) ==
  config[n].mode = "monitor" /\ ~stressed[n] /\ Activated(n)
\* stayOnUntil is pushed out while the level has not fallen far enough.
Extends(n) ==
  config[n].mode = "monitor" /\ Activated(n) /\ Overall(calc[n][1]) >= config[n].deactivate

Deactivates(n) ==
  config[n].mode = "monitor" /\ Overall(calc[n][1]) < config[n].deactivate /\ stay[n] = 0

\* Variant: only changes are published.
Publishes_OnChange(n) == calc[n][1].own # published[n]
\* The loop publishes a level that differs from the last one, and any level
\* when it has been silent for long.
Publishes(n) == calc[n][1].own # published[n] \/ counter[n] = ReportTicks

\* Recalc's second half, and the rest of the loop's body.  The publisher hears
\* its own message too, to no effect: it enters its own level before each use.
Recalc(n) ==
  /\ n \in alive /\ calc[n] # <<>>
  /\ Publishes(n) => BagCardinality(inFlight) + Cardinality(Node) - 1 <= MaxInFlight
  /\ stressed' = [stressed EXCEPT ![n] = Activated(n) /\ ~Deactivates(n)]
  /\ stay' = [stay EXCEPT ![n] = IF Extends(n) THEN config[n].minimum + 1 ELSE @]
  /\ calmFor' = [calmFor EXCEPT ![n] =
                   IF Overall(calc[n][1]) >= config[n].deactivate THEN 0 ELSE @]
  /\ promised' = [promised EXCEPT ![n] =
                    IF Overall(calc[n][1]) >= config[n].deactivate THEN config[n].minimum ELSE @]
  /\ IF Publishes(n)
       THEN /\ inFlight' = inFlight (+) SetToBag([to : Node \ {n}, from : {n}, level : {calc[n][1].own}])
            /\ published' = [published EXCEPT ![n] = calc[n][1].own]
            /\ counter' = [counter EXCEPT ![n] = 1]
       ELSE /\ UNCHANGED <<inFlight, published>>
            /\ counter' = [counter EXCEPT ![n] = Up(@, ReportTicks)]
  /\ calc' = [calc EXCEPT ![n] = <<>>]
  /\ UNCHANGED <<due, reports, config, peak>>
  /\ UNCHANGED envVars

-----------------------------------------------------------------------------
StressNext ==
  \/ \E n \in Node, l \in Level : LevelChanges(n, l)
  \/ \E n \in Node : Crash(n) \/ clusterStressLevel(n) \/ Recalc(n)
  \/ \E msg \in BagToSet(inFlight) : Lose(msg) \/ onStressLevelUpdate(msg)
  \/ \E n \in Node, c \in Configs : UpdateFromConfig(n, c)
  \/ StressTick

StressSpec == StressInit /\ [][StressNext]_stressVars

Message == [to : Node, from : Node, level : Level]

\* The monitor goroutines keep up with their tickers, time passes, and messages
\* arrive at every node to which some are under way, in any order.
StressFairness ==
  /\ WF_stressVars(StressTick)
  /\ \A n \in Node :
       /\ WF_stressVars(clusterStressLevel(n) \/ Recalc(n))
       /\ WF_stressVars(\E msg \in BagToSet(inFlight) : msg.to = n /\ onStressLevelUpdate(msg))

FairStressSpec == StressSpec /\ StressFairness

-----------------------------------------------------------------------------
(* Properties. *)

Report == [level : Level, age : 0..PeerTimeout + 1]

StressTypeOK ==
  /\ alive \subseteq Node /\ due \subseteq Node
  /\ budget \in [changes : 0..MaxChanges, faults : 0..MaxFaults]
  /\ measured \in [Node -> Level]
  /\ IsABag(inFlight) /\ BagToSet(inFlight) \subseteq Message
  /\ calc \in [Node -> Seq([own : Level, cluster : Nat])]
  /\ reports \in [Node -> [Node -> Report]]
  /\ config \in [Node -> Configs]
  /\ stressed \in [Node -> BOOLEAN]
  /\ stay \in [Node -> 0..MaxDuration + 1]
  /\ published \in [Node -> Level] /\ counter \in [Node -> 0..ReportTicks]
  /\ calmFor \in [Node -> 0..MaxDuration + 1] /\ promised \in [Node -> 0..MaxDuration]
  /\ peak \in Level

\* Nothing but the levels can switch stress relief on.
NeverForced == \A c \in Configs : c.mode # "always"

\* Stress relief in monitor mode never starts by averaging alone: no node is
\* stressed unless some node has measured the activation level itself, however
\* many reports arrive and however late or out of order they are.
NoFalseAlarm ==
  NeverForced =>
    \A n \in Node : stressed[n] => \E c \in Configs : peak >= c.activate

\* MinimumActivationDuration is "the minimum time that Stress Relief will stay
\* enabled once activated": before Recalc switches it off, it has seen nothing but
\* levels below the deactivation level for longer than the minimum that was in
\* force when it last saw another, whatever was reloaded in the meantime.  (A
\* minimum reloaded in a calm counts from the next level that is not calm, so one
\* that is raised then is not waited for.  Mode "always" sets no time: after it,
\* monitor mode may switch off at once.)
CalmBeforeDeactivation ==
  [][NeverForced =>
       \A n \in Node :
         stressed[n] /\ ~stressed'[n] /\ config[n].mode = "monitor" =>
           calmFor[n] > promised[n]]_stressVars

Calm(n) == \A m \in alive : measured[m] < config[n].deactivate

\* Stress relief ends once every live node stays below the deactivation level,
\* even if the last report of a crashed or silenced node was a high one.
StressEnds ==
  \A n \in Node :
    <>[](n \in alive /\ config[n].mode = "monitor" /\ Calm(n)) => <>[]~stressed[n]

\* A live peer is heard again and again although its reports expire, even if it
\* measures the same level for ever and a message is overtaken or lost.
StressHeard ==
  \A n, m \in Node :
    []<>({n, m} \subseteq alive => reports[n][m].level = measured[m])
=============================================================================
