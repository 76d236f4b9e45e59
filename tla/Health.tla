------------------------------- MODULE Health -------------------------------
(***************************************************************************)
(* The health registry (internal/health/health.go): subsystems register    *)
(* with a timeout and report in; a ticker counts their remaining time down *)
(* in steps of TickerTime; IsAlive and IsReady answer probes from it.      *)
(*                                                                         *)
(* Time is in units finer than TickerTime, so that a report falls anywhere *)
(* between two ticks.  The map alives only decides what is logged and is   *)
(* left out.                                                               *)
(***************************************************************************)
EXTENDS Integers

CONSTANTS
  Subsystem,
  Timeout,     \* the timeout each subsystem registers with
  TickerTime,  \* units between two ticks of the ticker goroutine
  Horizon      \* bound: units of time

ASSUME HealthAssumption ==
  /\ Timeout \in [Subsystem -> Nat \ {0}]
  /\ TickerTime \in Nat \ {0} /\ Horizon \in Nat

VARIABLES
  timeouts,  \* subsystems with an entry in timeouts and timeLeft
  timeLeft,  \* -1 before the first report, 0 when dead
  seen,      \* subsystems with an entry in readies
  readies,
  now,       \* units since the start
  phase,     \* units since the last tick
  \* history
  silent,    \* units since the last report, or since Register
  gone       \* subsystems that have unregistered and not registered again

vars == <<timeouts, timeLeft, seen, readies, now, phase, silent, gone>>

Init ==
  /\ timeouts = {} /\ seen = {}
  /\ timeLeft = [s \in Subsystem |-> -1]
  /\ readies = [s \in Subsystem |-> FALSE]
  /\ now = 0 /\ phase = 0
  /\ silent = [s \in Subsystem |-> 0] /\ gone = {}

-----------------------------------------------------------------------------
Register(s) ==
  /\ timeouts' = timeouts \cup {s}
  /\ seen' = seen \cup {s}
  /\ readies' = [readies EXCEPT ![s] = FALSE]
  /\ timeLeft' = [timeLeft EXCEPT ![s] = -1]
  /\ silent' = [silent EXCEPT ![s] = 0] /\ gone' = gone \ {s}
  /\ UNCHANGED <<now, phase>>

Unregister(s) ==
  /\ timeouts' = timeouts \ {s}
  /\ seen' = seen \cup {s}
  /\ readies' = [readies EXCEPT ![s] = FALSE]
  /\ gone' = gone \cup {s}
  /\ UNCHANGED <<timeLeft, now, phase, silent>>

\* A report of a subsystem that is not registered is ignored.
Ready(s, ready) ==
  /\ s \in timeouts
  /\ readies' = [readies EXCEPT ![s] = ready]
  /\ timeLeft' = [timeLeft EXCEPT ![s] = Timeout[s]]
  /\ silent' = [silent EXCEPT ![s] = 0]
  /\ UNCHANGED <<timeouts, seen, now, phase, gone>>

\* Variant: a counter that would become negative stays as it is.
Decremented_NotBelowZero(n) == IF n >= TickerTime THEN n - TickerTime ELSE n
\* the body of the ticker's loop over timeLeft
Decremented(n) ==
  CASE n > TickerTime -> n - TickerTime
    [] n \in 1..TickerTime -> 0
    [] OTHER -> n

\* A unit of time passes; the ticker fires at the end of every TickerTime.
AdvanceTime ==
  /\ now < Horizon
  /\ now' = now + 1
  /\ silent' = [s \in Subsystem |-> silent[s] + 1]
  /\ IF phase + 1 < TickerTime
       THEN phase' = phase + 1 /\ UNCHANGED timeLeft
       ELSE /\ phase' = 0
            /\ timeLeft' = [s \in Subsystem |->
                              IF s \in timeouts THEN Decremented(timeLeft[s]) ELSE timeLeft[s]]
  /\ UNCHANGED <<timeouts, seen, readies, gone>>

Next ==
  \/ \E s \in Subsystem : Register(s) \/ Unregister(s)
  \/ \E s \in Subsystem, ready \in BOOLEAN : Ready(s, ready)
  \/ AdvanceTime

Spec == Init /\ [][Next]_vars

IsAlive == \A s \in timeouts : timeLeft[s] # 0
IsReady ==
  /\ seen # {}
  /\ \A s \in timeouts : timeLeft[s] > 0
  /\ \A s \in seen : readies[s]

-----------------------------------------------------------------------------
(* Properties. *)

TypeOK ==
  /\ timeouts \subseteq Subsystem /\ seen \subseteq Subsystem
  /\ timeouts \subseteq seen
  /\ timeLeft \in [Subsystem -> Int] /\ readies \in [Subsystem -> BOOLEAN]
  /\ now \in 0..Horizon /\ phase \in 0..TickerTime - 1
  /\ silent \in [Subsystem -> Nat] /\ gone \subseteq Subsystem

\* Whoever asks IsReady learns something recent: if it says yes, every registered
\* subsystem has reported within its timeout and one tick, and said it is ready.
ReadyIsFresh ==
  IsReady => \A s \in timeouts : readies[s] /\ silent[s] < Timeout[s] + TickerTime

\* A subsystem that has reported once and then stays silent for its timeout and
\* one tick is found out: the whole process is not alive.
SilenceDetected ==
  \A s \in timeouts :
    timeLeft[s] # -1 /\ silent[s] >= Timeout[s] + TickerTime => ~IsAlive

\* Nobody is declared dead more than one tick before the timeout is over, and
\* nobody who has never reported is.
NoEarlyDeath ==
  ~IsAlive => \E s \in timeouts : silent[s] + TickerTime > Timeout[s]

\* A subsystem that falls silent is found out when its timeout is over, give or
\* take one tick, wherever between two ticks its last report came.
DeathOnTime == SilenceDetected /\ NoEarlyDeath

\* A subsystem that has unregistered keeps the process from being ready, although
\* reports of it may still come in: only a new Register and a new report end that.
UnregisteredNotReady == gone # {} => ~IsReady
=============================================================================
