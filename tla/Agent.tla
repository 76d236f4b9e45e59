-------------------------------- MODULE Agent --------------------------------
(***************************************************************************)
(* The OpAMP agent (agent/): what it reports of the usage, and the remote  *)
(* configuration it applies.  Its health check is in module Probes; here   *)
(* the health check's loop only hands counters to the usage tracker, while *)
(* another goroutine reports, and the OpAMP client calls onMessage.        *)
(*                                                                         *)
(* The client (opamp-go) is external: it holds one custom message, may     *)
(* refuse one, and takes no status without a hash.  With OpAMP there is no *)
(* ConfigWatcher, so nobody else reloads the configuration.                *)
(***************************************************************************)
EXTENDS Integers, FiniteSets

CONSTANTS
  Signal,        \* the usage signals: traces, logs
  RemoteConfig,  \* what the server offers: [hash, parts, valid]
  NoHash,
  MaxUsage,      \* bound: bytes received per signal
  MaxFailures    \* bound: reports in a row that are not sent

Part == {"config", "rules"}

ASSUME SignalAssumption == IsFiniteSet(Signal)
ASSUME RemoteAssumption ==
  \A r \in RemoteConfig :
    /\ r.parts \subseteq Part /\ r.valid \in BOOLEAN
    /\ \A q \in RemoteConfig : r.hash = q.hash => r = q
ASSUME AgentBoundAssumption == MaxUsage \in Nat /\ MaxFailures \in Nat

VARIABLES
  received,           \* the counters bytes_received_*
  adding,             \* the readings that healthCheck has yet to Add
  lastUsageData,
  currentDataPoints,
  lastDataPoints,
  report,             \* where sendUsageReport is, and its report
  outbox,             \* the client's custom message, if any
  remote,             \* lastRemoteConfigReceived and remoteConfigStatus
  installed,          \* per part, the remote configuration it is from; {} for the file
  stopping,           \* how far Stop is
  \* history
  reported,           \* usage that was sent
  failures,           \* reports in a row that were not sent
  lossy,              \* two have been, at some time
  unhashed            \* a configuration without a hash has been offered

readVars   == <<received, adding>>
pointVars  == <<currentDataPoints, lastDataPoints, lastUsageData>>
sendVars   == <<report, outbox, reported, failures, lossy>>
remoteVars == <<remote, installed, unhashed>>
opampVars == <<readVars, pointVars, sendVars, remoteVars, stopping>>

Empty == [s \in {} |-> 0]
NotSending == [pc |-> "idle", data |-> Empty]

AgentInit ==
  /\ received = [s \in Signal |-> 0] /\ adding = Empty /\ lastUsageData = [s \in Signal |-> 0]
  /\ currentDataPoints = Empty /\ lastDataPoints = Empty
  /\ report = NotSending /\ outbox = {}
  /\ reported = [s \in Signal |-> 0] /\ failures = 0 /\ lossy = FALSE
  /\ remote = [received |-> {}, status |-> "UNSET", hash |-> NoHash]
  /\ installed = [p \in Part |-> {}] /\ unhashed = FALSE
  /\ stopping = "running"

-----------------------------------------------------------------------------
(* Usage.  A map without a key reads as zero. *)

At(f, s) == IF s \in DOMAIN f THEN f[s] ELSE 0

Receive(s) ==
  /\ received[s] < MaxUsage
  /\ received' = [received EXCEPT ![s] = @ + 1]
  /\ UNCHANGED <<adding, pointVars, sendVars, remoteVars, stopping>>

\* A tick of healthCheck while usage is to be recorded: the counters are read.
\* The loop has no return for a cancelled context and goes on after Stop.
RecordUsage ==
  /\ adding = Empty /\ adding' = received
  /\ UNCHANGED <<received, pointVars, sendVars, remoteVars, stopping>>

\* currentDataPoints[s] += delta
Gathered(s, delta) == At(currentDataPoints, s) + delta

\* usageTracker.Add, for a reading that may be older than the counter is by now.
Add(s) ==
  /\ s \in DOMAIN adding
  /\ adding' = [t \in DOMAIN adding \ {s} |-> adding[t]]
  /\ IF adding[s] = 0
       THEN UNCHANGED <<currentDataPoints, lastUsageData>>
       ELSE /\ currentDataPoints' =
                 [t \in DOMAIN currentDataPoints \cup {s} |->
                    IF t = s THEN Gathered(s, adding[s] - lastUsageData[s])
                             ELSE currentDataPoints[t]]
            /\ lastUsageData' = [lastUsageData EXCEPT ![s] = adding[s]]
  /\ UNCHANGED <<received, lastDataPoints, sendVars, remoteVars, stopping>>

\* A tick of reportUsagePeriodically: NewReport, with a sum per data point.
NewReport ==
  /\ report.pc = "idle" /\ (currentDataPoints # Empty \/ lastDataPoints # Empty)
  /\ report' = [pc |-> "send",
                data |-> [s \in Signal |-> At(currentDataPoints, s) + At(lastDataPoints, s)]]
  /\ lastDataPoints' = currentDataPoints
  /\ currentDataPoints' = Empty
  /\ UNCHANGED <<readVars, lastUsageData, outbox, reported, failures, lossy, remoteVars, stopping>>

\* SendCustomMessage, external: the message is accepted, another one is pending,
\* or there is an error and sendUsageReport returns without having sent.  When
\* the pending message has been sent, the report is tried once more.
SendCustomMessage ==
  /\ report.pc \in {"send", "pending"}
  /\ \/ /\ outbox = {} /\ stopping = "running"
        /\ outbox' = {report.data} /\ report' = [report EXCEPT !.pc = "wait"]
        /\ UNCHANGED <<failures, lossy>>
     \/ /\ report.pc = "send" /\ report' = [report EXCEPT !.pc = "pending"]
        /\ UNCHANGED <<outbox, failures, lossy>>
     \/ /\ report' = NotSending /\ UNCHANGED outbox
        /\ failures < MaxFailures /\ failures' = failures + 1
        /\ lossy' = (lossy \/ failures >= 1)
  /\ UNCHANGED <<readVars, pointVars, reported, remoteVars, stopping>>

\* The client sends its message, and closes isSent.
ClientSends ==
  /\ outbox # {} /\ stopping = "running"
  /\ outbox' = {} /\ report' = [report EXCEPT !.pc = "sent"]
  /\ \E data \in outbox : reported' = [s \in Signal |-> reported[s] + data[s]]
  /\ UNCHANGED <<readVars, pointVars, failures, lossy, remoteVars, stopping>>

\* Variant: the data points of the report that was sent are kept.
Completed_Kept == lastDataPoints
Completed == Empty

completeSend ==
  /\ report.pc = "sent" /\ report' = NotSending
  /\ lastDataPoints' = Completed /\ failures' = 0
  /\ UNCHANGED <<readVars, currentDataPoints, lastUsageData, outbox, reported, lossy, remoteVars,
                 stopping>>

\* Where sendUsageReport or its caller waits, a cancelled context ends it; with
\* isSent closed as well, either may be chosen.
Cancelled ==
  /\ stopping = "cancelled" /\ report.pc \in {"idle", "pending", "wait", "sent"}
  /\ report' = [report EXCEPT !.pc = "ended"]
  /\ UNCHANGED <<readVars, pointVars, outbox, reported, failures, lossy, remoteVars, stopping>>

-----------------------------------------------------------------------------
(* Remote configuration. *)

isConfigChanged(r) ==
  ~(remote.received # {} /\ remote.hash = r.hash /\ remote.status = "APPLIED")

\* reportConfigStatus: without a hash, the client returns an error.
WithStatus(rec, r, status) ==
  IF r.hash = NoHash THEN rec ELSE [rec EXCEPT !.hash = r.hash, !.status = status]

\* Variant: the error of Reload is not looked at.
ReloadStatus_Ignored(ok) == "APPLIED"
ReloadStatus(ok) == IF ok THEN "APPLIED" ELSE "FAILED"

\* onMessage.  A message without a known part is only noted.  fileConfig.Reload
\* reads the files, which must be readable, puts the remote parts in their
\* places and validates; then the outcome is reported, over "APPLYING".
updateRemoteConfig(r, readable) ==
  LET ok == readable /\ r.valid IN
    /\ stopping = "running"
    /\ unhashed' = (unhashed \/ r.hash = NoHash)
    /\ IF isConfigChanged(r)
         THEN /\ remote' = IF r.parts = {} THEN [remote EXCEPT !.received = {r}]
                           ELSE WithStatus([remote EXCEPT !.received = {r}], r, ReloadStatus(ok))
              /\ installed' = IF r.parts = {} \/ ~ok THEN installed
                              ELSE [p \in Part |-> IF p \in r.parts THEN {r} ELSE {}]
         ELSE UNCHANGED <<remote, installed>>
    /\ UNCHANGED <<readVars, pointVars, sendVars, stopping>>

-----------------------------------------------------------------------------
\* Stop tells the server (see Probes), stops the client and cancels the context.
StopAgent ==
  /\ \/ stopping = "running" /\ stopping' = "client"
     \/ stopping = "client" /\ stopping' = "cancelled"
  /\ UNCHANGED <<readVars, pointVars, sendVars, remoteVars>>

AgentNext ==
  \/ \E s \in Signal : Receive(s) \/ Add(s)
  \/ RecordUsage \/ NewReport \/ SendCustomMessage \/ ClientSends \/ completeSend \/ Cancelled
  \/ \E r \in RemoteConfig, readable \in BOOLEAN : updateRemoteConfig(r, readable)
  \/ StopAgent

AgentSpec == AgentInit /\ [][AgentNext]_opampVars

-----------------------------------------------------------------------------
(* Properties. *)

\* What has been added to the tracker and not been sent.
Unreported(s) ==
  At(currentDataPoints, s) + CASE report.pc = "idle" -> At(lastDataPoints, s)
                               [] report.pc = "sent" -> 0
                               [] OTHER -> report.data[s]

\* The comment in NewReport: "keep the last data points until we know the report
\* was sent".  As long as no two reports in a row fail, what has been reported
\* and what is yet to be reported are the usage that was added, no more and no
\* less, although Adds come at any time of a report.
UsageExact ==
  ~lossy /\ report.pc # "ended" =>
    \A s \in Signal : lastUsageData[s] = reported[s] + Unreported(s)

\* What the server is told is applied is in use: every part of the configuration
\* that the status names, whatever else was offered, failed to load or was taken
\* for one that is applied already.
AppliedIsInstalled ==
  ~unhashed /\ remote.status = "APPLIED" =>
    \A r \in RemoteConfig : r.hash = remote.hash => \A p \in r.parts : installed[p] = {r}
=============================================================================
