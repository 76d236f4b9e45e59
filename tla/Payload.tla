------------------------------- MODULE Payload -------------------------------
(***************************************************************************)
(* The payload of an event (types/payload.go) on its way through the       *)
(* cluster: a conceptual map of fields, kept as the serialized map it came *)
(* in, the fields memoized from it, a list of the fields known to be       *)
(* missing, and the metadata fields in members of their own.  It is        *)
(* decoded by the router, memoized when its trace is decided, set by the   *)
(* collector, and encoded for a peer or for Honeycomb.                     *)
(*                                                                         *)
(* Field names and values are members of small sets, values of one per     *)
(* type.  A field occurs once in a serialized map.  The order of its       *)
(* fields matters only to the trace ID and the root flag, and is kept as   *)
(* what the one pass over them makes of it: the name that the trace ID is  *)
(* taken from, the names used up in looking for it, and whether the root   *)
(* flag comes after the parent ID.                                         *)
(***************************************************************************)
EXTENDS Integers, FiniteSets

CONSTANTS
  Data,            \* names of ordinary fields
  TraceIdName,     \* those of them in IDFieldNames.TraceNames
  ParentIdName,    \* and in IDFieldNames.ParentNames
  StringField, BoolField, Int64Field,  \* the metadata fields, by type
  String, Int64, Float64, Other,       \* values by type, with the Booleans below
  EmptyString, Log, Zero, True, False, Absent,
  ToInt64,         \* what the conversion int64() makes of a float64
  Incoming,        \* the maps that clients send
  UserAgents,      \* and their User-Agent headers
  KeyFieldLists,   \* the samplers' key fields, over time
  Settings,        \* the fields that the collector sets, with their values
  MaxFields,       \* the fields a msgpack map16 has room for
  MaxHops          \* bound: times an event is forwarded

MetaTraceID      == "meta.trace_id"
MetaSignalType   == "meta.signal_type"
MetaRefineryRoot == "meta.refinery.root"
MetaRefineryIncomingUserAgent == "meta.refinery.incoming_user_agent"

Bool      == {True, False}
Value     == String \cup Bool \cup Int64 \cup Float64 \cup Other
MetaField == StringField \cup BoolField \cup Int64Field
Key       == Data \cup MetaField
Fields    == [Key -> Value \cup {Absent}]
IdName    == TraceIdName \cup ParentIdName
NonEmpty  == String \ {EmptyString}

\* metadataFields: the values that a metadata field accepts, and its zero value
\* (a Boolean has none: it is nullable).
Accepts(k) == IF k \in StringField THEN String ELSE IF k \in BoolField THEN Bool ELSE Int64
Default(k) == IF k \in StringField THEN EmptyString ELSE IF k \in BoolField THEN Absent ELSE Zero

ASSUME NameAssumption ==
  /\ TraceIdName \subseteq Data /\ ParentIdName \subseteq Data
  /\ TraceIdName \cap ParentIdName = {} /\ Data \cap MetaField = {}
  /\ StringField \cap BoolField = {} /\ StringField \cap Int64Field = {}
  /\ BoolField \cap Int64Field = {}
  /\ {MetaTraceID, MetaSignalType, MetaRefineryIncomingUserAgent} \subseteq StringField
  /\ MetaRefineryRoot \in BoolField
ASSUME ValueAssumption ==
  /\ EmptyString \in String /\ Log \in NonEmpty /\ Zero \in Int64 /\ True # False
  /\ Absent \notin Value /\ ToInt64 \in [Float64 -> Int64]
  /\ String \cap Bool = {} /\ String \cap Int64 = {} /\ String \cap Float64 = {}
  /\ Bool \cap Int64 = {} /\ Bool \cap Float64 = {} /\ Int64 \cap Float64 = {}
  /\ Other \cap (String \cup Bool \cup Int64 \cup Float64) = {}
ASSUME UseAssumption ==
  /\ Incoming \subseteq Fields /\ UserAgents \subseteq String
  /\ KeyFieldLists \subseteq SUBSET Key
  /\ Settings \subseteq Key \X Value
  /\ MaxFields \in Nat /\ MaxHops \in Nat

VARIABLES
  phase,   \* where the event is
  wire,    \* the encoded map, while it is on the wire
  payload, \* the Payload, when it has been decoded
  hops,    \* times it has been forwarded
  disputed, \* history: metadata fields that other fields of the event contradict
  last     \* history: the last field and value that was set, or <<>>

vars == <<phase, wire, payload, hops, disputed, last>>

\* The formats a client uses: "batch" (msgpack, or JSON translated to it),
\* "otlp" (msgpack made by the OTLP translation), and "map" (a decoded map).
Format == {"batch", "otlp", "map"}

Nothing == [k \in Key |-> Absent]
NewPayload(data) ==
  [msgpData |-> Nothing, memoizedFields |-> data, missingFields |-> {},
   meta |-> [k \in MetaField |-> Default(k)], isEmpty |-> FALSE, extracted |-> FALSE]

HasParent(f) == \E n \in ParentIdName : f[n] \in NonEmpty

\* What the order of its fields makes of a map.  A trace ID name is used while
\* there is no trace ID: the empty ones before the one that the trace ID is taken
\* from (first), and one that a later meta.trace_id overrules.
Orders(f) ==
  LET found == {n \in TraceIdName : f[n] \in NonEmpty}
      empty == {n \in TraceIdName : f[n] = EmptyString}
      single == {{}} \cup {{n} : n \in found}
      passes == {x \in [first : single, over : single, empty : SUBSET empty, late : BOOLEAN] :
                   /\ x.over # {} => f[MetaTraceID] \in String /\ x.first # x.over
                   /\ f[MetaTraceID] \in NonEmpty => x.first = {}
                   /\ x.first \cup x.over = {} => found = {} \/ f[MetaTraceID] \in NonEmpty
                   /\ x.late => HasParent(f) /\ f[MetaRefineryRoot] \in Bool}
  IN {[first |-> x.first, used |-> x.first \cup x.over \cup x.empty, late |-> x.late] :
        x \in passes}

Wire(format, f, order) ==
  [format |-> format, f |-> f, first |-> order.first, used |-> order.used, late |-> order.late]

\* The metadata fields of a map that its other fields contradict: an empty trace
\* ID beside a name with one, a root flag on a log or a true one beside a parent
\* ID, and an empty user agent, which the request's is to replace.
Disputed(f) ==
  {k \in MetaField :
     \/ k = MetaTraceID /\ f[k] = EmptyString /\ \E n \in TraceIdName : f[n] \in NonEmpty
     \/ k = MetaRefineryRoot /\ f[k] \in Bool
          /\ (f[MetaSignalType] = Log \/ (f[k] = True /\ HasParent(f)))
     \/ k = MetaRefineryIncomingUserAgent /\ f[k] = EmptyString}

\* The metadata fields that a field k speaks of, besides its own.
Bears(k) ==
  (IF k \in TraceIdName \cup {MetaTraceID} THEN {MetaTraceID} ELSE {})
    \cup (IF k \in ParentIdName \cup {MetaSignalType, MetaRefineryRoot}
            THEN {MetaRefineryRoot} ELSE {})

Init ==
  /\ phase = "wire" /\ hops = 0 /\ last = <<>>
  /\ payload = NewPayload(Nothing)
  /\ \E format \in Format, f \in Incoming : \E order \in Orders(f) :
       wire = Wire(format, f, order) /\ disputed = Disputed(f)

-----------------------------------------------------------------------------
(* Reading and setting fields. *)

\* Payload.Set: a metadata field takes no value of another type.
SetField(p, k, v) ==
  IF k \in MetaField
    THEN IF v \in Accepts(k) THEN [p EXCEPT !.meta[k] = v] ELSE p
    ELSE [p EXCEPT !.memoizedFields[k] = v]

\* the get and exist functions of the metadata fields
GetMeta(p, k) == IF p.meta[k] = Default(k) THEN Absent ELSE p.meta[k]

Exists(p, k) ==
  IF k \in MetaField THEN GetMeta(p, k) # Absent
  ELSE \/ p.memoizedFields[k] # Absent
       \/ k \notin p.missingFields /\ p.msgpData[k] # Absent

Get(p, k) ==
  IF k \in MetaField THEN GetMeta(p, k)
  ELSE IF p.memoizedFields[k] # Absent THEN p.memoizedFields[k]
  ELSE IF k \in p.missingFields THEN Absent ELSE p.msgpData[k]

\* Variant: the serialized fields are yielded although they have been memoized
\* with another value since.
All_Serialized(p) ==
  [k \in Key |-> IF k \in MetaField
                   THEN IF k = MetaTraceID THEN Absent ELSE GetMeta(p, k)
                   ELSE IF p.msgpData[k] # Absent THEN p.msgpData[k] ELSE p.memoizedFields[k]]
\* Payload.All, and so MarshalJSON and libhoney's events: the trace ID and a root
\* flag that is not true are left out.
All(p) ==
  [k \in Key |-> IF k \in MetaField
                   THEN IF k = MetaTraceID \/ (k = MetaRefineryRoot /\ p.meta[k] # True)
                          THEN Absent ELSE GetMeta(p, k)
                   ELSE IF p.memoizedFields[k] # Absent THEN p.memoizedFields[k]
                                                        ELSE p.msgpData[k]]

-----------------------------------------------------------------------------
(* Decoding. *)

\* The trace ID: meta.trace_id, or else from the first name that is not empty.
TraceIdOf(w) ==
  IF w.f[MetaTraceID] \in NonEmpty THEN w.f[MetaTraceID]
  ELSE IF w.first = {} THEN EmptyString ELSE w.f[CHOOSE n \in w.first : TRUE]

\* The root flag: a span is a root unless it has a parent, but the later of flag
\* and parent ID counts; a log is none.
RootOf(w) ==
  IF w.f[MetaSignalType] = Log THEN Absent
  ELSE IF w.f[MetaRefineryRoot] \in Bool /\ (HasParent(w.f) => w.late)
    THEN w.f[MetaRefineryRoot]
  ELSE IF HasParent(w.f) THEN False ELSE True

\* The key fields that were looked for and are not memoized.
Missing(keys, memo) == {k \in keys : memo[k] = Absent}

\* extractCriticalFieldsFromBytes: the metadata fields of the right type, trace
\* and parent ID, and the key fields that were not used for one of these.
extractCriticalFieldsFromBytes(p, w, keys) ==
  LET own     == {k \in MetaField : w.f[k] \in Accepts(k)}
      meta    == [k \in MetaField |-> IF k \in own THEN w.f[k] ELSE p.meta[k]]
      parents == {n \in ParentIdName : w.f[n] \in String}
      found   == {k \in keys \ (own \cup w.used \cup parents) : w.f[k] # Absent}
      memo    == [k \in Key |-> IF k \in found \ MetaField THEN w.f[k] ELSE p.memoizedFields[k]]
  IN [p EXCEPT
        !.meta = [meta EXCEPT ![MetaTraceID] = TraceIdOf(w), ![MetaRefineryRoot] = RootOf(w)],
        !.memoizedFields = memo,
        !.missingFields = IF found = keys THEN @ ELSE @ \cup Missing(keys, memo),
        !.isEmpty = (w.f = Nothing),
        !.extracted = TRUE]

\* ExtractMetadata, for a payload of memoized fields: a number that came as a
\* float64 is converted for an int64 field.
Converted(k, v) == IF k \in Int64Field /\ v \in Float64 THEN ToInt64[v] ELSE v

ExtractMetadata(p, w) ==
  LET own(k) == Converted(k, p.memoizedFields[k])
      meta   == [k \in MetaField |-> IF own(k) \in Accepts(k) THEN own(k) ELSE p.meta[k]]
  IN IF p.extracted THEN p
     ELSE [p EXCEPT
             !.meta = [meta EXCEPT ![MetaTraceID] = TraceIdOf(w), ![MetaRefineryRoot] = RootOf(w)],
             !.extracted = TRUE]

addIncomingUserAgent(p, agent) ==
  IF p.meta[MetaRefineryIncomingUserAgent] = EmptyString
    THEN [p EXCEPT !.meta[MetaRefineryIncomingUserAgent] = agent] ELSE p

\* processing a batch, the router skips an event without fields
Skipped(w) == w.format = "batch" /\ w.f = Nothing

\* The router's ways to a payload.  A batch is decoded with the key fields of the
\* sampler it is for, OTLP data without.  Of a map, processEvent extracts the
\* metadata, after the user agent was added.
Decode(w, keys, agent) ==
  LET msgp(ks) == [extractCriticalFieldsFromBytes(NewPayload(Nothing), w, ks)
                     EXCEPT !.msgpData = w.f]
  IN CASE w.format = "batch" -> IF Skipped(w) THEN msgp(keys)
                                ELSE addIncomingUserAgent(msgp(keys), agent)
       [] w.format = "otlp"  -> addIncomingUserAgent(msgp({}), agent)
       [] w.format = "map"   -> ExtractMetadata(addIncomingUserAgent(NewPayload(w.f), agent), w)

\* Whether the user agent is the request's.
AgentAdded(p, w) ==
  /\ w.f[MetaRefineryIncomingUserAgent] \notin NonEmpty
  /\ p.meta[MetaRefineryIncomingUserAgent] # EmptyString

Receive(keys, agent) ==
  /\ phase = "wire"
  /\ payload' = Decode(wire, keys, agent)
  /\ phase' = IF Skipped(wire) THEN "skipped" ELSE "decoded"
  /\ last' = IF AgentAdded(payload', wire) THEN <<MetaRefineryIncomingUserAgent, agent>> ELSE last
  /\ UNCHANGED <<wire, hops, disputed>>

-----------------------------------------------------------------------------
(* Deciding and sending. *)

\* The serialized fields that were looked for are set; the rest is missing.
Memoized(p, find) ==
  LET found == {k \in find : p.msgpData[k] # Absent}
      memo  == [k \in Key |-> IF k \in found \ MetaField THEN p.msgpData[k] ELSE p.memoizedFields[k]]
  IN [p EXCEPT
        !.memoizedFields = memo,
        !.meta = [k \in MetaField |->
                    IF k \in found /\ p.msgpData[k] \in Accepts(k) THEN p.msgpData[k] ELSE p.meta[k]],
        !.missingFields = @ \cup {k \in find : memo[k] = Absent}]

\* makeDecision memoizes the key fields of the sampler of the moment, once; of all
\* the fields that are ever set, only the user agent is set before.
MemoizeFields(keys) ==
  /\ phase = "decoded"
  /\ payload' = Memoized(payload, {k \in keys \ payload.missingFields :
                                     payload.memoizedFields[k] = Absent})
  /\ phase' = "decided"
  /\ UNCHANGED <<wire, hops, disputed, last>>

\* The collector sets metadata and additional attributes.
Set(k, v) ==
  /\ phase \in {"decoded", "decided", "sending"}
  /\ payload' = SetField(payload, k, v)
  /\ last' = <<k, v>> /\ disputed' = disputed \cup Bears(k)
  /\ phase' = "sending"
  /\ UNCHANGED <<wire, hops>>

\* Variant: the fields still serialized are written over the memoized ones.
MarshalMsg_Stale(p) ==
  [k \in Key |-> IF k \in MetaField THEN GetMeta(p, k)
                 ELSE IF p.msgpData[k] # Absent THEN p.msgpData[k]
                 ELSE p.memoizedFields[k]]
\* MarshalMsg: the metadata that is there, then the memoized and then the other
\* serialized fields.
MarshalMsg(p) ==
  [k \in Key |-> IF k \in MetaField THEN GetMeta(p, k)
                 ELSE IF p.memoizedFields[k] # Absent THEN p.memoizedFields[k]
                 ELSE p.msgpData[k]]

Present(f) == {k \in Key : f[k] # Absent}

\* The event is encoded for a peer, or for another Refinery; too many fields are
\* an error.  Map iteration orders the fields at random.
Forward ==
  /\ phase \in {"decoded", "decided", "sending"} /\ hops < MaxHops
  /\ hops' = hops + 1
  /\ IF Cardinality(Present(MarshalMsg(payload))) > MaxFields
       THEN phase' = "failed" /\ UNCHANGED wire
       ELSE /\ phase' = "wire"
            /\ \E order \in Orders(MarshalMsg(payload)) :
                 wire' = Wire("batch", MarshalMsg(payload), order)
  /\ UNCHANGED <<payload, disputed, last>>

Next ==
  \/ \E keys \in KeyFieldLists, agent \in UserAgents : Receive(keys, agent)
  \/ \E keys \in KeyFieldLists : MemoizeFields(keys)
  \/ \E kv \in Settings : Set(kv[1], kv[2])
  \/ Forward

Spec == Init /\ [][Next]_vars

-----------------------------------------------------------------------------
(* What the fields are, wherever the event is. *)

\* The content of a map on the wire.
Content(w) ==
  [k \in Key |->
     IF k \in Data THEN w.f[k]
     ELSE IF k = MetaTraceID
       THEN IF w.f[k] \in NonEmpty THEN w.f[k]
            ELSE IF w.first # {} THEN w.f[CHOOSE n \in w.first : TRUE] ELSE Absent
     ELSE IF k = MetaRefineryRoot
       THEN IF w.f[MetaSignalType] = Log THEN Absent
            ELSE IF HasParent(w.f) /\ ~w.late THEN False
            ELSE IF w.f[k] \in Bool THEN w.f[k] ELSE True
     ELSE LET v == IF w.format = "map" THEN Converted(k, w.f[k]) ELSE w.f[k]
          IN IF v \in Accepts(k) \ {Default(k)} THEN v ELSE Absent]

Map == INSTANCE FieldMap WITH
  Field <- Key,
  Takes <- [k \in Key |-> IF k \in MetaField THEN Accepts(k) ELSE Value],
  ZeroValue <- [k \in Key |-> IF k \in MetaField THEN {Default(k)} ELSE {}],
  Disputes <- [k \in Key |-> Bears(k)],
  fields <- IF phase = "wire" THEN Content(wire) ELSE MarshalMsg(payload)

\* The comment on Payload: "Holds a conceptual map[string]any".  Whatever mixture of
\* serialized, memoized, missing and metadata fields it is kept in, only Set and
\* the request's user agent change what the event consists of: not decoding, in
\* any of its formats, not memoizing, and not a trip to a peer.  The exceptions
\* are metadata fields that the event contradicts itself about: decoding them
\* anew, or memoizing them as key fields, may end otherwise than the first time.
MapSpec == Map!Spec

\* What rules and samplers read from the payload.
View(p) == [k \in Key |-> IF Exists(p, k) THEN Get(p, k) ELSE Absent]

\* What is exported as JSON or by libhoney is what rules and samplers read, but
\* for the trace ID and a root flag that is not true; and but for a trace or
\* parent ID name that is a key field too: decoding uses it up, lists it among the
\* missing fields, and it reads as absent from then on.
ExportAgrees ==
  phase # "wire" =>
    \A k \in Key :
      IF k = MetaTraceID \/ (k = MetaRefineryRoot /\ View(payload)[k] # True)
        THEN All(payload)[k] = Absent
      ELSE \/ All(payload)[k] = View(payload)[k]
           \/ k \in IdName \cap payload.missingFields /\ View(payload)[k] = Absent
=============================================================================
