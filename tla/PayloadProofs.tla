---------------------------- MODULE PayloadProofs ----------------------------
(***************************************************************************)
(* A Payload implements a map.  The argument: at every place the fields    *)
(* are settled (the trace ID and the root flag are what the other fields   *)
(* say), but for those in dispute.  Encoding writes metadata that is not   *)
(* zero, and a settled map that is decoded comes out as it was written.    *)
(* Memoizing sets a metadata field that is not in dispute only to the      *)
(* value it has.  Rules read what is written, because no field but an ID   *)
(* name is listed as missing and yet in the serialized map.                *)
(***************************************************************************)
EXTENDS Payload, TLAPS

Live == {"decoded", "decided", "sending"}

\* The fields that can be in dispute.
Disputable == {MetaTraceID, MetaRefineryRoot, MetaRefineryIncomingUserAgent}

\* The trace ID and the root flag are what the other fields say.
Settled(f, d) ==
  /\ MetaTraceID \notin d =>
       (f[MetaTraceID] = Absent => \A n \in TraceIdName : f[n] \notin NonEmpty)
  /\ MetaRefineryRoot \notin d =>
       IF f[MetaSignalType] = Log THEN f[MetaRefineryRoot] = Absent
       ELSE IF HasParent(f) THEN f[MetaRefineryRoot] = False
       ELSE f[MetaRefineryRoot] \in Bool

\* Metadata is of the right type and not zero.
Clean(f) ==
  /\ f \in Fields
  /\ \A k \in MetaField : f[k] = Absent \/ (f[k] \in Accepts(k) /\ f[k] # Default(k))

WireOK(w, d) ==
  /\ w \in [format : Format, f : Fields, first : SUBSET TraceIdName,
             used : SUBSET TraceIdName, late : BOOLEAN]
  /\ Disputed(w.f) \subseteq d
  /\ w.first = {} \/ \E n \in TraceIdName : w.first = {n} /\ w.f[n] \in NonEmpty
  /\ w.first = {} /\ w.f[MetaTraceID] \notin String => \A n \in TraceIdName : w.f[n] \notin NonEmpty
  /\ w.late => w.f[MetaRefineryRoot] \in Bool

PayloadOK(p) ==
  /\ p \in [msgpData : Fields, memoizedFields : Fields, missingFields : SUBSET Key,
            meta : [MetaField -> Value \cup {Absent}], isEmpty : BOOLEAN, extracted : BOOLEAN]
  /\ \A k \in MetaField : p.meta[k] \in Accepts(k) \cup {Default(k)}
  \* the comment on missingFields: "fields that were not found in the payload"
  /\ \A k \in p.missingFields \ (MetaField \cup IdName) : p.msgpData[k] = Absent

\* Metadata fields that are not in dispute are as serialized.
Fresh(p, d) ==
  \A k \in MetaField \ d : p.msgpData[k] \in Accepts(k) => p.meta[k] = p.msgpData[k]

Inv ==
  /\ phase \in Live \cup {"wire", "skipped", "failed"}
  /\ disputed \subseteq Disputable
  /\ phase = "wire" => WireOK(wire, disputed)
  /\ phase # "wire" => PayloadOK(payload) /\ Settled(MarshalMsg(payload), disputed)
  /\ phase = "decoded" => Fresh(payload, disputed)

-----------------------------------------------------------------------------
\* A metadata field never accepts Absent, and its default counts as absent.
LEMMA MetaTypes ==
  /\ \A k \in MetaField : Absent \notin Accepts(k) /\ Accepts(k) \subseteq Value
  /\ Accepts(MetaTraceID) = String /\ Default(MetaTraceID) = EmptyString
  /\ Accepts(MetaSignalType) = String /\ Default(MetaSignalType) = EmptyString
  /\ Accepts(MetaRefineryRoot) = Bool /\ Default(MetaRefineryRoot) = Absent
  /\ Accepts(MetaRefineryIncomingUserAgent) = String
  /\ Default(MetaRefineryIncomingUserAgent) = EmptyString
  /\ {MetaTraceID, MetaSignalType, MetaRefineryRoot, MetaRefineryIncomingUserAgent}
       \subseteq MetaField
  /\ MetaTraceID # MetaRefineryRoot /\ MetaTraceID # MetaSignalType
  /\ MetaSignalType # MetaRefineryRoot
  /\ MetaRefineryIncomingUserAgent \notin {MetaTraceID, MetaSignalType, MetaRefineryRoot}
  /\ Data \cap MetaField = {} /\ Key = Data \cup MetaField /\ IdName \subseteq Data
  BY NameAssumption, ValueAssumption
     DEF Accepts, Default, Value, MetaField, Key, IdName, MetaTraceID, MetaSignalType,
         MetaRefineryRoot, MetaRefineryIncomingUserAgent

\* What a payload is encoded as, metadata fields first.
LEMMA Encoded ==
  ASSUME NEW p, PayloadOK(p)
  PROVE  /\ Clean(MarshalMsg(p))
         /\ \A k \in MetaField :
              MarshalMsg(p)[k] = IF p.meta[k] = Default(k) THEN Absent ELSE p.meta[k]
         /\ \A k \in Data : MarshalMsg(p)[k] = IF p.memoizedFields[k] # Absent
                                           THEN p.memoizedFields[k] ELSE p.msgpData[k]
<1>1. MarshalMsg(p) \in Fields
  BY MetaTypes DEF MarshalMsg, PayloadOK, Fields, GetMeta
<1>2. /\ \A k \in MetaField :
           MarshalMsg(p)[k] = IF p.meta[k] = Default(k) THEN Absent ELSE p.meta[k]
      /\ \A k \in Data : MarshalMsg(p)[k] = IF p.memoizedFields[k] # Absent
                                        THEN p.memoizedFields[k] ELSE p.msgpData[k]
  BY MetaTypes DEF MarshalMsg, GetMeta
<1> QED
  BY <1>1, <1>2 DEF Clean, PayloadOK

\* Rules read what is encoded, unless the field is an ID name listed as missing.
LEMMA ViewIsEncoded ==
  ASSUME NEW p, PayloadOK(p), NEW k \in Key
  PROVE  \/ View(p)[k] = MarshalMsg(p)[k]
         \/ k \in IdName \cap p.missingFields /\ View(p)[k] = Absent
  BY NameAssumption DEF View, MarshalMsg, Exists, Get, GetMeta, PayloadOK, Key, Fields

\* Fields in dispute have no part in what is settled ...
LEMMA SettledSame ==
  ASSUME NEW f, NEW g, NEW d \in SUBSET Disputable, Settled(f, d),
         \A k \in Key \ d : g[k] = f[k]
  PROVE  Settled(g, d)
<1>1. IdName \cup {MetaSignalType} \subseteq Key \ d
  BY MetaTypes DEF Disputable
<1>2. HasParent(g) = HasParent(f)
  BY <1>1 DEF HasParent, IdName
<1>3. \A n \in TraceIdName : g[n] = f[n]
  BY <1>1 DEF IdName
<1>4. /\ MetaTraceID \notin d => g[MetaTraceID] = f[MetaTraceID]
      /\ MetaRefineryRoot \notin d => g[MetaRefineryRoot] = f[MetaRefineryRoot]
      /\ g[MetaSignalType] = f[MetaSignalType]
  BY <1>1, MetaTypes
<1> QED
  BY <1>2, <1>3, <1>4 DEF Settled

\* ... and a field that is set puts in dispute what it speaks of.
LEMMA SettledSet ==
  ASSUME NEW f \in Fields, NEW d, Settled(f, d), NEW k \in Key, NEW v
  PROVE  Settled([f EXCEPT ![k] = v], d \cup Bears(k))
<1> DEFINE g == [f EXCEPT ![k] = v]
<1>1. \A j \in Key : j # k => g[j] = f[j]
  BY DEF Fields
<1>2. ASSUME MetaTraceID \notin d \cup Bears(k), g[MetaTraceID] = Absent, NEW n \in TraceIdName
      PROVE  g[n] \notin NonEmpty
  <2>1. k \notin TraceIdName /\ k # MetaTraceID
    BY <1>2 DEF Bears
  <2>2. g[n] = f[n] /\ g[MetaTraceID] = f[MetaTraceID]
    BY <1>1, <2>1, MetaTypes DEF IdName
  <2> QED
    BY <1>2, <2>2 DEF Settled
<1>3. ASSUME MetaRefineryRoot \notin d \cup Bears(k)
      PROVE  IF g[MetaSignalType] = Log THEN g[MetaRefineryRoot] = Absent
             ELSE IF HasParent(g) THEN g[MetaRefineryRoot] = False
             ELSE g[MetaRefineryRoot] \in Bool
  <2>1. k \notin ParentIdName \cup {MetaSignalType, MetaRefineryRoot}
    BY <1>3 DEF Bears
  <2>2. \A n \in ParentIdName : g[n] = f[n]
    BY <1>1, <2>1, MetaTypes DEF IdName
  <2>3. g[MetaSignalType] = f[MetaSignalType] /\ g[MetaRefineryRoot] = f[MetaRefineryRoot]
    BY <1>1, <2>1, MetaTypes
  <2>4. HasParent(g) = HasParent(f)
    BY <2>2 DEF HasParent
  <2> QED
    BY <1>3, <2>3, <2>4 DEF Settled
<1> QED
  BY <1>2, <1>3 DEF Settled

\* The content of a map on the wire is settled, whoever sent it.
LEMMA ContentSettled ==
  ASSUME NEW w, NEW d, WireOK(w, d)
  PROVE  Clean(Content(w)) /\ Settled(Content(w), d)
<1> DEFINE c == Content(w)
<1>1. w.f \in Fields /\ w.f[MetaSignalType] \in Value \cup {Absent}
  BY MetaTypes DEF WireOK, Fields
<1>2. \A k \in Data : c[k] = w.f[k]
  BY MetaTypes DEF Content
<1>3. HasParent(c) = HasParent(w.f)
  BY <1>2, NameAssumption DEF HasParent
<1>4. \A k \in MetaField \ {MetaTraceID, MetaRefineryRoot} :
        c[k] = Absent \/ (c[k] \in Accepts(k) /\ c[k] # Default(k))
  BY MetaTypes DEF Content
<1>5. c[MetaTraceID] = Absent \/ c[MetaTraceID] \in NonEmpty
  BY MetaTypes, ValueAssumption DEF Content, WireOK
<1>6. ASSUME MetaTraceID \notin d, c[MetaTraceID] = Absent, NEW n \in TraceIdName
      PROVE  c[n] \notin NonEmpty
  <2>1. Absent \notin NonEmpty
    BY ValueAssumption DEF NonEmpty, Value
  <2>2. c[MetaTraceID] = IF w.f[MetaTraceID] \in NonEmpty THEN w.f[MetaTraceID]
            ELSE IF w.first # {} THEN w.f[CHOOSE m \in w.first : TRUE] ELSE Absent
    BY MetaTypes DEF Content
  <2>3. w.first # {} => w.f[CHOOSE m \in w.first : TRUE] \in NonEmpty
    BY DEF WireOK
  <2>4. w.first = {} /\ w.f[MetaTraceID] \notin NonEmpty
    BY <1>6, <2>1, <2>2, <2>3
  <2>5. w.f[n] \notin NonEmpty
    <3>1. CASE w.f[MetaTraceID] = EmptyString
      BY <1>6, <3>1, MetaTypes DEF WireOK, Disputed
    <3>2. CASE w.f[MetaTraceID] \notin String
      BY <2>4, <3>2 DEF WireOK
    <3> QED
      BY <2>4, <3>1, <3>2 DEF NonEmpty
  <2> QED
    BY <1>2, <2>5, NameAssumption
<1>7. c[MetaSignalType] = Log <=> w.f[MetaSignalType] = Log
  <2>1. Log \in String /\ Log # EmptyString /\ Log # Absent
    BY ValueAssumption DEF NonEmpty, Value
  <2>2. MetaSignalType \notin Int64Field
    BY NameAssumption
  <2>3. c[MetaSignalType] = IF w.f[MetaSignalType] \in String \ {EmptyString}
                              THEN w.f[MetaSignalType] ELSE Absent
    BY <2>2, MetaTypes DEF Content, Converted
  <2> QED
    BY <2>1, <2>3
<1>8. c[MetaRefineryRoot] = IF w.f[MetaSignalType] = Log THEN Absent
            ELSE IF HasParent(w.f) /\ ~w.late THEN False
            ELSE IF w.f[MetaRefineryRoot] \in Bool THEN w.f[MetaRefineryRoot] ELSE True
  BY MetaTypes DEF Content
<1>9. MetaRefineryRoot \notin d =>
        IF c[MetaSignalType] = Log THEN c[MetaRefineryRoot] = Absent
        ELSE IF HasParent(c) THEN c[MetaRefineryRoot] = False
        ELSE c[MetaRefineryRoot] \in Bool
  <2>1. MetaRefineryRoot \notin d /\ w.f[MetaRefineryRoot] \in Bool =>
          ~(w.f[MetaRefineryRoot] = True /\ HasParent(w.f))
    BY MetaTypes DEF WireOK, Disputed
  <2>2. w.late => w.f[MetaRefineryRoot] \in Bool
    BY DEF WireOK
  <2> QED
    BY <1>3, <1>7, <1>8, <2>1, <2>2 DEF Bool
<1>10. c[MetaRefineryRoot] = Absent \/ c[MetaRefineryRoot] \in Bool
  BY <1>8 DEF Bool
<1>11. \A k \in MetaField : c[k] = Absent \/ (c[k] \in Accepts(k) /\ c[k] # Default(k))
  BY <1>4, <1>5, <1>10, MetaTypes, ValueAssumption DEF NonEmpty, Value
<1>12. c \in Fields
  <2>1. \A k \in Key : c[k] \in Value \cup {Absent}
    BY <1>1, <1>2, <1>11, MetaTypes DEF Fields
  <2> QED
    BY <2>1 DEF Content, Fields
<1> QED
  BY <1>6, <1>9, <1>11, <1>12 DEF Settled, Clean

\* What the pass over a map can make of the order of its fields.
LEMMA OrderFacts ==
  ASSUME NEW f, NEW order \in Orders(f)
  PROVE  /\ order.first \in SUBSET TraceIdName /\ order.used \in SUBSET TraceIdName
         /\ order.late \in BOOLEAN
         /\ order.first = {} \/ \E n \in TraceIdName : order.first = {n} /\ f[n] \in NonEmpty
         /\ order.first = {} /\ f[MetaTraceID] \notin String =>
              \A n \in TraceIdName : f[n] \notin NonEmpty
         /\ order.late => f[MetaRefineryRoot] \in Bool
<1> DEFINE found == {n \in TraceIdName : f[n] \in NonEmpty}
           empty == {n \in TraceIdName : f[n] = EmptyString}
           single == {{}} \cup {{n} : n \in found}
<1>1. PICK x \in [first : single, over : single, empty : SUBSET empty, late : BOOLEAN] :
        /\ x.over # {} => f[MetaTraceID] \in String /\ x.first # x.over
        /\ x.first \cup x.over = {} => found = {} \/ f[MetaTraceID] \in NonEmpty
        /\ x.late => HasParent(f) /\ f[MetaRefineryRoot] \in Bool
        /\ order = [first |-> x.first, used |-> x.first \cup x.over \cup x.empty, late |-> x.late]
  BY DEF Orders
<1>2. /\ order.first = x.first /\ order.used = x.first \cup x.over \cup x.empty
      /\ order.late = x.late
  BY <1>1
<1>3. x.first \in single /\ x.over \in single /\ x.empty \in SUBSET empty /\ x.late \in BOOLEAN
  BY <1>1
<1>4. x.first \subseteq TraceIdName /\ x.over \subseteq TraceIdName /\ x.empty \subseteq TraceIdName
  BY <1>3
<1>5. x.first = {} \/ \E n \in TraceIdName : x.first = {n} /\ f[n] \in NonEmpty
  BY <1>3
<1>6. x.first = {} /\ f[MetaTraceID] \notin String => found = {}
  BY <1>1 DEF NonEmpty
<1>7. found = {} => \A n \in TraceIdName : f[n] \notin NonEmpty
  OBVIOUS
<1>8. x.late => f[MetaRefineryRoot] \in Bool
  BY <1>1
<1> HIDE DEF found, empty, single
<1> QED
  BY <1>2, <1>3, <1>4, <1>5, <1>6, <1>7, <1>8

\* A map of a client is in dispute about nothing but what is noted.
LEMMA ClientWire ==
  ASSUME NEW f \in Fields, NEW order \in Orders(f), NEW format \in Format,
         NEW d, Disputed(f) \subseteq d
  PROVE  WireOK(Wire(format, f, order), d)
<1> DEFINE w == Wire(format, f, order)
<1>1. w = [format |-> format, f |-> f, first |-> order.first, used |-> order.used,
           late |-> order.late]
  BY DEF Wire
<1>2. w.f = f /\ w.first = order.first /\ w.late = order.late
  BY <1>1
<1>3. w \in [format : Format, f : Fields, first : SUBSET TraceIdName,
             used : SUBSET TraceIdName, late : BOOLEAN]
  BY <1>1, OrderFacts
<1> HIDE DEF w
<1>4. WireOK(w, d)
  BY <1>2, <1>3, OrderFacts DEF WireOK
<1> QED
  BY <1>4 DEF w

\* A map that is sent to a peer has the same content there, but for fields in dispute.
LEMMA SentContent ==
  ASSUME NEW f, NEW d, Clean(f), Settled(f, d), NEW order \in Orders(f)
  PROVE  /\ WireOK(Wire("batch", f, order), d)
         /\ \A k \in Key \ d : Content(Wire("batch", f, order))[k] = f[k]
<1> DEFINE w == Wire("batch", f, order)
<1>1. w.f = f /\ w.format = "batch" /\ w.first = order.first /\ w.late = order.late
  BY DEF Wire
<1>2. Absent \notin Bool /\ Absent \notin NonEmpty /\ Absent # EmptyString
  BY ValueAssumption DEF NonEmpty, Value
<1>3. Disputed(f) \subseteq d
  <2>1. f[MetaTraceID] # EmptyString /\ f[MetaRefineryIncomingUserAgent] # EmptyString
    BY <1>2, MetaTypes DEF Clean
  <2>2. True # False
    BY ValueAssumption
  <2>3. f[MetaRefineryRoot] \in Bool
          /\ (f[MetaSignalType] = Log \/ (f[MetaRefineryRoot] = True /\ HasParent(f)))
        => MetaRefineryRoot \in d
    BY <1>2, <2>2 DEF Settled
  <2> QED
    BY <2>1, <2>3 DEF Disputed
<1>4. WireOK(w, d)
  BY <1>3, ClientWire DEF Clean, Format
<1>5. ASSUME NEW k \in Key \ d
      PROVE  Content(w)[k] = f[k]
  <2>1. CASE k \in Data
    BY <1>1, <2>1 DEF Content
  <2>2. CASE k = MetaTraceID
    <3>1. f[k] = Absent \/ f[k] \in NonEmpty
      BY <2>2, MetaTypes DEF Clean, NonEmpty
    <3>2. f[k] = Absent => w.first = {}
      BY <1>1, <1>5, <2>2, OrderFacts DEF Settled
    <3>3. Content(w)[k] = IF f[k] \in NonEmpty THEN f[k]
             ELSE IF w.first # {} THEN f[CHOOSE n \in w.first : TRUE] ELSE Absent
      BY <1>1, <2>2, MetaTypes DEF Content
    <3> QED
      BY <1>2, <3>1, <3>2, <3>3
  <2>3. CASE k = MetaRefineryRoot
    <3>1. Content(w)[k] = IF f[MetaSignalType] = Log THEN Absent
            ELSE IF HasParent(f) /\ ~w.late THEN False
            ELSE IF f[k] \in Bool THEN f[k] ELSE True
      BY <1>1, <2>3, MetaTypes DEF Content
    <3>2. False \in Bool
      BY DEF Bool
    <3> QED
      BY <1>5, <2>3, <3>1, <3>2 DEF Settled
  <2>4. CASE k \in MetaField \ {MetaTraceID, MetaRefineryRoot}
    <3>1. Content(w)[k] = IF f[k] \in Accepts(k) \ {Default(k)} THEN f[k] ELSE Absent
      BY <1>1, <2>4, MetaTypes DEF Content
    <3> QED
      BY <2>4, <3>1 DEF Clean
  <2> QED
    BY <2>1, <2>2, <2>3, <2>4, MetaTypes
<1> QED
  BY <1>4, <1>5

-----------------------------------------------------------------------------
(* Decoding. *)

\* What both ways to extract metadata make of a new payload, which a map's has the
\* user agent: the metadata fields of the right type, the trace ID and the root flag.
Extracted(w, agent) ==
  LET own(k) == IF w.format = "map" THEN Converted(k, w.f[k]) ELSE w.f[k]
      new(k) == IF k = MetaRefineryIncomingUserAgent THEN agent ELSE Default(k)
      meta   == [k \in MetaField |-> IF own(k) \in Accepts(k) THEN own(k) ELSE new(k)]
  IN [meta EXCEPT ![MetaTraceID] = TraceIdOf(w), ![MetaRefineryRoot] = RootOf(w)]

\* What the extraction leaves in the metadata fields is what the incoming data says
\* of them, and the user agent that was there before if it does not speak of one.
LEMMA ExtractedContent ==
  ASSUME NEW w, NEW d, WireOK(w, d), NEW agent \in String
  PROVE  /\ Extracted(w, agent) \in [MetaField -> Value \cup {Absent}]
         /\ \A k \in MetaField : Extracted(w, agent)[k] \in Accepts(k) \cup {Default(k)}
         /\ \A k \in MetaField \ {MetaRefineryIncomingUserAgent} :
              Content(w)[k] = IF Extracted(w, agent)[k] = Default(k) THEN Absent
                              ELSE Extracted(w, agent)[k]
         /\ Extracted(w, agent)[MetaRefineryIncomingUserAgent] =
              IF w.f[MetaRefineryIncomingUserAgent] \in String
                THEN w.f[MetaRefineryIncomingUserAgent] ELSE agent
         /\ Content(w)[MetaRefineryIncomingUserAgent] =
              IF w.f[MetaRefineryIncomingUserAgent] \in NonEmpty
                THEN w.f[MetaRefineryIncomingUserAgent] ELSE Absent
         /\ w.format # "map" =>
              \A k \in MetaField \ d : w.f[k] \in Accepts(k) => Extracted(w, agent)[k] = w.f[k]
<1> DEFINE own(k) == IF w.format = "map" THEN Converted(k, w.f[k]) ELSE w.f[k]
           new(k) == IF k = MetaRefineryIncomingUserAgent THEN agent ELSE Default(k)
           meta == [k \in MetaField |-> IF own(k) \in Accepts(k) THEN own(k) ELSE new(k)]
           e == Extracted(w, agent)
           ua == MetaRefineryIncomingUserAgent
<1>1. /\ \A k \in MetaField \ {MetaTraceID, MetaRefineryRoot} : e[k] = meta[k]
      /\ e[MetaTraceID] = TraceIdOf(w)
      /\ e[MetaRefineryRoot] = RootOf(w)
      /\ DOMAIN e = MetaField /\ e = [k \in MetaField |-> e[k]]
  BY MetaTypes DEF Extracted
<1>2. {MetaTraceID, MetaSignalType, MetaRefineryRoot, ua} \cap Int64Field = {}
  BY NameAssumption
<1>3. w.f \in Fields
  BY DEF WireOK
<1>4. \A k \in {MetaTraceID, MetaSignalType, MetaRefineryRoot, ua} : own(k) = w.f[k]
  BY <1>2 DEF Converted
<1>5. e[MetaTraceID] = IF w.f[MetaTraceID] \in NonEmpty THEN w.f[MetaTraceID]
                       ELSE IF w.first = {} THEN EmptyString
                       ELSE w.f[CHOOSE n \in w.first : TRUE]
  BY <1>1 DEF TraceIdOf
<1>6. w.first # {} => w.f[CHOOSE n \in w.first : TRUE] \in NonEmpty
  BY DEF WireOK
<1>7. e[MetaTraceID] \in String
  BY <1>5, <1>6, ValueAssumption DEF NonEmpty
<1>8. Content(w)[MetaTraceID] = IF e[MetaTraceID] = EmptyString THEN Absent ELSE e[MetaTraceID]
  <2>1. Content(w)[MetaTraceID] = IF w.f[MetaTraceID] \in NonEmpty THEN w.f[MetaTraceID]
             ELSE IF w.first # {} THEN w.f[CHOOSE n \in w.first : TRUE] ELSE Absent
    BY MetaTypes DEF Content
  <2> QED
    BY <1>5, <1>6, <2>1 DEF NonEmpty
<1>9. e[MetaRefineryRoot] = IF w.f[MetaSignalType] = Log THEN Absent
            ELSE IF w.f[MetaRefineryRoot] \in Bool /\ (HasParent(w.f) => w.late)
              THEN w.f[MetaRefineryRoot]
            ELSE IF HasParent(w.f) THEN False ELSE True
  BY <1>1 DEF RootOf
<1>10. Content(w)[MetaRefineryRoot] = e[MetaRefineryRoot]
  <2>1. Content(w)[MetaRefineryRoot] = IF w.f[MetaSignalType] = Log THEN Absent
            ELSE IF HasParent(w.f) /\ ~w.late THEN False
            ELSE IF w.f[MetaRefineryRoot] \in Bool THEN w.f[MetaRefineryRoot] ELSE True
    BY MetaTypes DEF Content
  <2>2. w.late => w.f[MetaRefineryRoot] \in Bool
    BY DEF WireOK
  <2> QED
    BY <1>9, <2>1, <2>2
<1>11. e[MetaRefineryRoot] \in Bool \cup {Absent}
  BY <1>9 DEF Bool
<1>12. /\ e[ua] = IF w.f[ua] \in String THEN w.f[ua] ELSE agent
       /\ Content(w)[ua] = IF w.f[ua] \in NonEmpty THEN w.f[ua] ELSE Absent
  <2>1. e[ua] = IF w.f[ua] \in String THEN w.f[ua] ELSE agent
    BY <1>1, <1>4, MetaTypes
  <2>2. Content(w)[ua] = IF w.f[ua] \in NonEmpty THEN w.f[ua] ELSE Absent
    BY <1>2, MetaTypes DEF Content, Converted, NonEmpty
  <2> QED
    BY <2>1, <2>2
<1>13. \A k \in MetaField \ {MetaTraceID, MetaRefineryRoot, ua} :
         /\ e[k] \in Accepts(k) \cup {Default(k)}
         /\ Content(w)[k] = IF e[k] = Default(k) THEN Absent ELSE e[k]
  BY <1>1, MetaTypes DEF Content
<1>14. \A k \in MetaField : e[k] \in Accepts(k) \cup {Default(k)}
  BY <1>7, <1>11, <1>12, <1>13, MetaTypes
<1>15. \A k \in MetaField : Default(k) \in Value \cup {Absent}
  BY ValueAssumption DEF Default, Value
<1>16. e \in [MetaField -> Value \cup {Absent}]
  BY <1>1, <1>14, <1>15, MetaTypes
<1>17. \A k \in MetaField \ {ua} : Content(w)[k] = IF e[k] = Default(k) THEN Absent ELSE e[k]
  BY <1>8, <1>10, <1>13, MetaTypes
<1>18. ASSUME w.format # "map", NEW k \in MetaField \ d, w.f[k] \in Accepts(k)
       PROVE  e[k] = w.f[k]
  <2>1. CASE k = MetaTraceID
    <3>1. CASE w.f[k] \in NonEmpty
      BY <1>5, <2>1, <3>1
    <3>2. CASE w.f[k] \notin NonEmpty
      <4>1. w.f[k] = EmptyString
        BY <1>18, <2>1, <3>2, MetaTypes DEF NonEmpty
      <4>2. \A n \in TraceIdName : w.f[n] \notin NonEmpty
        BY <1>18, <2>1, <4>1 DEF WireOK, Disputed
      <4>3. w.first = {}
        BY <4>2 DEF WireOK
      <4> QED
        BY <1>5, <2>1, <3>2, <4>1, <4>3
    <3> QED
      BY <3>1, <3>2
  <2>2. CASE k = MetaRefineryRoot
    <3>1. w.f[k] \in Bool
      BY <1>18, <2>2, MetaTypes
    <3>2. w.f[MetaSignalType] # Log /\ ~(w.f[k] = True /\ HasParent(w.f))
      BY <1>18, <2>2, <3>1 DEF WireOK, Disputed
    <3> QED
      BY <1>9, <2>2, <3>1, <3>2 DEF Bool
  <2>3. CASE k \notin {MetaTraceID, MetaRefineryRoot}
    BY <1>1, <1>18, <2>3
  <2> QED
    BY <2>1, <2>2, <2>3
<1> HIDE DEF e, own, new, meta
<1> QED
  BY <1>12, <1>14, <1>16, <1>17, <1>18 DEF e

\* The payload that the serialized map w becomes, with the key fields ks looked up.
Serialized(w, ks) == [extractCriticalFieldsFromBytes(NewPayload(Nothing), w, ks) EXCEPT !.msgpData = w.f]

\* What the metadata of a payload decoded from w is, with a user agent added or not.
Decoded(p, w, d, agent) ==
  /\ PayloadOK(p) /\ Fresh(p, d)
  /\ \A k \in Key \ {MetaRefineryIncomingUserAgent} : MarshalMsg(p)[k] = Content(w)[k]
  /\ p.meta[MetaRefineryIncomingUserAgent] =
       IF w.f[MetaRefineryIncomingUserAgent] \in NonEmpty
         THEN w.f[MetaRefineryIncomingUserAgent] ELSE agent

\* UnmarshalMsg and UnmarshalJSON: the decoded payload is well formed and has what was sent.
LEMMA DecodeSerialized ==
  ASSUME NEW w, NEW d, WireOK(w, d), w.format # "map", NEW ks \in SUBSET Key
  PROVE  Decoded(Serialized(w, ks), w, d, EmptyString) /\ Serialized(w, ks).msgpData = w.f
<1> DEFINE q == Serialized(w, ks)
           own == {k \in MetaField : w.f[k] \in Accepts(k)}
           meta == [k \in MetaField |-> IF k \in own THEN w.f[k] ELSE Default(k)]
           parents == {n \in ParentIdName : w.f[n] \in String}
           found == {k \in ks \ (own \cup w.used \cup parents) : w.f[k] # Absent}
           memo == [k \in Key |-> IF k \in found \ MetaField THEN w.f[k] ELSE Absent]
<1>0. EmptyString \in String
  BY ValueAssumption
<1>1. w.f \in Fields
  BY DEF WireOK
<1>2. q = [msgpData |-> w.f, memoizedFields |-> memo,
           missingFields |-> IF found = ks THEN {} ELSE Missing(ks, memo),
           meta |-> Extracted(w, EmptyString), isEmpty |-> (w.f = Nothing), extracted |-> TRUE]
  <2> DEFINE p == NewPayload(Nothing)
             pmeta == [k \in MetaField |-> IF k \in own THEN w.f[k] ELSE p.meta[k]]
             pmemo == [k \in Key |-> IF k \in found \ MetaField THEN w.f[k] ELSE p.memoizedFields[k]]
  <2>1. p = [msgpData |-> Nothing, memoizedFields |-> Nothing, missingFields |-> {},
             meta |-> [k \in MetaField |-> Default(k)], isEmpty |-> FALSE, extracted |-> FALSE]
    BY DEF NewPayload
  <2>2. pmeta = meta
    BY <2>1
  <2>3. pmemo = memo
    <3> HIDE DEF found
    <3> QED
      BY <2>1 DEF Nothing
  <2>4. Extracted(w, EmptyString) = [meta EXCEPT ![MetaTraceID] = TraceIdOf(w),
                                                 ![MetaRefineryRoot] = RootOf(w)]
    <3>1. meta = [k \in MetaField |-> IF w.f[k] \in Accepts(k) THEN w.f[k]
                    ELSE IF k = MetaRefineryIncomingUserAgent THEN EmptyString ELSE Default(k)]
      BY MetaTypes
    <3> HIDE DEF meta
    <3> QED
      BY <3>1 DEF Extracted
  <2>5. extractCriticalFieldsFromBytes(p, w, ks) =
          [p EXCEPT
             !.meta = [pmeta EXCEPT ![MetaTraceID] = TraceIdOf(w), ![MetaRefineryRoot] = RootOf(w)],
             !.memoizedFields = pmemo,
             !.missingFields = IF found = ks THEN @ ELSE @ \cup Missing(ks, pmemo),
             !.isEmpty = (w.f = Nothing),
             !.extracted = TRUE]
    <3> HIDE DEF p
    <3> QED
      BY Zenon DEF extractCriticalFieldsFromBytes
  <2>6. q = [extractCriticalFieldsFromBytes(p, w, ks) EXCEPT !.msgpData = w.f]
    BY DEF Serialized
  <2> HIDE DEF pmeta, pmemo, p, meta, found, memo, q
  <2>7. extractCriticalFieldsFromBytes(p, w, ks) =
          [p EXCEPT !.meta = Extracted(w, EmptyString), !.memoizedFields = memo,
                    !.missingFields = IF found = ks THEN @ ELSE @ \cup Missing(ks, memo),
                    !.isEmpty = (w.f = Nothing), !.extracted = TRUE]
    <3> HIDE DEF Extracted, Missing
    <3> QED
      BY <2>2, <2>3, <2>4, <2>5, Zenon
  <2>8. {} \cup Missing(ks, memo) = Missing(ks, memo)
    OBVIOUS
  <2> QED
    BY <2>1, <2>6, <2>7, <2>8
<1>3. memo \in Fields /\ \A k \in Data : memo[k] = Absent \/ memo[k] = w.f[k]
  BY <1>1, MetaTypes DEF Fields
<1>4. \A k \in Missing(ks, memo) \ (MetaField \cup IdName) : w.f[k] = Absent
  <2>1. w.used \subseteq IdName /\ ParentIdName \subseteq IdName
    BY DEF WireOK, IdName
  <2>2. ASSUME NEW k \in ks \ (MetaField \cup IdName), w.f[k] # Absent
        PROVE  memo[k] # Absent
    <3>1. k \notin own \cup w.used \cup parents
      BY <2>1, <2>2
    <3> QED
      BY <2>2, <3>1
  <2> QED
    BY <2>2 DEF Missing
<1> HIDE DEF memo, found, q
<1>5. Missing(ks, memo) \subseteq Key
  BY DEF Missing
<1>6. PayloadOK(q)
  <2>1. \A k \in q.missingFields \ (MetaField \cup IdName) : q.msgpData[k] = Absent
    BY <1>2, <1>4
  <2>2. \A k \in MetaField : q.meta[k] \in Accepts(k) \cup {Default(k)}
    BY <1>0, <1>2, ExtractedContent
  <2> QED
    BY <1>0, <1>1, <1>2, <1>3, <1>5, <2>1, <2>2, ExtractedContent DEF PayloadOK
<1>7. \A k \in Key \ {MetaRefineryIncomingUserAgent} : MarshalMsg(q)[k] = Content(w)[k]
  <2>1. \A k \in MetaField \ {MetaRefineryIncomingUserAgent} : MarshalMsg(q)[k] = Content(w)[k]
    BY <1>0, <1>2, <1>6, Encoded, ExtractedContent
  <2>2. \A k \in Data : MarshalMsg(q)[k] = w.f[k] /\ Content(w)[k] = w.f[k]
    BY <1>2, <1>3, <1>6, Encoded, MetaTypes DEF Content
  <2> QED
    BY <2>1, <2>2, MetaTypes
<1>8. Fresh(q, d)
  BY <1>0, <1>2, ExtractedContent DEF Fresh
<1>9. q.meta[MetaRefineryIncomingUserAgent] =
        IF w.f[MetaRefineryIncomingUserAgent] \in NonEmpty
          THEN w.f[MetaRefineryIncomingUserAgent] ELSE EmptyString
  BY <1>0, <1>2, ExtractedContent DEF NonEmpty
<1>10. Decoded(q, w, d, EmptyString)
  BY <1>6, <1>7, <1>8, <1>9 DEF Decoded
<1>11. q.msgpData = w.f
  BY <1>2
<1> QED
  BY <1>10, <1>11 DEF q

\* addIncomingUserAgent: the request's user agent stands in for one that is missing or empty.
LEMMA AgentDecoded ==
  ASSUME NEW w, NEW d, WireOK(w, d), NEW p, Decoded(p, w, d, EmptyString),
         p.msgpData = w.f, NEW agent \in String
  PROVE  Decoded(addIncomingUserAgent(p, agent), w, d, agent)
<1> DEFINE q == addIncomingUserAgent(p, agent)
           ua == MetaRefineryIncomingUserAgent
<1>1. PayloadOK(p) /\ Fresh(p, d)
  BY DEF Decoded
<1>2. p.meta[ua] = IF w.f[ua] \in NonEmpty THEN w.f[ua] ELSE EmptyString
  BY DEF Decoded
<1>3. CASE w.f[ua] \in NonEmpty
  <2>1. q = p
    BY <1>2, <1>3 DEF addIncomingUserAgent, NonEmpty
  <2> QED
    BY <1>3, <2>1 DEF Decoded
<1>4. CASE w.f[ua] \notin NonEmpty
  <2>1. q = [p EXCEPT !.meta[ua] = agent]
    BY <1>2, <1>4 DEF addIncomingUserAgent
  <2>2. /\ q.msgpData = p.msgpData /\ q.memoizedFields = p.memoizedFields
        /\ q.missingFields = p.missingFields /\ q.meta = [p.meta EXCEPT ![ua] = agent]
        /\ q.isEmpty = p.isEmpty /\ q.extracted = p.extracted
    BY <1>1, <2>1 DEF PayloadOK
  <2>3. agent \in Value \cup {Absent}
    BY DEF Value
  <2>4. q.meta[ua] = agent /\ \A k \in MetaField : k # ua => q.meta[k] = p.meta[k]
    BY <1>1, <2>2, MetaTypes DEF PayloadOK
  <2>5. PayloadOK(q)
    <3>1. q \in [msgpData : Fields, memoizedFields : Fields, missingFields : SUBSET Key,
                 meta : [MetaField -> Value \cup {Absent}], isEmpty : BOOLEAN, extracted : BOOLEAN]
      BY <1>1, <2>1, <2>3 DEF PayloadOK
    <3>2. \A k \in MetaField : q.meta[k] \in Accepts(k) \cup {Default(k)}
      BY <1>1, <2>4, MetaTypes DEF PayloadOK
    <3> QED
      BY <1>1, <2>2, <3>1, <3>2 DEF PayloadOK
  <2>6. \A k \in Key \ {ua} : MarshalMsg(q)[k] = MarshalMsg(p)[k]
    <3>1. \A k \in MetaField \ {ua} : MarshalMsg(q)[k] = MarshalMsg(p)[k]
      BY <1>1, <2>4, <2>5, Encoded
    <3>2. \A k \in Data : MarshalMsg(q)[k] = MarshalMsg(p)[k]
      BY <1>1, <2>2, <2>5, Encoded
    <3> QED
      BY <3>1, <3>2, MetaTypes
  <2>7. Fresh(q, d)
    <3>1. ASSUME NEW k \in MetaField \ d, q.msgpData[k] \in Accepts(k)
          PROVE  q.meta[k] = q.msgpData[k]
      <4>1. p.meta[k] = p.msgpData[k]
        BY <1>1, <2>2, <3>1 DEF Fresh
      <4>2. CASE k # ua
        BY <2>2, <2>4, <4>1, <4>2
      <4>3. CASE k = ua
        <5>1. p.msgpData[ua] = EmptyString
          BY <1>2, <1>4, <4>1, <4>3
        <5>2. q.meta[ua] = agent /\ q.msgpData[ua] = EmptyString
          BY <2>2, <2>4, <5>1
        <5>3. w.f[ua] = EmptyString
          BY <5>1
        <5> QED
          BY <3>1, <4>3, <5>3, MetaTypes DEF WireOK, Disputed
      <4> QED
        BY <4>2, <4>3
    <3> QED
      BY <3>1 DEF Fresh
  <2> QED
    BY <1>4, <2>4, <2>5, <2>6, <2>7 DEF Decoded
<1> QED
  BY <1>3, <1>4

\* NewPayload with ExtractMetadata, on a map in memory: the payload has what the map held.
LEMMA DecodeMap ==
  ASSUME NEW w, NEW d, WireOK(w, d), w.format = "map", NEW agent \in String
  PROVE  LET q == ExtractMetadata(addIncomingUserAgent(NewPayload(w.f), agent), w)
         IN /\ PayloadOK(q) /\ Fresh(q, d)
            /\ \A k \in Key \ {MetaRefineryIncomingUserAgent} : MarshalMsg(q)[k] = Content(w)[k]
            /\ q.meta[MetaRefineryIncomingUserAgent] =
                 IF w.f[MetaRefineryIncomingUserAgent] \in String
                   THEN w.f[MetaRefineryIncomingUserAgent] ELSE agent
<1> DEFINE p == addIncomingUserAgent(NewPayload(w.f), agent)
           q == ExtractMetadata(p, w)
           new(k) == IF k = MetaRefineryIncomingUserAgent THEN agent ELSE Default(k)
           meta == [k \in MetaField |-> IF Converted(k, w.f[k]) \in Accepts(k)
                                          THEN Converted(k, w.f[k]) ELSE new(k)]
<1>1. w.f \in Fields /\ Nothing \in Fields
  BY DEF WireOK, Nothing, Fields
<1>2. p = [msgpData |-> Nothing, memoizedFields |-> w.f, missingFields |-> {},
           meta |-> [k \in MetaField |-> new(k)], isEmpty |-> FALSE, extracted |-> FALSE]
  <2> DEFINE blank == [msgpData |-> Nothing, memoizedFields |-> w.f, missingFields |-> {},
                       meta |-> [k \in MetaField |-> Default(k)], isEmpty |-> FALSE,
                       extracted |-> FALSE]
  <2>1. NewPayload(w.f) = blank
    BY DEF NewPayload
  <2>2. blank.meta[MetaRefineryIncomingUserAgent] = EmptyString
    BY MetaTypes
  <2>3. [blank.meta EXCEPT ![MetaRefineryIncomingUserAgent] = agent] = [k \in MetaField |-> new(k)]
    OBVIOUS
  <2>4. p = [blank EXCEPT !.meta = [blank.meta EXCEPT ![MetaRefineryIncomingUserAgent] = agent]]
    BY <2>1, <2>2 DEF addIncomingUserAgent
  <2> QED
    BY <2>3, <2>4
<1>3. Extracted(w, agent) = [meta EXCEPT ![MetaTraceID] = TraceIdOf(w),
                                         ![MetaRefineryRoot] = RootOf(w)]
  <2>1. meta = [k \in MetaField |->
          IF (IF w.format = "map" THEN Converted(k, w.f[k]) ELSE w.f[k]) \in Accepts(k)
            THEN (IF w.format = "map" THEN Converted(k, w.f[k]) ELSE w.f[k])
            ELSE IF k = MetaRefineryIncomingUserAgent THEN agent ELSE Default(k)]
    OBVIOUS
  <2> HIDE DEF meta
  <2> QED
    BY <2>1 DEF Extracted
<1>4. q = [msgpData |-> Nothing, memoizedFields |-> w.f, missingFields |-> {},
           meta |-> Extracted(w, agent), isEmpty |-> FALSE, extracted |-> TRUE]
  <2> DEFINE pmeta == [k \in MetaField |-> IF Converted(k, p.memoizedFields[k]) \in Accepts(k)
                                           THEN Converted(k, p.memoizedFields[k]) ELSE p.meta[k]]
  <2>1. pmeta = meta
    <3> HIDE DEF p
    <3> QED
      BY <1>2
  <2>2. q = [p EXCEPT
             !.meta = [pmeta EXCEPT ![MetaTraceID] = TraceIdOf(w), ![MetaRefineryRoot] = RootOf(w)],
             !.extracted = TRUE]
    <3> HIDE DEF p
    <3> QED
      BY <1>2 DEF ExtractMetadata
  <2> HIDE DEF pmeta, meta, p
  <2> QED
    BY <1>2, <1>3, <2>1, <2>2
<1> HIDE DEF p, q, meta
<1>5. PayloadOK(q)
  BY <1>1, <1>4, ExtractedContent DEF PayloadOK
<1>6. \A k \in Key \ {MetaRefineryIncomingUserAgent} : MarshalMsg(q)[k] = Content(w)[k]
  <2>1. \A k \in MetaField \ {MetaRefineryIncomingUserAgent} : MarshalMsg(q)[k] = Content(w)[k]
    BY <1>4, <1>5, Encoded, ExtractedContent
  <2>2. \A k \in Data : MarshalMsg(q)[k] = w.f[k] /\ Content(w)[k] = w.f[k]
    BY <1>4, <1>5, Encoded, MetaTypes DEF Content, Nothing
  <2> QED
    BY <2>1, <2>2, MetaTypes
<1>7. Fresh(q, d)
  BY <1>4, MetaTypes DEF Fresh, Nothing
<1>8. q.meta[MetaRefineryIncomingUserAgent] =
        IF w.f[MetaRefineryIncomingUserAgent] \in String
          THEN w.f[MetaRefineryIncomingUserAgent] ELSE agent
  BY <1>4, ExtractedContent
<1> QED
  BY <1>5, <1>6, <1>7, <1>8 DEF q, p

\* A decoded payload has the content of the map on the wire, in every format, or
\* that with the user agent of the request.
LEMMA DecodeContent ==
  ASSUME NEW w, NEW d, WireOK(w, d), NEW keys \in KeyFieldLists, NEW agent \in UserAgents
  PROVE  LET q == Decode(w, keys, agent)
         IN /\ PayloadOK(q) /\ Fresh(q, d)
            /\ IF AgentAdded(q, w)
                 THEN /\ MarshalMsg(q) = [Content(w) EXCEPT ![MetaRefineryIncomingUserAgent] = agent]
                      /\ agent \in NonEmpty
                 ELSE MarshalMsg(q) = Content(w)
<1> DEFINE q == Decode(w, keys, agent)
           ua == MetaRefineryIncomingUserAgent
<1>1. keys \in SUBSET Key /\ {} \in SUBSET Key /\ agent \in String /\ EmptyString \in String
  BY UseAssumption, ValueAssumption
<1>2. /\ PayloadOK(q) /\ Fresh(q, d)
      /\ \A k \in Key \ {ua} : MarshalMsg(q)[k] = Content(w)[k]
      /\ q.meta[ua] \in {EmptyString, agent, w.f[ua]}
      /\ w.f[ua] \in NonEmpty => q.meta[ua] = w.f[ua]
      /\ w.f[ua] \notin String => q.meta[ua] \in {EmptyString, agent}
  <2>1. CASE w.format = "batch"
    <3>1. Decoded(Serialized(w, keys), w, d, EmptyString) /\ Serialized(w, keys).msgpData = w.f
      BY <1>1, <2>1, DecodeSerialized
    <3>2. Decoded(addIncomingUserAgent(Serialized(w, keys), agent), w, d, agent)
      BY <1>1, <3>1, AgentDecoded
    <3>3. q = Serialized(w, keys) \/ q = addIncomingUserAgent(Serialized(w, keys), agent)
      BY <2>1 DEF Decode, Serialized
    <3> QED
      BY <3>1, <3>2, <3>3 DEF Decoded, NonEmpty
  <2>2. CASE w.format = "otlp"
    <3>1. Decoded(Serialized(w, {}), w, d, EmptyString) /\ Serialized(w, {}).msgpData = w.f
      BY <1>1, <2>2, DecodeSerialized
    <3>2. Decoded(addIncomingUserAgent(Serialized(w, {}), agent), w, d, agent)
      BY <1>1, <3>1, AgentDecoded
    <3>3. q = addIncomingUserAgent(Serialized(w, {}), agent)
      BY <2>2 DEF Decode, Serialized
    <3> QED
      BY <3>2, <3>3 DEF Decoded, NonEmpty
  <2>3. CASE w.format = "map"
    <3>1. q = ExtractMetadata(addIncomingUserAgent(NewPayload(w.f), agent), w)
      BY <2>3 DEF Decode
    <3> QED
      BY <1>1, <2>3, <3>1, DecodeMap DEF NonEmpty
  <2> QED
    BY <2>1, <2>2, <2>3 DEF WireOK, Format
<1> HIDE DEF q
<1>3. /\ MarshalMsg(q)[ua] = IF q.meta[ua] = EmptyString THEN Absent ELSE q.meta[ua]
      /\ MarshalMsg(q) = [k \in Key |-> MarshalMsg(q)[k]]
      /\ Content(w) = [k \in Key |-> Content(w)[k]]
      /\ Content(w)[ua] = IF w.f[ua] \in NonEmpty THEN w.f[ua] ELSE Absent
  <2>1. MarshalMsg(q)[ua] = IF q.meta[ua] = EmptyString THEN Absent ELSE q.meta[ua]
    BY <1>2, Encoded, MetaTypes
  <2>2. Content(w)[ua] = IF w.f[ua] \in NonEmpty THEN w.f[ua] ELSE Absent
    BY <1>1, ExtractedContent
  <2> QED
    BY <2>1, <2>2 DEF MarshalMsg, Content
<1>4. ua \in Key
  BY MetaTypes
<1>5. CASE AgentAdded(q, w)
  <2>1. w.f[ua] \notin NonEmpty /\ q.meta[ua] # EmptyString
    BY <1>5 DEF AgentAdded
  <2>2. q.meta[ua] = agent /\ agent \in NonEmpty
    BY <1>1, <1>2, <2>1 DEF NonEmpty
  <2>3. MarshalMsg(q)[ua] = agent
    BY <1>3, <2>1, <2>2
  <2>4. MarshalMsg(q) = [Content(w) EXCEPT ![ua] = agent]
    BY <1>2, <1>3, <1>4, <2>3
  <2> QED
    BY <1>2, <1>5, <2>2, <2>4 DEF q
<1>6. CASE ~AgentAdded(q, w)
  <2>1. MarshalMsg(q)[ua] = Content(w)[ua]
    BY <1>2, <1>3, <1>6 DEF AgentAdded, NonEmpty
  <2>2. MarshalMsg(q) = Content(w)
    BY <1>2, <1>3, <2>1
  <2> QED
    BY <1>2, <1>6, <2>2 DEF q
<1> QED
  BY <1>5, <1>6

-----------------------------------------------------------------------------
(* Memoizing and setting. *)

\* Memoizing changes no field but those in dispute.
LEMMA MemoContent ==
  ASSUME NEW p, PayloadOK(p), NEW d, Fresh(p, d), NEW find \in SUBSET Key,
         \A k \in find : p.memoizedFields[k] = Absent
  PROVE  /\ PayloadOK(Memoized(p, find))
         /\ \A k \in Key \ d : MarshalMsg(Memoized(p, find))[k] = MarshalMsg(p)[k]
<1> DEFINE q == Memoized(p, find)
           found == {k \in find : p.msgpData[k] # Absent}
           memo == [k \in Key |-> IF k \in found \ MetaField THEN p.msgpData[k] ELSE p.memoizedFields[k]]
           meta == [k \in MetaField |->
                      IF k \in found /\ p.msgpData[k] \in Accepts(k) THEN p.msgpData[k] ELSE p.meta[k]]
<1>1. q = [p EXCEPT !.memoizedFields = memo, !.meta = meta,
                    !.missingFields = @ \cup {k \in find : memo[k] = Absent}]
  BY DEF Memoized
<1>2. /\ \A k \in MetaField \ d : meta[k] = p.meta[k]
      /\ \A k \in MetaField : meta[k] \in Accepts(k) \cup {Default(k)}
      /\ meta \in [MetaField -> Value \cup {Absent}]
  <2>1. \A k \in MetaField \ d : meta[k] = p.meta[k]
    BY DEF Fresh, PayloadOK
  <2>2. \A k \in MetaField : meta[k] \in Accepts(k) \cup {Default(k)}
    BY DEF PayloadOK
  <2>3. meta \in [MetaField -> Value \cup {Absent}]
    BY MetaTypes DEF PayloadOK
  <2> QED
    BY <2>1, <2>2, <2>3
<1>3. memo \in Fields
  BY DEF PayloadOK, Fields
<1>4. /\ q.msgpData = p.msgpData /\ q.memoizedFields = memo /\ q.meta = meta
      /\ q.missingFields = p.missingFields \cup {k \in find : memo[k] = Absent}
      /\ q \in [msgpData : Fields, memoizedFields : Fields, missingFields : SUBSET Key,
                meta : [MetaField -> Value \cup {Absent}], isEmpty : BOOLEAN, extracted : BOOLEAN]
  <2> HIDE DEF memo, meta
  <2> QED
    BY <1>1, <1>2, <1>3 DEF PayloadOK
<1>5. \A k \in find \ MetaField : memo[k] = Absent => p.msgpData[k] = Absent
  OBVIOUS
<1>6. \A k \in Data : (IF memo[k] # Absent THEN memo[k] ELSE p.msgpData[k])
                        = (IF p.memoizedFields[k] # Absent THEN p.memoizedFields[k] ELSE p.msgpData[k])
  BY MetaTypes
<1> HIDE DEF memo, meta, q
<1>7. PayloadOK(q)
  <2>1. \A k \in q.missingFields \ (MetaField \cup IdName) : q.msgpData[k] = Absent
    BY <1>4, <1>5 DEF PayloadOK
  <2>2. \A k \in MetaField : q.meta[k] \in Accepts(k) \cup {Default(k)}
    BY <1>2, <1>4
  <2> QED
    BY <1>4, <2>1, <2>2 DEF PayloadOK
<1>8. \A k \in Key \ d : MarshalMsg(q)[k] = MarshalMsg(p)[k]
  <2>1. \A k \in MetaField \ d : MarshalMsg(q)[k] = MarshalMsg(p)[k]
    BY <1>2, <1>4, <1>7, Encoded
  <2>2. \A k \in Data : MarshalMsg(q)[k] = MarshalMsg(p)[k]
    BY <1>4, <1>6, <1>7, Encoded
  <2> QED
    BY <2>1, <2>2, MetaTypes
<1> QED
  BY <1>7, <1>8 DEF q

\* Set does to the payload what it does to the map.
LEMMA SetContent ==
  ASSUME NEW p, PayloadOK(p), NEW k \in Key, NEW v \in Value
  PROVE  /\ PayloadOK(SetField(p, k, v))
         /\ MarshalMsg(SetField(p, k, v)) =
              IF k \in MetaField /\ v \notin Accepts(k) THEN MarshalMsg(p)
              ELSE [MarshalMsg(p) EXCEPT ![k] = IF k \in MetaField /\ v = Default(k)
                                                  THEN Absent ELSE v]
<1> DEFINE q == SetField(p, k, v)
<1>1. PayloadOK(q)
  <2>1. CASE k \in MetaField /\ v \in Accepts(k)
    BY <2>1 DEF SetField, PayloadOK
  <2>2. CASE k \notin MetaField
    <3>1. [p.memoizedFields EXCEPT ![k] = v] \in Fields
      BY DEF PayloadOK, Fields
    <3> QED
      BY <2>2, <3>1 DEF SetField, PayloadOK
  <2>3. CASE k \in MetaField /\ v \notin Accepts(k)
    BY <2>3 DEF SetField
  <2> QED
    BY <2>1, <2>2, <2>3
<1>2. \A j \in Key : MarshalMsg(q)[j] =
         IF j # k \/ (k \in MetaField /\ v \notin Accepts(k)) THEN MarshalMsg(p)[j]
         ELSE IF k \in MetaField /\ v = Default(k) THEN Absent ELSE v
  <2>1. \A j \in MetaField : q.meta[j] = IF j = k /\ v \in Accepts(k) THEN v ELSE p.meta[j]
    BY DEF SetField, PayloadOK
  <2>2. \A j \in Data : /\ q.memoizedFields[j] = IF j = k THEN v ELSE p.memoizedFields[j]
                        /\ q.msgpData[j] = p.msgpData[j]
    BY MetaTypes DEF SetField, PayloadOK, Fields
  <2>3. v # Absent
    BY ValueAssumption
  <2>4. \A j \in MetaField : MarshalMsg(q)[j] =
         IF j # k \/ (k \in MetaField /\ v \notin Accepts(k)) THEN MarshalMsg(p)[j]
         ELSE IF k \in MetaField /\ v = Default(k) THEN Absent ELSE v
    BY <1>1, <2>1, Encoded
  <2>5. \A j \in Data : MarshalMsg(q)[j] =
         IF j # k \/ (k \in MetaField /\ v \notin Accepts(k)) THEN MarshalMsg(p)[j]
         ELSE IF k \in MetaField /\ v = Default(k) THEN Absent ELSE v
    BY <1>1, <2>2, <2>3, Encoded, MetaTypes
  <2> QED
    BY <2>4, <2>5, MetaTypes
<1>3. /\ MarshalMsg(p) = [j \in Key |-> MarshalMsg(p)[j]]
      /\ MarshalMsg(q) = [j \in Key |-> MarshalMsg(q)[j]]
  BY DEF MarshalMsg
<1>4. MarshalMsg(q) = IF k \in MetaField /\ v \notin Accepts(k) THEN MarshalMsg(p)
        ELSE [MarshalMsg(p) EXCEPT ![k] = IF k \in MetaField /\ v = Default(k) THEN Absent ELSE v]
  BY <1>2, <1>3
<1> QED
  BY <1>1, <1>4

-----------------------------------------------------------------------------
(* The invariant and the refinement. *)

\* A client's event, in any format and order of fields, satisfies the invariant.
LEMMA InvInit == Init => Inv
<1> SUFFICES ASSUME Init PROVE Inv
  OBVIOUS
<1>1. PICK format \in Format, f \in Incoming :
        \E order \in Orders(f) : wire = Wire(format, f, order) /\ disputed = Disputed(f)
  BY DEF Init
<1>2. PICK order \in Orders(f) : wire = Wire(format, f, order) /\ disputed = Disputed(f)
  BY <1>1
<1>3. f \in Fields
  BY UseAssumption
<1>4. WireOK(wire, disputed)
  BY <1>2, <1>3, ClientWire
<1>5. disputed \subseteq Disputable
  BY <1>2 DEF Disputed, Disputable
<1> QED
  BY <1>4, <1>5 DEF Init, Inv

\* What the event consists of, where it is.
Here == IF phase = "wire" THEN Content(wire) ELSE MarshalMsg(payload)

\* A Set of field k to v.
SetHere(k, v) ==
  /\ last' = <<k, v>>
  /\ Here' = IF k \in MetaField /\ v \notin Accepts(k) THEN Here
             ELSE [Here EXCEPT ![k] = IF k \in MetaField /\ v = Default(k) THEN Absent ELSE v]
  /\ disputed' = disputed \cup Bears(k)

\* Only fields in dispute may change.
RereadHere ==
  /\ Here' \in Fields
  /\ \A k \in Key \ disputed : Here'[k] = Here[k]
  /\ UNCHANGED <<disputed, last>>

\* Every step keeps the invariant and is a Set, or changes at most what is in dispute.
LEMMA Step ==
  ASSUME Inv, [Next]_vars
  PROVE  /\ Inv'
         /\ \/ UNCHANGED <<Here, disputed, last>>
            \/ RereadHere
            \/ \E k \in Key, v \in Value : SetHere(k, v)
<1>1. CASE UNCHANGED vars
  <2>1. Inv'
    BY <1>1 DEF vars, Inv, WireOK, PayloadOK, Settled, MarshalMsg, GetMeta, Fresh
  <2>2. UNCHANGED <<Here, disputed, last>>
    BY <1>1 DEF vars, Here, Content, MarshalMsg, GetMeta
  <2> QED
    BY <2>1, <2>2
<1>2. ASSUME NEW keys \in KeyFieldLists, NEW agent \in UserAgents, Receive(keys, agent)
      PROVE  /\ Inv'
             /\ \/ UNCHANGED <<Here, disputed, last>>
                \/ \E k \in Key, v \in Value : SetHere(k, v)
  <2> DEFINE ua == MetaRefineryIncomingUserAgent
  <2>1. /\ phase = "wire" /\ WireOK(wire, disputed) /\ payload' = Decode(wire, keys, agent)
        /\ disputed' = disputed /\ disputed \subseteq Disputable
    BY <1>2 DEF Receive, Inv
  <2>2. /\ PayloadOK(payload') /\ Fresh(payload', disputed)
        /\ IF AgentAdded(payload', wire)
             THEN MarshalMsg(payload') = [Content(wire) EXCEPT ![ua] = agent] /\ agent \in NonEmpty
             ELSE MarshalMsg(payload') = Content(wire)
    BY <2>1, DecodeContent
  <2>3. Clean(Content(wire)) /\ Settled(Content(wire), disputed)
    BY <2>1, ContentSettled
  <2>4. phase' \in {"skipped", "decoded"}
    BY <1>2 DEF Receive
  <2>5. Here = Content(wire) /\ Here' = MarshalMsg(payload')
    BY <2>1, <2>4 DEF Here
  <2>6. Bears(ua) = {} /\ ua \in Key /\ ua \in MetaField
    BY MetaTypes, NameAssumption DEF Bears, IdName
  <2>7. CASE AgentAdded(payload', wire)
    <3>1. last' = <<ua, agent>>
      BY <1>2, <2>7 DEF Receive
    <3>2. agent \in Value /\ agent \in Accepts(ua) /\ agent # Default(ua)
      BY <2>2, <2>7, MetaTypes DEF NonEmpty, Value
    <3>3. Settled([Content(wire) EXCEPT ![ua] = agent], disputed \cup Bears(ua))
      BY <2>3, <2>6, SettledSet DEF Clean
    <3>4. Settled(MarshalMsg(payload'), disputed)
      <4>1. disputed \cup Bears(ua) = disputed
        BY <2>6
      <4> QED
        BY <2>2, <2>7, <3>3, <4>1
    <3>5. Inv'
      BY <2>1, <2>2, <2>4, <3>4 DEF Inv, Live
    <3>6. SetHere(ua, agent)
      BY <2>1, <2>2, <2>5, <2>6, <2>7, <3>1, <3>2 DEF SetHere
    <3> QED
      BY <2>6, <3>2, <3>5, <3>6
  <2>8. CASE ~AgentAdded(payload', wire)
    <3>1. last' = last /\ Here' = Here
      BY <1>2, <2>2, <2>5, <2>8 DEF Receive
    <3>2. Inv'
      BY <2>1, <2>2, <2>3, <2>4, <2>8 DEF Inv, Live
    <3> QED
      BY <2>1, <3>1, <3>2
  <2> QED
    BY <2>7, <2>8
<1>3. ASSUME NEW keys \in KeyFieldLists, MemoizeFields(keys)
      PROVE  Inv' /\ RereadHere
  <2> DEFINE find == {k \in keys \ payload.missingFields : payload.memoizedFields[k] = Absent}
  <2>1. /\ phase = "decoded" /\ PayloadOK(payload) /\ Fresh(payload, disputed)
        /\ Settled(MarshalMsg(payload), disputed) /\ disputed \in SUBSET Disputable
    BY <1>3 DEF MemoizeFields, Inv
  <2>2. find \in SUBSET Key /\ \A k \in find : payload.memoizedFields[k] = Absent
    BY UseAssumption
  <2>3. /\ payload' = Memoized(payload, find) /\ phase' = "decided"
        /\ last' = last /\ disputed' = disputed
    BY <1>3 DEF MemoizeFields
  <2> HIDE DEF find
  <2>4. /\ PayloadOK(payload')
        /\ \A k \in Key \ disputed : MarshalMsg(payload')[k] = MarshalMsg(payload)[k]
    BY <2>1, <2>2, <2>3, MemoContent
  <2>5. Settled(MarshalMsg(payload'), disputed)
    BY <2>1, <2>4, SettledSame
  <2>6. MarshalMsg(payload') \in Fields
    BY <2>4, Encoded DEF Clean
  <2>7. Here = MarshalMsg(payload) /\ Here' = MarshalMsg(payload')
    BY <2>1, <2>3 DEF Here
  <2>8. Inv'
    BY <2>1, <2>3, <2>4, <2>5 DEF Inv, Live
  <2> QED
    BY <2>3, <2>4, <2>6, <2>7, <2>8 DEF RereadHere
<1>4. ASSUME NEW kv \in Settings, Set(kv[1], kv[2])
      PROVE  Inv' /\ \E k \in Key, v \in Value : SetHere(k, v)
  <2>1. PICK k \in Key, v \in Value : kv = <<k, v>>
    BY UseAssumption
  <2>2. /\ phase \in Live /\ phase' = "sending" /\ last' = <<k, v>>
        /\ payload' = SetField(payload, k, v) /\ disputed' = disputed \cup Bears(k)
    BY <1>4, <2>1 DEF Set, Live
  <2>3. /\ PayloadOK(payload) /\ Settled(MarshalMsg(payload), disputed)
        /\ disputed \subseteq Disputable
    BY <2>2 DEF Inv, Live
  <2>4. /\ PayloadOK(payload')
        /\ MarshalMsg(payload') =
              IF k \in MetaField /\ v \notin Accepts(k) THEN MarshalMsg(payload)
              ELSE [MarshalMsg(payload) EXCEPT ![k] = IF k \in MetaField /\ v = Default(k)
                                                        THEN Absent ELSE v]
    BY <2>2, <2>3, SetContent
  <2>5. MarshalMsg(payload) \in Fields
    BY <2>3, Encoded DEF Clean
  <2>6. Settled(MarshalMsg(payload'), disputed')
    <3>1. CASE k \in MetaField /\ v \notin Accepts(k)
      <4>1. MarshalMsg(payload') = MarshalMsg(payload)
        BY <2>4, <3>1
      <4>2. disputed \subseteq disputed'
        BY <2>2
      <4> QED
        BY <2>3, <4>1, <4>2 DEF Settled
    <3>2. CASE ~(k \in MetaField /\ v \notin Accepts(k))
      <4> DEFINE u == IF k \in MetaField /\ v = Default(k) THEN Absent ELSE v
      <4>1. MarshalMsg(payload') = [MarshalMsg(payload) EXCEPT ![k] = u]
        BY <2>4, <3>2
      <4> HIDE DEF u
      <4>2. Settled([MarshalMsg(payload) EXCEPT ![k] = u], disputed \cup Bears(k))
        BY <2>3, <2>5, SettledSet
      <4> QED
        BY <2>2, <4>1, <4>2
    <3> QED
      BY <3>1, <3>2
  <2>7. disputed' \subseteq Disputable
    BY <2>2, <2>3 DEF Bears, Disputable
  <2>8. Inv'
    BY <2>2, <2>4, <2>6, <2>7 DEF Inv, Live
  <2>9. Here = MarshalMsg(payload) /\ Here' = MarshalMsg(payload')
    BY <2>2 DEF Here, Live
  <2>10. SetHere(k, v)
    BY <2>2, <2>4, <2>9 DEF SetHere
  <2> QED
    BY <2>8, <2>10
<1>5. CASE Forward
  <2> DEFINE f == MarshalMsg(payload)
  <2>1. /\ phase \in Live /\ PayloadOK(payload) /\ Settled(f, disputed)
        /\ last' = last /\ disputed' = disputed /\ disputed \in SUBSET Disputable
        /\ payload' = payload
    BY <1>5 DEF Forward, Inv, Live
  <2>2. Clean(f)
    BY <2>1, Encoded
  <2>3. Here = f
    BY <2>1 DEF Here, Live
  <2>4. CASE phase' = "failed"
    <3>1. Inv'
      BY <2>1, <2>4 DEF Inv, Live
    <3>2. Here' = f
      BY <2>1, <2>4 DEF Here
    <3> QED
      BY <2>1, <2>3, <3>1, <3>2
  <2>5. CASE /\ phase' = "wire"
             /\ \E order \in Orders(f) : wire' = Wire("batch", f, order)
    <3>1. PICK order \in Orders(f) : wire' = Wire("batch", f, order)
      BY <2>5
    <3> HIDE DEF f
    <3>2. WireOK(wire', disputed) /\ \A k \in Key \ disputed : Content(wire')[k] = f[k]
      BY <2>1, <2>2, <3>1, SentContent
    <3>3. Content(wire') \in Fields
      BY <3>2, ContentSettled DEF Clean
    <3>4. Here' = Content(wire')
      BY <2>5 DEF Here
    <3>5. Inv'
      BY <2>1, <2>5, <3>2 DEF Inv, Live
    <3>6. RereadHere
      BY <2>1, <2>3, <3>2, <3>3, <3>4 DEF RereadHere
    <3> QED
      BY <3>5, <3>6
  <2> QED
    BY <1>5, <2>4, <2>5 DEF Forward
<1> QED
  BY <1>1, <1>2, <1>3, <1>4, <1>5, Zenon DEF Next

\* The inductive invariant of a payload's life, from which the theorems below follow.
LEMMA Invariance == Spec => []Inv
<1>1. Inv /\ [Next]_vars => Inv'
  BY Step
<1> QED
  BY <1>1, InvInit, PTL DEF Spec

\* A payload is the map it stands for (Payload's comment): decoding it in any
\* format, memoizing any key fields and sending it to a peer leave every field as
\* it is, except for metadata that the event contradicts itself about.
THEOREM PayloadIsMap == Spec => MapSpec
<1> DEFINE takes == [k \in Key |-> IF k \in MetaField THEN Accepts(k) ELSE Value]
           zero  == [k \in Key |-> IF k \in MetaField THEN {Default(k)} ELSE {}]
           bears == [k \in Key |-> Bears(k)]
<1>1. Init => Map!Init
  <2> SUFFICES ASSUME Init PROVE Map!Init
    OBVIOUS
  <2>1. phase = "wire" /\ last = <<>> /\ WireOK(wire, disputed) /\ disputed \subseteq Disputable
    BY InvInit DEF Init, Inv
  <2>2. Content(wire) \in [Key -> Value \cup {Absent}]
    BY <2>1, ContentSettled DEF Clean, Fields
  <2>3. disputed \subseteq Key
    BY <2>1, MetaTypes DEF Disputable
  <2> QED
    BY <2>1, <2>2, <2>3 DEF Map!Init
<1>2. Inv /\ [Next]_vars => [Map!Next]_(Map!vars)
  <2> SUFFICES ASSUME Inv, [Next]_vars PROVE [Map!Next]_(Map!vars)
    OBVIOUS
  <2>1. CASE UNCHANGED <<Here, disputed, last>>
    BY <2>1 DEF Map!vars, Here
  <2>2. CASE RereadHere
    <3>1. Map!Reread
      BY <2>2 DEF RereadHere, Here, Map!Reread, Fields
    <3> QED
      BY <3>1 DEF Map!Next
  <2>3. ASSUME NEW k \in Key, NEW v \in Value, SetHere(k, v)
        PROVE  Map!Next
    <3>1. v \in takes[k] <=> ~(k \in MetaField /\ v \notin Accepts(k))
      OBVIOUS
    <3>2. v \in zero[k] <=> k \in MetaField /\ v = Default(k)
      OBVIOUS
    <3>3. bears[k] = Bears(k)
      OBVIOUS
    <3> HIDE DEF takes, zero, bears
    <3>4. /\ Here' = IF v \in takes[k]
                       THEN [Here EXCEPT ![k] = IF v \in zero[k] THEN Absent ELSE v]
                       ELSE Here
          /\ disputed' = disputed \cup bears[k] /\ last' = <<k, v>>
      BY <2>3, <3>1, <3>2, <3>3 DEF SetHere
    <3>5. Map!Set(k, v)
      BY <3>4 DEF Map!Set, Here, takes, zero, bears
    <3> QED
      BY <3>5 DEF Map!Next
  <2> QED
    BY <2>1, <2>2, <2>3, Step
<1> QED
  BY <1>1, <1>2, Invariance, PTL DEF Spec, MapSpec, Map!Spec

\* The iterator that exports an event agrees with what rules read, except for the
\* fields it leaves out on purpose and ID names that decoding has used up.
THEOREM ExportAlwaysAgrees == Spec => []ExportAgrees
<1>1. Inv => ExportAgrees
  <2> SUFFICES ASSUME Inv, phase # "wire", NEW k \in Key
               PROVE  IF k = MetaTraceID \/ (k = MetaRefineryRoot /\ View(payload)[k] # True)
                        THEN All(payload)[k] = Absent
                      ELSE \/ All(payload)[k] = View(payload)[k]
                           \/ k \in IdName \cap payload.missingFields /\ View(payload)[k] = Absent
    BY DEF ExportAgrees
  <2>1. PayloadOK(payload)
    BY DEF Inv
  <2>2. Default(MetaRefineryRoot) # True
    BY MetaTypes, ValueAssumption DEF Bool, Value
  <2>3. CASE k \in MetaField
    <3>1. View(payload)[k] = MarshalMsg(payload)[k]
      BY <2>1, <2>3, ViewIsEncoded, MetaTypes
    <3> QED
      BY <2>1, <2>2, <2>3, <3>1, Encoded, MetaTypes DEF All, GetMeta
  <2>4. CASE k \in Data
    <3>1. k # MetaTraceID /\ k # MetaRefineryRoot
      BY <2>4, MetaTypes
    <3>2. All(payload)[k] = MarshalMsg(payload)[k]
      BY <2>1, <2>4, Encoded, MetaTypes DEF All
    <3> QED
      BY <2>1, <3>1, <3>2, ViewIsEncoded
  <2> QED
    BY <2>3, <2>4, MetaTypes
<1> QED
  BY <1>1, Invariance, PTL
=============================================================================
