----------------------------- MODULE MCPayload -----------------------------
(* Two trace ID names, one parent ID name, one other field, the user agent     *)
(* and one more metadata field of each other type.  What clients send varies    *)
(* in the fields that identify a span, meta.trace_id and meta.refinery.root     *)
(* among them, or in the others: absent, zero, of the right or a wrong type.     *)
EXTENDS Payload, TLC

CONSTANTS traceId, oldTraceId, parentId, name,
          a, b, zeroFloat, oneFloat, one, nil

MetaStressed == "meta.stressed"
MetaCount    == "meta.span_count"

MCData        == {traceId, oldTraceId, parentId, name}
MCTraceIdName == {traceId, oldTraceId}
MCParentIdName == {parentId}
MCStringField == {MetaTraceID, MetaSignalType, MetaRefineryIncomingUserAgent}
MCBoolField   == {MetaRefineryRoot, MetaStressed}
MCInt64Field  == {MetaCount}
MCString      == {EmptyString, Log, a, b}
MCToInt64     == (zeroFloat :> Zero) @@ (oneFloat :> one)

\* Maps that differ in what identifies a span ...
Identified ==
  {(traceId :> t) @@ (oldTraceId :> o) @@ (parentId :> p) @@ (MetaSignalType :> s)
     @@ (MetaTraceID :> m) @@ (MetaRefineryRoot :> r) :
   t \in {EmptyString, a}, o \in {Absent, b}, p \in {Absent, a},
   s \in {Absent, Log}, m \in {Absent, EmptyString, b}, r \in {Absent, True}}
\* ... and in the rest.
Described ==
  {(traceId :> t) @@ (parentId :> nil) @@ (name :> n) @@ (MetaSignalType :> s)
     @@ (MetaCount :> c) @@ (MetaRefineryIncomingUserAgent :> u) :
   t \in {Absent, a}, n \in {Absent, b}, s \in {Absent, one},
   c \in {Absent, one, oneFloat}, u \in {Absent, EmptyString, b}}
MCIncoming == {f @@ [k \in Key |-> Absent] : f \in Identified \cup Described \cup {<<>>}}

MCKeyFieldLists ==
  {{}, {name, MetaCount, MetaRefineryIncomingUserAgent},
   {traceId, parentId, MetaTraceID, MetaRefineryRoot}}
MCSettings ==
  {<<name, a>>, <<MetaCount, Zero>>, <<MetaStressed, nil>>, <<parentId, b>>,
   <<MetaTraceID, EmptyString>>}
=============================================================================
