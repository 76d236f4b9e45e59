------------------------------ MODULE FieldMap ------------------------------
(***************************************************************************)
(* What an event's payload promises to be: a map from field names to       *)
(* values, of which a metadata field takes values of its own type only and *)
(* counts its zero value as absent.  The one thing that changes it is a    *)
(* Set, but for the metadata fields that are in dispute: what these are    *)
(* may come out otherwise each time the map is read.  Payload implements   *)
(* it.                                                                     *)
(***************************************************************************)
CONSTANTS
  Field,
  Value,
  Absent,
  Takes,     \* per field, the values that it can be set to
  ZeroValue, \* the values that read as absent in a metadata field
  Disputes   \* per field, the fields that a Set of it puts in dispute

VARIABLES
  fields,  \* per field, its value or Absent
  disputed, \* the fields in dispute
  last     \* the last field and value of a Set, or <<>>

vars == <<fields, disputed, last>>

Init ==
  /\ fields \in [Field -> Value \cup {Absent}]
  /\ disputed \subseteq Field /\ last = <<>>

Set(k, v) ==
  /\ last' = <<k, v>>
  /\ fields' = IF v \in Takes[k]
                 THEN [fields EXCEPT ![k] = IF v \in ZeroValue[k] THEN Absent ELSE v]
                 ELSE fields
  /\ disputed' = disputed \cup Disputes[k]

Reread ==
  /\ fields' \in [Field -> Value \cup {Absent}]
  /\ \A k \in Field \ disputed : fields'[k] = fields[k]
  /\ UNCHANGED <<disputed, last>>

Next == Reread \/ \E k \in Field, v \in Value : Set(k, v)

Spec == Init /\ [][Next]_vars
=============================================================================
