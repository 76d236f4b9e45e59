----------------------------- MODULE ConfigLoad -----------------------------
(***************************************************************************)
(* From the text of the configuration files to the configuration in use    *)
(* (config/configLoadHelpers.go, cmdenv.go) and what validation says of it *)
(* (config/validate.go, metadata.go, version.go, newFileConfig).           *)
(*                                                                         *)
(* The files are read twice, once into maps to be validated and once into  *)
(* the struct, by rules of merging of their own.  What a file holds is a   *)
(* function from keys to values:                                           *)
(*   [kind |-> "string", s |-> a text]    [kind |-> "int", n |-> a number] *)
(*   [kind |-> "bool", b |-> a Boolean]   [kind |-> "list", e |-> <<...>>] *)
(*   [kind |-> "map", f |-> a function]   [kind |-> "nil"]                 *)
(* A number may also be of kind "float" or "int64", by the file's format.  *)
(* In the struct, durations and memory sizes are [kind, n].  What a text   *)
(* parses as is given by the constants.                                    *)
(***************************************************************************)
EXTENDS Integers, Sequences, FiniteSets, SequencesExt, TLC

CONSTANTS
  ConfigMeta,  \* configMeta.yaml: per group, [fields, last, text, renamed]
  RulesMeta,   \* rulesMeta.yaml
  Parses,      \* per text, the formats that it has
  Quantity,    \* per text that is a duration or a memory size, which one
  Env,         \* per text with a variable that is set, what it expands to
  Option       \* per field with a cmdenv tag, the values of its options, in order

\* A field is [type, validations, choices, default, held, omit, key, last, text]:
\* whether the struct has it, with omitempty, whether it is one of the three API
\* keys, the last version that has it (or 0) and whether there is a text about
\* its deprecation.  A validation is [type, arg].  A group is renamed if the
\* struct has it under another name than its yaml tag.
ASSUME QuantityAssumption ==
  \A t \in DOMAIN Quantity : Cardinality(Parses[t] \cap {"duration", "memorysize"}) = 1
ASSUME OptionAssumption ==
  \A p \in DOMAIN Option : p[1] \in DOMAIN ConfigMeta /\ p[2] \in DOMAIN ConfigMeta[p[1]].fields

NoKeys == [k \in {} |-> 0]
TextValue(s) == [kind |-> "string", s |-> s]
MapValue(f) == [kind |-> "map", f |-> f]
IsText(v) == v.kind = "string"
Items(v) == IF v.kind = "list" THEN Range(v.e) ELSE {v.f[k] : k \in DOMAIN v.f}

-----------------------------------------------------------------------------
(* validateDatatype, and the validations of a value of the right type. *)

Scalar == {"string", "int", "int64", "float", "bool"}

validateDatatype(v, type) ==
  CASE type \in {"object", "map"} -> v.kind = "map"
    [] type = "objectarray" -> v.kind = "list"
    [] type = "anyscalar" -> v.kind \in Scalar
    [] type = "sliceorscalar" -> \/ v.kind \in Scalar
                                 \/ v.kind = "list" /\ \A x, y \in Items(v) : x.kind = y.kind
    [] type \in {"string", "bool"} -> v.kind = type
    [] type = "int" -> v.kind = "int"
    [] type = "percentage" -> v.kind = "int" /\ v.n \in 0..100
    [] type = "float" -> v.kind \in {"float", "int"}
    [] type = "stringarray" -> v.kind = "list" /\ \A x \in Items(v) : IsText(x)
    [] type = "memorysize" -> IF IsText(v) THEN type \in Parses[v.s]
                                           ELSE v.kind \in {"int", "int64", "float"}
    [] type \in {"duration", "url"} -> IsText(v) /\ type \in Parses[v.s]
    [] type = "hostport" -> IsText(v) /\ (v.s = "" \/ type \in Parses[v.s])
    [] type = "defaulttrue" -> v.kind = "bool" \/ (IsText(v) /\ type \in Parses[v.s])

\* asFloat, as a set that is empty if the value is no quantity
asFloat(v) ==
  CASE v.kind \in {"int", "int64", "float"} -> {v.n}
    [] v.kind = "string" -> {Quantity[t] : t \in DOMAIN Quantity \cap {v.s}}
    [] OTHER -> {}

\* Whether a validation of the field finds a fault in its value.
Faulty(v, field, validation) ==
  LET arg == validation.arg IN
    CASE validation.type = "choice" -> ~(IsText(v) /\ v.s \in field.choices)
      [] validation.type = "format" ->
           IF arg = "apikeyOrBlank" THEN v.s # "" /\ "apikey" \notin Parses[v.s]
                                    ELSE arg \notin Parses[v.s]
      [] validation.type = "minimum" -> ~\E n \in asFloat(v) : n >= arg
      [] validation.type = "minOrZero" -> ~\E n \in asFloat(v) : n = 0 \/ n >= arg
      [] validation.type = "maximum" -> ~\E n \in asFloat(v) : n <= arg
      [] validation.type = "notempty" -> IsText(v) /\ v.s = ""
      [] validation.type = "elementType" ->
           v.kind \notin {"list", "map"} \/ \E x \in Items(v) : ~validateDatatype(x, arg)
      [] validation.type = "validChildren" -> v.kind = "map" /\ ~(DOMAIN v.f \subseteq arg)
      [] validation.type = "noReservedHeaders" -> v.kind = "map" /\ DOMAIN v.f \cap arg # {}
      [] OTHER -> FALSE

-----------------------------------------------------------------------------
(* Metadata.Validate.  A result is [at, severity]; version is {} or the one  *)
(* that the program has.                                                     *)

Failure(at) == [at |-> at, severity |-> "error"]
HasErrors(results) == \E r \in results : r.severity = "error"

\* flatten: two levels of keys
FlatKeys(data) ==
  UNION {IF data[k].kind = "map" THEN {<<k, kk>> : kk \in DOMAIN data[k].f} ELSE {<<k>>}
           : k \in DOMAIN data}
HasField(meta, p) == p[1] \in DOMAIN meta /\ Len(p) = 2 /\ p[2] \in DOMAIN meta[p[1]].fields

checkForDeprecation(at, item, version) ==
  IF version # {} /\ item.last # 0
    THEN {[at |-> at, severity |-> IF \A v \in version : v <= item.last THEN "warning" ELSE "error"]}
    ELSE IF item.text THEN {[at |-> at, severity |-> "warning"]} ELSE {}

\* What the validations say of a field that is there or not there.
Lacking(meta, data, flat, g, f) ==
  LET has(field) == <<g, field>> \in flat IN
    {Failure(<<g, f>>) : validation \in
       {x \in meta[g].fields[f].validations :
          CASE x.type = "required" -> ~has(f)
            [] x.type = "requiredInGroup" -> g \in DOMAIN data /\ ~has(f)
            [] x.type = "requiredWith" -> has(x.arg) /\ ~has(f) /\ meta[g].fields[f].default = {}
            [] x.type = "conflictsWith" -> has(x.arg) /\ has(f)
            [] OTHER -> FALSE}}

\* What is validated as data of its own: an object has groups inside, and an
\* element of an array is the group of the array's name.
ObjectsIn(meta, data) ==
  UNION {LET v == data[p[1]].f[p[2]]
             type == meta[p[1]].fields[p[2]].type
         IN CASE type = "object" /\ v.kind = "map" -> {v.f}
              [] type = "objectarray" /\ v.kind = "list" -> {p[2] :> x : x \in Items(v)}
              [] OTHER -> {}
         : p \in {q \in FlatKeys(data) : HasField(meta, q)}}

\* The data and everything in it: rules, their conditions and samplers.
MaxDepth == 4
AllData(meta, data) ==
  FoldLeft(LAMBDA all, i : all \cup UNION {ObjectsIn(meta, d) : d \in all},
           {data}, [i \in 1..MaxDepth |-> i])

ValidateField(meta, p, v, version) ==
  LET field == meta[p[1]].fields[p[2]] IN
    IF ~validateDatatype(v, field.type) THEN {Failure(p)}
    ELSE checkForDeprecation(p, field, version)
           \cup {Failure(p) : x \in {y \in field.validations : Faulty(v, field, y)}}

ValidateLevel(meta, data, version) ==
  LET flat == FlatKeys(data) IN
    UNION {IF k \in DOMAIN meta THEN checkForDeprecation(<<k>>, meta[k], version)
                                ELSE {Failure(<<k>>)} : k \in DOMAIN data}
    \cup UNION {IF HasField(meta, p) THEN ValidateField(meta, p, data[p[1]].f[p[2]], version)
                ELSE IF Len(p) = 1 /\ p[1] \in DOMAIN meta THEN {} ELSE {Failure(p)} : p \in flat}
    \cup UNION {UNION {Lacking(meta, data, flat, g, f) : f \in DOMAIN meta[g].fields}
                : g \in DOMAIN meta}

Validate(meta, data, version) ==
  UNION {ValidateLevel(meta, d, version) : d \in AllData(meta, data)}

-----------------------------------------------------------------------------
(* Validation of the files.  A source is [status, format, data]: "ok",       *)
(* "malformed" or "unreadable", and in "yaml", "json" or "toml".             *)

\* expandEnvVarsInString, for a text, and for those in a list or a map
expandText(v) == IF IsText(v) /\ v.s \in DOMAIN Env THEN TextValue(Env[v.s]) ELSE v
expandField(v) ==
  CASE v.kind = "list" -> [v EXCEPT !.e = [i \in DOMAIN v.e |-> expandText(v.e[i])]]
    [] v.kind = "map" -> [v EXCEPT !.f = [k \in DOMAIN v.f |-> expandText(v.f[k])]]
    [] OTHER -> expandText(v)

\* expandEnvVarsInValues, of the fields of every group
expandValues(data) ==
  [k \in DOMAIN data |->
     IF data[k].kind = "map" THEN MapValue([f \in DOMAIN data[k].f |-> expandField(data[k].f[f])])
                             ELSE expandField(data[k])]

\* loadConfigsIntoMap: the fields of a group are merged, and no deeper; an empty
\* group takes the place of what was there before.
MergedInto(dest, data) ==
  [k \in DOMAIN data |-> IF data[k].kind = "map" /\ k \in DOMAIN dest /\ dest[k].kind # "nil"
                           THEN MapValue(data[k].f @@ dest[k].f) ELSE data[k]] @@ dest
loadConfigsIntoMap(sources) ==
  FoldLeft(LAMBDA dest, source : MergedInto(dest, source.data), NoKeys, sources)

\* ValidateRules: groups are inside of samplers that users name.
ValidateRules(data) ==
  LET named == data["Samplers"]
      faulty(k) ==
        CASE k \notin DOMAIN data -> TRUE
          [] k = "RulesVersion" -> data[k] # [kind |-> "int", n |-> 2]
          [] k = "Samplers" -> \/ named.kind # "map"
                               \/ "__default__" \notin DOMAIN named.f
                               \/ \E x \in Items(named) : x.kind # "map"
          [] OTHER -> TRUE
      top == {Failure(<<k>>) : k \in {j \in DOMAIN data \cup {"RulesVersion", "Samplers"} : faulty(j)}}
  IN IF top # {} THEN top
     ELSE UNION {Validate(RulesMeta, x.f, {}) : x \in Items(named)}

-----------------------------------------------------------------------------
(* The struct configContents: a function from its fields to values.          *)

Held == UNION {{<<g, f>> : f \in {x \in DOMAIN ConfigMeta[g].fields : ConfigMeta[g].fields[x].held}}
                 : g \in DOMAIN ConfigMeta}
FieldOf(p) == ConfigMeta[p[1]].fields[p[2]]

\* A pointer to DefaultTrue is nil before it is set.
Zero(type) ==
  CASE type \in {"int", "percentage", "duration", "memorysize"} -> [kind |-> type, n |-> 0]
    [] type = "bool" -> [kind |-> type, b |-> FALSE]
    [] type = "defaulttrue" -> [kind |-> "nil"]
    [] type = "stringarray" -> [kind |-> "list", e |-> <<>>]
    [] type = "map" -> MapValue(NoKeys)
    [] OTHER -> TextValue("")

\* What a whole number is in a file: an int in YAML only.
Whole(format) ==
  CASE format = "yaml" -> "int" [] format = "json" -> "float" [] format = "toml" -> "int64"

\* What the loader makes of a value, for a field that holds old: a set that is
\* empty if it returns an error.  Variables are not expanded before.  In JSON only
\* a text can become what is unmarshalled from a text.
Decoded(v, type, old, format) ==
  CASE format = "json" /\ type \in {"duration", "memorysize", "defaulttrue"} /\ ~IsText(v) -> {}
    [] type \in {"duration", "memorysize"} -> {[kind |-> type, n |-> n] : n \in
           IF IsText(v) /\ type \notin Parses[v.s] THEN {} ELSE asFloat(v)}
    [] type \in {"int", "percentage"} -> IF v.kind = Whole(format) THEN {[kind |-> type, n |-> v.n]} ELSE {}
    [] type = "defaulttrue" -> IF IsText(v) THEN IF type \in Parses[v.s] THEN {v} ELSE {}
                               ELSE IF v.kind = "bool" THEN {v} ELSE {}
    [] type = "map" -> IF v.kind = "map" THEN {MapValue(v.f @@ old.f)} ELSE {}
    [] type = "stringarray" -> IF v.kind = "list" THEN {v} ELSE {}
    [] type = "bool" -> IF v.kind = "bool" THEN {v} ELSE {}
    [] OTHER -> IF IsText(v) THEN {v} ELSE {}

\* The groups of a file that the struct has: it has yaml tags only, and the other
\* formats know its fields by their names.
Known(source) ==
  {g \in DOMAIN source.data \cap DOMAIN ConfigMeta : source.format = "yaml" \/ ~ConfigMeta[g].renamed}
Names(source, p) ==
  p[1] \in Known(source) /\ source.data[p[1]].kind = "map" /\ p[2] \in DOMAIN source.data[p[1]].f

LoadedAs(source, p, old) == Decoded(source.data[p[1]].f[p[2]], FieldOf(p).type, old, source.format)

\* Whether the loader returns without an error, and what it makes of the struct;
\* an empty group changes nothing.
Loadable(source) ==
  /\ source.status = "ok"
  /\ \A g \in Known(source) : source.data[g].kind \in {"map", "nil"}
  /\ \A p \in Held : Names(source, p) => LoadedAs(source, p, Zero(FieldOf(p).type)) # {}
LoadInto(struct, source) ==
  [p \in Held |-> IF Names(source, p) THEN CHOOSE v \in LoadedAs(source, p, struct[p]) : TRUE
                                      ELSE struct[p]]
loadConfigsInto(sources) ==
  FoldLeft(LoadInto, [p \in Held |-> Zero(FieldOf(p).type)], sources)

\* defaults.Set: every zero value, whether or not a file has set it.
SetDefaults(struct) ==
  [p \in Held |-> IF struct[p] = Zero(FieldOf(p).type) /\ FieldOf(p).default # {}
                    THEN CHOOSE v \in FieldOf(p).default : TRUE ELSE struct[p]]

\* applyCmdEnvTags: the first option that has a value; of a list of texts, the
\* first one (no text here has a delimiter).
Given(p) == SelectSeq(IF p \in DOMAIN Option THEN Option[p] ELSE <<>>,
                      LAMBDA v : v # Zero(FieldOf(p).type))
applyCmdEnvTags(struct) ==
  [p \in Held |-> IF Given(p) = <<>> THEN struct[p]
                  ELSE IF FieldOf(p).type = "stringarray" THEN [kind |-> "list", e |-> <<Given(p)[1].e[1]>>]
                  ELSE Given(p)[1]]

\* What validateConfigs and applyConfigInto both begin with.
Settings(sources) == applyCmdEnvTags(SetDefaults(loadConfigsInto(sources)))

\* expandEnvVarsInConfig, in place
expandEnvVarsInConfig(struct) == [p \in Held |-> expandField(struct[p])]

applyConfigInto(sources) == expandEnvVarsInConfig(Settings(sources))

-----------------------------------------------------------------------------
(* validateConfigs and newFileConfig. *)

\* The struct, marshalled and loaded as a map: quantities become texts again.
Emitted(struct, p) == p \in Held /\ ~(FieldOf(p).omit /\ struct[p] = Zero(FieldOf(p).type))
Marshalled(v) ==
  CASE v.kind \in {"duration", "memorysize"} ->
         TextValue(CHOOSE t \in DOMAIN Quantity : Quantity[t] = v.n /\ v.kind \in Parses[t])
    [] v.kind \in {"int", "percentage"} -> [kind |-> "int", n |-> v.n]
    [] OTHER -> v
Rewritten(struct) ==
  [g \in DOMAIN ConfigMeta |->
     MapValue([f \in {x \in DOMAIN ConfigMeta[g].fields : Emitted(struct, <<g, x>>)} |->
                 Marshalled(struct[<<g, f>>])])]

\* "possibly inject some keys to keep the validator happy"
WithKeys(struct) ==
  [p \in Held |-> IF FieldOf(p).key /\ struct[p] = TextValue("") THEN TextValue("InvalidHoneycombAPIKey")
                  ELSE struct[p]]

\* Variant: the files alone are validated.
SecondPass_None(sources, version) == {}
SecondPass(sources, version) ==
  Validate(ConfigMeta, expandValues(Rewritten(WithKeys(Settings(sources)))), version)

\* Both passes, the second if the first finds no errors and everything loads.
validateConfigs(sources, version) ==
  LET first == Validate(ConfigMeta, expandValues(loadConfigsIntoMap(sources)), version) IN
    IF HasErrors(first) THEN first
    ELSE IF \E i \in DOMAIN sources : ~Loadable(sources[i]) THEN {Failure(<<"load">>)}
    ELSE first \cup SecondPass(sources, version)

\* newConfigAndRules and newFileConfig, with validation on: "error" without a
\* configuration, "warnings" beside one, or "valid".  Warnings about rules are
\* not looked at.
Outcome(sources, rules, version) ==
  IF \E i \in DOMAIN sources : sources[i].status # "ok" THEN "error"
  ELSE IF \E i \in DOMAIN rules : rules[i].status # "ok" THEN "error"
  ELSE LET results == validateConfigs(sources, version) IN
    IF HasErrors(results) \/ HasErrors(ValidateRules(loadConfigsIntoMap(rules))) THEN "error"
    ELSE IF results # {} THEN "warnings" ELSE "valid"

-----------------------------------------------------------------------------
(* The reference: where the value of each field comes from.  Options come    *)
(* before files, later files before earlier ones, key by key in a map, and   *)
(* defaults take the place of whatever is zero.  A renamed group counts in   *)
(* YAML files only.                                                          *)

ReferenceFile(sources, p) ==
  LET type   == FieldOf(p).type
      naming == {i \in DOMAIN sources : Names(sources[i], p)}
      value(i) == sources[i].data[p[1]].f[p[2]]
      last(is) == CHOOSE i \in is : \A j \in is : j <= i
      keys   == UNION {DOMAIN value(i).f : i \in naming}
  IN IF naming = {} THEN Zero(type)
     ELSE IF type = "map"
            THEN MapValue([k \in keys |-> value(last({i \in naming : k \in DOMAIN value(i).f})).f[k]])
     ELSE CHOOSE v \in LoadedAs(sources[last(naming)], p, Zero(type)) : TRUE

ReferenceValue(sources, p) ==
  LET written == ReferenceFile(sources, p)
      or(v) == IF v = Zero(FieldOf(p).type) /\ FieldOf(p).default # {}
                 THEN CHOOSE d \in FieldOf(p).default : TRUE ELSE v
  IN expandField(IF Given(p) = <<>> THEN or(written) ELSE Given(p)[1])

\* Whether the value is what the metadata of its field asks for; an API key may
\* be blank.
Meets(p, v) ==
  \/ FieldOf(p).key /\ v = TextValue("")
  \/ /\ validateDatatype(v, FieldOf(p).type)
     /\ \A x \in FieldOf(p).validations : ~Faulty(v, FieldOf(p), x)

\* The files give every field the value it should have, and a valid one.
AsWritten(sources) ==
  LET struct == applyConfigInto(sources) IN
    \A p \in Held :
      /\ struct[p] = ReferenceValue(sources, p)
      /\ Emitted(struct, p) => Meets(p, Marshalled(struct[p]))
=============================================================================
