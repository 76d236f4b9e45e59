-------------------------------- MODULE Rules --------------------------------
(***************************************************************************)
(* What a rules-based sampler makes of a trace: the first rule that        *)
(* matches it (sample/rules.go, the operators of config/sampler_config.go) *)
(* and the key under which its downstream sampler counts it                *)
(* (sample/trace_key.go).                                                  *)
(*                                                                         *)
(* A value is what the conversions make of it:                             *)
(*   kind   "int", "float", "bool", "string" or "nil"                      *)
(*   int    what tryConvertToInt returns, or {}; a singleton otherwise     *)
(*   float  the same for tryConvertToFloat, in halves                      *)
(*   text   convertToString, as its rank among the strings                 *)
(*   truth  TryConvertToBool                                               *)
(* A condition has an operator op, a datatype, a value, the set of values  *)
(* of in and not-in, and the texts that starts-with, contains or matches   *)
(* accepts.  Its fields are records [root, name].  A span has its fields   *)
(* in flat and what gjson finds inside of them in nested.  A trace is      *)
(* [spans, root], with the root's place among the spans, or 0.             *)
(***************************************************************************)
EXTENDS Integers, Sequences, FiniteSets, FiniteSetsExt, SequencesExt

CONSTANTS
  NilText,       \* the text "<nil>"
  EmptyText,     \* the text ""
  IntText,       \* the text of every number
  MaxKeyLength   \* 100 in the code

ASSUME KeyLengthAssumption == MaxKeyLength \in Nat

Nil == [kind |-> "nil", int |-> {}, float |-> {}, text |-> NilText, truth |-> FALSE]

Comparison == {"=", "!=", ">", ">=", "<", "<="}

\* op holds of two things that are d apart.
Holds(op, d) ==
  CASE op = "=" -> d = 0 [] op = "!=" -> d # 0
    [] op = ">" -> d > 0 [] op = ">=" -> d >= 0
    [] op = "<" -> d < 0 [] op = "<=" -> d <= 0

Numbers == {"int", "float"}
The(singleton) == CHOOSE n \in singleton : TRUE
Rank(truth) == IF truth THEN 1 ELSE 0

-----------------------------------------------------------------------------
(* Comparing values: compare gives the sign of a - b, or {}. *)

compare(a, b) ==
  IF a.kind = "nil" \/ b.kind = "nil"
    THEN {Rank(a.kind # "nil") - Rank(b.kind # "nil")}
  ELSE IF a.kind \in Numbers /\ b.kind \in Numbers THEN {The(a.float) - The(b.float)}
  ELSE IF a.kind = "bool" /\ b.kind = "bool" THEN {Rank(a.truth) - Rank(b.truth)}
  ELSE IF a.kind = "string" /\ b.kind = "string" THEN {a.text - b.text}
  ELSE {}

\* Without a datatype, or with an operator its datatype does not know.
conditionMatchesValue(c, v, exists) ==
  exists /\ c.op \in Comparison /\ \E d \in compare(v, c.value) : Holds(c.op, d)

\* A missing field compares as the text of nil.
setCompareOperators(c, v, exists) ==
  CASE c.datatype = "string" -> Holds(c.op, v.text - c.value.text)
    [] c.datatype = "int"    -> exists /\ \E n \in v.int : Holds(c.op, n - The(c.value.int))
    [] c.datatype = "float"  -> exists /\ \E n \in v.float : Holds(c.op, n - The(c.value.float))
    [] c.datatype = "bool" /\ c.op \in {"=", "!="} ->
         exists /\ Holds(c.op, Rank(v.truth) - Rank(c.value.truth))
    [] OTHER -> conditionMatchesValue(c, v, exists)

setInBasedOperators(c, v) ==
  CASE c.datatype = "int"   -> \E w \in c.values : v.int # {} /\ v.int = w.int
    [] c.datatype = "float" -> \E w \in c.values : v.float # {} /\ v.float = w.float
    [] OTHER                -> \E w \in c.values : v.text = w.text

\* has-root-span, met outside of ruleMatchesTrace, matches nothing.
Matches(c, v, exists) ==
  CASE c.op = "exists"           -> exists
    [] c.op = "not-exists"       -> ~exists
    [] c.op \in Comparison       -> setCompareOperators(c, v, exists)
    [] c.op = "accepts"          -> v.text \in c.texts
    [] c.op = "does-not-contain" -> v.text \notin c.texts
    [] c.op = "in"               -> setInBasedOperators(c, v)
    [] c.op = "not-in"           -> ~setInBasedOperators(c, v)
    [] c.op = "has-root-span"    -> FALSE

-----------------------------------------------------------------------------
(* Evaluating rules. *)

IntValue(n) == [kind |-> "int", int |-> {n}, float |-> {2 * n}, text |-> IntText[n], truth |-> n = 1]

\* Where a field is looked up: fields of the root are passed over without one.
Holder(t, s, field) == IF field.root /\ t.root # 0 THEN t.spans[t.root] ELSE s

\* Variant: a field of the span does not clear checkedOnlyRoot.
OnlyRoot_AnyRoot(fields, last) == \E i \in 1..last : fields[i].root
OnlyRoot(fields, last) == \A i \in 1..last : fields[i].root

\* [value, exists, onlyRoot]: the last tells that no span gives another value.
extractValueFromSpan(t, s, c, nested) ==
  LET hits  == {i \in DOMAIN c.fields :
                  /\ c.fields[i].root => t.root # 0
                  /\ c.fields[i].name \in DOMAIN Holder(t, s, c.fields[i]).flat}
      first == Min(hits)
      \* The nested search is in the span that the last field was looked up in.
      last  == Holder(t, s, Last(c.fields)).nested
      deep  == {i \in DOMAIN c.fields : ~c.fields[i].root /\ c.fields[i].name \in DOMAIN last}
  IN
    IF c.computed
      THEN [value |-> IntValue(Len(t.spans)), exists |-> TRUE, onlyRoot |-> TRUE]
    ELSE IF hits # {}
      THEN [value |-> Holder(t, s, c.fields[first]).flat[c.fields[first].name], exists |-> TRUE,
            onlyRoot |-> OnlyRoot(c.fields, first)]
    ELSE IF nested /\ deep # {}
      THEN [value |-> last[c.fields[Min(deep)].name], exists |-> TRUE, onlyRoot |-> FALSE]
    ELSE [value |-> Nil, exists |-> FALSE, onlyRoot |-> FALSE]

\* What the loops over spans learn of span number i.
Extracted(t, i, c, nested) == extractValueFromSpan(t, t.spans[i], c, nested)
SpanMatches(t, i, c, nested) ==
  LET x == Extracted(t, i, c, nested) IN Matches(c, x.value, x.exists)

\* A condition is looked for in one span after the other, until one matches or
\* only the root counts.
conditionMatchesTrace(t, c, nested) ==
  LET stops == {i \in DOMAIN t.spans :
                  SpanMatches(t, i, c, nested) \/ Extracted(t, i, c, nested).onlyRoot}
  IN stops # {} /\ SpanMatches(t, Min(stops), c, nested)

ruleMatchesTrace(t, rule, nested) ==
  \A j \in DOMAIN rule.conditions :
    LET c == rule.conditions[j] IN
      IF c.op = "has-root-span" THEN (t.root # 0) = c.value.truth
                                ELSE conditionMatchesTrace(t, c, nested)

\* All conditions are tried on one span after the other, each as long as those
\* before it match; one that fails on the root alone ends the search.
ruleMatchesSpanInTrace(t, rule, nested) ==
  LET fails(i) == {j \in DOMAIN rule.conditions : ~SpanMatches(t, i, rule.conditions[j], nested)}
      stops == {i \in DOMAIN t.spans :
                  \/ fails(i) = {}
                  \/ Extracted(t, i, rule.conditions[Min(fails(i))], nested).onlyRoot}
  IN rule.conditions = <<>> \/ (stops # {} /\ fails(Min(stops)) = {})

RuleMatches(t, rule, nested) ==
  CASE rule.scope = "span"  -> ruleMatchesSpanInTrace(t, rule, nested)
    [] rule.scope = "trace" -> ruleMatchesTrace(t, rule, nested)
    [] OTHER                -> TRUE

\* GetSampleRate: the number of the first rule that matches, or 0.
FirstMatch(t, rules, nested) ==
  LET matching == {i \in DOMAIN rules : RuleMatches(t, rules[i], nested)}
  IN IF matching = {} THEN 0 ELSE Min(matching)

-----------------------------------------------------------------------------
(* traceKey.build: per field the distinct texts of its values, which stops   *)
(* at the maximum; then the root's fields and the number of spans.  Fields   *)
(* without a value leave no mark in the key.                                 *)

\* The values that are met, as <<place of the field, place of the span>>, and
\* what is noted of one.
Met(t, fields) ==
  {p \in (DOMAIN fields) \X (DOMAIN t.spans) : fields[p[1]] \in DOMAIN t.spans[p[2]].flat}
Noted(t, fields, p) == <<p[1], t.spans[p[2]].flat[fields[p[1]]].text>>

\* The loops go over the spans for one field after the other.
NotAfter(q, p) == q[1] < p[1] \/ (q[1] = p[1] /\ q[2] <= p[2])

\* totalUniqueCount is below the maximum when p has been counted.
AddAsString(t, fields, p) ==
  Cardinality({Noted(t, fields, q) : q \in {r \in Met(t, fields) : NotAfter(r, p)}}) < MaxKeyLength

distinctValue(t, fields) ==
  {Noted(t, fields, p) : p \in {q \in Met(t, fields) : AddAsString(t, fields, q)}}

KeyFrom(t, fields, roots, useLength, values) ==
  LET textsOf(i) == {v[2] : v \in {w \in values : w[1] = i}}
      filled == SelectSeq([i \in DOMAIN fields |-> i], LAMBDA i : textsOf(i) # {})
      flat == IF t.root = 0 THEN <<>> ELSE t.spans[t.root].flat
      here == SelectSeq(roots, LAMBDA f : f \in DOMAIN flat)
  IN [values |-> [i \in DOMAIN filled |-> textsOf(filled[i]) \ {EmptyText}],
      roots  |-> [i \in DOMAIN here |-> flat[here[i]].text],
      length |-> IF useLength THEN {Len(t.spans)} ELSE {}]

build(t, fields, roots, useLength) ==
  KeyFrom(t, fields, roots, useLength, distinctValue(t, fields))

-----------------------------------------------------------------------------
(* Reference definitions: no loops, no order of spans.                       *)

ReferenceMatches(t, rule, nested) ==
  LET spans == DOMAIN t.spans
      cs == Range(rule.conditions)
  IN
    \/ rule.conditions = <<>>
    \/ rule.scope = "span" /\ \E i \in spans : \A c \in cs : SpanMatches(t, i, c, nested)
    \/ /\ rule.scope = "trace"
       /\ \A c \in cs : IF c.op = "has-root-span" THEN c.value.truth = (t.root # 0)
                        ELSE \E i \in spans : SpanMatches(t, i, c, nested)
    \/ rule.scope \notin {"span", "trace"}

ReferenceValues(t, fields) ==
  UNION {{<<i, s.flat[fields[i]].text>> : i \in {j \in DOMAIN fields : fields[j] \in DOMAIN s.flat}}
           : s \in Range(t.spans)}
=============================================================================
