----------------------------- MODULE MCSampling -----------------------------
(* Two workers and files that are edited twice.  Rules' texts are ranked:    *)
(* "" is 0, "1" is 1, "2" is 2, "<nil>" is 3, "x" is 4 and "y" is 5.         *)
EXTENDS Sampling

CONSTANTS w1, w2

MCIntText == <<1, 2>>

Text(rank) == [kind |-> "string", int |-> {}, float |-> {}, text |-> rank, truth |-> FALSE]
One == IntValue(1)
Two == IntValue(2)
x == Text(4)
y == Text(5)
True == [Nil EXCEPT !.kind = "bool", !.truth = TRUE]

Field(name) == [root |-> FALSE, name |-> name]
RootField(name) == [root |-> TRUE, name |-> name]
Condition(op, datatype, value, fields) ==
  [op |-> op, datatype |-> datatype, value |-> value, values |-> {value},
   texts |-> {value.text}, fields |-> fields, computed |-> FALSE]
Rule(scope, conditions, sampler) ==
  [scope |-> scope, conditions |-> conditions, sampler |-> sampler]
Sampler(cluster, fields) ==
  {[goal |-> 4, cluster |-> cluster, fields |-> fields, roots |-> <<1>>, useLength |-> TRUE]}

Rules1 ==
  << Rule("trace", <<Condition("=", "int", One, <<RootField(1), Field(2)>>),
                     Condition("has-root-span", "", True, <<>>)>>, {}),
     Rule("span", <<Condition(">", "", One, <<RootField(1), Field(1)>>),
                    Condition("in", "string", x, <<Field(2)>>)>>, {}),
     Rule("span", <<Condition("!=", "string", One, <<Field(1), RootField(2)>>),
                    Condition("not-exists", "", Nil, <<RootField(1)>>)>>, {}),
     Rule("span", <<Condition("has-root-span", "", True, <<>>)>>, {}),
     Rule("trace", <<>>, Sampler(TRUE, <<1, 2>>)) >>

Rules2 ==
  << Rule("trace", <<[Condition("<=", "float", One, <<Field(1)>>) EXCEPT !.computed = TRUE],
                     Condition("exists", "", Nil, <<RootField(2)>>)>>, {}),
     Rule("span", <<Condition("accepts", "string", y, <<Field(3)>>),
                    Condition("does-not-contain", "string", Two, <<Field(1)>>)>>, Sampler(TRUE, <<1, 2>>)),
     Rule("trace", <<Condition("not-in", "int", Two, <<Field(2), RootField(1)>>),
                     Condition("=", "bool", True, <<RootField(2), RootField(1)>>)>>, {}),
     Rule("Trace", <<Condition("exists", "", Nil, <<Field(1)>>)>>, {}) >>

-----------------------------------------------------------------------------
(* The metadata: a field of every way of checking that matters to a merge.   *)

Item(type, validations, default) ==
  [type |-> type, validations |-> validations, choices |-> {}, default |-> default,
   held |-> TRUE, omit |-> FALSE, key |-> FALSE, last |-> 0, text |-> FALSE]
Check(type, arg) == [type |-> type, arg |-> arg]
Group(fields) == [fields |-> fields, last |-> 0, text |-> FALSE, renamed |-> FALSE]

MCConfigMeta ==
  "General" :> Group("ConfigurationVersion" :> Item("int", {Check("required", 0)}, {}))
  @@ "Network" :> Group(
       "ListenAddr" :> Item("hostport", {Check("notempty", 0)}, {TextValue("0.0.0.0:8080")})
       @@ "PeerListenAddr" :> Item("hostport", {}, {})
       @@ "AdditionalHeaders" :> Item("map", {Check("elementType", "string"),
                                              Check("noReservedHeaders", {"X-Hny-Team"})}, {}))
  @@ "Traces" :> Group(
       "SendTicker" :> Item("duration", {Check("minimum", 10)}, {[kind |-> "duration", n |-> 100]}))
  @@ "IDFields" :> [Group("TraceNames" :> Item("stringarray", {}, {})) EXCEPT !.renamed = TRUE]
  @@ "HoneycombLogger" :> Group(
       "APIKey" :> [Item("string", {Check("format", "apikey")}, {}) EXCEPT !.key = TRUE])
  @@ "RedisPeerManagement" :> Group(
       "Prefix" :> [Item("string", {Check("notempty", 0)}, {})
                    EXCEPT !.omit = TRUE, !.last = 26, !.text = TRUE]
       @@ "ClusterHosts" :> Item("stringarray", {}, {})
       @@ "Strategy" :> [Item("string", {Check("choice", 0)}, {})
                         EXCEPT !.choices = {"legacy", "hash"}, !.held = FALSE, !.last = 26])

MCRulesMeta ==
  "DeterministicSampler" :> Group("SampleRate" :> Item("int", {Check("requiredInGroup", 0)}, {}))
  @@ "RulesBasedSampler" :> Group("Rules" :> Item("objectarray", {}, {}))
  @@ "Rules" :> Group("SampleRate" :> Item("int", {Check("minimum", 1)}, {}))

MCParses ==
  [t \in {"0.0.0.0:8080", "host:1", "peer:1"} |-> {"hostport"}]
  @@ [t \in {"1s", "100ms", "1ms"} |-> {"duration"}]
  @@ [t \in {"InvalidHoneycombAPIKey", "key"} |-> {"apikey"}]
  @@ [t \in {"", "bad", "p", "x", "${ADDR}", "${TICK}", "legacy"} |-> {}]
MCQuantity == "1s" :> 1000 @@ "100ms" :> 100 @@ "1ms" :> 1
MCEnv == "${ADDR}" :> "host:1" @@ "${TICK}" :> "1s"
MCOption == <<"Network", "PeerListenAddr">> :> <<TextValue(""), TextValue("peer:1")>>
            @@ <<"RedisPeerManagement", "ClusterHosts">> :>
                 <<[kind |-> "list", e |-> <<TextValue("peer:1")>>]>>

Source(data) == [status |-> "ok", format |-> "yaml", data |-> data]
VersionIn(format) ==
  "General" :> MapValue("ConfigurationVersion" :> [kind |-> Whole(format), n |-> 2])
Version == VersionIn("yaml")

\* A file that sets each of these fields to one of the texts, or not at all.
Set(g, f, texts) ==
  {NoKeys} \cup {g :> MapValue(f :> TextValue(t)) : t \in texts}
Headers(names) ==
  {NoKeys} \cup {"AdditionalHeaders" :> MapValue(n :> TextValue("x")) : n \in names}
Network(addresses, names) ==
  {"Network" :> MapValue(a @@ h) : h \in Headers(names),
     a \in {NoKeys} \cup {"ListenAddr" :> TextValue(t) : t \in addresses}}

First ==
  {Source(Version @@ n @@ d @@ k @@ r) :
     n \in Network({"", "host:1", "${ADDR}", "bad"}, {"a", "X-Hny-Team"}),
     d \in Set("Traces", "SendTicker", {"1s", "1ms", "${TICK}", "bad"}),
     k \in Set("HoneycombLogger", "APIKey", {"", "key", "bad"}),
     r \in Set("RedisPeerManagement", "Prefix", {"p"}) \cup Set("RedisPeerManagement", "Strategy", {"legacy"})}
\* A file in another format, with a group that the struct has under another name.
Other(format) ==
  {[Source("IDFields" :> MapValue("TraceNames" :> [kind |-> "list", e |-> <<TextValue("x")>>]) @@ d)
      EXCEPT !.format = format]
     : d \in Set("Traces", "SendTicker", {"1s"}) \cup {VersionIn(format)}}
Second ==
  {Source(n @@ d) : n \in Network({"host:1"}, {"b"}), d \in Set("Traces", "SendTicker", {"1s"})}
  \cup {Source("Network" :> [kind |-> "nil"])}
  \cup UNION {Other(format) : format \in {"json", "toml"}}
MCConfigs == {<<s>> : s \in First} \cup {<<s, t>> : s \in First, t \in Second}

Plain == Source(Version @@ "Network" :> MapValue("ListenAddr" :> TextValue("${ADDR}")))
Deprecated == Source(Version @@ "RedisPeerManagement" :> MapValue("Prefix" :> TextValue("p")))

Samplers(sampler) ==
  <<Source("RulesVersion" :> [kind |-> "int", n |-> 2]
           @@ "Samplers" :> MapValue("__default__" :> MapValue(sampler)))>>
Based == "RulesBasedSampler" :> MapValue("Rules" :> [kind |-> "list", e |->
            <<MapValue("SampleRate" :> [kind |-> "int", n |-> 1])>>])

MCFile == << [config |-> <<Deprecated>>, samplers |-> Samplers(Based), nested |-> FALSE, rules |-> Rules1],
             [config |-> <<Deprecated, Plain>>, samplers |-> Samplers(Based), nested |-> FALSE, rules |-> <<>>],
             [config |-> <<Plain>>, samplers |-> Samplers(Based), nested |-> TRUE, rules |-> Rules2] >>

Unsorted == << [config |-> <<Plain>>, samplers |-> Samplers(Based), nested |-> FALSE,
                rules |-> <<Rule("trace", <<>>, Sampler(FALSE, <<2, 1>>))>>] >>

\* All traces of one or two spans that have fields 1 and 2, or 3 inside another.
Flat == UNION {[fields -> {One, Two, x}] : fields \in SUBSET {1, 2}}
Spans == [flat : Flat, nested : {<<>>, 3 :> y}]
MCTraces == UNION {[spans : [1..n -> Spans], root : 0..n] : n \in 1..2}
=============================================================================
