----------------------------- MODULE MCCompose -----------------------------
(* The parts of compose, for TLC: a composition from start to shutdown, the    *)
(* page of a dashboard, and the decisions case by case: rules, connections,    *)
(* panels.  One part runs in a behaviour; the others stay where they began.    *)
EXTENDS Cluster, HostPage, McpConnection

(* The decisions of ComposeRules against what they promise: a case is a        *)
(* template, or the declared ports of two tools with the rules between them.   *)
CONSTANTS Manifests,    \* each offering all of TemplateTools
          TemplateTools, CallIds, SourceIds,
          MaxSources,   \* bound on the sources of a template
          MaxCalls,     \* bound on the calls of a source
          Tools,        \* a sequence of tool names, one panel for each
          Labelings,    \* component ids of these panels, each way a case gives them
          Events, Actions,
          MaxRules      \* bound on the static and port rules of a case, together

\* Each panel shows a tool of its own and has an id of its own, and there are two or more.
ASSUME CasesAssumption ==
    /\ Absent \notin Nat /\ {MaxRules, MaxSources, MaxCalls} \subseteq Nat
    /\ Tools \in Seq(Range(Tools)) /\ Len(Tools) >= 2 /\ Everyone \notin Range(Tools)
    /\ \A j, k \in DOMAIN Tools : Tools[j] = Tools[k] => j = k
    /\ \A labels \in Labelings :
         DOMAIN labels = DOMAIN Tools /\ \A j, k \in DOMAIN Tools : labels[j] = labels[k] => j = k
    /\ Events # {} /\ AnyEvent \notin Events

VARIABLE case

UpTo(S, n) == UNION {[1..m -> S] : m \in 0..n}

Templates ==
    LET calls == [tool : TemplateTools, id : CallIds \cup {Absent}]
        sources == [manifest : Manifests, id : SourceIds \cup {Absent}, calls : UpTo(calls, MaxCalls) \ {<< >>}]
    IN  UpTo(sources, MaxSources)

\* A rule names a panel by its tool or by its component id, and an event or all of them.
References(labels) == Range(Tools) \cup Range(labels)

Compositions(labels, m, n) ==
    [tools : [Range(Tools) -> [emits : {Absent, {}, Events}, accepts : {Absent, {}, Actions}]],
     labels : {labels},
     rules : [1..m -> [from : References(labels), event : Events \cup {AnyEvent},
                       to : References(labels) \cup {Everyone}, action : Actions]],
     ports : [1..n -> [event : Events, action : Actions]]]

Composed ==
    \E labels \in Labelings, m, n \in 0..MaxRules : m + n <= MaxRules /\ case \in Compositions(labels, m, n)

CasesInit ==
    \/ case \in [template : Templates]
    \/ Composed

CasesNext == UNCHANGED case

----------------------------------------------------------------------------
Offered == [m \in Manifests |-> TemplateTools]

(* StableReference: in a valid template a component's own id denotes its panel *)
(* whichever of the other calls failed, and nothing when its own call did      *)
(* (template.ts:122).  An id that is merely "manifest:tool" is the name of the *)
(* tool as well, and is not promised to anyone.                                *)
StableReference ==
    "template" \in DOMAIN case /\ ValidTemplate(case.template, Offered) =>
        \A answered \in SUBSET Calls(case.template), c \in Calls(case.template) :
            LET name == IdOf(case.template, c)
                collected == Collect(case.template, answered)
                slot == ResolveReference(name, collected)
            IN  Len(name) # 2 => IF c \in answered THEN slot # Absent /\ collected[slot].call = c ELSE slot = Absent

Slots == [k \in DOMAIN Tools |-> k]
SlotOf(t) == CHOOSE k \in DOMAIN Tools : Tools[k] = t
Panels == [k \in DOMAIN Tools |-> [component |-> case.labels[k], source |-> Tools[k], call |-> k]]

\* A component id goes before the name of a tool.
PanelNamed(name) ==
    IF name \in Range(case.labels) THEN CHOOSE k \in DOMAIN Tools : case.labels[k] = name ELSE SlotOf(name)
Resolved == ResolveSyncRules(case.rules, Panels)
Ports(direction) == [k \in DOMAIN Tools |-> LET p == case.tools[Tools[k]][direction] IN IF p = Absent THEN {} ELSE p]
Routed(from, event) == Route(Resolved, case.ports, Slots, Ports("emits"), Ports("accepts"), from, event)

(* ValidMeansRouted: in a composition validateComposition() finds nothing wrong *)
(* with, and that has two panels or more, every event a tool declares reaches a *)
(* panel, and every action it accepts is the end of some route, once the        *)
(* catalogs say what the metadata said (composition-validator.ts:192).  The     *)
(* validator knows tools and no component ids: this is not promised where the   *)
(* id of one panel is the tool of another (resolver.ts:118).                    *)
Unshadowed == \A j, k \in DOMAIN Tools : case.labels[j] = Tools[k] => j = k

ValidMeansRouted ==
    "tools" \in DOMAIN case /\ Unshadowed /\ ValidComposition(case.tools, case.rules, case.ports) =>
        \A k \in DOMAIN Tools :
            /\ \A e \in Ports("emits")[k] : Routed(k, e) # << >>
            /\ \A a \in Ports("accepts")[k] :
                 \E from \in DOMAIN Tools, e \in Events : <<k, a>> \in Range(Routed(from, e))

(* RoutesExactly: an event is delivered once for each static rule for it, or    *)
(* for every event, that leads to a panel with an action, once if only port     *)
(* rules do, and to nobody else (event-bus.ts:337).                             *)
StaticHits(from, event, to, action) ==
    {i \in DOMAIN case.rules :
        /\ case.rules[i].event \in {event, AnyEvent} /\ case.rules[i].action = action
        /\ PanelNamed(case.rules[i].from) = from
        /\ IF case.rules[i].to = Everyone THEN to # from ELSE PanelNamed(case.rules[i].to) = to}

Joined(from, event, to, action) ==
    /\ from # to /\ event \in Ports("emits")[from] /\ action \in Ports("accepts")[to]
    /\ \E i \in DOMAIN case.ports : case.ports[i] = [event |-> event, action |-> action]

Expected(from, event, to, action) ==
    IF StaticHits(from, event, to, action) # {} THEN Cardinality(StaticHits(from, event, to, action))
    ELSE IF Joined(from, event, to, action) THEN 1 ELSE 0

RoutesExactly ==
    "tools" \in DOMAIN case =>
        \A from \in DOMAIN Tools, e \in Events :
            LET posts == Routed(from, e) IN
            \A to \in DOMAIN Tools, a \in Actions :
                Cardinality({n \in DOMAIN posts : posts[n] = <<to, a>>}) = Expected(from, e, to, a)

-----------------------------------------------------------------------------
VARIABLE part

\* A spawned server called for two sources, and one reached by URL.
Protocols == ("s1" :> "auto") @@ ("s2" :> "streamable")
Template == <<"s1", "s2", "s1">>
OneCall == <<1, 1, 1>>

\* A table whose picks mark and show what a chart displays.
TwoFrames == <<1, 2>>
Table == "table" :> [emits |-> {"pick"}, accepts |-> {}]
Chart == "chart" :> [emits |-> {}, accepts |-> {"show"}]
Advertised == <<{[components |-> Table, default |-> {"table"}]},
                {Absent, [components |-> Table @@ Chart, default |-> Absent]}>>
AskedFor == <<Absent, {"chart"}>>
Proxies == <<[tools |-> {"save"}, resource |-> "ui1"], [tools |-> {}, resource |-> "ui2"]>>
Asked == {[method |-> "tools/call", target |-> "save"], [method |-> "resources/read", target |-> "ui2"]}
Static == <<[from |-> 1, event |-> "pick", to |-> 2, action |-> "mark"]>>
Dynamic == <<[event |-> "pick", action |-> "show"]>>
TwoTools == <<<<"m", "x">>, <<"m", "y">>>>

\* Panels with the ids their tools give them, and with ids of the template's, one of
\* them the tool of the other.
SomeLabels == {TwoTools, <<<<"m", "y">>, <<"two">>>>}

\* A plain name, one that must be encoded, and two that look encoded already.
SomeNames == {<<"a">>, <<"u">>, <<"b64", "a">>, <<"b64", "b64", "u">>}
Unsafes == {<<"u">>}
Grants == <<"save", "open">>

\* Tools that want one argument mirrored, or two of them, one within an object.
Of(fields) == [type |-> "object", fields |-> fields]
SomeArguments == {Of(<< >>), Of("k" :> [type |-> "null"]), Of("k" :> Text(<<"a">>)),
                  Of(("k" :> Text(<<"u">>)) @@ ("o" :> Of("k" :> [type |-> "number", number |-> 1])))}
Mirrors(header, path) == [header |-> header, path |-> path]
SomeAnnotations == {<< >>, <<Mirrors("Key", <<"k">>)>>, <<Mirrors("Inner", <<"o", "k">>), Mirrors("Key", <<"k">>)>>}
InLowerCase == ("Key" :> "key") @@ ("Inner" :> "inner")

others == <<clusterVars, pageVars, case, link, panelCase>>
Idle == [case |-> "none"]

MCInit ==
    /\ ClusterInit /\ PageInit /\ size = 1
    /\ part \in {"cluster", "page", "cases", "links", "panels"}
    /\ \/ part = "cases" /\ CasesInit
       \/ part # "cases" /\ case = << >>
    /\ \/ part = "links" /\ LinkInit
       \/ part # "links" /\ link = Idle
    /\ \/ part = "panels" /\ PanelInit
       \/ part # "panels" /\ panelCase = Idle

MCNext ==
    /\ UNCHANGED <<part, case, link, panelCase>>
    /\ \/ part = "cluster" /\ ClusterNext /\ UNCHANGED pageVars
       \/ part = "page" /\ PageNext /\ UNCHANGED clusterVars
       \/ part = "cases" /\ CasesNext /\ UNCHANGED <<clusterVars, pageVars>>
       \/ part = "links" /\ LinkNext /\ UNCHANGED <<clusterVars, pageVars>>
       \/ part = "panels" /\ PanelNext /\ UNCHANGED <<clusterVars, pageVars>>

MCSpec == MCInit /\ [][MCNext]_<<others, part>> /\ ClusterFairness

(* RulesMean: names, routes and templates mean what was written, and the panels*)
(* of a composition stand in the order of its template (ComposeRules, Cluster).*)
RulesMean == StableReference /\ ValidMeansRouted /\ RoutesExactly /\ SlotsFollowTemplate

(* ConnectionsTrue: a server is spoken to in its protocol, understood, and a   *)
(* panel confined to its own part of it (cluster.ts, host-dashboard.ts).       *)
ConnectionsTrue == SpokenTo /\ Understood /\ PanelConfined
=============================================================================
