---------------------------- MODULE ComposeRules ----------------------------
(***************************************************************************)
(* What compose decides without keeping state: which panel a name denotes   *)
(* (core/sync), which compositions are sound (sdk/composition-validator),   *)
(* which templates are valid (runtime/template), where an event goes        *)
(* (host/renderer/js/event-bus), and what the local proxy of a panel lets   *)
(* through (runtime/host-dashboard).                                        *)
(*                                                                         *)
(* A name is a tuple of its parts.  A slot is the index of its panel.       *)
(***************************************************************************)
EXTENDS Integers, Sequences, SequencesExt, FiniteSets

CONSTANT Absent     \* a field that is not there

Everyone == <<"*">>     \* the target of a broadcast rule
Broadcast == 0          \* the same, once resolved
AnyEvent == "*"

\* Array.filter(): the entries that are in a set, in their order.
Kept(entries, S) ==
    LET kept[n \in 0..Len(entries)] ==
          IF n = 0 THEN << >> ELSE IF entries[n] \in S THEN Append(kept[n - 1], entries[n]) ELSE kept[n - 1]
    IN  kept[Len(entries)]

----------------------------------------------------------------------------
(* Templates.                                                               *)

\* A source is [manifest, id, calls], a call [tool, id]; ids may be Absent.
ComponentId(source, j) ==
    LET call == source.calls[j] IN
    IF call.id # Absent THEN <<call.id>>
    ELSE IF source.id = Absent THEN <<source.manifest, call.tool>>
    ELSE IF Len(source.calls) = 1 THEN <<source.id>> ELSE <<source.id, call.tool, j>>

Calls(template) == UNION {{<<i, j>> : j \in DOMAIN template[i].calls} : i \in DOMAIN template}
IdOf(template, c) == ComponentId(template[c[1]], c[2])

DuplicateId(template) ==
    \E c, d \in Calls(template) : c # d /\ IdOf(template, c) = IdOf(template, d)

\* A tool called twice by one source needs ids of its own.
RepeatsWithoutId(source) ==
    \E j, k \in DOMAIN source.calls :
        j # k /\ source.calls[j].tool = source.calls[k].tool /\ source.calls[j].id = Absent

ValidTemplate(template, toolsOf) ==
    /\ template # << >>
    /\ \A i \in DOMAIN template :
         /\ template[i].manifest \in DOMAIN toolsOf
         /\ template[i].calls # << >>
         /\ ~RepeatsWithoutId(template[i])
         /\ \A j \in DOMAIN template[i].calls : template[i].calls[j].tool \in toolsOf[template[i].manifest]
    /\ ~DuplicateId(template)

\* The panels of the calls that answered with a resource, in template order.
Collect(template, answered) ==
    LET ordered == FlattenSeq([i \in DOMAIN template |-> [j \in DOMAIN template[i].calls |-> <<i, j>>]])
    IN  [k \in DOMAIN Kept(ordered, answered) |->
            LET c == Kept(ordered, answered)[k] IN
            [component |-> IdOf(template, c),
             source |-> <<template[c[1]].manifest, template[c[1]].calls[c[2]].tool>>,
             call |-> c]]

----------------------------------------------------------------------------
(* References and rules.                                                    *)

Greatest(S) == CHOOSE n \in S : \A m \in S : m <= n

\* A component id first, then a tool that only one panel shows.
ResolveReference(name, panels) ==
    LET byComponent == {k \in DOMAIN panels : panels[k].component = name}
        byTool == {k \in DOMAIN panels : panels[k].source = name}
    IN  IF byComponent # {} THEN Greatest(byComponent)
        ELSE IF Cardinality(byTool) = 1 THEN Greatest(byTool) ELSE Absent

ResolveRule(rule, panels) ==
    [from |-> ResolveReference(rule.from, panels), event |-> rule.event,
     to |-> IF rule.to = Everyone THEN Broadcast ELSE ResolveReference(rule.to, panels),
     action |-> rule.action]

\* Rules with an end that resolves to nothing are left out.
ResolveSyncRules(rules, panels) ==
    LET resolved == [i \in DOMAIN rules |-> ResolveRule(rules[i], panels)]
    IN  Kept(resolved, {r \in Range(resolved) : r.from # Absent /\ r.to # Absent})

----------------------------------------------------------------------------
(* Soundness of a composition: tools is a function from names to declared   *)
(* [emits, accepts], each a set or Absent.                                  *)

\* "x?.includes(y)": nothing is declared, nothing is included.
Declares(ports, name) == ports # Absent /\ name \in ports

StructuralIssues(tools, rules) ==
    UNION {{<<"ORPHAN_SYNC_REFERENCE", i>> : x \in {e \in {rules[i].from} \cup ({rules[i].to} \ {Everyone}) : e \notin DOMAIN tools}}
           \cup {<<"CIRCULAR_SYNC_RULE", i>> : x \in {e \in {rules[i].to} : e # Everyone /\ e = rules[i].from}}
           : i \in DOMAIN rules}

SemanticIssues(tools, rules) ==
    UNION {(IF rules[i].from \in DOMAIN tools /\ tools[rules[i].from].emits # Absent
               /\ rules[i].event \notin tools[rules[i].from].emits
            THEN {<<"SYNC_EVENT_NOT_EMITTED", i>>} ELSE {})
           \cup (IF rules[i].to \in DOMAIN tools /\ tools[rules[i].to].accepts # Absent
                    /\ rules[i].action \notin tools[rules[i].to].accepts
                 THEN {<<"SYNC_ACTION_NOT_ACCEPTED", i>>} ELSE {})
           : i \in DOMAIN rules}

Emitters(tools, port) == {t \in DOMAIN tools : Declares(tools[t].emits, port.event)}
Acceptors(tools, port) == {t \in DOMAIN tools : Declares(tools[t].accepts, port.action)}
HasPeer(t, others) == others \ {t} # {}

PortIssues(tools, ports) ==
    {<<"PORT_SYNC_NO_COMPATIBLE_PEER", i>> : i \in
        {n \in DOMAIN ports : \A t \in Emitters(tools, ports[n]) : ~HasPeer(t, Acceptors(tools, ports[n]))}}

\* Faulty: a port rule covers an emitter that is its own only acceptor.
RoutedEmitAlone(tools, rules, ports, t, event) ==
    \/ \E i \in DOMAIN rules : rules[i].from = t /\ rules[i].event = event
    \/ \E i \in DOMAIN ports : ports[i].event = event /\ t \in Emitters(tools, ports[i])

RoutedEmit(tools, rules, ports, t, event) ==
    \/ \E i \in DOMAIN rules : rules[i].from = t /\ rules[i].event = event
    \/ \E i \in DOMAIN ports :
         /\ ports[i].event = event /\ t \in Emitters(tools, ports[i])
         /\ HasPeer(t, Acceptors(tools, ports[i]))

RoutedAccept(tools, rules, ports, t, action) ==
    \/ \E i \in DOMAIN rules :
         /\ rules[i].action = action
         /\ rules[i].to = t \/ (rules[i].to = Everyone /\ rules[i].from # t)
    \/ \E i \in DOMAIN ports :
         /\ ports[i].action = action /\ t \in Acceptors(tools, ports[i])
         /\ HasPeer(t, Emitters(tools, ports[i]))

OrphanIssues(tools, rules, ports) ==
    UNION {{<<"ORPHAN_EMIT", t, e>> : e \in {x \in IF tools[t].emits = Absent THEN {} ELSE tools[t].emits :
                                                ~RoutedEmit(tools, rules, ports, t, x)}}
           \cup {<<"ORPHAN_ACCEPT", t, a>> : a \in {x \in IF tools[t].accepts = Absent THEN {} ELSE tools[t].accepts :
                                                ~RoutedAccept(tools, rules, ports, t, x)}}
           : t \in DOMAIN tools}

ValidComposition(tools, rules, ports) ==
    /\ StructuralIssues(tools, rules) = {} /\ SemanticIssues(tools, rules) = {}
    /\ PortIssues(tools, ports) = {} /\ OrphanIssues(tools, rules, ports) = {}

----------------------------------------------------------------------------
(* Routing an event in the page: resolved rules, then port rules between    *)
(* panels whose active surface declares the ports.                          *)

StaticTargets(rule, slots, from) ==
    Kept(slots, IF rule.to = Broadcast THEN Range(slots) \ {from} ELSE {rule.to})

StaticPosts(rules, slots, from, event) ==
    FlattenSeq([i \in DOMAIN rules |->
        IF rules[i].from = from /\ rules[i].event \in {AnyEvent, event}
        THEN LET ts == StaticTargets(rules[i], slots, from)
             IN  [k \in DOMAIN ts |-> <<ts[k], rules[i].action>>]
        ELSE << >>])

\* A port rule does not deliver again what was delivered.
AddPost(posts, post) == IF post \in Range(posts) THEN posts ELSE Append(posts, post)

PortPosts(posts, port, slots, accepts, from) ==
    LET added[n \in 0..Len(slots)] ==
          IF n = 0 THEN posts
          ELSE IF slots[n] # from /\ port.action \in accepts[slots[n]]
               THEN AddPost(added[n - 1], <<slots[n], port.action>>) ELSE added[n - 1]
    IN  added[Len(slots)]

Route(rules, ports, slots, emits, accepts, from, event) ==
    LET routed[n \in 0..Len(ports)] ==
          IF n = 0 THEN StaticPosts(rules, slots, from, event)
          ELSE IF ports[n].event = event /\ event \in emits[from]
               THEN PortPosts(routed[n - 1], ports[n], slots, accepts, from) ELSE routed[n - 1]
    IN  routed[Len(ports)]

----------------------------------------------------------------------------
(* The surface of a panel: the components the host asked for, or those the  *)
(* App offers by default.                                                   *)

\* A catalog is [components, default], components a function to [emits, accepts].
SurfaceOf(catalog, requested) == IF requested # Absent THEN requested ELSE catalog.default

SurfaceStatus(catalog, requested) ==
    IF catalog = Absent THEN "legacy"
    ELSE IF SurfaceOf(catalog, requested) = Absent THEN "unresolved"
    ELSE IF SurfaceOf(catalog, requested) \subseteq DOMAIN catalog.components THEN "ready" ELSE "unresolved"

ActivePorts(catalog, requested, direction) ==
    IF SurfaceStatus(catalog, requested) # "ready" THEN {}
    ELSE UNION {catalog.components[c][direction] : c \in SurfaceOf(catalog, requested)}

----------------------------------------------------------------------------
(* The local proxy of one panel: [tools, resource].  A request is           *)
(* [method, target]; what it asks of the source server, or Absent.          *)

\* tools/list is answered from the manifest, and resources/list is filtered.
Forwards(panel, request) ==
    IF request.method = "tools/call" /\ request.target \in panel.tools THEN request
    ELSE IF request.method = "resources/read" /\ request.target = panel.resource THEN request
    ELSE IF request.method = "resources/list" THEN [method |-> "resources/list", target |-> panel.resource]
    ELSE Absent
=============================================================================
