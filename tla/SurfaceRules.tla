---------------------------- MODULE SurfaceRules ----------------------------
(* What the runtime of packages/view-components accepts as a surface and as a   *)
(* registry of components, and what packages/view reads from a tool result.     *)
(* A surface is [layout, columns, components], an item [id, component, area];   *)
(* a descriptor [title, events], events << >> or <<[emits, accepts]>>, and each *)
(* list of ports << >> (not declared) or <<a sequence of names>>.  Identifiers, *)
(* titles and props are well formed or not: "" stands for one that is not.      *)
EXTENDS Naturals, Sequences, SequencesExt, FiniteSets

Unique(s) == IsInjective(s)

\* validateComponentId()
ProperId(name) == name # ""

\* validateLayout(); columns 0 stands for none.
ValidLayout(s) ==
  /\ s.layout \in {"stack", "row", "grid"}
  /\ s.columns # 0 => s.columns \in 1..12 /\ s.layout = "grid"

\* defineComponentSurface(): an area is "" when there is none.
WellFormed(s) ==
  /\ ValidLayout(s) /\ s.components # <<>>
  /\ \A i \in DOMAIN s.components : ProperId(s.components[i].id) /\ ProperId(s.components[i].component)
  /\ Unique([i \in DOMAIN s.components |-> s.components[i].id])

\* validateSurfaceComponents()
KnownOnly(s, known) == \A i \in DOMAIN s.components : s.components[i].component \in known

\* validateEventNames() of the runtime, which takes an empty list.
RuntimeNames(names) == names # <<>> => Unique(names[1]) /\ "" \notin Range(names[1])

\* validateDescriptor() and validateEventPorts() of the runtime.
RuntimeDescriptor(d) ==
  /\ d.title # ""
  /\ d.events # <<>> => RuntimeNames(d.events[1].emits) /\ RuntimeNames(d.events[1].accepts)

\* defineComponentRegistry(): catalog is [components, defaultSurface].
RegistryAccepts(catalog) ==
  /\ DOMAIN catalog.components # {}
  /\ \A c \in DOMAIN catalog.components : ProperId(c) /\ RuntimeDescriptor(catalog.components[c])
  /\ catalog.defaultSurface # <<>>
       => WellFormed(catalog.defaultSurface[1]) /\ KnownOnly(catalog.defaultSurface[1], DOMAIN catalog.components)

\* readResultData() with the JSON text fallback: structured content if there is
\* any, else the first text block that is a JSON object; then the domain guard.
Guarded(d, valid) == IF d \in valid THEN <<d>> ELSE <<>>

ReadResultData(result, objects, valid) ==
  LET json == SelectSeq(result.blocks, LAMBDA b : b \in objects) IN
  IF result.structured # <<>>
  THEN IF result.structured[1] \in objects THEN Guarded(result.structured[1], valid) ELSE <<>>
  ELSE IF json # <<>> THEN Guarded(Head(json), valid) ELSE <<>>

\* defaultProjection()
DefaultProjection(result, objects, valid) ==
  LET data == ReadResultData(result, objects, valid) IN
  IF data = <<>> THEN [view |-> "status", what |-> "empty"] ELSE [view |-> "surface", what |-> data[1]]

-----------------------------------------------------------------------------
(* defineViewAppManifest() of packages/view-contracts, the build-time          *)
(* description of an App, which must accept what the runtime will mount.  The  *)
(* shape of the JSON (exact keys, dense arrays, SemVer, ui:// URIs) is well    *)
(* formed or not, as above.                                                    *)

Apply == "viewer.session.apply"
Optional(S) == {<<>>} \cup {<<x>> : x \in S}

\* requireNonEmptyString() and the patterns of identifiers and of areas.
Proper(name) == name # ""

\* validateStringSet()
StringSet(s) == s # <<>> /\ Unique(s) /\ \A i \in DOMAIN s : Proper(s[i])

\* requireExactSchemaIdentity(): a version, and no moving alias in the name.
ExactIdentity(i) == i.version = "exact" /\ i.name = "plain"

\* validateSchemaIdentitySet()
SchemaSet(s) == s # <<>> /\ Unique(s) /\ \A i \in DOMAIN s : ExactIdentity(s[i])

\* Faulty: empty ports are taken, and duplicates.
PortsLoose(p) == p.emits # <<>> \/ p.accepts # <<>>

\* validateEventPorts(): one list at least, and none empty.
Ports(p) ==
  /\ p.emits # <<>> \/ p.accepts # <<>>
  /\ \A list \in {p.emits, p.accepts} : list # <<>> => StringSet(list[1])

\* validateDescriptor()
Descriptor(d) == Proper(d.title) /\ (d.events # <<>> => Ports(d.events[1]))

\* validateSurface()
ManifestSurface(s, keys) ==
  /\ ValidLayout(s) /\ s.components # <<>>
  /\ Unique([i \in DOMAIN s.components |-> s.components[i].id])
  /\ \A i \in DOMAIN s.components :
       /\ Proper(s.components[i].id) /\ Proper(s.components[i].component)
       /\ s.components[i].component \in keys

\* validateSurface() of a dashboard template, in packages/compose.
TemplateSurface(s) ==
  /\ s.layout \in {"stack", "row", "grid"}
  /\ s.columns \in 0..12 /\ (s.layout # "grid" => s.columns = 0)
  /\ s.components # <<>>
  /\ \A i \in DOMAIN s.components :
       /\ Proper(s.components[i].id) /\ Proper(s.components[i].component)
       /\ \A j \in 1..(i - 1) : s.components[j].id # s.components[i].id

\* validateCatalog()
Catalog(c) ==
  /\ DOMAIN c.components # {}
  /\ \A k \in DOMAIN c.components : Proper(k) /\ Descriptor(c.components[k])
  /\ c.defaultSurface # <<>> => ManifestSurface(c.defaultSurface[1], DOMAIN c.components)

AcceptsApply(d) == d.events # <<>> /\ d.events[1].accepts # <<>> /\ Apply \in Range(d.events[1].accepts[1])

\* What validateResource() says of sessions: the action and the schemas come
\* together, and a component takes sessions only where its resource does.
SessionAgreed(r) ==
  LET acceptsSession == r.acceptedActions # <<>> /\ Apply \in Range(r.acceptedActions[1]) IN
  /\ acceptsSession <=> r.sessionSchemas # <<>>
  /\ r.components # <<>> /\ (\E k \in DOMAIN r.components[1].components : AcceptsApply(r.components[1].components[k]))
       => acceptsSession

\* requireUiUri(): an exact ui:// URI, which no segment makes a moving one.
UiUri(uri) == uri # "" /\ uri # "ui://latest"

\* validateResource()
ValidResource(r) ==
  /\ UiUri(r.uri) /\ r.ownership \in {"whole-view", "component-catalog"}
  /\ SchemaSet(r.resultSchemas)
  /\ r.acceptedActions # <<>> => StringSet(r.acceptedActions[1])
  /\ r.sessionSchemas # <<>> => SchemaSet(r.sessionSchemas[1])
  /\ r.components # <<>> => Catalog(r.components[1])
  /\ r.ownership = "component-catalog" => r.components # <<>>
  /\ SessionAgreed(r)

\* defineViewAppManifest()
ManifestAccepted(m) ==
  /\ m # <<>> /\ \A i \in DOMAIN m : ValidResource(m[i])
  /\ Unique([i \in DOMAIN m |-> m[i].uri])

-----------------------------------------------------------------------------
(* Manifests, case by case.                                                    *)

CONSTANTS
  SchemaSets,      \* sequences of identities [name, version]
  ActionSets,      \* sequences of accepted actions
  PortLists,       \* sequences of names, of the ports of a component
  ManifestLayouts, \* [layout, columns]
  ManifestKeys,    \* components of a catalog
  ManifestUris     \* of the resources

\* A schema identity is its name and its version, and nothing else.
ASSUME ManifestAssumption ==
  \A list \in SchemaSets : \A k \in DOMAIN list : list[k] = [name |-> list[k].name, version |-> list[k].version]

VARIABLE manifest

SomeEvents == Optional([emits : Optional(PortLists), accepts : Optional(PortLists)])
Items == [id : {"i", "j", ""}, component : ManifestKeys \cup {"foreign"}]
ManifestSurfaces == {[layout |-> l.layout, columns |-> l.columns, components |-> c] :
                       l \in ManifestLayouts, c \in UNION {[1..n -> Items] : n \in 0..2}}
Descriptors == [title : {"T"}, events : SomeEvents] \cup {[title |-> "", events |-> <<>>]}

Plain == <<[name |-> "plain", version |-> "exact"]>>
OneComponent(d) == [components |-> [k \in ManifestKeys |-> d], defaultSurface |-> <<>>]
Whole == [uri |-> "u", ownership |-> "whole-view", resultSchemas |-> Plain, acceptedActions |-> <<>>,
          sessionSchemas |-> <<>>, components |-> <<>>]

\* Manifests that vary the sessions, the components, the surface and the URIs.
ManifestInit ==
  \/ \E o \in {"whole-view", "component-catalog", ""}, rs \in SchemaSets,
        as \in Optional(ActionSets), ss \in Optional(SchemaSets), d \in Optional(Descriptors) :
       manifest = <<[uri |-> "u", ownership |-> o, resultSchemas |-> rs, acceptedActions |-> as, sessionSchemas |-> ss,
                     components |-> IF d = <<>> THEN <<>> ELSE <<OneComponent(d[1])>>]>>
  \/ \E s \in ManifestSurfaces :
       manifest = <<[Whole EXCEPT !.components = <<[OneComponent([title |-> "T", events |-> <<>>])
                                                    EXCEPT !.defaultSurface = <<s>>]>>]>>
  \/ \E us \in UNION {[1..n -> ManifestUris] : n \in 0..2} :
       manifest = [i \in DOMAIN us |-> [Whole EXCEPT !.uri = us[i]]]

ManifestNext == UNCHANGED manifest

\* One description of a surface, taken by a manifest, by a dashboard template and
\* by the runtime: the first and last also know the catalog's components.
SurfacesAgree(s, keys) ==
  /\ TemplateSurface(s) <=> WellFormed(s)
  /\ ManifestSurface(s, keys) <=> WellFormed(s) /\ KnownOnly(s, keys)

\* What an accepted manifest promises holds where the App runs: the runtime takes
\* the components and the default surface it describes, a session can be sent to
\* a component only where the resource names the exact schemas of sessions, every
\* schema it names is one fixed version, and one URI names one resource.  The
\* three validators of surfaces (manifest, template, runtime) take the same ones.
ManifestHonest ==
  /\ \A i \in DOMAIN manifest :
       LET c == manifest[i].components IN
       c # <<>> /\ c[1].defaultSurface # <<>> => SurfacesAgree(c[1].defaultSurface[1], DOMAIN c[1].components)
  /\ ManifestAccepted(manifest) =>
    /\ Cardinality({manifest[i].uri : i \in DOMAIN manifest}) = Len(manifest)
    /\ \A i \in DOMAIN manifest :
         LET r == manifest[i] IN
         /\ r.components # <<>> =>
              /\ RegistryAccepts(r.components[1])
              /\ \A k \in DOMAIN r.components[1].components :
                   AcceptsApply(r.components[1].components[k]) => r.sessionSchemas # <<>>
         /\ \A list \in {<<r.resultSchemas>>, r.sessionSchemas} :
              list # <<>> => \A k \in DOMAIN list[1] : list[1][k] = [name |-> "plain", version |-> "exact"]
=============================================================================
