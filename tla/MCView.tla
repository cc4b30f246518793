------------------------------- MODULE MCView -------------------------------
(* The parts of the view packages, for TLC: an app with a vanilla and a React   *)
(* view, an App of component surfaces, the event client, and the manifests case *)
(* by case.  One part runs in a behaviour; the others stay where they began.    *)
EXTENDS ViewApp, SurfaceApp, EventClient, FiniteSets, TLC

VARIABLE part

Declared == ("list" :> {}) @@ ("detail" :> {"save"})

\* A surface of two components, one with an id twice, one with a foreign component.
Item(i, c) == [id |-> i, component |-> c]
HostSurfaces ==
  ("two" :> [layout |-> "stack", columns |-> 0, components |-> <<Item("a", "k"), Item("b", "k")>>]) @@
  ("dup" :> [layout |-> "grid", columns |-> 2, components |-> <<Item("a", "k"), Item("a", "k")>>]) @@
  ("foreign" :> [layout |-> "row", columns |-> 0, components |-> <<Item("a", "k"), Item("b", "z")>>])
Host(t, l, s) == [theme |-> t, locale |-> l, surface |-> s]
FirstHost == Host("light", "en", "none")
HostChanges == {FirstHost, Host("dark", "en", "none"), Host("light", "fr", "none"),
                Host("light", "en", "dup"), Host("light", "en", "foreign")}
HostResults == {[structured |-> <<"d1">>, blocks |-> <<>>], [structured |-> <<>>, blocks |-> <<"words", "d2">>]}

ActionsOfSubs == ("sub1" :> "mark") @@ ("sub2" :> "mark") @@ ("sub3" :> "show")

Schema(n, v) == [name |-> n, version |-> v]
SomeSchemas == {<<>>, <<Schema("plain", "exact")>>, <<Schema("alias", "exact")>>, <<Schema("plain", "loose")>>,
                <<Schema("plain", "exact"), Schema("plain", "exact")>>}
SomeActions == {<<>>, <<Apply>>, <<"x">>, <<Apply, "x">>, <<"x", "x">>, <<"">>}
SomePorts == {<<>>, <<Apply>>, <<"x">>, <<"x", "x">>}
SomeLayouts == {[layout |-> "stack", columns |-> 0], [layout |-> "stack", columns |-> 2], [layout |-> "grid", columns |-> 12],
                [layout |-> "grid", columns |-> 13], [layout |-> "heap", columns |-> 0]}
SomeUris == {"u", "v", "ui://latest"}

MCInit ==
  /\ ViewInit /\ SurfaceInit /\ EventInit /\ hostContext = Context(FirstHost, 0)
  /\ \/ part = "manifest" /\ ManifestInit
     \/ part \in {"view", "surface", "events"} /\ manifest = <<>>

MCNext ==
  /\ UNCHANGED part
  /\ \/ part = "view" /\ ViewNext /\ UNCHANGED <<surfaceVars, eventVars, manifest>>
     \/ part = "surface" /\ SurfaceNext /\ UNCHANGED <<viewVars, eventVars, manifest>>
     \/ part = "events" /\ EventNext /\ UNCHANGED <<viewVars, surfaceVars, manifest>>
     \/ part = "manifest" /\ ManifestNext /\ UNCHANGED <<viewVars, surfaceVars, eventVars>>

ViewRuns == Progress /\ UNCHANGED <<surfaceVars, eventVars, manifest, part>>

MCSpec == MCInit /\ [][MCNext]_<<viewVars, surfaceVars, eventVars, manifest, part>> /\ WF_viewVars(ViewRuns)
=============================================================================
