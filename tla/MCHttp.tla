------------------------------- MODULE MCHttp -------------------------------
(* The HTTP surface of an McpApp, for TLC: the headers of a request case by    *)
(* case, requests from arrival to answer, the resources with a client that     *)
(* keeps a list of them, and the server below on Node.js.  One part runs in a   *)
(* behaviour, the others stay.                                                 *)
EXTENDS HeaderRules, HttpSurface, Resources, NodeServer, TLC

(* The rules of HeaderRules against what a client does that follows the        *)
(* protocol: a tool's schema, the name and the arguments of a request, and any *)
(* headers at all.                                                             *)
CONSTANTS
  HeaderSchemas,  \* schemas of the tool that is called
  BodyValues,     \* values of its first argument, and of the name
  InnerValues,    \* values of the argument below its second
  RawTexts,       \* field values a header may arrive with
  InnerTexts,     \* those of the header of the inner argument
  LooseNumerals   \* texts that Number() alone takes for numbers: empty, padded, hexadecimal

VARIABLE headerCase

IsList(s) == s \in Seq(Range(s))
IsText(t) == IsList(t) /\ t # None

\* What holds the text of a string is a text, and a field of an object is a value too.
InOrder(values) ==
    \A v \in values : /\ v.type \in {"string", "boolean"} => IsText(v.text)
                      /\ v.type = "object" => \A k \in DOMAIN v.fields : v.fields[k] \in values

ASSUME HeaderAssumption ==
    /\ \A s \in HeaderSchemas : IsList(s) /\ \A n \in DOMAIN s : IsList(s[n].path) /\ s[n].hidden \in Nat
    /\ \E s \in HeaderSchemas : Len(s) = 1
    /\ InOrder(BodyValues) /\ InOrder(InnerValues)
    /\ \A t \in RawTexts \cup InnerTexts \cup DOMAIN Numerals : IsText(t)

\* A header with one of these values, or no header.
Maybe(header, texts) == {[h \in {} |-> None]} \cup {[h \in {header} |-> t] : t \in texts}

Merge(f, g) == [h \in DOMAIN f \cup DOMAIN g |-> IF h \in DOMAIN f THEN f[h] ELSE g[h]]
Standard == [h \in {VersionHeader, MethodHeader} |-> IF h = VersionHeader THEN <<"v">> ELSE <<"m">>]

Object(fields) == [type |-> "object", fields |-> fields]

\* Any name under any Mcp-Name, for every kind of method; any arguments under any Mcp-Param-*.
NameCases ==
    [method : {"tools/call", "resources/read", "tasks/get", "tools/list"},
     schema : {CHOOSE s \in HeaderSchemas : Len(s) = 1},
     field : {"name", "uri", "taskId"}, value : BodyValues, args : {Object(<< >>)},
     headers : {Merge(Standard, h) : h \in Maybe(NameHeader, RawTexts)}]

ParamCases ==
    {[method |-> "tools/call", schema |-> schema, field |-> "name", value |-> [type |-> "string", text |-> <<"m">>],
      args |-> Object([k \in {"a", "b"} |-> IF k = "a" THEN a ELSE inner]),
      headers |-> Merge(Merge(Standard, [h \in {NameHeader} |-> <<"m">>]), Merge(ha, hc))] :
        schema \in HeaderSchemas, a \in BodyValues,
        inner \in {Object([k \in {"c"} |-> c]) : c \in InnerValues} \cup {Undefined},
        ha \in Maybe(<<"Mcp-Param", "h">>, RawTexts), hc \in Maybe(<<"Mcp-Param", "i">>, InnerTexts)}

HeaderCasesInit == headerCase \in NameCases \cup ParamCases

----------------------------------------------------------------------------
\* Every annotation a client finds on a chain of properties.
Annotations(schema) ==
    {[header |-> node.header, path |-> node.path] :
        node \in {schema[n] : n \in {i \in DOMAIN schema : schema[i].path # << >> /\ schema[i].header # ""}}}

\* The texts a client may print a value as (42 or 42.0), and the ways it may send a text.
Renderings(value) ==
    IF value.type \in {"string", "boolean"} THEN {value.text}
    ELSE IF value.type # "number" \/ ~SafeInteger(value.number) THEN {}
    ELSE {t \in DOMAIN Numerals \ LooseNumerals : Numerals[t] = value.number}

MayCarry(raw, value) == \E t \in Renderings(value) : raw \in {EncodeHeaderValue(t), Wrap(t)}

\* A number of the body under a text that is none to anybody but the server.
ReadLoosely(raw, value) == value.type = "number" /\ DecodeHeaderValue(raw) \in LooseNumerals

\* The headers mirror the body; those read loosely are passed over where that is excused.
Conforms(c, excused) ==
    LET field == NameSource(c.method) IN
    /\ field # "none" =>
         /\ field = c.field /\ c.value.type = "string"
         /\ NameHeader \in DOMAIN c.headers /\ MayCarry(c.headers[NameHeader], c.value)
    /\ c.method = "tools/call" =>
         \A p \in Annotations(c.schema) :
             LET value == ReadAtPath(c.args, p.path) IN
             IF IsAbsent(value) THEN ParamHeader(p) \notin DOMAIN c.headers
             ELSE LET raw == c.headers[ParamHeader(p)] IN
                  ParamHeader(p) \in DOMAIN c.headers /\ (MayCarry(raw, value) \/ (excused /\ ReadLoosely(raw, value)))

Mirrored(c) == IF c.method = "tools/call" THEN CollectMirroredParams(c.schema).params ELSE << >>

(* HeadersMirrorBody: for a tool that could be registered, a request whose     *)
(* headers are some that a client following the protocol sends for its body    *)
(* and the annotations it finds in the schema is let through, however its      *)
(* values are written; and no other, but one whose number is written as only   *)
(* Number() reads it.  Of those nothing is said: the code compares what        *)
(* Number() makes of them, an empty header with 0 (request-headers.ts:213).    *)
HeadersMirrorBody ==
    DOMAIN headerCase # {} /\ Registrable(headerCase.schema) =>
        LET c == headerCase
            accepted == ValidateRequestHeaders(
                [c.headers EXCEPT ![MethodHeader] = <<c.method>>], c.method,
                [f \in {c.field, "arguments"} |-> IF f = c.field THEN c.value ELSE c.args],
                <<"v">>, Mirrored(c)) = None
        IN  (Conforms(c, FALSE) => accepted) /\ (accepted => Conforms(c, TRUE))

-----------------------------------------------------------------------------
VARIABLE part

\* Schemas that mirror a parameter, two of them, one below another, or cannot.
Prop(path, header, type) == [path |-> path, header |-> header, type |-> type, hidden |-> 0, ref |-> FALSE]
Root == Prop(<< >>, "", "object")
Between == Prop(<<"b">>, "", "object")
Inner(header) == Prop(<<"b", "c">>, header, "integer")
Schemas ==
    {<<Root>>,
     <<Root, Prop(<<"a">>, "H", "string"), Between, Inner("i")>>,
     <<Root, Prop(<<"a">>, "h", "string"), Between, Inner("H")>>,
     <<Root, Prop(<<"a">>, "H", "number")>>,
     <<Root, Prop(<<"a">>, "no token", "string")>>,
     <<Root, [Between EXCEPT !.ref = TRUE], Inner("i")>>,
     <<[Root EXCEPT !.hidden = 1], Prop(<<"c">>, "i", "integer")>>,
     <<Root, Prop(<<"a">>, "H", "string"), Prop(<<"a", "c">>, "i", "integer"), Between, Inner("i")>>}

String(text) == [type |-> "string", text |-> text]
Number(n) == [type |-> "number", number |-> n]
Values == {[type |-> "null"], Object(<< >>), [type |-> "boolean", text |-> <<"true">>], Number(0), Number(1), Number(9)}
          \cup {String(t) : t \in {<<"x">>, <<"">>, <<"non-ascii">>, <<"b64", "x">>, <<"b64">>}}
Inners == {Undefined, [type |-> "null"], Number(1)}
Unsafe == {<<"non-ascii">>, <<" 1">>}
Raws == {<<"x">>, <<"">>, <<"non-ascii">>, <<"true">>, <<"1">>, <<"1.0">>, <<" 1">>, <<"8.0">>, <<"9">>, <<"b64">>,
         <<"b64", "x">>, <<"b64", "non-ascii">>, <<"b64", " 1">>, <<"b64", "b64">>, <<"b64", "b64", "x">>}
InnerRaws == {<<"1">>, <<"b64", "1">>, <<"2">>}
\* 9 is not a safe integer here, and neither is what reads as it.
Numbers == (<<"1">> :> 1) @@ (<<"1.0">> :> 1) @@ (<<" 1">> :> 1) @@ (<<"8.0">> :> 9) @@ (<<"9">> :> 9)
           @@ (<<"">> :> 0) @@ (<<"2">> :> 2)
Loose == {<<"">>, <<" 1">>}
Lower == ("H" :> "h") @@ ("h" :> "h") @@ ("i" :> "i") @@ ("no token" :> "no token")

Declared == {{}, {"tasks"}, {"elicitation"}, {"tasks", "elicitation", "elicitation.url", "sampling"}}
Shape(method, params) == [object |-> TRUE, method |-> method, params |-> params]
Ask == Shape("elicitation/create", "plain")
Visit == Shape("elicitation/create", "url")
Sample == Shape("sampling/createMessage", "tools")
Entry(live, wire) == [live |-> live, wire |-> wire]
Maps == {<< >>, <<Entry(Ask, Ask)>>, <<Entry(Ask, Visit)>>, <<Entry(Sample, Sample), Entry(Ask, Ask)>>, <<Entry(Ask, Dropped)>>,
         <<Entry(Shape("roots/list", "absent"), Shape("roots/list", "absent"))>>, <<Entry(Ask, Shape("other", "plain"))>>,
         <<Entry(Ask, Ask), Entry(Ask, Shape("elicitation/create", "absent"))>>}
AskedFor == [map : {"object"}, entries : Maps, state : BOOLEAN] \cup [map : {"not an object", "cyclic"}, entries : {<<Entry(Ask, Ask)>>}, state : {TRUE}]

Page(size) == [mime |-> "html", size |-> size]
Offer(uri, definition) == [uri |-> uri, definition |-> definition, valid |-> TRUE, handler |-> TRUE]
Invalid(uri) == [Offer(uri, Page(1)) EXCEPT !.valid = FALSE]
Unbuilt(uri) == [Offer(uri, Page(1)) EXCEPT !.handler = FALSE]
SomeBatches == {<<Offer("u1", Page(1))>>, <<Offer("u1", [mime |-> AnyMime, size |-> Unsized]), Offer("u2", Page(Unsized))>>,
                <<Offer("u2", Page(2)), Invalid("u1")>>, <<Offer("u2", Page(1)), Offer("u2", Page(2))>>,
                <<Unbuilt("u1"), Offer("u2", Page(1))>>}

MCInit ==
    /\ SurfaceInit /\ ResourcesInit /\ NodeInit
    /\ \/ part = "headers" /\ HeaderCasesInit
       \/ part \in {"surface", "lists", "reads", "server"} /\ headerCase = << >>
    /\ part \in {"headers", "surface", "server"} => installed
    /\ part # "surface" => config = [auth |-> FALSE, tasks |-> FALSE, hook |-> FALSE, stdio |-> FALSE]

MCNext ==
    /\ UNCHANGED <<part, headerCase>>
    /\ \/ part = "surface" /\ SurfaceNext /\ UNCHANGED <<resourceVars, nodeVars>>
       \/ part = "lists" /\ ResourcesNext /\ UNCHANGED <<surfaceVars, nodeVars, read>>
       \/ part = "reads" /\ ResourcesNext /\ UNCHANGED <<surfaceVars, nodeVars, client>>
       \/ part = "headers" /\ UNCHANGED <<surfaceVars, resourceVars, nodeVars>>
       \/ part = "server" /\ NodeNext /\ UNCHANGED <<surfaceVars, resourceVars>>

MCSpec == MCInit /\ [][MCNext]_<<part, headerCase, surfaceVars, resourceVars, nodeVars>>
=============================================================================
