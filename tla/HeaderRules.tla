---------------------------- MODULE HeaderRules ----------------------------
(***************************************************************************)
(* Which request headers a POST must carry, and what they must say: the    *)
(* encoding of a value as a header, the annotations of a tool's schema     *)
(* that ask for a parameter to be mirrored, and the comparison of headers  *)
(* and body (packages/platform/src/transport/request-headers.ts).          *)
(*                                                                         *)
(* A text is a sequence: <<"a">> is an atom, <<"b64", "a">> the text that  *)
(* has the shape of the base64 sentinel with the payload <<"a">>, and      *)
(* <<"b64">> a sentinel whose payload decodes to nothing.  The empty       *)
(* sequence is no text at all.                                             *)
(***************************************************************************)
EXTENDS Integers, Sequences

CONSTANTS
  UnsafeTexts,  \* atoms that may not travel as a field value
  Numerals,     \* what the texts that are numbers read as: Number(text)
  MaxSafe,      \* Number.MAX_SAFE_INTEGER
  TokenNames,   \* the header names that are HTTP tokens
  LowerCase     \* each header name in lower case

None == << >>
IsWrapped(text) == Head(text) = "b64"
Wrap(text) == <<"b64">> \o text

\* HEADER_SAFE_VALUE: a sentinel is ASCII, whatever it wraps.
HeaderSafe(text) == IsWrapped(text) \/ text \notin UnsafeTexts

\* A text that looks like a sentinel is encoded too, or it would be unwrapped.
EncodeHeaderValue(text) ==
    IF HeaderSafe(text) /\ ~IsWrapped(text) THEN text ELSE Wrap(text)

\* None when the sentinel's payload is not base64 of UTF-8.
DecodeHeaderValue(raw) == IF IsWrapped(raw) THEN Tail(raw) ELSE raw

----------------------------------------------------------------------------
\* Values of the body are records with a type; texts and numbers carry theirs,
\* and a number that is not an integer is none of these.
Undefined == [type |-> "undefined"]
IsRecord(value) == value.type = "object"
IsAbsent(value) == value.type \in {"undefined", "null"}

SafeInteger(n) == -MaxSafe <= n /\ n <= MaxSafe

\* Integers are compared as numbers, so that 42.0 is 42; out of the safe range
\* none is equal to another.  Booleans are compared as the texts they print as.
ValueMatches(text, value) ==
    IF value.type = "number"
    THEN /\ text \in DOMAIN Numerals
         /\ SafeInteger(value.number) /\ SafeInteger(Numerals[text])
         /\ Numerals[text] = value.number
    ELSE value.type \in {"string", "boolean"} /\ text = value.text

\* Own properties only.
Property(value, key) == IF IsRecord(value) /\ key \in DOMAIN value.fields THEN value.fields[key] ELSE Undefined

\* Down a chain of keys.
ReadAtPath(args, path) ==
    LET cursor[n \in 0..Len(path)] == IF n = 0 THEN args ELSE Property(cursor[n - 1], path[n])
    IN  cursor[Len(path)]

----------------------------------------------------------------------------
MirrorableTypes == {"string", "integer", "boolean"}

\* A schema is the sequence of the nodes that walk() meets, in its order: the schema
\* itself, and every property that properties keys alone lead to.  A node is [path,
\* header, type, hidden, ref]: path is the chain of those keys, header is "" when it
\* has no annotation, hidden counts the annotations below items, oneOf, $defs and the
\* other keywords a path cannot cross.
NothingFound == [params |-> << >>, invalid |-> 0]

\* What a path cannot cross, and a $ref.
Offends(found, node) ==
    [found EXCEPT !.invalid = @ + node.hidden + (IF node.ref /\ node.path # << >> THEN 1 ELSE 0)]

\* A property that is annotated; the schema itself is not looked at.
Annotate(found, node) ==
    IF node.path = << >> \/ node.header = "" THEN found
    ELSE IF \/ node.header \notin TokenNames
            \/ node.type \notin MirrorableTypes
            \/ \E i \in DOMAIN found.params : LowerCase[found.params[i].header] = LowerCase[node.header]
    THEN [found EXCEPT !.invalid = @ + 1]
    ELSE [found EXCEPT !.params = Append(@, [header |-> node.header, path |-> node.path])]

\* The parameters to mirror, and how many annotations are invalid.
CollectMirroredParams(schema) ==
    LET walk[n \in 0..Len(schema)] ==
            IF n = 0 THEN NothingFound
            ELSE Offends(Annotate(walk[n - 1], schema[n]), schema[n])
    IN  walk[Len(schema)]

\* A tool is registered only when all its annotations are valid.
Registrable(schema) == CollectMirroredParams(schema).invalid = 0

----------------------------------------------------------------------------
\* The body field that Mcp-Name mirrors, by method and never by what the body holds.
NameSource(method) ==
    IF method \in {"tools/call", "prompts/get"} THEN "name"
    ELSE IF method = "resources/read" THEN "uri"
    ELSE IF method \in {"tasks/get", "tasks/update", "tasks/cancel"} THEN "taskId"
    ELSE "none"

Fault(problem, header) == <<[problem |-> problem, header |-> header]>>

\* Header names are looked up whatever their case.
VersionHeader == <<"MCP-Protocol-Version">>
MethodHeader == <<"Mcp-Method">>
NameHeader == <<"Mcp-Name">>
ParamHeader(param) == <<"Mcp-Param", LowerCase[param.header]>>

\* The version and the method are compared as they are.
PlainFault(headers, header, expected) ==
    IF header \notin DOMAIN headers THEN Fault("missing_header", header)
    ELSE IF headers[header] # expected THEN Fault("header_body_mismatch", header)
    ELSE None

\* Faulty: a value that had to be encoded may come as it is.
EncodingFaultLenient(headers, header) ==
    IF header \notin DOMAIN headers THEN Fault("missing_header", header)
    ELSE IF DecodeHeaderValue(headers[header]) = None
    THEN Fault("malformed_encoding", header)
    ELSE None

\* What Mcp-Name and Mcp-Param-* have in common.
EncodingFault(headers, header) ==
    IF header \notin DOMAIN headers THEN Fault("missing_header", header)
    ELSE IF \/ DecodeHeaderValue(headers[header]) = None
            \/ ~IsWrapped(headers[header]) /\ ~HeaderSafe(headers[header])
    THEN Fault("malformed_encoding", header)
    ELSE None

NameFault(headers, method, params) ==
    LET field == NameSource(method)
        value == IF field \in DOMAIN params THEN params[field] ELSE Undefined
    IN  IF field = "none" THEN None
        ELSE IF EncodingFault(headers, NameHeader) # None THEN EncodingFault(headers, NameHeader)
        ELSE IF value.type # "string" THEN Fault("unmirrorable_body", NameHeader)
        ELSE IF DecodeHeaderValue(headers[NameHeader]) # value.text THEN Fault("header_body_mismatch", NameHeader)
        ELSE None

\* A header may not mirror an argument that is not there.
ParamFault(headers, param, args) ==
    LET header == ParamHeader(param)
        value == ReadAtPath(args, param.path)
    IN  IF IsAbsent(value)
        THEN IF header \in DOMAIN headers THEN Fault("header_body_mismatch", header) ELSE None
        ELSE IF EncodingFault(headers, header) # None THEN EncodingFault(headers, header)
        ELSE IF ~ValueMatches(DecodeHeaderValue(headers[header]), value) THEN Fault("header_body_mismatch", header)
        ELSE None

\* The rules are tried in order, and the first that fails is reported.
FirstFault(faults) ==
    IF \A i \in DOMAIN faults : faults[i] = None THEN None
    ELSE faults[CHOOSE i \in DOMAIN faults : faults[i] # None /\ \A j \in 1..i-1 : faults[j] = None]

\* None when the headers are accepted, else the first thing wrong with them.
ValidateRequestHeaders(headers, method, params, version, mirrored) ==
    LET args == IF "arguments" \in DOMAIN params /\ IsRecord(params["arguments"])
                THEN params["arguments"] ELSE [type |-> "object", fields |-> << >>]
    IN  FirstFault(<<PlainFault(headers, VersionHeader, version),
                     PlainFault(headers, MethodHeader, <<method>>),
                     NameFault(headers, method, params)>>
                   \o [i \in DOMAIN mirrored |-> ParamFault(headers, mirrored[i], args)])
=============================================================================
