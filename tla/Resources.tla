----------------------------- MODULE Resources -----------------------------
(***************************************************************************)
(* The resources of an McpApp: registered one by one, in batches and as    *)
(* viewers, removed, announced as changed, listed and read                 *)
(* (registerResource to registerViewers, notifyResourceListChanged and     *)
(* readResourceForProtocol of packages/platform/src/mcp-app.ts), with the  *)
(* client that keeps a list of them: it opens a notification stream, lists *)
(* once it is acknowledged and again at each announcement.  Responses and  *)
(* notifications travel on connections of their own, in any order.         *)
(***************************************************************************)
EXTENDS Integers, Sequences, FiniteSets

CONSTANTS
  Uris,
  Batches,         \* sequences of [uri, definition, valid, handler] registered at once
  Unsized, AnyMime,
  Csp,             \* resourceCsp is configured
  CspBytes,        \* what its meta tag adds to a document
  MaxCommits       \* bound of the model: changes of the registry

ASSUME ResourcesAssumption ==
    /\ Csp \in BOOLEAN /\ CspBytes \in Nat \ {0}
    /\ \A batch \in Batches : batch \in Seq({batch[i] : i \in DOMAIN batch})

VARIABLES
  resources,   \* the registry: a function of the registered URIs
  installed,   \* resourceHandlersInstalled: the capability is advertised
  started,
  announced,   \* history: the notifications of the last call, and the URIs it had to commit together
  commits,
  stream,      \* the client's notification stream: "none" or "open"
  notices,     \* notifications under way to it
  asked,       \* the client's last list request, by number
  lists,       \* list requests and responses under way
  view,        \* the client's list, Stale before the first
  read         \* a read: "none", the definition its handler was called for, or its outcome

resourceVars == <<resources, installed, started, announced, commits, stream, notices, asked, lists, view, read>>
registry == <<resources, installed, started, announced, commits>>
client == <<stream, notices, asked, lists, view>>

Stale == {"stale"}
NoRead == [state |-> "none"]
Empty == [u \in {} |-> Unsized]
Quiet == [sent |-> 0, together |-> {}]

ResourcesInit ==
    /\ resources = Empty
    /\ installed \in BOOLEAN  \* options.expectResources
    /\ started = FALSE
    /\ announced = Quiet /\ commits = 0
    /\ stream = "none" /\ notices = 0
    /\ asked = 0 /\ lists = {} /\ view = Stale
    /\ read = NoRead

Registered == DOMAIN resources

\* What notifyResourceListChanged() sends, best effort, once a transport is up.
Announce(n, together) ==
    /\ announced' = [sent |-> IF started THEN n ELSE 0, together |-> together]
    /\ notices' = IF stream = "open" THEN notices + n ELSE notices

Put(entries) ==
    [u \in Registered \cup {e.uri : e \in entries} |->
        IF \E e \in entries : e.uri = u THEN (CHOOSE e \in entries : e.uri = u).definition ELSE resources[u]]

\* The first registration installs the handlers; after the start that is too late.
MayInstall == installed \/ ~started

Unchanged == UNCHANGED <<resources, installed, notices>> /\ announced' = Quiet

\* registerResource(): it throws, or it commits and announces the change.
RegisterResource(entry) ==
    /\ commits < MaxCommits /\ commits' = commits + 1
    /\ IF ~entry.valid \/ ~entry.handler \/ entry.uri \in Registered \/ ~MayInstall
       THEN Unchanged
       ELSE resources' = Put({entry}) /\ installed' = TRUE /\ Announce(1, {entry.uri})
    /\ UNCHANGED <<started, stream, asked, lists, view, read>>

UnregisterResource(uri) ==
    /\ commits < MaxCommits /\ commits' = commits + 1
    /\ uri \in Registered
    /\ resources' = [u \in Registered \ {uri} |-> resources[u]]
    /\ Announce(1, {})
    /\ UNCHANGED <<installed, started, stream, asked, lists, view, read>>

EntriesOf(batch) == {batch[i] : i \in DOMAIN batch}

\* What registerResources() checks before it commits anything.
BatchFails(batch) ==
    \/ \E e \in EntriesOf(batch) : ~e.handler \/ ~e.valid \/ e.uri \in Registered
    \/ \E i, j \in DOMAIN batch : i < j /\ batch[i].uri = batch[j].uri
    \/ ~MayInstall

\* Faulty: the entries are committed one by one until one fails.
RegisterResourcesOneByOne(batch) ==
    /\ commits < MaxCommits /\ commits' = commits + 1
    /\ LET good == {e \in EntriesOf(batch) : e.handler /\ e.valid /\ e.uri \notin Registered} IN
       IF batch = << >> \/ ~MayInstall \/ good = {} THEN Unchanged
       ELSE resources' = Put(good) /\ installed' = TRUE
            /\ Announce(1, {e.uri : e \in EntriesOf(batch)})
    /\ UNCHANGED <<started, stream, asked, lists, view, read>>

\* registerResources(): all of the batch and one announcement, or nothing.
RegisterResources(batch) ==
    /\ commits < MaxCommits /\ commits' = commits + 1
    /\ IF batch = << >> \/ BatchFails(batch) THEN Unchanged
       ELSE resources' = Put(EntriesOf(batch)) /\ installed' = TRUE /\ Announce(1, {e.uri : e \in EntriesOf(batch)})
    /\ UNCHANGED <<started, stream, asked, lists, view, read>>

\* The viewers of a batch that come before the first that cannot be registered.
\* A viewer that is not built (no handler) is skipped.
ViewersUpTo(batch) ==
    LET built == {i \in DOMAIN batch : batch[i].handler}
        stops == {i \in built : \/ batch[i].uri \in Registered \/ ~batch[i].valid
                                \/ \E j \in built : j < i /\ batch[j].uri = batch[i].uri}
    IN  {i \in built : \A j \in stops : i < j}

\* registerViewers(): each commits and announces itself; the first failure ends it.
RegisterViewers(batch) ==
    /\ commits < MaxCommits /\ commits' = commits + 1
    /\ LET committed == ViewersUpTo(batch) IN
       IF committed = {} \/ ~MayInstall THEN Unchanged
       ELSE resources' = Put({batch[i] : i \in committed}) /\ installed' = TRUE /\ Announce(Cardinality(committed), {})
    /\ UNCHANGED <<started, stream, asked, lists, view, read>>

Starts ==
    /\ ~started /\ started' = TRUE
    /\ announced' = Quiet
    /\ UNCHANGED <<resources, installed, commits, client, read>>

----------------------------------------------------------------------------
\* subscriptions/listen: the acknowledgement goes first, and the stream is registered with it.
OpenStream ==
    /\ started /\ stream = "none"
    /\ stream' = "open" /\ notices' = notices + 1
    /\ UNCHANGED <<registry, asked, lists, view, read>>

\* The acknowledgement and each notification make the client list again.
Notified ==
    /\ notices > 0
    /\ notices' = notices - 1
    /\ asked' = asked + 1
    /\ lists' = lists \cup {[number |-> asked + 1, of |-> Stale]}
    /\ UNCHANGED <<registry, stream, view, read>>

\* resources/list: toResourceListing() of every entry.
ListResources(request) ==
    /\ request \in lists /\ request.of = Stale
    /\ lists' = (lists \ {request}) \cup {[request EXCEPT !.of = Registered]}
    /\ UNCHANGED <<registry, stream, notices, asked, view, read>>

\* The client takes the answer to its latest request, and no other.
Listed(response) ==
    /\ response \in lists /\ response.of # Stale
    /\ lists' = lists \ {response}
    /\ view' = IF response.number = asked THEN response.of ELSE view
    /\ UNCHANGED <<registry, stream, notices, asked, read>>

----------------------------------------------------------------------------
\* resources/read: the entry is looked up, and its handler called.
StartRead(uri) ==
    /\ started /\ read = NoRead
    /\ uri \in Registered
    /\ read' = [state |-> "reading", uri |-> uri, definition |-> resources[uri]]
    /\ UNCHANGED <<registry, client>>

\* validateResourceContent(): against the entry that was looked up.
ValidContent(content, uri, definition) ==
    /\ content.uri = uri /\ content.wellFormed
    /\ definition.mime \in {AnyMime, content.mime}
    /\ definition.size \in {Unsized, content.size}

\* applyResourceCsp(): a meta tag in the text of an HTML document.
ApplyCsp(content) ==
    IF Csp /\ content.text /\ content.mime = "html" THEN [content EXCEPT !.size = @ + CspBytes] ELSE content

\* readResourceForProtocol(): checked as the handler returned it and as it is sent.
Served(content, uri, definition) ==
    IF ValidContent(content, uri, definition) /\ ValidContent(ApplyCsp(content), uri, definition)
    THEN [state |-> "served", definition |-> definition, uri |-> uri, content |-> ApplyCsp(content)]
    ELSE [state |-> "failed"]

Contents == [uri : Uris, wellFormed : BOOLEAN, mime : {"html", "text"}, text : BOOLEAN, size : {1, 2}]

EndRead ==
    /\ read.state = "reading"
    /\ \E content \in Contents : read' = Served(content, read.uri, read.definition)
    /\ UNCHANGED <<registry, client>>

NextRead ==
    /\ read.state \in {"served", "failed"}
    /\ read' = NoRead
    /\ UNCHANGED <<registry, client>>

ResourcesNext ==
    \/ \E batch \in Batches :
         \/ RegisterResources(batch) \/ RegisterViewers(batch)
         \/ \E e \in EntriesOf(batch) : RegisterResource(e)
    \/ \E uri \in Uris : UnregisterResource(uri) \/ StartRead(uri)
    \/ Starts \/ OpenStream \/ Notified \/ EndRead \/ NextRead
    \/ \E l \in lists : ListResources(l) \/ Listed(l)

----------------------------------------------------------------------------
(* CommitsAnnounced: a change of the registry is whole and announced: every    *)
(* step that changes what a started server offers announces it, no step        *)
(* announces anything else, and a failed batch has changed nothing; what is    *)
(* offered was advertised before the start (mcp-app.ts:1723).                  *)
CommitsAnnounced ==
    [][/\ (resources' # resources /\ started) <=> announced'.sent > 0
       /\ resources' # resources => announced'.together \subseteq DOMAIN resources'
       /\ resources' # Empty => installed'
       /\ started => installed' = installed
       /\ \A u \in Registered \cap DOMAIN resources' : resources'[u] = resources[u]]_<<resources, installed, announced, started>>

(* ListConverges: a client that opened its stream before it listed, and lists  *)
(* at each announcement, holds the registered resources once nothing is under  *)
(* way, in whatever order answers arrive (mcp-app.ts:1565, 3212).              *)
ListConverges ==
    stream = "open" /\ notices = 0 /\ lists = {} => view = Registered

(* ReadIsHonest: what a reader is given is what it asked for, of the type and  *)
(* of the size that the resource was listed with when the read began, whatever *)
(* was registered since or added on the way (mcp-app.ts:1461).                 *)
ReadIsHonest ==
    read.state = "served" =>
        /\ read.content.uri = read.uri
        /\ read.definition.mime \in {AnyMime, read.content.mime}
        /\ read.definition.size \in {Unsized, read.content.size}

(* ResourcesHonest: what a started server announces, lists and serves is what  *)
(* is registered, at every step and in the end (registerResources).            *)
ResourcesHonest == CommitsAnnounced /\ []ReadIsHonest /\ []ListConverges
=============================================================================
