----------------------------- MODULE OAuthClient -----------------------------
(* What a client of a protected server keeps of the authorization server, in   *)
(* three parts that share no state: the proxy for its metadata                 *)
(* (auth/as-metadata-proxy.ts), the provider that keeps its tokens             *)
(* (client-auth/provider.ts) and the server that waits for its code            *)
(* (client-auth/callback-server.ts).                                           *)
EXTENDS Integers, Sequences, FiniteSets

CONSTANTS
    CacheTtlMs,    \* cacheTtlMs of the metadata proxy
    FetchTimeout,  \* AbortSignal.timeout of a fetch
    MaxFetches,    \* bound on the fetches under way
    MaxAsTime,     \* bound on the clock, and on the versions upstream
    Clients,       \* the clients that share the token store
    Issuers,       \* the authorization servers
    NoIssuer,      \* no issuer is known
    MaxFlows,      \* bound on the steps that begin a flow
    MaxVisits      \* bound on what the browser asks for

ASSUME AsMetadataAssumption == CacheTtlMs \in Nat /\ FetchTimeout \in Nat /\ MaxFetches \in Nat /\ MaxAsTime \in Nat
ASSUME ClientAuthAssumption == NoIssuer \notin Issuers /\ MaxFlows \in Nat

-----------------------------------------------------------------------------
(* The metadata of the authorization server: a cache of one document, which a  *)
(* request that finds it stale serves while one fetch in the background renews *)
(* it, and for which the requests that find nothing wait, each with a fetch of *)
(* its own.                                                                    *)
VARIABLES
    asNow,       \* the clock
    published,   \* published[n]: when upstream published version n; the last is the current one
    metadata,    \* <<[version, fetchedAt]>>, or << >> before the first fetch
    refreshing,  \* the flag of the background fetch
    fetches,     \* the fetches under way: who waits, since when, and what upstream answered
    served       \* the last document served without a wait

asVars == <<asNow, published, metadata, refreshing, fetches, served>>

Nothing == << >>
Pending == -1
Failed == -2
Current == Cardinality(DOMAIN published)

AsInit ==
    /\ asNow = 0 /\ published = [v \in {1} |-> 0]
    /\ metadata = Nothing /\ refreshing = FALSE /\ fetches = {} /\ served = Nothing

\* Time passes, but no fetch outlives its timeout; upstream publishes.
AsTick ==
    /\ asNow < MaxAsTime
    /\ \A f \in fetches : asNow < f.since + FetchTimeout
    /\ asNow' = asNow + 1
    /\ UNCHANGED <<published, metadata, refreshing, fetches, served>>
Publish ==
    /\ Current < MaxAsTime
    /\ published' = [v \in 1..(Current + 1) |-> IF v \in DOMAIN published THEN published[v] ELSE asNow]
    /\ UNCHANGED <<asNow, metadata, refreshing, fetches, served>>

(* A GET: the document while it is fresh, a stale one with a fetch behind it   *)
(* unless one is under way, and a fetch to wait for when there is none.        *)
Fetch(n, background) == [id |-> n, since |-> asNow, background |-> background, body |-> Pending]
NewFetch(background) == \E n \in 1..MaxFetches : n \notin {f.id : f \in fetches} /\ fetches' = fetches \cup {Fetch(n, background)}
Fresh == asNow - metadata[1].fetchedAt < CacheTtlMs
Serve == served' = <<[version |-> metadata[1].version, at |-> asNow, renewing |-> \E f \in fetches' : f.background]>>
GetMetadata ==
    /\ UNCHANGED <<asNow, published, metadata>>
    /\ \/ metadata # Nothing /\ Fresh /\ UNCHANGED <<refreshing, fetches>> /\ Serve
       \/ metadata # Nothing /\ ~Fresh /\ refreshing /\ UNCHANGED <<refreshing, fetches>> /\ Serve
       \/ metadata # Nothing /\ ~Fresh /\ ~refreshing /\ refreshing' = TRUE /\ NewFetch(TRUE) /\ Serve
       \/ metadata = Nothing /\ NewFetch(FALSE) /\ UNCHANGED <<refreshing, served>>

(* Upstream answers a fetch with its current document, or with none that is    *)
(* one: not ok, no JSON object, no issuer.                                     *)
UpstreamAnswers(f) ==
    /\ f.body = Pending
    /\ \E body \in {Current, Failed} : fetches' = (fetches \ {f}) \cup {[f EXCEPT !.body = body]}
    /\ UNCHANGED <<asNow, published, metadata, refreshing, served>>

(* The fetch ends: with its document, or failed, which a timeout also is.  One *)
(* in the background is fresh from now, one that was waited for from when it   *)
(* was asked for.                                                              *)
Settled(f) == refreshing' = IF f.background THEN FALSE ELSE refreshing
FetchEnds(f) ==
    /\ UNCHANGED <<asNow, published, served>>
    /\ fetches' = fetches \ {f}
    /\ Settled(f)
    /\ \/ /\ f.body \in DOMAIN published
          /\ metadata' = <<[version |-> f.body, fetchedAt |-> IF f.background THEN asNow ELSE f.since]>>
       \/ (f.body = Failed \/ asNow = f.since + FetchTimeout) /\ UNCHANGED metadata

AsNext == AsTick \/ Publish \/ GetMetadata \/ \E f \in fetches : UpstreamAnswers(f) \/ FetchEnds(f)

-----------------------------------------------------------------------------
\* Was this version the current one upstream at some time since?
CurrentSince(v, t) == v = Current \/ published[v + 1] >= t

(* A document served while nothing renews it was upstream's no longer ago than *)
(* the time to live and one fetch: a failed renewal neither extends the life of *)
(* the old document nor keeps the next request from trying again, and there is *)
(* never more than one renewal (as-metadata-proxy.ts:227-257).                 *)
FreshMeansRecent ==
    /\ served # Nothing /\ ~served[1].renewing => CurrentSince(served[1].version, served[1].at - CacheTtlMs - FetchTimeout)
    /\ Cardinality({f \in fetches : f.background}) <= 1

-----------------------------------------------------------------------------
(* The provider, under the authorization flow of the MCP SDK that calls it,    *)
(* with a token store that other clients of the same server share.  Every      *)
(* access to the store is an await, and the server may name another            *)
(* authorization server at any time.  A refresh token is known by the          *)
(* authorization server that issued it.  Each client runs one flow at a time;  *)
(* its transport reads tokens beside it.                                       *)
VARIABLES
    advertised,     \* the authorization server that the MCP server names
    credentials,    \* the record in the store: << >>, or <<[the issuer it is bound to, a refresh token if any]>>
    currentIssuer,  \* [Clients -> _currentIssuer]
    flow,           \* [Clients -> the authorization flow]
    reading,        \* [Clients -> << >> or <<what its transport has read and not yet judged>>]
    refreshSent,    \* the refresh tokens that were sent, by who issued them and to whom
    flows           \* flows begun

clientVars == <<advertised, credentials, currentIssuer, flow, reading, refreshSent, flows>>

NoRecord == << >>
NoRefresh == << >>
NoFlow == [at |-> "idle", to |-> NoIssuer, read |-> NoRecord, granted |-> NoRefresh, code |-> NoIssuer]
NotReading == << >>

\* The store may hold a record of an earlier session, or of one before issuers were recorded.
ClientAuthInit ==
    /\ advertised \in Issuers
    /\ credentials \in {NoRecord} \cup {<<[issuer |-> NoIssuer, refresh |-> <<i>>]>> : i \in Issuers} \cup {<<[issuer |-> i, refresh |-> <<i>>]>> : i \in Issuers}
    /\ currentIssuer = [c \in Clients |-> NoIssuer]
    /\ flow = [c \in Clients |-> NoFlow]
    /\ reading = [c \in Clients |-> NotReading]
    /\ refreshSent = {} /\ flows = 0

Moves(c, from, call) == flow[c].at = from /\ flow' = [flow EXCEPT ![c] = call]

\* The MCP server names another authorization server.
Moved == advertised' \in Issuers \ {advertised}
         /\ UNCHANGED <<credentials, currentIssuer, flow, reading, refreshSent, flows>>

(* A flow discovers the authorization server and tells the provider, which     *)
(* binds itself to where it was found, whatever the server claims of itself.   *)
SaveDiscoveryState(c) ==
    /\ flows < MaxFlows
    /\ flows' = flows + 1
    /\ Moves(c, "idle", [flow[c] EXCEPT !.at = "discovered", !.to = advertised])
    /\ currentIssuer' = [currentIssuer EXCEPT ![c] = advertised]
    /\ UNCHANGED <<advertised, credentials, reading, refreshSent>>

(* With a code from the browser the flow exchanges it, where only its own      *)
(* authorization server takes it; without one it asks for the tokens.          *)
Exchange(c) ==
    LET call == flow[c]
    IN  /\ call.code # NoIssuer
        /\ \/ call.code = call.to /\ \E refresh \in {NoRefresh, <<call.to>>} :
                 Moves(c, "discovered", [flow[c] EXCEPT !.at = "saving", !.granted = refresh, !.code = NoIssuer])
           \/ Moves(c, "discovered", NoFlow)
        /\ UNCHANGED <<advertised, credentials, currentIssuer, reading, refreshSent, flows>>
AskTokens(c) ==
    /\ flow[c].code = NoIssuer
    /\ Moves(c, "discovered", [flow[c] EXCEPT !.at = "read", !.read = credentials])
    /\ UNCHANGED <<advertised, credentials, currentIssuer, reading, refreshSent, flows>>

(* tokens(): a record is good for the current issuer if it is bound to it; any   *)
(* other is discarded, and so is one that says nothing of its issuer.          *)
Usable(c, record) == currentIssuer[c] = NoIssuer \/ record[1].issuer = currentIssuer[c]
Judge(c) ==
    LET record == flow[c].read
    IN  /\ UNCHANGED <<advertised, currentIssuer, reading, refreshSent, flows>>
        /\ \/ record = NoRecord /\ Moves(c, "read", [flow[c] EXCEPT !.at = "authorizing"]) /\ UNCHANGED credentials
           \/ /\ record # NoRecord
              /\ IF Usable(c, record)
                 THEN /\ Moves(c, "read", [flow[c] EXCEPT !.at = IF record[1].refresh = NoRefresh THEN "authorizing" ELSE "refreshing"])
                      /\ UNCHANGED credentials
                 ELSE Moves(c, "read", [flow[c] EXCEPT !.at = "authorizing"]) /\ credentials' = NoRecord

(* The flow refreshes: it gets new tokens, with a new refresh token or not; is *)
(* told that the grant or the client is invalid, which discards the tokens or  *)
(* everything, and begins again; or fails and asks the user.                   *)
InvalidateCredentials(c, scope) ==
    /\ credentials' = IF scope \in {"all", "tokens"} THEN NoRecord ELSE credentials
    /\ currentIssuer' = IF scope \in {"all", "discovery"} THEN [currentIssuer EXCEPT ![c] = NoIssuer] ELSE currentIssuer
Refresh(c) ==
    LET call == flow[c]
    IN  /\ call.at = "refreshing"
        /\ refreshSent' = refreshSent \cup {[of |-> call.read[1].refresh[1], to |-> call.to]}
        /\ UNCHANGED <<advertised, reading, flows>>
        /\ \/ /\ \E refresh \in {NoRefresh, <<call.to>>} : Moves(c, "refreshing", [flow[c] EXCEPT !.at = "saving", !.granted = refresh])
              /\ UNCHANGED <<credentials, currentIssuer>>
           \/ \E scope \in {"all", "tokens"} : Moves(c, "refreshing", NoFlow) /\ InvalidateCredentials(c, scope)
           \/ Moves(c, "refreshing", [flow[c] EXCEPT !.at = "authorizing"]) /\ UNCHANGED <<credentials, currentIssuer>>

\* The user authorizes in the browser, or does not.
RedirectToAuthorization(c) ==
    /\ \E given \in {NoIssuer, flow[c].to} : Moves(c, "authorizing", [NoFlow EXCEPT !.code = given])
    /\ UNCHANGED <<advertised, credentials, currentIssuer, reading, refreshSent, flows>>

(* saveTokens: it reads the record that is there, for the refresh token that an*)
(* answer without one leaves in force, and then writes its own.                *)
SaveReads(c) ==
    /\ Moves(c, "saving", [flow[c] EXCEPT !.at = "merging", !.read = credentials])
    /\ UNCHANGED <<advertised, credentials, currentIssuer, reading, refreshSent, flows>>
\* Faulty: any record passes its refresh token on.
InheritableAny(c, record) == record # NoRecord
Inheritable(c, record) ==
    record # NoRecord /\ record[1].issuer # NoIssuer /\ currentIssuer[c] # NoIssuer /\ record[1].issuer = currentIssuer[c]
Kept(c) ==
    LET call == flow[c]
    IN  IF call.granted = NoRefresh /\ Inheritable(c, call.read) THEN call.read[1].refresh ELSE call.granted
SaveWrites(c) ==
    /\ Moves(c, "merging", NoFlow)
    /\ credentials' = <<[issuer |-> currentIssuer[c], refresh |-> Kept(c)]>>
    /\ UNCHANGED <<advertised, currentIssuer, reading, refreshSent, flows>>

(* The transport reads the tokens for the header of a request, at any time, and*)
(* discards what it finds unusable by then.                                    *)
TransportReads(c) ==
    /\ reading[c] = NotReading /\ reading' = [reading EXCEPT ![c] = <<credentials>>]
    /\ UNCHANGED <<advertised, credentials, currentIssuer, flow, refreshSent, flows>>
TransportJudges(c) ==
    LET record == reading[c][1]
    IN  /\ reading[c] # NotReading
        /\ reading' = [reading EXCEPT ![c] = NotReading]
        /\ credentials' = IF record = NoRecord THEN credentials ELSE IF Usable(c, record) THEN credentials ELSE NoRecord
        /\ UNCHANGED <<advertised, currentIssuer, flow, refreshSent, flows>>

ClientAuthNext ==
    \/ Moved
    \/ \E c \in Clients :
          \/ SaveDiscoveryState(c) \/ Exchange(c) \/ AskTokens(c) \/ Judge(c) \/ Refresh(c)
          \/ RedirectToAuthorization(c) \/ SaveReads(c) \/ SaveWrites(c) \/ TransportReads(c) \/ TransportJudges(c)

-----------------------------------------------------------------------------
(* A refresh token goes back to the authorization server that issued it and to *)
(* no other, and the record of the store names that one: through a server that *)
(* changes its authorization server, answers without a refresh token, records  *)
(* without an issuer, and other clients that write the store in between        *)
(* (provider.ts:195-262).                                                      *)
RefreshTokenHome ==
    /\ \A sent \in refreshSent : sent.of = sent.to
    /\ credentials # NoRecord =>
          (credentials[1].refresh # NoRefresh /\ credentials[1].issuer # NoIssuer => credentials[1].refresh[1] = credentials[1].issuer)

-----------------------------------------------------------------------------
\* The proxy and the provider, side by side.
OAuthInit == AsInit /\ ClientAuthInit
OAuthNext == (AsNext /\ UNCHANGED clientVars) \/ (ClientAuthNext /\ UNCHANGED asVars)
OAuthSpec == OAuthInit /\ [][OAuthNext]_<<asVars, clientVars>>

(* What is kept of an authorization server, its metadata and its refresh       *)
(* tokens, is recent and goes to no other (as-metadata-proxy.ts, provider.ts). *)
KeptOfIssuer == FreshMeansRecent /\ RefreshTokenHome

-----------------------------------------------------------------------------
(* The callback server: it binds a port, answers the browser, hands the first  *)
(* code to its caller and releases the port, on the code, on its timeout, or   *)
(* when its caller closes it.  A close waits for the server to shut down, and  *)
(* the others may come again meanwhile.                                        *)
VARIABLES
    callbackServer,  \* "none", "binding", "listening", "stopping"
    starting,        \* "idle", "pending", "ok" or "failed": the promise of start()
    timeout,         \* is the timer of the whole flow set?
    closers,         \* timers that will close the server: "tracked" by closeTimerId or "lost"
    code,            \* the promise of the code: "pending", "code" or "timeout"
    abandoned,       \* did the caller close it?
    visits

callbackVars == <<callbackServer, starting, timeout, closers, code, abandoned, visits>>

CallbackInit ==
    /\ callbackServer = "none" /\ starting = "idle" /\ timeout = FALSE /\ closers = {} /\ code = "pending"
    /\ abandoned = FALSE /\ visits = 0

(* start: the timer first, then the server; it may fail at once.               *)
StartCallback ==
    /\ starting = "idle"
    /\ UNCHANGED <<closers, code, abandoned, visits>>
    /\ \/ callbackServer' = "binding" /\ timeout' = TRUE /\ starting' = "pending"
       \/ starting' = "failed" /\ UNCHANGED <<callbackServer, timeout>>
Bound ==
    /\ callbackServer = "binding"
    /\ callbackServer' = "listening" /\ starting' = "ok"
    /\ UNCHANGED <<timeout, closers, code, abandoned, visits>>
BindFails ==
    /\ callbackServer = "binding" /\ starting = "pending"
    /\ callbackServer' = "stopping" /\ starting' = "failed"
    /\ timeout' = FALSE /\ closers' = {c \in closers : c = "lost"}
    /\ UNCHANGED <<code, abandoned, visits>>

(* The browser comes with a code, also while the server shuts down, and again. *)
(* Each time a timer is set to close the server, and only the last is known.   *)
\* Faulty: the timeout is cleared and nothing else will close the server.
CodeArrivesUnclosed ==
    /\ callbackServer \in {"listening", "stopping"} /\ starting = "ok" /\ visits < MaxVisits
    /\ visits' = visits + 1
    /\ timeout' = FALSE
    /\ code' = IF code = "pending" THEN "code" ELSE code
    /\ UNCHANGED <<callbackServer, starting, closers, abandoned>>
CodeArrives ==
    /\ callbackServer \in {"listening", "stopping"} /\ starting = "ok" /\ visits < MaxVisits
    /\ visits' = visits + 1
    /\ timeout' = FALSE
    /\ code' = IF code = "pending" THEN "code" ELSE code
    /\ closers' = {IF c = "tracked" THEN "lost" ELSE c : c \in closers} \cup {"tracked"}
    /\ UNCHANGED <<callbackServer, starting, abandoned>>

\* close: the timers it knows, and the server if there is one.
Close ==
    /\ timeout' = FALSE
    /\ callbackServer' = IF callbackServer = "none" THEN "none" ELSE "stopping"
TimesOut ==
    /\ timeout
    /\ code' = IF code = "pending" THEN "timeout" ELSE code
    /\ Close /\ closers' = closers \ {"tracked"}
    /\ UNCHANGED <<starting, abandoned, visits>>
CloserFires ==
    /\ \E c \in closers : closers' = IF c = "tracked" THEN closers \ {c} ELSE closers \ {c, "tracked"}
    /\ Close
    /\ UNCHANGED <<starting, code, abandoned, visits>>
CallerCloses ==
    /\ starting = "ok" /\ ~abandoned
    /\ abandoned' = TRUE
    /\ Close /\ closers' = closers \ {"tracked"}
    /\ UNCHANGED <<starting, code, visits>>
ShutDown ==
    /\ callbackServer = "stopping"
    /\ callbackServer' = "none"
    /\ UNCHANGED <<starting, timeout, closers, code, abandoned, visits>>

CallbackNext ==
    \/ StartCallback \/ Bound \/ BindFails \/ CodeArrives \/ TimesOut \/ CloserFires \/ CallerCloses \/ ShutDown

\* Timers fire, a bind succeeds or fails, and a shutdown ends; the browser owes nothing.
CallbackFairness ==
    /\ WF_callbackVars(TimesOut) /\ WF_callbackVars(CloserFires) /\ WF_callbackVars(Bound \/ BindFails)
    /\ WF_callbackVars(ShutDown)

-----------------------------------------------------------------------------
(* A callback server that came up releases its port, and unless its own caller *)
(* closed it before, the caller learns of a code or of a timeout.              *)
PortReleased == starting = "ok" ~> (callbackServer = "none" /\ (abandoned \/ code # "pending"))
=============================================================================
