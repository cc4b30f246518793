-------------------------------- MODULE Auth --------------------------------
(* From the bearer token of a request to the handler it may run: the JWT       *)
(* provider with its cache of verified tokens (auth/jwt-provider.ts), the auth *)
(* middleware (auth/middleware.ts), the tenant middleware an application puts  *)
(* behind it (auth/multi-tenant-middleware.ts) and the scope middleware        *)
(* (auth/scope-middleware.ts).                                                 *)
(*                                                                             *)
(* A request is read by several awaits: the hash of its token, the check of    *)
(* the signature, the resolver of the tenant, the audit hook.  Other requests, *)
(* the clock and the keys of the authorization server move between them.  The  *)
(* code between two awaits is one step and takes no time.                      *)
EXTENDS Integers, Sequences, FiniteSets, SequencesExt

CONSTANTS
    Tokens,        \* the bearer tokens that clients present
    Signer,        \* [Tokens -> keys]: the key a token was signed with
    Expiry,        \* [Tokens -> Nat]: its exp claim, NoExpiry when it has none
    NoExpiry,      \* later than every time
    Granted,       \* [Tokens -> SUBSET scopes]: its scopes
    TenantOf,      \* [Tokens -> what the resolver makes of it]: a tenant or one of NoTenant
    NoTenant,      \* {refused, empty, throws}
    Required,      \* the scopes the called tool requires
    Hook,          \* is there an audit hook for refused tenants?
    CacheTtl,      \* DEFAULT_CACHE_TTL_MS
    MaxCacheSize,  \* MAX_CACHE_SIZE
    KeySetAge,     \* how long createRemoteJWKSet uses the keys it fetched
    KeyRest,       \* how long it does not fetch them again for a key it misses
    KeyTimeout,    \* how long it waits for them
    Requests,      \* the requests of a behaviour
    MaxTime        \* bound on the clock

NoToken == "no token"
Untenanted == "no tenant"

ASSUME AuthAssumption ==
    /\ NoToken \notin Tokens /\ Untenanted \notin {TenantOf[t] : t \in Tokens}
    /\ CacheTtl \in Nat \ {0} /\ MaxCacheSize \in Nat \ {0} /\ {KeySetAge, KeyRest, KeyTimeout, MaxTime} \subseteq Nat
    /\ Signer \in [Tokens -> {Signer[t] : t \in Tokens}]
    /\ \A t \in Tokens : Expiry[t] \in Nat /\ Expiry[t] <= NoExpiry
    /\ NoExpiry \in Nat /\ NoExpiry > MaxTime

VARIABLES
    authNow,     \* the clock
    withdrawn,   \* [keys -> when the authorization server withdrew it], NoExpiry while it stands
    keySet,      \* the keys the provider holds, and how long it goes by them
    keyFetch,    \* its request for them
    tokenCache,  \* the entries of the cache, oldest insertion first
    authCalls,   \* [Requests -> how far it has come]
    guarded,     \* does the server have an auth provider?
    tenanted     \* does its application use the tenant middleware?

authVars == <<authNow, withdrawn, keySet, keyFetch, tokenCache, authCalls, guarded, tenanted>>

NoInfo == [subject |-> NoToken, scopes |-> {}, tenant |-> Untenanted]
Keys == {Signer[t] : t \in Tokens}
MinOf(a, b) == IF a <= b THEN a ELSE b

NoFetch == [at |-> "none", keys |-> {}, until |-> 0]
Reply(error, scopes) == [error |-> error, scopes |-> scopes]
NewCall == [at |-> "idle", token |-> NoToken, stdio |-> FALSE, info |-> NoInfo, since |-> 0, audited |-> "no",
            answer |-> Reply("none", {})]
AuthInit ==
    /\ authNow = 0
    /\ withdrawn = [k \in Keys |-> NoExpiry]
    /\ keySet = [keys |-> {}, freshUntil |-> 0, restUntil |-> 0] /\ keyFetch = NoFetch
    /\ tokenCache = << >>
    /\ authCalls = [r \in Requests |-> NewCall]
    /\ guarded \in BOOLEAN /\ tenanted \in BOOLEAN

Step(r, from, call) == authCalls[r].at = from /\ authCalls' = [authCalls EXCEPT ![r] = call]
MovedTo(r, to) == [authCalls[r] EXCEPT !.at = to]
Refuse(r, from, error, scopes) == Step(r, from, [MovedTo(r, "answered") EXCEPT !.answer = Reply(error, scopes)])

\* The clock moves, and the authorization server withdraws a key.
Tick ==
    /\ authNow < MaxTime
    /\ keyFetch.at # "none" => authNow < keyFetch.until
    /\ authNow' = authNow + 1
    /\ UNCHANGED <<withdrawn, keySet, keyFetch, tokenCache, authCalls, guarded, tenanted>>
Withdraw(k) ==
    /\ withdrawn[k] = NoExpiry
    /\ withdrawn' = [withdrawn EXCEPT ![k] = authNow]
    /\ UNCHANGED <<authNow, keySet, keyFetch, tokenCache, authCalls, guarded, tenanted>>

(* A request comes in: over stdio without authentication, over HTTP with its   *)
(* token or with none; a server without a provider does not look at it.        *)
ExtractBearerToken(r) ==
    /\ UNCHANGED <<authNow, withdrawn, keySet, keyFetch, tokenCache, guarded, tenanted>>
    /\ \/ Step(r, "idle", [MovedTo(r, "piped") EXCEPT !.stdio = TRUE])
       \/ ~guarded /\ Step(r, "idle", MovedTo(r, "piped"))
       \/ guarded /\ Refuse(r, "idle", "missing_token", {})
       \/ guarded /\ \E t \in Tokens : Step(r, "idle", [MovedTo(r, "hashing") EXCEPT !.token = t])

(* verifyToken: the cache answers while its entry lasts, and an entry that no  *)
(* longer does is dropped.                                                     *)
Entries(t) == {i \in DOMAIN tokenCache : tokenCache[i].token = t}
Without(t) == IF Entries(t) = {} THEN tokenCache ELSE RemoveAt(tokenCache, CHOOSE i \in Entries(t) : TRUE)
Admitted(r, info) == [MovedTo(r, "piped") EXCEPT !.info = info, !.since = authNow]
CachedFor(t) == {i \in Entries(t) : authNow < tokenCache[i].expiresAt}
LookUp(r) ==
    LET t == authCalls[r].token
    IN  /\ UNCHANGED <<authNow, withdrawn, keySet, keyFetch, guarded, tenanted>>
        /\ \/ \E i \in CachedFor(t) : Step(r, "hashing", Admitted(r, tokenCache[i].info)) /\ UNCHANGED tokenCache
           \/ CachedFor(t) = {} /\ Step(r, "hashing", MovedTo(r, "verifying")) /\ tokenCache' = Without(t)

(* createRemoteJWKSet: the keys of the authorization server are fetched when   *)
(* none are held or those held are too old, and for a key that is not among    *)
(* them unless they were fetched just now; calls share one request.  It ends   *)
(* in time: the keys that stood when it was answered are held, or those before.*)
KeysFresh == authNow < keySet.freshUntil
FetchKeys(r) ==
    LET call == authCalls[r]
    IN  /\ call.at = "verifying" /\ keyFetch.at = "none"
        /\ ~KeysFresh \/ (Signer[call.token] \notin keySet.keys /\ authNow >= keySet.restUntil)
        /\ keyFetch' = [at |-> "asked", keys |-> {}, until |-> authNow + KeyTimeout]
        /\ UNCHANGED <<authNow, withdrawn, keySet, tokenCache, authCalls, guarded, tenanted>>
ServeKeys ==
    /\ keyFetch.at = "asked"
    /\ keyFetch' = [keyFetch EXCEPT !.at = "answered", !.keys = {k \in Keys : withdrawn[k] = NoExpiry}]
    /\ UNCHANGED <<authNow, withdrawn, keySet, tokenCache, authCalls, guarded, tenanted>>
ReceiveKeys ==
    /\ keyFetch.at = "answered"
    /\ keySet' = [keys |-> keyFetch.keys, freshUntil |-> authNow + KeySetAge, restUntil |-> authNow + KeyRest]
    /\ keyFetch' = NoFetch
    /\ UNCHANGED <<authNow, withdrawn, tokenCache, authCalls, guarded, tenanted>>
FetchFails ==
    /\ keyFetch.at # "none" /\ keyFetch' = NoFetch
    /\ UNCHANGED <<authNow, withdrawn, keySet, tokenCache, authCalls, guarded, tenanted>>

(* jwtVerify has an answer: the key is among those held, and the token has not *)
(* expired.  It may also not have reached the keys, which reads as a token it  *)
(* refuses.                                                                    *)
InfoOf(t) == [subject |-> t, scopes |-> Granted[t], tenant |-> Untenanted]
Verifies(t) == KeysFresh /\ Signer[t] \in keySet.keys /\ authNow < Expiry[t]
\* Faulty: the cache keeps a token for its own time, whatever its expiry.
LifetimeFixed(t) == CacheTtl
Lifetime(t) == MinOf(IF Expiry[t] = NoExpiry THEN CacheTtl ELSE Expiry[t] - authNow, CacheTtl)
Roomy == IF Len(tokenCache) >= MaxCacheSize THEN Tail(tokenCache) ELSE tokenCache
Stored(t) ==
    LET entry == [token |-> t, info |-> InfoOf(t), expiresAt |-> authNow + Lifetime(t)]
        at == {i \in DOMAIN Roomy : Roomy[i].token = t}
    IN  IF at = {} THEN Append(Roomy, entry) ELSE [i \in DOMAIN Roomy |-> IF i \in at THEN entry ELSE Roomy[i]]
Verified(r) ==
    LET t == authCalls[r].token
    IN  /\ UNCHANGED <<authNow, withdrawn, keySet, keyFetch, guarded, tenanted>>
        /\ \/ /\ Step(r, "verifying", Admitted(r, InfoOf(t)))
              /\ Verifies(t)
              /\ tokenCache' = Stored(t)
           \/ Refuse(r, "verifying", "invalid_token", {}) /\ UNCHANGED tokenCache

(* The tenant middleware: a call over stdio has no tenant, one that nobody     *)
(* authenticated is a fault of the set-up, any other waits for the resolver.   *)
(* A refusal is told to the audit hook first, whether the hook fails or not,   *)
(* and says no more than that the token is invalid.                            *)
RejectWithAudit(r) ==
    IF Hook THEN Step(r, "piped", MovedTo(r, "auditing")) ELSE Refuse(r, "piped", "invalid_token", {})
TenantFound(r) == [MovedTo(r, "tenanted") EXCEPT !.info = [@ EXCEPT !.tenant = TenantOf[authCalls[r].token]]]
ResolveTenant(r) ==
    LET call == authCalls[r]
    IN  /\ UNCHANGED <<authNow, withdrawn, keySet, keyFetch, tokenCache, guarded, tenanted>>
        /\ \/ /\ ~tenanted \/ call.stdio
              /\ Step(r, "piped", MovedTo(r, "tenanted"))
           \/ tenanted /\ ~call.stdio /\ call.info = NoInfo /\ Refuse(r, "piped", "misconfigured", {})
           \/ /\ call.at = "piped" /\ tenanted /\ ~call.stdio /\ call.info # NoInfo
              /\ IF TenantOf[call.token] \in NoTenant THEN RejectWithAudit(r) ELSE Step(r, "piped", TenantFound(r))
AuditEnds(r) ==
    /\ UNCHANGED <<authNow, withdrawn, keySet, keyFetch, tokenCache, guarded, tenanted>>
    /\ \E ended \in {"yes", "threw"} :
          Step(r, "auditing", [MovedTo(r, "answered") EXCEPT !.audited = ended, !.answer = Reply("invalid_token", {})])

(* The scope middleware: a tool that requires nothing runs, and so does any    *)
(* over stdio; a call over HTTP needs every scope and is told the missing ones,*)
(* and one that nobody authenticated is a fault of the set-up.                 *)
MissingScopes(r) == Required \ authCalls[r].info.scopes
CheckScopes(r) ==
    LET call == authCalls[r]
    IN  /\ UNCHANGED <<authNow, withdrawn, keySet, keyFetch, tokenCache, guarded, tenanted>>
        /\ \/ /\ Required = {} \/ (call.info = NoInfo /\ call.stdio)
              /\ Step(r, "tenanted", MovedTo(r, "ran"))
           \/ Required # {} /\ call.info = NoInfo /\ ~call.stdio /\ Refuse(r, "tenanted", "misconfigured", {})
           \/ /\ call.at = "tenanted" /\ Required # {} /\ call.info # NoInfo
              /\ IF MissingScopes(r) = {} THEN Step(r, "tenanted", MovedTo(r, "ran"))
                 ELSE Refuse(r, "tenanted", "insufficient_scope", MissingScopes(r))

AuthNext ==
    \/ Tick
    \/ \E k \in Keys : Withdraw(k)
    \/ ServeKeys \/ ReceiveKeys \/ FetchFails
    \/ \E r \in Requests :
          ExtractBearerToken(r) \/ LookUp(r) \/ FetchKeys(r) \/ Verified(r) \/ ResolveTenant(r) \/ AuditEnds(r) \/ CheckScopes(r)

AuthSpec == AuthInit /\ [][AuthNext]_authVars

-----------------------------------------------------------------------------
(* A token is accepted only before it expires, and only within a time of the   *)
(* withdrawal of its key: the key may have been served just before, be held    *)
(* for KeySetAge, and what was verified with it be cached for CacheTtl         *)
(* (jwt-provider.ts), whoever filled the cache.  What it tells of a token is   *)
(* what was verified of that token, and it stays within its size.              *)
TrustTime == KeyTimeout + KeySetAge + CacheTtl
AcceptedWhileTrusted ==
    /\ \A r \in Requests :
          LET call == authCalls[r]
          IN  call.info # NoInfo =>
                 /\ call.since < Expiry[call.token]
                 /\ call.since < withdrawn[Signer[call.token]] + TrustTime
                 /\ call.info.subject = call.token /\ call.info.scopes = Granted[call.token]
    /\ Len(tokenCache) <= MaxCacheSize
    /\ \A i, j \in DOMAIN tokenCache : tokenCache[i].token = tokenCache[j].token => i = j

(* A handler runs for a call over HTTP only with all the scopes its tool       *)
(* requires and, behind the tenant middleware, only under the tenant that the  *)
(* resolver found for its token: a server set up without the authentication    *)
(* they count on runs nothing, rather than everything.                         *)
OnlyEntitledRun ==
    \A r \in Requests :
       LET call == authCalls[r]
       IN  call.at = "ran" /\ ~call.stdio =>
              /\ guarded => call.info # NoInfo
              /\ Required # {} => guarded /\ Required \subseteq Granted[call.token]
              /\ tenanted => /\ guarded /\ TenantOf[call.token] \notin NoTenant
                             /\ call.info.tenant = TenantOf[call.token]

(* Whatever the reason the tenant of a request was refused for, its caller     *)
(* reads the answer to a token that is not valid, also when the audit hook     *)
(* fails, and the hook has ended by then: multi-tenant-middleware.ts:97 "audit *)
(* writes are guaranteed to land before the error is observable".              *)
RefusalsAlike ==
    \A r \in Requests :
       LET call == authCalls[r]
       IN  /\ tenanted /\ call.at = "answered" /\ call.info # NoInfo /\ TenantOf[call.token] \in NoTenant
                 => call.answer = Reply("invalid_token", {}) /\ (Hook => call.audited # "no")
           /\ call.audited # "no" => TenantOf[call.token] \in NoTenant

(* TokensRespected: a token is taken while it may be trusted, for the call it  *)
(* entitles to, and refused in one way (verifyHttpAuth and the middlewares).   *)
TokensRespected == AcceptedWhileTrusted /\ OnlyEntitledRun /\ RefusalsAlike
=============================================================================
