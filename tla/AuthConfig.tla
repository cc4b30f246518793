----------------------------- MODULE AuthConfig -----------------------------
(* How a server comes to its auth provider: auth/config.ts reads a file and    *)
(* the environment, auth/presets.ts and the constructor of the JWT provider    *)
(* build one from what it finds, and startHttp of the app decides what to do   *)
(* without one.  And how the provider of fixed tokens reads its credentials    *)
(* (auth/static-token-provider.ts).                                            *)
(*                                                                             *)
(* A text is a string of which the model knows what it is trimmed and whether  *)
(* it reads as an HTTP(S) URL.                                                 *)
EXTENDS Integers, Sequences, FiniteSets, SequencesExt

CONSTANTS
    Trimmed,    \* [texts -> texts]: a text without the white space around it
    HttpUrls,   \* the trimmed texts that read as URLs with http or https
    Hosts       \* the texts that can be the host of a URL

Undef == "undefined"
NotAText == "not a string"
Providers == {"github", "google", "auth0", "oidc"}
Settings == {"provider", "audience", "resource", "domain", "issuer", "jwksUri", "resourceMetadataUrl"}
Blank(text) == Trimmed[text] = ""
IsHttpUrl(text) == Trimmed[text] \in HttpUrls

-----------------------------------------------------------------------------
(* The file keeps the settings that are strings, and the environment overrides *)
(* them, also with an empty text.  (The scopes to advertise are left out.)     *)
LoadYamlAuth(file) == [s \in Settings |-> IF file[s] = NotAText THEN Undef ELSE file[s]]
Setting(env, file, s) == IF env[s] # Undef THEN env[s] ELSE LoadYamlAuth(file)[s]
Given(text) == text \notin {Undef, ""}

Error == [kind |-> "error"]
NoAuth == [kind |-> "none"]
Config(env, file) == [s \in Settings |-> Setting(env, file, s)]

\* What loadAuthConfig refuses; a file or an environment without a provider is no error.
Misconfigured(c) ==
    \/ c.provider \notin Providers
    \/ ~Given(c.audience) \/ ~Given(c.resource)
    \/ c.provider = "auth0" /\ ~Given(c.domain)
    \/ c.provider = "oidc" /\ (~Given(c.issuer) \/ ~IsHttpUrl(c.issuer))

\* The presets: who issues the tokens, and where its keys are.
Auth0Url(domain) == <<"https", domain>>
Issuer(c) ==
    CASE c.provider = "github" -> <<"https", "token.actions.githubusercontent.com">>
      [] c.provider = "google" -> <<"https", "accounts.google.com">>
      [] c.provider = "auth0" -> Auth0Url(c.domain)
      [] c.provider = "oidc" -> <<c.issuer>>
KeysAreAtAUrl(c) == c.provider = "oidc" /\ c.jwksUri # Undef => IsHttpUrl(c.jwksUri)

(* buildJwtAuthProvider: the metadata document has a URL of its own or one     *)
(* derived from the resource, which then must be a URL.                        *)
MetadataUrl(c) ==
    IF c.resourceMetadataUrl # Undef /\ ~Blank(c.resourceMetadataUrl) THEN <<"given", c.resourceMetadataUrl>>
    ELSE IF IsHttpUrl(c.resource) THEN <<"derived", c.resource>>
    ELSE <<"none">>
BuildJwtAuthProvider(c) ==
    LET url == MetadataUrl(c)
        bad == \/ url[1] = "given" /\ ~IsHttpUrl(c.resourceMetadataUrl)
               \/ url[1] = "none"
               \/ c.provider = "auth0" /\ c.domain \notin Hosts
               \/ ~KeysAreAtAUrl(c)
    IN  IF bad THEN Error
        ELSE [kind |-> "provider", issuer |-> Issuer(c), audience |-> c.audience, resource |-> c.resource, metadata |-> url]

\* Faulty: a configuration that misses something is no configuration.
LoadAuthLenient(env, file) ==
    LET c == Config(env, file)
    IN  IF ~Given(c.provider) \/ Misconfigured(c) THEN NoAuth ELSE BuildJwtAuthProvider(c)
LoadAuth(env, file) ==
    LET c == Config(env, file)
    IN  IF ~Given(c.provider) THEN NoAuth
        ELSE IF Misconfigured(c) THEN Error
        ELSE BuildJwtAuthProvider(c)

\* startHttp: a server that must have a provider does not start without one.
StartAuth(requireAuth, env, file) ==
    LET auth == LoadAuth(env, file) IN IF requireAuth /\ auth = NoAuth THEN Error ELSE auth

-----------------------------------------------------------------------------
(* The provider of fixed tokens: all entries are tokens that share the identity*)
(* of the options, or all are credentials with an identity each.  Credentials  *)
(* are held to more: no token twice, a subject that can be one, scopes among   *)
(* the declared ones, if any are.                                              *)
TrimmedScopes(scopes) == {Trimmed[s] : s \in scopes}
CredentialFault(entries, i, declared) ==
    \/ Trimmed[entries[i].subject] \in {"", "unknown"}
    \/ \E s \in entries[i].scopes : Blank(s)
    \/ \E j \in 1..(i - 1) : Trimmed[entries[j].token] = Trimmed[entries[i].token]
    \/ declared # << >> /\ ~(TrimmedScopes(entries[i].scopes) \subseteq TrimmedScopes(declared[1]))
StaticFault(form, entries, declared, resource, url) ==
    \/ form = "mixed" \/ entries = << >> \/ ~IsHttpUrl(resource)
    \/ url # Undef /\ ~Blank(url) /\ ~IsHttpUrl(url)
    \/ \E i \in DOMAIN entries : Blank(entries[i].token)
    \/ /\ form = "credentials"
       /\ \/ declared # << >> /\ \E s \in declared[1] : Blank(s)
          \/ \E i \in DOMAIN entries : CredentialFault(entries, i, declared)
EntryScopes(form, scopes) == IF form = "tokens" THEN scopes ELSE TrimmedScopes(scopes)
LastOf(entries, t) == SelectLastInSeq(entries, LAMBDA e : Trimmed[e.token] = t)
StaticProvider(form, entries, declared, resource, url) ==
    LET scopes(i) == EntryScopes(form, entries[i].scopes)
        identity(i) == [subject |-> IF form = "tokens" THEN entries[i].subject ELSE Trimmed[entries[i].subject], scopes |-> scopes(i)]
    IN  IF StaticFault(form, entries, declared, resource, url) THEN Error
        ELSE [kind |-> "provider",
              identity |-> [t \in {Trimmed[e.token] : e \in ToSet(entries)} |-> identity(LastOf(entries, t))],
              supported |-> IF declared # << >> THEN EntryScopes(form, declared[1]) ELSE UNION {scopes(i) : i \in DOMAIN entries},
              metadata |-> IF url # Undef /\ ~Blank(url) THEN <<"given", url>> ELSE <<"derived", resource>>]
Stranger == [subject |-> Undef, scopes |-> {}]
VerifyStatic(provider, token) ==
    IF Trimmed[token] \in DOMAIN provider.identity THEN provider.identity[Trimmed[token]] ELSE Stranger

-----------------------------------------------------------------------------
(* How an OAuth client registers (client-auth/client-id-metadata.ts): with a   *)
(* client id it was given, or with the URL of a document that describes it.    *)
(* In the second mode the document, the provider and the callback server have  *)
(* to agree on one redirect URI before anything runs.                          *)
\* A value that is missing, and one that is there but no object.
Missing == << >>
NoObject == <<"no object">>
Cimd == "client_id_metadata"

(* The mode of a configuration: registration is Missing, NoObject or <<r>> with*)
(* what it says.                                                               *)
ResolveClientMode(config) ==
    IF config.clientId # Missing /\ config.registration # Missing THEN "cimd_config_conflict"
    ELSE IF config.registration = NoObject THEN "cimd_registration_missing"
    ELSE IF config.registration # Missing THEN
        IF config.method = Missing THEN "cimd_registration_missing"
        ELSE IF config.method # <<Cimd>> THEN "cimd_method_invalid" ELSE Cimd
    ELSE IF config.clientId \notin {Missing, NoObject} THEN "static" ELSE "cimd_registration_missing"
IsCimdConfig(config) == config.registration \notin {Missing, NoObject} /\ config.method = <<Cimd>>

\* A redirect URI is the callback of 127.0.0.1 at the fixed port.
Redirect(port) == [scheme |-> "http", host |-> "127.0.0.1", port |-> port, path |-> "/callback"]
ReservedKeys == {"scope", "client_id", "client_name", "client_uri", "logo_uri", "contacts", "redirect_uris", "grant_types",
                 "response_types", "token_endpoint_auth_method", "application_type"}

(* The first thing that is wrong with a client that has a document.            *)
ValidateCimdClientConfig(config) ==
    LET mode == ResolveClientMode(config)
    IN  IF mode \notin {Cimd, "static"} THEN mode
        ELSE IF mode = "static" THEN "cimd_registration_missing"
        ELSE IF config.metadataUrl # "https" THEN "cimd_url_invalid"
        ELSE IF config.callbackPort = 0 THEN "cimd_port_unfixed"
        ELSE IF config.clientName = "" THEN "cimd_name_missing"
        ELSE IF config.redirectUri # Redirect(config.callbackPort) THEN "cimd_redirect_mismatch"
        ELSE IF config.extra \cap ReservedKeys # {} THEN "cimd_reserved_metadata_key"
        ELSE "ok"

\* The document to publish: what an application adds cannot take the place of what the client says.
BuildClientIdMetadataDocument(config) ==
    [own |-> [client_id |-> config.metadataUrl, client_name |-> config.clientName, redirect_uris |-> <<config.redirectUri>>],
     extra |-> config.extra]

(* prepareOAuthProvider: the callback server binds the port that was asked for,*)
(* or any one for 0, and the provider learns where it is.                      *)
RedirectUrl(config, port) == IF IsCimdConfig(config) THEN config.redirectUri ELSE [Redirect(port) EXCEPT !.host = "localhost"]
PrepareOAuthProvider(config, port) ==
    LET mode == ResolveClientMode(config)
        fault == IF mode = Cimd THEN ValidateCimdClientConfig(config) ELSE IF mode = "static" THEN "ok" ELSE mode
    IN  IF fault # "ok" THEN [kind |-> fault]
        ELSE IF mode = Cimd /\ port # config.callbackPort THEN [kind |-> "cimd_redirect_mismatch"]
        ELSE [kind |-> "ok", redirectUrl |-> RedirectUrl(config, port), host |-> IF mode = Cimd THEN "127.0.0.1" ELSE "localhost",
              clientId |-> IF mode = Cimd THEN config.metadataUrl ELSE config.clientId[1], port |-> port]

-----------------------------------------------------------------------------
(* Every small configuration of the two sides: one case per initial state, and *)
(* what must be true of each.                                                  *)
CONSTANTS
    Environments, Files,                  \* what the environment and the file may say
    EntryLists, ScopeLists, ResourceUrls, \* what a provider of fixed tokens may be given
    ClientConfigs, Ports                  \* what an OAuth client may be configured with, and the ports it may bind

(* A variable of the environment is a text; an entry of a provider is made of  *)
(* texts; and the empty text stays empty.                                      *)
ASSUME AuthConfigAssumption ==
    /\ \A env \in Environments, s \in Settings : env[s] # NotAText
    /\ EntryLists \subseteq Seq([token : DOMAIN Trimmed, subject : DOMAIN Trimmed, scopes : SUBSET DOMAIN Trimmed])
    /\ "" \in DOMAIN Trimmed /\ Blank("")

VARIABLE authCase
NoCase == << >>
AuthCaseInit ==
    \/ authCase \in [about : {"server"}, env : Environments, file : Files, requireAuth : BOOLEAN]
    \/ authCase \in [about : {"tokens"}, form : {"tokens", "credentials", "mixed"}, entries : EntryLists, declared : ScopeLists,
                     resource : ResourceUrls, url : ResourceUrls \cup {Undef}]
    \/ authCase \in [about : {"client"}, config : ClientConfigs, port : Ports]

About(topic) == authCase # NoCase /\ authCase.about = topic

-----------------------------------------------------------------------------
(* A server whose environment or file names a provider has exactly that one,   *)
(* with the audience, resource and metadata URL it needs, or does not start;   *)
(* it is open only when the two name none and nobody insists (config.ts,       *)
(* presets.ts, startHttp).  And a setting of the file has no part in a server  *)
(* whose environment has one, README.md:275 "Env vars override YAML at deploy  *)
(* time".                                                                      *)
GuardedOrRefused ==
    About("server") =>
       LET env == authCase.env
           file == authCase.file
           auth == StartAuth(authCase.requireAuth, env, file)
           blind == [s \in Settings |-> IF env[s] # Undef THEN Undef ELSE file[s]]
       IN  /\ auth = NoAuth => /\ ~authCase.requireAuth
                               /\ env.provider = "" \/ (env.provider = Undef /\ file.provider \in {Undef, NotAText, ""})
           /\ auth.kind = "provider" =>
                 /\ auth.audience \in {env.audience, file.audience} \ {Undef, NotAText, ""}
                 /\ auth.resource \in {env.resource, file.resource} \ {Undef, NotAText, ""}
                 /\ IsHttpUrl(auth.metadata[2])
                 /\ \E p \in {env.provider, file.provider} \cap Providers : auth.issuer = Issuer([Config(env, file) EXCEPT !.provider = p])
           /\ StartAuth(authCase.requireAuth, env, blind) = auth

(* A provider of fixed tokens that was accepted knows every entry by its own   *)
(* identity, however it is written, and a stranger by none; it advertises every*)
(* scope a credential holds; and the order of the entries decides nothing.     *)
TokensKeepIdentity ==
    About("tokens") =>
       LET accepts(entries) == StaticProvider(authCase.form, entries, authCase.declared, authCase.resource, authCase.url)
           provider == accepts(authCase.entries)
       IN  /\ (accepts(Reverse(authCase.entries)) = Error) = (provider = Error)
           /\ provider.kind = "provider" =>
                 /\ \A e \in ToSet(authCase.entries) :
                       authCase.form = "credentials" =>
                          /\ VerifyStatic(provider, e.token) = [subject |-> Trimmed[e.subject], scopes |-> TrimmedScopes(e.scopes)]
                          /\ TrimmedScopes(e.scopes) \subseteq provider.supported
                 /\ VerifyStatic(provider, "") = Stranger
                 /\ IsHttpUrl(provider.metadata[2])

(* An OAuth client that is ready sends the authorization server to where its   *)
(* own callback server listens, and with a document of its own to what that    *)
(* document says, whatever an application added to it.                         *)
RedirectAgreed ==
    About("client") =>
       LET config == authCase.config
           ready == PrepareOAuthProvider(config, authCase.port)
           document == BuildClientIdMetadataDocument(config)
       IN  ready.kind = "ok" =>
              /\ ready.redirectUrl.port = ready.port /\ ready.redirectUrl.host = ready.host
              /\ IsCimdConfig(config) => /\ document.own.redirect_uris = <<ready.redirectUrl>>
                                         /\ document.own.client_id = ready.clientId
                                         /\ document.extra \cap (ReservedKeys \cup DOMAIN document.own) = {}

(* ConfigAgreed: what was configured is what is run, or nothing is (config.ts, *)
(* static-token-provider.ts, connect.ts).                                      *)
ConfigAgreed == GuardedOrRefused /\ TokensKeepIdentity /\ RedirectAgreed
=============================================================================
