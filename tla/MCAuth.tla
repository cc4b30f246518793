------------------------------- MODULE MCAuth -------------------------------
(* Authentication for TLC, both sides of it, one part in a behaviour: every    *)
(* configuration; requests with tokens; the metadata of the authorization      *)
(* server; the OAuth client; its callback server; and the signed channel.      *)
EXTENDS AuthConfig, Auth, OAuthClient, Signing

VARIABLE part

Texts == {"", " ", "github", "google", "auth0", "oidc", "aud", "https://a", "ftp://a", "host", "bad host", "bogus", Undef, NotAText,
          "t", " t", "u", "s", " s", "v", "unknown", "read", "write"}
TrimText == [text \in Texts |-> CASE text = " " -> "" [] text = " t" -> "t" [] text = " s" -> "s" [] OTHER -> text]

\* The environment and the file, around a configuration that works.
From(texts, base) == {[base EXCEPT ![s] = v] : s \in Settings, v \in texts}
EmptyText == [s \in Settings |-> Undef]
Working(provider) ==
    [EmptyText EXCEPT !.provider = provider, !.audience = "aud", !.resource = "https://a",
                      !.issuer = IF provider = "oidc" THEN "https://a" ELSE Undef, !.domain = IF provider = "auth0" THEN "host" ELSE Undef]
SomeTexts == {Undef, "", " ", "aud", "https://a", "bad host", "bogus"}
SomeEnvironments ==
    {EmptyText} \cup From(SomeTexts \cup {"github", "oidc"}, EmptyText) \cup From(SomeTexts, Working("oidc"))
SomeFiles ==
    {EmptyText} \cup From({Undef, NotAText, "", " ", "aud", "ftp://a"}, Working("oidc"))
    \cup From({Undef, NotAText, "", "bad host"}, Working("auth0")) \cup From({Undef, NotAText, "ftp://a"}, Working("github"))

Credentials == [token : {"t", " t", "u", " "}, subject : {"s", " s", "v", "unknown"}, scopes : {{}, {"read"}, {"write", " "}}]
PairedCredentials == [token : {"t", " t", "u"}, subject : {"s", "v"}, scopes : {{}, {"read"}}]
SomeEntryLists == {<< >>} \cup {<<a>> : a \in Credentials} \cup {<<a, b>> : a, b \in PairedCredentials}
SomeScopeLists == {<< >>, <<{}>>, <<{"read", " "}>>, <<{"read"}>>}

SomeClients ==
    [clientId : {Missing, NoObject, <<"app">>}, registration : {Missing, NoObject, <<"object">>}, method : {Missing, <<Cimd>>, <<"other">>},
     metadataUrl : {"https", "http"}, callbackPort : {0, 1, 2}, clientName : {"", "name"},
     redirectUri : {Redirect(1), Redirect(2), [Redirect(1) EXCEPT !.host = "localhost"], [Redirect(1) EXCEPT !.path = "/"]},
     extra : {{}, {"tos_uri"}, {"tos_uri", "redirect_uris"}}]

\* Tokens of one key: one that entitles, one that expires, and one without a tenant.
SignedBy == ("good" :> "k1") @@ ("brief" :> "k1") @@ ("stray" :> "k1")
ExpiresAt == ("good" :> 9) @@ ("brief" :> 2) @@ ("stray" :> 9)
Grants == ("good" :> {"read", "write"}) @@ ("brief" :> {"read"}) @@ ("stray" :> {"read", "write"})
Tenant == ("good" :> "acme") @@ ("brief" :> "acme") @@ ("stray" :> "refused")

MCInit ==
    /\ AuthInit /\ AsInit /\ ClientAuthInit /\ CallbackInit /\ SigningInit
    /\ \/ part = "cases" /\ AuthCaseInit
       \/ part \in {"requests", "metadata", "client", "callback", "signing"} /\ authCase = NoCase
    /\ part # "requests" => guarded /\ tenanted
    /\ part # "client" => credentials = NoRecord /\ advertised = CHOOSE i \in Issuers : TRUE

MCNext ==
    /\ UNCHANGED <<part, authCase>>
    /\ part = "requests" \/ UNCHANGED authVars
    /\ part = "metadata" \/ UNCHANGED asVars
    /\ part = "client" \/ UNCHANGED clientVars
    /\ part = "callback" \/ UNCHANGED callbackVars
    /\ part = "signing" \/ UNCHANGED signVars
    /\ \/ part = "requests" /\ AuthNext
       \/ part = "metadata" /\ AsNext
       \/ part = "client" /\ ClientAuthNext
       \/ part = "callback" /\ CallbackNext
       \/ part = "signing" /\ SigningNext

MCVars == <<part, authCase, authVars, asVars, clientVars, callbackVars, signVars>>
MCSpec == MCInit /\ [][MCNext]_MCVars /\ CallbackFairness
=============================================================================
