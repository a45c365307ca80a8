--------------------------- MODULE HostProviders ---------------------------
(***************************************************************************)
(* Which provider talks to which host, and with what credentials.          *)
(*   internal/config/application.go (HELM_HOST_PROVIDERS)                  *)
(*   internal/repository/helmremote/helmremote.go (the choice)             *)
(*                                                                         *)
(* A setting is what the environment variable holds, and the environment   *)
(* variables it refers to.  The empty string is a value that is missing.   *)
(***************************************************************************)
EXTENDS SequencesExt

CONSTANT NoProvider  \* MissingProviderError

HTTP == {"http", "https"}
Schemes == HTTP \cup {"oci"}

\* A type as it is written: its letters, in lower case; whether some of them
\* are capitals; and whether there are spaces around it.
Text == [word : STRING, capitals : BOOLEAN, spaces : BOOLEAN]
Plain(word) == [word |-> word, capitals |-> FALSE, spaces |-> FALSE]

\* helmHostProviderRaw
Entry ==
    [type : Text, schemes : SUBSET Schemes, username : STRING,
     password : STRING, usernameEnvVar : STRING, passwordEnvVar : STRING]

\* json: whether it can be parsed.  providers: for each host the entries of
\* its list.  variable: the environment variables.
IsSetting(s) ==
    /\ s.json \in BOOLEAN
    /\ \A host \in DOMAIN s.providers :
        /\ s.providers[host] \in Seq(Entry)
        /\ \A i \in DOMAIN s.providers[host] :
            LET entry == s.providers[host][i]
            IN  {entry.usernameEnvVar, entry.passwordEnvVar}
                    \subseteq DOMAIN s.variable \cup {""}

\* os.Getenv
Getenv(s, name) == IF name = "" THEN "" ELSE s.variable[name]

\* extractCredentials: a literal username comes before its variable, and a
\* variable for the password before the literal one.
Username(s, entry) ==
    IF entry.username # "" THEN entry.username
    ELSE Getenv(s, entry.usernameEnvVar)

Password(s, entry) ==
    IF entry.passwordEnvVar # "" THEN Getenv(s, entry.passwordEnvVar)
    ELSE entry.password

Anonymous == <<"", "">>

\* What New of the provider asks for: half of the credentials are none.
BasicAuth(s, entry) ==
    LET auth == <<Username(s, entry), Password(s, entry)>>
    IN  IF "" \in {auth[1], auth[2]} THEN Anonymous ELSE auth

ToLower(text) == [text EXCEPT !.capitals = FALSE]
TrimSpace(text) == [text EXCEPT !.spaces = FALSE]

Type(entry) == ToLower(TrimSpace(entry.type))
HTTPTypes == {Plain(word) : word \in HTTP}

\* Which of the two build functions the switch comes to.
Getter(entry) == IF Type(entry) \in HTTPTypes THEN "http" ELSE "oci"

\* Mutant: schemes have no default.
SchemesGiven(entry) == entry.schemes

SchemesOf(entry) ==
    IF entry.schemes # {} THEN entry.schemes
    ELSE IF Getter(entry) = "http" THEN HTTP ELSE {"oci"}

Provider(s, entry) ==
    [getter |-> Getter(entry), schemes |-> SchemesOf(entry),
     auth |-> BasicAuth(s, entry)]

\* parseHelmHostProviders fails for one entry of an unknown type, or of none.
IsRejected(s) ==
    \/ ~s.json
    \/ \E host \in DOMAIN s.providers : \E i \in DOMAIN s.providers[host] :
           Type(s.providers[host][i]) \notin HTTPTypes \cup {Plain("oci")}

HelmHostProviders(s) ==
    [host \in DOMAIN s.providers |->
        [i \in DOMAIN s.providers[host] |-> Provider(s, s.providers[host][i])]]

\* getter.Providers.ByScheme: the first that provides it.
ByScheme(providers, scheme) ==
    LET i == SelectInSeq(providers, LAMBDA p : scheme \in p.schemes)
    IN  IF i = 0 THEN NoProvider ELSE providers[i]

\* HelmRemote, for the index of a repository and for a chart: the host is that
\* of the URL at hand.
ProviderFor(hostProviders, host, scheme) ==
    IF host \in DOMAIN hostProviders
    THEN ByScheme(hostProviders[host], scheme)
    ELSE NoProvider
=============================================================================
