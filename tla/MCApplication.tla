-------------------------- MODULE MCApplication ---------------------------
(* Hosts with one and with two providers: with and without schemes, with     *)
(* credentials that are literal, in variables, missing, or named twice, and  *)
(* types in odd spellings; and settings that are refused.                    *)
EXTENDS Application

Nobody == [username |-> "", password |-> "",
           usernameEnvVar |-> "", passwordEnvVar |-> ""]

Capitals(word) == [Plain(word) EXCEPT !.capitals = TRUE]
Spaces(word) == [Plain(word) EXCEPT !.spaces = TRUE]

EntryOf(type, schemes, auth) ==
    [type |-> type, schemes |-> schemes, username |-> auth.username,
     password |-> auth.password, usernameEnvVar |-> auth.usernameEnvVar,
     passwordEnvVar |-> auth.passwordEnvVar]

Literal == [Nobody EXCEPT !.username = "robot", !.password = "secret"]
Variables == [Nobody EXCEPT !.usernameEnvVar = "USER", !.passwordEnvVar = "PASS"]
Unset == [Nobody EXCEPT !.username = "robot", !.passwordEnvVar = "UNSET"]
Twice == [Variables EXCEPT !.username = "robot", !.password = "secret"]

SettingOf(json, providers) ==
    [json |-> json, providers |-> providers,
     variable |-> [USER |-> "user", PASS |-> "pass", UNSET |-> ""]]

MCHosts == {"plain", "charts", "both", "unset", "twice", "unknown"}

Providers ==
    [plain |-> <<EntryOf(Spaces("https"), {}, Nobody)>>,
     charts |-> <<EntryOf(Plain("http"), {"https"}, Literal),
                  EntryOf(Plain("http"), {}, Variables)>>,
     both |-> <<EntryOf(Capitals("oci"), {}, Variables),
                EntryOf(Capitals("http"), {}, Literal)>>,
     unset |-> <<EntryOf(Plain("oci"), {"oci", "https"}, Unset)>>,
     twice |-> <<EntryOf(Plain("http"), {"http"}, Twice)>>]

MCSettings ==
    {SettingOf(TRUE, <<>>), SettingOf(FALSE, <<>>), SettingOf(TRUE, Providers)}
    \cup {SettingOf(TRUE, [Providers EXCEPT !.both[2].type = type]) :
             type \in {Plain(""), Spaces(""), Plain("s3")}}
=============================================================================
