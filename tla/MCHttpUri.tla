----------------------------- MODULE MCHttpUri -----------------------------
(***************************************************************************)
(* Texts for HttpUri: every short text behind "http://", longer ones made   *)
(* of all parts with delimiters in wrong places, credentials, and           *)
(* beginnings that are not a scheme that can be sent.                       *)
(***************************************************************************)
EXTENDS HttpUri, TLC

SeqOf(S, n) == UNION {[1..k -> S] : k \in 0..n}

Front == <<"h", ":", "/", "/">>
Short == SeqOf({"a", ":", "/", "@", "?", "#"}, 4)

Infos == {<<>>, <<"a", "@">>, <<":", "@">>, <<"a", ":", "a", "@">>, <<":", "a", ":", "@">>}
Hosts == {<<>>, <<"a">>, <<"a", ":">>, <<"a", ":", "1">>, <<"a", "@", "1">>, <<"ctl">>}
Paths == {<<>>, <<"/">>, <<"/", "a", "/", "@", ":">>}
Queries == {<<>>, <<"?">>, <<"?", "a", "/", "?", "@">>}
Fragments == {<<>>, <<"#">>, <<"#", "?", "/", "#">>}

Long == {u \o h \o p \o q \o f :
            u \in Infos, h \in Hosts, p \in Paths, q \in Queries, f \in Fragments}

Fronts == {<<>>, <<"h">>, <<"h", ":">>, <<":", "/", "/">>, <<"h", ":", "/">>,
           <<"1", ":", "/", "/">>, <<"h", "+", "1", ":", "/", "/">>}

\* credentials of up to four characters, of any bytes
Credentials == {u \o <<"@", "a">> : u \in SeqOf({"a", ":", "hi", "ctl"}, 4)}

MCTexts == {Front \o s : s \in Short \cup Long \cup Credentials}
              \cup {f \o <<"a">> : f \in Fronts} \cup {<<>>}

MCByteOf == ("h" :> 104) @@ ("a" :> 97) @@ ("1" :> 49) @@ ("+" :> 43) @@ (":" :> 58)
               @@ ("/" :> 47) @@ ("@" :> 64) @@ ("?" :> 63) @@ ("#" :> 35)
               @@ ("hi" :> 255) @@ ("ctl" :> 1)

=============================================================================
