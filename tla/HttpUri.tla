------------------------------ MODULE HttpUri ------------------------------
(***************************************************************************)
(* From the text of a URL to the request (include/HTTPRequest/Request.hpp): *)
(* parseUri, which cuts the text at one delimiter after the other, from the *)
(* end to the front, then encodeHtml with the header fields made from the   *)
(* parts, the credentials through encodeBase64. Characters stand for their  *)
(* classes: "h" and "a" are letters, "1" a digit, "ctl" a control character *)
(* and "hi" a byte beyond ASCII; the scheme <<"h">> is "http".              *)
(***************************************************************************)
EXTENDS Integers, Sequences, FiniteSets

CONSTANTS
    Texts,          \* sequences of characters
    ByteOf,         \* the byte of each character
    Garbage         \* what an uninitialised byte may be

ASSUME ConstantsAssumption ==
    /\ ByteOf \in [DOMAIN ByteOf -> 0..255]
    /\ {":", "/", "?"} \subseteq DOMAIN ByteOf
    /\ Texts \subseteq Seq(DOMAIN ByteOf)
    /\ Garbage \subseteq 0..255

Http == <<"h">>
isAlphaChar(ch) == ch \in {"h", "a"}
isDigitChar(ch) == ch = "1"
isSchemeChar(ch) == isAlphaChar(ch) \/ isDigitChar(ch) \/ ch = "+"
isFieldChar(ch) == ch # "ctl"

VARIABLES
    text,
    stage,          \* what runs next, "sent" or "failed" at the end
    uri,            \* the result of parseUri
    authority,      \* what is left to cut
    request,        \* what encodeHtml writes, or <<>>
    input, i, c, charArray, result      \* encodeBase64

base64Vars == <<input, i, c, charArray, result>>
vars == <<text, stage, uri, authority, request, base64Vars>>

Encoder == INSTANCE Base64

Parts == {"scheme", "user", "password", "host", "port", "path", "query", "fragment"}

Init ==
    /\ text \in Texts
    /\ stage = "scheme"
    /\ uri = [p \in Parts |-> <<>>]
    /\ authority = <<>>
    /\ request = <<>>
    /\ input = <<>> /\ i = 0 /\ c = 0 /\ result = <<>>
    /\ charArray = [n \in 0..2 |-> 0]

\* std::string::find and substr: the text before the first ch, and behind it;
\* the first ch is behind the positions up to which there is none
Has(s, ch) == \E n \in DOMAIN s : s[n] = ch

\* mutant: rfind
FindLast(s, ch) == Len(s) - Cardinality({n \in DOMAIN s : \A m \in n..Len(s) : s[m] # ch})

Find(s, ch) == Cardinality({n \in DOMAIN s : \A m \in 1..n : s[m] # ch}) + 1
Before(s, ch) == SubSeq(s, 1, Find(s, ch) - 1)
Behind(s, ch) == SubSeq(s, Find(s, ch) + 1, Len(s))

Goto(next) == stage' = next /\ UNCHANGED <<text, request, base64Vars>>

\* RFC 3986, 3.1. Scheme
Scheme ==
    /\ stage = "scheme"
    /\ LET schemes == {n \in 1..(Len(text) - 3) :
                         /\ isAlphaChar(text[1])
                         /\ \A m \in 1..n : isSchemeChar(text[m])
                         /\ SubSeq(text, n + 1, n + 3) = <<":", "/", "/">>}
       IN  \/ /\ schemes = {}
              /\ Goto("failed") /\ UNCHANGED <<uri, authority>>
           \/ \E n \in schemes :
                 /\ uri' = [uri EXCEPT !["scheme"] = SubSeq(text, 1, n)]
                 /\ authority' = SubSeq(text, n + 4, Len(text))
                 /\ Goto("fragment")

\* 3.5. Fragment and 3.4. Query: cut at the first ch, the rest is this part
Cut(part, ch, next) ==
    /\ stage = part
    /\ IF Has(authority, ch)
       THEN /\ uri' = [uri EXCEPT ![part] = Behind(authority, ch)]
            /\ authority' = Before(authority, ch)
       ELSE UNCHANGED <<uri, authority>>
    /\ Goto(next)

Fragment == Cut("fragment", "#", "query")
Query == Cut("query", "?", "path")

\* 3.3. Path
Path ==
    /\ stage = "path"
    /\ IF Has(authority, "/")
       THEN /\ uri' = [uri EXCEPT !["path"] = <<"/">> \o Behind(authority, "/")]
            /\ authority' = Before(authority, "/")
       ELSE uri' = [uri EXCEPT !["path"] = <<"/">>] /\ UNCHANGED authority
    /\ Goto("user")

\* 3.2.1. User Information, 3.2.2. Host and 3.2.3. Port
Authority ==
    /\ stage = "user"
    /\ LET info == IF Has(authority, "@") THEN Before(authority, "@") ELSE <<>>
           host == IF Has(authority, "@") THEN Behind(authority, "@") ELSE authority
           Left(s) == IF Has(s, ":") THEN Before(s, ":") ELSE s
           Right(s) == IF Has(s, ":") THEN Behind(s, ":") ELSE <<>>
       IN  uri' = [uri EXCEPT !["user"] = Left(info), !["password"] = Right(info),
                              !["host"] = Left(host), !["port"] = Right(host)]
    /\ UNCHANGED authority
    /\ Goto("encode")

\* the scheme is tested, and the credentials go to encodeBase64
Encode ==
    /\ stage = "encode"
    /\ LET userinfo == uri["user"] \o <<":">> \o uri["password"]
       IN  \/ /\ uri["scheme"] # Http
              /\ stage' = "failed"
              /\ UNCHANGED base64Vars
           \/ /\ uri["scheme"] = Http /\ userinfo = <<":">>
              /\ stage' = "fields"
              /\ UNCHANGED base64Vars
           \/ /\ uri["scheme"] = Http /\ userinfo # <<":">>
              /\ stage' = "base64"
              /\ Encoder!encodeBase64([n \in DOMAIN userinfo |-> ByteOf[userinfo[n]]])
    /\ UNCHANGED <<text, uri, authority, request>>

EncodeBytes ==
    /\ stage = "base64"
    /\ \/ Encoder!Collect /\ UNCHANGED stage
       \/ Encoder!Finish /\ stage' = "fields"
    /\ UNCHANGED <<text, uri, authority, request>>

\* mutant: the target has the fragment too
FieldsFragment ==
    /\ stage = "fields"
    /\ IF \A n \in DOMAIN uri["host"] : isFieldChar(uri["host"][n])
       THEN /\ stage' = "sent"
            /\ request' = [target |-> uri["path"] \o uri["query"] \o uri["fragment"],
                           host |-> uri["host"], authorization |-> result]
       ELSE stage' = "failed" /\ UNCHANGED request
    /\ UNCHANGED <<text, uri, authority, base64Vars>>

\* encodeRequestLine and encodeHeaderFields, which throws for a character that
\* may not be sent; base64 has none
Fields ==
    /\ stage = "fields"
    /\ IF \A n \in DOMAIN uri["host"] : isFieldChar(uri["host"][n])
       THEN /\ stage' = "sent"
            /\ request' = [target |-> uri["path"]
                              \o (IF uri["query"] = <<>> THEN <<>> ELSE <<"?">> \o uri["query"]),
                           host |-> uri["host"], authorization |-> result]
       ELSE stage' = "failed" /\ UNCHANGED request
    /\ UNCHANGED <<text, uri, authority, base64Vars>>

Next ==
    \/ Scheme \/ Fragment \/ Query \/ Path \/ Authority
    \/ Encode \/ EncodeBytes \/ Fields

Spec == Init /\ [][Next]_vars

----------------------------------------------------------------------------
(* The parts of the text, defined without an order of cutting.              *)

\* the first position of s with one of these characters, or its end
First(s, cs) == Cardinality({n \in DOMAIN s : \A m \in 1..n : s[m] \notin cs}) + 1

\* behind "://"
Rest == SubSeq(text, First(text, {":"}) + 3, Len(text))

EndOfAuthority == First(Rest, {"/", "?", "#"})
EndOfPath == First(Rest, {"?", "#"})
EndOfQuery == First(Rest, {"#"})

AuthorityText == SubSeq(Rest, 1, EndOfAuthority - 1)
PathText == SubSeq(Rest, EndOfAuthority, EndOfPath - 1)
QueryText == SubSeq(Rest, EndOfPath + 1, EndOfQuery - 1)
FragmentText == SubSeq(Rest, EndOfQuery + 1, Len(Rest))
InfoText == IF Has(AuthorityText, "@")
            THEN SubSeq(AuthorityText, 1, First(AuthorityText, {"@"}) - 1) ELSE <<>>
HostText == IF Has(AuthorityText, "@")
            THEN SubSeq(AuthorityText, First(AuthorityText, {"@"}) + 1, Len(AuthorityText))
            ELSE AuthorityText

OrSlash(s) == IF s = <<>> THEN <<"/">> ELSE s

----------------------------------------------------------------------------
(* Properties.                                                              *)

Parsed == stage \in {"encode", "base64", "fields", "sent"}

\* s followed by ch and t, where ch may be missing when t is empty
Joined(s, ch, t) == {s \o <<ch>> \o t} \cup (IF t = <<>> THEN {s} ELSE {})

(* Cutting from the end to the front gives the parts that the grammar of    *)
(* RFC 3986 gives from the front to the end, however the delimiters follow  *)
(* each other: a "/" or "@" behind a "?" belongs to the query, a "?" behind *)
(* a "#" to the fragment. No character of the authority is lost or counted  *)
(* twice: user, password, host and port, put together again, are the text   *)
(* between "://" and the path.                                              *)
PartsAsInGrammar ==
    Parsed => /\ authority = AuthorityText
              /\ uri["path"] = OrSlash(PathText)
              /\ uri["query"] = QueryText
              /\ uri["fragment"] = FragmentText
              /\ InfoText \in Joined(uri["user"], ":", uri["password"])
              /\ HostText \in Joined(uri["host"], ":", uri["port"])

\* what the server is to see: no fragment, no credentials, a path, and a "?"
\* only before a query
Wanted == HostText \o OrSlash(PathText)
             \o (IF QueryText = <<>> THEN <<>> ELSE <<"?">> \o QueryText)

(* The host and the target of the request name the resource of the URL when *)
(* it has no port; the fragment stays at home, and the credentials are in   *)
(* neither. (The Host field never has the port: the code writes uri.host.)  *)
ServerSeesUri ==
    stage = "sent" /\ ~Has(HostText, ":") => request.host \o request.target = Wanted

(* The Authorization field is there when the URL has credentials, and a     *)
(* server that decodes it reads them as they are in the URL, with the ':'   *)
(* that a lone user name lacks: whatever parseUri cuts at, whatever bytes   *)
(* they have, and whatever was in charArray before the call or is left in   *)
(* it from the group before.                                                *)
CredentialsCarried ==
    LET credentials == IF Has(InfoText, ":") THEN InfoText ELSE Append(InfoText, ":")
    IN  stage = "sent" =>
            IF credentials = <<":">> THEN request.authorization = <<>>
            ELSE Encoder!Carries(request.authorization,
                                 [n \in DOMAIN credentials |-> ByteOf[credentials[n]]])

=============================================================================
