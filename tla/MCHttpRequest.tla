--------------------------- MODULE MCHttpRequest ---------------------------
(***************************************************************************)
(* Replies for HttpRequest: well-framed ones whose payload looks like       *)
(* framing (CR, LF, digits), and broken ones for every way send() gives up. *)
(***************************************************************************)
EXTENDS HttpRequest, SequencesExt

Tok(k, v) == [kind |-> k, val |-> v]
Line(k, v) == <<Tok(k, v)>> \o crlf
d(n) == Tok("data", n)

HeaderOf(code, fields) ==
    Line("status", code) \o FlattenSeq(<<<<>>>> \o fields) \o crlf

Plain(code, framing, fields, content) ==
    [stream |-> HeaderOf(code, fields) \o content, code |-> code,
     content |-> content, framing |-> framing,
     lines |-> Len(fields) + 1, chunks |-> <<>>]

\* the layout of payloads cut into chunks, the empty last one included
Chunked(code, fields, payloads) ==
    LET h == HeaderOf(code, fields)
        all == payloads \o <<<<>>>>
        laid[k \in 0..Len(payloads)] ==
            IF k = 0 THEN <<>>
            ELSE laid[k-1] \o Line("number", Len(all[k])) \o all[k] \o crlf
        sent[k \in 0..Len(payloads)] ==
            IF k = 0 THEN <<>> ELSE sent[k-1] \o all[k]
        n == Len(payloads)
    IN [stream |-> h \o laid[n] \o Line("number", 0) \o crlf, code |-> code,
        content |-> sent[n], framing |-> "chunked", lines |-> Len(fields) + 1,
        chunks |-> [k \in 1..(n + 1) |->
                       [at |-> Len(h) + Len(laid[k-1]), size |-> Len(all[k]),
                        from |-> Len(sent[k-1])]]]

Broken(stream) ==
    [stream |-> stream, code |-> 200, content |-> <<>>, framing |-> "broken",
     lines |-> 0, chunks |-> <<>>]

ChunkHead == HeaderOf(200, <<Line("encoding", 1)>>)

WellFramedReplies ==
    { Plain(200, "length", <<Line("length", 3)>>, <<d(1), CR, LF>>),
      Plain(404, "length", <<Line("field", 0), Line("length", 0)>>, <<>>),
      Plain(200, "close", <<Line("field", 0)>>, <<d(1), d(2)>>),
      Chunked(201, <<Line("encoding", 1)>>, <<<<d(1), CR>>, <<LF, Tok("number", 0)>>>>),
      Chunked(500, <<Line("length", 1), Line("encoding", 1)>>, <<<<CR, LF, d(1)>>>>),
      Chunked(200, <<Line("encoding", 1)>>, <<>>) }

BrokenReplies ==
    { Broken(Line("field", 0) \o Line("field", 0) \o crlf),
      Broken(Line("status", 200) \o crlf),
      Broken(HeaderOf(200, <<Line("encoding", 0)>>)),
      Broken(HeaderOf(200, <<Line("length", -1)>>)),
      Broken(HeaderOf(200, <<Line("length", MaxSize + 1)>>)),
      Broken(ChunkHead \o Line("data", 0)),
      Broken(ChunkHead \o Line("number", 1) \o <<d(1), d(2), d(3)>>),
      Broken(ChunkHead \o Line("number", SizeModulus) \o <<d(1)>>),
      Broken(<<d(1), d(2)>>) }

AllReplies == WellFramedReplies \cup BrokenReplies

ASSUME RepliesWellTyped ==
    /\ AllReplies \subseteq ReplyType
    /\ \A r \in WellFramedReplies : WellFramed(r)
    /\ \A r \in BrokenReplies : ~WellFramed(r)

=============================================================================
