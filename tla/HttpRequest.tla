---------------------------- MODULE HttpRequest ----------------------------
(***************************************************************************)
(* http::Request (include/HTTPRequest/Request.hpp): one Request object, its *)
(* constructor and one call of send(), with the Socket it opens and the     *)
(* peer at the other end of the TCP connection.                             *)
(*                                                                         *)
(* The peer's answer is one sequence of tokens, reply.stream. A token is a  *)
(* byte, or a run of bytes that the parser takes in one piece: a status     *)
(* line without its CRLF, a header field, the digits of a number. TCP       *)
(* delivers in order, so what is buffered is an interval of the stream:     *)
(*                                                                         *)
(*      1 .. pos        erased from responseData                           *)
(*      pos+1 .. recvd  responseData                                       *)
(*      .. arrived      in the kernel's receive buffer                     *)
(*                                                                         *)
(* How the stream is cut into segments is decided by ServerSend and Receive. *)
(***************************************************************************)
EXTENDS Integers, Sequences

CONSTANTS
    Uris,            \* what parseUri makes of the URI: "http", "https", "malformed"
    Replies,         \* the answers a peer may give, see ReplyType
    RequestSize,     \* requestData.size()
    Window,          \* bytes the kernel and the peer buffer before send() blocks
    TempBufferSize,  \* tempBuffer.size(), 4096 in the code
    SizeModulus,     \* 2^64: std::size_t arithmetic wraps at it
    MaxSize,         \* the largest vector reserve() accepts
    Timed            \* TRUE iff send() was given a timeout >= 0

VARIABLES
    pc,                     \* where the caller's thread is
    uri,                    \* Request::uri, abstracted
    endpoint,               \* Socket::endpoint: "invalid", "open", "closed"
    peer,                   \* "absent", "open", "refused", "closed", "reset"
    window,                 \* bytes that ::send accepts before it blocks
    expired,                \* stopTime has passed
    remaining,              \* bytes of requestData not yet sent
    reply,                  \* the answer this peer gives
    arrived, recvd, pos,    \* positions in reply.stream, see above
    headerEndIterator,      \* behind the CRLF of the last field, as a position
    cursor,                 \* the header iterator i, as a position
    parsingBody,
    status,                 \* response.status.code; 0 stands for "never assigned",
                            \* as the member has no initialiser and holds anything
    chunkedResponse,
    contentLengthReceived,
    contentLength,
    expectedChunkSize,
    removeCrlfAfterChunk,
    body,                   \* response.body
    exit                    \* history: why the call ended

netVars   == <<peer, window, expired, arrived>>
sendVars  == <<uri, reply, remaining>>
headVars  == <<headerEndIterator, cursor, parsingBody, status, chunkedResponse,
               contentLengthReceived, contentLength>>
chunkVars == <<expectedChunkSize, removeCrlfAfterChunk>>
vars == <<pc, endpoint, netVars, sendVars, recvd, pos, headVars, chunkVars,
          body, exit>>

----------------------------------------------------------------------------
(* Tokens and searches.                                                     *)

Token == [kind : {"CR", "LF", "status", "encoding", "length", "field",
                  "number", "data"}, val : Int]
CR == [kind |-> "CR", val |-> 0]
LF == [kind |-> "LF", val |-> 0]
crlf == <<CR, LF>>
headerEnd == <<CR, LF, CR, LF>>

(* A reply with the layout its sender gave it: a header of so many lines,   *)
(* the status line included, then the content, whole or in chunks. chunks[k] *)
(* starts at token at + 1, its payload is content from offset from + 1.     *)
(* framing is "broken" when the stream is not what HTTP/1.1 allows. An      *)
(* answer is finite: a peer that never stops sending is not among Replies.  *)
ChunkType == [at : Nat, size : Nat, from : Nat]
ReplyType == [stream : Seq(Token), code : Nat \ {0}, content : Seq(Token),
              framing : {"length", "chunked", "close", "broken"},
              lines : Nat, chunks : Seq(ChunkType)]

ASSUME ConstantsAssumption ==
    /\ Replies \subseteq ReplyType
    /\ RequestSize \in Nat /\ Window \in Nat
    /\ TempBufferSize \in Nat \ {0}
    /\ SizeModulus \in Nat \ {0}
    /\ MaxSize \in 0..(SizeModulus - 1)
    /\ Timed \in BOOLEAN

\* responseData
responseData == SubSeq(reply.stream, pos + 1, recvd)

\* pattern occurs at position i of data
OccursAt(pattern, data, i) ==
    /\ i + Len(pattern) - 1 <= Len(data)
    /\ \A j \in 1..Len(pattern) : data[i + j - 1] = pattern[j]

\* std::search returns end()
NotIn(pattern, data) == \A i \in 1..Len(data) : ~OccursAt(pattern, data, i)

\* std::search returns the position i
FirstAt(pattern, data, i) ==
    /\ OccursAt(pattern, data, i)
    /\ \A j \in 1..(i - 1) : ~OccursAt(pattern, data, j)

\* hexDigitToUint accepts every character of the line
IsHexLine(line) == line = <<>> \/ (Len(line) = 1 /\ line[1].kind = "number")

\* hexStringToUint: the empty line is 0, and the sum wraps
hexStringToUint(line) ==
    IF line = <<>> THEN 0 ELSE line[1].val % SizeModulus

Least(a, b) == IF a < b THEN a ELSE b

Done == pc \in {"returned", "threw"}

----------------------------------------------------------------------------
Init ==
    /\ pc = "construct"
    /\ uri \in Uris
    /\ reply \in Replies
    /\ endpoint = "invalid"
    /\ peer = "absent"
    /\ window = Window
    /\ expired = FALSE
    /\ remaining = RequestSize
    /\ arrived = 0 /\ recvd = 0 /\ pos = 0
    /\ headerEndIterator = 0 /\ cursor = 0
    /\ parsingBody = FALSE
    /\ status = 0
    /\ chunkedResponse = FALSE
    /\ contentLengthReceived = FALSE
    /\ contentLength = 0
    /\ expectedChunkSize = 0
    /\ removeCrlfAfterChunk = FALSE
    /\ body = <<>>
    /\ exit = "none"

(* The call ends; ~Socket() closes the descriptor when there is one.        *)
Leave(how, why) ==
    /\ pc' = how
    /\ exit' = why
    /\ endpoint' = IF endpoint = "open" THEN "closed" ELSE endpoint

(* A parse error: ResponseError out of send().                              *)
Reject == Leave("threw", "rejected")

----------------------------------------------------------------------------
(* Request::Request and the part of send() before the socket.               *)

Construct ==
    /\ pc = "construct"
    /\ IF uri = "malformed"
       THEN Leave("threw", "request")
       ELSE pc' = "resolve" /\ UNCHANGED <<endpoint, exit>>
    /\ UNCHANGED <<netVars, sendVars, recvd, pos, headVars, chunkVars, body>>

\* scheme check, getaddrinfo
Resolve ==
    /\ pc = "resolve"
    /\ \/ /\ uri # "http"
          /\ Leave("threw", "request")
       \/ /\ uri = "http"
          /\ \/ pc' = "socket" /\ UNCHANGED <<endpoint, exit>>
             \/ Leave("threw", "system")
    /\ UNCHANGED <<netVars, sendVars, recvd, pos, headVars, chunkVars, body>>

\* mutant: the constructor of Socket throws without close()
OpenSocketNoClose ==
    /\ pc = "socket"
    /\ \/ pc' = "connect" /\ endpoint' = "open" /\ UNCHANGED exit
       \/ pc' = "threw" /\ endpoint' \in {"invalid", "open"} /\ exit' = "system"
    /\ UNCHANGED <<netVars, sendVars, recvd, pos, headVars, chunkVars, body>>

\* Socket::Socket: when fcntl fails the constructor closes what it opened,
\* because no destructor will
OpenSocket ==
    /\ pc = "socket"
    /\ \/ pc' = "connect" /\ endpoint' = "open" /\ UNCHANGED exit
       \/ pc' = "threw" /\ endpoint' = "invalid" /\ exit' = "system"
       \/ pc' = "threw" /\ endpoint' = "closed" /\ exit' = "system"
    /\ UNCHANGED <<netVars, sendVars, recvd, pos, headVars, chunkVars, body>>

\* ::connect succeeds at once, fails at once, or is in progress
Connect ==
    /\ pc = "connect"
    /\ \/ pc' = "send" /\ peer' = "open" /\ UNCHANGED <<endpoint, exit>>
       \/ Leave("threw", "system") /\ peer' = "refused"
       \/ pc' = "connecting" /\ UNCHANGED <<peer, endpoint, exit>>
    /\ UNCHANGED <<window, expired, arrived, sendVars, recvd, pos, headVars,
                   chunkVars, body>>

\* select(write) returns and SO_ERROR is read
FinishConnect ==
    /\ pc = "connecting"
    /\ peer # "absent"
    /\ IF peer \in {"open", "closed"}
       THEN pc' = "send" /\ UNCHANGED <<endpoint, exit>>
       ELSE Leave("threw", "system")
    /\ UNCHANGED <<netVars, sendVars, recvd, pos, headVars, chunkVars, body>>

\* one turn of the loop "send the request"
SendSome ==
    /\ pc = "send"
    /\ \/ /\ remaining = 0
          /\ pc' = "recv"
          /\ UNCHANGED <<window, remaining, endpoint, exit>>
       \/ /\ remaining > 0
          /\ peer # "reset"
          /\ \E n \in 1..Least(remaining, window) :
                remaining' = remaining - n /\ window' = window - n
          /\ UNCHANGED <<pc, endpoint, exit>>
       \/ /\ remaining > 0
          /\ peer = "reset"
          /\ Leave("threw", "system")
          /\ UNCHANGED <<window, remaining>>
    /\ UNCHANGED <<peer, expired, arrived, uri, reply, recvd, pos, headVars,
                   chunkVars, body>>

\* select, getsockopt, ::send or ::recv returns -1 for a local reason
SystemCallFails ==
    /\ pc \in {"connecting", "send", "recv"}
    /\ pc = "send" => remaining > 0
    /\ Leave("threw", "system")
    /\ UNCHANGED <<netVars, sendVars, recvd, pos, headVars, chunkVars, body>>

\* select() finds nothing to do in the present call
Blocked ==
    \/ pc = "connecting" /\ peer = "absent"
    \/ pc = "send" /\ remaining > 0 /\ window = 0 /\ peer # "reset"
    \/ pc = "recv" /\ arrived = recvd /\ peer \notin {"closed", "reset"}

\* mutant: only connect() is given the remaining time
TimeOutOfConnect ==
    /\ pc = "connecting"
    /\ Timed /\ expired /\ Blocked
    /\ Leave("threw", "timeout")
    /\ UNCHANGED <<netVars, sendVars, recvd, pos, headVars, chunkVars, body>>

\* select() returns 0: ResponseError "Request timed out"
TimeOut ==
    /\ Timed /\ expired /\ Blocked
    /\ Leave("threw", "timeout")
    /\ UNCHANGED <<netVars, sendVars, recvd, pos, headVars, chunkVars, body>>

----------------------------------------------------------------------------
(* The loop "read the response".                                            *)

\* mutant: the whole of tempBuffer is inserted, not the bytes recv returned
ReceiveWholeBuffer ==
    /\ pc = "recv"
    /\ arrived > recvd
    /\ recvd' = recvd + TempBufferSize
    /\ pc' = IF parsingBody THEN "body" ELSE "header"
    /\ UNCHANGED <<endpoint, netVars, sendVars, pos, headVars, chunkVars,
                   body, exit>>

\* socket.recv and the insert into responseData
Receive ==
    /\ pc = "recv"
    /\ arrived > recvd
    /\ recvd' = recvd + Least(arrived - recvd, TempBufferSize)
    /\ pc' = IF parsingBody THEN "body" ELSE "header"
    /\ UNCHANGED <<endpoint, netVars, sendVars, pos, headVars, chunkVars,
                   body, exit>>

\* recv returns 0 ("disconnected") or ECONNRESET
ReceiveEnd ==
    /\ pc = "recv"
    /\ \/ /\ peer = "closed" /\ arrived = recvd
          /\ Leave("returned", "disconnected")
       \/ /\ peer = "reset"
          /\ Leave("threw", "system")
    /\ UNCHANGED <<netVars, sendVars, recvd, pos, headVars, chunkVars, body>>

\* mutant: Response is initialised with the status Ok
HeaderNotFoundOk ==
    /\ pc = "header"
    /\ NotIn(headerEnd, responseData)
    /\ status' = 200
    /\ Leave("returned", "headerless")
    /\ UNCHANGED <<netVars, sendVars, recvd, pos, headerEndIterator, cursor,
                   parsingBody, chunkedResponse, contentLengthReceived, contentLength,
                   chunkVars, body>>

\* "two consecutive CRLFs not found": break leaves the read loop
HeaderNotFound ==
    /\ pc = "header"
    /\ NotIn(headerEnd, responseData)
    /\ Leave("returned", "headerless")
    /\ UNCHANGED <<netVars, sendVars, recvd, pos, headVars, chunkVars, body>>

\* a line of one token and its CRLF, of a kind in kinds, before the end
IsLine(kinds, at, end) ==
    /\ at + 3 <= end
    /\ reply.stream[at + 1].kind \in kinds
    /\ reply.stream[at + 2] = CR
    /\ reply.stream[at + 3] = LF

parseStatusLine ==
    /\ pc = "header"
    /\ \E e \in 1..(recvd - pos) :
          /\ FirstAt(headerEnd, responseData, e)
          /\ headerEndIterator' = pos + e + 1
    /\ IF IsLine({"status"}, pos, headerEndIterator')
       THEN /\ status' = reply.stream[pos + 1].val
            /\ cursor' = pos + 3
            /\ pc' = "fields"
            /\ UNCHANGED <<endpoint, exit>>
       ELSE Reject /\ UNCHANGED <<status, cursor>>
    /\ UNCHANGED <<netVars, sendVars, recvd, pos, parsingBody, chunkedResponse,
                   contentLengthReceived, contentLength, chunkVars, body>>

\* a field send() cannot use: no field at all, an encoding other than
\* chunked, a length that is no number or that reserve() refuses
BadField ==
    \/ ~IsLine({"encoding", "length", "field"}, cursor, headerEndIterator)
    \/ LET f == reply.stream[cursor + 1] IN
       \/ f.kind = "encoding" /\ f.val # 1
       \/ f.kind = "length" /\ (f.val < 0 \/ f.val % SizeModulus > MaxSize)

RejectField ==
    /\ pc = "fields"
    /\ BadField
    /\ Reject
    /\ UNCHANGED <<netVars, sendVars, recvd, pos, headVars, chunkVars, body>>

\* one turn of the field loop, and the erase behind it after the last one
parseHeaderField ==
    /\ pc = "fields"
    /\ ~BadField
    /\ LET f == reply.stream[cursor + 1] IN
       /\ chunkedResponse' = (chunkedResponse \/ f.kind = "encoding")
       /\ contentLengthReceived' = (contentLengthReceived \/ f.kind = "length")
       /\ contentLength' = IF f.kind = "length" THEN f.val % SizeModulus
                                                ELSE contentLength
    /\ cursor' = cursor + 3
    /\ IF cursor' = headerEndIterator
       THEN pos' = headerEndIterator + 2 /\ parsingBody' = TRUE /\ pc' = "body"
       ELSE UNCHANGED <<pos, parsingBody, pc>>
    /\ UNCHANGED <<endpoint, netVars, sendVars, recvd, headerEndIterator, status,
                   chunkVars, body, exit>>

\* mutant: > for >= in the test for the whole content
PlainBodyWaitsForMore ==
    /\ pc = "body"
    /\ ~chunkedResponse
    /\ body' = body \o responseData
    /\ pos' = recvd
    /\ IF contentLengthReceived /\ Len(body') > contentLength
       THEN Leave("returned", "complete")
       ELSE pc' = "recv" /\ UNCHANGED <<endpoint, exit>>
    /\ UNCHANGED <<netVars, sendVars, recvd, headVars, chunkVars>>

\* a body that is not chunked: everything received belongs to it
PlainBody ==
    /\ pc = "body"
    /\ ~chunkedResponse
    /\ body' = body \o responseData
    /\ pos' = recvd
    /\ IF contentLengthReceived /\ Len(body') >= contentLength
       THEN Leave("returned", "complete")
       ELSE pc' = "recv" /\ UNCHANGED <<endpoint, exit>>
    /\ UNCHANGED <<netVars, sendVars, recvd, headVars, chunkVars>>

\* mutant: the CRLF behind the chunk is not marked for removal
ChunkDataKeepsCrlf ==
    /\ pc = "body"
    /\ chunkedResponse
    /\ expectedChunkSize > 0
    /\ LET toWrite == Least(expectedChunkSize, recvd - pos) IN
       /\ body' = body \o SubSeq(reply.stream, pos + 1, pos + toWrite)
       /\ pos' = pos + toWrite
       /\ expectedChunkSize' = expectedChunkSize - toWrite
    /\ pc' = IF pos' = recvd THEN "recv" ELSE "body"
    /\ UNCHANGED <<endpoint, netVars, sendVars, recvd, headVars,
                   removeCrlfAfterChunk, exit>>

\* one turn of the chunk loop inside a chunk
ChunkData ==
    /\ pc = "body"
    /\ chunkedResponse
    /\ expectedChunkSize > 0
    /\ LET toWrite == Least(expectedChunkSize, recvd - pos) IN
       /\ body' = body \o SubSeq(reply.stream, pos + 1, pos + toWrite)
       /\ pos' = pos + toWrite
       /\ expectedChunkSize' = expectedChunkSize - toWrite
       /\ removeCrlfAfterChunk' =
             (removeCrlfAfterChunk \/ expectedChunkSize = toWrite)
    /\ pc' = IF pos' = recvd THEN "recv" ELSE "body"
    /\ UNCHANGED <<endpoint, netVars, sendVars, recvd, headVars, exit>>

\* where the next size line starts, what is received of it and behind it, and
\* the line itself when its CRLF is at position i
SizeLine == pos + IF removeCrlfAfterChunk THEN 2 ELSE 0
SizeData == SubSeq(reply.stream, SizeLine + 1, recvd)
SizeDigits(i) == SubSeq(reply.stream, SizeLine + 1, SizeLine + i - 1)

BetweenChunks == pc = "body" /\ chunkedResponse /\ expectedChunkSize = 0

\* mutant: the CRLF is compared before both of its bytes are there
ChunkCrlfTooEarly ==
    /\ BetweenChunks
    /\ removeCrlfAfterChunk
    /\ ~OccursAt(crlf, responseData, 1)
    /\ Reject
    /\ UNCHANGED <<netVars, sendVars, recvd, pos, headVars, chunkVars, body>>

\* the CRLF behind a chunk is not there yet, or it is something else
ChunkCrlf ==
    /\ BetweenChunks
    /\ removeCrlfAfterChunk
    /\ \/ /\ recvd - pos < 2
          /\ pc' = "recv" /\ UNCHANGED <<endpoint, exit>>
       \/ /\ recvd - pos >= 2
          /\ ~OccursAt(crlf, responseData, 1)
          /\ Reject
    /\ UNCHANGED <<netVars, sendVars, recvd, pos, headVars, chunkVars, body>>

\* mutant: the LF of the size line is not erased
ChunkSizeKeepsLf ==
    /\ BetweenChunks
    /\ removeCrlfAfterChunk => OccursAt(crlf, responseData, 1)
    /\ removeCrlfAfterChunk' = FALSE
    /\ \/ /\ NotIn(crlf, SizeData)
          /\ pos' = SizeLine
          /\ pc' = "recv"
          /\ UNCHANGED <<expectedChunkSize, endpoint, exit>>
       \/ \E i \in 1..(recvd - SizeLine) :
          /\ FirstAt(crlf, SizeData, i)
          /\ expectedChunkSize' = hexStringToUint(SizeDigits(i))
          /\ pos' = SizeLine + i
          /\ IF expectedChunkSize' = 0
             THEN Leave("returned", "complete")
             ELSE UNCHANGED <<pc, endpoint, exit>>
    /\ UNCHANGED <<netVars, sendVars, recvd, headVars, body>>

\* one turn of the chunk loop between chunks, past the check of the CRLF: the
\* size line is not complete, is no number, or gives the size of the chunk
ChunkSize ==
    /\ BetweenChunks
    /\ removeCrlfAfterChunk => OccursAt(crlf, responseData, 1)
    /\ removeCrlfAfterChunk' = FALSE
    /\ \/ /\ NotIn(crlf, SizeData)
          /\ pos' = SizeLine
          /\ pc' = "recv"
          /\ UNCHANGED <<expectedChunkSize, endpoint, exit>>
       \/ \E i \in 1..(recvd - SizeLine) :
          /\ FirstAt(crlf, SizeData, i)
          /\ ~IsHexLine(SizeDigits(i))
          /\ pos' = SizeLine
          /\ Reject
          /\ UNCHANGED expectedChunkSize
       \/ \E i \in 1..(recvd - SizeLine) :
          /\ FirstAt(crlf, SizeData, i)
          /\ IsHexLine(SizeDigits(i))
          /\ expectedChunkSize' = hexStringToUint(SizeDigits(i))
          /\ pos' = SizeLine + i + 1
          /\ IF expectedChunkSize' = 0
             THEN Leave("returned", "complete")
             ELSE UNCHANGED <<pc, endpoint, exit>>
    /\ UNCHANGED <<netVars, sendVars, recvd, headVars, body>>

----------------------------------------------------------------------------
(* The peer, the network and the clock.                                     *)

\* the connection attempt is answered while connect() waits
Answer ==
    /\ pc = "connecting"
    /\ peer = "absent"
    /\ peer' \in {"open", "refused"}
    /\ UNCHANGED <<pc, endpoint, window, expired, arrived, sendVars, recvd, pos,
                   headVars, chunkVars, body, exit>>

\* some more of the answer arrives: any cut of it into segments
ServerSend ==
    /\ endpoint = "open" /\ peer = "open"
    /\ arrived' \in (arrived + 1)..Len(reply.stream)
    /\ UNCHANGED <<pc, endpoint, peer, window, expired, sendVars, recvd, pos,
                   headVars, chunkVars, body, exit>>

\* the peer reads what was sent
ServerRead ==
    /\ endpoint = "open" /\ peer = "open"
    /\ window < Window
    /\ window' = Window
    /\ UNCHANGED <<pc, endpoint, peer, expired, arrived, sendVars, recvd, pos,
                   headVars, chunkVars, body, exit>>

\* FIN or RST, at any point of the answer
ServerLeave ==
    /\ endpoint = "open" /\ peer = "open"
    /\ peer' \in {"closed", "reset"}
    /\ UNCHANGED <<pc, endpoint, window, expired, arrived, sendVars, recvd, pos,
                   headVars, chunkVars, body, exit>>

DeadlinePasses ==
    /\ Timed /\ ~expired /\ ~Done
    /\ expired' = TRUE
    /\ UNCHANGED <<pc, endpoint, peer, window, arrived, sendVars, recvd, pos,
                   headVars, chunkVars, body, exit>>

----------------------------------------------------------------------------
Client ==
    \/ Construct \/ Resolve \/ OpenSocket \/ Connect \/ FinishConnect
    \/ SendSome \/ TimeOut
    \/ Receive \/ ReceiveEnd
    \/ HeaderNotFound \/ parseStatusLine \/ RejectField \/ parseHeaderField
    \/ PlainBody \/ ChunkData \/ ChunkCrlf \/ ChunkSize

Environment ==
    \/ SystemCallFails
    \/ Answer \/ ServerSend \/ ServerRead \/ ServerLeave
    \/ DeadlinePasses

Next == Client \/ Environment

Spec == Init /\ [][Next]_vars

(* The caller's thread runs when it is not blocked in select(); the kernel  *)
(* gives up on a connection attempt that nobody answers. Nothing is assumed *)
(* of the peer but that its answer is finite, no system call has to fail,   *)
(* and the deadline need not pass: a request whose deadline is still to     *)
(* come is one without a timeout.                                           *)
FairSpec ==
    /\ Spec
    /\ WF_vars(Client)
    /\ WF_vars(Answer)

----------------------------------------------------------------------------
(* What a peer must send for send() to be able to read it. A chunk size     *)
(* that wraps is left out, and so is a chunk extension: send() throws at it. *)

\* a line is a token and CRLF, and the empty line is CRLF
HeadSize(r) == 3 * r.lines + 2

\* a status line, at least one field, the empty line. (send() throws on an
\* answer without any field, so such an answer is not among these.)
WellFormedHead(r) ==
    LET field(n) == r.stream[3 * n + 1] IN
    /\ r.lines >= 2
    /\ HeadSize(r) <= Len(r.stream)
    /\ r.stream[3 * r.lines + 1] = CR /\ r.stream[3 * r.lines + 2] = LF
    /\ field(0).kind = "status" /\ field(0).val = r.code
    /\ \A n \in 0..(r.lines - 1) :
          /\ n > 0 => field(n).kind \in {"encoding", "length", "field"}
          /\ r.stream[3 * n + 2] = CR /\ r.stream[3 * n + 3] = LF
          /\ field(n).kind = "encoding" => r.framing = "chunked" /\ field(n).val = 1
          /\ field(n).kind = "length" =>
                /\ field(n).val \in 0..MaxSize
                /\ r.framing # "close"
                /\ r.framing = "length" => field(n).val = Len(r.content)
    /\ r.framing = "chunked" =>
          \E n \in 1..(r.lines - 1) : field(n).kind = "encoding"
    /\ r.framing = "length" =>
          \E n \in 1..(r.lines - 1) : field(n).kind = "length"

\* the content behind the header, whole
WellFormedPlain(r) ==
    /\ Len(r.stream) = HeadSize(r) + Len(r.content)
    /\ \A j \in 1..Len(r.content) : r.stream[HeadSize(r) + j] = r.content[j]

\* the content in chunks: size line, payload, CRLF; the last chunk is empty
WellFormedChunks(r) ==
    LET n == Len(r.chunks) IN
    /\ n > 0
    /\ r.chunks[1].at = HeadSize(r) /\ r.chunks[1].from = 0
    /\ r.chunks[n].size = 0
    /\ r.chunks[n].from = Len(r.content)
    /\ Len(r.stream) >= r.chunks[n].at + 3
    /\ \A k \in 1..n :
          LET c == r.chunks[k] IN
          /\ r.stream[c.at + 1] = [kind |-> "number", val |-> c.size]
          /\ r.stream[c.at + 2] = CR /\ r.stream[c.at + 3] = LF
          /\ c.size < SizeModulus
          /\ k < n =>
                /\ c.size > 0
                /\ r.chunks[k + 1].at = c.at + c.size + 5
                /\ r.chunks[k + 1].at < Len(r.stream)
                /\ r.chunks[k + 1].from = c.from + c.size
                /\ r.chunks[k + 1].from <= Len(r.content)
                /\ \A j \in 1..c.size :
                      r.stream[c.at + 3 + j] = r.content[c.from + j]
                /\ r.stream[c.at + c.size + 4] = CR
                /\ r.stream[c.at + c.size + 5] = LF

WellFramed(r) ==
    /\ r.framing # "broken"
    /\ WellFormedHead(r)
    /\ IF r.framing = "chunked" THEN WellFormedChunks(r) ELSE WellFormedPlain(r)

----------------------------------------------------------------------------
(* Properties.                                                              *)

TypeOK ==
    /\ pc \in {"construct", "resolve", "socket", "connect", "connecting",
               "send", "recv", "header", "fields", "body", "returned", "threw"}
    /\ uri \in Uris
    /\ reply \in Replies
    /\ endpoint \in {"invalid", "open", "closed"}
    /\ peer \in {"absent", "open", "refused", "closed", "reset"}
    /\ window \in 0..Window
    /\ expired \in BOOLEAN
    /\ remaining \in 0..RequestSize
    /\ arrived \in 0..Len(reply.stream)
    /\ recvd \in 0..arrived
    /\ pos \in 0..recvd
    /\ headerEndIterator \in 0..recvd
    /\ cursor \in 0..recvd
    /\ parsingBody \in BOOLEAN
    /\ status \in Int
    /\ chunkedResponse \in BOOLEAN
    /\ contentLengthReceived \in BOOLEAN
    /\ contentLength \in Nat
    /\ expectedChunkSize \in Nat
    /\ removeCrlfAfterChunk \in BOOLEAN
    /\ body \in Seq(Token)
    /\ exit \in {"none", "request", "system", "timeout", "rejected",
                 "disconnected", "headerless", "complete"}

(* However TCP cuts a well-framed answer into segments, and wherever it     *)
(* breaks off, response.body is at every moment a prefix of the content the *)
(* peer sent: the chunk loop never takes a size line, a CRLF or a trailer   *)
(* for payload, nor payload for one of these, even when the payload holds   *)
(* CRLFs and digits.                                                        *)
BodyIsPrefix ==
    WellFramed(reply) =>
        /\ Len(body) <= Len(reply.content)
        /\ body = SubSeq(reply.content, 1, Len(body))

(* When send() returns because it found the end of the content ("got the   *)
(* whole content", or the chunk of size 0), a well-framed answer has been   *)
(* read in full and with its own status.                                    *)
CompleteIsWhole ==
    exit = "complete" /\ WellFramed(reply) =>
        body = reply.content /\ status = reply.code

(* No segmentation of a well-framed answer makes the parser throw: every    *)
(* partial read waits for more bytes instead of being taken for an error.   *)
WellFramedAccepted == exit = "rejected" => ~WellFramed(reply)

(* The descriptor is closed on every way out of send(), those through the   *)
(* constructor of Socket included, where no destructor runs.                *)
SocketReleased == Done => endpoint # "open"

(* A request with a timeout ends if the peer's answer does: past the        *)
(* deadline every wait is a poll (getRemainingMilliseconds is 0), so        *)
(* nothing that the peer omits to do keeps send() waiting, in whatever      *)
(* state it is. The deadline is a timeout of select() and no more: a peer   *)
(* that keeps the socket readable for ever is not cut off.                  *)
TimedRequestEnds == expired ~> Done

(* Even if no deadline passes, as none does where whip.cpp calls it, send() *)
(* ends once the peer is gone: after a reset in whatever state it was,      *)
(* after an orderly close as soon as the request is out. (A peer that       *)
(* closes its side and never reads blocks ::send for good.) And it ends     *)
(* when an answer that carries its own end has arrived, without waiting for *)
(* the peer to close.                                                       *)
EndsUnaided ==
    ( \/ peer = "reset" \/ (peer = "closed" /\ remaining = 0)
      \/ /\ pc = "recv" /\ WellFramed(reply) /\ reply.framing # "close"
         /\ arrived = Len(reply.stream) ) ~> Done

(* send() reads up to the empty line that ends the header section before it *)
(* returns an answer to a peer that is still connected.                     *)
HeaderReadBeforeReturn ==
    pc = "returned" /\ peer = "open" => status = reply.code

----------------------------------------------------------------------------
AnswerOf(r) == [framed |-> WellFramed(r), code |-> r.code, content |-> r.content]

Call == INSTANCE HttpCall WITH
    Answers <- {AnswerOf(r) : r \in Replies},
    call    <- IF Done THEN pc ELSE "pending",
    answer  <- AnswerOf(reply),
    status  <- IF pc = "returned" THEN status ELSE 0,
    body    <- IF pc = "returned" THEN body ELSE <<>>

(* send() implements the call that HttpCall describes: it ends once, what it *)
(* returned does not change afterwards, and a status is never paired with   *)
(* content of which it is not the status.                                   *)
ImplementsHttpCall == Call!Spec

=============================================================================
