------------------------- MODULE HttpRequestProofs --------------------------
(***************************************************************************)
(* What holds of HttpRequest, for every set of replies, every buffer size   *)
(* and every way TCP cuts the answer: type correctness; the invariant that  *)
(* says where the parser is in a well-framed answer, and the steps that     *)
(* leave it where it is; the steps through the header and the body, which   *)
(* keep it; and the properties that follow from it.                         *)
(***************************************************************************)
EXTENDS HttpRequest, SequenceTheorems, TLAPS

----------------------------------------------------------------------------
(* Sequences and searches.                                                  *)

(* The interval a+1..b of a sequence has b - a elements, in order; this is  *)
(* what responseData is to reply.stream.                                    *)
LEMMA Interval ==
    ASSUME NEW s \in Seq(Token), NEW a \in Nat, NEW b \in Nat, a <= b, b <= Len(s)
    PROVE  /\ SubSeq(s, a + 1, b) \in Seq(Token)
           /\ Len(SubSeq(s, a + 1, b)) = b - a
           /\ \A i \in 1..(b - a) : SubSeq(s, a + 1, b)[i] = s[a + i]
OBVIOUS

(* A token is a record with an integer.                                     *)
LEMMA TokenFields ==
    ASSUME NEW s \in Seq(Token), NEW i \in 1..Len(s)
    PROVE  s[i] \in Token /\ s[i].val \in Int
<1>1. s[i] \in Token
    OBVIOUS
<1> QED BY <1>1 DEF Token

(* The parts of a reply.                                                    *)
LEMMA ReplyFields ==
    ASSUME NEW r \in Replies
    PROVE  /\ r.stream \in Seq(Token) /\ Len(r.stream) \in Nat
           /\ r.content \in Seq(Token) /\ Len(r.content) \in Nat
           /\ r.chunks \in Seq(ChunkType)
           /\ r.code \in Nat \ {0} /\ r.lines \in Nat
           /\ r.framing \in {"length", "chunked", "close", "broken"}
BY ConstantsAssumption DEF ReplyType

----------------------------------------------------------------------------
(* Type correctness.                                                        *)

(* While fields are parsed the empty line has been received: this is what   *)
(* keeps the erase behind the last field inside responseData.               *)
HeaderReceived == pc = "fields" => headerEndIterator + 2 <= recvd

(* The positions, as numbers in order.                                      *)
LEMMA Positions ==
    ASSUME TypeOK
    PROVE  /\ reply \in Replies
           /\ reply.stream \in Seq(Token) /\ Len(reply.stream) \in Nat
           /\ pos \in Nat /\ recvd \in Nat /\ arrived \in Nat
           /\ pos <= recvd /\ recvd <= arrived /\ arrived <= Len(reply.stream)
           /\ cursor \in Nat /\ cursor <= recvd
           /\ headerEndIterator \in Nat /\ headerEndIterator <= recvd
           /\ expectedChunkSize \in Nat /\ contentLength \in Nat
<1>1. reply \in Replies
    BY DEF TypeOK
<1>2. reply.stream \in Seq(Token) /\ Len(reply.stream) \in Nat
    BY <1>1, ReplyFields
<1> QED BY <1>1, <1>2 DEF TypeOK

(* responseData is the interval pos+1..recvd of the stream.                 *)
LEMMA Buffered ==
    ASSUME TypeOK
    PROVE  /\ responseData \in Seq(Token)
           /\ Len(responseData) = recvd - pos
           /\ \A i \in 1..(recvd - pos) : responseData[i] = reply.stream[pos + i]
<1>1. recvd <= Len(reply.stream)
    BY Positions
<1> QED BY Positions, <1>1, Interval DEF responseData

(* An occurrence of headerEnd in responseData lies within it.               *)
LEMMA HeaderEndInside ==
    ASSUME TypeOK, NEW e \in 1..(recvd - pos), OccursAt(headerEnd, responseData, e)
    PROVE  e + 3 <= recvd - pos
<1>1. Len(headerEnd) = 4
    BY DEF headerEnd
<1> QED BY <1>1, Buffered, Positions DEF OccursAt

(* What the chunk loop sees of the next size line.                          *)
LEMMA SizeLineInside ==
    ASSUME TypeOK, removeCrlfAfterChunk => OccursAt(crlf, responseData, 1)
    PROVE  /\ SizeLine \in Nat /\ pos <= SizeLine /\ SizeLine <= recvd
           /\ SizeData \in Seq(Token)
           /\ Len(SizeData) = recvd - SizeLine
           /\ \A i \in 1..(recvd - SizeLine) : SizeData[i] = reply.stream[SizeLine + i]
           /\ \A i \in 1..(recvd - SizeLine) :
                 FirstAt(crlf, SizeData, i) => SizeLine + i + 1 <= recvd
           /\ \A i \in 1..(recvd - SizeLine) :
                 /\ SizeDigits(i) \in Seq(Token)
                 /\ Len(SizeDigits(i)) = i - 1
                 /\ \A j \in 1..(i - 1) : SizeDigits(i)[j] = reply.stream[SizeLine + j]
<1>0. Len(crlf) = 2
    BY DEF crlf
<1>1. SizeLine \in Nat /\ pos <= SizeLine /\ SizeLine <= recvd
    <2>1. removeCrlfAfterChunk => 2 <= recvd - pos
        BY <1>0, Buffered DEF OccursAt
    <2> QED BY <2>1, Positions DEF SizeLine
<1>2. /\ SizeData \in Seq(Token)
      /\ Len(SizeData) = recvd - SizeLine
      /\ \A i \in 1..(recvd - SizeLine) : SizeData[i] = reply.stream[SizeLine + i]
    <2>1. recvd <= Len(reply.stream)
        BY Positions
    <2> QED BY <1>1, <2>1, Positions, Interval DEF SizeData
<1>3. ASSUME NEW i \in 1..(recvd - SizeLine), FirstAt(crlf, SizeData, i)
      PROVE  SizeLine + i + 1 <= recvd
    <2>1. i + Len(crlf) - 1 <= Len(SizeData)
        BY <1>3 DEF FirstAt, OccursAt
    <2>2. recvd \in Nat
        BY Positions
    <2> QED BY <1>0, <1>1, <1>2, <2>1, <2>2
<1>4. ASSUME NEW i \in 1..(recvd - SizeLine)
      PROVE  /\ SizeDigits(i) \in Seq(Token)
             /\ Len(SizeDigits(i)) = i - 1
             /\ \A j \in 1..(i - 1) : SizeDigits(i)[j] = reply.stream[SizeLine + j]
    <2>1. SizeLine + i - 1 \in Nat /\ SizeLine <= SizeLine + i - 1
          /\ SizeLine + i - 1 <= Len(reply.stream)
          /\ (SizeLine + i - 1) - SizeLine = i - 1
        BY <1>1, Positions
    <2>2. /\ SubSeq(reply.stream, SizeLine + 1, SizeLine + i - 1) \in Seq(Token)
          /\ Len(SubSeq(reply.stream, SizeLine + 1, SizeLine + i - 1))
                = (SizeLine + i - 1) - SizeLine
          /\ \A j \in 1..((SizeLine + i - 1) - SizeLine) :
                SubSeq(reply.stream, SizeLine + 1, SizeLine + i - 1)[j]
                    = reply.stream[SizeLine + j]
        BY <1>1, <2>1, Positions, Interval, ZenonT(30)
    <2> QED BY <2>1, <2>2 DEF SizeDigits
<1> QED BY <1>1, <1>2, <1>3, <1>4

(* hexStringToUint gives a std::size_t.                                     *)
LEMMA HexIsNat ==
    ASSUME NEW l \in Seq(Token), IsHexLine(l)
    PROVE  hexStringToUint(l) \in Nat
<1>1. CASE l = <<>>
    BY <1>1 DEF hexStringToUint
<1>2. CASE l # <<>>
    <2>1. l[1].val \in Int
        BY <1>2, TokenFields DEF IsHexLine
    <2>2. l[1].val % SizeModulus \in Nat
        BY <2>1, ConstantsAssumption
    <2> QED BY <1>2, <2>2 DEF hexStringToUint
<1> QED BY <1>1, <1>2

(* Initially everything is empty.                                           *)
LEMMA InitType == Init => TypeOK /\ HeaderReceived
<1> SUFFICES ASSUME Init PROVE TypeOK /\ HeaderReceived
    OBVIOUS
<1>1. reply \in Replies /\ Len(reply.stream) \in Nat
    BY ReplyFields DEF Init
<1>2. body \in Seq(Token)
    BY DEF Init
<1>3. /\ arrived \in 0..Len(reply.stream) /\ recvd \in 0..arrived
      /\ pos \in 0..recvd /\ headerEndIterator \in 0..recvd /\ cursor \in 0..recvd
    BY <1>1 DEF Init
<1>4. /\ window \in 0..Window /\ remaining \in 0..RequestSize
      /\ status \in Int /\ contentLength \in Nat /\ expectedChunkSize \in Nat
    BY ConstantsAssumption DEF Init
<1> QED BY <1>1, <1>2, <1>3, <1>4 DEF Init, TypeOK, HeaderReceived

(* Every step keeps the types, and the empty line behind the fields.        *)
LEMMA NextType ==
    TypeOK /\ HeaderReceived /\ [Next]_vars => TypeOK' /\ HeaderReceived'
<1> SUFFICES ASSUME TypeOK, HeaderReceived, [Next]_vars
             PROVE  TypeOK' /\ HeaderReceived'
    OBVIOUS
<1> USE DEF netVars, sendVars, headVars, chunkVars
<1>1. CASE Construct
    BY <1>1 DEF Construct, Leave, TypeOK, HeaderReceived
<1>2. CASE Resolve
    BY <1>2 DEF Resolve, Leave, TypeOK, HeaderReceived
<1>3. CASE OpenSocket
    BY <1>3 DEF OpenSocket, Leave, TypeOK, HeaderReceived
<1>4. CASE Connect
    BY <1>4 DEF Connect, Leave, TypeOK, HeaderReceived
<1>5. CASE FinishConnect
    BY <1>5 DEF FinishConnect, Leave, TypeOK, HeaderReceived
<1>6. CASE SendSome
    BY <1>6, ConstantsAssumption DEF SendSome, Leave, Least, TypeOK, HeaderReceived
<1>7. CASE TimeOut
    BY <1>7 DEF TimeOut, Leave, TypeOK, HeaderReceived
<1>8. CASE Receive
    BY <1>8, ConstantsAssumption DEF Receive, Least, TypeOK, HeaderReceived
<1>9. CASE ReceiveEnd
    BY <1>9 DEF ReceiveEnd, Leave, TypeOK, HeaderReceived
<1>10. CASE HeaderNotFound
    BY <1>10 DEF HeaderNotFound, Leave, TypeOK, HeaderReceived
<1>11. CASE parseStatusLine
    <2>1. PICK e \in 1..(recvd - pos) :
             /\ OccursAt(headerEnd, responseData, e)
             /\ headerEndIterator' = pos + e + 1
        BY <1>11 DEF parseStatusLine, FirstAt
    <2>2. headerEndIterator' \in 0..recvd /\ headerEndIterator' + 2 <= recvd
        <3>1. e + 3 <= recvd - pos
            BY <2>1, HeaderEndInside
        <3>2. pos \in Nat /\ recvd \in Nat
            BY Positions
        <3> QED BY <2>1, <3>1, <3>2
    <2>3. ASSUME IsLine({"status"}, pos, headerEndIterator') PROVE pos + 3 \in 0..recvd
        <3>1. pos + 3 <= headerEndIterator'
            BY <2>3 DEF IsLine
        <3>2. pos \in Nat /\ recvd \in Nat
            BY Positions
        <3> QED BY <2>2, <3>1, <3>2
    <2>4. reply.stream[pos + 1].val \in Int
        <3>1. /\ reply.stream \in Seq(Token) /\ Len(reply.stream) \in Nat
              /\ pos \in Nat /\ recvd \in Nat /\ recvd <= Len(reply.stream)
            BY Positions
        <3>2. e \in Nat /\ e >= 1 /\ e <= recvd - pos
            BY <2>1, <3>1
        <3>3. pos + 1 \in 1..Len(reply.stream)
            BY <3>1, <3>2
        <3> QED BY <3>1, <3>3, TokenFields
    <2>5. /\ cursor' \in 0..recvd /\ status' \in Int
          /\ pc' \in {"fields", "threw"}
          /\ endpoint' \in {"invalid", "open", "closed"}
          /\ exit' \in {exit, "rejected"}
        BY <1>11, <2>3, <2>4 DEF parseStatusLine, Reject, Leave, TypeOK
    <2> QED BY <1>11, <2>2, <2>5 DEF parseStatusLine, TypeOK, HeaderReceived
<1>12. CASE RejectField
    BY <1>12 DEF RejectField, Reject, Leave, TypeOK, HeaderReceived
<1>13. CASE parseHeaderField
    <2>1. cursor + 3 <= headerEndIterator
        BY <1>13 DEF parseHeaderField, BadField, IsLine
    <2>2. reply.stream[cursor + 1].val \in Int
        BY <2>1, Positions, TokenFields
    <2>3. contentLength' \in Nat
        <3>1. reply.stream[cursor + 1].val % SizeModulus \in Nat
            BY <2>2, ConstantsAssumption
        <3> QED BY <1>13, <3>1, Positions DEF parseHeaderField
    <2>4. /\ chunkedResponse' \in BOOLEAN
          /\ contentLengthReceived' \in BOOLEAN
          /\ parsingBody' \in BOOLEAN
        BY <1>13 DEF parseHeaderField, TypeOK
    <2>5. cursor' \in 0..recvd /\ pos' \in 0..recvd /\ pc' \in {"fields", "body"}
        BY <1>13, <2>1, Positions DEF parseHeaderField, HeaderReceived, TypeOK
    <2> QED BY <1>13, <2>3, <2>4, <2>5 DEF parseHeaderField, TypeOK, HeaderReceived
<1>14. CASE PlainBody
    <2>1. body' \in Seq(Token)
        BY <1>14, Buffered DEF PlainBody, TypeOK
    <2> QED BY <1>14, <2>1, Positions DEF PlainBody, Leave, TypeOK, HeaderReceived
<1>15. CASE ChunkData
    <2> DEFINE n == Least(expectedChunkSize, recvd - pos)
    <2>1. n \in Nat /\ n <= recvd - pos /\ n <= expectedChunkSize
        BY Positions DEF Least
    <2>2. SubSeq(reply.stream, pos + 1, pos + n) \in Seq(Token)
        <3>1. pos + n \in Nat /\ pos <= pos + n /\ pos + n <= Len(reply.stream)
            BY <2>1, Positions
        <3> HIDE DEF n
        <3> QED BY <3>1, Positions, Interval
    <2>3. /\ body' = body \o SubSeq(reply.stream, pos + 1, pos + n)
          /\ pos' = pos + n
          /\ expectedChunkSize' = expectedChunkSize - n
          /\ removeCrlfAfterChunk' \in BOOLEAN
        BY <1>15 DEF ChunkData, TypeOK
    <2> HIDE DEF n
    <2>4. body' \in Seq(Token) /\ pos' \in 0..recvd /\ expectedChunkSize' \in Nat
        BY <2>1, <2>2, <2>3, Positions DEF TypeOK
    <2>5. pc' \in {"recv", "body"}
        BY <1>15 DEF ChunkData
    <2> QED BY <1>15, <2>3, <2>4, <2>5 DEF ChunkData, TypeOK, HeaderReceived
<1>16. CASE ChunkCrlf
    BY <1>16 DEF ChunkCrlf, BetweenChunks, Reject, Leave, TypeOK, HeaderReceived
<1>17. CASE ChunkSize
    <2>1. removeCrlfAfterChunk => OccursAt(crlf, responseData, 1)
        BY <1>17 DEF ChunkSize
    <2>2. pos' \in 0..recvd /\ expectedChunkSize' \in Nat
        <3>1. CASE NotIn(crlf, SizeData) /\ pos' = SizeLine /\ UNCHANGED expectedChunkSize
            BY <2>1, <3>1, SizeLineInside, Positions
        <3>2. ASSUME NEW i \in 1..(recvd - SizeLine), FirstAt(crlf, SizeData, i),
                     pos' = SizeLine, UNCHANGED expectedChunkSize
              PROVE  pos' \in 0..recvd /\ expectedChunkSize' \in Nat
            BY <2>1, <3>2, SizeLineInside, Positions
        <3>3. ASSUME NEW i \in 1..(recvd - SizeLine), FirstAt(crlf, SizeData, i),
                     IsHexLine(SizeDigits(i)),
                     expectedChunkSize' = hexStringToUint(SizeDigits(i)),
                     pos' = SizeLine + i + 1
              PROVE  pos' \in 0..recvd /\ expectedChunkSize' \in Nat
            <4>1. SizeDigits(i) \in Seq(Token) /\ SizeLine + i + 1 <= recvd
                  /\ SizeLine \in Nat
                BY <2>1, <3>3, SizeLineInside
            <4>2. expectedChunkSize' \in Nat
                BY <3>3, <4>1, HexIsNat
            <4> QED BY <3>3, <4>1, <4>2, Positions
        <3> QED BY <1>17, <3>1, <3>2, <3>3 DEF ChunkSize
    <2>3. /\ pc' \in {"recv", "body", "threw", "returned"}
          /\ endpoint' \in {"invalid", "open", "closed"}
          /\ exit' \in {exit, "rejected", "complete"}
          /\ removeCrlfAfterChunk' \in BOOLEAN
        BY <1>17 DEF ChunkSize, BetweenChunks, Reject, Leave, TypeOK
    <2> QED BY <1>17, <2>2, <2>3 DEF ChunkSize, TypeOK, HeaderReceived
<1>18. CASE SystemCallFails
    BY <1>18 DEF SystemCallFails, Leave, TypeOK, HeaderReceived
<1>19. CASE Answer
    BY <1>19 DEF Answer, TypeOK, HeaderReceived
<1>20. CASE ServerSend
    BY <1>20 DEF ServerSend, TypeOK, HeaderReceived
<1>21. CASE ServerRead
    BY <1>21, ConstantsAssumption DEF ServerRead, TypeOK, HeaderReceived
<1>22. CASE ServerLeave
    BY <1>22 DEF ServerLeave, TypeOK, HeaderReceived
<1>23. CASE DeadlinePasses
    BY <1>23 DEF DeadlinePasses, TypeOK, HeaderReceived
<1>24. CASE UNCHANGED vars
    BY <1>24 DEF vars, TypeOK, HeaderReceived
<1> QED
    BY <1>1, <1>2, <1>3, <1>4, <1>5, <1>6, <1>7, <1>8, <1>9, <1>10, <1>11,
       <1>12, <1>13, <1>14, <1>15, <1>16, <1>17, <1>18, <1>19, <1>20, <1>21,
       <1>22, <1>23, <1>24 DEF Next, Client, Environment

(* The types of all variables hold in every reachable state: in particular  *)
(* the positions stay in order, pos <= recvd <= arrived, so that no erase,   *)
(* insert or search in send() leaves responseData.                          *)
THEOREM TypeCorrect == Spec => []TypeOK
<1>1. TypeOK /\ HeaderReceived /\ [Next]_vars => TypeOK' /\ HeaderReceived'
    BY NextType
<1> QED BY InitType, <1>1, PTL DEF Spec

----------------------------------------------------------------------------
(* The framing invariant: where the parser is in a well-framed answer. It   *)
(* is stronger than the properties because they say nothing of pos: a size  *)
(* line is read as one only because pos is where the peer put one.          *)

Field(n) == reply.stream[3 * n + 1]

\* nothing is taken before the header is read
BeforeBody ==
    ~parsingBody =>
        /\ pos = 0 /\ body = <<>>
        /\ expectedChunkSize = 0 /\ ~removeCrlfAfterChunk
        /\ pc # "fields" =>
              status = 0 /\ ~chunkedResponse /\ ~contentLengthReceived

\* between two fields: the flags tell what the fields so far said
InFields ==
    pc = "fields" =>
        /\ headerEndIterator = 3 * reply.lines
        /\ HeadSize(reply) <= recvd
        /\ status = reply.code
        /\ \E m \in 1..(reply.lines - 1) :
              /\ cursor = 3 * m
              /\ chunkedResponse <=> \E n \in 1..(m - 1) : Field(n).kind = "encoding"
              /\ contentLengthReceived <=> \E n \in 1..(m - 1) : Field(n).kind = "length"
        /\ contentLengthReceived /\ reply.framing = "length" =>
              contentLength = Len(reply.content)

\* a body that is not chunked: what is behind the header was taken up to pos
PlainPlace ==
    /\ HeadSize(reply) <= pos
    /\ body = SubSeq(reply.content, 1, pos - HeadSize(reply))

\* before the size line of chunk c, inside its payload, or behind it
AtSize(c) ==
    /\ expectedChunkSize = 0 /\ ~removeCrlfAfterChunk
    /\ pos = c.at
    /\ body = SubSeq(reply.content, 1, c.from)

InChunk(c) ==
    /\ expectedChunkSize \in 1..c.size /\ ~removeCrlfAfterChunk
    /\ pos = c.at + 3 + c.size - expectedChunkSize
    /\ body = SubSeq(reply.content, 1, c.from + c.size - expectedChunkSize)

BehindChunk(c) ==
    /\ expectedChunkSize = 0 /\ removeCrlfAfterChunk
    /\ pos = c.at + 3 + c.size
    /\ body = SubSeq(reply.content, 1, c.from + c.size)

ChunkPlace ==
    \/ exit = "complete" /\ body = reply.content
    \/ \E k \in 1..Len(reply.chunks) : AtSize(reply.chunks[k])
    \/ \E k \in 1..(Len(reply.chunks) - 1) :
          InChunk(reply.chunks[k]) \/ BehindChunk(reply.chunks[k])

InBody ==
    parsingBody =>
        /\ status = reply.code
        /\ chunkedResponse <=> reply.framing = "chunked"
        /\ contentLengthReceived /\ ~chunkedResponse =>
              reply.framing = "length" /\ contentLength = Len(reply.content)
        /\ chunkedResponse => ChunkPlace
        /\ ~chunkedResponse => PlainPlace

Control ==
    /\ pc \in {"header", "fields"} => ~parsingBody
    /\ pc = "body" => parsingBody
    /\ exit # "none" => Done
    /\ exit # "rejected"
    /\ exit = "complete" => parsingBody /\ body = reply.content

Framing == BeforeBody /\ InFields /\ InBody /\ Control

IInv == TypeOK /\ HeaderReceived /\ (WellFramed(reply) => Framing)

\* the first a elements of t; the n elements of s behind q
Prefix(t, a) == SubSeq(t, 1, a)
Piece(s, q, n) == SubSeq(s, q + 1, q + n)

\* the n elements of s behind q are those of t behind a
SamePiece(s, q, t, a, n) == \A j \in 1..n : s[q + j] = t[a + j]

(* A prefix of t, continued with a piece of s that is the next piece of t,  *)
(* is a longer prefix of t.                                                 *)
LEMMA PrefixExtends ==
    ASSUME NEW s \in Seq(Token), NEW t \in Seq(Token),
           NEW a \in Nat, NEW q \in Nat, NEW n \in Nat,
           a + n <= Len(t), q + n <= Len(s),
           SamePiece(s, q, t, a, n)
    PROVE  /\ Prefix(t, a) \o Piece(s, q, n) = Prefix(t, a + n)
           /\ Len(Prefix(t, a + n)) = a + n
<1> DEFINE u == SubSeq(t, 1, a)
           v == SubSeq(s, q + 1, q + n)
           w == SubSeq(t, 1, a + n)
<1>1. u \in Seq(Token) /\ Len(u) = a /\ \A i \in 1..a : u[i] = t[i]
    OBVIOUS
<1>2. v \in Seq(Token) /\ Len(v) = n /\ \A i \in 1..n : v[i] = s[q + i]
    OBVIOUS
<1>3. w \in Seq(Token) /\ Len(w) = a + n /\ \A i \in 1..(a + n) : w[i] = t[i]
    OBVIOUS
<1> HIDE DEF u, v, w
<1>4. /\ u \o v \in Seq(Token) /\ Len(u \o v) = a + n
      /\ \A i \in 1..(a + n) : (u \o v)[i] = IF i <= a THEN u[i] ELSE v[i - a]
    BY <1>1, <1>2, ConcatProperties, ZenonT(30)
<1>5. ASSUME NEW i \in 1..(a + n) PROVE (u \o v)[i] = w[i]
    <2>0. i \in Nat /\ 1 <= i /\ i <= a + n
        OBVIOUS
    <2>1. CASE i <= a
        <3>1. (u \o v)[i] = u[i]
            BY <1>4, <2>1
        <3>2. i \in 1..a
            BY <2>0, <2>1
        <3>3. u[i] = t[i] /\ w[i] = t[i]
            BY <1>1, <1>3, <3>2
        <3> QED BY <3>1, <3>3
    <2>2. CASE ~(i <= a)
        <3>1. i - a \in 1..n /\ q + (i - a) = q + i - a /\ a + (i - a) = i
            BY <2>0, <2>2
        <3>2. (u \o v)[i] = v[i - a]
            BY <1>4, <2>0, <2>2
        <3>3. v[i - a] = s[q + (i - a)] /\ s[q + (i - a)] = t[a + (i - a)]
            BY <1>2, <3>1 DEF SamePiece
        <3> QED BY <1>3, <3>1, <3>2, <3>3
    <2> QED BY <2>1, <2>2
<1>6. u \o v = w
    BY <1>3, <1>4, <1>5, SeqEqual
<1> QED BY <1>3, <1>6 DEF u, v, w, Prefix, Piece

(* The whole of a sequence is its longest prefix.                           *)
LEMMA WholePrefix ==
    ASSUME NEW t \in Seq(Token)
    PROVE  SubSeq(t, 1, Len(t)) = t
<1>1. /\ SubSeq(t, 1, Len(t)) \in Seq(Token)
      /\ Len(SubSeq(t, 1, Len(t))) = Len(t)
      /\ \A i \in 1..Len(t) : SubSeq(t, 1, Len(t))[i] = t[i]
    OBVIOUS
<1> QED BY <1>1, SeqEqual

----------------------------------------------------------------------------
(* The header.                                                              *)

(* The empty line is found exactly where the header of a well-framed answer *)
(* ends: no earlier line holds two consecutive CRLFs.                       *)
LEMMA HeaderEndFound ==
    ASSUME TypeOK, WellFramed(reply), pos = 0,
           NEW e \in 1..(recvd - pos), FirstAt(headerEnd, responseData, e)
    PROVE  e = 3 * reply.lines - 1 /\ HeadSize(reply) <= recvd
<1> DEFINE L == reply.lines
<1>0. L \in Nat /\ L >= 2
    BY Positions, ReplyFields DEF WellFramed, WellFormedHead
<1>1. \A n \in 0..(L - 1) :
         /\ Field(n).kind \in {"status", "encoding", "length", "field"}
         /\ reply.stream[3 * n + 2] = CR /\ reply.stream[3 * n + 3] = LF
    <2> SUFFICES ASSUME NEW n \in 0..(L - 1)
                 PROVE  /\ Field(n).kind \in {"status", "encoding", "length", "field"}
                        /\ reply.stream[3 * n + 2] = CR /\ reply.stream[3 * n + 3] = LF
        OBVIOUS
    <2>1. reply.stream[3 * n + 2] = CR /\ reply.stream[3 * n + 3] = LF
        BY DEF WellFramed, WellFormedHead
    <2>2. CASE n = 0
        BY <2>1, <2>2 DEF WellFramed, WellFormedHead, Field
    <2>3. CASE n # 0
        <3>1. n > 0
            BY <1>0, <2>3
        <3>2. n > 0 => Field(n).kind \in {"encoding", "length", "field"}
            BY DEF WellFramed, WellFormedHead, Field
        <3> QED BY <2>1, <3>1, <3>2
    <2> QED BY <2>2, <2>3
<1>2. reply.stream[3 * L + 1] = CR /\ reply.stream[3 * L + 2] = LF
    BY DEF WellFramed, WellFormedHead
<1>3. CR # LF /\ CR.kind = "CR"
    BY DEF CR, LF
<1>4. /\ Len(headerEnd) = 4
      /\ headerEnd[1] = CR /\ headerEnd[2] = LF /\ headerEnd[3] = CR /\ headerEnd[4] = LF
    BY DEF headerEnd
<1>5. Len(responseData) = recvd /\ \A i \in 1..recvd : responseData[i] = reply.stream[i]
    BY Buffered, Positions
<1>6. e \in Nat /\ e >= 1 /\ e + 3 <= recvd
    BY HeaderEndInside, Positions DEF FirstAt
<1>7. /\ responseData[e] = CR /\ responseData[e + 2] = CR
    <2>1. \A j \in 1..4 : responseData[e + j - 1] = headerEnd[j]
        BY <1>4 DEF FirstAt, OccursAt
    <2>2. e + 1 - 1 = e /\ e + 3 - 1 = e + 2
        BY <1>6
    <2> QED BY <1>4, <2>1, <2>2
<1>8. reply.stream[e] = CR /\ reply.stream[e + 2] = CR
    BY <1>5, <1>6, <1>7, Positions
<1>9. e >= 3 * L - 1
    <2> SUFFICES ASSUME e < 3 * L - 1 PROVE FALSE
        BY <1>0, <1>6
    <2>1. PICK m \in 0..(L - 1) : e = 3 * m + 1 \/ e = 3 * m + 2 \/ e = 3 * m + 3
        <3>1. (e - 1) \div 3 \in 0..(L - 1)
            BY <1>0, <1>6
        <3>2. \/ e = 3 * ((e - 1) \div 3) + 1
              \/ e = 3 * ((e - 1) \div 3) + 2
              \/ e = 3 * ((e - 1) \div 3) + 3
            BY <1>6
        <3> QED BY <3>1, <3>2
    <2>2. CASE e = 3 * m + 1
        BY <1>1, <1>3, <1>8, <2>2 DEF Field
    <2>3. CASE e = 3 * m + 3
        BY <1>1, <1>3, <1>8, <2>3
    <2>4. CASE e = 3 * m + 2
        <3>1. m + 1 \in 0..(L - 1) /\ e + 2 = 3 * (m + 1) + 1
            BY <1>0, <2>4
        <3>2. Field(m + 1).kind # "CR"
            BY <1>1, <3>1
        <3> QED BY <1>3, <1>8, <3>1, <3>2 DEF Field
    <2> QED BY <2>1, <2>2, <2>3, <2>4
<1>10. e <= 3 * L - 1
    <2> SUFFICES ASSUME e > 3 * L - 1 PROVE FALSE
        BY <1>0, <1>6
    <2>1. 3 * L - 1 \in 1..(e - 1) /\ 3 * L + 2 <= recvd
        <3>1. /\ L \in Nat /\ L >= 2 /\ e \in Nat /\ recvd \in Nat
              /\ e + 3 <= recvd /\ e > 3 * L - 1
            BY <1>0, <1>6, Positions
        <3> HIDE DEF L
        <3> QED BY <3>1
    <2>2. L - 1 \in 0..(L - 1) /\ 3 * (L - 1) + 2 = 3 * L - 1 /\ 3 * (L - 1) + 3 = 3 * L
        BY <1>0
    <2>3. reply.stream[3 * L - 1] = CR /\ reply.stream[3 * L] = LF
        BY <1>1, <2>2
    <2>4. /\ responseData[3 * L - 1] = CR /\ responseData[3 * L] = LF
          /\ responseData[3 * L + 1] = CR /\ responseData[3 * L + 2] = LF
        <3>1. /\ 3 * L - 1 \in 1..recvd /\ 3 * L \in 1..recvd
              /\ 3 * L + 1 \in 1..recvd /\ 3 * L + 2 \in 1..recvd
            <4>1. L \in Nat /\ L >= 2 /\ recvd \in Nat /\ 3 * L + 2 <= recvd
                BY <1>0, <2>1, Positions
            <4> QED BY <4>1
        <3> QED BY <1>2, <1>5, <2>3, <3>1
    <2>5. ASSUME NEW j \in 1..4
          PROVE  responseData[(3 * L - 1) + j - 1] = headerEnd[j]
        <3>1. /\ (3 * L - 1) + 1 - 1 = 3 * L - 1 /\ (3 * L - 1) + 2 - 1 = 3 * L
              /\ (3 * L - 1) + 3 - 1 = 3 * L + 1 /\ (3 * L - 1) + 4 - 1 = 3 * L + 2
            BY <1>0
        <3> QED BY <1>4, <2>4, <3>1
    <2>6. OccursAt(headerEnd, responseData, 3 * L - 1)
        BY <1>0, <1>4, <1>5, <2>1, <2>5 DEF OccursAt
    <2> QED BY <2>1, <2>6 DEF FirstAt
<1>11. e = 3 * L - 1
    BY <1>0, <1>6, <1>9, <1>10
<1> QED BY <1>0, <1>6, <1>11, Positions, SMTT(30) DEF HeadSize

(* No field of a well-framed header is refused.                             *)
LEMMA FieldAccepted ==
    ASSUME TypeOK, WellFramed(reply), pc = "fields", InFields
    PROVE  ~BadField
<1>1. PICK m \in 1..(reply.lines - 1) : cursor = 3 * m
    BY DEF InFields
<1>2. /\ Field(m).kind \in {"encoding", "length", "field"}
      /\ reply.stream[3 * m + 2] = CR /\ reply.stream[3 * m + 3] = LF
      /\ Field(m).kind = "encoding" => Field(m).val = 1
      /\ Field(m).kind = "length" => Field(m).val \in 0..MaxSize
    <2>1. m \in 0..(reply.lines - 1) /\ m > 0
        BY Positions, ReplyFields
    <2> QED BY <2>1 DEF WellFramed, WellFormedHead, Field
<1>3. 3 * m + 3 <= headerEndIterator
    BY Positions, ReplyFields, SMTT(20) DEF InFields
<1>4. IsLine({"encoding", "length", "field"}, cursor, headerEndIterator)
    BY <1>1, <1>2, <1>3 DEF IsLine, Field
<1>5. ASSUME Field(m).kind = "length"
      PROVE  ~(Field(m).val < 0) /\ ~(Field(m).val % SizeModulus > MaxSize)
    <2>1. Field(m).val \in Nat /\ Field(m).val <= MaxSize /\ Field(m).val < SizeModulus
        BY <1>2, <1>5, ConstantsAssumption
    <2>2. Field(m).val % SizeModulus = Field(m).val
        BY <2>1, ConstantsAssumption
    <2> QED BY <2>1, <2>2, ConstantsAssumption
<1> QED BY <1>1, <1>2, <1>4, <1>5 DEF BadField, Field

----------------------------------------------------------------------------
(* The framing invariant is preserved.                                      *)

(* A step that neither parses nor takes anything, and that ends the call,   *)
(* if it does, for a reason other than the framing of the answer.           *)
QuietStep ==
    /\ UNCHANGED <<reply, pos, headVars, chunkVars, body>>
    /\ recvd' \in Nat /\ recvd <= recvd'
    /\ \/ pc' = pc /\ exit' = exit
       \/ /\ ~Done /\ pc # "fields" /\ pc' # "fields"
          /\ pc' = "header" => ~parsingBody
          /\ pc' = "body" => parsingBody
          /\ \/ exit' = exit
             \/ /\ pc' \in {"returned", "threw"}
                /\ exit' \notin {"rejected", "complete"}

(* Such a step keeps the framing invariant.                                 *)
LEMMA QuietKeepsFraming ==
    ASSUME TypeOK, Framing, QuietStep
    PROVE  Framing'
<1>1. BeforeBody'
    BY DEF QuietStep, Framing, BeforeBody, headVars, chunkVars
<1>2. InFields'
    <2> SUFFICES ASSUME pc' = "fields" PROVE InFields'
        BY DEF InFields
    <2>1. pc = "fields"
        BY DEF QuietStep
    <2>2. /\ headerEndIterator' = headerEndIterator /\ reply' = reply
          /\ status' = status /\ cursor' = cursor
          /\ chunkedResponse' = chunkedResponse
          /\ contentLengthReceived' = contentLengthReceived
          /\ contentLength' = contentLength
        BY DEF QuietStep, headVars
    <2>3. HeadSize(reply) <= recvd'
        <3>1. HeadSize(reply) \in Nat
            BY Positions, ReplyFields DEF HeadSize
        <3> QED BY <2>1, <3>1, Positions DEF Framing, InFields, QuietStep
    <2>4. HeadSize(reply') <= recvd'
        BY <2>2, <2>3
    <2> QED BY <2>1, <2>2, <2>4 DEF Framing, InFields, Field, HeadSize
<1>3. InBody'
    <2> SUFFICES ASSUME parsingBody' PROVE InBody'
        BY DEF InBody
    <2>1. /\ reply' = reply /\ pos' = pos /\ body' = body /\ status' = status
          /\ parsingBody /\ chunkedResponse' = chunkedResponse
          /\ contentLengthReceived' = contentLengthReceived
          /\ contentLength' = contentLength
          /\ expectedChunkSize' = expectedChunkSize
          /\ removeCrlfAfterChunk' = removeCrlfAfterChunk
        BY DEF QuietStep, headVars, chunkVars
    <2>2. exit = "complete" => exit' = "complete"
        BY DEF QuietStep, Framing, Control
    <2>3. ChunkPlace => ChunkPlace'
        BY <2>1, <2>2 DEF ChunkPlace, AtSize, InChunk, BehindChunk
    <2>4. PlainPlace => PlainPlace'
        BY <2>1 DEF PlainPlace, HeadSize
    <2> QED BY <2>1, <2>3, <2>4 DEF Framing, InBody
<1>4. Control'
    BY DEF QuietStep, Framing, Control, Done, headVars
<1> QED BY <1>1, <1>2, <1>3, <1>4 DEF Framing

(* The calls before the answer, the waits, and the peer are quiet.          *)
LEMMA QuietActions ==
    ASSUME TypeOK, Framing,
           \/ Construct \/ Resolve \/ OpenSocket \/ Connect \/ FinishConnect
           \/ SendSome \/ TimeOut \/ Receive \/ ReceiveEnd \/ HeaderNotFound
           \/ Environment \/ UNCHANGED vars
    PROVE  QuietStep
<1> USE DEF netVars, sendVars, headVars, chunkVars
<1>0. recvd \in Nat /\ recvd <= recvd
    BY Positions
<1>1. CASE Construct
    BY <1>0, <1>1 DEF Construct, Leave, QuietStep, Done
<1>2. CASE Resolve
    BY <1>0, <1>2 DEF Resolve, Leave, QuietStep, Done
<1>3. CASE OpenSocket
    BY <1>0, <1>3 DEF OpenSocket, Leave, QuietStep, Done
<1>4. CASE Connect
    BY <1>0, <1>4 DEF Connect, Leave, QuietStep, Done
<1>5. CASE FinishConnect
    BY <1>0, <1>5 DEF FinishConnect, Leave, QuietStep, Done
<1>6. CASE SendSome
    BY <1>0, <1>6 DEF SendSome, Leave, QuietStep, Done
<1>7. CASE TimeOut
    BY <1>0, <1>7 DEF TimeOut, Blocked, Leave, QuietStep, Done
<1>8. CASE Receive
    <2>1. recvd' \in Nat /\ recvd <= recvd'
        BY <1>8, Positions, ConstantsAssumption DEF Receive, Least
    <2>2. pc = "recv" /\ (pc' = "header" \/ pc' = "body")
        BY <1>8 DEF Receive
    <2>3. (pc' = "header" => ~parsingBody) /\ (pc' = "body" => parsingBody)
        BY <1>8 DEF Receive
    <2>4. UNCHANGED <<reply, pos, headVars, chunkVars, body, exit>>
        BY <1>8 DEF Receive
    <2> QED BY <2>1, <2>2, <2>3, <2>4 DEF QuietStep, Done
<1>9. CASE ReceiveEnd
    BY <1>0, <1>9 DEF ReceiveEnd, Leave, QuietStep, Done
<1>10. CASE HeaderNotFound
    BY <1>0, <1>10 DEF HeaderNotFound, Leave, QuietStep, Done
<1>11. CASE Environment
    BY <1>0, <1>11 DEF Environment, SystemCallFails, Answer, ServerSend, ServerRead,
        ServerLeave, DeadlinePasses, Leave, QuietStep, Done
<1>12. CASE UNCHANGED vars
    BY <1>0, <1>12 DEF vars, QuietStep, Done
<1> QED BY <1>1, <1>2, <1>3, <1>4, <1>5, <1>6, <1>7, <1>8, <1>9, <1>10, <1>11, <1>12

----------------------------------------------------------------------------
(* The header, and a body that is not chunked.                              *)

(* The status line: it is accepted, and the first field is next.            *)
LEMMA StatusLineKeepsFraming ==
    ASSUME TypeOK, WellFramed(reply), Framing, parseStatusLine
    PROVE  Framing'
<1> USE DEF sendVars, headVars, chunkVars
<1>1. /\ ~parsingBody /\ pos = 0 /\ body = <<>>
      /\ expectedChunkSize = 0 /\ ~removeCrlfAfterChunk
      /\ ~chunkedResponse /\ ~contentLengthReceived
      /\ pc = "header" /\ exit = "none"
    BY DEF parseStatusLine, Framing, Control, BeforeBody, Done
<1>2. reply.lines \in Nat /\ reply.lines >= 2
    BY Positions, ReplyFields DEF WellFramed, WellFormedHead
<1>3. headerEndIterator' = 3 * reply.lines /\ HeadSize(reply) <= recvd
    <2>1. PICK e \in 1..(recvd - pos) :
             /\ FirstAt(headerEnd, responseData, e)
             /\ headerEndIterator' = pos + e + 1
        BY DEF parseStatusLine
    <2>2. e = 3 * reply.lines - 1 /\ HeadSize(reply) <= recvd
        BY <1>1, <2>1, HeaderEndFound
    <2> QED BY <1>1, <1>2, <2>1, <2>2
<1>4. /\ reply.stream[0 + 1].kind = "status" /\ reply.stream[0 + 1].val = reply.code
      /\ reply.stream[0 + 2] = CR /\ reply.stream[0 + 3] = LF
    <2>1. 0 \in 0..(reply.lines - 1) /\ 3 * 0 + 1 = 0 + 1
          /\ 3 * 0 + 2 = 0 + 2 /\ 3 * 0 + 3 = 0 + 3
        BY <1>2
    <2> QED BY <2>1 DEF WellFramed, WellFormedHead
<1>5. IsLine({"status"}, pos, headerEndIterator')
    BY <1>1, <1>2, <1>3, <1>4 DEF IsLine
<1>6. /\ status' = reply.code /\ cursor' = 3 /\ pc' = "fields"
      /\ exit' = "none" /\ reply' = reply /\ recvd' = recvd
      /\ ~parsingBody' /\ pos' = 0 /\ body' = <<>>
      /\ expectedChunkSize' = 0 /\ ~removeCrlfAfterChunk'
      /\ ~chunkedResponse' /\ ~contentLengthReceived'
    BY <1>1, <1>4, <1>5 DEF parseStatusLine
<1>7. InFields'
    <2>1. 1 \in 1..(reply.lines - 1) /\ cursor' = 3 * 1 /\ 1..(1 - 1) = {}
        BY <1>2, <1>6
    <2>2. /\ cursor' = 3 * 1
          /\ chunkedResponse' <=> \E n \in 1..(1 - 1) : Field(n)'.kind = "encoding"
          /\ contentLengthReceived' <=> \E n \in 1..(1 - 1) : Field(n)'.kind = "length"
        BY <1>6, <2>1
    <2>3. \E m \in 1..(reply.lines - 1) :
          /\ cursor' = 3 * m
          /\ chunkedResponse' <=> \E n \in 1..(m - 1) : Field(n)'.kind = "encoding"
          /\ contentLengthReceived' <=> \E n \in 1..(m - 1) : Field(n)'.kind = "length"
        BY <2>1, <2>2
    <2> QED BY <1>3, <1>6, <2>3 DEF InFields, HeadSize
<1> QED BY <1>6, <1>7 DEF Framing, BeforeBody, InBody, Control, Done

(* A field: what the flags say of the fields read so far, and after the     *)
(* last one the body starts right behind the empty line.                    *)
LEMMA HeaderFieldKeepsFraming ==
    ASSUME TypeOK, WellFramed(reply), Framing, parseHeaderField
    PROVE  Framing'
<1> USE DEF sendVars, headVars, chunkVars
<1> DEFINE L == reply.lines
<1>1. /\ ~parsingBody /\ pos = 0 /\ body = <<>>
      /\ expectedChunkSize = 0 /\ ~removeCrlfAfterChunk
      /\ pc = "fields" /\ exit = "none"
    BY DEF parseHeaderField, Framing, Control, BeforeBody, Done
<1>2. L \in Nat /\ L >= 2
    BY Positions, ReplyFields DEF WellFramed, WellFormedHead
<1>3. /\ headerEndIterator = 3 * L /\ HeadSize(reply) <= recvd
      /\ status = reply.code
      /\ contentLengthReceived /\ reply.framing = "length" =>
            contentLength = Len(reply.content)
    BY <1>1 DEF Framing, InFields
<1>4. PICK m \in 1..(L - 1) :
         /\ cursor = 3 * m
         /\ chunkedResponse <=> \E n \in 1..(m - 1) : Field(n).kind = "encoding"
         /\ contentLengthReceived <=> \E n \in 1..(m - 1) : Field(n).kind = "length"
    BY <1>1 DEF Framing, InFields
<1>5. /\ chunkedResponse' = (chunkedResponse \/ Field(m).kind = "encoding")
      /\ contentLengthReceived' = (contentLengthReceived \/ Field(m).kind = "length")
      /\ contentLength' = IF Field(m).kind = "length" THEN Field(m).val % SizeModulus
                                                      ELSE contentLength
    BY <1>4 DEF parseHeaderField, Field
<1>6. m \in Nat /\ 1..((m + 1) - 1) = 1..(m - 1) \cup {m}
    BY <1>2
<1>7. /\ chunkedResponse' <=> \E n \in 1..((m + 1) - 1) : Field(n).kind = "encoding"
      /\ contentLengthReceived' <=> \E n \in 1..((m + 1) - 1) : Field(n).kind = "length"
    BY <1>4, <1>5, <1>6
<1>8. contentLengthReceived' /\ reply.framing = "length" =>
        contentLength' = Len(reply.content)
    <2>1. CASE Field(m).kind = "length"
        <3>0. m \in 0..(L - 1)
            BY <1>2
        <3>1. /\ Field(m).val \in 0..MaxSize
              /\ reply.framing = "length" => Field(m).val = Len(reply.content)
            BY <2>1, <3>0 DEF WellFramed, WellFormedHead, Field
        <3>2. Field(m).val \in Nat /\ Field(m).val < SizeModulus
            BY <3>1, ConstantsAssumption
        <3>3. Field(m).val % SizeModulus = Field(m).val
            BY <3>2, ConstantsAssumption
        <3> QED BY <1>5, <2>1, <3>1, <3>3
    <2>2. CASE Field(m).kind # "length"
        <3>1. contentLengthReceived' = contentLengthReceived /\ contentLength' = contentLength
            BY <1>5, <2>2, Positions DEF TypeOK
        <3> QED BY <1>3, <3>1
    <2> QED BY <2>1, <2>2
<1>9. /\ reply' = reply /\ recvd' = recvd /\ status' = status /\ body' = body
      /\ exit' = exit /\ headerEndIterator' = headerEndIterator
      /\ expectedChunkSize' = expectedChunkSize
      /\ removeCrlfAfterChunk' = removeCrlfAfterChunk
      /\ cursor' = 3 * (m + 1)
    BY <1>2, <1>4 DEF parseHeaderField
<1>10. CASE m + 1 # L
    <2>1. UNCHANGED <<pos, parsingBody, pc>>
        BY <1>2, <1>3, <1>9, <1>10 DEF parseHeaderField
    <2>2. m + 1 \in 1..(L - 1)
        BY <1>2, <1>10
    <2>3. \E mm \in 1..(L - 1) :
          /\ cursor' = 3 * mm
          /\ chunkedResponse' <=> \E n \in 1..(mm - 1) : Field(n).kind = "encoding"
          /\ contentLengthReceived' <=> \E n \in 1..(mm - 1) : Field(n).kind = "length"
        BY <1>7, <1>9, <2>2
    <2>4. InFields'
        BY <1>3, <1>8, <1>9, <2>1, <2>3 DEF InFields, HeadSize, Field
    <2> QED BY <1>1, <1>9, <2>1, <2>4 DEF Framing, BeforeBody, InBody, Control, Done
<1>11. CASE m + 1 = L
    <2>1. pos' = HeadSize(reply) /\ parsingBody' /\ pc' = "body"
        BY <1>2, <1>3, <1>9, <1>11 DEF parseHeaderField, HeadSize
    <2>2. chunkedResponse' <=> reply.framing = "chunked"
        <3>1. chunkedResponse' <=> \E n \in 1..(L - 1) : Field(n).kind = "encoding"
            BY <1>2, <1>7, <1>11
        <3>2. \A n \in 1..(L - 1) : n \in 0..(L - 1)
            BY <1>2
        <3>3. ASSUME NEW n \in 1..(L - 1), Field(n).kind = "encoding"
              PROVE  reply.framing = "chunked"
            BY <3>2, <3>3 DEF WellFramed, WellFormedHead, Field
        <3>4. reply.framing = "chunked" =>
                 \E n \in 1..(L - 1) : Field(n).kind = "encoding"
            BY DEF WellFramed, WellFormedHead, Field
        <3> QED BY <3>1, <3>3, <3>4
    <2>3. contentLengthReceived' /\ ~chunkedResponse' =>
             reply.framing = "length" /\ contentLength' = Len(reply.content)
        <3> SUFFICES ASSUME contentLengthReceived', ~chunkedResponse'
                     PROVE  reply.framing = "length"
            BY <1>8
        <3>1. PICK n \in 1..(L - 1) : Field(n).kind = "length"
            BY <1>2, <1>7, <1>11
        <3>2. n \in 0..(L - 1)
            BY <1>2
        <3>3. reply.framing # "close"
            BY <3>1, <3>2 DEF WellFramed, WellFormedHead, Field
        <3>4. reply.framing # "broken"
            BY DEF WellFramed
        <3> QED BY <2>2, <3>3, <3>4, Positions, ReplyFields
    <2>4. SubSeq(reply.content, 1, 0) = <<>>
        BY Positions, ReplyFields
    <2>5. chunkedResponse' => ChunkPlace'
        <3> SUFFICES ASSUME reply.framing = "chunked" PROVE ChunkPlace'
            BY <2>2
        <3>1. /\ Len(reply.chunks) > 0
              /\ reply.chunks[1].at = HeadSize(reply) /\ reply.chunks[1].from = 0
            BY DEF WellFramed, WellFormedChunks
        <3>2. 1 \in 1..Len(reply.chunks)
            BY <3>1, Positions, ReplyFields
        <3>3. AtSize(reply.chunks[1])'
            BY <1>1, <1>9, <2>1, <2>4, <3>1 DEF AtSize
        <3> QED BY <1>9, <3>2, <3>3 DEF ChunkPlace
    <2>6. PlainPlace'
        <3>1. HeadSize(reply) \in Nat
            BY <1>2 DEF HeadSize
        <3>2. HeadSize(reply') = HeadSize(reply)
            BY <1>9
        <3>3. pos' - HeadSize(reply') = 0 /\ HeadSize(reply') <= pos'
            BY <2>1, <3>1, <3>2
        <3> QED BY <1>1, <1>9, <2>4, <3>3 DEF PlainPlace
    <2>7. InBody'
        BY <1>3, <1>9, <2>2, <2>3, <2>5, <2>6 DEF InBody
    <2> QED BY <1>1, <1>9, <2>1, <2>7 DEF Framing, BeforeBody, InFields, Control, Done
<1> QED BY <1>10, <1>11

(* A body that is not chunked: all that is received is content.             *)
LEMMA PlainBodyKeepsFraming ==
    ASSUME TypeOK, WellFramed(reply), Framing, PlainBody
    PROVE  Framing'
<1> USE DEF sendVars, headVars, chunkVars
<1> DEFINE H == HeadSize(reply)
           a == pos - H
           n == recvd - pos
<1>1. /\ parsingBody /\ ~chunkedResponse /\ pc = "body" /\ exit = "none"
      /\ status = reply.code /\ reply.framing # "chunked"
      /\ contentLengthReceived => contentLength = Len(reply.content)
      /\ H <= pos /\ body = SubSeq(reply.content, 1, a)
    BY DEF PlainBody, Framing, Control, InBody, PlainPlace, Done
<1>2. /\ reply.content \in Seq(Token) /\ Len(reply.content) \in Nat /\ H \in Nat
    BY Positions, ReplyFields DEF HeadSize
<1>3. /\ Len(reply.stream) = H + Len(reply.content)
      /\ \A j \in 1..Len(reply.content) : reply.stream[H + j] = reply.content[j]
    BY <1>1 DEF WellFramed, WellFormedPlain
<1> HIDE DEF H
<1>4. a \in Nat /\ n \in Nat /\ a + n <= Len(reply.content) /\ a + n = recvd - H
      /\ pos + n <= Len(reply.stream) /\ pos + n = recvd
    <2>1. /\ pos \in Nat /\ recvd \in Nat /\ pos <= recvd /\ H <= pos
          /\ recvd <= H + Len(reply.content) /\ recvd <= Len(reply.stream)
          /\ Len(reply.stream) \in Nat
        <3>1. Len(reply.stream) = H + Len(reply.content)
            BY <1>3
        <3>2. recvd <= Len(reply.stream)
            BY Positions
        <3> QED BY <1>1, <3>1, <3>2, Positions
    <2> QED BY <1>2, <2>1
<1>5. SamePiece(reply.stream, pos, reply.content, a, n)
    <2> SUFFICES ASSUME NEW j \in 1..n
                 PROVE  reply.stream[pos + j] = reply.content[a + j]
        BY DEF SamePiece
    <2>1. a + j \in 1..Len(reply.content) /\ H + (a + j) = pos + j
        <3>1. pos \in Nat /\ recvd \in Nat
            BY Positions
        <3> QED BY <1>2, <1>4, <3>1
    <2> QED BY <1>3, <2>1
<1>6. body' = SubSeq(reply.content, 1, a + n) /\ Len(body') = a + n
    <2>1. body' = body \o SubSeq(reply.stream, pos + 1, pos + n)
        BY <1>4 DEF PlainBody, responseData
    <2>2. body = SubSeq(reply.content, 1, a)
        BY <1>1
    <2>3. reply.stream \in Seq(Token) /\ pos \in Nat
        BY Positions
    <2> HIDE DEF a, n
    <2>4. /\ Prefix(reply.content, a) \o Piece(reply.stream, pos, n)
                = Prefix(reply.content, a + n)
          /\ Len(Prefix(reply.content, a + n)) = a + n
        <3>1. a \in Nat /\ n \in Nat /\ a + n <= Len(reply.content)
              /\ pos + n <= Len(reply.stream) /\ reply.content \in Seq(Token)
            BY <1>2, <1>4
        <3> QED BY <1>5, <2>3, <3>1, PrefixExtends, SMTT(30)
    <2> QED BY <2>1, <2>2, <2>4 DEF Prefix, Piece
<1>7. /\ reply' = reply /\ status' = status /\ parsingBody' = parsingBody
      /\ chunkedResponse' = chunkedResponse /\ pos' = recvd
      /\ contentLengthReceived' = contentLengthReceived /\ contentLength' = contentLength
    BY DEF PlainBody
<1>8. PlainPlace'
    <2>1. HeadSize(reply') = H
        BY <1>7 DEF H
    <2>2. H <= recvd
        BY <1>1, <1>2, Positions
    <2> QED BY <1>4, <1>6, <1>7, <2>1, <2>2 DEF PlainPlace
<1>9. InBody'
    BY <1>1, <1>7, <1>8 DEF Framing, InBody
<1>10. Control'
    <2>1. CASE contentLengthReceived /\ Len(body') >= contentLength
        <3>1. pc' = "returned" /\ exit' = "complete"
            BY <2>1 DEF PlainBody, Leave
        <3>2. a + n = Len(reply.content)
            <4>1. a + n >= Len(reply.content)
                BY <1>1, <1>6, <2>1
            <4> HIDE DEF a, n
            <4> QED BY <1>2, <1>4, <4>1
        <3>3. body' = reply.content
            BY <1>2, <1>6, <3>2, WholePrefix
        <3> QED BY <1>1, <1>7, <3>1, <3>3 DEF Control, Done
    <2>2. CASE ~(contentLengthReceived /\ Len(body') >= contentLength)
        <3>1. pc' = "recv" /\ exit' = "none"
            BY <1>1, <2>2 DEF PlainBody
        <3> QED BY <3>1 DEF Control, Done
    <2> QED BY <2>1, <2>2
<1>11. pc' # "fields"
    BY DEF PlainBody, Leave
<1> QED BY <1>1, <1>7, <1>9, <1>10, <1>11 DEF Framing, BeforeBody, InFields

----------------------------------------------------------------------------
(* A chunked body.                                                          *)

(* The numbers of a chunk.                                                  *)
LEMMA ChunkFields ==
    ASSUME NEW r \in Replies, NEW k \in 1..Len(r.chunks)
    PROVE  /\ r.chunks[k].at \in Nat /\ r.chunks[k].size \in Nat
           /\ r.chunks[k].from \in Nat
<1>1. r.chunks[k] \in ChunkType
    BY ReplyFields
<1> QED BY <1>1 DEF ChunkType

(* What a chunk step that does not end the call owes to the invariant.      *)
LEMMA ChunkStepKeepsFraming ==
    ASSUME Framing, parsingBody, chunkedResponse, ChunkPlace',
           UNCHANGED <<reply, headVars>>,
           \/ pc' \in {"recv", "body"} /\ exit' = "none"
           \/ pc' = "returned" /\ exit' = "complete" /\ body' = reply.content
    PROVE  Framing'
<1> USE DEF headVars
<1>1. /\ reply' = reply /\ status' = status /\ parsingBody' = parsingBody
      /\ chunkedResponse' = chunkedResponse
      /\ contentLengthReceived' = contentLengthReceived /\ contentLength' = contentLength
    OBVIOUS
<1>2. InBody'
    BY <1>1 DEF Framing, InBody
<1>3. Control'
    BY <1>1 DEF Control, Done
<1> QED BY <1>1, <1>2, <1>3 DEF Framing, BeforeBody, InFields

(* Inside a chunk: the payload, as far as it has been received.             *)
LEMMA ChunkDataKeepsFraming ==
    ASSUME TypeOK, WellFramed(reply), Framing, ChunkData
    PROVE  Framing'
<1> USE DEF sendVars, headVars, chunkVars
<1>1. /\ parsingBody /\ chunkedResponse /\ pc = "body" /\ exit = "none"
      /\ reply.framing = "chunked" /\ ChunkPlace /\ expectedChunkSize > 0
    BY DEF ChunkData, Framing, Control, InBody, Done
<1>2. PICK k \in 1..(Len(reply.chunks) - 1) : InChunk(reply.chunks[k])
    <2>1. exit # "complete"
        BY <1>1
    <2>2. \A c : ~AtSize(c) /\ ~BehindChunk(c)
        BY <1>1 DEF AtSize, BehindChunk
    <2> QED BY <1>1, <2>1, <2>2 DEF ChunkPlace
<1> DEFINE at == reply.chunks[k].at
           from == reply.chunks[k].from
           size == reply.chunks[k].size
           next == reply.chunks[k + 1].from
           e == expectedChunkSize
           n == Least(e, recvd - pos)
           a == from + size - e
<1>3. reply \in Replies /\ Len(reply.chunks) \in Nat
    BY Positions, ReplyFields
<1>4. k \in 1..Len(reply.chunks) /\ k + 1 \in 1..Len(reply.chunks) /\ k < Len(reply.chunks)
    BY <1>3
<1>5. /\ at \in Nat /\ size \in Nat /\ from \in Nat /\ next \in Nat
      /\ reply.content \in Seq(Token) /\ Len(reply.content) \in Nat
    BY <1>3, <1>4, ChunkFields, ReplyFields
<1>6. next = from + size /\ next <= Len(reply.content)
    BY <1>1, <1>4 DEF WellFramed, WellFormedChunks
<1>7. \A j \in 1..size : reply.stream[at + 3 + j] = reply.content[from + j]
    BY <1>1, <1>4 DEF WellFramed, WellFormedChunks
<1>8. e \in 1..size /\ ~removeCrlfAfterChunk /\ pos = at + 3 + size - e
    BY <1>2 DEF InChunk
<1>9. body = SubSeq(reply.content, 1, a)
    BY <1>2 DEF InChunk
<1>10. n \in Nat /\ n <= e /\ n <= recvd - pos
    BY Positions DEF Least
<1>11. /\ body' = body \o SubSeq(reply.stream, pos + 1, pos + n)
       /\ pos' = pos + n
       /\ expectedChunkSize' = e - n
       /\ removeCrlfAfterChunk' = (removeCrlfAfterChunk \/ e = n)
       /\ pc' \in {"recv", "body"} /\ exit' = "none"
       /\ UNCHANGED <<reply, headVars>>
    BY <1>1 DEF ChunkData
<1>12. /\ recvd \in Nat /\ recvd <= Len(reply.stream) /\ Len(reply.stream) \in Nat
       /\ pos \in Nat /\ e \in Nat /\ reply.stream \in Seq(Token)
    <2>1. recvd <= Len(reply.stream)
        BY Positions
    <2> QED BY <2>1, Positions
<1> HIDE DEF at, from, size, next, n, e
<1>13. a \in Nat /\ a + n <= Len(reply.content) /\ pos + n <= Len(reply.stream)
    BY <1>5, <1>6, <1>8, <1>10, <1>12
<1>14. SamePiece(reply.stream, pos, reply.content, a, n)
    <2> SUFFICES ASSUME NEW j \in 1..n
                 PROVE  reply.stream[pos + j] = reply.content[a + j]
        BY DEF SamePiece
    <2>1. /\ (size - e) + j \in 1..size
          /\ at + 3 + ((size - e) + j) = pos + j
          /\ from + ((size - e) + j) = a + j
        BY <1>5, <1>8, <1>10, <1>12
    <2> QED BY <1>7, <2>1
<1>15. body' = SubSeq(reply.content, 1, a + n)
    <2> HIDE DEF a
    <2>1. Prefix(reply.content, a) \o Piece(reply.stream, pos, n)
              = Prefix(reply.content, a + n)
        <3>1. a \in Nat /\ n \in Nat /\ pos \in Nat /\ a + n <= Len(reply.content)
              /\ pos + n <= Len(reply.stream) /\ reply.content \in Seq(Token)
              /\ reply.stream \in Seq(Token)
            BY <1>5, <1>10, <1>12, <1>13
        <3> QED BY <1>14, <3>1, PrefixExtends, SMTT(30)
    <2> QED BY <1>9, <1>11, <2>1 DEF Prefix, Piece
<1>16. ChunkPlace'
    <2>1. CASE e = n
        <3>1. a + n = from + size /\ pos + n = at + 3 + size /\ e - n = 0
            BY <1>5, <1>8, <1>10, <1>12, <2>1
        <3>2. BehindChunk(reply.chunks[k])'
            BY <1>11, <1>15, <2>1, <3>1 DEF BehindChunk, at, from, size
        <3> QED BY <1>11, <3>2 DEF ChunkPlace
    <2>2. CASE e # n
        <3>1. /\ e - n \in 1..size /\ pos + n = at + 3 + size - (e - n)
              /\ a + n = from + size - (e - n)
            BY <1>5, <1>8, <1>10, <1>12, <2>2
        <3>2. InChunk(reply.chunks[k])'
            BY <1>8, <1>11, <1>15, <2>2, <3>1 DEF InChunk, at, from, size
        <3> QED BY <1>11, <3>2 DEF ChunkPlace
    <2> QED BY <2>1, <2>2
<1> QED BY <1>1, <1>11, <1>16, ChunkStepKeepsFraming

(* Between chunks, before or behind the CRLF of the last one, the next size *)
(* line is where the peer put one, and all before it has been taken.        *)
LEMMA NextSizeLine ==
    ASSUME TypeOK, WellFramed(reply), Framing, BetweenChunks
    PROVE  /\ parsingBody /\ exit = "none" /\ reply.framing = "chunked"
           /\ \E k \in 1..Len(reply.chunks) :
                 /\ SizeLine = reply.chunks[k].at
                 /\ body = SubSeq(reply.content, 1, reply.chunks[k].from)
           /\ removeCrlfAfterChunk =>
                 reply.stream[pos + 1] = CR /\ reply.stream[pos + 2] = LF
<1>1. /\ parsingBody /\ exit = "none" /\ reply.framing = "chunked"
      /\ ChunkPlace /\ expectedChunkSize = 0
    BY DEF BetweenChunks, Framing, Control, InBody, Done
<1>2. reply \in Replies /\ Len(reply.chunks) \in Nat /\ pos \in Nat
    BY Positions, ReplyFields
<1>3. ASSUME NEW k \in 1..Len(reply.chunks), AtSize(reply.chunks[k])
      PROVE  /\ ~removeCrlfAfterChunk /\ SizeLine = reply.chunks[k].at
             /\ body = SubSeq(reply.content, 1, reply.chunks[k].from)
    BY <1>2, <1>3 DEF AtSize, SizeLine
<1>4. ASSUME NEW k \in 1..(Len(reply.chunks) - 1), BehindChunk(reply.chunks[k])
      PROVE  /\ k + 1 \in 1..Len(reply.chunks)
             /\ SizeLine = reply.chunks[k + 1].at
             /\ body = SubSeq(reply.content, 1, reply.chunks[k + 1].from)
             /\ reply.stream[pos + 1] = CR /\ reply.stream[pos + 2] = LF
    <2> DEFINE at == reply.chunks[k].at
               size == reply.chunks[k].size
    <2>1. k \in 1..Len(reply.chunks) /\ k + 1 \in 1..Len(reply.chunks)
          /\ k < Len(reply.chunks)
        BY <1>2
    <2>2. at \in Nat /\ size \in Nat
        BY <1>2, <2>1, ChunkFields
    <2>3. /\ removeCrlfAfterChunk /\ pos = at + 3 + size
          /\ body = SubSeq(reply.content, 1, reply.chunks[k].from + size)
        BY <1>4 DEF BehindChunk
    <2>4. /\ reply.chunks[k + 1].at = at + size + 5
          /\ reply.chunks[k + 1].from = reply.chunks[k].from + size
          /\ reply.stream[at + size + 4] = CR /\ reply.stream[at + size + 5] = LF
        BY <1>1, <2>1 DEF WellFramed, WellFormedChunks
    <2> HIDE DEF at, size
    <2>5. pos + 1 = at + size + 4 /\ pos + 2 = at + size + 5
        BY <2>2, <2>3
    <2>6. SizeLine = reply.chunks[k + 1].at
        BY <2>3, <2>4, <2>5 DEF SizeLine
    <2> QED BY <2>1, <2>3, <2>4, <2>5, <2>6
<1>5. ~\E k \in 1..(Len(reply.chunks) - 1) : InChunk(reply.chunks[k])
    BY <1>1 DEF InChunk
<1>6. CASE \E k \in 1..Len(reply.chunks) : AtSize(reply.chunks[k])
    BY <1>1, <1>3, <1>6
<1>7. CASE \E k \in 1..(Len(reply.chunks) - 1) : BehindChunk(reply.chunks[k])
    BY <1>1, <1>4, <1>7
<1> QED BY <1>1, <1>5, <1>6, <1>7 DEF ChunkPlace

(* The CRLF behind a chunk is waited for, never refused.                    *)
LEMMA ChunkCrlfKeepsFraming ==
    ASSUME TypeOK, WellFramed(reply), Framing, ChunkCrlf
    PROVE  Framing'
<1> USE DEF sendVars, headVars, chunkVars
<1>1. BetweenChunks /\ removeCrlfAfterChunk
    BY DEF ChunkCrlf
<1>2. reply.stream[pos + 1] = CR /\ reply.stream[pos + 2] = LF
    BY <1>1, NextSizeLine
<1>3. ASSUME recvd - pos >= 2 PROVE OccursAt(crlf, responseData, 1)
    <2>1. 1 \in 1..(recvd - pos) /\ 2 \in 1..(recvd - pos)
        BY <1>3, Positions
    <2>2. responseData[1] = CR /\ responseData[2] = LF
        BY <1>2, <2>1, Buffered
    <2>3. Len(crlf) = 2 /\ crlf[1] = CR /\ crlf[2] = LF
        BY DEF crlf
    <2>4. \A j \in 1..2 : 1 + j - 1 = j /\ (j = 1 \/ j = 2)
        OBVIOUS
    <2>5. \A j \in 1..Len(crlf) : responseData[1 + j - 1] = crlf[j]
        BY <2>2, <2>3, <2>4
    <2>6. 1 + 2 - 1 <= Len(responseData)
        BY <1>3, Buffered
    <2> QED BY <2>3, <2>5, <2>6 DEF OccursAt
<1>4. pc' = "recv" /\ UNCHANGED exit
    BY <1>3 DEF ChunkCrlf
<1>5. QuietStep
    BY <1>1, <1>4, Positions DEF ChunkCrlf, BetweenChunks, QuietStep, Done
<1> QED BY <1>5, QuietKeepsFraming

(* The first CRLF behind a size is its own, and the line is its digits.     *)
LEMMA SizeLineFound ==
    ASSUME TypeOK, removeCrlfAfterChunk => OccursAt(crlf, responseData, 1),
           NEW i \in 1..(recvd - SizeLine), FirstAt(crlf, SizeData, i),
           reply.stream[SizeLine + 1].kind = "number",
           reply.stream[SizeLine + 2] = CR, reply.stream[SizeLine + 3] = LF
    PROVE  /\ i = 2 /\ IsHexLine(SizeDigits(i))
           /\ hexStringToUint(SizeDigits(i)) = reply.stream[SizeLine + 1].val % SizeModulus
<1>1. Len(crlf) = 2 /\ crlf[1] = CR /\ crlf[2] = LF
    BY DEF crlf
<1>2. /\ SizeLine \in Nat /\ recvd \in Nat /\ SizeLine + i + 1 <= recvd
      /\ Len(SizeData) = recvd - SizeLine /\ i \in Nat /\ i >= 1
    BY SizeLineInside, Positions
<1>3. \A j \in 1..(recvd - SizeLine) : SizeData[j] = reply.stream[SizeLine + j]
    BY SizeLineInside
<1>4. i # 1
    <2> SUFFICES ASSUME i = 1 PROVE FALSE
        OBVIOUS
    <2>1. SizeData[1 + 1 - 1] = crlf[1]
        BY <1>1 DEF FirstAt, OccursAt
    <2>2. SizeData[1] = reply.stream[SizeLine + 1]
        BY <1>3
    <2>3. reply.stream[SizeLine + 1] = CR
        BY <1>1, <2>1, <2>2
    <2>4. CR.kind = "CR"
        BY DEF CR
    <2> QED BY <2>3, <2>4
<1>5. ~(i > 2)
    <2> SUFFICES ASSUME i > 2 PROVE FALSE
        OBVIOUS
    <2>1. /\ 2 \in 1..(i - 1) /\ 2 \in 1..(recvd - SizeLine) /\ 3 \in 1..(recvd - SizeLine)
          /\ 2 + 2 - 1 <= recvd - SizeLine
        BY <1>2
    <2>2. SizeData[2] = CR /\ SizeData[3] = LF
        BY <1>3, <2>1
    <2>3. \A j \in 1..2 : (j = 1 /\ 2 + j - 1 = 2) \/ (j = 2 /\ 2 + j - 1 = 3)
        OBVIOUS
    <2>4. \A j \in 1..Len(crlf) : SizeData[2 + j - 1] = crlf[j]
        BY <1>1, <2>2, <2>3
    <2>5. OccursAt(crlf, SizeData, 2)
        BY <1>1, <1>2, <2>1, <2>4 DEF OccursAt
    <2> QED BY <2>1, <2>5 DEF FirstAt
<1>6. i = 2
    BY <1>2, <1>4, <1>5
<1>7. /\ SizeDigits(i) \in Seq(Token) /\ Len(SizeDigits(i)) = 1
      /\ SizeDigits(i)[1] = reply.stream[SizeLine + 1]
    <2>1. /\ SizeDigits(i) \in Seq(Token) /\ Len(SizeDigits(i)) = i - 1
          /\ \A j \in 1..(i - 1) : SizeDigits(i)[j] = reply.stream[SizeLine + j]
        BY SizeLineInside
    <2>2. i - 1 = 1 /\ 1 \in 1..(i - 1)
        BY <1>6
    <2> QED BY <2>1, <2>2
<1>8. SizeDigits(i) # <<>>
    BY <1>7, SMTT(20)
<1> QED BY <1>6, <1>7, <1>8 DEF IsHexLine, hexStringToUint

(* A size line: it is waited for until it is complete, never refused, and   *)
(* it opens a chunk or, with the size 0, ends a body that is whole.         *)
LEMMA ChunkSizeKeepsFraming ==
    ASSUME TypeOK, WellFramed(reply), Framing, ChunkSize
    PROVE  Framing'
<1> USE DEF sendVars, headVars, chunkVars
<1>1. BetweenChunks /\ chunkedResponse /\ pc = "body" /\ expectedChunkSize = 0
    BY DEF ChunkSize, BetweenChunks
<1>2. parsingBody /\ exit = "none" /\ reply.framing = "chunked"
    BY <1>1, NextSizeLine
<1>3. PICK k \in 1..Len(reply.chunks) :
         /\ SizeLine = reply.chunks[k].at
         /\ body = SubSeq(reply.content, 1, reply.chunks[k].from)
    BY <1>1, NextSizeLine
<1> DEFINE at == reply.chunks[k].at
           from == reply.chunks[k].from
           size == reply.chunks[k].size
           n == Len(reply.chunks)
<1>4. reply \in Replies /\ n \in Nat /\ reply.content \in Seq(Token)
    BY Positions, ReplyFields
<1>5. at \in Nat /\ size \in Nat /\ from \in Nat
    BY <1>4, ChunkFields
<1>6. /\ reply.stream[at + 1] = [kind |-> "number", val |-> size]
      /\ reply.stream[at + 2] = CR /\ reply.stream[at + 3] = LF
      /\ size < SizeModulus /\ (k < n => size > 0)
    BY <1>2 DEF WellFramed, WellFormedChunks
<1>7. reply.chunks[n].size = 0 /\ reply.chunks[n].from = Len(reply.content)
    BY <1>2 DEF WellFramed, WellFormedChunks
<1>8. removeCrlfAfterChunk => OccursAt(crlf, responseData, 1)
    BY DEF ChunkSize
<1>9. ~removeCrlfAfterChunk' /\ body' = body /\ UNCHANGED <<reply, headVars>>
    BY DEF ChunkSize
<1>10. ASSUME pos' = SizeLine, pc' = "recv", UNCHANGED <<expectedChunkSize, exit>>
       PROVE  Framing'
    <2>1. AtSize(reply.chunks[k])'
        BY <1>1, <1>3, <1>9, <1>10 DEF AtSize
    <2>2. ChunkPlace'
        BY <1>9, <2>1 DEF ChunkPlace
    <2> QED BY <1>1, <1>2, <1>9, <1>10, <2>2, ChunkStepKeepsFraming
<1>11. ASSUME NEW i \in 1..(recvd - SizeLine), FirstAt(crlf, SizeData, i)
       PROVE  i = 2 /\ IsHexLine(SizeDigits(i)) /\ hexStringToUint(SizeDigits(i)) = size
    <2>1. /\ i = 2 /\ IsHexLine(SizeDigits(i))
          /\ hexStringToUint(SizeDigits(i)) = reply.stream[SizeLine + 1].val % SizeModulus
        <3>1. /\ reply.stream[SizeLine + 1].kind = "number"
              /\ reply.stream[SizeLine + 2] = CR /\ reply.stream[SizeLine + 3] = LF
            BY <1>3, <1>6
        <3> QED BY <1>8, <1>11, <3>1, SizeLineFound
    <2>2. reply.stream[SizeLine + 1].val = size
        BY <1>3, <1>6
    <2>3. size % SizeModulus = size
        <3>1. size \in Nat /\ size < SizeModulus /\ SizeModulus \in Nat \ {0}
            BY <1>5, <1>6, ConstantsAssumption
        <3> HIDE DEF size
        <3> QED BY <3>1
    <2> QED BY <2>1, <2>2, <2>3
<1>12. ASSUME NEW i \in 1..(recvd - SizeLine), FirstAt(crlf, SizeData, i),
              expectedChunkSize' = hexStringToUint(SizeDigits(i)),
              pos' = SizeLine + i + 1,
              IF expectedChunkSize' = 0 THEN Leave("returned", "complete")
                                        ELSE UNCHANGED <<pc, endpoint, exit>>
       PROVE  Framing'
    <2>1. expectedChunkSize' = size /\ pos' = at + 3
        <3>1. i = 2 /\ expectedChunkSize' = size
            BY <1>11, <1>12
        <3> QED BY <1>3, <1>5, <1>12, <3>1
    <2>2. CASE size = 0
        <3>1. k = n
            BY <1>4, <1>6, <2>2
        <3>2. body' = reply.content
            BY <1>3, <1>4, <1>7, <1>9, <3>1, WholePrefix
        <3>3. pc' = "returned" /\ exit' = "complete"
            BY <1>12, <2>1, <2>2 DEF Leave
        <3>4. ChunkPlace'
            BY <1>9, <3>2, <3>3 DEF ChunkPlace
        <3> QED BY <1>1, <1>2, <1>9, <3>2, <3>3, <3>4, ChunkStepKeepsFraming
    <2>3. CASE size # 0
        <3>1. k # n /\ k \in 1..(n - 1)
            BY <1>4, <1>7, <2>3
        <3>2. pc' = "body" /\ exit' = "none"
            BY <1>1, <1>2, <1>12, <2>1, <2>3
        <3>3. /\ size \in 1..size /\ at + 3 = at + 3 + size - size
              /\ from = from + size - size
            <4> HIDE DEF at, from, size
            <4> QED BY <1>5, <2>3
        <3>4. InChunk(reply.chunks[k])'
            BY <1>3, <1>9, <2>1, <3>3 DEF InChunk
        <3>5. ChunkPlace'
            BY <1>9, <3>1, <3>4 DEF ChunkPlace
        <3> QED BY <1>1, <1>2, <1>9, <3>2, <3>5, ChunkStepKeepsFraming
    <2> QED BY <2>2, <2>3
<1> QED BY <1>10, <1>11, <1>12 DEF ChunkSize

----------------------------------------------------------------------------
(* IInv is inductive.                                                       *)

(* Initially nothing is read and nothing is taken.                          *)
LEMMA InitInv == Init => IInv
<1>1. Init => Framing
    BY DEF Init, Framing, BeforeBody, InFields, InBody, Control, Done
<1> QED BY InitType, <1>1 DEF IInv

(* The peer's answer is fixed before the call: no step changes it.          *)
LEMMA ReplyFixed == [Next]_vars => reply' = reply
BY DEF Next, Client, Environment, Construct, Resolve, OpenSocket, Connect,
   FinishConnect, SendSome, TimeOut, Receive, ReceiveEnd, HeaderNotFound,
   parseStatusLine, RejectField, parseHeaderField, PlainBody, ChunkData, ChunkCrlf,
   ChunkSize, SystemCallFails, Answer, ServerSend, ServerRead, ServerLeave,
   DeadlinePasses, vars, sendVars

(* Every step keeps the types and the framing invariant.                    *)
LEMMA NextInv == IInv /\ [Next]_vars => IInv'
<1> SUFFICES ASSUME IInv, [Next]_vars PROVE IInv'
    OBVIOUS
<1>1. TypeOK /\ TypeOK' /\ HeaderReceived'
    BY NextType DEF IInv
<1>2. WellFramed(reply') => WellFramed(reply)
    BY ReplyFixed
<1>3. ASSUME WellFramed(reply) PROVE Framing'
    <2>1. Framing
        BY <1>3 DEF IInv
    <2>2. CASE \/ Construct \/ Resolve \/ OpenSocket \/ Connect \/ FinishConnect
               \/ SendSome \/ TimeOut \/ Receive \/ ReceiveEnd \/ HeaderNotFound
               \/ Environment \/ UNCHANGED vars
        BY <1>1, <2>1, <2>2, QuietActions, QuietKeepsFraming
    <2>3. CASE parseStatusLine
        BY <1>1, <1>3, <2>1, <2>3, StatusLineKeepsFraming
    <2>4. CASE RejectField
        <3>1. pc = "fields" /\ InFields
            BY <2>1, <2>4 DEF RejectField, Framing
        <3>2. ~BadField
            BY <1>1, <1>3, <3>1, FieldAccepted
        <3> QED BY <2>4, <3>2 DEF RejectField
    <2>5. CASE parseHeaderField
        BY <1>1, <1>3, <2>1, <2>5, HeaderFieldKeepsFraming
    <2>6. CASE PlainBody
        BY <1>1, <1>3, <2>1, <2>6, PlainBodyKeepsFraming
    <2>7. CASE ChunkData
        BY <1>1, <1>3, <2>1, <2>7, ChunkDataKeepsFraming
    <2>8. CASE ChunkCrlf
        BY <1>1, <1>3, <2>1, <2>8, ChunkCrlfKeepsFraming
    <2>9. CASE ChunkSize
        BY <1>1, <1>3, <2>1, <2>9, ChunkSizeKeepsFraming
    <2> QED BY <2>2, <2>3, <2>4, <2>5, <2>6, <2>7, <2>8, <2>9 DEF Next, Client
<1> QED BY <1>1, <1>2, <1>3 DEF IInv

(* A prefix of the content, as the properties state it.                     *)
LEMMA PrefixOf ==
    ASSUME NEW t \in Seq(Token), NEW b \in Seq(Token), NEW a \in 0..Len(t),
           b = SubSeq(t, 1, a)
    PROVE  Len(b) <= Len(t) /\ b = SubSeq(t, 1, Len(b))
<1>1. Len(b) = a
    OBVIOUS
<1> QED BY <1>1

(* Wherever the parser is, what it has taken is a prefix of the content.    *)
LEMMA InvImpliesPrefix == IInv => BodyIsPrefix
<1> SUFFICES ASSUME IInv, WellFramed(reply)
             PROVE  /\ Len(body) <= Len(reply.content)
                    /\ body = SubSeq(reply.content, 1, Len(body))
    BY DEF BodyIsPrefix
<1>1. TypeOK /\ Framing
    BY DEF IInv
<1>2. /\ reply \in Replies /\ reply.content \in Seq(Token)
      /\ Len(reply.content) \in Nat /\ body \in Seq(Token)
      /\ Len(reply.chunks) \in Nat
    BY <1>1, Positions, ReplyFields DEF TypeOK
<1> SUFFICES \E a \in 0..Len(reply.content) : body = SubSeq(reply.content, 1, a)
    BY <1>2, PrefixOf
<1>3. CASE ~parsingBody
    <2>1. body = <<>> /\ SubSeq(reply.content, 1, 0) = <<>>
        BY <1>1, <1>2, <1>3 DEF Framing, BeforeBody
    <2> QED BY <1>2, <2>1
<1>4. CASE parsingBody /\ ~chunkedResponse
    <2>1. PlainPlace /\ reply.framing # "chunked"
        BY <1>1, <1>4 DEF Framing, InBody
    <2>2. Len(reply.stream) = HeadSize(reply) + Len(reply.content)
        BY <2>1 DEF WellFramed, WellFormedPlain
    <2>3. HeadSize(reply) \in Nat
        BY <1>2, ReplyFields DEF HeadSize
    <2>4. pos \in Nat /\ pos <= Len(reply.stream)
        BY <1>1, Positions
    <2>5. pos - HeadSize(reply) \in 0..Len(reply.content)
        BY <1>2, <2>1, <2>2, <2>3, <2>4 DEF PlainPlace
    <2> QED BY <2>1, <2>5 DEF PlainPlace
<1>5. CASE parsingBody /\ chunkedResponse
    <2>1. ChunkPlace /\ reply.framing = "chunked"
        BY <1>1, <1>5 DEF Framing, InBody
    <2> DEFINE c(k) == reply.chunks[k]
               n == Len(reply.chunks)
    <2>2. \A k \in 1..n : c(k).from \in Nat /\ c(k).size \in Nat
        BY <1>2, ChunkFields
    <2>3. ASSUME NEW k \in 1..(n - 1)
          PROVE  k \in 1..n /\ c(k).from + c(k).size <= Len(reply.content)
        <3>1. k \in 1..n /\ k < n
            BY <1>2
        <3>2. c(k + 1).from = c(k).from + c(k).size /\ c(k + 1).from <= Len(reply.content)
            BY <2>1, <3>1 DEF WellFramed, WellFormedChunks
        <3> QED BY <3>1, <3>2
    <2>4. ASSUME NEW k \in 1..n PROVE c(k).from <= Len(reply.content)
        <3>1. CASE k = n
            <4>1. c(n).from = Len(reply.content)
                BY <2>1 DEF WellFramed, WellFormedChunks
            <4> HIDE DEF c, n
            <4> QED BY <1>2, <3>1, <4>1
        <3>2. CASE k # n
            <4>1. k \in 1..(n - 1)
                BY <1>2, <3>2
            <4>2. c(k).from \in Nat /\ c(k).size \in Nat
                BY <2>2
            <4>3. c(k).from + c(k).size <= Len(reply.content)
                BY <2>3, <4>1
            <4> HIDE DEF c
            <4> QED BY <1>2, <4>2, <4>3
        <3> QED BY <3>1, <3>2
    <2>5. CASE body = reply.content
        BY <1>2, <2>5, WholePrefix
    <2>6. CASE \E k \in 1..n : AtSize(reply.chunks[k])
        BY <1>2, <2>2, <2>4, <2>6 DEF AtSize
    <2>7. ASSUME NEW k \in 1..(n - 1), InChunk(c(k)) \/ BehindChunk(c(k))
          PROVE  \E a \in 0..Len(reply.content) : body = SubSeq(reply.content, 1, a)
        <3>1. /\ c(k).from \in Nat /\ c(k).size \in Nat
              /\ c(k).from + c(k).size <= Len(reply.content)
            BY <2>2, <2>3
        <3> DEFINE from == c(k).from
                   size == c(k).size
        <3>2. \/ /\ expectedChunkSize \in 1..size
                 /\ body = SubSeq(reply.content, 1, from + size - expectedChunkSize)
              \/ body = SubSeq(reply.content, 1, from + size)
            BY <2>7 DEF InChunk, BehindChunk
        <3> HIDE DEF from, size
        <3>3. from \in Nat /\ size \in Nat /\ from + size <= Len(reply.content)
            BY <3>1 DEF from, size
        <3>4. expectedChunkSize \in 1..size =>
                 from + size - expectedChunkSize \in 0..Len(reply.content)
            BY <1>2, <3>3
        <3>5. from + size \in 0..Len(reply.content)
            BY <1>2, <3>3
        <3> QED BY <3>2, <3>4, <3>5
    <2> QED BY <2>1, <2>5, <2>6, <2>7 DEF ChunkPlace
<1> QED BY <1>3, <1>4, <1>5

(* Whatever the peer's content is, however it is framed, and however TCP    *)
(* cuts the answer, response.body is a prefix of the content at all times.  *)
THEOREM BodyPrefix == Spec => []BodyIsPrefix
BY InitInv, NextInv, InvImpliesPrefix, PTL DEF Spec

(* send() takes the end of the content for the end of it only when it is.   *)
THEOREM CompleteWhole == Spec => []CompleteIsWhole
<1>1. IInv => CompleteIsWhole
    BY DEF IInv, CompleteIsWhole, Framing, Control, InBody
<1> QED BY InitInv, NextInv, <1>1, PTL DEF Spec

(* A well-framed answer is never refused, whatever its segments.            *)
THEOREM Accepted == Spec => []WellFramedAccepted
<1>1. IInv => WellFramedAccepted
    BY DEF IInv, WellFramedAccepted, Framing, Control
<1> QED BY InitInv, NextInv, <1>1, PTL DEF Spec

----------------------------------------------------------------------------
(* The way out of send().                                                   *)

(* Whatever ends the call, and wherever it was, the descriptor is closed.   *)
THEOREM DescriptorClosed == Spec => []SocketReleased
<1>1. Init => SocketReleased
    BY DEF Init, SocketReleased, Done
<1>2. SocketReleased /\ [Next]_vars => SocketReleased'
    BY DEF SocketReleased, Done, Next, Client, Environment, Construct, Resolve,
       OpenSocket, Connect, FinishConnect, SendSome, TimeOut, Blocked, Receive,
       ReceiveEnd, HeaderNotFound, parseStatusLine, RejectField, parseHeaderField,
       PlainBody, ChunkData, ChunkCrlf, ChunkSize, BetweenChunks, SystemCallFails,
       Answer, ServerSend, ServerRead, ServerLeave, DeadlinePasses, Reject, Leave,
       vars
<1> QED BY <1>1, <1>2, PTL DEF Spec

(* A call that has ended stays as it ended.                                 *)
LEMMA EndedStays == Done /\ [Next]_vars => UNCHANGED <<pc, status, body>>
BY DEF Done, Next, Client, Environment, Construct, Resolve,
   OpenSocket, Connect, FinishConnect, SendSome, TimeOut, Blocked, Receive,
   ReceiveEnd, HeaderNotFound, parseStatusLine, RejectField, parseHeaderField,
   PlainBody, ChunkData, ChunkCrlf, ChunkSize, BetweenChunks, SystemCallFails,
   Answer, ServerSend, ServerRead, ServerLeave, DeadlinePasses, headVars, vars

\* what send() returns from a well-framed answer
BlankOrCut ==
    pc = "returned" /\ WellFramed(reply) =>
        \/ status = 0 /\ body = <<>>
        \/ /\ status = reply.code
           /\ Len(body) <= Len(reply.content)
           /\ body = SubSeq(reply.content, 1, Len(body))

(* It is blank, or it is the peer's status with a prefix of the content.    *)
LEMMA ReturnedIsCut == IInv => BlankOrCut
<1> SUFFICES ASSUME IInv, pc = "returned", WellFramed(reply) PROVE BlankOrCut
    BY DEF BlankOrCut
<1> USE DEF BlankOrCut
<1>1. Framing
    BY DEF IInv
<1>2. CASE ~parsingBody
    BY <1>1, <1>2 DEF Framing, BeforeBody
<1>3. CASE parsingBody
    BY <1>1, <1>3, InvImpliesPrefix DEF Framing, InBody, BodyIsPrefix
<1> QED BY <1>2, <1>3

(* send() keeps the promise of HttpCall, on which WhipSession is built.     *)
THEOREM CallRefined == Spec => ImplementsHttpCall
<1>1. Init => Call!Init
    BY DEF Init, Done, Call!Init
<1>2. BlankOrCut' /\ [Next]_vars => [Call!Next]_(Call!vars)
    <2> SUFFICES ASSUME BlankOrCut', [Next]_vars PROVE [Call!Next]_(Call!vars)
        OBVIOUS
    <2>1. AnswerOf(reply') = AnswerOf(reply)
        BY ReplyFixed
    <2>2. CASE Done
        BY <2>1, <2>2, EndedStays DEF Done, Call!vars
    <2>3. CASE ~Done /\ ~Done'
        BY <2>1, <2>3 DEF Done, Call!vars
    <2>4. CASE ~Done /\ pc' = "threw"
        BY <2>1, <2>4 DEF Done, Call!Next, Call!Throw
    <2>5. CASE ~Done /\ pc' = "returned"
        <3>1. AnswerOf(reply).framed <=> WellFramed(reply)
            BY DEF AnswerOf
        <3>2. AnswerOf(reply).code = reply.code /\ AnswerOf(reply).content = reply.content
            BY DEF AnswerOf
        <3>3. WellFramed(reply) =>
                 \/ status' = 0 /\ body' = <<>>
                 \/ /\ status' = reply.code
                    /\ Len(body') <= Len(reply.content)
                    /\ body' = SubSeq(reply.content, 1, Len(body'))
            BY <2>5, ReplyFixed DEF BlankOrCut
        <3> QED BY <2>1, <2>5, <3>1, <3>2, <3>3
                DEF Done, Call!Next, Call!Return, Call!IsBlank, Call!IsCut
    <2> QED BY <2>2, <2>3, <2>4, <2>5 DEF Done
<1> QED BY InitInv, NextInv, ReturnedIsCut, <1>1, <1>2, PTL DEF Spec, ImplementsHttpCall, Call!Spec

=============================================================================
