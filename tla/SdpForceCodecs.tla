--------------------------- MODULE SdpForceCodecs ---------------------------
(***************************************************************************)
(* WHIPSession::SDPForceCodecs (src/whip.cpp): keep of an offer only the    *)
(* codecs in allowed_codecs. The loop looks at one line at a time. From the *)
(* m=video line on it holds lines back in two streams, and writes them,     *)
(* with a media line of the ids that remain, at the first a=ssrc line.      *)
(*                                                                         *)
(* A line is its kind and what the loop reads of it. cr counts the CRs      *)
(* before the LF: getline strips only the LF, and "\r\n" is written behind  *)
(* what is left, so a copied line gains a CR. The media line is cut before  *)
(* its ids, and so loses its own CR.                                        *)
(***************************************************************************)
EXTENDS Naturals, Sequences, FiniteSets

CONSTANTS
    Codecs,         \* codec names
    Ids,            \* payload type numbers
    Offers          \* texts of offers, sequences of Line

Line == [kind : {"video", "rtpmap", "param", "ssrc", "other"},
         id : Ids \cup {0}, codec : Codecs \cup {"none"}, ids : Seq(Ids), cr : Nat]

ASSUME ConstantsAssumption ==
    /\ Offers \subseteq Seq(Line)
    /\ Ids \subseteq Nat \ {0}
    /\ \A s \in Offers : \A n \in DOMAIN s : s[n].kind = "rtpmap" => s[n].id \in Ids

VARIABLES
    sdp,            \* the argument
    allowed_codecs, \* the other argument, as a set
    read,           \* lines that getline has given
    current_mline,  \* <<>> or <<the media line>>
    allowed_ids,
    midstream, rtmapstream, osdpstream

held == <<current_mline, midstream, rtmapstream>>
vars == <<sdp, allowed_codecs, read, held, allowed_ids, osdpstream>>

Done == read = Len(sdp)

\* the line that getline gives, with the "\r\n" that is written behind it
line == sdp[read + 1]
Copied == [line EXCEPT !.cr = @ + 1]

Elements(s) == {s[n] : n \in DOMAIN s}

Init ==
    /\ sdp \in Offers
    /\ allowed_codecs \in SUBSET Codecs
    /\ read = 0
    /\ current_mline = <<>>
    /\ allowed_ids = <<>>
    /\ midstream = <<>> /\ rtmapstream = <<>> /\ osdpstream = <<>>

\* one turn of the loop, on a line of this kind
Turn(kind) ==
    /\ ~Done
    /\ line.kind = kind
    /\ read' = read + 1
    /\ UNCHANGED <<sdp, allowed_codecs>>

MediaLine ==
    /\ Turn("video")
    /\ current_mline' = <<line>>
    /\ UNCHANGED <<allowed_ids, midstream, rtmapstream, osdpstream>>

\* mutant: substr starts one character late and the id is lost
RtpmapCutsId ==
    /\ Turn("rtpmap")
    /\ IF line.codec \in allowed_codecs
       THEN /\ allowed_ids' = Append(allowed_ids, 0)
            /\ rtmapstream' = Append(rtmapstream, Copied)
       ELSE UNCHANGED <<allowed_ids, rtmapstream>>
    /\ UNCHANGED <<current_mline, midstream, osdpstream>>

\* mutant: the id is taken before the codec is looked at
RtpmapIdFirst ==
    /\ Turn("rtpmap")
    /\ allowed_ids' = Append(allowed_ids, line.id)
    /\ rtmapstream' = IF line.codec \in allowed_codecs
                      THEN Append(rtmapstream, Copied) ELSE rtmapstream
    /\ UNCHANGED <<current_mline, midstream, osdpstream>>

\* a=rtpmap:<id> <codec>/...
Rtpmap ==
    /\ Turn("rtpmap")
    /\ IF line.codec \in allowed_codecs
       THEN /\ allowed_ids' = Append(allowed_ids, line.id)
            /\ rtmapstream' = Append(rtmapstream, Copied)
       ELSE UNCHANGED <<allowed_ids, rtmapstream>>
    /\ UNCHANGED <<current_mline, midstream, osdpstream>>

\* mutant: parameters are not filtered
ParameterUnfiltered ==
    /\ Turn("param")
    /\ rtmapstream' = Append(rtmapstream, Copied)
    /\ UNCHANGED <<current_mline, allowed_ids, midstream, osdpstream>>

\* a=rtcp-fb:<id> ... and a=fmtp:<id> ...
Parameter ==
    /\ Turn("param")
    /\ rtmapstream' = IF line.id \in Elements(allowed_ids)
                      THEN Append(rtmapstream, Copied) ELSE rtmapstream
    /\ UNCHANGED <<current_mline, allowed_ids, midstream, osdpstream>>

\* mutant: what was held back is written again at the next a=ssrc line
SsrcNotReset ==
    /\ Turn("ssrc")
    /\ osdpstream' =
          IF current_mline = <<>> THEN Append(osdpstream, Copied)
          ELSE osdpstream
               \o <<[current_mline[1] EXCEPT !.ids = allowed_ids, !.cr = 1]>>
               \o midstream \o rtmapstream \o <<Copied>>
    /\ UNCHANGED <<allowed_ids, held>>

\* a=ssrc: what was held back is written, then the line itself
Ssrc ==
    /\ Turn("ssrc")
    /\ osdpstream' =
          IF current_mline = <<>> THEN Append(osdpstream, Copied)
          ELSE osdpstream
               \o <<[current_mline[1] EXCEPT !.ids = allowed_ids, !.cr = 1]>>
               \o midstream \o rtmapstream \o <<Copied>>
    /\ IF current_mline = <<>> THEN UNCHANGED held
       ELSE current_mline' = <<>> /\ midstream' = <<>> /\ rtmapstream' = <<>>
    /\ UNCHANGED allowed_ids

Other ==
    /\ Turn("other")
    /\ IF current_mline # <<>>
       THEN midstream' = Append(midstream, Copied) /\ UNCHANGED osdpstream
       ELSE osdpstream' = Append(osdpstream, Copied) /\ UNCHANGED midstream
    /\ UNCHANGED <<current_mline, allowed_ids, rtmapstream>>

Next == MediaLine \/ Rtpmap \/ Parameter \/ Ssrc \/ Other

Spec == Init /\ [][Next]_vars

----------------------------------------------------------------------------
(* The filtered offer, defined without the loop.                            *)

Is(kind) == {n \in DOMAIN sdp : sdp[n].kind = kind}

\* the a=rtpmap lines that stay, those of allowed codecs, and their ids
Kept == {n \in Is("rtpmap") : sdp[n].codec \in allowed_codecs}
KeptIds == {sdp[n].id : n \in Kept}

\* the lines on codecs that stay
CodecLines == Kept \cup {n \in Is("param") : sdp[n].id \in KeptIds}

\* the other lines between the m= line, at v, and the first a=ssrc line, at f
Others(v, f) == {n \in Is("other") : v < n /\ n < f}

\* line n as it is written again
Written(n) == [sdp[n] EXCEPT !.cr = @ + 1]

\* the place of n when the members of S are listed in order
Place(S, n) == Cardinality({m \in S : m <= n})

----------------------------------------------------------------------------
(* Properties.                                                              *)

TypeOK ==
    /\ sdp \in Seq(Line)
    /\ allowed_codecs \in SUBSET Codecs
    /\ read \in 0..Len(sdp)
    /\ current_mline \in Seq(Line) /\ Len(current_mline) <= 1
    /\ allowed_ids \in Seq(Ids)
    /\ midstream \in Seq(Line) /\ rtmapstream \in Seq(Line)
    /\ osdpstream \in Seq(Line)

\* the only media line is at v, the first a=ssrc line at f, the lines on codecs
\* are between the two, and a parameter is behind the a=rtpmap lines of its id
SingleTrack(v, f) ==
    /\ Is("video") = {v} /\ f \in Is("ssrc") /\ \A n \in Is("ssrc") : f <= n
    /\ Is("rtpmap") \cup Is("param") \subseteq v..f /\ v < f
    /\ \A n \in Is("param"), k \in Is("rtpmap") : sdp[k].id = sdp[n].id => k < n

\* osdpstream is the filtered offer of the first r lines: the lines before the
\* media line; the media line, which lists exactly the ids whose a=rtpmap line
\* stays; the other lines of its section; the lines on codecs that stay; the
\* lines from the first a=ssrc line on
Filtered(v, f, r) ==
    LET media == osdpstream[v]
        codecs == v + Cardinality(Others(v, f))
        rest == codecs + Cardinality(CodecLines)
    IN  /\ Len(osdpstream) = rest + 1 + (r - f)
        /\ \A n \in 1..(v - 1) : osdpstream[n] = Written(n)
        /\ media = [sdp[v] EXCEPT !.ids = media.ids, !.cr = 1]
        /\ Len(media.ids) = Cardinality(Kept)
        /\ \A n \in Kept : media.ids[Place(Kept, n)] = sdp[n].id
        /\ \A n \in Others(v, f) : osdpstream[v + Place(Others(v, f), n)] = Written(n)
        /\ \A n \in CodecLines : osdpstream[codecs + Place(CodecLines, n)] = Written(n)
        /\ \A n \in f..r : osdpstream[rest + 1 + (n - f)] = Written(n)

(* For an offer as libwebrtc writes one for a single sending track, the     *)
(* loop returns the filtered offer, in which each line that stays is there  *)
(* once and in its order, and nothing is still held back at the end.        *)
FiltersOffer ==
    Done => \A v, f \in DOMAIN sdp : SingleTrack(v, f) => Filtered(v, f, Len(sdp))

Fits(l) ==
    /\ l.kind = "rtpmap" => l.codec \in allowed_codecs
    /\ l.kind = "param" => l.id \in Elements(allowed_ids)
    /\ l.kind = "video" => Elements(l.ids) \subseteq Elements(allowed_ids)

(* What was written never names a codec that is not allowed, whatever the   *)
(* order of the lines: every a=rtpmap line has an allowed codec, and every  *)
(* a=rtcp-fb and a=fmtp line belongs to an id found allowed.                *)
OnlyAllowed == \A n \in DOMAIN osdpstream : Fits(osdpstream[n])

\* the ids that an a=rtpmap line of this text explains
Mapped(s) == {s[n].id : n \in {k \in DOMAIN s : s[k].kind = "rtpmap"}}

\* every id of a media line of s is one of these
Explained(s, ids) ==
    \A n \in DOMAIN s : s[n].kind = "video" => Elements(s[n].ids) \subseteq ids

(* A media line is never written with an id whose a=rtpmap line is not      *)
(* written too: the two are collected apart, in allowed_ids, which lives as *)
(* long as the loop, and in rtmapstream, which every a=ssrc line empties.   *)
(* The line may stand in an earlier section: an id that two sections use is *)
(* one that both may list.                                                  *)
IdsMapped == Explained(osdpstream, Mapped(osdpstream))

=============================================================================
