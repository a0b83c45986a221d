-------------------------- MODULE MCSdpForceCodecs --------------------------
(***************************************************************************)
(* Offers for SDPForceCodecs: session lines, one video section whose media  *)
(* line lists the ids of its a=rtpmap lines, in any order of attribute      *)
(* lines in which a parameter follows the a=rtpmap line of its id, then the *)
(* a=ssrc lines and perhaps another attribute; and texts in any order.      *)
(***************************************************************************)
EXTENDS SdpForceCodecs

MCCodecs == {"H264", "VP8"}
MCIds == {1, 2, 3}

L(kind, id, codec) == [kind |-> kind, id |-> id, codec |-> codec, ids |-> <<>>, cr |-> 1]
other == L("other", 0, "none")
ssrc == L("ssrc", 0, "none")

\* three payload types: two H264 profiles and one VP8
Attributes == {other} \cup {L("param", id, "none") : id \in {1, 2}}
                 \cup {L("rtpmap", 1, "H264"), L("rtpmap", 2, "VP8"), L("rtpmap", 3, "H264")}

Maps(s) == SelectSeq(s, LAMBDA l : l.kind = "rtpmap")

WellOrdered(s) ==
    /\ \A n \in DOMAIN s : s[n].kind = "param" =>
          \E k \in 1..(n - 1) : s[k].kind = "rtpmap" /\ s[k].id = s[n].id
    /\ \A n, k \in DOMAIN s : n # k /\ s[n].kind = "rtpmap" => s[n] # s[k]
    /\ Len(Maps(s)) >= 1

Sections == {s \in UNION {[1..n -> Attributes] : n \in 1..5} : WellOrdered(s)}

Media(s) == [kind |-> "video", id |-> 0, codec |-> "none",
             ids |-> [n \in DOMAIN Maps(s) |-> Maps(s)[n].id], cr |-> 1]

MCOffers == {a \o <<Media(s)>> \o s \o b :
                a \in {<<other>>}, s \in Sections, b \in {<<ssrc>>, <<ssrc, ssrc, other>>}}

\* texts of up to five of these lines, in any order: any number of media
\* sections, attributes of none, and parameters before their a=rtpmap line
Texts == UNION {[1..n -> {L("video", 0, "none"), other, ssrc, L("param", 1, "none"),
                          L("rtpmap", 1, "H264"), L("rtpmap", 2, "VP8")}] : n \in 0..5}

AllOffers == MCOffers \cup Texts

=============================================================================
