------------------------ MODULE SdpForceCodecsProofs ------------------------
(***************************************************************************)
(* Proofs about SDPForceCodecs for every text, every set of codecs and any  *)
(* order of lines: what is held back fits as well as what was written. For  *)
(* the texts of a single track, of any length, what each stream holds.      *)
(***************************************************************************)
EXTENDS SdpForceCodecs, FiniteSetTheorems, SequenceTheorems, TLAPS

AllFit(s) == \A n \in DOMAIN s : Fits(s[n])

IInv ==
    /\ TypeOK
    /\ sdp \in Offers
    /\ current_mline # <<>> => current_mline[1].kind = "video"
    /\ AllFit(osdpstream)
    /\ AllFit(rtmapstream)
    /\ AllFit(midstream)

\* Fits with the variables of the next state.
FitsNext(l) ==
    /\ l.kind = "rtpmap" => l.codec \in allowed_codecs'
    /\ l.kind = "param" => l.id \in Elements(allowed_ids')
    /\ l.kind = "video" => Elements(l.ids) \subseteq Elements(allowed_ids')

AllFitNext(s) == \A n \in DOMAIN s : FitsNext(s[n])

\* A line gains a CR and stays a line of its kind.
LEMMA CopiedLine ==
    ASSUME TypeOK, ~Done
    PROVE  /\ line \in Line /\ Copied \in Line
           /\ Copied.kind = line.kind /\ Copied.id = line.id
           /\ Copied.codec = line.codec
<1>1. read + 1 \in 1..Len(sdp)
  BY DEF TypeOK, Done
<1>2. line \in Line
  BY <1>1 DEF line, TypeOK
<1> QED
  BY <1>2 DEF Copied, Line

\* Appending an id keeps the ids there were.
LEMMA IdsGrow ==
    ASSUME NEW s \in Seq(Ids), NEW x
    PROVE  Elements(s) \subseteq Elements(Append(s, x)) /\ x \in Elements(Append(s, x))
<1>1. /\ Len(Append(s, x)) = Len(s) + 1
      /\ \A n \in 1..Len(s) : Append(s, x)[n] = s[n]
      /\ Append(s, x)[Len(s) + 1] = x
      /\ Len(s) \in Nat
      /\ DOMAIN s = 1..Len(s) /\ DOMAIN Append(s, x) = 1..(Len(s) + 1)
  OBVIOUS
<1> QED
  BY <1>1 DEF Elements

\* Lines that fit keep fitting while the codecs stay and the ids only grow.
LEMMA FitStays ==
    ASSUME NEW s, AllFit(s), allowed_codecs' = allowed_codecs,
           Elements(allowed_ids) \subseteq Elements(allowed_ids')
    PROVE  AllFitNext(s)
BY DEF AllFit, AllFitNext, Fits, FitsNext

\* One more line that fits.
LEMMA FitAppend ==
    ASSUME NEW s \in Seq(Line), NEW l \in Line, AllFitNext(s), FitsNext(l)
    PROVE  AllFitNext(Append(s, l)) /\ Append(s, l) \in Seq(Line)
<1> HIDE DEF FitsNext
<1> QED
  BY DEF AllFitNext

\* Two texts that fit, one behind the other.
LEMMA FitConcat ==
    ASSUME NEW s \in Seq(Line), NEW t \in Seq(Line), AllFitNext(s), AllFitNext(t)
    PROVE  AllFitNext(s \o t) /\ s \o t \in Seq(Line)
<1>1. s \o t \in Seq(Line) /\ Len(s \o t) = Len(s) + Len(t)
  BY ConcatProperties
<1>2. ASSUME NEW n \in DOMAIN (s \o t)
      PROVE  FitsNext((s \o t)[n])
  <2>1. n \in 1..(Len(s) + Len(t))
    BY <1>1
  <2>2. CASE n <= Len(s)
    BY <2>1, <2>2, ConcatProperties DEF AllFitNext
  <2>3. CASE n > Len(s)
    BY <2>1, <2>3, ConcatProperties DEF AllFitNext
  <2> QED
    BY <2>1, <2>2, <2>3
<1> QED
  BY <1>1, <1>2 DEF AllFitNext

\* A text of one line.
LEMMA FitOne ==
    ASSUME NEW l \in Line, FitsNext(l)
    PROVE  AllFitNext(<<l>>) /\ <<l>> \in Seq(Line)
BY DEF AllFitNext

\* Every turn of the loop keeps the invariant.
LEMMA NextInv ==
    ASSUME IInv, Next
    PROVE  IInv'
<1> USE ConstantsAssumption
<1>0. sdp \in Offers /\ (current_mline # <<>> => current_mline[1].kind = "video")
  BY DEF IInv
<1>1. TypeOK /\ AllFit(osdpstream) /\ AllFit(rtmapstream) /\ AllFit(midstream)
  BY DEF IInv
<1>2. ~Done /\ read' = read + 1 /\ sdp' = sdp /\ allowed_codecs' = allowed_codecs
  BY DEF Next, MediaLine, Rtpmap, Parameter, Ssrc, Other, Turn
<1>3. sdp' \in Seq(Line) /\ allowed_codecs' \in SUBSET Codecs /\ read' \in 0..Len(sdp')
  BY <1>1, <1>2 DEF TypeOK, Done
<1>4. /\ line \in Line /\ Copied \in Line
      /\ Copied.kind = line.kind /\ Copied.id = line.id /\ Copied.codec = line.codec
  BY <1>1, <1>2, CopiedLine
<1>5. SUFFICES
         /\ current_mline' \in Seq(Line) /\ Len(current_mline') <= 1
         /\ current_mline' # <<>> => current_mline'[1].kind = "video"
         /\ allowed_ids' \in Seq(Ids)
         /\ midstream' \in Seq(Line) /\ AllFitNext(midstream')
         /\ rtmapstream' \in Seq(Line) /\ AllFitNext(rtmapstream')
         /\ osdpstream' \in Seq(Line) /\ AllFitNext(osdpstream')
  BY <1>0, <1>2, <1>3, <1>5 DEF IInv, TypeOK, AllFit, AllFitNext, Fits, FitsNext
<1>6. ASSUME allowed_ids' = allowed_ids
      PROVE  AllFitNext(osdpstream) /\ AllFitNext(rtmapstream) /\ AllFitNext(midstream)
  BY <1>1, <1>2, <1>6, FitStays
<1>7. CASE MediaLine
  BY <1>1, <1>4, <1>6, <1>7 DEF MediaLine, Turn, TypeOK
<1>8. CASE Rtpmap
  <2>1. CASE line.codec \notin allowed_codecs
    BY <1>0, <1>1, <1>6, <1>8, <2>1 DEF Rtpmap, TypeOK
  <2>2. CASE line.codec \in allowed_codecs
    <3>1. allowed_ids' = Append(allowed_ids, line.id) /\ line.kind = "rtpmap"
      BY <1>8, <2>2 DEF Rtpmap, Turn
    <3>2. Elements(allowed_ids) \subseteq Elements(allowed_ids')
      BY <1>1, <3>1, IdsGrow DEF TypeOK
    <3>3. AllFitNext(osdpstream) /\ AllFitNext(rtmapstream) /\ AllFitNext(midstream)
      BY <1>1, <1>2, <3>2, FitStays
    <3>4. FitsNext(Copied)
      BY <1>2, <1>4, <2>2, <3>1 DEF FitsNext
    <3>5. AllFitNext(Append(rtmapstream, Copied)) /\ Append(rtmapstream, Copied) \in Seq(Line)
      BY <1>1, <1>4, <3>3, <3>4, FitAppend DEF TypeOK
    <3>6. allowed_ids' \in Seq(Ids)
      <4>1. line.id \in Ids
        BY <1>0, <1>1, <1>2, <3>1 DEF TypeOK, Done, line
      <4> QED
        BY <1>1, <3>1, <4>1 DEF TypeOK
    <3> QED
      BY <1>0, <1>1, <1>8, <2>2, <3>3, <3>5, <3>6, Zenon DEF Rtpmap, TypeOK
  <2> QED
    BY <2>1, <2>2
<1>9. CASE Parameter
  <2>1. allowed_ids' = allowed_ids /\ line.kind = "param"
    BY <1>9 DEF Parameter, Turn
  <2>2. AllFitNext(osdpstream) /\ AllFitNext(rtmapstream) /\ AllFitNext(midstream)
    BY <2>1, <1>6
  <2>3. rtmapstream' \in Seq(Line) /\ AllFitNext(rtmapstream')
    <3>1. CASE line.id \notin Elements(allowed_ids)
      BY <1>1, <1>9, <2>2, <3>1 DEF Parameter, TypeOK
    <3>2. CASE line.id \in Elements(allowed_ids)
      <4>1. FitsNext(Copied)
        BY <1>4, <2>1, <3>2 DEF FitsNext
      <4> QED
        BY <1>1, <1>4, <1>9, <2>2, <3>2, <4>1, FitAppend DEF Parameter, TypeOK
    <3> QED
      BY <3>1, <3>2
  <2> QED
    BY <1>0, <1>1, <1>9, <2>2, <2>3 DEF Parameter, TypeOK
<1>10. CASE Other
  <2>1. allowed_ids' = allowed_ids /\ line.kind = "other"
    BY <1>10 DEF Other, Turn
  <2>2. AllFitNext(osdpstream) /\ AllFitNext(rtmapstream) /\ AllFitNext(midstream)
    BY <2>1, <1>6
  <2>3. FitsNext(Copied)
    BY <1>4, <2>1 DEF FitsNext
  <2>4. /\ AllFitNext(Append(midstream, Copied)) /\ Append(midstream, Copied) \in Seq(Line)
        /\ AllFitNext(Append(osdpstream, Copied)) /\ Append(osdpstream, Copied) \in Seq(Line)
    BY <1>1, <1>4, <2>2, <2>3, FitAppend DEF TypeOK
  <2> QED
    BY <1>0, <1>1, <1>10, <2>2, <2>4, Zenon DEF Other, TypeOK
<1>11. CASE Ssrc
  <2>1. allowed_ids' = allowed_ids /\ line.kind = "ssrc"
    BY <1>11 DEF Ssrc, Turn
  <2>2. AllFitNext(osdpstream) /\ AllFitNext(rtmapstream) /\ AllFitNext(midstream)
    BY <2>1, <1>6
  <2>3. FitsNext(Copied)
    BY <1>4, <2>1 DEF FitsNext
  <2>4. CASE current_mline = <<>>
    <3>1. AllFitNext(Append(osdpstream, Copied)) /\ Append(osdpstream, Copied) \in Seq(Line)
      BY <1>1, <1>4, <2>2, <2>3, FitAppend DEF TypeOK
    <3> QED
      BY <1>0, <1>1, <1>11, <2>2, <2>4, <3>1 DEF Ssrc, TypeOK, held
  <2>5. CASE current_mline # <<>>
    <3> DEFINE media == [current_mline[1] EXCEPT !.ids = allowed_ids, !.cr = 1]
    <3>1. current_mline[1] \in Line
      BY <1>1, <2>5 DEF TypeOK
    <3>2. media \in Line /\ media.ids = allowed_ids /\ media.kind = current_mline[1].kind
      BY <1>1, <3>1, Zenon DEF TypeOK, Line
    <3>3. current_mline[1].kind = "video"
      BY <1>0, <2>5
    <3>4. FitsNext(media)
      BY <2>1, <3>2, <3>3 DEF FitsNext
    <3> HIDE DEF media
    <3>5. osdpstream \in Seq(Line) /\ midstream \in Seq(Line) /\ rtmapstream \in Seq(Line)
      BY <1>1 DEF TypeOK
    <3>6. AllFitNext(<<media>>) /\ <<media>> \in Seq(Line)
      BY <3>2, <3>4, FitOne
    <3>7. AllFitNext(<<Copied>>) /\ <<Copied>> \in Seq(Line)
      BY <1>4, <2>3, FitOne
    <3>8. AllFitNext(osdpstream \o <<media>>) /\ osdpstream \o <<media>> \in Seq(Line)
      BY <2>2, <3>5, <3>6, FitConcat, Zenon
    <3>9. /\ AllFitNext(osdpstream \o <<media>> \o midstream)
          /\ osdpstream \o <<media>> \o midstream \in Seq(Line)
      BY <2>2, <3>5, <3>8, FitConcat, Zenon
    <3>10. /\ AllFitNext(osdpstream \o <<media>> \o midstream \o rtmapstream)
           /\ osdpstream \o <<media>> \o midstream \o rtmapstream \in Seq(Line)
      BY <2>2, <3>5, <3>9, FitConcat, Zenon
    <3>11. /\ AllFitNext(osdpstream \o <<media>> \o midstream \o rtmapstream \o <<Copied>>)
           /\ osdpstream \o <<media>> \o midstream \o rtmapstream \o <<Copied>> \in Seq(Line)
      BY <3>7, <3>10, FitConcat, Zenon
    <3>12. /\ osdpstream' = osdpstream \o <<media>> \o midstream \o rtmapstream \o <<Copied>>
           /\ current_mline' = <<>> /\ midstream' = <<>> /\ rtmapstream' = <<>>
      BY <1>11, <2>5 DEF Ssrc, media
    <3>13. AllFitNext(<<>>) /\ <<>> \in Seq(Line)
      BY DEF AllFitNext
    <3> QED
      BY <1>1, <2>1, <3>11, <3>12, <3>13 DEF TypeOK
  <2> QED
    BY <2>4, <2>5
<1> QED
  BY <1>7, <1>8, <1>9, <1>10, <1>11 DEF Next

\* The invariant holds throughout the loop.
THEOREM Inductive == Spec => []IInv
<1>1. Init => IInv
  BY ConstantsAssumption DEF Init, IInv, TypeOK, AllFit
<1>2. IInv /\ UNCHANGED vars => IInv'
  BY DEF IInv, TypeOK, AllFit, Fits, vars, held
<1>3. IInv /\ [Next]_vars => IInv'
  BY <1>2, NextInv
<1> QED
  BY <1>1, <1>3, PTL DEF Spec

\* The streams of the loop hold lines, the ids are payload types, and at most
\* one media line is held back.
THEOREM TypeCorrect == Spec => []TypeOK
<1>1. IInv => TypeOK
  BY DEF IInv
<1> QED
  BY <1>1, Inductive, PTL

\* For every text, in any order of its lines, SDPForceCodecs writes no codec
\* that is not allowed.
THEOREM AllowedOnly == Spec => []OnlyAllowed
<1>1. IInv => OnlyAllowed
  BY DEF IInv, OnlyAllowed, AllFit
<1> QED
  BY <1>1, Inductive, PTL

\* What explains the ids: the a=rtpmap lines written, and those held back,
\* among which there is no media line.
MInv ==
    /\ Elements(allowed_ids) \subseteq Mapped(osdpstream) \cup Mapped(rtmapstream)
    /\ IdsMapped
    /\ Explained(midstream, {}) /\ Explained(rtmapstream, {})

\* One more line explains what there was, and its own id.
LEMMA MappedAppend ==
    ASSUME NEW s \in Seq(Line), NEW l \in Line
    PROVE  /\ Mapped(s) \subseteq Mapped(Append(s, l))
           /\ l.kind = "rtpmap" => l.id \in Mapped(Append(s, l))
<1>1. /\ DOMAIN s = 1..Len(s) /\ DOMAIN Append(s, l) = 1..(Len(s) + 1) /\ Len(s) \in Nat
      /\ \A n \in 1..Len(s) : Append(s, l)[n] = s[n]
      /\ Append(s, l)[Len(s) + 1] = l
  OBVIOUS
<1> QED
  BY <1>1 DEF Mapped

\* Two texts explain what either does.
LEMMA MappedConcat ==
    ASSUME NEW s \in Seq(Line), NEW t \in Seq(Line)
    PROVE  Mapped(s) \subseteq Mapped(s \o t) /\ Mapped(t) \subseteq Mapped(s \o t)
<1>1. /\ DOMAIN s = 1..Len(s) /\ DOMAIN t = 1..Len(t) /\ DOMAIN (s \o t) = 1..(Len(s) + Len(t))
      /\ Len(s) \in Nat /\ Len(t) \in Nat
      /\ \A n \in 1..Len(s) : (s \o t)[n] = s[n]
  BY ConcatProperties
<1>2. ASSUME NEW n \in 1..Len(t) PROVE (s \o t)[Len(s) + n] = t[n]
  <2>1. Len(s) + n \in 1..(Len(s) + Len(t)) /\ Len(s) + n > Len(s) /\ Len(s) + n - Len(s) = n
    BY <1>1
  <2> QED
    BY <2>1, ConcatProperties
<1>3. Mapped(s) \subseteq Mapped(s \o t)
  BY <1>1 DEF Mapped
<1>4. ASSUME NEW n \in 1..Len(t), t[n].kind = "rtpmap" PROVE t[n].id \in Mapped(s \o t)
  <2>1. Len(s) + n \in DOMAIN (s \o t) /\ (s \o t)[Len(s) + n] = t[n]
    BY <1>1, <1>2
  <2> QED
    BY <2>1, <1>4 DEF Mapped
<1>5. Mapped(t) \subseteq Mapped(s \o t)
  BY <1>1, <1>4 DEF Mapped
<1> QED
  BY <1>3, <1>5

\* Two explained texts are one.
LEMMA ExplainedConcat ==
    ASSUME NEW s \in Seq(Line), NEW t \in Seq(Line), NEW ids,
           Explained(s, ids), Explained(t, ids)
    PROVE  Explained(s \o t, ids)
<1>1. s \o t \in Seq(Line) /\ Len(s \o t) = Len(s) + Len(t)
  BY ConcatProperties
<1>2. ASSUME NEW n \in DOMAIN (s \o t), (s \o t)[n].kind = "video"
      PROVE  Elements((s \o t)[n].ids) \subseteq ids
  <2>1. n \in 1..(Len(s) + Len(t))
    BY <1>1
  <2>2. CASE n <= Len(s)
    BY <1>2, <2>1, <2>2, ConcatProperties DEF Explained
  <2>3. CASE n > Len(s)
    BY <1>2, <2>1, <2>3, ConcatProperties DEF Explained
  <2> QED
    BY <2>1, <2>2, <2>3
<1> QED
  BY <1>2 DEF Explained

\* One more line, other than a media line, has nothing to explain.
LEMMA ExplainedAppend ==
    ASSUME NEW s \in Seq(Line), NEW l \in Line, NEW ids, NEW more,
           l.kind # "video", Explained(s, ids), ids \subseteq more
    PROVE  Explained(Append(s, l), more)
BY DEF Explained

\* Every turn of the loop keeps the ids explained.
LEMMA NextMapped ==
    ASSUME IInv, MInv, Next
    PROVE  MInv'
<1>1. /\ osdpstream \in Seq(Line) /\ rtmapstream \in Seq(Line) /\ midstream \in Seq(Line)
      /\ allowed_ids \in Seq(Ids) /\ current_mline \in Seq(Line)
      /\ TypeOK
  BY DEF IInv, TypeOK
<1>2. ~Done
  BY DEF Next, MediaLine, Rtpmap, Parameter, Ssrc, Other, Turn
<1>3. /\ Copied \in Line /\ Copied.kind = line.kind /\ Copied.id = line.id
  BY <1>1, <1>2, CopiedLine
<1>4. CASE MediaLine
  BY <1>4 DEF MediaLine, MInv, IdsMapped
<1>5. CASE Rtpmap
  <2>1. CASE line.codec \notin allowed_codecs
    BY <1>5, <2>1 DEF Rtpmap, MInv, IdsMapped
  <2>2. CASE line.codec \in allowed_codecs
    <3>1. /\ allowed_ids' = Append(allowed_ids, line.id) /\ line.kind = "rtpmap"
          /\ rtmapstream' = Append(rtmapstream, Copied)
          /\ osdpstream' = osdpstream /\ midstream' = midstream
      BY <1>5, <2>2 DEF Rtpmap, Turn
    <3>2. Mapped(rtmapstream) \subseteq Mapped(rtmapstream') /\ line.id \in Mapped(rtmapstream')
      BY <1>1, <1>3, <3>1, MappedAppend
    <3>3. Explained(rtmapstream', {})
      BY <1>1, <1>3, <3>1, ExplainedAppend DEF MInv
    <3>4. Elements(allowed_ids') \subseteq Elements(allowed_ids) \cup {line.id}
      BY <1>1, <3>1 DEF Elements
    <3>5. Elements(allowed_ids') \subseteq Mapped(osdpstream') \cup Mapped(rtmapstream')
      BY <3>1, <3>2, <3>4 DEF MInv
    <3> QED
      BY <3>1, <3>3, <3>5 DEF MInv, IdsMapped
  <2> QED
    BY <2>1, <2>2
<1>6. CASE Parameter
  <2>1. CASE line.id \notin Elements(allowed_ids)
    BY <1>6, <2>1 DEF Parameter, MInv, IdsMapped
  <2>2. CASE line.id \in Elements(allowed_ids)
    <3>1. /\ allowed_ids' = allowed_ids /\ line.kind = "param"
          /\ rtmapstream' = Append(rtmapstream, Copied)
          /\ osdpstream' = osdpstream /\ midstream' = midstream
      BY <1>6, <2>2 DEF Parameter, Turn
    <3>2. Mapped(rtmapstream) \subseteq Mapped(rtmapstream')
      BY <1>1, <1>3, <3>1, MappedAppend
    <3>3. Explained(rtmapstream', {})
      BY <1>1, <1>3, <3>1, ExplainedAppend DEF MInv
    <3> QED
      BY <3>1, <3>2, <3>3 DEF MInv, IdsMapped
  <2> QED
    BY <2>1, <2>2
<1>7. ASSUME osdpstream' = Append(osdpstream, Copied), line.kind # "video"
      PROVE  Mapped(osdpstream) \subseteq Mapped(osdpstream') /\ IdsMapped'
  <2>1. Mapped(osdpstream) \subseteq Mapped(osdpstream')
    BY <1>1, <1>3, <1>7, MappedAppend
  <2>2. Explained(osdpstream', Mapped(osdpstream'))
    BY <1>1, <1>3, <1>7, <2>1, ExplainedAppend DEF MInv, IdsMapped
  <2> QED
    BY <2>1, <2>2 DEF IdsMapped
<1>8. CASE Other
  <2>1. allowed_ids' = allowed_ids /\ rtmapstream' = rtmapstream /\ line.kind = "other"
    BY <1>8 DEF Other, Turn
  <2>2. CASE current_mline = <<>>
    BY <1>7, <1>8, <2>1, <2>2 DEF Other, MInv
  <2>3. CASE current_mline # <<>>
    <3>1. osdpstream' = osdpstream /\ midstream' = Append(midstream, Copied)
      BY <1>8, <2>3 DEF Other
    <3>2. Explained(midstream', {})
      BY <1>1, <1>3, <2>1, <3>1, ExplainedAppend DEF MInv
    <3> QED
      BY <2>1, <3>1, <3>2 DEF MInv, IdsMapped
  <2> QED
    BY <2>2, <2>3
<1>9. CASE Ssrc
  <2>1. allowed_ids' = allowed_ids /\ line.kind = "ssrc"
    BY <1>9 DEF Ssrc, Turn
  <2>2. CASE current_mline = <<>>
    BY <1>7, <1>9, <2>1, <2>2 DEF Ssrc, MInv, held
  <2>3. CASE current_mline # <<>>
    <3> DEFINE media == [current_mline[1] EXCEPT !.ids = allowed_ids, !.cr = 1]
               a == osdpstream \o <<media>>
               b == a \o midstream
               c == b \o rtmapstream
               ids == Mapped(osdpstream')
    <3>1. media \in Line /\ media.ids = allowed_ids
      <4>1. current_mline[1] \in Line
        BY <1>1, <2>3
      <4> QED
        BY <1>1, <4>1, Zenon DEF Line
    <3>2. osdpstream' = c \o <<Copied>> /\ midstream' = <<>> /\ rtmapstream' = <<>>
      BY <1>9, <2>3 DEF Ssrc
    <3> HIDE DEF media
    <3>3. <<media>> \in Seq(Line) /\ <<Copied>> \in Seq(Line)
      BY <1>3, <3>1
    <3>4. a \in Seq(Line) /\ b \in Seq(Line) /\ c \in Seq(Line)
      BY <1>1, <3>3, ConcatProperties
    <3>5. Mapped(osdpstream) \subseteq Mapped(a)
      BY <1>1, <3>3, MappedConcat, Zenon
    <3>6. Mapped(a) \subseteq Mapped(b)
      BY <1>1, <3>4, MappedConcat, Zenon
    <3>7. Mapped(b) \subseteq Mapped(c) /\ Mapped(rtmapstream) \subseteq Mapped(c)
      BY <1>1, <3>4, MappedConcat, Zenon
    <3>8. Mapped(c) \subseteq ids
      BY <3>2, <3>3, <3>4, MappedConcat, Zenon
    <3>9. Mapped(osdpstream) \subseteq ids /\ Mapped(rtmapstream) \subseteq ids
      BY <3>5, <3>6, <3>7, <3>8
    <3>10. Elements(allowed_ids) \subseteq ids
      BY <3>9 DEF MInv
    <3> HIDE DEF ids
    <3>11. Explained(osdpstream, ids)
      BY <3>9 DEF MInv, IdsMapped, Explained
    <3>12. Explained(<<media>>, ids) /\ Explained(<<Copied>>, ids)
      BY <1>3, <2>1, <3>1, <3>10 DEF Explained
    <3>13. Explained(midstream, ids) /\ Explained(rtmapstream, ids)
      BY DEF MInv, Explained
    <3> HIDE DEF a, b, c
    <3>14. Explained(a, ids)
      BY <1>1, <3>3, <3>11, <3>12, ExplainedConcat, Zenon DEF a
    <3>15. Explained(b, ids)
      BY <1>1, <3>4, <3>13, <3>14, ExplainedConcat DEF b
    <3>16. Explained(c, ids)
      BY <1>1, <3>4, <3>13, <3>15, ExplainedConcat DEF c
    <3>17. Explained(osdpstream', ids)
      BY <3>2, <3>3, <3>4, <3>12, <3>16, ExplainedConcat, Zenon
    <3>18. Explained(<<>>, {})
      BY DEF Explained
    <3> QED
      BY <2>1, <3>2, <3>10, <3>17, <3>18 DEF MInv, IdsMapped, ids
  <2> QED
    BY <2>2, <2>3
<1> QED
  BY <1>4, <1>5, <1>6, <1>8, <1>9 DEF Next

\* For every text, in any order of its lines, an id of a media line that
\* SDPForceCodecs writes has its a=rtpmap line in what it has written.
THEOREM WrittenIdsMapped == Spec => []IdsMapped
<1>1. Init => MInv
  BY DEF Init, MInv, IdsMapped, Explained, Mapped, Elements
<1>2. MInv /\ UNCHANGED vars => MInv'
  BY DEF MInv, IdsMapped, vars, held
<1>3. IInv /\ MInv /\ [Next]_vars => MInv'
  BY <1>2, NextMapped
<1>4. MInv => IdsMapped
  BY DEF MInv
<1> QED
  BY <1>1, <1>3, <1>4, Inductive, PTL DEF Spec

----------------------------------------------------------------------------
(* The filtered offer. While the loop is between the media line, at v, and  *)
(* the first a=ssrc line, at f, each stream lists the lines of its own that *)
(* were read so far.                                                        *)

Upto(S, r) == {n \in S : n <= r}

\* s holds the values of f at the members of S, in their order
Lists(s, S, f) ==
    /\ Len(s) = Cardinality(S)
    /\ \A n \in S : s[Place(S, n)] = f[n]

Lines == [n \in DOMAIN sdp |-> Written(n)]
LineIds == [n \in DOMAIN sdp |-> sdp[n].id]

Copies(m) == \A n \in 1..m : osdpstream[n] = Written(n)

BeforeMedia(v) ==
    /\ read < v
    /\ Len(osdpstream) = read /\ Copies(read)
    /\ current_mline = <<>>
    /\ midstream = <<>> /\ rtmapstream = <<>> /\ allowed_ids = <<>>

InSection(v, f) ==
    /\ v <= read /\ read < f
    /\ Len(osdpstream) = v - 1 /\ Copies(v - 1)
    /\ current_mline = <<sdp[v]>>
    /\ Lists(midstream, Upto(Others(v, f), read), Lines)
    /\ Lists(rtmapstream, Upto(CodecLines, read), Lines)
    /\ Lists(allowed_ids, Upto(Kept, read), LineIds)
    /\ Elements(allowed_ids) = {sdp[n].id : n \in Upto(Kept, read)}

AfterSection(v, f) ==
    /\ f <= read
    /\ current_mline = <<>>
    /\ Filtered(v, f, read)

Parts ==
    \A v, f \in DOMAIN sdp :
       SingleTrack(v, f) => BeforeMedia(v) \/ InSection(v, f) \/ AfterSection(v, f)

\* Members of a set of numbers have places up to its cardinality.
LEMMA Places ==
    ASSUME NEW l \in Nat, NEW S, S \subseteq 1..l
    PROVE  /\ IsFiniteSet(S) /\ Cardinality(S) \in Nat
           /\ \A n \in S : Place(S, n) \in 1..Cardinality(S)
<1>1. IsFiniteSet(S) /\ Cardinality(S) \in Nat
  <2>1. IsFiniteSet(1..l)
    BY FS_Interval
  <2> QED
    BY <2>1, FS_Subset, FS_CardinalityType, Zenon
<1>2. ASSUME NEW n \in S PROVE Place(S, n) \in 1..Cardinality(S)
  <2> DEFINE U == {m \in S : m <= n}
  <2>1. U \subseteq S /\ n \in U
    OBVIOUS
  <2>2. IsFiniteSet(U) /\ Cardinality(U) <= Cardinality(S) /\ Cardinality(U) \in Nat
    BY <1>1, <2>1, FS_Subset, FS_CardinalityType
  <2>3. Cardinality(U) # 0
    BY <2>1, <2>2, FS_EmptySet
  <2> QED
    BY <1>1, <2>2, <2>3 DEF Place
<1> QED
  BY <1>1, <1>2

\* What is appended to a list is the value at a number behind all the others.
LEMMA ListsAppend ==
    ASSUME NEW l \in Nat, NEW S, S \subseteq 1..l, l \notin S,
           NEW X, NEW s \in Seq(X), NEW f, f[l] \in X, Lists(s, S, f)
    PROVE  Lists(Append(s, f[l]), S \cup {l}, f)
<1> DEFINE T == S \cup {l}
           t == Append(s, f[l])
<1>1. /\ IsFiniteSet(S) /\ Cardinality(S) \in Nat
      /\ \A n \in S : Place(S, n) \in 1..Cardinality(S)
  BY Places, Zenon
<1>2. Cardinality(T) = Cardinality(S) + 1
  BY <1>1, FS_AddElement, Zenon
<1>3. ASSUME NEW n \in S PROVE Place(T, n) = Place(S, n)
  <2>1. {m \in T : m <= n} = {m \in S : m <= n}
    OBVIOUS
  <2> QED
    BY <2>1, Zenon DEF Place
<1>4. Place(T, l) = Cardinality(S) + 1
  <2>1. \A m \in T : m <= l
    OBVIOUS
  <2>2. {m \in T : m <= l} = T
    BY <2>1, Zenon
  <2> QED
    BY <1>2, <2>2, Zenon DEF Place
<1>5. Len(s) = Cardinality(S) /\ \A n \in S : s[Place(S, n)] = f[n]
  BY DEF Lists
<1>6. /\ Len(t) = Cardinality(S) + 1 /\ t[Cardinality(S) + 1] = f[l]
      /\ \A n \in 1..Cardinality(S) : t[n] = s[n]
  BY <1>1, <1>5
<1> HIDE DEF T, t
<1>7. ASSUME NEW n \in T PROVE t[Place(T, n)] = f[n]
  <2>1. CASE n = l
    BY <1>4, <1>6, <2>1
  <2>2. CASE n \in S
    BY <1>1, <1>3, <1>5, <1>6, <2>2
  <2> QED
    BY <2>1, <2>2 DEF T
<1>8. Lists(t, T, f)
  BY <1>2, <1>6, <1>7 DEF Lists
<1> QED
  BY <1>8 DEF T, t

\* A stream that lists the lines of S up to r, when line r + 1 is read.
LEMMA ListsNext ==
    ASSUME NEW r \in Nat, NEW l, l = r + 1, NEW S \in SUBSET (Nat \ {0}),
           NEW X, NEW s \in Seq(X), NEW f, Lists(s, Upto(S, r), f)
    PROVE  /\ l \in S /\ f[l] \in X => Lists(Append(s, f[l]), Upto(S, l), f)
           /\ l \notin S => Lists(s, Upto(S, l), f)
<1> DEFINE U == Upto(S, r)
<1>0. /\ \A n \in S : n \in Nat /\ 1 <= n /\ (n <= l <=> n <= r \/ n = l)
      /\ l \in Nat /\ ~(l <= r)
  OBVIOUS
<1>1. CASE l \in S
  <2>1. Upto(S, l) = U \cup {l}
    BY <1>0, <1>1, Zenon DEF Upto
  <2>2. U \subseteq 1..l /\ l \notin U
    <3>1. ASSUME NEW n \in U PROVE n \in 1..l /\ n # l
      <4>1. n \in S /\ n <= r
        BY DEF Upto
      <4> QED
        BY <1>0, <4>1
    <3> QED
      BY <3>1
  <2> HIDE DEF U
  <2>3. f[l] \in X => Lists(Append(s, f[l]), U \cup {l}, f)
    <3>1. Lists(s, U, f)
      BY DEF U
    <3> QED
      BY <1>0, <2>2, <3>1, ListsAppend, Zenon
  <2> QED
    BY <1>1, <2>1, <2>3, Zenon
<1>2. CASE l \notin S
  <2>1. Upto(S, l) = Upto(S, r)
    BY <1>0, <1>2, Zenon DEF Upto
  <2> QED
    BY <1>2, <2>1
<1> QED
  BY <1>1, <1>2

\* What is defined from the arguments stays.
LEMMA Fixed ==
    ASSUME sdp' = sdp, allowed_codecs' = allowed_codecs
    PROVE  /\ Kept' = Kept /\ CodecLines' = CodecLines
           /\ Lines' = Lines /\ LineIds' = LineIds
           /\ \A v, f : Others(v, f)' = Others(v, f)
           /\ \A n : Written(n)' = Written(n)
           /\ \A v, f : SingleTrack(v, f)' <=> SingleTrack(v, f)
<1>1. \A kind : Is(kind)' = Is(kind)
  BY DEF Is
<1>2. Kept' = Kept
  BY <1>1 DEF Kept
<1>3. KeptIds' = KeptIds
  BY <1>2 DEF KeptIds
<1>4. CodecLines' = CodecLines
  BY <1>1, <1>2, <1>3 DEF CodecLines
<1>5. \A n : Written(n)' = Written(n)
  BY DEF Written
<1>6. Lines' = Lines /\ LineIds' = LineIds
  BY <1>5 DEF Lines, LineIds
<1>7. \A v, f : Others(v, f)' = Others(v, f)
  BY <1>1 DEF Others
<1>8. \A v, f : SingleTrack(v, f)' <=> SingleTrack(v, f)
  BY <1>1 DEF SingleTrack
<1> QED
  BY <1>2, <1>4, <1>5, <1>6, <1>7, <1>8

\* What a line can be, by where it is.
LEMMA LineKinds ==
    ASSUME TypeOK, NEW v \in DOMAIN sdp, NEW f \in DOMAIN sdp, SingleTrack(v, f),
           NEW l \in DOMAIN sdp
    PROVE  /\ v \in Nat /\ f \in Nat /\ l \in Nat /\ 1 <= v /\ v < f /\ f <= Len(sdp)
           /\ l < v => sdp[l].kind = "other"
           /\ l = v => sdp[l].kind = "video"
           /\ v < l /\ l < f => sdp[l].kind \in {"other", "rtpmap", "param"}
           /\ l = f => sdp[l].kind = "ssrc"
           /\ f < l => sdp[l].kind \in {"ssrc", "other"}
<1>1. sdp[l].kind \in {"video", "rtpmap", "param", "ssrc", "other"}
  <2>1. sdp[l] \in Line
    BY DEF TypeOK
  <2> QED
    BY <2>1 DEF Line
<1>2. DOMAIN sdp = 1..Len(sdp) /\ Len(sdp) \in Nat
  BY DEF TypeOK
<1>3. /\ sdp[l].kind = "video" <=> l = v
      /\ sdp[l].kind = "ssrc" => f <= l
      /\ sdp[l].kind \in {"rtpmap", "param"} => v <= l /\ l <= f
      /\ sdp[f].kind = "ssrc" /\ v < f
  BY <1>2 DEF SingleTrack, Is
<1> QED
  BY <1>1, <1>2, <1>3

\* The sets of lines are sets of places in the text.
LEMMA LineSets ==
    ASSUME TypeOK, NEW v, NEW f
    PROVE  /\ DOMAIN sdp = 1..Len(sdp) /\ Len(sdp) \in Nat
           /\ Kept \subseteq DOMAIN sdp /\ CodecLines \subseteq DOMAIN sdp
           /\ Others(v, f) \subseteq DOMAIN sdp
           /\ DOMAIN sdp \subseteq Nat \ {0}
<1>1. DOMAIN sdp = 1..Len(sdp) /\ Len(sdp) \in Nat
  BY DEF TypeOK
<1>2. \A kind : Is(kind) \subseteq DOMAIN sdp
  BY DEF Is
<1>3. Kept \subseteq DOMAIN sdp /\ CodecLines \subseteq DOMAIN sdp
      /\ Others(v, f) \subseteq DOMAIN sdp
  BY <1>2 DEF Kept, CodecLines, Others
<1> QED
  BY <1>1, <1>3

\* Up to the media line no stream has lines of its own, and at the first a=ssrc
\* line they have them all.
LEMMA SectionStart ==
    ASSUME TypeOK, NEW v \in DOMAIN sdp, NEW f \in DOMAIN sdp, SingleTrack(v, f)
    PROVE  /\ Upto(Others(v, f), v) = {} /\ Upto(CodecLines, v) = {} /\ Upto(Kept, v) = {}
           /\ \A r \in Nat : r + 1 = f =>
                 /\ Upto(Others(v, f), r) = Others(v, f)
                 /\ Upto(CodecLines, r) = CodecLines
                 /\ Upto(Kept, r) = Kept
<1>1. /\ Is("rtpmap") \cup Is("param") \subseteq v..f /\ v < f
      /\ v \in Nat /\ f \in Nat
      /\ sdp[v].kind = "video" /\ sdp[f].kind = "ssrc"
  BY LineSets DEF SingleTrack, Is
<1>2. ASSUME NEW n \in CodecLines \cup Kept PROVE n \in Nat /\ v < n /\ n < f
  <2>1. n \in Is("rtpmap") \cup Is("param")
    BY DEF CodecLines, Kept
  <2>2. n \in v..f /\ n # v /\ n # f
    BY <1>1, <2>1 DEF Is
  <2> QED
    BY <1>1, <2>2
<1>3. ASSUME NEW n \in Others(v, f) PROVE n \in Nat /\ v < n /\ n < f
  BY LineSets DEF Others
<1>4. ASSUME NEW S, \A n \in S : n \in Nat /\ v < n /\ n < f
      PROVE  /\ Upto(S, v) = {}
             /\ \A r \in Nat : r + 1 = f => Upto(S, r) = S
  <2>1. \A n \in S : ~(n <= v) /\ \A r \in Nat : r + 1 = f => n <= r
    BY <1>1, <1>4
  <2> QED
    BY <2>1 DEF Upto
<1> QED
  BY <1>2, <1>3, <1>4

\* A turn of the loop reads one line.
LEMMA OneLine ==
    ASSUME TypeOK, Next
    PROVE  /\ ~Done /\ sdp' = sdp /\ allowed_codecs' = allowed_codecs
           /\ read' = read + 1 /\ read \in Nat
           /\ read + 1 \in DOMAIN sdp /\ line = sdp[read + 1] /\ Copied = Written(read + 1)
<1>1. ~Done /\ sdp' = sdp /\ allowed_codecs' = allowed_codecs /\ read' = read + 1
  BY DEF Next, MediaLine, Rtpmap, Parameter, Ssrc, Other, Turn
<1>2. read + 1 \in DOMAIN sdp /\ read \in Nat
  BY <1>1 DEF TypeOK, Done
<1> QED
  BY <1>1, <1>2 DEF line, Copied, Written

\* A line before the media line.
LEMMA StepBefore ==
    ASSUME TypeOK, Next,
           NEW v \in DOMAIN sdp, NEW f \in DOMAIN sdp, SingleTrack(v, f),
           BeforeMedia(v)
    PROVE  BeforeMedia(v)' \/ InSection(v, f)'
<1> DEFINE l == read + 1
<1>0. /\ l \in DOMAIN sdp /\ line = sdp[l] /\ l \in Nat /\ read' = l /\ Copied = Written(l)
      /\ sdp' = sdp /\ allowed_codecs' = allowed_codecs
  BY OneLine
<1>1. /\ v \in Nat /\ f \in Nat /\ 1 <= v /\ v < f
      /\ l < v => line.kind = "other"
      /\ l = v => line.kind = "video"
  BY <1>0, LineKinds
<1>2. CASE l < v
  <2>1. Other
    BY <1>1, <1>2 DEF Next, MediaLine, Rtpmap, Parameter, Ssrc, Turn
  <2>2. osdpstream' = Append(osdpstream, Written(l)) /\ osdpstream \in Seq(Line)
    BY <1>0, <2>1 DEF Other, BeforeMedia, TypeOK
  <2>3. Len(osdpstream') = l /\ \A n \in 1..l : osdpstream'[n] = Written(n)
    BY <1>0, <2>2 DEF BeforeMedia, Copies
  <2>4. Copies(read)'
    BY <1>0, <2>3, Fixed DEF Copies
  <2> QED
    BY <1>0, <1>2, <2>1, <2>3, <2>4 DEF BeforeMedia, Other
<1>3. CASE l = v
  <2>1. MediaLine
    BY <1>1, <1>3 DEF Next, Other, Rtpmap, Parameter, Ssrc, Turn
  <2>2. /\ Upto(Others(v, f), v) = {}
        /\ Upto(CodecLines, v) = {} /\ Upto(Kept, v) = {}
    BY <1>1, SectionStart
  <2>3. \A g : Lists(<<>>, {}, g)
    BY FS_EmptySet DEF Lists
  <2>4. Copies(v - 1)'
    BY <1>0, <1>1, <1>3, <2>1, Fixed DEF Copies, BeforeMedia, MediaLine
  <2>5. Elements(<<>>) = {}
    BY DEF Elements
  <2>6. /\ v <= read' /\ read' < f /\ Len(osdpstream') = v - 1
        /\ current_mline' = <<sdp'[v]>>
        /\ midstream' = <<>> /\ rtmapstream' = <<>> /\ allowed_ids' = <<>>
    BY <1>0, <1>1, <1>3, <2>1 DEF MediaLine, BeforeMedia
  <2>7. /\ Upto(Others(v, f), read)' = {}
        /\ Upto(CodecLines, read)' = {} /\ Upto(Kept, read)' = {}
    BY <1>0, <1>3, <2>2, Fixed DEF Upto
  <2> QED
    BY <2>3, <2>4, <2>5, <2>6, <2>7 DEF InSection
<1> QED
  BY <1>0, <1>1, <1>2, <1>3 DEF BeforeMedia

\* The ids of a sequence with one more.
LEMMA ElementsAppend ==
    ASSUME NEW X, NEW s \in Seq(X), NEW x \in X
    PROVE  Elements(Append(s, x)) = Elements(s) \cup {x}
<1>1. /\ Len(s) \in Nat /\ DOMAIN s = 1..Len(s) /\ DOMAIN Append(s, x) = 1..(Len(s) + 1)
      /\ \A n \in 1..Len(s) : Append(s, x)[n] = s[n]
      /\ Append(s, x)[Len(s) + 1] = x
  OBVIOUS
<1> QED
  BY <1>1 DEF Elements

\* A line between the media line and the first a=ssrc line.
LEMMA StepSection ==
    ASSUME TypeOK, sdp \in Offers, Next,
           NEW v \in DOMAIN sdp, NEW f \in DOMAIN sdp, SingleTrack(v, f),
           InSection(v, f), read + 1 < f
    PROVE  InSection(v, f)'
<1> DEFINE l == read + 1
           O == Others(v, f)
<1>0. /\ l \in DOMAIN sdp /\ line = sdp[l] /\ read \in Nat /\ l \in Nat /\ read' = l
      /\ Copied = Written(l) /\ sdp' = sdp /\ allowed_codecs' = allowed_codecs
  BY OneLine
<1>1. /\ v \in Nat /\ f \in Nat /\ 1 <= v /\ v < f
      /\ v < l /\ l < f
      /\ line.kind \in {"other", "rtpmap", "param"}
  BY <1>0, LineKinds DEF InSection
<1>2. Rtpmap \/ Parameter \/ Other
  BY <1>1 DEF Next, MediaLine, Ssrc, Turn
<1>3. /\ osdpstream' = osdpstream /\ current_mline' = current_mline
      /\ current_mline # <<>>
  BY <1>2 DEF Rtpmap, Parameter, Other, InSection
<1>4. /\ v <= read' /\ read' < f /\ Len(osdpstream') = v - 1
      /\ current_mline' = <<sdp'[v]>> /\ Copies(v - 1)'
  BY <1>0, <1>1, <1>3, Fixed DEF InSection, Copies
<1>5. /\ Lists(midstream, Upto(O, read), Lines)
      /\ Lists(rtmapstream, Upto(CodecLines, read), Lines)
      /\ Lists(allowed_ids, Upto(Kept, read), LineIds)
      /\ Elements(allowed_ids) = {sdp[n].id : n \in Upto(Kept, read)}
  BY DEF InSection
<1>6. /\ midstream \in Seq(Line) /\ rtmapstream \in Seq(Line) /\ allowed_ids \in Seq(Ids)
      /\ Copied \in Line
      /\ Lines[l] = Copied /\ LineIds[l] = line.id
      /\ O \in SUBSET (Nat \ {0}) /\ CodecLines \in SUBSET (Nat \ {0})
      /\ Kept \in SUBSET (Nat \ {0})
  <2>1. Lines[l] = Copied /\ LineIds[l] = line.id
    BY <1>0 DEF Lines, LineIds
  <2>2. Copied \in Line
    BY OneLine, CopiedLine
  <2> QED
    BY <2>1, <2>2, LineSets DEF TypeOK
<1> HIDE DEF l
<1>7. SUFFICES /\ Lists(midstream', Upto(O, l), Lines)
               /\ Lists(rtmapstream', Upto(CodecLines, l), Lines)
               /\ Lists(allowed_ids', Upto(Kept, l), LineIds)
               /\ Elements(allowed_ids') = {sdp[n].id : n \in Upto(Kept, l)}
  <2>1. /\ O' = O /\ CodecLines' = CodecLines /\ Kept' = Kept
        /\ Lines' = Lines /\ LineIds' = LineIds
    BY <1>0, Fixed
  <2> QED
    BY <1>0, <1>4, <1>7, <2>1 DEF InSection, Upto
<1>8. /\ l \in O => Lists(Append(midstream, Copied), Upto(O, l), Lines)
      /\ l \notin O => Lists(midstream, Upto(O, l), Lines)
  BY <1>0, <1>5, <1>6, ListsNext DEF l
<1>9. /\ l \in CodecLines => Lists(Append(rtmapstream, Copied), Upto(CodecLines, l), Lines)
      /\ l \notin CodecLines => Lists(rtmapstream, Upto(CodecLines, l), Lines)
  BY <1>0, <1>5, <1>6, ListsNext DEF l
<1>10. /\ l \in Kept /\ line.id \in Ids =>
             Lists(Append(allowed_ids, line.id), Upto(Kept, l), LineIds)
       /\ l \notin Kept => Lists(allowed_ids, Upto(Kept, l), LineIds)
  BY <1>0, <1>5, <1>6, ListsNext DEF l
<1>11. /\ l \notin Kept => Upto(Kept, l) = Upto(Kept, read)
       /\ l \in Kept => Upto(Kept, l) = Upto(Kept, read) \cup {l}
  <2>1. \A n \in Nat : n <= l <=> n <= read \/ n = l
    BY <1>0 DEF l
  <2>2. \A n \in Kept : n \in Nat
    BY <1>6
  <2> QED
    BY <1>0, <2>1, <2>2 DEF Upto
<1>12. CASE Other
  <2>1. l \in O /\ l \notin CodecLines /\ l \notin Kept
    BY <1>0, <1>1, <1>12 DEF Other, Turn, Others, CodecLines, Kept, Is
  <2> QED
    BY <1>3, <1>5, <1>8, <1>9, <1>10, <1>11, <1>12, <2>1, Zenon DEF Other
<1>13. CASE Rtpmap
  <2>1. l \notin O /\ l \in Is("rtpmap") /\ l \notin Is("param")
    BY <1>0, <1>13 DEF Rtpmap, Turn, Others, Is
  <2>2. CASE line.codec \in allowed_codecs
    <3>1. l \in Kept /\ l \in CodecLines
      BY <1>0, <2>1, <2>2 DEF Kept, CodecLines
    <3>2. allowed_ids' = Append(allowed_ids, line.id) /\ rtmapstream' = Append(rtmapstream, Copied)
          /\ midstream' = midstream
      BY <1>13, <2>2 DEF Rtpmap
    <3>3. line.id \in Ids
      BY <1>0, <1>13, ConstantsAssumption DEF Rtpmap, Turn
    <3>4. Elements(allowed_ids') = Elements(allowed_ids) \cup {line.id}
      BY <1>6, <3>2, <3>3, ElementsAppend
    <3> QED
      BY <1>0, <1>5, <1>8, <1>9, <1>10, <1>11, <2>1, <3>1, <3>2, <3>3, <3>4
  <2>3. CASE line.codec \notin allowed_codecs
    <3>1. l \notin Kept /\ l \notin CodecLines
      BY <1>0, <2>1, <2>3 DEF Kept, CodecLines
    <3>2. allowed_ids' = allowed_ids /\ rtmapstream' = rtmapstream /\ midstream' = midstream
      BY <1>13, <2>3 DEF Rtpmap
    <3> QED
      BY <1>5, <1>8, <1>9, <1>10, <1>11, <2>1, <3>1, <3>2
  <2> QED
    BY <2>2, <2>3
<1>14. CASE Parameter
  <2>1. l \notin O /\ l \notin Kept /\ l \in Is("param") /\ l \notin Is("rtpmap")
    BY <1>0, <1>14 DEF Parameter, Turn, Others, Kept, Is
  <2>2. allowed_ids' = allowed_ids /\ midstream' = midstream
    BY <1>14 DEF Parameter
  <2>3. line.id \in Elements(allowed_ids) <=> line.id \in KeptIds
    <3>1. \A k \in Kept : sdp[k].id = line.id => k < l
      BY <1>0, <2>1 DEF SingleTrack, Kept
    <3>2. \A k \in Kept : k < l => k \in Upto(Kept, read)
      BY <1>0, <1>6 DEF Upto, l
    <3>3. Upto(Kept, read) \subseteq Kept
      BY DEF Upto
    <3> QED
      BY <1>5, <3>1, <3>2, <3>3 DEF KeptIds
  <2>4. l \in CodecLines <=> line.id \in Elements(allowed_ids)
    BY <1>0, <2>1, <2>3 DEF CodecLines
  <2>5. rtmapstream' = IF l \in CodecLines THEN Append(rtmapstream, Copied) ELSE rtmapstream
    BY <1>14, <2>4 DEF Parameter
  <2> QED
    BY <1>5, <1>8, <1>9, <1>10, <1>11, <2>1, <2>2, <2>5
<1> QED
  BY <1>2, <1>12, <1>13, <1>14

\* w is s and t behind it
Two(w, s, t) ==
    /\ Len(w) = Len(s) + Len(t)
    /\ \A n \in 1..Len(s) : w[n] = s[n]
    /\ \A n \in 1..Len(t) : w[Len(s) + n] = t[n]

LEMMA JoinTwo ==
    ASSUME NEW X, NEW s \in Seq(X), NEW t \in Seq(X)
    PROVE  s \o t \in Seq(X) /\ Two(s \o t, s, t)
<1> DEFINE w == s \o t
<1>1. /\ w \in Seq(X) /\ Len(w) = Len(s) + Len(t) /\ Len(s) \in Nat /\ Len(t) \in Nat
      /\ \A n \in 1..(Len(s) + Len(t)) : w[n] = IF n <= Len(s) THEN s[n] ELSE t[n - Len(s)]
  BY ConcatProperties
<1> HIDE DEF w
<1>2. ASSUME NEW n \in 1..Len(s) PROVE w[n] = s[n]
  BY <1>1
<1>3. ASSUME NEW n \in 1..Len(t) PROVE w[Len(s) + n] = t[n]
  <2>1. /\ Len(s) + n \in 1..(Len(s) + Len(t)) /\ ~(Len(s) + n <= Len(s))
        /\ Len(s) + n - Len(s) = n
    BY <1>1
  <2> QED
    BY <1>1, <2>1
<1>4. Two(w, s, t)
  BY <1>1, <1>2, <1>3 DEF Two
<1> QED
  BY <1>1, <1>4 DEF w

\* w is a, the line m, b, c and the line z
Five(w, a, m, b, c, z) ==
    /\ Len(w) = Len(a) + 1 + Len(b) + Len(c) + 1
    /\ \A n \in 1..Len(a) : w[n] = a[n]
    /\ w[Len(a) + 1] = m
    /\ \A n \in 1..Len(b) : w[Len(a) + 1 + n] = b[n]
    /\ \A n \in 1..Len(c) : w[Len(a) + 1 + Len(b) + n] = c[n]
    /\ w[Len(a) + 1 + Len(b) + Len(c) + 1] = z

LEMMA JoinFive ==
    ASSUME NEW X, NEW a \in Seq(X), NEW m \in X, NEW b \in Seq(X), NEW c \in Seq(X),
           NEW z \in X
    PROVE  Five(a \o <<m>> \o b \o c \o <<z>>, a, m, b, c, z)
<1> DEFINE p == a \o <<m>>
           q == p \o b
           r == q \o c
           w == r \o <<z>>
<1>0. Len(a) \in Nat /\ Len(b) \in Nat /\ Len(c) \in Nat
  OBVIOUS
<1>1. /\ p \in Seq(X) /\ Len(p) = Len(a) + 1 /\ p[Len(a) + 1] = m
      /\ \A n \in 1..Len(a) : p[n] = a[n]
  OBVIOUS
<1> HIDE DEF p
<1>2. q \in Seq(X) /\ Two(q, p, b)
  BY <1>1, JoinTwo
<1> HIDE DEF q
<1>3. r \in Seq(X) /\ Two(r, q, c)
  BY <1>2, JoinTwo
<1> HIDE DEF r
<1>4. Len(w) = Len(r) + 1 /\ w[Len(r) + 1] = z /\ \A n \in 1..Len(r) : w[n] = r[n]
  BY <1>3
<1> HIDE DEF w
<1>5. /\ Len(q) = Len(a) + 1 + Len(b) /\ Len(r) = Len(a) + 1 + Len(b) + Len(c)
      /\ Len(p) = Len(a) + 1
  BY <1>0, <1>1, <1>2, <1>3 DEF Two
<1>6. ASSUME NEW n \in 1..(Len(a) + 1) PROVE w[n] = p[n]
  <2>1. n \in 1..Len(p) /\ n \in 1..Len(q) /\ n \in 1..Len(r)
    BY <1>0, <1>5
  <2> QED
    BY <1>2, <1>3, <1>4, <2>1 DEF Two
<1>7. ASSUME NEW n \in 1..Len(b) PROVE w[Len(a) + 1 + n] = b[n]
  <2>1. Len(a) + 1 + n \in 1..Len(q) /\ Len(a) + 1 + n \in 1..Len(r)
    BY <1>0, <1>5
  <2> QED
    BY <1>2, <1>3, <1>4, <1>5, <2>1 DEF Two
<1>8. ASSUME NEW n \in 1..Len(c) PROVE w[Len(a) + 1 + Len(b) + n] = c[n]
  <2>1. Len(a) + 1 + Len(b) + n \in 1..Len(r)
    BY <1>0, <1>5
  <2> QED
    BY <1>3, <1>4, <1>5, <2>1 DEF Two
<1>9. /\ \A n \in 1..Len(a) : w[n] = a[n]
      /\ w[Len(a) + 1] = m
  <2>1. Len(a) + 1 \in 1..(Len(a) + 1) /\ \A n \in 1..Len(a) : n \in 1..(Len(a) + 1)
    BY <1>0
  <2> QED
    BY <1>1, <1>6, <2>1
<1>10. Five(w, a, m, b, c, z)
  BY <1>4, <1>5, <1>7, <1>8, <1>9 DEF Five
<1> QED
  BY <1>10 DEF p, q, r, w

\* The first a=ssrc line: what was held back is written.
LEMMA StepSsrc ==
    ASSUME TypeOK, Next,
           NEW v \in DOMAIN sdp, NEW f \in DOMAIN sdp, SingleTrack(v, f),
           InSection(v, f), read + 1 = f
    PROVE  AfterSection(v, f)'
<1> DEFINE O == Others(v, f)
           media == [sdp[v] EXCEPT !.ids = allowed_ids, !.cr = 1]
<1>0. /\ f \in DOMAIN sdp /\ line = sdp[f] /\ read \in Nat /\ read' = f
      /\ Copied = Written(f) /\ sdp' = sdp /\ allowed_codecs' = allowed_codecs
  BY OneLine
<1>1. v \in Nat /\ f \in Nat /\ 1 <= v /\ v < f /\ line.kind = "ssrc"
  BY <1>0, LineKinds
<1>2. Ssrc
  BY <1>1 DEF Next, MediaLine, Rtpmap, Parameter, Other, Turn
<1>3. /\ Upto(O, read) = O /\ Upto(CodecLines, read) = CodecLines
      /\ Upto(Kept, read) = Kept
  BY <1>0, SectionStart
<1>4. /\ current_mline = <<sdp[v]>> /\ current_mline # <<>> /\ current_mline[1] = sdp[v]
      /\ Len(osdpstream) = v - 1 /\ Copies(v - 1)
      /\ Lists(midstream, O, Lines)
      /\ Lists(rtmapstream, CodecLines, Lines)
      /\ Lists(allowed_ids, Kept, LineIds)
  BY <1>3 DEF InSection
<1>5. /\ osdpstream' = osdpstream \o <<media>> \o midstream \o rtmapstream \o <<Copied>>
      /\ current_mline' = <<>>
  BY <1>2, <1>4 DEF Ssrc
<1>6. /\ osdpstream \in Seq(Line) /\ midstream \in Seq(Line) /\ rtmapstream \in Seq(Line)
      /\ Copied \in Line /\ media \in Line /\ media.ids = allowed_ids
      /\ media = [sdp[v] EXCEPT !.ids = media.ids, !.cr = 1]
  <2>1. sdp[v] \in Line /\ allowed_ids \in Seq(Ids)
    BY DEF TypeOK
  <2>2. media \in Line /\ media.ids = allowed_ids
    BY <2>1, Zenon DEF Line
  <2>3. Copied \in Line
    BY OneLine, CopiedLine
  <2> QED
    BY <2>2, <2>3 DEF TypeOK
<1> HIDE DEF media
<1> DEFINE o == Cardinality(O)
           c == Cardinality(CodecLines)
<1>7. /\ o \in Nat /\ c \in Nat
      /\ \A n \in O : Place(O, n) \in 1..o
      /\ \A n \in CodecLines : Place(CodecLines, n) \in 1..c
  BY LineSets, Places, Zenon
<1>8. /\ Len(midstream) = o /\ \A n \in O : midstream[Place(O, n)] = Written(n)
      /\ Len(rtmapstream) = c
      /\ \A n \in CodecLines : rtmapstream[Place(CodecLines, n)] = Written(n)
      /\ Len(allowed_ids) = Cardinality(Kept)
      /\ \A n \in Kept : allowed_ids[Place(Kept, n)] = sdp[n].id
  <2>1. \A n \in DOMAIN sdp : Lines[n] = Written(n) /\ LineIds[n] = sdp[n].id
    BY DEF Lines, LineIds
  <2> QED
    BY <1>4, <2>1, LineSets DEF Lists
<1> DEFINE w == osdpstream'
<1> HIDE DEF o, c, w
<1>9. /\ Len(w) = v - 1 + 1 + o + c + 1
      /\ \A n \in 1..(v - 1) : w[n] = osdpstream[n]
      /\ w[v - 1 + 1] = media
      /\ \A n \in 1..o : w[v - 1 + 1 + n] = midstream[n]
      /\ \A n \in 1..c : w[v - 1 + 1 + o + n] = rtmapstream[n]
      /\ w[v - 1 + 1 + o + c + 1] = Copied
  <2>1. w = osdpstream \o <<media>> \o midstream \o rtmapstream \o <<Copied>>
    BY <1>5 DEF w
  <2>2. Five(w, osdpstream, media, midstream, rtmapstream, Copied)
    BY <1>6, <2>1, JoinFive
  <2> QED
    BY <1>4, <1>8, <2>2, Zenon DEF Five
<1>10. /\ Len(w) = v + o + c + 1
       /\ \A n \in 1..(v - 1) : w[n] = osdpstream[n]
       /\ w[v] = media
       /\ \A n \in 1..o : w[v + n] = midstream[n]
       /\ \A n \in 1..c : w[v + o + n] = rtmapstream[n]
       /\ w[v + o + c + 1] = Copied
  <2>1. v - 1 + 1 = v
    BY <1>1
  <2> QED
    BY <1>9, <2>1
<1>11. /\ \A n \in 1..(v - 1) : w[n] = Written(n)
       /\ \A n \in O : w[v + Place(O, n)] = Written(n)
       /\ \A n \in CodecLines : w[v + o + Place(CodecLines, n)] = Written(n)
  BY <1>4, <1>7, <1>8, <1>10 DEF Copies
<1>12. /\ \A n \in f..f : w[v + o + c + 1 + (n - f)] = Written(n)
       /\ Len(w) = v + o + c + 1 + (f - f)
  BY <1>0, <1>1, <1>7, <1>10
<1>13. /\ O' = O /\ CodecLines' = CodecLines /\ Kept' = Kept
       /\ \A n : Written(n)' = Written(n)
  BY <1>0, Fixed
<1>14. /\ w[v] = [sdp[v] EXCEPT !.ids = w[v].ids, !.cr = 1]
       /\ Len(w[v].ids) = Cardinality(Kept)
       /\ \A n \in Kept : w[v].ids[Place(Kept, n)] = sdp[n].id
  BY <1>6, <1>8, <1>10, Zenon
<1>15. Filtered(v, f, read)'
  BY <1>0, <1>10, <1>11, <1>12, <1>13, <1>14 DEF Filtered, o, c, w
<1> QED
  BY <1>0, <1>1, <1>5, <1>15 DEF AfterSection

\* The parts of the filtered offer are within it.
LEMMA Indexes ==
    ASSUME NEW v \in Nat, NEW o \in Nat, NEW c \in Nat, NEW f \in Nat, NEW r \in Nat,
           f <= r, NEW k, k = v + o + c + 1 + (r - f)
    PROVE  /\ \A n \in 1..v : n \in 1..k
           /\ \A n \in 1..o : v + n \in 1..k
           /\ \A n \in 1..c : v + o + n \in 1..k
           /\ \A n \in f..r : v + o + c + 1 + (n - f) \in 1..k
<1>1. k \in Nat
  OBVIOUS
<1>2. \A n \in 1..v : n \in 1..k
  BY <1>1
<1>3. \A n \in 1..o : v + n \in 1..k
  BY <1>1
<1>4. \A n \in 1..c : v + o + n \in 1..k
  BY <1>1
<1>5. \A n \in f..r : v + o + c + 1 + (n - f) \in 1..k
  BY <1>1
<1> QED
  BY <1>2, <1>3, <1>4, <1>5

\* A line behind the first a=ssrc line.
LEMMA StepAfter ==
    ASSUME TypeOK, Next,
           NEW v \in DOMAIN sdp, NEW f \in DOMAIN sdp, SingleTrack(v, f),
           AfterSection(v, f)
    PROVE  AfterSection(v, f)'
<1> DEFINE O == Others(v, f)
           l == read + 1
           o == Cardinality(O)
           c == Cardinality(CodecLines)
           w == osdpstream'
<1>0. /\ l \in DOMAIN sdp /\ line = sdp[l] /\ read \in Nat /\ read' = l /\ l \in Nat
      /\ Copied = Written(l) /\ sdp' = sdp /\ allowed_codecs' = allowed_codecs
  BY OneLine
<1>1. v \in Nat /\ f \in Nat /\ 1 <= v /\ v < f /\ f < l /\ line.kind \in {"ssrc", "other"}
  BY <1>0, LineKinds DEF AfterSection
<1>2. Ssrc \/ Other
  BY <1>1 DEF Next, MediaLine, Rtpmap, Parameter, Turn
<1>3. w = Append(osdpstream, Written(l)) /\ current_mline' = <<>>
  BY <1>0, <1>2 DEF AfterSection, Ssrc, Other, held
<1>4. /\ o \in Nat /\ c \in Nat
      /\ \A n \in O : Place(O, n) \in 1..o
      /\ \A n \in CodecLines : Place(CodecLines, n) \in 1..c
  BY LineSets, Places, Zenon
<1>5. /\ \A n \in 1..(v - 1) : osdpstream[n] = Written(n)
      /\ osdpstream[v] = [sdp[v] EXCEPT !.ids = osdpstream[v].ids, !.cr = 1]
      /\ Len(osdpstream[v].ids) = Cardinality(Kept)
      /\ \A n \in Kept : osdpstream[v].ids[Place(Kept, n)] = sdp[n].id
      /\ \A n \in O : osdpstream[v + Place(O, n)] = Written(n)
      /\ \A n \in CodecLines : osdpstream[v + o + Place(CodecLines, n)] = Written(n)
      /\ \A n \in f..read : osdpstream[v + o + c + 1 + (n - f)] = Written(n)
      /\ Len(osdpstream) = v + o + c + 1 + (read - f)
  BY DEF AfterSection, Filtered
<1> HIDE DEF O, l, o, c, w
<1>6. /\ Len(w) = Len(osdpstream) + 1 /\ w[Len(osdpstream) + 1] = Written(l)
      /\ \A n \in 1..Len(osdpstream) : w[n] = osdpstream[n]
  BY <1>3 DEF TypeOK
<1>7. /\ \A n \in 1..v : w[n] = osdpstream[n]
      /\ \A n \in 1..o : w[v + n] = osdpstream[v + n]
      /\ \A n \in 1..c : w[v + o + n] = osdpstream[v + o + n]
      /\ \A n \in f..read : w[v + o + c + 1 + (n - f)] = osdpstream[v + o + c + 1 + (n - f)]
  <2>1. /\ \A n \in 1..v : n \in 1..Len(osdpstream)
        /\ \A n \in 1..o : v + n \in 1..Len(osdpstream)
        /\ \A n \in 1..c : v + o + n \in 1..Len(osdpstream)
        /\ \A n \in f..read : v + o + c + 1 + (n - f) \in 1..Len(osdpstream)
    <3>1. Len(osdpstream) \in Nat /\ Len(osdpstream) = v + o + c + 1 + (read - f) /\ f <= read
      BY <1>0, <1>1, <1>4, <1>5 DEF l
    <3> QED
      BY <1>0, <1>1, <1>4, <3>1, Indexes
  <2> QED
    BY <1>6, <2>1
<1>8. /\ \A n \in 1..(v - 1) : w[n] = Written(n)
      /\ w[v] = osdpstream[v]
      /\ \A n \in O : w[v + Place(O, n)] = Written(n)
      /\ \A n \in CodecLines : w[v + o + Place(CodecLines, n)] = Written(n)
  <2>1. /\ v \in 1..v /\ \A n \in 1..(v - 1) : n \in 1..v
    BY <1>1
  <2> QED
    BY <1>4, <1>5, <1>7, <2>1
<1>9. /\ \A n \in f..l : w[v + o + c + 1 + (n - f)] = Written(n)
      /\ Len(w) = v + o + c + 1 + (l - f)
  <2>1. Len(w) = v + o + c + 1 + (l - f) /\ w[v + o + c + 1 + (l - f)] = Written(l)
    <3>1. Len(osdpstream) + 1 = v + o + c + 1 + (l - f)
      BY <1>0, <1>1, <1>4, <1>5 DEF l
    <3> QED
      BY <1>6, <3>1
  <2>2. \A n \in f..l : n = l \/ n \in f..read
    BY <1>0, <1>1 DEF l
  <2> QED
    BY <1>5, <1>7, <2>1, <2>2
<1>10. /\ O' = O /\ CodecLines' = CodecLines /\ Kept' = Kept
       /\ \A n : Written(n)' = Written(n)
  BY <1>0, Fixed DEF O
<1>11. Filtered(v, f, read)'
  BY <1>0, <1>5, <1>8, <1>9, <1>10 DEF Filtered, O, o, c, w
<1> QED
  BY <1>0, <1>1, <1>3, <1>11 DEF AfterSection

\* Every turn of the loop keeps the parts.
LEMMA NextParts ==
    ASSUME IInv, Parts, Next
    PROVE  Parts'
<1>0. TypeOK /\ sdp \in Offers
  BY DEF IInv
<1>1. read \in Nat /\ read' = read + 1 /\ sdp' = sdp /\ allowed_codecs' = allowed_codecs
  BY <1>0, OneLine
<1> SUFFICES ASSUME NEW v \in DOMAIN sdp, NEW f \in DOMAIN sdp, SingleTrack(v, f)
             PROVE  BeforeMedia(v)' \/ InSection(v, f)' \/ AfterSection(v, f)'
  BY <1>1, Fixed DEF Parts
<1>2. CASE BeforeMedia(v)
  BY <1>0, <1>2, StepBefore
<1>3. CASE InSection(v, f)
  <2>1. f \in Nat /\ (read + 1 < f \/ read + 1 = f)
    BY <1>0, <1>1, <1>3, LineKinds DEF InSection
  <2>2. CASE read + 1 < f
    BY <1>0, <1>3, <2>2, StepSection
  <2>3. CASE read + 1 = f
    BY <1>0, <1>3, <2>3, StepSsrc
  <2> QED
    BY <2>1, <2>2, <2>3
<1>4. CASE AfterSection(v, f)
  BY <1>0, <1>4, StepAfter
<1> QED
  BY <1>2, <1>3, <1>4 DEF Parts

\* For every offer of a single track, whatever its length, its codecs and the
\* codecs allowed, SDPForceCodecs returns the filtered offer.
THEOREM OfferFiltered == Spec => []FiltersOffer
<1>1. Init => Parts
  <2> SUFFICES ASSUME Init, NEW v \in DOMAIN sdp, NEW f \in DOMAIN sdp
               PROVE  BeforeMedia(v)
    BY DEF Parts
  <2>1. sdp \in Seq(Line)
    BY ConstantsAssumption DEF Init
  <2>2. v \in Nat /\ 0 < v
    BY <2>1
  <2> QED
    BY <2>2 DEF Init, BeforeMedia, Copies
<1>2. Parts /\ UNCHANGED vars => Parts'
  <2> SUFFICES ASSUME Parts, UNCHANGED vars PROVE Parts'
    OBVIOUS
  <2>1. /\ sdp' = sdp /\ allowed_codecs' = allowed_codecs /\ read' = read
        /\ current_mline' = current_mline /\ midstream' = midstream
        /\ rtmapstream' = rtmapstream /\ allowed_ids' = allowed_ids
        /\ osdpstream' = osdpstream
    BY DEF vars, held
  <2>2. /\ Kept' = Kept /\ CodecLines' = CodecLines
        /\ Lines' = Lines /\ LineIds' = LineIds
        /\ \A v, f : Others(v, f)' = Others(v, f)
        /\ \A n : Written(n)' = Written(n)
        /\ \A v, f : SingleTrack(v, f)' <=> SingleTrack(v, f)
    BY <2>1, Fixed
  <2>3. \A v, f : BeforeMedia(v)' <=> BeforeMedia(v)
    BY <2>1, <2>2 DEF BeforeMedia, Copies
  <2>4. \A v, f : InSection(v, f)' <=> InSection(v, f)
    BY <2>1, <2>2, Zenon DEF InSection, Copies, Upto
  <2>5. \A v, f : AfterSection(v, f)' <=> AfterSection(v, f)
    BY <2>1, <2>2 DEF AfterSection, Filtered
  <2> QED
    BY <2>1, <2>2, <2>3, <2>4, <2>5 DEF Parts
<1>3. IInv /\ Parts /\ [Next]_vars => Parts'
  BY <1>2, NextParts
<1>4. IInv /\ Parts => FiltersOffer
  <2> SUFFICES ASSUME IInv, Parts, Done,
                      NEW v \in DOMAIN sdp, NEW f \in DOMAIN sdp, SingleTrack(v, f)
               PROVE  Filtered(v, f, Len(sdp))
    BY DEF FiltersOffer
  <2>1. /\ read = Len(sdp) /\ read \in Nat /\ v \in Nat /\ f \in Nat
        /\ v <= Len(sdp) /\ f <= Len(sdp)
    BY DEF IInv, TypeOK, Done
  <2>2. ~BeforeMedia(v) /\ ~InSection(v, f)
    BY <2>1 DEF BeforeMedia, InSection
  <2>3. AfterSection(v, f)
    BY <2>2 DEF Parts
  <2> QED
    BY <2>1, <2>3 DEF AfterSection
<1> QED
  BY <1>1, <1>3, <1>4, Inductive, PTL DEF Spec

=============================================================================
