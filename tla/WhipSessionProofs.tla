------------------------- MODULE WhipSessionProofs -------------------------
(***************************************************************************)
(* Proofs about WhipSession, for every set of answers and any number of     *)
(* candidates.                                                              *)
(***************************************************************************)
EXTENDS WhipSession, TLAPS

(* The inductive invariant follows the one offer through the session. It is *)
(* stronger than the properties because they do not say why a candidate is  *)
(* not yet in the description when it is read: there is at most one offer,  *)
(* and from the task that sets it to the end of OnSuccess no other runs.    *)

\* no offer has reached OnSuccess: at most one is on its way
BeforeOffer ==
    /\ sig = "idle"
    /\ ~local /\ gathered = 0 /\ localCandidates = 0
    /\ sdp = NoSdp
    /\ call = "none" /\ remote = <<>>
    /\ \/ main # "spin" /\ tasks = <<>> /\ desc = "none"
       \/ /\ main = "spin"
          /\ \/ tasks = <<"createOffer">> /\ desc = "none"
             \/ tasks = <<>> /\ desc = "making"
             \/ tasks = <<"offerMade">> /\ desc = "session"
             \/ tasks = <<"offerFailed">> /\ desc = "none"
             \/ tasks = <<>> /\ desc = "none" /\ ~Alive

\* what send() gave back, if it gave back anything
BodyIsCut ==
    call = "returned" /\ answer.framed =>
        /\ Len(body) <= Len(answer.content)
        /\ body = SubSeq(answer.content, 1, Len(body))

\* OnSuccess has begun: nothing but candidates is queued behind it
FromOffer ==
    /\ main = "spin"
    /\ desc \in {"pc", "freed"} /\ (local <=> desc = "pc")
    /\ tasks \in Seq({"candidate"}) /\ gathered = localCandidates + Len(tasks)
    /\ sig \in {"parameters", "toString"} => localCandidates = 0 /\ sdp = NoSdp
    /\ sig \notin {"parameters", "toString"} =>
          (sdp.offer <=> local) /\ sdp.candidates = 0
    /\ sig \in {"parameters", "toString", "post"} => call = "none"
    /\ sig = "http" => call = "pending" \/ (call = "threw" /\ ~Alive)
    /\ sig \in {"parse", "idle"} => call = "returned"
    /\ BodyIsCut
    /\ remote # <<>> => Alive /\ sig = "idle" /\ local

IInv == TypeOK /\ (BeforeOffer \/ FromOffer)

----------------------------------------------------------------------------
(* The parts of an answer.                                                  *)
LEMMA AnswerFields ==
    ASSUME NEW a \in Answers
    PROVE  /\ a.framed \in BOOLEAN /\ a.code \in Nat
           /\ a.content \in Seq(Lines) /\ Len(a.content) \in Nat
BY ConstantsAssumption

(* A prefix of a sequence of lines is one.                                  *)
LEMMA PrefixIsSeq ==
    ASSUME NEW s \in Seq(Lines), NEW b \in PrefixesOf(s)
    PROVE  b \in Seq(Lines)
BY DEF PrefixesOf

(* Initially no offer is on its way.                                        *)
LEMMA InitInv == Init => IInv
<1> SUFFICES ASSUME Init PROVE IInv
    OBVIOUS
<1>1. TypeOK
    <2>1. NoSdp \in Sdp
        BY ConstantsAssumption DEF Sdp, NoSdp
    <2>2. /\ tasks \in Seq({"createOffer", "offerMade", "offerFailed", "candidate"})
          /\ body \in Seq(Lines) /\ remote \in Seq(Lines) /\ sdp \in Sdp
        BY <2>1 DEF Init
    <2>3. gathered \in 0..MaxCandidates /\ localCandidates \in 0..gathered
        BY ConstantsAssumption DEF Init
    <2> QED BY <2>2, <2>3 DEF Init, TypeOK
<1>2. BeforeOffer
    BY DEF Init, BeforeOffer
<1> QED BY <1>1, <1>2 DEF IInv

(* A queue of candidates.                                                   *)
LEMMA Candidates ==
    ASSUME NEW t \in Seq({"candidate"})
    PROVE  /\ t # <<>> => Head(t) = "candidate" /\ Tail(t) \in Seq({"candidate"})
                          /\ Len(Tail(t)) = Len(t) - 1 /\ Len(t) >= 1
           /\ Append(t, "candidate") \in Seq({"candidate"})
           /\ Len(Append(t, "candidate")) = Len(t) + 1
           /\ Len(t) \in Nat
           /\ t \in Seq({"createOffer", "offerMade", "offerFailed", "candidate"})
OBVIOUS

(* Up to the offer: main builds the session, then one task at a time.       *)
LEMMA BeforeOfferNext ==
    ASSUME TypeOK, BeforeOffer, Next
    PROVE  TypeOK' /\ (BeforeOffer' \/ FromOffer')
<1> USE DEF procVars, descVars, httpVars
<1>0. \A t : tasks = <<t>> => tasks # <<>> /\ Head(tasks) = t /\ Tail(tasks) = <<>>
    OBVIOUS
<1>1. CASE Initialize
    BY <1>1 DEF Initialize, TypeOK, BeforeOffer, Alive
<1>2. CASE CreateConnection
    BY <1>2 DEF CreateConnection, Die, TypeOK, BeforeOffer, Alive
<1>3. CASE AddCaptureDevice
    BY <1>3 DEF AddCaptureDevice, Die, TypeOK, BeforeOffer, Alive
<1>4. CASE CreateOffer
    <2>1. tasks = <<>> /\ desc = "none" /\ tasks' = <<"createOffer">>
        BY <1>4 DEF CreateOffer, BeforeOffer
    <2> QED BY <1>4, <2>1 DEF CreateOffer, TypeOK, BeforeOffer, Alive
<1>5. CASE CreateOfferTask
    <2>1. tasks = <<"createOffer">> /\ tasks' = <<>>
        BY <1>0, <1>5 DEF CreateOfferTask, Runs, BeforeOffer
    <2>2. main = "spin"
        BY <2>1 DEF BeforeOffer
    <2> QED BY <1>5, <2>1, <2>2 DEF CreateOfferTask, TypeOK, BeforeOffer, Alive
<1>6. CASE OnFailure
    <2>1. tasks = <<"offerFailed">> /\ tasks' = <<>>
        BY <1>0, <1>6 DEF OnFailure, Runs, BeforeOffer
    <2>2. main = "spin" /\ desc = "none"
        BY <2>1 DEF BeforeOffer
    <2> QED BY <1>6, <2>1, <2>2 DEF OnFailure, Die, TypeOK, BeforeOffer, Alive
<1>7. CASE OnIceCandidate
    BY <1>0, <1>7 DEF OnIceCandidate, Runs, BeforeOffer
<1>8. CASE SetLocalDescription
    <2>1. tasks = <<"offerMade">> /\ tasks' = <<>>
        BY <1>0, <1>8 DEF SetLocalDescription, Runs, BeforeOffer
    <2>2. main = "spin"
        BY <2>1 DEF BeforeOffer
    <2>3. TypeOK'
        <3>1. tasks' \in Seq({"createOffer", "offerMade", "offerFailed", "candidate"})
            BY <2>1
        <3>2. local' \in BOOLEAN /\ desc' \in {"pc", "freed"} /\ sig' = "parameters"
            BY <1>8 DEF SetLocalDescription, TypeOK
        <3>3. UNCHANGED <<procVars, gathered, localCandidates, sdp, httpVars, remote, crash>>
            BY <1>8 DEF SetLocalDescription
        <3> QED BY <3>1, <3>2, <3>3 DEF TypeOK
    <2>4. FromOffer'
        <3>1. tasks' \in Seq({"candidate"}) /\ Len(tasks') = 0
            BY <2>1
        <3>2. desc' \in {"pc", "freed"} /\ (local' <=> desc' = "pc")
            BY <1>8 DEF SetLocalDescription, BeforeOffer
        <3> QED BY <1>8, <2>2, <3>1, <3>2
                DEF SetLocalDescription, BeforeOffer, FromOffer, BodyIsCut
    <2> QED BY <2>3, <2>4
<1>9. CASE SetParameters \/ ReadOffer \/ Post \/ ApplyAnswer \/ PostEnds \/ Gather
    BY <1>9 DEF SetParameters, ReadOffer, Post, ApplyAnswer, PostEnds, PostThrows,
       PostReturns, Gather, BeforeOffer
<1>10. CASE OfferDone
    <2>1. tasks = <<>> /\ main = "spin"
        BY <1>10 DEF OfferDone, BeforeOffer
    <2>2. \/ desc' = "session" /\ tasks' = <<"offerMade">>
          \/ desc' = "none" /\ tasks' = <<"offerFailed">>
        BY <1>10, <2>1 DEF OfferDone
    <2>3. tasks' \in Seq({"createOffer", "offerMade", "offerFailed", "candidate"})
        <3>1. CASE tasks' = <<"offerMade">>
            BY <3>1
        <3>2. CASE tasks' = <<"offerFailed">>
            BY <3>2
        <3> QED BY <2>2, <3>1, <3>2
    <2>4. TypeOK'
        BY <1>10, <2>2, <2>3 DEF OfferDone, TypeOK
    <2>5. BeforeOffer'
        BY <1>10, <2>1, <2>2 DEF OfferDone, BeforeOffer, Alive
    <2> QED BY <2>4, <2>5
<1> QED BY <1>1, <1>2, <1>3, <1>4, <1>5, <1>6, <1>7, <1>8, <1>9, <1>10
        DEF Next, Main, Signaling, OnSuccess

(* From the offer on: OnSuccess, step by step, and candidates.              *)
LEMMA FromOfferNext ==
    ASSUME TypeOK, FromOffer, Next
    PROVE  TypeOK' /\ FromOffer'
<1> USE DEF procVars, descVars, httpVars
<1>0. /\ tasks \in Seq({"candidate"}) /\ Len(tasks) \in Nat
      /\ tasks # <<>> => Head(tasks) = "candidate"
    BY Candidates DEF FromOffer
<1>1. CASE Main
    BY <1>1 DEF Main, Initialize, CreateConnection, AddCaptureDevice, CreateOffer, FromOffer
<1>2. CASE CreateOfferTask \/ OnFailure \/ SetLocalDescription
    BY <1>0, <1>2 DEF CreateOfferTask, OnFailure, SetLocalDescription, Runs
<1>3. CASE OnIceCandidate
    <2>1. /\ tasks # <<>> /\ tasks' = Tail(tasks) /\ sig = "idle"
          /\ localCandidates' = localCandidates + 1
        BY <1>3 DEF OnIceCandidate, Runs
    <2>2. tasks' \in Seq({"candidate"}) /\ Len(tasks') = Len(tasks) - 1 /\ Len(tasks) >= 1
        BY <1>0, <2>1, Candidates
    <2>3. /\ gathered = localCandidates + Len(tasks) /\ gathered \in Nat
          /\ localCandidates \in Nat
        BY ConstantsAssumption DEF FromOffer, TypeOK
    <2>4. gathered = localCandidates' + Len(tasks') /\ localCandidates' \in 0..gathered
        BY <1>0, <2>1, <2>2, <2>3
    <2>5. tasks' \in Seq({"createOffer", "offerMade", "offerFailed", "candidate"})
        BY <2>2, Candidates
    <2>6. TypeOK'
        BY <1>3, <2>4, <2>5 DEF OnIceCandidate, TypeOK
    <2> QED BY <1>3, <2>1, <2>2, <2>4, <2>6
            DEF OnIceCandidate, FromOffer, BodyIsCut, Alive
<1>4. CASE SetParameters
    BY <1>4 DEF SetParameters, Die, TypeOK, FromOffer, BodyIsCut, Alive
<1>5. CASE ReadOffer
    <2>1. sig = "toString" /\ localCandidates = 0 /\ call = "none" /\ remote = <<>>
        BY <1>5 DEF ReadOffer, FromOffer
    <2>2. CASE sdp' = sdp
        BY <1>5, <2>1, <2>2 DEF ReadOffer, Die, TypeOK, FromOffer, BodyIsCut, Alive
    <2>3. CASE /\ sdp' = [empty |-> FALSE, offer |-> desc # "freed",
                          candidates |-> IF desc # "freed" THEN localCandidates ELSE 0,
                          forced |-> ForcesCodecs]
               /\ sig' = "post" /\ UNCHANGED crash
        <3>1. sdp' = [empty |-> FALSE, offer |-> desc # "freed",
                      candidates |-> 0, forced |-> ForcesCodecs]
            BY <2>1, <2>3
        <3>2. sdp' \in Sdp
            BY <3>1, ConstantsAssumption DEF Sdp
        <3>3. (sdp'.offer <=> desc # "freed") /\ sdp'.candidates = 0
            BY <3>1
        <3>4. desc # "freed" <=> local
            BY DEF FromOffer
        <3> QED BY <1>5, <2>1, <2>3, <3>2, <3>3, <3>4
                DEF ReadOffer, TypeOK, FromOffer, BodyIsCut, Alive
    <2> QED BY <1>5, <2>2, <2>3 DEF ReadOffer
<1>6. CASE Post
    BY <1>6 DEF Post, TypeOK, FromOffer, BodyIsCut, Alive
<1>7. CASE PostThrows
    BY <1>7 DEF PostThrows, Http!Throw, Die, TypeOK, FromOffer, BodyIsCut, Alive
<1>8. CASE PostReturns
    <2>1. status' \in Nat
        BY <1>8, AnswerFields DEF PostReturns
    <2>2. body' \in Seq(Lines)
        <3>1. PICK a \in Answers : body' \in PrefixesOf(a.content)
            BY <1>8 DEF PostReturns
        <3> QED BY <3>1, AnswerFields, PrefixIsSeq
    <2>3. TypeOK'
        BY <1>8, <2>1, <2>2 DEF PostReturns, Http!Return, TypeOK
    <2>4. answer' = answer /\ answer \in Answers /\ call' = "returned"
        BY <1>8 DEF PostReturns, Http!Return, TypeOK
    <2>5. BodyIsCut'
        <3> SUFFICES ASSUME answer.framed
                     PROVE  /\ Len(body') <= Len(answer.content)
                            /\ body' = SubSeq(answer.content, 1, Len(body'))
            BY <2>4 DEF BodyIsCut
        <3>1. CASE body' = <<>>
            <4>1. SubSeq(answer.content, 1, 0) = <<>> /\ Len(answer.content) >= 0
                BY <2>4, AnswerFields
            <4>2. Len(body') = 0
                BY <3>1
            <4> QED BY <3>1, <4>1, <4>2
        <3>2. CASE body' # <<>>
            BY <1>8, <3>2 DEF PostReturns, Http!Return, Http!IsBlank, Http!IsCut
        <3> QED BY <3>1, <3>2
    <2> QED BY <1>8, <2>3, <2>4, <2>5 DEF PostReturns, FromOffer, Alive
<1>9. CASE ApplyAnswer
    BY <1>9 DEF ApplyAnswer, TypeOK, FromOffer, BodyIsCut, Alive
<1>10. CASE OfferDone
    BY <1>10 DEF OfferDone, FromOffer
<1>11. CASE Gather
    <2>1. /\ tasks' \in Seq({"candidate"}) /\ Len(tasks') = Len(tasks) + 1
          /\ tasks' \in Seq({"createOffer", "offerMade", "offerFailed", "candidate"})
        BY <1>0, <1>11, Candidates DEF Gather
    <2>2. /\ gathered = localCandidates + Len(tasks) /\ gathered \in Nat
          /\ localCandidates \in Nat
        BY ConstantsAssumption DEF FromOffer, TypeOK
    <2>3. /\ gathered' = localCandidates + Len(tasks')
          /\ gathered' \in 0..MaxCandidates /\ localCandidates \in 0..gathered'
        BY <1>0, <1>11, <2>1, <2>2, ConstantsAssumption DEF Gather, TypeOK
    <2>4. TypeOK'
        BY <1>11, <2>1, <2>3 DEF Gather, TypeOK
    <2> QED BY <1>11, <2>1, <2>3, <2>4 DEF Gather, FromOffer, BodyIsCut, Alive
<1> QED BY <1>1, <1>2, <1>3, <1>4, <1>5, <1>6, <1>7, <1>8, <1>9, <1>10, <1>11
        DEF Next, Signaling, OnSuccess, PostEnds

(* Every step keeps the invariant.                                          *)
LEMMA NextInv == IInv /\ [Next]_vars => IInv'
<1> SUFFICES ASSUME IInv, [Next]_vars PROVE IInv'
    OBVIOUS
<1>1. CASE Next /\ BeforeOffer
    BY <1>1, BeforeOfferNext DEF IInv
<1>2. CASE Next /\ FromOffer
    BY <1>2, FromOfferNext DEF IInv
<1>3. CASE UNCHANGED vars
    BY <1>3 DEF vars, procVars, descVars, httpVars, IInv, TypeOK, BeforeOffer,
       FromOffer, BodyIsCut, Alive
<1> QED BY <1>1, <1>2, <1>3 DEF IInv

(* The types of all variables hold in every reachable state: in particular  *)
(* no candidate is applied that was not gathered.                           *)
THEOREM TypeCorrect == Spec => []TypeOK
<1>1. IInv => TypeOK
    BY DEF IInv
<1> QED BY InitInv, NextInv, <1>1, PTL DEF Spec

(* The text OnSuccess posts lists no candidate, however many are gathered   *)
(* and however early.                                                       *)
THEOREM PostedWithoutCandidates == Spec => []OfferHasNoCandidates
<1>1. IInv => OfferHasNoCandidates
    <2>1. NoSdp.candidates = 0
        BY DEF NoSdp
    <2> QED BY <2>1 DEF IInv, BeforeOffer, FromOffer, OfferHasNoCandidates
<1> QED BY InitInv, NextInv, <1>1, PTL DEF Spec

(* An answer is applied only to the offer that was set and posted.          *)
THEOREM AnswerMatchesOffer == Spec => []AppliedToPostedOffer
<1>1. IInv => AppliedToPostedOffer
    BY DEF IInv, BeforeOffer, FromOffer, AppliedToPostedOffer
<1> QED BY InitInv, NextInv, <1>1, PTL DEF Spec

----------------------------------------------------------------------------
(* The refinement of WhipExchange.                                          *)

(* The server's answer is fixed before the session.                         *)
LEMMA AnswerFixed == [Next]_vars => answer' = answer
BY DEF Next, Main, Initialize, CreateConnection, AddCaptureDevice, CreateOffer,
   Signaling, CreateOfferTask, OnFailure, OnIceCandidate, OnSuccess,
   SetLocalDescription, SetParameters, ReadOffer, Post, ApplyAnswer, PostEnds,
   PostThrows, PostReturns, Http!Throw, Http!Return, OfferDone, Gather, vars,
   httpVars

\* the phase of WhipExchange a state is in, as Exchange maps it
Phase == IF Alive /\ remote # <<>> THEN "negotiated"
         ELSE IF Settled THEN "ended"
         ELSE IF call = "none" THEN "new" ELSE "offered"

(* Before the offer reaches OnSuccess the phase is new, or the session ends. *)
LEMMA BeforeOfferPhase ==
    ASSUME BeforeOffer, Next
    PROVE  remote' = <<>> /\ remote = <<>> /\ Phase \in {"new", "ended"}
           /\ (Phase' = Phase \/ (Phase = "new" /\ Phase' = "ended"))
<1> USE DEF procVars, descVars, httpVars
<1>1. remote = <<>> /\ call = "none" /\ sig = "idle"
    BY DEF BeforeOffer
<1>2. ~(SetParameters \/ ReadOffer \/ Post \/ ApplyAnswer \/ PostEnds \/ Gather)
    BY DEF SetParameters, ReadOffer, Post, ApplyAnswer, PostEnds, PostThrows,
       PostReturns, Gather, BeforeOffer
<1>3. remote' = remote /\ call' = call /\ Alive
    BY <1>2 DEF Next, Main, Initialize, CreateConnection, AddCaptureDevice,
       CreateOffer, Signaling, CreateOfferTask, OnFailure, OnIceCandidate, OnSuccess,
       SetLocalDescription, OfferDone, Runs
<1> QED BY <1>1, <1>3 DEF Phase, Settled, Alive

(* After it the phase goes from new to offered with the POST, and from      *)
(* offered to negotiated when ApplyAnswer applies what send() returned.     *)
LEMMA FromOfferPhase ==
    ASSUME TypeOK, FromOffer, Next
    PROVE  \/ Phase' = Phase /\ remote' = remote
           \/ Phase = "new" /\ Phase' = "offered" /\ remote' = remote
           \/ Phase \in {"new", "offered"} /\ Phase' = "ended" /\ remote' = remote
           \/ /\ Phase = "offered" /\ Phase' = "negotiated"
              /\ remote' = body /\ body # <<>> /\ call = "returned"
<1> USE DEF procVars, descVars, httpVars, Phase, Settled, Alive
<1>0. tasks # <<>> => Head(tasks) = "candidate"
    BY Candidates DEF FromOffer
<1>1. CASE Main
    BY <1>1 DEF Main, Initialize, CreateConnection, AddCaptureDevice, CreateOffer, FromOffer
<1>2. CASE CreateOfferTask \/ OnFailure \/ SetLocalDescription
    BY <1>0, <1>2 DEF CreateOfferTask, OnFailure, SetLocalDescription, Runs
<1>3. CASE OnIceCandidate \/ Gather
    BY <1>3 DEF OnIceCandidate, Gather
<1>4. CASE SetParameters
    BY <1>4 DEF SetParameters, Die, FromOffer
<1>5. CASE ReadOffer
    BY <1>5 DEF ReadOffer, Die, FromOffer
<1>6. CASE Post
    BY <1>6 DEF Post, FromOffer
<1>7. CASE PostThrows
    BY <1>7 DEF PostThrows, Http!Throw, Die, FromOffer
<1>8. CASE PostReturns
    BY <1>8 DEF PostReturns, Http!Return, FromOffer
<1>9. CASE ApplyAnswer
    BY <1>9 DEF ApplyAnswer, FromOffer
<1>10. CASE OfferDone
    BY <1>10 DEF OfferDone, FromOffer
<1> QED BY <1>1, <1>2, <1>3, <1>4, <1>5, <1>6, <1>7, <1>8, <1>9, <1>10
        DEF Next, Signaling, OnSuccess, PostEnds

(* The session implements the exchange: one offer, then one answer that is  *)
(* a piece of what the server sent, or the end.                             *)
THEOREM ExchangeRefined == Spec => ImplementsExchange
<1>1. Init => Exchange!Init
    BY DEF Init, Exchange!Init, Settled, Alive
<1>2. IInv /\ [Next]_vars => [Exchange!Next]_(Exchange!vars)
    <2> SUFFICES ASSUME IInv, [Next]_vars PROVE [Exchange!Next]_(Exchange!vars)
        OBVIOUS
    <2>0. answer' = answer
        BY AnswerFixed
    <2>1. CASE UNCHANGED vars
        BY <2>1 DEF vars, httpVars, Exchange!vars, Settled, Alive
    <2>2. CASE Next /\ BeforeOffer
        BY <2>0, <2>2, BeforeOfferPhase DEF Phase, Exchange!vars, Exchange!Next, Exchange!End
    <2>3. CASE Next /\ FromOffer
        <3>1. CASE Phase' = Phase /\ remote' = remote
            BY <2>0, <3>1 DEF Phase, Exchange!vars
        <3>2. CASE Phase = "new" /\ Phase' = "offered" /\ remote' = remote
            BY <2>0, <3>2 DEF Phase, Exchange!Next, Exchange!Offer
        <3>3. CASE Phase \in {"new", "offered"} /\ Phase' = "ended" /\ remote' = remote
            BY <2>0, <3>3 DEF Phase, Exchange!Next, Exchange!End
        <3>4. CASE /\ Phase = "offered" /\ Phase' = "negotiated"
                   /\ remote' = body /\ body # <<>> /\ call = "returned"
            <4>1. body \in Seq(Lines) /\ Len(remote') > 0
                BY <3>4 DEF IInv, TypeOK
            <4>2. answer.framed => /\ Len(remote') <= Len(answer.content)
                                   /\ remote' = SubSeq(answer.content, 1, Len(remote'))
                BY <2>3, <3>4 DEF FromOffer, BodyIsCut
            <4> QED BY <2>0, <3>4, <4>1, <4>2 DEF Phase, Exchange!Next, Exchange!Negotiate
        <3> QED BY <2>3, <3>1, <3>2, <3>3, <3>4, FromOfferPhase DEF IInv
    <2> QED BY <2>1, <2>2, <2>3 DEF IInv
<1> QED BY InitInv, NextInv, <1>1, <1>2, PTL DEF Spec, ImplementsExchange, Exchange!Spec

=============================================================================
