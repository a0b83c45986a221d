---------------------------- MODULE WhipSession ----------------------------
(***************************************************************************)
(* WHIPSession (src/whip.cpp, include/whip.h) as src/main.cpp drives it.    *)
(* Three threads of control:                                                *)
(*   - main builds the session, posts the CreateOffer task and spins;       *)
(*   - the signaling thread runs tasks in order. OnSuccess, the handler of  *)
(*     the finished offer, runs there from end to end, the blocking HTTP    *)
(*     POST included;                                                       *)
(*   - libwebrtc's network thread gathers ICE candidates once a local       *)
(*     description is set and posts each of them to the signaling thread.   *)
(* Methods of the factory and of the PeerConnection are proxied: called on  *)
(* main they run on the signaling thread between two tasks, and main waits. *)
(* The POST is the call of module HttpCall. An uncaught exception, a failed *)
(* assert or a null dereference ends the process: crash names it.           *)
(***************************************************************************)
EXTENDS Naturals, Sequences

CONSTANTS
    Answers,          \* what the WHIP server may answer: [framed, code, content]
    Lines,            \* the lines that content is made of
    SdpLines,         \* those of them that SDP may be made of
    MaxCandidates,    \* bound on the candidates that are gathered
    ForcesCodecs,     \* allowed_codecs.has_value(); main.cpp never sets it
    AssertsOn         \* FALSE iff built with NDEBUG

VARIABLES
    main,             \* what main does next
    factory, pcon,    \* WHIPSession::factory and ::pc: "none", "null", "set"
    senders,          \* pc->GetSenders().size()
    sig,              \* what the signaling thread does next
    tasks,            \* its message queue
    desc,             \* the offer: "none", "making", "session", "pc", "freed"
    local,            \* the local description is set (have-local-offer)
    gathered,         \* candidates posted by the network thread
    localCandidates,  \* candidates in the local description
    sdp,              \* WHIPSession::sdp, see Sdp
    call, answer, status, body,   \* the POST, as in HttpCall
    remote,           \* the body applied as remote description, <<>> if none
    crash             \* "none", "exception", "null", "assert", "ub"

procVars == <<main, factory, pcon, senders>>
descVars == <<desc, local, gathered, localCandidates>>
httpVars == <<call, answer, status, body>>
vars == <<procVars, sig, tasks, descVars, sdp, httpVars, remote, crash>>

\* the text to post: whether it is the text of the offer, how many candidates
\* it lists, and whether SDPForceCodecs rewrote it
Sdp == [empty : BOOLEAN, offer : BOOLEAN, candidates : 0..MaxCandidates,
        forced : BOOLEAN]
NoSdp == [empty |-> TRUE, offer |-> FALSE, candidates |-> 0, forced |-> FALSE]

ASSUME ConstantsAssumption ==
    /\ Answers \subseteq [framed : BOOLEAN, code : Nat, content : Seq(Lines)]
    /\ MaxCandidates \in Nat
    /\ ForcesCodecs \in BOOLEAN /\ AssertsOn \in BOOLEAN

Http == INSTANCE HttpCall

Alive == crash = "none"
Die(how) == crash' = how

PrefixesOf(s) == {SubSeq(s, 1, n) : n \in 0..Len(s)}

Init ==
    /\ main = "initialize"
    /\ factory = "none" /\ pcon = "none" /\ senders = 0
    /\ sig = "idle"
    /\ tasks = <<>>
    /\ desc = "none" /\ local = FALSE /\ gathered = 0 /\ localCandidates = 0
    /\ sdp = NoSdp
    /\ call = "none" /\ answer \in Answers /\ status = 0 /\ body = <<>>
    /\ remote = <<>>
    /\ crash = "none"

----------------------------------------------------------------------------
(* The main thread.                                                         *)

\* a null factory is logged and kept
Initialize ==
    /\ Alive /\ main = "initialize"
    /\ factory' \in {"null", "set"}
    /\ main' = "connect"
    /\ UNCHANGED <<pcon, senders, sig, tasks, descVars, sdp, httpVars, remote,
                   crash>>

\* factory->CreatePeerConnection; main ignores the result
CreateConnection ==
    /\ Alive /\ main = "connect" /\ sig = "idle"
    /\ \/ /\ factory = "null"
          /\ Die("null")
          /\ UNCHANGED <<main, pcon>>
       \/ /\ factory = "set"
          /\ pcon' \in {"null", "set"}
          /\ main' = "capture"
          /\ UNCHANGED crash
    /\ UNCHANGED <<factory, senders, sig, tasks, descVars, sdp, httpVars, remote>>

\* V4LDevice or the capturer cannot be made: exception; StartCapture fails:
\* assert(false); then CreateVideoTrack and AddTrack, whose error is logged
AddCaptureDevice ==
    /\ Alive /\ main = "capture" /\ sig = "idle"
    /\ \/ /\ Die("exception")
          /\ UNCHANGED <<main, senders>>
       \/ /\ AssertsOn
          /\ Die("assert")
          /\ UNCHANGED <<main, senders>>
       \/ /\ pcon = "null"
          /\ Die("null")
          /\ UNCHANGED <<main, senders>>
       \/ /\ pcon = "set"
          /\ senders' \in {0, 1}
          /\ main' = "offer"
          /\ UNCHANGED crash
    /\ UNCHANGED <<factory, pcon, sig, tasks, descVars, sdp, httpVars, remote>>

\* two proxied reads for the log, then PostTask; main spins from then on
CreateOffer ==
    /\ Alive /\ main = "offer" /\ sig = "idle"
    /\ tasks' = Append(tasks, "createOffer")
    /\ main' = "spin"
    /\ UNCHANGED <<factory, pcon, senders, sig, descVars, sdp, httpVars, remote,
                   crash>>

----------------------------------------------------------------------------
(* The signaling thread: one action per task.                               *)

Runs(task) == Alive /\ sig = "idle" /\ tasks # <<>> /\ Head(tasks) = task

\* the posted lambda: libwebrtc starts to make the offer
CreateOfferTask ==
    /\ Runs("createOffer")
    /\ tasks' = Tail(tasks)
    /\ desc' = "making"
    /\ UNCHANGED <<procVars, sig, local, gathered, localCandidates, sdp, httpVars,
                   remote, crash>>

\* mutant: the failure is logged and nothing is thrown
OnFailureLogged ==
    /\ Runs("offerFailed")
    /\ tasks' = Tail(tasks)
    /\ UNCHANGED <<procVars, sig, descVars, sdp, httpVars, remote, crash>>

\* WHIPSession::OnFailure throws on the signaling thread
OnFailure ==
    /\ Runs("offerFailed")
    /\ tasks' = Tail(tasks)
    /\ Die("exception")
    /\ UNCHANGED <<procVars, sig, descVars, sdp, httpVars, remote>>

\* mutant: the event is handled but stays in the queue
OnIceCandidateTwice ==
    /\ Runs("candidate")
    /\ localCandidates' = localCandidates + 1
    /\ UNCHANGED <<procVars, sig, tasks, desc, local, gathered, sdp, httpVars,
                   remote, crash>>

\* mutant: the candidate is posted again, for later
OnIceCandidateAgain ==
    /\ Runs("candidate")
    /\ tasks' = Append(Tail(tasks), "candidate")
    /\ UNCHANGED <<procVars, sig, descVars, sdp, httpVars, remote, crash>>

\* mutant: a candidate that cannot be printed throws
OnIceCandidateThrows ==
    /\ Runs("candidate")
    /\ tasks' = Tail(tasks)
    /\ Die("exception")
    /\ UNCHANGED <<procVars, sig, descVars, sdp, httpVars, remote>>

\* libwebrtc adds the candidate to the local description and calls
\* WHIPSession::OnIceCandidate, which only logs it
OnIceCandidate ==
    /\ Runs("candidate")
    /\ tasks' = Tail(tasks)
    /\ localCandidates' = localCandidates + 1
    /\ UNCHANGED <<procVars, sig, desc, local, gathered, sdp, httpVars, remote,
                   crash>>

\* OnSuccess, first statement: SetLocalDescription owns desc from here on and
\* frees it when it fails; nobody looks at the outcome
SetLocalDescription ==
    /\ Runs("offerMade")
    /\ tasks' = Tail(tasks)
    /\ \/ desc' = "pc" /\ local' = TRUE
       \/ desc' = "freed" /\ UNCHANGED local
    /\ sig' = "parameters"
    /\ UNCHANGED <<procVars, gathered, localCandidates, sdp, httpVars, remote,
                   crash>>

\* GetSenders()[0] and its encoding parameters
SetParameters ==
    /\ Alive /\ sig = "parameters"
    /\ IF senders = 0 THEN Die("ub") /\ UNCHANGED sig
                      ELSE sig' = "toString" /\ UNCHANGED crash
    /\ UNCHANGED <<procVars, tasks, descVars, sdp, httpVars, remote>>

\* desc->ToString(&sdp), then SDPForceCodecs; reading a freed desc gives
\* garbage or a crash
ReadOffer ==
    /\ Alive /\ sig = "toString"
    /\ \/ /\ sdp' = [empty |-> FALSE, offer |-> desc # "freed",
                     candidates |-> IF desc # "freed" THEN localCandidates ELSE 0,
                     forced |-> ForcesCodecs]
          /\ sig' = "post"
          /\ UNCHANGED crash
       \/ /\ desc = "freed"
          /\ Die("ub")
          /\ UNCHANGED <<sig, sdp>>
    /\ UNCHANGED <<procVars, tasks, descVars, httpVars, remote>>

\* http::Request(url).send("POST", sdp), without a timeout
Post ==
    /\ Alive /\ sig = "post"
    /\ call' = "pending"
    /\ sig' = "http"
    /\ UNCHANGED <<procVars, tasks, descVars, sdp, answer, status, body, remote,
                   crash>>

\* the exception of Request or send() leaves OnSuccess and the thread
PostThrows ==
    /\ Alive /\ sig = "http"
    /\ Http!Throw
    /\ Die("exception")
    /\ UNCHANGED <<procVars, sig, tasks, descVars, sdp, remote>>

\* send() returns; "!response.status.Ok" is a constant that is never true, so
\* OnSuccess goes on to the body whatever the status
PostReturns ==
    /\ Alive /\ sig = "http"
    /\ status' \in {0} \cup {a.code : a \in Answers}
    /\ body' \in UNION {PrefixesOf(a.content) : a \in Answers}
    /\ Http!Return
    /\ sig' = "parse"
    /\ UNCHANGED <<procVars, tasks, descVars, sdp, remote, crash>>

\* mutant: the answer is applied whether or not an offer is pending
ApplyAnswerUnasked ==
    /\ Alive /\ sig = "parse"
    /\ \/ UNCHANGED remote
       \/ /\ body # <<>>
          /\ \A n \in DOMAIN body : body[n] \in SdpLines
          /\ remote' = body
    /\ sig' = "idle"
    /\ UNCHANGED <<procVars, tasks, descVars, sdp, httpVars, crash>>

\* CreateSessionDescription may accept any text made of SDP lines; what it
\* accepts goes to SetRemoteDescription, which fails unless an offer is
\* pending, and may fail even then
ApplyAnswer ==
    /\ Alive /\ sig = "parse"
    /\ \/ UNCHANGED remote
       \/ /\ body # <<>>
          /\ \A n \in DOMAIN body : body[n] \in SdpLines
          /\ local
          /\ remote' = body
    /\ sig' = "idle"
    /\ UNCHANGED <<procVars, tasks, descVars, sdp, httpVars, crash>>

----------------------------------------------------------------------------
(* libwebrtc.                                                               *)

\* the offer is ready, or could not be made: posted to the signaling thread
OfferDone ==
    /\ Alive /\ desc = "making"
    /\ \/ desc' = "session" /\ tasks' = Append(tasks, "offerMade")
       \/ desc' = "none" /\ tasks' = Append(tasks, "offerFailed")
    /\ UNCHANGED <<procVars, sig, local, gathered, localCandidates, sdp, httpVars,
                   remote, crash>>

\* mutant: the network thread writes the local description itself
GatherInPlace ==
    /\ Alive /\ local
    /\ gathered < MaxCandidates
    /\ gathered' = gathered + 1
    /\ localCandidates' = localCandidates + 1
    /\ UNCHANGED <<procVars, sig, tasks, desc, local, sdp, httpVars, remote, crash>>

\* the network thread finds a candidate
Gather ==
    /\ Alive /\ local
    /\ gathered < MaxCandidates
    /\ gathered' = gathered + 1
    /\ tasks' = Append(tasks, "candidate")
    /\ UNCHANGED <<procVars, sig, desc, local, localCandidates, sdp, httpVars,
                   remote, crash>>

----------------------------------------------------------------------------
Main == Initialize \/ CreateConnection \/ AddCaptureDevice \/ CreateOffer

OnSuccess == SetLocalDescription \/ SetParameters \/ ReadOffer \/ Post \/ ApplyAnswer

PostEnds == PostThrows \/ PostReturns

Signaling == CreateOfferTask \/ OnFailure \/ OnIceCandidate \/ OnSuccess

Next == Main \/ Signaling \/ PostEnds \/ OfferDone \/ Gather

Spec == Init /\ [][Next]_vars

(* Both threads run, libwebrtc answers CreateOffer, and the POST ends. The  *)
(* last is an assumption on the server: whip.cpp gives send() no timeout,   *)
(* and HttpRequest's EndsUnaided says which servers meet it.                *)
FairSpec ==
    /\ Spec
    /\ WF_vars(Main)
    /\ WF_vars(Signaling)
    /\ WF_vars(OfferDone)
    /\ WF_vars(PostEnds)

----------------------------------------------------------------------------
(* Properties.                                                              *)

TypeOK ==
    /\ main \in {"initialize", "connect", "capture", "offer", "spin"}
    /\ factory \in {"none", "null", "set"}
    /\ pcon \in {"none", "null", "set"}
    /\ senders \in {0, 1}
    /\ sig \in {"idle", "parameters", "toString", "post", "http", "parse"}
    /\ tasks \in Seq({"createOffer", "offerMade", "offerFailed", "candidate"})
    /\ desc \in {"none", "making", "session", "pc", "freed"}
    /\ local \in BOOLEAN
    /\ gathered \in 0..MaxCandidates
    /\ localCandidates \in 0..gathered
    /\ sdp \in Sdp
    /\ call \in {"none", "pending", "returned", "threw"}
    /\ answer \in Answers
    /\ status \in Nat
    /\ body \in Seq(Lines) /\ remote \in Seq(Lines)
    /\ crash \in {"none", "exception", "null", "assert", "ub"}

(* The offer that is posted lists no ICE candidate, however early the       *)
(* network thread finds one: OnSuccess occupies the signaling thread from   *)
(* SetLocalDescription to the POST, so every candidate is still queued when *)
(* ToString reads the description. (OnIceCandidate only logs, so no         *)
(* candidate ever reaches the server.)                                      *)
OfferHasNoCandidates == sdp.candidates = 0

(* An answer is applied only to the offer that was posted: the local        *)
(* description is set and is the text the server received. When             *)
(* SetLocalDescription failed, and ToString read a freed description, no    *)
(* answer is applied.                                                       *)
AppliedToPostedOffer ==
    remote # <<>> => local /\ desc = "pc" /\ sdp.offer

Settled == ~Alive \/ (call = "returned" /\ sig = "idle")

(* If the POST ends, the session settles: an answer is applied, the attempt *)
(* is given up, or the process has ended. Neither thread waits for the      *)
(* other for good.                                                          *)
ExchangeSettles == <>Settled

(* Candidates queued behind the POST are handled when it is over, unless    *)
(* the process ends.                                                        *)
TasksHandled == (tasks # <<>>) ~> (tasks = <<>> \/ ~Alive)

Exchange == INSTANCE WhipExchange WITH
    phase   <- IF Alive /\ remote # <<>> THEN "negotiated"
               ELSE IF Settled THEN "ended"
               ELSE IF call = "none" THEN "new" ELSE "offered",
    applied <- remote

(* The session keeps the promise of WhipExchange: no step of either thread  *)
(* ends the process or undoes the answer once it is applied, and what is    *)
(* applied is what send() took from the server.                             *)
ImplementsExchange == Exchange!Spec

(* A refused offer is given up: when the server answers with a status       *)
(* outside 2xx, and send() returns that status and the whole body, OnSuccess *)
(* logs "Failed to send SDP" and returns; it does not read the body of the  *)
(* refusal as an answer.                                                    *)
RefusalGivesUp ==
    answer.code \notin 200..299 /\ status = answer.code /\ body = answer.content =>
        sig # "parse"

(* The session does not read an offer that the PeerConnection has freed:    *)
(* the PeerConnection "takes the ownership of |desc| even if it fails".     *)
OfferReadWhileOwned == sig = "toString" => desc # "freed"

=============================================================================
