-------------------------- MODULE JetsonLifecycle --------------------------
(***************************************************************************)
(* One JetsonEncoder object through several lives: libwebrtc initializes,   *)
(* releases and initializes it again, and destroys it at last. Every        *)
(* InitEncode overwrites ctx, makes an NvVideoEncoder and starts a DQ       *)
(* thread on &ctx; nothing ever stops that thread but its own callback      *)
(* returning false ("TODO: Clean up encoder"), so the threads of earlier    *)
(* lives run on beside the current one. Life n stands for its encoder, its  *)
(* encoded_images and its thread; 0 is a null pointer. What one life does   *)
(* with its buffers is the subject of JetsonEncoder. A thread that has      *)
(* touched null or freed memory is "invalid" and is followed no further.    *)
(***************************************************************************)
EXTENDS Integers

CONSTANT MaxLives           \* bound on the calls of InitEncode

ASSUME MaxLivesAssumption == MaxLives \in Nat \ {0}

Lives == 1..MaxLives

VARIABLES
    queue,                  \* the encoder queue's side, see TypeOK
    life,                   \* calls of InitEncode so far
    enc, images, got_error, \* ctx.enc, ctx.encoded_images, ctx.got_error
    arrays,                 \* the memory of each life's encoded_images
    aborted,                \* the encoders whose abort() was called
    dq,                     \* the DQ thread of each life
    local,                  \* enc in its callback
    foreign,                \* threads that used what another life made
    result                  \* what the last Release returned: 1 before it did

ctxVars == <<enc, images, got_error>>
threadVars == <<dq, local, foreign>>
vars == <<queue, life, ctxVars, arrays, aborted, threadVars, result>>

Init ==
    /\ queue = "new" /\ life = 0
    /\ enc = 0 /\ images = 0 /\ got_error = FALSE
    /\ arrays = [n \in Lives |-> "none"]
    /\ aborted = {}
    /\ dq = [n \in Lives |-> "off"]
    /\ local = [n \in Lives |-> 0]
    /\ foreign = {}
    /\ result = 1

Alive == queue # "crashed"
LiveArray(p) == p \in Lives /\ arrays[p] = "live"

----------------------------------------------------------------------------
(* The encoder queue: InitEncode and Release, one call at a time. Encode     *)
(* changes nothing of what is modelled here.                                *)

\* memset of ctx
SetDefaults ==
    /\ queue \in {"new", "released"} /\ life < MaxLives
    /\ life' = life + 1
    /\ enc' = 0 /\ images' = 0 /\ got_error' = FALSE
    /\ queue' = "defaults"
    /\ UNCHANGED <<arrays, aborted, threadVars, result>>

\* every assert of InitEncode ends the process
CreateVideoEncoder ==
    /\ queue = "defaults"
    /\ enc' = life
    /\ queue' \in {"created", "crashed"}
    /\ UNCHANGED <<life, images, got_error, arrays, aborted, threadVars, result>>

\* mutant: the DQ thread starts before there are images
StartBeforeImages ==
    /\ queue = "created"
    /\ dq' = [dq EXCEPT ![life] = "wait"]
    /\ queue' \in {"allocated", "crashed"}
    /\ UNCHANGED <<life, ctxVars, arrays, aborted, local, foreign, result>>

\* new EncodedImage[], and the asserts up to setStreamStatus
AllocateImages ==
    /\ queue = "created"
    /\ images' = life
    /\ arrays' = [arrays EXCEPT ![life] = "live"]
    /\ queue' \in {"allocated", "crashed"}
    /\ UNCHANGED <<life, enc, got_error, aborted, threadVars, result>>

\* startDQThread(&ctx); then the capture buffers are queued, or InitEncode
\* returns early
StartDQThread ==
    /\ queue = "allocated"
    /\ dq' = [dq EXCEPT ![life] = "wait"]
    /\ queue' \in {"ready", "failed"}
    /\ UNCHANGED <<life, ctxVars, arrays, aborted, local, foreign, result>>

\* delete[] ctx.encoded_images; the pointer stays, and so does ctx.enc, so that
\* a second call in the same life frees the images again, with any outcome.
\* isInError() may be TRUE for other reasons than abort().
Release ==
    /\ queue \in {"ready", "failed", "released"}
    /\ result' \in IF got_error THEN {-1} ELSE {0, -1}
    /\ arrays' = [n \in Lives |-> IF n = images THEN "freed" ELSE arrays[n]]
    /\ queue' \in {"released"} \cup IF LiveArray(images) THEN {} ELSE {"crashed"}
    /\ UNCHANGED <<life, ctxVars, aborted, threadVars>>

\* the unique_ptr of the encoder goes, and ctx with it
Destroy ==
    /\ queue \in {"new", "released"}
    /\ queue' = "gone"
    /\ UNCHANGED <<life, ctxVars, arrays, aborted, threadVars, result>>

----------------------------------------------------------------------------
(* The DQ thread of life n: EncoderCapturePlaneCallback on ctx.             *)

\* thread n goes on to step s, having used what p points to
Uses(n, p, s) ==
    /\ dq' = [dq EXCEPT ![n] = s]
    /\ foreign' = IF p = n THEN foreign ELSE foreign \cup {n}

Invalid(n) == dq' = [dq EXCEPT ![n] = "invalid"] /\ UNCHANGED foreign

\* enc = ctx->enc, and getTotalDequeuedBuffers of it
Enter(n) ==
    /\ Alive /\ dq[n] = "wait"
    /\ local' = [local EXCEPT ![n] = enc]
    /\ \/ queue # "gone" /\ enc # 0 /\ Uses(n, enc, "callback")
       \/ (queue = "gone" \/ enc = 0) /\ Invalid(n)
    /\ UNCHANGED <<queue, life, ctxVars, arrays, aborted, result>>

\* the image of the buffer is looked at, and allocated
TakeImage(n) ==
    /\ Alive /\ dq[n] = "callback"
    /\ \/ queue # "gone" /\ LiveArray(images) /\ Uses(n, images, "requeue")
       \/ (queue = "gone" \/ ~LiveArray(images)) /\ Invalid(n)
    /\ UNCHANGED <<queue, life, ctxVars, arrays, aborted, local, result>>

\* the buffer goes back to the capture plane of the local enc
Requeue(n) ==
    /\ Alive /\ dq[n] = "requeue"
    /\ \E s \in {"wait", "error"} : Uses(n, local[n], s)
    /\ UNCHANGED <<queue, life, ctxVars, arrays, aborted, local, result>>

\* no buffer, or one of size 0
BadBuffer(n) ==
    /\ Alive /\ dq[n] = "callback"
    /\ dq' = [dq EXCEPT ![n] = "error"]
    /\ UNCHANGED <<queue, life, ctxVars, arrays, aborted, local, foreign, result>>

\* mutant: the encoder is aborted first
AbortFlagLast(n) ==
    /\ Alive /\ dq[n] = "error"
    /\ \/ /\ queue # "gone" /\ enc # 0
          /\ aborted' = aborted \cup {enc}
          /\ got_error' = TRUE
          /\ Uses(n, enc, "abort")
       \/ (queue = "gone" \/ enc = 0) /\ Invalid(n) /\ UNCHANGED <<aborted, got_error>>
    /\ UNCHANGED <<queue, life, enc, images, arrays, local, result>>

\* mutant: ctx is handed over by value
AbortFlagOfCopy(n) ==
    /\ Alive /\ dq[n] = "error"
    /\ \/ queue # "gone" /\ Uses(n, IF n = life THEN n ELSE 0, "abort")
       \/ queue = "gone" /\ Invalid(n)
    /\ UNCHANGED <<queue, life, ctxVars, arrays, aborted, local, result>>

\* abort(ctx): the flag first, ...
AbortFlag(n) ==
    /\ Alive /\ dq[n] = "error"
    /\ \/ /\ queue # "gone"
          /\ got_error' = TRUE
          /\ Uses(n, IF n = life THEN n ELSE 0, "abort")
       \/ queue = "gone" /\ Invalid(n) /\ UNCHANGED got_error
    /\ UNCHANGED <<queue, life, enc, images, arrays, aborted, local, result>>

\* ... then ctx->enc->abort(), and false to the thread
AbortEncoder(n) ==
    /\ Alive /\ dq[n] = "abort"
    /\ \/ /\ queue # "gone" /\ enc # 0
          /\ aborted' = aborted \cup {enc}
          /\ Uses(n, enc, "stopped")
       \/ (queue = "gone" \/ enc = 0) /\ Invalid(n) /\ UNCHANGED aborted
    /\ UNCHANGED <<queue, life, ctxVars, arrays, local, result>>

----------------------------------------------------------------------------
EncoderQueue ==
    \/ SetDefaults \/ CreateVideoEncoder \/ AllocateImages \/ StartDQThread
    \/ Release \/ Destroy

DQThread(n) ==
    \/ Enter(n) \/ TakeImage(n) \/ Requeue(n) \/ BadBuffer(n)
    \/ AbortFlag(n) \/ AbortEncoder(n)

Next == EncoderQueue \/ \E n \in Lives : DQThread(n)

Spec == Init /\ [][Next]_vars

----------------------------------------------------------------------------
(* Properties.                                                              *)

TypeOK ==
    /\ queue \in {"new", "defaults", "created", "allocated", "ready", "failed",
                  "released", "gone", "crashed"}
    /\ life \in 0..MaxLives
    /\ enc \in 0..MaxLives /\ images \in 0..MaxLives /\ got_error \in BOOLEAN
    /\ arrays \in [Lives -> {"none", "live", "freed"}]
    /\ aborted \subseteq Lives
    /\ dq \in [Lives -> {"off", "wait", "callback", "requeue", "error", "abort",
                         "stopped", "invalid"}]
    /\ local \in [Lives -> 0..MaxLives]
    /\ foreign \subseteq Lives
    /\ result \in {-1, 0, 1}

\* the encoder of life n was released, and its images with it
Released(n) == n < life \/ (n = life /\ arrays[n] = "freed")

(* A DQ thread touches null or freed memory, or the encoder, the images or  *)
(* the error flag of another life, only once its own encoder was released.  *)
(* So the thread of the life that is on works with what that life made,     *)
(* although threads of earlier lives share its encoder, its images and its  *)
(* error flag with it.                                                      *)
StrayOnlyReleased ==
    \A n \in Lives : (dq[n] = "invalid" \/ n \in foreign) => Released(n)

(* An encoder is aborted by its own DQ thread, which then has ended, or by  *)
(* a thread that an earlier life has left behind.                           *)
AbortsAccounted ==
    \A n \in aborted : dq[n] = "stopped" \/ \E m \in foreign : m < n

(* In every life, the Release that ends it returns an error when the DQ     *)
(* thread of that life has given up: nothing but the next InitEncode clears *)
(* got_error, whatever the threads of earlier lives do to ctx.              *)
StopReported ==
    [][queue # "released" /\ queue' = "released" /\ dq[life] = "stopped"
          => result' = -1]_vars

=============================================================================
