----------------------- MODULE JetsonLifecycleProofs -----------------------
(***************************************************************************)
(* Proofs about JetsonLifecycle for any number of lives. The inductive      *)
(* invariant adds to the properties what ctx holds in each phase of a life, *)
(* that a life not reached yet has left no trace, and that the DQ thread of *)
(* the current life, until it is released, works with its own encoder.      *)
(***************************************************************************)
EXTENDS JetsonLifecycle, TLAPS

\* what the fields of ctx point to, phase by phase
Context ==
    /\ queue = "new" => life = 0
    /\ queue \in {"defaults", "created", "allocated", "ready", "failed", "released"}
          => life \in Lives
    /\ enc \in {0, life} /\ images \in {0, life}
    /\ queue = "defaults" => enc = 0
    /\ queue \in {"created", "allocated", "ready", "failed", "released"} => enc = life
    /\ queue \in {"allocated", "ready", "failed", "released"} => images = life
    /\ queue \in {"allocated", "ready", "failed"} => arrays[life] = "live"
    /\ queue \in {"released", "gone"} /\ life \in Lives => arrays[life] = "freed"

\* lives to come, and the thread of a life that is still being set up
Untouched ==
    \A n \in Lives :
        /\ n > life => dq[n] = "off" /\ arrays[n] = "none"
        /\ n = life /\ queue \in {"defaults", "created"} => arrays[n] = "none"
        /\ n = life /\ queue \in {"defaults", "created", "allocated"} => dq[n] = "off"

\* the thread of a life that runs and is not released
Current ==
    \A n \in Lives :
        (n = life /\ queue \in {"ready", "failed"}) =>
            /\ dq[n] \in {"callback", "requeue"} => local[n] = n
            /\ dq[n] \in {"abort", "stopped"} => got_error

IInv ==
    /\ TypeOK
    /\ Context /\ Untouched /\ Current
    /\ StrayOnlyReleased
    /\ AbortsAccounted
    /\ \A n \in aborted : n <= life

\* The invariant holds before the first InitEncode.
LEMMA InitInv == Init => IInv
<1> SUFFICES ASSUME Init PROVE IInv
  OBVIOUS
<1> USE MaxLivesAssumption DEF Lives
<1>1. TypeOK
  <2>1. 0 \in 0..MaxLives
    OBVIOUS
  <2>2. /\ arrays \in [Lives -> {"none", "live", "freed"}]
        /\ local \in [Lives -> 0..MaxLives]
    BY <2>1 DEF Init
  <2>3. dq \in [Lives -> {"off", "wait", "callback", "requeue", "error",
                          "abort", "stopped", "invalid"}]
    BY DEF Init
  <2> QED
    BY <2>1, <2>2, <2>3 DEF Init, TypeOK
<1>2. Context /\ Untouched /\ Current
  BY DEF Init, Context, Untouched, Current
<1>3. StrayOnlyReleased /\ AbortsAccounted
  BY DEF Init, StrayOnlyReleased, AbortsAccounted
<1> QED
  BY <1>1, <1>2, <1>3 DEF Init, IInv

\* Every step of the encoder queue keeps the invariant.
LEMMA QueueInv ==
    ASSUME IInv, EncoderQueue
    PROVE  IInv'
<1> USE MaxLivesAssumption DEF IInv, Lives
<1>1. CASE SetDefaults
  <2> USE <1>1 DEF SetDefaults, threadVars
  <2>1. TypeOK'
    <3>1. life + 1 \in 0..MaxLives /\ 0 \in 0..MaxLives
      BY DEF TypeOK
    <3> QED
      BY <3>1 DEF TypeOK
  <2>2. Context' /\ Untouched'
    BY DEF TypeOK, Context, Untouched
  <2>3. Current'
    BY DEF TypeOK, Context, Untouched, Current
  <2>4. StrayOnlyReleased'
    BY DEF TypeOK, Context, Untouched, Current, StrayOnlyReleased, Released
  <2>5. AbortsAccounted' /\ (\A m \in aborted : m <= life)'
    BY DEF TypeOK, Context, Untouched, AbortsAccounted
  <2> QED
    BY <2>1, <2>2, <2>3, <2>4, <2>5
<1>2. CASE CreateVideoEncoder
  BY <1>2 DEF CreateVideoEncoder, TypeOK, Context, Untouched, Current,
              StrayOnlyReleased, AbortsAccounted, Released,
              threadVars, ctxVars
<1>3. CASE AllocateImages
  <2> USE <1>3 DEF AllocateImages, threadVars
  <2>1. TypeOK'
    BY DEF TypeOK
  <2>2. Context' /\ Untouched' /\ Current'
    BY DEF TypeOK, Context, Untouched, Current
  <2>3. StrayOnlyReleased'
    BY DEF TypeOK, Context, Untouched, StrayOnlyReleased, Released
  <2>4. AbortsAccounted' /\ (\A m \in aborted : m <= life)'
    BY DEF AbortsAccounted
  <2> QED
    BY <2>1, <2>2, <2>3, <2>4
<1>4. CASE StartDQThread
  BY <1>4 DEF StartDQThread, TypeOK, Context, Untouched, Current,
              StrayOnlyReleased, AbortsAccounted, Released,
              threadVars, ctxVars
<1>5. CASE Release
  <2> USE <1>5 DEF Release, threadVars, ctxVars
  <2>1. TypeOK'
    BY DEF TypeOK
  <2>2. Context' /\ Untouched' /\ Current'
    BY DEF TypeOK, Context, Untouched, Current
  <2>3. StrayOnlyReleased'
    BY DEF TypeOK, Context, StrayOnlyReleased, Released
  <2>4. AbortsAccounted' /\ (\A m \in aborted : m <= life)'
    BY DEF AbortsAccounted
  <2> QED
    BY <2>1, <2>2, <2>3, <2>4
<1>6. CASE Destroy
  BY <1>6 DEF Destroy, TypeOK, Context, Untouched, Current,
              StrayOnlyReleased, AbortsAccounted, Released,
              threadVars, ctxVars
<1> QED
  BY <1>1, <1>2, <1>3, <1>4, <1>5, <1>6 DEF EncoderQueue

\* Every step of a DQ thread keeps the invariant.
LEMMA ThreadInv ==
    ASSUME IInv, NEW n \in Lives, DQThread(n)
    PROVE  IInv'
<1> USE MaxLivesAssumption DEF IInv, Lives
<1>1. CASE Enter(n)
  <2> USE <1>1 DEF Enter, Uses, Invalid, Alive, ctxVars
  <2>1. TypeOK'
    BY DEF TypeOK
  <2>2. Context' /\ Untouched'
    BY DEF TypeOK, Context, Untouched
  <2>3. Current'
    BY DEF TypeOK, Context, Untouched, Current
  <2>4. StrayOnlyReleased'
    BY DEF TypeOK, Context, Untouched, Current, StrayOnlyReleased, Released
  <2>5. AbortsAccounted' /\ (\A m \in aborted : m <= life)'
    BY DEF TypeOK, Context, Untouched, AbortsAccounted
  <2> QED
    BY <2>1, <2>2, <2>3, <2>4, <2>5
<1>2. CASE TakeImage(n)
  <2> USE <1>2 DEF TakeImage, Uses, Invalid, Alive, LiveArray, ctxVars
  <2>1. TypeOK'
    BY DEF TypeOK
  <2>2. Context' /\ Untouched'
    BY DEF TypeOK, Context, Untouched
  <2>3. Current'
    BY DEF TypeOK, Context, Untouched, Current
  <2>4. StrayOnlyReleased'
    BY DEF TypeOK, Context, Untouched, Current, StrayOnlyReleased, Released
  <2>5. AbortsAccounted' /\ (\A m \in aborted : m <= life)'
    BY DEF TypeOK, Context, Untouched, AbortsAccounted
  <2> QED
    BY <2>1, <2>2, <2>3, <2>4, <2>5
<1>3. CASE Requeue(n)
  BY <1>3 DEF Requeue, Uses, Alive, TypeOK, Context, Untouched, Current,
              StrayOnlyReleased, AbortsAccounted, Released,
              ctxVars
<1>4. CASE BadBuffer(n)
  BY <1>4 DEF BadBuffer, Alive, TypeOK, Context, Untouched, Current,
              StrayOnlyReleased, AbortsAccounted, Released,
              ctxVars
<1>5. CASE AbortFlag(n)
  <2> USE <1>5 DEF AbortFlag, Uses, Invalid, Alive
  <2>1. TypeOK'
    BY DEF TypeOK
  <2>2. Context' /\ Untouched'
    BY DEF TypeOK, Context, Untouched
  <2>3. Current'
    BY DEF TypeOK, Context, Untouched, Current
  <2>4. StrayOnlyReleased'
    BY DEF TypeOK, Context, Untouched, Current, StrayOnlyReleased, Released
  <2>5. AbortsAccounted' /\ (\A m \in aborted : m <= life)'
    BY DEF TypeOK, Context, Untouched, AbortsAccounted
  <2> QED
    BY <2>1, <2>2, <2>3, <2>4, <2>5
<1>6. CASE AbortEncoder(n)
  <2> USE <1>6 DEF AbortEncoder, Uses, Invalid, Alive, ctxVars
  <2>1. TypeOK'
    <3>1. aborted' \subseteq Lives
      <4>1. enc # 0 => enc \in Lives
        BY DEF TypeOK
      <4>2. aborted' = aborted \/ (enc # 0 /\ aborted' = aborted \cup {enc})
        OBVIOUS
      <4> QED
        BY <4>1, <4>2 DEF TypeOK
    <3>2. foreign' \subseteq Lives
      BY DEF TypeOK
    <3>3. dq' \in [Lives -> {"off", "wait", "callback", "requeue", "error",
                             "abort", "stopped", "invalid"}]
      BY DEF TypeOK
    <3> QED
      BY <3>1, <3>2, <3>3 DEF TypeOK
  <2>2. Context' /\ Untouched'
    BY DEF TypeOK, Context, Untouched
  <2>3. Current'
    BY DEF TypeOK, Context, Untouched, Current
  <2>4. StrayOnlyReleased'
    BY DEF TypeOK, Context, Untouched, Current, StrayOnlyReleased, Released
  <2>5. AbortsAccounted' /\ (\A m \in aborted : m <= life)'
    <3>1. n <= life /\ dq[n] # "stopped"
      BY DEF TypeOK, Untouched
    <3>2. CASE Invalid(n) /\ UNCHANGED aborted
      BY <3>1, <3>2 DEF TypeOK, AbortsAccounted
    <3>3. CASE enc # 0 /\ aborted' = aborted \cup {enc} /\ Uses(n, enc, "stopped")
      <4>1. enc = life /\ foreign \subseteq foreign'
        BY <3>3 DEF Context
      <4>2. dq'[enc] = "stopped" \/ (n \in foreign' /\ n < enc)
        BY <3>1, <3>3, <4>1 DEF TypeOK
      <4>3. \A m \in aborted : dq'[m] = "stopped" \/ \E k \in foreign' : k < m
        BY <3>1, <3>3, <4>1 DEF TypeOK, AbortsAccounted
      <4> QED
        BY <3>3, <4>1, <4>2, <4>3 DEF AbortsAccounted, TypeOK
    <3> QED
      BY <3>2, <3>3
  <2> QED
    BY <2>1, <2>2, <2>3, <2>4, <2>5
<1> QED
  BY <1>1, <1>2, <1>3, <1>4, <1>5, <1>6 DEF DQThread

\* The inductive invariant of all lives.
THEOREM Inductive == Spec => []IInv
<1>1. IInv /\ [Next]_vars => IInv'
  <2> SUFFICES ASSUME IInv, [Next]_vars PROVE IInv'
    OBVIOUS
  <2>1. CASE Next
    BY <2>1, QueueInv, ThreadInv DEF Next
  <2>2. CASE UNCHANGED vars
    BY <2>2 DEF vars, ctxVars, threadVars, IInv, TypeOK, Context, Untouched,
                Current, StrayOnlyReleased, AbortsAccounted,
                Released
  <2> QED
    BY <2>1, <2>2
<1> QED
  BY <1>1, InitInv, PTL DEF Spec

\* Every variable keeps its type in any number of lives.
THEOREM TypeCorrect == Spec => []TypeOK
<1>1. IInv => TypeOK
  BY DEF IInv
<1> QED
  BY <1>1, Inductive, PTL

\* However many threads earlier lives left behind, the thread of a life that
\* is not released works only with what that life made.
THEOREM StrayAfterRelease == Spec => []StrayOnlyReleased
<1>1. IInv => StrayOnlyReleased
  BY DEF IInv
<1> QED
  BY <1>1, Inductive, PTL

\* An aborted encoder was aborted by its own thread or by a leftover one.
THEOREM AbortsHaveCauses == Spec => []AbortsAccounted
<1>1. IInv => AbortsAccounted
  BY DEF IInv
<1> QED
  BY <1>1, Inductive, PTL

\* Release reports that the thread of its life has stopped, in every life.
THEOREM StopIsReported == Spec => StopReported
<1>1. IInv /\ [Next]_vars =>
         [queue # "released" /\ queue' = "released" /\ dq[life] = "stopped"
             => result' = -1]_vars
  <2> SUFFICES ASSUME IInv, Next, queue # "released", queue' = "released",
                      dq[life] = "stopped"
               PROVE  result' = -1
    OBVIOUS
  <2>1. Release
    BY DEF Next, EncoderQueue, DQThread, SetDefaults, CreateVideoEncoder,
           AllocateImages, StartDQThread, Destroy, Enter, TakeImage,
           Requeue, BadBuffer, AbortFlag, AbortEncoder
  <2> QED
    BY <2>1 DEF Release, IInv, Context, Current
<1> QED
  BY <1>1, Inductive, PTL DEF Spec, StopReported

=============================================================================
