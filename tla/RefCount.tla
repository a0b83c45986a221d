------------------------------ MODULE RefCount ------------------------------
(***************************************************************************)
(* rtc::RefCountedObject and rtc::scoped_refptr, as vendored under          *)
(* include/webrtc: what keeps the WHIPSession, the CapturerTrackSource and  *)
(* the observers alive while main, the signaling thread and the capture     *)
(* thread share them. A slot is one scoped_refptr variable; each is used by *)
(* one thread, and a reference goes to another thread by a move, as the     *)
(* arguments of a posted task do. The counter is changed by atomic          *)
(* operations, one per step; between them threads interleave.               *)
(***************************************************************************)
EXTENDS Integers, FiniteSets

CONSTANTS
    Threads,
    Slots,            \* the scoped_refptr variables
    Objects,          \* the objects that may be made
    OwnerOf,          \* the thread that uses each slot
    TempOf,           \* the temporary of each thread's move assignment
    Null

ASSUME ConstantsAssumption ==
    /\ IsFiniteSet(Threads) /\ IsFiniteSet(Slots)
    /\ Slots \cap Threads = {} /\ Null \notin Objects
    /\ OwnerOf \in [Slots -> Threads]
    /\ TempOf \in [Threads -> Slots]
    /\ \A t \in Threads : OwnerOf[TempOf[t]] = t

Variables == {s \in Slots : s # TempOf[OwnerOf[s]]}

VARIABLES
    ptr,              \* ptr_ of each slot
    ref_count,        \* ref_count_ of each object
    mem,              \* the object: "unborn", "live", "deleted"
    doing,            \* what a thread does next
    dst,              \* the slot that it assigns to
    val               \* the pointer that it assigns, whose count it has raised

threadVars == <<doing, dst, val>>
vars == <<ptr, ref_count, mem, threadVars>>

Init ==
    /\ ptr = [s \in Slots |-> Null]
    /\ ref_count = [o \in Objects |-> 0]
    /\ mem = [o \in Objects |-> "unborn"]
    /\ doing = [t \in Threads |-> "idle"]
    /\ dst = TempOf
    /\ val = [t \in Threads |-> Null]

Idle(s) == doing[OwnerOf[s]] = "idle"

\* IncRef, unless the pointer is null
AddRef(p) == ref_count' = [o \in Objects |-> ref_count[o] + IF o = p THEN 1 ELSE 0]

\* scoped_refptr(new RefCountedObject<T>): the count starts at 0
New(s, o) ==
    /\ Idle(s) /\ ptr[s] = Null /\ mem[o] = "unborn"
    /\ mem' = [mem EXCEPT ![o] = "live"]
    /\ ptr' = [ptr EXCEPT ![s] = o]
    /\ AddRef(o)
    /\ UNCHANGED threadVars

\* mutant: the copy does not raise the count
CopyBare(s, r) ==
    /\ Idle(s) /\ OwnerOf[r] = OwnerOf[s] /\ ptr[s] = Null
    /\ ptr' = [ptr EXCEPT ![s] = ptr[r]]
    /\ UNCHANGED <<ref_count, mem, threadVars>>

\* the copy constructor
Copy(s, r) ==
    /\ Idle(s) /\ OwnerOf[r] = OwnerOf[s] /\ ptr[s] = Null
    /\ ptr' = [ptr EXCEPT ![s] = ptr[r]]
    /\ AddRef(ptr[r])
    /\ UNCHANGED <<mem, threadVars>>

\* the move constructor, to a slot of the same or of another thread
Move(s, r) ==
    /\ Idle(s) /\ Idle(r) /\ ptr[s] = Null
    /\ ptr' = [ptr EXCEPT ![r] = Null, ![s] = ptr[r]]
    /\ UNCHANGED <<ref_count, mem, threadVars>>

\* mutant: the count of the new object is not raised
AssignBare(s, r) ==
    /\ Idle(s) /\ OwnerOf[r] = OwnerOf[s]
    /\ doing' = [doing EXCEPT ![OwnerOf[s]] = "drop"]
    /\ dst' = [dst EXCEPT ![OwnerOf[s]] = s]
    /\ val' = [val EXCEPT ![OwnerOf[s]] = ptr[r]]
    /\ UNCHANGED <<ptr, ref_count, mem>>

\* operator=: "AddRef first so that self assignment should work"
Assign(s, r) ==
    /\ Idle(s) /\ OwnerOf[r] = OwnerOf[s]
    /\ AddRef(ptr[r])
    /\ doing' = [doing EXCEPT ![OwnerOf[s]] = "drop"]
    /\ dst' = [dst EXCEPT ![OwnerOf[s]] = s]
    /\ val' = [val EXCEPT ![OwnerOf[s]] = ptr[r]]
    /\ UNCHANGED <<ptr, mem>>

\* operator= of an rvalue: a temporary takes r, is swapped with s, and goes
MoveAssign(s, r) ==
    /\ Idle(s) /\ OwnerOf[r] = OwnerOf[s]
    /\ LET temp == TempOf[OwnerOf[s]]
           moved == [ptr EXCEPT ![r] = Null, ![temp] = ptr[r]]
       IN  /\ ptr' = [moved EXCEPT ![s] = moved[temp], ![temp] = moved[s]]
           /\ dst' = [dst EXCEPT ![OwnerOf[s]] = temp]
    /\ doing' = [doing EXCEPT ![OwnerOf[s]] = "drop"]
    /\ val' = [val EXCEPT ![OwnerOf[s]] = Null]
    /\ UNCHANGED <<ref_count, mem>>

\* the destructor, and the assignment of null
Reset(s) ==
    /\ Idle(s)
    /\ doing' = [doing EXCEPT ![OwnerOf[s]] = "drop"]
    /\ dst' = [dst EXCEPT ![OwnerOf[s]] = s]
    /\ val' = [val EXCEPT ![OwnerOf[s]] = Null]
    /\ UNCHANGED <<ptr, ref_count, mem>>

\* mutant: the last reference is noticed one too early
DecRefEarly(t) ==
    LET old == ptr[dst[t]]
    IN  /\ doing[t] = "drop"
        /\ \/ /\ old = Null
              /\ doing' = [doing EXCEPT ![t] = "store"]
              /\ UNCHANGED ref_count
           \/ /\ old # Null
              /\ ref_count' = [ref_count EXCEPT ![old] = @ - 1]
              /\ doing' = [doing EXCEPT ![t] = IF ref_count[old] <= 2
                                               THEN "delete" ELSE "store"]
        /\ UNCHANGED <<ptr, mem, dst, val>>

\* mutant: the last reference is noticed one too late
DecRefLate(t) ==
    LET old == ptr[dst[t]]
    IN  /\ doing[t] = "drop"
        /\ \/ /\ old = Null
              /\ doing' = [doing EXCEPT ![t] = "store"]
              /\ UNCHANGED ref_count
           \/ /\ old # Null
              /\ ref_count' = [ref_count EXCEPT ![old] = @ - 1]
              /\ doing' = [doing EXCEPT ![t] = IF ref_count[old] = 0
                                               THEN "delete" ELSE "store"]
        /\ UNCHANGED <<ptr, mem, dst, val>>

\* Release: DecRef says whether this was the last reference
DecRef(t) ==
    LET old == ptr[dst[t]]
    IN  /\ doing[t] = "drop"
        /\ \/ /\ old = Null
              /\ doing' = [doing EXCEPT ![t] = "store"]
              /\ UNCHANGED ref_count
           \/ /\ old # Null
              /\ ref_count' = [ref_count EXCEPT ![old] = @ - 1]
              /\ doing' = [doing EXCEPT ![t] = IF ref_count[old] = 1
                                               THEN "delete" ELSE "store"]
        /\ UNCHANGED <<ptr, mem, dst, val>>

\* delete this
Delete(t) ==
    /\ doing[t] = "delete"
    /\ mem' = [mem EXCEPT ![ptr[dst[t]]] = "deleted"]
    /\ doing' = [doing EXCEPT ![t] = "store"]
    /\ UNCHANGED <<ptr, ref_count, dst, val>>

\* ptr_ = p
Store(t) ==
    /\ doing[t] = "store"
    /\ ptr' = [ptr EXCEPT ![dst[t]] = val[t]]
    /\ doing' = [doing EXCEPT ![t] = "idle"]
    /\ UNCHANGED <<ref_count, mem, dst, val>>

Next ==
    \/ \E s \in Variables, o \in Objects : New(s, o)
    \/ \E s \in Variables, r \in Variables :
          Copy(s, r) \/ Move(s, r) \/ Assign(s, r) \/ MoveAssign(s, r)
    \/ \E s \in Variables : Reset(s)
    \/ \E t \in Threads : DecRef(t) \/ Delete(t) \/ Store(t)

Spec == Init /\ [][Next]_vars

(* A thread that has begun to drop a reference goes on.                     *)
FairSpec ==
    Spec /\ \A t \in Threads : WF_vars(DecRef(t) \/ Delete(t) \/ Store(t))

----------------------------------------------------------------------------
(* Properties.                                                              *)

Pointers == Objects \cup {Null}

TypeOK ==
    /\ ptr \in [Slots -> Pointers]
    /\ ref_count \in [Objects -> Nat]
    /\ mem \in [Objects -> {"unborn", "live", "deleted"}]
    /\ doing \in [Threads -> {"idle", "drop", "delete", "store"}]
    /\ dst \in [Threads -> Slots]
    /\ val \in [Threads -> Pointers]

\* the slot still has its old pointer, and its reference is dropped already
Dropped(s) == doing[OwnerOf[s]] \in {"delete", "store"} /\ dst[OwnerOf[s]] = s

\* who owns a reference to o: a slot, or a thread in the middle of operator=
Refs(o) ==
    {s \in Slots : ptr[s] = o /\ ~Dropped(s)}
        \cup {t \in Threads : doing[t] # "idle" /\ val[t] = o}

(* Whoever has a reference can use the object: no interleaving of copies,   *)
(* moves, assignments and destructors deletes what a slot, or a thread in   *)
(* the middle of operator=, still refers to, self assignment included.      *)
LiveWhileHeld == \A o \in Objects : Refs(o) # {} => mem[o] = "live"

(* "a reference count of 1 implies that the current thread owns the         *)
(* reference and no other thread shares it": what HasOneRef promises to the *)
(* thread that asks through one of its slots.                               *)
OneRefExclusive ==
    \A s \in Slots : (ptr[s] # Null /\ ~Dropped(s)) =>
        (ref_count[ptr[s]] = 1 <=> Refs(ptr[s]) = {s})

(* An object is deleted by one thread, and only once.                       *)
DeletedOnce ==
    \A t \in Threads : doing[t] = "delete" =>
        /\ mem[ptr[dst[t]]] = "live"
        /\ \A u \in Threads \ {t} :
              doing[u] = "delete" => ptr[dst[u]] # ptr[dst[t]]

(* No object is lost: one that nobody refers to any more is deleted.        *)
Collected ==
    \A o \in Objects : (mem[o] = "live" /\ Refs(o) = {}) ~> mem[o] = "deleted"

=============================================================================
