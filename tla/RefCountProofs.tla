-------------------------- MODULE RefCountProofs --------------------------
(***************************************************************************)
(* Proofs about RefCount for any threads, slots and objects. The inductive  *)
(* invariant says what the counter counts: the slots that refer to the      *)
(* object, and the threads that are about to store a pointer to it. Each    *)
(* action changes the set of these references by one element at most, and   *)
(* the counter with it.                                                     *)
(***************************************************************************)
EXTENDS RefCount, FiniteSetTheorems, TLAPS

\* the types, before the counter is known not to be negative
Types ==
    /\ ptr \in [Slots -> Pointers]
    /\ ref_count \in [Objects -> Int]
    /\ mem \in [Objects -> {"unborn", "live", "deleted"}]
    /\ doing \in [Threads -> {"idle", "drop", "delete", "store"}]
    /\ dst \in [Threads -> Slots]
    /\ val \in [Threads -> Pointers]

\* a thread assigns to its own slots; its temporary is null but in the middle
\* of a move assignment
Own ==
    \A t \in Threads :
        /\ OwnerOf[dst[t]] = t
        /\ \/ ptr[TempOf[t]] = Null
           \/ doing[t] # "idle" /\ dst[t] = TempOf[t]
        /\ doing[t] # "idle" /\ dst[t] = TempOf[t] => val[t] = Null

Counted == \A o \in Objects : ref_count[o] = Cardinality(Refs(o))

\* an object about to be deleted is live, and nobody refers to it
Dying ==
    \A t \in Threads : doing[t] = "delete" =>
        /\ ptr[dst[t]] \in Objects
        /\ Refs(ptr[dst[t]]) = {}

IInv == Types /\ Own /\ Counted /\ LiveWhileHeld /\ Dying /\ DeletedOnce

\* The references of an object are finitely many.
LEMMA RefsFinite ==
    ASSUME NEW o
    PROVE  /\ IsFiniteSet(Refs(o)) /\ Cardinality(Refs(o)) \in Nat
           /\ IsFiniteSet(Refs(o)') /\ Cardinality(Refs(o)') \in Nat
<1>1. IsFiniteSet(Slots \cup Threads)
  BY FS_Union, ConstantsAssumption
<1>2. Refs(o) \subseteq Slots \cup Threads /\ Refs(o)' \subseteq Slots \cup Threads
  BY DEF Refs
<1> QED
  BY <1>1, <1>2, FS_Subset, FS_CardinalityType

\* A reference more is one more to count.
LEMMA OneMore ==
    ASSUME NEW S, NEW T, NEW x, IsFiniteSet(S), x \notin S, T = S \cup {x}
    PROVE  Cardinality(T) = Cardinality(S) + 1
BY FS_AddElement

\* A reference less is one less to count.
LEMMA OneLess ==
    ASSUME NEW S, NEW T, NEW x, IsFiniteSet(S), x \in S, T = S \ {x}
    PROVE  Cardinality(T) = Cardinality(S) - 1
<1>1. IsFiniteSet(T) /\ x \notin T /\ S = T \cup {x}
  BY FS_RemoveElement
<1>2. Cardinality(S) = Cardinality(T) + 1 /\ Cardinality(T) \in Nat
  BY <1>1, OneMore, FS_CardinalityType
<1> QED
  BY <1>2

\* A reference that changes hands leaves the count as it is.
LEMMA Handed ==
    ASSUME NEW S, NEW T, NEW x, NEW y, IsFiniteSet(S), x \in S, y \notin S,
           T = (S \ {x}) \cup {y}
    PROVE  Cardinality(T) = Cardinality(S)
<1>1. IsFiniteSet(S \ {x}) /\ Cardinality(S \ {x}) = Cardinality(S) - 1
  BY FS_RemoveElement, OneLess
<1>2. Cardinality(T) = Cardinality(S \ {x}) + 1
  BY <1>1, OneMore
<1>3. Cardinality(S) \in Nat
  BY FS_CardinalityType
<1> QED
  BY <1>1, <1>2, <1>3

\* Nothing refers to anything before the first object is made.
LEMMA InitInv == Init => IInv
<1> SUFFICES ASSUME Init PROVE IInv
  OBVIOUS
<1> USE ConstantsAssumption DEF Init
<1>1. Types
  BY DEF Types, Pointers
<1>2. Own
  BY DEF Own
<1>3. \A o \in Objects : Refs(o) = {}
  BY DEF Refs
<1>4. Counted
  BY <1>3, FS_EmptySet DEF Counted
<1>5. LiveWhileHeld /\ Dying /\ DeletedOnce
  BY <1>3 DEF LiveWhileHeld, Dying, DeletedOnce
<1> QED
  BY <1>1, <1>2, <1>4, <1>5 DEF IInv

\* Every step keeps the types.
LEMMA NextTypes ==
    ASSUME IInv, Next
    PROVE  Types'
<1> USE ConstantsAssumption DEF IInv, Types, Pointers, Variables
<1>1. ASSUME NEW s \in Variables, NEW o \in Objects, New(s, o) PROVE Types'
  BY <1>1 DEF New, AddRef, threadVars
<1>2. ASSUME NEW s \in Variables, NEW r \in Variables, Copy(s, r) PROVE Types'
  BY <1>2 DEF Copy, AddRef, threadVars
<1>3. ASSUME NEW s \in Variables, NEW r \in Variables, Move(s, r) PROVE Types'
  BY <1>3 DEF Move, threadVars
<1>4. ASSUME NEW s \in Variables, NEW r \in Variables, Assign(s, r) PROVE Types'
  BY <1>4 DEF Assign, AddRef
<1>5. ASSUME NEW s \in Variables, NEW r \in Variables, MoveAssign(s, r) PROVE Types'
  BY <1>5 DEF MoveAssign
<1>6. ASSUME NEW s \in Variables, Reset(s) PROVE Types'
  BY <1>6 DEF Reset
<1>7. ASSUME NEW t \in Threads, DecRef(t) PROVE Types'
  BY <1>7 DEF DecRef
<1>8. ASSUME NEW t \in Threads, Delete(t) PROVE Types'
  BY <1>8 DEF Delete
<1>9. ASSUME NEW t \in Threads, Store(t) PROVE Types'
  BY <1>9 DEF Store
<1> QED
  BY <1>1, <1>2, <1>3, <1>4, <1>5, <1>6, <1>7, <1>8, <1>9 DEF Next

\* Every step leaves a thread with its own slots and temporaries.
LEMMA NextOwn ==
    ASSUME IInv, Next
    PROVE  Own'
<1> USE ConstantsAssumption DEF IInv, Types, Own, Variables, Idle
<1>1. ASSUME NEW s \in Variables, NEW o \in Objects, New(s, o) PROVE Own'
  BY <1>1 DEF New, threadVars
<1>2. ASSUME NEW s \in Variables, NEW r \in Variables, Copy(s, r) PROVE Own'
  BY <1>2 DEF Copy, threadVars
<1>3. ASSUME NEW s \in Variables, NEW r \in Variables, Move(s, r) PROVE Own'
  BY <1>3 DEF Move, threadVars
<1>4. ASSUME NEW s \in Variables, NEW r \in Variables, Assign(s, r) PROVE Own'
  BY <1>4 DEF Assign
<1>5. ASSUME NEW s \in Variables, NEW r \in Variables, MoveAssign(s, r) PROVE Own'
  BY <1>5 DEF MoveAssign
<1>6. ASSUME NEW s \in Variables, Reset(s) PROVE Own'
  BY <1>6 DEF Reset
<1>7. ASSUME NEW t \in Threads, DecRef(t) PROVE Own'
  BY <1>7 DEF DecRef
<1>8. ASSUME NEW t \in Threads, Delete(t) PROVE Own'
  BY <1>8 DEF Delete
<1>9. ASSUME NEW t \in Threads, Store(t) PROVE Own'
  BY <1>9 DEF Store
<1> QED
  BY <1>1, <1>2, <1>3, <1>4, <1>5, <1>6, <1>7, <1>8, <1>9 DEF Next

\* The rest of the invariant, which is about the references.
Referenced == Counted /\ LiveWhileHeld /\ Dying /\ DeletedOnce

\* A step that changes nothing of an object's references, its counter or its
\* memory, and begins no deletion, keeps what the invariant says of it.
LEMMA Kept ==
    ASSUME IInv,
           UNCHANGED mem,
           \A o \in Objects : ref_count'[o] = Cardinality(Refs(o)'),
           \A o \in Objects : Refs(o) = {} => Refs(o)' = {},
           \A t \in Threads : doing'[t] = "delete" =>
               doing[t] = "delete" /\ ptr'[dst'[t]] = ptr[dst[t]]
    PROVE  Referenced'
<1>1. Counted'
  BY DEF Counted
<1>2. LiveWhileHeld'
  BY DEF IInv, LiveWhileHeld
<1>3. Dying'
  BY DEF IInv, Dying
<1>4. DeletedOnce'
  BY DEF IInv, DeletedOnce
<1> QED
  BY <1>1, <1>2, <1>3, <1>4 DEF Referenced

\* A new object has one reference.
LEMMA NewReferenced ==
    ASSUME IInv, NEW s \in Variables, NEW o \in Objects, New(s, o)
    PROVE  Referenced'
<1> USE ConstantsAssumption DEF IInv, Types, Variables
<1>1. Refs(o) = {} /\ s \notin Threads
  BY DEF New, LiveWhileHeld
<1>2. Refs(o)' = Refs(o) \cup {s}
  BY DEF New, Refs, Dropped, Idle, threadVars
<1>3. \A p \in Objects \ {o} : Refs(p)' = Refs(p)
  BY DEF New, Refs, Dropped, Idle, threadVars
<1>4. Counted'
  <2>1. Cardinality(Refs(o)') = Cardinality(Refs(o)) + 1
    BY <1>1, <1>2, RefsFinite, OneMore
  <2> QED
    BY <2>1, <1>3 DEF Counted, New, AddRef
<1>5. LiveWhileHeld'
  BY <1>3 DEF LiveWhileHeld, New
<1>6. \A t \in Threads : doing'[t] = "delete" =>
         doing[t] = "delete" /\ ptr'[dst'[t]] = ptr[dst[t]] /\ ptr[dst[t]] # o
  BY DEF New, threadVars, Idle, Own, DeletedOnce, Dying
<1>7. Dying'
  <2>1. \A p \in Objects : p # o /\ Refs(p) = {} => Refs(p)' = {}
    BY <1>3
  <2> QED
    BY <2>1, <1>6 DEF Dying
<1>8. DeletedOnce'
  BY <1>6 DEF DeletedOnce, Dying, New
<1> QED
  BY <1>4, <1>5, <1>7, <1>8 DEF Referenced

\* A copy is counted.
LEMMA CopyReferenced ==
    ASSUME IInv, NEW s \in Variables, NEW r \in Variables, Copy(s, r)
    PROVE  Referenced'
<1> USE ConstantsAssumption DEF IInv, Types, Variables
<1>1. \A o \in Objects : o # ptr[r] => Refs(o)' = Refs(o)
  BY DEF Copy, Refs, Dropped, Idle, threadVars
<1>2. ASSUME NEW o \in Objects, o = ptr[r]
      PROVE  Refs(o)' = Refs(o) \cup {s} /\ s \notin Refs(o) /\ Refs(o) # {}
  <2>1. s \notin Refs(o) /\ r \in Refs(o)
    BY <1>2 DEF Copy, Refs, Dropped, Idle
  <2>2. Refs(o)' = Refs(o) \cup {s}
    BY <1>2 DEF Copy, Refs, Dropped, Idle, threadVars
  <2> QED
    BY <2>1, <2>2
<1>3. ASSUME NEW o \in Objects PROVE ref_count'[o] = Cardinality(Refs(o)')
  <2>1. CASE o = ptr[r]
    <3>1. Cardinality(Refs(o)') = Cardinality(Refs(o)) + 1
      BY <1>2, <2>1, RefsFinite, OneMore
    <3> QED
      BY <3>1, <2>1 DEF Counted, Copy, AddRef
  <2>2. CASE o # ptr[r]
    BY <1>1, <2>2 DEF Counted, Copy, AddRef
  <2> QED
    BY <2>1, <2>2
<1>4. \A t \in Threads : doing'[t] = "delete" =>
         doing[t] = "delete" /\ ptr'[dst'[t]] = ptr[dst[t]]
  BY DEF Copy, threadVars, Idle, Own
<1>5. \A o \in Objects : Refs(o) = {} => Refs(o)' = {}
  BY <1>1, <1>2
<1> QED
  BY <1>3, <1>4, <1>5, Kept DEF Copy

\* A move hands the reference over.
LEMMA MoveReferenced ==
    ASSUME IInv, NEW s \in Variables, NEW r \in Variables, Move(s, r)
    PROVE  Referenced'
<1> USE ConstantsAssumption DEF IInv, Types, Variables
<1>1. \A o \in Objects : o # ptr[r] => Refs(o)' = Refs(o)
  BY DEF Move, Refs, Dropped, Idle, threadVars
<1>2. ASSUME NEW o \in Objects, o = ptr[r]
      PROVE  /\ Refs(o)' = (Refs(o) \ {r}) \cup {s}
             /\ r \in Refs(o) /\ s \notin Refs(o)
  <2>1. s \notin Refs(o) /\ r \in Refs(o)
    BY <1>2 DEF Move, Refs, Dropped, Idle
  <2>2. Refs(o)' = (Refs(o) \ {r}) \cup {s}
    BY <1>2 DEF Move, Refs, Dropped, Idle, threadVars
  <2> QED
    BY <2>1, <2>2
<1>3. ASSUME NEW o \in Objects PROVE ref_count'[o] = Cardinality(Refs(o)')
  <2>1. CASE o = ptr[r]
    <3>1. Cardinality(Refs(o)') = Cardinality(Refs(o))
      BY <1>2, <2>1, RefsFinite, Handed
    <3> QED
      BY <3>1 DEF Counted, Move
  <2>2. CASE o # ptr[r]
    BY <1>1, <2>2 DEF Counted, Move
  <2> QED
    BY <2>1, <2>2
<1>4. \A t \in Threads : doing'[t] = "delete" =>
         doing[t] = "delete" /\ ptr'[dst'[t]] = ptr[dst[t]]
  BY DEF Move, threadVars, Idle, Own
<1>5. \A o \in Objects : Refs(o) = {} => Refs(o)' = {}
  BY <1>1, <1>2
<1> QED
  BY <1>3, <1>4, <1>5, Kept DEF Move

\* operator= counts the new reference before it drops the old one.
LEMMA AssignReferenced ==
    ASSUME IInv, NEW s \in Variables, NEW r \in Variables, Assign(s, r)
    PROVE  Referenced'
<1> DEFINE t == OwnerOf[s]
<1> USE ConstantsAssumption DEF IInv, Types, Variables
<1>1. t \in Threads /\ t \notin Slots /\ doing[t] = "idle" /\ doing'[t] = "drop"
      /\ val'[t] = ptr[r] /\ ptr' = ptr
      /\ \A u \in Threads \ {t} :
            doing'[u] = doing[u] /\ dst'[u] = dst[u] /\ val'[u] = val[u]
  BY DEF Assign, Idle
<1>2. \A x \in Slots : ~Dropped(x)' <=> ~Dropped(x)
  BY <1>1 DEF Dropped
<1>3. \A o \in Objects : o # ptr[r] => Refs(o)' = Refs(o)
  BY <1>1, <1>2 DEF Refs
<1>4. ASSUME NEW o \in Objects, o = ptr[r]
      PROVE  Refs(o)' = Refs(o) \cup {t} /\ t \notin Refs(o) /\ Refs(o) # {}
  <2>1. t \notin Refs(o) /\ r \in Refs(o)
    BY <1>1, <1>4 DEF Assign, Refs, Dropped, Idle
  <2>2. Refs(o)' = Refs(o) \cup {t}
    BY <1>1, <1>2, <1>4 DEF Refs
  <2> QED
    BY <2>1, <2>2
<1>5. ASSUME NEW o \in Objects PROVE ref_count'[o] = Cardinality(Refs(o)')
  <2>1. CASE o = ptr[r]
    <3>1. Cardinality(Refs(o)') = Cardinality(Refs(o)) + 1
      BY <1>4, <2>1, RefsFinite, OneMore
    <3> QED
      BY <3>1, <2>1 DEF Counted, Assign, AddRef
  <2>2. CASE o # ptr[r]
    BY <1>3, <2>2 DEF Counted, Assign, AddRef
  <2> QED
    BY <2>1, <2>2
<1>6. \A u \in Threads : doing'[u] = "delete" =>
         doing[u] = "delete" /\ ptr'[dst'[u]] = ptr[dst[u]]
  BY <1>1
<1>7. \A o \in Objects : Refs(o) = {} => Refs(o)' = {}
  BY <1>3, <1>4
<1> QED
  BY <1>5, <1>6, <1>7, Kept DEF Assign

\* A move assignment moves two references: r's to s, and that of s to the
\* temporary.
LEMMA MoveAssignReferenced ==
    ASSUME IInv, NEW s \in Variables, NEW r \in Variables, MoveAssign(s, r)
    PROVE  Referenced'
<1> DEFINE t == OwnerOf[s]
           m == TempOf[t]
<1> USE ConstantsAssumption DEF IInv, Types, Variables
<1>1. /\ t \in Threads /\ doing[t] = "idle" /\ doing'[t] = "drop"
      /\ val'[t] = Null /\ dst'[t] = m /\ OwnerOf[m] = t /\ OwnerOf[r] = t
      /\ m # s /\ m # r /\ m \in Slots /\ ptr[m] = Null
      /\ \A u \in Threads \ {t} :
            doing'[u] = doing[u] /\ dst'[u] = dst[u] /\ val'[u] = val[u]
  BY DEF MoveAssign, Idle, Own
<1>2. \A x \in Slots : Dropped(x)' <=> Dropped(x)
  BY <1>1 DEF Dropped
<1>3. ~Dropped(s) /\ ~Dropped(r) /\ ~Dropped(m)
  BY <1>1 DEF Dropped
<1>4. /\ ptr'[s] = ptr[r]
      /\ s # r => ptr'[r] = Null /\ ptr'[m] = ptr[s]
      /\ s = r => ptr'[m] = Null
      /\ \A x \in Slots \ {s, r, m} : ptr'[x] = ptr[x]
  BY <1>1 DEF MoveAssign
<1>5. \A u \in Threads, o \in Objects :
         (doing'[u] # "idle" /\ val'[u] = o) <=> (doing[u] # "idle" /\ val[u] = o)
  BY <1>1
<1>6. \A o \in Objects : Refs(o)' =
         {x \in Slots : ptr'[x] = o /\ ~Dropped(x)}
             \cup {u \in Threads : doing[u] # "idle" /\ val[u] = o}
  BY <1>2, <1>5 DEF Refs
<1>7. ASSUME NEW o \in Objects
      PROVE  /\ Cardinality(Refs(o)') = Cardinality(Refs(o))
             /\ Refs(o) = {} => Refs(o)' = {}
  <2>1. m \notin Refs(o)
    BY <1>1 DEF Refs
  <2>2. CASE s = r \/ (ptr[s] # o /\ ptr[r] # o)
    <3>1. Refs(o)' = Refs(o)
      BY <1>1, <1>3, <1>4, <1>6, <2>2 DEF Refs
    <3> QED
      BY <3>1
  <2>3. CASE s # r /\ ptr[s] = o /\ ptr[r] = o
    <3>1. r \in Refs(o) /\ Refs(o)' = (Refs(o) \ {r}) \cup {m}
      BY <1>1, <1>3, <1>4, <1>6, <2>3 DEF Refs
    <3> QED
      BY <3>1, <2>1, RefsFinite, Handed
  <2>4. CASE s # r /\ ptr[s] = o /\ ptr[r] # o
    <3>1. s \in Refs(o) /\ Refs(o)' = (Refs(o) \ {s}) \cup {m}
      BY <1>1, <1>3, <1>4, <1>6, <2>4 DEF Refs
    <3> QED
      BY <3>1, <2>1, RefsFinite, Handed
  <2>5. CASE s # r /\ ptr[s] # o /\ ptr[r] = o
    <3>1. r \in Refs(o) /\ s \notin Refs(o) /\ Refs(o)' = (Refs(o) \ {r}) \cup {s}
      BY <1>1, <1>3, <1>4, <1>6, <2>5 DEF Refs
    <3> QED
      BY <3>1, RefsFinite, Handed
  <2> QED
    BY <2>2, <2>3, <2>4, <2>5
<1>8. \A u \in Threads : doing'[u] = "delete" =>
         doing[u] = "delete" /\ ptr'[dst'[u]] = ptr[dst[u]]
  BY <1>1, <1>4 DEF Own
<1>9. \A o \in Objects : ref_count'[o] = Cardinality(Refs(o)')
  BY <1>7 DEF Counted, MoveAssign
<1> QED
  BY <1>7, <1>8, <1>9, Kept DEF MoveAssign

\* To begin to drop a reference drops none yet.
LEMMA ResetReferenced ==
    ASSUME IInv, NEW s \in Variables, Reset(s)
    PROVE  Referenced'
<1> DEFINE t == OwnerOf[s]
<1> USE ConstantsAssumption DEF IInv, Types, Variables
<1>1. /\ t \in Threads /\ doing[t] = "idle" /\ doing'[t] = "drop"
      /\ val'[t] = Null /\ ptr' = ptr
      /\ \A u \in Threads \ {t} :
            doing'[u] = doing[u] /\ dst'[u] = dst[u] /\ val'[u] = val[u]
  BY DEF Reset, Idle
<1>2. \A x \in Slots : Dropped(x)' <=> Dropped(x)
  BY <1>1 DEF Dropped
<1>3. \A o \in Objects : Refs(o)' = Refs(o)
  BY <1>1, <1>2 DEF Refs
<1>4. \A u \in Threads : doing'[u] = "delete" =>
         doing[u] = "delete" /\ ptr'[dst'[u]] = ptr[dst[u]]
  BY <1>1
<1>5. \A o \in Objects : ref_count'[o] = Cardinality(Refs(o)')
  BY <1>3 DEF Counted, Reset
<1> QED
  BY <1>3, <1>4, <1>5, Kept DEF Reset

\* DecRef says that a reference is the last one when no other is left.
LEMMA DecRefReferenced ==
    ASSUME IInv, NEW t \in Threads, DecRef(t)
    PROVE  Referenced'
<1> DEFINE s == dst[t]
           old == ptr[s]
<1> USE ConstantsAssumption DEF IInv, Types
<1>1. /\ s \in Slots /\ OwnerOf[s] = t /\ doing[t] = "drop"
      /\ doing'[t] \in {"delete", "store"}
      /\ ptr' = ptr /\ mem' = mem /\ dst' = dst /\ val' = val
      /\ \A u \in Threads \ {t} : doing'[u] = doing[u]
  BY DEF DecRef, Own
<1>2. \A x \in Slots : Dropped(x)' <=> Dropped(x) \/ x = s
  BY <1>1 DEF Dropped
<1>3. s \notin Threads /\ ~Dropped(s)
  BY <1>1 DEF Dropped
<1>4. \A o \in Objects : Refs(o)' = Refs(o) \ {s}
  BY <1>1, <1>2, <1>3 DEF Refs
<1>5. \A o \in Objects : s \in Refs(o) <=> o = old
  BY <1>1, <1>3 DEF Refs
<1>6. ASSUME NEW o \in Objects, o # old PROVE Refs(o)' = Refs(o)
  <2>1. s \notin Refs(o) /\ Refs(o)' = Refs(o) \ {s}
    BY <1>4, <1>5, <1>6
  <2> QED
    BY <2>1
<1>7. CASE old = Null
  <2>1. ref_count' = ref_count /\ doing'[t] = "store"
    BY <1>7 DEF DecRef
  <2>2. \A o \in Objects : ref_count'[o] = Cardinality(Refs(o)')
    BY <1>6, <1>7, <2>1 DEF Counted
  <2>3. \A o \in Objects : Refs(o) = {} => Refs(o)' = {}
    BY <1>4
  <2>4. \A u \in Threads : doing'[u] = "delete" =>
           doing[u] = "delete" /\ ptr'[dst'[u]] = ptr[dst[u]]
    BY <1>1, <2>1
  <2> QED
    BY <1>1, <2>2, <2>3, <2>4, Kept
<1>8. CASE old # Null
  <2>1. /\ old \in Objects
        /\ ref_count' = [ref_count EXCEPT ![old] = @ - 1]
        /\ doing'[t] = "delete" <=> ref_count[old] = 1
    BY <1>1, <1>8 DEF DecRef, Pointers
  <2>2. ASSUME NEW o \in Objects, o = old
        PROVE  Cardinality(Refs(o)') = Cardinality(Refs(o)) - 1
    <3>1. s \in Refs(o) /\ Refs(o)' = Refs(o) \ {s}
      BY <1>4, <1>5, <2>2
    <3> QED
      BY <3>1, RefsFinite, OneLess
  <2>3. Counted'
    <3> SUFFICES ASSUME NEW o \in Objects PROVE ref_count'[o] = Cardinality(Refs(o)')
      BY DEF Counted
    <3>1. CASE o = old
      BY <2>1, <2>2, <3>1 DEF Counted
    <3>2. CASE o # old
      BY <1>6, <2>1, <3>2 DEF Counted
    <3> QED
      BY <3>1, <3>2
  <2>4. LiveWhileHeld'
    BY <1>1, <1>4 DEF LiveWhileHeld
  <2>5. ASSUME NEW o \in Objects, o = old, doing'[t] = "delete" PROVE Refs(o)' = {}
    <3>1. Cardinality(Refs(o)') = 0
      BY <2>1, <2>2, <2>5 DEF Counted
    <3> QED
      BY <3>1, RefsFinite, FS_EmptySet
  <2>6. \A o \in Objects : Refs(o) = {} => Refs(o)' = {}
    BY <1>4
  <2>7. Dying'
    BY <1>1, <2>1, <2>5, <2>6 DEF Dying
  <2>8. mem[old] = "live" /\ \A u \in Threads : doing[u] = "delete" => ptr[dst[u]] # old
    BY <1>5, <2>1 DEF LiveWhileHeld, Dying
  <2>9. DeletedOnce'
    BY <1>1, <2>8 DEF DeletedOnce
  <2> QED
    BY <2>3, <2>4, <2>7, <2>9 DEF Referenced
<1> QED
  BY <1>7, <1>8

\* What is deleted has no reference left.
LEMMA DeleteReferenced ==
    ASSUME IInv, NEW t \in Threads, Delete(t)
    PROVE  Referenced'
<1> DEFINE old == ptr[dst[t]]
<1> USE ConstantsAssumption DEF IInv, Types
<1>1. /\ old \in Objects /\ Refs(old) = {} /\ doing[t] = "delete"
      /\ doing'[t] = "store" /\ mem' = [mem EXCEPT ![old] = "deleted"]
      /\ ptr' = ptr /\ ref_count' = ref_count /\ dst' = dst /\ val' = val
      /\ \A u \in Threads \ {t} : doing'[u] = doing[u]
  BY DEF Delete, Dying
<1>2. \A x \in Slots : Dropped(x)' <=> Dropped(x)
  BY <1>1 DEF Dropped
<1>3. \A o \in Objects : Refs(o)' = Refs(o)
  BY <1>1, <1>2 DEF Refs
<1>4. Counted'
  BY <1>1, <1>3 DEF Counted
<1>5. LiveWhileHeld'
  BY <1>1, <1>3 DEF LiveWhileHeld
<1>6. Dying'
  <2>1. \A o \in Objects : Refs(o) = {} => Refs(o)' = {}
    BY <1>3
  <2> QED
    BY <1>1, <2>1 DEF Dying
<1>7. DeletedOnce'
  BY <1>1 DEF DeletedOnce, Dying
<1> QED
  BY <1>4, <1>5, <1>6, <1>7 DEF Referenced

\* The reference that operator= holds becomes that of its slot.
LEMMA StoreReferenced ==
    ASSUME IInv, NEW t \in Threads, Store(t)
    PROVE  Referenced'
<1> DEFINE s == dst[t]
<1> USE ConstantsAssumption DEF IInv, Types
<1>1. /\ s \in Slots /\ OwnerOf[s] = t /\ doing[t] = "store" /\ doing'[t] = "idle"
      /\ ptr' = [ptr EXCEPT ![s] = val[t]]
      /\ ref_count' = ref_count /\ mem' = mem /\ dst' = dst /\ val' = val
      /\ \A u \in Threads \ {t} : doing'[u] = doing[u]
  BY DEF Store, Own
<1>2. Dropped(s) /\ ~Dropped(s)' /\ \A x \in Slots \ {s} : Dropped(x)' <=> Dropped(x)
  BY <1>1 DEF Dropped
<1>3. s \notin Threads /\ t \notin Slots
  BY <1>1
<1>4. \A o \in Objects : o # val[t] => Refs(o)' = Refs(o)
  BY <1>1, <1>2 DEF Refs
<1>5. ASSUME NEW o \in Objects, o = val[t]
      PROVE  /\ t \in Refs(o) /\ s \notin Refs(o)
             /\ Refs(o)' = (Refs(o) \ {t}) \cup {s}
  <2>1. t \in Refs(o) /\ s \notin Refs(o)
    BY <1>1, <1>2, <1>3, <1>5 DEF Refs
  <2>2. Refs(o)' = (Refs(o) \ {t}) \cup {s}
    BY <1>1, <1>2, <1>3, <1>5 DEF Refs
  <2> QED
    BY <2>1, <2>2
<1>6. ASSUME NEW o \in Objects PROVE ref_count'[o] = Cardinality(Refs(o)')
  <2>1. CASE o = val[t]
    <3>1. Cardinality(Refs(o)') = Cardinality(Refs(o))
      BY <1>5, <2>1, RefsFinite, Handed
    <3> QED
      BY <3>1, <1>1 DEF Counted
  <2>2. CASE o # val[t]
    BY <1>1, <1>4, <2>2 DEF Counted
  <2> QED
    BY <2>1, <2>2
<1>7. \A u \in Threads : doing'[u] = "delete" =>
         doing[u] = "delete" /\ ptr'[dst'[u]] = ptr[dst[u]]
  BY <1>1 DEF Own
<1>8. \A o \in Objects : Refs(o) = {} => Refs(o)' = {}
  BY <1>4, <1>5
<1> QED
  BY <1>1, <1>6, <1>7, <1>8, Kept

\* What the invariant says follows: the counter is not negative, and it is 1
\* exactly for the only reference.
LEMMA Implied == IInv => TypeOK /\ OneRefExclusive
<1> SUFFICES ASSUME IInv PROVE TypeOK /\ OneRefExclusive
  OBVIOUS
<1>1. \A o \in Objects : ref_count[o] \in Nat
  BY RefsFinite DEF IInv, Counted
<1>2. TypeOK
  BY <1>1 DEF IInv, Types, TypeOK
<1>3. ASSUME NEW s \in Slots, ptr[s] # Null, ~Dropped(s)
      PROVE  ref_count[ptr[s]] = 1 <=> Refs(ptr[s]) = {s}
  <2>1. ptr[s] \in Objects /\ s \in Refs(ptr[s])
    BY <1>3 DEF IInv, Types, Pointers, Refs
  <2>2. ref_count[ptr[s]] = Cardinality(Refs(ptr[s])) /\ IsFiniteSet(Refs(ptr[s]))
    BY <2>1, RefsFinite DEF IInv, Counted
  <2>3. ASSUME Refs(ptr[s]) = {s} PROVE ref_count[ptr[s]] = 1
    BY <2>2, <2>3, FS_Singleton
  <2>4. ASSUME ref_count[ptr[s]] = 1 PROVE Refs(ptr[s]) = {s}
    <3>1. \E x : Refs(ptr[s]) = {x}
      BY <2>2, <2>4, FS_Singleton
    <3> QED
      BY <3>1, <2>1
  <2> QED
    BY <2>3, <2>4
<1> QED
  BY <1>2, <1>3 DEF OneRefExclusive

\* The invariant is inductive: however the threads copy, move, assign and
\* destroy scoped_refptr variables, ref_count_ counts their references.
THEOREM Inductive == Spec => []IInv
<1>1. IInv /\ [Next]_vars => IInv'
  <2> SUFFICES ASSUME IInv, [Next]_vars PROVE IInv'
    OBVIOUS
  <2>1. CASE Next
    <3>1. Types' /\ Own'
      BY <2>1, NextTypes, NextOwn
    <3>2. Referenced'
      BY <2>1, NewReferenced, CopyReferenced, MoveReferenced, AssignReferenced,
         MoveAssignReferenced, ResetReferenced, DecRefReferenced,
         DeleteReferenced, StoreReferenced DEF Next
    <3> QED
      BY <3>1, <3>2 DEF IInv, Referenced
  <2>2. CASE UNCHANGED vars
    BY <2>2 DEF IInv, vars, threadVars, Types, Own, Counted, LiveWhileHeld, Dying,
                DeletedOnce, Refs, Dropped
  <2> QED
    BY <2>1, <2>2
<1> QED
  BY <1>1, InitInv, PTL DEF Spec

\* The variables keep their types, and ref_count_ is never negative.
THEOREM TypeCorrect == Spec => []TypeOK
BY Inductive, Implied, PTL

\* No thread, in operator=, in a destructor or between, refers to an object
\* that is deleted.
THEOREM HeldIsLive == Spec => []LiveWhileHeld
<1>1. IInv => LiveWhileHeld
  BY DEF IInv
<1> QED
  BY <1>1, Inductive, PTL

\* HasOneRef tells a thread exactly whether it is the only one to refer to
\* the object.
THEOREM HasOneRefExact == Spec => []OneRefExclusive
BY Inductive, Implied, PTL

\* "delete this" runs for a live object, and in one thread at a time.
THEOREM DeletedByOne == Spec => []DeletedOnce
<1>1. IInv => DeletedOnce
  BY DEF IInv
<1> QED
  BY <1>1, Inductive, PTL

=============================================================================
