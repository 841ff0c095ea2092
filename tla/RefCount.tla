------------------------------ MODULE RefCount ------------------------------
(***************************************************************************)
(* TRefCounter and the smart pointers built on it (lib/common/refcounted,  *)
(* intrusive_ptr, weak_ptr), at the grain of single atomic instructions.   *)
(*                                                                         *)
(* The module follows one heap block through its life.  StrongPtrs and     *)
(* WeakPtrs are the TIntrusivePtr and TWeakPtr variables of the whole      *)
(* program, each at most in one operation at a time; operations of         *)
(* different variables interleave freely, which covers every assignment of *)
(* them to threads.  ref[p] and wref[w] say what the variable holds and,   *)
(* inside an operation, what instruction comes next:                       *)
(*                                                                         *)
(*   null       ptr_ is nullptr                                            *)
(*   building   inside New, the constructor is running                     *)
(*   copied     Ref has added one, its second VERIFY is still to come      *)
(*   held       ptr_ refers to the object                                  *)
(*   locking    Lock has loaded the strong count into old[p]               *)
(*   cas        Lock is at its compare-and-swap loop                       *)
(*   destroy    Unref returned true, ~T is to run                          *)
(*   weakUnref  ~T has run, the strong group's weak reference is to go     *)
(*   free       WeakUnref returned true, Deallocate is to run              *)
(*                                                                         *)
(* Ref(n) and Unref(n) are only ever called with n = 1.                    *)
(***************************************************************************)
EXTENDS Integers, FiniteSets

CONSTANTS
    StrongPtrs,     \* the TIntrusivePtr variables
    WeakPtrs        \* the TWeakPtr variables

ASSUME PtrsFinite == IsFiniteSet(StrongPtrs) /\ IsFiniteSet(WeakPtrs)

VARIABLES
    strong,         \* TRefCounter::StrongRefCount_
    weak,           \* TRefCounter::WeakRefCount_
    life,           \* the block: "none", "building", "alive", "destructed"
    ref,            \* the state of each strong pointer
    old,            \* TryRef's local `value', for each locking pointer
    src,            \* the weak pointer a Lock in progress was called on
    wref,           \* the state of each weak pointer: "null", "held", "free"
    trapped         \* a VERIFY failed and DEBUG_TRAP stopped the process

vars == <<strong, weak, life, ref, old, src, wref, trapped>>

RefStates ==
    {"null", "building", "copied", "held", "locking", "cas", "destroy",
     "weakUnref", "free"}

TypeOK ==
    /\ strong \in Nat
    /\ weak \in Nat
    /\ life \in {"none", "building", "alive", "destructed"}
    /\ ref \in [StrongPtrs -> RefStates]
    /\ old \in [StrongPtrs -> Nat]
    /\ src \in [StrongPtrs -> WeakPtrs \cup {"none"}]
    /\ wref \in [WeakPtrs -> {"null", "held", "free"}]
    /\ trapped \in BOOLEAN

Init ==
    /\ strong = 0
    /\ weak = 0
    /\ life = "none"
    /\ ref = [p \in StrongPtrs |-> "null"]
    /\ old = [p \in StrongPtrs |-> 0]
    /\ src = [p \in StrongPtrs |-> "none"]
    /\ wref = [w \in WeakPtrs |-> "null"]
    /\ trapped = FALSE

Go(p, state) == ref' = [ref EXCEPT ![p] = state]
WGo(w, state) == wref' = [wref EXCEPT ![w] = state]

\* VERIFY(condition): anything but TRUE traps.
Verify(condition) == trapped' = ~condition

-----------------------------------------------------------------------------
(* TIntrusivePtr: creation, copies, moves and release.                     *)

\* New, up to the constructor call: both counters start at one.
Allocate(p) ==
    /\ life = "none"
    /\ ref[p] = "null"
    /\ life' = "building"
    /\ strong' = 1
    /\ weak' = 1
    /\ Go(p, "building")
    /\ UNCHANGED <<old, src, wref, trapped>>

Construct(p) ==
    /\ ref[p] = "building"
    /\ life' = "alive"
    /\ Go(p, "held")
    /\ UNCHANGED <<strong, weak, old, src, wref, trapped>>

\* The constructor throws a std::exception, as every one in the repository does
\* that throws: New deallocates directly, past the counters.  It catches no other.
ConstructThrows(p) ==
    /\ ref[p] = "building"
    /\ life' = "none"
    /\ Go(p, "null")
    /\ UNCHANGED <<strong, weak, old, src, wref, trapped>>

\* Copying q into p: Ref's fetch_add and the VERIFY of the value it returned.
CopyRef(p, q) ==
    /\ ref[p] = "null"
    /\ ref[q] = "held"
    /\ strong' = strong + 1
    /\ Verify(strong > 0)
    /\ Go(p, "copied")
    /\ UNCHANGED <<weak, life, old, src, wref>>

RefVerifyWeak(p) ==
    /\ ref[p] = "copied"
    /\ Verify(weak > 0)
    /\ Go(p, "held")
    /\ UNCHANGED <<strong, weak, life, old, src, wref>>

MoveRef(p, q) ==
    /\ ref[p] = "null"
    /\ ref[q] = "held"
    /\ ref' = [ref EXCEPT ![p] = "held", ![q] = "null"]
    /\ UNCHANGED <<strong, weak, life, old, src, wref, trapped>>

\* reset or the destructor of the pointer: the thread whose fetch_sub took
\* the last reference goes on to Destruct.
Unref(p) ==
    /\ ref[p] = "held"
    /\ strong' = strong - 1
    /\ Verify(strong >= 1)
    /\ Go(p, IF strong = 1 THEN "destroy" ELSE "null")
    /\ UNCHANGED <<weak, life, old, src, wref>>

RunDestructor(p) ==
    /\ ref[p] = "destroy"
    /\ life' = "destructed"
    /\ Go(p, "weakUnref")
    /\ UNCHANGED <<strong, weak, old, src, wref, trapped>>

\* Faulty: Destruct frees without giving up the strong group's weak reference.
DestructFreesAtOnce(p) ==
    /\ ref[p] = "weakUnref"
    /\ weak' = weak - 1
    /\ Verify(weak > 0)
    /\ Go(p, "free")
    /\ UNCHANGED <<strong, life, old, src, wref>>

\* Faulty: Destruct runs ~T and forgets the strong group's weak reference.
DestructKeepsWeak(p) ==
    /\ ref[p] = "weakUnref"
    /\ Go(p, "null")
    /\ UNCHANGED <<strong, weak, life, old, src, wref, trapped>>

DestructWeakUnref(p) ==
    /\ ref[p] = "weakUnref"
    /\ weak' = weak - 1
    /\ Verify(weak > 0)
    /\ Go(p, IF weak = 1 THEN "free" ELSE "null")
    /\ UNCHANGED <<strong, life, old, src, wref>>

Deallocate(p) ==
    /\ ref[p] = "free"
    /\ life' = "none"
    /\ Go(p, "null")
    /\ UNCHANGED <<strong, weak, old, src, wref, trapped>>

-----------------------------------------------------------------------------
(* TWeakPtr: creation from a strong pointer, copies, moves, release, Lock. *)

WeakRefFrom(w) ==
    /\ weak' = weak + 1
    /\ Verify(weak > 0)
    /\ WGo(w, "held")
    /\ UNCHANGED <<strong, life, ref, old, src>>

MakeWeak(w, p) ==
    /\ wref[w] = "null"
    /\ ref[p] = "held"
    /\ WeakRefFrom(w)

\* Faulty: the copy constructor takes the pointer and counts nothing.
CopyWeakUncounted(w, v) ==
    /\ wref[w] = "null"
    /\ wref[v] = "held"
    /\ WGo(w, "held")
    /\ UNCHANGED <<strong, weak, life, ref, old, src, trapped>>

CopyWeak(w, v) ==
    /\ wref[w] = "null"
    /\ wref[v] = "held"
    /\ WeakRefFrom(w)

\* No Lock may be running on a weak pointer that is moved from or destroyed.
NotInLock(w) ==
    \A p \in StrongPtrs : ref[p] \in {"locking", "cas"} => src[p] # w

MoveWeak(w, v) ==
    /\ wref[w] = "null"
    /\ wref[v] = "held"
    /\ NotInLock(v)
    /\ wref' = [wref EXCEPT ![w] = "held", ![v] = "null"]
    /\ UNCHANGED <<strong, weak, life, ref, old, src, trapped>>

WeakUnref(w) ==
    /\ wref[w] = "held"
    /\ NotInLock(w)
    /\ weak' = weak - 1
    /\ Verify(weak > 0)
    /\ WGo(w, IF weak = 1 THEN "free" ELSE "null")
    /\ UNCHANGED <<strong, life, ref, old, src>>

WeakDeallocate(w) ==
    /\ wref[w] = "free"
    /\ life' = "none"
    /\ WGo(w, "null")
    /\ UNCHANGED <<strong, weak, ref, old, src, trapped>>

\* Lock, first instruction of TryRef.
LockLoad(p, w) ==
    /\ ref[p] = "null"
    /\ wref[w] = "held"
    /\ old' = [old EXCEPT ![p] = strong]
    /\ src' = [src EXCEPT ![p] = w]
    /\ Verify(strong >= 0)
    /\ Go(p, "locking")
    /\ UNCHANGED <<strong, weak, life, wref>>

LockVerifyWeak(p) ==
    /\ ref[p] = "locking"
    /\ Verify(weak > 0)
    /\ Go(p, "cas")
    /\ UNCHANGED <<strong, weak, life, old, src, wref>>

\* The three outcomes of one turn of the compare-and-swap loop.  A spurious
\* failure reloads the same value and changes nothing.
LockExpired(p) ==
    /\ old[p] = 0
    /\ Go(p, "null")
    /\ src' = [src EXCEPT ![p] = "none"]
    /\ UNCHANGED <<strong, old>>

LockSucceeds(p) ==
    /\ old[p] # 0
    /\ strong = old[p]
    /\ strong' = strong + 1
    /\ Go(p, "held")
    /\ src' = [src EXCEPT ![p] = "none"]
    /\ old' = [old EXCEPT ![p] = 0]

LockRetries(p) ==
    /\ old[p] # 0
    /\ strong # old[p]
    /\ old' = [old EXCEPT ![p] = strong]
    /\ UNCHANGED <<strong, ref, src>>

\* Faulty: the loop exchanged for a test of the loaded value and a fetch_add.
LockCheckThenAdd(p) ==
    /\ ref[p] = "cas"
    /\ \/ LockExpired(p)
       \/ /\ old[p] # 0
          /\ strong' = strong + 1
          /\ Go(p, "held")
          /\ src' = [src EXCEPT ![p] = "none"]
          /\ old' = [old EXCEPT ![p] = 0]
    /\ UNCHANGED <<weak, life, wref, trapped>>

LockCas(p) ==
    /\ ref[p] = "cas"
    /\ LockExpired(p) \/ LockSucceeds(p) \/ LockRetries(p)
    /\ UNCHANGED <<weak, life, wref, trapped>>

-----------------------------------------------------------------------------
\* The rest of an operation that has begun.
FinishStrong(p) ==
    \/ Construct(p) \/ ConstructThrows(p) \/ RefVerifyWeak(p)
    \/ RunDestructor(p) \/ DestructWeakUnref(p) \/ Deallocate(p)
    \/ LockVerifyWeak(p) \/ LockCas(p)

Next ==
    /\ ~trapped
    /\ \/ \E p \in StrongPtrs : Allocate(p) \/ Unref(p) \/ FinishStrong(p)
       \/ \E p, q \in StrongPtrs : CopyRef(p, q) \/ MoveRef(p, q)
       \/ \E w \in WeakPtrs : WeakUnref(w) \/ WeakDeallocate(w)
       \/ \E w, v \in WeakPtrs : CopyWeak(w, v) \/ MoveWeak(w, v)
       \/ \E w \in WeakPtrs, p \in StrongPtrs : MakeWeak(w, p) \/ LockLoad(p, w)

Spec == Init /\ [][Next]_vars

\* A thread inside an operation keeps running; nothing obliges the program to
\* begin one.
FairSpec ==
    /\ Spec
    /\ \A p \in StrongPtrs : WF_vars(~trapped /\ FinishStrong(p))
    /\ \A w \in WeakPtrs : WF_vars(~trapped /\ WeakDeallocate(w))

-----------------------------------------------------------------------------
(* Properties.                                                             *)

Owners == {p \in StrongPtrs : ref[p] \in {"building", "copied", "held"}}
Watchers == {w \in WeakPtrs : wref[w] = "held"}
Locking == {p \in StrongPtrs : ref[p] \in {"locking", "cas"}}
Ending == {p \in StrongPtrs : ref[p] \in {"destroy", "weakUnref", "free"}}

\* No VERIFY of TRefCounter ever fails, in any interleaving of copies,
\* releases and locks (refcounted.cpp).
NoTrap == ~trapped

\* Whoever may dereference a strong pointer finds a constructed object whose
\* destructor has not begun (intrusive_ptr.h, operator-> and operator*).
HeldIsAlive ==
    \A p \in StrongPtrs :
        ref[p] \in {"copied", "held"} =>
            /\ life = "alive"
            /\ \A q \in StrongPtrs : ref[q] # "destroy"

\* As long as any variable refers to the block, or an operation on it has an
\* instruction left, its memory has not been returned; and no two operations
\* are both about to return it (refcounted.h, Destruct and WeakUnref).
NoUseAfterFree ==
    /\ life = "none" => /\ \A p \in StrongPtrs : ref[p] = "null"
                        /\ \A w \in WeakPtrs : wref[w] = "null"
    /\ Cardinality({p \in StrongPtrs : ref[p] = "free"})
         + Cardinality({w \in WeakPtrs : wref[w] = "free"}) <= 1

\* The destructor runs once, after construction, and memory is returned only
\* when it has run or when construction failed; a block is never rebuilt in
\* place (refcounted.h, Destruct; intrusive_ptr.h, New).
NextLife(stage) ==
    CASE stage = "none" -> {"building"}
      [] stage = "building" -> {"alive", "none"}
      [] stage = "alive" -> {"destructed"}
      [] stage = "destructed" -> {"none"}

DestructorRuns == \E p \in StrongPtrs : ref[p] = "destroy" /\ ref'[p] # "destroy"

LifeOrder ==
    [][/\ life' # life => life' \in NextLife(life)
       /\ DestructorRuns => life = "alive"]_vars

\* A block nobody refers to any more is returned to the allocator: the weak
\* reference that the strong group holds is not leaked.
Abandoned == Owners = {} /\ Locking = {} /\ Watchers = {}
AbandonedIsFreed == Abandoned ~> life = "none"

\* The counters implement ownership: an object whose last owner's fetch_sub
\* has happened and whose destructor has not is dying.
AbsLife == IF life = "alive" /\ Owners = {} THEN "dying" ELSE life

Abstract == INSTANCE SharedObject WITH
    life <- AbsLife, owners <- Owners, watchers <- Watchers

\* refcounted.h, intrusive_ptr.h and weak_ptr.h keep the promise of
\* SharedObject: destruction and deallocation happen, once, in time.
ImplementsSharedObject == Abstract!AbsSpec

\* The same without the fairness.
ImplementsSafely == Abstract!AbsSafeSpec

\* The conjuncts that make the above inductive: what each counter counts, who
\* is in the destruction sequence, and what a Lock in progress relies on.
StrongCounts == life # "none" => strong = Cardinality(Owners)

GroupHoldsWeak ==
    \/ Owners # {}
    \/ \E p \in StrongPtrs : ref[p] \in {"destroy", "weakUnref"}

WeakCounts ==
    life # "none" =>
        weak = Cardinality(Watchers) + (IF GroupHoldsWeak THEN 1 ELSE 0)

OneEnding ==
    /\ \A p \in Ending :
        /\ Owners = {}
        /\ Ending = {p}
        /\ life = IF ref[p] = "destroy" THEN "alive" ELSE "destructed"
        /\ ref[p] = "free" => Watchers = {}
    /\ \A w \in WeakPtrs : wref[w] = "free" =>
        /\ Owners = {} /\ Ending = {} /\ Watchers = {}
        /\ life = "destructed"
        /\ \A v \in WeakPtrs : wref[v] = "free" => v = w

LifeMatches ==
    /\ life = "none" => /\ Owners = {} /\ Ending = {} /\ Watchers = {}
                        /\ \A w \in WeakPtrs : wref[w] # "free"
    /\ \A p \in StrongPtrs : ref[p] = "building" =>
        life = "building" /\ Owners = {p} /\ Watchers = {}
    /\ \A p \in StrongPtrs : ref[p] \in {"copied", "held"} => life = "alive"
    /\ life = "building" => \E p \in StrongPtrs : ref[p] = "building"
    /\ life = "alive" => GroupHoldsWeak
    /\ life = "destructed" => /\ Owners = {}
                              /\ \A p \in StrongPtrs : ref[p] # "destroy"

LocksWatched == \A p \in Locking : src[p] \in Watchers

IInv ==
    /\ TypeOK /\ ~trapped
    /\ StrongCounts /\ WeakCounts /\ OneEnding /\ LifeMatches /\ LocksWatched

=============================================================================
