--------------------------- MODULE RefCountProofs ---------------------------
(***************************************************************************)
(* Proofs about RefCount for any finite sets of strong and weak pointers.  *)
(* The inductive invariant IInv says what each counter counts: the strong  *)
(* count is the number of owners, the weak count the number of weak        *)
(* pointers plus one while the strong group has not given up its own weak  *)
(* reference.  From that an operation that sees a count of one knows that  *)
(* it is alone.                                                            *)
(***************************************************************************)
EXTENDS RefCount, FiniteSetTheorems, TLAPS

\* The counted sets are finite and their sizes are natural numbers.
LEMMA CountsFinite ==
    /\ IsFiniteSet(Owners) /\ Cardinality(Owners) \in Nat
    /\ IsFiniteSet(Watchers) /\ Cardinality(Watchers) \in Nat
<1>1. IsFiniteSet(Owners)
  <2>1. Owners \in SUBSET StrongPtrs
    BY DEF Owners
  <2> QED BY <2>1, PtrsFinite, FS_Subset
<1>2. IsFiniteSet(Watchers)
  <2>1. Watchers \in SUBSET WeakPtrs
    BY DEF Watchers
  <2> QED BY <2>1, PtrsFinite, FS_Subset
<1> QED BY <1>1, <1>2, FS_CardinalityType

\* A finite set with a member has a positive size, and is that member alone
\* when the size is one.
LEMMA CountOfMember ==
    ASSUME NEW S, IsFiniteSet(S), NEW x \in S
    PROVE  /\ Cardinality(S) >= 1
           /\ Cardinality(S) = 1 <=> S = {x}
           /\ IsFiniteSet(S \ {x})
           /\ Cardinality(S \ {x}) = Cardinality(S) - 1
<1>1. Cardinality(S) \in Nat
  BY FS_CardinalityType
<1>2. Cardinality(S) # 0
  BY FS_EmptySet
<1>3. Cardinality(S) = 1 <=> S = {x}
  BY FS_Singleton
<1> QED BY <1>1, <1>2, <1>3, FS_RemoveElement

LEMMA InitInv == Init => IInv
<1> SUFFICES ASSUME Init PROVE IInv
  OBVIOUS
<1>1. TypeOK /\ ~trapped
  BY DEF Init, TypeOK, RefStates
<1>2. StrongCounts /\ WeakCounts
  BY DEF Init, StrongCounts, WeakCounts
<1>3. /\ \A p \in StrongPtrs : ref[p] = "null"
      /\ \A w \in WeakPtrs : wref[w] = "null"
  BY DEF Init
<1>4. OneEnding /\ LocksWatched
  BY <1>3 DEF OneEnding, Ending, LocksWatched, Locking
<1>5. LifeMatches
  BY <1>3 DEF Init, LifeMatches, Owners, Ending, Watchers
<1> QED BY <1>1, <1>2, <1>4, <1>5 DEF IInv

LEMMA CopyRefInv ==
    ASSUME IInv, NEW p \in StrongPtrs, NEW q \in StrongPtrs, CopyRef(p, q)
    PROVE  IInv'
<1> USE DEF IInv, TypeOK
<1>1. /\ Owners' = Owners \cup {p} /\ p \notin Owners /\ q \in Owners
      /\ Watchers' = Watchers /\ Ending' = Ending /\ Locking' = Locking
  BY DEF CopyRef, Go, Owners, Watchers, Ending, Locking, RefStates
<1>2. life = "alive" /\ strong >= 1
  BY ZenonT(60), <1>1, CountsFinite, CountOfMember DEF CopyRef, LifeMatches, StrongCounts
<1>3. TypeOK' /\ ~trapped'
  BY <1>2 DEF CopyRef, Go, Verify, RefStates
<1>4. StrongCounts'
  BY <1>1, <1>2, CountsFinite, FS_AddElement DEF CopyRef, StrongCounts
<1>5. GroupHoldsWeak /\ GroupHoldsWeak'
  BY <1>1 DEF GroupHoldsWeak
<1>6. WeakCounts'
  BY <1>1, <1>2, <1>5 DEF CopyRef, WeakCounts
<1>7. OneEnding'
  BY <1>1 DEF CopyRef, Go, OneEnding, Ending
<1>8. LifeMatches'
  BY <1>1, <1>2, <1>5 DEF CopyRef, Go, LifeMatches
<1>9. LocksWatched'
  BY <1>1 DEF CopyRef, LocksWatched
<1> QED BY <1>3, <1>4, <1>6, <1>7, <1>8, <1>9

LEMMA RefVerifyWeakInv ==
    ASSUME IInv, NEW p \in StrongPtrs, RefVerifyWeak(p)
    PROVE  IInv'
<1> USE DEF IInv, TypeOK
<1>1. /\ Owners' = Owners /\ p \in Owners
      /\ Watchers' = Watchers /\ Ending' = Ending /\ Locking' = Locking
  BY DEF RefVerifyWeak, Go, Owners, Watchers, Ending, Locking, RefStates
<1>2. life = "alive" /\ weak >= 1
  BY <1>1, CountsFinite
  DEF RefVerifyWeak, LifeMatches, WeakCounts, GroupHoldsWeak
<1>3. TypeOK' /\ ~trapped'
  BY <1>2 DEF RefVerifyWeak, Go, Verify, RefStates
<1>4. GroupHoldsWeak /\ GroupHoldsWeak'
  BY <1>1 DEF GroupHoldsWeak
<1>5. StrongCounts' /\ WeakCounts'
  BY <1>1, <1>4 DEF RefVerifyWeak, StrongCounts, WeakCounts
<1>6. OneEnding'
  BY <1>1 DEF RefVerifyWeak, Go, OneEnding, Ending
<1>7. LifeMatches'
  BY <1>1, <1>2, <1>4 DEF RefVerifyWeak, Go, LifeMatches
<1>8. LocksWatched'
  BY <1>1 DEF RefVerifyWeak, LocksWatched
<1> QED BY <1>3, <1>5, <1>6, <1>7, <1>8

LEMMA MoveRefInv ==
    ASSUME IInv, NEW p \in StrongPtrs, NEW q \in StrongPtrs, MoveRef(p, q)
    PROVE  IInv'
<1> USE DEF IInv, TypeOK
<1>1. /\ Owners' = (Owners \ {q}) \cup {p} /\ p \notin Owners /\ q \in Owners
      /\ Watchers' = Watchers /\ Ending' = Ending /\ Locking' = Locking
  BY DEF MoveRef, Owners, Watchers, Ending, Locking, RefStates
<1>2. life = "alive"
  BY DEF MoveRef, LifeMatches
<1>3. TypeOK' /\ ~trapped'
  BY DEF MoveRef, RefStates
<1>4. Cardinality(Owners') = Cardinality(Owners)
  <2>1. /\ IsFiniteSet(Owners \ {q})
        /\ Cardinality(Owners \ {q}) = Cardinality(Owners) - 1
    BY <1>1, CountsFinite, CountOfMember
  <2>2. Cardinality((Owners \ {q}) \cup {p}) = Cardinality(Owners \ {q}) + 1
    BY <1>1, <2>1, FS_AddElement
  <2> QED BY <1>1, <2>1, <2>2, CountsFinite
<1>5. GroupHoldsWeak /\ GroupHoldsWeak'
  BY <1>1 DEF GroupHoldsWeak
<1>6. StrongCounts' /\ WeakCounts'
  BY <1>1, <1>4, <1>5 DEF MoveRef, StrongCounts, WeakCounts
<1>7. OneEnding'
  BY <1>1 DEF MoveRef, OneEnding, Ending
<1>8. LifeMatches'
  BY <1>1, <1>2, <1>5 DEF MoveRef, LifeMatches
<1>9. LocksWatched'
  BY <1>1 DEF MoveRef, LocksWatched
<1> QED BY <1>3, <1>6, <1>7, <1>8, <1>9

LEMMA AllocateInv ==
    ASSUME IInv, NEW p \in StrongPtrs, Allocate(p)
    PROVE  IInv'
<1> USE DEF IInv, TypeOK
<1>1. /\ Owners = {} /\ Ending = {} /\ Watchers = {}
      /\ \A w \in WeakPtrs : wref[w] # "free"
  BY DEF Allocate, LifeMatches
<1>2. /\ Owners' = {p} /\ Watchers' = {} /\ Ending' = {} /\ Locking' = Locking
      /\ wref' = wref
  BY <1>1 DEF Allocate, Go, Owners, Watchers, Ending, Locking, RefStates
<1>3. TypeOK' /\ ~trapped'
  BY DEF Allocate, Go, RefStates
<1>4. GroupHoldsWeak'
  BY <1>2 DEF GroupHoldsWeak
<1>5. StrongCounts' /\ WeakCounts'
  <2>1. Cardinality(Owners') = 1 /\ Cardinality(Watchers') = 0
    BY <1>2, FS_Singleton, FS_EmptySet
  <2> QED BY <1>4, <2>1 DEF Allocate, StrongCounts, WeakCounts
<1>6. OneEnding'
  BY <1>1, <1>2 DEF OneEnding
<1>7. \A q \in StrongPtrs : q # p => ref'[q] \in {"null", "locking", "cas"}
  BY <1>1 DEF Allocate, Go, Owners, Ending, RefStates
<1>8. LifeMatches'
  BY <1>2, <1>7 DEF Allocate, Go, LifeMatches
<1>9. LocksWatched'
  BY <1>1, <1>2 DEF LocksWatched, Allocate
<1> QED BY <1>3, <1>5, <1>6, <1>8, <1>9

\* While the object is built nobody else refers to it.
LEMMA BuildingAlone ==
    ASSUME IInv, NEW p \in StrongPtrs, ref[p] = "building"
    PROVE  /\ life = "building" /\ Owners = {p} /\ Ending = {}
           /\ Watchers = {} /\ Locking = {}
           /\ \A w \in WeakPtrs : wref[w] # "free"
<1> USE DEF IInv, TypeOK
<1>1. life = "building" /\ Owners = {p} /\ Watchers = {}
  BY DEF LifeMatches
<1>2. Ending = {} /\ \A w \in WeakPtrs : wref[w] # "free"
  BY <1>1 DEF OneEnding
<1>3. Locking = {}
  BY <1>1 DEF LocksWatched
<1> QED BY <1>1, <1>2, <1>3

LEMMA ConstructInv ==
    ASSUME IInv, NEW p \in StrongPtrs, Construct(p)
    PROVE  IInv'
<1> USE DEF IInv, TypeOK
<1>1. /\ life = "building" /\ Owners = {p} /\ Ending = {}
      /\ Watchers = {} /\ Locking = {}
      /\ \A w \in WeakPtrs : wref[w] # "free"
  BY BuildingAlone DEF Construct
<1>2. /\ Owners' = Owners /\ Watchers' = {} /\ Ending' = {} /\ Locking' = {}
      /\ wref' = wref
  BY <1>1 DEF Construct, Go, Owners, Watchers, Ending, Locking, RefStates
<1>3. TypeOK' /\ ~trapped'
  BY DEF Construct, Go, RefStates
<1>4. GroupHoldsWeak /\ GroupHoldsWeak'
  BY <1>1, <1>2 DEF GroupHoldsWeak
<1>5. StrongCounts' /\ WeakCounts'
  BY <1>1, <1>2, <1>4 DEF Construct, StrongCounts, WeakCounts
<1>6. OneEnding' /\ LocksWatched'
  BY <1>1, <1>2 DEF OneEnding, LocksWatched
<1>7. \A q \in StrongPtrs : q # p => ref'[q] = "null"
  BY <1>1 DEF Construct, Go, Owners, Ending, Locking, RefStates
<1>8. LifeMatches'
  BY <1>2, <1>4, <1>7 DEF Construct, Go, LifeMatches
<1> QED BY <1>3, <1>5, <1>6, <1>8

LEMMA ConstructThrowsInv ==
    ASSUME IInv, NEW p \in StrongPtrs, ConstructThrows(p)
    PROVE  IInv'
<1> USE DEF IInv, TypeOK
<1>1. /\ Owners = {p} /\ Ending = {} /\ Watchers = {} /\ Locking = {}
      /\ \A w \in WeakPtrs : wref[w] # "free"
  BY BuildingAlone DEF ConstructThrows
<1>2. /\ Owners' = {} /\ Watchers' = {} /\ Ending' = {} /\ Locking' = {}
      /\ wref' = wref
  BY <1>1 DEF ConstructThrows, Go, Owners, Watchers, Ending, Locking, RefStates
<1>3. TypeOK' /\ ~trapped'
  BY DEF ConstructThrows, Go, RefStates
<1>4. StrongCounts' /\ WeakCounts'
  BY DEF ConstructThrows, StrongCounts, WeakCounts
<1>5. OneEnding' /\ LocksWatched'
  BY <1>1, <1>2 DEF OneEnding, LocksWatched
<1>6. \A q \in StrongPtrs : ref'[q] = "null"
  BY <1>1 DEF ConstructThrows, Go, Owners, Ending, Locking, RefStates
<1>7. LifeMatches'
  BY <1>1, <1>2, <1>6 DEF ConstructThrows, LifeMatches
<1> QED BY <1>3, <1>4, <1>5, <1>7

\* A pointer that holds the object: nobody is destroying or freeing it.
LEMMA HeldAlone ==
    ASSUME IInv, NEW p \in StrongPtrs, ref[p] \in {"copied", "held"}
    PROVE  /\ life = "alive" /\ p \in Owners /\ Ending = {}
           /\ \A w \in WeakPtrs : wref[w] # "free"
           /\ GroupHoldsWeak
           /\ strong = Cardinality(Owners) /\ strong >= 1
           /\ weak = Cardinality(Watchers) + 1
<1> USE DEF IInv, TypeOK
<1>1. p \in Owners /\ life = "alive"
  BY DEF Owners, LifeMatches
<1>2. Ending = {} /\ \A w \in WeakPtrs : wref[w] # "free"
  BY <1>1 DEF OneEnding
<1>3. GroupHoldsWeak
  BY <1>1 DEF GroupHoldsWeak
<1>4. strong = Cardinality(Owners) /\ strong >= 1
  BY <1>1, CountsFinite, CountOfMember DEF StrongCounts
<1>5. weak = Cardinality(Watchers) + 1
  BY <1>1, <1>3 DEF WeakCounts
<1> QED BY <1>1, <1>2, <1>3, <1>4, <1>5

LEMMA UnrefInv ==
    ASSUME IInv, NEW p \in StrongPtrs, Unref(p)
    PROVE  IInv'
<1> USE DEF IInv, TypeOK
<1>1. /\ life = "alive" /\ p \in Owners /\ Ending = {}
      /\ \A w \in WeakPtrs : wref[w] # "free"
      /\ GroupHoldsWeak
      /\ strong = Cardinality(Owners) /\ strong >= 1
  BY HeldAlone DEF Unref
<1>2. /\ Owners' = Owners \ {p} /\ Watchers' = Watchers /\ Locking' = Locking
      /\ Cardinality(Owners') = Cardinality(Owners) - 1
  <2>1. Owners' = Owners \ {p} /\ Watchers' = Watchers /\ Locking' = Locking
    BY DEF Unref, Go, Owners, Watchers, Locking, RefStates
  <2> QED BY <1>1, <2>1, CountsFinite, CountOfMember
<1>3. TypeOK' /\ ~trapped'
  BY <1>1 DEF Unref, Go, Verify, RefStates
<1>4. StrongCounts'
  BY <1>1, <1>2 DEF Unref, StrongCounts
<1>5. GroupHoldsWeak' /\ OneEnding'
  <2>1. CASE strong = 1
    <3>1. Owners = {p}
      BY <1>1, <2>1, CountsFinite, CountOfMember
    <3>2. Owners' = {} /\ ref'[p] = "destroy"
      BY <1>2, <2>1, <3>1 DEF Unref, Go
    <3>3. Ending' = {p}
      BY <1>1, <2>1 DEF Unref, Go, Ending, RefStates
    <3>4. OneEnding'
      BY <1>1, <3>2, <3>3 DEF Unref, OneEnding
    <3> QED BY <3>2, <3>4 DEF GroupHoldsWeak
  <2>2. CASE strong # 1
    <3>1. Owners # {p}
      BY <1>1, <2>2, CountsFinite, CountOfMember
    <3>2. Owners' # {}
      BY <1>1, <1>2, <3>1
    <3>3. Ending' = {}
      BY <1>1, <2>2 DEF Unref, Go, Ending, RefStates
    <3>4. OneEnding'
      BY <1>1, <3>3 DEF Unref, OneEnding
    <3> QED BY <3>2, <3>4 DEF GroupHoldsWeak
  <2> QED BY <2>1, <2>2
<1>6. WeakCounts'
  BY <1>1, <1>2, <1>5 DEF Unref, WeakCounts
<1>7. LifeMatches'
  BY <1>1, <1>5 DEF Unref, Go, LifeMatches
<1>8. LocksWatched'
  BY <1>2 DEF Unref, LocksWatched
<1> QED BY <1>3, <1>4, <1>5, <1>6, <1>7, <1>8

\* A pointer in the destruction sequence is the only one, and nobody owns.
LEMMA EndingAlone ==
    ASSUME IInv, NEW p \in StrongPtrs, ref[p] \in {"destroy", "weakUnref", "free"}
    PROVE  /\ Ending = {p} /\ Owners = {}
           /\ life = IF ref[p] = "destroy" THEN "alive" ELSE "destructed"
           /\ ref[p] = "free" => Watchers = {}
           /\ \A w \in WeakPtrs : wref[w] # "free"
<1> USE DEF IInv, TypeOK
<1>1. p \in Ending
  BY DEF Ending
<1>2. /\ Ending = {p} /\ Owners = {}
      /\ life = IF ref[p] = "destroy" THEN "alive" ELSE "destructed"
      /\ ref[p] = "free" => Watchers = {}
  BY <1>1 DEF OneEnding
<1>3. \A w \in WeakPtrs : wref[w] # "free"
  BY <1>1 DEF OneEnding
<1> QED BY <1>2, <1>3

LEMMA RunDestructorInv ==
    ASSUME IInv, NEW p \in StrongPtrs, RunDestructor(p)
    PROVE  IInv'
<1> USE DEF IInv, TypeOK
<1>1. /\ Ending = {p} /\ Owners = {} /\ life = "alive"
      /\ \A w \in WeakPtrs : wref[w] # "free"
  BY EndingAlone DEF RunDestructor
<1>2. /\ Owners' = {} /\ Watchers' = Watchers /\ Ending' = {p}
      /\ Locking' = Locking /\ wref' = wref /\ ref'[p] = "weakUnref"
  BY <1>1 DEF RunDestructor, Go, Owners, Watchers, Ending, Locking, RefStates
<1>3. TypeOK' /\ ~trapped'
  BY DEF RunDestructor, Go, RefStates
<1>4. GroupHoldsWeak /\ GroupHoldsWeak'
  BY <1>2 DEF RunDestructor, GroupHoldsWeak
<1>5. StrongCounts' /\ WeakCounts'
  BY <1>1, <1>2, <1>4 DEF RunDestructor, StrongCounts, WeakCounts
<1>6. OneEnding'
  BY <1>1, <1>2 DEF RunDestructor, OneEnding
<1>7. \A q \in StrongPtrs : ref'[q] \in {"null", "locking", "cas"} \/ q = p
  BY <1>1, <1>2 DEF RunDestructor, Go, Owners, Ending, RefStates
<1>8. LifeMatches'
  BY <1>2, <1>7 DEF RunDestructor, LifeMatches
<1>9. LocksWatched'
  BY <1>2 DEF RunDestructor, LocksWatched
<1> QED BY <1>3, <1>5, <1>6, <1>8, <1>9

LEMMA DestructWeakUnrefInv ==
    ASSUME IInv, NEW p \in StrongPtrs, DestructWeakUnref(p)
    PROVE  IInv'
<1> USE DEF IInv, TypeOK
<1>1. /\ Ending = {p} /\ Owners = {} /\ life = "destructed"
      /\ \A w \in WeakPtrs : wref[w] # "free"
  BY EndingAlone DEF DestructWeakUnref
<1>2. GroupHoldsWeak /\ weak = Cardinality(Watchers) + 1 /\ Cardinality(Watchers) \in Nat
  BY <1>1, CountsFinite DEF DestructWeakUnref, GroupHoldsWeak, WeakCounts
<1>3. /\ Owners' = {} /\ Watchers' = Watchers /\ Locking' = Locking
      /\ wref' = wref /\ life' = "destructed"
  BY <1>1 DEF DestructWeakUnref, Go, Owners, Watchers, Locking, RefStates
<1>4. \A q \in StrongPtrs :
        /\ q # p => ref'[q] \in {"null", "locking", "cas"}
        /\ q = p => ref'[q] = IF weak = 1 THEN "free" ELSE "null"
  BY <1>1 DEF DestructWeakUnref, Go, Owners, Ending, RefStates
<1>5. TypeOK' /\ ~trapped'
  BY <1>2 DEF DestructWeakUnref, Go, Verify, RefStates
<1>6. ~GroupHoldsWeak'
  BY <1>3, <1>4 DEF GroupHoldsWeak
<1>7. StrongCounts' /\ WeakCounts'
  BY <1>1, <1>2, <1>3, <1>6 DEF DestructWeakUnref, StrongCounts, WeakCounts
<1>8. weak = 1 => Watchers = {}
  BY <1>2, CountsFinite, FS_EmptySet
<1>9. Ending' = IF weak = 1 THEN {p} ELSE {}
  BY <1>4 DEF Ending
<1>10. OneEnding'
  BY <1>1, <1>3, <1>4, <1>8, <1>9 DEF OneEnding
<1>11. LifeMatches'
  BY <1>3, <1>4 DEF LifeMatches
<1>12. LocksWatched'
  BY <1>3 DEF DestructWeakUnref, LocksWatched
<1> QED BY <1>5, <1>7, <1>10, <1>11, <1>12

LEMMA DeallocateInv ==
    ASSUME IInv, NEW p \in StrongPtrs, Deallocate(p)
    PROVE  IInv'
<1> USE DEF IInv, TypeOK
<1>1. /\ Ending = {p} /\ Owners = {} /\ Watchers = {}
      /\ \A w \in WeakPtrs : wref[w] # "free"
  BY EndingAlone DEF Deallocate
<1>2. /\ Owners' = {} /\ Watchers' = {} /\ Ending' = {} /\ Locking' = Locking
      /\ wref' = wref
  BY <1>1 DEF Deallocate, Go, Owners, Watchers, Ending, Locking, RefStates
<1>3. TypeOK' /\ ~trapped'
  BY DEF Deallocate, Go, RefStates
<1>4. StrongCounts' /\ WeakCounts'
  BY DEF Deallocate, StrongCounts, WeakCounts
<1>5. OneEnding'
  BY <1>1, <1>2 DEF OneEnding
<1>6. \A q \in StrongPtrs : ref'[q] \in {"null", "locking", "cas"}
  BY <1>1 DEF Deallocate, Go, Owners, Ending, RefStates
<1>7. LifeMatches'
  BY <1>1, <1>2, <1>6 DEF Deallocate, LifeMatches
<1>8. LocksWatched'
  BY <1>1, <1>2 DEF Deallocate, LocksWatched
<1> QED BY <1>3, <1>4, <1>5, <1>7, <1>8

\* While somebody watches, the block is there and nobody is freeing it.
LEMMA WatchedAlive ==
    ASSUME IInv, NEW w \in WeakPtrs, wref[w] = "held"
    PROVE  /\ w \in Watchers /\ life \in {"alive", "destructed"}
           /\ \A v \in WeakPtrs : wref[v] # "free"
           /\ \A p \in StrongPtrs : ref[p] \notin {"free", "building"}
           /\ weak = Cardinality(Watchers) + (IF GroupHoldsWeak THEN 1 ELSE 0)
           /\ weak >= 1
           /\ strong = Cardinality(Owners)
<1> USE DEF IInv, TypeOK
<1>1. w \in Watchers
  BY DEF Watchers
<1>2. \A p \in StrongPtrs : ref[p] \notin {"free", "building"}
  BY <1>1, EndingAlone, BuildingAlone
<1>3. life \in {"alive", "destructed"}
  BY <1>1, <1>2 DEF LifeMatches
<1>4. \A v \in WeakPtrs : wref[v] # "free"
  BY <1>1 DEF OneEnding
<1>5. weak = Cardinality(Watchers) + (IF GroupHoldsWeak THEN 1 ELSE 0)
  BY <1>3 DEF WeakCounts
<1>6. weak >= 1
  <2>1. Cardinality(Watchers) \in Nat /\ Cardinality(Watchers) >= 1
    BY <1>1, CountsFinite, CountOfMember
  <2> QED BY <1>5, <2>1
<1>7. strong = Cardinality(Owners)
  BY <1>3 DEF StrongCounts
<1> QED BY <1>1, <1>2, <1>3, <1>4, <1>5, <1>6, <1>7

\* Adding a watcher, whoever vouches for the block.
LEMMA WeakRefFromInv ==
    ASSUME IInv, NEW w \in WeakPtrs, wref[w] = "null", WeakRefFrom(w),
           life \in {"alive", "destructed"}, weak >= 1,
           \A v \in WeakPtrs : wref[v] # "free",
           \A p \in StrongPtrs : ref[p] # "free"
    PROVE  IInv'
<1> USE DEF IInv, TypeOK
<1>1. /\ Owners' = Owners /\ Ending' = Ending /\ Locking' = Locking
      /\ Watchers' = Watchers \cup {w} /\ w \notin Watchers
      /\ GroupHoldsWeak' <=> GroupHoldsWeak
  BY DEF WeakRefFrom, WGo, Owners, Ending, Locking, Watchers, GroupHoldsWeak
<1>2. TypeOK' /\ ~trapped'
  BY DEF WeakRefFrom, WGo, Verify
<1>3. Cardinality(Watchers') = Cardinality(Watchers) + 1
  BY <1>1, CountsFinite, FS_AddElement
<1>4. StrongCounts' /\ WeakCounts'
  BY <1>1, <1>3, CountsFinite DEF WeakRefFrom, StrongCounts, WeakCounts
<1>5. OneEnding'
  BY <1>1 DEF WeakRefFrom, WGo, OneEnding, Ending
<1>6. \A p \in StrongPtrs : ref[p] # "building"
  BY DEF LifeMatches
<1>7. LifeMatches'
  BY <1>1, <1>6 DEF WeakRefFrom, WGo, LifeMatches
<1>8. LocksWatched'
  BY <1>1 DEF WeakRefFrom, LocksWatched
<1> QED BY <1>2, <1>4, <1>5, <1>7, <1>8

LEMMA MakeWeakInv ==
    ASSUME IInv, NEW w \in WeakPtrs, NEW p \in StrongPtrs, MakeWeak(w, p)
    PROVE  IInv'
<1>1. /\ life = "alive" /\ weak = Cardinality(Watchers) + 1 /\ Ending = {}
      /\ \A v \in WeakPtrs : wref[v] # "free"
  BY HeldAlone DEF MakeWeak
<1>2. \A q \in StrongPtrs : ref[q] # "free"
  BY <1>1 DEF Ending
<1>3. weak >= 1
  BY <1>1, CountsFinite
<1> QED BY <1>1, <1>2, <1>3, WeakRefFromInv DEF MakeWeak

LEMMA CopyWeakInv ==
    ASSUME IInv, NEW w \in WeakPtrs, NEW v \in WeakPtrs, CopyWeak(w, v)
    PROVE  IInv'
BY WatchedAlive, WeakRefFromInv DEF CopyWeak

LEMMA MoveWeakInv ==
    ASSUME IInv, NEW w \in WeakPtrs, NEW v \in WeakPtrs, MoveWeak(w, v)
    PROVE  IInv'
<1> USE DEF IInv, TypeOK
<1>1. /\ v \in Watchers /\ life \in {"alive", "destructed"}
      /\ \A u \in WeakPtrs : wref[u] # "free"
      /\ \A p \in StrongPtrs : ref[p] \notin {"free", "building"}
  BY WatchedAlive DEF MoveWeak
<1>2. /\ Owners' = Owners /\ Ending' = Ending /\ Locking' = Locking
      /\ Watchers' = (Watchers \ {v}) \cup {w} /\ w \notin Watchers
      /\ GroupHoldsWeak' <=> GroupHoldsWeak
  BY DEF MoveWeak, Owners, Ending, Locking, Watchers, GroupHoldsWeak
<1>3. TypeOK' /\ ~trapped'
  BY DEF MoveWeak
<1>4. Cardinality(Watchers') = Cardinality(Watchers)
  <2>1. /\ IsFiniteSet(Watchers \ {v})
        /\ Cardinality(Watchers \ {v}) = Cardinality(Watchers) - 1
    BY <1>1, CountsFinite, CountOfMember
  <2>2. Cardinality((Watchers \ {v}) \cup {w}) = Cardinality(Watchers \ {v}) + 1
    BY <1>2, <2>1, FS_AddElement
  <2> QED BY <1>2, <2>1, <2>2, CountsFinite
<1>5. StrongCounts' /\ WeakCounts'
  BY <1>2, <1>4 DEF MoveWeak, StrongCounts, WeakCounts
<1>6. OneEnding' /\ LifeMatches'
  BY <1>1, <1>2 DEF MoveWeak, OneEnding, LifeMatches
<1>7. LocksWatched'
  BY <1>2 DEF MoveWeak, NotInLock, LocksWatched, Locking
<1> QED BY <1>3, <1>5, <1>6, <1>7

LEMMA WeakUnrefInv ==
    ASSUME IInv, NEW w \in WeakPtrs, WeakUnref(w)
    PROVE  IInv'
<1> USE DEF IInv, TypeOK
<1>1. /\ w \in Watchers /\ life \in {"alive", "destructed"}
      /\ \A v \in WeakPtrs : wref[v] # "free"
      /\ \A p \in StrongPtrs : ref[p] \notin {"free", "building"}
      /\ weak = Cardinality(Watchers) + (IF GroupHoldsWeak THEN 1 ELSE 0)
      /\ weak >= 1
  BY WatchedAlive DEF WeakUnref
<1>2. /\ Owners' = Owners /\ Ending' = Ending /\ Locking' = Locking
      /\ Watchers' = Watchers \ {w} /\ life' = life
      /\ GroupHoldsWeak' <=> GroupHoldsWeak
  BY DEF WeakUnref, WGo, Owners, Ending, Locking, Watchers, GroupHoldsWeak
<1>3. TypeOK' /\ ~trapped'
  BY <1>1 DEF WeakUnref, WGo, Verify
<1>4. Cardinality(Watchers') = Cardinality(Watchers) - 1
  BY <1>1, <1>2, CountsFinite, CountOfMember
<1>5. StrongCounts' /\ WeakCounts'
  BY <1>1, <1>2, <1>4, CountsFinite DEF WeakUnref, StrongCounts, WeakCounts
<1>6. weak = 1 => ~GroupHoldsWeak /\ Watchers' = {}
  <2>1. /\ Cardinality(Watchers) \in Nat /\ Cardinality(Watchers) >= 1
        /\ Cardinality(Watchers) = 1 => Watchers = {w}
    BY <1>1, CountsFinite, CountOfMember
  <2>2. weak = 1 => ~GroupHoldsWeak /\ Cardinality(Watchers) = 1
    BY <1>1, <2>1
  <2> QED BY <1>2, <2>1, <2>2
<1>7. weak = 1 => /\ Owners = {} /\ Ending = {} /\ life = "destructed"
  <2> SUFFICES ASSUME weak = 1
               PROVE  Owners = {} /\ Ending = {} /\ life = "destructed"
    OBVIOUS
  <2>1. Owners = {} /\ Ending = {}
    BY <1>1, <1>6 DEF GroupHoldsWeak, Ending
  <2> QED BY <1>1, <1>6, <2>1 DEF LifeMatches
<1>8. \A v \in WeakPtrs : wref'[v] = "free" => v = w /\ weak = 1
  BY <1>1 DEF WeakUnref, WGo
<1>9. OneEnding'
  BY <1>1, <1>2, <1>6, <1>7, <1>8 DEF WeakUnref, OneEnding
<1>10. LifeMatches'
  BY <1>1, <1>2 DEF WeakUnref, LifeMatches
<1>11. LocksWatched'
  BY <1>2 DEF WeakUnref, NotInLock, LocksWatched, Locking
<1> QED BY <1>3, <1>5, <1>9, <1>10, <1>11

LEMMA WeakDeallocateInv ==
    ASSUME IInv, NEW w \in WeakPtrs, WeakDeallocate(w)
    PROVE  IInv'
<1> USE DEF IInv, TypeOK
<1>1. /\ Owners = {} /\ Ending = {} /\ Watchers = {} /\ life = "destructed"
      /\ \A v \in WeakPtrs : wref[v] = "free" => v = w
  BY DEF WeakDeallocate, OneEnding
<1>2. /\ Owners' = {} /\ Ending' = {} /\ Watchers' = {} /\ Locking' = Locking
      /\ \A v \in WeakPtrs : wref'[v] # "free"
  BY <1>1 DEF WeakDeallocate, WGo, Owners, Ending, Watchers, Locking
<1>3. TypeOK' /\ ~trapped'
  BY DEF WeakDeallocate, WGo
<1>4. StrongCounts' /\ WeakCounts'
  BY DEF WeakDeallocate, StrongCounts, WeakCounts
<1>5. OneEnding'
  BY <1>2 DEF OneEnding
<1>6. \A p \in StrongPtrs : ref[p] \in {"null", "locking", "cas"}
  BY <1>1 DEF Owners, Ending, RefStates
<1>7. LifeMatches'
  BY <1>2, <1>6 DEF WeakDeallocate, LifeMatches
<1>8. LocksWatched'
  BY <1>1, <1>2 DEF WeakDeallocate, LocksWatched
<1> QED BY <1>3, <1>4, <1>5, <1>7, <1>8

\* Steps of a Lock that change no count leave every conjunct but the types
\* and LocksWatched as it was.
LEMMA LockStepInv ==
    ASSUME IInv, NEW p \in StrongPtrs, TypeOK', ~trapped',
           UNCHANGED <<strong, weak, life, wref>>,
           ref[p] \in {"null", "locking", "cas"},
           ref'[p] \in {"null", "locking", "cas"},
           \A q \in StrongPtrs : q # p => ref'[q] = ref[q]
    PROVE  StrongCounts' /\ WeakCounts' /\ OneEnding' /\ LifeMatches'
<1> USE DEF IInv, TypeOK
<1>1. Owners' = Owners /\ Ending' = Ending /\ Watchers' = Watchers
  BY DEF Owners, Ending, Watchers
<1>2. GroupHoldsWeak' <=> GroupHoldsWeak
  BY <1>1 DEF GroupHoldsWeak
<1>3. StrongCounts' /\ WeakCounts'
  BY <1>1, <1>2 DEF StrongCounts, WeakCounts
<1>4. OneEnding' /\ LifeMatches'
  BY <1>1, <1>2 DEF OneEnding, LifeMatches, Ending
<1> QED BY <1>3, <1>4

LEMMA LockLoadInv ==
    ASSUME IInv, NEW p \in StrongPtrs, NEW w \in WeakPtrs, LockLoad(p, w)
    PROVE  IInv'
<1> USE DEF IInv, TypeOK
<1>1. TypeOK' /\ ~trapped'
  BY DEF LockLoad, Go, Verify, RefStates
<1>2. StrongCounts' /\ WeakCounts' /\ OneEnding' /\ LifeMatches'
  BY <1>1, LockStepInv DEF LockLoad, Go
<1>3. LocksWatched'
  BY DEF LockLoad, Go, LocksWatched, Locking, Watchers
<1> QED BY <1>1, <1>2, <1>3

\* A Lock in progress was called on a weak pointer that holds the block.
LEMMA LockingWatched ==
    ASSUME IInv, NEW p \in StrongPtrs, ref[p] \in {"locking", "cas"}
    PROVE  src[p] \in WeakPtrs /\ wref[src[p]] = "held"
BY DEF IInv, LocksWatched, Locking, Watchers

LEMMA LockVerifyWeakInv ==
    ASSUME IInv, NEW p \in StrongPtrs, LockVerifyWeak(p)
    PROVE  IInv'
<1> USE DEF IInv, TypeOK
<1>1. weak >= 1
  BY LockingWatched, WatchedAlive DEF LockVerifyWeak
<1>2. TypeOK' /\ ~trapped'
  BY <1>1 DEF LockVerifyWeak, Go, Verify, RefStates
<1>3. StrongCounts' /\ WeakCounts' /\ OneEnding' /\ LifeMatches'
  BY <1>2, LockStepInv DEF LockVerifyWeak, Go
<1>4. LocksWatched'
  BY DEF LockVerifyWeak, Go, LocksWatched, Locking, Watchers
<1> QED BY <1>2, <1>3, <1>4

\* A compare-and-swap that succeeds found an owner at that very moment.
LEMMA LockFindsOwner ==
    ASSUME IInv, NEW p \in StrongPtrs, ref[p] = "cas", LockSucceeds(p)
    PROVE  /\ Owners # {} /\ p \notin Owners /\ life = "alive"
           /\ strong = Cardinality(Owners)
<1> USE DEF IInv, TypeOK
<1>1. life \in {"alive", "destructed"} /\ strong = Cardinality(Owners)
  BY LockingWatched, WatchedAlive
<1>2. Owners # {}
  BY <1>1, FS_EmptySet DEF LockSucceeds
<1>3. life = "alive"
  BY <1>1, <1>2 DEF LifeMatches
<1>4. p \notin Owners
  BY DEF Owners
<1> QED BY <1>1, <1>2, <1>3, <1>4

LEMMA LockCasInv ==
    ASSUME IInv, NEW p \in StrongPtrs, LockCas(p)
    PROVE  IInv'
<1> USE DEF IInv, TypeOK, LockCas
<1>1. CASE LockExpired(p)
  <2>1. TypeOK' /\ ~trapped'
    BY <1>1 DEF LockExpired, Go, RefStates
  <2>2. StrongCounts' /\ WeakCounts' /\ OneEnding' /\ LifeMatches'
    BY <1>1, <2>1, LockStepInv DEF LockExpired, Go
  <2>3. LocksWatched'
    BY <1>1 DEF LockExpired, Go, LocksWatched, Locking, Watchers
  <2> QED BY <2>1, <2>2, <2>3
<1>2. CASE LockRetries(p)
  <2>1. TypeOK' /\ ~trapped'
    BY <1>2 DEF LockRetries, RefStates
  <2>2. StrongCounts' /\ WeakCounts' /\ OneEnding' /\ LifeMatches'
    BY <1>2, <2>1, LockStepInv DEF LockRetries
  <2>3. LocksWatched'
    BY <1>2 DEF LockRetries, LocksWatched, Locking, Watchers
  <2> QED BY <2>1, <2>2, <2>3
<1>3. CASE LockSucceeds(p)
  <2>1. /\ Owners # {} /\ p \notin Owners /\ life = "alive"
        /\ strong = Cardinality(Owners)
    BY <1>3, LockFindsOwner
  <2>2. /\ Owners' = Owners \cup {p} /\ Ending' = Ending /\ Watchers' = Watchers
        /\ Locking' = Locking \ {p}
    BY <1>3 DEF LockSucceeds, Go, Owners, Ending, Watchers, Locking, RefStates
  <2>3. TypeOK' /\ ~trapped'
    BY <1>3 DEF LockSucceeds, Go, RefStates
  <2>4. Cardinality(Owners') = Cardinality(Owners) + 1
    BY <2>1, <2>2, CountsFinite, FS_AddElement
  <2>5. GroupHoldsWeak /\ GroupHoldsWeak'
    BY <2>1, <2>2 DEF GroupHoldsWeak
  <2>6. StrongCounts' /\ WeakCounts'
    BY <1>3, <2>1, <2>2, <2>4, <2>5 DEF LockSucceeds, StrongCounts, WeakCounts
  <2>7. Ending = {} /\ \A w \in WeakPtrs : wref[w] # "free"
    BY <2>1 DEF OneEnding
  <2>8. OneEnding'
    BY <2>2, <2>7 DEF OneEnding
  <2>9. \A q \in StrongPtrs : ref[q] # "building"
    BY <2>1 DEF LifeMatches
  <2>10. LifeMatches'
    BY <1>3, <2>1, <2>2, <2>5, <2>9 DEF LockSucceeds, Go, LifeMatches
  <2>11. LocksWatched'
    BY <1>3, <2>2 DEF LockSucceeds, LocksWatched
  <2> QED BY <2>3, <2>6, <2>8, <2>10, <2>11
<1> QED BY <1>1, <1>2, <1>3

LEMMA StutterInv == IInv /\ UNCHANGED vars => IInv'
<1> SUFFICES ASSUME IInv, UNCHANGED vars PROVE IInv'
  OBVIOUS
<1>1. /\ Owners' = Owners /\ Ending' = Ending /\ Watchers' = Watchers
      /\ Locking' = Locking /\ GroupHoldsWeak' = GroupHoldsWeak
  BY DEF vars, Owners, Ending, Watchers, Locking, GroupHoldsWeak
<1> QED BY <1>1 DEF vars, IInv, TypeOK, StrongCounts, WeakCounts, OneEnding,
                    LifeMatches, LocksWatched

LEMMA NextInv == IInv /\ [Next]_vars => IInv'
<1> SUFFICES ASSUME IInv, Next PROVE IInv'
  BY StutterInv
<1>1. ASSUME NEW p \in StrongPtrs, Allocate(p) \/ Unref(p) \/ FinishStrong(p)
      PROVE  IInv'
  BY <1>1, AllocateInv, UnrefInv, ConstructInv, ConstructThrowsInv,
     RefVerifyWeakInv, RunDestructorInv, DestructWeakUnrefInv, DeallocateInv,
     LockVerifyWeakInv, LockCasInv DEF FinishStrong
<1>2. ASSUME NEW p \in StrongPtrs, NEW q \in StrongPtrs,
             CopyRef(p, q) \/ MoveRef(p, q)
      PROVE  IInv'
  BY <1>2, CopyRefInv, MoveRefInv
<1>3. ASSUME NEW w \in WeakPtrs, WeakUnref(w) \/ WeakDeallocate(w)
      PROVE  IInv'
  BY <1>3, WeakUnrefInv, WeakDeallocateInv
<1>4. ASSUME NEW w \in WeakPtrs, NEW v \in WeakPtrs,
             CopyWeak(w, v) \/ MoveWeak(w, v)
      PROVE  IInv'
  BY <1>4, CopyWeakInv, MoveWeakInv
<1>5. ASSUME NEW w \in WeakPtrs, NEW p \in StrongPtrs,
             MakeWeak(w, p) \/ LockLoad(p, w)
      PROVE  IInv'
  BY <1>5, MakeWeakInv, LockLoadInv
<1> QED BY <1>1, <1>2, <1>3, <1>4, <1>5 DEF Next

\* The counters count what they should, in every reachable state.
THEOREM Invariance == Spec => []IInv
<1>1. Init => IInv
  BY InitInv
<1>2. IInv /\ [Next]_vars => IInv'
  BY NextInv
<1> QED BY <1>1, <1>2, PTL DEF Spec

THEOREM TypeCorrect == Spec => []TypeOK
<1>1. IInv => TypeOK
  BY DEF IInv
<1> QED BY <1>1, Invariance, PTL

\* No VERIFY of the reference counter fails, with any number of pointers.
THEOREM VerifiesHold == Spec => []NoTrap
<1>1. IInv => NoTrap
  BY DEF IInv, NoTrap
<1> QED BY <1>1, Invariance, PTL

\* A strong pointer refers to an object that is alive.
THEOREM StrongPtrsSafe == Spec => []HeldIsAlive
<1>1. IInv => HeldIsAlive
  <2> SUFFICES ASSUME IInv, NEW p \in StrongPtrs, ref[p] \in {"copied", "held"}
               PROVE  life = "alive" /\ \A q \in StrongPtrs : ref[q] # "destroy"
    BY DEF HeldIsAlive
  <2>1. life = "alive" /\ Ending = {}
    BY HeldAlone
  <2> QED BY <2>1 DEF Ending
<1> QED BY <1>1, Invariance, PTL

\* Returned memory is referred to by nobody, and is returned by one operation.
THEOREM MemorySafe == Spec => []NoUseAfterFree
<1> DEFINE Freeing == {p \in StrongPtrs : ref[p] = "free"}
           WFreeing == {w \in WeakPtrs : wref[w] = "free"}
<1>1. ASSUME IInv, life = "none"
      PROVE  /\ \A p \in StrongPtrs : ref[p] = "null"
             /\ \A w \in WeakPtrs : wref[w] = "null"
  <2>1. /\ Owners = {} /\ Ending = {} /\ Watchers = {}
        /\ \A w \in WeakPtrs : wref[w] # "free"
    BY <1>1 DEF IInv, LifeMatches
  <2>2. Locking = {}
    BY <1>1, <2>1 DEF IInv, LocksWatched
  <2> QED BY <1>1, <2>1, <2>2 DEF IInv, TypeOK, RefStates, Owners, Ending,
                                  Watchers, Locking
<1>2. ASSUME IInv
      PROVE  Cardinality(Freeing) + Cardinality(WFreeing) <= 1
  <2>1. CASE Freeing # {}
    <3>1. PICK p \in StrongPtrs : ref[p] = "free"
      BY <2>1
    <3>2. Freeing = {p} /\ WFreeing = {}
      BY <1>2, <3>1, EndingAlone DEF Ending
    <3>3. Cardinality(Freeing) = 1 /\ Cardinality(WFreeing) = 0
      BY <3>2, FS_Singleton, FS_EmptySet
    <3> QED BY <3>3
  <2>2. CASE Freeing = {} /\ WFreeing # {}
    <3>1. PICK w \in WeakPtrs : wref[w] = "free"
      BY <2>2
    <3>2. WFreeing = {w}
      BY <1>2, <3>1 DEF IInv, OneEnding
    <3>3. Cardinality(Freeing) = 0 /\ Cardinality(WFreeing) = 1
      BY <2>2, <3>2, FS_Singleton, FS_EmptySet
    <3> QED BY <3>3
  <2>3. CASE Freeing = {} /\ WFreeing = {}
    <3>1. Cardinality(Freeing) = 0 /\ Cardinality(WFreeing) = 0
      BY <2>3, FS_EmptySet
    <3> QED BY <3>1
  <2> QED BY <2>1, <2>2, <2>3
<1>3. IInv => NoUseAfterFree
  BY <1>1, <1>2 DEF NoUseAfterFree
<1> QED BY <1>3, Invariance, PTL

\* An object is destructed once and freed after it.
THEOREM LifeInOrder == Spec => LifeOrder
<1>1. IInv /\ [Next]_vars =>
        [/\ life' # life => life' \in NextLife(life)
         /\ DestructorRuns => life = "alive"]_vars
  <2> SUFFICES ASSUME IInv, Next
               PROVE  /\ life' # life => life' \in NextLife(life)
                      /\ DestructorRuns => life = "alive"
    OBVIOUS
  <2>1. \A p \in StrongPtrs : ref[p] = "destroy" => life = "alive"
    BY EndingAlone
  <2>2. DestructorRuns => life = "alive"
    BY <2>1 DEF DestructorRuns
  <2>3. ASSUME NEW p \in StrongPtrs, Allocate(p) \/ Unref(p) \/ FinishStrong(p)
        PROVE  life' # life => life' \in NextLife(life)
    <3>1. /\ ref[p] = "building" => life = "building"
          /\ ref[p] = "destroy" => life = "alive"
          /\ ref[p] = "free" => life = "destructed"
      BY BuildingAlone, EndingAlone
    <3> QED BY <2>3, <3>1
            DEF NextLife, FinishStrong, Allocate, Unref, Construct,
                ConstructThrows, RefVerifyWeak, RunDestructor,
                DestructWeakUnref, Deallocate, LockVerifyWeak, LockCas
  <2>4. ASSUME NEW w \in WeakPtrs, WeakUnref(w) \/ WeakDeallocate(w)
        PROVE  life' # life => life' \in NextLife(life)
    <3>1. wref[w] = "free" => life = "destructed"
      BY DEF IInv, OneEnding
    <3> QED BY <2>4, <3>1 DEF NextLife, WeakUnref, WeakDeallocate
  <2>5. ASSUME NEW p \in StrongPtrs, NEW q \in StrongPtrs,
               CopyRef(p, q) \/ MoveRef(p, q)
        PROVE  life' = life
    BY <2>5 DEF CopyRef, MoveRef
  <2>6. ASSUME NEW w \in WeakPtrs, NEW v \in WeakPtrs,
               CopyWeak(w, v) \/ MoveWeak(w, v)
        PROVE  life' = life
    BY <2>6 DEF CopyWeak, MoveWeak, WeakRefFrom
  <2>7. ASSUME NEW w \in WeakPtrs, NEW p \in StrongPtrs,
               MakeWeak(w, p) \/ LockLoad(p, w)
        PROVE  life' = life
    BY <2>7 DEF MakeWeak, LockLoad, WeakRefFrom
  <2> QED BY <2>2, <2>3, <2>4, <2>5, <2>6, <2>7 DEF Next
<1> QED BY <1>1, Invariance, PTL DEF Spec, LifeOrder

-----------------------------------------------------------------------------
(* Refinement: each step of the counters is a step of SharedObject or      *)
(* changes nothing there.                                                  *)

LEMMA InitRefines == Init => Abstract!AbsInit
BY DEF Init, Abstract!AbsInit, AbsLife, Owners, Watchers

LEMMA StrongStepRefines ==
    ASSUME IInv, NEW p \in StrongPtrs, Allocate(p) \/ Unref(p) \/ FinishStrong(p)
    PROVE  [Abstract!AbsNext]_(Abstract!absVars)
<1> USE DEF IInv, TypeOK
<1>1. CASE Allocate(p)
  <2>1. Owners = {} /\ Watchers = {} /\ Ending = {}
    BY <1>1 DEF Allocate, LifeMatches
  <2>2. Owners' = {p} /\ Watchers' = Watchers
    BY <1>1, <2>1 DEF Allocate, Go, Owners, Watchers
  <2>3. Abstract!Create(p)
    BY <1>1, <2>2 DEF Allocate, Abstract!Create, AbsLife
  <2> QED BY <2>3 DEF Abstract!AbsNext
<1>2. CASE Construct(p)
  <2>1. life = "building" /\ Owners = {p}
    BY <1>2, BuildingAlone DEF Construct
  <2>2. Owners' = Owners /\ Watchers' = Watchers
    BY <1>2 DEF Construct, Go, Owners, Watchers
  <2>3. Abstract!Built
    BY <1>2, <2>1, <2>2 DEF Construct, Abstract!Built, AbsLife
  <2> QED BY <2>3 DEF Abstract!AbsNext
<1>3. CASE ConstructThrows(p)
  <2>1. life = "building" /\ Owners = {p}
    BY <1>3, BuildingAlone DEF ConstructThrows
  <2>2. Owners' = {} /\ Watchers' = Watchers
    BY <1>3, <2>1 DEF ConstructThrows, Go, Owners, Watchers
  <2>3. Abstract!BuildFails
    BY <1>3, <2>1, <2>2 DEF ConstructThrows, Abstract!BuildFails, AbsLife
  <2> QED BY <2>3 DEF Abstract!AbsNext
<1>4. CASE Unref(p)
  <2>1. /\ life = "alive" /\ p \in Owners /\ strong = Cardinality(Owners)
        /\ strong = 1 <=> Owners = {p}
    BY <1>4, HeldAlone, CountsFinite, CountOfMember DEF Unref
  <2>2. Owners' = Owners \ {p} /\ Watchers' = Watchers /\ life' = life
    BY <1>4 DEF Unref, Go, Owners, Watchers
  <2>3. Abstract!Leave(p)
    BY <2>1, <2>2 DEF Abstract!Leave, AbsLife
  <2> QED BY <2>3 DEF Abstract!AbsNext
<1>5. CASE RunDestructor(p)
  <2>1. life = "alive" /\ Owners = {}
    BY <1>5, EndingAlone DEF RunDestructor
  <2>2. Owners' = Owners /\ Watchers' = Watchers
    BY <1>5 DEF RunDestructor, Go, Owners, Watchers
  <2>3. Abstract!Destroy
    BY <1>5, <2>1, <2>2 DEF RunDestructor, Abstract!Destroy, AbsLife
  <2> QED BY <2>3 DEF Abstract!AbsNext
<1>6. CASE Deallocate(p)
  <2>1. life = "destructed" /\ Owners = {} /\ Watchers = {}
    BY <1>6, EndingAlone DEF Deallocate
  <2>2. Owners' = Owners /\ Watchers' = Watchers
    BY <1>6 DEF Deallocate, Go, Owners, Watchers
  <2>3. Abstract!Free
    BY <1>6, <2>1, <2>2 DEF Deallocate, Abstract!Free, AbsLife
  <2> QED BY <2>3 DEF Abstract!AbsNext
<1>7. CASE RefVerifyWeak(p) \/ DestructWeakUnref(p) \/ LockVerifyWeak(p)
  <2>1. Owners' = Owners /\ Watchers' = Watchers /\ life' = life
    BY <1>7 DEF RefVerifyWeak, DestructWeakUnref, LockVerifyWeak, Go, Owners,
                Watchers
  <2> QED BY <2>1 DEF Abstract!absVars, AbsLife
<1>8. CASE LockCas(p)
  <2>1. CASE LockExpired(p) \/ LockRetries(p)
    <3>1. Owners' = Owners /\ Watchers' = Watchers /\ life' = life
      BY <1>8, <2>1 DEF LockCas, LockExpired, LockRetries, Go, Owners, Watchers
    <3> QED BY <3>1 DEF Abstract!absVars, AbsLife
  <2>2. CASE LockSucceeds(p)
    <3>1. Owners # {} /\ p \notin Owners /\ life = "alive"
      BY <1>8, <2>2, LockFindsOwner DEF LockCas
    <3>2. Owners' = Owners \cup {p} /\ Watchers' = Watchers /\ life' = life
      BY <1>8, <2>2 DEF LockCas, LockSucceeds, Go, Owners, Watchers
    <3>3. Abstract!Join(p)
      BY <3>1, <3>2 DEF Abstract!Join, AbsLife
    <3> QED BY <3>3 DEF Abstract!AbsNext
  <2> QED BY <1>8, <2>1, <2>2 DEF LockCas
<1> QED BY <1>1, <1>2, <1>3, <1>4, <1>5, <1>6, <1>7, <1>8 DEF FinishStrong

LEMMA PairStepRefines ==
    ASSUME IInv, NEW p \in StrongPtrs, NEW q \in StrongPtrs,
           CopyRef(p, q) \/ MoveRef(p, q)
    PROVE  [Abstract!AbsNext]_(Abstract!absVars)
<1> USE DEF IInv, TypeOK
<1>1. life = "alive" /\ q \in Owners /\ p \notin Owners
  BY HeldAlone DEF CopyRef, MoveRef, Owners
<1>2. CASE CopyRef(p, q)
  <2>1. Owners' = Owners \cup {p} /\ Watchers' = Watchers /\ life' = life
    BY <1>2 DEF CopyRef, Go, Owners, Watchers
  <2>2. Abstract!Join(p)
    BY <1>1, <2>1 DEF Abstract!Join, AbsLife
  <2> QED BY <2>2 DEF Abstract!AbsNext
<1>3. CASE MoveRef(p, q)
  <2>1. /\ Owners' = (Owners \ {q}) \cup {p} /\ Watchers' = Watchers
        /\ life' = life
    BY <1>3 DEF MoveRef, Owners, Watchers
  <2>2. Abstract!HandOver(p, q)
    BY <1>1, <2>1 DEF Abstract!HandOver, AbsLife
  <2> QED BY <2>2 DEF Abstract!AbsNext
<1> QED BY <1>2, <1>3

LEMMA WatchStepRefines ==
    ASSUME IInv, NEW w \in WeakPtrs, wref[w] = "null", WeakRefFrom(w),
           life \in {"alive", "destructed"}, Owners # {} \/ Watchers # {}
    PROVE  [Abstract!AbsNext]_(Abstract!absVars)
<1> USE DEF IInv, TypeOK
<1>1. /\ Watchers' = Watchers \cup {w} /\ w \notin Watchers
      /\ Owners' = Owners /\ life' = life
  BY DEF WeakRefFrom, WGo, Watchers, Owners
<1>2. Abstract!Watch(w)
  BY <1>1 DEF Abstract!Watch, AbsLife
<1> QED BY <1>2 DEF Abstract!AbsNext

LEMMA WeakStepRefines ==
    ASSUME IInv, NEW w \in WeakPtrs,
           \/ WeakUnref(w) \/ WeakDeallocate(w)
           \/ \E v \in WeakPtrs : CopyWeak(w, v) \/ MoveWeak(w, v)
           \/ \E p \in StrongPtrs : MakeWeak(w, p) \/ LockLoad(p, w)
    PROVE  [Abstract!AbsNext]_(Abstract!absVars)
<1> USE DEF IInv, TypeOK
<1>1. CASE WeakUnref(w)
  <2>1. /\ w \in Watchers /\ Watchers' = Watchers \ {w}
        /\ Owners' = Owners /\ life' = life
    BY <1>1 DEF WeakUnref, WGo, Watchers, Owners
  <2>2. Abstract!Unwatch(w)
    BY <2>1 DEF Abstract!Unwatch, AbsLife
  <2> QED BY <2>2 DEF Abstract!AbsNext
<1>2. CASE WeakDeallocate(w)
  <2>1. life = "destructed" /\ Owners = {} /\ Watchers = {}
    BY <1>2 DEF WeakDeallocate, OneEnding
  <2>2. Owners' = Owners /\ Watchers' = Watchers
    BY <1>2 DEF WeakDeallocate, WGo, Owners, Watchers
  <2>3. Abstract!Free
    BY <1>2, <2>1, <2>2 DEF WeakDeallocate, Abstract!Free, AbsLife
  <2> QED BY <2>3 DEF Abstract!AbsNext
<1>3. ASSUME NEW v \in WeakPtrs, CopyWeak(w, v)
      PROVE  [Abstract!AbsNext]_(Abstract!absVars)
  BY <1>3, WatchedAlive, WatchStepRefines DEF CopyWeak
<1>4. ASSUME NEW v \in WeakPtrs, MoveWeak(w, v)
      PROVE  [Abstract!AbsNext]_(Abstract!absVars)
  <2>1. /\ v \in Watchers /\ w \notin Watchers
        /\ Watchers' = (Watchers \ {v}) \cup {w}
        /\ Owners' = Owners /\ life' = life
    BY <1>4 DEF MoveWeak, Watchers, Owners
  <2>2. Abstract!WatchOver(w, v)
    BY <2>1 DEF Abstract!WatchOver, AbsLife
  <2> QED BY <2>2 DEF Abstract!AbsNext
<1>5. ASSUME NEW p \in StrongPtrs, MakeWeak(w, p)
      PROVE  [Abstract!AbsNext]_(Abstract!absVars)
  <2>1. life = "alive" /\ p \in Owners
    BY <1>5, HeldAlone DEF MakeWeak
  <2> QED BY <1>5, <2>1, WatchStepRefines DEF MakeWeak
<1>6. ASSUME NEW p \in StrongPtrs, LockLoad(p, w)
      PROVE  [Abstract!AbsNext]_(Abstract!absVars)
  <2>1. Owners' = Owners /\ Watchers' = Watchers /\ life' = life
    BY <1>6 DEF LockLoad, Go, Owners, Watchers
  <2> QED BY <2>1 DEF Abstract!absVars, AbsLife
<1> QED BY <1>1, <1>2, <1>3, <1>4, <1>5, <1>6

\* The atomic counters implement ownership, step by step.
THEOREM Refinement == Spec => ImplementsSafely
<1>1. IInv /\ [Next]_vars => [Abstract!AbsNext]_(Abstract!absVars)
  <2>1. ASSUME IInv, Next
        PROVE  [Abstract!AbsNext]_(Abstract!absVars)
    BY <2>1, StrongStepRefines, PairStepRefines, WeakStepRefines DEF Next
  <2>2. ASSUME UNCHANGED vars
        PROVE  UNCHANGED Abstract!absVars
    BY <2>2 DEF vars, Abstract!absVars, AbsLife, Owners, Watchers
  <2> QED BY <2>1, <2>2
<1> QED BY <1>1, InitRefines, Invariance, PTL
        DEF Spec, ImplementsSafely, Abstract!AbsSafeSpec

=============================================================================
