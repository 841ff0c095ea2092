----------------------------- MODULE WeakAssign -----------------------------
(***************************************************************************)
(* RefCount with the one smart-pointer operation it leaves out: the copy   *)
(* assignment of TWeakPtr, which stores the pointer and touches no counter *)
(* (weak_ptr.h:52-57).  Nothing in lib/ assigns a TWeakPtr today.          *)
(***************************************************************************)
EXTENDS RefCount

\* w = v: w forgets what it counted, and does not count what it takes over.
AssignWeak(w, v) ==
    /\ w # v
    /\ {wref[w], wref[v]} \subseteq {"null", "held"}
    /\ NotInLock(w)
    /\ WGo(w, wref[v])
    /\ UNCHANGED <<strong, weak, life, ref, old, src, trapped>>

NextWithAssign ==
    Next \/ (~trapped /\ \E w, v \in WeakPtrs : AssignWeak(w, v))

SpecWithAssign == Init /\ [][NextWithAssign]_vars

=============================================================================
