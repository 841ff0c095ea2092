---------------------------- MODULE SharedObject ----------------------------
(***************************************************************************)
(* What TIntrusivePtr and TWeakPtr promise together about one heap object: *)
(* it is alive exactly while somebody owns it, it is destroyed once when   *)
(* the last owner lets go, and its memory is returned once nobody watches  *)
(* it any more.  A watcher can become an owner only while there is one.    *)
(* The module knows nothing of counters; RefCount implements it.           *)
(***************************************************************************)
EXTENDS FiniteSets

CONSTANTS
    StrongPtrs,     \* the TIntrusivePtr variables that may refer to the object
    WeakPtrs        \* the TWeakPtr variables that may refer to the object

VARIABLES
    life,           \* "none", "building", "alive", "dying" or "destructed"
    owners,         \* the strong pointers that keep the object alive
    watchers        \* the weak pointers that keep its memory

absVars == <<life, owners, watchers>>

AbsTypeOK ==
    /\ life \in {"none", "building", "alive", "dying", "destructed"}
    /\ owners \in SUBSET StrongPtrs
    /\ watchers \in SUBSET WeakPtrs

AbsInit ==
    /\ life = "none"
    /\ owners = {}
    /\ watchers = {}

Create(p) ==
    /\ life = "none"
    /\ life' = "building"
    /\ owners' = {p}
    /\ UNCHANGED watchers

Built ==
    /\ life = "building"
    /\ life' = "alive"
    /\ UNCHANGED <<owners, watchers>>

BuildFails ==
    /\ life = "building"
    /\ life' = "none"
    /\ owners' = {}
    /\ UNCHANGED watchers

\* A pointer becomes an owner: by copying an owner, or by locking a watcher.
\* Either way there was an owner at that very moment.
Join(p) ==
    /\ life = "alive"
    /\ p \notin owners
    /\ owners # {}
    /\ owners' = owners \cup {p}
    /\ UNCHANGED <<life, watchers>>

Leave(p) ==
    /\ life = "alive"
    /\ p \in owners
    /\ owners' = owners \ {p}
    /\ life' = IF owners = {p} THEN "dying" ELSE "alive"
    /\ UNCHANGED watchers

\* The reference moves from one variable to another.
HandOver(p, q) ==
    /\ q \in owners
    /\ p \notin owners
    /\ life = "alive"
    /\ owners' = (owners \ {q}) \cup {p}
    /\ UNCHANGED <<life, watchers>>

Watch(w) ==
    /\ life \in {"alive", "dying", "destructed"}
    /\ owners # {} \/ watchers # {}
    /\ w \notin watchers
    /\ watchers' = watchers \cup {w}
    /\ UNCHANGED <<life, owners>>

Unwatch(w) ==
    /\ w \in watchers
    /\ watchers' = watchers \ {w}
    /\ UNCHANGED <<life, owners>>

WatchOver(w, v) ==
    /\ v \in watchers
    /\ w \notin watchers
    /\ watchers' = (watchers \ {v}) \cup {w}
    /\ UNCHANGED <<life, owners>>

Destroy ==
    /\ life = "dying"
    /\ life' = "destructed"
    /\ UNCHANGED <<owners, watchers>>

Free ==
    /\ life = "destructed"
    /\ watchers = {}
    /\ life' = "none"
    /\ UNCHANGED <<owners, watchers>>

AbsNext ==
    \/ \E p \in StrongPtrs : Create(p) \/ Join(p) \/ Leave(p)
    \/ \E p, q \in StrongPtrs : HandOver(p, q)
    \/ \E w \in WeakPtrs : Watch(w) \/ Unwatch(w)
    \/ \E w, v \in WeakPtrs : WatchOver(w, v)
    \/ Built \/ BuildFails \/ Destroy \/ Free

\* What holds of every step, whatever the scheduling.
AbsSafeSpec == AbsInit /\ [][AbsNext]_absVars

\* A dying object is destroyed, and abandoned memory is returned.
AbsSpec ==
    /\ AbsSafeSpec
    /\ WF_absVars(Destroy)
    /\ WF_absVars(Free)

=============================================================================
