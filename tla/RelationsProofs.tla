-------------------------- MODULE RelationsProofs ---------------------------
(***************************************************************************)
(* LookupExact, CachesExact and NamesRoundTrip for every scheme whose      *)
(* paths have keys, and whose fields have names, of their own.             *)
(*                                                                         *)
(* A recursive function is one chosen to obey its equation, so that there  *)
(* is one has to be shown, by induction on the height of a message, since  *)
(* no message is in itself (WalkIs, PrimaryIs), or on the number of calls  *)
(* (ProcessIs, AdoptAlike).  From the equations follows that the walk of a *)
(* message enters all that is below it, each path after the message that   *)
(* it is in (WalkGood, AllEntered), and that the primary keys found are    *)
(* those in no repeated field (TableKeys).  Then, call by call, what has   *)
(* been entered is on file and what is on file of others is untouched      *)
(* (Filed: OneField, ProcessFiled), so that a registration puts its table  *)
(* on file and leaves the other tables there (RootRegistered), which is    *)
(* the step that keeps the inductive invariant OnFile.                     *)
(*                                                                         *)
(* The walk leaves a message after it has left what is below, so the last  *)
(* of `parents' is the message above (Nested: Entering, Leaving), and a    *)
(* parent is the object of the path above, of the same registration (Kin). *)
(* A parent has a shorter path, so the way up ends (UpIs), and cached are  *)
(* the latest ancestors (CachesOnFile); the messages on file are all of    *)
(* the latest registrations (Shelved, SubtreesOnFile).  Each path that is  *)
(* named is named in both directions (Spelled, NamesOnFile).               *)
(***************************************************************************)
EXTENDS Relations, SequenceTheorems, FiniteSetTheorems, WellFoundedInduction, TLAPS

-----------------------------------------------------------------------------
(* Numbers and sequences.                                                  *)

LEMMA LeastNatural ==
    ASSUME NEW S \in SUBSET Nat, S # {}
    PROVE  \E n \in S : \A m \in S : n <= m
<1> DEFINE R == {ss \in Nat \X Nat : ss[1] < ss[2]}
<1>1. R = OpToRel(<, Nat)
  BY DEF OpToRel
<1>2. IsWellFoundedOn(R, Nat)
  BY <1>1, NatLessThanWellFounded
<1> HIDE DEF R
<1>3. PICK n \in S : \A m \in S : <<m, n>> \notin R
  BY <1>2, WFMin
<1>4. \A m \in S : ~(m < n)
  BY <1>3 DEF R
<1> QED BY <1>4

LEMMA SetInduction ==
    ASSUME NEW S \in SUBSET Nat, 0 \in S, \A n \in S : n + 1 \in S
    PROVE  S = Nat
<1> SUFFICES ASSUME Nat \ S # {} PROVE FALSE
  OBVIOUS
<1>1. PICK n \in Nat \ S : \A m \in Nat \ S : n <= m
  BY LeastNatural
<1>2. n # 0 /\ n - 1 \in Nat /\ n - 1 \in S
  BY <1>1
<1>3. (n - 1) + 1 = n
  BY <1>1
<1> QED BY <1>1, <1>2, <1>3

\* The concatenation of sequences is made by adding one after the other.
LEMMA Flattened ==
    ASSUME NEW seqs, NEW n \in Nat \ {0}, Len(seqs) = n
    PROVE  \E f : /\ \A k \in 1..n : f[k] = IF k = 1 THEN seqs[k] ELSE f[k - 1] \o seqs[k]
                  /\ FlattenSeq(seqs) = f[n]
<1> DEFINE Is(f, m) ==
               f = [k \in 1..m |-> IF k = 1 THEN seqs[k] ELSE f[k - 1] \o seqs[k]]
           T == {m \in Nat : \E f : Is(f, m)}
<1>1. 0 \in T
  <2>1. Is([k \in 1..0 |-> 0], 0)
    OBVIOUS
  <2> QED BY <2>1
<1>2. ASSUME NEW m \in T PROVE m + 1 \in T
  <2>1. PICK f : Is(f, m)
    OBVIOUS
  <2> DEFINE g == [k \in 1..(m + 1) |-> IF k = 1 THEN seqs[k] ELSE f[k - 1] \o seqs[k]]
  <2>2. ASSUME NEW k \in 1..(m + 1), k # 1 PROVE g[k - 1] = f[k - 1]
    <3>1. k - 1 \in 1..m /\ k - 1 \in 1..(m + 1)
      BY <2>2
    <3> QED BY <2>1, <3>1
  <2>3. Is(g, m + 1)
    BY <2>2
  <2> HIDE DEF g, Is
  <2>4. m + 1 \in Nat /\ \E h : Is(h, m + 1)
    BY <2>3
  <2> QED BY <2>4
<1>3. n \in T
  <2> HIDE DEF T
  <2>1. T = Nat
    BY <1>1, <1>2, SetInduction DEF T
  <2> QED BY <2>1
<1> DEFINE f == CHOOSE h : Is(h, n)
<1>4. Is(f, n)
  BY <1>3
<1>5. FlattenSeq(seqs) = f[n]
  BY DEF FlattenSeq
<1> HIDE DEF f
<1>6. \A k \in 1..n : f[k] = IF k = 1 THEN seqs[k] ELSE f[k - 1] \o seqs[k]
  BY <1>4
<1> QED BY <1>5, <1>6

-----------------------------------------------------------------------------
(* Paths.                                                                  *)

LEMMA Schema ==
    ASSUME NEW p \in Messages
    PROVE  /\ p \in Seq(Nat) /\ p # <<>> /\ Len(p) \in Nat \ {0}
           /\ Len(p) > 1 =>
                /\ Front(p) \in Messages
                /\ \E f \in ToSet(Fields[Front(p)]) : f.number = Last(p) /\ f.message
           /\ Fields[p] \in Seq(ToSet(Fields[p]))
           /\ \A f \in ToSet(Fields[p]) :
                /\ f.number \in Nat
                /\ {f.message, f.repeated, f.primary} \subseteq BOOLEAN
                /\ f.message <=> Append(p, f.number) \in Messages
           /\ \A f, g \in ToSet(Fields[p]) : f.number = g.number => f = g
BY RelationsAssumption, EmptySeq

LEMMA Appended ==
    ASSUME NEW p \in Seq(Nat), NEW n \in Nat
    PROVE  /\ Append(p, n) \in Seq(Nat) /\ Len(Append(p, n)) = Len(p) + 1
           /\ Len(p) \in Nat
           /\ Front(Append(p, n)) = p /\ Last(Append(p, n)) = n
           /\ p # <<>> => Append(p, n)[1] = p[1]
<1> DEFINE q == Append(p, n)
<1>1. /\ q \in Seq(Nat) /\ Len(q) = Len(p) + 1 /\ Len(p) \in Nat
      /\ \A i \in 1..Len(p) : q[i] = p[i]
      /\ q[Len(p) + 1] = n
  BY AppendProperties, LenProperties
<1> HIDE DEF q
<1>2. Front(q) = p
  <2>1. Len(q) - 1 = Len(p) /\ \A i \in 1..Len(p) : q[i] \in Nat
    BY <1>1, ElementOfSeq
  <2>2. /\ SubSeq(q, 1, Len(p)) \in Seq(Nat)
        /\ Len(SubSeq(q, 1, Len(p))) = IF 1 <= Len(p) THEN Len(p) - 1 + 1 ELSE 0
        /\ \A i \in 1..(Len(p) - 1 + 1) : SubSeq(q, 1, Len(p))[i] = q[1 + i - 1]
    <3>1. 1 \in Int /\ Len(p) \in Int
      BY <1>1
    <3> QED BY <2>1, <3>1, SubSeqProperties
  <2>3. Len(SubSeq(q, 1, Len(p))) = Len(p)
    BY <1>1, <2>2
  <2>4. \A i \in 1..Len(p) : SubSeq(q, 1, Len(p))[i] = p[i]
    BY <1>1, <2>2
  <2>5. SubSeq(q, 1, Len(p)) = p
    BY <2>2, <2>3, <2>4, SeqEqual
  <2> QED BY <2>1, <2>5 DEF Front
<1>3. p # <<>> => q[1] = p[1]
  BY <1>1, EmptySeq
<1>4. Last(q) = n
  BY <1>1 DEF Last
<1> QED BY <1>1, <1>2, <1>3, <1>4 DEF q

\* A path below a table goes to a field of the message above it.
LEMMA Path ==
    ASSUME NEW q \in Paths
    PROVE  /\ q \in Seq(Nat) /\ Len(q) \in Nat \ {0} /\ q[1] \in Nat
           /\ Len(q) = 1 => q = <<q[1]>> /\ q \in Messages
           /\ Len(q) > 1 =>
                /\ Front(q) \in Messages /\ Front(q)[1] = q[1]
                /\ Len(Front(q)) = Len(q) - 1
                /\ FieldAt(q) \in ToSet(Fields[Front(q)])
                /\ q = Append(Front(q), FieldAt(q).number)
                /\ FieldAt(q).message <=> q \in Messages
<1>1. /\ q \in Seq(Nat) /\ Len(q) \in Nat \ {0}
      /\ Len(q) = 1 => q \in Messages
      /\ Len(q) > 1 => /\ Front(q) \in Messages
                       /\ \E f \in ToSet(Fields[Front(q)]) : f.number = Last(q)
  <2>1. CASE q \in Messages
    BY <2>1, Schema
  <2>2. CASE q \notin Messages
    <3>1. PICK p \in Messages : \E f \in ToSet(Fields[p]) : q = Append(p, f.number)
      BY <2>2 DEF Paths
    <3>2. PICK f \in ToSet(Fields[p]) : q = Append(p, f.number)
      BY <3>1
    <3>3. p \in Seq(Nat) /\ f.number \in Nat /\ Len(p) \in Nat \ {0}
      BY Schema
    <3> QED BY <3>2, <3>3, Appended
  <2> QED BY <2>1, <2>2
<1>2. DOMAIN q = 1..Len(q) /\ \A i \in 1..Len(q) : q[i] \in Nat
  BY <1>1, LenProperties
<1>3. CASE Len(q) = 1
  <2>1. q = <<q[1]>>
    BY <1>1, <1>2, <1>3
  <2> QED BY <1>1, <1>2, <1>3, <2>1
<1>4. CASE Len(q) > 1
  <2>1. PICK p \in Messages : p = Front(q)
    BY <1>1, <1>4
  <2>2. FieldAt(q) \in ToSet(Fields[p]) /\ FieldAt(q).number = Last(q)
    BY <1>1, <1>4, <2>1 DEF FieldAt
  <2>3. q = Append(p, Last(q))
    <3>1. PICK s \in Seq(Nat), e \in Nat : q = Append(s, e)
      BY <1>1, <1>4, EmptySeq, SequenceEmptyOrAppend
    <3> QED BY <2>1, <3>1, Appended
  <2>4. p \in Seq(Nat) /\ p # <<>> /\ Last(q) \in Nat
    BY SMTT(60), <2>2, Schema
  <2>5. q[1] = p[1] /\ Len(q) = Len(p) + 1 /\ Len(p) \in Nat
    BY <2>3, <2>4, Appended
  <2>6. FieldAt(q).message <=> q \in Messages
    <3> DEFINE f == FieldAt(q)
    <3>1. f.message <=> Append(p, f.number) \in Messages
      <4> HIDE DEF f
      <4> QED BY <2>2, Schema, Zenon DEF f
    <3> QED BY <2>2, <2>3, <3>1
  <2> QED BY <1>1, <1>2, <1>4, <2>1, <2>2, <2>3, <2>5, <2>6
<1> QED BY <1>1, <1>3, <1>4

LEMMA Child ==
    ASSUME NEW p \in Messages, NEW f \in ToSet(Fields[p])
    PROVE  LET q == Append(p, f.number)
           IN /\ q \in Paths /\ Front(q) = p /\ Len(q) = Len(p) + 1 /\ q[1] = p[1]
              /\ FieldAt(q) = f /\ (f.message <=> q \in Messages)
<1> DEFINE q == Append(p, f.number)
<1>1. p \in Seq(Nat) /\ f.number \in Nat /\ p # <<>>
  BY Schema
<1>2. Front(q) = p /\ Last(q) = f.number /\ Len(q) = Len(p) + 1 /\ q[1] = p[1]
  BY <1>1, Appended
<1>3. q \in Paths
  BY DEF Paths
<1>5. f.message <=> q \in Messages
  BY Schema, Zenon
<1> HIDE DEF q
<1>4. FieldAt(q) = f
  BY <1>2, Schema DEF FieldAt
<1> QED BY <1>2, <1>3, <1>4, <1>5, Zenon DEF q

LEMMA Depth == \E n \in Nat : \A p \in Messages : Len(p) <= n
<1>1. PICK p \in Messages \cup {<<>>} : \A q \in Messages : Len(q) <= Len(p)
  BY RelationsAssumption
<1>2. Len(p) \in Nat
  BY Schema, EmptySeq
<1> QED BY <1>1, <1>2

-----------------------------------------------------------------------------
(* The calls of Process.                                                   *)

VisitOf(walk, p, f) ==
    LET q == Append(p, f.number) IN
    <<[path |-> q, field |-> f, leave |-> FALSE]>> \o
        IF f.message
        THEN walk[q] \o <<[path |-> q, field |-> f, leave |-> TRUE]>>
        ELSE <<>>

WalkOf(walk, p) ==
    FlattenSeq([i \in 1..Len(Fields[p]) |-> VisitOf(walk, p, Fields[p][i])])

\* A walk obeys its equation because no message is in itself.
LEMMA WalkIs == \A p \in Messages : Walk[p] = WalkOf(Walk, p)
<1>1. PICK n \in Nat : \A p \in Messages : Len(p) <= n
  BY Depth
<1> DEFINE D(d) == {p \in Messages : Len(p) + d > n}
           Is(walk, M) == walk = [p \in M |-> WalkOf(walk, p)]
           T == {d \in Nat : \E walk : Is(walk, D(d))}
<1>2. 0 \in T
  <2>1. D(0) = {}
    BY <1>1, Schema
  <2> DEFINE walk == [p \in {} |-> 0]
  <2>2. Is(walk, {})
    OBVIOUS
  <2> HIDE DEF D, Is, walk
  <2>3. \E w : Is(w, D(0))
    BY <2>1, <2>2
  <2> QED BY <2>3
<1>3. ASSUME NEW d \in T PROVE d + 1 \in T
  <2>1. d \in Nat /\ \E w : Is(w, D(d))
    OBVIOUS
  <2>2. PICK walk : Is(walk, D(d))
    BY <2>1
  <2> DEFINE next == [p \in D(d + 1) |-> WalkOf(walk, p)]
  <2>3. ASSUME NEW p \in D(d + 1) PROVE WalkOf(walk, p) = WalkOf(next, p)
    <3>1. p \in Messages /\ Len(p) \in Nat /\ Len(p) + (d + 1) > n
      BY Schema
    <3>2. ASSUME NEW f \in ToSet(Fields[p])
          PROVE  VisitOf(walk, p, f) = VisitOf(next, p, f)
      <4> DEFINE q == Append(p, f.number)
      <4>1. CASE f.message
        <5>1. q \in Messages /\ Len(q) = Len(p) + 1
          BY <3>1, <4>1, Child
        <5> HIDE DEF q
        <5>2. q \in D(d) /\ q \in D(d + 1)
          BY <2>1, <3>1, <5>1
        <5> HIDE DEF D
        <5>3. walk[q] = WalkOf(walk, q) /\ next[q] = WalkOf(walk, q)
          BY <2>2, <5>2
        <5> QED BY <5>3 DEF VisitOf, q
      <4>2. CASE ~f.message
        BY <4>2 DEF VisitOf
      <4> QED BY <4>1, <4>2
    <3>3. ASSUME NEW i \in 1..Len(Fields[p])
          PROVE  VisitOf(walk, p, Fields[p][i]) = VisitOf(next, p, Fields[p][i])
      <4>1. DOMAIN Fields[p] = 1..Len(Fields[p])
        BY <3>1, Schema, LenProperties
      <4>2. Fields[p][i] \in ToSet(Fields[p])
        BY <4>1 DEF ToSet
      <4> QED BY <3>2, <4>2
    <3> HIDE DEF next
    <3>4. [i \in 1..Len(Fields[p]) |-> VisitOf(walk, p, Fields[p][i])]
              = [i \in 1..Len(Fields[p]) |-> VisitOf(next, p, Fields[p][i])]
      BY <3>3
    <3> QED BY <3>4 DEF WalkOf
  <2>4. Is(next, D(d + 1))
    <3> HIDE DEF D
    <3> SUFFICES next = [p \in D(d + 1) |-> WalkOf(next, p)]
      OBVIOUS
    <3>1. [p \in D(d + 1) |-> WalkOf(walk, p)] = [p \in D(d + 1) |-> WalkOf(next, p)]
      <4> HIDE DEF next
      <4> QED BY <2>3
    <3> QED BY <3>1, Zenon
  <2> HIDE DEF Is, D, next
  <2>5. d + 1 \in Nat /\ \E w : Is(w, D(d + 1))
    BY <2>1, <2>4
  <2> QED BY <2>5
<1>4. \E walk : Is(walk, Messages)
  <2>1. n \in T
    <3> HIDE DEF T
    <3>1. T = Nat
      BY <1>2, <1>3, SetInduction DEF T
    <3> QED BY <3>1
  <2>2. D(n) = Messages
    BY Schema
  <2> HIDE DEF D, Is
  <2> QED BY <2>1, <2>2
<1>5. Walk = CHOOSE walk : Is(walk, Messages)
  BY DEF Walk, WalkOf, VisitOf
<1>6. Is(Walk, Messages)
  <2> HIDE DEF Is
  <2> QED BY <1>4, <1>5
<1> QED BY <1>6

\* The calls below a table t, and what a sequence of them enters.
CallsOf(t) ==
    {[path |-> q, field |-> FieldAt(q), leave |-> left] :
        q \in {r \in Paths : Len(r) > 1 /\ r[1] = t}, left \in BOOLEAN}

Entered(calls) == {calls[i].path : i \in {j \in DOMAIN calls : ~calls[j].leave}}

\* A path is entered after the message it is in, or that is one of M.
Ordered(calls, M) ==
    \A i \in DOMAIN calls :
        \/ Front(calls[i].path) \in M
        \/ \E j \in 1..(i - 1) : ~calls[j].leave /\ calls[j].path = Front(calls[i].path)

\* Where in the tree a call finds the walk and where it leaves it.
Before(call) == IF call.leave THEN call.path ELSE Front(call.path)

After(call) == IF ~call.leave /\ call.field.message THEN call.path ELSE Front(call.path)

Place(p, calls, i) == IF i = 0 THEN p ELSE After(calls[i])

\* The calls go from p to r without a jump, and leave messages only.
Leads(p, calls, r) ==
    /\ \A i \in DOMAIN calls :
          /\ Before(calls[i]) = Place(p, calls, i - 1)
          /\ calls[i].leave => calls[i].field.message
    /\ Place(p, calls, Len(calls)) = r

LEMMA EnteredBoth ==
    ASSUME NEW S, NEW x \in Seq(S), NEW y \in Seq(S)
    PROVE  Entered(x \o y) = Entered(x) \cup Entered(y)
<1>1. /\ Len(x) \in Nat /\ Len(y) \in Nat /\ DOMAIN x = 1..Len(x) /\ DOMAIN y = 1..Len(y)
      /\ DOMAIN (x \o y) = 1..(Len(x) + Len(y))
      /\ \A i \in 1..(Len(x) + Len(y)) :
             (x \o y)[i] = IF i <= Len(x) THEN x[i] ELSE y[i - Len(x)]
  BY LenProperties, ConcatProperties
<1> DEFINE z == x \o y
<1> HIDE DEF z
<1>2. ASSUME NEW i \in DOMAIN x PROVE i \in DOMAIN z /\ z[i] = x[i]
  BY <1>1 DEF z
<1>3. ASSUME NEW i \in DOMAIN y PROVE i + Len(x) \in DOMAIN z /\ z[i + Len(x)] = y[i]
  <2>1. i \in Nat /\ i >= 1 /\ i <= Len(y)
    BY <1>1
  <2>2. /\ i + Len(x) \in 1..(Len(x) + Len(y)) /\ ~(i + Len(x) <= Len(x))
        /\ (i + Len(x)) - Len(x) = i
    BY <1>1, <2>1
  <2> QED BY <1>1, <2>2 DEF z
<1>4. ASSUME NEW i \in DOMAIN z
      PROVE  (\E j \in DOMAIN x : z[i] = x[j]) \/ (\E j \in DOMAIN y : z[i] = y[j])
  <2>1. i \in 1..(Len(x) + Len(y))
    BY <1>1 DEF z
  <2>2. CASE i <= Len(x)
    <3>1. i \in DOMAIN x
      BY <1>1, <2>1, <2>2
    <3> QED BY <1>2, <3>1
  <2>3. CASE ~(i <= Len(x))
    <3>1. i - Len(x) \in DOMAIN y /\ (i - Len(x)) + Len(x) = i
      BY <1>1, <2>1, <2>3
    <3> QED BY <1>3, <3>1
  <2> QED BY <2>2, <2>3
<1>5. Entered(z) \subseteq Entered(x) \cup Entered(y)
  BY <1>4 DEF Entered
<1>6. Entered(x) \subseteq Entered(z)
  BY <1>2 DEF Entered
<1>7. Entered(y) \subseteq Entered(z)
  BY <1>3 DEF Entered
<1> QED BY <1>5, <1>6, <1>7 DEF z

LEMMA OrderedBoth ==
    ASSUME NEW S, NEW x \in Seq(S), NEW y \in Seq(S), NEW M,
           Ordered(x, M), Ordered(y, M \cup Entered(x))
    PROVE  Ordered(x \o y, M)
<1>1. /\ Len(x) \in Nat /\ Len(y) \in Nat /\ DOMAIN x = 1..Len(x) /\ DOMAIN y = 1..Len(y)
      /\ DOMAIN (x \o y) = 1..(Len(x) + Len(y))
      /\ \A i \in 1..(Len(x) + Len(y)) :
             (x \o y)[i] = IF i <= Len(x) THEN x[i] ELSE y[i - Len(x)]
  BY LenProperties, ConcatProperties
<1> DEFINE z == x \o y
<1> HIDE DEF z
<1>2. ASSUME NEW i \in 1..Len(x) PROVE z[i] = x[i]
  BY <1>1 DEF z
<1>3. ASSUME NEW i \in 1..Len(y) PROVE z[i + Len(x)] = y[i]
  <2>2. /\ i + Len(x) \in 1..(Len(x) + Len(y)) /\ ~(i + Len(x) <= Len(x))
        /\ (i + Len(x)) - Len(x) = i
    BY <1>1
  <2> QED BY <1>1, <2>2 DEF z
<1>4. ASSUME NEW i \in DOMAIN z
      PROVE  \/ Front(z[i].path) \in M
             \/ \E j \in 1..(i - 1) : ~z[j].leave /\ z[j].path = Front(z[i].path)
  <2>1. i \in 1..(Len(x) + Len(y))
    BY <1>1 DEF z
  <2>2. CASE i <= Len(x)
    <3>1. i \in 1..Len(x) /\ \A j \in 1..(i - 1) : j \in 1..Len(x)
      BY <1>1, <2>1, <2>2
    <3>2. \/ Front(x[i].path) \in M
          \/ \E j \in 1..(i - 1) : ~x[j].leave /\ x[j].path = Front(x[i].path)
      BY <1>1, <3>1 DEF Ordered
    <3> QED BY <1>2, <3>1, <3>2
  <2>3. CASE ~(i <= Len(x))
    <3>1. PICK k \in 1..Len(y) : i = k + Len(x)
      <4>1. i - Len(x) \in 1..Len(y) /\ i = (i - Len(x)) + Len(x)
        BY <1>1, <2>1, <2>3
      <4> QED BY <4>1
    <3>2. z[i] = y[k]
      BY <1>3, <3>1
    <3>3. CASE Front(y[k].path) \in M
      BY <3>2, <3>3
    <3>4. CASE Front(y[k].path) \in Entered(x)
      <4>1. PICK j \in 1..Len(x) : ~x[j].leave /\ x[j].path = Front(y[k].path)
        BY <1>1, <3>4 DEF Entered
      <4>2. j \in 1..(i - 1)
        BY <1>1, <3>1
      <4> QED BY <1>2, <3>2, <4>1, <4>2
    <3>5. CASE \E j \in 1..(k - 1) : ~y[j].leave /\ y[j].path = Front(y[k].path)
      <4>1. PICK j \in 1..(k - 1) : ~y[j].leave /\ y[j].path = Front(y[k].path)
        BY <3>5
      <4>2. j \in 1..Len(y) /\ j + Len(x) \in 1..(i - 1)
        BY <1>1, <3>1
      <4>3. z[j + Len(x)] = y[j]
        BY <1>3, <4>2
      <4> QED BY <3>2, <4>1, <4>2, <4>3
    <3> QED BY <1>1, <3>3, <3>4, <3>5 DEF Ordered
  <2> QED BY <2>2, <2>3
<1> QED BY <1>4 DEF Ordered, z

LEMMA LeadsBoth ==
    ASSUME NEW S, NEW x \in Seq(S), NEW y \in Seq(S), NEW p, NEW q, NEW r,
           Leads(p, x, q), Leads(q, y, r)
    PROVE  Leads(p, x \o y, r)
<1>1. /\ Len(x) \in Nat /\ Len(y) \in Nat /\ DOMAIN x = 1..Len(x) /\ DOMAIN y = 1..Len(y)
      /\ DOMAIN (x \o y) = 1..(Len(x) + Len(y)) /\ Len(x \o y) = Len(x) + Len(y)
      /\ \A i \in 1..(Len(x) + Len(y)) :
             (x \o y)[i] = IF i <= Len(x) THEN x[i] ELSE y[i - Len(x)]
  BY LenProperties, ConcatProperties
<1> DEFINE z == x \o y
<1> HIDE DEF z
<1>2. ASSUME NEW i \in 1..Len(x) PROVE z[i] = x[i]
  BY <1>1 DEF z
<1>3. ASSUME NEW i \in 1..Len(y) PROVE z[i + Len(x)] = y[i]
  <2>2. /\ i + Len(x) \in 1..(Len(x) + Len(y)) /\ ~(i + Len(x) <= Len(x))
        /\ (i + Len(x)) - Len(x) = i
    BY <1>1
  <2> QED BY <1>1, <2>2 DEF z
<1>4. ASSUME NEW i \in 0..Len(x) PROVE Place(p, z, i) = Place(p, x, i)
  <2>1. i = 0 \/ i \in 1..Len(x)
    BY <1>1
  <2> QED BY <1>2, <2>1 DEF Place
<1>5. ASSUME NEW i \in 0..Len(y) PROVE Place(p, z, i + Len(x)) = Place(q, y, i)
  <2>1. CASE i = 0
    <3>1. Place(p, z, i + Len(x)) = Place(p, x, Len(x))
      BY <1>1, <1>4, <2>1
    <3>2. Place(p, x, Len(x)) = q
      BY DEF Leads
    <3> QED BY <2>1, <3>1, <3>2 DEF Place
  <2>2. CASE i # 0
    <3>1. i \in 1..Len(y) /\ i + Len(x) # 0
      BY <1>1, <2>2
    <3> QED BY <1>3, <2>2, <3>1 DEF Place
  <2> QED BY <2>1, <2>2
<1>6. ASSUME NEW i \in DOMAIN z
      PROVE  Before(z[i]) = Place(p, z, i - 1) /\ (z[i].leave => z[i].field.message)
  <2>1. i \in 1..(Len(x) + Len(y))
    BY <1>1 DEF z
  <2>2. CASE i <= Len(x)
    <3>1. i \in 1..Len(x) /\ i \in DOMAIN x /\ i - 1 \in 0..Len(x)
      BY <1>1, <2>1, <2>2
    <3>2. Before(x[i]) = Place(p, x, i - 1) /\ (x[i].leave => x[i].field.message)
      BY <3>1 DEF Leads
    <3>3. z[i] = x[i] /\ Place(p, z, i - 1) = Place(p, x, i - 1)
      BY <1>2, <1>4, <3>1
    <3> QED BY <3>2, <3>3
  <2>3. CASE ~(i <= Len(x))
    <3>1. PICK k \in 1..Len(y) : i = k + Len(x)
      <4>1. i - Len(x) \in 1..Len(y) /\ i = (i - Len(x)) + Len(x)
        BY <1>1, <2>1, <2>3
      <4> QED BY <4>1
    <3>2. k - 1 \in 0..Len(y) /\ i - 1 = (k - 1) + Len(x)
      BY <1>1, <3>1
    <3>3. Place(p, z, i - 1) = Place(q, y, k - 1)
      BY <1>5, <3>2
    <3>4. z[i] = y[k]
      BY <1>3, <3>1
    <3>5. Before(y[k]) = Place(q, y, k - 1) /\ (y[k].leave => y[k].field.message)
      BY <1>1 DEF Leads
    <3> QED BY <3>3, <3>4, <3>5
  <2> QED BY <2>2, <2>3
<1>7. Place(p, z, Len(z)) = r
  <2>1. Len(z) = Len(y) + Len(x) /\ Len(y) \in 0..Len(y)
    BY <1>1 DEF z
  <2>2. Place(p, z, Len(y) + Len(x)) = Place(q, y, Len(y))
    BY <1>5, <2>1
  <2> QED BY <2>1, <2>2 DEF Leads
<1> QED BY <1>6, <1>7 DEF Leads, z

LEMMA FlattenedCalls ==
    ASSUME NEW S, NEW n \in Nat, NEW seqs \in Seq(Seq(S)), Len(seqs) = n, NEW M,
           NEW p, \A k \in 1..n : Ordered(seqs[k], M) /\ Leads(p, seqs[k], p)
    PROVE  /\ FlattenSeq(seqs) \in Seq(S)
           /\ Entered(FlattenSeq(seqs)) = UNION {Entered(seqs[k]) : k \in 1..n}
           /\ Ordered(FlattenSeq(seqs), M) /\ Leads(p, FlattenSeq(seqs), p)
<1>1. CASE n = 0
  <2>1. FlattenSeq(seqs) = <<>>
    BY <1>1, EmptySeq DEF FlattenSeq
  <2>2. Entered(<<>>) = {} /\ Ordered(<<>>, M) /\ <<>> \in Seq(S)
    BY DEF Entered, Ordered
  <2>3. UNION {Entered(seqs[k]) : k \in 1..n} = {}
    BY <1>1
  <2>4. Leads(p, <<>>, p)
    BY DEF Leads, Place
  <2> QED BY <2>1, <2>2, <2>3, <2>4
<1>2. CASE n # 0
  <2>1. PICK f : /\ \A k \in 1..n : f[k] = IF k = 1 THEN seqs[k] ELSE f[k - 1] \o seqs[k]
                 /\ FlattenSeq(seqs) = f[n]
    <3>1. n \in Nat \ {0}
      BY <1>2
    <3> QED BY <3>1, Flattened
  <2> DEFINE U(m) == UNION {Entered(seqs[k]) : k \in 1..m}
             Good(m) == /\ f[m] \in Seq(S) /\ Entered(f[m]) = U(m) /\ Ordered(f[m], M)
                        /\ Leads(p, f[m], p)
             T == {m \in Nat : m + 1 <= n => Good(m + 1)}
  <2>2. \A k \in 1..n : seqs[k] \in Seq(S)
    BY ElementOfSeq
  <2>3. 0 \in T
    <3>1. 1 \in 1..n /\ 0 + 1 = 1 /\ 1..1 = {1}
      BY <1>2
    <3>2. f[1] = seqs[1]
      BY <2>1, <3>1
    <3>3. Good(1)
      BY <2>2, <3>1, <3>2
    <3> HIDE DEF Good
    <3> QED BY <3>1, <3>3
  <2>4. ASSUME NEW m \in T PROVE m + 1 \in T
    <3> DEFINE k == (m + 1) + 1
    <3> SUFFICES ASSUME k <= n PROVE Good(k)
      BY <2>4
    <3>1. m \in Nat /\ k \in 1..n /\ k # 1 /\ k - 1 = m + 1 /\ m + 1 <= n
      BY <2>4
    <3>2. Good(k - 1)
      <4> HIDE DEF Good, k
      <4> QED BY <2>4, <3>1
    <3>3. U(k) = U(k - 1) \cup Entered(seqs[k])
      <4>1. 1..k = (1..(k - 1)) \cup {k}
        BY <3>1
      <4> HIDE DEF k
      <4> QED BY <4>1
    <3> HIDE DEF k, U
    <3>4. /\ f[k] = f[k - 1] \o seqs[k] /\ seqs[k] \in Seq(S)
          /\ Ordered(seqs[k], M) /\ Leads(p, seqs[k], p)
      BY <2>1, <2>2, <3>1
    <3>5. f[k] \in Seq(S)
      BY <3>2, <3>4, ConcatProperties
    <3>6. Entered(f[k]) = U(k)
      BY <3>2, <3>3, <3>4, EnteredBoth
    <3>7. Ordered(seqs[k], M \cup Entered(f[k - 1]))
      BY <3>4 DEF Ordered
    <3>8. Ordered(f[k], M)
      BY ZenonT(60), <3>2, <3>4, <3>7, OrderedBoth
    <3>9. Leads(p, f[k], p)
      BY <3>2, <3>4, LeadsBoth
    <3> QED BY <3>5, <3>6, <3>8, <3>9
  <2>5. Good(n)
    <3> HIDE DEF Good
    <3>1. n - 1 \in T
      <4> HIDE DEF T
      <4>1. T = Nat
        BY <2>3, <2>4, SetInduction DEF T
      <4> QED BY <1>2, <4>1
    <3> QED BY <1>2, <3>1
  <2> QED BY <2>1, <2>5
<1> QED BY <1>1, <1>2

\* What Process calls below p: everything there, each after what it is in.
Whole(p, calls) ==
    /\ calls \in Seq(CallsOf(p[1])) /\ Ordered(calls, {p}) /\ Leads(p, calls, p)
    /\ \A f \in ToSet(Fields[p]) : Append(p, f.number) \in Entered(calls)

Closed(calls) ==
    \A q \in Entered(calls) \cap Messages : \A f \in ToSet(Fields[q]) :
        Append(q, f.number) \in Entered(calls)

LEMMA OneCall ==
    ASSUME NEW p \in Messages, NEW f \in ToSet(Fields[p]), NEW left \in BOOLEAN, NEW M,
           p \in M
    PROVE  LET q == Append(p, f.number)
               call == [path |-> q, field |-> f, leave |-> left]
           IN /\ <<call>> \in Seq(CallsOf(p[1])) /\ Ordered(<<call>>, M)
              /\ Entered(<<call>>) = IF left THEN {} ELSE {q}
              /\ IF left THEN f.message => Leads(q, <<call>>, p)
                 ELSE Leads(p, <<call>>, IF f.message THEN q ELSE p)
<1> DEFINE q == Append(p, f.number)
           call == [path |-> q, field |-> f, leave |-> left]
<1>1. /\ q \in Paths /\ Front(q) = p /\ Len(q) = Len(p) + 1 /\ q[1] = p[1]
      /\ FieldAt(q) = f /\ Len(p) \in Nat \ {0}
  BY Child, Schema
<1> HIDE DEF q
<1>2. call \in CallsOf(p[1])
  <2>1. q \in {r \in Paths : Len(r) > 1 /\ r[1] = p[1]}
    BY <1>1
  <2> QED BY <1>1, <2>1 DEF CallsOf
<1>3. call.path = q /\ call.leave = left /\ call.field = f
  OBVIOUS
<1> HIDE DEF call
<1>4. DOMAIN <<call>> = {1} /\ <<call>>[1] = call /\ Len(<<call>>) = 1
  OBVIOUS
<1>5. Ordered(<<call>>, M)
  BY <1>1, <1>3, <1>4 DEF Ordered
<1>6. Entered(<<call>>) = IF left THEN {} ELSE {q}
  BY <1>3, <1>4 DEF Entered
<1>7. <<call>> \in Seq(CallsOf(p[1]))
  BY <1>2
<1>8. IF left THEN f.message => Leads(q, <<call>>, p)
      ELSE Leads(p, <<call>>, IF f.message THEN q ELSE p)
  BY <1>1, <1>3, <1>4 DEF Leads, Place, Before, After
<1> QED BY <1>5, <1>6, <1>7, <1>8 DEF call, q

LEMMA VisitGood ==
    ASSUME NEW p \in Messages, NEW f \in ToSet(Fields[p]),
           f.message => LET q == Append(p, f.number)
                        IN Whole(q, Walk[q]) /\ Closed(Walk[q])
    PROVE  LET calls == VisitOf(Walk, p, f)
           IN /\ calls \in Seq(CallsOf(p[1])) /\ Ordered(calls, {p}) /\ Closed(calls)
              /\ Append(p, f.number) \in Entered(calls) /\ Leads(p, calls, p)
<1> DEFINE q == Append(p, f.number)
           calls == VisitOf(Walk, p, f)
           enter == <<[path |-> q, field |-> f, leave |-> FALSE]>>
           leave == <<[path |-> q, field |-> f, leave |-> TRUE]>>
           S == CallsOf(p[1])
           t == p[1]
<1>1. /\ enter \in Seq(S) /\ leave \in Seq(S)
      /\ Entered(enter) = {q} /\ Entered(leave) = {}
      /\ \A M : p \in M => Ordered(enter, M) /\ Ordered(leave, M)
      /\ Leads(p, enter, IF f.message THEN q ELSE p)
      /\ f.message => Leads(q, leave, p)
  BY OneCall
<1>2. q[1] = p[1] /\ (f.message <=> q \in Messages)
  BY Child
<1>3. CASE f.message
  <2>1. /\ Walk[q] \in Seq(S) /\ Ordered(Walk[q], {q}) /\ Closed(Walk[q])
        /\ Leads(q, Walk[q], q)
        /\ \A g \in ToSet(Fields[q]) : Append(q, g.number) \in Entered(Walk[q])
    BY <1>2, <1>3 DEF Whole
  <2>2. calls = enter \o (Walk[q] \o leave)
    BY <1>3 DEF VisitOf
  <2> HIDE DEF calls, enter, leave, q, S
  <2> DEFINE below == Walk[q]
             rest == below \o leave
  <2>3. /\ rest \in Seq(S) /\ Entered(rest) = Entered(Walk[q])
        /\ Ordered(rest, {p} \cup {q}) /\ Leads(q, rest, p)
    <3>1. Entered(rest) = Entered(below) \cup Entered(leave)
      <4>1. below \in Seq(S)
        BY <2>1
      <4> HIDE DEF below
      <4> QED BY ZenonT(60), <1>1, <4>1, EnteredBoth
    <3>2. Ordered(Walk[q], {p} \cup {q})
      BY <2>1 DEF Ordered
    <3>3. Ordered(leave, ({p} \cup {q}) \cup Entered(Walk[q]))
      BY <1>1
    <3>4. Ordered(rest, {p} \cup {q})
      BY <1>1, <2>1, <3>2, <3>3, OrderedBoth
    <3>5. Leads(q, rest, p)
      BY <1>1, <1>3, <2>1, LeadsBoth
    <3> QED BY <1>1, <2>1, <3>1, <3>4, <3>5, ConcatProperties
  <2> HIDE DEF rest
  <2>4. calls \in Seq(S) /\ Entered(calls) = {q} \cup Entered(Walk[q])
    <3>1. calls = enter \o rest
      BY <2>2 DEF rest
    <3>2. enter \o rest \in Seq(S)
      BY <1>1, <2>3, ConcatProperties
    <3>3. Entered(enter \o rest) = Entered(enter) \cup Entered(rest)
      BY <1>1, <2>3, EnteredBoth
    <3> QED BY <1>1, <2>3, <3>1, <3>2, <3>3
  <2>5. Ordered(calls, {p})
    <3>1. Ordered(enter, {p}) /\ Ordered(rest, {p} \cup Entered(enter))
      BY <1>1, <2>3
    <3> QED BY <1>1, <2>2, <2>3, <3>1, OrderedBoth DEF rest
  <2>6. Closed(calls)
    BY <2>1, <2>4 DEF Closed
  <2>7. Leads(p, calls, p)
    BY <1>1, <1>3, <2>2, <2>3, LeadsBoth DEF rest
  <2> QED BY <2>4, <2>5, <2>6, <2>7 DEF calls, q, S
<1>4. CASE ~f.message
  <2>1. calls = enter \o <<>>
    BY <1>4 DEF VisitOf
  <2> HIDE DEF calls, enter, leave, q, S
  <2>2. calls = enter
    BY <1>1, <2>1, ConcatEmptySeq
  <2>3. Closed(calls)
    BY <1>1, <1>2, <1>4, <2>2 DEF Closed
  <2> QED BY <1>1, <1>4, <2>2, <2>3 DEF calls, q, S
<1> QED BY <1>3, <1>4

LEMMA WalkGood == \A p \in Messages : Whole(p, Walk[p]) /\ Closed(Walk[p])
<1>1. PICK n \in Nat : \A p \in Messages : Len(p) <= n
  BY Depth
<1> DEFINE Good(p) == Whole(p, Walk[p]) /\ Closed(Walk[p])
           T == {d \in Nat : \A p \in Messages : Len(p) + d > n => Good(p)}
<1>2. 0 \in T
  BY <1>1, Schema
<1>3. ASSUME NEW d \in T, NEW p \in Messages, Len(p) + (d + 1) > n PROVE Good(p)
  <2> DEFINE m == Len(Fields[p])
             piece(i) == VisitOf(Walk, p, Fields[p][i])
             seqs == [i \in 1..m |-> piece(i)]
             S == CallsOf(p[1])
  <2>1. /\ Fields[p] \in Seq(ToSet(Fields[p])) /\ m \in Nat /\ DOMAIN Fields[p] = 1..m
        /\ Len(p) \in Nat /\ d \in Nat
    BY Schema, LenProperties
  <2>2. ToSet(Fields[p]) = {Fields[p][i] : i \in 1..m}
    BY <2>1 DEF ToSet
  <2> HIDE DEF m
  <2>3. ASSUME NEW i \in 1..m
        PROVE  /\ piece(i) \in Seq(S) /\ Ordered(piece(i), {p}) /\ Closed(piece(i))
               /\ Append(p, Fields[p][i].number) \in Entered(piece(i))
               /\ Leads(p, piece(i), p)
    <3>1. PICK f \in ToSet(Fields[p]) : f = Fields[p][i]
      BY <2>2
    <3>2. ASSUME f.message PROVE Good(Append(p, f.number))
      <4> DEFINE q == Append(p, f.number)
      <4>1. q \in Messages /\ Len(q) = Len(p) + 1
        BY <3>2, Child
      <4> HIDE DEF q
      <4>2. Len(q) + d > n
        BY <2>1, <4>1, <1>3
      <4> HIDE DEF Good
      <4>3. Good(q)
        BY <4>1, <4>2
      <4> QED BY <4>3 DEF q
    <3>3. LET calls == VisitOf(Walk, p, f)
          IN /\ calls \in Seq(S) /\ Ordered(calls, {p}) /\ Closed(calls)
             /\ Append(p, f.number) \in Entered(calls) /\ Leads(p, calls, p)
      BY <3>2, VisitGood
    <3> QED BY <3>1, <3>3
  <2> HIDE DEF piece, S
  <2>4. seqs \in Seq(Seq(S)) /\ Len(seqs) = m /\ \A i \in 1..m : seqs[i] = piece(i)
    <3>1. seqs \in [1..m -> Seq(S)]
      BY <2>3
    <3>2. seqs \in Seq(Seq(S))
      BY <2>1, <3>1, SeqDef
    <3>3. Len(seqs) = m
      BY <2>1
    <3> QED BY <3>2, <3>3
  <2> HIDE DEF seqs
  <2>5. /\ FlattenSeq(seqs) \in Seq(S) /\ Ordered(FlattenSeq(seqs), {p})
        /\ Leads(p, FlattenSeq(seqs), p)
        /\ Entered(FlattenSeq(seqs)) = UNION {Entered(seqs[i]) : i \in 1..m}
    <3> DEFINE M == {p}
    <3>1. \A i \in 1..m : Ordered(seqs[i], M) /\ Leads(p, seqs[i], p)
      BY <2>3, <2>4
    <3> HIDE DEF M
    <3>2. /\ FlattenSeq(seqs) \in Seq(S) /\ Ordered(FlattenSeq(seqs), M)
          /\ Leads(p, FlattenSeq(seqs), p)
          /\ Entered(FlattenSeq(seqs)) = UNION {Entered(seqs[i]) : i \in 1..m}
      <4>1. m \in Nat /\ seqs \in Seq(Seq(S)) /\ Len(seqs) = m
        BY <2>1, <2>4
      <4> QED BY <3>1, <4>1, FlattenedCalls, ZenonT(60)
    <3> QED BY <3>2 DEF M
  <2>6. Walk[p] = FlattenSeq(seqs)
    BY WalkIs DEF WalkOf, seqs, piece, m
  <2> DEFINE E == Entered(Walk[p])
  <2>7. E = UNION {Entered(piece(i)) : i \in 1..m}
    BY <2>4, <2>5, <2>6
  <2>8. \A f \in ToSet(Fields[p]) : Append(p, f.number) \in E
    <3> HIDE DEF E
    <3> QED BY <2>2, <2>3, <2>7
  <2>9. Closed(Walk[p])
    <3>1. ASSUME NEW q \in E \cap Messages, NEW f \in ToSet(Fields[q])
          PROVE  Append(q, f.number) \in E
      <4> HIDE DEF E
      <4>1. PICK i \in 1..m : q \in Entered(piece(i))
        BY <2>7
      <4>2. Append(q, f.number) \in Entered(piece(i))
        BY <2>3, <4>1 DEF Closed
      <4> QED BY <2>7, <4>2
    <3> QED BY <3>1 DEF Closed
  <2> QED BY <2>5, <2>6, <2>8, <2>9 DEF Whole, S
<1>4. ASSUME NEW d \in T PROVE d + 1 \in T
  <2> HIDE DEF Good
  <2>1. d + 1 \in Nat
    OBVIOUS
  <2> QED BY <1>3, <2>1
<1>5. n \in T
  <2> HIDE DEF T
  <2>1. T = Nat
    BY <1>2, <1>4, SetInduction DEF T
  <2> QED BY <2>1
<1>6. ASSUME NEW p \in Messages PROVE Good(p)
  <2>1. Len(p) + n > n
    BY Schema
  <2> HIDE DEF Good
  <2> QED BY <1>5, <2>1
<1> QED BY <1>6

\* Process of a table registers every path below it and no other
\* (message.cpp:61-78).
THEOREM AllEntered ==
    ASSUME NEW t, <<t>> \in Messages
    PROVE  Entered(Walk[<<t>>]) = {q \in Paths : Len(q) > 1 /\ q[1] = t}
<1> DEFINE E == Entered(Walk[<<t>>])
           All == {q \in Paths : Len(q) > 1 /\ q[1] = t}
           T == {n \in Nat : \A q \in All : Len(q) <= n => q \in E}
<1>1. <<t>>[1] = t
  OBVIOUS
<1>2. E \subseteq All
  <2>1. Walk[<<t>>] \in Seq(CallsOf(t))
    BY <1>1, WalkGood DEF Whole
  <2> DEFINE calls == Walk[<<t>>]
             S == CallsOf(t)
  <2>2. \A i \in DOMAIN calls : calls[i] \in S
    <3> HIDE DEF calls, S
    <3>1. calls \in Seq(S)
      BY <2>1 DEF calls, S
    <3> QED BY <3>1, LenProperties, ElementOfSeq
  <2>3. ASSUME NEW q \in E PROVE q \in All
    <3>1. PICK i \in DOMAIN calls : q = calls[i].path
      BY DEF Entered
    <3>2. calls[i] \in S
      <4> HIDE DEF calls, S
      <4> QED BY <2>2
    <3>3. PICK r \in All, left \in BOOLEAN :
              calls[i] = [path |-> r, field |-> FieldAt(r), leave |-> left]
      BY <3>2 DEF CallsOf
    <3> HIDE DEF calls, All
    <3> QED BY <3>1, <3>3
  <2> QED BY <2>3
<1>3. 0 \in T
  BY Path
<1>4. ASSUME NEW n \in T, NEW q \in All, Len(q) <= n + 1 PROVE q \in E
  <2>1. PICK p \in Messages : /\ p = Front(q) /\ p[1] = t /\ Len(p) = Len(q) - 1
                              /\ FieldAt(q) \in ToSet(Fields[p])
                              /\ q = Append(p, FieldAt(q).number)
    BY Path
  <2>2. p \in Paths /\ Len(p) \in Nat \ {0} /\ Len(q) \in Nat /\ n \in Nat
    BY Path, Schema DEF Paths
  <2>3. CASE Len(p) = 1
    <3>1. p = <<t>>
      BY <2>1, <2>2, <2>3, Path
    <3>2. \A f \in ToSet(Fields[p]) : Append(p, f.number) \in E
      BY <3>1, WalkGood DEF Whole
    <3> QED BY <2>1, <3>2
  <2>4. CASE Len(p) # 1
    <3>1. p \in All /\ Len(p) <= n
      BY <1>4, <2>1, <2>2, <2>4
    <3>2. p \in E
      <4> HIDE DEF E, All
      <4> QED BY <3>1
    <3>3. Closed(Walk[<<t>>])
      BY WalkGood
    <3>4. \A f \in ToSet(Fields[p]) : Append(p, f.number) \in E
      BY <3>2, <3>3 DEF Closed
    <3> QED BY <2>1, <3>4
  <2> QED BY <2>3, <2>4
<1>5. ASSUME NEW n \in T PROVE n + 1 \in T
  <2> HIDE DEF E, All
  <2>1. n + 1 \in Nat
    OBVIOUS
  <2> QED BY <1>4, <2>1
<1>6. T = Nat
  <2> HIDE DEF T
  <2> QED BY <1>3, <1>5, SetInduction DEF T
<1>7. ASSUME NEW q \in All PROVE q \in E
  <2>1. Len(q) \in T
    <3> HIDE DEF T
    <3> QED BY <1>6, Path
  <2>2. Len(q) \in Nat
    BY Path
  <2> HIDE DEF E, All
  <2> QED BY <2>1, <2>2
<1> QED BY <1>2, <1>7

-----------------------------------------------------------------------------
(* The keys of a table.                                                    *)

PrimaryOf(primary, q) ==
    UNION {LET r == Append(q, f.number) IN
             (IF f.primary THEN {Key[r]} ELSE {})
               \cup (IF f.message THEN primary[r] ELSE {}) :
           f \in {g \in ToSet(Fields[q]) : ~g.repeated}}

LEMMA PrimaryIs ==
    \E primary : /\ \A q \in Messages : primary[q] = PrimaryOf(primary, q)
                 /\ \A q \in Messages : FindPrimaryFields(q) = primary[q]
<1>1. PICK n \in Nat : \A p \in Messages : Len(p) <= n
  BY Depth
<1> DEFINE D(d) == {p \in Messages : Len(p) + d > n}
           Is(primary, M) == primary = [p \in M |-> PrimaryOf(primary, p)]
           T == {d \in Nat : \E primary : Is(primary, D(d))}
<1>2. 0 \in T
  <2>1. D(0) = {}
    BY <1>1, Schema
  <2> DEFINE none == [p \in {} |-> 0]
  <2>2. Is(none, {})
    OBVIOUS
  <2> HIDE DEF D, Is, none
  <2>3. \E w : Is(w, D(0))
    BY <2>1, <2>2
  <2> QED BY <2>3
<1>3. ASSUME NEW d \in T PROVE d + 1 \in T
  <2>1. d \in Nat /\ \E w : Is(w, D(d))
    OBVIOUS
  <2>2. PICK primary : Is(primary, D(d))
    BY <2>1
  <2> DEFINE next == [p \in D(d + 1) |-> PrimaryOf(primary, p)]
  <2>3. ASSUME NEW p \in D(d + 1) PROVE PrimaryOf(primary, p) = PrimaryOf(next, p)
    <3>1. p \in Messages /\ Len(p) \in Nat /\ Len(p) + (d + 1) > n
      BY Schema
    <3>2. ASSUME NEW f \in ToSet(Fields[p]), f.message
          PROVE  primary[Append(p, f.number)] = next[Append(p, f.number)]
      <4> DEFINE q == Append(p, f.number)
      <4>1. q \in Messages /\ Len(q) = Len(p) + 1
        BY <3>1, <3>2, Child
      <4> HIDE DEF q
      <4>2. q \in D(d) /\ q \in D(d + 1)
        BY <2>1, <3>1, <4>1
      <4> HIDE DEF D
      <4>3. primary[q] = PrimaryOf(primary, q) /\ next[q] = PrimaryOf(primary, q)
        BY <2>2, <4>2
      <4> QED BY <4>3 DEF q
    <3> HIDE DEF next
    <3> DEFINE part(f, g) ==
            LET r == Append(p, f.number) IN
              (IF f.primary THEN {Key[r]} ELSE {}) \cup (IF f.message THEN g[r] ELSE {})
    <3>3. ASSUME NEW f \in ToSet(Fields[p]) PROVE part(f, primary) = part(f, next)
      BY <3>2
    <3>4. /\ PrimaryOf(primary, p)
                 = UNION {part(f, primary) : f \in {g \in ToSet(Fields[p]) : ~g.repeated}}
          /\ PrimaryOf(next, p)
                 = UNION {part(f, next) : f \in {g \in ToSet(Fields[p]) : ~g.repeated}}
      BY DEF PrimaryOf
    <3> HIDE DEF part
    <3> QED BY <3>3, <3>4
  <2>4. Is(next, D(d + 1))
    <3> HIDE DEF D
    <3> SUFFICES next = [p \in D(d + 1) |-> PrimaryOf(next, p)]
      OBVIOUS
    <3>1. [p \in D(d + 1) |-> PrimaryOf(primary, p)]
              = [p \in D(d + 1) |-> PrimaryOf(next, p)]
      <4> HIDE DEF next
      <4> QED BY <2>3
    <3> QED BY <3>1, Zenon
  <2> HIDE DEF Is, D, next
  <2>5. d + 1 \in Nat /\ \E w : Is(w, D(d + 1))
    BY <2>1, <2>4
  <2> QED BY <2>5
<1>4. \E primary : Is(primary, Messages)
  <2>1. n \in T
    <3> HIDE DEF T
    <3>1. T = Nat
      BY <1>2, <1>3, SetInduction DEF T
    <3> QED BY <3>1
  <2>2. D(n) = Messages
    BY Schema
  <2> HIDE DEF D, Is
  <2> QED BY <2>1, <2>2
<1> DEFINE primary == CHOOSE w : Is(w, Messages)
<1>5. \A q : FindPrimaryFields(q) = primary[q]
  BY DEF FindPrimaryFields, PrimaryOf
<1>6. Is(primary, Messages)
  <2> HIDE DEF Is
  <2> QED BY <1>4
<1> HIDE DEF primary
<1>7. \A q \in Messages : primary[q] = PrimaryOf(primary, q)
  BY <1>6
<1> QED BY <1>5, <1>7

LEMMA Prefix ==
    ASSUME NEW r \in Paths, NEW k \in 1..Len(r)
    PROVE  /\ SubSeq(r, 1, k) \in Paths /\ Len(SubSeq(r, 1, k)) = k
           /\ SubSeq(r, 1, k)[1] = r[1]
           /\ k < Len(r) => SubSeq(r, 1, k) \in Messages
           /\ k > 1 => Front(SubSeq(r, 1, k)) = SubSeq(r, 1, k - 1)
           /\ SubSeq(r, 1, Len(r)) = r
<1>1. r \in Seq(Nat) /\ Len(r) \in Nat \ {0} /\ \A i \in 1..Len(r) : r[i] \in Nat
  BY Path, LenProperties
<1>2. ASSUME NEW j \in 1..Len(r)
      PROVE  /\ SubSeq(r, 1, j) \in Seq(Nat) /\ Len(SubSeq(r, 1, j)) = j
             /\ \A i \in 1..j : SubSeq(r, 1, j)[i] = r[i]
  <2>1. 1 \in Int /\ j \in Int /\ \A i \in 1..j : r[i] \in Nat
    BY <1>1
  <2>2. /\ SubSeq(r, 1, j) \in Seq(Nat)
        /\ Len(SubSeq(r, 1, j)) = IF 1 <= j THEN j - 1 + 1 ELSE 0
        /\ \A i \in 1..(j - 1 + 1) : SubSeq(r, 1, j)[i] = r[1 + i - 1]
    BY <2>1, SubSeqProperties
  <2> DEFINE s == SubSeq(r, 1, j)
  <2> HIDE DEF s
  <2>3. s \in Seq(Nat) /\ Len(s) = j /\ \A i \in 1..j : s[i] = r[i]
    BY <1>1, <2>2 DEF s
  <2> QED BY <2>3 DEF s
<1> DEFINE s(j) == SubSeq(r, 1, j)
<1> HIDE DEF s
<1>3. \A j \in 1..Len(r) :
          s(j) \in Seq(Nat) /\ Len(s(j)) = j /\ \A i \in 1..j : s(j)[i] = r[i]
  BY <1>2 DEF s
<1>4. ASSUME NEW j \in 2..Len(r) PROVE Front(s(j)) = s(j - 1)
  <2>1. j \in 1..Len(r) /\ j - 1 \in 1..Len(r) /\ Len(s(j)) = j
    BY <1>1, <1>3
  <2> DEFINE u == Front(s(j))
  <2>2. u = SubSeq(s(j), 1, j - 1)
    BY <2>1 DEF Front
  <2>3. u \in Seq(Nat) /\ Len(u) = j - 1 /\ \A i \in 1..(j - 1) : u[i] = r[i]
    <3> HIDE DEF u
    <3>1. /\ 1 \in Int /\ j - 1 \in Int
          /\ \A i \in 1..(j - 1) : s(j)[i] = r[i] /\ s(j)[i] \in Nat
      BY SMTT(60), <1>1, <1>3, <2>1
    <3>2. /\ u \in Seq(Nat) /\ Len(u) = IF 1 <= j - 1 THEN (j - 1) - 1 + 1 ELSE 0
          /\ \A i \in 1..((j - 1) - 1 + 1) : u[i] = s(j)[1 + i - 1]
      BY <2>2, <3>1, SubSeqProperties
    <3> QED BY <2>1, <3>1, <3>2
  <2> HIDE DEF u
  <2>4. /\ s(j - 1) \in Seq(Nat) /\ Len(s(j - 1)) = j - 1
        /\ \A i \in 1..(j - 1) : s(j - 1)[i] = r[i]
    BY <1>3, <2>1
  <2>5. u = s(j - 1)
    BY <2>3, <2>4, SeqEqual
  <2> QED BY <2>5 DEF u
<1>5. s(Len(r)) = r
  BY <1>1, SubSeqFull DEF s
<1> DEFINE T == {d \in Nat : d < Len(r) => /\ s(Len(r) - d) \in Paths
                                           /\ d > 0 => s(Len(r) - d) \in Messages}
<1>6. 0 \in T
  BY <1>1, <1>5
<1>7. ASSUME NEW d \in T, d + 1 < Len(r) PROVE s(Len(r) - (d + 1)) \in Messages
  <2>1. PICK j \in 2..Len(r) : j = Len(r) - d
    BY <1>1, <1>7
  <2>2. j - 1 = Len(r) - (d + 1) /\ j \in 1..Len(r) /\ d < Len(r)
    BY <1>1, <1>7, <2>1
  <2>3. s(j) \in Paths
    BY <2>1, <2>2
  <2>4. Front(s(j)) \in Messages
    BY <1>3, <2>1, <2>2, <2>3, Path
  <2> QED BY <1>4, <2>2, <2>4
<1>8. ASSUME NEW d \in T PROVE d + 1 \in T
  <2>1. d + 1 \in Nat
    OBVIOUS
  <2> QED BY <1>7, <2>1 DEF Paths
<1>9. Len(r) - k \in T
  <2> HIDE DEF T
  <2>1. T = Nat
    BY <1>6, <1>8, SetInduction DEF T
  <2> QED BY <1>1, <2>1
<1>10. s(k) \in Paths /\ (k < Len(r) => s(k) \in Messages)
  <2>1. PICK l \in Nat : l = Len(r)
    BY <1>1
  <2>2. l - (l - k) = k /\ l - k < l /\ (k < l => l - k > 0)
    BY <2>1
  <2> QED BY <1>9, <2>1, <2>2
<1>11. k > 1 => Front(s(k)) = s(k - 1)
  BY <1>4
<1>12. Len(s(k)) = k /\ s(k)[1] = r[1]
  BY <1>1, <1>3
<1> QED BY <1>5, <1>10, <1>11, <1>12 DEF s

\* The keys below a message, none of them in a repeated field.
KeyPaths(q) ==
    {r \in Paths : /\ Len(r) > Len(q) /\ SubSeq(r, 1, Len(q)) = q
                   /\ FieldAt(r).primary
                   /\ \A k \in (Len(q) + 1)..Len(r) : ~FieldAt(SubSeq(r, 1, k)).repeated}

LEMMA KeysBelow ==
    ASSUME NEW q \in Messages, NEW r
    PROVE  r \in KeyPaths(q) <=>
               \E f \in ToSet(Fields[q]) :
                   /\ ~f.repeated
                   /\ \/ f.primary /\ r = Append(q, f.number)
                      \/ f.message /\ r \in KeyPaths(Append(q, f.number))
<1>0. q \in Paths /\ Len(q) \in Nat \ {0}
  BY Schema DEF Paths
<1>1. ASSUME r \in KeyPaths(q)
      PROVE  \E f \in ToSet(Fields[q]) :
                   /\ ~f.repeated
                   /\ \/ f.primary /\ r = Append(q, f.number)
                      \/ f.message /\ r \in KeyPaths(Append(q, f.number))
  <2> DEFINE k == Len(q) + 1
             c == SubSeq(r, 1, k)
             f == FieldAt(c)
  <2>1. /\ r \in Paths /\ Len(r) \in Nat /\ Len(r) > Len(q) /\ SubSeq(r, 1, Len(q)) = q
        /\ FieldAt(r).primary
        /\ \A j \in (Len(q) + 1)..Len(r) : ~FieldAt(SubSeq(r, 1, j)).repeated
    BY <1>1, Path DEF KeyPaths
  <2>2. k \in 1..Len(r) /\ k > 1 /\ k - 1 = Len(q)
    BY <1>0, <2>1
  <2>3. /\ c \in Paths /\ Len(c) = k /\ Front(c) = q
        /\ k < Len(r) => c \in Messages
        /\ k = Len(r) => c = r
    <3> HIDE DEF k
    <3> QED BY <2>1, <2>2, Prefix
  <2>4. ~f.repeated
    BY <1>0, <2>1, <2>2
  <2> HIDE DEF c, f
  <2>5. /\ f \in ToSet(Fields[q]) /\ c = Append(q, f.number)
        /\ f.message <=> c \in Messages
    BY SMTT(60), <1>0, <2>2, <2>3, Path DEF f
  <2>6. CASE k = Len(r)
    BY <2>1, <2>3, <2>4, <2>5, <2>6 DEF f
  <2>7. CASE k # Len(r)
    <3>1. k < Len(r)
      BY <2>1, <2>2, <2>7
    <3>2. r \in KeyPaths(c)
      <4>1. \A j \in (k + 1)..Len(r) : j \in (Len(q) + 1)..Len(r)
        BY <1>0, <2>1
      <4>2. SubSeq(r, 1, Len(c)) = c /\ Len(r) > Len(c)
        BY <2>3, <3>1 DEF c
      <4>3. \A j \in (Len(c) + 1)..Len(r) : ~FieldAt(SubSeq(r, 1, j)).repeated
        BY <2>1, <2>3, <4>1
      <4> QED BY <2>1, <4>2, <4>3 DEF KeyPaths
    <3>3. f.message
      BY <2>3, <2>5, <3>1
    <3> QED BY <2>4, <2>5, <3>2, <3>3
  <2> QED BY <2>6, <2>7
<1>2. ASSUME NEW f \in ToSet(Fields[q]), ~f.repeated,
             \/ f.primary /\ r = Append(q, f.number)
             \/ f.message /\ r \in KeyPaths(Append(q, f.number))
      PROVE  r \in KeyPaths(q)
  <2> DEFINE k == Len(q) + 1
             c == Append(q, f.number)
  <2>1. /\ c \in Paths /\ Len(c) = k /\ Front(c) = q /\ FieldAt(c) = f
        /\ k \in Nat /\ k > 1 /\ k - 1 = Len(q)
    BY <1>0, Child
  <2>2. (f.primary /\ r = c) \/ (f.message /\ r \in KeyPaths(c))
    BY <1>2
  <2> HIDE DEF c, k
  <2>3. SubSeq(c, 1, k) = c /\ SubSeq(c, 1, Len(q)) = q
    <3>1. k \in 1..Len(c)
      BY <2>1
    <3>2. /\ k > 1 => Front(SubSeq(c, 1, k)) = SubSeq(c, 1, k - 1)
          /\ SubSeq(c, 1, Len(c)) = c
      BY <2>1, <3>1, Prefix
    <3>3. SubSeq(c, 1, k) = c
      BY <2>1, <3>2
    <3>4. SubSeq(c, 1, Len(q)) = SubSeq(c, 1, k - 1)
      BY <2>1
    <3> QED BY <2>1, <3>2, <3>3, <3>4
  <2>4. CASE f.primary /\ r = c
    <3>1. \A j \in (Len(q) + 1)..Len(c) : j = k
      BY <1>0, <2>1 DEF k
    <3>2. Len(c) > Len(q)
      BY <1>0, <2>1
    <3> QED BY <1>2, <2>1, <2>3, <2>4, <3>1, <3>2 DEF KeyPaths
  <2>5. CASE f.message /\ r \in KeyPaths(c)
    <3>1. /\ r \in Paths /\ Len(r) \in Nat /\ Len(r) > k /\ SubSeq(r, 1, k) = c
          /\ FieldAt(r).primary
          /\ \A j \in (k + 1)..Len(r) : ~FieldAt(SubSeq(r, 1, j)).repeated
      BY <2>1, <2>5, Path DEF KeyPaths
    <3>2. SubSeq(r, 1, Len(q)) = q
      <4>1. k \in 1..Len(r)
        BY <2>1, <3>1
      <4> QED BY <2>1, <3>1, <4>1, Prefix
    <3>3. ASSUME NEW j \in (Len(q) + 1)..Len(r) PROVE ~FieldAt(SubSeq(r, 1, j)).repeated
      <4>1. j = k \/ j \in (k + 1)..Len(r)
        BY <1>0, <2>1, <3>1 DEF k
      <4> QED BY <1>2, <2>1, <3>1, <4>1
    <3>4. Len(r) > Len(q)
      BY <1>0, <2>1, <3>1
    <3> QED BY <3>1, <3>2, <3>3, <3>4 DEF KeyPaths
  <2> QED BY <2>2, <2>4, <2>5
<1> QED BY <1>1, <1>2

LEMMA PrimaryGood ==
    ASSUME NEW p \in Messages
    PROVE  FindPrimaryFields(p) = {Key[r] : r \in KeyPaths(p)}
<1>1. PICK n \in Nat : \A q \in Messages : Len(q) <= n
  BY Depth
<1>2. PICK primary : /\ \A q \in Messages : primary[q] = PrimaryOf(primary, q)
                     /\ \A q \in Messages : FindPrimaryFields(q) = primary[q]
  BY PrimaryIs
<1> DEFINE Good(q) == primary[q] = {Key[r] : r \in KeyPaths(q)}
           T == {d \in Nat : \A q \in Messages : Len(q) + d > n => Good(q)}
<1>3. 0 \in T
  BY <1>1, Schema
<1>4. ASSUME NEW d \in T, NEW q \in Messages, Len(q) + (d + 1) > n PROVE Good(q)
  <2> DEFINE part(f) ==
          LET r == Append(q, f.number) IN
            (IF f.primary THEN {Key[r]} ELSE {})
              \cup (IF f.message THEN primary[r] ELSE {})
  <2>1. primary[q] = UNION {part(f) : f \in {g \in ToSet(Fields[q]) : ~g.repeated}}
    BY <1>2 DEF PrimaryOf
  <2>2. ASSUME NEW f \in ToSet(Fields[q]), f.message
        PROVE  primary[Append(q, f.number)]
                   = {Key[r] : r \in KeyPaths(Append(q, f.number))}
    <3> DEFINE c == Append(q, f.number)
    <3>1. c \in Messages /\ Len(c) = Len(q) + 1 /\ Len(q) \in Nat
      BY <2>2, Child, Schema
    <3> HIDE DEF c
    <3>2. Len(c) + d > n
      BY <1>4, <3>1
    <3>3. Good(c)
      <4> HIDE DEF Good
      <4> QED BY <3>1, <3>2
    <3> QED BY <3>3 DEF c
  <2>3. ASSUME NEW k PROVE k \in primary[q] <=> \E r \in KeyPaths(q) : k = Key[r]
    <3>1. k \in primary[q] <=>
              \E f \in ToSet(Fields[q]) : ~f.repeated /\ k \in part(f)
      <4> HIDE DEF part
      <4> QED BY <2>1
    <3>2. ASSUME NEW f \in ToSet(Fields[q])
          PROVE  k \in part(f) <=>
                     \E r : /\ k = Key[r]
                            /\ \/ f.primary /\ r = Append(q, f.number)
                               \/ f.message /\ r \in KeyPaths(Append(q, f.number))
      <4> DEFINE c == Append(q, f.number)
      <4> DEFINE below == KeyPaths(c)
      <4>1. f.message => primary[c] = {Key[r] : r \in below}
        BY <2>2
      <4> HIDE DEF c, below
      <4>2. part(f) = (IF f.primary THEN {Key[c]} ELSE {})
                        \cup (IF f.message THEN primary[c] ELSE {})
        BY DEF c
      <4> HIDE DEF part
      <4>3. k \in part(f) <=> \E r : /\ k = Key[r]
                                     /\ \/ f.primary /\ r = c
                                        \/ f.message /\ r \in below
        BY <4>1, <4>2
      <4> QED BY <4>3 DEF c, below
    <3>3. \A r : r \in KeyPaths(q) <=>
               \E f \in ToSet(Fields[q]) :
                   /\ ~f.repeated
                   /\ \/ f.primary /\ r = Append(q, f.number)
                      \/ f.message /\ r \in KeyPaths(Append(q, f.number))
      BY KeysBelow
    <3> HIDE DEF part
    <3> QED BY <3>1, <3>2, <3>3, Zenon
  <2> QED BY <2>3
<1>5. ASSUME NEW d \in T PROVE d + 1 \in T
  <2> HIDE DEF Good
  <2>1. d + 1 \in Nat
    OBVIOUS
  <2> QED BY <1>4, <2>1
<1>6. Good(p)
  <2>1. n \in T
    <3> HIDE DEF T
    <3>1. T = Nat
      BY <1>3, <1>5, SetInduction DEF T
    <3> QED BY <3>1
  <2>2. Len(p) + n > n
    BY Schema
  <2> HIDE DEF Good
  <2> QED BY <2>1, <2>2
<1> QED BY <1>2, <1>6

\* The primary keys found for a table are the key fields below it, in any depth,
\* that are in no repeated field or map (relation_manager.cpp:12-39).
THEOREM TableKeys ==
    ASSUME NEW t, <<t>> \in Messages
    PROVE  FindPrimaryFields(<<t>>) =
               {Key[r] : r \in {q \in Paths : /\ Len(q) > 1 /\ q[1] = t
                                              /\ FieldAt(q).primary /\ ~InRepeated(q)}}
<1> DEFINE p == <<t>>
<1>1. Len(p) = 1
  OBVIOUS
<1>2. ASSUME NEW q \in Paths, Len(q) > 1 PROVE SubSeq(q, 1, 1) = p <=> q[1] = t
  <2>1. 1 \in 1..Len(q)
    BY <1>2, Path
  <2>2. SubSeq(q, 1, 1) \in Paths /\ Len(SubSeq(q, 1, 1)) = 1 /\ SubSeq(q, 1, 1)[1] = q[1]
    BY <2>1, Prefix
  <2> DEFINE s == SubSeq(q, 1, 1)
  <2>3. s \in Paths /\ Len(s) = 1 /\ s[1] = q[1]
    BY <2>2
  <2> HIDE DEF s
  <2>4. s = <<q[1]>>
    BY <2>3, Path
  <2> QED BY <2>4 DEF s
<1>3. ASSUME NEW q \in Paths, Len(q) > 1
      PROVE  (\A k \in 2..Len(q) : ~FieldAt(SubSeq(q, 1, k)).repeated) <=> ~InRepeated(q)
  BY DEF InRepeated
<1>4. KeyPaths(p) = {q \in Paths : /\ Len(q) > 1 /\ q[1] = t
                                   /\ FieldAt(q).primary /\ ~InRepeated(q)}
  <2> HIDE DEF p
  <2>1. KeyPaths(p) = {q \in Paths : /\ Len(q) > 1 /\ SubSeq(q, 1, 1) = p
                                     /\ FieldAt(q).primary
                                     /\ \A k \in 2..Len(q) :
                                            ~FieldAt(SubSeq(q, 1, k)).repeated}
    BY <1>1 DEF KeyPaths
  <2> QED BY <1>2, <1>3, <2>1
<1> QED BY <1>4, PrimaryGood


-----------------------------------------------------------------------------
(* Maps.                                                                   *)

SameAt(f, g, x) ==
    /\ x \in DOMAIN g <=> x \in DOMAIN f
    /\ x \in DOMAIN f => g[x] = f[x]

LEMMA Assigned ==
    ASSUME NEW f, NEW k, NEW v
    PROVE  LET g == Assign(f, k, v)
           IN /\ k \in DOMAIN g /\ g[k] = v
              /\ \A x : x # k => SameAt(f, g, x)
BY DEF Assign, SameAt

LEMMA Emplaced ==
    ASSUME NEW f, NEW k, NEW v
    PROVE  LET g == Emplace(f, k, v)
           IN /\ k \in DOMAIN g /\ g[k] = IF k \in DOMAIN f THEN f[k] ELSE v
              /\ \A x : x # k => SameAt(f, g, x)
BY DEF Emplace, Assign, SameAt

LEMMA Found ==
    ASSUME NEW f, NEW g, NEW x, SameAt(f, g, x)
    PROVE  Find(g, x) = Find(f, x)
BY DEF SameAt, Find

\* A manager has all its maps; two are alike that differ in what only the
\* relatives of an object and the caches use.
HasMaps(m) == m = [x \in MapNames |-> m[x]]

Alike(m, n) ==
    /\ HasMaps(n)
    /\ \A x \in MapNames \ {"ParentMap", "SubtreeCache", "AncestorsCache"} : n[x] = m[x]

\* What RegisterField has done to m, for the key k of the object.
FieldRegistered(m, r, o, field, k, tables) ==
    LET kind == IF field.message THEN "FieldMessage" ELSE "PrimitiveField"
        table == m.TableByPath[tables[k]]
    IN /\ HasMaps(r)
       /\ r.ParentTable = tables
       /\ r.TableByPath =
             Assign(m.TableByPath, tables[k],
                    IF field.message THEN [table EXCEPT !.messages = @ \cup {k}]
                                     ELSE [table EXCEPT !.fields = @ \cup {k}])
       /\ r.FieldsByPath = Assign(m.FieldsByPath, k, o)
       /\ r.MessagesByPath = IF field.message THEN Assign(m.MessagesByPath, k, o)
                             ELSE m.MessagesByPath
       /\ r.PrimitiveFieldsByPath =
             IF field.message THEN m.PrimitiveFieldsByPath
             ELSE Assign(m.PrimitiveFieldsByPath, k, o)
       /\ r.ObjectType = Assign(m.ObjectType, k, kind)
       /\ r.RootMessagesByPath = m.RootMessagesByPath
       /\ r.ParentMap = m.ParentMap /\ r.SubtreeCache = m.SubtreeCache
       /\ r.PathToEntryName = Assign(m.PathToEntryName, k, field.name)
       /\ r.EntryNameToEntry =
             Enter(m.EntryNameToEntry, Key[Front(o.path)], field.name, field.number)

LEMMA RegisterFieldIs ==
    ASSUME NEW m, HasMaps(m), NEW o, NEW field
    PROVE  LET k == Key[o.path]
               tables == Emplace(m.ParentTable, k, m.ParentTable[Key[Front(o.path)]])
           IN FieldRegistered(m, RegisterField(m, o, field), o, field, k, tables)
<1> DEFINE k == Key[o.path]
           parent == Key[Front(o.path)]
           tables == Emplace(m.ParentTable, k, m.ParentTable[parent])
           r == RegisterField(m, o, field)
           names == Assign(m.PathToEntryName, k, field.name)
           entries == Enter(m.EntryNameToEntry, parent, field.name, field.number)
           old == m.TableByPath[tables[k]]
           table == Assign(m.TableByPath, tables[k],
                           IF field.message THEN [old EXCEPT !.messages = @ \cup {k}]
                                            ELSE [old EXCEPT !.fields = @ \cup {k}])
           objects == Assign(m.FieldsByPath, k, o)
           messages == IF field.message THEN Assign(m.MessagesByPath, k, o)
                       ELSE m.MessagesByPath
           primitives == IF field.message THEN m.PrimitiveFieldsByPath
                         ELSE Assign(m.PrimitiveFieldsByPath, k, o)
           types == Assign(m.ObjectType, k, IF field.message THEN "FieldMessage"
                                            ELSE "PrimitiveField")
<1>1. r = [m EXCEPT !.PathToEntryName = names, !.EntryNameToEntry = entries,
                    !.ParentTable = tables, !.TableByPath = table,
                    !.FieldsByPath = objects, !.MessagesByPath = messages,
                    !.PrimitiveFieldsByPath = primitives, !.ObjectType = types]
  BY DEF RegisterField
<1> HIDE DEF k, parent, tables, r, names, entries, table, objects, messages,
             primitives, types
<1>2. DOMAIN m = MapNames
  BY DEF HasMaps
<1>3. HasMaps(r)
  BY <1>1, <1>2 DEF HasMaps, MapNames
<1>4. /\ r.ParentTable = tables /\ r.TableByPath = table /\ r.FieldsByPath = objects
      /\ r.MessagesByPath = messages /\ r.PrimitiveFieldsByPath = primitives
      /\ r.ObjectType = types /\ r.RootMessagesByPath = m.RootMessagesByPath
      /\ r.ParentMap = m.ParentMap /\ r.SubtreeCache = m.SubtreeCache
      /\ r.PathToEntryName = names /\ r.EntryNameToEntry = entries
  BY <1>1, <1>2 DEF MapNames
<1>5. FieldRegistered(m, r, o, field, k, tables)
  BY <1>3, <1>4, Zenon DEF FieldRegistered, names, entries, parent, table, objects,
                          messages, primitives, types
<1> QED BY <1>5 DEF k, parent, tables, r

-----------------------------------------------------------------------------
(* The registration of the fields of a table.                              *)

\* GetHash gives no two paths one key, which a scheme can break (PathHash).
KeysDistinct == \A p, q \in Paths : Key[p] = Key[q] => p = q

\* The paths below the message of table t.
Under(t) == {q \in Paths : Len(q) > 1 /\ q[1] = t}

KindOf(p) == IF p \in Messages THEN "FieldMessage" ELSE "PrimitiveField"

\* The field q is on file, as registration n made it.
FieldFiled(m, q, n) ==
    LET k == Key[q]
        o == Object(q, n)
    IN /\ k \in DOMAIN m.FieldsByPath /\ m.FieldsByPath[k] = o
       /\ q \in Messages =>
              k \in DOMAIN m.MessagesByPath /\ m.MessagesByPath[k] = o
       /\ q \notin Messages =>
              k \in DOMAIN m.PrimitiveFieldsByPath /\ m.PrimitiveFieldsByPath[k] = o
       /\ k \in DOMAIN m.ObjectType /\ m.ObjectType[k] = KindOf(q)
       /\ k \in DOMAIN m.ParentTable

\* m knows under k what b knows.
KeyKept(b, m, k) ==
    /\ SameAt(b.FieldsByPath, m.FieldsByPath, k)
    /\ SameAt(b.MessagesByPath, m.MessagesByPath, k)
    /\ SameAt(b.PrimitiveFieldsByPath, m.PrimitiveFieldsByPath, k)
    /\ SameAt(b.ObjectType, m.ObjectType, k)
    /\ SameAt(b.ParentTable, m.ParentTable, k)

\* LeftoversHarmless, of any manager.
Harmless(m) ==
    \A p \in Paths :
        /\ Key[p] \in DOMAIN m.ParentTable => m.ParentTable[Key[p]] = Key[<<p[1]>>]
        /\ p \notin Messages => Key[p] \notin DOMAIN m.MessagesByPath

\* The TTableInfo of t when S is on file.
TableOf(t, S, primary) ==
    [path |-> <<t>>, messages |-> {Key[<<t>>]} \cup {Key[q] : q \in S \cap Messages},
     fields |-> {Key[q] : q \in S \ Messages}, primary |-> primary]

\* Between two calls of Process for registration n of t, which began with b: the
\* paths in S, entered so far, are on file, and of other paths nothing changed.
Filed(b, m, t, n, S, primary) ==
    /\ HasMaps(m) /\ Harmless(m)
    /\ m.RootMessagesByPath = b.RootMessagesByPath
    /\ m.SubtreeCache = b.SubtreeCache
    /\ \A q \in S : FieldFiled(m, q, n)
    /\ \A k : (\A q \in S : k # Key[q]) => KeyKept(b, m, k)
    /\ Key[<<t>>] \in DOMAIN m.ParentTable
    /\ Key[<<t>>] \in DOMAIN m.TableByPath
    /\ m.TableByPath[Key[<<t>>]] = TableOf(t, S, primary)
    /\ \A k : k # Key[<<t>>] => SameAt(b.TableByPath, m.TableByPath, k)

LEMMA SameAtTrans ==
    ASSUME NEW f, NEW g, NEW h, NEW x, SameAt(f, g, x), SameAt(g, h, x)
    PROVE  SameAt(f, h, x)
BY DEF SameAt

LEMMA OneField ==
    ASSUME KeysDistinct, NEW b, NEW m, NEW t \in Tables, NEW n, NEW S, NEW primary,
           Filed(b, m, t, n, S, primary),
           NEW q \in Paths, Len(q) > 1, q[1] = t, Front(q) \in S \cup {<<t>>},
           S \subseteq Paths
    PROVE  Filed(b, RegisterField(m, Object(q, n), FieldAt(q)),
                 t, n, S \cup {q}, primary)
<1> DEFINE k == Key[q]
           o == Object(q, n)
           field == FieldAt(q)
           parent == Key[Front(q)]
           tables == Emplace(m.ParentTable, k, m.ParentTable[parent])
           top == Key[<<t>>]
           r == RegisterField(m, o, field)
<1>1. HasMaps(m) /\ o.path = q
  BY DEF Filed, Object
<1>2. FieldRegistered(m, r, o, field, k, tables)
  <2> HIDE DEF o, field
  <2> QED BY <1>1, RegisterFieldIs
<1>3. /\ q \in Paths /\ (field.message <=> q \in Messages)
      /\ Front(q) \in Paths /\ Front(q)[1] = t /\ <<t>> \in Paths /\ <<t>>[1] = t
  <2>1. <<t>> \in Messages /\ <<t>>[1] = t
    BY RelationsAssumption
  <2>2. /\ Front(q) \in Messages /\ Front(q)[1] = t
        /\ FieldAt(q).message <=> q \in Messages
    BY Path
  <2> QED BY <2>1, <2>2 DEF Paths
<1>4. KindOf(q) = IF field.message THEN "FieldMessage" ELSE "PrimitiveField"
  BY <1>3 DEF KindOf
<1> HIDE DEF r, o, field
<1>5. parent \in DOMAIN m.ParentTable /\ m.ParentTable[parent] = top
  <2>1. parent \in DOMAIN m.ParentTable
    BY DEF Filed, FieldFiled
  <2>2. m.ParentTable[Key[Front(q)]] = Key[<<Front(q)[1]>>]
    BY <1>3, <2>1 DEF Filed, Harmless
  <2> QED BY <1>3, <2>1, <2>2
<1>6. /\ k \in DOMAIN tables /\ tables[k] = top
      /\ \A x : x # k => SameAt(m.ParentTable, tables, x)
  <2>1. k \in DOMAIN m.ParentTable => m.ParentTable[k] = top
    BY <1>3 DEF Filed, Harmless
  <2> HIDE DEF k, top, parent
  <2> QED BY <1>5, <2>1, Emplaced
<1> HIDE DEF tables, parent
<1>7. \A x \in Paths : x # q => Key[x] # k
  BY <1>3 DEF KeysDistinct
<1>8. Harmless(r)
  <2>1. ASSUME NEW x \in Paths, Key[x] \in DOMAIN tables
        PROVE  tables[Key[x]] = Key[<<x[1]>>]
    <3>1. CASE x = q
      BY <1>6, <3>1
    <3>2. CASE x # q
      <4>1. SameAt(m.ParentTable, tables, Key[x])
        BY <1>6, <1>7, <3>2
      <4> QED BY <2>1, <4>1 DEF SameAt, Filed, Harmless
    <3> QED BY <3>1, <3>2
  <2>2. ASSUME NEW x \in Paths \ Messages PROVE Key[x] \notin DOMAIN r.MessagesByPath
    <3>1. Key[x] \notin DOMAIN m.MessagesByPath
      BY DEF Filed, Harmless
    <3>2. CASE field.message
      <4>1. Key[x] # k
        BY <1>3, <1>7, <3>2
      <4>2. SameAt(m.MessagesByPath, r.MessagesByPath, Key[x])
        BY <1>2, <3>2, <4>1, Assigned DEF FieldRegistered
      <4> QED BY <3>1, <4>2 DEF SameAt
    <3>3. CASE ~field.message
      BY <1>2, <3>1, <3>3 DEF FieldRegistered
    <3> QED BY <3>2, <3>3
  <2> QED BY <1>2, <2>1, <2>2 DEF Harmless, FieldRegistered
<1>9. FieldFiled(r, q, n)
  <2>1. k \in DOMAIN r.FieldsByPath /\ r.FieldsByPath[k] = o
    BY <1>2, Assigned DEF FieldRegistered
  <2>2. q \in Messages => k \in DOMAIN r.MessagesByPath /\ r.MessagesByPath[k] = o
    BY <1>2, <1>3, Assigned DEF FieldRegistered
  <2>3. q \notin Messages =>
            k \in DOMAIN r.PrimitiveFieldsByPath /\ r.PrimitiveFieldsByPath[k] = o
    BY <1>2, <1>3, Assigned DEF FieldRegistered
  <2>4. k \in DOMAIN r.ObjectType /\ r.ObjectType[k] = KindOf(q)
    BY <1>2, <1>4, Assigned DEF FieldRegistered
  <2>5. k \in DOMAIN r.ParentTable
    BY <1>2, <1>6 DEF FieldRegistered
  <2> QED BY <2>1, <2>2, <2>3, <2>4, <2>5 DEF FieldFiled, o
<1>10. ASSUME NEW y, y # k PROVE KeyKept(m, r, y)
  <2>2. SameAt(m.FieldsByPath, r.FieldsByPath, y)
    BY <1>2, <1>10, Assigned DEF FieldRegistered
  <2>3. SameAt(m.MessagesByPath, r.MessagesByPath, y)
    BY <1>2, <1>10, Assigned DEF SameAt, FieldRegistered
  <2>4. SameAt(m.PrimitiveFieldsByPath, r.PrimitiveFieldsByPath, y)
    BY <1>2, <1>10, Assigned DEF SameAt, FieldRegistered
  <2>5. SameAt(m.ObjectType, r.ObjectType, y)
    BY <1>2, <1>10, Assigned DEF FieldRegistered
  <2>6. SameAt(m.ParentTable, r.ParentTable, y)
    BY <1>2, <1>6, <1>10 DEF FieldRegistered
  <2> QED BY <2>2, <2>3, <2>4, <2>5, <2>6 DEF KeyKept
<1>11. ASSUME NEW x \in S PROVE FieldFiled(r, x, n)
  <2>1. CASE x = q
    BY <1>9, <2>1
  <2>2. CASE x # q
    <3>1. KeyKept(m, r, Key[x])
      BY <1>7, <1>10, <2>2
    <3>2. FieldFiled(m, x, n)
      BY DEF Filed
    <3> QED BY <3>1, <3>2 DEF FieldFiled, KeyKept, SameAt
  <2> QED BY <2>1, <2>2
<1>12. ASSUME NEW y, \A x \in S \cup {q} : y # Key[x] PROVE KeyKept(b, r, y)
  <2>1. KeyKept(m, r, y)
    BY <1>10, <1>12
  <2>2. KeyKept(b, m, y)
    BY <1>12 DEF Filed
  <2> QED BY <2>1, <2>2, SameAtTrans DEF KeyKept
<1>13. /\ top \in DOMAIN m.TableByPath
       /\ m.TableByPath[top] = TableOf(t, S, primary)
       /\ \A x : x # top => SameAt(b.TableByPath, m.TableByPath, x)
  BY DEF Filed
<1>14. /\ top \in DOMAIN r.TableByPath
       /\ r.TableByPath[top] = IF field.message
             THEN [m.TableByPath[top] EXCEPT !.messages = @ \cup {k}]
             ELSE [m.TableByPath[top] EXCEPT !.fields = @ \cup {k}]
       /\ \A x : x # top => SameAt(m.TableByPath, r.TableByPath, x)
  <2> DEFINE new == IF field.message
                    THEN [m.TableByPath[top] EXCEPT !.messages = @ \cup {k}]
                    ELSE [m.TableByPath[top] EXCEPT !.fields = @ \cup {k}]
  <2>1. r.TableByPath = Assign(m.TableByPath, top, new)
    BY <1>2, <1>6 DEF FieldRegistered
  <2> HIDE DEF top, new
  <2> QED BY <2>1, Assigned DEF new
<1>15. r.TableByPath[top] = TableOf(t, S \cup {q}, primary)
  <2> DEFINE messages == {top} \cup {Key[x] : x \in S \cap Messages}
             fields == {Key[x] : x \in S \ Messages}
             root == <<t>>
             old == m.TableByPath[top]
  <2>1. old = [path |-> root, messages |-> messages, fields |-> fields,
               primary |-> primary]
    BY <1>13 DEF TableOf
  <2>2. CASE field.message
    <3>1. {top} \cup {Key[x] : x \in (S \cup {q}) \cap Messages} = messages \cup {k}
      BY <1>3, <2>2
    <3>2. {Key[x] : x \in (S \cup {q}) \ Messages} = fields
      BY <1>3, <2>2
    <3>3. r.TableByPath[top] = [old EXCEPT !.messages = @ \cup {k}]
      BY <1>14, <2>2
    <3> HIDE DEF messages, fields, root, old, k, top
    <3>4. r.TableByPath[top] = [path |-> root, messages |-> messages \cup {k},
                                fields |-> fields, primary |-> primary]
      BY <2>1, <3>3
    <3> QED BY <3>1, <3>2, <3>4 DEF TableOf, top, root
  <2>3. CASE ~field.message
    <3>1. {top} \cup {Key[x] : x \in (S \cup {q}) \cap Messages} = messages
      BY <1>3, <2>3
    <3>2. {Key[x] : x \in (S \cup {q}) \ Messages} = fields \cup {k}
      BY <1>3, <2>3
    <3>3. r.TableByPath[top] = [old EXCEPT !.fields = @ \cup {k}]
      BY <1>14, <2>3
    <3> HIDE DEF messages, fields, root, old, k, top
    <3>4. r.TableByPath[top] = [path |-> root, messages |-> messages,
                                fields |-> fields \cup {k}, primary |-> primary]
      BY <2>1, <3>3
    <3> QED BY <3>1, <3>2, <3>4 DEF TableOf, top, root
  <2> QED BY <2>2, <2>3
<1>16. \A x : x # top => SameAt(b.TableByPath, r.TableByPath, x)
  <2> HIDE DEF top
  <2> QED BY <1>13, <1>14, SameAtTrans
<1>17. top \in DOMAIN r.ParentTable
  <2>1. top \in DOMAIN m.ParentTable
    BY DEF Filed
  <2>2. top = k \/ SameAt(m.ParentTable, tables, top)
    BY <1>6
  <2> QED BY <1>2, <1>6, <2>1, <2>2 DEF SameAt, FieldRegistered
<1>18. r.RootMessagesByPath = b.RootMessagesByPath /\ r.SubtreeCache = b.SubtreeCache
  BY <1>2 DEF Filed, FieldRegistered
<1> HIDE DEF top, k
<1>19. Filed(b, r, t, n, S \cup {q}, primary)
  BY <1>2, <1>8, <1>9, <1>11, <1>12, <1>13, <1>14, <1>15, <1>16, <1>17, <1>18
     DEF Filed, FieldRegistered, top
<1> QED BY <1>19 DEF r, o, field

\* The states between the calls of Process.
LEMMA ProcessIs ==
    ASSUME NEW m, NEW p \in Messages, NEW n, NEW size \in Nat, Len(Walk[p]) = size
    PROVE  \E after :
              /\ after[0] = [manager |-> m, parents |-> <<>>]
              /\ \A i \in 1..size : after[i] = Visit(after[i - 1], Walk[p][i], n)
              /\ Process(m, p, n) = after[size].manager
<1> DEFINE calls == Walk[p]
           start == [manager |-> m, parents |-> <<>>]
           Step(f, i) == IF i = 0 THEN start ELSE Visit(f[i - 1], calls[i], n)
           Is(f, k) == f = [i \in 0..k |-> Step(f, i)]
           T == {k \in Nat : \E f : Is(f, k)}
<1>1. 0 \in T
  <2>1. Is([i \in 0..0 |-> start], 0)
    OBVIOUS
  <2> QED BY <2>1
<1>2. ASSUME NEW k \in T PROVE k + 1 \in T
  <2>1. k \in Nat /\ \E f : Is(f, k)
    OBVIOUS
  <2>2. PICK f : Is(f, k)
    BY <2>1
  <2> DEFINE g == [i \in 0..(k + 1) |-> Step(f, i)]
  <2>3. ASSUME NEW i \in 0..(k + 1), i # 0 PROVE g[i - 1] = f[i - 1]
    <3>1. i - 1 \in 0..k /\ i - 1 \in 0..(k + 1)
      BY <2>1, <2>3
    <3> HIDE DEF Step
    <3> QED BY <2>2, <3>1
  <2>4. ASSUME NEW i \in 0..(k + 1) PROVE Step(f, i) = Step(g, i)
    <3> HIDE DEF g
    <3> QED BY <2>3
  <2>5. Is(g, k + 1)
    <3> HIDE DEF Step
    <3> QED BY <2>4
  <2> HIDE DEF g, Is
  <2>6. \E h : Is(h, k + 1)
    BY <2>5
  <2> QED BY <2>1, <2>6
<1>3. size \in T
  <2> HIDE DEF T
  <2>1. T = Nat
    BY <1>1, <1>2, SetInduction DEF T
  <2> QED BY <2>1
<1>4. \E f : Is(f, size)
  BY <1>3
<1> DEFINE after == CHOOSE f : Is(f, size)
<1>5. Is(after, size)
  <2> HIDE DEF Is
  <2> QED BY <1>4
<1>6. Process(m, p, n) = after[size].manager
  BY DEF Process
<1> HIDE DEF after
<1>7. after[0] = start /\ \A i \in 1..size : after[i] = Visit(after[i - 1], calls[i], n)
  BY <1>5
<1> QED BY <1>6, <1>7

\* SetParentMessage and the caches leave what is filed alone.
LEMMA AlikeFiled ==
    ASSUME NEW b, NEW m, NEW r, NEW t, NEW n, NEW S, NEW primary,
           Filed(b, m, t, n, S, primary), Alike(m, r), r.SubtreeCache = m.SubtreeCache
    PROVE  Filed(b, r, t, n, S, primary)
<1>1. /\ HasMaps(r) /\ r.RootMessagesByPath = m.RootMessagesByPath
      /\ r.TableByPath = m.TableByPath /\ r.ParentTable = m.ParentTable
      /\ r.MessagesByPath = m.MessagesByPath /\ r.FieldsByPath = m.FieldsByPath
      /\ r.PrimitiveFieldsByPath = m.PrimitiveFieldsByPath
      /\ r.ObjectType = m.ObjectType
  BY DEF Alike, MapNames
<1>2. Harmless(r)
  BY <1>1 DEF Filed, Harmless
<1>3. \A q \in S : FieldFiled(r, q, n)
  BY <1>1 DEF Filed, FieldFiled
<1>4. \A k : (\A q \in S : k # Key[q]) => KeyKept(b, r, k)
  BY <1>1 DEF Filed, KeyKept
<1> QED BY <1>1, <1>2, <1>3, <1>4 DEF Filed

LEMMA SetParentAlike ==
    ASSUME NEW m, HasMaps(m), NEW o, NEW parent
    PROVE  LET r == SetParentMessage(m, o, parent)
           IN /\ Alike(m, r) /\ r.SubtreeCache = m.SubtreeCache
              /\ r.ParentMap = Assign(m.ParentMap, o, parent)
              /\ r.AncestorsCache = Nothing
<1> DEFINE parents == Assign(m.ParentMap, o, parent)
           r == SetParentMessage(m, o, parent)
<1>1. r = [m EXCEPT !.ParentMap = parents, !.AncestorsCache = Nothing]
  BY DEF SetParentMessage
<1>2. DOMAIN m = MapNames
  BY DEF HasMaps
<1> HIDE DEF r, parents
<1>3. HasMaps(r)
  BY <1>1, <1>2 DEF HasMaps, MapNames
<1>4. \A x \in MapNames \ {"ParentMap", "AncestorsCache"} : r[x] = m[x]
  BY <1>1, <1>2
<1>5. r.SubtreeCache = m.SubtreeCache
  BY <1>4 DEF MapNames
<1>6. r.ParentMap = parents /\ r.AncestorsCache = Nothing
  BY <1>1, <1>2 DEF MapNames
<1>7. Alike(m, r)
  BY <1>3, <1>4 DEF Alike
<1> QED BY <1>5, <1>6, <1>7 DEF r, parents

\* The calls of Process for a table, and what the first i of them have entered.
SeenIn(calls, i) == {calls[j].path : j \in {j \in 1..i : ~calls[j].leave}}

LEMMA TableCalls ==
    ASSUME NEW t \in Tables
    PROVE  LET calls == Walk[<<t>>]
           IN \E size \in Nat :
                 /\ Len(calls) = size
                 /\ SeenIn(calls, 0) = {} /\ SeenIn(calls, size) = Under(t)
                 /\ \A i \in 0..size : SeenIn(calls, i) \subseteq Under(t)
                 /\ \A i \in 1..size :
                       /\ calls[i].path \in Under(t)
                       /\ calls[i].field = FieldAt(calls[i].path)
                       /\ Front(calls[i].path) \in SeenIn(calls, i - 1) \cup {<<t>>}
                       /\ SeenIn(calls, i) =
                             IF calls[i].leave THEN SeenIn(calls, i - 1)
                             ELSE SeenIn(calls, i - 1) \cup {calls[i].path}
<1> DEFINE calls == Walk[<<t>>]
<1>1. <<t>> \in Messages /\ <<t>>[1] = t
  BY RelationsAssumption
<1>2. calls \in Seq(CallsOf(t)) /\ Ordered(calls, {<<t>>}) /\ Entered(calls) = Under(t)
  BY <1>1, WalkGood, AllEntered DEF Whole, Under
<1> HIDE DEF calls
<1>3. PICK size \in Nat : Len(calls) = size /\ DOMAIN calls = 1..size
  BY <1>2, LenProperties
<1>4. ASSUME NEW i \in 1..size
      PROVE  /\ calls[i].path \in Under(t) /\ calls[i].field = FieldAt(calls[i].path)
             /\ Front(calls[i].path) \in SeenIn(calls, i - 1) \cup {<<t>>}
  <2>1. calls[i] \in CallsOf(t)
    <3> DEFINE S == CallsOf(t)
    <3> HIDE DEF S
    <3>1. calls \in Seq(S)
      BY <1>2 DEF S
    <3>2. calls[i] \in S
      BY <1>3, <3>1, ElementOfSeq
    <3> QED BY <3>2 DEF S
  <2>2. PICK q \in Under(t), left \in BOOLEAN :
            calls[i] = [path |-> q, field |-> FieldAt(q), leave |-> left]
    <3>1. CallsOf(t) = {[path |-> q, field |-> FieldAt(q), leave |-> left] :
                            q \in Under(t), left \in BOOLEAN}
      BY DEF CallsOf, Under
    <3> QED BY <2>1, <3>1
  <2>3. Front(calls[i].path) \in SeenIn(calls, i - 1) \cup {<<t>>}
    BY <1>2, <1>3 DEF Ordered, SeenIn
  <2> QED BY <2>2, <2>3
<1>5. ASSUME NEW i \in 1..size
      PROVE  SeenIn(calls, i) = IF calls[i].leave THEN SeenIn(calls, i - 1)
                                ELSE SeenIn(calls, i - 1) \cup {calls[i].path}
  <2>1. 1..i = 1..(i - 1) \cup {i}
    OBVIOUS
  <2>2. {j \in 1..i : ~calls[j].leave} =
            {j \in 1..(i - 1) : ~calls[j].leave}
              \cup (IF calls[i].leave THEN {} ELSE {i})
    BY <2>1
  <2> QED BY <2>2 DEF SeenIn
<1>6. SeenIn(calls, 0) = {}
  BY DEF SeenIn
<1>7. SeenIn(calls, size) = Under(t)
  BY <1>2, <1>3 DEF SeenIn, Entered
<1>8. \A i \in 0..size : SeenIn(calls, i) \subseteq Under(t)
  <2> SUFFICES ASSUME NEW i \in 0..size, NEW j \in 1..i PROVE calls[j].path \in Under(t)
    BY DEF SeenIn
  <2>1. j \in 1..size
    OBVIOUS
  <2> QED BY <1>4, <2>1
<1> QED BY <1>3, <1>4, <1>5, <1>6, <1>7, <1>8 DEF calls

\* The states between the calls of Process for a table.
Runs(after, b, t, n, size) ==
    /\ Len(Walk[<<t>>]) = size
    /\ after[0] = [manager |-> b, parents |-> <<>>]
    /\ \A i \in 1..size : after[i] = Visit(after[i - 1], Walk[<<t>>][i], n)

\* After each call, what has been entered is on file.
LEMMA StepsFiled ==
    ASSUME KeysDistinct, NEW t \in Tables, NEW n, NEW b, NEW primary,
           Filed(b, b, t, n, {}, primary),
           NEW size \in Nat, NEW after, Runs(after, b, t, n, size)
    PROVE  \A i \in 0..size :
               Filed(b, after[i].manager, t, n, SeenIn(Walk[<<t>>], i), primary)
<1> DEFINE calls == Walk[<<t>>]
           Seen(i) == SeenIn(calls, i)
           Good(i) == Filed(b, after[i].manager, t, n, Seen(i), primary)
           T == {i \in Nat : i <= size => Good(i)}
<1>1. /\ Seen(0) = {}
      /\ \A i \in 0..size : Seen(i) \subseteq Under(t)
      /\ \A i \in 1..size :
            /\ calls[i].path \in Under(t)
            /\ calls[i].field = FieldAt(calls[i].path)
            /\ Front(calls[i].path) \in Seen(i - 1) \cup {<<t>>}
            /\ Seen(i) = IF calls[i].leave THEN Seen(i - 1)
                         ELSE Seen(i - 1) \cup {calls[i].path}
  BY TableCalls DEF Runs
<1>2. /\ after[0] = [manager |-> b, parents |-> <<>>]
      /\ \A i \in 1..size : after[i] = Visit(after[i - 1], calls[i], n)
  BY DEF Runs
<1> HIDE DEF calls, Seen
<1>3. 0 \in T
  <2>1. after[0].manager = b
    BY <1>2
  <2> QED BY <1>1, <2>1
<1>4. ASSUME NEW i \in Nat, i + 1 <= size, Good(i) PROVE Good(i + 1)
  <2> DEFINE state == after[i]
             m == state.manager
             call == calls[i + 1]
             q == call.path
             o == Object(q, n)
             next == after[i + 1].manager
  <2>1. i + 1 \in 1..size /\ (i + 1) - 1 = i /\ i \in 0..size
    BY <1>4
  <2>2. after[i + 1] = Visit(state, call, n)
    BY <1>2, <2>1
  <2>3. /\ q \in Under(t) /\ call.field = FieldAt(q) /\ Front(q) \in Seen(i) \cup {<<t>>}
        /\ Seen(i + 1) = IF call.leave THEN Seen(i) ELSE Seen(i) \cup {q}
        /\ Seen(i) \subseteq Under(t)
    BY <1>1, <2>1
  <2>4. Filed(b, m, t, n, Seen(i), primary) /\ HasMaps(m)
    BY <1>4 DEF Filed
  <2> HIDE DEF call, state
  <2>5. CASE ~call.leave
    <3>1. next = RegisterField(m, o, FieldAt(q))
      BY <2>2, <2>3, <2>5 DEF Visit
    <3>2. Filed(b, RegisterField(m, o, FieldAt(q)), t, n, Seen(i) \cup {q}, primary)
      <4> HIDE DEF q, m
      <4>1. /\ q \in Paths /\ Len(q) > 1 /\ q[1] = t
            /\ Seen(i) \subseteq Paths
        BY <2>3 DEF Under
      <4> QED BY <2>3, <2>4, <4>1, OneField DEF o
    <3> QED BY <2>3, <2>5, <3>1, <3>2
  <2>6. CASE call.leave
    <3>1. next = m \/ next = SetParentMessage(m, o, Last(state.parents))
      BY <2>2, <2>6 DEF Visit
    <3>2. next = m \/ (Alike(m, next) /\ next.SubtreeCache = m.SubtreeCache)
      BY <2>4, <3>1, SetParentAlike
    <3>3. Filed(b, next, t, n, Seen(i), primary)
      <4> HIDE DEF next, m
      <4> QED BY <2>4, <3>2, AlikeFiled
    <3> QED BY <2>3, <2>6, <3>3
  <2> QED BY <2>5, <2>6
<1>5. T = Nat
  <2>1. ASSUME NEW i \in T PROVE i + 1 \in T
    <3> HIDE DEF Good
    <3>1. i \in Nat /\ (i <= size => Good(i))
      OBVIOUS
    <3>2. i + 1 \in Nat /\ (i + 1 <= size => i <= size)
      BY <3>1
    <3> QED BY <1>4, <3>1, <3>2
  <2> HIDE DEF T
  <2> QED BY <1>3, <2>1, SetInduction DEF T
<1>6. ASSUME NEW i \in 0..size PROVE Good(i)
  <2> HIDE DEF Good
  <2> QED BY <1>5
<1> QED BY <1>6 DEF Seen, calls

\* Process files every path of the table below the message of the table.
LEMMA ProcessFiled ==
    ASSUME KeysDistinct, NEW t \in Tables, NEW n, NEW b, NEW primary,
           Filed(b, b, t, n, {}, primary)
    PROVE  Filed(b, Process(b, <<t>>, n), t, n, Under(t), primary)
<1> DEFINE calls == Walk[<<t>>]
<1>1. PICK size \in Nat : Len(calls) = size /\ SeenIn(calls, size) = Under(t)
  BY TableCalls
<1>2. <<t>> \in Messages
  BY RelationsAssumption
<1>3. PICK after :
          /\ after[0] = [manager |-> b, parents |-> <<>>]
          /\ \A i \in 1..size : after[i] = Visit(after[i - 1], calls[i], n)
          /\ Process(b, <<t>>, n) = after[size].manager
  BY <1>1, <1>2, ProcessIs
<1>4. Runs(after, b, t, n, size)
  BY <1>1, <1>3 DEF Runs
<1>5. Filed(b, after[size].manager, t, n, SeenIn(calls, size), primary)
  BY <1>4, StepsFiled
<1> QED BY <1>1, <1>3, <1>5

-----------------------------------------------------------------------------
(* The parents that Process gives.                                         *)

LEMMA FrontOf ==
    ASSUME NEW V, NEW s \in Seq(V), s # <<>>
    PROVE  /\ Len(s) \in Nat \ {0}
           /\ Front(s) \in Seq(V) /\ Len(Front(s)) = Len(s) - 1
           /\ \A i \in 1..(Len(s) - 1) : Front(s)[i] = s[i]
           /\ \A i \in 1..(Len(s) - 1) : SubSeq(Front(s), 1, i) = SubSeq(s, 1, i)
<1>1. PICK size \in Nat \ {0} : size = Len(s)
  BY LenProperties, EmptySeq
<1>2. /\ 1 \in Int /\ size - 1 \in Int
      /\ \A i \in 1..(size - 1) : s[i] \in V
  BY <1>1, ElementOfSeq
<1>3. /\ SubSeq(s, 1, size - 1) \in Seq(V)
      /\ Len(SubSeq(s, 1, size - 1)) = IF 1 <= size - 1 THEN (size - 1) - 1 + 1 ELSE 0
      /\ \A i \in 1..((size - 1) - 1 + 1) : SubSeq(s, 1, size - 1)[i] = s[1 + i - 1]
  BY <1>2, SubSeqProperties
<1> DEFINE f == SubSeq(s, 1, size - 1)
<1>4. f = Front(s)
  BY <1>1 DEF Front
<1> HIDE DEF f
<1>5. /\ f \in Seq(V) /\ Len(f) = size - 1
      /\ \A i \in 1..(size - 1) : f[i] = s[i]
  <2>1. Len(f) = size - 1
    BY <1>1, <1>3 DEF f
  <2>2. \A i \in 1..(size - 1) : i \in 1..((size - 1) - 1 + 1) /\ 1 + i - 1 = i
    BY <1>1
  <2>3. \A i \in 1..(size - 1) : f[i] = s[i]
    BY <1>3, <2>2 DEF f
  <2> QED BY <1>3, <2>1, <2>3 DEF f
<1>6. ASSUME NEW i \in 1..(size - 1) PROVE SubSeq(f, 1, i) = SubSeq(s, 1, i)
  <2>1. /\ 1 \in 1..Len(s) /\ size - 1 \in 1..Len(s)
        /\ 1 \in 1..((size - 1) - 1 + 1) /\ i \in 1..((size - 1) - 1 + 1)
        /\ 1 + 1 - 1 = 1 /\ 1 + i - 1 = i
    BY <1>1
  <2>2. SubSeq(SubSeq(s, 1, size - 1), 1, i) = SubSeq(s, 1 + 1 - 1, 1 + i - 1)
    BY <2>1, SubSeqOfSubSeq
  <2> QED BY <2>1, <2>2 DEF f
<1> QED BY <1>1, <1>4, <1>5, <1>6

\* The paths below the message of t whose objects are given a parent.
Adopted(t) == {q \in Under(t) : q \in Messages \/ Len(q) = 2}

Children(t, n) == {Object(q, n) : q \in Adopted(t)}

HasParent(m, q, n) ==
    LET o == Object(q, n)
    IN o \in DOMAIN m.ParentMap /\ m.ParentMap[o] = Object(Front(q), n)

\* Between two calls of Process, which began with b, the walk is at w and S has
\* been entered: `parents' has the messages on the way to w, and a message has
\* its parent that the walk has left.  Those of the table get theirs later.
Nested(b, state, t, n, w, S, V) ==
    /\ state.parents \in Seq(V) /\ Len(state.parents) = Len(w) - 1
    /\ \A j \in 2..(Len(w) - 1) : state.parents[j] = Object(SubSeq(w, 1, j), n)
    /\ \A q \in S \cap Messages : Len(q) > 2 =>
          \/ \E j \in 1..Len(w) : q = SubSeq(w, 1, j)
          \/ HasParent(state.manager, q, n)
    /\ \A o : o \notin Children(t, n) =>
          SameAt(b.ParentMap, state.manager.ParentMap, o)

LEMMA Entering ==
    ASSUME NEW t \in Tables, NEW n, NEW b, NEW primary, NEW state, NEW w, NEW S, NEW V,
           Nested(b, state, t, n, w, S, V), Filed(b, state.manager, t, n, S, primary),
           NEW call, ~call.leave, NEW q, q = call.path, q \in Under(t),
           call.field = FieldAt(q), w = Front(q),
           w \in S \cup {<<t>>}, GetMessage(state.manager, w) \in V
    PROVE  Nested(b, Visit(state, call, n), t, n, After(call), S \cup {q}, V)
<1> DEFINE next == Visit(state, call, n)
           m == state.manager
           o == Object(q, n)
           r == RegisterField(m, o, call.field)
           parents == state.parents
           top == GetMessage(m, w)
<1>1. /\ next.manager = r
      /\ next.parents = IF call.field.message THEN Append(parents, top) ELSE parents
  BY DEF Visit
<1>2. r.ParentMap = m.ParentMap
  <2>1. HasMaps(m)
    BY DEF Filed
  <2> HIDE DEF o, m
  <2>2. PICK k, tables : FieldRegistered(m, r, o, call.field, k, tables)
    BY <2>1, RegisterFieldIs
  <2> QED BY <2>2 DEF FieldRegistered
<1>3. PICK size \in Nat : /\ q \in Paths /\ Len(q) = size /\ size > 1 /\ q \in Seq(Nat)
                          /\ w \in Messages /\ Len(w) = size - 1
                          /\ (call.field.message <=> q \in Messages)
  BY Path DEF Under
<1>4. /\ parents \in Seq(V) /\ Len(parents) = size - 2
      /\ \A j \in 2..(size - 2) : parents[j] = Object(SubSeq(w, 1, j), n)
      /\ \A p \in S \cap Messages : Len(p) > 2 =>
            \/ \E j \in 1..(size - 1) : p = SubSeq(w, 1, j)
            \/ HasParent(m, p, n)
      /\ \A x : x \notin Children(t, n) => SameAt(b.ParentMap, m.ParentMap, x)
  BY <1>3 DEF Nested
<1>5. \A p : HasParent(m, p, n) => HasParent(next.manager, p, n)
  BY <1>1, <1>2 DEF HasParent
<1>6. \A x : x \notin Children(t, n) => SameAt(b.ParentMap, next.manager.ParentMap, x)
  BY <1>1, <1>2, <1>4
<1>7. CASE call.field.message
  <2>1. After(call) = q
    BY <1>7 DEF After
  <2>2. /\ SubSeq(q, 1, size) = q /\ SubSeq(q, 1, size - 1) = w
        /\ \A j \in 1..(size - 1) : SubSeq(w, 1, j) = SubSeq(q, 1, j)
    <3>1. q # <<>>
      BY <1>3
    <3>2. SubSeq(q, 1, Len(q)) = q
      BY <1>3, SubSeqFull
    <3> QED BY <1>3, <3>1, <3>2, FrontOf DEF Front
  <2>3. /\ next.parents \in Seq(V) /\ Len(next.parents) = size - 1
        /\ \A j \in 1..(size - 2) : next.parents[j] = parents[j]
        /\ next.parents[size - 1] = top
    <3> HIDE DEF next, parents, top
    <3>1. next.parents = Append(parents, top)
      BY <1>1, <1>7
    <3>2. top \in V /\ (size - 2) + 1 = size - 1
      BY <1>3 DEF top, m
    <3> QED BY <1>4, <3>1, <3>2, AppendProperties
  <2>4. ASSUME NEW j \in 2..(size - 1) PROVE next.parents[j] = Object(SubSeq(q, 1, j), n)
    <3>1. CASE j = size - 1
      <4>1. w # <<t>>
        <5>1. Len(<<t>>) = 1
          OBVIOUS
        <5>2. Len(w) = j /\ j # 1
          BY <1>3, <2>4, <3>1
        <5> QED BY <5>1, <5>2
      <4>2. FieldFiled(m, w, n)
        BY <4>1 DEF Filed
      <4>3. top = Object(w, n)
        BY <1>3, <4>2 DEF FieldFiled, GetMessage, Find
      <4> QED BY <2>2, <2>3, <3>1, <4>3
    <3>2. CASE j # size - 1
      <4>1. j \in 2..(size - 2) /\ j \in 1..(size - 2) /\ j \in 1..(size - 1)
        BY <1>3, <2>4, <3>2
      <4> HIDE DEF next, parents
      <4> QED BY <1>4, <2>2, <2>3, <4>1
    <3> QED BY <3>1, <3>2
  <2>5. ASSUME NEW p \in (S \cup {q}) \cap Messages, Len(p) > 2
        PROVE  (\E j \in 1..size : p = SubSeq(q, 1, j)) \/ HasParent(next.manager, p, n)
    <3>1. CASE p = q
      BY <1>3, <2>2, <3>1
    <3>2. CASE p # q /\ \E j \in 1..(size - 1) : p = SubSeq(w, 1, j)
      <4>1. PICK j \in 1..(size - 1) : p = SubSeq(w, 1, j)
        BY <3>2
      <4>2. j \in 1..size
        BY <1>3
      <4> QED BY <2>2, <4>1, <4>2
    <3>3. CASE p # q /\ HasParent(m, p, n)
      BY <1>5, <3>3
    <3> QED BY <1>4, <2>5, <3>1, <3>2, <3>3
  <2> HIDE DEF next
  <2>6. /\ Len(q) = size /\ Len(next.parents) = Len(q) - 1
        /\ \A j \in 2..(Len(q) - 1) : next.parents[j] = Object(SubSeq(q, 1, j), n)
    BY <1>3, <2>3, <2>4
  <2>7. Nested(b, next, t, n, q, S \cup {q}, V)
    BY <1>6, <2>3, <2>5, <2>6 DEF Nested
  <2> QED BY <2>1, <2>7 DEF next
<1>8. CASE ~call.field.message
  <2>1. /\ After(call) = w /\ next.parents = parents
        /\ (S \cup {q}) \cap Messages = S \cap Messages
    BY <1>1, <1>3, <1>8 DEF After
  <2> HIDE DEF next
  <2>2. Nested(b, next, t, n, w, S \cup {q}, V)
    BY <1>3, <1>4, <1>5, <1>6, <2>1 DEF Nested
  <2> QED BY <2>1, <2>2 DEF next
<1> QED BY <1>7, <1>8

LEMMA Leaving ==
    ASSUME NEW t \in Tables, NEW n, NEW b, NEW state, NEW w, NEW S, NEW V,
           Nested(b, state, t, n, w, S, V), HasMaps(state.manager),
           NEW call, call.leave, w = call.path, w \in Under(t), w \in Messages
    PROVE  Nested(b, Visit(state, call, n), t, n, Front(w), S, V)
<1> DEFINE next == Visit(state, call, n)
           m == state.manager
           o == Object(w, n)
           parents == state.parents
           parent == Last(parents)
           p == Front(w)
<1>1. /\ next.manager = IF parent = Null THEN m ELSE SetParentMessage(m, o, parent)
      /\ next.parents = Front(parents)
  BY DEF Visit
<1>2. PICK size \in Nat : /\ w \in Paths /\ Len(w) = size /\ size > 1 /\ w \in Seq(Nat)
                          /\ p \in Paths /\ Len(p) = size - 1 /\ p # <<>>
  <2>1. p \in Messages => p \in Paths /\ p # <<>>
    BY Schema DEF Paths
  <2> QED BY <2>1, Path DEF Under
<1>3. /\ SubSeq(w, 1, size) = w /\ SubSeq(w, 1, size - 1) = p
      /\ \A j \in 1..(size - 1) : SubSeq(p, 1, j) = SubSeq(w, 1, j)
  <2>1. w # <<>>
    BY <1>2
  <2>2. SubSeq(w, 1, Len(w)) = w
    BY <1>2, SubSeqFull
  <2> QED BY <1>2, <2>1, <2>2, FrontOf DEF Front
<1>4. /\ parents \in Seq(V) /\ Len(parents) = size - 1 /\ parents # <<>>
      /\ \A j \in 2..(size - 1) : parents[j] = Object(SubSeq(w, 1, j), n)
      /\ \A q \in S \cap Messages : Len(q) > 2 =>
            (\E j \in 1..size : q = SubSeq(w, 1, j)) \/ HasParent(m, q, n)
      /\ \A x : x \notin Children(t, n) => SameAt(b.ParentMap, m.ParentMap, x)
  BY <1>2, EmptySeq DEF Nested
<1>5. parent = parents[size - 1]
  BY <1>4 DEF Last
<1>6. size > 2 => parent = Object(p, n) /\ parent # Null
  <2> SUFFICES ASSUME size > 2 PROVE parent = Object(p, n) /\ parent # Null
    OBVIOUS
  <2>1. size - 1 \in 2..(size - 1)
    BY <1>2
  <2>2. parents[size - 1] = Object(p, n)
    <3> HIDE DEF parents
    <3> QED BY <1>3, <1>4, <2>1
  <2>3. Object(p, n) # Null
    BY <1>2 DEF Object, Null
  <2> QED BY <1>5, <2>2, <2>3
<1>7. /\ \A x : x # o => SameAt(m.ParentMap, next.manager.ParentMap, x)
      /\ parent # Null => o \in DOMAIN next.manager.ParentMap
                          /\ next.manager.ParentMap[o] = parent
  <2>1. CASE parent = Null
    BY <1>1, <2>1 DEF SameAt
  <2>2. CASE parent # Null
    <3>1. next.manager.ParentMap = Assign(m.ParentMap, o, parent)
      <4> HIDE DEF o, parent, next
      <4> QED BY <1>1, <2>2, SetParentAlike
    <3> HIDE DEF next, o, parent
    <3> QED BY <3>1, Assigned
  <2> QED BY <2>1, <2>2
<1>8. o \in Children(t, n)
  BY DEF Children, Adopted
<1>9. ASSUME NEW x, x \notin Children(t, n)
      PROVE  SameAt(b.ParentMap, next.manager.ParentMap, x)
  <2> HIDE DEF o
  <2>1. x # o
    BY <1>8, <1>9
  <2> QED BY <1>4, <1>7, <1>9, <2>1, SameAtTrans
<1>10. ASSUME NEW q \in S \cap Messages, Len(q) > 2
       PROVE  \/ \E j \in 1..(size - 1) : q = SubSeq(p, 1, j)
              \/ HasParent(next.manager, q, n)
  <2>1. CASE q = w
    BY <1>2, <1>6, <1>7, <1>10, <2>1 DEF HasParent
  <2>2. CASE q # w /\ \E j \in 1..size : q = SubSeq(w, 1, j)
    <3>1. PICK j \in 1..size : q = SubSeq(w, 1, j)
      BY <2>2
    <3>2. j \in 1..(size - 1)
      BY <1>2, <1>3, <2>2, <3>1
    <3> QED BY <1>3, <3>1, <3>2
  <2>3. CASE q # w /\ HasParent(m, q, n)
    <3>1. Object(q, n) # o
      BY <2>3 DEF Object
    <3>2. SameAt(m.ParentMap, next.manager.ParentMap, Object(q, n))
      <4> HIDE DEF o, next, m
      <4> QED BY <1>7, <3>1
    <3> QED BY <2>3, <3>2 DEF HasParent, SameAt
  <2> QED BY <1>4, <1>10, <2>1, <2>2, <2>3
<1>11. /\ next.parents \in Seq(V) /\ Len(next.parents) = size - 2
       /\ \A j \in 1..(size - 2) : next.parents[j] = parents[j]
  <2> HIDE DEF next, parents
  <2>1. (size - 1) - 1 = size - 2
    BY <1>2
  <2> QED BY <1>1, <1>4, <2>1, FrontOf
<1>12. ASSUME NEW j \in 2..(size - 2) PROVE next.parents[j] = Object(SubSeq(p, 1, j), n)
  <2>1. j \in 1..(size - 2) /\ j \in 2..(size - 1) /\ j \in 1..(size - 1)
    BY <1>2, <1>12
  <2> HIDE DEF next, parents
  <2> QED BY <1>3, <1>4, <1>11, <2>1
<1> HIDE DEF next, p
<1>13. /\ Len(p) = size - 1 /\ Len(next.parents) = Len(p) - 1
       /\ \A j \in 2..(Len(p) - 1) : next.parents[j] = Object(SubSeq(p, 1, j), n)
  BY <1>2, <1>11, <1>12
<1>14. Nested(b, next, t, n, p, S, V)
  BY <1>9, <1>10, <1>11, <1>13 DEF Nested
<1> QED BY <1>14 DEF next, p

LEMMA StepsNested ==
    ASSUME KeysDistinct, NEW t \in Tables, NEW n, NEW b, NEW primary,
           Filed(b, b, t, n, {}, primary),
           NEW size \in Nat, NEW after, Runs(after, b, t, n, size)
    PROVE  \E V : \A i \in 0..size :
               Nested(b, after[i], t, n, Place(<<t>>, Walk[<<t>>], i),
                      SeenIn(Walk[<<t>>], i), V)
<1> DEFINE calls == Walk[<<t>>]
           root == <<t>>
           Seen(i) == SeenIn(calls, i)
           At(i) == Place(root, calls, i)
           V == {GetMessage(after[i].manager, p) : i \in 0..size, p \in Paths}
           Good(i) == Nested(b, after[i], t, n, At(i), Seen(i), V)
           T == {i \in Nat : i <= size => Good(i)}
<1>1. /\ Seen(0) = {}
      /\ \A i \in 1..size :
            /\ calls[i].path \in Under(t)
            /\ calls[i].field = FieldAt(calls[i].path)
            /\ Front(calls[i].path) \in Seen(i - 1) \cup {root}
            /\ Seen(i) = IF calls[i].leave THEN Seen(i - 1)
                         ELSE Seen(i - 1) \cup {calls[i].path}
  BY TableCalls DEF Runs
<1>2. /\ after[0] = [manager |-> b, parents |-> <<>>]
      /\ \A i \in 1..size : after[i] = Visit(after[i - 1], calls[i], n)
      /\ Len(calls) = size
  BY DEF Runs
<1>3. root \in Messages /\ Leads(root, calls, root) /\ calls \in Seq(CallsOf(root[1]))
  BY RelationsAssumption, WalkGood DEF Whole
<1>4. DOMAIN calls = 1..size
  <2> HIDE DEF calls
  <2> QED BY <1>2, <1>3, LenProperties
<1>5. \A i \in 0..size : Filed(b, after[i].manager, t, n, Seen(i), primary)
  BY StepsFiled
<1>6. /\ At(0) = root
      /\ \A i \in 1..size : /\ Before(calls[i]) = At(i - 1) /\ At(i) = After(calls[i])
                            /\ calls[i].leave => calls[i].field.message
  <2> HIDE DEF calls, root
  <2>1. At(0) = root /\ \A i \in 1..size : At(i) = After(calls[i])
    BY DEF Place
  <2>2. ASSUME NEW i \in 1..size
        PROVE  /\ Before(calls[i]) = At(i - 1)
               /\ calls[i].leave => calls[i].field.message
    BY <1>3, <1>4 DEF Leads
  <2> QED BY <2>1, <2>2
<1>7. Len(root) = 1
  OBVIOUS
<1>13. \A i \in 0..size, p \in Paths : GetMessage(after[i].manager, p) \in V
  OBVIOUS
<1> HIDE DEF calls, Seen, At, V
<1>8. 0 \in T
  <2>1. after[0].manager = b /\ after[0].parents = <<>>
    BY <1>2
  <2>2. \A x : SameAt(b.ParentMap, b.ParentMap, x)
    BY DEF SameAt
  <2> HIDE DEF root
  <2>3. <<>> \in Seq(V) /\ Len(<<>>) = Len(root) - 1 /\ 2..(Len(root) - 1) = {}
    BY <1>7
  <2>4. Good(0)
    BY <1>1, <1>6, <2>1, <2>2, <2>3 DEF Nested
  <2> QED BY <2>4
<1>9. ASSUME NEW i \in Nat, i + 1 <= size, Good(i) PROVE Good(i + 1)
  <2> DEFINE state == after[i]
             call == calls[i + 1]
             q == call.path
             w == At(i)
             S == Seen(i)
  <2>1. i + 1 \in 1..size /\ (i + 1) - 1 = i /\ i \in 0..size
    BY <1>9
  <2>2. /\ after[i + 1] = Visit(state, call, n)
        /\ Filed(b, state.manager, t, n, S, primary)
        /\ At(i + 1) = After(call) /\ Before(call) = w
        /\ call.leave => call.field.message
    BY <1>2, <1>5, <1>6, <2>1
  <2>3. /\ q \in Under(t) /\ call.field = FieldAt(q) /\ Front(q) \in S \cup {root}
        /\ Seen(i + 1) = IF call.leave THEN S ELSE S \cup {q}
    BY <1>1, <2>1
  <2>4. /\ q \in Paths /\ Front(q) \in Paths
        /\ call.field.message => q \in Messages
    BY <2>3, Path DEF Under, Paths
  <2>5. \A p \in Paths : GetMessage(state.manager, p) \in V
    BY <1>13, <2>1
  <2>6. Nested(b, state, t, n, w, S, V)
    BY <1>9
  <2> HIDE DEF call, state, q, w, S, root
  <2>7. CASE ~call.leave
    <3>1. w = Front(q)
      BY <2>2, <2>7 DEF Before, q
    <3>2. Nested(b, Visit(state, call, n), t, n, After(call), S \cup {q}, V)
      <4>1. w \in S \cup {<<t>>} /\ GetMessage(state.manager, w) \in V
        BY <2>3, <2>4, <2>5, <3>1 DEF root
      <4>2. q = call.path
        BY DEF q
      <4> QED BY <2>2, <2>3, <2>6, <2>7, <3>1, <4>1, <4>2, Entering
    <3> QED BY <2>2, <2>3, <2>7, <3>2 DEF state
  <2>8. CASE call.leave
    <3>1. w = q /\ q \in Messages /\ q = call.path /\ After(call) = Front(q)
      BY <2>2, <2>4, <2>8 DEF Before, After, q
    <3>2. HasMaps(state.manager)
      BY <2>2 DEF Filed
    <3>3. Nested(b, Visit(state, call, n), t, n, Front(w), S, V)
      BY <2>3, <2>6, <2>8, <3>1, <3>2, Leaving
    <3> QED BY <2>2, <2>3, <2>8, <3>1, <3>3 DEF state
  <2> QED BY <2>7, <2>8
<1>10. T = Nat
  <2>1. ASSUME NEW i \in T PROVE i + 1 \in T
    <3> HIDE DEF Good
    <3>1. i \in Nat /\ (i <= size => Good(i))
      OBVIOUS
    <3>2. i + 1 \in Nat /\ (i + 1 <= size => i <= size)
      BY <3>1
    <3> QED BY <1>9, <3>1, <3>2
  <2> HIDE DEF T
  <2> QED BY <1>8, <2>1, SetInduction DEF T
<1>11. ASSUME NEW i \in 0..size PROVE Good(i)
  <2> HIDE DEF Good
  <2> QED BY <1>10
<1>12. \E W : \A i \in 0..size : Nested(b, after[i], t, n, At(i), Seen(i), W)
  BY <1>11
<1> QED BY <1>12 DEF At, Seen, calls, root

\* Process gives every message its parent that is not of the table itself.
LEMMA ProcessNested ==
    ASSUME KeysDistinct, NEW t \in Tables, NEW n, NEW b, NEW primary,
           Filed(b, b, t, n, {}, primary)
    PROVE  LET r == Process(b, <<t>>, n)
           IN /\ \A q \in Under(t) \cap Messages : Len(q) > 2 => HasParent(r, q, n)
              /\ \A o : o \notin Children(t, n) => SameAt(b.ParentMap, r.ParentMap, o)
              /\ Fields[<<t>>] = <<>> => r = b
<1> DEFINE calls == Walk[<<t>>]
           root == <<t>>
           r == Process(b, root, n)
<1>1. PICK size \in Nat : Len(calls) = size /\ SeenIn(calls, size) = Under(t)
  BY TableCalls
<1>2. root \in Messages /\ root \in Seq(Nat) /\ Len(root) = 1
  BY RelationsAssumption
<1>3. PICK after :
          /\ after[0] = [manager |-> b, parents |-> <<>>]
          /\ \A i \in 1..size : after[i] = Visit(after[i - 1], calls[i], n)
          /\ r = after[size].manager
  <2> HIDE DEF root
  <2>1. Len(Walk[root]) = size
    BY <1>1 DEF root
  <2> QED BY <1>2, <2>1, ProcessIs DEF root
<1>4. Runs(after, b, t, n, size)
  BY <1>1, <1>3 DEF Runs
<1>5. PICK V : \A i \in 0..size :
          Nested(b, after[i], t, n, Place(root, calls, i), SeenIn(calls, i), V)
  BY <1>4, StepsNested
<1>6. Place(root, calls, size) = root
  BY <1>1, <1>2, WalkGood DEF Whole, Leads
<1> HIDE DEF r, calls
<1>7. Nested(b, after[size], t, n, root, Under(t), V)
  BY <1>1, <1>5, <1>6
<1>8. ASSUME NEW q \in Under(t) \cap Messages, Len(q) > 2 PROVE HasParent(r, q, n)
  <2> HIDE DEF root
  <2>1. SubSeq(root, 1, 1) = root
    BY <1>2, SubSeqFull
  <2>2. q # root
    <3>1. Len(q) # 1
      <4>1. PICK length \in Nat : length = Len(q)
        BY Schema
      <4>2. length > 2
        BY <1>8, <4>1
      <4> QED BY <4>1, <4>2
    <3> QED BY <1>2, <3>1
  <2>3. \A j \in 1..1 : j = 1
    OBVIOUS
  <2>4. \A j \in 1..Len(root) : q # SubSeq(root, 1, j)
    BY <1>2, <2>1, <2>2, <2>3
  <2> QED BY <1>3, <1>7, <1>8, <2>4 DEF Nested
<1>9. \A o : o \notin Children(t, n) => SameAt(b.ParentMap, r.ParentMap, o)
  BY <1>3, <1>7 DEF Nested
<1>10. ASSUME Fields[root] = <<>> PROVE r = b
  <2>1. calls = WalkOf(Walk, root)
    BY <1>2, WalkIs DEF calls
  <2> HIDE DEF root
  <2> DEFINE pieces == [i \in 1..0 |-> VisitOf(Walk, root, Fields[root][i])]
  <2>2. Len(Fields[root]) = 0
    BY <1>10
  <2>3. calls = FlattenSeq(pieces)
    BY <2>1, <2>2 DEF WalkOf
  <2>4. pieces = <<>>
    OBVIOUS
  <2> HIDE DEF pieces
  <2>5. FlattenSeq(pieces) = <<>>
    BY <2>4 DEF FlattenSeq
  <2>6. size = 0
    BY <1>1, <2>3, <2>5
  <2> QED BY <1>3, <2>6
<1> QED BY <1>8, <1>9, <1>10 DEF r, root

-----------------------------------------------------------------------------
(* The names.                                                              *)

\* No message has two fields of one name, no two tables have one, and no path
\* has the key of the empty path, under which the tables are named.
NamesDistinct ==
    /\ \A p \in Messages : \A f, g \in ToSet(Fields[p]) : f.name = g.name => f = g
    /\ \A t, u \in Tables : TableName[t] = TableName[u] => t = u
    /\ \A p \in Paths : Key[p] # Key[<<>>]

OfTables == {q \in Paths : q[1] \in Tables}

NameOf(q) == IF Len(q) = 1 THEN TableName[q[1]] ELSE FieldAt(q).name

\* The name of q is known in both directions, if at all.
SpelledAt(m, q) ==
    LET above == Key[Front(q)]
    IN Key[q] \in DOMAIN m.PathToEntryName =>
           /\ m.PathToEntryName[Key[q]] = NameOf(q)
           /\ above \in DOMAIN m.EntryNameToEntry
           /\ NameOf(q) \in DOMAIN m.EntryNameToEntry[above]
           /\ m.EntryNameToEntry[above][NameOf(q)] = Last(q)

Spelled(m) == \A q \in OfTables : SpelledAt(m, q)

NamesKnown(m, S) == \A q \in S : Key[q] \in DOMAIN m.PathToEntryName

LEMMA LastOf ==
    ASSUME NEW q \in Paths
    PROVE  /\ Len(q) = 1 => Front(q) = <<>> /\ Last(q) = q[1] /\ q = <<q[1]>>
           /\ Len(q) > 1 => Last(q) = FieldAt(q).number
<1>1. CASE Len(q) = 1
  <2>1. q = <<q[1]>>
    BY <1>1, Path
  <2>2. Front(q) = <<>>
    BY <1>1, SubSeqEmpty DEF Front
  <2>3. Last(q) = q[1]
    BY <1>1 DEF Last
  <2> QED BY <1>1, <2>1, <2>2, <2>3
<1>2. CASE Len(q) > 1
  <2>1. PICK p \in Messages : /\ p = Front(q) /\ FieldAt(q) \in ToSet(Fields[p])
                              /\ q = Append(p, FieldAt(q).number)
    BY <1>2, Path
  <2>2. p \in Seq(Nat) /\ FieldAt(q).number \in Nat
    BY <2>1, Schema
  <2>3. Last(q) = FieldAt(q).number
    BY <2>1, <2>2, Appended
  <2>4. Len(q) # 1
    <3>1. PICK size \in Nat : size = Len(q)
      BY Path
    <3> QED BY SMTT(60), <1>2, <3>1
  <2> QED BY <2>3, <2>4
<1>3. Len(q) = 1 \/ Len(q) > 1
  <2>1. PICK size \in Nat \ {0} : size = Len(q)
    BY Path
  <2> QED BY <2>1
<1> QED BY <1>1, <1>2, <1>3

\* A name tells a path from all others with the same path above.
LEMMA NamesTell ==
    ASSUME KeysDistinct, NamesDistinct, NEW p \in OfTables, NEW q \in OfTables,
           Key[Front(p)] = Key[Front(q)], NameOf(p) = NameOf(q)
    PROVE  p = q
<1>1. p \in Paths /\ q \in Paths /\ p[1] \in Tables /\ q[1] \in Tables
  BY DEF OfTables
<1>2. ASSUME NEW r \in Paths
      PROVE  /\ Len(r) = 1 \/ Len(r) > 1
             /\ Len(r) > 1 => Len(r) # 1
  <2>1. PICK size \in Nat \ {0} : size = Len(r)
    BY Path
  <2> QED BY <2>1
<1>3. ASSUME NEW r \in Paths, Len(r) > 1
      PROVE  /\ Front(r) \in Messages /\ Front(r) \in Paths
             /\ FieldAt(r) \in ToSet(Fields[Front(r)])
             /\ r = Append(Front(r), FieldAt(r).number)
             /\ Key[Front(r)] # Key[<<>>]
  <2>1. /\ Front(r) \in Messages /\ FieldAt(r) \in ToSet(Fields[Front(r)])
        /\ r = Append(Front(r), FieldAt(r).number)
    BY <1>3, Path
  <2> QED BY <2>1 DEF Paths, NamesDistinct
<1>4. CASE Len(p) = 1 /\ Len(q) = 1
  <2>1. p = <<p[1]>> /\ q = <<q[1]>>
    BY <1>1, <1>4, LastOf
  <2>2. p[1] = q[1]
    BY <1>1, <1>4 DEF NamesDistinct, NameOf
  <2> QED BY <2>1, <2>2
<1>5. CASE Len(p) > 1 /\ Len(q) > 1
  <2>1. Front(p) = Front(q)
    BY <1>1, <1>3, <1>5 DEF KeysDistinct
  <2>2. NameOf(p) = FieldAt(p).name /\ NameOf(q) = FieldAt(q).name
    BY <1>1, <1>2, <1>5 DEF NameOf
  <2>3. FieldAt(p) = FieldAt(q)
    BY <1>1, <1>3, <1>5, <2>1, <2>2 DEF NamesDistinct
  <2> QED BY <1>1, <1>3, <1>5, <2>1, <2>3
<1>6. CASE Len(p) = 1 /\ Len(q) > 1
  BY <1>1, <1>3, <1>6, LastOf
<1>7. CASE Len(p) > 1 /\ Len(q) = 1
  BY <1>1, <1>3, <1>7, LastOf
<1> QED BY <1>1, <1>2, <1>4, <1>5, <1>6, <1>7

LEMMA EnteredName ==
    ASSUME NEW names, NEW k, NEW name, NEW number
    PROVE  LET r == Enter(names, k, name, number)
           IN /\ k \in DOMAIN r /\ name \in DOMAIN r[k] /\ r[k][name] = number
              /\ \A x, y :
                    (x # k \/ y # name) /\ x \in DOMAIN names /\ y \in DOMAIN names[x]
                     => x \in DOMAIN r /\ y \in DOMAIN r[x] /\ r[x][y] = names[x][y]
<1> DEFINE below == IF k \in DOMAIN names THEN names[k] ELSE Nothing
           new == Assign(below, name, number)
           r == Enter(names, k, name, number)
<1>1. r = Assign(names, k, new)
  BY DEF Enter
<1>2. k \in DOMAIN r /\ r[k] = new /\ \A x : x # k => SameAt(names, r, x)
  <2> HIDE DEF r, new
  <2> QED BY <1>1, Assigned
<1>3. /\ name \in DOMAIN new /\ new[name] = number
      /\ \A y : y # name => SameAt(below, new, y)
  <2> HIDE DEF below
  <2> QED BY Assigned
<1> HIDE DEF r, new
<1>4. ASSUME NEW x, NEW y, x # k \/ y # name, x \in DOMAIN names, y \in DOMAIN names[x]
      PROVE  x \in DOMAIN r /\ y \in DOMAIN r[x] /\ r[x][y] = names[x][y]
  <2>1. CASE x # k
    BY <1>2, <1>4, <2>1 DEF SameAt
  <2>2. CASE x = k /\ y # name
    <3>1. below = names[x]
      BY <1>4, <2>2
    <3> HIDE DEF below
    <3>2. y \in DOMAIN new /\ new[y] = below[y]
      BY <1>3, <1>4, <2>2, <3>1 DEF SameAt
    <3> QED BY <1>2, <2>2, <3>1, <3>2
  <2> QED BY <1>4, <2>1, <2>2
<1> QED BY <1>2, <1>3, <1>4 DEF r

LEMMA Spelling ==
    ASSUME KeysDistinct, NamesDistinct, NEW m, Spelled(m), NEW r, NEW q \in OfTables,
           r.PathToEntryName = Assign(m.PathToEntryName, Key[q], NameOf(q)),
           r.EntryNameToEntry =
               Enter(m.EntryNameToEntry, Key[Front(q)], NameOf(q), Last(q))
    PROVE  /\ Spelled(r)
           /\ DOMAIN r.PathToEntryName = DOMAIN m.PathToEntryName \cup {Key[q]}
<1> DEFINE k == Key[q]
           above == Key[Front(q)]
           name == NameOf(q)
           number == Last(q)
           paths == m.PathToEntryName
           names == m.EntryNameToEntry
<1>1. /\ k \in DOMAIN r.PathToEntryName /\ r.PathToEntryName[k] = name
      /\ \A x : x # k => SameAt(paths, r.PathToEntryName, x)
  <2> HIDE DEF k, name, paths
  <2> QED BY Assigned DEF k, name, paths
<1>2. /\ above \in DOMAIN r.EntryNameToEntry
      /\ name \in DOMAIN r.EntryNameToEntry[above]
      /\ r.EntryNameToEntry[above][name] = number
      /\ \A x, y : (x # above \/ y # name) /\ x \in DOMAIN names /\ y \in DOMAIN names[x]
             => /\ x \in DOMAIN r.EntryNameToEntry /\ y \in DOMAIN r.EntryNameToEntry[x]
                /\ r.EntryNameToEntry[x][y] = names[x][y]
  BY EnteredName
<1>3. DOMAIN r.PathToEntryName = DOMAIN paths \cup {k}
  BY DEF Assign
<1>4. ASSUME NEW p \in OfTables PROVE SpelledAt(r, p)
  <2>1. CASE p = q
    BY <1>1, <1>2, <2>1 DEF SpelledAt
  <2>2. CASE p # q
    <3> SUFFICES ASSUME Key[p] \in DOMAIN r.PathToEntryName PROVE SpelledAt(r, p)
      BY DEF SpelledAt
    <3>1. Key[p] # k
      BY <2>2 DEF KeysDistinct, OfTables
    <3>2. Key[p] \in DOMAIN paths /\ r.PathToEntryName[Key[p]] = paths[Key[p]]
      BY <1>1, <3>1 DEF SameAt
    <3>3. Key[Front(p)] # above \/ NameOf(p) # name
      BY <2>2, NamesTell
    <3>4. /\ paths[Key[p]] = NameOf(p)
          /\ Key[Front(p)] \in DOMAIN names /\ NameOf(p) \in DOMAIN names[Key[Front(p)]]
          /\ names[Key[Front(p)]][NameOf(p)] = Last(p)
      BY <3>2 DEF Spelled, SpelledAt
    <3> HIDE DEF k, above, name, paths, names
    <3>5. /\ Key[Front(p)] \in DOMAIN r.EntryNameToEntry
          /\ NameOf(p) \in DOMAIN r.EntryNameToEntry[Key[Front(p)]]
          /\ r.EntryNameToEntry[Key[Front(p)]][NameOf(p)] = Last(p)
      BY <1>2, <3>3, <3>4
    <3> QED BY <3>2, <3>4, <3>5 DEF SpelledAt
  <2> QED BY <2>1, <2>2
<1> QED BY <1>3, <1>4 DEF Spelled

LEMMA AlikeSpelled ==
    ASSUME NEW m, NEW r, Alike(m, r)
    PROVE  /\ Spelled(m) => Spelled(r)
           /\ r.PathToEntryName = m.PathToEntryName
<1>1. r.PathToEntryName = m.PathToEntryName /\ r.EntryNameToEntry = m.EntryNameToEntry
  BY DEF Alike, MapNames
<1> QED BY <1>1 DEF Spelled, SpelledAt

\* Process names every path below the message of the table.
LEMMA ProcessSpelled ==
    ASSUME KeysDistinct, NamesDistinct, NEW t \in Tables, NEW n, NEW b, NEW primary,
           Filed(b, b, t, n, {}, primary), Spelled(b)
    PROVE  LET r == Process(b, <<t>>, n)
           IN /\ Spelled(r) /\ NamesKnown(r, Under(t))
              /\ DOMAIN b.PathToEntryName \subseteq DOMAIN r.PathToEntryName
<1> DEFINE calls == Walk[<<t>>]
           Seen(i) == SeenIn(calls, i)
           known(m) == DOMAIN m.PathToEntryName
<1>1. PICK size \in Nat :
          /\ Len(calls) = size /\ Seen(0) = {} /\ Seen(size) = Under(t)
          /\ \A i \in 1..size :
                /\ calls[i].path \in Under(t)
                /\ calls[i].field = FieldAt(calls[i].path)
                /\ Seen(i) = IF calls[i].leave THEN Seen(i - 1)
                             ELSE Seen(i - 1) \cup {calls[i].path}
  BY TableCalls
<1>2. <<t>> \in Messages
  BY RelationsAssumption
<1>3. PICK after :
          /\ after[0] = [manager |-> b, parents |-> <<>>]
          /\ \A i \in 1..size : after[i] = Visit(after[i - 1], calls[i], n)
          /\ Process(b, <<t>>, n) = after[size].manager
  BY <1>1, <1>2, ProcessIs
<1>4. Runs(after, b, t, n, size)
  BY <1>1, <1>3 DEF Runs
<1>5. \A i \in 0..size : HasMaps(after[i].manager)
  <2>1. \A i \in 0..size :
            Filed(b, after[i].manager, t, n, SeenIn(Walk[<<t>>], i), primary)
    BY <1>4, StepsFiled
  <2> QED BY <2>1 DEF Filed
<1> DEFINE Good(i) == LET m == after[i].manager
                      IN /\ Spelled(m) /\ NamesKnown(m, Seen(i))
                         /\ known(b) \subseteq known(m)
           T == {i \in Nat : i <= size => Good(i)}
<1> HIDE DEF calls, Seen
<1>6. 0 \in T
  <2>1. after[0].manager = b
    BY <1>3
  <2> QED BY <1>1, <2>1 DEF NamesKnown
<1>7. ASSUME NEW i \in Nat, i + 1 <= size, Good(i) PROVE Good(i + 1)
  <2> DEFINE state == after[i]
             m == state.manager
             call == calls[i + 1]
             q == call.path
             o == Object(q, n)
             next == after[i + 1].manager
  <2>1. i + 1 \in 1..size /\ (i + 1) - 1 = i /\ i \in 0..size
    BY <1>7
  <2>2. after[i + 1] = Visit(state, call, n) /\ HasMaps(m)
    BY <1>3, <1>5, <2>1
  <2>3. /\ q \in Under(t) /\ call.field = FieldAt(q)
        /\ Seen(i + 1) = IF call.leave THEN Seen(i) ELSE Seen(i) \cup {q}
    BY <1>1, <2>1
  <2>4. Spelled(m) /\ NamesKnown(m, Seen(i)) /\ known(b) \subseteq known(m)
    BY <1>7
  <2> HIDE DEF call, state
  <2>5. CASE ~call.leave
    <3>1. next = RegisterField(m, o, FieldAt(q)) /\ o.path = q
      BY <2>2, <2>3, <2>5 DEF Visit, Object
    <3>2. q \in OfTables /\ q \in Paths /\ Len(q) > 1 /\ Len(q) # 1
      <4>1. q \in Paths /\ Len(q) > 1 /\ q[1] = t
        BY <2>3 DEF Under
      <4>2. PICK length \in Nat : length = Len(q)
        BY <4>1, Path
      <4> HIDE DEF q
      <4>3. length > 1
        BY <4>1, <4>2
      <4>4. Len(q) # 1
        BY <4>2, <4>3
      <4>5. q \in OfTables
        BY <4>1 DEF OfTables
      <4> QED BY <4>1, <4>4, <4>5
    <3>3. FieldAt(q).name = NameOf(q) /\ FieldAt(q).number = Last(q)
      BY <3>2, LastOf DEF NameOf
    <3> HIDE DEF m, o, q
    <3>4. PICK tables : FieldRegistered(m, next, o, FieldAt(q), Key[q], tables)
      BY <2>2, <3>1, RegisterFieldIs
    <3> HIDE DEF next
    <3>5. /\ next.PathToEntryName = Assign(m.PathToEntryName, Key[q], NameOf(q))
          /\ next.EntryNameToEntry =
                Enter(m.EntryNameToEntry, Key[Front(q)], NameOf(q), Last(q))
      BY <3>1, <3>3, <3>4 DEF FieldRegistered
    <3>6. Spelled(next) /\ known(next) = known(m) \cup {Key[q]}
      BY <2>4, <3>2, <3>5, Spelling
    <3> QED BY <2>3, <2>4, <2>5, <3>6 DEF NamesKnown, next
  <2>6. CASE call.leave
    <3>1. next = m \/ next = SetParentMessage(m, o, Last(state.parents))
      BY <2>2, <2>6 DEF Visit
    <3>2. next = m \/ Alike(m, next)
      BY <2>2, <3>1, SetParentAlike
    <3> HIDE DEF m, next
    <3>3. Spelled(next) /\ known(next) = known(m)
      BY <2>4, <3>2, AlikeSpelled
    <3> QED BY <2>3, <2>4, <2>6, <3>3 DEF NamesKnown, next
  <2> QED BY <2>5, <2>6
<1>8. T = Nat
  <2>1. ASSUME NEW i \in T PROVE i + 1 \in T
    <3> HIDE DEF Good
    <3>1. i \in Nat /\ (i <= size => Good(i))
      OBVIOUS
    <3>2. i + 1 \in Nat /\ (i + 1 <= size => i <= size)
      BY <3>1
    <3> QED BY <1>7, <3>1, <3>2
  <2> HIDE DEF T
  <2> QED BY <1>6, <2>1, SetInduction DEF T
<1>9. Good(size)
  <2> HIDE DEF Good
  <2> QED BY <1>8
<1> QED BY <1>1, <1>3, <1>9

-----------------------------------------------------------------------------
(* The registration of a table.                                            *)

LEMMA AlikeTrans ==
    ASSUME NEW m, NEW r, NEW s, Alike(m, r), Alike(r, s)
    PROVE  Alike(m, s)
BY DEF Alike

FieldObject(root, f) == Object(Append(root.path, f.number), root.made)

\* The loop at the end of RegisterRoot adopts, and does nothing else.
LEMMA AdoptAlike ==
    ASSUME NEW m, HasMaps(m), NEW root, root.path \in Messages
    PROVE  LET r == AdoptFields(m, root)
               fields == Fields[root.path]
           IN /\ Alike(m, r) /\ r.SubtreeCache = m.SubtreeCache
              /\ IF fields = <<>> THEN r = m ELSE r.AncestorsCache = Nothing
              /\ \A f \in ToSet(fields) :
                    LET o == FieldObject(root, f)
                    IN o \in DOMAIN r.ParentMap /\ r.ParentMap[o] = root
              /\ \A o : (\A f \in ToSet(fields) : o # FieldObject(root, f)) =>
                    SameAt(m.ParentMap, r.ParentMap, o)
<1> DEFINE fields == Fields[root.path]
           Step(f, i) ==
               IF i = 0 THEN m
               ELSE SetParentMessage(
                        f[i - 1],
                        Object(Append(root.path, fields[i].number), root.made), root)
           Is(f, k) == f = [i \in 0..k |-> Step(f, i)]
           T == {k \in Nat : \E f : Is(f, k)}
<1>1. 0 \in T
  <2>1. Is([i \in 0..0 |-> m], 0)
    OBVIOUS
  <2> QED BY <2>1
<1>2. ASSUME NEW k \in T PROVE k + 1 \in T
  <2>1. k \in Nat /\ \E f : Is(f, k)
    OBVIOUS
  <2>2. PICK f : Is(f, k)
    BY <2>1
  <2> DEFINE g == [i \in 0..(k + 1) |-> Step(f, i)]
  <2>3. ASSUME NEW i \in 0..(k + 1), i # 0 PROVE g[i - 1] = f[i - 1]
    <3>1. i - 1 \in 0..k /\ i - 1 \in 0..(k + 1)
      BY <2>1, <2>3
    <3> HIDE DEF Step
    <3> QED BY <2>2, <3>1
  <2>4. ASSUME NEW i \in 0..(k + 1) PROVE Step(f, i) = Step(g, i)
    <3> HIDE DEF g
    <3> QED BY <2>3
  <2>5. Is(g, k + 1)
    <3> HIDE DEF Step
    <3> QED BY <2>4
  <2> HIDE DEF g, Is
  <2>6. \E h : Is(h, k + 1)
    BY <2>5
  <2> QED BY <2>1, <2>6
<1>3. T = Nat
  <2> HIDE DEF T
  <2> QED BY <1>1, <1>2, SetInduction DEF T
<1>4. PICK size \in Nat : /\ Len(fields) = size /\ (fields = <<>> <=> size = 0)
                          /\ ToSet(fields) = {fields[i] : i \in 1..size}
  <2>1. fields \in Seq(ToSet(fields))
    BY Schema
  <2> HIDE DEF fields
  <2> QED BY <2>1, LenProperties, EmptySeq DEF ToSet
<1>5. \E f : Is(f, size)
  <2>1. size \in T
    <3> HIDE DEF T
    <3> QED BY <1>3
  <2> QED BY <2>1
<1> DEFINE after == CHOOSE f : Is(f, size)
           child(i) == FieldObject(root, fields[i])
<1>6. Is(after, size)
  <2> HIDE DEF Is
  <2> QED BY <1>5
<1>7. AdoptFields(m, root) = after[size]
  BY <1>4 DEF AdoptFields
<1>8. after[0] = m
  <2> HIDE DEF after
  <2> QED BY <1>6
<1>9. \A i \in 1..size : after[i] = SetParentMessage(after[i - 1], child(i), root)
  <2> HIDE DEF after
  <2> QED BY <1>6 DEF FieldObject
<1> HIDE DEF after, fields, child
<1> DEFINE has(x, o) == o \in DOMAIN x.ParentMap /\ x.ParentMap[o] = root
           Good(i) == /\ Alike(m, after[i]) /\ after[i].SubtreeCache = m.SubtreeCache
                      /\ i > 0 => after[i].AncestorsCache = Nothing
                      /\ \A j \in 1..i : has(after[i], child(j))
                      /\ \A o : (\A j \in 1..size : o # child(j)) =>
                            SameAt(m.ParentMap, after[i].ParentMap, o)
           U == {i \in Nat : i <= size => Good(i)}
<1>10. 0 \in U
  <2>1. Alike(m, m) /\ \A o : SameAt(m.ParentMap, m.ParentMap, o)
    BY DEF Alike, SameAt
  <2> QED BY <1>8, <2>1
<1>11. ASSUME NEW i \in Nat, i + 1 <= size, Good(i) PROVE Good(i + 1)
  <2> DEFINE old == after[i]
             next == after[i + 1]
             o == child(i + 1)
  <2>1. i + 1 \in 1..size /\ (i + 1) - 1 = i /\ i + 1 > 0
    BY <1>11
  <2>2. next = SetParentMessage(old, o, root) /\ HasMaps(old)
    BY <1>9, <1>11, <2>1 DEF Alike
  <2> HIDE DEF old, next, o
  <2>3. /\ Alike(old, next) /\ next.SubtreeCache = old.SubtreeCache
        /\ next.AncestorsCache = Nothing
        /\ next.ParentMap = Assign(old.ParentMap, o, root)
    BY <2>2, SetParentAlike
  <2>4. has(next, o) /\ \A x : x # o => SameAt(old.ParentMap, next.ParentMap, x)
    BY <2>3, Assigned
  <2>5. ASSUME NEW j \in 1..(i + 1) PROVE has(next, child(j))
    <3>1. CASE child(j) = o
      BY <2>4, <3>1
    <3>2. CASE child(j) # o
      <4>1. j \in 1..i
        BY <2>5, <3>2 DEF o
      <4>2. has(old, child(j))
        BY <1>11, <4>1 DEF old
      <4> QED BY <2>4, <3>2, <4>2 DEF SameAt
    <3> QED BY <3>1, <3>2
  <2>6. ASSUME NEW x, \A j \in 1..size : x # child(j)
        PROVE  SameAt(m.ParentMap, next.ParentMap, x)
    <3>1. SameAt(m.ParentMap, old.ParentMap, x)
      BY <1>11, <2>6 DEF old
    <3>2. SameAt(old.ParentMap, next.ParentMap, x)
      BY <2>1, <2>4, <2>6 DEF o
    <3> QED BY <3>1, <3>2, SameAtTrans
  <2>7. Alike(m, next) /\ next.SubtreeCache = m.SubtreeCache
    BY <1>11, <2>3, AlikeTrans DEF old
  <2> HIDE DEF has
  <2> QED BY <2>1, <2>3, <2>5, <2>6, <2>7 DEF next
<1>12. U = Nat
  <2>1. ASSUME NEW i \in U PROVE i + 1 \in U
    <3> HIDE DEF Good
    <3>1. i \in Nat /\ (i <= size => Good(i))
      OBVIOUS
    <3>2. i + 1 \in Nat /\ (i + 1 <= size => i <= size)
      BY <3>1
    <3> QED BY <1>11, <3>1, <3>2
  <2> HIDE DEF U
  <2> QED BY <1>10, <2>1, SetInduction DEF U
<1>13. Good(size)
  <2> HIDE DEF Good
  <2> QED BY <1>12
<1> DEFINE r == after[size]
<1>14. IF fields = <<>> THEN r = m ELSE r.AncestorsCache = Nothing
  BY <1>4, <1>8, <1>13
<1>15. \A f \in ToSet(fields) : has(r, FieldObject(root, f))
  BY <1>4, <1>13 DEF child
<1>16. \A o : (\A f \in ToSet(fields) : o # FieldObject(root, f)) =>
          SameAt(m.ParentMap, r.ParentMap, o)
  BY <1>4, <1>13 DEF child
<1>17. Alike(m, r) /\ r.SubtreeCache = m.SubtreeCache
  BY <1>13
<1> HIDE DEF r
<1> QED BY <1>7, <1>14, <1>15, <1>16, <1>17 DEF r, fields

\* Table t is on file as its registration n.
Current(m, t, n) ==
    LET k == Key[<<t>>]
        o == Object(<<t>>, n)
    IN /\ k \in DOMAIN m.MessagesByPath /\ m.MessagesByPath[k] = o
       /\ k \in DOMAIN m.RootMessagesByPath /\ m.RootMessagesByPath[k] = o
       /\ k \in DOMAIN m.ObjectType /\ m.ObjectType[k] = "RootMessage"
       /\ k \in DOMAIN m.ParentTable
       /\ k \in DOMAIN m.TableByPath
       /\ m.TableByPath[k] = TableOf(t, Under(t), FindPrimaryFields(<<t>>))
       /\ \A q \in Under(t) : FieldFiled(m, q, n)

LEMMA AlikeCurrent ==
    ASSUME NEW m, NEW r, NEW t, NEW n, Alike(m, r), Current(m, t, n)
    PROVE  Current(r, t, n)
<1>1. /\ r.MessagesByPath = m.MessagesByPath /\ r.ObjectType = m.ObjectType
      /\ r.RootMessagesByPath = m.RootMessagesByPath
      /\ r.ParentTable = m.ParentTable /\ r.TableByPath = m.TableByPath
      /\ r.FieldsByPath = m.FieldsByPath
      /\ r.PrimitiveFieldsByPath = m.PrimitiveFieldsByPath
  BY DEF Alike, MapNames
<1>2. \A q \in Under(t) : FieldFiled(r, q, n)
  BY <1>1 DEF Current, FieldFiled
<1> QED BY <1>1, <1>2 DEF Current

LEMMA AlikeHarmless ==
    ASSUME NEW m, NEW r, Alike(m, r), Harmless(m)
    PROVE  Harmless(r)
<1>1. r.MessagesByPath = m.MessagesByPath /\ r.ParentTable = m.ParentTable
  BY DEF Alike, MapNames
<1> QED BY <1>1 DEF Harmless

\* What is on file of the other tables stays there.
OthersKept(m, r, t) ==
    /\ \A k : (\A q \in Paths : q[1] = t => k # Key[q]) => KeyKept(m, r, k)
    /\ \A k : k # Key[<<t>>] => /\ SameAt(m.TableByPath, r.TableByPath, k)
                                /\ SameAt(m.RootMessagesByPath, r.RootMessagesByPath, k)

LEMMA AlikeKept ==
    ASSUME NEW m, NEW r, NEW s, NEW t, OthersKept(m, r, t), Alike(r, s)
    PROVE  OthersKept(m, s, t)
<1>1. /\ s.MessagesByPath = r.MessagesByPath /\ s.ObjectType = r.ObjectType
      /\ s.RootMessagesByPath = r.RootMessagesByPath
      /\ s.ParentTable = r.ParentTable /\ s.TableByPath = r.TableByPath
      /\ s.FieldsByPath = r.FieldsByPath
      /\ s.PrimitiveFieldsByPath = r.PrimitiveFieldsByPath
  BY DEF Alike, MapNames
<1> QED BY <1>1 DEF OthersKept, KeyKept

LEMMA KeptCurrent ==
    ASSUME NEW m, NEW r, NEW t \in Tables, NEW u \in Tables, u # t, NEW n,
           KeysDistinct, OthersKept(m, r, t), Current(m, u, n)
    PROVE  Current(r, u, n)
<1> DEFINE k == Key[<<u>>]
<1>1. <<t>> \in Paths /\ <<u>> \in Paths /\ <<t>>[1] = t /\ <<u>>[1] = u
  BY RelationsAssumption DEF Paths
<1>2. k # Key[<<t>>]
  BY <1>1 DEF KeysDistinct
<1>9. \A q \in Paths : q[1] = u => KeyKept(m, r, Key[q])
  BY DEF OthersKept, KeysDistinct
<1>3. /\ KeyKept(m, r, k)
      /\ SameAt(m.TableByPath, r.TableByPath, k)
      /\ SameAt(m.RootMessagesByPath, r.RootMessagesByPath, k)
  BY <1>1, <1>2, <1>9 DEF OthersKept
<1>4. ASSUME NEW q \in Under(u) PROVE FieldFiled(r, q, n)
  <2>1. q \in Paths /\ q[1] = u
    BY DEF Under
  <2>2. KeyKept(m, r, Key[q])
    BY <1>9, <2>1
  <2>3. FieldFiled(m, q, n)
    BY DEF Current
  <2> QED BY <2>2, <2>3 DEF FieldFiled, KeyKept, SameAt
<1> HIDE DEF k
<1>5. /\ k \in DOMAIN r.MessagesByPath /\ r.MessagesByPath[k] = Object(<<u>>, n)
      /\ k \in DOMAIN r.RootMessagesByPath
      /\ r.RootMessagesByPath[k] = Object(<<u>>, n)
      /\ k \in DOMAIN r.ObjectType /\ r.ObjectType[k] = "RootMessage"
      /\ k \in DOMAIN r.ParentTable
      /\ k \in DOMAIN r.TableByPath
      /\ r.TableByPath[k] = TableOf(u, Under(u), FindPrimaryFields(<<u>>))
  BY <1>3 DEF Current, KeyKept, SameAt, k
<1> QED BY <1>4, <1>5 DEF Current, k

\* The objects of registration n of t have their parents, and the others theirs;
\* what was kept of ancestors is kept when nothing has a parent in t.
Related(m, r, t, n) ==
    /\ \A q \in Adopted(t) : HasParent(r, q, n)
    /\ \A o : o \notin Children(t, n) => SameAt(m.ParentMap, r.ParentMap, o)
    /\ r.AncestorsCache = IF Fields[<<t>>] = <<>> THEN m.AncestorsCache ELSE Nothing

LEMMA TableField ==
    ASSUME NEW t \in Tables
    PROVE  /\ \A f \in ToSet(Fields[<<t>>]) :
                 LET q == Append(<<t>>, f.number) IN q \in Adopted(t) /\ Len(q) = 2
           /\ \A q \in Under(t) : Len(q) = 2 =>
                 /\ Front(q) = <<t>>
                 /\ \E f \in ToSet(Fields[<<t>>]) : q = Append(<<t>>, f.number)
<1> DEFINE root == <<t>>
<1>1. root \in Messages /\ root[1] = t /\ Len(root) = 1
  BY RelationsAssumption
<1> HIDE DEF root
<1>2. ASSUME NEW f \in ToSet(Fields[root])
      PROVE  LET q == Append(root, f.number) IN q \in Adopted(t) /\ Len(q) = 2
  <2> DEFINE q == Append(root, f.number)
  <2>1. q \in Paths /\ Len(q) = 1 + 1 /\ q[1] = t
    BY <1>1, Child
  <2> HIDE DEF q
  <2>2. Len(q) = 2 /\ Len(q) > 1
    BY <2>1
  <2>3. q \in Adopted(t)
    BY <2>1, <2>2 DEF Adopted, Under
  <2> QED BY <2>2, <2>3 DEF q
<1>3. ASSUME NEW q \in Under(t), Len(q) = 2
      PROVE  /\ Front(q) = root
             /\ \E f \in ToSet(Fields[root]) : q = Append(root, f.number)
  <2>1. /\ Front(q) \in Paths /\ Front(q)[1] = t /\ Len(Front(q)) = 1
        /\ FieldAt(q) \in ToSet(Fields[Front(q)])
        /\ q = Append(Front(q), FieldAt(q).number)
    <3>1. q \in Paths /\ Len(q) > 1 /\ Len(q) - 1 = 1 /\ q[1] = t
      BY <1>3 DEF Under
    <3> QED BY <3>1, Path DEF Paths
  <2>2. Front(q) = root
    BY <2>1, Path DEF root
  <2> QED BY <2>1, <2>2
<1> QED BY <1>2, <1>3 DEF root

\* All paths of table t.
Of(t) == {q \in Paths : q[1] = t}

LEMMA OfIs == ASSUME NEW t \in Tables PROVE Of(t) \subseteq Under(t) \cup {<<t>>}
<1> SUFFICES ASSUME NEW q \in Paths, q[1] = t PROVE q \in Under(t) \/ q = <<t>>
  BY DEF Of
<1>1. PICK size \in Nat \ {0} : size = Len(q)
  BY Path
<1>2. CASE size = 1
  BY <1>1, <1>2, LastOf
<1>3. CASE size > 1
  <2>1. Len(q) > 1
    BY <1>1, <1>3
  <2> QED BY <2>1 DEF Under
<1> QED BY <1>1, <1>2, <1>3

LEMMA RootRegistered ==
    ASSUME KeysDistinct, NEW t \in Tables, NEW n, NEW m, HasMaps(m), Harmless(m), NEW name
    PROVE  LET r == RegisterRoot(m, Object(<<t>>, n), name)
           IN /\ HasMaps(r) /\ Harmless(r) /\ Current(r, t, n) /\ OthersKept(m, r, t)
              /\ r.SubtreeCache = m.SubtreeCache
              /\ Related(m, r, t, n)
              /\ NamesDistinct /\ Spelled(m) /\ name = TableName[t] =>
                    /\ Spelled(r) /\ NamesKnown(r, Of(t))
                    /\ DOMAIN m.PathToEntryName \subseteq DOMAIN r.PathToEntryName
<1> DEFINE root == Object(<<t>>, n)
           k == Key[<<t>>]
           primary == FindPrimaryFields(<<t>>)
           table == [path |-> <<t>>, messages |-> {k}, fields |-> {}, primary |-> primary]
           tables == Assign(m.TableByPath, k, table)
           parents == Emplace(m.ParentTable, k, k)
           names == Assign(m.PathToEntryName, k, name)
           entries == Enter(m.EntryNameToEntry, Key[<<>>], name, t)
           b == [m EXCEPT !.TableByPath = tables, !.ParentTable = parents,
                          !.PathToEntryName = names, !.EntryNameToEntry = entries]
           p == Process(b, <<t>>, n)
           messages == Assign(p.MessagesByPath, k, root)
           roots == Assign(p.RootMessagesByPath, k, root)
           types == Assign(p.ObjectType, k, "RootMessage")
           f == [p EXCEPT !.MessagesByPath = messages, !.RootMessagesByPath = roots,
                          !.ObjectType = types]
           r == RegisterRoot(m, root, name)
<1>1. /\ <<t>> \in Messages /\ <<t>> \in Paths /\ <<t>>[1] = t /\ Len(<<t>>) = 1
      /\ Head(<<t>>) = t
  BY RelationsAssumption DEF Paths
<1>2. root.path = <<t>> /\ root.made = n
  BY DEF Object
<1>3. r = AdoptFields(f, root)
  <2> HIDE DEF root
  <2> QED BY <1>1, <1>2 DEF RegisterRoot
<1> HIDE DEF root, table, tables, parents, names, entries, b, messages, roots, types, f, r
<1> HIDE DEF k, primary
<1>4. /\ DOMAIN b = MapNames
      /\ HasMaps(b)
      /\ b.TableByPath = tables /\ b.ParentTable = parents
      /\ b.MessagesByPath = m.MessagesByPath /\ b.FieldsByPath = m.FieldsByPath
      /\ b.PrimitiveFieldsByPath = m.PrimitiveFieldsByPath
      /\ b.ObjectType = m.ObjectType /\ b.RootMessagesByPath = m.RootMessagesByPath
      /\ b.ParentMap = m.ParentMap /\ b.SubtreeCache = m.SubtreeCache
      /\ b.AncestorsCache = m.AncestorsCache
      /\ b.PathToEntryName = names /\ b.EntryNameToEntry = entries
  <2>1. DOMAIN m = MapNames
    BY DEF HasMaps
  <2>2. DOMAIN b = MapNames
    BY <2>1 DEF b
  <2>3. HasMaps(b)
    BY <2>1 DEF HasMaps, MapNames, b
  <2> QED BY <2>1, <2>2, <2>3 DEF MapNames, b
<1>5. /\ k \in DOMAIN parents /\ parents[k] = k
      /\ \A x : x # k => SameAt(m.ParentTable, parents, x)
  <2>1. k \in DOMAIN m.ParentTable => m.ParentTable[k] = k
    BY <1>1 DEF Harmless, k
  <2> QED BY <2>1, Emplaced DEF parents
<1>6. /\ k \in DOMAIN tables /\ tables[k] = table
      /\ \A x : x # k => SameAt(m.TableByPath, tables, x)
  BY Assigned DEF tables
<1>7. \A q \in Paths : q # <<t>> => Key[q] # k
  BY <1>1 DEF KeysDistinct, k
<1>8. Harmless(b)
  <2>1. ASSUME NEW q \in Paths, Key[q] \in DOMAIN parents
        PROVE  parents[Key[q]] = Key[<<q[1]>>]
    <3>1. CASE q = <<t>>
      BY <1>1, <1>5, <3>1 DEF k
    <3>2. CASE q # <<t>>
      <4>1. SameAt(m.ParentTable, parents, Key[q])
        BY <1>5, <1>7, <3>2
      <4> QED BY <2>1, <4>1 DEF SameAt, Harmless
    <3> QED BY <3>1, <3>2
  <2>2. \A q \in Paths : q \notin Messages => Key[q] \notin DOMAIN b.MessagesByPath
    BY <1>4 DEF Harmless
  <2> QED BY <1>4, <2>1, <2>2 DEF Harmless
<1>9. table = TableOf(t, {}, primary)
  BY DEF TableOf, table, k
<1>10. Filed(b, b, t, n, {}, primary)
  <2>1. \A x : KeyKept(b, b, x)
    BY DEF KeyKept, SameAt
  <2>2. \A x : SameAt(b.TableByPath, b.TableByPath, x)
    BY DEF SameAt
  <2> QED BY <1>4, <1>5, <1>6, <1>8, <1>9, <2>1, <2>2 DEF Filed, k
<1>11. Filed(b, p, t, n, Under(t), primary)
  BY <1>10, ProcessFiled
<1>21. /\ \A q \in Under(t) \cap Messages : Len(q) > 2 => HasParent(p, q, n)
       /\ \A o : o \notin Children(t, n) => SameAt(b.ParentMap, p.ParentMap, o)
       /\ Fields[<<t>>] = <<>> => p = b
  BY <1>10, ProcessNested
<1> HIDE DEF p
<1>12. /\ HasMaps(p) /\ DOMAIN p = MapNames /\ Harmless(p)
       /\ p.RootMessagesByPath = m.RootMessagesByPath
       /\ p.SubtreeCache = m.SubtreeCache
       /\ \A q \in Under(t) : FieldFiled(p, q, n)
       /\ \A x : (\A q \in Under(t) : x # Key[q]) => KeyKept(b, p, x)
       /\ k \in DOMAIN p.ParentTable
       /\ k \in DOMAIN p.TableByPath
       /\ p.TableByPath[k] = TableOf(t, Under(t), primary)
       /\ \A x : x # k => SameAt(b.TableByPath, p.TableByPath, x)
  BY <1>4, <1>11 DEF Filed, HasMaps, k
<1>13. /\ HasMaps(f)
       /\ f.MessagesByPath = messages /\ f.RootMessagesByPath = roots
       /\ f.ObjectType = types
       /\ f.TableByPath = p.TableByPath /\ f.ParentTable = p.ParentTable
       /\ f.FieldsByPath = p.FieldsByPath
       /\ f.PrimitiveFieldsByPath = p.PrimitiveFieldsByPath
       /\ f.SubtreeCache = p.SubtreeCache /\ f.AncestorsCache = p.AncestorsCache
       /\ f.ParentMap = p.ParentMap
       /\ f.PathToEntryName = p.PathToEntryName
       /\ f.EntryNameToEntry = p.EntryNameToEntry
  <2>1. HasMaps(f)
    BY <1>12 DEF HasMaps, MapNames, f
  <2> QED BY <1>12, <2>1 DEF MapNames, f
<1>14. /\ k \in DOMAIN messages /\ messages[k] = root
       /\ k \in DOMAIN roots /\ roots[k] = root
       /\ k \in DOMAIN types /\ types[k] = "RootMessage"
       /\ \A x : x # k => /\ SameAt(p.MessagesByPath, messages, x)
                          /\ SameAt(p.RootMessagesByPath, roots, x)
                          /\ SameAt(p.ObjectType, types, x)
  BY Assigned DEF messages, roots, types
<1>15. Harmless(f)
  <2>1. ASSUME NEW q \in Paths \ Messages PROVE Key[q] \notin DOMAIN messages
    <3>1. SameAt(p.MessagesByPath, messages, Key[q])
      BY <1>1, <1>7, <1>14
    <3>2. Key[q] \notin DOMAIN p.MessagesByPath
      BY <1>12 DEF Harmless
    <3> QED BY <3>1, <3>2 DEF SameAt
  <2> QED BY <1>12, <1>13, <2>1 DEF Harmless
<1>16. ASSUME NEW q \in Under(t) PROVE FieldFiled(f, q, n)
  <2>1. q \in Paths /\ Key[q] # k
    <3>1. q \in Paths /\ Len(q) > 1
      BY DEF Under
    <3>2. q # <<t>>
      BY <1>1, <3>1
    <3> QED BY <1>7, <3>1, <3>2
  <2>2. SameAt(p.MessagesByPath, messages, Key[q]) /\ SameAt(p.ObjectType, types, Key[q])
    BY <1>14, <2>1
  <2>3. FieldFiled(p, q, n)
    BY <1>12
  <2> QED BY <1>13, <2>2, <2>3 DEF FieldFiled, SameAt
<1>17. Current(f, t, n)
  BY <1>12, <1>13, <1>14, <1>16 DEF Current, k, root, primary
<1>18. ASSUME NEW x, \A q \in Paths : q[1] = t => x # Key[q] PROVE KeyKept(m, f, x)
  <2>1. x # k /\ \A q \in Under(t) : x # Key[q]
    BY <1>1, <1>18 DEF Under, k
  <2>2. KeyKept(b, p, x)
    BY <1>12, <2>1
  <2>3. SameAt(m.ParentTable, b.ParentTable, x)
    BY <1>4, <1>5, <2>1
  <2>4. /\ SameAt(p.MessagesByPath, f.MessagesByPath, x)
        /\ SameAt(p.ObjectType, f.ObjectType, x)
    BY <1>13, <1>14, <2>1
  <2>5. SameAt(m.ParentTable, f.ParentTable, x)
    BY <1>13, <2>2, <2>3, SameAtTrans DEF KeyKept
  <2>6. /\ SameAt(m.MessagesByPath, f.MessagesByPath, x)
        /\ SameAt(m.ObjectType, f.ObjectType, x)
    BY <1>4, <2>2, <2>4, SameAtTrans DEF KeyKept
  <2>7. /\ SameAt(m.FieldsByPath, f.FieldsByPath, x)
        /\ SameAt(m.PrimitiveFieldsByPath, f.PrimitiveFieldsByPath, x)
    BY <1>4, <1>13, <2>2 DEF KeyKept
  <2> QED BY <2>5, <2>6, <2>7 DEF KeyKept
<1>19. OthersKept(m, f, t)
  <2>1. ASSUME NEW x, x # k
        PROVE  /\ SameAt(m.TableByPath, f.TableByPath, x)
               /\ SameAt(m.RootMessagesByPath, f.RootMessagesByPath, x)
    <3>1. SameAt(m.TableByPath, b.TableByPath, x)
      BY <1>4, <1>6, <2>1
    <3>2. SameAt(b.TableByPath, p.TableByPath, x)
      BY <1>12, <2>1
    <3>3. SameAt(p.RootMessagesByPath, roots, x)
      BY <1>14, <2>1
    <3> QED BY <1>12, <1>13, <3>1, <3>2, <3>3, SameAtTrans
  <2> QED BY <1>18, <2>1 DEF OthersKept, k
<1>20. /\ Alike(f, r) /\ r.SubtreeCache = f.SubtreeCache
       /\ IF Fields[<<t>>] = <<>> THEN r = f ELSE r.AncestorsCache = Nothing
       /\ \A g \in ToSet(Fields[<<t>>]) :
             LET o == FieldObject(root, g)
             IN o \in DOMAIN r.ParentMap /\ r.ParentMap[o] = root
       /\ \A o : (\A g \in ToSet(Fields[<<t>>]) : o # FieldObject(root, g)) =>
             SameAt(f.ParentMap, r.ParentMap, o)
  BY <1>1, <1>2, <1>3, <1>13, AdoptAlike
<1>22. \A g : FieldObject(root, g) = Object(Append(<<t>>, g.number), n)
  BY <1>2 DEF FieldObject
<1>23. ASSUME NEW q \in Adopted(t) PROVE HasParent(r, q, n)
  <2>1. q \in Under(t)
    BY DEF Adopted
  <2>2. CASE Len(q) = 2
    <3>1. PICK g \in ToSet(Fields[<<t>>]) : q = Append(<<t>>, g.number)
      BY <2>1, <2>2, TableField
    <3>2. Front(q) = <<t>>
      BY <2>1, <2>2, TableField
    <3>3. FieldObject(root, g) = Object(q, n)
      BY <1>22, <3>1
    <3> QED BY <1>20, <3>2, <3>3 DEF HasParent, root
  <2>3. CASE Len(q) # 2
    <3>1. q \in Messages /\ Len(q) > 2
      <4>1. PICK size \in Nat : size = Len(q) /\ size > 1
        BY <2>1, Path DEF Under
      <4>2. size > 2
        BY <2>3, <4>1
      <4> QED BY <2>3, <4>1, <4>2 DEF Adopted
    <3>2. ASSUME NEW g \in ToSet(Fields[<<t>>]) PROVE Object(q, n) # FieldObject(root, g)
      <4>1. q # Append(<<t>>, g.number)
        BY <2>3, TableField
      <4> DEFINE x == Append(<<t>>, g.number)
      <4> HIDE DEF x
      <4>2. q # x => Object(q, n) # Object(x, n)
        BY DEF Object
      <4> QED BY <1>22, <4>1, <4>2 DEF x
    <3>3. SameAt(f.ParentMap, r.ParentMap, Object(q, n))
      BY <1>20, <3>2
    <3>4. HasParent(p, q, n)
      BY <1>21, <2>1, <3>1
    <3> QED BY <1>13, <3>3, <3>4 DEF HasParent, SameAt
  <2> QED BY <2>2, <2>3
<1>24. ASSUME NEW o, o \notin Children(t, n) PROVE SameAt(m.ParentMap, r.ParentMap, o)
  <2>1. ASSUME NEW g \in ToSet(Fields[<<t>>]) PROVE o # FieldObject(root, g)
    BY <1>22, <1>24, TableField DEF Children
  <2>2. SameAt(f.ParentMap, r.ParentMap, o)
    BY <1>20, <2>1
  <2>3. SameAt(m.ParentMap, f.ParentMap, o)
    BY <1>4, <1>13, <1>21, <1>24
  <2> QED BY <2>2, <2>3, SameAtTrans
<1>25. r.AncestorsCache = IF Fields[<<t>>] = <<>> THEN m.AncestorsCache ELSE Nothing
  BY <1>4, <1>13, <1>20, <1>21
<1>26. Related(m, r, t, n)
  BY <1>23, <1>24, <1>25 DEF Related
<1>27. /\ HasMaps(r) /\ Harmless(r) /\ Current(r, t, n) /\ OthersKept(m, r, t)
       /\ r.SubtreeCache = m.SubtreeCache
  BY <1>12, <1>13, <1>15, <1>17, <1>19, <1>20, AlikeHarmless, AlikeCurrent, AlikeKept
     DEF Alike
<1>28. ASSUME NamesDistinct, Spelled(m), name = TableName[t]
       PROVE  /\ Spelled(r) /\ NamesKnown(r, Of(t))
              /\ DOMAIN m.PathToEntryName \subseteq DOMAIN r.PathToEntryName
  <2>1. /\ <<t>> \in OfTables /\ Front(<<t>>) = <<>> /\ Last(<<t>>) = t
        /\ NameOf(<<t>>) = name
    BY <1>1, <1>28, LastOf DEF OfTables, NameOf
  <2>2. /\ b.PathToEntryName = Assign(m.PathToEntryName, Key[<<t>>], NameOf(<<t>>))
        /\ b.EntryNameToEntry =
              Enter(m.EntryNameToEntry, Key[Front(<<t>>)], NameOf(<<t>>), Last(<<t>>))
    BY <1>4, <2>1 DEF names, entries, k
  <2>3. /\ Spelled(b)
        /\ DOMAIN b.PathToEntryName = DOMAIN m.PathToEntryName \cup {Key[<<t>>]}
    BY ZenonT(60), <1>28, <2>1, <2>2, Spelling
  <2>4. /\ Spelled(p) /\ NamesKnown(p, Under(t))
        /\ DOMAIN b.PathToEntryName \subseteq DOMAIN p.PathToEntryName
    BY <1>10, <1>28, <2>3, ProcessSpelled DEF p
  <2>5. Spelled(f)
    BY <1>13, <2>4 DEF Spelled, SpelledAt
  <2>6. Spelled(r) /\ r.PathToEntryName = p.PathToEntryName
    BY <1>13, <1>20, <2>5, AlikeSpelled
  <2>7. Of(t) \subseteq Under(t) \cup {<<t>>}
    BY OfIs
  <2> QED BY <2>3, <2>4, <2>6, <2>7 DEF NamesKnown
<1> QED BY <1>26, <1>27, <1>28 DEF r, root

-----------------------------------------------------------------------------
(* The manager.                                                            *)

\* LookupExact in terms of what is on file.
OnFile ==
    /\ TypeOK /\ Harmless(manager)
    /\ \A t \in Tables : current[t] # 0 => Current(manager, t, current[t])

LEMMA OnFileInit == Init => OnFile
<1> SUFFICES ASSUME Init PROVE OnFile
  OBVIOUS
<1>1. manager = [x \in MapNames |-> manager[x]]
  BY DEF Init, MapNames
<1>2. made \in Nat /\ current \in [Tables -> 0..made] /\ \A t \in Tables : current[t] = 0
  BY DEF Init
<1>3. manager.ParentTable = Nothing /\ manager.MessagesByPath = Nothing
  BY DEF Init
<1>4. Harmless(manager)
  BY <1>3 DEF Harmless, Nothing
<1> QED BY <1>1, <1>2, <1>4 DEF OnFile, TypeOK

LEMMA OnFileNext == ASSUME KeysDistinct PROVE OnFile /\ [Next]_vars => OnFile'
<1> SUFFICES ASSUME OnFile, [Next]_vars PROVE OnFile'
  OBVIOUS
<1>0. /\ HasMaps(manager) /\ made \in Nat /\ current \in [Tables -> 0..made]
      /\ Harmless(manager)
      /\ \A t \in Tables : current[t] # 0 => Current(manager, t, current[t])
  BY DEF OnFile, TypeOK, HasMaps
<1>1. ASSUME NEW t \in Tables, RegisterRootMessage(t) PROVE OnFile'
  <2>1. /\ made' = made + 1 /\ current' = [current EXCEPT ![t] = made']
        /\ manager' = RegisterRoot(manager, Object(<<t>>, made'), TableName[t])
    BY <1>1 DEF RegisterRootMessage
  <2>2. /\ HasMaps(manager') /\ Harmless(manager') /\ Current(manager', t, made')
        /\ OthersKept(manager, manager', t)
    BY <1>0, <2>1, RootRegistered
  <2>3. /\ made' \in Nat /\ current' \in [Tables -> 0..made']
        /\ current'[t] = made' /\ \A u \in Tables : u # t => current'[u] = current[u]
    BY <1>0, <2>1
  <2>4. ASSUME NEW u \in Tables, current'[u] # 0 PROVE Current(manager', u, current'[u])
    <3>1. CASE u = t
      BY <2>2, <2>3, <3>1
    <3>2. CASE u # t
      <4>1. Current(manager, u, current[u])
        BY <1>0, <2>3, <2>4, <3>2
      <4>2. Current(manager', u, current[u])
        BY <2>2, <3>2, <4>1, KeptCurrent
      <4> QED BY <2>3, <3>2, <4>2
    <3> QED BY <3>1, <3>2
  <2> QED BY <2>2, <2>3, <2>4 DEF OnFile, TypeOK, HasMaps
<1>2. ASSUME Alike(manager, manager'), UNCHANGED <<made, current>> PROVE OnFile'
  <2>1. \A t \in Tables : current[t] # 0 => Current(manager', t, current[t])
    BY <1>0, <1>2, AlikeCurrent
  <2>2. HasMaps(manager') /\ Harmless(manager')
    BY <1>0, <1>2, AlikeHarmless DEF Alike
  <2> QED BY <1>0, <1>2, <2>1, <2>2 DEF OnFile, TypeOK, HasMaps
<1>3. DOMAIN manager = MapNames
  BY <1>0 DEF HasMaps
<1>4. ASSUME NEW p \in Asked, GetMessagesFromSubtree(p) PROVE OnFile'
  <2> DEFINE kept == Assign(manager.SubtreeCache, p, Subtree(manager, p))
  <2>1. manager' = [manager EXCEPT !.SubtreeCache = kept] /\ UNCHANGED <<made, current>>
    BY <1>4 DEF GetMessagesFromSubtree
  <2> HIDE DEF kept
  <2>2. HasMaps(manager')
    BY <1>3, <2>1 DEF HasMaps, MapNames
  <2>3. Alike(manager, manager')
    BY <1>3, <2>1, <2>2 DEF Alike
  <2> QED BY <1>2, <2>1, <2>3
<1>5. ASSUME NEW p \in Asked, GetObjectWithAncestors(p) PROVE OnFile'
  <2> DEFINE kept == Assign(manager.AncestorsCache, p, WithAncestors(manager, p))
  <2>1. manager' = [manager EXCEPT !.AncestorsCache = kept] /\ UNCHANGED <<made, current>>
    BY <1>5 DEF GetObjectWithAncestors
  <2> HIDE DEF kept
  <2>2. HasMaps(manager')
    BY <1>3, <2>1 DEF HasMaps, MapNames
  <2>3. Alike(manager, manager')
    BY <1>3, <2>1, <2>2 DEF Alike
  <2> QED BY <1>2, <2>1, <2>3
<1>6. ASSUME Clear PROVE OnFile'
  <2>1. /\ manager' = [manager EXCEPT !.MessagesByPath = Nothing,
                                      !.FieldsByPath = Nothing, !.ParentMap = Nothing]
        /\ current' = [t \in Tables |-> 0] /\ made' = made
    BY <1>6 DEF Clear
  <2>2. HasMaps(manager')
    BY <1>3, <2>1 DEF HasMaps, MapNames
  <2>3. manager'.ParentTable = manager.ParentTable /\ manager'.MessagesByPath = Nothing
    BY <1>3, <2>1 DEF MapNames
  <2>4. Harmless(manager')
    BY <1>0, <2>3 DEF Harmless, Nothing
  <2>5. made' \in Nat /\ current' \in [Tables -> 0..made']
    BY <1>0, <2>1
  <2>6. \A t \in Tables : current'[t] = 0
    BY <2>1
  <2> QED BY <2>2, <2>4, <2>5, <2>6 DEF OnFile, TypeOK, HasMaps
<1>7. ASSUME UNCHANGED vars PROVE OnFile'
  BY <1>7 DEF OnFile, TypeOK, vars
<1> QED BY <1>1, <1>4, <1>5, <1>6, <1>7 DEF Next

\* What is on file is what the lookups find.
LEMMA OnFileExact == OnFile => LookupExact
<1> SUFFICES ASSUME OnFile PROVE LookupExact
  OBVIOUS
<1>1. LeftoversHarmless
  BY DEF OnFile, Harmless, LeftoversHarmless
<1>2. ASSUME NEW t \in Tables, current[t] # 0
      PROVE  TableExact(t) /\ \A p \in Registered(t) : PathExact(t, p)
  <2> DEFINE k == Key[<<t>>]
             n == current[t]
             m == manager
             known == Registered(t)
  <2>1. Current(m, t, n)
    BY <1>2 DEF OnFile
  <2>2. <<t>> \in Messages /\ <<t>> \in Paths /\ <<t>>[1] = t /\ Len(<<t>>) = 1
    BY RelationsAssumption DEF Paths
  <2>3. known = Under(t) \cup {<<t>>}
    <3>1. known = {p \in Paths : p[1] = t}
      BY <1>2 DEF Registered
    <3>2. ASSUME NEW p \in Paths, p[1] = t, Len(p) = 1 PROVE p = <<t>>
      BY <3>2, Path
    <3>3. ASSUME NEW p \in Paths PROVE Len(p) > 1 \/ Len(p) = 1
      <4>1. PICK size \in Nat \ {0} : size = Len(p)
        BY Path
      <4>2. size > 1 \/ size = 1
        OBVIOUS
      <4> QED BY <4>1, <4>2
    <3> QED BY <2>2, <3>1, <3>2, <3>3 DEF Under
  <2>4. m.ParentTable[k] = k
    BY <2>1, <2>2 DEF OnFile, Harmless, Current
  <2>5. ~ <<t>> \in Under(t)
    BY <2>2 DEF Under
  <2>6. TableExact(t)
    <3> DEFINE table == m.TableByPath[k]
    <3>1. table = TableOf(t, Under(t), FindPrimaryFields(<<t>>))
      BY <2>1 DEF Current
    <3>2. table.messages = {Key[q] : q \in known \cap Messages}
      BY <2>2, <2>3, <3>1 DEF TableOf
    <3>3. table.fields = {Key[q] : q \in known \ Messages}
      BY <2>2, <2>3, <3>1 DEF TableOf
    <3>4. table.primary = {Key[q] : q \in {r \in known \ {<<t>>} :
                                             FieldAt(r).primary /\ ~InRepeated(r)}}
      <4>1. {r \in known \ {<<t>>} : FieldAt(r).primary /\ ~InRepeated(r)} =
                {q \in Paths : /\ Len(q) > 1 /\ q[1] = t
                               /\ FieldAt(q).primary /\ ~InRepeated(q)}
        BY <2>3, <2>5 DEF Under
      <4>2. table.primary = FindPrimaryFields(<<t>>)
        BY <3>1 DEF TableOf
      <4> QED BY <2>2, <4>1, <4>2, TableKeys
    <3>5. table.path = <<t>>
      BY <3>1 DEF TableOf
    <3>6. GetRootMessage(m, <<t>>) = Object(<<t>>, n) /\ k \in DOMAIN m.TableByPath
      BY <2>1 DEF Current, GetRootMessage, Find
    <3>7. GetParentTable(m, <<t>>) = table
      BY <2>4 DEF GetParentTable
    <3> HIDE DEF table, k
    <3> QED BY <3>2, <3>3, <3>4, <3>5, <3>6, <3>7 DEF TableExact, k
  <2>7. ASSUME NEW p \in known PROVE PathExact(t, p)
    <3> DEFINE o == Object(p, n)
               key == Key[p]
    <3>1. p \in Paths /\ p[1] = t
      BY DEF Registered
    <3>2. o # Null
      BY <1>2 DEF Object, Null
    <3>3. key \in DOMAIN m.ParentTable => m.ParentTable[key] = k
      BY <3>1 DEF OnFile, Harmless
    <3>4. CASE p = <<t>>
      <4>1. /\ key \in DOMAIN m.MessagesByPath /\ m.MessagesByPath[key] = o
            /\ key \in DOMAIN m.ObjectType /\ m.ObjectType[key] = "RootMessage"
            /\ key \in DOMAIN m.ParentTable
        BY <2>1, <3>4 DEF Current
      <4>2. GetMessage(m, p) = o /\ GetObject(m, p) = o
        BY <3>2, <4>1 DEF GetMessage, GetObject, Find
      <4>3. p \in Messages /\ Len(p) = 1
        BY <2>2, <3>4
      <4> HIDE DEF o, key, k
      <4> QED BY <3>3, <4>1, <4>2, <4>3 DEF PathExact, o, key, k
    <3>5. CASE p \in Under(t)
      <4>1. FieldFiled(m, p, n) /\ Len(p) > 1 /\ Len(p) # 1
        BY <2>1, <3>1, <3>5, Path DEF Current, Under
      <4>2. GetField(m, p) = o
        BY <4>1 DEF FieldFiled, GetField, Find
      <4>3. p \in Messages => GetMessage(m, p) = o
        BY <4>1 DEF FieldFiled, GetMessage, Find
      <4>4. p \notin Messages => GetMessage(m, p) = Null /\ GetPrimitiveField(m, p) = o
        <5>1. p \notin Messages => key \notin DOMAIN m.MessagesByPath
          BY <3>1 DEF OnFile, Harmless
        <5> QED BY <4>1, <5>1 DEF FieldFiled, GetMessage, GetPrimitiveField, Find
      <4>5. GetObject(m, p) = o
        BY <3>2, <4>2, <4>3, <4>4 DEF GetObject
      <4>6. /\ key \in DOMAIN m.ObjectType /\ m.ObjectType[key] = KindOf(p)
            /\ key \in DOMAIN m.ParentTable
        BY <4>1 DEF FieldFiled
      <4> HIDE DEF o, key, k
      <4> QED BY <3>3, <4>1, <4>2, <4>3, <4>4, <4>5, <4>6 DEF PathExact, KindOf, o, key, k
    <3> QED BY <2>3, <3>4, <3>5
  <2> QED BY <2>6, <2>7
<1> QED BY <1>1, <1>2 DEF LookupExact, OnFile

\* Whatever is registered, registered again, cleared and asked, in any order, a
\* path leads to the object of its latest registration, of its own kind and in
\* its own table, and the table knows its messages, fields and keys
\* (relation_manager.cpp:16-48, 70-117, 119-142, 163-227), for all schemes whose
\* paths have keys of their own.
THEOREM LookupsExact == ASSUME KeysDistinct PROVE Spec => []LookupExact
<1>1. Init => OnFile
  BY OnFileInit
<1>2. OnFile /\ [Next]_vars => OnFile'
  BY OnFileNext
<1>3. OnFile => LookupExact
  BY OnFileExact
<1> QED BY <1>1, <1>2, <1>3, PTL DEF Spec

-----------------------------------------------------------------------------
(* The cache of subtrees.                                                  *)

\* MessagesByPath has the messages of the latest registrations and no others.
Shelved(m, latest) ==
    \A k \in DOMAIN m.MessagesByPath : \E q \in Messages :
        /\ q[1] \in Tables /\ latest[q[1]] # 0 /\ k = Key[q]
        /\ m.MessagesByPath[k] = Object(q, latest[q[1]])

LEMMA MessageOnFile ==
    ASSUME NEW m, NEW t, NEW n, Current(m, t, n), NEW q \in Messages, q[1] = t
    PROVE  Key[q] \in DOMAIN m.MessagesByPath /\ m.MessagesByPath[Key[q]] = Object(q, n)
<1>1. q \in Paths
  BY DEF Paths
<1>2. PICK size \in Nat \ {0} : size = Len(q)
  BY <1>1, Path
<1>3. CASE size = 1
  <2>1. q = <<t>>
    BY <1>1, <1>2, <1>3, Path
  <2> QED BY <2>1 DEF Current
<1>4. CASE size # 1
  <2>1. q \in Under(t)
    BY <1>1, <1>2, <1>4 DEF Under
  <2> QED BY <2>1 DEF Current, FieldFiled
<1> QED BY <1>3, <1>4

LEMMA RootShelved ==
    ASSUME KeysDistinct, NEW t \in Tables, NEW n \in Nat \ {0}, NEW m, NEW r,
           NEW latest \in [Tables -> Nat], Shelved(m, latest),
           Harmless(r), Current(r, t, n), OthersKept(m, r, t)
    PROVE  Shelved(r, [latest EXCEPT ![t] = n])
<1> DEFINE next == [latest EXCEPT ![t] = n]
<1>1. next[t] = n /\ \A u \in Tables : u # t => next[u] = latest[u]
  OBVIOUS
<1> HIDE DEF next
<1> SUFFICES ASSUME NEW k \in DOMAIN r.MessagesByPath
             PROVE  \E q \in Messages :
                        /\ q[1] \in Tables /\ next[q[1]] # 0 /\ k = Key[q]
                        /\ r.MessagesByPath[k] = Object(q, next[q[1]])
  BY DEF Shelved, next
<1>2. CASE \E q \in Paths : q[1] = t /\ k = Key[q]
  <2>1. PICK q \in Paths : q[1] = t /\ k = Key[q]
    BY <1>2
  <2>2. q \in Messages
    BY <2>1 DEF Harmless
  <2>3. r.MessagesByPath[k] = Object(q, n)
    BY <2>1, <2>2, MessageOnFile
  <2> QED BY <1>1, <2>1, <2>2, <2>3
<1>3. CASE \A q \in Paths : q[1] = t => k # Key[q]
  <2>1. SameAt(m.MessagesByPath, r.MessagesByPath, k)
    BY <1>3 DEF OthersKept, KeyKept
  <2>2. k \in DOMAIN m.MessagesByPath /\ r.MessagesByPath[k] = m.MessagesByPath[k]
    BY <2>1 DEF SameAt
  <2>3. PICK q \in Messages : /\ q[1] \in Tables /\ latest[q[1]] # 0 /\ k = Key[q]
                              /\ m.MessagesByPath[k] = Object(q, latest[q[1]])
    BY <2>2 DEF Shelved
  <2>4. q \in Paths
    BY DEF Paths
  <2>5. q[1] # t
    BY <1>3, <2>3, <2>4
  <2> QED BY <1>1, <2>2, <2>3, <2>5
<1> QED BY <1>2, <1>3

\* The computed answer has of each table its latest messages, all or none.
LEMMA SubtreeIs ==
    ASSUME NEW m, NEW latest, Shelved(m, latest), NEW t \in Tables, NEW p, p # <<>>,
           latest[t] # 0 => Current(m, t, latest[t])
    PROVE  LET kept == {o \in Subtree(m, p) : o.path[1] = t}
           IN kept = IF latest[t] = 0 THEN {} ELSE Below(t, p, latest[t])
<1> DEFINE kept == {o \in Subtree(m, p) : o.path[1] = t}
           n == latest[t]
<1>1. \A o : o \in kept <=> /\ \E k \in DOMAIN m.MessagesByPath : o = m.MessagesByPath[k]
                            /\ IsPrefix(p, o.path) /\ o.path[1] = t
  BY DEF Subtree, Range
<1>2. \A o : o \in Below(t, p, n) <=>
          \E q \in Messages : q[1] = t /\ IsPrefix(p, q) /\ o = Object(q, n)
  BY DEF Below
<1> HIDE DEF kept, n
<1>3. \A q, i : Object(q, i).path = q
  BY DEF Object
<1>4. ASSUME NEW o \in kept PROVE n # 0 /\ o \in Below(t, p, n)
  <2>1. PICK k \in DOMAIN m.MessagesByPath : o = m.MessagesByPath[k]
    BY <1>1
  <2>2. PICK q \in Messages : latest[q[1]] # 0 /\ o = Object(q, latest[q[1]])
    BY <2>1 DEF Shelved
  <2>3. o.path = q /\ q[1] = t /\ IsPrefix(p, q)
    BY <1>1, <1>3, <2>2
  <2> QED BY <1>2, <2>2, <2>3 DEF n
<1>5. ASSUME n # 0, NEW o \in Below(t, p, n) PROVE o \in kept
  <2>1. PICK q \in Messages : q[1] = t /\ IsPrefix(p, q) /\ o = Object(q, n)
    BY <1>2
  <2>2. Key[q] \in DOMAIN m.MessagesByPath /\ m.MessagesByPath[Key[q]] = o
    BY <1>5, <2>1, MessageOnFile DEF n
  <2> QED BY <1>1, <1>3, <2>1, <2>2
<1>6. kept = IF n = 0 THEN {} ELSE Below(t, p, n)
  BY <1>4, <1>5
<1> QED BY <1>6 DEF kept, n

SubtreesOnFile == OnFile /\ Shelved(manager, current) /\ SubtreesWhole

LEMMA SubtreesInit == Init => SubtreesOnFile
<1> SUFFICES ASSUME Init PROVE SubtreesOnFile
  OBVIOUS
<1>1. manager.MessagesByPath = Nothing /\ manager.SubtreeCache = Nothing
  BY DEF Init
<1> QED BY <1>1, OnFileInit DEF SubtreesOnFile, Shelved, SubtreesWhole, Nothing

LEMMA SubtreesNext ==
    ASSUME KeysDistinct PROVE SubtreesOnFile /\ [Next]_vars => SubtreesOnFile'
<1> SUFFICES ASSUME SubtreesOnFile, [Next]_vars PROVE SubtreesOnFile'
  OBVIOUS
<1>0. /\ OnFile /\ OnFile' /\ Shelved(manager, current) /\ SubtreesWhole
      /\ HasMaps(manager) /\ DOMAIN manager = MapNames
      /\ made \in Nat /\ current \in [Tables -> 0..made]
      /\ Harmless(manager)
      /\ \A t \in Tables : current[t] # 0 => Current(manager, t, current[t])
  BY OnFileNext DEF SubtreesOnFile, OnFile, TypeOK, HasMaps
<1>1. ASSUME manager'.SubtreeCache = manager.SubtreeCache, made' \in Nat, made' >= made
      PROVE  SubtreesWhole'
  <2>1. \A n \in 1..made : n \in 1..made'
    BY <1>0, <1>1
  <2> QED BY <1>0, <1>1, <2>1 DEF SubtreesWhole
<1>2. ASSUME NEW t \in Tables, RegisterRootMessage(t) PROVE SubtreesOnFile'
  <2>1. /\ made' = made + 1 /\ current' = [current EXCEPT ![t] = made']
        /\ manager' = RegisterRoot(manager, Object(<<t>>, made'), TableName[t])
    BY <1>2 DEF RegisterRootMessage
  <2>2. /\ HasMaps(manager') /\ Harmless(manager') /\ Current(manager', t, made')
        /\ OthersKept(manager, manager', t)
        /\ manager'.SubtreeCache = manager.SubtreeCache
    BY <1>0, <2>1, RootRegistered
  <2>3. made' \in Nat \ {0} /\ made' >= made /\ current \in [Tables -> Nat]
    BY <1>0, <2>1
  <2>4. Shelved(manager', current')
    BY <1>0, <2>1, <2>2, <2>3, RootShelved
  <2> QED BY <1>0, <1>1, <2>2, <2>3, <2>4 DEF SubtreesOnFile
<1>3. ASSUME NEW p \in Asked, GetMessagesFromSubtree(p) PROVE SubtreesOnFile'
  <2> DEFINE answer == Subtree(manager, p)
             kept == Assign(manager.SubtreeCache, p, answer)
  <2>1. manager' = [manager EXCEPT !.SubtreeCache = kept] /\ UNCHANGED <<made, current>>
    BY <1>3 DEF GetMessagesFromSubtree
  <2> HIDE DEF kept, answer
  <2>2. /\ manager'.SubtreeCache = kept
        /\ manager'.MessagesByPath = manager.MessagesByPath
    BY <1>0, <2>1 DEF MapNames
  <2>3. kept[p] = answer /\ \A x : x # p => SameAt(manager.SubtreeCache, kept, x)
    BY Assigned DEF kept
  <2>4. ASSUME NEW x \in DOMAIN kept \ {<<>>}, NEW t \in Tables
        PROVE  LET of == {o \in kept[x] : o.path[1] = t}
               IN of = {} \/ \E n \in 1..made : of = Below(t, x, n)
    <3>1. CASE x = p
      <4> DEFINE of == {o \in answer : o.path[1] = t}
      <4>1. of = IF current[t] = 0 THEN {} ELSE Below(t, p, current[t])
        BY <1>0, <2>4, <3>1, SubtreeIs DEF answer
      <4>2. current[t] = 0 \/ current[t] \in 1..made
        BY <1>0
      <4> QED BY <2>3, <3>1, <4>1, <4>2
    <3>2. CASE x # p
      <4>1. x \in DOMAIN manager.SubtreeCache /\ kept[x] = manager.SubtreeCache[x]
        BY <2>3, <3>2 DEF SameAt
      <4> QED BY <1>0, <4>1 DEF SubtreesWhole
    <3> QED BY <3>1, <3>2
  <2>5. SubtreesWhole'
    BY <2>1, <2>2, <2>4 DEF SubtreesWhole
  <2>6. Shelved(manager', current')
    BY <1>0, <2>1, <2>2 DEF Shelved
  <2> QED BY <1>0, <2>5, <2>6 DEF SubtreesOnFile
<1>4. ASSUME NEW p \in Asked, GetObjectWithAncestors(p) PROVE SubtreesOnFile'
  <2> DEFINE kept == Assign(manager.AncestorsCache, p, WithAncestors(manager, p))
  <2>1. manager' = [manager EXCEPT !.AncestorsCache = kept] /\ UNCHANGED <<made, current>>
    BY <1>4 DEF GetObjectWithAncestors
  <2> HIDE DEF kept
  <2>2. /\ manager'.SubtreeCache = manager.SubtreeCache
        /\ manager'.MessagesByPath = manager.MessagesByPath
    BY <1>0, <2>1 DEF MapNames
  <2>3. Shelved(manager', current')
    BY <1>0, <2>1, <2>2 DEF Shelved
  <2> QED BY <1>0, <1>1, <2>1, <2>2, <2>3 DEF SubtreesOnFile
<1>5. ASSUME Clear PROVE SubtreesOnFile'
  <2>1. /\ manager' = [manager EXCEPT !.MessagesByPath = Nothing,
                                      !.FieldsByPath = Nothing, !.ParentMap = Nothing]
        /\ made' = made
    BY <1>5 DEF Clear
  <2>2. manager'.SubtreeCache = manager.SubtreeCache /\ manager'.MessagesByPath = Nothing
    BY <1>0, <2>1 DEF MapNames
  <2>3. Shelved(manager', current')
    BY <2>2 DEF Shelved, Nothing
  <2> QED BY <1>0, <1>1, <2>1, <2>2, <2>3 DEF SubtreesOnFile
<1>6. ASSUME UNCHANGED vars PROVE SubtreesOnFile'
  <2>1. manager' = manager /\ made' = made /\ current' = current
    BY <1>6 DEF vars
  <2>2. Shelved(manager', current') /\ SubtreesWhole'
    BY <1>0, <2>1 DEF Shelved, SubtreesWhole
  <2> QED BY <1>0, <2>2 DEF SubtreesOnFile
<1> QED BY <1>2, <1>3, <1>4, <1>5, <1>6 DEF Next

-----------------------------------------------------------------------------
(* The cache of ancestors.                                                 *)

\* The parents are those that the registrations so far gave, and none of the
\* latest registrations is missing.
Kin(m, latest, count) ==
    /\ \A o \in DOMAIN m.ParentMap : \E t \in Tables, n \in 1..count :
          \E q \in Adopted(t) : o = Object(q, n) /\ m.ParentMap[o] = Object(Front(q), n)
    /\ \A t \in Tables : latest[t] # 0 => \A q \in Adopted(t) : HasParent(m, q, latest[t])

LEMMA RootKin ==
    ASSUME NEW m, NEW r, NEW count \in Nat, NEW latest \in [Tables -> 0..count],
           Kin(m, latest, count), NEW t \in Tables, Related(m, r, t, count + 1)
    PROVE  Kin(r, [latest EXCEPT ![t] = count + 1], count + 1)
<1> DEFINE n == count + 1
           next == [latest EXCEPT ![t] = n]
<1>1. /\ next[t] = n /\ \A u \in Tables : u # t => next[u] = latest[u]
      /\ n \in 1..n /\ \A i \in 1..count : i \in 1..n
  OBVIOUS
<1> HIDE DEF n, next
<1>2. /\ \A q \in Adopted(t) : HasParent(r, q, n)
      /\ \A o : o \notin Children(t, n) => SameAt(m.ParentMap, r.ParentMap, o)
  BY DEF Related, n
<1>3. ASSUME NEW o \in DOMAIN r.ParentMap
      PROVE  \E u \in Tables, i \in 1..n : \E q \in Adopted(u) :
                 o = Object(q, i) /\ r.ParentMap[o] = Object(Front(q), i)
  <2>1. CASE o \in Children(t, n)
    <3>1. PICK q \in Adopted(t) : o = Object(q, n)
      BY <2>1 DEF Children
    <3>2. r.ParentMap[o] = Object(Front(q), n)
      BY <1>2, <3>1 DEF HasParent
    <3> QED BY <1>1, <3>1, <3>2
  <2>2. CASE o \notin Children(t, n)
    <3>1. o \in DOMAIN m.ParentMap /\ r.ParentMap[o] = m.ParentMap[o]
      BY <1>2, <2>2 DEF SameAt
    <3>2. PICK u \in Tables, i \in 1..count : \E q \in Adopted(u) :
              o = Object(q, i) /\ m.ParentMap[o] = Object(Front(q), i)
      BY <3>1 DEF Kin
    <3> QED BY <1>1, <3>1, <3>2
  <2> QED BY <2>1, <2>2
<1>4. ASSUME NEW u \in Tables, next[u] # 0, NEW q \in Adopted(u)
      PROVE  HasParent(r, q, next[u])
  <2>1. CASE u = t
    BY <1>1, <1>2, <2>1
  <2>2. CASE u # t
    <3>1. HasParent(m, q, latest[u]) /\ next[u] = latest[u]
      BY <1>1, <1>4, <2>2 DEF Kin
    <3>2. Object(q, latest[u]) \notin Children(t, n)
      BY <2>2 DEF Children, Adopted, Under, Object
    <3>3. SameAt(m.ParentMap, r.ParentMap, Object(q, latest[u]))
      BY <1>2, <3>2
    <3> QED BY <3>1, <3>3 DEF HasParent, SameAt
  <2> QED BY <2>1, <2>2
<1> QED BY <1>3, <1>4 DEF Kin, n, next

UpOf(m, up, o) ==
    {o} \cup IF GetParentMessage(m, o) = Null THEN {} ELSE up[GetParentMessage(m, o)]

LEMMA ParentIs ==
    ASSUME NEW m, NEW count \in Nat, count <= MaxRegistrations, NEW latest,
           Kin(m, latest, count), NEW o, GetParentMessage(m, o) # Null
    PROVE  \E q \in Paths : /\ o.path = q /\ Len(q) > 1 /\ (q \in Messages \/ Len(q) = 2)
                            /\ GetParentMessage(m, o).path = Front(q)
                            /\ GetParentMessage(m, o) \in Objects
<1>1. o \in DOMAIN m.ParentMap /\ GetParentMessage(m, o) = m.ParentMap[o]
  BY DEF GetParentMessage, Find
<1>2. PICK t \in Tables, n \in 1..count : \E q \in Adopted(t) :
          o = Object(q, n) /\ m.ParentMap[o] = Object(Front(q), n)
  BY <1>1 DEF Kin
<1>3. PICK q \in Adopted(t) : o = Object(q, n) /\ m.ParentMap[o] = Object(Front(q), n)
  BY <1>2
<1>4. q \in Paths /\ Len(q) > 1 /\ Front(q) \in Paths /\ n \in 1..MaxRegistrations
  <2>1. q \in Paths /\ Len(q) > 1
    BY DEF Adopted, Under
  <2>2. MaxRegistrations \in Nat
    BY RelationsAssumption
  <2> QED BY <2>1, <2>2, Path DEF Paths
<1>5. Object(Front(q), n) \in Objects /\ o.path = q
  BY <1>3, <1>4 DEF Object, Objects
<1>6. Object(Front(q), n).path = Front(q)
  BY DEF Object
<1> QED BY <1>1, <1>3, <1>4, <1>5, <1>6 DEF Adopted

\* A parent is above its child, so that the way up ends.
LEMMA UpIs ==
    ASSUME NEW m, NEW count \in Nat, count <= MaxRegistrations, NEW latest,
           Kin(m, latest, count)
    PROVE  \E up : /\ \A o \in Objects : up[o] = UpOf(m, up, o)
                   /\ \A p : WithAncestors(m, p) = IF GetObject(m, p) = Null THEN {}
                                                   ELSE up[GetObject(m, p)]
<1>1. PICK depth \in Nat : \A p \in Messages : Len(p) <= depth
  BY Depth
<1> DEFINE D(d) == {o \in Objects : Len(o.path) <= d}
           Is(up, O) == up = [o \in O |-> UpOf(m, up, o)]
           T == {d \in Nat : \E up : Is(up, D(d))}
<1>2. ASSUME NEW o \in Objects PROVE o.path \in Paths /\ Len(o.path) \in Nat \ {0}
  BY Path DEF Objects
<1>3. 0 \in T
  <2>1. D(0) = {}
    <3> SUFFICES ASSUME NEW o \in Objects, Len(o.path) <= 0 PROVE FALSE
      OBVIOUS
    <3>1. PICK size \in Nat \ {0} : size = Len(o.path)
      BY <1>2
    <3> QED BY <3>1
  <2> DEFINE none == [o \in {} |-> 0]
  <2>2. Is(none, {})
    OBVIOUS
  <2> HIDE DEF D, Is, none
  <2>3. \E up : Is(up, D(0))
    BY <2>1, <2>2
  <2> QED BY <2>3
<1>4. ASSUME NEW d \in T PROVE d + 1 \in T
  <2>1. d \in Nat /\ \E up : Is(up, D(d))
    OBVIOUS
  <2>2. PICK up : Is(up, D(d))
    BY <2>1
  <2> DEFINE next == [o \in D(d + 1) |-> UpOf(m, up, o)]
  <2>3. ASSUME NEW o \in D(d + 1) PROVE UpOf(m, up, o) = UpOf(m, next, o)
    <3> DEFINE parent == GetParentMessage(m, o)
    <3>1. CASE parent = Null
      BY <3>1 DEF UpOf
    <3>2. CASE parent # Null
      <4>1. PICK q \in Paths : /\ o.path = q /\ Len(q) > 1
                               /\ parent.path = Front(q) /\ parent \in Objects
        BY <3>2, ParentIs
      <4>2. PICK size \in Nat : Len(q) = size /\ Len(Front(q)) = size - 1
        BY <4>1, Path
      <4>3. size <= d + 1
        BY <4>1, <4>2
      <4> HIDE DEF parent
      <4>4. Len(parent.path) <= d /\ Len(parent.path) <= d + 1
        BY <2>1, <4>1, <4>2, <4>3
      <4>5. parent \in D(d) /\ parent \in D(d + 1)
        BY <4>1, <4>4
      <4> HIDE DEF D
      <4>6. up[parent] = UpOf(m, up, parent) /\ next[parent] = UpOf(m, up, parent)
        BY <2>2, <4>5
      <4> HIDE DEF next
      <4> QED BY <4>6 DEF UpOf, parent
    <3> QED BY <3>1, <3>2
  <2>4. Is(next, D(d + 1))
    <3> HIDE DEF D
    <3> SUFFICES next = [o \in D(d + 1) |-> UpOf(m, next, o)]
      OBVIOUS
    <3>1. [o \in D(d + 1) |-> UpOf(m, up, o)] = [o \in D(d + 1) |-> UpOf(m, next, o)]
      <4> HIDE DEF next
      <4> QED BY <2>3
    <3> QED BY <3>1, Zenon
  <2> HIDE DEF Is, D, next
  <2>5. d + 1 \in Nat /\ \E f : Is(f, D(d + 1))
    BY <2>1, <2>4
  <2> QED BY <2>5
<1>5. \E up : Is(up, Objects)
  <2>1. T = Nat
    <3> HIDE DEF T
    <3> QED BY <1>3, <1>4, SetInduction DEF T
  <2>2. depth + 1 \in T
    <3> HIDE DEF T
    <3> QED BY <2>1
  <2>3. ASSUME NEW o \in Objects PROVE Len(o.path) <= depth + 1
    <3>1. PICK q \in Paths : q = o.path
      BY <1>2
    <3>2. PICK size \in Nat \ {0} :
              size = Len(q) /\ (size > 1 => Len(Front(q)) = size - 1)
      BY Path
    <3>3. size > 1 => Len(Front(q)) <= depth
      BY <1>1, <3>2, Path
    <3> QED BY <3>1, <3>2, <3>3
  <2>4. D(depth + 1) = Objects
    BY <2>3
  <2> HIDE DEF D, Is
  <2> QED BY <2>2, <2>4
<1> DEFINE up == CHOOSE f : Is(f, Objects)
<1>6. Is(up, Objects)
  <2> HIDE DEF Is
  <2> QED BY <1>5
<1>7. \A p : WithAncestors(m, p) = IF GetObject(m, p) = Null THEN {}
                                   ELSE up[GetObject(m, p)]
  BY DEF WithAncestors, UpOf
<1> HIDE DEF up
<1>8. \A o \in Objects : up[o] = UpOf(m, up, o)
  BY <1>6
<1> QED BY <1>7, <1>8

LEMMA AncestorsStep ==
    ASSUME NEW p \in Paths
    PROVE  Ancestors(p) = {p} \cup IF Len(p) = 1 THEN {} ELSE Ancestors(Front(p))
<1>1. PICK size \in Nat \ {0} : size = Len(p) /\ p \in Seq(Nat) /\ p # <<>>
  BY Path, EmptySeq
<1>2. SubSeq(p, 1, size) = p
  BY <1>1, SubSeqFull
<1>3. /\ Len(Front(p)) = size - 1
      /\ \A i \in 1..(size - 1) : SubSeq(Front(p), 1, i) = SubSeq(p, 1, i)
  BY <1>1, FrontOf
<1>4. 1..size = (1..(size - 1)) \cup {size}
  BY <1>1
<1>5. Ancestors(p) = {SubSeq(p, 1, i) : i \in 1..(size - 1)} \cup {p}
  BY <1>1, <1>2, <1>4 DEF Ancestors
<1>6. Ancestors(Front(p)) = {SubSeq(p, 1, i) : i \in 1..(size - 1)}
  BY <1>3 DEF Ancestors
<1>7. size = 1 => 1..(size - 1) = {}
  OBVIOUS
<1> QED BY <1>1, <1>5, <1>6, <1>7

\* The answer for a path of a table on file.
KinOf(p, n) ==
    {Object(q, n) : q \in IF p \in Messages \/ Len(p) = 2 THEN Ancestors(p) ELSE {p}}

LEMMA AncestorsAre ==
    ASSUME NEW m, NEW count \in Nat, count <= MaxRegistrations, NEW latest,
           Kin(m, latest, count), NEW t \in Tables, NEW n \in 1..count, n = latest[t],
           NEW p \in Paths, p[1] = t, GetObject(m, p) = Object(p, n)
    PROVE  WithAncestors(m, p) = KinOf(p, n)
<1>1. PICK up : /\ \A o \in Objects : up[o] = UpOf(m, up, o)
                /\ \A q : WithAncestors(m, q) = IF GetObject(m, q) = Null THEN {}
                                                ELSE up[GetObject(m, q)]
  BY UpIs
<1>2. ASSUME NEW q \in Paths, q[1] = t, q \in Messages \/ Len(q) = 2, Len(q) # 1
      PROVE  /\ Front(q) \in Messages /\ Front(q)[1] = t /\ Front(q) \in Paths
             /\ Len(Front(q)) = Len(q) - 1
             /\ up[Object(q, n)] = {Object(q, n)} \cup up[Object(Front(q), n)]
  <2>1. Len(q) > 1
    <3>1. PICK size \in Nat \ {0} : size = Len(q)
      BY Path
    <3>2. size > 1
      BY <1>2, <3>1
    <3> QED BY <3>1, <3>2
  <2>2. /\ Front(q) \in Messages /\ Front(q)[1] = t /\ Front(q) \in Paths
        /\ Len(Front(q)) = Len(q) - 1 /\ q \in Adopted(t)
    BY <1>2, <2>1, Path DEF Adopted, Under, Paths
  <2>3. HasParent(m, q, n)
    BY <2>2 DEF Kin
  <2>4. GetParentMessage(m, Object(q, n)) = Object(Front(q), n)
    BY <2>3 DEF HasParent, GetParentMessage, Find
  <2>5. Object(Front(q), n) # Null
    BY <2>2, Schema DEF Object, Null
  <2>6. Object(q, n) \in Objects
    BY RelationsAssumption DEF Object, Objects
  <2>7. up[Object(q, n)] = UpOf(m, up, Object(q, n))
    BY <1>1, <2>6
  <2> QED BY <2>2, <2>4, <2>5, <2>7 DEF UpOf
<1>3. ASSUME NEW q \in Paths, Len(q) = 1 \/ (q \notin Messages /\ Len(q) # 2)
      PROVE  up[Object(q, n)] = {Object(q, n)}
  <2>1. Object(q, n).path = q /\ Object(q, n) \in Objects
    BY RelationsAssumption DEF Object, Objects
  <2>2. GetParentMessage(m, Object(q, n)) = Null
    <3> SUFFICES ASSUME GetParentMessage(m, Object(q, n)) # Null PROVE FALSE
      OBVIOUS
    <3>1. Len(q) > 1 /\ (q \in Messages \/ Len(q) = 2)
      BY <2>1, ParentIs
    <3>2. PICK size \in Nat : size = Len(q)
      BY Path
    <3> QED BY <1>3, <3>1, <3>2
  <2>3. up[Object(q, n)] = UpOf(m, up, Object(q, n))
    BY <1>1, <2>1
  <2> QED BY <2>2, <2>3 DEF UpOf
<1> DEFINE All(q) == {Object(r, n) : r \in Ancestors(q)}
           T == {d \in Nat : \A q \in Messages :
                     q[1] = t /\ Len(q) <= d => up[Object(q, n)] = All(q)}
<1>4. ASSUME NEW q \in Paths PROVE All(q) = {Object(q, n)} \cup
                                            IF Len(q) = 1 THEN {} ELSE All(Front(q))
  BY AncestorsStep
<1>5. 0 \in T
  <2> SUFFICES ASSUME NEW q \in Messages, Len(q) <= 0 PROVE FALSE
    OBVIOUS
  <2>1. PICK size \in Nat \ {0} : size = Len(q)
    BY Schema
  <2> QED BY <2>1
<1> HIDE DEF All
<1>6. ASSUME NEW d \in T, NEW q \in Messages, q[1] = t, Len(q) <= d + 1
      PROVE  up[Object(q, n)] = All(q)
  <2>1. q \in Paths
    BY DEF Paths
  <2>2. CASE Len(q) = 1
    <3>1. up[Object(q, n)] = {Object(q, n)}
      BY <1>3, <2>1, <2>2
    <3>2. All(q) = {Object(q, n)}
      BY <1>4, <2>1, <2>2
    <3> QED BY <3>1, <3>2
  <2>3. CASE Len(q) # 1
    <3>1. /\ Front(q) \in Messages /\ Front(q)[1] = t /\ Len(Front(q)) = Len(q) - 1
          /\ up[Object(q, n)] = {Object(q, n)} \cup up[Object(Front(q), n)]
      BY <1>2, <1>6, <2>1, <2>3
    <3>2. PICK size \in Nat : size = Len(q)
      BY <2>1, Path
    <3>3. Len(Front(q)) <= d /\ d \in Nat
      BY <1>6, <3>1, <3>2
    <3>4. up[Object(Front(q), n)] = All(Front(q))
      BY <3>1, <3>3
    <3> QED BY <1>4, <2>1, <2>3, <3>1, <3>4
  <2> QED BY <2>2, <2>3
<1>7. T = Nat
  <2>1. ASSUME NEW d \in T PROVE d + 1 \in T
    <3>1. d + 1 \in Nat
      OBVIOUS
    <3> QED BY <1>6, <3>1
  <2> HIDE DEF T
  <2> QED BY <1>5, <2>1, SetInduction DEF T
<1>8. ASSUME NEW q \in Messages, q[1] = t PROVE up[Object(q, n)] = All(q)
  <2>1. PICK size \in Nat : size = Len(q)
    BY Schema
  <2>2. size \in T
    <3> HIDE DEF T
    <3> QED BY <1>7
  <2> QED BY <1>8, <2>1, <2>2
<1>9. up[Object(p, n)] = KinOf(p, n)
  <2>1. CASE p \in Messages
    BY <1>8, <2>1 DEF KinOf, All
  <2>2. CASE p \notin Messages /\ Len(p) = 2
    <3>1. /\ Front(p) \in Messages /\ Front(p)[1] = t
          /\ up[Object(p, n)] = {Object(p, n)} \cup up[Object(Front(p), n)]
      BY <1>2, <2>2
    <3>2. up[Object(p, n)] = All(p)
      BY <1>4, <1>8, <2>2, <3>1
    <3> QED BY <2>2, <3>2 DEF KinOf, All
  <2>3. CASE p \notin Messages /\ Len(p) # 2
    BY <1>3, <2>3 DEF KinOf
  <2> QED BY <2>1, <2>2, <2>3
<1>10. Object(p, n) # Null
  BY Path, EmptySeq DEF Object, Null
<1> QED BY <1>1, <1>9, <1>10


CachesOnFile ==
    /\ SubtreesOnFile /\ Kin(manager, current, made) /\ made <= MaxRegistrations
    /\ AncestorsExact

LEMMA CachesInit == Init => CachesOnFile
<1> SUFFICES ASSUME Init PROVE CachesOnFile
  OBVIOUS
<1>1. /\ manager.ParentMap = Nothing /\ manager.AncestorsCache = Nothing
      /\ made = 0 /\ \A t \in Tables : current[t] = 0
  BY DEF Init
<1>2. Kin(manager, current, made)
  BY <1>1 DEF Kin, Nothing
<1>3. AncestorsExact
  BY <1>1 DEF AncestorsExact, Nothing
<1> QED BY <1>1, <1>2, <1>3, SubtreesInit, RelationsAssumption DEF CachesOnFile

LEMMA CachesNext == ASSUME KeysDistinct PROVE CachesOnFile /\ [Next]_vars => CachesOnFile'
<1> SUFFICES ASSUME CachesOnFile, [Next]_vars PROVE CachesOnFile'
  OBVIOUS
<1>0. /\ SubtreesOnFile /\ SubtreesOnFile' /\ OnFile /\ LookupExact
      /\ HasMaps(manager) /\ DOMAIN manager = MapNames /\ Harmless(manager)
      /\ made \in Nat /\ current \in [Tables -> 0..made] /\ made <= MaxRegistrations
      /\ Kin(manager, current, made) /\ AncestorsExact
  BY SubtreesNext, OnFileExact DEF CachesOnFile, SubtreesOnFile, OnFile, TypeOK, HasMaps
<1>1. ASSUME manager'.ParentMap = manager.ParentMap, UNCHANGED <<made, current>>
      PROVE  Kin(manager', current', made')
  BY <1>0, <1>1 DEF Kin, HasParent
<1>2. ASSUME NEW t \in Tables, RegisterRootMessage(t) PROVE CachesOnFile'
  <2>1. /\ made' = made + 1 /\ current' = [current EXCEPT ![t] = made']
        /\ manager' = RegisterRoot(manager, Object(<<t>>, made'), TableName[t])
        /\ made < MaxRegistrations
    BY <1>2 DEF RegisterRootMessage
  <2>2. Related(manager, manager', t, made')
    BY <1>0, <2>1, RootRegistered
  <2>3. Kin(manager', current', made')
    BY <1>0, <2>1, <2>2, RootKin
  <2>4. made' <= MaxRegistrations
    BY <1>0, <2>1, RelationsAssumption
  <2>5. AncestorsExact'
    <3>1. CASE Fields[<<t>>] = <<>>
      <4>1. manager'.AncestorsCache = manager.AncestorsCache
        BY <2>2, <3>1 DEF Related
      <4>2. \A u \in Tables : Fields[<<u>>] # <<>> => current'[u] = current[u]
        BY <1>0, <2>1, <3>1
      <4> QED BY <1>0, <4>1, <4>2 DEF AncestorsExact, Registered
    <3>2. CASE Fields[<<t>>] # <<>>
      <4>1. manager'.AncestorsCache = Nothing
        BY <2>2, <3>2 DEF Related
      <4> QED BY <4>1 DEF AncestorsExact, Nothing
    <3> QED BY <3>1, <3>2
  <2> QED BY <1>0, <2>3, <2>4, <2>5 DEF CachesOnFile
<1>3. ASSUME NEW p \in Asked, GetMessagesFromSubtree(p) PROVE CachesOnFile'
  <2> DEFINE kept == Assign(manager.SubtreeCache, p, Subtree(manager, p))
  <2>1. manager' = [manager EXCEPT !.SubtreeCache = kept] /\ UNCHANGED <<made, current>>
    BY <1>3 DEF GetMessagesFromSubtree
  <2> HIDE DEF kept
  <2>2. /\ manager'.ParentMap = manager.ParentMap
        /\ manager'.AncestorsCache = manager.AncestorsCache
    BY <1>0, <2>1 DEF MapNames
  <2>3. AncestorsExact'
    BY <1>0, <2>1, <2>2 DEF AncestorsExact, Registered
  <2> QED BY <1>0, <1>1, <2>1, <2>2, <2>3 DEF CachesOnFile
<1>4. ASSUME NEW p \in Asked, GetObjectWithAncestors(p) PROVE CachesOnFile'
  <2> DEFINE answer == WithAncestors(manager, p)
             kept == Assign(manager.AncestorsCache, p, answer)
  <2>1. manager' = [manager EXCEPT !.AncestorsCache = kept] /\ UNCHANGED <<made, current>>
    BY <1>4 DEF GetObjectWithAncestors
  <2> HIDE DEF kept, answer
  <2>2. manager'.ParentMap = manager.ParentMap /\ manager'.AncestorsCache = kept
    BY <1>0, <2>1 DEF MapNames
  <2>3. kept[p] = answer /\ \A x : x # p => SameAt(manager.AncestorsCache, kept, x)
    BY Assigned DEF kept
  <2>4. ASSUME NEW t \in Tables, Fields[<<t>>] # <<>>,
               NEW x \in Registered(t) \cap DOMAIN kept
        PROVE  kept[x] = KinOf(x, current[t])
    <3>1. CASE x = p
      <4>1. /\ x \in Paths /\ x[1] = t /\ current[t] # 0
            /\ current[t] \in 1..made
        BY <1>0, <2>4 DEF Registered
      <4>2. GetObject(manager, x) = Object(x, current[t])
        BY <1>0, <2>4, <4>1 DEF LookupExact, PathExact
      <4>3. WithAncestors(manager, x) = KinOf(x, current[t])
        BY <1>0, <4>1, <4>2, AncestorsAre
      <4> QED BY <2>3, <3>1, <4>3 DEF answer
    <3>2. CASE x # p
      <4>1. x \in DOMAIN manager.AncestorsCache /\ kept[x] = manager.AncestorsCache[x]
        BY <2>3, <2>4, <3>2 DEF SameAt
      <4> QED BY <1>0, <2>4, <4>1 DEF AncestorsExact, KinOf
    <3> QED BY <3>1, <3>2
  <2>5. AncestorsExact'
    BY SMTT(60), <2>1, <2>2, <2>4 DEF AncestorsExact, Registered, KinOf
  <2> QED BY <1>0, <1>1, <2>1, <2>2, <2>5 DEF CachesOnFile
<1>5. ASSUME Clear PROVE CachesOnFile'
  <2>1. /\ manager' = [manager EXCEPT !.MessagesByPath = Nothing,
                                      !.FieldsByPath = Nothing, !.ParentMap = Nothing]
        /\ current' = [t \in Tables |-> 0] /\ made' = made
    BY <1>5 DEF Clear
  <2>2. manager'.ParentMap = Nothing /\ \A t \in Tables : current'[t] = 0
    BY <1>0, <2>1 DEF MapNames
  <2>3. Kin(manager', current', made')
    BY <2>2 DEF Kin, Nothing
  <2>4. AncestorsExact'
    BY <2>2 DEF AncestorsExact, Registered
  <2> QED BY <1>0, <2>1, <2>3, <2>4 DEF CachesOnFile
<1>6. ASSUME UNCHANGED vars PROVE CachesOnFile'
  <2>1. manager' = manager /\ made' = made /\ current' = current
    BY <1>6 DEF vars
  <2>2. AncestorsExact'
    BY <1>0, <2>1 DEF AncestorsExact, Registered
  <2> QED BY <1>0, <1>1, <2>1, <2>2 DEF CachesOnFile
<1> QED BY <1>2, <1>3, <1>4, <1>5, <1>6 DEF Next

\* Whatever is registered, cleared and asked in any order, what is cached of
\* ancestors is the object and, for messages and the fields of the table itself,
\* its ancestors, all of the latest registration, and what is cached of a subtree
\* has all messages of a table or none, of one registration
\* (relation_manager.cpp:86-88, 119-142, 229-277), for all schemes whose paths
\* have keys of their own.
THEOREM CachesAreExact == ASSUME KeysDistinct PROVE Spec => []CachesExact
<1>1. Init => CachesOnFile
  BY CachesInit
<1>2. CachesOnFile /\ [Next]_vars => CachesOnFile'
  BY CachesNext
<1>3. CachesOnFile => CachesExact
  BY DEF CachesOnFile, SubtreesOnFile, CachesExact
<1> QED BY <1>1, <1>2, <1>3, PTL DEF Spec

-----------------------------------------------------------------------------
(* Names read back.                                                        *)

\* The tables on file have all their paths named.
NamesOnFile ==
    /\ OnFile /\ Spelled(manager)
    /\ \A t \in Tables : current[t] # 0 => NamesKnown(manager, Of(t))

LEMMA NamesInit == Init => NamesOnFile
<1> SUFFICES ASSUME Init PROVE NamesOnFile
  OBVIOUS
<1>1. manager.PathToEntryName = Nothing /\ \A t \in Tables : current[t] = 0
  BY DEF Init
<1>2. Spelled(manager)
  BY <1>1 DEF Spelled, SpelledAt, Nothing
<1> QED BY <1>1, <1>2, OnFileInit DEF NamesOnFile

LEMMA NamesNext ==
    ASSUME KeysDistinct, NamesDistinct PROVE NamesOnFile /\ [Next]_vars => NamesOnFile'
<1> SUFFICES ASSUME NamesOnFile, [Next]_vars PROVE NamesOnFile'
  OBVIOUS
<1>0. /\ OnFile /\ Spelled(manager) /\ HasMaps(manager) /\ Harmless(manager)
      /\ DOMAIN manager = MapNames /\ current \in [Tables -> 0..made] /\ OnFile'
      /\ \A t \in Tables : current[t] # 0 => NamesKnown(manager, Of(t))
  BY OnFileNext DEF NamesOnFile, OnFile, TypeOK, HasMaps
<1>1. ASSUME NEW t \in Tables, RegisterRootMessage(t) PROVE NamesOnFile'
  <2>1. /\ current' = [current EXCEPT ![t] = made']
        /\ manager' = RegisterRoot(manager, Object(<<t>>, made'), TableName[t])
    BY <1>1 DEF RegisterRootMessage
  <2>2. /\ Spelled(manager') /\ NamesKnown(manager', Of(t))
        /\ DOMAIN manager.PathToEntryName \subseteq DOMAIN manager'.PathToEntryName
    BY <1>0, <2>1, RootRegistered
  <2>3. ASSUME NEW u \in Tables, current'[u] # 0 PROVE NamesKnown(manager', Of(u))
    <3>1. CASE u = t
      BY <2>2, <3>1
    <3>2. CASE u # t
      BY <1>0, <2>1, <2>2, <2>3, <3>2 DEF NamesKnown
    <3> QED BY <3>1, <3>2
  <2> QED BY <1>0, <2>2, <2>3 DEF NamesOnFile
\* The other operations, and Clear as well, leave the names alone.
<1>2. ASSUME manager'.PathToEntryName = manager.PathToEntryName,
             manager'.EntryNameToEntry = manager.EntryNameToEntry,
             \A t \in Tables : current'[t] # 0 => current'[t] = current[t]
      PROVE  NamesOnFile'
  <2>1. Spelled(manager')
    BY <1>0, <1>2 DEF Spelled, SpelledAt
  <2>2. \A t \in Tables : current'[t] # 0 => NamesKnown(manager', Of(t))
    BY <1>0, <1>2 DEF NamesKnown
  <2> QED BY <1>0, <2>1, <2>2 DEF NamesOnFile
<1>3. ASSUME NEW p \in Asked, GetMessagesFromSubtree(p) \/ GetObjectWithAncestors(p)
      PROVE  NamesOnFile'
  BY <1>0, <1>2, <1>3 DEF GetMessagesFromSubtree, GetObjectWithAncestors, MapNames
<1>4. ASSUME Clear PROVE NamesOnFile'
  BY <1>0, <1>2, <1>4 DEF Clear, MapNames
<1>5. ASSUME UNCHANGED vars PROVE NamesOnFile'
  BY <1>2, <1>5 DEF vars
<1> QED BY <1>1, <1>3, <1>4, <1>5 DEF Next

\* The paths read from the first names, up to the path read from all of them.
Reads(m, names, size, path) ==
    /\ path[0] = <<>>
    /\ \A i \in 1..size : path[i] = AppendEntry(m, path[i - 1], names[i])
    /\ FromNames(m, names) = path[size]

LEMMA FromNamesIs ==
    ASSUME NEW m, NEW names, NEW size \in Nat, Len(names) = size
    PROVE  \E path : Reads(m, names, size, path)
<1> DEFINE Step(f, i) == IF i = 0 THEN <<>> ELSE AppendEntry(m, f[i - 1], names[i])
           Is(f, k) == f = [i \in 0..k |-> Step(f, i)]
           T == {k \in Nat : \E f : Is(f, k)}
<1>1. 0 \in T
  <2>1. Is([i \in 0..0 |-> <<>>], 0)
    OBVIOUS
  <2> QED BY <2>1
<1>2. ASSUME NEW k \in T PROVE k + 1 \in T
  <2>1. k \in Nat /\ \E f : Is(f, k)
    OBVIOUS
  <2>2. PICK f : Is(f, k)
    BY <2>1
  <2> DEFINE g == [i \in 0..(k + 1) |-> Step(f, i)]
  <2>3. ASSUME NEW i \in 0..(k + 1), i # 0 PROVE g[i - 1] = f[i - 1]
    <3>1. i - 1 \in 0..k /\ i - 1 \in 0..(k + 1)
      BY <2>1, <2>3
    <3> HIDE DEF Step
    <3> QED BY <2>2, <3>1
  <2>4. ASSUME NEW i \in 0..(k + 1) PROVE Step(f, i) = Step(g, i)
    <3> HIDE DEF g
    <3> QED BY <2>3
  <2>5. Is(g, k + 1)
    <3> HIDE DEF Step
    <3> QED BY <2>4
  <2> HIDE DEF g, Is
  <2>6. \E h : Is(h, k + 1)
    BY <2>5
  <2> QED BY <2>1, <2>6
<1>3. size \in T
  <2> HIDE DEF T
  <2>1. T = Nat
    BY <1>1, <1>2, SetInduction DEF T
  <2> QED BY <2>1
<1>4. \E f : Is(f, size)
  BY <1>3
<1> DEFINE path == CHOOSE f : Is(f, size)
<1>5. Is(path, size)
  <2> HIDE DEF Is
  <2> QED BY <1>4
<1>6. FromNames(m, names) = path[size]
  BY DEF FromNames
<1> HIDE DEF path
<1>7. path[0] = <<>> /\ \A i \in 1..size : path[i] = AppendEntry(m, path[i - 1], names[i])
  BY <1>5
<1>8. Reads(m, names, size, path)
  BY <1>6, <1>7 DEF Reads
<1> QED BY <1>8

\* A path of which all prefixes are named is read back from the names.
LEMMA ReadBack ==
    ASSUME NEW m, NEW p \in OfTables, Spelled(m), NamesKnown(m, Of(p[1]))
    PROVE  FromNames(m, Names(m, p)) = p
<1> DEFINE above(i) == SubSeq(p, 1, i)
           printed == Names(m, p)
<1>1. PICK size \in Nat \ {0} : size = Len(p)
  BY Path DEF OfTables
<1>2. ASSUME NEW i \in 1..size
      PROVE  /\ above(i) \in OfTables /\ above(i) \in Paths /\ Len(above(i)) = i
             /\ i > 1 => Front(above(i)) = above(i - 1)
             /\ Key[above(i)] \in DOMAIN m.PathToEntryName
  <2>1. p \in Paths /\ i \in 1..Len(p) /\ p[1] \in Tables
    BY <1>1 DEF OfTables
  <2>2. /\ above(i) \in Paths /\ Len(above(i)) = i /\ above(i)[1] = p[1]
        /\ i > 1 => Front(above(i)) = above(i - 1)
    BY <2>1, Prefix
  <2> QED BY <2>1, <2>2 DEF OfTables, Of, NamesKnown
<1>3. above(size) = p
  BY <1>1, Prefix DEF OfTables
<1> DEFINE known == {n \in 1..Len(p) : \A i \in 1..n :
                        Key[above(i)] \in DOMAIN m.PathToEntryName}
<1>4. known = 1..size
  <2> HIDE DEF above
  <2>1. ASSUME NEW n \in 1..size, NEW i \in 1..n PROVE i \in 1..size
    OBVIOUS
  <2> QED BY <1>1, <1>2, <2>1
<1>5. Cardinality(known) = size
  <2> HIDE DEF known
  <2>1. Cardinality(1..size) = IF 1 > size THEN 0 ELSE size - 1 + 1
    BY FS_Interval
  <2> QED BY <1>1, <1>4, <2>1
<1>6. printed = [n \in 1..size |-> m.PathToEntryName[Key[above(n)]]]
  <2>1. printed = [n \in 1..Cardinality(known) |-> m.PathToEntryName[Key[above(n)]]]
    BY DEF Names
  <2> HIDE DEF known, printed, above
  <2> QED BY <1>5, <2>1
<1> HIDE DEF printed, known
<1>7. Len(printed) = size
  BY <1>6
<1>8. PICK path : Reads(m, printed, size, path)
  BY <1>7, FromNamesIs
<1>9. /\ path[0] = <<>>
      /\ \A i \in 1..size : path[i] = AppendEntry(m, path[i - 1], printed[i])
      /\ FromNames(m, printed) = path[size]
  BY <1>8 DEF Reads
<1> DEFINE T == {i \in Nat : (1 <= i /\ i <= size) => path[i] = above(i)}
<1>10. ASSUME NEW i \in 1..size, path[i - 1] = Front(above(i)) PROVE path[i] = above(i)
  <2> DEFINE q == above(i)
             k == Key[Front(q)]
  <2>1. q \in OfTables /\ q \in Paths /\ Key[q] \in DOMAIN m.PathToEntryName
    BY <1>2
  <2> HIDE DEF above
  <2>2. printed[i] = m.PathToEntryName[Key[q]]
    BY <1>6
  <2> HIDE DEF q
  <2>3. printed[i] = NameOf(q) /\ m.EntryNameToEntry[k][NameOf(q)] = Last(q)
    BY <2>1, <2>2 DEF Spelled, SpelledAt
  <2>4. path[i] = Append(Front(q), m.EntryNameToEntry[k][printed[i]])
    BY <1>10, <1>9 DEF AppendEntry, q
  <2>5. path[i] = Append(Front(q), Last(q))
    BY <2>3, <2>4
  <2>6. Append(Front(q), Last(q)) = q
    <3>1. q \in Seq(Nat) /\ Len(q) \in Nat \ {0}
      BY <2>1, Path
    <3>2. PICK s \in Seq(Nat), e \in Nat : q = Append(s, e)
      BY <3>1, EmptySeq, SequenceEmptyOrAppend
    <3> QED BY <3>2, Appended
  <2> QED BY <2>5, <2>6 DEF q
<1>11. Front(above(1)) = <<>>
  <2>1. 1 \in 1..size
    BY <1>1
  <2>2. above(1) \in Paths /\ Len(above(1)) = 1
    BY <1>2, <2>1
  <2> HIDE DEF above
  <2> QED BY <2>2, LastOf
<1>12. 0 \in T
  OBVIOUS
<1>13. ASSUME NEW i \in T PROVE i + 1 \in T
  <2> HIDE DEF above
  <2>1. i \in Nat /\ ((1 <= i /\ i <= size) => path[i] = above(i))
    OBVIOUS
  <2> SUFFICES ASSUME i + 1 <= size PROVE path[i + 1] = above(i + 1)
    BY <2>1
  <2>2. i + 1 \in 1..size /\ (i + 1) - 1 = i
    BY <2>1
  <2>3. path[i] = Front(above(i + 1))
    <3>1. CASE i = 0
      BY <1>11, <1>9, <3>1
    <3>2. CASE i # 0
      <4>1. i + 1 > 1 /\ 1 <= i /\ i <= size
        BY <2>1, <3>2
      <4>2. Front(above(i + 1)) = above((i + 1) - 1)
        BY <1>2, <2>2, <4>1
      <4> QED BY <2>1, <2>2, <4>1, <4>2
    <3> QED BY <3>1, <3>2
  <2> QED BY <1>10, <2>2, <2>3
<1>14. T = Nat
  <2> HIDE DEF T
  <2> QED BY <1>12, <1>13, SetInduction DEF T
<1>15. path[size] = above(size)
  <2> HIDE DEF above
  <2>1. size \in T /\ 1 <= size
    BY <1>14
  <2> QED BY <2>1
<1> QED BY <1>3, <1>15, <1>9 DEF printed

\* Whatever is registered, registered again and cleared, a path of a registered
\* table that is printed by its names is read back as the same path
\* (path.cpp:82-87, 113-123), for all schemes whose paths have keys of their own
\* and whose messages have no two fields of one name.
THEOREM NamesRead ==
    ASSUME KeysDistinct, NamesDistinct PROVE Spec => []NamesRoundTrip
<1>1. Init => NamesOnFile
  BY NamesInit
<1>2. NamesOnFile /\ [Next]_vars => NamesOnFile'
  BY NamesNext
<1>3. NamesOnFile => NamesRoundTrip
  <2> SUFFICES ASSUME NamesOnFile, NEW t \in Tables, NEW p \in Registered(t)
               PROVE  FromNames(manager, Names(manager, p)) = p
    BY DEF NamesRoundTrip
  <2>1. p \in Paths /\ p[1] = t /\ current[t] # 0
    BY DEF Registered
  <2> QED BY <2>1, ReadBack DEF NamesOnFile, OfTables
<1> QED BY <1>1, <1>2, <1>3, PTL DEF Spec
=============================================================================
