------------------------- MODULE LogRotationProofs --------------------------
(***************************************************************************)
(* Proofs about LogRotation, for any limit, any number of backups and any  *)
(* messages.  Each file is a piece of what was written and the pieces are  *)
(* adjacent: a write lengthens the first, a rename moves one to a place    *)
(* whose piece is empty, and only the oldest is ever cut off.  IInv says   *)
(* that, and why a rename finds its target free.  What is on disk is then  *)
(* a suffix because adjacent pieces, put together, are one piece.          *)
(*                                                                         *)
(* SizeOf and FlattenSeq are recursive functions: a function that obeys    *)
(* the equations exists, and is the only one, by induction on the set of   *)
(* the lengths for which there is one.                                     *)
(***************************************************************************)
EXTENDS LogRotation, SequenceTheorems, WellFoundedInduction, TLAPS

-----------------------------------------------------------------------------
(* Induction over the naturals, with a set in place of a predicate.        *)

LEMMA LeastNatural ==
    ASSUME NEW S \in SUBSET Nat, S # {}
    PROVE  \E n \in S : \A m \in S : n <= m
<1> DEFINE R == {ss \in Nat \X Nat : ss[1] < ss[2]}
<1>1. R = OpToRel(<, Nat)
  BY DEF OpToRel
<1>2. IsWellFoundedOn(R, Nat)
  BY <1>1, NatLessThanWellFounded
<1> HIDE DEF R
<1>3. PICK n \in S : \A m \in S : <<m, n>> \notin R
  BY <1>2, WFMin
<1>4. \A m \in S : ~(m < n)
  BY <1>3 DEF R
<1> QED BY <1>4

LEMMA SetInduction ==
    ASSUME NEW S \in SUBSET Nat, 0 \in S, \A n \in S : n + 1 \in S
    PROVE  S = Nat
<1> SUFFICES ASSUME Nat \ S # {} PROVE FALSE
  OBVIOUS
<1>1. PICK n \in Nat \ S : \A m \in Nat \ S : n <= m
  BY LeastNatural
<1>2. n # 0 /\ n - 1 \in Nat /\ n - 1 \in S
  BY <1>1
<1> QED BY <1>1, <1>2

-----------------------------------------------------------------------------
(* The size of a file.                                                     *)

LEMMA FileFacts ==
    ASSUME NEW file \in Seq(Messages)
    PROVE  /\ Len(file) \in Nat /\ DOMAIN file = 1..Len(file)
           /\ \A k \in 1..Len(file) : file[k] \in Messages /\ file[k].size \in Nat
<1>1. Len(file) \in Nat /\ \A k \in 1..Len(file) : file[k] \in Messages
  BY LenProperties
<1>2. \A m \in Messages : m.size \in Nat
  BY RotationAssumption DEF Messages
<1> QED BY <1>1, <1>2, LenProperties

IsTotal(total, file) ==
    total = [n \in 0..Len(file) |-> IF n = 0 THEN 0 ELSE total[n - 1] + file[n].size]

SumsTo(file, n) ==
    \E t \in [0..n -> Nat] :
        \A k \in 0..n : t[k] = IF k = 0 THEN 0 ELSE t[k - 1] + file[k].size

LEMMA SizeOfIsTotal ==
    ASSUME NEW file
    PROVE  SizeOf(file) = (CHOOSE total : IsTotal(total, file))[Len(file)]
BY DEF SizeOf, IsTotal

\* The sums of the first n sizes.
LEMMA TotalExists ==
    ASSUME NEW file \in Seq(Messages)
    PROVE  \E total \in [0..Len(file) -> Nat] : IsTotal(total, file)
<1> DEFINE S == {n \in Nat : n <= Len(file) => SumsTo(file, n)}
<1>1. Len(file) \in Nat /\ \A k \in 1..Len(file) : file[k].size \in Nat
  BY FileFacts
<1>2. 0 \in S
  <2> DEFINE t == [k \in 0..0 |-> 0]
  <2>1. t \in [0..0 -> Nat] /\ \A k \in 0..0 : t[k] = 0 /\ k = 0
    OBVIOUS
  <2>2. SumsTo(file, 0)
    BY <2>1 DEF SumsTo
  <2> QED BY <2>2
<1>3. ASSUME NEW n \in S PROVE n + 1 \in S
  <2> SUFFICES ASSUME n + 1 <= Len(file) PROVE SumsTo(file, n + 1)
    OBVIOUS
  <2>1. n \in Nat /\ n <= Len(file) /\ SumsTo(file, n)
    BY <1>1
  <2>2. PICK t \in [0..n -> Nat] :
            \A k \in 0..n : t[k] = IF k = 0 THEN 0 ELSE t[k - 1] + file[k].size
    BY <2>1 DEF SumsTo
  <2> DEFINE u == [k \in 0..(n + 1) |-> IF k <= n THEN t[k] ELSE t[n] + file[n + 1].size]
  <2>3. u \in [0..(n + 1) -> Nat]
    BY <1>1, <2>1
  <2>4. \A k \in 0..(n + 1) : u[k] = IF k = 0 THEN 0 ELSE u[k - 1] + file[k].size
    BY <2>1, <2>2
  <2> HIDE DEF u
  <2> QED BY <2>3, <2>4 DEF SumsTo
<1> HIDE DEF S
<1>4. S = Nat
  BY <1>2, <1>3, SetInduction DEF S
<1>5. SumsTo(file, Len(file))
  BY <1>1, <1>4 DEF S
<1>6. PICK t \in [0..Len(file) -> Nat] :
          \A k \in 0..Len(file) : t[k] = IF k = 0 THEN 0 ELSE t[k - 1] + file[k].size
  BY <1>5 DEF SumsTo
<1>7. IsTotal(t, file)
  BY <1>6 DEF IsTotal
<1> QED BY <1>7

\* Two files that begin alike have the same sums as far as they do.
LEMMA TotalUnique ==
    ASSUME NEW file \in Seq(Messages), NEW other \in Seq(Messages),
           NEW t, NEW u, IsTotal(t, file), IsTotal(u, other),
           NEW n \in Nat, n <= Len(file), n <= Len(other),
           \A k \in 1..n : file[k] = other[k]
    PROVE  t[n] = u[n]
<1> DEFINE S == {k \in Nat : k <= n => t[k] = u[k]}
<1>1. Len(file) \in Nat /\ Len(other) \in Nat
  BY FileFacts
<1>2. 0 \in S
  BY <1>1 DEF IsTotal
<1>3. ASSUME NEW k \in S PROVE k + 1 \in S
  <2> SUFFICES ASSUME k + 1 <= n PROVE t[k + 1] = u[k + 1]
    BY <1>3
  <2>1. k \in Nat /\ k <= n /\ t[k] = u[k]
    OBVIOUS
  <2>2. t[k + 1] = t[k] + file[k + 1].size
    BY <1>1, <2>1 DEF IsTotal
  <2>3. u[k + 1] = u[k] + other[k + 1].size
    BY <1>1, <2>1 DEF IsTotal
  <2> QED BY <2>1, <2>2, <2>3
<1> HIDE DEF S
<1>4. S = Nat
  BY <1>2, <1>3, SetInduction DEF S
<1> QED BY <1>4 DEF S

LEMMA SizeFacts ==
    ASSUME NEW file \in Seq(Messages)
    PROVE  \E total \in [0..Len(file) -> Nat] :
               IsTotal(total, file) /\ SizeOf(file) = total[Len(file)]
<1>1. PICK t \in [0..Len(file) -> Nat] : IsTotal(t, file)
  BY TotalExists
<1> DEFINE total == CHOOSE u : IsTotal(u, file)
<1>2. IsTotal(total, file)
  BY <1>1
<1>3. SizeOf(file) = total[Len(file)]
  BY SizeOfIsTotal
<1> HIDE DEF total
<1>4. \A n \in 0..Len(file) : total[n] = t[n]
  BY <1>1, <1>2, FileFacts, TotalUnique
<1>5. total \in [0..Len(file) -> Nat]
  <2>1. total = [n \in 0..Len(file) |->
                    IF n = 0 THEN 0 ELSE total[n - 1] + file[n].size]
    BY <1>2 DEF IsTotal
  <2>2. \A n \in 0..Len(file) : total[n] \in Nat
    BY <1>1, <1>4
  <2> QED BY <2>1, <2>2
<1> QED BY <1>2, <1>3, <1>5

LEMMA SizeOfEmpty == SizeOf(<<>>) = 0
<1>1. <<>> \in Seq(Messages) /\ Len(<<>>) = 0
  OBVIOUS
<1>2. PICK t \in [0..Len(<<>>) -> Nat] :
          IsTotal(t, <<>>) /\ SizeOf(<<>>) = t[Len(<<>>)]
  BY <1>1, SizeFacts
<1> QED BY <1>1, <1>2 DEF IsTotal

LEMMA SizeOfAppend ==
    ASSUME NEW file \in Seq(Messages), NEW m \in Messages
    PROVE  /\ SizeOf(file) \in Nat
           /\ SizeOf(Append(file, m)) = SizeOf(file) + m.size
<1> DEFINE longer == Append(file, m)
<1>1. /\ longer \in Seq(Messages)
      /\ Len(file) \in Nat /\ Len(longer) = Len(file) + 1
      /\ \A k \in 1..Len(file) : longer[k] = file[k]
      /\ longer[Len(longer)] = m
  BY AppendProperties, LenProperties
<1> HIDE DEF longer
<1>2. PICK t \in [0..Len(file) -> Nat] :
          IsTotal(t, file) /\ SizeOf(file) = t[Len(file)]
  BY SizeFacts
<1>3. PICK u \in [0..Len(longer) -> Nat] :
          IsTotal(u, longer) /\ SizeOf(longer) = u[Len(longer)]
  BY <1>1, SizeFacts
<1>4. u[Len(file)] = t[Len(file)]
  <2> DEFINE n == Len(file)
  <2>1. n \in Nat /\ n <= Len(file) /\ n <= Len(longer)
    BY <1>1
  <2>2. \A k \in 1..n : file[k] = longer[k]
    BY <1>1
  <2> HIDE DEF n
  <2>3. t[n] = u[n]
    BY SMTT(60), <1>1, <1>2, <1>3, <2>1, <2>2, TotalUnique
  <2> QED BY <2>3 DEF n
<1>5. u[Len(longer)] = u[Len(file)] + m.size
  BY <1>1, <1>3 DEF IsTotal
<1>6. SizeOf(longer) = SizeOf(file) + m.size
  BY <1>2, <1>3, <1>4, <1>5
<1> QED BY <1>1, <1>2, <1>6 DEF longer

-----------------------------------------------------------------------------
(* What is written, cut into files.                                        *)

IsCut(ends, d, top, w) ==
    /\ ends \in [0..(top + 1) -> 0..Len(w)]
    /\ ends[0] = Len(w)
    /\ \A k \in 0..top :
           /\ ends[k] = ends[k + 1] + IF k \in DOMAIN d THEN Len(d[k]) ELSE 0
           /\ k \in DOMAIN d => \A i \in 1..Len(d[k]) : d[k][i] = w[ends[k + 1] + i]

LEMMA PiecesAreCut == Pieces <=> \E ends : IsCut(ends, disk, Top, written)
BY DEF Pieces, IsCut

\* A file moves to the next suffix, which is free.
LEMMA CutMoved ==
    ASSUME NEW d, NEW top \in Nat, NEW w, NEW ends, IsCut(ends, d, top, w),
           Len(w) \in Nat, NEW i \in 0..(top - 1), (i + 1) \notin DOMAIN d
    PROVE  \E other : IsCut(other, Renamed(d, i, i + 1), top, w)
<1>1. CASE i \notin DOMAIN d
  BY <1>1 DEF Renamed
<1>2. CASE i \in DOMAIN d
  <2> DEFINE e == Renamed(d, i, i + 1)
             other == [ends EXCEPT ![i + 1] = ends[i]]
  <2>1. /\ DOMAIN e = (DOMAIN d \ {i}) \cup {i + 1}
        /\ e[i + 1] = d[i]
        /\ \A k \in DOMAIN d \ {i} : e[k] = d[k]
    BY <1>2 DEF Renamed, Without, With
  <2>2. /\ ends \in [0..(top + 1) -> 0..Len(w)] /\ ends[0] = Len(w)
        /\ \A k \in 0..(top + 1) : ends[k] \in 0..Len(w)
        /\ ends[i + 1] = ends[i + 2]
        /\ ends[i] = ends[i + 1] + Len(d[i])
    <3>1. i \in 0..top /\ i + 1 \in 0..top /\ (i + 1) + 1 = i + 2
      OBVIOUS
    <3>2. ends \in [0..(top + 1) -> 0..Len(w)] /\ ends[0] = Len(w)
      BY DEF IsCut
    <3>3. \A k \in 0..(top + 1) : ends[k] \in 0..Len(w)
      BY <3>2
    <3>4. ends[i] = ends[i + 1] + Len(d[i])
      BY <1>2, <3>1 DEF IsCut
    <3>5. ends[i + 1] = ends[i + 2] + 0
      BY <3>1 DEF IsCut
    <3>6. ends[i + 2] \in Nat
      <4>1. i + 2 \in 0..(top + 1)
        BY <3>1
      <4> QED BY <3>3, <4>1
    <3> QED BY <3>2, <3>3, <3>4, <3>5, <3>6
  <2>3. /\ other \in [0..(top + 1) -> 0..Len(w)]
        /\ other[0] = Len(w) /\ other[i + 1] = ends[i]
        /\ \A k \in 0..(top + 1) : k # i + 1 => other[k] = ends[k]
    BY <2>2
  <2> HIDE DEF e, other
  <2>4. ASSUME NEW k \in 0..top
        PROVE  /\ other[k] = other[k + 1] + IF k \in DOMAIN e THEN Len(e[k]) ELSE 0
               /\ k \in DOMAIN e =>
                      \A j \in 1..Len(e[k]) : e[k][j] = w[other[k + 1] + j]
    <3>1. /\ ends[k] = ends[k + 1] + IF k \in DOMAIN d THEN Len(d[k]) ELSE 0
          /\ k \in DOMAIN d => \A j \in 1..Len(d[k]) : d[k][j] = w[ends[k + 1] + j]
      BY DEF IsCut
    <3>2. /\ ends[i] = ends[i + 1] + Len(d[i])
          /\ \A j \in 1..Len(d[i]) : d[i][j] = w[ends[i + 1] + j]
      <4>1. i \in 0..top
        OBVIOUS
      <4> QED BY <1>2, <4>1 DEF IsCut
    <3>3. CASE k = i
      BY <2>1, <2>2, <2>3, <3>3
    <3>4. CASE k = i + 1
      <4>1. k + 1 = i + 2 /\ k + 1 \in 0..(top + 1) /\ k + 1 # i + 1
        BY <3>4
      <4>2. other[k] = ends[i] /\ other[k + 1] = ends[i + 1] /\ e[k] = d[i]
            /\ k \in DOMAIN e
        BY <2>1, <2>2, <2>3, <3>4, <4>1
      <4> QED BY <3>2, <4>2
    <3>5. CASE k # i /\ k # i + 1
      <4>1. k + 1 # i + 1 /\ k \in 0..(top + 1) /\ k + 1 \in 0..(top + 1)
        BY <3>5
      <4>2. other[k] = ends[k] /\ other[k + 1] = ends[k + 1]
        BY <2>3, <3>5, <4>1
      <4>3. (k \in DOMAIN e <=> k \in DOMAIN d) /\ (k \in DOMAIN d => e[k] = d[k])
        BY <2>1, <3>5
      <4> QED BY <3>1, <4>2, <4>3
    <3> QED BY <3>3, <3>4, <3>5
  <2>5. IsCut(other, e, top, w)
    BY <2>3, <2>4 DEF IsCut
  <2> QED BY <2>5 DEF e
<1> QED BY <1>1, <1>2

\* The oldest file goes.
LEMMA CutShortened ==
    ASSUME NEW d, NEW top \in Nat, NEW w, NEW ends, IsCut(ends, d, top, w)
    PROVE  \E other : IsCut(other, Without(d, top), top, w)
<1> DEFINE e == Without(d, top)
           other == [ends EXCEPT ![top + 1] = ends[top]]
<1>1. DOMAIN e = DOMAIN d \ {top} /\ \A k \in DOMAIN e : e[k] = d[k]
  BY DEF Without
<1>2. /\ other \in [0..(top + 1) -> 0..Len(w)]
      /\ other[top + 1] = ends[top]
      /\ \A k \in 0..top : other[k] = ends[k]
  BY DEF IsCut
<1>3. other[0] = Len(w)
  BY <1>2 DEF IsCut
<1>4. \A k \in 0..(top + 1) : other[k] \in Nat
  BY <1>2
<1> HIDE DEF e, other
<1>5. ASSUME NEW k \in 0..top
      PROVE  /\ other[k] = other[k + 1] + IF k \in DOMAIN e THEN Len(e[k]) ELSE 0
             /\ k \in DOMAIN e =>
                    \A j \in 1..Len(e[k]) : e[k][j] = w[other[k + 1] + j]
  <2>1. CASE k = top
    <3>1. other[k] = ends[top] /\ other[k + 1] = ends[top] /\ k \notin DOMAIN e
      BY <1>1, <1>2, <2>1
    <3>2. ends[top] \in Nat
      BY <1>2, <1>4
    <3> QED BY <3>1, <3>2
  <2>2. CASE k < top
    <3>1. k + 1 \in 0..top
      BY <2>2
    <3>2. other[k] = ends[k] /\ other[k + 1] = ends[k + 1]
          /\ (k \in DOMAIN e <=> k \in DOMAIN d) /\ (k \in DOMAIN e => e[k] = d[k])
      BY <1>1, <1>2, <2>2, <3>1
    <3>3. /\ ends[k] = ends[k + 1] + IF k \in DOMAIN d THEN Len(d[k]) ELSE 0
          /\ k \in DOMAIN d => \A j \in 1..Len(d[k]) : d[k][j] = w[ends[k + 1] + j]
      BY DEF IsCut
    <3> QED BY <3>2, <3>3
  <2> QED BY <2>1, <2>2
<1>6. IsCut(other, e, top, w)
  BY <1>2, <1>3, <1>5 DEF IsCut
<1> QED BY <1>6 DEF e

\* An empty file is added.
LEMMA CutEmpty ==
    ASSUME NEW d, NEW top \in Nat, NEW w, NEW ends, IsCut(ends, d, top, w),
           0 \notin DOMAIN d
    PROVE  IsCut(ends, With(d, 0, <<>>), top, w)
BY SMTT(60) DEF IsCut, With

\* A message is appended to what is written and to the live file.
LEMMA CutAppended ==
    ASSUME NEW d, NEW top \in Nat, NEW w \in Seq(Messages), NEW ends,
           IsCut(ends, d, top, w), 0 \in DOMAIN d, d[0] \in Seq(Messages),
           NEW m \in Messages
    PROVE  \E other : IsCut(other, With(d, 0, Append(d[0], m)), top, Append(w, m))
<1> DEFINE e == With(d, 0, Append(d[0], m))
           v == Append(w, m)
           other == [ends EXCEPT ![0] = Len(w) + 1]
<1>1. /\ v \in Seq(Messages) /\ Len(w) \in Nat /\ Len(v) = Len(w) + 1
      /\ \A k \in 1..Len(w) : v[k] = w[k]
      /\ v[Len(w) + 1] = m
  BY AppendProperties, LenProperties
<1>2. /\ DOMAIN e = DOMAIN d /\ Len(d[0]) \in Nat /\ Len(e[0]) = Len(d[0]) + 1
      /\ \A k \in 1..Len(d[0]) : e[0][k] = d[0][k]
      /\ e[0][Len(d[0]) + 1] = m
      /\ \A k \in DOMAIN d : k # 0 => e[k] = d[k]
  BY AppendProperties, LenProperties DEF With
<1>3. /\ ends \in [0..(top + 1) -> 0..Len(w)] /\ ends[0] = Len(w)
      /\ \A k \in 0..(top + 1) : ends[k] \in 0..Len(w)
      /\ ends[0] = ends[1] + Len(d[0])
      /\ \A i \in 1..Len(d[0]) : d[0][i] = w[ends[1] + i]
  BY DEF IsCut
<1>4. /\ other \in [0..(top + 1) -> 0..Len(v)]
      /\ other[0] = Len(v)
      /\ \A k \in 1..(top + 1) : other[k] = ends[k]
  BY <1>1, <1>3
<1> HIDE DEF e, v, other
<1>5. ASSUME NEW k \in 0..top
      PROVE  /\ other[k] = other[k + 1] + IF k \in DOMAIN e THEN Len(e[k]) ELSE 0
             /\ k \in DOMAIN e =>
                    \A j \in 1..Len(e[k]) : e[k][j] = v[other[k + 1] + j]
  <2>1. CASE k = 0
    <3>1. other[1] = ends[1] /\ Len(e[0]) = Len(d[0]) + 1 /\ ends[1] \in Nat
          /\ ends[1] + Len(d[0]) = Len(w)
      BY <1>2, <1>3, <1>4
    <3>2. ASSUME NEW j \in 1..Len(e[0]) PROVE e[0][j] = v[ends[1] + j]
      <4>1. CASE j <= Len(d[0])
        <5>1. ends[1] + j \in 1..Len(w) /\ j \in 1..Len(d[0])
          BY <1>1, <1>2, <3>1, <4>1
        <5> QED BY <1>1, <1>2, <1>3, <5>1
      <4>2. CASE j = Len(d[0]) + 1
        BY <1>1, <1>2, <3>1, <4>2
      <4> QED BY <1>2, <3>1, <4>1, <4>2
    <3>3. other[k] = Len(w) + 1 /\ other[k + 1] = ends[1] /\ e[k] = e[0]
      BY <1>1, <1>4, <2>1, <3>1
    <3>4. Len(w) + 1 = ends[1] + Len(e[0]) /\ 0 \in DOMAIN e
      BY <1>2, <3>1
    <3> QED BY <2>1, <3>2, <3>3, <3>4
  <2>2. CASE k # 0
    <3>1. /\ ends[k] = ends[k + 1] + IF k \in DOMAIN d THEN Len(d[k]) ELSE 0
          /\ k \in DOMAIN d => \A j \in 1..Len(d[k]) : d[k][j] = w[ends[k + 1] + j]
      BY DEF IsCut
    <3>2. other[k] = ends[k] /\ other[k + 1] = ends[k + 1]
          /\ ends[k] \in 0..Len(w) /\ ends[k + 1] \in 0..Len(w)
      <4>1. k \in 1..(top + 1) /\ k + 1 \in 1..(top + 1)
        BY <2>2
      <4>2. k \in 0..(top + 1) /\ k + 1 \in 0..(top + 1)
        BY <4>1
      <4> QED BY <1>3, <1>4, <4>1, <4>2
    <3>3. ASSUME k \in DOMAIN d, NEW j \in 1..Len(d[k])
          PROVE  d[k][j] = v[ends[k + 1] + j]
      <4>1. ends[k + 1] + j \in 1..Len(w)
        BY SMTT(60), <1>1, <3>1, <3>2, <3>3
      <4> QED BY <1>1, <3>1, <3>3, <4>1
    <3> QED BY <1>2, <2>2, <3>1, <3>2, <3>3
  <2> QED BY <2>1, <2>2
<1>6. IsCut(other, e, top, v)
  BY <1>4, <1>5 DEF IsCut
<1> QED BY <1>6 DEF e, v

-----------------------------------------------------------------------------
(* The steps.                                                              *)

LEMMA Numbers ==
    ASSUME IInv
    PROVE  /\ MaxFileSize \in Nat /\ maxBackupCount \in Nat /\ size \in Nat
           /\ Top \in Nat \ {0} /\ DOMAIN disk \subseteq 0..Top
           /\ open \in BOOLEAN /\ benign \in BOOLEAN
           /\ \A m \in Messages : m.size \in Nat
           /\ written \in Seq(Messages) /\ Len(written) \in Nat
           /\ \A s \in DOMAIN disk :
                  disk[s] \in Seq(Messages) /\ SizeOf(disk[s]) \in Nat
<1> USE RotationAssumption DEF IInv, FilesBounded
<1>1. MaxFileSize \in Nat /\ maxBackupCount \in Nat /\ size \in Nat
  BY DEF TypeOK
<1>2. Top \in Nat \ {0} /\ DOMAIN disk \subseteq 0..Top
  BY <1>1 DEF TypeOK, Top
<1>3. open \in BOOLEAN /\ benign \in BOOLEAN
  BY DEF TypeOK
<1>4. \A m \in Messages : m.size \in Nat
  BY DEF Messages
<1>5. written \in Seq(Messages) /\ Len(written) \in Nat
  BY LenProperties DEF TypeOK
<1>6. ASSUME NEW s \in DOMAIN disk
      PROVE  disk[s] \in Seq(Messages) /\ SizeOf(disk[s]) \in Nat
  <2>1. disk[s] \in Seq(Messages)
    BY DEF TypeOK
  <2>2. PICK t \in [0..Len(disk[s]) -> Nat] :
            IsTotal(t, disk[s]) /\ SizeOf(disk[s]) = t[Len(disk[s])]
    BY <2>1, SizeFacts
  <2> QED BY <2>1, <2>2, FileFacts
<1> QED BY <1>1, <1>2, <1>3, <1>4, <1>5, <1>6

LEMMA PiecesNext ==
    ASSUME NEW ends, IsCut(ends, disk', Top', written')
    PROVE  Pieces'
<1>1. \E e : IsCut(e, disk', Top', written')
  OBVIOUS
<1> QED BY <1>1 DEF IsCut, Pieces

LEMMA SamePieces ==
    Pieces /\ UNCHANGED <<disk, maxBackupCount, written>> => Pieces'
<1> SUFFICES ASSUME Pieces, UNCHANGED <<disk, maxBackupCount, written>>
             PROVE  Pieces'
  OBVIOUS
<1>1. PICK ends : IsCut(ends, disk, Top, written)
  BY PiecesAreCut
<1>2. disk' = disk /\ Top' = Top /\ written' = written
  BY DEF Top
<1>3. IsCut(ends, disk', Top', written')
  BY <1>1, <1>2
<1> QED BY <1>3, PiecesNext

LEMMA HandleInvariant ==
    ASSUME IInv, NEW n \in Sizes, Handle(n)
    PROVE  IInv'
<1>1. Pieces'
  BY SamePieces DEF Handle, IInv
<1>2. message' \in Messages /\ message'.size = n /\ n \in Nat /\ count' \in 0..MaxMessages
  BY RotationAssumption DEF Handle, Messages, IInv, FilesBounded, TypeOK
<1>3. size + n > MaxFileSize <=> ~(size + n <= MaxFileSize)
  BY <1>2, Numbers
<1>4. open' \in BOOLEAN /\ (open' => open /\ size + n <= MaxFileSize)
  BY DEF Handle
<1>5. pc' = IF size + n > MaxFileSize THEN "remove" ELSE "write"
  BY DEF Handle
<1>6. UNCHANGED <<disk, maxBackupCount, size, index, written, benign>>
  BY DEF Handle
<1>7. TypeOK'
  BY <1>2, <1>4, <1>5, <1>6 DEF IInv, FilesBounded, TypeOK
<1>8. SizeInv'
  BY <1>4, <1>5, <1>6 DEF IInv, FilesBounded, SizeInv, HandleInv, Handle
<1>9. HandleInv'
  BY <1>2, <1>3, <1>4, <1>5, <1>6 DEF IInv, FilesBounded, HandleInv
<1>10. FilesBounded'
  BY <1>6, <1>7, <1>8, <1>9 DEF IInv, FilesBounded
<1>11. LiveInv'
  <2> SUFFICES ASSUME benign PROVE LiveInv'
    BY <1>6 DEF LiveInv
  <2>1. open /\ 0 \in DOMAIN disk /\ size = SizeOf(disk[0]) /\ n <= MaxFileSize
    BY DEF Handle, IInv, FilesBounded, HandleInv, SizeInv, LiveInv
  <2>2. pc' = "remove" => disk[0] # <<>>
    <3> SUFFICES ASSUME disk[0] = <<>> PROVE pc' = "write"
      BY <1>5
    <3>1. size = 0
      BY <2>1, SizeOfEmpty
    <3> QED BY <1>2, <1>5, <2>1, <3>1, Numbers
  <2>3. pc' = "write" => open'
    <3>1. pc' = "write" => size + n <= MaxFileSize
      BY <1>3, <1>5
    <3> QED BY <2>1, <3>1 DEF Handle
  <2> QED BY <1>5, <1>6, <2>1, <2>2, <2>3 DEF IInv, LiveInv
<1> QED BY <1>1, <1>10, <1>11 DEF IInv

LEMMA RemoveOldestInvariant ==
    ASSUME IInv, RemoveOldest
    PROVE  IInv'
<1>1. /\ pc = "remove" /\ pc' = "shift" /\ index' = maxBackupCount - 1
      /\ UNCHANGED <<maxBackupCount, size, open, message, count, written, benign>>
      /\ disk' = IF maxBackupCount = 0 THEN disk ELSE Without(disk, maxBackupCount)
  BY DEF RemoveOldest
<1>2. ~open
  BY <1>1, Numbers DEF IInv, FilesBounded, HandleInv
<1>3. /\ DOMAIN disk' \subseteq DOMAIN disk /\ \A s \in DOMAIN disk' : disk'[s] = disk[s]
      /\ maxBackupCount > 0 => DOMAIN disk' = DOMAIN disk \ {maxBackupCount}
  BY <1>1, Numbers DEF Without
<1>4. Pieces'
  <2>1. PICK ends : IsCut(ends, disk, Top, written)
    BY PiecesAreCut DEF IInv
  <2>2. Top' = Top
    BY <1>1 DEF Top
  <2>3. CASE maxBackupCount = 0
    BY <1>1, <2>3, SamePieces DEF IInv
  <2>4. CASE maxBackupCount # 0
    <3>1. disk' = Without(disk, Top)
      BY <1>1, <2>4 DEF Top
    <3>2. PICK other : IsCut(other, Without(disk, Top), Top, written)
      BY <2>1, CutShortened, Numbers
    <3> QED BY <1>1, <2>2, <3>1, <3>2, PiecesNext
  <2> QED BY <2>3, <2>4
<1>5. TypeOK'
  <2>1. index' \in Int
    BY <1>1, Numbers
  <2> QED BY <1>1, <1>3, <2>1 DEF IInv, FilesBounded, TypeOK
<1>6. SizeInv'
  BY <1>1 DEF SizeInv
<1>7. HandleInv'
  BY <1>1, <1>2, <1>3, Numbers DEF IInv, FilesBounded, HandleInv
<1>8. FilesBounded'
  BY <1>1, <1>3, <1>5, <1>6, <1>7 DEF IInv, FilesBounded
<1>9. LiveInv'
  <2>1. 0 \in DOMAIN disk => 0 \in DOMAIN disk' /\ disk'[0] = disk[0]
    BY <1>1, Numbers DEF Without
  <2> QED BY <1>1, <2>1 DEF IInv, LiveInv
<1> QED BY <1>4, <1>8, <1>9 DEF IInv

\* A rename takes the file, with what it says, to another suffix.
IsRenamed(e, d, from, to) ==
    /\ DOMAIN e = IF from \in DOMAIN d THEN (DOMAIN d \ {from}) \cup {to} ELSE DOMAIN d
    /\ from \in DOMAIN d => e[to] = d[from]
    /\ \A s \in DOMAIN d : s \in DOMAIN e /\ s # to => e[s] = d[s]
    /\ \A s \in DOMAIN e : \E r \in DOMAIN d : e[s] = d[r]

LEMMA RenamedFacts ==
    ASSUME NEW d, NEW from, NEW to, from # to
    PROVE  IsRenamed(Renamed(d, from, to), d, from, to)
<1> DEFINE e == Renamed(d, from, to)
<1>1. CASE from \notin DOMAIN d
  BY <1>1 DEF Renamed, IsRenamed
<1>2. CASE from \in DOMAIN d
  <2>1. DOMAIN e = (DOMAIN d \ {from}) \cup {to}
    BY <1>2 DEF Renamed, Without, With
  <2>2. \A s \in DOMAIN e : e[s] = IF s = to THEN d[from] ELSE d[s]
    BY <1>2 DEF Renamed, Without, With
  <2>3. \A s \in DOMAIN e : s = to \/ s \in DOMAIN d
    BY <2>1
  <2> HIDE DEF e
  <2>4. e[to] = d[from] /\ \A s \in DOMAIN d : s \in DOMAIN e /\ s # to => e[s] = d[s]
    BY <2>1, <2>2
  <2>5. \A s \in DOMAIN e : \E r \in DOMAIN d : e[s] = d[r]
    BY <1>2, <2>2, <2>3
  <2> QED BY <1>2, <2>1, <2>4, <2>5 DEF e, IsRenamed
<1> QED BY <1>1, <1>2

LEMMA ShiftInvariant ==
    ASSUME IInv, Shift
    PROVE  IInv'
<1>1. /\ pc = "shift" /\ pc' \in {"shift", "rename"}
      /\ UNCHANGED <<maxBackupCount, size, open, message, count, written, benign>>
      /\ index \in -1..(maxBackupCount - 1)
  BY DEF Shift, IInv, FilesBounded, HandleInv
<1>2. ~open
  BY <1>1, Numbers DEF IInv, FilesBounded, HandleInv
<1>3. CASE index <= 0
  <2>1. pc' = "rename" /\ disk' = disk /\ index' = index
    BY <1>1, <1>3, Numbers DEF Shift
  <2>2. maxBackupCount = 0 \/ 1 \notin DOMAIN disk
    <3> SUFFICES ASSUME maxBackupCount # 0 PROVE 1 \notin DOMAIN disk
      OBVIOUS
    <3>1. index = 0 /\ index + 1 \notin DOMAIN disk
      BY <1>1, <1>3, Numbers DEF IInv, FilesBounded, HandleInv
    <3> QED BY <3>1
  <2>3. HandleInv'
    BY <1>1, <1>2, <2>1, <2>2 DEF IInv, FilesBounded, HandleInv
  <2>4. FilesBounded'
    BY <1>1, <2>1, <2>3 DEF IInv, FilesBounded, TypeOK, SizeInv
  <2>5. LiveInv'
    BY <1>1, <2>1 DEF IInv, LiveInv
  <2> QED BY <1>1, <2>1, <2>4, <2>5, SamePieces DEF IInv
<1>4. CASE index > 0
  <2>1. pc' = "shift" /\ index' = index - 1 /\ disk' = Renamed(disk, index, index + 1)
    BY <1>1, <1>4, Numbers DEF Shift
  <2>2. /\ index \in 1..(Top - 1) /\ maxBackupCount > 0 /\ Top = maxBackupCount
        /\ index + 1 \notin DOMAIN disk
    BY <1>1, <1>4, Numbers DEF IInv, FilesBounded, HandleInv, Top
  <2>3. /\ DOMAIN disk' = IF index \in DOMAIN disk
                            THEN (DOMAIN disk \ {index}) \cup {index + 1} ELSE DOMAIN disk
        /\ \A s \in DOMAIN disk :
               s \in DOMAIN disk' /\ s # index + 1 => disk'[s] = disk[s]
        /\ \A s \in DOMAIN disk' : \E r \in DOMAIN disk : disk'[s] = disk[r]
        /\ DOMAIN disk' \subseteq 0..Top
    <3>1. index # index + 1 /\ index \in 0..Top /\ index + 1 \in 0..Top
      BY <2>2, Numbers
    <3>2. /\ DOMAIN disk' = IF index \in DOMAIN disk
                              THEN (DOMAIN disk \ {index}) \cup {index + 1}
                              ELSE DOMAIN disk
          /\ \A s \in DOMAIN disk :
                 s \in DOMAIN disk' /\ s # index + 1 => disk'[s] = disk[s]
          /\ \A s \in DOMAIN disk' : \E r \in DOMAIN disk : disk'[s] = disk[r]
      <4>1. IsRenamed(disk', disk, index, index + 1)
        BY <2>1, <3>1, RenamedFacts
      <4> QED BY <4>1 DEF IsRenamed
    <3> QED BY <3>1, <3>2, Numbers
  <2>4. Pieces'
    <3>1. PICK ends : IsCut(ends, disk, Top, written)
      BY PiecesAreCut DEF IInv
    <3>2. PICK other : IsCut(other, Renamed(disk, index, index + 1), Top, written)
      BY <2>2, <3>1, CutMoved, Numbers
    <3>3. Top' = Top
      BY <1>1 DEF Top
    <3> QED BY <1>1, <2>1, <3>2, <3>3, PiecesNext
  <2>5. TypeOK'
    <3>1. \A s \in DOMAIN disk' : disk'[s] \in Seq(Messages)
      BY <2>3, Numbers
    <3>2. index' \in Int /\ DOMAIN disk' \subseteq Nat
      BY <2>1, <2>2, <2>3, Numbers
    <3> QED BY <1>1, <2>1, <3>1, <3>2 DEF IInv, FilesBounded, TypeOK
  <2>6. SizeInv'
    BY <2>1 DEF SizeInv
  <2>7. HandleInv'
    <3>1. index' \in 0..(maxBackupCount - 1) /\ index' + 1 = index
      BY <2>1, <2>2, Numbers
    <3>2. index \notin DOMAIN disk'
      BY <2>2, <2>3
    <3> QED BY <1>1, <1>2, <2>1, <3>1, <3>2 DEF IInv, FilesBounded, HandleInv
  <2>8. FilesBounded'
    <3>1. ASSUME NEW s \in DOMAIN disk'
          PROVE  /\ SizeOf(disk'[s]) <= MaxFileSize \/ Len(disk'[s]) = 1
                 /\ s <= maxBackupCount
      BY <2>2, <2>3 DEF IInv, FilesBounded
    <3> QED BY <1>1, <2>5, <2>6, <2>7, <3>1 DEF FilesBounded
  <2>9. LiveInv'
    <3>1. 0 \in DOMAIN disk => 0 \in DOMAIN disk' /\ disk'[0] = disk[0]
      BY <2>2, <2>3
    <3> QED BY <1>1, <3>1 DEF IInv, LiveInv
  <2> QED BY <2>4, <2>8, <2>9 DEF IInv
<1> QED BY <1>1, <1>3, <1>4

\* Without a backup allowed, the live file takes the place of .1.
LEMMA CutReplaced ==
    ASSUME NEW d, NEW w, NEW ends, IsCut(ends, d, 1, w), Len(w) \in Nat, 0 \in DOMAIN d
    PROVE  \E other : IsCut(other, Renamed(d, 0, 1), 1, w)
<1> DEFINE e == Renamed(d, 0, 1)
           other == [ends EXCEPT ![1] = ends[0], ![2] = ends[1]]
<1>1. DOMAIN e = (DOMAIN d \ {0}) \cup {1} /\ e[1] = d[0]
  <2>1. IsRenamed(e, d, 0, 1)
    BY RenamedFacts
  <2> QED BY <2>1 DEF IsRenamed
<1>2. /\ ends \in [0..2 -> 0..Len(w)] /\ ends[0] = Len(w) /\ ends[1] \in 0..Len(w)
      /\ ends[0] = ends[1] + Len(d[0])
      /\ \A i \in 1..Len(d[0]) : d[0][i] = w[ends[1] + i]
  BY DEF IsCut
<1>3. /\ other \in [0..2 -> 0..Len(w)]
      /\ other[0] = Len(w) /\ other[1] = Len(w) /\ other[2] = ends[1]
  BY <1>2
<1> HIDE DEF e, other
<1>4. /\ other[0] = other[1] + 0 /\ 0 \notin DOMAIN e
      /\ other[1] = other[2] + Len(e[1]) /\ 1 \in DOMAIN e
      /\ \A i \in 1..Len(e[1]) : e[1][i] = w[other[2] + i]
  <2>1. other[0] = other[1] + 0 /\ 0 \notin DOMAIN e /\ 1 \in DOMAIN e
    BY <1>1, <1>3
  <2>2. Len(w) = ends[1] + Len(d[0]) /\ e[1] = d[0]
    BY <1>1, <1>2
  <2> QED BY <1>2, <1>3, <2>1, <2>2
<1>5. ASSUME NEW k \in 0..1
      PROVE  /\ other[k] = other[k + 1] + IF k \in DOMAIN e THEN Len(e[k]) ELSE 0
             /\ k \in DOMAIN e =>
                    \A i \in 1..Len(e[k]) : e[k][i] = w[other[k + 1] + i]
  <2>1. CASE k = 0
    BY <1>4, <2>1
  <2>2. CASE k = 1
    <3>1. k + 1 = 2
      BY <2>2
    <3> QED BY <1>4, <2>2, <3>1
  <2> QED BY <2>1, <2>2
<1>6. IsCut(other, e, 1, w)
  BY <1>3, <1>5 DEF IsCut
<1> QED BY <1>6 DEF e

LEMMA RenameLiveInvariant ==
    ASSUME IInv, RenameLive
    PROVE  IInv'
<1>1. /\ pc = "rename" /\ pc' = "reopen" /\ 0 \in DOMAIN disk
      /\ UNCHANGED <<maxBackupCount, size, open, index, message, count, written, benign>>
      /\ disk' = Renamed(disk, 0, 1)
  BY DEF RenameLive
<1>2. ~open
  BY <1>1, Numbers DEF IInv, FilesBounded, HandleInv
<1>3. IsRenamed(disk', disk, 0, 1)
  BY <1>1, RenamedFacts
<1>4. /\ DOMAIN disk' = (DOMAIN disk \ {0}) \cup {1} /\ disk'[1] = disk[0]
      /\ \A s \in DOMAIN disk' : \E r \in DOMAIN disk : disk'[s] = disk[r]
  BY <1>1, <1>3 DEF IsRenamed
<1>5. Pieces'
  <2>1. PICK ends : IsCut(ends, disk, Top, written)
    BY PiecesAreCut DEF IInv
  <2>2. Top' = Top
    BY <1>1 DEF Top
  <2>3. CASE 1 \notin DOMAIN disk
    <3>1. 0 \in 0..(Top - 1) /\ 0 + 1 = 1
      BY Numbers
    <3>2. \E other : IsCut(other, Renamed(disk, 0, 0 + 1), Top, written)
      BY <2>1, <2>3, <3>1, CutMoved, Numbers
    <3>3. PICK other : IsCut(other, disk', Top, written)
      BY <1>1, <3>1, <3>2
    <3> QED BY <1>1, <2>2, <3>3, PiecesNext
  <2>4. CASE 1 \in DOMAIN disk
    <3>1. Top = 1
      BY <1>1, <2>4 DEF IInv, FilesBounded, HandleInv, Top
    <3>2. PICK other : IsCut(other, Renamed(disk, 0, 1), 1, written)
      BY <1>1, <2>1, <3>1, CutReplaced, Numbers
    <3> QED BY <1>1, <2>2, <3>1, <3>2, PiecesNext
  <2> QED BY <2>3, <2>4
<1>6. TypeOK'
  <2>1. \A s \in DOMAIN disk' : disk'[s] \in Seq(Messages)
    BY <1>4, Numbers
  <2>2. DOMAIN disk' \subseteq Nat
    BY <1>4, Numbers
  <2> QED BY <1>1, <2>1, <2>2 DEF IInv, FilesBounded, TypeOK
<1>7. SizeInv' /\ HandleInv'
  BY <1>1, <1>2, <1>4 DEF IInv, FilesBounded, HandleInv, SizeInv
<1>8. FilesBounded'
  <2>1. ASSUME NEW s \in DOMAIN disk'
        PROVE  /\ SizeOf(disk'[s]) <= MaxFileSize \/ Len(disk'[s]) = 1
               /\ s <= maxBackupCount \/ s = 1
    BY <1>4 DEF IInv, FilesBounded
  <2> QED BY <1>1, <1>6, <1>7, <2>1 DEF FilesBounded
<1>9. LiveInv'
  BY <1>1, <1>4 DEF IInv, LiveInv
<1> QED BY <1>5, <1>8, <1>9 DEF IInv

\* An empty live file is made where there was none.
LEMMA AddedFacts ==
    ASSUME IInv, 0 \notin DOMAIN disk, disk' = With(disk, 0, <<>>),
           UNCHANGED <<maxBackupCount, written>>
    PROVE  /\ Pieces'
           /\ DOMAIN disk' = DOMAIN disk \cup {0} /\ disk'[0] = <<>>
           /\ \A s \in DOMAIN disk : disk'[s] = disk[s]
           /\ \A s \in DOMAIN disk' :
                  /\ s \in Nat /\ disk'[s] \in Seq(Messages)
                  /\ SizeOf(disk'[s]) <= MaxFileSize \/ Len(disk'[s]) = 1
                  /\ s <= maxBackupCount \/ s = 1
<1>1. /\ DOMAIN disk' = DOMAIN disk \cup {0} /\ disk'[0] = <<>>
      /\ \A s \in DOMAIN disk : disk'[s] = disk[s]
  BY DEF With
<1>2. Pieces'
  <2>1. PICK ends : IsCut(ends, disk, Top, written)
    BY PiecesAreCut DEF IInv
  <2>2. Top' = Top
    BY DEF Top
  <2>3. IsCut(ends, With(disk, 0, <<>>), Top, written)
    BY <2>1, CutEmpty, Numbers
  <2> QED BY <2>2, <2>3, PiecesNext
<1>3. ASSUME NEW s \in DOMAIN disk'
      PROVE  /\ s \in Nat /\ disk'[s] \in Seq(Messages)
             /\ SizeOf(disk'[s]) <= MaxFileSize \/ Len(disk'[s]) = 1
             /\ s <= maxBackupCount \/ s = 1
  <2>1. CASE s = 0
    <3>1. SizeOf(<<>>) <= MaxFileSize /\ 0 <= maxBackupCount
      BY Numbers, SizeOfEmpty
    <3>2. <<>> \in Seq(Messages) /\ disk'[s] = <<>>
      BY <1>1, <2>1
    <3> QED BY <2>1, <3>1, <3>2
  <2>2. CASE s # 0
    BY <1>1, <2>2, Numbers DEF IInv, FilesBounded
  <2> QED BY <2>1, <2>2
<1> QED BY <1>1, <1>2, <1>3

LEMMA ReopenInvariant ==
    ASSUME IInv, Reopen
    PROVE  IInv'
<1>1. /\ pc = "reopen" /\ pc' = "write" /\ open' = TRUE /\ size' = 0
      /\ UNCHANGED <<maxBackupCount, index, message, count, written, benign>>
      /\ disk' = With(disk, 0, <<>>)
  BY DEF Reopen
<1>2. 0 \notin DOMAIN disk
  BY <1>1 DEF IInv, FilesBounded, HandleInv
<1>3. /\ Pieces'
      /\ DOMAIN disk' = DOMAIN disk \cup {0} /\ disk'[0] = <<>>
      /\ \A s \in DOMAIN disk : disk'[s] = disk[s]
      /\ \A s \in DOMAIN disk' :
             /\ s \in Nat /\ disk'[s] \in Seq(Messages)
             /\ SizeOf(disk'[s]) <= MaxFileSize \/ Len(disk'[s]) = 1
             /\ s <= maxBackupCount \/ s = 1
  BY <1>1, <1>2, AddedFacts
<1>4. TypeOK'
  BY <1>1, <1>3 DEF IInv, FilesBounded, TypeOK
<1>5. SizeInv' /\ HandleInv'
  BY <1>1, <1>3, SizeOfEmpty DEF IInv, FilesBounded, HandleInv, SizeInv
<1>6. FilesBounded'
  BY <1>1, <1>3, <1>4, <1>5 DEF FilesBounded
<1>7. LiveInv'
  BY <1>1, <1>2, <1>3 DEF IInv, LiveInv
<1> QED BY <1>3, <1>6, <1>7 DEF IInv

LEMMA ThrowInvariant ==
    ASSUME IInv, Throw
    PROVE  IInv'
<1>1. /\ pc \in {"remove", "shift", "rename", "reopen"} /\ pc' = "idle"
      /\ UNCHANGED <<disk, maxBackupCount, size, open, index, count, written, benign>>
      /\ message' = NoMessage
      /\ ~benign \/ (pc = "rename" /\ 0 \notin DOMAIN disk)
  BY DEF Throw
<1>2. ~open /\ ~benign
  BY <1>1, Numbers DEF IInv, FilesBounded, HandleInv, LiveInv
<1>3. FilesBounded'
  BY <1>1, <1>2 DEF IInv, FilesBounded, TypeOK, HandleInv, SizeInv
<1>4. LiveInv'
  BY <1>1, <1>2 DEF LiveInv
<1> QED BY <1>1, <1>3, <1>4, SamePieces DEF IInv

LEMMA CrashInvariant ==
    ASSUME IInv, Crash
    PROVE  IInv'
<1>1. /\ pc' = "down" /\ open' = FALSE /\ message' = NoMessage
      /\ UNCHANGED <<disk, maxBackupCount, size, index, count, written, benign>>
  BY DEF Crash
<1>2. FilesBounded'
  BY <1>1 DEF IInv, FilesBounded, TypeOK, HandleInv, SizeInv
<1>3. LiveInv'
  BY <1>1 DEF IInv, LiveInv
<1> QED BY <1>1, <1>2, <1>3, SamePieces DEF IInv

\* A message that has room, or a part of it, goes behind the live file.
LEMMA PutInvariant ==
    ASSUME IInv, open, pc = "write", NEW m \in Messages, m.size <= message.size, Put(m),
           pc' = "idle", message' = NoMessage, size' = size + message.size,
           UNCHANGED <<maxBackupCount, index, count, benign>>,
           open' \in BOOLEAN, open' => m.size = message.size, benign => open'
    PROVE  IInv'
<1>1. message \in Messages /\ message.size \in Nat /\ m.size \in Nat
  BY Numbers DEF IInv, FilesBounded, HandleInv
<1>2. /\ disk' = With(disk, 0, Append(disk[0], m))
      /\ written' = Append(written, m)
  BY DEF Put
<1>3. /\ 0 \in DOMAIN disk /\ size = SizeOf(disk[0])
      /\ disk[0] = <<>> \/ size + message.size <= MaxFileSize
  BY DEF IInv, FilesBounded, HandleInv, SizeInv
<1>4. /\ DOMAIN disk' = DOMAIN disk /\ disk'[0] = Append(disk[0], m)
      /\ \A s \in DOMAIN disk : s # 0 => disk'[s] = disk[s]
  BY <1>2, <1>3 DEF With
<1>5. /\ disk[0] \in Seq(Messages) /\ Append(disk[0], m) \in Seq(Messages)
      /\ Append(disk[0], m) # <<>>
      /\ Append(written, m) \in Seq(Messages)
      /\ SizeOf(Append(disk[0], m)) = size + m.size
      /\ size \in Nat /\ size + m.size \in Nat /\ size + message.size \in Nat
  <2>1. disk[0] \in Seq(Messages) /\ written \in Seq(Messages)
    BY <1>3, Numbers
  <2>2. /\ Append(disk[0], m) \in Seq(Messages)
        /\ Append(disk[0], m) # <<>>
        /\ Append(written, m) \in Seq(Messages)
    BY <2>1, AppendProperties
  <2>3. SizeOf(Append(disk[0], m)) = size + m.size
    BY <1>3, <2>1, SizeOfAppend
  <2>4. size \in Nat /\ size + m.size \in Nat /\ size + message.size \in Nat
    BY <1>1, Numbers
  <2> QED BY <2>1, <2>2, <2>3, <2>4
<1>6. Pieces'
  <2>1. PICK ends : IsCut(ends, disk, Top, written)
    BY PiecesAreCut DEF IInv
  <2>2. PICK other : IsCut(other, With(disk, 0, Append(disk[0], m)), Top,
                           Append(written, m))
    BY <1>3, <1>5, <2>1, CutAppended, Numbers
  <2>3. Top' = Top
    BY DEF Top
  <2> QED BY <1>2, <2>2, <2>3, PiecesNext
<1>7. TypeOK'
  <2>1. \A s \in DOMAIN disk' : disk'[s] \in Seq(Messages)
    BY <1>4, <1>5, Numbers
  <2>2. size' \in Nat /\ written' \in Seq(Messages)
    BY <1>2, <1>5
  <2> QED BY <1>4, <2>1, <2>2 DEF IInv, FilesBounded, TypeOK
<1>8. SizeInv'
  BY <1>4, <1>5 DEF SizeInv
<1>9. HandleInv'
  BY <1>3, <1>4 DEF IInv, FilesBounded, HandleInv
<1>10. FilesBounded'
  <2>1. SizeOf(disk'[0]) <= MaxFileSize \/ Len(disk'[0]) = 1
    <3>1. CASE disk[0] = <<>>
      <4>1. Len(Append(disk[0], m)) = 1
        BY <1>5, <3>1, AppendProperties
      <4> QED BY <1>4, <4>1
    <3>2. CASE size + message.size <= MaxFileSize
      <4>1. size + m.size <= MaxFileSize
        BY <1>1, <1>5, <3>2, Numbers
      <4> QED BY <1>4, <1>5, <4>1
    <3> QED BY <1>3, <3>1, <3>2
  <2>2. ASSUME NEW s \in DOMAIN disk'
        PROVE  /\ SizeOf(disk'[s]) <= MaxFileSize \/ Len(disk'[s]) = 1
               /\ s <= maxBackupCount \/ s = 1
    BY <1>4, <2>1 DEF IInv, FilesBounded
  <2> QED BY <1>7, <1>8, <1>9, <2>2 DEF FilesBounded
<1>11. LiveInv'
  BY <1>3, <1>4, <1>5 DEF IInv, LiveInv
<1> QED BY <1>6, <1>10, <1>11 DEF IInv

\* Nothing of the message reaches a file.
LEMMA SwallowedInvariant ==
    ASSUME IInv, pc = "write", open => open' = FALSE, ~open => open' = open,
           pc' = "idle", message' = NoMessage, size' = size + message.size,
           UNCHANGED <<disk, written, maxBackupCount, index, count, benign>>,
           benign => open'
    PROVE  IInv'
<1>1. open' = FALSE
  BY Numbers
<1>2. size' \in Nat
  <2>1. message \in Messages /\ message.size \in Nat
    BY Numbers DEF IInv, FilesBounded, HandleInv
  <2> QED BY <2>1, Numbers
<1>3. FilesBounded'
  BY <1>1, <1>2 DEF IInv, FilesBounded, TypeOK, HandleInv, SizeInv
<1>4. LiveInv'
  BY DEF IInv, LiveInv
<1> QED BY <1>3, <1>4, SamePieces DEF IInv

LEMMA WriteInvariant ==
    ASSUME IInv, Write
    PROVE  IInv'
<1>1. /\ pc = "write" /\ pc' = "idle" /\ size' = size + message.size
      /\ UNCHANGED <<maxBackupCount, open, index, count, benign>>
      /\ message' = NoMessage
      /\ IF open THEN Put(message) ELSE UNCHANGED <<disk, written>>
  BY DEF Write
<1>2. message \in Messages /\ message.size <= message.size
  BY <1>1, Numbers DEF IInv, FilesBounded, HandleInv
<1>3. open \in BOOLEAN /\ (benign => open)
  BY <1>1, Numbers DEF IInv, LiveInv
<1>4. CASE open
  <2>1. open' \in BOOLEAN /\ (open' => message.size = message.size) /\ (benign => open')
    BY <1>1, <1>3
  <2> QED BY <1>1, <1>2, <1>4, <2>1, PutInvariant
<1>5. CASE ~open
  BY <1>1, <1>3, <1>5, SwallowedInvariant
<1> QED BY <1>4, <1>5

LEMMA WriteFailsInvariant ==
    ASSUME IInv, WriteFails
    PROVE  IInv'
<1>1. /\ pc = "write" /\ open /\ ~benign /\ open' = FALSE
      /\ size' = size + message.size /\ message' = NoMessage /\ pc' = "idle"
      /\ UNCHANGED <<maxBackupCount, index, count, benign>>
  BY DEF WriteFails
<1>2. message \in Messages /\ message.size \in Nat
  BY <1>1, Numbers DEF IInv, FilesBounded, HandleInv
<1>3. CASE UNCHANGED <<disk, written>>
  BY <1>1, <1>3, SwallowedInvariant
<1>4. ASSUME NEW n \in 1..(message.size - 1), Put([message EXCEPT !.size = n])
      PROVE  IInv'
  <2> DEFINE m == [message EXCEPT !.size = n]
  <2>1. m \in Messages /\ m.size <= message.size
    BY <1>2 DEF Messages
  <2>2. Put(m)
    BY <1>4
  <2> HIDE DEF m
  <2> QED BY <1>1, <2>1, <2>2, PutInvariant
<1> QED BY <1>3, <1>4 DEF WriteFails

LEMMA RestartInvariant ==
    ASSUME IInv, Restart
    PROVE  IInv'
<1>1. /\ pc = "down" /\ pc' = "idle" /\ size' = SizeOf(disk'[0])
      /\ UNCHANGED <<maxBackupCount, index, message, count, written, benign>>
      /\ open' = TRUE
      /\ disk' = IF 0 \in DOMAIN disk THEN disk ELSE With(disk, 0, <<>>)
  BY DEF Restart
<1>2. /\ Pieces'
      /\ DOMAIN disk' = DOMAIN disk \cup {0}
      /\ \A s \in DOMAIN disk : disk'[s] = disk[s]
      /\ \A s \in DOMAIN disk' :
             /\ s \in Nat /\ disk'[s] \in Seq(Messages)
             /\ SizeOf(disk'[s]) <= MaxFileSize \/ Len(disk'[s]) = 1
             /\ s <= maxBackupCount \/ s = 1
  <2>1. CASE 0 \in DOMAIN disk
    <3>1. disk' = disk
      BY <1>1, <2>1
    <3>2. Pieces'
      BY <1>1, <3>1, SamePieces DEF IInv
    <3>3. \A s \in DOMAIN disk : s \in Nat /\ disk[s] \in Seq(Messages)
      BY Numbers
    <3> QED BY <2>1, <3>1, <3>2, <3>3 DEF IInv, FilesBounded
  <2>2. CASE 0 \notin DOMAIN disk
    BY <1>1, <2>2, AddedFacts
  <2> QED BY <2>1, <2>2
<1>3. size' \in Nat
  <2>1. disk'[0] \in Seq(Messages)
    BY <1>2
  <2>2. PICK t \in [0..Len(disk'[0]) -> Nat] : SizeOf(disk'[0]) = t[Len(disk'[0])]
    BY <2>1, SizeFacts
  <2> QED BY <1>1, <2>1, <2>2, FileFacts
<1>4. TypeOK'
  BY <1>1, <1>2, <1>3 DEF IInv, FilesBounded, TypeOK
<1>5. SizeInv' /\ HandleInv'
  BY <1>1, <1>2 DEF IInv, FilesBounded, HandleInv, SizeInv
<1>6. FilesBounded'
  BY <1>1, <1>2, <1>4, <1>5 DEF FilesBounded
<1>7. LiveInv'
  <2>1. written' = written /\ benign' = benign /\ pc' = "idle" /\ open'
    BY <1>1
  <2>2. \A s \in {0, 1} : s \in DOMAIN disk => s \in DOMAIN disk' /\ disk'[s] = disk[s]
    BY <1>2
  <2> QED BY <2>1, <2>2 DEF IInv, LiveInv
<1> QED BY <1>2, <1>6, <1>7 DEF IInv

LEMMA InitInvariant == Init => IInv
<1> SUFFICES ASSUME Init PROVE IInv
  OBVIOUS
<1>1. DOMAIN disk = {0} /\ disk[0] = <<>> /\ written = <<>>
  BY DEF Init
<1>2. maxBackupCount \in Nat /\ Top \in Nat \ {0}
  BY RotationAssumption DEF Init, Top
<1>3. TypeOK
  BY <1>1, RotationAssumption DEF Init, TypeOK
<1>4. SizeInv /\ HandleInv
  BY <1>1, SizeOfEmpty DEF Init, SizeInv, HandleInv
<1>5. FilesBounded
  <2>1. SizeOf(disk[0]) <= MaxFileSize /\ 0 <= maxBackupCount
    BY <1>1, <1>2, SizeOfEmpty, RotationAssumption
  <2> QED BY <1>1, <1>3, <1>4, <2>1 DEF FilesBounded
<1>6. Pieces
  <2> DEFINE ends == [k \in 0..(Top + 1) |-> 0]
  <2>1. IsCut(ends, disk, Top, written)
    BY <1>1, <1>2 DEF IsCut
  <2> QED BY <2>1, PiecesAreCut
<1>7. LiveInv
  BY <1>1 DEF Init, LiveInv
<1> QED BY <1>5, <1>6, <1>7 DEF IInv

LEMMA NextInvariant == IInv /\ [Next]_vars => IInv'
<1> SUFFICES ASSUME IInv, [Next]_vars PROVE IInv'
  OBVIOUS
<1>1. CASE UNCHANGED vars
  <2>1. Pieces'
    BY <1>1, SamePieces DEF IInv, vars
  <2>2. FilesBounded'
    BY <1>1 DEF IInv, FilesBounded, TypeOK, SizeInv, HandleInv, vars
  <2>3. LiveInv'
    BY <1>1 DEF IInv, LiveInv, vars
  <2> QED BY <2>1, <2>2, <2>3 DEF IInv
<1>2. CASE Next
  BY <1>2, HandleInvariant, RemoveOldestInvariant, ShiftInvariant, RenameLiveInvariant,
     ReopenInvariant, ThrowInvariant, WriteInvariant, WriteFailsInvariant, CrashInvariant,
     RestartInvariant DEF Next
<1> QED BY <1>1, <1>2

\* Where a rotation is, and that each file is the piece of what was written that it
\* should be, survives every call, crash and exception (logging.cpp:38-123).
THEOREM Invariance == Spec => []IInv
BY InitInvariant, NextInvariant, PTL DEF Spec

\* No file outgrows the limit and there are no more backups than allowed
\* (logging.cpp:46-48, 88-94, 100-115).
THEOREM Bounded == Spec => []FilesBounded
<1>1. IInv => FilesBounded
  BY DEF IInv
<1> QED BY <1>1, Invariance, PTL

-----------------------------------------------------------------------------
(* What a step destroys.                                                   *)

LEMMA PrefixFacts ==
    ASSUME NEW S, NEW s \in Seq(S)
    PROVE  IsPrefix(s, s) /\ \A e \in S : IsPrefix(s, Append(s, e))
<1>1. Len(s) \in Nat
  BY LenProperties
<1>2. ASSUME NEW e \in S PROVE IsPrefix(s, Append(s, e))
  <2> DEFINE t == Append(s, e)
  <2>1. /\ t \in Seq(S) /\ Len(t) = Len(s) + 1 /\ \A i \in 1..Len(s) : t[i] = s[i]
    BY AppendProperties
  <2> HIDE DEF t
  <2>2. \A i \in 1..Len(s) : s[i] \in S /\ t[i] \in S
    BY <2>1, LenProperties
  <2>3. /\ SubSeq(s, 1, Len(s)) \in Seq(S) /\ SubSeq(t, 1, Len(s)) \in Seq(S)
        /\ Len(SubSeq(s, 1, Len(s))) = Len(s) /\ Len(SubSeq(t, 1, Len(s))) = Len(s)
        /\ \A i \in 1..Len(s) : SubSeq(s, 1, Len(s))[i] = SubSeq(t, 1, Len(s))[i]
    BY <1>1, <2>1, <2>2, SubSeqProperties
  <2>4. SubSeq(s, 1, Len(s)) = SubSeq(t, 1, Len(s))
    BY <2>3, SeqEqual
  <2>5. IsPrefix(s, t)
    BY <1>1, <2>1, <2>4 DEF IsPrefix
  <2> QED BY <2>5 DEF t
<1> QED BY <1>1, <1>2 DEF IsPrefix

Kept(s) == \E r \in DOMAIN disk' : IsPrefix(disk[s], disk'[r])

LEMMA KeptIfCopied ==
    ASSUME IInv, NEW s \in DOMAIN disk, NEW r \in DOMAIN disk', disk'[r] = disk[s]
    PROVE  Kept(s)
<1>1. IsPrefix(disk[s], disk[s])
  BY PrefixFacts, Numbers
<1> QED BY <1>1 DEF Kept

LEMMA LostInStep ==
    ASSUME IInv, [Next]_vars, NEW s \in DOMAIN disk
    PROVE  (s >= maxBackupCount /\ s > 0) \/ Kept(s)
<1>1. CASE disk' = disk
  BY <1>1, KeptIfCopied
<1>2. CASE RemoveOldest
  <2>1. maxBackupCount \in Nat /\ s \in Nat
    BY Numbers
  <2>2. CASE maxBackupCount # 0 /\ s = maxBackupCount
    BY <2>1, <2>2
  <2>3. CASE maxBackupCount = 0 \/ s # maxBackupCount
    <3>1. s \in DOMAIN disk' /\ disk'[s] = disk[s]
      BY <1>2, <2>3 DEF RemoveOldest, Without
    <3> QED BY <3>1, KeptIfCopied
  <2> QED BY <2>2, <2>3
<1>3. CASE Shift /\ disk' # disk
  <2>1. index > 0 /\ disk' = Renamed(disk, index, index + 1)
    BY <1>3 DEF Shift
  <2>2. index \in Nat /\ index + 1 \notin DOMAIN disk /\ index # index + 1
    BY <1>3, <2>1, Numbers DEF Shift, IInv, FilesBounded, HandleInv
  <2>3. IsRenamed(disk', disk, index, index + 1)
    BY <2>1, <2>2, RenamedFacts
  <2>4. CASE s = index
    <3>1. index + 1 \in DOMAIN disk' /\ disk'[index + 1] = disk[s]
      BY <2>3, <2>4 DEF IsRenamed
    <3> QED BY <3>1, KeptIfCopied
  <2>5. CASE s # index
    <3>1. s \in DOMAIN disk' /\ disk'[s] = disk[s]
      BY <2>2, <2>3, <2>5 DEF IsRenamed
    <3> QED BY <3>1, KeptIfCopied
  <2> QED BY <2>4, <2>5
<1>4. CASE RenameLive
  <2>1. 0 \in DOMAIN disk /\ disk' = Renamed(disk, 0, 1)
    BY <1>4 DEF RenameLive
  <2>2. IsRenamed(disk', disk, 0, 1)
    BY <2>1, RenamedFacts
  <2>3. CASE s = 0
    <3>1. 1 \in DOMAIN disk' /\ disk'[1] = disk[s]
      BY <2>1, <2>2, <2>3 DEF IsRenamed
    <3> QED BY <3>1, KeptIfCopied
  <2>4. CASE s = 1
    <3>1. maxBackupCount = 0
      BY <1>4, <2>4 DEF RenameLive, IInv, FilesBounded, HandleInv
    <3> QED BY <2>4, <3>1
  <2>5. CASE s # 0 /\ s # 1
    <3>1. s \in DOMAIN disk' /\ disk'[s] = disk[s]
      BY <2>1, <2>2, <2>5 DEF IsRenamed
    <3> QED BY <3>1, KeptIfCopied
  <2> QED BY <2>3, <2>4, <2>5
<1>5. CASE Reopen \/ Restart
  <2>1. Reopen => 0 \notin DOMAIN disk
    BY DEF Reopen, IInv, FilesBounded, HandleInv
  <2>2. disk' = disk \/ (0 \notin DOMAIN disk /\ disk' = With(disk, 0, <<>>))
    BY <1>5, <2>1 DEF Reopen, Restart
  <2>3. s \in DOMAIN disk' /\ disk'[s] = disk[s]
    BY <2>2 DEF With
  <2> QED BY <2>3, KeptIfCopied
<1>6. CASE (Write \/ WriteFails) /\ disk' # disk
  <2>1. message \in Messages /\ message.size \in Nat /\ disk[s] \in Seq(Messages)
    BY <1>6, Numbers DEF Write, WriteFails, IInv, FilesBounded, HandleInv
  <2>2. PICK m \in Messages : disk' = With(disk, 0, Append(disk[0], m))
    <3>1. CASE Write
      BY <1>6, <2>1, <3>1 DEF Write, Put
    <3>2. CASE WriteFails
      <4>1. PICK n \in 1..(message.size - 1) : Put([message EXCEPT !.size = n])
        BY <1>6, <3>2 DEF WriteFails
      <4>2. [message EXCEPT !.size = n] \in Messages
        BY <2>1, <4>1 DEF Messages
      <4> QED BY <4>1, <4>2 DEF Put
    <3> QED BY <1>6, <3>1, <3>2
  <2>3. CASE s = 0
    <3>1. 0 \in DOMAIN disk' /\ disk'[0] = Append(disk[s], m)
      BY <2>2, <2>3 DEF With
    <3>2. IsPrefix(disk[s], Append(disk[s], m))
      BY <2>1, PrefixFacts
    <3> QED BY <3>1, <3>2 DEF Kept
  <2>4. CASE s # 0
    <3>1. s \in DOMAIN disk' /\ disk'[s] = disk[s]
      BY <2>2, <2>4 DEF With
    <3> QED BY <3>1, KeptIfCopied
  <2> QED BY <2>3, <2>4
<1>7. CASE Throw \/ Crash \/ (\E n \in Sizes : Handle(n)) \/ UNCHANGED vars
  <2>1. disk' = disk
    BY <1>7 DEF Throw, Crash, Handle, vars
  <2> QED BY <1>1, <2>1
<1> QED BY <1>1, <1>2, <1>3, <1>4, <1>5, <1>6, <1>7 DEF Next

\* A rename never lands on a file that is still wanted, a restart and a reopening
\* destroy nothing (logging.cpp:38-49, 97-123).
THEOREM OldestAloneLost == Spec => OnlyOldestLost
<1>1. IInv /\ [Next]_vars =>
          [\A s \in DOMAIN disk :
               \/ s >= maxBackupCount /\ s > 0
               \/ \E r \in DOMAIN disk' : IsPrefix(disk[s], disk'[r])]_vars
  BY LostInStep DEF Kept
<1> QED BY <1>1, Invariance, PTL DEF Spec, OnlyOldestLost

-----------------------------------------------------------------------------
(* All files together.                                                     *)

IsFlat(f, seqs) ==
    f = [i \in 1..Len(seqs) |-> IF i = 1 THEN seqs[i] ELSE f[i - 1] \o seqs[i]]

LEMMA FlattenIsFlat ==
    ASSUME NEW seqs, Len(seqs) # 0
    PROVE  FlattenSeq(seqs) = (CHOOSE f : IsFlat(f, seqs))[Len(seqs)]
BY DEF FlattenSeq, IsFlat

\* Pieces of a sequence between adjacent cuts make up all between the first and the
\* last cut.
LEMMA FlattenPieces ==
    ASSUME NEW S, NEW w \in Seq(S), NEW n \in Nat \ {0}, NEW cut \in [0..n -> 0..Len(w)],
           \A k \in 1..n : cut[k - 1] <= cut[k],
           NEW seqs \in Seq(Seq(S)), Len(seqs) = n,
           \A k \in 1..n : seqs[k] = SubSeq(w, cut[k - 1] + 1, cut[k])
    PROVE  /\ FlattenSeq(seqs) = SubSeq(w, cut[0] + 1, cut[n])
           /\ \A k \in 0..n : cut[0] <= cut[k]
<1>1. Len(w) \in Nat /\ \A k \in 0..n : cut[k] \in 0..Len(w)
  BY LenProperties
<1>2. \A k \in 0..n : cut[0] <= cut[k]
  <2> DEFINE T == {k \in Nat : k <= n => cut[0] <= cut[k]}
  <2>1. 0 \in T
    BY <1>1
  <2>2. ASSUME NEW k \in T PROVE k + 1 \in T
    <3> SUFFICES ASSUME k + 1 <= n PROVE cut[0] <= cut[k + 1]
      OBVIOUS
    <3>1. k \in 0..n /\ k + 1 \in 1..n /\ (k + 1) - 1 = k /\ cut[0] <= cut[k]
      BY <2>2
    <3>2. cut[k] <= cut[k + 1]
      BY <3>1
    <3>3. cut[0] \in Nat /\ cut[k] \in Nat /\ cut[k + 1] \in Nat
      BY <1>1, <3>1
    <3> QED BY <3>1, <3>2, <3>3
  <2> HIDE DEF T
  <2>3. T = Nat
    BY <2>1, <2>2, SetInduction DEF T
  <2>4. ASSUME NEW k \in 0..n PROVE cut[0] <= cut[k]
    <3>1. k \in T /\ k <= n
      BY <2>3
    <3> QED BY <3>1 DEF T
  <2> QED BY <2>4
<1> DEFINE piece(k) == SubSeq(w, cut[0] + 1, cut[k])
           g == [k \in 1..n |-> piece(k)]
           f == CHOOSE h : IsFlat(h, seqs)
<1>3. ASSUME NEW k \in 1..n, k # 1 PROVE piece(k) = piece(k - 1) \o seqs[k]
  <2>1. k - 1 \in 0..n /\ k \in 0..n
    BY <1>3
  <2>2. /\ cut[0] + 1 \in 1..(Len(w) + 1)
        /\ cut[k - 1] \in ((cut[0] + 1) - 1)..Len(w)
        /\ cut[k] \in cut[k - 1]..Len(w)
    <3>1. cut[0] \in 0..Len(w) /\ cut[k - 1] \in 0..Len(w) /\ cut[k] \in 0..Len(w)
      BY <1>1, <2>1
    <3>2. cut[0] <= cut[k - 1] /\ cut[k - 1] <= cut[k]
      BY <1>2, <2>1
    <3>3. PICK a, b, c, l \in Nat :
              a = cut[0] /\ b = cut[k - 1] /\ c = cut[k] /\ l = Len(w)
      BY SMTT(60), <1>1, <3>1
    <3>4. a <= l /\ b <= l /\ c <= l /\ a <= b /\ b <= c
      BY <3>1, <3>2, <3>3
    <3>5. a + 1 \in 1..(l + 1) /\ b \in ((a + 1) - 1)..l /\ c \in b..l
      BY <3>4
    <3> QED BY <3>3, <3>5
  <2>3. SubSeq(w, cut[0] + 1, cut[k - 1]) \o SubSeq(w, cut[k - 1] + 1, cut[k])
            = SubSeq(w, cut[0] + 1, cut[k])
    BY <2>2, ConcatAdjacentSubSeq
  <2> QED BY <2>3
<1>4. piece(1) = seqs[1]
  BY SMTT(60)
<1> HIDE DEF piece
<1>5. IsFlat(g, seqs)
  <2>1. ASSUME NEW k \in 1..n
        PROVE  g[k] = IF k = 1 THEN seqs[k] ELSE g[k - 1] \o seqs[k]
    <3>1. CASE k = 1
      BY <1>4, <3>1
    <3>2. CASE k # 1
      <4>1. k - 1 \in 1..n
        BY <3>2
      <4> QED BY <1>3, <3>2, <4>1
    <3> QED BY <3>1, <3>2
  <2> QED BY <2>1 DEF IsFlat
<1>6. IsFlat(f, seqs)
  BY <1>5
<1> HIDE DEF f, g
<1>7. \A k \in 1..n : f[k] = piece(k)
  <2> DEFINE T == {k \in Nat : k + 1 <= n => f[k + 1] = piece(k + 1)}
  <2>1. \A k \in 1..n : f[k] = IF k = 1 THEN seqs[k] ELSE f[k - 1] \o seqs[k]
    BY <1>6 DEF IsFlat
  <2>2. 0 \in T
    <3>1. f[1] = piece(1)
      BY <1>4, <2>1
    <3> QED BY <3>1
  <2>3. ASSUME NEW k \in T PROVE k + 1 \in T
    <3> SUFFICES ASSUME (k + 1) + 1 <= n PROVE f[(k + 1) + 1] = piece((k + 1) + 1)
      OBVIOUS
    <3> DEFINE j == (k + 1) + 1
    <3>1. k \in Nat /\ j \in 1..n /\ j # 1 /\ j - 1 = k + 1 /\ f[k + 1] = piece(k + 1)
      BY <2>3
    <3> HIDE DEF j
    <3>2. f[j] = f[j - 1] \o seqs[j]
      BY <2>1, <3>1
    <3>3. piece(j) = piece(j - 1) \o seqs[j]
      BY <1>3, <3>1
    <3>4. f[j - 1] = piece(j - 1)
      BY <3>1
    <3>5. f[j] = piece(j)
      BY <3>2, <3>3, <3>4
    <3> QED BY <3>5 DEF j
  <2> HIDE DEF T
  <2>4. T = Nat
    BY <2>2, <2>3, SetInduction DEF T
  <2>5. ASSUME NEW k \in 1..n PROVE f[k] = piece(k)
    <3>1. k - 1 \in T /\ (k - 1) + 1 = k
      BY <2>4
    <3> QED BY <3>1 DEF T
  <2> QED BY <2>5
<1>8. FlattenSeq(seqs) = piece(n)
  <2>1. FlattenSeq(seqs) = f[n]
    BY FlattenIsFlat DEF f
  <2> QED BY <1>7, <2>1
<1> QED BY <1>2, <1>8 DEF piece

LEMMA TailIsSuffix ==
    ASSUME NEW S, NEW w \in Seq(S), NEW from \in 0..Len(w)
    PROVE  /\ IsSuffix(SubSeq(w, from + 1, Len(w)), w)
           /\ from < Len(w) => /\ SubSeq(w, from + 1, Len(w)) # <<>>
                               /\ Last(SubSeq(w, from + 1, Len(w))) = Last(w)
<1> DEFINE s == SubSeq(w, from + 1, Len(w))
           r == Reverse(s)
           t == Reverse(w)
           n == Len(w) - from
<1>1. Len(w) \in Nat /\ n \in Nat /\ n <= Len(w) /\ from \in Nat
      /\ \A i \in 1..Len(w) : w[i] \in S
  BY LenProperties
<1>2. s \in Seq(S) /\ Len(s) = n /\ \A i \in 1..n : s[i] = w[from + i]
  <2>1. \A i \in (from + 1)..Len(w) : w[i] \in S
    BY <1>1
  <2>2. /\ s \in Seq(S)
        /\ Len(s) = IF from + 1 <= Len(w) THEN Len(w) - (from + 1) + 1 ELSE 0
        /\ \A i \in 1..(Len(w) - (from + 1) + 1) : s[i] = w[(from + 1) + i - 1]
    BY <1>1, <2>1, SubSeqProperties
  <2>3. Len(s) = n
    BY <1>1, <2>2
  <2>4. ASSUME NEW i \in 1..n PROVE s[i] = w[from + i]
    BY <1>1, <2>2
  <2> QED BY <2>2, <2>3, <2>4
<1> HIDE DEF s
<1>3. /\ DOMAIN r = 1..n /\ \A i \in 1..n : r[i] = s[(n - i) + 1]
      /\ DOMAIN t = 1..Len(w) /\ \A i \in 1..Len(w) : t[i] = w[(Len(w) - i) + 1]
      /\ Len(r) = n /\ Len(t) = Len(w)
  BY <1>1, <1>2 DEF Reverse
<1> HIDE DEF r, t
<1>4. ASSUME NEW i \in 1..n PROVE r[i] = t[i] /\ r[i] \in S /\ t[i] \in S
  <2>1. (n - i) + 1 \in 1..n /\ from + ((n - i) + 1) = (Len(w) - i) + 1
        /\ (Len(w) - i) + 1 \in 1..Len(w) /\ i \in 1..Len(w)
    BY <1>1
  <2>2. s[(n - i) + 1] = w[from + ((n - i) + 1)]
    BY <1>2, <2>1
  <2> QED BY <1>1, <1>3, <2>1, <2>2
<1> HIDE DEF n
<1>5. /\ SubSeq(r, 1, n) \in Seq(S) /\ SubSeq(t, 1, n) \in Seq(S)
      /\ Len(SubSeq(r, 1, n)) = n /\ Len(SubSeq(t, 1, n)) = n
      /\ \A i \in 1..n : SubSeq(r, 1, n)[i] = SubSeq(t, 1, n)[i]
  BY <1>1, <1>4, SubSeqProperties
<1>6. SubSeq(r, 1, n) = SubSeq(t, 1, n)
  BY <1>5, SeqEqual
<1>7. IsSuffix(s, w)
  BY <1>1, <1>3, <1>6 DEF IsSuffix, IsPrefix, r, t
<1>8. ASSUME from < Len(w) PROVE s # <<>> /\ Last(s) = Last(w)
  <2>1. n \in 1..n /\ from + n = Len(w)
    BY <1>1, <1>8 DEF n
  <2> QED BY <1>2, <2>1 DEF Last
<1> QED BY <1>7, <1>8 DEF s

LEMMA PieceOfCut ==
    ASSUME IInv, NEW ends, IsCut(ends, disk, Top, written), NEW j \in 0..Top
    PROVE  /\ File(j) = SubSeq(written, ends[j + 1] + 1, ends[j])
           /\ File(j) \in Seq(Messages)
           /\ ends[j] \in 0..Len(written) /\ ends[j + 1] \in 0..Len(written)
           /\ ends[j] = ends[j + 1] + Len(File(j)) /\ Len(File(j)) \in Nat
<1>1. File(j) \in Seq(Messages) /\ Len(File(j)) \in Nat
  <2>1. File(j) \in Seq(Messages)
    BY Numbers DEF File
  <2> QED BY <2>1, LenProperties
<1>2. ends[j] \in 0..Len(written) /\ ends[j + 1] \in 0..Len(written)
  <2>1. j \in 0..(Top + 1) /\ j + 1 \in 0..(Top + 1)
    BY Numbers
  <2> QED BY <2>1 DEF IsCut
<1>3. /\ ends[j] = ends[j + 1] + Len(File(j))
      /\ \A i \in 1..Len(File(j)) : File(j)[i] = written[ends[j + 1] + i]
  BY DEF IsCut, File
<1>4. PICK a, b \in Nat : a = ends[j + 1] /\ b = ends[j] /\ b <= Len(written) /\ a <= b
  BY <1>1, <1>2, <1>3, Numbers
<1> DEFINE s == SubSeq(written, a + 1, b)
<1>5. /\ s \in Seq(Messages) /\ Len(s) = b - a
      /\ \A i \in 1..(b - a) : s[i] = written[a + i]
  <2>1. \A i \in (a + 1)..b : written[i] \in Messages
    BY <1>4, Numbers, LenProperties
  <2>2. /\ s \in Seq(Messages) /\ Len(s) = IF a + 1 <= b THEN b - (a + 1) + 1 ELSE 0
        /\ \A i \in 1..(b - (a + 1) + 1) : s[i] = written[(a + 1) + i - 1]
    <3>1. PICK m, n \in Int : m = a + 1 /\ n = b
      BY <1>4
    <3>2. /\ SubSeq(written, m, n) \in Seq(Messages)
          /\ Len(SubSeq(written, m, n)) = IF m <= n THEN n - m + 1 ELSE 0
          /\ \A i \in 1..(n - m + 1) : SubSeq(written, m, n)[i] = written[m + i - 1]
      BY <2>1, <3>1, SubSeqProperties
    <3> QED BY <3>1, <3>2
  <2>3. Len(s) = b - a
    <3>1. Len(s) = IF a + 1 <= b THEN b - (a + 1) + 1 ELSE 0
      BY <2>2
    <3>2. a \in Nat /\ b \in Nat /\ a <= b
      BY <1>4
    <3> QED BY <3>1, <3>2
  <2>4. ASSUME NEW i \in 1..(b - a) PROVE s[i] = written[a + i]
    <3>1. i \in 1..(b - (a + 1) + 1) /\ (a + 1) + i - 1 = a + i
      BY <1>4
    <3> QED BY <2>2, <3>1
  <2> QED BY <2>2, <2>3, <2>4
<1> HIDE DEF s
<1>6. Len(File(j)) = b - a
  BY <1>1, <1>3, <1>4
<1>7. \A i \in 1..Len(s) : s[i] = File(j)[i]
  BY <1>3, <1>4, <1>5, <1>6
<1>8. s = File(j)
  BY <1>1, <1>5, <1>6, <1>7, SeqEqual
<1> QED BY <1>1, <1>2, <1>3, <1>4, <1>8 DEF s

\* The oldest file there is.
LEMMA OldestFacts ==
    ASSUME IInv, DOMAIN disk # {}
    PROVE  Oldest \in DOMAIN disk /\ \A r \in DOMAIN disk : r <= Oldest
<1> DEFINE Least == {n \in Nat : \A r \in DOMAIN disk : r <= n}
<1>1. Top \in Least
  BY Numbers
<1>2. PICK n \in Least : \A m \in Least : n <= m
  BY <1>1, LeastNatural
<1>3. n \in DOMAIN disk
  <2> SUFFICES ASSUME n \notin DOMAIN disk PROVE FALSE
    OBVIOUS
  <2>1. PICK r \in DOMAIN disk : TRUE
    OBVIOUS
  <2>2. r \in Nat /\ r <= n /\ r # n
    BY <2>1, Numbers
  <2>3. n - 1 \in Nat
    BY <2>2
  <2>4. \A q \in DOMAIN disk : q <= n - 1
    BY Numbers
  <2>5. n - 1 \in Least
    BY <2>3, <2>4
  <2> QED BY <1>2, <2>5
<1>4. \E s \in DOMAIN disk : \A r \in DOMAIN disk : r <= s
  BY <1>2, <1>3
<1> QED BY <1>4 DEF Oldest

LEMMA SuffixOnDisk == IInv => DiskIsSuffix
<1> SUFFICES ASSUME IInv PROVE DiskIsSuffix
  OBVIOUS
<1>1. CASE DOMAIN disk = {}
  <2>1. OnDisk = <<>>
    <3>1. Oldest + 1 = 0
      BY <1>1 DEF Oldest
    <3>2. Files \in Seq({}) /\ Len(Files) = 0
      BY <3>1 DEF Files
    <3>3. FlattenSeq(Files) = Files
      BY <3>2 DEF FlattenSeq
    <3> QED BY <3>2, <3>3, EmptySeq DEF OnDisk
  <2>2. SubSeq(written, Len(written) + 1, Len(written)) = <<>>
    BY SubSeqEmpty, Numbers
  <2>3. IsSuffix(OnDisk, written)
    <3>1. written \in Seq(Messages) /\ Len(written) \in 0..Len(written)
      BY Numbers
    <3>2. IsSuffix(SubSeq(written, Len(written) + 1, Len(written)), written)
      BY <3>1, TailIsSuffix
    <3> QED BY <2>1, <2>2, <3>2
  <2>4. NewestKept
    BY <1>1 DEF NewestKept, IInv, LiveInv
  <2> QED BY <2>3, <2>4 DEF DiskIsSuffix, IInv
<1>2. CASE DOMAIN disk # {}
  <2> DEFINE n == Oldest + 1
  <2>1. n \in Nat \ {0} /\ n <= Top + 1 /\ \A s \in DOMAIN disk : s <= n - 1
    BY <1>2, OldestFacts, Numbers
  <2>7. Files = [k \in 1..n |-> File(n - k)]
    BY DEF Files, n
  <2> HIDE DEF n
  <2>2. PICK ends : IsCut(ends, disk, Top, written)
    BY PiecesAreCut DEF IInv
  <2> DEFINE cut == [k \in 0..n |-> ends[n - k]]
  <2>3. \A k \in 1..n : n - k \in 0..Top /\ (n - k) + 1 = n - (k - 1)
    BY <2>1, Numbers
  <2>4. cut \in [0..n -> 0..Len(written)]
    <3>1. \A k \in 0..n : n - k \in 0..(Top + 1)
      BY <2>1, Numbers
    <3> QED BY <2>2, <3>1 DEF IsCut
  <2>5. \A k \in 0..n : cut[k] = ends[n - k]
    OBVIOUS
  <2>6. Files \in Seq(Seq(Messages)) /\ Len(Files) = n
    <3>1. \A k \in 1..n : File(n - k) \in Seq(Messages)
      BY <2>2, <2>3, PieceOfCut
    <3> QED BY <2>1, <2>7, <3>1
  <2>8. \A k \in 1..n : Files[k] = File(n - k)
    BY <2>7
  <2> HIDE DEF cut
  <2>9. ASSUME NEW k \in 1..n
        PROVE  /\ Files[k] = SubSeq(written, cut[k - 1] + 1, cut[k])
               /\ cut[k - 1] <= cut[k]
    <3>1. cut[k] = ends[n - k] /\ cut[k - 1] = ends[(n - k) + 1]
      <4>1. k \in 0..n /\ k - 1 \in 0..n
        BY <2>1
      <4> QED BY <2>3, <2>5, <4>1
    <3>2. /\ File(n - k) = SubSeq(written, ends[(n - k) + 1] + 1, ends[n - k])
          /\ ends[(n - k) + 1] \in Nat /\ Len(File(n - k)) \in Nat
          /\ ends[n - k] = ends[(n - k) + 1] + Len(File(n - k))
      BY SMTT(60), <2>2, <2>3, PieceOfCut
    <3>3. ends[(n - k) + 1] <= ends[n - k]
      BY <3>2
    <3> QED BY <2>8, <3>1, <3>2, <3>3
  <2>10. /\ FlattenSeq(Files) = SubSeq(written, cut[0] + 1, cut[n])
         /\ \A k \in 0..n : cut[0] <= cut[k]
    <3>1. written \in Seq(Messages) /\ n \in Nat \ {0}
      BY <2>1, Numbers
    <3>2. \A k \in 1..n : cut[k - 1] <= cut[k]
      BY <2>9
    <3>3. \A k \in 1..n : Files[k] = SubSeq(written, cut[k - 1] + 1, cut[k])
      BY <2>9
    <3>4. Files \in Seq(Seq(Messages)) /\ Len(Files) = n
      BY <2>6
    <3> QED BY <2>4, <3>1, <3>2, <3>3, <3>4, FlattenPieces, ZenonT(60)
  <2>11. cut[n] = Len(written) /\ cut[0] \in 0..Len(written)
    <3>1. 0 \in 0..n /\ n \in 0..n /\ n - n = 0
      BY <2>1
    <3> QED BY <2>2, <2>4, <2>5, <3>1 DEF IsCut
  <2>12. OnDisk = SubSeq(written, cut[0] + 1, Len(written))
    BY <2>10, <2>11 DEF OnDisk
  <2>13. IsSuffix(OnDisk, written)
    BY <2>11, <2>12, TailIsSuffix, Numbers
  <2>14. NewestKept
    <3> SUFFICES ASSUME benign, written # <<>>
                 PROVE  OnDisk # <<>> /\ Last(OnDisk) = Last(written)
      BY DEF NewestKept
    <3>1. PICK j \in {0, 1} : j \in DOMAIN disk /\ disk[j] # <<>>
      BY DEF IInv, LiveInv
    <3>2. j <= n - 1 /\ j \in 0..Top
      BY <2>1, <3>1, Numbers
    <3>3. Len(File(j)) \in Nat \ {0}
      BY <3>1, Numbers, EmptySeq DEF File
    <3>4. /\ ends[j] \in 0..Len(written) /\ ends[j + 1] \in 0..Len(written)
          /\ ends[j] = ends[j + 1] + Len(File(j))
      BY <2>2, <3>2, PieceOfCut
    <3>5. cut[0] <= ends[j + 1]
      <4>1. n - (j + 1) \in 0..n /\ n - (n - (j + 1)) = j + 1
        BY <2>1, <3>2
      <4> QED BY <2>5, <2>10, <4>1
    <3>6. cut[0] < Len(written)
      BY <2>11, <3>3, <3>4, <3>5, Numbers
    <3> QED BY <2>11, <2>12, <3>6, TailIsSuffix, Numbers
  <2> QED BY <2>13, <2>14 DEF DiskIsSuffix, IInv
<1> QED BY <1>1, <1>2

\* Whatever rotation was cut short, the files hold the latest messages in order and
\* without a gap, and the newest one if the file system obeys (logging.cpp:97-123).
THEOREM DiskHoldsTheLatest == Spec => []DiskIsSuffix
BY SuffixOnDisk, Invariance, PTL

=============================================================================
