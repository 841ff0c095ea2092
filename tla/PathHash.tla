------------------------------ MODULE PathHash ------------------------------
(***************************************************************************)
(* GetHash of lib/relation/path: the 64-bit number under which             *)
(* TRelationManager files whatever it knows of a path.  A size_t is four   *)
(* 16-bit limbs, the least significant first.                              *)
(***************************************************************************)
EXTENDS Naturals, Sequences, SequencesExt, Bitwise

Limb == 65536

\* 0x9e3779b9
Golden == <<31161, 40503, 0, 0>>

Zero == <<0, 0, 0, 0>>

\* std::hash<size_t> is the identity in libstdc++; entries fit two limbs.
EntryHash(entry) == <<entry % Limb, entry \div Limb, 0, 0>>

ShiftLeft6(x) ==
    [i \in 1..4 |->
        ((x[i] * 64) % Limb) + (IF i = 1 THEN 0 ELSE x[i - 1] \div 1024)]

ShiftRight2(x) ==
    [i \in 1..4 |->
        (x[i] \div 4) + (IF i = 4 THEN 0 ELSE (x[i + 1] % 4) * 16384)]

\* The sum of four numbers modulo 2^64.
Plus(a, b, c, d) ==
    LET column[i \in 0..4] ==
            IF i = 0 THEN 0
            ELSE a[i] + b[i] + c[i] + d[i] + (column[i - 1] \div Limb)
    IN <<column[1] % Limb, column[2] % Limb, column[3] % Limb, column[4] % Limb>>

XorLimbs(x, y) == <<x[1] ^^ y[1], x[2] ^^ y[2], x[3] ^^ y[3], x[4] ^^ y[4]>>

GetNextPathEntryHash(parent, entry) ==
    XorLimbs(parent,
             Plus(EntryHash(entry), Golden,
                  ShiftLeft6(parent), ShiftRight2(parent)))

GetHash(path) == FoldLeft(GetNextPathEntryHash, Zero, path)

=============================================================================
