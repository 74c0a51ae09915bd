------------------------------- MODULE DataLemmas -----------------------------
(***************************************************************************)
(* Induction over the naturals and over sequences, and what follows from   *)
(* it of the operators the modules are built from: the maximum of a        *)
(* bounded set, functions that are defined by recursion over a sequence,   *)
(* and FlattenSeq.                                                         *)
(*                                                                         *)
(* The library states induction for predicates, as operators; here it is   *)
(* stated for sets, from the minimal element that every non-empty set has  *)
(* in a well-founded relation (WFMin).                                     *)
(***************************************************************************)
EXTENDS SequencesExt, SequenceTheorems, WellFoundedInduction, TLAPS

\* Every non-empty set of naturals has a least element.
LEMMA LeastNatural ==
  ASSUME NEW T \in SUBSET Nat, T # {}
  PROVE  \E m \in T : \A k \in T : m <= k
  <1>1. IsWellFoundedOn(OpToRel(<, Nat), Nat)
    BY NatLessThanWellFounded
  <1>2. \A x, y \in Nat : x < y => <<x, y>> \in OpToRel(<, Nat)
    BY DEF OpToRel
  <1>3. PICK R : IsWellFoundedOn(R, Nat) /\ \A x, y \in Nat : x < y => <<x, y>> \in R
    BY <1>1, <1>2
  <1>4. \A S, U : IsWellFoundedOn(R, S) /\ U \subseteq S /\ U # {}
                    => \E x \in U : \A y \in U : ~(<<y, x>> \in R)
    BY WFMin
  <1>5. PICK m \in T : \A y \in T : ~(<<y, m>> \in R)
    BY <1>3, <1>4
  <1>6. \A k \in T : ~(k < m)
    BY <1>3, <1>5
  <1> QED
    BY <1>6

\* Induction: a set with 0 and with the successor of each natural it has, has all.
LEMMA SetInduction ==
  ASSUME NEW S, 0 \in S, \A n \in Nat : n \in S => n + 1 \in S
  PROVE  \A n \in Nat : n \in S
  <1> SUFFICES ASSUME NEW n \in Nat, n \notin S PROVE FALSE
    OBVIOUS
  <1> DEFINE T == {k \in Nat : k \notin S}
  <1>1. PICK m \in T : \A k \in T : m <= k
    <2>1. T \in SUBSET Nat /\ T # {}
      OBVIOUS
    <2> HIDE DEF T
    <2> QED
      BY <2>1, LeastNatural
  <1>2. m \in Nat /\ m # 0 /\ m \notin S
    OBVIOUS
  <1>3. m - 1 \in Nat /\ m - 1 \notin T
    BY <1>1, <1>2
  <1>4. m - 1 \in S
    BY <1>3
  <1> QED
    BY <1>2, <1>3, <1>4

\* A set of sequences with the empty one, and with whatever is appended to one it
\* has, has all.
LEMMA SeqInduction ==
  ASSUME NEW T, NEW S, <<>> \in S,
         \A s \in Seq(T), e \in T : s \in S => Append(s, e) \in S
  PROVE  \A s \in Seq(T) : s \in S
  <1> DEFINE N == {n \in Nat : \A s \in Seq(T) : Len(s) = n => s \in S}
  <1>1. 0 \in N
    OBVIOUS
  <1>2. ASSUME NEW n \in Nat, n \in N PROVE n + 1 \in N
    <2> SUFFICES ASSUME NEW s \in Seq(T), Len(s) = n + 1 PROVE s \in S
      OBVIOUS
    <2>1. PICK r \in Seq(T), e \in T : s = Append(r, e)
      BY SequenceEmptyOrAppend
    <2>2. Len(r) = n
      BY <2>1
    <2> QED
      BY <1>2, <2>1, <2>2
  <1> HIDE DEF N
  <1>3. \A n \in Nat : n \in N
    BY <1>1, <1>2, SetInduction
  <1> QED
    BY <1>3 DEF N

-------------------------------------------------------------------------------
\* Maximum

LEMMA MaxOfBounded ==
  ASSUME NEW T \in SUBSET Int, T # {}, NEW b \in Int, \A x \in T : x <= b
  PROVE  Max(T) \in T /\ \A x \in T : x <= Max(T)
  <1> DEFINE D == {b - x : x \in T}
  <1>1. D \in SUBSET Nat /\ D # {}
    <2>1. ASSUME NEW x \in T PROVE b - x \in Nat
      <3>1. x \in Int /\ x <= b
        OBVIOUS
      <3> QED
        BY <3>1
    <2>2. PICK x \in T : TRUE
      OBVIOUS
    <2>3. b - x \in D
      BY <2>2
    <2> QED
      BY <2>1, <2>3
  <1>2. PICK d \in D : \A e \in D : d <= e
    <2> HIDE DEF D
    <2> QED
      BY <1>1, LeastNatural
  <1>3. PICK m \in T : d = b - m
    OBVIOUS
  <1>4. \A x \in T : b - x \in D /\ b - m <= b - x
    BY <1>2, <1>3
  <1>5. \A x \in T : m >= x
    BY <1>4
  <1>6. \E x \in T : \A y \in T : x >= y
    BY <1>5
  <1>7. Max(T) \in T /\ \A y \in T : Max(T) >= y
    BY <1>6 DEF Max
  <1> QED
    BY <1>7

-------------------------------------------------------------------------------
\* Recursion over a sequence

\* F holds what a step function makes of the elements of s one after the other, from
\* b on.
IsRun(F, step, b, s) ==
    /\ F[0] = b
    /\ \A i \in 1..Len(s) : F[i] = step[<<F[i - 1], s[i]>>]

LEMMA RunExists ==
  ASSUME NEW V, NEW T, NEW step \in [V \X T -> V], NEW b \in V, NEW s \in Seq(T)
  PROVE  \E F \in [0..Len(s) -> V] : IsRun(F, step, b, s)
  <1> DEFINE Runs(F, n) == F[0] = b /\ \A i \in 1..n : F[i] = step[<<F[i - 1], s[i]>>]
             S == {n \in Nat : n <= Len(s) => \E F \in [0..n -> V] : Runs(F, n)}
  <1>1. 0 \in S
    <2>1. [i \in 0..0 |-> b] \in [0..0 -> V] /\ Runs([i \in 0..0 |-> b], 0)
      OBVIOUS
    <2> QED
      BY <2>1
  <1>2. ASSUME NEW n \in Nat, n \in S PROVE n + 1 \in S
    <2> SUFFICES ASSUME n + 1 <= Len(s) PROVE \E F \in [0..n + 1 -> V] : Runs(F, n + 1)
      OBVIOUS
    <2>1. PICK F \in [0..n -> V] : Runs(F, n)
      BY <1>2
    <2> DEFINE G == [i \in 0..n + 1 |-> IF i <= n THEN F[i] ELSE step[<<F[n], s[n + 1]>>]]
    <2>2. s[n + 1] \in T /\ F[n] \in V
      OBVIOUS
    <2>3. step[<<F[n], s[n + 1]>>] \in V
      BY <2>2
    <2>4. G \in [0..n + 1 -> V]
      BY <2>3
    <2>5. G[0] = b
      BY <2>1
    <2>6. ASSUME NEW i \in 1..n PROVE G[i] = step[<<G[i - 1], s[i]>>]
      <3>1. i - 1 \in 0..n + 1 /\ i \in 0..n + 1 /\ i - 1 <= n /\ i <= n
        OBVIOUS
      <3>2. G[i] = F[i] /\ G[i - 1] = F[i - 1]
        BY <3>1
      <3> QED
        BY <2>1, <3>2
    <2>7. G[n + 1] = step[<<G[n], s[n + 1]>>]
      <3>1. n \in 0..n + 1 /\ n + 1 \in 0..n + 1 /\ n <= n /\ ~(n + 1 <= n)
        OBVIOUS
      <3> QED
        BY <3>1
    <2>8. \A i \in 1..n + 1 : i \in 1..n \/ (i = n + 1 /\ i - 1 = n)
      OBVIOUS
    <2> HIDE DEF G
    <2>9. Runs(G, n + 1)
      BY <2>5, <2>6, <2>7, <2>8
    <2> QED
      BY <2>4, <2>9
  <1> HIDE DEF S
  <1>3. Len(s) \in S
    BY <1>1, <1>2, SetInduction
  <1> QED
    BY <1>3 DEF S, IsRun

\* Two functions agree up to n when they do at 0 and each value follows from the one
\* before it.
Follow(F, G, n) ==
    /\ F[0] = G[0]
    /\ \A i \in 1..n : F[i - 1] = G[i - 1] => F[i] = G[i]

LEMMA RunsAgree ==
  ASSUME NEW n \in Nat, NEW F, NEW G, Follow(F, G, n)
  PROVE  \A i \in 0..n : F[i] = G[i]
  <1> USE DEF Follow
  <1> DEFINE S == {i \in Nat : i <= n => F[i] = G[i]}
  <1>1. 0 \in S
    OBVIOUS
  <1>2. ASSUME NEW i \in Nat, i \in S PROVE i + 1 \in S
    <2> SUFFICES ASSUME i + 1 <= n PROVE F[i + 1] = G[i + 1]
      OBVIOUS
    <2>1. i + 1 \in 1..n /\ (i + 1) - 1 = i /\ F[i] = G[i]
      BY <1>2
    <2> QED
      BY <2>1
  <1> HIDE DEF S
  <1>3. \A i \in Nat : i \in S
    BY <1>1, <1>2, SetInduction
  <1> QED
    BY <1>3 DEF S

-------------------------------------------------------------------------------
\* FlattenSeq

\* F flattens the first n sequences of ss, one after the other.
Flattens(F, ss, n) ==
    F = [i \in 1..n |-> IF i = 1 THEN ss[i] ELSE F[i - 1] \o ss[i]]

LEMMA FlattensExists ==
  ASSUME NEW ss, NEW m \in Nat
  PROVE  \E F : Flattens(F, ss, m)
  <1> DEFINE S == {n \in Nat : \E F : Flattens(F, ss, n)}
  <1>1. 0 \in S
    <2>1. Flattens([i \in 1..0 |-> ss[i]], ss, 0)
      BY DEF Flattens
    <2> QED
      BY <2>1
  <1>2. ASSUME NEW n \in Nat, n \in S PROVE n + 1 \in S
    <2>1. PICK F : Flattens(F, ss, n)
      BY <1>2
    <2> DEFINE G == [i \in 1..n + 1 |-> IF i <= n THEN F[i]
                                        ELSE IF i = 1 THEN ss[i] ELSE F[i - 1] \o ss[i]]
    <2>2. \A i \in 1..n : F[i] = IF i = 1 THEN ss[i] ELSE F[i - 1] \o ss[i]
      BY <2>1 DEF Flattens
    <2>3. \A i \in 1..n + 1 : G[i] = IF i = 1 THEN ss[i] ELSE G[i - 1] \o ss[i]
      BY <2>2
    <2>4. Flattens(G, ss, n + 1)
      BY <2>3 DEF Flattens
    <2> QED
      BY <2>4
  <1> HIDE DEF S
  <1>3. m \in S
    BY <1>1, <1>2, SetInduction
  <1> QED
    BY <1>3 DEF S

\* Two such functions agree where the sequences they flatten do.
LEMMA FlattensAgree ==
  ASSUME NEW ss, NEW tt, NEW n \in Nat, NEW m \in Nat, NEW F, NEW G,
         Flattens(F, ss, n), Flattens(G, tt, m),
         NEW k \in 1..n, k <= m, \A i \in 1..k : ss[i] = tt[i]
  PROVE  F[k] = G[k]
  <1> DEFINE S == {j \in Nat : j + 1 \in 1..k => F[j + 1] = G[j + 1]}
  <1>1. /\ \A i \in 1..n : F[i] = IF i = 1 THEN ss[i] ELSE F[i - 1] \o ss[i]
        /\ \A i \in 1..m : G[i] = IF i = 1 THEN tt[i] ELSE G[i - 1] \o tt[i]
    BY DEF Flattens
  <1>2. 0 \in S
    BY <1>1
  <1>3. ASSUME NEW j \in Nat, j \in S PROVE j + 1 \in S
    <2> SUFFICES ASSUME j + 2 \in 1..k PROVE F[j + 2] = G[j + 2]
      OBVIOUS
    <2>1. F[j + 1] = G[j + 1]
      BY <1>3
    <2>2. /\ (j + 2) - 1 = j + 1 /\ j + 2 # 1
          /\ j + 2 \in 1..n /\ j + 2 \in 1..m /\ ss[j + 2] = tt[j + 2]
      OBVIOUS
    <2>3. F[j + 2] = F[(j + 2) - 1] \o ss[j + 2] /\ G[j + 2] = G[(j + 2) - 1] \o tt[j + 2]
      BY <1>1, <2>2
    <2> QED
      BY <2>1, <2>2, <2>3
  <1> HIDE DEF S
  <1>4. k - 1 \in S
    BY <1>2, <1>3, SetInduction
  <1> QED
    BY <1>4 DEF S

\* The library's definition is one of these functions at its last argument.
LEMMA FlattenSeqDef ==
  ASSUME NEW ss, Len(ss) \in Nat \ {0}
  PROVE  \E F : Flattens(F, ss, Len(ss)) /\ FlattenSeq(ss) = F[Len(ss)]
  <1> DEFINE C == CHOOSE F : F = [i \in 1..Len(ss) |-> IF i = 1 THEN ss[i] ELSE F[i - 1] \o ss[i]]
  <1>1. FlattenSeq(ss) = C[Len(ss)]
    BY DEF FlattenSeq
  <1>2. \E F : F = [i \in 1..Len(ss) |-> IF i = 1 THEN ss[i] ELSE F[i - 1] \o ss[i]]
    BY FlattensExists DEF Flattens
  <1>3. Flattens(C, ss, Len(ss))
    BY <1>2 DEF Flattens
  <1> QED
    BY <1>1, <1>3

LEMMA FlattenEmpty == FlattenSeq(<<>>) = <<>>
  BY DEF FlattenSeq

\* What is appended is what is flattened last.
LEMMA FlattenAppend ==
  ASSUME NEW T, NEW ss \in Seq(Seq(T)), NEW s \in Seq(T)
  PROVE  FlattenSeq(Append(ss, s)) = FlattenSeq(ss) \o s
  <1>1. PICK tt : tt = Append(ss, s)
    OBVIOUS
  <1>2. PICK n \in Nat : n = Len(ss)
    OBVIOUS
  <1>3. /\ Len(tt) = n + 1 /\ tt[n + 1] = s
        /\ \A i \in 1..n : tt[i] = ss[i]
    BY <1>1, <1>2
  <1>4. PICK G : Flattens(G, tt, n + 1) /\ FlattenSeq(tt) = G[n + 1]
    <2>1. Len(tt) \in Nat \ {0}
      BY <1>3
    <2> QED
      BY <1>3, <2>1, FlattenSeqDef
  <1>5. \A i \in 1..n + 1 : G[i] = IF i = 1 THEN tt[i] ELSE G[i - 1] \o tt[i]
    BY <1>4 DEF Flattens
  <1>6. CASE n = 0
    <2>1. ss = <<>>
      BY <1>2, <1>6, EmptySeq
    <2>2. 1 \in 1..n + 1 /\ n + 1 = 1
      BY <1>6
    <2>3. G[1] = s
      BY <1>3, <1>5, <2>2
    <2>4. <<>> \o s = s
      BY ConcatEmptySeq
    <2> QED
      BY <1>1, <1>4, <2>1, <2>2, <2>3, <2>4, FlattenEmpty
  <1>7. CASE n # 0
    <2>1. PICK F : Flattens(F, ss, n) /\ FlattenSeq(ss) = F[n]
      BY <1>2, <1>7, FlattenSeqDef
    <2>2. n \in 1..n /\ n + 1 \in Nat /\ n <= n + 1 /\ \A i \in 1..n : ss[i] = tt[i]
      BY <1>3, <1>7
    <2>3. F[n] = G[n]
      BY <1>4, <2>1, <2>2, FlattensAgree
    <2>4. n + 1 \in 1..n + 1 /\ n + 1 # 1 /\ (n + 1) - 1 = n
      BY <1>7
    <2>5. G[n + 1] = G[(n + 1) - 1] \o tt[n + 1]
      BY <1>5, <2>4
    <2> QED
      BY <1>1, <1>3, <1>4, <2>1, <2>3, <2>4, <2>5
  <1> QED
    BY <1>6, <1>7

LEMMA FlattenType ==
  ASSUME NEW T
  PROVE  \A ss \in Seq(Seq(T)) : FlattenSeq(ss) \in Seq(T)
  <1> DEFINE S == {ss \in Seq(Seq(T)) : FlattenSeq(ss) \in Seq(T)}
  <1>1. <<>> \in S
    <2>1. <<>> \in Seq(Seq(T)) /\ <<>> \in Seq(T)
      BY EmptySeq
    <2> QED
      BY <2>1, FlattenEmpty
  <1>2. ASSUME NEW ss \in Seq(Seq(T)), NEW s \in Seq(T), ss \in S
        PROVE  Append(ss, s) \in S
    <2>1. FlattenSeq(ss) \o s \in Seq(T)
      BY <1>2, ConcatProperties
    <2>2. FlattenSeq(Append(ss, s)) \in Seq(T)
      BY <2>1, FlattenAppend
    <2>3. Append(ss, s) \in Seq(Seq(T))
      OBVIOUS
    <2> QED
      BY <2>2, <2>3
  <1> HIDE DEF S
  <1>3. \A ss \in Seq(Seq(T)) : ss \in S
    BY <1>1, <1>2, SeqInduction
  <1> QED
    BY <1>3 DEF S

\* Flattening in two parts.
LEMMA FlattenConcat ==
  ASSUME NEW T, NEW ss \in Seq(Seq(T))
  PROVE  \A tt \in Seq(Seq(T)) : FlattenSeq(ss \o tt) = FlattenSeq(ss) \o FlattenSeq(tt)
  <1> DEFINE S == {tt \in Seq(Seq(T)) :
                     FlattenSeq(ss \o tt) = FlattenSeq(ss) \o FlattenSeq(tt)}
  <1>1. <<>> \in S
    <2>1. FlattenSeq(ss) \o <<>> = FlattenSeq(ss)
      BY FlattenType, ConcatEmptySeq
    <2>2. ss \o <<>> = ss
      BY ConcatEmptySeq
    <2>3. <<>> \in Seq(Seq(T))
      BY EmptySeq
    <2> QED
      BY <2>1, <2>2, <2>3, FlattenEmpty
  <1>2. ASSUME NEW tt \in Seq(Seq(T)), NEW s \in Seq(T), tt \in S
        PROVE  Append(tt, s) \in S
    <2>1. ss \o tt \in Seq(Seq(T)) /\ Append(tt, s) \in Seq(Seq(T))
      BY ConcatProperties
    <2>2. ss \o Append(tt, s) = Append(ss \o tt, s)
      <3>1. ss \o (tt \o <<s>>) = (ss \o tt) \o <<s>>
        BY ConcatAssociative
      <3> QED
        BY <2>1, <3>1, AppendIsConcat
    <2>3. FlattenSeq(Append(ss \o tt, s)) = (FlattenSeq(ss) \o FlattenSeq(tt)) \o s
      BY <1>2, <2>1, FlattenAppend
    <2>4. FlattenSeq(Append(tt, s)) = FlattenSeq(tt) \o s
      BY FlattenAppend
    <2>5. (FlattenSeq(ss) \o FlattenSeq(tt)) \o s = FlattenSeq(ss) \o (FlattenSeq(tt) \o s)
      BY FlattenType, ConcatAssociative
    <2> QED
      BY <2>1, <2>2, <2>3, <2>4, <2>5
  <1> HIDE DEF S
  <1>3. \A tt \in Seq(Seq(T)) : tt \in S
    BY <1>1, <1>2, SeqInduction
  <1> QED
    BY <1>3 DEF S

-------------------------------------------------------------------------------
\* A function applied to every element

Mapped(f, s) == [i \in DOMAIN s |-> f[s[i]]]

Images(f, T) == {f[x] : x \in T}

LEMMA MappedType ==
  ASSUME NEW T, NEW f
  PROVE  \A s \in Seq(T) : Mapped(f, s) \in Seq(Images(f, T)) /\ Len(Mapped(f, s)) = Len(s)
  <1> TAKE s \in Seq(T)
  <1>1. Mapped(f, s) \in [1..Len(s) -> Images(f, T)]
    BY DEF Mapped, Images
  <1> QED
    BY <1>1 DEF Mapped

LEMMA MappedEmpty ==
  ASSUME NEW f
  PROVE  Mapped(f, <<>>) = <<>>
  BY DEF Mapped

LEMMA MappedConcat ==
  ASSUME NEW T, NEW f
  PROVE  \A s, t \in Seq(T) : Mapped(f, s \o t) = Mapped(f, s) \o Mapped(f, t)
  <1> TAKE s, t \in Seq(T)
  <1> DEFINE U == Images(f, T)
  <1>1. s \o t \in Seq(T) /\ Len(s \o t) = Len(s) + Len(t)
    BY ConcatProperties
  <1>2. /\ Mapped(f, s) \in Seq(U) /\ Len(Mapped(f, s)) = Len(s)
        /\ Mapped(f, t) \in Seq(U) /\ Len(Mapped(f, t)) = Len(t)
        /\ Mapped(f, s \o t) \in Seq(U) /\ Len(Mapped(f, s \o t)) = Len(s) + Len(t)
    <2>1. \A r \in Seq(T) : Mapped(f, r) \in Seq(U) /\ Len(Mapped(f, r)) = Len(r)
      BY MappedType
    <2> QED
      BY <1>1, <2>1
  <1>3. /\ Mapped(f, s) \o Mapped(f, t) \in Seq(U)
        /\ Len(Mapped(f, s) \o Mapped(f, t)) = Len(s) + Len(t)
    <2>1. \A r, q \in Seq(U) : r \o q \in Seq(U) /\ Len(r \o q) = Len(r) + Len(q)
      BY ConcatProperties
    <2> QED
      BY <1>2, <2>1
  <1>4. ASSUME NEW i \in 1..Len(s) + Len(t)
        PROVE  Mapped(f, s \o t)[i] = (Mapped(f, s) \o Mapped(f, t))[i]
    <2>1. (s \o t)[i] = IF i <= Len(s) THEN s[i] ELSE t[i - Len(s)]
      BY ConcatProperties
    <2>2. (Mapped(f, s) \o Mapped(f, t))[i]
            = IF i <= Len(s) THEN Mapped(f, s)[i] ELSE Mapped(f, t)[i - Len(s)]
      BY <1>2, ConcatProperties
    <2>3. i <= Len(s) => Mapped(f, s)[i] = f[s[i]]
      BY DEF Mapped
    <2>4. ~(i <= Len(s)) => Mapped(f, t)[i - Len(s)] = f[t[i - Len(s)]]
      BY DEF Mapped
    <2>5. Mapped(f, s \o t)[i] = f[(s \o t)[i]]
      BY <1>1 DEF Mapped
    <2> QED
      BY <2>1, <2>2, <2>3, <2>4, <2>5
  <1> QED
    BY <1>2, <1>3, <1>4

\* Mapping before or after flattening is the same.
LEMMA FlattenMapped ==
  ASSUME NEW T, NEW f
  PROVE  \A ss \in Seq(Seq(T)) :
            FlattenSeq([i \in DOMAIN ss |-> Mapped(f, ss[i])]) = Mapped(f, FlattenSeq(ss))
  <1> DEFINE Each(ss) == [i \in DOMAIN ss |-> Mapped(f, ss[i])]
             U == Images(f, T)
             S == {ss \in Seq(Seq(T)) : FlattenSeq(Each(ss)) = Mapped(f, FlattenSeq(ss))}
  <1>1. <<>> \in S
    <2>1. <<>> \in Seq(Seq(T)) /\ Each(<<>>) = <<>>
      BY EmptySeq
    <2> QED
      BY <2>1, FlattenEmpty, MappedEmpty
  <1>2. ASSUME NEW ss \in Seq(Seq(T)), NEW s \in Seq(T), ss \in S
        PROVE  Append(ss, s) \in S
    <2>1. Each(ss) \in Seq(Seq(U)) /\ Mapped(f, s) \in Seq(U)
      <3>1. \A r \in Seq(T) : Mapped(f, r) \in Seq(U)
        BY MappedType
      <3>2. Each(ss) \in [1..Len(ss) -> Seq(U)]
        BY <3>1
      <3> QED
        BY <3>1, <3>2
    <2>2. Each(Append(ss, s)) = Append(Each(ss), Mapped(f, s))
      BY <2>1
    <2>3. FlattenSeq(Append(Each(ss), Mapped(f, s))) = FlattenSeq(Each(ss)) \o Mapped(f, s)
      BY <2>1, FlattenAppend
    <2>4. FlattenSeq(Each(ss)) = Mapped(f, FlattenSeq(ss))
      BY <1>2
    <2>5. Mapped(f, FlattenSeq(ss) \o s) = Mapped(f, FlattenSeq(ss)) \o Mapped(f, s)
      <3>1. FlattenSeq(ss) \in Seq(T)
        BY FlattenType
      <3>2. \A r, q \in Seq(T) : Mapped(f, r \o q) = Mapped(f, r) \o Mapped(f, q)
        BY MappedConcat
      <3> QED
        BY <3>1, <3>2
    <2>6. FlattenSeq(Append(ss, s)) = FlattenSeq(ss) \o s
      BY FlattenAppend
    <2>7. Append(ss, s) \in Seq(Seq(T))
      OBVIOUS
    <2> HIDE DEF Each
    <2>8. FlattenSeq(Each(Append(ss, s))) = Mapped(f, FlattenSeq(Append(ss, s)))
      BY <2>2, <2>3, <2>4, <2>5, <2>6
    <2> QED
      BY <2>7, <2>8
  <1> HIDE DEF S
  <1>3. \A ss \in Seq(Seq(T)) : ss \in S
    BY <1>1, <1>2, SeqInduction
  <1> QED
    BY <1>3 DEF S

\* g makes a sequence over T of every element of L.
Collects(g, L, T) == \A l \in L : g[l] \in Seq(T)

\* Collecting from a sequence read in two parts.
LEMMA CollectConcat ==
  ASSUME NEW L, NEW T, NEW g, Collects(g, L, T),
         NEW s \in Seq(L), NEW t \in Seq(L)
  PROVE  /\ FlattenSeq(Mapped(g, s)) \in Seq(T)
         /\ FlattenSeq(Mapped(g, s \o t)) = FlattenSeq(Mapped(g, s)) \o FlattenSeq(Mapped(g, t))
  <1>1. \A r \in Seq(L) : Mapped(g, r) \in Seq(Seq(T))
    <2> TAKE r \in Seq(L)
    <2>1. Mapped(g, r) \in [1..Len(r) -> Seq(T)] /\ Len(r) \in Nat
      BY DEF Mapped, Collects
    <2> QED
      BY <2>1
  <1>2. FlattenSeq(Mapped(g, s)) \in Seq(T)
    BY <1>1, FlattenType
  <1>3. Mapped(g, s \o t) = Mapped(g, s) \o Mapped(g, t)
    BY MappedConcat
  <1>4. FlattenSeq(Mapped(g, s) \o Mapped(g, t))
          = FlattenSeq(Mapped(g, s)) \o FlattenSeq(Mapped(g, t))
    <2>1. Mapped(g, s) \in Seq(Seq(T)) /\ Mapped(g, t) \in Seq(Seq(T))
      BY <1>1
    <2> QED
      BY <2>1, FlattenConcat
  <1> QED
    BY <1>2, <1>3, <1>4

\* Collecting and then looking at what was collected is collecting what is looked at:
\* f shows an element, g collects elements of a member of L, h shows what g collects.
LEMMA CollectShown ==
  ASSUME NEW L, NEW T, NEW f, NEW g, NEW h, Collects(g, L, T),
         \A l \in L : h[l] = Mapped(f, g[l]),
         NEW s \in Seq(L)
  PROVE  Mapped(f, FlattenSeq(Mapped(g, s))) = FlattenSeq(Mapped(h, s))
  <1>1. Mapped(g, s) \in Seq(Seq(T)) /\ DOMAIN Mapped(g, s) = DOMAIN s
    <2>1. Mapped(g, s) \in [1..Len(s) -> Seq(T)] /\ Len(s) \in Nat
      BY DEF Mapped, Collects
    <2> QED
      BY <2>1 DEF Mapped
  <1>2. FlattenSeq([i \in DOMAIN Mapped(g, s) |-> Mapped(f, Mapped(g, s)[i])])
          = Mapped(f, FlattenSeq(Mapped(g, s)))
    BY <1>1, FlattenMapped
  <1>3. [i \in DOMAIN Mapped(g, s) |-> Mapped(f, Mapped(g, s)[i])] = Mapped(h, s)
    <2>1. \A i \in DOMAIN s : s[i] \in L
      OBVIOUS
    <2>2. \A i \in DOMAIN s : Mapped(g, s)[i] = g[s[i]] /\ Mapped(h, s)[i] = h[s[i]]
      BY DEF Mapped
    <2>3. \A i \in DOMAIN s : Mapped(f, Mapped(g, s)[i]) = h[s[i]]
      BY <2>1, <2>2
    <2>4. Mapped(h, s) = [i \in DOMAIN s |-> h[s[i]]]
      BY DEF Mapped
    <2> QED
      BY <1>1, <2>3, <2>4
  <1> QED
    BY <1>2, <1>3

===============================================================================
