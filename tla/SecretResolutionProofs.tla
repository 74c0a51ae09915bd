------------------------- MODULE SecretResolutionProofs -------------------------
(***************************************************************************)
(* Proofs about SecretResolution for any secrets, calls and URLs.          *)
(*                                                                         *)
(* The hard part is what a request's URL becomes once dot segments are     *)
(* taken out: below the secret's ENDPOINT none is allowed, so that what    *)
(* the ENDPOINT itself becomes stays in front. Being below is transitive:  *)
(* from the ENDPOINT to the endpoint of the call, and from there to what a *)
(* path adds. Segments and WithoutDots are functions defined by recursion  *)
(* over a sequence, and what they make of a concatenation is proved by     *)
(* induction over its second part.                                         *)
(***************************************************************************)
EXTENDS SecretResolution, DataLemmas, FiniteSetTheorems

\* Lists of words: the segments of URLs.
Words(T) == Seq(Seq(T))

-------------------------------------------------------------------------------
\* Segments

LEMMA FrontLastType ==
  ASSUME NEW T, NEW s \in Seq(T), s # <<>>
  PROVE  Front(s) \in Seq(T) /\ Len(Front(s)) = Len(s) - 1 /\ Last(s) \in T
  <1>1. Len(s) \in Nat /\ Len(s) # 0
    BY EmptySeq
  <1>2. Len(s) \in 1..Len(s) /\ Len(s) - 1 \in 0..Len(s)
    BY <1>1
  <1>3. SubSeq(s, 1, Len(s) - 1) \in Seq(T) /\ Len(SubSeq(s, 1, Len(s) - 1)) = Len(s) - 1
    BY <1>2
  <1> QED
    BY <1>2, <1>3 DEF Front, Last

LEMMA FrontLastAppend ==
  ASSUME NEW T, NEW s \in Seq(T), NEW e \in T
  PROVE  Front(Append(s, e)) = s /\ Last(Append(s, e)) = e
  BY DEF Front, Last

LEMMA AppendWord ==
  ASSUME NEW T
  PROVE  \A a, b \in Words(T), w \in Seq(T) :
            a \o Append(b, w) = Append(a \o b, w) /\ a \o b \in Words(T)
  <1> SUFFICES ASSUME NEW a \in Words(T), NEW b \in Words(T), NEW w \in Seq(T)
               PROVE  a \o Append(b, w) = Append(a \o b, w) /\ a \o b \in Words(T)
    OBVIOUS
  <1>1. /\ a \in Seq(Seq(T)) /\ b \in Seq(Seq(T)) /\ a \o b \in Seq(Seq(T))
        /\ <<w>> \in Seq(Seq(T))
    BY DEF Words
  <1>2. Append(a \o b, w) = (a \o b) \o <<w>> /\ Append(b, w) = b \o <<w>>
    BY <1>1, AppendIsConcat
  <1> QED
    BY <1>1, <1>2, ConcatAssociative DEF Words

LEMMA SplitType ==
  ASSUME NEW T, NEW segs \in Words(T), segs # <<>>, NEW tok \in T
  PROVE  Split(segs, tok) \in Words(T) /\ Split(segs, tok) # <<>>
  <1>1. CASE tok = "/"
    <2>1. <<>> \in Seq(T)
      BY EmptySeq
    <2> QED
      BY <1>1, <2>1 DEF Split, Words
  <1>2. CASE tok # "/"
    <2>1. Last(segs) \in Seq(T) /\ Front(segs) \in Words(T)
      BY FrontLastType DEF Words
    <2>2. Append(Last(segs), tok) \in Seq(T)
      BY <2>1
    <2>3. \A a \in Words(T), w \in Seq(T) : Append(a, w) \in Words(T) /\ Append(a, w) # <<>>
      BY AppendProperties DEF Words
    <2> QED
      BY <1>2, <2>1, <2>2, <2>3 DEF Split
  <1> QED
    BY <1>1, <1>2

\* The function that Segments chooses takes one step with every token.
Splitting(F, url) ==
    /\ F[0] = <<<<>>>>
    /\ \A i \in 1..Len(url) : F[i] = Split(F[i - 1], url[i])
    /\ Segments(url) = F[Len(url)]

LEMMA SegmentsRun ==
  ASSUME NEW T, NEW url \in Seq(T)
  PROVE  \E F \in [0..Len(url) -> Words(T) \ {<<>>}] : Splitting(F, url)
  <1> DEFINE V == Words(T) \ {<<>>}
             step == [p \in V \X T |-> Split(p[1], p[2])]
             Splits(F) == F = [i \in 0..Len(url) |->
                                 IF i = 0 THEN <<<<>>>> ELSE Split(F[i - 1], url[i])]
             C == CHOOSE F : Splits(F)
  <1>1. step \in [V \X T -> V]
    <2>1. ASSUME NEW p \in V \X T PROVE Split(p[1], p[2]) \in V
      <3>1. p[1] \in Words(T) /\ p[1] # <<>> /\ p[2] \in T
        OBVIOUS
      <3> QED
        BY <3>1, SplitType
    <2> QED
      BY <2>1
  <1>2. <<<<>>>> \in V
    <2>1. <<>> \in Seq(T)
      BY EmptySeq
    <2> QED
      BY <2>1 DEF Words
  <1> HIDE DEF V
  <1>3. \A x \in V, t \in T : step[<<x, t>>] = Split(x, t)
    OBVIOUS
  <1> HIDE DEF step
  <1>4. PICK F \in [0..Len(url) -> V] : IsRun(F, step, <<<<>>>>, url)
    BY <1>1, <1>2, RunExists
  <1>5. F[0] = <<<<>>>> /\ \A i \in 1..Len(url) : F[i] = Split(F[i - 1], url[i])
    <2>1. F[0] = <<<<>>>> /\ \A i \in 1..Len(url) : F[i] = step[<<F[i - 1], url[i]>>]
      BY <1>4 DEF IsRun
    <2>2. ASSUME NEW i \in 1..Len(url) PROVE F[i] = Split(F[i - 1], url[i])
      <3>1. i - 1 \in 0..Len(url) /\ url[i] \in T
        OBVIOUS
      <3>2. F[i - 1] \in V
        BY <3>1
      <3> QED
        BY <1>3, <2>1, <3>1, <3>2
    <2> QED
      BY <2>1, <2>2
  <1>6. Splits(F)
    <2>1. \A i \in 0..Len(url) : i = 0 \/ i \in 1..Len(url)
      OBVIOUS
    <2>2. \A i \in 0..Len(url) : F[i] = IF i = 0 THEN <<<<>>>> ELSE Split(F[i - 1], url[i])
      BY <1>5, <2>1
    <2>3. F = [i \in 0..Len(url) |-> F[i]]
      OBVIOUS
    <2> QED
      BY <2>2, <2>3
  <1>7. Splits(C)
    BY <1>6
  <1>8. Len(url) \in Nat /\ Segments(url) = C[Len(url)]
    BY DEF Segments
  <1> HIDE DEF C
  <1>9. /\ C[0] = <<<<>>>>
        /\ \A i \in 1..Len(url) : C[i] = Split(C[i - 1], url[i])
    <2>1. 0 \in 0..Len(url) /\ \A i \in 1..Len(url) : i \in 0..Len(url) /\ i # 0
      OBVIOUS
    <2> QED
      BY <1>7, <2>1
  <1>10. Follow(F, C, Len(url))
    BY <1>5, <1>9 DEF Follow
  <1>11. \A i \in 0..Len(url) : F[i] = C[i]
    BY <1>8, <1>10, RunsAgree
  <1> QED
    BY <1>4, <1>5, <1>8, <1>11 DEF V, Splitting

LEMMA SegmentsType ==
  ASSUME NEW T, NEW url \in Seq(T)
  PROVE  Segments(url) \in Words(T) /\ Segments(url) # <<>>
  BY SegmentsRun DEF Splitting

LEMMA SegmentsEmpty == Segments(<<>>) = <<<<>>>>
  <1>1. <<>> \in Seq({}) /\ Len(<<>>) = 0
    BY EmptySeq
  <1>2. PICK F : Splitting(F, <<>>)
    BY <1>1, SegmentsRun
  <1> QED
    BY <1>1, <1>2 DEF Splitting

\* A token more is a step more.
LEMMA SegmentsAppend ==
  ASSUME NEW T, NEW url \in Seq(T), NEW tok \in T
  PROVE  Segments(Append(url, tok)) = Split(Segments(url), tok)
  <1> DEFINE V == Words(T) \ {<<>>}
  <1> HIDE DEF V
  <1>1. PICK n \in Nat : n = Len(url)
    OBVIOUS
  <1>2. PICK longer : longer = Append(url, tok)
    OBVIOUS
  <1>3. /\ longer \in Seq(T) /\ Len(longer) = n + 1 /\ longer[n + 1] = tok
        /\ \A i \in 1..n : longer[i] = url[i]
    BY <1>1, <1>2
  <1>4. PICK F \in [0..Len(url) -> V] : Splitting(F, url)
    BY SegmentsRun DEF V
  <1>5. PICK G \in [0..Len(longer) -> V] : Splitting(G, longer)
    BY <1>3, SegmentsRun DEF V
  <1>6. Follow(F, G, n)
    BY <1>1, <1>3, <1>4, <1>5 DEF Follow, Splitting
  <1>7. \A i \in 0..n : F[i] = G[i]
    BY <1>6, RunsAgree
  <1>8. G[n + 1] = Split(G[n], tok)
    <2>1. n + 1 \in 1..n + 1 /\ (n + 1) - 1 = n
      OBVIOUS
    <2> QED
      BY <1>3, <1>5, <2>1 DEF Splitting
  <1> QED
    BY <1>1, <1>2, <1>3, <1>4, <1>5, <1>7, <1>8 DEF Splitting

\* A token goes to the last segment, or behind it.
LEMMA SplitConcat ==
  ASSUME NEW T, NEW x \in Words(T), NEW y \in Words(T), y # <<>>, NEW tok \in T
  PROVE  Split(x \o y, tok) = x \o Split(y, tok)
  <1>1. \A b \in Words(T), w \in Seq(T) :
           x \o Append(b, w) = Append(x \o b, w) /\ x \o b \in Words(T)
    BY AppendWord
  <1>2. CASE tok = "/"
    <2>1. PICK w \in Seq(T) : w = <<>>
      BY EmptySeq
    <2>2. Append(x \o y, w) = x \o Append(y, w)
      BY <1>1
    <2> QED
      BY <1>2, <2>1, <2>2 DEF Split
  <1>3. CASE tok # "/"
    <2>1. PICK r \in Words(T), e \in Seq(T) : y = Append(r, e)
      BY SequenceEmptyOrAppend DEF Words
    <2>2. x \o y = Append(x \o r, e) /\ x \o r \in Words(T)
      BY <1>1, <2>1 DEF Words
    <2>3. \A a \in Words(T) : Front(Append(a, e)) = a /\ Last(Append(a, e)) = e
      BY FrontLastAppend DEF Words
    <2>4. Split(y, tok) = Append(r, Append(e, tok))
      BY <1>3, <2>1, <2>3 DEF Split
    <2>5. Split(x \o y, tok) = Append(x \o r, Append(e, tok))
      BY <1>3, <2>2, <2>3 DEF Split
    <2>6. PICK w \in Seq(T) : w = Append(e, tok)
      BY AppendProperties
    <2>7. Append(x \o r, w) = x \o Append(r, w)
      BY <1>1
    <2> QED
      BY <2>4, <2>5, <2>6, <2>7
  <1> QED
    BY <1>2, <1>3

\* The segments of what is behind a slash come behind those of what is before it.
LEMMA SegmentsConcat ==
  ASSUME NEW T, "/" \in T, NEW a \in Seq(T)
  PROVE  \A r \in Seq(T) : Segments(a \o <<"/">> \o r) = Segments(a) \o Segments(r)
  <1> DEFINE front == a \o <<"/">>
             S == {r \in Seq(T) : Segments(front \o r) = Segments(a) \o Segments(r)}
  <1>1. front = Append(a, "/") /\ front \in Seq(T)
    BY AppendIsConcat
  <1>2. Segments(a) \in Words(T) /\ Segments(a) # <<>>
    BY SegmentsType
  <1>3. Segments(front) = Append(Segments(a), <<>>)
    BY <1>1, SegmentsAppend DEF Split
  <1> HIDE DEF front
  <1>4. <<>> \in S
    <2>1. front \o <<>> = front /\ <<>> \in Seq(T)
      BY <1>1, ConcatEmptySeq, EmptySeq
    <2>2. Append(Segments(a), <<>>) = Segments(a) \o <<<<>>>>
      BY <1>2, <2>1, AppendIsConcat DEF Words
    <2> QED
      BY <1>3, <2>1, <2>2, SegmentsEmpty
  <1>5. ASSUME NEW r \in Seq(T), NEW e \in T, r \in S PROVE Append(r, e) \in S
    <2>1. front \o Append(r, e) = Append(front \o r, e) /\ front \o r \in Seq(T)
      BY <1>1
    <2>2. Segments(front \o Append(r, e)) = Split(Segments(front \o r), e)
      BY <2>1, SegmentsAppend
    <2>3. Segments(Append(r, e)) = Split(Segments(r), e)
      BY SegmentsAppend
    <2>4. Segments(r) \in Words(T) /\ Segments(r) # <<>>
      BY SegmentsType
    <2>5. Split(Segments(a) \o Segments(r), e) = Segments(a) \o Split(Segments(r), e)
      BY <1>2, <2>4, SplitConcat
    <2>6. Append(r, e) \in Seq(T)
      OBVIOUS
    <2> QED
      BY <1>5, <2>2, <2>3, <2>5, <2>6
  <1> HIDE DEF S
  <1>6. \A r \in Seq(T) : r \in S
    BY <1>4, <1>5, SeqInduction
  <1> QED
    BY <1>6 DEF S, front

-------------------------------------------------------------------------------
\* Dot segments

LEMMA RemoveDotsType ==
  ASSUME NEW T, NEW path \in Words(T), NEW seg \in Seq(T)
  PROVE  /\ RemoveDots(path, seg) \in Words(T)
         /\ Len(path) < 3 => Len(RemoveDots(path, seg)) = Len(path) + 1
         /\ Len(path) >= 3 => Len(RemoveDots(path, seg)) >= 3
  <1>1. Len(path) \in Nat
    BY DEF Words
  <1>2. Append(path, seg) \in Words(T) /\ Len(Append(path, seg)) = Len(path) + 1
    BY AppendProperties DEF Words
  <1>3. Len(path) > 3 => Front(path) \in Words(T) /\ Len(Front(path)) = Len(path) - 1
    <2> SUFFICES ASSUME Len(path) > 3
                 PROVE  Front(path) \in Words(T) /\ Len(Front(path)) = Len(path) - 1
      OBVIOUS
    <2>1. path # <<>>
      OBVIOUS
    <2> QED
      BY <2>1, FrontLastType DEF Words
  <1> HIDE DEF Words
  <1> QED
    BY <1>1, <1>2, <1>3 DEF RemoveDots

\* The function that WithoutDots chooses takes one step with every segment.
Removing(F, segs) ==
    /\ F[0] = <<>>
    /\ \A i \in 1..Len(segs) : F[i] = RemoveDots(F[i - 1], segs[i])
    /\ WithoutDots(segs) = F[Len(segs)]

LEMMA WithoutDotsRun ==
  ASSUME NEW T, NEW segs \in Words(T)
  PROVE  \E F \in [0..Len(segs) -> Words(T)] : Removing(F, segs)
  <1> DEFINE V == Words(T)
             W == Seq(T)
             step == [p \in V \X W |-> RemoveDots(p[1], p[2])]
             Removes(F) == F = [i \in 0..Len(segs) |->
                                  IF i = 0 THEN <<>> ELSE RemoveDots(F[i - 1], segs[i])]
             C == CHOOSE F : Removes(F)
  <1>1. step \in [V \X W -> V]
    <2>1. ASSUME NEW p \in V \X W PROVE RemoveDots(p[1], p[2]) \in V
      <3>1. p[1] \in Words(T) /\ p[2] \in Seq(T)
        OBVIOUS
      <3> QED
        BY <3>1, RemoveDotsType
    <2> QED
      BY <2>1
  <1>2. <<>> \in V
    BY EmptySeq DEF Words
  <1>3. segs \in Seq(W)
    BY DEF Words
  <1> HIDE DEF V, W
  <1>4. \A x \in V, t \in W : step[<<x, t>>] = RemoveDots(x, t)
    OBVIOUS
  <1> HIDE DEF step
  <1>5. PICK F \in [0..Len(segs) -> V] : IsRun(F, step, <<>>, segs)
    BY <1>1, <1>2, <1>3, RunExists
  <1>6. F[0] = <<>> /\ \A i \in 1..Len(segs) : F[i] = RemoveDots(F[i - 1], segs[i])
    <2>1. F[0] = <<>> /\ \A i \in 1..Len(segs) : F[i] = step[<<F[i - 1], segs[i]>>]
      BY <1>5 DEF IsRun
    <2>2. ASSUME NEW i \in 1..Len(segs) PROVE F[i] = RemoveDots(F[i - 1], segs[i])
      <3>1. i - 1 \in 0..Len(segs) /\ segs[i] \in W
        BY <1>3
      <3>2. F[i - 1] \in V
        BY <3>1
      <3> QED
        BY <1>4, <2>1, <3>1, <3>2
    <2> QED
      BY <2>1, <2>2
  <1>7. Removes(F)
    <2>1. \A i \in 0..Len(segs) : i = 0 \/ i \in 1..Len(segs)
      BY <1>3
    <2>2. \A i \in 0..Len(segs) : F[i] = IF i = 0 THEN <<>> ELSE RemoveDots(F[i - 1], segs[i])
      BY <1>6, <2>1
    <2>3. F = [i \in 0..Len(segs) |-> F[i]]
      OBVIOUS
    <2> QED
      BY <2>2, <2>3
  <1>8. Removes(C)
    BY <1>7
  <1>9. Len(segs) \in Nat /\ WithoutDots(segs) = C[Len(segs)]
    BY <1>3 DEF WithoutDots
  <1> HIDE DEF C
  <1>10. /\ C[0] = <<>>
         /\ \A i \in 1..Len(segs) : C[i] = RemoveDots(C[i - 1], segs[i])
    <2>1. 0 \in 0..Len(segs) /\ \A i \in 1..Len(segs) : i \in 0..Len(segs) /\ i # 0
      BY <1>9
    <2> QED
      BY <1>8, <2>1
  <1>11. Follow(F, C, Len(segs))
    BY <1>6, <1>10 DEF Follow
  <1>12. \A i \in 0..Len(segs) : F[i] = C[i]
    BY <1>9, <1>11, RunsAgree
  <1> QED
    BY <1>5, <1>6, <1>9, <1>12 DEF V, Removing

LEMMA WithoutDotsType ==
  ASSUME NEW T, NEW segs \in Words(T)
  PROVE  WithoutDots(segs) \in Words(T)
  <1>1. Len(segs) \in Nat
    BY DEF Words
  <1> QED
    BY <1>1, WithoutDotsRun DEF Removing

LEMMA WithoutDotsEmpty == WithoutDots(<<>>) = <<>>
  <1>1. <<>> \in Words({}) /\ Len(<<>>) = 0
    BY EmptySeq DEF Words
  <1>2. PICK F : Removing(F, <<>>)
    BY <1>1, WithoutDotsRun
  <1> QED
    BY <1>1, <1>2 DEF Removing

\* A segment more is a step more.
LEMMA WithoutDotsAppend ==
  ASSUME NEW T, NEW segs \in Words(T), NEW seg \in Seq(T)
  PROVE  WithoutDots(Append(segs, seg)) = RemoveDots(WithoutDots(segs), seg)
  <1> DEFINE V == Words(T)
  <1>1. PICK n \in Nat : n = Len(segs)
    BY DEF Words
  <1>2. PICK longer : longer = Append(segs, seg)
    OBVIOUS
  <1>3. /\ longer \in V /\ Len(longer) = n + 1 /\ longer[n + 1] = seg
        /\ \A i \in 1..n : longer[i] = segs[i]
    BY <1>1, <1>2, AppendProperties DEF Words
  <1> HIDE DEF V
  <1>4. PICK F \in [0..Len(segs) -> V] : Removing(F, segs)
    BY WithoutDotsRun DEF V
  <1>5. PICK G \in [0..Len(longer) -> V] : Removing(G, longer)
    BY <1>3, WithoutDotsRun DEF V
  <1>6. Follow(F, G, n)
    BY <1>1, <1>3, <1>4, <1>5 DEF Follow, Removing
  <1>7. \A i \in 0..n : F[i] = G[i]
    BY <1>6, RunsAgree
  <1>8. G[n + 1] = RemoveDots(G[n], seg)
    <2>1. n + 1 \in 1..n + 1 /\ (n + 1) - 1 = n
      OBVIOUS
    <2> QED
      BY <1>3, <1>5, <2>1 DEF Removing
  <1> QED
    BY <1>1, <1>2, <1>3, <1>4, <1>5, <1>7, <1>8 DEF Removing

\* The scheme and the host stay.
LEMMA HostStays ==
  ASSUME NEW T
  PROVE  \A segs \in Words(T) : Len(segs) >= 3 => Len(WithoutDots(segs)) >= 3
  <1> DEFINE W == Seq(T)
             S == {segs \in Words(T) :
                     /\ Len(segs) >= 3 => Len(WithoutDots(segs)) >= 3
                     /\ Len(segs) < 3 => Len(WithoutDots(segs)) = Len(segs)}
  <1>1. <<>> \in S
    BY WithoutDotsEmpty, EmptySeq DEF Words
  <1>2. ASSUME NEW segs \in Words(T), NEW seg \in W, segs \in S PROVE Append(segs, seg) \in S
    <2>1. Append(segs, seg) \in Words(T) /\ Len(Append(segs, seg)) = Len(segs) + 1
          /\ Len(segs) \in Nat
      BY AppendProperties DEF Words
    <2>2. WithoutDots(Append(segs, seg)) = RemoveDots(WithoutDots(segs), seg)
      BY WithoutDotsAppend
    <2>3. WithoutDots(segs) \in Words(T) /\ Len(WithoutDots(segs)) \in Nat
      BY WithoutDotsType DEF Words
    <2>4. /\ Len(WithoutDots(segs)) < 3 =>
                Len(RemoveDots(WithoutDots(segs), seg)) = Len(WithoutDots(segs)) + 1
          /\ Len(WithoutDots(segs)) >= 3 => Len(RemoveDots(WithoutDots(segs), seg)) >= 3
      BY <2>3, RemoveDotsType
    <2>5. \/ Len(segs) >= 3 /\ Len(WithoutDots(segs)) >= 3
          \/ Len(segs) < 3 /\ Len(WithoutDots(segs)) = Len(segs)
      BY <1>2, <2>1
    <2> QED
      BY <2>1, <2>2, <2>3, <2>4, <2>5
  <1>3. Words(T) = Seq(W)
    BY DEF Words
  <1> HIDE DEF S, W
  <1>4. \A segs \in Seq(W) : segs \in S
    BY <1>1, <1>2, <1>3, SeqInduction
  <1> QED
    BY <1>3, <1>4 DEF S

NoDots(segs) == \A i \in DOMAIN segs : ~IsDotSegment(segs[i])

\* Segments without dots behind the host leave what is before them as it is.
LEMMA WithoutDotsConcat ==
  ASSUME NEW T, NEW a \in Words(T)
  PROVE  \A b \in Words(T) : NoDots(b) => WithoutDots(a \o b) = WithoutDots(a) \o b
  <1> DEFINE W == Seq(T)
             S == {b \in Words(T) : NoDots(b) => WithoutDots(a \o b) = WithoutDots(a) \o b}
  <1>1. WithoutDots(a) \in Words(T)
    BY WithoutDotsType
  <1>2. <<>> \in S
    BY <1>1, EmptySeq, ConcatEmptySeq DEF Words
  <1>3. ASSUME NEW b \in Words(T), NEW seg \in W, b \in S PROVE Append(b, seg) \in S
    <2>1. Append(b, seg) \in Words(T)
      BY AppendProperties DEF Words
    <2> SUFFICES ASSUME NoDots(Append(b, seg))
                 PROVE  WithoutDots(a \o Append(b, seg)) = WithoutDots(a) \o Append(b, seg)
      BY <2>1
    <2>2. NoDots(b) /\ ~IsDotSegment(seg)
      <3>1. \A i \in DOMAIN b : i \in DOMAIN Append(b, seg) /\ Append(b, seg)[i] = b[i]
        BY DEF Words
      <3>2. Len(b) + 1 \in DOMAIN Append(b, seg) /\ Append(b, seg)[Len(b) + 1] = seg
        BY DEF Words
      <3> QED
        BY <3>1, <3>2 DEF NoDots
    <2>3. \A x \in Words(T) : x \o Append(b, seg) = Append(x \o b, seg) /\ x \o b \in Words(T)
      BY AppendWord
    <2>4. WithoutDots(Append(a \o b, seg)) = RemoveDots(WithoutDots(a \o b), seg)
      BY <2>3, WithoutDotsAppend
    <2>5. RemoveDots(WithoutDots(a \o b), seg) = Append(WithoutDots(a \o b), seg)
      BY <2>2 DEF RemoveDots, IsDotSegment
    <2>6. WithoutDots(a \o b) = WithoutDots(a) \o b
      BY <1>3, <2>2
    <2> QED
      BY <1>1, <2>3, <2>4, <2>5, <2>6
  <1>4. Words(T) = Seq(W)
    BY DEF Words
  <1> HIDE DEF S, W
  <1>5. \A b \in Seq(W) : b \in S
    BY <1>2, <1>3, <1>4, SeqInduction
  <1> QED
    BY <1>4, <1>5 DEF S

-------------------------------------------------------------------------------
\* Requests under an ENDPOINT

\* Where a URL without its trailing slashes ends.
Ends(url) == {0} \cup {i \in DOMAIN url : url[i] # "/"}

LEMMA EndType ==
  ASSUME NEW T, NEW url \in Seq(T)
  PROVE  /\ Max(Ends(url)) \in Ends(url) /\ Max(Ends(url)) \in 0..Len(url)
         /\ \A i \in DOMAIN url : url[i] # "/" => i <= Max(Ends(url))
  <1>1. Ends(url) \in SUBSET Int /\ Ends(url) # {} /\ \A i \in Ends(url) : i \in 0..Len(url)
    BY DEF Ends
  <1>2. Max(Ends(url)) \in Ends(url) /\ \A i \in Ends(url) : i <= Max(Ends(url))
    <2>1. Len(url) \in Int /\ \A i \in Ends(url) : i <= Len(url)
      BY <1>1
    <2> QED
      BY <1>1, <2>1, MaxOfBounded
  <1>3. \A i \in DOMAIN url : url[i] # "/" => i \in Ends(url)
    BY DEF Ends
  <1> QED
    BY <1>1, <1>2, <1>3

LEMMA WithoutTrailingSlashesType ==
  ASSUME NEW T, NEW url \in Seq(T)
  PROVE  WithoutTrailingSlashes(url) \in Seq(T)
  <1>1. Max(Ends(url)) \in 0..Len(url)
    BY EndType
  <1>2. SubSeq(url, 1, Max(Ends(url))) \in Seq(T)
    BY <1>1
  <1> QED
    BY <1>2 DEF WithoutTrailingSlashes, Ends

\* The slash that the profile drops is one of the trailing ones.
LEMMA ProfileTrims ==
  ASSUME NEW T, NEW url \in Seq(T)
  PROVE  /\ ProfileEndpoint(url) \in Seq(T)
         /\ WithoutTrailingSlashes(ProfileEndpoint(url)) = WithoutTrailingSlashes(url)
  <1>1. CASE url # <<>> /\ Last(url) = "/"
    <2>1. Front(url) \in Seq(T) /\ Len(Front(url)) = Len(url) - 1 /\ Len(url) \in Nat \ {0}
      BY <1>1, FrontLastType, EmptySeq
    <2>2. \A i \in 1..Len(url) - 1 : Front(url)[i] = url[i]
      BY <2>1 DEF Front
    <2>3. Ends(Front(url)) = Ends(url)
      BY <1>1, <2>1, <2>2 DEF Ends, Last
    <2>4. PICK m \in 0..Len(url) - 1 : m = Max(Ends(url))
      BY <2>1, <2>3, EndType
    <2>5. SubSeq(Front(url), 1, m) = SubSeq(url, 1, m)
      BY <2>1, <2>2
    <2>6. WithoutTrailingSlashes(Front(url)) = WithoutTrailingSlashes(url)
      BY <2>3, <2>4, <2>5 DEF WithoutTrailingSlashes, Ends
    <2> QED
      BY <1>1, <2>1, <2>6 DEF ProfileEndpoint
  <1> QED
    BY <1>1 DEF ProfileEndpoint

LEMMA PrefixSplits ==
  ASSUME NEW T, NEW p \in Seq(T), NEW t \in Seq(T), IsPrefix(p, t)
  PROVE  t = p \o SubSeq(t, Len(p) + 1, Len(t))
  <1>1. Len(p) \in Nat /\ Len(t) \in Nat /\ Len(p) <= Len(t)
    BY DEF IsPrefix
  <1>2. p = SubSeq(t, 1, Len(p)) /\ t = SubSeq(t, 1, Len(t))
    BY SubSeqFull DEF IsPrefix
  <1>3. 1 \in 1..Len(t) + 1 /\ Len(p) \in 1 - 1..Len(t) /\ Len(t) \in Len(p)..Len(t)
    BY <1>1
  <1>4. SubSeq(t, 1, Len(p)) \o SubSeq(t, Len(p) + 1, Len(t)) = SubSeq(t, 1, Len(t))
    BY <1>3, ConcatAdjacentSubSeq
  <1> QED
    BY <1>2, <1>4

LEMMA ConcatHasPrefix ==
  ASSUME NEW T, NEW x \in Seq(T), NEW y \in Seq(T)
  PROVE  IsPrefix(x, x \o y) /\ IsPrefix(x, x)
  <1>1. /\ Len(x) <= Len(x \o y) /\ SubSeq(x \o y, 1, Len(x)) = SubSeq(x, 1, Len(x))
    OBVIOUS
  <1> QED
    BY <1>1 DEF IsPrefix

\* A URL with a scheme and a host has a segment for each, and one between them.
LEMMA SchemeAndHostSegments ==
  ASSUME NEW T, "/" \in T, NEW base \in Seq(T), HasSchemeAndHost(base)
  PROVE  Len(Segments(base)) >= 3
  <1>1. /\ Len(base) > 3 /\ base[1] = Scheme /\ base[2] = "/" /\ base[3] = "/"
        /\ Scheme \in T
    <2> DEFINE p == SubSeq(base, 1, 3)
    <2>1. Len(base) > 3 /\ p = <<Scheme, "/", "/">>
      BY DEF HasSchemeAndHost
    <2>2. p[1] = base[1] /\ p[2] = base[2] /\ p[3] = base[3] /\ base[1] \in T
      BY <2>1
    <2> HIDE DEF p
    <2>3. p[1] = Scheme /\ p[2] = "/" /\ p[3] = "/"
      BY <2>1
    <2> QED
      BY <2>1, <2>2, <2>3
  <1> DEFINE rest   == SubSeq(base, 4, Len(base))
             scheme == <<Scheme>>
             slash  == <<"/">>
             behind == <<>> \o slash \o rest
  <1>2. rest \in Seq(T) /\ Len(rest) = Len(base) - 3 /\ \A i \in 1..Len(rest) : rest[i] = base[i + 3]
    <2>1. \A i \in 4..Len(base) : base[i] \in T
      OBVIOUS
    <2>2. 4 \in Int /\ Len(base) \in Int /\ 4 <= Len(base)
      BY <1>1
    <2> QED
      BY <2>1, <2>2, SubSeqProperties
  <1>3. scheme \in Seq(T) /\ slash \in Seq(T) /\ <<>> \in Seq(T)
    BY <1>1
  <1> HIDE DEF rest
  <1>4. behind \in Seq(T) /\ Len(behind) = Len(rest) + 1
    BY <1>2, <1>3
  <1>5. behind[1] = "/" /\ \A i \in 2..Len(behind) : behind[i] = base[i + 2]
    BY <1>2
  <1> HIDE DEF behind
  <1>6. base = scheme \o slash \o behind
    <2>1. /\ scheme \o slash \o behind \in Seq(T)
          /\ Len(scheme \o slash \o behind) = Len(base)
          /\ \A i \in 1..Len(base) :
                (scheme \o slash \o behind)[i] =
                   IF i = 1 THEN Scheme ELSE IF i = 2 THEN "/" ELSE behind[i - 2]
      BY <1>1, <1>2, <1>3, <1>4
    <2>2. ASSUME NEW i \in 3..Len(base) PROVE behind[i - 2] = base[i]
      <3>1. CASE i = 3
        BY <1>1, <1>5, <3>1
      <3>2. CASE i > 3
        <4>1. i - 2 \in 2..Len(behind) /\ (i - 2) + 2 = i
          BY <1>2, <1>4, <3>2
        <4> QED
          BY <1>5, <4>1
      <3> QED
        BY <3>1, <3>2
    <2>3. \A i \in 1..Len(base) : i = 1 \/ i = 2 \/ i \in 3..Len(base)
      OBVIOUS
    <2>4. \A i \in 1..Len(base) : base[i] = (scheme \o slash \o behind)[i]
      BY <1>1, <2>1, <2>2, <2>3
    <2> QED
      BY <2>1, <2>4, SeqEqual
  <1>7. Segments(base) = Segments(scheme) \o (Segments(<<>>) \o Segments(rest))
    <2>1. Segments(scheme \o slash \o behind) = Segments(scheme) \o Segments(behind)
      BY <1>3, <1>4, SegmentsConcat
    <2>2. Segments(<<>> \o slash \o rest) = Segments(<<>>) \o Segments(rest)
      BY <1>2, <1>3, SegmentsConcat
    <2> QED
      BY <1>6, <2>1, <2>2 DEF behind
  <1>8. \A s \in Seq(T) : Segments(s) \in Seq(Seq(T)) /\ Len(Segments(s)) >= 1
    <2>1. \A x \in Seq(Seq(T)) : x # <<>> => Len(x) >= 1
      BY EmptySeq
    <2> QED
      BY <2>1, SegmentsType DEF Words
  <1>9. \A x, y, z \in Seq(Seq(T)) : Len(x \o (y \o z)) = Len(x) + Len(y) + Len(z)
    OBVIOUS
  <1>10. /\ Segments(scheme) \in Seq(Seq(T)) /\ Len(Segments(scheme)) >= 1
         /\ Segments(<<>>) \in Seq(Seq(T)) /\ Len(Segments(<<>>)) >= 1
         /\ Segments(rest) \in Seq(Seq(T)) /\ Len(Segments(rest)) >= 1
    BY <1>2, <1>3, <1>8
  <1>11. /\ Len(Segments(base)) = Len(Segments(scheme)) + Len(Segments(<<>>)) + Len(Segments(rest))
         /\ Len(Segments(scheme)) \in Nat /\ Len(Segments(<<>>)) \in Nat
         /\ Len(Segments(rest)) \in Nat
    BY <1>7, <1>9, <1>10
  <1> QED
    BY <1>10, <1>11

\* u is a, or is a with segments behind it that are no dots.
IsBelow(T, a, u) ==
    u = a \/ \E r \in Seq(T) : u = a \o <<"/">> \o r /\ NoDots(Segments(r))

LEMMA NoDotsConcat ==
  ASSUME NEW T, NEW x \in Words(T), NEW y \in Words(T)
  PROVE  NoDots(x) /\ NoDots(y) <=> NoDots(x \o y)
  <1>1. /\ Len(x) \in Nat /\ Len(y) \in Nat /\ DOMAIN (x \o y) = 1..Len(x) + Len(y)
        /\ DOMAIN x = 1..Len(x) /\ DOMAIN y = 1..Len(y)
        /\ \A i \in 1..Len(x) : (x \o y)[i] = x[i] /\ i \in 1..Len(x) + Len(y)
        /\ \A i \in 1..Len(y) : (x \o y)[Len(x) + i] = y[i] /\ Len(x) + i \in 1..Len(x) + Len(y)
    BY DEF Words
  <1>2. ASSUME NoDots(x), NoDots(y), NEW i \in 1..Len(x) + Len(y)
        PROVE  ~IsDotSegment((x \o y)[i])
    <2>1. CASE i \in 1..Len(x)
      BY <1>1, <1>2, <2>1 DEF NoDots
    <2>2. CASE i \notin 1..Len(x)
      <3>1. PICK j \in 1..Len(y) : i = Len(x) + j
        <4>1. i - Len(x) \in 1..Len(y) /\ i = Len(x) + (i - Len(x))
          BY <1>1, <2>2
        <4> QED
          BY <4>1
      <3> QED
        BY <1>1, <1>2, <3>1 DEF NoDots
    <2> QED
      BY <2>1, <2>2
  <1>3. ASSUME NoDots(x \o y) PROVE NoDots(x) /\ NoDots(y)
    BY <1>1, <1>3 DEF NoDots
  <1> QED
    BY <1>1, <1>2, <1>3 DEF NoDots

\* Pieces are put together from either end.
Join(x, y) == x \o y

LEMMA JoinAssociative ==
  ASSUME NEW T, NEW x \in Seq(T), NEW y \in Seq(T), NEW z \in Seq(T)
  PROVE  Join(Join(x, y), z) = Join(x, Join(y, z)) /\ Join(x, y) \in Seq(T)
  <1>1. (x \o y) \o z = x \o (y \o z)
    BY ConcatAssociative
  <1>2. x \o y \in Seq(T)
    OBVIOUS
  <1> QED
    BY <1>1, <1>2 DEF Join

LEMMA JoinTwice ==
  ASSUME NEW T, NEW a \in Seq(T), NEW h \in Seq(T), NEW r \in Seq(T), NEW s \in Seq(T)
  PROVE  Join(Join(Join(Join(a, h), r), h), s) = Join(Join(a, h), Join(Join(r, h), s))
  <1>1. Join(a, h) \in Seq(T) /\ Join(r, h) \in Seq(T)
    BY JoinAssociative
  <1>2. Join(Join(Join(a, h), r), h) = Join(Join(a, h), Join(r, h))
    BY <1>1, JoinAssociative
  <1>3. Join(Join(Join(a, h), Join(r, h)), s) = Join(Join(a, h), Join(Join(r, h), s))
    BY <1>1, JoinAssociative
  <1> QED
    BY <1>2, <1>3

LEMMA BelowTransitive ==
  ASSUME NEW T, "/" \in T, NEW a \in Seq(T), NEW b \in Seq(T), NEW c \in Seq(T),
         IsBelow(T, a, b), IsBelow(T, b, c)
  PROVE  IsBelow(T, a, c)
  <1>1. CASE b = a \/ c = b
    BY <1>1
  <1>2. CASE b # a /\ c # b
    <2>1. PICK r \in Seq(T) : b = a \o <<"/">> \o r /\ NoDots(Segments(r))
      BY <1>2 DEF IsBelow
    <2>2. PICK s \in Seq(T) : c = b \o <<"/">> \o s /\ NoDots(Segments(s))
      BY <1>2 DEF IsBelow
    <2> DEFINE slash == <<"/">>
               rs == r \o slash \o s
    <2>3. slash \in Seq(T) /\ rs \in Seq(T)
      OBVIOUS
    <2>4. c = a \o slash \o rs
      <3>1. slash \in Seq(T)
        OBVIOUS
      <3>2. c = Join(Join(Join(Join(a, slash), r), slash), s)
        BY <2>1, <2>2 DEF Join
      <3> HIDE DEF slash
      <3>3. c = Join(Join(a, slash), Join(Join(r, slash), s))
        BY <3>1, <3>2, JoinTwice
      <3> QED
        BY <3>3 DEF Join
    <2>5. Segments(rs) = Segments(r) \o Segments(s)
      BY SegmentsConcat
    <2>6. NoDots(Segments(rs))
      BY <2>1, <2>2, <2>5, SegmentsType, NoDotsConcat
    <2> QED
      BY <2>3, <2>4, <2>6 DEF IsBelow
  <1> QED
    BY <1>1, <1>2

\* What is below a begins, once dot segments are taken out, with what a becomes.
LEMMA BelowIsUnder ==
  ASSUME NEW T, "/" \in T, NEW a \in Seq(T), NEW u \in Seq(T), IsBelow(T, a, u)
  PROVE  IsPrefix(WithoutDots(Segments(a)), WithoutDots(Segments(u)))
  <1>1. Segments(a) \in Words(T) /\ WithoutDots(Segments(a)) \in Words(T)
    BY SegmentsType, WithoutDotsType
  <1>2. CASE u = a
    BY <1>1, <1>2, ConcatHasPrefix DEF Words
  <1>3. CASE u # a
    <2>1. PICK r \in Seq(T) : u = a \o <<"/">> \o r /\ NoDots(Segments(r))
      BY <1>3 DEF IsBelow
    <2>2. Segments(u) = Segments(a) \o Segments(r) /\ Segments(r) \in Words(T)
      BY <2>1, SegmentsConcat, SegmentsType
    <2>3. WithoutDots(Segments(u)) = WithoutDots(Segments(a)) \o Segments(r)
      BY <1>1, <2>1, <2>2, WithoutDotsConcat
    <2> QED
      BY <1>1, <2>2, <2>3, ConcatHasPrefix DEF Words
  <1> QED
    BY <1>2, <1>3

\* Slashes make empty segments.
LEMMA SlashesNoDots ==
  ASSUME NEW T
  PROVE  \A r \in Seq(T) : (\A i \in DOMAIN r : r[i] = "/") => NoDots(Segments(r))
  <1> DEFINE AllSlashes(r) == \A i \in DOMAIN r : r[i] = "/"
             S == {r \in Seq(T) : AllSlashes(r) => NoDots(Segments(r))}
  <1>1. ~IsDotSegment(<<>>)
    BY DEF IsDotSegment, IsDot, IsDotDot
  <1>2. <<>> \in S
    <2>1. NoDots(<<<<>>>>)
      BY <1>1 DEF NoDots
    <2> QED
      BY <2>1, SegmentsEmpty, EmptySeq
  <1>3. ASSUME NEW r \in Seq(T), NEW e \in T, r \in S PROVE Append(r, e) \in S
    <2>0. Append(r, e) \in Seq(T)
      OBVIOUS
    <2> SUFFICES ASSUME AllSlashes(Append(r, e)) PROVE NoDots(Segments(Append(r, e)))
      BY <2>0
    <2>1. \A i \in DOMAIN r : i \in DOMAIN Append(r, e) /\ Append(r, e)[i] = r[i]
      OBVIOUS
    <2>2. Len(r) + 1 \in DOMAIN Append(r, e) /\ Append(r, e)[Len(r) + 1] = e
      OBVIOUS
    <2>3. AllSlashes(r) /\ e = "/"
      BY <2>1, <2>2
    <2>4. NoDots(Segments(r))
      BY <1>3, <2>3
    <2>5. Segments(Append(r, e)) = Append(Segments(r), <<>>)
      BY <2>3, SegmentsAppend DEF Split
    <2>6. Segments(r) \in Words(T)
      BY SegmentsType
    <2>7. \A x \in Words(T) : NoDots(x) => NoDots(Append(x, <<>>))
      <3> SUFFICES ASSUME NEW x \in Words(T), NoDots(x), NEW i \in DOMAIN Append(x, <<>>)
                   PROVE  ~IsDotSegment(Append(x, <<>>)[i])
        BY DEF NoDots
      <3>1. \/ i \in DOMAIN x /\ Append(x, <<>>)[i] = x[i]
            \/ Append(x, <<>>)[i] = <<>>
        BY DEF Words
      <3> QED
        BY <1>1, <3>1 DEF NoDots
    <2> QED
      BY <2>4, <2>5, <2>6, <2>7
  <1> HIDE DEF S
  <1>4. \A r \in Seq(T) : r \in S
    BY <1>2, <1>3, SeqInduction
  <1> QED
    BY <1>4 DEF S

\* A sequence from its element at i on begins with that element.
LEMMA TailSplits ==
  ASSUME NEW T, NEW s \in Seq(T), NEW i \in 1..Len(s)
  PROVE  /\ SubSeq(s, i, Len(s)) = <<s[i]>> \o SubSeq(s, i + 1, Len(s))
         /\ SubSeq(s, i + 1, Len(s)) \in Seq(T)
  <1>1. /\ SubSeq(s, i, Len(s)) \in Seq(T) /\ Len(SubSeq(s, i, Len(s))) = Len(s) - i + 1
        /\ \A j \in 1..Len(s) - i + 1 : SubSeq(s, i, Len(s))[j] = s[i + j - 1]
    BY SubSeqProperties
  <1>2. /\ SubSeq(s, i + 1, Len(s)) \in Seq(T) /\ Len(SubSeq(s, i + 1, Len(s))) = Len(s) - i
        /\ \A j \in 1..Len(s) - i : SubSeq(s, i + 1, Len(s))[j] = s[i + j]
    OBVIOUS
  <1> DEFINE tail == SubSeq(s, i + 1, Len(s))
             both == <<s[i]>> \o tail
  <1> HIDE DEF tail
  <1>3. /\ both \in Seq(T) /\ Len(both) = Len(s) - i + 1
        /\ \A j \in 1..Len(s) - i + 1 : both[j] = IF j = 1 THEN s[i] ELSE tail[j - 1]
    BY <1>2 DEF tail
  <1> HIDE DEF both
  <1>4. \A j \in 1..Len(s) - i + 1 : both[j] = SubSeq(s, i, Len(s))[j]
    <2> SUFFICES ASSUME NEW j \in 1..Len(s) - i + 1 PROVE both[j] = s[i + j - 1]
      BY <1>1
    <2>1. CASE j = 1
      BY <1>3, <2>1
    <2>2. CASE j # 1
      <3>1. j - 1 \in 1..Len(s) - i /\ i + (j - 1) = i + j - 1
        BY <2>2
      <3> QED
        BY <1>2, <1>3, <2>2, <3>1 DEF tail
    <2> QED
      BY <2>1, <2>2
  <1>5. both = SubSeq(s, i, Len(s))
    BY <1>1, <1>3, <1>4, SeqEqual
  <1> QED
    BY <1>2, <1>5 DEF both, tail

LEMMA TrimmedIsAbove ==
  ASSUME NEW T, "/" \in T, NEW url \in Seq(T)
  PROVE  IsBelow(T, WithoutTrailingSlashes(url), url)
  <1>1. PICK m \in 0..Len(url) : m = Max(Ends(url))
    BY EndType
  <1>2. WithoutTrailingSlashes(url) = SubSeq(url, 1, m)
    BY <1>1 DEF WithoutTrailingSlashes, Ends
  <1>3. CASE m = Len(url)
    <2>1. SubSeq(url, 1, Len(url)) = url
      BY SubSeqFull
    <2> QED
      BY <1>2, <1>3, <2>1 DEF IsBelow
  <1>4. CASE m # Len(url)
    <2> DEFINE r == SubSeq(url, (m + 1) + 1, Len(url))
    <2>1. m + 1 \in 1..Len(url)
      BY <1>4
    <2>2. url[m + 1] = "/"
      BY <1>1, <2>1, EndType
    <2>3. SubSeq(url, m + 1, Len(url)) = <<"/">> \o r /\ r \in Seq(T)
      BY <2>1, <2>2, TailSplits
    <2>4. url = SubSeq(url, 1, m) \o SubSeq(url, m + 1, Len(url)) /\ SubSeq(url, 1, m) \in Seq(T)
      <3>1. SubSeq(url, 1, m) \in Seq(T) /\ Len(SubSeq(url, 1, m)) = m
        OBVIOUS
      <3>2. IsPrefix(SubSeq(url, 1, m), url)
        BY <3>1 DEF IsPrefix
      <3> QED
        BY <3>1, <3>2, PrefixSplits
    <2>5. NoDots(Segments(r))
      <3>1. \A i \in DOMAIN r : r[i] = "/"
        <4>1. Len(r) = Len(url) - (m + 1) /\ \A i \in 1..Len(r) : r[i] = url[i + (m + 1)]
          BY <2>1
        <4>2. \A i \in 1..Len(r) : i + (m + 1) \in DOMAIN url /\ ~(i + (m + 1) <= m)
          BY <2>1, <4>1
        <4>3. DOMAIN r = 1..Len(r)
          BY <2>3
        <4> HIDE DEF r
        <4> QED
          BY <1>1, <4>1, <4>2, <4>3, EndType
      <3> QED
        BY <2>3, <3>1, SlashesNoDots
    <2> HIDE DEF r
    <2>6. PICK x \in Seq(T) : x = SubSeq(url, 1, m)
      BY <2>4
    <2>7. url = x \o <<"/">> \o r
      <3> DEFINE slash == <<"/">>
      <3>1. slash \in Seq(T)
        OBVIOUS
      <3>2. url = Join(x, Join(slash, r))
        BY <2>3, <2>4, <2>6 DEF Join
      <3> HIDE DEF slash
      <3>3. url = Join(Join(x, slash), r)
        <4>1. r \in Seq(T)
          BY <2>3
        <4> QED
          BY <3>1, <3>2, <4>1, JoinAssociative
      <3> QED
        BY <3>3 DEF Join, slash
    <2> QED
      BY <1>2, <2>3, <2>5, <2>6, <2>7 DEF IsBelow
  <1> QED
    BY <1>3, <1>4

\* An endpoint that a secret covers is below its ENDPOINT, which has a host.
LEMMA CoveredIsBelow ==
  ASSUME NEW T, "/" \in T, NEW own \in Seq(T), NEW asked \in Seq(T),
         EndpointCovers(own, asked)
  PROVE  /\ HasSchemeAndHost(WithoutTrailingSlashes(own))
         /\ IsBelow(T, WithoutTrailingSlashes(own), WithoutTrailingSlashes(asked))
  <1>1. PICK base \in Seq(T) : base = WithoutTrailingSlashes(own)
    BY WithoutTrailingSlashesType
  <1>2. PICK target \in Seq(T) : target = WithoutTrailingSlashes(asked)
    BY WithoutTrailingSlashesType
  <1>3. /\ HasSchemeAndHost(base)
        /\ \/ target = base
           \/ /\ IsPrefix(Append(base, "/"), target)
              /\ \A seg \in ToSet(Segments(SubSeq(target, Len(base) + 2, Len(target)))) :
                    ~IsDotSegment(seg)
    BY <1>1, <1>2 DEF EndpointCovers
  <1>4. CASE target = base
    BY <1>1, <1>2, <1>3, <1>4 DEF IsBelow
  <1>5. CASE /\ IsPrefix(Append(base, "/"), target)
             /\ \A seg \in ToSet(Segments(SubSeq(target, Len(base) + 2, Len(target)))) :
                   ~IsDotSegment(seg)
    <2> DEFINE slash == base \o <<"/">>
               r == SubSeq(target, Len(base) + 2, Len(target))
    <2>1. slash \in Seq(T) /\ Len(slash) = Len(base) + 1
      OBVIOUS
    <2>2. slash = Append(base, "/")
      BY AppendIsConcat
    <2>3. r \in Seq(T)
      <3>1. \A i \in Len(base) + 2..Len(target) : target[i] \in T
        OBVIOUS
      <3>2. Len(base) + 2 \in Int /\ Len(target) \in Int
        OBVIOUS
      <3> QED
        BY <3>1, <3>2, SubSeqProperties
    <2> HIDE DEF slash, r
    <2>4. target = base \o <<"/">> \o r
      <3>1. target = slash \o SubSeq(target, Len(slash) + 1, Len(target))
        BY <1>5, <2>1, <2>2, PrefixSplits
      <3>2. Len(slash) + 1 = Len(base) + 2
        BY <2>1
      <3> QED
        BY <3>1, <3>2 DEF slash, r
    <2>5. NoDots(Segments(r))
      BY <1>5 DEF NoDots, ToSet, r
    <2> QED
      BY <1>1, <1>2, <1>3, <2>3, <2>4, <2>5 DEF IsBelow
  <1> QED
    BY <1>3, <1>4, <1>5

-------------------------------------------------------------------------------
\* Paths, queries and fragments

PlainStarts(url) == {n \in 0..Len(url) : \A i \in 1..n : url[i] \notin Marks}

LEMMA PlainStartType ==
  ASSUME NEW T, NEW url \in Seq(T)
  PROVE  /\ Max(PlainStarts(url)) \in PlainStarts(url) /\ Max(PlainStarts(url)) \in 0..Len(url)
         /\ \A n \in PlainStarts(url) : n <= Max(PlainStarts(url))
  <1>1. /\ PlainStarts(url) \in SUBSET Int /\ 0 \in PlainStarts(url)
        /\ \A n \in PlainStarts(url) : n \in 0..Len(url)
    BY DEF PlainStarts
  <1>2. Len(url) \in Int /\ PlainStarts(url) # {} /\ \A n \in PlainStarts(url) : n <= Len(url)
    BY <1>1
  <1>3. /\ Max(PlainStarts(url)) \in PlainStarts(url)
        /\ \A n \in PlainStarts(url) : n <= Max(PlainStarts(url))
    BY <1>1, <1>2, MaxOfBounded
  <1> QED
    BY <1>1, <1>3

LEMMA BeforeQueryType ==
  ASSUME NEW T, NEW url \in Seq(T)
  PROVE  BeforeQuery(url) \in Seq(T)
  <1>1. SubSeq(url, 1, Max(PlainStarts(url))) \in Seq(T)
    BY PlainStartType
  <1> QED
    BY <1>1 DEF BeforeQuery, PlainStarts

\* What is added to a plain endpoint ends where it would end on its own.
LEMMA PlainAppended ==
  ASSUME NEW T, NEW e \in Seq(T), NEW p \in Seq(T), IsPlain(e)
  PROVE  BeforeQuery(e \o p) = e \o BeforeQuery(p)
  <1> DEFINE url == e \o p
  <1>1. PICK m \in 0..Len(p) : m = Max(PlainStarts(p))
    BY PlainStartType
  <1>2. /\ url \in Seq(T) /\ Len(url) = Len(e) + Len(p)
        /\ \A i \in 1..Len(e) : url[i] = e[i]
        /\ \A i \in 1..Len(p) : url[Len(e) + i] = p[i]
    OBVIOUS
  <1>3. \A i \in 1..Len(e) : e[i] \notin Marks
    BY DEF IsPlain, ToSet
  <1> HIDE DEF url
  <1>4. Len(e) + m \in PlainStarts(url)
    <2>1. \A i \in 1..m : p[i] \notin Marks
      BY <1>1, PlainStartType DEF PlainStarts
    <2>2. ASSUME NEW i \in 1..Len(e) + m PROVE url[i] \notin Marks
      <3>1. CASE i \in 1..Len(e)
        BY <1>2, <1>3, <3>1
      <3>2. CASE i \notin 1..Len(e)
        <4>1. i - Len(e) \in 1..m /\ i - Len(e) \in 1..Len(p) /\ i = Len(e) + (i - Len(e))
          BY <3>2
        <4> QED
          BY <1>2, <2>1, <4>1
      <3> QED
        BY <3>1, <3>2
    <2>3. Len(e) + m \in 0..Len(url)
      BY <1>2
    <2> QED
      BY <2>2, <2>3 DEF PlainStarts
  <1>5. \A n \in PlainStarts(url) : n <= Len(e) + m
    <2> SUFFICES ASSUME NEW n \in PlainStarts(url), n > Len(e) + m PROVE FALSE
      BY DEF PlainStarts
    <2>1. n \in 0..Len(url) /\ \A i \in 1..n : url[i] \notin Marks
      BY DEF PlainStarts
    <2>2. n - Len(e) \in 0..Len(p) /\ n - Len(e) > m
      BY <1>2, <2>1
    <2>3. \A i \in 1..n - Len(e) : i \in 1..Len(p) /\ Len(e) + i \in 1..n
      BY <2>1, <2>2
    <2>4. \A i \in 1..n - Len(e) : p[i] \notin Marks
      BY <1>2, <2>1, <2>3
    <2>5. n - Len(e) \in PlainStarts(p)
      BY <2>2, <2>4 DEF PlainStarts
    <2> QED
      BY <1>1, <2>2, <2>5, PlainStartType
  <1>6. Max(PlainStarts(url)) = Len(e) + m
    <2>1. /\ Max(PlainStarts(url)) \in PlainStarts(url) /\ Max(PlainStarts(url)) \in 0..Len(url)
          /\ \A n \in PlainStarts(url) : n <= Max(PlainStarts(url))
      BY <1>2, PlainStartType
    <2>2. Len(e) + m <= Max(PlainStarts(url)) /\ Max(PlainStarts(url)) <= Len(e) + m
      BY <1>4, <1>5, <2>1
    <2>3. Len(e) + m \in Int /\ Max(PlainStarts(url)) \in Int
      BY <1>2, <2>1
    <2> QED
      BY <2>2, <2>3
  <1>7. SubSeq(url, 1, Len(e) + m) = e \o SubSeq(p, 1, m)
    <2> DEFINE x == SubSeq(url, 1, Len(e) + m)
               q == SubSeq(p, 1, m)
    <2>1. q \in Seq(T) /\ Len(q) = m /\ \A i \in 1..m : q[i] = p[i]
      OBVIOUS
    <2>2. x \in Seq(T) /\ Len(x) = Len(e) + m /\ \A i \in 1..Len(e) + m : x[i] = url[i]
      BY <1>2
    <2> HIDE DEF x, q
    <2>3. /\ e \o q \in Seq(T) /\ Len(e \o q) = Len(e) + m
          /\ \A i \in 1..Len(e) + m : (e \o q)[i] = IF i <= Len(e) THEN e[i] ELSE q[i - Len(e)]
      BY <2>1
    <2>4. ASSUME NEW i \in 1..Len(e) + m PROVE x[i] = (e \o q)[i]
      <3>0. i <= Len(e) \/ i > Len(e)
        OBVIOUS
      <3>1. CASE i <= Len(e)
        BY <1>2, <2>2, <2>3, <3>1
      <3>2. CASE i > Len(e)
        <4>1. i - Len(e) \in 1..m /\ i - Len(e) \in 1..Len(p) /\ i = Len(e) + (i - Len(e))
          BY <3>2
        <4> QED
          BY <1>2, <2>1, <2>2, <2>3, <3>2, <4>1
      <3> QED
        BY <3>0, <3>1, <3>2
    <2>5. x = e \o q
      BY <2>2, <2>3, <2>4, SeqEqual
    <2> QED
      BY <2>5 DEF x, q
  <1>8. BeforeQuery(url) = SubSeq(url, 1, Max(PlainStarts(url)))
    BY DEF BeforeQuery, PlainStarts
  <1>9. BeforeQuery(p) = SubSeq(p, 1, m)
    BY <1>1 DEF BeforeQuery, PlainStarts
  <1> QED
    BY <1>6, <1>7, <1>8, <1>9 DEF url

\* A plain endpoint has no query to leave out.
LEMMA PlainStays ==
  ASSUME NEW T, NEW e \in Seq(T), IsPlain(e)
  PROVE  BeforeQuery(e) = e
  <1>1. <<>> \in Seq(T) /\ e \o <<>> = e
    BY EmptySeq, ConcatEmptySeq
  <1>2. BeforeQuery(<<>>) = <<>>
    <2>1. BeforeQuery(<<>>) \in Seq({})
      BY EmptySeq, BeforeQueryType
    <2> QED
      BY <2>1, EmptySeq
  <1> QED
    BY <1>1, <1>2, PlainAppended

\* What is below it makes an endpoint no less plain.
LEMMA PlainAbove ==
  ASSUME NEW T, "/" \in T, NEW a \in Seq(T), NEW u \in Seq(T), IsBelow(T, a, u), IsPlain(u)
  PROVE  IsPlain(a)
  <1>1. CASE u = a
    BY <1>1
  <1>2. CASE u # a
    <2>1. PICK r \in Seq(T) : u = a \o <<"/">> \o r
      BY <1>2 DEF IsBelow
    <2>2. \A i \in DOMAIN a : i \in DOMAIN u /\ u[i] = a[i]
      BY <2>1
    <2> QED
      BY <2>2 DEF IsPlain, ToSet
  <1> QED
    BY <1>1, <1>2

\* What is requested when a path is added to a plain endpoint is below the endpoint.
LEMMA PathIsBelow ==
  ASSUME NEW T, "/" \in T, NEW e \in Seq(T), NEW p \in Seq(T), IsPlain(e), IsWithin(p)
  PROVE  BeforeQuery(BuildUrl(e, p)) \in Seq(T) /\ IsBelow(T, e, BeforeQuery(BuildUrl(e, p)))
  <1>1. PICK path \in Seq(T) : path = BeforeQuery(p)
    BY BeforeQueryType
  <1>2. BeforeQuery(BuildUrl(e, p)) = e \o path
    BY <1>1, PlainAppended DEF BuildUrl
  <1>3. Len(path) \in Nat /\ Len(path) >= 1 /\ path[1] = "/"
    <2>1. Len(p) >= 1 /\ p[1] = "/"
      BY EmptySeq DEF IsWithin
    <2>2. 1 \in PlainStarts(p)
      <3>1. "/" \notin Marks
        BY DEF Marks
      <3> QED
        BY <2>1, <3>1 DEF PlainStarts
    <2>3. PICK m \in 0..Len(p) : m = Max(PlainStarts(p)) /\ m >= 1
      BY <2>2, PlainStartType
    <2>4. path = SubSeq(p, 1, m)
      BY <1>1, <2>3 DEF BeforeQuery, PlainStarts
    <2> QED
      BY <2>1, <2>3, <2>4
  <1> DEFINE r == SubSeq(path, 1 + 1, Len(path))
  <1>4. path = <<"/">> \o r /\ r \in Seq(T)
    <2>1. path = SubSeq(path, 1, Len(path))
      BY SubSeqFull
    <2> QED
      BY <1>3, <2>1, TailSplits
  <1> HIDE DEF r
  <1>5. NoDots(Segments(path))
    BY <1>1 DEF IsWithin, NoDots, ToSet
  <1>6. Segments(path) = Segments(<<>>) \o Segments(r)
    <2>1. <<>> \in Seq(T) /\ <<>> \o <<"/">> = <<"/">>
      BY EmptySeq
    <2>2. Segments(<<>> \o <<"/">> \o r) = Segments(<<>>) \o Segments(r)
      BY <1>4, <2>1, SegmentsConcat
    <2> QED
      BY <1>4, <2>1, <2>2
  <1>7. NoDots(Segments(r))
    <2>1. Segments(<<>>) \in Words(T) /\ Segments(r) \in Words(T)
      BY <1>4, EmptySeq, SegmentsType
    <2> QED
      BY <1>5, <1>6, <2>1, NoDotsConcat
  <1>8. e \o path = e \o <<"/">> \o r /\ e \o path \in Seq(T)
    <2>1. <<"/">> \in Seq(T)
      OBVIOUS
    <2> QED
      BY <1>4, <2>1, ConcatAssociative, ConcatProperties
  <1> QED
    BY <1>2, <1>4, <1>7, <1>8 DEF IsBelow

-------------------------------------------------------------------------------
\* The secret manager

IsSecret(s) == /\ s.name \in Nat /\ s.storage \in Nat
               /\ \A q \in s.scope : IsUrl(q) /\ q # <<>>

Matched(s, path) == {q \in s.scope : IsPrefix(q, path)}
Lengths(s, path) == {-1} \cup {Len(p) : p \in Matched(s, path)}

\* A score is a number, and without a path no scope is matched.
LEMMA ScoreType ==
  ASSUME NEW s, IsSecret(s), NEW path, IsUrl(path)
  PROVE  /\ Score(s, path) \in Int
         /\ ~Unscoped(s) /\ path = <<>> => Score(s, path) = -1
  <1>1. ASSUME NEW q \in Matched(s, path)
        PROVE  Len(q) \in Nat /\ Len(q) <= Len(path) /\ q # <<>>
    BY <1>1 DEF IsSecret, Matched, IsUrl, IsPrefix
  <1>2. Len(path) \in Nat
    BY DEF IsUrl
  <1>3. /\ Lengths(s, path) \in SUBSET Int /\ Lengths(s, path) # {}
        /\ \A l \in Lengths(s, path) : l <= Len(path)
    <2>1. \A l \in Lengths(s, path) : l = -1 \/ \E q \in Matched(s, path) : l = Len(q)
      BY DEF Lengths
    <2>2. \A l \in Lengths(s, path) : l \in Int /\ l <= Len(path)
      BY <1>1, <1>2, <2>1
    <2> QED
      BY <2>2 DEF Lengths
  <1>4. Max(Lengths(s, path)) \in Lengths(s, path)
    <2>1. Len(path) \in Int /\ \A l \in Lengths(s, path) : l <= Len(path)
      BY <1>2, <1>3
    <2> QED
      BY <1>3, <2>1, MaxOfBounded
  <1>5. Score(s, path) = IF Unscoped(s) THEN 0 ELSE Max(Lengths(s, path))
    BY DEF Score, Lengths, Matched
  <1>6. ASSUME path = <<>> PROVE Lengths(s, path) = {-1}
    <2>1. \A q \in Matched(s, path) : Len(q) <= 0 /\ q \in Seq(ToSet(q))
      BY <1>1, <1>6 DEF Matched, IsSecret, IsUrl
    <2>2. Matched(s, path) = {}
      BY <1>1, <2>1, EmptySeq
    <2> QED
      BY <2>2 DEF Lengths
  <1> QED
    BY <1>3, <1>4, <1>5, <1>6

\* Of two secrets at most one is before the other.
LEMMA RankedOneWay ==
  ASSUME NEW s, NEW t, IsSecret(s), IsSecret(t), NEW path, IsUrl(path),
         RankedBefore(s, t, path)
  PROVE  ~RankedBefore(t, s, path)
  <1>1. Score(s, path) \in Int /\ Score(t, path) \in Int
    BY ScoreType
  <1>2. /\ s.name \in Nat /\ s.storage \in Nat /\ t.name \in Nat /\ t.storage \in Nat
    BY DEF IsSecret
  <1> QED
    BY <1>1, <1>2 DEF RankedBefore

AtMostOne(S) == \A x, y \in S : x = y

LEMMA LookupFindsOne ==
  ASSUME NEW S, \A s \in S : IsSecret(s), NEW path, IsUrl(path)
  PROVE  AtMostOne(LookupSecret(S, path)) /\ LookupSecret(S, path) \subseteq S
  <1> SUFFICES ASSUME NEW s \in LookupSecret(S, path), NEW t \in LookupSecret(S, path), s # t
               PROVE  FALSE
    BY DEF AtMostOne, LookupSecret
  <1>1. s \in S /\ t \in S /\ RankedBefore(s, t, path) /\ RankedBefore(t, s, path)
    BY DEF LookupSecret
  <1> QED
    BY <1>1, RankedOneWay

\* The secret it finds has the best score.
LEMMA LookupFindsBest ==
  ASSUME NEW S, \A s \in S : IsSecret(s), NEW path, IsUrl(path),
         NEW best \in LookupSecret(S, path), NEW s \in S, IsDeltaSharing(s)
  PROVE  Score(best, path) >= Score(s, path)
  <1>1. /\ best \in S /\ Score(best, path) >= 0
        /\ s # best /\ Score(s, path) >= 0 => RankedBefore(best, s, path)
    BY DEF LookupSecret
  <1>2. Score(best, path) \in Int /\ Score(s, path) \in Int
    BY <1>1, ScoreType
  <1> QED
    BY <1>1, <1>2 DEF RankedBefore

-------------------------------------------------------------------------------
\* Resolution

LEMMA CandidatesAreSecrets ==
  /\ \A s \in Candidates : IsSecret(s) /\ IsUrl(s.endpoint)
  /\ \A r \in Requests : IsUrl(r.endpoint)
  /\ IsUrl(<<>>)
  <1>1. ASSUME NEW s \in Candidates PROVE IsSecret(s) /\ IsUrl(s.endpoint)
    <2>1. s.name \in Nat /\ s.storage \in {10, 20} /\ IsUrl(s.endpoint)
      BY SecretResolutionAssumption
    <2>2. \A q \in s.scope : IsUrl(q) /\ q # <<>>
      BY SecretResolutionAssumption
    <2> QED
      BY <2>1, <2>2 DEF IsSecret
  <1>2. \A r \in Requests : IsUrl(r.endpoint)
    BY SecretResolutionAssumption
  <1>3. IsUrl(<<>>)
    BY EmptySeq DEF IsUrl
  <1> QED
    BY <1>1, <1>2, <1>3

\* A call uses a secret of the session, and has no choice between two.
LEMMA ResolvesToOne ==
  ASSUME NEW S \in SUBSET Candidates, IsFiniteSet(S), NEW r \in Requests \cup {NoCall}
  PROVE  /\ AtMostOne(Resolve(S, r))
         /\ \A o \in Resolve(S, r) : o.secret \in S
  <1>1. IsUrl(r.endpoint) /\ \A s \in S : IsSecret(s)
    BY CandidatesAreSecrets DEF NoCall
  <1>2. AtMostOne(ResolveByName(S, r.secret)) /\ ResolveByName(S, r.secret) \subseteq S
    <2> DEFINE named == {s \in S : s.name = r.secret}
    <2>1. named \in SUBSET S
      OBVIOUS
    <2> HIDE DEF named
    <2>2. IsFiniteSet(named)
      BY <2>1, FS_Subset
    <2>3. Cardinality(named) = 1 => AtMostOne(named)
      BY <2>2, FS_Singleton DEF AtMostOne
    <2> QED
      BY <2>1, <2>3 DEF ResolveByName, AtMostOne, named
  <1>3. AtMostOne(ResolveByEndpoint(S, r.endpoint)) /\ ResolveByEndpoint(S, r.endpoint) \subseteq S
    BY <1>1, LookupFindsOne DEF ResolveByEndpoint
  <1>4. AtMostOne(ResolveDefault(S)) /\ ResolveDefault(S) \subseteq S
    <2> DEFINE all == {s \in S : IsDeltaSharing(s)}
               found == LookupSecret(S, <<>>)
    <2>1. AtMostOne(found) /\ found \subseteq S
      BY <1>1, CandidatesAreSecrets, LookupFindsOne
    <2>2. all \in SUBSET S
      OBVIOUS
    <2>3. ResolveDefault(S) = IF found # {} THEN found
                              ELSE IF Cardinality(all) = 1 THEN all ELSE {}
      BY DEF ResolveDefault
    <2> HIDE DEF all, found
    <2>4. Cardinality(all) = 1 => AtMostOne(all)
      BY <2>2, FS_Subset, FS_Singleton DEF AtMostOne
    <2> QED
      BY <2>1, <2>2, <2>3, <2>4 DEF AtMostOne
  <1> DEFINE chosen == IF r.secret # NoName THEN ResolveByName(S, r.secret)
                       ELSE IF r.endpoint # <<>> THEN ResolveByEndpoint(S, r.endpoint)
                       ELSE ResolveDefault(S)
  <1>5. AtMostOne(chosen) /\ chosen \subseteq S
    BY <1>2, <1>3, <1>4
  <1>6. \A o \in Resolve(S, r) : \E s \in chosen :
           o = [secret   |-> s,
                endpoint |-> ProfileEndpoint(IF r.endpoint = <<>> THEN s.endpoint ELSE r.endpoint)]
    BY DEF Resolve
  <1> HIDE DEF chosen
  <1> QED
    BY <1>5, <1>6 DEF AtMostOne

\* Whatever secret a call uses, its requests are under that secret's ENDPOINT.
LEMMA ResolvesUnderEndpoint ==
  ASSUME NEW S \in SUBSET Candidates, IsFiniteSet(S), NEW r \in Requests \cup {NoCall},
         NEW o \in Resolve(S, r), NEW path \in Paths, IsPlain(o.endpoint), IsWithin(path)
  PROVE  LET base == WithoutTrailingSlashes(o.secret.endpoint) IN
         /\ r.endpoint # <<>> => Len(Requested(base)) >= 3
         /\ IsPrefix(Requested(base), Requested(BuildUrl(o.endpoint, path)))
  <1>1. o.secret \in S
    BY ResolvesToOne
  <1>2. /\ r.endpoint # <<>> => EndpointCovers(o.secret.endpoint, r.endpoint)
        /\ o.endpoint = ProfileEndpoint(IF r.endpoint = <<>> THEN o.secret.endpoint
                                        ELSE r.endpoint)
    BY DEF Resolve
  <1>3. IsUrl(o.secret.endpoint) /\ IsUrl(r.endpoint) /\ IsUrl(path)
    <2>1. IsUrl(path)
      BY SecretResolutionAssumption
    <2> QED
      BY <1>1, <2>1, CandidatesAreSecrets DEF NoCall
  <1> DEFINE T == ToSet(o.secret.endpoint) \cup ToSet(r.endpoint) \cup ToSet(path) \cup {"/"}
  <1>4. /\ o.secret.endpoint \in Seq(T) /\ r.endpoint \in Seq(T) /\ path \in Seq(T)
        /\ "/" \in T
    BY <1>3, SeqMonotonic DEF IsUrl
  <1> HIDE DEF T
  <1>5. PICK base \in Seq(T) : base = WithoutTrailingSlashes(o.secret.endpoint)
    BY <1>4, WithoutTrailingSlashesType
  <1>6. PICK asked \in Seq(T) : asked = IF r.endpoint = <<>> THEN o.secret.endpoint ELSE r.endpoint
    BY <1>4
  <1>7. IsBelow(T, base, WithoutTrailingSlashes(asked))
    <2>1. CASE r.endpoint = <<>>
      BY <1>5, <1>6, <2>1 DEF IsBelow
    <2>2. CASE r.endpoint # <<>>
      BY <1>2, <1>4, <1>5, <1>6, <2>2, CoveredIsBelow
    <2> QED
      BY <2>1, <2>2
  <1>8. /\ o.endpoint \in Seq(T) /\ WithoutTrailingSlashes(asked) \in Seq(T)
        /\ IsBelow(T, WithoutTrailingSlashes(asked), o.endpoint)
    <2>1. o.endpoint = ProfileEndpoint(asked)
      BY <1>2, <1>6
    <2>2. /\ o.endpoint \in Seq(T)
          /\ WithoutTrailingSlashes(o.endpoint) = WithoutTrailingSlashes(asked)
      BY <2>1, ProfileTrims
    <2> QED
      BY <1>4, <2>2, TrimmedIsAbove, WithoutTrailingSlashesType
  <1>9. IsBelow(T, base, o.endpoint)
    BY <1>4, <1>7, <1>8, BelowTransitive
  <1>10. PICK url \in Seq(T) : url = BeforeQuery(BuildUrl(o.endpoint, path))
                               /\ IsBelow(T, o.endpoint, url)
    BY <1>4, <1>8, PathIsBelow
  <1>11. IsBelow(T, base, url)
    BY <1>4, <1>8, <1>9, <1>10, BelowTransitive
  <1>12. Requested(base) = WithoutDots(Segments(base))
    <2>1. IsPlain(base)
      BY <1>4, <1>8, <1>9, PlainAbove
    <2>2. BeforeQuery(base) = base
      BY <2>1, PlainStays
    <2> QED
      BY <2>2 DEF Requested
  <1>13. IsPrefix(Requested(base), Requested(BuildUrl(o.endpoint, path)))
    BY <1>4, <1>10, <1>11, <1>12, BelowIsUnder DEF Requested
  <1>14. ASSUME r.endpoint # <<>> PROVE Len(Requested(base)) >= 3
    <2>1. HasSchemeAndHost(base)
      BY <1>2, <1>4, <1>5, <1>14, CoveredIsBelow
    <2>2. Segments(base) \in Words(T) /\ Len(Segments(base)) >= 3
      BY <1>4, <2>1, SegmentsType, SchemeAndHostSegments
    <2> QED
      BY <1>12, <2>2, HostStays
  <1> QED
    BY <1>5, <1>13, <1>14

-------------------------------------------------------------------------------
\* The invariant

FiniteSecrets == IsFiniteSet(secrets)

IInv == TypeOK /\ FiniteSecrets /\ RequestsUnderOwnEndpoint

LEMMA InitIInv == Init => IInv
  <1> SUFFICES ASSUME Init PROVE IInv
    OBVIOUS
  <1>1. Cardinality(outcome) = 0 /\ IsFiniteSet(secrets)
    BY FS_EmptySet DEF Init
  <1> QED
    BY <1>1 DEF Init, IInv, TypeOK, FiniteSecrets, RequestsUnderOwnEndpoint

\* At most one choice has cardinality 0 or 1.
LEMMA AtMostOneCardinality ==
  ASSUME NEW S, AtMostOne(S)
  PROVE  Cardinality(S) <= 1
  <1>1. CASE S = {}
    BY <1>1, FS_EmptySet
  <1>2. CASE S # {}
    <2>1. PICK x \in S : S = {x}
      BY <1>2 DEF AtMostOne
    <2>2. Cardinality({x}) = 1
      BY FS_Singleton
    <2> QED
      BY <2>1, <2>2
  <1> QED
    BY <1>1, <1>2

LEMMA CallIInv ==
  ASSUME IInv, NEW r \in Requests, Call(r)
  PROVE  IInv'
  <1>1. /\ secrets \in SUBSET Candidates /\ IsFiniteSet(secrets) /\ secrets' = secrets
        /\ call' = r /\ outcome' = Resolve(secrets, r)
    BY DEF IInv, TypeOK, FiniteSecrets, Call
  <1>2. AtMostOne(outcome') /\ \A o \in outcome' : o.secret \in secrets
    BY <1>1, ResolvesToOne
  <1>3. TypeOK'
    BY <1>1, <1>2, AtMostOneCardinality DEF TypeOK
  <1>4. RequestsUnderOwnEndpoint'
    BY <1>1, ResolvesUnderEndpoint DEF RequestsUnderOwnEndpoint
  <1> QED
    BY <1>1, <1>3, <1>4 DEF IInv, FiniteSecrets

LEMMA StepIInv == IInv /\ [Next]_vars => IInv'
  <1> SUFFICES ASSUME IInv, [Next]_vars PROVE IInv'
    OBVIOUS
  <1>1. ASSUME NEW s \in Candidates, CreateSecret(s) PROVE IInv'
    <2>1. FiniteSecrets'
      BY <1>1, FS_AddElement DEF IInv, FiniteSecrets, CreateSecret
    <2> QED
      BY <1>1, <2>1 DEF IInv, TypeOK, RequestsUnderOwnEndpoint, CreateSecret
  <1>2. ASSUME NEW s \in Candidates, DropSecret(s) PROVE IInv'
    <2>1. FiniteSecrets'
      BY <1>2, FS_RemoveElement DEF IInv, FiniteSecrets, DropSecret
    <2> QED
      BY <1>2, <2>1 DEF IInv, TypeOK, RequestsUnderOwnEndpoint, DropSecret
  <1>3. ASSUME NEW r \in Requests, Call(r) PROVE IInv'
    BY <1>3, CallIInv
  <1>4. CASE UNCHANGED vars
    BY <1>4 DEF vars, IInv, TypeOK, FiniteSecrets, RequestsUnderOwnEndpoint
  <1> QED
    BY <1>1, <1>2, <1>3, <1>4 DEF Next

\* A scoped secret that is created is not found without a path, and is one more where
\* there was a sole secret.
LEMMA ScopedIsNoDefault ==
  ASSUME NEW S \in SUBSET Candidates, IsFiniteSet(S),
         NEW s \in Candidates, s \notin S, ~Unscoped(s), ResolveDefault(S) # {}
  PROVE  ResolveDefault(S \cup {s}) \subseteq ResolveDefault(S)
  <1> DEFINE all(R) == {t \in R : IsDeltaSharing(t)}
  <1>1. Score(s, <<>>) = -1
    BY CandidatesAreSecrets, ScoreType
  <1>2. LookupSecret(S \cup {s}, <<>>) = LookupSecret(S, <<>>)
    <2> DEFINE matching(R) == {t \in R : IsDeltaSharing(t) /\ Score(t, <<>>) >= 0}
    <2>1. matching(S \cup {s}) = matching(S)
      BY <1>1
    <2>2. \A R : LookupSecret(R, <<>>) =
                    {t \in matching(R) : \A u \in matching(R) \ {t} : RankedBefore(t, u, <<>>)}
      BY DEF LookupSecret
    <2> HIDE DEF matching
    <2> QED
      BY <2>1, <2>2
  <1>3. \A R : ResolveDefault(R) = IF LookupSecret(R, <<>>) # {} THEN LookupSecret(R, <<>>)
                                   ELSE IF Cardinality(all(R)) = 1 THEN all(R) ELSE {}
    BY DEF ResolveDefault
  <1>4. CASE LookupSecret(S, <<>>) # {}
    BY <1>2, <1>3, <1>4
  <1>5. CASE LookupSecret(S, <<>>) = {}
    <2>1. Cardinality(all(S)) = 1 /\ ResolveDefault(S) = all(S)
      BY <1>3, <1>5
    <2>2. all(S \cup {s}) = IF IsDeltaSharing(s) THEN all(S) \cup {s} ELSE all(S)
      OBVIOUS
    <2>3. all(S) \in SUBSET S
      OBVIOUS
    <2> HIDE DEF all
    <2>4. IsFiniteSet(all(S)) /\ s \notin all(S)
      BY <2>3, FS_Subset
    <2>5. IsDeltaSharing(s) => Cardinality(all(S \cup {s})) = 2
      <3>1. PICK A : A = all(S)
        OBVIOUS
      <3>2. Cardinality(A \cup {s}) = Cardinality(A) + 1
        BY <2>4, <3>1, FS_AddElement
      <3> QED
        BY <2>1, <2>2, <3>1, <3>2
    <2> QED
      BY <1>2, <1>3, <1>5, <2>1, <2>2, <2>5
  <1> QED
    BY <1>4, <1>5

\* The part of NoSilentSwitch that speaks of a step.
NoSwitchStep ==
    \A s \in secrets' \ secrets :
        ~Unscoped(s) /\ Resolve(secrets, NoCall) # {} =>
            Resolve(secrets', NoCall) \subseteq Resolve(secrets, NoCall)

LEMMA StepNoSwitch == IInv /\ [Next]_vars => [NoSwitchStep]_vars
  <1> SUFFICES ASSUME IInv, [Next]_vars, NEW s \in secrets' \ secrets,
                      ~Unscoped(s), Resolve(secrets, NoCall) # {}
               PROVE  Resolve(secrets', NoCall) \subseteq Resolve(secrets, NoCall)
    BY DEF NoSwitchStep
  <1>1. s \in Candidates /\ secrets' = secrets \cup {s}
    BY DEF Next, CreateSecret, DropSecret, Call, vars
  <1> DEFINE Of(t) == [secret |-> t, endpoint |-> ProfileEndpoint(t.endpoint)]
  <1>2. \A S : Resolve(S, NoCall) =
                  {Of(t) : t \in {u \in ResolveDefault(S) : u.endpoint # <<>> /\ u.token}}
    BY DEF Resolve, NoCall
  <1> HIDE DEF Of
  <1>3. ResolveDefault(secrets) # {}
    BY <1>2
  <1>4. ResolveDefault(secrets') \subseteq ResolveDefault(secrets)
    BY <1>1, <1>3, ScopedIsNoDefault DEF IInv, TypeOK, FiniteSecrets
  <1> QED
    BY <1>2, <1>4

-------------------------------------------------------------------------------
\* Theorems

LEMMA IInvAlways == Spec => []IInv
  BY InitIInv, StepIInv, PTL DEF Spec

\* Type correctness: a call that does not fail has exactly one secret, one of the
\* session's.
THEOREM SecretTypeCorrect == Spec => []TypeOK
  <1>1. IInv => TypeOK
    BY DEF IInv
  <1> QED
    BY <1>1, IInvAlways, PTL

\* For every ENDPOINT, every endpoint a call names that has neither "?" nor "#", with
\* whatever dot segments and slashes, and every path without dot segments that is added
\* to it: what is requested stays on the ENDPOINT's host and below its path.
THEOREM OwnEndpointCorrect == Spec => []RequestsUnderOwnEndpoint
  <1>1. IInv => RequestsUnderOwnEndpoint
    BY DEF IInv
  <1> QED
    BY <1>1, IInvAlways, PTL

\* For any secrets and scopes: a call by endpoint uses the closest secret or fails.
THEOREM ClosestScopeCorrect == Spec => []ClosestScopeOrError
  <1>1. IInv => ClosestScopeOrError
    <2> SUFFICES ASSUME IInv, NEW r \in Requests, NEW s \in secrets,
                        r.secret = NoName, r.endpoint # <<>>, IsDeltaSharing(s),
                        NEW o \in Resolve(secrets, r)
                 PROVE  Score(o.secret, r.endpoint) >= Score(s, r.endpoint)
      BY DEF ClosestScopeOrError
    <2>1. o.secret \in LookupSecret(secrets, r.endpoint)
      BY DEF Resolve, ResolveByEndpoint
    <2>2. (\A t \in secrets : IsSecret(t)) /\ IsUrl(r.endpoint)
      BY CandidatesAreSecrets DEF IInv, TypeOK
    <2> QED
      BY <2>1, <2>2, LookupFindsBest
  <1> QED
    BY <1>1, IInvAlways, PTL

\* Creating a scoped secret leaves the calls without parameters with the secret they
\* had, or makes them fail.
THEOREM NoSwitchCorrect == Spec => NoSilentSwitch
  <1>1. IInv /\ [Next]_vars =>
           [\A s \in secrets' \ secrets :
               ~Unscoped(s) /\ Resolve(secrets, NoCall) # {} =>
                  Resolve(secrets', NoCall) \subseteq Resolve(secrets, NoCall)]_vars
    BY StepNoSwitch DEF NoSwitchStep
  <1> QED
    BY <1>1, IInvAlways, PTL DEF Spec, NoSilentSwitch

===============================================================================
