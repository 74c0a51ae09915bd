---------------------------- MODULE Z85DecodeProofs ----------------------------
(***************************************************************************)
(* Proofs about Z85::Decode, for any texts and any number of threads that  *)
(* fill the table over one another.                                        *)
(*                                                                         *)
(* The table. An entry may be erased by a late thread after others have    *)
(* filled it. The invariant says that a wrong entry of a coded character   *)
(* always has a thread that will still store it, and that an entry no code *)
(* goes to is erased before any thread has left the first loop.            *)
(*                                                                         *)
(* The bytes. Whoever has been through the table finds an entry erased or  *)
(* right, so that a text it does not refuse gives it the digits of each    *)
(* group. In halves of 16 bits, multiplying by 85 and adding a digit is    *)
(* undone by dividing by 85, and nothing wraps while the group fits. The   *)
(* bytes of the groups encode to the groups, and the groups, one after the *)
(* other, are the text: by induction over their number.                    *)
(***************************************************************************)
EXTENDS Z85Decode, DataLemmas

\* Thread t will still store the code of c.
WillFill(t, c) ==
    \/ pc[t] = "erase"
    \/ pc[t] = "fill" /\ \E n \in FillAt : n >= counter[t] /\ encoder[n] = c

CodedInv ==
    \A c \in Coded :
        \/ decoder[c] = CodeOf(c)
        \/ \E t \in Threads : WillFill(t, c)
        \/ ~initialized /\ \A t \in Threads : pc[t] \in Outcomes

UncodedInv ==
    \A c \in Chars \ Coded :
        /\ initialized => decoder[c] = Invalid
        /\ \A t \in Threads :
              /\ pc[t] = "erase" /\ c < counter[t] => decoder[c] = Invalid
              /\ pc[t] = "fill" => decoder[c] = Invalid

IInv ==
    /\ initialized \in BOOLEAN
    /\ decoder \in [Chars -> Int]
    /\ pc \in [Threads -> Outcomes \cup {"erase", "fill", "lookup"}]
    /\ counter \in [Threads -> Int]
    /\ CodedInv
    /\ UncodedInv

-------------------------------------------------------------------------------

\* The places of the string are positive numbers.
LEMMA FillAtPositive == FillAt \subseteq Nat \ {0}
<1>1. encoder \in Seq(Int)
  BY DEF encoder, Letters, Run
<1>. QED BY <1>1 DEF FillAt

\* A coded character stands somewhere in the string, and only coded ones do.
LEMMA CodedStands ==
    /\ \A c \in Coded : \E n \in FillAt : encoder[n] = c
    /\ \A n \in FillAt : encoder[n] \in Coded
BY DEF Coded, FillAt, ToSet

\* Characters and codes are numbers.
LEMMA Numbers == Chars \subseteq 0..255 /\ \A c \in Coded : CodeOf(c) \in Int
<1>1. ASSUME NEW c \in Coded PROVE CodeOf(c) \in Int
  <2> DEFINE place == CHOOSE i \in DOMAIN encoder : encoder[i] = c
  <2>1. \E i \in DOMAIN encoder : encoder[i] = c
    BY CodedStands DEF FillAt
  <2>2. place \in FillAt
    BY <2>1 DEF FillAt, Coded
  <2>3. CodeOf(c) = place - 1
    BY DEF CodeOf
  <2>. HIDE DEF place
  <2>. QED BY <2>2, <2>3, FillAtPositive
<1>. QED BY <1>1, Z85DecodeAssumption

LEMMA Initially == Init => IInv
<1>. SUFFICES ASSUME Init PROVE IInv
  OBVIOUS
<1>1. CodedInv
  BY DEF Init, CodedInv, Outcomes
<1>2. UncodedInv
  BY DEF Init, UncodedInv
<1>3. initialized \in BOOLEAN
  BY DEF Init
<1>4. /\ decoder \in [Chars -> Int] /\ counter \in [Threads -> Int]
      /\ pc \in [Threads -> Outcomes \cup {"erase", "fill", "lookup"}]
  BY DEF Init, Outcomes
<1>. QED BY <1>1, <1>2, <1>3, <1>4 DEF IInv

\* A step of thread t leaves the other threads where they are.
LEMMA OthersKeep ==
    ASSUME IInv, NEW t \in Threads, NEW place, NEW n,
           pc' = [pc EXCEPT ![t] = place], counter' = [counter EXCEPT ![t] = n]
    PROVE  /\ pc'[t] = place /\ counter'[t] = n
           /\ \A s \in Threads \ {t} : pc'[s] = pc[s] /\ counter'[s] = counter[s]
           /\ \A s \in Threads \ {t} : \A c : WillFill(s, c)' <=> WillFill(s, c)
<1>1. pc'[t] = place /\ counter'[t] = n
  BY DEF IInv
<1>2. \A s \in Threads \ {t} : pc'[s] = pc[s] /\ counter'[s] = counter[s]
  BY DEF IInv
<1>. QED BY <1>1, <1>2 DEF WillFill, FillAt

LEMMA BeginInv ==
    ASSUME IInv, NEW t \in Threads, Begin(t)
    PROVE  IInv'
<1>1. PICK place \in {"ok", "bad_length", "lookup", "erase"} :
         pc' = [pc EXCEPT ![t] = place] /\ (place = "lookup" => initialized)
  BY DEF Begin
<1>2. counter' = [counter EXCEPT ![t] = 0] /\ UNCHANGED <<decoder, initialized>> /\ pc[t] \in Outcomes
  BY DEF Begin
<1>3. /\ pc'[t] = place /\ counter'[t] = 0
      /\ \A s \in Threads \ {t} : pc'[s] = pc[s] /\ counter'[s] = counter[s]
      /\ \A s \in Threads \ {t} : \A c : WillFill(s, c)' <=> WillFill(s, c)
  BY <1>1, <1>2, OthersKeep
<1>4. ~\E c : WillFill(t, c)
  BY <1>2 DEF WillFill, Outcomes
<1>5. CodedInv'
  <2>. SUFFICES ASSUME NEW c \in Coded
                PROVE  \/ decoder'[c] = CodeOf(c)
                       \/ \E s \in Threads : WillFill(s, c)'
                       \/ ~initialized' /\ \A s \in Threads : pc'[s] \in Outcomes
    BY DEF CodedInv
  <2>1. CASE decoder[c] = CodeOf(c)
    BY <1>2, <2>1
  <2>2. CASE \E s \in Threads : WillFill(s, c)
    BY <1>3, <1>4, <2>2
  <2>3. CASE ~initialized /\ \A s \in Threads : pc[s] \in Outcomes
    <3>1. CASE place = "erase"
      BY <1>3, <3>1 DEF WillFill
    <3>2. CASE place \in {"ok", "bad_length"}
      BY <1>2, <1>3, <2>3, <3>2 DEF Outcomes
    <3>. QED BY <1>1, <2>3, <3>1, <3>2
  <2>. QED BY <2>1, <2>2, <2>3 DEF IInv, CodedInv
<1>6. UncodedInv'
  <2>. SUFFICES ASSUME NEW c \in Chars \ Coded
                PROVE  /\ initialized' => decoder'[c] = Invalid
                       /\ \A s \in Threads :
                             /\ pc'[s] = "erase" /\ c < counter'[s] => decoder'[c] = Invalid
                             /\ pc'[s] = "fill" => decoder'[c] = Invalid
    BY DEF UncodedInv
  <2>1. ~(c < 0)
    BY Numbers
  <2>. QED BY <1>1, <1>2, <1>3, <2>1 DEF IInv, UncodedInv
<1>. QED BY <1>1, <1>2, <1>5, <1>6 DEF IInv, Outcomes

LEMMA EraseInv ==
    ASSUME IInv, NEW t \in Threads, Erase(t)
    PROVE  IInv'
<1>1. PICK c \in Chars :
         /\ Reaches(t, c, Chars)
         /\ decoder' = [decoder EXCEPT ![c] = Invalid]
         /\ IF \A d \in Chars : d <= c
            THEN pc' = [pc EXCEPT ![t] = "fill"] /\ counter' = [counter EXCEPT ![t] = 1]
            ELSE counter' = [counter EXCEPT ![t] = c + 1] /\ UNCHANGED pc
  BY DEF Erase, Store
<1>2. pc[t] = "erase" /\ UNCHANGED initialized
  BY DEF Erase
<1>3. PICK place \in {"erase", "fill"}, n \in Int :
         /\ pc' = [pc EXCEPT ![t] = place] /\ counter' = [counter EXCEPT ![t] = n]
         /\ place = "fill" => n = 1 /\ \A d \in Chars : d <= c
         /\ place = "erase" => n = c + 1
  <2>1. c + 1 \in Int
    BY Numbers
  <2>2. pc = [pc EXCEPT ![t] = "erase"]
    BY <1>2 DEF IInv
  <2>3. CASE \A d \in Chars : d <= c
    BY <1>1, <2>3
  <2>4. CASE ~\A d \in Chars : d <= c
    BY <1>1, <2>1, <2>2, <2>4
  <2>. QED BY <2>3, <2>4
<1>4. /\ pc'[t] = place /\ counter'[t] = n
      /\ \A s \in Threads \ {t} : pc'[s] = pc[s] /\ counter'[s] = counter[s]
  BY <1>3, OthersKeep
<1>5. \A d \in Coded : WillFill(t, d)'
  <2>1. CASE place = "erase"
    BY <1>4, <2>1 DEF WillFill
  <2>2. CASE place = "fill"
    <3>1. \A m \in FillAt : m >= 1
      BY FillAtPositive
    <3>. QED BY <1>3, <1>4, <2>2, <3>1, CodedStands DEF WillFill, FillAt
  <2>. QED BY <2>1, <2>2
<1>6. CodedInv'
  BY <1>5 DEF CodedInv
<1>7. \A d \in Chars : decoder'[d] = IF d = c THEN Invalid ELSE decoder[d]
  BY <1>1 DEF IInv
<1>8. UncodedInv'
  <2>. SUFFICES ASSUME NEW d \in Chars \ Coded
                PROVE  /\ initialized' => decoder'[d] = Invalid
                       /\ \A s \in Threads :
                             /\ pc'[s] = "erase" /\ d < counter'[s] => decoder'[d] = Invalid
                             /\ pc'[s] = "fill" => decoder'[d] = Invalid
    BY DEF UncodedInv
  <2>1. decoder[d] = Invalid => decoder'[d] = Invalid
    BY <1>7
  <2>2. d <= c => decoder'[d] = Invalid
    <3>1. d < counter[t] => decoder[d] = Invalid
      BY <1>2 DEF IInv, UncodedInv
    <3>2. d \in Int /\ c \in Int /\ counter[t] \in Int
      <4>1. counter[t] \in Int
        BY DEF IInv
      <4>. QED BY <4>1, Numbers
    <3>3. d >= counter[t] => c <= d
      BY <1>1 DEF Reaches
    <3>. QED BY <1>7, <3>1, <3>2, <3>3
  <2>3. d \in Int /\ c \in Int
    BY Numbers
  <2>. QED BY <1>2, <1>3, <1>4, <2>1, <2>2, <2>3 DEF IInv, UncodedInv
<1>. QED BY <1>1, <1>2, <1>3, <1>6, <1>8 DEF IInv, Outcomes, Invalid

LEMMA FillInv ==
    ASSUME IInv, NEW t \in Threads, Fill(t)
    PROVE  IInv'
<1>1. PICK n \in FillAt :
         /\ Reaches(t, n, FillAt)
         /\ decoder' = [decoder EXCEPT ![encoder[n]] = CodeOf(encoder[n])]
         /\ counter' = [counter EXCEPT ![t] = n + 1]
  BY DEF Fill, Store
<1>2. pc[t] = "fill" /\ UNCHANGED <<initialized, pc>>
  BY DEF Fill
<1>3. n \in Int /\ encoder[n] \in Coded
  BY FillAtPositive, CodedStands
<1>4. pc' = [pc EXCEPT ![t] = "fill"]
  BY <1>2 DEF IInv
<1>5. /\ counter'[t] = n + 1
      /\ \A s \in Threads \ {t} : counter'[s] = counter[s]
      /\ \A s \in Threads \ {t} : \A c : WillFill(s, c)' <=> WillFill(s, c)
  BY <1>1, <1>4, OthersKeep
<1>6. \A c \in Chars : decoder'[c] = IF c = encoder[n] THEN CodeOf(c) ELSE decoder[c]
  BY <1>1 DEF IInv
<1>7. \A c \in Coded : c # encoder[n] /\ WillFill(t, c) => WillFill(t, c)'
  <2>. SUFFICES ASSUME NEW c \in Coded, c # encoder[n], WillFill(t, c) PROVE WillFill(t, c)'
    OBVIOUS
  <2>1. PICK m \in FillAt : m >= counter[t] /\ encoder[m] = c
    BY <1>2 DEF WillFill
  <2>2. m \in Int /\ m >= n /\ m # n
    BY <1>1, <2>1, FillAtPositive DEF Reaches
  <2>3. m >= n + 1
    BY <1>3, <2>2
  <2>. QED BY <1>2, <1>5, <2>1, <2>3 DEF WillFill, FillAt
<1>8. CodedInv'
  <2>. SUFFICES ASSUME NEW c \in Coded, c # encoder[n]
                PROVE  decoder'[c] = CodeOf(c) \/ \E s \in Threads : WillFill(s, c)'
    BY <1>6 DEF CodedInv, Coded
  <2>1. decoder'[c] = decoder[c]
    BY <1>6 DEF Coded
  <2>2. decoder[c] = CodeOf(c) \/ \E s \in Threads : WillFill(s, c)
    BY <1>2 DEF IInv, CodedInv, Outcomes
  <2>. QED BY <1>5, <1>7, <2>1, <2>2
<1>9. UncodedInv'
  BY <1>2, <1>3, <1>5, <1>6 DEF IInv, UncodedInv
<1>10. decoder' \in [Chars -> Int]
  BY <1>1, <1>3, Numbers DEF IInv
<1>11. counter' \in [Threads -> Int]
  BY <1>1, <1>3 DEF IInv
<1>. QED BY <1>2, <1>8, <1>9, <1>10, <1>11 DEF IInv

LEMMA SetInitializedInv ==
    ASSUME IInv, NEW t \in Threads, SetInitialized(t)
    PROVE  IInv'
<1>1. /\ pc[t] = "fill" /\ \A n \in FillAt : n < counter[t]
      /\ initialized' = TRUE /\ pc' = [pc EXCEPT ![t] = "lookup"]
      /\ UNCHANGED <<decoder, counter>>
  BY DEF SetInitialized
<1>2. counter' = [counter EXCEPT ![t] = counter[t]]
  BY <1>1 DEF IInv
<1>3. /\ pc'[t] = "lookup"
      /\ \A s \in Threads \ {t} : pc'[s] = pc[s]
      /\ \A s \in Threads \ {t} : \A c : WillFill(s, c)' <=> WillFill(s, c)
  BY <1>1, <1>2, OthersKeep
<1>4. \A c : ~WillFill(t, c)
  <2>1. \A n \in FillAt : ~(n >= counter[t])
    BY <1>1, FillAtPositive DEF IInv
  <2>. QED BY <1>1, <2>1 DEF WillFill
<1>5. CodedInv'
  BY <1>1, <1>3, <1>4 DEF IInv, CodedInv, Outcomes
<1>6. UncodedInv'
  BY <1>1, <1>3 DEF IInv, UncodedInv
<1>. QED BY <1>1, <1>5, <1>6 DEF IInv

LEMMA LookupInv ==
    ASSUME IInv, NEW t \in Threads, Lookup(t)
    PROVE  IInv'
<1>1. PICK place \in {"ok", "bad_char", "lookup"} : pc' = [pc EXCEPT ![t] = place]
  BY DEF Lookup, IInv
<1>2. pc[t] = "lookup" /\ UNCHANGED <<decoder, initialized, counter>>
  BY DEF Lookup
<1>3. counter' = [counter EXCEPT ![t] = counter[t]]
  BY <1>2 DEF IInv
<1>4. /\ pc'[t] = place
      /\ \A s \in Threads \ {t} : pc'[s] = pc[s]
      /\ \A s \in Threads \ {t} : \A c : WillFill(s, c)' <=> WillFill(s, c)
  BY <1>1, <1>3, OthersKeep
<1>5. CodedInv'
  BY <1>2, <1>4 DEF IInv, CodedInv, WillFill, Outcomes
<1>6. UncodedInv'
  BY <1>2, <1>4 DEF IInv, UncodedInv
<1>. QED BY <1>1, <1>2, <1>5, <1>6 DEF IInv, Outcomes

LEMMA Preserved == IInv /\ [Next]_vars => IInv'
<1>. SUFFICES ASSUME IInv, [Next]_vars PROVE IInv'
  OBVIOUS
<1>1. ASSUME NEW t \in Threads, Begin(t) \/ Erase(t) \/ Fill(t) \/ SetInitialized(t) \/ Lookup(t)
      PROVE  IInv'
  BY <1>1, BeginInv, EraseInv, FillInv, SetInitializedInv, LookupInv
<1>2. CASE UNCHANGED vars
  BY <1>2 DEF vars, IInv, CodedInv, UncodedInv, WillFill, FillAt
<1>. QED BY <1>1, <1>2 DEF Next

\* The inductive invariant holds throughout, for any threads and any texts.
THEOREM TableInductive == Spec => []IInv
<1>. QED BY Initially, Preserved, PTL DEF Spec

\* Once the flag is set and no thread is at work on the table, every entry is right,
\* however many threads have filled it over one another.
THEOREM TableCorrect == Spec => []TableSettles
<1>1. IInv => TableSettles
  <2>. SUFFICES ASSUME IInv, initialized, \A t \in Threads : pc[t] \notin {"erase", "fill"},
                       NEW c \in Chars
                PROVE  decoder[c] = IF c \in Coded THEN CodeOf(c) ELSE Invalid
    BY DEF TableSettles
  <2>1. ~\E t \in Threads : WillFill(t, c)
    BY DEF WillFill
  <2>. QED BY <2>1 DEF IInv, CodedInv, UncodedInv
<1>. QED BY <1>1, TableInductive, PTL

-------------------------------------------------------------------------------
\* Decoding

Codes == 0..84 \cup {Invalid}

StateInv ==
    /\ decoder \in [Chars -> Codes]
    /\ held \in [Chars -> SUBSET Codes]
    /\ \A c \in Chars : decoder[c] \in held[c]
    /\ initialized \in BOOLEAN
    /\ pc \in [Threads -> Outcomes \cup {"erase", "fill", "lookup"}]
    /\ counter \in [Threads -> 0..256]
    /\ input \in [Threads -> Seq(Chars)]
    /\ at \in [Threads -> Nat]
    /\ value \in [Threads -> [hi : Half, lo : Half]]
    /\ output \in [Threads -> Seq(Byte)]
    /\ filler \subseteq Threads
    /\ decodes \in [Threads -> 0..MaxDecodes]

\* How far a thread has come in its text.
ProgressInv ==
    \A t \in Threads :
        /\ at[t] <= Len(input[t])
        /\ Len(output[t]) = 4 * (at[t] \div 5)
        /\ pc[t] \in {"erase", "fill", "lookup"} => at[t] < Len(input[t]) /\ Len(input[t]) % 5 = 0
        /\ pc[t] = "ok" => at[t] = Len(input[t])

\* The entry of c has been stored to.
Stored(c) == decoder[c] = Invalid \/ (c \in Coded /\ decoder[c] = CodeOf(c))

\* Whoever has stored to an entry finds it stored to, by itself or by others.
StoredInv ==
    \A t \in Threads, c \in Chars :
        t \in filler \/ pc[t] = "fill" \/ (pc[t] = "erase" /\ c < counter[t]) => Stored(c)

\* A text OkMeansDecoded speaks of.
Decodable(text) ==
    IsEncoding(text) /\ \A c \in ToSet(text) : c \in Coded /\ CodeOf(c) = StandardCode(c)

\* What the first m characters of a group stand for.
SumOf(text, k, m) ==
    CASE m = 0 -> Zero
      [] m = 1 -> Sum1(text, k)
      [] m = 2 -> Sum2(text, k)
      [] m = 3 -> Sum3(text, k)
      [] m = 4 -> Sum4(text, k)
      [] m = 5 -> Sum5(text, k)

\* The thread has the bytes of the groups behind it, and the sum of the characters it
\* has read of the next.
Decoded(t) ==
    /\ \A j \in 1..at[t] \div 5, i \in 1..4 :
          output[t][4 * j - 4 + i] = BytesOf(Sum5(input[t], j))[i]
    /\ value[t] = SumOf(input[t], at[t] \div 5 + 1, at[t] % 5)

DecodedInv ==
    \A t \in Threads :
        (t \in filler \/ pc[t] \in {"erase", "fill"}) /\ Decodable(input[t]) => Decoded(t)

DecodeInv == StateInv /\ ProgressInv /\ StoredInv /\ DecodedInv

-------------------------------------------------------------------------------
\* Numbers and their halves

LEMMA FourLengths ==
    ASSUME NEW T, NEW a \in Seq(T), NEW b \in Seq(T), NEW c \in Seq(T), NEW d \in Seq(T)
    PROVE  DOMAIN (a \o b \o c \o d) = 1..Len(a) + Len(b) + Len(c) + Len(d)
<1>1. PICK ab \in Seq(T) : ab = a \o b /\ Len(ab) = Len(a) + Len(b)
  BY ConcatProperties
<1>2. PICK abc \in Seq(T) : abc = ab \o c /\ Len(abc) = Len(ab) + Len(c)
  BY ConcatProperties
<1>3. PICK abcd \in Seq(T) : abcd = abc \o d /\ Len(abcd) = Len(abc) + Len(d)
  BY ConcatProperties
<1>4. DOMAIN abcd = 1..Len(abcd)
  OBVIOUS
<1>. QED BY <1>1, <1>2, <1>3, <1>4

\* The string has 85 characters, and so has the alphabet of Z85.
LEMMA Alphabets ==
    /\ DOMAIN encoder = 1..85
    /\ DOMAIN Standard = 1..85
<1>1. /\ Run(48, 57) \in Seq(Int) /\ Len(Run(48, 57)) = 10
      /\ Run(97, 122) \in Seq(Int) /\ Len(Run(97, 122)) = 26
      /\ Run(65, 90) \in Seq(Int) /\ Len(Run(65, 90)) = 26
  BY DEF Run
<1>2. PICK U : U = Int
  OBVIOUS
<1>3. PICK a \in Seq(U), b \in Seq(U), c \in Seq(U) :
         /\ a = Run(48, 57) /\ b = Run(97, 122) /\ c = Run(65, 90)
         /\ Len(a) = 10 /\ Len(b) = 26 /\ Len(c) = 26
  BY <1>1, <1>2
<1>4. ASSUME NEW d \in Seq(U), Len(d) = 23
      PROVE  DOMAIN (a \o b \o c \o d) = 1..85
  <2>1. DOMAIN (a \o b \o c \o d) = 1..Len(a) + Len(b) + Len(c) + Len(d)
    BY FourLengths
  <2>2. 10 + 26 + 26 + 23 = 85
    OBVIOUS
  <2>. QED BY <1>3, <1>4, <2>1, <2>2
<1>. DEFINE codes == <<46, 45, 58, 43, 61, 94, 47, 42, 63, 38, 60, 62, 40, 41,
                      91, 93, 123, 125, 64, 37, 36, 35, 0>>
            standard == <<46, 45, 58, 43, 61, 94, 33, 47, 42, 63, 38, 60, 62, 40,
                         41, 91, 93, 123, 125, 64, 37, 36, 35>>
<1>5. encoder = a \o b \o c \o codes /\ Standard = a \o b \o c \o standard
  BY <1>3 DEF encoder, Standard, Letters
<1>6. codes \in Seq(Int) /\ Len(codes) = 23
  OBVIOUS
<1>7. standard \in Seq(Int) /\ Len(standard) = 23
  OBVIOUS
<1>. HIDE DEF codes, standard
<1>. QED BY <1>2, <1>4, <1>5, <1>6, <1>7

\* The code of a character, in the string and in Z85.
LEMMA CodesAreCodes ==
    /\ \A c \in Coded : CodeOf(c) \in 0..84
    /\ \A c \in ToSet(Standard) : StandardCode(c) \in 0..84 /\ Standard[StandardCode(c) + 1] = c
<1>1. ASSUME NEW c \in Coded PROVE CodeOf(c) \in 0..84
  <2> DEFINE place == CHOOSE i \in DOMAIN encoder : encoder[i] = c
  <2>1. place \in DOMAIN encoder
    BY CodedStands DEF FillAt
  <2>2. CodeOf(c) = place - 1
    BY DEF CodeOf
  <2>. HIDE DEF place
  <2>. QED BY <2>1, <2>2, Alphabets
<1>2. ASSUME NEW c \in ToSet(Standard)
      PROVE  StandardCode(c) \in 0..84 /\ Standard[StandardCode(c) + 1] = c
  <2> DEFINE place == CHOOSE i \in DOMAIN Standard : Standard[i] = c
  <2>1. \E i \in DOMAIN Standard : Standard[i] = c
    BY DEF ToSet
  <2>2. place \in DOMAIN Standard /\ Standard[place] = c
    BY <2>1
  <2>3. StandardCode(c) = place - 1
    BY DEF StandardCode
  <2>. HIDE DEF place
  <2>4. place \in 1..85
    BY <2>2, Alphabets
  <2>5. place - 1 \in 0..84 /\ (place - 1) + 1 = place
    BY <2>4
  <2>. QED BY <2>2, <2>3, <2>5
<1>. QED BY <1>1, <1>2

\* A number in two halves, and one whose upper half is not cut off.
IsNumber(v) == v.hi \in Nat /\ v.lo \in Half /\ v = [hi |-> v.hi, lo |-> v.lo]
Fits(v)     == v.hi < 65536

\* Dividing by 85 takes off the last digit, whatever carries into the upper half.
LEMMA TakeOff ==
    ASSUME NEW h \in Nat, NEW l \in Half, NEW c \in 0..84,
           NEW u, u = [hi |-> h, lo |-> l], NEW v, v = TimesPlus(u, c)
    PROVE  /\ IsNumber(v)
           /\ Fits(v) => Fits(u)
           /\ Quotient(v) = u
           /\ Remainder(v) = c
<1> DEFINE low == l * 85 + c
           carry == low \div 65536
           rest == low % 65536
<1>1. low \in Nat /\ low < 5570560
  BY SMT DEF Half
<1>2. carry \in Nat /\ carry <= 84 /\ rest \in Half /\ carry * 65536 + rest = low
  <2>. HIDE DEF low
  <2>1. carry \in Nat /\ rest \in Nat /\ rest < 65536 /\ carry * 65536 + rest = low
    BY <1>1, SMT
  <2>2. \A q, r, w \in Nat : q * 65536 + r = w /\ w < 5570560 => q <= 84
    BY SMT
  <2>. HIDE DEF carry, rest
  <2>3. carry <= 84
    BY <1>1, <2>1, <2>2, SMT
  <2>4. rest \in Half
    BY <2>1, SMT DEF Half
  <2>. QED BY <2>1, <2>3, <2>4, SMT
<1>3. v = [hi |-> h * 85 + carry, lo |-> rest]
  BY SMT DEF TimesPlus
<1>4. (h * 85 + carry) \div 85 = h /\ (h * 85 + carry) % 85 = carry
  <2> HIDE DEF carry
  <2>. QED BY <1>2, SMT
<1>5. low \div 85 = l /\ low % 85 = c
  BY SMT DEF Half
<1> HIDE DEF low, carry, rest
<1>6. IsNumber(v)
  BY <1>2, <1>3, SMT DEF IsNumber
<1>7. Fits(v) => Fits(u)
  BY <1>2, <1>3, SMT DEF Fits
<1>8. v.hi \div 85 = h /\ (v.hi % 85) * 65536 + v.lo = low
  BY <1>2, <1>3, <1>4, SMT
<1>9. Quotient(v) = u /\ Remainder(v) = c
  BY <1>5, <1>8, SMT DEF Quotient, Remainder
<1>. QED BY <1>6, <1>7, <1>9

LEMMA TakeOffNumber ==
    ASSUME NEW u, IsNumber(u), NEW c \in 0..84
    PROVE  /\ IsNumber(TimesPlus(u, c))
           /\ Fits(TimesPlus(u, c)) => Fits(u)
           /\ Quotient(TimesPlus(u, c)) = u
           /\ Remainder(TimesPlus(u, c)) = c
<1>1. PICK h \in Nat, l \in Half : u = [hi |-> h, lo |-> l]
  BY DEF IsNumber
<1>2. PICK v : v = TimesPlus(u, c)
  OBVIOUS
<1>3. IsNumber(v) /\ (Fits(v) => Fits(u)) /\ Quotient(v) = u /\ Remainder(v) = c
  BY <1>1, <1>2, TakeOff
<1>. QED BY <1>2, <1>3

\* The sums of a group of digits are numbers, none above the last, whose digits are
\* the group's.
LEMMA SumsOfDigits ==
    ASSUME NEW text, NEW k, \A i \in 1..5 : Digit(text, k, i) \in 0..84
    PROVE  /\ IsNumber(Sum1(text, k)) /\ IsNumber(Sum2(text, k)) /\ IsNumber(Sum3(text, k))
           /\ IsNumber(Sum4(text, k)) /\ IsNumber(Sum5(text, k))
           /\ GroupFits(text, k) =>
                 /\ Fits(Sum1(text, k)) /\ Fits(Sum2(text, k))
                 /\ Fits(Sum3(text, k)) /\ Fits(Sum4(text, k))
           /\ Digits(Sum5(text, k)) = <<Digit(text, k, 1), Digit(text, k, 2), Digit(text, k, 3),
                                        Digit(text, k, 4), Digit(text, k, 5)>>
<1>1. IsNumber(Zero)
  BY SMT DEF IsNumber, Zero, Half
<1>2. IsNumber(Sum1(text, k)) /\ Sum1(text, k).lo = Digit(text, k, 1)
  <2>1. PICK c \in 0..84 : c = Digit(text, k, 1)
    OBVIOUS
  <2>2. IsNumber(TimesPlus(Zero, c))
    BY <1>1, TakeOffNumber
  <2>3. TimesPlus(Zero, c).lo = c
    BY SMT DEF TimesPlus, Zero
  <2>. QED BY <2>1, <2>2, <2>3 DEF Sum1
<1>3. /\ IsNumber(Sum2(text, k)) /\ (Fits(Sum2(text, k)) => Fits(Sum1(text, k)))
      /\ Quotient(Sum2(text, k)) = Sum1(text, k) /\ Remainder(Sum2(text, k)) = Digit(text, k, 2)
  BY <1>2, TakeOffNumber DEF Sum2
<1>4. /\ IsNumber(Sum3(text, k)) /\ (Fits(Sum3(text, k)) => Fits(Sum2(text, k)))
      /\ Quotient(Sum3(text, k)) = Sum2(text, k) /\ Remainder(Sum3(text, k)) = Digit(text, k, 3)
  BY <1>3, TakeOffNumber DEF Sum3
<1>5. /\ IsNumber(Sum4(text, k)) /\ (Fits(Sum4(text, k)) => Fits(Sum3(text, k)))
      /\ Quotient(Sum4(text, k)) = Sum3(text, k) /\ Remainder(Sum4(text, k)) = Digit(text, k, 4)
  BY <1>4, TakeOffNumber DEF Sum4
<1>6. /\ IsNumber(Sum5(text, k)) /\ (Fits(Sum5(text, k)) => Fits(Sum4(text, k)))
      /\ Quotient(Sum5(text, k)) = Sum4(text, k) /\ Remainder(Sum5(text, k)) = Digit(text, k, 5)
  BY <1>5, TakeOffNumber DEF Sum5
<1>7. Digits(Sum5(text, k)) = <<Digit(text, k, 1), Digit(text, k, 2), Digit(text, k, 3),
                                Digit(text, k, 4), Digit(text, k, 5)>>
  BY <1>2, <1>3, <1>4, <1>5, <1>6 DEF Digits
<1>8. GroupFits(text, k) =>
         /\ Fits(Sum1(text, k)) /\ Fits(Sum2(text, k))
         /\ Fits(Sum3(text, k)) /\ Fits(Sum4(text, k))
  BY <1>3, <1>4, <1>5, <1>6 DEF GroupFits, Fits
<1>. QED BY <1>2, <1>3, <1>4, <1>5, <1>6, <1>7, <1>8

\* The four bytes of a number are bytes, and make it again.
LEMMA FourBytes ==
    ASSUME NEW v, v.hi \in Half, v.lo \in Half
    PROVE  LET b == BytesOf(v)
           IN /\ b \in Seq(Byte) /\ Len(b) = 4
              /\ b[1] * 256 + b[2] = v.hi /\ b[3] * 256 + b[4] = v.lo
<1>1. \A h \in Half : /\ h \div 256 \in Byte /\ h % 256 \in Byte
                       /\ (h \div 256) * 256 + (h % 256) = h
  BY SMT DEF Half, Byte
<1>2. BytesOf(v) = <<v.hi \div 256, v.hi % 256, v.lo \div 256, v.lo % 256>>
  BY DEF BytesOf
<1>3. PICK b1 \in Byte, b2 \in Byte, b3 \in Byte, b4 \in Byte :
         /\ BytesOf(v) = <<b1, b2, b3, b4>>
         /\ b1 * 256 + b2 = v.hi /\ b3 * 256 + b4 = v.lo
  BY <1>1, <1>2
<1>. QED BY <1>3

\* The groups of a text, the first n of them.
GroupOf(s, k)  == [i \in 1..5 |-> s[5 * k - 5 + i]]
GroupsOf(s, n) == [k \in 1..n |-> GroupOf(s, k)]

\* A group that fits is the encoding of its bytes.
LEMMA GroupEncodes ==
    ASSUME NEW text, NEW k, \A i \in 1..5 : text[5 * k - 5 + i] \in ToSet(Standard),
           GroupFits(text, k),
           NEW four, \A i \in 1..4 : four[i] = BytesOf(Sum5(text, k))[i]
    PROVE  EncodeFour(four) = GroupOf(text, k)
<1>1. \A i \in 1..5 : /\ Digit(text, k, i) \in 0..84
                      /\ Standard[Digit(text, k, i) + 1] = text[5 * k - 5 + i]
  BY CodesAreCodes DEF Digit
<1>2. PICK v : v = Sum5(text, k)
  OBVIOUS
<1>3. /\ IsNumber(v)
      /\ Digits(v) = <<Digit(text, k, 1), Digit(text, k, 2), Digit(text, k, 3),
                       Digit(text, k, 4), Digit(text, k, 5)>>
  BY <1>1, <1>2, SumsOfDigits
<1>4. v.hi \in Half /\ v.lo \in Half /\ v = [hi |-> v.hi, lo |-> v.lo]
  BY <1>2, <1>3, SMT DEF IsNumber, GroupFits, Half
<1>5. [hi |-> four[1] * 256 + four[2], lo |-> four[3] * 256 + four[4]] = v
  <2>1. four[1] * 256 + four[2] = v.hi /\ four[3] * 256 + four[4] = v.lo
    BY <1>2, <1>4, FourBytes
  <2>. QED BY <1>4, <2>1
<1>6. EncodeFour(four) = [i \in 1..5 |-> Standard[Digits(v)[i] + 1]]
  BY <1>5 DEF EncodeFour
<1>7. \A i \in 1..5 : Digits(v)[i] = Digit(text, k, i)
  BY <1>3
<1>. QED BY <1>1, <1>6, <1>7 DEF GroupOf

\* The first characters of a text, and what stands behind them.
LEMMA FirstOf ==
    ASSUME NEW T, NEW s \in Seq(T), NEW n \in Nat, n <= Len(s)
    PROVE  /\ SubSeq(s, 1, n) \in Seq(T) /\ Len(SubSeq(s, 1, n)) = n
           /\ \A i \in 1..n : SubSeq(s, 1, n)[i] = s[i]
<1>1. \A i \in 1..n : s[i] \in T
  OBVIOUS
<1>2. /\ SubSeq(s, 1, n) \in Seq(T)
      /\ Len(SubSeq(s, 1, n)) = IF 1 <= n THEN n - 1 + 1 ELSE 0
      /\ \A i \in 1..n - 1 + 1 : SubSeq(s, 1, n)[i] = s[1 + i - 1]
  BY <1>1, SubSeqProperties
<1>3. Len(SubSeq(s, 1, n)) = n
  BY <1>2
<1>4. \A i \in 1..n : i \in 1..n - 1 + 1 /\ 1 + i - 1 = i
  OBVIOUS
<1>. QED BY <1>2, <1>3, <1>4

IsJoin(w, r, g) ==
    /\ w = r \o g /\ Len(w) = Len(r) + Len(g)
    /\ \A i \in 1..Len(r) + Len(g) : w[i] = IF i <= Len(r) THEN r[i] ELSE g[i - Len(r)]

LEMMA Joined ==
    ASSUME NEW T, NEW r \in Seq(T), NEW g \in Seq(T)
    PROVE  \E w \in Seq(T) : IsJoin(w, r, g)
<1>1. PICK w : w = r \o g
  OBVIOUS
<1>2. w \in Seq(T) /\ IsJoin(w, r, g)
  BY <1>1, ConcatProperties DEF IsJoin
<1>. QED BY <1>2

LEMMA FirstExtended ==
    ASSUME NEW T, NEW s \in Seq(T), NEW n \in Nat, n + 5 <= Len(s),
           NEW g \in Seq(T), Len(g) = 5, \A i \in 1..5 : g[i] = s[n + i]
    PROVE  SubSeq(s, 1, n) \o g = SubSeq(s, 1, n + 5)
<1>1. PICK r \in Seq(T) : r = SubSeq(s, 1, n) /\ Len(r) = n /\ \A i \in 1..n : r[i] = s[i]
  <2>1. n <= Len(s)
    OBVIOUS
  <2>2. /\ SubSeq(s, 1, n) \in Seq(T) /\ Len(SubSeq(s, 1, n)) = n
        /\ \A i \in 1..n : SubSeq(s, 1, n)[i] = s[i]
    BY <2>1, FirstOf
  <2>. QED BY <2>2, Zenon
<1>2. PICK q \in Seq(T) : /\ q = SubSeq(s, 1, n + 5) /\ Len(q) = n + 5
                          /\ \A i \in 1..n + 5 : q[i] = s[i]
  <2>1. n + 5 \in Nat
    OBVIOUS
  <2>2. /\ SubSeq(s, 1, n + 5) \in Seq(T) /\ Len(SubSeq(s, 1, n + 5)) = n + 5
        /\ \A i \in 1..n + 5 : SubSeq(s, 1, n + 5)[i] = s[i]
    BY <2>1, FirstOf
  <2>. QED BY <2>2, Zenon
<1>3. PICK w \in Seq(T) : IsJoin(w, r, g)
  BY Joined
<1>4. w = r \o g /\ Len(w) = n + 5 /\ \A i \in 1..n + 5 : w[i] = IF i <= n THEN r[i] ELSE g[i - n]
  BY <1>1, <1>3 DEF IsJoin
<1>5. ASSUME NEW i \in 1..n + 5 PROVE w[i] = q[i]
  <2>1. CASE i <= n
    BY <1>1, <1>2, <1>4, <2>1
  <2>2. CASE ~(i <= n)
    <3>1. i - n \in 1..5 /\ n + (i - n) = i
      BY <2>2
    <3>2. g[i - n] = s[i]
      BY <3>1
    <3>. QED BY <1>2, <1>4, <2>2, <3>2
  <2>. QED BY <2>1, <2>2
<1>6. w = q
  <2>1. Len(w) = Len(q) /\ \A i \in 1..Len(w) : w[i] = q[i]
    BY <1>2, <1>4, <1>5
  <2>. QED BY <2>1, SeqEqual
<1>. QED BY <1>1, <1>2, <1>4, <1>6

\* A text is its groups, one after the other.
LEMMA TextOfGroups ==
    ASSUME NEW T, NEW s \in Seq(T), NEW n \in Nat, Len(s) = 5 * n
    PROVE  FlattenSeq(GroupsOf(s, n)) = s
<1> DEFINE S == {m \in Nat : m <= n => FlattenSeq(GroupsOf(s, m)) = SubSeq(s, 1, 5 * m)}
<1>1. 0 \in S
  <2>1. GroupsOf(s, 0) = <<>> /\ SubSeq(s, 1, 5 * 0) = <<>>
    BY DEF GroupsOf
  <2>. QED BY <2>1, FlattenEmpty
<1>2. ASSUME NEW m \in Nat, m \in S PROVE m + 1 \in S
  <2>. SUFFICES ASSUME m + 1 <= n
                PROVE  FlattenSeq(GroupsOf(s, m + 1)) = SubSeq(s, 1, 5 * (m + 1))
    OBVIOUS
  <2>1. FlattenSeq(GroupsOf(s, m)) = SubSeq(s, 1, 5 * m)
    BY <1>2
  <2>2. \A k \in 1..m + 1 : GroupOf(s, k) \in Seq(T) /\ Len(GroupOf(s, k)) = 5
    <3>. TAKE k \in 1..m + 1
    <3>1. \A i \in 1..5 : s[5 * k - 5 + i] \in T
      OBVIOUS
    <3>. QED BY <3>1 DEF GroupOf
  <2>3. GroupsOf(s, m) \in Seq(Seq(T)) /\ Len(GroupsOf(s, m)) = m
    BY <2>2 DEF GroupsOf
  <2>4. PICK g \in Seq(T) : g = GroupOf(s, m + 1) /\ Len(g) = 5
    BY <2>2
  <2>5. GroupsOf(s, m + 1) = Append(GroupsOf(s, m), g)
    BY <2>2, <2>3, <2>4 DEF GroupsOf
  <2>6. FlattenSeq(GroupsOf(s, m + 1)) = FlattenSeq(GroupsOf(s, m)) \o g
    BY <2>3, <2>5, FlattenAppend
  <2>7. PICK p \in Nat : p = 5 * m /\ 5 * (m + 1) = p + 5
    OBVIOUS
  <2>8. \A i \in 1..5 : g[i] = s[p + i]
    <3>1. 5 * (m + 1) - 5 = p
      BY <2>7
    <3>. QED BY <2>4, <3>1 DEF GroupOf
  <2>9. SubSeq(s, 1, p) \o g = SubSeq(s, 1, p + 5)
    <3>1. p + 5 <= Len(s)
      BY <2>7
    <3>. QED BY <2>4, <2>8, <3>1, FirstExtended
  <2>. QED BY <2>1, <2>6, <2>7, <2>9
<1>. HIDE DEF S
<1>3. n \in S
  BY <1>1, <1>2, SetInduction
<1>. USE DEF S
<1>4. SubSeq(s, 1, 5 * n) = s
  OBVIOUS
<1>. QED BY <1>3, <1>4

\* The accumulator stays in its 32 bits.
LEMMA AccumulateType ==
    ASSUME NEW v \in [hi : Half, lo : Half], NEW code \in 0..84
    PROVE  Accumulate(v, code) \in [hi : Half, lo : Half]
<1>1. PICK h \in Half, l \in Half : v.hi = h /\ v.lo = l
  OBVIOUS
<1>2. /\ (h * 85 + (l * 85 + code) \div 65536) % 65536 \in Half
      /\ (l * 85 + code) % 65536 \in Half
  BY SMT DEF Half
<1>3. Accumulate(v, code)
        = [hi |-> (h * 85 + (l * 85 + code) \div 65536) % 65536, lo |-> (l * 85 + code) % 65536]
  BY <1>1, SMT DEF Accumulate, TimesPlus
<1>. QED BY <1>2, <1>3

\* It does not wrap while the sum fits.
LEMMA AccumulateFits ==
    ASSUME NEW u, NEW c, IsNumber(TimesPlus(u, c)), Fits(TimesPlus(u, c))
    PROVE  Accumulate(u, c) = TimesPlus(u, c)
<1>1. PICK v : v = TimesPlus(u, c)
  OBVIOUS
<1>2. v.hi % 65536 = v.hi /\ v = [hi |-> v.hi, lo |-> v.lo]
  BY <1>1, SMT DEF IsNumber, Fits
<1>3. Accumulate(u, c) = [v EXCEPT !.hi = v.hi % 65536]
  BY <1>1 DEF Accumulate
<1>. QED BY <1>1, <1>2, <1>3

\* Reading the next character of a group that fits.
LEMMA AccumulateNext ==
    ASSUME NEW text, NEW k, \A i \in 1..5 : Digit(text, k, i) \in 0..84, GroupFits(text, k),
           NEW m \in 0..4
    PROVE  Accumulate(SumOf(text, k, m), Digit(text, k, m + 1)) = SumOf(text, k, m + 1)
<1>1. /\ IsNumber(Sum1(text, k)) /\ IsNumber(Sum2(text, k)) /\ IsNumber(Sum3(text, k))
      /\ IsNumber(Sum4(text, k)) /\ IsNumber(Sum5(text, k))
      /\ Fits(Sum1(text, k)) /\ Fits(Sum2(text, k)) /\ Fits(Sum3(text, k))
      /\ Fits(Sum4(text, k)) /\ Fits(Sum5(text, k))
  <2>1. Fits(Sum5(text, k))
    BY DEF Fits, GroupFits
  <2>. QED BY <2>1, SumsOfDigits
<1>2. CASE m = 0
  <2>1. Accumulate(Zero, Digit(text, k, 1)) = Sum1(text, k)
    BY <1>1, AccumulateFits DEF Sum1
  <2>2. SumOf(text, k, 0) = Zero /\ SumOf(text, k, 0 + 1) = Sum1(text, k) /\ 0 + 1 = 1
    BY DEF SumOf
  <2>. QED BY <1>2, <2>1, <2>2
<1>3. CASE m = 1
  <2>1. Accumulate(Sum1(text, k), Digit(text, k, 2)) = Sum2(text, k)
    BY <1>1, AccumulateFits DEF Sum2
  <2>2. SumOf(text, k, 1) = Sum1(text, k) /\ SumOf(text, k, 1 + 1) = Sum2(text, k) /\ 1 + 1 = 2
    BY DEF SumOf
  <2>. QED BY <1>3, <2>1, <2>2
<1>4. CASE m = 2
  <2>1. Accumulate(Sum2(text, k), Digit(text, k, 3)) = Sum3(text, k)
    BY <1>1, AccumulateFits DEF Sum3
  <2>2. SumOf(text, k, 2) = Sum2(text, k) /\ SumOf(text, k, 2 + 1) = Sum3(text, k) /\ 2 + 1 = 3
    BY DEF SumOf
  <2>. QED BY <1>4, <2>1, <2>2
<1>5. CASE m = 3
  <2>1. Accumulate(Sum3(text, k), Digit(text, k, 4)) = Sum4(text, k)
    BY <1>1, AccumulateFits DEF Sum4
  <2>2. SumOf(text, k, 3) = Sum3(text, k) /\ SumOf(text, k, 3 + 1) = Sum4(text, k) /\ 3 + 1 = 4
    BY DEF SumOf
  <2>. QED BY <1>5, <2>1, <2>2
<1>6. CASE m = 4
  <2>1. Accumulate(Sum4(text, k), Digit(text, k, 5)) = Sum5(text, k)
    BY <1>1, AccumulateFits DEF Sum5
  <2>2. SumOf(text, k, 4) = Sum4(text, k) /\ SumOf(text, k, 4 + 1) = Sum5(text, k) /\ 4 + 1 = 5
    BY DEF SumOf
  <2>. QED BY <1>6, <2>1, <2>2
<1>. QED BY <1>2, <1>3, <1>4, <1>5, <1>6

\* The groups of a decodable text fit, and their digits are the codes of its characters.
LEMMA DecodableGroups ==
    ASSUME NEW text \in Seq(Chars), Decodable(text), NEW k \in 1..Len(text) \div 5
    PROVE  /\ GroupFits(text, k)
           /\ \A i \in 1..5 : /\ text[5 * k - 5 + i] \in ToSet(Standard)
                              /\ Digit(text, k, i) \in 0..84
                              /\ Digit(text, k, i) = CodeOf(text[5 * k - 5 + i])
                              /\ text[5 * k - 5 + i] \in Coded
<1>1. GroupFits(text, k)
  BY DEF Decodable, IsEncoding
<1>2. ASSUME NEW i \in 1..5
      PROVE  /\ text[5 * k - 5 + i] \in ToSet(Standard)
             /\ Digit(text, k, i) \in 0..84
             /\ Digit(text, k, i) = CodeOf(text[5 * k - 5 + i])
             /\ text[5 * k - 5 + i] \in Coded
  <2>1. 5 * k - 5 + i \in DOMAIN text
    <3>1. PICK n \in Nat : n = Len(text) /\ DOMAIN text = 1..n
      OBVIOUS
    <3>. QED BY <3>1
  <2>2. PICK c : c = text[5 * k - 5 + i]
    OBVIOUS
  <2>3. c \in ToSet(text)
    BY <2>1, <2>2 DEF ToSet
  <2>4. c \in ToSet(Standard) /\ c \in Coded /\ CodeOf(c) = StandardCode(c)
    BY <2>3 DEF Decodable, IsEncoding
  <2>. QED BY <2>2, <2>4, CodesAreCodes DEF Digit
<1>. QED BY <1>1, <1>2

-------------------------------------------------------------------------------

LEMMA DecodeInitially == Init => DecodeInv
<1>. SUFFICES ASSUME Init PROVE DecodeInv
  OBVIOUS
<1>1. /\ Zero \in [hi : Half, lo : Half]
      /\ <<>> \in Seq(Chars) /\ <<>> \in Seq(Byte)
      /\ 0 \in Codes /\ {0} \in SUBSET Codes /\ 0 \in 0..256 /\ 0 \in 0..MaxDecodes
  BY SMT, Z85DecodeAssumption DEF Zero, Half, Codes
<1>2. StateInv
  BY <1>1 DEF Init, StateInv, Outcomes
<1>3. ProgressInv
  BY DEF Init, ProgressInv
<1>4. StoredInv
  BY DEF Init, StoredInv
<1>5. DecodedInv
  BY DEF Init, DecodedInv
<1>. QED BY <1>2, <1>3, <1>4, <1>5 DEF DecodeInv

LEMMA DecodeBegin ==
    ASSUME DecodeInv, NEW t \in Threads, Begin(t)
    PROVE  DecodeInv'
<1>1. PICK text \in Inputs, place \in {"ok", "bad_length", "lookup", "erase"} :
         /\ input' = [input EXCEPT ![t] = text]
         /\ pc' = [pc EXCEPT ![t] = place]
         /\ place = "ok" => text = <<>>
         /\ place \in {"lookup", "erase"} => text # <<>> /\ Len(text) % 5 = 0
  <2>1. PICK text \in Inputs :
           /\ input' = [input EXCEPT ![t] = text]
           /\ pc' = [pc EXCEPT ![t] = IF text = <<>> THEN "ok"
                                      ELSE IF Len(text) % 5 # 0 THEN "bad_length"
                                      ELSE IF initialized THEN "lookup" ELSE "erase"]
    BY Zenon DEF Begin
  <2>2. CASE text = <<>>
    BY <2>1, <2>2
  <2>3. CASE text # <<>> /\ Len(text) % 5 # 0
    BY <2>1, <2>3
  <2>4. CASE text # <<>> /\ Len(text) % 5 = 0 /\ initialized
    BY <2>1, <2>4
  <2>5. CASE text # <<>> /\ Len(text) % 5 = 0 /\ ~initialized
    BY <2>1, <2>5
  <2>. QED BY <2>2, <2>3, <2>4, <2>5
<1>2. /\ pc[t] \in Outcomes /\ decodes[t] < MaxDecodes
      /\ counter' = [counter EXCEPT ![t] = 0]
      /\ at' = [at EXCEPT ![t] = 0]
      /\ value' = [value EXCEPT ![t] = Zero]
      /\ output' = [output EXCEPT ![t] = <<>>]
      /\ decodes' = [decodes EXCEPT ![t] = @ + 1]
      /\ UNCHANGED <<decoder, held, initialized, filler>>
  BY DEF Begin
<1>3. text \in Seq(Chars)
  BY Z85DecodeAssumption
<1>4. /\ Zero \in [hi : Half, lo : Half] /\ <<>> \in Seq(Byte)
      /\ decodes[t] + 1 \in 0..MaxDecodes
  <2>1. decodes[t] \in Nat /\ MaxDecodes \in Nat
    BY Z85DecodeAssumption DEF DecodeInv, StateInv
  <2>2. decodes[t] + 1 \in 0..MaxDecodes
    BY <1>2, <2>1
  <2>. QED BY <2>2, SMT DEF Zero, Half
<1>5. StateInv'
  BY <1>1, <1>2, <1>3, <1>4 DEF DecodeInv, StateInv, Outcomes
<1>6. /\ input'[t] = text /\ pc'[t] = place /\ counter'[t] = 0 /\ at'[t] = 0
      /\ value'[t] = Zero /\ output'[t] = <<>>
      /\ \A s \in Threads \ {t} :
            /\ input'[s] = input[s] /\ pc'[s] = pc[s] /\ counter'[s] = counter[s]
            /\ at'[s] = at[s] /\ value'[s] = value[s] /\ output'[s] = output[s]
  BY <1>1, <1>2 DEF DecodeInv, StateInv
<1>7. ProgressInv'
  <2>1. text # <<>> => 0 < Len(text)
    BY <1>3, EmptySeq
  <2>2. 0 <= Len(text) /\ (text = <<>> => 0 = Len(text))
    BY <1>3
  <2>3. Len(<<>>) = 4 * (0 \div 5)
    OBVIOUS
  <2>4. /\ at'[t] <= Len(input'[t]) /\ Len(output'[t]) = 4 * (at'[t] \div 5)
        /\ pc'[t] \in {"erase", "fill", "lookup"}
              => at'[t] < Len(input'[t]) /\ Len(input'[t]) % 5 = 0
        /\ pc'[t] = "ok" => at'[t] = Len(input'[t])
    BY <1>1, <1>6, <2>1, <2>2, <2>3
  <2>5. ASSUME NEW s \in Threads \ {t}
        PROVE  /\ at'[s] <= Len(input'[s]) /\ Len(output'[s]) = 4 * (at'[s] \div 5)
               /\ pc'[s] \in {"erase", "fill", "lookup"}
                     => at'[s] < Len(input'[s]) /\ Len(input'[s]) % 5 = 0
               /\ pc'[s] = "ok" => at'[s] = Len(input'[s])
    BY <1>6 DEF DecodeInv, ProgressInv
  <2>. QED BY <2>4, <2>5 DEF ProgressInv
<1>8. StoredInv'
  <2>1. ~(\E c \in Chars : c < 0)
    BY Numbers
  <2>2. \A c : Stored(c)' <=> Stored(c)
    BY <1>2 DEF Stored
  <2>. QED BY <1>1, <1>2, <1>6, <2>1, <2>2 DEF DecodeInv, StoredInv
<1>9. DecodedInv'
  <2>1. Decoded(t)'
    <3>1. SumOf(text, 0 \div 5 + 1, 0 % 5) = Zero
      BY DEF SumOf
    <3>. QED BY <1>6, <3>1 DEF Decoded
  <2>2. \A s \in Threads \ {t} : Decoded(s)' <=> Decoded(s)
    BY <1>6 DEF Decoded
  <2>. QED BY <1>2, <1>6, <2>1, <2>2 DEF DecodeInv, DecodedInv
<1>. QED BY <1>5, <1>7, <1>8, <1>9 DEF DecodeInv

\* A store of what is stored for the character.
LEMMA StoreKeeps ==
    ASSUME StateInv, NEW c \in Chars, NEW code \in Codes, Store(c, code),
           code = Invalid \/ (c \in Coded /\ code = CodeOf(c))
    PROVE  /\ decoder' \in [Chars -> Codes]
           /\ held' \in [Chars -> SUBSET Codes]
           /\ \A d \in Chars : decoder'[d] \in held'[d]
           /\ Stored(c)'
           /\ \A d \in Chars : Stored(d) => Stored(d)'
<1>1. /\ decoder' = [decoder EXCEPT ![c] = code]
      /\ held' = [held EXCEPT ![c] = @ \cup {code}]
  BY DEF Store
<1>2. decoder' \in [Chars -> Codes] /\ held' \in [Chars -> SUBSET Codes]
  BY <1>1 DEF StateInv
<1>3. \A d \in Chars : decoder'[d] \in held'[d]
  BY <1>1 DEF StateInv
<1>4. decoder'[c] = code /\ \A d \in Chars \ {c} : decoder'[d] = decoder[d]
  BY <1>1 DEF StateInv
<1>5. Stored(c)'
  BY <1>4 DEF Stored
<1>. QED BY <1>2, <1>3, <1>4, <1>5 DEF Stored

\* A step that only moves a thread from one loop to the next leaves what it decodes.
LEMMA MoveKeeps ==
    ASSUME DecodeInv, NEW t \in Threads, pc[t] \in {"erase", "fill"},
           NEW place \in {"erase", "fill", "lookup"}, pc' = [pc EXCEPT ![t] = place],
           filler' \subseteq filler \cup {t},
           UNCHANGED <<input, at, value, output, decodes>>
    PROVE  ProgressInv' /\ DecodedInv' /\ pc' \in [Threads -> Outcomes \cup {"erase", "fill", "lookup"}]
<1>1. pc'[t] = place /\ \A s \in Threads \ {t} : pc'[s] = pc[s]
  BY DEF DecodeInv, StateInv
<1>2. \A s : Decoded(s)' <=> Decoded(s)
  BY DEF Decoded
<1>3. DecodedInv'
  BY <1>1, <1>2 DEF DecodeInv, DecodedInv
<1>4. ProgressInv'
  BY <1>1 DEF DecodeInv, ProgressInv
<1>. QED BY <1>3, <1>4 DEF DecodeInv, StateInv

LEMMA DecodeErase ==
    ASSUME DecodeInv, NEW t \in Threads, Erase(t)
    PROVE  DecodeInv'
<1>1. PICK c \in Chars :
         /\ Reaches(t, c, Chars) /\ Store(c, Invalid)
         /\ IF \A d \in Chars : d <= c
            THEN pc' = [pc EXCEPT ![t] = "fill"] /\ counter' = [counter EXCEPT ![t] = 1]
            ELSE counter' = [counter EXCEPT ![t] = c + 1] /\ UNCHANGED pc
  BY DEF Erase
<1>2. pc[t] = "erase" /\ UNCHANGED <<initialized, input, at, value, output, filler, decodes>>
  BY DEF Erase
<1>3. PICK place \in {"erase", "fill"}, n \in 0..256 :
         /\ pc' = [pc EXCEPT ![t] = place] /\ counter' = [counter EXCEPT ![t] = n]
         /\ place = "fill" => \A d \in Chars : d <= c
         /\ place = "erase" => n = c + 1
  <2>1. c + 1 \in 0..256 /\ 1 \in 0..256
    BY Numbers
  <2>2. pc = [pc EXCEPT ![t] = "erase"]
    BY <1>2 DEF DecodeInv, StateInv
  <2>3. CASE \A d \in Chars : d <= c
    BY <1>1, <2>1, <2>3
  <2>4. CASE ~\A d \in Chars : d <= c
    BY <1>1, <2>1, <2>2, <2>4
  <2>. QED BY <2>3, <2>4
<1>4. /\ pc'[t] = place /\ counter'[t] = n
      /\ \A s \in Threads \ {t} : pc'[s] = pc[s] /\ counter'[s] = counter[s]
  BY <1>3 DEF DecodeInv, StateInv
<1>5. /\ decoder' \in [Chars -> Codes] /\ held' \in [Chars -> SUBSET Codes]
      /\ \A d \in Chars : decoder'[d] \in held'[d]
      /\ Stored(c)' /\ \A d \in Chars : Stored(d) => Stored(d)'
  <2>1. Invalid \in Codes
    BY DEF Codes
  <2>. QED BY <1>1, <2>1, StoreKeeps DEF DecodeInv
<1>6. ProgressInv' /\ DecodedInv' /\ pc' \in [Threads -> Outcomes \cup {"erase", "fill", "lookup"}]
  <2>1. pc[t] \in {"erase", "fill"} /\ place \in {"erase", "fill", "lookup"} /\ filler' \subseteq filler \cup {t}
    BY <1>2
  <2>. QED BY <1>2, <1>3, <2>1, MoveKeeps
<1>7. StateInv'
  BY <1>2, <1>3, <1>5, <1>6 DEF DecodeInv, StateInv
<1>8. StoredInv'
  <2>1. \A d \in Chars : d <= c => Stored(d)'
    <3>. SUFFICES ASSUME NEW d \in Chars, d <= c PROVE Stored(d)'
      OBVIOUS
    <3>1. d \in Int /\ c \in Int /\ counter[t] \in Int
      <4>1. counter[t] \in 0..256
        BY DEF DecodeInv, StateInv
      <4>. QED BY <4>1, Numbers
    <3>2. d < counter[t] => Stored(d)
      BY <1>2 DEF DecodeInv, StoredInv
    <3>3. d >= counter[t] => d = c
      BY <1>1, <3>1 DEF Reaches
    <3>. QED BY <1>5, <3>1, <3>2, <3>3
  <2>2. \A d \in Chars : d \in Int
    BY Numbers
  <2>3. \A d \in Chars : pc'[t] = "fill" \/ (pc'[t] = "erase" /\ d < counter'[t]) => Stored(d)'
    BY <1>3, <1>4, <2>1, <2>2
  <2>. QED BY <1>2, <1>4, <1>5, <2>3 DEF DecodeInv, StoredInv
<1>. QED BY <1>6, <1>7, <1>8 DEF DecodeInv

LEMMA DecodeFill ==
    ASSUME DecodeInv, NEW t \in Threads, Fill(t)
    PROVE  DecodeInv'
<1>1. PICK n \in FillAt :
         Store(encoder[n], CodeOf(encoder[n])) /\ counter' = [counter EXCEPT ![t] = n + 1]
  BY DEF Fill
<1>2. pc[t] = "fill" /\ UNCHANGED <<initialized, pc, input, at, value, output, filler, decodes>>
  BY DEF Fill
<1>3. n + 1 \in 0..256 /\ encoder[n] \in Coded /\ encoder[n] \in Chars
  BY Alphabets, CodedStands DEF FillAt
<1>4. /\ decoder' \in [Chars -> Codes] /\ held' \in [Chars -> SUBSET Codes]
      /\ \A d \in Chars : decoder'[d] \in held'[d]
      /\ \A d \in Chars : Stored(d) => Stored(d)'
  <2>1. CodeOf(encoder[n]) \in Codes
    BY <1>3, CodesAreCodes DEF Codes
  <2>. QED BY <1>1, <1>3, <2>1, StoreKeeps DEF DecodeInv
<1>5. pc' = [pc EXCEPT ![t] = "fill"]
  BY <1>2 DEF DecodeInv, StateInv
<1>6. ProgressInv' /\ DecodedInv'
  <2>1. pc[t] \in {"erase", "fill"} /\ "fill" \in {"erase", "fill", "lookup"}
        /\ filler' \subseteq filler \cup {t}
    BY <1>2
  <2>. QED BY <1>2, <1>5, <2>1, MoveKeeps
<1>7. counter' \in [Threads -> 0..256] /\ \A s \in Threads \ {t} : counter'[s] = counter[s]
  BY <1>1, <1>3 DEF DecodeInv, StateInv
<1>8. StateInv'
  BY <1>2, <1>4, <1>7 DEF DecodeInv, StateInv
<1>9. StoredInv'
  BY <1>2, <1>4, <1>7 DEF DecodeInv, StoredInv
<1>. QED BY <1>6, <1>8, <1>9 DEF DecodeInv

LEMMA DecodeSetInitialized ==
    ASSUME DecodeInv, NEW t \in Threads, SetInitialized(t)
    PROVE  DecodeInv'
<1>1. /\ pc[t] = "fill" /\ initialized' = TRUE
      /\ filler' = filler \cup {t} /\ pc' = [pc EXCEPT ![t] = "lookup"]
      /\ UNCHANGED <<decoder, held, counter, input, at, value, output, decodes>>
  BY DEF SetInitialized
<1>2. ProgressInv' /\ DecodedInv' /\ pc' \in [Threads -> Outcomes \cup {"erase", "fill", "lookup"}]
  <2>1. pc[t] \in {"erase", "fill"} /\ "lookup" \in {"erase", "fill", "lookup"}
        /\ filler' \subseteq filler \cup {t}
    BY <1>1
  <2>. QED BY <1>1, <2>1, MoveKeeps
<1>3. StateInv'
  BY <1>1, <1>2 DEF DecodeInv, StateInv
<1>4. StoredInv'
  <2>1. \A c : Stored(c)' <=> Stored(c)
    BY <1>1 DEF Stored
  <2>2. pc'[t] = "lookup" /\ \A s \in Threads \ {t} : pc'[s] = pc[s]
    BY <1>1 DEF DecodeInv, StateInv
  <2>. QED BY <1>1, <2>1, <2>2 DEF DecodeInv, StoredInv
<1>. QED BY <1>2, <1>3, <1>4 DEF DecodeInv

\* A character of a text is the next digit of its group.
LEMMA GroupPlace ==
    ASSUME NEW a \in Nat, NEW len \in Nat, a < len, len % 5 = 0
    PROVE  /\ a % 5 \in 0..4 /\ a \div 5 \in Nat
           /\ a \div 5 + 1 \in 1..len \div 5
           /\ 5 * (a \div 5 + 1) - 5 + ((a % 5) + 1) = a + 1
           /\ a % 5 = 4 => (a + 1) % 5 = 0 /\ (a + 1) \div 5 = a \div 5 + 1
           /\ a % 5 # 4 => (a + 1) % 5 = (a % 5) + 1 /\ (a + 1) \div 5 = a \div 5
<1>1. PICK q \in Nat, r \in 0..4 : q = a \div 5 /\ r = a % 5 /\ a = 5 * q + r
  OBVIOUS
<1>2. PICK p \in Nat : len = 5 * p /\ p = len \div 5
  OBVIOUS
<1>3. q + 1 \in 1..p
  BY <1>1, <1>2
<1>4. r = 4 => (a + 1) % 5 = 0 /\ (a + 1) \div 5 = q + 1
  BY <1>1
<1>5. r # 4 => (a + 1) % 5 = r + 1 /\ (a + 1) \div 5 = q
  BY <1>1
<1>6. 5 * (q + 1) - 5 + (r + 1) = a + 1
  BY <1>1
<1>. QED BY <1>1, <1>2, <1>3, <1>4, <1>5, <1>6

LEMMA DecodeLookup ==
    ASSUME DecodeInv, NEW t \in Threads, Lookup(t)
    PROVE  DecodeInv'
<1>1. /\ pc[t] = "lookup"
      /\ UNCHANGED <<decoder, held, initialized, counter, input, filler, decodes>>
  BY DEF Lookup
<1>2. PICK n : n = at[t] + 1
  OBVIOUS
<1>2a. PICK char_val \in Readable(t, input[t][n]) :
         IF char_val = Invalid
         THEN /\ pc' = [pc EXCEPT ![t] = "bad_char"]
              /\ UNCHANGED <<at, value, output>>
         ELSE /\ at' = [at EXCEPT ![t] = n]
              /\ value' = [value EXCEPT ![t] = IF n % 5 = 0 THEN Zero ELSE Accumulate(value[t], char_val)]
              /\ output' = [output EXCEPT ![t] = IF n % 5 = 0 THEN @ \o BytesOf(Accumulate(value[t], char_val)) ELSE @]
              /\ pc' = [pc EXCEPT ![t] = IF n = Len(input[t]) THEN "ok" ELSE @]
  BY <1>2, Zenon DEF Lookup
<1>2b. PICK sum : sum = Accumulate(value[t], char_val)
  OBVIOUS
<1>3. /\ char_val \in Readable(t, input[t][n])
      /\ sum = Accumulate(value[t], char_val)
      /\ IF char_val = Invalid
         THEN /\ pc' = [pc EXCEPT ![t] = "bad_char"]
              /\ UNCHANGED <<at, value, output>>
         ELSE /\ at' = [at EXCEPT ![t] = n]
              /\ value' = [value EXCEPT ![t] = IF n % 5 = 0 THEN Zero ELSE sum]
              /\ output' = [output EXCEPT ![t] = IF n % 5 = 0 THEN @ \o BytesOf(sum) ELSE @]
              /\ pc' = [pc EXCEPT ![t] = IF n = Len(input[t]) THEN "ok" ELSE @]
  BY <1>2a, <1>2b, Zenon
<1>4. /\ input[t] \in Seq(Chars) /\ at[t] \in Nat /\ Len(input[t]) \in Nat
      /\ at[t] < Len(input[t]) /\ Len(input[t]) % 5 = 0
      /\ n \in 1..Len(input[t])
  <2>1. input[t] \in Seq(Chars) /\ at[t] \in Nat
    BY DEF DecodeInv, StateInv
  <2>2. at[t] < Len(input[t]) /\ Len(input[t]) % 5 = 0
    BY <1>1 DEF DecodeInv, ProgressInv
  <2>3. Len(input[t]) \in Nat
    BY <2>1
  <2>4. \A a, len \in Nat : a < len => a + 1 \in 1..len
    OBVIOUS
  <2>5. n \in 1..Len(input[t])
    BY <1>2, <2>1, <2>2, <2>3, <2>4
  <2>. QED BY <2>1, <2>2, <2>3, <2>5
<1>5. PICK c \in Chars : c = input[t][n]
  BY <1>4
<1>6. char_val \in Codes
  BY <1>3, <1>5 DEF Readable, DecodeInv, StateInv
<1>7. PICK place \in {"ok", "bad_char", "lookup"} :
         /\ pc' = [pc EXCEPT ![t] = place]
         /\ place = "ok" => char_val # Invalid /\ n = Len(input[t])
         /\ place = "lookup" => char_val # Invalid /\ n # Len(input[t])
         /\ place = "bad_char" => char_val = Invalid
  <2>1. CASE char_val = Invalid
    BY <1>3, <2>1
  <2>2. CASE char_val # Invalid /\ n = Len(input[t])
    BY <1>3, <2>2
  <2>3. CASE char_val # Invalid /\ n # Len(input[t])
    BY <1>1, <1>3, <2>3
  <2>. QED BY <2>1, <2>2, <2>3
<1>8. /\ pc'[t] = place /\ \A s \in Threads \ {t} : pc'[s] = pc[s]
      /\ pc' \in [Threads -> Outcomes \cup {"erase", "fill", "lookup"}]
  BY <1>7 DEF DecodeInv, StateInv, Outcomes
<1>9. StoredInv'
  <2>1. \A d : Stored(d)' <=> Stored(d)
    BY <1>1 DEF Stored
  <2>. QED BY <1>1, <1>8, <2>1 DEF DecodeInv, StoredInv
<1>10. CASE char_val = Invalid
  <2>1. UNCHANGED <<at, value, output>> /\ place = "bad_char"
    BY <1>3, <1>7, <1>10
  <2>2. StateInv'
    BY <1>1, <1>8, <2>1 DEF DecodeInv, StateInv
  <2>3. ProgressInv'
    BY <1>1, <1>8, <2>1 DEF DecodeInv, ProgressInv
  <2>4. \A s : Decoded(s)' <=> Decoded(s)
    BY <1>1, <2>1 DEF Decoded
  <2>5. DecodedInv'
    BY <1>1, <1>8, <2>1, <2>4 DEF DecodeInv, DecodedInv
  <2>. QED BY <1>9, <2>2, <2>3, <2>5 DEF DecodeInv
<1>11. CASE char_val # Invalid
  <2>1. /\ at' = [at EXCEPT ![t] = n]
        /\ value' = [value EXCEPT ![t] = IF n % 5 = 0 THEN Zero ELSE sum]
        /\ output' = [output EXCEPT ![t] = IF n % 5 = 0 THEN output[t] \o BytesOf(sum) ELSE output[t]]
    BY <1>3, <1>11
  <2>2. char_val \in 0..84 /\ sum \in [hi : Half, lo : Half]
    <3>1. char_val \in 0..84
      BY <1>6, <1>11 DEF Codes
    <3>2. value[t] \in [hi : Half, lo : Half]
      BY DEF DecodeInv, StateInv
    <3>. QED BY <1>3, <3>1, <3>2, AccumulateType
  <2>3. output[t] \in Seq(Byte) /\ Len(output[t]) = 4 * (at[t] \div 5)
    BY DEF DecodeInv, StateInv, ProgressInv
  <2>4. PICK bytes \in Seq(Byte) : bytes = BytesOf(sum) /\ Len(bytes) = 4
    <3>1. sum.hi \in Half /\ sum.lo \in Half
      BY <2>2
    <3>. QED BY <3>1, FourBytes
  <2>5. PICK out \in Seq(Byte) : IsJoin(out, output[t], bytes)
    BY <2>3, Joined
  <2>6. /\ at'[t] = n /\ value'[t] = (IF n % 5 = 0 THEN Zero ELSE sum)
        /\ output'[t] = (IF n % 5 = 0 THEN out ELSE output[t])
        /\ \A s \in Threads \ {t} : at'[s] = at[s] /\ value'[s] = value[s] /\ output'[s] = output[s]
    BY <2>1, <2>4, <2>5 DEF DecodeInv, StateInv, IsJoin
  <2>7. /\ at[t] % 5 \in 0..4 /\ at[t] \div 5 \in Nat
        /\ at[t] \div 5 + 1 \in 1..Len(input[t]) \div 5
        /\ 5 * (at[t] \div 5 + 1) - 5 + ((at[t] % 5) + 1) = n
        /\ at[t] % 5 = 4 => n % 5 = 0 /\ n \div 5 = at[t] \div 5 + 1
        /\ at[t] % 5 # 4 => n % 5 = (at[t] % 5) + 1 /\ n \div 5 = at[t] \div 5
    BY <1>2, <1>4, GroupPlace
  <2>8. StateInv'
    <3>1. Zero \in [hi : Half, lo : Half]
      BY SMT DEF Zero, Half
    <3>2. at' \in [Threads -> Nat]
      BY <1>4, <2>1 DEF DecodeInv, StateInv
    <3>3. value' \in [Threads -> [hi : Half, lo : Half]]
      BY <2>1, <2>2, <3>1 DEF DecodeInv, StateInv
    <3>4. output' \in [Threads -> Seq(Byte)]
      <4>1. (IF n % 5 = 0 THEN output[t] \o BytesOf(sum) ELSE output[t]) \in Seq(Byte)
        BY <2>3, <2>4, <2>5 DEF IsJoin
      <4>. QED BY <2>1, <4>1 DEF DecodeInv, StateInv
    <3>. QED BY <1>1, <1>8, <3>2, <3>3, <3>4 DEF DecodeInv, StateInv
  <2>9. ProgressInv'
    <3>1. Len(output'[t]) = 4 * (n \div 5)
      <4>1. Len(out) = 4 * (at[t] \div 5) + 4
        BY <2>3, <2>4, <2>5 DEF IsJoin
      <4>2. CASE at[t] % 5 = 4
        BY <2>6, <2>7, <4>1, <4>2
      <4>3. CASE at[t] % 5 # 4
        <5>1. n % 5 # 0 /\ n \div 5 = at[t] \div 5
          BY <2>7, <4>3
        <5>. QED BY <2>3, <2>6, <5>1
      <4>. QED BY <4>2, <4>3
    <3>2. /\ n <= Len(input[t]) /\ (n # Len(input[t]) => n < Len(input[t]))
      BY <1>4
    <3>3. /\ at'[t] <= Len(input'[t]) /\ Len(output'[t]) = 4 * (at'[t] \div 5)
          /\ pc'[t] \in {"erase", "fill", "lookup"}
                => at'[t] < Len(input'[t]) /\ Len(input'[t]) % 5 = 0
          /\ pc'[t] = "ok" => at'[t] = Len(input'[t])
      BY <1>1, <1>4, <1>7, <1>8, <2>6, <3>1, <3>2
    <3>. QED BY <1>1, <1>8, <2>6, <3>3 DEF DecodeInv, ProgressInv
  <2>10. ASSUME t \in filler, Decodable(input[t]) PROVE Decoded(t)'
    <3>1. PICK k, m : k = at[t] \div 5 + 1 /\ m = at[t] % 5
      OBVIOUS
    <3>2. PICK text \in Seq(Chars) : text = input[t]
      BY <1>4
    <3>3. /\ GroupFits(text, k)
          /\ \A i \in 1..5 : Digit(text, k, i) \in 0..84
                             /\ Digit(text, k, i) = CodeOf(text[5 * k - 5 + i])
                             /\ text[5 * k - 5 + i] \in Coded
      BY <2>7, <2>10, <3>1, <3>2, DecodableGroups
    <3>4. m \in 0..4 /\ m + 1 \in 1..5 /\ 5 * k - 5 + (m + 1) = n
      BY <2>7, <3>1
    <3>5. char_val = Digit(text, k, m + 1)
      <4>1. char_val = decoder[c] /\ Stored(c)
        BY <1>3, <1>5, <2>10 DEF Readable, DecodeInv, StoredInv
      <4>2. char_val = CodeOf(c)
        BY <1>11, <4>1 DEF Stored
      <4>. QED BY <1>5, <3>2, <3>3, <3>4, <4>2
    <3>6. Decoded(t)
      BY <2>10 DEF DecodeInv, DecodedInv
    <3>7. sum = SumOf(text, k, m + 1)
      <4>1. value[t] = SumOf(text, k, m)
        BY <3>1, <3>2, <3>6 DEF Decoded
      <4>2. Accumulate(SumOf(text, k, m), Digit(text, k, m + 1)) = SumOf(text, k, m + 1)
        <5>1. \A i \in 1..5 : Digit(text, k, i) \in 0..84
          BY <3>3
        <5>2. GroupFits(text, k) /\ m \in 0..4
          BY <3>3, <3>4
        <5>. QED BY <5>1, <5>2, AccumulateNext
      <4>. QED BY <1>3, <3>5, <4>1, <4>2
    <3>8. CASE m = 4
      <4>1. n % 5 = 0 /\ n \div 5 = k /\ k - 1 = at[t] \div 5 /\ k \in Nat
        BY <2>7, <3>1, <3>8
      <4>2. sum = Sum5(text, k)
        BY <3>7, <3>8 DEF SumOf
      <4>3. value'[t] = SumOf(text, n \div 5 + 1, n % 5)
        BY <2>6, <4>1 DEF SumOf
      <4>4. ASSUME NEW j \in 1..k, NEW i \in 1..4
            PROVE  out[4 * j - 4 + i] = BytesOf(Sum5(text, j))[i]
        <5>1. PICK p \in Nat : p = 4 * (k - 1) /\ Len(output[t]) = p
          BY <2>3, <4>1
        <5>2. \A x \in 1..p + 4 : out[x] = IF x <= p THEN output[t][x] ELSE bytes[x - p]
          BY <2>4, <2>5, <5>1 DEF IsJoin
        <5>3. CASE j = k
          <6>1. /\ 4 * j - 4 + i \in 1..p + 4 /\ ~(4 * j - 4 + i <= p)
                /\ (4 * j - 4 + i) - p = i
            BY <4>1, <5>1, <5>3
          <6>. QED BY <2>4, <4>2, <5>2, <5>3, <6>1
        <5>4. CASE j # k
          <6>1. j \in 1..at[t] \div 5 /\ 4 * j - 4 + i \in 1..p + 4 /\ 4 * j - 4 + i <= p
            BY <4>1, <5>1, <5>4
          <6>2. output[t][4 * j - 4 + i] = BytesOf(Sum5(text, j))[i]
            BY <3>2, <3>6, <6>1 DEF Decoded
          <6>. QED BY <5>2, <6>1, <6>2
        <5>. QED BY <5>3, <5>4
      <4>5. output'[t] = out /\ input'[t] = text /\ at'[t] = n
        BY <1>1, <2>6, <3>2, <4>1
      <4>. QED BY <4>1, <4>3, <4>4, <4>5 DEF Decoded
    <3>9. CASE m # 4
      <4>1. n % 5 = m + 1 /\ n % 5 # 0 /\ n \div 5 = at[t] \div 5 /\ n \div 5 + 1 = k
        <5>1. at[t] % 5 # 4
          BY <3>1, <3>9
        <5>2. n % 5 = m + 1 /\ n \div 5 = at[t] \div 5
          BY <2>7, <3>1, <5>1
        <5>3. m + 1 # 0
          BY <3>4
        <5>. QED BY <3>1, <5>2, <5>3
      <4>2. value'[t] = SumOf(text, n \div 5 + 1, n % 5)
        BY <2>6, <3>7, <4>1
      <4>3. output'[t] = output[t] /\ input'[t] = text /\ at'[t] = n
        BY <1>1, <2>6, <3>2, <4>1
      <4>. QED BY <3>2, <3>6, <4>1, <4>2, <4>3 DEF Decoded
    <3>. QED BY <3>8, <3>9
  <2>11. DecodedInv'
    <3>1. \A s \in Threads \ {t} : Decoded(s)' <=> Decoded(s)
      BY <1>1, <2>6 DEF Decoded
    <3>. QED BY <1>1, <1>7, <1>8, <2>10, <3>1 DEF DecodeInv, DecodedInv
  <2>. QED BY <1>9, <2>8, <2>9, <2>11 DEF DecodeInv
<1>. QED BY <1>10, <1>11

LEMMA DecodePreserved == DecodeInv /\ [Next]_vars => DecodeInv'
<1>. SUFFICES ASSUME DecodeInv, [Next]_vars PROVE DecodeInv'
  OBVIOUS
<1>1. ASSUME NEW t \in Threads, Begin(t) \/ Erase(t) \/ Fill(t) \/ SetInitialized(t) \/ Lookup(t)
      PROVE  DecodeInv'
  BY <1>1, DecodeBegin, DecodeErase, DecodeFill, DecodeSetInitialized, DecodeLookup
<1>2. CASE UNCHANGED vars
  BY <1>2 DEF vars, DecodeInv, StateInv, ProgressInv, StoredInv, Stored, DecodedInv, Decoded
<1>. QED BY <1>1, <1>2 DEF Next

\* Characters found in the table, places and bytes found so far stay in step, for any
\* threads and any texts.
THEOREM DecodeInductive == Spec => []DecodeInv
<1>. QED BY DecodeInitially, DecodePreserved, PTL DEF Spec

\* The accumulator keeps to 32 bits and the table to codes; a thread has decoded four
\* bytes for every five characters it has read, and reads none behind its text.
THEOREM DecodeTypeCorrect == Spec => []TypeOK
<1>1. DecodeInv => TypeOK
  <2>. SUFFICES ASSUME DecodeInv PROVE TypeOK
    OBVIOUS
  <2>1. \A c \in Chars : decoder[c] \in 0..84 \cup {Invalid} /\ decoder[c] \in held[c]
    BY DEF DecodeInv, StateInv, Codes
  <2>2. initialized \in BOOLEAN /\ filler \subseteq Threads
    BY DEF DecodeInv, StateInv
  <2>3. ASSUME NEW t \in Threads
        PROVE  /\ pc[t] \in Outcomes \cup {"erase", "fill", "lookup"}
               /\ counter[t] \in 0..256
               /\ at[t] \in 0..Len(input[t])
               /\ value[t] \in [hi : Half, lo : Half]
               /\ output[t] \in Seq(Byte) /\ Len(output[t]) = 4 * (at[t] \div 5)
               /\ decodes[t] \in 0..MaxDecodes
    <3>1. /\ pc[t] \in Outcomes \cup {"erase", "fill", "lookup"}
          /\ counter[t] \in 0..256 /\ decodes[t] \in 0..MaxDecodes
      BY DEF DecodeInv, StateInv
    <3>2. at[t] \in 0..Len(input[t])
      <4>1. at[t] \in Nat /\ input[t] \in Seq(Chars)
        BY DEF DecodeInv, StateInv
      <4>2. at[t] <= Len(input[t])
        BY DEF DecodeInv, ProgressInv
      <4>. QED BY <4>1, <4>2
    <3>3. value[t] \in [hi : Half, lo : Half] /\ output[t] \in Seq(Byte)
      BY DEF DecodeInv, StateInv
    <3>4. Len(output[t]) = 4 * (at[t] \div 5)
      BY DEF DecodeInv, ProgressInv
    <3>. QED BY <3>1, <3>2, <3>3, <3>4
  <2>. QED BY <2>1, <2>2, <2>3 DEF TypeOK
<1>. QED BY <1>1, DecodeInductive, PTL

\* Decoding inverts the encoding, for any text in the characters both alphabets code
\* alike: a decode that succeeds in a thread that has filled the table has recovered the
\* bytes, whatever other threads do to the table meanwhile.
THEOREM DecodeCorrect == Spec => []OkMeansDecoded
<1>1. DecodeInv => OkMeansDecoded
  <2>. SUFFICES ASSUME DecodeInv, NEW t \in Threads, pc[t] = "ok", t \in filler,
                       IsEncoding(input[t]),
                       \A c \in ToSet(input[t]) : c \in Coded /\ CodeOf(c) = StandardCode(c)
                PROVE  Encode(output[t]) = input[t]
    BY DEF OkMeansDecoded
  <2>1. PICK text \in Seq(Chars) : text = input[t]
    BY DEF DecodeInv, StateInv
  <2>2. Decodable(text) /\ Len(text) % 5 = 0
    BY <2>1 DEF Decodable, IsEncoding
  <2>3. PICK n \in Nat : Len(text) = 5 * n /\ n = Len(text) \div 5
    BY <2>2
  <2>4. PICK out \in Seq(Byte) : out = output[t]
    BY DEF DecodeInv, StateInv
  <2>5. at[t] = Len(text) /\ Len(out) = 4 * (at[t] \div 5)
    BY <2>1, <2>4 DEF DecodeInv, ProgressInv
  <2>6. Len(out) = 4 * n /\ Len(out) \div 4 = n
    BY <2>3, <2>5
  <2>7. \A j \in 1..n, i \in 1..4 : out[4 * j - 4 + i] = BytesOf(Sum5(text, j))[i]
    BY <2>1, <2>3, <2>4, <2>5 DEF DecodeInv, DecodedInv, Decoded, Decodable
  <2>8. ASSUME NEW k \in 1..n
        PROVE  EncodeFour(SubSeq(out, 4 * k - 3, 4 * k)) = GroupOf(text, k)
    <3>1. PICK four : four = SubSeq(out, 4 * k - 3, 4 * k)
      OBVIOUS
    <3>2. \A i \in 1..4 : four[i] = out[4 * k - 4 + i]
      <4>1. \A i \in 4 * k - 3..4 * k : i \in 1..Len(out)
        BY <2>6
      <4>2. \A i \in 4 * k - 3..4 * k : out[i] \in Byte
        BY <4>1
      <4>3. \A i \in 1..4 * k - (4 * k - 3) + 1 : four[i] = out[4 * k - 3 + i - 1]
        BY <3>1, <4>2, SubSeqProperties
      <4>4. \A i \in 1..4 : i \in 1..4 * k - (4 * k - 3) + 1 /\ 4 * k - 3 + i - 1 = 4 * k - 4 + i
        OBVIOUS
      <4>. QED BY <4>3, <4>4
    <3>3. \A i \in 1..4 : four[i] = BytesOf(Sum5(text, k))[i]
      BY <2>7, <3>2
    <3>4. GroupFits(text, k) /\ \A i \in 1..5 : text[5 * k - 5 + i] \in ToSet(Standard)
      BY <2>2, <2>3, DecodableGroups
    <3>. QED BY <3>1, <3>3, <3>4, GroupEncodes
  <2>9. [k \in 1..Len(out) \div 4 |-> EncodeFour(SubSeq(out, 4 * k - 3, 4 * k))] = GroupsOf(text, n)
    BY <2>6, <2>8 DEF GroupsOf
  <2>10. Encode(out) = FlattenSeq(GroupsOf(text, n))
    BY <2>9 DEF Encode
  <2>11. FlattenSeq(GroupsOf(text, n)) = text
    BY <2>3, TextOfGroups
  <2>. QED BY <2>1, <2>4, <2>10, <2>11
<1>. QED BY <1>1, DecodeInductive, PTL

===============================================================================
