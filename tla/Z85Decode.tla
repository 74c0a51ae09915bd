-------------------------------- MODULE Z85Decode --------------------------------
(***************************************************************************)
(* Z85::Decode, which turns the text of an inline deletion vector into     *)
(* bytes: five characters, base 85, to four bytes, in 32-bit arithmetic.   *)
(*                                                                         *)
(* The table from characters to codes is a function-local static array,    *)
(* filled by the first decode that finds `initialized` false. DuckDB's     *)
(* threads open files in parallel and decode without a lock: the table and *)
(* the flag are raced for. Each store is a step. A thread that found the   *)
(* flag set by another may read any value an entry has ever held, as the   *)
(* data race lets it; one that filled the table itself reads no value      *)
(* older than its own.                                                     *)
(*                                                                         *)
(* A character is its byte. Only the table entries of Chars are kept.      *)
(***************************************************************************)
EXTENDS Integers, Sequences, FiniteSets, SequencesExt

CONSTANTS
    Threads,
    Chars,          \* the characters of the texts: bytes
    Inputs,         \* the texts decoded
    MaxDecodes      \* how many decodes a thread makes

ASSUME Z85DecodeAssumption ==
    /\ Chars \subseteq 0..255
    /\ Inputs \subseteq Seq(Chars)
    /\ MaxDecodes \in Nat

Invalid == 255

\* The characters from first to last.
Run(first, last) == [i \in 1..last - first + 1 |-> first + i - 1]

Letters == Run(48, 57) \o Run(97, 122) \o Run(65, 90)

\* The string literal: 84 characters from '0' to '#', and its terminating zero,
\* which the loop over 85 codes reads as the last.
encoder == Letters \o <<46, 45, 58, 43, 61, 94, 47, 42, 63, 38, 60, 62, 40, 41,
                        91, 93, 123, 125, 64, 37, 36, 35, 0>>

Coded == Chars \cap ToSet(encoder)

\* Where the string has these characters.
FillAt == {n \in DOMAIN encoder : encoder[n] \in Chars}

CodeOf(c) == (CHOOSE i \in DOMAIN encoder : encoder[i] = c) - 1

VARIABLES
    decoder,        \* the static table
    held,           \* every value each entry has held
    initialized,    \* the static flag
    pc,             \* each thread's place in Decode
    counter,        \* the counter of its loop, over bytes or over the string
    input,          \* its argument
    at,             \* how many characters it has consumed
    value,          \* its 32-bit accumulator, as two 16-bit halves
    output,         \* the bytes decoded
    filler,         \* the threads that have filled the table themselves
    decodes         \* how many decodes it has begun

vars == <<decoder, held, initialized, pc, counter, input, at, value, output, filler, decodes>>

Outcomes == {"idle", "ok", "bad_length", "bad_char"}
Zero     == [hi |-> 0, lo |-> 0]
Half     == {n \in Nat : n < 65536}
Byte     == 0..255

-------------------------------------------------------------------------------
\* uint32_t arithmetic

\* value * 85 + code, without and with the wrap at 2^32.
TimesPlus(v, code) ==
    LET low == v.lo * 85 + code
    IN [hi |-> v.hi * 85 + low \div 65536, lo |-> low % 65536]

\* Faulty: 64-bit arithmetic.
AccumulateWide(v, code) == TimesPlus(v, code)

Accumulate(v, code) ==
    LET w == TimesPlus(v, code) IN [w EXCEPT !.hi = @ % 65536]

\* Faulty: the low byte first.
BytesOfLittle(v) == <<v.lo % 256, v.lo \div 256, v.hi % 256, v.hi \div 256>>

BytesOf(v) == <<v.hi \div 256, v.hi % 256, v.lo \div 256, v.lo % 256>>

-------------------------------------------------------------------------------

Init ==
    /\ decoder = [c \in Chars |-> 0]
    /\ held = [c \in Chars |-> {0}]
    /\ initialized = FALSE
    /\ pc = [t \in Threads |-> "idle"]
    /\ counter = [t \in Threads |-> 0]
    /\ input = [t \in Threads |-> <<>>]
    /\ at = [t \in Threads |-> 0]
    /\ value = [t \in Threads |-> Zero]
    /\ output = [t \in Threads |-> <<>>]
    /\ filler = {}
    /\ decodes = [t \in Threads |-> 0]

\* The checks of the text, and the one read of the flag.
Begin(t) ==
    /\ pc[t] \in Outcomes
    /\ decodes[t] < MaxDecodes
    /\ \E text \in Inputs :
          /\ input' = [input EXCEPT ![t] = text]
          /\ pc' = [pc EXCEPT ![t] =
                IF text = <<>> THEN "ok"
                ELSE IF Len(text) % 5 # 0 THEN "bad_length"
                ELSE IF initialized THEN "lookup" ELSE "erase"]
    /\ counter' = [counter EXCEPT ![t] = 0]
    /\ at' = [at EXCEPT ![t] = 0]
    /\ value' = [value EXCEPT ![t] = Zero]
    /\ output' = [output EXCEPT ![t] = <<>>]
    /\ decodes' = [decodes EXCEPT ![t] = @ + 1]
    /\ UNCHANGED <<decoder, held, initialized, filler>>

Store(c, code) ==
    /\ decoder' = [decoder EXCEPT ![c] = code]
    /\ held' = [held EXCEPT ![c] = @ \cup {code}]

\* The first of the places from the counter on.
Reaches(t, n, places) == n >= counter[t] /\ \A m \in places : m >= counter[t] => n <= m

\* decoder[i] = 0xFF; the last store ends the loop.
Erase(t) ==
    /\ pc[t] = "erase"
    /\ \E c \in Chars :
          /\ Reaches(t, c, Chars)
          /\ Store(c, Invalid)
          /\ IF \A d \in Chars : d <= c
             THEN pc' = [pc EXCEPT ![t] = "fill"] /\ counter' = [counter EXCEPT ![t] = 1]
             ELSE counter' = [counter EXCEPT ![t] = c + 1] /\ UNCHANGED pc
    /\ UNCHANGED <<initialized, input, at, value, output, filler, decodes>>

\* decoder[encoder[i]] = i
Fill(t) ==
    /\ pc[t] = "fill"
    /\ \E n \in FillAt :
          /\ Reaches(t, n, FillAt)
          /\ Store(encoder[n], CodeOf(encoder[n]))
          /\ counter' = [counter EXCEPT ![t] = n + 1]
    /\ UNCHANGED <<initialized, pc, input, at, value, output, filler, decodes>>

\* Faulty: the flag is set before the loop is over.
SetInitializedEarly(t) ==
    /\ pc[t] = "fill"
    /\ initialized' = TRUE
    /\ filler' = filler \cup {t}
    /\ pc' = [pc EXCEPT ![t] = "lookup"]
    /\ UNCHANGED <<decoder, held, counter, input, at, value, output, decodes>>

SetInitialized(t) ==
    /\ pc[t] = "fill"
    /\ \A n \in FillAt : n < counter[t]
    /\ initialized' = TRUE
    /\ filler' = filler \cup {t}
    /\ pc' = [pc EXCEPT ![t] = "lookup"]
    /\ UNCHANGED <<decoder, held, counter, input, at, value, output, decodes>>

\* What thread t may read in the entry of c.
Readable(t, c) == IF t \in filler THEN {decoder[c]} ELSE held[c]

\* One character is looked up; every fifth one gives four bytes.
Lookup(t) ==
    /\ pc[t] = "lookup"
    /\ \E char_val \in Readable(t, input[t][at[t] + 1]) :
         LET sum == Accumulate(value[t], char_val)
             n   == at[t] + 1
         IN IF char_val = Invalid
            THEN /\ pc' = [pc EXCEPT ![t] = "bad_char"]
                 /\ UNCHANGED <<at, value, output>>
            ELSE /\ at' = [at EXCEPT ![t] = n]
                 /\ value' = [value EXCEPT ![t] = IF n % 5 = 0 THEN Zero ELSE sum]
                 /\ output' = [output EXCEPT ![t] =
                        IF n % 5 = 0 THEN @ \o BytesOf(sum) ELSE @]
                 /\ pc' = [pc EXCEPT ![t] = IF n = Len(input[t]) THEN "ok" ELSE @]
    /\ UNCHANGED <<decoder, held, initialized, counter, input, filler, decodes>>

Next ==
    \E t \in Threads :
        \/ Begin(t)
        \/ Erase(t)
        \/ Fill(t)
        \/ SetInitialized(t)
        \/ Lookup(t)

Spec == Init /\ [][Next]_vars

-------------------------------------------------------------------------------
\* The Z85 encoding (ZeroMQ RFC 32), as a reference

Standard == Letters \o <<46, 45, 58, 43, 61, 94, 33, 47, 42, 63, 38, 60, 62, 40,
                         41, 91, 93, 123, 125, 64, 37, 36, 35>>

StandardCode(c) == (CHOOSE i \in DOMAIN Standard : Standard[i] = c) - 1

\* Quotient and remainder of a 32-bit number by 85, and the five digits of one.
Quotient(v) ==
    LET rest == (v.hi % 85) * 65536 + v.lo
    IN [hi |-> v.hi \div 85, lo |-> rest \div 85]

Remainder(v) == ((v.hi % 85) * 65536 + v.lo) % 85

Digits(v) ==
    LET q1 == Quotient(v)  q2 == Quotient(q1)  q3 == Quotient(q2)  q4 == Quotient(q3)
    IN <<q4.lo, Remainder(q3), Remainder(q2), Remainder(q1), Remainder(v)>>

\* The text of four bytes, and of a sequence of bytes.
EncodeFour(b) ==
    LET d == Digits([hi |-> b[1] * 256 + b[2], lo |-> b[3] * 256 + b[4]])
    IN [i \in 1..5 |-> Standard[d[i] + 1]]

Encode(bytes) ==
    FlattenSeq([k \in 1..Len(bytes) \div 4 |-> EncodeFour(SubSeq(bytes, 4 * k - 3, 4 * k))])

\* What the first characters of the k-th group of a text stand for.
Digit(text, k, i) == StandardCode(text[5 * k - 5 + i])
Sum1(text, k) == TimesPlus(Zero, Digit(text, k, 1))
Sum2(text, k) == TimesPlus(Sum1(text, k), Digit(text, k, 2))
Sum3(text, k) == TimesPlus(Sum2(text, k), Digit(text, k, 3))
Sum4(text, k) == TimesPlus(Sum3(text, k), Digit(text, k, 4))
Sum5(text, k) == TimesPlus(Sum4(text, k), Digit(text, k, 5))

\* A text that is the encoding of something: Z85 characters in groups of five, no
\* group above 2^32 - 1.
GroupFits(text, k) == Sum5(text, k).hi < 65536

IsEncoding(text) ==
    /\ Len(text) % 5 = 0
    /\ ToSet(text) \subseteq ToSet(Standard)
    /\ \A k \in 1..Len(text) \div 5 : GroupFits(text, k)

-------------------------------------------------------------------------------
\* Properties

TypeOK ==
    /\ \A c \in Chars : decoder[c] \in 0..84 \cup {Invalid} /\ decoder[c] \in held[c]
    /\ initialized \in BOOLEAN
    /\ \A t \in Threads :
          /\ pc[t] \in Outcomes \cup {"erase", "fill", "lookup"}
          /\ counter[t] \in 0..256
          /\ at[t] \in 0..Len(input[t])
          /\ value[t] \in [hi : Half, lo : Half]
          /\ output[t] \in Seq(Byte) /\ Len(output[t]) = 4 * (at[t] \div 5)
          /\ decodes[t] \in 0..MaxDecodes
    /\ filler \subseteq Threads

\* Decoding inverts the encoding: a decode that succeeds, in a thread that has filled
\* the table, on the encoding of some bytes in the characters both alphabets code
\* alike, has recovered those bytes, whatever other threads do to the table.
OkMeansDecoded ==
    \A t \in Threads :
        /\ pc[t] = "ok" /\ t \in filler
        /\ IsEncoding(input[t])
        /\ \A c \in ToSet(input[t]) : c \in Coded /\ CodeOf(c) = StandardCode(c)
        => Encode(output[t]) = input[t]

\* Once the flag is set and no thread is at work on the table, every entry is
\* right, however many threads have filled it over one another.
TableSettles ==
    initialized /\ (\A t \in Threads : pc[t] \notin {"erase", "fill"}) =>
        \A c \in Chars : decoder[c] = IF c \in Coded THEN CodeOf(c) ELSE Invalid

\* "Z85: invalid character in input": a text is refused for its characters only
\* if one of them is not in the alphabet.
RefusalIsDeserved ==
    \A t \in Threads : pc[t] = "bad_char" => ~(ToSet(input[t]) \subseteq Coded)

\* The decoder decodes Z85: the encoding of any bytes decodes to those bytes.
DecodesZ85 ==
    \A t \in Threads :
        pc[t] \in {"ok", "bad_char"} /\ IsEncoding(input[t])
            => pc[t] = "ok" /\ Encode(output[t]) = input[t]

===============================================================================
