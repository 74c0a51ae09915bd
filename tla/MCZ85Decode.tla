------------------------------- MODULE MCZ85Decode -------------------------------
(***************************************************************************)
(* Texts for Z85Decode. Below are encodings in the characters that both    *)
(* alphabets code alike; Above are encodings with '!' and with '/'.        *)
(***************************************************************************)
EXTENDS Z85Decode

\* Zeros; two groups, with a carry into the upper half; the sign bit of 32 bits.
Below == {<<48, 48, 48, 48, 48>>, Encode(<<0, 1, 0, 1, 0, 0, 0, 1>>),
          Encode(<<128, 0, 0, 0>>)}

Above == {<<48, 48, 48, 48, 33>>, <<48, 48, 48, 47, 48>>}

\* No text, a text of a bad length, one that no alphabet knows, one above 2^32.
Odd == {<<>>, <<48, 48, 48, 48>>, <<48, 48, 48, 48, 32>>, <<35, 35, 35, 35, 35>>}

MCInputs == Below \cup Above \cup Odd

MCChars == UNION {ToSet(text) : text \in MCInputs}

===============================================================================
