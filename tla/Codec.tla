------------------------------- MODULE Codec -------------------------------
(***************************************************************************)
(* The ListVolumes page token of src/driver/utils.go: a set of appliance   *)
(* target indices written as comma-joined decimals, then base64.           *)
(*                                                                         *)
(* Text is a sequence of one-character strings.  Base64 is modelled by     *)
(* what it does for this code: an injective encoding of any text whose     *)
(* decoder gives the text back and fails on anything that is not an        *)
(* encoding.  A token is [valid, text]: valid tokens are encodings of      *)
(* their text, the others are strings DecodeString rejects.  The empty     *)
(* string "" is the encoding of the empty text.                            *)
(***************************************************************************)
EXTENDS Integers, Sequences, SequencesExt

Digits == <<"0", "1", "2", "3", "4", "5", "6", "7", "8", "9">>

IsDigit(c) == \E d \in 1..10 : Digits[d] = c

DigitValue(c) == CHOOSE d \in 0..9 : Digits[d + 1] = c

\* base64.StdEncoding.EncodeToString
B64(text) == [valid |-> TRUE, text |-> text]

\* A string base64.StdEncoding.DecodeString refuses.
NotBase64 == [valid |-> FALSE, text |-> <<>>]

\* The request's empty starting token: "" is the encoding of "".
EmptyToken == B64(<<>>)

\* strconv.Itoa
RECURSIVE Itoa(_)
Itoa(n) ==
    IF n < 0 THEN <<"-">> \o Itoa(-n)
    ELSE IF n < 10 THEN <<Digits[n + 1]>>
    ELSE Itoa(n \div 10) \o <<Digits[(n % 10) + 1]>>

\* strconv.Atoi: an optional sign and at least one decimal digit.
Atoi(s) ==
    LET signed == s # <<>> /\ Head(s) \in {"+", "-"}
        body   == IF signed THEN Tail(s) ELSE s
        val    == FoldLeft(LAMBDA acc, c : 10 * acc + DigitValue(c), 0, body)
    IN  IF body # <<>> /\ \A i \in DOMAIN body : IsDigit(body[i])
        THEN [ok |-> TRUE, val |-> IF signed /\ Head(s) = "-" THEN -val ELSE val]
        ELSE [ok |-> FALSE, val |-> 0]

\* strings.Split(s, ","): one field more than there are commas.
RECURSIVE Split(_)
Split(s) ==
    LET i == SelectInSeq(s, LAMBDA c : c = ",")
    IN  IF i = 0 THEN <<s>>
        ELSE <<SubSeq(s, 1, i - 1)>> \o Split(SubSeq(s, i + 1, Len(s)))

\* strings.TrimRight(s, ","): drops every trailing comma.
RECURSIVE TrimRightComma(_)
TrimRightComma(s) ==
    IF s # <<>> /\ Last(s) = "," THEN TrimRightComma(Front(s)) ELSE s

\* Joined text the encoder builds, with a comma after every index.
JoinedWithCommas(ints) ==
    FlattenSeq([i \in DOMAIN ints |-> Itoa(ints[i]) \o <<",">>])

\* Mutant: the trailing comma is not trimmed.
seenIndexesToBase64StringNoTrim(ints) == B64(JoinedWithCommas(ints))

\* seenIndexesToBase64String
seenIndexesToBase64String(ints) == B64(TrimRightComma(JoinedWithCommas(ints)))

\* A *sets.Int: nil, or a pointer to a set.
NilSet == [nil |-> TRUE, set |-> {}]
SetPtr(S) == [nil |-> FALSE, set |-> S]

\* The fields of decoded text and whether each parses.
ParsedFields(text) == [i \in DOMAIN Split(text) |-> Atoi(Split(text)[i])]

\* base64SeenIndexesToMap: the set is built, then nil is returned with the
\* (nil) decode error; a field that does not parse returns nil and an error.
base64SeenIndexesToMap(value) ==
    LET fields == ParsedFields(value.text)
        result == {fields[i].val : i \in DOMAIN fields}
    IN  IF ~value.valid THEN [seen |-> NilSet, err |-> TRUE]
        ELSE IF \E i \in DOMAIN fields : ~fields[i].ok
             THEN [seen |-> NilSet, err |-> TRUE]
             ELSE [seen |-> NilSet, err |-> FALSE]
=============================================================================
