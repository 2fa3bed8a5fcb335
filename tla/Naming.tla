------------------------------- MODULE Naming -------------------------------
(***************************************************************************)
(* Resource naming: cleanISCSIName (src/driver/utils.go), which turns the  *)
(* CO's volume name into the appliance target and LUN name.                *)
(*                                                                         *)
(* A name is a sequence of characters; a character is a one-letter string, *)
(* except the non-ASCII letters, which are named: "Eacute" (U+00C9),       *)
(* "Kelvin" (U+212A KELVIN SIGN) and "Idot" (U+0130, capital I with dot).  *)
(***************************************************************************)
EXTENDS Sequences

UpperASCII == <<"A","B","C","D","E","F","G","H","I","J","K","L","M",
                "N","O","P","Q","R","S","T","U","V","W","X","Y","Z">>
LowerASCII == <<"a","b","c","d","e","f","g","h","i","j","k","l","m",
                "n","o","p","q","r","s","t","u","v","w","x","y","z">>
DigitChars == {"0","1","2","3","4","5","6","7","8","9"}

\* unicode.ToLower of the non-ASCII upper-case letters: U+00C9 folds to
\* U+00E9, outside ASCII; U+212A and U+0130 fold (by their simple case
\* mapping, which strings.ToLower applies rune by rune) to the ASCII
\* letters k and i.
UnicodeLower == [Eacute |-> "eacute", Kelvin |-> "k", Idot |-> "i"]

RangeOf(s) == {s[i] : i \in DOMAIN s}

\* The class [a-z0-9A-Z] of cleanRegex.
InRegexClass(c) == c \in RangeOf(UpperASCII) \cup RangeOf(LowerASCII) \cup DigitChars

\* unicode.ToLower of one character.
ToLowerChar(c) ==
    CASE \E i \in DOMAIN UpperASCII : UpperASCII[i] = c ->
            LowerASCII[CHOOSE i \in DOMAIN UpperASCII : UpperASCII[i] = c]
      [] c \in DOMAIN UnicodeLower -> UnicodeLower[c]
      [] OTHER -> c

\* strings.ToLower
ToLower(s) == [i \in DOMAIN s |-> ToLowerChar(s[i])]

\* cleanRegex.ReplaceAllString(s, ""): every run of characters outside the
\* class is replaced by nothing.
RemoveNonClass(s) == SelectSeq(s, InRegexClass)

\* Mutant: the regular expression is applied before lower-casing.
cleanISCSINameFilterFirst(name) == ToLower(RemoveNonClass(name))

\* cleanISCSIName
cleanISCSIName(name) == RemoveNonClass(ToLower(name))
=============================================================================
