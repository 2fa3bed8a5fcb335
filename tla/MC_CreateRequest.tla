-------------------------- MODULE MC_CreateRequest --------------------------
(* One unit is a quarter GiB; the sizes cover every boundary of the       *)
(* extractStorage rules: unset and negative, below/at/above the minimum,   *)
(* the default, below/at/above the maximum, on and off GiB multiples.      *)
(* Names are every string of up to three characters over an upper- and a     *)
(* lower-case letter, a digit, punctuation and three non-ASCII letters    *)
(* (one folding outside ASCII, two folding into it);                       *)
(* capability lists have up to two entries.                                *)
EXTENDS CreateRequest

MCInputs == {-4, 0, 3, 4, 5, 8, 63, 64, 65, 511, 512, 513, 516}
MCChars == {"a", "B", "1", "-", "Eacute", "Kelvin", "Idot"}
MCNames == UNION {[1..n -> MCChars] : n \in 0..3}
MCCaps == {c \in SUBSET Capability : Cardinality(c) <= 2}
=============================================================================
