------------------------------- MODULE Octets -------------------------------
(***************************************************************************)
(* The digits among the pieces that texts are made of.  A piece stands for *)
(* an octet, or for a word that the code reads letter by letter without a  *)
(* choice on the way.                                                      *)
(***************************************************************************)
EXTENDS Integers, SequencesExt

Figures == <<"0", "1", "2", "3", "4", "5", "6", "7", "8", "9">>
Numerals == ToSet(Figures)
Digit == [d \in Numerals |-> CHOOSE n \in 0..9 : Figures[n + 1] = d]

\* Three of the letters that a hexadecimal digit may be.
HexDigit == [d \in Numerals \cup {"a", "b", "d"} |->
               CASE d = "a" -> 10 [] d = "b" -> 11 [] d = "d" -> 13
                 [] OTHER -> Digit[d]]

Least(a, b) == IF a < b THEN a ELSE b

Join(parts, separator) ==
  FlattenSeq([i \in DOMAIN parts |->
                IF i = 1 THEN parts[i] ELSE <<separator>> \o parts[i]])
=============================================================================
