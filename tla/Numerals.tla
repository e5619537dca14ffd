------------------------------ MODULE Numerals ------------------------------
(***************************************************************************)
(* Numbers and their digits: the bytes of an integer, and the decimal      *)
(* digits of a number.  Recursion is by functions.                         *)
(***************************************************************************)
EXTENDS Integers, Sequences

Power(base, n) ==
    LET power[k \in 0..n] == IF k = 0 THEN 1 ELSE base * power[k - 1]
    IN power[n]

\* The number that digits say: the first of them counts most.
Numeral(base, digits) ==
    LET read[k \in 0..Len(digits)] == IF k = 0 THEN 0 ELSE base * read[k - 1] + digits[k]
    IN read[Len(digits)]

\* The last digits of a number.
InDigits(base, number, length) ==
    [i \in 1..length |-> (number \div Power(base, length - i)) % base]
=============================================================================
