------------------------------- MODULE Money -------------------------------
(***************************************************************************)
(* The decimal texts of internal/money: how an amount is read from a       *)
(* request and how it is shown, for an asset of some number of decimals.   *)
(* A text is a sequence of characters.  The module has no variables.       *)
(***************************************************************************)
EXTENDS Integers, SequencesExt

Numerals == <<"0", "1", "2", "3", "4", "5", "6", "7", "8", "9">>
IsDigit(c)  == \E d \in 0..9 : Numerals[d + 1] = c
DigitOf(c)  == CHOOSE d \in 0..9 : Numerals[d + 1] = c
IsDigits(s) == s # <<>> /\ \A k \in 1..Len(s) : IsDigit(s[k])
ValueOf(s)  == FoldLeft(LAMBDA v, c : 10 * v + DigitOf(c), 0, s)
Lowest(S)   == CHOOSE x \in S : \A y \in S : x <= y
Highest(S)  == CHOOSE x \in S : \A y \in S : x >= y

\* strings.Repeat.
Zeros(n) == [k \in 1..n |-> "0"]

TrimSpace(s) ==
    LET kept == {k \in 1..Len(s) : s[k] # " "}
    IN IF kept = {} THEN <<>> ELSE SubSeq(s, Lowest(kept), Highest(kept))

\* strings.Cut at the first point; without one all of a text is before it.
Points(s) == {k \in 1..Len(s) : s[k] = "."}
Point(s)  == IF Points(s) = {} THEN Len(s) + 1 ELSE Lowest(Points(s))
Whole(s)  == SubSeq(s, 1, Point(s) - 1)
Part(s)   == SubSeq(s, Point(s) + 1, Len(s))

\* Mutant of FillUp: the fraction is left as it was written.
FillUpNot(decimals, part) == part
FillUp(decimals, part)    == part \o Zeros(decimals - Len(part))

Unreadable == [ok |-> FALSE, units |-> 0]
Read(n)    == [ok |-> TRUE, units |-> n]

\* big.Int.SetString in base 10: digits, after a sign or none.
SetString(s) ==
    LET signed == s # <<>> /\ s[1] \in {"+", "-"}
        digits == IF signed THEN Tail(s) ELSE s
    IN IF ~IsDigits(digits) THEN Unreadable
       ELSE Read(IF signed /\ s[1] = "-" THEN -ValueOf(digits) ELSE ValueOf(digits))

\* ParseDecimal.  What follows the sign is not looked at again: SetString
\* takes a sign of its own, at the front or behind a leading point.
ParseDecimal(decimals, text) ==
    LET s    == TrimSpace(text)
        neg  == s # <<>> /\ s[1] = "-"
        body == IF neg THEN Tail(s) ELSE s
        n    == SetString(Whole(body) \o FillUp(decimals, Part(body)))
    IN IF s = <<>> \/ Len(Part(body)) > decimals \/ ~n.ok THEN Unreadable
       ELSE Read(IF neg THEN -n.units ELSE n.units)

\* big.Int.String of a number that is not negative.
Numeral(u) ==
    LET text[v \in Nat] == IF v < 10 THEN <<Numerals[v + 1]>>
                           ELSE Append(text[v \div 10], Numerals[(v % 10) + 1])
    IN text[u]

\* Mutant of PointAt: one digit too far to the right.
PointAfter(size, decimals) == size - decimals + 1
PointAt(size, decimals)    == size - decimals

\* Amount.String.
Shown(decimals, units) ==
    LET n   == Numeral(IF units < 0 THEN -units ELSE units)
        s   == IF Len(n) > decimals THEN n ELSE Zeros(decimals - Len(n) + 1) \o n
        at  == PointAt(Len(s), decimals)
        out == IF decimals = 0 THEN s
               ELSE SubSeq(s, 1, at) \o <<".">> \o SubSeq(s, at + 1, Len(s))
    IN IF units < 0 THEN <<"-">> \o out ELSE out

-----------------------------------------------------------------------------
(* The reference: what a decimal number is worth, place by place.          *)

\* Digits with at most one point among them.
IsPlain(s) ==
    /\ \E k \in 1..Len(s) : IsDigit(s[k])
    /\ \A k \in 1..Len(s) : IsDigit(s[k]) \/ s[k] = "."
    /\ \A j, k \in Points(s) : j = k

FractionDigits(s) == Len(Part(s))

\* The product of n tens.
TenTo(n) == FoldLeft(LAMBDA v, ten : v * ten, 1, [k \in 1..n |-> 10])

\* The sum of its digits, each at the power of ten of its place, in units.
Worth(decimals, s) ==
    LET places   == {k \in 1..Len(s) : IsDigit(s[k])}
        power(k) == decimals + Point(s) - (IF k < Point(s) THEN k + 1 ELSE k)
        worth    == [k \in places |-> DigitOf(s[k]) * TenTo(power(k))]
    IN MapThenSumSet(LAMBDA k : worth[k], places)
=============================================================================
