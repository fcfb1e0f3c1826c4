---------------------------- MODULE Conversions -----------------------------
(***************************************************************************)
(* lib/stdlib.c of 002Calculadora (003InterruptHandler has it too):        *)
(* numbers and their numerals.  A string is a sequence of characters       *)
(* without the terminator.  An int wraps, as in the build for QEMU; the    *)
(* results of float arithmetic are rounded to the nearest float.           *)
(***************************************************************************)
EXTENDS Integers, SequencesExt

CONSTANTS
  INT_MAX,
  PRECISION   \* bits of the significand of a float: 24 in the program

ASSUME INT_MAX \in Nat \ {0} /\ PRECISION \in Nat \ {0}

INT_MIN == -INT_MAX - 1

Wrap(n) == ((n - INT_MIN) % (INT_MAX - INT_MIN + 1)) + INT_MIN

-----------------------------------------------------------------------------
(* Floats.  The number m / 2^e is the record of m and e; m has PRECISION   *)
(* bits, so that equal floats are equal records.  Infinities, NaN and what *)
(* is too small for so many bits are left out.                             *)

Magnitude(n) == IF n < 0 THEN -n ELSE n

Bits[n \in Nat] == IF n = 0 THEN 0 ELSE 1 + Bits[n \div 2]

Zero == [m |-> 0, e |-> 0]

(* The float nearest to n / 2^e; of two equally near, the even one.        *)
Rounded(n, e) ==
  LET cut  == Bits[Magnitude(n)] - PRECISION
      unit == 2^Max({cut, 0})
      rest == 2 * (Magnitude(n) % unit)
      down == Magnitude(n) \div unit
      near == IF rest > unit \/ (rest = unit /\ down % 2 = 1) THEN down + 1 ELSE down
      over == near = 2^PRECISION
      m    == IF over THEN near \div 2 ELSE near * 2^Max({-cut, 0})
  IN  IF n = 0 THEN Zero
      ELSE [m |-> IF n < 0 THEN -m ELSE m, e |-> e - cut - (IF over THEN 1 ELSE 0)]

Times10(x) == Rounded(10 * x.m, x.e)

(* The exact sum is Aligned(x, y) / 2^x.e if x.e >= y.e.                   *)
Aligned(x, y) == x.m + y.m * 2^(x.e - y.e)

FloatSum(x, y) ==
  IF x.e >= y.e THEN Rounded(Aligned(x, y), x.e) ELSE Rounded(Aligned(y, x), y.e)

FromInt(n) == Rounded(n, 0)

(* (int)x of a float that is not negative: the conversion cuts off, and    *)
(* its result for a float beyond the range, which C leaves undefined, is   *)
(* the greatest int.                                                       *)
IntOf(x) ==
  IF x.e >= 0 THEN x.m \div 2^x.e
  ELSE IF x.m <= INT_MAX \div 2^(-x.e) THEN x.m * 2^(-x.e) ELSE INT_MAX

Negated(x) == [x EXCEPT !.m = -@]
-----------------------------------------------------------------------------
DigitChars == <<"0", "1", "2", "3", "4", "5", "6", "7", "8", "9">>
Digits     == ToSet(DigitChars)
Char(d)    == DigitChars[d + 1]
Digit(c)   == (CHOOSE d \in 0 .. 9 : Char(d) = c)

Signed(s)   == s # <<>> /\ s[1] \in {"-", "+"}
Negative(s) == s # <<>> /\ s[1] = "-"
Unsigned(s) == IF Signed(s) THEN Tail(s) ELSE s

(* The digits s begins with.                                               *)
DigitPrefix(s) ==
  LET ends == {k \in 0 .. Len(s) : \A j \in 1 .. k : s[j] \in Digits}
  IN  SubSeq(s, 1, Max(ends))

(* Mutant: a character that is no digit is skipped.                        *)
AtoiSkips(s) ==
  LET num == FoldLeft(LAMBDA n, c : Wrap(n * 10 + Digit(c)), 0,
                      SelectSeq(Unsigned(s), LAMBDA c : c \in Digits))
  IN  Wrap(IF Negative(s) THEN -num ELSE num)

Atoi(s) ==
  LET num == FoldLeft(LAMBDA n, c : Wrap(n * 10 + Digit(c)), 0, DigitPrefix(Unsigned(s)))
  IN  Wrap(IF Negative(s) THEN -num ELSE num)

(* The loop that writes the last digit first.                              *)
LowDigits[n \in Nat] == IF n = 0 THEN <<>> ELSE <<Char(n % 10)>> \o LowDigits[n \div 10]

(* -num is num for the least number, which leaves nothing but the sign.    *)
Itoa(num) ==
  IF num = 0 THEN <<"0">>
  ELSE Reverse(LowDigits[Max({Wrap(IF num < 0 THEN -num ELSE num), 0})]
                 \o (IF num < 0 THEN <<"-">> ELSE <<>>))

(* num and isFraction are not initialised: a string without an invalid     *)
(* character may be read as any number, or as invalid if the first point   *)
(* is taken for the second.                                                *)
AtofResults(s, floats) ==
  LET t == Unsigned(s)
      points == {k \in DOMAIN t : t[k] = "."}
  IN  IF ToSet(t) \subseteq Digits \cup {"."} /\ Cardinality(points) <= 1
      THEN floats \cup {Zero}
      ELSE {Zero}

(* At most 5 decimals of x, until the rest is a whole number.  temp_num is *)
(* not initialised: a whole number may pass for one whose rest is done.    *)
Decimals(x, junk) ==
  LET num == FoldLeft(LAMBDA ns, k : Append(ns, Times10(Last(ns))), <<x>>, <<1, 2, 3, 4, 5>>)
      temp_num(k) == IF k = 1 THEN junk ELSE IntOf(num[k])
      last == Min({k \in 1 .. 6 : num[k] = FromInt(temp_num(k)) \/ k = 6})
  IN  [k \in 1 .. last - 1 |-> Char(temp_num(k + 1) % 10)]

(* The integer part is taken before the sign is dropped, and its loop runs *)
(* for a positive one only.                                                *)
IntegerPart(x) == IF x.m > 0 THEN LowDigits[IntOf(x)] ELSE <<"-">>

(* Mutant: the digits of the integer part are not reversed.                *)
FtoaBackwards(x, junk) ==
  IF x = Zero THEN <<"0", ".", "0", "0">>
  ELSE IntegerPart(x) \o <<".">> \o Decimals(IF x.m < 0 THEN Negated(x) ELSE x, junk)

Ftoa(x, junk) ==
  IF x = Zero THEN <<"0", ".", "0", "0">>
  ELSE Reverse(IntegerPart(x)) \o <<".">>
         \o Decimals(IF x.m < 0 THEN Negated(x) ELSE x, junk)
=============================================================================
