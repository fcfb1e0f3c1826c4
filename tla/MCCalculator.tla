---------------------------- MODULE MCCalculator ----------------------------
(* A buffer of 7 bytes for 20, one of 9 for 15, ints of 13 bits for 32 and *)
(* floats of 8 bits for 24: as in the program, an int holds ten times the  *)
(* greatest odd float.                                                     *)
EXTENDS Calculator

\* Numbers in and out of range, the least one, signs alone, no number at all,
\* tokens and rests that just fit and that do not.
SomeLines == {
  <<>>, <<"7">>, <<"0", "9">>, <<"+", "4", "0", "9", "5">>, <<"-", "4", "0", "9", "6">>,
  <<"9", "9", "9", "9", "9">>, <<"-">>, <<"x", "1">>, <<"1", "2", "x">>,
  <<"1", "2", "3", "4", "5", "6">>, <<"1", ".", "5">>, <<"-", "5", " ", "8">>, <<" ", "4">>,
  <<"8", " ", "1", "2", "3", "4", "5">>, <<"8", " ", "1", "2", "3", "4", "5", "6">>,
  <<"1", "2", "3", "4", "5", "6", "7", " ", "8">>}

\* 0, whole, fractional and negative floats, one of too many decimals, those of
\* the documentation's example as near as may be, one whose decimal is wrong
\* and one that exceeds an int.
SomeFloats == {
  Zero, Rounded(1, 0), Rounded(12, 0), Rounded(150, 17), Rounded(201, 6), Rounded(5, 1),
  Rounded(-1, 1), Rounded(-3, 1), Rounded(65, 0), Rounded(5000, 0)}

\* The example of the documentation (Documentation.md:44) in the floats of the
\* program: 3.14 as the digits 1 and 4 add up to it, 2.5, and their sum.
Single == INSTANCE Conversions WITH INT_MAX <- 2147483647, PRECISION <- 24

ASSUME Demonstration ==
  LET x == [m |-> 13170114, e |-> 22]
      y == Single!Rounded(5, 1)
  IN  \A junk \in {0, 1} :
        /\ Single!Ftoa(x, junk) = <<"3", ".", "1", "3", "9", "9", "9">>
        /\ Single!Ftoa(y, junk) = <<"2", ".", "5">>
        /\ Single!Ftoa(Single!FloatSum(x, y), junk) = <<"5", ".", "6", "4">>
=============================================================================
