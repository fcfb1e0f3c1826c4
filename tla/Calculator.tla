----------------------------- MODULE Calculator -----------------------------
(***************************************************************************)
(* 002Calculadora: main reads two ints and prints their sum, reads two     *)
(* floats and prints theirs, for ever.  READ takes one character after the *)
(* other from the UART: a token up to the first white space, then, unless  *)
(* the token ended the line, the rest of the line.  The buffer has 20      *)
(* bytes, here MaxLength.                                                  *)
(*                                                                         *)
(* The user types a line whenever READ waits and nothing is left to read.  *)
(***************************************************************************)
EXTENDS Conversions

CONSTANTS
  MaxLength,    \* max_length of uart_get_until_whitespace and uart_gets_input
  ConversionLength,  \* bytes of `conversion' in PRINT: 15 in the program
  Lines,        \* what the user may type, without the end of the line
  Floats,       \* the values an uninitialised float may have
  Junk          \* and the uninitialised temp_num of ftoa

ASSUME
  /\ MaxLength \in Nat \ {0, 1} /\ ConversionLength \in Nat \ {0}
  /\ \A f \in Floats : f = Rounded(f.m, f.e)
  /\ Junk \subseteq INT_MIN .. INT_MAX

VARIABLES
  input,      \* the characters typed and not yet read
  reader,     \* the loop of READ that runs; "idle": main prints or prompts
  buffer,     \* the buffer of READ, up to i
  endsInNL,
  kind,       \* what main reads: "%d" or "%f"
  values,     \* num1, num2 or float1, float2, as far as they are read
  shown,      \* the numerals main has just printed, if it has
  typed,      \* history: the lines typed in this READ
  aligned,    \* history: nothing was left when it started
  operands    \* history: the lines of values; <<"?">>: not its own line

reading == <<input, reader, buffer, endsInNL>>
history == <<typed, aligned, operands>>
vars    == <<reading, kind, values, shown, history>>

Blank == {" "}
End   == "\n"

Init ==
  /\ input = <<>> /\ reader = "idle" /\ buffer = <<>> /\ endsInNL \in {0, 1}
  /\ kind = "%d" /\ values = <<>> /\ shown = <<>>
  /\ typed = <<>> /\ aligned = TRUE /\ operands = <<>>

(* Mutant: no space is left for the null terminator.                       *)
GetcOneMore == reader \in {"token", "rest"} /\ Len(buffer) < MaxLength

(* uart_getc waits for a character.                                        *)
Getc == reader \in {"token", "rest"} /\ Len(buffer) < MaxLength - 1

Type(line) ==
  /\ Getc /\ input = <<>>
  /\ input' = Append(line, End)
  /\ typed' = Append(typed, line)
  /\ UNCHANGED <<reader, buffer, endsInNL, kind, values, shown, aligned, operands>>
-----------------------------------------------------------------------------
(* READ                                                                    *)

(* endsInNL is not initialised.                                            *)
Read ==
  /\ reader = "idle" /\ Len(values) < 2
  /\ reader' = "token" /\ buffer' = <<>>
  /\ endsInNL' \in {0, 1}
  /\ typed' = <<>> /\ aligned' = (input = <<>>)
  /\ shown' = <<>>
  /\ UNCHANGED <<input, kind, values, operands>>

(* Mutant: the space that ends a token is not told from the end of a line. *)
TokenEndNoBlank(c) == c \in Blank \cup {End} /\ endsInNL' = 1

TokenEnd(c) == c \in Blank \cup {End} /\ endsInNL' = (IF c = End THEN 1 ELSE 0)

TokenChar ==
  /\ reader = "token" /\ Getc /\ input # <<>>
  /\ LET c == Head(input) IN
       \/ TokenEnd(c) /\ reader' = "convert" /\ UNCHANGED buffer
       \/ /\ c \notin Blank \cup {End}
          /\ buffer' = Append(buffer, c)
          /\ UNCHANGED <<reader, endsInNL>>
  /\ input' = Tail(input)
  /\ UNCHANGED <<kind, values, shown, history>>

TokenFull ==
  /\ reader = "token" /\ Len(buffer) = MaxLength - 1
  /\ reader' = "convert"
  /\ UNCHANGED <<input, buffer, endsInNL, kind, values, shown, history>>

(* The line the value came from, if READ has all of it and no other.       *)
Operand == IF aligned /\ Len(typed) = 1 THEN typed[1] ELSE <<"?">>

Convert ==
  /\ reader = "convert"
  /\ \/ kind = "%d" /\ values' = Append(values, Atoi(buffer))
     \/ kind = "%f" /\ \E f \in AtofResults(buffer, Floats) : values' = Append(values, f)
  /\ operands' = Append(operands, Operand)
  /\ buffer' = <<>>
  /\ reader' = IF endsInNL = 0 THEN "rest" ELSE "idle"
  /\ UNCHANGED <<input, endsInNL, kind, shown, typed, aligned>>

RestChar ==
  /\ reader = "rest" /\ Getc /\ input # <<>>
  /\ LET c == Head(input) IN
       \/ c = End /\ reader' = "idle" /\ buffer' = <<>>
       \/ c # End /\ buffer' = Append(buffer, c) /\ UNCHANGED reader
  /\ input' = Tail(input)
  /\ UNCHANGED <<endsInNL, kind, values, shown, history>>

RestFull ==
  /\ reader = "rest" /\ Len(buffer) = MaxLength - 1
  /\ reader' = "idle" /\ buffer' = <<>>
  /\ UNCHANGED <<input, endsInNL, kind, values, shown, history>>
-----------------------------------------------------------------------------
(* The sums                                                                *)

Sum == Wrap(values[1] + values[2])

PrintInts ==
  /\ reader = "idle" /\ Len(values) = 2 /\ kind = "%d"
  /\ shown' = <<Itoa(values[1]), Itoa(values[2]), Itoa(Sum)>>
  /\ kind' = "%f" /\ values' = <<>>

Numerals(x) == {Ftoa(x, junk) : junk \in Junk}

(* What a numeral that outgrows `conversion' destroys is not modelled.     *)
PrintFloats ==
  /\ reader = "idle" /\ Len(values) = 2 /\ kind = "%f"
  /\ \E s1 \in Numerals(values[1]), s2 \in Numerals(values[2]),
        s3 \in Numerals(FloatSum(values[1], values[2])) : shown' = <<s1, s2, s3>>
  /\ kind' = "%d" /\ values' = <<>>

ShowSum ==
  /\ PrintInts \/ PrintFloats
  /\ UNCHANGED <<reading, typed, aligned>>
  /\ operands' = <<>>

Next ==
  \/ \E line \in Lines : Type(line)
  \/ Read \/ TokenChar \/ TokenFull \/ Convert \/ RestChar \/ RestFull
  \/ ShowSum

Spec == Init /\ [][Next]_vars
-----------------------------------------------------------------------------
(* Properties                                                              *)

(* TYPE.  Neither loop of READ writes behind the buffer.                   *)
TypeOK ==
  /\ reader \in {"idle", "token", "convert", "rest"}
  /\ Len(buffer) < MaxLength
  /\ endsInNL \in {0, 1} /\ kind \in {"%d", "%f"} /\ aligned \in BOOLEAN
  /\ Len(values) \in 0 .. 2 /\ Len(operands) = Len(values)
  /\ kind = "%d" => ToSet(values) \subseteq INT_MIN .. INT_MAX
  /\ Len(shown) \in {0, 3}

(* What READ("%d") and READ("%f") take of a line, and what they skip.      *)
Token(line) ==
  LET ends == {k \in 1 .. Len(line) : line[k] \in Blank}
  IN  IF ends = {} THEN line ELSE SubSeq(line, 1, Min(ends) - 1)

Short(line) ==
  /\ Len(Token(line)) < MaxLength - 1
  /\ Len(line) - Len(Token(line)) < MaxLength

(* SAFETY.  A READ that starts at the beginning of a line consumes this    *)
(* line and no other, if the buffer has room for its token and for what    *)
(* follows the token (stdio.c:89, os.c:46-65).                             *)
OneLinePerRead ==
  reader = "idle" /\ aligned /\ typed # <<>> /\ Short(typed[1]) =>
    input = <<>> /\ Len(typed) = 1

(* The number that digits stand for, by their places.                      *)
Places(s) == MapThenSumSet(LAMBDA k : Digit(s[k]) * 10^(Len(s) - k), DOMAIN s)

Value(s) ==
  LET t == Unsigned(s)
      n == CHOOSE n \in 0 .. Len(t) :
             /\ \A k \in 1 .. n : t[k] \in Digits
             /\ n < Len(t) => t[n + 1] \notin Digits
  IN  Wrap((IF Negative(s) THEN -1 ELSE 1) * Places(SubSeq(t, 1, n)))

(* s is the shortest numeral of v.                                         *)
Denotes(s, v) ==
  LET t == IF v < 0 THEN Tail(s) ELSE s
  IN  /\ v < 0 => s[1] = "-"
      /\ t # <<>> /\ ToSet(t) \subseteq Digits
      /\ Len(t) > 1 => t[1] # "0"
      /\ Places(t) = IF v < 0 THEN -v ELSE v

(* ACTION.  What is printed for two lines are the numbers they begin with  *)
(* and their sum, modulo the width of an int.  The least number is         *)
(* excepted: it prints as "-" (stdlib.c:41-49).                            *)
SumShown ==
  [][PrintInts /\ (\A k \in 1 .. 2 : Short(operands[k]) /\ operands[k] # <<"?">>) =>
       LET v == [k \in 1 .. 2 |-> Value(Token(operands[k]))]
           w == <<v[1], v[2], Wrap(v[1] + v[2])>>
       IN  \A k \in 1 .. 3 : w[k] # INT_MIN => Denotes(shown'[k], w[k])]_vars

(* s is n / 2^e, cut off after five decimals at most, and short of that by *)
(* no more than the given number of roundings make.                        *)
Approximates(s, n, e, roundings) ==
  LET t == IF n < 0 THEN Tail(s) ELSE s
      point == CHOOSE k \in DOMAIN t : t[k] = "."
      decimals == Len(t) - point
      unit == 2^Max({e, 0})
      exact == Magnitude(n) * 2^Max({-e, 0}) * 10^decimals
      printed == Places(SelectSeq(t, LAMBDA c : c # ".")) * unit
      slack == (decimals + roundings) * (exact \div 2^PRECISION)
  IN  /\ n < 0 => s[1] = "-"
      /\ decimals <= 5
      /\ exact - printed \in -slack .. slack + (IF decimals = 5 THEN unit ELSE 0)

(* Floats above -1 that keep all their bits when they are multiplied by 10 *)
(* and cut off, and those whose tenfold is an int.                         *)
Moderate(x) == IF x.m < 0 THEN IntOf(Negated(x)) = 0 ELSE 10 * IntOf(x) + 9 < 2^PRECISION
InRange(x)  == x.m < 0 \/ IntOf(x) < INT_MAX \div 10

Invalid(s) == ~(ToSet(Unsigned(s)) \subseteq Digits \cup {"."})

(* ACTION.  Floats and their sum are printed up to five decimals, exact to *)
(* the roundings of the sum and of ftoa.  Those of -1 and below lose their *)
(* integer part (stdlib.c:109), and above 2^PRECISION / 10 the decimal is  *)
(* nothing but rounding.  The numeral fits in `conversion' (stdio.c:13)    *)
(* unless the tenfold of the float exceeds an int.  A token with an        *)
(* invalid character has counted as 0.                                     *)
FloatShown ==
  [][PrintFloats =>
       LET x == IF values[1].e >= values[2].e THEN values[1] ELSE values[2]
           y == IF values[1].e >= values[2].e THEN values[2] ELSE values[1]
           sum == FloatSum(x, y)
       IN  /\ \A k \in 1 .. 2 : Moderate(values[k]) =>
                Approximates(shown'[k], values[k].m, values[k].e, 0)
           /\ Moderate(sum) => Approximates(shown'[3], Aligned(x, y), x.e, 1)
           /\ \A k \in 1 .. 3 : InRange(<<values[1], values[2], sum>>[k]) =>
                Len(shown'[k]) < ConversionLength
           /\ \A k \in 1 .. 2 :
                Short(operands[k]) /\ operands[k] # <<"?">> /\ Invalid(Token(operands[k]))
                  => shown'[k] = <<"0", ".", "0", "0">>]_vars
=============================================================================
