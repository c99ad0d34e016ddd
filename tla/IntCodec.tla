------------------------------- MODULE IntCodec -------------------------------
(***************************************************************************)
(* The integers of bytesconv.go as text: parseUintBuf and AppendUint for   *)
(* Content-Length and other numbers, readHexInt and writeHexInt for the    *)
(* sizes of chunks.  Integers have Width bits and wrap around; a digit is  *)
(* its value.                                                              *)
(* A definition D_Fault just before D is D with a plausible fault; no spec *)
(* uses it.                                                                *)
(***************************************************************************)
EXTENDS Integers, Sequences

CONSTANTS
  Width,            \* 64 in the code, of a signed integer
  MaxHexIntChars,   \* maxHexIntChars
  MaxDigits         \* bound: the digits that are read

VARIABLES
  radix,            \* 10: parseUintBuf, 16: readHexInt
  digits,           \* what was read so far
  v,                \* the value of it, as the code has it
  result            \* "more", "int", or an error: "empty", "long", or "other" than digits

intVars == <<radix, digits, v, result>>

MaxInt == 2 ^ (Width - 1) - 1
Wrap(n) == ((n + 2 ^ (Width - 1)) % 2 ^ Width) - 2 ^ (Width - 1)

IntTypeOK ==
  /\ radix \in {10, 16}
  /\ Len(digits) <= MaxDigits
  /\ v \in -(MaxInt + 1)..MaxInt
  /\ result \in {"more", "int", "empty", "long", "other"}

IntInit ==
  /\ radix \in {10, 16}
  /\ digits = <<>>
  /\ v = 0
  /\ result = "more"

\* A turn of the loop of parseUintBuf, with its test for overflow.
ParseDigit(k) ==
  LET vNew == Wrap(10 * v + k) IN
  /\ radix = 10 /\ result = "more"
  /\ digits' = Append(digits, k)
  /\ IF vNew < v THEN v' = -1 /\ result' = "long" ELSE v' = vNew /\ UNCHANGED result
  /\ UNCHANGED radix

\* A turn of readHexInt.
ReadHexDigit_NoLimit(k) ==
  /\ radix = 16 /\ result = "more"
  /\ digits' = Append(digits, k)
  /\ v' = Wrap(16 * v + k)
  /\ UNCHANGED <<radix, result>>
ReadHexDigit(k) ==
  /\ radix = 16 /\ result = "more"
  /\ digits' = Append(digits, k)
  /\ IF Len(digits) >= MaxHexIntChars
     THEN v' = -1 /\ result' = "long"
     ELSE v' = Wrap(16 * v + k) /\ UNCHANGED result
  /\ UNCHANGED radix

\* The end of the bytes, or a byte that is no digit: readHexInt leaves it, ParseUint fails.
EndOfInt(end) ==
  /\ result = "more"
  /\ result' = IF digits = <<>> THEN (IF end THEN "empty" ELSE "other")
               ELSE IF radix = 10 /\ ~end THEN "other" ELSE "int"
  /\ v' = IF result' = "int" THEN v ELSE -1
  /\ UNCHANGED <<radix, digits>>

IntNext ==
  \/ Len(digits) < MaxDigits /\ \E k \in 0..9 : ParseDigit(k)
  \/ Len(digits) < MaxDigits /\ \E k \in 0..15 : ReadHexDigit(k)
  \/ \E end \in BOOLEAN : EndOfInt(end)

IntSpec == IntInit /\ [][IntNext]_intVars
-----------------------------------------------------------------------------
(* Writing *)

\* AppendUint and AppendUintInto; writeHexInt.
RECURSIVE AppendInt(_, _)
AppendInt(n, r) == IF n < r THEN <<n>> ELSE AppendInt(n \div r, r) \o <<n % r>>
-----------------------------------------------------------------------------
(* Properties *)

RECURSIVE ValueOf(_, _)
ValueOf(d, r) == IF d = <<>> THEN 0 ELSE r * ValueOf(SubSeq(d, 1, Len(d) - 1), r) + d[Len(d)]

\* IntTypeOK, and: a number that the integer can hold is read as it is, and only what it
\* cannot hold, or a size of too many digits, is too long; a size of a chunk is never wrong.
\* What was read is written back with the digits of it, without leading zeros.
IntExact ==
  /\ IntTypeOK
  /\ result \in {"more", "int"} /\ (radix = 16 \/ ValueOf(digits, radix) <= MaxInt) =>
       v = ValueOf(digits, radix)
  /\ result = "long" => IF radix = 10 THEN ValueOf(digits, 10) > MaxInt ELSE Len(digits) > MaxHexIntChars
  /\ result = "int" /\ digits[1] # 0 /\ v = ValueOf(digits, radix) => AppendInt(v, radix) = digits
-----------------------------------------------------------------------------
(* What the comments say and the code does not do *)

\* "Test for overflow." (parseUintBuf): 10*v can wrap around to a value above v, and a number
\* that does not fit is read as another one.
OverflowIsFound == result = "int" => v = ValueOf(digits, radix)
===============================================================================
