------------------------------- MODULE Arith -------------------------------
(***************************************************************************)
(* Fixed-width integer helpers of internal/arith and the Go conversions    *)
(* the limiters perform.  Quantities are mathematical integers; a wrapped  *)
(* or truncated result is produced explicitly, where the code produces it. *)
(***************************************************************************)
EXTENDS Integers

CONSTANT MaxU64    \* the largest uint64: 2^64 - 1, scaled down for TLC

\* The widths are those of a two's complement machine: an odd maximum.
ASSUME WidthAssumption == MaxU64 \in Nat /\ MaxU64 % 2 = 1

MaxI64 == MaxU64 \div 2

\* uint64(x): what is left of x in the machine word.
U64(x) == x % (MaxU64 + 1)

\* int64(u) of a word u: two's complement.
I64(u) == IF u <= MaxI64 THEN u ELSE u - (MaxU64 + 1)

MinU64(a, b) == IF a < b THEN a ELSE b

MaxI(a, b) == IF a > b THEN a ELSE b

SaturatingAddU64(a, b) == MinU64(a + b, MaxU64)

\* bits.Div64 panics when the quotient does not fit a word.
MulDivPanics(a, b, div) == div # 0 /\ (a * b) \div div > MaxU64

MulDiv(a, b, div) == IF div = 0 THEN 0 ELSE (a * b) \div div

MulDivRoundUp(a, b, div) ==
  IF div = 0 THEN 0 ELSE MinU64((a * b + div - 1) \div div, MaxU64)

\* Go's %: the remainder has the sign of the dividend.
GoRem(a, b) == IF a >= 0 THEN a % b ELSE -((-a) % b)

=============================================================================
