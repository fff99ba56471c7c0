------------------------------- MODULE Words -------------------------------
(***************************************************************************)
(* Machine integers: two's complement words of W bits (the Int of the      *)
(* language, 64 bits in the program) and of N bits (its narrow integers),  *)
(* with the instructions the backends use.  A word is its signed value.    *)
(* TLA+'s \div rounds down and % is never negative, so that x \div 2^k is  *)
(* the arithmetic shift and x % 2^w the unsigned reading of x.             *)
(***************************************************************************)
EXTENDS Integers

CONSTANTS W, N   \* the widths of Int and of the narrow integers

MinW == -(2^(W - 1))
MaxW == 2^(W - 1) - 1
SWrap(w, x) == ((x + 2^(w - 1)) % 2^w) - 2^(w - 1)
UWrap(w, x) == x % 2^w
InWord(x) == x >= MinW /\ x <= MaxW

\* an outcome of an instruction: a value or a trap
Ok(x) == [st |-> "ok", v |-> x]
Trap == [st |-> "trap", v |-> 0]
Checked(x) == IF InWord(x) THEN Ok(x) ELSE Trap

BitOf(x, i) == (x \div 2^i) % 2
Bits(f(_, _), x, y) ==
  LET low[i \in 0..W] == IF i = 0 THEN 0 ELSE low[i - 1] + 2^(i - 1) * f(BitOf(x, i - 1), BitOf(y, i - 1))
  IN SWrap(W, low[W])
BAnd(x, y) == Bits(LAMBDA a, b : a * b, x, y)
BOr(x, y) == Bits(LAMBDA a, b : a + b - a * b, x, y)
BXor(x, y) == Bits(LAMBDA a, b : (a + b) % 2, x, y)
Shl(x, k) == SWrap(W, x * 2^k)
Sshr(x, k) == x \div 2^k
Ushr(x, k) == SWrap(W, UWrap(W, x) \div 2^k)
Flag(b) == IF b THEN 1 ELSE 0

\* division of the hardware: truncated towards zero
Sdiv(x, y) ==
  LET q == (IF x < 0 THEN -x ELSE x) \div (IF y < 0 THEN -y ELSE y)
  IN SWrap(W, IF (x < 0) = (y < 0) THEN q ELSE -q)
Srem(x, y) == x - Sdiv(x, y) * y
PowerOfTwo(c) == \E k \in 1..(W - 2) : c = 2^k
Log2(c) == CHOOSE k \in 0..(W - 2) : c = 2^k
=============================================================================
