------------------------------ MODULE Backends ------------------------------
(***************************************************************************)
(* The three code generators (Cranelift, LLVM, WASM) and the constant      *)
(* folder on straight-line DMIR.  A program is a sequence of instructions; *)
(* an operand is the position of the instruction that defines it.  The     *)
(* folder rewrites the program one instruction at a time; every backend    *)
(* then executes the code it emits for each instruction.                   *)
(*                                                                         *)
(* A value is [k, v]: k is the machine carrier, "i" an integer or a        *)
(* pointer, "f" a float (an exact whole number here), "s" a string.  A     *)
(* string is the sequence of the pieces it was formatted from.             *)
(***************************************************************************)
EXTENDS Words, Sequences, SequencesExt

CONSTANTS
  Programs,    \* the programs to compile
  ClassFields  \* the classes of the module: name -> sequence of field names

VARIABLES
  bkSource,    \* the program as lowered
  bkFold,      \* the folder: [code, consts, at, vars, errs]
  bkRun        \* per backend and program: the machine that executes the code

bkVars == <<bkSource, bkFold, bkRun>>

IntV(x) == [k |-> "i", v |-> x]
FltV(x) == [k |-> "f", v |-> x]
StrV(x) == [k |-> "s", v |-> x]
Narrow == {"Int8", "UInt8"}
Unsigned == {"UInt8", "UInt"}
Compares == {"<", "<=", ">", ">=", "==", "!="}

dm_wrap_i64_to_repr(ty, x) ==
  CASE ty = "Int8" -> SWrap(N, x) [] ty = "UInt8" -> UWrap(N, x) [] OTHER -> x
dm_repr_sat_bounds(ty) ==
  IF ty = "Int8" THEN [lo |-> -(2^(N - 1)), hi |-> 2^(N - 1) - 1] ELSE [lo |-> 0, hi |-> 2^N - 1]
dm_repr_shift_width(ty) == IF ty \in Narrow THEN N ELSE W
CompareInts(op, x, y) ==
  CASE op = "<" -> x < y [] op = "<=" -> x <= y [] op = ">" -> x > y [] op = ">=" -> x >= y
    [] op = "==" -> x = y [] op = "!=" -> x # y

(***************************************************************************)
(* A machine: the values defined so far, their tracked kinds, the          *)
(* variables, the objects and the output.                                  *)
(***************************************************************************)
NewMachine == [pc |-> 1, val |-> <<>>, bools |-> {}, strs |-> {}, consts |-> <<>>, class |-> <<>>,
               vars |-> <<>>, boolVars |-> {}, strVars |-> {}, heap |-> <<>>, out |-> <<>>, st |-> "run"]
Zero == IntV(0)
ValueAt(m, a) == IF a \in DOMAIN m.val THEN m.val[a] ELSE Zero
Put(f, x, y) == [z \in DOMAIN f \cup {x} |-> IF z = x THEN y ELSE f[z]]
Define(m, x) == [m EXCEPT !.val = Put(@, m.pc, x), !.pc = @ + 1]
DefineOutcome(m, o) == IF o.st = "trap" THEN [m EXCEPT !.st = "trap"] ELSE Define(m, IntV(o.v))
Skip(m) == [m EXCEPT !.pc = @ + 1]
MarkBool(m, pos, is) == IF is THEN [m EXCEPT !.bools = @ \cup {pos}] ELSE m
MarkStr(m, pos, is) == IF is THEN [m EXCEPT !.strs = @ \cup {pos}] ELSE m

(***************************************************************************)
(* Cranelift: integers.                                                    *)
(***************************************************************************)
ClifChecked(op, x, y, proven) ==
  LET r == CASE op = "+" -> x + y [] op = "-" -> x - y [] op = "*" -> x * y
  IN IF proven THEN Ok(SWrap(W, r)) ELSE Checked(r)
\* multiplication by a constant is a shift, or a shift and an addition
ClifWrappingMul(x, y, cx, cy) ==
  LET c == IF cy THEN y ELSE x
      x1 == IF cy THEN x ELSE y
  IN IF ~cx /\ ~cy THEN SWrap(W, x * y)
     ELSE CASE c = 0 -> 0
            [] c = 1 -> x1
            [] c \in {3, 5, 9} -> SWrap(W, Shl(x1, Log2(c - 1)) + x1)
            [] PowerOfTwo(c) -> Shl(x1, Log2(c))
            [] OTHER -> SWrap(W, x * y)
ClifSaturating(op, x, y) ==
  LET r == CASE op = "saturating_+" -> x + y [] op = "saturating_-" -> x - y [] op = "saturating_*" -> x * y
      positive == IF op = "saturating_*" THEN BXor(x, y) >= 0 ELSE x >= 0
  IN IF InWord(r) THEN r ELSE IF positive THEN MaxW ELSE MinW
\* the sequence for a division by 2^k: add 2^k - 1 to a negative dividend and shift
ClifDivPow2_NoBias(x, k) == Sshr(x, k)
ClifDivPow2(x, k) == Sshr(SWrap(W, x + Ushr(Sshr(x, W - 1), W - k)), k)
ClifDivTraps(x, y) == y = 0 \/ (x = MinW /\ y = -1)
ClifDiv(x, y, cy) ==
  IF ClifDivTraps(x, y) THEN Trap
  ELSE Ok(IF cy /\ PowerOfTwo(y) THEN ClifDivPow2(x, Log2(y)) ELSE Sdiv(x, y))
ClifRem(x, y, cy) ==
  IF ClifDivTraps(x, y) THEN Trap
  ELSE Ok(IF cy /\ PowerOfTwo(y) THEN SWrap(W, x - Shl(ClifDivPow2(x, Log2(y)), Log2(y))) ELSE Srem(x, y))
ClifShift(op, x, y, ty) ==
  LET count == BAnd(y, dm_repr_shift_width(ty) - 1)
  IN IF op = "<<" THEN Shl(x, count)
     ELSE IF ty \in Unsigned /\ x < 0 THEN Ushr(x, count) ELSE Sshr(x, count)
\* the comparison of unsigned operands is emitted again; != has no code of its own
ClifUnsignedCompare(op, x, y, ty) ==
  LET m(z) == UWrap(IF ty = "UInt8" THEN N ELSE W, z)
  IN IF op \in {"<", "<=", ">", ">="} THEN CompareInts(op, m(x), m(y)) ELSE m(x) = m(y)
ClifCompare(op, x, y, ty) ==
  Flag(IF ty \in Unsigned THEN ClifUnsignedCompare(op, x, y, ty) ELSE CompareInts(op, x, y))
ClifInt(op, x, y, cx, cy, ty, proven) ==
  CASE op \in {"+", "-", "*"} -> ClifChecked(op, x, y, proven)
    [] op \in {"wrapping_+", "wrapping_-"} -> Ok(SWrap(W, IF op = "wrapping_+" THEN x + y ELSE x - y))
    [] op = "wrapping_*" -> Ok(ClifWrappingMul(x, y, cx, cy))
    [] op \in {"saturating_+", "saturating_-", "saturating_*"} -> Ok(ClifSaturating(op, x, y))
    [] op = "/" -> ClifDiv(x, y, cy)
    [] op = "%" -> ClifRem(x, y, cy)
    [] op = "&" -> Ok(BAnd(x, y)) [] op = "|" -> Ok(BOr(x, y)) [] op = "^" -> Ok(BXor(x, y))
    [] op \in {"<<", ">>"} -> Ok(ClifShift(op, x, y, ty))
    [] op \in Compares -> Ok(ClifCompare(op, x, y, ty))
\* results other than comparisons and shifts are wrapped to the width of the type
ClifWrapBack(op, ty, o) ==
  IF o.st = "trap" \/ op \in Compares \cup {"<<", ">>"} THEN o ELSE Ok(dm_wrap_i64_to_repr(ty, o.v))

(***************************************************************************)
(* Cranelift: floats and strings.                                          *)
(***************************************************************************)
AsFloat(x) == x.v   \* fcvt_from_sint of an I64 operand
ClifFloat(op, x, y, cx, cy) ==
  CASE op = "+" -> FltV(IF cy /\ y = 0 THEN x ELSE IF cx /\ x = 0 THEN y ELSE x + y)
    [] op = "-" -> FltV(IF cy /\ y = 0 THEN x ELSE IF cx /\ x = 0 THEN -y ELSE x - y)
    [] op = "*" -> FltV(IF cy /\ y = 1 THEN x ELSE IF cy /\ y = 2 THEN x + x
                        ELSE IF cx /\ x = 1 THEN y ELSE IF cx /\ x = 2 THEN y + y ELSE x * y)
    [] op \in Compares -> IntV(Flag(CompareInts(op, x, y)))
\* the converter of an operand of a concatenation or of an interpolation
ClifPiece(m, a) ==
  LET x == ValueAt(m, a)
  IN IF a \in m.strs THEN x.v
     ELSE IF a \in m.bools THEN <<[how |-> "bool", v |-> x.v]>>
     ELSE IF x.k = "f" THEN <<[how |-> "flt", v |-> x.v]>>
     ELSE <<[how |-> "int", v |-> x.v]>>
ClifBin(m, i) ==
  LET x == ValueAt(m, i.l)
      y == ValueAt(m, i.r)
      cx == i.l \in DOMAIN m.consts
      cy == i.r \in DOMAIN m.consts
      str == i.l \in m.strs \/ i.r \in m.strs \/ i.ty = "Str"
  IN IF i.op = "+" /\ str
     THEN MarkStr(Define(m, StrV(ClifPiece(m, i.l) \o ClifPiece(m, i.r))), m.pc, TRUE)
     ELSE IF str THEN MarkBool(Define(m, IntV(Flag((i.op = "==") = (x.v = y.v)))), m.pc, TRUE)
     ELSE IF x.k = "f" \/ y.k = "f"
     THEN MarkBool(Define(m, ClifFloat(i.op, AsFloat(x), AsFloat(y), cx, cy)), m.pc, i.op \in Compares)
     ELSE MarkBool(DefineOutcome(m, ClifWrapBack(i.op, i.ty, ClifInt(i.op, x.v, y.v, cx, cy, i.ty, FALSE))),
                   m.pc, i.op \in Compares \/ i.ty = "Bool")
ClifUn(m, i) ==
  LET x == ValueAt(m, i.a)
      r == CASE x.k = "f" /\ i.op = "-" -> FltV(0 - x.v)
             [] x.k = "i" /\ i.op = "-" -> IntV(SWrap(W, -x.v))
             [] x.k = "i" /\ i.op = "!" -> IntV(IF i.a \in m.bools THEN Flag(x.v = 0) ELSE SWrap(W, -x.v - 1))
             [] OTHER -> x
  IN MarkStr(MarkBool(Define(m, r), m.pc, i.op = "!" \/ (i.op = "copy" /\ i.ty = "Bool")), m.pc, i.a \in m.strs)

(***************************************************************************)
(* Cranelift: conversions, variables, objects, choices, output.            *)
(***************************************************************************)
Saturate(x) == IF x < MinW THEN MinW ELSE IF x > MaxW THEN MaxW ELSE x
ClifCast(m, i) ==
  LET x == ValueAt(m, i.a)
  IN Define(m, IF i.from = "Float" /\ i.to # "Float" THEN IntV(Saturate(x.v))
               ELSE IF i.from # "Float" /\ i.to = "Float" THEN FltV(x.v)
               ELSE IF i.to \in Narrow THEN IntV(dm_wrap_i64_to_repr(i.to, x.v)) ELSE x)
ClifLoadVar(m, i) ==
  MarkStr(MarkBool(Define(m, IF i.n \in DOMAIN m.vars THEN m.vars[i.n] ELSE Zero),
                   m.pc, i.n \in m.boolVars), m.pc, i.n \in m.strVars)
ClifAssignVar(m, i) ==
  Skip([m EXCEPT !.vars = Put(@, i.n, ValueAt(m, i.a)),
         !.boolVars = IF i.a \in m.bools THEN @ \cup {i.n} ELSE @ \ {i.n},
         !.strVars = IF i.a \in m.strs THEN @ \cup {i.n} ELSE @ \ {i.n}])
IndexOfField(cls, f) == CHOOSE j \in DOMAIN ClassFields[cls] : ClassFields[cls][j] = f
\* the layout is the declared order of the fields of the receiver's class
ClifStructInit(m, i) ==
  LET obj == [j \in DOMAIN i.fs |-> ValueAt(m, i.fs[j])]
  IN Define([m EXCEPT !.heap = Append(@, obj), !.class = Put(@, m.pc, i.cls)], IntV(Len(m.heap) + 1))
ClifGetField(m, i) ==
  LET x == m.heap[ValueAt(m, i.a).v][IndexOfField(m.class[i.a], i.f)]
  IN MarkStr(MarkBool(Define(m, x), m.pc, i.ty = "Bool"), m.pc, i.ty = "Str")
ClifSetField(m, i) ==
  Skip([m EXCEPT !.heap[ValueAt(m, i.a).v][IndexOfField(m.class[i.a], i.f)] = ValueAt(m, i.b)])
ClifSelect(m, i) ==
  LET r == IF ValueAt(m, i.c).v # 0 THEN ValueAt(m, i.a) ELSE ValueAt(m, i.b)
  IN MarkStr(MarkBool(Define(m, r), m.pc, {i.a, i.b} \cap m.bools # {} \/ i.ty = "Bool"),
             m.pc, {i.a, i.b} \cap m.strs # {})
\* the arms are folded from the last to the first
ClifDecide(m, i) ==
  LET r == FoldRight(LAMBDA arm, acc : IF ValueAt(m, arm.c).v # 0 THEN ValueAt(m, arm.a) ELSE acc,
                     i.arms, ValueAt(m, i.els))
  IN MarkBool(Define(m, r), m.pc, i.ty = "Bool")
ClifFormatStr(m, i) ==
  MarkStr(Define(m, StrV(FlattenSeq([j \in DOMAIN i.vals |-> ClifPiece(m, i.vals[j])]))), m.pc, TRUE)
ClifOut(m, i) ==
  LET x == ValueAt(m, i.a)
      how == IF i.a \in m.strs THEN "str" ELSE IF x.k = "f" THEN "flt" ELSE IF i.a \in m.bools THEN "bool" ELSE "int"
  IN Skip([m EXCEPT !.out = Append(@, [how |-> how, v |-> x.v])])
Constant(m, i) ==
  LET x == CASE i.ty = "Float" -> FltV(i.v) [] i.ty = "Str" -> StrV(i.v) [] OTHER -> IntV(i.v)
  IN MarkStr(MarkBool(Define(m, x), m.pc, i.ty = "Bool"), m.pc, i.ty = "Str")
\* const_int_map and const_float_map hold numbers only
ClifConst(m, i) ==
  LET d == Constant(m, i)
  IN IF i.ty \in {"Bool", "Str"} THEN d ELSE [d EXCEPT !.consts = Put(@, m.pc, i.v)]
\* compile_numeric_convert: a float out of the range of Int traps
ClifConv(m, i) ==
  LET x == ValueAt(m, i.a)
  IN IF i.m = "to_float" THEN Define(m, FltV(x.v))
     ELSE DefineOutcome(m, IF x.k = "f" THEN Checked(x.v) ELSE Ok(x.v))
ClifInst(m, i) ==
  CASE i.k = "const" -> ClifConst(m, i) [] i.k = "param" -> Constant(m, i)
    [] i.k = "bin" -> ClifBin(m, i) [] i.k = "un" -> ClifUn(m, i) [] i.k = "cast" -> ClifCast(m, i)
    [] i.k = "conv" -> ClifConv(m, i) [] i.k = "load" -> ClifLoadVar(m, i)
    [] i.k = "assign" -> ClifAssignVar(m, i) [] i.k = "struct" -> ClifStructInit(m, i)
    [] i.k = "get" -> ClifGetField(m, i) [] i.k = "set" -> ClifSetField(m, i)
    [] i.k = "select" -> ClifSelect(m, i) [] i.k = "decide" -> ClifDecide(m, i)
    [] i.k = "fmt" -> ClifFormatStr(m, i) [] i.k = "out" -> ClifOut(m, i)

(***************************************************************************)
(* LLVM.  Integer arithmetic calls the checked functions of the runtime;   *)
(* the width of a narrow type is not looked at.                            *)
(***************************************************************************)
RtChecked(op, x, y) == CASE op = "+" -> Checked(x + y) [] op = "-" -> Checked(x - y) [] op = "*" -> Checked(x * y)
RtDiv(op, x, y) ==
  IF y = 0 \/ (x = MinW /\ y = -1) THEN Trap ELSE Ok(IF op = "/" THEN Sdiv(x, y) ELSE Srem(x, y))
LlvmBits(op, x, y) ==
  CASE op = "&" -> BAnd(x, y) [] op = "|" -> BOr(x, y) [] op = "^" -> BXor(x, y)
    [] op = "<<" -> Shl(x, BAnd(y, W - 1)) [] op = ">>" -> Sshr(x, BAnd(y, W - 1))
LlvmInt(op, x, y) ==
  CASE op \in {"+", "-", "*"} -> RtChecked(op, x, y)
    [] op \in {"/", "%"} -> RtDiv(op, x, y)
    [] op = "wrapping_+" -> Ok(SWrap(W, x + y)) [] op = "wrapping_-" -> Ok(SWrap(W, x - y))
    [] op = "wrapping_*" -> Ok(SWrap(W, x * y))
    [] op \in {"saturating_+", "saturating_-", "saturating_*"} -> Ok(ClifSaturating(op, x, y))
    [] op \in Compares -> Ok(Flag(CompareInts(op, x, y)))
    [] op \in {"&", "|", "^", "<<", ">>"} -> Ok(LlvmBits(op, x, y))
LlvmFloat(op, x, y) ==
  CASE op = "+" -> FltV(x + y) [] op = "-" -> FltV(x - y) [] op = "*" -> FltV(x * y)
    [] op \in Compares -> IntV(Flag(CompareInts(op, x, y)))
LlvmPiece(m, a) ==
  LET x == ValueAt(m, a)
  IN CASE x.k = "s" -> x.v
       [] x.k = "f" -> <<[how |-> "flt", v |-> x.v]>>
       [] a \in m.bools -> <<[how |-> "bool", v |-> x.v]>>
       [] OTHER -> <<[how |-> "int", v |-> x.v]>>
LlvmBin(m, i) ==
  LET x == ValueAt(m, i.l)
      y == ValueAt(m, i.r)
  IN IF i.op = "+" /\ (i.ty = "Str" \/ x.k = "s" \/ y.k = "s")
     THEN Define(m, StrV(LlvmPiece(m, i.l) \o LlvmPiece(m, i.r)))
     ELSE IF i.ty = "Str" THEN MarkBool(Define(m, IntV(Flag((i.op = "==") = (x.v = y.v)))), m.pc, TRUE)
     ELSE IF i.ty = "Float" \/ x.k = "f" \/ y.k = "f"
     THEN MarkBool(Define(m, LlvmFloat(i.op, x.v, y.v)), m.pc, i.op \in Compares)
     ELSE MarkBool(DefineOutcome(m, LlvmInt(i.op, x.v, y.v)), m.pc,
                   i.op \in Compares \/ (i.op \in {"&", "|"} /\ {i.l, i.r} \cap m.bools # {}))
\* a float operand is negated whatever the operator is
LlvmUn(m, i) ==
  LET x == ValueAt(m, i.a)
  IN CASE i.ty = "Float" -> Define(m, FltV(-x.v))
       [] i.ty # "Float" /\ i.op = "!" -> MarkBool(Define(m, IntV(Flag(x.v = 0))), m.pc, TRUE)
       [] i.ty # "Float" /\ i.op = "copy" -> MarkBool(Define(m, x), m.pc, i.a \in m.bools)
       [] OTHER -> Define(m, IntV(SWrap(W, 0 - x.v)))
\* fptosi of a float out of the range of Int is poison
Poison(m) == [m EXCEPT !.st = "poison"]
LlvmCast(m, i) ==
  LET x == ValueAt(m, i.a)
  IN IF i.from = "Float" /\ i.to # "Float" THEN IF InWord(x.v) THEN Define(m, IntV(x.v)) ELSE Poison(m)
     ELSE IF i.from # "Float" /\ i.to = "Float" THEN Define(m, FltV(x.v))
     ELSE IF i.to \in Narrow THEN Define(m, IntV(dm_wrap_i64_to_repr(i.to, x.v)))
     ELSE MarkBool(Define(m, x), m.pc, i.to = "Bool")
LlvmConv(m, i) ==
  LET x == ValueAt(m, i.a)
  IN IF i.m = "to_float" THEN Define(m, FltV(x.v)) ELSE IF InWord(x.v) THEN Define(m, IntV(x.v)) ELSE Poison(m)
LlvmLoadVar(m, i) ==
  MarkBool(Define(m, IF i.n \in DOMAIN m.vars THEN m.vars[i.n] ELSE Zero), m.pc, i.n \in m.boolVars)
LlvmAssignVar(m, i) ==
  Skip([m EXCEPT !.vars = Put(@, i.n, ValueAt(m, i.a)),
         !.boolVars = IF i.a \in m.bools THEN @ \cup {i.n} ELSE @ \ {i.n}])
LlvmGetField(m, i) ==
  MarkBool(Define(m, m.heap[ValueAt(m, i.a).v][IndexOfField(m.class[i.a], i.f)]), m.pc, i.ty = "Bool")
\* the kind of a choice is that of its operands' carriers; Bool is not tracked
LlvmSelect(m, i) == Define(m, IF ValueAt(m, i.c).v # 0 THEN ValueAt(m, i.a) ELSE ValueAt(m, i.b))
LlvmDecide(m, i) ==
  Define(m, FoldRight(LAMBDA arm, acc : IF ValueAt(m, arm.c).v # 0 THEN ValueAt(m, arm.a) ELSE acc,
                      i.arms, ValueAt(m, i.els)))
LlvmFormatStr(m, i) == Define(m, StrV(FlattenSeq([j \in DOMAIN i.vals |-> LlvmPiece(m, i.vals[j])])))
LlvmOut(m, i) ==
  LET x == ValueAt(m, i.a)
      how == IF i.a \in m.bools THEN "bool" ELSE CASE x.k = "f" -> "flt" [] x.k = "s" -> "str" [] x.k = "i" -> "int"
  IN Skip([m EXCEPT !.out = Append(@, [how |-> how, v |-> x.v])])
LlvmInst(m, i) ==
  CASE i.k \in {"const", "param"} -> Constant(m, i)
    [] i.k = "bin" -> LlvmBin(m, i) [] i.k = "un" -> LlvmUn(m, i) [] i.k = "cast" -> LlvmCast(m, i)
    [] i.k = "conv" -> LlvmConv(m, i) [] i.k = "load" -> LlvmLoadVar(m, i)
    [] i.k = "assign" -> LlvmAssignVar(m, i) [] i.k = "struct" -> ClifStructInit(m, i)
    [] i.k = "get" -> LlvmGetField(m, i) [] i.k = "set" -> ClifSetField(m, i)
    [] i.k = "select" -> LlvmSelect(m, i) [] i.k = "decide" -> LlvmDecide(m, i)
    [] i.k = "fmt" -> LlvmFormatStr(m, i) [] i.k = "out" -> LlvmOut(m, i)

(***************************************************************************)
(* WASM.  Overflow is detected after the wrapping instruction; the result  *)
(* of an instruction without code is the initial value of its local, 0.    *)
(***************************************************************************)
WasmAddOverflow(r, x, y) == BAnd(BXor(r, x), BXor(r, y)) < 0
WasmSubOverflow(r, x, y) == BAnd(BXor(x, y), BXor(r, x)) < 0
\* i64.div_s traps on MIN / -1
WasmMulOverflow_Unguarded(r, x, y) == x # 0 /\ x # MinW /\ Sdiv(r, x) # y
WasmMulOverflow(r, x, y) == x # 0 /\ ((r = MinW /\ x = -1) \/ Sdiv(r, x) # y)
WasmAddSub(op, x, y) ==
  LET r == SWrap(W, IF op \in {"+", "saturating_+"} THEN x + y ELSE x - y)
      over == IF op \in {"+", "saturating_+"} THEN WasmAddOverflow(r, x, y) ELSE WasmSubOverflow(r, x, y)
  IN IF ~over THEN Ok(r)
     ELSE IF op \in {"+", "-"} THEN Trap ELSE Ok(IF x >= 0 THEN MaxW ELSE MinW)
WasmMul(op, x, y) ==
  LET r == SWrap(W, x * y)
  IN IF op = "*" THEN IF WasmMulOverflow(r, x, y) THEN Trap ELSE Ok(r)
     ELSE IF {x, y} = {-1, MinW} THEN Ok(MaxW)
     ELSE IF x # 0 /\ Sdiv(r, x) # y THEN Ok(IF BXor(x, y) >= 0 THEN MaxW ELSE MinW) ELSE Ok(r)
\* i64.rem_s of MIN by -1 is 0
WasmDivRem(op, x, y) ==
  IF y = 0 \/ (op = "/" /\ x = MinW /\ y = -1) THEN Trap ELSE Ok(IF op = "/" THEN Sdiv(x, y) ELSE Srem(x, y))
WasmInt(op, x, y) ==
  CASE op \in {"+", "-", "saturating_+", "saturating_-"} -> WasmAddSub(op, x, y)
    [] op \in {"*", "saturating_*"} -> WasmMul(op, x, y)
    [] op = "wrapping_+" -> Ok(SWrap(W, x + y)) [] op = "wrapping_-" -> Ok(SWrap(W, x - y))
    [] op = "wrapping_*" -> Ok(SWrap(W, x * y))
    [] op \in {"/", "%"} -> WasmDivRem(op, x, y)
    [] op \in {"&", "|", "^", "<<", ">>"} -> Ok(LlvmBits(op, x, y))
    [] op \in Compares -> Ok(Flag(CompareInts(op, x, y)))
\* a string is an address; what arithmetic on addresses yields is left out
WasmBin(m, i) ==
  LET x == ValueAt(m, i.l)
      y == ValueAt(m, i.r)
  IN IF "s" \in {x.k, y.k} THEN Define(m, Zero)
     ELSE IF i.ty = "Float" THEN Define(m, LlvmFloat(i.op, x.v, y.v)) ELSE DefineOutcome(m, WasmInt(i.op, x.v, y.v))
WasmUn(m, i) ==
  LET x == ValueAt(m, i.a)
  IN Define(m, CASE i.op = "-" -> IF x.k = "f" THEN FltV(-x.v) ELSE IntV(SWrap(W, 0 - x.v))
                 [] i.op = "!" -> IntV(Flag(x.v = 0))
                 [] OTHER -> x)
\* a conversion method leaves the function that compiles the block: nothing that
\* follows it in the block is emitted
WasmConv(m, i) ==
  LET x == ValueAt(m, i.a)
      o == IF i.m = "to_int" THEN Checked(x.v) ELSE Ok(x.v)
  IN IF o.st = "trap" THEN [m EXCEPT !.st = "trap"]
     ELSE [Define(m, IF i.m = "to_int" THEN IntV(o.v) ELSE FltV(o.v)) EXCEPT !.st = "dropped"]
\* the first class, by name, that has a field of this name decides the offset
WasmFieldIndex(f) ==
  LET having == {c \in DOMAIN ClassFields : f \in Range(ClassFields[c])}
      first == CHOOSE c \in having : \A d \in having : c <= d
  IN IndexOfField(first, f)
WasmGetField(m, i) == Define(m, m.heap[ValueAt(m, i.a).v][WasmFieldIndex(i.f)])
WasmSetField(m, i) == Skip([m EXCEPT !.heap[ValueAt(m, i.a).v][WasmFieldIndex(i.f)] = ValueAt(m, i.b)])
WasmOut(m, i) == Skip([m EXCEPT !.out = Append(@, [how |-> "raw", v |-> ValueAt(m, i.a).v])])
WasmInst(m, i) ==
  CASE i.k \in {"const", "param"} -> Constant(m, i)
    [] i.k = "bin" -> WasmBin(m, i) [] i.k = "un" -> WasmUn(m, i) [] i.k = "cast" -> Define(m, Zero)
    [] i.k = "conv" -> WasmConv(m, i) [] i.k = "load" -> LlvmLoadVar(m, i)
    [] i.k = "assign" -> LlvmAssignVar(m, i) [] i.k = "struct" -> ClifStructInit(m, i)
    [] i.k = "get" -> WasmGetField(m, i) [] i.k = "set" -> WasmSetField(m, i)
    [] i.k = "select" -> LlvmSelect(m, i) [] i.k = "decide" -> LlvmDecide(m, i)
    [] i.k = "fmt" -> Define(m, StrV(<<>>)) [] i.k = "out" -> WasmOut(m, i)

(***************************************************************************)
(* The constant folder.  An instruction whose operands are known becomes   *)
(* a constant; a constant has the family "Int", "Float", "Str" or "Bool".  *)
(* Float division and the regrouping of float sums, which are about        *)
(* rounding, are left out: the floats here are exact.                      *)
(***************************************************************************)
Known(f, a) == a \in DOMAIN f.consts
KnownAs(f, a, ty) == Known(f, a) /\ f.consts[a].ty = ty
Literal(ty, v) == [k |-> "const", ty |-> ty, v |-> v]
Keep(f, i) == [f EXCEPT !.code = Append(@, i), !.at = @ + 1]
FoldTo(f, c) == [Keep(f, c) EXCEPT !.consts = Put(@, f.at, c)]
\* a variable is known inside its block; an assignment of an unknown value forgets it
FoldAssignVar(f, i) ==
  [Keep(f, i) EXCEPT !.vars = IF Known(f, i.a) THEN Put(@, i.n, f.consts[i.a])
                              ELSE [n \in DOMAIN @ \ {i.n} |-> @[n]]]
FoldLoadVar(f, i) ==
  IF i.n \in DOMAIN f.vars THEN [Keep(f, i) EXCEPT !.consts = Put(@, f.at, f.vars[i.n])] ELSE Keep(f, i)
FoldUn(f, i) ==
  IF ~Known(f, i.a) THEN Keep(f, i)
  ELSE LET c == f.consts[i.a]
       IN CASE i.op = "copy" -> FoldTo(f, c)
            [] i.op = "-" /\ c.ty = "Int" -> FoldTo(f, Literal("Int", SWrap(W, 0 - c.v)))
            [] i.op = "-" /\ c.ty = "Float" -> FoldTo(f, Literal("Float", 0 - c.v))
            [] i.op = "!" /\ c.ty = "Bool" -> FoldTo(f, Literal("Bool", 1 - c.v))
            [] OTHER -> Keep(f, i)
FoldCast(f, i) ==
  CASE i.from = "Float" /\ i.to # "Float" /\ KnownAs(f, i.a, "Float") ->
         FoldTo(f, Literal("Int", Saturate(f.consts[i.a].v)))
    [] i.from # "Float" /\ i.to = "Float" /\ KnownAs(f, i.a, "Int") ->
         FoldTo(f, Literal("Float", f.consts[i.a].v))
    [] i.from # "Float" /\ i.to # "Float" /\ KnownAs(f, i.a, "Int") ->
         FoldTo(f, Literal("Int", dm_wrap_i64_to_repr(i.to, f.consts[i.a].v)))
    [] OTHER -> Keep(f, i)
\* what the arithmetic of two known integers folds to: the empty set if it does not
InRange(r) == IF InWord(r) THEN {r} ELSE {}
FoldWide_Wrapped(op, x, y) == {SWrap(W, CASE op = "+" -> x + y [] op = "-" -> x - y [] op = "*" -> x * y)}
FoldWide(op, x, y) == InRange(CASE op = "+" -> x + y [] op = "-" -> x - y [] op = "*" -> x * y)
FoldSaturating(op, x, y, ty) ==
  LET r == Saturate(CASE op = "saturating_+" -> x + y [] op = "saturating_-" -> x - y [] op = "saturating_*" -> x * y)
      b == dm_repr_sat_bounds(ty)
  IN IF ty \notin Narrow THEN r ELSE IF r < b.lo THEN b.lo ELSE IF r > b.hi THEN b.hi ELSE r
ShiftInRange(y, ty) == y >= 0 /\ y < dm_repr_shift_width(ty)
FoldInt(op, x, y, ty) ==
  LET wrap(r) == {dm_wrap_i64_to_repr(ty, SWrap(W, r))}
  IN CASE op \in {"+", "-", "*"} /\ ty \notin Narrow -> FoldWide(op, x, y)
       [] op \in {"+", "wrapping_+"} -> wrap(x + y)
       [] op \in {"-", "wrapping_-"} -> wrap(x - y)
       [] op \in {"*", "wrapping_*"} -> wrap(x * y)
       [] op \in {"saturating_+", "saturating_-", "saturating_*"} -> {FoldSaturating(op, x, y, ty)}
       [] op = "&" -> {BAnd(x, y)} [] op = "|" -> {BOr(x, y)} [] op = "^" -> {BXor(x, y)}
       [] op = "<<" /\ ShiftInRange(y, ty) -> wrap(Shl(x, y))
       [] op = ">>" /\ ShiftInRange(y, ty) -> {Sshr(x, y)}
       [] op = "/" /\ ~ClifDivTraps(x, y) -> wrap(Sdiv(x, y))
       [] op = "%" /\ ~ClifDivTraps(x, y) -> wrap(Srem(x, y))
       [] OTHER -> {}
FoldFloat(op, x, y) == IF op \in {"+", "-", "*"} THEN {LlvmFloat(op, x, y).v} ELSE {}
FoldBin(f, i) ==
  IF ~Known(f, i.l) \/ ~Known(f, i.r) \/ f.consts[i.l].ty # f.consts[i.r].ty THEN Keep(f, i)
  ELSE LET x == f.consts[i.l].v
           y == f.consts[i.r].v
           ty == f.consts[i.l].ty
           r == IF ty = "Int" THEN FoldInt(i.op, x, y, i.ty) ELSE IF ty = "Float" THEN FoldFloat(i.op, x, y) ELSE {}
           f1 == IF ty = "Int" /\ i.op \in {"<<", ">>"} /\ ~ShiftInRange(y, i.ty)
                 THEN [f EXCEPT !.errs = @ \cup {[code |-> "E0947", at |-> f.at]}] ELSE f
       IN IF r # {} THEN FoldTo(f1, Literal(ty, CHOOSE v \in r : TRUE))
          ELSE IF i.op \in {"==", "!="} THEN FoldTo(f1, Literal("Bool", Flag((i.op = "==") = (x = y))))
          ELSE IF i.op \in Compares /\ ty \in {"Int", "Float"}
          THEN FoldTo(f1, Literal("Bool", Flag(CompareInts(i.op, x, y))))
          ELSE Keep(f1, i)
\* the arms are read in order up to the first one that holds or is not known
FoldDecide(f, i) ==
  LET decided(j) == Known(f, i.arms[j].c) /\ f.consts[i.arms[j].c].ty \in {"Bool", "Int"}
      holds(j) == decided(j) /\ f.consts[i.arms[j].c].v # 0
      taken == {j \in DOMAIN i.arms : holds(j) /\ \A q \in 1..(j - 1) : decided(q) /\ ~holds(q)}
      chosen == IF taken # {} THEN {i.arms[CHOOSE j \in taken : TRUE].a}
                ELSE IF \A j \in DOMAIN i.arms : decided(j) /\ ~holds(j) THEN {i.els} ELSE {}
  IN IF \E a \in chosen : Known(f, a) THEN FoldTo(f, f.consts[CHOOSE a \in chosen : TRUE]) ELSE Keep(f, i)
FoldSelect(f, i) ==
  IF ~KnownAs(f, i.c, "Bool") THEN Keep(f, i)
  ELSE LET a == IF f.consts[i.c].v = 1 THEN i.a ELSE i.b
       IN IF Known(f, a) THEN FoldTo(f, f.consts[a]) ELSE Keep(f, i)
FoldPiece(c) ==
  CASE c.ty = "Str" -> c.v
    [] c.ty = "Int" -> <<[how |-> "int", v |-> c.v]>>
    [] c.ty = "Float" -> <<[how |-> "flt", v |-> c.v]>>
    [] c.ty = "Bool" -> <<[how |-> "bool", v |-> c.v]>>
FoldFormatStr(f, i) ==
  IF \A a \in Range(i.vals) : Known(f, a)
  THEN FoldTo(f, Literal("Str", FlattenSeq([j \in DOMAIN i.vals |-> FoldPiece(f.consts[i.vals[j]])])))
  ELSE Keep(f, i)
\* to_int folds only inside the range of Int
FoldConv(f, i) ==
  CASE i.m = "to_float" /\ Known(f, i.a) /\ f.consts[i.a].ty \in {"Int", "Float"} ->
         FoldTo(f, Literal("Float", f.consts[i.a].v))
    [] i.m = "to_int" /\ (KnownAs(f, i.a, "Int") \/ (KnownAs(f, i.a, "Float") /\ InWord(f.consts[i.a].v))) ->
         FoldTo(f, Literal("Int", f.consts[i.a].v))
    [] OTHER -> Keep(f, i)
FoldInst(f, i) ==
  CASE i.k = "const" -> FoldTo(f, i) [] i.k = "load" -> FoldLoadVar(f, i)
    [] i.k = "assign" -> FoldAssignVar(f, i) [] i.k = "un" -> FoldUn(f, i)
    [] i.k = "cast" -> FoldCast(f, i) [] i.k = "bin" -> FoldBin(f, i)
    [] i.k = "decide" -> FoldDecide(f, i) [] i.k = "select" -> FoldSelect(f, i)
    [] i.k = "fmt" -> FoldFormatStr(f, i) [] i.k = "conv" -> FoldConv(f, i)
    [] OTHER -> Keep(f, i)

(***************************************************************************)
(* The folder walks the program; then the targets compile and run it.      *)
(* A debug build runs the program as lowered ("clif", "llvm", "wasm"), a   *)
(* release build the folded one ("clif_folded").                           *)
(***************************************************************************)
Targets == <<"clif", "llvm", "wasm", "clif_folded">>
Inst(t, m, i) == IF t = "llvm" THEN LlvmInst(m, i) ELSE IF t = "wasm" THEN WasmInst(m, i) ELSE ClifInst(m, i)
RunCode(t, code) ==
  FoldLeft(LAMBDA m, i : IF m.st = "run" THEN Inst(t, m, i) ELSE m, NewMachine, code)
bkStart ==
  /\ bkFold = [code |-> <<>>, consts |-> <<>>, at |-> 1, vars |-> <<>>, errs |-> {}]
  /\ bkRun = <<>>
bkInit == bkSource \in Programs /\ bkStart
FoldDone == bkFold.at > Len(bkSource)
constant_fold ==
  /\ ~FoldDone
  /\ bkFold' = FoldInst(bkFold, bkSource[bkFold.at])
  /\ UNCHANGED <<bkSource, bkRun>>
CompileAndRun(j) ==
  LET t == Targets[j]
  IN
  /\ FoldDone /\ DOMAIN bkRun = {Targets[q] : q \in 1..(j - 1)}
  /\ t = "clif_folded" => bkFold.errs = {}
  /\ bkRun' = Put(bkRun, t, RunCode(t, IF t = "clif_folded" THEN bkFold.code ELSE bkSource))
  /\ UNCHANGED <<bkSource, bkFold>>
bkNext == constant_fold \/ \E j \in DOMAIN Targets : CompileAndRun(j)
bkSpec == bkInit /\ [][bkNext]_bkVars

(***************************************************************************)
(* Properties.                                                             *)
(***************************************************************************)
Ended(t) == t \in DOMAIN bkRun
Observed(t) == [out |-> bkRun[t].out, trapped |-> bkRun[t].st = "trap"]
Uses(P(_)) == \E i \in Range(bkSource) : P(i)
UsesType(tys) == Uses(LAMBDA i : i.k \in {"bin", "cast"} /\ (IF i.k = "bin" THEN i.ty \in tys ELSE {i.from, i.to} \cap tys # {}))

\* CONTRIBUTING.md: the native backends print the same and trap on the same programs.
\* Narrow and unsigned types, whose width LLVM does not look at, are excluded, as are
\* conversions of a float out of range, which are poison there.
NativeAgree ==
  Ended("clif") /\ Ended("llvm") /\ ~UsesType(Narrow \cup Unsigned) /\ bkRun["llvm"].st # "poison"
    => Observed("clif") = Observed("llvm")

\* The numbers a WASM program prints, and the programs it traps on, are Cranelift's: the
\* overflow tests made after the wrapping instruction are those of the flag-setting
\* instructions of the native code.  Excluded is what WASM has no code for: casts,
\* strings, what follows a conversion in its block, and MIN % -1.
WasmNumbersAgree ==
  Ended("clif") /\ Ended("wasm") /\ ~UsesType(Narrow \cup Unsigned \cup {"Str"})
    /\ ~Uses(LAMBDA i : i.k \in {"cast", "conv", "fmt"} \/ (i.k = "bin" /\ i.op = "%"))
    => /\ [j \in DOMAIN bkRun["wasm"].out |-> bkRun["wasm"].out[j].v]
             = [j \in DOMAIN bkRun["clif"].out |-> bkRun["clif"].out[j].v]
       /\ (bkRun["wasm"].st = "trap") = (bkRun["clif"].st = "trap")

\* The back ends compute the same numbers and trap on the same programs.
NumbersAgree == NativeAgree /\ WasmNumbersAgree

\* Folding never changes what a program prints nor whether it traps: wide arithmetic that
\* overflows is left to trap, narrow arithmetic folds to the wrapped value.
FoldPreserves ==
  Ended("clif") /\ Ended("clif_folded")
    /\ ~Uses(LAMBDA i : i.k = "bin" /\ i.ty \in Narrow /\ i.op \in {"saturating_+", "saturating_-", "saturating_*", "<<"})
    /\ ~Uses(LAMBDA i : i.k = "bin" /\ i.ty \in Unsigned /\ i.op = "!=")
    => Observed("clif") = Observed("clif_folded")
=============================================================================
