------------------------------- MODULE Values -------------------------------
(***************************************************************************)
(* The types of CoolBasic as cb-sema knows them, what its operators and      *)
(* implicit conversions are defined on, and the values the interpreter        *)
(* computes with.                                                           *)
(*                                                                         *)
(* A type is <<tag, ...>>, a value <<tag, payload>>.  Integers have the width  *)
(* Bits gives their type, so that small numbers overflow; a float is a number  *)
(* of 1/Unit-ths, rounded down; a string is a sequence of pieces, the text of  *)
(* a number one opaque piece.                                               *)
(***************************************************************************)
EXTENDS Integers, Sequences, FiniteSets, TLC

CONSTANTS Bits,    \* the width of Byte, Short, Int and Long, in this order of size
          Unit     \* floats are multiples of 1/Unit

\* Wider types have more bits.
ASSUME BitsAssumption ==
  /\ Bits \in [{"Byte", "Short", "Int", "Long"} -> Nat \ {0}]
  /\ Bits["Byte"] < Bits["Short"] /\ Bits["Short"] < Bits["Int"] /\ Bits["Int"] < Bits["Long"]
  /\ Unit \in Nat \ {0}

Byte == <<"Byte">>
Short == <<"Short">>
Int32 == <<"Int">>
Long == <<"Long">>
Float == <<"Float">>
String == <<"String">>
NullType == <<"Null">>
Void == <<"Void">>
ErrorType == <<"Error">>

Ranks == [Byte |-> 1, Short |-> 2, Int |-> 3, Long |-> 4, Float |-> 5]
IsNumeric(t) == t[1] \in DOMAIN Ranks
IsInteger(t) == IsNumeric(t) /\ t # Float
IsReference(t) == t[1] \in {"TypeRef", "Array", "FnPtr"}
Rank(t) == IF IsNumeric(t) THEN Ranks[t[1]] ELSE 0

SigilType(s) == CASE s = "%" -> Int32 [] s = "#" -> Float [] s = "$" -> String

WidenStorage(t) == IF t \in {Byte, Short} THEN Int32 ELSE t
NumericPromote(a, b) == WidenStorage(IF Rank(a) >= Rank(b) THEN a ELSE b)

Equalities == {"=", "<>"}
Orders == {"<", ">", "<=", ">="}
Comparisons == Equalities \cup Orders
Logical == {"And", "Or", "Xor"}
Shifts == {"Shl", "Shr", "Sar"}
Bitwise3 == {"BinAnd", "BinOr", "BinXor"}

\* The type of `a op b`, Error where the operator does not apply.
BinaryType(op, a, b) ==
  LET numeric == IsNumeric(a) /\ IsNumeric(b)
      integer == IsInteger(a) /\ IsInteger(b)
      comparable == \/ numeric
                    \/ a = String /\ b = String
                    \/ IsReference(a) /\ (IsReference(b) \/ b = NullType)
                    \/ a = NullType /\ (IsReference(b) \/ b = NullType)
      handles == (a[1] = "Runtime" /\ b \in {a, NullType}) \/ (a = NullType /\ b[1] = "Runtime")
      when(ok, t) == IF ok THEN t ELSE ErrorType
  IN  CASE op = "+" /\ String \in {a, b} -> String
        [] op = "+" /\ String \notin {a, b} -> when(numeric, NumericPromote(a, b))
        [] op \in {"-", "*", "/", "Mod"} -> when(numeric, NumericPromote(a, b))
        [] op = "^" -> when(numeric, Float)
        [] op \in Bitwise3 -> when(integer, NumericPromote(a, b))
        [] op \in Shifts -> when(integer, WidenStorage(a))
        [] op \in Equalities -> when(comparable \/ handles, Int32)
        [] op \in Orders -> when(comparable, Int32)
        [] op \in Logical -> when(numeric, Int32)

\* What both operands of `a op b`, of type ty, are converted to; a shift's are left.
OperandType(op, ty, a, b) ==
  CASE op \in Comparisons -> IF IsNumeric(a) /\ IsNumeric(b) THEN NumericPromote(a, b) ELSE a
    [] op \in Logical -> Int32
    [] OTHER -> ty

UnaryType(op, a) ==
  CASE op \in {"Plus", "Neg"} /\ IsNumeric(a) -> WidenStorage(a)
    [] op = "Not" /\ IsNumeric(a) -> Int32
    [] op = "BinNot" /\ IsInteger(a) -> WidenStorage(a)
    [] OTHER -> ErrorType

\* The implicit conversion between two types, "none" where there is none.
Conversion(from, to) ==
  CASE from = to -> "none"
    [] from # to /\ IsInteger(from) /\ IsInteger(to) -> "NumericWiden"
    [] IsInteger(from) /\ to = Float -> "IntToFloat"
    [] from = Float /\ IsInteger(to) -> "FloatToInt"
    [] IsNumeric(from) /\ to = String -> "NumericToString"
    [] from = NullType /\ (IsReference(to) \/ to[1] = "Runtime") -> "NullToRef"
    [] OTHER -> "none"
NarrowingByRank(conv, from, to) == conv = "NumericWiden" /\ Rank(to) < Rank(from)
IsNarrowing(conv, from, to) == conv = "FloatToInt" \/ (conv = "NumericWiden" /\ Rank(to) < Rank(from))

Pow2[n \in 0 .. Bits["Long"]] == IF n = 0 THEN 1 ELSE 2 * Pow2[n - 1]
Unsigned(t) == t \in {Byte, Short}
MinOf(t) == IF Unsigned(t) THEN 0 ELSE -Pow2[Bits[t[1]] - 1]
MaxOf(t) == IF Unsigned(t) THEN Pow2[Bits[t[1]]] - 1 ELSE Pow2[Bits[t[1]] - 1] - 1
InRange(n, t) == n \in MinOf(t) .. MaxOf(t)
Wrap(n, t) == MinOf(t) + ((n - MinOf(t)) % Pow2[Bits[t[1]]])
-----------------------------------------------------------------------------
(* Values.                                                                  *)
V(t, x) == <<t[1], x>>
TypeOfValue(v) == <<v[1]>>
IntV(n) == V(Int32, n)
Flag(b) == IntV(IF b THEN 1 ELSE 0)
NullV == <<"Null", 0>>
VoidV == <<"Void", 0>>
Scalars == {"Byte", "Short", "Int", "Long", "Float"}
Narrow == {"Byte", "Short", "Int"}
Integers4 == Narrow \cup {"Long"}

IsTruthy(v) == CASE v[1] \in Scalars -> v[2] # 0
                 [] v[1] = "String" -> v[2] # <<>>
                 [] v[1] = "FnPtr" -> v[2] # NullV
                 [] v[1] \in {"Null", "Void"} -> FALSE
                 [] OTHER -> TRUE

\* Division and remainder as Rust's: towards zero, the sign of the dividend.
Abs(n) == IF n < 0 THEN -n ELSE n
Quot(a, b) == IF (a < 0) = (b < 0) THEN Abs(a) \div Abs(b) ELSE -(Abs(a) \div Abs(b))
Rem(a, b) == a - b * Quot(a, b)
\* Rounded down.
Floored(a, b) == IF b < 0 THEN (-a) \div (-b) ELSE a \div b

\* round(): half away from zero.
Rounded(x) == IF x >= 0 THEN (2 * x + Unit) \div (2 * Unit) ELSE -((Unit - 2 * x) \div (2 * Unit))
Saturated(n, t) == IF n > MaxOf(t) THEN MaxOf(t) ELSE IF n < MinOf(t) THEN MinOf(t) ELSE n

\* A float as an i64 first, then the target width; the text of a number is one piece.
\* A string that is not the text of a number counts as 0.
NumberIn(pieces) == IF Len(pieces) = 1 /\ pieces[1][1] \in {"int", "float"} THEN pieces[1] ELSE <<"int", 0>>
Truncated(x) == Quot(x, Unit)
ToLong(v) == CASE v[1] = "Float" -> Saturated(Rounded(v[2]), Long)
               [] v[1] = "String" -> LET q == NumberIn(v[2]) IN IF q[1] = "int" THEN q[2] ELSE Truncated(q[2])
               [] OTHER -> v[2]
ToFloat(v) == CASE v[1] = "Float" -> v[2]
                [] v[1] = "String" -> LET q == NumberIn(v[2]) IN IF q[1] = "int" THEN q[2] * Unit ELSE q[2]
                [] OTHER -> v[2] * Unit
TextOf(v) == IF v[1] = "String" THEN v[2]
             ELSE <<<<IF v[1] = "Float" THEN "float" ELSE "int", v[2]>>>>
Convert(v, to) ==
  CASE IsInteger(to) -> V(to, Wrap(ToLong(v), to))
    [] to = Float -> V(Float, ToFloat(v))
    [] to = String -> V(String, TextOf(v))
    [] OTHER -> v
\* A conversion that does not keep a number.
Loses(v, to) == v[1] \in Scalars /\ IsNumeric(to) /\ Convert(Convert(v, to), TypeOfValue(v)) # v

\* Bit patterns, through the unsigned number of the same width.
Raw(n, t) == n % Pow2[Bits[t[1]]]
Bit(n, i) == (n \div Pow2[i]) % 2
BitsOf(op, a, b, t) ==
  LET bit(i) == LET x == Bit(Raw(a, t), i)
                    y == Bit(Raw(b, t), i)
                IN  CASE op = "BinAnd" -> x * y
                      [] op = "BinOr" -> IF x + y > 0 THEN 1 ELSE 0
                      [] op = "BinXor" -> (x + y) % 2
      f[i \in 0 .. Bits[t[1]]] == IF i = 0 THEN 0 ELSE f[i - 1] + bit(i - 1) * Pow2[i - 1]
  IN  f[Bits[t[1]]]
\* The count of a shift is masked to the width, a power of two.
Shift(op, a, b, t) ==
  LET by == Pow2[b % Bits[t[1]]] IN
  CASE op = "Shl" -> a * by
    [] op = "Shr" -> Raw(a, t) \div by
    [] op = "Sar" -> a \div by

Ordered(op, a, b) == CASE op = "=" -> a = b [] op = "<>" -> a # b [] op = "<" -> a < b
                       [] op = ">" -> a > b [] op = "<=" -> a <= b [] op = ">=" -> a >= b

Failed(why) == <<"Failed", why>>
IsFailed(v) == v[1] = "Failed"
IntBinop(op, a, b, t) ==
  CASE op = "+" -> V(t, Wrap(a + b, t))
    [] op = "-" -> V(t, Wrap(a - b, t))
    [] op = "*" -> V(t, Wrap(a * b, t))
    [] op = "/" -> IF b = 0 THEN Failed("DivisionByZero") ELSE V(t, Wrap(Quot(a, b), t))
    [] op = "Mod" -> IF b = 0 THEN Failed("DivisionByZero") ELSE V(t, Wrap(Rem(a, b), t))
    [] op \in Bitwise3 -> V(t, Wrap(BitsOf(op, a, b, t), t))
    [] op \in Shifts -> V(t, Wrap(Shift(op, a, b, t), t))
    [] op \in Comparisons -> Flag(Ordered(op, a, b))
    [] OTHER -> Failed("invalid binop")

\* What does not fit a float is the infinity of its sign.
Infinity == 40000
Capped(x) == IF x > Infinity THEN Infinity ELSE IF x < -Infinity THEN -Infinity ELSE x
\* Whole exponents; the fraction of any other is dropped.
Power(a, b) ==
  LET f[i \in 0 .. Abs(b) \div Unit] == IF i = 0 THEN Unit ELSE Capped((f[i - 1] * a) \div Unit)
      x == f[Abs(b) \div Unit]
  IN  CASE b >= 0 -> x [] b < 0 /\ x # 0 -> Floored(Unit * Unit, x) [] OTHER -> Infinity
FloatBinop(op, a, b) ==
  CASE op = "+" -> V(Float, Capped(a + b))
    [] op = "-" -> V(Float, Capped(a - b))
    [] op = "*" -> V(Float, Capped((a * b) \div Unit))
    [] op = "/" -> V(Float, IF b = 0 THEN Infinity ELSE Capped(Floored(a * Unit, b)))
    [] op = "Mod" -> V(Float, Rem(a, b))
    [] op = "^" -> V(Float, Power(a, b))
    [] op \in Comparisons -> Flag(Ordered(op, a, b))
    [] OTHER -> Failed("invalid binop")

\* Strings are told apart, not ordered.
StringOps == [StrConcat |-> "+", StrEq |-> "=", StrNotEq |-> "<>"]
StringBinop(op, a, b) ==
  CASE op = "StrConcat" -> V(String, a \o b)
    [] op = "StrEq" -> Flag(a = b)
    [] op = "StrNotEq" -> Flag(a # b)
    [] OTHER -> Failed("invalid binop")

\* eval_binop: by the values at hand, not by their static types.
Same(op, equal) == IF op \in Equalities THEN Flag(equal = (op = "=")) ELSE Failed("invalid binop")
EvalBinop(op, a, b) ==
  CASE op \in Shifts /\ a[1] \in Integers4 ->
         IntBinop(op, a[2], ToLong(b), IF a[1] = "Long" THEN Long ELSE Int32)
    [] op \notin Shifts /\ {a[1], b[1]} \subseteq Narrow -> IntBinop(op, a[2], b[2], Int32)
    [] op \notin Shifts /\ {a[1], b[1]} = {"Long"} -> IntBinop(op, a[2], b[2], Long)
    [] {a[1], b[1]} = {"Float"} -> FloatBinop(op, a[2], b[2])
    [] {a[1], b[1]} = {"String"} -> StringBinop(op, a[2], b[2])
    [] {a[1], b[1]} \in {{"TypeInstance"}, {"Handle"}} -> Same(op, a[2] = b[2])
    [] "Null" \in {a[1], b[1]} ->
         Same(op, \A v \in {a, b} : v[1] = "Null" \/ v = <<"FnPtr", NullV>>)
    [] OTHER -> Failed("type mismatch in binop")

EvalUnop(op, v) ==
  LET t == WidenStorage(TypeOfValue(v)) IN
  CASE op = "Neg" /\ v[1] \in Integers4 -> V(t, Wrap(-v[2], t))
    [] op = "Neg" /\ v[1] = "Float" -> V(Float, -v[2])
    [] op = "Plus" /\ v[1] \in Integers4 -> V(t, Wrap(Abs(v[2]), t))
    [] op = "Plus" /\ v[1] = "Float" -> V(Float, Abs(v[2]))
    [] op = "Not" /\ v[1] \in Integers4 -> Flag(v[2] = 0)
    [] op = "BinNot" /\ v[1] \in Integers4 -> V(t, Wrap(-v[2] - 1, t))
    [] OTHER -> Failed("invalid unop")

\* default_value, but for structs, whose fields their declaration gives.
DefaultOf(t) == CASE IsNumeric(t) -> V(t, 0)
                  [] t = String -> V(String, <<>>)
                  [] t[1] = "FnPtr" -> <<"FnPtr", NullV>>
                  [] OTHER -> NullV
=============================================================================
