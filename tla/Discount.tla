------------------------------ MODULE Discount ------------------------------
(***************************************************************************)
(* The four discount strategies and the two questions about a user that    *)
(* are answered without a store: whether the tag scope leaves an activity  *)
(* open, and whether the traffic cut (cutRange) lets the user in.          *)
(*                                                                         *)
(* Money is in cents.  A market_expr is the sequence of its parts between  *)
(* commas; a part is a number in hundredths or Bad, one that does not      *)
(* parse.  A tag_scope is the sequence of its parts, <<>> when empty.  A   *)
(* cutRange is the sequence of its characters: digits, and -1 for any      *)
(* other.                                                                  *)
(***************************************************************************)
EXTENDS Integers, Sequences, SequencesExt

CONSTANTS
  Bad,     \* a part of a market_expr that is no number
  IntBits  \* width of Go's int (64)

ASSUME IntBitsAssumption == IntBits \in Nat \ {0}

\* decimal.NewFromString with the error dropped: zero for what does not parse.
PartValue(part) == IF part = Bad THEN 0 ELSE part
ExprValue(expr) == IF Len(expr) = 1 THEN PartValue(expr[1]) ELSE 0

\* Mutant: no floor.
MinPayForgotten(price) == price

\* A price of zero or less becomes one cent.
MinPay(price) == IF price <= 0 THEN 1 ELSE price

\* Direct reduction.
ZJ(op, expr) == MinPay(op - ExprValue(expr))

\* Reduction of expr[2] from a price of expr[1] on; the price itself when the
\* expression has one part.
MJ(op, expr) ==
  IF Len(expr) < 2 \/ op < PartValue(expr[1]) THEN op
  ELSE MinPay(op - PartValue(expr[2]))

\* A fixed price, without a floor.
N(op, expr) == ExprValue(expr)

\* A ratio of the price, cut down to whole yuan.
ZK(op, expr) == MinPay(((op * ExprValue(expr)) \div 10000) * 100)

\* The registry of strategies, by market_plan.
Plans == {"ZJ", "MJ", "N", "ZK"}
DoCalculate(plan, op, expr) ==
  CASE plan = "ZJ" -> ZJ(op, expr)
    [] plan = "MJ" -> MJ(op, expr)
    [] plan = "N"  -> N(op, expr)
    [] plan = "ZK" -> ZK(op, expr)

\* Everybody sees the activity / may take part in it; otherwise the crowd only.
IsVisible(scope) == scope = <<>> \/ scope[1] # "1"
IsEnable(scope) ==
  /\ ~ (Len(scope) = 2 /\ scope[2] = "2")
  /\ ~ (Len(scope) = 1 /\ scope[1] = "2")

\* Go's int: two's complement, without a check for overflow.
WrapInt(n) == ((n + 2^(IntBits - 1)) % 2^IntBits) - 2^(IntBits - 1)

\* The number the digits of a cutRange spell, as far as an int holds it; other
\* characters are skipped.
CutValue(cut) ==
  FoldLeft(LAMBDA n, c : IF c \in 0..9 THEN WrapInt(n * 10 + c) ELSE n, 0, cut)

\* bucket is the user's hash modulo 100.
IsCutRange(cut, bucket) == cut = <<>> \/ bucket <= CutValue(cut)
=============================================================================
