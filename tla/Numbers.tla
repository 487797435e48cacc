------------------------------- MODULE Numbers -------------------------------
(***************************************************************************)
(* The numbers of the compiled language and what the generated operations  *)
(* compute on them.                                                        *)
(*                                                                         *)
(* An int is a word of INTEGER_WIDTH bits.  A double is its rank in the    *)
(* order of the doubles (both zeros have one rank), or it is NaN; nothing  *)
(* here depends on which number a rank stands for.                         *)
(***************************************************************************)
EXTENDS Integers

CONSTANTS
  Half,      \* half the number of words: 2^63
  NaN,       \* every NaN
  Rounded    \* sitofp: words to ranks

Word == - Half .. Half - 1

(* Of the ranks, those of the doubles that words are rounded to.           *)
Rank == {Rounded[v] : v \in Word}

Double == Int \cup {NaN}

(* A word has at least two bits, so that it can hold -1, 0 and 1.          *)
ASSUME HalfAssumption == Half \in Nat \ {0, 1}

ASSUME NaNAssumption == NaN \notin Int

(* Rounding to the nearest double never swaps two numbers.                 *)
ASSUME RoundedAssumption ==
  /\ Rounded \in [Word -> Int]
  /\ \A v, w \in Word : v <= w => Rounded[v] <= Rounded[w]

-----------------------------------------------------------------------------
(* Integer operations, without nsw: they wrap around                       *)

Wrap(n) == ((n + Half) % (2 * Half)) - Half

Add(v, w) == Wrap(v + w)
Sub(v, w) == Wrap(v - w)

-----------------------------------------------------------------------------
(* Comparisons                                                             *)

(* Of icmp the signed predicates, of fcmp those that hold of a NaN.        *)
Holds(pred, v, w) ==
  CASE pred = "slt" -> v < w
    [] pred = "sgt" -> v > w
    [] pred = "sle" -> v <= w
    [] pred = "sge" -> v >= w
    [] pred = "eq"  -> v = w
    [] pred = "ult" -> NaN \in {v, w} \/ v < w
    [] pred = "ugt" -> NaN \in {v, w} \/ v > w
    [] pred = "ule" -> NaN \in {v, w} \/ v <= w
    [] pred = "uge" -> NaN \in {v, w} \/ v >= w
    [] pred = "ueq" -> NaN \in {v, w} \/ v = w

Comparison == {"ELt", "EGt", "ELtEq", "EGtEq", "EEq"}

OnWords   == [ELt |-> "slt", EGt |-> "sgt", ELtEq |-> "sle", EGtEq |-> "sge", EEq |-> "eq"]

(* Mutant of OnDoubles: >= forgets the equal ones.                         *)
OnDoublesStrict ==
  [ELt |-> "ult", EGt |-> "ugt", ELtEq |-> "ule", EGtEq |-> "ugt", EEq |-> "ueq"]

OnDoubles == [ELt |-> "ult", EGt |-> "ugt", ELtEq |-> "ule", EGtEq |-> "uge", EEq |-> "ueq"]

Compare(op, double, v, w) == Holds(IF double THEN OnDoubles[op] ELSE OnWords[op], v, w)

(* sext of an i1: true has its one bit for a sign.                         *)
SExt(b) == IF b THEN -1 ELSE 0

Twc(double, v, w) ==
  Sub(SExt(Compare("ELt", double, v, w)), SExt(Compare("EGt", double, v, w)))

-----------------------------------------------------------------------------
(* What the operators are meant to compute of two numbers                  *)

Order(op, v, w) ==
  CASE op = "ELt"   -> v < w
    [] op = "EGt"   -> v > w
    [] op = "ELtEq" -> v <= w
    [] op = "EGtEq" -> v >= w
    [] op = "EEq"   -> v = w

Sign(v, w) == IF v < w THEN -1 ELSE IF v > w THEN 1 ELSE 0
=============================================================================
