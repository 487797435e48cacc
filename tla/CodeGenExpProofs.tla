-------------------------- MODULE CodeGenExpProofs --------------------------
(***************************************************************************)
(* Theorems about CodeGenExp for every set of expressions, every type,     *)
(* variable and function: what the typechecker notes in the tree is a      *)
(* typing of it, it rejects an expression only if there is none, and the   *)
(* code generator makes values of the types that are noted.  First come    *)
(* those about the operations on numbers, for words of any width and any   *)
(* rounding that keeps the order.                                          *)
(***************************************************************************)
EXTENDS CodeGenExpTerms, TreeProofs, SequenceTheorems

-----------------------------------------------------------------------------
(* Words *)

(* A number that is a word stays as it is.                                 *)
LEMMA WrapExact == \A n \in Word : Wrap(n) = n
  <1> SUFFICES ASSUME NEW n \in Word PROVE Wrap(n) = n
    OBVIOUS
  <1>1. Half \in Nat /\ n \in Int /\ n + Half \in 0 .. 2 * Half - 1
    BY HalfAssumption DEF Word
  <1>2. (n + Half) % (2 * Half) = n + Half
    BY <1>1
  <1> QED
    BY <1>1, <1>2 DEF Wrap

(* Every result is a word, and differs from the number by whole rounds.    *)
LEMMA WrapRound ==
  ASSUME NEW n \in Int
  PROVE  /\ Wrap(n) \in Word
         /\ \E k \in Int : n = Wrap(n) + 2 * Half * k
  <1>1. Half \in Nat \ {0} /\ 2 * Half \in Nat \ {0}
    BY HalfAssumption
  <1> DEFINE d == 2 * Half
             m == n + Half
  <1>2. m \in Int /\ d \in Nat \ {0}
    BY <1>1
  <1> HIDE DEF d, m
  <1>3. m % d \in 0 .. d - 1 /\ m = d * (m \div d) + (m % d) /\ m \div d \in Int
    BY <1>2
  <1> USE DEF d, m
  <1>4. Wrap(n) = (m % d) - Half
    BY DEF Wrap
  <1>5. Wrap(n) \in Word
    BY <1>1, <1>3, <1>4 DEF Word
  <1>6. n = Wrap(n) + 2 * Half * (m \div d)
    BY <1>1, <1>3, <1>4
  <1> QED
    BY <1>3, <1>5, <1>6

(* Of two words a whole number of rounds apart there is only one.          *)
LEMMA OneWordPerRound ==
  ASSUME NEW v \in Word, NEW w \in Word, NEW k \in Int, v = w + 2 * Half * k
  PROVE  v = w
  <1>1. Half \in Nat \ {0} /\ v \in Int /\ w \in Int /\ v - w < 2 * Half /\ w - v < 2 * Half
    BY HalfAssumption DEF Word
  <1> DEFINE d == 2 * Half
  <1>2. d \in Nat \ {0} /\ v - w = d * k /\ v - w < d /\ w - v < d
    BY <1>1
  <1> HIDE DEF d
  <1>3. k >= 1 => d * k >= d
    BY <1>2
  <1>4. k <= -1 => d * k <= - d
    BY <1>2
  <1>5. k = 0
    BY <1>1, <1>2, <1>3, <1>4
  <1> QED
    BY <1>1, <1>2, <1>5

LEMMA WrapUnique ==
  ASSUME NEW n \in Int, NEW v \in Word, NEW k \in Int, n = v + 2 * Half * k
  PROVE  Wrap(n) = v
  <1>1. Half \in Int /\ v \in Int
    BY HalfAssumption DEF Word
  <1>2. Wrap(n) \in Word /\ \E j \in Int : n = Wrap(n) + 2 * Half * j
    BY WrapRound
  <1>3. PICK j \in Int : n = Wrap(n) + 2 * Half * j
    BY <1>2
  <1>4. Wrap(n) \in Int
    BY <1>1, <1>2 DEF Word
  <1> DEFINE d == 2 * Half
             r == Wrap(n)
  <1>5. d \in Int /\ r \in Int /\ n = v + d * k /\ n = r + d * j
    BY <1>1, <1>3, <1>4
  <1> HIDE DEF d, r
  <1>6. r = v + d * (k - j) /\ k - j \in Int
    BY <1>1, <1>5
  <1> USE DEF d, r
  <1> QED
    BY <1>2, <1>6, OneWordPerRound

(* x++ and x-- undo each other for every int, at the ends of its range     *)
(* too: additions and subtractions wrap (CodeGenVisitor.cpp:330, 348).     *)
THEOREM StepsUndo ==
  ASSUME NEW v \in Word, NEW w \in Word
  PROVE  Sub(Add(v, w), w) = v /\ Add(Sub(v, w), w) = v
  <1>1. Half \in Int /\ v \in Int /\ w \in Int
    BY HalfAssumption DEF Word
  <1>2. /\ Add(v, w) \in Int /\ \E k \in Int : v + w = Add(v, w) + 2 * Half * k
        /\ Sub(v, w) \in Int /\ \E k \in Int : v - w = Sub(v, w) + 2 * Half * k
    <2>1. v + w \in Int /\ v - w \in Int
      BY <1>1
    <2>2. Wrap(v + w) \in Word /\ \E k \in Int : v + w = Wrap(v + w) + 2 * Half * k
      BY <2>1, WrapRound
    <2>3. Wrap(v - w) \in Word /\ \E k \in Int : v - w = Wrap(v - w) + 2 * Half * k
      BY <2>1, WrapRound
    <2>4. \A u \in Word : u \in Int
      BY HalfAssumption DEF Word
    <2>5. Add(v, w) = Wrap(v + w) /\ Sub(v, w) = Wrap(v - w)
      BY DEF Add, Sub
    <2> QED
      BY <2>2, <2>3, <2>4, <2>5
  <1> DEFINE d == 2 * Half
             sum == Add(v, w)
             difference == Sub(v, w)
  <1>3. PICK k \in Int : v + w = sum + d * k
    BY <1>2
  <1>4. PICK j \in Int : v - w = difference + d * j
    BY <1>2
  <1>5. d \in Int /\ sum \in Int /\ difference \in Int
    BY <1>1, <1>2
  <1> HIDE DEF d, sum, difference
  <1>6. sum - w = v + d * (- k) /\ - k \in Int
    BY <1>1, <1>3, <1>5
  <1>7. difference + w = v + d * (- j) /\ - j \in Int
    BY <1>1, <1>4, <1>5
  <1> USE DEF d, sum, difference
  <1>8. Wrap(sum - w) = v
    <2>1. sum - w \in Int /\ sum - w = v + 2 * Half * (- k)
      BY <1>1, <1>5, <1>6
    <2> HIDE DEF sum
    <2> QED
      BY <1>6, <2>1, WrapUnique
  <1>9. Wrap(difference + w) = v
    <2>1. difference + w \in Int /\ difference + w = v + 2 * Half * (- j)
      BY <1>1, <1>5, <1>7
    <2> HIDE DEF difference
    <2> QED
      BY <1>7, <2>1, WrapUnique
  <1> QED
    BY <1>8, <1>9 DEF Add, Sub

-----------------------------------------------------------------------------
(* Comparisons                                                             *)

LEMMA WordTable ==
  /\ OnWords["ELt"] = "slt" /\ OnWords["EGt"] = "sgt" /\ OnWords["ELtEq"] = "sle"
  /\ OnWords["EGtEq"] = "sge" /\ OnWords["EEq"] = "eq"
  BY DEF OnWords

LEMMA DoubleTable ==
  /\ OnDoubles["ELt"] = "ult" /\ OnDoubles["EGt"] = "ugt" /\ OnDoubles["ELtEq"] = "ule"
  /\ OnDoubles["EGtEq"] = "uge" /\ OnDoubles["EEq"] = "ueq"
  BY DEF OnDoubles

(* On ints, and on doubles that are no NaN, the predicates the code        *)
(* generator picks are those of the operators' order.                      *)
THEOREM PredicatesOrder ==
  ASSUME NEW op \in Comparison, NEW v \in Int, NEW w \in Int, NEW double \in BOOLEAN
  PROVE  Compare(op, double, v, w) <=> Order(op, v, w)
  <1>1. NaN \notin {v, w}
    BY NaNAssumption
  <1>2. CASE double
    <2>1. Compare(op, double, v, w) = Holds(OnDoubles[op], v, w)
      BY <1>2 DEF Compare
    <2>2. CASE op = "ELt"
      BY <1>1, <2>1, <2>2, DoubleTable DEF Holds, Order
    <2>3. CASE op = "EGt"
      BY <1>1, <2>1, <2>3, DoubleTable DEF Holds, Order
    <2>4. CASE op = "ELtEq"
      BY <1>1, <2>1, <2>4, DoubleTable DEF Holds, Order
    <2>5. CASE op = "EGtEq"
      BY <1>1, <2>1, <2>5, DoubleTable DEF Holds, Order
    <2>6. CASE op = "EEq"
      BY <1>1, <2>1, <2>6, DoubleTable DEF Holds, Order
    <2> QED
      BY <2>2, <2>3, <2>4, <2>5, <2>6 DEF Comparison
  <1>3. CASE ~ double
    <2>1. Compare(op, double, v, w) = Holds(OnWords[op], v, w)
      BY <1>3 DEF Compare
    <2>2. CASE op = "ELt"
      BY <2>1, <2>2, WordTable DEF Holds, Order
    <2>3. CASE op = "EGt"
      BY <2>1, <2>3, WordTable DEF Holds, Order
    <2>4. CASE op = "ELtEq"
      BY <2>1, <2>4, WordTable DEF Holds, Order
    <2>5. CASE op = "EGtEq"
      BY <2>1, <2>5, WordTable DEF Holds, Order
    <2>6. CASE op = "EEq"
      BY <2>1, <2>6, WordTable DEF Holds, Order
    <2> QED
      BY <2>2, <2>3, <2>4, <2>5, <2>6 DEF Comparison
  <1> QED
    BY <1>2, <1>3

(* A NaN compares as less than, greater than and equal to every double:    *)
(* the predicates are the unordered ones (CodeGenVisitor.cpp:560-634, 741).*)
THEOREM NaNComparesTrue ==
  ASSUME NEW op \in Comparison, NEW w \in Double
  PROVE  Compare(op, TRUE, NaN, w) /\ Compare(op, TRUE, w, NaN)
  <1>1. OnDoubles[op] \in {"ult", "ugt", "ule", "uge", "ueq"}
    BY DoubleTable DEF Comparison
  <1>2. \A pred \in {"ult", "ugt", "ule", "uge", "ueq"} : Holds(pred, NaN, w) /\ Holds(pred, w, NaN)
    BY DEF Holds
  <1> QED
    BY <1>1, <1>2 DEF Compare

(* The difference of the two sign-extended comparisons "seems backwards,   *)
(* but it works this way round" (CodeGenVisitor.cpp:540): <=> is the sign  *)
(* of the order, and 0 where a NaN is involved.                            *)
THEOREM TwcIsSign ==
  ASSUME NEW double \in BOOLEAN
  PROVE  /\ \A v, w \in Int : Twc(double, v, w) = Sign(v, w)
         /\ \A w \in Double : Twc(TRUE, NaN, w) = 0 /\ Twc(TRUE, w, NaN) = 0
  <1>1. {-1, 0, 1} \subseteq Word /\ 0 - (-1) = 1 /\ -1 - 0 = -1 /\ 0 - 0 = 0 /\ -1 - (-1) = 0
    BY HalfAssumption DEF Word
  <1>2. Sub(0, -1) = 1 /\ Sub(-1, 0) = -1 /\ Sub(0, 0) = 0 /\ Sub(-1, -1) = 0
    BY <1>1, WrapExact DEF Sub
  <1>3. ASSUME NEW v \in Int, NEW w \in Int PROVE Twc(double, v, w) = Sign(v, w)
    <2>1. Compare("ELt", double, v, w) <=> v < w
      BY PredicatesOrder DEF Comparison, Order
    <2>2. Compare("EGt", double, v, w) <=> v > w
      BY PredicatesOrder DEF Comparison, Order
    <2> QED
      BY <1>2, <2>1, <2>2 DEF Twc, SExt, Sign
  <1>4. ASSUME NEW w \in Double PROVE Twc(TRUE, NaN, w) = 0 /\ Twc(TRUE, w, NaN) = 0
    BY <1>2, NaNComparesTrue DEF Twc, SExt, Comparison
  <1> QED
    BY <1>3, <1>4

(* Beside a double, ints are compared as doubles: rounding may make two    *)
(* ints equal, but what compares as less still is less or equal.           *)
THEOREM MixedNeverReversed ==
  ASSUME NEW v \in Word, NEW w \in Word
  PROVE  /\ v <= w => Compare("ELtEq", TRUE, Rounded[v], Rounded[w])
         /\ Compare("ELt", TRUE, Rounded[v], Rounded[w]) => v < w
         /\ \/ Twc(TRUE, Rounded[v], Rounded[w]) = Sign(v, w)
            \/ Twc(TRUE, Rounded[v], Rounded[w]) = 0
  <1> DEFINE x == Rounded[v]
             y == Rounded[w]
  <1>1. /\ x \in Int /\ y \in Int /\ v \in Int /\ w \in Int
        /\ v <= w => x <= y
        /\ w <= v => y <= x
    BY RoundedAssumption, HalfAssumption DEF Word
  <1> HIDE DEF x, y
  <1>2. Compare("ELtEq", TRUE, x, y) <=> x <= y
    BY ZenonT(40), <1>1, PredicatesOrder DEF Comparison, Order
  <1>3. Compare("ELt", TRUE, x, y) <=> x < y
    BY <1>1, PredicatesOrder DEF Comparison, Order
  <1>4. Twc(TRUE, x, y) = Sign(x, y)
    BY <1>1, TwcIsSign
  <1>5. /\ v <= w => Compare("ELtEq", TRUE, x, y)
        /\ Compare("ELt", TRUE, x, y) => v < w
        /\ Twc(TRUE, x, y) = Sign(v, w) \/ Twc(TRUE, x, y) = 0
    <2>1. Sign(x, y) = Sign(v, w) \/ Sign(x, y) = 0
      BY <1>1 DEF Sign
    <2>2. v <= w => Compare("ELtEq", TRUE, x, y)
      BY <1>1, <1>2
    <2>3. x < y => v < w
      BY <1>1
    <2> QED
      BY <1>3, <1>4, <2>1, <2>2, <2>3
  <1> QED
    BY <1>5 DEF x, y

-----------------------------------------------------------------------------
(* Types and typings *)

(* A typing: trees at the paths of an expression, and their types.         *)
LiteralType(op) ==
  CASE op = "EInt"    -> TYPE_INT
    [] op = "EDouble" -> TYPE_DOUBLE
    [] OTHER          -> TYPE_BOOL

Place(e) == e.op \in {"EId", "EProj"}

(* The typing rules: e, with operands of types ts, has type t.             *)
Rule(e, ts, t) ==
  /\ e.op \in Literals => t = LiteralType(e.op)
  /\ e.op = "EId"      => e.val \in DOMAIN symbols /\ t = symbols[e.val]
  /\ e.op = "EApp"     =>
       /\ e.val \in DOMAIN functions
       /\ Len(functions[e.val].parameters) = Len(e.exps)
       /\ \A k \in 1 .. Len(e.exps) :
            isConvertibleTo(ts[k], functions[e.val].parameters[k])
       /\ t = functions[e.val].returnType
  /\ e.op = "EProj"    => t = getMember(ts[1], e.val) /\ t # null
  /\ e.op \in Steps    => Place(e.exps[1])
  /\ e.op \in Steps \cup Signs => ts[1] \in Number /\ t = ts[1]
  /\ e.op \in Sums \cup {"ETwc"} \cup Orders => ts[1] \in Number /\ ts[2] \in Number
  /\ e.op \in Sums     => t = IF ts[1] = ts[2] THEN ts[1] ELSE TYPE_DOUBLE
  /\ e.op = "ETwc"     => t = TYPE_INT
  /\ e.op \in Orders \cup Equals \cup Logic => t = TYPE_BOOL
  /\ e.op \in Logic    => ts[1] = TYPE_BOOL /\ ts[2] = TYPE_BOOL
  /\ e.op = "EAss"     => Place(e.exps[1]) /\ isConvertibleTo(ts[2], ts[1]) /\ t = ts[1]
  /\ e.op = "ECond"    => ts[1] = TYPE_BOOL /\ ts[2] = t /\ ts[3] = t

OperandTypes(e, p, T) == [k \in 1 .. Len(e.exps) |-> T[Append(p, k)]]

(* The operands of e, at path p, are among the trees of M.                 *)
OperandsNoted(M, e, p) ==
  \A k \in 1 .. Len(e.exps) :
    Append(p, k) \in DOMAIN M /\ M[Append(p, k)] = e.exps[k]

Typing(M, T) ==
  /\ DOMAIN T = DOMAIN M
  /\ \A p \in DOMAIN M :
       /\ p \in Seq(Nat)
       /\ M[p] \in Exp
       /\ T[p] \in DOMAIN types
       /\ OperandsNoted(M, M[p], p)
       /\ Rule(M[p], OperandTypes(M[p], p, T), T[p])

Derives(e, M, T) == Typing(M, T) /\ <<>> \in DOMAIN M /\ M[<<>>] = e


-----------------------------------------------------------------------------
(* The stack *)

(* Where the handler at position i + 1 is in the tree.                     *)
PathTo(fr, i) == [j \in 1 .. i |-> fr[j].pos]

(* Operands the handler at position i has visited.                         *)
Visited(fr, nd, i) ==
  IF i = Len(fr) /\ nd = NoExp THEN fr[i].pos ELSE fr[i].pos - 1

OnPath(e, fr, nd) ==
  /\ \E S : fr \in Seq(S)
  /\ e \in Exp
  /\ nd \in Exp \cup {NoExp}
  /\ \A i \in 1 .. Len(fr) :
       /\ fr[i].exp \in Exp
       /\ fr[i].pos \in 0 .. Len(fr[i].exp.exps)
       /\ i < Len(fr) \/ nd # NoExp \/ fr[i].exp.op # "EApp" => fr[i].pos >= 1
       /\ fr[i].exp = IF i = 1 THEN e ELSE fr[i - 1].exp.exps[fr[i - 1].pos]
  /\ nd # NoExp => nd = IF fr = <<>> THEN e ELSE fr[Len(fr)].exp.exps[fr[Len(fr)].pos]

(* Place q of the tree comes before place p, or, when that has been left,  *)
(* is inside it.                                                           *)
Before(q, p) ==
  \E j \in 1 .. Len(p) :
    /\ j <= Len(q) /\ q[j] < p[j]
    /\ \A i \in 1 .. j - 1 : q[i] = p[i]

Inside(q, p) == Len(p) <= Len(q) /\ \A i \in 1 .. Len(p) : q[i] = p[i]

HasReturned == node = NoExp /\ (frames # <<>> => Top.pos >= 1)

(* What the handler at position i knows of its operands, typechecking.     *)
Checked(f, T) ==
  /\ f.exp.op = "EApp" =>
       /\ f.exp.val \in DOMAIN functions
       /\ f.local \in BOOLEAN
       /\ ~ f.local => /\ Len(functions[f.exp.val].parameters) = Len(f.exp.exps)
                       /\ \A k \in 1 .. f.pos - 1 :
                            isConvertibleTo(T[k], functions[f.exp.val].parameters[k])
  /\ f.exp.op \in Binary /\ f.pos = 2 =>
       /\ f.local = T[1]
       /\ f.exp.op \in Sums \cup {"ETwc"} \cup Orders => T[1] \in Number
       /\ f.exp.op \in Logic => T[1] = TYPE_BOOL
       /\ f.exp.op = "EAss" => Place(f.exp.exps[1])
  /\ f.exp.op = "ECond" /\ f.pos >= 2 => T[1] = TYPE_BOOL
  /\ f.exp.op = "ECond" /\ f.pos = 3 => f.local = T[2]

(* The first n operands of the handler at path q are noted, and it has     *)
(* checked them.                                                           *)
OperandsChecked(f, q, n, N, T) ==
  /\ \A k \in 1 .. n : Append(q, k) \in DOMAIN N /\ N[Append(q, k)] = f.exp.exps[k]
  /\ Checked(f, [k \in 1 .. n |-> T[Append(q, k)]])

Typechecking(N) ==
  /\ \A q \in DOMAIN type : Before(q, PathOf(frames)) \/ (node = NoExp /\ Inside(q, PathOf(frames)))
  /\ \A i \in 1 .. Len(frames) :
       OperandsChecked(frames[i], PathTo(frames, i - 1), Visited(frames, node, i), N, type)
  /\ HasReturned =>
       /\ PathOf(frames) \in DOMAIN N
       /\ resultExpType = type[PathOf(frames)]
       /\ isResultExpVariable <=> Place(N[PathOf(frames)])
       /\ N[PathOf(frames)] = IF frames = <<>> THEN exp ELSE Top.exp.exps[Top.pos]

(* A term is made by operations on the types they are declared for, as are *)
(* the terms it is made of.                                                *)
ClosedTerms(W) == \A t \in W : OperationTyped(t) /\ SubTerms(t) \subseteq W

IsTerm(t) == \E W : t \in W /\ ClosedTerms(W)

(* The value of a comparison of numbers.                                   *)
Compares(e, t, u, v) ==
  LET comparison == IF e.op = "ENEq" THEN v.args[1] ELSE v
  IN e.op \in Orders \cup Equals \cup {"ETwc"} /\ t \in Number /\ u \in Number =>
       \E x, y : /\ IsTerm(x) /\ x.type = t
                /\ IsTerm(y) /\ y.type = u
                /\ comparison.kind = Common(t, u)
                /\ comparison.args = Both(x, t, y, u)

(* v is the value of e, at path q, in a tree with types T.                 *)
Returned(v, e, q, T) == v.type = T[q] /\ Compares(e, T[Append(q, 1)], T[Append(q, 2)], v)

(* What the handler at position i keeps of its operands, generating code.  *)
CondTypeAt(q) ==
  IF type[Append(q, 2)] = type[Append(q, 3)] THEN type[Append(q, 2)] ELSE TYPE_DOUBLE

Kept(f, q) ==
  /\ f.exp.op = "EApp" /\ f.pos > 0 =>
       /\ \E S : f.local \in Seq(S)
       /\ Len(f.local) = f.pos - 1
       /\ \A k \in 1 .. f.pos - 1 :
            IsTerm(f.local[k]) /\ f.local[k].type = functions[f.exp.val].parameters[k]
  /\ f.exp.op = "EAss" => f.pos = 2
  /\ f.exp.op \in Binary \ {"EAss"} /\ f.pos = 2 =>
       IsTerm(f.local) /\ f.local.type = type[Append(q, 1)]
  /\ f.exp.op = "ECond" /\ f.pos >= 2 =>
       /\ f.local.next \in DOMAIN ir.blocks
       /\ f.local.ptr.type = CondTypeAt(q)
  /\ f.exp.op = "ECond" /\ f.pos = 2 => f.local.false \in DOMAIN ir.blocks

Generation(N) ==
  /\ <<>> \in DOMAIN N /\ N[<<>>] = exp
  /\ \A i \in 1 .. Len(frames) :
       /\ PathTo(frames, i - 1) \in DOMAIN N
       /\ N[PathTo(frames, i - 1)] = frames[i].exp
       /\ Kept(frames[i], PathTo(frames, i - 1))
  /\ node # NoExp => PathOf(frames) \in DOMAIN N /\ N[PathOf(frames)] = node
  /\ HasReturned => Returned(expValue, N[PathOf(frames)], PathOf(frames), type)

(* The instructions so far get values of the types they are declared for.  *)
Agreed(inst) ==
  /\ inst.op = "store"  => IsTerm(inst.value) /\ inst.value.type = inst.ptr.type
  /\ inst.op = "call"   =>
       /\ inst.function \in DOMAIN functions
       /\ \E S : inst.args \in Seq(S)
       /\ Len(inst.args) = Len(functions[inst.function].parameters)
       /\ \A k \in 1 .. Len(inst.args) :
            IsTerm(inst.args[k]) /\ inst.args[k].type = functions[inst.function].parameters[k]
  /\ inst.op = "condbr" => IsTerm(inst.value) /\ inst.value.type = TYPE_BOOL

IROK(code) ==
  /\ \E S : code \in [blocks : Seq(Seq(S)), at : Nat]
  /\ code.at \in 1 .. Len(code.blocks)
  /\ \A b \in 1 .. Len(code.blocks) : \A i \in 1 .. Len(code.blocks[b]) :
       Agreed(code.blocks[b][i])

Inv(N) ==
  /\ OnPath(exp, frames, node)
  /\ Typing(N, type)
  /\ phase = "typecheck" => Typechecking(N)
  /\ phase = "codegen" => Generation(N)

Rest ==
  /\ rootParent \in {"null", "junk"}
  /\ phase \in {"typecheck", "codegen", "rejected", "crashed", "unreachable", "nullpointer"}
  /\ resultExpType \in DOMAIN types \cup {null}
  /\ isResultExpVariable \in BOOLEAN
  /\ IROK(ir)
  /\ registers \in Nat /\ allocas \in Nat
  /\ IsTerm(expValue) /\ expValue.type \in DOMAIN types \cup {null}

IInv == Rest /\ \E N : Inv(N)

-----------------------------------------------------------------------------
(* Terms *)

(* An operation on terms of the right types makes a term.                  *)
LEMMA TermOf ==
  ASSUME NEW t, OperationTyped(t), \A u \in SubTerms(t) : IsTerm(u)
  PROVE  IsTerm(t)
<1> DEFINE with(u) == CHOOSE W : u \in W /\ ClosedTerms(W)
<1>1. \A u \in SubTerms(t) : u \in with(u) /\ ClosedTerms(with(u))
  BY DEF IsTerm
<1> HIDE DEF with
<1>2. PICK W : W = {t} \cup UNION {with(u) : u \in SubTerms(t)}
  OBVIOUS
<1>3. ASSUME NEW v \in W
      PROVE  OperationTyped(v) /\ SubTerms(v) \subseteq W
  <2>1. CASE v = t
    BY <1>1, <1>2, <2>1
  <2>2. CASE v # t
    <3>1. PICK u \in SubTerms(t) : v \in with(u)
      BY <1>2, <2>2
    <3>2. with(u) \subseteq W
      BY <1>2
    <3> QED BY <1>1, <3>1, <3>2 DEF ClosedTerms
  <2> QED BY <2>1, <2>2
<1> QED BY <1>2, <1>3 DEF IsTerm, ClosedTerms

(* What a term is made of, and how it is typed.                            *)
LEMMA TermIs ==
  ASSUME NEW t, IsTerm(t)
  PROVE  OperationTyped(t) /\ \A u \in SubTerms(t) : IsTerm(u)
BY DEF IsTerm, ClosedTerms

(* Names of operations that need a rule of their own.                      *)
OwnRule == {"const", "register", "sitofp", "extract", "insert", "and"}

(* Terms with no, one or two operands.                                     *)
LEMMA LeafTerm ==
  ASSUME NEW f \in {"none", "const", "register"}, NEW kind, NEW t, NEW v, v = Apply(f, kind, t, <<>>)
  PROVE  IsTerm(v)
<1>1. v.f = f /\ v.args = <<>>
  BY DEF Apply
<1>2. SubTerms(v) = {}
  BY <1>1 DEF SubTerms
<1>3. OperationTyped(v)
  BY <1>1 DEF OperationTyped
<1> QED BY <1>2, <1>3, TermOf

LEMMA OneTerm ==
  ASSUME NEW v, IsTerm(v), NEW f, f # "and", NEW kind, NEW t, NEW w, w = Apply(f, kind, t, <<v>>),
         OperationTyped(w)
  PROVE  IsTerm(w)
<1>1. w.f = f /\ w.args = <<v>>
  BY DEF Apply
<1>2. SubTerms(w) = {v}
  BY <1>1 DEF SubTerms
<1> QED BY <1>2, TermOf

LEMMA TwoTerms ==
  ASSUME NEW v, IsTerm(v), NEW u, IsTerm(u), NEW f, f # "and", NEW kind, NEW t,
         NEW w, w = Apply(f, kind, t, <<v, u>>), OperationTyped(w)
  PROVE  IsTerm(w)
<1>1. w.f = f /\ w.args = <<v, u>>
  BY DEF Apply
<1>2. SubTerms(w) = {v, u}
  BY <1>1 DEF SubTerms
<1> QED BY <1>2, TermOf

(* Arithmetic, comparisons and negations.                                  *)
LEMMA OperatorTerm ==
  ASSUME NEW f, f \notin OwnRule, NEW kind, NEW t, NEW v, IsTerm(v), v.type = kind,
         NEW w, w = Apply(f, kind, t, <<v>>)
  PROVE  IsTerm(w)
<1>1. w.f = f /\ w.kind = kind /\ w.args = <<v>>
  BY DEF Apply
<1>2. OperationTyped(w)
  BY <1>1 DEF OperationTyped, OwnRule
<1> QED BY <1>2, OneTerm DEF OwnRule

LEMMA OperatorsTerm ==
  ASSUME NEW f, f \notin OwnRule, NEW kind, NEW t, NEW v, IsTerm(v), v.type = kind,
         NEW u, IsTerm(u), u.type = kind, NEW w, w = Apply(f, kind, t, <<v, u>>)
  PROVE  IsTerm(w)
<1>1. w.f = f /\ w.kind = kind /\ w.args = <<v, u>>
  BY DEF Apply
<1>2. OperationTyped(w)
  BY <1>1 DEF OperationTyped, OwnRule
<1> QED BY <1>2, TwoTerms DEF OwnRule

(* An int is converted.                                                    *)
LEMMA ConvertedTerm ==
  ASSUME NEW v, IsTerm(v), v.type = TYPE_INT
  PROVE  IsTerm(SIToFP(v)) /\ SIToFP(v).type = TYPE_DOUBLE
<1>1. PICK w : w = SIToFP(v)
  OBVIOUS
<1>2. w = Apply("sitofp", TYPE_INT, TYPE_DOUBLE, <<v>>)
  BY <1>1 DEF SIToFP
<1>3. w.f = "sitofp" /\ w.args = <<v>> /\ w.type = TYPE_DOUBLE
  BY <1>2 DEF Apply
<1>4. OperationTyped(w)
  BY <1>3 DEF OperationTyped
<1> QED BY <1>1, <1>2, <1>3, <1>4, OneTerm

(* A member is taken out of a struct, or put into it.                      *)
LEMMA ExtractTerm ==
  ASSUME NEW v, IsTerm(v), NEW path, NEW t, Leads(v.type, path, t), NEW w, w = Extract(v, path, t)
  PROVE  IsTerm(w) /\ w.type = t
<1>1. w = Apply("extract", path, t, <<v>>)
  BY DEF Extract
<1>2. w.f = "extract" /\ w.args = <<v>> /\ w.type = t /\ w.kind = path
  BY <1>1 DEF Apply
<1>3. OperationTyped(w)
  BY <1>2 DEF OperationTyped
<1> QED BY <1>1, <1>2, <1>3, OneTerm

LEMMA InsertTerm ==
  ASSUME NEW v, IsTerm(v), NEW path, NEW u, IsTerm(u), Leads(v.type, path, u.type),
         NEW w, w = Insert(v, path, u)
  PROVE  IsTerm(w)
<1>1. w = Apply("insert", path, v.type, <<v, u>>)
  BY DEF Insert
<1>2. w.f = "insert" /\ w.args = <<v, u>> /\ w.type = v.type /\ w.kind = path
  BY <1>1 DEF Apply
<1>3. OperationTyped(w)
  BY <1>2 DEF OperationTyped
<1> QED BY <1>1, <1>2, <1>3, TwoTerms

(* Structs are equal when all their parts are.                             *)
LEMMA EqualPartsTerm ==
  ASSUME NEW parts, \A p \in parts : IsTerm(p) /\ p.type = TYPE_BOOL, NEW w, w = EqualParts(parts)
  PROVE  IsTerm(w)
<1>1. w = Apply("and", parts, TYPE_BOOL, <<>>)
  BY DEF EqualParts
<1>2. w.f = "and" /\ w.args = <<>> /\ w.kind = parts
  BY <1>1 DEF Apply
<1>3. SubTerms(w) = parts
  BY <1>2 DEF SubTerms
<1>4. OperationTyped(w)
  BY <1>2 DEF OperationTyped
<1> QED BY <1>3, <1>4, TermOf

-----------------------------------------------------------------------------
(* Trees and paths *)

(* A node has the operands its constructor says.                           *)
LEMMA ExpParts ==
  ASSUME NEW e \in Exp
  PROVE  /\ e.exps \in Seq(Exp)
         /\ Len(e.exps) \in Nat
         /\ \A k \in 1 .. Len(e.exps) : e.exps[k] \in Exp
         /\ e.op \in Literals \cup {"EId", "EApp", "EProj", "ECond"} \cup Steps \cup Signs \cup Binary
         /\ e.op \in Literals \cup {"EId"} => Len(e.exps) = 0
         /\ e.op \in Steps \cup Signs \cup {"EProj"} => Len(e.exps) = 1
         /\ e.op \in Binary => Len(e.exps) = 2
         /\ e.op = "ECond" => Len(e.exps) = 3
<1>1. e \in Expression
  BY ExpressionAssumption
<1>2. ASSUME NEW ops, NEW vals, NEW n \in Nat, e \in Node(ops, vals, n)
      PROVE  e.op \in ops /\ e.exps \in Seq(Exp) /\ Len(e.exps) = n
  BY <1>2 DEF Node
<1> DEFINE Arities(op, n) ==
  /\ op \in Literals \cup {"EId", "EApp", "EProj", "ECond"} \cup Steps \cup Signs \cup Binary
  /\ op \in Literals \cup {"EId"} => n = 0
  /\ op \in Steps \cup Signs \cup {"EProj"} => n = 1
  /\ op \in Binary => n = 2
  /\ op = "ECond" => n = 3
<1>3. \A op \in {"ETrue", "EFalse", "EInt", "EDouble", "EId"} : Arities(op, 0)
  BY DEF Literals, Steps, Signs, Binary, Sums, Orders, Equals, Logic
<1>4. \A n : Arities("EApp", n)
  BY DEF Literals, Steps, Signs, Binary, Sums, Orders, Equals, Logic
<1>5. \A op \in {"EProj"} \cup Steps \cup Signs : Arities(op, 1)
  BY DEF Literals, Steps, Signs, Binary, Sums, Orders, Equals, Logic
<1>6. \A op \in Binary : Arities(op, 2)
  BY DEF Literals, Steps, Signs, Binary, Sums, Orders, Equals, Logic
<1>7. Arities("ECond", 3)
  BY DEF Literals, Steps, Signs, Binary, Sums, Orders, Equals, Logic
<1> HIDE DEF Arities
<1>8. e.exps \in Seq(Exp) /\ Arities(e.op, Len(e.exps))
  <2>1. CASE e \in [op : {"EApp"}, val : Id, exps : Seq(Exp)]
    BY <1>4, <2>1
  <2>2. CASE e \in Node({"ETrue", "EFalse"}, {0}, 0)
    BY <1>2, <1>3, <2>2
  <2>3. CASE e \in Node({"EInt", "EDouble"}, Nat, 0)
    BY <1>2, <1>3, <2>3
  <2>4. CASE e \in Node({"EId"}, Id, 0)
    BY <1>2, <1>3, <2>4
  <2>5. CASE e \in Node({"EProj"}, Id, 1)
    BY <1>2, <1>5, <2>5
  <2>6. CASE e \in Node(Steps \cup Signs, {0}, 1)
    BY <1>2, <1>5, <2>6
  <2>7. CASE e \in Node(Binary, {0}, 2)
    BY <1>2, <1>6, <2>7
  <2>8. CASE e \in Node({"ECond"}, {0}, 3)
    BY <1>2, <1>7, <2>8
  <2> QED
    BY <1>1, <2>1, <2>2, <2>3, <2>4, <2>5, <2>6, <2>7, <2>8 DEF Expression
<1>9. /\ Len(e.exps) \in Nat
      /\ \A k \in 1 .. Len(e.exps) : e.exps[k] \in Exp
  BY <1>8
<1> QED
  BY <1>8, <1>9 DEF Arities

(* The operands of a tree are lower.                                       *)
Operands == [e \in Exp |-> {e.exps[k] : k \in 1 .. Len(e.exps)}]

LEMMA OperandsLower ==
  /\ Operands \in [Exp -> SUBSET Exp]
  /\ Lower(Exp, Height, Operands)
  /\ Height \in [Exp -> Nat]
<1>1. ASSUME NEW e \in Exp
      PROVE  /\ \A k \in 1 .. Len(e.exps) : e.exps[k] \in Exp
             /\ DOMAIN e.exps = 1 .. Len(e.exps)
  BY ExpParts
<1>2. Operands \in [Exp -> SUBSET Exp]
  BY <1>1 DEF Operands
<1>3. Lower(Exp, Height, Operands)
  BY <1>1, HeightAssumption DEF Operands, Lower
<1> QED BY <1>2, <1>3, HeightAssumption

-----------------------------------------------------------------------------
(* Members and projections *)

(* Members are types that come before the struct.                          *)
LEMMA MemberFacts ==
  ASSUME NEW t \in DOMAIN types, NEW m \in DOMAIN types[t].members,
         NEW u, u = types[t].members[m]
  PROVE  t \in Nat /\ m \in Id /\ u \in DOMAIN types /\ u < t /\ getMember(t, m) = u
<1>1. DOMAIN types = 1 .. Len(types) /\ m \in Id /\ u \in 1 .. t - 1
  BY ExpressionAssumption
<1>2. getMember(t, m) = u
  BY DEF getMember
<1> QED BY <1>1, <1>2

LEMMA LeadsNowhere ==
  ASSUME NEW t \in DOMAIN types
  PROVE  Leads(t, <<>>, t)
<1>1. PICK along : along = [i \in 0 .. Len(<<>>) |-> t]
  OBVIOUS
<1>2. Len(<<>>) = 0 /\ 0 \in 0 .. 0 /\ \A i \in 1 .. 0 : FALSE
  OBVIOUS
<1>3. along \in [0 .. Len(<<>>) -> DOMAIN types] /\ along[0] = t /\ along[Len(<<>>)] = t
  BY <1>1, <1>2
<1> QED BY <1>2, <1>3 DEF Leads

(* A path goes one member further.                                         *)
LEMMA LeadsOn ==
  ASSUME NEW S, NEW path \in Seq(S), NEW m, NEW t, NEW u, Leads(t, path, u),
         NEW v, v = getMember(u, m), v \in DOMAIN types
  PROVE  Leads(t, Append(path, m), v)
<1>1. PICK n : n = Len(path)
  OBVIOUS
<1>2. PICK along \in [0 .. n -> DOMAIN types] :
        /\ along[0] = t /\ along[n] = u
        /\ \A i \in 1 .. n : along[i] = getMember(along[i - 1], path[i])
  BY <1>1 DEF Leads
<1>3. PICK longer : longer = Append(path, m)
  OBVIOUS
<1>4. /\ n \in Nat /\ Len(longer) = n + 1 /\ longer[n + 1] = m
      /\ \A i \in 1 .. n : longer[i] = path[i]
  BY <1>1, <1>3
<1>5. PICK g : g = [i \in 0 .. n + 1 |-> IF i = n + 1 THEN v ELSE along[i]]
  OBVIOUS
<1>6. g[n + 1] = v /\ \A i \in 0 .. n : g[i] = along[i]
  BY <1>4, <1>5
<1>7. g \in [0 .. n + 1 -> DOMAIN types]
  <2>1. ASSUME NEW i \in 0 .. n + 1, i # n + 1
        PROVE  along[i] \in DOMAIN types
    BY <1>2, <1>4, <2>1
  <2> QED BY <1>5, <2>1
<1>8. ASSUME NEW i \in 1 .. n + 1
      PROVE  g[i] = getMember(g[i - 1], longer[i])
  <2>1. CASE i = n + 1
    <3>1. i - 1 = n /\ n \in 0 .. n
      BY <1>4, <2>1
    <3> QED BY <1>2, <1>4, <1>6, <2>1, <3>1
  <2>2. CASE i # n + 1
    <3>1. i \in 1 .. n /\ i \in 0 .. n /\ i - 1 \in 0 .. n
      BY <1>4, <2>2
    <3> QED BY <1>2, <1>4, <1>6, <3>1
  <2> QED BY <2>1, <2>2
<1>9. g[0] = t
  BY <1>2, <1>4, <1>6
<1>10. Leads(t, longer, v)
  <2>1. Len(longer) = n + 1 /\ g[n + 1] = v
    BY ONLY <1>4, <1>6
  <2> QED BY ONLY <1>7, <1>8, <1>9, <2>1 DEF Leads
<1> QED BY <1>3, <1>10

(* A path starts one member earlier.                                       *)
LEMMA LeadsFrom ==
  ASSUME NEW S, NEW path \in Seq(S), NEW m \in S, NEW t \in DOMAIN types, NEW u,
         NEW v, v = getMember(t, m), Leads(v, path, u)
  PROVE  Leads(t, <<m>> \o path, u)
<1>1. PICK n : n = Len(path)
  OBVIOUS
<1>2. PICK along \in [0 .. n -> DOMAIN types] :
        /\ along[0] = v /\ along[n] = u
        /\ \A i \in 1 .. n : along[i] = getMember(along[i - 1], path[i])
  BY <1>1 DEF Leads
<1>3. PICK longer : longer = <<m>> \o path
  OBVIOUS
<1>4. /\ n \in Nat /\ Len(longer) = n + 1 /\ longer[1] = m
      /\ \A i \in 1 .. n : longer[i + 1] = path[i]
  <2>1. <<m>> \in Seq(S) /\ Len(<<m>>) = 1 /\ <<m>>[1] = m
    OBVIOUS
  <2> QED BY <1>1, <1>3, <2>1
<1>5. PICK g : g = [i \in 0 .. n + 1 |-> IF i = 0 THEN t ELSE along[i - 1]]
  OBVIOUS
<1>6. g[0] = t /\ \A i \in 0 .. n : g[i + 1] = along[i]
  <2>1. ASSUME NEW i \in 0 .. n
        PROVE  i + 1 \in 0 .. n + 1 /\ i + 1 # 0 /\ i + 1 - 1 = i
    BY <1>4
  <2>2. 0 \in 0 .. n + 1
    BY <1>4
  <2> QED BY <1>5, <2>1, <2>2
<1>7. g \in [0 .. n + 1 -> DOMAIN types]
  <2>1. ASSUME NEW i \in 0 .. n + 1, i # 0
        PROVE  along[i - 1] \in DOMAIN types
    BY <1>2, <1>4, <2>1
  <2> QED BY <1>5, <2>1
<1>8. ASSUME NEW i \in 1 .. n + 1
      PROVE  g[i] = getMember(g[i - 1], longer[i])
  <2>1. CASE i = 1
    <3>1. i - 1 = 0 /\ 0 \in 0 .. n /\ 0 + 1 = 1
      BY <1>4, <2>1
    <3> QED BY <1>2, <1>4, <1>6, <2>1, <3>1
  <2>2. CASE i # 1
    <3>1. PICK j : j = i - 1
      OBVIOUS
    <3>2. j \in 1 .. n /\ j \in 0 .. n /\ j - 1 \in 0 .. n /\ i = j + 1 /\ j - 1 + 1 = j
      BY <1>4, <2>2, <3>1
    <3>3. g[i] = along[j] /\ g[i - 1] = along[j - 1] /\ longer[i] = path[j]
      BY <1>4, <1>6, <3>1, <3>2
    <3> QED BY <1>2, <3>2, <3>3
  <2> QED BY <2>1, <2>2
<1>9. g[n + 1] = u
  BY <1>2, <1>4, <1>6
<1>10. Leads(t, longer, u)
  <2>1. Len(longer) = n + 1 /\ g[0] = t
    BY ONLY <1>4, <1>6
  <2> QED BY ONLY <1>7, <1>8, <1>9, <2>1 DEF Leads
<1> QED BY <1>3, <1>10

(* All but the last element of a sequence.                                 *)
LEMMA FrontFacts ==
  ASSUME NEW S, NEW s \in Seq(S), Len(s) > 0
  PROVE  /\ SubSeq(s, 1, Len(s) - 1) \in Seq(S)
         /\ Len(SubSeq(s, 1, Len(s) - 1)) = Len(s) - 1
         /\ \A i \in 1 .. Len(s) - 1 : SubSeq(s, 1, Len(s) - 1)[i] = s[i]
<1>1. Len(s) \in Nat /\ \A i \in 1 .. Len(s) : s[i] \in S
  OBVIOUS
<1>2. Len(s) - 1 \in Int /\ 1 \in Int /\ \A i \in 1 .. Len(s) - 1 : s[i] \in S
  BY <1>1
<1>3. /\ SubSeq(s, 1, Len(s) - 1) \in Seq(S)
      /\ Len(SubSeq(s, 1, Len(s) - 1)) = IF 1 <= Len(s) - 1 THEN Len(s) - 1 - 1 + 1 ELSE 0
      /\ \A i \in 1 .. Len(s) - 1 - 1 + 1 : SubSeq(s, 1, Len(s) - 1)[i] = s[1 + i - 1]
  BY <1>2, SubSeqProperties
<1>4. /\ Len(s) - 1 - 1 + 1 = Len(s) - 1
      /\ \A i \in 1 .. Len(s) - 1 : 1 + i - 1 = i
  BY <1>1
<1> QED BY <1>1, <1>3, <1>4

(* The path to an operand is one longer than the path to its handler.      *)
LEMMA PathFacts ==
  ASSUME NEW S, NEW fr \in Seq(S), \A j \in 1 .. Len(fr) : fr[j].pos \in Nat,
         NEW i \in 0 .. Len(fr)
  PROVE  /\ PathTo(fr, i) \in Seq(Nat)
         /\ Len(PathTo(fr, i)) = i
         /\ \A j \in 1 .. i : PathTo(fr, i)[j] = fr[j].pos
         /\ i > 0 => PathTo(fr, i) = Append(PathTo(fr, i - 1), fr[i].pos)
         /\ i = Len(fr) => PathTo(fr, i) = PathOf(fr)
<1>1. \A n \in 0 .. Len(fr) :
        /\ PathTo(fr, n) \in Seq(Nat)
        /\ Len(PathTo(fr, n)) = n
        /\ \A j \in 1 .. n : PathTo(fr, n)[j] = fr[j].pos
  BY DEF PathTo
<1>2. ASSUME i > 0
      PROVE  PathTo(fr, i) = Append(PathTo(fr, i - 1), fr[i].pos)
  <2>1. i - 1 \in 0 .. Len(fr) /\ i \in 1 .. Len(fr) /\ fr[i].pos \in Nat
    BY <1>2
  <2>2. /\ Append(PathTo(fr, i - 1), fr[i].pos) \in Seq(Nat)
        /\ Len(Append(PathTo(fr, i - 1), fr[i].pos)) = i
        /\ \A j \in 1 .. i : Append(PathTo(fr, i - 1), fr[i].pos)[j] = fr[j].pos
    BY <1>1, <2>1
  <2>3. PICK p : p = PathTo(fr, i)
    OBVIOUS
  <2>4. PICK q : q = Append(PathTo(fr, i - 1), fr[i].pos)
    OBVIOUS
  <2>5. /\ p \in Seq(Nat) /\ q \in Seq(Nat) /\ Len(p) = Len(q)
        /\ \A j \in 1 .. Len(p) : p[j] = q[j]
    BY <1>1, <2>2, <2>3, <2>4
  <2>6. p = q
    BY ONLY <2>5, SeqEqual
  <2> QED BY <2>3, <2>4, <2>6
<1>3. i = Len(fr) => PathTo(fr, i) = PathOf(fr)
  BY DEF PathTo, PathOf
<1> QED BY <1>1, <1>2, <1>3

(* Stacks with the same handlers up to position i have the same paths.     *)
LEMMA SamePath ==
  ASSUME NEW fr, NEW gr, NEW i \in Nat, \A j \in 1 .. i : fr[j] = gr[j]
  PROVE  PathTo(fr, i) = PathTo(gr, i)
  BY DEF PathTo

(* Appending a position is injective, and makes a longer path.             *)
LEMMA AppendFacts ==
  ASSUME NEW p \in Seq(Nat), NEW k \in Nat
  PROVE  /\ Append(p, k) \in Seq(Nat)
         /\ Len(Append(p, k)) = Len(p) + 1
         /\ Append(p, k)[Len(p) + 1] = k
         /\ \A j \in 1 .. Len(p) : Append(p, k)[j] = p[j]
         /\ Append(p, k) # p
         /\ Append(p, k) # <<>>
  OBVIOUS

-----------------------------------------------------------------------------
(* What a step does to the stack *)

(* The positions of a stack that is a path are numbers.                    *)
LEMMA Positions ==
  ASSUME NEW e, NEW fr, NEW nd, OnPath(e, fr, nd)
  PROVE  /\ Len(fr) \in Nat
         /\ \A j \in 1 .. Len(fr) : fr[j].pos \in Nat
         /\ fr = <<>> <=> Len(fr) = 0
         /\ \A i \in 0 .. Len(fr) :
              /\ PathTo(fr, i) \in Seq(Nat)
              /\ Len(PathTo(fr, i)) = i
              /\ \A j \in 1 .. i : PathTo(fr, i)[j] = fr[j].pos
              /\ i > 0 => PathTo(fr, i) = Append(PathTo(fr, i - 1), fr[i].pos)
         /\ PathTo(fr, Len(fr)) = PathOf(fr)
<1>1. PICK S : fr \in Seq(S)
  BY DEF OnPath
<1>2. Len(fr) \in Nat /\ (fr = <<>> <=> Len(fr) = 0)
  BY <1>1
<1>3. \A j \in 1 .. Len(fr) : fr[j].pos \in Nat
  BY <1>2, ExpParts DEF OnPath
<1>4. \A i \in 0 .. Len(fr) :
        /\ PathTo(fr, i) \in Seq(Nat)
        /\ Len(PathTo(fr, i)) = i
        /\ \A j \in 1 .. i : PathTo(fr, i)[j] = fr[j].pos
        /\ i > 0 => PathTo(fr, i) = Append(PathTo(fr, i - 1), fr[i].pos)
        /\ i = Len(fr) => PathTo(fr, i) = PathOf(fr)
  BY ONLY <1>1, <1>3, PathFacts
<1>5. PathTo(fr, Len(fr)) = PathOf(fr)
  <2>1. Len(fr) \in 0 .. Len(fr)
    BY <1>2
  <2> QED BY <1>4, <2>1
<1>6. \A i \in 0 .. Len(fr) :
        /\ PathTo(fr, i) \in Seq(Nat)
        /\ Len(PathTo(fr, i)) = i
        /\ \A j \in 1 .. i : PathTo(fr, i)[j] = fr[j].pos
        /\ i > 0 => PathTo(fr, i) = Append(PathTo(fr, i - 1), fr[i].pos)
  BY ONLY <1>4
<1> QED BY ONLY <1>2, <1>3, <1>5, <1>6

(* A handler is entered for nd and goes to nd2, one of its operands, or a  *)
(* call to none yet.                                                       *)
FirstFrame(f, nd, nd2) ==
  /\ f.exp = nd
  /\ f.pos \in 0 .. Len(nd.exps)
  /\ \/ f.pos >= 1 /\ nd2 = nd.exps[f.pos]
     \/ f.pos = 0 /\ nd.op = "EApp" /\ nd2 = NoExp

(* A handler is entered for the operand of the one on top.                 *)
LEMMA Pushed ==
  ASSUME NEW e, NEW fr, NEW nd, OnPath(e, fr, nd), nd # NoExp, NEW f, NEW nd2,
         FirstFrame(f, nd, nd2)
  PROVE  /\ OnPath(e, Append(fr, f), nd2)
         /\ Len(Append(fr, f)) = Len(fr) + 1
         /\ \A i \in 1 .. Len(fr) : Append(fr, f)[i] = fr[i]
         /\ Append(fr, f)[Len(fr) + 1] = f
         /\ \A i \in 0 .. Len(fr) : PathTo(Append(fr, f), i) = PathTo(fr, i)
         /\ PathTo(fr, Len(fr)) = PathOf(fr)
         /\ PathOf(Append(fr, f)) = Append(PathOf(fr), f.pos)
<1> DEFINE gr == Append(fr, f)
<1>0. /\ f.exp = nd
      /\ f.pos \in 0 .. Len(nd.exps)
      /\ \/ f.pos >= 1 /\ nd2 = nd.exps[f.pos]
         \/ f.pos = 0 /\ nd.op = "EApp" /\ nd2 = NoExp
  BY DEF FirstFrame
<1>1. PICK S : fr \in Seq(S)
  BY DEF OnPath
<1>2. gr \in Seq(S \cup {f}) /\ fr \in Seq(S \cup {f})
  BY <1>1
<1>3. /\ Len(fr) \in Nat /\ Len(gr) = Len(fr) + 1
      /\ \A i \in 1 .. Len(fr) : gr[i] = fr[i]
      /\ gr[Len(fr) + 1] = f
      /\ gr # <<>>
  BY <1>1
<1>4. nd \in Exp /\ f.pos \in Nat /\ nd2 \in Exp \cup {NoExp} /\ (nd2 = NoExp <=> f.pos = 0)
  BY <1>0, ExpParts, ExpressionAssumption DEF OnPath
<1>5. \A i \in 1 .. Len(gr) :
        /\ gr[i].exp \in Exp
        /\ gr[i].pos \in 0 .. Len(gr[i].exp.exps)
        /\ i < Len(gr) \/ nd2 # NoExp \/ gr[i].exp.op # "EApp" => gr[i].pos >= 1
        /\ gr[i].exp = IF i = 1 THEN e ELSE gr[i - 1].exp.exps[gr[i - 1].pos]
  <2>1. ASSUME NEW i \in 1 .. Len(fr)
        PROVE  /\ fr[i].exp \in Exp
               /\ fr[i].pos \in 0 .. Len(fr[i].exp.exps)
               /\ fr[i].pos >= 1
               /\ fr[i].exp = IF i = 1 THEN e ELSE fr[i - 1].exp.exps[fr[i - 1].pos]
    BY DEF OnPath
  <2>2. \A i \in 1 .. Len(fr) : i = 1 \/ i - 1 \in 1 .. Len(fr)
    BY <1>3
  <2>3. f.exp = IF Len(fr) + 1 = 1 THEN e ELSE gr[Len(fr) + 1 - 1].exp.exps[gr[Len(fr) + 1 - 1].pos]
    <3>1. CASE Len(fr) = 0
      BY <1>0, <1>1, <3>1 DEF OnPath
    <3>2. CASE Len(fr) # 0
      <4>1. fr # <<>> /\ Len(fr) + 1 - 1 = Len(fr) /\ Len(fr) \in 1 .. Len(fr) /\ Len(fr) + 1 # 1
        BY <1>1, <3>2
      <4> QED BY <1>0, <1>3, <4>1 DEF OnPath
    <3> QED BY <3>1, <3>2
  <2> HIDE DEF gr
  <2> TAKE i \in 1 .. Len(gr)
  <2>4. CASE i \in 1 .. Len(fr)
    <3>1. gr[i] = fr[i] /\ (i = 1 \/ gr[i - 1] = fr[i - 1])
      BY <1>3, <2>2, <2>4
    <3> QED BY <2>1, <2>4, <3>1
  <2>5. CASE i \notin 1 .. Len(fr)
    <3>1. i = Len(fr) + 1 /\ i = Len(gr) /\ gr[i] = f
      BY <1>3, <2>5
    <3>2. ~ (i < Len(gr))
      BY <1>3, <3>1
    <3>3. gr[i].pos >= 1 \/ (nd2 = NoExp /\ gr[i].exp.op = "EApp")
      BY <1>0, <3>1
    <3>4. gr[i].exp \in Exp /\ gr[i].pos \in 0 .. Len(gr[i].exp.exps)
      BY <1>0, <1>4, <3>1
    <3>5. gr[i].exp = IF i = 1 THEN e ELSE gr[i - 1].exp.exps[gr[i - 1].pos]
      BY <2>3, <3>1
    <3> QED BY ONLY <3>2, <3>3, <3>4, <3>5
  <2> QED BY <2>4, <2>5
<1>6. nd2 # NoExp => nd2 = IF gr = <<>> THEN e ELSE gr[Len(gr)].exp.exps[gr[Len(gr)].pos]
  BY <1>0, <1>3, <1>4
<1>7. OnPath(e, gr, nd2)
  <2> HIDE DEF gr
  <2> QED BY <1>2, <1>4, <1>5, <1>6 DEF OnPath
<1>8. ASSUME NEW i \in 0 .. Len(fr)
      PROVE  PathTo(gr, i) = PathTo(fr, i)
  <2> HIDE DEF gr
  <2>1. i \in Nat /\ \A j \in 1 .. i : gr[j] = fr[j]
    BY <1>3
  <2> QED BY <2>1, SamePath
<1>9. PathOf(gr) = Append(PathOf(fr), f.pos)
  <2> HIDE DEF gr
  <2>1. /\ PathTo(gr, Len(gr)) = Append(PathTo(gr, Len(gr) - 1), gr[Len(gr)].pos)
        /\ PathTo(gr, Len(gr)) = PathOf(gr)
    <3>1. Len(gr) \in 0 .. Len(gr) /\ Len(gr) > 0
      BY <1>3
    <3> QED BY ONLY <3>1, <1>7, Positions
  <2>2. PathTo(fr, Len(fr)) = PathOf(fr)
    BY Positions
  <2> QED BY <1>3, <1>8, <2>1, <2>2
<1> QED
  BY <1>3, <1>7, <1>8, <1>9, Positions

(* The stack below the handler on top.                                     *)
LEMMA Popped ==
  ASSUME NEW e, NEW fr, OnPath(e, fr, NoExp), fr # <<>>
  PROVE  LET gr == SubSeq(fr, 1, Len(fr) - 1)
         IN /\ OnPath(e, gr, NoExp)
            /\ Len(gr) = Len(fr) - 1
            /\ \A i \in 1 .. Len(gr) : gr[i] = fr[i]
            /\ \A i \in 0 .. Len(gr) : PathTo(gr, i) = PathTo(fr, i)
            /\ PathTo(gr, Len(gr)) = PathOf(gr)
            /\ Len(fr) \in 1 .. Len(fr)
            /\ PathOf(fr) = Append(PathOf(gr), fr[Len(fr)].pos)
            /\ gr = <<>> => fr[Len(fr)].exp = e
            /\ gr # <<>> => /\ fr[Len(fr)].exp = gr[Len(gr)].exp.exps[gr[Len(gr)].pos]
                            /\ gr[Len(gr)].pos >= 1
<1> DEFINE gr == SubSeq(fr, 1, Len(fr) - 1)
<1>1. PICK S : fr \in Seq(S)
  BY DEF OnPath
<1>2. Len(fr) \in Nat \ {0}
  BY <1>1
<1>3. gr \in Seq(S) /\ Len(gr) = Len(fr) - 1 /\ \A i \in 1 .. Len(gr) : gr[i] = fr[i]
  BY <1>1, <1>2, FrontFacts
<1> HIDE DEF gr
<1>4. /\ \A i \in 1 .. Len(gr) : i \in 1 .. Len(fr) /\ i < Len(fr) /\ (i = 1 \/ i - 1 \in 1 .. Len(gr))
      /\ gr = <<>> <=> Len(gr) = 0
  BY <1>2, <1>3
<1>5. OnPath(e, gr, NoExp)
  <2>1. \A i \in 1 .. Len(gr) :
          /\ gr[i].exp \in Exp
          /\ gr[i].pos \in 0 .. Len(gr[i].exp.exps)
          /\ gr[i].pos >= 1
          /\ gr[i].exp = IF i = 1 THEN e ELSE gr[i - 1].exp.exps[gr[i - 1].pos]
    <3> TAKE i \in 1 .. Len(gr)
    <3>1. /\ fr[i].exp \in Exp
          /\ fr[i].pos \in 0 .. Len(fr[i].exp.exps)
          /\ fr[i].pos >= 1
          /\ fr[i].exp = IF i = 1 THEN e ELSE fr[i - 1].exp.exps[fr[i - 1].pos]
      BY <1>4 DEF OnPath
    <3>2. gr[i] = fr[i] /\ (i = 1 \/ gr[i - 1] = fr[i - 1])
      BY <1>3, <1>4
    <3> QED BY <3>1, <3>2
  <2> QED BY <1>3, <2>1 DEF OnPath
<1>6. ASSUME NEW i \in 0 .. Len(gr)
      PROVE  PathTo(gr, i) = PathTo(fr, i)
  <2>1. i \in Nat /\ \A j \in 1 .. i : gr[j] = fr[j]
    BY <1>2, <1>3
  <2> QED BY <2>1, SamePath
<1>7. /\ PathTo(gr, Len(gr)) = PathOf(gr)
      /\ PathOf(fr) = Append(PathTo(fr, Len(fr) - 1), fr[Len(fr)].pos)
  <2>1. Len(fr) \in 0 .. Len(fr) /\ Len(fr) > 0
    BY <1>2
  <2>2. /\ PathTo(fr, Len(fr)) = Append(PathTo(fr, Len(fr) - 1), fr[Len(fr)].pos)
        /\ PathTo(fr, Len(fr)) = PathOf(fr)
    BY ONLY <2>1, OnPath(e, fr, NoExp), Positions
  <2>3. PathTo(gr, Len(gr)) = PathOf(gr)
    BY ONLY <1>5, Positions
  <2> QED BY <2>2, <2>3
<1>8. /\ gr = <<>> => fr[Len(fr)].exp = e
      /\ gr # <<>> => fr[Len(fr)].exp = gr[Len(gr)].exp.exps[gr[Len(gr)].pos]
  <2>1. fr[Len(fr)].exp = IF Len(fr) = 1 THEN e ELSE fr[Len(fr) - 1].exp.exps[fr[Len(fr) - 1].pos]
    <3>1. Len(fr) \in 1 .. Len(fr)
      BY <1>2
    <3> QED BY <3>1 DEF OnPath
  <2> QED BY <1>2, <1>3, <1>4, <2>1
<1>9. gr # <<>> => gr[Len(gr)].pos >= 1
  BY <1>2, <1>3, <1>4 DEF OnPath
<1>10. PathOf(fr) = Append(PathOf(gr), fr[Len(fr)].pos)
  BY <1>2, <1>3, <1>6, <1>7
<1>11. Len(fr) \in 1 .. Len(fr)
  BY <1>2
<1> QED
  BY <1>3, <1>5, <1>6, <1>7, <1>8, <1>9, <1>10, <1>11 DEF gr

(* The handler on top goes on to its next operand.                         *)
LEMMA Advanced ==
  ASSUME NEW e, NEW fr, OnPath(e, fr, NoExp), fr # <<>>, NEW f,
         f.exp = fr[Len(fr)].exp, f.pos = fr[Len(fr)].pos + 1,
         fr[Len(fr)].pos < Len(f.exp.exps)
  PROVE  LET gr == SubSeq(fr, 1, Len(fr) - 1)
             hr == Append(gr, f)
         IN /\ OnPath(e, hr, f.exp.exps[f.pos])
            /\ f.exp.exps[f.pos] \in Exp
            /\ f.exp.exps[f.pos] # NoExp
            /\ Len(hr) = Len(fr)
            /\ Len(fr) \in 1 .. Len(fr)
            /\ \A i \in 1 .. Len(fr) - 1 : hr[i] = fr[i]
            /\ hr[Len(fr)] = f
            /\ \A i \in 0 .. Len(fr) - 1 : PathTo(hr, i) = PathTo(fr, i)
            /\ PathTo(fr, Len(fr) - 1) = PathOf(gr)
            /\ PathOf(hr) = Append(PathOf(gr), f.pos)
            /\ PathOf(fr) = Append(PathOf(gr), fr[Len(fr)].pos)
<1> DEFINE gr == SubSeq(fr, 1, Len(fr) - 1)
<1> DEFINE hr == Append(gr, f)
<1>1. /\ OnPath(e, gr, NoExp)
      /\ Len(gr) = Len(fr) - 1
      /\ \A i \in 1 .. Len(gr) : gr[i] = fr[i]
      /\ \A i \in 0 .. Len(gr) : PathTo(gr, i) = PathTo(fr, i)
      /\ PathTo(gr, Len(gr)) = PathOf(gr)
      /\ Len(fr) \in 1 .. Len(fr)
      /\ PathOf(fr) = Append(PathOf(gr), fr[Len(fr)].pos)
      /\ gr = <<>> => fr[Len(fr)].exp = e
      /\ gr # <<>> => /\ fr[Len(fr)].exp = gr[Len(gr)].exp.exps[gr[Len(gr)].pos]
                      /\ gr[Len(gr)].pos >= 1
  BY Popped
<1>2. /\ f.exp \in Exp
      /\ fr[Len(fr)].pos \in Nat
      /\ Len(f.exp.exps) \in Nat
      /\ f.pos \in 0 .. Len(f.exp.exps)
      /\ f.pos >= 1
      /\ f.exp # NoExp
      /\ f.exp.exps[f.pos] \in Exp
      /\ f.exp.exps[f.pos] # NoExp
  <2>1. f.exp \in Exp /\ fr[Len(fr)].pos \in 0 .. Len(f.exp.exps)
    BY <1>1 DEF OnPath
  <2>2. Len(f.exp.exps) \in Nat /\ \A k \in 1 .. Len(f.exp.exps) : f.exp.exps[k] \in Exp
    BY <2>1, ExpParts
  <2>3. f.pos \in 1 .. Len(f.exp.exps)
    BY <2>1, <2>2
  <2> QED BY <2>1, <2>2, <2>3, ExpressionAssumption
<1> HIDE DEF gr
<1>3. OnPath(e, gr, f.exp)
  <2>1. f.exp = IF gr = <<>> THEN e ELSE gr[Len(gr)].exp.exps[gr[Len(gr)].pos]
    BY <1>1
  <2>2. \A i \in 1 .. Len(gr) : gr[i].pos >= 1
    BY <1>1 DEF OnPath
  <2> QED BY <1>1, <1>2, <2>1, <2>2 DEF OnPath
<1>4. /\ OnPath(e, hr, f.exp.exps[f.pos])
      /\ Len(hr) = Len(gr) + 1
      /\ \A i \in 1 .. Len(gr) : hr[i] = gr[i]
      /\ hr[Len(gr) + 1] = f
      /\ \A i \in 0 .. Len(gr) : PathTo(hr, i) = PathTo(gr, i)
      /\ PathOf(hr) = Append(PathOf(gr), f.pos)
  <2>1. /\ f.exp # NoExp /\ f.exp = f.exp /\ f.pos \in 0 .. Len(f.exp.exps)
        /\ f.pos >= 1
    BY <1>2
  <2> DEFINE nd == f.exp
  <2> DEFINE nd2 == f.exp.exps[f.pos]
  <2>2. OnPath(e, gr, nd) /\ nd # NoExp /\ FirstFrame(f, nd, nd2)
    BY <1>3, <2>1 DEF FirstFrame
  <2> HIDE DEF nd, nd2
  <2>3. /\ OnPath(e, Append(gr, f), nd2)
        /\ Len(Append(gr, f)) = Len(gr) + 1
        /\ \A i \in 1 .. Len(gr) : Append(gr, f)[i] = gr[i]
        /\ Append(gr, f)[Len(gr) + 1] = f
        /\ \A i \in 0 .. Len(gr) : PathTo(Append(gr, f), i) = PathTo(gr, i)
        /\ PathOf(Append(gr, f)) = Append(PathOf(gr), f.pos)
    BY ONLY <2>2, Pushed
  <2> QED BY <2>3 DEF nd2
<1> HIDE DEF hr
<1>5. Len(fr) \in Nat /\ Len(gr) + 1 = Len(fr) /\ Len(gr) \in 0 .. Len(gr)
  BY <1>1
<1> QED BY <1>1, <1>2, <1>4, <1>5 DEF hr, gr

-----------------------------------------------------------------------------
(* Places in the tree *)

(* What was passed before an operand is entered has been passed then.      *)
LEMMA BeforeOperand ==
  ASSUME NEW p \in Seq(Nat), NEW k \in Nat, NEW q, Before(q, p)
  PROVE  Before(q, Append(p, k))
<1>1. /\ Len(p) \in Nat /\ Len(Append(p, k)) = Len(p) + 1
      /\ \A j \in 1 .. Len(p) : Append(p, k)[j] = p[j]
  BY AppendFacts
<1>2. PICK j \in 1 .. Len(p) : /\ j <= Len(q) /\ q[j] < p[j]
                               /\ \A i \in 1 .. j - 1 : q[i] = p[i]
  BY DEF Before
<1>3. j \in 1 .. Len(p) + 1 /\ \A i \in 1 .. j - 1 : i \in 1 .. Len(p)
  BY <1>1, <1>2
<1> QED BY <1>1, <1>2, <1>3 DEF Before

(* What has been passed when operand k is left.                            *)
LEMMA AfterOperand ==
  ASSUME NEW p \in Seq(Nat), NEW k \in Nat, NEW q \in Seq(Nat),
         Before(q, Append(p, k)) \/ Inside(q, Append(p, k))
  PROVE  /\ Before(q, Append(p, k + 1))
         /\ Before(q, p) \/ Inside(q, p)
         /\ q # p
<1> DEFINE r == Append(p, k)
<1> DEFINE u == Append(p, k + 1)
<1>1. /\ Len(p) \in Nat /\ Len(q) \in Nat
      /\ Len(r) = Len(p) + 1 /\ Len(u) = Len(p) + 1
      /\ r[Len(p) + 1] = k /\ u[Len(p) + 1] = k + 1
      /\ \A j \in 1 .. Len(p) : r[j] = p[j] /\ u[j] = p[j]
      /\ \A j \in 1 .. Len(p) : p[j] \in Nat
      /\ Len(p) + 1 \in 1 .. Len(p) + 1
  BY AppendFacts, k + 1 \in Nat
<1> HIDE DEF r, u
<1>2. ASSUME Inside(q, r)
      PROVE  Before(q, u) /\ (Before(q, p) \/ Inside(q, p)) /\ q # p
  <2>1. Len(p) + 1 <= Len(q) /\ q[Len(p) + 1] = k /\ \A j \in 1 .. Len(p) : q[j] = p[j]
    <3>1. Len(p) + 1 <= Len(q) /\ \A j \in 1 .. Len(p) + 1 : q[j] = r[j]
      BY <1>1, <1>2 DEF Inside
    <3>2. \A j \in 1 .. Len(p) : j \in 1 .. Len(p) + 1
      BY <1>1
    <3> QED BY <1>1, <3>1, <3>2
  <2>2. Before(q, u)
    <3>1. /\ Len(p) + 1 \in 1 .. Len(u) /\ Len(p) + 1 <= Len(q) /\ q[Len(p) + 1] < u[Len(p) + 1]
          /\ \A i \in 1 .. Len(p) + 1 - 1 : q[i] = u[i]
      BY <1>1, <2>1
    <3> QED BY <3>1 DEF Before
  <2>3. Inside(q, p)
    BY <1>1, <2>1 DEF Inside
  <2> QED BY <1>1, <2>1, <2>2, <2>3
<1>3. ASSUME Before(q, r)
      PROVE  Before(q, u) /\ (Before(q, p) \/ Inside(q, p)) /\ q # p
  <2>1. PICK j \in 1 .. Len(p) + 1 : /\ j <= Len(q) /\ q[j] < r[j]
                                     /\ \A i \in 1 .. j - 1 : q[i] = r[i]
    BY <1>1, <1>3 DEF Before
  <2>2. j \in Nat /\ \A i \in 1 .. j - 1 : i \in 1 .. Len(p)
    BY <1>1, <2>1
  <2>3. CASE j = Len(p) + 1
    <3>1. q[j] < k /\ q[j] \in Nat /\ q[j] < k + 1
      BY <1>1, <2>1, <2>3
    <3>2. \A i \in 1 .. j - 1 : q[i] = p[i] /\ q[i] = u[i]
      BY <1>1, <2>1, <2>2
    <3>3. Before(q, u)
      BY <1>1, <2>1, <2>3, <3>1, <3>2 DEF Before
    <3>4. Inside(q, p)
      BY <1>1, <2>1, <2>3, <3>2 DEF Inside
    <3> QED BY <1>1, <2>1, <2>3, <3>3, <3>4
  <2>4. CASE j \in 1 .. Len(p)
    <3>1. /\ q[j] < p[j] /\ q[j] < u[j]
          /\ \A i \in 1 .. j - 1 : q[i] = p[i] /\ q[i] = u[i]
      BY <1>1, <2>1, <2>2, <2>4
    <3>2. Before(q, u) /\ Before(q, p)
      BY <1>1, <2>1, <2>4, <3>1 DEF Before
    <3>3. q # p
      BY <1>1, <2>4, <3>1
    <3> QED BY <3>2, <3>3
  <2> QED BY <1>1, <2>3, <2>4
<1> QED BY <1>2, <1>3 DEF r, u

(* A place that has been passed is another one, and each is inside itself. *)
LEMMA PassedIsOther ==
  ASSUME NEW p \in Seq(Nat)
  PROVE  /\ \A q : Before(q, p) => q # p
         /\ Inside(p, p)
<1>1. Len(p) \in Nat /\ \A j \in 1 .. Len(p) : p[j] \in Nat
  OBVIOUS
<1>2. ASSUME Before(p, p)
      PROVE  FALSE
  BY <1>1, <1>2 DEF Before
<1>3. Inside(p, p)
  BY <1>1 DEF Inside
<1> QED BY <1>2, <1>3

-----------------------------------------------------------------------------
(* What is noted *)

(* f is what g is, and more.                                               *)
Extends(g, f) == DOMAIN f \subseteq DOMAIN g /\ \A p \in DOMAIN f : g[p] = f[p]

(* g is f with x at q.                                                     *)
Adds(g, f, q, x) == DOMAIN g = DOMAIN f \cup {q} /\ g[q] = x /\ Extends(g, f)

(* A handler finds its operands as they were when more is noted.           *)
LEMMA StillChecked ==
  ASSUME NEW f, NEW q, NEW n, NEW N, NEW T, NEW M, NEW U,
         OperandsChecked(f, q, n, N, T), DOMAIN T = DOMAIN N, Extends(M, N), Extends(U, T)
  PROVE  OperandsChecked(f, q, n, M, U)
<1>1. \A k \in 1 .. n : Append(q, k) \in DOMAIN N /\ Append(q, k) \in DOMAIN M
                          /\ M[Append(q, k)] = N[Append(q, k)] /\ U[Append(q, k)] = T[Append(q, k)]
  BY DEF OperandsChecked, Extends
<1>2. [k \in 1 .. n |-> U[Append(q, k)]] = [k \in 1 .. n |-> T[Append(q, k)]]
  BY <1>1
<1> QED BY <1>1, <1>2 DEF OperandsChecked

(* A rule looks at the types of the operands only.                         *)
LEMMA SameOperandTypes ==
  ASSUME NEW e, NEW p, NEW T, NEW U, \A k \in 1 .. Len(e.exps) : U[Append(p, k)] = T[Append(p, k)]
  PROVE  OperandTypes(e, p, U) = OperandTypes(e, p, T)
  BY DEF OperandTypes

(* The type of a node is noted, by a rule, after those of its operands.    *)
LEMMA NotedTyping ==
  ASSUME NEW N, NEW T, Typing(N, T), NEW q \in Seq(Nat), q \notin DOMAIN N,
         NEW e \in Exp, NEW t \in DOMAIN types,
         OperandsNoted(N, e, q), Rule(e, OperandTypes(e, q, T), t),
         NEW M, Adds(M, N, q, e), NEW U, Adds(U, T, q, t)
  PROVE  Typing(M, U)
<1>1. /\ DOMAIN T = DOMAIN N
      /\ \A p \in DOMAIN N :
           /\ p \in Seq(Nat)
           /\ N[p] \in Exp
           /\ T[p] \in DOMAIN types
           /\ OperandsNoted(N, N[p], p)
           /\ Rule(N[p], OperandTypes(N[p], p, T), T[p])
  BY DEF Typing
<1>2. /\ DOMAIN U = DOMAIN M /\ DOMAIN M = DOMAIN N \cup {q}
      /\ M[q] = e /\ U[q] = t
      /\ \A p \in DOMAIN N : M[p] = N[p] /\ U[p] = T[p]
  BY <1>1 DEF Adds, Extends
<1>3. ASSUME NEW p \in DOMAIN M
      PROVE  /\ p \in Seq(Nat)
             /\ M[p] \in Exp
             /\ U[p] \in DOMAIN types
             /\ OperandsNoted(M, M[p], p)
             /\ Rule(M[p], OperandTypes(M[p], p, U), U[p])
  <2>1. ASSUME NEW f, NEW r, OperandsNoted(N, f, r)
        PROVE  OperandsNoted(M, f, r) /\ OperandTypes(f, r, U) = OperandTypes(f, r, T)
    <3>1. \A k \in 1 .. Len(f.exps) : U[Append(r, k)] = T[Append(r, k)]
      BY <1>2, <2>1 DEF OperandsNoted
    <3> QED BY <1>2, <2>1, <3>1, SameOperandTypes DEF OperandsNoted
  <2>2. CASE p = q
    BY <1>2, <2>1, <2>2
  <2>3. CASE p \in DOMAIN N
    BY <1>1, <1>2, <2>1, <2>3
  <2> QED BY <1>2, <2>2, <2>3
<1>4. Typing(M, U)
  BY <1>2, <1>3 DEF Typing
<1> QED BY <1>2, <1>4

-----------------------------------------------------------------------------
(* The typechecker's steps *)

(* The handler on top goes on noticing the operand it has just visited.    *)
LEMMA OneMore ==
  ASSUME NEW f, NEW q, NEW N, NEW T, f.pos \in Nat, f.pos >= 1,
         OperandsChecked(f, q, f.pos - 1, N, T),
         Append(q, f.pos) \in DOMAIN N, N[Append(q, f.pos)] = f.exp.exps[f.pos]
  PROVE  OperandsChecked(f, q, f.pos, N, T)
<1> DEFINE T1 == [k \in 1 .. f.pos - 1 |-> T[Append(q, k)]]
<1> DEFINE T2 == [k \in 1 .. f.pos |-> T[Append(q, k)]]
<1>1. \A k \in 1 .. f.pos - 1 : k \in 1 .. f.pos /\ T2[k] = T1[k]
  OBVIOUS
<1>2. Checked(f, T1)
  BY DEF OperandsChecked
<1>3. /\ f.pos >= 2 => 1 \in 1 .. f.pos - 1
      /\ f.pos = 3 => 2 \in 1 .. f.pos - 1
  OBVIOUS
<1> HIDE DEF T1, T2
<1>4. Checked(f, T2)
  BY <1>1, <1>2, <1>3 DEF Checked
<1>5. \A k \in 1 .. f.pos : k \in 1 .. f.pos - 1 \/ k = f.pos
  OBVIOUS
<1>6. \A k \in 1 .. f.pos : Append(q, k) \in DOMAIN N /\ N[Append(q, k)] = f.exp.exps[k]
  BY <1>5 DEF OperandsChecked
<1> QED BY <1>4, <1>6 DEF OperandsChecked, T2

(* The handler of e can return to gr: its operands are noted, itself not.  *)
Ready(gr, e, N) ==
  /\ e \in Exp
  /\ OnPath(exp, gr, NoExp)
  /\ \A i \in 1 .. Len(gr) :
       OperandsChecked(gr[i], PathTo(gr, i - 1), gr[i].pos - 1, N, type)
  /\ \A q \in DOMAIN type :
       q # PathOf(gr) /\ (Before(q, PathOf(gr)) \/ Inside(q, PathOf(gr)))
  /\ e = IF gr = <<>> THEN exp ELSE gr[Len(gr)].exp.exps[gr[Len(gr)].pos]
  /\ gr # <<>> => gr[Len(gr)].pos >= 1
  /\ OperandsNoted(N, e, PathOf(gr))

(* A handler returns to gr: the type of its node e is noted and left in    *)
(* resultExpType.                                                          *)
LEMMA Finished ==
  ASSUME NEW N, Inv(N), Rest, phase = "typecheck",
         NEW gr, NEW e, Ready(gr, e, N), NEW t \in DOMAIN types, NEW v \in BOOLEAN, v <=> Place(e),
         Rule(e, OperandTypes(e, PathOf(gr), type), t),
         Result(t, v, PathOf(gr)), frames' = gr,
         UNCHANGED <<ir, registers, allocas, expValue>>
  PROVE  IInv'
<1> DEFINE p == PathOf(gr)
<1>0. /\ e \in Exp
      /\ OnPath(exp, gr, NoExp)
      /\ \A i \in 1 .. Len(gr) :
           OperandsChecked(gr[i], PathTo(gr, i - 1), gr[i].pos - 1, N, type)
      /\ \A q \in DOMAIN type : q # p /\ (Before(q, p) \/ Inside(q, p))
      /\ e = IF gr = <<>> THEN exp ELSE gr[Len(gr)].exp.exps[gr[Len(gr)].pos]
      /\ gr # <<>> => gr[Len(gr)].pos >= 1
      /\ OperandsNoted(N, e, p)
  BY DEF Ready
<1> DEFINE M == [q \in DOMAIN N \cup {p} |-> IF q = p THEN e ELSE N[q]]
<1>1. /\ Len(gr) \in Nat
      /\ gr = <<>> <=> Len(gr) = 0
      /\ \A i \in 1 .. Len(gr) : gr[i].pos \in Nat
      /\ p \in Seq(Nat)
      /\ PathTo(gr, Len(gr)) = p
      /\ Len(gr) > 0 => p = Append(PathTo(gr, Len(gr) - 1), gr[Len(gr)].pos)
  <2>1. /\ Len(gr) \in Nat
        /\ gr = <<>> <=> Len(gr) = 0
        /\ \A i \in 1 .. Len(gr) : gr[i].pos \in Nat
        /\ PathTo(gr, Len(gr)) = PathOf(gr)
    BY <1>0, Positions
  <2>2. Len(gr) \in 0 .. Len(gr)
    BY <2>1
  <2>3. /\ PathTo(gr, Len(gr)) \in Seq(Nat)
        /\ Len(gr) > 0 => PathTo(gr, Len(gr)) = Append(PathTo(gr, Len(gr) - 1), gr[Len(gr)].pos)
    BY ONLY <2>2, <1>0, Positions
  <2> QED BY <2>1, <2>3
<1>2. /\ phase' = "typecheck" /\ exp' = exp /\ rootParent' = rootParent
      /\ node' = NoExp /\ resultExpType' = t /\ isResultExpVariable' = v
      /\ type' = [q \in DOMAIN type \cup {p} |-> IF q = p THEN t ELSE type[q]]
  BY DEF Result
<1>3. /\ Typing(N, type) /\ DOMAIN type = DOMAIN N /\ p \notin DOMAIN N
  BY <1>0 DEF Inv, Typing
<1>4. /\ Typing(M, type')
      /\ Extends(M, N) /\ Extends(type', type)
      /\ DOMAIN M = DOMAIN N \cup {p} /\ M[p] = e
      /\ DOMAIN type' = DOMAIN type \cup {p} /\ type'[p] = t
  <2>1. /\ e \in Exp /\ t \in DOMAIN types
        /\ OperandsNoted(N, e, p)
        /\ Rule(e, OperandTypes(e, p, type), t)
    BY <1>0
  <2>2. DOMAIN M = DOMAIN N \cup {p} /\ M[p] = e /\ Extends(M, N) /\ Adds(M, N, p, e)
    BY <1>3 DEF Extends, Adds
  <2>3. /\ DOMAIN type' = DOMAIN type \cup {p} /\ type'[p] = t /\ Extends(type', type)
        /\ Adds(type', type, p, t)
    BY <1>2, <1>3 DEF Extends, Adds
  <2> HIDE DEF p, M
  <2>4. Typing(M, type')
    BY ONLY <1>1, <1>3, <2>1, <2>2, <2>3, NotedTyping
  <2> QED BY <2>2, <2>3, <2>4
<1> HIDE DEF M
<1>5. ASSUME NEW q \in DOMAIN type'
      PROVE  Before(q, p) \/ Inside(q, p)
  BY <1>0, <1>1, <1>4, PassedIsOther
<1>6. ASSUME NEW i \in 1 .. Len(gr)
      PROVE  OperandsChecked(gr[i], PathTo(gr, i - 1), Visited(gr, NoExp, i), M, type')
  <2>1. OperandsChecked(gr[i], PathTo(gr, i - 1), gr[i].pos - 1, M, type')
    <3>1. OperandsChecked(gr[i], PathTo(gr, i - 1), gr[i].pos - 1, N, type)
      BY <1>0
    <3> QED BY ONLY <3>1, <1>3, <1>4, StillChecked
  <2>2. CASE i = Len(gr)
    <3>1. gr # <<>> /\ Len(gr) > 0 /\ gr[i].pos >= 1 /\ gr[i].pos \in Nat
      <4>1. gr # <<>> /\ Len(gr) > 0
        BY ONLY <1>1, i \in 1 .. Len(gr)
      <4> QED BY <1>0, <1>1, <2>2, <4>1
    <3>2. Append(PathTo(gr, i - 1), gr[i].pos) = p /\ e = gr[i].exp.exps[gr[i].pos]
      BY <1>0, <1>1, <2>2, <3>1
    <3>3. OperandsChecked(gr[i], PathTo(gr, i - 1), gr[i].pos, M, type')
      BY <1>4, <2>1, <3>1, <3>2, OneMore
    <3> QED BY <2>2, <3>3 DEF Visited
  <2>3. CASE i # Len(gr)
    BY <2>1, <2>3 DEF Visited
  <2> QED BY <2>2, <2>3
<1>7. Typechecking(M)'
  <2>1. \A q \in DOMAIN type' : Before(q, PathOf(frames')) \/ (node' = NoExp /\ Inside(q, PathOf(frames')))
    BY <1>2, <1>5
  <2>2. \A i \in 1 .. Len(frames') :
          OperandsChecked(frames'[i], PathTo(frames', i - 1), Visited(frames', node', i), M, type')
    BY <1>2, <1>6
  <2>3. HasReturned' =>
          /\ PathOf(frames') \in DOMAIN M
          /\ resultExpType' = type'[PathOf(frames')]
          /\ isResultExpVariable' <=> Place(M[PathOf(frames')])
          /\ M[PathOf(frames')] = IF frames' = <<>> THEN exp' ELSE Top'.exp.exps[Top'.pos]
    BY <1>0, <1>2, <1>4 DEF Top
  <2> QED BY <2>1, <2>2, <2>3 DEF Typechecking
<1>8. Inv(M)'
  BY <1>0, <1>2, <1>4, <1>7 DEF Inv
<1>9. Rest'
  BY <1>2 DEF Rest
<1> QED BY <1>8, <1>9 DEF IInv

(* A node without operands is ready at once.                               *)
LEMMA LeafReady ==
  ASSUME NEW N, Inv(N), phase = "typecheck", node # NoExp, Len(node.exps) = 0
  PROVE  Ready(frames, node, N)
<1>1. /\ OnPath(exp, frames, node) /\ Typechecking(N) /\ DOMAIN type = DOMAIN N
      /\ node \in Exp
      /\ \A i \in 1 .. Len(frames) : frames[i].pos >= 1
  BY DEF Inv, Typing, OnPath
<1>2. OnPath(exp, frames, NoExp)
  BY <1>1 DEF OnPath
<1>3. Len(frames) \in Nat /\ (frames = <<>> <=> Len(frames) = 0)
  BY <1>1, Positions
<1>4. PathOf(frames) \in Seq(Nat)
  <2>1. Len(frames) \in 0 .. Len(frames)
    BY <1>3
  <2>2. PathTo(frames, Len(frames)) \in Seq(Nat) /\ PathTo(frames, Len(frames)) = PathOf(frames)
    BY ONLY <1>1, <2>1, Positions
  <2> QED BY <2>2
<1>5. \A i \in 1 .. Len(frames) :
        OperandsChecked(frames[i], PathTo(frames, i - 1), frames[i].pos - 1, N, type)
  BY <1>1 DEF Typechecking, Visited
<1>6. \A q \in DOMAIN type : Before(q, PathOf(frames))
  BY <1>1 DEF Typechecking
<1>7. \A q \in DOMAIN type : q # PathOf(frames) /\ Before(q, PathOf(frames))
  BY <1>4, <1>6, PassedIsOther
<1>8. frames # <<>> => frames[Len(frames)].pos >= 1
  BY <1>1, <1>3
<1>9. node = IF frames = <<>> THEN exp ELSE frames[Len(frames)].exp.exps[frames[Len(frames)].pos]
  BY <1>1 DEF OnPath
<1>10. OperandsNoted(N, node, PathOf(frames))
  BY DEF OperandsNoted
<1> QED BY <1>1, <1>2, <1>5, <1>7, <1>8, <1>9, <1>10 DEF Ready

(* What the handler on top has when it resumes: its operands are noted and *)
(* checked, the type of the last one is in resultExpType.                  *)
LEMMA Resumed ==
  ASSUME NEW N, Inv(N), phase = "typecheck", node = NoExp, frames # <<>>
  PROVE  /\ Top.exp \in Exp
         /\ Top.pos \in Nat /\ Top.pos <= Len(Top.exp.exps)
         /\ Top.exp.op # "EApp" => Top.pos >= 1
         /\ PathTo(frames, Len(frames) - 1) = PathOf(Pop)
         /\ PathOf(Pop) \in Seq(Nat)
         /\ OperandsChecked(Top, PathOf(Pop), Top.pos, N, type)
         /\ Top.pos >= 1 =>
              /\ resultExpType = type[Append(PathOf(Pop), Top.pos)]
              /\ resultExpType \in DOMAIN types
              /\ isResultExpVariable <=> Place(Top.exp.exps[Top.pos])
<1>1. /\ OnPath(exp, frames, NoExp) /\ Typing(N, type) /\ Typechecking(N) /\ DOMAIN type = DOMAIN N
  BY DEF Inv, Typing
<1>2. /\ OnPath(exp, Pop, NoExp)
      /\ Len(Pop) = Len(frames) - 1
      /\ \A i \in 0 .. Len(Pop) : PathTo(Pop, i) = PathTo(frames, i)
      /\ PathTo(Pop, Len(Pop)) = PathOf(Pop)
      /\ Len(frames) \in 1 .. Len(frames)
      /\ PathOf(frames) = Append(PathOf(Pop), Top.pos)
  BY <1>1, Popped DEF Pop, Top
<1>3. Len(Pop) \in Nat /\ Len(Pop) \in 0 .. Len(Pop)
  BY <1>2, Positions
<1>4. PathOf(Pop) \in Seq(Nat) /\ PathTo(frames, Len(frames) - 1) = PathOf(Pop)
  BY <1>2, <1>3, Positions
<1>5. Top.exp \in Exp /\ Top.pos \in 0 .. Len(Top.exp.exps) /\ (Top.exp.op # "EApp" => Top.pos >= 1)
  BY <1>1, <1>2 DEF OnPath, Top
<1>6. Top.pos \in Nat /\ Top.pos <= Len(Top.exp.exps)
  BY <1>5, ExpParts
<1>7. OperandsChecked(Top, PathOf(Pop), Top.pos, N, type)
  <2>1. Visited(frames, node, Len(frames)) = Top.pos
    BY DEF Visited, Top
  <2>2. OperandsChecked(frames[Len(frames)], PathTo(frames, Len(frames) - 1),
                        Visited(frames, node, Len(frames)), N, type)
    BY <1>1, <1>2 DEF Typechecking
  <2> QED BY <1>4, <2>1, <2>2 DEF Top
<1>8. ASSUME Top.pos >= 1
      PROVE  /\ resultExpType = type[PathOf(frames)]
             /\ isResultExpVariable <=> Place(Top.exp.exps[Top.pos])
             /\ PathOf(frames) \in DOMAIN N
  BY <1>1, <1>8 DEF Typechecking, HasReturned
<1>9. Top.pos >= 1 => resultExpType \in DOMAIN types
  BY <1>1, <1>8 DEF Typing
<1> QED BY <1>2, <1>4, <1>5, <1>6, <1>7, <1>8, <1>9

(* The handler on top is ready when it has visited its last operand.       *)
LEMMA ReturnReady ==
  ASSUME NEW N, Inv(N), phase = "typecheck", node = NoExp, frames # <<>>,
         Top.pos = Len(Top.exp.exps)
  PROVE  Ready(Pop, Top.exp, N)
<1>1. /\ OnPath(exp, frames, NoExp) /\ Typing(N, type) /\ Typechecking(N) /\ DOMAIN type = DOMAIN N
  BY DEF Inv, Typing
<1>2. /\ OnPath(exp, Pop, NoExp)
      /\ Len(Pop) = Len(frames) - 1
      /\ \A i \in 1 .. Len(Pop) : Pop[i] = frames[i]
      /\ \A i \in 0 .. Len(Pop) : PathTo(Pop, i) = PathTo(frames, i)
      /\ Len(frames) \in 1 .. Len(frames)
      /\ PathOf(frames) = Append(PathOf(Pop), Top.pos)
      /\ Pop = <<>> => Top.exp = exp
      /\ Pop # <<>> => Top.exp = Pop[Len(Pop)].exp.exps[Pop[Len(Pop)].pos]
      /\ Pop # <<>> => Pop[Len(Pop)].pos >= 1
  BY <1>1, Popped DEF Pop, Top
<1>3. /\ Top.exp \in Exp /\ Top.pos \in Nat /\ PathOf(Pop) \in Seq(Nat)
      /\ OperandsChecked(Top, PathOf(Pop), Top.pos, N, type)
  BY Resumed
<1>4. ASSUME NEW i \in 1 .. Len(Pop)
      PROVE  OperandsChecked(Pop[i], PathTo(Pop, i - 1), Pop[i].pos - 1, N, type)
  <2>1. i \in 1 .. Len(frames) /\ i # Len(frames) /\ i - 1 \in 0 .. Len(Pop)
    BY <1>2
  <2>2. OperandsChecked(frames[i], PathTo(frames, i - 1), Visited(frames, node, i), N, type)
    BY <1>1, <2>1 DEF Typechecking
  <2>3. Visited(frames, node, i) = frames[i].pos - 1
    BY <2>1 DEF Visited
  <2> QED BY <1>2, <2>1, <2>2, <2>3
<1>5. ASSUME NEW q \in DOMAIN type
      PROVE  q # PathOf(Pop) /\ (Before(q, PathOf(Pop)) \/ Inside(q, PathOf(Pop)))
  <2>1. q \in Seq(Nat)
    BY <1>1 DEF Typing
  <2>2. Before(q, PathOf(frames)) \/ Inside(q, PathOf(frames))
    BY <1>1 DEF Typechecking
  <2> QED BY <1>2, <1>3, <2>1, <2>2, AfterOperand
<1>6. OperandsNoted(N, Top.exp, PathOf(Pop))
  BY <1>3 DEF OperandsChecked, OperandsNoted
<1> QED BY <1>2, <1>3, <1>4, <1>5, <1>6 DEF Ready

(* A handler is entered.                                                   *)
LEMMA Entered ==
  ASSUME NEW N, Inv(N), Rest, phase = "typecheck", node # NoExp,
         NEW f, f.exp = node, f.pos \in 0 .. Len(node.exps), \A T : Checked(f, T),
         NEW nd2,
         \/ f.pos = 1 /\ nd2 = node.exps[1]
         \/ f.pos = 0 /\ node.op = "EApp" /\ nd2 = NoExp,
         frames' = Append(frames, f), node' = nd2, GoOn,
         UNCHANGED <<ir, registers, allocas, expValue>>
  PROVE  IInv'
<1> DEFINE gr == Append(frames, f)
<1>1. /\ OnPath(exp, frames, node) /\ Typechecking(N) /\ DOMAIN type = DOMAIN N
      /\ node \in Exp
  BY DEF Inv, Typing, OnPath
<1>2. /\ OnPath(exp, gr, nd2)
      /\ Len(gr) = Len(frames) + 1
      /\ \A i \in 1 .. Len(frames) : gr[i] = frames[i]
      /\ gr[Len(frames) + 1] = f
      /\ \A i \in 0 .. Len(frames) : PathTo(gr, i) = PathTo(frames, i)
      /\ PathTo(frames, Len(frames)) = PathOf(frames)
      /\ PathOf(gr) = Append(PathOf(frames), f.pos)
  <2>1. FirstFrame(f, node, nd2) /\ node # NoExp
    BY DEF FirstFrame
  <2> QED BY ONLY <1>1, <2>1, Pushed
<1>3. /\ Len(frames) \in Nat
      /\ PathOf(frames) \in Seq(Nat)
  <2>1. Len(frames) \in Nat /\ PathTo(frames, Len(frames)) = PathOf(frames)
    BY <1>1, Positions
  <2>2. Len(frames) \in 0 .. Len(frames)
    BY <2>1
  <2>3. PathTo(frames, Len(frames)) \in Seq(Nat)
    BY ONLY <1>1, <2>2, Positions
  <2> QED BY <2>1, <2>3
<1>4. nd2 = NoExp <=> f.pos = 0
  <2>1. f.pos = 1 => node.exps[1] \in Exp
    BY <1>1, ExpParts
  <2> QED BY <2>1, ExpressionAssumption
<1> HIDE DEF gr
<1>5. ASSUME NEW q \in DOMAIN type
      PROVE  Before(q, PathOf(gr))
  <2>1. Before(q, PathOf(frames))
    BY <1>1 DEF Typechecking
  <2>2. f.pos \in Nat
    BY <1>1, ExpParts
  <2> QED BY <1>2, <1>3, <2>1, <2>2, BeforeOperand
<1>6. ASSUME NEW i \in 1 .. Len(gr)
      PROVE  OperandsChecked(gr[i], PathTo(gr, i - 1), Visited(gr, nd2, i), N, type)
  <2>1. CASE i \in 1 .. Len(frames)
    <3>1. i # Len(gr) /\ i - 1 \in 0 .. Len(frames)
      BY <1>2, <1>3, <2>1
    <3>2. Visited(gr, nd2, i) = gr[i].pos - 1 /\ Visited(frames, node, i) = frames[i].pos - 1
      BY <3>1 DEF Visited
    <3>3. OperandsChecked(frames[i], PathTo(frames, i - 1), Visited(frames, node, i), N, type)
      BY <1>1, <2>1 DEF Typechecking
    <3> QED BY <1>2, <2>1, <3>1, <3>2, <3>3
  <2>2. CASE i \notin 1 .. Len(frames)
    <3>1. i = Len(gr) /\ gr[i] = f
      BY <1>2, <1>3, <2>2
    <3>2. Visited(gr, nd2, i) = 0
      BY <1>4, <3>1 DEF Visited
    <3>3. Checked(f, [k \in 1 .. 0 |-> type[Append(PathTo(gr, i - 1), k)]])
      OBVIOUS
    <3> QED BY <3>1, <3>2, <3>3 DEF OperandsChecked
  <2> QED BY <2>1, <2>2
<1>7. /\ phase' = "typecheck" /\ exp' = exp /\ rootParent' = rootParent
      /\ resultExpType' = resultExpType /\ isResultExpVariable' = isResultExpVariable
      /\ type' = type /\ frames' = gr /\ node' = nd2
  BY DEF GoOn, result, gr
<1>8. Typechecking(N)'
  <2>1. \A q \in DOMAIN type' : Before(q, PathOf(frames')) \/ (node' = NoExp /\ Inside(q, PathOf(frames')))
    BY <1>5, <1>7
  <2>2. \A i \in 1 .. Len(frames') :
          OperandsChecked(frames'[i], PathTo(frames', i - 1), Visited(frames', node', i), N, type')
    BY <1>6, <1>7
  <2>3. ~ HasReturned'
    <3>1. gr # <<>> /\ gr[Len(gr)].pos = f.pos
      BY <1>2, <1>3
    <3> QED BY <1>4, <1>7, <3>1 DEF HasReturned, Top
  <2> QED BY <2>1, <2>2, <2>3 DEF Typechecking
<1>9. Inv(N)'
  BY <1>2, <1>7, <1>8 DEF Inv
<1>10. Rest'
  BY <1>7 DEF Rest
<1> QED BY <1>9, <1>10 DEF IInv

(* The handler on top visits its next operand.                             *)
LEMMA WentOn ==
  ASSUME NEW N, Inv(N), Rest, phase = "typecheck", node = NoExp, frames # <<>>,
         Top.pos < Len(Top.exp.exps),
         NEW l,
         \A T : Checked(Top, T) /\ T = [k \in 1 .. Top.pos |-> type[Append(PathOf(Pop), k)]]
                  => Checked(Frame(Top.exp, Top.pos + 1, l), T),
         NextOperand(l), GoOn,
         UNCHANGED <<ir, registers, allocas, expValue>>
  PROVE  IInv'
<1> DEFINE f == Frame(Top.exp, Top.pos + 1, l)
<1> DEFINE gr == Append(Pop, f)
<1>1. /\ OnPath(exp, frames, NoExp) /\ Typechecking(N) /\ Typing(N, type) /\ DOMAIN type = DOMAIN N
  BY DEF Inv, Typing
<1>2. /\ Top.exp \in Exp /\ Top.pos \in Nat /\ PathOf(Pop) \in Seq(Nat)
      /\ OperandsChecked(Top, PathOf(Pop), Top.pos, N, type)
  BY Resumed
<1>3. f.exp = Top.exp /\ f.pos = Top.pos + 1 /\ f.local = l
  BY DEF Frame
<1> HIDE DEF f
<1>4. /\ OnPath(exp, gr, f.exp.exps[f.pos])
      /\ f.exp.exps[f.pos] # NoExp
      /\ Len(gr) = Len(frames)
      /\ Len(frames) \in 1 .. Len(frames)
      /\ \A i \in 1 .. Len(frames) - 1 : gr[i] = frames[i]
      /\ gr[Len(frames)] = f
      /\ \A i \in 0 .. Len(frames) - 1 : PathTo(gr, i) = PathTo(frames, i)
      /\ PathTo(frames, Len(frames) - 1) = PathOf(Pop)
      /\ PathOf(gr) = Append(PathOf(Pop), f.pos)
      /\ PathOf(frames) = Append(PathOf(Pop), Top.pos)
  BY <1>1, <1>3, Advanced DEF Top, Pop
<1>5. /\ phase' = "typecheck" /\ exp' = exp /\ rootParent' = rootParent
      /\ resultExpType' = resultExpType /\ isResultExpVariable' = isResultExpVariable
      /\ type' = type /\ frames' = gr /\ node' = f.exp.exps[f.pos]
  BY <1>3 DEF GoOn, result, NextOperand, f
<1> HIDE DEF gr
<1>6. ASSUME NEW q \in DOMAIN type
      PROVE  Before(q, PathOf(gr))
  <2>1. Before(q, PathOf(frames)) \/ Inside(q, PathOf(frames))
    BY <1>1 DEF Typechecking
  <2>2. q \in Seq(Nat)
    BY <1>1 DEF Typing
  <2> QED BY <1>2, <1>3, <1>4, <2>1, <2>2, AfterOperand
<1>7. ASSUME NEW i \in 1 .. Len(gr)
      PROVE  OperandsChecked(gr[i], PathTo(gr, i - 1), Visited(gr, node', i), N, type)
  <2>1. Visited(gr, node', i) = gr[i].pos - 1
    BY <1>4, <1>5 DEF Visited
  <2>2. CASE i # Len(gr)
    <3>1. i \in 1 .. Len(frames) /\ i \in 1 .. Len(frames) - 1 /\ i - 1 \in 0 .. Len(frames) - 1
      BY <1>4, <2>2
    <3>2. Visited(frames, node, i) = frames[i].pos - 1
      BY <1>4, <2>2 DEF Visited
    <3>3. OperandsChecked(frames[i], PathTo(frames, i - 1), Visited(frames, node, i), N, type)
      BY <1>1, <3>1 DEF Typechecking
    <3> QED BY <1>4, <2>1, <3>1, <3>2, <3>3
  <2>3. CASE i = Len(gr)
    <3> DEFINE T == [k \in 1 .. Top.pos |-> type[Append(PathOf(Pop), k)]]
    <3>1. Checked(Top, T)
      BY <1>2 DEF OperandsChecked
    <3>2. Checked(f, T)
      <4> HIDE DEF T
      <4>1. T = [k \in 1 .. Top.pos |-> type[Append(PathOf(Pop), k)]]
        BY DEF T
      <4> QED BY <3>1, <4>1 DEF f
    <3>3. f.pos - 1 = Top.pos
      BY <1>2, <1>3
    <3>4. OperandsChecked(f, PathOf(Pop), Top.pos, N, type)
      BY <1>2, <1>3, <3>2 DEF OperandsChecked
    <3> QED BY <1>4, <2>1, <2>3, <3>3, <3>4
  <2> QED BY <2>2, <2>3
<1>8. Typechecking(N)'
  <2>1. \A q \in DOMAIN type' : Before(q, PathOf(frames')) \/ (node' = NoExp /\ Inside(q, PathOf(frames')))
    BY <1>5, <1>6
  <2>2. \A i \in 1 .. Len(frames') :
          OperandsChecked(frames'[i], PathTo(frames', i - 1), Visited(frames', node', i), N, type')
    BY <1>5, <1>7
  <2>3. ~ HasReturned'
    BY <1>4, <1>5 DEF HasReturned
  <2> QED BY <2>1, <2>2, <2>3 DEF Typechecking
<1>9. Inv(N)'
  BY <1>1, <1>4, <1>5, <1>8 DEF Inv
<1>10. Rest'
  BY <1>5 DEF Rest
<1> QED BY <1>9, <1>10 DEF IInv

(* The visitor stops.                                                      *)
LEMMA Stopped ==
  ASSUME NEW N, Inv(N), Rest, NEW how \in {"rejected", "crashed", "unreachable", "nullpointer"},
         phase' = how, UNCHANGED <<exp, rootParent, frames, node, result>>,
         UNCHANGED <<ir, registers, allocas, expValue>>
  PROVE  IInv'
<1>1. Inv(N)'
  BY DEF Inv, result
<1>2. Rest'
  BY DEF Rest, result
<1> QED BY <1>1, <1>2 DEF IInv

(* The handler on top has visited all its operands.                        *)
LEMMA Concluding ==
  ASSUME NEW N, Inv(N), phase = "typecheck", node = NoExp, frames # <<>>,
         Top.pos = Len(Top.exp.exps)
  PROVE  \E ts :
           /\ ts = OperandTypes(Top.exp, PathOf(Pop), type)
           /\ Checked(Top, ts)
           /\ Top.exp \in Exp
           /\ Top.pos >= 1 => /\ resultExpType = ts[Top.pos]
                              /\ isResultExpVariable <=> Place(Top.exp.exps[Top.pos])
           /\ \A k \in 1 .. Top.pos : ts[k] \in DOMAIN types
<1> DEFINE ts == OperandTypes(Top.exp, PathOf(Pop), type)
<1>1. /\ Top.exp \in Exp /\ Top.pos \in Nat
      /\ OperandsChecked(Top, PathOf(Pop), Top.pos, N, type)
      /\ Top.pos >= 1 =>
           /\ resultExpType = type[Append(PathOf(Pop), Top.pos)]
           /\ isResultExpVariable <=> Place(Top.exp.exps[Top.pos])
  BY Resumed
<1>2. \A k \in 1 .. Top.pos : ts[k] = type[Append(PathOf(Pop), k)]
  BY DEF OperandTypes
<1>3. Checked(Top, ts)
  BY <1>1 DEF OperandsChecked, OperandTypes
<1>4. \A k \in 1 .. Top.pos : ts[k] \in DOMAIN types
  BY <1>1, <1>2 DEF OperandsChecked, Inv, Typing
<1>5. Top.pos >= 1 => Top.pos \in 1 .. Top.pos
  BY <1>1
<1> HIDE DEF ts
<1>6. \E us : us = ts
  OBVIOUS
<1> QED BY <1>1, <1>2, <1>3, <1>4, <1>5 DEF ts

(* It returns, by a rule.                                                  *)
LEMMA Returns ==
  ASSUME NEW N, Inv(N), Rest, phase = "typecheck", node = NoExp, frames # <<>>,
         Top.pos = Len(Top.exp.exps),
         NEW t \in DOMAIN types, NEW v \in BOOLEAN, v <=> Place(Top.exp),
         Rule(Top.exp, OperandTypes(Top.exp, PathOf(Pop), type), t),
         Return(t, v), UNCHANGED <<ir, registers, allocas, expValue>>
  PROVE  IInv'
<1>1. Ready(Pop, Top.exp, N)
  BY ReturnReady
<1>2. Result(t, v, PathOf(Pop)) /\ frames' = Pop
  BY DEF Return
<1> QED BY <1>1, <1>2, Finished

(* Names and literals.                                                     *)
LEMMA LeafSteps ==
  ASSUME NEW N, Inv(N), Rest, visitLiteral \/ visitEId,
         UNCHANGED <<ir, registers, allocas, expValue>>
  PROVE  IInv'
<1>1. ASSUME phase = "typecheck", node # NoExp, node.op \in Literals \cup {"EId"},
             NEW t \in DOMAIN types, NEW v \in BOOLEAN, v <=> Place(node),
             Rule(node, OperandTypes(node, PathOf(frames), type), t), Leaf(t, v)
      PROVE  IInv'
  <2>1. node \in Exp /\ Len(node.exps) = 0
    BY <1>1, ExpParts DEF Inv, OnPath
  <2>2. Ready(frames, node, N)
    BY <1>1, <2>1, LeafReady
  <2>3. Result(t, v, PathOf(frames)) /\ frames' = frames
    BY <1>1 DEF Leaf
  <2> QED BY <1>1, <2>2, <2>3, Finished
<1>2. TYPE_INT \in DOMAIN types /\ TYPE_DOUBLE \in DOMAIN types /\ TYPE_BOOL \in DOMAIN types
  BY ExpressionAssumption DEF TYPE_INT, TYPE_DOUBLE, TYPE_BOOL
<1>3. CASE visitLiteral
  <2>1. PICK t : t = LiteralType(node.op)
    OBVIOUS
  <2>2. /\ phase = "typecheck" /\ node # NoExp /\ node.op \in Literals
        /\ Leaf(t, FALSE)
    BY <1>3, <2>1 DEF visitLiteral, Entering, LiteralType
  <2>3. t \in DOMAIN types
    BY <1>2, <2>1 DEF LiteralType
  <2>4. ~ Place(node)
    BY <2>2 DEF Place, Literals
  <2>5. Rule(node, OperandTypes(node, PathOf(frames), type), t)
    BY <2>1, <2>2 DEF Rule, Literals, Steps, Signs, Sums, Orders, Equals, Logic
  <2> QED BY <1>1, <2>2, <2>3, <2>4, <2>5
<1>4. CASE visitEId
  <2>1. phase = "typecheck" /\ node # NoExp /\ node.op = "EId"
    BY <1>4 DEF visitEId, Entering
  <2>2. CASE node.val \in DOMAIN symbols
    <3>1. PICK t : t = symbols[node.val]
      OBVIOUS
    <3>2. t \in DOMAIN types /\ Leaf(t, TRUE)
      BY <1>4, <2>2, <3>1, ExpressionAssumption DEF visitEId
    <3>3. Place(node)
      BY <2>1 DEF Place
    <3>4. Rule(node, OperandTypes(node, PathOf(frames), type), t)
      BY <2>1, <2>2, <3>1 DEF Rule, Literals, Steps, Signs, Sums, Orders, Equals, Logic
    <3> QED BY <1>1, <2>1, <3>2, <3>3, <3>4
  <2>3. CASE node.val \notin DOMAIN symbols
    BY <1>4, <2>3, Stopped DEF visitEId, Unknown, Throw, Stop
  <2> QED BY <2>2, <2>3
<1> QED BY <1>3, <1>4

(* Calls.                                                                  *)
LEMMA CallSteps ==
  ASSUME NEW N, Inv(N), Rest, visitEApp \/ nextArgument \/ endEApp,
         UNCHANGED <<ir, registers, allocas, expValue>>
  PROVE  IInv'
<1>1. CASE visitEApp
  <2>1. phase = "typecheck" /\ node # NoExp /\ node.op = "EApp" /\ node \in Exp
    BY <1>1 DEF visitEApp, Entering, Inv, OnPath
  <2>2. CASE node.val \in DOMAIN functions
    <3> DEFINE f == Frame(node, 0, Len(functions[node.val].parameters) # Len(node.exps))
    <3>1. frames' = Append(frames, f) /\ node' = NoExp /\ GoOn
      BY <1>1, <2>2 DEF visitEApp
    <3>2. f.exp = node /\ f.pos = 0 /\ f.local = (Len(functions[node.val].parameters) # Len(node.exps))
      BY DEF Frame
    <3> HIDE DEF f
    <3>3. f.pos \in 0 .. Len(node.exps)
      BY <2>1, <3>2, ExpParts
    <3>4. ASSUME NEW T
          PROVE  Checked(f, T)
      <4>1. f.exp.op = "EApp" /\ f.exp.op \notin Binary /\ f.exp.op # "ECond"
        BY <2>1, <3>2 DEF Binary, Sums, Orders, Equals, Logic
      <4>2. f.local \in BOOLEAN /\ (~ f.local => Len(functions[node.val].parameters) = Len(node.exps))
        BY <3>2
      <4>3. 1 .. f.pos - 1 = {}
        BY <3>2
      <4> QED BY <2>2, <3>2, <4>1, <4>2, <4>3 DEF Checked
    <3> QED BY <2>1, <3>1, <3>2, <3>3, <3>4, Entered
  <2>3. CASE node.val \notin DOMAIN functions
    BY <1>1, <2>3, Stopped DEF visitEApp, Unknown, Throw, Stop
  <2> QED BY <2>2, <2>3
<1>2. ASSUME phase = "typecheck", node = NoExp, frames # <<>>, Top.exp.op = "EApp"
      PROVE  /\ Top.exp \in Exp /\ Top.pos \in Nat
             /\ hasError \in BOOLEAN
             /\ ~ hasError =>
                  \A T : T = [k \in 1 .. Top.pos |-> type[Append(PathOf(Pop), k)]] =>
                    /\ Top.exp.val \in DOMAIN functions
                    /\ Len(functions[Top.exp.val].parameters) = Len(Top.exp.exps)
                    /\ \A k \in 1 .. Top.pos :
                         isConvertibleTo(T[k], functions[Top.exp.val].parameters[k])
  <2> DEFINE T == [k \in 1 .. Top.pos |-> type[Append(PathOf(Pop), k)]]
  <2> DEFINE ps == functions[Top.exp.val].parameters
  <2>1. /\ Top.exp \in Exp /\ Top.pos \in Nat /\ Top.pos <= Len(Top.exp.exps)
        /\ Checked(Top, T)
        /\ Top.pos >= 1 => resultExpType = T[Top.pos]
    BY <1>2, Resumed DEF OperandsChecked
  <2>2. /\ Top.exp.val \in DOMAIN functions
        /\ Top.local \in BOOLEAN
        /\ ~ Top.local => /\ Len(ps) = Len(Top.exp.exps)
                          /\ \A k \in 1 .. Top.pos - 1 : isConvertibleTo(T[k], ps[k])
    <3> HIDE DEF T
    <3> QED BY <1>2, <2>1 DEF Checked
  <2>3. hasError <=> \/ Top.local
                     \/ Top.pos \in DOMAIN ps /\ ~ isConvertibleTo(resultExpType, ps[Top.pos])
    BY DEF hasError
  <2>4. hasError \in BOOLEAN
    BY <2>2 DEF hasError, isConvertibleTo
  <2>5. ps \in Seq(DOMAIN types \ {TYPE_VOID})
    BY <2>2, ExpressionAssumption DEF Signature
  <2>6. ASSUME ~ hasError
        PROVE  /\ Len(ps) = Len(Top.exp.exps)
               /\ \A k \in 1 .. Top.pos : isConvertibleTo(T[k], ps[k])
    <3>1. Len(ps) = Len(Top.exp.exps)
      BY <2>2, <2>3, <2>6
    <3>2. ASSUME Top.pos >= 1
          PROVE  isConvertibleTo(T[Top.pos], ps[Top.pos])
      <4>1. Top.pos \in DOMAIN ps
        BY <2>1, <2>5, <3>1, <3>2
      <4> QED BY <2>1, <2>3, <2>6, <3>2, <4>1
    <3> HIDE DEF T, ps
    <3>3. \A k \in 1 .. Top.pos : k \in 1 .. Top.pos - 1 \/ k = Top.pos
      BY <2>1
    <3> QED BY <2>1, <2>2, <2>3, <2>6, <3>1, <3>2, <3>3
  <2> QED BY <2>1, <2>2, <2>4, <2>6
<1>3. CASE nextArgument
  <2>1. /\ phase = "typecheck" /\ node = NoExp /\ frames # <<>> /\ Top.exp.op = "EApp"
        /\ Top.pos < Len(Top.exp.exps) /\ NextOperand(hasError) /\ GoOn
    BY <1>3 DEF nextArgument, Resuming
  <2>2. PICK l : l = hasError
    OBVIOUS
  <2>3. ASSUME NEW T, Checked(Top, T), T = [k \in 1 .. Top.pos |-> type[Append(PathOf(Pop), k)]]
        PROVE  Checked(Frame(Top.exp, Top.pos + 1, l), T)
    <3>1. PICK f : f = Frame(Top.exp, Top.pos + 1, l)
      OBVIOUS
    <3>2. f.exp = Top.exp /\ f.pos - 1 = Top.pos /\ f.local = l
      BY <1>2, <2>1, <3>1 DEF Frame
    <3>3. f.exp.op = "EApp" /\ f.exp.op \notin Binary /\ f.exp.op # "ECond"
      BY <2>1, <3>2 DEF Binary, Sums, Orders, Equals, Logic
    <3>4. Top.exp.val \in DOMAIN functions
      BY <2>1, <2>3 DEF Checked
    <3>5. /\ l \in BOOLEAN
          /\ ~ l => /\ Len(functions[Top.exp.val].parameters) = Len(Top.exp.exps)
                    /\ \A k \in 1 .. Top.pos :
                         isConvertibleTo(T[k], functions[Top.exp.val].parameters[k])
      BY <1>2, <2>1, <2>2, <2>3
    <3>6. Checked(f, T)
      BY <3>2, <3>3, <3>4, <3>5 DEF Checked
    <3> QED BY <3>1, <3>6
  <2> QED BY <2>1, <2>2, <2>3, WentOn
<1>4. CASE endEApp
  <2>1. /\ phase = "typecheck" /\ node = NoExp /\ frames # <<>> /\ Top.exp.op = "EApp"
        /\ Top.pos = Len(Top.exp.exps)
    BY <1>4 DEF endEApp, Ending, Resuming
  <2>2. CASE hasError
    BY <1>4, <2>2, Stopped DEF endEApp, Throw, Stop
  <2>3. CASE ~ hasError
    <3>1. PICK t : t = functions[Top.exp.val].returnType
      OBVIOUS
    <3>2. Return(t, FALSE)
      BY <1>4, <2>3, <3>1 DEF endEApp
    <3>3. PICK ts : ts = OperandTypes(Top.exp, PathOf(Pop), type)
      OBVIOUS
    <3>4. ts = [k \in 1 .. Top.pos |-> type[Append(PathOf(Pop), k)]]
      BY <2>1, <3>3 DEF OperandTypes
    <3>5. /\ Top.exp.val \in DOMAIN functions
          /\ Len(functions[Top.exp.val].parameters) = Len(Top.exp.exps)
          /\ \A k \in 1 .. Len(Top.exp.exps) :
               isConvertibleTo(ts[k], functions[Top.exp.val].parameters[k])
      BY <1>2, <2>1, <2>3, <3>4
    <3>6. t \in DOMAIN types
      BY <3>1, <3>5, ExpressionAssumption DEF Signature
    <3>7. ~ Place(Top.exp)
      BY <2>1 DEF Place
    <3>8. Rule(Top.exp, ts, t)
      BY <2>1, <3>1, <3>5 DEF Rule, Literals, Steps, Signs, Sums, Orders, Equals, Logic
    <3> QED BY <2>1, <3>2, <3>3, <3>6, <3>7, <3>8, Returns
  <2> QED BY <2>2, <2>3
<1> QED BY <1>1, <1>3, <1>4

(* The handlers that visit their first operand first.                      *)
LEMMA OperatorEntered ==
  ASSUME NEW N, Inv(N), Rest, visitOperator, UNCHANGED <<ir, registers, allocas, expValue>>
  PROVE  IInv'
<1>1. /\ phase = "typecheck" /\ node # NoExp
      /\ node.op \in {"EProj"} \cup Steps \cup Signs \cup Binary \cup {"ECond"}
      /\ frames' = Append(frames, Frame(node, 1, null)) /\ node' = node.exps[1] /\ GoOn
  BY DEF visitOperator, Entering, Call
<1>2. PICK f : f = Frame(node, 1, null)
  OBVIOUS
<1>3. f.exp = node /\ f.pos = 1
  BY <1>2 DEF Frame
<1>4. node \in Exp
  BY <1>1 DEF Inv, OnPath
<1>5. f.pos \in 0 .. Len(node.exps)
  BY <1>1, <1>3, <1>4, ExpParts DEF Steps, Signs
<1>6. node.op # "EApp"
  BY <1>1 DEF Steps, Signs, Binary, Sums, Orders, Equals, Logic
<1>7. ASSUME NEW T
      PROVE  Checked(f, T)
  BY <1>3, <1>6 DEF Checked
<1>8. PICK nd : nd = node.exps[1]
  OBVIOUS
<1> QED BY <1>1, <1>2, <1>3, <1>5, <1>7, <1>8, Entered

(* Handlers with one operand.                                              *)
LEMMA UnarySteps ==
  ASSUME NEW N, Inv(N), Rest, endEProj \/ endStep \/ endSign,
         UNCHANGED <<ir, registers, allocas, expValue>>
  PROVE  IInv'
<1>1. /\ phase = "typecheck" /\ node = NoExp /\ frames # <<>>
      /\ Top.exp.op \in {"EProj"} \cup Steps \cup Signs
      /\ Top.pos = Len(Top.exp.exps)
  BY DEF endEProj, endStep, endSign, Ending, Resuming
<1>2. PICK ts :
        /\ ts = OperandTypes(Top.exp, PathOf(Pop), type)
        /\ Checked(Top, ts)
        /\ Top.exp \in Exp
        /\ Top.pos >= 1 => /\ resultExpType = ts[Top.pos]
                           /\ isResultExpVariable <=> Place(Top.exp.exps[Top.pos])
        /\ \A k \in 1 .. Top.pos : ts[k] \in DOMAIN types
  BY <1>1, Concluding
<1>3. Top.pos = 1
  BY <1>1, <1>2, ExpParts
<1>4. /\ resultExpType = ts[1] /\ ts[1] \in DOMAIN types
      /\ isResultExpVariable <=> Place(Top.exp.exps[1])
  BY <1>2, <1>3
<1>5. ASSUME Throw
      PROVE  IInv'
  BY <1>5, Stopped DEF Throw, Stop
<1>6. CASE endEProj
  <2>1. PICK t : t = getMember(resultExpType, Top.exp.val)
    OBVIOUS
  <2>2. Top.exp.op = "EProj" /\ (t = null => Throw) /\ (t # null => Return(t, TRUE))
    BY <1>6, <2>1 DEF endEProj, Ending, Resuming
  <2>3. ASSUME t # null
        PROVE  t \in DOMAIN types
    <3>1. /\ Top.exp.val \in DOMAIN types[ts[1]].members
          /\ t = types[ts[1]].members[Top.exp.val]
      BY <1>4, <2>1, <2>3 DEF getMember
    <3>2. t \in 1 .. ts[1] - 1
      BY <1>4, <3>1, ExpressionAssumption
    <3>3. DOMAIN types = 1 .. Len(types) /\ ts[1] \in 1 .. Len(types)
      BY <1>4, ExpressionAssumption
    <3>4. types \in Seq(Range(types)) \/ TRUE
      OBVIOUS
    <3> QED BY <3>2, <3>3
  <2>4. Place(Top.exp)
    BY <2>2 DEF Place
  <2>5. t # null => Rule(Top.exp, ts, t)
    BY <1>4, <2>1, <2>2 DEF Rule, Literals, Steps, Signs, Sums, Orders, Equals, Logic
  <2> QED BY <1>1, <1>2, <1>5, <2>2, <2>3, <2>4, <2>5, Returns
<1>7. ASSUME Top.exp.op \in Steps \cup Signs,
             resultExpType \in Number, Top.exp.op \in Steps => isResultExpVariable,
             Return(resultExpType, FALSE)
      PROVE  IInv'
  <2>1. ~ Place(Top.exp)
    BY <1>7 DEF Place, Steps, Signs
  <2>2. Rule(Top.exp, ts, ts[1])
    BY <1>4, <1>7 DEF Rule, Literals, Steps, Signs, Sums, Orders, Equals, Logic
  <2> QED BY <1>1, <1>2, <1>4, <1>7, <2>1, <2>2, Returns
<1>8. CASE endStep
  <2>1. Top.exp.op \in Steps /\ Top.exp.op \notin Signs
    BY <1>8 DEF endStep, Ending, Resuming, Steps, Signs
  <2> QED BY <1>5, <1>7, <1>8, <2>1 DEF endStep
<1>9. CASE endSign
  <2>1. Top.exp.op \in Signs /\ Top.exp.op \notin Steps
    BY <1>9 DEF endSign, Ending, Resuming, Steps, Signs
  <2> QED BY <1>5, <1>7, <1>9, <2>1 DEF endSign
<1> QED BY <1>6, <1>8, <1>9

(* Between the operands of a binary operator.                              *)
LEMMA SecondSteps ==
  ASSUME NEW N, Inv(N), Rest, secondOperand, UNCHANGED <<ir, registers, allocas, expValue>>
  PROVE  IInv'
<1>1. /\ phase = "typecheck" /\ node = NoExp /\ frames # <<>>
      /\ Top.exp.op \in Binary /\ Top.pos = 1
  BY DEF secondOperand, Resuming
<1>2. /\ Top.exp \in Exp
      /\ resultExpType = type[Append(PathOf(Pop), Top.pos)]
      /\ isResultExpVariable <=> Place(Top.exp.exps[Top.pos])
  BY <1>1, Resumed
<1>3. Top.pos < Len(Top.exp.exps)
  <2>1. Len(Top.exp.exps) = 2
    BY <1>1, <1>2, ExpParts
  <2> QED BY <1>1, <2>1
<1>4. CASE ~ FirstAccepted(Top.exp.op)
  BY <1>4, Stopped DEF secondOperand, Throw, Stop
<1>5. CASE FirstAccepted(Top.exp.op)
  <2>1. NextOperand(resultExpType) /\ GoOn
    BY <1>5 DEF secondOperand
  <2>2. PICK l : l = resultExpType
    OBVIOUS
  <2>3. ASSUME NEW T, Checked(Top, T), T = [k \in 1 .. Top.pos |-> type[Append(PathOf(Pop), k)]]
        PROVE  Checked(Frame(Top.exp, Top.pos + 1, l), T)
    <3>1. PICK f : f = Frame(Top.exp, Top.pos + 1, l)
      OBVIOUS
    <3>2. f.exp = Top.exp /\ f.pos = 2 /\ f.local = l
      BY <1>1, <3>1 DEF Frame
    <3>3. l = T[1]
      BY <1>1, <1>2, <2>2, <2>3
    <3>4. Top.exp.op # "EApp" /\ Top.exp.op # "ECond"
      BY <1>1 DEF Binary, Sums, Orders, Equals, Logic
    <3>5. Top.exp.op \in Sums \cup {"ETwc"} \cup Orders => T[1] \in Number
      BY <1>5, <2>2, <3>3 DEF FirstAccepted
    <3>6. Top.exp.op \in Logic => T[1] = TYPE_BOOL
      <4>1. Top.exp.op \in Logic => isConvertibleTo(resultExpType, TYPE_BOOL)
        BY <1>5 DEF FirstAccepted
      <4> QED BY <2>2, <3>3, <4>1 DEF isConvertibleTo, TYPE_BOOL, TYPE_DOUBLE
    <3>7. Top.exp.op = "EAss" => Place(Top.exp.exps[1])
      <4>1. Top.exp.op = "EAss" => isResultExpVariable
        BY <1>5 DEF FirstAccepted
      <4> QED BY <1>1, <1>2, <4>1
    <3>8. Checked(f, T)
      BY <3>2, <3>3, <3>4, <3>5, <3>6, <3>7 DEF Checked
    <3> QED BY <3>1, <3>8
  <2> QED BY <1>1, <1>3, <2>1, <2>2, <2>3, WentOn
<1> QED BY <1>4, <1>5

(* After the second one.                                                   *)
LEMMA BinarySteps ==
  ASSUME NEW N, Inv(N), Rest,
         endSum \/ endETwc \/ endOrder \/ endEquals \/ endLogic \/ endEAss,
         UNCHANGED <<ir, registers, allocas, expValue>>
  PROVE  IInv'
<1>1. /\ phase = "typecheck" /\ node = NoExp /\ frames # <<>>
      /\ Top.exp.op \in Binary
      /\ Top.pos = Len(Top.exp.exps)
  BY DEF endSum, endETwc, endOrder, endEquals, endLogic, endEAss, Ending, Resuming, Binary
<1>2. PICK ts :
        /\ ts = OperandTypes(Top.exp, PathOf(Pop), type)
        /\ Checked(Top, ts)
        /\ Top.exp \in Exp
        /\ Top.pos >= 1 => /\ resultExpType = ts[Top.pos]
                           /\ isResultExpVariable <=> Place(Top.exp.exps[Top.pos])
        /\ \A k \in 1 .. Top.pos : ts[k] \in DOMAIN types
  BY <1>1, Concluding
<1>3. Top.pos = 2
  BY <1>1, <1>2, ExpParts
<1>4. /\ resultExpType = ts[2] /\ Top.local = ts[1]
      /\ ts[1] \in DOMAIN types /\ ts[2] \in DOMAIN types
      /\ Top.exp.op \in Sums \cup {"ETwc"} \cup Orders => ts[1] \in Number
      /\ Top.exp.op \in Logic => ts[1] = TYPE_BOOL
      /\ Top.exp.op = "EAss" => Place(Top.exp.exps[1])
  <2>1. 1 \in 1 .. Top.pos /\ 2 \in 1 .. Top.pos /\ Top.pos >= 1
    BY <1>3
  <2>2. /\ Top.local = ts[1]
        /\ Top.exp.op \in Sums \cup {"ETwc"} \cup Orders => ts[1] \in Number
        /\ Top.exp.op \in Logic => ts[1] = TYPE_BOOL
        /\ Top.exp.op = "EAss" => Place(Top.exp.exps[1])
    BY <1>1, <1>2, <1>3 DEF Checked
  <2> QED BY <1>2, <1>3, <2>1, <2>2
<1>5. ASSUME Throw
      PROVE  IInv'
  BY <1>5, Stopped DEF Throw, Stop
<1>6. ASSUME NEW t \in DOMAIN types, Rule(Top.exp, ts, t), Return(t, FALSE)
      PROVE  IInv'
  <2>1. ~ Place(Top.exp)
    BY <1>1 DEF Place, Binary, Sums, Orders, Equals, Logic
  <2> QED BY <1>1, <1>2, <1>6, <2>1, Returns
<1>7. /\ TYPE_INT \in DOMAIN types /\ TYPE_DOUBLE \in DOMAIN types /\ TYPE_BOOL \in DOMAIN types
  BY ExpressionAssumption DEF TYPE_INT, TYPE_DOUBLE, TYPE_BOOL
<1>8. CASE endSum
  <2> DEFINE accepted == IF Top.exp.op \in {"ETimes", "EDiv"} THEN Convertible(ts[2], ts[1])
                         ELSE ts[2] \in Number
  <2> DEFINE sumType == CASE Top.exp.op = "ETimes" ->
                               IF isConvertibleTo(ts[2], ts[1]) THEN ts[1] ELSE ts[2]
                          [] Top.exp.op = "EDiv" ->
                               IF ts[1] = TYPE_INT /\ ts[2] = TYPE_INT THEN ts[1] ELSE TYPE_DOUBLE
                          [] Top.exp.op = "EPlus" ->
                               IF ts[2] # ts[1] THEN TYPE_DOUBLE ELSE ts[2]
                          [] Top.exp.op = "EMinus" ->
                               IF TYPE_DOUBLE \in {ts[1], ts[2]} THEN TYPE_DOUBLE ELSE TYPE_INT
  <2>1. /\ Top.exp.op \in Sums
        /\ accepted => Return(sumType, FALSE)
        /\ ~ accepted => Throw
    BY <1>4, <1>8 DEF endSum, Ending, Resuming
  <2>2. ts[1] \in Number
    BY <1>4, <2>1
  <2>3. ASSUME accepted
        PROVE  /\ ts[2] \in Number
               /\ sumType = IF ts[1] = ts[2] THEN ts[1] ELSE TYPE_DOUBLE
    <3>1. ts[2] \in Number
      BY <2>2, <2>3 DEF Convertible, isConvertibleTo, Number
    <3>2. Top.exp.op \in {"ETimes", "EDiv", "EPlus", "EMinus"}
      BY <2>1 DEF Sums
    <3> QED BY <2>2, <3>1, <3>2 DEF isConvertibleTo, Number, TYPE_INT, TYPE_DOUBLE
  <2> HIDE DEF accepted, sumType
  <2>4. accepted => sumType \in DOMAIN types
    BY <1>4, <1>7, <2>3
  <2>5. accepted => Rule(Top.exp, ts, sumType)
    BY <2>1, <2>2, <2>3 DEF Rule, Literals, Steps, Signs, Sums, Orders, Equals, Logic
  <2>6. PICK t : t = sumType
    OBVIOUS
  <2> QED BY <1>5, <1>6, <2>1, <2>4, <2>5, <2>6
<1>9. CASE endETwc
  <2>1. Top.exp.op = "ETwc"
    BY <1>9 DEF endETwc, Ending, Resuming
  <2>2. ts[2] \in Number => Rule(Top.exp, ts, TYPE_INT)
    BY <1>4, <2>1 DEF Rule, Literals, Steps, Signs, Sums, Orders, Equals, Logic
  <2> QED BY <1>4, <1>5, <1>6, <1>7, <1>9, <2>2 DEF endETwc
<1>10. CASE endOrder
  <2>1. Top.exp.op \in Orders
    BY <1>10 DEF endOrder, Ending, Resuming
  <2>2. ts[1] \in Number
    BY <1>4, <2>1
  <2> DEFINE accepted == IF Top.exp.op = "ELtEq" THEN Convertible(ts[2], ts[1]) ELSE ts[2] \in Number
  <2>3. (accepted => Return(TYPE_BOOL, FALSE)) /\ (~ accepted => Throw)
    BY <1>4, <1>10 DEF endOrder
  <2>4. accepted => ts[2] \in Number
    BY <2>2 DEF Convertible, isConvertibleTo, Number
  <2> HIDE DEF accepted
  <2>5. accepted => Rule(Top.exp, ts, TYPE_BOOL)
    BY <2>1, <2>2, <2>4 DEF Rule, Literals, Steps, Signs, Sums, Orders, Equals, Logic
  <2> QED BY <1>5, <1>6, <1>7, <2>3, <2>5
<1>11. CASE endEquals
  <2>1. Top.exp.op \in Equals /\ Return(TYPE_BOOL, FALSE)
    BY <1>11 DEF endEquals, Ending, Resuming
  <2>2. Rule(Top.exp, ts, TYPE_BOOL)
    BY <2>1 DEF Rule, Literals, Steps, Signs, Sums, Orders, Equals, Logic
  <2> QED BY <1>6, <1>7, <2>1, <2>2
<1>12. CASE endLogic
  <2>1. Top.exp.op \in Logic
    BY <1>12 DEF endLogic, Ending, Resuming
  <2>2. isConvertibleTo(ts[2], TYPE_BOOL) => ts[2] = TYPE_BOOL
    BY DEF isConvertibleTo, TYPE_BOOL, TYPE_DOUBLE
  <2>3. isConvertibleTo(ts[2], TYPE_BOOL) => Rule(Top.exp, ts, TYPE_BOOL)
    BY <1>4, <2>1, <2>2 DEF Rule, Literals, Steps, Signs, Sums, Orders, Equals, Logic
  <2> QED BY <1>4, <1>5, <1>6, <1>7, <1>12, <2>3 DEF endLogic
<1>13. CASE endEAss
  <2>1. Top.exp.op = "EAss"
    BY <1>13 DEF endEAss, Ending, Resuming
  <2>2. isConvertibleTo(ts[2], ts[1]) => Rule(Top.exp, ts, ts[1])
    BY <1>4, <2>1 DEF Rule, Literals, Steps, Signs, Sums, Orders, Equals, Logic
  <2> QED BY <1>4, <1>5, <1>6, <1>13, <2>2 DEF endEAss
<1> QED BY <1>8, <1>9, <1>10, <1>11, <1>12, <1>13

(* Ternaries.                                                              *)
LEMMA CondSteps ==
  ASSUME NEW N, Inv(N), Rest, nextECond \/ endECond,
         UNCHANGED <<ir, registers, allocas, expValue>>
  PROVE  IInv'
<1>1. /\ phase = "typecheck" /\ node = NoExp /\ frames # <<>> /\ Top.exp.op = "ECond"
  BY DEF nextECond, endECond, Ending, Resuming
<1>2. /\ Top.exp \in Exp /\ Top.pos \in Nat /\ Top.pos >= 1
      /\ OperandsChecked(Top, PathOf(Pop), Top.pos, N, type)
      /\ resultExpType = type[Append(PathOf(Pop), Top.pos)]
  BY <1>1, Resumed
<1>3. Len(Top.exp.exps) = 3
  BY <1>1, <1>2, ExpParts
<1>4. ASSUME Throw
      PROVE  IInv'
  BY <1>4, Stopped DEF Throw, Stop
<1>5. CASE nextECond
  <2>1. Top.pos < 3
    BY <1>5 DEF nextECond
  <2>2. CASE ~ (Top.pos = 1 => isConvertibleTo(resultExpType, TYPE_BOOL))
    BY <1>4, <1>5, <2>2 DEF nextECond
  <2>3. CASE Top.pos = 1 => isConvertibleTo(resultExpType, TYPE_BOOL)
    <3>1. NextOperand(resultExpType) /\ GoOn
      BY <1>5, <2>3 DEF nextECond
    <3>2. PICK l : l = resultExpType
      OBVIOUS
    <3>3. ASSUME NEW T, Checked(Top, T), T = [k \in 1 .. Top.pos |-> type[Append(PathOf(Pop), k)]]
          PROVE  Checked(Frame(Top.exp, Top.pos + 1, l), T)
      <4>1. PICK f : f = Frame(Top.exp, Top.pos + 1, l)
        OBVIOUS
      <4>2. f.exp = Top.exp /\ f.pos = Top.pos + 1 /\ f.local = l
        BY <4>1 DEF Frame
      <4>3. l = T[Top.pos]
        BY <1>2, <3>2, <3>3
      <4>4. Top.exp.op # "EApp" /\ Top.exp.op \notin Binary
        BY <1>1 DEF Binary, Sums, Orders, Equals, Logic
      <4>5. T[1] = TYPE_BOOL
        <5>1. CASE Top.pos = 1
          BY <2>3, <3>2, <4>3, <5>1 DEF isConvertibleTo, TYPE_BOOL, TYPE_DOUBLE
        <5>2. CASE Top.pos = 2
          BY <1>1, <3>3, <5>2 DEF Checked
        <5> QED BY <1>2, <2>1, <5>1, <5>2
      <4>6. Top.pos + 1 = 3 => l = T[2]
        BY <1>2, <4>3
      <4>7. Checked(f, T)
        BY <4>2, <4>4, <4>5, <4>6 DEF Checked
      <4> QED BY <4>1, <4>7
    <3> QED BY <1>1, <1>3, <2>1, <3>1, <3>2, <3>3, WentOn
  <2> QED BY <2>2, <2>3
<1>6. CASE endECond
  <2>1. Top.pos = Len(Top.exp.exps)
    BY <1>6 DEF endECond, Ending
  <2>2. PICK ts :
          /\ ts = OperandTypes(Top.exp, PathOf(Pop), type)
          /\ Checked(Top, ts)
          /\ Top.pos >= 1 => resultExpType = ts[Top.pos]
          /\ \A k \in 1 .. Top.pos : ts[k] \in DOMAIN types
    BY <1>1, <2>1, Concluding
  <2>3. ts[1] = TYPE_BOOL /\ Top.local = ts[2] /\ resultExpType = ts[3] /\ ts[3] \in DOMAIN types
    <3>1. 3 \in 1 .. Top.pos /\ Top.pos >= 2 /\ Top.pos = 3
      BY <1>3, <2>1
    <3>2. ts[1] = TYPE_BOOL /\ Top.local = ts[2]
      BY <1>1, <2>2, <3>1 DEF Checked
    <3> QED BY <1>2, <2>2, <3>1, <3>2
  <2>4. CASE resultExpType # Top.local
    BY <1>4, <1>6, <2>4 DEF endECond
  <2>5. CASE resultExpType = Top.local
    <3>1. Return(ts[3], FALSE)
      BY <1>6, <2>3, <2>5 DEF endECond
    <3>2. ~ Place(Top.exp)
      BY <1>1 DEF Place
    <3>3. Rule(Top.exp, ts, ts[3])
      BY <1>1, <2>3, <2>5 DEF Rule, Literals, Steps, Signs, Sums, Orders, Equals, Logic
    <3> QED BY <1>1, <2>1, <2>2, <2>3, <3>1, <3>2, <3>3, Returns
  <2> QED BY <2>4, <2>5
<1> QED BY <1>5, <1>6

(* Every step of the typechecker keeps the invariant.                      *)
LEMMA TypecheckSteps ==
  ASSUME NEW N, Inv(N), Rest, tcNext, UNCHANGED <<ir, registers, allocas, expValue>>
  PROVE  IInv'
  BY LeafSteps, CallSteps, OperatorEntered, UnarySteps, SecondSteps, BinarySteps, CondSteps
     DEF tcNext

-----------------------------------------------------------------------------
(* Blocks *)

(* Functions under construction, with instructions from S.                 *)
IRs(S) == [blocks : Seq(Seq(S)), at : Nat]

(* An instruction is appended to the block at the insertion point.         *)
LEMMA Emitted ==
  ASSUME NEW c, IROK(c), NEW inst, Agreed(inst), NEW d, d = Emit(c, inst)
  PROVE  IROK(d) /\ Len(d.blocks) = Len(c.blocks) /\ d.at = c.at
<1>1. PICK S : c \in IRs(S)
  BY DEF IROK, IRs
<1>2. c.at \in 1 .. Len(c.blocks)
  BY DEF IROK
<1> DEFINE R == S \cup {inst}
<1> DEFINE bs == [c.blocks EXCEPT ![c.at] = Append(@, inst)]
<1>3. /\ c.blocks \in Seq(Seq(S)) /\ Len(c.blocks) \in Nat
      /\ \A b \in 1 .. Len(c.blocks) : c.blocks[b] \in Seq(S)
      /\ c.at \in Nat
  BY <1>1 DEF IRs
<1>4. c.blocks \in Seq(Seq(R)) /\ c \in IRs(R)
  BY <1>1, <1>3 DEF IRs
<1>5. PICK new : new = Append(c.blocks[c.at], inst)
  OBVIOUS
<1>6. /\ new \in Seq(R) /\ Len(new) = Len(c.blocks[c.at]) + 1 /\ Len(c.blocks[c.at]) \in Nat
      /\ new[Len(c.blocks[c.at]) + 1] = inst
      /\ \A i \in 1 .. Len(c.blocks[c.at]) : new[i] = c.blocks[c.at][i]
  <2>1. c.blocks[c.at] \in Seq(S) /\ c.blocks[c.at] \in Seq(R)
    BY <1>2, <1>3
  <2> QED BY <1>5, <2>1
<1>7. d = [c EXCEPT !.blocks = bs]
  BY DEF Emit
<1>8. /\ bs \in Seq(Seq(R)) /\ Len(bs) = Len(c.blocks)
      /\ bs[c.at] = new
      /\ \A b \in 1 .. Len(c.blocks) : b # c.at => bs[b] = c.blocks[b]
  BY <1>2, <1>3, <1>4, <1>5, <1>6
<1> HIDE DEF bs, R
<1>9. d.blocks = bs /\ d.at = c.at /\ d \in IRs(R)
  BY <1>4, <1>7, <1>8 DEF IRs
<1>10. ASSUME NEW b \in 1 .. Len(d.blocks), NEW i \in 1 .. Len(d.blocks[b])
       PROVE  Agreed(d.blocks[b][i])
  <2>1. b \in 1 .. Len(c.blocks) /\ \A n \in 1 .. Len(c.blocks[b]) : Agreed(c.blocks[b][n])
    BY <1>8, <1>9 DEF IROK
  <2>2. CASE b # c.at
    BY <1>8, <1>9, <2>1, <2>2
  <2>3. CASE b = c.at
    <3>1. d.blocks[b] = new
      BY <1>8, <1>9, <2>3
    <3>2. CASE i \in 1 .. Len(c.blocks[b])
      BY <1>6, <2>1, <2>3, <3>1, <3>2
    <3>3. CASE i = Len(c.blocks[b]) + 1
      BY <1>6, <2>3, <3>1, <3>3
    <3>4. PICK n : n = Len(c.blocks[b])
      OBVIOUS
    <3>5. n \in Nat /\ i \in 1 .. n + 1
      BY ONLY <1>6, <2>3, <3>1, <3>4, i \in 1 .. Len(d.blocks[b])
    <3>6. i \in 1 .. n \/ i = n + 1
      BY ONLY <3>5
    <3> QED BY ONLY <3>2, <3>3, <3>4, <3>6
  <2> QED BY <2>2, <2>3
<1>11. IROK(d)
  BY <1>2, <1>8, <1>9, <1>10 DEF IROK, IRs
<1> QED BY <1>8, <1>9, <1>11

(* Empty blocks are created.                                               *)
LEMMA Created ==
  ASSUME NEW c, IROK(c), NEW n \in Nat, NEW d, d = CreateBlocks(c, n)
  PROVE  IROK(d) /\ Len(d.blocks) = Len(c.blocks) + n /\ d.at = c.at
<1>1. PICK S : c \in IRs(S)
  BY DEF IROK, IRs
<1>2. c.at \in 1 .. Len(c.blocks)
  BY DEF IROK
<1> DEFINE new == [i \in 1 .. n |-> <<>>]
<1> DEFINE bs == c.blocks \o new
<1>3. new \in Seq(Seq(S)) /\ Len(new) = n /\ \A i \in 1 .. n : new[i] = <<>>
  OBVIOUS
<1>4. d = [c EXCEPT !.blocks = bs]
  BY DEF CreateBlocks
<1> HIDE DEF new
<1>5. c.blocks \in Seq(Seq(S)) /\ Len(c.blocks) \in Nat
  BY <1>1 DEF IRs
<1>6. /\ bs \in Seq(Seq(S))
      /\ Len(bs) = Len(c.blocks) + n
      /\ \A b \in 1 .. Len(c.blocks) + n :
           bs[b] = IF b <= Len(c.blocks) THEN c.blocks[b] ELSE new[b - Len(c.blocks)]
  <2>1. PICK s : s = c.blocks
    OBVIOUS
  <2>2. PICK t : t = new
    OBVIOUS
  <2>3. s \in Seq(Seq(S)) /\ t \in Seq(Seq(S))
    BY <1>3, <1>5, <2>1, <2>2
  <2>4. /\ s \o t \in Seq(Seq(S))
        /\ Len(s \o t) = Len(s) + Len(t)
        /\ \A b \in 1 .. Len(s) + Len(t) :
             (s \o t)[b] = IF b <= Len(s) THEN s[b] ELSE t[b - Len(s)]
    BY ONLY <2>3, ConcatProperties
  <2>5. bs = s \o t /\ Len(t) = n
    BY <1>3, <2>1, <2>2
  <2> HIDE DEF bs
  <2> QED BY ONLY <2>1, <2>2, <2>4, <2>5
<1> HIDE DEF bs
<1>7. d.blocks = bs /\ d.at = c.at /\ d \in IRs(S)
  BY <1>1, <1>4, <1>6 DEF IRs
<1>8. ASSUME NEW b \in 1 .. Len(d.blocks), NEW i \in 1 .. Len(d.blocks[b])
      PROVE  Agreed(d.blocks[b][i])
  <2>1. CASE b <= Len(c.blocks)
    <3>1. b \in 1 .. Len(c.blocks) + n
      BY <1>6, <1>7
    <3>2. b \in 1 .. Len(c.blocks)
      BY <1>5, <2>1, <3>1
    <3>3. d.blocks[b] = c.blocks[b]
      BY <1>6, <1>7, <2>1, <3>1
    <3> QED BY <3>2, <3>3 DEF IROK
  <2>2. CASE ~ (b <= Len(c.blocks))
    <3>1. b - Len(c.blocks) \in 1 .. n /\ d.blocks[b] = new[b - Len(c.blocks)]
      <4>1. b \in 1 .. Len(c.blocks) + n
        BY <1>6, <1>7
      <4>2. b - Len(c.blocks) \in 1 .. n
        BY ONLY <1>5, <2>2, <4>1, n \in Nat
      <4> QED BY <1>6, <1>7, <2>2, <4>1, <4>2
    <3>2. d.blocks[b] = <<>>
      BY <1>3, <3>1
    <3> QED BY <3>2
  <2> QED BY <2>1, <2>2
<1>9. d.at \in 1 .. Len(d.blocks)
  BY <1>2, <1>5, <1>6, <1>7
<1>10. IROK(d)
  BY <1>7, <1>8, <1>9 DEF IROK, IRs
<1> QED BY <1>6, <1>7, <1>10

(* The insertion point is moved to a block there is.                       *)
LEMMA Moved ==
  ASSUME NEW c, IROK(c), NEW b \in 1 .. Len(c.blocks), NEW d, d = SetInsertPoint(c, b)
  PROVE  IROK(d) /\ Len(d.blocks) = Len(c.blocks)
<1>1. PICK S : c \in IRs(S)
  BY DEF IROK, IRs
<1>2. b \in Nat
  OBVIOUS
<1>3. d.blocks = c.blocks /\ d.at = b /\ d \in IRs(S)
  BY <1>1, <1>2 DEF SetInsertPoint, IRs
<1>4. IROK(d)
  BY <1>3 DEF IROK, IRs
<1> QED BY <1>3, <1>4

-----------------------------------------------------------------------------
(* The code generator's stack *)

(* What a handler keeps stays true while blocks are added.                 *)
LEMMA StillKept ==
  ASSUME NEW f, NEW q, Kept(f, q), type' = type, IROK(ir), IROK(ir)',
         Len(ir.blocks) <= Len(ir'.blocks)
  PROVE  Kept(f, q)'
<1>1. DOMAIN ir.blocks \subseteq DOMAIN ir'.blocks
  <2>1. PICK S, R : /\ ir \in [blocks : Seq(Seq(S)), at : Nat]
                    /\ ir' \in [blocks : Seq(Seq(R)), at : Nat]
    BY DEF IROK
  <2>2. ir.blocks \in Seq(Seq(S)) /\ ir'.blocks \in Seq(Seq(R))
    BY <2>1
  <2> QED BY <2>2
<1> QED BY <1>1 DEF Kept, CondTypeAt

(* The typing at a path.                                                   *)
LEMMA TypingAt ==
  ASSUME NEW N, Typing(N, type), NEW p \in DOMAIN N, NEW e, e = N[p]
  PROVE  \E ts :
           /\ ts = OperandTypes(e, p, type)
           /\ e \in Exp /\ p \in Seq(Nat)
           /\ Rule(e, ts, type[p])
           /\ type[p] \in DOMAIN types
           /\ OperandsNoted(N, e, p)
           /\ \A k \in 1 .. Len(e.exps) :
                ts[k] = type[Append(p, k)] /\ ts[k] \in DOMAIN types
<1> DEFINE ts == OperandTypes(e, p, type)
<1>1. /\ e \in Exp /\ p \in Seq(Nat) /\ Rule(e, ts, type[p]) /\ type[p] \in DOMAIN types
      /\ OperandsNoted(N, e, p) /\ DOMAIN type = DOMAIN N
  BY DEF Typing
<1>2. \A k \in 1 .. Len(e.exps) : ts[k] = type[Append(p, k)]
  BY DEF OperandTypes
<1>3. \A k \in 1 .. Len(e.exps) : ts[k] \in DOMAIN types
  BY <1>1, <1>2 DEF OperandsNoted, Typing
<1> HIDE DEF ts
<1>4. \E us : us = ts
  OBVIOUS
<1> QED BY <1>1, <1>2, <1>3, <1>4 DEF ts

(* The handler on top, resuming.                                           *)
LEMMA GenResumed ==
  ASSUME NEW N, Inv(N), phase = "codegen", node = NoExp, frames # <<>>
  PROVE  \E ts :
           /\ PathOf(Pop) \in DOMAIN N /\ N[PathOf(Pop)] = Top.exp
           /\ Rule(Top.exp, ts, type[PathOf(Pop)])
           /\ type[PathOf(Pop)] \in DOMAIN types
           /\ Top.exp \in Exp /\ Top.pos \in Nat /\ Top.pos <= Len(Top.exp.exps)
           /\ Top.exp.op # "EApp" => Top.pos >= 1
           /\ Kept(Top, PathOf(Pop))
           /\ OperandsNoted(N, Top.exp, PathOf(Pop))
           /\ \A k \in 1 .. Len(Top.exp.exps) : ts[k] = OperandType(k) /\ ts[k] \in DOMAIN types
           /\ Top.pos >= 1 => expValue.type = ts[Top.pos]
           /\ OnPath(exp, Pop, NoExp)
           /\ Len(Pop) = Len(frames) - 1
           /\ \A i \in 1 .. Len(Pop) : Pop[i] = frames[i] /\ i \in 1 .. Len(frames)
           /\ \A i \in 1 .. Len(Pop) : PathTo(Pop, i - 1) = PathTo(frames, i - 1)
<1>1. OnPath(exp, frames, NoExp) /\ Typing(N, type) /\ Generation(N)
  BY DEF Inv
<1>2. /\ OnPath(exp, Pop, NoExp)
      /\ Len(Pop) = Len(frames) - 1
      /\ \A i \in 1 .. Len(Pop) : Pop[i] = frames[i]
      /\ \A i \in 0 .. Len(Pop) : PathTo(Pop, i) = PathTo(frames, i)
      /\ PathTo(Pop, Len(Pop)) = PathOf(Pop)
      /\ Len(frames) \in 1 .. Len(frames)
      /\ PathOf(frames) = Append(PathOf(Pop), Top.pos)
  BY <1>1, Popped DEF Pop, Top
<1>3. Len(Pop) \in Nat /\ Len(Pop) \in 0 .. Len(Pop)
  BY <1>2, Positions
<1>4. PathTo(frames, Len(frames) - 1) = PathOf(Pop)
  BY <1>2, <1>3
<1>5. PathOf(Pop) \in DOMAIN N /\ N[PathOf(Pop)] = Top.exp /\ Kept(Top, PathOf(Pop))
  BY <1>1, <1>2, <1>4 DEF Generation, Top
<1>6. PICK ts :
        /\ Top.exp \in Exp
        /\ Rule(Top.exp, ts, type[PathOf(Pop)])
        /\ type[PathOf(Pop)] \in DOMAIN types
        /\ OperandsNoted(N, Top.exp, PathOf(Pop))
        /\ \A k \in 1 .. Len(Top.exp.exps) :
             ts[k] = type[Append(PathOf(Pop), k)] /\ ts[k] \in DOMAIN types
  BY <1>1, <1>5, TypingAt
<1>7. Top.pos \in 0 .. Len(Top.exp.exps) /\ (Top.exp.op # "EApp" => Top.pos >= 1)
  BY <1>1, <1>2 DEF OnPath, Top
<1>8. Top.pos \in Nat /\ Top.pos <= Len(Top.exp.exps)
  BY <1>6, <1>7, ExpParts
<1>9. ASSUME Top.pos >= 1
      PROVE  expValue.type = ts[Top.pos]
  <2>1. expValue.type = type[PathOf(frames)]
    BY <1>1, <1>9 DEF Generation, HasReturned, Returned
  <2>2. Top.pos \in 1 .. Len(Top.exp.exps)
    BY <1>6, <1>8, <1>9, ExpParts
  <2> QED BY <1>2, <1>6, <2>1, <2>2
<1>10. /\ \A k \in 1 .. Len(Top.exp.exps) : ts[k] = OperandType(k)
       /\ \A i \in 1 .. Len(Pop) : i \in 1 .. Len(frames) /\ i - 1 \in 0 .. Len(Pop)
  BY <1>2, <1>3, <1>6 DEF OperandType, Operand
<1> QED BY <1>2, <1>5, <1>6, <1>7, <1>8, <1>9, <1>10

(* The node that is entered next.                                          *)
LEMMA GenEntering ==
  ASSUME NEW N, Inv(N), phase = "codegen", node # NoExp
  PROVE  \E ts :
           /\ PathOf(frames) \in DOMAIN N /\ N[PathOf(frames)] = node
           /\ node \in Exp
           /\ Rule(node, ts, type[PathOf(frames)])
           /\ type[PathOf(frames)] \in DOMAIN types
           /\ OperandsNoted(N, node, PathOf(frames))
<1>1. Typing(N, type) /\ PathOf(frames) \in DOMAIN N /\ N[PathOf(frames)] = node
  BY DEF Inv, Generation
<1> QED BY <1>1, TypingAt

(* What a step of the code generator leaves behind.                        *)
Grown ==
  /\ UNCHANGED annotated
  /\ IROK(ir)'
  /\ Len(ir.blocks) <= Len(ir'.blocks)
  /\ registers' \in Nat /\ allocas' \in Nat

(* It follows for the invariant when the stack is in order.                *)
LEMMA GenKept ==
  ASSUME NEW N, Inv(N), Rest, phase = "codegen", Grown,
         NEW fr, NEW nd, frames' = fr, node' = nd,
         OnPath(exp, fr, nd),
         \A i \in 1 .. Len(fr) :
           /\ PathTo(fr, i - 1) \in DOMAIN N
           /\ N[PathTo(fr, i - 1)] = fr[i].exp
           /\ Kept(fr[i], PathTo(fr, i - 1))',
         nd # NoExp => PathOf(fr) \in DOMAIN N /\ N[PathOf(fr)] = nd,
         IsTerm(expValue'), expValue'.type \in DOMAIN types \cup {null},
         HasReturned' => Returned(expValue', N[PathOf(fr)], PathOf(fr), type)
  PROVE  IInv'
<1>1. /\ phase' = "codegen" /\ exp' = exp /\ rootParent' = rootParent
      /\ resultExpType' = resultExpType /\ isResultExpVariable' = isResultExpVariable
      /\ type' = type
  BY DEF Grown, annotated, result
<1>2. Generation(N)'
  <2>1. <<>> \in DOMAIN N /\ N[<<>>] = exp
    BY DEF Inv, Generation
  <2>2. ASSUME NEW i \in 1 .. Len(frames')
        PROVE  /\ PathTo(frames', i - 1) \in DOMAIN N
               /\ N[PathTo(frames', i - 1)] = frames'[i].exp
               /\ Kept(frames[i], PathTo(frames, i - 1))'
    <3>1. PICK f : f = fr[i]
      OBVIOUS
    <3>2. PICK q : q = PathTo(fr, i - 1)
      OBVIOUS
    <3>3. Kept(f, q)'
      BY <3>1, <3>2
    <3>4. frames'[i] = f /\ PathTo(frames', i - 1) = q
      BY <3>1, <3>2
    <3>5. Kept(frames[i], PathTo(frames, i - 1))'
      BY <3>3, <3>4 DEF Kept, CondTypeAt
    <3> QED BY <3>5
  <2> QED BY <1>1, <2>1, <2>2 DEF Generation
<1>3. Inv(N)'
  BY <1>1, <1>2 DEF Inv
<1>4. Rest'
  BY <1>1 DEF Rest, Grown
<1> QED BY <1>3, <1>4 DEF IInv

(* Handlers that stay on the stack keep what they keep.                    *)
LEMMA GenBelow ==
  ASSUME NEW N, Inv(N), Rest, phase = "codegen", Grown, NEW i \in 1 .. Len(frames)
  PROVE  /\ PathTo(frames, i - 1) \in DOMAIN N
         /\ N[PathTo(frames, i - 1)] = frames[i].exp
         /\ \A f, q : f = frames[i] /\ q = PathTo(frames, i - 1) => Kept(f, q)'
<1>1. /\ PathTo(frames, i - 1) \in DOMAIN N
      /\ N[PathTo(frames, i - 1)] = frames[i].exp
      /\ Kept(frames[i], PathTo(frames, i - 1))
  BY DEF Inv, Generation
<1>2. ASSUME NEW f, NEW q, f = frames[i], q = PathTo(frames, i - 1)
      PROVE  Kept(f, q)'
  <2>1. Kept(f, q)
    BY <1>1, <1>2
  <2>2. type' = type /\ IROK(ir) /\ IROK(ir)' /\ Len(ir.blocks) <= Len(ir'.blocks)
    BY DEF Grown, annotated, result, Rest
  <2> QED BY ONLY <2>1, <2>2, StillKept
<1> QED BY <1>1, <1>2

(* A node without operands gets its value.                                 *)
LEMMA GenFinished ==
  ASSUME NEW N, Inv(N), Rest, phase = "codegen", node # NoExp, Grown,
         frames' = frames, node' = NoExp,
         IsTerm(expValue'), Returned(expValue', node, PathOf(frames), type)
  PROVE  IInv'
<1>1. PICK fr : fr = frames
  OBVIOUS
<1>2. OnPath(exp, frames, node) /\ \A i \in 1 .. Len(frames) : frames[i].pos >= 1
  BY DEF Inv, OnPath
<1>3. OnPath(exp, fr, NoExp)
  BY <1>1, <1>2 DEF OnPath
<1>4. ASSUME NEW i \in 1 .. Len(fr)
      PROVE  /\ PathTo(fr, i - 1) \in DOMAIN N
             /\ N[PathTo(fr, i - 1)] = fr[i].exp
             /\ Kept(fr[i], PathTo(fr, i - 1))'
  <2>1. i \in 1 .. Len(frames)
    BY <1>1
  <2> QED BY <1>1, <2>1, GenBelow
<1>5. expValue'.type \in DOMAIN types /\ N[PathOf(fr)] = node
  BY <1>1, GenEntering DEF Returned
<1> QED BY <1>1, <1>3, <1>4, <1>5, GenKept

(* The handler on top gets its value.                                      *)
LEMMA GenYielded ==
  ASSUME NEW N, Inv(N), Rest, phase = "codegen", node = NoExp, frames # <<>>, Grown,
         frames' = Pop, node' = NoExp,
         IsTerm(expValue'), Returned(expValue', Top.exp, PathOf(Pop), type)
  PROVE  IInv'
<1>1. PICK fr : fr = Pop
  OBVIOUS
<1>2. /\ type[PathOf(Pop)] \in DOMAIN types /\ N[PathOf(Pop)] = Top.exp
      /\ OnPath(exp, Pop, NoExp)
      /\ \A i \in 1 .. Len(Pop) : Pop[i] = frames[i] /\ i \in 1 .. Len(frames)
      /\ \A i \in 1 .. Len(Pop) : PathTo(Pop, i - 1) = PathTo(frames, i - 1)
  BY GenResumed
<1>3. ASSUME NEW i \in 1 .. Len(fr)
      PROVE  /\ PathTo(fr, i - 1) \in DOMAIN N
             /\ N[PathTo(fr, i - 1)] = fr[i].exp
             /\ Kept(fr[i], PathTo(fr, i - 1))'
  <2>1. i \in 1 .. Len(frames) /\ fr[i] = frames[i] /\ PathTo(fr, i - 1) = PathTo(frames, i - 1)
    BY <1>1, <1>2
  <2> QED BY <2>1, GenBelow
<1>4. expValue'.type \in DOMAIN types /\ N[PathOf(fr)] = Top.exp
  BY <1>1, <1>2 DEF Returned
<1> QED BY <1>1, <1>2, <1>3, <1>4, GenKept

(* What is no comparison has a value of the type that is noted.            *)
LEMMA Uncompared ==
  ASSUME NEW e, e.op \notin Orders \cup Equals \cup {"ETwc"}, NEW q, NEW T, NEW v, v.type = T[q]
  PROVE  Returned(v, e, q, T)
BY DEF Returned, Compares

(* A handler is entered.                                                   *)
LEMMA GenEntered ==
  ASSUME NEW N, Inv(N), Rest, phase = "codegen", node # NoExp, Grown, expValue' = expValue,
         NEW f, NEW nd2, FirstFrame(f, node, nd2),
         frames' = Append(frames, f), node' = nd2,
         \A q : Kept(f, q)'
  PROVE  IInv'
<1>1. PICK fr : fr = Append(frames, f)
  OBVIOUS
<1>2. /\ OnPath(exp, frames, node) /\ node \in Exp
      /\ PathOf(frames) \in DOMAIN N /\ N[PathOf(frames)] = node
      /\ OperandsNoted(N, node, PathOf(frames))
  BY GenEntering DEF Inv
<1>3. /\ OnPath(exp, fr, nd2)
      /\ Len(fr) = Len(frames) + 1
      /\ \A i \in 1 .. Len(frames) : fr[i] = frames[i]
      /\ fr[Len(frames) + 1] = f
      /\ \A i \in 0 .. Len(frames) : PathTo(fr, i) = PathTo(frames, i)
      /\ PathTo(frames, Len(frames)) = PathOf(frames)
      /\ PathOf(fr) = Append(PathOf(frames), f.pos)
  BY ONLY <1>1, <1>2, node # NoExp, FirstFrame(f, node, nd2), Pushed
<1>4. Len(frames) \in Nat
  BY <1>2, Positions
<1>5. f.exp = node /\ f.pos \in 0 .. Len(node.exps)
      /\ (nd2 # NoExp => f.pos \in 1 .. Len(node.exps) /\ nd2 = node.exps[f.pos])
      /\ (nd2 = NoExp => f.pos = 0)
  <2>1. Len(node.exps) \in Nat /\ \A k \in 1 .. Len(node.exps) : node.exps[k] \in Exp
    BY <1>2, ExpParts
  <2> QED BY <2>1, ExpressionAssumption DEF FirstFrame
<1>6. ASSUME NEW i \in 1 .. Len(fr)
      PROVE  /\ PathTo(fr, i - 1) \in DOMAIN N
             /\ N[PathTo(fr, i - 1)] = fr[i].exp
             /\ Kept(fr[i], PathTo(fr, i - 1))'
  <2>1. CASE i \in 1 .. Len(frames)
    <3>1. fr[i] = frames[i] /\ PathTo(fr, i - 1) = PathTo(frames, i - 1)
      <4>1. i - 1 \in 0 .. Len(frames)
        BY <1>4, <2>1
      <4> QED BY <1>3, <2>1, <4>1
    <3> QED BY <2>1, <3>1, GenBelow
  <2>2. CASE i \notin 1 .. Len(frames)
    <3>1. i = Len(frames) + 1 /\ i - 1 = Len(frames) /\ Len(frames) \in 0 .. Len(frames)
      BY <1>3, <1>4, <2>2
    <3>2. fr[i] = f /\ PathTo(fr, i - 1) = PathOf(frames)
      BY <1>3, <3>1
    <3> QED BY <1>2, <1>5, <3>2
  <2> QED BY <2>1, <2>2
<1>7. nd2 # NoExp => PathOf(fr) \in DOMAIN N /\ N[PathOf(fr)] = nd2
  BY <1>2, <1>3, <1>5 DEF OperandsNoted
<1>8. ~ HasReturned'
  <2>1. fr # <<>> /\ fr[Len(fr)].pos = f.pos
    BY <1>3, <1>4
  <2> QED BY <1>1, <1>5, <2>1 DEF HasReturned, Top
<1>9. IsTerm(expValue') /\ expValue'.type \in DOMAIN types \cup {null}
  BY DEF Rest
<1> QED BY <1>1, <1>3, <1>6, <1>7, <1>8, <1>9, GenKept

(* The handler on top visits its next operand.                             *)
LEMMA GenWentOn ==
  ASSUME NEW N, Inv(N), Rest, phase = "codegen", node = NoExp, frames # <<>>, Grown,
         expValue' = expValue, Top.pos < Len(Top.exp.exps),
         NEW l, NextOperand(l),
         \A f, q : f = Frame(Top.exp, Top.pos + 1, l) /\ q = PathOf(Pop) => Kept(f, q)'
  PROVE  IInv'
<1>1. PICK f : f = Frame(Top.exp, Top.pos + 1, l)
  OBVIOUS
<1>2. PICK fr : fr = Append(Pop, f)
  OBVIOUS
<1>3. PICK q : q = PathOf(Pop)
  OBVIOUS
<1>4. f.exp = Top.exp /\ f.pos = Top.pos + 1
  BY <1>1 DEF Frame
<1>5. /\ OnPath(exp, frames, NoExp)
      /\ q \in DOMAIN N /\ N[q] = Top.exp
      /\ OperandsNoted(N, Top.exp, q) /\ Top.pos \in Nat /\ Top.exp \in Exp
      /\ Kept(f, q)'
  <2>1. N[q] = Top.exp
    <3>1. OnPath(exp, frames, NoExp) /\ Generation(N)
      BY DEF Inv
    <3>2. /\ Len(frames) \in 1 .. Len(frames)
          /\ Len(Pop) = Len(frames) - 1 /\ PathTo(Pop, Len(Pop)) = PathOf(Pop)
          /\ \A i \in 0 .. Len(Pop) : PathTo(Pop, i) = PathTo(frames, i)
          /\ OnPath(exp, Pop, NoExp)
      BY <3>1, Popped DEF Pop
    <3>3. Len(Pop) \in 0 .. Len(Pop)
      BY <3>2, Positions
    <3>4. PathTo(frames, Len(frames) - 1) = q
      BY <1>3, <3>2, <3>3
    <3> QED BY <3>1, <3>2, <3>4 DEF Generation, Top
  <2> QED BY <1>1, <1>3, <2>1, GenResumed DEF Inv
<1>6. /\ OnPath(exp, fr, f.exp.exps[f.pos])
      /\ f.exp.exps[f.pos] # NoExp
      /\ Len(fr) = Len(frames)
      /\ Len(frames) \in 1 .. Len(frames)
      /\ \A i \in 1 .. Len(frames) - 1 : fr[i] = frames[i]
      /\ fr[Len(frames)] = f
      /\ \A i \in 0 .. Len(frames) - 1 : PathTo(fr, i) = PathTo(frames, i)
      /\ PathTo(frames, Len(frames) - 1) = PathOf(Pop)
      /\ PathOf(fr) = Append(PathOf(Pop), f.pos)
  <2> DEFINE gr == SubSeq(frames, 1, Len(frames) - 1)
  <2> DEFINE hr == Append(gr, f)
  <2>1. /\ f.exp = frames[Len(frames)].exp
        /\ f.pos = frames[Len(frames)].pos + 1
        /\ frames[Len(frames)].pos < Len(f.exp.exps)
    BY <1>4 DEF Top
  <2>2. /\ OnPath(exp, hr, f.exp.exps[f.pos])
        /\ f.exp.exps[f.pos] # NoExp
        /\ Len(hr) = Len(frames)
        /\ Len(frames) \in 1 .. Len(frames)
        /\ \A i \in 1 .. Len(frames) - 1 : hr[i] = frames[i]
        /\ hr[Len(frames)] = f
        /\ \A i \in 0 .. Len(frames) - 1 : PathTo(hr, i) = PathTo(frames, i)
        /\ PathTo(frames, Len(frames) - 1) = PathOf(gr)
        /\ PathOf(hr) = Append(PathOf(gr), f.pos)
    BY ONLY frames # <<>>, <1>5, <2>1, Advanced
  <2>3. fr = hr /\ gr = Pop
    BY <1>2 DEF Pop
  <2> HIDE DEF gr, hr
  <2> QED BY <2>2, <2>3
<1>7. frames' = fr /\ node' = f.exp.exps[f.pos]
  BY <1>1, <1>2, <1>4 DEF NextOperand
<1>8. ASSUME NEW i \in 1 .. Len(fr)
      PROVE  /\ PathTo(fr, i - 1) \in DOMAIN N
             /\ N[PathTo(fr, i - 1)] = fr[i].exp
             /\ Kept(fr[i], PathTo(fr, i - 1))'
  <2>1. CASE i # Len(fr)
    <3>1. i \in 1 .. Len(frames) - 1 /\ i \in 1 .. Len(frames) /\ i - 1 \in 0 .. Len(frames) - 1
      BY <1>6, <2>1
    <3>2. fr[i] = frames[i] /\ PathTo(fr, i - 1) = PathTo(frames, i - 1)
      BY <1>6, <3>1
    <3> QED BY <3>1, <3>2, GenBelow
  <2>2. CASE i = Len(fr)
    <3>1. fr[i] = f /\ PathTo(fr, i - 1) = q
      <4>1. Len(frames) - 1 \in 0 .. Len(frames) - 1
        BY <1>6
      <4> QED BY <1>3, <1>6, <2>2, <4>1
    <3> QED BY <1>4, <1>5, <3>1
  <2> QED BY <2>1, <2>2
<1>9. PathOf(fr) \in DOMAIN N /\ N[PathOf(fr)] = f.exp.exps[f.pos]
  <2>1. f.pos \in 1 .. Len(Top.exp.exps)
    BY <1>4, <1>5, ExpParts
  <2> QED BY <1>3, <1>4, <1>5, <1>6, <2>1 DEF OperandsNoted
<1>10. ~ HasReturned'
  BY <1>6, <1>7 DEF HasReturned
<1>11. IsTerm(expValue') /\ expValue'.type \in DOMAIN types \cup {null}
  BY DEF Rest
<1>12. PICK nd2 : nd2 = f.exp.exps[f.pos]
  OBVIOUS
<1> QED BY <1>6, <1>7, <1>8, <1>9, <1>10, <1>11, <1>12, GenKept

-----------------------------------------------------------------------------
(* The parts of types and the places of assignments *)

(* The types before a type.                                                *)
Earlier == [t \in DOMAIN types |-> {u \in DOMAIN types : u < t}]

LEMMA EarlierLower ==
  \E h : /\ h \in [DOMAIN types -> Nat]
         /\ Earlier \in [DOMAIN types -> SUBSET DOMAIN types]
         /\ Lower(DOMAIN types, h, Earlier)
<1>1. PICK h : h = [t \in DOMAIN types |-> t]
  OBVIOUS
<1>2. DOMAIN types \subseteq Nat
  BY ExpressionAssumption
<1>3. h \in [DOMAIN types -> Nat]
  BY <1>1, <1>2
<1>4. Lower(DOMAIN types, h, Earlier)
  BY <1>1 DEF Lower, Earlier
<1> QED BY <1>3, <1>4 DEF Earlier

(* The recursive definition of Parts has a solution.                       *)
TypeParts == [path : Seq(Id), type : DOMAIN types]

PartsBy(t, below) ==
  IF t <= TYPE_VOID THEN {[path |-> <<>>, type |-> t]}
  ELSE UNION {{[path |-> <<m>> \o p.path, type |-> p.type] : p \in below[types[t].members[m]]} :
              m \in DOMAIN types[t].members}

LEMMA PartsByRange ==
  ASSUME NEW t \in DOMAIN types, NEW g \in [Earlier[t] -> SUBSET TypeParts]
  PROVE  PartsBy(t, g) \in SUBSET TypeParts
<1>1. CASE t <= TYPE_VOID
  <2>1. [path |-> <<>>, type |-> t] \in TypeParts
    BY DEF TypeParts
  <2> QED BY <1>1, <2>1 DEF PartsBy
<1>2. CASE ~ (t <= TYPE_VOID)
  <2>1. ASSUME NEW x \in PartsBy(t, g)
        PROVE  x \in TypeParts
    <3>1. PICK m \in DOMAIN types[t].members :
            \E p \in g[types[t].members[m]] : x = [path |-> <<m>> \o p.path, type |-> p.type]
      BY <1>2, <2>1 DEF PartsBy
    <3>2. PICK u : u = types[t].members[m]
      OBVIOUS
    <3>3. PICK p \in g[u] : x = [path |-> <<m>> \o p.path, type |-> p.type]
      BY <3>1, <3>2
    <3>4. m \in Id /\ u \in Earlier[t]
      BY <3>2, MemberFacts DEF Earlier
    <3>5. p \in TypeParts
      BY <3>4
    <3>6. p.path \in Seq(Id) /\ p.type \in DOMAIN types
      BY <3>5 DEF TypeParts
    <3>7. <<m>> \o p.path \in Seq(Id)
      BY <3>4, <3>6
    <3> QED BY <3>3, <3>6, <3>7 DEF TypeParts
  <2> QED BY <2>1
<1> QED BY <1>1, <1>2

LEMMA SameParts ==
  ASSUME NEW t \in DOMAIN types, NEW f, NEW g, \A u \in Earlier[t] : f[u] = g[u]
  PROVE  PartsBy(t, f) = PartsBy(t, g)
<1>1. ASSUME NEW m \in DOMAIN types[t].members
      PROVE  f[types[t].members[m]] = g[types[t].members[m]]
  BY MemberFacts DEF Earlier
<1> DEFINE of(F, m) ==
  {[path |-> <<m>> \o p.path, type |-> p.type] : p \in F[types[t].members[m]]}
<1>2. \A m \in DOMAIN types[t].members : of(f, m) = of(g, m)
  BY <1>1
<1>3. /\ PartsBy(t, f) = IF t <= TYPE_VOID THEN {[path |-> <<>>, type |-> t]}
                         ELSE UNION {of(f, m) : m \in DOMAIN types[t].members}
      /\ PartsBy(t, g) = IF t <= TYPE_VOID THEN {[path |-> <<>>, type |-> t]}
                         ELSE UNION {of(g, m) : m \in DOMAIN types[t].members}
  BY DEF PartsBy
<1> HIDE DEF of
<1>4. {of(f, m) : m \in DOMAIN types[t].members} = {of(g, m) : m \in DOMAIN types[t].members}
  BY <1>2
<1> QED BY <1>3, <1>4

LEMMA PartsAre ==
  \A t \in DOMAIN types : Parts[t] \in SUBSET TypeParts /\ Parts[t] = PartsBy(t, Parts)
<1>1. PICK h \in [DOMAIN types -> Nat] :
        /\ Earlier \in [DOMAIN types -> SUBSET DOMAIN types]
        /\ Lower(DOMAIN types, h, Earlier)
  BY EarlierLower
<1>2. PICK step : step = [t \in DOMAIN types |->
                            [g \in [Earlier[t] -> SUBSET TypeParts] |-> PartsBy(t, g)]]
  OBVIOUS
<1>3. \A t \in DOMAIN types : \A g \in [Earlier[t] -> SUBSET TypeParts] :
        step[t][g] = PartsBy(t, g) /\ step[t][g] \in SUBSET TypeParts
  BY <1>2, PartsByRange
<1>4. PICK f \in [DOMAIN types -> SUBSET TypeParts] : Computes(f, DOMAIN types, Earlier, step)
  BY ONLY <1>1, <1>3, TreeFunction
<1>5. ASSUME NEW t \in DOMAIN types
      PROVE  f[t] = PartsBy(t, f)
  <2>1. PICK g : g = [u \in Earlier[t] |-> f[u]]
    OBVIOUS
  <2>2. g \in [Earlier[t] -> SUBSET TypeParts]
    BY <1>1, <2>1
  <2>3. f[t] = step[t][g]
    BY <1>4, <2>1 DEF Computes
  <2>4. PartsBy(t, g) = PartsBy(t, f)
    BY <2>1, SameParts
  <2> QED BY <1>3, <2>2, <2>3, <2>4
<1>6. f = [t \in DOMAIN types |-> PartsBy(t, f)]
  BY <1>5
<1> DEFINE sol(F) == F = [t \in DOMAIN types |-> PartsBy(t, F)]
<1>7. Parts = CHOOSE F : sol(F)
  BY DEF Parts, PartsBy
<1>8. sol(f)
  BY <1>6
<1> HIDE DEF sol
<1>9. sol(Parts)
  BY <1>7, <1>8
<1>10. Parts = [t \in DOMAIN types |-> PartsBy(t, Parts)]
  BY <1>9 DEF sol
<1>11. PICK P : P = {t \in DOMAIN types : Parts[t] \in SUBSET TypeParts}
  OBVIOUS
<1>12. Hereditary(DOMAIN types, Earlier, P)
  <2>1. ASSUME NEW t \in DOMAIN types, Earlier[t] \subseteq P
        PROVE  t \in P
    <3>1. PICK g : g = [u \in Earlier[t] |-> Parts[u]]
      OBVIOUS
    <3>2. g \in [Earlier[t] -> SUBSET TypeParts]
      BY <1>11, <2>1, <3>1
    <3>3. PartsBy(t, g) = PartsBy(t, Parts)
      BY <3>1, SameParts
    <3> QED BY <1>10, <1>11, <3>2, <3>3, PartsByRange
  <2> QED BY <2>1 DEF Hereditary
<1>13. DOMAIN types \subseteq P
  BY ONLY <1>1, <1>12, TreeInduction
<1> QED BY <1>10, <1>11, <1>13

(* A part is where its path leads.                                         *)
LEMMA PartsLead ==
  ASSUME NEW t \in DOMAIN types, NEW p \in Parts[t]
  PROVE  Leads(t, p.path, p.type) /\ p.type \in DOMAIN types
<1>1. PICK h \in [DOMAIN types -> Nat] :
        /\ Earlier \in [DOMAIN types -> SUBSET DOMAIN types]
        /\ Lower(DOMAIN types, h, Earlier)
  BY EarlierLower
<1>2. PICK P : P = {u \in DOMAIN types : \A x \in Parts[u] : Leads(u, x.path, x.type)}
  OBVIOUS
<1>3. ASSUME NEW u \in DOMAIN types, Earlier[u] \subseteq P, NEW x \in Parts[u]
      PROVE  Leads(u, x.path, x.type)
  <2>1. x \in PartsBy(u, Parts)
    BY PartsAre
  <2>2. CASE u <= TYPE_VOID
    <3>1. x = [path |-> <<>>, type |-> u]
      BY <2>1, <2>2 DEF PartsBy
    <3> QED BY <3>1, LeadsNowhere
  <2>3. CASE ~ (u <= TYPE_VOID)
    <3>1. PICK m \in DOMAIN types[u].members :
            \E y \in Parts[types[u].members[m]] : x = [path |-> <<m>> \o y.path, type |-> y.type]
      BY <2>1, <2>3 DEF PartsBy
    <3>2. PICK v : v = types[u].members[m]
      OBVIOUS
    <3>3. PICK y \in Parts[v] : x = [path |-> <<m>> \o y.path, type |-> y.type]
      BY <3>1, <3>2
    <3>4. m \in Id /\ v \in Earlier[u] /\ v = getMember(u, m)
      BY <3>2, MemberFacts DEF Earlier
    <3>5. Leads(v, y.path, y.type) /\ v \in DOMAIN types
      BY <1>2, <1>3, <3>4
    <3>6. y.path \in Seq(Id)
      BY <3>5, PartsAre DEF TypeParts
    <3>7. Leads(u, <<m>> \o y.path, y.type)
      BY <3>4, <3>5, <3>6, LeadsFrom
    <3> QED BY <3>3, <3>7
  <2> QED BY <2>2, <2>3
<1>4. Hereditary(DOMAIN types, Earlier, P)
  BY <1>2, <1>3 DEF Hereditary
<1>5. DOMAIN types \subseteq P
  BY ONLY <1>1, <1>4, TreeInduction
<1>6. p \in TypeParts
  BY PartsAre
<1> QED BY <1>2, <1>5, <1>6 DEF TypeParts

(* A projection takes a member of its operand.                             *)
LEMMA ProjectionFacts ==
  ASSUME NEW e \in Exp, e.op = "EProj"
  PROVE  e.val \in Id /\ e.exps[1] \in Exp /\ e.exps[1] \in Operands[e] /\ 1 \in 1 .. Len(e.exps)
<1>1. Len(e.exps) = 1 /\ e.exps[1] \in Exp
  BY ExpParts
<1>2. e.exps[1] \in Operands[e]
  BY <1>1 DEF Operands
<1>3. e \in Expression
  BY ExpressionAssumption
<1>4. e.val \in Id
  BY <1>3 DEF Expression, Node, Steps, Signs, Binary, Sums, Orders, Equals, Logic
<1> QED BY <1>1, <1>2, <1>4

(* The recursive definitions of Root and Chain have solutions.             *)
LEMMA RootIs ==
  \A e \in Exp : Root[e] = IF e.op = "EProj" THEN Root[e.exps[1]] ELSE e
<1> DEFINE by(e, F) == IF e.op = "EProj" THEN F[e.exps[1]] ELSE e
<1>1. PICK step : step = [e \in Exp |-> [g \in [Operands[e] -> Exp] |-> by(e, g)]]
  OBVIOUS
<1>2. \A e \in Exp : \A g \in [Operands[e] -> Exp] :
        step[e][g] = by(e, g) /\ step[e][g] \in Exp
  BY <1>1, ProjectionFacts
<1>3. PICK f \in [Exp -> Exp] : Computes(f, Exp, Operands, step)
  BY ONLY <1>2, OperandsLower, TreeFunction
<1>4. ASSUME NEW e \in Exp
      PROVE  f[e] = by(e, f)
  <2>1. PICK g : g = [k \in Operands[e] |-> f[k]]
    OBVIOUS
  <2>2. g \in [Operands[e] -> Exp]
    BY <2>1, OperandsLower
  <2>3. f[e] = step[e][g]
    BY <1>3, <2>1 DEF Computes
  <2>4. by(e, g) = by(e, f)
    BY <2>1, ProjectionFacts
  <2> QED BY <1>2, <2>2, <2>3, <2>4
<1> DEFINE sol(F) == F = [e \in Exp |-> by(e, F)]
<1>5. Root = CHOOSE F : sol(F)
  BY DEF Root
<1> HIDE DEF by
<1>6. sol(f)
  BY <1>3, <1>4
<1> HIDE DEF sol
<1>7. sol(Root)
  BY <1>5, <1>6
<1> QED BY <1>7 DEF sol, by

LEMMA ChainIs ==
  \A e \in Exp :
    /\ Chain[e] \in Seq(Id)
    /\ Chain[e] = IF e.op = "EProj" THEN Append(Chain[e.exps[1]], e.val) ELSE <<>>
<1> DEFINE by(e, F) == IF e.op = "EProj" THEN Append(F[e.exps[1]], e.val) ELSE <<>>
<1>0. ASSUME NEW e \in Exp, NEW g \in [Operands[e] -> Seq(Id)]
      PROVE  by(e, g) \in Seq(Id)
  <2>1. CASE e.op = "EProj"
    BY <2>1, ProjectionFacts
  <2>2. CASE e.op # "EProj"
    BY <2>2
  <2> QED BY <2>1, <2>2
<1>1. PICK step : step = [e \in Exp |-> [g \in [Operands[e] -> Seq(Id)] |-> by(e, g)]]
  OBVIOUS
<1>2. \A e \in Exp : \A g \in [Operands[e] -> Seq(Id)] :
        step[e][g] = by(e, g) /\ step[e][g] \in Seq(Id)
  BY <1>0, <1>1
<1>3. PICK f \in [Exp -> Seq(Id)] : Computes(f, Exp, Operands, step)
  BY ONLY <1>2, OperandsLower, TreeFunction
<1>4. ASSUME NEW e \in Exp
      PROVE  f[e] = by(e, f)
  <2>1. PICK g : g = [k \in Operands[e] |-> f[k]]
    OBVIOUS
  <2>2. g \in [Operands[e] -> Seq(Id)]
    BY <2>1, OperandsLower
  <2>3. f[e] = step[e][g]
    BY <1>3, <2>1 DEF Computes
  <2>4. by(e, g) = by(e, f)
    BY <2>1, ProjectionFacts
  <2> QED BY <1>2, <2>2, <2>3, <2>4
<1> DEFINE sol(F) == F = [e \in Exp |-> by(e, F)]
<1>5. Chain = CHOOSE F : sol(F)
  BY DEF Chain
<1> HIDE DEF by
<1>6. sol(f)
  BY <1>3, <1>4
<1> HIDE DEF sol
<1>7. sol(Chain)
  BY <1>5, <1>6
<1>8. \A e \in Exp : Chain[e] = by(e, Chain)
  BY <1>7 DEF sol
<1>9. PICK P : P = {e \in Exp : Chain[e] \in Seq(Id)}
  OBVIOUS
<1>10. Hereditary(Exp, Operands, P)
  <2>1. ASSUME NEW e \in Exp, Operands[e] \subseteq P
        PROVE  e \in P
    <3>1. PICK g : g = [k \in Operands[e] |-> Chain[k]]
      OBVIOUS
    <3>2. g \in [Operands[e] -> Seq(Id)]
      BY <1>9, <2>1, <3>1
    <3>3. by(e, g) = by(e, Chain)
      BY <3>1, ProjectionFacts DEF by
    <3> QED BY <1>0, <1>8, <1>9, <3>2, <3>3
  <2> QED BY <2>1 DEF Hereditary
<1>11. Exp \subseteq P
  BY <1>10, OperandsLower, TreeInduction
<1> QED BY <1>8, <1>9, <1>11 DEF by

(* The chain of a projection leads from the type of the variable to the    *)
(* type that is noted.                                                     *)
LEMMA ChainLeads ==
  ASSUME NEW N, Typing(N, type), NEW p \in DOMAIN N, NEW e, e = N[p], Root[e].op = "EId"
  PROVE  Leads(symbols[Root[e].val], Chain[e], type[p])
<1>1. PICK P : P = {x \in Exp : \A q \in DOMAIN N : N[q] = x /\ Root[x].op = "EId" =>
                      Leads(symbols[Root[x].val], Chain[x], type[q])}
  OBVIOUS
<1>2. ASSUME NEW x \in Exp, Operands[x] \subseteq P,
             NEW q \in DOMAIN N, N[q] = x, Root[x].op = "EId"
      PROVE  Leads(symbols[Root[x].val], Chain[x], type[q])
  <2>1. PICK ts :
          /\ Rule(x, ts, type[q])
          /\ type[q] \in DOMAIN types
          /\ OperandsNoted(N, x, q)
          /\ \A k \in 1 .. Len(x.exps) : ts[k] = type[Append(q, k)]
    BY <1>2, TypingAt
  <2>2. CASE x.op = "EProj"
    <3>1. PICK y : y = x.exps[1]
      OBVIOUS
    <3>2. Root[x] = Root[y] /\ Chain[x] = Append(Chain[y], x.val) /\ Chain[y] \in Seq(Id)
      BY <2>2, <3>1, ProjectionFacts, RootIs, ChainIs
    <3>3. PICK r : r = Append(q, 1)
      OBVIOUS
    <3>4. r \in DOMAIN N /\ N[r] = y /\ y \in P /\ ts[1] = type[r]
      BY <1>2, <2>1, <2>2, <3>1, <3>3, ProjectionFacts DEF OperandsNoted
    <3>5. Leads(symbols[Root[y].val], Chain[y], type[r])
      BY <1>1, <1>2, <3>2, <3>4
    <3>6. type[q] = getMember(type[r], x.val)
      BY <2>1, <2>2, <3>4 DEF Rule
    <3> QED BY <2>1, <3>2, <3>5, <3>6, LeadsOn
  <2>3. CASE x.op # "EProj"
    <3>1. Root[x] = x /\ Chain[x] = <<>>
      BY <2>3, RootIs, ChainIs
    <3>2. x.op = "EId" /\ type[q] = symbols[x.val]
      BY <1>2, <2>1, <3>1 DEF Rule
    <3> QED BY <2>1, <3>1, <3>2, LeadsNowhere
  <2> QED BY <2>2, <2>3
<1>3. Hereditary(Exp, Operands, P)
  BY <1>1, <1>2 DEF Hereditary
<1>4. Exp \subseteq P
  BY <1>3, OperandsLower, TreeInduction
<1>5. e \in Exp
  BY TypingAt
<1> QED BY <1>1, <1>4, <1>5

(* Numbers are brought to one type.                                        *)
LEMMA BothTerms ==
  ASSUME NEW v, IsTerm(v), NEW w, IsTerm(w), NEW c, c = Common(v.type, w.type), c # null
  PROVE  \E x, y : /\ Both(v, v.type, w, w.type) = <<x, y>>
                   /\ IsTerm(x) /\ IsTerm(y) /\ x.type = c /\ y.type = c
                   /\ x = As(v, v.type, c) /\ y = As(w, w.type, c)
<1>1. /\ v.type \in Number /\ w.type \in Number
      /\ c = IF v.type = w.type THEN v.type ELSE TYPE_DOUBLE
  BY DEF Common, Number, TYPE_INT, TYPE_DOUBLE
<1>2. PICK x : x = As(v, v.type, c)
  OBVIOUS
<1>3. PICK y : y = As(w, w.type, c)
  OBVIOUS
<1>4. ASSUME NEW a, IsTerm(a), a.type \in Number, a.type # c => c = TYPE_DOUBLE
      PROVE  IsTerm(As(a, a.type, c)) /\ As(a, a.type, c).type = c
  <2>1. CASE a.type = c
    BY <1>4, <2>1 DEF As
  <2>2. CASE a.type # c
    <3>1. a.type = TYPE_INT /\ c = TYPE_DOUBLE /\ As(a, a.type, c) = SIToFP(a)
      BY <1>4, <2>2 DEF As, Number
    <3>2. IsTerm(SIToFP(a)) /\ SIToFP(a).type = TYPE_DOUBLE
      BY <1>4, <3>1, ConvertedTerm
    <3> QED BY <3>1, <3>2
  <2> QED BY <2>1, <2>2
<1>5. IsTerm(x) /\ x.type = c
  BY <1>1, <1>2, <1>4
<1>6. IsTerm(y) /\ y.type = c
  BY <1>1, <1>3, <1>4
<1>7. Both(v, v.type, w, w.type) = <<x, y>>
  BY <1>2, <1>3 DEF Both
<1> QED BY <1>2, <1>3, <1>5, <1>6, <1>7

(* Two values are compared part by part.                                   *)
LEMMA ComparedTerm ==
  ASSUME NEW v, IsTerm(v), NEW w, IsTerm(w), v.type \in DOMAIN types,
         NEW eq, eq = genEqComparison(v.type, v, w.type, w)
  PROVE  IsTerm(eq) /\ eq.type = TYPE_BOOL
<1>1. PICK c : c = Common(v.type, w.type)
  OBVIOUS
<1>2. "EEq" \notin OwnRule
  BY DEF OwnRule
<1>3. eq.type = TYPE_BOOL
  BY DEF genEqComparison, EqualParts, Const, Apply
<1>4. CASE c # null
  <2>1. PICK x, y : /\ Both(v, v.type, w, w.type) = <<x, y>>
                    /\ IsTerm(x) /\ IsTerm(y) /\ x.type = c /\ y.type = c
    BY <1>1, <1>4, BothTerms
  <2>2. eq = Apply("EEq", c, TYPE_BOOL, <<x, y>>)
    BY <1>1, <1>4, <2>1 DEF genEqComparison
  <2> QED BY <1>2, <1>3, <2>1, <2>2, OperatorsTerm
<1>5. CASE c = null /\ v.type = w.type /\ v.type = TYPE_BOOL
  <2>1. eq = Apply("EEq", v.type, TYPE_BOOL, <<v, w>>)
    BY <1>1, <1>5 DEF genEqComparison
  <2> QED BY <1>2, <1>3, <1>5, <2>1, OperatorsTerm
<1>6. CASE c = null /\ v.type = w.type /\ v.type # TYPE_BOOL
  <2> DEFINE of(p) == Apply("EEq", p.type, TYPE_BOOL,
                            <<Extract(v, p.path, p.type), Extract(w, p.path, p.type)>>)
  <2>1. eq = EqualParts({of(p) : p \in Parts[v.type]})
    BY <1>1, <1>6 DEF genEqComparison
  <2>2. ASSUME NEW p \in Parts[v.type]
        PROVE  IsTerm(of(p)) /\ of(p).type = TYPE_BOOL
    <3>1. Leads(v.type, p.path, p.type) /\ Leads(w.type, p.path, p.type)
      BY <1>6, PartsLead
    <3>2. PICK x : x = Extract(v, p.path, p.type)
      OBVIOUS
    <3>3. PICK y : y = Extract(w, p.path, p.type)
      OBVIOUS
    <3>4. IsTerm(x) /\ x.type = p.type /\ IsTerm(y) /\ y.type = p.type
      BY <3>1, <3>2, <3>3, ExtractTerm
    <3>5. PICK z : z = Apply("EEq", p.type, TYPE_BOOL, <<x, y>>)
      OBVIOUS
    <3>6. IsTerm(z) /\ z.type = TYPE_BOOL
      BY <1>2, <3>4, <3>5, OperatorsTerm DEF Apply
    <3> QED BY <3>2, <3>3, <3>5, <3>6
  <2> HIDE DEF of
  <2>3. PICK parts : parts = {of(p) : p \in Parts[v.type]}
    OBVIOUS
  <2>4. \A x \in parts : IsTerm(x) /\ x.type = TYPE_BOOL
    BY <2>2, <2>3
  <2>5. eq = EqualParts(parts)
    BY <2>1, <2>3
  <2> QED BY <1>3, <2>4, <2>5, EqualPartsTerm
<1>7. CASE c = null /\ v.type # w.type
  <2>1. eq = Apply("const", 0, TYPE_BOOL, <<>>)
    BY <1>1, <1>7 DEF genEqComparison, Const
  <2> QED BY <1>3, <2>1, LeafTerm
<1> QED BY <1>4, <1>5, <1>6, <1>7

-----------------------------------------------------------------------------
(* The code generator's steps *)

(* What was accepted is a typing of the whole expression.                  *)
LEMMA StartSteps ==
  ASSUME IInv, startCodeGen
  PROVE  IInv'
<1>1. PICK N : Inv(N)
  BY DEF IInv
<1>2. /\ phase = "typecheck" /\ frames = <<>> /\ node = NoExp
      /\ phase' = "codegen" /\ node' = exp /\ frames' = frames
      /\ exp' = exp /\ rootParent' = rootParent /\ type' = type
      /\ resultExpType' = resultExpType /\ isResultExpVariable' = isResultExpVariable
      /\ UNCHANGED <<ir, registers, allocas, expValue>>
  BY DEF startCodeGen, Accepted, result
<1>3. PathOf(<<>>) = <<>>
  BY DEF PathOf
<1>4. <<>> \in DOMAIN N /\ N[<<>>] = exp
  BY <1>1, <1>2, <1>3 DEF Inv, Typechecking, HasReturned
<1>5. OnPath(exp, frames, exp) /\ exp # NoExp
  BY <1>1, <1>2, ExpressionAssumption DEF Inv, OnPath
<1>6. Generation(N)'
  BY <1>2, <1>3, <1>4, <1>5 DEF Generation, HasReturned
<1>7. Inv(N)'
  BY <1>1, <1>2, <1>5, <1>6 DEF Inv
<1>8. Rest'
  <2>1. IROK(ir) /\ ir' = ir
    BY <1>2 DEF IInv, Rest
  <2>2. IROK(ir)'
    BY ONLY <2>1
  <2> QED BY <1>2, <2>2 DEF IInv, Rest
<1> QED BY <1>7, <1>8 DEF IInv

(* What makes no instruction leaves the blocks as they are.                *)
LEMMA PureGrown ==
  ASSUME Rest, Pure, UNCHANGED annotated
  PROVE  Grown
<1>1. IROK(ir) /\ ir' = ir /\ registers' \in Nat /\ allocas' \in Nat
  BY DEF Rest, Pure
<1>2. IROK(ir)'
  BY <1>1
<1>3. Len(ir.blocks) <= Len(ir'.blocks)
  BY <1>1 DEF IROK
<1> QED BY <1>1, <1>2, <1>3 DEF Grown

(* One instruction is made, for values of the types it is declared for.    *)
LEMMA EmittedGrown ==
  ASSUME Rest, UNCHANGED annotated, NEW inst, Agreed(inst), ir' = Emit(ir, inst),
         registers' \in Nat, allocas' \in Nat
  PROVE  Grown
<1>1. PICK d : d = Emit(ir, inst)
  OBVIOUS
<1>2. IROK(d) /\ Len(d.blocks) = Len(ir.blocks)
  BY <1>1, Emitted DEF Rest
<1>3. IROK(ir)' /\ ir' = d
  BY <1>1, <1>2
<1>4. Len(ir.blocks) <= Len(ir'.blocks)
  BY <1>2, <1>3 DEF Rest, IROK
<1> QED BY <1>3, <1>4 DEF Grown

(* Literals and variables.                                                 *)
LEMMA GenLeafSteps ==
  ASSUME IInv, genLiteral \/ genEId
  PROVE  IInv'
<1>1. PICK N : Inv(N)
  BY DEF IInv
<1>2. Rest /\ phase = "codegen" /\ node # NoExp /\ frames' = frames /\ node' = NoExp
      /\ UNCHANGED annotated
  BY DEF IInv, genLiteral, genEId, Generating
<1>3. PICK ts : Rule(node, ts, type[PathOf(frames)])
  BY <1>1, <1>2, GenEntering
<1>4. CASE genLiteral
  <2>1. Grown
    BY <1>2, <1>4, PureGrown DEF genLiteral
  <2>2. node.op \in Literals
    BY <1>4 DEF genLiteral, Generating
  <2>3. type[PathOf(frames)] = LiteralType(node.op)
    BY <1>3, <2>2 DEF Rule
  <2>4. expValue'.type = LiteralType(node.op)
    BY <1>4, <2>2 DEF genLiteral, Literals, LiteralType, Const, Apply
  <2>5. PICK t, n : expValue' = Apply("const", n, t, <<>>)
    BY <1>4, <2>2 DEF genLiteral, Literals, Const
  <2>6. IsTerm(expValue')
    BY <2>5, LeafTerm
  <2>7. Returned(expValue', node, PathOf(frames), type)
    BY <2>2, <2>3, <2>4, Uncompared DEF Literals, Orders, Equals
  <2> QED BY <1>1, <1>2, <2>1, <2>6, <2>7, GenFinished
<1>5. CASE genEId
  <2>1. PICK inst : inst = Load(registers + 1, Variable(node.val))
    OBVIOUS
  <2>2. Agreed(inst)
    BY <2>1 DEF Agreed, Load
  <2>3. registers + 1 \in Nat /\ allocas \in Nat
    BY <1>2 DEF Rest
  <2>4. Grown
    BY <1>2, <1>5, <2>1, <2>2, <2>3, EmittedGrown DEF genEId
  <2>5. node.op = "EId"
    BY <1>5 DEF genEId, Generating
  <2>6. type[PathOf(frames)] = symbols[node.val]
    BY <1>3, <2>5 DEF Rule
  <2>7. expValue'.type = symbols[node.val]
    BY <1>5 DEF genEId, Register, Apply
  <2>8. IsTerm(expValue')
    BY <1>5, LeafTerm DEF genEId, Register
  <2>9. Returned(expValue', node, PathOf(frames), type)
    BY <2>5, <2>6, <2>7, Uncompared DEF Orders, Equals
  <2> QED BY <1>1, <1>2, <2>4, <2>8, <2>9, GenFinished
<1> QED BY <1>4, <1>5

(* Handlers are entered.                                                   *)
LEMMA GenEntrySteps ==
  ASSUME IInv, genEApp \/ genOperator \/ genEAss
  PROVE  IInv'
<1>1. PICK N : Inv(N)
  BY DEF IInv
<1>2. Rest /\ phase = "codegen" /\ node # NoExp /\ expValue' = expValue
      /\ UNCHANGED annotated /\ Pure
  BY DEF IInv, genEApp, genOperator, genEAss, Generating
<1>3. Grown
  BY <1>2, PureGrown
<1>4. node \in Exp
  BY <1>1, <1>2, GenEntering
<1>5. ASSUME NEW f, frames' = Append(frames, f), NEW nd2, node' = nd2, FirstFrame(f, node, nd2),
             \A q : Kept(f, q)'
      PROVE  IInv'
  BY <1>1, <1>2, <1>3, <1>5, GenEntered
<1>6. CASE genEApp
  <2>1. PICK f : f = Frame(node, 0, <<>>)
    OBVIOUS
  <2>2. /\ frames' = Append(frames, f) /\ node' = NoExp /\ f.exp = node /\ f.pos = 0
        /\ f.exp.op = "EApp"
    BY <1>6, <2>1 DEF genEApp, Generating, Frame
  <2>3. FirstFrame(f, node, NoExp)
    BY <1>4, <2>2, ExpParts DEF FirstFrame
  <2>4. \A q : Kept(f, q)'
    BY <2>2 DEF Kept, Binary, Sums, Orders, Equals, Logic
  <2> QED BY <1>5, <2>2, <2>3, <2>4
<1>7. CASE genOperator
  <2>1. PICK f : f = Frame(node, 1, NoValue)
    OBVIOUS
  <2>2. PICK nd2 : nd2 = node.exps[1]
    OBVIOUS
  <2>3. /\ frames' = Append(frames, f) /\ node' = nd2 /\ f.exp = node /\ f.pos = 1
        /\ node.op \in {"EProj"} \cup Steps \cup Signs \cup (Binary \ {"EAss"}) \cup {"ECond"}
    BY <1>7, <2>1, <2>2 DEF genOperator, Generating, Call, Frame
  <2>4. node.op # "EApp" /\ node.op # "EAss"
    BY <2>3 DEF Steps, Signs, Binary, Sums, Orders, Equals, Logic
  <2>5. Len(node.exps) \in 1 .. 3
    BY <1>4, <2>3, ExpParts
  <2>6. FirstFrame(f, node, nd2)
    BY <2>2, <2>3, <2>5 DEF FirstFrame
  <2>7. \A q : Kept(f, q)'
    BY <2>3, <2>4 DEF Kept
  <2> QED BY <1>5, <2>3, <2>6, <2>7
<1>8. CASE genEAss
  <2>1. PICK f : f = Frame(node, 2, NoValue)
    OBVIOUS
  <2>2. PICK nd2 : nd2 = node.exps[2]
    OBVIOUS
  <2>3. /\ frames' = Append(frames, f) /\ node' = nd2 /\ f.exp = node /\ f.pos = 2
        /\ f.exp.op = "EAss"
    BY <1>8, <2>1, <2>2 DEF genEAss, Generating, Frame
  <2>4. Len(node.exps) = 2
    BY <1>4, <2>3, ExpParts DEF Binary
  <2>5. FirstFrame(f, node, nd2)
    BY <2>2, <2>3, <2>4 DEF FirstFrame
  <2>6. \A q : Kept(f, q)'
    BY <2>3 DEF Kept
  <2> QED BY <1>5, <2>3, <2>5, <2>6
<1> QED BY <1>6, <1>7, <1>8

(* The arguments so far have the types of the parameters.                  *)
LEMMA ArgumentTypes ==
  ASSUME NEW N, Inv(N), Rest, phase = "codegen", node = NoExp, frames # <<>>, Top.exp.op = "EApp"
  PROVE  /\ \E S : arguments \in Seq(S)
         /\ Len(arguments) = Top.pos
         /\ \A k \in 1 .. Top.pos :
              IsTerm(arguments[k]) /\ arguments[k].type = function.parameters[k]
         /\ Top.exp.val \in DOMAIN functions
         /\ Len(function.parameters) = Len(Top.exp.exps)
         /\ type[PathOf(Pop)] = function.returnType
<1>1. PICK ts :
        /\ Rule(Top.exp, ts, type[PathOf(Pop)])
        /\ Top.exp \in Exp /\ Top.pos \in Nat /\ Top.pos <= Len(Top.exp.exps)
        /\ Kept(Top, PathOf(Pop))
        /\ \A k \in 1 .. Len(Top.exp.exps) : ts[k] = OperandType(k)
        /\ Top.pos >= 1 => expValue.type = ts[Top.pos]
  BY GenResumed
<1>2. /\ Top.exp.val \in DOMAIN functions
      /\ Len(function.parameters) = Len(Top.exp.exps)
      /\ type[PathOf(Pop)] = function.returnType
      /\ \A k \in 1 .. Len(Top.exp.exps) : isConvertibleTo(ts[k], function.parameters[k])
  BY <1>1 DEF Rule, function
<1>3. CASE Top.pos = 0
  <2>1. arguments = <<>>
    BY <1>3 DEF arguments
  <2>2. arguments \in Seq({}) /\ Len(arguments) = 0
    BY <2>1
  <2> QED BY <1>2, <1>3, <2>2
<1>4. CASE Top.pos # 0
  <2>1. PICK S : Top.local \in Seq(S)
    BY <1>1, <1>4 DEF Kept
  <2>2. Len(Top.local) = Top.pos - 1
        /\ \A k \in 1 .. Top.pos - 1 :
             IsTerm(Top.local[k]) /\ Top.local[k].type = function.parameters[k]
    BY <1>1, <1>4 DEF Kept, function
  <2>3. PICK v : v = IF function.parameters[Top.pos] = TYPE_DOUBLE /\ OperandType(Top.pos) = TYPE_INT
                     THEN SIToFP(expValue) ELSE expValue
    OBVIOUS
  <2>4. IsTerm(v) /\ v.type = function.parameters[Top.pos]
    <3>1. /\ expValue.type = OperandType(Top.pos)
          /\ isConvertibleTo(expValue.type, function.parameters[Top.pos])
      <4>1. Len(Top.exp.exps) \in Nat
        BY <1>1, ExpParts
      <4>2. Top.pos \in 1 .. Len(Top.exp.exps) /\ Top.pos >= 1
        BY <1>1, <1>4, <4>1
      <4> QED BY <1>1, <1>2, <4>2
    <3>2. IsTerm(expValue)
      BY DEF Rest
    <3>3. expValue.type = TYPE_INT => IsTerm(SIToFP(expValue)) /\ SIToFP(expValue).type = TYPE_DOUBLE
      BY <3>2, ConvertedTerm
    <3> QED BY <2>3, <3>1, <3>2, <3>3 DEF isConvertibleTo
  <2>5. PICK local : local = Top.local
    OBVIOUS
  <2>6. arguments = Append(local, v)
    BY <1>4, <2>3, <2>5 DEF arguments
  <2>7. local \in Seq(S \cup {v}) /\ Len(local) \in Nat
    BY <2>1, <2>5
  <2>8. /\ Append(local, v) \in Seq(S \cup {v})
        /\ Len(Append(local, v)) = Len(local) + 1
        /\ Append(local, v)[Len(local) + 1] = v
        /\ \A k \in 1 .. Len(local) : Append(local, v)[k] = local[k]
    BY <2>7
  <2>9. Len(local) + 1 = Top.pos /\ Len(local) = Top.pos - 1
    BY <1>1, <2>2, <2>5
  <2>10. ASSUME NEW k \in 1 .. Top.pos
         PROVE  IsTerm(arguments[k]) /\ arguments[k].type = function.parameters[k]
    <3>1. CASE k = Top.pos
      BY <2>4, <2>6, <2>8, <2>9, <3>1
    <3>2. CASE k # Top.pos
      <4>1. k \in 1 .. Top.pos - 1
        BY <1>1, <3>2
      <4> QED BY <2>2, <2>5, <2>6, <2>8, <2>9, <4>1
    <3> QED BY <3>1, <3>2
  <2> QED BY <1>2, <2>6, <2>8, <2>9, <2>10
<1> QED BY <1>3, <1>4

(* The arguments of a call.                                                *)
LEMMA GenCallSteps ==
  ASSUME IInv, genArgument \/ genCall
  PROVE  IInv'
<1>1. PICK N : Inv(N)
  BY DEF IInv
<1>2. Rest /\ phase = "codegen" /\ node = NoExp /\ frames # <<>> /\ Top.exp.op = "EApp"
      /\ UNCHANGED annotated
  BY DEF IInv, genArgument, genCall, GeneratedAll, Generated, Yield
<1>3. /\ \E S : arguments \in Seq(S)
      /\ Len(arguments) = Top.pos
      /\ \A k \in 1 .. Top.pos :
           IsTerm(arguments[k]) /\ arguments[k].type = function.parameters[k]
      /\ Top.exp.val \in DOMAIN functions
      /\ Len(function.parameters) = Len(Top.exp.exps)
      /\ type[PathOf(Pop)] = function.returnType
  BY <1>1, <1>2, ArgumentTypes
<1>4. Top.exp \in Exp /\ Top.pos \in Nat
  BY <1>1, <1>2, GenResumed
<1>5. CASE genArgument
  <2>1. Grown
    BY <1>2, <1>5, PureGrown DEF genArgument
  <2>2. PICK l : l = arguments
    OBVIOUS
  <2>3. /\ expValue' = expValue /\ Top.pos < Len(Top.exp.exps) /\ NextOperand(l)
    BY <1>5, <2>2 DEF genArgument, NextOperand
  <2>4. ASSUME NEW f, NEW q, f = Frame(Top.exp, Top.pos + 1, l)
        PROVE  Kept(f, q)'
    <3>1. f.exp = Top.exp /\ f.pos = Top.pos + 1 /\ f.local = l /\ f.exp.op = "EApp"
      BY <1>2, <2>4 DEF Frame
    <3>2. f.pos - 1 = Top.pos
      BY <1>4, <3>1
    <3>3. /\ \E S : f.local \in Seq(S)
          /\ Len(f.local) = f.pos - 1
          /\ \A k \in 1 .. f.pos - 1 :
               IsTerm(f.local[k]) /\ f.local[k].type = functions[f.exp.val].parameters[k]
      BY <1>3, <2>2, <3>1, <3>2 DEF function
    <3> QED BY <3>1, <3>3 DEF Kept, Binary, Sums, Orders, Equals, Logic
  <2> QED BY <1>1, <1>2, <2>1, <2>3, <2>4, GenWentOn
<1>6. CASE genCall
  <2>1. PICK inst : inst = CallTo(registers + 1, Top.exp.val, arguments)
    OBVIOUS
  <2>2. Top.pos = Len(Top.exp.exps)
    BY <1>6 DEF genCall, GeneratedAll
  <2>3. Agreed(inst)
    <3>1. inst.op = "call" /\ inst.args = arguments /\ inst.function = Top.exp.val
      BY <2>1 DEF CallTo
    <3> QED BY <1>3, <2>2, <3>1 DEF Agreed, function
  <2>4. /\ ir' = Emit(ir, inst) /\ registers' = registers + 1 /\ allocas' = allocas
        /\ frames' = Pop /\ node' = NoExp
        /\ expValue' = Register(registers + 1, function.returnType)
    BY <1>6, <2>1 DEF genCall, Yield
  <2>5. registers' \in Nat /\ allocas' \in Nat
    BY <1>2, <2>4 DEF Rest
  <2>6. Grown
    BY <1>2, <2>3, <2>4, <2>5, EmittedGrown
  <2>7. expValue'.type = type[PathOf(Pop)]
    BY <1>3, <2>4 DEF Register, Apply
  <2>8. IsTerm(expValue')
    BY <2>4, LeafTerm DEF Register
  <2>9. Returned(expValue', Top.exp, PathOf(Pop), type)
    BY <1>2, <2>7, Uncompared DEF Orders, Equals
  <2> QED BY <1>1, <1>2, <2>4, <2>6, <2>8, <2>9, GenYielded
<1> QED BY <1>5, <1>6

(* The value of an assignment or a step is stored in memory of its type.   *)
LEMMA AssignedGrown ==
  ASSUME NEW N, Inv(N), Rest, phase = "codegen", node = NoExp, frames # <<>>,
         UNCHANGED annotated, allocas' = allocas,
         NEW e, e = Top.exp.exps[1], Len(Top.exp.exps) >= 1,
         Assignable(e), NEW v, IsTerm(v), v.type = OperandType(1), genAssignment(e, v)
  PROVE  Grown
<1>1. registers \in Nat /\ allocas' \in Nat /\ IROK(ir)
  BY DEF Rest
<1>4. Operand(1) \in DOMAIN N /\ N[Operand(1)] = e /\ Typing(N, type)
  <2>1. PICK ts :
          /\ Top.exp \in Exp
          /\ OperandsNoted(N, Top.exp, PathOf(Pop))
          /\ \A k \in 1 .. Len(Top.exp.exps) : ts[k] = OperandType(k)
    BY GenResumed
  <2>2. 1 \in 1 .. Len(Top.exp.exps)
    BY <2>1, ExpParts
  <2> QED BY <2>1, <2>2 DEF OperandsNoted, Operand, Inv
<1>2. CASE e.op = "EId"
  <2>1. PICK inst : inst = Store(v, Variable(e.val))
    OBVIOUS
  <2>2. v.type = symbols[e.val]
    <3>1. PICK us : Rule(e, us, type[Operand(1)])
      BY <1>4, TypingAt
    <3> QED BY <1>2, <3>1 DEF Rule, OperandType
  <2>3. Agreed(inst)
    BY <2>1, <2>2 DEF Agreed, Store, Variable
  <2>4. ir' = Emit(ir, inst) /\ registers' = registers
    BY <1>2, <2>1 DEF genAssignment
  <2> QED BY <1>1, <2>3, <2>4, EmittedGrown
<1>3. CASE e.op # "EId"
  <2>1. PICK ptr : ptr = Variable(Root[e].val)
    OBVIOUS
  <2>2. PICK copy : copy = Register(registers + 1, symbols[Root[e].val])
    OBVIOUS
  <2>3. PICK load : load = Load(copy.kind, ptr)
    OBVIOUS
  <2>4. PICK store : store = Store(Insert(copy, Chain[e], v), ptr)
    OBVIOUS
  <2>5. Agreed(load) /\ Agreed(store)
    <3>1. load.op = "load" /\ store.op = "store"
      BY <2>3, <2>4 DEF Load, Store
    <3>2. PICK w : w = Insert(copy, Chain[e], v)
      OBVIOUS
    <3>3. store.value = w /\ w.type = copy.type /\ store.ptr = ptr
      BY <2>4, <3>2 DEF Store, Insert, Apply
    <3>4. copy.type = symbols[Root[e].val] /\ copy.type = ptr.type
      BY <2>1, <2>2 DEF Register, Variable, Apply
    <3>5. IsTerm(copy)
      BY <2>2, LeafTerm DEF Register
    <3>6. Leads(copy.type, Chain[e], v.type)
      BY <1>4, <3>4, ChainLeads DEF Assignable, OperandType
    <3>7. IsTerm(w)
      BY <3>2, <3>5, <3>6, InsertTerm
    <3> QED BY <3>1, <3>3, <3>4, <3>7 DEF Agreed
  <2>6. ir' = Emit(Emit(ir, load), store) /\ registers' = registers + 1
    BY <1>3, <2>1, <2>2, <2>3, <2>4 DEF genAssignment
  <2>7. PICK c : c = Emit(ir, load)
    OBVIOUS
  <2>8. PICK d : d = Emit(c, store)
    OBVIOUS
  <2>9. IROK(c) /\ Len(c.blocks) = Len(ir.blocks)
    BY <1>1, <2>5, <2>7, Emitted
  <2>10. IROK(d) /\ Len(d.blocks) = Len(ir.blocks)
    BY <2>5, <2>8, <2>9, Emitted
  <2>11. ir' = d
    BY <2>6, <2>7, <2>8
  <2>12. IROK(ir)'
    BY <2>10, <2>11
  <2>13. Len(ir.blocks) <= Len(ir'.blocks)
    BY <1>1, <2>10, <2>11 DEF IROK
  <2> QED BY <1>1, <2>6, <2>12, <2>13 DEF Grown
<1> QED BY <1>2, <1>3

(* A string nobody catches, or a null pointer.                             *)
LEMMA Aborted ==
  ASSUME IInv, NEW how \in {"unreachable", "nullpointer"}, Abort(how)
  PROVE  IInv'
<1>1. PICK N : Inv(N)
  BY DEF IInv
<1> QED BY <1>1, Stopped DEF Abort, IInv

(* The operators of one operand.                                           *)
LEMMA GenUnarySteps ==
  ASSUME IInv, genEProj \/ genSign \/ genStep
  PROVE  IInv'
<1>1. PICK N : Inv(N)
  BY DEF IInv
<1>2. Rest /\ phase = "codegen" /\ node = NoExp /\ frames # <<>>
      /\ Top.pos = Len(Top.exp.exps)
      /\ Top.exp.op \in {"EProj"} \cup Signs \cup Steps
  BY DEF IInv, genEProj, genSign, genStep, GeneratedAll, Generated
<1>3. PICK ts :
        /\ Top.exp \in Exp
        /\ Rule(Top.exp, ts, type[PathOf(Pop)]) /\ type[PathOf(Pop)] \in DOMAIN types
        /\ \A k \in 1 .. Len(Top.exp.exps) : ts[k] = OperandType(k) /\ ts[k] \in DOMAIN types
        /\ Top.pos >= 1 => expValue.type = ts[Top.pos]
  BY <1>1, <1>2, GenResumed
<1>4. Len(Top.exp.exps) = 1
  BY <1>2, <1>3, ExpParts
<1>5. expValue.type = ts[1] /\ ts[1] = OperandType(1)
  BY <1>2, <1>3, <1>4
<1>10. ASSUME NEW v, v.type = type[PathOf(Pop)]
       PROVE  Returned(v, Top.exp, PathOf(Pop), type)
  BY <1>2, <1>10, Uncompared DEF Signs, Steps, Orders, Equals
<1>11. IsTerm(expValue)
  BY <1>2 DEF Rest
<1>6. ASSUME NEW v, Yield(v), v.type = type[PathOf(Pop)], IsTerm(v), Pure
      PROVE  IInv'
  <2>1. Grown /\ frames' = Pop /\ node' = NoExp /\ expValue' = v
    BY <1>2, <1>6, PureGrown DEF Yield
  <2> QED BY <1>1, <1>2, <1>6, <1>10, <2>1, GenYielded
<1>7. CASE genEProj
  <2>1. PICK v : v = Extract(expValue, <<Top.exp.val>>, getMember(expValue.type, Top.exp.val))
    OBVIOUS
  <2>2. Yield(v) /\ Pure /\ Top.exp.op = "EProj"
    BY <1>7, <2>1 DEF genEProj, GeneratedAll, Generated
  <2>3. v.type = type[PathOf(Pop)]
    BY <1>3, <1>5, <2>1, <2>2 DEF Rule, Extract, Apply
  <2>4. Leads(expValue.type, <<Top.exp.val>>, v.type)
    <3>1. PICK t : t = expValue.type
      OBVIOUS
    <3>2. PICK m : m = Top.exp.val
      OBVIOUS
    <3>3. t \in DOMAIN types /\ v.type = getMember(t, m) /\ v.type \in DOMAIN types
      BY <1>3, <1>4, <1>5, <2>1, <2>2, <2>3, <3>1, <3>2 DEF Extract, Apply
    <3>4. Leads(t, Append(<<>>, m), v.type)
      BY <3>3, <<>> \in Seq(Id), LeadsNowhere, LeadsOn
    <3> QED BY <3>1, <3>2, <3>4
  <2>5. IsTerm(v)
    BY <1>11, <2>1, <2>4, ExtractTerm DEF Extract, Apply
  <2> QED BY <1>6, <2>2, <2>3, <2>5
<1>8. CASE genSign
  <2>1. Top.exp.op \in Signs
    BY <1>8 DEF genSign, GeneratedAll, Generated
  <2>2. type[PathOf(Pop)] = ts[1] /\ ts[1] \in Number
    BY <1>3, <2>1 DEF Rule
  <2>3. PICK kind : kind = type[PathOf(Pop)]
    OBVIOUS
  <2>4. PICK v : v = Apply("neg", kind, kind, <<expValue>>)
    OBVIOUS
  <2>5. v.type = kind /\ IsTerm(v)
    BY <1>5, <1>11, <2>2, <2>3, <2>4, OperatorTerm DEF Apply, OwnRule
  <2>6. \/ Yield(expValue) /\ Pure
        \/ Yield(v) /\ Pure
    BY <1>8, <2>2, <2>3, <2>4 DEF genSign
  <2> QED BY <1>5, <1>6, <1>11, <2>2, <2>3, <2>5, <2>6
<1>9. CASE genStep
  <2>1. Top.exp.op \in Steps
    BY <1>9 DEF genStep, GeneratedAll, Generated
  <2>2. type[PathOf(Pop)] = ts[1] /\ ts[1] \in Number
    BY <1>3, <2>1 DEF Rule
  <2>3. PICK e : e = Top.exp.exps[1]
    OBVIOUS
  <2>4. PICK kind : kind = type[PathOf(Pop)]
    OBVIOUS
  <2>5. PICK sum : sum = IF Top.exp.op \in {"EPIncr", "EIncr"} THEN "EPlus" ELSE "EMinus"
    OBVIOUS
  <2>6. PICK v : v = Apply(sum, kind, kind, <<expValue, Const(kind, 1)>>)
    OBVIOUS
  <2>7. PICK changed : changed = Converted(e, Operand(1), v)
    OBVIOUS
  <2>8. v.type = kind /\ IsTerm(v)
    <3>1. PICK one : one = Const(kind, 1)
      OBVIOUS
    <3>2. IsTerm(one) /\ one.type = kind
      BY <3>1, LeafTerm DEF Const, Apply
    <3>3. v = Apply(sum, kind, kind, <<expValue, one>>)
      BY <2>6, <3>1
    <3>4. sum \notin OwnRule
      BY <2>5 DEF OwnRule
    <3>5. expValue.type = kind
      BY <1>5, <2>2, <2>4
    <3> QED BY <1>11, <3>2, <3>3, <3>4, <3>5, OperatorsTerm DEF Apply
  <2>9. changed = v
    <3>1. type[Operand(1)] = kind
      BY <1>5, <2>2, <2>4 DEF OperandType
    <3>2. TYPE_INT # TYPE_DOUBLE
      BY DEF TYPE_INT, TYPE_DOUBLE
    <3> QED BY <2>7, <2>8, <3>1, <3>2 DEF Converted
  <2>10. CASE ~ Assignable(e)
    <3>1. CannotAssign(e)
      BY <1>9, <2>2, <2>3, <2>10 DEF genStep
    <3> QED BY <3>1, Aborted DEF CannotAssign
  <2>11. CASE Assignable(e)
    <3>1. /\ genAssignment(e, changed)
          /\ Yield(StepValue(Top.exp.op, expValue, changed))
          /\ UNCHANGED allocas
      BY <1>9, <2>2, <2>3, <2>4, <2>5, <2>6, <2>7, <2>11 DEF genStep
    <3>2. /\ expValue' = StepValue(Top.exp.op, expValue, changed)
          /\ frames' = Pop /\ node' = NoExp /\ UNCHANGED annotated /\ allocas' = allocas
      BY <3>1 DEF Yield
    <3>3. changed.type = OperandType(1) /\ IsTerm(changed) /\ Len(Top.exp.exps) >= 1
      BY <1>4, <1>5, <2>2, <2>4, <2>8, <2>9
    <3>4. Grown
      BY <1>1, <1>2, <2>3, <2>11, <3>1, <3>2, <3>3, AssignedGrown
    <3>5. expValue'.type = type[PathOf(Pop)] /\ IsTerm(expValue')
      BY <1>5, <1>11, <2>2, <2>4, <2>8, <2>9, <3>2 DEF StepValue
    <3> QED BY <1>1, <1>2, <1>10, <3>2, <3>4, <3>5, GenYielded
  <2> QED BY <2>10, <2>11
<1> QED BY <1>7, <1>8, <1>9

(* The operators of two operands.                                          *)
LEMMA GenBinarySteps ==
  ASSUME IInv, genSecond \/ genBinary \/ genEquals \/ genLogic
  PROVE  IInv'
<1>1. PICK N : Inv(N)
  BY DEF IInv
<1>2. Rest /\ phase = "codegen" /\ node = NoExp /\ frames # <<>>
      /\ Top.exp.op \in Binary \ {"EAss"}
  <2>1. \A op \in Sums \cup {"ETwc"} \cup Orders \cup Equals \cup Logic : op \in Binary \ {"EAss"}
    BY DEF Binary, Sums, Orders, Equals, Logic
  <2> QED BY <2>1 DEF IInv, genSecond, genBinary, genEquals, genLogic, GeneratedAll, Generated
<1>3. PICK ts :
        /\ Top.exp \in Exp
        /\ Kept(Top, PathOf(Pop))
        /\ Rule(Top.exp, ts, type[PathOf(Pop)])
        /\ \A k \in 1 .. Len(Top.exp.exps) : ts[k] = OperandType(k) /\ ts[k] \in DOMAIN types
        /\ Top.pos >= 1 => expValue.type = ts[Top.pos]
  BY <1>1, <1>2, GenResumed
<1>4. /\ Len(Top.exp.exps) = 2
      /\ ts[1] = OperandType(1) /\ ts[2] = OperandType(2)
  <2>1. Len(Top.exp.exps) = 2
    BY <1>2, <1>3, ExpParts
  <2> QED BY <1>3, <2>1
<1>5. ASSUME NEW v, Yield(v), IsTerm(v), Returned(v, Top.exp, PathOf(Pop), type), Pure
      PROVE  IInv'
  <2>1. Grown /\ frames' = Pop /\ node' = NoExp /\ expValue' = v
    BY <1>2, <1>5, PureGrown DEF Yield
  <2> QED BY <1>1, <1>2, <1>5, <2>1, GenYielded
<1>10. IsTerm(expValue)
  BY <1>2 DEF Rest
<1>11. ASSUME Top.pos = 2
       PROVE  /\ IsTerm(Top.local) /\ Top.local.type = OperandType(1)
              /\ expValue.type = OperandType(2)
              /\ OperandType(1) = type[Append(PathOf(Pop), 1)]
              /\ OperandType(2) = type[Append(PathOf(Pop), 2)]
  BY <1>2, <1>3, <1>4, <1>11 DEF Kept, OperandType, Operand
<1>6. CASE genSecond
  <2>1. Grown
    BY <1>2, <1>6, PureGrown DEF genSecond
  <2>2. PICK l : l = expValue
    OBVIOUS
  <2>3. /\ expValue' = expValue /\ Top.pos = 1 /\ NextOperand(l)
    BY <1>6, <2>2 DEF genSecond, NextOperand
  <2>4. ASSUME NEW f, NEW q, f = Frame(Top.exp, Top.pos + 1, l), q = PathOf(Pop)
        PROVE  Kept(f, q)'
    <3>1. /\ f.exp = Top.exp /\ f.local = l /\ f.exp.op \in Binary \ {"EAss"}
          /\ f.exp.op # "EApp" /\ f.exp.op # "EAss" /\ f.exp.op # "ECond"
      BY <1>2, <2>4 DEF Frame, Binary, Sums, Orders, Equals, Logic
    <3>2. IsTerm(l) /\ l.type = type'[Append(q, 1)]
      BY <1>3, <1>4, <1>10, <2>1, <2>2, <2>3, <2>4
      DEF OperandType, Operand, Grown, annotated, result
    <3> QED BY <3>1, <3>2 DEF Kept
  <2>5. Top.pos < Len(Top.exp.exps)
    BY <1>4, <2>3
  <2> QED BY <1>1, <1>2, <2>1, <2>3, <2>4, <2>5, GenWentOn
<1>7. CASE genBinary
  <2> DEFINE op == Top.exp.op
  <2> DEFINE t  == OperandType(1)
  <2> DEFINE u  == OperandType(2)
  <2> DEFINE kind == IF op = "ETwc" /\ Common(t, u) = null THEN TYPE_DOUBLE ELSE Common(t, u)
  <2> DEFINE yielded == CASE op \in Sums   -> kind
                          [] op = "ETwc"   -> TYPE_INT
                          [] op \in Orders -> TYPE_BOOL
  <2> DEFINE v == Apply(op, kind, yielded, Both(Top.local, t, expValue, u))
  <2>1. kind # null => Yield(v) /\ Pure
    BY <1>7 DEF genBinary
  <2>2. op \in Sums \cup {"ETwc"} \cup Orders
    BY <1>7 DEF genBinary, GeneratedAll, Generated
  <2>3. t = ts[1] /\ u = ts[2] /\ t \in Number /\ u \in Number
    BY <1>3, <1>4, <2>2 DEF Rule
  <2>4. Common(t, u) = (IF t = u THEN t ELSE TYPE_DOUBLE)
    BY <2>3 DEF Common, Number, TYPE_INT, TYPE_DOUBLE
  <2>5. Common(t, u) # null
    BY <2>3, <2>4 DEF Number, TYPE_INT, TYPE_DOUBLE, null
  <2>6. kind = (IF t = u THEN t ELSE TYPE_DOUBLE) /\ kind # null
    BY <2>4, <2>5
  <2>7. v.type = yielded /\ v.kind = kind /\ v.args = Both(Top.local, t, expValue, u)
    BY DEF Apply
  <2>8. yielded = type[PathOf(Pop)]
    <3>1. CASE op \in Sums
      BY <1>3, <2>3, <2>6, <3>1 DEF Rule
    <3>2. CASE op = "ETwc"
      BY <1>3, <3>2 DEF Rule, Sums
    <3>3. CASE op \in Orders
      BY <1>3, <3>3 DEF Rule, Sums, Orders
    <3> QED BY <2>2, <3>1, <3>2, <3>3
  <2>9. Top.pos = 2
    BY <1>4, <1>7 DEF genBinary, GeneratedAll
  <2>10. kind = Common(t, u)
    BY <2>5
  <2>11. v = Apply(op, kind, yielded, Both(Top.local, t, expValue, u))
    OBVIOUS
  <2> HIDE DEF v, yielded, kind
  <2>12. IsTerm(v)
    <3>1. PICK x, y : /\ Both(Top.local, t, expValue, u) = <<x, y>>
                      /\ IsTerm(x) /\ IsTerm(y) /\ x.type = kind /\ y.type = kind
      BY <1>10, <1>11, <2>6, <2>9, <2>10, BothTerms
    <3>2. v = Apply(op, kind, yielded, <<x, y>>)
      BY <2>11, <3>1
    <3>3. op \notin OwnRule
      BY <2>2 DEF OwnRule, Sums, Orders
    <3> QED BY <3>1, <3>2, <3>3, OperatorsTerm
  <2>13. Returned(v, Top.exp, PathOf(Pop), type)
    <3>1. op # "ENEq"
      BY <2>2 DEF Sums, Orders
    <3>2. PICK x : x = Top.local
      OBVIOUS
    <3>3. PICK y : y = expValue
      OBVIOUS
    <3>4. /\ IsTerm(x) /\ x.type = t /\ IsTerm(y) /\ y.type = u
          /\ v.kind = Common(t, u) /\ v.args = Both(x, t, y, u)
      BY <1>10, <1>11, <2>7, <2>9, <2>10, <3>2, <3>3
    <3>5. Compares(Top.exp, t, u, v)
      BY <3>1, <3>4 DEF Compares
    <3> QED BY <1>11, <2>7, <2>8, <2>9, <3>5 DEF Returned
  <2> QED BY <1>5, <2>1, <2>6, <2>12, <2>13
<1>8. CASE genEquals
  <2>1. PICK eq : eq = genEqComparison(OperandType(1), Top.local, OperandType(2), expValue)
    OBVIOUS
  <2>2. PICK not : not = Apply("not", TYPE_BOOL, TYPE_BOOL, <<eq>>)
    OBVIOUS
  <2>8. Top.pos = 2 /\ Top.exp.op \in Equals
    BY <1>4, <1>8 DEF genEquals, GeneratedAll, Generated
  <2>3. IsTerm(eq) /\ eq.type = TYPE_BOOL
    <3>1. OperandType(1) \in DOMAIN types
      BY <1>3, <1>4
    <3>2. PICK x : x = Top.local
      OBVIOUS
    <3>3. PICK y : y = expValue
      OBVIOUS
    <3>4. /\ IsTerm(x) /\ IsTerm(y) /\ x.type \in DOMAIN types
          /\ eq = genEqComparison(x.type, x, y.type, y)
      BY <1>10, <1>11, <2>1, <2>8, <3>1, <3>2, <3>3
    <3> QED BY ONLY <3>4, ComparedTerm
  <2>4. IsTerm(not) /\ not.type = TYPE_BOOL /\ not.args[1] = eq
    <3>1. "not" \notin OwnRule
      BY DEF OwnRule
    <3> QED BY <2>2, <2>3, <3>1, OperatorTerm DEF Apply
  <2>5. type[PathOf(Pop)] = TYPE_BOOL
    BY <1>3, <1>8 DEF Rule, genEquals, GeneratedAll, Generated
  <2>9. ASSUME NEW v, v.type = TYPE_BOOL, eq = IF Top.exp.op = "ENEq" THEN v.args[1] ELSE v
        PROVE  Returned(v, Top.exp, PathOf(Pop), type)
    <3>1. PICK x : x = Top.local
      OBVIOUS
    <3>2. PICK y : y = expValue
      OBVIOUS
    <3>3. PICK t : t = OperandType(1)
      OBVIOUS
    <3>4. PICK u : u = OperandType(2)
      OBVIOUS
    <3>5. IsTerm(x) /\ x.type = t /\ IsTerm(y) /\ y.type = u
      BY <1>10, <1>11, <2>8, <3>1, <3>2, <3>3, <3>4
    <3>6. t \in Number /\ u \in Number => Common(t, u) # null
      BY DEF Common, Number, TYPE_INT, TYPE_DOUBLE, null
    <3>7. t \in Number /\ u \in Number => eq.kind = Common(t, u) /\ eq.args = Both(x, t, y, u)
      BY <2>1, <3>1, <3>2, <3>3, <3>4, <3>6 DEF genEqComparison, Apply
    <3>8. Compares(Top.exp, t, u, v)
      BY <2>9, <3>5, <3>7 DEF Compares
    <3> QED BY <1>11, <2>5, <2>8, <2>9, <3>3, <3>4, <3>8 DEF Returned
  <2>6. CASE Incomparable(OperandType(1), OperandType(2))
    BY <1>8, <2>6, Aborted DEF genEquals
  <2>7. CASE ~ Incomparable(OperandType(1), OperandType(2))
    <3>1. \/ Top.exp.op = "EEq" /\ Yield(eq) /\ Pure
          \/ Top.exp.op # "EEq" /\ Yield(not) /\ Pure
      BY <1>8, <2>1, <2>2, <2>7 DEF genEquals
    <3>2. Top.exp.op = "EEq" => Returned(eq, Top.exp, PathOf(Pop), type)
      BY <2>3, <2>9
    <3>3. Top.exp.op # "EEq" => Returned(not, Top.exp, PathOf(Pop), type)
      BY <2>4, <2>8, <2>9 DEF Equals
    <3> QED BY <1>5, <2>3, <2>4, <3>1, <3>2, <3>3
  <2> QED BY <2>6, <2>7
<1>9. CASE genLogic
  <2>1. Top.exp.op \in Logic /\ Top.pos = 2
    BY <1>4, <1>9 DEF genLogic, GeneratedAll, Generated
  <2>2. PICK v : v = Apply(Top.exp.op, Top.local.type, Top.local.type, <<Top.local, expValue>>)
    OBVIOUS
  <2>3. Top.local.type = ts[1]
    BY <1>2, <1>3, <1>4, <2>1 DEF Kept, OperandType, Operand
  <2>4. ts[1] = TYPE_BOOL /\ type[PathOf(Pop)] = TYPE_BOOL
    BY <1>3, <2>1 DEF Rule
  <2>5. v.type = type[PathOf(Pop)]
    BY <2>2, <2>3, <2>4 DEF Apply
  <2>6. Yield(v) /\ Pure
    BY <1>9, <2>2 DEF genLogic, Yield
  <2>7. IsTerm(v)
    <3>1. Top.exp.op \notin OwnRule
      BY <2>1 DEF OwnRule, Logic
    <3>2. expValue.type = Top.local.type /\ IsTerm(Top.local)
      BY <1>3, <1>4, <1>11, <2>1, <2>3 DEF Rule
    <3> QED BY <1>10, <2>2, <3>1, <3>2, OperatorsTerm
  <2>8. Returned(v, Top.exp, PathOf(Pop), type)
    BY <2>1, <2>5, Uncompared DEF Logic, Orders, Equals
  <2> QED BY <1>5, <2>6, <2>7, <2>8
<1> QED BY <1>6, <1>7, <1>8, <1>9

(* An assignment's value is stored.                                        *)
LEMMA GenStoreSteps ==
  ASSUME IInv, storeEAss
  PROVE  IInv'
<1>1. PICK N : Inv(N)
  BY DEF IInv
<1>2. Rest /\ phase = "codegen" /\ node = NoExp /\ frames # <<>>
      /\ Top.pos = Len(Top.exp.exps) /\ Top.exp.op = "EAss"
  BY DEF IInv, storeEAss, GeneratedAll, Generated
<1>3. PICK ts :
        /\ Top.exp \in Exp
        /\ Rule(Top.exp, ts, type[PathOf(Pop)])
        /\ \A k \in 1 .. Len(Top.exp.exps) : ts[k] = OperandType(k) /\ ts[k] \in DOMAIN types
        /\ Top.pos >= 1 => expValue.type = ts[Top.pos]
  BY <1>1, <1>2, GenResumed
<1>4. /\ Len(Top.exp.exps) = 2
      /\ ts[1] = OperandType(1) /\ expValue.type = ts[2]
      /\ isConvertibleTo(ts[2], ts[1]) /\ type[PathOf(Pop)] = ts[1]
  <2>1. Len(Top.exp.exps) = 2
    BY <1>2, <1>3, ExpParts DEF Binary
  <2> QED BY <1>2, <1>3, <2>1 DEF Rule
<1>5. PICK e : e = Top.exp.exps[1]
  OBVIOUS
<1>6. PICK changed : changed = Converted(e, Operand(1), expValue)
  OBVIOUS
<1>7. changed.type = ts[1] /\ IsTerm(changed)
  <2>1. IsTerm(expValue)
    BY <1>2 DEF Rest
  <2>2. expValue.type = TYPE_INT => IsTerm(SIToFP(expValue)) /\ SIToFP(expValue).type = TYPE_DOUBLE
    BY <2>1, ConvertedTerm
  <2> QED BY <1>4, <1>6, <2>1, <2>2 DEF Converted, isConvertibleTo, OperandType
<1>8. CASE ~ Assignable(e)
  <2>1. CannotAssign(e)
    BY <1>5, <1>8 DEF storeEAss
  <2> QED BY <2>1, Aborted DEF CannotAssign
<1>9. CASE Assignable(e)
  <2>1. genAssignment(e, changed) /\ Yield(changed) /\ UNCHANGED allocas
    BY <1>5, <1>6, <1>9 DEF storeEAss
  <2>2. expValue' = changed /\ frames' = Pop /\ node' = NoExp /\ UNCHANGED annotated
        /\ allocas' = allocas
    BY <2>1 DEF Yield
  <2>3. changed.type = OperandType(1) /\ Len(Top.exp.exps) >= 1
    BY <1>4, <1>7
  <2>4. Grown
    BY <1>1, <1>2, <1>5, <1>7, <1>9, <2>1, <2>2, <2>3, AssignedGrown
  <2>5. IsTerm(expValue') /\ Returned(expValue', Top.exp, PathOf(Pop), type)
    BY <1>2, <1>4, <1>7, <2>2, Uncompared DEF Orders, Equals
  <2> QED BY <1>1, <1>2, <2>2, <2>4, <2>5, GenYielded
<1> QED BY <1>8, <1>9

(* Blocks are numbered from 1.                                             *)
LEMMA BlocksAre ==
  ASSUME NEW c, IROK(c)
  PROVE  DOMAIN c.blocks = 1 .. Len(c.blocks) /\ Len(c.blocks) \in Nat
<1>1. PICK S : c \in [blocks : Seq(Seq(S)), at : Nat]
  BY DEF IROK
<1>2. c.blocks \in Seq(Seq(S))
  BY <1>1
<1> QED BY <1>2

(* A branch of a ternary stores a value of the ternary's type.             *)
LEMMA CondClosed ==
  ASSUME NEW N, Inv(N), Rest, phase = "codegen", node = NoExp, frames # <<>>,
         Top.exp.op = "ECond", NEW i \in {2, 3}, Top.pos = i, NEW d, d = CloseCond(i)
  PROVE  /\ IROK(d)
         /\ Len(d.blocks) = Len(ir.blocks)
         /\ condType = type[PathOf(Pop)]
         /\ Top.local.next \in 1 .. Len(ir.blocks)
         /\ Top.local.ptr.type = CondTypeAt(PathOf(Pop))
         /\ i = 2 => Top.local.false \in 1 .. Len(ir.blocks)
<1>1. PICK ts :
        /\ Top.exp \in Exp
        /\ Kept(Top, PathOf(Pop))
        /\ Rule(Top.exp, ts, type[PathOf(Pop)])
        /\ \A k \in 1 .. Len(Top.exp.exps) : ts[k] = OperandType(k)
        /\ Top.pos >= 1 => expValue.type = ts[Top.pos]
  BY GenResumed
<1>2. Len(Top.exp.exps) = 3
  BY <1>1, ExpParts
<1>3. ts[2] = OperandType(2) /\ ts[3] = OperandType(3) /\ ts[2] = ts[3]
      /\ ts[2] = type[PathOf(Pop)] /\ expValue.type = OperandType(i)
  BY <1>1, <1>2 DEF Rule
<1>4. condType = type[PathOf(Pop)] /\ OperandType(i) = condType
      /\ CondTypeAt(PathOf(Pop)) = condType
  BY <1>3 DEF condType, CondTypeAt, OperandType, Operand
<1>5. /\ Top.local.next \in DOMAIN ir.blocks
      /\ Top.local.ptr.type = CondTypeAt(PathOf(Pop))
      /\ i = 2 => Top.local.false \in DOMAIN ir.blocks
  BY <1>1 DEF Kept
<1>6. PICK store : store = Store(As(expValue, OperandType(i), condType), Top.local.ptr)
  OBVIOUS
<1>7. PICK br : br = Br(Top.local.next)
  OBVIOUS
<1>8. Agreed(store) /\ Agreed(br)
  <2>1. store.op = "store" /\ br.op = "br"
    BY <1>6, <1>7 DEF Store, Br
  <2>2. store.value = expValue /\ expValue.type = condType /\ store.ptr = Top.local.ptr
    BY <1>3, <1>4, <1>6 DEF Store, As
  <2>3. IsTerm(expValue)
    BY DEF Rest
  <2> QED BY <1>4, <1>5, <2>1, <2>2, <2>3 DEF Agreed
<1>9. PICK c : c = Emit(ir, store)
  OBVIOUS
<1>10. IROK(c) /\ Len(c.blocks) = Len(ir.blocks)
  BY <1>8, <1>9, Emitted DEF Rest
<1>11. d = Emit(c, br)
  BY <1>6, <1>7, <1>9 DEF CloseCond
<1>12. IROK(d) /\ Len(d.blocks) = Len(ir.blocks)
  BY <1>8, <1>10, <1>11, Emitted
<1>13. DOMAIN ir.blocks = 1 .. Len(ir.blocks)
  BY BlocksAre DEF Rest
<1> QED BY <1>4, <1>5, <1>12, <1>13

(* Ternaries.                                                              *)
LEMMA GenCondSteps ==
  ASSUME IInv, condTrue \/ condFalse \/ condMerge
  PROVE  IInv'
<1>1. PICK N : Inv(N)
  BY DEF IInv
<1>2. /\ Rest /\ phase = "codegen" /\ node = NoExp /\ frames # <<>>
      /\ Top.exp.op = "ECond" /\ UNCHANGED annotated
      /\ registers \in Nat /\ allocas \in Nat /\ IROK(ir)
  BY DEF IInv, Rest, condTrue, condFalse, condMerge, GeneratedAll, Generated, Yield
<1>3. PICK ts :
        /\ Top.exp \in Exp
        /\ Rule(Top.exp, ts, type[PathOf(Pop)])
        /\ \A k \in 1 .. Len(Top.exp.exps) : ts[k] = OperandType(k)
        /\ Top.pos >= 1 => expValue.type = ts[Top.pos]
  BY <1>1, <1>2, GenResumed
<1>4. Len(Top.exp.exps) = 3
  BY <1>2, <1>3, ExpParts
<1>5. ASSUME NEW d, IROK(d), Len(ir.blocks) <= Len(d.blocks), ir' = d,
             registers' \in Nat, allocas' \in Nat
      PROVE  Grown /\ DOMAIN ir'.blocks = 1 .. Len(d.blocks)
  <2>1. IROK(ir)'
    BY <1>5
  <2> QED BY <1>2, <1>5, <2>1, BlocksAre DEF Grown
<1>6. CASE condTrue
  <2>1. Top.pos = 1 /\ Top.pos < Len(Top.exp.exps) /\ expValue' = expValue
        /\ registers' = registers /\ allocas' = allocas + 1
    BY <1>4, <1>6 DEF condTrue
  <2>2. PICK b : b = NextBlock(ir)
    OBVIOUS
  <2>3. PICK inst : inst = BranchOn(expValue, b, b + 1)
    OBVIOUS
  <2>4. PICK l : l = [false |-> b + 1, next |-> b + 2, ptr |-> Ternary(allocas + 1, condType)]
    OBVIOUS
  <2>5. PICK c : c = CreateBlocks(ir, 3)
    OBVIOUS
  <2>6. PICK c2 : c2 = Emit(c, inst)
    OBVIOUS
  <2>7. PICK d : d = SetInsertPoint(c2, b)
    OBVIOUS
  <2>8. ir' = d /\ NextOperand(l)
    BY <1>6, <2>2, <2>3, <2>4, <2>5, <2>6, <2>7 DEF condTrue, NextOperand
  <2>9. Agreed(inst)
    <3>1. expValue.type = TYPE_BOOL
      BY <1>2, <1>3, <2>1 DEF Rule
    <3>2. IsTerm(expValue)
      BY <1>2 DEF Rest
    <3> QED BY <2>3, <3>1, <3>2 DEF Agreed, BranchOn
  <2>10. IROK(c) /\ Len(c.blocks) = Len(ir.blocks) + 3
    BY <1>2, <2>5, 3 \in Nat, Created
  <2>11. IROK(c2) /\ Len(c2.blocks) = Len(ir.blocks) + 3
    BY <2>6, <2>9, <2>10, Emitted
  <2>12. Len(ir.blocks) \in Nat
    BY <1>2, BlocksAre
  <2>13. b = Len(ir.blocks) + 1 /\ b \in 1 .. Len(c2.blocks)
    BY <2>2, <2>11, <2>12 DEF NextBlock
  <2>14. IROK(d) /\ Len(d.blocks) = Len(ir.blocks) + 3
    BY <2>7, <2>11, <2>13, Moved
  <2>15. Grown /\ DOMAIN ir'.blocks = 1 .. Len(ir.blocks) + 3
    <3>1. Len(ir.blocks) <= Len(d.blocks) /\ registers' \in Nat /\ allocas' \in Nat
      BY <1>2, <2>1, <2>12, <2>14
    <3> QED BY <1>5, <2>8, <2>14, <3>1
  <2>16. ASSUME NEW f, NEW q, f = Frame(Top.exp, Top.pos + 1, l), q = PathOf(Pop)
         PROVE  Kept(f, q)'
    <3>1. f.exp.op = "ECond" /\ f.pos = 2 /\ f.local = l
      BY <1>2, <2>1, <2>16 DEF Frame
    <3>2. f.local.next = b + 2 /\ f.local.false = b + 1 /\ f.local.ptr.type = condType
      BY <2>4, <3>1 DEF Ternary
    <3>3. f.local.next \in DOMAIN ir'.blocks /\ f.local.false \in DOMAIN ir'.blocks
      BY <2>12, <2>13, <2>15, <3>2
    <3>4. condType = CondTypeAt(q)'
      BY <2>15, <2>16 DEF condType, CondTypeAt, OperandType, Operand, Grown, annotated, result
    <3> QED BY <3>1, <3>2, <3>3, <3>4 DEF Kept, Binary, Sums, Orders, Equals, Logic
  <2> QED BY <1>1, <1>2, <2>1, <2>8, <2>15, <2>16, GenWentOn
<1>7. CASE condFalse
  <2>1. Top.pos = 2 /\ Top.pos < Len(Top.exp.exps) /\ expValue' = expValue
        /\ registers' = registers /\ allocas' = allocas
    BY <1>4, <1>7 DEF condFalse
  <2>2. PICK c : c = CloseCond(2)
    OBVIOUS
  <2>3. /\ IROK(c) /\ Len(c.blocks) = Len(ir.blocks)
        /\ Top.local.next \in 1 .. Len(ir.blocks)
        /\ Top.local.ptr.type = CondTypeAt(PathOf(Pop))
        /\ Top.local.false \in 1 .. Len(ir.blocks)
    BY <1>1, <1>2, <2>1, <2>2, CondClosed
  <2>4. PICK l : l = Top.local
    OBVIOUS
  <2>5. PICK d : d = SetInsertPoint(c, l.false)
    OBVIOUS
  <2>6. ir' = d /\ NextOperand(l)
    BY <1>7, <2>2, <2>4, <2>5 DEF condFalse, NextOperand
  <2>7. IROK(d) /\ Len(d.blocks) = Len(ir.blocks)
    BY <2>3, <2>4, <2>5, Moved
  <2>8. Grown /\ DOMAIN ir'.blocks = 1 .. Len(ir.blocks)
    <3>1. Len(ir.blocks) <= Len(d.blocks) /\ registers' \in Nat /\ allocas' \in Nat
      BY <1>2, <2>1, <2>7, BlocksAre
    <3> QED BY <1>5, <2>6, <2>7, <3>1
  <2>9. ASSUME NEW f, NEW q, f = Frame(Top.exp, Top.pos + 1, l), q = PathOf(Pop)
        PROVE  Kept(f, q)'
    <3>1. f.exp.op = "ECond" /\ f.pos = 3 /\ f.local = l
      BY <1>2, <2>1, <2>9 DEF Frame
    <3>2. f.local.next \in DOMAIN ir'.blocks
      BY <2>3, <2>4, <2>8, <3>1
    <3>3. f.local.ptr.type = CondTypeAt(q)'
      BY <2>3, <2>4, <2>8, <2>9, <3>1 DEF CondTypeAt, Grown, annotated, result
    <3> QED BY <3>1, <3>2, <3>3 DEF Kept, Binary, Sums, Orders, Equals, Logic
  <2> QED BY <1>1, <1>2, <2>1, <2>6, <2>8, <2>9, GenWentOn
<1>8. CASE condMerge
  <2>1. Top.pos = 3
    BY <1>4, <1>8 DEF condMerge, GeneratedAll
  <2>2. PICK c : c = CloseCond(3)
    OBVIOUS
  <2>3. /\ IROK(c) /\ Len(c.blocks) = Len(ir.blocks)
        /\ Top.local.next \in 1 .. Len(ir.blocks)
        /\ condType = type[PathOf(Pop)]
    BY <1>1, <1>2, <2>1, <2>2, CondClosed
  <2>4. PICK c2 : c2 = SetInsertPoint(c, Top.local.next)
    OBVIOUS
  <2>5. PICK load : load = Load(registers + 1, Top.local.ptr)
    OBVIOUS
  <2>6. PICK d : d = Emit(c2, load)
    OBVIOUS
  <2>7. /\ ir' = d /\ registers' = registers + 1 /\ allocas' = allocas
        /\ frames' = Pop /\ node' = NoExp
        /\ expValue' = Register(registers + 1, condType)
    BY <1>8, <2>2, <2>4, <2>5, <2>6 DEF condMerge, Yield
  <2>8. IROK(c2) /\ Len(c2.blocks) = Len(ir.blocks)
    BY <2>3, <2>4, Moved
  <2>9. Agreed(load)
    BY <2>5 DEF Agreed, Load
  <2>10. IROK(d) /\ Len(d.blocks) = Len(ir.blocks)
    BY <2>6, <2>8, <2>9, Emitted
  <2>11. Grown
    <3>1. Len(ir.blocks) <= Len(d.blocks) /\ registers' \in Nat /\ allocas' \in Nat
      BY <1>2, <2>7, <2>10, BlocksAre
    <3> QED BY <1>5, <2>7, <2>10, <3>1
  <2>12. expValue'.type = type[PathOf(Pop)]
    BY <2>3, <2>7 DEF Register, Apply
  <2>13. IsTerm(expValue')
    BY <2>7, LeafTerm DEF Register
  <2>14. Returned(expValue', Top.exp, PathOf(Pop), type)
    BY <1>2, <2>12, Uncompared DEF Orders, Equals
  <2> QED BY <1>1, <1>2, <2>7, <2>11, <2>13, <2>14, GenYielded
<1> QED BY <1>6, <1>7, <1>8

-----------------------------------------------------------------------------
(* The theorems *)

LEMMA InitIInv ==
  ASSUME Init
  PROVE  IInv
<1>1. /\ exp \in Exp /\ exp # NoExp /\ node = exp /\ frames = <<>> /\ phase = "typecheck"
      /\ rootParent \in {"null", "junk"} /\ resultExpType = null /\ isResultExpVariable = FALSE
      /\ type = [p \in {} |-> null]
  BY ProgramsAssumption, ExpressionAssumption DEF Init, tcInit
<1>2. /\ ir = EmptyFunction /\ registers = 0 /\ allocas = 0 /\ expValue = NoValue
  BY DEF Init
<1>3. PICK N : N = [p \in {} |-> null]
  OBVIOUS
<1>4. OnPath(exp, frames, node)
  <2>1. frames \in Seq({}) /\ Len(frames) = 0
    BY <1>1
  <2> QED BY <1>1, <2>1 DEF OnPath
<1>5. Typing(N, type) /\ DOMAIN type = {}
  BY <1>1, <1>3 DEF Typing
<1>6. Typechecking(N)
  <2>1. Len(frames) = 0 /\ ~ HasReturned
    BY <1>1 DEF HasReturned
  <2> QED BY <1>5, <2>1 DEF Typechecking
<1>7. Inv(N)
  BY <1>1, <1>4, <1>5, <1>6 DEF Inv
<1>8. IROK(ir)
  <2>1. PICK bs : bs = << <<>> >>
    OBVIOUS
  <2>2. bs \in Seq(Seq({})) /\ Len(bs) = 1 /\ bs[1] = <<>> /\ Len(bs[1]) = 0
    BY <2>1
  <2>3. ir.blocks = bs /\ ir.at = 1 /\ ir \in [blocks : Seq(Seq({})), at : Nat]
    BY <1>2, <2>1, <2>2 DEF EmptyFunction
  <2>4. /\ \E S : ir \in [blocks : Seq(Seq(S)), at : Nat]
        /\ ir.at \in 1 .. Len(ir.blocks)
    <3>1. Len(ir.blocks) = 1 /\ 1 \in 1 .. 1
      BY <2>2, <2>3
    <3>2. \E S : ir \in [blocks : Seq(Seq(S)), at : Nat]
      BY ONLY <2>3
    <3> QED BY ONLY <2>3, <3>1, <3>2
  <2>5. \A b \in 1 .. Len(ir.blocks) : b = 1
    <3>1. Len(ir.blocks) = 1
      BY <2>2, <2>3
    <3>2. \A b \in 1 .. 1 : b = 1
      OBVIOUS
    <3> QED BY <3>1, <3>2
  <2>6. \A b \in 1 .. Len(ir.blocks) : 1 .. Len(ir.blocks[b]) = {}
    BY <2>2, <2>3, <2>5
  <2> QED BY <2>4, <2>6 DEF IROK
<1>9. IsTerm(expValue) /\ expValue.type = null
  BY <1>2, LeafTerm DEF NoValue, Apply
<1> QED BY <1>1, <1>2, <1>7, <1>8, <1>9 DEF IInv, Rest

LEMMA NextIInv ==
  ASSUME IInv, [Next]_vars
  PROVE  IInv'
<1>1. PICK N : Inv(N)
  BY DEF IInv
<1>2. Rest
  BY DEF IInv
<1>3. CASE UNCHANGED vars
  <2>1. /\ UNCHANGED <<exp, rootParent, phase, frames, node, resultExpType,
                       isResultExpVariable, type>>
        /\ UNCHANGED <<ir, registers, allocas, expValue>>
    BY <1>3 DEF vars, tcVars
  <2>2. Inv(N)'
    BY <1>1, <2>1 DEF Inv, Typechecking, Generation, HasReturned, Kept, CondTypeAt, Top
  <2>3. Rest'
    BY <1>2, <2>1 DEF Rest
  <2> QED BY <2>2, <2>3 DEF IInv
<1>4. CASE tcNext /\ UNCHANGED <<ir, registers, allocas, expValue>>
  BY <1>1, <1>2, <1>4, TypecheckSteps
<1>5. CASE startCodeGen
  BY <1>5, StartSteps
<1>6. CASE genLiteral \/ genEId
  BY <1>6, GenLeafSteps
<1>7. CASE genEApp \/ genOperator \/ genEAss
  BY <1>7, GenEntrySteps
<1>8. CASE genArgument \/ genCall
  BY <1>8, GenCallSteps
<1>9. CASE genEProj \/ genSign \/ genStep
  BY <1>9, GenUnarySteps
<1>10. CASE genSecond \/ genBinary \/ genEquals \/ genLogic
  BY <1>10, GenBinarySteps
<1>11. CASE storeEAss
  BY <1>11, GenStoreSteps
<1>12. CASE condTrue \/ condFalse \/ condMerge
  BY <1>12, GenCondSteps
<1> QED
  BY <1>3, <1>4, <1>5, <1>6, <1>7, <1>8, <1>9, <1>10, <1>11, <1>12 DEF Next

(* The stack of the two visitors is the path from the root of the tree to  *)
(* the place they are at, what is noted is a typing of what was visited,   *)
(* and the values made so far have the types that are noted.               *)
THEOREM Inductive == Spec => []IInv
<1>1. Init => IInv
  BY InitIInv
<1>2. IInv /\ [Next]_vars => IInv'
  BY NextIInv
<1> QED BY <1>1, <1>2, PTL DEF Spec

(* The two visitors walk the tree: the stack is always a path of it, and   *)
(* every noted type and every value's type is a type of the program.       *)
THEOREM TypeCorrect == Spec => []TypeOK
<1>1. ASSUME IInv
      PROVE  TypeOK
  <2>1. PICK N : Inv(N)
    BY <1>1 DEF IInv
  <2>2. OnPath(exp, frames, node) /\ Typing(N, type)
    BY <2>1 DEF Inv
  <2>3. DOMAIN frames = 1 .. Len(frames)
    <3>1. PICK S : frames \in Seq(S)
      BY <2>2 DEF OnPath
    <3> QED BY <3>1
  <2>4. /\ \A i \in DOMAIN frames : frames[i].pos \in 0 .. Len(frames[i].exp.exps)
        /\ \A i \in DOMAIN frames :
             frames[i].exp = IF i = 1 THEN exp ELSE frames[i - 1].exp.exps[frames[i - 1].pos]
        /\ node # NoExp => node = IF frames = <<>> THEN exp ELSE Top.exp.exps[Top.pos]
    BY <2>2, <2>3 DEF OnPath, Top
  <2>5. \A p \in DOMAIN type : type[p] \in DOMAIN types
    BY <2>2 DEF Typing
  <2>6. ir.at \in DOMAIN ir.blocks
    BY <1>1, BlocksAre DEF IInv, Rest, IROK
  <2> QED BY <1>1, <2>4, <2>5, <2>6 DEF TypeOK, IInv, Rest
<1> QED BY <1>1, Inductive, PTL

(* Whoever reads expValue finds a value of the type the typechecker noted  *)
(* at the operand, whatever the types, variables and functions are: the    *)
(* conversions of the two visitors are the same ones.                      *)
THEOREM ValuesAsNoted == Spec => []ValueHasNotedType
<1>1. ASSUME IInv
      PROVE  ValueHasNotedType
  <2>1. PICK N : Inv(N)
    BY <1>1 DEF IInv
  <2>2. SUFFICES ASSUME phase = "codegen", node = NoExp, frames # <<>> => Top.pos > 0
                 PROVE  expValue.type = type[PathOf(frames)]
    BY DEF ValueHasNotedType
  <2>3. frames # <<>> => Top.pos \in Nat
    BY <2>1, <2>2, GenResumed
  <2>4. HasReturned
    BY <2>2, <2>3 DEF HasReturned
  <2> QED BY <2>1, <2>2, <2>4 DEF Inv, Generation, Returned
<1> QED BY <1>1, Inductive, PTL

(* What is noted in an accepted expression is a typing of it.              *)
LEMMA IsDerived ==
  ASSUME IInv, Accepted \/ phase = "codegen"
  PROVE  \E M : Derives(exp, M, type)
<1>1. PICK N : Inv(N)
  BY DEF IInv
<1>2. CASE Accepted
  <2>1. PathOf(frames) = <<>> /\ HasReturned /\ Typechecking(N) /\ frames = <<>>
    BY <1>1, <1>2 DEF Accepted, PathOf, HasReturned, Inv
  <2>2. <<>> \in DOMAIN N /\ N[<<>>] = exp
    BY <2>1 DEF Typechecking
  <2> QED BY <1>1, <2>2 DEF Derives, Inv
<1>3. CASE phase = "codegen"
  BY <1>1, <1>3 DEF Derives, Inv, Generation
<1> QED BY <1>2, <1>3

(* Every value is a term.                                                  *)
LEMMA MadeTerms ==
  ASSUME IInv
  PROVE  \A t \in Made : IsTerm(t)
<1>1. Rest /\ IROK(ir)
  BY DEF IInv, Rest
<1>2. PICK S : ir \in [blocks : Seq(Seq(S)), at : Nat]
  BY <1>1 DEF IROK
<1>3. ASSUME NEW b \in DOMAIN ir.blocks, NEW i \in DOMAIN ir.blocks[b], NEW t \in Given(ir.blocks[b][i])
      PROVE  IsTerm(t)
  <2>1. ir.blocks \in Seq(Seq(S))
    BY <1>2
  <2>2. b \in 1 .. Len(ir.blocks) /\ ir.blocks[b] \in Seq(S)
    BY <2>1
  <2>3. i \in 1 .. Len(ir.blocks[b])
    BY <2>2
  <2>4. PICK inst : inst = ir.blocks[b][i]
    OBVIOUS
  <2>5. Agreed(inst)
    BY <1>1, <2>2, <2>3, <2>4 DEF IROK
  <2>6. CASE inst.op \in {"store", "condbr"}
    BY <2>4, <2>5, <2>6 DEF Agreed, Given
  <2>7. CASE inst.op = "call"
    <3>1. PICK R : inst.args \in Seq(R)
      BY <2>5, <2>7 DEF Agreed
    <3>2. PICK j \in DOMAIN inst.args : t = inst.args[j]
      BY <2>4, <2>7 DEF Given
    <3>3. j \in 1 .. Len(inst.args)
      BY <3>1
    <3> QED BY <2>5, <2>7, <3>2, <3>3 DEF Agreed
  <2>8. CASE inst.op \notin {"store", "condbr", "call"}
    BY <2>4, <2>8 DEF Given
  <2> QED BY <2>6, <2>7, <2>8
<1>4. IsTerm(expValue)
  BY <1>1 DEF Rest
<1>5. ASSUME NEW t \in Made, t # expValue
      PROVE  IsTerm(t)
  <2>1. PICK b \in DOMAIN ir.blocks : t \in UNION {Given(ir.blocks[b][i]) : i \in DOMAIN ir.blocks[b]}
    BY <1>5 DEF Made
  <2>2. PICK i \in DOMAIN ir.blocks[b] : t \in Given(ir.blocks[b][i])
    BY <2>1
  <2> QED BY <1>3, <2>2
<1> QED BY <1>4, <1>5

(* The terms inside terms of a closed set are in that set, at any depth.   *)
LEMMA NestedInside ==
  ASSUME NEW W, ClosedTerms(W), Made \subseteq W
  PROVE  \A n \in Nat : Nested[n] \subseteq W
<1> DEFINE by(n, F) == IF n = 0 THEN Made ELSE UNION {SubTerms(t) : t \in F[n - 1]}
<1>1. PICK h : h = [n \in Nat |-> n]
  OBVIOUS
<1>2. PICK kids : kids = [n \in Nat |-> {m \in Nat : n = m + 1}]
  OBVIOUS
<1>3. h \in [Nat -> Nat] /\ kids \in [Nat -> SUBSET Nat] /\ Lower(Nat, h, kids)
  BY <1>1, <1>2 DEF Lower
<1>4. \A n \in Nat : n # 0 => n - 1 \in kids[n]
  BY <1>2
<1>5. ASSUME NEW n \in Nat, NEW g, \A m \in kids[n] : g[m] \in SUBSET W
      PROVE  by(n, g) \in SUBSET W
  BY <1>4, <1>5 DEF ClosedTerms
<1>6. PICK step : step = [n \in Nat |-> [g \in [kids[n] -> SUBSET W] |-> by(n, g)]]
  OBVIOUS
<1>7. ASSUME NEW n \in Nat, NEW f, NEW g, g = [m \in kids[n] |-> f[m]]
      PROVE  by(n, g) = by(n, f)
  BY <1>4, <1>7
<1> HIDE DEF by
<1>8. \A n \in Nat : \A g \in [kids[n] -> SUBSET W] : step[n][g] = by(n, g) /\ step[n][g] \in SUBSET W
  BY <1>5, <1>6
<1>9. PICK f \in [Nat -> SUBSET W] : Computes(f, Nat, kids, step)
  BY ONLY <1>3, <1>8, TreeFunction
<1>10. ASSUME NEW n \in Nat
       PROVE  f[n] = by(n, f)
  <2>1. PICK g : g = [m \in kids[n] |-> f[m]]
    OBVIOUS
  <2>2. g \in [kids[n] -> SUBSET W]
    BY <1>3, <2>1
  <2>3. f[n] = step[n][g]
    BY <1>9, <2>1 DEF Computes
  <2> QED BY <1>7, <1>8, <2>1, <2>2, <2>3
<1> DEFINE sol(F) == F = [n \in Nat |-> by(n, F)]
<1>11. Nested = CHOOSE F : sol(F)
  BY DEF Nested, by
<1>12. sol(f)
  BY <1>9, <1>10
<1> HIDE DEF sol
<1>13. sol(Nested)
  BY <1>11, <1>12
<1>14. \A n \in Nat : Nested[n] = by(n, Nested)
  BY <1>13 DEF sol
<1>15. PICK P : P = {n \in Nat : Nested[n] \in SUBSET W}
  OBVIOUS
<1>16. Hereditary(Nat, kids, P)
  <2>1. ASSUME NEW n \in Nat, kids[n] \subseteq P
        PROVE  n \in P
    BY <1>5, <1>14, <1>15, <2>1
  <2> QED BY <2>1 DEF Hereditary
<1>17. Nat \subseteq P
  BY ONLY <1>3, <1>16, TreeInduction
<1> QED BY <1>15, <1>17

(* LLVM converts nothing by itself: every store gets a value of the type   *)
(* of its memory, every call arguments of the types of the parameters, as  *)
(* many of them, every branch a bool, and every operation that a value is  *)
(* made by values of the types it works on, in all the code that is made.  *)
THEOREM Agreement == Spec => []OperandsAgree
<1>1. ASSUME IInv
      PROVE  OperandsAgree
  <2>1. \A t \in Made : IsTerm(t)
    BY <1>1, MadeTerms
  <2> DEFINE with(t) == CHOOSE W : t \in W /\ ClosedTerms(W)
  <2>2. \A t \in Made : t \in with(t) /\ ClosedTerms(with(t))
    BY <2>1 DEF IsTerm
  <2> HIDE DEF with
  <2>3. PICK W : W = UNION {with(t) : t \in Made}
    OBVIOUS
  <2>4. ClosedTerms(W) /\ Made \subseteq W
    <3>1. ASSUME NEW u \in W
          PROVE  OperationTyped(u) /\ SubTerms(u) \subseteq W
      <4>1. PICK t \in Made : u \in with(t)
        BY <2>3
      <4>2. with(t) \subseteq W
        BY <2>3
      <4> QED BY <2>2, <4>1, <4>2 DEF ClosedTerms
    <3> QED BY <2>2, <2>3, <3>1 DEF ClosedTerms
  <2>5. \A n \in 0 .. Depth : \A t \in Nested[n] : OperationTyped(t)
    <3>1. \A n \in 0 .. Depth : n \in Nat
      BY DepthAssumption
    <3> QED BY <2>4, <3>1, NestedInside DEF ClosedTerms
  <2>6. Rest /\ IROK(ir)
    BY <1>1 DEF IInv, Rest
  <2>7. PICK S : ir \in [blocks : Seq(Seq(S)), at : Nat]
    BY <2>6 DEF IROK
  <2>8. ASSUME NEW b \in DOMAIN ir.blocks, NEW i \in DOMAIN ir.blocks[b],
               NEW inst, inst = ir.blocks[b][i]
        PROVE  /\ inst.op = "store"  => inst.value.type = inst.ptr.type
               /\ inst.op = "call"   =>
                    [j \in DOMAIN inst.args |-> inst.args[j].type] = functions[inst.function].parameters
               /\ inst.op = "condbr" => inst.value.type = TYPE_BOOL
    <3>1. ir.blocks \in Seq(Seq(S))
      BY <2>7
    <3>2. b \in 1 .. Len(ir.blocks) /\ ir.blocks[b] \in Seq(S)
      BY <3>1
    <3>3. i \in 1 .. Len(ir.blocks[b])
      BY <3>2
    <3>4. Agreed(inst)
      BY <2>6, <2>8, <3>2, <3>3 DEF IROK
    <3>5. ASSUME inst.op = "call"
          PROVE  [j \in DOMAIN inst.args |-> inst.args[j].type] = functions[inst.function].parameters
      <4>1. PICK ps : ps = functions[inst.function].parameters
        OBVIOUS
      <4>2. ps \in Seq(DOMAIN types \ {TYPE_VOID})
        BY <3>4, <3>5, <4>1, ExpressionAssumption DEF Agreed, Signature
      <4>3. PICK R : inst.args \in Seq(R)
        BY <3>4, <3>5 DEF Agreed
      <4>4. DOMAIN ps = 1 .. Len(ps) /\ DOMAIN inst.args = 1 .. Len(inst.args)
        BY <4>2, <4>3
      <4>5. /\ Len(inst.args) = Len(ps)
            /\ \A j \in 1 .. Len(inst.args) : inst.args[j].type = ps[j]
        BY <3>4, <3>5, <4>1 DEF Agreed
      <4>6. ps = [j \in 1 .. Len(ps) |-> ps[j]]
        BY <4>2
      <4> QED BY <4>1, <4>4, <4>5, <4>6
    <3> QED BY <3>4, <3>5 DEF Agreed
  <2> QED BY <2>5, <2>8 DEF OperandsAgree
<1> QED BY <1>1, Inductive, PTL

-----------------------------------------------------------------------------
(* The judgement *)

Types == DOMAIN types \cup {null}

(* Results are types.                                                      *)
LEMMA TypeByRange ==
  ASSUME NEW e \in Exp, NEW ts \in [1 .. Len(e.exps) -> Types]
  PROVE  TypeBy(e, ts) \in Types
<1>1. TYPE_INT \in Types /\ TYPE_DOUBLE \in Types /\ TYPE_BOOL \in Types
  BY ExpressionAssumption DEF Types, TYPE_INT, TYPE_DOUBLE, TYPE_BOOL
<1>2. CASE ~ Fits(e, ts)
  BY <1>2 DEF TypeBy, Types
<1>3. CASE Fits(e, ts)
  <2>1. TypeBy(e, ts) = TypeGiven(e, ts)
    BY <1>3 DEF TypeBy
  <2>2. e.op \in Steps \cup Signs \cup {"EAss", "EProj"} => ts[1] \in Types
    <3>1. e.op \in Steps \cup Signs \cup {"EAss", "EProj"} => Len(e.exps) \in {1, 2}
      BY ExpParts DEF Binary
    <3>2. ASSUME Len(e.exps) \in {1, 2}
          PROVE  ts[1] \in Types
      <4>1. 1 \in 1 .. Len(e.exps)
        BY <3>2
      <4> QED BY <4>1
    <3> QED BY <3>1, <3>2
  <2>3. e.op = "ECond" => ts[2] \in Types
    <3>1. e.op = "ECond" => Len(e.exps) = 3
      BY ExpParts
    <3>2. ASSUME Len(e.exps) = 3
          PROVE  ts[2] \in Types
      <4>1. 2 \in 1 .. Len(e.exps)
        BY <3>2
      <4> QED BY <4>1
    <3> QED BY <3>1, <3>2
  <2>4. e.op = "EId" => symbols[e.val] \in Types
    BY <1>3, ExpressionAssumption DEF Fits, Types
  <2>5. e.op = "EApp" => functions[e.val].returnType \in Types
    BY <1>3, ExpressionAssumption DEF Fits, Types, Signature
  <2>6. e.op = "EProj" => getMember(ts[1], e.val) \in Types
    <3>1. ASSUME e.op = "EProj", e.val \in DOMAIN types[ts[1]].members
          PROVE  types[ts[1]].members[e.val] \in Types
      <4>1. ts[1] \in DOMAIN types
        BY <1>3, <2>2, <3>1 DEF Fits, Types
      <4>2. types[ts[1]].members[e.val] \in 1 .. ts[1] - 1 /\ ts[1] \in 1 .. Len(types)
        BY <3>1, <4>1, ExpressionAssumption
      <4>3. Len(types) \in Nat \/ DOMAIN types = {}
        OBVIOUS
      <4> QED BY <4>1, <4>2, ExpressionAssumption DEF Types
    <3> QED BY <3>1 DEF getMember, Types
  <2> QED
    BY <1>1, <2>1, <2>2, <2>3, <2>4, <2>5, <2>6 DEF TypeGiven
<1> QED BY <1>2, <1>3

(* The recursive definition of TypeOf has a solution.                      *)
LEMMA TypeOfIs ==
  /\ TypeOf \in [Exp -> Types]
  /\ \A e \in Exp : TypeOf[e] = TypeBy(e, [k \in 1 .. Len(e.exps) |-> TypeOf[e.exps[k]]])
<1>1. PICK step : step = [e \in Exp |-> [g \in [Operands[e] -> Types] |->
                            TypeBy(e, [k \in 1 .. Len(e.exps) |-> g[e.exps[k]]])]]
  OBVIOUS
<1>2. ASSUME NEW e \in Exp, NEW g \in [Operands[e] -> Types]
      PROVE  /\ step[e][g] = TypeBy(e, [k \in 1 .. Len(e.exps) |-> g[e.exps[k]]])
             /\ step[e][g] \in Types
  <2>1. step[e][g] = TypeBy(e, [k \in 1 .. Len(e.exps) |-> g[e.exps[k]]])
    BY <1>1
  <2>2. PICK ts : ts = [k \in 1 .. Len(e.exps) |-> g[e.exps[k]]]
    OBVIOUS
  <2>3. \A k \in 1 .. Len(e.exps) : e.exps[k] \in Operands[e]
    BY DEF Operands
  <2>4. ts \in [1 .. Len(e.exps) -> Types]
    BY <2>2, <2>3
  <2> QED BY <2>1, <2>2, <2>4, TypeByRange
<1>3. \A e \in Exp : \A g \in [Operands[e] -> Types] : step[e][g] \in Types
  BY <1>2
<1>4. PICK f \in [Exp -> Types] : Computes(f, Exp, Operands, step)
  BY <1>3, OperandsLower, TreeFunction
<1>5. ASSUME NEW e \in Exp
      PROVE  f[e] = TypeBy(e, [k \in 1 .. Len(e.exps) |-> f[e.exps[k]]])
  <2>1. PICK g : g = [k \in Operands[e] |-> f[k]]
    OBVIOUS
  <2>2. \A k \in 1 .. Len(e.exps) : e.exps[k] \in Operands[e]
    BY DEF Operands
  <2>3. g \in [Operands[e] -> Types]
    BY <2>1, OperandsLower
  <2>4. f[e] = step[e][g]
    BY <1>4, <2>1 DEF Computes
  <2>5. [k \in 1 .. Len(e.exps) |-> g[e.exps[k]]] = [k \in 1 .. Len(e.exps) |-> f[e.exps[k]]]
    BY <2>1, <2>2
  <2> QED BY <1>2, <2>3, <2>4, <2>5
<1>6. \A e \in Exp : DOMAIN e.exps = 1 .. Len(e.exps)
  BY ExpParts
<1>7. f = [e \in Exp |-> TypeBy(e, [k \in DOMAIN e.exps |-> f[e.exps[k]]])]
  BY <1>4, <1>5, <1>6
<1>8. TypeOf = [e \in Exp |-> TypeBy(e, [k \in DOMAIN e.exps |-> TypeOf[e.exps[k]]])]
  <2> DEFINE sol(F) == F = [e \in Exp |-> TypeBy(e, [k \in DOMAIN e.exps |-> F[e.exps[k]]])]
  <2>1. sol(f)
    BY <1>7
  <2>2. TypeOf = CHOOSE F : sol(F)
    BY DEF TypeOf
  <2> HIDE DEF sol
  <2>3. sol(TypeOf)
    BY <2>1, <2>2
  <2> QED BY <2>3 DEF sol
<1>9. ASSUME NEW e \in Exp
      PROVE  TypeOf[e] = TypeBy(e, [k \in 1 .. Len(e.exps) |-> TypeOf[e.exps[k]]])
  BY <1>6, <1>8
<1>10. PICK P : P = {e \in Exp : TypeOf[e] \in Types}
  OBVIOUS
<1>11. Hereditary(Exp, Operands, P)
  <2>1. ASSUME NEW e \in Exp, Operands[e] \subseteq P
        PROVE  e \in P
    <3>1. PICK ts : ts = [k \in 1 .. Len(e.exps) |-> TypeOf[e.exps[k]]]
      OBVIOUS
    <3>2. \A k \in 1 .. Len(e.exps) : e.exps[k] \in Operands[e]
      BY DEF Operands
    <3>3. ts \in [1 .. Len(e.exps) -> Types]
      BY <1>10, <2>1, <3>1, <3>2
    <3> QED BY <1>9, <1>10, <3>1, <3>3, TypeByRange
  <2> QED BY <2>1 DEF Hereditary
<1>12. TypeOf \in [Exp -> Types]
  <2>1. Exp \subseteq P
    BY <1>11, OperandsLower, TreeInduction
  <2> QED BY <1>8, <1>10, <2>1
<1> QED BY <1>9, <1>12

(* The recursive definition of Subtrees has a solution.                    *)
PathTrees == [path : Seq(Nat), tree : Exp]

SubtreesBy(e, subs) ==
  {Located(<<>>, e)} \cup UNION {Under(k, subs[k]) : k \in 1 .. Len(e.exps)}

LEMMA SubtreesByRange ==
  ASSUME NEW e \in Exp, NEW subs \in [1 .. Len(e.exps) -> SUBSET PathTrees]
  PROVE  SubtreesBy(e, subs) \in SUBSET PathTrees
<1>1. Located(<<>>, e) \in PathTrees
  BY DEF Located, PathTrees
<1>2. ASSUME NEW k \in 1 .. Len(e.exps), NEW s \in subs[k]
      PROVE  Located(<<k>> \o s.path, s.tree) \in PathTrees
  <2>1. s \in PathTrees
    OBVIOUS
  <2>2. s.path \in Seq(Nat) /\ s.tree \in Exp
    BY <2>1 DEF PathTrees
  <2>3. <<k>> \in Seq(Nat)
    BY ExpParts
  <2>4. <<k>> \o s.path \in Seq(Nat)
    BY <2>2, <2>3
  <2> QED BY <2>2, <2>4 DEF Located, PathTrees
<1>3. ASSUME NEW x \in SubtreesBy(e, subs)
      PROVE  x \in PathTrees
  <2>1. CASE x = Located(<<>>, e)
    BY <1>1, <2>1
  <2>2. CASE x # Located(<<>>, e)
    <3>1. PICK k \in 1 .. Len(e.exps) : \E s \in subs[k] : x = Located(<<k>> \o s.path, s.tree)
      BY <2>2 DEF SubtreesBy, Under
    <3>2. PICK s \in subs[k] : x = Located(<<k>> \o s.path, s.tree)
      BY <3>1
    <3> QED BY <1>2, <3>2
  <2> QED BY <2>1, <2>2
<1> QED BY <1>3

LEMMA SubtreesAre ==
  /\ Subtrees \in [Exp -> SUBSET PathTrees]
  /\ \A e \in Exp : Subtrees[e] = SubtreesBy(e, [k \in 1 .. Len(e.exps) |-> Subtrees[e.exps[k]]])
<1>1. PICK step : step = [e \in Exp |-> [g \in [Operands[e] -> SUBSET PathTrees] |->
                            SubtreesBy(e, [k \in 1 .. Len(e.exps) |-> g[e.exps[k]]])]]
  OBVIOUS
<1>2. ASSUME NEW e \in Exp, NEW g \in [Operands[e] -> SUBSET PathTrees]
      PROVE  /\ step[e][g] = SubtreesBy(e, [k \in 1 .. Len(e.exps) |-> g[e.exps[k]]])
             /\ step[e][g] \in SUBSET PathTrees
  <2>1. step[e][g] = SubtreesBy(e, [k \in 1 .. Len(e.exps) |-> g[e.exps[k]]])
    BY <1>1
  <2>2. PICK subs : subs = [k \in 1 .. Len(e.exps) |-> g[e.exps[k]]]
    OBVIOUS
  <2>3. \A k \in 1 .. Len(e.exps) : e.exps[k] \in Operands[e]
    BY DEF Operands
  <2>4. subs \in [1 .. Len(e.exps) -> SUBSET PathTrees]
    BY <2>2, <2>3
  <2> QED BY <2>1, <2>2, <2>4, SubtreesByRange
<1>3. \A e \in Exp : \A g \in [Operands[e] -> SUBSET PathTrees] : step[e][g] \in SUBSET PathTrees
  BY <1>2
<1>4. PICK f \in [Exp -> SUBSET PathTrees] : Computes(f, Exp, Operands, step)
  BY <1>3, OperandsLower, TreeFunction
<1>5. ASSUME NEW e \in Exp
      PROVE  f[e] = SubtreesBy(e, [k \in 1 .. Len(e.exps) |-> f[e.exps[k]]])
  <2>1. PICK g : g = [k \in Operands[e] |-> f[k]]
    OBVIOUS
  <2>2. \A k \in 1 .. Len(e.exps) : e.exps[k] \in Operands[e]
    BY DEF Operands
  <2>3. g \in [Operands[e] -> SUBSET PathTrees]
    BY <2>1, OperandsLower
  <2>4. f[e] = step[e][g]
    BY <1>4, <2>1 DEF Computes
  <2>5. [k \in 1 .. Len(e.exps) |-> g[e.exps[k]]] = [k \in 1 .. Len(e.exps) |-> f[e.exps[k]]]
    BY <2>1, <2>2
  <2> QED BY <1>2, <2>3, <2>4, <2>5
<1> DEFINE by(F, e) == {Located(<<>>, e)} \cup UNION {Under(k, F[e.exps[k]]) : k \in DOMAIN e.exps}
<1>6. ASSUME NEW F, NEW e \in Exp
      PROVE  by(F, e) = SubtreesBy(e, [k \in 1 .. Len(e.exps) |-> F[e.exps[k]]])
  <2>1. DOMAIN e.exps = 1 .. Len(e.exps)
    BY ExpParts
  <2>2. PICK subs : subs = [k \in 1 .. Len(e.exps) |-> F[e.exps[k]]]
    OBVIOUS
  <2>3. \A k \in 1 .. Len(e.exps) : subs[k] = F[e.exps[k]]
    BY <2>2
  <2>4. by(F, e) = SubtreesBy(e, subs)
    BY <2>1, <2>3 DEF SubtreesBy
  <2> QED BY <2>2, <2>4
<1>7. Subtrees = CHOOSE F : F = [e \in Exp |-> by(F, e)]
  BY DEF Subtrees
<1> HIDE DEF by
<1>8. f = [e \in Exp |-> by(f, e)]
  BY <1>4, <1>5, <1>6
<1>9. Subtrees = [e \in Exp |-> by(Subtrees, e)]
  BY <1>7, <1>8
<1>10. ASSUME NEW e \in Exp
       PROVE  Subtrees[e] = SubtreesBy(e, [k \in 1 .. Len(e.exps) |-> Subtrees[e.exps[k]]])
  BY <1>6, <1>9
<1>11. PICK P : P = {e \in Exp : Subtrees[e] \in SUBSET PathTrees}
  OBVIOUS
<1>12. Hereditary(Exp, Operands, P)
  <2>1. ASSUME NEW e \in Exp, Operands[e] \subseteq P
        PROVE  e \in P
    <3>1. PICK subs : subs = [k \in 1 .. Len(e.exps) |-> Subtrees[e.exps[k]]]
      OBVIOUS
    <3>2. \A k \in 1 .. Len(e.exps) : e.exps[k] \in Operands[e]
      BY DEF Operands
    <3>3. subs \in [1 .. Len(e.exps) -> SUBSET PathTrees]
      BY <1>11, <2>1, <3>1, <3>2
    <3> QED BY <1>10, <1>11, <3>1, <3>3, SubtreesByRange
  <2> QED BY <2>1 DEF Hereditary
<1>13. Subtrees \in [Exp -> SUBSET PathTrees]
  <2>1. Exp \subseteq P
    BY <1>12, OperandsLower, TreeInduction
  <2> QED BY <1>9, <1>11, <2>1
<1> QED BY <1>10, <1>13

(* A subtree is the tree itself or a subtree of an operand.                *)
LEMMA SubtreeFacts ==
  ASSUME NEW e \in Exp
  PROVE  /\ Located(<<>>, e) \in Subtrees[e]
         /\ \A k \in 1 .. Len(e.exps) : \A s \in Subtrees[e.exps[k]] :
              Located(<<k>> \o s.path, s.tree) \in Subtrees[e]
         /\ \A x \in Subtrees[e] :
              /\ x = Located(x.path, x.tree) /\ x.path \in Seq(Nat) /\ x.tree \in Exp
              /\ \/ x = Located(<<>>, e)
                 \/ \E k \in 1 .. Len(e.exps) : \E s \in Subtrees[e.exps[k]] :
                      x = Located(<<k>> \o s.path, s.tree)
<1>1. PICK subs : subs = [k \in 1 .. Len(e.exps) |-> Subtrees[e.exps[k]]]
  OBVIOUS
<1>2. Subtrees[e] = SubtreesBy(e, subs)
  BY <1>1, SubtreesAre
<1>3. \A k \in 1 .. Len(e.exps) : subs[k] = Subtrees[e.exps[k]]
  BY <1>1
<1>4. Located(<<>>, e) \in Subtrees[e]
  BY <1>2 DEF SubtreesBy
<1>5. ASSUME NEW k \in 1 .. Len(e.exps), NEW s \in Subtrees[e.exps[k]]
      PROVE  Located(<<k>> \o s.path, s.tree) \in Subtrees[e]
  <2>1. Located(<<k>> \o s.path, s.tree) \in Under(k, subs[k])
    BY <1>3 DEF Under
  <2> QED BY <1>2, <2>1 DEF SubtreesBy
<1>6. ASSUME NEW x \in Subtrees[e]
      PROVE  /\ x = Located(x.path, x.tree) /\ x.path \in Seq(Nat) /\ x.tree \in Exp
             /\ \/ x = Located(<<>>, e)
                \/ \E k \in 1 .. Len(e.exps) : \E s \in Subtrees[e.exps[k]] :
                     x = Located(<<k>> \o s.path, s.tree)
  <2>1. x \in PathTrees
    BY SubtreesAre
  <2>2. x = Located(x.path, x.tree) /\ x.path \in Seq(Nat) /\ x.tree \in Exp
    BY <2>1 DEF PathTrees, Located
  <2>3. CASE x # Located(<<>>, e)
    <3>1. PICK k \in 1 .. Len(e.exps) : x \in Under(k, subs[k])
      BY <1>2, <2>3 DEF SubtreesBy
    <3>2. PICK s \in subs[k] : x = Located(<<k>> \o s.path, s.tree)
      BY <3>1 DEF Under
    <3> QED BY <1>3, <2>2, <3>2
  <2> QED BY <2>2, <2>3
<1> QED BY <1>4, <1>5, <1>6

(* Going down from a path.                                                 *)
LEMMA PathSums ==
  ASSUME NEW q \in Seq(Nat), NEW k \in Nat, NEW p \in Seq(Nat)
  PROVE  q \o (<<k>> \o p) = Append(q, k) \o p
<1>1. <<k>> \in Seq(Nat)
  OBVIOUS
<1> DEFINE u == <<k>> \o p
           v == Append(q, k)
<1>2. PICK a : a = q \o u
  OBVIOUS
<1>3. PICK b : b = v \o p
  OBVIOUS
<1>4. /\ a \in Seq(Nat) /\ b \in Seq(Nat) /\ Len(a) = Len(b)
      /\ \A i \in 1 .. Len(a) : a[i] = b[i]
  <2>1. /\ u \in Seq(Nat) /\ Len(u) = 1 + Len(p) /\ u[1] = k
        /\ \A i \in 2 .. Len(p) + 1 : u[i] = p[i - 1]
    BY <1>1
  <2>2. /\ v \in Seq(Nat) /\ Len(v) = Len(q) + 1 /\ v[Len(q) + 1] = k
        /\ \A i \in 1 .. Len(q) : v[i] = q[i]
    BY AppendFacts
  <2> HIDE DEF u, v
  <2>3. /\ a \in Seq(Nat) /\ Len(a) = Len(q) + Len(u)
        /\ \A i \in 1 .. Len(q) + Len(u) : a[i] = IF i <= Len(q) THEN q[i] ELSE u[i - Len(q)]
    BY <1>2, <2>1, ConcatProperties
  <2>4. /\ b \in Seq(Nat) /\ Len(b) = Len(v) + Len(p)
        /\ \A i \in 1 .. Len(v) + Len(p) : b[i] = IF i <= Len(v) THEN v[i] ELSE p[i - Len(v)]
    <3>1. v \in Seq(Nat) /\ p \in Seq(Nat)
      BY <2>2
    <3> QED BY ONLY <1>3, <3>1, ConcatProperties
  <2>5. Len(q) \in Nat /\ Len(p) \in Nat
    OBVIOUS
  <2>6. Len(a) = Len(b) /\ Len(a) = Len(q) + 1 + Len(p)
    BY <2>1, <2>2, <2>3, <2>4, <2>5
  <2>7. ASSUME NEW i \in 1 .. Len(a)
        PROVE  a[i] = b[i]
    <3>1. i \in Nat
      BY <2>5, <2>6
    <3>2. CASE i <= Len(q)
      <4>1. i <= Len(v) /\ i \in 1 .. Len(q) + Len(u) /\ i \in 1 .. Len(v) + Len(p) /\ i \in 1 .. Len(q)
        BY <2>1, <2>2, <2>5, <2>6, <3>1, <3>2
      <4> QED BY <2>2, <2>3, <2>4, <3>2, <4>1
    <3>3. CASE i = Len(q) + 1
      <4>1. /\ i <= Len(v) /\ i \in 1 .. Len(q) + Len(u) /\ i \in 1 .. Len(v) + Len(p)
            /\ ~ (i <= Len(q)) /\ i - Len(q) = 1
        BY <2>1, <2>2, <2>5, <2>6, <3>3
      <4> QED BY <2>1, <2>2, <2>3, <2>4, <3>3, <4>1
    <3>4. CASE i > Len(q) + 1
      <4>1. /\ i \in 1 .. Len(q) + Len(u) /\ i \in 1 .. Len(v) + Len(p)
            /\ ~ (i <= Len(q)) /\ ~ (i <= Len(v))
            /\ i - Len(q) \in 2 .. Len(p) + 1 /\ i - Len(q) - 1 = i - Len(v)
        <5>1. PICK j : j = Len(q)
          OBVIOUS
        <5>2. PICK m : m = Len(p)
          OBVIOUS
        <5>3. /\ Len(a) = j + 1 + m /\ Len(v) = j + 1 /\ Len(u) = m + 1
              /\ j \in Nat /\ m \in Nat /\ i \in Nat /\ i > j + 1 /\ i \in 1 .. Len(a)
          BY <2>1, <2>2, <2>5, <2>6, <3>1, <3>4, <5>1, <5>2
        <5> QED BY ONLY <5>1, <5>2, <5>3
      <4> QED BY <2>1, <2>3, <2>4, <4>1
    <3> QED BY <2>5, <3>1, <3>2, <3>3, <3>4
  <2> QED BY <2>3, <2>4, <2>6, <2>7
<1>5. a = b
  BY ONLY <1>4, SeqEqual
<1> QED BY <1>2, <1>3, <1>5

LEMMA AppendUnder ==
  ASSUME NEW k \in Nat, NEW p \in Seq(Nat), NEW j \in Nat
  PROVE  <<k>> \o Append(p, j) = Append(<<k>> \o p, j)
<1>1. <<k>> \in Seq(Nat)
  OBVIOUS
<1>6. PICK c : c = <<k>> \o Append(p, j)
  OBVIOUS
<1>7. PICK d : d = Append(<<k>> \o p, j)
  OBVIOUS
<1>8. /\ c \in Seq(Nat) /\ d \in Seq(Nat) /\ Len(c) = Len(d)
      /\ \A i \in 1 .. Len(c) : c[i] = d[i]
  BY <1>1, <1>6, <1>7
<1>9. c = d
  BY ONLY <1>8, SeqEqual
<1> QED BY <1>6, <1>7, <1>9

(* The operands of a subtree are subtrees.                                 *)
LEMMA SubtreeOperand ==
  ASSUME NEW e \in Exp, NEW s \in Subtrees[e], NEW k \in 1 .. Len(s.tree.exps)
  PROVE  Located(Append(s.path, k), s.tree.exps[k]) \in Subtrees[e]
<1> DEFINE Closed(f) == \A x \in Subtrees[f] : \A j \in 1 .. Len(x.tree.exps) :
              Located(Append(x.path, j), x.tree.exps[j]) \in Subtrees[f]
<1>1. PICK P : P = {f \in Exp : Closed(f)}
  OBVIOUS
<1>2. Hereditary(Exp, Operands, P)
  <2>1. ASSUME NEW f \in Exp, Operands[f] \subseteq P
        PROVE  Closed(f)
    <3>1. ASSUME NEW x \in Subtrees[f], NEW j \in 1 .. Len(x.tree.exps)
          PROVE  Located(Append(x.path, j), x.tree.exps[j]) \in Subtrees[f]
      <4>1. x.path \in Seq(Nat) /\ x.tree \in Exp
        BY SubtreeFacts
      <4>2. x.tree.exps[j] \in Exp /\ j \in Nat
        BY <4>1, ExpParts
      <4>3. CASE x = Located(<<>>, f)
        <5>1. x.path = <<>> /\ x.tree = f
          BY <4>3 DEF Located
        <5>2. f.exps[j] \in Exp /\ j \in 1 .. Len(f.exps)
          BY <4>2, <5>1
        <5>3. PICK d : d = Located(<<>>, f.exps[j])
          OBVIOUS
        <5>4. d \in Subtrees[f.exps[j]] /\ d.path = <<>> /\ d.tree = f.exps[j]
          BY <5>2, <5>3, SubtreeFacts DEF Located
        <5>5. Located(<<j>> \o d.path, d.tree) \in Subtrees[f]
          BY <5>2, <5>4, SubtreeFacts
        <5>6. <<j>> \o <<>> = Append(<<>>, j)
          OBVIOUS
        <5> QED BY <5>1, <5>4, <5>5, <5>6
      <4>4. ASSUME NEW i \in 1 .. Len(f.exps), NEW y \in Subtrees[f.exps[i]],
                   x = Located(<<i>> \o y.path, y.tree)
            PROVE  Located(Append(x.path, j), x.tree.exps[j]) \in Subtrees[f]
        <5>1. f.exps[i] \in Exp /\ f.exps[i] \in P /\ i \in Nat
          BY <2>1, ExpParts DEF Operands
        <5>2. x.path = <<i>> \o y.path /\ x.tree = y.tree /\ y.path \in Seq(Nat)
          BY <4>4, <5>1, SubtreeFacts DEF Located
        <5>3. PICK d : d = Located(Append(y.path, j), y.tree.exps[j])
          OBVIOUS
        <5>4. d \in Subtrees[f.exps[i]] /\ d.path = Append(y.path, j) /\ d.tree = y.tree.exps[j]
          BY <1>1, <5>1, <5>2, <5>3 DEF Located
        <5>5. Located(<<i>> \o d.path, d.tree) \in Subtrees[f]
          BY <5>1, <5>4, SubtreeFacts
        <5>6. <<i>> \o Append(y.path, j) = Append(<<i>> \o y.path, j)
          BY <4>2, <5>1, <5>2, AppendUnder
        <5> QED BY <5>2, <5>4, <5>5, <5>6
      <4> QED BY <4>3, <4>4, SubtreeFacts
    <3> QED BY <3>1
  <2> HIDE DEF Closed
  <2> QED BY <1>1, <2>1 DEF Hereditary
<1>3. Exp \subseteq P
  BY <1>2, OperandsLower, TreeInduction
<1> QED BY <1>1, <1>3

(* A typing has all the subtrees of its trees.                             *)
LEMMA TypingSubtrees ==
  ASSUME NEW M, NEW T, Typing(M, T), NEW q \in DOMAIN M, NEW s \in Subtrees[M[q]]
  PROVE  q \o s.path \in DOMAIN M /\ M[q \o s.path] = s.tree
<1> DEFINE Found(f) == \A p \in DOMAIN M : M[p] = f =>
              \A x \in Subtrees[f] : p \o x.path \in DOMAIN M /\ M[p \o x.path] = x.tree
<1>1. PICK P : P = {f \in Exp : Found(f)}
  OBVIOUS
<1>2. Hereditary(Exp, Operands, P)
  <2>1. ASSUME NEW f \in Exp, Operands[f] \subseteq P
        PROVE  Found(f)
    <3>1. ASSUME NEW p \in DOMAIN M, M[p] = f, NEW x \in Subtrees[f]
          PROVE  p \o x.path \in DOMAIN M /\ M[p \o x.path] = x.tree
      <4>1. p \in Seq(Nat) /\ OperandsNoted(M, f, p)
        BY <3>1 DEF Typing
      <4>2. CASE x = Located(<<>>, f)
        <5>1. x.path = <<>> /\ x.tree = f
          BY <4>2 DEF Located
        <5>2. p \o <<>> = p
          BY <4>1
        <5> QED BY <3>1, <5>1, <5>2
      <4>3. ASSUME NEW i \in 1 .. Len(f.exps), NEW y \in Subtrees[f.exps[i]],
                   x = Located(<<i>> \o y.path, y.tree)
            PROVE  p \o x.path \in DOMAIN M /\ M[p \o x.path] = x.tree
        <5>1. f.exps[i] \in Exp /\ f.exps[i] \in P /\ i \in Nat
          BY <2>1, ExpParts DEF Operands
        <5>2. x.path = <<i>> \o y.path /\ x.tree = y.tree /\ y.path \in Seq(Nat)
          BY <4>3, <5>1, SubtreeFacts DEF Located
        <5>3. Append(p, i) \in DOMAIN M /\ M[Append(p, i)] = f.exps[i]
          BY <4>1 DEF OperandsNoted
        <5>4. Append(p, i) \o y.path \in DOMAIN M /\ M[Append(p, i) \o y.path] = y.tree
          BY <1>1, <5>1, <5>3
        <5>5. p \o (<<i>> \o y.path) = Append(p, i) \o y.path
          BY <4>1, <5>1, <5>2, PathSums
        <5> QED BY <5>2, <5>4, <5>5
      <4> QED BY <4>2, <4>3, SubtreeFacts
    <3> QED BY <3>1
  <2> HIDE DEF Found
  <2> QED BY <1>1, <2>1 DEF Hereditary
<1>3. Exp \subseteq P
  BY <1>2, OperandsLower, TreeInduction
<1>4. M[q] \in Exp
  BY DEF Typing
<1> QED BY <1>1, <1>3, <1>4

(* What the rules derive is what the judgement gives.                      *)
LEMMA RuleGives ==
  ASSUME NEW e \in Exp, NEW ts, NEW t \in DOMAIN types,
         \A k \in 1 .. Len(e.exps) : ts[k] \in DOMAIN types, Rule(e, ts, t)
  PROVE  TypeBy(e, ts) = t
<1>1. \A u \in DOMAIN types : u # null
  BY ExpressionAssumption DEF null
<1>2. /\ e.op \in Literals \cup {"EId", "EApp", "EProj", "ECond"} \cup Steps \cup Signs \cup Binary
      /\ DOMAIN e.exps = 1 .. Len(e.exps)
      /\ e.op \in Steps \cup Signs \cup {"EProj"} => Len(e.exps) = 1
      /\ e.op \in Binary => Len(e.exps) = 2
      /\ e.op = "ECond" => Len(e.exps) = 3
  BY ExpParts
<1>3. /\ e.op \in Steps \cup Signs \cup {"EProj"} => ts[1] \in DOMAIN types
      /\ e.op \in Binary => ts[1] \in DOMAIN types /\ ts[2] \in DOMAIN types
      /\ e.op = "ECond" => ts[1] \in DOMAIN types /\ ts[2] \in DOMAIN types /\ ts[3] \in DOMAIN types
  <2>1. 1 \in 1 .. 1 /\ 1 \in 1 .. 2 /\ 2 \in 1 .. 2 /\ 1 \in 1 .. 3 /\ 2 \in 1 .. 3 /\ 3 \in 1 .. 3
    OBVIOUS
  <2> QED BY <1>2, <2>1
<1> DEFINE ops == Literals \cup {"EId", "EApp", "EProj", "ECond"}
<1>4. Fits(e, ts)
  <2>1. CASE e.op \in ops
    BY <1>1, <1>2, <1>3, <2>1
       DEF Rule, Fits, Place, Literals, Steps, Signs, Sums, Orders, Equals, Logic
  <2>2. CASE e.op \in Steps \cup Signs
    BY <1>3, <2>2 DEF Rule, Fits, Place, Steps, Signs, Sums, Orders, Equals, Logic
  <2>3. CASE e.op \in Sums \cup {"ETwc"} \cup Orders
    BY <1>3, <2>3 DEF Rule, Fits, Place, Steps, Signs, Sums, Orders, Equals, Logic
  <2>4. CASE e.op \in Equals \cup Logic \cup {"EAss"}
    <3>1. e.op \in Binary
      BY <2>4 DEF Binary
    <3> QED BY <1>1, <1>3, <2>4, <3>1 DEF Rule, Fits, Place, Steps, Signs, Sums, Orders, Equals, Logic
  <2> QED BY <1>2, <2>1, <2>2, <2>3, <2>4 DEF Binary
<1>5. TypeGiven(e, ts) = t
  <2>1. CASE e.op \in ops
    BY <2>1 DEF Rule, TypeGiven, LiteralType, Literals, Steps, Signs, Sums
  <2>2. CASE e.op \in Steps \cup Signs
    BY <2>2 DEF Rule, TypeGiven, Steps, Signs, Sums
  <2>3. CASE e.op \in Sums
    BY <2>3 DEF Rule, TypeGiven, Steps, Signs, Sums, Number, TYPE_INT, TYPE_DOUBLE
  <2>4. CASE e.op \in {"ETwc", "EAss"} \cup Orders \cup Equals \cup Logic
    BY <2>4 DEF Rule, TypeGiven, Steps, Signs, Sums, Orders, Equals, Logic
  <2> QED BY <1>2, <2>1, <2>2, <2>3, <2>4 DEF Binary
<1> QED BY <1>4, <1>5 DEF TypeBy

(* A typing gives every tree the type the judgement gives it.              *)
LEMMA TypingIsJudgement ==
  ASSUME NEW M, NEW T, Typing(M, T), NEW q \in DOMAIN M
  PROVE  T[q] = TypeOf[M[q]]
<1> DEFINE Same(f) == \A p \in DOMAIN M : M[p] = f => T[p] = TypeOf[f]
<1>1. PICK P : P = {f \in Exp : Same(f)}
  OBVIOUS
<1>2. Hereditary(Exp, Operands, P)
  <2>1. ASSUME NEW f \in Exp, Operands[f] \subseteq P
        PROVE  Same(f)
    <3>1. ASSUME NEW p \in DOMAIN M, M[p] = f
          PROVE  T[p] = TypeOf[f]
      <4>1. /\ OperandsNoted(M, f, p) /\ T[p] \in DOMAIN types
            /\ Rule(f, OperandTypes(f, p, T), T[p])
        BY <3>1 DEF Typing
      <4>2. PICK ts : ts = [k \in 1 .. Len(f.exps) |-> TypeOf[f.exps[k]]]
        OBVIOUS
      <4>3. ASSUME NEW k \in 1 .. Len(f.exps)
            PROVE  T[Append(p, k)] = TypeOf[f.exps[k]] /\ T[Append(p, k)] \in DOMAIN types
        <5>1. Append(p, k) \in DOMAIN M /\ M[Append(p, k)] = f.exps[k]
          BY <4>1 DEF OperandsNoted
        <5>2. f.exps[k] \in P
          BY <2>1 DEF Operands
        <5> QED BY <1>1, <5>1, <5>2 DEF Typing
      <4>4. OperandTypes(f, p, T) = ts
        BY <4>2, <4>3 DEF OperandTypes
      <4>5. \A k \in 1 .. Len(f.exps) : ts[k] \in DOMAIN types
        BY <4>2, <4>3
      <4>6. TypeBy(f, ts) = T[p]
        BY <4>1, <4>4, <4>5, RuleGives
      <4> QED BY <4>2, <4>6, TypeOfIs
    <3> QED BY <3>1
  <2> HIDE DEF Same
  <2> QED BY <1>1, <2>1 DEF Hereditary
<1>3. Exp \subseteq P
  BY <1>2, OperandsLower, TreeInduction
<1>4. M[q] \in Exp
  BY DEF Typing
<1> QED BY <1>1, <1>3, <1>4

(* A typed tree has typed operands that fit.                               *)
LEMMA TypedOperands ==
  ASSUME NEW e \in Exp, TypeOf[e] # null
  PROVE  /\ \A k \in 1 .. Len(e.exps) : TypeOf[e.exps[k]] # null
         /\ Fits(e, [k \in 1 .. Len(e.exps) |-> TypeOf[e.exps[k]]])
<1>1. PICK ts : ts = [k \in 1 .. Len(e.exps) |-> TypeOf[e.exps[k]]]
  OBVIOUS
<1>2. TypeOf[e] = TypeBy(e, ts)
  BY <1>1, TypeOfIs
<1>3. Fits(e, ts)
  BY <1>2 DEF TypeBy
<1>4. /\ e.op \in Literals \cup {"EId", "EApp", "EProj", "ECond"} \cup Steps \cup Signs \cup Binary
      /\ DOMAIN e.exps = 1 .. Len(e.exps)
      /\ e.op \in Literals \cup {"EId"} => Len(e.exps) = 0
      /\ e.op \in Steps \cup Signs \cup {"EProj"} => Len(e.exps) = 1
      /\ e.op \in Binary => Len(e.exps) = 2
      /\ e.op = "ECond" => Len(e.exps) = 3
  BY ExpParts
<1>5. \A t \in Number : t # null
  BY DEF Number, TYPE_INT, TYPE_DOUBLE, null
<1>6. \A t \in DOMAIN types : ~ isConvertibleTo(null, t)
  BY ExpressionAssumption DEF isConvertibleTo, null, TYPE_INT
<1>7. TYPE_BOOL # null
  BY DEF TYPE_BOOL, null
<1>8. ASSUME NEW k \in 1 .. Len(e.exps)
      PROVE  ts[k] # null
  <2>1. CASE e.op \in Literals \cup {"EId"}
    BY <1>4, <2>1
  <2>2. CASE e.op = "EApp"
    <3>1. /\ e.val \in DOMAIN functions
          /\ Len(functions[e.val].parameters) = Len(e.exps)
          /\ isConvertibleTo(ts[k], functions[e.val].parameters[k])
      BY <1>3, <1>4, <2>2 DEF Fits
    <3>2. functions[e.val].parameters \in Seq(DOMAIN types)
      <4>1. functions[e.val] \in Signature
        BY <3>1, ExpressionAssumption
      <4>2. functions[e.val].parameters \in Seq(DOMAIN types \ {TYPE_VOID})
        BY <4>1 DEF Signature
      <4> QED BY <4>2
    <3>3. functions[e.val].parameters[k] \in DOMAIN types
      BY <3>1, <3>2
    <3> QED BY <1>6, <3>1, <3>3
  <2>3. CASE e.op \in Steps \cup Signs \cup {"EProj"}
    <3>1. k = 1
      <4>1. Len(e.exps) = 1
        BY <1>4, <2>3
      <4>2. k \in 1 .. 1
        BY <4>1
      <4> QED BY <4>2
    <3>2. CASE e.op = "EProj"
      BY <1>3, <3>1, <3>2 DEF Fits
    <3>3. CASE e.op \in Steps \cup Signs
      BY <1>3, <1>5, <3>1, <3>3 DEF Fits
    <3> QED BY <2>3, <3>2, <3>3
  <2>4. CASE e.op \in Sums \cup {"ETwc"} \cup Orders
    <3>1. k \in {1, 2}
      <4>1. Len(e.exps) = 2
        BY <1>4, <2>4 DEF Binary
      <4>2. k \in 1 .. 2
        BY <4>1
      <4> QED BY <4>2
    <3> QED BY <1>3, <1>5, <2>4, <3>1 DEF Fits
  <2>5. CASE e.op \in Equals \cup Logic
    <3>1. k \in {1, 2}
      <4>1. Len(e.exps) = 2
        BY <1>4, <2>5 DEF Binary
      <4>2. k \in 1 .. 2
        BY <4>1
      <4> QED BY <4>2
    <3> QED BY <1>3, <1>7, <2>5, <3>1 DEF Fits
  <2>6. CASE e.op = "EAss"
    <3>1. k \in {1, 2}
      <4>1. Len(e.exps) = 2
        BY <1>4, <2>6 DEF Binary
      <4>2. k \in 1 .. 2
        BY <4>1
      <4> QED BY <4>2
    <3>2. ts[1] # null /\ isConvertibleTo(ts[2], ts[1])
      BY <1>3, <2>6 DEF Fits
    <3>3. ts[2] # null
      BY <3>2 DEF isConvertibleTo, TYPE_INT, null
    <3> QED BY <3>1, <3>2, <3>3
  <2>7. CASE e.op = "ECond"
    <3>1. k \in {1, 2, 3}
      <4>1. Len(e.exps) = 3
        BY <1>4, <2>7
      <4>2. k \in 1 .. 3
        BY <4>1
      <4> QED BY <4>2
    <3> QED BY <1>3, <1>7, <2>7, <3>1 DEF Fits
  <2> QED BY <1>4, <2>1, <2>2, <2>3, <2>4, <2>5, <2>6, <2>7 DEF Binary
<1> QED BY <1>1, <1>3, <1>8

(* The handlers on a stack, and the tree entered next, are in the tree.    *)
LEMMA StackSubtrees ==
  ASSUME NEW e, NEW fr, NEW nd, OnPath(e, fr, nd)
  PROVE  /\ \A i \in 1 .. Len(fr) : Located(PathTo(fr, i - 1), fr[i].exp) \in Subtrees[e]
         /\ nd # NoExp => Located(PathOf(fr), nd) \in Subtrees[e]
<1> DEFINE In(i) == Located(PathTo(fr, i - 1), fr[i].exp) \in Subtrees[e]
<1>0. /\ Len(fr) \in Nat
      /\ fr = <<>> <=> Len(fr) = 0
      /\ PathTo(fr, Len(fr)) = PathOf(fr)
      /\ \A i \in 0 .. Len(fr) :
           i > 0 => PathTo(fr, i) = Append(PathTo(fr, i - 1), fr[i].pos)
  BY ONLY ZenonT(40), OnPath(e, fr, nd), Positions
<1>1. /\ e \in Exp
      /\ \A i \in 1 .. Len(fr) : /\ fr[i].exp \in Exp
                                 /\ fr[i].pos \in 0 .. Len(fr[i].exp.exps)
                                 /\ i < Len(fr) \/ nd # NoExp \/ fr[i].exp.op # "EApp" => fr[i].pos >= 1
                                 /\ fr[i].exp = IF i = 1 THEN e ELSE fr[i - 1].exp.exps[fr[i - 1].pos]
      /\ nd # NoExp => nd = IF fr = <<>> THEN e ELSE fr[Len(fr)].exp.exps[fr[Len(fr)].pos]
  BY DEF OnPath
<1>2. PathTo(fr, 0) = <<>>
  BY DEF PathTo
<1>3. ASSUME NEW i \in 1 .. Len(fr), In(i), fr[i].pos >= 1
      PROVE  Located(PathTo(fr, i), fr[i].exp.exps[fr[i].pos]) \in Subtrees[e]
  <2>1. PICK s : s = Located(PathTo(fr, i - 1), fr[i].exp)
    OBVIOUS
  <2>2. s \in Subtrees[e] /\ s.path = PathTo(fr, i - 1) /\ s.tree = fr[i].exp
    BY <1>3, <2>1 DEF Located
  <2>3. fr[i].pos \in 1 .. Len(s.tree.exps)
    BY <1>0, <1>1, <1>3, <2>2, ExpParts
  <2>4. Located(Append(s.path, fr[i].pos), s.tree.exps[fr[i].pos]) \in Subtrees[e]
    BY <1>0, <1>1, <2>2, <2>3, SubtreeOperand
  <2>5. i \in 0 .. Len(fr) /\ i > 0
    BY <1>0, <1>1
  <2> QED BY <1>0, <1>1, <2>2, <2>4, <2>5
<1>4. PICK T : T = {i \in 1 .. Len(fr) : ~ In(i)}
  OBVIOUS
<1>5. ASSUME T # {}
      PROVE  FALSE
  <2>1. T \subseteq Nat
    BY <1>0, <1>1, <1>4
  <2>2. PICK i \in T : \A j \in T : i <= j
    BY <1>5, <2>1, NatLeast
  <2>3. i \in 1 .. Len(fr) /\ ~ In(i)
    BY <1>4, <2>2
  <2>4. CASE i = 1
    <3>1. PathTo(fr, i - 1) = <<>> /\ fr[i].exp = e
      BY <1>0, <1>1, <1>2, <2>3, <2>4
    <3> QED BY <1>0, <1>1, <2>3, <3>1, SubtreeFacts
  <2>5. CASE i # 1
    <3>1. i - 1 \in 1 .. Len(fr) /\ i - 1 \notin T /\ i - 1 < Len(fr)
      BY <1>0, <1>1, <2>2, <2>3, <2>5
    <3>2. In(i - 1) /\ fr[i - 1].pos >= 1 /\ fr[i].exp = fr[i - 1].exp.exps[fr[i - 1].pos]
      BY <1>0, <1>1, <1>4, <2>3, <2>5, <3>1
    <3> QED BY <1>3, <2>3, <3>1, <3>2
  <2> QED BY <2>4, <2>5
<1>6. \A i \in 1 .. Len(fr) : In(i)
  BY <1>4, <1>5
<1>7. ASSUME nd # NoExp
      PROVE  Located(PathOf(fr), nd) \in Subtrees[e]
  <2>1. CASE fr = <<>>
    <3>1. PathOf(fr) = <<>> /\ nd = e
      BY <1>0, <1>1, <1>2, <1>7, <2>1
    <3> QED BY <1>0, <1>1, <3>1, SubtreeFacts
  <2>2. CASE fr # <<>>
    <3>1. Len(fr) \in 1 .. Len(fr) /\ nd = fr[Len(fr)].exp.exps[fr[Len(fr)].pos]
      BY <1>0, <1>1, <1>7, <2>2
    <3>2. fr[Len(fr)].pos >= 1
      BY <1>0, <1>1, <1>7, <3>1
    <3> QED BY <1>0, <1>1, <1>3, <1>6, <3>1, <3>2
  <2> QED BY <2>1, <2>2
<1> QED BY <1>6, <1>7

(* A typed tree has typed subtrees.                                        *)
LEMMA TypedSubtrees ==
  ASSUME NEW e \in Exp, TypeOf[e] # null, NEW s \in Subtrees[e]
  PROVE  TypeOf[s.tree] # null
<1> DEFINE AllTyped(f) == TypeOf[f] # null => \A x \in Subtrees[f] : TypeOf[x.tree] # null
<1>1. PICK P : P = {f \in Exp : AllTyped(f)}
  OBVIOUS
<1>2. Hereditary(Exp, Operands, P)
  <2>1. ASSUME NEW f \in Exp, Operands[f] \subseteq P
        PROVE  AllTyped(f)
    <3>1. ASSUME TypeOf[f] # null, NEW x \in Subtrees[f]
          PROVE  TypeOf[x.tree] # null
      <4>1. CASE x = Located(<<>>, f)
        BY <3>1, <4>1 DEF Located
      <4>2. ASSUME NEW i \in 1 .. Len(f.exps), NEW y \in Subtrees[f.exps[i]],
                   x = Located(<<i>> \o y.path, y.tree)
            PROVE  TypeOf[x.tree] # null
        <5>1. f.exps[i] \in P /\ TypeOf[f.exps[i]] # null
          BY <2>1, <3>1, TypedOperands DEF Operands
        <5>2. x.tree = y.tree
          BY <4>2 DEF Located
        <5>3. AllTyped(f.exps[i])
          BY <1>1, <5>1
        <5>4. TypeOf[y.tree] # null
          BY <5>1, <5>3
        <5> QED BY <5>2, <5>4
      <4>3. \/ x = Located(<<>>, f)
            \/ \E i \in 1 .. Len(f.exps) : \E y \in Subtrees[f.exps[i]] :
                 x = Located(<<i>> \o y.path, y.tree)
        BY SubtreeFacts
      <4> QED BY <4>1, <4>2, <4>3
    <3> QED BY <3>1
  <2> HIDE DEF AllTyped
  <2> QED BY <1>1, <2>1 DEF Hereditary
<1>3. Exp \subseteq P
  BY <1>2, OperandsLower, TreeInduction
<1> QED BY <1>1, <1>3

-----------------------------------------------------------------------------
(* Every typed expression is accepted *)

(* No call found fault with its arguments.                                 *)
Faultless(fr) == \A i \in 1 .. Len(fr) : fr[i].exp.op = "EApp" => fr[i].local = FALSE

(* What is noted is in the tree; of a typed tree nothing is rejected.      *)
Judged ==
  /\ \A q \in DOMAIN type : \E s \in Subtrees[exp] : s.path = q
  /\ TypeOf[exp] # null =>
       /\ phase \notin {"rejected", "crashed"}
       /\ phase = "typecheck" => Faultless(frames)

(* A tree that is entered in a typed expression fits.                      *)
LEMMA JudgedEntering ==
  ASSUME NEW N, Inv(N), node # NoExp, TypeOf[exp] # null
  PROVE  /\ node \in Exp /\ exp \in Exp
         /\ Fits(node, [k \in 1 .. Len(node.exps) |-> TypeOf[node.exps[k]]])
<1>1. OnPath(exp, frames, node) /\ exp \in Exp /\ node \in Exp
  BY DEF Inv, OnPath
<1>2. PICK s : s = Located(PathOf(frames), node)
  OBVIOUS
<1>3. s \in Subtrees[exp] /\ s.tree = node
  BY <1>1, <1>2, StackSubtrees DEF Located
<1>4. TypeOf[node] # null
  BY <1>1, <1>3, TypedSubtrees
<1> QED BY <1>1, <1>4, TypedOperands

(* So does one whose handler goes on, with the operands it has visited.    *)
LEMMA JudgedResuming ==
  ASSUME NEW N, Inv(N), phase = "typecheck", node = NoExp, frames # <<>>, TypeOf[exp] # null
  PROVE  \E ts :
           /\ ts = [k \in 1 .. Len(Top.exp.exps) |-> TypeOf[Top.exp.exps[k]]]
           /\ Top.exp \in Exp
           /\ Fits(Top.exp, ts)
           /\ Top.pos \in Nat /\ Top.pos <= Len(Top.exp.exps)
           /\ Top.pos >= 1 => /\ resultExpType = ts[Top.pos]
                              /\ isResultExpVariable <=> Place(Top.exp.exps[Top.pos])
           /\ \A k \in 1 .. Top.pos : ts[k] \in DOMAIN types
           /\ Top.exp.op \in Binary /\ Top.pos = 2 => Top.local = ts[1]
           /\ Top.exp.op = "ECond" /\ Top.pos = 3 => Top.local = ts[2]
<1>1. /\ Top.exp \in Exp
      /\ Top.pos \in Nat /\ Top.pos <= Len(Top.exp.exps)
      /\ PathTo(frames, Len(frames) - 1) = PathOf(Pop)
      /\ OperandsChecked(Top, PathOf(Pop), Top.pos, N, type)
      /\ Top.pos >= 1 =>
           /\ resultExpType = type[Append(PathOf(Pop), Top.pos)]
           /\ isResultExpVariable <=> Place(Top.exp.exps[Top.pos])
  BY Resumed
<1>2. OnPath(exp, frames, node) /\ Typing(N, type) /\ exp \in Exp
  BY DEF Inv, OnPath
<1>3. PICK ts : ts = [k \in 1 .. Len(Top.exp.exps) |-> TypeOf[Top.exp.exps[k]]]
  OBVIOUS
<1>4. Fits(Top.exp, ts)
  <2>1. PICK s : s = Located(PathTo(frames, Len(frames) - 1), frames[Len(frames)].exp)
    OBVIOUS
  <2>2. Len(frames) \in 1 .. Len(frames)
    BY <1>2, Positions
  <2>3. s \in Subtrees[exp] /\ s.tree = Top.exp
    BY <1>2, <2>1, <2>2, StackSubtrees DEF Located, Top
  <2>4. TypeOf[Top.exp] # null
    BY <1>2, <2>3, TypedSubtrees
  <2> QED BY <1>1, <1>3, <2>4, TypedOperands
<1>5. ASSUME NEW k \in 1 .. Top.pos
      PROVE  type[Append(PathOf(Pop), k)] = ts[k] /\ ts[k] \in DOMAIN types
  <2>1. Append(PathOf(Pop), k) \in DOMAIN N /\ N[Append(PathOf(Pop), k)] = Top.exp.exps[k]
    BY <1>1 DEF OperandsChecked
  <2>2. type[Append(PathOf(Pop), k)] = TypeOf[Top.exp.exps[k]]
    BY <1>2, <2>1, TypingIsJudgement
  <2>3. k \in 1 .. Len(Top.exp.exps)
    BY <1>1, ExpParts
  <2> QED BY <1>2, <1>3, <2>1, <2>2, <2>3 DEF Typing
<1>6. PICK us : us = [k \in 1 .. Top.pos |-> type[Append(PathOf(Pop), k)]]
  OBVIOUS
<1>7. Checked(Top, us) /\ \A k \in 1 .. Top.pos : us[k] = ts[k]
  BY <1>1, <1>5, <1>6 DEF OperandsChecked
<1>8. Top.exp.op \in Binary /\ Top.pos = 2 => Top.local = ts[1]
  <2>1. Top.pos = 2 => 1 \in 1 .. Top.pos
    OBVIOUS
  <2> QED BY <1>7, <2>1 DEF Checked
<1>9. Top.exp.op = "ECond" /\ Top.pos = 3 => Top.local = ts[2]
  <2>1. Top.pos = 3 => 2 \in 1 .. Top.pos
    OBVIOUS
  <2> QED BY <1>7, <2>1 DEF Checked
<1>10. Top.pos >= 1 => resultExpType = ts[Top.pos]
  <2>1. Top.pos >= 1 => Top.pos \in 1 .. Top.pos
    BY <1>1
  <2> QED BY <1>1, <1>5, <2>1
<1> QED BY <1>1, <1>3, <1>4, <1>5, <1>8, <1>9, <1>10

(* A result is noted inside the tree.                                      *)
LEMMA JudgedLeaf ==
  ASSUME NEW N, Inv(N), Judged, phase = "typecheck", node # NoExp, NEW t, NEW v, Leaf(t, v)
  PROVE  Judged'
<1>1. OnPath(exp, frames, node)
  BY DEF Inv
<1>2. PICK s : s = Located(PathOf(frames), node)
  OBVIOUS
<1>3. s \in Subtrees[exp] /\ s.path = PathOf(frames)
  BY <1>1, <1>2, StackSubtrees DEF Located
<1>4. /\ exp' = exp /\ frames' = frames /\ phase' = phase
      /\ DOMAIN type' = DOMAIN type \cup {PathOf(frames)}
  BY DEF Leaf, Result
<1> QED BY <1>3, <1>4 DEF Judged

LEMMA JudgedReturn ==
  ASSUME NEW N, Inv(N), Judged, phase = "typecheck", node = NoExp, frames # <<>>,
         NEW t, NEW v, Return(t, v)
  PROVE  Judged'
<1>1. OnPath(exp, frames, NoExp)
  BY DEF Inv
<1>2. /\ Len(Pop) = Len(frames) - 1
      /\ \A i \in 1 .. Len(Pop) : Pop[i] = frames[i]
      /\ \A i \in 0 .. Len(Pop) : PathTo(Pop, i) = PathTo(frames, i)
      /\ PathTo(Pop, Len(Pop)) = PathOf(Pop)
      /\ Len(frames) \in 1 .. Len(frames)
  BY <1>1, Popped DEF Pop
<1>3. Len(frames) \in Nat
  BY <1>1, Positions
<1>4. PathTo(frames, Len(frames) - 1) = PathOf(Pop)
  <2>1. Len(Pop) \in 0 .. Len(Pop)
    BY <1>2, <1>3
  <2> QED BY <1>2, <2>1
<1>5. PICK s : s = Located(PathTo(frames, Len(frames) - 1), frames[Len(frames)].exp)
  OBVIOUS
<1>6. s \in Subtrees[exp] /\ s.path = PathOf(Pop)
  BY <1>1, <1>2, <1>4, <1>5, StackSubtrees DEF Located
<1>7. /\ exp' = exp /\ frames' = Pop /\ phase' = phase
      /\ DOMAIN type' = DOMAIN type \cup {PathOf(Pop)}
  BY DEF Return, Result
<1>8. Faultless(frames) => Faultless(Pop)
  BY <1>2, <1>3 DEF Faultless
<1> QED BY <1>6, <1>7, <1>8 DEF Judged

(* A handler that is entered has found no fault yet.                       *)
LEMMA JudgedPush ==
  ASSUME NEW N, Inv(N), Judged, phase = "typecheck", NEW f,
         frames' = Append(frames, f), GoOn,
         TypeOf[exp] # null /\ f.exp.op = "EApp" => f.local = FALSE
  PROVE  Judged'
<1>1. \E S : frames \in Seq(S)
  BY DEF Inv, OnPath
<1>2. exp' = exp /\ phase' = phase /\ type' = type
  BY DEF GoOn, result
<1>3. /\ Len(frames) \in Nat
      /\ Len(Append(frames, f)) = Len(frames) + 1
      /\ Append(frames, f)[Len(frames) + 1] = f
      /\ \A i \in 1 .. Len(frames) : Append(frames, f)[i] = frames[i]
  BY <1>1
<1>4. TypeOf[exp] # null /\ Faultless(frames) => Faultless(Append(frames, f))
  BY <1>3 DEF Faultless
<1> QED BY <1>2, <1>4 DEF Judged

(* One that goes on finds none.                                            *)
LEMMA JudgedNext ==
  ASSUME NEW N, Inv(N), Judged, phase = "typecheck", node = NoExp, frames # <<>>,
         NEW l, NextOperand(l), GoOn,
         TypeOf[exp] # null /\ Top.exp.op = "EApp" => l = FALSE
  PROVE  Judged'
<1>1. \E S : frames \in Seq(S)
  BY DEF Inv, OnPath
<1>2. exp' = exp /\ phase' = phase /\ type' = type
  BY DEF GoOn, result
<1>3. /\ Len(frames) \in Nat /\ Len(frames) > 0
      /\ \E S : Pop \in Seq(S)
      /\ Len(Pop) = Len(frames) - 1
      /\ \A i \in 1 .. Len(Pop) : Pop[i] = frames[i]
  BY <1>1, FrontFacts DEF Pop
<1>4. PICK f : f = Frame(Top.exp, Top.pos + 1, l)
  OBVIOUS
<1>5. frames' = Append(Pop, f) /\ f.exp = Top.exp /\ f.local = l
  BY <1>4 DEF NextOperand, Frame
<1>6. /\ Len(Append(Pop, f)) = Len(Pop) + 1
      /\ Append(Pop, f)[Len(Pop) + 1] = f
      /\ \A i \in 1 .. Len(Pop) : Append(Pop, f)[i] = Pop[i]
  BY <1>3
<1>7. TypeOf[exp] # null /\ Faultless(frames) => Faultless(Append(Pop, f))
  BY <1>3, <1>5, <1>6 DEF Faultless
<1> QED BY <1>2, <1>5, <1>7 DEF Judged

(* What is rejected has no type.                                           *)
LEMMA JudgedStop ==
  ASSUME Judged, NEW how, Stop(how), TypeOf[exp] = null
  PROVE  Judged'
BY DEF Judged, Stop, result

LEMMA JudgedLeaves ==
  ASSUME NEW N, Inv(N), Judged, visitLiteral \/ visitEId \/ visitEApp \/ visitOperator
  PROVE  Judged'
<1>1. phase = "typecheck" /\ node # NoExp
  BY DEF visitLiteral, visitEId, visitEApp, visitOperator, Entering
<1>2. CASE visitLiteral
  BY <1>1, <1>2, JudgedLeaf DEF visitLiteral
<1>3. CASE visitEId
  <2>1. CASE node.val \in DOMAIN symbols
    BY <1>1, <1>3, <2>1, JudgedLeaf DEF visitEId
  <2>2. CASE node.val \notin DOMAIN symbols
    <3>1. node.op = "EId"
      BY <1>3 DEF visitEId, Entering
    <3>2. TypeOf[exp] = null
      BY <1>1, <2>2, <3>1, JudgedEntering DEF Fits
    <3> QED BY <1>3, <2>2, <3>2, JudgedStop DEF visitEId, Unknown, Throw
  <2> QED BY <2>1, <2>2
<1>4. CASE visitEApp
  <2>1. node.op = "EApp"
    BY <1>4 DEF visitEApp, Entering
  <2>2. CASE node.val \in DOMAIN functions
    <3>1. PICK f : f = Frame(node, 0, Len(functions[node.val].parameters) # Len(node.exps))
      OBVIOUS
    <3>2. frames' = Append(frames, f) /\ GoOn
      BY <1>4, <2>2, <3>1 DEF visitEApp
    <3>3. TypeOf[exp] # null => f.local = FALSE
      BY <1>1, <2>1, <3>1, JudgedEntering DEF Fits, Frame
    <3> QED BY <1>1, <3>2, <3>3, JudgedPush
  <2>3. CASE node.val \notin DOMAIN functions
    <3>1. TypeOf[exp] = null
      BY <1>1, <2>1, <2>3, JudgedEntering DEF Fits
    <3> QED BY <1>4, <2>3, <3>1, JudgedStop DEF visitEApp, Unknown, Throw
  <2> QED BY <2>2, <2>3
<1>5. CASE visitOperator
  <2>1. PICK f : f = Frame(node, 1, null)
    OBVIOUS
  <2>2. frames' = Append(frames, f) /\ GoOn
    BY <1>5, <2>1 DEF visitOperator, Call
  <2>3. f.exp.op # "EApp"
    BY <1>5, <2>1 DEF visitOperator, Entering, Frame, Steps, Signs, Binary, Sums, Orders, Equals, Logic
  <2> QED BY <1>1, <2>2, <2>3, JudgedPush
<1> QED BY <1>2, <1>3, <1>4, <1>5

(* A handler either returns or throws.                                     *)
LEMMA JudgedEnd ==
  ASSUME NEW N, Inv(N), Judged, phase = "typecheck", node = NoExp, frames # <<>>,
         NEW t, NEW v, Return(t, v) \/ (Throw /\ TypeOf[exp] = null)
  PROVE  Judged'
BY JudgedReturn, JudgedStop DEF Throw

LEMMA JudgedCalls ==
  ASSUME NEW N, Inv(N), Judged, nextArgument \/ endEApp
  PROVE  Judged'
<1>1. phase = "typecheck" /\ node = NoExp /\ frames # <<>> /\ Top.exp.op = "EApp"
  BY DEF nextArgument, endEApp, Ending, Resuming
<1>2. ASSUME TypeOf[exp] # null
      PROVE  hasError = FALSE
  <2>1. PICK ts :
          /\ ts = [k \in 1 .. Len(Top.exp.exps) |-> TypeOf[Top.exp.exps[k]]]
          /\ Top.exp \in Exp
          /\ Fits(Top.exp, ts)
          /\ Top.pos \in Nat /\ Top.pos <= Len(Top.exp.exps)
          /\ Top.pos >= 1 => resultExpType = ts[Top.pos]
    BY <1>1, <1>2, JudgedResuming
  <2>2. /\ Top.exp.val \in DOMAIN functions
        /\ Len(functions[Top.exp.val].parameters) = Len(Top.exp.exps)
        /\ \A k \in DOMAIN Top.exp.exps : isConvertibleTo(ts[k], functions[Top.exp.val].parameters[k])
    BY <1>1, <2>1 DEF Fits
  <2>3. ASSUME Top.pos \in DOMAIN functions[Top.exp.val].parameters
        PROVE  isConvertibleTo(resultExpType, functions[Top.exp.val].parameters[Top.pos])
    <3>1. functions[Top.exp.val].parameters \in Seq(DOMAIN types)
      <4>1. functions[Top.exp.val] \in Signature
        BY <2>2, ExpressionAssumption
      <4>2. functions[Top.exp.val].parameters \in Seq(DOMAIN types \ {TYPE_VOID})
        BY <4>1 DEF Signature
      <4> QED BY <4>2
    <3>2. Top.pos \in 1 .. Len(Top.exp.exps) /\ DOMAIN Top.exp.exps = 1 .. Len(Top.exp.exps)
      BY <2>1, <2>2, <2>3, <3>1, ExpParts
    <3>3. Top.pos >= 1
      BY <3>2
    <3> QED BY <2>1, <2>2, <3>2, <3>3
  <2>4. Top.local = FALSE
    <3>1. Len(frames) \in 1 .. Len(frames)
      <4>1. OnPath(exp, frames, node)
        BY DEF Inv
      <4> QED BY <1>1, <4>1, Positions
    <3>2. Faultless(frames)
      BY <1>1, <1>2 DEF Judged
    <3> QED BY <1>1, <3>1, <3>2 DEF Faultless, Top
  <2> QED BY <2>3, <2>4 DEF hasError
<1>3. CASE nextArgument
  <2>1. PICK l : l = hasError
    OBVIOUS
  <2>2. NextOperand(l) /\ GoOn
    BY <1>3, <2>1 DEF nextArgument
  <2> QED BY <1>1, <1>2, <2>1, <2>2, JudgedNext
<1>4. CASE endEApp
  <2>1. PICK t : t = functions[Top.exp.val].returnType
    OBVIOUS
  <2>2. (hasError /\ Throw) \/ Return(t, FALSE)
    BY <1>4, <2>1 DEF endEApp
  <2> QED BY <1>1, <1>2, <2>2, JudgedEnd
<1> QED BY <1>3, <1>4

LEMMA JudgedUnary ==
  ASSUME NEW N, Inv(N), Judged, endEProj \/ endStep \/ endSign
  PROVE  Judged'
<1>1. /\ phase = "typecheck" /\ node = NoExp /\ frames # <<>>
      /\ Top.pos = Len(Top.exp.exps) /\ Top.exp.op \in {"EProj"} \cup Steps \cup Signs
  BY DEF endEProj, endStep, endSign, Ending, Resuming
<1>2. ASSUME TypeOf[exp] # null
      PROVE  /\ Top.exp.op = "EProj" => getMember(resultExpType, Top.exp.val) # null
             /\ Top.exp.op \in Steps => isResultExpVariable
             /\ Top.exp.op \in Steps \cup Signs => resultExpType \in Number
  <2>1. PICK ts :
          /\ Top.exp \in Exp
          /\ Fits(Top.exp, ts)
          /\ Top.pos >= 1 => /\ resultExpType = ts[Top.pos]
                             /\ isResultExpVariable <=> Place(Top.exp.exps[Top.pos])
    BY <1>1, <1>2, JudgedResuming
  <2>2. Top.pos = 1
    BY <1>1, <2>1, ExpParts
  <2>3. resultExpType = ts[1] /\ (isResultExpVariable <=> Place(Top.exp.exps[1]))
    BY <2>1, <2>2
  <2> QED BY <2>1, <2>3 DEF Fits, Place
<1>3. CASE endEProj
  <2>1. PICK t : t = getMember(resultExpType, Top.exp.val)
    OBVIOUS
  <2>2. (t = null /\ Throw) \/ Return(t, TRUE)
    BY <1>3, <2>1 DEF endEProj
  <2>3. Top.exp.op = "EProj"
    BY <1>3 DEF endEProj, Ending, Resuming
  <2> QED BY <1>1, <1>2, <2>1, <2>2, <2>3, JudgedEnd
<1>4. CASE endStep
  <2>1. (~ (resultExpType \in Number /\ isResultExpVariable) /\ Throw) \/ Return(resultExpType, FALSE)
    BY <1>4 DEF endStep
  <2>2. Top.exp.op \in Steps
    BY <1>4 DEF endStep, Ending, Resuming
  <2> QED BY <1>1, <1>2, <2>1, <2>2, JudgedEnd
<1>5. CASE endSign
  <2>1. (resultExpType \notin Number /\ Throw) \/ Return(resultExpType, FALSE)
    BY <1>5 DEF endSign
  <2>2. Top.exp.op \in Signs
    BY <1>5 DEF endSign, Ending, Resuming
  <2> QED BY <1>1, <1>2, <2>1, <2>2, JudgedEnd
<1> QED BY <1>3, <1>4, <1>5

LEMMA JudgedSecond ==
  ASSUME NEW N, Inv(N), Judged, secondOperand
  PROVE  Judged'
<1>1. /\ phase = "typecheck" /\ node = NoExp /\ frames # <<>>
      /\ Top.exp.op \in Binary /\ Top.pos = 1
  BY DEF secondOperand, Resuming
<1>2. ASSUME TypeOf[exp] # null
      PROVE  FirstAccepted(Top.exp.op)
  <2>1. PICK ts :
          /\ Top.exp \in Exp
          /\ Fits(Top.exp, ts)
          /\ Top.pos >= 1 => /\ resultExpType = ts[Top.pos]
                             /\ isResultExpVariable <=> Place(Top.exp.exps[Top.pos])
    BY <1>1, <1>2, JudgedResuming
  <2>2. resultExpType = ts[1] /\ (isResultExpVariable <=> Place(Top.exp.exps[1]))
    BY <1>1, <2>1
  <2>3. Top.exp.op \in Sums \cup {"ETwc"} \cup Orders => resultExpType \in Number
    BY <2>1, <2>2 DEF Fits
  <2>4. Top.exp.op \in Logic => isConvertibleTo(resultExpType, TYPE_BOOL)
    BY <2>1, <2>2 DEF Fits, isConvertibleTo
  <2>5. Top.exp.op = "EAss" => isResultExpVariable
    BY <2>1, <2>2 DEF Fits, Place
  <2> QED BY <2>3, <2>4, <2>5 DEF FirstAccepted
<1>3. CASE FirstAccepted(Top.exp.op)
  <2>1. NextOperand(resultExpType) /\ GoOn
    BY <1>3 DEF secondOperand
  <2>2. Top.exp.op # "EApp"
    BY <1>1 DEF Binary, Sums, Orders, Equals, Logic
  <2> QED BY <1>1, <2>1, <2>2, JudgedNext
<1>4. CASE ~ FirstAccepted(Top.exp.op)
  BY <1>2, <1>4, JudgedStop DEF secondOperand, Throw
<1> QED BY <1>3, <1>4

LEMMA JudgedBinary ==
  ASSUME NEW N, Inv(N), Judged, endSum \/ endETwc \/ endOrder \/ endEquals \/ endLogic \/ endEAss
  PROVE  Judged'
<1>1. /\ phase = "typecheck" /\ node = NoExp /\ frames # <<>>
      /\ Top.exp.op \in Binary
      /\ Top.pos = Len(Top.exp.exps)
  BY DEF endSum, endETwc, endOrder, endEquals, endLogic, endEAss, Ending, Resuming, Binary
<1>2. ASSUME TypeOf[exp] # null
      PROVE  /\ Top.exp.op \in Sums \cup {"ETwc"} \cup Orders =>
                  resultExpType \in Number /\ Top.local \in Number
             /\ Top.exp.op \in Logic => resultExpType = TYPE_BOOL
             /\ Top.exp.op = "EAss"  => isConvertibleTo(resultExpType, Top.local)
  <2>1. PICK ts :
          /\ Top.exp \in Exp
          /\ Fits(Top.exp, ts)
          /\ Top.pos >= 1 => resultExpType = ts[Top.pos]
          /\ Top.exp.op \in Binary /\ Top.pos = 2 => Top.local = ts[1]
    BY <1>1, <1>2, JudgedResuming
  <2>2. Top.pos = 2
    BY <1>1, <2>1, ExpParts
  <2>3. resultExpType = ts[2] /\ Top.local = ts[1]
    BY <1>1, <2>1, <2>2
  <2> QED BY <2>1, <2>3 DEF Fits
<1>3. ASSUME NEW t \in Number, NEW u \in Number
      PROVE  Convertible(t, u)
  BY <1>3 DEF Convertible, isConvertibleTo, Number
<1>4. CASE endSum
  <2>1. (\E t : Return(t, FALSE)) \/
        (Throw /\ ~ (Convertible(resultExpType, Top.local) /\ resultExpType \in Number))
    BY <1>4 DEF endSum
  <2>2. Top.exp.op \in Sums
    BY <1>4 DEF endSum, Ending, Resuming
  <2> QED BY <1>1, <1>2, <1>3, <2>1, <2>2, JudgedEnd
<1>5. CASE endETwc
  <2>1. Return(TYPE_INT, FALSE) \/ (Throw /\ resultExpType \notin Number)
    BY <1>5 DEF endETwc
  <2>2. Top.exp.op = "ETwc"
    BY <1>5 DEF endETwc, Ending, Resuming
  <2> QED BY <1>1, <1>2, <2>1, <2>2, JudgedEnd
<1>6. CASE endOrder
  <2>1. Return(TYPE_BOOL, FALSE) \/
        (Throw /\ ~ (Convertible(resultExpType, Top.local) /\ resultExpType \in Number))
    BY <1>6 DEF endOrder
  <2>2. Top.exp.op \in Orders
    BY <1>6 DEF endOrder, Ending, Resuming
  <2> QED BY <1>1, <1>2, <1>3, <2>1, <2>2, JudgedEnd
<1>7. CASE endEquals
  BY <1>1, <1>7, JudgedEnd DEF endEquals
<1>8. CASE endLogic
  <2>1. Return(TYPE_BOOL, FALSE) \/ (Throw /\ ~ isConvertibleTo(resultExpType, TYPE_BOOL))
    BY <1>8 DEF endLogic
  <2>2. Top.exp.op \in Logic
    BY <1>8 DEF endLogic, Ending, Resuming
  <2> QED BY <1>1, <1>2, <2>1, <2>2, JudgedEnd DEF isConvertibleTo
<1>9. CASE endEAss
  <2>1. Return(Top.local, FALSE) \/ (Throw /\ ~ isConvertibleTo(resultExpType, Top.local))
    BY <1>9 DEF endEAss
  <2>2. Top.exp.op = "EAss"
    BY <1>9 DEF endEAss, Ending, Resuming
  <2> QED BY <1>1, <1>2, <2>1, <2>2, JudgedEnd
<1> QED BY <1>4, <1>5, <1>6, <1>7, <1>8, <1>9

LEMMA JudgedCond ==
  ASSUME NEW N, Inv(N), Judged, nextECond \/ endECond
  PROVE  Judged'
<1>1. /\ phase = "typecheck" /\ node = NoExp /\ frames # <<>> /\ Top.exp.op = "ECond"
  BY DEF nextECond, endECond, Ending, Resuming
<1>2. ASSUME TypeOf[exp] # null
      PROVE  /\ Top.pos = 1 => isConvertibleTo(resultExpType, TYPE_BOOL)
             /\ Top.pos = Len(Top.exp.exps) => resultExpType = Top.local
  <2>1. PICK ts :
          /\ Top.exp \in Exp
          /\ Fits(Top.exp, ts)
          /\ Top.pos >= 1 => resultExpType = ts[Top.pos]
          /\ Top.exp.op = "ECond" /\ Top.pos = 3 => Top.local = ts[2]
    BY <1>1, <1>2, JudgedResuming
  <2>2. Len(Top.exp.exps) = 3
    BY <1>1, <2>1, ExpParts
  <2>3. ts[1] = TYPE_BOOL /\ ts[2] = ts[3]
    BY <1>1, <2>1 DEF Fits
  <2> QED BY <1>1, <2>1, <2>2, <2>3 DEF isConvertibleTo
<1>3. CASE nextECond
  <2>1. CASE Top.pos = 1 => isConvertibleTo(resultExpType, TYPE_BOOL)
    <3>1. NextOperand(resultExpType) /\ GoOn
      BY <1>3, <2>1 DEF nextECond
    <3> QED BY <1>1, <3>1, JudgedNext
  <2>2. CASE ~ (Top.pos = 1 => isConvertibleTo(resultExpType, TYPE_BOOL))
    BY <1>2, <1>3, <2>2, JudgedStop DEF nextECond, Throw
  <2> QED BY <2>1, <2>2
<1>4. CASE endECond
  <2>1. Return(resultExpType, FALSE) \/ (Throw /\ resultExpType # Top.local)
    BY <1>4 DEF endECond
  <2>2. Top.pos = Len(Top.exp.exps)
    BY <1>4 DEF endECond, Ending, Resuming
  <2> QED BY <1>1, <1>2, <2>1, <2>2, JudgedEnd
<1> QED BY <1>3, <1>4

(* The code generator leaves the types that are noted alone.               *)
LEMMA JudgedGenerating ==
  ASSUME Judged, phase' \notin {"typecheck", "rejected", "crashed"}, UNCHANGED <<exp, type>>
  PROVE  Judged'
BY DEF Judged

LEMMA InitJudged ==
  ASSUME Init
  PROVE  Judged
<1>1. frames = <<>> /\ phase = "typecheck" /\ DOMAIN type = {}
  BY DEF Init, tcInit
<1>2. Len(frames) = 0
  BY <1>1
<1> QED BY <1>1, <1>2 DEF Judged, Faultless

Yielded == \E v : Yield(v)

LEMMA NextJudged ==
  ASSUME IInv, Judged, [Next]_vars
  PROVE  Judged'
<1>1. PICK N : Inv(N)
  BY DEF IInv
<1>2. CASE UNCHANGED vars
  BY <1>2 DEF Judged, vars, tcVars
<1>3. CASE tcNext
  BY <1>1, <1>3, JudgedLeaves, JudgedCalls, JudgedUnary, JudgedSecond, JudgedBinary, JudgedCond
     DEF tcNext
<1>4. ASSUME Next, ~ tcNext
      PROVE  phase' \notin {"typecheck", "rejected", "crashed"} /\ UNCHANGED <<exp, type>>
  <2>1. CASE startCodeGen
    BY <2>1 DEF startCodeGen, result
  <2>2. CASE genLiteral \/ genEId \/ genEApp \/ genOperator \/ genEAss
    BY <2>2 DEF genLiteral, genEId, genEApp, genOperator, genEAss, Generating, annotated, result
  <2>3. CASE genArgument \/ genSecond \/ condTrue \/ condFalse
    BY <2>3 DEF genArgument, genSecond, condTrue, condFalse, Generated, annotated, result
  <2>4. CASE genCall \/ genEProj \/ genLogic \/ condMerge
    BY <2>4 DEF genCall, genEProj, genLogic, condMerge, GeneratedAll, Generated, Yield, annotated, result
  <2>5. ASSUME phase = "codegen", Yielded \/ Abort("unreachable") \/ Abort("nullpointer")
        PROVE  phase' \notin {"typecheck", "rejected", "crashed"} /\ UNCHANGED <<exp, type>>
    BY <2>5 DEF Yielded, Abort, Yield, annotated, result
  <2>6. CASE genStep
    <3>1. phase = "codegen"
      BY <2>6 DEF genStep, GeneratedAll, Generated
    <3>2. Yielded \/ Abort("unreachable") \/ Abort("nullpointer")
      BY <2>6 DEF genStep, CannotAssign, Yielded
    <3> QED BY <2>5, <3>1, <3>2
  <2>7. CASE genSign
    <3>1. phase = "codegen"
      BY <2>7 DEF genSign, GeneratedAll, Generated
    <3>2. Yielded \/ Abort("unreachable")
      BY <2>7 DEF genSign, Yielded
    <3> QED BY <2>5, <3>1, <3>2
  <2>8. CASE genBinary
    <3>1. phase = "codegen"
      BY <2>8 DEF genBinary, GeneratedAll, Generated
    <3>2. Yielded \/ Abort("unreachable")
      BY <2>8 DEF genBinary, Yielded
    <3> QED BY <2>5, <3>1, <3>2
  <2>9. CASE genEquals
    <3>1. phase = "codegen"
      BY <2>9 DEF genEquals, GeneratedAll, Generated
    <3>2. Yielded \/ Abort("unreachable")
      BY <2>9 DEF genEquals, Yielded
    <3> QED BY <2>5, <3>1, <3>2
  <2>10. CASE storeEAss
    <3>1. phase = "codegen"
      BY <2>10 DEF storeEAss, GeneratedAll, Generated
    <3>2. Yielded \/ Abort("unreachable") \/ Abort("nullpointer")
      BY <2>10 DEF storeEAss, CannotAssign, Yielded
    <3> QED BY <2>5, <3>1, <3>2
  <2> QED
    BY <1>4, <2>1, <2>2, <2>3, <2>4, <2>6, <2>7, <2>8, <2>9, <2>10 DEF Next
<1> QED BY <1>2, <1>3, <1>4, JudgedGenerating

(* Nothing else is noted than what a walk of the tree comes to.            *)
THEOREM JudgedAlways == Spec => []Judged
<1>1. Init => Judged
  BY InitJudged
<1>2. IInv /\ Judged /\ [Next]_vars => Judged'
  BY NextJudged
<1> QED BY <1>1, <1>2, Inductive, PTL DEF Spec

(* The verdict of the typechecker is the judgement of the language, for    *)
(* all expressions of all programs: what has a type is accepted, with the  *)
(* type of every node noted, and what has none is rejected.                *)
THEOREM Decides == Spec => []VerdictIsTyping
<1>1. ASSUME IInv, Judged, phase = "codegen" \/ Accepted
      PROVE  /\ TypeOf[exp] # null
             /\ {<<p, type[p]>> : p \in DOMAIN type} =
                  {<<s.path, TypeOf[s.tree]>> : s \in Subtrees[exp]}
  <2>1. PICK M : Derives(exp, M, type)
    BY <1>1, IsDerived
  <2>2. /\ Typing(M, type) /\ <<>> \in DOMAIN M /\ M[<<>>] = exp
        /\ DOMAIN type = DOMAIN M /\ exp \in Exp
    BY <2>1 DEF Derives, Typing
  <2>3. TypeOf[exp] # null
    <3>1. type[<<>>] = TypeOf[exp]
      BY <2>2, TypingIsJudgement
    <3>2. type[<<>>] \in DOMAIN types
      BY <2>2 DEF Typing
    <3> QED BY <3>1, <3>2, ExpressionAssumption DEF null
  <2>4. ASSUME NEW s \in Subtrees[exp]
        PROVE  s.path \in DOMAIN type /\ type[s.path] = TypeOf[s.tree]
    <3>1. s.path \in Seq(Nat)
      BY <2>2, SubtreeFacts
    <3>2. <<>> \o s.path = s.path
      BY <3>1
    <3>3. s.path \in DOMAIN M /\ M[s.path] = s.tree
      BY <2>2, <3>2, TypingSubtrees
    <3> QED BY <2>2, <3>3, TypingIsJudgement
  <2>5. \A q \in DOMAIN type : \E s \in Subtrees[exp] : s.path = q
    BY <1>1 DEF Judged
  <2> QED BY <2>3, <2>4, <2>5
<1>2. IInv /\ Judged => VerdictIsTyping
  BY <1>1 DEF Judged, VerdictIsTyping
<1> QED BY <1>2, Inductive, JudgedAlways, PTL

-----------------------------------------------------------------------------
(* Where the code generator gives up *)

(* The handler on top is in the tree, and its operands' noted types are    *)
(* those the judgement gives them.                                         *)
LEMMA GenJudged ==
  ASSUME IInv, phase = "codegen", node = NoExp, frames # <<>>
  PROVE  /\ Top.exp \in Exp
         /\ Located(PathOf(Pop), Top.exp) \in Subtrees[exp]
         /\ \A k \in 1 .. Len(Top.exp.exps) :
              OperandType(k) = TypeOf[Top.exp.exps[k]] /\ OperandType(k) \in DOMAIN types
<1>1. PICK N : Inv(N)
  BY DEF IInv
<1>2. PICK ts :
        /\ Top.exp \in Exp
        /\ OperandsNoted(N, Top.exp, PathOf(Pop))
        /\ \A k \in 1 .. Len(Top.exp.exps) : ts[k] = OperandType(k) /\ ts[k] \in DOMAIN types
  BY <1>1, GenResumed
<1>3. Typing(N, type) /\ OnPath(exp, frames, node)
  BY <1>1 DEF Inv
<1>4. ASSUME NEW k \in 1 .. Len(Top.exp.exps)
      PROVE  OperandType(k) = TypeOf[Top.exp.exps[k]]
  <2>1. Append(PathOf(Pop), k) \in DOMAIN N /\ N[Append(PathOf(Pop), k)] = Top.exp.exps[k]
    BY <1>2 DEF OperandsNoted
  <2> QED BY <1>3, <2>1, TypingIsJudgement DEF OperandType, Operand
<1>5. Located(PathOf(Pop), Top.exp) \in Subtrees[exp]
  <2>1. /\ OnPath(exp, Pop, NoExp)
        /\ Len(Pop) = Len(frames) - 1
        /\ \A i \in 0 .. Len(Pop) : PathTo(Pop, i) = PathTo(frames, i)
        /\ PathTo(Pop, Len(Pop)) = PathOf(Pop)
        /\ Len(frames) \in 1 .. Len(frames)
    BY <1>3, Popped DEF Pop, Top
  <2>2. Len(Pop) \in Nat /\ Len(Pop) \in 0 .. Len(Pop)
    BY <2>1, Positions
  <2>3. Located(PathTo(frames, Len(frames) - 1), frames[Len(frames)].exp) \in Subtrees[exp]
    BY <1>3, <2>1, StackSubtrees
  <2> QED BY <2>1, <2>2, <2>3 DEF Top
<1> QED BY <1>2, <1>4, <1>5

(* ++, -- and = give up on what is a member of no variable only.           *)
LEMMA AbortsAssigning ==
  ASSUME IInv, phase = "codegen", node = NoExp, frames # <<>>,
         Top.exp.op \in Steps \cup {"EAss"}, ~ Assignable(Top.exp.exps[1])
  PROVE  ~ Compilable(exp)
<1>1. PICK s : s = Located(PathOf(Pop), Top.exp)
  OBVIOUS
<1>2. s \in Subtrees[exp] /\ s.tree = Top.exp
  BY <1>1, GenJudged DEF Located
<1>3. ChangesTemporary(s.tree)
  BY <1>2 DEF ChangesTemporary, Assignable
<1> QED BY <1>2, <1>3 DEF Compilable

(* == and != give up on void only.                                         *)
LEMMA AbortsComparing ==
  ASSUME IInv, phase = "codegen", node = NoExp, frames # <<>>,
         Top.exp.op \in Equals, Incomparable(OperandType(1), OperandType(2))
  PROVE  ~ Compilable(exp)
<1>1. PICK s : s = Located(PathOf(Pop), Top.exp)
  OBVIOUS
<1>2. s \in Subtrees[exp] /\ s.tree = Top.exp
  BY <1>1, GenJudged DEF Located
<1>3. Len(Top.exp.exps) = 2
  BY GenJudged, ExpParts DEF Binary
<1>4. 1 \in 1 .. Len(Top.exp.exps) /\ 2 \in 1 .. Len(Top.exp.exps)
  BY <1>3
<1>5. /\ OperandType(1) = TypeOf[Top.exp.exps[1]] /\ OperandType(1) \in DOMAIN types
      /\ OperandType(2) = TypeOf[Top.exp.exps[2]]
  BY <1>4, GenJudged
<1>6. OperandType(1) # null
  BY <1>5, ExpressionAssumption DEF null
<1>7. ComparesVoid(s.tree)
  BY <1>2, <1>5, <1>6 DEF ComparesVoid
<1> QED BY <1>2, <1>7 DEF Compilable

(* Of the other operators none gives up: their operands are numbers.       *)
LEMMA NumbersDoNotAbort ==
  ASSUME IInv, genSign \/ genBinary
  PROVE  phase' = "codegen"
<1>1. PICK N : Inv(N)
  BY DEF IInv
<1>2. phase = "codegen" /\ node = NoExp /\ frames # <<>>
  BY DEF genSign, genBinary, GeneratedAll, Generated
<1>3. PICK ts :
        /\ Top.exp \in Exp
        /\ Rule(Top.exp, ts, type[PathOf(Pop)])
        /\ \A k \in 1 .. Len(Top.exp.exps) : ts[k] = OperandType(k)
  BY <1>1, <1>2, GenResumed
<1>4. ASSUME Yielded
      PROVE  phase' = "codegen"
  BY <1>2, <1>4 DEF Yielded, Yield, annotated
<1>5. CASE genSign
  <2>1. Top.exp.op \in Signs
    BY <1>5 DEF genSign, GeneratedAll, Generated
  <2>2. type[PathOf(Pop)] \in Number
    BY <1>3, <2>1 DEF Rule
  <2>3. Yielded
    BY <1>5, <2>2 DEF genSign, Yielded
  <2> QED BY <1>4, <2>3
<1>6. CASE genBinary
  <2> DEFINE t    == OperandType(1)
  <2> DEFINE u    == OperandType(2)
  <2> DEFINE kind == IF Top.exp.op = "ETwc" /\ Common(t, u) = null THEN TYPE_DOUBLE ELSE Common(t, u)
  <2>1. Top.exp.op \in Sums \cup {"ETwc"} \cup Orders
    BY <1>6 DEF genBinary, GeneratedAll, Generated
  <2>2. Len(Top.exp.exps) = 2
    BY <1>3, <2>1, ExpParts DEF Binary
  <2>3. 1 \in 1 .. Len(Top.exp.exps) /\ 2 \in 1 .. Len(Top.exp.exps)
    BY <2>2
  <2>4. t \in Number /\ u \in Number
    BY <1>3, <2>1, <2>3 DEF Rule
  <2>5. Common(t, u) = (IF t = u THEN t ELSE TYPE_DOUBLE)
    BY <2>4 DEF Common, Number, TYPE_INT, TYPE_DOUBLE
  <2>6. kind # null
    BY <2>4, <2>5 DEF Number, TYPE_INT, TYPE_DOUBLE, null
  <2>7. kind # null => Yielded
    BY <1>6 DEF genBinary, Yielded
  <2> QED BY <1>4, <2>6, <2>7
<1> QED BY <1>5, <1>6

(* The typechecker leaves the code generator's ends alone.                 *)
LEMMA TypecheckingEnds ==
  ASSUME tcNext
  PROVE  phase' \notin {"unreachable", "nullpointer"}
<1>1. ASSUME phase = "typecheck", GoOn \/ Stop("rejected") \/ Stop("crashed")
      PROVE  phase' \notin {"unreachable", "nullpointer"}
  BY <1>1 DEF GoOn, Stop
<1>2. ASSUME phase = "typecheck", NEW t, NEW v, NEW p, Result(t, v, p)
      PROVE  phase' \notin {"unreachable", "nullpointer"}
  BY <1>2 DEF Result
<1>3. CASE visitLiteral \/ visitEId
  BY <1>1, <1>2, <1>3
     DEF visitLiteral, visitEId, Entering, Leaf, Unknown, Throw
<1>4. CASE visitEApp \/ nextArgument \/ visitOperator
  BY <1>1, <1>4
     DEF visitEApp, nextArgument, visitOperator, Entering, Resuming, Unknown, Throw
<1>5. CASE endEApp \/ endEProj \/ endStep \/ endSign
  BY <1>1, <1>2, <1>5
     DEF endEApp, endEProj, endStep, endSign, Ending, Resuming, Return, Throw
<1>6. CASE endSum \/ endETwc \/ endOrder \/ endEquals \/ endLogic \/ endEAss
  BY <1>1, <1>2, <1>6
     DEF endSum, endETwc, endOrder, endEquals, endLogic, endEAss, Ending, Resuming, Return, Throw
<1>7. CASE secondOperand \/ nextECond \/ endECond
  BY <1>1, <1>2, <1>7
     DEF secondOperand, nextECond, endECond, Ending, Resuming, Return, Throw
<1> QED BY <1>3, <1>4, <1>5, <1>6, <1>7 DEF tcNext

LEMMA NextAborts ==
  ASSUME IInv, OnlyFormsWithoutCodeAbort, [Next]_vars
  PROVE  OnlyFormsWithoutCodeAbort'
<1> DEFINE Going == phase' \notin {"unreachable", "nullpointer"}
<1>1. CASE UNCHANGED vars
  BY <1>1 DEF OnlyFormsWithoutCodeAbort, vars, tcVars, Compilable, ComparesVoid, ChangesTemporary
<1>2. ASSUME Going
      PROVE  OnlyFormsWithoutCodeAbort'
  BY <1>2 DEF OnlyFormsWithoutCodeAbort
<1>3. ASSUME exp' = exp, ~ Compilable(exp)
      PROVE  OnlyFormsWithoutCodeAbort'
  BY <1>3 DEF OnlyFormsWithoutCodeAbort
<1>4. CASE tcNext
  BY <1>2, <1>4, TypecheckingEnds
<1>5. ASSUME phase = "codegen", Yielded
      PROVE  Going
  BY <1>5 DEF Yielded, Yield, annotated
<1>6. ASSUME Next, ~ tcNext, ~ genStep, ~ storeEAss, ~ genEquals, ~ genSign, ~ genBinary
      PROVE  Going
  <2>1. CASE startCodeGen
    BY <2>1 DEF startCodeGen
  <2>2. CASE genLiteral \/ genEId \/ genEApp \/ genOperator \/ genEAss
    BY <2>2 DEF genLiteral, genEId, genEApp, genOperator, genEAss, Generating, annotated
  <2>3. CASE genArgument \/ genSecond \/ condTrue \/ condFalse
    BY <2>3 DEF genArgument, genSecond, condTrue, condFalse, Generated, annotated
  <2>4. CASE genCall \/ genEProj \/ genLogic \/ condMerge
    BY <2>4 DEF genCall, genEProj, genLogic, condMerge, GeneratedAll, Generated, Yield, annotated
  <2> QED BY <1>6, <2>1, <2>2, <2>3, <2>4 DEF Next
<1>7. ASSUME genSign \/ genBinary
      PROVE  Going
  BY <1>7, NumbersDoNotAbort
<1>8. CASE genStep
  <2>1. phase = "codegen" /\ node = NoExp /\ frames # <<>> /\ Top.exp.op \in Steps
    BY <1>8 DEF genStep, GeneratedAll, Generated
  <2>2. type[PathOf(Pop)] \in Number
    <3>1. PICK N : Inv(N)
      BY DEF IInv
    <3>2. PICK ts : Rule(Top.exp, ts, type[PathOf(Pop)])
      BY <2>1, <3>1, GenResumed
    <3> QED BY <2>1, <3>2 DEF Rule
  <2>3. \/ Yielded
        \/ ~ Assignable(Top.exp.exps[1]) /\ CannotAssign(Top.exp.exps[1])
    BY <1>8, <2>2 DEF genStep, Yielded
  <2>4. CASE ~ Assignable(Top.exp.exps[1]) /\ CannotAssign(Top.exp.exps[1])
    <3>1. exp' = exp
      BY <2>4 DEF CannotAssign, Abort
    <3> QED BY <1>3, <2>1, <2>4, <3>1, AbortsAssigning
  <2> QED BY <1>2, <1>5, <2>1, <2>3, <2>4
<1>9. CASE storeEAss
  <2>1. phase = "codegen" /\ node = NoExp /\ frames # <<>> /\ Top.exp.op = "EAss"
    BY <1>9 DEF storeEAss, GeneratedAll, Generated
  <2>2. \/ Yielded
        \/ ~ Assignable(Top.exp.exps[1]) /\ CannotAssign(Top.exp.exps[1])
    BY <1>9 DEF storeEAss, Yielded
  <2>3. CASE ~ Assignable(Top.exp.exps[1]) /\ CannotAssign(Top.exp.exps[1])
    <3>1. exp' = exp
      BY <2>3 DEF CannotAssign, Abort
    <3> QED BY <1>3, <2>1, <2>3, <3>1, AbortsAssigning
  <2> QED BY <1>2, <1>5, <2>1, <2>2, <2>3
<1>10. CASE genEquals
  <2>1. phase = "codegen" /\ node = NoExp /\ frames # <<>> /\ Top.exp.op \in Equals
    BY <1>10 DEF genEquals, GeneratedAll, Generated
  <2>2. \/ Yielded
        \/ Incomparable(OperandType(1), OperandType(2)) /\ Abort("unreachable")
    BY <1>10 DEF genEquals, Yielded
  <2>3. CASE Incomparable(OperandType(1), OperandType(2)) /\ Abort("unreachable")
    <3>1. exp' = exp
      BY <2>3 DEF Abort
    <3> QED BY <1>3, <2>1, <2>3, <3>1, AbortsComparing
  <2> QED BY <1>2, <1>5, <2>1, <2>2, <2>3
<1> QED BY <1>1, <1>2, <1>4, <1>6, <1>7, <1>8, <1>9, <1>10

(* The branches of the code generator that are marked unreachable, and the *)
(* lookup of the variable that is changed, are a danger for two forms      *)
(* only, whatever the program: without void compared with void and without *)
(* a change to a member of what is no variable, none of them is reached.   *)
THEOREM AbortsAreKnown == Spec => []OnlyFormsWithoutCodeAbort
<1>1. Init => OnlyFormsWithoutCodeAbort
  BY DEF Init, tcInit, OnlyFormsWithoutCodeAbort
<1>2. IInv /\ OnlyFormsWithoutCodeAbort /\ [Next]_vars => OnlyFormsWithoutCodeAbort'
  BY NextAborts
<1> QED BY <1>1, <1>2, Inductive, PTL DEF Spec

-----------------------------------------------------------------------------
(* What comparisons compute *)

(* Of two numbers an int is converted when the other one is a double.      *)
LEMMA ConvertedWhenMixed ==
  ASSUME NEW x, IsTerm(x), NEW u \in Number, x.type \in Number,
         NEW a, a = As(x, x.type, Common(x.type, u)) \/ a = As(x, x.type, Common(u, x.type))
  PROVE  x.type = TYPE_INT => (a.f = "sitofp" <=> TYPE_DOUBLE \in {x.type, u})
<1>1. TYPE_INT # TYPE_DOUBLE
  BY DEF TYPE_INT, TYPE_DOUBLE
<1>2. x.type = TYPE_INT => x.f # "sitofp"
  BY <1>1, TermIs DEF OperationTyped
<1>3. SIToFP(x).f = "sitofp"
  BY DEF SIToFP, Apply
<1>4. x.type = TYPE_INT =>
        /\ Common(x.type, u) = u
        /\ Common(u, x.type) = u
  BY <1>1 DEF Common, Number
<1> QED BY <1>1, <1>2, <1>3, <1>4 DEF As, Number

(* The operands of the comparison an expression comes to.                  *)
LEMMA ComparisonMade ==
  ASSUME IInv, Complete, exp.op \in Orders \cup Equals \cup {"ETwc"},
         NEW t, t = TypeOf[exp.exps[1]], t \in Number,
         NEW u, u = TypeOf[exp.exps[2]], u \in Number,
         NEW c, c = IF exp.op = "ENEq" THEN expValue.args[1] ELSE expValue
  PROVE  /\ c.kind = IF TYPE_DOUBLE \in {t, u} THEN TYPE_DOUBLE ELSE TYPE_INT
         /\ t = TYPE_INT => (c.args[1].f = "sitofp" <=> TYPE_DOUBLE \in {t, u})
         /\ u = TYPE_INT => (c.args[2].f = "sitofp" <=> TYPE_DOUBLE \in {t, u})
<1>1. PICK N : Inv(N)
  BY DEF IInv
<1>2. PathOf(frames) = <<>> /\ HasReturned /\ Typing(N, type) /\ Generation(N) /\ exp \in Exp
  BY <1>1 DEF Complete, PathOf, HasReturned, Inv, OnPath
<1>3. <<>> \in DOMAIN N /\ N[<<>>] = exp /\ Returned(expValue, exp, <<>>, type)
  BY <1>2 DEF Generation
<1>4. \A k \in 1 .. 2 : type[Append(<<>>, k)] = TypeOf[exp.exps[k]]
  <2>1. Len(exp.exps) = 2
    BY <1>2, ExpParts DEF Binary
  <2>2. OperandsNoted(N, exp, <<>>)
    BY <1>2, <1>3 DEF Typing
  <2> QED BY <1>2, <2>1, <2>2, TypingIsJudgement DEF OperandsNoted
<1>5. Compares(exp, t, u, expValue)
  BY <1>3, <1>4 DEF Returned
<1>6. PICK x, y : /\ IsTerm(x) /\ x.type = t
                  /\ IsTerm(y) /\ y.type = u
                  /\ c.kind = Common(t, u)
                  /\ c.args = Both(x, t, y, u)
  BY <1>5 DEF Compares
<1>7. Common(t, u) = (IF TYPE_DOUBLE \in {t, u} THEN TYPE_DOUBLE ELSE TYPE_INT)
      /\ Common(t, u) # null
  BY DEF Common, Number, TYPE_INT, TYPE_DOUBLE, null
<1>8. c.args[1] = As(x, t, Common(t, u)) /\ c.args[2] = As(y, u, Common(t, u))
  BY <1>6, <1>7 DEF Both
<1>9. t = TYPE_INT => (c.args[1].f = "sitofp" <=> TYPE_DOUBLE \in {t, u})
  BY <1>6, <1>8, ConvertedWhenMixed
<1>10. u = TYPE_INT => (c.args[2].f = "sitofp" <=> TYPE_DOUBLE \in {u, t})
  BY <1>6, <1>8, ConvertedWhenMixed
<1> QED BY <1>6, <1>7, <1>9, <1>10

(* The conversions, the predicate for the common type, the xor of != and   *)
(* the difference of <=> come to the comparison that is written, for every *)
(* width of ints and every way to round them to doubles that keeps their   *)
(* order.                                                                  *)
THEOREM Compute == Spec => []ComparisonsCompute
<1>1. ASSUME IInv, Complete, exp.op \in Orders \cup Equals \cup {"ETwc"},
             NEW t, t = TypeOf[exp.exps[1]], t \in Number,
             NEW u, u = TypeOf[exp.exps[2]], u \in Number,
             NEW c, c = IF exp.op = "ENEq" THEN expValue.args[1] ELSE expValue,
             NEW double, double = (c.kind = TYPE_DOUBLE),
             NEW v \in IF t = TYPE_INT THEN Word ELSE Rank,
             NEW w \in IF u = TYPE_INT THEN Word ELSE Rank,
             NEW x, x = IF t = TYPE_INT /\ c.args[1].f = "sitofp" THEN Rounded[v] ELSE v,
             NEW y, y = IF u = TYPE_INT /\ c.args[2].f = "sitofp" THEN Rounded[w] ELSE w,
             NEW m, m = IF t = TYPE_INT /\ TYPE_DOUBLE \in {t, u} THEN Rounded[v] ELSE v,
             NEW n, n = IF u = TYPE_INT /\ TYPE_DOUBLE \in {t, u} THEN Rounded[w] ELSE w
      PROVE  CASE exp.op = "ETwc" -> Twc(double, x, y) = Sign(m, n)
               [] exp.op = "ENEq" -> ~ Compare("EEq", double, x, y) <=> m # n
               [] OTHER -> Compare(exp.op, double, x, y) <=> Order(exp.op, m, n)
  <2>1. x = m /\ y = n
    BY ONLY <1>1, ComparisonMade
  <2>2. x \in Int /\ y \in Int
    <3>1. \A k \in Word : k \in Int /\ Rounded[k] \in Int
      BY RoundedAssumption, HalfAssumption DEF Word
    <3>2. \A k \in Rank : k \in Int
      BY <3>1 DEF Rank
    <3> QED BY <1>1, <3>1, <3>2
  <2>3. double \in BOOLEAN
    BY <1>1
  <2>4. CASE exp.op = "ETwc"
    BY <2>1, <2>2, <2>3, <2>4, TwcIsSign
  <2>5. CASE exp.op = "ENEq"
    <3>1. Compare("EEq", double, x, y) <=> Order("EEq", x, y)
      BY <2>2, <2>3, PredicatesOrder DEF Comparison
    <3>2. Order("EEq", x, y) <=> x = y
      BY DEF Order
    <3> QED BY <2>1, <2>5, <3>1, <3>2
  <2>6. CASE exp.op \notin {"ETwc", "ENEq"}
    <3>1. exp.op \in Comparison
      BY <1>1, <2>6 DEF Orders, Equals, Comparison
    <3>2. Compare(exp.op, double, x, y) <=> Order(exp.op, x, y)
      BY <2>2, <2>3, <3>1, PredicatesOrder
    <3> QED BY <2>1, <2>6, <3>2
  <2> QED BY <2>4, <2>5, <2>6
<1>2. IInv => ComparisonsCompute
  BY <1>1 DEF ComparisonsCompute
<1> QED BY <1>2, Inductive, PTL
====
