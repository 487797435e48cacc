--------------------------- MODULE CodeGenExpTerms ---------------------------
(***************************************************************************)
(* What the values that CodeGenVisitor makes have to be for LLVM, which    *)
(* converts nothing by itself, and what its comparisons of numbers come    *)
(* to.                                                                     *)
(***************************************************************************)
EXTENDS CodeGenExp, Numbers

CONSTANT Depth   \* how deep terms are looked into

ASSUME DepthAssumption == Depth \in Nat

(* From type t the members of path lead to type u.                         *)
Leads(t, path, u) ==
  \E along \in [0 .. Len(path) -> DOMAIN types] :
    /\ along[0] = t /\ along[Len(path)] = u
    /\ \A i \in 1 .. Len(path) : along[i] = getMember(along[i - 1], path[i])

(* The terms a term is made of.                                            *)
SubTerms(t) ==
  {t.args[i] : i \in DOMAIN t.args} \cup (IF t.f = "and" THEN t.kind ELSE {})

(* They are of the types the operation works on.                           *)
OperationTyped(t) ==
  CASE t.f \in {"const", "register"} -> TRUE
    [] t.f = "sitofp"  -> t.args[1].type = TYPE_INT /\ t.type = TYPE_DOUBLE
    [] t.f = "extract" -> Leads(t.args[1].type, t.kind, t.type)
    [] t.f = "insert"  -> Leads(t.args[1].type, t.kind, t.args[2].type) /\ t.type = t.args[1].type
    [] t.f = "and"     -> \A p \in t.kind : p.type = TYPE_BOOL
    [] OTHER           -> \A i \in DOMAIN t.args : t.args[i].type = t.kind

(* The values instructions get.                                            *)
Given(inst) ==
  CASE inst.op \in {"store", "condbr"} -> {inst.value}
    [] inst.op = "call" -> {inst.args[j] : j \in DOMAIN inst.args}
    [] OTHER            -> {}

Made ==
  {expValue} \cup
  UNION {UNION {Given(ir.blocks[b][i]) : i \in DOMAIN ir.blocks[b]} : b \in DOMAIN ir.blocks}

(* The terms n levels down in those.                                       *)
Nested[n \in Nat] ==
  IF n = 0 THEN Made ELSE UNION {SubTerms(t) : t \in Nested[n - 1]}

-----------------------------------------------------------------------------
(* Properties *)

(* LLVM converts nothing by itself: every store, argument and condition    *)
(* gets a value of exactly the type it is declared for, and so does every  *)
(* operation that values are made by, at any depth, in the code generated  *)
(* so far.                                                                 *)
OperandsAgree ==
  /\ \A b \in DOMAIN ir.blocks : \A i \in DOMAIN ir.blocks[b] :
       LET inst == ir.blocks[b][i] IN
       /\ inst.op = "store"  => inst.value.type = inst.ptr.type
       /\ inst.op = "call"   =>
            [j \in DOMAIN inst.args |-> inst.args[j].type] = functions[inst.function].parameters
       /\ inst.op = "condbr" => inst.value.type = TYPE_BOOL
  /\ \A n \in 0 .. Depth : \A t \in Nested[n] : OperationTyped(t)

(* A comparison of numbers gives what the operator says of the operands,   *)
(* an int beside a double being taken for the double nearest to it, for    *)
(* every pair of numbers but those with a NaN: the conversions, the        *)
(* predicate chosen for the common type, the xor of != and the difference  *)
(* of <=> (CodeGenVisitor.cpp:510-660, 732-742) come to that together.     *)
ComparisonsCompute ==
  LET T(i)      == TypeOf[exp.exps[i]]
      sample(t) == IF t = TYPE_INT THEN Word ELSE Rank
      t         == IF exp.op = "ENEq" THEN expValue.args[1] ELSE expValue
      double    == t.kind = TYPE_DOUBLE
      In(i, n)  == IF T(i) = TYPE_INT /\ t.args[i].f = "sitofp" THEN Rounded[n] ELSE n
      Meant(i, n) == IF T(i) = TYPE_INT /\ TYPE_DOUBLE \in {T(1), T(2)} THEN Rounded[n] ELSE n
  IN Complete /\ exp.op \in Orders \cup Equals \cup {"ETwc"} /\ {T(1), T(2)} \subseteq Number =>
       \A v \in sample(T(1)), w \in sample(T(2)) :
         CASE exp.op = "ETwc" ->
                Twc(double, In(1, v), In(2, w)) = Sign(Meant(1, v), Meant(2, w))
           [] exp.op = "ENEq" ->
                ~ Compare("EEq", double, In(1, v), In(2, w)) <=> Meant(1, v) # Meant(2, w)
           [] OTHER ->
                Compare(exp.op, double, In(1, v), In(2, w)) <=> Order(exp.op, Meant(1, v), Meant(2, w))
=============================================================================
