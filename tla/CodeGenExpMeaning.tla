-------------------------- MODULE CodeGenExpMeaning --------------------------
(***************************************************************************)
(* What an expression of the compiled language does when it is evaluated.  *)
(* The evaluator is written from the tree alone and compared with the code *)
(* that the two visitors make of it.                                       *)
(*                                                                         *)
(* Values are symbolic: a program is evaluated for all numbers at once.    *)
(***************************************************************************)
EXTENDS CodeGenExpTerms, SequencesExt

-----------------------------------------------------------------------------
(* Symbolic values.  A struct is a function from its members to values.    *)

Value(f, kind, n, path, args) ==
  [f |-> f, kind |-> kind, n |-> n, path |-> path, args |-> args, parts |-> {}]

Literal(t, n)       == Value("literal", t, n, <<>>, <<>>)
Applied(f, t, args) == Value(f, t, 0, <<>>, args)
AllOf(parts)        == [Value("all", TYPE_BOOL, 0, <<>>, <<>>) EXCEPT !.parts = parts]

To(v, t, u) == IF t = TYPE_INT /\ u = TYPE_DOUBLE THEN Applied("sitofp", u, <<v>>) ELSE v

IsStruct(t) == types[t].members # NoMembers

RECURSIVE Opaque(_, _, _), Put(_, _, _), EqualLeaves(_, _, _)

(* A value of type t nothing is known of but where it comes from.          *)
Opaque(t, from, path) ==
  IF IsStruct(t)
  THEN [m \in DOMAIN types[t].members |-> Opaque(types[t].members[m], from, Append(path, m))]
  ELSE [from EXCEPT !.kind = t, !.path = path]

Initial(x)          == Opaque(symbols[x], Value("initial", null, 0, <<>>, <<>>), <<x>>)
Returned(f, k, args) ==
  Opaque(functions[f].returnType, Value("returned", null, k, <<>>, args), <<f>>)

Get(v, path) == FoldLeft(LAMBDA w, m : w[m], v, path)

Put(v, path, w) ==
  IF path = <<>> THEN w ELSE [v EXCEPT ![Head(path)] = Put(@, Tail(path), w)]

EqualLeaves(t, v, w) ==
  IF IsStruct(t)
  THEN UNION {EqualLeaves(types[t].members[m], v[m], w[m]) : m \in DOMAIN types[t].members}
  ELSE {Applied("EEq", t, <<v, w>>)}

EqualValues(t, v, u, w) ==
  LET common == IF TYPE_DOUBLE \in {t, u} THEN TYPE_DOUBLE ELSE TYPE_INT
  IN CASE {t, u} \subseteq Number -> Applied("EEq", common, <<To(v, t, common), To(w, u, common)>>)
       [] t = u /\ IsStruct(t)    -> AllOf(EqualLeaves(t, v, w))
       [] t = u /\ t = TYPE_BOOL  -> Applied("EEq", t, <<v, w>>)
       [] OTHER                   -> Literal(TYPE_BOOL, 0)

-----------------------------------------------------------------------------
(* A machine: the variables, the calls and choices made so far, and the    *)
(* outcomes that are left for the conditions of ternaries.                 *)

Machine(outcomes) ==
  [memory |-> [x \in DOMAIN symbols |-> Initial(x)], trace |-> <<>>, outcomes |-> outcomes]

Calls(m) == Len(SelectSeq(m.trace, LAMBDA t : t[1] = "call"))

Called(m, f, args) == [m EXCEPT !.trace = Append(@, <<"call", f, args>>)]
Chosen(m, v) ==
  [m EXCEPT !.trace = Append(@, <<"choice", v, Head(m.outcomes)>>), !.outcomes = Tail(@)]

(* Evaluation of the source, from left to right; a result is a machine     *)
(* with the value at hand.                                                 *)
With(m, v) == [m |-> m, value |-> v]

Changed(m, e, v) == [m EXCEPT !.memory[Root[e].val] = Put(@, Chain[e], v)]

RECURSIVE Evaluate(_, _), EvaluateAll(_, _)

EvaluateAll(es, m) ==
  FoldLeft(LAMBDA r, e : LET s == Evaluate(e, r.m) IN [m |-> s.m, values |-> Append(r.values, s.value)],
           [m |-> m, values |-> <<>>], es)

Evaluate(e, m) ==
  LET T(i)   == TypeOf[e.exps[i]]
      all    == EvaluateAll(e.exps, m)
      v      == all.values
      one    == Evaluate(e.exps[1], m)
      common == IF TYPE_DOUBLE \in {T(1), T(2)} THEN TYPE_DOUBLE ELSE TYPE_INT
      both   == <<To(v[1], T(1), common), To(v[2], T(2), common)>>
  IN CASE e.op \in Literals ->
            With(m, Literal(TypeOf[e], IF e.op = "ETrue" THEN 1 ELSE e.val))
       [] e.op = "EId"   -> With(m, m.memory[e.val])
       [] e.op = "EApp"  ->
            LET args == [i \in DOMAIN v |-> To(v[i], T(i), functions[e.val].parameters[i])]
            IN With(Called(all.m, e.val, args), Returned(e.val, Calls(all.m), args))
       [] e.op = "EProj" -> With(one.m, one.value[e.val])
       [] e.op \in Steps ->
            LET sum == IF e.op \in {"EPIncr", "EIncr"} THEN "EPlus" ELSE "EMinus"
                new == Applied(sum, T(1), <<one.value, Literal(T(1), 1)>>)
            IN With(Changed(one.m, e.exps[1], new),
                    IF e.op \in {"EPIncr", "EPDecr"} THEN one.value ELSE new)
       [] e.op = "EUPlus"  -> one
       [] e.op = "EUMinus" -> With(one.m, Applied("neg", T(1), <<one.value>>))
       [] e.op \in Sums \cup {"ETwc"} \cup Orders -> With(all.m, Applied(e.op, common, both))
       [] e.op = "EEq"  -> With(all.m, EqualValues(T(1), v[1], T(2), v[2]))
       [] e.op = "ENEq" ->
            With(all.m, Applied("not", TYPE_BOOL, <<EqualValues(T(1), v[1], T(2), v[2])>>))
       [] e.op \in Logic -> With(all.m, Applied(e.op, TYPE_BOOL, v))
       [] e.op = "EAss"  ->
            LET r   == Evaluate(e.exps[2], m)
                new == To(r.value, T(2), T(1))
            IN With(Changed(r.m, e.exps[1], new), new)
       [] e.op = "ECond" ->
            LET taken == IF Head(one.m.outcomes) THEN 2 ELSE 3
            IN Evaluate(e.exps[taken], Chosen(one.m, one.value))

-----------------------------------------------------------------------------
(* Execution of the generated blocks *)

RECURSIVE ValueOf(_, _), Run(_, _, _)

Undefined == Value("undefined", null, 0, <<>>, <<>>)

(* The value of a term, given the registers.                               *)
ValueOf(term, regs) ==
  LET arg(i) == ValueOf(term.args[i], regs)
  IN CASE term.f = "const"    -> Literal(term.type, term.kind)
       [] term.f = "register" -> IF term.kind \in DOMAIN regs THEN regs[term.kind] ELSE Undefined
       [] term.f = "extract"  -> Get(arg(1), term.kind)
       [] term.f = "insert"   -> Put(arg(1), term.kind, arg(2))
       [] term.f = "and"      -> AllOf({ValueOf(t, regs) : t \in term.kind})
       [] term.f = "sitofp"   -> Applied("sitofp", term.type, <<arg(1)>>)
       [] OTHER               -> Applied(term.f, term.kind, [i \in DOMAIN term.args |-> arg(i)])

Where(ptr) == IF "variable" \in DOMAIN ptr THEN ptr.variable ELSE ptr.ternary

SetReg(c, reg, v) == [c EXCEPT !.regs = (reg :> v) @@ @]

(* c: the machine, the registers and the ternaries' allocas; i: the next   *)
(* instruction of block b.  The code ends where a block has no terminator. *)
Run(b, i, c) ==
  LET block == ir.blocks[b]
      inst  == block[i]
      m     == c.m
      args  == [j \in DOMAIN inst.args |-> ValueOf(inst.args[j], c.regs)]
      local == "ternary" \in DOMAIN inst.ptr
  IN IF i > Len(block) THEN [c EXCEPT !.end = b]
     ELSE CASE inst.op = "load" ->
                 Run(b, i + 1, SetReg(c, inst.reg,
                    IF local THEN c.ternaries[inst.ptr.ternary] ELSE m.memory[inst.ptr.variable]))
            [] inst.op = "store" /\ local ->
                 Run(b, i + 1, [c EXCEPT !.ternaries =
                    (inst.ptr.ternary :> ValueOf(inst.value, c.regs)) @@ @])
            [] inst.op = "store" /\ ~ local ->
                 Run(b, i + 1, [c EXCEPT !.m.memory[inst.ptr.variable] = ValueOf(inst.value, c.regs)])
            [] inst.op = "call" ->
                 Run(b, i + 1, SetReg([c EXCEPT !.m = Called(m, inst.function, args)], inst.reg,
                    Returned(inst.function, Calls(m), args)))
            [] inst.op = "condbr" ->
                 Run(inst.arg[IF Head(m.outcomes) THEN 1 ELSE 2], 1,
                     [c EXCEPT !.m = Chosen(m, ValueOf(inst.value, c.regs))])
            [] inst.op = "br" -> Run(inst.arg[1], 1, c)

Executed(outcomes) ==
  Run(1, 1, [m |-> Machine(outcomes), regs |-> <<>>, ternaries |-> <<>>, end |-> 0])

-----------------------------------------------------------------------------
(* Properties *)

Ternaries(e) == Cardinality({s \in Subtrees[e] : s.tree.op = "ECond"})

(* The generated code computes what the source does: the same value, left  *)
(* in expValue, the same variables afterwards, the same calls with the     *)
(* same arguments and the same choices in the same order, whatever the     *)
(* conditions turn out to be; and it ends at the insertion point.  && and  *)
(* || are operators like the others here: both operands are evaluated, the *)
(* left one first, each exactly once (CodeGenVisitor.cpp:662-680).         *)
GeneratedMeansSource ==
  Complete =>
    \A outcomes \in [1 .. Ternaries(exp) -> BOOLEAN] :
      LET source == Evaluate(exp, Machine(outcomes))
          code   == Executed(outcomes)
      IN /\ code.end = ir.at
         /\ code.m = source.m
         /\ ValueOf(expValue, code.regs) = source.value

(* Every well-typed expression is compiled to the end, but for the two     *)
(* forms the code generator has no code for; those stop the compiler.      *)
CompilesWhatIsTyped ==
  TypeOf[exp] # null ~>
    IF Compilable(exp) THEN Complete ELSE phase \in {"unreachable", "nullpointer"}

-----------------------------------------------------------------------------
(* What the repository says of its expressions and the code does not keep  *)

(* No branch marked UNREACHABLE_OH_NO in the code generator is reached.    *)
UnreachableIsUnreached == phase # "unreachable"

(* What ++, -- and = change is a variable, or a member of one: they are    *)
(* rejected on everything else, so that genAssignment finds the variable.  *)
OnlyVariablesChange == phase # "nullpointer"
=============================================================================
