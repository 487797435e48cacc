----------------------------- MODULE CodeGenExp -----------------------------
(***************************************************************************)
(* The expression half of CodeGenVisitor, run on what TypeCheckExp has     *)
(* accepted and annotated, as compile composes them.                       *)
(*                                                                         *)
(* An llvm::Value is a term with an LLVM type; the LLVM type made for type *)
(* t is t itself.  Only what touches memory, calls or branches is an       *)
(* instruction of a block: a load or call yields the next register, and    *)
(* terms are built from registers and constants without side effects.      *)
(***************************************************************************)
EXTENDS TypeCheckExp, ExpressionTypes, IRBuilder

VARIABLES
  ir,         \* the blocks and the insertion point
  registers,  \* registers used so far
  allocas,    \* allocas of ternaries so far
  expValue    \* CodeGenVisitor::expValue

vars == <<tcVars, ir, registers, allocas, expValue>>

-----------------------------------------------------------------------------
(* Values: kind is the type an operation works on, or what selects it.     *)

Apply(f, kind, t, args) == [f |-> f, kind |-> kind, type |-> t, args |-> args]

NoValue              == Apply("none", null, null, <<>>)
Const(t, n)          == Apply("const", n, t, <<>>)
Register(k, t)       == Apply("register", k, t, <<>>)
SIToFP(v)            == Apply("sitofp", TYPE_INT, TYPE_DOUBLE, <<v>>)
Extract(v, path, t)  == Apply("extract", path, t, <<v>>)
Insert(v, path, new) == Apply("insert", path, v.type, <<v, new>>)
EqualParts(parts)    == Apply("and", parts, TYPE_BOOL, <<>>)

(* A pointer is an alloca, of a variable or of a ternary.                  *)
Variable(x)   == [variable |-> x, type |-> symbols[x]]
Ternary(k, t) == [ternary |-> k, type |-> t]

(* Instructions; a load and a call name the register they set.             *)
Load(reg, ptr)       == [op |-> "load", ptr |-> ptr, reg |-> reg]
Store(v, ptr)        == [op |-> "store", ptr |-> ptr, value |-> v]
CallTo(reg, f, args) == [op |-> "call", function |-> f, args |-> args, reg |-> reg]
BranchOn(v, b, c)    == [op |-> "condbr", arg |-> <<b, c>>, value |-> v]

-----------------------------------------------------------------------------
(* Conversions and comparisons *)

(* Mutant of Common: an int beside a double is not converted.              *)
CommonOfFirst(t, u) == IF t \in Number /\ u \in Number THEN t ELSE null

(* handleNumberConversions: the type two operands are brought to, null if  *)
(* one of them is no number.                                               *)
Common(t, u) ==
  CASE t = u /\ t \in Number -> t
    [] t # u /\ {t, u} = Number -> TYPE_DOUBLE
    [] OTHER -> null

As(v, t, common) == IF t # common THEN SIToFP(v) ELSE v

Both(v, t, w, u) ==
  IF Common(t, u) = null THEN <<v, w>>
  ELSE <<As(v, t, Common(t, u)), As(w, u, Common(t, u))>>

(* The members of a type that are no structs, at any depth.                *)
Parts[t \in DOMAIN types] ==
  IF t <= TYPE_VOID THEN {[path |-> <<>>, type |-> t]}
  ELSE UNION {{[path |-> <<m>> \o p.path, type |-> p.type] : p \in Parts[types[t].members[m]]} :
              m \in DOMAIN types[t].members}

(* genEqComparison throws a string when it comes to void.                  *)
Incomparable(t, u) == t = u /\ \E p \in Parts[t] : p.type = TYPE_VOID

genEqComparison(t, v, u, w) ==
  IF Common(t, u) # null THEN Apply("EEq", Common(t, u), TYPE_BOOL, Both(v, t, w, u))
  ELSE IF t = u /\ t = TYPE_BOOL THEN Apply("EEq", t, TYPE_BOOL, <<v, w>>)
  ELSE IF t = u THEN
    EqualParts({Apply("EEq", p.type, TYPE_BOOL,
                      <<Extract(v, p.path, p.type), Extract(w, p.path, p.type)>>) : p \in Parts[t]})
  ELSE Const(TYPE_BOOL, 0)

-----------------------------------------------------------------------------
(* Assignment *)

(* The variable at the bottom of a chain of projections, and the chain.    *)
Root[e \in Exp]  == IF e.op = "EProj" THEN Root[e.exps[1]] ELSE e
Chain[e \in Exp] == IF e.op = "EProj" THEN Append(Chain[e.exps[1]], e.val) ELSE <<>>

(* Mutant of Assignable: only whole variables are.                         *)
AssignableWhole(e) == e.op = "EId"

Assignable(e) == Root[e].op = "EId"

(* Mutant of Converted: the value is stored as it is.                      *)
Unconverted(e, path, v) == v

(* An int is converted by the type noted at the target, path in the tree.  *)
Converted(e, path, v) ==
  IF type[path] = TYPE_DOUBLE /\ v.type = TYPE_INT THEN SIToFP(v) ELSE v

(* genAssignment of v to e.  A member is put into a fresh copy of the      *)
(* whole variable, which is stored back.                                   *)
genAssignment(e, v) ==
  LET ptr  == Variable(Root[e].val)
      copy == Register(registers + 1, symbols[Root[e].val])
  IN IF e.op = "EId"
     THEN ir' = Emit(ir, Store(v, Variable(e.val))) /\ UNCHANGED registers
     ELSE /\ ir' = Emit(Emit(ir, Load(copy.kind, ptr)), Store(Insert(copy, Chain[e], v), ptr))
          /\ registers' = registers + 1

-----------------------------------------------------------------------------
(* The stack, as in TypeCheckExp *)

Generating(ops) == phase = "codegen" /\ node # NoExp /\ node.op \in ops

Generated(ops) ==
  phase = "codegen" /\ node = NoExp /\ frames # <<>> /\ Top.exp.op \in ops

GeneratedAll(ops) == Generated(ops) /\ Top.pos = Len(Top.exp.exps)

(* Where operand i of the handler on top is, and the type noted there.     *)
Operand(i)     == Append(PathOf(Pop), i)
OperandType(i) == type[Operand(i)]

annotated == <<exp, rootParent, phase, result>>

Pure == UNCHANGED <<ir, registers, allocas>>

Yield(v) == expValue' = v /\ frames' = Pop /\ node' = NoExp /\ UNCHANGED annotated

(* UNREACHABLE_OH_NO, a string that nobody catches, or a null pointer.     *)
Abort(how) ==
  /\ phase' = how
  /\ UNCHANGED <<exp, rootParent, frames, node, result, ir, registers, allocas, expValue>>

(* The chain of a projection is followed until an EId is found.            *)
CannotAssign(e) == Abort(IF e.op = "EProj" THEN "nullpointer" ELSE "unreachable")

(* compile: the code generator starts where the typechecker had no error.  *)
startCodeGen ==
  /\ Accepted
  /\ phase' = "codegen"
  /\ node' = exp
  /\ UNCHANGED <<exp, rootParent, frames, result, ir, registers, allocas, expValue>>

-----------------------------------------------------------------------------
(* Names *)

genLiteral ==
  /\ Generating(Literals)
  /\ expValue' = CASE node.op = "EInt"    -> Const(TYPE_INT, node.val)
                   [] node.op = "EDouble" -> Const(TYPE_DOUBLE, node.val)
                   [] node.op = "ETrue"   -> Const(TYPE_BOOL, 1)
                   [] node.op = "EFalse"  -> Const(TYPE_BOOL, 0)
  /\ node' = NoExp
  /\ Pure
  /\ UNCHANGED <<annotated, frames>>

genEId ==
  /\ Generating({"EId"})
  /\ ir' = Emit(ir, Load(registers + 1, Variable(node.val)))
  /\ registers' = registers + 1
  /\ expValue' = Register(registers + 1, symbols[node.val])
  /\ node' = NoExp
  /\ UNCHANGED <<annotated, frames, allocas>>

(* The arguments generated so far are kept in local.                       *)
genEApp ==
  /\ Generating({"EApp"})
  /\ frames' = Append(frames, Frame(node, 0, <<>>))
  /\ node' = NoExp
  /\ Pure
  /\ UNCHANGED <<annotated, expValue>>

function == functions[Top.exp.val]

arguments ==
  IF Top.pos = 0 THEN <<>>
  ELSE Append(Top.local,
         IF function.parameters[Top.pos] = TYPE_DOUBLE /\ OperandType(Top.pos) = TYPE_INT
         THEN SIToFP(expValue) ELSE expValue)

genArgument ==
  /\ Generated({"EApp"})
  /\ Top.pos < Len(Top.exp.exps)
  /\ NextOperand(arguments)
  /\ Pure
  /\ UNCHANGED <<annotated, expValue>>

genCall ==
  /\ GeneratedAll({"EApp"})
  /\ ir' = Emit(ir, CallTo(registers + 1, Top.exp.val, arguments))
  /\ registers' = registers + 1
  /\ Yield(Register(registers + 1, function.returnType))
  /\ UNCHANGED allocas

-----------------------------------------------------------------------------
(* Operators *)

genOperator ==
  /\ Generating({"EProj"} \cup Steps \cup Signs \cup (Binary \ {"EAss"}) \cup {"ECond"})
  /\ Call(node, NoValue)
  /\ Pure
  /\ UNCHANGED <<annotated, expValue>>

genEProj ==
  /\ GeneratedAll({"EProj"})
  /\ Yield(Extract(expValue, <<Top.exp.val>>, getMember(expValue.type, Top.exp.val)))
  /\ Pure

(* Mutant of StepValue: a postfix operator yields the new value.           *)
StepValueNew(op, old, new) == new

(* The value of a postfix operator is the one before the step.             *)
StepValue(op, old, new) == IF op \in {"EPIncr", "EPDecr"} THEN old ELSE new

genStep ==
  /\ GeneratedAll(Steps)
  /\ LET e       == Top.exp.exps[1]
         kind    == type[PathOf(Pop)]
         sum     == IF Top.exp.op \in {"EPIncr", "EIncr"} THEN "EPlus" ELSE "EMinus"
         changed == Converted(e, Operand(1), Apply(sum, kind, kind, <<expValue, Const(kind, 1)>>))
     IN IF kind \notin Number THEN Abort("unreachable")
        ELSE IF ~ Assignable(e) THEN CannotAssign(e)
        ELSE /\ genAssignment(e, changed)
             /\ Yield(StepValue(Top.exp.op, expValue, changed))
             /\ UNCHANGED allocas

genSign ==
  /\ GeneratedAll(Signs)
  /\ LET kind == type[PathOf(Pop)]
     IN IF Top.exp.op = "EUPlus" THEN Yield(expValue) /\ Pure
        ELSE IF kind \in Number THEN Yield(Apply("neg", kind, kind, <<expValue>>)) /\ Pure
        ELSE Abort("unreachable")

genSecond ==
  /\ Generated(Binary \ {"EAss"}) /\ Top.pos = 1
  /\ NextOperand(expValue)
  /\ Pure
  /\ UNCHANGED <<annotated, expValue>>

(* ETwc takes whatever is no two ints for doubles, the others throw.       *)
genBinary ==
  /\ GeneratedAll(Sums \cup {"ETwc"} \cup Orders)
  /\ LET op   == Top.exp.op
         t    == OperandType(1)
         u    == OperandType(2)
         kind == IF op = "ETwc" /\ Common(t, u) = null THEN TYPE_DOUBLE ELSE Common(t, u)
         yielded == CASE op \in Sums   -> kind
                      [] op = "ETwc"   -> TYPE_INT
                      [] op \in Orders -> TYPE_BOOL
     IN IF kind # null
        THEN Yield(Apply(op, kind, yielded, Both(Top.local, t, expValue, u))) /\ Pure
        ELSE Abort("unreachable")

genEquals ==
  /\ GeneratedAll(Equals)
  /\ LET eq == genEqComparison(OperandType(1), Top.local, OperandType(2), expValue)
     IN IF Incomparable(OperandType(1), OperandType(2)) THEN Abort("unreachable")
        ELSE /\ Yield(IF Top.exp.op = "EEq" THEN eq ELSE Apply("not", TYPE_BOOL, TYPE_BOOL, <<eq>>))
             /\ Pure

genLogic ==
  /\ GeneratedAll(Logic)
  /\ Yield(Apply(Top.exp.op, Top.local.type, Top.local.type, <<Top.local, expValue>>))
  /\ Pure

(* Only the right operand of an assignment is visited.                     *)
genEAss ==
  /\ Generating({"EAss"})
  /\ frames' = Append(frames, Frame(node, 2, NoValue))
  /\ node' = node.exps[2]
  /\ Pure
  /\ UNCHANGED <<annotated, expValue>>

storeEAss ==
  /\ GeneratedAll({"EAss"})
  /\ LET e       == Top.exp.exps[1]
         changed == Converted(e, Operand(1), expValue)
     IN IF Assignable(e)
        THEN genAssignment(e, changed) /\ Yield(changed) /\ UNCHANGED allocas
        ELSE CannotAssign(e)

-----------------------------------------------------------------------------
(* Ternaries: three blocks and an alloca for the result.                   *)

condType == IF OperandType(2) = OperandType(3) THEN OperandType(2) ELSE TYPE_DOUBLE

condTrue ==
  /\ Generated({"ECond"}) /\ Top.pos = 1
  /\ LET b == NextBlock(ir) IN
       /\ ir' = SetInsertPoint(Emit(CreateBlocks(ir, 3), BranchOn(expValue, b, b + 1)), b)
       /\ NextOperand([false |-> b + 1, next |-> b + 2, ptr |-> Ternary(allocas + 1, condType)])
  /\ allocas' = allocas + 1
  /\ UNCHANGED <<annotated, expValue, registers>>

(* Store a branch's value and leave the branch.                            *)
CloseCond(i) ==
  Emit(Emit(ir, Store(As(expValue, OperandType(i), condType), Top.local.ptr)), Br(Top.local.next))

condFalse ==
  /\ Generated({"ECond"}) /\ Top.pos = 2
  /\ ir' = SetInsertPoint(CloseCond(2), Top.local.false)
  /\ NextOperand(Top.local)
  /\ UNCHANGED <<annotated, expValue, registers, allocas>>

condMerge ==
  /\ GeneratedAll({"ECond"})
  /\ ir' = Emit(SetInsertPoint(CloseCond(3), Top.local.next), Load(registers + 1, Top.local.ptr))
  /\ registers' = registers + 1
  /\ Yield(Register(registers + 1, condType))
  /\ UNCHANGED allocas

Init ==
  /\ tcInit
  /\ ir = EmptyFunction
  /\ registers = 0
  /\ allocas = 0
  /\ expValue = NoValue

Next ==
  \/ tcNext /\ UNCHANGED <<ir, registers, allocas, expValue>>
  \/ startCodeGen
  \/ genLiteral \/ genEId \/ genEApp \/ genArgument \/ genCall
  \/ genOperator \/ genEProj \/ genStep \/ genSign
  \/ genSecond \/ genBinary \/ genEquals \/ genLogic
  \/ genEAss \/ storeEAss
  \/ condTrue \/ condFalse \/ condMerge

Spec == Init /\ [][Next]_vars

(* One thread that runs to its exit.                                       *)
FairSpec == Spec /\ WF_vars(Next)

Complete == phase = "codegen" /\ frames = <<>> /\ node = NoExp

Done == Complete \/ phase \in {"rejected", "crashed", "unreachable", "nullpointer"}

-----------------------------------------------------------------------------
(* Forms without code *)

(* What the typechecker lets pass and the code generator has no code for:  *)
(* void compared with void, and a change to a member of what is no         *)
(* variable.                                                               *)
ComparesVoid(e) ==
  /\ e.op \in Equals
  /\ TypeOf[e.exps[1]] # null /\ Incomparable(TypeOf[e.exps[1]], TypeOf[e.exps[2]])
ChangesTemporary(e) == e.op \in Steps \cup {"EAss"} /\ Root[e.exps[1]].op # "EId"

Compilable(e) ==
  \A s \in Subtrees[e] : ~ ComparesVoid(s.tree) /\ ~ ChangesTemporary(s.tree)

-----------------------------------------------------------------------------
(* Properties *)

(* The stack is a path of the tree, from the root to the node that is      *)
(* entered next, and the types that are noted and the types of values are  *)
(* known ones.                                                             *)
TypeOK ==
  /\ rootParent \in {"null", "junk"}
  /\ phase \in {"typecheck", "codegen", "rejected", "crashed", "unreachable", "nullpointer"}
  /\ \A i \in DOMAIN frames : frames[i].pos \in 0 .. Len(frames[i].exp.exps)
  /\ \A i \in DOMAIN frames :
       frames[i].exp = IF i = 1 THEN exp ELSE frames[i - 1].exp.exps[frames[i - 1].pos]
  /\ node # NoExp => node = IF frames = <<>> THEN exp ELSE Top.exp.exps[Top.pos]
  /\ resultExpType \in DOMAIN types \cup {null}
  /\ isResultExpVariable \in BOOLEAN
  /\ \A p \in DOMAIN type : type[p] \in DOMAIN types
  /\ ir.at \in DOMAIN ir.blocks
  /\ registers \in Nat /\ allocas \in Nat
  /\ expValue.type \in DOMAIN types \cup {null}

(* Whoever reads expValue takes it to be of the type the typechecker noted *)
(* at the operand (Exp::type): every conversion of one visitor is made by  *)
(* the other.                                                              *)
ValueHasNotedType ==
  phase = "codegen" /\ node = NoExp /\ (frames # <<>> => Top.pos > 0)
    => expValue.type = type[PathOf(frames)]

(* The verdict of the typechecker, whose handlers test their operands each *)
(* in a way of its own, is the judgement of the language; and what it      *)
(* notes for the code generator is the type of every node.  Only a name    *)
(* that is nowhere may crash it.                                           *)
VerdictIsTyping ==
  /\ phase = "codegen" \/ Accepted =>
       /\ TypeOf[exp] # null
       /\ {<<p, type[p]>> : p \in DOMAIN type} =
            {<<s.path, TypeOf[s.tree]>> : s \in Subtrees[exp]}
  /\ phase \in {"rejected", "crashed"} => TypeOf[exp] = null

(* Of the branches where the code generator gives up (UNREACHABLE_OH_NO,   *)
(* an uncaught string, a projection without a variable) none is reached    *)
(* but for the two forms it has no code for.                               *)
OnlyFormsWithoutCodeAbort == phase \in {"unreachable", "nullpointer"} => ~ Compilable(exp)

=============================================================================
