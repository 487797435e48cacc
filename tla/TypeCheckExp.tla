---------------------------- MODULE TypeCheckExp ----------------------------
(***************************************************************************)
(* The expression half of TypeCheckVisitor.  As in TypeCheck the C++ stack *)
(* is explicit.  A handler leaves its result in resultExpType and          *)
(* isResultExpVariable, where the handler that called it reads it after    *)
(* accept() has returned, and notes the type in the tree for the code      *)
(* generator.  An error is caught outside the expression.                  *)
(***************************************************************************)
EXTENDS Expression

CONSTANT Programs   \* the expressions visited

ASSUME ProgramsAssumption == Programs \subseteq Exp

VARIABLES
  exp,         \* the expression
  rootParent,  \* what the parent of the default context holds
  phase,       \* the visitor at work, or how it ended
  frames,      \* active handlers, the innermost one last
  node,        \* expression whose handler is entered next, or NoExp
  resultExpType, isResultExpVariable,
  type         \* Exp::type, of the nodes that were visited

tcVars == <<exp, rootParent, phase, frames, node, resultExpType, isResultExpVariable, type>>

result == <<resultExpType, isResultExpVariable, type>>

-----------------------------------------------------------------------------
(* The stack.  pos is the operand a handler is visiting, local what its    *)
(* local variables keep across that visit.                                 *)

Frame(e, pos, local) == [exp |-> e, pos |-> pos, local |-> local]

Top == frames[Len(frames)]
Pop == SubSeq(frames, 1, Len(frames) - 1)

(* Nodes are told apart by their place in the tree.                        *)
PathOf(fr) == [i \in 1 .. Len(fr) |-> fr[i].pos]

Entering(ops) == phase = "typecheck" /\ node # NoExp /\ node.op \in ops

Resuming(ops) ==
  phase = "typecheck" /\ node = NoExp /\ frames # <<>> /\ Top.exp.op \in ops

(* Control is back from the last operand.                                  *)
Ending(ops) == Resuming(ops) /\ Top.pos = Len(Top.exp.exps)

Call(e, local) == frames' = Append(frames, Frame(e, 1, local)) /\ node' = e.exps[1]

(* Mutant of NextOperand: the position is not advanced.                    *)
NextOperandStuck(local) ==
  /\ frames' = Append(Pop, Frame(Top.exp, IF Top.pos = 0 THEN 1 ELSE Top.pos, local))
  /\ node' = Top.exp.exps[Top.pos + 1]

NextOperand(local) ==
  /\ frames' = Append(Pop, Frame(Top.exp, Top.pos + 1, local))
  /\ node' = Top.exp.exps[Top.pos + 1]

(* A handler sets its result and p->type, and returns.                     *)
Result(t, isVariable, path) ==
  /\ resultExpType' = t
  /\ isResultExpVariable' = isVariable
  /\ type' = [p \in DOMAIN type \cup {path} |-> IF p = path THEN t ELSE type[p]]
  /\ node' = NoExp
  /\ UNCHANGED <<exp, rootParent, phase>>

Leaf(t, isVariable)   == Result(t, isVariable, PathOf(frames)) /\ UNCHANGED frames
Return(t, isVariable) == Result(t, isVariable, PathOf(Pop)) /\ frames' = Pop

Stop(how) == phase' = how /\ UNCHANGED <<exp, rootParent, frames, node, result>>
Throw     == Stop("rejected")

(* A name that is nowhere: thrown, unless the lookup follows a junk parent.*)
Unknown == IF rootParent = "junk" THEN Stop("crashed") ELSE Throw

GoOn == UNCHANGED <<exp, rootParent, phase, result>>

-----------------------------------------------------------------------------
(* Names *)

visitLiteral ==
  /\ Entering(Literals)
  /\ Leaf(CASE node.op = "EInt"    -> TYPE_INT
            [] node.op = "EDouble" -> TYPE_DOUBLE
            [] OTHER               -> TYPE_BOOL, FALSE)

visitEId ==
  /\ Entering({"EId"})
  /\ IF node.val \in DOMAIN symbols THEN Leaf(symbols[node.val], TRUE) ELSE Unknown

(* EApp visits its arguments however many parameters there are; local is   *)
(* hasError.                                                               *)
visitEApp ==
  /\ Entering({"EApp"})
  /\ IF node.val \in DOMAIN functions
     THEN /\ frames' = Append(frames, Frame(node, 0,
                         Len(functions[node.val].parameters) # Len(node.exps)))
          /\ node' = NoExp
          /\ GoOn
     ELSE Unknown

(* hasError once the argument just visited is taken into account.          *)
hasError ==
  LET parameters == functions[Top.exp.val].parameters
  IN \/ Top.local
     \/ /\ Top.pos \in DOMAIN parameters
        /\ ~ isConvertibleTo(resultExpType, parameters[Top.pos])

nextArgument ==
  /\ Resuming({"EApp"})
  /\ Top.pos < Len(Top.exp.exps)
  /\ NextOperand(hasError)
  /\ GoOn

endEApp ==
  /\ Ending({"EApp"})
  /\ IF hasError THEN Throw ELSE Return(functions[Top.exp.val].returnType, FALSE)

-----------------------------------------------------------------------------
(* Operators *)

(* All other handlers visit their first operand first.                     *)
visitOperator ==
  /\ Entering({"EProj"} \cup Steps \cup Signs \cup Binary \cup {"ECond"})
  /\ Call(node, null)
  /\ GoOn

(* Mutant of endEProj: whether the struct was a variable is passed on.     *)
endEProjKeeps ==
  /\ Ending({"EProj"})
  /\ LET memberType == getMember(resultExpType, Top.exp.val)
     IN IF memberType = null THEN Throw ELSE Return(memberType, isResultExpVariable)

(* A member counts as a variable whatever it is a member of.               *)
endEProj ==
  /\ Ending({"EProj"})
  /\ LET memberType == getMember(resultExpType, Top.exp.val)
     IN IF memberType = null THEN Throw ELSE Return(memberType, TRUE)

endStep ==
  /\ Ending(Steps)
  /\ IF resultExpType \in Number /\ isResultExpVariable
     THEN Return(resultExpType, FALSE)
     ELSE Throw

endSign ==
  /\ Ending(Signs)
  /\ IF resultExpType \in Number THEN Return(resultExpType, FALSE) ELSE Throw

(* What the first operand of a binary operator has to be.                  *)
FirstAccepted(op) ==
  /\ op \in Sums \cup {"ETwc"} \cup Orders => resultExpType \in Number
  /\ op \in Logic => isConvertibleTo(resultExpType, TYPE_BOOL)
  /\ op = "EAss"  => isResultExpVariable

(* The type of the first operand is kept across the visit of the second.   *)
secondOperand ==
  /\ Resuming(Binary) /\ Top.pos = 1
  /\ IF FirstAccepted(Top.exp.op) THEN NextOperand(resultExpType) /\ GoOn ELSE Throw

Convertible(t, u) == isConvertibleTo(t, u) \/ isConvertibleTo(u, t)

(* ETimes and EDiv compare with the first operand, EPlus and EMinus with   *)
(* the numbers; each has its own way to the type of the result.            *)
endSum ==
  /\ Ending(Sums)
  /\ LET first    == Top.local
         second   == resultExpType
         accepted == IF Top.exp.op \in {"ETimes", "EDiv"} THEN Convertible(second, first)
                     ELSE second \in Number
         sumType  == CASE Top.exp.op = "ETimes" ->
                            IF isConvertibleTo(second, first) THEN first ELSE second
                       [] Top.exp.op = "EDiv" ->
                            IF first = TYPE_INT /\ second = TYPE_INT THEN first ELSE TYPE_DOUBLE
                       [] Top.exp.op = "EPlus" ->
                            IF second # first THEN TYPE_DOUBLE ELSE second
                       [] Top.exp.op = "EMinus" ->
                            IF TYPE_DOUBLE \in {first, second} THEN TYPE_DOUBLE ELSE TYPE_INT
     IN IF accepted THEN Return(sumType, FALSE) ELSE Throw

endETwc ==
  /\ Ending({"ETwc"})
  /\ IF resultExpType \in Number THEN Return(TYPE_INT, FALSE) ELSE Throw

endOrder ==
  /\ Ending(Orders)
  /\ LET accepted == IF Top.exp.op = "ELtEq" THEN Convertible(resultExpType, Top.local)
                     ELSE resultExpType \in Number
     IN IF accepted THEN Return(TYPE_BOOL, FALSE) ELSE Throw

(* Any two values can be compared.                                         *)
endEquals == Ending(Equals) /\ Return(TYPE_BOOL, FALSE)

endLogic ==
  /\ Ending(Logic)
  /\ IF isConvertibleTo(resultExpType, TYPE_BOOL) THEN Return(TYPE_BOOL, FALSE) ELSE Throw

endEAss ==
  /\ Ending({"EAss"})
  /\ IF isConvertibleTo(resultExpType, Top.local) THEN Return(Top.local, FALSE) ELSE Throw

(* A ternary keeps the type of its second operand across the third.        *)
nextECond ==
  /\ Resuming({"ECond"}) /\ Top.pos < 3
  /\ IF Top.pos = 1 => isConvertibleTo(resultExpType, TYPE_BOOL)
     THEN NextOperand(resultExpType) /\ GoOn
     ELSE Throw

endECond ==
  /\ Ending({"ECond"})
  /\ IF resultExpType = Top.local THEN Return(resultExpType, FALSE) ELSE Throw

Accepted == phase = "typecheck" /\ frames = <<>> /\ node = NoExp

tcInit ==
  /\ exp \in Programs
  /\ rootParent \in {"null", "junk"}
  /\ phase = "typecheck"
  /\ frames = <<>>
  /\ node = exp
  /\ resultExpType = null
  /\ isResultExpVariable = FALSE
  /\ type = [p \in {} |-> null]

tcNext ==
  \/ visitLiteral \/ visitEId
  \/ visitEApp \/ nextArgument \/ endEApp
  \/ visitOperator \/ secondOperand
  \/ endEProj \/ endStep \/ endSign
  \/ endSum \/ endETwc \/ endOrder \/ endEquals \/ endLogic \/ endEAss
  \/ nextECond \/ endECond
=============================================================================
