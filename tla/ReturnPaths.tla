----------------------------- MODULE ReturnPaths -----------------------------
(***************************************************************************)
(* Which statements end in a return on every path, said of the trees       *)
(* alone, and what follows from it for a function that was just generated: *)
(* whether it is well formed and what is said of it.                       *)
(***************************************************************************)
EXTENDS CodeGenStm

CONSTANT Height   \* of a statement

(* Trees are finite: the parser builds a part before the whole.            *)
ASSUME HeightAssumption ==
  /\ Height \in [Stm -> Nat]
  /\ \A s \in Stm : \A k \in DOMAIN s.kids : Height[s.kids[k]] < Height[s]

(* Every way through a statement ends in a return, when part says of which *)
(* of its parts that is true.                                              *)
Returning(op, part) ==
  CASE op \in {"SReturn", "SReturnV"} -> TRUE
    [] op = "SBlock"   -> \E i \in DOMAIN part : part[i]
    [] op = "SIfElse"  -> part[1] /\ part[2]
    [] op = "SDoWhile" -> part[1]
    [] OTHER -> FALSE

AlwaysReturns[s \in Stm] == Returning(s.op, [i \in DOMAIN s.kids |-> AlwaysReturns[s.kids[i]]])

(* So does a list, if one of its statements does.                          *)
ListReturns(list) == \E i \in DOMAIN list : AlwaysReturns[list[i]]

(* The statements of a list up to the first that always returns.           *)
Live(list) ==
  {i \in DOMAIN list : \A j \in 1 .. i - 1 : ~ AlwaysReturns[list[j]]}

(* No while or do body and no else branch that is generated always         *)
(* returns, when part says so of the parts.                                *)
PlainIn(s, part) ==
  CASE s.op = "SBlock" -> \A i \in Live(s.kids) : part[i]
    [] s.op \in {"SWhile", "SDoWhile"} -> part[1] /\ ~ AlwaysReturns[s.kids[1]]
    [] s.op = "SFor" -> part[1]
    [] s.op = "SIfElse" -> part[1] /\ part[2] /\ ~ AlwaysReturns[s.kids[2]]
    [] OTHER -> TRUE

Plain[s \in Stm] == PlainIn(s, [i \in DOMAIN s.kids |-> Plain[s.kids[i]]])

PlainList(list) == \A i \in Live(list) : Plain[list[i]]

-----------------------------------------------------------------------------
(* Properties of a function that was just generated *)

Finished == frames = <<>> /\ fn > 0
Verified == VerifiedFunction(module[fn])

(* Plain functions that do not fall off a non-void end come out well       *)
(* formed, nesting and early returns included; an empty body relies on     *)
(* what the function before it left in stmReturns (CodeGenVisitor.cpp:74). *)
PlainIsVerified ==
  /\ Finished
  /\ PlainList(program[fn].body)
  /\ program[fn].ret = "value" => ListReturns(program[fn].body)
  /\ program[fn].body = <<>> => ~ stmReturns
  => Verified

(* The message of CodeGenVisitor.cpp:79 is never given for a function that *)
(* returns on every path.                                                  *)
NoFalseDiagnosis ==
  Finished /\ ListReturns(program[fn].body) => fn \notin diagnosed

(* CodeGenVisitor.cpp:89: verifyFunction is expected to find nothing, so   *)
(* long as no value function falls off its end.                            *)
VerifierAccepts ==
  Finished /\ fn \notin diagnosed => Verified

(* CodeGenVisitor.cpp:79: "Function does not returns in all cases and is   *)
(* not void!" is said of every such function with a statement in it.       *)
FallThroughDiagnosed ==
  Finished /\ program[fn].ret = "value" /\ program[fn].body # <<>>
           /\ ~ ListReturns(program[fn].body) => fn \in diagnosed
=============================================================================
