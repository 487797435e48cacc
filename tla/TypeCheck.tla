------------------------------ MODULE TypeCheck ------------------------------
(***************************************************************************)
(* The statement half of TypeCheckVisitor: how it walks the function       *)
(* bodies, opens and closes Contexts, enters variables, and what an error  *)
(* unwinds.  The C++ stack is explicit as in CodeGenStm.  A handler visits *)
(* its children with accept() and lets a TypeCheckingError pass; only the  *)
(* statement lists of visitDFun and visitSBlock (and visitPDefs) visit     *)
(* with tryVisit, which catches it.                                        *)
(*                                                                         *)
(* An expression is what its visit comes to: a variable, whose type is     *)
(* looked up; a value of a type that does not depend on the variables; or  *)
(* one that throws.                                                        *)
(***************************************************************************)
EXTENDS Context, FiniteSets

CONSTANTS
  Stm,       \* statement trees, closed under sub-statements
  NoStm,     \* "no statement to enter"
  NoInit,    \* the initialiser of an IdNoInit
  types,     \* Context::types, as ContextBuilder leaves them
  Programs   \* the programs checked, each a sequence of functions

Exp ==
  [op : {"EId"}, name : Id] \cup
  [op : {"Value"}, type : DOMAIN types] \cup
  [op : {"Bad"}]

Node(ops, m, n) == [op : ops, exps : [1 .. m -> Exp], kids : [1 .. n -> Stm]]

IdIn == [name : Id, init : Exp \cup {NoInit}]

Statement ==
  Node({"SExp", "SReturn"}, 1, 0) \cup
  Node({"SReturnV"}, 0, 0) \cup
  Node({"SWhile", "SDoWhile"}, 1, 1) \cup
  Node({"SFor"}, 3, 1) \cup
  Node({"SIfElse"}, 1, 2) \cup
  [op : {"SBlock"}, kids : Seq(Stm)] \cup
  [op : {"SDecls"}, type : TypeId, exps : Seq(IdIn)]

(* A function that ContextBuilder accepted: its types are known and no     *)
(* argument is void.                                                       *)
Function ==
  [op : {"DFun"}, type : DOMAIN types, args : Seq([name : Id, type : DOMAIN types \ {TYPE_VOID}]),
   kids : Seq(Stm)]

ASSUME TypeCheckAssumption ==
  /\ Stm \subseteq Statement
  /\ NoStm \notin Stm
  /\ NoInit \notin Exp
  /\ DOMAIN types = 1 .. Len(types)
  /\ \A t \in 1 .. 4 : t \in DOMAIN types /\ types[t] = DefaultTypes[t]
  /\ \A t, u \in DOMAIN types : types[t].id = types[u].id => t = u
  /\ Programs \subseteq Seq(Function)

VARIABLES
  program,     \* the functions to check
  rootParent,  \* what the parent of the default context holds
  fn,          \* number of the function being checked
  arg,         \* number of its arguments entered so far
  frames,      \* active handlers, the innermost one last
  node,        \* statement whose handler is entered next, or NoStm
  chain,       \* basicSymbols of currentContext (last) and its parents
  anyErrors,   \* TypeCheckVisitor::anyErrors
  crashed

vars == <<program, rootParent, fn, arg, frames, node, chain, anyErrors, crashed>>

-----------------------------------------------------------------------------
(* Contexts *)

Current == chain[Len(chain)]

(* Mutant of beginContext: the child starts as a copy of its parent.       *)
beginContextCopy == chain' = Append(chain, Current)

(* beginContext; endContext deletes the context and returns to its parent. *)
beginContext == chain' = Append(chain, NoMembers)
endContext   == chain' = SubSeq(chain, 1, Len(chain) - 1)

Holders(c, id) == {i \in DOMAIN c : id \in DOMAIN c[i]}

(* Mutant of findSymbol: the parents are not asked.                        *)
findSymbolInThis(c, id) ==
  IF id \in DOMAIN c[Len(c)] THEN c[Len(c)][id] ELSE null

(* Mutant of findSymbol: the outermost context that holds the name.        *)
findSymbolOutermost(c, id) ==
  IF Holders(c, id) = {} THEN null
  ELSE LET first == CHOOSE i \in Holders(c, id) : \A j \in Holders(c, id) : i <= j
       IN c[first][id]

(* findSymbol: the innermost context that holds the name.                  *)
findSymbol(c, id) ==
  IF Holders(c, id) = {} THEN null
  ELSE LET inner == CHOOSE i \in Holders(c, id) : \A j \in Holders(c, id) : j <= i
       IN c[inner][id]

(* addSymbol, of a name the current context does not hold.                 *)
addSymbol(id, type) == chain' = [chain EXCEPT ![Len(chain)] = Emplace(@, id, type)]

-----------------------------------------------------------------------------
(* Expressions *)

isConvertibleTo(t, u) == t = u \/ (t = TYPE_INT /\ u = TYPE_DOUBLE)

(* The type an expression visit ends with, null when it throws.            *)
resultExpType(e) ==
  CASE e.op = "EId"   -> findSymbol(chain, e.name)
    [] e.op = "Value" -> e.type
    [] e.op = "Bad"   -> null

(* A handler visits an expression and throws unless its type is in want.   *)
Test(e, want) == [exp |-> e, want |-> want]

AnyType    == DOMAIN types
Bool       == {TYPE_BOOL}
Becomes(t) == {u \in DOMAIN types : isConvertibleTo(u, t)}

Failing(tests) == {i \in DOMAIN tests : resultExpType(tests[i].exp) \notin tests[i].want}

(* The first test that fails decides how the handler is left.              *)
FirstFailing(tests) ==
  tests[CHOOSE i \in Failing(tests) : \A j \in Failing(tests) : i <= j].exp

(* A variable that is nowhere is looked for in what parent points at.      *)
Dangling(e) ==
  rootParent = "junk" /\ e.op = "EId" /\ findSymbol(chain, e.name) = null

-----------------------------------------------------------------------------
(* Handlers *)

Frame(s, pos) == [stm |-> s, pos |-> pos]

Top == frames[Len(frames)]
Pop == SubSeq(frames, 1, Len(frames) - 1)

Entering(op) == ~ crashed /\ node # NoStm /\ node.op = op

InFrame(op) == ~ crashed /\ node = NoStm /\ frames # <<>> /\ Top.stm.op = op

Resuming(op, pos) == InFrame(op) /\ Top.pos = pos

Call(s, frame) == frames' = Append(frames, frame) /\ node' = s
Advance(s)     == frames' = Append(Pop, [Top EXCEPT !.pos = @ + 1]) /\ node' = s
Return         == frames' = Pop /\ node' = NoStm
Leaf           == node' = NoStm /\ UNCHANGED frames

(* Mutant of Catchers: visitSBlock visits its list with accept().          *)
FunctionCatchers == {i \in DOMAIN frames : frames[i].stm.op = "DFun"}

(* The frames whose loops call tryVisit.                                   *)
Catchers == {i \in DOMAIN frames : frames[i].stm.op \in {"DFun", "SBlock"}}

(* Mutant of Throw: a loop that catches goes on with the same statement.   *)
ThrowRepeats ==
  /\ LET i == CHOOSE i \in Catchers : \A j \in Catchers : j <= i
     IN frames' = [SubSeq(frames, 1, i) EXCEPT ![i].pos = @ - 1]
  /\ node' = NoStm
  /\ anyErrors' = TRUE
  /\ UNCHANGED <<chain, crashed>>

(* throw: back to the innermost loop that catches, whatever lies between;  *)
(* handleError sets anyErrors.                                             *)
Throw ==
  /\ frames' = SubSeq(frames, 1, CHOOSE i \in Catchers : \A j \in Catchers : j <= i)
  /\ node' = NoStm
  /\ anyErrors' = TRUE
  /\ UNCHANGED <<chain, crashed>>

Crash == crashed' = TRUE /\ UNCHANGED <<frames, node, chain, anyErrors>>

Sound == UNCHANGED <<chain, anyErrors, crashed>>

(* Visit the expressions of tests in turn and, if all is well, go on.      *)
Checking(tests, GoOn) ==
  /\ \/ Failing(tests) = {} /\ GoOn
     \/ Failing(tests) # {} /\ ~ Dangling(FirstFailing(tests)) /\ Throw
     \/ Failing(tests) # {} /\ Dangling(FirstFailing(tests)) /\ Crash
  /\ UNCHANGED <<program, rootParent, fn, arg>>

fixed == <<program, rootParent, fn, arg, anyErrors, crashed>>

-----------------------------------------------------------------------------
(* Functions and statement lists *)

returnType == program[fn].type

(* tryVisit of the next definition: visitDFun opens its context.           *)
visitDFun ==
  /\ ~ crashed /\ node = NoStm /\ frames = <<>>
  /\ fn < Len(program)
  /\ fn' = fn + 1
  /\ arg' = 0
  /\ beginContext
  /\ frames' = <<Frame(program[fn + 1], 0)>>
  /\ UNCHANGED <<program, rootParent, node, anyErrors, crashed>>

(* One argument; a repeated name is reported, and the loop goes on.        *)
visitADecl ==
  /\ InFrame("DFun")
  /\ arg < Len(Top.stm.args)
  /\ arg' = arg + 1
  /\ LET a     == Top.stm.args[arg + 1]
         taken == a.name \in DOMAIN Current
     IN /\ IF taken THEN UNCHANGED chain ELSE addSymbol(a.name, a.type)
        /\ anyErrors' = (anyErrors \/ taken)
  /\ UNCHANGED <<program, rootParent, fn, frames, node, crashed>>

InList(op) == InFrame(op) /\ (op = "DFun" => arg = Len(Top.stm.args))

(* tryVisit of the next statement of a list.                               *)
visitNext ==
  /\ InList("DFun") \/ InList("SBlock")
  /\ Top.pos < Len(Top.stm.kids)
  /\ Advance(Top.stm.kids[Top.pos + 1])
  /\ UNCHANGED <<fixed, chain>>

ListDone(op) == InList(op) /\ Top.pos = Len(Top.stm.kids)

endDFun == ListDone("DFun") /\ endContext /\ Return /\ UNCHANGED fixed

visitSBlock ==
  /\ Entering("SBlock")
  /\ beginContext
  /\ Call(NoStm, Frame(node, 0))
  /\ UNCHANGED fixed

endSBlock == ListDone("SBlock") /\ endContext /\ Return /\ UNCHANGED fixed

-----------------------------------------------------------------------------
(* Statements *)

visitSExp ==
  /\ Entering("SExp")
  /\ Checking(<<Test(node.exps[1], AnyType)>>, Leaf /\ Sound)

visitSReturn ==
  /\ Entering("SReturn")
  /\ Checking(<<Test(node.exps[1], Becomes(returnType))>>, Leaf /\ Sound)

visitSReturnV ==
  /\ Entering("SReturnV")
  /\ IF isConvertibleTo(returnType, TYPE_VOID) THEN Leaf /\ Sound ELSE Throw
  /\ UNCHANGED <<program, rootParent, fn, arg>>

(* Mutant of visitSDecls: an unknown type is not looked for.               *)
visitSDeclsUnchecked ==
  /\ Entering("SDecls")
  /\ IF findBasicType(types, node.type) = TYPE_VOID THEN Throw
     ELSE Call(NoStm, Frame(node, 0)) /\ Sound
  /\ UNCHANGED <<program, rootParent, fn, arg>>

(* The type of a declaration must be known and not void.                   *)
visitSDecls ==
  /\ Entering("SDecls")
  /\ LET declType == findBasicType(types, node.type) IN
       CASE declType = TYPE_VOID -> Throw
         [] declType = null      -> IF rootParent = "junk" THEN Crash ELSE Throw
         [] OTHER                -> Call(NoStm, Frame(node, 0)) /\ Sound
  /\ UNCHANGED <<program, rootParent, fn, arg>>

(* One name: its initialiser is visited before the name is entered.        *)
visitIdIn ==
  /\ InFrame("SDecls")
  /\ Top.pos < Len(Top.stm.exps)
  /\ LET id       == Top.stm.exps[Top.pos + 1]
         declType == findBasicType(types, Top.stm.type)
         tests    == IF id.init = NoInit THEN <<>> ELSE <<Test(id.init, Becomes(declType))>>
         Enter    == /\ addSymbol(id.name, declType)
                     /\ Advance(NoStm)
                     /\ UNCHANGED <<anyErrors, crashed>>
     IN Checking(tests, IF id.name \in DOMAIN Current THEN Throw ELSE Enter)

endSDecls ==
  /\ InFrame("SDecls")
  /\ Top.pos = Len(Top.stm.exps)
  /\ Return
  /\ UNCHANGED <<fixed, chain>>

visitSWhile ==
  /\ Entering("SWhile")
  /\ Checking(<<Test(node.exps[1], Bool)>>,
              Call(node.kids[1], Frame(node, 1)) /\ Sound)

visitSDoWhile ==
  /\ Entering("SDoWhile")
  /\ Call(node.kids[1], Frame(node, 1))
  /\ UNCHANGED <<fixed, chain>>

(* The condition of a do is visited after its body.                        *)
endSDoWhile ==
  /\ Resuming("SDoWhile", 1)
  /\ Checking(<<Test(Top.stm.exps[1], Bool)>>, Return /\ Sound)

(* All three expressions are visited before the body.                      *)
visitSFor ==
  /\ Entering("SFor")
  /\ Checking(<<Test(node.exps[1], AnyType), Test(node.exps[2], Bool), Test(node.exps[3], AnyType)>>,
              Call(node.kids[1], Frame(node, 1)) /\ Sound)

visitSIfElse ==
  /\ Entering("SIfElse")
  /\ Checking(<<Test(node.exps[1], Bool)>>,
              Call(node.kids[1], Frame(node, 1)) /\ Sound)

elseSIfElse ==
  /\ Resuming("SIfElse", 1)
  /\ Advance(Top.stm.kids[2])
  /\ UNCHANGED <<fixed, chain>>

(* The handlers that end with the visit of their last statement.           *)
endStm ==
  /\ Resuming("SWhile", 1) \/ Resuming("SFor", 1) \/ Resuming("SIfElse", 2)
  /\ Return
  /\ UNCHANGED <<fixed, chain>>

Init ==
  /\ program \in Programs
  /\ rootParent \in {"null", "junk"}
  /\ fn = 0
  /\ arg = 0
  /\ frames = <<>>
  /\ node = NoStm
  /\ chain = <<NoMembers>>
  /\ anyErrors = FALSE
  /\ crashed = FALSE

Next ==
  \/ visitDFun   \/ visitADecl  \/ visitNext \/ endDFun
  \/ visitSBlock \/ endSBlock
  \/ visitSExp   \/ visitSReturn \/ visitSReturnV
  \/ visitSDecls \/ visitIdIn   \/ endSDecls
  \/ visitSWhile \/ visitSDoWhile \/ endSDoWhile
  \/ visitSFor   \/ visitSIfElse  \/ elseSIfElse \/ endStm

Spec == Init /\ [][Next]_vars

(* One thread that runs to its exit.                                       *)
FairSpec == Spec /\ WF_vars(Next)

Done == crashed \/ (fn = Len(program) /\ frames = <<>> /\ node = NoStm)

-----------------------------------------------------------------------------
(* Properties *)

(* The stack holds statements and functions, every context maps names to   *)
(* known types.                                                            *)
TypeOK ==
  /\ program \in Seq(Function)
  /\ rootParent \in {"null", "junk"}
  /\ fn \in 0 .. Len(program)
  /\ arg \in Nat
  /\ frames \in Seq([stm : Stm \cup Function, pos : Nat])
  /\ node \in Stm \cup {NoStm}
  /\ chain # <<>>
  /\ \A i \in DOMAIN chain :
       DOMAIN chain[i] \subseteq Id /\ chain[i] \in [DOMAIN chain[i] -> DOMAIN types]
  /\ anyErrors \in BOOLEAN /\ crashed \in BOOLEAN

(* However an error unwinds (TypeCheckVisitor.cpp:131-139 has no cleanup   *)
(* of its own), currentContext is the one of the innermost function or     *)
(* block that is still being visited.                                      *)
ContextPerScope ==
  Len(chain) = 1 + Cardinality({i \in DOMAIN frames : frames[i].stm.op \in {"DFun", "SBlock"}})

(* The chain of contexts is the table of LexicalScope: opening, declaring  *)
(* and closing do to lookups what they do to the table, errors or not.     *)
Table(c) == [x \in Id |-> findSymbol(c, x)]

Lexical == INSTANCE LexicalScope WITH
  Name    <- Id,
  Meaning <- DOMAIN types,
  Unknown <- null,
  visible <- Table(chain),
  local   <- DOMAIN Current,
  outer   <- [i \in 1 .. Len(chain) - 1 |->
               [visible |-> Table(SubSeq(chain, 1, i)), local |-> DOMAIN chain[i]]]

IsLexicalScope == Lexical!Spec

(* The visitor always comes to the end of the program, or crashes.         *)
ComesToTheEnd == <>Done
=============================================================================
