----------------------------- MODULE CodeGenStm -----------------------------
(***************************************************************************)
(* The statement half of CodeGenVisitor: how the visitor walks function    *)
(* bodies, lays out basic blocks, moves the insertion point, carries the   *)
(* flag stmReturns from one handler to the next and opens and closes its   *)
(* CodeGenContexts.                                                        *)
(*                                                                         *)
(* The C++ call stack is explicit.  frames holds one record per active     *)
(* visit* handler that has called accept() on a child; node is the child   *)
(* whose handler is entered next, NoStm when a handler has just returned.  *)
(* A handler is thus cut into one action per stretch between two accept()  *)
(* calls on statements.  The visit of an expression is part of the stretch *)
(* it occurs in: what it does to the blocks is GenExp.                     *)
(***************************************************************************)
EXTENDS IRBuilder, FiniteSets

CONSTANTS
  Stm,        \* statement trees, closed under sub-statements
  NoStm,      \* "no statement to enter"
  Exp,        \* expressions
  CondExp,    \* those of Exp that are a ternary, ECond
  Programs    \* the programs compiled, each a sequence of functions

(* A statement is [op, exps, kids]: the constructor, its expressions and   *)
(* its sub-statements, in the order of the fields of the Absyn class.  The *)
(* expressions of an SDecls are its initialisers.                          *)
Node(ops, m, n) == [op : ops, exps : [1 .. m -> Exp], kids : [1 .. n -> Stm]]

Statement ==
  Node({"SExp", "SReturn"}, 1, 0) \cup
  Node({"SReturnV"}, 0, 0) \cup
  Node({"SWhile", "SDoWhile"}, 1, 1) \cup
  Node({"SFor"}, 3, 1) \cup
  Node({"SIfElse"}, 1, 2) \cup
  [op : {"SDecls"}, exps : Seq(Exp), kids : {<<>>}] \cup
  [op : {"SBlock"}, exps : {<<>>}, kids : Seq(Stm)]

(* ret tells functions with a result from void ones, which the typechecker *)
(* lets have "return;" (TypeCheckVisitor.cpp:94) and also a "return e;"    *)
(* whose e is a void call (:89).  The kind of a return is not told apart.  *)
Function == [body : Seq(Stm), ret : {"void", "value"}]

ASSUME StmAssumption ==
  /\ Stm \subseteq Statement
  /\ NoStm \notin Stm
  /\ CondExp \subseteq Exp
  /\ Programs \subseteq Seq(Function)

VARIABLES
  program,     \* the functions to compile
  fn,          \* number of the function being generated (currentFunction)
  frames,      \* active handlers, the innermost one last
  node,        \* statement whose handler is entered next, or NoStm
  ir,          \* blocks of the current function and insertion point
  stmReturns,  \* CodeGenVisitor::stmReturns
  depth,       \* number of CodeGenContexts above the root one
  module,      \* the blocks of each function generated so far
  diagnosed    \* functions reported as not returning in all cases

vars == <<program, fn, frames, node, ir, stmReturns, depth, module, diagnosed>>

-----------------------------------------------------------------------------
(* Expressions *)

(* visitECond: the condition in the current block, each alternative in a   *)
(* block of its own, and the insertion point left at cond-merge.           *)
GenCond(f, e) ==
  LET b     == NextBlock(f)
      cond  == Emit(CreateBlocks(Emit(f, Eval(e, 1)), 3), CondBr(b, b + 1))
      true  == Emit(Emit(SetInsertPoint(cond, b), Eval(e, 2)), Br(b + 2))
      false == Emit(Emit(SetInsertPoint(true, b + 1), Eval(e, 3)), Br(b + 2))
  IN SetInsertPoint(false, b + 2)

(* p->exp_->accept(this): every other expression stays in its block.       *)
GenExp(f, e) == IF e \in CondExp THEN GenCond(f, e) ELSE Emit(f, Eval(e, 0))

(* Fall into block c, evaluate condition e there, branch to b or to d.     *)
GenTest(f, c, e, b, d) ==
  Emit(GenExp(SetInsertPoint(Emit(f, Br(c)), c), e), CondBr(b, d))

-----------------------------------------------------------------------------
(* Handlers *)

(* base is the first block a handler created, pos counts the children it   *)
(* has visited or is visiting.                                             *)
Frame(s, pos, base) == [stm |-> s, pos |-> pos, base |-> base]

Top == frames[Len(frames)]
Pop == SubSeq(frames, 1, Len(frames) - 1)

FunctionNode(f) == [op |-> "DFun", exps |-> <<>>, kids |-> f.body]

Entering(op) == node # NoStm /\ node.op = op

Resuming(op, pos) ==
  /\ node = NoStm
  /\ frames # <<>>
  /\ Top.stm.op = op
  /\ Top.pos = pos

(* The handler calls accept() on its child s.                              *)
Call(s, frame) == frames' = Append(frames, frame) /\ node' = s

(* The handler returns to its caller.                                      *)
Return == frames' = Pop /\ node' = NoStm

(* A handler with no sub-statements runs to its end in one step.           *)
Leaf == node' = NoStm /\ UNCHANGED frames

fixed == <<program, fn, module, diagnosed>>

(* visitDFun up to its loop: new function, entry block and CodeGenContext. *)
(* stmReturns keeps the value the previous function left.                  *)
visitDFun ==
  /\ node = NoStm
  /\ frames = <<>>
  /\ fn < Len(program)
  /\ fn' = fn + 1
  /\ frames' = <<Frame(FunctionNode(program[fn + 1]), 0, 0)>>
  /\ ir' = EmptyFunction
  /\ depth' = depth + 1
  /\ UNCHANGED <<program, node, stmReturns, module, diagnosed>>

(* The loops over statement lists of visitDFun and visitSBlock: stop after *)
(* a statement that set stmReturns.                                        *)
InList == node = NoStm /\ frames # <<>> /\ Top.stm.op \in {"DFun", "SBlock"}

(* Mutant of Broken: the loops do not stop at a return.                    *)
NeverBroken == FALSE

Broken == Top.pos > 0 /\ stmReturns

visitNext ==
  /\ InList
  /\ Top.pos < Len(Top.stm.kids)
  /\ ~ Broken
  /\ node' = Top.stm.kids[Top.pos + 1]
  /\ frames' = Append(Pop, [Top EXCEPT !.pos = @ + 1])
  /\ UNCHANGED <<fixed, ir, stmReturns, depth>>

(* Mutant of ListDone: a loop that was broken off never reaches its end.   *)
RanThrough(op) == InList /\ Top.stm.op = op /\ Top.pos = Len(Top.stm.kids)

ListDone(op) ==
  /\ InList
  /\ Top.stm.op = op
  /\ Broken \/ Top.pos = Len(Top.stm.kids)

(* visitDFun after its loop: the implicit "ret void", or the message that  *)
(* the function does not return in all cases.                              *)
endDFun ==
  /\ ListDone("DFun")
  /\ LET void == program[fn].ret = "void"
         last == IF ~ stmReturns /\ void THEN Emit(ir, Ret) ELSE ir
     IN /\ ir' = last
        /\ module' = Append(module, last.blocks)
        /\ diagnosed' = IF stmReturns \/ void THEN diagnosed
                                              ELSE diagnosed \cup {fn}
  /\ depth' = depth - 1
  /\ Return
  /\ UNCHANGED <<program, fn, stmReturns>>

(* Mutant of visitSBlock: no beginCodeGenContext.                          *)
visitSBlockNoContext ==
  /\ Entering("SBlock")
  /\ Call(NoStm, Frame(node, 0, 0))
  /\ UNCHANGED <<fixed, ir, stmReturns, depth>>

visitSBlock ==
  /\ Entering("SBlock")
  /\ Call(NoStm, Frame(node, 0, 0))
  /\ depth' = depth + 1
  /\ UNCHANGED <<fixed, ir, stmReturns>>

(* Mutant of endSBlock: the break leaves without endCodeGenContext.        *)
endSBlockOnBreak ==
  /\ ListDone("SBlock")
  /\ stmReturns' = Broken
  /\ depth' = IF Broken THEN depth ELSE depth - 1
  /\ Return
  /\ UNCHANGED <<fixed, ir>>

(* Mutant of endSBlock: stmReturns is reset after the loop.                *)
endSBlockReset ==
  /\ ListDone("SBlock")
  /\ stmReturns' = FALSE
  /\ depth' = depth - 1
  /\ Return
  /\ UNCHANGED <<fixed, ir>>

endSBlock ==
  /\ ListDone("SBlock")
  /\ stmReturns' = Broken
  /\ depth' = depth - 1
  /\ Return
  /\ UNCHANGED <<fixed, ir>>

visitSExp ==
  /\ Entering("SExp")
  /\ ir' = GenExp(ir, node.exps[1])
  /\ stmReturns' = FALSE
  /\ Leaf
  /\ UNCHANGED <<fixed, depth>>

visitSDecls ==
  /\ Entering("SDecls")
  /\ Call(NoStm, Frame(node, 0, 0))
  /\ UNCHANGED <<fixed, ir, stmReturns, depth>>

InDecls == node = NoStm /\ frames # <<>> /\ Top.stm.op = "SDecls"

(* One round of the loop of visitSDecls that has an initialiser.           *)
visitIdInit ==
  /\ InDecls
  /\ Top.pos < Len(Top.stm.exps)
  /\ ir' = GenExp(ir, Top.stm.exps[Top.pos + 1])
  /\ frames' = Append(Pop, [Top EXCEPT !.pos = @ + 1])
  /\ UNCHANGED <<fixed, node, stmReturns, depth>>

endSDecls ==
  /\ InDecls
  /\ Top.pos = Len(Top.stm.exps)
  /\ stmReturns' = FALSE
  /\ Return
  /\ UNCHANGED <<fixed, ir, depth>>

visitSReturn ==
  /\ Entering("SReturn")
  /\ ir' = Emit(GenExp(ir, node.exps[1]), Ret)
  /\ stmReturns' = TRUE
  /\ Leaf
  /\ UNCHANGED <<fixed, depth>>

visitSReturnV ==
  /\ Entering("SReturnV")
  /\ ir' = Emit(ir, Ret)
  /\ stmReturns' = TRUE
  /\ Leaf
  /\ UNCHANGED <<fixed, depth>>

(* while-cond, while-body, while-merge = b, b + 1, b + 2.                  *)
visitSWhile ==
  /\ Entering("SWhile")
  /\ LET b == NextBlock(ir) IN
     /\ ir' = SetInsertPoint(
                GenTest(CreateBlocks(ir, 3), b, node.exps[1], b + 1, b + 2),
                b + 1)
     /\ Call(node.kids[1], Frame(node, 1, b))
  /\ UNCHANGED <<fixed, stmReturns, depth>>

(* Mutant of endSWhile: goes on in while-cond instead of while-merge.      *)
endSWhileInCond ==
  /\ Resuming("SWhile", 1)
  /\ ir' = SetInsertPoint(Emit(ir, Br(Top.base)), Top.base)
  /\ Return
  /\ UNCHANGED <<fixed, stmReturns, depth>>

endSWhile ==
  /\ Resuming("SWhile", 1)
  /\ ir' = SetInsertPoint(Emit(ir, Br(Top.base)), Top.base + 2)
  /\ Return
  /\ UNCHANGED <<fixed, stmReturns, depth>>

(* Mutant of visitSDoWhile: enters the loop at its test.                   *)
visitSDoWhileTested ==
  /\ Entering("SDoWhile")
  /\ LET b == NextBlock(ir) IN
     /\ ir' = SetInsertPoint(Emit(CreateBlocks(ir, 3), Br(b + 2)), b)
     /\ Call(node.kids[1], Frame(node, 1, b))
  /\ UNCHANGED <<fixed, stmReturns, depth>>

(* whileBlock, afterwhileBlock, condBlock = b, b + 1, b + 2.               *)
visitSDoWhile ==
  /\ Entering("SDoWhile")
  /\ LET b == NextBlock(ir) IN
     /\ ir' = SetInsertPoint(Emit(CreateBlocks(ir, 3), Br(b)), b)
     /\ Call(node.kids[1], Frame(node, 1, b))
  /\ UNCHANGED <<fixed, stmReturns, depth>>

(* Mutant of endSDoWhile: the targets of the test are swapped.             *)
endSDoWhileSwapped ==
  /\ Resuming("SDoWhile", 1)
  /\ LET b == Top.base IN
       ir' = SetInsertPoint(
               GenTest(ir, b + 2, Top.stm.exps[1], b + 1, b), b + 1)
  /\ Return
  /\ UNCHANGED <<fixed, stmReturns, depth>>

endSDoWhile ==
  /\ Resuming("SDoWhile", 1)
  /\ LET b == Top.base IN
       ir' = SetInsertPoint(
               GenTest(ir, b + 2, Top.stm.exps[1], b, b + 1), b + 1)
  /\ Return
  /\ UNCHANGED <<fixed, stmReturns, depth>>

(* loopCondition, loopBlock, mergeBlock = b, b + 1, b + 2; the blocks are  *)
(* created after exp_1 was generated.                                      *)
visitSFor ==
  /\ Entering("SFor")
  /\ LET init == GenExp(ir, node.exps[1])
         b    == NextBlock(init)
     IN /\ ir' = SetInsertPoint(
                   GenTest(CreateBlocks(init, 3), b, node.exps[2], b + 1, b + 2),
                   b + 1)
        /\ Call(node.kids[1], Frame(node, 1, b))
  /\ UNCHANGED <<fixed, stmReturns, depth>>

(* Mutant of endSFor: exp_3 and the back edge follow a body that returns.  *)
endSForUntested ==
  /\ Resuming("SFor", 1)
  /\ ir' = SetInsertPoint(
             Emit(GenExp(ir, Top.stm.exps[3]), Br(Top.base)), Top.base + 2)
  /\ stmReturns' = FALSE
  /\ Return
  /\ UNCHANGED <<fixed, depth>>

(* A body that returns gets neither exp_3 nor a back edge.                 *)
endSFor ==
  /\ Resuming("SFor", 1)
  /\ LET b     == Top.base
         loop  == Emit(GenExp(ir, Top.stm.exps[3]), Br(b))
     IN ir' = SetInsertPoint(IF stmReturns THEN ir ELSE loop, b + 2)
  /\ stmReturns' = FALSE
  /\ Return
  /\ UNCHANGED <<fixed, depth>>

(* ifBlock, thenBlock, elseBlock, nextBlock = b, b + 1, b + 2, b + 3.      *)
visitSIfElse ==
  /\ Entering("SIfElse")
  /\ LET b == NextBlock(ir) IN
     /\ ir' = SetInsertPoint(
                GenTest(CreateBlocks(ir, 4), b, node.exps[1], b + 1, b + 2),
                b + 1)
     /\ Call(node.kids[1], Frame(node, 1, b))
  /\ UNCHANGED <<fixed, stmReturns, depth>>

(* Mutant of CloseBranch: the terminator of the branch is not looked for.  *)
AlwaysBranch(f, next) == Emit(f, Br(next))

(* A branch that is not terminated falls into nextBlock.                   *)
CloseBranch(f, next) ==
  IF HasTerminator(InsertBlock(f)) THEN f ELSE Emit(f, Br(next))

(* Mutant of elseSIfElse: the else branch is generated into nextBlock.     *)
elseSIfElseInNext ==
  /\ Resuming("SIfElse", 1)
  /\ ir' = SetInsertPoint(CloseBranch(ir, Top.base + 3), Top.base + 3)
  /\ frames' = Append(Pop, [Top EXCEPT !.pos = 2])
  /\ node' = Top.stm.kids[2]
  /\ UNCHANGED <<fixed, stmReturns, depth>>

elseSIfElse ==
  /\ Resuming("SIfElse", 1)
  /\ ir' = SetInsertPoint(CloseBranch(ir, Top.base + 3), Top.base + 2)
  /\ frames' = Append(Pop, [Top EXCEPT !.pos = 2])
  /\ node' = Top.stm.kids[2]
  /\ UNCHANGED <<fixed, stmReturns, depth>>

endSIfElse ==
  /\ Resuming("SIfElse", 2)
  /\ ir' = SetInsertPoint(CloseBranch(ir, Top.base + 3), Top.base + 3)
  /\ Return
  /\ UNCHANGED <<fixed, stmReturns, depth>>

(* The constructor leaves stmReturns uninitialised.                        *)
Init ==
  /\ program \in Programs
  /\ fn = 0
  /\ frames = <<>>
  /\ node = NoStm
  /\ ir = EmptyFunction
  /\ stmReturns \in BOOLEAN
  /\ depth = 0
  /\ module = <<>>
  /\ diagnosed = {}

Next ==
  \/ visitDFun   \/ visitNext   \/ endDFun
  \/ visitSBlock \/ endSBlock
  \/ visitSExp   \/ visitSReturn \/ visitSReturnV
  \/ visitSDecls \/ visitIdInit  \/ endSDecls
  \/ visitSWhile \/ endSWhile   \/ visitSDoWhile \/ endSDoWhile
  \/ visitSFor   \/ endSFor
  \/ visitSIfElse \/ elseSIfElse \/ endSIfElse

Spec == Init /\ [][Next]_vars

(* The compiler is one thread that runs to its exit.                       *)
FairSpec == Spec /\ WF_vars(Next)

Done == fn = Len(program) /\ frames = <<>> /\ node = NoStm

-----------------------------------------------------------------------------
(* Properties *)

Inst == [op : {"eval", "br", "condbr", "ret"}, arg : Seq(Exp \cup Nat)]

FunctionNodes == [op : {"DFun"}, exps : {<<>>}, kids : Seq(Stm)]

FrameSet == [stm : Stm \cup FunctionNodes, pos : Nat, base : Nat]

(* The program, the control stack, the IR and the flag keep their types.   *)
TypeOK ==
  /\ program \in Programs
  /\ fn \in 0 .. Len(program)
  /\ frames \in Seq(FrameSet)
  /\ node \in Stm \cup {NoStm}
  /\ ir \in [blocks : Seq(Seq(Inst)), at : Nat]
  /\ ir.at \in DOMAIN ir.blocks
  /\ stmReturns \in BOOLEAN
  /\ depth \in Nat
  /\ module \in Seq(Seq(Seq(Inst)))
  /\ Len(module) = IF frames = <<>> THEN fn ELSE fn - 1
  /\ diagnosed \subseteq 1 .. fn

(* Whenever the visitor enters a statement (CodeGenVisitor.cpp:68, 157,    *)
(* 175, 210, 232, 258, 264) the insertion block has no terminator yet: the *)
(* list loops' test of stmReturns is enough to keep every statement from   *)
(* being generated behind a ret.                                           *)
OpenAtVisit == node # NoStm => ~ HasTerminator(InsertBlock(ir))

Open(block) == \A i \in DOMAIN block : ~ IsTerminator(block[i])

(* A return followed by the unconditional branch of a loop.                *)
Overrun(block) ==
  /\ Len(block) > 1
  /\ block[Len(block)].op = "br"
  /\ block[Len(block) - 1].op = "ret"
  /\ Open(SubSeq(block, 1, Len(block) - 2))

(* visitSWhile and visitSDoWhile branch without looking whether the body   *)
(* already returned (:158, :177).  That is the only way a block gets code  *)
(* behind its terminator: one br, right after a ret, and nothing else.     *)
OverrunOnlyByBackEdge ==
  \A b \in DOMAIN ir.blocks :
    \/ Open(ir.blocks[b])
    \/ VerifiedBlock(ir.blocks[b])
    \/ Overrun(ir.blocks[b])

(* begin/endCodeGenContext pair up on every way out of a handler, the      *)
(* break on stmReturns included: one context per open block or function.   *)
ContextPerScope ==
  depth = Cardinality({i \in DOMAIN frames : frames[i].stm.op \in {"DFun", "SBlock"}})

(* Blocks that a handler created for later (the merge block of a loop, the *)
(* else and next blocks of an if) by the operation and position it is at.  *)
Pending(f) ==
  CASE f.stm.op = "SWhile"   -> {f.base + 2}
    [] f.stm.op = "SDoWhile" -> {f.base + 1, f.base + 2}
    [] f.stm.op = "SFor"     -> {f.base + 2}
    [] f.stm.op = "SIfElse"  -> IF f.pos = 1 THEN {f.base + 2, f.base + 3}
                                             ELSE {f.base + 3}
    [] OTHER                 -> {}

(* The blocks a suspended handler still has to fill stay empty, are not    *)
(* being filled, and belong to it alone, however deep its children nest.   *)
PendingUntouched ==
  \A i \in DOMAIN frames : \A b \in Pending(frames[i]) :
    /\ b \in DOMAIN ir.blocks /\ ir.blocks[b] = <<>> /\ b # ir.at
    /\ \A j \in DOMAIN frames : b \in Pending(frames[j]) => i = j

(* A block that has code and was left (every SetInsertPoint call of the    *)
(* visitor) is final: it is never filled, nor filled next, again.          *)
LeftBlocksFinal ==
  [][ fn' = fn =>
      \A b \in DOMAIN ir.blocks :
        b # ir.at /\ ir.blocks[b] # <<>> =>
          ir'.blocks[b] = ir.blocks[b] /\ ir'.at # b ]_vars

(* Every program is compiled to its last function: no handler, loop or     *)
(* break leaves the visitor with nothing to return to.                     *)
CompilesToTheEnd == <>Done
=============================================================================
