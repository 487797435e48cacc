------------------------------ MODULE IRBuilder ------------------------------
(***************************************************************************)
(* The slice of LLVM that the code generator drives: llvm::BasicBlock, the *)
(* insertion point of llvm::IRBuilder and llvm::verifyFunction.  It is     *)
(* external to the repository and modelled from the calls that             *)
(* CodeGenVisitor makes.                                                   *)
(*                                                                         *)
(* A block is the sequence of the instructions appended to it.  Straight-  *)
(* line code is one "eval" per evaluated (sub)expression; loads, stores,   *)
(* allocas and the arithmetic of an expression are inside it.  Blocks are  *)
(* numbered in the order of their creation, block 1 is the entry block.    *)
(***************************************************************************)
EXTENDS Naturals, Sequences

(* Instructions: an operation and its operands (an expression and a part   *)
(* of it, or the numbers of the blocks branched to).                       *)
Eval(e, part) == [op |-> "eval", arg |-> <<e, part>>]
Br(b)         == [op |-> "br", arg |-> <<b>>]
CondBr(b, c)  == [op |-> "condbr", arg |-> <<b, c>>]
Ret           == [op |-> "ret", arg |-> <<>>]

IsTerminator(inst) == inst.op \in {"br", "condbr", "ret"}

(* BasicBlock::getTerminator() # nullptr: only the last instruction is     *)
(* looked at.                                                              *)
HasTerminator(block) ==
  /\ block # <<>>
  /\ IsTerminator(block[Len(block)])

(* A function under construction: its blocks and the insertion point.      *)
EmptyFunction == [blocks |-> << <<>> >>, at |-> 1]

InsertBlock(ir) == ir.blocks[ir.at]

Emit(ir, inst) == [ir EXCEPT !.blocks[ir.at] = Append(@, inst)]

SetInsertPoint(ir, b) == [ir EXCEPT !.at = b]

(* BasicBlock::Create, n times in a row; the first one gets NextBlock(ir). *)
NextBlock(ir) == Len(ir.blocks) + 1

CreateBlocks(ir, n) == [ir EXCEPT !.blocks = @ \o [i \in 1 .. n |-> <<>>]]

(* verifyFunction, as far as it looks at the shape of the blocks: every    *)
(* block ends in a terminator and holds no other one.                      *)
VerifiedBlock(block) ==
  /\ HasTerminator(block)
  /\ \A i \in 1 .. Len(block) - 1 : ~ IsTerminator(block[i])

VerifiedFunction(blocks) == \A b \in DOMAIN blocks : VerifiedBlock(blocks[b])
=============================================================================
