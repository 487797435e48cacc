-------------------------- MODULE CodeGenStmProofs --------------------------
(***************************************************************************)
(* Proofs about CodeGenStm for every set of statements, every nesting and  *)
(* every program: no statement is generated into a terminated block, the   *)
(* only code that ever follows a terminator is a loop's back edge after a  *)
(* ret, blocks reserved by a handler stay its own, contexts are balanced,  *)
(* no function is wrongly reported, and plain ones come out well formed.   *)
(***************************************************************************)
EXTENDS ReturnPaths, TreeProofs, FiniteSetTheorems, SequenceTheorems

IRs == [blocks : Seq(Seq(Inst)), at : Nat]

Size(f) == Len(f.blocks)

(* A block in one of the shapes OverrunOnlyByBackEdge allows.              *)
Shaped(block) == Open(block) \/ VerifiedBlock(block) \/ Overrun(block)

(* What the insertion block may look like between two steps.               *)
Fillable(block) ==
  Open(block) \/ (VerifiedBlock(block) /\ block[Len(block)].op = "ret")

ShapedIR(f) ==
  /\ f \in IRs
  /\ f.at \in 1 .. Size(f)
  /\ \A b \in 1 .. Size(f) : Shaped(f.blocks[b])

Ready(f) == ShapedIR(f) /\ Open(InsertBlock(f))

(* Blocks that would not pass verifyFunction.                              *)
Loose(f) == {b \in 1 .. Size(f) : ~ VerifiedBlock(f.blocks[b])}

(* From f to g the blocks of W were finished; those of V may not be.       *)
Settles(f, g, W, V) == Loose(g) \subseteq (Loose(f) \ W) \cup V

(* g comes from f by adding blocks and filling no old ones but those of W. *)
Keeps(f, g, W) ==
  /\ Size(g) >= Size(f)
  /\ \A b \in 1 .. Size(f) : b \notin W => g.blocks[b] = f.blocks[b]

-----------------------------------------------------------------------------
(* The constructors make instructions of the model's type (IRBuilder's     *)
(* CreateBr, CreateCondBr, CreateRet and the code of an expression).       *)
LEMMA InstTypes ==
  /\ \A e \in Exp, k \in Nat : Eval(e, k) \in Inst
  /\ \A b \in Nat : Br(b) \in Inst
  /\ \A b, c \in Nat : CondBr(b, c) \in Inst
  /\ Ret \in Inst
BY DEF Eval, Br, CondBr, Ret, Inst

(* Appending straight-line code to an open block leaves it open.           *)
LEMMA OpenEval ==
  ASSUME NEW block \in Seq(Inst), Open(block),
         NEW i \in Inst, ~ IsTerminator(i)
  PROVE  Open(Append(block, i))
BY DEF Open

(* Appending a terminator to an open block completes it.                   *)
LEMMA OpenTerminated ==
  ASSUME NEW block \in Seq(Inst), Open(block),
         NEW i \in Inst, IsTerminator(i)
  PROVE  /\ VerifiedBlock(Append(block, i))
         /\ Append(block, i)[Len(Append(block, i))] = i
BY DEF Open, VerifiedBlock, HasTerminator

(* A branch behind a ret is an overrun.                                    *)
LEMMA BranchBehindRet ==
  ASSUME NEW block \in Seq(Inst), Fillable(block), NEW b \in Nat
  PROVE  Shaped(Append(block, Br(b)))
<1>0. Br(b) \in Inst /\ IsTerminator(Br(b)) /\ Br(b).op = "br"
  BY InstTypes DEF IsTerminator, Br
<1>1. CASE Open(block)
  BY <1>0, <1>1, OpenTerminated DEF Shaped
<1>2. CASE VerifiedBlock(block) /\ block[Len(block)].op = "ret"
  <2> DEFINE new == Append(block, Br(b))
  <2>1. new \in Seq(Inst) /\ Len(new) = Len(block) + 1 /\ Len(block) >= 1
    BY <1>0, <1>2 DEF VerifiedBlock, HasTerminator
  <2>2. new[Len(new)].op = "br" /\ new[Len(new) - 1].op = "ret"
    BY <1>0, <1>2, <2>1
  <2>3. /\ Len(SubSeq(new, 1, Len(new) - 2)) = Len(block) - 1
        /\ \A i \in 1 .. Len(block) - 1 : SubSeq(new, 1, Len(new) - 2)[i] = block[i]
    <3>1. \A i \in 1 .. Len(block) - 1 : new[i] = block[i]
      BY <1>0
    <3>2. \A n \in 0 .. Len(new) :
            /\ Len(SubSeq(new, 1, n)) = n
            /\ \A i \in 1 .. n : SubSeq(new, 1, n)[i] = new[i]
      <4> HIDE DEF new
      <4> QED BY <2>1
    <3>3. Len(new) - 2 = Len(block) - 1 /\ Len(block) - 1 \in 0 .. Len(new)
      BY <2>1
    <3> HIDE DEF new
    <3> QED BY <3>1, <3>2, <3>3
  <2>4. Open(SubSeq(new, 1, Len(new) - 2))
    <3>1. DOMAIN SubSeq(new, 1, Len(new) - 2) = 1 .. Len(block) - 1
      BY <2>1, <2>3
    <3> QED BY <1>2, <2>3, <3>1 DEF Open, VerifiedBlock
  <2> QED BY <2>1, <2>2, <2>4 DEF Shaped, Overrun
<1> QED BY <1>1, <1>2 DEF Fillable

(* An insertion block without a terminator is open.                        *)
LEMMA NoTerminatorOpen ==
  ASSUME NEW block \in Seq(Inst), Fillable(block)
  PROVE  ~ HasTerminator(block) <=> Open(block)
BY DEF Fillable, VerifiedBlock, HasTerminator, Open

-----------------------------------------------------------------------------
(* A function in a good state has a number of blocks.                      *)
LEMMA SizeType ==
  ASSUME NEW f, ShapedIR(f)
  PROVE  Size(f) \in Nat
BY DEF ShapedIR, IRs, Size

(* Emit appends to the insertion block and touches nothing else.           *)
LEMMA EmitFacts ==
  ASSUME NEW f \in IRs, f.at \in 1 .. Size(f), NEW i \in Inst,
         NEW g, g = Emit(f, i)
  PROVE  /\ g \in IRs /\ g.at = f.at /\ Size(g) = Size(f)
         /\ g.blocks[f.at] = Append(f.blocks[f.at], i)
         /\ \A b \in 1 .. Size(f) : b # f.at => g.blocks[b] = f.blocks[b]
<1> DEFINE bs == [f.blocks EXCEPT ![f.at] = Append(@, i)]
<1>1. f.blocks \in Seq(Seq(Inst)) /\ f.at \in Nat
  BY DEF IRs
<1>2. f.blocks[f.at] \in Seq(Inst)
  BY <1>1 DEF Size
<1>3. bs \in Seq(Seq(Inst)) /\ Len(bs) = Len(f.blocks)
  BY <1>1, <1>2 DEF Size
<1>4. Emit(f, i) = [f EXCEPT !.blocks = bs]
  BY DEF Emit
<1>5. Emit(f, i).blocks = bs /\ Emit(f, i).at = f.at /\ Emit(f, i) \in IRs
  BY <1>1, <1>3, <1>4 DEF IRs
<1> QED BY <1>1, <1>3, <1>5 DEF Size

(* Straight-line code keeps a function ready for more.                     *)
LEMMA EmitEval ==
  ASSUME NEW f, Ready(f), NEW i \in Inst, ~ IsTerminator(i),
         NEW g, g = Emit(f, i)
  PROVE  /\ Ready(g) /\ Keeps(f, g, {f.at}) /\ g.at = f.at /\ Size(g) = Size(f)
         /\ Settles(f, g, {}, {f.at})
<1>1. /\ f \in IRs /\ f.at \in 1 .. Size(f) /\ f.blocks[f.at] \in Seq(Inst)
      /\ Size(f) \in Nat
  BY DEF Ready, ShapedIR, IRs, Size
<1>2. /\ g \in IRs /\ g.at = f.at /\ Size(g) = Size(f)
      /\ g.blocks[f.at] = Append(f.blocks[f.at], i)
      /\ \A b \in 1 .. Size(f) : b # f.at => g.blocks[b] = f.blocks[b]
  BY <1>1, EmitFacts
<1>3. Open(g.blocks[f.at])
  BY <1>1, <1>2, OpenEval DEF Ready, InsertBlock
<1>4. \A b \in 1 .. Size(f) : Shaped(g.blocks[b])
  BY <1>2, <1>3 DEF Ready, ShapedIR, Shaped
<1>5. Settles(f, g, {}, {f.at})
  BY <1>2 DEF Settles, Loose
<1> QED BY <1>1, <1>2, <1>3, <1>4, <1>5 DEF Ready, ShapedIR, Keeps, InsertBlock

(* A terminator may close any ready function.                              *)
LEMMA EmitTerminator ==
  ASSUME NEW f, Ready(f), NEW i \in Inst, IsTerminator(i),
         NEW g, g = Emit(f, i)
  PROVE  /\ ShapedIR(g) /\ Keeps(f, g, {f.at}) /\ g.at = f.at /\ Size(g) = Size(f)
         /\ i.op = "ret" => Fillable(InsertBlock(g))
         /\ Settles(f, g, {f.at}, {})
<1>1. /\ f \in IRs /\ f.at \in 1 .. Size(f) /\ f.blocks[f.at] \in Seq(Inst)
      /\ Size(f) \in Nat
  BY DEF Ready, ShapedIR, IRs, Size
<1>2. /\ g \in IRs /\ g.at = f.at /\ Size(g) = Size(f)
      /\ g.blocks[f.at] = Append(f.blocks[f.at], i)
      /\ \A b \in 1 .. Size(f) : b # f.at => g.blocks[b] = f.blocks[b]
  BY <1>1, EmitFacts
<1>3. /\ VerifiedBlock(g.blocks[f.at])
      /\ g.blocks[f.at][Len(g.blocks[f.at])] = i
  BY <1>1, <1>2, OpenTerminated DEF Ready, InsertBlock
<1>4. \A b \in 1 .. Size(f) : Shaped(g.blocks[b])
  BY <1>2, <1>3 DEF Ready, ShapedIR, Shaped
<1>5. i.op = "ret" => Fillable(g.blocks[g.at])
  BY <1>2, <1>3 DEF Fillable
<1>6. Settles(f, g, {f.at}, {})
  BY <1>2, <1>3 DEF Settles, Loose
<1> QED BY <1>1, <1>2, <1>4, <1>5, <1>6 DEF ShapedIR, Keeps, InsertBlock

(* The unconditional branch of a loop leaves every block shaped.           *)
LEMMA EmitBr ==
  ASSUME NEW f, ShapedIR(f), Fillable(InsertBlock(f)), NEW c \in Nat,
         NEW g, g = Emit(f, Br(c))
  PROVE  ShapedIR(g) /\ Keeps(f, g, {f.at}) /\ g.at = f.at /\ Size(g) = Size(f)
<1>1. /\ f \in IRs /\ f.at \in 1 .. Size(f) /\ f.blocks[f.at] \in Seq(Inst)
      /\ Size(f) \in Nat
  BY DEF ShapedIR, IRs, Size
<1>2. /\ g \in IRs /\ g.at = f.at /\ Size(g) = Size(f)
      /\ g.blocks[f.at] = Append(f.blocks[f.at], Br(c))
      /\ \A b \in 1 .. Size(f) : b # f.at => g.blocks[b] = f.blocks[b]
  <2>1. Br(c) \in Inst
    BY InstTypes
  <2> QED BY SMTT(40), <1>1, <2>1, EmitFacts
<1>3. Shaped(g.blocks[f.at])
  BY <1>1, <1>2, BranchBehindRet DEF InsertBlock
<1>4. \A b \in 1 .. Size(f) : Shaped(g.blocks[b])
  BY <1>2, <1>3 DEF ShapedIR
<1> QED BY <1>1, <1>2, <1>4 DEF ShapedIR, Keeps

(* Moving to an empty block makes a function ready.                        *)
LEMMA MoveToEmpty ==
  ASSUME NEW f, ShapedIR(f), NEW b \in 1 .. Size(f), f.blocks[b] = <<>>,
         NEW g, g = SetInsertPoint(f, b)
  PROVE  /\ Ready(g) /\ g.blocks = f.blocks /\ g.at = b /\ Size(g) = Size(f)
         /\ Settles(f, g, {}, {})
<1>1. f \in IRs /\ b \in Nat
  BY DEF ShapedIR, IRs, Size
<1>2. g \in IRs /\ g.blocks = f.blocks /\ g.at = b
  BY <1>1 DEF SetInsertPoint, IRs
<1>3. Open(f.blocks[b])
  BY DEF Open
<1> QED BY <1>2, <1>3 DEF Ready, ShapedIR, InsertBlock, Size, Settles, Loose

(* g is f with n empty blocks more.                                        *)
IsExtension(f, n, g) ==
  /\ ShapedIR(g) /\ g.at = f.at /\ Size(g) = Size(f) + n
  /\ \A b \in 1 .. Size(f) : g.blocks[b] = f.blocks[b]
  /\ \A b \in Size(f) + 1 .. Size(f) + n : g.blocks[b] = <<>>

(* New blocks are empty and the insertion point stays.                     *)
LEMMA CreateFacts ==
  ASSUME NEW f, ShapedIR(f), NEW n \in Nat,
         NEW g, g = CreateBlocks(f, n)
  PROVE  IsExtension(f, n, g)
<1> DEFINE new == [i \in 1 .. n |-> <<>>]
<1>1. f.blocks \in Seq(Seq(Inst)) /\ f.at \in Nat /\ f \in IRs
  BY DEF ShapedIR, IRs
<1>2. <<>> \in Seq(Inst) /\ Open(<<>>)
  BY DEF Open
<1>3. new \in Seq(Seq(Inst)) /\ Len(new) = n
  BY <1>2
<1>4. /\ f.blocks \o new \in Seq(Seq(Inst))
      /\ Len(f.blocks \o new) = Len(f.blocks) + n
      /\ \A b \in 1 .. Len(f.blocks) : (f.blocks \o new)[b] = f.blocks[b]
      /\ \A b \in Len(f.blocks) + 1 .. Len(f.blocks) + n :
           (f.blocks \o new)[b] = new[b - Len(f.blocks)]
  BY <1>1, <1>3
<1>5. g \in IRs /\ g.at = f.at /\ g.blocks = f.blocks \o new
  BY <1>1, <1>4 DEF CreateBlocks, IRs
<1>6. /\ Size(g) = Size(f) + n /\ Size(f) \in Nat
      /\ \A b \in 1 .. Size(f) : g.blocks[b] = f.blocks[b]
      /\ \A b \in Size(f) + 1 .. Size(f) + n : g.blocks[b] = <<>>
  BY <1>1, <1>4, <1>5 DEF Size
<1>7. \A b \in 1 .. Size(g) : Shaped(g.blocks[b])
  BY <1>2, <1>6 DEF ShapedIR, Shaped
<1>8. g.at \in 1 .. Size(g)
  BY <1>5, <1>6 DEF ShapedIR
<1> QED BY <1>5, <1>6, <1>7, <1>8 DEF ShapedIR, IsExtension

(* Generating an expression into a ready function leaves it ready, fills   *)
(* no old block but the insertion block, and stays there or moves on to a  *)
(* new one (visitECond ends in cond-merge).                                *)
LEMMA GenExpFacts ==
  ASSUME NEW f, Ready(f), NEW e \in Exp,
         NEW g, g = GenExp(f, e)
  PROVE  /\ Ready(g) /\ Keeps(f, g, {f.at})
         /\ g.at = f.at \/ g.at > Size(f)
         /\ Settles(f, g, {f.at}, {g.at})
<1>1. \A k \in Nat : Eval(e, k) \in Inst /\ ~ IsTerminator(Eval(e, k))
  BY InstTypes DEF IsTerminator, Eval
<1>2. CASE e \notin CondExp
  <2>1. g = Emit(f, Eval(e, 0))
    BY <1>2 DEF GenExp
  <2>2. Ready(g) /\ Keeps(f, g, {f.at}) /\ g.at = f.at /\ Settles(f, g, {}, {f.at})
    BY <1>1, <2>1, EmitEval
  <2>3. Settles(f, g, {f.at}, {g.at})
    BY <2>2 DEF Settles
  <2> QED BY <2>2, <2>3
<1>3. CASE e \in CondExp
  <2> DEFINE b == Size(f) + 1
  <2>0. b = NextBlock(f) /\ b \in Nat /\ Size(f) \in Nat /\ f.at \in 1 .. Size(f)
    BY DEF NextBlock, Size, Ready, ShapedIR, IRs
  <2>a. \A c, d \in Nat :
           /\ CondBr(c, d) \in Inst /\ IsTerminator(CondBr(c, d))
           /\ Br(c) \in Inst /\ IsTerminator(Br(c))
    BY InstTypes DEF IsTerminator, CondBr, Br
  <2> DEFINE f1 == Emit(f, Eval(e, 1))
             f2 == CreateBlocks(f1, 3)
             f3 == Emit(f2, CondBr(b, b + 1))
             f4 == SetInsertPoint(f3, b)
             f5 == Emit(f4, Eval(e, 2))
             f6 == Emit(f5, Br(b + 2))
             f7 == SetInsertPoint(f6, b + 1)
             f8 == Emit(f7, Eval(e, 3))
             f9 == Emit(f8, Br(b + 2))
  <2>b. g = SetInsertPoint(f9, b + 2)
    BY <1>3, <2>0 DEF GenExp, GenCond
  <2>1. /\ Ready(f1) /\ Keeps(f, f1, {f.at}) /\ f1.at = f.at /\ Size(f1) = Size(f)
        /\ Settles(f, f1, {}, {f.at})
    BY <1>1, EmitEval
  <2>2. /\ Ready(f2) /\ f2.at = f.at /\ Size(f2) = Size(f) + 3
        /\ \A k \in 1 .. Size(f) : f2.blocks[k] = f1.blocks[k]
        /\ f2.blocks[b] = <<>> /\ f2.blocks[b + 1] = <<>> /\ f2.blocks[b + 2] = <<>>
        /\ Settles(f1, f2, {}, {b, b + 1, b + 2})
    <3> HIDE DEF f1
    <3>1. ShapedIR(f1)
      BY <2>1 DEF Ready
    <3>2. /\ ShapedIR(f2) /\ f2.at = f1.at /\ Size(f2) = Size(f1) + 3
          /\ \A k \in 1 .. Size(f1) : f2.blocks[k] = f1.blocks[k]
          /\ \A k \in Size(f1) + 1 .. Size(f1) + 3 : f2.blocks[k] = <<>>
      BY <3>1, CreateFacts DEF IsExtension
    <3> HIDE DEF f2
    <3>3. Settles(f1, f2, {}, {b, b + 1, b + 2})
      BY <2>0, <2>1, <3>2 DEF Settles, Loose
    <3> QED BY <2>0, <2>1, <3>2, <3>3 DEF Ready, InsertBlock
  <2>3. /\ ShapedIR(f3) /\ Keeps(f2, f3, {f.at}) /\ f3.at = f.at /\ Size(f3) = b + 2
        /\ Settles(f2, f3, {f.at}, {})
    BY SMTT(30), <2>0, <2>a, <2>2, EmitTerminator
  <2>4. /\ Ready(f4) /\ f4.blocks = f3.blocks /\ f4.at = b /\ Size(f4) = b + 2
        /\ Settles(f3, f4, {}, {})
    <3> HIDE DEF f3
    <3>1. f3.blocks[b] = <<>> /\ b \in 1 .. Size(f3)
      BY <2>0, <2>2, <2>3 DEF Keeps
    <3> QED BY <2>3, <3>1, MoveToEmpty
  <2>5. /\ Ready(f5) /\ Keeps(f4, f5, {b}) /\ f5.at = b /\ Size(f5) = b + 2
        /\ Settles(f4, f5, {}, {b})
    BY <1>1, <2>4, EmitEval
  <2>6. /\ ShapedIR(f6) /\ Keeps(f5, f6, {b}) /\ f6.at = b /\ Size(f6) = b + 2
        /\ Settles(f5, f6, {b}, {})
    BY <2>0, <2>a, <2>5, EmitTerminator
  <2>7. /\ Ready(f7) /\ f7.blocks = f6.blocks /\ f7.at = b + 1 /\ Size(f7) = b + 2
        /\ Settles(f6, f7, {}, {})
    <3> HIDE DEF f3, f4, f5, f6
    <3>1. f6.blocks[b + 1] = <<>> /\ b + 1 \in 1 .. Size(f6)
      BY <2>0, <2>2, <2>3, <2>4, <2>5, <2>6 DEF Keeps
    <3> QED BY <2>6, <3>1, MoveToEmpty
  <2>8. /\ Ready(f8) /\ Keeps(f7, f8, {b + 1}) /\ f8.at = b + 1 /\ Size(f8) = b + 2
        /\ Settles(f7, f8, {}, {b + 1})
    BY <1>1, <2>7, EmitEval
  <2>9. /\ ShapedIR(f9) /\ Keeps(f8, f9, {b + 1}) /\ f9.at = b + 1 /\ Size(f9) = b + 2
        /\ Settles(f8, f9, {b + 1}, {})
    <3> HIDE DEF f8
    <3> QED BY SMTT(30), <2>0, <2>a, <2>8, EmitTerminator
  <2>10. /\ Ready(g) /\ g.blocks = f9.blocks /\ g.at = b + 2 /\ Size(g) = b + 2
         /\ Settles(f9, g, {}, {})
    <3> HIDE DEF f3, f4, f5, f6, f7, f8, f9
    <3>1. f9.blocks[b + 2] = <<>> /\ b + 2 \in 1 .. Size(f9)
      BY SMTT(40), <2>0, <2>2, <2>3, <2>4, <2>5, <2>6, <2>7, <2>8, <2>9 DEF Keeps
    <3> QED BY <2>b, <2>9, <3>1, MoveToEmpty
  <2>11. Keeps(f, g, {f.at})
    <3> HIDE DEF f1, f2, f3, f4, f5, f6, f7, f8, f9
    <3> QED
      BY <2>0, <2>1, <2>2, <2>3, <2>4, <2>5, <2>6, <2>7, <2>8, <2>9, <2>10 DEF Keeps
  <2>12. Settles(f, g, {f.at}, {g.at})
    <3> HIDE DEF b, f1, f2, f3, f4, f5, f6, f7, f8, f9
    <3>1. Settles(f, f4, {f.at}, {b, b + 1, b + 2})
      BY <2>1, <2>2, <2>3, <2>4 DEF Settles
    <3>2. Settles(f, f7, {f.at}, {b + 1, b + 2})
      BY <2>5, <2>6, <2>7, <3>1 DEF Settles
    <3> QED BY <2>8, <2>9, <2>10, <3>2 DEF Settles
  <2> QED BY <2>0, <2>10, <2>11, <2>12
<1> QED BY <1>2, <1>3

(* A test fills the block it is made in and terminates the one before it.  *)
LEMMA GenTestFacts ==
  ASSUME NEW f, ShapedIR(f), Fillable(InsertBlock(f)),
         NEW c \in 1 .. Size(f), f.blocks[c] = <<>>, c # f.at,
         NEW e \in Exp, NEW b \in Nat, NEW d \in Nat,
         NEW g, g = GenTest(f, c, e, b, d)
  PROVE  /\ ShapedIR(g) /\ Keeps(f, g, {f.at, c})
         /\ Open(InsertBlock(f)) => Settles(f, g, {f.at, c}, {})
<1> DEFINE f1 == Emit(f, Br(c))
           f2 == SetInsertPoint(f1, c)
           f3 == GenExp(f2, e)
<1>0. c \in Nat /\ Size(f) \in Nat
  BY DEF ShapedIR, IRs, Size
<1>1. ShapedIR(f1) /\ Keeps(f, f1, {f.at}) /\ Size(f1) = Size(f)
  BY <1>0, EmitBr
<1>a. Open(InsertBlock(f)) => Settles(f, f1, {f.at}, {})
  <2>1. Br(c) \in Inst /\ IsTerminator(Br(c))
    BY <1>0, InstTypes DEF IsTerminator, Br
  <2> QED BY <2>1, EmitTerminator DEF Ready
<1>2. /\ Ready(f2) /\ f2.blocks = f1.blocks /\ f2.at = c /\ Size(f2) = Size(f)
      /\ Settles(f1, f2, {}, {})
  <2> HIDE DEF f1
  <2>1. f1.blocks[c] = <<>>
    BY <1>0, <1>1 DEF Keeps
  <2> QED BY <1>1, <2>1, MoveToEmpty
<1>3. /\ Ready(f3) /\ Keeps(f2, f3, {c})
      /\ Settles(f2, f3, {c}, {f3.at})
  BY <1>2, GenExpFacts
<1>4. /\ ShapedIR(g) /\ Keeps(f3, g, {f3.at}) /\ (f3.at = c \/ f3.at > Size(f))
      /\ Settles(f3, g, {f3.at}, {})
  <2>1. CondBr(b, d) \in Inst /\ IsTerminator(CondBr(b, d))
    BY InstTypes DEF IsTerminator, CondBr
  <2>2. f3.at = c \/ f3.at > Size(f)
    BY <1>2, GenExpFacts
  <2>3. g = Emit(f3, CondBr(b, d))
    BY DEF GenTest
  <2> HIDE DEF f3
  <2> QED BY <1>3, <2>1, <2>2, <2>3, EmitTerminator
<1> HIDE DEF f1, f2, f3
<1>5. Size(f3) \in Nat /\ Size(g) \in Nat
  BY <1>3, <1>4, SizeType DEF Ready
<1>6. Open(InsertBlock(f)) => Settles(f, g, {f.at, c}, {})
  BY <1>a, <1>2, <1>3, <1>4 DEF Settles
<1> QED BY <1>0, <1>1, <1>2, <1>3, <1>4, <1>5, <1>6 DEF Keeps

-----------------------------------------------------------------------------
(* The control stack *)

ScopeOps == {"DFun", "SBlock"}

Scopes(fr) == {i \in DOMAIN fr : fr[i].stm.op \in ScopeOps}

(* The parts of a statement have the types its constructor gives them.     *)
LEMMA StmParts ==
  ASSUME NEW s \in Stm
  PROVE  /\ s # NoStm /\ s.op # "DFun"
         /\ s.op \in {"SExp", "SReturn", "SWhile", "SDoWhile", "SFor", "SIfElse"}
              => s.exps[1] \in Exp
         /\ s.op = "SFor" => s.exps[2] \in Exp /\ s.exps[3] \in Exp
         /\ s.op \in {"SWhile", "SDoWhile", "SFor", "SIfElse"} => s.kids[1] \in Stm
         /\ s.op = "SIfElse" => s.kids[2] \in Stm
         /\ s.op = "SDecls" => s.exps \in Seq(Exp)
         /\ s.op = "SBlock" => s.kids \in Seq(Stm)
BY StmAssumption DEF Statement, Node

(* A handler's frame on the stack: what its node is.                       *)
LEMMA FrameParts ==
  ASSUME NEW f \in FrameSet
  PROVE  /\ f.pos \in Nat /\ f.base \in Nat
         /\ f.stm.op # "DFun" => f.stm \in Stm
         /\ f.stm.op \in ScopeOps => f.stm.kids \in Seq(Stm)
         /\ \A n \in Nat : [f EXCEPT !.pos = n] \in FrameSet
         /\ \A n \in Nat : /\ [f EXCEPT !.pos = n].stm = f.stm
                           /\ [f EXCEPT !.pos = n].pos = n
                           /\ [f EXCEPT !.pos = n].base = f.base
<1>1. /\ f.pos \in Nat /\ f.base \in Nat /\ f.stm \in Stm \cup FunctionNodes
      /\ f = [stm |-> f.stm, pos |-> f.pos, base |-> f.base]
  BY DEF FrameSet
<1>2. \A g \in FunctionNodes : g.op = "DFun" /\ g.kids \in Seq(Stm)
  BY DEF FunctionNodes
<1>3. \A n \in Nat : [f EXCEPT !.pos = n] = [stm |-> f.stm, pos |-> n, base |-> f.base]
  BY <1>1
<1>4. \A n \in Nat : [f EXCEPT !.pos = n] \in FrameSet
  BY <1>1, <1>3 DEF FrameSet
<1>5. f.stm.op \in ScopeOps => f.stm.kids \in Seq(Stm)
  BY <1>1, <1>2, StmParts DEF ScopeOps
<1> QED BY <1>1, <1>2, <1>3, <1>4, <1>5

(* The stack new is fr with f on top.                                      *)
IsPush(fr, f, new) ==
  /\ new \in Seq(FrameSet) /\ Len(new) = Len(fr) + 1
  /\ new[Len(new)] = f
  /\ \A i \in 1 .. Len(fr) : new[i] = fr[i]
  /\ Cardinality(Scopes(fr)) \in Nat
  /\ f.stm.op \in ScopeOps =>
       Cardinality(Scopes(new)) = Cardinality(Scopes(fr)) + 1
  /\ f.stm.op \notin ScopeOps => Scopes(new) = Scopes(fr)

(* Calling a handler: one frame more, and one scope more if it opens one.  *)
LEMMA Pushed ==
  ASSUME NEW fr \in Seq(FrameSet), NEW f \in FrameSet,
         NEW new, new = Append(fr, f)
  PROVE  IsPush(fr, f, new)
<1>1. /\ new \in Seq(FrameSet) /\ Len(new) = Len(fr) + 1 /\ Len(fr) \in Nat
      /\ new[Len(fr) + 1] = f
      /\ \A i \in 1 .. Len(fr) : new[i] = fr[i]
      /\ DOMAIN fr = 1 .. Len(fr) /\ DOMAIN new = 1 .. Len(fr) + 1
  OBVIOUS
<1>2. IsFiniteSet(Scopes(fr)) /\ Cardinality(Scopes(fr)) \in Nat
  <2>1. IsFiniteSet(1 .. Len(fr))
    BY <1>1, FS_Interval
  <2>2. Scopes(fr) \subseteq 1 .. Len(fr)
    BY <1>1 DEF Scopes
  <2> QED BY <2>1, <2>2, FS_Subset, FS_CardinalityType
<1>3. ASSUME f.stm.op \in ScopeOps
      PROVE  Cardinality(Scopes(new)) = Cardinality(Scopes(fr)) + 1
  <2>1. Scopes(new) = Scopes(fr) \cup {Len(fr) + 1} /\ Len(fr) + 1 \notin Scopes(fr)
    BY <1>1, <1>3 DEF Scopes
  <2> DEFINE old == Scopes(fr)
  <2> HIDE DEF old
  <2>2. Cardinality(old \cup {Len(fr) + 1}) = Cardinality(old) + 1
    BY <1>2, <2>1, FS_AddElement DEF old
  <2> QED BY <2>1, <2>2 DEF old
<1>4. ASSUME f.stm.op \notin ScopeOps
      PROVE  Scopes(new) = Scopes(fr)
  BY <1>1, <1>4 DEF Scopes
<1> QED
  <2>1. new[Len(new)] = f
    BY <1>1
  <2> QED BY <1>1, <1>2, <1>3, <1>4, <2>1 DEF IsPush

(* All but the last element of a sequence.                                 *)
LEMMA FrontFacts ==
  ASSUME NEW S, NEW s \in Seq(S), s # <<>>,
         NEW t, t = SubSeq(s, 1, Len(s) - 1)
  PROVE  /\ t \in Seq(S) /\ Len(t) = Len(s) - 1
         /\ Len(s) \in Nat /\ Len(s) >= 1
         /\ \A i \in 1 .. Len(t) : t[i] = s[i]
         /\ s[Len(s)] \in S
<1>1. Len(s) \in Nat /\ Len(s) >= 1
  BY EmptySeq
<1>2. \A i \in 1 .. Len(s) : s[i] \in S
  OBVIOUS
<1> DEFINE n == Len(s) - 1
<1>3. n \in Int /\ 1 \in Int /\ \A i \in 1 .. n : s[i] \in S
  BY <1>1, <1>2
<1>4. /\ SubSeq(s, 1, n) \in Seq(S)
      /\ Len(SubSeq(s, 1, n)) = IF 1 <= n THEN n - 1 + 1 ELSE 0
      /\ \A i \in 1 .. n - 1 + 1 : SubSeq(s, 1, n)[i] = s[1 + i - 1]
  <2> HIDE DEF n
  <2> QED BY <1>3, SubSeqProperties
<1>5. s[Len(s)] \in S
  BY <1>1, <1>2
<1>6. n = Len(s) - 1 /\ t = SubSeq(s, 1, n)
  OBVIOUS
<1> HIDE DEF n
<1>7. \A i \in 1 .. n : 1 + i - 1 = i /\ i \in 1 .. n - 1 + 1
  BY <1>3
<1> QED BY <1>1, <1>3, <1>4, <1>5, <1>6, <1>7

(* Returning from a handler undoes the call.                               *)
LEMMA Popped ==
  ASSUME NEW fr \in Seq(FrameSet), fr # <<>>,
         NEW new, new = SubSeq(fr, 1, Len(fr) - 1)
  PROVE  /\ new \in Seq(FrameSet) /\ Len(new) = Len(fr) - 1
         /\ \A i \in 1 .. Len(new) : new[i] = fr[i]
         /\ Cardinality(Scopes(new)) \in Nat
         /\ fr[Len(fr)].stm.op \in ScopeOps =>
              Cardinality(Scopes(fr)) = Cardinality(Scopes(new)) + 1
         /\ fr[Len(fr)].stm.op \notin ScopeOps => Scopes(fr) = Scopes(new)
<1>1. /\ new \in Seq(FrameSet) /\ Len(new) = Len(fr) - 1
      /\ \A i \in 1 .. Len(new) : new[i] = fr[i]
      /\ fr[Len(fr)] \in FrameSet
  BY FrontFacts
<1>2. fr = Append(new, fr[Len(fr)])
  <2>1. /\ Len(fr) = Len(Append(new, fr[Len(fr)]))
        /\ \A i \in 1 .. Len(fr) : fr[i] = Append(new, fr[Len(fr)])[i]
    BY <1>1
  <2> QED BY <1>1, <2>1, SeqEqual
<1>3. IsPush(new, fr[Len(fr)], fr)
  BY <1>1, <1>2, Pushed
<1> QED BY <1>1, <1>3 DEF IsPush

(* The stack new is fr with f, its top at position n, on top.              *)
IsAdvance(fr, f, n, new) ==
  /\ new \in Seq(FrameSet) /\ Len(new) = Len(fr)
  /\ f \in FrameSet
  /\ f.stm = fr[Len(fr)].stm /\ f.pos = n /\ f.base = fr[Len(fr)].base
  /\ new[Len(fr)] = f
  /\ \A i \in 1 .. Len(fr) - 1 : new[i] = fr[i]
  /\ Scopes(new) = Scopes(fr)

(* Advancing the position of the running handler changes no scope.         *)
LEMMA Advanced ==
  ASSUME NEW fr \in Seq(FrameSet), fr # <<>>, NEW n \in Nat,
         NEW f, f = [fr[Len(fr)] EXCEPT !.pos = n],
         NEW new, new = Append(SubSeq(fr, 1, Len(fr) - 1), f)
  PROVE  IsAdvance(fr, f, n, new)
<1> DEFINE front == SubSeq(fr, 1, Len(fr) - 1)
<1>0. /\ front \in Seq(FrameSet) /\ Len(front) = Len(fr) - 1 /\ Len(fr) \in Nat
      /\ \A i \in 1 .. Len(fr) - 1 : front[i] = fr[i]
      /\ fr[Len(fr)] \in FrameSet
  <2> HIDE DEF front
  <2>1. front = SubSeq(fr, 1, Len(fr) - 1)
    BY DEF front
  <2>2. /\ front \in Seq(FrameSet) /\ Len(front) = Len(fr) - 1
        /\ \A i \in 1 .. Len(front) : front[i] = fr[i]
        /\ fr[Len(fr)] \in FrameSet
    BY <2>1, FrontFacts
  <2> QED BY <2>2
<1>1. /\ f \in FrameSet
      /\ f.stm = fr[Len(fr)].stm /\ f.pos = n /\ f.base = fr[Len(fr)].base
  BY <1>0, FrameParts
<1>2. /\ new \in Seq(FrameSet) /\ Len(new) = Len(fr) /\ Len(fr) \in Nat
      /\ new[Len(fr)] = f
      /\ \A i \in 1 .. Len(fr) - 1 : new[i] = fr[i]
      /\ DOMAIN new = 1 .. Len(fr) /\ DOMAIN fr = 1 .. Len(fr)
  <2> HIDE DEF front
  <2>1. new = Append(front, f)
    BY DEF front
  <2> QED BY <1>0, <1>1, <2>1
<1>3. \A i \in 1 .. Len(fr) : new[i].stm = fr[i].stm
  BY <1>1, <1>2
<1>4. Scopes(new) = Scopes(fr)
  BY <1>2, <1>3 DEF Scopes
<1> QED BY <1>1, <1>2, <1>4 DEF IsAdvance

-----------------------------------------------------------------------------
(* Reserved blocks *)

(* PendingUntouched, of a given stack and function.                        *)
Reserved(fr, f) ==
  \A i \in 1 .. Len(fr) : \A b \in Pending(fr[i]) :
    /\ b \in 1 .. Size(f) /\ f.blocks[b] = <<>> /\ b # f.at
    /\ \A j \in 1 .. Len(fr) : b \in Pending(fr[j]) => i = j

(* A handler that only fills the insertion block or moves to a new block   *)
(* leaves the blocks reserved by its callers alone.                        *)
LEMMA ReservedKept ==
  ASSUME NEW fr, NEW f, NEW g, ShapedIR(f), ShapedIR(g), Reserved(fr, f),
         Keeps(f, g, {f.at}), g.at = f.at \/ g.at > Size(f)
  PROVE  Reserved(fr, g)
<1>1. Size(f) \in Nat /\ Size(g) \in Nat /\ f.at \in Nat /\ g.at \in Nat
  BY SizeType DEF ShapedIR, IRs
<1> QED BY <1>1 DEF Reserved, Keeps

(* So does one that reserves new blocks for itself.                        *)
LEMMA ReservedPushed ==
  ASSUME NEW fr \in Seq(FrameSet), NEW f, NEW g, NEW h \in FrameSet,
         ShapedIR(f), ShapedIR(g), Reserved(fr, f),
         Keeps(f, g, {f.at}), g.at = f.at \/ g.at > Size(f),
         \A b \in Pending(h) :
           b \in Size(f) + 1 .. Size(g) /\ g.blocks[b] = <<>> /\ b # g.at,
         NEW new, new = Append(fr, h)
  PROVE  Reserved(new, g)
<1>1. Reserved(fr, g)
  BY ReservedKept
<1>2. /\ Len(new) = Len(fr) + 1 /\ Len(fr) \in Nat
      /\ new[Len(fr) + 1] = h
      /\ \A i \in 1 .. Len(fr) : new[i] = fr[i]
  OBVIOUS
<1>3. Size(f) \in Nat /\ Size(g) \in Nat
  BY SizeType
<1>4. \A i \in 1 .. Len(fr) : \A b \in Pending(fr[i]) : b \in 1 .. Size(f)
  BY DEF Reserved
<1>5. \A i \in 1 .. Len(new) : i \in 1 .. Len(fr) \/ i = Len(fr) + 1
  BY <1>2
<1>6. ASSUME NEW i \in 1 .. Len(new), NEW b \in Pending(new[i])
      PROVE  /\ b \in 1 .. Size(g) /\ g.blocks[b] = <<>> /\ b # g.at
             /\ \A j \in 1 .. Len(new) : b \in Pending(new[j]) => i = j
  <2>1. CASE i \in 1 .. Len(fr)
    <3>1. b \in Pending(fr[i]) /\ b \in 1 .. Size(f)
      BY <1>2, <1>4, <2>1
    <3>2. b \notin Pending(h)
      BY <1>3, <3>1
    <3> QED BY <1>1, <1>2, <1>5, <2>1, <3>1, <3>2 DEF Reserved
  <2>2. CASE i = Len(fr) + 1
    <3>1. b \in Pending(h) /\ b \in Size(f) + 1 .. Size(g)
      BY <1>2, <2>2
    <3>2. \A j \in 1 .. Len(fr) : b \notin Pending(fr[j])
      BY <1>3, <1>4, <3>1
    <3> QED BY <1>2, <1>3, <1>5, <2>2, <3>1, <3>2
  <2> QED BY <1>5, <2>1, <2>2
<1> QED BY <1>6 DEF Reserved

(* A handler that returns may have filled, or moved to, its own reserved   *)
(* blocks.                                                                 *)
LEMMA ReservedPopped ==
  ASSUME NEW fr \in Seq(FrameSet), fr # <<>>, NEW f, NEW g,
         ShapedIR(f), ShapedIR(g), Reserved(fr, f),
         NEW own, own = Pending(fr[Len(fr)]),
         Keeps(f, g, {f.at} \cup own),
         g.at \in {f.at} \cup own \/ g.at > Size(f),
         NEW new, new = SubSeq(fr, 1, Len(fr) - 1)
  PROVE  Reserved(new, g)
<1>1. /\ Len(new) = Len(fr) - 1 /\ Len(fr) \in Nat /\ Len(fr) >= 1
      /\ \A i \in 1 .. Len(new) : new[i] = fr[i]
  BY FrontFacts
<1>2. Size(f) \in Nat /\ Size(g) \in Nat
  BY SizeType
<1>3. ASSUME NEW i \in 1 .. Len(new), NEW b \in Pending(new[i])
      PROVE  /\ b \in 1 .. Size(f) /\ f.blocks[b] = <<>> /\ b # f.at
             /\ b \notin own
             /\ \A j \in 1 .. Len(new) : b \in Pending(new[j]) => i = j
  <2>1. /\ i \in 1 .. Len(fr) /\ b \in Pending(fr[i]) /\ i # Len(fr)
        /\ Len(fr) \in 1 .. Len(fr)
    BY <1>1
  <2>2. /\ b \in 1 .. Size(f) /\ f.blocks[b] = <<>> /\ b # f.at
        /\ \A j \in 1 .. Len(fr) : b \in Pending(fr[j]) => i = j
    BY <2>1 DEF Reserved
  <2>3. \A j \in 1 .. Len(new) : j \in 1 .. Len(fr) /\ new[j] = fr[j]
    BY <1>1
  <2> QED BY <2>1, <2>2, <2>3
<1>4. ASSUME NEW i \in 1 .. Len(new), NEW b \in Pending(new[i])
      PROVE  b \in 1 .. Size(g) /\ g.blocks[b] = <<>> /\ b # g.at
  <2>1. b \in 1 .. Size(f) /\ f.blocks[b] = <<>> /\ b # f.at /\ b \notin own
    BY <1>3
  <2> QED BY <1>2, <2>1 DEF Keeps
<1>5. \A i \in 1 .. Len(new) : \A b \in Pending(new[i]) :
        /\ b \in 1 .. Size(g) /\ g.blocks[b] = <<>> /\ b # g.at
        /\ \A j \in 1 .. Len(new) : b \in Pending(new[j]) => i = j
  BY ONLY <1>3, <1>4
<1> QED BY ONLY <1>5 DEF Reserved

(* A handler that goes on to its next child gives up some of them.         *)
LEMMA ReservedAdvanced ==
  ASSUME NEW fr \in Seq(FrameSet), fr # <<>>, NEW f, NEW g,
         ShapedIR(f), ShapedIR(g), Reserved(fr, f),
         NEW own, own = Pending(fr[Len(fr)]),
         NEW h \in FrameSet, Pending(h) \subseteq own, g.at \notin Pending(h),
         Keeps(f, g, {f.at} \cup (own \ Pending(h))),
         g.at \in {f.at} \cup own \/ g.at > Size(f),
         NEW front, front = SubSeq(fr, 1, Len(fr) - 1),
         NEW new, new = Append(front, h)
  PROVE  Reserved(new, g)
<1>0. fr \in Seq(FrameSet) /\ fr # <<>> /\ front = SubSeq(fr, 1, Len(fr) - 1)
  OBVIOUS
<1>1. /\ front \in Seq(FrameSet) /\ Len(front) = Len(fr) - 1
      /\ Len(fr) \in Nat /\ Len(fr) >= 1
      /\ \A i \in 1 .. Len(front) : front[i] = fr[i]
  BY ONLY <1>0, FrontFacts
<1>3. /\ Len(new) = Len(fr) /\ new[Len(fr)] = h
      /\ \A i \in 1 .. Len(fr) - 1 : new[i] = fr[i]
  BY <1>1
<1>4. Size(f) \in Nat /\ Size(g) \in Nat
  BY SizeType
<1>5. \A i \in 1 .. Len(fr) : Pending(new[i]) \subseteq Pending(fr[i])
  <2>1. \A i \in 1 .. Len(fr) : i \in 1 .. Len(fr) - 1 \/ i = Len(fr)
    BY <1>1
  <2> QED BY <1>3, <2>1
<1>6. ASSUME NEW i \in 1 .. Len(fr), NEW b \in Pending(new[i])
      PROVE  /\ b \in 1 .. Size(f) /\ f.blocks[b] = <<>> /\ b # f.at
             /\ \A j \in 1 .. Len(fr) : b \in Pending(new[j]) => i = j
             /\ b \in own => b \in Pending(h)
  <2>1. b \in Pending(fr[i])
    BY <1>5
  <2>2. /\ b \in 1 .. Size(f) /\ f.blocks[b] = <<>> /\ b # f.at
        /\ \A j \in 1 .. Len(fr) : b \in Pending(fr[j]) => i = j
    BY <2>1 DEF Reserved
  <2>3. \A j \in 1 .. Len(fr) : b \in Pending(new[j]) => i = j
    BY <1>5, <2>2
  <2>4. b \in own => i = Len(fr)
    BY <1>1, <2>2
  <2> QED BY <1>3, <2>2, <2>3, <2>4
<1>7. ASSUME NEW i \in 1 .. Len(fr), NEW b \in Pending(new[i])
      PROVE  b \in 1 .. Size(g) /\ g.blocks[b] = <<>> /\ b # g.at
  <2>1. /\ b \in 1 .. Size(f) /\ f.blocks[b] = <<>> /\ b # f.at
        /\ b \in own => b \in Pending(h)
    BY <1>6
  <2>2. b # g.at
    <3>1. CASE b \in own
      BY <2>1, <3>1
    <3>2. CASE b \notin own
      BY <1>4, <2>1, <3>2
    <3> QED BY <3>1, <3>2
  <2>3. b \notin {f.at} \cup (own \ Pending(h))
    BY <2>1
  <2> QED BY <1>4, <2>1, <2>2, <2>3 DEF Keeps
<1>8. \A i \in 1 .. Len(fr) : \A b \in Pending(new[i]) :
        /\ b \in 1 .. Size(g) /\ g.blocks[b] = <<>> /\ b # g.at
        /\ \A j \in 1 .. Len(fr) : b \in Pending(new[j]) => i = j
  BY <1>6, <1>7
<1> QED BY ONLY <1>3, <1>8 DEF Reserved

-----------------------------------------------------------------------------
(* The inductive invariant *)

Types ==
  /\ program \in Programs
  /\ fn \in 0 .. Len(program)
  /\ frames \in Seq(FrameSet)
  /\ node \in Stm \cup {NoStm}
  /\ stmReturns \in BOOLEAN
  /\ depth \in Nat
  /\ module \in Seq(Seq(Seq(Inst)))
  /\ Len(module) = IF frames = <<>> THEN fn ELSE fn - 1
  /\ diagnosed \subseteq 1 .. fn

(* A handler that has called accept() on a statement.                      *)
Busy(f) == f.pos >= 1 /\ f.stm.op # "SDecls"

(* The stack holds one visitDFun, at its bottom, and every handler on it   *)
(* but a loop that was just entered is at some child.                      *)
FramesOK ==
  /\ \A i \in 1 .. Len(frames) : frames[i].stm.op = "DFun" <=> i = 1
  /\ \A i \in 1 .. Len(frames) : i < Len(frames) \/ node # NoStm => Busy(frames[i])
  /\ node # NoStm => frames # <<>>

Control ==
  /\ Types
  /\ FramesOK
  /\ depth = Cardinality(Scopes(frames))

(* Where code may be appended: whenever a statement is entered, and when   *)
(* control is back in a handler that stmReturns does not stop.             *)
Appendable ==
  \/ node # NoStm
  \/ frames # <<>> /\ (Top.stm.op = "SDecls" \/ Top.pos = 0 \/ ~ stmReturns)

Blocks ==
  /\ ShapedIR(ir)
  /\ Fillable(InsertBlock(ir))
  /\ Reserved(frames, ir)
  /\ Appendable => Open(InsertBlock(ir))

IInv == Control /\ Blocks

-----------------------------------------------------------------------------
(* Control *)

(* A handler that calls accept() on a child, or enters its own loop.       *)
LEMMA CallControl ==
  ASSUME Control, node \in Stm,
         NEW s \in Stm \cup {NoStm}, NEW p \in Nat, NEW b \in Nat,
         s # NoStm => p >= 1 /\ node.op # "SDecls",
         Call(s, Frame(node, p, b)),
         UNCHANGED fixed, UNCHANGED stmReturns,
         depth' = IF node.op = "SBlock" THEN depth + 1 ELSE depth
  PROVE  Control'
<1>0. PICK f : f = Frame(node, p, b)
  OBVIOUS
<1>1. f \in FrameSet /\ f.stm = node /\ f.pos = p
  BY <1>0 DEF Frame, FrameSet
<1>2. frames \in Seq(FrameSet) /\ frames # <<>>
  BY StmParts DEF Control, Types, FramesOK
<1>3. frames' = Append(frames, f) /\ node' = s
  BY <1>0 DEF Call
<1>4. /\ frames' \in Seq(FrameSet) /\ Len(frames') = Len(frames) + 1
      /\ frames'[Len(frames')] = f
      /\ \A i \in 1 .. Len(frames) : frames'[i] = frames[i]
      /\ Cardinality(Scopes(frames)) \in Nat
      /\ f.stm.op \in ScopeOps =>
           Cardinality(Scopes(frames')) = Cardinality(Scopes(frames)) + 1
      /\ f.stm.op \notin ScopeOps => Scopes(frames') = Scopes(frames)
  <2>1. IsPush(frames, f, frames')
    BY <1>1, <1>2, <1>3, Pushed
  <2> QED BY <2>1 DEF IsPush
<1>5. node # NoStm /\ node.op # "DFun" /\ Len(frames) \in Nat /\ Len(frames) >= 1
  BY <1>2, StmParts, EmptySeq
<1>6. Types'
  <2>1. frames' # <<>>
    BY <1>4, <1>5
  <2> QED BY <1>2, <1>3, <1>4, <2>1 DEF Control, Types, fixed
<1>7. FramesOK'
  <2>1. \A i \in 1 .. Len(frames') : i \in 1 .. Len(frames) \/ i = Len(frames')
    BY <1>4, <1>5
  <2>2. \A i \in 1 .. Len(frames) :
          (frames[i].stm.op = "DFun" <=> i = 1) /\ Busy(frames[i])
    BY <1>5 DEF Control, FramesOK
  <2>3. \A i \in 1 .. Len(frames') : frames'[i].stm.op = "DFun" <=> i = 1
    BY <1>1, <1>4, <1>5, <2>1, <2>2
  <2>4. \A i \in 1 .. Len(frames') :
          i < Len(frames') \/ node' # NoStm => Busy(frames'[i])
    <3>1. node' # NoStm => Busy(f)
      BY <1>1, <1>3 DEF Busy
    <3> QED BY <1>4, <1>5, <2>1, <2>2, <3>1
  <2>5. frames' # <<>>
    BY <1>4, <1>5
  <2> QED BY <2>3, <2>4, <2>5 DEF FramesOK
<1>8. (depth = Cardinality(Scopes(frames)))'
  <2>1. node.op = "SBlock" <=> f.stm.op \in ScopeOps
    BY <1>1, <1>5 DEF ScopeOps
  <2> QED BY <1>4, <2>1 DEF Control
<1> QED BY <1>6, <1>7, <1>8 DEF Control

(* A handler without children.                                             *)
LEMMA LeafControl ==
  ASSUME Control, node \in Stm, Leaf, UNCHANGED fixed, UNCHANGED depth,
         stmReturns' \in BOOLEAN
  PROVE  Control'
<1>1. node # NoStm /\ node' = NoStm /\ frames' = frames
  BY StmParts DEF Leaf
<1>2. Types'
  BY <1>1 DEF Control, Types, fixed
<1>3. FramesOK'
  BY <1>1 DEF Control, FramesOK
<1> QED BY <1>1, <1>2, <1>3 DEF Control

(* A handler of a statement that returns to its caller.                    *)
LEMMA ReturnControl ==
  ASSUME Control, frames # <<>>, node = NoStm, Top.stm.op # "DFun", Return,
         UNCHANGED fixed, stmReturns' \in BOOLEAN,
         depth' = IF Top.stm.op = "SBlock" THEN depth - 1 ELSE depth
  PROVE  /\ Control'
         /\ frames' # <<>> /\ Busy(Top')
<1>1. frames \in Seq(FrameSet) /\ Len(frames) \in Nat /\ Len(frames) >= 1
  BY EmptySeq DEF Control, Types
<1>2. frames' = SubSeq(frames, 1, Len(frames) - 1) /\ node' = NoStm
  BY DEF Return, Pop
<1>3. /\ frames' \in Seq(FrameSet) /\ Len(frames') = Len(frames) - 1
      /\ \A i \in 1 .. Len(frames') : frames'[i] = frames[i]
      /\ Cardinality(Scopes(frames')) \in Nat
      /\ frames[Len(frames)].stm.op \in ScopeOps =>
           Cardinality(Scopes(frames)) = Cardinality(Scopes(frames')) + 1
      /\ frames[Len(frames)].stm.op \notin ScopeOps => Scopes(frames) = Scopes(frames')
  <2>1. frames \in Seq(FrameSet) /\ frames # <<>>
    BY <1>1
  <2> QED BY ONLY <1>2, <2>1, Popped
<1>4. Len(frames) # 1
  BY <1>1 DEF Control, FramesOK, Top
<1>5. frames' # <<>> /\ Len(frames') \in 1 .. Len(frames) - 1
  BY <1>1, <1>3, <1>4
<1>6. Types'
  <2>1. depth' \in Nat
    BY <1>3 DEF Control, ScopeOps, Types, Top
  <2> QED BY <1>2, <1>3, <1>5, <2>1 DEF Control, Types, fixed
<1>7. \A i \in 1 .. Len(frames') :
        /\ frames'[i].stm.op = "DFun" <=> i = 1
        /\ Busy(frames'[i])
  BY <1>1, <1>3 DEF Control, FramesOK
<1>8. FramesOK'
  BY <1>2, <1>5, <1>7 DEF FramesOK
<1>9. (depth = Cardinality(Scopes(frames)))'
  <2>1. Top.stm.op = "SBlock" <=> frames[Len(frames)].stm.op \in ScopeOps
    BY DEF ScopeOps, Top
  <2> QED BY <1>3, <2>1 DEF Control
<1>10. Busy(Top')
  <2>1. Len(frames') \in 1 .. Len(frames')
    BY <1>5
  <2>2. Busy(frames'[Len(frames')])
    BY <1>7, <2>1
  <2> QED BY <2>2 DEF Top
<1> QED BY <1>5, <1>6, <1>8, <1>9, <1>10 DEF Control

(* A handler that moves on, to its next child or its next round.           *)
LEMMA AdvanceControl ==
  ASSUME Control, frames # <<>>, NEW n \in Nat, n >= 1,
         frames' = Append(Pop, [Top EXCEPT !.pos = n]),
         node' \in Stm \cup {NoStm}, node' # NoStm => Top.stm.op # "SDecls",
         UNCHANGED fixed, UNCHANGED <<stmReturns, depth>>
  PROVE  /\ Control'
         /\ frames' # <<>> /\ Top'.pos = n /\ Top'.stm = Top.stm
<1>1. frames \in Seq(FrameSet) /\ Len(frames) \in Nat /\ Len(frames) >= 1
  BY EmptySeq DEF Control, Types
<1>0. PICK f : f = [frames[Len(frames)] EXCEPT !.pos = n]
  OBVIOUS
<1>2. frames' = Append(SubSeq(frames, 1, Len(frames) - 1), f)
  BY <1>0 DEF Pop, Top
<1>3. /\ frames' \in Seq(FrameSet) /\ Len(frames') = Len(frames)
      /\ f.stm = frames[Len(frames)].stm /\ f.pos = n
      /\ frames'[Len(frames)] = f
      /\ \A i \in 1 .. Len(frames) - 1 : frames'[i] = frames[i]
      /\ Scopes(frames') = Scopes(frames)
  <2>1. frames \in Seq(FrameSet) /\ frames # <<>> /\ n \in Nat
    BY <1>1
  <2>2. IsAdvance(frames, f, n, frames')
    BY <1>0, <1>2, <2>1, Advanced
  <2> QED BY <2>2 DEF IsAdvance
<1>4. frames' # <<>>
  BY <1>1, <1>3
<1>5. Types'
  BY <1>3, <1>4 DEF Control, Types, fixed
<1>6. FramesOK'
  <2>1. \A i \in 1 .. Len(frames) : i \in 1 .. Len(frames) - 1 \/ i = Len(frames)
    BY <1>1
  <2>2. \A i \in 1 .. Len(frames) - 1 : i \in 1 .. Len(frames) /\ Busy(frames[i])
    BY <1>1 DEF Control, FramesOK
  <2>3. \A i \in 1 .. Len(frames) : frames'[i].stm = frames[i].stm
    BY <1>3, <2>1
  <2>4. node' # NoStm => Busy(f)
    BY <1>3 DEF Busy, Top
  <2>5. \A i \in 1 .. Len(frames) :
          i < Len(frames) \/ node' # NoStm => Busy(frames'[i])
    <3>1. \A i \in 1 .. Len(frames) - 1 : Busy(frames'[i])
      BY <1>3, <2>2
    <3>2. \A i \in 1 .. Len(frames) : i < Len(frames) => i \in 1 .. Len(frames) - 1
      BY <1>1
    <3>3. frames'[Len(frames)] = f
      BY <1>3
    <3> QED BY <2>1, <2>4, <3>1, <3>2, <3>3
  <2>6. \A i \in 1 .. Len(frames) : frames'[i].stm.op = "DFun" <=> i = 1
    <3>1. \A i \in 1 .. Len(frames) : frames[i].stm.op = "DFun" <=> i = 1
      BY DEF Control, FramesOK
    <3> QED BY ONLY <2>3, <3>1
  <2>7. Len(frames') = Len(frames)
    BY <1>3
  <2> QED BY ONLY <1>4, <2>5, <2>6, <2>7 DEF FramesOK
<1>7. Top'.pos = n /\ Top'.stm = Top.stm
  BY <1>3 DEF Top
<1> QED BY <1>3, <1>4, <1>5, <1>6, <1>7 DEF Control

-----------------------------------------------------------------------------
(* Blocks *)

(* The step LeftBlocksFinal allows.                                      *)
FinalStep ==
  fn' = fn =>
    \A b \in DOMAIN ir.blocks :
      b # ir.at /\ ir.blocks[b] # <<>> =>
        ir'.blocks[b] = ir.blocks[b] /\ ir'.at # b

(* What only fills the insertion block, or moves on to a new one, leaves   *)
(* the others final.                                                       *)
LEMMA KeepsFinal ==
  ASSUME ShapedIR(ir), Keeps(ir, ir', {ir.at}), ir'.at = ir.at \/ ir'.at > Size(ir)
  PROVE  FinalStep
<1>1. DOMAIN ir.blocks = 1 .. Size(ir) /\ Size(ir) \in Nat
  BY DEF ShapedIR, IRs, Size
<1>2. \A b \in 1 .. Size(ir) : b # ir.at => ir'.at # b
  BY <1>1
<1> QED BY <1>1, <1>2 DEF FinalStep, Keeps

(* A handler without children: it appends, and may return.                 *)
LEMMA LeafBlocks ==
  ASSUME Control, Blocks, node \in Stm, Leaf,
         ShapedIR(ir'), Keeps(ir, ir', {ir.at}), ir'.at = ir.at \/ ir'.at > Size(ir),
         Fillable(InsertBlock(ir')), Open(InsertBlock(ir')) \/ stmReturns'
  PROVE  Blocks' /\ FinalStep
<1>1. node # NoStm /\ node' = NoStm /\ frames' = frames /\ frames # <<>>
  BY StmParts DEF Leaf, Control, FramesOK
<1>2. Busy(Top') /\ Len(frames) \in Nat /\ Top'.pos # 0
  <2>1. Len(frames) \in Nat /\ Len(frames) >= 1
    BY <1>1, EmptySeq DEF Control, Types
  <2>2. Busy(frames[Len(frames)])
    BY <1>1, <2>1 DEF Control, FramesOK
  <2> QED BY <1>1, <2>1, <2>2 DEF Top, Busy
<1>3. Reserved(frames', ir')
  BY <1>1, ReservedKept DEF Blocks
<1>4. FinalStep
  BY KeepsFinal DEF Blocks
<1> QED BY <1>1, <1>2, <1>3, <1>4 DEF Blocks, Appendable, Busy

(* Of the step from f to g, the blocks S are new, empty and not filled.    *)
NewlyReserved(S, f, g) ==
  \A k \in S : k \in Size(f) + 1 .. Size(g) /\ g.blocks[k] = <<>> /\ k # g.at

(* A handler that calls one: it leaves an open block for it, and reserves  *)
(* only blocks it created.                                                 *)
LEMMA CallBlocks ==
  ASSUME Control, Blocks, node \in Stm,
         NEW s, NEW p \in Nat, NEW b \in Nat,
         Call(s, Frame(node, p, b)),
         Ready(ir'), Keeps(ir, ir', {ir.at}), ir'.at = ir.at \/ ir'.at > Size(ir),
         NewlyReserved(Pending(Frame(node, p, b)), ir, ir')
  PROVE  Blocks' /\ FinalStep
<1>1. PICK f : f = Frame(node, p, b)
  OBVIOUS
<1>2. f \in FrameSet /\ frames' = Append(frames, f)
  BY <1>1 DEF Frame, FrameSet, Call
<1>3. ShapedIR(ir) /\ ShapedIR(ir') /\ Reserved(frames, ir) /\ frames \in Seq(FrameSet)
  BY DEF Blocks, Ready, Control, Types
<1>4. Reserved(frames', ir')
  BY <1>1, <1>2, <1>3, ReservedPushed DEF NewlyReserved
<1>5. FinalStep
  BY <1>3, KeepsFinal
<1> QED BY <1>3, <1>4, <1>5 DEF Blocks, Ready, Fillable

(* A handler that returns: the block it leaves is open, or stmReturns set. *)
LEMMA ReturnBlocks ==
  ASSUME Control, Blocks, frames # <<>>, Return, Busy(Top'),
         ShapedIR(ir'), Keeps(ir, ir', {ir.at} \cup Pending(Top)),
         ir'.at \in {ir.at} \cup Pending(Top) \/ ir'.at > Size(ir),
         Fillable(InsertBlock(ir')), Open(InsertBlock(ir')) \/ stmReturns'
  PROVE  Blocks' /\ FinalStep
<1>1. /\ frames \in Seq(FrameSet) /\ ShapedIR(ir) /\ Reserved(frames, ir)
      /\ frames' = SubSeq(frames, 1, Len(frames) - 1)
      /\ Top = frames[Len(frames)]
  BY DEF Control, Types, Blocks, Return, Pop, Top
<1>2. Reserved(frames', ir')
  BY <1>1, ReservedPopped
<1>3. node' = NoStm
  BY DEF Return
<1>4. FinalStep
  <2>1. \A b \in Pending(Top) : ir.blocks[b] = <<>>
    <3>1. Len(frames) \in 1 .. Len(frames)
      BY <1>1, FrontFacts
    <3> QED BY <1>1, <3>1 DEF Reserved
  <2>2. Keeps(ir, ir', {ir.at} \cup Pending(Top))
    OBVIOUS
  <2>3. DOMAIN ir.blocks = 1 .. Size(ir) /\ Size(ir) \in Nat
    BY <1>1 DEF ShapedIR, IRs, Size
  <2>4. \A b \in 1 .. Size(ir) :
          b # ir.at /\ ir.blocks[b] # <<>> =>
            b \notin {ir.at} \cup Pending(Top) /\ ir'.at # b
    BY <2>1, <2>3
  <2>5. \A b \in 1 .. Size(ir) :
          b # ir.at /\ ir.blocks[b] # <<>> =>
            ir'.blocks[b] = ir.blocks[b] /\ ir'.at # b
    BY <2>2, <2>4 DEF Keeps
  <2> QED BY ONLY <2>3, <2>5 DEF FinalStep
<1> QED BY <1>2, <1>3, <1>4 DEF Blocks, Appendable, Busy

(* A handler that moves on to its next child or round: it leaves an open   *)
(* block, and keeps some of the blocks it reserved.                        *)
LEMMA AdvanceBlocks ==
  ASSUME Control, Blocks, frames # <<>>, NEW n \in Nat,
         NEW f, f = [Top EXCEPT !.pos = n], frames' = Append(Pop, f),
         Ready(ir'),
         Pending(f) \subseteq Pending(Top), ir'.at \notin Pending(f),
         Keeps(ir, ir', {ir.at} \cup (Pending(Top) \ Pending(f))),
         ir'.at \in {ir.at} \cup Pending(Top) \/ ir'.at > Size(ir)
  PROVE  Blocks' /\ FinalStep
<1>1. /\ frames \in Seq(FrameSet) /\ ShapedIR(ir) /\ ShapedIR(ir')
      /\ Reserved(frames, ir) /\ Top = frames[Len(frames)]
  BY DEF Control, Types, Blocks, Top, Ready
<1>2. f \in FrameSet
  <2>1. Top \in FrameSet
    BY <1>1, FrontFacts
  <2> QED BY <2>1, FrameParts
<1>3. Reserved(frames', ir')
  BY <1>1, <1>2, ReservedAdvanced DEF Pop
<1>4. FinalStep
  <2>1. \A b \in Pending(Top) : ir.blocks[b] = <<>>
    <3>1. Len(frames) \in 1 .. Len(frames)
      BY <1>1, FrontFacts
    <3> QED BY <1>1, <3>1 DEF Reserved
  <2>2. Keeps(ir, ir', {ir.at} \cup Pending(Top))
    BY DEF Keeps
  <2>3. DOMAIN ir.blocks = 1 .. Size(ir) /\ Size(ir) \in Nat
    BY <1>1 DEF ShapedIR, IRs, Size
  <2>4. \A b \in 1 .. Size(ir) :
          b # ir.at /\ ir.blocks[b] # <<>> =>
            b \notin {ir.at} \cup Pending(Top) /\ ir'.at # b
    BY <2>1, <2>3
  <2>5. \A b \in 1 .. Size(ir) :
          b # ir.at /\ ir.blocks[b] # <<>> =>
            ir'.blocks[b] = ir.blocks[b] /\ ir'.at # b
    BY <2>2, <2>4 DEF Keeps
  <2> QED BY ONLY <2>3, <2>5 DEF FinalStep
<1> QED BY <1>1, <1>3, <1>4 DEF Blocks, Ready, Fillable

-----------------------------------------------------------------------------
(* The invariant is kept *)

(* A handler that is entered finds an open block; one that resumes finds   *)
(* one it may branch from.                                                 *)
LEMMA Entered ==
  ASSUME IInv, NEW op, Entering(op)
  PROVE  /\ node \in Stm /\ node.op = op /\ node # NoStm
         /\ Ready(ir) /\ Control /\ Blocks /\ Size(ir) \in Nat
<1>1. Open(InsertBlock(ir)) /\ ShapedIR(ir)
  BY DEF IInv, Blocks, Appendable, Entering
<1> QED BY <1>1, SizeType DEF IInv, Control, Types, Entering, Ready

(* The handler that has control again, and the block it writes to unless a *)
(* return has closed it.                                                   *)
LEMMA Resumed ==
  ASSUME IInv, frames # <<>>
  PROVE  /\ Top \in FrameSet /\ Top.pos \in Nat /\ Top.base \in Nat
         /\ Top.stm.op # "DFun" => Top.stm \in Stm
         /\ ShapedIR(ir) /\ Fillable(InsertBlock(ir)) /\ Size(ir) \in Nat
         /\ \A b \in Pending(Top) :
              b \in 1 .. Size(ir) /\ ir.blocks[b] = <<>> /\ b # ir.at
         /\ Control /\ Blocks
<1>1. frames \in Seq(FrameSet) /\ Len(frames) \in Nat /\ Len(frames) >= 1
  BY EmptySeq DEF IInv, Control, Types
<1>2. Top \in FrameSet
  BY <1>1 DEF Top
<1>3. ShapedIR(ir) /\ Fillable(InsertBlock(ir)) /\ Control /\ Blocks
  BY DEF IInv, Blocks
<1>4. \A b \in Pending(Top) :
        b \in 1 .. Size(ir) /\ ir.blocks[b] = <<>> /\ b # ir.at
  BY <1>1 DEF IInv, Blocks, Reserved, Top
<1> QED BY <1>2, <1>3, <1>4, FrameParts, SizeType

(* visitDFun: a new function with an empty entry block.                    *)
LEMMA visitDFunInv == IInv /\ visitDFun => IInv' /\ FinalStep
<1> SUFFICES ASSUME IInv, visitDFun PROVE IInv' /\ FinalStep
  OBVIOUS
<1>1. /\ program \in Seq(Function) /\ fn \in 0 .. Len(program) /\ fn < Len(program)
      /\ Control /\ frames = <<>> /\ node = NoStm /\ node' = NoStm /\ fn' = fn + 1
      /\ depth = Cardinality(Scopes(frames)) /\ depth' = depth + 1
  BY StmAssumption DEF visitDFun, IInv, Control, Types
<1>2. fn + 1 \in 1 .. Len(program) /\ program[fn + 1] \in Function
  BY <1>1
<1>3. PICK f : f = Frame(FunctionNode(program[fn + 1]), 0, 0)
  OBVIOUS
<1>4. f \in FrameSet /\ f.stm.op = "DFun" /\ f.pos = 0
  BY <1>2, <1>3 DEF Frame, FrameSet, FunctionNode, FunctionNodes, Function
<1>5. frames' = <<f>>
  BY <1>3 DEF visitDFun
<1>6. frames' = Append(<<>>, f) /\ <<>> \in Seq(FrameSet)
  BY <1>5
<1>7. IsPush(<<>>, f, frames')
  BY <1>4, <1>6, Pushed
<1>8. /\ frames' \in Seq(FrameSet) /\ Len(frames') = 1 /\ frames' # <<>>
      /\ frames'[1] = f
      /\ depth' = Cardinality(Scopes(frames')) /\ depth' \in Nat
  BY <1>1, <1>4, <1>7 DEF IsPush, ScopeOps, Control, Types
<1>9. Types'
  BY <1>1, <1>2, <1>8 DEF visitDFun, Control, Types
<1>10. FramesOK'
  BY <1>1, <1>4, <1>8 DEF FramesOK
<1>11. Blocks' /\ FinalStep
  <2>1. ir' = EmptyFunction /\ Open(<<>>) /\ <<>> \in Seq(Inst)
    BY DEF visitDFun, Open
  <2>2. ir'.blocks = << <<>> >> /\ ir'.at = 1 /\ ir' \in IRs /\ Size(ir') = 1
    BY <2>1 DEF EmptyFunction, IRs, Size
  <2>3. ShapedIR(ir') /\ InsertBlock(ir') = <<>>
    BY <2>1, <2>2 DEF ShapedIR, Shaped, InsertBlock
  <2>4. Pending(f) = {}
    BY <1>4 DEF Pending
  <2>5. Reserved(frames', ir')
    BY <1>8, <2>4 DEF Reserved
  <2>6. FinalStep
    BY <1>1 DEF FinalStep
  <2> QED BY <2>1, <2>3, <2>5, <2>6 DEF Blocks, Fillable
<1> QED BY <1>8, <1>9, <1>10, <1>11 DEF IInv, Control

(* visitDFun's end: the function's blocks go to the module, closed by an   *)
(* implicit ret only where the block is open.                              *)
LEMMA endDFunInv == IInv /\ endDFun => IInv' /\ FinalStep
<1> SUFFICES ASSUME IInv, endDFun PROVE IInv' /\ FinalStep
  OBVIOUS
<1>1. /\ frames # <<>> /\ node = NoStm /\ node' = NoStm /\ Top.stm.op = "DFun"
      /\ Broken \/ Top.pos = Len(Top.stm.kids)
      /\ Return /\ UNCHANGED <<program, fn, stmReturns>> /\ depth' = depth - 1
  BY DEF endDFun, ListDone, InList, Return
<1>2. /\ Top \in FrameSet /\ ShapedIR(ir) /\ Fillable(InsertBlock(ir))
      /\ Control /\ Blocks
  BY <1>1, Resumed
<1>3. /\ frames \in Seq(FrameSet) /\ Len(frames) \in Nat /\ Len(frames) >= 1
      /\ fn \in 0 .. Len(program) /\ program \in Seq(Function)
      /\ module \in Seq(Seq(Seq(Inst))) /\ Len(module) = fn - 1
      /\ depth = Cardinality(Scopes(frames))
  BY <1>1, <1>2, EmptySeq, StmAssumption DEF Control, Types
<1>4. Len(frames) = 1 /\ frames[1].stm.op = "DFun"
  <2>1. Len(frames) \in 1 .. Len(frames) /\ frames[Len(frames)].stm.op = "DFun"
    BY <1>1, <1>3 DEF Top
  <2>2. Len(frames) = 1
    BY <1>2, <2>1 DEF Control, FramesOK
  <2> QED BY <2>1, <2>2
<1>5. frames' = SubSeq(frames, 1, Len(frames) - 1)
  BY <1>1 DEF Return, Pop
<1>6. /\ frames' \in Seq(FrameSet) /\ Len(frames') = 0 /\ frames' = <<>>
      /\ depth' = Cardinality(Scopes(frames')) /\ depth' \in Nat
  <2>1. /\ frames' \in Seq(FrameSet) /\ Len(frames') = Len(frames) - 1
        /\ Cardinality(Scopes(frames')) \in Nat
        /\ frames[Len(frames)].stm.op \in ScopeOps =>
             Cardinality(Scopes(frames)) = Cardinality(Scopes(frames')) + 1
    BY <1>1, <1>3, <1>5, Popped
  <2> QED BY <1>1, <1>3, <1>4, <2>1, EmptySeq DEF ScopeOps
<1>7. /\ ShapedIR(ir') /\ Fillable(InsertBlock(ir'))
      /\ module' = Append(module, ir'.blocks) /\ Keeps(ir, ir', {ir.at})
      /\ ir'.at = ir.at
  <2>1. CASE ~ stmReturns /\ program[fn].ret = "void"
    <3>1. Ready(ir)
      BY <1>1, <1>2, <2>1 DEF Blocks, Appendable, Ready
    <3>2. ir' = Emit(ir, Ret) /\ module' = Append(module, ir'.blocks)
      BY <2>1 DEF endDFun
    <3>3. Ret \in Inst /\ IsTerminator(Ret) /\ Ret.op = "ret"
      BY InstTypes DEF IsTerminator, Ret
    <3> QED BY <3>1, <3>2, <3>3, EmitTerminator
  <2>2. CASE stmReturns \/ program[fn].ret # "void"
    <3>1. ir' = ir /\ module' = Append(module, ir'.blocks)
      BY <2>2 DEF endDFun
    <3> QED BY <1>2, <3>1, SizeType DEF Keeps
  <2> QED BY <2>1, <2>2
<1>8. module' \in Seq(Seq(Seq(Inst))) /\ Len(module') = fn'
  BY <1>1, <1>3, <1>7 DEF ShapedIR, IRs
<1>9. diagnosed' \subseteq 1 .. fn'
  <2>1. diagnosed \subseteq 1 .. fn /\ fn >= 1 /\ fn \in Nat
    BY <1>2, <1>3 DEF Control, Types
  <2> QED BY <1>1, <2>1 DEF endDFun
<1>10. Types'
  BY <1>1, <1>2, <1>3, <1>6, <1>8, <1>9 DEF Control, Types
<1>11. FramesOK'
  BY <1>1, <1>6 DEF FramesOK
<1>12. Blocks' /\ FinalStep
  <2>2. FinalStep
    BY <1>2, <1>7, KeepsFinal
  <2> QED BY <1>1, <1>6, <1>7, <2>2 DEF Blocks, Reserved, Appendable
<1> QED BY <1>6, <1>10, <1>11, <1>12 DEF IInv, Control

(* The loops over statements: the next statement meets an open block       *)
(* unless the last one set stmReturns.                                     *)
LEMMA visitNextInv == IInv /\ visitNext => IInv' /\ FinalStep
<1> SUFFICES ASSUME IInv, visitNext PROVE IInv' /\ FinalStep
  OBVIOUS
<1>1. /\ frames # <<>> /\ node = NoStm /\ Top.stm.op \in ScopeOps /\ ~ Broken
      /\ Top.pos < Len(Top.stm.kids) /\ node' = Top.stm.kids[Top.pos + 1]
      /\ frames' = Append(Pop, [Top EXCEPT !.pos = Top.pos + 1])
      /\ UNCHANGED fixed /\ UNCHANGED <<stmReturns, depth>> /\ ir' = ir
  BY DEF visitNext, InList, ScopeOps
<1>2. /\ Top \in FrameSet /\ Top.pos \in Nat /\ ShapedIR(ir) /\ Control /\ Blocks
      /\ Size(ir) \in Nat
  BY <1>1, Resumed
<1>3. node' \in Stm
  BY <1>1, <1>2, FrameParts
<1>4. Control'
  BY SMTT(30), <1>1, <1>2, <1>3, AdvanceControl DEF ScopeOps
<1>5. PICK f : f = [Top EXCEPT !.pos = Top.pos + 1]
  OBVIOUS
<1>6. Pending(f) = {}
  <2>1. f.stm = Top.stm
    BY <1>2, <1>5, FrameParts
  <2> QED BY <1>1, <2>1 DEF Pending, ScopeOps
<1>7. Ready(ir) /\ Keeps(ir, ir', {ir.at} \cup (Pending(Top) \ Pending(f)))
  BY <1>1, <1>2 DEF Blocks, Appendable, Broken, Ready, Keeps
<1>8. Blocks' /\ FinalStep
  <2>1. frames' = Append(Pop, f) /\ Top.pos + 1 \in Nat /\ Ready(ir')
    BY <1>1, <1>2, <1>5, <1>7
  <2> QED BY <1>1, <1>2, <1>5, <1>6, <1>7, <2>1, AdvanceBlocks
<1> QED BY <1>4, <1>8 DEF IInv

(* visitSBlock and visitSDecls enter their loops.                          *)
LEMMA visitSBlockInv == IInv /\ visitSBlock => IInv' /\ FinalStep
<1> SUFFICES ASSUME IInv, visitSBlock PROVE IInv' /\ FinalStep
  OBVIOUS
<1>1. /\ node \in Stm /\ node.op = "SBlock" /\ node # NoStm
      /\ Ready(ir) /\ Control /\ Blocks /\ Size(ir) \in Nat
  BY Entered DEF visitSBlock
<1>2. /\ Call(NoStm, Frame(node, 0, 0)) /\ depth' = depth + 1
      /\ UNCHANGED fixed /\ ir' = ir /\ UNCHANGED stmReturns
  BY DEF visitSBlock
<1>3. Control'
  BY <1>1, <1>2, CallControl
<1>4. /\ NewlyReserved(Pending(Frame(node, 0, 0)), ir, ir')
      /\ Keeps(ir, ir', {ir.at})
  BY <1>1, <1>2 DEF Pending, Frame, Keeps, NewlyReserved
<1>5. Blocks' /\ FinalStep
  BY <1>1, <1>2, <1>4, CallBlocks
<1> QED BY <1>3, <1>5 DEF IInv

(* visitSDecls emits nothing of its own: the names follow one by one.      *)
LEMMA visitSDeclsInv == IInv /\ visitSDecls => IInv' /\ FinalStep
<1> SUFFICES ASSUME IInv, visitSDecls PROVE IInv' /\ FinalStep
  OBVIOUS
<1>1. /\ node \in Stm /\ node.op = "SDecls" /\ node # NoStm
      /\ Ready(ir) /\ Control /\ Blocks /\ Size(ir) \in Nat
  BY Entered DEF visitSDecls
<1>2. /\ Call(NoStm, Frame(node, 0, 0)) /\ depth' = depth
      /\ UNCHANGED fixed /\ ir' = ir /\ UNCHANGED stmReturns
  BY DEF visitSDecls
<1>3. Control'
  BY <1>1, <1>2, CallControl
<1>4. /\ NewlyReserved(Pending(Frame(node, 0, 0)), ir, ir')
      /\ Keeps(ir, ir', {ir.at})
  BY <1>1, <1>2 DEF Pending, Frame, Keeps, NewlyReserved
<1>5. Blocks' /\ FinalStep
  BY <1>1, <1>2, <1>4, CallBlocks
<1> QED BY <1>3, <1>5 DEF IInv

(* visitSBlock's end: stmReturns is set exactly if its last statement did. *)
LEMMA endSBlockInv == IInv /\ endSBlock => IInv' /\ FinalStep
<1> SUFFICES ASSUME IInv, endSBlock PROVE IInv' /\ FinalStep
  OBVIOUS
<1>1. /\ frames # <<>> /\ node = NoStm /\ Top.stm.op = "SBlock" /\ Return
      /\ stmReturns' = Broken /\ depth' = depth - 1 /\ UNCHANGED fixed /\ ir' = ir
  BY DEF endSBlock, ListDone, InList
<1>2. /\ Top.pos \in Nat /\ ShapedIR(ir) /\ Fillable(InsertBlock(ir))
      /\ Control /\ Blocks /\ Size(ir) \in Nat
  BY <1>1, Resumed
<1>3. Control' /\ Busy(Top')
  <2>1. stmReturns' \in BOOLEAN
    BY <1>1, <1>2 DEF Broken, Control, Types
  <2> QED BY <1>1, <1>2, <2>1, ReturnControl
<1>4. Open(InsertBlock(ir')) \/ stmReturns'
  <2>1. stmReturns' \/ Top.pos = 0 \/ ~ stmReturns
    <3>1. Top.pos > 0 \/ Top.pos = 0
      BY <1>2
    <3>2. Top.pos > 0 /\ stmReturns => stmReturns'
      BY <1>1, Zenon DEF Broken
    <3> QED BY <3>1, <3>2, Zenon
  <2>2. ~ stmReturns' => Appendable
    BY <1>1, <2>1 DEF Appendable
  <2> QED BY <1>1, <1>2, <2>2 DEF Blocks
<1>5. Keeps(ir, ir', {ir.at} \cup Pending(Top))
  BY <1>1, <1>2 DEF Keeps
<1>6. Blocks' /\ FinalStep
  BY <1>1, <1>2, <1>3, <1>4, <1>5, ReturnBlocks
<1> QED BY <1>3, <1>6 DEF IInv

(* Statements without children.                                            *)
LEMMA visitSExpInv == IInv /\ visitSExp => IInv' /\ FinalStep
<1> SUFFICES ASSUME IInv, visitSExp PROVE IInv' /\ FinalStep
  OBVIOUS
<1>1. /\ node \in Stm /\ node.op = "SExp" /\ Ready(ir) /\ Control /\ Blocks
  BY Entered DEF visitSExp
<1>2. /\ ir' = GenExp(ir, node.exps[1]) /\ stmReturns' = FALSE /\ Leaf
      /\ UNCHANGED fixed /\ depth' = depth
  BY DEF visitSExp
<1>3. /\ Ready(ir') /\ Keeps(ir, ir', {ir.at})
      /\ ir'.at = ir.at \/ ir'.at > Size(ir)
  <2>1. node.exps[1] \in Exp
    BY <1>1, StmParts
  <2> QED BY <1>1, <1>2, <2>1, GenExpFacts
<1>4. Control'
  BY <1>1, <1>2, LeafControl
<1>5. Blocks' /\ FinalStep
  BY <1>1, <1>2, <1>3, LeafBlocks DEF Ready, Fillable
<1> QED BY <1>4, <1>5 DEF IInv

(* visitSReturnV closes the insertion block with ret void and tells its    *)
(* callers to stop.                                                        *)
LEMMA visitSReturnVInv == IInv /\ visitSReturnV => IInv' /\ FinalStep
<1> SUFFICES ASSUME IInv, visitSReturnV PROVE IInv' /\ FinalStep
  OBVIOUS
<1>1. /\ node \in Stm /\ Ready(ir) /\ Control /\ Blocks
  BY Entered DEF visitSReturnV
<1>2. /\ ir' = Emit(ir, Ret) /\ stmReturns' = TRUE /\ Leaf
      /\ UNCHANGED fixed /\ depth' = depth
  BY DEF visitSReturnV
<1>3. Ret \in Inst /\ IsTerminator(Ret) /\ Ret.op = "ret"
  BY InstTypes DEF IsTerminator, Ret
<1>4. /\ ShapedIR(ir') /\ Keeps(ir, ir', {ir.at}) /\ ir'.at = ir.at
      /\ Fillable(InsertBlock(ir'))
  BY <1>1, <1>2, <1>3, EmitTerminator
<1>5. Control'
  BY <1>1, <1>2, LeafControl
<1>6. Blocks' /\ FinalStep
  BY <1>1, <1>2, <1>4, LeafBlocks
<1> QED BY <1>5, <1>6 DEF IInv

(* visitSReturn evaluates its expression, then closes the insertion block. *)
LEMMA visitSReturnInv == IInv /\ visitSReturn => IInv' /\ FinalStep
<1> SUFFICES ASSUME IInv, visitSReturn PROVE IInv' /\ FinalStep
  OBVIOUS
<1>1. /\ node \in Stm /\ node.op = "SReturn" /\ Ready(ir) /\ Control /\ Blocks
      /\ Size(ir) \in Nat
  BY Entered DEF visitSReturn
<1>2. /\ ir' = Emit(GenExp(ir, node.exps[1]), Ret) /\ stmReturns' = TRUE /\ Leaf
      /\ UNCHANGED fixed /\ depth' = depth
  BY DEF visitSReturn
<1>3. PICK f : f = GenExp(ir, node.exps[1])
  OBVIOUS
<1>4. Ready(f) /\ Keeps(ir, f, {ir.at}) /\ (f.at = ir.at \/ f.at > Size(ir))
  <2>1. node.exps[1] \in Exp
    BY <1>1, StmParts
  <2> QED BY <1>1, <1>3, <2>1, GenExpFacts
<1>5. Ret \in Inst /\ IsTerminator(Ret) /\ Ret.op = "ret"
  BY InstTypes DEF IsTerminator, Ret
<1>6. /\ ShapedIR(ir') /\ Keeps(f, ir', {f.at}) /\ ir'.at = f.at
      /\ Size(ir') = Size(f) /\ Fillable(InsertBlock(ir'))
  BY <1>2, <1>3, <1>4, <1>5, EmitTerminator
<1>7. Keeps(ir, ir', {ir.at})
  <2>1. Size(f) \in Nat
    BY <1>4, SizeType DEF Ready
  <2> QED BY <1>1, <1>4, <1>6, <2>1 DEF Keeps
<1>8. Control'
  BY <1>1, <1>2, LeafControl
<1>9. Blocks' /\ FinalStep
  BY <1>1, <1>2, <1>4, <1>6, <1>7, LeafBlocks
<1> QED BY <1>8, <1>9 DEF IInv

(* One round of the loop of visitSDecls, and its end.                      *)
LEMMA visitIdInitInv == IInv /\ visitIdInit => IInv' /\ FinalStep
<1> SUFFICES ASSUME IInv, visitIdInit PROVE IInv' /\ FinalStep
  OBVIOUS
<1>1. /\ frames # <<>> /\ node = NoStm /\ node' = NoStm /\ Top.stm.op = "SDecls"
      /\ Top.pos < Len(Top.stm.exps)
      /\ ir' = GenExp(ir, Top.stm.exps[Top.pos + 1])
      /\ frames' = Append(Pop, [Top EXCEPT !.pos = Top.pos + 1])
      /\ UNCHANGED fixed /\ UNCHANGED <<stmReturns, depth>>
  BY DEF visitIdInit, InDecls
<1>2. /\ Top \in FrameSet /\ Top.pos \in Nat /\ Top.stm \in Stm
      /\ Control /\ Blocks /\ Size(ir) \in Nat /\ ShapedIR(ir)
  BY <1>1, Resumed
<1>3. Control'
  BY <1>1, <1>2, AdvanceControl
<1>4. Ready(ir)
  BY <1>1, <1>2 DEF Blocks, Appendable, Ready
<1>5. Top.stm.exps[Top.pos + 1] \in Exp
  BY <1>1, <1>2, StmParts
<1>6. /\ Ready(ir') /\ Keeps(ir, ir', {ir.at})
      /\ ir'.at = ir.at \/ ir'.at > Size(ir)
  BY <1>1, <1>4, <1>5, GenExpFacts
<1>7. PICK f : f = [Top EXCEPT !.pos = Top.pos + 1]
  OBVIOUS
<1>8. Pending(f) = {}
  <2>1. f.stm = Top.stm
    BY <1>2, <1>7, FrameParts
  <2> QED BY <1>1, <2>1 DEF Pending
<1>9. Keeps(ir, ir', {ir.at} \cup (Pending(Top) \ Pending(f)))
  BY <1>6 DEF Keeps
<1>10. frames' = Append(Pop, f) /\ Top.pos + 1 \in Nat
  BY <1>1, <1>2, <1>7
<1>11. Blocks' /\ FinalStep
  BY <1>1, <1>2, <1>6, <1>7, <1>8, <1>9, <1>10, AdvanceBlocks
<1> QED BY <1>3, <1>11 DEF IInv

(* A declaration ends in the block it was in.                              *)
LEMMA endSDeclsInv == IInv /\ endSDecls => IInv' /\ FinalStep
<1> SUFFICES ASSUME IInv, endSDecls PROVE IInv' /\ FinalStep
  OBVIOUS
<1>1. /\ frames # <<>> /\ node = NoStm /\ Top.stm.op = "SDecls" /\ Return
      /\ stmReturns' = FALSE /\ depth' = depth /\ UNCHANGED fixed /\ ir' = ir
  BY DEF endSDecls, InDecls
<1>2. /\ ShapedIR(ir) /\ Fillable(InsertBlock(ir)) /\ Control /\ Blocks
      /\ Size(ir) \in Nat
  BY <1>1, Resumed
<1>3. Control' /\ Busy(Top')
  BY <1>1, <1>2, ReturnControl
<1>4. Open(InsertBlock(ir')) /\ Keeps(ir, ir', {ir.at} \cup Pending(Top))
  BY <1>1, <1>2 DEF Blocks, Appendable, Keeps
<1>5. Blocks' /\ FinalStep
  BY <1>1, <1>2, <1>3, <1>4, ReturnBlocks
<1> QED BY <1>3, <1>5 DEF IInv

(* g is f with n new blocks from b on, of which all but the second are not *)
(* being filled, the third and later ones empty, and the first terminated. *)
IsHead(f, n, b, g) ==
  /\ Ready(g) /\ Keeps(f, g, {f.at}) /\ g.at = b + 1
  /\ b = Size(f) + 1 /\ Size(f) \in Nat /\ Size(g) \in Nat
  /\ Size(g) >= Size(f) + n
  /\ \A k \in b + 2 .. Size(f) + n : g.blocks[k] = <<>>
  /\ Settles(f, g, {f.at}, b + 1 .. Size(f) + n)

(* The head of a loop or an if: n new blocks, the test in the first, and   *)
(* the insertion point in the second.                                      *)
LEMMA HeadFacts ==
  ASSUME NEW f, Ready(f), NEW n \in {3, 4}, NEW e \in Exp,
         NEW b, b = NextBlock(f),
         NEW g, g = SetInsertPoint(
                      GenTest(CreateBlocks(f, n), b, e, b + 1, b + 2), b + 1)
  PROVE  IsHead(f, n, b, g)
<1>1. b = Size(f) + 1 /\ Size(f) \in Nat /\ b \in Nat /\ ShapedIR(f)
  BY SizeType DEF NextBlock, Size, Ready
<1>2. PICK f1 : f1 = CreateBlocks(f, n)
  OBVIOUS
<1>3. /\ ShapedIR(f1) /\ f1.at = f.at /\ Size(f1) = Size(f) + n
      /\ \A k \in 1 .. Size(f) : f1.blocks[k] = f.blocks[k]
      /\ \A k \in Size(f) + 1 .. Size(f) + n : f1.blocks[k] = <<>>
      /\ Settles(f, f1, {}, Size(f) + 1 .. Size(f) + n)
  <2>1. n \in Nat
    OBVIOUS
  <2>2. IsExtension(f, n, f1)
    BY <1>1, <1>2, <2>1, CreateFacts
  <2> QED BY <1>1, <2>1, <2>2 DEF IsExtension, Settles, Loose
<1>4. f.at \in 1 .. Size(f)
  BY <1>1 DEF ShapedIR
<1>5. Fillable(InsertBlock(f1)) /\ b \in 1 .. Size(f1) /\ f1.blocks[b] = <<>> /\ b # f1.at
  BY <1>1, <1>3, <1>4 DEF Ready, Fillable, InsertBlock
<1>6. PICK f2 : f2 = GenTest(f1, b, e, b + 1, b + 2)
  OBVIOUS
<1>7. /\ ShapedIR(f2) /\ Keeps(f1, f2, {f1.at, b})
      /\ Settles(f1, f2, {f1.at, b}, {})
  <2>1. b + 1 \in Nat /\ b + 2 \in Nat
    BY <1>1
  <2>2. Open(InsertBlock(f1))
    BY <1>3, <1>4 DEF Ready, InsertBlock
  <2> QED BY <1>3, <1>5, <1>6, <2>1, <2>2, GenTestFacts
<1>8. Size(f2) \in Nat /\ Size(f2) >= Size(f) + n
  BY <1>3, <1>7, SizeType DEF Keeps
<1>9. \A k \in b + 1 .. Size(f) + n : f2.blocks[k] = <<>>
  <2>1. \A k \in b + 1 .. Size(f) + n :
          k \in 1 .. Size(f1) /\ k \notin {f1.at, b} /\ f1.blocks[k] = <<>>
    BY <1>1, <1>3, <1>4
  <2> QED BY <1>7, <2>1 DEF Keeps
<1>10. /\ Ready(g) /\ g.blocks = f2.blocks /\ g.at = b + 1 /\ Size(g) = Size(f2)
       /\ Settles(f2, g, {}, {})
  <2>1. b + 1 \in 1 .. Size(f2) /\ f2.blocks[b + 1] = <<>>
    BY <1>1, <1>8, <1>9
  <2>2. g = SetInsertPoint(f2, b + 1)
    BY <1>2, <1>6
  <2> QED BY <1>7, <2>1, <2>2, MoveToEmpty
<1>11. Keeps(f, g, {f.at})
  <2>1. \A k \in 1 .. Size(f) : k # f.at =>
          k \in 1 .. Size(f1) /\ k \notin {f1.at, b}
    BY <1>1, <1>3
  <2>2. \A k \in 1 .. Size(f) : k # f.at => g.blocks[k] = f.blocks[k]
    BY <1>3, <1>7, <1>10, <2>1 DEF Keeps
  <2>3. Size(g) >= Size(f)
    BY <1>1, <1>8, <1>10
  <2> QED BY <2>2, <2>3 DEF Keeps
<1>12. Settles(f, g, {f.at}, b + 1 .. Size(f) + n)
  BY <1>1, <1>3, <1>7, <1>10 DEF Settles
<1> QED BY <1>1, <1>8, <1>9, <1>10, <1>11, <1>12 DEF IsHead

(* A loop's or branch's end: a branch if the block needs one.              *)
LEMMA CloseBranchFacts ==
  ASSUME NEW f, ShapedIR(f), Fillable(InsertBlock(f)), NEW next \in Nat,
         NEW g, g = CloseBranch(f, next)
  PROVE  /\ ShapedIR(g) /\ Keeps(f, g, {f.at}) /\ g.at = f.at /\ Size(g) = Size(f)
         /\ Settles(f, g, {f.at}, {})
<1>0. InsertBlock(f) \in Seq(Inst)
  BY DEF ShapedIR, IRs, Size, InsertBlock
<1>1. CASE HasTerminator(InsertBlock(f))
  <2>1. g = f /\ VerifiedBlock(f.blocks[f.at])
    BY <1>0, <1>1, NoTerminatorOpen DEF CloseBranch, Fillable, InsertBlock
  <2> QED BY <2>1, SizeType DEF Keeps, Settles, Loose
<1>2. CASE ~ HasTerminator(InsertBlock(f))
  <2>1. Ready(f) /\ g = Emit(f, Br(next))
    BY <1>0, <1>2, NoTerminatorOpen DEF CloseBranch, Ready
  <2>2. Br(next) \in Inst /\ IsTerminator(Br(next))
    BY InstTypes DEF IsTerminator, Br
  <2> QED BY <2>1, <2>2, EmitTerminator
<1> QED BY <1>1, <1>2

(* visitSWhile closes the block it was entered in and leaves its merge     *)
(* block for later.                                                        *)
LEMMA visitSWhileInv == IInv /\ visitSWhile => IInv' /\ FinalStep
<1> SUFFICES ASSUME IInv, visitSWhile PROVE IInv' /\ FinalStep
  OBVIOUS
<1>1. /\ node \in Stm /\ node.op = "SWhile" /\ Ready(ir) /\ Control /\ Blocks
      /\ node.exps[1] \in Exp /\ node.kids[1] \in Stm
  BY Entered, StmParts DEF visitSWhile
<1>2. PICK b : b = NextBlock(ir)
  OBVIOUS
<1>3. /\ ir' = SetInsertPoint(
                 GenTest(CreateBlocks(ir, 3), b, node.exps[1], b + 1, b + 2), b + 1)
      /\ Call(node.kids[1], Frame(node, 1, b))
      /\ UNCHANGED fixed /\ UNCHANGED stmReturns /\ depth' = depth
  BY <1>2 DEF visitSWhile
<1>4. IsHead(ir, 3, b, ir')
  BY <1>1, <1>2, <1>3, HeadFacts
<1>5. b \in Nat
  BY <1>4 DEF IsHead
<1>6. Control'
  <2>1. node.kids[1] \in Stm \cup {NoStm} /\ 1 \in Nat /\ 1 >= 1
    BY <1>1
  <2>2. node.op # "SDecls" /\ depth' = IF node.op = "SBlock" THEN depth + 1 ELSE depth
    BY <1>1, <1>3
  <2> QED BY <1>1, <1>3, <1>5, <2>1, <2>2, CallControl
<1>7. Pending(Frame(node, 1, b)) = {b + 2}
  BY <1>1 DEF Pending, Frame
<1>8. Blocks' /\ FinalStep
  <2>1. /\ Ready(ir') /\ Keeps(ir, ir', {ir.at}) /\ ir'.at > Size(ir)
        /\ b + 2 \in Size(ir) + 1 .. Size(ir')
        /\ ir'.blocks[b + 2] = <<>> /\ b + 2 # ir'.at
    BY <1>4, <1>5 DEF IsHead
  <2>2. NewlyReserved(Pending(Frame(node, 1, b)), ir, ir')
    BY <1>7, <2>1 DEF NewlyReserved
  <2> QED BY <1>1, <1>3, <1>5, <2>1, <2>2, CallBlocks
<1> QED BY <1>6, <1>8 DEF IInv

(* The back edge goes into whatever block the body left.                   *)
LEMMA endSWhileInv == IInv /\ endSWhile => IInv' /\ FinalStep
<1> SUFFICES ASSUME IInv, endSWhile PROVE IInv' /\ FinalStep
  OBVIOUS
<1>1. /\ frames # <<>> /\ node = NoStm /\ Top.stm.op = "SWhile" /\ Return
      /\ ir' = SetInsertPoint(Emit(ir, Br(Top.base)), Top.base + 2)
      /\ UNCHANGED fixed /\ stmReturns' = stmReturns /\ depth' = depth
  BY DEF endSWhile, Resuming
<1>2. /\ Top.base \in Nat /\ ShapedIR(ir) /\ Fillable(InsertBlock(ir))
      /\ Control /\ Blocks /\ Size(ir) \in Nat
      /\ \A b \in Pending(Top) :
           b \in 1 .. Size(ir) /\ ir.blocks[b] = <<>> /\ b # ir.at
  BY <1>1, Resumed
<1>3. Pending(Top) = {Top.base + 2}
  BY <1>1 DEF Pending
<1>4. PICK f : f = Emit(ir, Br(Top.base))
  OBVIOUS
<1>5. ShapedIR(f) /\ Keeps(ir, f, {ir.at}) /\ Size(f) = Size(ir)
  BY <1>2, <1>4, EmitBr
<1>6. /\ Top.base + 2 \in 1 .. Size(f) /\ f.blocks[Top.base + 2] = <<>>
      /\ ir' = SetInsertPoint(f, Top.base + 2)
  BY <1>1, <1>2, <1>3, <1>4, <1>5 DEF Keeps
<1>7. Ready(ir') /\ ir'.blocks = f.blocks /\ ir'.at = Top.base + 2 /\ Size(ir') = Size(f)
  BY <1>5, <1>6, MoveToEmpty
<1>8. Control' /\ Busy(Top')
  <2>1. stmReturns' \in BOOLEAN
    BY <1>1, <1>2 DEF Control, Types
  <2> QED BY <1>1, <1>2, <2>1, ReturnControl
<1>9. Keeps(ir, ir', {ir.at} \cup Pending(Top))
  BY <1>5, <1>7 DEF Keeps
<1>10. Blocks' /\ FinalStep
  BY <1>1, <1>2, <1>3, <1>7, <1>8, <1>9, ReturnBlocks DEF Ready, Fillable
<1> QED BY <1>8, <1>10 DEF IInv

(* visitSDoWhile moves into the body, before the condition is visited.     *)
LEMMA visitSDoWhileInv == IInv /\ visitSDoWhile => IInv' /\ FinalStep
<1> SUFFICES ASSUME IInv, visitSDoWhile PROVE IInv' /\ FinalStep
  OBVIOUS
<1>1. /\ node \in Stm /\ node.op = "SDoWhile" /\ Ready(ir) /\ Control /\ Blocks
      /\ node.kids[1] \in Stm /\ Size(ir) \in Nat
  BY Entered, StmParts DEF visitSDoWhile
<1>2. PICK b : b = NextBlock(ir)
  OBVIOUS
<1>3. PICK f : f = CreateBlocks(ir, 3)
  OBVIOUS
<1>4. PICK g : g = Emit(f, Br(b))
  OBVIOUS
<1>5. /\ ir' = SetInsertPoint(g, b)
      /\ Call(node.kids[1], Frame(node, 1, b))
      /\ UNCHANGED fixed /\ UNCHANGED stmReturns /\ depth' = depth
  BY <1>2, <1>3, <1>4 DEF visitSDoWhile
<1>6. b = Size(ir) + 1 /\ b \in Nat /\ ir.at \in 1 .. Size(ir)
  BY <1>1, <1>2 DEF NextBlock, Size, Ready, ShapedIR
<1>7. IsExtension(ir, 3, f) /\ Ready(f)
  <2>1. ShapedIR(ir) /\ 3 \in Nat
    BY <1>1 DEF Ready
  <2>2. IsExtension(ir, 3, f)
    BY <1>3, <2>1, CreateFacts
  <2>3. InsertBlock(f) = InsertBlock(ir)
    BY <1>6, <2>2 DEF IsExtension, InsertBlock
  <2> QED BY <1>1, <2>2, <2>3 DEF IsExtension, Ready
<1>8. ShapedIR(g) /\ Keeps(f, g, {f.at}) /\ g.at = f.at /\ Size(g) = Size(f)
  <2>1. Br(b) \in Inst /\ IsTerminator(Br(b))
    BY <1>6, InstTypes DEF IsTerminator, Br
  <2> QED BY <1>4, <1>7, <2>1, EmitTerminator
<1>9. /\ Size(g) = b + 2 /\ g.blocks[b] = <<>> /\ g.blocks[b + 1] = <<>>
      /\ g.blocks[b + 2] = <<>>
      /\ \A k \in 1 .. Size(ir) : k # ir.at => g.blocks[k] = ir.blocks[k]
  BY SMTT(30), <1>1, <1>6, <1>7, <1>8 DEF IsExtension, Keeps
<1>10. Ready(ir') /\ ir'.blocks = g.blocks /\ ir'.at = b /\ Size(ir') = b + 2
  <2>1. b \in 1 .. Size(g)
    BY <1>1, <1>6, <1>9
  <2> QED BY <1>5, <1>8, <1>9, <2>1, MoveToEmpty
<1>11. Control'
  <2>1. node.kids[1] \in Stm \cup {NoStm} /\ 1 \in Nat /\ 1 >= 1
    BY <1>1
  <2>2. node.op # "SDecls" /\ depth' = IF node.op = "SBlock" THEN depth + 1 ELSE depth
    BY <1>1, <1>5
  <2> QED BY <1>1, <1>5, <1>6, <2>1, <2>2, CallControl
<1>12. Blocks' /\ FinalStep
  <2>1. Pending(Frame(node, 1, b)) = {b + 1, b + 2}
    BY <1>1 DEF Pending, Frame
  <2>2. Keeps(ir, ir', {ir.at}) /\ ir'.at > Size(ir)
    BY <1>1, <1>6, <1>9, <1>10 DEF Keeps
  <2>3. NewlyReserved(Pending(Frame(node, 1, b)), ir, ir')
    BY <1>1, <1>6, <1>9, <1>10, <2>1 DEF NewlyReserved
  <2> QED BY <1>1, <1>5, <1>6, <1>10, <2>2, <2>3, CallBlocks
<1> QED BY <1>11, <1>12 DEF IInv

(* The condition of a do closes the body and goes on in the merge block.   *)
LEMMA endSDoWhileInv == IInv /\ endSDoWhile => IInv' /\ FinalStep
<1> SUFFICES ASSUME IInv, endSDoWhile PROVE IInv' /\ FinalStep
  OBVIOUS
<1>1. /\ frames # <<>> /\ node = NoStm /\ Top.stm.op = "SDoWhile" /\ Return
      /\ ir' = SetInsertPoint(
                 GenTest(ir, Top.base + 2, Top.stm.exps[1], Top.base, Top.base + 1),
                 Top.base + 1)
      /\ UNCHANGED fixed /\ stmReturns' = stmReturns /\ depth' = depth
  BY DEF endSDoWhile, Resuming
<1>2. /\ Top.base \in Nat /\ ShapedIR(ir) /\ Fillable(InsertBlock(ir))
      /\ Control /\ Blocks /\ Size(ir) \in Nat /\ Top.stm \in Stm
      /\ \A b \in Pending(Top) :
           b \in 1 .. Size(ir) /\ ir.blocks[b] = <<>> /\ b # ir.at
  BY <1>1, Resumed
<1>3. Pending(Top) = {Top.base + 1, Top.base + 2}
  BY <1>1 DEF Pending
<1>4. PICK f : f = GenTest(ir, Top.base + 2, Top.stm.exps[1], Top.base, Top.base + 1)
  OBVIOUS
<1>5. ShapedIR(f) /\ Keeps(ir, f, {ir.at, Top.base + 2})
  <2>1. /\ Top.base + 2 \in 1 .. Size(ir) /\ ir.blocks[Top.base + 2] = <<>>
        /\ Top.base + 2 # ir.at /\ Top.base + 1 \in Nat
        /\ Top.stm.exps[1] \in Exp
    BY <1>1, <1>2, <1>3, StmParts
  <2> QED BY <1>2, <1>4, <2>1, GenTestFacts
<1>6. /\ Top.base + 1 \in 1 .. Size(f) /\ f.blocks[Top.base + 1] = <<>>
      /\ ir' = SetInsertPoint(f, Top.base + 1) /\ Size(f) >= Size(ir)
  <2>1. Top.base + 1 \in 1 .. Size(ir) /\ Top.base + 1 \notin {ir.at, Top.base + 2}
    BY <1>2, <1>3
  <2> QED BY <1>1, <1>2, <1>3, <1>4, <1>5, <2>1, SizeType DEF Keeps
<1>7. Ready(ir') /\ ir'.blocks = f.blocks /\ ir'.at = Top.base + 1 /\ Size(ir') = Size(f)
  BY <1>5, <1>6, MoveToEmpty
<1>8. Control' /\ Busy(Top')
  <2>1. stmReturns' \in BOOLEAN
    BY <1>1, <1>2 DEF Control, Types
  <2> QED BY <1>1, <1>2, <2>1, ReturnControl
<1>9. Keeps(ir, ir', {ir.at} \cup Pending(Top))
  BY <1>3, <1>5, <1>7 DEF Keeps
<1>10. Blocks' /\ FinalStep
  BY <1>1, <1>2, <1>3, <1>7, <1>8, <1>9, ReturnBlocks DEF Ready, Fillable
<1> QED BY <1>8, <1>10 DEF IInv

(* visitSFor reserves the blocks of the test, the body and the merge.      *)
LEMMA visitSForInv == IInv /\ visitSFor => IInv' /\ FinalStep
<1> SUFFICES ASSUME IInv, visitSFor PROVE IInv' /\ FinalStep
  OBVIOUS
<1>1. /\ node \in Stm /\ node.op = "SFor" /\ Ready(ir) /\ Control /\ Blocks
      /\ node.exps[1] \in Exp /\ node.exps[2] \in Exp /\ node.kids[1] \in Stm
      /\ Size(ir) \in Nat
  BY Entered, StmParts DEF visitSFor
<1>2. PICK f : f = GenExp(ir, node.exps[1])
  OBVIOUS
<1>3. Ready(f) /\ Keeps(ir, f, {ir.at}) /\ (f.at = ir.at \/ f.at > Size(ir))
  BY <1>1, <1>2, GenExpFacts
<1>4. PICK b : b = NextBlock(f)
  OBVIOUS
<1>5. /\ ir' = SetInsertPoint(
                 GenTest(CreateBlocks(f, 3), b, node.exps[2], b + 1, b + 2), b + 1)
      /\ Call(node.kids[1], Frame(node, 1, b))
      /\ UNCHANGED fixed /\ UNCHANGED stmReturns /\ depth' = depth
  BY <1>2, <1>4 DEF visitSFor
<1>6. IsHead(f, 3, b, ir')
  BY <1>1, <1>3, <1>4, <1>5, HeadFacts
<1>7. b \in Nat /\ b = Size(f) + 1 /\ Size(f) \in Nat /\ Size(f) >= Size(ir)
  BY <1>3, <1>6 DEF IsHead, Keeps
<1>8. Control'
  <2>1. node.kids[1] \in Stm \cup {NoStm} /\ 1 \in Nat /\ 1 >= 1
    BY <1>1
  <2>2. node.op # "SDecls" /\ depth' = IF node.op = "SBlock" THEN depth + 1 ELSE depth
    BY <1>1, <1>5
  <2> QED BY <1>1, <1>5, <1>7, <2>1, <2>2, CallControl
<1>9. Blocks' /\ FinalStep
  <2>1. /\ Ready(ir') /\ ir'.at > Size(ir)
        /\ b + 2 \in Size(ir) + 1 .. Size(ir')
        /\ ir'.blocks[b + 2] = <<>> /\ b + 2 # ir'.at
    BY <1>1, <1>6, <1>7 DEF IsHead
  <2>2. Keeps(ir, ir', {ir.at})
    <3>1. \A k \in 1 .. Size(ir) : k # ir.at => k \in 1 .. Size(f) /\ k # f.at
      BY <1>1, <1>3, <1>7
    <3> QED BY <1>1, <1>3, <1>6, <1>7, <3>1 DEF IsHead, Keeps
  <2>3. Pending(Frame(node, 1, b)) = {b + 2}
    BY <1>1 DEF Pending, Frame
  <2>4. NewlyReserved(Pending(Frame(node, 1, b)), ir, ir')
    BY <2>1, <2>3 DEF NewlyReserved
  <2> QED BY <1>1, <1>5, <1>7, <2>1, <2>2, <2>4, CallBlocks
<1> QED BY <1>8, <1>9 DEF IInv

(* A body that returned leaves its block alone; another one is open.       *)
LEMMA endSForInv == IInv /\ endSFor => IInv' /\ FinalStep
<1> SUFFICES ASSUME IInv, endSFor PROVE IInv' /\ FinalStep
  OBVIOUS
<1>1. /\ frames # <<>> /\ node = NoStm /\ Top.stm.op = "SFor" /\ Return
      /\ UNCHANGED fixed /\ stmReturns' = FALSE /\ depth' = depth
  BY DEF endSFor, Resuming
<1>2. /\ Top.base \in Nat /\ ShapedIR(ir) /\ Fillable(InsertBlock(ir))
      /\ Control /\ Blocks /\ Size(ir) \in Nat /\ Top.stm \in Stm
      /\ \A b \in Pending(Top) :
           b \in 1 .. Size(ir) /\ ir.blocks[b] = <<>> /\ b # ir.at
  BY <1>1, Resumed
<1>3. Pending(Top) = {Top.base + 2}
  BY <1>1 DEF Pending
<1>4. PICK f : f = IF stmReturns THEN ir
                   ELSE Emit(GenExp(ir, Top.stm.exps[3]), Br(Top.base))
  OBVIOUS
<1>5. ShapedIR(f) /\ Keeps(ir, f, {ir.at})
  <2>1. CASE stmReturns
    BY <1>2, <1>4, <2>1 DEF Keeps
  <2>2. CASE ~ stmReturns
    <3>1. Ready(ir)
      BY <1>1, <1>2, <2>2 DEF Blocks, Appendable, Ready
    <3>2. PICK g : g = GenExp(ir, Top.stm.exps[3])
      OBVIOUS
    <3>3. Ready(g) /\ Keeps(ir, g, {ir.at}) /\ (g.at = ir.at \/ g.at > Size(ir))
      BY <1>1, <1>2, <3>1, <3>2, StmParts, GenExpFacts
    <3>4. Br(Top.base) \in Inst /\ IsTerminator(Br(Top.base))
      BY <1>2, InstTypes DEF IsTerminator, Br
    <3>5. ShapedIR(f) /\ Keeps(g, f, {g.at}) /\ Size(f) = Size(g)
      BY <1>4, <2>2, <3>2, <3>3, <3>4, EmitTerminator
    <3>6. Size(g) \in Nat
      BY <3>3, SizeType DEF Ready
    <3> QED BY <1>2, <3>3, <3>5, <3>6 DEF Keeps
  <2> QED BY <2>1, <2>2
<1>6. /\ Top.base + 2 \in 1 .. Size(f) /\ f.blocks[Top.base + 2] = <<>>
      /\ ir' = SetInsertPoint(f, Top.base + 2)
  <2>1. Top.base + 2 \in 1 .. Size(ir) /\ Top.base + 2 # ir.at
    BY <1>2, <1>3
  <2>2. ir' = SetInsertPoint(f, Top.base + 2)
    BY <1>4 DEF endSFor
  <2> QED BY <1>2, <1>3, <1>5, <2>1, <2>2, SizeType DEF Keeps
<1>7. Ready(ir') /\ ir'.blocks = f.blocks /\ ir'.at = Top.base + 2 /\ Size(ir') = Size(f)
  BY <1>5, <1>6, MoveToEmpty
<1>8. Control' /\ Busy(Top')
  BY <1>1, <1>2, ReturnControl
<1>9. Keeps(ir, ir', {ir.at} \cup Pending(Top))
  BY <1>5, <1>7 DEF Keeps
<1>10. Blocks' /\ FinalStep
  BY <1>1, <1>2, <1>3, <1>7, <1>8, <1>9, ReturnBlocks DEF Ready, Fillable
<1> QED BY <1>8, <1>10 DEF IInv

(* visitSIfElse reserves a branch for each case and the merge block.       *)
LEMMA visitSIfElseInv == IInv /\ visitSIfElse => IInv' /\ FinalStep
<1> SUFFICES ASSUME IInv, visitSIfElse PROVE IInv' /\ FinalStep
  OBVIOUS
<1>1. /\ node \in Stm /\ node.op = "SIfElse" /\ Ready(ir) /\ Control /\ Blocks
      /\ node.exps[1] \in Exp /\ node.kids[1] \in Stm
  BY Entered, StmParts DEF visitSIfElse
<1>2. PICK b : b = NextBlock(ir)
  OBVIOUS
<1>3. /\ ir' = SetInsertPoint(
                 GenTest(CreateBlocks(ir, 4), b, node.exps[1], b + 1, b + 2), b + 1)
      /\ Call(node.kids[1], Frame(node, 1, b))
      /\ UNCHANGED fixed /\ UNCHANGED stmReturns /\ depth' = depth
  BY <1>2 DEF visitSIfElse
<1>4. IsHead(ir, 4, b, ir')
  BY <1>1, <1>2, <1>3, HeadFacts
<1>5. b \in Nat
  BY <1>4 DEF IsHead
<1>6. Control'
  <2>1. node.kids[1] \in Stm \cup {NoStm} /\ 1 \in Nat /\ 1 >= 1
    BY <1>1
  <2>2. node.op # "SDecls" /\ depth' = IF node.op = "SBlock" THEN depth + 1 ELSE depth
    BY <1>1, <1>3
  <2> QED BY <1>1, <1>3, <1>5, <2>1, <2>2, CallControl
<1>7. Blocks' /\ FinalStep
  <2>1. Pending(Frame(node, 1, b)) = {b + 2, b + 3}
    BY <1>1 DEF Pending, Frame
  <2>2. Ready(ir') /\ Keeps(ir, ir', {ir.at}) /\ ir'.at > Size(ir)
    BY <1>4, <1>5 DEF IsHead
  <2>3. NewlyReserved(Pending(Frame(node, 1, b)), ir, ir')
    BY <1>4, <1>5, <2>1 DEF NewlyReserved, IsHead
  <2> QED BY <1>1, <1>3, <1>5, <2>2, <2>3, CallBlocks
<1> QED BY <1>6, <1>7 DEF IInv

(* From the then branch to the else branch.                                *)
LEMMA elseSIfElseInv == IInv /\ elseSIfElse => IInv' /\ FinalStep
<1> SUFFICES ASSUME IInv, elseSIfElse PROVE IInv' /\ FinalStep
  OBVIOUS
<1>1. /\ frames # <<>> /\ node = NoStm /\ Top.stm.op = "SIfElse" /\ Top.pos = 1
      /\ ir' = SetInsertPoint(CloseBranch(ir, Top.base + 3), Top.base + 2)
      /\ frames' = Append(Pop, [Top EXCEPT !.pos = 2]) /\ node' = Top.stm.kids[2]
      /\ UNCHANGED fixed /\ UNCHANGED <<stmReturns, depth>>
  BY DEF elseSIfElse, Resuming
<1>2. /\ Top \in FrameSet /\ Top.base \in Nat /\ ShapedIR(ir)
      /\ Fillable(InsertBlock(ir)) /\ Control /\ Blocks /\ Size(ir) \in Nat
      /\ Top.stm \in Stm
      /\ \A b \in Pending(Top) :
           b \in 1 .. Size(ir) /\ ir.blocks[b] = <<>> /\ b # ir.at
  BY <1>1, Resumed
<1>3. Pending(Top) = {Top.base + 2, Top.base + 3}
  BY <1>1 DEF Pending
<1>4. PICK f : f = CloseBranch(ir, Top.base + 3)
  OBVIOUS
<1>5. ShapedIR(f) /\ Keeps(ir, f, {ir.at}) /\ Size(f) = Size(ir)
  <2>1. Top.base + 3 \in Nat
    BY <1>2
  <2> QED BY <1>2, <1>4, <2>1, CloseBranchFacts
<1>6. /\ Top.base + 2 \in 1 .. Size(f) /\ f.blocks[Top.base + 2] = <<>>
      /\ ir' = SetInsertPoint(f, Top.base + 2)
  BY <1>1, <1>2, <1>3, <1>4, <1>5 DEF Keeps
<1>7. Ready(ir') /\ ir'.blocks = f.blocks /\ ir'.at = Top.base + 2 /\ Size(ir') = Size(f)
  BY <1>5, <1>6, MoveToEmpty
<1>8. Control'
  <2>1. node' \in Stm \cup {NoStm} /\ Top.stm.op # "SDecls" /\ 2 \in Nat /\ 2 >= 1
    BY <1>1, <1>2, StmParts
  <2> QED BY <1>1, <1>2, <2>1, AdvanceControl
<1>9. PICK h : h = [Top EXCEPT !.pos = 2]
  OBVIOUS
<1>10. Pending(h) = {Top.base + 3}
  <2>1. h.stm = Top.stm /\ h.pos = 2 /\ h.base = Top.base
    BY <1>2, <1>9, FrameParts
  <2> QED BY <1>1, <2>1 DEF Pending
<1>11. Keeps(ir, ir', {ir.at} \cup (Pending(Top) \ Pending(h)))
  BY <1>5, <1>7 DEF Keeps
<1>12. Blocks' /\ FinalStep
  <2>1. /\ frames' = Append(Pop, h) /\ 2 \in Nat
        /\ Pending(h) \subseteq Pending(Top) /\ ir'.at \notin Pending(h)
        /\ ir'.at \in {ir.at} \cup Pending(Top)
    BY <1>1, <1>2, <1>3, <1>7, <1>9, <1>10
  <2> QED BY <1>1, <1>2, <1>7, <1>9, <1>11, <2>1, AdvanceBlocks
<1> QED BY <1>8, <1>12 DEF IInv

(* The end of a branch: the next one, or the merge block.                  *)
LEMMA endSIfElseInv == IInv /\ endSIfElse => IInv' /\ FinalStep
<1> SUFFICES ASSUME IInv, endSIfElse PROVE IInv' /\ FinalStep
  OBVIOUS
<1>1. /\ frames # <<>> /\ node = NoStm /\ Top.stm.op = "SIfElse" /\ Return
      /\ Top.pos = 2
      /\ ir' = SetInsertPoint(CloseBranch(ir, Top.base + 3), Top.base + 3)
      /\ UNCHANGED fixed /\ stmReturns' = stmReturns /\ depth' = depth
  BY DEF endSIfElse, Resuming
<1>2. /\ Top.base \in Nat /\ ShapedIR(ir) /\ Fillable(InsertBlock(ir))
      /\ Control /\ Blocks /\ Size(ir) \in Nat
      /\ \A b \in Pending(Top) :
           b \in 1 .. Size(ir) /\ ir.blocks[b] = <<>> /\ b # ir.at
  BY <1>1, Resumed
<1>3. Pending(Top) = {Top.base + 3}
  BY <1>1 DEF Pending
<1>4. PICK f : f = CloseBranch(ir, Top.base + 3)
  OBVIOUS
<1>5. ShapedIR(f) /\ Keeps(ir, f, {ir.at}) /\ Size(f) = Size(ir)
  <2>1. Top.base + 3 \in Nat
    BY <1>2
  <2> QED BY <1>2, <1>4, <2>1, CloseBranchFacts
<1>6. /\ Top.base + 3 \in 1 .. Size(f) /\ f.blocks[Top.base + 3] = <<>>
      /\ ir' = SetInsertPoint(f, Top.base + 3)
  BY <1>1, <1>2, <1>3, <1>4, <1>5 DEF Keeps
<1>7. Ready(ir') /\ ir'.blocks = f.blocks /\ ir'.at = Top.base + 3 /\ Size(ir') = Size(f)
  BY <1>5, <1>6, MoveToEmpty
<1>8. Control' /\ Busy(Top')
  <2>1. stmReturns' \in BOOLEAN
    BY <1>1, <1>2 DEF Control, Types
  <2> QED BY <1>1, <1>2, <2>1, ReturnControl
<1>9. Keeps(ir, ir', {ir.at} \cup Pending(Top))
  BY <1>5, <1>7 DEF Keeps
<1>10. Blocks' /\ FinalStep
  BY <1>1, <1>2, <1>3, <1>7, <1>8, <1>9, ReturnBlocks DEF Ready, Fillable
<1> QED BY <1>8, <1>10 DEF IInv

-----------------------------------------------------------------------------
(* Theorems *)

(* Nothing has been generated yet.                                         *)
LEMMA InitInv == Init => IInv
<1> SUFFICES ASSUME Init PROVE IInv
  OBVIOUS
<1>1. /\ frames = <<>> /\ node = NoStm /\ ir = EmptyFunction /\ fn = 0 /\ depth = 0
      /\ program \in Programs /\ module = <<>> /\ diagnosed = {} /\ stmReturns \in BOOLEAN
  BY DEF Init
<1>2. Scopes(frames) = {} /\ Cardinality(Scopes(frames)) = 0
  <2>1. Scopes(frames) = {}
    BY <1>1 DEF Scopes
  <2> QED BY <2>1, FS_EmptySet
<1>3. Len(program) \in Nat
  BY <1>1, StmAssumption
<1>4. Control
  BY <1>1, <1>2, <1>3 DEF Control, Types, FramesOK
<1>5. ir.blocks = << <<>> >> /\ ir.at = 1 /\ Open(<<>>) /\ <<>> \in Seq(Inst)
  BY <1>1 DEF EmptyFunction, Open
<1>6. ir \in IRs /\ Size(ir) = 1 /\ InsertBlock(ir) = <<>>
  BY <1>1, <1>5 DEF EmptyFunction, IRs, Size, InsertBlock
<1>7. Blocks
  BY <1>1, <1>5, <1>6 DEF Blocks, ShapedIR, Shaped, Fillable, Reserved
<1> QED BY <1>4, <1>7 DEF IInv

(* Every step keeps the invariant, and no step changes a block that was    *)
(* closed.                                                                 *)
LEMMA NextInv == IInv /\ [Next]_vars => IInv' /\ FinalStep
<1> SUFFICES ASSUME IInv, [Next]_vars PROVE IInv' /\ FinalStep
  OBVIOUS
<1>1. CASE Next
  BY <1>1, visitDFunInv, visitNextInv, endDFunInv, visitSBlockInv, endSBlockInv,
     visitSExpInv, visitSReturnInv, visitSReturnVInv, visitSDeclsInv, visitIdInitInv,
     endSDeclsInv, visitSWhileInv, endSWhileInv, visitSDoWhileInv, endSDoWhileInv,
     visitSForInv, endSForInv, visitSIfElseInv, elseSIfElseInv, endSIfElseInv
     DEF Next
<1>2. CASE UNCHANGED vars
  <2>1. IInv'
    BY <1>2 DEF vars, IInv, Control, Types, FramesOK, Blocks, Appendable, Top
  <2>2. FinalStep
    BY <1>2 DEF vars, FinalStep
  <2> QED BY <2>1, <2>2
<1> QED BY <1>1, <1>2

(* The strengthened invariant holds of every program and every nesting.    *)
THEOREM Invariance == Spec => []IInv
<1>1. Init => IInv
  BY InitInv
<1>2. IInv /\ [Next]_vars => IInv'
  BY NextInv
<1> QED BY <1>1, <1>2, PTL DEF Spec

(* Types: program, control stack, IR and flag keep their types, and the    *)
(* insertion point always is a block of the current function.              *)
THEOREM TypeCorrect == Spec => []TypeOK
<1>1. IInv => TypeOK
  BY DEF IInv, Control, Types, Blocks, ShapedIR, IRs, Size, TypeOK
<1> QED BY <1>1, Invariance, PTL

(* CodeGenVisitor.cpp:68, 157, 175, 210, 232, 258, 264: no statement is    *)
(* ever generated behind a terminator.                                     *)
THEOREM NoStatementBehindTerminator == Spec => []OpenAtVisit
<1>1. IInv => OpenAtVisit
  <2> SUFFICES ASSUME IInv, node # NoStm PROVE ~ HasTerminator(InsertBlock(ir))
    BY DEF OpenAtVisit
  <2>1. /\ Open(InsertBlock(ir)) /\ Fillable(InsertBlock(ir))
        /\ InsertBlock(ir) \in Seq(Inst)
    BY DEF IInv, Blocks, Appendable, ShapedIR, IRs, Size, InsertBlock
  <2> QED BY <2>1, NoTerminatorOpen
<1> QED BY <1>1, Invariance, PTL

(* CodeGenVisitor.cpp:158, 177: the back edge behind a ret is the only way *)
(* a block gets an instruction behind its terminator.                      *)
THEOREM OnlyBackEdgesOverrun == Spec => []OverrunOnlyByBackEdge
<1>1. IInv => OverrunOnlyByBackEdge
  BY SMTT(30) DEF IInv, Blocks, ShapedIR, IRs, Size, Shaped, OverrunOnlyByBackEdge
<1> QED BY <1>1, Invariance, PTL

(* begin/endCodeGenContext (CodeGenVisitor.cpp:16-24) are balanced on every *)
(* path, the breaks of the list loops included.                            *)
THEOREM ContextsBalanced == Spec => []ContextPerScope
<1>1. IInv => ContextPerScope
  BY DEF IInv, Control, Scopes, ScopeOps, ContextPerScope
<1> QED BY <1>1, Invariance, PTL

(* Merge, else and next blocks stay empty and private until the handler    *)
(* that created them moves to them.                                        *)
THEOREM ReservedBlocksUntouched == Spec => []PendingUntouched
<1>1. IInv => PendingUntouched
  <2> SUFFICES ASSUME IInv PROVE PendingUntouched
    OBVIOUS
  <2>1. Reserved(frames, ir)
    BY DEF IInv, Blocks
  <2>2. DOMAIN frames = 1 .. Len(frames) /\ DOMAIN ir.blocks = 1 .. Size(ir)
    BY DEF IInv, Control, Types, Blocks, ShapedIR, IRs, Size
  <2> QED BY ONLY <2>1, <2>2 DEF Reserved, PendingUntouched
<1> QED BY <1>1, Invariance, PTL

(* CodeGenVisitor's SetInsertPoint calls: a block with code in it that the *)
(* visitor has left is never filled, nor made the insertion point, again.  *)
THEOREM LeftBlocksAreFinal == Spec => LeftBlocksFinal
<1>1. IInv /\ [Next]_vars => [FinalStep]_vars
  BY NextInv DEF vars
<1>2. Spec => [][FinalStep]_vars
  BY <1>1, Invariance, PTL DEF Spec
<1> QED BY <1>2 DEF FinalStep, LeftBlocksFinal

-----------------------------------------------------------------------------
(* The flag stmReturns, and the functions it is enough for *)

(* What stmReturns is behind a statement, when part says so of its parts:  *)
(* a while or do keeps what its body left, an if what its else branch did. *)
Setting(op, part) ==
  CASE op \in {"SReturn", "SReturnV"} -> TRUE
    [] op = "SBlock"  -> \E i \in DOMAIN part : part[i]
    [] op = "SIfElse" -> part[2]
    [] op \in {"SWhile", "SDoWhile"} -> part[1]
    [] OTHER -> FALSE

Sets[s \in Stm] == Setting(s.op, [i \in DOMAIN s.kids |-> Sets[s.kids[i]]])

(* The statement a handler has called accept() on.                         *)
Child(f) == f.stm.kids[f.pos]

(* The position of a handler is one it can have, and a list loop has not   *)
(* gone past a statement that set stmReturns.                              *)
FrameFits(f) ==
  /\ f.stm.op \in ScopeOps =>
       f.pos <= Len(f.stm.kids) /\ \A j \in 1 .. f.pos - 1 : ~ Sets[f.stm.kids[j]]
  /\ f.stm.op \in {"SWhile", "SDoWhile", "SFor"} => f.pos = 1
  /\ f.stm.op = "SIfElse" => f.pos \in {1, 2}
  /\ f.stm.op \in ScopeOps \cup {"SDecls", "SWhile", "SDoWhile", "SFor", "SIfElse"}

(* The stack is a path down the tree, and the flag that of the statement   *)
(* that returned last.                                                     *)
IsPath(fr, nd, flag) ==
  /\ \A i \in 1 .. Len(fr) : FrameFits(fr[i])
  /\ \A i \in 2 .. Len(fr) : fr[i].stm = Child(fr[i - 1])
  /\ nd # NoStm => nd = Child(fr[Len(fr)])
  /\ nd = NoStm /\ fr # <<>> => (Busy(fr[Len(fr)]) => (flag <=> Sets[Child(fr[Len(fr)])]))

(* What visitDFun says of a function it is done with.                      *)
Said ==
  /\ frames # <<>> => fn \notin diagnosed /\ fn >= 1 /\ frames[1].stm = FunctionNode(program[fn])
  /\ Finished => (fn \in diagnosed <=> ~ stmReturns /\ program[fn].ret = "value")
  /\ Finished => \/ program[fn].body = <<>>
                 \/ stmReturns <=> \E i \in DOMAIN program[fn].body : Sets[program[fn].body[i]]

(* Of a plain function every statement on the stack is plain.              *)
PlainStm(s) == IF s.op = "DFun" THEN PlainList(s.kids) ELSE Plain[s]

PlainStack(fr, nd) ==
  /\ \A i \in 1 .. Len(fr) : PlainStm(fr[i].stm)
  /\ nd # NoStm => Plain[nd]

InPlain == frames # <<>> /\ PlainList(program[fn].body)

Walk ==
  /\ IsPath(frames, node, stmReturns)
  /\ Said
  /\ InPlain => PlainStack(frames, node)

Held(fr) == UNION {Pending(fr[i]) : i \in 1 .. Len(fr)}

Terminated == node = NoStm /\ frames # <<>> /\ Busy(Top) /\ stmReturns

(* Of a plain function only the blocks that are still to be filled are,    *)
(* and the insertion block is not when stmReturns says that it is closed.  *)
Tidy ==
  InPlain => /\ Loose(ir) \subseteq {ir.at} \cup Held(frames)
             /\ Terminated => ir.at \notin Loose(ir)

PathInv == Walk /\ Tidy /\ PlainIsVerified

-----------------------------------------------------------------------------
(* Recursion over statements *)

(* What a statement is made of.                                            *)
Parts == [s \in Stm |-> {s.kids[i] : i \in DOMAIN s.kids}]

(* The sub-statements are lower, as the parser builds a part before the    *)
(* whole.                                                                  *)
LEMMA PartsLower ==
  /\ Parts \in [Stm -> SUBSET Stm] /\ Height \in [Stm -> Nat] /\ Lower(Stm, Height, Parts)
  /\ \A s \in Stm : \A i \in DOMAIN s.kids : s.kids[i] \in Parts[s] /\ s.kids[i] \in Stm
<1>1. ASSUME NEW s \in Stm, NEW i \in DOMAIN s.kids
      PROVE  s.kids[i] \in Stm
  <2>1. s \in Statement
    BY StmAssumption
  <2>2. (\E n \in Nat : s.kids \in [1 .. n -> Stm]) \/ s.kids \in Seq(Stm) \/ s.kids = <<>>
    BY <2>1 DEF Statement, Node
  <2> QED BY <2>2
<1>2. Parts \in [Stm -> SUBSET Stm]
  BY <1>1 DEF Parts
<1>3. \A s \in Stm : \A i \in DOMAIN s.kids : s.kids[i] \in Parts[s]
  BY DEF Parts
<1>4. Lower(Stm, Height, Parts)
  BY HeightAssumption DEF Lower, Parts
<1> QED BY <1>1, <1>2, <1>3, <1>4, HeightAssumption

(* A function of statements that rule defines by its values for the parts. *)
Follows(f, rule) ==
  f = [s \in Stm |-> rule[s][[i \in DOMAIN s.kids |-> f[s.kids[i]]]]]

IsRule(rule) == \A s \in Stm : rule[s] \in [[DOMAIN s.kids -> BOOLEAN] -> BOOLEAN]

(* There is one.                                                           *)
LEMMA Recursion ==
  ASSUME NEW rule, IsRule(rule)
  PROVE  \E f \in [Stm -> BOOLEAN] : Follows(f, rule)
<1>1. PICK step : step = [s \in Stm |-> [g \in [Parts[s] -> BOOLEAN] |->
                            rule[s][[i \in DOMAIN s.kids |-> g[s.kids[i]]]]]]
  OBVIOUS
<1>2. ASSUME NEW s \in Stm, NEW g \in [Parts[s] -> BOOLEAN]
      PROVE  /\ step[s][g] = rule[s][[i \in DOMAIN s.kids |-> g[s.kids[i]]]]
             /\ step[s][g] \in BOOLEAN
  <2>1. step[s][g] = rule[s][[i \in DOMAIN s.kids |-> g[s.kids[i]]]]
    BY <1>1
  <2>2. PICK part : part = [i \in DOMAIN s.kids |-> g[s.kids[i]]]
    OBVIOUS
  <2>3. part \in [DOMAIN s.kids -> BOOLEAN]
    BY <2>2, PartsLower
  <2>4. rule[s] \in [[DOMAIN s.kids -> BOOLEAN] -> BOOLEAN]
    BY DEF IsRule
  <2>5. rule[s][part] \in BOOLEAN
    BY <2>3, <2>4
  <2> QED BY <2>1, <2>2, <2>5
<1>3. \A s \in Stm : \A g \in [Parts[s] -> BOOLEAN] : step[s][g] \in BOOLEAN
  BY <1>2
<1>4. PICK f \in [Stm -> BOOLEAN] : Computes(f, Stm, Parts, step)
  BY <1>3, PartsLower, TreeFunction
<1>5. ASSUME NEW s \in Stm
      PROVE  f[s] = rule[s][[i \in DOMAIN s.kids |-> f[s.kids[i]]]]
  <2>1. PICK g : g = [k \in Parts[s] |-> f[k]]
    OBVIOUS
  <2>2. g \in [Parts[s] -> BOOLEAN]
    BY <2>1, PartsLower
  <2>3. f[s] = step[s][g]
    BY <1>4, <2>1 DEF Computes
  <2>4. [i \in DOMAIN s.kids |-> g[s.kids[i]]] = [i \in DOMAIN s.kids |-> f[s.kids[i]]]
    BY <2>1, PartsLower
  <2> QED BY <1>2, <2>2, <2>3, <2>4
<1>6. f = [s \in Stm |-> rule[s][[i \in DOMAIN s.kids |-> f[s.kids[i]]]]]
  BY <1>4, <1>5
<1> QED BY <1>6 DEF Follows

(* What a set of statements has when it has their parts, it has of all.    *)
LEMMA StmInduction ==
  ASSUME NEW P, \A s \in Stm : (\A i \in DOMAIN s.kids : s.kids[i] \in P) => s \in P
  PROVE  Stm \subseteq P
<1>1. Hereditary(Stm, Parts, P)
  <2>1. ASSUME NEW s \in Stm, Parts[s] \subseteq P
        PROVE  s \in P
    <3>1. \A i \in DOMAIN s.kids : s.kids[i] \in P
      BY <2>1, PartsLower
    <3> QED BY <3>1
  <2> QED BY <2>1 DEF Hereditary
<1> QED BY <1>1, PartsLower, TreeInduction

(* What AlwaysReturns says of each statement.                              *)
LEMMA ReturnsOf ==
  /\ AlwaysReturns \in [Stm -> BOOLEAN]
  /\ \A s \in Stm :
       AlwaysReturns[s] = Returning(s.op, [i \in DOMAIN s.kids |-> AlwaysReturns[s.kids[i]]])
<1>1. PICK rule : rule = [s \in Stm |-> [part \in [DOMAIN s.kids -> BOOLEAN] |->
                            Returning(s.op, part)]]
  OBVIOUS
<1>2. \A s \in Stm : \A part \in [DOMAIN s.kids -> BOOLEAN] : Returning(s.op, part) \in BOOLEAN
  <2>1. ASSUME NEW s \in Stm, NEW part \in [DOMAIN s.kids -> BOOLEAN]
        PROVE  Returning(s.op, part) \in BOOLEAN
    <3>1. s.op \in {"SIfElse", "SDoWhile"} => 1 \in DOMAIN s.kids
      BY StmAssumption DEF Statement, Node
    <3> QED BY <3>1 DEF Returning
  <2> QED BY <2>1
<1>3. IsRule(rule)
  BY <1>1, <1>2 DEF IsRule
<1>4. PICK f \in [Stm -> BOOLEAN] : Follows(f, rule)
  BY <1>3, Recursion
<1>5. f = [s \in Stm |-> Returning(s.op, [i \in DOMAIN s.kids |-> f[s.kids[i]]])]
  <2>1. ASSUME NEW s \in Stm
        PROVE  rule[s][[i \in DOMAIN s.kids |-> f[s.kids[i]]]]
                 = Returning(s.op, [i \in DOMAIN s.kids |-> f[s.kids[i]]])
    <3>1. PICK part : part = [i \in DOMAIN s.kids |-> f[s.kids[i]]]
      OBVIOUS
    <3>2. part \in [DOMAIN s.kids -> BOOLEAN]
      BY <3>1, PartsLower
    <3> QED BY <1>1, <3>1, <3>2
  <2> QED BY <1>4, <2>1 DEF Follows
<1>6. AlwaysReturns = [s \in Stm |-> Returning(s.op, [i \in DOMAIN s.kids |-> AlwaysReturns[s.kids[i]]])]
  <2> DEFINE sol(F) == F = [s \in Stm |-> Returning(s.op, [i \in DOMAIN s.kids |-> F[s.kids[i]]])]
  <2>1. sol(f)
    BY <1>5
  <2>2. AlwaysReturns = CHOOSE F : sol(F)
    BY DEF AlwaysReturns
  <2> HIDE DEF sol
  <2>3. sol(AlwaysReturns)
    BY <2>1, <2>2
  <2> QED BY <2>3 DEF sol
<1>7. ASSUME NEW s \in Stm
      PROVE  AlwaysReturns[s] = Returning(s.op, [i \in DOMAIN s.kids |-> AlwaysReturns[s.kids[i]]])
  BY <1>6
<1>8. PICK P : P = {s \in Stm : AlwaysReturns[s] \in BOOLEAN}
  OBVIOUS
<1>9. ASSUME NEW s \in Stm, \A i \in DOMAIN s.kids : s.kids[i] \in P
      PROVE  s \in P
  <2>1. PICK part : part = [i \in DOMAIN s.kids |-> AlwaysReturns[s.kids[i]]]
    OBVIOUS
  <2>2. part \in [DOMAIN s.kids -> BOOLEAN]
    BY <1>8, <1>9, <2>1
  <2> QED BY <1>2, <1>7, <1>8, <2>1, <2>2
<1>10. Stm \subseteq P
  BY <1>9, StmInduction
<1>11. \A s \in Stm : AlwaysReturns[s] \in BOOLEAN
  BY <1>8, <1>10
<1>12. AlwaysReturns \in [Stm -> BOOLEAN]
  BY <1>6, <1>11
<1> QED BY <1>7, <1>12

(* What Sets says of each statement.                                       *)
LEMMA SetsOf ==
  /\ Sets \in [Stm -> BOOLEAN]
  /\ \A s \in Stm :
       Sets[s] = Setting(s.op, [i \in DOMAIN s.kids |-> Sets[s.kids[i]]])
<1>1. PICK rule : rule = [s \in Stm |-> [part \in [DOMAIN s.kids -> BOOLEAN] |->
                            Setting(s.op, part)]]
  OBVIOUS
<1>2. \A s \in Stm : \A part \in [DOMAIN s.kids -> BOOLEAN] : Setting(s.op, part) \in BOOLEAN
  <2>1. ASSUME NEW s \in Stm, NEW part \in [DOMAIN s.kids -> BOOLEAN]
        PROVE  Setting(s.op, part) \in BOOLEAN
    <3>1. s.op \in {"SIfElse", "SWhile", "SDoWhile"} => 1 \in DOMAIN s.kids
      BY StmAssumption DEF Statement, Node
    <3>2. s.op = "SIfElse" => 2 \in DOMAIN s.kids
      BY StmAssumption DEF Statement, Node
    <3> QED BY <3>1, <3>2 DEF Setting
  <2> QED BY <2>1
<1>3. IsRule(rule)
  BY <1>1, <1>2 DEF IsRule
<1>4. PICK f \in [Stm -> BOOLEAN] : Follows(f, rule)
  BY <1>3, Recursion
<1>5. f = [s \in Stm |-> Setting(s.op, [i \in DOMAIN s.kids |-> f[s.kids[i]]])]
  <2>1. ASSUME NEW s \in Stm
        PROVE  rule[s][[i \in DOMAIN s.kids |-> f[s.kids[i]]]]
                 = Setting(s.op, [i \in DOMAIN s.kids |-> f[s.kids[i]]])
    <3>1. PICK part : part = [i \in DOMAIN s.kids |-> f[s.kids[i]]]
      OBVIOUS
    <3>2. part \in [DOMAIN s.kids -> BOOLEAN]
      BY <3>1, PartsLower
    <3> QED BY <1>1, <3>1, <3>2
  <2> QED BY <1>4, <2>1 DEF Follows
<1>6. Sets = [s \in Stm |-> Setting(s.op, [i \in DOMAIN s.kids |-> Sets[s.kids[i]]])]
  <2> DEFINE sol(F) == F = [s \in Stm |-> Setting(s.op, [i \in DOMAIN s.kids |-> F[s.kids[i]]])]
  <2>1. sol(f)
    BY <1>5
  <2>2. Sets = CHOOSE F : sol(F)
    BY DEF Sets
  <2> HIDE DEF sol
  <2>3. sol(Sets)
    BY <2>1, <2>2
  <2> QED BY <2>3 DEF sol
<1>7. ASSUME NEW s \in Stm
      PROVE  Sets[s] = Setting(s.op, [i \in DOMAIN s.kids |-> Sets[s.kids[i]]])
  BY <1>6
<1>8. PICK P : P = {s \in Stm : Sets[s] \in BOOLEAN}
  OBVIOUS
<1>9. ASSUME NEW s \in Stm, \A i \in DOMAIN s.kids : s.kids[i] \in P
      PROVE  s \in P
  <2>1. PICK part : part = [i \in DOMAIN s.kids |-> Sets[s.kids[i]]]
    OBVIOUS
  <2>2. part \in [DOMAIN s.kids -> BOOLEAN]
    BY <1>8, <1>9, <2>1
  <2> QED BY <1>2, <1>7, <1>8, <2>1, <2>2
<1>10. Stm \subseteq P
  BY <1>9, StmInduction
<1>11. \A s \in Stm : Sets[s] \in BOOLEAN
  BY <1>8, <1>10
<1>12. Sets \in [Stm -> BOOLEAN]
  BY <1>6, <1>11
<1> QED BY <1>7, <1>12

(* What Plain says of each statement.                                      *)
LEMMA PlainOf ==
  /\ Plain \in [Stm -> BOOLEAN]
  /\ \A s \in Stm :
       Plain[s] = PlainIn(s, [i \in DOMAIN s.kids |-> Plain[s.kids[i]]])
<1>1. PICK rule : rule = [s \in Stm |-> [part \in [DOMAIN s.kids -> BOOLEAN] |->
                            PlainIn(s, part)]]
  OBVIOUS
<1>2. \A s \in Stm : \A part \in [DOMAIN s.kids -> BOOLEAN] : PlainIn(s, part) \in BOOLEAN
  <2>1. ASSUME NEW s \in Stm, NEW part \in [DOMAIN s.kids -> BOOLEAN]
        PROVE  PlainIn(s, part) \in BOOLEAN
    <3>1. s.op \in {"SWhile", "SDoWhile", "SFor", "SIfElse"} => 1 \in DOMAIN s.kids
      BY StmAssumption DEF Statement, Node
    <3> QED BY <3>1, ReturnsOf, PartsLower DEF PlainIn
  <2> QED BY <2>1
<1>3. IsRule(rule)
  BY <1>1, <1>2 DEF IsRule
<1>4. PICK f \in [Stm -> BOOLEAN] : Follows(f, rule)
  BY <1>3, Recursion
<1>5. f = [s \in Stm |-> PlainIn(s, [i \in DOMAIN s.kids |-> f[s.kids[i]]])]
  <2>1. ASSUME NEW s \in Stm
        PROVE  rule[s][[i \in DOMAIN s.kids |-> f[s.kids[i]]]]
                 = PlainIn(s, [i \in DOMAIN s.kids |-> f[s.kids[i]]])
    <3>1. PICK part : part = [i \in DOMAIN s.kids |-> f[s.kids[i]]]
      OBVIOUS
    <3>2. part \in [DOMAIN s.kids -> BOOLEAN]
      BY <3>1, PartsLower
    <3> QED BY <1>1, <3>1, <3>2
  <2> QED BY <1>4, <2>1 DEF Follows
<1>6. Plain = [s \in Stm |-> PlainIn(s, [i \in DOMAIN s.kids |-> Plain[s.kids[i]]])]
  <2> DEFINE sol(F) == F = [s \in Stm |-> PlainIn(s, [i \in DOMAIN s.kids |-> F[s.kids[i]]])]
  <2>1. sol(f)
    BY <1>5
  <2>2. Plain = CHOOSE F : sol(F)
    BY DEF Plain
  <2> HIDE DEF sol
  <2>3. sol(Plain)
    BY <2>1, <2>2
  <2> QED BY <2>3 DEF sol
<1>7. ASSUME NEW s \in Stm
      PROVE  Plain[s] = PlainIn(s, [i \in DOMAIN s.kids |-> Plain[s.kids[i]]])
  BY <1>6
<1>8. PICK P : P = {s \in Stm : Plain[s] \in BOOLEAN}
  OBVIOUS
<1>9. ASSUME NEW s \in Stm, \A i \in DOMAIN s.kids : s.kids[i] \in P
      PROVE  s \in P
  <2>1. PICK part : part = [i \in DOMAIN s.kids |-> Plain[s.kids[i]]]
    OBVIOUS
  <2>2. part \in [DOMAIN s.kids -> BOOLEAN]
    BY <1>8, <1>9, <2>1
  <2> QED BY <1>2, <1>7, <1>8, <2>1, <2>2
<1>10. Stm \subseteq P
  BY <1>9, StmInduction
<1>11. \A s \in Stm : Plain[s] \in BOOLEAN
  BY <1>8, <1>10
<1>12. Plain \in [Stm -> BOOLEAN]
  BY <1>6, <1>11
<1> QED BY <1>7, <1>12

(* The three of them spelled out.                                          *)
LEMMA Leaves ==
  ASSUME NEW s \in Stm
  PROVE  /\ s.op \in {"SReturn", "SReturnV"} => Sets[s]
         /\ s.op \in {"SExp", "SDecls"} => ~ Sets[s] /\ ~ AlwaysReturns[s]
<1>1. PICK part : Sets[s] = Setting(s.op, part)
  BY SetsOf
<1>2. PICK whole : AlwaysReturns[s] = Returning(s.op, whole)
  BY ReturnsOf
<1>3. s.op \in {"SReturn", "SReturnV"} => Sets[s]
  BY <1>1 DEF Setting
<1>4. s.op \in {"SExp", "SDecls"} => ~ Sets[s]
  BY <1>1 DEF Setting
<1>5. s.op \in {"SExp", "SDecls"} => ~ AlwaysReturns[s]
  BY <1>2 DEF Returning
<1> QED BY <1>3, <1>4, <1>5

(* A block is what its list is (visitSBlock).                              *)
LEMMA Lists ==
  ASSUME NEW s \in Stm, s.op = "SBlock"
  PROVE  /\ s.kids \in Seq(Stm)
         /\ AlwaysReturns[s] <=> ListReturns(s.kids)
         /\ Sets[s] <=> \E i \in DOMAIN s.kids : Sets[s.kids[i]]
         /\ Plain[s] <=> PlainList(s.kids)
<1>1. s.kids \in Seq(Stm)
  BY StmParts
<1>2. AlwaysReturns[s] <=> ListReturns(s.kids)
  <2>1. PICK part : part = [i \in DOMAIN s.kids |-> AlwaysReturns[s.kids[i]]]
    OBVIOUS
  <2>2. AlwaysReturns[s] = Returning(s.op, part)
    BY <2>1, ReturnsOf
  <2>3. AlwaysReturns[s] <=> \E i \in DOMAIN part : part[i]
    BY <2>2 DEF Returning
  <2> QED BY <2>1, <2>3 DEF ListReturns
<1>3. Sets[s] <=> \E i \in DOMAIN s.kids : Sets[s.kids[i]]
  <2>1. PICK part : part = [i \in DOMAIN s.kids |-> Sets[s.kids[i]]]
    OBVIOUS
  <2>2. Sets[s] = Setting(s.op, part)
    BY <2>1, SetsOf
  <2>3. Sets[s] <=> \E i \in DOMAIN part : part[i]
    BY <2>2 DEF Setting
  <2> QED BY <2>1, <2>3
<1>4. Plain[s] <=> PlainList(s.kids)
  <2>1. PICK part : part = [i \in DOMAIN s.kids |-> Plain[s.kids[i]]]
    OBVIOUS
  <2>2. Plain[s] = PlainIn(s, part)
    BY <2>1, PlainOf
  <2>3. Plain[s] <=> \A i \in Live(s.kids) : part[i]
    BY <2>2 DEF PlainIn
  <2> QED BY <2>1, <2>3 DEF PlainList, Live
<1> QED BY <1>1, <1>2, <1>3, <1>4

(* An if: visitSIfElse leaves the flag of the else branch.                 *)
LEMMA Branches ==
  ASSUME NEW s \in Stm, s.op = "SIfElse"
  PROVE  /\ s.kids[1] \in Stm /\ s.kids[2] \in Stm /\ DOMAIN s.kids = {1, 2}
         /\ AlwaysReturns[s] <=> AlwaysReturns[s.kids[1]] /\ AlwaysReturns[s.kids[2]]
         /\ Sets[s] <=> Sets[s.kids[2]]
         /\ Plain[s] <=> Plain[s.kids[1]] /\ Plain[s.kids[2]] /\ ~ AlwaysReturns[s.kids[2]]
<1>1. s.kids[1] \in Stm /\ s.kids[2] \in Stm /\ DOMAIN s.kids = {1, 2}
  BY StmAssumption DEF Statement, Node
<1>2. AlwaysReturns[s] <=> AlwaysReturns[s.kids[1]] /\ AlwaysReturns[s.kids[2]]
  <2>1. PICK part : part = [i \in DOMAIN s.kids |-> AlwaysReturns[s.kids[i]]]
    OBVIOUS
  <2>2. AlwaysReturns[s] = Returning(s.op, part)
    BY <2>1, ReturnsOf
  <2>3. AlwaysReturns[s] <=> part[1] /\ part[2]
    BY <2>2 DEF Returning
  <2> QED BY <1>1, <2>1, <2>3
<1>3. Sets[s] <=> Sets[s.kids[2]]
  <2>1. PICK part : part = [i \in DOMAIN s.kids |-> Sets[s.kids[i]]]
    OBVIOUS
  <2>2. Sets[s] = Setting(s.op, part)
    BY <2>1, SetsOf
  <2>3. Sets[s] = part[2]
    BY <2>2 DEF Setting
  <2> QED BY <1>1, <2>1, <2>3
<1>4. Plain[s] <=> Plain[s.kids[1]] /\ Plain[s.kids[2]] /\ ~ AlwaysReturns[s.kids[2]]
  <2>1. PICK part : part = [i \in DOMAIN s.kids |-> Plain[s.kids[i]]]
    OBVIOUS
  <2>2. Plain[s] = PlainIn(s, part)
    BY <2>1, PlainOf
  <2>3. Plain[s] <=> part[1] /\ part[2] /\ ~ AlwaysReturns[s.kids[2]]
    BY <2>2 DEF PlainIn
  <2> QED BY <1>1, <2>1, <2>3
<1> QED BY <1>1, <1>2, <1>3, <1>4

(* Loops: visitSFor resets the flag, visitSWhile and visitSDoWhile do not. *)
LEMMA Loops ==
  ASSUME NEW s \in Stm, s.op \in {"SWhile", "SDoWhile", "SFor"}
  PROVE  /\ s.kids[1] \in Stm /\ DOMAIN s.kids = {1}
         /\ AlwaysReturns[s] <=> s.op = "SDoWhile" /\ AlwaysReturns[s.kids[1]]
         /\ Sets[s] <=> s.op # "SFor" /\ Sets[s.kids[1]]
         /\ Plain[s] <=> Plain[s.kids[1]] /\ (s.op = "SFor" \/ ~ AlwaysReturns[s.kids[1]])
<1>1. s.kids[1] \in Stm /\ DOMAIN s.kids = {1}
  BY StmAssumption DEF Statement, Node
<1>2. AlwaysReturns[s] <=> s.op = "SDoWhile" /\ AlwaysReturns[s.kids[1]]
  <2>1. PICK part : part = [i \in DOMAIN s.kids |-> AlwaysReturns[s.kids[i]]]
    OBVIOUS
  <2>2. AlwaysReturns[s] = Returning(s.op, part)
    BY <2>1, ReturnsOf
  <2>3. AlwaysReturns[s] <=> s.op = "SDoWhile" /\ part[1]
    BY <2>2 DEF Returning
  <2> QED BY <1>1, <2>1, <2>3
<1>3. Sets[s] <=> s.op # "SFor" /\ Sets[s.kids[1]]
  <2>1. PICK part : part = [i \in DOMAIN s.kids |-> Sets[s.kids[i]]]
    OBVIOUS
  <2>2. Sets[s] = Setting(s.op, part)
    BY <2>1, SetsOf
  <2>3. Sets[s] <=> s.op # "SFor" /\ part[1]
    BY <2>2 DEF Setting
  <2> QED BY <1>1, <2>1, <2>3
<1>4. Plain[s] <=> Plain[s.kids[1]] /\ (s.op = "SFor" \/ ~ AlwaysReturns[s.kids[1]])
  <2>1. PICK part : part = [i \in DOMAIN s.kids |-> Plain[s.kids[i]]]
    OBVIOUS
  <2>2. Plain[s] = PlainIn(s, part)
    BY <2>1, PlainOf
  <2>3. Plain[s] <=> part[1] /\ (s.op = "SFor" \/ ~ AlwaysReturns[s.kids[1]])
    BY <2>2 DEF PlainIn
  <2> QED BY <1>1, <2>1, <2>3
<1> QED BY <1>1, <1>2, <1>3, <1>4

(* Every statement is one of these.                                        *)
LEMMA StmOps ==
  ASSUME NEW s \in Stm
  PROVE  s.op \in {"SReturn", "SReturnV", "SExp", "SDecls", "SBlock", "SIfElse",
                   "SWhile", "SDoWhile", "SFor"}
  BY StmAssumption DEF Statement, Node

(* visitDFun and visitSBlock never give a false alarm: what always returns *)
(* sets the flag.                                                          *)
LEMMA ReturnsSets == \A s \in Stm : AlwaysReturns[s] => Sets[s]
<1>1. PICK P : P = {s \in Stm : AlwaysReturns[s] => Sets[s]}
  OBVIOUS
<1>2. ASSUME NEW s \in Stm, \A i \in DOMAIN s.kids : s.kids[i] \in P
      PROVE  s \in P
  <2>1. \A i \in DOMAIN s.kids : AlwaysReturns[s.kids[i]] => Sets[s.kids[i]]
    BY <1>1, <1>2
  <2>2. CASE s.op \in {"SReturn", "SReturnV", "SExp", "SDecls"}
    BY <1>1, <2>2, Leaves
  <2>3. CASE s.op = "SBlock"
    BY <1>1, <2>1, <2>3, Lists DEF ListReturns
  <2>4. CASE s.op = "SIfElse"
    BY <1>1, <2>1, <2>4, Branches
  <2>5. CASE s.op \in {"SWhile", "SDoWhile", "SFor"}
    BY <1>1, <2>1, <2>5, Loops
  <2> QED BY <2>2, <2>3, <2>4, <2>5, StmOps
<1>3. Stm \subseteq P
  BY <1>2, StmInduction
<1> QED BY <1>1, <1>3

(* The flag of a list is that of its statements together.                  *)
LEMMA PlainListSets ==
  ASSUME NEW list \in Seq(Stm), PlainList(list),
         \A i \in DOMAIN list : Plain[list[i]] => (Sets[list[i]] <=> AlwaysReturns[list[i]])
  PROVE  (\E i \in DOMAIN list : Sets[list[i]]) <=> ListReturns(list)
<1>1. ASSUME ~ ListReturns(list)
      PROVE  \A i \in DOMAIN list : ~ Sets[list[i]]
  <2>1. \A i \in DOMAIN list : ~ AlwaysReturns[list[i]]
    BY <1>1 DEF ListReturns
  <2>2. \A i \in DOMAIN list : \A j \in 1 .. i - 1 : j \in DOMAIN list
    OBVIOUS
  <2>3. \A i \in DOMAIN list : i \in Live(list)
    BY <2>1, <2>2 DEF Live
  <2> QED BY <2>1, <2>3 DEF PlainList
<1>2. \A i \in DOMAIN list : list[i] \in Stm
  OBVIOUS
<1> QED BY <1>1, <1>2, ReturnsSets DEF ListReturns

(* Of a plain statement the flag is exact.                                 *)
LEMMA PlainSets == \A s \in Stm : Plain[s] => (Sets[s] <=> AlwaysReturns[s])
<1>1. PICK P : P = {s \in Stm : Plain[s] => (Sets[s] <=> AlwaysReturns[s])}
  OBVIOUS
<1>2. ASSUME NEW s \in Stm, \A i \in DOMAIN s.kids : s.kids[i] \in P
      PROVE  s \in P
  <2>1. \A i \in DOMAIN s.kids :
          Plain[s.kids[i]] => (Sets[s.kids[i]] <=> AlwaysReturns[s.kids[i]])
    BY <1>1, <1>2
  <2>2. CASE s.op \in {"SReturn", "SReturnV", "SExp", "SDecls"}
    <3>1. s.op \in {"SReturn", "SReturnV"} => AlwaysReturns[s]
      <4>1. PICK part : AlwaysReturns[s] = Returning(s.op, part)
        BY ReturnsOf
      <4> QED BY <4>1 DEF Returning
    <3> QED BY <1>1, <2>2, <3>1, Leaves
  <2>3. CASE s.op = "SBlock"
    BY <1>1, <2>1, <2>3, Lists, PlainListSets
  <2>4. CASE s.op = "SIfElse"
    BY <1>1, <2>1, <2>4, Branches
  <2>5. CASE s.op \in {"SWhile", "SDoWhile", "SFor"}
    BY <1>1, <2>1, <2>5, Loops
  <2> QED BY <2>2, <2>3, <2>4, <2>5, StmOps
<1>3. Stm \subseteq P
  BY <1>2, StmInduction
<1> QED BY <1>1, <1>3

-----------------------------------------------------------------------------
(* The path down the tree *)

(* A handler calls accept() on its child s, or enters its own loop.        *)
LEMMA PathCall ==
  ASSUME NEW fr \in Seq(FrameSet), fr # <<>>, NEW nd \in Stm, NEW flag, IsPath(fr, nd, flag),
         NEW f \in FrameSet, f.stm = nd, FrameFits(f),
         NEW s, (s = NoStm /\ ~ Busy(f)) \/ (s \in Stm /\ s = Child(f)),
         NEW new, new = Append(fr, f), NEW flag2
  PROVE  /\ IsPath(new, s, flag2)
         /\ PlainStack(fr, nd) => \A i \in 1 .. Len(new) : PlainStm(new[i].stm)
<1>1. PICK n \in Nat : n = Len(fr)
  OBVIOUS
<1>2. /\ Len(new) = n + 1 /\ new[n + 1] = f /\ n >= 1 /\ new # <<>>
      /\ \A i \in 1 .. n : new[i] = fr[i]
      /\ \A i \in 1 .. n + 1 : i \in 1 .. n \/ i = n + 1
      /\ \A i \in 2 .. n + 1 : i - 1 \in 1 .. n /\ (i \in 2 .. n \/ i = n + 1)
  BY <1>1, EmptySeq
<1>3. nd # NoStm /\ nd.op # "DFun"
  BY StmParts
<1>4. \A i \in 1 .. n + 1 : FrameFits(new[i])
  BY <1>1, <1>2 DEF IsPath
<1>5. nd = Child(fr[n])
  BY <1>1, <1>3 DEF IsPath
<1>6. \A i \in 2 .. n + 1 : new[i].stm = Child(new[i - 1])
  <2>1. ASSUME NEW i \in 2 .. n + 1
        PROVE  new[i].stm = Child(new[i - 1])
    <3>1. new[i - 1] = fr[i - 1]
      BY <1>2
    <3>2. CASE i = n + 1
      BY <1>2, <1>5, <3>1, <3>2
    <3>3. CASE i \in 2 .. n
      <4>1. new[i] = fr[i]
        BY <1>2, <3>3
      <4> QED BY <1>1, <3>1, <3>3, <4>1 DEF IsPath
    <3> QED BY <1>2, <3>2, <3>3
  <2> QED BY <2>1
<1>7. IsPath(new, s, flag2)
  <2>1. s = NoStm => ~ Busy(new[n + 1])
    BY <1>2, StmParts
  <2>2. s # NoStm => s = Child(new[n + 1])
    BY <1>2
  <2> QED BY <1>2, <1>4, <1>6, <2>1, <2>2 DEF IsPath
<1>8. ASSUME PlainStack(fr, nd)
      PROVE  \A i \in 1 .. n + 1 : PlainStm(new[i].stm)
  <2>1. Plain[nd] /\ \A i \in 1 .. n : PlainStm(fr[i].stm)
    BY <1>1, <1>3, <1>8 DEF PlainStack
  <2>2. PlainStm(f.stm)
    BY <1>3, <2>1 DEF PlainStm
  <2> QED BY <1>2, <2>1, <2>2
<1> QED BY <1>2, <1>7, <1>8

(* A statement without sub-statements was visited.                         *)
LEMMA PathLeaf ==
  ASSUME NEW fr, fr # <<>>, NEW nd \in Stm, NEW flag, IsPath(fr, nd, flag),
         NEW flag2, flag2 <=> Sets[nd]
  PROVE  /\ IsPath(fr, NoStm, flag2)
         /\ PlainStack(fr, nd) => PlainStack(fr, NoStm)
<1>1. nd = Child(fr[Len(fr)])
  BY StmParts DEF IsPath
<1> QED BY <1>1 DEF IsPath, PlainStack

(* A handler of a statement returns.                                       *)
LEMMA PathReturn ==
  ASSUME NEW fr \in Seq(FrameSet), fr # <<>>, NEW flag, IsPath(fr, NoStm, flag),
         NEW flag2, flag2 <=> Sets[fr[Len(fr)].stm],
         NEW new, new = SubSeq(fr, 1, Len(fr) - 1)
  PROVE  /\ IsPath(new, NoStm, flag2)
         /\ PlainStack(fr, NoStm) => PlainStack(new, NoStm)
<1>1. PICK n \in Nat : n = Len(fr)
  OBVIOUS
<1>2. /\ new \in Seq(FrameSet) /\ Len(new) = n - 1 /\ n >= 1
      /\ \A i \in 1 .. n - 1 : new[i] = fr[i] /\ i \in 1 .. n
      /\ \A i \in 2 .. n - 1 : i - 1 \in 1 .. n - 1 /\ i \in 1 .. n - 1 /\ i \in 2 .. n
  BY <1>1, FrontFacts
<1>3. ASSUME new # <<>>
      PROVE  flag2 <=> Sets[Child(new[n - 1])]
  <2>1. n - 1 >= 1 /\ n - 1 \in 1 .. n - 1 /\ n \in 2 .. n
    BY <1>2, <1>3, EmptySeq
  <2>2. fr[n].stm = Child(fr[n - 1])
    BY <1>1, <2>1 DEF IsPath
  <2> QED BY <1>1, <1>2, <2>1, <2>2
<1>4. \A i \in 2 .. n - 1 : new[i].stm = Child(new[i - 1])
  BY <1>1, <1>2 DEF IsPath
<1>5. \A i \in 1 .. n - 1 : FrameFits(new[i])
  BY <1>1, <1>2 DEF IsPath
<1>6. IsPath(new, NoStm, flag2)
  BY <1>2, <1>3, <1>4, <1>5 DEF IsPath
<1>7. PlainStack(fr, NoStm) => PlainStack(new, NoStm)
  BY <1>1, <1>2 DEF PlainStack
<1> QED BY <1>6, <1>7

(* A handler goes on, to its next child s or its next round.               *)
LEMMA PathAdvance ==
  ASSUME NEW fr \in Seq(FrameSet), fr # <<>>, NEW flag, IsPath(fr, NoStm, flag),
         NEW n \in Nat, NEW f, f = [fr[Len(fr)] EXCEPT !.pos = n], FrameFits(f),
         NEW s, (s = NoStm /\ ~ Busy(f)) \/ (s \in Stm /\ s = Child(f)),
         NEW front, front = SubSeq(fr, 1, Len(fr) - 1),
         NEW new, new = Append(front, f), NEW flag2
  PROVE  /\ IsPath(new, s, flag2)
         /\ PlainStack(fr, NoStm) => \A i \in 1 .. Len(new) : PlainStm(new[i].stm)
<1>1. PICK m \in Nat : m = Len(fr)
  OBVIOUS
<1>2. IsAdvance(fr, f, n, new)
  <2>1. fr \in Seq(FrameSet) /\ fr # <<>> /\ n \in Nat
    OBVIOUS
  <2>2. new = Append(SubSeq(fr, 1, Len(fr) - 1), f) /\ f = [fr[Len(fr)] EXCEPT !.pos = n]
    OBVIOUS
  <2> QED BY ONLY <2>1, <2>2, Advanced
<1>3. /\ Len(new) = m /\ m >= 1 /\ new[m] = f /\ f.stm = fr[m].stm /\ new # <<>>
      /\ \A i \in 1 .. m - 1 : new[i] = fr[i]
      /\ \A i \in 1 .. m : i \in 1 .. m - 1 \/ i = m
      /\ \A i \in 2 .. m : i - 1 \in 1 .. m - 1 /\ i \in 1 .. m
  BY <1>1, <1>2, EmptySeq DEF IsAdvance
<1>4. \A i \in 1 .. m : FrameFits(new[i])
  BY <1>1, <1>3 DEF IsPath
<1>5. \A i \in 1 .. m : new[i].stm = fr[i].stm
  BY <1>3
<1>6. \A i \in 2 .. m : new[i].stm = Child(new[i - 1])
  BY <1>1, <1>3, <1>5 DEF IsPath
<1>7. IsPath(new, s, flag2)
  <2>1. s = NoStm => ~ Busy(new[m])
    BY <1>3, StmParts
  <2>2. s # NoStm => s = Child(new[m])
    BY <1>3
  <2> QED BY <1>3, <1>4, <1>6, <2>1, <2>2 DEF IsPath
<1>8. PlainStack(fr, NoStm) => \A i \in 1 .. m : PlainStm(new[i].stm)
  BY <1>1, <1>5 DEF PlainStack
<1> QED BY <1>3, <1>7, <1>8

-----------------------------------------------------------------------------
(* Within a function *)

(* What is said of a function does not change while it is generated.       *)
LEMMA SaidKept ==
  ASSUME Said, frames # <<>>, frames' # <<>>, UNCHANGED fixed, frames'[1].stm = frames[1].stm
  PROVE  Said' /\ (InPlain' => InPlain)
  BY DEF Said, fixed, Finished, InPlain

(* The bottom of the stack stays while there is something above it.        *)
LEMMA BottomStays ==
  ASSUME NEW fr \in Seq(FrameSet), fr # <<>>, NEW f
  PROVE  /\ Append(fr, f) # <<>> /\ Append(fr, f)[1] = fr[1]
         /\ \A new : new = SubSeq(fr, 1, Len(fr) - 1) /\ new # <<>> => new[1] = fr[1]
<1>1. Len(fr) \in Nat /\ Len(fr) >= 1
  BY EmptySeq
<1>2. ASSUME NEW new, new = SubSeq(fr, 1, Len(fr) - 1), new # <<>>
      PROVE  new[1] = fr[1]
  <2>1. new \in Seq(FrameSet) /\ Len(new) = Len(fr) - 1 /\ \A i \in 1 .. Len(new) : new[i] = fr[i]
    BY <1>2, FrontFacts
  <2>2. Len(new) >= 1
    BY <1>2, <2>1, EmptySeq
  <2> QED BY <1>1, <2>1, <2>2
<1> QED BY <1>1, <1>2

(* The four ways control moves on the stack keep the path: accept() on a   *)
(* child,                                                                  *)
LEMMA CallWalk ==
  ASSUME IInv, Walk, node \in Stm, UNCHANGED fixed,
         NEW f, f \in FrameSet, f.stm = node, FrameFits(f), NEW s, Call(s, f),
         (s = NoStm /\ ~ Busy(f)) \/ (s \in Stm /\ s = Child(f)),
         Plain[node] /\ s # NoStm => Plain[s]
  PROVE  Walk' /\ (InPlain' => InPlain)
<1>1. /\ frames \in Seq(FrameSet) /\ frames # <<>> /\ node # NoStm
      /\ frames' = Append(frames, f) /\ node' = s
  BY StmParts DEF IInv, Control, Types, FramesOK, Call
<1>2. frames' # <<>> /\ frames'[1] = frames[1]
  BY <1>1, BottomStays
<1>3. Said' /\ (InPlain' => InPlain)
  BY <1>1, <1>2, SaidKept DEF Walk
<1>4. PICK fr, nd : fr = frames /\ nd = node
  OBVIOUS
<1>5. /\ IsPath(frames', s, stmReturns')
      /\ PlainStack(frames, node) => \A i \in 1 .. Len(frames') : PlainStm(frames'[i].stm)
  <2>1. /\ IsPath(fr, nd, stmReturns) /\ fr \in Seq(FrameSet) /\ fr # <<>> /\ nd \in Stm
        /\ frames' = Append(fr, f) /\ f \in FrameSet /\ f.stm = nd /\ FrameFits(f)
        /\ (s = NoStm /\ ~ Busy(f)) \/ (s \in Stm /\ s = Child(f))
    BY <1>1, <1>4 DEF Walk
  <2>2. PICK new, fl, fl2 : new = frames' /\ fl = stmReturns /\ fl2 = stmReturns'
    OBVIOUS
  <2>3. /\ IsPath(fr, nd, fl) /\ fr \in Seq(FrameSet) /\ fr # <<>> /\ nd \in Stm
        /\ new = Append(fr, f) /\ f \in FrameSet /\ f.stm = nd /\ FrameFits(f)
        /\ (s = NoStm /\ ~ Busy(f)) \/ (s \in Stm /\ s = Child(f))
    BY <2>1, <2>2
  <2>4. /\ IsPath(new, s, fl2)
        /\ PlainStack(fr, nd) => \A i \in 1 .. Len(new) : PlainStm(new[i].stm)
    BY ONLY <2>3, PathCall
  <2> QED BY <1>4, <2>2, <2>4
<1>6. InPlain' => PlainStack(frames', node')
  BY <1>1, <1>3, <1>5 DEF Walk, PlainStack
<1> QED BY <1>1, <1>3, <1>5, <1>6 DEF Walk

(* a handler without children,                                             *)
LEMMA LeafWalk ==
  ASSUME IInv, Walk, node \in Stm, UNCHANGED fixed, Leaf, stmReturns' <=> Sets[node]
  PROVE  Walk' /\ (InPlain' => InPlain)
<1>1. frames # <<>> /\ frames' = frames /\ node' = NoStm /\ node # NoStm
  BY StmParts DEF IInv, Control, FramesOK, Leaf
<1>2. Said' /\ (InPlain' => InPlain)
  BY <1>1, SaidKept DEF Walk
<1>3. PICK nd : nd = node
  OBVIOUS
<1>4. /\ IsPath(frames, NoStm, stmReturns')
      /\ PlainStack(frames, nd) => PlainStack(frames, NoStm)
  <2>1. IsPath(frames, nd, stmReturns) /\ nd \in Stm /\ (stmReturns' <=> Sets[nd])
    BY <1>3 DEF Walk
  <2> QED BY <1>1, <2>1, PathLeaf
<1> QED BY <1>1, <1>2, <1>3, <1>4 DEF Walk

(* a handler that returns,                                                 *)
LEMMA ReturnWalk ==
  ASSUME IInv, Walk, frames # <<>>, node = NoStm, frames' # <<>>, UNCHANGED fixed, Return,
         stmReturns' <=> Sets[Top.stm]
  PROVE  Walk' /\ (InPlain' => InPlain)
<1>1. /\ frames \in Seq(FrameSet) /\ frames' = SubSeq(frames, 1, Len(frames) - 1)
      /\ node' = NoStm /\ Top = frames[Len(frames)]
  BY DEF IInv, Control, Types, Return, Pop, Top
<1>2. frames'[1] = frames[1]
  BY <1>1, BottomStays
<1>3. Said' /\ (InPlain' => InPlain)
  BY <1>2, SaidKept DEF Walk
<1>4. PICK fr : fr = frames
  OBVIOUS
<1>5. /\ IsPath(frames', NoStm, stmReturns')
      /\ PlainStack(fr, NoStm) => PlainStack(frames', NoStm)
  <2>1. /\ IsPath(fr, NoStm, stmReturns) /\ fr \in Seq(FrameSet) /\ fr # <<>>
        /\ (stmReturns' <=> Sets[fr[Len(fr)].stm]) /\ frames' = SubSeq(fr, 1, Len(fr) - 1)
    BY <1>1, <1>4 DEF Walk
  <2> QED BY <2>1, PathReturn
<1> QED BY <1>1, <1>3, <1>4, <1>5 DEF Walk

(* a handler that goes on to its next child or round.                      *)
LEMMA AdvanceWalk ==
  ASSUME IInv, Walk, frames # <<>>, node = NoStm, UNCHANGED fixed, NEW n \in Nat,
         NEW f, f = [Top EXCEPT !.pos = n], frames' = Append(Pop, f), FrameFits(f),
         (node' = NoStm /\ ~ Busy(f)) \/ (node' \in Stm /\ node' = Child(f)),
         PlainStm(Top.stm) /\ node' # NoStm => Plain[node']
  PROVE  Walk' /\ (InPlain' => InPlain)
<1>1. /\ frames \in Seq(FrameSet) /\ Top = frames[Len(frames)]
      /\ Pop = SubSeq(frames, 1, Len(frames) - 1)
  BY DEF IInv, Control, Types, Top, Pop
<1>2. PICK fr : fr = frames
  OBVIOUS
<1>3. IsAdvance(fr, f, n, frames')
  <2>1. /\ fr \in Seq(FrameSet) /\ fr # <<>> /\ f = [fr[Len(fr)] EXCEPT !.pos = n]
        /\ frames' = Append(SubSeq(fr, 1, Len(fr) - 1), f)
    BY <1>1, <1>2
  <2> QED BY ONLY n \in Nat, <2>1, Advanced
<1>4. Len(fr) \in Nat /\ Len(fr) >= 1
  BY <1>1, <1>2, EmptySeq
<1>5. frames' # <<>> /\ frames'[1].stm = frames[1].stm
  <2>0. PICK k \in Nat : k = Len(fr)
    BY <1>4
  <2>1. Len(fr) = 1 \/ 1 \in 1 .. Len(fr) - 1
    BY <1>4, <2>0
  <2> QED BY <1>2, <1>3, <1>4, <2>1 DEF IsAdvance
<1>6. Said' /\ (InPlain' => InPlain)
  BY <1>5, SaidKept DEF Walk
<1>7. PICK front, s : front = SubSeq(fr, 1, Len(fr) - 1) /\ s = node'
  OBVIOUS
<1>8. /\ IsPath(frames', s, stmReturns')
      /\ PlainStack(fr, NoStm) => \A i \in 1 .. Len(frames') : PlainStm(frames'[i].stm)
  <2>1. /\ IsPath(fr, NoStm, stmReturns) /\ fr \in Seq(FrameSet) /\ fr # <<>>
        /\ f = [fr[Len(fr)] EXCEPT !.pos = n] /\ FrameFits(f)
        /\ (s = NoStm /\ ~ Busy(f)) \/ (s \in Stm /\ s = Child(f))
        /\ front = SubSeq(fr, 1, Len(fr) - 1) /\ frames' = Append(front, f)
    BY <1>1, <1>2, <1>7 DEF Walk
  <2> QED BY ONLY n \in Nat, <2>1, PathAdvance
<1>9. PlainStack(fr, NoStm) => PlainStm(Top.stm)
  BY <1>1, <1>2, <1>4 DEF PlainStack
<1> QED BY <1>2, <1>6, <1>7, <1>8, <1>9 DEF Walk, PlainStack

(* The handler that has control again: its position fits, and stmReturns   *)
(* is what its child left.                                                 *)
LEMMA Back ==
  ASSUME IInv, Walk, frames # <<>>, node = NoStm
  PROVE  /\ Top \in FrameSet /\ FrameFits(Top) /\ Top.pos \in Nat
         /\ Top.stm.op # "DFun" => Top.stm \in Stm
         /\ Top.stm.op \in ScopeOps => Top.stm.kids \in Seq(Stm)
         /\ Busy(Top) => (stmReturns <=> Sets[Child(Top)])
         /\ InPlain => PlainStm(Top.stm)
<1>1. /\ frames \in Seq(FrameSet) /\ Len(frames) \in Nat /\ Len(frames) >= 1
      /\ Top = frames[Len(frames)]
  BY EmptySeq DEF IInv, Control, Types, Top
<1>2. Len(frames) \in 1 .. Len(frames)
  BY <1>1
<1>3. Top \in FrameSet
  BY <1>1
<1>4. FrameFits(Top)
  BY <1>1, <1>2 DEF Walk, IsPath
<1>5. Busy(Top) => (stmReturns <=> Sets[Child(Top)])
  BY <1>1, <1>2 DEF Walk, IsPath
<1>6. InPlain => PlainStm(Top.stm)
  BY <1>1, <1>2 DEF Walk, PlainStack
<1> QED BY <1>3, <1>4, <1>5, <1>6, FrameParts

(* The loops over lists: none of the statements they passed set the flag.  *)
LEMMA PassedNone ==
  ASSUME IInv, Walk, frames # <<>>, node = NoStm, Top.stm.op \in ScopeOps, ~ Broken
  PROVE  \A j \in 1 .. Top.pos : j \in DOMAIN Top.stm.kids /\ ~ Sets[Top.stm.kids[j]]
<1>1. /\ Top.pos \in Nat /\ Top.pos <= Len(Top.stm.kids) /\ Top.stm.kids \in Seq(Stm)
      /\ \A j \in 1 .. Top.pos - 1 : ~ Sets[Top.stm.kids[j]]
  BY Back DEF FrameFits
<1>2. Top.pos >= 1 => ~ Sets[Top.stm.kids[Top.pos]]
  BY <1>1, Back DEF Broken, Busy, ScopeOps, Child
<1>3. \A j \in 1 .. Top.pos : j \in 1 .. Top.pos - 1 \/ j = Top.pos
  BY <1>1
<1> QED BY <1>1, <1>2, <1>3

(* The list loops go on only behind a statement that cleared the flag, so  *)
(* the next one is still live.                                             *)
LEMMA visitNextWalk == IInv /\ Walk /\ visitNext => Walk' /\ (InPlain' => InPlain)
<1> SUFFICES ASSUME IInv, Walk, visitNext PROVE Walk' /\ (InPlain' => InPlain)
  OBVIOUS
<1>1. /\ frames # <<>> /\ node = NoStm /\ Top.stm.op \in ScopeOps /\ ~ Broken
      /\ Top.pos < Len(Top.stm.kids) /\ node' = Top.stm.kids[Top.pos + 1]
      /\ frames' = Append(Pop, [Top EXCEPT !.pos = Top.pos + 1])
      /\ UNCHANGED fixed
  BY DEF visitNext, InList, ScopeOps
<1>2. /\ Top \in FrameSet /\ FrameFits(Top) /\ Top.pos \in Nat /\ Top.stm.kids \in Seq(Stm)
      /\ Top.stm.op # "DFun" => Top.stm \in Stm
  BY <1>1, Back
<1>3. \A j \in 1 .. Top.pos : j \in DOMAIN Top.stm.kids /\ ~ Sets[Top.stm.kids[j]]
  BY <1>1, PassedNone
<1>4. PICK f : f = [Top EXCEPT !.pos = Top.pos + 1]
  OBVIOUS
<1>5. f.stm = Top.stm /\ f.pos = Top.pos + 1 /\ Top.pos + 1 \in Nat
  BY <1>2, <1>4, FrameParts
<1>6. FrameFits(f)
  BY <1>1, <1>2, <1>3, <1>5 DEF FrameFits, ScopeOps
<1>7. node' \in Stm /\ node' = Child(f)
  BY <1>1, <1>2, <1>5 DEF Child
<1>8. ASSUME PlainStm(Top.stm)
      PROVE  Plain[node']
  <2>1. PlainList(Top.stm.kids)
    <3>1. CASE Top.stm.op = "DFun"
      BY <1>8, <3>1 DEF PlainStm
    <3>2. CASE Top.stm.op = "SBlock"
      BY <1>2, <1>8, <3>2, Lists DEF PlainStm
    <3> QED BY <1>1, <3>1, <3>2 DEF ScopeOps
  <2>2. \A j \in 1 .. Top.pos : ~ AlwaysReturns[Top.stm.kids[j]]
    BY <1>2, <1>3, ReturnsSets
  <2>3. Top.pos + 1 \in Live(Top.stm.kids)
    BY <1>1, <1>2, <2>2 DEF Live
  <2> QED BY <1>1, <2>1, <2>3 DEF PlainList
<1> QED BY <1>1, <1>4, <1>5, <1>6, <1>7, <1>8, AdvanceWalk

(* A block is entered, at the start of its list.                           *)
LEMMA visitSBlockWalk == IInv /\ Walk /\ visitSBlock => Walk' /\ (InPlain' => InPlain)
<1> SUFFICES ASSUME IInv, Walk, visitSBlock PROVE Walk' /\ (InPlain' => InPlain)
  OBVIOUS
<1>1. node \in Stm /\ node.op = "SBlock"
  BY Entered DEF visitSBlock
<1>2. PICK f : f = Frame(node, 0, 0)
  OBVIOUS
<1>3. f \in FrameSet /\ f.stm = node /\ f.pos = 0
  BY <1>1, <1>2 DEF Frame, FrameSet
<1>4. FrameFits(f) /\ ~ Busy(f)
  BY <1>1, <1>3, StmParts DEF FrameFits, ScopeOps, Busy
<1>5. Call(NoStm, f) /\ UNCHANGED fixed
  BY <1>2 DEF visitSBlock
<1> QED BY <1>1, <1>3, <1>4, <1>5, CallWalk

(* A declaration is entered, at its first identifier.                      *)
LEMMA visitSDeclsWalk == IInv /\ Walk /\ visitSDecls => Walk' /\ (InPlain' => InPlain)
<1> SUFFICES ASSUME IInv, Walk, visitSDecls PROVE Walk' /\ (InPlain' => InPlain)
  OBVIOUS
<1>1. node \in Stm /\ node.op = "SDecls"
  BY Entered DEF visitSDecls
<1>2. PICK f : f = Frame(node, 0, 0)
  OBVIOUS
<1>3. f \in FrameSet /\ f.stm = node /\ f.pos = 0
  BY <1>1, <1>2 DEF Frame, FrameSet
<1>4. FrameFits(f) /\ ~ Busy(f)
  BY <1>1, <1>3 DEF FrameFits, ScopeOps, Busy
<1>5. Call(NoStm, f) /\ UNCHANGED fixed
  BY <1>2 DEF visitSDecls
<1> QED BY <1>1, <1>3, <1>4, <1>5, CallWalk

(* One initialiser of a declaration is done.                               *)
LEMMA visitIdInitWalk == IInv /\ Walk /\ visitIdInit => Walk' /\ (InPlain' => InPlain)
<1> SUFFICES ASSUME IInv, Walk, visitIdInit PROVE Walk' /\ (InPlain' => InPlain)
  OBVIOUS
<1>1. /\ frames # <<>> /\ node = NoStm /\ Top.stm.op = "SDecls"
      /\ frames' = Append(Pop, [Top EXCEPT !.pos = Top.pos + 1])
      /\ UNCHANGED fixed /\ node' = NoStm
  BY DEF visitIdInit, InDecls
<1>2. Top \in FrameSet /\ FrameFits(Top) /\ Top.pos \in Nat
  BY <1>1, Back
<1>3. PICK f : f = [Top EXCEPT !.pos = Top.pos + 1]
  OBVIOUS
<1>4. f.stm = Top.stm /\ f.pos = Top.pos + 1 /\ Top.pos + 1 \in Nat
  BY <1>2, <1>3, FrameParts
<1>5. FrameFits(f) /\ ~ Busy(f)
  BY <1>1, <1>4 DEF FrameFits, ScopeOps, Busy
<1> QED BY <1>1, <1>3, <1>4, <1>5, AdvanceWalk

(* A leaf sets the flag as it says.                                        *)
LEMMA LeavesWalk ==
  IInv /\ Walk /\ (visitSExp \/ visitSReturn \/ visitSReturnV) => Walk' /\ (InPlain' => InPlain)
<1> SUFFICES ASSUME IInv, Walk, visitSExp \/ visitSReturn \/ visitSReturnV
             PROVE  Walk' /\ (InPlain' => InPlain)
  OBVIOUS
<1>1. CASE visitSExp
  <2>1. node \in Stm /\ node.op = "SExp" /\ Leaf /\ UNCHANGED fixed /\ stmReturns' = FALSE
    BY <1>1, Entered DEF visitSExp
  <2>2. stmReturns' <=> Sets[node]
    BY <2>1, Leaves
  <2> QED BY <2>1, <2>2, LeafWalk
<1>2. CASE visitSReturn
  <2>1. node \in Stm /\ node.op = "SReturn" /\ Leaf /\ UNCHANGED fixed /\ stmReturns' = TRUE
    BY <1>2, Entered DEF visitSReturn
  <2>2. stmReturns' <=> Sets[node]
    BY <2>1, Leaves
  <2> QED BY <2>1, <2>2, LeafWalk
<1>3. CASE visitSReturnV
  <2>1. node \in Stm /\ node.op = "SReturnV" /\ Leaf /\ UNCHANGED fixed /\ stmReturns' = TRUE
    BY <1>3, Entered DEF visitSReturnV
  <2>2. stmReturns' <=> Sets[node]
    BY <2>1, Leaves
  <2> QED BY <2>1, <2>2, LeafWalk
<1> QED BY <1>1, <1>2, <1>3

(* The ends of handlers that leave stmReturns to be what it should be.     *)
LEMMA endSBlockWalk == IInv /\ Walk /\ endSBlock => Walk' /\ (InPlain' => InPlain)
<1> SUFFICES ASSUME IInv, Walk, endSBlock PROVE Walk' /\ (InPlain' => InPlain)
  OBVIOUS
<1>1. /\ frames # <<>> /\ node = NoStm /\ Top.stm.op = "SBlock" /\ UNCHANGED fixed /\ Return
      /\ Broken \/ Top.pos = Len(Top.stm.kids)
      /\ stmReturns' = Broken /\ depth' = depth - 1
  BY DEF endSBlock, ListDone, InList
<1>2. /\ Top.stm \in Stm /\ Top.stm.kids \in Seq(Stm) /\ Top.pos \in Nat
      /\ Top.pos <= Len(Top.stm.kids) /\ FrameFits(Top)
      /\ Busy(Top) => (stmReturns <=> Sets[Child(Top)])
  BY <1>1, Back DEF ScopeOps, FrameFits
<1>3. Broken \in BOOLEAN
  BY DEF Broken
<1>4. Broken <=> Sets[Top.stm]
  <2>1. CASE Broken
    <3>1. Top.pos \in DOMAIN Top.stm.kids /\ Sets[Top.stm.kids[Top.pos]]
      BY <1>1, <1>2, <2>1 DEF Broken, Busy, Child
    <3> QED BY <1>1, <1>2, <2>1, <3>1, Lists
  <2>2. CASE ~ Broken
    <3>1. \A j \in 1 .. Top.pos : ~ Sets[Top.stm.kids[j]]
      BY <1>1, <2>2, PassedNone DEF ScopeOps
    <3> QED BY <1>1, <1>2, <2>2, <3>1, Lists
  <2> QED BY <2>1, <2>2
<1>5. frames' # <<>>
  BY <1>1, <1>3, ReturnControl DEF IInv
<1> QED BY <1>1, <1>4, <1>5, ReturnWalk

(* A declaration and a for clear the flag; the other handlers keep it.     *)
LEMMA EndsWalk ==
  IInv /\ Walk /\ (endSDecls \/ endSWhile \/ endSDoWhile \/ endSFor \/ endSIfElse)
    => Walk' /\ (InPlain' => InPlain)
<1> SUFFICES ASSUME IInv, Walk, endSDecls \/ endSWhile \/ endSDoWhile \/ endSFor \/ endSIfElse
             PROVE  Walk' /\ (InPlain' => InPlain)
  OBVIOUS
<1>1. /\ frames # <<>> /\ node = NoStm /\ UNCHANGED fixed /\ Return /\ UNCHANGED depth
      /\ Top.stm.op \in {"SDecls", "SWhile", "SDoWhile", "SFor", "SIfElse"}
      /\ stmReturns' = IF Top.stm.op \in {"SDecls", "SFor"} THEN FALSE ELSE stmReturns
      /\ Top.stm.op = "SIfElse" => Top.pos = 2
  BY DEF endSDecls, InDecls, endSWhile, endSDoWhile, endSFor, endSIfElse, Resuming
<1>2. /\ Top.stm \in Stm /\ FrameFits(Top) /\ Top.pos \in Nat
      /\ Busy(Top) => (stmReturns <=> Sets[Child(Top)])
  BY <1>1, Back
<1>3. stmReturns' <=> Sets[Top.stm]
  <2>1. CASE Top.stm.op = "SDecls"
    BY <1>1, <1>2, <2>1, Leaves
  <2>2. CASE Top.stm.op \in {"SWhile", "SDoWhile", "SFor"}
    BY <1>1, <1>2, <2>2, Loops DEF FrameFits, Busy, Child
  <2>3. CASE Top.stm.op = "SIfElse"
    BY <1>1, <1>2, <2>3, Branches DEF Busy, Child
  <2> QED BY <1>1, <2>1, <2>2, <2>3
<1>4. stmReturns' \in BOOLEAN
  BY <1>1 DEF IInv, Control, Types
<1>5. frames' # <<>>
  BY <1>1, <1>4, ReturnControl DEF IInv
<1> QED BY <1>1, <1>3, <1>5, ReturnWalk

(* The heads of loops and ifs call accept() on the first child.            *)
LEMMA HeadsWalk ==
  IInv /\ Walk /\ (visitSWhile \/ visitSDoWhile \/ visitSFor \/ visitSIfElse)
    => Walk' /\ (InPlain' => InPlain)
<1> SUFFICES ASSUME IInv, Walk, visitSWhile \/ visitSDoWhile \/ visitSFor \/ visitSIfElse
             PROVE  Walk' /\ (InPlain' => InPlain)
  OBVIOUS
<1>1. PICK b : Call(node.kids[1], Frame(node, 1, b)) /\ b \in Nat
  <2>1. Size(ir) \in Nat /\ NextBlock(ir) \in Nat /\ node \in Stm /\ Ready(ir)
    BY Entered DEF visitSWhile, visitSDoWhile, visitSFor, visitSIfElse, NextBlock, Size
  <2>2. CASE visitSFor
    <3>1. PICK f : f = GenExp(ir, node.exps[1])
      OBVIOUS
    <3>2. node.exps[1] \in Exp
      BY <2>1, <2>2, StmParts DEF visitSFor, Entering
    <3>3. Ready(f)
      BY <2>1, <3>1, <3>2, GenExpFacts
    <3>4. NextBlock(f) \in Nat
      BY <3>3, SizeType DEF NextBlock, Size, Ready
    <3> QED BY <2>2, <3>1, <3>4 DEF visitSFor
  <2>3. CASE visitSWhile \/ visitSDoWhile \/ visitSIfElse
    BY <2>1, <2>3 DEF visitSWhile, visitSDoWhile, visitSIfElse
  <2> QED BY <2>2, <2>3
<1>2. /\ node \in Stm /\ node.op \in {"SWhile", "SDoWhile", "SFor", "SIfElse"} /\ UNCHANGED fixed
  BY Entered DEF visitSWhile, visitSDoWhile, visitSFor, visitSIfElse
<1>3. PICK f : f = Frame(node, 1, b)
  OBVIOUS
<1>4. f \in FrameSet /\ f.stm = node /\ f.pos = 1
  BY <1>1, <1>2, <1>3 DEF Frame, FrameSet
<1>5. FrameFits(f) /\ node.kids[1] \in Stm /\ node.kids[1] = Child(f)
  BY <1>2, <1>4, StmParts DEF FrameFits, ScopeOps, Child
<1>6. Plain[node] => Plain[node.kids[1]]
  BY <1>2, Loops, Branches
<1> QED BY <1>1, <1>2, <1>3, <1>4, <1>5, <1>6, CallWalk

(* visitSIfElse goes on to its else branch, whatever its then branch left. *)
LEMMA elseSIfElseWalk == IInv /\ Walk /\ elseSIfElse => Walk' /\ (InPlain' => InPlain)
<1> SUFFICES ASSUME IInv, Walk, elseSIfElse PROVE Walk' /\ (InPlain' => InPlain)
  OBVIOUS
<1>1. /\ frames # <<>> /\ node = NoStm /\ Top.stm.op = "SIfElse"
      /\ frames' = Append(Pop, [Top EXCEPT !.pos = 2]) /\ node' = Top.stm.kids[2]
      /\ UNCHANGED fixed
  BY DEF elseSIfElse, Resuming
<1>2. Top \in FrameSet /\ FrameFits(Top) /\ Top.stm \in Stm
  BY <1>1, Back
<1>3. PICK f : f = [Top EXCEPT !.pos = 2]
  OBVIOUS
<1>4. f.stm = Top.stm /\ f.pos = 2
  BY <1>2, <1>3, FrameParts
<1>5. FrameFits(f) /\ node' \in Stm /\ node' = Child(f)
  BY <1>1, <1>2, <1>4, Branches DEF FrameFits, ScopeOps, Child
<1>6. PlainStm(Top.stm) => Plain[node']
  BY <1>1, <1>2, Branches DEF PlainStm
<1> QED BY <1>1, <1>3, <1>4, <1>5, <1>6, AdvanceWalk

(* A function begins: its list is the path, and nothing is said of it yet. *)
LEMMA visitDFunWalk == IInv /\ Walk /\ visitDFun => Walk'
<1> SUFFICES ASSUME IInv, Walk, visitDFun PROVE Walk'
  OBVIOUS
<1>1. /\ program \in Seq(Function) /\ fn \in Nat /\ fn < Len(program) /\ fn' = fn + 1
      /\ node' = NoStm /\ UNCHANGED <<program, stmReturns, diagnosed>>
      /\ diagnosed \subseteq 1 .. fn
  BY StmAssumption DEF visitDFun, IInv, Control, Types
<1>2. PICK f : f = Frame(FunctionNode(program[fn + 1]), 0, 0)
  OBVIOUS
<1>3. frames' = <<f>>
  BY <1>2 DEF visitDFun
<1>4. /\ f.stm = FunctionNode(program[fn']) /\ f.pos = 0 /\ f.stm.op = "DFun"
      /\ f.stm.kids = program[fn'].body /\ program[fn'].body \in Seq(Stm)
  <2>1. program[fn + 1] \in Function
    BY <1>1
  <2> QED BY <1>1, <1>2, <2>1 DEF Frame, FunctionNode, Function
<1>5. Len(frames') = 1 /\ frames'[1] = f /\ frames' # <<>>
  BY <1>3
<1>6. FrameFits(f) /\ ~ Busy(f)
  BY <1>4 DEF FrameFits, Busy, ScopeOps
<1>7. IsPath(frames', node', stmReturns')
  BY <1>1, <1>5, <1>6 DEF IsPath
<1>8. Said'
  <2>1. fn' \notin diagnosed' /\ fn' >= 1
    BY <1>1
  <2> QED BY <1>1, <1>4, <1>5, <2>1 DEF Said, Finished
<1>9. InPlain' => PlainStack(frames', node')
  BY <1>1, <1>4, <1>5 DEF InPlain, PlainStack, PlainStm
<1> QED BY <1>7, <1>8, <1>9 DEF Walk

(* A function ends: what stmReturns says of its last statement decides     *)
(* what is said of it.                                                     *)
LEMMA endDFunWalk == IInv /\ Walk /\ endDFun => Walk'
<1> SUFFICES ASSUME IInv, Walk, endDFun PROVE Walk'
  OBVIOUS
<1>1. /\ frames # <<>> /\ node = NoStm /\ node' = NoStm /\ Top.stm.op = "DFun"
      /\ Broken \/ Top.pos = Len(Top.stm.kids)
      /\ UNCHANGED <<program, fn, stmReturns>>
      /\ diagnosed' = IF stmReturns \/ program[fn].ret = "void" THEN diagnosed
                                                               ELSE diagnosed \cup {fn}
  BY DEF endDFun, ListDone, InList, Return
<1>2. /\ Top.stm.kids \in Seq(Stm) /\ Top.pos \in Nat /\ Top.pos <= Len(Top.stm.kids)
      /\ Busy(Top) => (stmReturns <=> Sets[Child(Top)])
  BY <1>1, Back DEF ScopeOps, FrameFits
<1>3. /\ frames \in Seq(FrameSet) /\ Len(frames) \in Nat /\ Len(frames) >= 1
      /\ fn \in 1 .. Len(program) /\ program \in Seq(Function)
  BY <1>1, EmptySeq, StmAssumption DEF IInv, Control, Types, Walk, Said
<1>4. Len(frames) = 1
  <2>1. Len(frames) \in 1 .. Len(frames) /\ frames[Len(frames)].stm.op = "DFun"
    BY <1>1, <1>3 DEF Top
  <2> QED BY <2>1 DEF IInv, Control, FramesOK
<1>5. frames' = <<>>
  <2>1. frames' = SubSeq(frames, 1, Len(frames) - 1)
    BY DEF endDFun, Return, Pop
  <2>2. frames' \in Seq(FrameSet) /\ Len(frames') = 0
    BY <1>1, <1>3, <1>4, <2>1, FrontFacts
  <2> QED BY <2>2, EmptySeq
<1>6. /\ Top.stm = FunctionNode(program[fn]) /\ Top.stm.kids = program[fn].body
      /\ fn \notin diagnosed
  BY <1>1, <1>4 DEF Walk, Said, Top, FunctionNode
<1>7. program[fn].ret \in {"void", "value"}
  <2>1. program[fn] \in Function
    BY <1>3
  <2> QED BY <2>1 DEF Function
<1>8. fn' \in diagnosed' <=> ~ stmReturns' /\ program'[fn'].ret = "value"
  BY <1>1, <1>6, <1>7
<1>9. \/ program[fn].body = <<>>
      \/ stmReturns <=> \E i \in DOMAIN program[fn].body : Sets[program[fn].body[i]]
  <2>1. CASE Broken
    <3>1. Top.pos \in DOMAIN Top.stm.kids /\ Sets[Top.stm.kids[Top.pos]] /\ stmReturns
      BY <1>1, <1>2, <2>1 DEF Broken, Busy, Child
    <3> QED BY <1>6, <3>1
  <2>2. CASE ~ Broken
    <3>1. \A j \in 1 .. Top.pos : ~ Sets[Top.stm.kids[j]]
      BY <1>1, <2>2, PassedNone DEF ScopeOps
    <3>2. CASE Top.pos = 0
      BY <1>1, <1>2, <1>6, <2>2, <3>2, EmptySeq
    <3>3. CASE Top.pos # 0
      <4>1. ~ stmReturns /\ \A j \in DOMAIN Top.stm.kids : ~ Sets[Top.stm.kids[j]]
        BY <1>1, <1>2, <2>2, <3>1, <3>3 DEF Broken
      <4> QED BY <1>6, <4>1
    <3> QED BY <3>2, <3>3
  <2> QED BY <2>1, <2>2
<1>10. Said'
  BY <1>1, <1>5, <1>8, <1>9 DEF Said, Finished
<1>11. IsPath(frames', node', stmReturns')
  BY <1>5, <1>1 DEF IsPath
<1> QED BY <1>5, <1>10, <1>11 DEF Walk, InPlain

(* Before the first function there is nothing on the stack.                *)
LEMMA InitWalk == Init => Walk
<1> SUFFICES ASSUME Init PROVE Walk
  OBVIOUS
<1>1. frames = <<>> /\ node = NoStm /\ fn = 0
  BY DEF Init
<1>2. IsPath(frames, node, stmReturns)
  BY <1>1 DEF IsPath
<1>3. Said
  BY <1>1 DEF Said, Finished
<1> QED BY <1>1, <1>2, <1>3 DEF Walk, InPlain

(* Every step keeps to the path; within a function it stays plain or not.  *)
LEMMA NextWalk == IInv /\ Walk /\ [Next]_vars => Walk'
<1> SUFFICES ASSUME IInv, Walk, [Next]_vars PROVE Walk'
  OBVIOUS
<1>1. CASE UNCHANGED vars
  <2>1. /\ frames' = frames /\ node' = node /\ stmReturns' = stmReturns /\ fn' = fn
        /\ program' = program /\ diagnosed' = diagnosed
    BY <1>1 DEF vars
  <2> QED BY <2>1 DEF Walk, Said, Finished, InPlain
<1>2. CASE visitDFun
  BY <1>2, visitDFunWalk
<1>3. CASE endDFun
  BY <1>3, endDFunWalk
<1>4. CASE visitNext
  BY <1>4, visitNextWalk
<1>5. CASE visitSBlock \/ endSBlock
  BY <1>5, visitSBlockWalk, endSBlockWalk
<1>6. CASE visitSExp \/ visitSReturn \/ visitSReturnV
  BY <1>6, LeavesWalk
<1>7. CASE visitSDecls \/ visitIdInit
  BY <1>7, visitSDeclsWalk, visitIdInitWalk
<1>8. CASE endSDecls \/ endSWhile \/ endSDoWhile \/ endSFor \/ endSIfElse
  BY <1>8, EndsWalk
<1>9. CASE visitSWhile \/ visitSDoWhile \/ visitSFor \/ visitSIfElse
  BY <1>9, HeadsWalk
<1>10. CASE elseSIfElse
  BY <1>10, elseSIfElseWalk
<1> QED
  BY <1>1, <1>2, <1>3, <1>4, <1>5, <1>6, <1>7, <1>8, <1>9, <1>10 DEF Next

(* The handlers on the stack are a path down the statement being generated *)
(* and stmReturns is, whenever a handler is back from a child, a function  *)
(* of that child alone: nothing an earlier statement, or an earlier        *)
(* function, left in it is read (CodeGenVisitor.cpp:67-74, 231-242), but   *)
(* for an empty function body.                                             *)
THEOREM FollowsTheTree == Spec => [](IInv /\ Walk)
<1>1. Init => IInv /\ Walk
  BY InitInv, InitWalk
<1>2. IInv /\ Walk /\ [Next]_vars => (IInv /\ Walk)'
  BY NextInv, NextWalk
<1> QED BY <1>1, <1>2, PTL DEF Spec

(* The message of CodeGenVisitor.cpp:79 is never given for a function that *)
(* returns on every path, whatever its statements and their nesting: what  *)
(* always returns sets the flag, and nothing live clears it again.         *)
THEOREM NoFalseAlarm == Spec => []NoFalseDiagnosis
<1>1. IInv /\ Walk => NoFalseDiagnosis
  <2> SUFFICES ASSUME IInv, Walk, Finished, ListReturns(program[fn].body)
               PROVE  fn \notin diagnosed
    BY DEF NoFalseDiagnosis
  <2>1. PICK i \in DOMAIN program[fn].body : AlwaysReturns[program[fn].body[i]]
    BY DEF ListReturns
  <2>2. program \in Seq(Function) /\ fn \in 1 .. Len(program)
    BY StmAssumption DEF IInv, Control, Types, Finished
  <2>3. program[fn].body \in Seq(Stm)
    <3>1. program[fn] \in Function
      BY <2>2
    <3> QED BY <3>1 DEF Function
  <2>4. program[fn].body[i] \in Stm /\ program[fn].body # <<>>
    BY <2>1, <2>3
  <2>5. Sets[program[fn].body[i]]
    BY <2>1, <2>4, ReturnsSets
  <2>6. stmReturns
    BY <2>1, <2>4, <2>5 DEF Walk, Said
  <2> QED BY <2>6 DEF Walk, Said
<1> QED BY <1>1, FollowsTheTree, PTL

-----------------------------------------------------------------------------
(* Plain functions *)

(* A handler that is called adds the blocks it reserves to the held ones.  *)
LEMMA HeldPush ==
  ASSUME NEW fr \in Seq(FrameSet), NEW h, NEW new, new = Append(fr, h)
  PROVE  Held(fr) \cup Pending(h) \subseteq Held(new)
<1>1. PICK n \in Nat : n = Len(fr)
  OBVIOUS
<1>2. Len(new) = n + 1 /\ new[n + 1] = h /\ \A i \in 1 .. n : new[i] = fr[i]
  BY <1>1
<1>3. n + 1 \in 1 .. n + 1 /\ \A i \in 1 .. n : i \in 1 .. n + 1
  OBVIOUS
<1> QED BY <1>1, <1>2, <1>3 DEF Held

(* One that returns gives its own back.                                    *)
LEMMA HeldPop ==
  ASSUME NEW fr \in Seq(FrameSet), fr # <<>>, NEW new, new = SubSeq(fr, 1, Len(fr) - 1)
  PROVE  Held(fr) \subseteq Held(new) \cup Pending(fr[Len(fr)])
<1>1. PICK n \in Nat : n = Len(fr)
  OBVIOUS
<1>2. Len(new) = n - 1 /\ \A i \in 1 .. n - 1 : new[i] = fr[i]
  BY <1>1, FrontFacts
<1>3. \A i \in 1 .. n : i \in 1 .. n - 1 \/ i = n
  OBVIOUS
<1> QED BY <1>1, <1>2, <1>3 DEF Held

(* One that moves on gives some of them back.                              *)
LEMMA HeldAdvance ==
  ASSUME NEW fr \in Seq(FrameSet), fr # <<>>, NEW f, NEW n, NEW new, IsAdvance(fr, f, n, new)
  PROVE  Held(fr) \subseteq Held(new) \cup (Pending(fr[Len(fr)]) \ Pending(f))
<1>1. PICK m \in Nat : m = Len(fr)
  OBVIOUS
<1>2. /\ Len(new) = m /\ new[m] = f /\ m >= 1
      /\ \A i \in 1 .. m - 1 : new[i] = fr[i]
  BY <1>1, EmptySeq DEF IsAdvance
<1>3. \A i \in 1 .. m : (i \in 1 .. m - 1 /\ i \in 1 .. m) \/ i = m
  OBVIOUS
<1>4. m \in 1 .. m
  BY <1>2
<1> QED BY <1>1, <1>2, <1>3, <1>4 DEF Held

(* A handler calls accept() on a child, or enters its own loop: what it    *)
(* does not finish is the insertion block or its own.                      *)
LEMMA TidyCall ==
  ASSUME IInv, Tidy, InPlain, NEW s, NEW h, Call(s, h), s # NoStm \/ ~ Busy(h),
         NEW V, Settles(ir, ir', {ir.at}, V), V \subseteq {ir'.at} \cup Pending(h)
  PROVE  Tidy'
<1>1. frames \in Seq(FrameSet) /\ frames' = Append(frames, h) /\ node' = s
  BY DEF IInv, Control, Types, Call
<1>2. Held(frames) \cup Pending(h) \subseteq Held(frames')
  BY <1>1, HeldPush
<1>3. Loose(ir) \subseteq {ir.at} \cup Held(frames)
  BY DEF Tidy
<1>4. Loose(ir') \subseteq {ir'.at} \cup Held(frames')
  BY <1>2, <1>3 DEF Settles
<1>5. ~ Terminated'
  <2>1. Top' = h
    BY <1>1 DEF Top
  <2> QED BY <1>1, <2>1 DEF Terminated
<1> QED BY <1>4, <1>5 DEF Tidy

(* A statement without sub-statements: so is what it does not finish.      *)
LEMMA TidyLeaf ==
  ASSUME Tidy, InPlain, Leaf, NEW V, Settles(ir, ir', {ir.at}, V), V \subseteq {ir'.at},
         stmReturns' => ir'.at \notin Loose(ir')
  PROVE  Tidy'
<1>1. frames' = frames
  BY DEF Leaf
<1>2. Loose(ir) \subseteq {ir.at} \cup Held(frames)
  BY DEF Tidy
<1>3. Loose(ir') \subseteq {ir'.at} \cup Held(frames')
  BY <1>1, <1>2 DEF Settles
<1> QED BY <1>3 DEF Tidy, Terminated

(* A handler that returns has finished what it reserved, and the block it  *)
(* leaves, unless it stays in it.                                          *)
LEMMA TidyReturn ==
  ASSUME IInv, Tidy, InPlain, frames # <<>>, Return, NEW W, Settles(ir, ir', W, {}),
         ir.at \in W \cup {ir'.at} \/ ir.at \notin Loose(ir),
         Pending(Top) \subseteq W \cup {ir'.at},
         stmReturns' => ir'.at \notin Loose(ir')
  PROVE  Tidy'
<1>1. frames \in Seq(FrameSet) /\ frames' = SubSeq(frames, 1, Len(frames) - 1)
  BY DEF IInv, Control, Types, Return, Pop
<1>2. Held(frames) \subseteq Held(frames') \cup Pending(Top)
  BY <1>1, HeldPop DEF Top
<1>3. Loose(ir) \subseteq {ir.at} \cup Held(frames)
  BY DEF Tidy
<1>4. Loose(ir') \subseteq {ir'.at} \cup Held(frames')
  BY <1>2, <1>3 DEF Settles
<1> QED BY <1>4 DEF Tidy, Terminated

(* One that moves on has finished the block it leaves, unless it stays in  *)
(* it, and holds on to the blocks it does not move to.                     *)
LEMMA TidyAdvance ==
  ASSUME IInv, Tidy, InPlain, frames # <<>>, NEW n \in Nat,
         NEW f, f = [Top EXCEPT !.pos = n], frames' = Append(Pop, f),
         NEW V, Settles(ir, ir', {ir.at}, V), V \subseteq {ir'.at},
         Pending(Top) \subseteq Pending(f) \cup {ir'.at},
         node' # NoStm \/ ~ Busy(f)
  PROVE  Tidy'
<1>1. /\ frames \in Seq(FrameSet) /\ Top = frames[Len(frames)]
      /\ Pop = SubSeq(frames, 1, Len(frames) - 1)
  BY DEF IInv, Control, Types, Top, Pop
<1>2. PICK fr : fr = frames
  OBVIOUS
<1>3. IsAdvance(fr, f, n, frames')
  <2>1. /\ fr \in Seq(FrameSet) /\ fr # <<>> /\ f = [fr[Len(fr)] EXCEPT !.pos = n]
        /\ frames' = Append(SubSeq(fr, 1, Len(fr) - 1), f)
    BY <1>1, <1>2
  <2> QED BY ONLY n \in Nat, <2>1, Advanced
<1>4. Held(fr) \subseteq Held(frames') \cup (Pending(fr[Len(fr)]) \ Pending(f))
  <2>1. fr \in Seq(FrameSet) /\ fr # <<>>
    BY <1>1, <1>2
  <2> QED BY ONLY <1>3, <2>1, HeldAdvance
<1>5. Loose(ir) \subseteq {ir.at} \cup Held(fr)
  BY <1>2 DEF Tidy
<1>6. Loose(ir') \subseteq {ir'.at} \cup Held(frames')
  BY <1>1, <1>2, <1>4, <1>5 DEF Settles
<1>7. Top' = f
  <2>1. Len(frames') = Len(fr) /\ frames'[Len(fr)] = f
    BY <1>3 DEF IsAdvance
  <2> QED BY <2>1 DEF Top
<1> QED BY <1>6, <1>7 DEF Tidy, Terminated

(* No new block, no new code.                                              *)
LEMMA NothingSettled ==
  ASSUME NEW f, NEW g, g = f
  PROVE  Settles(f, g, {}, {}) /\ Settles(f, g, {f.at}, {f.at})
  BY DEF Settles

(* One step after another.                                                 *)
LEMMA SettledTwice ==
  ASSUME NEW f, NEW g, NEW h, NEW W, NEW V, NEW U, Settles(f, g, W, V), Settles(g, h, V, U)
  PROVE  Settles(f, h, W, U)
  BY DEF Settles

(* The head of a list or a declaration touches no block.                   *)
LEMMA EntersTidy ==
  IInv /\ Walk /\ Tidy /\ (visitSBlock \/ visitSDecls) => Tidy'
<1> SUFFICES ASSUME IInv, Walk, Tidy, visitSBlock \/ visitSDecls, InPlain' PROVE Tidy'
  BY DEF Tidy
<1>1. InPlain
  BY visitSBlockWalk, visitSDeclsWalk
<1>2. Call(NoStm, Frame(node, 0, 0)) /\ ir' = ir
  BY DEF visitSBlock, visitSDecls
<1>3. ~ Busy(Frame(node, 0, 0))
  BY DEF Busy, Frame
<1>4. Settles(ir, ir', {ir.at}, {ir.at})
  BY <1>2, NothingSettled
<1> QED BY <1>1, <1>2, <1>3, <1>4, TidyCall

(* The next statement of a list goes on where the last one stopped.        *)
LEMMA visitNextTidy == IInv /\ Walk /\ Tidy /\ visitNext => Tidy'
<1> SUFFICES ASSUME IInv, Walk, Tidy, visitNext, InPlain' PROVE Tidy'
  BY DEF Tidy
<1>1. InPlain
  BY visitNextWalk
<1>2. /\ frames # <<>> /\ node = NoStm /\ Top.stm.op \in ScopeOps /\ Top.pos < Len(Top.stm.kids)
      /\ node' = Top.stm.kids[Top.pos + 1] /\ ir' = ir
      /\ frames' = Append(Pop, [Top EXCEPT !.pos = Top.pos + 1])
  BY DEF visitNext, InList, ScopeOps
<1>3. Top.pos \in Nat /\ Top.stm.kids \in Seq(Stm)
  BY <1>2, Back
<1>4. node' \in Stm
  BY <1>2, <1>3
<1>5. Pending(Top) = {}
  BY <1>2 DEF Pending, ScopeOps
<1>6. Settles(ir, ir', {ir.at}, {ir.at})
  BY <1>2, NothingSettled
<1>7. Top.pos + 1 \in Nat /\ node' # NoStm
  BY <1>3, <1>4, StmParts
<1> QED BY <1>1, <1>2, <1>5, <1>6, <1>7, TidyAdvance

(* A block ends with the flag of the statement it was left after.          *)
LEMMA endSBlockTidy == IInv /\ Walk /\ Tidy /\ endSBlock => Tidy'
<1> SUFFICES ASSUME IInv, Walk, Tidy, endSBlock, InPlain' PROVE Tidy'
  BY DEF Tidy
<1>1. InPlain
  BY endSBlockWalk
<1>2. /\ frames # <<>> /\ node = NoStm /\ Top.stm.op = "SBlock" /\ Return
      /\ stmReturns' = Broken /\ ir' = ir
  BY DEF endSBlock, ListDone, InList
<1>3. Pending(Top) = {}
  BY <1>2 DEF Pending
<1>4. stmReturns' => ir'.at \notin Loose(ir')
  <2>1. Broken => Terminated
    BY <1>2, Back DEF Broken, Terminated, Busy
  <2> QED BY <1>1, <1>2, <2>1 DEF Tidy
<1>5. Settles(ir, ir', {}, {})
  BY <1>2, NothingSettled
<1> QED BY <1>1, <1>2, <1>3, <1>4, <1>5, TidyReturn

(* An expression leaves one open block, the one it ends in; a return       *)
(* closes it.                                                              *)
LEMMA LeavesTidy ==
  IInv /\ Walk /\ Tidy /\ (visitSExp \/ visitSReturn \/ visitSReturnV) => Tidy'
<1> SUFFICES ASSUME IInv, Walk, Tidy, visitSExp \/ visitSReturn \/ visitSReturnV, InPlain'
             PROVE  Tidy'
  BY DEF Tidy
<1>1. InPlain
  BY LeavesWalk
<1>2. Ready(ir) /\ node \in Stm
  BY Entered DEF visitSExp, visitSReturn, visitSReturnV
<1>3. Ret \in Inst /\ IsTerminator(Ret)
  BY InstTypes DEF IsTerminator, Ret
<1>4. CASE visitSExp
  <2>1. ir' = GenExp(ir, node.exps[1]) /\ node.exps[1] \in Exp /\ Leaf /\ stmReturns' = FALSE
    BY <1>2, <1>4, StmParts DEF visitSExp, Entering
  <2>2. Settles(ir, ir', {ir.at}, {ir'.at})
    BY <1>2, <2>1, GenExpFacts
  <2> QED BY <1>1, <2>1, <2>2, TidyLeaf
<1>5. CASE visitSReturn
  <2>1. /\ ir' = Emit(GenExp(ir, node.exps[1]), Ret) /\ node.exps[1] \in Exp /\ Leaf
    BY <1>2, <1>5, StmParts DEF visitSReturn, Entering
  <2>2. PICK g : g = GenExp(ir, node.exps[1])
    OBVIOUS
  <2>3. Ready(g) /\ Settles(ir, g, {ir.at}, {g.at})
    BY <1>2, <2>1, <2>2, GenExpFacts
  <2>4. Settles(g, ir', {g.at}, {}) /\ ir'.at = g.at
    BY <1>3, <2>1, <2>2, <2>3, EmitTerminator
  <2>5. Settles(ir, ir', {ir.at}, {})
    BY <2>3, <2>4, SettledTwice
  <2>6. ir'.at \notin Loose(ir')
    BY <2>4 DEF Settles
  <2> QED BY <1>1, <2>1, <2>5, <2>6, TidyLeaf
<1>6. CASE visitSReturnV
  <2>1. ir' = Emit(ir, Ret) /\ Leaf
    BY <1>6 DEF visitSReturnV
  <2>2. Settles(ir, ir', {ir.at}, {}) /\ ir'.at = ir.at
    BY <1>2, <1>3, <2>1, EmitTerminator
  <2>3. ir'.at \notin Loose(ir')
    BY <2>2 DEF Settles
  <2> QED BY <1>1, <2>1, <2>2, <2>3, TidyLeaf
<1> QED BY <1>4, <1>5, <1>6

(* So do the initialisers of a declaration.                                *)
LEMMA visitIdInitTidy == IInv /\ Walk /\ Tidy /\ visitIdInit => Tidy'
<1> SUFFICES ASSUME IInv, Walk, Tidy, visitIdInit, InPlain' PROVE Tidy'
  BY DEF Tidy
<1>1. InPlain
  BY visitIdInitWalk
<1>2. /\ frames # <<>> /\ node = NoStm /\ Top.stm.op = "SDecls" /\ Top.pos < Len(Top.stm.exps)
      /\ frames' = Append(Pop, [Top EXCEPT !.pos = Top.pos + 1])
      /\ ir' = GenExp(ir, Top.stm.exps[Top.pos + 1])
  BY DEF visitIdInit, InDecls
<1>3. Top \in FrameSet /\ Top.pos \in Nat /\ Top.stm \in Stm
  BY <1>2, Back
<1>4. Top.stm.exps[Top.pos + 1] \in Exp
  <2>1. Top.stm.exps \in Seq(Exp)
    BY <1>2, <1>3, StmParts
  <2> QED BY <1>2, <1>3, <2>1
<1>5. Ready(ir)
  BY <1>2 DEF IInv, Blocks, Appendable, Ready
<1>6. Settles(ir, ir', {ir.at}, {ir'.at})
  BY <1>2, <1>4, <1>5, GenExpFacts
<1>7. PICK f : f = [Top EXCEPT !.pos = Top.pos + 1]
  OBVIOUS
<1>8. ~ Busy(f) /\ Pending(Top) = {} /\ Top.pos + 1 \in Nat
  <2>1. f.stm = Top.stm
    BY <1>3, <1>7, FrameParts
  <2> QED BY <1>2, <1>3, <2>1 DEF Busy, Pending
<1> QED BY <1>1, <1>2, <1>6, <1>7, <1>8, TidyAdvance

(* The end of a declaration generates nothing.                             *)
LEMMA endSDeclsTidy == IInv /\ Walk /\ Tidy /\ endSDecls => Tidy'
<1> SUFFICES ASSUME IInv, Walk, Tidy, endSDecls, InPlain' PROVE Tidy'
  BY DEF Tidy
<1>1. InPlain
  BY EndsWalk
<1>2. /\ frames # <<>> /\ Top.stm.op = "SDecls" /\ Return /\ stmReturns' = FALSE /\ ir' = ir
  BY DEF endSDecls, InDecls
<1>3. Pending(Top) = {}
  BY <1>2 DEF Pending
<1>4. Settles(ir, ir', {}, {})
  BY <1>2, NothingSettled
<1> QED BY <1>1, <1>2, <1>3, <1>4, TidyReturn

(* Moving the insertion point finishes nothing.                            *)
LEMMA Moved ==
  ASSUME NEW f, ShapedIR(f), NEW b \in Nat, NEW g, g = SetInsertPoint(f, b)
  PROVE  /\ g.at = b
         /\ \A W, V : \A e : Settles(e, f, W, V) => Settles(e, g, W, V)
<1>1. f \in IRs
  BY DEF ShapedIR
<1>2. g.blocks = f.blocks /\ g.at = b
  BY <1>1 DEF SetInsertPoint, IRs
<1>3. Loose(g) = Loose(f)
  BY <1>2 DEF Loose, Size
<1> QED BY <1>2, <1>3 DEF Settles

(* The heads of while, for and if finish the block they are entered in and *)
(* the one of the test.                                                    *)
LEMMA HeadsTidy ==
  IInv /\ Walk /\ Tidy /\ (visitSWhile \/ visitSFor \/ visitSIfElse) => Tidy'
<1> SUFFICES ASSUME IInv, Walk, Tidy, visitSWhile \/ visitSFor \/ visitSIfElse, InPlain'
             PROVE  Tidy'
  BY DEF Tidy
<1>1. InPlain
  BY HeadsWalk
<1>2. Ready(ir) /\ node \in Stm
  BY Entered DEF visitSWhile, visitSFor, visitSIfElse
<1>3. CASE visitSWhile
  <2>1. PICK b : b = NextBlock(ir)
    OBVIOUS
  <2>2. /\ node.op = "SWhile" /\ node.exps[1] \in Exp /\ node.kids[1] \in Stm
        /\ ir' = SetInsertPoint(
                   GenTest(CreateBlocks(ir, 3), b, node.exps[1], b + 1, b + 2), b + 1)
        /\ Call(node.kids[1], Frame(node, 1, b))
    BY <1>2, <1>3, <2>1, StmParts DEF visitSWhile, Entering
  <2>3. IsHead(ir, 3, b, ir')
    BY <1>2, <2>1, <2>2, HeadFacts
  <2>4. Settles(ir, ir', {ir.at}, b + 1 .. Size(ir) + 3) /\ ir'.at = b + 1
    BY <2>3 DEF IsHead
  <2>5. b + 1 .. Size(ir) + 3 \subseteq {ir'.at} \cup Pending(Frame(node, 1, b))
    BY <2>2, <2>3 DEF IsHead, Pending, Frame
  <2>6. node.kids[1] # NoStm
    BY <2>2, StmParts
  <2> QED BY <1>1, <2>2, <2>4, <2>5, <2>6, TidyCall
<1>4. CASE visitSFor
  <2>1. PICK f : f = GenExp(ir, node.exps[1])
    OBVIOUS
  <2>2. PICK b : b = NextBlock(f)
    OBVIOUS
  <2>3. /\ node.op = "SFor" /\ node.exps[1] \in Exp /\ node.exps[2] \in Exp
        /\ node.kids[1] \in Stm
        /\ ir' = SetInsertPoint(
                   GenTest(CreateBlocks(f, 3), b, node.exps[2], b + 1, b + 2), b + 1)
        /\ Call(node.kids[1], Frame(node, 1, b))
    BY <1>2, <1>4, <2>1, <2>2, StmParts DEF visitSFor, Entering
  <2>4. Ready(f) /\ Settles(ir, f, {ir.at}, {f.at})
    BY <1>2, <2>1, <2>3, GenExpFacts
  <2>5. IsHead(f, 3, b, ir')
    BY <2>2, <2>3, <2>4, HeadFacts
  <2>6. Settles(f, ir', {f.at}, b + 1 .. Size(f) + 3) /\ ir'.at = b + 1
    BY <2>5 DEF IsHead
  <2>7. b + 1 .. Size(f) + 3 \subseteq {ir'.at} \cup Pending(Frame(node, 1, b))
    BY <2>3, <2>5 DEF IsHead, Pending, Frame
  <2>8. Settles(ir, ir', {ir.at}, b + 1 .. Size(f) + 3)
    BY <2>4, <2>6 DEF Settles
  <2>9. node.kids[1] # NoStm
    BY <2>3, StmParts
  <2> QED BY <1>1, <2>3, <2>7, <2>8, <2>9, TidyCall
<1>5. CASE visitSIfElse
  <2>1. PICK b : b = NextBlock(ir)
    OBVIOUS
  <2>2. /\ node.op = "SIfElse" /\ node.exps[1] \in Exp /\ node.kids[1] \in Stm
        /\ ir' = SetInsertPoint(
                   GenTest(CreateBlocks(ir, 4), b, node.exps[1], b + 1, b + 2), b + 1)
        /\ Call(node.kids[1], Frame(node, 1, b))
    BY <1>2, <1>5, <2>1, StmParts DEF visitSIfElse, Entering
  <2>3. IsHead(ir, 4, b, ir')
    BY <1>2, <2>1, <2>2, HeadFacts
  <2>4. Settles(ir, ir', {ir.at}, b + 1 .. Size(ir) + 4) /\ ir'.at = b + 1
    BY <2>3 DEF IsHead
  <2>5. b + 1 .. Size(ir) + 4 \subseteq {ir'.at} \cup Pending(Frame(node, 1, b))
    BY <2>2, <2>3 DEF IsHead, Pending, Frame
  <2>6. node.kids[1] # NoStm
    BY <2>2, StmParts
  <2> QED BY <1>1, <2>2, <2>4, <2>5, <2>6, TidyCall
<1> QED BY <1>3, <1>4, <1>5

(* That of a do finishes the block it is entered in.                       *)
LEMMA visitSDoWhileTidy == IInv /\ Walk /\ Tidy /\ visitSDoWhile => Tidy'
<1> SUFFICES ASSUME IInv, Walk, Tidy, visitSDoWhile, InPlain' PROVE Tidy'
  BY DEF Tidy
<1>1. InPlain
  BY HeadsWalk
<1>2. Ready(ir) /\ node \in Stm
  BY Entered DEF visitSDoWhile
<1>3. PICK b : b = NextBlock(ir)
  OBVIOUS
<1>4. /\ node.op = "SDoWhile" /\ node.kids[1] \in Stm /\ node.kids[1] # NoStm
      /\ ir' = SetInsertPoint(Emit(CreateBlocks(ir, 3), Br(b)), b)
      /\ Call(node.kids[1], Frame(node, 1, b))
  BY <1>2, <1>3, StmParts DEF visitSDoWhile, Entering
<1>5. b = Size(ir) + 1 /\ Size(ir) \in Nat /\ b \in Nat /\ ShapedIR(ir) /\ ir.at \in 1 .. Size(ir)
  BY <1>2, <1>3, SizeType DEF NextBlock, Size, Ready, ShapedIR
<1>6. PICK f : f = CreateBlocks(ir, 3)
  OBVIOUS
<1>7. IsExtension(ir, 3, f)
  <2>1. 3 \in Nat
    OBVIOUS
  <2> QED BY <1>5, <1>6, <2>1, CreateFacts
<1>8. Ready(f) /\ f.at = ir.at
  <2>1. InsertBlock(f) = InsertBlock(ir)
    BY <1>5, <1>7 DEF IsExtension, InsertBlock
  <2> QED BY <1>2, <1>7, <2>1 DEF IsExtension, Ready
<1>9. Settles(ir, f, {}, b .. b + 2)
  BY <1>5, <1>7 DEF IsExtension, Settles, Loose
<1>10. PICK g : g = Emit(f, Br(b))
  OBVIOUS
<1>11. ShapedIR(g) /\ Settles(f, g, {f.at}, {})
  <2>1. Br(b) \in Inst /\ IsTerminator(Br(b))
    BY <1>5, InstTypes DEF IsTerminator, Br
  <2> QED BY <1>8, <1>10, <2>1, EmitTerminator
<1>12. Settles(ir, g, {ir.at}, b .. b + 2)
  BY <1>8, <1>9, <1>11 DEF Settles
<1>13. Settles(ir, ir', {ir.at}, b .. b + 2) /\ ir'.at = b
  BY <1>4, <1>5, <1>6, <1>10, <1>11, <1>12, Moved
<1>14. b .. b + 2 \subseteq {ir'.at} \cup Pending(Frame(node, 1, b))
  BY <1>4, <1>5, <1>13 DEF Pending, Frame
<1> QED BY <1>1, <1>4, <1>13, <1>14, TidyCall

(* The flag is not set behind the body of a plain while or do, nor behind  *)
(* the else branch of a plain if.                                          *)
LEMMA PlainNotSet ==
  ASSUME IInv, Walk, InPlain, frames # <<>>, node = NoStm,
         \/ Top.stm.op \in {"SWhile", "SDoWhile"}
         \/ Top.stm.op = "SIfElse" /\ Top.pos = 2
  PROVE  ~ stmReturns
<1>1. /\ Top.stm \in Stm /\ FrameFits(Top) /\ PlainStm(Top.stm)
      /\ Busy(Top) => (stmReturns <=> Sets[Child(Top)])
  BY Back
<1>2. Plain[Top.stm]
  BY <1>1 DEF PlainStm
<1>3. CASE Top.stm.op \in {"SWhile", "SDoWhile"}
  <2>1. Top.pos = 1
    BY <1>1, <1>3 DEF FrameFits
  <2>2. ~ Sets[Top.stm.kids[1]]
    BY <1>1, <1>2, <1>3, Loops, PlainSets
  <2> QED BY <1>1, <1>3, <2>1, <2>2 DEF Busy, Child
<1>4. CASE Top.stm.op = "SIfElse" /\ Top.pos = 2
  <2>1. ~ Sets[Top.stm.kids[2]]
    BY <1>1, <1>2, <1>4, Branches, PlainSets
  <2> QED BY <1>1, <1>4, <2>1 DEF Busy, Child
<1> QED BY <1>3, <1>4

(* So their back edges are the only terminators of their blocks.           *)
LEMMA endSWhileTidy == IInv /\ Walk /\ Tidy /\ endSWhile => Tidy'
<1> SUFFICES ASSUME IInv, Walk, Tidy, endSWhile, InPlain' PROVE Tidy'
  BY DEF Tidy
<1>1. InPlain
  BY EndsWalk
<1>2. /\ frames # <<>> /\ node = NoStm /\ Top.stm.op = "SWhile" /\ Return
      /\ ir' = SetInsertPoint(Emit(ir, Br(Top.base)), Top.base + 2)
      /\ stmReturns' = stmReturns
  BY DEF endSWhile, Resuming
<1>3. ~ stmReturns
  BY <1>1, <1>2, PlainNotSet
<1>4. Ready(ir) /\ Top.base \in Nat
  BY <1>2, <1>3, Resumed DEF Blocks, Appendable, Ready
<1>5. PICK f : f = Emit(ir, Br(Top.base))
  OBVIOUS
<1>6. ShapedIR(f) /\ Settles(ir, f, {ir.at}, {})
  <2>1. Br(Top.base) \in Inst /\ IsTerminator(Br(Top.base))
    BY <1>4, InstTypes DEF IsTerminator, Br
  <2> QED BY <1>4, <1>5, <2>1, EmitTerminator
<1>7. Settles(ir, ir', {ir.at}, {}) /\ ir'.at = Top.base + 2
  <2>1. Top.base + 2 \in Nat
    BY <1>4
  <2> QED BY <1>2, <1>5, <1>6, <2>1, Moved
<1>8. Pending(Top) \subseteq {ir.at} \cup {ir'.at}
  BY <1>2, <1>7 DEF Pending
<1> QED BY <1>1, <1>2, <1>3, <1>7, <1>8, TidyReturn

(* The test of a plain do terminates the block its body ends in.           *)
LEMMA endSDoWhileTidy == IInv /\ Walk /\ Tidy /\ endSDoWhile => Tidy'
<1> SUFFICES ASSUME IInv, Walk, Tidy, endSDoWhile, InPlain' PROVE Tidy'
  BY DEF Tidy
<1>1. InPlain
  BY EndsWalk
<1>2. /\ frames # <<>> /\ node = NoStm /\ Top.stm.op = "SDoWhile" /\ Return
      /\ ir' = SetInsertPoint(
                 GenTest(ir, Top.base + 2, Top.stm.exps[1], Top.base, Top.base + 1),
                 Top.base + 1)
      /\ stmReturns' = stmReturns
  BY DEF endSDoWhile, Resuming
<1>3. ~ stmReturns
  BY <1>1, <1>2, PlainNotSet
<1>4. /\ Ready(ir) /\ Top.base \in Nat /\ Top.stm \in Stm /\ ShapedIR(ir) /\ Fillable(InsertBlock(ir))
      /\ \A b \in Pending(Top) :
           b \in 1 .. Size(ir) /\ ir.blocks[b] = <<>> /\ b # ir.at
  BY <1>2, <1>3, Resumed DEF Blocks, Appendable, Ready
<1>5. Pending(Top) = {Top.base + 1, Top.base + 2}
  BY <1>2 DEF Pending
<1>6. PICK f : f = GenTest(ir, Top.base + 2, Top.stm.exps[1], Top.base, Top.base + 1)
  OBVIOUS
<1>7. ShapedIR(f) /\ Settles(ir, f, {ir.at, Top.base + 2}, {})
  <2>1. /\ Top.base + 2 \in 1 .. Size(ir) /\ ir.blocks[Top.base + 2] = <<>>
        /\ Top.base + 2 # ir.at /\ Top.base + 1 \in Nat
        /\ Top.stm.exps[1] \in Exp /\ Open(InsertBlock(ir))
    BY <1>2, <1>4, <1>5, StmParts DEF Ready
  <2> QED BY <1>4, <1>6, <2>1, GenTestFacts
<1>8. Settles(ir, ir', {ir.at, Top.base + 2}, {}) /\ ir'.at = Top.base + 1
  <2>1. Top.base + 1 \in Nat
    BY <1>4
  <2> QED BY <1>2, <1>6, <1>7, <2>1, Moved
<1>9. Pending(Top) \subseteq {ir.at, Top.base + 2} \cup {ir'.at}
  BY <1>5, <1>8
<1> QED BY <1>1, <1>2, <1>3, <1>8, <1>9, TidyReturn

(* A for adds nothing to a body that returned, and closes another one.     *)
LEMMA endSForTidy == IInv /\ Walk /\ Tidy /\ endSFor => Tidy'
<1> SUFFICES ASSUME IInv, Walk, Tidy, endSFor, InPlain' PROVE Tidy'
  BY DEF Tidy
<1>1. InPlain
  BY EndsWalk
<1>2. /\ frames # <<>> /\ node = NoStm /\ Top.stm.op = "SFor" /\ Top.pos = 1 /\ Return
      /\ stmReturns' = FALSE
  BY DEF endSFor, Resuming
<1>3. Top.base \in Nat /\ Top.base + 2 \in Nat /\ Top.stm \in Stm /\ ShapedIR(ir)
  BY <1>2, Resumed
<1>4. Pending(Top) = {Top.base + 2}
  BY <1>2 DEF Pending
<1>5. CASE stmReturns
  <2>1. ir' = SetInsertPoint(ir, Top.base + 2)
    BY <1>5 DEF endSFor
  <2>2. Settles(ir, ir, {}, {})
    BY NothingSettled
  <2>3. Settles(ir, ir', {}, {}) /\ ir'.at = Top.base + 2
    BY <1>3, <2>1, <2>2, Moved
  <2>4. ir.at \notin Loose(ir)
    BY <1>1, <1>2, <1>5 DEF Tidy, Terminated, Busy
  <2>5. Settles(ir, ir', {ir.at}, {}) /\ Pending(Top) \subseteq {ir.at} \cup {ir'.at}
    BY <1>4, <2>3, <2>4 DEF Settles
  <2> QED BY <1>1, <1>2, <2>5, TidyReturn
<1>6. CASE ~ stmReturns
  <2>1. Ready(ir)
    BY <1>2, <1>6, Resumed DEF Blocks, Appendable, Ready
  <2>2. PICK g : g = GenExp(ir, Top.stm.exps[3])
    OBVIOUS
  <2>3. Ready(g) /\ Settles(ir, g, {ir.at}, {g.at})
    BY <1>2, <1>3, <2>1, <2>2, StmParts, GenExpFacts
  <2>4. PICK f : f = Emit(g, Br(Top.base))
    OBVIOUS
  <2>5. Br(Top.base) \in Inst /\ IsTerminator(Br(Top.base))
    BY <1>3, InstTypes DEF IsTerminator, Br
  <2>6. ShapedIR(f) /\ Settles(g, f, {g.at}, {})
    BY <2>3, <2>4, <2>5, EmitTerminator
  <2>7. Settles(ir, f, {ir.at}, {})
    BY <2>3, <2>6, SettledTwice
  <2>8. ir' = SetInsertPoint(f, Top.base + 2)
    BY <1>6, <2>2, <2>4 DEF endSFor
  <2>9. Settles(ir, ir', {ir.at}, {}) /\ ir'.at = Top.base + 2
    BY <1>3, <2>6, <2>7, <2>8, Moved
  <2>10. Pending(Top) \subseteq {ir.at} \cup {ir'.at}
    BY <1>4, <2>9
  <2> QED BY <1>1, <1>2, <2>9, <2>10, TidyReturn
<1> QED BY <1>5, <1>6

(* A branch of an if that is open is closed.                               *)
LEMMA elseSIfElseTidy == IInv /\ Walk /\ Tidy /\ elseSIfElse => Tidy'
<1> SUFFICES ASSUME IInv, Walk, Tidy, elseSIfElse, InPlain' PROVE Tidy'
  BY DEF Tidy
<1>1. InPlain
  BY elseSIfElseWalk
<1>2. /\ frames # <<>> /\ node = NoStm /\ Top.stm.op = "SIfElse" /\ Top.pos = 1
      /\ ir' = SetInsertPoint(CloseBranch(ir, Top.base + 3), Top.base + 2)
      /\ frames' = Append(Pop, [Top EXCEPT !.pos = 2]) /\ node' = Top.stm.kids[2]
  BY DEF elseSIfElse, Resuming
<1>3. /\ Top \in FrameSet /\ Top.base \in Nat /\ Top.stm \in Stm
      /\ ShapedIR(ir) /\ Fillable(InsertBlock(ir))
      /\ Top.base + 2 \in Nat /\ Top.base + 3 \in Nat
  BY <1>2, Resumed
<1>4. PICK f : f = CloseBranch(ir, Top.base + 3)
  OBVIOUS
<1>5. ShapedIR(f) /\ Settles(ir, f, {ir.at}, {})
  BY ZenonT(40), <1>3, <1>4, CloseBranchFacts
<1>6. Settles(ir, ir', {ir.at}, {}) /\ ir'.at = Top.base + 2
  BY <1>2, <1>3, <1>4, <1>5, Moved
<1>7. PICK h : h = [Top EXCEPT !.pos = 2]
  OBVIOUS
<1>8. Pending(Top) \subseteq Pending(h) \cup {ir'.at}
  <2>1. h.stm = Top.stm /\ h.pos = 2 /\ h.base = Top.base
    BY <1>3, <1>7, FrameParts
  <2> QED BY <1>2, <1>6, <2>1 DEF Pending
<1>9. PICK n \in Nat : n = 2
  OBVIOUS
<1>10. frames' = Append(Pop, h) /\ h = [Top EXCEPT !.pos = n] /\ node' # NoStm
  BY <1>2, <1>3, <1>7, <1>9, StmParts
<1>11. Settles(ir, ir', {ir.at}, {ir'.at})
  BY <1>6 DEF Settles
<1>12. IInv /\ Tidy /\ InPlain /\ frames # <<>>
  BY <1>1, <1>2
<1> QED BY ONLY n \in Nat, <1>8, <1>10, <1>11, <1>12, TidyAdvance

(* So is the else branch; the flag behind a plain if is not set.           *)
LEMMA endSIfElseTidy == IInv /\ Walk /\ Tidy /\ endSIfElse => Tidy'
<1> SUFFICES ASSUME IInv, Walk, Tidy, endSIfElse, InPlain' PROVE Tidy'
  BY DEF Tidy
<1>1. InPlain
  BY EndsWalk
<1>2. /\ frames # <<>> /\ node = NoStm /\ Top.stm.op = "SIfElse" /\ Top.pos = 2 /\ Return
      /\ ir' = SetInsertPoint(CloseBranch(ir, Top.base + 3), Top.base + 3)
      /\ stmReturns' = stmReturns
  BY DEF endSIfElse, Resuming
<1>3. /\ Top.base \in Nat /\ Top.base + 3 \in Nat
      /\ ShapedIR(ir) /\ Fillable(InsertBlock(ir))
  BY <1>2, Resumed
<1>4. PICK f : f = CloseBranch(ir, Top.base + 3)
  OBVIOUS
<1>5. ShapedIR(f) /\ Settles(ir, f, {ir.at}, {})
  BY <1>3, <1>4, CloseBranchFacts
<1>6. Settles(ir, ir', {ir.at}, {}) /\ ir'.at = Top.base + 3
  BY <1>2, <1>3, <1>4, <1>5, Moved
<1>7. Pending(Top) \subseteq {ir.at} \cup {ir'.at}
  BY <1>2, <1>6 DEF Pending
<1>8. ~ stmReturns'
  BY <1>1, <1>2, PlainNotSet
<1> QED BY <1>1, <1>2, <1>6, <1>7, <1>8, TidyReturn

(* A new function has one block, which is being filled.                    *)
LEMMA visitDFunTidy == visitDFun => Tidy' /\ PlainIsVerified'
<1> SUFFICES ASSUME visitDFun PROVE Tidy' /\ PlainIsVerified'
  OBVIOUS
<1>1. PICK f : f = Frame(FunctionNode(program[fn + 1]), 0, 0)
  OBVIOUS
<1>2. frames' = <<f>> /\ ir' = EmptyFunction
  BY <1>1 DEF visitDFun
<1>3. Loose(ir') \subseteq {ir'.at}
  <2>1. ir'.at = 1 /\ Size(ir') = 1
    BY <1>2 DEF EmptyFunction, Size
  <2> QED BY <2>1 DEF Loose
<1>4. ~ Terminated'
  <2>1. Top' = f /\ f.pos = 0
    BY <1>1, <1>2 DEF Top, Frame
  <2> QED BY <2>1 DEF Terminated, Busy
<1>5. ~ Finished'
  BY <1>2 DEF Finished
<1> QED BY <1>3, <1>4, <1>5 DEF Tidy, PlainIsVerified

(* When a plain function ends there is nothing left to fill: a return has  *)
(* closed the insertion block, or the implicit one does.                   *)
LEMMA endDFunTidy == IInv /\ Walk /\ Tidy /\ endDFun => Tidy' /\ PlainIsVerified'
<1> SUFFICES ASSUME IInv, Walk, Tidy, endDFun PROVE Tidy' /\ PlainIsVerified'
  OBVIOUS
<1>1. /\ frames # <<>> /\ node = NoStm /\ Top.stm.op = "DFun"
      /\ Broken \/ Top.pos = Len(Top.stm.kids)
      /\ UNCHANGED <<program, fn, stmReturns>>
  BY DEF endDFun, ListDone, InList
<1>2. /\ Top.stm.kids \in Seq(Stm) /\ Top.pos \in Nat
  BY <1>1, Back DEF ScopeOps
<1>3. /\ frames \in Seq(FrameSet) /\ Len(frames) \in Nat /\ Len(frames) >= 1
      /\ fn \in 1 .. Len(program) /\ program \in Seq(Function)
      /\ module \in Seq(Seq(Seq(Inst))) /\ Len(module) = fn - 1
  BY <1>1, EmptySeq, StmAssumption DEF IInv, Control, Types, Walk, Said
<1>4. Len(frames) = 1
  <2>1. Len(frames) \in 1 .. Len(frames) /\ frames[Len(frames)].stm.op = "DFun"
    BY <1>1, <1>3 DEF Top
  <2> QED BY <2>1 DEF IInv, Control, FramesOK
<1>5. frames' = <<>>
  <2>1. frames' = SubSeq(frames, 1, Len(frames) - 1)
    BY DEF endDFun, Return, Pop
  <2>2. frames' \in Seq(FrameSet) /\ Len(frames') = 0
    BY <1>1, <1>3, <1>4, <2>1, FrontFacts
  <2> QED BY <2>2, EmptySeq
<1>6. Top.stm.kids = program[fn].body
  BY <1>1, <1>4 DEF Walk, Said, Top, FunctionNode
<1>7. module' = Append(module, ir'.blocks)
  BY DEF endDFun
<1>8. module'[fn'] = ir'.blocks
  <2>1. PICK n \in Nat : n = fn - 1
    BY <1>3
  <2> QED BY <1>1, <1>3, <1>7, <2>1
<1>9. ASSUME PlainList(program[fn].body),
             program[fn].ret = "value" => ListReturns(program[fn].body),
             program[fn].body = <<>> => ~ stmReturns
      PROVE  Loose(ir') = {}
  <2>1. Loose(ir) \subseteq {ir.at} /\ (Terminated => ir.at \notin Loose(ir))
    <3>1. Pending(frames[1]) = {}
      BY <1>1, <1>4 DEF Pending, Top
    <3>2. Held(frames) = {}
      BY <1>4, <3>1 DEF Held
    <3> QED BY <1>1, <1>9, <3>2 DEF Tidy, InPlain
  <2>2. CASE stmReturns
    <3>1. Top.pos >= 1
      BY <1>1, <1>2, <1>6, <1>9, <2>2, EmptySeq DEF Broken
    <3>2. ir' = ir
      BY <2>2 DEF endDFun
    <3> QED BY <1>1, <2>1, <2>2, <3>1, <3>2 DEF Terminated, Busy
  <2>3. CASE ~ stmReturns
    <3>1. program[fn].ret = "void"
      <4>1. ~ ListReturns(program[fn].body)
        <5>1. Walk'
          BY endDFunWalk
        <5>2. Finished'
          BY <1>1, <1>3, <1>5 DEF Finished
        <5>3. \/ program[fn].body = <<>>
              \/ \A i \in DOMAIN program[fn].body : ~ Sets[program[fn].body[i]]
          BY <1>1, <2>3, <5>1, <5>2 DEF Walk, Said
        <5>4. \A i \in DOMAIN program[fn].body : program[fn].body[i] \in Stm
          BY <1>2, <1>6
        <5> QED BY <5>3, <5>4, ReturnsSets DEF ListReturns
      <4>2. program[fn].ret \in {"void", "value"}
        <5>1. program[fn] \in Function
          BY <1>3
        <5> QED BY <5>1 DEF Function
      <4> QED BY <1>9, <4>1, <4>2
    <3>2. ir' = Emit(ir, Ret)
      BY <2>3, <3>1 DEF endDFun
    <3>3. Ready(ir)
      BY <1>1, <2>3 DEF IInv, Blocks, Appendable, Ready
    <3>4. Ret \in Inst /\ IsTerminator(Ret)
      BY InstTypes DEF IsTerminator, Ret
    <3>5. Settles(ir, ir', {ir.at}, {})
      BY <3>2, <3>3, <3>4, EmitTerminator
    <3> QED BY <2>1, <3>5 DEF Settles
  <2> QED BY <2>2, <2>3
<1>10. ASSUME Loose(ir') = {}
       PROVE  Verified'
  <2>1. \A b \in 1 .. Size(ir') : VerifiedBlock(ir'.blocks[b])
    BY <1>10 DEF Loose
  <2>2. DOMAIN ir'.blocks = 1 .. Size(ir')
    <3>1. ShapedIR(ir')
      BY endDFunInv DEF IInv, Blocks
    <3> QED BY <3>1 DEF ShapedIR, IRs, Size
  <2> QED BY <1>8, <2>1, <2>2 DEF Verified, VerifiedFunction
<1>11. PlainIsVerified'
  BY <1>1, <1>9, <1>10 DEF PlainIsVerified
<1> QED BY <1>5, <1>11 DEF Tidy, InPlain

(* Every step keeps plain functions tidy.                                  *)
LEMMA NextTidy ==
  IInv /\ Walk /\ Tidy /\ PlainIsVerified /\ [Next]_vars => Tidy' /\ PlainIsVerified'
<1> SUFFICES ASSUME IInv, Walk, Tidy, PlainIsVerified, [Next]_vars
             PROVE  Tidy' /\ PlainIsVerified'
  OBVIOUS
<1>1. CASE UNCHANGED vars
  <2>1. /\ frames' = frames /\ node' = node /\ stmReturns' = stmReturns /\ fn' = fn
        /\ program' = program /\ ir' = ir /\ module' = module
    BY <1>1 DEF vars
  <2>2. Tidy'
    BY <2>1 DEF Tidy, InPlain, Terminated, Top
  <2>3. PlainIsVerified'
    BY <2>1 DEF PlainIsVerified, Finished, Verified
  <2> QED BY <2>2, <2>3
<1>2. CASE visitDFun
  BY <1>2, visitDFunTidy
<1>3. CASE endDFun
  BY <1>3, endDFunTidy
<1>4. CASE Next /\ ~ visitDFun /\ ~ endDFun
  <2>1. Tidy'
    BY <1>4, EntersTidy, visitNextTidy, endSBlockTidy, LeavesTidy, visitIdInitTidy,
       endSDeclsTidy, HeadsTidy, visitSDoWhileTidy, endSWhileTidy, endSDoWhileTidy,
       endSForTidy, elseSIfElseTidy, endSIfElseTidy DEF Next
  <2>2. frames # <<>>
    BY <1>4 DEF Next, visitNext, InList, visitSBlock, endSBlock, ListDone, visitSExp, visitSReturn,
       visitSReturnV, visitSDecls, visitIdInit, endSDecls, InDecls, visitSWhile, endSWhile,
       visitSDoWhile, endSDoWhile, visitSFor, endSFor, visitSIfElse, elseSIfElse, endSIfElse,
       Entering, Resuming, IInv, Control, FramesOK
  <2>3. UNCHANGED fixed
    BY <1>4 DEF Next, visitNext, visitSBlock, endSBlock, visitSExp, visitSReturn,
       visitSReturnV, visitSDecls, visitIdInit, endSDecls, visitSWhile, endSWhile,
       visitSDoWhile, endSDoWhile, visitSFor, endSFor, visitSIfElse, elseSIfElse, endSIfElse
  <2>4. ~ Finished'
    <3>1. IInv' /\ Len(module) = fn - 1 /\ fn \in Nat
      BY <2>2, NextInv, StmAssumption DEF IInv, Control, Types
    <3>2. Len(module') = IF frames' = <<>> THEN fn' ELSE fn' - 1
      BY <3>1 DEF IInv, Control, Types
    <3>3. module' = module /\ fn' = fn
      BY <2>3 DEF fixed
    <3> QED BY <3>1, <3>2, <3>3 DEF Finished
  <2> QED BY <2>1, <2>4 DEF PlainIsVerified
<1> QED BY <1>1, <1>2, <1>3, <1>4

(* A function without a while or do body, or an else branch, that always   *)
(* returns comes out with every block terminated once, at its end, unless  *)
(* it falls off a non-void end: returns inside blocks, fors and then       *)
(* branches are handled right, however they nest.                          *)
THEOREM PlainFunctionsVerify == Spec => []PlainIsVerified
<1>1. Init => IInv /\ Walk /\ Tidy /\ PlainIsVerified
  <2>1. Init => Tidy /\ PlainIsVerified
    BY DEF Init, Tidy, InPlain, PlainIsVerified, Finished
  <2> QED BY <2>1, InitInv, InitWalk
<1>2. IInv /\ Walk /\ Tidy /\ PlainIsVerified /\ [Next]_vars
        => (IInv /\ Walk /\ Tidy /\ PlainIsVerified)'
  BY NextInv, NextWalk, NextTidy
<1> QED BY <1>1, <1>2, PTL DEF Spec
=============================================================================
