--------------------------- MODULE CodeGenMeaning ---------------------------
(***************************************************************************)
(* What the generated blocks should mean, beside the model of how they are *)
(* generated.  The source side is the meaning C++ gives to the statements, *)
(* written independently of the visitor; the IR side runs the blocks.      *)
(* Both produce the sequence of evaluated expressions and the final ret,   *)
(* driven by the same outcomes of the conditions.                          *)
(***************************************************************************)
EXTENDS ReturnPaths, SequencesExt

CONSTANT Outcomes    \* sequences of condition outcomes that drive the runs

-----------------------------------------------------------------------------
(* Meaning of the source: a work list of statements and of primitive steps *)

Choice(yes, no) == [op |-> "choice", arg |-> <<yes, no>>]

ExpSteps(e) ==
  IF e \in CondExp THEN <<Eval(e, 1), Choice(<<Eval(e, 2)>>, <<Eval(e, 3)>>)>>
                   ELSE <<Eval(e, 0)>>

While(e, s) == [op |-> "SWhile", exps |-> <<e>>, kids |-> <<s>>]

Steps(s) ==
  CASE s.op \in {"SExp", "SDecls"} -> FlattenSeq([i \in DOMAIN s.exps |-> ExpSteps(s.exps[i])])
    [] s.op = "SReturn"  -> ExpSteps(s.exps[1]) \o <<Ret>>
    [] s.op = "SReturnV" -> <<Ret>>
    [] s.op = "SBlock"   -> s.kids
    [] s.op = "SIfElse"  -> ExpSteps(s.exps[1]) \o <<Choice(<<s.kids[1]>>, <<s.kids[2]>>)>>
    [] s.op = "SWhile"   -> ExpSteps(s.exps[1]) \o <<Choice(<<s.kids[1], s>>, <<>>)>>
    [] s.op = "SDoWhile" -> <<s.kids[1], While(s.exps[1], s.kids[1])>>
    [] s.op = "SFor"     -> ExpSteps(s.exps[1]) \o <<[s EXCEPT !.op = "ForTest"]>>
    [] s.op = "ForTest"  -> ExpSteps(s.exps[2])
                            \o <<Choice(<<s.kids[1], [s EXCEPT !.op = "ForStep"]>>, <<>>)>>
    [] s.op = "ForStep"  -> ExpSteps(s.exps[3]) \o <<[s EXCEPT !.op = "ForTest"]>>

(* Falling off the end is a return; a run stops when the outcomes run out.  *)
RECURSIVE SourceRun(_, _)
SourceRun(work, bits) ==
  IF work = <<>> THEN <<Ret>>
  ELSE LET s == Head(work)  rest == Tail(work) IN
    CASE s.op = "ret"    -> <<Ret>>
      [] s.op = "eval"   -> <<s>> \o SourceRun(rest, bits)
      [] s.op = "choice" -> IF bits = <<>> THEN <<>>
                            ELSE SourceRun(s.arg[IF Head(bits) THEN 1 ELSE 2] \o rest,
                                           Tail(bits))
      [] OTHER           -> SourceRun(Steps(s) \o rest, bits)

(* Meaning of the blocks: run from instruction i of block b.               *)
RECURSIVE IRRun(_, _, _, _)
IRRun(blocks, b, i, bits) ==
  LET inst == blocks[b][i] IN
    CASE inst.op = "ret"    -> <<Ret>>
      [] inst.op = "eval"   -> <<inst>> \o IRRun(blocks, b, i + 1, bits)
      [] inst.op = "br"     -> IRRun(blocks, inst.arg[1], 1, bits)
      [] inst.op = "condbr" -> IF bits = <<>> THEN <<>>
                               ELSE IRRun(blocks, inst.arg[IF Head(bits) THEN 1 ELSE 2], 1,
                                          Tail(bits))

-----------------------------------------------------------------------------
(* Property *)

(* A function that verifyFunction accepts does what its source says: the   *)
(* same expressions in the same order, whatever the conditions turn out    *)
(* to be, and a return exactly where the source returns.                   *)
VerifiedMeansSource ==
  Finished /\ Verified =>
    \A bits \in Outcomes :
      IRRun(module[fn], 1, 1, bits) = SourceRun(program[fn].body, bits)
=============================================================================
