------------------------ MODULE CodeGenScopeMeaning ------------------------
(***************************************************************************)
(* Where in the generated blocks the alloca of a variable must be.  The    *)
(* exceptions are read off the source tree: they are the programs for      *)
(* which the scope of a name and the blocks it is used in differ.          *)
(***************************************************************************)
EXTENDS CodeGenScope, SequencesExt

-----------------------------------------------------------------------------
(* Flow between the blocks *)

Terminators(block) == {i \in DOMAIN block : Cg!IsTerminator(block[i])}

(* Where control goes behind a block; what is behind a ret does not run.   *)
Successors(b) ==
  LET block == ir.blocks[b] IN
    IF Terminators(block) = {} THEN {}
    ELSE LET first == block[CHOOSE i \in Terminators(block) : \A j \in Terminators(block) : i <= j]
         IN IF first.op = "ret" THEN {} ELSE {first.arg[k] : k \in DOMAIN first.arg}

(* What can be reached from the blocks of S, past none of avoid.           *)
RECURSIVE Reachable(_, _)
Reachable(S, avoid) ==
  LET more == (S \cup UNION {Successors(b) : b \in S}) \ avoid
  IN IF more = S THEN S ELSE Reachable(more, avoid)

Runs(at) == at[1] \in Reachable({1}, {})

(* No way from the entry to instruction v leads round instruction u.       *)
Dominates(u, v) ==
  IF u[1] = v[1] THEN u[2] <= v[2] ELSE v[1] \notin Reachable({1} \ {u[1]}, {u[1]})

OnCycle(at) == at[1] \in Reachable(Successors(at[1]), {})

-----------------------------------------------------------------------------
(* Properties *)

Finished == phase \in {"codegen", "printed"} /\ cgFrames = <<>> /\ cgFn > 0

(* Whether code of statement k on the way to a declaration may be passed   *)
(* by while the declaration's name stays visible.                          *)
Skippable(place, k) ==
  LET way == Way(place) IN
    /\ way[k].op \in {"SIfElse", "SWhile", "SFor"}
    /\ \A j \in k .. Len(way) : way[j].op # "SBlock"

(* The use is outside a part of the program that may be passed by and that *)
(* has the declaration in it, without braces around it.                    *)
Escapes(place, use) ==
  \E k \in 2 .. Len(place) - 2 :
    /\ Skippable(place, k)
    /\ ~ IsPrefix(SubSeq(place, 1, k + 1), use)
    /\ ~ (Way(place)[k].op = "SFor" /\ Front(use) = SubSeq(place, 1, k))

(* On every way to a load its alloca has run, as LLVM demands of every     *)
(* instruction and its uses, but for declarations that are a branch of an  *)
(* if or the body of a loop without braces (CodeGenVisitor.cpp:258, 264).  *)
AllocaDominatesUse ==
  Finished => \A l \in loads :
    Runs(l.at) => Dominates(allocas[l.alloca], l.at) \/ Escapes(l.alloca, l.use)

(* An alloca (CodeGenVisitor.cpp:109) takes stack every time it runs, and  *)
(* gives it back when the function returns: it can run again only if its   *)
(* declaration is in a loop.                                               *)
StackGrowsOnlyInLoops ==
  Finished => \A p \in DOMAIN allocas :
    Runs(allocas[p]) /\ OnCycle(allocas[p]) =>
      \E k \in DOMAIN Way(p) : Way(p)[k].op \in {"SWhile", "SDoWhile", "SFor"}

(* The functions that compile without a diagnosis pass the verification of *)
(* CodeGenVisitor.cpp:89: no load is reached without its alloca.           *)
UsesAreDominated ==
  Finished /\ cgFn \notin diagnosed => \A l \in loads : Runs(l.at) => Dominates(allocas[l.alloca], l.at)
=============================================================================
