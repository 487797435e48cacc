---------------------------- MODULE CodeGenScope ----------------------------
(***************************************************************************)
(* The passes over the function bodies as compile runs them: first the     *)
(* typechecker (module TypeCheck), then, if it has found no error, the     *)
(* code generator (module CodeGenStm) with the bindings its                *)
(* CodeGenContexts hold.  Both walk the same trees, and each enters the    *)
(* variables into scopes of its own, in an order of its own: the type that *)
(* one notes is right for the other only if they find the same variable.   *)
(*                                                                         *)
(* A place is the number of a function and the positions of a statement    *)
(* and of one of its expressions below it; an alloca is known by the place *)
(* of its declaration.  Here every declarator has its instruction in       *)
(* CodeGenStm: the alloca and, if there is one, its initialisation.        *)
(***************************************************************************)
EXTENDS TypeCheck

VARIABLES
  phase,       \* how far compile is
  entered,     \* for each map of chain, where its names were declared
  typed,       \* which declaration the typechecker found, by place of use
  cgFn, cgFrames, cgNode, ir, stmReturns, depth, module, diagnosed,
  cgArg,       \* number of arguments of cgFn that have their alloca
  symbols,     \* knownSymbols of codeGenContext (last) and its parents
  allocas,     \* where the allocas of the function are, by place
  loads        \* its loads: where they are, of which use, of which alloca

history == <<entered, typed>>
passed  == <<vars, history>>
scopes  == <<cgArg, symbols, allocas, loads>>
blocks  == <<cgFn, cgFrames, cgNode, ir, stmReturns, depth, module, diagnosed>>

allVars == <<passed, phase, scopes, blocks>>

Lowered(f) == [body |-> f.kids, ret |-> IF f.type = TYPE_VOID THEN "void" ELSE "value"]

Cg == INSTANCE CodeGenStm WITH
  Exp     <- Exp \cup IdIn,
  CondExp <- {},
  program <- [i \in DOMAIN program |-> Lowered(program[i])],
  fn      <- cgFn,
  frames  <- cgFrames,
  node    <- cgNode

-----------------------------------------------------------------------------
(* Places and uses *)

(* The statement a pass is at: n if it is about to enter n, else the one   *)
(* on top of the stack.                                                    *)
Path(f, n, stack) ==
  <<f>> \o [i \in 1 .. Len(stack) - (IF n = NoStm THEN 1 ELSE 0) |-> stack[i].pos]

At(n, stack) == IF n # NoStm THEN n ELSE stack[Len(stack)].stm

Slot(s, k) == IF s.op = "SDecls" THEN s.exps[k].init ELSE s.exps[k]

(* Of some slots of a statement, those that hold a variable.               *)
Variables(s, slots) == {k \in slots : Slot(s, k) # NoInit /\ Slot(s, k).op = "EId"}

Extend(f, new) == [x \in DOMAIN f \cup DOMAIN new |-> IF x \in DOMAIN new THEN new[x] ELSE f[x]]

-----------------------------------------------------------------------------
(* The typechecker, and what is remembered of it *)

(* The expressions that its next step visits.                              *)
Visited ==
  IF node # NoStm
  THEN CASE node.op \in {"SExp", "SReturn", "SWhile", "SIfElse"} -> {1}
         [] node.op = "SFor" -> 1 .. 3
         [] OTHER -> {}
  ELSE CASE InFrame("SDecls")  -> {Top.pos + 1} \cap DOMAIN Top.stm.exps
         [] InFrame("SDoWhile") -> {1}
         [] OTHER -> {}

(* Where the name that its next step enters is declared.                   *)
Declaring ==
  IF InFrame("DFun") THEN <<fn, 0, arg + 1>>
  ELSE Append(Path(fn, NoStm, frames), Top.pos + 1)

Remember ==
  /\ LET inner == [x \in DOMAIN chain'[Len(chain')] |->
                     IF x \in DOMAIN entered[Len(entered)] THEN entered[Len(entered)][x]
                     ELSE Declaring]
     IN entered' = CASE Len(chain') > Len(chain) -> Append(entered, NoMembers)
                     [] Len(chain') < Len(chain) -> SubSeq(entered, 1, Len(entered) - 1)
                     [] OTHER -> [entered EXCEPT ![Len(entered)] = inner]
  /\ LET s    == At(node, frames)
         path == Path(fn, node, frames)
         new  == {Append(path, k) : k \in Variables(s, Visited)}
     IN typed' = IF Visited = {} THEN typed
                 ELSE Extend(typed, [u \in new |-> findSymbol(entered, Slot(s, u[Len(u)]).name)])

(* One step of TypeCheckVisitor.                                           *)
typeCheck ==
  /\ phase = "typecheck"
  /\ Next
  /\ Remember
  /\ UNCHANGED <<phase, scopes, blocks>>

(* Mutant of compileTypeChecked: anyErrors is not looked at.               *)
compileUngated ==
  /\ phase = "typecheck"
  /\ Done
  /\ phase' = IF crashed THEN "crashed" ELSE "codegen"
  /\ UNCHANGED <<passed, scopes, blocks>>

(* compile: exit(1) after errors, else on to the code generator.           *)
compileTypeChecked ==
  /\ phase = "typecheck"
  /\ Done
  /\ phase' = IF crashed THEN "crashed" ELSE IF anyErrors THEN "rejected" ELSE "codegen"
  /\ UNCHANGED <<passed, scopes, blocks>>

-----------------------------------------------------------------------------
(* The code generator's scopes *)

Arguments == program[cgFn].args

Entered == phase = "codegen" /\ (cgFrames # <<>> => cgArg = Len(Arguments))

(* A mutant of beginCodeGenContext: the child starts as a copy.            *)
beginCodeGenContextCopy == symbols' = Append(symbols, symbols[Len(symbols)])

beginCodeGenContext == symbols' = Append(symbols, NoMembers)
endCodeGenContext   == symbols' = SubSeq(symbols, 1, Len(symbols) - 1)

Symbol(place, type) == [place |-> place, type |-> type]

(* CodeGenContext::addSymbol: a name that this context holds is kept.      *)
Added(id, symbol) == [symbols EXCEPT ![Len(symbols)] = Emplace(@, id, symbol)]

NotFound == Symbol(<<>>, null)

(* CodeGenContext::findSymbol is Context::findSymbol word for word.        *)
Lookup(known, id) == IF Holders(known, id) = {} THEN NotFound ELSE findSymbol(known, id)

(* Where the next instruction goes.                                        *)
Here == <<ir.at, Len(Cg!InsertBlock(ir)) + 1>>

(* The expressions that the next step of the code generator visits, with   *)
(* the instructions it makes of them.                                      *)
Generated ==
  LET top  == cgFrames[Len(cgFrames)]
      test == <<Cg!NextBlock(ir), 1>>
  IN IF cgNode # NoStm
     THEN CASE cgNode.op \in {"SExp", "SReturn"}     -> <<Here>>
            [] cgNode.op \in {"SWhile", "SIfElse"}   -> <<test>>
            [] cgNode.op = "SFor"                    -> <<Here, test>>
            [] OTHER                                 -> <<>>
     ELSE CASE Cg!Resuming("SDoWhile", 1)            -> <<<<top.base + 2, 1>>>>
            [] Cg!Resuming("SFor", 1) /\ ~ stmReturns -> [k \in {3} |-> Here]
            [] Cg!InDecls                            -> [k \in {top.pos + 1} |-> Here]
            [] OTHER                                 -> <<>>

(* visitEId of the variables a step visits, against what is known then.    *)
(* One that is not found throws a string, which nobody catches.            *)
visitEIds(known) ==
  LET s    == At(cgNode, cgFrames)
      path == Path(cgFn, cgNode, cgFrames)
      vs   == IF Generated = <<>> THEN {} ELSE Variables(s, DOMAIN Generated \cap DOMAIN s.exps)
      found(k) == Lookup(known, Slot(s, k).name)
  IN IF \E k \in vs : found(k) = NotFound
     THEN phase' = "thrown" /\ UNCHANGED loads
     ELSE /\ phase' = phase
          /\ loads' = loads \cup
               {[at |-> Generated[k], use |-> Append(path, k), alloca |-> found(k).place] : k \in vs}

-----------------------------------------------------------------------------
(* Its handlers: the blocks by CodeGenStm, the names here *)

visitDFunBody ==
  /\ Entered
  /\ UNCHANGED passed
  /\ Cg!visitDFun
  /\ cgArg' = 0
  /\ beginCodeGenContext
  /\ allocas' = NoMembers
  /\ loads' = {}
  /\ UNCHANGED phase

(* One argument gets its alloca, in the entry block.                       *)
visitArgument ==
  /\ phase = "codegen" /\ cgFrames # <<>>
  /\ cgArg < Len(Arguments)
  /\ cgArg' = cgArg + 1
  /\ LET a     == Arguments[cgArg + 1]
         place == <<cgFn, 0, cgArg + 1>>
     IN /\ symbols' = Added(a.name, Symbol(place, a.type))
        /\ allocas' = Extend(allocas, [p \in {place} |-> <<1, 0>>])
  /\ UNCHANGED <<passed, phase, blocks, loads>>

visitSBlockScope ==
  /\ Entered
  /\ UNCHANGED passed
  /\ Cg!visitSBlock
  /\ beginCodeGenContext
  /\ UNCHANGED <<phase, cgArg, allocas, loads>>

(* Mutant of endScope: the context is left open on a break.                *)
endScopeUnlessBroken ==
  /\ Entered
  /\ UNCHANGED passed
  /\ Cg!endSBlock \/ Cg!endDFun
  /\ IF Cg!Broken THEN UNCHANGED symbols ELSE endCodeGenContext
  /\ UNCHANGED <<phase, cgArg, allocas, loads>>

endScope ==
  /\ Entered
  /\ UNCHANGED passed
  /\ Cg!endSBlock \/ Cg!endDFun
  /\ endCodeGenContext
  /\ UNCHANGED <<phase, cgArg, allocas, loads>>

(* Mutant of visitDeclarator: the name is entered after its initialiser.   *)
visitDeclaratorLate ==
  /\ Entered
  /\ UNCHANGED passed
  /\ Cg!visitIdInit
  /\ LET top   == cgFrames[Len(cgFrames)]
         place == Append(Path(cgFn, NoStm, cgFrames), top.pos + 1)
         type  == findBasicType(types, top.stm.type)
         known == Added(top.stm.exps[top.pos + 1].name, Symbol(place, type))
     IN /\ symbols' = known
        /\ allocas' = Extend(allocas, [p \in {place} |-> Here])
        /\ visitEIds(symbols)
  /\ UNCHANGED cgArg

(* One name of a declaration: its alloca is entered, then its initialiser  *)
(* is visited.                                                             *)
visitDeclarator ==
  /\ Entered
  /\ UNCHANGED passed
  /\ Cg!visitIdInit
  /\ LET top   == cgFrames[Len(cgFrames)]
         place == Append(Path(cgFn, NoStm, cgFrames), top.pos + 1)
         type  == findBasicType(types, top.stm.type)
         known == Added(top.stm.exps[top.pos + 1].name, Symbol(place, type))
     IN /\ symbols' = known
        /\ allocas' = Extend(allocas, [p \in {place} |-> Here])
        /\ visitEIds(known)
  /\ UNCHANGED cgArg

(* Every other step of the code generator.                                 *)
visitStatement ==
  /\ Entered
  /\ UNCHANGED passed
  /\ \/ Cg!visitNext \/ Cg!visitSExp \/ Cg!visitSReturn \/ Cg!visitSReturnV
     \/ Cg!visitSDecls \/ Cg!endSDecls
     \/ Cg!visitSWhile \/ Cg!endSWhile \/ Cg!visitSDoWhile \/ Cg!endSDoWhile
     \/ Cg!visitSFor \/ Cg!endSFor
     \/ Cg!visitSIfElse \/ Cg!elseSIfElse \/ Cg!endSIfElse
  /\ visitEIds(symbols)
  /\ UNCHANGED <<cgArg, symbols, allocas>>

(* compile after the last function: printIR and exit(0).                   *)
printIR ==
  /\ Entered
  /\ Cg!Done
  /\ phase' = "printed"
  /\ UNCHANGED <<passed, scopes, blocks>>

ScopeInit ==
  /\ Init
  /\ phase = "typecheck"
  /\ entered = <<NoMembers>>
  /\ typed = NoMembers
  /\ cgFn = 0 /\ cgFrames = <<>> /\ cgNode = NoStm
  /\ ir = Cg!EmptyFunction
  /\ stmReturns \in BOOLEAN
  /\ depth = 0 /\ module = <<>> /\ diagnosed = {}
  /\ cgArg = 0
  /\ symbols = <<NoMembers>>
  /\ allocas = NoMembers
  /\ loads = {}

CodeGenNext ==
  \/ visitDFunBody \/ visitArgument
  \/ visitSBlockScope \/ endScope
  \/ visitDeclarator \/ visitStatement

ScopeNext == typeCheck \/ compileTypeChecked \/ CodeGenNext \/ printIR

ScopeSpec == ScopeInit /\ [][ScopeNext]_allVars

-----------------------------------------------------------------------------
(* Properties *)

IsPlace(p) == p \in Seq(Nat) /\ Len(p) >= 3

(* Scopes map names to allocas of known types, and every load is of an     *)
(* alloca of this function.                                                *)
ScopeTypeOK ==
  /\ phase \in {"typecheck", "rejected", "crashed", "codegen", "thrown", "printed"}
  /\ Len(entered) = Len(chain) /\ \A i \in DOMAIN chain : DOMAIN entered[i] = DOMAIN chain[i]
  /\ \A i \in DOMAIN symbols : \A x \in DOMAIN symbols[i] :
       symbols[i][x].place \in DOMAIN allocas /\ symbols[i][x].type \in DOMAIN types \ {TYPE_VOID}
  /\ \A p \in DOMAIN allocas : IsPlace(p) /\ p[1] = cgFn
  /\ \A l \in loads : IsPlace(l.use) /\ l.use[1] = cgFn /\ l.alloca \in DOMAIN allocas

(* The statements on the way to a place, the function first and the        *)
(* statement of the place last; arguments are the function's.              *)
Way(place) ==
  LET way[i \in 1 .. (IF place[2] = 0 THEN 1 ELSE Len(place) - 1)] ==
        IF i = 1 THEN program[place[1]] ELSE way[i - 1].kids[place[i]]
  IN way

StatementAt(place) == Way(place)[Len(place) - 1]

NameAt(use) == Slot(StatementAt(use), use[Len(use)]).name

(* What a statement declares into the scope around it: names, and the way  *)
(* from it to each.                                                        *)
Around[s \in Stm] ==
  CASE s.op = "SBlock" -> {}
    [] s.op = "SDecls" -> {<<s.exps[k].name, <<k>>>> : k \in DOMAIN s.exps}
    [] OTHER ->
         UNION {{<<e[1], <<k>> \o e[2]>> : e \in Around[s.kids[k]]} : k \in DOMAIN s.kids}

(* A variable in its own initialiser.                                      *)
SelfInitialised(use) ==
  LET s == StatementAt(use) IN
    s.op = "SDecls" /\ s.exps[use[Len(use)]].name = NameAt(use)

(* A variable in the last expression of a for whose body, without braces,  *)
(* declares a variable of that name.                                       *)
SteppedByBody(use) ==
  LET s == StatementAt(use) IN
    s.op = "SFor" /\ use[Len(use)] = 3 /\ NameAt(use) \in {e[1] : e \in Around[s.kids[1]]}

(* A variable is loaded from the alloca of the very declaration the        *)
(* typechecker typed it with (CodeGenVisitor.cpp:289 and                   *)
(* TypeCheckVisitor.cpp's visitEId), with two exceptions, and those always *)
(* differ: a variable in its own initialiser, where only the code          *)
(* generator has entered the name (:110), and in the last expression of a  *)
(* for, which the code generator visits behind the body (:219).            *)
BoundAsTyped ==
  \A l \in loads :
    l.alloca = typed[l.use] <=> ~ SelfInitialised(l.use) /\ ~ SteppedByBody(l.use)

(* "Variable used before initializing it" (CodeGenVisitor.cpp:291) is      *)
(* never thrown for a program the typechecker passed, although the code    *)
(* generator enters other names at other times and leaves statements out.  *)
NamesAreFound == phase # "thrown"

(* The CodeGenContexts are a table of what every name means too, broken    *)
(* loops included; that no context gets a name twice is the typechecker's  *)
(* doing, addSymbol's result is not looked at (CodeGenVisitor.cpp:110).    *)
TypeTable(known) ==
  [x \in Id |-> Lookup(known, x).type]

CgLexical == INSTANCE LexicalScope WITH
  Name    <- Id,
  Meaning <- DOMAIN types,
  Unknown <- null,
  visible <- TypeTable(symbols),
  local   <- DOMAIN symbols[Len(symbols)],
  outer   <- [i \in 1 .. Len(symbols) - 1 |->
               [visible |-> TypeTable(SubSeq(symbols, 1, i)), local |-> DOMAIN symbols[i]]]

CodeGenIsLexicalScope == CgLexical!Spec
=============================================================================
