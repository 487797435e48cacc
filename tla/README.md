# A verification of the compiler in `src/project2`

The program compiles a subset of C++ (integers, doubles, booleans, structs,
functions, loops, conditionals) to LLVM IR. It is a single thread that runs
three visitors over one syntax tree and exits; its difficulty is in what the
visitors carry from one handler to the next: a flag, an insertion point, a chain
of scopes, exceptions that unwind some of them, tables that one pass fills and
another trusts.

All source paths below are relative to `src/project2/src/`.

## Inventory

| Part | State | Operations | Interacts with | What makes it correct |
|---|---|---|---|---|
| `main.cpp` | exit status, standard output | `main`, `process`, `compile`: four passes, a gate on `anyErrors` behind the first two, the printing of the IR | all passes; the scripts that read its status and its output | exits with 1 only behind an error, with 0 only without one and behind the IR |
| `Context`, `Types` | `types`, `basicSymbols`, `functionSymbols`, `parent` | `addSymbol`, `findSymbol`, `addStructDeclaration`, `findBasicType`, `addFunction`, `findFunction`, `createChildContext` | written by `ContextBuilder` and `TypeCheckVisitor`, read by all | one type per name; the innermost declaration of a name is found; first declarations stay |
| `BasicVisitor` | `currentContext`, `currentTypeId`, `anyErrors` | `tryVisit`, `handleError`, `beginContext`, `endContext` | base class of all visitors | one error is recorded and hides no other |
| `ContextBuilder` | the default context, the arguments or members read so far | `visitDFun`, `visitDStruct` | its context is handed to the typechecker | accepts exactly the well-formed declarations; signatures are complete |
| `TypeCheckVisitor` | `resultExpType`, `isResultExpVariable`, `returnType`, the chain of contexts | one handler per statement and expression | reads the default context, annotates `Exp::type` for the code generator | accepts exactly the well-typed bodies; scopes survive unwinding |
| `LLVMContextBuilder` | `typeMap`, the module's struct types and functions | `createTypeObjects`, `visitDFun` | reads the context, writes what `CodeGenVisitor` uses | no missing entry in `typeMap`; one LLVM function per function |
| `CodeGenVisitor` | `stmReturns`, `expValue`, the insertion point, `codeGenContext` | one handler per statement and expression | calls LLVM's `IRBuilder`, `verifyFunction` | the blocks are well formed and do what the source says |
| `CodeGenContext` | `knownSymbols`, `parent` | as `Context` | `CodeGenVisitor` | a name is bound to the variable the typechecker typed |
| `Absyn`, `CPP.cf`, `Errors` | the tree; messages | generated constructors and `accept`; wording | everything | - |

Nothing here is concurrent, persistent or distributed: there are no crashes to
recover from, no messages and no timeouts. The hard behaviours are

* **state that outlives its handler**: `stmReturns` survives from one statement,
  loop or function to the next, the insertion point moves under every handler;
* **non-local exits**: a `TypeCheckingError` unwinds handlers that opened
  contexts, a `break` leaves list loops early;
* **order**: blocks are created before the code that goes between them, structs
  are translated in the order in which they were declared, a name is entered
  before or after its initialiser is visited;
* **partial failure**: passes go on after an error and leave arguments, members or
  definitions out; later passes trust what is left; what is in the buffer of `llvm::outs()`
  is lost if the process aborts;
* **two walks over one tree**: the code generator opens its own scopes, converts by its own
  rules and stops at returns, and yet has to agree with what the typechecker noted;
* **numbers at the edge**: words wrap around, a comparison bit sign-extends to -1, ints meet
  doubles, a NaN is neither less nor more;
* **uninitialised memory**: `Context::parent` of the default context
  (`Context.h:14`) and `CodeGenVisitor::stmReturns` (`CodeGenVisitor.h:46`).

`PROJECT.json` lists these as hazards, each at its line.

## Modules

| Module | Models |
|---|---|
| `IRBuilder` | external: basic blocks, the insertion point, `verifyFunction`'s view of terminators |
| `CodeGenStm` | `CodeGenVisitor`: functions, statements, blocks, `stmReturns`, nesting of `CodeGenContext`s |
| `ReturnPaths` | which statements return on every path, by recursion over the tree, and what that says of a generated function |
| `CodeGenMeaning` | the meaning of a source function and of its blocks, run side by side |
| `Context` | `Context` and `Types`: types, names, `std::map` operations |
| `ContextBuilder` | the first pass, and the first gate of `compile` |
| `LLVMContextBuilder` | that pass composed with the typechecker's verdict, the second gate and `LLVMContextBuilder` |
| `LexicalScope` | abstract: one table of what every name means, with open, close and declare |
| `TypeCheck` | `TypeCheckVisitor`: functions, statements, contexts, throwing and catching |
| `TypeCheckMeaning` | which programs are well typed, by a recursive function on finite trees alone |
| `Expression` | expression trees and what is known where they are visited; conversion and member lookup |
| `ExpressionTypes` | the type of an expression, and which have none, by a recursive function on finite trees alone |
| `TypeCheckExp` | `TypeCheckVisitor`: expressions, the types it notes in the tree |
| `CodeGenExp` | that composed with `CodeGenVisitor`: expressions, the values and instructions it makes |
| `CodeGenExpTerms` | which types the values and instructions have to have for LLVM, and what comparisons come to |
| `CodeGenExpMeaning` | evaluation of the source, execution of the generated blocks |
| `Numbers` | words, doubles, and what the comparisons of LLVM give on them |
| `CodeGenScope` | `TypeCheck` and then `CodeGenStm` on one program, with the bindings of the `CodeGenContext`s, the allocas and the loads; the bindings of the two passes compared |
| `CodeGenScopeMeaning` | dominance over the generated blocks |
| `Compilation` | abstract: what the status and the output of a run promise |
| `Compiler` | `main.cpp` around `LLVMContextBuilder`'s passes and, one step each, the function bodies |
| `MC*` | finite instances for TLC |
| `*Proofs` | theorems |

### How code becomes actions

A visitor recurses with `accept()`. The models keep the C++ stack explicit:
`frames` holds one record per handler that is waiting for a child, `node` is the
child entered next. A handler is cut into one action per stretch between two
`accept()` calls on statements. So `visitSFor` is the code up to the visit of the
body (`CodeGenVisitor.cpp:191-210`), `endSFor` the code after it (`:211-225`), and
everything a stretch does to the blocks, the flag and the contexts is in the one
action. `visitNext` and `ListDone` are the loop of `visitDFun` and `visitSBlock`
with its `break`.

`CodeGenStm.ir` is the list of blocks of the current function with the insertion
point. Instructions that matter to control flow are kept (`br`, `condbr`, `ret`);
the straight-line code of an expression is one `eval`. A ternary creates its three
blocks (`GenCond`). Ternaries inside ternaries are not told apart from single
ones: they too leave the insertion point in an open block. The flag starts with an arbitrary
value and is never reset between functions, as in the code.

`ContextBuilder` takes one step per argument or field and one per definition; a
type pointer is a position in `types`, `nullptr` is 0. `rootParent` says what the
uninitialised `parent` happened to hold, `"null"` or `"junk"`; with `"junk"`, every
lookup that fails in the default context crashes (`danglingParent`, `Crash`).
`createTypeObject` uses `operator[]` as the code does, which enters null where
there is no entry; that this does not happen is a property and not an assumption.

`TypeCheck.chain` is the chain of `basicSymbols` maps from the default context to
`currentContext`. `Throw` cuts the stack back to the innermost list loop (the only
callers of `tryVisit` inside a function) and leaves `chain` alone, since nothing on the
way has a cleanup. An expression is reduced to what its visit comes to: the type
of a variable, some type, or an error. Where a handler visits several expressions,
the first that fails decides.

`CodeGenScope` takes the actions of `TypeCheck` and, by `INSTANCE`, those of `CodeGenStm`, and adds
what each does to names. A *place* (function, positions down the tree) names a declaration or a
use; `typed` notes which declaration the typechecker found for a use, `loads` which alloca the code
generator did. It enters a name before it visits the initialiser (`CodeGenVisitor.cpp:110`) and
visits the last expression of a `for` behind the body (`:219`), the typechecker the other way
round, and both orders are in the actions.

`Compiler` has two outputs, as the program has: `std::cout`, whose messages end in `endl` and are
out at once, and `llvm::outs()`, which is buffered. LLVM may write the buffer at any time
(`flush`), `exit` writes it (`exitZero`), and a thrown string that nobody catches loses it
(`throwString`). What a function body comes to is a choice here: in which cases there is a message,
a complaint of the verifier or a throw is what `CodeGenStm` and `CodeGenExp` are about.

`TypeCheckExp` and `CodeGenExp` run one after the other on one expression, as `compile` does.
A frame also keeps the operand being visited and what the handler's local variables hold across
that visit; the operands' positions along the stack are the node's path, under which `type` keeps
`Exp::type`. Handlers that do the same to the state share an action (`endStep` is the four of
`++` and `--`); where they differ, as the sums do in what they accept and yield, the action tells
them apart. `expValue` is a term over constants and registers. Loads, stores, calls and branches
are instructions of `ir`; everything else has no effect and is left in the term. `genAssignment`
stores a member by putting it into a fresh copy of the whole variable, which `Chain` and `Root`
find in the tree as the code does. A null pointer and `UNREACHABLE_OH_NO` end the run in a phase of
their own.

## Runs

All state spaces are explored completely, and each run takes two minutes at most.

| Run | Shows | Instances and why they are enough |
|---|---|---|
| `codegen_stm` | `OpenAtVisit`, `OverrunOnlyByBackEdge`, `PendingUntouched`, `LeftBlocksFinal`: block layout; `ContextPerScope`: contexts; `VerifiedMeansSource`: a function that passes `verifyFunction` evaluates the same expressions and returns at the same place as its source, whatever its conditions; `PlainIsVerified`: outside four shapes every function passes; `NoFalseDiagnosis`; `CompilesToTheEnd` | Every statement tree of depth three over plain leaves with one branch of an if or half of a block simple; all pairs of shallow statements; ternaries at every place an expression can be; two functions in a row for what the flag carries over. A handler only sees its children through the flag and the insertion point, and both of their values occur below every handler. All outcomes of up to four conditions: enough to go round each of two nested loops and to leave them. |
| `codegen_scope` | `BoundAsTyped`: a use is bound to the declaration it was typed with, two forms excepted; `AllocaDominatesUse`: and that alloca has run on every way to it, but for declarations without braces; `NamesAreFound`: no name is missing; `StackGrowsOnlyInLoops`; `CodeGenIsLexicalScope`: the `CodeGenContext`s implement `LexicalScope` too | Declarations, redeclarations, self-initialisers and uses in every kind of statement and in blocks and loops around those, arguments of the same names, two functions in a row. Two names: one to be shadowed and one to be initialised from it. |
| `compiler` | `KeepsPromise`: a run implements `Compilation`; `ComesToAnExit`; `OneBodyEach`: the printed module has one body for each function; `ErrorsExact`, `ContextFaithful`: errors of one definition do not hide others and accepted ones are entered as written; `TypeNamesUnique`, `FirstDeclarationStays`, `MembersComeFirst`, `NoNullType`, `CodeGenIsPrepared`: what later passes rely on | Up to three definitions over two names, with every one-part and two-part mix of known, unknown, void, repeated and self-referring types. Two names suffice for duplicates, three definitions for use before, after and between declarations. Missing and unparsable files, any verdict of the typechecker and any outcome of each body. |
| `type_check` | `AcceptsExactlyWellTyped`, `CrashesOnIllTyped`: verdicts agree with a judgement on trees; `ContextPerScope`, `IsLexicalScope`: the chain under unwinding; `ComesToTheEnd` | Blocks in loops in blocks, errors at every expression of every statement, a variable that is declared, shadowed, shadowed with another type or missing, two functions in a row. |
| `codegen_exp` | `VerdictIsTyping`: verdict and noted types against a judgement on trees; `ValueHasNotedType`, `OperandsAgree`: both visitors agree on every type inside of an expression, and nothing in it reaches LLVM unconverted, down to the terms a value is made of; `GeneratedMeansSource`: value, variables, calls and choices of the code are those of the source; `ComparisonsCompute`: a comparison gives what the operator says of the two numbers; `CompilesWhatIsTyped`: every well-typed expression gets to the end, two forms excepted | Every operator over one operand of each type, variables, members, members of members and a member of a returned struct; steps, assignments, calls and ternaries as operands of every operator; ternaries in ternaries, chained assignments and members of steps. Values are symbolic, so each program is checked for all numbers, and each with all outcomes of its conditions; the comparisons are computed too, on all pairs of words of 3 bits and of the doubles these round to, two words of which round to the same. Terms are looked into down to `Depth` 8; in these programs none is as deep as 6. A handler sees its operands only through their type, their value and the variable flag. |
| `ifelse_good` | violated: `VerifierAccepts` | the test `tests/0-ifelse-good.cc` |
| `while_return` | violated: `FallThroughDiagnosed` | one loop with a return in it |
| `stale_returns` | violated: `VerifierAccepts` | a function that returns, then an empty void one |
| `structs_test` | violated: `DoesNotCrash` | the test `tests/0-structs.cc` |
| `compare_void` | violated: `UnreachableIsUnreached` | the programs of `codegen_exp` |
| `change_temporary` | violated: `OnlyVariablesChange` | the programs of `codegen_exp` |
| `unbraced_declaration` | violated: `UsesAreDominated` | the programs of `codegen_scope` |

`CHECK_DEADLOCK FALSE` is set everywhere because the compiler stops when it is done.

`PlainIsVerified` names the shapes that go wrong instead of excluding what would be
inconvenient: a body of `while` or `do` that always returns, an else branch that always
returns, a value function that can fall off its end, and an empty function behind one that
returned. For the rest it claims well-formed blocks. `ifelse_good`, `while_return` and
`stale_returns` show three of these shapes.

`CompilesWhatIsTyped` likewise names the two forms that are accepted and not compiled: `==` and
`!=` between void operands, and a change to a member of what is no variable (`compare_void`,
`change_temporary`). For `&&` and `||`,
`GeneratedMeansSource` has both sides evaluated always, left before right, as the code does
(`CodeGenVisitor.cpp:662-680`); C++ would not, and nothing in the repository says which is meant.

`BoundAsTyped` names two exceptions and says that they are always wrong: a variable in its own
initialiser, and a variable in the last expression of a `for` whose body, without braces, declares
a variable of that name. `AllocaDominatesUse` leaves out the uses outside of a branch or loop body that
is, without braces, a declaration (`unbraced_declaration`).

### Fairness

The liveness properties assume weak fairness of the whole next-state relation:
the compiler is one thread, no step waits for anything, and the operating system
runs it. No action is singled out.

### Findings

1. `CodeGenVisitor.cpp:269`: both branches of an if return, and the block behind it
   stays empty. `tests/0-ifelse-good.cc` is such a program; its IR is not accepted by
   `llvm-as`, while the compiler exits with 0 because the result of `verifyFunction`
   is not used.
2. `CodeGenVisitor.cpp:157`: a `while` whose body returns counts as a return, so a function
   that falls off its end behind it is not diagnosed.
3. `CodeGenVisitor.cpp:74`: `stmReturns` of the previous function decides whether an empty
   void function gets its `ret void`.
4. `Context.h:14`: the lookup of a new struct's name follows the uninitialised `parent`.
5. `CodeGenVisitor.cpp:752`: `g() == g()` with a void `g` is accepted by the typechecker and comes
   to the branch marked as unreachable, which throws a string that nobody catches.
6. `TypeCheckVisitor.cpp:242`: a member of a returned struct counts as a variable; an assignment
   to it makes `genAssignment` follow a null pointer.
7. `CodeGenVisitor.cpp:258`: a declaration that is all of a branch or of a loop's body, without
   braces, opens no scope; code behind it finds the name and loads from an alloca that need
   not have run, which LLVM's verifier rejects.

Three more observations contradict nothing that the repository says and are no findings.
`TypeCheckVisitor.cpp:577` rejects a ternary of an int and a double, for which
`CodeGenVisitor.cpp:699` has a conversion that can never be made. The comparisons of doubles use
the unordered predicates, so `<`, `>`, `<=`, `>=` and `==` are all true, and `!=` is not, as soon as
one operand is NaN (`NaNComparesTrue`). The comment at `CodeGenVisitor.cpp:31` speaks of structs "that are
defined later"; the first pass accepts only structs that are defined earlier (`ErrorsExact`).

## Proofs

`tlapm` checks every proof to its leaves. All theorems hold for every value of the
constants, that is for every set of trees and programs and not only the bounded
ones above.

**`CodeGenStmProofs`** (assumes `StmAssumption`: trees are closed under sub-statements).
`Invariance` proves an inductive invariant, `IInv`, for the code generator. `OpenAtVisit` alone is
not inductive: whether the insertion block is open when a handler resumes depends on the child that
just returned. `Blocks` strengthens it with four facts. *Appendable*: the insertion block is open
whenever a statement is entered or control is back in a handler that `stmReturns` does not stop.
*Reserved*: the blocks that suspended handlers will fill are pairwise distinct, empty and not the
insertion block. *ShapedIR*: every block is open, ends in its only terminator, or is a block
behind whose `ret` the back edge of a loop was put. *Fillable*: the insertion block is open or
ends in a `ret`.
`Control` says that the stack is a well-formed nest of handlers with one `CodeGenContext` for each
function and block in it. Each action has a lemma, built from one lemma for each way a handler is
entered, left or resumed. From `IInv` follow `TypeCorrect`, `NoStatementBehindTerminator`,
`OnlyBackEdgesOverrun`, `ContextsBalanced`, `ReservedBlocksUntouched` and, as an action property,
`LeftBlocksAreFinal`.

Its second part (assumes also `ReturnPaths`' `HeightAssumption`: trees are finite) is about what
the flag means. `FollowsTheTree` adds `Walk` to the invariant: the stack is a path down the
tree of the function at work, and `stmReturns` is `Sets` of the statement that returned last,
a function of that statement alone; that a flag which is never reset is one takes the whole path,
since every handler either has just visited a child or has none. `ReturnsSets` and `PlainSets`
relate `Sets` to the reader's notion of returning on every path, by induction over trees;
`NoFalseAlarm` (`NoFalseDiagnosis`) follows from the first. `PlainFunctionsVerify` (`PlainIsVerified`)
needs one more invariant, `Tidy`: while a plain function is generated, no block but the insertion block
and the reserved ones is unfinished, and the insertion block is finished too when the flag
says so. `Settles` says what each `IRBuilder` operation does to the unfinished blocks.

**`TreeProofs`** has the induction over trees that the theorems on `Sets`, on types and on
judgements use. The library's induction theorems take an operator as a parameter and cannot be used; instead
`TreeInduction` speaks of a set: if it holds a tree whenever it holds all parts of the tree, it holds all of
them, since a tree outside of it of least height (`WFMin`) would have all its parts inside.
`TreeFunction` says that a function defined by recursion over the parts is what its definition says.

**`LLVMContextBuilderProofs`** (assumes `IdAssumption`: keywords are no identifiers, and
`ProgramsAssumption`). The invariant adds to the type invariant that the four basic types stay in
place, that the members of the struct being read are types already there, and that `typeMap`
holds exactly the types translated so far while they are translated and all of them
afterwards. `PointersAreNames`, `TypesAreOrdered`, `LookupsHit` and `TypeCorrect` follow.

Its second part is about the first pass. `DeclarationsStay` is an action property: the context
only grows. `ErrorsAreExact` rests on `DInv`: the names of the types are those of the structs read so
far, in error or not, since `visitDStruct` enters the name first; while there is no error the
functions and the members of the struct at hand are all there; and `anyErrors` is set exactly if
something read so far is ill-formed. `ContextIsFaithful` adds `FInv`, that what was read without
error is in the context as written, which needs `DeclarationsStay` for the pointers found earlier. For
`CodeGenStartsPrepared`, `LLVMNames` says that past the gate the names are the whole program's and
that the LLVM types and functions come in their order.

**`TypeCheckProofs`** (assumes `IdAssumption` and `TypeCheckAssumption`: trees are closed under
sub-statements, and the types are as `ContextBuilder` leaves them, the four basic ones first and
no two of one name, which `PointersAreNames` proves of that pass). The invariant of `Invariance`
counts: one open context per function or block on the stack, whose only `visitDFun` is at the
bottom; that is what makes a loop that catches errors always be there, and the contexts match
after the stack is cut. `TypeCorrect` and `ContextsFollowScopes` follow. `ImplementsLexicalScope` is the
refinement `Spec => Lexical!Spec`: `NextInv` says that every step leaves the chain alone or opens,
closes or declares in it, and `Opened`, `Closed` and `Declared` say what each does to every lookup and to
the tables that closing will restore.

Its second part (assumes also `HeightAssumption`) is `JudgesPrograms`: `AcceptsExactlyWellTyped` and
`CrashesOnIllTyped` for all programs. The judgement, `After`, maps a scope and a statement to the scope
behind it; the visitor has a stack, maps it mutates and exceptions. The invariant, `Verdict`, ties them together:
once there is an error, or a crash, the program is not well typed; without one, all functions
before the present one are well typed, and `Story` says that the present one is if and only if
what is left is: `Story` starts from the scope that `chain` stands for and lets each handler
on the stack, from the top down, `Finish` what it has left to do by the judgement. Each action has a lemma that its step leaves
the `Story` as it was (`...Good`), or that the error it throws is one of the judgement too, which
`StoryFails` carries through all handlers that are unwound: a scope that is not well stays so.

**`CodeGenExpProofs`** (assumes `ExpressionAssumption`: the types are as `ContextBuilder` leaves
them, a member's type before its struct's, which `TypesAreOrdered` proves; `HeightAssumption`;
`ProgramsAssumption`; `IdAssumption`). One invariant covers both visitors. While the typechecker
runs, it says of every suspended handler that its operands so far are noted with the types
that `ExpressionTypes` gives them, and of the operand that just returned that `resultExpType`
is its type; `Decides` (`VerdictIsTyping`) is this at the end, with an error exactly where the
judgement has none. Past the gate, all nodes below the root are noted as judged, and the invariant says of every suspended
handler of the code generator that the values it holds have the noted types. `ValuesAsNoted`
(`ValueHasNotedType`) and `TypeCorrect` follow, and a theorem no run states: `AbortsAreKnown`, a typed
expression makes the code generator abort only in the two forms of findings 5 and 6.

Types at the root of a term do not say that the term is well made, so the invariant says two more
things of every value: `IsTerm`, it belongs to the terms whose parts are terms too and have the types that
the operation works on, and, past a comparison, `Compares`, which operator it is and which of its two
operands came through `sitofp`. For a member that is read or assigned, the path that `Chain` finds in the
tree has to lead from the type of the variable at `Root` to the member's (`PartsLead`, `ChainLeads`); a
comparison of structs walks two types at once (`PathSums` over the levels of the types, `BothTerms`).
`Agreement` (`OperandsAgree`) follows for every `Depth`, since what is inside of terms are terms
(`NestedInside`). `Compute` (`ComparisonsCompute`) adds the theorems on numbers: whichever of the
two operands was converted, the predicate chosen for the common type is the operator's order.

Its theorems on numbers assume `HalfAssumption`, a word has two bits or more; `NaNAssumption`; and
`RoundedAssumption`, `sitofp` keeps the order. `Wrap` gives the one word that is a whole number of
rounds away (`WrapRound`, `WrapUnique`); from that `StepsUndo`: `++` and `--` undo each other, at the ends of the
range too. `PredicatesOrder`, `TwcIsSign` and `MixedNeverReversed` state for all widths what
`Compute` needs: the predicates are the operators' orders, `<=>` is
the sign of the order although its two bits are subtracted backwards
(`CodeGenVisitor.cpp:540`), and rounding an int beside a double may make two numbers equal but never
turns them round.

**`CodeGenScopeProofs`** (assumes what `TypeCheckProofs` does). `StepsOfTypeCheck` (`ScopeSpec => Spec`)
brings in what is proved of the typechecker: code is generated only for a well-typed program. The
code generator's handlers do to the `CodeGenContext`s what the judgement does to a scope, so the
invariant, `Bindings`, is the `Story` of `TypeCheckProofs` again, told of the other walk: what is left to do
is well typed with the names that the `CodeGenContext`s hold now. There the two walks differ, and so do the proofs.
What is behind a return is left out: an end can be put to any list early (`EndBlockStep`,
`EndFunctionStep`), because to leave out the rest of a story that ends well leaves one that does.
The last expression of a `for` is looked up behind the body: `Held` keeps, for each `for` on the
stack, that its step finds its names in the contexts now open, since a body adds names and takes none away
that were there before. An initialiser is looked up with its own name entered, which loses none (`StillFound`).
`AllNamesAreFound` (`NamesAreFound`) follows. `BindingsAreLexical` is the refinement
`ScopeSpec => CgLexical!Spec`: a `CodeGenContext` becomes the typechecker's kind of map by forgetting places (`Known`), and
`Opened`, `Closed` and `Declared` apply; that a declared name is new is a fact of the judgement and not of
`addSymbol`, whose result is not looked at. `ScopeTypesCorrect` (`ScopeTypeOK`) adds `Places`: each
name's place is that of an alloca of this function, which needs that an argument has a type other than void and
a position of its own, and that a function starts from the root context alone.

**`BindingProofs`** (assumes the same) is about one theorem, `SameDeclaration` (`BoundAsTyped`). It speaks
of two walks that do not know of each other, one of them over before the other begins, and of what they find
at one place; so the invariant, `SameBindings`, says of each walk alone how its scopes follow from
where it is in the tree, and the walks are compared only through that.

* `Track` is the common part: for each handler on the stack, the scopes below it (`Legs`) are
  those around its statement with the names gained (`Gains`) that lie behind its position
  (`Inside`, built on `Around`, what a statement declares outside of itself). What calls, returns and
  steps of handlers do to it is proved once (`TrackCall`, `TrackReturn`, `TrackDeclare` ...).
* The typechecker: `Bookkeeping` says that, until there is an error, it is on `Track`; `typed` has, for
  every use that it notes, what a chain on `Track` to that place finds (`Noted`); and it has noted every use
  it has behind it (`Behind`), hence at the end all of them (`AllNoted`). `StepNoting` has one lemma for each kind
  of step (`Classified`).
* The code generator: `Tracking` says the same of the places in its `CodeGenContext`s, and that
  every statement on its way is one whose uses are noted (`Secure`). So what it loads has a note.
* `LegsAgree`: two walks at one use have passed through the same statements and have the same scopes up to
  the statement of the use. Inside it they differ by the two orders: the code generator has the declared name
  before its initialiser, and the names of the body before the last expression of a `for`
  (`Early`). For any other name both find the same (`MeetFinds`). For one of these it finds
  another declaration, since what it has entered lies ahead of everything the typechecker could have found
  (`Ahead`, `FoundBehind`); that is why the exceptions of `BoundAsTyped` are an equivalence.

That the code generator leaves out what is behind a return does not matter to this argument: only a list
is broken off, and what the rest of it would have declared goes with the scope of the list.

**`CompilerProofs`** (assumes what `LLVMContextBuilderProofs` does). `PassesImplemented` is the
refinement `CompilerSpec => Spec`: around the passes, `main.cpp` adds nothing to them, so what was
proved of them holds in every run (`PassesCorrect`). `PromiseKept` is the refinement
`CompilerSpec => Compilation!Spec`. Its invariant, `CInv`, says what is out and what is still in the
buffer at each stage: nothing is said of functions before `compile` gets to them; a noted error has
been printed; no error is noted once code is generated; and a run that is over has a final
phase and status. `CompilerTypeCorrect` adds the position among the bodies. `BodiesAreTheirs` combines it with
`FInv`: a function has its body if and only if it comes before `body`, and names are unique
in a program that got that far.

Left to TLC:

* liveness, since fairness is out of the prover's reach;
* what runs code: `VerifiedMeansSource`, `GeneratedMeansSource`, `CompilesWhatIsTyped`.
  `CodeGenMeaning` and `CodeGenExpMeaning` execute blocks with recursive operators that need
  not come to an end by the size of their argument, and a module that has one holds no theorem.
  (`AbortsAreKnown` proves the part of `CompilesWhatIsTyped` that can be stated without them and without fairness.)
* `AllocaDominatesUse` and `StackGrowsOnlyInLoops` of `CodeGenScopeMeaning`, which follow the edges
  of the blocks until nothing new is reached, by a recursive operator too.

## Not modelled, and why

* **Arithmetic**: outside of `Numbers` values are symbolic. `Numbers` has words, wrapping and
  comparisons; the arithmetic of doubles is not modelled, nor is LLVM's constant folding.
  Division by zero, and of the least int by -1, is undefined in the compiled program
  (`CodeGenVisitor.cpp:452`), and nothing says what it should do.
* **Literals** are what the lexer made of them, a C `int` for integers.
* **Ternaries of two void operands** are accepted and make an alloca of type void, which LLVM's
  verifier rejects; the model goes on as a build of LLVM without assertions does.
* **Conversions by statements**: `visitSDecls` (`CodeGenVisitor.cpp:115`) and `visitSReturn` (`:129`) convert
  an int for a double variable or result. `CodeGenStm` has no values and `CodeGenExp` no
  statements, so these two are in no model; what is said of conversions is said of expressions.
* **Void values in returns and fields**: the typechecker accepts `return g();` with a void `g` in a
  void function (`TypeCheckVisitor.cpp:89`), for which LLVM wants `ret void`, and a struct may have a
  void field (`ContextBuilder.cpp:64`). The verifier of the model looks at terminators only, and
  `CodeGenIsPrepared` excepts such fields, so no property reports either.
* **Scopes inside expressions**: `TypeCheckExp` and `CodeGenExp` have one table of variables;
  which declaration a name is bound to is the business of `TypeCheck` and `CodeGenScope`.
* **Parser and lexer** are generated from the grammar: either there is a tree or there is
  none. Models start from trees the grammar can produce.
* **`Absyn`**: the classes and `accept` are the shape of the models' trees. Copying, swapping and
  freeing nodes is generated code that the compiler never calls; no tree is ever freed.
* **`Errors`**: which message an error has. That one is thrown, where it is caught and that
  it is printed is in the visitors and in `Compiler`.
* **LLVM**: external. `verifyFunction` is modelled as far as terminators go, and types of
  operands by `OperandsAgree`; dominance is checked of allocas (`AllocaDominatesUse`), and of
  other registers by executing the blocks (one that was not set has a value of its own).
* **`src/grammars/CPP.cf` of project 1**: shares no code with the compiler.
* **Scripts and makefiles**: quoted for what they expect of the compiler.

## Plan

1. Done: every component that keeps state is modelled and model-checked, up to whole runs of the
   compiler; the abstract specifications `LexicalScope` (implemented by both visitors that have
   scopes) and `Compilation` (implemented by a run); the proofs listed above.
2. Done: all safety properties of the runs are theorems but the four that follow or execute the generated
   blocks. To prove those, reaching a block and running it would have to be stated without recursive operators,
   and related to the tree that the blocks were made from.
