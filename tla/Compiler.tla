------------------------------ MODULE Compiler ------------------------------
(***************************************************************************)
(* A run of the compiler from main to its exit: input, the declaration     *)
(* passes (LLVMContextBuilder), the verdict of the typechecker, and the    *)
(* function bodies, each reduced to what generating it can come to: the    *)
(* message that it does not return, a complaint of LLVM's verifier, or a   *)
(* thrown string that nobody catches.                                      *)
(*                                                                         *)
(* Both std::cout and llvm::outs() write to standard output.  The messages *)
(* on std::cout end in endl and are out at once; what goes to llvm::outs() *)
(* is buffered, written whenever LLVM sees fit and at the latest by exit,  *)
(* and lost if the process aborts.                                         *)
(***************************************************************************)
EXTENDS LLVMContextBuilder

VARIABLES
  input,      \* what is in the input file
  stage,      \* the function of main.cpp that runs
  tcErrors,   \* TypeCheckVisitor::anyErrors
  body,       \* the definition whose body is next
  bodies,     \* function names to the number of bodies in the module
  outs,       \* the buffer of llvm::outs()
  status, stdout

process == <<input, stage, status, stdout>>
codegen == <<body, bodies, outs>>

allVars == <<vars, process, tcErrors, codegen>>

-----------------------------------------------------------------------------
(* main and process *)

(* main: the file cannot be opened.                                        *)
cannotOpen ==
  /\ stage = "main" /\ input = "missing"
  /\ stdout' = stdout \cup {"error"}
  /\ status' = "exit1" /\ stage' = "exit"
  /\ UNCHANGED <<vars, input, tcErrors, codegen>>

openInput ==
  /\ stage = "main" /\ input # "missing"
  /\ stage' = "process"
  /\ UNCHANGED <<vars, input, status, stdout, tcErrors, codegen>>

(* process: pProgram returns 0.                                            *)
syntaxError ==
  /\ stage = "process" /\ input = "unparsable"
  /\ stdout' = stdout \cup {"error"}
  /\ status' = "exit1" /\ stage' = "exit"
  /\ UNCHANGED <<vars, input, tcErrors, codegen>>

parsed ==
  /\ stage = "process" /\ input = "program"
  /\ stage' = "compile"
  /\ UNCHANGED <<vars, input, status, stdout, tcErrors, codegen>>

-----------------------------------------------------------------------------
(* compile *)

(* A pass that stops the compiler does so with this status.                *)
ExitStatus(ph) ==
  CASE ph = "rejected" -> "exit1"
    [] ph = "crashed"  -> "abort"
    [] OTHER           -> "running"

Passed ==
  /\ status' = ExitStatus(phase')
  /\ stage' = IF status' = "running" THEN stage ELSE "exit"

(* ContextBuilder; handleError prints what it notes in anyErrors.          *)
buildContext ==
  /\ stage = "compile"
  /\ cbNext /\ UNCHANGED llvm
  /\ Passed
  /\ stdout' = IF anyErrors' THEN stdout \cup {"error"} ELSE stdout
  /\ UNCHANGED <<input, tcErrors, codegen>>

(* The typechecker finds an error.                                         *)
typeError ==
  /\ stage = "compile" /\ phase = "typecheck"
  /\ ~ tcErrors
  /\ tcErrors' = TRUE
  /\ stdout' = stdout \cup {"error"}
  /\ UNCHANGED <<vars, input, stage, status, codegen>>

(* Mutant of typeChecked: the errors of the typechecker are not looked at. *)
typeCheckedUngated ==
  /\ stage = "compile"
  /\ compileTypeChecked
  /\ phase' \in {"types", "crashed"}
  /\ Passed
  /\ UNCHANGED <<input, stdout, tcErrors, codegen>>

(* The typechecker is done, or has crashed: the gate behind it.            *)
typeChecked ==
  /\ stage = "compile"
  /\ compileTypeChecked
  /\ phase' \in {IF tcErrors THEN "rejected" ELSE "types", "crashed"}
  /\ Passed
  /\ UNCHANGED <<input, stdout, tcErrors, codegen>>

(* The LLVM types and functions.                                           *)
buildLLVMContext ==
  /\ stage = "compile"
  /\ \/ createTypeObject \/ visitPDefs
     \/ visitDFun \/ visitDStruct
     \/ visitBodies
  /\ UNCHANGED <<process, tcErrors, codegen>>

AtBody(op) ==
  /\ stage = "compile" /\ phase = "codegen"
  /\ body <= Len(program)
  /\ program[body].op = op

(* CodeGenVisitor::visitDFun, to its end.  What it says of the function    *)
(* depends on its statements (module CodeGenStm).                          *)
generateBody ==
  /\ AtBody("DFun")
  /\ \E said \in SUBSET {"remark"} : stdout' = stdout \cup said
  /\ \E said \in SUBSET {"complaint"} : outs' = outs \cup said
  /\ LET f == program[body].name IN
       /\ f \in DOMAIN llvmFunction
       /\ bodies' = [bodies EXCEPT ![f] = @ + 1]
  /\ body' = body + 1
  /\ UNCHANGED <<vars, input, stage, status, tcErrors>>

(* A handler throws a string (module CodeGenExp), which nobody catches.    *)
throwString ==
  /\ AtBody("DFun")
  /\ status' = "abort" /\ stage' = "exit"
  /\ outs' = {}
  /\ UNCHANGED <<vars, input, stdout, tcErrors, body, bodies>>

passStruct ==
  /\ AtBody("DStruct")
  /\ body' = body + 1
  /\ UNCHANGED <<vars, process, tcErrors, bodies, outs>>

printIR ==
  /\ stage = "compile" /\ phase = "codegen"
  /\ body > Len(program)
  /\ outs' = outs \cup {"IR"}
  /\ stage' = "printed"
  /\ UNCHANGED <<vars, input, status, stdout, tcErrors, body, bodies>>

(* LLVM writes out the buffer.                                             *)
flush ==
  /\ status = "running"
  /\ outs # {}
  /\ stdout' = stdout \cup outs
  /\ outs' = {}
  /\ UNCHANGED <<vars, input, stage, status, tcErrors, body, bodies>>

(* exit destroys llvm::outs(), which writes out its buffer.                *)
exitZero ==
  /\ stage = "printed"
  /\ stdout' = stdout \cup outs
  /\ outs' = {}
  /\ status' = "exit0" /\ stage' = "exit"
  /\ UNCHANGED <<vars, input, tcErrors, body, bodies>>

CompilerInit ==
  /\ Init
  /\ input \in {"missing", "unparsable", "program"}
  /\ program # <<>> => input = "program"
  /\ stage = "main"
  /\ status = "running"
  /\ tcErrors = FALSE
  /\ body = 1
  /\ bodies = [f \in Id |-> 0]
  /\ stdout = {} /\ outs = {}

CompilerNext ==
  \/ cannotOpen \/ openInput
  \/ syntaxError \/ parsed
  \/ buildContext
  \/ typeError \/ typeChecked
  \/ buildLLVMContext
  \/ generateBody \/ throwString \/ passStruct
  \/ printIR \/ flush \/ exitZero

CompilerSpec == CompilerInit /\ [][CompilerNext]_allVars

(* One thread that runs to its exit.                                       *)
FairCompilerSpec == CompilerSpec /\ WF_allVars(CompilerNext)

-----------------------------------------------------------------------------
(* Properties *)

(* Type correctness, of the passes too.  An exit is a status and an empty  *)
(* buffer; a function has bodies only once the LLVM functions are there.   *)
CompilerTypeOK ==
  /\ TypeOK
  /\ input \in {"missing", "unparsable", "program"}
  /\ stage \in {"main", "process", "compile", "printed", "exit"}
  /\ status \in {"running", "exit0", "exit1", "abort"}
  /\ status = "running" <=> stage # "exit"
  /\ tcErrors \in BOOLEAN
  /\ body \in 1 .. Len(program) + 1
  /\ bodies \in [Id -> Nat]
  /\ stdout \subseteq {"error", "remark", "complaint", "IR"}
  /\ outs \subseteq {"complaint", "IR"}
  /\ status # "running" => outs = {}
  /\ phase # "codegen" => \A f \in Id : bodies[f] = 0

(* The compiler keeps the promise its callers rely on: it exits with 1     *)
(* only behind an error it has printed, prints IR and exits with 0 only if *)
(* there was none (main.cpp:13, 22), and an abort leaves no IR behind.     *)
Compiles == INSTANCE Compilation

KeepsPromise == Compiles!Spec

(* Every run comes to an exit: no definition is met whose signature is     *)
(* missing or has too many parameters.                                     *)
ComesToAnExit == <>(status # "running")

(* The module that is printed has one body for every function of the       *)
(* program and none besides: module->getFunction (CodeGenVisitor.cpp:48)   *)
(* finds by name, so that a name defined twice would get its second body   *)
(* behind the first, under the first signature.                            *)
OneBodyEach ==
  status = "exit0" =>
    /\ input = "program" /\ ~ anyErrors /\ ~ tcErrors
    /\ \A f \in Id :
         bodies[f] = IF \E k \in DOMAIN program : program[k].op = "DFun" /\ program[k].name = f
                     THEN 1 ELSE 0
=============================================================================
