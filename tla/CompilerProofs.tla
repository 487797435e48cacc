--------------------------- MODULE CompilerProofs ---------------------------
(***************************************************************************)
(* Theorems about a whole run of the compiler: it runs the declaration     *)
(* passes as LLVMContextBuilder has them, and it implements Compilation.   *)
(* The invariant says, for each stage of the run, what may be on standard  *)
(* output and in the buffer.                                               *)
(***************************************************************************)
EXTENDS Compiler, LLVMContextBuilderProofs

(* main and process have only started things.                              *)
BeforeCompile ==
  stage \in {"main", "process"} =>
    /\ phase = "context"
    /\ ~ anyErrors
    /\ stdout = {}

(* Nothing but errors is printed before the gates, and exactly if the pass *)
(* at work has noted some.                                                 *)
ErrorsPrinted ==
  status = "running" =>
    /\ phase \in {"context", "typecheck", "types", "functions"} =>
         stdout \subseteq {"error"} /\ outs = {}
    /\ phase = "context" => ~ tcErrors /\ (anyErrors => "error" \in stdout)
                            /\ ("error" \in stdout => anyErrors)
    /\ phase = "typecheck" => (tcErrors => "error" \in stdout)
                              /\ ("error" \in stdout => tcErrors)

(* No error has been printed behind the gates, no IR before the last body. *)
NoErrorsLeft ==
  /\ status = "running" /\ phase \in {"types", "functions", "codegen"} => "error" \notin stdout
  /\ outs \subseteq {"complaint", "IR"}
  /\ stdout \subseteq {"error"} \cup Compiles!About
  /\ status = "running" =>
       ("IR" \in stdout \cup outs => stage = "printed")
       /\ (stage = "printed" => phase = "codegen" /\ "IR" \in stdout \cup outs)

StageInv ==
  /\ stage \in {"main", "process", "compile", "printed", "exit"}
  /\ status \in {"running", "exit0", "exit1", "abort"}
  /\ (status = "running" => stage # "exit") /\ (stage # "exit" => status = "running")
  /\ phase \in Running \cup Final
  /\ phase \in {"rejected", "crashed"} => status # "running"
  /\ anyErrors \in BOOLEAN /\ tcErrors \in BOOLEAN

CInv == StageInv /\ BeforeCompile /\ ErrorsPrinted /\ NoErrorsLeft

-----------------------------------------------------------------------------
(* The declaration passes *)

(* Every step of a run is a step of the declaration passes or leaves them  *)
(* where they are.                                                         *)
LEMMA RunsPasses == [CompilerNext]_allVars => [Next]_vars
  <1> SUFFICES ASSUME [CompilerNext]_allVars PROVE [Next]_vars
    OBVIOUS
  <1>1. CASE buildContext
    BY <1>1 DEF buildContext, Next
  <1>2. CASE typeChecked
    BY <1>2 DEF typeChecked, Next
  <1>3. CASE buildLLVMContext
    BY <1>3 DEF buildLLVMContext, Next
  <1>4. CASE UNCHANGED vars
    BY <1>4
  <1>5. CASE cannotOpen \/ openInput \/ syntaxError \/ parsed
    BY <1>5 DEF cannotOpen, openInput, syntaxError, parsed
  <1>6. CASE typeError \/ generateBody \/ throwString \/ passStruct
    BY <1>6 DEF typeError, generateBody, throwString, passStruct
  <1>7. CASE printIR \/ flush \/ exitZero
    BY <1>7 DEF printIR, flush, exitZero
  <1>8. UNCHANGED allVars => UNCHANGED vars
    BY DEF allVars
  <1> QED
    BY <1>1, <1>2, <1>3, <1>4, <1>5, <1>6, <1>7, <1>8 DEF CompilerNext

(* compile runs the declaration passes as LLVMContextBuilder has them, so  *)
(* what is proved of them holds in every run of the compiler.              *)
THEOREM PassesImplemented == CompilerSpec => Spec
  <1>1. CompilerInit => Init
    BY DEF CompilerInit
  <1> QED
    BY <1>1, RunsPasses, PTL DEF CompilerSpec, Spec

(* In every run of the compiler a type name denotes one type, members come *)
(* before the structs they are in, and no lookup in typeMap misses.        *)
THEOREM PassesCorrect == CompilerSpec => [](TypeNamesUnique /\ MembersComeFirst /\ NoNullType)
  BY PassesImplemented, PointersAreNames, TypesAreOrdered, LookupsHit, PTL

(* What a step of ContextBuilder can come to.                              *)
LEMMA ContextStep ==
  ASSUME cbNext, anyErrors \in BOOLEAN
  PROVE  /\ phase = "context" /\ anyErrors' \in BOOLEAN
         /\ anyErrors => anyErrors'
         /\ phase' \in {"context", "rejected", "typecheck", "crashed"}
         /\ phase' # "context" => anyErrors' = anyErrors
         /\ phase' = "rejected" => anyErrors
         /\ phase' = "typecheck" => ~ anyErrors
  <1>1. CASE visitADecl
    BY <1>1 DEF visitADecl, AtPart, InDef
  <1>2. CASE endDFun
    BY <1>2 DEF endDFun, AtEnd, InDef
  <1>3. CASE visitFDecl
    BY <1>3 DEF visitFDecl, AtPart, InDef
  <1>4. CASE endDStruct
    BY <1>4 DEF endDStruct, AtEnd, InDef
  <1>5. CASE danglingParent
    BY <1>5 DEF danglingParent, AtPart, AtEnd, InDef, context
  <1>6. CASE compileContextBuilt
    BY <1>6 DEF compileContextBuilt, context
  <1> QED
    BY <1>1, <1>2, <1>3, <1>4, <1>5, <1>6 DEF cbNext

(* The passes behind the first gate leave anyErrors alone.                 *)
LEMMA LLVMStep ==
  ASSUME createTypeObject \/ visitPDefs \/ visitDFun \/ visitDStruct \/ visitBodies
  PROVE  /\ anyErrors' = anyErrors
         /\ phase \in {"types", "functions"}
         /\ phase' \in {"types", "functions", "codegen"}
  <1>1. CASE createTypeObject
    BY <1>1 DEF createTypeObject, context
  <1>2. CASE visitPDefs
    BY <1>2 DEF visitPDefs, context
  <1>3. CASE visitDFun
    BY <1>3 DEF visitDFun, context
  <1>4. CASE visitDStruct
    BY <1>4 DEF visitDStruct, context
  <1>5. CASE visitBodies
    BY <1>5 DEF visitBodies, context
  <1> QED
    BY <1>1, <1>2, <1>3, <1>4, <1>5

-----------------------------------------------------------------------------
(* The stages of a run *)

LEMMA CInitInv == CompilerInit => CInv
  BY DEF CompilerInit, Init, cbInit, CInv, StageInv, BeforeCompile, ErrorsPrinted,
         NoErrorsLeft, Compiles!About, Running, Final

(* Reading the input changes nothing of the passes.                        *)
LEMMA MainInv ==
  ASSUME CInv, cannotOpen \/ openInput \/ syntaxError \/ parsed
  PROVE  CInv' /\ [Compiles!Next]_<<status, stdout>>
  <1> USE DEF CInv, StageInv, BeforeCompile, ErrorsPrinted, NoErrorsLeft, Compiles!About, Running, Final,
              vars, cbVars, context, codegen
  <1>1. CASE cannotOpen
    BY <1>1 DEF cannotOpen, Compiles!Next, Compiles!ReportAndReject
  <1>2. CASE openInput
    BY <1>2 DEF openInput
  <1>3. CASE syntaxError
    BY <1>3 DEF syntaxError, Compiles!Next, Compiles!ReportAndReject
  <1>4. CASE parsed
    BY <1>4 DEF parsed
  <1> QED
    BY <1>1, <1>2, <1>3, <1>4

(* The first pass and the gate behind it.                                  *)
LEMMA ContextInvStep ==
  ASSUME CInv, buildContext
  PROVE  CInv' /\ [Compiles!Next]_<<status, stdout>>
  <1> USE DEF CInv, StageInv, BeforeCompile, ErrorsPrinted, NoErrorsLeft, Compiles!About, Running, Final
  <1>1. /\ phase = "context" /\ anyErrors' \in BOOLEAN
        /\ anyErrors => anyErrors'
        /\ phase' \in {"context", "rejected", "typecheck", "crashed"}
        /\ phase' # "context" => anyErrors' = anyErrors
        /\ phase' = "rejected" => anyErrors
        /\ phase' = "typecheck" => ~ anyErrors
    BY ContextStep DEF buildContext
  <1>2. /\ stage = "compile" /\ status = "running"
        /\ stdout' = IF anyErrors' THEN stdout \cup {"error"} ELSE stdout
        /\ UNCHANGED <<input, tcErrors, body, bodies, outs>>
    BY DEF buildContext, codegen
  <1>3. /\ status' = ExitStatus(phase')
        /\ stage' = IF status' = "running" THEN stage ELSE "exit"
    BY DEF buildContext, Passed
  <1>4. CASE phase' = "context"
    BY <1>1, <1>2, <1>3, <1>4 DEF ExitStatus, Compiles!Next, Compiles!Report
  <1>5. CASE phase' = "rejected"
    <2>1. stdout' = stdout
      BY <1>1, <1>2, <1>5
    <2> QED
      BY <2>1, <1>1, <1>2, <1>3, <1>5 DEF ExitStatus, Compiles!Next, Compiles!Reject
  <1>6. CASE phase' = "typecheck"
    BY <1>1, <1>2, <1>3, <1>6 DEF ExitStatus
  <1>7. CASE phase' = "crashed"
    BY <1>1, <1>2, <1>3, <1>7 DEF ExitStatus, Compiles!Next, Compiles!Abort
  <1> QED
    BY <1>1, <1>4, <1>5, <1>6, <1>7

(* The typechecker and the gate behind it.                                 *)
LEMMA TypeCheckInv ==
  ASSUME CInv, typeError \/ typeChecked
  PROVE  CInv' /\ [Compiles!Next]_<<status, stdout>>
  <1> USE DEF CInv, StageInv, BeforeCompile, ErrorsPrinted, NoErrorsLeft, Compiles!About, Running, Final
  <1>1. CASE typeError
    BY <1>1 DEF typeError, vars, cbVars, context, codegen, Compiles!Next, Compiles!Report
  <1>2. CASE typeChecked
    <2>1. /\ phase = "typecheck" /\ anyErrors' = anyErrors
          /\ phase' \in {IF tcErrors THEN "rejected" ELSE "types", "crashed"}
          /\ stage = "compile" /\ status = "running"
          /\ UNCHANGED <<input, stdout, tcErrors, body, bodies, outs>>
      BY <1>2 DEF typeChecked, compileTypeChecked, context, codegen
    <2>2. /\ status' = ExitStatus(phase')
          /\ stage' = IF status' = "running" THEN stage ELSE "exit"
      BY <1>2 DEF typeChecked, Passed
    <2>3. CASE phase' = "crashed"
      BY <2>1, <2>2, <2>3 DEF ExitStatus, Compiles!Next, Compiles!Abort
    <2>4. CASE tcErrors /\ phase' = "rejected"
      BY <2>1, <2>2, <2>4 DEF ExitStatus, Compiles!Next, Compiles!Reject
    <2>5. CASE ~ tcErrors /\ phase' = "types"
      BY <2>1, <2>2, <2>5 DEF ExitStatus
    <2> QED
      BY <2>1, <2>3, <2>4, <2>5
  <1> QED
    BY <1>1, <1>2

(* Code generation up to the exit.                                         *)
LEMMA CodeGenInv ==
  ASSUME CInv,
         buildLLVMContext \/ generateBody \/ throwString \/ passStruct
         \/ printIR \/ flush \/ exitZero
  PROVE  CInv' /\ [Compiles!Next]_<<status, stdout>>
  <1> USE DEF CInv, StageInv, BeforeCompile, ErrorsPrinted, NoErrorsLeft, Compiles!About, Running, Final
  <1>1. CASE buildLLVMContext
    BY <1>1, LLVMStep DEF buildLLVMContext, process, codegen
  <1>2. CASE generateBody
    BY <1>2 DEF generateBody, AtBody, vars, cbVars, context, Compiles!Next, Compiles!Generate
  <1>3. CASE throwString
    BY <1>3 DEF throwString, AtBody, vars, cbVars, context, Compiles!Next, Compiles!Abort
  <1>4. CASE passStruct
    BY <1>4 DEF passStruct, AtBody, vars, cbVars, context, process
  <1>5. CASE printIR
    BY <1>5 DEF printIR, vars, cbVars, context
  <1>6. CASE flush
    <2>1. /\ status = "running" /\ outs # {} /\ "error" \notin stdout
          /\ stdout' = stdout \cup outs /\ outs' = {} /\ outs \in SUBSET Compiles!About
      BY <1>6 DEF flush
    <2>2. Compiles!Generate
      BY <2>1, <1>6 DEF flush, Compiles!Generate
    <2>3. CInv'
      BY <2>1, <1>6 DEF flush, vars, cbVars, context
    <2> QED
      BY <2>2, <2>3 DEF Compiles!Next
  <1>7. CASE exitZero
    BY <1>7 DEF exitZero, vars, cbVars, context, Compiles!Next, Compiles!Generate
  <1> QED
    BY <1>1, <1>2, <1>3, <1>4, <1>5, <1>6, <1>7

LEMMA CNextInv ==
  ASSUME CInv, [CompilerNext]_allVars
  PROVE  CInv' /\ [Compiles!Next]_<<status, stdout>>
  <1>1. CASE UNCHANGED allVars
    BY <1>1 DEF allVars, vars, cbVars, context, process, codegen, CInv, StageInv,
                BeforeCompile, ErrorsPrinted, NoErrorsLeft
  <1> QED
    BY <1>1, MainInv, ContextInvStep, TypeCheckInv, CodeGenInv DEF CompilerNext

-----------------------------------------------------------------------------
(* What follows *)

(* The compiler keeps its promise, for every program and every choice of   *)
(* what the memory held: it rejects only with an error on standard output, *)
(* accepts only without, and an abort never comes behind the IR.           *)
THEOREM PromiseKept == CompilerSpec => KeepsPromise
  <1>1. CompilerInit => Compiles!Init
    BY DEF CompilerInit, Compiles!Init
  <1>2. CInv /\ [CompilerNext]_allVars => CInv'
    BY CNextInv
  <1>3. CInv /\ [CompilerNext]_allVars => [Compiles!Next]_<<status, stdout>>
    BY CNextInv
  <1> QED
    BY <1>1, <1>2, <1>3, CInitInv, PTL DEF CompilerSpec, KeepsPromise, Compiles!Spec

-----------------------------------------------------------------------------
(* Type correctness of a run *)

(* Where the bodies are, and what is left in the buffer.                   *)
BodiesInv ==
  /\ input \in {"missing", "unparsable", "program"}
  /\ program \in Seq(Definition)
  /\ body \in 1 .. Len(program) + 1
  /\ bodies \in [Id -> Nat]
  /\ status # "running" => outs = {}
  /\ phase # "codegen" => \A f \in Id : bodies[f] = 0

LEMMA BodiesInit == CompilerInit => BodiesInv
  <1> SUFFICES ASSUME CompilerInit PROVE BodiesInv
    OBVIOUS
  <1>1. program \in Seq(Definition) /\ Len(program) \in Nat
    BY ProgramsAssumption DEF CompilerInit, Init, cbInit
  <1> QED
    BY <1>1 DEF CompilerInit, BodiesInv

(* A counter that is raised by one still counts, also if x is not one.     *)
LEMMA CountedOnce ==
  ASSUME NEW S, NEW g \in [S -> Nat], NEW x
  PROVE  [g EXCEPT ![x] = g[x] + 1] \in [S -> Nat]
  <1>1. CASE x \in S
    <2>1. g[x] \in Nat
      BY <1>1
    <2>2. g[x] + 1 \in Nat
      BY <2>1
    <2> QED
      BY <2>2
  <1>2. CASE x \notin S
    BY <1>2
  <1> QED
    BY <1>1, <1>2

LEMMA BodiesNext ==
  ASSUME CInv, BodiesInv, [CompilerNext]_allVars
  PROVE  BodiesInv'
  <1>1. program' = program
    BY RunsPasses, PassKeepsProgram
  <1>2. /\ Len(program) \in Nat
        /\ body \in Nat /\ body >= 1
        /\ bodies \in [Id -> Nat]
    BY DEF BodiesInv
  <1>0. ASSUME body <= Len(program), body' = body + 1
        PROVE  body' \in 1 .. Len(program') + 1
    <2>1. Len(program') = Len(program)
      BY <1>1
    <2> QED
      BY <1>2, <1>0, <2>1
  <1> USE DEF BodiesInv, CInv, StageInv
  <1>3. CASE UNCHANGED allVars
    BY <1>1, <1>3 DEF allVars, vars, cbVars, process, codegen
  <1>4. CASE cannotOpen \/ openInput \/ syntaxError \/ parsed
    BY <1>1, <1>4 DEF cannotOpen, openInput, syntaxError, parsed, vars, cbVars, codegen,
                      BeforeCompile, ErrorsPrinted
  <1>5. CASE buildContext
    <2>1. phase = "context" /\ UNCHANGED <<input, body, bodies, outs>>
      BY <1>5, ContextStep DEF buildContext, codegen
    <2>2. outs = {}
      BY <1>5, <2>1 DEF buildContext, ErrorsPrinted
    <2> QED
      BY <1>1, <2>1, <2>2
  <1>6. CASE typeError
    BY <1>1, <1>6 DEF typeError, vars, cbVars, codegen
  <1>7. CASE typeChecked
    <2>1. phase = "typecheck" /\ UNCHANGED <<input, body, bodies, outs>>
      BY <1>7 DEF typeChecked, compileTypeChecked, codegen
    <2>2. outs = {}
      BY <1>7, <2>1 DEF typeChecked, ErrorsPrinted
    <2> QED
      BY <1>1, <2>1, <2>2
  <1>8. CASE buildLLVMContext
    <2>1. phase \in {"types", "functions"} /\ UNCHANGED <<input, status, body, bodies, outs>>
      BY <1>8, LLVMStep DEF buildLLVMContext, process, codegen
    <2> QED
      BY <1>1, <2>1
  <1>9. CASE generateBody
    <2>1. /\ phase = "codegen" /\ body <= Len(program) /\ body' = body + 1
          /\ stage = "compile" /\ UNCHANGED <<phase, input, status>>
      BY <1>9 DEF generateBody, AtBody, vars, cbVars
    <2>2. body' \in 1 .. Len(program') + 1
      BY <1>0, <2>1
    <2>3. status = "running"
      BY <2>1
    <2> DEFINE f == program[body].name
    <2>4. bodies' = [bodies EXCEPT ![f] = bodies[f] + 1]
      BY <1>9 DEF generateBody
    <2>5. bodies' \in [Id -> Nat]
      BY <1>2, <2>4, CountedOnce
    <2> HIDE DEF f
    <2> QED
      BY <1>1, <2>1, <2>2, <2>3, <2>5
  <1>10. CASE throwString
    BY <1>1, <1>2, <1>10 DEF throwString, AtBody, vars, cbVars
  <1>12. CASE passStruct
    <2>1. /\ phase = "codegen" /\ body <= Len(program) /\ body' = body + 1
          /\ UNCHANGED <<phase, input, status, stage, bodies, outs>>
      BY <1>12 DEF passStruct, AtBody, vars, cbVars, process
    <2>2. body' \in 1 .. Len(program') + 1
      BY <1>0, <2>1
    <2> QED
      BY <1>1, <1>2, <2>1, <2>2
  <1>11. CASE printIR \/ flush \/ exitZero
    BY <1>1, <1>11 DEF printIR, flush, exitZero, vars, cbVars
  <1> QED
    BY <1>3, <1>4, <1>5, <1>6, <1>7, <1>8, <1>9, <1>10, <1>11, <1>12 DEF CompilerNext

(* A run of the compiler is type correct, and at every exit all that was   *)
(* written has left the buffer.                                            *)
THEOREM CompilerTypeCorrect == CompilerSpec => []CompilerTypeOK
  <1>1. CInv /\ BodiesInv /\ TypeOK => CompilerTypeOK
    BY DEF CInv, StageInv, BodiesInv, NoErrorsLeft, Compiles!About, CompilerTypeOK
  <1>2. CInv /\ [CompilerNext]_allVars => CInv'
    BY CNextInv
  <1>3. CInv /\ BodiesInv /\ [CompilerNext]_allVars => BodiesInv'
    BY BodiesNext
  <1>4. CompilerSpec => [](CInv /\ BodiesInv)
    BY <1>2, <1>3, CInitInv, BodiesInit, PTL DEF CompilerSpec
  <1>5. CompilerSpec => []TypeOK
    BY PassesImplemented, TypeCorrect, PTL
  <1> QED
    BY <1>1, <1>4, <1>5, PTL

-----------------------------------------------------------------------------
(* The bodies in the module *)

(* Whether one of the definitions before k is a function named f.          *)
Defined(f, k) == \E j \in 1 .. k - 1 : program[j].op = "DFun" /\ program[j].name = f

(* Every function before definition number body has its one body; the exit *)
(* with 0 comes behind the last body of a program that was parsed and      *)
(* accepted.                                                               *)
CountInv ==
  /\ stage \in {"compile", "printed"} \/ status = "exit0" => input = "program"
  /\ Accepted => ~ anyErrors
  /\ phase \in {"types", "functions", "codegen"} => ~ tcErrors
  /\ phase # "codegen" => body = 1
  /\ stage = "printed" \/ status = "exit0" => phase = "codegen" /\ body = Len(program) + 1
  /\ \A f \in Id : bodies[f] = IF Defined(f, body) THEN 1 ELSE 0

LEMMA CountInit == CompilerInit => CountInv
  <1> SUFFICES ASSUME CompilerInit PROVE CountInv
    OBVIOUS
  <1>1. /\ phase = "context" /\ stage = "main" /\ status = "running" /\ body = 1
        /\ bodies = [f \in Id |-> 0]
    BY DEF CompilerInit, Init, cbInit
  <1> QED
    BY <1>1 DEF CountInv, Defined, Accepted

LEMMA DefinedNext ==
  ASSUME NEW f, NEW k \in Nat \ {0}
  PROVE  Defined(f, k + 1) <=> Defined(f, k) \/ (program[k].op = "DFun" /\ program[k].name = f)
  <1>1. 1 .. (k + 1) - 1 = (1 .. k - 1) \cup {k}
    OBVIOUS
  <1> QED
    BY <1>1 DEF Defined

LEMMA CountNext ==
  ASSUME CInv, BodiesInv, FInv, CountInv, [CompilerNext]_allVars
  PROVE  CountInv'
  <1>1. program' = program /\ Len(program) \in Nat /\ body \in Nat \ {0}
    BY RunsPasses, PassKeepsProgram DEF BodiesInv
  <1>3. ASSUME UNCHANGED <<body, bodies>>
        PROVE  \A f \in Id : bodies'[f] = IF Defined(f, body)' THEN 1 ELSE 0
    BY <1>1, <1>3 DEF CountInv, Defined
  <1>4. CASE UNCHANGED allVars
    BY <1>1, <1>3, <1>4 DEF allVars, vars, cbVars, context, process, codegen, CountInv, Accepted
  <1>5. CASE cannotOpen \/ openInput \/ syntaxError \/ parsed
    BY <1>1, <1>3, <1>5 DEF cannotOpen, openInput, syntaxError, parsed, vars, cbVars, context, codegen,
                            CountInv, CInv, StageInv, BeforeCompile, Accepted
  <1>6. CASE buildContext
    <2>1. /\ stage = "compile" /\ phase = "context" /\ status' # "exit0" /\ stage' # "printed"
          /\ UNCHANGED <<input, body, bodies, tcErrors>>
          /\ phase' \in {"context", "rejected", "crashed"} \/ (phase' = "typecheck" /\ ~ anyErrors')
      <3>1. /\ stage = "compile" /\ cbNext /\ status' = ExitStatus(phase')
            /\ stage' = (IF status' = "running" THEN stage ELSE "exit")
            /\ UNCHANGED <<input, body, bodies, tcErrors>>
        BY <1>6 DEF buildContext, Passed, codegen
      <3>2. anyErrors \in BOOLEAN
        BY DEF CInv, StageInv
      <3>3. /\ phase = "context" /\ phase' \in {"context", "rejected", "typecheck", "crashed"}
            /\ phase' = "typecheck" => anyErrors' = anyErrors /\ ~ anyErrors
        BY <3>1, <3>2, ContextStep
      <3>4. status' # "exit0"
        BY <3>1, <3>3 DEF ExitStatus
      <3>5. stage' # "printed"
        BY <3>1
      <3> QED
        BY <3>1, <3>3, <3>4, <3>5
    <2> QED
      BY <1>1, <1>3, <2>1 DEF CountInv, Accepted
  <1>7. CASE typeError
    BY <1>1, <1>3, <1>7 DEF typeError, vars, cbVars, context, codegen, CountInv, Accepted, CInv, StageInv
  <1>8. CASE typeChecked
    <2>1. /\ stage = "compile" /\ phase = "typecheck" /\ status' # "exit0" /\ stage' # "printed"
          /\ UNCHANGED <<input, body, bodies, tcErrors, anyErrors>>
          /\ phase' \in {"rejected", "crashed"} \/ (phase' = "types" /\ ~ tcErrors)
      BY <1>8 DEF typeChecked, compileTypeChecked, Passed, ExitStatus, codegen, context
    <2> QED
      BY <1>1, <1>3, <2>1 DEF CountInv, Accepted
  <1>9. CASE buildLLVMContext
    <2>1. /\ stage = "compile" /\ phase \in {"types", "functions"} /\ phase' \in {"types", "functions", "codegen"}
          /\ UNCHANGED <<input, stage, status, body, bodies, tcErrors, anyErrors>>
      BY <1>9 DEF buildLLVMContext, createTypeObject, visitPDefs, visitDFun, visitDStruct, visitBodies,
                  process, codegen, context
    <2>2. status = "running"
      BY <2>1 DEF CInv, StageInv
    <2> QED
      BY <1>1, <1>3, <2>1, <2>2 DEF CountInv, Accepted
  <1>10. CASE generateBody
    <2>1. /\ phase = "codegen" /\ stage = "compile" /\ body' = body + 1 /\ program[body].op = "DFun"
          /\ body <= Len(program)
          /\ UNCHANGED <<phase, input, status, stage, anyErrors, tcErrors>>
          /\ bodies' = [bodies EXCEPT ![program[body].name] = bodies[program[body].name] + 1]
      BY <1>10 DEF generateBody, AtBody, vars, cbVars, context
    <2>2. ASSUME NEW f \in Id
          PROVE  bodies'[f] = IF Defined(f, body)' THEN 1 ELSE 0
      <3>1. /\ bodies \in [Id -> Nat] /\ bodies[f] = IF Defined(f, body) THEN 1 ELSE 0
            /\ body \in 1 .. Len(program) + 1 /\ program \in Seq(Definition)
        BY DEF BodiesInv, CountInv
      <3>2. WellFormed(Len(program)) /\ body \in 1 .. Len(program)
        BY <2>1, <3>1 DEF FInv, Accepted
      <3>3. ~ Defined(program[body].name, body)
        BY <2>1, <3>2 DEF WellFormed, WellFormedFun, Defined
      <3>4. Defined(f, body + 1) <=> Defined(f, body) \/ program[body].name = f
        BY <1>1, <2>1, DefinedNext
      <3>5. Defined(f, body)' <=> Defined(f, body + 1)
        BY <1>1, <2>1 DEF Defined
      <3> QED
        BY <2>1, <3>1, <3>3, <3>4, <3>5
    <2>3. status = "running"
      BY <2>1 DEF CInv, StageInv
    <2> QED
      BY <1>1, <2>1, <2>2, <2>3 DEF CountInv, Accepted
  <1>11. CASE throwString
    BY <1>1, <1>3, <1>11 DEF throwString, AtBody, vars, cbVars, context, CountInv, Accepted
  <1>12. CASE passStruct
    <2>1. /\ phase = "codegen" /\ stage = "compile" /\ body' = body + 1 /\ program[body].op = "DStruct"
          /\ UNCHANGED <<phase, input, status, stage, anyErrors, tcErrors, bodies>>
      BY <1>12 DEF passStruct, AtBody, vars, cbVars, context, process
    <2>2. ASSUME NEW f \in Id
          PROVE  bodies'[f] = IF Defined(f, body)' THEN 1 ELSE 0
      <3>1. Defined(f, body + 1) <=> Defined(f, body)
        BY <1>1, <2>1, DefinedNext
      <3>2. Defined(f, body)' <=> Defined(f, body + 1)
        BY <1>1, <2>1 DEF Defined
      <3> QED
        BY <2>1, <3>1, <3>2 DEF CountInv
    <2>3. status = "running"
      BY <2>1 DEF CInv, StageInv
    <2> QED
      BY <1>1, <2>1, <2>2, <2>3 DEF CountInv, Accepted
  <1>13. CASE printIR
    <2>1. body = Len(program) + 1
      BY <1>13 DEF printIR, BodiesInv
    <2> QED
      BY <1>1, <1>3, <1>13, <2>1 DEF printIR, vars, cbVars, context, CountInv, Accepted
  <1>14. CASE flush
    BY <1>1, <1>3, <1>14 DEF flush, vars, cbVars, context, CountInv, Accepted
  <1>15. CASE exitZero
    <2>1. stage = "printed" /\ UNCHANGED <<input, phase, anyErrors, tcErrors, body, bodies>>
      BY <1>15 DEF exitZero, vars, cbVars, context
    <2> QED
      BY <1>1, <1>3, <2>1 DEF CountInv, Accepted
  <1> QED
    BY <1>4, <1>5, <1>6, <1>7, <1>8, <1>9, <1>10, <1>11, <1>12, <1>13, <1>14, <1>15 DEF CompilerNext

(* The module that is printed has exactly one body for every function of   *)
(* the program and none for another name: what CodeGenVisitor.cpp:48 finds *)
(* by name is always the function the body belongs to.                     *)
THEOREM BodiesAreTheirs == CompilerSpec => []OneBodyEach
  <1>1. BodiesInv /\ CountInv => OneBodyEach
    <2> SUFFICES ASSUME BodiesInv, CountInv, status = "exit0"
                 PROVE  /\ input = "program" /\ ~ anyErrors /\ ~ tcErrors
                        /\ \A f \in Id :
                             bodies[f] = IF \E k \in DOMAIN program : program[k].op = "DFun"
                                                                     /\ program[k].name = f
                                         THEN 1 ELSE 0
      BY DEF OneBodyEach
    <2>1. phase = "codegen" /\ body = Len(program) + 1 /\ input = "program" /\ ~ anyErrors /\ ~ tcErrors
      BY DEF CountInv, Accepted
    <2>2. DOMAIN program = 1 .. Len(program) /\ Len(program) \in Nat
      BY DEF BodiesInv
    <2>3. \A f : Defined(f, body) <=> \E k \in DOMAIN program : program[k].op = "DFun" /\ program[k].name = f
      BY <2>1, <2>2 DEF Defined
    <2> QED
      BY <2>1, <2>3 DEF CountInv
  <1>2. CInv /\ [CompilerNext]_allVars => CInv'
    BY CNextInv
  <1>3. CInv /\ BodiesInv /\ [CompilerNext]_allVars => BodiesInv'
    BY BodiesNext
  <1>4. CInv /\ BodiesInv /\ FInv /\ CountInv /\ [CompilerNext]_allVars => CountInv'
    BY CountNext
  <1>5. CompilerSpec => []FInv
    BY PassesImplemented, FirstPass, PTL
  <1>6. CompilerSpec => [](CInv /\ BodiesInv /\ CountInv)
    BY <1>2, <1>3, <1>4, <1>5, CInitInv, BodiesInit, CountInit, PTL DEF CompilerSpec
  <1> QED
    BY <1>1, <1>6, PTL
=============================================================================
