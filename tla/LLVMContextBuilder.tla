------------------------- MODULE LLVMContextBuilder -------------------------
(***************************************************************************)
(* The declaration passes of the compiler, composed as compile in main.cpp *)
(* composes them: ContextBuilder, the typechecker (here only its verdict), *)
(* then LLVMContextBuilder, which turns the types and signatures of the    *)
(* context into LLVM types and functions before any body is generated.     *)
(*                                                                         *)
(* The LLVM type made for type t is t itself; what its struct body and the *)
(* LLVM signature of a function hold is what operator[] of typeMap gave,   *)
(* null where there was no entry.                                          *)
(***************************************************************************)
EXTENDS ContextBuilder

VARIABLES
  typeMap,      \* types to LLVM types
  structBody,   \* per LLVM type, its element types by field
  llvmFunction  \* llvm::Module: function names to LLVM signatures

llvm == <<typeMap, structBody, llvmFunction>>

vars == <<cbVars, llvm>>

-----------------------------------------------------------------------------
(* The typechecker accepts, or reports an error and compile exits; a name  *)
(* it does not find leads to the junk in parent here too.                  *)
compileTypeChecked ==
  /\ phase = "typecheck"
  /\ phase' \in {"types", "rejected"} \cup (IF rootParent = "junk" THEN {"crashed"} ELSE {})
  /\ def' = 1
  /\ UNCHANGED <<program, rootParent, part, argumentTypes, members, context, llvm>>

(* Mutant of createTypeObject: the types are walked from the last one.     *)
createTypeObjectBackwards ==
  /\ phase = "types"
  /\ def <= Len(types)
  /\ LET t       == Len(types) + 1 - def
         fields  == types[t].members
         looked  == Subscript(typeMap, {fields[n] : n \in DOMAIN fields})
     IN /\ typeMap' = Emplace(looked, t, t)
        /\ structBody' = Emplace(structBody, t, [n \in DOMAIN fields |-> looked[fields[n]]])
  /\ def' = def + 1
  /\ UNCHANGED <<program, rootParent, phase, part, argumentTypes, members, context, llvmFunction>>

(* One round of createTypeObjects; def counts the types done so far.       *)
createTypeObject ==
  /\ phase = "types"
  /\ def <= Len(types)
  /\ LET t       == def
         fields  == types[t].members
         looked  == Subscript(typeMap, {fields[n] : n \in DOMAIN fields})
     IN /\ typeMap' = Emplace(looked, t, t)
        /\ structBody' = Emplace(structBody, t, [n \in DOMAIN fields |-> looked[fields[n]]])
  /\ def' = def + 1
  /\ UNCHANGED <<program, rootParent, phase, part, argumentTypes, members, context, llvmFunction>>

(* The constructor is done, visitPDefs starts.                             *)
visitPDefs ==
  /\ phase = "types"
  /\ def > Len(types)
  /\ phase' = "functions"
  /\ def' = 1
  /\ UNCHANGED <<program, rootParent, part, argumentTypes, members, context, llvm>>

(* visitDFun; a missing signature would be a null pointer dereference and  *)
(* more parameters than arguments an access beyond listarg_.               *)
visitDFun ==
  /\ phase = "functions"
  /\ def <= Len(program)
  /\ Def.op = "DFun"
  /\ Def.name \in DOMAIN functionSymbols
  /\ LET ft     == functionSymbols[Def.name]
         looked == Subscript(typeMap, {ft.parameters[i] : i \in DOMAIN ft.parameters}
                                      \cup {ft.returnType})
         llvmFt == [returnType |-> looked[ft.returnType],
                    arguments  |-> [i \in DOMAIN ft.parameters |-> looked[ft.parameters[i]]]]
     IN /\ Len(ft.parameters) <= Len(Def.parts)
        /\ typeMap' = looked
        /\ llvmFunction' = Emplace(llvmFunction, Def.name, llvmFt)
  /\ def' = def + 1
  /\ UNCHANGED <<program, rootParent, phase, part, argumentTypes, members, context, structBody>>

(* Structs are passed over: visitDStruct of BasicVisitor does nothing.     *)
visitDStruct ==
  /\ phase = "functions"
  /\ def <= Len(program)
  /\ Def.op = "DStruct"
  /\ def' = def + 1
  /\ UNCHANGED <<program, rootParent, phase, part, argumentTypes, members, context, llvm>>

(* CodeGenVisitor::visitPDefs goes on to the bodies.                       *)
visitBodies ==
  /\ phase = "functions"
  /\ def > Len(program)
  /\ phase' = "codegen"
  /\ UNCHANGED <<program, rootParent, place, context, llvm>>

Init ==
  /\ cbInit
  /\ typeMap = NoMembers
  /\ structBody = NoMembers
  /\ llvmFunction = NoMembers

Next ==
  \/ cbNext /\ UNCHANGED llvm
  \/ compileTypeChecked
  \/ createTypeObject \/ visitPDefs
  \/ visitDFun \/ visitDStruct
  \/ visitBodies

Spec == Init /\ [][Next]_vars

-----------------------------------------------------------------------------
(* What a program must satisfy to be accepted by the first pass, read off  *)
(* its text alone                                                          *)

(* The type names known where definition k starts.                         *)
KnownBefore(k) ==
  BasicIds \cup {program[j].name : j \in {j \in 1 .. k - 1 : program[j].op = "DStruct"}}

WellFormedFun(k) ==
  LET d == program[k] IN
    /\ d.type \in KnownBefore(k)
    /\ \A i \in DOMAIN d.parts : d.parts[i].type \in KnownBefore(k) \ {"void"}
    /\ \A j \in 1 .. k - 1 : program[j].op = "DFun" => program[j].name # d.name

WellFormedStruct(k) ==
  LET d == program[k] IN
    /\ d.name \notin KnownBefore(k)
    /\ \A i \in DOMAIN d.parts : d.parts[i].type \in KnownBefore(k)
    /\ \A i, j \in DOMAIN d.parts : d.parts[i].name = d.parts[j].name => i = j

WellFormed(n) ==
  \A k \in 1 .. n : IF program[k].op = "DFun" THEN WellFormedFun(k)
                                            ELSE WellFormedStruct(k)

-----------------------------------------------------------------------------
(* Properties *)

Running == {"context", "typecheck", "types", "functions"}
Final   == {"rejected", "crashed", "codegen"}

(* m maps names of D to values in S.                                       *)
IsMap(m, D, S) == DOMAIN m \subseteq D /\ m \in [DOMAIN m -> S]

IsSignature(f) ==
  f \in [returnType : DOMAIN types, parameters : Seq(DOMAIN types)]

(* The two passes keep the types of their fields, and every type pointer   *)
(* they hold points at a type.                                             *)
TypeOK ==
  /\ program \in Seq(Definition)
  /\ rootParent \in {"null", "junk"}
  /\ phase \in Running \cup Final
  /\ def \in Nat \ {0} /\ part \in Nat
  /\ argumentTypes \in Seq(DOMAIN types)
  /\ IsMap(members, Id, DOMAIN types)
  /\ \A t \in DOMAIN types :
       types[t].id \in TypeId /\ IsMap(types[t].members, Id, DOMAIN types)
  /\ DOMAIN functionSymbols \subseteq Id
  /\ \A f \in DOMAIN functionSymbols : IsSignature(functionSymbols[f])
  /\ anyErrors \in BOOLEAN
  /\ DOMAIN typeMap \subseteq DOMAIN types
  /\ DOMAIN structBody \subseteq DOMAIN types
  /\ DOMAIN llvmFunction \subseteq DOMAIN functionSymbols

(* A name denotes one type: comparing the pointers that findBasicType      *)
(* returns (Types.cpp:6-11) is comparing the names.                        *)
TypeNamesUnique ==
  \A t, u \in DOMAIN types : types[t].id = types[u].id => t = u

(* The members of a struct come before it in types, which is the order     *)
(* createTypeObjects walks them in (LLVMContextBuilder.cpp:35-37).         *)
MembersComeFirst ==
  \A t \in DOMAIN types : \A n \in DOMAIN types[t].members :
    types[t].members[n] \in 1 .. t - 1

(* operator[] of typeMap never makes up an entry: no struct element and no *)
(* part of an LLVM signature is a null type.                               *)
NoNullType ==
  /\ \A t \in DOMAIN typeMap : typeMap[t] = t
  /\ \A t \in DOMAIN structBody : structBody[t] = types[t].members
  /\ \A f \in DOMAIN llvmFunction :
       /\ llvmFunction[f].returnType = functionSymbols[f].returnType
       /\ llvmFunction[f].arguments = functionSymbols[f].parameters

(* An error in one definition hides none in another: the pass goes through *)
(* to the end of the program and anyErrors tells exactly whether the       *)
(* program is well formed.                                                 *)
ErrorsExact ==
  phase = "context" /\ part = 0 => (anyErrors <=> ~ WellFormed(def - 1))

(* Past the gate of main.cpp:13 the context says what the program says:    *)
(* every function has the signature it is written with, argument by        *)
(* argument (LLVMContextBuilder.cpp:72-74 counts on it), and every struct  *)
(* its fields.                                                             *)
ContextFaithful ==
  phase \in {"typecheck", "types", "functions", "codegen"} =>
    \A k \in DOMAIN program :
      LET d == program[k] IN
        IF d.op = "DFun"
        THEN /\ d.name \in DOMAIN functionSymbols
             /\ functionSymbols[d.name] =
                  [returnType |-> Found(d.type),
                   parameters |-> [i \in DOMAIN d.parts |-> Found(d.parts[i].type)]]
        ELSE /\ Found(d.name) # null
             /\ LET fields == types[Found(d.name)].members IN
                  /\ DOMAIN fields = {d.parts[i].name : i \in DOMAIN d.parts}
                  /\ \A i \in DOMAIN d.parts : fields[d.parts[i].name] = Found(d.parts[i].type)

(* A type or signature once in the context stays as it is, under the same  *)
(* pointer, whatever later definitions of the same name do.                *)
FirstDeclarationStays ==
  [][ /\ \A t \in DOMAIN types : t \in DOMAIN types' /\ types'[t] = types[t]
      /\ \A f \in DOMAIN functionSymbols :
           f \in DOMAIN functionSymbols' /\ functionSymbols'[f] = functionSymbols[f] ]_vars

(* No LLVM function takes a void argument, and an LLVM struct has an       *)
(* element of type void, which the language of LLVM does not allow, only   *)
(* where the program itself writes a void field (ContextBuilder.cpp:64     *)
(* looks for unknown types alone, unlike :25).                             *)
VoidOnlyAsWritten ==
  /\ \A f \in DOMAIN llvmFunction : \A i \in DOMAIN llvmFunction[f].arguments :
       llvmFunction[f].arguments[i] # TYPE_VOID
  /\ \A t \in DOMAIN structBody : \A n \in DOMAIN structBody[t] :
       structBody[t][n] = TYPE_VOID =>
         \E k \in DOMAIN program :
           /\ program[k].op = "DStruct" /\ program[k].name = types[t].id
           /\ \E i \in DOMAIN program[k].parts : program[k].parts[i] = [type |-> "void", name |-> n]

(* Bodies are generated only for a program that the first pass found well  *)
(* formed, with an LLVM type for every type and an LLVM function for every *)
(* function they can name, and with no void where LLVM allows none but in  *)
(* the void fields the program writes.                                     *)
CodeGenIsPrepared ==
  phase = "codegen" =>
    /\ WellFormed(Len(program))
    /\ DOMAIN typeMap = DOMAIN types
    /\ DOMAIN llvmFunction = DOMAIN functionSymbols
    /\ VoidOnlyAsWritten

(* project2/run-test expects the programs in tests/, 0-structs.cc among    *)
(* them, to be compiled: the compiler does not crash on them.              *)
DoesNotCrash == phase # "crashed"
=============================================================================
