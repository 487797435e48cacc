--------------------------- MODULE ContextBuilder ---------------------------
(***************************************************************************)
(* The first pass over a program: ContextBuilder enters its structs and    *)
(* function signatures into the default context, one definition after the  *)
(* other, and main decides by anyErrors whether to go on.  One step is one *)
(* round of the loop over the arguments or fields of a definition, or the  *)
(* end of a definition.                                                    *)
(*                                                                         *)
(* Context::Context leaves parent uninitialised and getDefaultContext does *)
(* not set it, so a name that is not found is looked for in whatever       *)
(* parent points at.  rootParent tells what the memory held: null, and the *)
(* lookup yields nullptr, or junk, and the program crashes.                *)
(***************************************************************************)
EXTENDS Context, FiniteSets

CONSTANT Programs    \* the programs compiled, each a sequence of definitions

(* A definition [op, name, type, parts]; parts are its arguments or fields *)
(* and type its result type (of no meaning for a struct).                  *)
Part == [type : TypeId, name : Id]

Definition == [op : {"DFun", "DStruct"}, name : Id, type : TypeId, parts : Seq(Part)]

ASSUME ProgramsAssumption == Programs \subseteq Seq(Definition)

VARIABLES
  program,          \* the definitions to compile
  rootParent,       \* what the parent of the default context holds
  phase,            \* how far main is
  def,              \* number of the definition being visited
  part,             \* number of its parts visited so far
  argumentTypes,    \* of the function being visited
  members,          \* of the struct being visited
  types,            \* Context::types of the default context
  functionSymbols,  \* Context::functionSymbols of the default context
  anyErrors         \* ContextBuilder::anyErrors

context == <<types, functionSymbols, anyErrors>>
place   == <<def, part, argumentTypes, members>>

cbVars == <<program, rootParent, phase, place, context>>

-----------------------------------------------------------------------------
(* Reading the context *)

Def == program[def]

InDef(op) == phase = "context" /\ def <= Len(program) /\ Def.op = op

AtPart(op) == InDef(op) /\ part < Len(Def.parts)

AtEnd(op) == InDef(op) /\ part = Len(Def.parts)

ThisPart == Def.parts[part + 1]

Found(id) == findBasicType(types, id)

(* The lookup of id comes back, with a type or with nullptr.               *)
Resolves(id) == Found(id) # null \/ rootParent = "null"

(* A field whose name is taken is skipped before its type is looked up.    *)
Duplicate == ThisPart.name \in DOMAIN members

-----------------------------------------------------------------------------
(* Steps *)

NextPart == part' = part + 1 /\ UNCHANGED def

NextDef ==
  /\ def' = def + 1
  /\ part' = 0
  /\ argumentTypes' = <<>>
  /\ members' = NoMembers

(* Mutant of visitADecl: only void is looked for, nullptr is appended.     *)
visitADeclUnchecked ==
  /\ AtPart("DFun")
  /\ Resolves(ThisPart.type)
  /\ NextPart
  /\ LET argType == Found(ThisPart.type)
         bad     == argType = TYPE_VOID
     IN /\ argumentTypes' = IF bad THEN argumentTypes ELSE Append(argumentTypes, argType)
        /\ anyErrors' = (anyErrors \/ bad)
  /\ UNCHANGED <<program, rootParent, phase, members, types, functionSymbols>>

(* Mutant of visitADecl: a void argument is left out without a report.     *)
visitADeclQuiet ==
  /\ AtPart("DFun")
  /\ Resolves(ThisPart.type)
  /\ NextPart
  /\ LET argType == Found(ThisPart.type)
     IN /\ argumentTypes' = IF argType \in {TYPE_VOID, null} THEN argumentTypes
                             ELSE Append(argumentTypes, argType)
        /\ anyErrors' = (anyErrors \/ argType = null)
  /\ UNCHANGED <<program, rootParent, phase, members, types, functionSymbols>>

(* One argument: void and unknown types are reported and left out.         *)
visitADecl ==
  /\ AtPart("DFun")
  /\ Resolves(ThisPart.type)
  /\ NextPart
  /\ LET argType == Found(ThisPart.type)
         bad     == argType \in {TYPE_VOID, null}
     IN /\ argumentTypes' = IF bad THEN argumentTypes ELSE Append(argumentTypes, argType)
        /\ anyErrors' = (anyErrors \/ bad)
  /\ UNCHANGED <<program, rootParent, phase, members, types, functionSymbols>>

(* Mutant of endDFun: the result of addFunction is not looked at.          *)
endDFunUnchecked ==
  /\ AtEnd("DFun")
  /\ Resolves(Def.type)
  /\ NextDef
  /\ LET returnType == Found(Def.type)
         signature  == [returnType |-> returnType, parameters |-> argumentTypes]
     IN /\ functionSymbols' = IF returnType = null THEN functionSymbols
                              ELSE Emplace(functionSymbols, Def.name, signature)
        /\ anyErrors' = (anyErrors \/ returnType = null)
  /\ UNCHANGED <<program, rootParent, phase, types>>

(* Mutant of endDFun: the last signature of a name replaces the first.     *)
endDFunReplaces ==
  /\ AtEnd("DFun")
  /\ Resolves(Def.type)
  /\ NextDef
  /\ LET returnType == Found(Def.type)
         signature  == [returnType |-> returnType, parameters |-> argumentTypes]
         taken      == Def.name \in DOMAIN functionSymbols
     IN /\ functionSymbols' = IF returnType = null THEN functionSymbols
                              ELSE [f \in DOMAIN functionSymbols \cup {Def.name} |->
                                     IF f = Def.name THEN signature ELSE functionSymbols[f]]
        /\ anyErrors' = (anyErrors \/ returnType = null \/ taken)
  /\ UNCHANGED <<program, rootParent, phase, types>>

(* Mutant of endDFun: an unknown result type is not reported.              *)
endDFunQuiet ==
  /\ AtEnd("DFun")
  /\ Resolves(Def.type)
  /\ NextDef
  /\ LET returnType == Found(Def.type)
         signature  == [returnType |-> returnType, parameters |-> argumentTypes]
         taken      == Def.name \in DOMAIN functionSymbols
     IN /\ functionSymbols' = IF returnType = null THEN functionSymbols
                              ELSE Emplace(functionSymbols, Def.name, signature)
        /\ anyErrors' = (anyErrors \/ (returnType # null /\ taken))
  /\ UNCHANGED <<program, rootParent, phase, types>>

(* After the arguments: a function of unknown result type is not entered,  *)
(* one whose name is taken throws.                                         *)
endDFun ==
  /\ AtEnd("DFun")
  /\ Resolves(Def.type)
  /\ NextDef
  /\ LET returnType == Found(Def.type)
         signature  == [returnType |-> returnType, parameters |-> argumentTypes]
         taken      == Def.name \in DOMAIN functionSymbols
     IN /\ functionSymbols' = IF returnType = null THEN functionSymbols
                              ELSE Emplace(functionSymbols, Def.name, signature)
        /\ anyErrors' = (anyErrors \/ returnType = null \/ taken)
  /\ UNCHANGED <<program, rootParent, phase, types>>

(* Mutant of visitFDecl: a struct may have a field of its own type.        *)
visitFDeclRecursive ==
  /\ AtPart("DStruct")
  /\ Duplicate \/ Resolves(ThisPart.type)
  /\ NextPart
  /\ LET memberType == IF ThisPart.type = Def.name THEN Len(types) + 1
                                                   ELSE Found(ThisPart.type)
         bad        == Duplicate \/ memberType = null
     IN /\ members' = IF bad THEN members ELSE Emplace(members, ThisPart.name, memberType)
        /\ anyErrors' = (anyErrors \/ bad)
  /\ UNCHANGED <<program, rootParent, phase, argumentTypes, types, functionSymbols>>

(* One field: a repeated name and an unknown type are reported, left out.  *)
visitFDecl ==
  /\ AtPart("DStruct")
  /\ Duplicate \/ Resolves(ThisPart.type)
  /\ NextPart
  /\ LET memberType == Found(ThisPart.type)
         bad        == Duplicate \/ memberType = null
     IN /\ members' = IF bad THEN members ELSE Emplace(members, ThisPart.name, memberType)
        /\ anyErrors' = (anyErrors \/ bad)
  /\ UNCHANGED <<program, rootParent, phase, argumentTypes, types, functionSymbols>>

(* Mutant of endDStruct: the type is pushed although its name is taken.    *)
endDStructUnchecked ==
  /\ AtEnd("DStruct")
  /\ Resolves(Def.name)
  /\ NextDef
  /\ types' = Append(types, StructType(Def.name, members))
  /\ anyErrors' = (anyErrors \/ Found(Def.name) # null)
  /\ UNCHANGED <<program, rootParent, phase, functionSymbols>>

(* After the fields: the struct is entered, errors or not, or throws.      *)
endDStruct ==
  /\ AtEnd("DStruct")
  /\ Resolves(Def.name)
  /\ NextDef
  /\ LET taken == Found(Def.name) # null
     IN /\ types' = IF taken THEN types ELSE Append(types, StructType(Def.name, members))
        /\ anyErrors' = (anyErrors \/ taken)
  /\ UNCHANGED <<program, rootParent, phase, functionSymbols>>

(* A lookup that finds nothing goes on to the junk that parent holds.      *)
danglingParent ==
  /\ \/ AtPart("DFun") /\ ~ Resolves(ThisPart.type)
     \/ AtEnd("DFun") /\ ~ Resolves(Def.type)
     \/ AtPart("DStruct") /\ ~ Duplicate /\ ~ Resolves(ThisPart.type)
     \/ AtEnd("DStruct") /\ ~ Resolves(Def.name)
  /\ phase' = "crashed"
  /\ UNCHANGED <<program, rootParent, place, context>>

(* Mutant of compileContextBuilt: anyErrors is not looked at.              *)
compileUngated ==
  /\ phase = "context"
  /\ def > Len(program)
  /\ phase' = "typecheck"
  /\ UNCHANGED <<program, rootParent, place, context>>

(* compile: exit(1) after errors, else on to the typechecker.              *)
compileContextBuilt ==
  /\ phase = "context"
  /\ def > Len(program)
  /\ phase' = IF anyErrors THEN "rejected" ELSE "typecheck"
  /\ UNCHANGED <<program, rootParent, place, context>>

cbInit ==
  /\ program \in Programs
  /\ rootParent \in {"null", "junk"}
  /\ phase = "context"
  /\ def = 1
  /\ part = 0
  /\ argumentTypes = <<>>
  /\ members = NoMembers
  /\ types = DefaultTypes
  /\ functionSymbols = NoMembers
  /\ anyErrors = FALSE

cbNext ==
  \/ visitADecl \/ endDFun
  \/ visitFDecl \/ endDStruct
  \/ danglingParent
  \/ compileContextBuilt
=============================================================================
