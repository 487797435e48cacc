---------------------- MODULE LLVMContextBuilderProofs ----------------------
(***************************************************************************)
(* Theorems about the declaration passes.  The invariant IInv keeps types  *)
(* in the order that createTypeObjects relies on and ties typeMap, the     *)
(* struct bodies and the LLVM signatures to how far that loop has come.    *)
(* Then: what the first pass finds in a program, and what it enters into   *)
(* the context.                                                            *)
(***************************************************************************)
EXTENDS LLVMContextBuilder, TLAPS

Map(S) == UNION {[N -> S] : N \in SUBSET Id}

TypeRecord == [id : TypeId, members : Map(Nat)]

Signatures == [returnType : Nat, parameters : Seq(Nat)]

(* A type pointer that the context or a visitor holds.                     *)
Known == 1 .. Len(types)

ContextInv ==
  /\ types \in Seq(TypeRecord)
  /\ Len(types) >= 4
  /\ types[TYPE_VOID].id = "void"
  /\ TypeNamesUnique
  /\ MembersComeFirst

PlaceInv ==
  /\ program \in Seq(Definition)
  /\ rootParent \in {"null", "junk"}
  /\ phase \in Running \cup Final
  /\ def \in Nat \ {0}
  /\ part \in Nat
  /\ anyErrors \in BOOLEAN
  /\ argumentTypes \in Seq(Known)
  /\ members \in Map(Known)

FunctionsInv ==
  /\ functionSymbols \in Map(Signatures)
  /\ \A f \in DOMAIN functionSymbols :
       functionSymbols[f] \in [returnType : Known, parameters : Seq(Known)]

(* The types that createTypeObjects has made an LLVM type for.             *)
Made ==
  IF phase = "types" THEN Known \cap (1 .. def - 1)
  ELSE IF phase \in {"functions", "codegen"} THEN Known ELSE {}

LLVMInv ==
  /\ typeMap = [t \in Made |-> t]
  /\ structBody = [t \in Made |-> types[t].members]
  /\ DOMAIN llvmFunction \subseteq DOMAIN functionSymbols
  /\ phase \notin {"functions", "codegen"} => llvmFunction = NoMembers
  /\ \A f \in DOMAIN llvmFunction :
       /\ llvmFunction[f].returnType = functionSymbols[f].returnType
       /\ llvmFunction[f].arguments = functionSymbols[f].parameters

IInv == ContextInv /\ PlaceInv /\ FunctionsInv /\ LLVMInv

-----------------------------------------------------------------------------
(* Lookups and maps *)

(* Map(S) holds the functions from a set of identifiers to S.              *)
LEMMA MapValues ==
  ASSUME NEW S, NEW m
  PROVE  m \in Map(S) <=> DOMAIN m \subseteq Id /\ m \in [DOMAIN m -> S]
  BY DEF Map

(* Emplace adds one entry at most.                                         *)
LEMMA EmplaceMap ==
  ASSUME NEW S, NEW m \in Map(S), NEW k \in Id, NEW v \in S
  PROVE  Emplace(m, k, v) \in Map(S)
  <1>1. DOMAIN m \subseteq Id /\ m \in [DOMAIN m -> S]
    BY MapValues
  <1>2. DOMAIN Emplace(m, k, v) = DOMAIN m \cup {k}
    BY DEF Emplace
  <1>3. \A x \in DOMAIN m \cup {k} : Emplace(m, k, v)[x] \in S
    BY <1>1 DEF Emplace
  <1>4. Emplace(m, k, v) \in [DOMAIN m \cup {k} -> S]
    BY <1>1, <1>3 DEF Emplace
  <1> QED
    BY <1>1, <1>2, <1>4, MapValues

(* findBasicType yields nullptr exactly for a name no type has, and else   *)
(* the one type of that name (Context.cpp:64-73).                          *)
LEMMA FindBasicType ==
  ASSUME NEW ts \in Seq(TypeRecord), NEW id,
         \A t, u \in DOMAIN ts : ts[t].id = ts[u].id => t = u
  PROVE  /\ \A t \in DOMAIN ts : ts[t].id # id => findBasicType(ts, id) # t
         /\ (\E t \in DOMAIN ts : ts[t].id = id) =>
              findBasicType(ts, id) \in DOMAIN ts /\ ts[findBasicType(ts, id)].id = id
         /\ (\A t \in DOMAIN ts : ts[t].id # id) => findBasicType(ts, id) = null
  <1>1. DOMAIN ts = 1 .. Len(ts) /\ Len(ts) \in Nat
    OBVIOUS
  <1>2. CASE Matches(ts, id) = {}
    BY <1>1, <1>2 DEF findBasicType, Matches, null
  <1>3. CASE Matches(ts, id) # {}
    <2>1. PICK t \in Matches(ts, id) : TRUE
      BY <1>3
    <2>2. t \in DOMAIN ts /\ ts[t].id = id /\ Matches(ts, id) = {t}
      BY <2>1 DEF Matches
    <2>3. findBasicType(ts, id) = t
      BY <1>1, <1>3, <2>2 DEF findBasicType
    <2> QED
      BY <2>2, <2>3
  <1> QED
    BY <1>2, <1>3

(* A found name is a known type.                                           *)
LEMMA FoundKnown ==
  ASSUME ContextInv, NEW id
  PROVE  /\ Found(id) = null \/ Found(id) \in Known
         /\ Found(id) = null <=> \A t \in Known : types[t].id # id
         /\ Found(id) # null => types[Found(id)].id = id
  <1>1. types \in Seq(TypeRecord) /\ DOMAIN types = Known /\ Len(types) \in Nat
    BY DEF ContextInv, Known
  <1>2. \A t, u \in DOMAIN types : types[t].id = types[u].id => t = u
    BY DEF ContextInv, TypeNamesUnique
  <1>3. 0 \notin Known
    BY <1>1 DEF Known
  <1> QED
    BY <1>1, <1>2, <1>3, FindBasicType DEF Found, null

-----------------------------------------------------------------------------
(* The invariant holds in every reachable state *)

(* getDefaultContext and empty maps satisfy the invariant.                 *)
LEMMA InitInv == Init => IInv
  <1> SUFFICES ASSUME Init PROVE IInv
    OBVIOUS
  <1> USE DEF Init, cbInit
  <1>1. /\ Len(types) = 4
        /\ types[1] = BasicType("int") /\ types[2] = BasicType("double")
        /\ types[3] = BasicType("bool") /\ types[4] = BasicType("void")
    BY DEF DefaultTypes
  <1>2. NoMembers \in Map(Nat) /\ NoMembers \in Map(Known) /\ NoMembers \in Map(Signatures)
    <2>1. DOMAIN NoMembers = {}
      BY DEF NoMembers
    <2>2. \A S : NoMembers \in [DOMAIN NoMembers -> S]
      BY DEF NoMembers
    <2> QED
      BY <2>1, <2>2, MapValues
  <1>3. \A id \in BasicIds : BasicType(id) \in TypeRecord /\ BasicType(id).id = id
                             /\ DOMAIN BasicType(id).members = {}
    BY <1>2 DEF BasicType, TypeRecord, TypeId, NoMembers
  <1>4. ContextInv
    <2>1. types \in Seq(TypeRecord)
      BY <1>3 DEF DefaultTypes, BasicIds
    <2>2. DOMAIN types = {1, 2, 3, 4}
      BY <1>1, <2>1
    <2>3. /\ types[1].id = "int" /\ types[2].id = "double"
          /\ types[3].id = "bool" /\ types[4].id = "void"
      BY <1>1 DEF BasicType
    <2>4. \A t \in DOMAIN types : DOMAIN types[t].members = {}
      BY <1>1, <1>3, <2>2 DEF BasicIds
    <2>5. TypeNamesUnique
      BY <2>2, <2>3 DEF TypeNamesUnique
    <2>6. MembersComeFirst
      BY <2>4 DEF MembersComeFirst
    <2> QED
      BY <1>1, <2>1, <2>3, <2>5, <2>6 DEF ContextInv, TYPE_VOID
  <1>5. PlaceInv
    <2>1. program \in Seq(Definition)
      BY ProgramsAssumption
    <2>2. argumentTypes \in Seq(Known)
      <3>1. argumentTypes = <<>>
        OBVIOUS
      <3> QED
        BY ONLY <3>1
    <2>3. members \in Map(Known)
      BY <1>2
    <2>4. rootParent \in {"null", "junk"} /\ phase \in Running \cup Final
      BY DEF Running
    <2>5. def \in Nat \ {0} /\ part \in Nat
      <3>1. def = 1 /\ part = 0
        OBVIOUS
      <3> QED
        BY ONLY <3>1
    <2>6. anyErrors \in BOOLEAN
      OBVIOUS
    <2> QED
      BY ONLY <2>1, <2>2, <2>3, <2>4, <2>5, <2>6 DEF PlaceInv
  <1>6. FunctionsInv
    BY <1>2 DEF FunctionsInv, NoMembers
  <1>7. LLVMInv
    <2>1. Made = {}
      BY DEF Made
    <2> QED
      BY <2>1 DEF LLVMInv, NoMembers
  <1> QED
    BY <1>4, <1>5, <1>6, <1>7 DEF IInv

(* While ContextBuilder runs, LLVMContextBuilder has made nothing.         *)
LEMMA NothingMade ==
  ASSUME LLVMInv, phase = "context", UNCHANGED llvm,
         phase' \in {"context", "crashed", "rejected", "typecheck"}
  PROVE  LLVMInv'
  <1>1. Made = {} /\ Made' = {}
    BY DEF Made
  <1>2. typeMap' = [t \in {} |-> t] /\ structBody' = [t \in {} |-> types'[t].members]
    BY <1>1 DEF LLVMInv, llvm
  <1>3. llvmFunction' = NoMembers /\ DOMAIN llvmFunction' = {}
    BY DEF LLVMInv, llvm, NoMembers
  <1> QED
    BY <1>1, <1>2, <1>3 DEF LLVMInv

(* A step that leaves types and signatures alone keeps what is said of     *)
(* them.                                                                   *)
LEMMA ContextUnchanged ==
  ASSUME ContextInv, FunctionsInv, UNCHANGED <<types, functionSymbols>>
  PROVE  ContextInv' /\ FunctionsInv' /\ Known' = Known
  BY DEF ContextInv, FunctionsInv, Known, TypeNamesUnique, MembersComeFirst

(* One argument adds at most a known type to argumentTypes.                *)
LEMMA visitADeclInv ==
  ASSUME IInv, visitADecl, UNCHANGED llvm
  PROVE  IInv'
  <1> USE DEF IInv
  <1>1. phase = "context" /\ phase' = "context"
    BY DEF visitADecl, AtPart, InDef
  <1>2. ContextInv' /\ FunctionsInv' /\ Known' = Known
    BY ContextUnchanged DEF visitADecl
  <1>3. LLVMInv'
    BY <1>1, NothingMade
  <1>4. PlaceInv'
    <2>1. Found(ThisPart.type) = null \/ Found(ThisPart.type) \in Known
      BY FoundKnown
    <2>2. argumentTypes' \in Seq(Known)
      BY <2>1 DEF visitADecl, PlaceInv
    <2>3. anyErrors' \in BOOLEAN
      BY DEF visitADecl, PlaceInv
    <2> QED
      BY <1>2, <2>2, <2>3 DEF PlaceInv, visitADecl, NextPart
  <1> QED
    BY <1>2, <1>3, <1>4

(* One field adds at most a member of a known type.                        *)
LEMMA visitFDeclInv ==
  ASSUME IInv, visitFDecl, UNCHANGED llvm
  PROVE  IInv'
  <1> USE DEF IInv
  <1>1. phase = "context" /\ phase' = "context"
    BY DEF visitFDecl, AtPart, InDef
  <1>2. ContextInv' /\ FunctionsInv' /\ Known' = Known
    BY ContextUnchanged DEF visitFDecl
  <1>3. LLVMInv'
    BY <1>1, NothingMade
  <1>4. PlaceInv'
    <2>1. Found(ThisPart.type) = null \/ Found(ThisPart.type) \in Known
      BY FoundKnown
    <2>2. ThisPart.name \in Id
      <3>1. program \in Seq(Definition) /\ def \in DOMAIN program
        BY DEF PlaceInv, visitFDecl, AtPart, InDef
      <3>2. Def \in Definition
        BY <3>1 DEF Def
      <3>3. Def.parts \in Seq(Part) /\ part + 1 \in DOMAIN Def.parts
        BY <3>2 DEF Definition, PlaceInv, visitFDecl, AtPart
      <3>4. \A q \in Seq(Part), i \in Nat : i \in DOMAIN q => q[i] \in Part
        OBVIOUS
      <3>5. Def.parts[part + 1] \in Part
        BY <3>3, <3>4 DEF PlaceInv
      <3> QED
        BY <3>5 DEF ThisPart, Part
    <2>3. members' \in Map(Known)
      BY <2>1, <2>2, EmplaceMap DEF visitFDecl, PlaceInv
    <2>4. anyErrors' \in BOOLEAN
      BY DEF visitFDecl, PlaceInv
    <2> QED
      BY <1>2, <2>3, <2>4 DEF PlaceInv, visitFDecl, NextPart
  <1> QED
    BY <1>2, <1>3, <1>4

(* The definition being visited is one of the program.                     *)
LEMMA DefTyped ==
  ASSUME PlaceInv, def <= Len(program)
  PROVE  Def \in Definition
  BY DEF PlaceInv, Def

(* A signature that is entered has known types only.                       *)
LEMMA endDFunInv ==
  ASSUME IInv, endDFun, UNCHANGED llvm
  PROVE  IInv'
  <1> USE DEF IInv
  <1>1. phase = "context" /\ phase' = "context" /\ types' = types
    BY DEF endDFun, AtEnd, InDef
  <1>2. Known' = Known /\ ContextInv'
    BY <1>1 DEF Known, ContextInv, TypeNamesUnique, MembersComeFirst
  <1>3. LLVMInv'
    BY <1>1, NothingMade
  <1>4. Found(Def.type) = null \/ Found(Def.type) \in Known
    BY FoundKnown
  <1>5. Known \subseteq Nat /\ Seq(Known) \subseteq Seq(Nat)
    BY DEF Known
  <1>6. FunctionsInv'
    <2> DEFINE sig == [returnType |-> Found(Def.type), parameters |-> argumentTypes]
    <2>1. CASE Found(Def.type) = null
      BY <1>2, <2>1 DEF endDFun, FunctionsInv
    <2>2. CASE Found(Def.type) \in Known
      <3>1. functionSymbols' = Emplace(functionSymbols, Def.name, sig)
        BY <1>5, <2>2 DEF endDFun, null, Known
      <3>2. sig \in [returnType : Known, parameters : Seq(Known)] /\ sig \in Signatures
        BY <1>5, <2>2 DEF PlaceInv, Signatures
      <3>3. Def.name \in Id
        BY DefTyped DEF Definition, endDFun, AtEnd, InDef
      <3>4. functionSymbols' \in Map(Signatures)
        BY <3>1, <3>2, <3>3, EmplaceMap DEF FunctionsInv
      <3>5. \A f \in DOMAIN functionSymbols' :
              functionSymbols'[f] \in [returnType : Known, parameters : Seq(Known)]
        BY <3>1, <3>2 DEF FunctionsInv, Emplace
      <3> QED
        BY <1>2, <3>4, <3>5 DEF FunctionsInv
    <2> QED
      BY <1>4, <2>1, <2>2
  <1>7. PlaceInv'
    <2>1. NoMembers \in Map(Known)
      BY MapValues DEF NoMembers
    <2>2. anyErrors' \in BOOLEAN
      BY DEF endDFun, PlaceInv
    <2> QED
      BY <1>2, <2>1, <2>2 DEF PlaceInv, endDFun, NextDef
  <1> QED
    BY <1>2, <1>3, <1>6, <1>7

(* A struct that is entered comes last, under a name no type has, and its  *)
(* members come before it.                                                 *)
LEMMA endDStructInv ==
  ASSUME IInv, endDStruct, UNCHANGED llvm
  PROVE  IInv'
  <1> USE DEF IInv
  <1>1. phase = "context" /\ phase' = "context" /\ functionSymbols' = functionSymbols
    BY DEF endDStruct, AtEnd, InDef
  <1>2. LLVMInv'
    BY <1>1, NothingMade
  <1>3. Def.name \in Id /\ Def.name \in TypeId
    BY DefTyped DEF Definition, endDStruct, AtEnd, InDef, TypeId
  <1>4. types \in Seq(TypeRecord) /\ DOMAIN types = 1 .. Len(types) /\ Len(types) \in Nat
    BY DEF ContextInv
  <1>5. ContextInv' /\ Known \subseteq Known'
    <2>1. CASE Found(Def.name) # null
      <3>1. types' = types
        BY <2>1 DEF endDStruct
      <3> QED
        BY <3>1 DEF Known, ContextInv, TypeNamesUnique, MembersComeFirst
    <2>2. CASE Found(Def.name) = null
      <3> DEFINE new == StructType(Def.name, members)
      <3>1. types' = Append(types, new)
        BY <2>2 DEF endDStruct
      <3>2. \A t \in Known : types[t].id # Def.name
        BY <2>2, FoundKnown
      <3>3. DOMAIN members \subseteq Id /\ members \in [DOMAIN members -> Known]
        BY MapValues DEF PlaceInv
      <3>4. new \in TypeRecord
        <4>1. members \in [DOMAIN members -> Nat]
          BY <3>3 DEF Known
        <4>2. members \in Map(Nat)
          BY <3>3, <4>1, MapValues
        <4> QED
          BY <1>3, <4>2 DEF StructType, TypeRecord
      <3>5. types' \in Seq(TypeRecord) /\ Len(types') = Len(types) + 1
        BY <1>4, <3>1, <3>4
      <3>6. /\ \A t \in Known : types'[t] = types[t]
            /\ types'[Len(types) + 1] = new
            /\ Known' = Known \cup {Len(types) + 1}
            /\ DOMAIN types' = Known' /\ DOMAIN types = Known
        BY <1>4, <3>1, <3>5 DEF Known
      <3>7. TypeNamesUnique'
        <4>1. new.id = Def.name
          BY DEF StructType
        <4> QED
          BY <3>2, <3>6, <4>1 DEF TypeNamesUnique, ContextInv
      <3>8. MembersComeFirst'
        <4>1. new.members = members
          BY DEF StructType
        <4>2. ASSUME NEW t \in Known, NEW n \in DOMAIN types'[t].members
              PROVE  types'[t].members[n] \in 1 .. t - 1
          BY <3>6, <4>2 DEF MembersComeFirst, ContextInv
        <4>3. ASSUME NEW n \in DOMAIN new.members
              PROVE  new.members[n] \in 1 .. (Len(types) + 1) - 1
          BY <1>4, <3>3, <4>1, <4>3 DEF Known
        <4> QED
          BY <3>6, <4>2, <4>3 DEF MembersComeFirst
      <3>9. TYPE_VOID \in Known /\ Len(types') >= 4
        BY <1>4, <3>5 DEF ContextInv, Known, TYPE_VOID
      <3>10. types'[TYPE_VOID].id = "void"
        BY <3>6, <3>9 DEF ContextInv
      <3> QED
        BY <3>5, <3>6, <3>7, <3>8, <3>9, <3>10 DEF ContextInv
    <2> QED
      BY <2>1, <2>2
  <1>6. FunctionsInv'
    BY <1>1, <1>5 DEF FunctionsInv
  <1>7. PlaceInv'
    <2>1. NoMembers \in Map(Known')
      BY MapValues DEF NoMembers
    <2>2. anyErrors' \in BOOLEAN
      BY DEF endDStruct, PlaceInv
    <2> QED
      BY <2>1, <2>2 DEF PlaceInv, endDStruct, NextDef
  <1> QED
    BY <1>2, <1>5, <1>6, <1>7

(* Steps that only move on to another phase, before anything is made.      *)
LEMMA phaseInv ==
  ASSUME IInv, UNCHANGED <<program, rootParent, part, argumentTypes, members, context, llvm>>,
         phase \in {"context", "typecheck"}, def' \in Nat \ {0},
         \/ phase' \in {"typecheck", "rejected", "crashed"}
         \/ phase' = "types" /\ def' = 1
  PROVE  IInv'
  <1> USE DEF IInv, context
  <1>1. ContextInv' /\ FunctionsInv' /\ Known' = Known
    BY ContextUnchanged
  <1>2. Made = {} /\ Made' = {}
    BY DEF Made, Known
  <1>3. LLVMInv'
    <2>1. typeMap' = [t \in {} |-> t] /\ structBody' = [t \in {} |-> types'[t].members]
      BY <1>2 DEF LLVMInv, llvm
    <2>2. llvmFunction' = NoMembers /\ DOMAIN llvmFunction' = {}
      BY DEF LLVMInv, llvm, NoMembers
    <2> QED
      BY <1>2, <2>1, <2>2 DEF LLVMInv
  <1>4. PlaceInv'
    BY <1>1 DEF PlaceInv, Running, Final
  <1> QED
    BY <1>1, <1>3, <1>4

(* operator[] on keys that have an entry changes nothing.                  *)
LEMMA SubscriptPresent ==
  ASSUME NEW m, NEW S, NEW K, m = [t \in S |-> t], K \subseteq S
  PROVE  Subscript(m, K) = m /\ DOMAIN m = S /\ \A k \in K : Subscript(m, K)[k] = k
  <1>1. DOMAIN m = S /\ S \cup K = S
    OBVIOUS
  <1>2. Subscript(m, K) = [t \in S |-> IF t \in S THEN m[t] ELSE null]
    BY <1>1 DEF Subscript
  <1>3. Subscript(m, K) = m
    BY <1>2
  <1> QED
    BY <1>1, <1>3

(* The members of the next type have been made: no null entry.             *)
LEMMA createTypeObjectInv ==
  ASSUME IInv, createTypeObject
  PROVE  IInv'
  <1> USE DEF IInv
  <1>1. /\ phase = "types" /\ phase' = "types" /\ def' = def + 1
        /\ def \in Known /\ def \in Nat /\ UNCHANGED <<types, functionSymbols>>
    BY DEF createTypeObject, context, PlaceInv, Known
  <1>2. ContextInv' /\ FunctionsInv' /\ Known' = Known
    BY <1>1, ContextUnchanged
  <1>3. PlaceInv'
    BY <1>1, <1>2 DEF PlaceInv, createTypeObject, context
  <1>4. Len(types) \in Nat /\ DOMAIN types = Known
    BY DEF ContextInv, Known
  <1>5. Made = 1 .. def - 1 /\ Made' = 1 .. def /\ Made' = Made \cup {def} /\ def \notin Made
    BY <1>1, <1>2, <1>4 DEF Made, Known
  <1>6. PICK fields : fields = types[def].members
    OBVIOUS
  <1>7. PICK K : K = {fields[n] : n \in DOMAIN fields}
    OBVIOUS
  <1>8. K \subseteq Made
    BY <1>1, <1>4, <1>5, <1>6, <1>7 DEF MembersComeFirst, ContextInv
  <1>9. /\ Subscript(typeMap, K) = typeMap /\ DOMAIN typeMap = Made
        /\ \A k \in K : Subscript(typeMap, K)[k] = k
    BY <1>8, SubscriptPresent DEF LLVMInv
  <1>10. typeMap' = [t \in Made' |-> t]
    <2>1. typeMap' = Emplace(typeMap, def, def)
      BY <1>6, <1>7, <1>9 DEF createTypeObject
    <2>2. typeMap' = [t \in Made \cup {def} |-> IF t \in Made THEN typeMap[t] ELSE def]
      BY <1>9, <2>1 DEF Emplace
    <2> QED
      BY <1>5, <2>2 DEF LLVMInv
  <1>11. structBody' = [t \in Made' |-> types[t].members]
    <2>1. fields \in [DOMAIN fields -> Nat]
      <3>1. types[def] \in TypeRecord
        BY <1>1, <1>4 DEF ContextInv
      <3>2. fields \in Map(Nat)
        BY <1>6, <3>1 DEF TypeRecord
      <3> QED
        BY <3>2, MapValues
    <2>2. [n \in DOMAIN fields |-> Subscript(typeMap, K)[fields[n]]] = fields
      BY <1>7, <1>9, <2>1
    <2>3. structBody' = Emplace(structBody, def, fields)
      BY <1>6, <1>7, <2>2 DEF createTypeObject
    <2>4. DOMAIN structBody = Made
      BY DEF LLVMInv
    <2>5. structBody' = [t \in Made \cup {def} |-> IF t \in Made THEN structBody[t] ELSE fields]
      BY <2>3, <2>4 DEF Emplace
    <2> QED
      BY <1>5, <1>6, <2>5 DEF LLVMInv
  <1>12. LLVMInv'
    <2>1. UNCHANGED <<types, functionSymbols, llvmFunction>> /\ llvmFunction = NoMembers
      BY <1>1 DEF createTypeObject, LLVMInv
    <2>2. DOMAIN llvmFunction = {}
      BY <2>1 DEF NoMembers
    <2> QED
      BY <1>1, <1>10, <1>11, <2>1, <2>2 DEF LLVMInv
  <1> QED
    BY <1>2, <1>3, <1>12

(* The constructor is done: every known type has been made.                *)
LEMMA visitPDefsInv ==
  ASSUME IInv, visitPDefs
  PROVE  IInv'
  <1> USE DEF IInv, visitPDefs, context, llvm
  <1>1. ContextInv' /\ FunctionsInv' /\ Known' = Known
    BY ContextUnchanged
  <1>2. PlaceInv'
    BY <1>1 DEF PlaceInv, Running
  <1>3. Made' = Made
    <2>1. Len(types) \in Nat /\ def \in Nat /\ def > Len(types)
      BY DEF ContextInv, PlaceInv
    <2> QED
      BY <1>1, <2>1 DEF Made, Known
  <1>4. LLVMInv'
    BY <1>3 DEF LLVMInv
  <1> QED
    BY <1>1, <1>2, <1>4

(* A signature's types have all been made: the LLVM signature is the same. *)
LEMMA visitDFunInv ==
  ASSUME IInv, visitDFun
  PROVE  IInv'
  <1> USE DEF IInv
  <1>1. /\ phase = "functions" /\ phase' = "functions"
        /\ UNCHANGED <<types, functionSymbols, structBody>>
        /\ Def.name \in DOMAIN functionSymbols
    BY DEF visitDFun, context
  <1>2. ContextInv' /\ FunctionsInv' /\ Known' = Known
    BY <1>1, ContextUnchanged
  <1>3. PlaceInv'
    BY <1>1, <1>2 DEF PlaceInv, visitDFun, context
  <1>4. Made = Known /\ Made' = Known
    BY <1>1, <1>2 DEF Made
  <1>5. PICK ft : ft = functionSymbols[Def.name]
    OBVIOUS
  <1>6. ft \in [returnType : Known, parameters : Seq(Known)]
    BY <1>1, <1>5 DEF FunctionsInv
  <1>7. PICK K : K = {ft.parameters[i] : i \in DOMAIN ft.parameters} \cup {ft.returnType}
    OBVIOUS
  <1>8. K \subseteq Known
    <2>1. \A i \in DOMAIN ft.parameters : ft.parameters[i] \in Known
      BY <1>6
    <2> QED
      BY <1>6, <1>7, <2>1
  <1>9. /\ Subscript(typeMap, K) = typeMap
        /\ \A k \in K : Subscript(typeMap, K)[k] = k
    BY <1>4, <1>8, SubscriptPresent DEF LLVMInv
  <1>10. typeMap' = typeMap
    <2>1. \E q : /\ q = {ft.parameters[i] : i \in DOMAIN ft.parameters} \cup {ft.returnType}
                /\ typeMap' = Subscript(typeMap, q)
      BY ONLY visitDFun, <1>5 DEF visitDFun
    <2> QED
      BY <1>7, <1>9, <2>1
  <1>11. PICK looked : looked = Subscript(typeMap, K)
    OBVIOUS
  <1>12. PICK llvmFt : llvmFt = [returnType |-> looked[ft.returnType],
                       arguments |-> [i \in DOMAIN ft.parameters |-> looked[ft.parameters[i]]]]
    OBVIOUS
  <1>13. llvmFunction' = Emplace(llvmFunction, Def.name, llvmFt)
    BY <1>5, <1>7, <1>11, <1>12 DEF visitDFun
  <1>14. llvmFt.returnType = ft.returnType /\ llvmFt.arguments = ft.parameters
    <2>1. \A i \in DOMAIN ft.parameters : looked[ft.parameters[i]] = ft.parameters[i]
      BY <1>7, <1>9, <1>11
    <2>2. looked[ft.returnType] = ft.returnType
      BY <1>7, <1>9, <1>11
    <2>3. ft.parameters = [i \in DOMAIN ft.parameters |-> ft.parameters[i]]
      BY <1>6
    <2>4. llvmFt.arguments = [i \in DOMAIN ft.parameters |-> ft.parameters[i]]
      BY <1>12, <2>1
    <2> QED
      BY <1>12, <2>2, <2>3, <2>4
  <1>15. LLVMInv'
    <2>1. DOMAIN llvmFunction' = DOMAIN llvmFunction \cup {Def.name}
      BY <1>13 DEF Emplace
    <2>2. DOMAIN llvmFunction' \subseteq DOMAIN functionSymbols'
      BY <1>1, <2>1 DEF LLVMInv
    <2>3. ASSUME NEW f \in DOMAIN llvmFunction'
          PROVE  /\ llvmFunction'[f].returnType = functionSymbols'[f].returnType
                 /\ llvmFunction'[f].arguments = functionSymbols'[f].parameters
      <3>1. CASE f \in DOMAIN llvmFunction
        <4>1. llvmFunction'[f] = llvmFunction[f]
          BY <1>13, <3>1 DEF Emplace
        <4> QED
          BY <1>1, <3>1, <4>1 DEF LLVMInv
      <3>2. CASE f \notin DOMAIN llvmFunction
        <4>1. f = Def.name /\ llvmFunction'[f] = llvmFt
          BY <1>13, <2>1, <2>3, <3>2 DEF Emplace
        <4> QED
          BY <1>1, <1>5, <1>14, <4>1
      <3> QED
        BY <3>1, <3>2
    <2>4. typeMap' = [t \in Made' |-> t] /\ structBody' = [t \in Made' |-> types'[t].members]
      BY <1>1, <1>4, <1>10 DEF LLVMInv
    <2>5. phase' \in {"functions", "codegen"}
      BY <1>1
    <2> QED
      BY <2>2, <2>3, <2>4, <2>5 DEF LLVMInv
  <1> QED
    BY <1>2, <1>3, <1>15

(* Steps that pass over a struct or leave LLVMContextBuilder.              *)
LEMMA passInv ==
  ASSUME IInv, visitDStruct \/ visitBodies
  PROVE  IInv'
  <1> USE DEF IInv
  <1>1. /\ UNCHANGED <<types, functionSymbols, typeMap, structBody, llvmFunction>>
        /\ phase = "functions" /\ phase' \in {"functions", "codegen"}
    BY DEF visitDStruct, visitBodies, context, llvm
  <1>2. ContextInv' /\ FunctionsInv' /\ Known' = Known
    BY <1>1, ContextUnchanged
  <1>3. PlaceInv'
    BY <1>1, <1>2 DEF PlaceInv, visitDStruct, visitBodies, context, place, Running, Final
  <1>4. Made' = Made
    BY <1>1, <1>2 DEF Made
  <1>5. LLVMInv'
    BY <1>1, <1>4 DEF LLVMInv
  <1> QED
    BY <1>2, <1>3, <1>5

(* Every step of the declaration passes keeps the invariant.               *)
LEMMA NextInv == IInv /\ [Next]_vars => IInv'
  <1> SUFFICES ASSUME IInv, [Next]_vars PROVE IInv'
    OBVIOUS
  <1>1. CASE UNCHANGED vars
    <2>1. UNCHANGED <<program, rootParent, phase, def, part, argumentTypes, members>>
          /\ UNCHANGED <<types, functionSymbols, anyErrors, typeMap, structBody, llvmFunction>>
      BY <1>1 DEF vars, cbVars, place, context, llvm
    <2>2. ContextInv' /\ FunctionsInv' /\ Known' = Known
      BY <2>1, ContextUnchanged DEF IInv
    <2>3. Made' = Made
      BY <2>1, <2>2 DEF Made
    <2>4. PlaceInv' /\ LLVMInv'
      BY <2>1, <2>2, <2>3 DEF IInv, PlaceInv, LLVMInv
    <2> QED
      BY <2>2, <2>4 DEF IInv
  <1>2. CASE visitADecl /\ UNCHANGED llvm
    BY <1>2, visitADeclInv
  <1>3. CASE endDFun /\ UNCHANGED llvm
    BY <1>3, endDFunInv
  <1>4. CASE visitFDecl /\ UNCHANGED llvm
    BY <1>4, visitFDeclInv
  <1>5. CASE endDStruct /\ UNCHANGED llvm
    BY <1>5, endDStructInv
  <1>6. CASE danglingParent /\ UNCHANGED llvm
    <2>1. /\ phase = "context" /\ phase' = "crashed"
          /\ UNCHANGED <<program, rootParent, part, argumentTypes, members, context>> /\ def' = def
      BY <1>6 DEF danglingParent, AtPart, AtEnd, InDef, place
    <2> QED
      BY <1>6, <2>1, phaseInv DEF IInv, PlaceInv
  <1>7. CASE compileContextBuilt /\ UNCHANGED llvm
    <2>1. /\ phase = "context" /\ phase' \in {"rejected", "typecheck"}
          /\ UNCHANGED <<program, rootParent, part, argumentTypes, members, context>> /\ def' = def
      BY <1>7 DEF compileContextBuilt, place
    <2> QED
      BY <1>7, <2>1, phaseInv DEF IInv, PlaceInv
  <1>8. CASE compileTypeChecked
    <2>1. /\ phase = "typecheck" /\ phase' \in {"types", "rejected", "crashed"} /\ def' = 1
          /\ UNCHANGED <<program, rootParent, part, argumentTypes, members, context, llvm>>
      BY <1>8 DEF compileTypeChecked
    <2> QED
      BY <2>1, phaseInv
  <1>9. CASE createTypeObject
    BY <1>9, createTypeObjectInv
  <1>10. CASE visitPDefs
    BY <1>10, visitPDefsInv
  <1>11. CASE visitDFun
    BY <1>11, visitDFunInv
  <1>12. CASE visitDStruct \/ visitBodies
    BY <1>12, passInv
  <1> QED
    BY <1>1, <1>2, <1>3, <1>4, <1>5, <1>6, <1>7, <1>8, <1>9, <1>10, <1>11, <1>12 DEF Next, cbNext

(* The invariant of the declaration passes.                                *)
THEOREM Invariance == Spec => []IInv
  BY InitInv, NextInv, PTL DEF Spec

-----------------------------------------------------------------------------
(* What follows from it *)

(* Two pointers to types of one name are the same pointer, so comparing    *)
(* pointers (Types.cpp:6-11) is comparing types, in every program.         *)
THEOREM PointersAreNames == Spec => []TypeNamesUnique
  <1>1. IInv => TypeNamesUnique
    BY DEF IInv, ContextInv
  <1> QED
    BY <1>1, Invariance, PTL

(* types is in an order in which createTypeObjects can walk it.            *)
THEOREM TypesAreOrdered == Spec => []MembersComeFirst
  <1>1. IInv => MembersComeFirst
    BY DEF IInv, ContextInv
  <1> QED
    BY <1>1, Invariance, PTL

(* No lookup in typeMap misses: no struct body and no LLVM signature has a *)
(* null type (LLVMContextBuilder.cpp:36, 60, 63), whatever the program.    *)
THEOREM LookupsHit == Spec => []NoNullType
  <1>1. IInv => NoNullType
    BY DEF IInv, LLVMInv, NoNullType
  <1> QED
    BY <1>1, Invariance, PTL

(* The declaration passes are type correct.                                *)
THEOREM TypeCorrect == Spec => []TypeOK
  <1>1. IInv => TypeOK
    <2> SUFFICES ASSUME IInv PROVE TypeOK
      OBVIOUS
    <2>1. types \in Seq(TypeRecord) /\ DOMAIN types = Known /\ Len(types) \in Nat
      BY DEF IInv, ContextInv, Known
    <2>2. argumentTypes \in Seq(DOMAIN types) /\ IsMap(members, Id, DOMAIN types)
      BY <2>1, MapValues DEF IInv, PlaceInv, IsMap
    <2>3. ASSUME NEW t \in DOMAIN types
          PROVE  types[t].id \in TypeId /\ IsMap(types[t].members, Id, DOMAIN types)
      <3>1. types[t] \in TypeRecord
        BY <2>1, <2>3
      <3>2. types[t].id \in TypeId /\ types[t].members \in Map(Nat)
        BY <3>1 DEF TypeRecord
      <3>3. DOMAIN types[t].members \subseteq Id
            /\ types[t].members \in [DOMAIN types[t].members -> Nat]
        BY <3>2, MapValues
      <3>4. \A n \in DOMAIN types[t].members : types[t].members[n] \in DOMAIN types
        BY <2>1, <2>3 DEF IInv, ContextInv, MembersComeFirst, Known
      <3> QED
        BY <3>2, <3>3, <3>4 DEF IsMap
    <2>4. /\ DOMAIN functionSymbols \subseteq Id
          /\ \A f \in DOMAIN functionSymbols : IsSignature(functionSymbols[f])
      BY <2>1, MapValues DEF IInv, FunctionsInv, IsSignature
    <2>5. Made \subseteq Known
      BY DEF Made
    <2>6. DOMAIN typeMap \subseteq DOMAIN types /\ DOMAIN structBody \subseteq DOMAIN types
      BY <2>1, <2>5 DEF IInv, LLVMInv
    <2> QED
      BY <2>2, <2>3, <2>4, <2>6 DEF IInv, PlaceInv, LLVMInv, TypeOK
  <1> QED
    BY <1>1, Invariance, PTL

-----------------------------------------------------------------------------
(* The context only grows *)

(* Every step of the passes leaves what the context holds as it is.        *)
LEMMA ContextGrows ==
  ASSUME IInv, [Next]_vars
  PROVE  /\ \A t \in DOMAIN types : t \in DOMAIN types' /\ types'[t] = types[t]
         /\ \A f \in DOMAIN functionSymbols :
              f \in DOMAIN functionSymbols' /\ functionSymbols'[f] = functionSymbols[f]
  <1>1. CASE UNCHANGED <<types, functionSymbols>>
    BY <1>1
  <1>2. CASE endDFun
    <2>1. types' = types
      BY <1>2 DEF endDFun
    <2>2. \/ functionSymbols' = functionSymbols
          \/ \E s : functionSymbols' = Emplace(functionSymbols, Def.name, s)
      BY <1>2 DEF endDFun
    <2> QED
      BY <2>1, <2>2 DEF Emplace
  <1>3. CASE endDStruct
    <2>1. functionSymbols' = functionSymbols
      BY <1>3 DEF endDStruct
    <2>2. types' = types \/ types' = Append(types, StructType(Def.name, members))
      BY <1>3 DEF endDStruct
    <2>3. types \in Seq(TypeRecord)
      BY DEF IInv, ContextInv
    <2> QED
      BY <2>1, <2>2, <2>3
  <1>4. CASE visitADecl \/ visitFDecl \/ danglingParent \/ compileContextBuilt
    BY <1>1, <1>4 DEF visitADecl, visitFDecl, danglingParent, compileContextBuilt, context
  <1>5. CASE compileTypeChecked \/ createTypeObject \/ visitPDefs \/ visitDFun \/ visitDStruct \/ visitBodies
    BY <1>1, <1>5 DEF compileTypeChecked, createTypeObject, visitPDefs, visitDFun, visitDStruct, visitBodies, context
  <1>6. CASE UNCHANGED vars
    BY <1>1, <1>6 DEF vars, cbVars, context
  <1> QED
    BY <1>2, <1>3, <1>4, <1>5, <1>6 DEF Next, cbNext

(* The passes keep the program.                                            *)
LEMMA PassKeepsProgram ==
  ASSUME [Next]_vars
  PROVE  program' = program
  <1>1. CASE cbNext
    BY <1>1 DEF cbNext, visitADecl, endDFun, visitFDecl, endDStruct, danglingParent, compileContextBuilt
  <1>2. CASE compileTypeChecked \/ createTypeObject \/ visitPDefs \/ visitDFun \/ visitDStruct \/ visitBodies
    BY <1>2 DEF compileTypeChecked, createTypeObject, visitPDefs, visitDFun, visitDStruct, visitBodies
  <1>3. CASE UNCHANGED vars
    BY <1>3 DEF vars, cbVars
  <1> QED
    BY <1>1, <1>2, <1>3 DEF Next

(* A type or a signature, once entered, is never replaced or moved: the    *)
(* pointers that are compared (Types.cpp:6-11) stay those of their types.  *)
THEOREM DeclarationsStay == Spec => FirstDeclarationStays
  <1>1. IInv /\ [Next]_vars =>
          [ /\ \A t \in DOMAIN types : t \in DOMAIN types' /\ types'[t] = types[t]
            /\ \A f \in DOMAIN functionSymbols :
                 f \in DOMAIN functionSymbols' /\ functionSymbols'[f] = functionSymbols[f] ]_vars
    BY ContextGrows
  <1> QED
    BY <1>1, Invariance, PTL DEF Spec, FirstDeclarationStays

-----------------------------------------------------------------------------
(* What the first pass has read *)

FunNames(k) ==
  {program[j].name : j \in {j \in 1 .. k - 1 : program[j].op = "DFun"}}

(* Part i of the current definition is in order.                           *)
GoodPart(i) ==
  IF Def.op = "DFun"
  THEN Def.parts[i].type \in KnownBefore(def) \ {"void"}
  ELSE /\ Def.parts[i].type \in KnownBefore(def)
       /\ \A j \in 1 .. i - 1 : Def.parts[j].name # Def.parts[i].name

GoodParts == def <= Len(program) => \A i \in 1 .. part : GoodPart(i)

(* How far the pass is.                                                    *)
At ==
  /\ def <= Len(program) + 1
  /\ def <= Len(program) => part <= Len(Def.parts)
  /\ def = Len(program) + 1 => part = 0

(* The names of types are those of the basic types and of the structs read *)
(* so far, in error or not; functions and fields are left out in error, so *)
(* their names are all there only as long as there was none.               *)
NamesInv ==
  /\ \A id : (\E t \in Known : types[t].id = id) <=> id \in KnownBefore(def)
  /\ ~ anyErrors => DOMAIN functionSymbols = FunNames(def)
  /\ ~ anyErrors /\ def <= Len(program) /\ Def.op = "DStruct" =>
       DOMAIN members = {Def.parts[i].name : i \in 1 .. part}

ErrorsInv == anyErrors <=> ~ (WellFormed(def - 1) /\ GoodParts)

DInv == phase = "context" => At /\ NamesInv /\ ErrorsInv

(* A lookup finds exactly the names known where the definition starts.     *)
LEMMA FoundNames ==
  ASSUME IInv, NamesInv, NEW id
  PROVE  /\ Found(id) # null <=> id \in KnownBefore(def)
         /\ Found(id) = TYPE_VOID <=> id = "void"
  <1>1. ContextInv
    BY DEF IInv
  <1>2. Found(id) # null <=> id \in KnownBefore(def)
    BY <1>1, FoundKnown DEF NamesInv
  <1>3. /\ Len(types) \in Nat /\ DOMAIN types = Known /\ TYPE_VOID \in Known /\ TYPE_VOID # null
        /\ types[TYPE_VOID].id = "void"
        /\ \A t, u \in Known : types[t].id = types[u].id => t = u
    BY <1>1 DEF ContextInv, TypeNamesUnique, Known, TYPE_VOID, null
  <1>4. Found(id) = null \/ (Found(id) \in Known /\ types[Found(id)].id = id)
    BY <1>1, FoundKnown
  <1>5. id = "void" => Found(id) # null
    BY <1>1, <1>3, FoundKnown
  <1> QED
    BY <1>2, <1>3, <1>4, <1>5

LEMMA DInitInv == Init => DInv
  <1> SUFFICES ASSUME Init PROVE DInv
    OBVIOUS
  <1>1. /\ program \in Seq(Definition) /\ Len(program) \in Nat
        /\ def = 1 /\ part = 0 /\ types = DefaultTypes
        /\ functionSymbols = NoMembers /\ members = NoMembers /\ anyErrors = FALSE
    BY ProgramsAssumption DEF Init, cbInit
  <1>2. At
    <2>1. ASSUME def <= Len(program) PROVE Len(Def.parts) \in Nat
      <3>1. Def \in Definition
        BY <1>1, <2>1 DEF Def
      <3> QED
        BY <3>1 DEF Definition
    <2> QED
      BY <1>1, <2>1 DEF At
  <1>3. KnownBefore(def) = BasicIds
    BY <1>1 DEF KnownBefore
  <1>4. \A id : (\E t \in Known : types[t].id = id) <=> id \in BasicIds
    <2>1. Known = {1, 2, 3, 4}
      BY <1>1 DEF Known, DefaultTypes
    <2>2. /\ types[1].id = "int" /\ types[2].id = "double"
          /\ types[3].id = "bool" /\ types[4].id = "void"
      BY <1>1 DEF DefaultTypes, BasicType
    <2> QED
      BY <2>1, <2>2 DEF BasicIds
  <1>5. DOMAIN functionSymbols = FunNames(def)
    BY <1>1 DEF FunNames, NoMembers
  <1>6. DOMAIN members = {Def.parts[i].name : i \in 1 .. part}
    BY <1>1 DEF NoMembers
  <1>7. WellFormed(def - 1) /\ GoodParts
    BY <1>1 DEF WellFormed, GoodParts
  <1> QED
    BY <1>1, <1>2, <1>3, <1>4, <1>5, <1>6, <1>7 DEF DInv, NamesInv, ErrorsInv

(* Where a part is next: the definition, and what visiting it leaves.      *)
LEMMA PartAt ==
  ASSUME IInv, At, def <= Len(program)
  PROVE  /\ def \in 1 .. Len(program) /\ Def \in Definition
         /\ Def.op \in {"DFun", "DStruct"} /\ Def.name \in Id /\ Def.type \in TypeId
         /\ Def.parts \in Seq(Part) /\ Len(Def.parts) \in Nat
         /\ part \in 0 .. Len(Def.parts)
         /\ part < Len(Def.parts) => part + 1 \in DOMAIN Def.parts
  <1>1. program \in Seq(Definition) /\ Len(program) \in Nat /\ def \in Nat \ {0} /\ part \in Nat
    BY DEF IInv, PlaceInv
  <1>2. def \in 1 .. Len(program) /\ Def \in Definition
    BY <1>1 DEF Def
  <1>3. /\ Def.op \in {"DFun", "DStruct"} /\ Def.name \in Id /\ Def.type \in TypeId
        /\ Def.parts \in Seq(Part) /\ Len(Def.parts) \in Nat
    BY <1>2 DEF Definition
  <1> QED
    BY <1>1, <1>2, <1>3 DEF At

(* A part in order keeps the pass without errors, one that is not does not.*)
LEMMA PartRead ==
  ASSUME IInv, At, ErrorsInv, def <= Len(program), part < Len(Def.parts),
         UNCHANGED <<program, def>>, part' = part + 1,
         anyErrors' = (anyErrors \/ ~ GoodPart(part + 1))
  PROVE  At' /\ ErrorsInv'
  <1>1. /\ part \in Nat /\ Len(Def.parts) \in Nat /\ def \in Nat /\ Len(program) \in Nat
    BY PartAt DEF IInv, PlaceInv
  <1>2. Def' = Def
    BY DEF Def
  <1>3. At'
    BY <1>1, <1>2 DEF At
  <1>4. WellFormed(def - 1)' <=> WellFormed(def - 1)
    BY DEF WellFormed, WellFormedFun, WellFormedStruct, KnownBefore
  <1>5. \A i \in Nat : GoodPart(i)' <=> GoodPart(i)
    BY <1>2 DEF GoodPart, KnownBefore
  <1>6. GoodParts' <=> GoodParts /\ GoodPart(part + 1)
    BY <1>1, <1>5 DEF GoodParts
  <1> QED
    BY <1>3, <1>4, <1>6 DEF ErrorsInv

LEMMA visitADeclD ==
  ASSUME IInv, DInv, visitADecl
  PROVE  DInv'
  <1>1. /\ phase = "context" /\ def <= Len(program) /\ Def.op = "DFun" /\ part < Len(Def.parts)
        /\ UNCHANGED <<program, phase, def, members, types, functionSymbols>> /\ part' = part + 1
    BY DEF visitADecl, AtPart, InDef, NextPart
  <1>2. At /\ NamesInv /\ ErrorsInv
    BY <1>1 DEF DInv
  <1> DEFINE type == ThisPart.type
  <1>3. anyErrors' = (anyErrors \/ Found(type) \in {TYPE_VOID, null})
    BY DEF visitADecl
  <1>4. Found(type) \in {TYPE_VOID, null} <=> ~ GoodPart(part + 1)
    <2>1. GoodPart(part + 1) <=> type \in KnownBefore(def) \ {"void"}
      BY <1>1 DEF GoodPart, ThisPart
    <2> HIDE DEF type
    <2> QED
      BY <1>2, <2>1, FoundNames
  <1>5. anyErrors' = (anyErrors \/ ~ GoodPart(part + 1))
    BY <1>3, <1>4
  <1>6. At' /\ ErrorsInv'
    BY <1>1, <1>2, <1>5, PartRead
  <1>7. NamesInv'
    <2>1. (\A id : (\E t \in Known : types[t].id = id) <=> id \in KnownBefore(def))'
      BY <1>1, <1>2 DEF NamesInv, KnownBefore, Known
    <2>2. ~ anyErrors' => ~ anyErrors
      BY <1>3
    <2>3. (~ anyErrors => DOMAIN functionSymbols = FunNames(def))'
      BY <1>1, <1>2, <2>2 DEF NamesInv, FunNames
    <2>4. (Def.op = "DFun")'
      BY <1>1 DEF Def
    <2> QED
      BY <2>1, <2>3, <2>4 DEF NamesInv
  <1> QED
    BY <1>6, <1>7 DEF DInv

LEMMA visitFDeclD ==
  ASSUME IInv, DInv, visitFDecl
  PROVE  DInv'
  <1>1. /\ phase = "context" /\ def <= Len(program) /\ Def.op = "DStruct" /\ part < Len(Def.parts)
        /\ UNCHANGED <<program, phase, def, types, functionSymbols>> /\ part' = part + 1
    BY DEF visitFDecl, AtPart, InDef, NextPart
  <1>2. At /\ NamesInv /\ ErrorsInv
    BY <1>1 DEF DInv
  <1>3. part \in Nat /\ part + 1 \in DOMAIN Def.parts /\ Def.parts \in Seq(Part)
    BY <1>1, <1>2, PartAt DEF IInv, PlaceInv
  <1> DEFINE type == ThisPart.type
             name == ThisPart.name
  <1>4. /\ anyErrors' = (anyErrors \/ name \in DOMAIN members \/ Found(type) = null)
        /\ members' = IF name \in DOMAIN members \/ Found(type) = null THEN members
                      ELSE Emplace(members, name, Found(type))
    BY DEF visitFDecl, Duplicate
  <1>5. GoodPart(part + 1) <=>
          type \in KnownBefore(def) /\ name \notin {Def.parts[i].name : i \in 1 .. part}
    BY SMTT(40), <1>1, <1>3 DEF GoodPart, ThisPart
  <1>6. anyErrors' = (anyErrors \/ ~ GoodPart(part + 1))
    <2> HIDE DEF type, name
    <2>1. Found(type) = null <=> type \notin KnownBefore(def)
      BY <1>2, FoundNames
    <2>2. ~ anyErrors => DOMAIN members = {Def.parts[i].name : i \in 1 .. part}
      BY <1>1, <1>2 DEF NamesInv
    <2> QED
      BY <1>4, <1>5, <2>1, <2>2
  <1>7. At' /\ ErrorsInv'
    BY <1>1, <1>2, <1>6, PartRead
  <1>8. ~ anyErrors' => DOMAIN members' = {Def.parts[i].name : i \in 1 .. part + 1}
    <2> SUFFICES ASSUME ~ anyErrors' PROVE DOMAIN members' = {Def.parts[i].name : i \in 1 .. part + 1}
      OBVIOUS
    <2>1. DOMAIN members = {Def.parts[i].name : i \in 1 .. part}
      BY <1>1, <1>2, <1>4 DEF NamesInv
    <2>2. DOMAIN members' = DOMAIN members \cup {name}
      BY <1>4 DEF Emplace
    <2>3. name = Def.parts[part + 1].name
      BY DEF ThisPart
    <2> QED
      BY <1>3, <2>1, <2>2, <2>3
  <1>9. NamesInv'
    <2> HIDE DEF type, name
    <2>1. Def' = Def
      BY <1>1 DEF Def
    <2>2. KnownBefore(def)' = KnownBefore(def) /\ FunNames(def)' = FunNames(def) /\ Known' = Known
      BY <1>1 DEF KnownBefore, FunNames, Known
    <2> QED
      BY <1>1, <1>2, <1>4, <1>8, <2>1, <2>2 DEF NamesInv
  <1> QED
    BY <1>7, <1>9 DEF DInv

(* The next definition: what is well formed so far, and the names in it.   *)
LEMMA DefRead ==
  ASSUME IInv, At, ErrorsInv, def <= Len(program), part = Len(Def.parts),
         UNCHANGED program, def' = def + 1, part' = 0
  PROVE  /\ At'
         /\ ErrorsInv' <=>
              (anyErrors' <=> anyErrors
                 \/ (Def.op = "DFun" /\ ~ (/\ Def.type \in KnownBefore(def)
                                           /\ Def.name \notin FunNames(def)))
                 \/ (Def.op = "DStruct" /\ Def.name \in KnownBefore(def)))
         /\ KnownBefore(def)' = KnownBefore(def) \cup (IF Def.op = "DStruct" THEN {Def.name} ELSE {})
         /\ FunNames(def)' = FunNames(def) \cup (IF Def.op = "DFun" THEN {Def.name} ELSE {})
  <1>1. /\ def \in 1 .. Len(program) /\ Len(program) \in Nat /\ program' = program
        /\ Def.op \in {"DFun", "DStruct"} /\ Def.parts \in Seq(Part) /\ Len(Def.parts) \in Nat
        /\ program \in Seq(Definition)
    BY PartAt DEF IInv, PlaceInv
  <1>2. At'
    <2>1. ASSUME def + 1 <= Len(program)
          PROVE  Len(program[def + 1].parts) \in Nat
      <3>1. program[def + 1] \in Definition
        BY <1>1, <2>1
      <3> QED
        BY <3>1 DEF Definition
    <2> QED
      BY <1>1, <2>1 DEF At, Def
  <1>3. GoodParts'
    BY <1>1 DEF GoodParts
  <1>4. WellFormed(def - 1)' <=> WellFormed(def - 1) /\
          (IF Def.op = "DFun" THEN WellFormedFun(def) ELSE WellFormedStruct(def))
    <2>1. WellFormed(def - 1)' <=> WellFormed(def)
      <3>1. def' - 1 = def
        BY <1>1
      <3> QED
        BY <1>1, <3>1 DEF WellFormed, WellFormedFun, WellFormedStruct, KnownBefore
    <2> QED
      BY <1>1, <2>1 DEF WellFormed, Def
  <1>5. GoodParts <=> \A i \in DOMAIN Def.parts : GoodPart(i)
    BY <1>1 DEF GoodParts
  <1>6. ASSUME Def.op = "DFun"
        PROVE  ErrorsInv' <=> (anyErrors' <=> anyErrors \/ ~ (/\ Def.type \in KnownBefore(def)
                                                             /\ Def.name \notin FunNames(def)))
    <2>1. WellFormedFun(def) <=> /\ Def.type \in KnownBefore(def)
                                 /\ \A i \in DOMAIN Def.parts : GoodPart(i)
                                 /\ Def.name \notin FunNames(def)
      BY <1>1, <1>6 DEF WellFormedFun, GoodPart, Def, FunNames
    <2>2. ErrorsInv' <=> (anyErrors' <=> ~ (WellFormed(def - 1) /\ WellFormedFun(def)))
      BY <1>3, <1>4, <1>6 DEF ErrorsInv
    <2> QED
      BY <1>1, <1>5, <1>6, <2>1, <2>2 DEF ErrorsInv
  <1>7. ASSUME Def.op = "DStruct"
        PROVE  ErrorsInv' <=> (anyErrors' <=> anyErrors \/ Def.name \in KnownBefore(def))
    <2>1. WellFormedStruct(def) <=> /\ Def.name \notin KnownBefore(def)
                                    /\ \A i \in DOMAIN Def.parts : GoodPart(i)
      BY SMTT(40), <1>1, <1>7 DEF WellFormedStruct, GoodPart, Def
    <2>2. ErrorsInv' <=> (anyErrors' <=> ~ (WellFormed(def - 1) /\ WellFormedStruct(def)))
      BY <1>3, <1>4, <1>7 DEF ErrorsInv
    <2> QED
      BY <1>1, <1>5, <1>7, <2>1, <2>2 DEF ErrorsInv
  <1>8. KnownBefore(def)' = KnownBefore(def) \cup (IF Def.op = "DStruct" THEN {Def.name} ELSE {})
    BY <1>1 DEF KnownBefore, Def
  <1>9. FunNames(def)' = FunNames(def) \cup (IF Def.op = "DFun" THEN {Def.name} ELSE {})
    BY <1>1 DEF FunNames, Def
  <1>10. \/ Def.op = "DFun" \/ Def.op = "DStruct"
    BY <1>1
  <1> QED
    BY <1>2, <1>6, <1>7, <1>8, <1>9, <1>10

LEMMA endDFunD ==
  ASSUME IInv, DInv, endDFun
  PROVE  DInv'
  <1>1. /\ phase = "context" /\ def <= Len(program) /\ Def.op = "DFun" /\ part = Len(Def.parts)
        /\ UNCHANGED <<program, phase, types>>
        /\ def' = def + 1 /\ part' = 0 /\ members' = NoMembers
    BY DEF endDFun, AtEnd, InDef, NextDef
  <1>2. At /\ NamesInv /\ ErrorsInv
    BY <1>1 DEF DInv
  <1> DEFINE type == Def.type
             name == Def.name
             known == KnownBefore(def)
             taken == FunNames(def)
  <1>3. /\ anyErrors' = (anyErrors \/ Found(type) = null \/ name \in DOMAIN functionSymbols)
        /\ Found(type) # null => DOMAIN functionSymbols' = DOMAIN functionSymbols \cup {name}
    BY DEF endDFun, Emplace
  <1>4. /\ Found(type) # null <=> type \in known
        /\ ~ anyErrors => DOMAIN functionSymbols = taken
    BY <1>2, FoundNames DEF NamesInv
  <1>5. /\ At'
        /\ ErrorsInv' <=> (anyErrors' <=> anyErrors \/ ~ (type \in known /\ name \notin taken))
        /\ KnownBefore(def)' = known
        /\ FunNames(def)' = taken \cup {name}
    BY <1>1, <1>2, DefRead
  <1> HIDE DEF type, name, known, taken
  <1>6. ErrorsInv'
    BY <1>3, <1>4, <1>5
  <1>7. ~ anyErrors' => DOMAIN functionSymbols' = FunNames(def)'
    BY <1>3, <1>4, <1>5
  <1>8. DOMAIN members' = {} /\ 1 .. part' = {}
    BY <1>1 DEF NoMembers
  <1>9. \A id : (\E t \in Known' : types'[t].id = id) <=> id \in KnownBefore(def)'
    BY <1>1, <1>2, <1>5 DEF NamesInv, Known, known
  <1>10. NamesInv'
    BY <1>7, <1>8, <1>9 DEF NamesInv
  <1> QED
    BY <1>5, <1>6, <1>10 DEF DInv

LEMMA endDStructD ==
  ASSUME IInv, DInv, endDStruct
  PROVE  DInv'
  <1>1. /\ phase = "context" /\ def <= Len(program) /\ Def.op = "DStruct" /\ part = Len(Def.parts)
        /\ UNCHANGED <<program, phase, functionSymbols>>
        /\ def' = def + 1 /\ part' = 0 /\ members' = NoMembers
    BY DEF endDStruct, AtEnd, InDef, NextDef
  <1>2. At /\ NamesInv /\ ErrorsInv
    BY <1>1 DEF DInv
  <1> DEFINE name == Def.name
             known == KnownBefore(def)
             taken == FunNames(def)
  <1>3. /\ anyErrors' = (anyErrors \/ Found(name) # null)
        /\ types' = IF Found(name) # null THEN types ELSE Append(types, StructType(name, members))
    BY DEF endDStruct
  <1>4. /\ Found(name) # null <=> name \in known
        /\ ~ anyErrors => DOMAIN functionSymbols = taken
        /\ \A id : (\E t \in Known : types[t].id = id) <=> id \in known
    BY <1>2, FoundNames DEF NamesInv
  <1>5. /\ At'
        /\ ErrorsInv' <=> (anyErrors' <=> anyErrors \/ name \in known)
        /\ KnownBefore(def)' = known \cup {name}
        /\ FunNames(def)' = taken
    BY <1>1, <1>2, DefRead
  <1> HIDE DEF name, known, taken
  <1>6. ErrorsInv'
    BY <1>3, <1>4, <1>5
  <1>7. ~ anyErrors' => DOMAIN functionSymbols' = FunNames(def)'
    BY <1>1, <1>3, <1>4, <1>5
  <1>8. DOMAIN members' = {} /\ 1 .. part' = {}
    BY <1>1 DEF NoMembers
  <1>9. \A id : (\E t \in Known' : types'[t].id = id) <=> id \in KnownBefore(def)'
    <2>1. CASE Found(name) # null
      BY <1>3, <1>4, <1>5, <2>1 DEF Known
    <2>2. CASE Found(name) = null
      <3>1. types \in Seq(TypeRecord) /\ Len(types) \in Nat
        BY DEF IInv, ContextInv
      <3> DEFINE new == StructType(name, members)
      <3>2. new.id = name
        BY DEF StructType
      <3> HIDE DEF new
      <3>3. types' = Append(types, new)
        BY <1>3, <2>2 DEF new
      <3>4. /\ Known' = Known \cup {Len(types) + 1}
            /\ \A t \in Known : types'[t] = types[t]
            /\ types'[Len(types) + 1] = new
        BY <3>1, <3>3 DEF Known
      <3> QED
        BY <1>4, <1>5, <3>2, <3>4
    <2> QED
      BY <2>1, <2>2
  <1>10. NamesInv'
    BY <1>7, <1>8, <1>9 DEF NamesInv
  <1> QED
    BY <1>5, <1>6, <1>10 DEF DInv

LEMMA DNextInv ==
  ASSUME IInv, DInv, [Next]_vars
  PROVE  DInv'
  <1>1. CASE visitADecl
    BY <1>1, visitADeclD
  <1>2. CASE visitFDecl
    BY <1>2, visitFDeclD
  <1>3. CASE endDFun
    BY <1>3, endDFunD
  <1>4. CASE endDStruct
    BY <1>4, endDStructD
  <1>5. CASE danglingParent \/ compileContextBuilt
    BY <1>5 DEF danglingParent, compileContextBuilt, DInv
  <1>6. CASE compileTypeChecked \/ createTypeObject \/ visitPDefs \/ visitDFun \/ visitDStruct \/ visitBodies
    <2>1. phase # "context" /\ phase' # "context"
      BY <1>6 DEF compileTypeChecked, createTypeObject, visitPDefs, visitDFun, visitDStruct, visitBodies
    <2> QED
      BY <2>1 DEF DInv
  <1>7. CASE UNCHANGED vars
    <2>1. UNCHANGED <<program, phase, def, part, members, types, functionSymbols, anyErrors>>
      BY <1>7 DEF vars, cbVars, place, context
    <2>2. UNCHANGED <<At, NamesInv>>
      BY <2>1 DEF At, NamesInv, Def, KnownBefore, FunNames, Known
    <2>3. WellFormed(def - 1)' <=> WellFormed(def - 1)
      BY <2>1 DEF WellFormed, WellFormedFun, WellFormedStruct, KnownBefore
    <2>4. GoodParts' <=> GoodParts
      BY <2>1 DEF GoodParts, GoodPart, Def, KnownBefore
    <2> QED
      BY <2>1, <2>2, <2>3, <2>4 DEF DInv, ErrorsInv
  <1> QED
    BY <1>1, <1>2, <1>3, <1>4, <1>5, <1>6, <1>7 DEF Next, cbNext

(* An error in one definition hides none in another and invents none: at   *)
(* every definition anyErrors (ContextBuilder.cpp:20-82, BasicVisitor.cpp: *)
(* 14-17) tells exactly whether all before it are well formed.             *)
THEOREM ErrorsAreExact == Spec => []ErrorsExact
  <1>1. IInv /\ DInv => ErrorsExact
    <2> SUFFICES ASSUME IInv, DInv, phase = "context", part = 0
                 PROVE  anyErrors <=> ~ WellFormed(def - 1)
      BY DEF ErrorsExact
    <2>1. GoodParts
      BY DEF GoodParts
    <2> QED
      BY <2>1 DEF DInv, ErrorsInv
  <1>2. IInv /\ DInv /\ [Next]_vars => DInv'
    BY DNextInv
  <1>3. Spec => []DInv
    BY <1>2, Invariance, DInitInv, PTL DEF Spec
  <1> QED
    BY <1>1, <1>3, Invariance, PTL

-----------------------------------------------------------------------------
(* What the first pass has entered *)

(* Definition k is in the context as it is written.                        *)
Faithful(k) ==
  LET d == program[k] IN
    /\ \A i \in DOMAIN d.parts : Found(d.parts[i].type) # null
    /\ IF d.op = "DFun"
       THEN /\ Found(d.type) # null
            /\ d.name \in DOMAIN functionSymbols
            /\ functionSymbols[d.name] =
                 [returnType |-> Found(d.type),
                  parameters |-> [i \in DOMAIN d.parts |-> Found(d.parts[i].type)]]
       ELSE /\ Found(d.name) # null
            /\ LET fields == types[Found(d.name)].members IN
                 /\ DOMAIN fields = {d.parts[i].name : i \in DOMAIN d.parts}
                 /\ \A i \in DOMAIN d.parts : fields[d.parts[i].name] = Found(d.parts[i].type)

(* So are the parts of the current definition that have been read.         *)
FaithfulParts ==
  def <= Len(program) =>
    /\ \A i \in 1 .. part : Found(Def.parts[i].type) # null
    /\ IF Def.op = "DFun"
       THEN argumentTypes = [i \in 1 .. part |-> Found(Def.parts[i].type)]
       ELSE \A i \in 1 .. part : members[Def.parts[i].name] = Found(Def.parts[i].type)

Accepted == phase \in {"typecheck", "types", "functions", "codegen"}

FInv ==
  /\ phase = "context" /\ ~ anyErrors => FaithfulParts /\ \A k \in 1 .. def - 1 : Faithful(k)
  /\ Accepted => /\ WellFormed(Len(program))
                 /\ \A k \in 1 .. Len(program) : Faithful(k)

(* What has been found is found again, under the same pointer.             *)
LEMMA FoundStays ==
  ASSUME IInv, IInv', [Next]_vars, NEW id, Found(id) # null
  PROVE  Found(id)' = Found(id)
  <1> DEFINE t == Found(id)
  <1>1. t \in DOMAIN types /\ types[t].id = id
    BY FoundKnown DEF IInv, ContextInv, Known
  <1> HIDE DEF t
  <1>2. t \in DOMAIN types' /\ types'[t].id = id
    BY <1>1, ContextGrows
  <1>3. types' \in Seq(TypeRecord) /\ \A u, v \in DOMAIN types' : types'[u].id = types'[v].id => u = v
    BY DEF IInv, ContextInv, TypeNamesUnique
  <1>4. findBasicType(types', id) \in DOMAIN types' /\ types'[findBasicType(types', id)].id = id
    BY <1>2, <1>3, FindBasicType
  <1>5. findBasicType(types', id) = t
    BY <1>2, <1>3, <1>4
  <1> QED
    BY <1>5 DEF Found, t

LEMMA FaithfulStays ==
  ASSUME IInv, IInv', [Next]_vars, NEW k \in 1 .. Len(program), Faithful(k)
  PROVE  Faithful(k)'
  <1> DEFINE d == program[k]
  <1>1. program' = program
    BY PassKeepsProgram
  <1>2. \A i \in DOMAIN d.parts : Found(d.parts[i].type) # null
    BY DEF Faithful
  <1>3. \A i \in DOMAIN d.parts : Found(d.parts[i].type)' = Found(d.parts[i].type)
    BY <1>1, <1>2, FoundStays
  <1>5. CASE d.op = "DFun"
    <2>1. Found(d.type) # null /\ d.name \in DOMAIN functionSymbols
      BY <1>5 DEF Faithful
    <2>2. Found(d.type)' = Found(d.type)
      BY <1>1, <2>1, FoundStays
    <2>3. d.name \in DOMAIN functionSymbols' /\ functionSymbols'[d.name] = functionSymbols[d.name]
      BY <2>1, ContextGrows
    <2> QED
      BY <1>1, <1>2, <1>3, <1>5, <2>1, <2>2, <2>3 DEF Faithful
  <1>6. CASE d.op # "DFun"
    <2>1. Found(d.name) # null
      BY <1>6 DEF Faithful
    <2>2. Found(d.name)' = Found(d.name)
      BY <1>1, <2>1, FoundStays
    <2>3. Found(d.name) \in DOMAIN types
      BY <2>1, FoundKnown DEF IInv, ContextInv, Known
    <2>4. types'[Found(d.name)] = types[Found(d.name)]
      BY <2>3, ContextGrows
    <2> QED
      BY <1>1, <1>2, <1>3, <1>6, <2>1, <2>2, <2>4 DEF Faithful
  <1> QED
    BY <1>5, <1>6

LEMMA FInitInv == Init => FInv
  <1> SUFFICES ASSUME Init PROVE FInv
    OBVIOUS
  <1>1. phase = "context" /\ def = 1 /\ part = 0 /\ argumentTypes = <<>>
    BY DEF Init, cbInit
  <1>2. 1 .. part = {} /\ 1 .. def - 1 = {} /\ argumentTypes = [i \in 1 .. part |-> Found(Def.parts[i].type)]
    BY <1>1
  <1> QED
    BY <1>1, <1>2 DEF FInv, FaithfulParts, Accepted

(* No errors after a step: there were none before it.                      *)
LEMMA ErrorsStay ==
  ASSUME IInv, cbNext, ~ anyErrors'
  PROVE  ~ anyErrors
  BY DEF cbNext, visitADecl, endDFun, visitFDecl, endDStruct, danglingParent, compileContextBuilt, context,
         IInv, PlaceInv

(* The definitions read before stay as they are.                           *)
LEMMA EarlierStay ==
  ASSUME IInv, IInv', [Next]_vars, DInv, FInv, phase = "context", ~ anyErrors, def <= Len(program)
  PROVE  \A k \in 1 .. def - 1 : Faithful(k)'
  <1> SUFFICES ASSUME NEW k \in 1 .. def - 1 PROVE Faithful(k)'
    OBVIOUS
  <1>1. k \in 1 .. Len(program)
    BY DEF IInv, PlaceInv
  <1>2. Faithful(k)
    BY DEF FInv
  <1> QED
    BY <1>1, <1>2, FaithfulStays

LEMMA visitADeclF ==
  ASSUME IInv, IInv', DInv, FInv, visitADecl, UNCHANGED llvm
  PROVE  FInv'
  <1>1. /\ phase = "context" /\ def <= Len(program) /\ Def.op = "DFun" /\ part < Len(Def.parts)
        /\ UNCHANGED <<program, phase, def, types>> /\ part' = part + 1
        /\ part \in Nat
    BY DEF visitADecl, AtPart, InDef, NextPart, IInv, PlaceInv
  <1>2. [Next]_vars /\ cbNext
    BY DEF Next, cbNext
  <1> SUFFICES ASSUME ~ anyErrors'
               PROVE  FaithfulParts' /\ \A k \in 1 .. def - 1 : Faithful(k)'
    BY <1>1 DEF FInv, Accepted
  <1>3. ~ anyErrors
    BY <1>2, ErrorsStay
  <1>4. Def' = Def /\ \A id : Found(id)' = Found(id)
    BY <1>1 DEF Def, Found
  <1> DEFINE new == Found(Def.parts[part + 1].type)
             old == [i \in 1 .. part |-> Found(Def.parts[i].type)]
  <1>5. /\ new # null /\ argumentTypes' = Append(argumentTypes, new)
    <2>1. anyErrors' = (anyErrors \/ new \in {TYPE_VOID, null})
          /\ argumentTypes' = IF new \in {TYPE_VOID, null} THEN argumentTypes ELSE Append(argumentTypes, new)
      BY DEF visitADecl, ThisPart
    <2> HIDE DEF new
    <2> QED
      BY <2>1
  <1>6. argumentTypes = old /\ \A i \in 1 .. part : Found(Def.parts[i].type) # null
    BY <1>1, <1>3 DEF FInv, FaithfulParts
  <1>7. argumentTypes' = [i \in 1 .. part + 1 |-> Found(Def.parts[i].type)]
    BY <1>1, <1>5, <1>6
  <1>8. \A i \in 1 .. part + 1 : Found(Def.parts[i].type) # null
    BY <1>1, <1>5, <1>6
  <1>9. FaithfulParts'
    BY <1>1, <1>4, <1>7, <1>8 DEF FaithfulParts
  <1> QED
    BY <1>1, <1>2, <1>3, <1>9, EarlierStay

LEMMA visitFDeclF ==
  ASSUME IInv, IInv', DInv, FInv, visitFDecl, UNCHANGED llvm
  PROVE  FInv'
  <1>1. /\ phase = "context" /\ def <= Len(program) /\ Def.op = "DStruct" /\ part < Len(Def.parts)
        /\ UNCHANGED <<program, phase, def, types>> /\ part' = part + 1
        /\ part \in Nat
    BY DEF visitFDecl, AtPart, InDef, NextPart, IInv, PlaceInv
  <1>2. [Next]_vars /\ cbNext
    BY DEF Next, cbNext
  <1> SUFFICES ASSUME ~ anyErrors'
               PROVE  FaithfulParts' /\ \A k \in 1 .. def - 1 : Faithful(k)'
    BY <1>1 DEF FInv, Accepted
  <1>3. ~ anyErrors
    BY <1>2, ErrorsStay
  <1>4. Def' = Def /\ \A id : Found(id)' = Found(id)
    BY <1>1 DEF Def, Found
  <1> DEFINE name == Def.parts[part + 1].name
             new  == Found(Def.parts[part + 1].type)
  <1>5. new # null /\ name \notin DOMAIN members /\ members' = Emplace(members, name, new)
    <2>1. anyErrors' = (anyErrors \/ name \in DOMAIN members \/ new = null)
          /\ members' = IF name \in DOMAIN members \/ new = null THEN members ELSE Emplace(members, name, new)
      BY DEF visitFDecl, ThisPart, Duplicate
    <2> HIDE DEF new, name
    <2> QED
      BY <2>1
  <1>6. \A i \in 1 .. part : members[Def.parts[i].name] = Found(Def.parts[i].type)
                           /\ Found(Def.parts[i].type) # null
    BY <1>1, <1>3 DEF FInv, FaithfulParts
  <1>7. DOMAIN members = {Def.parts[i].name : i \in 1 .. part}
    BY <1>1, <1>3 DEF DInv, NamesInv
  <1>8. \A i \in 1 .. part + 1 : members'[Def.parts[i].name] = Found(Def.parts[i].type)
    <2>1. members'[name] = new
      BY <1>5 DEF Emplace
    <2>2. \A n \in DOMAIN members : members'[n] = members[n]
      BY <1>5 DEF Emplace
    <2>3. \A i \in 1 .. part : members'[Def.parts[i].name] = Found(Def.parts[i].type)
      BY <1>6, <1>7, <2>2
    <2> QED
      BY <1>1, <2>1, <2>3
  <1>9. \A i \in 1 .. part + 1 : Found(Def.parts[i].type) # null
    BY <1>1, <1>5, <1>6
  <1>10. FaithfulParts'
    BY <1>1, <1>4, <1>8, <1>9 DEF FaithfulParts
  <1> QED
    BY <1>1, <1>2, <1>3, <1>10, EarlierStay

(* After a definition none of the next one's parts has been read.          *)
LEMMA NothingRead ==
  ASSUME part' = 0, argumentTypes' = <<>>
  PROVE  FaithfulParts'
  <1>1. 1 .. part' = {}
    OBVIOUS
  <1> QED
    BY <1>1 DEF FaithfulParts

LEMMA endDFunF ==
  ASSUME IInv, IInv', DInv, FInv, endDFun, UNCHANGED llvm
  PROVE  FInv'
  <1>1. /\ phase = "context" /\ def <= Len(program) /\ Def.op = "DFun" /\ part = Len(Def.parts)
        /\ UNCHANGED <<program, phase, types>> /\ def' = def + 1
        /\ part' = 0 /\ argumentTypes' = <<>>
        /\ def \in Nat
    BY DEF endDFun, AtEnd, InDef, NextDef, IInv, PlaceInv
  <1> PICK k, d : k = def /\ d = Def
    OBVIOUS
  <1>2. [Next]_vars /\ cbNext
    BY DEF Next, cbNext
  <1> SUFFICES ASSUME ~ anyErrors'
               PROVE  FaithfulParts' /\ \A j \in 1 .. def : Faithful(j)'
    BY <1>1 DEF FInv, Accepted
  <1>3. ~ anyErrors
    BY <1>2, ErrorsStay
  <1>4. \A id : Found(id)' = Found(id)
    BY <1>1 DEF Found
  <1> DEFINE signature == [returnType |-> Found(d.type), parameters |-> argumentTypes]
  <1>5. /\ Found(d.type) # null /\ d.name \notin DOMAIN functionSymbols
        /\ functionSymbols' = Emplace(functionSymbols, d.name, signature)
    BY DEF endDFun
  <1>6. d.name \in DOMAIN functionSymbols' /\ functionSymbols'[d.name] = signature
    BY <1>5 DEF Emplace
  <1>7. /\ \A i \in 1 .. part : Found(d.parts[i].type) # null
        /\ argumentTypes = [i \in 1 .. part |-> Found(d.parts[i].type)]
    BY <1>1, <1>3 DEF FInv, FaithfulParts
  <1>8. DOMAIN d.parts = 1 .. part
    BY <1>1, PartAt DEF DInv
  <1>9. Faithful(k)'
    BY <1>1, <1>4, <1>5, <1>6, <1>7, <1>8 DEF Faithful, Def
  <1>10. \A j \in 1 .. def - 1 : Faithful(j)'
    BY <1>1, <1>2, <1>3, EarlierStay
  <1> QED
    BY <1>1, <1>9, <1>10, NothingRead

LEMMA endDStructF ==
  ASSUME IInv, IInv', DInv, FInv, endDStruct, UNCHANGED llvm
  PROVE  FInv'
  <1>1. /\ phase = "context" /\ def <= Len(program) /\ Def.op = "DStruct" /\ part = Len(Def.parts)
        /\ UNCHANGED <<program, phase>> /\ def' = def + 1
        /\ part' = 0 /\ argumentTypes' = <<>>
        /\ def \in Nat
    BY DEF endDStruct, AtEnd, InDef, NextDef, IInv, PlaceInv
  <1> PICK k, d : k = def /\ d = Def
    OBVIOUS
  <1>2. [Next]_vars /\ cbNext
    BY DEF Next, cbNext
  <1> SUFFICES ASSUME ~ anyErrors'
               PROVE  FaithfulParts' /\ \A j \in 1 .. def : Faithful(j)'
    BY <1>1 DEF FInv, Accepted
  <1>3. ~ anyErrors
    BY <1>2, ErrorsStay
  <1> DEFINE new == StructType(d.name, members)
             t   == Len(types) + 1
  <1>4. types' = Append(types, new)
    BY DEF endDStruct
  <1>5. types \in Seq(TypeRecord) /\ types' \in Seq(TypeRecord) /\ new.id = d.name /\ new.members = members
    BY DEF IInv, ContextInv, StructType
  <1> HIDE DEF new
  <1>6. t \in DOMAIN types' /\ types'[t] = new /\ t # null
    BY <1>4, <1>5 DEF null
  <1> HIDE DEF t
  <1>7. Found(d.name)' = t
    <2>1. \A u, v \in DOMAIN types' : types'[u].id = types'[v].id => u = v
      BY DEF IInv, ContextInv, TypeNamesUnique
    <2>2. /\ findBasicType(types', d.name) \in DOMAIN types'
          /\ types'[findBasicType(types', d.name)].id = d.name
      BY <1>5, <1>6, <2>1, FindBasicType
    <2>3. findBasicType(types', d.name) = t
      BY <1>5, <1>6, <2>1, <2>2
    <2>4. program' = program
      BY <1>1
    <2> QED
      BY <2>3 DEF Found
  <1>8. DOMAIN d.parts = 1 .. part
    BY <1>1, PartAt DEF DInv
  <1>9. \A i \in 1 .. part : Found(d.parts[i].type) # null
                           /\ members[d.parts[i].name] = Found(d.parts[i].type)
    BY <1>1, <1>3 DEF FInv, FaithfulParts
  <1>10. \A i \in 1 .. part : Found(d.parts[i].type)' = Found(d.parts[i].type)
    BY <1>2, <1>9, FoundStays
  <1>11. DOMAIN members = {d.parts[i].name : i \in 1 .. part}
    BY <1>1, <1>3 DEF DInv, NamesInv
  <1>12. Faithful(k)'
    <2> DEFINE F(id) == findBasicType(types', id)
    <2>1. program'[k] = d /\ d.op # "DFun"
      BY <1>1 DEF Def
    <2>2. F(d.name) = t /\ \A i \in 1 .. part : F(d.parts[i].type) = Found(d.parts[i].type)
      BY <1>7, <1>10 DEF Found
    <2> HIDE DEF F
    <2>3. \A i \in DOMAIN d.parts : F(d.parts[i].type) # null
      BY <1>8, <1>9, <2>2
    <2>4. types'[F(d.name)].members = members /\ F(d.name) # null
      BY <1>5, <1>6, <2>2
    <2>5. /\ DOMAIN members = {d.parts[i].name : i \in DOMAIN d.parts}
          /\ \A i \in DOMAIN d.parts : members[d.parts[i].name] = F(d.parts[i].type)
      BY <1>8, <1>9, <1>11, <2>2
    <2> QED
      BY <2>1, <2>3, <2>4, <2>5 DEF Faithful, Found, F
  <1>13. \A j \in 1 .. def - 1 : Faithful(j)'
    BY <1>1, <1>2, <1>3, EarlierStay
  <1> QED
    BY <1>1, <1>12, <1>13, NothingRead

(* The gate of main.cpp:13.                                                *)
LEMMA gateF ==
  ASSUME IInv, IInv', DInv, FInv, compileContextBuilt, UNCHANGED llvm
  PROVE  FInv'
  <1>1. /\ phase = "context" /\ def > Len(program)
        /\ phase' = IF anyErrors THEN "rejected" ELSE "typecheck"
        /\ program' = program
    BY DEF compileContextBuilt
  <1>2. [Next]_vars
    BY DEF Next, cbNext
  <1>3. CASE anyErrors
    BY <1>1, <1>3 DEF FInv, Accepted
  <1>4. CASE ~ anyErrors
    <2>1. def - 1 = Len(program)
      BY <1>1 DEF DInv, At, IInv, PlaceInv
    <2>2. WellFormed(Len(program))
      BY <1>1, <1>4, <2>1 DEF DInv, ErrorsInv
    <2>3. WellFormed(Len(program))'
      BY <1>1, <2>2 DEF WellFormed, WellFormedFun, WellFormedStruct, KnownBefore
    <2>4. \A k \in 1 .. Len(program) : Faithful(k)'
      BY <1>1, <1>2, <1>4, <2>1, FaithfulStays DEF FInv
    <2>5. phase' = "typecheck"
      BY <1>1, <1>4
    <2> QED
      BY <1>1, <2>3, <2>4, <2>5 DEF FInv
  <1> QED
    BY <1>3, <1>4

LEMMA FNextInv ==
  ASSUME IInv, IInv', DInv, FInv, [Next]_vars
  PROVE  FInv'
  <1>1. CASE visitADecl /\ UNCHANGED llvm
    BY <1>1, visitADeclF
  <1>2. CASE visitFDecl /\ UNCHANGED llvm
    BY <1>2, visitFDeclF
  <1>3. CASE endDFun /\ UNCHANGED llvm
    BY <1>3, endDFunF
  <1>4. CASE endDStruct /\ UNCHANGED llvm
    BY <1>4, endDStructF
  <1>5. CASE danglingParent
    BY <1>5 DEF danglingParent, FInv, Accepted
  <1>6. CASE compileContextBuilt /\ UNCHANGED llvm
    BY <1>6, gateF
  <1>7. CASE compileTypeChecked \/ createTypeObject \/ visitPDefs \/ visitDFun \/ visitDStruct \/ visitBodies
    <2>1. /\ Accepted /\ phase' # "context" /\ program' = program
      BY <1>7, PassKeepsProgram DEF compileTypeChecked, createTypeObject, visitPDefs, visitDFun, visitDStruct,
                                    visitBodies, Accepted, Next
    <2>2. WellFormed(Len(program))'
      BY <2>1 DEF FInv, WellFormed, WellFormedFun, WellFormedStruct, KnownBefore
    <2>3. \A k \in 1 .. Len(program) : Faithful(k)'
      BY <2>1, FaithfulStays DEF FInv
    <2> QED
      BY <2>1, <2>2, <2>3 DEF FInv
  <1>8. CASE UNCHANGED vars
    <2>1. UNCHANGED <<program, phase, def, part, argumentTypes, members, types, functionSymbols, anyErrors>>
      BY <1>8 DEF vars, cbVars, place, context
    <2>2. \A id : Found(id)' = Found(id)
      BY <2>1 DEF Found
    <2>3. FaithfulParts' <=> FaithfulParts
      BY <2>1, <2>2 DEF FaithfulParts, Def
    <2>4. \A k \in Nat : Faithful(k)' <=> Faithful(k)
      BY ZenonT(40), <2>1, <2>2 DEF Faithful
    <2>5. WellFormed(Len(program))' <=> WellFormed(Len(program))
      BY <2>1 DEF WellFormed, WellFormedFun, WellFormedStruct, KnownBefore
    <2>6. Len(program) \in Nat /\ def \in Nat
      BY DEF IInv, PlaceInv
    <2> QED
      BY <2>1, <2>3, <2>4, <2>5, <2>6 DEF FInv, Accepted
  <1> QED
    BY <1>1, <1>2, <1>3, <1>4, <1>5, <1>6, <1>7, <1>8 DEF Next, cbNext

(* What holds of the first pass and of what it leaves behind.              *)
THEOREM FirstPass == Spec => [](IInv /\ DInv /\ FInv)
  <1>1. IInv /\ DInv /\ [Next]_vars => DInv'
    BY DNextInv
  <1>2. IInv /\ IInv' /\ DInv /\ FInv /\ [Next]_vars => FInv'
    BY FNextInv
  <1> QED
    BY <1>1, <1>2, Invariance, DInitInv, FInitInv, PTL DEF Spec

(* Past the first gate (main.cpp:13) the context holds every function with *)
(* the signature and every struct with the fields it is written with: the  *)
(* arguments and fields that are left out in error never get there.        *)
THEOREM ContextIsFaithful == Spec => []ContextFaithful
  <1>1. IInv /\ FInv => ContextFaithful
    <2> SUFFICES ASSUME IInv, FInv, Accepted PROVE ContextFaithful
      BY DEF ContextFaithful, Accepted
    <2>1. DOMAIN program = 1 .. Len(program)
      BY DEF IInv, PlaceInv
    <2>2. \A k \in DOMAIN program : Faithful(k)
      BY <2>1 DEF FInv
    <2> QED
      BY <2>2 DEF ContextFaithful, Faithful
  <1> QED
    BY <1>1, FirstPass, PTL

-----------------------------------------------------------------------------
(* What the code generator starts from *)

AllNames == Len(program) + 1

(* The basic types have no members; past the gate the names are those of   *)
(* the whole program, and its functions get their LLVM functions in turn.  *)
LLVMNames ==
  /\ \A t \in Known : types[t].id \in BasicIds => types[t].members = NoMembers
  /\ Accepted => /\ DOMAIN functionSymbols = FunNames(AllNames)
                 /\ \A t \in Known : types[t].id \in KnownBefore(AllNames)
  /\ phase = "functions" => def <= AllNames /\ FunNames(def) \subseteq DOMAIN llvmFunction
  /\ phase = "codegen" => DOMAIN llvmFunction = DOMAIN functionSymbols

LEMMA LLVMNamesInit == Init => LLVMNames
  <1> SUFFICES ASSUME Init PROVE LLVMNames
    OBVIOUS
  <1>1. phase = "context" /\ types = DefaultTypes
    BY DEF Init, cbInit
  <1>2. Known = {1, 2, 3, 4}
    BY <1>1 DEF Known, DefaultTypes
  <1>3. \A t \in Known : types[t].members = NoMembers
    BY <1>1, <1>2 DEF DefaultTypes, BasicType
  <1> QED
    BY <1>1, <1>3 DEF LLVMNames, Accepted

LEMMA LLVMNamesNext ==
  ASSUME IInv, IInv', DInv, FInv, LLVMNames, [Next]_vars
  PROVE  LLVMNames'
  <1>1. program' = program /\ AllNames' = AllNames /\ program \in Seq(Definition)
        /\ Len(program) \in Nat /\ def \in Nat \ {0}
    BY PassKeepsProgram DEF AllNames, IInv, PlaceInv
  <1>2. \A k \in Nat : FunNames(k)' = FunNames(k) /\ KnownBefore(k)' = KnownBefore(k)
    BY <1>1 DEF FunNames, KnownBefore
  <1>3. ASSUME types' = types
        PROVE  /\ \A t \in Known' : types'[t].id \in BasicIds => types'[t].members = NoMembers
               /\ Known' = Known
    BY <1>3 DEF LLVMNames, Known
  <1>4. CASE visitADecl \/ visitFDecl \/ endDFun \/ danglingParent
    <2>1. types' = types /\ phase' \in {"context", "crashed"}
      BY <1>4 DEF visitADecl, visitFDecl, endDFun, danglingParent, context, AtPart, AtEnd, InDef
    <2> QED
      BY <1>3, <2>1 DEF LLVMNames, Accepted
  <1>5. CASE endDStruct
    <2>1. /\ phase = "context" /\ phase' = "context" /\ def <= Len(program)
          /\ types' = types \/ types' = Append(types, StructType(Def.name, members))
      BY <1>5 DEF endDStruct, AtEnd, InDef
    <2>2. Def.name \notin BasicIds
      BY <2>1, PartAt, IdAssumption DEF DInv
    <2>3. \A t \in Known' : types'[t].id \in BasicIds => types'[t].members = NoMembers
      <3>1. CASE types' = types
        BY <1>3, <3>1
      <3>2. CASE types' = Append(types, StructType(Def.name, members))
        <4>1. types \in Seq(TypeRecord) /\ Len(types) \in Nat
          BY DEF IInv, ContextInv
        <4> DEFINE new == StructType(Def.name, members)
        <4>2. new.id = Def.name
          BY DEF StructType
        <4> HIDE DEF new
        <4>3. /\ Known' = Known \cup {Len(types) + 1}
              /\ \A t \in Known : types'[t] = types[t]
              /\ types'[Len(types) + 1] = new
          BY <3>2, <4>1 DEF Known, new
        <4> QED
          BY <2>2, <4>2, <4>3 DEF LLVMNames
      <3> QED
        BY <2>1, <3>1, <3>2
    <2> QED
      BY <2>1, <2>3 DEF LLVMNames, Accepted
  <1>6. CASE compileContextBuilt
    <2>1. /\ phase = "context" /\ def > Len(program) /\ phase' = IF anyErrors THEN "rejected" ELSE "typecheck"
          /\ types' = types /\ functionSymbols' = functionSymbols
      BY <1>6 DEF compileContextBuilt, context
    <2>2. CASE anyErrors
      BY <1>3, <2>1, <2>2 DEF LLVMNames, Accepted
    <2>3. CASE ~ anyErrors
      <3>1. def = AllNames
        BY <1>1, <2>1 DEF DInv, At, AllNames
      <3>2. /\ DOMAIN functionSymbols = FunNames(AllNames)
            /\ \A t \in Known : types[t].id \in KnownBefore(AllNames)
        BY <2>1, <2>3, <3>1 DEF DInv, NamesInv
      <3>3. AllNames \in Nat
        BY <1>1 DEF AllNames
      <3> QED
        BY <1>1, <1>2, <1>3, <2>1, <2>3, <3>2, <3>3 DEF LLVMNames
    <2> QED
      BY <2>2, <2>3
  <1> AllNames \in Nat
    BY <1>1 DEF AllNames
  <1>7. ASSUME Accepted, UNCHANGED <<types, functionSymbols>>
        PROVE  /\ DOMAIN functionSymbols' = FunNames(AllNames)'
               /\ \A t \in Known' : types'[t].id \in KnownBefore(AllNames)'
    BY <1>1, <1>2, <1>3, <1>7 DEF LLVMNames
  <1>8. CASE compileTypeChecked \/ createTypeObject
    <2>1. /\ phase \in {"typecheck", "types"} /\ phase' \notin {"functions", "codegen"}
          /\ UNCHANGED <<types, functionSymbols>>
      BY <1>8 DEF compileTypeChecked, createTypeObject, context
    <2> QED
      BY <1>3, <1>7, <2>1 DEF LLVMNames, Accepted
  <1>9. CASE visitPDefs
    <2>1. /\ phase = "types" /\ phase' = "functions" /\ def' = 1
          /\ UNCHANGED <<types, functionSymbols>>
      BY <1>9 DEF visitPDefs, context
    <2>2. FunNames(1) = {}
      BY DEF FunNames
    <2>3. FunNames(def)' = {} /\ def' <= AllNames'
      BY <1>1, <1>2, <2>1, <2>2 DEF AllNames
    <2> QED
      BY <1>3, <1>7, <2>1, <2>3 DEF LLVMNames, Accepted
  <1>10. CASE visitDFun \/ visitDStruct
    <2>1. /\ phase = "functions" /\ phase' = "functions" /\ def <= Len(program) /\ def' = def + 1
          /\ UNCHANGED <<types, functionSymbols>>
          /\ DOMAIN llvmFunction' = DOMAIN llvmFunction \cup (IF Def.op = "DFun" THEN {Def.name} ELSE {})
      <3>1. CASE visitDFun
        BY <3>1 DEF visitDFun, context, Emplace
      <3>2. CASE visitDStruct
        BY <3>2 DEF visitDStruct, context, llvm
      <3> QED
        BY <1>10, <3>1, <3>2
    <2>2. FunNames(def + 1) = FunNames(def) \cup (IF Def.op = "DFun" THEN {Def.name} ELSE {})
      BY <1>1, <2>1 DEF FunNames, Def
    <2>3. FunNames(def)' = FunNames(def + 1) /\ def' <= AllNames'
      BY <1>1, <1>2, <2>1 DEF AllNames, FunNames
    <2>4. FunNames(def) \subseteq DOMAIN llvmFunction
      BY <2>1 DEF LLVMNames
    <2>5. FunNames(def)' \subseteq DOMAIN llvmFunction'
      BY <2>1, <2>2, <2>3, <2>4
    <2> QED
      BY <1>3, <1>7, <2>1, <2>3, <2>5 DEF LLVMNames, Accepted
  <1>11. CASE visitBodies
    <2>1. /\ phase = "functions" /\ phase' = "codegen" /\ def > Len(program)
          /\ UNCHANGED <<types, functionSymbols, llvmFunction>>
      BY <1>11 DEF visitBodies, context, llvm
    <2>2. def = AllNames
      BY <1>1, <2>1 DEF LLVMNames, AllNames
    <2>3. DOMAIN llvmFunction = DOMAIN functionSymbols
      BY <2>1, <2>2 DEF LLVMNames, Accepted, IInv, LLVMInv
    <2> QED
      BY <1>3, <1>7, <2>1, <2>3 DEF LLVMNames, Accepted
  <1>12. CASE UNCHANGED vars
    <2>1. UNCHANGED <<phase, def, types, functionSymbols, llvmFunction>>
      BY <1>12 DEF vars, cbVars, place, context, llvm
    <2>2. FunNames(def)' = FunNames(def)
      BY <1>1, <2>1 DEF FunNames
    <2> QED
      BY <1>1, <1>3, <1>7, <2>1, <2>2 DEF LLVMNames, Accepted
  <1> QED
    BY <1>4, <1>5, <1>6, <1>8, <1>9, <1>10, <1>11, <1>12 DEF Next, cbNext

(* Void is written where void is found.                                    *)
LEMMA VoidFound ==
  ASSUME IInv, NEW id
  PROVE  Found(id) = TYPE_VOID <=> id = "void"
  <1>1. /\ Len(types) \in Nat /\ TYPE_VOID \in Known /\ TYPE_VOID # null
        /\ types[TYPE_VOID].id = "void"
        /\ \A t, u \in Known : types[t].id = types[u].id => t = u
    BY DEF IInv, ContextInv, TypeNamesUnique, Known, TYPE_VOID, null
  <1>2. Found(id) = null \/ (Found(id) \in Known /\ types[Found(id)].id = id)
    BY FoundKnown DEF IInv
  <1>3. id = "void" => Found(id) # null
    BY <1>1, FoundKnown DEF IInv
  <1> QED
    BY <1>1, <1>2, <1>3

(* What LLVM is given has void only in the fields that are written void.   *)
LEMMA VoidWritten ==
  ASSUME IInv, FInv, LLVMNames, phase = "codegen"
  PROVE  VoidOnlyAsWritten
  <1>1. /\ Accepted /\ program \in Seq(Definition) /\ Len(program) \in Nat
        /\ DOMAIN program = 1 .. Len(program)
        /\ \A k \in 1 .. Len(program) : Faithful(k)
        /\ WellFormed(Len(program))
    BY DEF Accepted, FInv, IInv, PlaceInv
  <1>2. ASSUME NEW f \in DOMAIN llvmFunction, NEW i \in DOMAIN llvmFunction[f].arguments
        PROVE  llvmFunction[f].arguments[i] # TYPE_VOID
    <2>1. f \in FunNames(AllNames) /\ llvmFunction[f].arguments = functionSymbols[f].parameters
      BY <1>1, <1>2 DEF LLVMNames, IInv, LLVMInv
    <2>2. PICK k \in 1 .. Len(program) : program[k].op = "DFun" /\ program[k].name = f
      BY <1>1, <2>1 DEF FunNames, AllNames
    <2> DEFINE d == program[k]
    <2>3. functionSymbols[f].parameters = [j \in DOMAIN d.parts |-> Found(d.parts[j].type)]
      <3>1. functionSymbols[d.name] =
              [returnType |-> Found(d.type), parameters |-> [j \in DOMAIN d.parts |-> Found(d.parts[j].type)]]
        BY <1>1, <2>2 DEF Faithful
      <3> DEFINE found == [j \in DOMAIN d.parts |-> Found(d.parts[j].type)]
      <3>2. functionSymbols[f] = [returnType |-> Found(d.type), parameters |-> found]
        BY <2>2, <3>1
      <3> HIDE DEF found
      <3>3. functionSymbols[f].parameters = found
        BY <3>2
      <3> QED
        BY <3>3 DEF found
    <2>4. i \in DOMAIN d.parts /\ llvmFunction[f].arguments[i] = Found(d.parts[i].type)
      BY <1>2, <2>1, <2>3
    <2>5. d.parts[i].type # "void"
      BY <1>1, <2>2, <2>4 DEF WellFormed, WellFormedFun
    <2> QED
      BY <2>4, <2>5, VoidFound
  <1>3. ASSUME NEW t \in DOMAIN structBody, NEW n \in DOMAIN structBody[t], structBody[t][n] = TYPE_VOID
        PROVE  \E k \in DOMAIN program :
                 /\ program[k].op = "DStruct" /\ program[k].name = types[t].id
                 /\ \E i \in DOMAIN program[k].parts : program[k].parts[i] = [type |-> "void", name |-> n]
    <2>1. t \in Known /\ structBody[t] = types[t].members
      BY <1>3 DEF IInv, LLVMInv, Made
    <2>2. types[t].id \notin BasicIds
      BY <1>3, <2>1 DEF LLVMNames, NoMembers
    <2>3. types[t].id \in KnownBefore(AllNames)
      BY <1>1, <2>1 DEF LLVMNames
    <2>4. PICK k \in 1 .. Len(program) : program[k].op = "DStruct" /\ program[k].name = types[t].id
      BY <1>1, <2>2, <2>3 DEF KnownBefore, AllNames
    <2> DEFINE d == program[k]
    <2>5. Found(d.name) = t
      <3>1. \A u, v \in Known : types[u].id = types[v].id => u = v
        BY DEF IInv, ContextInv, TypeNamesUnique, Known
      <3> QED
        BY <2>1, <2>4, <3>1, FoundKnown DEF IInv
    <2>6. /\ DOMAIN types[t].members = {d.parts[i].name : i \in DOMAIN d.parts}
          /\ \A i \in DOMAIN d.parts : types[t].members[d.parts[i].name] = Found(d.parts[i].type)
      BY <1>1, <2>4, <2>5 DEF Faithful
    <2>7. PICK i \in DOMAIN d.parts : d.parts[i].name = n
      BY <1>3, <2>1, <2>6
    <2>8. d.parts[i].type = "void"
      BY <1>3, <2>1, <2>6, <2>7, VoidFound
    <2>9. d.parts[i] \in Part
      <3>1. d \in Definition
        BY <1>1
      <3> QED
        BY <3>1 DEF Definition
    <2>10. d.parts[i] = [type |-> "void", name |-> n]
      BY <2>7, <2>8, <2>9 DEF Part
    <2> QED
      BY <1>1, <2>4, <2>10
  <1> QED
    BY <1>2, <1>3 DEF VoidOnlyAsWritten

(* The code generator only ever starts on a well-formed program, with an   *)
(* LLVM type for every type and an LLVM function for every function, and   *)
(* no void among them but for the fields written void.                     *)
THEOREM CodeGenStartsPrepared == Spec => []CodeGenIsPrepared
  <1>1. IInv /\ FInv /\ LLVMNames => CodeGenIsPrepared
    <2> SUFFICES ASSUME IInv, FInv, LLVMNames, phase = "codegen" PROVE CodeGenIsPrepared
      BY DEF CodeGenIsPrepared
    <2>1. WellFormed(Len(program))
      BY DEF FInv, Accepted
    <2>2. DOMAIN typeMap = DOMAIN types
      BY DEF IInv, ContextInv, LLVMInv, Made, Known
    <2>3. DOMAIN llvmFunction = DOMAIN functionSymbols
      BY DEF LLVMNames
    <2> QED
      BY <2>1, <2>2, <2>3, VoidWritten DEF CodeGenIsPrepared
  <1>2. IInv /\ IInv' /\ DInv /\ FInv /\ LLVMNames /\ [Next]_vars => LLVMNames'
    BY LLVMNamesNext
  <1>3. Spec => []LLVMNames
    BY <1>2, FirstPass, LLVMNamesInit, PTL DEF Spec
  <1> QED
    BY <1>1, <1>3, FirstPass, PTL
=============================================================================
