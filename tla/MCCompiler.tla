----------------------------- MODULE MCCompiler -----------------------------
(* Small instances of Compiler: programs of up to three                    *)
(* definitions over two names.                                             *)
EXTENDS Compiler

CONSTANTS A, B

MCId == {A, B}

P(type, name) == [type |-> type, name |-> name]

Fun(type, name, parts) == [op |-> "DFun", name |-> name, type |-> type, parts |-> parts]
Struct(name, parts)    == [op |-> "DStruct", name |-> name, type |-> name, parts |-> parts]

(* Up to two parts; "int" stands for the basic types but void.             *)
Some(S) == {<<>>} \cup {<<p>> : p \in S} \cup {<<p, q>> : p \in S, q \in S}

MCTypes == {"int", "void", A, B}

Structs == {Struct(n, parts) : n \in MCId, parts \in Some({P("int", A), P(A, A), P(B, B), P("void", B)}) \ {<<>>}}
Funs    == {Fun(t, A, parts) : t \in MCTypes, parts \in {<<>>} \cup {<<P(u, A)>> : u \in MCTypes}}
           \cup {Fun("int", B, <<P("void", A), P(u, B)>>) : u \in MCTypes}
Defs    == Structs \cup Funs

FewStructs == {Struct(A, <<P("int", A)>>), Struct(B, <<P(A, A)>>), Struct(B, <<P("int", A), P(A, B)>>)}
FewDefs    == FewStructs \cup {Fun(B, A, <<P(A, A), P(B, B)>>), Fun("void", A, <<>>), Fun(A, B, <<>>)}

MCPrograms ==
  {<<>>} \cup {<<d>> : d \in Defs} \cup {<<d, f>> : d \in Defs, f \in Defs}
  \cup {<<d, f, g>> : d \in FewDefs, f \in FewDefs, g \in FewDefs}

(* project2/tests/0-structs.cc; A is Point and main, its fields are A, B.  *)
StructsTest ==
  {<<Struct(A, <<P("double", A), P("double", B)>>), Fun("int", A, <<>>)>>}
=============================================================================
