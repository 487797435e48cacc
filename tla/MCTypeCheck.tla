---------------------------- MODULE MCTypeCheck ----------------------------
(* Small instances of TypeCheckMeaning over two names and one struct.      *)
EXTENDS TypeCheckMeaning

CONSTANTS x, S    \* a variable, and a struct whose name a variable may share

MCId == {x, S}

MCtypes == Append(DefaultTypes, StructType(S, NoMembers))

Var(n) == [op |-> "EId", name |-> n]
Val(t) == [op |-> "Value", type |-> t]
Bad    == [op |-> "Bad"]

Tree(op, exps, kids) == [op |-> op, exps |-> exps, kids |-> kids]
Block(kids)     == [op |-> "SBlock", kids |-> kids]
Decl(type, ids) == [op |-> "SDecls", type |-> type, exps |-> ids]
Id1(n, init)    == [name |-> n, init |-> init]

Leaves ==
  {Tree("SExp", <<e>>, <<>>) : e \in {Var(x), Bad}} \cup
  {Tree("SReturn", <<e>>, <<>>) : e \in {Var(x), Val(TYPE_BOOL)}} \cup
  {Tree("SReturnV", <<>>, <<>>)} \cup
  {Decl(t, <<Id1(x, NoInit)>>) : t \in {"bool", "void", S}} \cup
  {Decl("double", <<Id1(x, e)>>) : e \in {Var(x), Val(TYPE_INT)}} \cup
  {Decl("bool", <<Id1(x, NoInit), Id1(S, Var(x))>>), Decl(x, <<Id1(S, NoInit)>>)}

DeclBool == Decl("bool", <<Id1(x, NoInit)>>)
UseBool  == Tree("SDoWhile", <<Var(x)>>, <<Block(<<>>)>>)
Few      == {DeclBool, UseBool, Tree("SReturn", <<Val(TYPE_INT)>>, <<>>)}

Lists(T, U) == {<<>>} \cup {<<t>> : t \in T} \cup {<<t, u>> : t \in T, u \in U}

Nest(T) ==
  {Tree("SWhile", <<e>>, <<t>>) : e \in {Var(x), Val(TYPE_BOOL)}, t \in T} \cup
  {Tree("SDoWhile", <<Var(x)>>, <<t>>) : t \in T} \cup
  {Tree("SFor", <<Val(TYPE_INT), e, f>>, <<t>>) :
     e \in {Var(x), Val(TYPE_BOOL)}, f \in {Bad, Val(TYPE_VOID)}, t \in T} \cup
  {Tree("SIfElse", <<e>>, <<t, u>>) : e \in {Val(TYPE_INT), Val(TYPE_BOOL)}, t \in T, u \in T}

Blocks == {Block(l) : l \in Lists(Few, Few)}
Inner  == Nest(Few) \cup Blocks
Outer  == {Tree("SWhile", <<Val(TYPE_BOOL)>>, <<b>>) : b \in Blocks}
          \cup {Block(<<b, UseBool>>) : b \in Blocks}

MCStm == Leaves \cup Few \cup Inner \cup Outer

MCHeight ==
  LET height[s \in MCStm] ==
        1 + (IF Kids(s) = <<>> THEN 0
             ELSE LET hs == {height[Kids(s)[k]] : k \in DOMAIN Kids(s)}
                  IN CHOOSE h \in hs : \A g \in hs : g <= h)
  IN height

F(type, args, kids) == [op |-> "DFun", type |-> type, args |-> args, kids |-> kids]
Arg(n, t) == [name |-> n, type |-> t]

ArgLists == {<<>>, <<Arg(x, TYPE_INT)>>, <<Arg(x, TYPE_INT), Arg(x, TYPE_BOOL)>>}

MCPrograms ==
  {<<F(TYPE_DOUBLE, a, l)>> : a \in ArgLists, l \in Lists(Leaves \cup Few, Leaves)} \cup
  {<<F(TYPE_INT, a, <<DeclBool, s>>)>> : a \in ArgLists, s \in Inner \cup Outer} \cup
  {<<F(TYPE_INT, <<>>, <<s, t>>)>> : s \in Inner \cup Outer, t \in Few} \cup
  {<<F(TYPE_VOID, a, <<s>>), F(TYPE_VOID, <<>>, <<t>>)>> :
     a \in ArgLists, s \in Blocks, t \in Leaves}
=============================================================================
