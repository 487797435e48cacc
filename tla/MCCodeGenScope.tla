--------------------------- MODULE MCCodeGenScope ---------------------------
(* Small programs over two variables, for CodeGenScopeMeaning.             *)
EXTENDS CodeGenScopeMeaning

CONSTANTS x, y

MCId == {x, y}

MCtypes == DefaultTypes

Var(n) == [op |-> "EId", name |-> n]
Yes    == [op |-> "Value", type |-> TYPE_BOOL]

Tree(op, exps, kids) == [op |-> op, exps |-> exps, kids |-> kids]
Block(kids)  == [op |-> "SBlock", kids |-> kids]
Id1(n, init) == [name |-> n, init |-> init]
Decl(ids)    == [op |-> "SDecls", type |-> "bool", exps |-> ids]
Use(n)       == Tree("SExp", <<Var(n)>>, <<>>)
Ret(n)       == Tree("SReturn", <<Var(n)>>, <<>>)
RetV         == Tree("SReturnV", <<>>, <<>>)

DeclX   == Decl(<<Id1(x, Yes)>>)
DeclXX  == Decl(<<Id1(x, Var(x))>>)
DeclYX  == Decl(<<Id1(y, Var(x))>>)
DeclXYX == Decl(<<Id1(x, NoInit), Id1(y, Var(x))>>)

Leaves == {DeclX, DeclXX, DeclYX, DeclXYX, Use(x), Use(y), Ret(x)}
Few    == {DeclX, Use(x), Ret(x)}

Lists(T, U) == {<<t, u>> : t \in T, u \in U}

Blocks == {Block(<<t>>) : t \in Leaves} \cup {Block(l) : l \in Lists(Few \cup {DeclXX}, Few)}

Nest(T, U) ==
  {Tree(op, <<Var(x)>>, <<t>>) : op \in {"SWhile", "SDoWhile"}, t \in T} \cup
  {Tree("SFor", <<Yes, Var(x), Var(x)>>, <<t>>) : t \in T} \cup
  {Tree("SIfElse", <<Var(x)>>, <<t, u>>) : t \in T, u \in U}

Inner == Nest(Leaves \cup Blocks, Few \cup {Block(<<DeclX>>)}) \cup Blocks

Mid == Nest(Few, {Use(x), Ret(x)})

Outer == Nest(Mid, {Use(x)}) \cup {Block(<<s, Use(x)>>) : s \in Mid}
         \cup {Block(<<DeclX, s>>) : s \in Nest(Few \cup {DeclYX}, {Use(x)})}

Whole == {Block(<<s, t>>) : s \in Inner \cup Outer, t \in {Ret(x), Use(y), DeclYX}}

MCStm == Leaves \cup Blocks \cup Inner \cup Mid \cup Outer \cup Whole
         \cup {RetV, Block(<<DeclYX, RetV>>)}

F(args, kids) == [op |-> "DFun", type |-> TYPE_BOOL, args |-> args, kids |-> kids]
P(args, kids) == [F(args, kids) EXCEPT !.type = TYPE_VOID]
Arg(n) == [name |-> n, type |-> TYPE_BOOL]

ArgLists == {<<>>, <<Arg(x)>>}

MCPrograms ==
  {<<F(<<Arg(x)>>, <<s>>)>> : s \in Whole} \cup
  {<<F(a, <<DeclX, s>>)>> : a \in ArgLists, s \in Inner \cup Outer} \cup
  {<<F(<<Arg(x), Arg(y)>>, <<s>>), F(<<Arg(x)>>, <<t, Use(y)>>)>> : s \in Blocks, t \in Few \cup {DeclYX}} \cup
  {<<P(<<Arg(x)>>, <<s>>), F(<<Arg(y)>>, <<t>>)>> :
     s \in {DeclYX, RetV, Block(<<DeclYX, RetV>>)}, t \in {Use(x), DeclYX, DeclXX}}
=============================================================================
