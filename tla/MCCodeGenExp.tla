---------------------------- MODULE MCCodeGenExp ----------------------------
(* Expressions over a handful of variables, two structs and three          *)
(* functions.  Names are strings, so that a struct's members are fields.   *)
EXTENDS CodeGenExpMeaning

MCId == {"x", "d", "b", "s", "t", "A", "B", "f", "g", "h", "S", "T", "nowhere"}

Members(a, b) == "A" :> a @@ "B" :> b

MCtypes ==
  DefaultTypes \o <<StructType("S", Members(TYPE_INT, TYPE_DOUBLE)),
                    StructType("T", Members(5, TYPE_BOOL))>>

MCsymbols ==
  "x" :> TYPE_INT @@ "d" :> TYPE_DOUBLE @@ "b" :> TYPE_BOOL @@ "s" :> 5 @@ "t" :> 6

MCfunctions ==
  "f" :> [returnType |-> TYPE_INT, parameters |-> <<TYPE_INT, TYPE_DOUBLE>>] @@
  "g" :> [returnType |-> TYPE_VOID, parameters |-> <<>>] @@
  "h" :> [returnType |-> 5, parameters |-> <<>>]

Tree(op, val, exps) == [op |-> op, val |-> val, exps |-> exps]

E(x)         == Tree("EId", x, <<>>)
IntLit(n)    == Tree("EInt", n, <<>>)
TrueLit      == Tree("ETrue", 0, <<>>)
App(f, exps) == Tree("EApp", f, exps)
Proj(e, m)   == Tree("EProj", m, <<e>>)
Un(op, e)    == Tree(op, 0, <<e>>)
Bin(op, e, f) == Tree(op, 0, <<e, f>>)
Cond(c, e, f) == Tree("ECond", 0, <<c, e, f>>)

(* A leaf of each type, and a name that is nowhere.                        *)
Leaves ==
  {E("x"), E("d"), E("b"), E("s"), E("t"), E("nowhere"), IntLit(7), Tree("EDouble", 2, <<>>),
   TrueLit, Tree("EFalse", 0, <<>>), App("g", <<>>), App("h", <<>>), App("nowhere", <<>>)}

Places == {E("x"), E("d"), Proj(E("s"), "A"), Proj(E("s"), "B"), Proj(Proj(E("t"), "A"), "A"),
           Proj(App("h", <<>>), "A")}

(* Expressions with effects, and some of every type.                       *)
Busy ==
  {Un("EPIncr", e) : e \in Places} \cup {Un("EDecr", Proj(E("s"), "A")), Bin("EAss", E("d"), E("x")),
   Bin("EAss", Proj(Proj(E("t"), "A"), "B"), IntLit(7)), Bin("EAss", Proj(E("t"), "A"), E("s")),
   Bin("EEq", E("s"), App("h", <<>>)), Bin("EAnd", E("b"), TrueLit), Bin("ELt", E("x"), E("d")),
   Cond(E("b"), E("x"), Un("EIncr", E("x"))), Cond(E("b"), E("s"), App("h", <<>>)),
   App("f", <<Un("EPDecr", E("x")), E("x")>>), Proj(E("t"), "A"), Proj(E("t"), "B")}

Some == Busy \cup {E("x"), E("d"), E("b"), E("s"), App("g", <<>>)}

Few == {E("x"), E("b"), Un("EPIncr", Proj(E("s"), "B")), Bin("EAss", E("x"), IntLit(7))}

Unary(S) ==
  {Un(op, e) : op \in Steps \cup Signs, e \in S} \cup
  {Proj(e, m) : e \in S, m \in {"A", "B", "nowhere"}}

(* One leaf of each type, and one of none.                                 *)
Kinds == {E("x"), E("d"), E("b"), E("s"), E("t"), App("g", <<>>), E("nowhere")}

Pairs ==
  ((Leaves \cup Places) \X Kinds) \cup (Some \X Few) \cup
  ({E("x"), Un("EPIncr", Proj(E("s"), "B"))} \X Some) \cup
  {<<e, Bin("EAss", f, E("x"))>> : e, f \in Places}

Triples ==
  ({E("b")} \X (Kinds \X Kinds \cup Some \X Few \cup Few \X Some)) \cup
  {<<c, <<Cond(E("b"), e, E("x")), e>>>> : c \in Busy, e \in Few}

MCPrograms == UNION {
  Leaves, Unary(Leaves \cup Some \cup Unary(Places)),
  {App("f", <<e, f>>) : e, f \in Kinds \cup Few},
  {App(f, <<e>>) : f \in {"f", "g"}, e \in Few},
  {Cond(p[1], p[2][1], p[2][2]) : p \in Triples},
  {Bin(op, p[1], p[2]) : op \in Binary, p \in Pairs}}

(* With their operands, four levels deep.                                  *)
Kids(S) == UNION {{e.exps[i] : i \in DOMAIN e.exps} : e \in S}

MCExp ==
  LET one   == Kids(MCPrograms)
      two   == one \cup Kids(one)
      three == two \cup Kids(two)
  IN UNION {three, Kids(three), MCPrograms}

MCHeight[e \in MCExp] ==
  IF e.exps = <<>> THEN 0 ELSE 1 + Max({MCHeight[e.exps[k]] : k \in DOMAIN e.exps})

(* Words of three bits; the doubles are sparser above 2 and below -2.      *)
MCRounded == [v \in -4 .. 3 |-> IF v \in {-3, 3} THEN 2 * (v \div 2) ELSE v]
=============================================================================
