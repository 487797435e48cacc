---------------------------- MODULE MCCodeGenStm ----------------------------
(* Small instances of CodeGenMeaning: statement trees of depth three over  *)
(* one plain and one ternary expression.                                   *)
EXTENDS CodeGenMeaning, FiniteSets

CONSTANTS e, c    \* a plain expression and a ternary

MCExp == {e, c}
MCCondExp == {c}

Tree(op, exps, kids) == [op |-> op, exps |-> exps, kids |-> kids]

Singles(S)  == {<<s>> : s \in S}
Pairs(S, T) == {<<s, t>> : s \in S, t \in T} \cup {<<t, s>> : s \in S, t \in T}

(* One more level of nesting over the statements S, with a second, simpler *)
(* set T for the other branch of an if and the other half of a block.      *)
Nest(S, T) ==
  {Tree("SWhile", <<e>>, <<s>>) : s \in S} \cup
  {Tree("SDoWhile", <<e>>, <<s>>) : s \in S} \cup
  {Tree("SFor", <<e, e, e>>, <<s>>) : s \in S} \cup
  {Tree("SIfElse", <<e>>, b) : b \in Pairs(S, T)} \cup
  {Tree("SBlock", <<>>, b) : b \in Singles(S) \cup Pairs(S, T)}

VoidLeaves  == {Tree("SExp", <<e>>, <<>>), Tree("SReturnV", <<>>, <<>>)}
ValueLeaves == {Tree("SDecls", <<e, e>>, <<>>), Tree("SReturn", <<e>>, <<>>)}

Empty  == Tree("SBlock", <<>>, <<>>)
Void1  == VoidLeaves \cup {Empty} \cup Nest(VoidLeaves, VoidLeaves)
Value1 == ValueLeaves \cup {Empty} \cup Nest(ValueLeaves, ValueLeaves)
Void2  == Void1 \cup Nest(Void1, VoidLeaves)
Value2 == Value1 \cup Nest(Value1, ValueLeaves)

(* A few statements whose expressions are ternaries.                       *)
Ternary ==
  {Tree("SExp", <<c>>, <<>>), Tree("SReturn", <<c>>, <<>>),
   Tree("SDecls", <<c, e, c>>, <<>>)} \cup
  {Tree("SWhile", <<c>>, <<s>>) : s \in VoidLeaves} \cup
  {Tree("SDoWhile", <<c>>, <<s>>) : s \in VoidLeaves} \cup
  {Tree("SFor", <<c, c, c>>, <<s>>) : s \in VoidLeaves} \cup
  {Tree("SIfElse", <<c>>, <<s, s>>) : s \in VoidLeaves}

MCStm == Void2 \cup Value2 \cup Ternary

MCHeight ==
  LET height[s \in Stm] ==
        1 + (IF s.kids = <<>> THEN 0
             ELSE LET hs == {height[s.kids[k]] : k \in DOMAIN s.kids}
                  IN CHOOSE h \in hs : \A g \in hs : g <= h)
  IN height

Fun(ret, body) == [ret |-> ret, body |-> body]

(* One function of one deep statement, of two shallow ones, or ternaries.  *)
Single ==
  {Fun("void", b) : b \in {<<>>} \cup Singles(Void2) \cup Pairs(Void1, VoidLeaves)} \cup
  {Fun("value", b) : b \in {<<>>} \cup Singles(Value2) \cup Pairs(Value1, ValueLeaves)} \cup
  {Fun("void", <<s>>) : s \in {s \in Ternary : s.op # "SReturn"}} \cup
  {Fun("value", <<Tree("SReturn", <<c>>, <<>>)>>)}

(* Two functions: the second starts with what the first left in stmReturns. *)
First == {Fun("void", b) : b \in {<<>>} \cup Singles(VoidLeaves)} \cup
         {Fun("value", <<Tree("SReturn", <<e>>, <<>>)>>)}
Second == {Fun("void", b) : b \in {<<>>} \cup Singles(Void1)} \cup
          {Fun("value", b) : b \in {<<>>} \cup Singles(Value1)}

MCPrograms ==
  {<<f>> : f \in Single} \cup {<<f, g>> : f \in First, g \in Second}

MCOutcomes == [1 .. 4 -> BOOLEAN]

(* project2/tests/0-ifelse-good.cc: both branches return.                  *)
IfElseGood ==
  LET returns == Tree("SBlock", <<>>, <<Tree("SReturn", <<e>>, <<>>)>>)
      ifelse  == Tree("SIfElse", <<e>>, <<returns, returns>>)
      decl    == Tree("SDecls", <<e>>, <<>>)
  IN Fun("value", <<decl, ifelse, decl, ifelse, Tree("SReturn", <<e>>, <<>>)>>)

GoodStm ==
  LET b == IfElseGood.body IN
  {b[i] : i \in DOMAIN b} \cup {b[2].kids[1], b[2].kids[1].kids[1]}

GoodProgram == {<<IfElseGood>>}

(* int f() { while (e) return e; }                                         *)
WhileReturn ==
  LET loop == Tree("SWhile", <<e>>, <<Tree("SReturn", <<e>>, <<>>)>>)
  IN Fun("value", <<loop>>)

WhileStm == {WhileReturn.body[1], WhileReturn.body[1].kids[1]}

WhileProgram == {<<WhileReturn>>}

(* int f() { return e; } void g() { }                                      *)
StaleProgram ==
  {<<Fun("value", <<Tree("SReturn", <<e>>, <<>>)>>), Fun("void", <<>>)>>}
=============================================================================
