----------------------------- MODULE Expression -----------------------------
(***************************************************************************)
(* Expression trees, and what the two visitors know when they come to one: *)
(* the types, the variables in scope and the functions.  Which scope a     *)
(* name is found in is the business of module TypeCheck; here there is one *)
(* table of variables.                                                     *)
(***************************************************************************)
EXTENDS Context

CONSTANTS
  Exp,        \* expression trees, closed under sub-expressions
  NoExp,      \* "no expression to enter"
  Height,     \* of a tree
  types,      \* Context::types, as ContextBuilder leaves them
  symbols,    \* variables in scope to their types
  functions   \* Context::functionSymbols

Literals == {"ETrue", "EFalse", "EInt", "EDouble"}
Steps    == {"EPIncr", "EPDecr", "EIncr", "EDecr"}
Signs    == {"EUPlus", "EUMinus"}
Sums     == {"ETimes", "EDiv", "EPlus", "EMinus"}
Orders   == {"ELt", "EGt", "ELtEq", "EGtEq"}
Equals   == {"EEq", "ENEq"}
Logic    == {"EAnd", "EOr"}
Binary   == Sums \cup {"ETwc"} \cup Orders \cup Equals \cup Logic \cup {"EAss"}

(* A node: its constructor, a name (EId, EApp, EProj), a number (EInt,     *)
(* EDouble) or neither, and its operands.                                  *)
Node(ops, vals, n) == [op : ops, val : vals, exps : [1 .. n -> Exp]]

Expression ==
  Node({"ETrue", "EFalse"}, {0}, 0) \cup
  Node({"EInt", "EDouble"}, Nat, 0) \cup
  Node({"EId"}, Id, 0) \cup
  [op : {"EApp"}, val : Id, exps : Seq(Exp)] \cup
  Node({"EProj"}, Id, 1) \cup
  Node(Steps \cup Signs, {0}, 1) \cup
  Node(Binary, {0}, 2) \cup
  Node({"ECond"}, {0}, 3)

Number == {TYPE_INT, TYPE_DOUBLE}

Signature ==
  [returnType : DOMAIN types, parameters : Seq(DOMAIN types \ {TYPE_VOID})]

(* What ContextBuilder and TypeCheck establish: members of structs are     *)
(* types that come before them, no variable is void.                       *)
ASSUME ExpressionAssumption ==
  /\ Exp \subseteq Expression
  /\ NoExp \notin Exp
  /\ DOMAIN types = 1 .. Len(types)
  /\ \A t \in 1 .. 4 : t \in DOMAIN types /\ types[t] = DefaultTypes[t]
  /\ \A t \in DOMAIN types : \A m \in DOMAIN types[t].members :
       m \in Id /\ types[t].members[m] \in 1 .. t - 1
  /\ DOMAIN symbols \subseteq Id /\ symbols \in [DOMAIN symbols -> DOMAIN types \ {TYPE_VOID}]
  /\ DOMAIN functions \subseteq Id /\ functions \in [DOMAIN functions -> Signature]

(* Trees are finite: the parser builds an operand before its operator.     *)
ASSUME HeightAssumption ==
  /\ Height \in [Exp -> Nat]
  /\ \A e \in Exp : \A k \in DOMAIN e.exps : Height[e.exps[k]] < Height[e]

isConvertibleTo(t, u) == t = u \/ (t = TYPE_INT /\ u = TYPE_DOUBLE)

(* getMember: null for what is not a member, and for what is no struct.    *)
getMember(t, m) ==
  IF m \in DOMAIN types[t].members THEN types[t].members[m] ELSE null
=============================================================================
