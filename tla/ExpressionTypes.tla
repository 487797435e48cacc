--------------------------- MODULE ExpressionTypes ---------------------------
(***************************************************************************)
(* Which expressions of the compiled language are well typed, and their    *)
(* types: the judgement, written from the tree alone, that the verdicts of *)
(* the typechecker are compared with.                                      *)
(***************************************************************************)
EXTENDS Expression

(* Operands of types ts, null where one has none, make a typed expression. *)
Fits(e, ts) ==
  /\ e.op = "EId"   => e.val \in DOMAIN symbols
  /\ e.op = "EApp"  =>
       /\ e.val \in DOMAIN functions
       /\ Len(functions[e.val].parameters) = Len(e.exps)
       /\ \A k \in DOMAIN e.exps : isConvertibleTo(ts[k], functions[e.val].parameters[k])
  /\ e.op = "EProj" => ts[1] # null /\ getMember(ts[1], e.val) # null
  /\ e.op \in Steps \cup {"EAss"} => e.exps[1].op \in {"EId", "EProj"}
  /\ e.op \in Steps \cup Signs    => ts[1] \in Number
  /\ e.op \in Sums \cup {"ETwc"} \cup Orders => {ts[1], ts[2]} \subseteq Number
  /\ e.op \in Equals => null \notin {ts[1], ts[2]}
  /\ e.op \in Logic  => {ts[1], ts[2]} = {TYPE_BOOL}
  /\ e.op = "EAss"   => ts[1] # null /\ isConvertibleTo(ts[2], ts[1])
  /\ e.op = "ECond"  => ts[1] = TYPE_BOOL /\ ts[2] = ts[3] /\ ts[2] # null

(* The type it then has.                                                   *)
TypeGiven(e, ts) ==
  CASE e.op \in {"EInt", "ETwc"} -> TYPE_INT
    [] e.op = "EDouble" -> TYPE_DOUBLE
    [] e.op = "EId"     -> symbols[e.val]
    [] e.op = "EApp"    -> functions[e.val].returnType
    [] e.op = "EProj"   -> getMember(ts[1], e.val)
    [] e.op \in Steps \cup Signs \cup {"EAss"} -> ts[1]
    [] e.op \in Sums    -> IF TYPE_DOUBLE \in {ts[1], ts[2]} THEN TYPE_DOUBLE ELSE TYPE_INT
    [] e.op = "ECond"   -> ts[2]
    [] OTHER            -> TYPE_BOOL

TypeBy(e, ts) == IF Fits(e, ts) THEN TypeGiven(e, ts) ELSE null

(* The type of a tree, null if it has none.                                *)
TypeOf[e \in Exp] == TypeBy(e, [k \in DOMAIN e.exps |-> TypeOf[e.exps[k]]])

(* The trees inside a tree, with their paths.                              *)
Located(path, e) == [path |-> path, tree |-> e]

Under(k, subtrees) == {Located(<<k>> \o s.path, s.tree) : s \in subtrees}

Subtrees[e \in Exp] ==
  {Located(<<>>, e)} \cup UNION {Under(k, Subtrees[e.exps[k]]) : k \in DOMAIN e.exps}
=============================================================================
