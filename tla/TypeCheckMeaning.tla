-------------------------- MODULE TypeCheckMeaning --------------------------
(***************************************************************************)
(* Which programs are well typed, said of the trees alone: no stack, no    *)
(* exceptions, no unwinding.  A judgement takes the table of variables at  *)
(* a statement to the table after it.  A declaration that is not in braces *)
(* declares into the scope around the loop or if that it is a part of, as  *)
(* it does in the visitor.                                                 *)
(***************************************************************************)
EXTENDS TypeCheck

CONSTANT Height   \* of a statement

Kids(s) == IF s.op = "SDecls" THEN <<>> ELSE s.kids

(* Trees are finite: the parser builds a part before the whole.            *)
ASSUME HeightAssumption ==
  /\ Height \in [Stm -> Nat]
  /\ \A s \in Stm : \A k \in DOMAIN Kids(s) : Height[Kids(s)[k]] < Height[s]

(* A scope: what the variables are, which of them it declared itself, and  *)
(* whether all is well so far.                                             *)
Scope(visible, local, ok) == [visible |-> visible, local |-> local, ok |-> ok]

Scopes ==
  [visible : [Id -> DOMAIN types \cup {null}], local : SUBSET Id, ok : BOOLEAN]

NoVariables == [x \in Id |-> null]

TypeIn(e, sc) ==
  CASE e.op = "EId"   -> sc.visible[e.name]
    [] e.op = "Value" -> e.type
    [] e.op = "Bad"   -> null

And(sc, cond) == [sc EXCEPT !.ok = @ /\ cond]

Has(e, want, sc) == And(sc, TypeIn(e, sc) \in want)

Enter(sc, name, type) ==
  And([sc EXCEPT !.visible[name] = type, !.local = @ \cup {name}], name \notin sc.local)

EnterIdIn(sc, id, type) ==
  Enter(IF id.init = NoInit THEN sc ELSE Has(id.init, Becomes(type), sc), id.name, type)

(* Steps from scope to scope in turn: what is left of them after the       *)
(* first k.                                                                *)
InTurn(steps) ==
  LET left[k \in 0 .. Len(steps)] ==
        [sc \in Scopes |-> IF k = Len(steps) THEN sc ELSE left[k + 1][steps[k + 1][sc]]]
  IN left

EnterNames(ids, type) ==
  [k \in DOMAIN ids |-> [sc \in Scopes |-> EnterIdIn(sc, ids[k], type)]]

EnterArgs(args) ==
  [k \in DOMAIN args |-> [sc \in Scopes |-> Enter(sc, args[k].name, args[k].type)]]

(* What a statement of a function that returns ret makes of a scope, when  *)
(* after says so of its parts.                                             *)
Judge(s, after, ret, sc) ==
  LET body(k, before) == after[k][ret][before] IN
  CASE s.op = "SExp"     -> Has(s.exps[1], AnyType, sc)
    [] s.op = "SReturn"  -> Has(s.exps[1], Becomes(ret), sc)
    [] s.op = "SReturnV" -> And(sc, ret = TYPE_VOID)
    [] s.op = "SDecls"   ->
         LET type == findBasicType(types, s.type) IN
           IF type \in {null, TYPE_VOID} THEN And(sc, FALSE)
           ELSE InTurn(EnterNames(s.exps, type))[0][sc]
    [] s.op = "SWhile"   -> body(1, Has(s.exps[1], Bool, sc))
    [] s.op = "SDoWhile" -> Has(s.exps[1], Bool, body(1, sc))
    [] s.op = "SFor"     ->
         body(1, Has(s.exps[3], AnyType, Has(s.exps[2], Bool, Has(s.exps[1], AnyType, sc))))
    [] s.op = "SIfElse"  -> body(2, body(1, Has(s.exps[1], Bool, sc)))
    [] s.op = "SBlock"   ->
         Scope(sc.visible, sc.local,
               InTurn([k \in DOMAIN s.kids |-> after[k][ret]])[0][Scope(sc.visible, {}, sc.ok)].ok)

Judgement(s, after) == [ret \in DOMAIN types |-> [sc \in Scopes |-> Judge(s, after, ret, sc)]]

After[s \in Stm] == Judgement(s, [k \in DOMAIN Kids(s) |-> After[Kids(s)[k]]])

Bodies(stms, ret) == [k \in DOMAIN stms |-> After[stms[k]][ret]]

WellTypedFunction(f) ==
  InTurn(Bodies(f.kids, f.type))[0][
    InTurn(EnterArgs(f.args))[0][Scope(NoVariables, {}, TRUE)]].ok

WellTyped(p) == \A i \in DOMAIN p : WellTypedFunction(p[i])

(* main.cpp:22 goes on to the code generator exactly for the programs that *)
(* are well typed: an error in one statement neither hides the errors of   *)
(* another nor makes a well-typed program look wrong, whatever the scopes  *)
(* it was thrown out of.                                                   *)
AcceptsExactlyWellTyped ==
  Done /\ ~ crashed => (anyErrors <=> ~ WellTyped(program))

(* A crash is the fault of the program too: a name that is nowhere.        *)
CrashesOnIllTyped == crashed => ~ WellTyped(program)
=============================================================================
