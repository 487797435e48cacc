------------------------- MODULE CodeGenScopeProofs -------------------------
(***************************************************************************)
(* Theorems about the bindings of CodeGenScope, for every program that the *)
(* typechecker lets pass: the code generator finds every name it looks up, *)
(* its CodeGenContexts implement LexicalScope, and what they hold are      *)
(* allocas of the function that is being generated.                        *)
(*                                                                         *)
(* Its handlers do to the scopes what the judgement of TypeCheckMeaning    *)
(* says, as those of the typechecker do, but it leaves out what is behind  *)
(* a return and visits the last expression of a for behind the body.  What *)
(* is left to do is therefore described by the Story of TypeCheckProofs.   *)
(***************************************************************************)
EXTENDS CodeGenScope, TypeCheckProofs

-----------------------------------------------------------------------------
(* What is left to do is in order *)

(* With the handlers fr of function F, a of its arguments entered, the     *)
(* names c, and nd to be entered next: all will be well.                   *)
InOrder(fr, nd, a, c, F) ==
  /\ F \in Function /\ nd \in Stm \cup {NoStm}
  /\ StackOK(fr) /\ fr # <<>>
  /\ Chain(c) /\ Len(c) = 1 + ScopeCount(fr)
  /\ Story(fr, OuterOf(c), F.type, a, Value(c, nd, F.type), TRUE)

(* An expression, if it is a variable, finds it.                           *)
Found(e, c) == e.op = "EId" => Holders(c, e.name) # {}

(* What follows from it.                                                   *)
LEMMA OrderFacts ==
  ASSUME NEW fr, NEW nd, NEW a, NEW c, NEW F, InOrder(fr, nd, a, c, F), NEW ret, ret = F.type
  PROVE  /\ ret \in DOMAIN types
         /\ fr \in Seq(FrameSet) /\ Len(fr) \in Nat /\ Len(fr) >= 1
         /\ Now(c) \in Scopes /\ Now(c).ok
         /\ Value(c, nd, ret) \in Scopes /\ Value(c, nd, ret).ok
         /\ OuterOf(c) \in Seq(Saved) /\ Len(OuterOf(c)) = Len(c) - 1 /\ Len(OuterOf(c)) >= 1
         /\ Fits(fr[Len(fr)], ret, a, OuterOf(c)[Len(OuterOf(c))])
         /\ Story(fr, OuterOf(c), ret, a, Value(c, nd, ret), TRUE)
<1>1. /\ F \in Function /\ nd \in Stm \cup {NoStm} /\ StackOK(fr) /\ fr # <<>> /\ Chain(c)
      /\ Story(fr, OuterOf(c), ret, a, Value(c, nd, ret), TRUE)
  BY DEF InOrder
<1>2. ret \in DOMAIN types
  BY <1>1 DEF Function
<1>3. fr \in Seq(FrameSet) /\ Len(fr) \in Nat /\ Len(fr) >= 1
  BY <1>1, ScopesFinite, EmptySeq
<1>4. /\ Now(c) \in Scopes /\ Now(c).ok
      /\ OuterOf(c) \in Seq(Saved) /\ Len(OuterOf(c)) = Len(c) - 1
  BY <1>1, NowFacts
<1>5. PICK sc : sc = Value(c, nd, ret)
  OBVIOUS
<1>6. sc \in Scopes
  <2>1. CASE nd = NoStm
    BY <1>4, <1>5, <2>1 DEF Value
  <2>2. CASE nd # NoStm
    <3>1. nd \in Stm
      BY <1>1, <2>2
    <3>2. After[nd][ret] \in Moves
      BY <1>2, <1>4, <3>1, AfterAt
    <3> QED BY <1>4, <1>5, <2>2, <3>2 DEF Value, Moves
  <2> QED BY <2>1, <2>2
<1>7. PICK o : o = OuterOf(c)
  OBVIOUS
<1>8. Story(fr, o, ret, a, sc, TRUE)
  BY <1>1, <1>5, <1>7
<1>9. sc.ok
  BY <1>3, <1>6, <1>8, StoryFails
<1>10. Len(o) >= 1 /\ Fits(fr[Len(fr)], ret, a, o[Len(o)])
  BY <1>1, <1>3, <1>8, StoryTop
<1> QED BY <1>1, <1>2, <1>3, <1>4, <1>5, <1>6, <1>7, <1>9, <1>10

(* An expression of a wanted type finds its variable.                      *)
LEMMA TypedIsFound ==
  ASSUME NEW c, Chain(c), NEW e \in Exp, NEW want, want \subseteq DOMAIN types,
         TypeIn(e, Now(c)) \in want
  PROVE  Found(e, c)
<1>1. CASE e.op = "EId"
  <2>1. e.name \in Id
    BY <1>1 DEF Exp
  <2>2. TypeIn(e, Now(c)) = Table(c)[e.name]
    BY <1>1, NowFacts DEF TypeIn
  <2>3. Table(c)[e.name] = findSymbol(c, e.name)
    BY <2>1 DEF Table
  <2>4. findSymbol(c, e.name) # null
    BY <2>2, <2>3, FindBasicType
  <2> QED BY <2>4 DEF findSymbol, Found
<1> QED BY <1>1 DEF Found

(* The types that handlers want.                                           *)
LEMMA Wanted ==
  /\ AnyType \subseteq DOMAIN types /\ Bool \subseteq DOMAIN types
  /\ \A t : Becomes(t) \subseteq DOMAIN types
<1>1. TYPE_BOOL \in DOMAIN types
  BY TypeCheckAssumption DEF TYPE_BOOL
<1> QED BY <1>1 DEF AnyType, Bool, Becomes

(* All is well behind a condition: it holds.                               *)
LEMMA HeldTest ==
  ASSUME NEW c, Chain(c), NEW e \in Exp, NEW want, want \subseteq DOMAIN types,
         Has(e, want, Now(c)).ok
  PROVE  Has(e, want, Now(c)) = Now(c) /\ Found(e, c)
<1>1. PICK n : n = Now(c)
  OBVIOUS
<1>2. n \in Scopes
  BY <1>1, NowFacts
<1>3. TypeIn(e, n) \in want
  BY <1>1, <1>2, HasIs
<1>4. Has(e, want, n) = n
  BY <1>2, <1>3, HasIs
<1> QED BY <1>1, <1>3, <1>4, TypedIsFound

(* A statement without sub-statements.                                     *)
LEMMA LeafOrder ==
  ASSUME NEW fr, NEW nd, NEW a, NEW c, NEW F, InOrder(fr, nd, a, c, F),
         nd # NoStm, nd.op \in {"SExp", "SReturn", "SReturnV"}
  PROVE  InOrder(fr, NoStm, a, c, F) /\ (nd.op # "SReturnV" => Found(nd.exps[1], c))
<1>1. PICK ret, n : ret = F.type /\ n = Now(c)
  OBVIOUS
<1>2. nd \in Stm /\ Chain(c)
  BY DEF InOrder
<1>3. ret \in DOMAIN types /\ n \in Scopes /\ Value(c, nd, ret).ok
  BY <1>1, OrderFacts
<1>4. Value(c, nd, ret) = After[nd][ret][n] /\ Value(c, NoStm, ret) = n
  BY <1>1 DEF Value
<1>5. After[nd][ret][n] = n /\ (nd.op # "SReturnV" => Found(nd.exps[1], c))
  <2>1. CASE nd.op \in {"SExp", "SReturn"}
    <3>1. PICK e, want : e = nd.exps[1] /\ want = IF nd.op = "SExp" THEN AnyType ELSE Becomes(ret)
      OBVIOUS
    <3>2. e \in Exp /\ After[nd][ret][n] = Has(e, want, n) /\ want \subseteq DOMAIN types
      BY <1>2, <1>3, <2>1, <3>1, StmExps, AfterSimple, Wanted
    <3>3. Has(e, want, n).ok
      BY <1>3, <1>4, <3>2
    <3>4. Has(e, want, n) = n /\ Found(e, c)
      BY ONLY <1>1, <1>2, <3>2, <3>3, HeldTest
    <3> QED BY <3>1, <3>2, <3>4
  <2>2. CASE nd.op = "SReturnV"
    <3>1. After[nd][ret][n] = And(n, ret = TYPE_VOID)
      BY <1>2, <1>3, <2>2, AfterSimple
    <3>2. ret = TYPE_VOID
      BY <1>3, <1>4, <3>1, AndRange
    <3> QED BY <1>3, <2>2, <3>1, <3>2, AndHolds
  <2> QED BY <2>1, <2>2
<1> QED BY <1>1, <1>4, <1>5 DEF InOrder

(* A handler without a scope of its own is called: it finishes what it was *)
(* entered for, of what it goes on with.                                   *)
LEMMA CallOrder ==
  ASSUME NEW fr, NEW nd, NEW a, NEW c, NEW F, InOrder(fr, nd, a, c, F), NEW ret, ret = F.type,
         NEW f \in FrameSet, f.stm.op \notin ScopeOps, NEW nd2 \in Stm \cup {NoStm},
         NEW q, q = OuterOf(c)[Len(OuterOf(c))], Fits(f, ret, a, q),
         NEW sc2 \in Scopes, sc2 = Value(c, nd2, ret),
         Value(c, nd, ret) = Finish(f, ret, a, q, sc2),
         NEW top, top = Append(fr, f)
  PROVE  InOrder(top, nd2, a, c, F)
<1>1. PICK o, b, w : o = OuterOf(c) /\ b = a /\ w = TRUE
  OBVIOUS
<1>2. /\ F \in Function /\ Chain(c) /\ StackOK(fr) /\ fr # <<>> /\ Len(c) = 1 + ScopeCount(fr)
      /\ fr \in Seq(FrameSet) /\ o \in Seq(Saved)
  BY <1>1, OrderFacts DEF InOrder
<1>3. /\ Above(f, fr, o, o) /\ q = o[Len(o)] /\ (b = a \/ fr = <<>>)
  BY <1>1, <1>2 DEF Above
<1>4. Story(fr, o, ret, a, Finish(f, ret, b, q, sc2), w) /\ Fits(f, ret, b, q)
  BY <1>1, OrderFacts
<1>5. Story(top, o, ret, b, sc2, w)
  BY ONLY f \in FrameSet, sc2 \in Scopes, top = Append(fr, f), <1>2, <1>3, <1>4, StoryCall
<1>6. StackOK(top) /\ top # <<>> /\ ScopeCount(top) = ScopeCount(fr)
  <2>1. f.stm.op # "DFun" /\ TypeKnown(f.stm)
    BY DEF ScopeOps, Fits
  <2> QED BY <1>2, <2>1, Pushed
<1> QED BY <1>1, <1>2, <1>5, <1>6 DEF InOrder

(* A loop or an if: of its expressions those hold that come first.         *)
LEMMA EnterOrder ==
  ASSUME NEW fr, NEW nd, NEW a, NEW c, NEW F, InOrder(fr, nd, a, c, F), nd # NoStm,
         nd.op \in {"SWhile", "SDoWhile", "SFor", "SIfElse"},
         NEW top, top = Append(fr, Frame(nd, 1))
  PROVE  /\ InOrder(top, nd.kids[1], a, c, F)
         /\ nd.op \in {"SWhile", "SIfElse"} => Found(nd.exps[1], c)
         /\ nd.op = "SFor" =>
              Found(nd.exps[1], c) /\ Found(nd.exps[2], c) /\ Found(nd.exps[3], c)
<1>1. PICK ret, n, f, q : /\ ret = F.type /\ n = Now(c) /\ f = Frame(nd, 1)
                          /\ q = OuterOf(c)[Len(OuterOf(c))]
  OBVIOUS
<1>2. /\ nd \in Stm /\ Chain(c) /\ nd.kids[1] \in Stm /\ nd.kids[1] # NoStm
      /\ nd.op \notin ScopeOps /\ nd.op # "SDecls" /\ nd.exps[1] \in Exp
      /\ nd.op = "SFor" => nd.exps[2] \in Exp /\ nd.exps[3] \in Exp
  <2>1. nd \in Stm /\ Chain(c)
    BY DEF InOrder
  <2> QED BY <2>1, StmParts, StmExps, TypeCheckAssumption DEF ScopeOps
<1>3. ret \in DOMAIN types /\ n \in Scopes /\ n.ok /\ Value(c, nd, ret).ok
  BY <1>1, OrderFacts
<1>4. Value(c, nd, ret) = After[nd][ret][n]
  BY <1>1 DEF Value
<1>5. PICK g, e : g = After[nd.kids[1]][ret] /\ e = nd.exps[1]
  OBVIOUS
<1>6. g \in Moves /\ e \in Exp /\ Value(c, nd.kids[1], ret) = g[n]
  BY <1>1, <1>2, <1>3, <1>5, AfterAt DEF Value
<1>7. g[n] \in Scopes /\ (g[n].ok => n.ok)
  BY <1>3, <1>6 DEF Moves
<1>8. f \in FrameSet /\ f.stm = nd /\ f.pos = 1
  BY <1>1, <1>2 DEF Frame, FrameSet
<1>9. Fits(f, ret, a, q)
  BY <1>2, <1>3, <1>8 DEF Fits, ScopeOps, TypeKnown
<1>10. ASSUME Value(c, nd, ret) = Finish(f, ret, a, q, g[n])
       PROVE  InOrder(top, nd.kids[1], a, c, F)
  <2>1. /\ f.stm.op \notin ScopeOps /\ nd.kids[1] \in Stm \cup {NoStm} /\ g[n] \in Scopes
        /\ g[n] = Value(c, nd.kids[1], ret) /\ top = Append(fr, f)
    BY <1>1, <1>2, <1>6, <1>7, <1>8
  <2>2. PICK nd2, sc2 : nd2 = nd.kids[1] /\ sc2 = g[n]
    OBVIOUS
  <2> QED BY <1>1, <1>8, <1>9, <1>10, <2>1, <2>2, CallOrder
<1>11. \A e1 \in Exp : \A want :
         want \subseteq DOMAIN types /\ g[Has(e1, want, n)].ok =>
           Has(e1, want, n) = n /\ Found(e1, c)
  <2>1. SUFFICES ASSUME NEW e1 \in Exp, NEW want, want \subseteq DOMAIN types, g[Has(e1, want, n)].ok
                 PROVE  Has(e1, want, n) = n /\ Found(e1, c)
    OBVIOUS
  <2>2. Has(e1, want, n) \in Scopes
    BY <1>3, HasIs
  <2>3. Has(e1, want, n).ok
    BY <1>6, <2>1, <2>2 DEF Moves
  <2> QED BY <1>1, <1>2, <2>1, <2>3, HeldTest
<1>12. CASE nd.op = "SWhile"
  <2>1. After[nd][ret][n] = g[Has(e, Bool, n)]
    BY <1>2, <1>3, <1>5, <1>12, AfterParts
  <2>2. Has(e, Bool, n) = n /\ Found(e, c)
    BY <1>3, <1>4, <1>6, <1>11, <2>1, Wanted
  <2>3. Finish(f, ret, a, q, g[n]) = g[n]
    BY <1>8, <1>12 DEF Finish
  <2> QED BY <1>4, <1>5, <1>10, <1>12, <2>1, <2>2, <2>3
<1>13. CASE nd.op = "SIfElse"
  <2>1. PICK h : h = After[nd.kids[2]][ret]
    OBVIOUS
  <2>2. h \in Moves
    BY <1>2, <1>3, <1>13, <2>1, StmParts, AfterAt
  <2>3. After[nd][ret][n] = h[g[Has(e, Bool, n)]]
    <3>1. /\ nd \in Stm /\ ret \in DOMAIN types /\ n \in Scopes
          /\ nd.op = "SIfElse" /\ g = After[nd.kids[1]][ret]
      BY <1>2, <1>3, <1>5, <1>13
    <3>2. After[nd][ret][n] = After[nd.kids[2]][ret][g[Has(nd.exps[1], Bool, n)]]
      BY ONLY <3>1, AfterIfElse
    <3> QED BY ONLY <1>5, <2>1, <3>2
  <2>4. Has(e, Bool, n) \in Scopes
    BY <1>3, HasIs
  <2>5. g[Has(e, Bool, n)].ok
    BY <1>3, <1>4, <1>6, <2>2, <2>3, <2>4 DEF Moves
  <2>6. Has(e, Bool, n) = n /\ Found(e, c)
    BY <1>6, <1>11, <2>5, Wanted
  <2>7. Finish(f, ret, a, q, g[n]) = h[g[n]]
    BY <1>8, <1>13, <2>1 DEF Finish
  <2> QED BY <1>4, <1>5, <1>10, <1>13, <2>3, <2>6, <2>7
<1>14. CASE nd.op = "SDoWhile"
  <2>1. After[nd][ret][n] = Has(e, Bool, g[n])
    BY <1>2, <1>3, <1>5, <1>14, AfterParts
  <2>2. Finish(f, ret, a, q, g[n]) = Has(e, Bool, g[n])
    BY <1>5, <1>8, <1>14 DEF Finish
  <2> QED BY <1>4, <1>10, <1>14, <2>1, <2>2
<1>15. CASE nd.op = "SFor"
  <2>1. PICK e2, e3 : e2 = nd.exps[2] /\ e3 = nd.exps[3]
    OBVIOUS
  <2>2. PICK s1, s2, s3 : /\ s1 = Has(e, AnyType, n) /\ s2 = Has(e2, Bool, s1)
                          /\ s3 = Has(e3, AnyType, s2)
    OBVIOUS
  <2>3. After[nd][ret][n] = g[s3]
    BY <1>2, <1>3, <1>5, <1>15, <2>1, <2>2, AfterParts
  <2>4. s1 \in Scopes /\ s2 \in Scopes /\ s3 \in Scopes
    BY <1>3, <2>2, HasIs
  <2>5. s3.ok
    BY <1>3, <1>4, <1>6, <2>3, <2>4 DEF Moves
  <2>6. s2.ok
    BY <2>2, <2>4, <2>5, HasIs
  <2>7. s1.ok
    BY <2>2, <2>4, <2>6, HasIs
  <2>8. s1 = n /\ Found(e, c)
    BY <1>1, <1>2, <1>6, <2>2, <2>7, HeldTest, Wanted
  <2>9. s2 = n /\ Found(e2, c)
    BY <1>1, <1>2, <1>15, <2>1, <2>2, <2>6, <2>8, HeldTest, Wanted
  <2>10. s3 = n /\ Found(e3, c)
    BY <1>1, <1>2, <1>15, <2>1, <2>2, <2>5, <2>9, HeldTest, Wanted
  <2>11. Finish(f, ret, a, q, g[n]) = g[n]
    BY <1>8, <1>15 DEF Finish
  <2> QED BY <1>4, <1>5, <1>10, <1>15, <2>1, <2>3, <2>8, <2>9, <2>10, <2>11
<1> QED BY <1>12, <1>13, <1>14, <1>15

(* A declaration of a known type, which is not void.                       *)
LEMMA DeclsOrder ==
  ASSUME NEW fr, NEW nd, NEW a, NEW c, NEW F, InOrder(fr, nd, a, c, F), nd # NoStm,
         nd.op = "SDecls", NEW top, top = Append(fr, Frame(nd, 0))
  PROVE  InOrder(top, NoStm, a, c, F) /\ findBasicType(types, nd.type) # TYPE_VOID
<1>1. PICK ret, n, f, q, t : /\ ret = F.type /\ n = Now(c) /\ f = Frame(nd, 0)
                             /\ q = OuterOf(c)[Len(OuterOf(c))]
                             /\ t = findBasicType(types, nd.type)
  OBVIOUS
<1>2. nd \in Stm /\ nd.exps \in Seq(IdIn)
  <2>1. nd \in Stm
    BY DEF InOrder
  <2> QED BY <2>1, StmParts
<1>3. ret \in DOMAIN types /\ n \in Scopes /\ Value(c, nd, ret).ok
  BY <1>1, OrderFacts
<1>4. Value(c, nd, ret) = After[nd][ret][n] /\ Value(c, NoStm, ret) = n
  BY <1>1 DEF Value
<1>5. t \notin {null, TYPE_VOID} /\ After[nd][ret][n] = InTurn(EnterNames(nd.exps, t))[0][n]
  BY <1>1, <1>2, <1>3, <1>4, AfterDecls
<1>6. t \in DOMAIN types
  BY <1>1, <1>5, FindBasicType
<1>7. f \in FrameSet /\ f.stm = nd /\ f.pos = 0
  BY <1>1, <1>2 DEF Frame, FrameSet
<1>8. Fits(f, ret, a, q)
  <2>1. TypeKnown(nd) /\ 0 \in 0 .. Len(nd.exps)
    BY <1>1, <1>2, <1>6 DEF TypeKnown
  <2> QED BY <1>2, <1>3, <1>7, <2>1 DEF Fits, ScopeOps
<1>9. Finish(f, ret, a, q, n) = InTurn(EnterNames(nd.exps, t))[0][n]
  BY <1>1, <1>7 DEF Finish
<1>10. InOrder(top, NoStm, a, c, F)
  <2>1. f.stm.op \notin ScopeOps /\ NoStm \in Stm \cup {NoStm} /\ top = Append(fr, f)
    BY <1>1, <1>7 DEF ScopeOps
  <2>2. PICK nd2, sc2 : nd2 = NoStm /\ sc2 = n
    OBVIOUS
  <2>3. /\ ret = F.type /\ q = OuterOf(c)[Len(OuterOf(c))] /\ nd2 \in Stm \cup {NoStm}
        /\ sc2 \in Scopes /\ sc2 = Value(c, nd2, ret) /\ Value(c, nd, ret) = Finish(f, ret, a, q, sc2)
    BY <1>1, <1>3, <1>4, <1>5, <1>9, <2>1, <2>2
  <2>4. InOrder(top, nd2, a, c, F)
    BY ONLY InOrder(fr, nd, a, c, F), <1>7, <1>8, <2>1, <2>3, CallOrder
  <2> QED BY <2>2, <2>4
<1> QED BY <1>1, <1>5, <1>10

(* A block starts with no names of its own.                                *)
LEMMA BlockOrder ==
  ASSUME NEW fr, NEW nd, NEW a, NEW c, NEW F, InOrder(fr, nd, a, c, F), nd # NoStm,
         nd.op = "SBlock", NEW top, top = Append(fr, Frame(nd, 0)), NEW d, d = Append(c, NoMembers)
  PROVE  InOrder(top, NoStm, a, d, F)
<1>1. PICK ret, n, f : ret = F.type /\ n = Now(c) /\ f = Frame(nd, 0)
  OBVIOUS
<1>2. /\ F \in Function /\ nd \in Stm /\ nd.kids \in Seq(Stm) /\ Chain(c) /\ StackOK(fr) /\ fr # <<>>
      /\ Len(c) = 1 + ScopeCount(fr)
  <2>1. nd \in Stm
    BY DEF InOrder
  <2> QED BY <2>1, StmParts DEF InOrder
<1>3. /\ ret \in DOMAIN types /\ n \in Scopes /\ fr \in Seq(FrameSet)
      /\ Story(fr, OuterOf(c), ret, a, Value(c, nd, ret), TRUE)
      /\ OuterOf(c) \in Seq(Saved) /\ Len(OuterOf(c)) >= 1
  BY <1>1, OrderFacts
<1>4. PICK o, q, up : /\ o = OuterOf(c) /\ up = OuterOf(d)
                      /\ q = [visible |-> Table(c), local |-> DOMAIN c[Len(c)]]
  OBVIOUS
<1>5. /\ Table(d) = Table(c) /\ DOMAIN d[Len(d)] = {} /\ up = Append(o, q)
  BY <1>2, <1>4, Opened
<1>6. Chain(d) /\ Len(d) = Len(c) + 1
  <2>1. c \in Seq(Maps) /\ Len(c) \in Nat
    BY <1>2, ChainFacts
  <2> QED BY <1>2, <2>1, NoMembersMap DEF Chain
<1>7. /\ Now(d) \in Scopes /\ Now(d) = Scope(Table(c), {}, TRUE)
      /\ o \in Seq(Saved) /\ up \in Seq(Saved) /\ Len(o) \in Nat
  <2>1. Now(d) = Scope(Table(c), {}, TRUE)
    BY <1>5 DEF Now
  <2>2. Now(d) \in Scopes /\ up \in Seq(Saved)
    BY <1>4, <1>6, NowFacts
  <2>3. o \in Seq(Saved) /\ Len(o) \in Nat
    BY <1>3, <1>4
  <2> QED BY <2>1, <2>2, <2>3
<1>8. /\ Len(up) = Len(o) + 1 /\ up[Len(o) + 1] = q /\ \A j \in 1 .. Len(o) : up[j] = o[j]
      /\ up[Len(up)] = q
  BY <1>5, <1>7
<1>9. f \in FrameSet /\ f.stm = nd /\ f.pos = 0
  BY <1>1, <1>2 DEF Frame, FrameSet
<1>10. Fits(f, ret, a, q)
  <2>1. q \in Saved
    <3>1. Len(up) \in 1 .. Len(up)
      BY <1>7, <1>8
    <3> QED BY <1>7, <1>8, <3>1
  <2>2. 0 \in 0 .. Len(nd.kids) /\ TypeKnown(nd)
    BY <1>2 DEF TypeKnown
  <2> QED BY <1>2, <1>3, <1>9, <2>1, <2>2 DEF Fits
<1>11. Value(c, nd, ret) = Finish(f, ret, a, q, Now(d))
  <2>1. Value(c, nd, ret) = After[nd][ret][n]
    BY <1>1 DEF Value
  <2>2. After[nd][ret][n] =
          Scope(n.visible, n.local, InTurn(Bodies(nd.kids, ret))[0][Scope(n.visible, {}, n.ok)].ok)
    BY <1>2, <1>3, AfterBlock
  <2>3. n.visible = Table(c) /\ n.local = DOMAIN c[Len(c)] /\ n.ok = TRUE
    BY <1>1 DEF Now, Scope
  <2>4. Finish(f, ret, a, q, Now(d)) =
          Scope(q.visible, q.local, InTurn(Bodies(nd.kids, ret))[0][Now(d)].ok)
    BY <1>9 DEF Finish
  <2> QED BY <1>4, <1>7, <2>1, <2>2, <2>3, <2>4
<1>12. PICK w, b, sc2 : w = TRUE /\ b = a /\ sc2 = Now(d)
  OBVIOUS
<1>13. Story(fr, o, ret, a, Finish(f, ret, b, q, sc2), w) /\ Fits(f, ret, b, q)
  BY <1>3, <1>4, <1>10, <1>11, <1>12
<1>14. Above(f, fr, o, up) /\ sc2 \in Scopes /\ q = up[Len(up)] /\ (b = a \/ fr = <<>>)
  BY <1>7, <1>8, <1>9, <1>12 DEF Above, ScopeOps
<1>15. Story(top, up, ret, b, sc2, w)
  <2>1. top = Append(fr, f)
    BY <1>1
  <2> QED BY ONLY ZenonT(40), <1>3, <1>7, <1>9, <1>13, <1>14, <2>1, StoryCall
<1>16. /\ StackOK(top) /\ top # <<>> /\ Len(d) = 1 + ScopeCount(top)
  <2>1. f.stm.op # "DFun" /\ f.stm.op \in ScopeOps /\ TypeKnown(f.stm) /\ top = Append(fr, f)
    BY <1>1, <1>9, <1>10 DEF ScopeOps, Fits
  <2>2. StackOK(top) /\ top # <<>> /\ ScopeCount(top) = ScopeCount(fr) + 1
    BY <1>2, <1>9, <2>1, Pushed
  <2>3. ScopeCount(fr) \in Nat
    BY <1>2, ScopesFinite
  <2> QED BY <1>2, <1>6, <2>2, <2>3
<1>17. Value(d, NoStm, ret) = sc2
  BY <1>12 DEF Value
<1> QED BY <1>1, <1>2, <1>4, <1>6, <1>12, <1>15, <1>16, <1>17 DEF InOrder

(* The handler that returns next, and those below it.                      *)
LEMMA TopPopped ==
  ASSUME NEW fr, StackOK(fr), fr # <<>>, NEW f, f = fr[Len(fr)],
         NEW front, front = SubSeq(fr, 1, Len(fr) - 1)
  PROVE  /\ StackOK(front) /\ ScopeCount(front) \in Nat
         /\ f \in FrameSet /\ TypeKnown(f.stm)
         /\ f.stm.op = "DFun" <=> front = <<>>
         /\ fr = Append(front, f)
         /\ f.stm.op \in ScopeOps => ScopeCount(fr) = ScopeCount(front) + 1
         /\ f.stm.op \notin ScopeOps => ScopeCount(fr) = ScopeCount(front)
  BY Popped

(* The handler on top goes on, in the same scopes, and leaves as much to   *)
(* do as there was.                                                        *)
LEMMA OnOrder ==
  ASSUME NEW fr, NEW a, NEW c, NEW F, InOrder(fr, NoStm, a, c, F), NEW ret, ret = F.type,
         NEW q, q = OuterOf(c)[Len(OuterOf(c))], NEW f, f = fr[Len(fr)],
         NEW g \in FrameSet, NEW a2, NEW d, Chain(d), Len(d) = Len(c), OuterOf(d) = OuterOf(c),
         NEW nd \in Stm \cup {NoStm}, NEW sc2 \in Scopes, sc2 = Value(d, nd, ret),
         Continues(f, g, ret, a, a2, q, Now(c), sc2),
         NEW top, top = Append(SubSeq(fr, 1, Len(fr) - 1), g)
  PROVE  InOrder(top, nd, a2, d, F)
<1>1. PICK o, w, sc, front : /\ o = OuterOf(c) /\ w = TRUE /\ sc = Now(c)
                             /\ front = SubSeq(fr, 1, Len(fr) - 1)
  OBVIOUS
<1>2. /\ F \in Function /\ StackOK(fr) /\ fr # <<>> /\ Len(c) = 1 + ScopeCount(fr)
      /\ o \in Seq(Saved) /\ sc \in Scopes /\ Story(fr, o, ret, a, sc, w)
  <2>1. Value(c, NoStm, ret) = sc
    BY <1>1 DEF Value
  <2> QED BY <1>1, <2>1, OrderFacts DEF InOrder
<1>3. q = o[Len(o)] /\ Continues(f, g, ret, a, a2, q, sc, sc2)
  BY <1>1
<1>4. Story(Append(SubSeq(fr, 1, Len(fr) - 1), g), o, ret, a2, sc2, w)
  BY ONLY <1>2, <1>3, f = fr[Len(fr)], g \in FrameSet, sc2 \in Scopes, StoryOn
<1>5. /\ StackOK(front) /\ ScopeCount(front) \in Nat
      /\ f.stm.op = "DFun" <=> front = <<>>
      /\ f.stm.op \in ScopeOps => ScopeCount(fr) = ScopeCount(front) + 1
      /\ f.stm.op \notin ScopeOps => ScopeCount(fr) = ScopeCount(front)
  <2>1. StackOK(fr) /\ fr # <<>> /\ f = fr[Len(fr)] /\ front = SubSeq(fr, 1, Len(fr) - 1)
    BY <1>1, <1>2
  <2>2. StackOK(front)
    BY ONLY <2>1, TopPopped
  <2>3. ScopeCount(front) \in Nat
    BY ONLY <2>1, TopPopped
  <2>4. f.stm.op = "DFun" <=> front = <<>>
    BY ONLY <2>1, TopPopped
  <2>5. f.stm.op \in ScopeOps => ScopeCount(fr) = ScopeCount(front) + 1
    BY ONLY <2>1, TopPopped
  <2>6. f.stm.op \notin ScopeOps => ScopeCount(fr) = ScopeCount(front)
    BY ONLY <2>1, TopPopped
  <2> QED BY <2>2, <2>3, <2>4, <2>5, <2>6
<1>6. /\ g.stm = f.stm /\ TypeKnown(g.stm)
  BY <1>3 DEF Continues, Fits
<1>7. /\ StackOK(top) /\ top # <<>>
      /\ g.stm.op \in ScopeOps => ScopeCount(top) = ScopeCount(front) + 1
      /\ g.stm.op \notin ScopeOps => ScopeCount(top) = ScopeCount(front)
  BY <1>1, <1>5, <1>6, Pushed
<1>8. ScopeCount(top) = ScopeCount(fr)
  BY <1>5, <1>6, <1>7
<1> QED BY <1>1, <1>2, <1>4, <1>7, <1>8 DEF InOrder

(* The handler on top.                                                     *)
LEMMA OrderTop ==
  ASSUME NEW fr, NEW nd, NEW a, NEW c, NEW F, InOrder(fr, nd, a, c, F), NEW f, f = fr[Len(fr)]
  PROVE  /\ f \in FrameSet /\ f.pos \in Nat /\ TypeKnown(f.stm)
         /\ f.stm.op # "DFun" => f.stm \in Stm
         /\ f.stm.op = "DFun" => f.stm \in Function
         /\ f.stm.op = "DFun" <=> Len(fr) = 1
         /\ f.stm.op = "DFun" <=> SubSeq(fr, 1, Len(fr) - 1) = <<>>
<1>1. StackOK(fr) /\ fr # <<>> /\ fr \in Seq(FrameSet) /\ Len(fr) \in Nat /\ Len(fr) >= 1
  BY OrderFacts DEF InOrder
<1>2. f \in FrameSet /\ TypeKnown(f.stm) /\ (f.stm.op = "DFun" <=> SubSeq(fr, 1, Len(fr) - 1) = <<>>)
  BY <1>1, Popped
<1>3. Len(fr) \in 1 .. Len(fr)
  BY <1>1
<1>4. f.stm.op = "DFun" <=> Len(fr) = 1
  BY <1>1, <1>3 DEF StackOK
<1>5. f.stm \in Stm \cup Function /\ f.pos \in Nat
  BY <1>2 DEF FrameSet
<1> QED BY <1>2, <1>4, <1>5, StmParts, FunParts

(* A list goes on to its next statement.                                   *)
LEMMA NextOrder ==
  ASSUME NEW fr, NEW a, NEW c, NEW F, InOrder(fr, NoStm, a, c, F), NEW f, f = fr[Len(fr)],
         f.stm.op \in {"DFun", "SBlock"}, f.pos < Len(f.stm.kids),
         f.stm.op = "DFun" => a = Len(f.stm.args),
         NEW g, g = [f EXCEPT !.pos = @ + 1],
         NEW top, top = Append(SubSeq(fr, 1, Len(fr) - 1), g)
  PROVE  InOrder(top, f.stm.kids[f.pos + 1], a, c, F)
<1>1. PICK ret, q, n, s, kid :
        /\ ret = F.type /\ n = Now(c) /\ q = OuterOf(c)[Len(OuterOf(c))]
        /\ s = f.stm /\ kid = s.kids[f.pos + 1]
  OBVIOUS
<1>2. /\ n \in Scopes /\ Fits(f, ret, a, q) /\ f \in FrameSet /\ ret \in DOMAIN types
      /\ f.stm.op # "DFun" => f.stm \in Stm
      /\ f.stm.op = "DFun" => f.stm \in Function
  BY <1>1, OrderFacts, OrderTop
<1>3. g \in FrameSet /\ g.stm = s /\ g.pos = f.pos + 1 /\ f.pos \in Nat
  BY <1>1, <1>2, NextFrame
<1>4. s.kids \in Seq(Stm)
  BY <1>1, <1>2, StmParts, FunParts
<1>5. kid \in Stm /\ kid # NoStm
  BY SMTT(40), <1>1, <1>3, <1>4, TypeCheckAssumption
<1>6. PICK bs, sc : bs = Bodies(s.kids, ret) /\ sc = After[kid][ret][n]
  OBVIOUS
<1>7. /\ bs \in Seq(Moves) /\ Len(bs) = Len(s.kids) /\ bs[f.pos + 1] = After[kid][ret]
  <2>1. f.pos + 1 \in 1 .. Len(s.kids)
    BY SMTT(40), <1>1, <1>3, <1>4
  <2> QED BY <1>1, <1>2, <1>4, <1>6, <2>1, BodiesAre
<1>8. /\ InTurn(bs)[f.pos][n] = InTurn(bs)[f.pos + 1][sc] /\ sc \in Scopes
  <2>1. PICK k : k = f.pos
    OBVIOUS
  <2>2. bs \in Seq(Moves) /\ k \in Nat /\ k < Len(bs) /\ n \in Scopes
    BY <1>1, <1>2, <1>3, <1>7, <2>1
  <2>3. InTurn(bs)[k][n] = InTurn(bs)[k + 1][bs[k + 1][n]] /\ bs[k + 1][n] \in Scopes
    BY ONLY <2>2, OneStep
  <2> QED BY <1>6, <1>7, <2>1, <2>3
<1>9. Value(c, kid, ret) = sc
  BY <1>1, <1>5, <1>6 DEF Value
<1>10. Fits(g, ret, a, q)
  <2>1. g.pos \in 0 .. Len(s.kids)
    BY SMTT(40), <1>1, <1>3, <1>4
  <2> QED BY <1>1, <1>2, <1>3, <2>1 DEF Fits
<1>11. Finish(f, ret, a, q, n) = Finish(g, ret, a, q, sc)
  <2>1. CASE s.op = "SBlock"
    BY <1>1, <1>3, <1>6, <1>8, <2>1 DEF Finish
  <2>2. CASE s.op = "DFun"
    <3>1. PICK as : as = EnterArgs(s.args)
      OBVIOUS
    <3>2. as \in Seq(Moves) /\ Len(as) = Len(s.args)
      BY <1>1, <1>2, <2>2, <3>1, FunParts, EnterArgsMoves
    <3>3. InTurn(as)[a][n] = n /\ InTurn(as)[a][sc] = sc
      <4>1. \A t \in Scopes : InTurn(as)[Len(as)][t] = t
        BY <3>2, InTurnIs
      <4>2. a = Len(as)
        BY <1>1, <2>2, <3>2
      <4> QED BY <1>2, <1>8, <4>1, <4>2
    <3>4. Finish(f, ret, a, q, n) = InTurn(bs)[f.pos][InTurn(as)[a][n]]
      BY <1>1, <1>6, <2>2, <3>1 DEF Finish
    <3>5. Finish(g, ret, a, q, sc) = InTurn(bs)[f.pos + 1][InTurn(as)[a][sc]]
      BY <1>3, <1>6, <2>2, <3>1 DEF Finish
    <3> QED BY <1>8, <3>3, <3>4, <3>5
  <2> QED BY <1>1, <2>1, <2>2
<1>12. Continues(f, g, ret, a, a, q, Now(c), sc)
  BY <1>1, <1>3, <1>10, <1>11 DEF Continues
<1>13. Chain(c)
  BY DEF InOrder
<1>14. InOrder(top, kid, a, c, F)
  <2>1. PICK sc2, nd : sc2 = sc /\ nd = kid
    OBVIOUS
  <2>2. /\ ret = F.type /\ q = OuterOf(c)[Len(OuterOf(c))] /\ nd \in Stm \cup {NoStm}
        /\ sc2 \in Scopes /\ sc2 = Value(c, nd, ret) /\ Continues(f, g, ret, a, a, q, Now(c), sc2)
        /\ g \in FrameSet /\ Chain(c) /\ top = Append(SubSeq(fr, 1, Len(fr) - 1), g)
    BY <1>1, <1>3, <1>5, <1>8, <1>9, <1>12, <1>13, <2>1
  <2>3. InOrder(top, nd, a, c, F)
    BY ONLY InOrder(fr, NoStm, a, c, F), f = fr[Len(fr)], <2>2, OnOrder
  <2> QED BY <2>1, <2>3
<1> QED BY <1>1, <1>14

(* An if goes on to its else branch.                                       *)
LEMMA ElseOrder ==
  ASSUME NEW fr, NEW a, NEW c, NEW F, InOrder(fr, NoStm, a, c, F), NEW f, f = fr[Len(fr)],
         f.stm.op = "SIfElse", f.pos = 1,
         NEW g, g = [f EXCEPT !.pos = @ + 1],
         NEW top, top = Append(SubSeq(fr, 1, Len(fr) - 1), g)
  PROVE  InOrder(top, f.stm.kids[2], a, c, F)
<1>1. PICK ret, q, n, kid :
        /\ ret = F.type /\ n = Now(c) /\ q = OuterOf(c)[Len(OuterOf(c))]
        /\ kid = f.stm.kids[2]
  OBVIOUS
<1>2. /\ n \in Scopes /\ Fits(f, ret, a, q) /\ f \in FrameSet /\ ret \in DOMAIN types
      /\ f.stm \in Stm
  BY <1>1, OrderFacts, OrderTop
<1>3. kid \in Stm /\ kid # NoStm
  BY <1>1, <1>2, StmParts, TypeCheckAssumption
<1>4. g \in FrameSet /\ g.stm = f.stm /\ g.pos = 2
  BY <1>2, NextFrame
<1>5. PICK sc : sc = After[kid][ret][n]
  OBVIOUS
<1>6. sc \in Scopes
  <2>1. After[kid][ret] \in Moves
    BY <1>2, <1>3, AfterAt
  <2> QED BY <1>2, <1>5, <2>1 DEF Moves
<1>7. Value(c, kid, ret) = sc
  BY <1>1, <1>3, <1>5 DEF Value
<1>8. Fits(g, ret, a, q)
  BY <1>2, <1>4 DEF Fits, ScopeOps
<1>9. Finish(f, ret, a, q, n) = sc /\ Finish(g, ret, a, q, sc) = sc
  <2>1. Finish(f, ret, a, q, n) = sc
    BY <1>1, <1>5 DEF Finish
  <2>2. Finish(g, ret, a, q, sc) = sc
    BY <1>4 DEF Finish
  <2> QED BY <2>1, <2>2
<1>10. Continues(f, g, ret, a, a, q, Now(c), sc)
  BY <1>1, <1>4, <1>8, <1>9 DEF Continues
<1>11. Chain(c)
  BY DEF InOrder
<1>12. InOrder(top, kid, a, c, F)
  BY <1>1, <1>3, <1>4, <1>6, <1>7, <1>10, <1>11, OnOrder
<1> QED BY <1>1, <1>12

(* The scope of a chain of which the last map gets a new name.             *)
NamedIn(c, d, x, t) ==
  /\ OuterOf(d) = OuterOf(c) /\ Now(d) = Enter(Now(c), x, t)
  /\ Chain(d) /\ Len(d) = Len(c)

LEMMA Named ==
  ASSUME NEW c, Chain(c), NEW x \in Id, NEW t \in DOMAIN types, x \notin DOMAIN c[Len(c)],
         NEW d, d = [c EXCEPT ![Len(c)] = Emplace(c[Len(c)], x, t)]
  PROVE  NamedIn(c, d, x, t)
<1>1. OuterOf(d) = OuterOf(c) /\ Now(d) = Enter(Now(c), x, t)
  BY NameEntered, ZenonT(40)
<1>2. PICK m, e : m = c[Len(c)] /\ e = Emplace(m, x, t)
  OBVIOUS
<1>3. c \in Seq(Maps) /\ Len(c) \in Nat /\ Len(c) >= 1 /\ m \in Maps
  BY <1>2, ChainFacts
<1>4. e \in Maps
  <2>1. x \notin DOMAIN m
    BY <1>2
  <2> QED BY <1>2, <1>3, <2>1, EmplaceMap
<1>5. d = [c EXCEPT ![Len(c)] = e]
  BY <1>2
<1>6. d \in Seq(Maps) /\ Len(d) = Len(c)
  BY <1>3, <1>4, <1>5
<1> QED BY <1>1, <1>3, <1>6 DEF Chain, NamedIn

(* ... to something that is well.                                          *)
LEMMA OnHolds ==
  ASSUME NEW fr, NEW a, NEW c, NEW F, InOrder(fr, NoStm, a, c, F), NEW ret, ret = F.type,
         NEW q, q = OuterOf(c)[Len(OuterOf(c))], NEW f, f = fr[Len(fr)],
         NEW g \in FrameSet, NEW a2, NEW sc2 \in Scopes,
         Continues(f, g, ret, a, a2, q, Now(c), sc2)
  PROVE  sc2.ok
<1>1. PICK o, w, sc, top : /\ o = OuterOf(c) /\ w = TRUE /\ sc = Now(c)
                           /\ top = Append(SubSeq(fr, 1, Len(fr) - 1), g)
  OBVIOUS
<1>2. /\ StackOK(fr) /\ fr # <<>> /\ o \in Seq(Saved) /\ sc \in Scopes /\ Story(fr, o, ret, a, sc, w)
  <2>1. Value(c, NoStm, ret) = sc
    BY <1>1 DEF Value
  <2> QED BY <1>1, <2>1, OrderFacts DEF InOrder
<1>3. q = o[Len(o)] /\ Continues(f, g, ret, a, a2, q, sc, sc2)
  BY <1>1
<1>4. Story(Append(SubSeq(fr, 1, Len(fr) - 1), g), o, ret, a2, sc2, w)
  BY ONLY <1>2, <1>3, f = fr[Len(fr)], g \in FrameSet, sc2 \in Scopes, StoryOn
<1>5. Len(top) \in Nat
  <2>1. PICK front : front = SubSeq(fr, 1, Len(fr) - 1)
    OBVIOUS
  <2>2. StackOK(front)
    BY ONLY <1>2, <2>1, TopPopped
  <2>3. front \in Seq(FrameSet)
    BY <2>2 DEF StackOK
  <2> QED BY <1>1, <2>1, <2>3
<1>6. Story(top, o, ret, a2, sc2, w)
  BY <1>1, <1>4
<1> QED BY <1>1, <1>5, <1>6, StoryFails

(* An argument has a name of its own.                                      *)
NewArg(one, c, fr, a, d, F) ==
  /\ one.name \in Id /\ one.type \in DOMAIN types \ {TYPE_VOID}
  /\ one.name \notin DOMAIN c[Len(c)]
  /\ InOrder(fr, NoStm, a + 1, d, F)

LEMMA ArgOrder ==
  ASSUME NEW fr, NEW a, NEW c, NEW F, InOrder(fr, NoStm, a, c, F), Len(fr) = 1,
         NEW s, s = fr[1].stm, a < Len(s.args), NEW one, one = s.args[a + 1],
         NEW d, d = [c EXCEPT ![Len(c)] = Emplace(c[Len(c)], one.name, one.type)]
  PROVE  NewArg(one, c, fr, a, d, F)
<1>1. PICK ret, q, f, n : /\ ret = F.type /\ f = fr[Len(fr)] /\ n = Now(c)
                          /\ q = OuterOf(c)[Len(OuterOf(c))]
  OBVIOUS
<1>2. /\ n \in Scopes /\ Fits(f, ret, a, q) /\ f \in FrameSet /\ ret \in DOMAIN types
      /\ s = f.stm /\ f.stm.op = "DFun" /\ s \in Function
  BY <1>1, OrderFacts, OrderTop
<1>3. Chain(c) /\ n.local = DOMAIN c[Len(c)] /\ StackOK(fr) /\ fr # <<>>
  <2>1. Chain(c) /\ StackOK(fr) /\ fr # <<>>
    BY DEF InOrder
  <2> QED BY <1>1, <2>1, NowFacts
<1>4. PICK A : A = [name : Id, type : DOMAIN types \ {TYPE_VOID}]
  OBVIOUS
<1>5. s.args \in Seq(A) /\ Len(s.args) \in Nat /\ a \in 0 .. Len(s.args)
  <2>1. s.args \in Seq([name : Id, type : DOMAIN types \ {TYPE_VOID}])
    BY <1>2, FunParts
  <2>2. s.args \in Seq(A)
    BY <1>4, <2>1
  <2> QED BY <1>2, <2>2 DEF Fits
<1>6. a \in Nat /\ a + 1 \in 1 .. Len(s.args) /\ a + 1 \in 0 .. Len(s.args) /\ one \in A
  BY <1>5
<1>7. one.name \in Id /\ one.type \in DOMAIN types \ {TYPE_VOID}
  BY <1>4, <1>6
<1>8. PICK as, bs, g : /\ as = EnterArgs(s.args)
                       /\ bs = InTurn(Bodies(s.kids, ret))[f.pos]
                       /\ g = Enter(n, one.name, one.type)
  OBVIOUS
<1>9. /\ as \in Seq(Moves) /\ Len(as) = Len(s.args) /\ as[a + 1][n] = g
  <2>1. s.args \in Seq([name : Id, type : DOMAIN types \ {TYPE_VOID}])
    BY <1>2, FunParts
  <2>2. /\ as \in Seq(Moves) /\ Len(as) = Len(s.args)
        /\ \A k \in 1 .. Len(s.args) : \A sc \in Scopes :
             as[k][sc] = Enter(sc, s.args[k].name, s.args[k].type)
    BY <1>8, <2>1, EnterArgsMoves
  <2> QED BY <1>2, <1>6, <1>8, <2>2
<1>10. InTurn(as)[a][n] = InTurn(as)[a + 1][g] /\ g \in Scopes
  <2>1. as \in Seq(Moves) /\ a \in Nat /\ a < Len(as) /\ n \in Scopes
    BY <1>2, <1>6, <1>9
  <2>2. InTurn(as)[a][n] = InTurn(as)[a + 1][as[a + 1][n]] /\ as[a + 1][n] \in Scopes
    BY ONLY <2>1, OneStep
  <2> QED BY <1>9, <2>2
<1>11. Finish(f, ret, a, q, n) = Finish(f, ret, a + 1, q, g)
  <2>1. /\ Finish(f, ret, a, q, n) = bs[InTurn(as)[a][n]]
        /\ Finish(f, ret, a + 1, q, g) = bs[InTurn(as)[a + 1][g]]
    BY <1>2, <1>8 DEF Finish
  <2> QED BY <1>10, <2>1
<1>12. PICK b : b = a + 1
  OBVIOUS
<1>13. Fits(f, ret, b, q)
  BY <1>2, <1>6, <1>12 DEF Fits
<1>14. Continues(f, f, ret, a, b, q, Now(c), g)
  BY <1>1, <1>2, <1>11, <1>12, <1>13 DEF Continues
<1>15. g.ok
  BY <1>1, <1>2, <1>10, <1>14, OnHolds
<1>16. one.name \notin DOMAIN c[Len(c)]
  <2>1. PICK x, t : x = one.name /\ t = one.type
    OBVIOUS
  <2>2. n \in Scopes /\ x \in Id /\ t \in DOMAIN types
    BY <1>2, <1>7, <2>1
  <2>3. Enter(n, x, t).ok => x \notin n.local
    BY ONLY <2>2, EnterIs
  <2> QED BY <1>3, <1>8, <1>15, <2>1, <2>3
<1>17. OuterOf(d) = OuterOf(c) /\ Now(d) = g /\ Chain(d) /\ Len(d) = Len(c)
  <2>1. PICK x, t : x = one.name /\ t = one.type
    OBVIOUS
  <2>2. /\ Chain(c) /\ x \in Id /\ t \in DOMAIN types /\ x \notin DOMAIN c[Len(c)]
        /\ d = [c EXCEPT ![Len(c)] = Emplace(c[Len(c)], x, t)]
    BY <1>3, <1>7, <1>16, <2>1
  <2>3. /\ OuterOf(d) = OuterOf(c) /\ Now(d) = Enter(Now(c), x, t)
        /\ Chain(d) /\ Len(d) = Len(c)
    <3>1. NamedIn(c, d, x, t)
      BY ONLY <2>2, Named
    <3> QED BY ONLY <3>1 DEF NamedIn
  <2> QED BY <1>1, <1>8, <2>1, <2>3
<1>18. Value(d, NoStm, ret) = g
  BY <1>17 DEF Value
<1>19. fr = Append(SubSeq(fr, 1, Len(fr) - 1), f)
  BY <1>1, <1>3, TopPopped
<1>20. InOrder(fr, NoStm, b, d, F)
  <2>1. PICK sc2, nd : sc2 = g /\ nd = NoStm
    OBVIOUS
  <2>2. /\ ret = F.type /\ q = OuterOf(c)[Len(OuterOf(c))] /\ nd \in Stm \cup {NoStm}
        /\ sc2 \in Scopes /\ sc2 = Value(d, nd, ret) /\ Continues(f, f, ret, a, b, q, Now(c), sc2)
        /\ f \in FrameSet /\ f = fr[Len(fr)] /\ Chain(d) /\ Len(d) = Len(c) /\ OuterOf(d) = OuterOf(c)
    BY <1>1, <1>2, <1>10, <1>14, <1>17, <1>18, <2>1
  <2>3. InOrder(fr, nd, b, d, F)
    BY ONLY InOrder(fr, NoStm, a, c, F), <1>19, <2>2, OnOrder
  <2> QED BY <2>1, <2>3
<1> QED BY <1>7, <1>12, <1>16, <1>20 DEF NewArg

(* A name that is declared finds its initialiser's variable, and is new.   *)
NewId(id, t, c, top, a, d, F) ==
  /\ id \in IdIn /\ id.name \in Id /\ t \in DOMAIN types
  /\ id.name \notin DOMAIN c[Len(c)]
  /\ id.init # NoInit => Found(id.init, c)
  /\ InOrder(top, NoStm, a, d, F)

LEMMA IdOrder ==
  ASSUME NEW fr, NEW a, NEW c, NEW F, InOrder(fr, NoStm, a, c, F), NEW f, f = fr[Len(fr)],
         NEW s, s = f.stm, s.op = "SDecls", f.pos < Len(s.exps),
         NEW id, id = s.exps[f.pos + 1], NEW t, t = findBasicType(types, s.type),
         NEW g, g = [f EXCEPT !.pos = @ + 1],
         NEW top, top = Append(SubSeq(fr, 1, Len(fr) - 1), g),
         NEW d, d = [c EXCEPT ![Len(c)] = Emplace(c[Len(c)], id.name, t)]
  PROVE  NewId(id, t, c, top, a, d, F)
<1>1. PICK ret, q, n : /\ ret = F.type /\ n = Now(c) /\ q = OuterOf(c)[Len(OuterOf(c))]
  OBVIOUS
<1>2. /\ n \in Scopes /\ Fits(f, ret, a, q) /\ f \in FrameSet /\ ret \in DOMAIN types
      /\ s \in Stm /\ TypeKnown(s) /\ f.pos \in Nat
  BY <1>1, OrderFacts, OrderTop
<1>3. Chain(c) /\ n.local = DOMAIN c[Len(c)]
  <2>1. Chain(c)
    BY DEF InOrder
  <2> QED BY <1>1, <2>1, NowFacts
<1>4. g \in FrameSet /\ g.stm = s /\ g.pos = f.pos + 1
  BY <1>2, NextFrame
<1>5. s.exps \in Seq(IdIn) /\ t \in DOMAIN types
  BY <1>2, StmParts DEF TypeKnown
<1>6. f.pos + 1 \in 1 .. Len(s.exps) /\ id \in IdIn
  <2>1. PICK es, k : es = s.exps /\ k = f.pos + 1
    OBVIOUS
  <2>2. es \in Seq(IdIn) /\ k \in 1 .. Len(es)
    BY ONLY <1>2, <1>5, <2>1, f.pos < Len(s.exps)
  <2>3. es[k] \in IdIn
    BY ONLY <2>2
  <2> QED BY ONLY <2>1, <2>2, <2>3, id = s.exps[f.pos + 1]
<1>7. id.name \in Id /\ (id.init # NoInit => id.init \in Exp)
  BY <1>6 DEF IdIn
<1>8. PICK steps, sc : steps = EnterNames(s.exps, t) /\ sc = EnterIdIn(n, id, t)
  OBVIOUS
<1>9. steps \in Seq(Moves) /\ Len(steps) = Len(s.exps) /\ steps[f.pos + 1][n] = sc
  BY ZenonT(40), <1>2, <1>5, <1>6, <1>8, EnterNamesMoves
<1>10. InTurn(steps)[f.pos][n] = InTurn(steps)[f.pos + 1][sc] /\ sc \in Scopes
  <2>1. PICK k : k = f.pos
    OBVIOUS
  <2>2. steps \in Seq(Moves) /\ k \in Nat /\ k < Len(steps) /\ n \in Scopes
    BY <1>2, <1>9, <2>1
  <2>3. InTurn(steps)[k][n] = InTurn(steps)[k + 1][steps[k + 1][n]] /\ steps[k + 1][n] \in Scopes
    BY ONLY <2>2, OneStep
  <2> QED BY <1>9, <2>1, <2>3
<1>11. Finish(f, ret, a, q, n) = Finish(g, ret, a, q, sc)
  BY <1>4, <1>8, <1>10 DEF Finish
<1>12. Fits(g, ret, a, q)
  <2>1. g.pos \in 0 .. Len(s.exps)
    BY <1>2, <1>4, <1>5, <1>6
  <2>2. s.op \notin ScopeOps /\ s.op # "DFun"
    BY DEF ScopeOps
  <2> QED BY <1>2, <1>4, <2>1, <2>2 DEF Fits
<1>13. Continues(f, g, ret, a, a, q, Now(c), sc)
  BY <1>1, <1>4, <1>11, <1>12 DEF Continues
<1>14. sc.ok
  BY <1>1, <1>4, <1>10, <1>13, OnHolds
<1>15. /\ id.name \notin n.local
       /\ id.init # NoInit => TypeIn(id.init, n) \in Becomes(t)
       /\ sc = Enter(n, id.name, t)
  BY <1>2, <1>5, <1>6, <1>8, <1>14, EnterIdIs
<1>16. id.init # NoInit => Found(id.init, c)
  <2>1. SUFFICES ASSUME id.init # NoInit PROVE Found(id.init, c)
    OBVIOUS
  <2>2. PICK e, want : e = id.init /\ want = Becomes(t)
    OBVIOUS
  <2>3. Chain(c) /\ e \in Exp /\ want \subseteq DOMAIN types /\ TypeIn(e, Now(c)) \in want
    BY <1>1, <1>3, <1>7, <1>15, <2>1, <2>2, Wanted
  <2>4. Found(e, c)
    BY ONLY <2>3, TypedIsFound
  <2> QED BY <2>2, <2>4
<1>17. OuterOf(d) = OuterOf(c) /\ Now(d) = sc /\ Chain(d) /\ Len(d) = Len(c)
  <2>1. PICK x : x = id.name
    OBVIOUS
  <2>2. /\ Chain(c) /\ x \in Id /\ t \in DOMAIN types /\ x \notin DOMAIN c[Len(c)]
        /\ d = [c EXCEPT ![Len(c)] = Emplace(c[Len(c)], x, t)]
    BY <1>3, <1>5, <1>7, <1>15, <2>1
  <2>3. /\ OuterOf(d) = OuterOf(c) /\ Now(d) = Enter(Now(c), x, t)
        /\ Chain(d) /\ Len(d) = Len(c)
    <3>1. NamedIn(c, d, x, t)
      BY ONLY <2>2, Named
    <3> QED BY ONLY <3>1 DEF NamedIn
  <2> QED BY <1>1, <1>15, <2>1, <2>3
<1>18. Value(d, NoStm, ret) = sc
  BY <1>17 DEF Value
<1>19. InOrder(top, NoStm, a, d, F)
  <2>1. PICK sc2, nd, b : sc2 = sc /\ nd = NoStm /\ b = a
    OBVIOUS
  <2>2. /\ ret = F.type /\ q = OuterOf(c)[Len(OuterOf(c))] /\ nd \in Stm \cup {NoStm}
        /\ sc2 \in Scopes /\ sc2 = Value(d, nd, ret) /\ Continues(f, g, ret, a, b, q, Now(c), sc2)
        /\ g \in FrameSet /\ Chain(d) /\ Len(d) = Len(c) /\ OuterOf(d) = OuterOf(c)
        /\ top = Append(SubSeq(fr, 1, Len(fr) - 1), g)
    BY <1>1, <1>4, <1>10, <1>13, <1>17, <1>18, <2>1
  <2>3. InOrder(top, nd, b, d, F)
    BY ONLY InOrder(fr, NoStm, a, c, F), f = fr[Len(fr)], <2>2, OnOrder
  <2> QED BY <2>1, <2>3
<1> QED BY <1>3, <1>5, <1>6, <1>7, <1>15, <1>16, <1>19 DEF NewId

(* A handler without a scope of its own returns, when nothing is left of   *)
(* what it was called for but what holds.                                  *)
LEMMA ReturnOrder ==
  ASSUME NEW fr, NEW a, NEW c, NEW F, InOrder(fr, NoStm, a, c, F), NEW ret, ret = F.type,
         NEW q, q = OuterOf(c)[Len(OuterOf(c))], NEW f, f = fr[Len(fr)], f.stm.op \notin ScopeOps,
         NEW front, front = SubSeq(fr, 1, Len(fr) - 1)
  PROVE  /\ Finish(f, ret, a, q, Now(c)).ok
         /\ Finish(f, ret, a, q, Now(c)) = Now(c) => InOrder(front, NoStm, a, c, F)
<1>1. PICK o, w, sc, b : o = OuterOf(c) /\ w = TRUE /\ sc = Now(c) /\ b = a
  OBVIOUS
<1>2. /\ F \in Function /\ StackOK(fr) /\ fr # <<>> /\ Chain(c) /\ Len(c) = 1 + ScopeCount(fr)
      /\ o \in Seq(Saved) /\ sc \in Scopes /\ Story(fr, o, ret, a, sc, w) /\ Fits(f, ret, a, q)
  <2>1. Value(c, NoStm, ret) = sc
    BY <1>1 DEF Value
  <2> QED BY <1>1, <2>1, OrderFacts DEF InOrder
<1>3. StackOK(fr) /\ fr # <<>> /\ f = fr[Len(fr)] /\ front = SubSeq(fr, 1, Len(fr) - 1)
  BY <1>2
<1>4. StackOK(front) /\ f \in FrameSet /\ fr = Append(front, f)
  <2>1. StackOK(front)
    BY ONLY <1>3, TopPopped
  <2>2. f \in FrameSet
    BY ONLY <1>3, TopPopped
  <2>3. fr = Append(front, f)
    BY ONLY <1>3, TopPopped
  <2> QED BY <2>1, <2>2, <2>3
<1>5. front # <<>> /\ ScopeCount(fr) = ScopeCount(front)
  <2>1. f.stm.op = "DFun" <=> front = <<>>
    BY ONLY <1>3, TopPopped
  <2>2. f.stm.op \notin ScopeOps => ScopeCount(fr) = ScopeCount(front)
    BY ONLY <1>3, TopPopped
  <2> QED BY <2>1, <2>2 DEF ScopeOps
<1>6. front \in Seq(FrameSet) /\ Len(front) \in Nat
  BY <1>4, ScopesFinite
<1>7. Above(f, front, o, o)
  BY <1>5 DEF Above
<1>8. PICK sc2 : sc2 = Finish(f, ret, a, q, sc)
  OBVIOUS
<1>9. sc2 \in Scopes
  BY <1>2, <1>8, FinishMoves
<1>10. Story(front, o, ret, b, sc2, w)
  <2>1. /\ front \in Seq(FrameSet) /\ o \in Seq(Saved) /\ f \in FrameSet /\ sc \in Scopes
        /\ (a = b \/ front = <<>>) /\ q = o[Len(o)] /\ fr = Append(front, f)
    BY <1>1, <1>2, <1>4, <1>6
  <2>2. Story(fr, o, ret, a, sc, w) => Story(front, o, ret, b, Finish(f, ret, a, q, sc), w)
    BY ONLY <1>7, <2>1, StoryCall
  <2> QED BY <1>2, <1>8, <2>2
<1>11. sc2.ok
  BY <1>1, <1>6, <1>9, <1>10, StoryFails
<1>12. ASSUME sc2 = sc
       PROVE  InOrder(front, NoStm, a, c, F)
  <2>1. Value(c, NoStm, ret) = sc2
    BY <1>1, <1>12 DEF Value
  <2> QED BY <1>1, <1>2, <1>4, <1>5, <1>10, <2>1 DEF InOrder
<1> QED BY <1>1, <1>8, <1>11, <1>12

(* All handlers that end without a scope of their own.                     *)
LEMMA EndOrder ==
  ASSUME NEW fr, NEW a, NEW c, NEW F, InOrder(fr, NoStm, a, c, F), NEW f, f = fr[Len(fr)],
         \/ f.stm.op \in {"SWhile", "SFor", "SDoWhile"}
         \/ f.stm.op = "SIfElse" /\ f.pos = 2
         \/ f.stm.op = "SDecls" /\ f.pos = Len(f.stm.exps),
         NEW front, front = SubSeq(fr, 1, Len(fr) - 1)
  PROVE  /\ InOrder(front, NoStm, a, c, F)
         /\ f.stm.op = "SDoWhile" => Found(f.stm.exps[1], c)
<1>1. PICK ret, q, s, n : /\ ret = F.type /\ q = OuterOf(c)[Len(OuterOf(c))]
                          /\ s = f.stm /\ n = Now(c)
  OBVIOUS
<1>2. /\ n \in Scopes /\ f.stm.op \notin ScopeOps /\ Chain(c) /\ s \in Stm /\ TypeKnown(s)
  <2>1. f.stm.op \notin ScopeOps /\ f.stm.op # "DFun"
    BY DEF ScopeOps
  <2>2. Chain(c)
    BY DEF InOrder
  <2> QED BY <1>1, <2>1, <2>2, OrderTop, NowFacts
<1>3. Finish(f, ret, a, q, n).ok
  BY <1>1, <1>2, ReturnOrder
<1>4. /\ Finish(f, ret, a, q, n) = n
      /\ s.op = "SDoWhile" => Found(s.exps[1], c)
  <2>1. CASE s.op \in {"SWhile", "SFor"} \/ (s.op = "SIfElse" /\ f.pos = 2)
    <3>1. CASE s.op \in {"SWhile", "SFor"}
      BY <1>1, <3>1 DEF Finish
    <3>2. CASE s.op = "SIfElse" /\ f.pos = 2
      BY <1>1, <3>2 DEF Finish
    <3> QED BY <2>1, <3>1, <3>2
  <2>2. CASE s.op = "SDoWhile"
    <3>1. PICK e, want : e = s.exps[1] /\ want = Bool
      OBVIOUS
    <3>2. e \in Exp /\ want \subseteq DOMAIN types
      BY <1>2, <2>2, <3>1, StmExps, Wanted
    <3>3. Finish(f, ret, a, q, n) = Has(e, want, n)
      BY <1>1, <2>2, <3>1 DEF Finish
    <3>4. Has(e, want, Now(c)).ok
      BY <1>1, <1>3, <3>3
    <3>5. Has(e, want, Now(c)) = Now(c) /\ Found(e, c)
      BY ONLY <1>2, <3>2, <3>4, HeldTest
    <3> QED BY <1>1, <3>1, <3>3, <3>5
  <2>3. CASE s.op = "SDecls" /\ f.pos = Len(s.exps)
    <3>1. PICK t, steps : /\ t = findBasicType(types, s.type) /\ steps = EnterNames(s.exps, t)
      OBVIOUS
    <3>2. s.exps \in Seq(IdIn) /\ t \in DOMAIN types
      BY <1>2, <2>3, <3>1, StmParts DEF TypeKnown
    <3>3. steps \in Seq(Moves) /\ Len(steps) = Len(s.exps)
      BY <3>1, <3>2, EnterNamesMoves
    <3>4. InTurn(steps)[Len(steps)][n] = n
      BY <1>2, <3>3, InTurnIs
    <3>5. Finish(f, ret, a, q, n) = InTurn(steps)[f.pos][n]
      BY <1>1, <2>3, <3>1 DEF Finish
    <3> QED BY <2>3, <3>3, <3>4, <3>5
  <2> QED BY <1>1, <2>1, <2>2, <2>3
<1>5. InOrder(front, NoStm, a, c, F)
  BY <1>1, <1>2, <1>4, ReturnOrder
<1> QED BY <1>1, <1>4, <1>5

(* A block ends, with statements left or not: its scope is put back.       *)
LEMMA EndBlockOrder ==
  ASSUME NEW fr, NEW a, NEW c, NEW F, InOrder(fr, NoStm, a, c, F), NEW f, f = fr[Len(fr)],
         f.stm.op = "SBlock", NEW front, front = SubSeq(fr, 1, Len(fr) - 1),
         NEW d, d = SubSeq(c, 1, Len(c) - 1)
  PROVE  Len(c) > 1 /\ InOrder(front, NoStm, a, d, F)
<1>1. PICK ret, up, o, q, w, n, b :
        /\ ret = F.type /\ up = OuterOf(c) /\ o = OuterOf(d) /\ q = up[Len(up)]
        /\ w = TRUE /\ n = Now(c) /\ b = a
  OBVIOUS
<1>2. /\ F \in Function /\ StackOK(fr) /\ fr # <<>> /\ Chain(c) /\ Len(c) = 1 + ScopeCount(fr)
      /\ up \in Seq(Saved) /\ Len(up) = Len(c) - 1 /\ Len(up) >= 1
      /\ n \in Scopes /\ Story(fr, up, ret, a, n, w) /\ Fits(f, ret, a, q)
  <2>1. Value(c, NoStm, ret) = n
    BY <1>1 DEF Value
  <2> QED BY <1>1, <2>1, OrderFacts DEF InOrder
<1>3. StackOK(fr) /\ fr # <<>> /\ f = fr[Len(fr)] /\ front = SubSeq(fr, 1, Len(fr) - 1)
  BY <1>2
<1>4. StackOK(front) /\ f \in FrameSet /\ fr = Append(front, f)
  <2>1. StackOK(front)
    BY ONLY <1>3, TopPopped
  <2>2. f \in FrameSet
    BY ONLY <1>3, TopPopped
  <2>3. fr = Append(front, f)
    BY ONLY <1>3, TopPopped
  <2> QED BY <2>1, <2>2, <2>3
<1>5. front # <<>> /\ ScopeCount(fr) = ScopeCount(front) + 1
  <2>1. f.stm.op = "DFun" <=> front = <<>>
    BY ONLY <1>3, TopPopped
  <2>2. f.stm.op \in ScopeOps => ScopeCount(fr) = ScopeCount(front) + 1
    BY ONLY <1>3, TopPopped
  <2> QED BY <2>1, <2>2 DEF ScopeOps
<1>6. front \in Seq(FrameSet) /\ Len(front) \in Nat /\ ScopeCount(front) \in Nat
  BY <1>4, ScopesFinite
<1>7. Len(c) > 1 /\ Len(c) \in Nat /\ Len(up) \in Nat
  BY <1>2, ChainFacts
<1>8. /\ Table(d) = q.visible /\ DOMAIN d[Len(d)] = q.local
      /\ o = SubSeq(up, 1, Len(up) - 1)
  BY <1>1, <1>2, <1>7, Closed
<1>9. Chain(d) /\ Len(d) = Len(c) - 1
  <2>1. c \in Seq(Maps) /\ Len(c) - 1 \in Nat /\ Len(c) - 1 <= Len(c)
    BY <1>2, ChainFacts
  <2>2. d \in Seq(Maps) /\ Len(d) = Len(c) - 1
    BY <2>1, PrefixFacts
  <2> QED BY <1>7, <2>2 DEF Chain
<1>10. Now(d) \in Scopes /\ Now(d) = Scope(q.visible, q.local, TRUE) /\ o \in Seq(Saved)
  BY <1>1, <1>8, <1>9, NowFacts DEF Now
<1>11. Len(up) = Len(o) + 1 /\ Len(o) \in Nat /\ \A j \in 1 .. Len(o) : up[j] = o[j]
  <2>1. PICK k : k = Len(up) - 1
    OBVIOUS
  <2>2. k \in Nat /\ k <= Len(up) /\ Len(up) = k + 1
    BY <1>2, <1>7, <2>1
  <2>3. up \in Seq(Saved) /\ o = SubSeq(up, 1, k)
    BY <1>2, <1>8, <2>1
  <2>4. Len(o) = k /\ \A j \in 1 .. k : o[j] = up[j]
    BY <2>2, <2>3, PrefixFacts
  <2> QED BY <2>2, <2>4
<1>12. Above(f, front, o, up)
  BY <1>11 DEF Above, ScopeOps
<1>13. PICK sc2 : sc2 = Finish(f, ret, a, q, n)
  OBVIOUS
<1>14. sc2 \in Scopes
  BY <1>2, <1>13, FinishMoves
<1>15. Story(front, o, ret, b, sc2, w)
  <2>1. /\ front \in Seq(FrameSet) /\ o \in Seq(Saved) /\ up \in Seq(Saved) /\ f \in FrameSet
        /\ n \in Scopes /\ (a = b \/ front = <<>>) /\ q = up[Len(up)] /\ fr = Append(front, f)
    BY <1>1, <1>2, <1>4, <1>6, <1>10
  <2>2. Story(fr, up, ret, a, n, w) => Story(front, o, ret, b, Finish(f, ret, a, q, n), w)
    BY ONLY <1>12, <2>1, StoryCall
  <2> QED BY <1>2, <1>13, <2>2
<1>16. sc2.ok
  BY <1>1, <1>6, <1>14, <1>15, StoryFails
<1>17. sc2 = Now(d)
  <2>1. PICK left : left = InTurn(Bodies(f.stm.kids, ret))[f.pos][n].ok
    OBVIOUS
  <2>2. sc2 = Scope(q.visible, q.local, left)
    BY <1>13, <2>1 DEF Finish
  <2>3. sc2.ok \in BOOLEAN
    BY <1>14, ScopeParts
  <2>4. sc2.ok = TRUE /\ sc2 = [visible |-> q.visible, local |-> q.local, ok |-> left]
    BY <1>16, <2>2, <2>3 DEF Scope
  <2>5. left = TRUE
    BY <2>4
  <2> QED BY <1>10, <2>2, <2>5
<1>18. Value(d, NoStm, ret) = sc2 /\ Len(d) = 1 + ScopeCount(front)
  BY <1>2, <1>5, <1>6, <1>7, <1>9, <1>17 DEF Value
<1> QED BY <1>1, <1>2, <1>4, <1>5, <1>7, <1>9, <1>15, <1>18 DEF InOrder

(* A function ends: only the outermost map is left.                        *)
LEMMA EndFunction ==
  ASSUME NEW fr, NEW a, NEW c, NEW F, InOrder(fr, NoStm, a, c, F), NEW f, f = fr[Len(fr)],
         f.stm.op = "DFun"
  PROVE  Len(c) = 2 /\ SubSeq(fr, 1, Len(fr) - 1) = <<>>
<1>1. PICK front : front = SubSeq(fr, 1, Len(fr) - 1)
  OBVIOUS
<1>2. StackOK(fr) /\ fr # <<>> /\ f = fr[Len(fr)] /\ front = SubSeq(fr, 1, Len(fr) - 1)
  BY <1>1 DEF InOrder
<1>3. f.stm.op = "DFun" <=> front = <<>>
  BY ONLY <1>2, TopPopped
<1>4. f.stm.op \in ScopeOps => ScopeCount(fr) = ScopeCount(front) + 1
  BY ONLY <1>2, TopPopped
<1>5. ScopeFrames(front) = {}
  BY <1>3 DEF ScopeFrames
<1>6. ScopeCount(front) = 0
  BY <1>5, FS_EmptySet DEF ScopeCount
<1>7. Len(c) = 1 + ScopeCount(fr)
  BY DEF InOrder
<1> QED BY <1>1, <1>3, <1>4, <1>6, <1>7 DEF ScopeOps

(* A function that is well typed begins in order.                          *)
LEMMA BeginFunction ==
  ASSUME NEW F \in Function, WellTypedFunction(F), NEW c, c = <<NoMembers>>,
         NEW d, d = Append(c, NoMembers), NEW top, top = <<Frame(F, 0)>>
  PROVE  InOrder(top, NoStm, 0, d, F)
<1>1. PICK ret, f, q, w : /\ ret = F.type /\ f = Frame(F, 0) /\ w = TRUE
                          /\ q = [visible |-> Table(c), local |-> DOMAIN c[Len(c)]]
  OBVIOUS
<1>2. Chain(c) /\ Len(c) = 1 /\ c[1] = NoMembers
  BY NoMembersMap DEF Chain
<1>3. /\ ret \in DOMAIN types /\ F.kids \in Seq(Stm)
      /\ F.args \in Seq([name : Id, type : DOMAIN types \ {TYPE_VOID}])
      /\ F.op = "DFun"
  BY <1>1, FunParts DEF Function
<1>4. f \in FrameSet /\ f.stm = F /\ f.pos = 0
  BY <1>1 DEF Frame, FrameSet
<1>5. /\ Table(d) = Table(c) /\ DOMAIN d[Len(d)] = {} /\ OuterOf(d) = Append(OuterOf(c), q)
  BY <1>1, <1>2, Opened
<1>6. Table(c) = NoVariables
  <2>1. \A x : Holders(c, x) = {}
    BY <1>2, NoMembersMap DEF Holders
  <2> QED BY <2>1 DEF Table, findSymbol, NoVariables
<1>7. PICK o, up, n : o = OuterOf(c) /\ up = OuterOf(d) /\ n = Now(d)
  OBVIOUS
<1>8. Chain(d) /\ Len(d) = 2
  BY <1>2, NoMembersMap DEF Chain
<1>9. o \in Seq(Saved) /\ Len(o) = 0 /\ up \in Seq(Saved) /\ n \in Scopes
  BY <1>2, <1>7, <1>8, NowFacts
<1>10. o = <<>>
  BY <1>9
<1>11. up = <<q>> /\ Len(up) = 1 /\ up[1] = q /\ q \in Saved
  <2>1. up = Append(<<>>, q)
    BY <1>5, <1>7, <1>10
  <2>2. up = <<q>> /\ Len(up) = 1 /\ up[1] = q
    BY <2>1
  <2>3. 1 \in 1 .. Len(up)
    BY <2>2
  <2> QED BY <1>9, <2>2, <2>3
<1>12. n = Scope(NoVariables, {}, TRUE)
  BY <1>5, <1>6, <1>7 DEF Now
<1>13. PICK bs, as : bs = Bodies(F.kids, ret) /\ as = EnterArgs(F.args)
  OBVIOUS
<1>14. Finish(f, ret, 0, q, n) = InTurn(bs)[0][InTurn(as)[0][n]]
  BY <1>3, <1>4, <1>13 DEF Finish
<1>15. PICK sc : sc = Finish(f, ret, 0, q, n)
  OBVIOUS
<1>16. sc.ok
  BY <1>1, <1>12, <1>13, <1>14, <1>15 DEF WellTypedFunction
<1>17. Fits(f, ret, 0, q)
  <2>1. f.pos \in 0 .. Len(f.stm.kids) /\ 0 \in 0 .. Len(f.stm.args)
    <3>1. Len(F.kids) \in Nat
      BY <1>3
    <3>2. PICK A : A = [name : Id, type : DOMAIN types \ {TYPE_VOID}]
      OBVIOUS
    <3>3. F.args \in Seq(A)
      BY <1>3, <3>2
    <3>4. Len(F.args) \in Nat
      BY <3>3
    <3> QED BY <1>4, <3>1, <3>4
  <2>2. TypeKnown(F)
    BY <1>3 DEF TypeKnown
  <2> QED BY <1>3, <1>4, <1>11, <2>1, <2>2 DEF Fits
<1>18. sc \in Scopes
  BY <1>9, <1>15, <1>17, FinishMoves
<1>19. PICK fr \in Seq(FrameSet) : fr = <<>>
  <2>1. <<>> \in Seq(FrameSet)
    OBVIOUS
  <2> QED BY <2>1
<1>20. Story(fr, o, ret, 0, sc, w)
  BY <1>1, <1>10, <1>16, <1>18, <1>19, StoryEmpty
<1>21. top = Append(fr, f)
  BY <1>1, <1>19
<1>22. Above(f, fr, o, up) /\ q = up[Len(up)]
  BY <1>3, <1>4, <1>9, <1>11 DEF Above, ScopeOps
<1>23. PICK a, b : a = 0 /\ b = 0
  OBVIOUS
<1>24. Fits(f, ret, b, q) /\ Story(fr, o, ret, a, Finish(f, ret, b, q, n), w) /\ (b = a \/ fr = <<>>)
  BY <1>15, <1>17, <1>20, <1>23
<1>25. Story(top, up, ret, b, n, w)
  BY ONLY <1>4, <1>9, <1>19, <1>21, <1>22, <1>24, StoryCall, ZenonT(40)
<1>26. StackOK(top) /\ top # <<>> /\ ScopeCount(top) = 1
  <2>1. ScopeFrames(fr) = {}
    BY <1>19 DEF ScopeFrames
  <2>2. ScopeCount(fr) = 0
    BY <2>1, FS_EmptySet DEF ScopeCount
  <2>3. StackOK(fr)
    BY <1>19 DEF StackOK
  <2>4. f.stm.op \in ScopeOps /\ TypeKnown(f.stm) /\ (f.stm.op = "DFun" <=> fr = <<>>)
    BY <1>3, <1>4, <1>19 DEF ScopeOps, TypeKnown
  <2>5. StackOK(top) /\ top # <<>> /\ ScopeCount(top) = ScopeCount(fr) + 1
    BY <1>4, <1>21, <2>3, <2>4, Pushed
  <2> QED BY <2>2, <2>5
<1>27. Value(d, NoStm, ret) = n
  BY <1>7 DEF Value
<1>28. Story(top, OuterOf(d), F.type, 0, Value(d, NoStm, F.type), TRUE)
  BY <1>1, <1>7, <1>23, <1>25, <1>27
<1>29. F \in Function /\ NoStm \in Stm \cup {NoStm} /\ Chain(d) /\ Len(d) = 1 + ScopeCount(top)
  BY <1>8, <1>26
<1> QED BY ONLY <1>26, <1>28, <1>29 DEF InOrder

-----------------------------------------------------------------------------
(* The stacks of the code generator *)

IsSeq(s) == \E S : s \in Seq(S)

(* Its handlers are records; those of the typechecker for F, in the same   *)
(* positions, and the types of the symbols it knows.                       *)
Records(fr) ==
  IsSeq(fr) /\ \A i \in DOMAIN fr : fr[i] = Cg!Frame(fr[i].stm, fr[i].pos, fr[i].base)

Kept(fr, F) == [i \in DOMAIN fr |-> Frame(IF i = 1 THEN F ELSE fr[i].stm, fr[i].pos)]

Known(c) == [i \in DOMAIN c |-> [x \in DOMAIN c[i] |-> c[i][x].type]]

(* What a stack is after a push and after a pop.                           *)
IsPush(s, e, t) ==
  /\ IsSeq(t) /\ Len(s) \in Nat /\ Len(t) = Len(s) + 1
  /\ DOMAIN s = 1 .. Len(s) /\ DOMAIN t = 1 .. Len(s) + 1
  /\ t[Len(s) + 1] = e /\ \A i \in 1 .. Len(s) : t[i] = s[i]

IsPop(s, t) ==
  /\ IsSeq(t) /\ Len(s) \in Nat /\ Len(s) >= 1 /\ Len(t) = Len(s) - 1
  /\ DOMAIN s = 1 .. Len(s) /\ DOMAIN t = 1 .. Len(s) - 1
  /\ \A i \in 1 .. Len(s) - 1 : t[i] = s[i]

LEMMA Push ==
  ASSUME NEW s, IsSeq(s), NEW e, NEW t, t = Append(s, e)
  PROVE  IsPush(s, e, t)
<1>1. PICK S : s \in Seq(S)
  BY DEF IsSeq
<1>2. PICK T : T = S \cup {e}
  OBVIOUS
<1>3. s \in Seq(T)
  BY <1>1, <1>2
<1>4. e \in T
  BY <1>2
<1>5. t \in Seq(T)
  BY <1>3, <1>4
<1>6. IsSeq(t)
  BY <1>5 DEF IsSeq
<1> QED BY <1>3, <1>4, <1>5, <1>6 DEF IsPush

LEMMA PopSeq ==
  ASSUME NEW s, IsSeq(s), s # <<>>, NEW t, t = SubSeq(s, 1, Len(s) - 1)
  PROVE  IsPop(s, t)
<1>1. PICK S : s \in Seq(S)
  BY DEF IsSeq
<1>2. Len(s) \in Nat /\ Len(s) >= 1 /\ DOMAIN s = 1 .. Len(s)
  BY <1>1, EmptySeq
<1>3. PICK k : k = Len(s) - 1
  OBVIOUS
<1>4. k \in Nat /\ k <= Len(s) /\ t = SubSeq(s, 1, k)
  BY <1>2, <1>3
<1>5. t \in Seq(S) /\ Len(t) = k /\ \A i \in 1 .. k : t[i] = s[i]
  BY <1>1, <1>4, PrefixFacts
<1>6. IsSeq(t)
  BY <1>5 DEF IsSeq
<1>7. DOMAIN t = 1 .. Len(s) - 1
  BY <1>3, <1>5
<1> QED BY <1>2, <1>3, <1>5, <1>6, <1>7 DEF IsPop

LEMMA SeqIs ==
  ASSUME NEW s, IsSeq(s)
  PROVE  Len(s) \in Nat /\ DOMAIN s = 1 .. Len(s) /\ (s # <<>> => Len(s) >= 1)
<1>1. PICK S : s \in Seq(S)
  BY DEF IsSeq
<1> QED BY <1>1, EmptySeq

(* A sequence defined by its elements.                                     *)
LEMMA SeqOf ==
  ASSUME NEW n \in Nat, NEW f, f = [i \in 1 .. n |-> f[i]]
  PROVE  IsSeq(f) /\ Len(f) = n
<1>1. PICK S : S = {f[i] : i \in 1 .. n}
  OBVIOUS
<1>2. f \in [1 .. n -> S]
  BY <1>1
<1>3. f \in Seq(S)
  BY <1>2
<1> QED BY <1>2, <1>3 DEF IsSeq

SameElements(s, t) == \A i \in 1 .. Len(s) : s[i] = t[i]

LEMMA SeqsEqual ==
  ASSUME NEW s, NEW t, IsSeq(s), IsSeq(t), Len(s) = Len(t), SameElements(s, t)
  PROVE  s = t
<1>1. PICK S : s \in Seq(S)
  BY DEF IsSeq
<1>2. PICK T : t \in Seq(T)
  BY DEF IsSeq
<1>3. PICK n : n = Len(s)
  OBVIOUS
<1>4. s = [i \in 1 .. n |-> s[i]]
  BY <1>1, <1>3
<1>5. t = [i \in 1 .. n |-> t[i]]
  BY <1>2, <1>3
<1>6. \A i \in 1 .. n : s[i] = t[i]
  BY <1>3 DEF SameElements
<1>7. [i \in 1 .. n |-> s[i]] = [i \in 1 .. n |-> t[i]]
  BY <1>6
<1> QED BY <1>4, <1>5, <1>7

(* The handlers of the code generator and those kept of them.              *)
IsKept(fr, F, k) ==
  /\ IsSeq(fr) /\ IsSeq(k) /\ Len(k) = Len(fr) /\ Len(fr) \in Nat /\ DOMAIN fr = 1 .. Len(fr)
  /\ \A i \in 1 .. Len(fr) : k[i] = Frame(IF i = 1 THEN F ELSE fr[i].stm, fr[i].pos)
  /\ fr # <<>> => Len(fr) >= 1 /\ k # <<>>

LEMMA KeptIs ==
  ASSUME NEW fr, Records(fr), NEW F, NEW k, k = Kept(fr, F)
  PROVE  IsKept(fr, F, k)
<1>1. IsSeq(fr)
  BY DEF Records
<1>2. Len(fr) \in Nat /\ DOMAIN fr = 1 .. Len(fr) /\ (fr # <<>> => Len(fr) >= 1)
  BY <1>1, SeqIs
<1>3. k = [i \in 1 .. Len(fr) |-> Frame(IF i = 1 THEN F ELSE fr[i].stm, fr[i].pos)]
  BY <1>2 DEF Kept
<1>4. k = [i \in 1 .. Len(fr) |-> k[i]]
  BY <1>3
<1>5. IsSeq(k) /\ Len(k) = Len(fr)
  BY <1>2, <1>4, SeqOf
<1>6. \A i \in 1 .. Len(fr) : k[i] = Frame(IF i = 1 THEN F ELSE fr[i].stm, fr[i].pos)
  BY <1>3
<1>7. fr # <<>> => k # <<>>
  BY <1>2, <1>5
<1> QED BY <1>1, <1>2, <1>5, <1>6, <1>7 DEF IsKept

IsCall(fr, top, F, g) ==
  Records(top) /\ top # <<>> /\ top[1] = fr[1] /\ Kept(top, F) = Append(Kept(fr, F), g)

LEMMA KeptPush ==
  ASSUME NEW fr, Records(fr), fr # <<>>, NEW F, NEW s, NEW p, NEW b,
         NEW top, top = Append(fr, Cg!Frame(s, p, b))
  PROVE  IsCall(fr, top, F, Frame(s, p))
<1>1. PICK k, e, g : k = Kept(fr, F) /\ e = Cg!Frame(s, p, b) /\ g = Frame(s, p)
  OBVIOUS
<1>2. PICK t, kt : t = Append(k, g) /\ kt = Kept(top, F)
  OBVIOUS
<1>3. IsKept(fr, F, k)
  BY <1>1, KeptIs
<1>4. IsSeq(fr) /\ IsSeq(k) /\ Len(k) = Len(fr) /\ Len(fr) \in Nat /\ Len(fr) >= 1
  BY <1>3 DEF IsKept
<1>5. IsPush(fr, e, top)
  BY <1>1, <1>4, Push
<1>6. IsPush(k, g, t)
  BY <1>2, <1>4, Push
<1>7. Records(top)
  <2>1. \A i \in 1 .. Len(fr) : fr[i] = Cg!Frame(fr[i].stm, fr[i].pos, fr[i].base)
    BY <1>5 DEF Records, IsPush
  <2>2. e = Cg!Frame(e.stm, e.pos, e.base)
    BY <1>1 DEF Cg!Frame
  <2>3. \A i \in 1 .. Len(fr) + 1 : i \in 1 .. Len(fr) \/ i = Len(fr) + 1
    BY <1>4
  <2>4. \A i \in DOMAIN top : top[i] = Cg!Frame(top[i].stm, top[i].pos, top[i].base)
    BY <1>5, <2>1, <2>2, <2>3 DEF IsPush
  <2> QED BY <1>5, <2>4 DEF Records, IsPush
<1>8. IsKept(top, F, kt)
  BY <1>2, <1>7, KeptIs
<1>9. IsSeq(t) /\ IsSeq(kt) /\ Len(kt) = Len(t)
  BY <1>4, <1>5, <1>6, <1>8 DEF IsPush, IsKept
<1>10. SameElements(kt, t)
  <2>1. SUFFICES ASSUME NEW i \in 1 .. Len(fr) + 1 PROVE kt[i] = t[i]
    BY <1>5, <1>8 DEF IsPush, IsKept, SameElements
  <2>2. kt[i] = Frame(IF i = 1 THEN F ELSE top[i].stm, top[i].pos)
    BY <1>5, <1>8 DEF IsPush, IsKept
  <2>3. CASE i \in 1 .. Len(fr)
    <3>1. top[i] = fr[i] /\ t[i] = k[i]
      BY <1>4, <1>5, <1>6, <2>3 DEF IsPush
    <3>2. k[i] = Frame(IF i = 1 THEN F ELSE fr[i].stm, fr[i].pos)
      BY <1>3, <2>3 DEF IsKept
    <3> QED BY <2>2, <3>1, <3>2
  <2>4. CASE i = Len(fr) + 1
    <3>1. i # 1 /\ top[i] = e /\ t[i] = g
      BY <1>4, <1>5, <1>6, <2>4 DEF IsPush
    <3>2. e.stm = s /\ e.pos = p
      BY <1>1 DEF Cg!Frame
    <3> QED BY <1>1, <2>2, <3>1, <3>2
  <2> QED BY <1>4, <2>3, <2>4
<1>11. kt = t
  BY ONLY <1>9, <1>10, SeqsEqual
<1>12. top # <<>> /\ top[1] = fr[1] /\ Len(top) = Len(fr) + 1
  BY <1>4, <1>5 DEF IsPush
<1> QED BY <1>1, <1>2, <1>7, <1>11, <1>12 DEF IsCall

LEMMA KeptPop ==
  ASSUME NEW fr, Records(fr), fr # <<>>, NEW F, NEW front, front = SubSeq(fr, 1, Len(fr) - 1)
  PROVE  /\ Records(front) /\ Len(front) = Len(fr) - 1
         /\ Kept(front, F) = SubSeq(Kept(fr, F), 1, Len(Kept(fr, F)) - 1)
         /\ front # <<>> => front[1] = fr[1]
<1>1. PICK k, kt : k = Kept(fr, F) /\ kt = Kept(front, F)
  OBVIOUS
<1>2. PICK t : t = SubSeq(k, 1, Len(k) - 1)
  OBVIOUS
<1>3. IsKept(fr, F, k)
  BY <1>1, KeptIs
<1>4. IsSeq(fr) /\ IsSeq(k) /\ Len(k) = Len(fr) /\ Len(fr) \in Nat /\ Len(fr) >= 1 /\ k # <<>>
  BY <1>3 DEF IsKept
<1>5. IsPop(fr, front)
  BY <1>4, PopSeq
<1>6. IsPop(k, t)
  BY <1>2, <1>4, PopSeq
<1>7. Records(front)
  <2>1. \A i \in DOMAIN front : i \in DOMAIN fr /\ front[i] = fr[i]
    BY <1>4, <1>5 DEF IsPop
  <2> QED BY <1>5, <2>1 DEF Records, IsPop
<1>8. IsKept(front, F, kt)
  BY <1>1, <1>7, KeptIs
<1>9. IsSeq(t) /\ IsSeq(kt) /\ Len(kt) = Len(t)
  BY <1>4, <1>5, <1>6, <1>8 DEF IsPop, IsKept
<1>10. SameElements(kt, t)
  <2>1. SUFFICES ASSUME NEW i \in 1 .. Len(fr) - 1 PROVE kt[i] = t[i]
    BY <1>5, <1>8 DEF IsPop, IsKept, SameElements
  <2>2. kt[i] = Frame(IF i = 1 THEN F ELSE front[i].stm, front[i].pos)
    BY <1>5, <1>8 DEF IsPop, IsKept
  <2>3. front[i] = fr[i] /\ t[i] = k[i] /\ i \in 1 .. Len(fr)
    BY <1>4, <1>5, <1>6 DEF IsPop
  <2>4. k[i] = Frame(IF i = 1 THEN F ELSE fr[i].stm, fr[i].pos)
    BY <1>3, <2>3 DEF IsKept
  <2> QED BY <2>2, <2>3, <2>4
<1>11. kt = t
  BY ONLY <1>9, <1>10, SeqsEqual
<1>12. front # <<>> => front[1] = fr[1]
  <2>1. front # <<>> => Len(front) >= 1
    BY <1>5, SeqIs DEF IsPop
  <2> QED BY <1>4, <1>5, <2>1 DEF IsPop
<1>13. Len(front) = Len(fr) - 1
  BY <1>5 DEF IsPop
<1> QED BY <1>1, <1>2, <1>7, <1>11, <1>12, <1>13

LEMMA KeptTop ==
  ASSUME NEW fr, Records(fr), fr # <<>>, NEW F, NEW k, k = Kept(fr, F),
         NEW f, f = k[Len(k)], NEW e, e = fr[Len(fr)]
  PROVE  /\ Len(fr) \in Nat /\ Len(fr) >= 1 /\ f.pos = e.pos
         /\ f = Frame(f.stm, f.pos) /\ e = Cg!Frame(e.stm, e.pos, e.base)
         /\ f.stm = IF Len(fr) = 1 THEN F ELSE e.stm
<1>1. IsKept(fr, F, k)
  BY KeptIs
<1>2. Len(fr) \in Nat /\ Len(fr) >= 1 /\ Len(k) = Len(fr) /\ DOMAIN fr = 1 .. Len(fr)
  BY <1>1 DEF IsKept
<1>3. Len(fr) \in 1 .. Len(fr)
  BY <1>2
<1>4. f = Frame(IF Len(fr) = 1 THEN F ELSE e.stm, e.pos)
  BY <1>1, <1>2, <1>3 DEF IsKept
<1>5. e = Cg!Frame(e.stm, e.pos, e.base)
  BY <1>2, <1>3 DEF Records
<1> QED BY <1>2, <1>4, <1>5 DEF Frame

IsAdvance(fr, top, F, g) ==
  /\ Records(top) /\ top # <<>> /\ top[1].stm = fr[1].stm
  /\ Kept(top, F) = Append(SubSeq(Kept(fr, F), 1, Len(Kept(fr, F)) - 1), g)

LEMMA KeptOn ==
  ASSUME NEW fr, Records(fr), fr # <<>>, NEW F, NEW p,
         NEW e, e = fr[Len(fr)], NEW f, f = Kept(fr, F)[Len(Kept(fr, F))],
         NEW top, top = Append(SubSeq(fr, 1, Len(fr) - 1), Cg!Frame(e.stm, p, e.base))
  PROVE  IsAdvance(fr, top, F, Frame(f.stm, p))
<1>1. PICK front, d, g, k : /\ front = SubSeq(fr, 1, Len(fr) - 1) /\ g = Frame(f.stm, p)
                            /\ d = Cg!Frame(e.stm, p, e.base) /\ k = Kept(fr, F)
  OBVIOUS
<1>2. PICK below, kt : below = SubSeq(k, 1, Len(k) - 1) /\ kt = Kept(top, F)
  OBVIOUS
<1>3. PICK t : t = Append(below, g)
  OBVIOUS
<1>4. IsKept(fr, F, k)
  BY <1>1, KeptIs
<1>5. IsSeq(fr) /\ IsSeq(k) /\ Len(k) = Len(fr) /\ Len(fr) \in Nat /\ Len(fr) >= 1 /\ k # <<>>
  BY <1>4 DEF IsKept
<1>6. IsPop(fr, front) /\ IsPop(k, below)
  BY <1>1, <1>2, <1>5, PopSeq
<1>7. IsSeq(front) /\ IsSeq(below) /\ Len(front) = Len(fr) - 1 /\ Len(below) = Len(fr) - 1
  BY <1>5, <1>6 DEF IsPop
<1>8. IsPush(front, d, top)
  BY <1>1, <1>7, Push
<1>9. IsPush(below, g, t)
  BY <1>3, <1>7, Push
<1>10. d.stm = e.stm /\ d.pos = p /\ d = Cg!Frame(d.stm, d.pos, d.base)
  BY <1>1 DEF Cg!Frame
<1>11. \A i \in 1 .. Len(fr) - 1 : top[i] = fr[i] /\ t[i] = k[i]
  BY <1>5, <1>6, <1>7, <1>8, <1>9 DEF IsPop, IsPush
<1>12. top[Len(fr)] = d /\ t[Len(fr)] = g /\ Len(top) = Len(fr) /\ Len(t) = Len(fr)
  <2>1. Len(fr) - 1 + 1 = Len(fr)
    BY <1>5
  <2> QED BY <1>7, <1>8, <1>9, <2>1 DEF IsPush
<1>13. \A i \in 1 .. Len(fr) : i \in 1 .. Len(fr) - 1 \/ i = Len(fr)
  BY <1>5
<1>14. Records(top)
  <2>1. DOMAIN top = 1 .. Len(fr) /\ DOMAIN fr = 1 .. Len(fr)
    <3>1. Len(front) + 1 = Len(fr)
      BY <1>5, <1>7
    <3> QED BY <1>4, <1>8, <3>1 DEF IsPush, IsKept
  <2>2. \A i \in 1 .. Len(fr) : top[i] = Cg!Frame(top[i].stm, top[i].pos, top[i].base)
    BY <1>10, <1>11, <1>12, <1>13, <2>1 DEF Records
  <2> QED BY <1>8, <2>1, <2>2 DEF Records, IsPush
<1>15. IsKept(top, F, kt)
  BY <1>2, <1>14, KeptIs
<1>16. IsSeq(t) /\ IsSeq(kt) /\ Len(kt) = Len(t)
  BY <1>9, <1>12, <1>15 DEF IsPush, IsKept
<1>17. f = Frame(IF Len(fr) = 1 THEN F ELSE e.stm, e.pos)
  <2>1. Len(fr) \in 1 .. Len(fr) /\ f = k[Len(fr)]
    BY <1>1, <1>5
  <2> QED BY <1>4, <2>1 DEF IsKept
<1>18. SameElements(kt, t)
  <2>1. SUFFICES ASSUME NEW i \in 1 .. Len(fr) PROVE kt[i] = t[i]
    BY <1>12, <1>15 DEF IsKept, SameElements
  <2>2. kt[i] = Frame(IF i = 1 THEN F ELSE top[i].stm, top[i].pos)
    BY <1>12, <1>15 DEF IsKept
  <2>3. CASE i \in 1 .. Len(fr) - 1
    <3>1. top[i] = fr[i] /\ t[i] = k[i]
      BY <1>11, <2>3
    <3>2. k[i] = Frame(IF i = 1 THEN F ELSE fr[i].stm, fr[i].pos)
      BY <1>4 DEF IsKept
    <3> QED BY <2>2, <3>1, <3>2
  <2>4. CASE i = Len(fr)
    <3>1. f.stm = IF i = 1 THEN F ELSE e.stm
      BY <1>17, <2>4 DEF Frame
    <3>2. top[i].stm = e.stm /\ top[i].pos = p /\ t[i] = Frame(f.stm, p)
      BY <1>1, <1>10, <1>12, <2>4
    <3> QED BY <2>2, <3>1, <3>2
  <2> QED BY <1>13, <2>3, <2>4
<1>19. kt = t
  BY ONLY <1>16, <1>18, SeqsEqual
<1>20. top # <<>> /\ top[1].stm = fr[1].stm
  <2>1. CASE Len(fr) = 1
    BY <1>5, <1>10, <1>12, <2>1
  <2>2. CASE Len(fr) # 1
    BY <1>5, <1>11, <1>12, <2>2
  <2> QED BY <2>1, <2>2
<1> QED BY <1>1, <1>2, <1>3, <1>14, <1>19, <1>20 DEF IsAdvance

(* The symbols known, and their types.                                     *)
IsKnown(c, k) ==
  /\ IsSeq(c) /\ IsSeq(k) /\ Len(k) = Len(c) /\ Len(c) \in Nat
  /\ DOMAIN c = 1 .. Len(c) /\ DOMAIN k = 1 .. Len(c)
  /\ \A i \in 1 .. Len(c) : k[i] = [x \in DOMAIN c[i] |-> c[i][x].type]

LEMMA KnownIs ==
  ASSUME NEW c, IsSeq(c), NEW k, k = Known(c)
  PROVE  IsKnown(c, k)
<1>1. Len(c) \in Nat /\ DOMAIN c = 1 .. Len(c)
  BY SeqIs
<1>2. k = [i \in 1 .. Len(c) |-> [x \in DOMAIN c[i] |-> c[i][x].type]]
  BY <1>1 DEF Known
<1>3. k = [i \in 1 .. Len(c) |-> k[i]]
  BY <1>2
<1>4. IsSeq(k) /\ Len(k) = Len(c)
  BY <1>1, <1>3, SeqOf
<1>5. DOMAIN k = 1 .. Len(c) /\ \A i \in 1 .. Len(c) : k[i] = [x \in DOMAIN c[i] |-> c[i][x].type]
  BY <1>2
<1> QED BY <1>1, <1>4, <1>5 DEF IsKnown

LEMMA KnownOpen ==
  ASSUME NEW c, IsSeq(c), NEW d, d = Append(c, NoMembers)
  PROVE  IsSeq(d) /\ Len(d) = Len(c) + 1 /\ Known(d) = Append(Known(c), NoMembers)
<1>1. PICK k, kd : k = Known(c) /\ kd = Known(d)
  OBVIOUS
<1>2. PICK t, e : t = Append(k, NoMembers) /\ e = NoMembers
  OBVIOUS
<1>3. IsKnown(c, k)
  BY <1>1, KnownIs
<1>4. IsPush(c, e, d)
  BY <1>2, Push
<1>5. IsPush(k, e, t)
  BY <1>2, <1>3, Push DEF IsKnown
<1>6. IsKnown(d, kd)
  BY <1>1, <1>4, KnownIs DEF IsPush
<1>7. IsSeq(t) /\ IsSeq(kd) /\ Len(kd) = Len(t) /\ Len(c) \in Nat /\ Len(t) = Len(c) + 1
  BY <1>3, <1>4, <1>5, <1>6 DEF IsKnown, IsPush
<1>8. SameElements(kd, t)
  <2>1. SUFFICES ASSUME NEW i \in 1 .. Len(c) + 1 PROVE kd[i] = t[i]
    BY <1>7 DEF SameElements
  <2>2. kd[i] = [x \in DOMAIN d[i] |-> d[i][x].type]
    BY <1>4, <1>6 DEF IsKnown, IsPush
  <2>3. CASE i \in 1 .. Len(c)
    <3>1. d[i] = c[i] /\ t[i] = k[i]
      BY <1>3, <1>4, <1>5, <2>3 DEF IsPush, IsKnown
    <3> QED BY <1>3, <2>2, <2>3, <3>1 DEF IsKnown
  <2>4. CASE i = Len(c) + 1
    <3>1. d[i] = e /\ t[i] = e
      BY <1>3, <1>4, <1>5, <2>4 DEF IsPush, IsKnown
    <3>2. [x \in DOMAIN e |-> e[x].type] = e
      BY <1>2 DEF NoMembers
    <3> QED BY <2>2, <3>1, <3>2
  <2> QED BY <1>7, <2>3, <2>4
<1>9. kd = t
  BY ONLY <1>7, <1>8, SeqsEqual
<1> QED BY <1>1, <1>2, <1>4, <1>9 DEF IsPush

LEMMA KnownClose ==
  ASSUME NEW c, IsSeq(c), c # <<>>, NEW d, d = SubSeq(c, 1, Len(c) - 1)
  PROVE  /\ IsSeq(d) /\ Len(d) = Len(c) - 1
         /\ Known(d) = SubSeq(Known(c), 1, Len(Known(c)) - 1)
<1>1. PICK k, kd : k = Known(c) /\ kd = Known(d)
  OBVIOUS
<1>2. PICK t : t = SubSeq(k, 1, Len(k) - 1)
  OBVIOUS
<1>3. IsKnown(c, k)
  BY <1>1, KnownIs
<1>4. IsPop(c, d)
  BY PopSeq
<1>5. IsSeq(k) /\ k # <<>>
  <2>1. IsSeq(k) /\ Len(k) >= 1
    BY <1>3, <1>4 DEF IsKnown, IsPop
  <2> QED BY <2>1
<1>6. IsPop(k, t)
  BY <1>2, <1>5, PopSeq
<1>7. IsKnown(d, kd)
  BY <1>1, <1>4, KnownIs DEF IsPop
<1>8. IsSeq(t) /\ IsSeq(kd) /\ Len(kd) = Len(t) /\ Len(c) \in Nat /\ Len(t) = Len(c) - 1
  BY <1>3, <1>4, <1>6, <1>7 DEF IsKnown, IsPop
<1>9. SameElements(kd, t)
  <2>1. SUFFICES ASSUME NEW i \in 1 .. Len(c) - 1 PROVE kd[i] = t[i]
    BY <1>8 DEF SameElements
  <2>2. kd[i] = [x \in DOMAIN d[i] |-> d[i][x].type]
    BY <1>4, <1>7 DEF IsKnown, IsPop
  <2>3. d[i] = c[i] /\ t[i] = k[i] /\ i \in 1 .. Len(c)
    BY <1>3, <1>4, <1>6 DEF IsKnown, IsPop
  <2>4. k[i] = [x \in DOMAIN c[i] |-> c[i][x].type]
    BY <1>3, <2>3 DEF IsKnown
  <2> QED BY <2>2, <2>3, <2>4
<1>10. kd = t
  BY ONLY <1>8, <1>9, SeqsEqual
<1> QED BY <1>1, <1>2, <1>4, <1>10 DEF IsPop

IsAdd(c, d, id, symbol) ==
  /\ IsSeq(d) /\ Len(d) = Len(c) /\ (Len(c) > 1 => d[1] = c[1])
  /\ Known(d) = [Known(c) EXCEPT ![Len(Known(c))] =
                    Emplace(Known(c)[Len(Known(c))], id, symbol.type)]

LEMMA KnownAdd ==
  ASSUME NEW c, IsSeq(c), c # <<>>, NEW id, NEW symbol,
         NEW d, d = [c EXCEPT ![Len(c)] = Emplace(@, id, symbol)]
  PROVE  IsAdd(c, d, id, symbol)
<1>1. PICK k, kd, n : k = Known(c) /\ kd = Known(d) /\ n = Len(c)
  OBVIOUS
<1>2. PICK m, e : m = c[n] /\ e = Emplace(m, id, symbol)
  OBVIOUS
<1>3. PICK t : t = [k EXCEPT ![n] = Emplace(k[n], id, symbol.type)]
  OBVIOUS
<1>4. IsKnown(c, k)
  BY <1>1, KnownIs
<1>5. n \in Nat /\ n >= 1 /\ n \in 1 .. n /\ DOMAIN c = 1 .. n /\ DOMAIN k = 1 .. n
  BY <1>1, <1>4, SeqIs DEF IsKnown
<1>6. d = [i \in 1 .. n |-> IF i = n THEN e ELSE c[i]]
  <2>1. c = [i \in 1 .. n |-> c[i]]
    <3>1. PICK S : c \in Seq(S)
      BY DEF IsSeq
    <3> QED BY <1>1, <3>1
  <2> QED BY <1>1, <1>2, <1>5, <2>1
<1>7. IsSeq(d) /\ Len(d) = n
  <2>1. d = [i \in 1 .. n |-> d[i]]
    BY <1>6
  <2> QED BY <1>5, <2>1, SeqOf
<1>8. IsKnown(d, kd)
  BY <1>1, <1>7, KnownIs
<1>9. kd = [i \in 1 .. n |-> [x \in DOMAIN d[i] |-> d[i][x].type]]
  BY <1>1, <1>6 DEF Known
<1>10. k = [i \in 1 .. n |-> [x \in DOMAIN c[i] |-> c[i][x].type]]
  BY <1>1, <1>5 DEF Known
<1>11. t = [i \in 1 .. n |-> IF i = n THEN Emplace(k[n], id, symbol.type) ELSE k[i]]
  BY <1>3, <1>5, <1>10
<1>12. [x \in DOMAIN e |-> e[x].type] = Emplace(k[n], id, symbol.type)
  <2>1. k[n] = [x \in DOMAIN m |-> m[x].type]
    BY <1>2, <1>5, <1>10
  <2> QED BY <1>2, <2>1 DEF Emplace
<1>13. \A i \in 1 .. n : kd[i] = t[i]
  <2>1. SUFFICES ASSUME NEW i \in 1 .. n PROVE kd[i] = t[i]
    OBVIOUS
  <2>2. CASE i = n
    BY <1>5, <1>6, <1>9, <1>11, <1>12, <2>2
  <2>3. CASE i # n
    BY <1>5, <1>6, <1>9, <1>10, <1>11, <2>3
  <2> QED BY <2>2, <2>3
<1>14. kd = t
  <2>1. kd = [i \in 1 .. n |-> kd[i]]
    BY <1>9
  <2>2. t = [i \in 1 .. n |-> t[i]]
    BY <1>11
  <2> QED BY <1>13, <2>1, <2>2
<1>15. n > 1 => d[1] = c[1]
  BY <1>5, <1>6
<1>16. Len(k) = n
  BY <1>1, <1>4 DEF IsKnown
<1> QED BY <1>1, <1>3, <1>7, <1>14, <1>15, <1>16 DEF IsAdd

(* A name is looked up in the contexts as in the chain of their types.     *)
LEMMA HoldersKnown ==
  ASSUME NEW c, IsSeq(c), NEW x
  PROVE  Holders(c, x) = Holders(Known(c), x)
<1>1. PICK k : k = Known(c)
  OBVIOUS
<1>2. IsKnown(c, k)
  BY <1>1, KnownIs
<1>3. DOMAIN c = DOMAIN k /\ \A i \in DOMAIN c : DOMAIN c[i] = DOMAIN k[i]
  BY <1>2 DEF IsKnown
<1> QED BY <1>1, <1>3 DEF Holders

LEMMA LookupIs ==
  ASSUME NEW c, IsSeq(c), Chain(Known(c)), NEW x
  PROVE  /\ Lookup(c, x).type = findSymbol(Known(c), x)
         /\ Holders(Known(c), x) # {} => Lookup(c, x) # NotFound
<1>1. PICK k : k = Known(c)
  OBVIOUS
<1>2. IsKnown(c, k) /\ Chain(k)
  BY <1>1, KnownIs
<1>3. Holders(c, x) = Holders(k, x)
  BY <1>1, HoldersKnown
<1>4. CASE Holders(k, x) = {}
  BY <1>1, <1>3, <1>4 DEF Lookup, findSymbol, NotFound, Symbol
<1>5. CASE Holders(k, x) # {}
  <2>1. PICK h \in Holders(k, x) : \A j \in Holders(k, x) : j <= h
    BY <1>2, <1>5, Innermost
  <2>2. findSymbol(k, x) = k[h][x]
    BY <1>2, <2>1, FindIs
  <2>3. findSymbol(c, x) = c[h][x]
    <3>1. PICK i : i = CHOOSE g \in Holders(k, x) : \A j \in Holders(k, x) : j <= g
      OBVIOUS
    <3>2. i \in Holders(k, x) /\ \A j \in Holders(k, x) : j <= i
      BY <2>1, <3>1
    <3>3. i = h
      <4>1. i \in 1 .. Len(k) /\ h \in 1 .. Len(k) /\ i <= h /\ h <= i /\ Len(k) \in Nat
        BY <1>2, <2>1, <3>2, ChainFacts
      <4> QED BY <4>1
    <3>4. findSymbol(c, x) = c[i][x]
      BY <1>3, <1>5, <3>1 DEF findSymbol
    <3> QED BY <3>3, <3>4
  <2>4. h \in 1 .. Len(c) /\ x \in DOMAIN c[h]
    BY <1>2, <1>3, <2>1 DEF Holders, IsKnown
  <2>5. k[h][x] = c[h][x].type
    BY <1>2, <2>4 DEF IsKnown
  <2>6. k[h][x] \in DOMAIN types
    <3>1. k[h] \in Maps /\ x \in DOMAIN k[h]
      <4>1. k \in Seq(Maps) /\ h \in 1 .. Len(k)
        BY <1>2, <2>4 DEF IsKnown, Chain
      <4> QED BY <2>1, <4>1 DEF Holders
    <3> QED BY <3>1, MapValues
  <2>7. Lookup(c, x) = c[h][x]
    BY <1>3, <1>5, <2>3 DEF Lookup
  <2>8. null \notin DOMAIN types
    BY TypeCheckAssumption DEF null
  <2> QED BY <1>1, <2>2, <2>5, <2>6, <2>7, <2>8 DEF NotFound, Symbol
<1> QED BY <1>4, <1>5

-----------------------------------------------------------------------------
(* The last expression of a for is visited behind its body, when names may *)
(* have been added to the scope around it: it stays found all the while.   *)

(* The number of scopes open in the first i handlers.                      *)
Depth(fr, i) == Cardinality({j \in 1 .. i : fr[j].stm.op \in ScopeOps})

HeldBelow(e, c, n) == e.op = "EId" => \E k \in Holders(c, e.name) : k <= n

StepsKnown(fr, c) ==
  \A i \in 1 .. Len(fr) :
    fr[i].stm.op = "SFor" => HeldBelow(fr[i].stm.exps[3], c, 1 + Depth(fr, i))

LEMMA DepthFacts ==
  ASSUME NEW fr \in Seq(FrameSet), NEW i \in 1 .. Len(fr)
  PROVE  /\ Depth(fr, i) \in Nat /\ ScopeCount(fr) \in Nat /\ Depth(fr, i) <= ScopeCount(fr)
         /\ i = Len(fr) => Depth(fr, i) = ScopeCount(fr)
<1>1. Len(fr) \in Nat /\ DOMAIN fr = 1 .. Len(fr) /\ i \in Nat
  OBVIOUS
<1>2. PICK A, B : A = {j \in 1 .. i : fr[j].stm.op \in ScopeOps} /\ B = ScopeFrames(fr)
  OBVIOUS
<1>3. IsFiniteSet(1 .. Len(fr)) /\ B \subseteq 1 .. Len(fr)
  BY <1>1, <1>2, FS_Interval DEF ScopeFrames
<1>4. IsFiniteSet(B)
  BY <1>3, FS_Subset
<1>5. A \subseteq B
  BY <1>1, <1>2 DEF ScopeFrames
<1>6. IsFiniteSet(A) /\ Cardinality(A) <= Cardinality(B)
  BY <1>4, <1>5, FS_Subset
<1>7. Cardinality(A) \in Nat /\ Cardinality(B) \in Nat
  BY <1>4, <1>6, FS_CardinalityType
<1>8. i = Len(fr) => A = B
  BY <1>1, <1>2 DEF ScopeFrames
<1> QED BY <1>2, <1>6, <1>7, <1>8 DEF Depth, ScopeCount

(* Names that stay, as far as scopes do, carry it from one stack to a      *)
(* stack with the same n handlers below.                                   *)
StillHeld(c, d, m) == \A x : \A k \in Holders(c, x) : k <= m => k \in Holders(d, x)

SameBelow(fr, gr, n) == \A j \in 1 .. n : gr[j].stm = fr[j].stm

LEMMA StepsCarry ==
  ASSUME NEW fr \in Seq(FrameSet), NEW gr \in Seq(FrameSet), NEW c, Chain(c), NEW d,
         StepsKnown(fr, c), NEW n \in Nat, n <= Len(fr), n <= Len(gr), SameBelow(fr, gr, n),
         \A i \in 1 .. Len(gr) : i > n /\ gr[i].stm.op = "SFor" =>
           HeldBelow(gr[i].stm.exps[3], d, 1 + Depth(gr, i)),
         StillHeld(c, d, 1 + ScopeCount(gr))
  PROVE  StepsKnown(gr, d)
<1>1. SUFFICES ASSUME NEW i \in 1 .. Len(gr), gr[i].stm.op = "SFor"
               PROVE  HeldBelow(gr[i].stm.exps[3], d, 1 + Depth(gr, i))
  BY DEF StepsKnown
<1>2. Len(fr) \in Nat /\ Len(gr) \in Nat /\ i \in Nat
  OBVIOUS
<1>3. CASE i > n
  BY <1>1, <1>3
<1>4. CASE i <= n
  <2>1. i \in 1 .. Len(fr) /\ i \in 1 .. n /\ \A j \in 1 .. i : j \in 1 .. n
    BY <1>2, <1>4
  <2>2. Depth(fr, i) = Depth(gr, i)
    BY <2>1 DEF SameBelow, Depth
  <2>3. Depth(gr, i) \in Nat /\ ScopeCount(gr) \in Nat /\ Depth(gr, i) <= ScopeCount(gr)
    BY DepthFacts
  <2>4. PICK e : e = gr[i].stm.exps[3]
    OBVIOUS
  <2>5. HeldBelow(e, c, 1 + Depth(gr, i))
    BY <1>1, <2>1, <2>2, <2>4 DEF StepsKnown, SameBelow
  <2>6. ASSUME e.op = "EId" PROVE \E k \in Holders(d, e.name) : k <= 1 + Depth(gr, i)
    <3>1. PICK k \in Holders(c, e.name) : k <= 1 + Depth(gr, i)
      BY <2>5, <2>6 DEF HeldBelow
    <3>2. k \in Nat
      BY <3>1, ChainFacts
    <3>3. k <= 1 + ScopeCount(gr)
      BY <2>3, <3>1, <3>2
    <3> QED BY <3>1, <3>3 DEF StillHeld
  <2> QED BY <2>4, <2>6 DEF HeldBelow
<1> QED BY <1>2, <1>3, <1>4

(* A declaration that is being visited is of a type to declare with.       *)
NoVoids(fr) ==
  \A i \in 1 .. Len(fr) :
    fr[i].stm.op = "SDecls" => findBasicType(types, fr[i].stm.type) # TYPE_VOID

Held(fr, c) == StepsKnown(fr, c) /\ NoVoids(fr)

LEMMA HeldPush ==
  ASSUME NEW fr \in Seq(FrameSet), NEW c, Chain(c), Held(fr, c), Len(c) = 1 + ScopeCount(fr),
         NEW f \in FrameSet, NEW top, top = Append(fr, f), ScopeCount(top) >= ScopeCount(fr),
         f.stm.op = "SFor" => Found(f.stm.exps[3], c),
         f.stm.op = "SDecls" => findBasicType(types, f.stm.type) # TYPE_VOID,
         NEW d, StillHeld(c, d, 1 + ScopeCount(top)), StillHeld(c, d, Len(c))
  PROVE  Held(top, d)
<1>1. PICK n : n = Len(fr)
  OBVIOUS
<1>2. /\ n \in Nat /\ top \in Seq(FrameSet) /\ Len(top) = n + 1 /\ n <= Len(fr) /\ n <= Len(top)
      /\ top[n + 1] = f /\ \A i \in 1 .. n : top[i] = fr[i]
  BY <1>1
<1>3. SameBelow(fr, top, n)
  BY <1>2 DEF SameBelow
<1>4. \A i \in 1 .. Len(top) : i > n => i = n + 1
  BY <1>2
<1>5. ScopeCount(top) = Depth(top, n + 1) /\ ScopeCount(top) \in Nat
  <2>1. PICK i : i = n + 1
    OBVIOUS
  <2>2. i \in 1 .. Len(top) /\ i = Len(top)
    BY <1>2, <2>1
  <2>3. Depth(top, i) = ScopeCount(top) /\ ScopeCount(top) \in Nat
    BY <1>2, <2>2, DepthFacts
  <2> QED BY <2>1, <2>3
<1>6. ScopeCount(fr) \in Nat
  <2>1. Len(c) \in Nat /\ ScopeCount(fr) = Cardinality(ScopeFrames(fr))
    BY ChainFacts DEF ScopeCount
  <2>2. ScopeFrames(fr) \subseteq 1 .. n /\ IsFiniteSet(1 .. n)
    BY <1>1, <1>2, FS_Interval DEF ScopeFrames
  <2> QED BY <2>1, <2>2, FS_Subset, FS_CardinalityType
<1>7. f.stm.op = "SFor" => HeldBelow(f.stm.exps[3], d, 1 + ScopeCount(top))
  <2>1. SUFFICES ASSUME f.stm.op = "SFor", f.stm.exps[3].op = "EId"
                 PROVE  \E k \in Holders(d, f.stm.exps[3].name) : k <= 1 + ScopeCount(top)
    BY DEF HeldBelow
  <2>2. PICK k : k \in Holders(c, f.stm.exps[3].name)
    BY <2>1 DEF Found
  <2>3. k \in Nat /\ k <= Len(c)
    BY <2>2, ChainFacts
  <2>4. k <= 1 + ScopeCount(top)
    BY <1>5, <1>6, <2>3
  <2> QED BY <2>2, <2>3, <2>4 DEF StillHeld
<1>8. \A i \in 1 .. Len(top) : i > n /\ top[i].stm.op = "SFor" =>
        HeldBelow(top[i].stm.exps[3], d, 1 + Depth(top, i))
  BY <1>2, <1>4, <1>5, <1>7
<1>9. StepsKnown(top, d)
  BY <1>2, <1>3, <1>8, StepsCarry DEF Held
<1>10. NoVoids(top)
  <2>1. \A i \in 1 .. Len(top) : i \in 1 .. n \/ i = n + 1
    BY <1>2
  <2> QED BY <1>1, <1>2, <2>1 DEF Held, NoVoids
<1> QED BY <1>9, <1>10 DEF Held

(* A stack of which every handler is one of the old stack, in its place.   *)
LEMMA HeldOn ==
  ASSUME NEW fr \in Seq(FrameSet), NEW c, Chain(c), Held(fr, c),
         NEW gr \in Seq(FrameSet), Len(gr) <= Len(fr), SameBelow(fr, gr, Len(gr)),
         NEW d, StillHeld(c, d, 1 + ScopeCount(gr))
  PROVE  Held(gr, d)
<1>1. PICK n : n = Len(gr)
  OBVIOUS
<1>2. n \in Nat /\ n <= Len(gr) /\ n <= Len(fr) /\ SameBelow(fr, gr, n) /\ Len(fr) \in Nat
  BY <1>1
<1>3. \A i \in 1 .. Len(gr) : ~ (i > n)
  BY <1>1, <1>2
<1>4. StepsKnown(gr, d)
  BY <1>2, <1>3, StepsCarry DEF Held
<1>5. \A i \in 1 .. Len(gr) : i \in 1 .. Len(fr) /\ gr[i].stm = fr[i].stm
  BY <1>1, <1>2 DEF SameBelow
<1>6. NoVoids(gr)
  BY <1>5 DEF Held, NoVoids
<1> QED BY <1>4, <1>6 DEF Held

LEMMA HeldPop ==
  ASSUME NEW fr \in Seq(FrameSet), fr # <<>>, NEW c, Chain(c), Held(fr, c),
         NEW gr, gr = SubSeq(fr, 1, Len(fr) - 1),
         NEW d, StillHeld(c, d, 1 + ScopeCount(gr))
  PROVE  Held(gr, d)
<1>1. Len(fr) \in Nat /\ Len(fr) >= 1
  BY EmptySeq
<1>2. PICK k : k = Len(fr) - 1
  OBVIOUS
<1>3. k \in Nat /\ k <= Len(fr) /\ gr = SubSeq(fr, 1, k)
  BY <1>1, <1>2
<1>4. gr \in Seq(FrameSet) /\ Len(gr) = k /\ \A i \in 1 .. k : gr[i] = fr[i]
  BY <1>3, PrefixFacts
<1>5. SameBelow(fr, gr, Len(gr))
  BY <1>4 DEF SameBelow
<1> QED BY <1>3, <1>4, <1>5, HeldOn

LEMMA HeldNext ==
  ASSUME NEW fr \in Seq(FrameSet), fr # <<>>, NEW c, Chain(c), Held(fr, c),
         NEW g \in FrameSet, g.stm = fr[Len(fr)].stm,
         NEW gr, gr = Append(SubSeq(fr, 1, Len(fr) - 1), g),
         NEW d, StillHeld(c, d, 1 + ScopeCount(gr))
  PROVE  Held(gr, d)
<1>1. Len(fr) \in Nat /\ Len(fr) >= 1
  BY EmptySeq
<1>2. PICK k, below : k = Len(fr) - 1 /\ below = SubSeq(fr, 1, Len(fr) - 1)
  OBVIOUS
<1>3. k \in Nat /\ k <= Len(fr) /\ below = SubSeq(fr, 1, k) /\ k + 1 = Len(fr)
  BY <1>1, <1>2
<1>4. below \in Seq(FrameSet) /\ Len(below) = k /\ \A i \in 1 .. k : below[i] = fr[i]
  BY <1>3, PrefixFacts
<1>5. /\ gr \in Seq(FrameSet) /\ Len(gr) = k + 1 /\ gr[k + 1] = g
      /\ \A i \in 1 .. k : gr[i] = below[i]
  <2>1. gr = Append(below, g)
    BY <1>2
  <2> QED BY <1>3, <1>4, <2>1
<1>6. SameBelow(fr, gr, Len(gr))
  <2>1. \A i \in 1 .. k + 1 : i \in 1 .. k \/ i = k + 1
    BY <1>3
  <2> QED BY <1>3, <1>4, <1>5, <2>1 DEF SameBelow
<1>7. Len(gr) <= Len(fr)
  BY <1>1, <1>3, <1>5
<1> QED BY <1>5, <1>6, <1>7, HeldOn

(* What is still held: more names, or the scopes that are not closed.      *)
LEMMA HeldMore ==
  ASSUME NEW c, NEW d, NEW m, \A i \in DOMAIN c : i \in DOMAIN d /\ DOMAIN c[i] \subseteq DOMAIN d[i]
  PROVE  StillHeld(c, d, m)
  BY DEF StillHeld, Holders

LEMMA HeldLess ==
  ASSUME NEW c, Chain(c), Len(c) > 1, NEW d, d = SubSeq(c, 1, Len(c) - 1), NEW m, m = Len(d)
  PROVE  StillHeld(c, d, m)
<1>1. c \in Seq(Maps) /\ Len(c) - 1 \in Nat /\ Len(c) - 1 <= Len(c) /\ Len(c) \in Nat
  BY ChainFacts
<1>2. PICK k : k = Len(c) - 1
  OBVIOUS
<1>3. d \in Seq(Maps) /\ Len(d) = k /\ \A i \in 1 .. k : d[i] = c[i]
  BY <1>1, <1>2, PrefixFacts
<1>4. \A x : \A i \in Holders(c, x) : i \in 1 .. Len(c) /\ x \in DOMAIN c[i]
  BY ChainFacts DEF Holders
<1>5. \A i \in 1 .. Len(c) : i <= m => i \in 1 .. k
  BY <1>1, <1>2, <1>3
<1>6. DOMAIN d = 1 .. k
  BY <1>3
<1> QED BY <1>3, <1>4, <1>5, <1>6 DEF StillHeld, Holders

-----------------------------------------------------------------------------
(* The invariant *)

Fun      == program[cgFn]
Handlers == Kept(cgFrames, Fun)

WellBound(fr, nd, a, c, F) == InOrder(fr, nd, a, c, F) /\ Held(fr, c)

(* In a function, what is left to do is in order.                          *)
Generating ==
  /\ cgFn \in 1 .. Len(program)
  /\ Records(cgFrames) /\ cgFrames # <<>>
  /\ cgFrames[1].stm = Cg!FunctionNode(Lowered(Fun))
  /\ IsSeq(symbols) /\ symbols[1] = NoMembers
  /\ WellBound(Handlers, cgNode, cgArg, Known(symbols), Fun)
  /\ cgArg # Len(Fun.args) => Len(cgFrames) = 1 /\ cgNode = NoStm

(* Between two of them there is nothing.                                   *)
Between ==
  cgFn \in 0 .. Len(program) /\ cgFrames = <<>> /\ cgNode = NoStm /\ symbols = <<NoMembers>>

Phases == {"typecheck", "rejected", "crashed", "codegen", "printed"}

Bindings ==
  /\ phase \in Phases
  /\ phase = "typecheck" => Between /\ cgFn = 0
  /\ phase = "codegen" => WellTyped(program) /\ (Generating \/ Between)

(* The handler on top, and what is kept of it.                             *)
IsTop(e, f) ==
  /\ e = cgFrames[Len(cgFrames)] /\ f = Handlers[Len(Handlers)]
  /\ e = Cg!Frame(e.stm, e.pos, e.base) /\ f = Frame(f.stm, f.pos) /\ f.pos = e.pos
  /\ f.pos \in Nat /\ f \in FrameSet /\ e.stm.op = f.stm.op
  /\ f.stm.op # "DFun" => e.stm = f.stm /\ f.stm \in Stm
  /\ f.stm.op = "DFun" => f.stm = Fun /\ e.stm.kids = f.stm.kids
  /\ f.stm.op = "DFun" <=> Len(cgFrames) = 1

LEMMA GenFacts ==
  ASSUME Generating
  PROVE  /\ InOrder(Handlers, cgNode, cgArg, Known(symbols), Fun) /\ Held(Handlers, Known(symbols))
         /\ Fun \in Function /\ cgNode \in Stm \cup {NoStm}
         /\ IsKept(cgFrames, Fun, Handlers) /\ IsKnown(symbols, Known(symbols))
         /\ Chain(Known(symbols)) /\ Len(Known(symbols)) = 1 + ScopeCount(Handlers)
         /\ Handlers \in Seq(FrameSet) /\ Handlers # <<>> /\ StackOK(Handlers)
         /\ Len(symbols) > 1 /\ symbols # <<>>
<1>1. PICK h, c, F, nd, a : h = Handlers /\ c = Known(symbols) /\ F = Fun /\ nd = cgNode /\ a = cgArg
  OBVIOUS
<1>2. InOrder(h, nd, a, c, F) /\ Held(h, c) /\ Records(cgFrames) /\ IsSeq(symbols)
  BY <1>1 DEF Generating, WellBound
<1>3. /\ F \in Function /\ nd \in Stm \cup {NoStm} /\ Chain(c) /\ Len(c) = 1 + ScopeCount(h)
      /\ StackOK(h) /\ h # <<>>
  BY <1>2 DEF InOrder
<1>4. IsKept(cgFrames, F, h)
  BY <1>1, <1>2, KeptIs DEF Handlers
<1>5. IsKnown(symbols, c)
  BY <1>1, <1>2, KnownIs
<1>6. h \in Seq(FrameSet)
  BY <1>3 DEF StackOK
<1>7. PICK ret : ret = F.type
  OBVIOUS
<1>8. Len(OuterOf(c)) = Len(c) - 1 /\ Len(OuterOf(c)) >= 1
  BY ONLY <1>2, <1>7, OrderFacts
<1>9. Len(c) \in Nat /\ Len(c) = Len(symbols)
  BY <1>3, <1>5, ChainFacts DEF IsKnown
<1>10. Len(symbols) > 1 /\ symbols # <<>>
  <2>1. Len(symbols) > 1 /\ Len(symbols) \in Nat
    BY <1>8, <1>9
  <2> QED BY <2>1
<1> QED BY <1>1, <1>2, <1>3, <1>4, <1>5, <1>6, <1>10

LEMMA TopIs ==
  ASSUME Generating
  PROVE  \E e, f : IsTop(e, f)
<1>1. PICK h, c, F, nd, a : h = Handlers /\ c = Known(symbols) /\ F = Fun /\ nd = cgNode /\ a = cgArg
  OBVIOUS
<1>2. PICK e, f : e = cgFrames[Len(cgFrames)] /\ f = h[Len(h)]
  OBVIOUS
<1>3. InOrder(h, nd, a, c, F) /\ Records(cgFrames) /\ cgFrames # <<>> /\ h = Kept(cgFrames, F)
  BY <1>1 DEF Generating, WellBound, Handlers
<1>4. /\ Len(cgFrames) \in Nat /\ Len(cgFrames) >= 1 /\ f.pos = e.pos
      /\ f = Frame(f.stm, f.pos) /\ e = Cg!Frame(e.stm, e.pos, e.base)
      /\ f.stm = IF Len(cgFrames) = 1 THEN F ELSE e.stm
  BY ONLY <1>2, <1>3, KeptTop
<1>5. /\ f \in FrameSet /\ f.pos \in Nat
      /\ f.stm.op # "DFun" => f.stm \in Stm
      /\ f.stm.op = "DFun" <=> Len(h) = 1
  BY ONLY <1>2, <1>3, OrderTop
<1>6. Len(h) = Len(cgFrames)
  BY <1>1, GenFacts DEF IsKept
<1>7. CASE Len(cgFrames) = 1
  <2>1. e.stm = Cg!FunctionNode(Lowered(F))
    BY <1>1, <1>2, <1>7 DEF Generating
  <2>2. e.stm.op = "DFun" /\ e.stm.kids = F.kids
    BY <2>1 DEF Cg!FunctionNode, Lowered
  <2> QED BY <1>1, <1>2, <1>4, <1>5, <1>6, <1>7, <2>2 DEF IsTop
<1>8. CASE Len(cgFrames) # 1
  BY <1>1, <1>2, <1>4, <1>5, <1>6, <1>8 DEF IsTop
<1> QED BY <1>7, <1>8

(* The visits of a step throw nothing when the variables are found.        *)
AllFound(s, known) ==
  Generated # <<>> =>
    \A k \in DOMAIN Generated \cap DOMAIN s.exps :
      Slot(s, k) # NoInit => Found(Slot(s, k), Known(known))

LEMMA EIdsFound ==
  ASSUME NEW known, IsSeq(known), Chain(Known(known)), visitEIds(known),
         AllFound(At(cgNode, cgFrames), known)
  PROVE  phase' = phase
<1>1. PICK s, G : s = At(cgNode, cgFrames) /\ G = Generated
  OBVIOUS
<1>2. PICK vs : vs = IF G = <<>> THEN {} ELSE Variables(s, DOMAIN G \cap DOMAIN s.exps)
  OBVIOUS
<1>3. ASSUME NEW k \in vs
      PROVE  Lookup(known, Slot(s, k).name) # NotFound
  <2>1. G # <<>> /\ k \in DOMAIN G \cap DOMAIN s.exps /\ Slot(s, k) # NoInit /\ Slot(s, k).op = "EId"
    BY <1>2, <1>3 DEF Variables
  <2>2. Found(Slot(s, k), Known(known))
    BY <1>1, <2>1 DEF AllFound
  <2>3. Holders(Known(known), Slot(s, k).name) # {}
    BY <2>1, <2>2 DEF Found
  <2> QED BY <2>3, LookupIs
<1>4. ~ \E k \in vs : Lookup(known, Slot(s, k).name) = NotFound
  BY <1>3
<1> QED BY <1>1, <1>2, <1>4 DEF visitEIds

(* A handler is called, goes on, returns, or a leaf is done.               *)
Same == UNCHANGED <<program, cgFn, cgArg>>

Bound(fr, nd) == WellBound(fr, nd, cgArg, Known(symbols'), Fun)

Outermost == IsSeq(symbols') /\ symbols'[1] = NoMembers

LEMMA ToCall ==
  ASSUME Generating, Same, Outermost, cgArg = Len(Fun.args), NEW s, NEW p, NEW b,
         cgFrames' = Append(cgFrames, Cg!Frame(s, p, b)),
         Bound(Append(Handlers, Frame(s, p)), cgNode')
  PROVE  Generating'
<1>1. PICK F, fr, top : F = Fun /\ fr = cgFrames /\ top = cgFrames'
  OBVIOUS
<1>2. Records(fr) /\ fr # <<>> /\ top = Append(fr, Cg!Frame(s, p, b))
  BY <1>1 DEF Generating
<1>3. /\ Records(top) /\ top # <<>> /\ top[1] = fr[1]
      /\ Kept(top, F) = Append(Kept(fr, F), Frame(s, p))
  <2>1. IsCall(fr, top, F, Frame(s, p))
    BY ONLY <1>2, KeptPush
  <2> QED BY ONLY <2>1 DEF IsCall
<1>4. Fun' = Fun /\ cgFn' = cgFn /\ cgArg' = cgArg /\ program' = program
  BY DEF Same, Fun
<1>5. Handlers' = Append(Handlers, Frame(s, p))
  BY <1>1, <1>3, <1>4 DEF Handlers
<1>6. WellBound(Handlers, cgNode, cgArg, Known(symbols), Fun)'
  BY <1>4, <1>5 DEF Bound
<1> QED BY <1>1, <1>3, <1>4, <1>6 DEF Generating, Outermost

LEMMA ToOn ==
  ASSUME Generating, Same, Outermost, cgArg = Len(Fun.args), NEW e, NEW f, IsTop(e, f), NEW p,
         cgFrames' = Append(SubSeq(cgFrames, 1, Len(cgFrames) - 1), Cg!Frame(e.stm, p, e.base)),
         Bound(Append(SubSeq(Handlers, 1, Len(Handlers) - 1), Frame(f.stm, p)), cgNode')
  PROVE  Generating'
<1>1. PICK F, fr, top : F = Fun /\ fr = cgFrames /\ top = cgFrames'
  OBVIOUS
<1>2. /\ Records(fr) /\ fr # <<>> /\ e = fr[Len(fr)] /\ f = Kept(fr, F)[Len(Kept(fr, F))]
      /\ top = Append(SubSeq(fr, 1, Len(fr) - 1), Cg!Frame(e.stm, p, e.base))
  BY <1>1 DEF Generating, IsTop, Handlers
<1>3. /\ Records(top) /\ top # <<>> /\ top[1].stm = fr[1].stm
      /\ Kept(top, F) = Append(SubSeq(Kept(fr, F), 1, Len(Kept(fr, F)) - 1), Frame(f.stm, p))
  <2>1. IsAdvance(fr, top, F, Frame(f.stm, p))
    BY ONLY <1>2, KeptOn
  <2> QED BY ONLY <2>1 DEF IsAdvance
<1>4. Fun' = Fun /\ cgFn' = cgFn /\ cgArg' = cgArg /\ program' = program
  BY DEF Same, Fun
<1>5. Handlers' = Append(SubSeq(Handlers, 1, Len(Handlers) - 1), Frame(f.stm, p))
  BY <1>1, <1>3, <1>4 DEF Handlers
<1>6. WellBound(Handlers, cgNode, cgArg, Known(symbols), Fun)'
  BY <1>4, <1>5 DEF Bound
<1> QED BY <1>1, <1>3, <1>4, <1>6 DEF Generating, Outermost

LEMMA ToReturn ==
  ASSUME Generating, Same, Outermost, cgArg = Len(Fun.args), NEW e, NEW f, IsTop(e, f),
         f.stm.op # "DFun",
         cgFrames' = SubSeq(cgFrames, 1, Len(cgFrames) - 1),
         Bound(SubSeq(Handlers, 1, Len(Handlers) - 1), cgNode')
  PROVE  Generating'
<1>1. PICK F, fr, top : F = Fun /\ fr = cgFrames /\ top = cgFrames'
  OBVIOUS
<1>2. Records(fr) /\ fr # <<>> /\ top = SubSeq(fr, 1, Len(fr) - 1)
  BY <1>1 DEF Generating
<1>3. /\ Records(top) /\ Len(top) = Len(fr) - 1 /\ (top # <<>> => top[1] = fr[1])
      /\ Kept(top, F) = SubSeq(Kept(fr, F), 1, Len(Kept(fr, F)) - 1)
  BY ONLY <1>2, KeptPop
<1>4. Fun' = Fun /\ cgFn' = cgFn /\ cgArg' = cgArg /\ program' = program
  BY DEF Same, Fun
<1>5. Handlers' = SubSeq(Handlers, 1, Len(Handlers) - 1)
  BY <1>1, <1>3, <1>4 DEF Handlers
<1>6. WellBound(Handlers, cgNode, cgArg, Known(symbols), Fun)'
  BY <1>4, <1>5 DEF Bound
<1>7. top # <<>>
  <2>1. Len(fr) # 1 /\ Len(fr) \in Nat
    BY <1>1, GenFacts DEF IsTop, IsKept
  <2> QED BY <1>3, <2>1
<1> QED BY <1>1, <1>3, <1>4, <1>6, <1>7 DEF Generating, Outermost

LEMMA ToStay ==
  ASSUME Generating, Same, Outermost, cgArg = Len(Fun.args), UNCHANGED cgFrames,
         Bound(Handlers, cgNode')
  PROVE  Generating'
<1>1. Fun' = Fun /\ cgFn' = cgFn /\ cgArg' = cgArg /\ program' = program
  BY DEF Same, Fun
<1>2. Handlers' = Handlers
  BY <1>1 DEF Handlers
<1>3. WellBound(Handlers, cgNode, cgArg, Known(symbols), Fun)'
  BY <1>1, <1>2 DEF Bound
<1> QED BY <1>1, <1>3 DEF Generating, Outermost

-----------------------------------------------------------------------------
(* The handlers, one by one *)

Goes == phase' = phase /\ Generating'

(* What every step of a handler finds.                                     *)
Ready == Generating /\ Entered /\ UNCHANGED passed /\ UNCHANGED cgArg

LEMMA IsReady ==
  ASSUME Ready, UNCHANGED cgFn
  PROVE  Generating /\ Same /\ cgArg = Len(Fun.args)
<1>1. Generating /\ cgFrames # <<>>
  BY DEF Ready, Generating
<1>2. cgArg = Len(Fun.args)
  BY <1>1 DEF Ready, Entered, Arguments, Fun
<1> QED BY <1>1, <1>2 DEF Ready, Same, passed, vars

LEMMA Calm ==
  ASSUME Generating, UNCHANGED symbols
  PROVE  Outermost /\ Known(symbols') = Known(symbols)
  BY DEF Generating, Outermost

LEMMA HeldStill ==
  ASSUME NEW c, NEW m
  PROVE  StillHeld(c, c, m)
  BY DEF StillHeld

(* visitEIds of expressions that find their names.                         *)
LEMMA CalmEIds ==
  ASSUME Generating, visitEIds(symbols), AllFound(At(cgNode, cgFrames), symbols)
  PROVE  phase' = phase
<1>1. IsSeq(symbols) /\ Chain(Known(symbols))
  BY GenFacts DEF Generating
<1> QED BY <1>1, EIdsFound

LEMMA LeafStep ==
  ASSUME Ready, UNCHANGED symbols, visitEIds(symbols),
         Cg!visitSExp \/ Cg!visitSReturn \/ Cg!visitSReturnV
  PROVE  Goes
<1>1. /\ UNCHANGED cgFn /\ UNCHANGED cgFrames /\ cgNode' = NoStm
      /\ cgNode # NoStm /\ cgNode.op \in {"SExp", "SReturn", "SReturnV"}
  BY DEF Cg!visitSExp, Cg!visitSReturn, Cg!visitSReturnV, Cg!Entering, Cg!Leaf, Cg!fixed
<1>2. Generating /\ Same /\ cgArg = Len(Fun.args)
  BY <1>1, IsReady
<1>3. PICK h, c, F, nd, a : h = Handlers /\ c = Known(symbols) /\ F = Fun /\ nd = cgNode /\ a = cgArg
  OBVIOUS
<1>4. InOrder(h, nd, a, c, F) /\ Held(h, c)
  BY <1>2, <1>3, GenFacts
<1>5. InOrder(h, NoStm, a, c, F) /\ (nd.op # "SReturnV" => Found(nd.exps[1], c))
  BY <1>1, <1>3, <1>4, LeafOrder
<1>6. Outermost /\ Known(symbols') = c
  BY <1>2, <1>3, Calm
<1>7. Bound(Handlers, cgNode')
  BY <1>1, <1>3, <1>4, <1>5, <1>6 DEF Bound, WellBound
<1>8. Generating'
  BY <1>1, <1>2, <1>6, <1>7, ToStay
<1>9. At(cgNode, cgFrames) = nd
  BY <1>1, <1>3 DEF At
<1>10. AllFound(nd, symbols)
  <2>1. CASE nd.op \in {"SExp", "SReturn"}
    <3>1. Generated = <<Here>>
      BY <1>1, <1>3, <2>1 DEF Generated
    <3>2. \A k \in DOMAIN Generated : k = 1
      BY <3>1
    <3>3. Slot(nd, 1) = nd.exps[1]
      BY <2>1 DEF Slot
    <3> QED BY <1>3, <1>5, <2>1, <3>2, <3>3 DEF AllFound
  <2>2. CASE nd.op = "SReturnV"
    <3>1. Generated = <<>>
      BY <1>1, <1>3, <2>2 DEF Generated
    <3> QED BY <3>1 DEF AllFound
  <2> QED BY <1>1, <1>3, <2>1, <2>2
<1>11. phase' = phase
  BY <1>2, <1>9, <1>10, CalmEIds
<1> QED BY <1>8, <1>11 DEF Goes

LEMMA EnterStep ==
  ASSUME Ready, UNCHANGED symbols, visitEIds(symbols),
         Cg!visitSWhile \/ Cg!visitSDoWhile \/ Cg!visitSFor \/ Cg!visitSIfElse
  PROVE  Goes
<1>1. /\ UNCHANGED cgFn /\ cgNode # NoStm /\ cgNode' = cgNode.kids[1]
      /\ cgNode.op \in {"SWhile", "SDoWhile", "SFor", "SIfElse"}
      /\ \E b : cgFrames' = Append(cgFrames, Cg!Frame(cgNode, 1, b))
  <2>1. CASE Cg!visitSWhile
    BY <2>1 DEF Cg!visitSWhile, Cg!Entering, Cg!Call, Cg!fixed
  <2>2. CASE Cg!visitSDoWhile
    BY <2>2 DEF Cg!visitSDoWhile, Cg!Entering, Cg!Call, Cg!fixed
  <2>3. CASE Cg!visitSFor
    BY <2>3 DEF Cg!visitSFor, Cg!Entering, Cg!Call, Cg!fixed
  <2>4. CASE Cg!visitSIfElse
    BY <2>4 DEF Cg!visitSIfElse, Cg!Entering, Cg!Call, Cg!fixed
  <2> QED BY <2>1, <2>2, <2>3, <2>4
<1>2. Generating /\ Same /\ cgArg = Len(Fun.args)
  BY <1>1, IsReady
<1>3. PICK h, c, F, nd, a : h = Handlers /\ c = Known(symbols) /\ F = Fun /\ nd = cgNode /\ a = cgArg
  OBVIOUS
<1>4. /\ InOrder(h, nd, a, c, F) /\ Held(h, c) /\ nd \in Stm /\ Chain(c)
      /\ h \in Seq(FrameSet) /\ StackOK(h) /\ Len(c) = 1 + ScopeCount(h)
  BY <1>1, <1>2, <1>3, GenFacts
<1>5. PICK f, top : f = Frame(nd, 1) /\ top = Append(h, f)
  OBVIOUS
<1>6. /\ InOrder(top, nd.kids[1], a, c, F)
      /\ nd.op \in {"SWhile", "SIfElse"} => Found(nd.exps[1], c)
      /\ nd.op = "SFor" =>
           Found(nd.exps[1], c) /\ Found(nd.exps[2], c) /\ Found(nd.exps[3], c)
  BY <1>1, <1>3, <1>4, <1>5, EnterOrder
<1>7. Outermost /\ Known(symbols') = c
  BY <1>2, <1>3, Calm
<1>8. Held(top, c)
  <2>1. f \in FrameSet /\ f.stm = nd
    BY <1>4, <1>5 DEF Frame, FrameSet
  <2>2. Len(c) = 1 + ScopeCount(top) /\ ScopeCount(top) \in Nat /\ ScopeCount(h) \in Nat
    <3>1. StackOK(top)
      BY <1>6 DEF InOrder
    <3>2. ScopeCount(top) \in Nat /\ ScopeCount(h) \in Nat
      BY <1>4, <3>1, ScopesFinite
    <3> QED BY <1>6, <3>2 DEF InOrder
  <2>3. ScopeCount(top) >= ScopeCount(h)
    BY <1>4, <2>2
  <2>4. StillHeld(c, c, 1 + ScopeCount(top)) /\ StillHeld(c, c, Len(c))
    BY HeldStill
  <2>5. f.stm.op = "SFor" => Found(f.stm.exps[3], c)
    BY <1>6, <2>1
  <2>6. f.stm.op # "SDecls"
    BY <1>1, <1>3, <2>1
  <2> QED BY ONLY <1>4, <1>5, <2>1, <2>3, <2>4, <2>5, <2>6, HeldPush
<1>9. Bound(Append(Handlers, Frame(cgNode, 1)), cgNode')
  BY <1>1, <1>3, <1>5, <1>6, <1>7, <1>8 DEF Bound, WellBound
<1>10. Generating'
  BY <1>1, <1>2, <1>7, <1>9, ToCall
<1>11. At(cgNode, cgFrames) = nd
  BY <1>1, <1>3 DEF At
<1>12. AllFound(nd, symbols)
  <2>1. CASE nd.op \in {"SWhile", "SIfElse"}
    <3>1. \A k \in DOMAIN Generated : k = 1
      BY <1>1, <1>3, <2>1 DEF Generated
    <3>2. Slot(nd, 1) = nd.exps[1]
      BY <2>1 DEF Slot
    <3> QED BY <1>3, <1>6, <2>1, <3>1, <3>2 DEF AllFound
  <2>2. CASE nd.op = "SFor"
    <3>1. \A k \in DOMAIN Generated : k = 1 \/ k = 2
      BY <1>1, <1>3, <2>2 DEF Generated
    <3>2. Slot(nd, 1) = nd.exps[1] /\ Slot(nd, 2) = nd.exps[2]
      BY <2>2 DEF Slot
    <3> QED BY <1>3, <1>6, <2>2, <3>1, <3>2 DEF AllFound
  <2>3. CASE nd.op = "SDoWhile"
    <3>1. Generated = <<>>
      BY <1>1, <1>3, <2>3 DEF Generated
    <3> QED BY <3>1 DEF AllFound
  <2> QED BY <1>1, <1>3, <2>1, <2>2, <2>3
<1>13. phase' = phase
  BY <1>2, <1>11, <1>12, CalmEIds
<1> QED BY <1>10, <1>13 DEF Goes

LEMMA DeclsStep ==
  ASSUME Ready, UNCHANGED symbols, visitEIds(symbols), Cg!visitSDecls
  PROVE  Goes
<1>1. /\ UNCHANGED cgFn /\ cgNode # NoStm /\ cgNode' = NoStm /\ cgNode.op = "SDecls"
      /\ cgFrames' = Append(cgFrames, Cg!Frame(cgNode, 0, 0))
  BY DEF Cg!visitSDecls, Cg!Entering, Cg!Call, Cg!fixed
<1>2. Generating /\ Same /\ cgArg = Len(Fun.args)
  BY <1>1, IsReady
<1>3. PICK h, c, F, nd, a : h = Handlers /\ c = Known(symbols) /\ F = Fun /\ nd = cgNode /\ a = cgArg
  OBVIOUS
<1>4. /\ InOrder(h, nd, a, c, F) /\ Held(h, c) /\ nd \in Stm /\ Chain(c)
      /\ h \in Seq(FrameSet) /\ StackOK(h) /\ Len(c) = 1 + ScopeCount(h)
  BY <1>1, <1>2, <1>3, GenFacts
<1>5. PICK f, top : f = Frame(nd, 0) /\ top = Append(h, f)
  OBVIOUS
<1>6. InOrder(top, NoStm, a, c, F) /\ findBasicType(types, nd.type) # TYPE_VOID
  BY <1>1, <1>3, <1>4, <1>5, DeclsOrder
<1>7. Outermost /\ Known(symbols') = c
  BY <1>2, <1>3, Calm
<1>8. Held(top, c)
  <2>1. f \in FrameSet /\ f.stm = nd
    BY <1>4, <1>5 DEF Frame, FrameSet
  <2>2. Len(c) = 1 + ScopeCount(top) /\ ScopeCount(top) \in Nat /\ ScopeCount(h) \in Nat
    <3>1. StackOK(top)
      BY <1>6 DEF InOrder
    <3>2. ScopeCount(top) \in Nat /\ ScopeCount(h) \in Nat
      BY <1>4, <3>1, ScopesFinite
    <3> QED BY <1>6, <3>2 DEF InOrder
  <2>3. ScopeCount(top) >= ScopeCount(h)
    BY <1>4, <2>2
  <2>4. StillHeld(c, c, 1 + ScopeCount(top)) /\ StillHeld(c, c, Len(c))
    BY HeldStill
  <2>5. f.stm.op # "SFor" /\ findBasicType(types, f.stm.type) # TYPE_VOID
    BY <1>1, <1>3, <1>6, <2>1
  <2> QED BY ONLY <1>4, <1>5, <2>1, <2>3, <2>4, <2>5, HeldPush
<1>9. Bound(Append(Handlers, Frame(cgNode, 0)), cgNode')
  BY <1>1, <1>3, <1>5, <1>6, <1>7, <1>8 DEF Bound, WellBound
<1>10. Generating'
  BY <1>1, <1>2, <1>7, <1>9, ToCall
<1>11. Generated = <<>>
  BY <1>1 DEF Generated
<1>12. phase' = phase
  BY <1>2, <1>11, CalmEIds DEF AllFound
<1> QED BY <1>10, <1>12 DEF Goes

LEMMA BlockStep ==
  ASSUME Ready, UNCHANGED phase, Cg!visitSBlock, beginCodeGenContext
  PROVE  Goes
<1>1. /\ UNCHANGED cgFn /\ cgNode # NoStm /\ cgNode' = NoStm /\ cgNode.op = "SBlock"
      /\ cgFrames' = Append(cgFrames, Cg!Frame(cgNode, 0, 0))
  BY DEF Cg!visitSBlock, Cg!Entering, Cg!Call, Cg!fixed
<1>2. Generating /\ Same /\ cgArg = Len(Fun.args)
  BY <1>1, IsReady
<1>3. PICK h, c, F, nd, a : h = Handlers /\ c = Known(symbols) /\ F = Fun /\ nd = cgNode /\ a = cgArg
  OBVIOUS
<1>4. /\ InOrder(h, nd, a, c, F) /\ Held(h, c) /\ nd \in Stm /\ Chain(c)
      /\ h \in Seq(FrameSet) /\ StackOK(h) /\ Len(c) = 1 + ScopeCount(h)
  BY <1>1, <1>2, <1>3, GenFacts
<1>5. PICK f, top, d : f = Frame(nd, 0) /\ top = Append(h, f) /\ d = Append(c, NoMembers)
  OBVIOUS
<1>6. InOrder(top, NoStm, a, d, F)
  BY <1>1, <1>3, <1>4, <1>5, BlockOrder
<1>7. IsSeq(symbols) /\ symbols[1] = NoMembers /\ symbols' = Append(symbols, NoMembers)
  BY <1>2 DEF Generating, beginCodeGenContext
<1>8. Outermost /\ Known(symbols') = d
  <2>1. IsSeq(symbols') /\ Known(symbols') = Append(Known(symbols), NoMembers)
    BY <1>7, KnownOpen
  <2>2. symbols'[1] = symbols[1]
    <3>1. Len(symbols) > 1 /\ Len(symbols) \in Nat
      BY <1>2, GenFacts DEF IsKnown
    <3>2. IsPush(symbols, NoMembers, symbols')
      BY <1>7, Push
    <3> QED BY <3>1, <3>2 DEF IsPush
  <2> QED BY <1>3, <1>5, <1>7, <2>1, <2>2 DEF Outermost
<1>9. Held(top, d)
  <2>1. f \in FrameSet /\ f.stm = nd
    BY <1>4, <1>5 DEF Frame, FrameSet
  <2>2. ScopeCount(top) \in Nat /\ ScopeCount(h) \in Nat /\ Len(d) = 1 + ScopeCount(top)
    <3>1. StackOK(top) /\ Len(d) = 1 + ScopeCount(top)
      BY <1>6 DEF InOrder
    <3> QED BY <1>4, <3>1, ScopesFinite
  <2>3. c \in Seq(Maps)
    BY <1>4, ChainFacts
  <2>4. ScopeCount(top) >= ScopeCount(h)
    <3>1. Len(d) = Len(c) + 1 /\ Len(c) \in Nat
      BY <1>5, <2>3, NoMembersMap
    <3> QED BY <1>4, <2>2, <3>1
  <2>5. \A i \in DOMAIN c : i \in DOMAIN d /\ DOMAIN c[i] \subseteq DOMAIN d[i]
    BY <1>5, <2>3, NoMembersMap
  <2>6. StillHeld(c, d, 1 + ScopeCount(top)) /\ StillHeld(c, d, Len(c))
    BY <2>5, HeldMore
  <2>7. f.stm.op # "SFor" /\ f.stm.op # "SDecls"
    BY <1>1, <1>3, <2>1
  <2> QED BY ONLY <1>4, <1>5, <2>1, <2>4, <2>6, <2>7, HeldPush
<1>10. Bound(Append(Handlers, Frame(cgNode, 0)), cgNode')
  BY <1>1, <1>3, <1>5, <1>6, <1>8, <1>9 DEF Bound, WellBound
<1>11. Generating'
  BY <1>1, <1>2, <1>8, <1>10, ToCall
<1> QED BY <1>11 DEF Goes

LEMMA NextStep ==
  ASSUME Ready, UNCHANGED symbols, visitEIds(symbols), Cg!visitNext
  PROVE  Goes
<1>1. PICK e, f : IsTop(e, f)
  BY TopIs DEF Ready
<1>2. /\ UNCHANGED cgFn /\ cgNode = NoStm /\ e.stm.op \in {"DFun", "SBlock"}
      /\ e.pos < Len(e.stm.kids) /\ cgNode' = e.stm.kids[e.pos + 1]
      /\ cgFrames' = Append(SubSeq(cgFrames, 1, Len(cgFrames) - 1), [e EXCEPT !.pos = @ + 1])
  BY <1>1 DEF IsTop, Cg!visitNext, Cg!InList, Cg!Top, Cg!Pop, Cg!fixed
<1>3. Generating /\ Same /\ cgArg = Len(Fun.args)
  BY <1>2, IsReady
<1>4. PICK h, c, F, nd, a : h = Handlers /\ c = Known(symbols) /\ F = Fun /\ nd = cgNode /\ a = cgArg
  OBVIOUS
<1>5. InOrder(h, NoStm, a, c, F) /\ Held(h, c) /\ h \in Seq(FrameSet) /\ h # <<>> /\ Chain(c)
  BY <1>2, <1>3, <1>4, GenFacts
<1>6. /\ f = h[Len(h)] /\ f.stm.op = e.stm.op /\ f.stm.kids = e.stm.kids /\ f.pos = e.pos
      /\ f \in FrameSet /\ f.pos \in Nat /\ f = Frame(f.stm, f.pos)
      /\ f.stm.op = "DFun" => f.stm = F
  BY <1>1, <1>4 DEF IsTop
<1>7. PICK p, g, top : /\ p = f.pos + 1 /\ g = [f EXCEPT !.pos = @ + 1]
                       /\ top = Append(SubSeq(h, 1, Len(h) - 1), g)
  OBVIOUS
<1>8. InOrder(top, f.stm.kids[p], a, c, F)
  <2>1. f.stm.op = "DFun" => a = Len(f.stm.args)
    BY <1>3, <1>4, <1>6
  <2> QED BY <1>2, <1>5, <1>6, <1>7, <2>1, NextOrder
<1>9. Outermost /\ Known(symbols') = c
  BY <1>3, <1>4, Calm
<1>10. g = Frame(f.stm, p) /\ [e EXCEPT !.pos = @ + 1] = Cg!Frame(e.stm, p, e.base)
  <2>1. e = Cg!Frame(e.stm, e.pos, e.base)
    BY <1>1 DEF IsTop
  <2> QED BY <1>6, <1>7, <2>1 DEF Frame, Cg!Frame
<1>11. Held(top, c)
  <2>1. g \in FrameSet /\ g.stm = f.stm
    BY <1>6, <1>7 DEF FrameSet
  <2>2. StillHeld(c, c, 1 + ScopeCount(top))
    BY HeldStill
  <2> QED BY ONLY <1>5, <1>6, <1>7, <2>1, <2>2, HeldNext
<1>12. Bound(Append(SubSeq(Handlers, 1, Len(Handlers) - 1), Frame(f.stm, p)), cgNode')
  BY <1>2, <1>4, <1>6, <1>7, <1>8, <1>9, <1>10, <1>11 DEF Bound, WellBound
<1>13. Generating'
  BY <1>1, <1>2, <1>3, <1>9, <1>10, <1>12, ToOn
<1>14. Generated = <<>>
  <2>1. cgFrames[Len(cgFrames)] = e
    BY <1>1 DEF IsTop
  <2> QED BY <1>2, <2>1 DEF Generated, Cg!Resuming, Cg!InDecls, Cg!Top
<1>15. phase' = phase
  BY <1>3, <1>14, CalmEIds DEF AllFound
<1> QED BY <1>13, <1>15 DEF Goes

LEMMA ElseStep ==
  ASSUME Ready, UNCHANGED symbols, visitEIds(symbols), Cg!elseSIfElse
  PROVE  Goes
<1>1. PICK e, f : IsTop(e, f)
  BY TopIs DEF Ready
<1>2. /\ UNCHANGED cgFn /\ cgNode = NoStm /\ e.stm.op = "SIfElse"
      /\ e.pos = 1 /\ cgNode' = e.stm.kids[2]
      /\ cgFrames' = Append(SubSeq(cgFrames, 1, Len(cgFrames) - 1), [e EXCEPT !.pos = 2])
  BY <1>1 DEF IsTop, Cg!elseSIfElse, Cg!Resuming, Cg!Top, Cg!Pop, Cg!fixed
<1>3. Generating /\ Same /\ cgArg = Len(Fun.args)
  BY <1>2, IsReady
<1>4. PICK h, c, F, nd, a : h = Handlers /\ c = Known(symbols) /\ F = Fun /\ nd = cgNode /\ a = cgArg
  OBVIOUS
<1>5. InOrder(h, NoStm, a, c, F) /\ Held(h, c) /\ h \in Seq(FrameSet) /\ h # <<>> /\ Chain(c)
  BY <1>2, <1>3, <1>4, GenFacts
<1>6. /\ f = h[Len(h)] /\ e.stm = f.stm /\ f.pos = e.pos
      /\ f \in FrameSet /\ f = Frame(f.stm, f.pos)
  BY <1>1, <1>2, <1>4 DEF IsTop
<1>7. PICK g, top : /\ g = [f EXCEPT !.pos = @ + 1]
                    /\ top = Append(SubSeq(h, 1, Len(h) - 1), g)
  OBVIOUS
<1>8. InOrder(top, f.stm.kids[2], a, c, F)
  BY <1>2, <1>5, <1>6, <1>7, ElseOrder
<1>9. Outermost /\ Known(symbols') = c
  BY <1>3, <1>4, Calm
<1>10. g = Frame(f.stm, 2) /\ [e EXCEPT !.pos = 2] = Cg!Frame(e.stm, 2, e.base)
  <2>1. e = Cg!Frame(e.stm, e.pos, e.base)
    BY <1>1 DEF IsTop
  <2> QED BY <1>2, <1>6, <1>7, <2>1 DEF Frame, Cg!Frame
<1>11. Held(top, c)
  <2>1. g \in FrameSet /\ g.stm = f.stm
    BY <1>2, <1>6, <1>7 DEF FrameSet
  <2>2. StillHeld(c, c, 1 + ScopeCount(top))
    BY HeldStill
  <2> QED BY ONLY <1>5, <1>6, <1>7, <2>1, <2>2, HeldNext
<1>12. Bound(Append(SubSeq(Handlers, 1, Len(Handlers) - 1), Frame(f.stm, 2)), cgNode')
  BY <1>2, <1>4, <1>6, <1>7, <1>8, <1>9, <1>10, <1>11 DEF Bound, WellBound
<1>13. Generating'
  BY <1>1, <1>2, <1>3, <1>9, <1>10, <1>12, ToOn
<1>14. Generated = <<>>
  <2>1. cgFrames[Len(cgFrames)] = e
    BY <1>1 DEF IsTop
  <2> QED BY <1>2, <2>1 DEF Generated, Cg!Resuming, Cg!InDecls, Cg!Top
<1>15. phase' = phase
  BY <1>3, <1>14, CalmEIds DEF AllFound
<1> QED BY <1>13, <1>15 DEF Goes

LEMMA EndStep ==
  ASSUME Ready, UNCHANGED symbols, visitEIds(symbols),
         Cg!endSDecls \/ Cg!endSWhile \/ Cg!endSDoWhile \/ Cg!endSFor \/ Cg!endSIfElse
  PROVE  Goes
<1>1. PICK e, f : IsTop(e, f)
  BY TopIs DEF Ready
<1>2. e = Cg!Top /\ e = cgFrames[Len(cgFrames)]
  BY <1>1 DEF IsTop, Cg!Top
<1>3. /\ UNCHANGED cgFn /\ cgNode = NoStm /\ cgNode' = NoStm
      /\ cgFrames' = SubSeq(cgFrames, 1, Len(cgFrames) - 1)
  BY DEF Cg!endSDecls, Cg!endSWhile, Cg!endSDoWhile, Cg!endSFor, Cg!endSIfElse, Cg!Resuming,
         Cg!InDecls, Cg!Return, Cg!Pop, Cg!fixed
<1>4. \/ e.stm.op \in {"SWhile", "SFor", "SDoWhile"}
      \/ e.stm.op = "SIfElse" /\ e.pos = 2
      \/ e.stm.op = "SDecls" /\ e.pos = Len(e.stm.exps)
  BY <1>2 DEF Cg!endSDecls, Cg!endSWhile, Cg!endSDoWhile, Cg!endSFor, Cg!endSIfElse, Cg!Resuming,
              Cg!InDecls
<1>5. e.stm = f.stm /\ f.pos = e.pos /\ f.stm \in Stm /\ f.stm.op # "DFun"
  BY <1>1, <1>4 DEF IsTop
<1>6. Generating /\ Same /\ cgArg = Len(Fun.args)
  BY <1>3, IsReady
<1>7. PICK h, c, F, nd, a : h = Handlers /\ c = Known(symbols) /\ F = Fun /\ nd = cgNode /\ a = cgArg
  OBVIOUS
<1>8. InOrder(h, NoStm, a, c, F) /\ Held(h, c) /\ h \in Seq(FrameSet) /\ h # <<>> /\ Chain(c)
  BY <1>3, <1>6, <1>7, GenFacts
<1>9. f = h[Len(h)]
  BY <1>1, <1>7 DEF IsTop
<1>10. PICK front : front = SubSeq(h, 1, Len(h) - 1)
  OBVIOUS
<1>11. InOrder(front, NoStm, a, c, F) /\ (f.stm.op = "SDoWhile" => Found(f.stm.exps[1], c))
  BY <1>4, <1>5, <1>8, <1>9, <1>10, EndOrder
<1>12. Outermost /\ Known(symbols') = c
  BY <1>6, <1>7, Calm
<1>13. Held(front, c)
  BY <1>8, <1>10, HeldStill, HeldPop
<1>14. Bound(SubSeq(Handlers, 1, Len(Handlers) - 1), cgNode')
  BY <1>3, <1>7, <1>10, <1>11, <1>12, <1>13 DEF Bound, WellBound
<1>15. Generating'
  BY <1>1, <1>3, <1>5, <1>6, <1>12, <1>14, ToReturn
<1>16. PICK s : s = f.stm
  OBVIOUS
<1>17. At(cgNode, cgFrames) = s
  BY <1>2, <1>3, <1>5, <1>16 DEF At
<1>18. AllFound(s, symbols)
  <2>1. CASE s.op = "SDoWhile"
    <3>1. \A k \in DOMAIN Generated : k = 1
      BY <1>2, <1>3, <1>5, <1>16, <2>1 DEF Generated, Cg!Resuming, Cg!InDecls
    <3>2. Slot(s, 1) = s.exps[1]
      BY <2>1 DEF Slot
    <3> QED BY <1>7, <1>11, <1>16, <2>1, <3>1, <3>2 DEF AllFound
  <2>2. CASE s.op = "SFor"
    <3>1. Generated # <<>> => \A k \in DOMAIN Generated : k = 3
      BY <1>2, <1>3, <1>5, <1>16, <2>2 DEF Generated, Cg!Resuming, Cg!InDecls
    <3>2. Slot(s, 3) = s.exps[3]
      BY <2>2 DEF Slot
    <3>3. Found(s.exps[3], c)
      <4>1. PICK i : i = Len(h)
        OBVIOUS
      <4>2. i \in 1 .. Len(h) /\ h[i].stm = s
        BY <1>8, <1>9, <1>16, <4>1, EmptySeq
      <4>3. HeldBelow(s.exps[3], c, 1 + Depth(h, i))
        BY <1>8, <2>2, <4>2 DEF Held, StepsKnown
      <4> QED BY <4>3 DEF HeldBelow, Found
    <3> QED BY <1>7, <3>1, <3>2, <3>3 DEF AllFound
  <2>3. CASE s.op = "SDecls"
    <3>1. \A k \in DOMAIN Generated : k = Len(s.exps) + 1
      BY <1>2, <1>3, <1>4, <1>5, <1>16, <2>3 DEF Generated, Cg!Resuming, Cg!InDecls
    <3>2. Len(s.exps) + 1 \notin DOMAIN s.exps
      <4>1. s.exps \in Seq(IdIn)
        BY <1>5, <1>16, <2>3, StmParts
      <4> QED BY <4>1
    <3> QED BY <3>1, <3>2 DEF AllFound
  <2>4. CASE s.op \in {"SWhile", "SIfElse"}
    <3>1. Generated = <<>>
      BY <1>2, <1>3, <1>5, <1>16, <2>4 DEF Generated, Cg!Resuming, Cg!InDecls
    <3> QED BY <3>1 DEF AllFound
  <2> QED BY <1>4, <1>5, <1>16, <2>1, <2>2, <2>3, <2>4
<1>19. phase' = phase
  BY <1>6, <1>17, <1>18, CalmEIds
<1> QED BY <1>15, <1>19 DEF Goes

LEMMA EndBlockStep ==
  ASSUME Ready, UNCHANGED phase, Cg!endSBlock, endCodeGenContext
  PROVE  Goes
<1>1. PICK e, f : IsTop(e, f)
  BY TopIs DEF Ready
<1>2. /\ UNCHANGED cgFn /\ cgNode = NoStm /\ cgNode' = NoStm /\ e.stm.op = "SBlock"
      /\ cgFrames' = SubSeq(cgFrames, 1, Len(cgFrames) - 1)
  BY <1>1 DEF IsTop, Cg!endSBlock, Cg!ListDone, Cg!InList, Cg!Return, Cg!Top, Cg!Pop, Cg!fixed
<1>3. f.stm.op = "SBlock"
  BY <1>1, <1>2 DEF IsTop
<1>4. Generating /\ Same /\ cgArg = Len(Fun.args)
  BY <1>2, IsReady
<1>5. PICK h, c, F, nd, a : h = Handlers /\ c = Known(symbols) /\ F = Fun /\ nd = cgNode /\ a = cgArg
  OBVIOUS
<1>6. /\ InOrder(h, NoStm, a, c, F) /\ Held(h, c) /\ h \in Seq(FrameSet) /\ h # <<>> /\ Chain(c)
      /\ Len(symbols) > 1
  BY <1>2, <1>4, <1>5, GenFacts
<1>7. f = h[Len(h)]
  BY <1>1, <1>5 DEF IsTop
<1>8. PICK front, d : front = SubSeq(h, 1, Len(h) - 1) /\ d = SubSeq(c, 1, Len(c) - 1)
  OBVIOUS
<1>9. Len(c) > 1 /\ InOrder(front, NoStm, a, d, F)
  BY <1>3, <1>6, <1>7, <1>8, EndBlockOrder
<1>10. IsSeq(symbols) /\ symbols # <<>> /\ symbols[1] = NoMembers
  BY <1>4, GenFacts DEF Generating
<1>11. symbols' = SubSeq(symbols, 1, Len(symbols) - 1)
  BY DEF endCodeGenContext
<1>12. Outermost /\ Known(symbols') = d
  <2>1. IsSeq(symbols') /\ Known(symbols') = SubSeq(Known(symbols), 1, Len(Known(symbols)) - 1)
    BY <1>10, <1>11, KnownClose
  <2>2. symbols'[1] = symbols[1]
    <3>1. IsPop(symbols, symbols') /\ Len(symbols) \in Nat
      BY <1>10, <1>11, PopSeq, SeqIs
    <3>2. 1 \in 1 .. Len(symbols) - 1
      BY <1>6, <3>1
    <3> QED BY <3>1, <3>2 DEF IsPop
  <2> QED BY <1>5, <1>8, <1>10, <2>1, <2>2 DEF Outermost
<1>13. Held(front, d)
  <2>1. Len(d) = 1 + ScopeCount(front)
    BY <1>9 DEF InOrder
  <2>2. StillHeld(c, d, 1 + ScopeCount(front))
    BY <1>6, <1>8, <1>9, <2>1, HeldLess
  <2> QED BY <1>6, <1>8, <2>2, HeldPop
<1>14. Bound(SubSeq(Handlers, 1, Len(Handlers) - 1), cgNode')
  BY <1>2, <1>5, <1>8, <1>9, <1>12, <1>13 DEF Bound, WellBound
<1>15. Generating'
  BY <1>1, <1>2, <1>3, <1>4, <1>12, <1>14, ToReturn
<1> QED BY <1>15 DEF Goes

LEMMA EndFunctionStep ==
  ASSUME Ready, UNCHANGED phase, Cg!endDFun, endCodeGenContext
  PROVE  phase' = phase /\ Between'
<1>1. PICK e, f : IsTop(e, f)
  BY TopIs DEF Ready
<1>2. /\ UNCHANGED cgFn /\ cgNode = NoStm /\ cgNode' = NoStm /\ e.stm.op = "DFun"
      /\ cgFrames' = SubSeq(cgFrames, 1, Len(cgFrames) - 1)
  BY <1>1 DEF IsTop, Cg!endDFun, Cg!ListDone, Cg!InList, Cg!Return, Cg!Top, Cg!Pop
<1>3. f.stm.op = "DFun" /\ Len(cgFrames) = 1
  BY <1>1, <1>2 DEF IsTop
<1>4. Generating /\ Same
  BY <1>2, IsReady
<1>5. PICK h, c, F, nd, a : h = Handlers /\ c = Known(symbols) /\ F = Fun /\ nd = cgNode /\ a = cgArg
  OBVIOUS
<1>6. InOrder(h, NoStm, a, c, F) /\ f = h[Len(h)] /\ IsKnown(symbols, c)
  BY <1>1, <1>2, <1>4, <1>5, GenFacts DEF IsTop
<1>7. Len(c) = 2
  BY <1>3, <1>6, EndFunction
<1>8. Len(symbols) = 2 /\ symbols # <<>> /\ IsSeq(symbols) /\ symbols[1] = NoMembers
  BY <1>4, <1>6, <1>7, GenFacts DEF IsKnown, Generating
<1>9. symbols' = <<NoMembers>>
  <2>1. IsPop(symbols, symbols')
    BY <1>8, PopSeq DEF endCodeGenContext
  <2>2. IsSeq(symbols') /\ Len(symbols') = 1 /\ symbols'[1] = NoMembers
    BY <1>8, <2>1 DEF IsPop
  <2>3. PICK S : symbols' \in Seq(S)
    BY <2>2 DEF IsSeq
  <2> QED BY <2>2, <2>3
<1>10. cgFrames' = <<>>
  BY <1>2, <1>3 DEF Generating
<1>11. cgFn' \in 0 .. Len(program') 
  BY <1>4 DEF Generating, Same
<1> QED BY <1>2, <1>9, <1>10, <1>11 DEF Between

(* A name that gets its alloca is new, and of a type to declare with.      *)
AddsName ==
  \E x \in Id : \E place : \E type \in DOMAIN types \ {TYPE_VOID} :
    /\ x \notin DOMAIN symbols[Len(symbols)]
    /\ symbols' = Added(x, Symbol(place, type))

LEMMA Adding ==
  ASSUME Generating, NEW x, NEW p, NEW t, symbols' = Added(x, Symbol(p, t)),
         NEW c, c = Known(symbols), NEW d, d = [c EXCEPT ![Len(c)] = Emplace(c[Len(c)], x, t)]
  PROVE  /\ Outermost /\ Known(symbols') = d
         /\ DOMAIN c[Len(c)] = DOMAIN symbols[Len(symbols)]
<1>1. PICK s, old, new : s = Symbol(p, t) /\ old = symbols /\ new = symbols'
  OBVIOUS
<1>2. s.type = t
  BY <1>1 DEF Symbol
<1>3. IsSeq(old) /\ old # <<>> /\ Len(old) > 1 /\ old[1] = NoMembers
  BY <1>1, GenFacts DEF Generating
<1>4. new = [old EXCEPT ![Len(old)] = Emplace(@, x, s)]
  BY <1>1 DEF Added
<1>5. IsAdd(old, new, x, s)
  BY ONLY <1>3, <1>4, KnownAdd
<1>6. IsKnown(old, c)
  BY <1>1, <1>3, KnownIs
<1>7. Len(old) \in 1 .. Len(old)
  BY <1>3, <1>6 DEF IsKnown
<1>8. DOMAIN c[Len(c)] = DOMAIN old[Len(old)]
  BY <1>6, <1>7 DEF IsKnown
<1>9. Known(new) = d
  BY <1>1, <1>2, <1>5 DEF IsAdd
<1>10. IsSeq(new) /\ new[1] = NoMembers
  BY <1>3, <1>5 DEF IsAdd
<1> QED BY <1>1, <1>8, <1>9, <1>10 DEF Outermost

IsMore(c, d) == \A i \in DOMAIN c : i \in DOMAIN d /\ DOMAIN c[i] \subseteq DOMAIN d[i]

LEMMA MoreKnown ==
  ASSUME NEW c, NEW x, NEW t, NEW d, d = [c EXCEPT ![Len(c)] = Emplace(c[Len(c)], x, t)]
  PROVE  IsMore(c, d)
<1>1. SUFFICES ASSUME NEW i \in DOMAIN c PROVE i \in DOMAIN d /\ DOMAIN c[i] \subseteq DOMAIN d[i]
  BY DEF IsMore
<1>2. DOMAIN c[Len(c)] \subseteq DOMAIN Emplace(c[Len(c)], x, t)
  BY DEF Emplace
<1> QED BY <1>1, <1>2

LEMMA StillFound ==
  ASSUME NEW c, NEW d, \A i \in DOMAIN c : i \in DOMAIN d /\ DOMAIN c[i] \subseteq DOMAIN d[i],
         NEW e, Found(e, c)
  PROVE  Found(e, d)
  BY DEF Found, Holders

TypeToDeclare ==
  findBasicType(types, cgFrames[Len(cgFrames)].stm.type) \in DOMAIN types \ {TYPE_VOID}

LEMMA IdStep ==
  ASSUME visitDeclarator, Generating
  PROVE  Goes /\ AddsName /\ TypeToDeclare
<1>1. PICK e, f : IsTop(e, f)
  BY TopIs
<1>2. Ready /\ Cg!visitIdInit
  BY DEF visitDeclarator, Ready
<1>3. /\ UNCHANGED cgFn /\ cgNode = NoStm /\ UNCHANGED cgNode
      /\ e.stm.op = "SDecls" /\ e.pos < Len(e.stm.exps)
      /\ cgFrames' = Append(SubSeq(cgFrames, 1, Len(cgFrames) - 1), [e EXCEPT !.pos = @ + 1])
  BY <1>1, <1>2 DEF IsTop, Cg!visitIdInit, Cg!InDecls, Cg!Top, Cg!Pop, Cg!fixed
<1>4. Same /\ cgArg = Len(Fun.args)
  BY <1>2, <1>3, IsReady
<1>5. PICK h, c, F, nd, a : h = Handlers /\ c = Known(symbols) /\ F = Fun /\ nd = cgNode /\ a = cgArg
  OBVIOUS
<1>6. InOrder(h, NoStm, a, c, F) /\ Held(h, c) /\ h \in Seq(FrameSet) /\ h # <<>> /\ Chain(c)
  BY <1>3, <1>5, GenFacts
<1>7. /\ f = h[Len(h)] /\ e.stm = f.stm /\ f.pos = e.pos /\ f.stm \in Stm
      /\ f \in FrameSet /\ f = Frame(f.stm, f.pos) /\ f.pos \in Nat
  BY <1>1, <1>3, <1>5 DEF IsTop
<1>8. PICK s, id, t : s = f.stm /\ id = s.exps[f.pos + 1] /\ t = findBasicType(types, s.type)
  OBVIOUS
<1>9. PICK g, top, d : /\ g = [f EXCEPT !.pos = @ + 1]
                       /\ top = Append(SubSeq(h, 1, Len(h) - 1), g)
                       /\ d = [c EXCEPT ![Len(c)] = Emplace(c[Len(c)], id.name, t)]
  OBVIOUS
<1>10. /\ id \in IdIn /\ id.name \in Id /\ t \in DOMAIN types
       /\ id.name \notin DOMAIN c[Len(c)]
       /\ id.init # NoInit => Found(id.init, c)
       /\ InOrder(top, NoStm, a, d, F)
  <2>1. /\ s.op = "SDecls" /\ f.pos < Len(s.exps)
        /\ InOrder(h, NoStm, a, c, F) /\ f = h[Len(h)]
    BY <1>3, <1>6, <1>7, <1>8
  <2>2. NewId(id, t, c, top, a, d, F)
    BY ONLY <1>8, <1>9, <2>1, IdOrder
  <2> QED BY ONLY <2>2 DEF NewId
<1>11. t # TYPE_VOID
  <2>1. PICK i : i = Len(h)
    OBVIOUS
  <2>2. i \in 1 .. Len(h) /\ h[i].stm = s
    BY <1>6, <1>7, <1>8, <2>1, EmptySeq
  <2> QED BY <1>3, <1>6, <1>7, <1>8, <2>2 DEF Held, NoVoids
<1>12. PICK p, known : /\ p = Append(Path(cgFn, NoStm, cgFrames), e.pos + 1)
                       /\ known = Added(id.name, Symbol(p, t))
  OBVIOUS
<1>13. symbols' = known /\ visitEIds(known)
  <2>1. cgFrames[Len(cgFrames)] = e
    BY <1>1 DEF IsTop
  <2> QED BY <1>7, <1>8, <1>12, <2>1 DEF visitDeclarator
<1>14. Outermost /\ Known(symbols') = d /\ DOMAIN c[Len(c)] = DOMAIN symbols[Len(symbols)]
  BY <1>5, <1>9, <1>12, <1>13, Adding
<1>15. AddsName
  BY <1>10, <1>11, <1>12, <1>13, <1>14 DEF AddsName
<1>16. g = Frame(f.stm, e.pos + 1) /\ [e EXCEPT !.pos = @ + 1] = Cg!Frame(e.stm, e.pos + 1, e.base)
  <2>1. e = Cg!Frame(e.stm, e.pos, e.base)
    BY <1>1 DEF IsTop
  <2> QED BY <1>7, <1>9, <2>1 DEF Frame, Cg!Frame
<1>17. \A i \in DOMAIN c : i \in DOMAIN d /\ DOMAIN c[i] \subseteq DOMAIN d[i]
  <2>1. PICK x : x = id.name
    OBVIOUS
  <2>2. d = [c EXCEPT ![Len(c)] = Emplace(c[Len(c)], x, t)]
    BY <1>9, <2>1
  <2>3. IsMore(c, d)
    BY ONLY <2>2, MoreKnown
  <2> QED BY ONLY <2>3 DEF IsMore
<1>18. Held(top, d)
  <2>1. g \in FrameSet /\ g.stm = f.stm
    BY <1>7, <1>9 DEF FrameSet
  <2>2. StillHeld(c, d, 1 + ScopeCount(top))
    BY <1>17, HeldMore
  <2> QED BY ONLY <1>6, <1>7, <1>9, <2>1, <2>2, HeldNext
<1>19. Bound(Append(SubSeq(Handlers, 1, Len(Handlers) - 1), Frame(f.stm, e.pos + 1)), cgNode')
  BY <1>3, <1>5, <1>9, <1>10, <1>14, <1>16, <1>18 DEF Bound, WellBound
<1>20. Generating'
  BY <1>1, <1>3, <1>4, <1>14, <1>16, <1>19, ToOn
<1>21. At(cgNode, cgFrames) = s
  BY <1>1, <1>3, <1>7, <1>8 DEF At, IsTop
<1>22. AllFound(s, known)
  <2>1. \A k \in DOMAIN Generated : k = f.pos + 1
    <3>1. cgFrames[Len(cgFrames)] = e
      BY <1>1 DEF IsTop
    <3> QED BY <1>3, <1>7, <3>1, <1>2 DEF Generated, Cg!Resuming, Cg!InDecls, Cg!Top, Cg!visitIdInit
  <2>2. Slot(s, f.pos + 1) = id.init
    BY <1>3, <1>7, <1>8 DEF Slot
  <2>3. id.init # NoInit => Found(id.init, d)
    BY <1>10, <1>17, StillFound
  <2>4. Known(known) = d
    BY <1>13, <1>14
  <2> QED BY <2>1, <2>2, <2>3, <2>4 DEF AllFound
<1>23. IsSeq(known) /\ Chain(Known(known))
  BY <1>10, <1>13, <1>14 DEF Outermost, InOrder
<1>24. phase' = phase
  BY <1>13, <1>21, <1>22, <1>23, EIdsFound
<1>25. TypeToDeclare
  BY <1>1, <1>7, <1>8, <1>10, <1>11 DEF TypeToDeclare, IsTop
<1> QED BY <1>15, <1>20, <1>24, <1>25 DEF Goes

LEMMA ArgStep ==
  ASSUME visitArgument, Generating
  PROVE  Goes /\ AddsName
<1>1. PICK h, c, F, a, one : /\ h = Handlers /\ c = Known(symbols) /\ F = Fun /\ a = cgArg
                             /\ one = Arguments[cgArg + 1]
  OBVIOUS
<1>2. /\ a < Len(F.args) /\ one = F.args[a + 1] /\ cgArg' = a + 1
      /\ symbols' = Added(one.name, Symbol(<<cgFn, 0, cgArg + 1>>, one.type))
      /\ phase' = phase /\ program' = program /\ cgFn' = cgFn
      /\ cgFrames' = cgFrames /\ cgNode' = cgNode
  BY <1>1 DEF visitArgument, Arguments, Fun, passed, vars, blocks
<1>3. Len(cgFrames) = 1 /\ cgNode = NoStm
  <2>1. F.args \in Seq([name : Id, type : DOMAIN types \ {TYPE_VOID}])
    BY <1>1, GenFacts, FunParts DEF Function
  <2>2. a # Len(F.args)
    BY <1>2, <2>1
  <2> QED BY <1>1, <2>2 DEF Generating
<1>4. InOrder(h, NoStm, a, c, F) /\ Held(h, c) /\ h \in Seq(FrameSet) /\ Chain(c)
  BY <1>1, <1>3, GenFacts
<1>5. Len(h) = 1 /\ h[1].stm = F
  <2>1. IsKept(cgFrames, F, h)
    BY <1>1, GenFacts
  <2>2. h[1] = Frame(F, cgFrames[1].pos)
    BY <1>3, <2>1 DEF IsKept
  <2> QED BY <1>3, <2>1, <2>2 DEF IsKept, Frame
<1>6. PICK s, d : /\ s = h[1].stm
                  /\ d = [c EXCEPT ![Len(c)] = Emplace(c[Len(c)], one.name, one.type)]
  OBVIOUS
<1>7. NewArg(one, c, h, a, d, F)
  <2>1. Len(h) = 1 /\ a < Len(s.args) /\ one = s.args[a + 1]
    BY <1>2, <1>5, <1>6
  <2> QED BY ONLY <1>4, <1>6, <2>1, ArgOrder
<1>8. PICK x, t, p : x = one.name /\ t = one.type /\ p = <<cgFn, 0, cgArg + 1>>
  OBVIOUS
<1>9. d = [c EXCEPT ![Len(c)] = Emplace(c[Len(c)], x, t)]
  BY <1>6, <1>8
<1>10. Outermost /\ Known(symbols') = d /\ DOMAIN c[Len(c)] = DOMAIN symbols[Len(symbols)]
  BY <1>1, <1>2, <1>8, <1>9, Adding
<1>11. AddsName
  BY <1>2, <1>7, <1>8, <1>10 DEF AddsName, NewArg
<1>12. Held(h, d)
  <2>1. IsMore(c, d)
    BY ONLY <1>9, MoreKnown
  <2>2. StillHeld(c, d, 1 + ScopeCount(h))
    BY <2>1, HeldMore DEF IsMore
  <2>3. SameBelow(h, h, Len(h)) /\ Len(h) <= Len(h)
    BY <1>5 DEF SameBelow
  <2> QED BY <1>4, <2>2, <2>3, HeldOn
<1>13. Fun' = F /\ Handlers' = h
  BY <1>1, <1>2 DEF Fun, Handlers
<1>14. WellBound(Handlers, cgNode, cgArg, Known(symbols), Fun)'
  BY <1>2, <1>3, <1>7, <1>10, <1>12, <1>13 DEF WellBound, NewArg
<1>15. Generating'
  BY <1>1, <1>2, <1>3, <1>10, <1>13, <1>14 DEF Generating, Outermost
<1> QED BY <1>2, <1>11, <1>15 DEF Goes

LEMMA BodyStep ==
  ASSUME visitDFunBody, program \in Seq(Function), WellTyped(program), Between
  PROVE  Goes
<1>1. PICK n, top, F, new : /\ n = cgFn + 1 /\ F = program[cgFn + 1]
                            /\ top = cgFrames' /\ new = symbols'
  OBVIOUS
<1>2. /\ cgFn < Len([i \in DOMAIN program |-> Lowered(program[i])])
      /\ cgFn' = n /\ cgNode' = NoStm
      /\ top = <<Cg!Frame(Cg!FunctionNode([i \in DOMAIN program |-> Lowered(program[i])][n]), 0, 0)>>
      /\ cgArg' = 0 /\ new = Append(symbols, NoMembers)
      /\ phase' = phase /\ program' = program
  BY <1>1 DEF visitDFunBody, Cg!visitDFun, beginCodeGenContext, passed, vars
<1>3. symbols = <<NoMembers>> /\ cgFn \in 0 .. Len(program)
  BY DEF Between
<1>4. n \in 1 .. Len(program) /\ n \in DOMAIN program
  <2>1. Len(program) \in Nat /\ DOMAIN program = 1 .. Len(program)
    OBVIOUS
  <2>2. Len([i \in DOMAIN program |-> Lowered(program[i])]) = Len(program)
    <3>1. PICK m, l : m = Len(program) /\ l = [i \in DOMAIN program |-> Lowered(program[i])]
      OBVIOUS
    <3>2. l = [i \in 1 .. m |-> l[i]] /\ m \in Nat
      BY <2>1, <3>1
    <3> QED BY <3>1, <3>2, SeqOf
  <2> QED BY <1>1, <1>2, <1>3, <2>1, <2>2
<1>5. F \in Function /\ WellTypedFunction(F)
  BY <1>1, <1>4 DEF WellTyped
<1>6. PICK s, e, f : s = Cg!FunctionNode(Lowered(F)) /\ e = Cg!Frame(s, 0, 0) /\ f = Frame(F, 0)
  OBVIOUS
<1>7. top = <<e>> /\ e.stm = s /\ e.pos = 0 /\ e.base = 0
  BY <1>1, <1>2, <1>4, <1>6 DEF Cg!Frame
<1>8. Records(top) /\ top # <<>> /\ Len(top) = 1 /\ DOMAIN top = {1} /\ top[1] = e
  <2>1. top \in Seq({e})
    BY <1>7
  <2>2. IsSeq(top)
    BY <2>1 DEF IsSeq
  <2> QED BY <1>6, <1>7, <2>2 DEF Records
<1>9. Kept(top, F) = <<f>>
  <2>1. Kept(top, F) = [i \in {1} |-> f]
    BY <1>6, <1>7, <1>8 DEF Kept
  <2> QED BY <2>1
<1>10. PICK c, d : c = <<NoMembers>> /\ d = Append(c, NoMembers)
  OBVIOUS
<1>11. InOrder(<<f>>, NoStm, 0, d, F)
  BY <1>5, <1>6, <1>10, BeginFunction
<1>12. IsSeq(c) /\ Known(c) = c
  <2>1. c \in Seq({NoMembers})
    BY <1>10
  <2>2. c = [i \in {1} |-> NoMembers]
    BY <1>10
  <2>3. [x \in DOMAIN NoMembers |-> NoMembers[x].type] = NoMembers
    BY DEF NoMembers
  <2>4. Known(c) = [i \in {1} |-> NoMembers]
    BY <1>10, <2>3 DEF Known
  <2> QED BY <2>1, <2>2, <2>4 DEF IsSeq
<1>13. IsSeq(new) /\ Known(new) = d
  BY <1>2, <1>3, <1>10, <1>12, KnownOpen
<1>14. new[1] = NoMembers
  <2>1. IsPush(c, NoMembers, new)
    BY <1>2, <1>3, <1>10, <1>12, Push
  <2>2. Len(c) = 1 /\ c[1] = NoMembers
    BY <1>10
  <2> QED BY <2>1, <2>2 DEF IsPush
<1>15. Held(<<f>>, d)
  <2>1. \A i \in 1 .. Len(<<f>>) : <<f>>[i].stm.op = "DFun"
    BY <1>5, <1>6, FunParts DEF Frame, Function
  <2> QED BY <2>1 DEF Held, StepsKnown, NoVoids
<1>16. Fun' = F
  BY <1>1, <1>2 DEF Fun
<1>17. Handlers' = <<f>>
  BY <1>1, <1>9, <1>16 DEF Handlers
<1>18. WellBound(Handlers, cgNode, cgArg, Known(symbols), Fun)'
  BY <1>1, <1>2, <1>11, <1>13, <1>15, <1>16, <1>17 DEF WellBound
<1>19. Generating'
  BY <1>1, <1>2, <1>4, <1>6, <1>7, <1>8, <1>13, <1>14, <1>16, <1>18 DEF Generating
<1> QED BY <1>2, <1>19 DEF Goes

(* One step of the code generator.                                         *)
LEMMA GeneratorStep ==
  ASSUME program \in Seq(Function), WellTyped(program), Generating \/ Between, CodeGenNext
  PROVE  phase = "codegen" /\ phase' = phase /\ program' = program /\ (Generating' \/ Between')
<1>1. phase = "codegen" /\ program' = program
  BY DEF CodeGenNext, visitDFunBody, visitArgument, visitSBlockScope, endScope, visitDeclarator,
         visitStatement, Entered, passed, vars
<1>2. CASE Between
  <2>1. cgFrames = <<>> /\ cgNode = NoStm
    BY <1>2 DEF Between
  <2>2. visitDFunBody
    BY <2>1 DEF CodeGenNext, visitArgument, visitSBlockScope, endScope, visitDeclarator,
         visitStatement, Cg!visitSBlock, Cg!endSBlock, Cg!endDFun, Cg!ListDone, Cg!InList,
         Cg!visitIdInit, Cg!InDecls, Cg!visitNext, Cg!visitSExp, Cg!visitSReturn,
         Cg!visitSReturnV, Cg!visitSDecls, Cg!endSDecls, Cg!visitSWhile, Cg!endSWhile,
         Cg!visitSDoWhile, Cg!endSDoWhile, Cg!visitSFor, Cg!endSFor, Cg!visitSIfElse,
         Cg!elseSIfElse, Cg!endSIfElse, Cg!Entering, Cg!Resuming
  <2>3. Goes
    BY <1>2, <2>2, BodyStep
  <2> QED BY <1>1, <2>3 DEF Goes
<1>3. CASE Generating
  <2>1. CASE visitDFunBody
    <3>1. cgFrames = <<>>
      BY <2>1 DEF visitDFunBody, Cg!visitDFun
    <3> QED BY <1>3, <3>1 DEF Generating
  <2>2. CASE visitArgument
    BY <1>1, <1>3, <2>2, ArgStep DEF Goes
  <2>3. CASE visitSBlockScope
    <3>1. Ready /\ UNCHANGED phase /\ Cg!visitSBlock /\ beginCodeGenContext
      BY <1>3, <2>3 DEF visitSBlockScope, Ready
    <3> QED BY <1>1, <3>1, BlockStep DEF Goes
  <2>4. CASE endScope
    <3>1. Ready /\ UNCHANGED phase /\ (Cg!endSBlock \/ Cg!endDFun) /\ endCodeGenContext
      BY <1>3, <2>4 DEF endScope, Ready
    <3> QED BY <1>1, <3>1, EndBlockStep, EndFunctionStep DEF Goes
  <2>5. CASE visitDeclarator
    BY <1>1, <1>3, <2>5, IdStep DEF Goes
  <2>6. CASE visitStatement
    <3>1. Ready /\ UNCHANGED symbols /\ visitEIds(symbols)
      BY <1>3, <2>6 DEF visitStatement, Ready
    <3>2. \/ Cg!visitSExp \/ Cg!visitSReturn \/ Cg!visitSReturnV
          \/ Cg!visitSWhile \/ Cg!visitSDoWhile \/ Cg!visitSFor \/ Cg!visitSIfElse
          \/ Cg!visitSDecls \/ Cg!visitNext \/ Cg!elseSIfElse
          \/ Cg!endSDecls \/ Cg!endSWhile \/ Cg!endSDoWhile \/ Cg!endSFor \/ Cg!endSIfElse
      BY <2>6 DEF visitStatement
    <3>3. Goes
      <4>1. CASE Cg!visitSExp \/ Cg!visitSReturn \/ Cg!visitSReturnV
        BY <3>1, <4>1, LeafStep
      <4>2. CASE Cg!visitSWhile \/ Cg!visitSDoWhile \/ Cg!visitSFor \/ Cg!visitSIfElse
        BY <3>1, <4>2, EnterStep
      <4>3. CASE Cg!visitSDecls
        BY <3>1, <4>3, DeclsStep
      <4>4. CASE Cg!visitNext
        BY <3>1, <4>4, NextStep
      <4>5. CASE Cg!elseSIfElse
        BY <3>1, <4>5, ElseStep
      <4>6. CASE Cg!endSDecls \/ Cg!endSWhile \/ Cg!endSDoWhile \/ Cg!endSFor \/ Cg!endSIfElse
        BY <3>1, <4>6, EndStep
      <4> QED BY <3>2, <4>1, <4>2, <4>3, <4>4, <4>5, <4>6
    <3> QED BY <1>1, <3>3 DEF Goes
  <2> QED BY <2>1, <2>2, <2>3, <2>4, <2>5, <2>6 DEF CodeGenNext
<1> QED BY <1>2, <1>3

LEMMA InitBindings == ScopeInit => Bindings
<1> SUFFICES ASSUME ScopeInit PROVE Bindings
  OBVIOUS
<1>1. phase = "typecheck" /\ cgFn = 0 /\ cgFrames = <<>> /\ cgNode = NoStm /\ symbols = <<NoMembers>>
  BY DEF ScopeInit
<1>2. program \in Seq(Function)
  BY InitInv DEF ScopeInit, IInv, Rest
<1>3. 0 \in 0 .. Len(program)
  BY <1>2
<1> QED BY <1>1, <1>3 DEF Bindings, Between, Phases

LEMMA StepBindings ==
  ASSUME IInv, Verdict, Bindings, [ScopeNext]_allVars
  PROVE  Bindings'
<1>1. program \in Seq(Function) /\ (WellTyped(program)' <=> WellTyped(program'))
  BY DEF IInv, Rest
<1>2. CASE UNCHANGED allVars
  <2>1. /\ phase' = phase /\ program' = program /\ cgFn' = cgFn /\ cgFrames' = cgFrames
        /\ cgNode' = cgNode /\ cgArg' = cgArg /\ symbols' = symbols
    BY <1>2 DEF allVars, passed, vars, scopes, blocks
  <2>2. Between' <=> Between
    BY <2>1 DEF Between
  <2>3. Generating => Generating'
    <3>1. Fun' = Fun /\ Handlers' = Handlers
      BY <2>1 DEF Fun, Handlers
    <3>2. WellBound(Handlers, cgNode, cgArg, Known(symbols), Fun)' <=>
            WellBound(Handlers, cgNode, cgArg, Known(symbols), Fun)
      BY <2>1, <3>1
    <3> QED BY <2>1, <3>1, <3>2 DEF Generating
  <2> QED BY <1>1, <2>1, <2>2, <2>3 DEF Bindings
<1>3. CASE typeCheck
  <2>1. /\ phase = "typecheck" /\ phase' = phase /\ cgFn' = cgFn /\ cgFrames' = cgFrames
        /\ cgNode' = cgNode /\ symbols' = symbols /\ Next
    BY <1>3 DEF typeCheck, scopes, blocks
  <2>2. program' = program
    BY <2>1, Remembered
  <2>3. Between /\ cgFn = 0
    BY <2>1 DEF Bindings
  <2>4. Between' /\ cgFn' = 0
    BY <2>1, <2>2, <2>3 DEF Between
  <2> QED BY <2>1, <2>4 DEF Bindings, Phases
<1>4. CASE compileTypeChecked
  <2>1. /\ phase = "typecheck" /\ cgFn' = cgFn /\ cgFrames' = cgFrames /\ Done
        /\ cgNode' = cgNode /\ symbols' = symbols /\ program' = program
        /\ phase' = IF crashed THEN "crashed" ELSE IF anyErrors THEN "rejected" ELSE "codegen"
    BY <1>4 DEF compileTypeChecked, scopes, blocks, passed, vars
  <2>2. Between'
    BY <2>1 DEF Bindings, Between
  <2>3. phase' = "codegen" => WellTyped(program)
    BY <2>1, VerdictIs DEF AcceptsExactlyWellTyped
  <2> QED BY <1>1, <2>1, <2>2, <2>3 DEF Bindings, Phases
<1>5. CASE CodeGenNext
  <2>1. phase = "codegen"
    BY <1>5 DEF CodeGenNext, visitDFunBody, visitArgument, visitSBlockScope, endScope,
         visitDeclarator, visitStatement, Entered
  <2>2. WellTyped(program) /\ (Generating \/ Between)
    BY <2>1 DEF Bindings
  <2>3. phase' = phase /\ program' = program /\ (Generating' \/ Between')
    BY <1>1, <1>5, <2>2, GeneratorStep
  <2> QED BY <1>1, <2>1, <2>2, <2>3 DEF Bindings, Phases
<1>6. CASE printIR
  BY <1>6 DEF printIR, Bindings, Phases
<1> QED BY <1>2, <1>3, <1>4, <1>5, <1>6 DEF ScopeNext

(* The typechecker's steps are those of TypeCheck, and the code            *)
(* generator's leave it as it is.                                          *)
LEMMA StepsOfTypeCheck == ScopeSpec => Spec
<1>1. ScopeInit => Init
  BY DEF ScopeInit
<1>2. [ScopeNext]_allVars => [Next]_vars
  <2> SUFFICES ASSUME [ScopeNext]_allVars PROVE Next \/ UNCHANGED vars
    OBVIOUS
  <2>1. CASE typeCheck
    BY <2>1 DEF typeCheck
  <2>2. CASE ~ typeCheck
    BY <2>2 DEF ScopeNext, compileTypeChecked, CodeGenNext, visitDFunBody, visitArgument,
         visitSBlockScope, endScope, visitDeclarator, visitStatement, printIR, allVars, passed
  <2> QED BY <2>1, <2>2
<1> QED BY <1>1, <1>2, PTL DEF ScopeSpec, Spec

(* While a function is generated, every statement that is still to come is *)
(* well typed with the names that the CodeGenContexts hold now, and they   *)
(* hold what the loops around it still need.                               *)
THEOREM BindingsHold == ScopeSpec => []Bindings
<1>1. ScopeSpec => [](IInv /\ Verdict)
  BY StepsOfTypeCheck, Invariance, VerdictSoFar, PTL
<1>2. IInv /\ Verdict /\ Bindings /\ [ScopeNext]_allVars => Bindings'
  BY StepBindings
<1> QED BY <1>1, <1>2, InitBindings, PTL DEF ScopeSpec

(* CodeGenVisitor.cpp:291 throws for no program that the typechecker let   *)
(* pass, however the handlers nest: what it has found, the code generator  *)
(* finds, although it enters the names at other moments, leaves out what   *)
(* is behind a return, and visits the last expression of a for after its   *)
(* body.                                                                   *)
THEOREM AllNamesAreFound == ScopeSpec => []NamesAreFound
<1>1. Bindings => NamesAreFound
  BY DEF Bindings, Phases, NamesAreFound
<1> QED BY <1>1, BindingsHold, PTL

-----------------------------------------------------------------------------
(* The refinement *)

CgOuterOf(c) ==
  [i \in 1 .. Len(c) - 1 |-> [visible |-> TypeTable(SubSeq(c, 1, i)), local |-> DOMAIN c[i]]]

(* What the CodeGenContexts c are mapped to, in terms of the types known.  *)
IsMapped(c, k) ==
  TypeTable(c) = Table(k) /\ DOMAIN c[Len(c)] = DOMAIN k[Len(k)] /\ CgOuterOf(c) = OuterOf(k)

IsTypesOf(k, c) == IsSeq(c) /\ Chain(k) /\ k = Known(c)

LEMMA KnownPrefix ==
  ASSUME NEW c, IsSeq(c), NEW k, k = Known(c), Chain(k), NEW i \in 1 .. Len(c),
         NEW a, a = SubSeq(c, 1, i), NEW b, b = SubSeq(k, 1, i)
  PROVE  IsTypesOf(b, a)
<1>1. IsKnown(c, k) /\ Len(c) \in Nat /\ Len(k) = Len(c) /\ k \in Seq(Maps)
  <2>1. IsKnown(c, k)
    BY KnownIs
  <2> QED BY <2>1, ChainFacts DEF IsKnown
<1>2. i \in Nat /\ i >= 1 /\ i <= Len(c) /\ i <= Len(k)
  BY <1>1
<1>3. PICK S : c \in Seq(S)
  BY DEF IsSeq
<1>4. a \in Seq(S) /\ Len(a) = i /\ \A j \in 1 .. i : a[j] = c[j]
  BY <1>2, <1>3, PrefixFacts
<1>5. b \in Seq(Maps) /\ Len(b) = i /\ \A j \in 1 .. i : b[j] = k[j]
  BY <1>1, <1>2, PrefixFacts
<1>6. IsSeq(a) /\ IsSeq(b)
  BY <1>4, <1>5 DEF IsSeq
<1>7. PICK e : e = Known(a)
  OBVIOUS
<1>8. IsKnown(a, e)
  BY <1>6, <1>7, KnownIs
<1>9. SameElements(e, b)
  <2>1. SUFFICES ASSUME NEW j \in 1 .. i PROVE e[j] = b[j]
    BY <1>4, <1>8 DEF SameElements, IsKnown
  <2>2. j \in 1 .. Len(c)
    BY <1>2
  <2>3. e[j] = [x \in DOMAIN a[j] |-> a[j][x].type] /\ k[j] = [x \in DOMAIN c[j] |-> c[j][x].type]
    BY <1>1, <1>4, <1>8, <2>2 DEF IsKnown
  <2> QED BY <1>4, <1>5, <2>3
<1>10. IsSeq(e) /\ Len(e) = Len(b)
  BY <1>4, <1>5, <1>8 DEF IsKnown
<1>11. e = b
  BY ONLY <1>6, <1>9, <1>10, SeqsEqual
<1>12. Chain(b)
  BY <1>2, <1>5 DEF Chain
<1> QED BY <1>6, <1>7, <1>11, <1>12 DEF IsTypesOf

LEMMA TypeTableIs ==
  ASSUME NEW c, IsSeq(c), NEW k, k = Known(c), Chain(k)
  PROVE  TypeTable(c) = Table(k)
<1>1. \A x \in Id : Lookup(c, x).type = findSymbol(k, x)
  BY LookupIs
<1> QED BY <1>1 DEF TypeTable, Table

LEMMA Mapped ==
  ASSUME NEW c, IsSeq(c), NEW k, k = Known(c), Chain(k)
  PROVE  IsMapped(c, k)
<1>1. IsKnown(c, k) /\ Len(c) \in Nat /\ Len(c) \in 1 .. Len(c) /\ Len(k) = Len(c)
  <2>1. IsKnown(c, k)
    BY KnownIs
  <2> QED BY <2>1, ChainFacts DEF IsKnown
<1>2. TypeTable(c) = Table(k)
  BY TypeTableIs
<1>3. \A i \in 1 .. Len(c) : DOMAIN c[i] = DOMAIN k[i]
  BY <1>1 DEF IsKnown
<1>4. ASSUME NEW i \in 1 .. Len(c)
      PROVE  TypeTable(SubSeq(c, 1, i)) = Table(SubSeq(k, 1, i))
  <2>1. PICK a, b : a = SubSeq(c, 1, i) /\ b = SubSeq(k, 1, i)
    OBVIOUS
  <2>2. IsTypesOf(b, a)
    BY <2>1, KnownPrefix
  <2>3. TypeTable(a) = Table(b)
    BY <2>2, TypeTableIs DEF IsTypesOf
  <2> QED BY <2>1, <2>3
<1>5. \A i \in 1 .. Len(c) - 1 : i \in 1 .. Len(c)
  BY <1>1
<1>6. CgOuterOf(c) = OuterOf(k)
  BY <1>1, <1>3, <1>4, <1>5 DEF CgOuterOf, OuterOf
<1> QED BY <1>1, <1>2, <1>3, <1>6 DEF IsMapped

(* What a step can do to the CodeGenContexts.                              *)
Changes ==
  \/ UNCHANGED symbols
  \/ symbols' = Append(symbols, NoMembers)
  \/ Len(symbols) > 1 /\ symbols' = SubSeq(symbols, 1, Len(symbols) - 1)
  \/ AddsName

LEMMA StepChanges ==
  ASSUME IInv, Bindings, [ScopeNext]_allVars
  PROVE  Changes
<1>1. CASE UNCHANGED allVars
  BY <1>1 DEF allVars, scopes, Changes
<1>2. CASE typeCheck \/ compileTypeChecked \/ printIR
  BY <1>2 DEF typeCheck, compileTypeChecked, printIR, scopes, Changes
<1>3. CASE visitDFunBody \/ visitSBlockScope
  BY <1>3 DEF visitDFunBody, visitSBlockScope, beginCodeGenContext, Changes
<1>4. CASE visitStatement
  BY <1>4 DEF visitStatement, Changes
<1>5. CASE visitArgument \/ endScope \/ visitDeclarator
  <2>1. phase = "codegen" /\ (cgFrames # <<>>)
    BY <1>5 DEF visitArgument, endScope, visitDeclarator, Entered, Cg!visitIdInit, Cg!InDecls,
         Cg!endSBlock, Cg!endDFun, Cg!ListDone, Cg!InList
  <2>2. Generating
    BY <2>1 DEF Bindings, Between
  <2>3. CASE visitArgument \/ visitDeclarator
    BY <2>2, <2>3, ArgStep, IdStep DEF Changes
  <2>4. CASE endScope
    BY <2>2, <2>4, GenFacts DEF endScope, endCodeGenContext, Changes
  <2> QED BY <1>5, <2>3, <2>4
<1> QED BY <1>1, <1>2, <1>3, <1>4, <1>5 DEF ScopeNext, CodeGenNext

LEMMA InitCgLexical == ScopeInit => CgLexical!Init
<1> SUFFICES ASSUME ScopeInit PROVE CgLexical!Init
  OBVIOUS
<1>1. symbols = <<NoMembers>> /\ Len(symbols) = 1 /\ DOMAIN symbols = {1} /\ symbols[1] = NoMembers
  BY DEF ScopeInit
<1>2. DOMAIN symbols[Len(symbols)] = {}
  BY <1>1, NoMembersMap
<1>3. \A x : Holders(symbols, x) = {}
  BY <1>1, NoMembersMap DEF Holders
<1>4. TypeTable(symbols) = [x \in Id |-> null]
  BY <1>3 DEF TypeTable, Lookup, NotFound, Symbol
<1>5. CgOuterOf(symbols) = <<>>
  BY <1>1 DEF CgOuterOf
<1> QED BY <1>2, <1>4, <1>5 DEF CgLexical!Init, CgOuterOf

(* The Contexts that a function and its blocks open hold known types.      *)
LEMMA SymbolsAre ==
  ASSUME Generating \/ Between
  PROVE  IsSeq(symbols) /\ Chain(Known(symbols)) /\ symbols # <<>>
<1>1. CASE Generating
  BY <1>1, GenFacts DEF Generating
<1>2. CASE Between
  <2>1. PICK c : c = symbols
    OBVIOUS
  <2>2. c = <<NoMembers>>
    BY <1>2, <2>1 DEF Between
  <2>3. IsSeq(c)
    <3>1. c \in Seq({NoMembers})
      BY <2>2
    <3> QED BY <3>1 DEF IsSeq
  <2>4. [x \in DOMAIN NoMembers |-> NoMembers[x].type] = NoMembers
    BY DEF NoMembers
  <2>5. Known(c) = <<NoMembers>>
    <3>1. Known(c) = [i \in {1} |-> NoMembers]
      BY <2>2, <2>4 DEF Known
    <3> QED BY <3>1
  <2>6. Chain(Known(c))
    BY <2>5, NoMembersMap DEF Chain
  <2> QED BY <2>1, <2>2, <2>3, <2>6
<1> QED BY <1>1, <1>2

(* A step maps to opening, closing or declaring.                           *)
LEMMA StepCgLexical ==
  ASSUME Generating \/ Between, Changes
  PROVE  [CgLexical!Next]_(CgLexical!vars)
<1>1. PICK old, new, c, d : old = symbols /\ new = symbols' /\ c = Known(old) /\ d = Known(new)
  OBVIOUS
<1>2. IsSeq(old) /\ Chain(c) /\ old # <<>>
  BY <1>1, SymbolsAre
<1>3. IsMapped(old, c)
  BY <1>1, <1>2, Mapped
<1>4. IsKnown(old, c) /\ Len(old) = Len(c) /\ Len(c) \in Nat /\ Len(c) >= 1 /\ c \in Seq(Maps)
  <2>1. IsKnown(old, c)
    BY <1>1, <1>2, KnownIs
  <2> QED BY <1>2, <2>1, ChainFacts DEF IsKnown
<1>5. CASE UNCHANGED symbols
  <2>1. UNCHANGED CgLexical!vars
    BY <1>5 DEF CgLexical!vars, TypeTable
  <2> QED BY <2>1
<1>6. CASE new = Append(old, NoMembers)
  <2>1. IsSeq(new) /\ d = Append(c, NoMembers)
    BY <1>1, <1>2, <1>6, KnownOpen
  <2>2. Chain(d)
    BY <1>4, <2>1, NoMembersMap DEF Chain
  <2>3. IsMapped(new, d)
    BY <1>1, <2>1, <2>2, Mapped
  <2>4. /\ Table(d) = Table(c) /\ DOMAIN d[Len(d)] = {}
        /\ OuterOf(d) = Append(OuterOf(c), [visible |-> Table(c), local |-> DOMAIN c[Len(c)]])
    BY <1>2, <2>1, Opened
  <2>5. /\ TypeTable(new) = TypeTable(old) /\ DOMAIN new[Len(new)] = {}
        /\ CgOuterOf(new) =
             Append(CgOuterOf(old), [visible |-> TypeTable(old), local |-> DOMAIN old[Len(old)]])
    BY <1>3, <2>3, <2>4 DEF IsMapped
  <2>6. /\ TypeTable(symbols)' = TypeTable(new)
        /\ CgOuterOf(symbols)' = CgOuterOf(new)
    BY <1>1
  <2>7. CgLexical!Open
    BY <1>1, <2>5, <2>6 DEF CgLexical!Open, CgOuterOf
  <2> QED BY <2>7 DEF CgLexical!Next
<1>7. CASE Len(old) > 1 /\ new = SubSeq(old, 1, Len(old) - 1)
  <2>1. IsSeq(new) /\ d = SubSeq(c, 1, Len(c) - 1)
    BY <1>1, <1>2, <1>7, KnownClose
  <2>2. Chain(d) /\ Len(c) > 1
    <3>1. PICK k : k = Len(c) - 1
      OBVIOUS
    <3>2. k \in Nat /\ k <= Len(c) /\ k >= 1 /\ d = SubSeq(c, 1, k)
      BY <1>4, <1>7, <2>1, <3>1
    <3>3. d \in Seq(Maps) /\ Len(d) = k
      BY <1>4, <3>2, PrefixFacts
    <3> QED BY <1>4, <1>7, <3>2, <3>3 DEF Chain
  <2>3. IsMapped(new, d)
    BY <1>1, <2>1, <2>2, Mapped
  <2>4. /\ OuterOf(c) # <<>>
        /\ Table(d) = OuterOf(c)[Len(OuterOf(c))].visible
        /\ DOMAIN d[Len(d)] = OuterOf(c)[Len(OuterOf(c))].local
        /\ OuterOf(d) = SubSeq(OuterOf(c), 1, Len(OuterOf(c)) - 1)
    BY <1>2, <2>1, <2>2, Closed
  <2>5. /\ CgOuterOf(old) # <<>>
        /\ TypeTable(new) = CgOuterOf(old)[Len(CgOuterOf(old))].visible
        /\ DOMAIN new[Len(new)] = CgOuterOf(old)[Len(CgOuterOf(old))].local
        /\ CgOuterOf(new) = SubSeq(CgOuterOf(old), 1, Len(CgOuterOf(old)) - 1)
    BY <1>3, <2>3, <2>4 DEF IsMapped
  <2>6. /\ TypeTable(symbols)' = TypeTable(new)
        /\ CgOuterOf(symbols)' = CgOuterOf(new)
    BY <1>1
  <2>7. CgLexical!Close
    BY <1>1, <2>5, <2>6 DEF CgLexical!Close, CgOuterOf
  <2> QED BY <2>7 DEF CgLexical!Next
<1>8. CASE AddsName
  <2>1. PICK x, p, t :
          /\ x \in Id /\ t \in DOMAIN types
          /\ x \notin DOMAIN symbols[Len(symbols)] /\ symbols' = Added(x, Symbol(p, t))
    BY <1>8 DEF AddsName
  <2>2. PICK s : s = Symbol(p, t)
    OBVIOUS
  <2>3. x \notin DOMAIN old[Len(old)] /\ new = [old EXCEPT ![Len(old)] = Emplace(@, x, s)] /\ s.type = t
    BY <1>1, <2>1, <2>2 DEF Added, Symbol
  <2>4. IsAdd(old, new, x, s)
    BY ONLY <1>2, <2>3, KnownAdd
  <2>5. Adds(c, d, x, t) /\ IsSeq(new)
    <3>1. Len(c) \in 1 .. Len(old)
      BY <1>4
    <3>2. DOMAIN c[Len(c)] = DOMAIN old[Len(old)]
      BY <1>4, <3>1 DEF IsKnown
    <3> QED BY <1>1, <2>3, <2>4, <3>2 DEF IsAdd, Adds
  <2>6. Chain(d)
    <3>1. PICK n, m, e : n = Len(c) /\ m = c[n] /\ e = Emplace(m, x, t)
      OBVIOUS
    <3>2. n \in 1 .. Len(c) /\ m \in Maps
      BY <1>4, <3>1
    <3>3. e \in Maps
      BY <2>1, <2>5, <3>1, <3>2, EmplaceMap DEF Adds
    <3>4. d = [c EXCEPT ![n] = e]
      BY <2>5, <3>1 DEF Adds
    <3>5. d \in Seq(Maps) /\ Len(d) = Len(c)
      BY <1>4, <3>2, <3>3, <3>4
    <3> QED BY <1>4, <3>5 DEF Chain
  <2>7. IsMapped(new, d)
    BY <1>1, <2>5, <2>6, Mapped
  <2>8. /\ Table(d) = [Table(c) EXCEPT ![x] = t]
        /\ DOMAIN d[Len(d)] = DOMAIN c[Len(c)] \cup {x}
        /\ OuterOf(d) = OuterOf(c)
    BY ONLY <1>2, <2>1, <2>5, Declared
  <2>9. /\ TypeTable(new) = [TypeTable(old) EXCEPT ![x] = t]
        /\ DOMAIN new[Len(new)] = DOMAIN old[Len(old)] \cup {x}
        /\ CgOuterOf(new) = CgOuterOf(old)
    BY <1>3, <2>7, <2>8 DEF IsMapped
  <2>10. /\ TypeTable(symbols)' = TypeTable(new)
         /\ CgOuterOf(symbols)' = CgOuterOf(new)
    BY <1>1
  <2>11. CgLexical!Declare(x, t)
    BY <1>1, <2>3, <2>9, <2>10 DEF CgLexical!Declare, CgOuterOf
  <2> QED BY <2>1, <2>11 DEF CgLexical!Next
<1> QED BY <1>1, <1>5, <1>6, <1>7, <1>8 DEF Changes

(* The CodeGenContexts are a lexically scoped table too, of the types that *)
(* the variables have: a block that is broken off by a return closes its   *)
(* context (CodeGenVisitor.cpp:88-101), and no context gets a name twice,  *)
(* so that addSymbol's result may go unused (CodeGenVisitor.cpp:110).      *)
THEOREM BindingsAreLexical == ScopeSpec => CodeGenIsLexicalScope
<1>1. Bindings /\ IInv /\ [ScopeNext]_allVars => [CgLexical!Next]_(CgLexical!vars)
  <2> SUFFICES ASSUME Bindings, IInv, [ScopeNext]_allVars
               PROVE  [CgLexical!Next]_(CgLexical!vars)
    OBVIOUS
  <2>1. Changes
    BY StepChanges
  <2>2. CASE phase \in {"typecheck", "codegen"}
    <3>1. Generating \/ Between
      BY <2>2 DEF Bindings
    <3> QED BY <2>1, <3>1, StepCgLexical
  <2>3. CASE phase \notin {"typecheck", "codegen"}
    <3>1. UNCHANGED symbols
      BY <2>3 DEF ScopeNext, typeCheck, compileTypeChecked, CodeGenNext, visitDFunBody,
           visitArgument, visitSBlockScope, endScope, visitDeclarator, visitStatement, printIR,
           Entered, allVars, scopes
    <3>2. UNCHANGED CgLexical!vars
      BY <3>1 DEF CgLexical!vars, TypeTable
    <3> QED BY <3>2
  <2> QED BY <2>2, <2>3
<1>2. ScopeSpec => []IInv
  BY StepsOfTypeCheck, Invariance, PTL
<1> QED BY <1>1, <1>2, BindingsHold, InitCgLexical, PTL
        DEF ScopeSpec, CodeGenIsLexicalScope, CgLexical!Spec

-----------------------------------------------------------------------------
(* Types and places *)

PlaceIn(p, f) == IsPlace(p) /\ p[1] = f

SymbolsIn(c, al) ==
  \A i \in DOMAIN c : \A x \in DOMAIN c[i] :
    c[i][x].place \in DOMAIN al /\ c[i][x].type \in DOMAIN types \ {TYPE_VOID}

LoadsIn(ls, al, f) == \A l \in ls : PlaceIn(l.use, f) /\ l.alloca \in DOMAIN al

AllocasIn(al, f) == \A p \in DOMAIN al : PlaceIn(p, f)

Places ==
  cgArg \in Nat /\ SymbolsIn(symbols, allocas) /\ AllocasIn(allocas, cgFn) /\ LoadsIn(loads, allocas, cgFn)

(* The maps that remember places follow the Contexts of the typechecker.   *)
EnteredAsChain ==
  /\ IsSeq(entered) /\ Len(entered) = Len(chain)
  /\ \A i \in DOMAIN chain : DOMAIN entered[i] = DOMAIN chain[i]

LEMMA PathPlace ==
  ASSUME NEW f \in Nat, NEW nd, NEW fr, NEW m \in Nat,
         m = Len(fr) - (IF nd = NoStm THEN 1 ELSE 0), m >= 1,
         \A i \in 1 .. m : fr[i].pos \in Nat, NEW k \in Nat
  PROVE  PlaceIn(Append(Path(f, nd, fr), k), f)
<1>1. PICK tail, head : tail = [i \in 1 .. m |-> fr[i].pos] /\ head = <<f>>
  OBVIOUS
<1>2. tail \in Seq(Nat) /\ Len(tail) = m /\ head \in Seq(Nat) /\ Len(head) = 1 /\ head[1] = f
  BY <1>1
<1>3. PICK path : path = head \o tail
  OBVIOUS
<1>4. path \in Seq(Nat) /\ Len(path) = 1 + m /\ path[1] = f
  <2>1. /\ path \in Seq(Nat) /\ Len(path) = Len(head) + Len(tail)
        /\ \A i \in 1 .. Len(head) + Len(tail) :
             path[i] = IF i <= Len(head) THEN head[i] ELSE tail[i - Len(head)]
    <3>1. head \in Seq(Nat) /\ tail \in Seq(Nat)
      BY <1>2
    <3>2. /\ head \o tail \in Seq(Nat) /\ Len(head \o tail) = Len(head) + Len(tail)
          /\ \A i \in 1 .. Len(head) + Len(tail) :
               (head \o tail)[i] = IF i <= Len(head) THEN head[i] ELSE tail[i - Len(head)]
      BY ONLY <3>1, ConcatProperties
    <3> QED BY <1>3, <3>2
  <2>2. 1 \in 1 .. Len(head) + Len(tail)
    BY <1>2
  <2>3. path[1] = head[1]
    <3>1. path[1] = IF 1 <= Len(head) THEN head[1] ELSE tail[1 - Len(head)]
      BY ONLY <2>1, <2>2
    <3>2. 1 <= Len(head)
      BY <1>2
    <3> QED BY ONLY <3>1, <3>2
  <2> QED BY <1>2, <2>1, <2>3
<1>5. Path(f, nd, fr) = path
  BY <1>1, <1>3 DEF Path
<1>6. PICK p : p = Append(path, k)
  OBVIOUS
<1>7. p \in Seq(Nat) /\ Len(p) = 2 + m /\ p[1] = f
  BY <1>4, <1>6
<1> QED BY <1>5, <1>6, <1>7 DEF PlaceIn, IsPlace

(* The handlers' positions are numbers.                                    *)
LEMMA Positions ==
  ASSUME Generating
  PROVE  /\ cgFn \in Nat /\ Len(cgFrames) \in Nat /\ Len(cgFrames) >= 1
         /\ \A i \in 1 .. Len(cgFrames) : cgFrames[i].pos \in Nat
<1>1. PICK h : h = Handlers
  OBVIOUS
<1>2. IsKept(cgFrames, Fun, h) /\ h \in Seq(FrameSet) /\ cgFrames # <<>>
  BY <1>1, GenFacts DEF Generating
<1>3. ASSUME NEW i \in 1 .. Len(cgFrames)
      PROVE  cgFrames[i].pos \in Nat
  <2>1. h[i].pos = cgFrames[i].pos
    <3>1. PICK s, p : s = (IF i = 1 THEN Fun ELSE cgFrames[i].stm) /\ p = cgFrames[i].pos
      OBVIOUS
    <3>2. h[i] = Frame(s, p)
      BY <1>2, <3>1 DEF IsKept
    <3> QED BY <3>1, <3>2 DEF Frame
  <2>2. h[i] \in FrameSet
    BY <1>2 DEF IsKept
  <2> QED BY <2>1, <2>2 DEF FrameSet
<1>4. cgFn \in Nat
  BY DEF Generating
<1> QED BY <1>2, <1>3, <1>4 DEF IsKept

LEMMA UsePlace ==
  ASSUME Generating, Generated # <<>>, NEW k \in DOMAIN Generated
  PROVE  PlaceIn(Append(Path(cgFn, cgNode, cgFrames), k), cgFn)
<1>1. PICK f, nd, fr, m : /\ f = cgFn /\ nd = cgNode /\ fr = cgFrames
                          /\ m = Len(fr) - (IF nd = NoStm THEN 1 ELSE 0)
  OBVIOUS
<1>2. /\ f \in Nat /\ Len(fr) \in Nat /\ Len(fr) >= 1
      /\ \A i \in 1 .. Len(fr) : fr[i].pos \in Nat
  BY <1>1, Positions
<1>3. PICK e : e = fr[Len(fr)]
  OBVIOUS
<1>4. CASE nd # NoStm
  <2>1. k \in Nat
    BY <1>1, <1>4 DEF Generated
  <2>2. m \in Nat /\ m >= 1 /\ m = Len(fr)
    BY <1>1, <1>2, <1>4
  <2> QED BY <1>1, <1>2, <2>1, <2>2, PathPlace
<1>5. CASE nd = NoStm
  <2>1. e.stm.op \in {"SDoWhile", "SFor", "SDecls"}
    BY <1>1, <1>3, <1>5 DEF Generated, Cg!Resuming, Cg!InDecls, Cg!Top
  <2>2. Len(fr) # 1
    BY <1>1, <1>3, <2>1, TopIs DEF IsTop
  <2>3. m \in Nat /\ m >= 1 /\ m <= Len(fr)
    BY <1>1, <1>2, <1>5, <2>2
  <2>4. e.pos \in Nat
    BY <1>2, <1>3
  <2>5. k \in Nat
    BY <1>1, <1>3, <1>5, <2>4 DEF Generated
  <2>6. \A i \in 1 .. m : fr[i].pos \in Nat
    BY <1>2, <2>3
  <2>7. PlaceIn(Append(Path(f, nd, fr), k), f)
    BY ONLY <1>1, <1>2, <2>3, <2>5, <2>6, PathPlace
  <2> QED BY <1>1, <2>7
<1> QED BY <1>4, <1>5

(* What is found is in one of the contexts.                                *)
LEMMA LookupSome ==
  ASSUME NEW c, IsSeq(c), NEW x, Lookup(c, x) # NotFound
  PROVE  \E i \in DOMAIN c : x \in DOMAIN c[i] /\ Lookup(c, x) = c[i][x]
<1>1. Holders(c, x) # {} /\ Lookup(c, x) = findSymbol(c, x)
  BY DEF Lookup
<1>2. Len(c) \in Nat /\ DOMAIN c = 1 .. Len(c)
  BY SeqIs
<1>3. Holders(c, x) \subseteq 1 .. Len(c)
  BY <1>2 DEF Holders
<1>4. PICK h \in Holders(c, x) : \A j \in Holders(c, x) : j <= h
  BY <1>1, <1>2, <1>3, Largest
<1>5. PICK i : i = CHOOSE g \in Holders(c, x) : \A j \in Holders(c, x) : j <= g
  OBVIOUS
<1>6. i \in Holders(c, x)
  BY <1>4, <1>5
<1>7. findSymbol(c, x) = c[i][x]
  BY <1>1, <1>5 DEF findSymbol
<1> QED BY <1>1, <1>6, <1>7 DEF Holders

LEMMA LoadsStep ==
  ASSUME Generating, Places, NEW known, IsSeq(known), NEW al, SymbolsIn(known, al),
         DOMAIN allocas \subseteq DOMAIN al, visitEIds(known)
  PROVE  LoadsIn(loads', al, cgFn)
<1>1. LoadsIn(loads, al, cgFn)
  BY DEF Places, LoadsIn
<1>2. PICK s, G, path, vs :
        /\ s = At(cgNode, cgFrames) /\ G = Generated /\ path = Path(cgFn, cgNode, cgFrames)
        /\ vs = IF G = <<>> THEN {} ELSE Variables(s, DOMAIN G \cap DOMAIN s.exps)
  OBVIOUS
<1>3. CASE UNCHANGED loads
  BY <1>1, <1>3
<1>4. CASE /\ ~ \E k \in vs : Lookup(known, Slot(s, k).name) = NotFound
           /\ loads' = loads \cup {[at |-> G[k], use |-> Append(path, k),
                                    alloca |-> Lookup(known, Slot(s, k).name).place] : k \in vs}
  <2>1. ASSUME NEW k \in vs
        PROVE  PlaceIn(Append(path, k), cgFn) /\ Lookup(known, Slot(s, k).name).place \in DOMAIN al
    <3>1. G # <<>> /\ k \in DOMAIN G
      BY <1>2, <2>1 DEF Variables
    <3>2. PlaceIn(Append(path, k), cgFn)
      BY <1>2, <3>1, UsePlace
    <3>3. PICK x : x = Slot(s, k).name
      OBVIOUS
    <3>4. PICK i \in DOMAIN known : x \in DOMAIN known[i] /\ Lookup(known, x) = known[i][x]
      BY <1>4, <2>1, <3>3, LookupSome
    <3>5. known[i][x].place \in DOMAIN al
      BY <3>4 DEF SymbolsIn
    <3> QED BY <3>2, <3>3, <3>4, <3>5
  <2>2. ASSUME NEW l \in loads'
        PROVE  PlaceIn(l.use, cgFn) /\ l.alloca \in DOMAIN al
    <3>1. CASE l \in loads
      BY <1>1, <3>1 DEF LoadsIn
    <3>2. CASE l \notin loads
      <4>1. PICK k \in vs : l = [at |-> G[k], use |-> Append(path, k),
                                 alloca |-> Lookup(known, Slot(s, k).name).place]
        BY <1>4, <2>2, <3>2
      <4>2. l.use = Append(path, k) /\ l.alloca = Lookup(known, Slot(s, k).name).place
        BY <4>1
      <4> QED BY <2>1, <4>2
    <3> QED BY <3>1, <3>2
  <2> QED BY <2>2 DEF LoadsIn
<1>5. \/ UNCHANGED loads
      \/ /\ ~ \E k \in vs : Lookup(known, Slot(s, k).name) = NotFound
         /\ loads' = loads \cup {[at |-> G[k], use |-> Append(path, k),
                                  alloca |-> Lookup(known, Slot(s, k).name).place] : k \in vs}
  BY <1>2 DEF visitEIds
<1> QED BY <1>3, <1>4, <1>5

LEMMA MoreAllocas ==
  ASSUME NEW c, NEW al, SymbolsIn(c, al), NEW more, DOMAIN al \subseteq DOMAIN more
  PROVE  SymbolsIn(c, more)
  BY DEF SymbolsIn

IsAdded(d, al, more, p) ==
  IsSeq(d) /\ SymbolsIn(d, more) /\ DOMAIN more = DOMAIN al \cup {p}

(* A name gets its alloca.                                                 *)
LEMMA SymbolsAdded ==
  ASSUME NEW c, IsSeq(c), c # <<>>, NEW al, SymbolsIn(c, al),
         NEW x, NEW p, NEW t \in DOMAIN types \ {TYPE_VOID},
         NEW d, d = [c EXCEPT ![Len(c)] = Emplace(@, x, Symbol(p, t))],
         NEW b, NEW more, more = Extend(al, [q \in {p} |-> b])
  PROVE  IsAdded(d, al, more, p)
<1>1. PICK s, n : s = Symbol(p, t) /\ n = Len(c)
  OBVIOUS
<1>2. DOMAIN more = DOMAIN al \cup {p}
  <2>1. PICK new : new = [q \in {p} |-> b]
    OBVIOUS
  <2>2. DOMAIN new = {p} /\ more = Extend(al, new)
    BY <2>1
  <2> QED BY <2>2 DEF Extend
<1>3. d = [c EXCEPT ![n] = Emplace(c[n], x, s)]
  BY <1>1
<1>4. DOMAIN d = DOMAIN c /\ \A i \in DOMAIN c : i # n => d[i] = c[i]
  BY <1>3
<1>5. n \in DOMAIN c /\ d[n] = Emplace(c[n], x, s)
  <2>1. n \in DOMAIN c
    BY <1>1, SeqIs
  <2> QED BY <1>3, <2>1
<1>6. IsSeq(d)
  BY KnownAdd DEF IsAdd
<1>7. ASSUME NEW i \in DOMAIN d, NEW y \in DOMAIN d[i]
      PROVE  d[i][y].place \in DOMAIN more /\ d[i][y].type \in DOMAIN types \ {TYPE_VOID}
  <2>1. CASE i # n
    BY <1>2, <1>4, <1>7, <2>1 DEF SymbolsIn
  <2>2. CASE i = n
    <3>1. d[i][y] = s \/ (y \in DOMAIN c[n] /\ d[i][y] = c[n][y])
      BY <1>5, <1>7, <2>2 DEF Emplace
    <3>2. s.place = p /\ s.type = t
      BY <1>1 DEF Symbol
    <3>3. CASE d[i][y] = s
      BY <1>2, <3>2, <3>3
    <3>4. CASE y \in DOMAIN c[n] /\ d[i][y] = c[n][y]
      BY <1>2, <1>5, <3>4 DEF SymbolsIn
    <3> QED BY <3>1, <3>3, <3>4
  <2> QED BY <2>1, <2>2
<1> QED BY <1>2, <1>6, <1>7 DEF SymbolsIn, IsAdded

LEMMA PlacesKept ==
  ASSUME Places, UNCHANGED <<cgFn, allocas, loads>>, cgArg' \in Nat, SymbolsIn(symbols', allocas)
  PROVE  Places'
<1>1. /\ SymbolsIn(symbols, allocas)' <=> SymbolsIn(symbols', allocas')
      /\ AllocasIn(allocas, cgFn)' <=> AllocasIn(allocas', cgFn')
      /\ LoadsIn(loads, allocas, cgFn)' <=> LoadsIn(loads', allocas', cgFn')
  BY DEF SymbolsIn, AllocasIn, LoadsIn
<1> QED BY <1>1 DEF Places

LEMMA BodyPlaces ==
  ASSUME visitDFunBody, Between
  PROVE  Places'
<1>1. PICK c, al, ls, f : c = symbols' /\ al = allocas' /\ ls = loads' /\ f = cgFn'
  OBVIOUS
<1>2. cgArg' = 0 /\ c = Append(<<NoMembers>>, NoMembers) /\ al = NoMembers /\ ls = {}
  BY <1>1 DEF visitDFunBody, beginCodeGenContext, Between
<1>3. DOMAIN NoMembers = {}
  BY NoMembersMap
<1>4. SymbolsIn(c, al)
  <2>1. DOMAIN c = 1 .. 2 /\ \A i \in 1 .. 2 : c[i] = NoMembers
    BY <1>2
  <2> QED BY <1>3, <2>1 DEF SymbolsIn
<1>5. AllocasIn(al, f) /\ LoadsIn(ls, al, f)
  BY <1>2, <1>3 DEF AllocasIn, LoadsIn
<1> QED BY <1>1, <1>2, <1>4, <1>5 DEF Places

LEMMA OpenPlaces ==
  ASSUME visitSBlockScope, Generating, Places
  PROVE  Places'
<1>1. /\ UNCHANGED <<cgFn, allocas, loads>> /\ cgArg' = cgArg /\ symbols' = Append(symbols, NoMembers)
  BY DEF visitSBlockScope, beginCodeGenContext, Cg!visitSBlock, Cg!fixed
<1>2. PICK c, d, al : c = symbols /\ d = symbols' /\ al = allocas
  OBVIOUS
<1>3. IsSeq(c) /\ SymbolsIn(c, al) /\ cgArg \in Nat
  BY <1>2 DEF Generating, Places
<1>4. IsPush(c, NoMembers, d)
  BY <1>1, <1>2, <1>3, Push
<1>5. SymbolsIn(d, al)
  <2>1. \A i \in 1 .. Len(c) + 1 : i \in 1 .. Len(c) \/ i = Len(c) + 1
    BY <1>4 DEF IsPush
  <2> QED BY <1>3, <1>4, <2>1, NoMembersMap DEF SymbolsIn, IsPush
<1> QED BY <1>1, <1>2, <1>3, <1>5, PlacesKept

LEMMA ClosePlaces ==
  ASSUME endScope, Generating, Places
  PROVE  Places'
<1>1. /\ UNCHANGED <<cgFn, allocas, loads>> /\ cgArg' = cgArg
      /\ symbols' = SubSeq(symbols, 1, Len(symbols) - 1)
  BY DEF endScope, endCodeGenContext, Cg!endSBlock, Cg!endDFun, Cg!fixed
<1>2. PICK c, d, al : c = symbols /\ d = symbols' /\ al = allocas
  OBVIOUS
<1>3. IsSeq(c) /\ c # <<>> /\ SymbolsIn(c, al) /\ cgArg \in Nat
  BY <1>2, GenFacts DEF Generating, Places
<1>4. IsPop(c, d)
  BY <1>1, <1>2, <1>3, PopSeq
<1>5. SymbolsIn(d, al)
  <2>1. \A i \in 1 .. Len(c) - 1 : i \in 1 .. Len(c)
    BY <1>4 DEF IsPop
  <2> QED BY <1>3, <1>4, <2>1 DEF SymbolsIn, IsPop
<1> QED BY <1>1, <1>2, <1>3, <1>5, PlacesKept

LEMMA StatementPlaces ==
  ASSUME visitStatement, Generating, Places
  PROVE  Places'
<1>1. UNCHANGED <<cgFn, cgArg, symbols, allocas>> /\ visitEIds(symbols)
  BY DEF visitStatement, Cg!visitNext, Cg!visitSExp, Cg!visitSReturn,
         Cg!visitSReturnV, Cg!visitSDecls, Cg!endSDecls, Cg!visitSWhile, Cg!endSWhile,
         Cg!visitSDoWhile, Cg!endSDoWhile, Cg!visitSFor, Cg!endSFor, Cg!visitSIfElse,
         Cg!elseSIfElse, Cg!endSIfElse, Cg!fixed
<1>2. IsSeq(symbols) /\ SymbolsIn(symbols, allocas)
  BY DEF Generating, Places
<1>3. LoadsIn(loads', allocas, cgFn)
  BY <1>1, <1>2, LoadsStep
<1>4. SymbolsIn(symbols, allocas)' /\ AllocasIn(allocas, cgFn)'
  BY <1>1 DEF Places, SymbolsIn, AllocasIn
<1>5. LoadsIn(loads, allocas, cgFn)'
  BY <1>1, <1>3 DEF LoadsIn
<1> QED BY <1>1, <1>4, <1>5 DEF Places

(* The step adds the alloca of place p, of type t, to those there are.     *)
LEMMA AddPlaces ==
  ASSUME Generating, Places, NEW x, NEW p, PlaceIn(p, cgFn), NEW t \in DOMAIN types \ {TYPE_VOID}, NEW b,
         symbols' = Added(x, Symbol(p, t)), allocas' = Extend(allocas, [q \in {p} |-> b]),
         cgFn' = cgFn
  PROVE  /\ IsSeq(symbols') /\ SymbolsIn(symbols', allocas') /\ DOMAIN allocas \subseteq DOMAIN allocas'
         /\ AllocasIn(allocas', cgFn)
<1>1. PICK c, d, al, more : c = symbols /\ d = symbols' /\ al = allocas /\ more = allocas'
  OBVIOUS
<1>2. IsSeq(c) /\ c # <<>> /\ SymbolsIn(c, al)
  BY <1>1, GenFacts DEF Generating, Places
<1>3. d = [c EXCEPT ![Len(c)] = Emplace(@, x, Symbol(p, t))] /\ more = Extend(al, [q \in {p} |-> b])
  BY <1>1 DEF Added
<1>4. IsSeq(d) /\ SymbolsIn(d, more) /\ DOMAIN more = DOMAIN al \cup {p}
  <2>1. t \in DOMAIN types \ {TYPE_VOID}
    OBVIOUS
  <2>2. IsAdded(d, al, more, p)
    BY ONLY <1>2, <1>3, <2>1, SymbolsAdded
  <2> QED BY <2>2 DEF IsAdded
<1>5. AllocasIn(more, cgFn)
  BY <1>1, <1>4 DEF Places, AllocasIn
<1> QED BY <1>1, <1>4, <1>5

LEMMA ArgPlaces ==
  ASSUME visitArgument, Generating, Places
  PROVE  Places'
<1>1. PICK x, p, t : /\ x = Arguments[cgArg + 1].name /\ t = Arguments[cgArg + 1].type
                     /\ p = <<cgFn, 0, cgArg + 1>>
  OBVIOUS
<1>2. /\ symbols' = Added(x, Symbol(p, t)) /\ allocas' = Extend(allocas, [q \in {p} |-> <<1, 0>>])
      /\ cgArg' = cgArg + 1 /\ cgArg < Len(Arguments) /\ UNCHANGED <<cgFn, loads>>
  BY <1>1 DEF visitArgument, blocks
<1>3. cgArg \in Nat /\ cgFn \in Nat
  BY Positions DEF Places
<1>4. t \in DOMAIN types \ {TYPE_VOID}
  <2>1. Fun.args \in Seq([name : Id, type : DOMAIN types \ {TYPE_VOID}])
    BY GenFacts, FunParts DEF Function
  <2>2. PICK args, k : args = Arguments /\ k = cgArg + 1
    OBVIOUS
  <2>3. args \in Seq([name : Id, type : DOMAIN types \ {TYPE_VOID}])
    BY <2>1, <2>2 DEF Arguments, Fun
  <2>4. k \in 1 .. Len(args)
    BY <1>2, <1>3, <2>2, <2>3
  <2>5. args[k] \in [name : Id, type : DOMAIN types \ {TYPE_VOID}] /\ t = args[k].type
    <3>1. PICK S : S = [name : Id, type : DOMAIN types \ {TYPE_VOID}]
      OBVIOUS
    <3>2. args \in Seq(S)
      BY ONLY <2>3, <3>1
    <3>3. args[k] \in S
      BY ONLY <2>4, <3>2
    <3> QED BY <1>1, <2>2, <3>1, <3>3
  <2> QED BY <2>5
<1>5. PlaceIn(p, cgFn)
  BY <1>1, <1>3 DEF PlaceIn, IsPlace
<1>6. /\ SymbolsIn(symbols', allocas') /\ DOMAIN allocas \subseteq DOMAIN allocas'
      /\ AllocasIn(allocas', cgFn)
  BY <1>2, <1>4, <1>5, AddPlaces
<1>7. LoadsIn(loads', allocas', cgFn)
  BY <1>2, <1>6 DEF Places, LoadsIn
<1>8. SymbolsIn(symbols, allocas)' /\ AllocasIn(allocas, cgFn)' /\ LoadsIn(loads, allocas, cgFn)'
  BY <1>2, <1>6, <1>7 DEF SymbolsIn, AllocasIn, LoadsIn
<1> QED BY <1>2, <1>3, <1>8 DEF Places

LEMMA IdPlaces ==
  ASSUME visitDeclarator, Generating, Places
  PROVE  Places'
<1>1. PICK e, f : IsTop(e, f)
  BY TopIs
<1>2. PICK x, p, t, b : /\ x = e.stm.exps[e.pos + 1].name /\ t = findBasicType(types, e.stm.type)
                        /\ p = Append(Path(cgFn, NoStm, cgFrames), e.pos + 1) /\ b = Here
  OBVIOUS
<1>3. e = cgFrames[Len(cgFrames)]
  BY <1>1 DEF IsTop
<1>4. /\ symbols' = Added(x, Symbol(p, t)) /\ allocas' = Extend(allocas, [q \in {p} |-> b])
      /\ visitEIds(Added(x, Symbol(p, t))) /\ cgArg' = cgArg
  BY <1>2, <1>3 DEF visitDeclarator
<1>5. cgFn' = cgFn /\ e.stm.op = "SDecls"
  BY <1>3 DEF visitDeclarator, Cg!visitIdInit, Cg!InDecls, Cg!Top, Cg!fixed
<1>6. t \in DOMAIN types \ {TYPE_VOID}
  BY <1>2, <1>3, IdStep DEF TypeToDeclare
<1>7. PlaceIn(p, cgFn)
  <2>1. PICK g, fr, m, k : g = cgFn /\ fr = cgFrames /\ m = Len(fr) - 1 /\ k = e.pos + 1
    OBVIOUS
  <2>2. /\ g \in Nat /\ Len(fr) \in Nat /\ Len(fr) >= 1
        /\ \A i \in 1 .. Len(fr) : fr[i].pos \in Nat
    BY <2>1, Positions
  <2>3. Len(fr) # 1
    BY <1>1, <1>5, <2>1 DEF IsTop
  <2>4. m \in Nat /\ m >= 1 /\ k \in Nat /\ \A i \in 1 .. m : fr[i].pos \in Nat
    BY <1>3, <2>1, <2>2, <2>3
  <2>5. PlaceIn(Append(Path(g, NoStm, fr), k), g)
    BY <2>1, <2>2, <2>4, PathPlace
  <2> QED BY <1>2, <2>1, <2>5
<1>8. /\ IsSeq(symbols') /\ SymbolsIn(symbols', allocas') /\ DOMAIN allocas \subseteq DOMAIN allocas'
      /\ AllocasIn(allocas', cgFn)
  BY <1>4, <1>5, <1>6, <1>7, AddPlaces
<1>9. PICK known, al : known = Added(x, Symbol(p, t)) /\ al = allocas'
  OBVIOUS
<1>10. IsSeq(known) /\ SymbolsIn(known, al) /\ DOMAIN allocas \subseteq DOMAIN al /\ visitEIds(known)
  BY <1>4, <1>8, <1>9
<1>11. LoadsIn(loads', al, cgFn)
  BY <1>10, LoadsStep
<1>12. SymbolsIn(symbols, allocas)' /\ AllocasIn(allocas, cgFn)' /\ LoadsIn(loads, allocas, cgFn)'
  BY <1>5, <1>8, <1>9, <1>11 DEF SymbolsIn, AllocasIn, LoadsIn
<1> QED BY <1>4, <1>12 DEF Places

LEMMA StepPlaces ==
  ASSUME IInv, Bindings, Places, [ScopeNext]_allVars
  PROVE  Places'
<1>1. SymbolsIn(symbols, allocas) /\ cgArg \in Nat
  BY DEF Places
<1>2. CASE UNCHANGED scopes /\ cgFn' = cgFn
  <2>1. UNCHANGED <<cgFn, allocas, loads>> /\ cgArg' \in Nat /\ symbols' = symbols
    BY <1>1, <1>2 DEF scopes
  <2> QED BY <1>1, <2>1, PlacesKept
<1>3. CASE UNCHANGED allVars \/ typeCheck \/ compileTypeChecked \/ printIR
  BY <1>2, <1>3 DEF allVars, typeCheck, compileTypeChecked, printIR, blocks
<1>4. CASE CodeGenNext
  <2>1. phase = "codegen"
    BY <1>4 DEF CodeGenNext, visitDFunBody, visitArgument, visitSBlockScope, endScope,
         visitDeclarator, visitStatement, Entered
  <2>2. Generating \/ Between
    BY <2>1 DEF Bindings
  <2>3. CASE visitDFunBody
    <3>1. cgFrames = <<>>
      BY <2>3 DEF visitDFunBody, Cg!visitDFun
    <3>2. Between
      BY <2>2, <3>1 DEF Generating
    <3> QED BY <2>3, <3>2, BodyPlaces
  <2>4. CASE ~ visitDFunBody
    <3>1. cgFrames # <<>> \/ cgNode # NoStm
      BY <1>4, <2>4 DEF CodeGenNext, visitArgument, visitSBlockScope, endScope, visitDeclarator,
           visitStatement, Cg!visitSBlock, Cg!endSBlock, Cg!endDFun, Cg!ListDone, Cg!InList,
           Cg!visitIdInit, Cg!InDecls, Cg!visitNext, Cg!visitSExp, Cg!visitSReturn,
           Cg!visitSReturnV, Cg!visitSDecls, Cg!endSDecls, Cg!visitSWhile, Cg!endSWhile,
           Cg!visitSDoWhile, Cg!endSDoWhile, Cg!visitSFor, Cg!endSFor, Cg!visitSIfElse,
           Cg!elseSIfElse, Cg!endSIfElse, Cg!Entering, Cg!Resuming
    <3>2. Generating
      BY <2>2, <3>1 DEF Between
    <3> QED BY <1>4, <2>4, <3>2, ArgPlaces, OpenPlaces, ClosePlaces, IdPlaces, StatementPlaces
            DEF CodeGenNext
  <2> QED BY <2>3, <2>4
<1> QED BY <1>3, <1>4 DEF ScopeNext

(* What the typechecker's step does to the maps beside its Contexts.       *)
LEMMA RememberKeeps ==
  ASSUME IInv, EnteredAsChain, Next, Remember
  PROVE  EnteredAsChain'
<1>1. PICK c, d, e, g : c = chain /\ d = chain' /\ e = entered /\ g = entered'
  OBVIOUS
<1>2. /\ IsSeq(c) /\ c # <<>> /\ IsSeq(d) /\ d # <<>> /\ Len(c) \in Nat /\ Len(d) \in Nat
      /\ DOMAIN c = 1 .. Len(c) /\ DOMAIN d = 1 .. Len(d) /\ Len(c) >= 1
  <2>1. c \in Seq(Maps) /\ d \in Seq(Maps) /\ c # <<>> /\ d # <<>>
    <3>1. IInv /\ IInv'
      BY NextInv DEF StepOK
    <3>2. chain \in Seq(Maps) /\ Len(chain) >= 1 /\ chain # <<>>
      BY InvFacts
    <3>3. chain' \in Seq(Maps) /\ chain' # <<>>
      <4>1. chain' \in Seq(Maps) /\ Len(chain') = 1 + ScopeCount(frames')
        BY <3>1 DEF IInv, ScopeCount, ScopeFrames
      <4>2. StackOK(frames')
        BY <3>1 DEF IInv, StackOK
      <4>3. ScopeCount(frames') \in Nat
        BY <4>2, ScopesFinite
      <4>4. Len(chain') >= 1
        BY <4>1, <4>3
      <4> QED BY <4>1, <4>4
    <3> QED BY <1>1, <3>2, <3>3
  <2> QED BY <2>1 DEF IsSeq
<1>3. IsSeq(e) /\ Len(e) = Len(c) /\ DOMAIN e = 1 .. Len(e)
      /\ \A i \in 1 .. Len(c) : DOMAIN e[i] = DOMAIN c[i]
  BY <1>1, <1>2, SeqIs DEF EnteredAsChain
<1>4. c = d \/ Opens \/ Closes \/ Declares
  BY <1>1, NextInv DEF StepOK
<1>5. PICK inner :
        /\ DOMAIN inner = DOMAIN d[Len(d)]
        /\ g = CASE Len(d) > Len(c) -> Append(e, NoMembers)
                 [] Len(d) < Len(c) -> SubSeq(e, 1, Len(e) - 1)
                 [] OTHER -> [e EXCEPT ![Len(e)] = inner]
  <2>1. PICK inner :
          inner = [x \in DOMAIN d[Len(d)] |->
                     IF x \in DOMAIN e[Len(e)] THEN e[Len(e)][x] ELSE Declaring]
    OBVIOUS
  <2> QED BY <1>1, <2>1 DEF Remember
<1>6. SUFFICES IsSeq(g) /\ Len(g) = Len(d) /\ \A i \in 1 .. Len(d) : DOMAIN g[i] = DOMAIN d[i]
  BY <1>1, <1>2 DEF EnteredAsChain
<1>7. CASE Opens
  <2>1. IsPush(c, NoMembers, d)
    BY <1>1, <1>2, <1>7, Push DEF Opens
  <2>2. g = Append(e, NoMembers)
    BY <1>5, <2>1 DEF IsPush
  <2>3. IsPush(e, NoMembers, g)
    BY <1>3, <2>2, Push
  <2> QED BY <1>3, <2>1, <2>3 DEF IsPush
<1>8. CASE Closes
  <2>1. IsPop(c, d)
    BY <1>1, <1>2, <1>8, PopSeq DEF Closes
  <2>2. g = SubSeq(e, 1, Len(e) - 1)
    BY <1>5, <2>1 DEF IsPop
  <2>3. IsPop(e, g)
    <3>1. e # <<>>
      BY <1>2, <1>3
    <3>2. IsSeq(e)
      BY <1>3
    <3> QED BY ONLY <2>2, <3>1, <3>2, PopSeq
  <2> QED BY <1>3, <2>1, <2>3 DEF IsPop
<1>9. CASE c = d \/ Declares
  <2>1. Len(d) = Len(c) /\ \A i \in 1 .. Len(c) : i # Len(c) => d[i] = c[i]
    <3>1. CASE c = d
      BY <3>1
    <3>2. CASE Declares
      <4>1. PICK z : d = [c EXCEPT ![Len(c)] = z]
        BY <1>1, <3>2 DEF Declares, addSymbol
      <4>2. DOMAIN d = DOMAIN c
        BY <4>1
      <4>3. Len(d) = Len(c)
        <5>1. PICK m, n : m = Len(c) /\ n = Len(d)
          OBVIOUS
        <5>2. m \in Nat /\ n \in Nat /\ m >= 1 /\ 1 .. m = 1 .. n
          BY <1>2, <4>2, <5>1
        <5>3. m \in 1 .. m
          BY <5>2
        <5>4. m \in 1 .. n
          BY <5>2, <5>3
        <5>5. n \in 1 .. n
          BY <5>2, <5>4
        <5>6. n \in 1 .. m
          BY <5>2, <5>5
        <5> QED BY <5>1, <5>2, <5>4, <5>6
      <4> QED BY <1>2, <4>1, <4>3
    <3> QED BY <1>9, <3>1, <3>2
  <2>2. g = [e EXCEPT ![Len(e)] = inner]
    BY <1>5, <2>1, <1>2
  <2>3. IsSeq(g) /\ Len(g) = Len(e) /\ g[Len(e)] = inner
        /\ \A i \in 1 .. Len(e) : i # Len(e) => g[i] = e[i]
    <3>1. PICK S : e \in Seq(S)
      BY <1>3 DEF IsSeq
    <3>2. PICK T : T = S \cup {inner}
      OBVIOUS
    <3>3. e \in Seq(T) /\ inner \in T
      BY <3>1, <3>2
    <3>4. g \in Seq(T)
      <4>1. PICK n : n = Len(e)
        OBVIOUS
      <4>2. g = [e EXCEPT ![n] = inner]
        BY <2>2, <4>1
      <4>3. Len(e) \in Nat /\ n \in 1 .. Len(e)
        BY <1>2, <1>3, <4>1
      <4> QED BY ONLY <3>3, <4>2, <4>3
    <3>5. Len(e) \in 1 .. Len(e)
      BY <1>2, <1>3
    <3> QED BY <2>2, <3>3, <3>4, <3>5 DEF IsSeq
  <2> QED BY <1>2, <1>3, <1>5, <2>1, <2>3
<1> QED BY <1>4, <1>7, <1>8, <1>9

LEMMA StepEntered ==
  ASSUME IInv, EnteredAsChain, [ScopeNext]_allVars
  PROVE  EnteredAsChain'
<1>1. CASE typeCheck
  BY <1>1, RememberKeeps DEF typeCheck
<1>2. CASE ~ typeCheck
  <2>1. entered' = entered /\ chain' = chain
    BY <1>2 DEF ScopeNext, compileTypeChecked, CodeGenNext, visitDFunBody, visitArgument,
         visitSBlockScope, endScope, visitDeclarator, visitStatement, printIR, allVars, passed,
         history, vars
  <2> QED BY <2>1 DEF EnteredAsChain, IsSeq
<1> QED BY <1>1, <1>2

LEMMA InitPlaces == ScopeInit => Places /\ EnteredAsChain
<1> SUFFICES ASSUME ScopeInit PROVE Places /\ EnteredAsChain
  OBVIOUS
<1>1. PICK c : c = <<NoMembers>>
  OBVIOUS
<1>2. /\ cgArg = 0 /\ symbols = c /\ allocas = NoMembers /\ loads = {}
      /\ entered = c /\ chain = c
  BY <1>1 DEF ScopeInit, Init
<1>3. DOMAIN NoMembers = {}
  BY NoMembersMap
<1>4. DOMAIN c = {1} /\ c[1] = NoMembers /\ c \in Seq({NoMembers})
  BY <1>1
<1>5. Places
  BY <1>2, <1>3, <1>4 DEF Places, SymbolsIn, AllocasIn, LoadsIn
<1>6. EnteredAsChain
  BY <1>2, <1>4 DEF EnteredAsChain, IsSeq
<1> QED BY <1>5, <1>6

(* Every name a CodeGenContext holds has its alloca among those of the     *)
(* function being generated, and a type that an alloca can have; no load   *)
(* is of an alloca of an earlier function (CodeGenVisitor.cpp:288-295), as *)
(* each function starts from the root context (CodeGenVisitor.cpp:52).     *)
THEOREM ScopeTypesCorrect == ScopeSpec => []ScopeTypeOK
<1>1. Bindings /\ Places /\ EnteredAsChain => ScopeTypeOK
  <2> SUFFICES ASSUME Bindings, Places, EnteredAsChain PROVE ScopeTypeOK
    OBVIOUS
  <2>1. phase \in Phases
    BY DEF Bindings
  <2> QED BY <2>1 DEF ScopeTypeOK, Phases, Places, EnteredAsChain, SymbolsIn, AllocasIn, LoadsIn,
                      PlaceIn
<1>2. ScopeSpec => []IInv
  BY StepsOfTypeCheck, Invariance, PTL
<1>3. IInv /\ Bindings /\ Places /\ EnteredAsChain /\ [ScopeNext]_allVars
        => Places' /\ EnteredAsChain'
  BY StepPlaces, StepEntered
<1> QED BY <1>1, <1>2, <1>3, InitPlaces, BindingsHold, PTL DEF ScopeSpec
====
