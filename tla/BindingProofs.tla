---------------------------- MODULE BindingProofs ----------------------------
(***************************************************************************)
(* A theorem about CodeGenScope, for every program: the place a generated  *)
(* name is loaded from or stored to is the one at which the typechecker    *)
(* bound that name (BoundAsTyped).  Neither of the two visitors knows the  *)
(* declarations of the other: both walk the program with a chain of scopes *)
(* of their own, and nothing but the walks being alike makes them agree.   *)
(*                                                                         *)
(*   - The typechecker notes, for every place it has visited, the          *)
(*     declaration it found there.  Its chain holds what the handlers on   *)
(*     its stack have declared so far, and nothing else (AllTracked), and  *)
(*     it leaves no use behind without its note (AllNoted).                *)
(*   - So do the CodeGenContexts of the code generator, which leaves out   *)
(*     what is behind a return and visits the last expression of a for     *)
(*     after its body.                                                     *)
(*   - Two walks that have come to the same place have the same handlers   *)
(*     on their stacks, which have declared the same, but for what only    *)
(*     the code generator has entered: a name that initialises itself, and *)
(*     a name declared by a body whose for steps with it.  These are the   *)
(*     two exceptions of BoundAsTyped.                                     *)
(***************************************************************************)
EXTENDS CodeGenScopeProofs

-----------------------------------------------------------------------------
(***************************************************************************)
(* Where names are bound.  A chain holds, for each scope, which place each *)
(* name was declared at.  It is compared by what it holds.                 *)
(***************************************************************************)

(* Two maps, and two chains of them, that hold the same.                   *)
SameMap(m, n) == DOMAIN m = DOMAIN n /\ \A x \in DOMAIN m : m[x] = n[x]

Alike(c, d) ==
  /\ IsSeq(c) /\ IsSeq(d) /\ Len(c) = Len(d) /\ Len(c) >= 1
  /\ \A i \in 1 .. Len(c) : SameMap(c[i], d[i])

(* Entries are pairs of a name and the place of its declaration.           *)
Names(E) == {e[1] : e \in E}

(* n is m with the names of E, each at its place.                          *)
GainsMap(m, E, n) ==
  /\ DOMAIN n = DOMAIN m \cup Names(E)
  /\ \A x \in DOMAIN m : n[x] = m[x]
  /\ \A e \in E : n[e[1]] = e[2]

(* The innermost scope of chain b gains those of E, which makes it d.      *)
Gains(b, E, d) ==
  /\ IsSeq(b) /\ IsSeq(d) /\ Len(d) = Len(b) /\ Len(b) >= 1
  /\ \A i \in 1 .. Len(b) : i # Len(b) => SameMap(b[i], d[i])
  /\ GainsMap(b[Len(b)], E, d[Len(b)])

LEMMA AlikeSelf ==
  ASSUME NEW c, IsSeq(c), Len(c) >= 1
  PROVE  Alike(c, c)
  BY DEF Alike, SameMap

LEMMA AlikeBack ==
  ASSUME NEW c, NEW d, Alike(c, d)
  PROVE  Alike(d, c)
<1>1. Len(c) = Len(d)
  BY DEF Alike
<1> QED BY <1>1 DEF Alike, SameMap

LEMMA AlikeOn ==
  ASSUME NEW c, NEW d, NEW e, Alike(c, d), Alike(d, e)
  PROVE  Alike(c, e)
<1>1. Len(c) = Len(d)
  BY DEF Alike
<1> QED BY <1>1 DEF Alike, SameMap

LEMMA GainsNone ==
  ASSUME NEW c, NEW d, Alike(c, d)
  PROVE  Gains(c, {}, d)
<1>1. Len(c) \in Nat /\ Len(c) \in 1 .. Len(c)
  BY SeqIs DEF Alike
<1> QED BY <1>1 DEF Alike, Gains, GainsMap, SameMap, Names

(* Both sides may be exchanged for chains that hold the same.              *)
LEMMA GainsAlike ==
  ASSUME NEW b, NEW E, NEW d, Gains(b, E, d), NEW c, Alike(b, c), NEW e, Alike(d, e)
  PROVE  Gains(c, E, e)
<1>1. PICK n : n = Len(b)
  OBVIOUS
<1>2. Len(b) = n /\ Len(c) = n /\ Len(d) = n /\ Len(e) = n /\ n \in Nat /\ n \in 1 .. n /\ n >= 1
  BY <1>1, SeqIs DEF Alike, Gains
<1>3. /\ IsSeq(c) /\ IsSeq(e) /\ \A i \in 1 .. n : SameMap(b[i], c[i]) /\ SameMap(d[i], e[i])
      /\ \A i \in 1 .. n : i # n => SameMap(b[i], d[i])
      /\ GainsMap(b[n], E, d[n])
  BY <1>2 DEF Alike, Gains
<1>4. \A i \in 1 .. n : i # n => SameMap(c[i], e[i])
  BY <1>3 DEF SameMap
<1>5. GainsMap(c[n], E, e[n])
  <2>1. PICK bn, cn, dn, en : bn = b[n] /\ cn = c[n] /\ dn = d[n] /\ en = e[n]
    OBVIOUS
  <2>2. SameMap(bn, cn) /\ SameMap(dn, en) /\ GainsMap(bn, E, dn)
    BY <1>2, <1>3, <2>1
  <2>3. GainsMap(cn, E, en)
    <3>1. DOMAIN en = DOMAIN cn \cup Names(E) /\ DOMAIN dn = DOMAIN en /\ DOMAIN bn = DOMAIN cn
      BY <2>2 DEF SameMap, GainsMap
    <3>2. \A x \in DOMAIN cn : en[x] = cn[x]
      BY <2>2, <3>1 DEF SameMap, GainsMap
    <3>3. \A x \in E : x[1] \in DOMAIN dn
      BY <2>2 DEF GainsMap, Names
    <3>4. \A x \in E : en[x[1]] = x[2]
      BY <2>2, <3>3 DEF SameMap, GainsMap
    <3> QED BY <3>1, <3>2, <3>4 DEF GainsMap
  <2> QED BY <2>1, <2>3
<1> QED BY <1>2, <1>3, <1>4, <1>5 DEF Gains

(* What a chain has become is known by what it has gained.                 *)
LEMMA GainsOnce ==
  ASSUME NEW b, NEW E, NEW d, Gains(b, E, d), NEW c, Alike(b, c), NEW e, Gains(c, E, e)
  PROVE  Alike(d, e)
<1>1. PICK n : n = Len(b)
  OBVIOUS
<1>2. Len(b) = n /\ Len(c) = n /\ Len(d) = n /\ Len(e) = n /\ n \in Nat /\ n \in 1 .. n /\ n >= 1
  BY <1>1, SeqIs DEF Alike, Gains
<1>3. /\ IsSeq(d) /\ IsSeq(e) /\ \A i \in 1 .. n : SameMap(b[i], c[i])
      /\ \A i \in 1 .. n : i # n => SameMap(b[i], d[i]) /\ SameMap(c[i], e[i])
      /\ GainsMap(b[n], E, d[n]) /\ GainsMap(c[n], E, e[n])
  BY <1>2 DEF Alike, Gains
<1>4. \A i \in 1 .. n : i # n => SameMap(d[i], e[i])
  BY <1>3 DEF SameMap
<1>5. SameMap(d[n], e[n])
  <2>1. PICK bn, cn, dn, en : bn = b[n] /\ cn = c[n] /\ dn = d[n] /\ en = e[n]
    OBVIOUS
  <2>2. SameMap(bn, cn) /\ GainsMap(bn, E, dn) /\ GainsMap(cn, E, en)
    BY <1>2, <1>3, <2>1
  <2>3. DOMAIN dn = DOMAIN bn \cup Names(E) /\ DOMAIN en = DOMAIN dn
    BY <2>2 DEF SameMap, GainsMap
  <2>4. ASSUME NEW x \in DOMAIN dn
        PROVE  dn[x] = en[x]
    <3>1. CASE x \in DOMAIN bn
      BY <2>2, <3>1 DEF SameMap, GainsMap
    <3>2. CASE x \in Names(E)
      <4>1. PICK y \in E : y[1] = x
        BY <3>2 DEF Names
      <4> QED BY <2>2, <4>1 DEF GainsMap
    <3> QED BY <2>3, <3>1, <3>2
  <2> QED BY <2>1, <2>3, <2>4 DEF SameMap
<1> QED BY <1>2, <1>3, <1>4, <1>5 DEF Alike

LEMMA GainsBoth ==
  ASSUME NEW b, NEW E, NEW c, Gains(b, E, c), NEW F, NEW d, Gains(c, F, d)
  PROVE  Gains(b, E \cup F, d)
<1>1. PICK n : n = Len(b)
  OBVIOUS
<1>2. Len(b) = n /\ Len(c) = n /\ Len(d) = n /\ n \in Nat /\ n \in 1 .. n /\ n >= 1
  BY <1>1, SeqIs DEF Gains
<1>3. /\ IsSeq(b) /\ IsSeq(d)
      /\ \A i \in 1 .. n : i # n => SameMap(b[i], c[i]) /\ SameMap(c[i], d[i])
      /\ GainsMap(b[n], E, c[n]) /\ GainsMap(c[n], F, d[n])
  BY <1>2 DEF Gains
<1>4. \A i \in 1 .. n : i # n => SameMap(b[i], d[i])
  BY <1>3 DEF SameMap
<1>5. GainsMap(b[n], E \cup F, d[n])
  <2>1. PICK bn, cn, dn : bn = b[n] /\ cn = c[n] /\ dn = d[n]
    OBVIOUS
  <2>2. GainsMap(bn, E, cn) /\ GainsMap(cn, F, dn)
    BY <1>3, <2>1
  <2>3. Names(E \cup F) = Names(E) \cup Names(F)
    BY DEF Names
  <2>4. DOMAIN dn = DOMAIN bn \cup Names(E \cup F)
    BY <2>2, <2>3 DEF GainsMap
  <2>5. \A x \in DOMAIN bn : dn[x] = bn[x]
    BY <2>2 DEF GainsMap
  <2>6. \A e \in E : e[1] \in DOMAIN cn
    BY <2>2 DEF GainsMap, Names
  <2>7. \A e \in E \cup F : dn[e[1]] = e[2]
    BY <2>2, <2>6 DEF GainsMap
  <2> QED BY <2>1, <2>4, <2>5, <2>7 DEF GainsMap
<1> QED BY <1>2, <1>3, <1>4, <1>5 DEF Gains

(* A scope is opened, and closed again.                                    *)
LEMMA AlikePush ==
  ASSUME NEW c, NEW d, Alike(c, d)
  PROVE  Alike(Append(c, NoMembers), Append(d, NoMembers))
<1>1. PICK b, e : b = Append(c, NoMembers) /\ e = Append(d, NoMembers)
  OBVIOUS
<1>2. IsSeq(c) /\ IsSeq(d) /\ Len(c) = Len(d) /\ \A i \in 1 .. Len(c) : SameMap(c[i], d[i])
  BY DEF Alike
<1>3. IsPush(c, NoMembers, b) /\ IsPush(d, NoMembers, e)
  BY <1>1, <1>2, Push
<1>4. PICK n, k : n = Len(c) /\ k = n + 1
  OBVIOUS
<1>5. /\ IsSeq(b) /\ IsSeq(e) /\ Len(b) = k /\ Len(e) = k /\ n \in Nat /\ k >= 1
      /\ b[k] = NoMembers /\ e[k] = NoMembers /\ \A i \in 1 .. n : b[i] = c[i] /\ e[i] = d[i]
  BY <1>2, <1>3, <1>4 DEF IsPush
<1>6. \A i \in 1 .. k : i = k \/ i \in 1 .. n
  BY <1>4, <1>5
<1>7. \A i \in 1 .. k : SameMap(b[i], e[i])
  BY <1>2, <1>4, <1>5, <1>6 DEF SameMap
<1> QED BY <1>1, <1>5, <1>7 DEF Alike

LEMMA AlikeClose ==
  ASSUME NEW c, IsSeq(c), Len(c) >= 1, NEW b, b = Append(c, NoMembers), NEW E, NEW d, Gains(b, E, d),
         NEW e, e = SubSeq(d, 1, Len(d) - 1)
  PROVE  Alike(c, e)
<1>1. IsPush(c, NoMembers, b)
  BY Push
<1>2. PICK n : n = Len(c)
  OBVIOUS
<1>3. n \in Nat /\ n >= 1 /\ Len(b) = n + 1 /\ \A i \in 1 .. n : b[i] = c[i]
  BY <1>1, <1>2 DEF IsPush
<1>4. IsSeq(d) /\ Len(d) = n + 1 /\ \A i \in 1 .. n : SameMap(b[i], d[i])
  BY <1>3 DEF Gains
<1>5. d # <<>>
  <2>1. Len(d) # 0
    BY <1>3, <1>4
  <2> QED BY <2>1
<1>6. IsPop(d, e)
  BY <1>4, <1>5, PopSeq
<1>7. IsSeq(e) /\ Len(e) = n /\ \A i \in 1 .. n : e[i] = d[i]
  BY <1>3, <1>4, <1>6 DEF IsPop
<1> QED BY <1>2, <1>3, <1>4, <1>7 DEF Alike, SameMap

-----------------------------------------------------------------------------
(* What a statement declares around it *)

Entries == SUBSET (Id \X Seq(Nat))

(* The parts of a statement that is not a declaration.                     *)
LEMMA StmKids ==
  ASSUME NEW s \in Stm, s.op # "SDecls"
  PROVE  /\ Kids(s) = s.kids /\ DOMAIN s.kids \subseteq Nat /\ \A k \in DOMAIN s.kids : s.kids[k] \in Stm
         /\ s.op \in {"SExp", "SReturn", "SReturnV"} => DOMAIN s.kids = {}
         /\ s.op \in {"SWhile", "SDoWhile", "SFor"} => DOMAIN s.kids = 1 .. 1
         /\ s.op = "SIfElse" => DOMAIN s.kids = 1 .. 2
<1>1. s \in Statement
  BY TypeCheckAssumption
<1>2. CASE s \in Node({"SExp", "SReturn"}, 1, 0) \cup Node({"SReturnV"}, 0, 0)
  BY <1>2 DEF Node, Kids
<1>3. CASE s \in Node({"SWhile", "SDoWhile"}, 1, 1) \cup Node({"SFor"}, 3, 1)
  BY <1>3 DEF Node, Kids
<1>4. CASE s \in Node({"SIfElse"}, 1, 2)
  BY <1>4 DEF Node, Kids
<1>5. CASE s \in [op : {"SBlock"}, kids : Seq(Stm)]
  BY <1>5 DEF Kids
<1> QED BY <1>1, <1>2, <1>3, <1>4, <1>5 DEF Statement

(* Entries seen from around part k.                                        *)
Below(E, k) == {<<e[1], <<k>> \o e[2]>> : e \in E}

(* Of a statement, when around says so of its parts.                       *)
DeclaredBy(s, around) ==
  CASE s.op = "SBlock" -> {}
    [] s.op = "SDecls" -> {<<s.exps[k].name, <<k>>>> : k \in DOMAIN s.exps}
    [] OTHER ->
         UNION {Below(around[s.kids[k]], k) : k \in DOMAIN s.kids}

LEMMA DeclaredRange ==
  ASSUME NEW s \in Stm, NEW g, \A k \in Parts[s] : g[k] \in Entries
  PROVE  DeclaredBy(s, g) \in Entries
<1>1. CASE s.op = "SBlock"
  BY <1>1 DEF DeclaredBy, Entries
<1>2. CASE s.op = "SDecls"
  <2>1. s.exps \in Seq(IdIn)
    BY <1>2, StmParts
  <2>2. ASSUME NEW k \in DOMAIN s.exps
        PROVE  s.exps[k].name \in Id /\ <<k>> \in Seq(Nat)
    <3>1. s.exps[k] \in IdIn /\ k \in Nat
      BY <2>1
    <3> QED BY <3>1 DEF IdIn
  <2>3. DeclaredBy(s, g) = {<<s.exps[k].name, <<k>>>> : k \in DOMAIN s.exps}
    BY <1>2 DEF DeclaredBy
  <2>4. ASSUME NEW z \in DeclaredBy(s, g)
        PROVE  z \in Id \X Seq(Nat)
    <3>1. PICK k \in DOMAIN s.exps : z = <<s.exps[k].name, <<k>>>>
      BY <2>3, <2>4
    <3> QED BY <2>2, <3>1
  <2> QED BY <2>4 DEF Entries
<1>3. CASE s.op \notin {"SBlock", "SDecls"}
  <2>1. DeclaredBy(s, g) = UNION {Below(g[s.kids[k]], k) : k \in DOMAIN s.kids}
    BY <1>3 DEF DeclaredBy
  <2>2. ASSUME NEW k \in DOMAIN s.kids, NEW e \in g[s.kids[k]]
        PROVE  <<e[1], <<k>> \o e[2]>> \in Id \X Seq(Nat)
    <3>1. k \in Nat /\ s.kids[k] \in Parts[s]
      BY <1>3, StmKids, PartsLower
    <3>2. e \in Id \X Seq(Nat)
      BY <3>1 DEF Entries
    <3>3. PICK one, r : one = <<k>> /\ r = e[2]
      OBVIOUS
    <3>4. one \in Seq(Nat) /\ r \in Seq(Nat) /\ e[1] \in Id
      BY <3>1, <3>2, <3>3
    <3>5. one \o r \in Seq(Nat)
      BY <3>4, ConcatProperties
    <3> QED BY <3>3, <3>4, <3>5
  <2>3. ASSUME NEW z \in DeclaredBy(s, g)
        PROVE  z \in Id \X Seq(Nat)
    <3>1. PICK k \in DOMAIN s.kids : z \in Below(g[s.kids[k]], k)
      BY <2>1, <2>3
    <3>2. PICK e \in g[s.kids[k]] : z = <<e[1], <<k>> \o e[2]>>
      BY <3>1 DEF Below
    <3> QED BY <2>2, <3>2
  <2> QED BY <2>3 DEF Entries
<1> QED BY <1>1, <1>2, <1>3

LEMMA DeclaredByAlike ==
  ASSUME NEW s \in Stm, NEW g, NEW h, \A k \in Parts[s] : g[k] = h[k]
  PROVE  DeclaredBy(s, g) = DeclaredBy(s, h)
<1>1. CASE s.op \in {"SBlock", "SDecls"}
  BY <1>1 DEF DeclaredBy
<1>2. CASE s.op \notin {"SBlock", "SDecls"}
  <2>1. \A k \in DOMAIN s.kids : s.kids[k] \in Parts[s]
    BY <1>2, StmKids, PartsLower
  <2>2. PICK G, H : /\ G = [k \in DOMAIN s.kids |-> Below(g[s.kids[k]], k)]
                    /\ H = [k \in DOMAIN s.kids |-> Below(h[s.kids[k]], k)]
    OBVIOUS
  <2>3. \A k \in DOMAIN s.kids : g[s.kids[k]] = h[s.kids[k]]
    BY <2>1
  <2>4. G = H
    BY ONLY <2>2, <2>3
  <2>5. DeclaredBy(s, g) = UNION {G[k] : k \in DOMAIN s.kids}
    <3>1. DeclaredBy(s, g) = UNION {Below(g[s.kids[k]], k) : k \in DOMAIN s.kids}
      BY <1>2 DEF DeclaredBy
    <3>2. \A k \in DOMAIN s.kids : G[k] = Below(g[s.kids[k]], k)
      BY <2>2
    <3>3. {G[k] : k \in DOMAIN s.kids} = {Below(g[s.kids[k]], k) : k \in DOMAIN s.kids}
      BY <3>2
    <3> QED BY <3>1, <3>3
  <2>6. DeclaredBy(s, h) = UNION {H[k] : k \in DOMAIN s.kids}
    <3>1. DeclaredBy(s, h) = UNION {Below(h[s.kids[k]], k) : k \in DOMAIN s.kids}
      BY <1>2 DEF DeclaredBy
    <3>2. \A k \in DOMAIN s.kids : H[k] = Below(h[s.kids[k]], k)
      BY <2>2
    <3>3. {H[k] : k \in DOMAIN s.kids} = {Below(h[s.kids[k]], k) : k \in DOMAIN s.kids}
      BY <3>2
    <3> QED BY <3>1, <3>3
  <2> QED BY <2>4, <2>5, <2>6
<1> QED BY <1>1, <1>2

(* Around is what its definition says.                                     *)
LEMMA AroundIs ==
  Around \in [Stm -> Entries] /\ \A s \in Stm : Around[s] = DeclaredBy(s, Around)
<1>1. PICK step : step = [s \in Stm |-> [g \in [Parts[s] -> Entries] |-> DeclaredBy(s, g)]]
  OBVIOUS
<1>2. \A s \in Stm : \A g \in [Parts[s] -> Entries] : step[s][g] = DeclaredBy(s, g) /\ step[s][g] \in Entries
  BY <1>1, DeclaredRange
<1>3. PICK f \in [Stm -> Entries] : Computes(f, Stm, Parts, step)
  BY <1>2, PartsLower, TreeFunction
<1>4. ASSUME NEW s \in Stm
      PROVE  f[s] = DeclaredBy(s, f)
  <2>1. PICK g : g = [k \in Parts[s] |-> f[k]]
    OBVIOUS
  <2>2. g \in [Parts[s] -> Entries]
    BY <2>1, PartsLower
  <2>3. f[s] = step[s][g]
    BY <1>3, <2>1 DEF Computes
  <2>4. DeclaredBy(s, g) = DeclaredBy(s, f)
    BY <2>1, DeclaredByAlike
  <2> QED BY <1>2, <2>2, <2>3, <2>4
<1>5. f = [s \in Stm |-> DeclaredBy(s, f)]
  BY <1>3, <1>4
<1>6. Around = [s \in Stm |-> DeclaredBy(s, Around)]
  <2> DEFINE sol(F) == F = [s \in Stm |-> DeclaredBy(s, F)]
  <2>1. sol(f)
    BY <1>5
  <2>2. Around = CHOOSE F : sol(F)
    BY DEF Around, DeclaredBy, Below
  <2> HIDE DEF sol
  <2>3. sol(Around)
    BY <2>1, <2>2
  <2> QED BY <2>3 DEF sol
<1>7. PICK P : P = {s \in Stm : Around[s] \in Entries}
  OBVIOUS
<1>8. Hereditary(Stm, Parts, P)
  <2>1. ASSUME NEW s \in Stm, Parts[s] \subseteq P
        PROVE  s \in P
    <3>1. DeclaredBy(s, Around) \in Entries
      BY <1>7, <2>1, DeclaredRange
    <3> QED BY <1>6, <1>7, <3>1
  <2> QED BY <2>1 DEF Hereditary
<1>9. Stm \subseteq P
  BY <1>8, PartsLower, TreeInduction
<1> QED BY <1>6, <1>7, <1>9

-----------------------------------------------------------------------------
(* What has been declared after some of the parts of a statement *)

(* Entries seen from place at.                                             *)
From(E, at) == {<<e[1], at \o e[2]>> : e \in E}

Arg(s, at, k) == <<s.args[k].name, <<at[1], 0, k>>>>

(* By the first n parts of s, which is at place at, and its first a        *)
(* arguments if it is a function.                                          *)
Inside(s, at, n, a) ==
  IF s.op = "SDecls" THEN {<<s.exps[k].name, Append(at, k)>> : k \in 1 .. n}
  ELSE (UNION {From(Around[s.kids[k]], Append(at, k)) : k \in 1 .. n})
       \cup (IF s.op = "DFun" THEN {Arg(s, at, k) : k \in 1 .. a} ELSE {})

LEMMA InsideNone ==
  ASSUME NEW s, NEW at, NEW a \in Nat, s.op = "DFun" => a = 0
  PROVE  Inside(s, at, 0, a) = {}
  BY DEF Inside

(* UNION of the first ones.                                                *)
LEMMA UnionNext ==
  ASSUME NEW G, NEW n \in Nat
  PROVE  UNION {G[k] : k \in 1 .. n + 1} = (UNION {G[k] : k \in 1 .. n}) \cup G[n + 1]
<1>1. \A k : k \in 1 .. n + 1 <=> k \in 1 .. n \/ k = n + 1
  OBVIOUS
<1>2. ASSUME NEW z
      PROVE  z \in UNION {G[k] : k \in 1 .. n + 1} <=> z \in (UNION {G[k] : k \in 1 .. n}) \cup G[n + 1]
  <2>1. z \in UNION {G[k] : k \in 1 .. n + 1} <=> \E k \in 1 .. n + 1 : z \in G[k]
    OBVIOUS
  <2>2. z \in UNION {G[k] : k \in 1 .. n} <=> \E k \in 1 .. n : z \in G[k]
    OBVIOUS
  <2>3. (\E k \in 1 .. n + 1 : z \in G[k]) <=> (\E k \in 1 .. n : z \in G[k]) \/ z \in G[n + 1]
    BY <1>1, Zenon
  <2> QED BY <2>1, <2>2, <2>3
<1> QED BY <1>2

(* One part more.                                                          *)
LEMMA InsideNext ==
  ASSUME NEW s, NEW at, NEW n \in Nat, NEW m, m = n + 1, NEW a, s.op # "SDecls"
  PROVE  Inside(s, at, m, a) = Inside(s, at, n, a) \cup From(Around[s.kids[m]], Append(at, m))
<1>2. PICK G : G = [k \in Nat |-> From(Around[s.kids[k]], Append(at, k))]
  OBVIOUS
<1>3. PICK A : A = IF s.op = "DFun" THEN {Arg(s, at, k) : k \in 1 .. a} ELSE {}
  OBVIOUS
<1>4. ASSUME NEW i \in Nat
      PROVE  Inside(s, at, i, a) = (UNION {G[k] : k \in 1 .. i}) \cup A
  <2>1. \A k \in 1 .. i : G[k] = From(Around[s.kids[k]], Append(at, k))
    BY <1>2
  <2>2. {G[k] : k \in 1 .. i} = {From(Around[s.kids[k]], Append(at, k)) : k \in 1 .. i}
    BY <2>1
  <2> QED BY <1>3, <2>2 DEF Inside
<1>5. UNION {G[k] : k \in 1 .. n + 1} = (UNION {G[k] : k \in 1 .. n}) \cup G[n + 1]
  BY UnionNext
<1>6. PICK U, V, F : U = UNION {G[k] : k \in 1 .. n} /\ V = UNION {G[k] : k \in 1 .. n + 1} /\ F = G[n + 1]
  OBVIOUS
<1>7. Inside(s, at, n, a) = U \cup A /\ Inside(s, at, m, a) = V \cup A /\ V = U \cup F
  BY <1>4, <1>5, <1>6
<1>8. F = From(Around[s.kids[m]], Append(at, m))
  BY <1>2, <1>6
<1> QED BY <1>7, <1>8

(* The first values of a function.                                         *)
LEMMA ImageNext ==
  ASSUME NEW g, NEW n \in Nat
  PROVE  {g[k] : k \in 1 .. n + 1} = {g[k] : k \in 1 .. n} \cup {g[n + 1]}
<1>1. \A k : k \in 1 .. n + 1 <=> k \in 1 .. n \/ k = n + 1
  OBVIOUS
<1> QED BY <1>1, Zenon

DeclNext(s, at, n, a) ==
  Inside(s, at, n + 1, a) = Inside(s, at, n, a) \cup {<<s.exps[n + 1].name, Append(at, n + 1)>>}

LEMMA InsideDecl ==
  ASSUME NEW s, NEW at, NEW n \in Nat, NEW a, s.op = "SDecls"
  PROVE  DeclNext(s, at, n, a)
<1>1. PICK g : g = [k \in Nat |-> <<s.exps[k].name, Append(at, k)>>]
  OBVIOUS
<1>2. ASSUME NEW m \in Nat
      PROVE  Inside(s, at, m, a) = {g[k] : k \in 1 .. m}
  <2>1. \A k \in 1 .. m : g[k] = <<s.exps[k].name, Append(at, k)>>
    BY <1>1
  <2> QED BY <2>1 DEF Inside
<1>3. {g[k] : k \in 1 .. n + 1} = {g[k] : k \in 1 .. n} \cup {g[n + 1]}
  BY ImageNext
<1>4. g[n + 1] = <<s.exps[n + 1].name, Append(at, n + 1)>>
  BY <1>1
<1>5. Inside(s, at, n + 1, a) = Inside(s, at, n, a) \cup {<<s.exps[n + 1].name, Append(at, n + 1)>>}
  BY <1>2, <1>3, <1>4
<1> QED BY <1>5 DEF DeclNext

LEMMA InsideArg ==
  ASSUME NEW s, NEW at, NEW n, NEW a \in Nat, s.op = "DFun"
  PROVE  Inside(s, at, n, a + 1) = Inside(s, at, n, a) \cup {Arg(s, at, a + 1)}
<1>1. PICK g : g = [k \in Nat |-> Arg(s, at, k)]
  OBVIOUS
<1>2. PICK U : U = UNION {From(Around[s.kids[k]], Append(at, k)) : k \in 1 .. n}
  OBVIOUS
<1>3. ASSUME NEW m \in Nat
      PROVE  Inside(s, at, n, m) = U \cup {g[k] : k \in 1 .. m}
  <2>1. \A k \in 1 .. m : g[k] = Arg(s, at, k)
    BY <1>1
  <2>2. {g[k] : k \in 1 .. m} = {Arg(s, at, k) : k \in 1 .. m}
    BY <2>1
  <2>3. s.op # "SDecls"
    OBVIOUS
  <2> QED BY <1>2, <2>2, <2>3 DEF Inside
<1>4. {g[k] : k \in 1 .. a + 1} = {g[k] : k \in 1 .. a} \cup {g[a + 1]}
  BY ImageNext
<1>5. PICK A, B : A = {g[k] : k \in 1 .. a} /\ B = {g[k] : k \in 1 .. a + 1}
  OBVIOUS
<1>6. Inside(s, at, n, a) = U \cup A /\ Inside(s, at, n, a + 1) = U \cup B /\ B = A \cup {Arg(s, at, a + 1)}
  BY <1>1, <1>3, <1>4, <1>5
<1> QED BY <1>6

LEMMA Further ==
  ASSUME NEW at \in Seq(Nat), NEW k \in Nat, NEW r \in Seq(Nat)
  PROVE  Append(at, k) \o r = at \o (<<k>> \o r)
<1>1. PICK one, p, q, u, v : /\ one = <<k>> /\ p = Append(at, k) /\ q = <<k>> \o r
                             /\ u = p \o r /\ v = at \o q
  OBVIOUS
<1>2. one \in Seq(Nat) /\ Len(one) = 1 /\ one[1] = k /\ Len(at) \in Nat /\ Len(r) \in Nat
  BY <1>1
<1>3. p \in Seq(Nat) /\ Len(p) = Len(at) + 1 /\ p[Len(at) + 1] = k /\ \A i \in 1 .. Len(at) : p[i] = at[i]
  BY <1>1
<1>4. /\ q \in Seq(Nat) /\ Len(q) = 1 + Len(r)
      /\ \A i \in 1 .. 1 + Len(r) : q[i] = IF i <= 1 THEN k ELSE r[i - 1]
  BY <1>1, <1>2, ConcatProperties
<1>5. /\ u \in Seq(Nat) /\ Len(u) = Len(p) + Len(r)
      /\ \A i \in 1 .. Len(p) + Len(r) : u[i] = IF i <= Len(p) THEN p[i] ELSE r[i - Len(p)]
  BY <1>1, <1>3, ConcatProperties
<1>6. /\ v \in Seq(Nat) /\ Len(v) = Len(at) + Len(q)
      /\ \A i \in 1 .. Len(at) + Len(q) : v[i] = IF i <= Len(at) THEN at[i] ELSE q[i - Len(at)]
  BY <1>1, <1>4, ConcatProperties
<1>7. PICK n, m : n = Len(at) /\ m = Len(r)
  OBVIOUS
<1>8. n \in Nat /\ m \in Nat /\ Len(u) = n + 1 + m /\ Len(v) = n + 1 + m
  BY <1>2, <1>3, <1>4, <1>5, <1>6, <1>7
<1>9. ASSUME NEW i \in 1 .. n + 1 + m
      PROVE  u[i] = v[i]
  <2>1. u[i] = IF i <= n + 1 THEN p[i] ELSE r[i - (n + 1)]
    BY <1>3, <1>5, <1>7, <1>8
  <2>2. v[i] = IF i <= n THEN at[i] ELSE q[i - n]
    BY <1>4, <1>6, <1>7, <1>8
  <2>3. CASE i <= n
    BY <1>3, <1>7, <1>8, <2>1, <2>2, <2>3
  <2>4. CASE i = n + 1
    <3>1. i - n = 1 /\ q[1] = k
      BY <1>4, <1>7, <1>8, <2>4
    <3> QED BY <1>3, <1>7, <1>8, <2>1, <2>2, <2>4, <3>1
  <2>5. CASE i > n + 1
    <3>1. i - n \in 1 .. 1 + m /\ i - n > 1 /\ i - n - 1 = i - (n + 1)
      BY <1>8, <2>5
    <3>2. q[i - n] = r[i - n - 1]
      <4>1. PICK d : d = i - n
        OBVIOUS
      <4>2. d \in 1 .. 1 + Len(r) /\ ~ (d <= 1)
        BY ONLY <1>7, <1>8, <3>1, <4>1
      <4>3. q[d] = r[d - 1]
        BY ONLY <1>4, <4>2
      <4> QED BY ONLY <4>1, <4>3
    <3> QED BY <1>8, <2>1, <2>2, <2>5, <3>1, <3>2
  <2> QED BY <1>8, <2>3, <2>4, <2>5
<1>10. IsSeq(u) /\ IsSeq(v) /\ SameElements(u, v)
  BY <1>5, <1>6, <1>8, <1>9 DEF IsSeq, SameElements
<1>11. u = v
  BY <1>8, <1>10, SeqsEqual
<1> QED BY <1>1, <1>11

LEMMA FromIs ==
  ASSUME NEW E, NEW at, NEW z
  PROVE  z \in From(E, at) <=> \E e \in E : z = <<e[1], at \o e[2]>>
  BY DEF From

(* A statement that is done has declared what it declares.                 *)
LEMMA InsideAll ==
  ASSUME NEW s \in Stm, s.op # "SBlock", NEW at \in Seq(Nat), NEW n \in Nat, NEW a,
         s.op = "SDecls" => n = Len(s.exps), s.op # "SDecls" => DOMAIN s.kids = 1 .. n
  PROVE  Inside(s, at, n, a) = From(Around[s], at)
<1>1. Around[s] = DeclaredBy(s, Around)
  BY AroundIs
<1>2. CASE s.op = "SDecls"
  <2>1. DOMAIN s.exps = 1 .. n
    BY <1>2, StmParts
  <2>2. Around[s] = {<<s.exps[k].name, <<k>>>> : k \in 1 .. n}
    BY <1>1, <1>2, <2>1 DEF DeclaredBy
  <2>3. \A k \in 1 .. n : at \o <<k>> = Append(at, k)
    OBVIOUS
  <2>4. ASSUME NEW z
        PROVE  z \in Inside(s, at, n, a) <=> z \in From(Around[s], at)
    <3>1. z \in Inside(s, at, n, a) <=> \E k \in 1 .. n : z = <<s.exps[k].name, Append(at, k)>>
      BY <1>2 DEF Inside
    <3>2. ASSUME NEW k \in 1 .. n
          PROVE  <<s.exps[k].name, at \o <<k>>>> \in From(Around[s], at)
      <4>1. PICK e : e = <<s.exps[k].name, <<k>>>>
        OBVIOUS
      <4>2. e \in Around[s] /\ <<s.exps[k].name, at \o <<k>>>> = <<e[1], at \o e[2]>>
        BY <2>2, <4>1
      <4> QED BY <4>2, FromIs
    <3>3. ASSUME z \in From(Around[s], at)
          PROVE  \E k \in 1 .. n : z = <<s.exps[k].name, at \o <<k>>>>
      <4>1. PICK e \in Around[s] : z = <<e[1], at \o e[2]>>
        BY <3>3, FromIs
      <4>2. PICK k \in 1 .. n : e = <<s.exps[k].name, <<k>>>>
        BY <2>2, <4>1
      <4> QED BY <4>1, <4>2
    <3> QED BY <2>3, <3>1, <3>2, <3>3
  <2> QED BY <2>4
<1>3. CASE s.op # "SDecls"
  <2>1. Around[s] = UNION {Below(Around[s.kids[k]], k) : k \in 1 .. n}
    BY <1>1, <1>3 DEF DeclaredBy
  <2>2. Inside(s, at, n, a) = UNION {From(Around[s.kids[k]], Append(at, k)) : k \in 1 .. n}
    <3>1. s.op # "DFun"
      BY StmParts
    <3> QED BY <1>3, <3>1 DEF Inside
  <2>3. ASSUME NEW k \in 1 .. n, NEW e \in Around[s.kids[k]]
        PROVE  Append(at, k) \o e[2] = at \o (<<k>> \o e[2])
    <3>1. s.kids[k] \in Stm /\ k \in Nat
      BY <1>3, StmKids
    <3>2. e \in Id \X Seq(Nat)
      BY <3>1, AroundIs DEF Entries
    <3>3. e[2] \in Seq(Nat)
      BY <3>2
    <3> QED BY <3>1, <3>3, Further
  <2>4. ASSUME NEW z
        PROVE  z \in Inside(s, at, n, a) <=> z \in From(Around[s], at)
    <3>1. ASSUME z \in Inside(s, at, n, a)
          PROVE  z \in From(Around[s], at)
      <4>1. PICK k \in 1 .. n : z \in From(Around[s.kids[k]], Append(at, k))
        BY <2>2, <3>1
      <4>2. PICK e \in Around[s.kids[k]] : z = <<e[1], Append(at, k) \o e[2]>>
        <5>1. PICK E : E = Around[s.kids[k]]
          OBVIOUS
        <5>2. PICK p : p = Append(at, k)
          OBVIOUS
        <5>3. z \in From(E, p)
          BY <4>1, <5>1, <5>2
        <5>4. \E e \in E : z = <<e[1], p \o e[2]>>
          BY <5>3, FromIs
        <5> QED BY <5>1, <5>2, <5>4
      <4>3. PICK d : d = <<e[1], <<k>> \o e[2]>>
        OBVIOUS
      <4>4. d \in Around[s]
        <5>1. d \in Below(Around[s.kids[k]], k)
          BY <4>3 DEF Below
        <5>2. PICK S : S = [i \in 1 .. n |-> Below(Around[s.kids[i]], i)]
          OBVIOUS
        <5>3. Around[s] = UNION {S[i] : i \in 1 .. n}
          <6>1. \A i \in 1 .. n : S[i] = Below(Around[s.kids[i]], i)
            BY <5>2
          <6>2. {S[i] : i \in 1 .. n} = {Below(Around[s.kids[i]], i) : i \in 1 .. n}
            BY <6>1
          <6> QED BY <2>1, <6>2
        <5>4. d \in S[k]
          BY <5>1, <5>2
        <5> QED BY <5>3, <5>4
      <4>5. z = <<d[1], at \o d[2]>>
        BY <2>3, <4>2, <4>3
      <4> QED BY <4>4, <4>5, FromIs
    <3>2. ASSUME z \in From(Around[s], at)
          PROVE  z \in Inside(s, at, n, a)
      <4>1. PICK d \in Around[s] : z = <<d[1], at \o d[2]>>
        BY <3>2, FromIs
      <4>2. PICK k \in 1 .. n : d \in Below(Around[s.kids[k]], k)
        BY <2>1, <4>1
      <4>3. PICK e \in Around[s.kids[k]] : d = <<e[1], <<k>> \o e[2]>>
        BY <4>2 DEF Below
      <4>4. z = <<e[1], Append(at, k) \o e[2]>>
        BY <2>3, <4>1, <4>3
      <4>5. z \in From(Around[s.kids[k]], Append(at, k))
        BY <4>4, FromIs
      <4> QED BY <2>2, <4>5
    <3> QED BY <3>1, <3>2
  <2> QED BY <2>4
<1> QED BY <1>2, <1>3

-----------------------------------------------------------------------------
(* The way down the stack of handlers, and what each has declared *)

(* The place of the statement of handler j of a stack of function f.       *)
Route(f, fr, j) == <<f>> \o [i \in 1 .. j - 1 |-> fr[i].pos]

LEMMA RouteIs ==
  ASSUME NEW f \in Nat, NEW fr, NEW j \in Nat, j >= 1, \A i \in 1 .. j - 1 : fr[i].pos \in Nat
  PROVE  /\ Route(f, fr, j) \in Seq(Nat) /\ Len(Route(f, fr, j)) = j /\ Route(f, fr, j)[1] = f
         /\ \A i \in 1 .. j - 1 : Route(f, fr, j)[i + 1] = fr[i].pos
<1>1. PICK m : m = j - 1
  OBVIOUS
<1>2. PICK head, tail : head = <<f>> /\ tail = [i \in 1 .. m |-> fr[i].pos]
  OBVIOUS
<1>3. m \in Nat /\ m + 1 = j /\ head \in Seq(Nat) /\ Len(head) = 1 /\ head[1] = f
  BY <1>1, <1>2
<1>4. tail \in Seq(Nat) /\ Len(tail) = m /\ \A i \in 1 .. m : tail[i] = fr[i].pos
  BY <1>1, <1>2, <1>3
<1>5. PICK r : r = head \o tail
  OBVIOUS
<1>6. /\ r \in Seq(Nat) /\ Len(r) = Len(head) + Len(tail)
      /\ \A i \in 1 .. Len(head) + Len(tail) : r[i] = IF i <= Len(head) THEN head[i] ELSE tail[i - Len(head)]
  <2>1. /\ head \o tail \in Seq(Nat) /\ Len(head \o tail) = Len(head) + Len(tail)
        /\ \A i \in 1 .. Len(head) + Len(tail) :
             (head \o tail)[i] = IF i <= Len(head) THEN head[i] ELSE tail[i - Len(head)]
    BY ONLY <1>3, <1>4, ConcatProperties
  <2> QED BY <1>5, <2>1
<1>7. r \in Seq(Nat) /\ Len(r) = j /\ \A i \in 1 .. 1 + m : r[i] = IF i <= 1 THEN head[i] ELSE tail[i - 1]
  BY <1>3, <1>4, <1>6
<1>8. r[1] = f
  <2>1. 1 \in 1 .. 1 + m /\ 1 <= 1
    BY <1>3
  <2>2. r[1] = IF 1 <= 1 THEN head[1] ELSE tail[1 - 1]
    BY ONLY <1>7, <2>1
  <2>3. r[1] = head[1]
    BY ONLY <2>1, <2>2
  <2> QED BY <1>3, <2>3
<1>9. ASSUME NEW i \in 1 .. m
      PROVE  r[i + 1] = fr[i].pos
  <2>1. i + 1 \in 1 .. 1 + m /\ ~ (i + 1 <= 1) /\ i + 1 - 1 = i
    BY <1>3
  <2>2. r[i + 1] = IF i + 1 <= 1 THEN head[i + 1] ELSE tail[i + 1 - 1]
    BY ONLY <1>7, <2>1
  <2>3. r[i + 1] = tail[i]
    BY ONLY <2>1, <2>2
  <2> QED BY <1>4, <2>3
<1>10. Route(f, fr, j) = r
  BY <1>1, <1>2, <1>5 DEF Route
<1> QED BY <1>1, <1>7, <1>8, <1>9, <1>10

(* It is known by the positions.                                           *)
LEMMA RouteSame ==
  ASSUME NEW f, NEW fr, NEW g, NEW j, \A i \in 1 .. j - 1 : g[i].pos = fr[i].pos
  PROVE  Route(f, g, j) = Route(f, fr, j)
<1>1. [i \in 1 .. j - 1 |-> g[i].pos] = [i \in 1 .. j - 1 |-> fr[i].pos]
  OBVIOUS
<1> QED BY <1>1 DEF Route

LEMMA RouteNext ==
  ASSUME NEW f \in Nat, NEW fr, NEW j \in Nat, j >= 1, \A i \in 1 .. j : fr[i].pos \in Nat
  PROVE  Route(f, fr, j + 1) = Append(Route(f, fr, j), fr[j].pos)
<1>1. PICK r, s, t : r = Route(f, fr, j) /\ s = Route(f, fr, j + 1) /\ t = Append(r, fr[j].pos)
  OBVIOUS
<1>2. \A i \in 1 .. j - 1 : i \in 1 .. j
  OBVIOUS
<1>3. r \in Seq(Nat) /\ Len(r) = j /\ r[1] = f /\ \A i \in 1 .. j - 1 : r[i + 1] = fr[i].pos
  BY <1>1, <1>2, RouteIs
<1>4. s \in Seq(Nat) /\ Len(s) = j + 1 /\ s[1] = f /\ \A i \in 1 .. j : s[i + 1] = fr[i].pos
  <2>1. PICK m : m = j + 1
    OBVIOUS
  <2>2. m \in Nat /\ m >= 1 /\ m - 1 = j
    BY <2>1
  <2>3. \A i \in 1 .. m - 1 : fr[i].pos \in Nat
    BY <2>2
  <2>4. /\ Route(f, fr, m) \in Seq(Nat) /\ Len(Route(f, fr, m)) = m /\ Route(f, fr, m)[1] = f
        /\ \A i \in 1 .. m - 1 : Route(f, fr, m)[i + 1] = fr[i].pos
    BY ONLY <2>2, <2>3, f \in Nat, RouteIs
  <2> QED BY <1>1, <2>1, <2>2, <2>4
<1>5. fr[j].pos \in Nat
  OBVIOUS
<1>6. t \in Seq(Nat) /\ Len(t) = j + 1 /\ t[j + 1] = fr[j].pos /\ \A i \in 1 .. j : t[i] = r[i]
  BY <1>1, <1>3, <1>5
<1>7. ASSUME NEW i \in 1 .. j + 1
      PROVE  s[i] = t[i]
  <2>1. CASE i = 1
    BY <1>3, <1>4, <1>6, <2>1
  <2>2. CASE i = j + 1
    BY <1>4, <1>6, <2>2
  <2>3. CASE i # 1 /\ i # j + 1
    <3>1. PICK k : k = i - 1
      OBVIOUS
    <3>2. k \in 1 .. j - 1 /\ k \in 1 .. j /\ k + 1 = i /\ i \in 1 .. j
      BY <2>3, <3>1
    <3>3. s[k + 1] = fr[k].pos /\ r[k + 1] = fr[k].pos
      BY <1>3, <1>4, <3>2
    <3> QED BY <1>6, <3>2, <3>3
  <2> QED BY <2>1, <2>2, <2>3
<1>8. IsSeq(s) /\ IsSeq(t) /\ Len(s) = Len(t) /\ SameElements(s, t)
  BY <1>4, <1>6, <1>7 DEF IsSeq, SameElements
<1> QED BY <1>1, <1>8, SeqsEqual

LEMMA PathIs ==
  ASSUME NEW f, NEW nd, NEW fr, Len(fr) \in Nat
  PROVE  Path(f, nd, fr) = Route(f, fr, IF nd = NoStm THEN Len(fr) ELSE Len(fr) + 1)
<1>1. PICK n : n = Len(fr)
  OBVIOUS
<1>2. CASE nd = NoStm
  BY <1>2 DEF Path, Route
<1>3. CASE nd # NoStm
  <2>1. n - 0 = n /\ n + 1 - 1 = n
    BY <1>1
  <2> QED BY <1>1, <1>3, <2>1 DEF Path, Route
<1> QED BY <1>2, <1>3

(* A handler that is inside a part of its statement; the part; how many    *)
(* parts it has behind it.                                                 *)
Inner(fr, nd, i) == i < Len(fr) \/ nd # NoStm

Sub(fr, nd, i) == IF i < Len(fr) THEN fr[i + 1].stm ELSE nd

Past(fr, nd, i) == IF Inner(fr, nd, i) THEN fr[i].pos - 1 ELSE fr[i].pos

(* Every handler is at the part that the next one handles.                 *)
Descends(F, fr, nd) ==
  /\ fr \in Seq(FrameSet) /\ fr # <<>> /\ fr[1].stm = F
  /\ \A i \in 1 .. Len(fr) : fr[i].stm.op = "DFun" <=> i = 1
  /\ \A i \in 1 .. Len(fr) : Inner(fr, nd, i) =>
       fr[i].pos >= 1 /\ fr[i].stm.op # "SDecls" /\ Sub(fr, nd, i) = fr[i].stm.kids[fr[i].pos]

(* The chain in which the parts of s are visited; and what it has become,  *)
(* d, when n parts and a arguments are behind.                             *)
Begun(c, s) == IF s.op \in ScopeOps THEN Append(c, NoMembers) ELSE c

Leg(c, s, at, n, a, d) == Gains(Begun(c, s), Inside(s, at, n, a), d)

(* ch has the chain in which each handler began, and e at last.            *)
Legs(f, fr, nd, a, ch, e) ==
  /\ ch[1] = <<NoMembers>> /\ ch[Len(fr) + 1] = e
  /\ \A i \in 1 .. Len(fr) : Leg(ch[i], fr[i].stm, Route(f, fr, i), Past(fr, nd, i), a, ch[i + 1])

(* The stack is one of a walk over F.                                      *)
Arrives(F, f, fr, nd, a) ==
  /\ F \in Function /\ f \in Nat /\ a \in Nat /\ nd \in Stm \cup {NoStm}
  /\ Descends(F, fr, nd) /\ (Len(fr) > 1 \/ nd # NoStm => a = Len(F.args))

(* The chain e holds what the handlers of function F, number f, have       *)
(* declared so far, and a of its arguments.                                *)
Track(F, f, fr, nd, a, e) ==
  Arrives(F, f, fr, nd, a) /\ \E ch : Legs(f, fr, nd, a, ch, e)

LEMMA DownFacts ==
  ASSUME NEW F, NEW fr, NEW nd, Descends(F, fr, nd)
  PROVE  /\ Len(fr) \in Nat /\ Len(fr) >= 1 /\ DOMAIN fr = 1 .. Len(fr)
         /\ \A i \in 1 .. Len(fr) : fr[i].pos \in Nat /\ fr[i].stm \in Stm \cup Function
<1>1. fr \in Seq(FrameSet) /\ fr # <<>>
  BY DEF Descends
<1>2. Len(fr) \in Nat /\ Len(fr) >= 1 /\ DOMAIN fr = 1 .. Len(fr)
  BY <1>1, EmptySeq
<1>3. \A i \in 1 .. Len(fr) : fr[i] \in FrameSet
  BY <1>1
<1> QED BY <1>2, <1>3 DEF FrameSet

(* The stack up to n - 1 is as it was, and handler n is where it should.   *)
Turned(F, fr, nd, g, nd2, n) ==
  /\ g \in Seq(FrameSet) /\ n = Len(g) /\ n \in Nat /\ n >= 1 /\ n <= Len(fr) + 1
  /\ \A i \in 1 .. n - 1 : Inner(fr, nd, i) /\ g[i] = fr[i]
  /\ g[n].stm = IF n = 1 THEN F ELSE Sub(fr, nd, n - 1)
  /\ nd2 \in Stm \cup {NoStm}
  /\ nd2 # NoStm => g[n].pos >= 1 /\ g[n].stm.op # "SDecls" /\ nd2 = g[n].stm.kids[g[n].pos]

LEMMA DescendsTo ==
  ASSUME NEW F \in Function, NEW fr, NEW nd \in Stm \cup {NoStm}, Descends(F, fr, nd),
         NEW g, NEW nd2, NEW n, Turned(F, fr, nd, g, nd2, n)
  PROVE  Descends(F, g, nd2)
<1>1. /\ g \in Seq(FrameSet) /\ n = Len(g) /\ n \in Nat /\ n >= 1 /\ n <= Len(fr) + 1
      /\ \A i \in 1 .. n - 1 : Inner(fr, nd, i) /\ g[i] = fr[i]
      /\ g[n].stm = IF n = 1 THEN F ELSE Sub(fr, nd, n - 1)
      /\ nd2 # NoStm => g[n].pos >= 1 /\ g[n].stm.op # "SDecls" /\ nd2 = g[n].stm.kids[g[n].pos]
  BY DEF Turned
<1>2. Len(fr) \in Nat /\ Len(fr) >= 1
  BY DownFacts
<1>3. /\ fr[1].stm = F /\ \A i \in 1 .. Len(fr) : fr[i].stm.op = "DFun" <=> i = 1
      /\ \A i \in 1 .. Len(fr) : Inner(fr, nd, i) =>
           fr[i].pos >= 1 /\ fr[i].stm.op # "SDecls" /\ Sub(fr, nd, i) = fr[i].stm.kids[fr[i].pos]
  BY DEF Descends
<1>4. g # <<>>
  BY <1>1
<1>5. g[1].stm = F
  <2>1. CASE n = 1
    BY <1>1, <2>1
  <2>2. CASE n # 1
    <3>1. 1 \in 1 .. n - 1
      BY <1>1, <2>2
    <3> QED BY <1>1, <1>3, <3>1
  <2> QED BY <2>1, <2>2
<1>6. ASSUME NEW i \in 1 .. n - 1
      PROVE  g[i + 1].stm = Sub(fr, nd, i) /\ Inner(fr, nd, i) /\ g[i] = fr[i] /\ i \in 1 .. Len(fr)
  <2>1. Inner(fr, nd, i) /\ g[i] = fr[i] /\ i \in 1 .. Len(fr)
    BY <1>1, <1>2
  <2>2. CASE i + 1 = n
    <3>1. n # 1 /\ n - 1 = i
      BY <1>1, <2>2
    <3>2. g[n].stm = Sub(fr, nd, n - 1)
      BY <1>1, <3>1
    <3> QED BY <2>1, <2>2, <3>1, <3>2
  <2>3. CASE i + 1 # n
    <3>1. i + 1 \in 1 .. n - 1
      BY <1>1, <2>3
    <3>2. g[i + 1] = fr[i + 1] /\ i < Len(fr)
      BY <1>1, <1>2, <3>1
    <3> QED BY <2>1, <3>2 DEF Sub
  <2> QED BY <2>2, <2>3
<1>7. ASSUME NEW i \in 1 .. n
      PROVE  g[i].stm.op = "DFun" <=> i = 1
  <2>1. CASE i = 1
    <3>1. F.op = "DFun"
      BY FunParts
    <3> QED BY <1>5, <2>1, <3>1
  <2>2. CASE i # 1
    <3>1. PICK j : j = i - 1
      OBVIOUS
    <3>2. j \in 1 .. n - 1 /\ j + 1 = i
      BY <1>1, <2>2, <3>1
    <3>3. g[i].stm = Sub(fr, nd, j) /\ Inner(fr, nd, j) /\ j \in 1 .. Len(fr)
      BY <1>6, <3>2
    <3>4. CASE j < Len(fr)
      <4>1. g[i].stm = fr[i].stm /\ i \in 1 .. Len(fr)
        BY <1>2, <3>2, <3>3, <3>4 DEF Sub
      <4> QED BY <1>3, <2>2, <4>1
    <3>5. CASE ~ (j < Len(fr))
      <4>1. nd # NoStm /\ g[i].stm = nd
        BY <3>3, <3>5 DEF Inner, Sub
      <4> QED BY <2>2, <4>1, StmParts
    <3> QED BY <3>4, <3>5
  <2> QED BY <2>1, <2>2
<1>8. ASSUME NEW i \in 1 .. n, Inner(g, nd2, i)
      PROVE  g[i].pos >= 1 /\ g[i].stm.op # "SDecls" /\ Sub(g, nd2, i) = g[i].stm.kids[g[i].pos]
  <2>1. CASE i = n
    <3>1. nd2 # NoStm /\ Sub(g, nd2, i) = nd2
      BY <1>1, <1>8, <2>1 DEF Inner, Sub
    <3> QED BY <1>1, <2>1, <3>1
  <2>2. CASE i # n
    <3>1. i \in 1 .. n - 1 /\ i < Len(g)
      BY <1>1, <2>2
    <3>2. Sub(g, nd2, i) = g[i + 1].stm
      BY <3>1 DEF Sub
    <3> QED BY <1>3, <1>6, <3>1, <3>2
  <2> QED BY <2>1, <2>2
<1> QED BY <1>1, <1>4, <1>5, <1>7, <1>8 DEF Descends

LEMMA TrackTo ==
  ASSUME NEW F, NEW f, NEW fr, NEW nd, NEW a, Arrives(F, f, fr, nd, a), NEW e,
         NEW ch, Legs(f, fr, nd, a, ch, e),
         NEW g, NEW nd2, NEW n, Turned(F, fr, nd, g, nd2, n),
         NEW b \in Nat, n > 1 => b = a, n > 1 \/ nd2 # NoStm => b = Len(F.args),
         NEW e2, Leg(ch[n], g[n].stm, Route(f, g, n), Past(g, nd2, n), b, e2)
  PROVE  Track(F, f, g, nd2, b, e2)
<1>1. /\ F \in Function /\ f \in Nat /\ a \in Nat /\ nd \in Stm \cup {NoStm}
      /\ Descends(F, fr, nd)
  BY DEF Arrives
<1>2. Descends(F, g, nd2)
  BY <1>1, DescendsTo
<1>3. /\ n = Len(g) /\ n \in Nat /\ n >= 1 /\ n <= Len(fr) + 1 /\ nd2 \in Stm \cup {NoStm}
      /\ \A i \in 1 .. n - 1 : Inner(fr, nd, i) /\ g[i] = fr[i]
  BY DEF Turned
<1>4. Arrives(F, f, g, nd2, b)
  BY <1>1, <1>2, <1>3 DEF Arrives
<1>5. PICK dh : dh = [i \in 1 .. n + 1 |-> IF i <= n THEN ch[i] ELSE e2]
  OBVIOUS
<1>6. (\A i \in 1 .. n : dh[i] = ch[i]) /\ dh[n + 1] = e2
  BY <1>3, <1>5
<1>7. Len(fr) \in Nat
  BY <1>1, DownFacts
<1>8. ASSUME NEW i \in 1 .. n
      PROVE  Leg(dh[i], g[i].stm, Route(f, g, i), Past(g, nd2, i), b, dh[i + 1])
  <2>1. CASE i = n
    BY <1>3, <1>6, <2>1
  <2>2. CASE i # n
    <3>1. i \in 1 .. n - 1 /\ i \in 1 .. n /\ i + 1 \in 1 .. n /\ i \in 1 .. Len(fr) /\ n > 1
      BY <1>3, <1>7, <2>2
    <3>2. g[i] = fr[i] /\ Inner(fr, nd, i) /\ Inner(g, nd2, i)
      BY <1>3, <3>1 DEF Inner
    <3>3. Past(g, nd2, i) = Past(fr, nd, i)
      BY <3>2 DEF Past
    <3>4. Route(f, g, i) = Route(f, fr, i)
      <4>1. \A k \in 1 .. i - 1 : g[k].pos = fr[k].pos
        BY <1>3, <3>1
      <4> QED BY <4>1, RouteSame
    <3>5. Leg(ch[i], fr[i].stm, Route(f, fr, i), Past(fr, nd, i), a, ch[i + 1])
      BY <3>1 DEF Legs
    <3> QED BY <1>6, <3>1, <3>2, <3>3, <3>4, <3>5
  <2> QED BY <2>1, <2>2
<1>9. dh[1] = <<NoMembers>>
  BY <1>3, <1>6 DEF Legs
<1>10. Legs(f, g, nd2, b, dh, e2)
  BY <1>3, <1>6, <1>8, <1>9 DEF Legs
<1> QED BY <1>4, <1>10 DEF Track
-----------------------------------------------------------------------------
(* What the steps of a pass do to it *)

(* The handler on top.                                                     *)
LEMMA TrackFacts ==
  ASSUME NEW F, NEW f, NEW fr, NEW nd, NEW a, NEW e, Track(F, f, fr, nd, a, e)
  PROVE  /\ Arrives(F, f, fr, nd, a) /\ F \in Function /\ f \in Nat /\ a \in Nat
         /\ fr \in Seq(FrameSet) /\ Len(fr) \in Nat /\ Len(fr) >= 1
         /\ \A i \in 1 .. Len(fr) : fr[i].pos \in Nat /\ (fr[i].stm.op = "DFun" <=> i = 1)
         /\ \A i \in 1 .. Len(fr) : fr[i].stm.op # "DFun" => fr[i].stm \in Stm
         /\ IsSeq(e) /\ Len(e) >= 1
<1>1. Arrives(F, f, fr, nd, a) /\ F \in Function /\ f \in Nat /\ a \in Nat /\ Descends(F, fr, nd)
  BY DEF Track, Arrives
<1>2. /\ Len(fr) \in Nat /\ Len(fr) >= 1
      /\ \A i \in 1 .. Len(fr) : fr[i].pos \in Nat /\ fr[i].stm \in Stm \cup Function
  BY <1>1, DownFacts
<1>3. fr \in Seq(FrameSet) /\ \A i \in 1 .. Len(fr) : fr[i].stm.op = "DFun" <=> i = 1
  BY <1>1 DEF Descends
<1>4. \A i \in 1 .. Len(fr) : fr[i].stm.op # "DFun" => fr[i].stm \in Stm
  BY <1>2, FunParts
<1>5. IsSeq(e) /\ Len(e) >= 1
  <2>1. PICK ch : Legs(f, fr, nd, a, ch, e)
    BY DEF Track
  <2>2. PICK n : n = Len(fr)
    OBVIOUS
  <2>3. n \in 1 .. Len(fr)
    BY <1>2, <2>2
  <2>4. Leg(ch[n], fr[n].stm, Route(f, fr, n), Past(fr, nd, n), a, e)
    BY <2>1, <2>2, <2>3 DEF Legs
  <2> QED BY <2>4 DEF Leg, Gains
<1> QED BY <1>1, <1>2, <1>3, <1>4, <1>5

(* Two stacks of which one has another handler on top, or none.            *)
LEMMA Pushed2 ==
  ASSUME NEW fr \in Seq(FrameSet), NEW x \in FrameSet, NEW g, g = Append(fr, x)
  PROVE  /\ g \in Seq(FrameSet) /\ Len(fr) \in Nat /\ Len(g) = Len(fr) + 1 /\ g[Len(fr) + 1] = x
         /\ \A i \in 1 .. Len(fr) : g[i] = fr[i]
  OBVIOUS

LEMMA Popped2 ==
  ASSUME NEW fr \in Seq(FrameSet), Len(fr) >= 1, NEW g, g = SubSeq(fr, 1, Len(fr) - 1)
  PROVE  g \in Seq(FrameSet) /\ Len(g) = Len(fr) - 1 /\ \A i \in 1 .. Len(fr) - 1 : g[i] = fr[i]
<1>1. PICK k : k = Len(fr) - 1
  OBVIOUS
<1>2. k \in Nat /\ k <= Len(fr) /\ g = SubSeq(fr, 1, k)
  BY <1>1
<1>3. g \in Seq(FrameSet) /\ Len(g) = k /\ \A i \in 1 .. k : g[i] = fr[i]
  BY <1>2, PrefixFacts
<1> QED BY <1>1, <1>3

LEMMA Advanced2 ==
  ASSUME NEW fr \in Seq(FrameSet), Len(fr) >= 1, NEW x \in FrameSet,
         NEW g, g = Append(SubSeq(fr, 1, Len(fr) - 1), x)
  PROVE  g \in Seq(FrameSet) /\ Len(g) = Len(fr) /\ g[Len(fr)] = x /\ \A i \in 1 .. Len(fr) - 1 : g[i] = fr[i]
<1>1. PICK h : h = SubSeq(fr, 1, Len(fr) - 1)
  OBVIOUS
<1>2. h \in Seq(FrameSet) /\ Len(h) = Len(fr) - 1 /\ \A i \in 1 .. Len(fr) - 1 : h[i] = fr[i]
  BY <1>1, Popped2
<1>3. /\ g \in Seq(FrameSet) /\ Len(g) = Len(h) + 1 /\ g[Len(h) + 1] = x
      /\ \A i \in 1 .. Len(h) : g[i] = h[i]
  BY <1>1, <1>2, Pushed2
<1>4. Len(fr) \in Nat
  OBVIOUS
<1> QED BY <1>2, <1>3, <1>4

(* The chain may be exchanged for one that holds the same.                 *)
LEMMA TrackAlike ==
  ASSUME NEW F, NEW f, NEW fr, NEW nd, NEW a, NEW e, Track(F, f, fr, nd, a, e),
         NEW e2, Alike(e, e2)
  PROVE  Track(F, f, fr, nd, a, e2)
<1>1. /\ Arrives(F, f, fr, nd, a) /\ a \in Nat /\ Len(fr) \in Nat /\ Len(fr) >= 1
  BY TrackFacts
<1>2. PICK ch : Legs(f, fr, nd, a, ch, e)
  BY DEF Track
<1>3. PICK n : n = Len(fr)
  OBVIOUS
<1>4. Turned(F, fr, nd, fr, nd, n)
  <2>1. Descends(F, fr, nd) /\ nd \in Stm \cup {NoStm}
    BY <1>1 DEF Arrives
  <2>2. n \in 1 .. Len(fr)
    BY <1>1, <1>3
  <2>3. fr[n].stm = IF n = 1 THEN F ELSE Sub(fr, nd, n - 1)
    BY <1>1, <1>3, <2>1 DEF Descends, Sub
  <2>4. nd # NoStm => fr[n].pos >= 1 /\ fr[n].stm.op # "SDecls" /\ nd = fr[n].stm.kids[fr[n].pos]
    <3>1. nd # NoStm => Inner(fr, nd, n) /\ Sub(fr, nd, n) = nd
      BY <1>3 DEF Inner, Sub
    <3> QED BY <2>1, <2>2, <3>1 DEF Descends
  <2>5. \A i \in 1 .. n - 1 : Inner(fr, nd, i)
    BY <1>1, <1>3 DEF Inner
  <2> QED BY <1>1, <1>3, <2>1, <2>3, <2>4, <2>5 DEF Turned, Descends
<1>5. Leg(ch[n], fr[n].stm, Route(f, fr, n), Past(fr, nd, n), a, e)
  BY <1>1, <1>2, <1>3 DEF Legs
<1>6. Leg(ch[n], fr[n].stm, Route(f, fr, n), Past(fr, nd, n), a, e2)
  <2>1. PICK b, E : b = Begun(ch[n], fr[n].stm) /\ E = Inside(fr[n].stm, Route(f, fr, n), Past(fr, nd, n), a)
    OBVIOUS
  <2>2. Gains(b, E, e)
    BY <1>5, <2>1 DEF Leg
  <2>3. Alike(b, b)
    BY <2>2, AlikeSelf DEF Gains
  <2>4. Gains(b, E, e2)
    BY <2>2, <2>3, GainsAlike
  <2> QED BY <2>1, <2>4 DEF Leg
<1>7. n > 1 \/ nd # NoStm => a = Len(F.args)
  BY <1>1, <1>3 DEF Arrives
<1> QED BY <1>1, <1>2, <1>4, <1>6, <1>7, TrackTo

(* The parts of a statement that declares nothing around it.               *)
LEMMA NothingAround ==
  ASSUME NEW s \in Stm, s.op \in {"SExp", "SReturn", "SReturnV", "SBlock"}
  PROVE  Around[s] = {}
<1>1. Around[s] = DeclaredBy(s, Around)
  BY AroundIs
<1>2. CASE s.op = "SBlock"
  BY <1>1, <1>2 DEF DeclaredBy
<1>3. CASE s.op # "SBlock"
  <2>1. DOMAIN s.kids = {}
    BY <1>3, StmKids
  <2>2. Around[s] = UNION {Below(Around[s.kids[k]], k) : k \in DOMAIN s.kids}
    BY <1>1, <1>3 DEF DeclaredBy
  <2> QED BY <2>1, <2>2
<1> QED BY <1>2, <1>3

(* A statement that is left without a handler of its own.                  *)
LEMMA TrackLeaf ==
  ASSUME NEW F, NEW f, NEW fr, NEW nd, NEW a, NEW e, Track(F, f, fr, nd, a, e),
         nd # NoStm, Around[nd] = {}
  PROVE  Track(F, f, fr, NoStm, a, e)
<1>1. /\ Arrives(F, f, fr, nd, a) /\ a \in Nat /\ Len(fr) \in Nat /\ Len(fr) >= 1
      /\ fr \in Seq(FrameSet)
  BY TrackFacts
<1>2. PICK ch : Legs(f, fr, nd, a, ch, e)
  BY DEF Track
<1>3. PICK n : n = Len(fr)
  OBVIOUS
<1>4. Descends(F, fr, nd) /\ n \in 1 .. Len(fr) /\ fr[n].pos \in Nat
  BY <1>1, <1>3, TrackFacts DEF Arrives
<1>5. Turned(F, fr, nd, fr, NoStm, n)
  <2>1. fr[n].stm = IF n = 1 THEN F ELSE Sub(fr, nd, n - 1)
    BY <1>1, <1>3, <1>4 DEF Descends, Sub
  <2>2. \A i \in 1 .. n - 1 : Inner(fr, nd, i)
    BY <1>1, <1>3 DEF Inner
  <2> QED BY <1>1, <1>3, <2>1, <2>2 DEF Turned
<1>6. PICK s, at, p : s = fr[n].stm /\ at = Route(f, fr, n) /\ p = fr[n].pos - 1
  OBVIOUS
<1>7. /\ Past(fr, nd, n) = p /\ Past(fr, NoStm, n) = p + 1 /\ p \in Nat /\ s.op # "SDecls"
      /\ s.kids[p + 1] = nd
  <2>1. Inner(fr, nd, n) /\ ~ Inner(fr, NoStm, n) /\ Sub(fr, nd, n) = nd
    BY <1>1, <1>3 DEF Inner, Sub
  <2>2. fr[n].pos >= 1 /\ s.op # "SDecls" /\ nd = s.kids[fr[n].pos]
    BY <1>4, <1>6, <2>1 DEF Descends
  <2>3. p \in Nat /\ p + 1 = fr[n].pos
    BY <1>4, <1>6, <2>2
  <2> QED BY <1>6, <2>1, <2>2, <2>3 DEF Past
<1>8. Leg(ch[n], s, at, p, a, e)
  BY <1>2, <1>3, <1>4, <1>6, <1>7 DEF Legs
<1>9. Inside(s, at, p + 1, a) = Inside(s, at, p, a)
  <2>1. Inside(s, at, p + 1, a) = Inside(s, at, p, a) \cup From(Around[s.kids[p + 1]], Append(at, p + 1))
    <3>1. PICK q : q = p + 1
      OBVIOUS
    <3>2. p \in Nat /\ q = p + 1 /\ s.op # "SDecls"
      BY <1>7, <3>1
    <3>3. Inside(s, at, q, a) = Inside(s, at, p, a) \cup From(Around[s.kids[q]], Append(at, q))
      BY ONLY <3>2, InsideNext
    <3> QED BY <3>1, <3>3
  <2>2. From({}, Append(at, p + 1)) = {}
    BY DEF From
  <2> QED BY <1>7, <2>1, <2>2
<1>10. Leg(ch[n], s, at, p + 1, a, e)
  BY <1>8, <1>9 DEF Leg
<1>11. n > 1 \/ NoStm # NoStm => a = Len(F.args)
  BY <1>1, <1>3 DEF Arrives
<1> QED BY <1>1, <1>2, <1>5, <1>6, <1>7, <1>10, <1>11, TrackTo

(* A handler is called.                                                    *)
LEMMA TrackCall ==
  ASSUME NEW F, NEW f, NEW fr, NEW nd, NEW a, NEW e, Track(F, f, fr, nd, a, e), nd # NoStm,
         NEW k, NEW nd2, \/ k = 0 /\ nd2 = NoStm
                         \/ k = 1 /\ nd2 \in Stm /\ nd2 = nd.kids[1] /\ nd.op # "SDecls",
         NEW g, g = Append(fr, Frame(nd, k)), NEW e2, Alike(Begun(e, nd), e2)
  PROVE  Track(F, f, g, nd2, a, e2)
<1>1. /\ Arrives(F, f, fr, nd, a) /\ a \in Nat /\ Len(fr) \in Nat /\ Len(fr) >= 1
      /\ fr \in Seq(FrameSet)
  BY TrackFacts
<1>2. PICK ch : Legs(f, fr, nd, a, ch, e)
  BY DEF Track
<1>3. PICK n, x : n = Len(fr) + 1 /\ x = Frame(nd, k)
  OBVIOUS
<1>4. Descends(F, fr, nd) /\ nd \in Stm /\ k \in Nat
  BY <1>1 DEF Arrives
<1>5. x \in FrameSet /\ x.stm = nd /\ x.pos = k
  BY <1>3, <1>4 DEF Frame, FrameSet
<1>6. g \in Seq(FrameSet) /\ Len(g) = n /\ g[n] = x /\ \A i \in 1 .. n - 1 : g[i] = fr[i]
  BY <1>1, <1>3, <1>5, Pushed2
<1>7. Turned(F, fr, nd, g, nd2, n)
  <2>1. n # 1 /\ n \in Nat /\ n >= 1 /\ n - 1 = Len(fr)
    BY <1>1, <1>3
  <2>2. Sub(fr, nd, n - 1) = nd
    BY <2>1 DEF Sub
  <2>3. \A i \in 1 .. n - 1 : Inner(fr, nd, i)
    BY DEF Inner
  <2>4. nd2 \in Stm \cup {NoStm}
    OBVIOUS
  <2>5. nd2 # NoStm => k >= 1 /\ nd.op # "SDecls" /\ nd2 = nd.kids[k]
    BY TypeCheckAssumption
  <2>6. n <= Len(fr) + 1
    BY <1>1, <1>3
  <2> QED BY <1>1, <1>5, <1>6, <2>1, <2>2, <2>3, <2>4, <2>5, <2>6 DEF Turned
<1>8. ch[n] = e
  BY <1>2, <1>3 DEF Legs
<1>9. Past(g, nd2, n) = 0
  <2>1. ~ (n < Len(g))
    BY <1>1, <1>3, <1>6
  <2>2. CASE k = 0 /\ nd2 = NoStm
    BY <1>5, <1>6, <2>1, <2>2 DEF Past, Inner
  <2>3. CASE k = 1 /\ nd2 \in Stm
    BY <1>5, <1>6, <2>1, <2>3, TypeCheckAssumption DEF Past, Inner
  <2> QED BY <2>2, <2>3
<1>10. Leg(ch[n], g[n].stm, Route(f, g, n), Past(g, nd2, n), a, e2)
  <2>1. PICK at : at = Route(f, g, n)
    OBVIOUS
  <2>2. Inside(nd, at, 0, a) = {}
    <3>1. nd.op # "DFun"
      BY <1>4, StmParts
    <3> QED BY <1>1, <3>1, InsideNone
  <2>3. Gains(Begun(e, nd), {}, e2)
    BY GainsNone
  <2>4. Leg(e, nd, at, 0, a, e2)
    BY <2>2, <2>3 DEF Leg
  <2> QED BY <1>5, <1>6, <1>8, <1>9, <2>1, <2>4
<1>11. n > 1 \/ nd2 # NoStm => a = Len(F.args)
  BY <1>1 DEF Arrives
<1> QED BY <1>1, <1>2, <1>7, <1>10, <1>11, TrackTo
(* The handler on top is the same, and what was declared meanwhile is what *)
(* it has behind it meanwhile.                                             *)
LEMMA TrackMore ==
  ASSUME NEW F, NEW f, NEW fr, NEW nd, NEW a, NEW e, Track(F, f, fr, nd, a, e),
         NEW n, n = Len(fr), NEW s, s = fr[n].stm, NEW at, at = Route(f, fr, n),
         NEW g \in Seq(FrameSet), Len(g) = n, \A i \in 1 .. n - 1 : g[i] = fr[i], g[n].stm = s,
         NEW nd2 \in Stm \cup {NoStm},
         nd2 # NoStm => g[n].pos >= 1 /\ s.op # "SDecls" /\ nd2 = s.kids[g[n].pos],
         NEW b \in Nat, n > 1 => b = a, nd2 # NoStm => b = Len(F.args),
         NEW E, NEW e2, Gains(e, E, e2),
         Inside(s, at, Past(g, nd2, n), b) = Inside(s, at, Past(fr, nd, n), a) \cup E
  PROVE  Track(F, f, g, nd2, b, e2)
<1>1. /\ Arrives(F, f, fr, nd, a) /\ a \in Nat /\ Len(fr) \in Nat /\ Len(fr) >= 1
      /\ fr \in Seq(FrameSet)
  BY TrackFacts
<1>2. PICK ch : Legs(f, fr, nd, a, ch, e)
  BY DEF Track
<1>3. Descends(F, fr, nd) /\ n \in 1 .. Len(fr)
  BY <1>1 DEF Arrives
<1>4. Turned(F, fr, nd, g, nd2, n)
  <2>1. s = IF n = 1 THEN F ELSE Sub(fr, nd, n - 1)
    BY <1>1, <1>3 DEF Descends, Sub
  <2>2. \A i \in 1 .. n - 1 : Inner(fr, nd, i)
    BY <1>1 DEF Inner
  <2>3. n = Len(g) /\ n \in Nat /\ n >= 1 /\ n <= Len(fr) + 1
    BY <1>1
  <2> QED BY <2>1, <2>2, <2>3 DEF Turned
<1>5. Leg(ch[n], s, at, Past(fr, nd, n), a, e)
  BY <1>1, <1>2, <1>3 DEF Legs
<1>6. Route(f, g, n) = at
  <2>1. \A i \in 1 .. n - 1 : g[i].pos = fr[i].pos
    OBVIOUS
  <2> QED BY <2>1, RouteSame
<1>7. Leg(ch[n], s, at, Past(g, nd2, n), b, e2)
  <2>1. PICK x, I : x = Begun(ch[n], s) /\ I = Inside(s, at, Past(fr, nd, n), a)
    OBVIOUS
  <2>2. Gains(x, I, e)
    BY <1>5, <2>1 DEF Leg
  <2>3. Gains(x, I \cup E, e2)
    BY <2>2, GainsBoth
  <2> QED BY <2>1, <2>3 DEF Leg
<1>8. n > 1 \/ nd2 # NoStm => b = Len(F.args)
  BY <1>1 DEF Arrives
<1> QED BY <1>1, <1>2, <1>4, <1>6, <1>7, <1>8, TrackTo

(* A handler goes on to its next part.                                     *)
LEMMA TrackOn ==
  ASSUME NEW F, NEW f, NEW fr, NEW a, NEW e, Track(F, f, fr, NoStm, a, e),
         NEW n, n = Len(fr), NEW s, s = fr[n].stm, s.op # "SDecls",
         NEW g, g = Append(SubSeq(fr, 1, n - 1), Frame(s, fr[n].pos + 1)),
         NEW nd2 \in Stm, nd2 = s.kids[fr[n].pos + 1], n = 1 => a = Len(F.args),
         NEW e2, Alike(e, e2)
  PROVE  Track(F, f, g, nd2, a, e2)
<1>1. /\ Arrives(F, f, fr, NoStm, a) /\ a \in Nat /\ n \in Nat /\ n >= 1
      /\ fr \in Seq(FrameSet) /\ n \in 1 .. Len(fr)
  BY TrackFacts
<1>2. PICK p, x : p = fr[n].pos /\ x = Frame(s, p + 1)
  OBVIOUS
<1>3. p \in Nat /\ fr[n] \in FrameSet
  <2>1. fr[n] \in FrameSet
    BY <1>1
  <2> QED BY <1>2, <2>1 DEF FrameSet
<1>4. x \in FrameSet /\ x.stm = s /\ x.pos = p + 1
  BY <1>2, <1>3 DEF Frame, FrameSet
<1>5. g \in Seq(FrameSet) /\ Len(g) = n /\ g[n] = x /\ \A i \in 1 .. n - 1 : g[i] = fr[i]
  BY <1>1, <1>2, <1>4, Advanced2
<1>6. nd2 # NoStm
  BY TypeCheckAssumption
<1>7. Past(g, nd2, n) = p /\ Past(fr, NoStm, n) = p
  <2>1. Inner(g, nd2, n) /\ ~ Inner(fr, NoStm, n)
    BY <1>1, <1>6 DEF Inner
  <2>2. g[n].pos - 1 = p /\ fr[n].pos = p
    BY <1>2, <1>3, <1>4, <1>5
  <2> QED BY <2>1, <2>2 DEF Past
<1>8. Gains(e, {}, e2)
  BY GainsNone
<1>9. n > 1 => a = Len(F.args)
  BY <1>1 DEF Arrives
<1>10. a = Len(F.args)
  BY <1>1, <1>9
<1>11. g[n].pos >= 1 /\ nd2 = s.kids[g[n].pos]
  BY <1>2, <1>3, <1>4, <1>5
<1>12. PICK at : at = Route(f, fr, n)
  OBVIOUS
<1>13. Inside(s, at, Past(g, nd2, n), a) = Inside(s, at, Past(fr, NoStm, n), a) \cup {}
  BY <1>7
<1>14. PICK nd, E : nd = NoStm /\ E = {}
  OBVIOUS
<1>15. /\ Track(F, f, fr, nd, a, e) /\ Gains(e, E, e2)
       /\ Inside(s, at, Past(g, nd2, n), a) = Inside(s, at, Past(fr, nd, n), a) \cup E
  BY <1>8, <1>13, <1>14
<1>16. /\ g \in Seq(FrameSet) /\ Len(g) = n /\ g[n].stm = s
       /\ \A i \in 1 .. n - 1 : g[i] = fr[i]
  BY <1>4, <1>5
<1>17. /\ nd2 \in Stm \cup {NoStm} /\ a \in Nat /\ n = Len(fr) /\ s = fr[n].stm
       /\ (nd2 # NoStm => g[n].pos >= 1 /\ s.op # "SDecls" /\ nd2 = s.kids[g[n].pos])
       /\ (n > 1 => a = a) /\ (nd2 # NoStm => a = Len(F.args))
  BY <1>1, <1>10, <1>11
<1> QED BY ONLY <1>12, <1>15, <1>16, <1>17, TrackMore

(* A declaration enters its next name.                                     *)
LEMMA TrackDeclare ==
  ASSUME NEW F, NEW f, NEW fr, NEW a, NEW e, Track(F, f, fr, NoStm, a, e),
         NEW n, n = Len(fr), NEW s, s = fr[n].stm, s.op = "SDecls",
         NEW k, k = fr[n].pos + 1,
         NEW g, g = Append(SubSeq(fr, 1, n - 1), Frame(s, k)),
         NEW e2, Gains(e, {<<s.exps[k].name, Append(Route(f, fr, n), k)>>}, e2)
  PROVE  Track(F, f, g, NoStm, a, e2)
<1>1. /\ a \in Nat /\ n \in Nat /\ n >= 1
      /\ fr \in Seq(FrameSet) /\ n \in 1 .. Len(fr)
  BY TrackFacts
<1>2. PICK p, x : p = fr[n].pos /\ x = Frame(s, k)
  OBVIOUS
<1>3. p \in Nat /\ fr[n] \in FrameSet /\ k = p + 1
  <2>1. fr[n] \in FrameSet
    BY <1>1
  <2> QED BY <1>2, <2>1 DEF FrameSet
<1>4. x \in FrameSet /\ x.stm = s /\ x.pos = k
  BY <1>2, <1>3 DEF Frame, FrameSet
<1>5. g \in Seq(FrameSet) /\ Len(g) = n /\ g[n] = x /\ \A i \in 1 .. n - 1 : g[i] = fr[i]
  <2>1. g = Append(SubSeq(fr, 1, Len(fr) - 1), x) /\ fr \in Seq(FrameSet) /\ Len(fr) >= 1 /\ n = Len(fr)
    BY <1>1, <1>2
  <2> QED BY ONLY <1>4, <2>1, Advanced2
<1>6. Past(g, NoStm, n) = p + 1 /\ Past(fr, NoStm, n) = p
  <2>1. ~ Inner(g, NoStm, n) /\ ~ Inner(fr, NoStm, n)
    BY <1>1, <1>5 DEF Inner
  <2> QED BY <1>2, <1>3, <1>4, <1>5, <2>1 DEF Past
<1>7. PICK at : at = Route(f, fr, n)
  OBVIOUS
<1>8. PICK E : E = {<<s.exps[p + 1].name, Append(at, p + 1)>>}
  OBVIOUS
<1>9. Gains(e, E, e2)
  BY <1>3, <1>7, <1>8
<1>10. Inside(s, at, Past(g, NoStm, n), a) = Inside(s, at, Past(fr, NoStm, n), a) \cup E
  <2>1. p \in Nat /\ s.op = "SDecls"
    BY <1>3
  <2>2. Inside(s, at, p + 1, a) = Inside(s, at, p, a) \cup {<<s.exps[p + 1].name, Append(at, p + 1)>>}
    <3>1. DeclNext(s, at, p, a)
      BY ONLY <2>1, InsideDecl
    <3> QED BY <3>1 DEF DeclNext
  <2> QED BY <1>6, <1>8, <2>2
<1> QED BY ONLY Track(F, f, fr, NoStm, a, e), n = Len(fr), s = fr[n].stm,
                <1>1, <1>4, <1>5, <1>7, <1>9, <1>10, TrackMore

(* A function enters its next argument.                                    *)
LEMMA TrackArg ==
  ASSUME NEW F, NEW f, NEW fr, NEW a, NEW e, Track(F, f, fr, NoStm, a, e), Len(fr) = 1,
         NEW e2, Gains(e, {Arg(F, <<f>>, a + 1)}, e2)
  PROVE  Track(F, f, fr, NoStm, a + 1, e2)
<1>1. /\ Arrives(F, f, fr, NoStm, a) /\ a \in Nat /\ F \in Function /\ f \in Nat
      /\ fr \in Seq(FrameSet)
  BY TrackFacts
<1>2. fr[1].stm = F
  BY <1>1 DEF Arrives, Descends
<1>3. PICK n, at, E, p : /\ n = 1 /\ at = Route(f, fr, n) /\ E = {Arg(F, at, a + 1)}
                         /\ p = Past(fr, NoStm, n)
  OBVIOUS
<1>4. at = <<f>>
  <2>1. at \in Seq(Nat) /\ Len(at) = 1 /\ at[1] = f
    BY <1>1, <1>3, RouteIs
  <2> QED BY <2>1
<1>5. F.op = "DFun"
  BY <1>1, FunParts
<1>6. Inside(F, at, p, a + 1) = Inside(F, at, p, a) \cup E
  BY <1>1, <1>3, <1>5, InsideArg
<1>7. Gains(e, E, e2)
  BY <1>3, <1>4
<1>8. n = Len(fr) /\ F = fr[n].stm /\ ~ (n > 1) /\ a + 1 \in Nat
  BY <1>1, <1>2, <1>3
<1>9. PICK b : b = a + 1
  OBVIOUS
<1>10. b \in Nat /\ Inside(F, at, Past(fr, NoStm, n), b) = Inside(F, at, Past(fr, NoStm, n), a) \cup E
  BY <1>3, <1>6, <1>8, <1>9
<1>11. Track(F, f, fr, NoStm, b, e2)
  BY ONLY Track(F, f, fr, NoStm, a, e), <1>1, <1>3, <1>7, <1>8, <1>10, TrackMore
<1> QED BY <1>9, <1>11
(* A handler returns: what its statement declares around it is declared.   *)
LEMMA TrackBack ==
  ASSUME NEW F, NEW f, NEW fr, NEW a, NEW e, Track(F, f, fr, NoStm, a, e),
         NEW n, n = Len(fr), n > 1, NEW s, s = fr[n].stm,
         NEW g, g = SubSeq(fr, 1, n - 1), NEW e2,
         \A x : IsSeq(x) /\ Len(x) >= 1 /\ Leg(x, s, Route(f, fr, n), fr[n].pos, a, e)
                  => Gains(x, From(Around[s], Route(f, fr, n)), e2)
  PROVE  Track(F, f, g, NoStm, a, e2)
<1>1. /\ Arrives(F, f, fr, NoStm, a) /\ a \in Nat /\ n \in Nat /\ f \in Nat
      /\ fr \in Seq(FrameSet) /\ n \in 1 .. Len(fr)
      /\ \A i \in 1 .. Len(fr) : fr[i].pos \in Nat
  BY TrackFacts
<1>2. PICK ch : Legs(f, fr, NoStm, a, ch, e)
  BY DEF Track
<1>3. PICK m : m = n - 1
  OBVIOUS
<1>4. m \in Nat /\ m >= 1 /\ m + 1 = n /\ m \in 1 .. Len(fr) /\ m < Len(fr)
  BY <1>1, <1>3
<1>5. g \in Seq(FrameSet) /\ Len(g) = m /\ \A i \in 1 .. m : g[i] = fr[i]
  <2>1. g \in Seq(FrameSet) /\ Len(g) = Len(fr) - 1 /\ \A i \in 1 .. Len(fr) - 1 : g[i] = fr[i]
    BY <1>1, Popped2
  <2> QED BY <1>3, <2>1
<1>6. Descends(F, fr, NoStm)
  BY <1>1 DEF Arrives
<1>7. PICK up, at, p : up = fr[m].stm /\ at = Route(f, fr, m) /\ p = fr[m].pos - 1
  OBVIOUS
<1>8. /\ Past(fr, NoStm, m) = p /\ Past(g, NoStm, m) = p + 1 /\ p \in Nat /\ up.op # "SDecls"
      /\ up.kids[p + 1] = s
  <2>1. Inner(fr, NoStm, m) /\ ~ Inner(g, NoStm, m) /\ Sub(fr, NoStm, m) = s
    BY <1>1, <1>4, <1>5 DEF Inner, Sub
  <2>2. fr[m].pos >= 1 /\ up.op # "SDecls" /\ s = up.kids[fr[m].pos] /\ fr[m].pos \in Nat
    BY <1>1, <1>4, <1>6, <1>7, <2>1 DEF Descends
  <2>3. p \in Nat /\ p + 1 = fr[m].pos
    BY <1>7, <2>2
  <2>4. g[m].pos = fr[m].pos
    BY <1>4, <1>5
  <2> QED BY <1>7, <2>1, <2>2, <2>3, <2>4 DEF Past
<1>9. Route(f, fr, n) = Append(at, p + 1)
  <2>1. \A i \in 1 .. m : fr[i].pos \in Nat
    BY <1>1, <1>4
  <2>2. Route(f, fr, m + 1) = Append(Route(f, fr, m), fr[m].pos)
    BY ONLY <1>1, <1>4, <2>1, RouteNext
  <2>3. fr[m].pos = p + 1
    BY <1>1, <1>4, <1>7
  <2> QED BY <1>4, <1>7, <2>2, <2>3
<1>10. Leg(ch[m], up, at, p, a, ch[n]) /\ Leg(ch[n], s, Route(f, fr, n), fr[n].pos, a, e)
  <2>1. Past(fr, NoStm, n) = fr[n].pos
    BY DEF Past, Inner
  <2>2. ch[n + 1] = e
    BY <1>2 DEF Legs
  <2> QED BY <1>1, <1>2, <1>4, <1>7, <1>8, <2>1, <2>2 DEF Legs
<1>11. Leg(ch[m], up, at, p + 1, a, e2)
  <2>1. PICK x, I, E : /\ x = Begun(ch[m], up) /\ I = Inside(up, at, p, a)
                       /\ E = From(Around[s], Append(at, p + 1))
    OBVIOUS
  <2>2. Gains(x, I, ch[n])
    BY <1>10, <2>1 DEF Leg
  <2>3. Gains(ch[n], E, e2)
    BY <1>9, <1>10, <2>1, <2>2 DEF Gains
  <2>4. Gains(x, I \cup E, e2)
    BY <2>2, <2>3, GainsBoth
  <2>5. Inside(up, at, p + 1, a) = I \cup E
    <3>1. PICK q : q = p + 1
      OBVIOUS
    <3>2. p \in Nat /\ q = p + 1 /\ up.op # "SDecls"
      BY <1>8, <3>1
    <3>3. Inside(up, at, q, a) = Inside(up, at, p, a) \cup From(Around[up.kids[q]], Append(at, q))
      BY ONLY <3>2, InsideNext
    <3> QED BY <1>8, <2>1, <3>1, <3>3
  <2> QED BY <2>1, <2>4, <2>5 DEF Leg
<1>12. Turned(F, fr, NoStm, g, NoStm, m)
  <2>1. g[m].stm = IF m = 1 THEN F ELSE Sub(fr, NoStm, m - 1)
    <3>1. g[m].stm = up
      BY <1>4, <1>5, <1>7
    <3>2. m # 1 => Sub(fr, NoStm, m - 1) = up
      BY <1>4, <1>7 DEF Sub
    <3>3. m = 1 => up = F
      BY <1>6, <1>7 DEF Descends
    <3> QED BY <3>1, <3>2, <3>3
  <2>2. \A i \in 1 .. m - 1 : Inner(fr, NoStm, i) /\ g[i] = fr[i]
    BY <1>4, <1>5 DEF Inner
  <2>3. m <= Len(fr) + 1
    BY <1>4
  <2> QED BY <1>4, <1>5, <2>1, <2>2, <2>3 DEF Turned
<1>13. Leg(ch[m], g[m].stm, Route(f, g, m), Past(g, NoStm, m), a, e2)
  <2>1. \A i \in 1 .. m - 1 : g[i].pos = fr[i].pos
    BY <1>4, <1>5
  <2>2. Route(f, g, m) = at
    BY <1>7, <2>1, RouteSame
  <2>3. g[m].stm = up
    BY <1>4, <1>5, <1>7
  <2> QED BY <1>8, <1>11, <2>2, <2>3
<1>14. a = Len(F.args)
  BY <1>1 DEF Arrives
<1> QED BY <1>1, <1>2, <1>12, <1>13, <1>14, TrackTo

(* One without a scope of its own, of a statement that is done.            *)
LEMMA TrackReturn ==
  ASSUME NEW F, NEW f, NEW fr, NEW a, NEW e, Track(F, f, fr, NoStm, a, e),
         NEW n, n = Len(fr), n > 1, NEW s, s = fr[n].stm, s.op \notin ScopeOps,
         s.op = "SDecls" => fr[n].pos = Len(s.exps), s.op # "SDecls" => DOMAIN s.kids = 1 .. fr[n].pos,
         NEW g, g = SubSeq(fr, 1, n - 1), NEW e2, Alike(e, e2)
  PROVE  Track(F, f, g, NoStm, a, e2)
<1>1. /\ n \in Nat /\ f \in Nat /\ n \in 1 .. Len(fr) /\ s \in Stm /\ fr[n].pos \in Nat
      /\ \A i \in 1 .. n - 1 : fr[i].pos \in Nat
  BY TrackFacts
<1>2. PICK at : at = Route(f, fr, n)
  OBVIOUS
<1>3. at \in Seq(Nat)
  BY <1>1, <1>2, RouteIs
<1>4. s.op # "SBlock"
  BY DEF ScopeOps
<1>5. ASSUME NEW x, IsSeq(x), Len(x) >= 1, Leg(x, s, at, fr[n].pos, a, e)
      PROVE  Gains(x, From(Around[s], at), e2)
  <2>1. Begun(x, s) = x
    BY DEF Begun
  <2>2. Inside(s, at, fr[n].pos, a) = From(Around[s], at)
    <3>1. PICK q : q = fr[n].pos
      OBVIOUS
    <3>2. /\ s \in Stm /\ s.op # "SBlock" /\ at \in Seq(Nat) /\ q \in Nat
          /\ (s.op = "SDecls" => q = Len(s.exps)) /\ (s.op # "SDecls" => DOMAIN s.kids = 1 .. q)
      BY <1>1, <1>3, <1>4, <3>1
    <3>3. Inside(s, at, q, a) = From(Around[s], at)
      BY ONLY <3>2, InsideAll
    <3> QED BY <3>1, <3>3
  <2>3. Gains(x, From(Around[s], at), e)
    BY <1>5, <2>1, <2>2 DEF Leg
  <2>4. Alike(x, x)
    BY <1>5, AlikeSelf
  <2> QED BY <2>3, <2>4, GainsAlike
<1> QED BY <1>2, <1>5, TrackBack

(* A block closes its scope.                                               *)
LEMMA TrackClose ==
  ASSUME NEW F, NEW f, NEW fr, NEW a, NEW e, Track(F, f, fr, NoStm, a, e),
         NEW n, n = Len(fr), fr[n].stm.op = "SBlock",
         NEW g, g = SubSeq(fr, 1, n - 1), NEW e2, Alike(SubSeq(e, 1, Len(e) - 1), e2)
  PROVE  Track(F, f, g, NoStm, a, e2)
<1>1. PICK s, at : s = fr[n].stm /\ at = Route(f, fr, n)
  OBVIOUS
<1>2. n > 1 /\ s \in Stm
  <2>1. /\ n \in Nat /\ n >= 1 /\ n \in 1 .. Len(fr)
        /\ \A i \in 1 .. Len(fr) : fr[i].stm.op = "DFun" <=> i = 1
        /\ \A i \in 1 .. Len(fr) : fr[i].stm.op # "DFun" => fr[i].stm \in Stm
    BY TrackFacts
  <2> QED BY <1>1, <2>1
<1>3. From(Around[s], at) = {}
  <2>1. Around[s] = {}
    BY <1>1, <1>2, NothingAround
  <2> QED BY <2>1 DEF From
<1>4. ASSUME NEW x, IsSeq(x), Len(x) >= 1, Leg(x, s, at, fr[n].pos, a, e)
      PROVE  Gains(x, {}, e2)
  <2>1. Begun(x, s) = Append(x, NoMembers)
    BY <1>1 DEF Begun, ScopeOps
  <2>2. PICK E : E = Inside(s, at, fr[n].pos, a)
    OBVIOUS
  <2>3. Gains(Append(x, NoMembers), E, e)
    BY <1>4, <2>1, <2>2 DEF Leg
  <2>5. Alike(x, SubSeq(e, 1, Len(e) - 1))
    BY <1>4, <2>3, AlikeClose
  <2> QED BY <2>5, AlikeOn, GainsNone
<1> QED BY <1>1, <1>2, <1>3, <1>4, TrackBack
(* A function begins and ends.                                             *)
LEMMA TrackBegin ==
  ASSUME NEW F \in Function, NEW f \in Nat, NEW fr, fr = <<Frame(F, 0)>>,
         NEW c, Alike(<<NoMembers>>, c), NEW e, Alike(Append(c, NoMembers), e)
  PROVE  Track(F, f, fr, NoStm, 0, e)
<1>1. PICK x : x = Frame(F, 0)
  OBVIOUS
<1>2. x \in FrameSet /\ x.stm = F /\ x.pos = 0
  BY <1>1 DEF Frame, FrameSet
<1>3. fr \in Seq(FrameSet) /\ fr # <<>> /\ Len(fr) = 1 /\ fr[1] = x
  BY <1>1, <1>2
<1>4. F.op = "DFun" /\ F.op \in ScopeOps
  BY FunParts DEF ScopeOps
<1>5. ASSUME NEW i \in 1 .. Len(fr)
      PROVE  i = 1 /\ ~ Inner(fr, NoStm, i)
  BY <1>3, <1>5 DEF Inner
<1>6. Descends(F, fr, NoStm)
  BY <1>2, <1>3, <1>4, <1>5 DEF Descends
<1>7. Arrives(F, f, fr, NoStm, 0)
  BY <1>3, <1>6 DEF Arrives
<1>8. PICK o : o = <<NoMembers>>
  OBVIOUS
<1>9. Alike(Append(o, NoMembers), e)
  BY <1>8, AlikePush, AlikeOn
<1>10. PICK ch : ch = [i \in 1 .. 2 |-> IF i = 1 THEN o ELSE e]
  OBVIOUS
<1>11. ch[1] = o /\ ch[2] = e
  BY <1>10
<1>12. Leg(o, F, Route(f, fr, 1), Past(fr, NoStm, 1), 0, e)
  <2>1. Past(fr, NoStm, 1) = 0
    BY <1>2, <1>3, <1>5 DEF Past
  <2>2. Inside(F, Route(f, fr, 1), 0, 0) = {}
    BY InsideNone
  <2>3. Begun(o, F) = Append(o, NoMembers)
    BY <1>4 DEF Begun
  <2>4. Gains(Append(o, NoMembers), {}, e)
    BY <1>9, GainsNone
  <2> QED BY <2>1, <2>2, <2>3, <2>4 DEF Leg
<1>13. Legs(f, fr, NoStm, 0, ch, e)
  <2>1. 1 + 1 = 2
    OBVIOUS
  <2> QED BY <1>2, <1>3, <1>5, <1>8, <1>11, <1>12, <2>1 DEF Legs
<1> QED BY <1>7, <1>13 DEF Track

LEMMA TrackEnd ==
  ASSUME NEW F, NEW f, NEW fr, NEW nd, NEW a, NEW e, Track(F, f, fr, nd, a, e), Len(fr) = 1
  PROVE  Alike(<<NoMembers>>, SubSeq(e, 1, Len(e) - 1))
<1>1. Arrives(F, f, fr, nd, a)
  BY TrackFacts
<1>2. PICK ch : Legs(f, fr, nd, a, ch, e)
  BY DEF Track
<1>3. PICK o, E : o = <<NoMembers>> /\ E = Inside(F, Route(f, fr, 1), Past(fr, nd, 1), a)
  OBVIOUS
<1>4. fr[1].stm = F /\ F.op \in ScopeOps
  BY <1>1, FunParts DEF Arrives, Descends, ScopeOps
<1>5. Gains(Append(o, NoMembers), E, e)
  <2>1. ch[1] = o /\ ch[1 + 1] = e /\ Leg(ch[1], F, Route(f, fr, 1), Past(fr, nd, 1), a, ch[1 + 1])
    BY <1>2, <1>3, <1>4 DEF Legs
  <2>2. Leg(o, F, Route(f, fr, 1), Past(fr, nd, 1), a, e)
    BY <2>1
  <2> QED BY <1>3, <1>4, <2>2 DEF Leg, Begun
<1>6. IsSeq(o) /\ Len(o) >= 1
  <2>1. o \in Seq({NoMembers}) /\ Len(o) = 1
    BY <1>3
  <2> QED BY <2>1 DEF IsSeq
<1> QED BY <1>3, <1>5, <1>6, AlikeClose

-----------------------------------------------------------------------------
(* What the steps of the typechecker do while it finds no error *)

LeafOps == {"SExp", "SReturn", "SReturnV"}

LoopOps == {"SWhile", "SDoWhile", "SFor", "SIfElse"}

(* An argument or a declared name is new in its scope.                     *)
EntersName(x) == x \notin DOMAIN Current /\ \E t : addSymbol(x, t)

Done3(s, p) == IF s.op = "SDecls" THEN p = Len(s.exps) ELSE DOMAIN s.kids = 1 .. p

TcBody ==
  /\ frames = <<>> /\ node = NoStm /\ node' = NoStm /\ fn' = fn + 1 /\ arg' = 0
  /\ fn' \in 1 .. Len(program) /\ frames' = <<Frame(program[fn'], 0)>> /\ Opens

TcArg ==
  /\ node = NoStm /\ InFrame("DFun") /\ arg' = arg + 1 /\ UNCHANGED <<frames, node, fn>>
  /\ EntersName(Top.stm.args[arg + 1].name)

TcLeaf ==
  node # NoStm /\ node.op \in LeafOps /\ node' = NoStm /\ UNCHANGED <<frames, chain, fn, arg>>

TcCall ==
  /\ node # NoStm /\ UNCHANGED <<chain, fn, arg>>
  /\ \E k : /\ frames' = Append(frames, Frame(node, k))
            /\ \/ node.op = "SDecls" /\ k = 0 /\ node' = NoStm
               \/ node.op \in LoopOps /\ k = 1 /\ node' = node.kids[1]

TcOpen ==
  /\ node # NoStm /\ node.op = "SBlock" /\ node' = NoStm
  /\ frames' = Append(frames, Frame(node, 0)) /\ Opens /\ UNCHANGED <<fn, arg>>

TcOn ==
  /\ frames # <<>> /\ node = NoStm /\ Top.stm.op \in {"DFun", "SBlock", "SIfElse"}
  /\ frames' = Append(Pop, Frame(Top.stm, Top.pos + 1))
  /\ node' = Top.stm.kids[Top.pos + 1] /\ node' \in Stm
  /\ Top.stm.op = "DFun" => arg = Len(Top.stm.args)
  /\ UNCHANGED <<chain, fn, arg>>

TcDeclare ==
  /\ frames # <<>> /\ node = NoStm /\ node' = NoStm /\ Top.stm.op = "SDecls"
  /\ Top.pos < Len(Top.stm.exps) /\ Visited = {Top.pos + 1}
  /\ frames' = Append(Pop, Frame(Top.stm, Top.pos + 1))
  /\ EntersName(Top.stm.exps[Top.pos + 1].name)
  /\ UNCHANGED <<fn, arg>>

TcReturn ==
  /\ frames # <<>> /\ node = NoStm /\ node' = NoStm /\ Top.stm.op \notin ScopeOps
  /\ Done3(Top.stm, Top.pos) /\ (Top.stm.op = "SDoWhile" => Visited = {1})
  /\ frames' = Pop /\ UNCHANGED <<chain, fn, arg>>

TcClose ==
  /\ frames # <<>> /\ node = NoStm /\ node' = NoStm /\ Top.stm.op \in ScopeOps /\ Done3(Top.stm, Top.pos)
  /\ frames' = Pop /\ endContext /\ UNCHANGED <<fn, arg>>

(* The variables of its next visit are found, and that of a do comes when  *)
(* it is due.                                                              *)
FindsAll ==
  /\ \A k \in Variables(At(node, frames), Visited) :
       Holders(chain, Slot(At(node, frames), k).name) # {}
  /\ node = NoStm /\ InFrame("SDoWhile") => Top.pos = 1

Clear == ~ anyErrors' /\ ~ crashed'

LEMMA TestsPass ==
  ASSUME NEW tests, Failing(tests) = {}, NEW i \in DOMAIN tests, NEW e, NEW want,
         tests[i] = Test(e, want), want \subseteq DOMAIN types, e.op = "EId"
  PROVE  Holders(chain, e.name) # {}
<1>1. resultExpType(tests[i].exp) \in tests[i].want
  BY DEF Failing
<1>2. findSymbol(chain, e.name) \in DOMAIN types
  BY <1>1 DEF Test, resultExpType
<1>3. findSymbol(chain, e.name) # null
  BY <1>2, FindBasicType
<1> QED BY <1>3 DEF findSymbol

(* A step that visits nothing finds it all.                                *)
LEMMA FindsNone ==
  ASSUME Visited = {}, node # NoStm \/ ~ InFrame("SDoWhile")
  PROVE  FindsAll
  BY DEF FindsAll, Variables

LEMMA OneVisited ==
  ASSUME Visited = {1}, NEW e, NEW want, want \subseteq DOMAIN types,
         Failing(<<Test(e, want)>>) = {}, Slot(At(node, frames), 1) = e,
         node # NoStm \/ (InFrame("SDoWhile") => Top.pos = 1)
  PROVE  FindsAll
<1>1. ASSUME NEW k \in Variables(At(node, frames), Visited)
      PROVE  Holders(chain, Slot(At(node, frames), k).name) # {}
  <2>1. k = 1 /\ e.op = "EId"
    BY <1>1 DEF Variables
  <2>2. PICK tests : tests = <<Test(e, want)>>
    OBVIOUS
  <2>3. 1 \in DOMAIN tests /\ tests[1] = Test(e, want)
    BY <2>2
  <2> QED BY <2>1, <2>2, <2>3, TestsPass
<1> QED BY <1>1 DEF FindsAll
(* The handlers visit no variable where they only go from one statement to *)
(* the next.                                                               *)
LEMMA KindBody ==
  ASSUME IInv, visitDFun
  PROVE  TcBody /\ Visited = {} /\ FindsAll
<1>1. /\ frames = <<>> /\ node = NoStm /\ node' = NoStm /\ fn < Len(program) /\ fn' = fn + 1 /\ arg' = 0
      /\ frames' = <<Frame(program[fn + 1], 0)>> /\ Opens
  BY DEF visitDFun, beginContext, Opens
<1>2. fn' \in 1 .. Len(program)
  BY <1>1 DEF IInv, Rest
<1>3. Visited = {} /\ ~ InFrame("SDoWhile")
  BY <1>1 DEF Visited, InFrame
<1> QED BY <1>1, <1>2, <1>3, FindsNone DEF TcBody

LEMMA KindArg ==
  ASSUME IInv, visitADecl, Clear
  PROVE  TcArg /\ Visited = {} /\ FindsAll
<1>1. /\ node = NoStm /\ Top.stm.op = "DFun" /\ arg' = arg + 1 /\ UNCHANGED <<frames, node, fn>>
      /\ InFrame("DFun")
  BY DEF visitADecl, InFrame
<1>2. EntersName(Top.stm.args[arg + 1].name)
  BY DEF visitADecl, Clear, EntersName
<1>3. Visited = {} /\ ~ InFrame("SDoWhile")
  BY <1>1 DEF Visited, InFrame
<1> QED BY <1>1, <1>2, <1>3, FindsNone DEF TcArg

(* The handler on top.                                                     *)
LEMMA TcTop ==
  ASSUME IInv, frames # <<>>
  PROVE  /\ Len(frames) \in Nat /\ Len(frames) >= 1 /\ frames \in Seq(FrameSet)
         /\ Top = frames[Len(frames)] /\ Top \in FrameSet /\ Top = Frame(Top.stm, Top.pos) /\ Top.pos \in Nat
         /\ Top.stm.op = "DFun" <=> Len(frames) = 1
         /\ Top.stm.op = "DFun" => Top.stm \in Function
         /\ Top.stm.op # "DFun" => Top.stm \in Stm
<1>1. frames \in Seq(FrameSet) /\ \A i \in 1 .. Len(frames) : frames[i].stm.op = "DFun" <=> i = 1
  BY DEF IInv, StackOK
<1>2. Len(frames) \in Nat /\ Len(frames) >= 1
  BY <1>1, EmptySeq
<1>3. PICK n : n = Len(frames)
  OBVIOUS
<1>4. n \in 1 .. Len(frames)
  BY <1>2, <1>3
<1>5. Top = frames[n] /\ frames[n] \in FrameSet
  BY <1>1, <1>3, <1>4 DEF Top
<1>6. Top = Frame(Top.stm, Top.pos) /\ Top.pos \in Nat /\ Top.stm \in Stm \cup Function
  BY <1>5 DEF FrameSet, Frame
<1>7. Top.stm.op = "DFun" <=> n = 1
  BY <1>1, <1>4, <1>5
<1>8. Top.stm.op = "DFun" => Top.stm \in Function
  BY <1>6, StmParts
<1>9. Top.stm.op # "DFun" => Top.stm \in Stm
  BY <1>6, FunParts
<1> QED BY <1>1, <1>2, <1>3, <1>5, <1>6, <1>7, <1>8, <1>9

LEMMA KindOn ==
  ASSUME IInv, visitNext \/ elseSIfElse
  PROVE  TcOn /\ Visited = {} /\ FindsAll
<1>1. /\ node = NoStm /\ frames # <<>> /\ Top.stm.op \in {"DFun", "SBlock", "SIfElse"}
      /\ frames' = Append(Pop, [Top EXCEPT !.pos = @ + 1])
      /\ UNCHANGED <<chain, fn, arg>>
      /\ Top.stm.op = "DFun" => arg = Len(Top.stm.args)
  BY DEF visitNext, elseSIfElse, InList, Resuming, InFrame, Advance, fixed
<1>2. /\ Top = Frame(Top.stm, Top.pos) /\ Top.pos \in Nat
      /\ Top.stm.op = "DFun" => Top.stm \in Function
      /\ Top.stm.op # "DFun" => Top.stm \in Stm
  BY <1>1, TcTop
<1>3. [Top EXCEPT !.pos = @ + 1] = Frame(Top.stm, Top.pos + 1)
  BY <1>2 DEF Frame
<1>4. node' = Top.stm.kids[Top.pos + 1] /\ node' \in Stm
  <2>1. CASE visitNext
    <3>1. /\ Top.pos < Len(Top.stm.kids) /\ node' = Top.stm.kids[Top.pos + 1]
          /\ Top.stm.op \in {"DFun", "SBlock"}
      BY <2>1 DEF visitNext, InList, InFrame, Advance
    <3>2. Top.stm.kids \in Seq(Stm)
      BY <1>2, <3>1, StmParts, FunParts
    <3>3. Top.pos + 1 \in 1 .. Len(Top.stm.kids)
      BY <1>2, <3>1, <3>2
    <3> QED BY <3>1, <3>2, <3>3
  <2>2. CASE elseSIfElse
    <3>1. Top.stm.op = "SIfElse" /\ Top.pos = 1 /\ node' = Top.stm.kids[2]
      BY <2>2 DEF elseSIfElse, Resuming, InFrame, Advance
    <3>2. Top.stm.kids[2] \in Stm /\ 1 + 1 = 2
      BY <1>2, <3>1, StmParts
    <3> QED BY <3>1, <3>2
  <2> QED BY <2>1, <2>2
<1>5. Visited = {} /\ ~ InFrame("SDoWhile")
  BY <1>1 DEF Visited, InFrame
<1> QED BY <1>1, <1>3, <1>4, <1>5, FindsNone DEF TcOn

LEMMA KindClose ==
  ASSUME IInv, endDFun \/ endSBlock
  PROVE  TcClose /\ Visited = {} /\ FindsAll
<1>1. /\ node = NoStm /\ node' = NoStm /\ frames # <<>> /\ Top.stm.op \in {"DFun", "SBlock"}
      /\ Top.pos = Len(Top.stm.kids) /\ frames' = Pop /\ endContext /\ UNCHANGED <<fn, arg>>
  BY DEF endDFun, endSBlock, ListDone, InList, InFrame, Return, fixed
<1>2. /\ Top.stm.op = "DFun" => Top.stm \in Function
      /\ Top.stm.op # "DFun" => Top.stm \in Stm
  BY <1>1, TcTop
<1>3. Top.stm.kids \in Seq(Stm)
  BY <1>1, <1>2, StmParts, FunParts
<1>4. Done3(Top.stm, Top.pos)
  BY <1>1, <1>3 DEF Done3
<1>5. Visited = {} /\ ~ InFrame("SDoWhile")
  BY <1>1 DEF Visited, InFrame
<1> QED BY <1>1, <1>4, <1>5, FindsNone DEF TcClose, ScopeOps

LEMMA KindOpen ==
  ASSUME IInv, visitSBlock
  PROVE  TcOpen /\ Visited = {} /\ FindsAll
<1>1. TcOpen
  BY DEF visitSBlock, Entering, Call, TcOpen, Opens, beginContext, fixed
<1>2. Visited = {}
  BY <1>1 DEF Visited, TcOpen
<1> QED BY <1>1, <1>2, FindsNone DEF TcOpen

LEMMA KindLeaf ==
  ASSUME IInv, visitSExp \/ visitSReturn \/ visitSReturnV, Clear
  PROVE  TcLeaf /\ FindsAll
<1>1. TcLeaf
  BY DEF visitSExp, visitSReturn, visitSReturnV, Checking, Throw, Crash, Clear, TcLeaf, Entering,
         Leaf, Sound, LeafOps
<1>2. node # NoStm
  BY <1>1 DEF TcLeaf
<1>3. At(node, frames) = node
  BY <1>2 DEF At
<1>4. CASE visitSReturnV
  <2>1. Visited = {}
    BY <1>2, <1>4 DEF visitSReturnV, Entering, Visited
  <2> QED BY <1>1, <1>2, <2>1, FindsNone
<1>5. CASE visitSExp \/ visitSReturn
  <2>1. PICK e, want : /\ e = node.exps[1] /\ want \subseteq DOMAIN types
                       /\ Failing(<<Test(e, want)>>) = {}
    <3>1. CASE visitSExp
      BY <3>1, Wanted DEF visitSExp, Checking, Throw, Crash, Clear
    <3>2. CASE visitSReturn
      BY <3>2, Wanted DEF visitSReturn, Checking, Throw, Crash, Clear
    <3> QED BY <1>5, <3>1, <3>2
  <2>2. node.op \in {"SExp", "SReturn"}
    BY <1>5 DEF visitSExp, visitSReturn, Entering
  <2>3. Visited = {1} /\ Slot(node, 1) = e
    BY <1>2, <2>1, <2>2 DEF Visited, Slot
  <2> QED BY <1>1, <1>2, <1>3, <2>1, <2>3, OneVisited
<1> QED BY <1>4, <1>5

LEMMA KindDecls ==
  ASSUME IInv, visitSDecls, Clear
  PROVE  TcCall /\ Visited = {} /\ FindsAll
<1>1. /\ node # NoStm /\ node.op = "SDecls" /\ node' = NoStm /\ UNCHANGED <<chain, fn, arg>>
      /\ frames' = Append(frames, Frame(node, 0))
  <2>1. PICK t : t = findBasicType(types, node.type)
    OBVIOUS
  <2>2. CASE t = TYPE_VOID
    <3>1. t # null
      BY <2>2 DEF TYPE_VOID, null
    <3>2. Throw
      BY <2>1, <2>2, <3>1 DEF visitSDecls
    <3> QED BY <3>2 DEF Throw, Clear
  <2>3. CASE t = null /\ t # TYPE_VOID
    BY <2>1, <2>3 DEF visitSDecls, Throw, Crash, Clear
  <2>4. CASE t # null /\ t # TYPE_VOID
    BY <2>1, <2>4 DEF visitSDecls, Entering, Call, Sound
  <2> QED BY <2>2, <2>3, <2>4
<1>2. Visited = {}
  BY <1>1 DEF Visited
<1> QED BY <1>1, <1>2, FindsNone DEF TcCall

LEMMA KindLoop ==
  ASSUME IInv, visitSWhile \/ visitSDoWhile \/ visitSFor \/ visitSIfElse, Clear
  PROVE  TcCall /\ FindsAll
<1>1. /\ node # NoStm /\ node.op \in LoopOps /\ node' = node.kids[1]
      /\ frames' = Append(frames, Frame(node, 1)) /\ UNCHANGED <<chain, fn, arg>>
  BY DEF visitSWhile, visitSDoWhile, visitSFor, visitSIfElse, Checking, Throw, Crash, Clear, Entering,
         Call, Sound, fixed, LoopOps
<1>2. At(node, frames) = node
  BY <1>1 DEF At
<1>3. CASE visitSDoWhile
  <2>1. Visited = {}
    BY <1>1, <1>3 DEF visitSDoWhile, Entering, Visited
  <2> QED BY <1>1, <2>1, FindsNone DEF TcCall
<1>4. CASE visitSWhile \/ visitSIfElse
  <2>1. Failing(<<Test(node.exps[1], Bool)>>) = {}
    BY <1>4 DEF visitSWhile, visitSIfElse, Checking, Throw, Crash, Clear
  <2>2. Visited = {1} /\ Slot(node, 1) = node.exps[1]
    BY <1>1, <1>4 DEF visitSWhile, visitSIfElse, Entering, Visited, Slot
  <2> QED BY <1>1, <1>2, <2>1, <2>2, OneVisited, Wanted DEF TcCall
<1>5. CASE visitSFor
  <2>1. PICK tests : tests = <<Test(node.exps[1], AnyType), Test(node.exps[2], Bool), Test(node.exps[3], AnyType)>>
    OBVIOUS
  <2>2. Failing(tests) = {}
    BY <1>5, <2>1 DEF visitSFor, Checking, Throw, Crash, Clear
  <2>3. Visited = 1 .. 3 /\ \A k \in 1 .. 3 : Slot(node, k) = node.exps[k]
    BY <1>1, <1>5 DEF visitSFor, Entering, Visited, Slot
  <2>4. ASSUME NEW k \in Variables(node, Visited)
        PROVE  Holders(chain, Slot(node, k).name) # {}
    <3>1. k \in 1 .. 3 /\ node.exps[k].op = "EId" /\ Slot(node, k) = node.exps[k]
      BY <2>3, <2>4 DEF Variables
    <3>2. PICK want : want = (IF k = 2 THEN Bool ELSE AnyType)
      OBVIOUS
    <3>3. k \in DOMAIN tests /\ tests[k] = Test(node.exps[k], want)
      BY <2>1, <3>1, <3>2
    <3>4. want \subseteq DOMAIN types
      BY <3>2, Wanted
    <3> QED BY <2>2, <3>1, <3>3, <3>4, TestsPass
  <2> QED BY <1>1, <1>2, <2>4 DEF FindsAll, TcCall
<1> QED BY <1>3, <1>4, <1>5

LEMMA KindId ==
  ASSUME IInv, visitIdIn, Clear
  PROVE  TcDeclare /\ FindsAll
<1>1. PICK id, t, tests :
        /\ id = Top.stm.exps[Top.pos + 1] /\ t = findBasicType(types, Top.stm.type)
        /\ tests = IF id.init = NoInit THEN <<>> ELSE <<Test(id.init, Becomes(t))>>
  OBVIOUS
<1>2. /\ node = NoStm /\ frames # <<>> /\ Top.stm.op = "SDecls" /\ Top.pos < Len(Top.stm.exps)
      /\ Failing(tests) = {} /\ id.name \notin DOMAIN Current /\ addSymbol(id.name, t) /\ Advance(NoStm)
      /\ UNCHANGED <<fn, arg>> /\ ~ crashed
  BY <1>1 DEF visitIdIn, InFrame, Checking, Throw, Crash, Clear
<1>3. Top = Frame(Top.stm, Top.pos) /\ Top.pos \in Nat /\ Top.stm \in Stm
  BY <1>2, TcTop
<1>4. [Top EXCEPT !.pos = @ + 1] = Frame(Top.stm, Top.pos + 1)
  BY <1>3 DEF Frame
<1>6. Visited = {Top.pos + 1}
  <2>1. Top.stm.exps \in Seq(IdIn)
    BY <1>2, <1>3, StmParts
  <2>2. Top.pos + 1 \in DOMAIN Top.stm.exps
    BY <1>2, <1>3, <2>1
  <2>3. InFrame("SDecls")
    BY <1>2 DEF InFrame
  <2>4. Visited = {Top.pos + 1} \cap DOMAIN Top.stm.exps
    <3>1. ~ InFrame("SDoWhile")
      BY <1>2 DEF InFrame
    <3> QED BY <1>2, <2>3, <3>1 DEF Visited
  <2> QED BY <2>2, <2>4
<1>5. TcDeclare
  BY <1>1, <1>2, <1>4, <1>6 DEF TcDeclare, Advance, EntersName
<1>7. At(node, frames) = Top.stm /\ Slot(Top.stm, Top.pos + 1) = id.init
  BY <1>1, <1>2 DEF At, Top, Slot
<1>8. ASSUME NEW k \in Variables(Top.stm, Visited)
      PROVE  Holders(chain, Slot(Top.stm, k).name) # {}
  <2>1. k = Top.pos + 1 /\ id.init # NoInit /\ id.init.op = "EId"
    BY <1>6, <1>7, <1>8 DEF Variables
  <2>2. tests = <<Test(id.init, Becomes(t))>>
    BY <1>1, <2>1
  <2>3. 1 \in DOMAIN tests /\ tests[1] = Test(id.init, Becomes(t))
    BY <2>2
  <2> QED BY <1>2, <1>7, <2>1, <2>3, TestsPass, Wanted
<1>9. ~ InFrame("SDoWhile")
  BY <1>2 DEF InFrame
<1> QED BY <1>5, <1>6, <1>7, <1>8, <1>9 DEF FindsAll

LEMMA KindReturn ==
  ASSUME IInv, endSDecls \/ endSDoWhile \/ endStm, Clear
  PROVE  TcReturn /\ FindsAll
<1>1. /\ node = NoStm /\ node' = NoStm /\ frames # <<>> /\ frames' = Pop /\ UNCHANGED <<chain, fn, arg>>
      /\ ~ crashed
      /\ \/ Top.stm.op = "SDecls" /\ Top.pos = Len(Top.stm.exps)
         \/ Top.stm.op \in {"SWhile", "SDoWhile", "SFor"} /\ Top.pos = 1
         \/ Top.stm.op = "SIfElse" /\ Top.pos = 2
  BY DEF endSDecls, endSDoWhile, endStm, Resuming, InFrame, Return, Checking, Throw, Crash, Clear, Sound,
         fixed
<1>2. Top.stm.op # "DFun" /\ Top.stm \in Stm /\ Top.pos \in Nat /\ Top.stm.op \notin ScopeOps
  BY <1>1, TcTop DEF ScopeOps
<1>3. Done3(Top.stm, Top.pos)
  BY <1>1, <1>2, StmKids DEF Done3
<1>4. (Top.stm.op = "SDoWhile" => Visited = {1}) => TcReturn
  BY <1>1, <1>2, <1>3 DEF TcReturn
<1>5. At(node, frames) = Top.stm
  BY <1>1 DEF At, Top
<1>6. CASE Top.stm.op = "SDoWhile"
  <2>1. Failing(<<Test(Top.stm.exps[1], Bool)>>) = {}
    BY <1>6 DEF endSDecls, endSDoWhile, endStm, Resuming, InFrame, Checking, Throw, Crash, Clear
  <2>2. Visited = {1} /\ Slot(Top.stm, 1) = Top.stm.exps[1]
    BY <1>1, <1>6 DEF Visited, InFrame, Slot
  <2>3. Top.pos = 1
    BY <1>1, <1>6
  <2>4. FindsAll
    BY <1>5, <2>1, <2>2, <2>3, OneVisited, Wanted
  <2> QED BY <1>4, <2>2, <2>4
<1>7. CASE Top.stm.op # "SDoWhile"
  <2>1. Visited = {}
    <3>1. CASE Top.stm.op = "SDecls"
      <4>1. Top.stm.exps \in Seq(IdIn)
        BY <1>2, <3>1, StmParts
      <4>2. Top.pos + 1 \notin DOMAIN Top.stm.exps
        BY <1>1, <3>1, <4>1
      <4>3. Visited = {Top.pos + 1} \cap DOMAIN Top.stm.exps
        BY <1>1, <3>1 DEF Visited, InFrame
      <4> QED BY <4>2, <4>3
    <3>2. CASE Top.stm.op # "SDecls"
      BY <1>1, <1>7, <3>2 DEF Visited, InFrame
    <3> QED BY <3>1, <3>2
  <2>2. ~ InFrame("SDoWhile")
    BY <1>7 DEF InFrame
  <2> QED BY <1>4, <1>7, <2>1, <2>2, FindsNone
<1> QED BY <1>6, <1>7

-----------------------------------------------------------------------------
TcKind ==
  \/ TcBody \/ TcArg \/ TcLeaf \/ TcCall \/ TcOpen
  \/ TcOn \/ TcDeclare \/ TcReturn \/ TcClose

(* Every step that reports nothing is of one of these kinds.               *)
LEMMA Classified ==
  ASSUME IInv, Next, Clear
  PROVE  TcKind /\ FindsAll /\ UNCHANGED program /\ ~ anyErrors /\ ~ crashed
<1>1. UNCHANGED program /\ ~ crashed /\ ~ anyErrors
  BY Remembered DEF Clear
<1>2. CASE visitDFun \/ visitADecl \/ visitNext \/ elseSIfElse \/ endDFun \/ endSBlock \/ visitSBlock
  BY <1>1, <1>2, KindBody, KindArg, KindOn, KindClose, KindOpen DEF TcKind
<1>3. CASE visitSExp \/ visitSReturn \/ visitSReturnV \/ visitSDecls \/ visitSWhile \/ visitSDoWhile
           \/ visitSFor \/ visitSIfElse
  BY <1>1, <1>3, KindLeaf, KindDecls, KindLoop DEF TcKind
<1>4. CASE visitIdIn \/ endSDecls \/ endSDoWhile \/ endStm
  BY <1>1, <1>4, KindId, KindReturn DEF TcKind
<1> QED BY <1>2, <1>3, <1>4 DEF Next

(* What is remembered then of the scopes.                                  *)
LEMMA EnteredIs ==
  ASSUME IInv, EnteredAsChain
  PROVE  /\ IsSeq(entered) /\ IsSeq(chain) /\ Len(entered) = Len(chain) /\ Len(chain) \in Nat
         /\ Len(chain) >= 1 /\ DOMAIN entered = 1 .. Len(chain) /\ DOMAIN chain = 1 .. Len(chain)
         /\ \A i \in 1 .. Len(chain) : DOMAIN entered[i] = DOMAIN chain[i]
         /\ \A x : Holders(entered, x) = Holders(chain, x)
<1>1. chain \in Seq(Maps) /\ Len(chain) \in Nat /\ Len(chain) >= 1
  BY InvFacts
<1>2. IsSeq(chain) /\ DOMAIN chain = 1 .. Len(chain)
  BY <1>1 DEF IsSeq
<1>3. /\ IsSeq(entered) /\ Len(entered) = Len(chain)
      /\ \A i \in 1 .. Len(chain) : DOMAIN entered[i] = DOMAIN chain[i]
  BY <1>2 DEF EnteredAsChain
<1>4. DOMAIN entered = 1 .. Len(chain)
  BY <1>3, SeqIs
<1>5. \A x : Holders(entered, x) = Holders(chain, x)
  BY <1>2, <1>3, <1>4 DEF Holders
<1> QED BY <1>1, <1>2, <1>3, <1>4, <1>5

Updated(s, n, m) == [s EXCEPT ![n] = m]

LEMMA UpdatedSeq ==
  ASSUME NEW s, IsSeq(s), NEW n, n = Len(s), n >= 1, NEW m, NEW t, t = Updated(s, n, m)
  PROVE  IsSeq(t) /\ Len(t) = n /\ t[n] = m /\ \A i \in 1 .. n : i # n => t[i] = s[i]
<1>1. PICK S : s \in Seq(S)
  BY DEF IsSeq
<1>2. PICK T : T = S \cup {m}
  OBVIOUS
<1>3. s \in Seq(T) /\ m \in T /\ n \in 1 .. Len(s)
  BY <1>1, <1>2
<1>4. t \in Seq(T)
  BY ONLY <1>3, t = Updated(s, n, m) DEF Updated
<1>5. Len(t) = Len(s) /\ t[n] = m /\ \A i \in 1 .. n : i # n => t[i] = s[i]
  BY <1>3, <1>4 DEF Updated
<1> QED BY <1>4, <1>5 DEF IsSeq

LEMMA RememberSame ==
  ASSUME IInv, EnteredAsChain, Remember, chain' = chain
  PROVE  Alike(entered, entered')
<1>1. PICK n, e : n = Len(chain) /\ e = entered
  OBVIOUS
<1>2. /\ n \in Nat /\ n >= 1 /\ IsSeq(e) /\ Len(e) = n /\ DOMAIN e = 1 .. n
      /\ DOMAIN e[n] = DOMAIN chain[n]
  BY <1>1, EnteredIs
<1>3. PICK inner : inner = [x \in DOMAIN chain[n] |-> IF x \in DOMAIN e[n] THEN e[n][x] ELSE Declaring]
  OBVIOUS
<1>4. entered' = [e EXCEPT ![n] = inner]
  <2>1. ~ (Len(chain') > Len(chain)) /\ ~ (Len(chain') < Len(chain)) /\ Len(e) = n
    BY <1>1, <1>2
  <2> QED BY <1>1, <1>3, <2>1 DEF Remember
<1>5. SameMap(e[n], inner)
  BY <1>2, <1>3 DEF SameMap
<1>6. PICK g : g = entered'
  OBVIOUS
<1>7. g = Updated(e, n, inner)
  BY <1>4, <1>6 DEF Updated
<1>8. IsSeq(g) /\ Len(g) = n /\ g[n] = inner /\ \A i \in 1 .. n : i # n => g[i] = e[i]
  BY ONLY <1>2, <1>7, UpdatedSeq
<1>9. \A i \in 1 .. n : SameMap(e[i], g[i])
  BY <1>5, <1>8 DEF SameMap
<1> QED BY <1>1, <1>2, <1>6, <1>8, <1>9 DEF Alike

LEMMA RememberOpen ==
  ASSUME IInv, EnteredAsChain, Remember, Opens
  PROVE  Alike(Append(entered, NoMembers), entered')
<1>1. IsSeq(chain) /\ IsSeq(entered) /\ Len(chain) \in Nat /\ Len(entered) = Len(chain)
  BY EnteredIs
<1>2. PICK d : d = Append(chain, NoMembers)
  OBVIOUS
<1>3. Len(d) = Len(chain) + 1 /\ chain' = d
  BY <1>1, <1>2, Push DEF IsPush, Opens
<1>4. entered' = Append(entered, NoMembers)
  BY <1>1, <1>3 DEF Remember
<1>5. PICK e, g : e = entered /\ g = Append(e, NoMembers)
  OBVIOUS
<1>6. IsPush(e, NoMembers, g)
  BY <1>1, <1>5, Push
<1>7. IsSeq(g) /\ Len(g) >= 1
  BY <1>6 DEF IsPush
<1>8. Alike(g, g)
  BY <1>7, AlikeSelf
<1> QED BY <1>4, <1>5, <1>8

LEMMA RememberClose ==
  ASSUME IInv, EnteredAsChain, Remember, endContext
  PROVE  entered' = SubSeq(entered, 1, Len(entered) - 1)
<1>1. IsSeq(chain) /\ Len(chain) \in Nat /\ Len(chain) >= 1 /\ chain # <<>>
  <2>1. IsSeq(chain) /\ Len(chain) \in Nat /\ Len(chain) >= 1
    BY EnteredIs
  <2>2. chain # <<>>
    BY <2>1
  <2> QED BY <2>1, <2>2
<1>2. PICK d : d = SubSeq(chain, 1, Len(chain) - 1)
  OBVIOUS
<1>3. Len(d) = Len(chain) - 1 /\ chain' = d
  BY <1>1, <1>2, PopSeq DEF IsPop, endContext
<1>4. Len(chain') < Len(chain) /\ ~ (Len(chain') > Len(chain))
  BY <1>1, <1>3
<1> QED BY <1>4 DEF Remember

LEMMA RememberName ==
  ASSUME IInv, EnteredAsChain, Remember, NEW x, EntersName(x)
  PROVE  Gains(entered, {<<x, Declaring>>}, entered')
<1>1. PICK n, e, p : n = Len(chain) /\ e = entered /\ p = Declaring
  OBVIOUS
<1>2. /\ n \in Nat /\ n >= 1 /\ IsSeq(e) /\ Len(e) = n /\ DOMAIN e = 1 .. n
      /\ DOMAIN e[n] = DOMAIN chain[n] /\ IsSeq(chain) /\ DOMAIN chain = 1 .. n
  BY <1>1, EnteredIs
<1>3. PICK t : addSymbol(x, t)
  BY DEF EntersName
<1>4. x \notin DOMAIN e[n]
  BY <1>1, <1>2 DEF EntersName, Current
<1>5. PICK m : m = Emplace(chain[n], x, t)
  OBVIOUS
<1>6. DOMAIN m = DOMAIN e[n] \cup {x}
  BY <1>2, <1>5 DEF Emplace
<1>7. chain' = [chain EXCEPT ![n] = m]
  BY <1>1, <1>3, <1>5 DEF addSymbol
<1>8. Len(chain') = n /\ chain'[n] = m
  <2>1. chain' = Updated(chain, n, m)
    BY <1>7 DEF Updated
  <2> QED BY <1>1, <1>2, <2>1, UpdatedSeq
<1>9. PICK inner : inner = [y \in DOMAIN m |-> IF y \in DOMAIN e[n] THEN e[n][y] ELSE p]
  OBVIOUS
<1>10. entered' = [e EXCEPT ![n] = inner]
  <2>1. ~ (Len(chain') > Len(chain)) /\ ~ (Len(chain') < Len(chain)) /\ Len(e) = n
    BY <1>1, <1>2, <1>8
  <2> QED BY <1>1, <1>8, <1>9, <2>1 DEF Remember
<1>11. GainsMap(e[n], {<<x, p>>}, inner)
  <2>1. PICK E : E = {<<x, p>>}
    OBVIOUS
  <2>2. Names(E) = {x}
    BY <2>1 DEF Names
  <2>3. DOMAIN inner = DOMAIN e[n] \cup Names(E) /\ \A y \in DOMAIN e[n] : inner[y] = e[n][y]
    BY <1>6, <1>9, <2>2
  <2>4. \A z \in E : inner[z[1]] = z[2]
    BY <1>4, <1>6, <1>9, <2>1
  <2> QED BY <2>1, <2>3, <2>4 DEF GainsMap
<1>12. PICK g : g = entered'
  OBVIOUS
<1>13. g = Updated(e, n, inner)
  BY <1>10, <1>12 DEF Updated
<1>14. IsSeq(g) /\ Len(g) = n /\ g[n] = inner /\ \A i \in 1 .. n : i # n => g[i] = e[i]
  BY ONLY <1>2, <1>13, UpdatedSeq
<1>15. \A i \in 1 .. n : i # n => SameMap(e[i], g[i])
  BY <1>14 DEF SameMap
<1> QED BY <1>1, <1>2, <1>11, <1>12, <1>14, <1>15 DEF Gains
-----------------------------------------------------------------------------
(* What the typechecker notes of a use *)

(* The slots of a statement that hold a variable, and the position of its  *)
(* handler when the typechecker visits one.                                *)
Slots(s) == IF s.op \in ScopeOps THEN {} ELSE Variables(s, DOMAIN s.exps)

Before(s, k) == IF s.op = "SDecls" THEN k - 1 ELSE IF s.op = "SDoWhile" THEN 1 ELSE 0

(* Handlers v of function F are at slot k of the statement on top.         *)
Uses(F, f, v, c, k) ==
  /\ Track(F, f, v, NoStm, Len(F.args), c) /\ Len(v) > 1
  /\ k \in Slots(v[Len(v)].stm)
  /\ Holders(c, Slot(v[Len(v)].stm, k).name) # {}

(* For use u of F the declaration t is noted.                              *)
NoteAt(F, u, t) ==
  \E v, c, k :
    /\ Uses(F, u[1], v, c, k)
    /\ u = Append(Route(u[1], v, Len(v)), k)
    /\ v[Len(v)].pos = Before(v[Len(v)].stm, k)
    /\ t = findSymbol(c, Slot(v[Len(v)].stm, k).name)

Noted(p, ty) == \A u \in DOMAIN ty : NoteAt(p[u[1]], u, ty[u])

LEMMA ExpDomains ==
  ASSUME NEW s \in Stm
  PROVE  /\ s.op \in {"SExp", "SReturn", "SWhile", "SDoWhile", "SIfElse"} => DOMAIN s.exps = {1}
         /\ s.op = "SFor" => DOMAIN s.exps = 1 .. 3
         /\ s.op = "SReturnV" => DOMAIN s.exps = {}
<1>1. s \in Statement
  BY TypeCheckAssumption
<1>2. 1 .. 1 = {1} /\ 1 .. 0 = {}
  OBVIOUS
<1>3. CASE s \in Node({"SExp", "SReturn"}, 1, 0) \cup Node({"SReturnV"}, 0, 0)
  BY <1>2, <1>3 DEF Node
<1>4. CASE s \in Node({"SWhile", "SDoWhile"}, 1, 1) \cup Node({"SFor"}, 3, 1)
  BY <1>2, <1>4 DEF Node
<1>5. CASE s \in Node({"SIfElse"}, 1, 2)
  BY <1>2, <1>5 DEF Node
<1>6. CASE s \in [op : {"SBlock"}, kids : Seq(Stm)]
  BY <1>6
<1>7. CASE s \in [op : {"SDecls"}, type : TypeId, exps : Seq(IdIn)]
  BY <1>7
<1> QED BY <1>1, <1>3, <1>4, <1>5, <1>6, <1>7 DEF Statement

LEMMA SlotsOf ==
  ASSUME NEW s \in Stm, NEW K, K \subseteq DOMAIN s.exps, s.op # "SBlock", NEW k \in Variables(s, K)
  PROVE  k \in Slots(s)
<1>1. s.op \notin ScopeOps
  BY StmParts DEF ScopeOps
<1> QED BY <1>1 DEF Slots, Variables

(* The statement that the next step visits expressions of, as a handler.   *)
LEMMA VisitUses ==
  ASSUME IInv, EnteredAsChain, FindsAll, frames # <<>>, NEW F,
         Track(F, fn, frames, node, arg, entered),
         NEW s, s = At(node, frames), NEW k \in Variables(s, Visited)
  PROVE  \E v : /\ Uses(F, fn, v, entered, k) /\ v[Len(v)].stm = s
                /\ Route(fn, v, Len(v)) = Path(fn, node, frames)
                /\ v[Len(v)].pos = Before(s, k)
<1>1. PICK n, e : n = Len(frames) /\ e = entered
  OBVIOUS
<1>2. /\ Arrives(F, fn, frames, node, arg) /\ frames \in Seq(FrameSet) /\ n \in Nat /\ n >= 1
      /\ IsSeq(e) /\ Len(e) >= 1
      /\ \A i \in 1 .. n : frames[i].stm.op = "DFun" <=> i = 1
  BY <1>1, TrackFacts
<1>3. Holders(e, Slot(s, k).name) # {}
  BY <1>1, EnteredIs DEF FindsAll
<1>4. Path(fn, node, frames) = Route(fn, frames, IF node = NoStm THEN n ELSE n + 1)
  BY <1>1, <1>2, PathIs
<1>5. CASE node # NoStm
  <2>1. s = node /\ node \in Stm
    BY <1>5 DEF At, IInv, Rest
  <2>2. /\ node.op \in {"SExp", "SReturn", "SWhile", "SIfElse", "SFor"}
        /\ Visited \subseteq DOMAIN node.exps
    BY <1>5, <2>1, ExpDomains DEF Variables, Visited
  <2>3. PICK v : v = Append(frames, Frame(node, 0))
    OBVIOUS
  <2>4. Frame(node, 0) \in FrameSet
    BY <2>1 DEF FrameSet, Frame
  <2>5. v \in Seq(FrameSet) /\ Len(v) = n + 1 /\ v[n + 1] = Frame(node, 0) /\ \A i \in 1 .. n : v[i] = frames[i]
    BY <1>1, <1>2, <2>3, <2>4, Pushed2
  <2>6. Alike(Begun(e, node), e)
    BY <1>2, <2>2, AlikeSelf DEF Begun, ScopeOps
  <2>7. Track(F, fn, v, NoStm, arg, e)
    BY <1>1, <1>5, <2>3, <2>6, TrackCall
  <2>8. arg = Len(F.args)
    BY <1>2, <1>5 DEF Arrives
  <2>9. Route(fn, v, n + 1) = Route(fn, frames, n + 1)
    <3>1. \A i \in 1 .. (n + 1) - 1 : v[i].pos = frames[i].pos
      BY <1>2, <2>5
    <3> QED BY <3>1, RouteSame
  <2>10. k \in Slots(node) /\ Before(node, k) = 0
    BY <2>1, <2>2, SlotsOf DEF Before
  <2>11. v[n + 1].stm = node /\ v[n + 1].pos = 0
    BY <2>5 DEF Frame
  <2>12. Len(v) > 1
    BY <1>2, <2>5
  <2>13. Uses(F, fn, v, e, k)
    BY <1>3, <2>1, <2>5, <2>7, <2>8, <2>10, <2>11, <2>12 DEF Uses
  <2> QED BY <1>1, <1>4, <1>5, <2>1, <2>5, <2>9, <2>10, <2>11, <2>13
<1>6. CASE node = NoStm
  <2>1. s = Top.stm /\ Top = frames[n]
    BY <1>1, <1>6 DEF At, Top
  <2>2. \/ InFrame("SDecls") /\ Visited = {Top.pos + 1} \cap DOMAIN Top.stm.exps
        \/ InFrame("SDoWhile") /\ Visited = {1} /\ Top.pos = 1
    <3>1. Visited # {}
      BY DEF Variables
    <3>2. CASE InFrame("SDecls")
      <4>1. ~ InFrame("SDoWhile")
        BY <3>2 DEF InFrame
      <4> QED BY <1>6, <3>2, <4>1 DEF Visited
    <3>3. CASE InFrame("SDoWhile")
      <4>1. ~ InFrame("SDecls")
        BY <3>3 DEF InFrame
      <4> QED BY <1>6, <3>3, <4>1 DEF Visited, FindsAll
    <3> QED BY <1>6, <3>1, <3>2, <3>3 DEF Visited
  <2>3. s.op \in {"SDecls", "SDoWhile"}
    BY <2>1, <2>2 DEF InFrame
  <2>4. s \in Stm /\ Top.pos \in Nat /\ n # 1
    BY <2>1, <2>3, <1>1, TcTop
  <2>5. Visited \subseteq DOMAIN s.exps
    <3>1. CASE s.op = "SDecls"
      BY <2>1, <2>2, <3>1 DEF InFrame
    <3>2. CASE s.op = "SDoWhile"
      BY <2>1, <2>2, <2>4, <3>2, ExpDomains DEF InFrame
    <3> QED BY <2>3, <3>1, <3>2
  <2>6. k \in Slots(s)
    BY <2>3, <2>4, <2>5, SlotsOf
  <2>7. frames[n].pos = Before(s, k)
    <3>1. k \in Visited
      BY DEF Variables
    <3>2. CASE s.op = "SDecls"
      <4>1. k = Top.pos + 1
        BY <2>1, <2>2, <3>1, <3>2 DEF InFrame
      <4> QED BY <2>1, <2>4, <3>2, <4>1 DEF Before
    <3>3. CASE s.op = "SDoWhile"
      <4>1. Top.pos = 1
        BY <2>1, <2>2, <3>3 DEF InFrame
      <4> QED BY <2>1, <3>3, <4>1 DEF Before
    <3> QED BY <2>3, <3>2, <3>3
  <2>8. n > 1 /\ arg = Len(F.args)
    BY <1>1, <1>2, <2>4 DEF Arrives
  <2>9. Uses(F, fn, frames, e, k)
    BY <1>1, <1>3, <1>6, <2>1, <2>6, <2>8 DEF Uses
  <2> QED BY <1>1, <1>4, <1>6, <2>1, <2>7, <2>9
<1> QED BY <1>5, <1>6

(* What is noted before and after a step.                                  *)
LEMMA NotedStep ==
  ASSUME IInv, EnteredAsChain, Remember, FindsAll, Noted(program, typed),
         frames # <<>> => Track(program[fn], fn, frames, node, arg, entered)
  PROVE  /\ Noted(program, typed') /\ DOMAIN typed \subseteq DOMAIN typed'
         /\ \A k \in Variables(At(node, frames), Visited) :
              Append(Path(fn, node, frames), k) \in DOMAIN typed'
<1>1. CASE Visited = {}
  <2>1. typed' = typed
    BY <1>1 DEF Remember
  <2> QED BY <1>1, <2>1 DEF Variables
<1>2. CASE Visited # {}
  <2>1. frames # <<>>
    <3>1. node # NoStm => frames # <<>>
      BY DEF IInv, Rest
    <3>2. node = NoStm /\ frames = <<>> => Visited = {}
      BY DEF Visited, InFrame
    <3> QED BY <1>2, <3>1, <3>2
  <2>2. PICK s, path, F, e : s = At(node, frames) /\ path = Path(fn, node, frames) /\ F = program[fn] /\ e = entered
    OBVIOUS
  <2>3. PICK uses : uses = {Append(path, k) : k \in Variables(s, Visited)}
    OBVIOUS
  <2>4. PICK new : new = [u \in uses |-> findSymbol(e, Slot(s, u[Len(u)]).name)]
    OBVIOUS
  <2>5. typed' = Extend(typed, new)
    BY <1>2, <2>2, <2>3, <2>4 DEF Remember
  <2>6. PICK ty, ty2 : ty = typed /\ ty2 = typed'
    OBVIOUS
  <2>7. /\ DOMAIN ty2 = DOMAIN ty \cup uses /\ \A x \in uses : ty2[x] = new[x]
        /\ \A x \in DOMAIN ty : x \notin uses => ty2[x] = ty[x]
    <3>1. ty2 = Extend(ty, new) /\ DOMAIN new = uses
      BY <2>4, <2>5, <2>6
    <3>2. /\ DOMAIN ty2 = DOMAIN ty \cup DOMAIN new /\ \A x \in DOMAIN new : ty2[x] = new[x]
          /\ \A x \in DOMAIN ty : x \notin DOMAIN new => ty2[x] = ty[x]
      BY ONLY <3>1 DEF Extend
    <3> QED BY ONLY <3>1, <3>2
  <2>8. ASSUME NEW u \in uses
        PROVE  NoteAt(program[u[1]], u, ty2[u])
    <3>1. PICK k \in Variables(s, Visited) : u = Append(path, k)
      BY <2>3, <2>8
    <3>2. PICK v : /\ Uses(F, fn, v, e, k) /\ v[Len(v)].stm = s
                   /\ Route(fn, v, Len(v)) = path /\ v[Len(v)].pos = Before(s, k)
      BY <2>1, <2>2, VisitUses
    <3>3. Track(F, fn, v, NoStm, Len(F.args), e)
      BY <3>2 DEF Uses
    <3>4. /\ fn \in Nat /\ Len(v) \in Nat /\ Len(v) >= 1 /\ \A i \in 1 .. Len(v) : v[i].pos \in Nat
      BY <3>3, TrackFacts
    <3>5. path \in Seq(Nat) /\ Len(path) = Len(v) /\ path[1] = fn
      <4>1. \A i \in 1 .. Len(v) - 1 : v[i].pos \in Nat
        BY <3>4
      <4>2. PICK n : n = Len(v)
        OBVIOUS
      <4> QED BY <3>2, <3>4, <4>1, <4>2, RouteIs
    <3>6. k \in Nat
      <4>1. k \in Slots(s)
        BY <3>2 DEF Uses
      <4>2. s.op \notin ScopeOps /\ k \in DOMAIN s.exps
        BY <4>1 DEF Slots, Variables
      <4>3. s \in Stm
        BY <3>2, <3>3, <3>4, <4>2, TrackFacts DEF ScopeOps
      <4>4. s.op = "SDecls" => s.exps \in Seq(IdIn)
        BY <4>3, StmParts
      <4> QED BY <4>2, <4>3, <4>4, ExpDomains, StmExps DEF ScopeOps
    <3>7. u[1] = fn /\ u[Len(u)] = k
      BY <3>1, <3>4, <3>5, <3>6
    <3>8. ty2[u] = findSymbol(e, Slot(s, k).name)
      BY <2>4, <2>7, <2>8, <3>7
    <3> QED BY <2>2, <3>1, <3>2, <3>7, <3>8 DEF NoteAt
  <2>9. Noted(program, ty2)
    BY <2>6, <2>7, <2>8 DEF Noted
  <2> QED BY <2>2, <2>3, <2>6, <2>7, <2>9
<1> QED BY <1>1, <1>2

-----------------------------------------------------------------------------
(* Every use of a statement that is done is noted *)

Slotted(s, at, T) == \A k \in Slots(s) : Append(at, k) \in T

(* A set of statements with their places that has the uses of all in T,    *)
(* and their parts.                                                        *)
ClosedUses(W, T) ==
  \A w \in W :
    /\ Slotted(w[1], w[2], T)
    /\ w[1].op # "SDecls" => \A k \in DOMAIN w[1].kids : <<w[1].kids[k], Append(w[2], k)>> \in W

(* All uses of statement s, at place at, are in T.                         *)
Covered(s, at, T) == \E W : <<s, at>> \in W /\ ClosedUses(W, T)

LEMMA CoveredParts ==
  ASSUME NEW s, NEW at, NEW T, Covered(s, at, T)
  PROVE  /\ Slotted(s, at, T)
         /\ s.op # "SDecls" => \A k \in DOMAIN s.kids : Covered(s.kids[k], Append(at, k), T)
<1>1. PICK W, w : w = <<s, at>> /\ w \in W /\ ClosedUses(W, T)
  BY DEF Covered
<1>2. w[1] = s /\ w[2] = at
  BY <1>1
<1>3. Slotted(s, at, T)
  BY <1>1, <1>2 DEF ClosedUses
<1>4. ASSUME s.op # "SDecls", NEW k \in DOMAIN s.kids
      PROVE  Covered(s.kids[k], Append(at, k), T)
  <2>1. <<s.kids[k], Append(at, k)>> \in W
    BY <1>1, <1>2, <1>4 DEF ClosedUses
  <2> QED BY <1>1, <2>1 DEF Covered
<1> QED BY <1>3, <1>4

LEMMA CoveredWhole ==
  ASSUME NEW s, NEW at, NEW T, Slotted(s, at, T),
         s.op # "SDecls" => \A k \in DOMAIN s.kids : Covered(s.kids[k], Append(at, k), T)
  PROVE  Covered(s, at, T)
<1>1. CASE s.op = "SDecls"
  <2>1. PICK W, w : w = <<s, at>> /\ W = {w}
    OBVIOUS
  <2>2. w[1] = s /\ w[2] = at
    BY <2>1
  <2>3. ClosedUses(W, T)
    BY <1>1, <2>1, <2>2 DEF ClosedUses
  <2> QED BY <2>1, <2>3 DEF Covered
<1>2. CASE s.op # "SDecls"
  <2>1. PICK K, w : w = <<s, at>> /\ K = DOMAIN s.kids
    OBVIOUS
  <2>2. PICK g : g = [k \in K |-> CHOOSE W : <<s.kids[k], Append(at, k)>> \in W /\ ClosedUses(W, T)]
    OBVIOUS
  <2>3. \A k \in K : <<s.kids[k], Append(at, k)>> \in g[k] /\ ClosedUses(g[k], T)
    <3>1. ASSUME NEW k \in K
          PROVE  <<s.kids[k], Append(at, k)>> \in g[k] /\ ClosedUses(g[k], T)
      <4>1. \E W : <<s.kids[k], Append(at, k)>> \in W /\ ClosedUses(W, T)
        BY <1>2, <2>1 DEF Covered
      <4> QED BY <2>2, <4>1
    <3> QED BY <3>1
  <2>4. PICK W : W = {w} \cup (UNION {g[k] : k \in K})
    OBVIOUS
  <2>5. w[1] = s /\ w[2] = at
    BY <2>1
  <2>6. \A x \in W : x = w \/ \E k \in K : x \in g[k]
    BY <2>4
  <2>7. \A k \in K : g[k] \subseteq W
    BY <2>4
  <2>8. ASSUME NEW x \in W
        PROVE  /\ Slotted(x[1], x[2], T)
               /\ x[1].op # "SDecls" => \A k \in DOMAIN x[1].kids : <<x[1].kids[k], Append(x[2], k)>> \in W
    <3>1. CASE x = w
      BY <2>1, <2>3, <2>5, <2>7, <3>1
    <3>2. CASE \E k \in K : x \in g[k]
      <4>1. PICK k \in K : x \in g[k]
        BY <3>2
      <4>2. ClosedUses(g[k], T) /\ g[k] \subseteq W
        BY <2>3, <2>7
      <4> QED BY <4>1, <4>2 DEF ClosedUses
    <3> QED BY <2>6, <3>1, <3>2
  <2>9. ClosedUses(W, T)
    BY <2>8 DEF ClosedUses
  <2> QED BY <2>1, <2>4, <2>9 DEF Covered
<1> QED BY <1>1, <1>2

LEMMA CoveredMore ==
  ASSUME NEW s, NEW at, NEW T, Covered(s, at, T), NEW T2, T \subseteq T2
  PROVE  Covered(s, at, T2)
<1>1. PICK W : <<s, at>> \in W /\ ClosedUses(W, T)
  BY DEF Covered
<1>2. ClosedUses(W, T2)
  BY <1>1 DEF ClosedUses, Slotted
<1> QED BY <1>1, <1>2 DEF Covered

(* The slots of a statement that have been visited when its handler is at  *)
(* position p; that of a do is visited last.                               *)
Seen(s, p) == IF s.op = "SDecls" THEN Variables(s, 1 .. p) ELSE IF s.op = "SDoWhile" THEN {} ELSE Slots(s)

BehindAt(T, s, at, p, m) ==
  /\ \A k \in Seen(s, p) : Append(at, k) \in T
  /\ s.op # "SDecls" => \A k \in 1 .. m : Covered(s.kids[k], Append(at, k), T)

(* The uses in what the handlers have behind them are in T.                *)
Behind(T, f, fr, nd) ==
  \A i \in 1 .. Len(fr) : BehindAt(T, fr[i].stm, Route(f, fr, i), fr[i].pos, Past(fr, nd, i))

LEMMA BehindAtMore ==
  ASSUME NEW T, NEW s, NEW at, NEW p, NEW m, BehindAt(T, s, at, p, m), NEW T2, T \subseteq T2
  PROVE  BehindAt(T2, s, at, p, m)
BY CoveredMore DEF BehindAt

LEMMA BehindTo ==
  ASSUME NEW T, NEW f, NEW fr, NEW nd, Behind(T, f, fr, nd), Len(fr) \in Nat, NEW T2, T \subseteq T2,
         NEW g, NEW nd2, NEW n, n = Len(g), n \in Nat, n >= 1, n <= Len(fr) + 1,
         \A i \in 1 .. n - 1 : Inner(fr, nd, i) /\ g[i] = fr[i],
         BehindAt(T2, g[n].stm, Route(f, g, n), g[n].pos, Past(g, nd2, n))
  PROVE  Behind(T2, f, g, nd2)
<1>1. ASSUME NEW i \in 1 .. n, i # n
      PROVE  BehindAt(T2, g[i].stm, Route(f, g, i), g[i].pos, Past(g, nd2, i))
  <2>1. i \in 1 .. n - 1 /\ i \in 1 .. Len(fr) /\ i < n
    BY <1>1
  <2>2. BehindAt(T, fr[i].stm, Route(f, fr, i), fr[i].pos, Past(fr, nd, i))
    BY <2>1 DEF Behind
  <2>3. \A j \in 1 .. i - 1 : g[j].pos = fr[j].pos
    BY <2>1
  <2>4. Route(f, g, i) = Route(f, fr, i)
    BY ONLY <2>3, RouteSame
  <2>5. Past(g, nd2, i) = g[i].pos - 1 /\ Past(fr, nd, i) = fr[i].pos - 1 /\ g[i] = fr[i]
    BY <2>1 DEF Past, Inner
  <2>6. PICK at, m : at = Route(f, fr, i) /\ m = fr[i].pos - 1
    OBVIOUS
  <2>7. BehindAt(T2, fr[i].stm, at, fr[i].pos, m)
    BY <2>2, <2>5, <2>6, BehindAtMore
  <2> QED BY <2>4, <2>5, <2>6, <2>7
<1> QED BY <1>1 DEF Behind

(* Handler m has its part behind it, and those above it are gone.          *)
LEMMA BehindBack ==
  ASSUME NEW F, NEW f, NEW fr, NEW nd, NEW a, NEW e, Track(F, f, fr, nd, a, e),
         NEW T, Behind(T, f, fr, nd), NEW T2, T \subseteq T2,
         NEW m, m \in 1 .. Len(fr), Inner(fr, nd, m),
         NEW g, Len(g) = m, \A i \in 1 .. m : g[i] = fr[i],
         Covered(Sub(fr, nd, m), Route(f, fr, m + 1), T2)
  PROVE  Behind(T2, f, g, NoStm)
<1>1. /\ Arrives(F, f, fr, nd, a) /\ f \in Nat /\ Len(fr) \in Nat /\ Len(fr) >= 1
      /\ \A i \in 1 .. Len(fr) : fr[i].pos \in Nat
  BY TrackFacts
<1>2. PICK s, at, p : s = fr[m].stm /\ at = Route(f, fr, m) /\ p = fr[m].pos
  OBVIOUS
<1>3. p >= 1 /\ s.op # "SDecls" /\ Sub(fr, nd, m) = s.kids[p] /\ p \in Nat
  BY <1>1, <1>2 DEF Arrives, Descends
<1>4. Route(f, fr, m + 1) = Append(at, p)
  <2>1. \A i \in 1 .. m : fr[i].pos \in Nat
    BY <1>1
  <2>2. m \in Nat /\ m >= 1
    BY <1>1
  <2> QED BY ONLY <1>1, <1>2, <2>1, <2>2, RouteNext
<1>5. Past(fr, nd, m) = p - 1 /\ Past(g, NoStm, m) = p
  BY <1>1, <1>2 DEF Past, Inner
<1>6. BehindAt(T, s, at, p, p - 1)
  BY <1>2, <1>5 DEF Behind
<1>7. BehindAt(T2, s, at, p, p - 1)
  BY <1>6, BehindAtMore
<1>8. BehindAt(T2, s, at, p, p)
  <2>1. \A k \in 1 .. p : k \in 1 .. p - 1 \/ k = p
    BY <1>3
  <2> QED BY <1>3, <1>4, <1>7, <2>1 DEF BehindAt
<1>9. Route(f, g, m) = at
  <2>1. \A i \in 1 .. m - 1 : g[i].pos = fr[i].pos
    BY <1>1
  <2> QED BY ONLY <1>2, <2>1, RouteSame
<1>10. \A i \in 1 .. m - 1 : Inner(fr, nd, i) /\ g[i] = fr[i]
  BY <1>1 DEF Inner
<1>11. g[m].stm = s /\ g[m].pos = p /\ m \in Nat /\ m >= 1 /\ m <= Len(fr) + 1
  BY <1>1, <1>2
<1> QED BY ONLY <1>1, <1>5, <1>8, <1>9, <1>10, <1>11, BehindTo, Behind(T, f, fr, nd), T \subseteq T2,
           Len(g) = m
LEMMA BehindLeaf ==
  ASSUME NEW F, NEW f, NEW fr, NEW nd, NEW a, NEW e, Track(F, f, fr, nd, a, e), nd # NoStm,
         NEW T, Behind(T, f, fr, nd), NEW T2, T \subseteq T2,
         Covered(nd, Route(f, fr, Len(fr) + 1), T2)
  PROVE  Behind(T2, f, fr, NoStm)
<1>1. PICK m : m = Len(fr)
  OBVIOUS
<1>2. m \in Nat /\ m >= 1 /\ m \in 1 .. Len(fr) /\ \A i \in 1 .. m : fr[i] = fr[i]
  BY <1>1, TrackFacts
<1>3. Inner(fr, nd, m) /\ Sub(fr, nd, m) = nd
  BY <1>1, <1>2 DEF Inner, Sub
<1> QED BY <1>1, <1>2, <1>3, BehindBack

(* A handler is called at its first part, or before it has any.            *)
LEMMA BehindCall ==
  ASSUME NEW F, NEW f, NEW fr, NEW nd, NEW a, NEW e, Track(F, f, fr, nd, a, e), nd \in Stm,
         nd # NoStm, NEW T, Behind(T, f, fr, nd), NEW T2, T \subseteq T2,
         NEW k, NEW nd2, (k = 0 /\ nd2 = NoStm) \/ (k = 1 /\ nd2 # NoStm),
         NEW g, g = Append(fr, Frame(nd, k)),
         \A j \in Seen(nd, k) : Append(Route(f, fr, Len(fr) + 1), j) \in T2
  PROVE  Behind(T2, f, g, nd2)
<1>1. PICK n : n = Len(fr)
  OBVIOUS
<1>2. fr \in Seq(FrameSet) /\ n \in Nat /\ n >= 1
  BY <1>1, TrackFacts
<1>3. Frame(nd, k) \in FrameSet /\ Frame(nd, k).stm = nd /\ Frame(nd, k).pos = k
  BY DEF Frame, FrameSet
<1>4. Len(g) = n + 1 /\ g[n + 1] = Frame(nd, k) /\ \A i \in 1 .. n : g[i] = fr[i]
  BY <1>1, <1>2, <1>3, Pushed2
<1>5. \A i \in 1 .. (n + 1) - 1 : Inner(fr, nd, i) /\ g[i] = fr[i]
  BY <1>1, <1>2, <1>4 DEF Inner
<1>6. Route(f, g, n + 1) = Route(f, fr, n + 1)
  <2>1. \A i \in 1 .. (n + 1) - 1 : g[i].pos = fr[i].pos
    BY <1>5
  <2> QED BY ONLY <2>1, RouteSame
<1>7. Past(g, nd2, n + 1) = 0
  BY <1>2, <1>3, <1>4 DEF Past, Inner
<1>8. BehindAt(T2, nd, Route(f, g, n + 1), k, 0)
  <2>1. 1 .. 0 = {}
    OBVIOUS
  <2> QED BY <1>1, <1>6, <2>1 DEF BehindAt
<1>9. BehindAt(T2, g[n + 1].stm, Route(f, g, n + 1), g[n + 1].pos, Past(g, nd2, n + 1))
  BY <1>3, <1>4, <1>7, <1>8
<1>10. PICK m : m = n + 1
  OBVIOUS
<1>11. m = Len(g) /\ m \in Nat /\ m >= 1 /\ m <= Len(fr) + 1 /\ Len(fr) \in Nat
  BY <1>1, <1>2, <1>4, <1>10
<1> QED BY ONLY <1>5, <1>9, <1>10, <1>11, BehindTo, Behind(T, f, fr, nd), T \subseteq T2

(* The handler on top goes on.                                             *)
LEMMA BehindNext ==
  ASSUME NEW F, NEW f, NEW fr, NEW a, NEW e, Track(F, f, fr, NoStm, a, e),
         NEW T, Behind(T, f, fr, NoStm), NEW T2, T \subseteq T2,
         NEW n, n = Len(fr), NEW s, s = fr[n].stm, NEW p, p = fr[n].pos,
         NEW nd2, s.op = "SDecls" \/ nd2 # NoStm,
         NEW g, g = Append(SubSeq(fr, 1, n - 1), Frame(s, p + 1)),
         s.op = "SDecls" => \A j \in Variables(s, {p + 1}) : Append(Route(f, fr, n), j) \in T2
  PROVE  Behind(T2, f, g, nd2)
<1>1. fr \in Seq(FrameSet) /\ n \in Nat /\ n >= 1 /\ p \in Nat
  BY TrackFacts
<1>2. Frame(s, p + 1) \in FrameSet /\ Frame(s, p + 1).stm = s /\ Frame(s, p + 1).pos = p + 1
  <2>1. fr[n] \in FrameSet
    BY <1>1
  <2> QED BY <1>1, <2>1 DEF Frame, FrameSet
<1>3. Len(g) = n /\ g[n] = Frame(s, p + 1) /\ \A i \in 1 .. n - 1 : g[i] = fr[i]
  BY <1>1, <1>2, Advanced2
<1>4. \A i \in 1 .. n - 1 : Inner(fr, NoStm, i) /\ g[i] = fr[i]
  BY <1>1, <1>3 DEF Inner
<1>5. PICK at : at = Route(f, fr, n)
  OBVIOUS
<1>6. Route(f, g, n) = at
  <2>1. \A i \in 1 .. n - 1 : g[i].pos = fr[i].pos
    BY <1>4
  <2> QED BY ONLY <1>5, <2>1, RouteSame
<1>7. BehindAt(T2, s, at, p, p)
  <2>1. Past(fr, NoStm, n) = p
    BY <1>1 DEF Past, Inner
  <2>2. BehindAt(T, s, at, p, p)
    BY <1>1, <1>5, <2>1 DEF Behind
  <2> QED BY <2>2, BehindAtMore
<1>8. CASE s.op = "SDecls"
  <2>1. \A j \in Seen(s, p + 1) : j \in Seen(s, p) \/ j \in Variables(s, {p + 1})
    <3>1. \A j \in 1 .. p + 1 : j \in 1 .. p \/ j \in {p + 1}
      BY <1>1
    <3> QED BY <1>8, <3>1 DEF Seen, Variables
  <2>2. BehindAt(T2, s, at, p + 1, Past(g, nd2, n))
    BY <1>5, <1>7, <1>8, <2>1 DEF BehindAt
  <2>3. BehindAt(T2, g[n].stm, Route(f, g, n), g[n].pos, Past(g, nd2, n))
    BY <1>2, <1>3, <1>6, <2>2
  <2> QED BY ONLY <1>1, <1>3, <1>4, <2>3, BehindTo, Behind(T, f, fr, NoStm), T \subseteq T2, n = Len(fr)
<1>9. CASE s.op # "SDecls"
  <2>1. Past(g, nd2, n) = p
    BY <1>1, <1>2, <1>3, <1>9 DEF Past, Inner
  <2>2. Seen(s, p + 1) = Seen(s, p)
    BY <1>9 DEF Seen
  <2>3. BehindAt(T2, s, at, p + 1, p)
    BY <1>7, <2>2 DEF BehindAt
  <2>4. BehindAt(T2, g[n].stm, Route(f, g, n), g[n].pos, Past(g, nd2, n))
    BY <1>2, <1>3, <1>6, <2>1, <2>3
  <2> QED BY ONLY <1>1, <1>3, <1>4, <2>4, BehindTo, Behind(T, f, fr, NoStm), T \subseteq T2, n = Len(fr)
<1> QED BY <1>8, <1>9

(* A statement whose handler has all of it behind it.                      *)
LEMMA CoveredTop ==
  ASSUME NEW T, NEW f, NEW fr, Behind(T, f, fr, NoStm), NEW n, n = Len(fr), n \in Nat, n >= 1,
         NEW s, s = fr[n].stm, Done3(s, fr[n].pos),
         NEW T2, T \subseteq T2,
         s.op = "SDoWhile" => \A j \in Slots(s) : Append(Route(f, fr, n), j) \in T2,
         s.op = "SDecls" => s.exps \in Seq(IdIn)
  PROVE  Covered(s, Route(f, fr, n), T2)
<1>1. PICK at, p : at = Route(f, fr, n) /\ p = fr[n].pos
  OBVIOUS
<1>2. Past(fr, NoStm, n) = p
  BY <1>1 DEF Past, Inner
<1>3. BehindAt(T, s, at, p, p)
  BY <1>1, <1>2 DEF Behind
<1>4. BehindAt(T2, s, at, p, p)
  BY <1>3, BehindAtMore
<1>5. Slotted(s, at, T2)
  <2>1. CASE s.op = "SDecls"
    <3>1. DOMAIN s.exps = 1 .. p
      BY <1>1, <2>1 DEF Done3
    <3>2. Slots(s) = Seen(s, p)
      BY <2>1, <3>1 DEF Slots, Seen, ScopeOps
    <3> QED BY <1>4, <3>2 DEF BehindAt, Slotted
  <2>2. CASE s.op = "SDoWhile"
    BY <1>1, <2>2 DEF Slotted
  <2>3. CASE s.op \notin {"SDecls", "SDoWhile"}
    BY <1>4, <2>3 DEF BehindAt, Slotted, Seen
  <2> QED BY <2>1, <2>2, <2>3
<1>6. s.op # "SDecls" => \A k \in DOMAIN s.kids : Covered(s.kids[k], Append(at, k), T2)
  BY <1>1, <1>4 DEF BehindAt, Done3
<1> QED BY <1>1, <1>5, <1>6, CoveredWhole

LEMMA BehindReturn ==
  ASSUME NEW F, NEW f, NEW fr, NEW a, NEW e, Track(F, f, fr, NoStm, a, e),
         NEW T, Behind(T, f, fr, NoStm), NEW T2, T \subseteq T2,
         NEW n, n = Len(fr), n > 1, Covered(fr[n].stm, Route(f, fr, n), T2),
         NEW g, g = SubSeq(fr, 1, n - 1)
  PROVE  Behind(T2, f, g, NoStm)
<1>1. fr \in Seq(FrameSet) /\ n \in Nat /\ n >= 1
  BY TrackFacts
<1>2. PICK m : m = n - 1
  OBVIOUS
<1>3. m \in 1 .. Len(fr) /\ m + 1 = n /\ m < Len(fr)
  BY <1>1, <1>2
<1>4. Len(g) = m /\ \A i \in 1 .. m : g[i] = fr[i]
  BY <1>1, <1>2, Popped2
<1>5. Inner(fr, NoStm, m) /\ Sub(fr, NoStm, m) = fr[n].stm
  BY <1>3 DEF Inner, Sub
<1>6. Covered(Sub(fr, NoStm, m), Route(f, fr, m + 1), T2)
  BY <1>3, <1>5
<1> QED BY ONLY <1>3, <1>4, <1>5, <1>6, BehindBack, Track(F, f, fr, NoStm, a, e),
           Behind(T, f, fr, NoStm), T \subseteq T2

-----------------------------------------------------------------------------
(* The invariant of the typechecker *)

(* The typechecker inside of a function, between two, and what it has      *)
(* behind it.                                                              *)
Following ==
  /\ Track(program[fn], fn, frames, node, arg, entered)
  /\ Behind(DOMAIN typed, fn, frames, node)

Resting == frames = <<>> /\ node = NoStm /\ Alike(<<NoMembers>>, entered)

AllCovered ==
  \A g \in 1 .. fn : g < fn \/ frames = <<>> => Covered(program[g], <<g>>, DOMAIN typed)

(* As long as it finds no error, it follows the trees, and notes for every *)
(* use it has behind it the declaration that its scopes hold there.        *)
Noting == Noted(program, typed) /\ (Resting \/ (frames # <<>> /\ Following)) /\ AllCovered

Bookkeeping == anyErrors \/ crashed \/ Noting

(* What a step without an error finds and leaves.                          *)
Notes ==
  /\ IInv /\ EnteredAsChain /\ Remember /\ FindsAll /\ UNCHANGED program /\ Noting

LEMMA NotesMore ==
  ASSUME Notes
  PROVE  /\ Noted(program', typed') /\ DOMAIN typed \subseteq DOMAIN typed'
         /\ \A k \in Variables(At(node, frames), Visited) :
              Append(Path(fn, node, frames), k) \in DOMAIN typed'
         /\ frames # <<>> => Following
<1>1. frames # <<>> => Following
  BY DEF Notes, Noting, Resting
<1>2. frames # <<>> => Track(program[fn], fn, frames, node, arg, entered)
  BY <1>1 DEF Following
<1>3. Noted(program, typed) /\ IInv /\ EnteredAsChain /\ Remember /\ FindsAll /\ program' = program
  BY DEF Notes, Noting
<1> QED BY <1>1, <1>2, <1>3, NotedStep

(* All functions before the one that is being checked are done.            *)
LEMMA StillCovered ==
  ASSUME Notes, fn' = fn, frames # <<>>, frames' # <<>>
  PROVE  AllCovered'
<1>1. ASSUME NEW g \in 1 .. fn, g < fn
      PROVE  Covered(program[g], <<g>>, DOMAIN typed')
  <2>1. Covered(program[g], <<g>>, DOMAIN typed)
    BY <1>1 DEF Notes, Noting, AllCovered
  <2> QED BY <2>1, NotesMore, CoveredMore
<1>2. program' = program
  BY DEF Notes
<1> QED BY <1>1, <1>2 DEF AllCovered

(* What a statement's handler visits first.                                *)
LEMMA FirstVisits ==
  ASSUME node # NoStm, node \in Stm
  PROVE  /\ node.op \in LeafOps \cup {"SWhile", "SIfElse", "SFor"} => Slots(node) \subseteq Variables(node, Visited)
         /\ node.op \in LoopOps => Seen(node, 1) \subseteq Variables(node, Visited)
         /\ node.op \in ScopeOps \cup {"SDecls"} => Seen(node, 0) = {}
<1>1. node.op \in LeafOps \cup {"SWhile", "SIfElse", "SFor"} => Slots(node) \subseteq Variables(node, Visited)
  <2>1. CASE node.op \in {"SExp", "SReturn", "SWhile", "SIfElse"}
    <3>1. DOMAIN node.exps = {1} /\ Visited = {1}
      BY <2>1, ExpDomains DEF Visited
    <3> QED BY <2>1, <3>1 DEF Slots, ScopeOps
  <2>2. CASE node.op = "SFor"
    <3>1. DOMAIN node.exps = 1 .. 3 /\ Visited = 1 .. 3
      BY <2>2, ExpDomains DEF Visited
    <3> QED BY <2>2, <3>1 DEF Slots, ScopeOps
  <2>3. CASE node.op = "SReturnV"
    <3>1. DOMAIN node.exps = {}
      BY <2>3, ExpDomains
    <3> QED BY <2>3, <3>1 DEF Slots, Variables, ScopeOps
  <2> QED BY <2>1, <2>2, <2>3 DEF LeafOps
<1>2. node.op \in LoopOps => Seen(node, 1) \subseteq Variables(node, Visited)
  BY <1>1 DEF LoopOps, Seen
<1>3. node.op \in ScopeOps \cup {"SDecls"} => Seen(node, 0) = {}
  <2>1. 1 .. 0 = {}
    OBVIOUS
  <2> QED BY <2>1 DEF Seen, ScopeOps, Slots, Variables
<1> QED BY <1>1, <1>2, <1>3

LEMMA NodeIs ==
  ASSUME Notes, node # NoStm
  PROVE  /\ node \in Stm /\ frames # <<>> /\ Following /\ Len(frames) \in Nat /\ Len(frames) >= 1
         /\ At(node, frames) = node /\ Path(fn, node, frames) = Route(fn, frames, Len(frames) + 1)
<1>1. node \in Stm /\ frames # <<>> /\ IInv
  BY DEF Notes, IInv, Rest
<1>2. Following
  BY <1>1, NotesMore
<1>3. Len(frames) \in Nat /\ Len(frames) >= 1
  BY <1>1, TcTop
<1> QED BY <1>1, <1>2, <1>3, PathIs DEF At

LEMMA FollowLeaf ==
  ASSUME Notes, TcLeaf
  PROVE  Noting'
<1>1. node # NoStm /\ node.op \in LeafOps /\ node' = NoStm /\ UNCHANGED <<frames, chain, fn, arg>>
  BY DEF TcLeaf
<1>2. PICK F, fr, nd, a, e, T, f :
        F = program[fn] /\ fr = frames /\ nd = node /\ a = arg /\ e = entered /\ T = DOMAIN typed /\ f = fn
  OBVIOUS
<1>3. PICK e2, T2 : e2 = entered' /\ T2 = DOMAIN typed'
  OBVIOUS
<1>4. nd \in Stm /\ fr # <<>> /\ Track(F, f, fr, nd, a, e) /\ Behind(T, f, fr, nd)
  BY <1>1, <1>2, NodeIs DEF Following
<1>5. T \subseteq T2 /\ \A k \in Variables(nd, Visited) : Append(Route(f, fr, Len(fr) + 1), k) \in T2
  BY <1>1, <1>2, <1>3, NotesMore, NodeIs
<1>6. Alike(e, e2)
  BY <1>1, <1>2, <1>3, RememberSame DEF Notes
<1>7. Track(F, f, fr, NoStm, a, e2)
  <2>1. Around[nd] = {}
    BY <1>1, <1>2, <1>4, NothingAround DEF LeafOps
  <2>2. Track(F, f, fr, NoStm, a, e)
    BY <1>1, <1>2, <1>4, <2>1, TrackLeaf
  <2> QED BY <1>6, <2>2, TrackAlike
<1>8. Covered(nd, Route(f, fr, Len(fr) + 1), T2)
  <2>1. PICK at : at = Route(f, fr, Len(fr) + 1)
    OBVIOUS
  <2>2. Slotted(nd, at, T2)
    BY <1>1, <1>2, <1>4, <1>5, <2>1, FirstVisits DEF Slotted
  <2>3. DOMAIN nd.kids = {}
    BY <1>1, <1>2, <1>4, StmKids DEF LeafOps
  <2> QED BY <2>1, <2>2, <2>3, CoveredWhole
<1>9. Behind(T2, f, fr, NoStm)
  BY <1>1, <1>2, <1>4, <1>5, <1>8, BehindLeaf
<1>10. Following'
  <2>1. program' = program
    BY DEF Notes
  <2> QED BY <1>1, <1>2, <1>3, <1>7, <1>9, <2>1 DEF Following
<1>11. frames # <<>> /\ frames' # <<>>
  BY <1>1, <1>2, <1>4
<1> QED BY <1>1, <1>10, <1>11, StillCovered, NotesMore DEF Noting
LEMMA FollowCall ==
  ASSUME Notes, TcCall \/ TcOpen
  PROVE  Noting'
<1>1. PICK F, fr, nd, a, e, T, f :
        F = program[fn] /\ fr = frames /\ nd = node /\ a = arg /\ e = entered /\ T = DOMAIN typed /\ f = fn
  OBVIOUS
<1>2. PICK e2, T2, nd2 : e2 = entered' /\ T2 = DOMAIN typed' /\ nd2 = node'
  OBVIOUS
<1>3. nd # NoStm /\ fn' = fn /\ arg' = arg
  BY <1>1 DEF TcCall, TcOpen
<1>4. nd \in Stm /\ fr # <<>> /\ Track(F, f, fr, nd, a, e) /\ Behind(T, f, fr, nd)
  BY <1>1, <1>3, NodeIs DEF Following
<1>5. T \subseteq T2 /\ \A k \in Variables(nd, Visited) : Append(Route(f, fr, Len(fr) + 1), k) \in T2
  BY <1>1, <1>2, <1>3, NotesMore, NodeIs
<1>6. Alike(Begun(e, nd), e2)
  <2>1. CASE TcCall
    <3>1. chain' = chain /\ nd.op \notin ScopeOps
      BY <1>1, <2>1 DEF TcCall, LoopOps, ScopeOps
    <3> QED BY <1>1, <1>2, <3>1, RememberSame DEF Begun, Notes
  <2>2. CASE TcOpen
    <3>1. Opens /\ nd.op \in ScopeOps
      BY <1>1, <2>2 DEF TcOpen, ScopeOps
    <3> QED BY <1>1, <1>2, <3>1, RememberOpen DEF Begun, Notes
  <2> QED BY <2>1, <2>2
<1>7. PICK k : /\ frames' = Append(fr, Frame(nd, k))
               /\ \/ k = 0 /\ nd2 = NoStm /\ nd.op \in ScopeOps \cup {"SDecls"}
                  \/ k = 1 /\ nd2 = nd.kids[1] /\ nd.op \in LoopOps
  <2>1. CASE TcCall
    <3>1. PICK k : /\ frames' = Append(frames, Frame(node, k))
                   /\ \/ node.op = "SDecls" /\ k = 0 /\ node' = NoStm
                      \/ node.op \in LoopOps /\ k = 1 /\ node' = node.kids[1]
      BY <2>1 DEF TcCall
    <3> QED BY <1>1, <1>2, <3>1
  <2>2. CASE TcOpen
    BY <1>1, <1>2, <2>2 DEF TcOpen, ScopeOps
  <2> QED BY <2>1, <2>2
<1>8. k = 1 => nd2 \in Stm /\ nd2 # NoStm /\ nd.op # "SDecls"
  BY <1>4, <1>7, StmParts, TypeCheckAssumption DEF LoopOps
<1>9. PICK g : g = Append(fr, Frame(nd, k))
  OBVIOUS
<1>10. Track(F, f, g, nd2, a, e2)
  BY <1>3, <1>4, <1>6, <1>7, <1>8, <1>9, TrackCall
<1>11. Behind(T2, f, g, nd2)
  <2>1. Seen(nd, k) \subseteq Variables(nd, Visited)
    BY <1>1, <1>3, <1>4, <1>7, FirstVisits
  <2>2. \A j \in Seen(nd, k) : Append(Route(f, fr, Len(fr) + 1), j) \in T2
    BY <1>5, <2>1
  <2>3. (k = 0 /\ nd2 = NoStm) \/ (k = 1 /\ nd2 # NoStm)
    BY <1>7, <1>8
  <2> QED BY <1>3, <1>4, <1>5, <1>9, <2>2, <2>3, BehindCall
<1>12. Following'
  <2>1. program' = program
    BY DEF Notes
  <2> QED BY <1>1, <1>2, <1>3, <1>7, <1>9, <1>10, <1>11, <2>1 DEF Following
<1>13. frames # <<>> /\ frames' # <<>>
  <2>1. fr \in Seq(FrameSet)
    BY <1>4, TrackFacts
  <2> QED BY <1>1, <1>4, <1>7, <2>1
<1> QED BY <1>3, <1>12, <1>13, StillCovered, NotesMore DEF Noting

(* The handler on top, when no statement is to be entered.                 *)
LEMMA OnTop ==
  ASSUME Notes, frames # <<>>, node = NoStm, NEW n, n = Len(frames)
  PROVE  /\ Following /\ n \in Nat /\ n >= 1 /\ Top = frames[n] /\ frames \in Seq(FrameSet)
         /\ Path(fn, node, frames) = Route(fn, frames, n) /\ At(node, frames) = Top.stm
         /\ Top.stm.op = "DFun" <=> n = 1
         /\ Top.stm.op # "DFun" => Top.stm \in Stm
         /\ Pop = SubSeq(frames, 1, n - 1)
<1>1. IInv
  BY DEF Notes
<1>2. Following
  BY NotesMore
<1>3. /\ n \in Nat /\ n >= 1 /\ Top = frames[n] /\ frames \in Seq(FrameSet)
      /\ Top.stm.op = "DFun" <=> n = 1
      /\ Top.stm.op # "DFun" => Top.stm \in Stm
  BY <1>1, TcTop
<1>4. Path(fn, node, frames) = Route(fn, frames, n)
  BY <1>3, PathIs
<1> QED BY <1>2, <1>3, <1>4 DEF At, Top, Pop

LEMMA FollowOn ==
  ASSUME Notes, TcOn
  PROVE  Noting'
<1>1. PICK F, fr, a, e, T, f, n, s, p :
        /\ F = program[fn] /\ fr = frames /\ a = arg /\ e = entered /\ T = DOMAIN typed /\ f = fn
        /\ n = Len(frames) /\ s = Top.stm /\ p = Top.pos
  OBVIOUS
<1>2. PICK e2, T2, nd2 : e2 = entered' /\ T2 = DOMAIN typed' /\ nd2 = node'
  OBVIOUS
<1>3. /\ frames # <<>> /\ node = NoStm /\ fn' = fn /\ arg' = arg /\ chain' = chain
      /\ s.op \in {"DFun", "SBlock", "SIfElse"} /\ nd2 = s.kids[p + 1] /\ nd2 \in Stm
      /\ frames' = Append(Pop, Frame(s, p + 1)) /\ (s.op = "DFun" => a = Len(s.args))
  BY <1>1, <1>2 DEF TcOn
<1>4. /\ Track(F, f, fr, NoStm, a, e) /\ Behind(T, f, fr, NoStm) /\ n \in Nat /\ n >= 1
      /\ s = fr[n].stm /\ p = fr[n].pos /\ (s.op = "DFun" <=> n = 1)
      /\ Pop = SubSeq(fr, 1, n - 1) /\ fr \in Seq(FrameSet)
  BY <1>1, <1>3, OnTop DEF Following
<1>5. Alike(e, e2)
  BY <1>1, <1>2, <1>3, RememberSame DEF Notes
<1>6. PICK g : g = Append(SubSeq(fr, 1, n - 1), Frame(s, p + 1))
  OBVIOUS
<1>7. n = 1 => a = Len(F.args)
  <2>1. fr[1].stm = F
    BY <1>4 DEF Track, Arrives, Descends
  <2> QED BY <1>3, <1>4, <2>1
<1>8. Track(F, f, g, nd2, a, e2)
  BY <1>1, <1>3, <1>4, <1>5, <1>6, <1>7, TrackOn
<1>9. T \subseteq T2 /\ nd2 # NoStm
  BY <1>1, <1>2, <1>3, NotesMore, TypeCheckAssumption
<1>10. Behind(T2, f, g, nd2)
  BY <1>1, <1>3, <1>4, <1>6, <1>9, BehindNext
<1>11. Following'
  <2>1. program' = program
    BY DEF Notes
  <2> QED BY <1>1, <1>2, <1>3, <1>4, <1>6, <1>8, <1>10, <2>1 DEF Following
<1>12. frames' # <<>>
  <2>1. Len(g) >= 1
    BY <1>8, TrackFacts
  <2> QED BY <1>3, <1>4, <1>6, <2>1
<1> QED BY <1>3, <1>11, <1>12, StillCovered, NotesMore DEF Noting

LEMMA FollowDeclare ==
  ASSUME Notes, TcDeclare
  PROVE  Noting'
<1>1. PICK F, fr, a, e, T, f, n, s, p :
        /\ F = program[fn] /\ fr = frames /\ a = arg /\ e = entered /\ T = DOMAIN typed /\ f = fn
        /\ n = Len(frames) /\ s = Top.stm /\ p = Top.pos
  OBVIOUS
<1>2. PICK e2, T2 : e2 = entered' /\ T2 = DOMAIN typed'
  OBVIOUS
<1>3. /\ frames # <<>> /\ node = NoStm /\ node' = NoStm /\ fn' = fn /\ arg' = arg
      /\ s.op = "SDecls" /\ Visited = {p + 1} /\ EntersName(s.exps[p + 1].name)
      /\ frames' = Append(Pop, Frame(s, p + 1))
  BY <1>1 DEF TcDeclare
<1>4. /\ Track(F, f, fr, NoStm, a, e) /\ Behind(T, f, fr, NoStm) /\ n \in Nat /\ n >= 1
      /\ s = fr[n].stm /\ p = fr[n].pos
      /\ Pop = SubSeq(fr, 1, n - 1) /\ fr \in Seq(FrameSet)
      /\ Path(fn, node, frames) = Route(f, fr, n) /\ At(node, frames) = s
  BY <1>1, <1>3, OnTop DEF Following
<1>5. PICK pl : pl = Append(Route(f, fr, n), p + 1)
  OBVIOUS
<1>6. Gains(e, {<<s.exps[p + 1].name, pl>>}, e2)
  <2>1. Declaring = pl
    <3>1. ~ InFrame("DFun")
      BY <1>1, <1>3 DEF InFrame
    <3> QED BY <1>1, <1>3, <1>4, <1>5, <3>1 DEF Declaring
  <2> QED BY <1>1, <1>2, <1>3, <2>1, RememberName DEF Notes
<1>7. PICK g, k : k = p + 1 /\ g = Append(SubSeq(fr, 1, n - 1), Frame(s, k))
  OBVIOUS
<1>8. Track(F, f, g, NoStm, a, e2)
  BY <1>1, <1>3, <1>4, <1>5, <1>6, <1>7, TrackDeclare
<1>9. T \subseteq T2 /\ \A j \in Variables(s, {p + 1}) : Append(Route(f, fr, n), j) \in T2
  BY <1>1, <1>2, <1>3, <1>4, NotesMore
<1>10. Behind(T2, f, g, NoStm)
  BY <1>1, <1>3, <1>4, <1>7, <1>9, BehindNext
<1>11. Following'
  <2>1. program' = program
    BY DEF Notes
  <2> QED BY <1>1, <1>2, <1>3, <1>4, <1>7, <1>8, <1>10, <2>1 DEF Following
<1>12. frames' # <<>>
  <2>1. Len(g) >= 1
    BY <1>8, TrackFacts
  <2> QED BY <1>3, <1>4, <1>7, <2>1
<1> QED BY <1>3, <1>11, <1>12, StillCovered, NotesMore DEF Noting

LEMMA FollowArg ==
  ASSUME Notes, TcArg
  PROVE  Noting'
<1>1. PICK F, fr, a, e, T, f, n, s :
        /\ F = program[fn] /\ fr = frames /\ a = arg /\ e = entered /\ T = DOMAIN typed /\ f = fn
        /\ n = Len(frames) /\ s = Top.stm
  OBVIOUS
<1>2. PICK e2, T2 : e2 = entered' /\ T2 = DOMAIN typed'
  OBVIOUS
<1>3. /\ frames # <<>> /\ node = NoStm /\ fn' = fn /\ arg' = a + 1 /\ node' = node /\ frames' = frames
      /\ s.op = "DFun" /\ InFrame("DFun") /\ EntersName(s.args[a + 1].name)
  BY <1>1 DEF TcArg, InFrame
<1>4. /\ Track(F, f, fr, NoStm, a, e) /\ Behind(T, f, fr, NoStm) /\ n = 1 /\ s = fr[1].stm
  BY <1>1, <1>3, OnTop DEF Following
<1>5. fr[1].stm = F
  BY <1>4 DEF Track, Arrives, Descends
<1>6. PICK pl : pl = <<f, 0, a + 1>>
  OBVIOUS
<1>7. Gains(e, {<<s.args[a + 1].name, pl>>}, e2)
  <2>1. Declaring = pl
    BY <1>1, <1>3, <1>6 DEF Declaring
  <2> QED BY <1>1, <1>2, <1>3, <2>1, RememberName DEF Notes
<1>8. Arg(F, <<f>>, a + 1) = <<s.args[a + 1].name, pl>>
  BY <1>4, <1>5, <1>6 DEF Arg
<1>9. Track(F, f, fr, NoStm, a + 1, e2)
  BY <1>1, <1>4, <1>7, <1>8, TrackArg
<1>10. Behind(T2, f, fr, NoStm)
  <2>1. T \subseteq T2
    BY <1>1, <1>2, NotesMore
  <2> QED BY <1>4, <2>1, BehindAtMore DEF Behind
<1>11. Following'
  <2>1. program' = program
    BY DEF Notes
  <2> QED BY <1>1, <1>2, <1>3, <1>9, <1>10, <2>1 DEF Following
<1> QED BY <1>3, <1>11, StillCovered, NotesMore DEF Noting
(* All chains on the way down are chains.                                  *)
LEMMA LegsAre ==
  ASSUME NEW f, NEW fr, NEW nd, NEW a, NEW ch, NEW e, Legs(f, fr, nd, a, ch, e),
         Len(fr) \in Nat, NEW i \in 1 .. Len(fr) + 1
  PROVE  IsSeq(ch[i]) /\ Len(ch[i]) >= 1 /\ Len(ch[i]) \in Nat
<1>1. CASE i = 1
  <2>1. ch[1] = <<NoMembers>>
    BY DEF Legs
  <2>2. PICK c : c = <<NoMembers>>
    OBVIOUS
  <2>3. c \in Seq({NoMembers}) /\ Len(c) = 1
    BY <2>2
  <2>4. IsSeq(c) /\ Len(c) >= 1 /\ Len(c) \in Nat
    BY <2>3 DEF IsSeq
  <2> QED BY <1>1, <2>1, <2>2, <2>4
<1>2. CASE i # 1
  <2>1. PICK j : j = i - 1
    OBVIOUS
  <2>2. j \in 1 .. Len(fr) /\ j + 1 = i
    BY <1>2, <2>1
  <2>3. Leg(ch[j], fr[j].stm, Route(f, fr, j), Past(fr, nd, j), a, ch[j + 1])
    BY <2>2 DEF Legs
  <2>4. IsSeq(ch[i]) /\ Len(ch[i]) >= 1
    BY <2>2, <2>3 DEF Leg, Gains
  <2> QED BY <2>4, SeqIs
<1> QED BY <1>1, <1>2

(* A scope that is open is not the only one.                               *)
LEMMA TrackDeep ==
  ASSUME NEW F, NEW f, NEW fr, NEW nd, NEW a, NEW e, Track(F, f, fr, nd, a, e),
         fr[Len(fr)].stm.op \in ScopeOps, NEW g, g = SubSeq(e, 1, Len(e) - 1)
  PROVE  IsSeq(g) /\ Len(g) >= 1
<1>1. PICK ch, n : Legs(f, fr, nd, a, ch, e) /\ n = Len(fr)
  BY DEF Track
<1>2. n \in Nat /\ n >= 1 /\ IsSeq(e) /\ Len(e) >= 1
  BY <1>1, TrackFacts
<1>3. PICK b, d : b = ch[n] /\ d = Append(b, NoMembers)
  OBVIOUS
<1>4. IsSeq(b) /\ Len(b) >= 1 /\ Len(b) \in Nat
  BY <1>1, <1>2, <1>3, LegsAre
<1>5. Len(d) = Len(b) + 1
  BY <1>3, <1>4, Push DEF IsPush
<1>6. Leg(b, fr[n].stm, Route(f, fr, n), Past(fr, nd, n), a, e)
  BY <1>1, <1>2, <1>3 DEF Legs
<1>7. Len(e) = Len(d)
  BY <1>1, <1>3, <1>6 DEF Leg, Gains, Begun
<1>8. e # <<>>
  BY <1>2
<1>9. IsPop(e, g)
  BY <1>2, <1>8, PopSeq
<1>10. IsSeq(g) /\ Len(g) = Len(e) - 1
  BY <1>9 DEF IsPop
<1> QED BY <1>4, <1>5, <1>7, <1>10

(* The statement on top is done: all its uses are noted.                   *)
LEMMA TopIsDone ==
  ASSUME Notes, TcReturn \/ TcClose, NEW n, n = Len(frames)
  PROVE  Covered(Top.stm, Route(fn, frames, n), DOMAIN typed')
<1>1. PICK fr, T, T2, f, s :
        /\ fr = frames /\ T = DOMAIN typed /\ T2 = DOMAIN typed' /\ f = fn /\ s = Top.stm
  OBVIOUS
<1>2. /\ frames # <<>> /\ node = NoStm /\ Done3(s, Top.pos) /\ (s.op = "SDoWhile" => Visited = {1})
  BY <1>1 DEF TcReturn, TcClose, ScopeOps
<1>3. /\ Behind(T, f, fr, NoStm) /\ n \in Nat /\ n >= 1 /\ Top = fr[n] /\ (s.op # "DFun" => s \in Stm)
      /\ Path(fn, node, frames) = Route(f, fr, n) /\ At(node, frames) = s
  BY <1>1, <1>2, OnTop DEF Following
<1>4. T \subseteq T2 /\ \A k \in Variables(s, Visited) : Append(Route(f, fr, n), k) \in T2
  BY <1>1, <1>3, NotesMore
<1>5. s.op = "SDoWhile" => \A j \in Slots(s) : Append(Route(f, fr, n), j) \in T2
  <2>1. SUFFICES ASSUME s.op = "SDoWhile" PROVE Slots(s) \subseteq Variables(s, Visited)
    BY <1>4
  <2>2. DOMAIN s.exps = {1}
    BY <1>3, <2>1, ExpDomains
  <2> QED BY <1>2, <2>1, <2>2 DEF Slots, ScopeOps
<1>6. s.op = "SDecls" => s.exps \in Seq(IdIn)
  BY <1>3, StmParts
<1>7. s = fr[n].stm /\ Done3(s, fr[n].pos) /\ n = Len(fr)
  BY <1>1, <1>2, <1>3
<1>8. Covered(s, Route(f, fr, n), T2)
  BY ONLY <1>3, <1>4, <1>5, <1>6, <1>7, CoveredTop
<1> QED BY <1>1, <1>8

LEMMA FollowReturn ==
  ASSUME Notes, TcReturn \/ TcClose, Top.stm.op # "DFun"
  PROVE  Noting'
<1>1. PICK F, fr, a, e, T, f, n, s :
        /\ F = program[fn] /\ fr = frames /\ a = arg /\ e = entered /\ T = DOMAIN typed /\ f = fn
        /\ n = Len(frames) /\ s = Top.stm
  OBVIOUS
<1>2. PICK e2, T2 : e2 = entered' /\ T2 = DOMAIN typed'
  OBVIOUS
<1>3. /\ frames # <<>> /\ node = NoStm /\ node' = NoStm /\ fn' = fn /\ arg' = arg /\ frames' = Pop
      /\ Done3(s, Top.pos)
  BY <1>1 DEF TcReturn, TcClose
<1>4. /\ Track(F, f, fr, NoStm, a, e) /\ Behind(T, f, fr, NoStm) /\ n \in Nat /\ n > 1
      /\ s = fr[n].stm /\ Top = fr[n] /\ Pop = SubSeq(fr, 1, n - 1) /\ fr \in Seq(FrameSet)
  BY <1>1, <1>3, OnTop DEF Following
<1>5. PICK g : g = SubSeq(fr, 1, n - 1)
  OBVIOUS
<1>6. Track(F, f, g, NoStm, a, e2)
  <2>1. CASE TcReturn
    <3>1. chain' = chain /\ s.op \notin ScopeOps
      BY <1>1, <2>1 DEF TcReturn
    <3>2. Alike(e, e2)
      BY <1>1, <1>2, <3>1, RememberSame DEF Notes
    <3>3. /\ s.op = "SDecls" => fr[n].pos = Len(s.exps)
          /\ s.op # "SDecls" => DOMAIN s.kids = 1 .. fr[n].pos
      BY <1>3, <1>4 DEF Done3
    <3> QED BY ONLY <1>1, <1>4, <1>5, <3>1, <3>2, <3>3, TrackReturn
  <2>2. CASE TcClose
    <3>1. endContext /\ s.op = "SBlock"
      BY <1>1, <2>2 DEF TcClose, ScopeOps
    <3>2. e2 = SubSeq(e, 1, Len(e) - 1)
      BY <1>1, <1>2, <3>1, RememberClose DEF Notes
    <3>3. fr[Len(fr)].stm.op \in ScopeOps
      BY <1>1, <1>4, <3>1 DEF ScopeOps
    <3>4. IsSeq(e2) /\ Len(e2) >= 1
      BY ONLY <1>4, <3>2, <3>3, TrackDeep
    <3>5. Alike(SubSeq(e, 1, Len(e) - 1), e2)
      BY <3>2, <3>4, AlikeSelf
    <3> QED BY <1>1, <1>4, <1>5, <3>1, <3>5, TrackClose
  <2> QED BY <2>1, <2>2
<1>7. T \subseteq T2
  BY <1>1, <1>2, NotesMore
<1>8. Covered(fr[n].stm, Route(f, fr, n), T2)
  BY <1>1, <1>2, <1>4, TopIsDone
<1>9. Behind(T2, f, g, NoStm)
  BY <1>1, <1>4, <1>5, <1>7, <1>8, BehindReturn
<1>10. Following'
  <2>1. program' = program
    BY DEF Notes
  <2> QED BY <1>1, <1>2, <1>3, <1>4, <1>5, <1>6, <1>9, <2>1 DEF Following
<1>11. frames' # <<>>
  <2>1. Len(g) >= 1 /\ g \in Seq(FrameSet)
    BY <1>6, TrackFacts
  <2>2. g # <<>>
    BY <2>1
  <2> QED BY <1>3, <1>4, <1>5, <2>2
<1> QED BY <1>3, <1>10, <1>11, StillCovered, NotesMore DEF Noting

(* The last function to be covered is done.                                *)
LEMMA FollowEnd ==
  ASSUME Notes, TcClose, Top.stm.op = "DFun"
  PROVE  Noting'
<1>1. PICK F, fr, a, e, T, f, s :
        /\ F = program[fn] /\ fr = frames /\ a = arg /\ e = entered /\ T = DOMAIN typed /\ f = fn
        /\ s = Top.stm
  OBVIOUS
<1>2. PICK e2, T2 : e2 = entered' /\ T2 = DOMAIN typed'
  OBVIOUS
<1>3. /\ frames # <<>> /\ node = NoStm /\ node' = NoStm /\ fn' = fn /\ frames' = Pop /\ endContext
  BY <1>1 DEF TcClose
<1>4. /\ Track(F, f, fr, NoStm, a, e) /\ Len(frames) = 1 /\ s = fr[1].stm
      /\ Pop = SubSeq(fr, 1, 0) /\ fr \in Seq(FrameSet)
  <2>1. Len(frames) = 1 /\ 1 - 1 = 0
    <3>1. PICK n : n = Len(frames)
      OBVIOUS
    <3> QED BY <1>3, <3>1, OnTop
  <2> QED BY <1>1, <1>3, <2>1, OnTop DEF Following
<1>5. s = F
  BY <1>4 DEF Track, Arrives, Descends
<1>6. frames' = <<>>
  BY <1>3, <1>4
<1>7. Resting'
  <2>1. e2 = SubSeq(e, 1, Len(e) - 1)
    BY <1>1, <1>2, <1>3, RememberClose DEF Notes
  <2>2. Alike(<<NoMembers>>, e2)
    BY <1>1, <1>4, <2>1, TrackEnd
  <2> QED BY <1>2, <1>3, <1>6, <2>2 DEF Resting
<1>8. Covered(F, <<f>>, T2)
  <2>1. Covered(s, Route(f, fr, 1), T2)
    BY <1>1, <1>2, <1>4, TopIsDone
  <2>2. Route(f, fr, 1) = <<f>>
    <3>1. PICK r, j : r = Route(f, fr, j) /\ j = 1
      OBVIOUS
    <3>2. f \in Nat /\ j \in Nat /\ j >= 1 /\ \A i \in 1 .. j - 1 : fr[i].pos \in Nat
      BY <1>4, <3>1, TrackFacts
    <3>3. Route(f, fr, j) \in Seq(Nat) /\ Len(Route(f, fr, j)) = j /\ Route(f, fr, j)[1] = f
      BY ONLY <3>2, RouteIs
    <3> QED BY <3>1, <3>3
  <2> QED BY <1>5, <2>1, <2>2
<1>9. AllCovered'
  <2>1. program' = program /\ fn \in Nat
    BY DEF Notes, IInv, Rest
  <2>2. ASSUME NEW g \in 1 .. fn
        PROVE  Covered(program[g], <<g>>, DOMAIN typed')
    <3>1. CASE g = fn
      BY <1>1, <1>2, <1>8, <3>1
    <3>2. CASE g # fn
      <4>1. g < fn
        BY <2>1, <3>2
      <4>2. Covered(program[g], <<g>>, DOMAIN typed)
        BY <4>1 DEF Notes, Noting, AllCovered
      <4> QED BY <4>2, NotesMore, CoveredMore
    <3> QED BY <3>1, <3>2
  <2> QED BY <1>3, <2>1, <2>2 DEF AllCovered
<1> QED BY <1>7, <1>9, NotesMore DEF Noting

LEMMA FollowBody ==
  ASSUME Notes, TcBody
  PROVE  Noting'
<1>1. /\ frames = <<>> /\ node = NoStm /\ node' = NoStm /\ fn' = fn + 1 /\ arg' = 0
      /\ fn' \in 1 .. Len(program) /\ Opens /\ frames' = <<Frame(program[fn'], 0)>>
  BY DEF TcBody
<1>2. PICK F, fr, e, e2, T, T2, f :
        /\ F = program[fn'] /\ fr = frames' /\ e = entered /\ e2 = entered' /\ T = DOMAIN typed
        /\ T2 = DOMAIN typed' /\ f = fn'
  OBVIOUS
<1>3. program \in Seq(Function) /\ fn \in Nat /\ program' = program
  BY DEF Notes, IInv, Rest
<1>4. F \in Function /\ f \in Nat
  BY <1>1, <1>2, <1>3
<1>5. Alike(<<NoMembers>>, e)
  BY <1>1, <1>2 DEF Notes, Noting, Resting
<1>6. Alike(Append(e, NoMembers), e2)
  BY <1>1, <1>2, RememberOpen DEF Notes
<1>7. Track(F, f, fr, NoStm, 0, e2)
  BY <1>1, <1>2, <1>4, <1>5, <1>6, TrackBegin
<1>8. Behind(T2, f, fr, NoStm)
  <2>1. Len(fr) = 1 /\ fr[1] = Frame(F, 0)
    BY <1>1, <1>2
  <2>2. fr[1].stm = F /\ fr[1].pos = 0 /\ F.op = "DFun"
    BY <1>4, <2>1, FunParts DEF Frame
  <2>3. Past(fr, NoStm, 1) = 0
    BY <2>1, <2>2 DEF Past, Inner
  <2>4. Seen(F, 0) = {} /\ 1 .. 0 = {}
    BY <2>2 DEF Seen, Slots, ScopeOps
  <2> QED BY <2>1, <2>2, <2>3, <2>4 DEF Behind, BehindAt
<1>9. Following'
  BY <1>1, <1>2, <1>3, <1>7, <1>8 DEF Following
<1>10. AllCovered'
  <2>1. ASSUME NEW g \in 1 .. fn', g < fn'
        PROVE  Covered(program[g], <<g>>, DOMAIN typed')
    <3>1. g \in 1 .. fn
      BY <1>1, <1>3, <2>1
    <3>2. Covered(program[g], <<g>>, DOMAIN typed)
      BY <1>1, <3>1 DEF Notes, Noting, AllCovered
    <3> QED BY <3>2, NotesMore, CoveredMore
  <2>2. frames' # <<>>
    BY <1>1
  <2> QED BY <1>3, <2>1, <2>2 DEF AllCovered
<1>11. frames' # <<>>
  BY <1>1
<1> QED BY <1>9, <1>10, <1>11, NotesMore DEF Noting

(* Every step of the typechecker.                                          *)
LEMMA StepNoting ==
  ASSUME IInv, EnteredAsChain, Next, Remember, Bookkeeping
  PROVE  Bookkeeping'
<1>1. CASE ~ Clear
  BY <1>1 DEF Clear, Bookkeeping
<1>2. CASE Clear
  <2>1. TcKind /\ FindsAll /\ UNCHANGED program /\ ~ anyErrors /\ ~ crashed
    BY <1>2, Classified
  <2>2. Notes
    BY <2>1 DEF Bookkeeping, Notes
  <2>3. Noting'
    BY <2>1, <2>2, FollowLeaf, FollowCall, FollowOn, FollowDeclare, FollowArg, FollowReturn, FollowEnd,
       FollowBody DEF TcKind, TcReturn, ScopeOps
  <2> QED BY <2>3 DEF Bookkeeping
<1> QED BY <1>1, <1>2

LEMMA InitNoting == ScopeInit => Bookkeeping
<1> SUFFICES ASSUME ScopeInit PROVE Bookkeeping
  OBVIOUS
<1>1. /\ frames = <<>> /\ node = NoStm /\ fn = 0 /\ entered = <<NoMembers>> /\ typed = NoMembers
  BY DEF ScopeInit, Init
<1>2. Resting
  <2>1. PICK c : c = <<NoMembers>>
    OBVIOUS
  <2>2. c \in Seq({NoMembers}) /\ Len(c) = 1
    BY <2>1
  <2>3. Alike(c, c)
    BY <2>2, AlikeSelf DEF IsSeq
  <2> QED BY <1>1, <2>1, <2>3 DEF Resting
<1>3. Noted(program, typed)
  BY <1>1, NoMembersMap DEF Noted
<1>4. AllCovered
  BY <1>1 DEF AllCovered
<1> QED BY <1>2, <1>3, <1>4 DEF Bookkeeping, Noting

-----------------------------------------------------------------------------
(* Two walks to the same use *)

LEMMA BegunAlike ==
  ASSUME NEW c, NEW d, Alike(c, d), NEW s
  PROVE  Alike(Begun(c, s), Begun(d, s))
BY AlikePush DEF Begun

SamePositions(v, w, n) == \A i \in 1 .. n : w[i].pos = v[i].pos

SameWay(v, w, n) == Len(v) = n /\ Len(w) = n /\ SamePositions(v, w, n - 1)

Agrees(f, v, w, n, ch, dh) ==
  \A i \in 1 .. n : v[i].stm = w[i].stm /\ Alike(ch[i], dh[i]) /\ Route(f, w, i) = Route(f, v, i)

(* They come through the same statements, with the same scopes.            *)
LEMMA LegsAgree ==
  ASSUME NEW F, NEW f, NEW a, NEW v, NEW w, Arrives(F, f, v, NoStm, a), Arrives(F, f, w, NoStm, a),
         NEW c, NEW ch, Legs(f, v, NoStm, a, ch, c), NEW d, NEW dh, Legs(f, w, NoStm, a, dh, d),
         NEW n, SameWay(v, w, n)
  PROVE  Agrees(f, v, w, n, ch, dh)
<1>0. n = Len(v) /\ n = Len(w) /\ SamePositions(v, w, n - 1)
  BY DEF SameWay
<1>1. n \in Nat /\ n >= 1 /\ f \in Nat /\ Descends(F, v, NoStm) /\ Descends(F, w, NoStm)
  BY <1>0, DownFacts DEF Arrives
<1>2. PICK Bad : Bad = {j \in 1 .. n : ~ (v[j].stm = w[j].stm /\ Alike(ch[j], dh[j]))}
  OBVIOUS
<1>3. ASSUME NEW j \in 1 .. n
      PROVE  Route(f, w, j) = Route(f, v, j)
  <2>1. \A k \in 1 .. j - 1 : w[k].pos = v[k].pos
    BY <1>0, <1>1 DEF SamePositions
  <2> QED BY ONLY <2>1, RouteSame
<1>4. Bad = {}
  <2>1. SUFFICES ASSUME Bad # {} PROVE FALSE
    OBVIOUS
  <2>2. Bad \subseteq Nat
    BY <1>1, <1>2
  <2>3. PICK z \in Bad : \A y \in Bad : z <= y
    BY <2>1, <2>2, NatLeast
  <2>4. z \in 1 .. n /\ ~ (v[z].stm = w[z].stm /\ Alike(ch[z], dh[z]))
    BY <1>2
  <2>5. CASE z = 1
    <3>1. v[1].stm = w[1].stm
      BY <1>1 DEF Descends
    <3>2. ch[1] = <<NoMembers>> /\ dh[1] = <<NoMembers>>
      BY DEF Legs
    <3>3. IsSeq(ch[1]) /\ Len(ch[1]) >= 1
      BY <1>0, <1>1, <2>4, <2>5, LegsAre
    <3>4. Alike(ch[1], dh[1])
      BY <3>2, <3>3, AlikeSelf
    <3> QED BY <2>4, <2>5, <3>1, <3>4
  <2>6. CASE z # 1
    <3>1. PICK j : j = z - 1
      OBVIOUS
    <3>2. j \in 1 .. n /\ j < n /\ j + 1 = z /\ j \notin Bad /\ j \in 1 .. n - 1
      BY <1>1, <2>2, <2>3, <2>4, <2>6, <3>1
    <3>3. v[j].stm = w[j].stm /\ Alike(ch[j], dh[j]) /\ w[j].pos = v[j].pos
      BY <1>0, <1>2, <3>2 DEF SamePositions
    <3>4. PICK s, p, at : s = v[j].stm /\ p = v[j].pos /\ at = Route(f, v, j)
      OBVIOUS
    <3>5. v[z].stm = s.kids[p] /\ w[z].stm = s.kids[p]
      BY <1>0, <1>1, <3>2, <3>3, <3>4 DEF Descends, Inner, Sub
    <3>6. Past(v, NoStm, j) = p - 1 /\ Past(w, NoStm, j) = p - 1
      BY <1>0, <3>2, <3>3, <3>4 DEF Past, Inner
    <3>7. Leg(ch[j], s, at, p - 1, a, ch[z])
      BY <1>0, <3>2, <3>4, <3>6 DEF Legs
    <3>8. Leg(dh[j], s, at, p - 1, a, dh[z])
      <4>1. Leg(dh[j], w[j].stm, Route(f, w, j), Past(w, NoStm, j), a, dh[j + 1])
        BY <1>0, <3>2 DEF Legs
      <4>2. Route(f, w, j) = at
        BY <1>3, <3>2, <3>4
      <4> QED BY <3>2, <3>3, <3>4, <3>6, <4>1, <4>2
    <3>9. Alike(Begun(ch[j], s), Begun(dh[j], s))
      BY <3>3, BegunAlike
    <3>10. Alike(ch[z], dh[z])
      BY <3>7, <3>8, <3>9, GainsOnce DEF Leg
    <3> QED BY <2>4, <3>5, <3>10
  <2> QED BY <2>5, <2>6
<1> QED BY <1>2, <1>3, <1>4 DEF Agrees

(* What one of them has more.                                              *)
LEMMA GainsMore ==
  ASSUME NEW b, NEW X, NEW c, Gains(b, X, c), NEW b2, Alike(b, b2),
         NEW E, NEW Y, Y = X \cup E, NEW d, Gains(b2, Y, d)
  PROVE  Gains(c, E, d)
<1>1. PICK n : n = Len(b)
  OBVIOUS
<1>2. Len(b) = n /\ Len(b2) = n /\ Len(c) = n /\ Len(d) = n /\ n \in Nat /\ n \in 1 .. n /\ n >= 1
  BY <1>1, SeqIs DEF Gains, Alike
<1>3. /\ IsSeq(c) /\ IsSeq(d) /\ \A i \in 1 .. n : SameMap(b[i], b2[i])
      /\ \A i \in 1 .. n : i # n => SameMap(b[i], c[i]) /\ SameMap(b2[i], d[i])
      /\ GainsMap(b[n], X, c[n]) /\ GainsMap(b2[n], Y, d[n])
  BY <1>2 DEF Gains, Alike
<1>4. \A i \in 1 .. n : i # n => SameMap(c[i], d[i])
  BY <1>3 DEF SameMap
<1>5. GainsMap(c[n], E, d[n])
  <2>1. PICK bn, en, cn, dn : bn = b[n] /\ en = b2[n] /\ cn = c[n] /\ dn = d[n]
    OBVIOUS
  <2>2. SameMap(bn, en) /\ GainsMap(bn, X, cn) /\ GainsMap(en, Y, dn)
    BY <1>2, <1>3, <2>1
  <2>3. Names(Y) = Names(X) \cup Names(E)
    BY DEF Names
  <2>4. DOMAIN dn = DOMAIN cn \cup Names(E) /\ DOMAIN cn = DOMAIN bn \cup Names(X)
    BY <2>2, <2>3 DEF SameMap, GainsMap
  <2>5. ASSUME NEW x \in DOMAIN cn
        PROVE  dn[x] = cn[x]
    <3>1. CASE x \in DOMAIN bn
      BY <2>2, <3>1 DEF SameMap, GainsMap
    <3>2. CASE x \in Names(X)
      <4>1. PICK y \in X : y[1] = x
        BY <3>2 DEF Names
      <4> QED BY <2>2, <4>1 DEF GainsMap
    <3> QED BY <2>4, <3>1, <3>2
  <2>6. \A y \in E : dn[y[1]] = y[2]
    BY <2>2 DEF GainsMap
  <2> QED BY <2>1, <2>4, <2>5, <2>6 DEF GainsMap
<1> QED BY <1>2, <1>3, <1>4, <1>5 DEF Gains

(* What is found: the last map that has it.                                *)
LEMMA FoundLast ==
  ASSUME NEW c, IsSeq(c), NEW x, NEW i \in Holders(c, x), \A j \in Holders(c, x) : j <= i
  PROVE  findSymbol(c, x) = c[i][x]
<1>1. Holders(c, x) \subseteq Nat
  BY SeqIs DEF Holders
<1>2. \A k \in Holders(c, x) : (\A j \in Holders(c, x) : j <= k) => k = i
  BY <1>1
<1>3. i = CHOOSE k \in Holders(c, x) : \A j \in Holders(c, x) : j <= k
  BY <1>2
<1> QED BY <1>3 DEF findSymbol

LEMMA LastHolder ==
  ASSUME NEW c, IsSeq(c), NEW x, Holders(c, x) # {}
  PROVE  \E i \in Holders(c, x) : (\A j \in Holders(c, x) : j <= i) /\ findSymbol(c, x) = c[i][x]
<1>1. Len(c) \in Nat /\ Holders(c, x) \subseteq 1 .. Len(c)
  BY SeqIs DEF Holders
<1>2. PICK i \in Holders(c, x) : \A j \in Holders(c, x) : j <= i
  BY <1>1, Largest
<1> QED BY <1>2, FoundLast

LEMMA FoundAlike ==
  ASSUME NEW c, NEW d, Alike(c, d), NEW x
  PROVE  Holders(d, x) = Holders(c, x) /\ findSymbol(d, x) = findSymbol(c, x)
<1>1. /\ IsSeq(c) /\ IsSeq(d) /\ DOMAIN c = DOMAIN d /\ DOMAIN c = 1 .. Len(c)
      /\ \A i \in DOMAIN c : SameMap(c[i], d[i])
  BY SeqIs DEF Alike
<1>2. Holders(d, x) = Holders(c, x)
  BY <1>1 DEF Holders, SameMap
<1>3. CASE Holders(c, x) = {}
  BY <1>2, <1>3 DEF findSymbol
<1>4. CASE Holders(c, x) # {}
  <2>1. PICK i \in Holders(c, x) : (\A j \in Holders(c, x) : j <= i) /\ findSymbol(c, x) = c[i][x]
    BY <1>1, <1>4, LastHolder
  <2>2. findSymbol(d, x) = d[i][x]
    BY <1>1, <1>2, <2>1, FoundLast
  <2>3. d[i][x] = c[i][x]
    BY <1>1, <2>1 DEF Holders, SameMap
  <2> QED BY <1>2, <2>1, <2>2, <2>3
<1> QED BY <1>3, <1>4

(* A chain that gains names finds them there, and the others as before.    *)
LEMMA FoundGained ==
  ASSUME NEW c, NEW E, NEW d, Gains(c, E, d), NEW x, Holders(c, x) # {}
  PROVE  /\ x \notin Names(E) => findSymbol(d, x) = findSymbol(c, x)
         /\ x \in Names(E) => \E e \in E : e[1] = x /\ findSymbol(d, x) = e[2]
<1>1. PICK n : n = Len(c)
  OBVIOUS
<1>2. /\ IsSeq(c) /\ IsSeq(d) /\ n \in Nat /\ n \in 1 .. n /\ DOMAIN c = 1 .. n /\ DOMAIN d = 1 .. n
      /\ \A i \in 1 .. n : i # n => SameMap(c[i], d[i])
      /\ GainsMap(c[n], E, d[n])
  BY <1>1, SeqIs DEF Gains
<1>3. CASE x \notin Names(E)
  <2>1. \A i \in 1 .. n : /\ x \in DOMAIN c[i] <=> x \in DOMAIN d[i]
                          /\ x \in DOMAIN c[i] => d[i][x] = c[i][x]
    BY <1>2, <1>3 DEF SameMap, GainsMap
  <2>2. Holders(d, x) = Holders(c, x)
    BY <1>2, <2>1 DEF Holders
  <2>3. PICK i \in Holders(c, x) : (\A j \in Holders(c, x) : j <= i) /\ findSymbol(c, x) = c[i][x]
    BY <1>2, LastHolder
  <2>4. findSymbol(d, x) = d[i][x]
    BY <1>2, <2>2, <2>3, FoundLast
  <2> QED BY <1>2, <1>3, <2>1, <2>3, <2>4 DEF Holders
<1>4. CASE x \in Names(E)
  <2>1. PICK e \in E : e[1] = x
    BY <1>4 DEF Names
  <2>2. x \in DOMAIN d[n] /\ d[n][x] = e[2]
    BY <1>2, <1>4, <2>1 DEF GainsMap
  <2>3. n \in Holders(d, x) /\ \A j \in Holders(d, x) : j <= n
    BY <1>2, <2>2 DEF Holders
  <2>4. findSymbol(d, x) = d[n][x]
    BY <1>2, <2>3, FoundLast
  <2> QED BY <1>4, <2>1, <2>2, <2>4
<1> QED BY <1>3, <1>4
-----------------------------------------------------------------------------
(* The places in a chain are behind the handlers *)

LEMMA Stepped ==
  ASSUME NEW at \in Seq(Nat), NEW k \in Nat, NEW r \in Seq(Nat),
         NEW b, b = Append(at, k), NEW d, d = b \o r
  PROVE  /\ Len(at) \in Nat /\ b \in Seq(Nat) /\ Len(b) = Len(at) + 1 /\ b[Len(at) + 1] = k
         /\ \A j \in 1 .. Len(at) : b[j] = at[j]
         /\ d \in Seq(Nat) /\ \A j \in 1 .. Len(at) + 1 : d[j] = b[j]
<1>1. /\ Len(at) \in Nat /\ b \in Seq(Nat) /\ Len(b) = Len(at) + 1 /\ b[Len(at) + 1] = k
      /\ \A j \in 1 .. Len(at) : b[j] = at[j]
  OBVIOUS
<1>2. /\ b \o r \in Seq(Nat) /\ Len(b \o r) = Len(b) + Len(r)
      /\ \A j \in 1 .. Len(b) + Len(r) : (b \o r)[j] = IF j <= Len(b) THEN b[j] ELSE r[j - Len(b)]
  BY ONLY <1>1, r \in Seq(Nat), ConcatProperties
<1>3. Len(r) \in Nat
  OBVIOUS
<1>4. d \in Seq(Nat) /\ \A j \in 1 .. Len(b) + Len(r) : d[j] = IF j <= Len(b) THEN b[j] ELSE r[j - Len(b)]
  BY ONLY <1>2, d = b \o r
<1>5. ASSUME NEW j \in 1 .. Len(at) + 1
      PROVE  d[j] = b[j]
  <2>1. j \in 1 .. Len(b) + Len(r) /\ j <= Len(b)
    BY ONLY <1>1, <1>3, j \in 1 .. Len(at) + 1
  <2> QED BY ONLY <1>4, <2>1
<1> QED BY ONLY <1>1, <1>4, <1>5

(* A handler at position p has parts up to there.                          *)
Seated(s, p) == s.op # "SDecls" => 1 .. p \subseteq DOMAIN s.kids

(* What a statement has declared is behind where it is now.                *)
LEMMA EntryAt ==
  ASSUME NEW s \in Stm \cup Function, NEW at \in Seq(Nat), NEW i, i = Len(at), i >= 1, NEW p \in Nat,
         s.op = "DFun" => i = 1, Seated(s, p), NEW a, a \in Nat, NEW e \in Inside(s, at, p, a)
  PROVE  ~ (e[2][i + 1] > p)
<1>1. i \in Nat
  OBVIOUS
<1>2. CASE s.op = "SDecls"
  <2>1. PICK k \in 1 .. p : e = <<s.exps[k].name, Append(at, k)>>
    BY <1>2 DEF Inside
  <2>2. k \in Nat /\ <<>> \in Seq(Nat)
    BY <2>1
  <2>3. PICK b : b = Append(at, k)
    OBVIOUS
  <2>4. b[i + 1] = k
    BY <2>2, <2>3
  <2>5. e[2] = b
    BY <2>1, <2>3
  <2> QED BY <2>1, <2>4, <2>5
<1>3. CASE s.op # "SDecls" /\ \E k \in 1 .. p : e \in From(Around[s.kids[k]], Append(at, k))
  <2>1. PICK k \in 1 .. p : e \in From(Around[s.kids[k]], Append(at, k))
    BY <1>3
  <2>2. PICK u : u = s.kids[k]
    OBVIOUS
  <2>3. k \in DOMAIN s.kids
    BY <1>3, <2>1 DEF Seated
  <2>4. u \in Stm
    <3>1. CASE s \in Stm
      BY <1>3, <2>2, <2>3, <3>1, StmKids
    <3>2. CASE s \in Function
      <4>1. s.kids \in Seq(Stm)
        BY <3>2 DEF Function
      <4> QED BY <2>2, <2>3, <4>1
    <3> QED BY <3>1, <3>2
  <2>5. PICK b : b = Append(at, k)
    OBVIOUS
  <2>6. PICK y \in Around[u] : e = <<y[1], b \o y[2]>>
    <3>1. PICK A : A = Around[u]
      OBVIOUS
    <3>2. e \in From(A, b)
      BY <2>1, <2>2, <2>5, <3>1
    <3>3. \E y \in A : e = <<y[1], b \o y[2]>>
      BY ONLY <3>2 DEF From
    <3> QED BY ONLY <3>1, <3>3
  <2>7. y[2] \in Seq(Nat)
    <3>1. Around[u] \subseteq Id \X Seq(Nat)
      BY <2>4, AroundIs DEF Entries
    <3>2. y \in Id \X Seq(Nat)
      BY <2>6, <3>1
    <3> QED BY ONLY <3>2
  <2>8. PICK r, d : r = y[2] /\ d = b \o r
    OBVIOUS
  <2>9. k \in Nat /\ r \in Seq(Nat)
    BY <2>1, <2>7, <2>8
  <2>10. d[i + 1] = k
    <3>1. \A j \in 1 .. Len(at) + 1 : d[j] = b[j]
      BY ONLY <2>5, <2>8, <2>9, at \in Seq(Nat), Stepped
    <3>2. b[i + 1] = k
      BY <2>5, <2>9
    <3> QED BY <1>1, <3>1, <3>2
  <2>11. e[2] = d
    BY <2>6, <2>8
  <2> QED BY <2>1, <2>10, <2>11
<1>4. CASE s.op = "DFun" /\ \E k \in 1 .. a : e = Arg(s, at, k)
  <2>1. PICK k \in 1 .. a : e = Arg(s, at, k)
    BY <1>4
  <2>2. e[2] = <<at[1], 0, k>> /\ i = 1
    BY <1>4, <2>1 DEF Arg
  <2>3. e[2][i + 1] = 0
    BY <2>2
  <2> QED BY <2>3
<1>5. \/ \E k \in 1 .. p : e \in From(Around[s.kids[k]], Append(at, k))
      \/ s.op = "DFun" /\ \E k \in 1 .. a : e = Arg(s, at, k)
      \/ s.op = "SDecls"
  BY DEF Inside
<1> QED BY <1>2, <1>3, <1>4, <1>5

(* z is not ahead of all of the first m handlers of v.                     *)
NotAhead(z, v, m) == \E j \in 1 .. m : ~ (z[j + 1] > Past(v, NoStm, j))

Stale(c, v, m) == \A i \in DOMAIN c : \A x \in DOMAIN c[i] : NotAhead(c[i][x], v, m)

LEMMA StaleGains ==
  ASSUME NEW b, NEW E, NEW d, Gains(b, E, d), NEW v, NEW m \in Nat, Stale(b, v, m),
         \A e \in E : ~ (e[2][m + 2] > Past(v, NoStm, m + 1))
  PROVE  Stale(d, v, m + 1)
<1>1. PICK n : n = Len(b)
  OBVIOUS
<1>2. /\ IsSeq(b) /\ IsSeq(d) /\ n \in Nat /\ DOMAIN b = 1 .. n /\ DOMAIN d = 1 .. n /\ n \in 1 .. n
      /\ \A i \in 1 .. n : i # n => SameMap(b[i], d[i])
      /\ GainsMap(b[n], E, d[n])
  BY <1>1, SeqIs DEF Gains
<1>3. ASSUME NEW i \in 1 .. n, NEW x \in DOMAIN d[i]
      PROVE  NotAhead(d[i][x], v, m + 1)
  <2>1. CASE x \in DOMAIN b[i] /\ d[i][x] = b[i][x]
    <3>1. NotAhead(d[i][x], v, m)
      BY <1>2, <2>1 DEF Stale
    <3> QED BY <3>1 DEF NotAhead
  <2>2. CASE i = n /\ x \in Names(E)
    <3>1. PICK e \in E : e[1] = x
      BY <2>2 DEF Names
    <3>2. d[i][x] = e[2]
      BY <1>2, <2>2, <3>1 DEF GainsMap
    <3>3. m + 1 \in 1 .. m + 1 /\ m + 1 + 1 = m + 2
      OBVIOUS
    <3> QED BY <3>1, <3>2, <3>3 DEF NotAhead
  <2>3. CASE i # n
    BY <1>2, <2>1, <2>3 DEF SameMap
  <2>4. CASE i = n
    BY <1>2, <2>1, <2>2, <2>4 DEF GainsMap
  <2> QED BY <2>3, <2>4
<1> QED BY <1>2, <1>3 DEF Stale

LEMMA StaleBegun ==
  ASSUME NEW b, IsSeq(b), NEW v, NEW m, Stale(b, v, m), NEW s
  PROVE  Stale(Begun(b, s), v, m)
<1>1. CASE s.op \notin ScopeOps
  BY <1>1 DEF Begun
<1>2. CASE s.op \in ScopeOps
  <2>1. PICK d : d = Append(b, NoMembers)
    OBVIOUS
  <2>2. IsPush(b, NoMembers, d)
    BY <2>1, Push
  <2>3. DOMAIN NoMembers = {}
    BY NoMembersMap
  <2>4. Stale(d, v, m)
    BY <2>2, <2>3 DEF Stale, IsPush
  <2> QED BY <1>2, <2>1, <2>4 DEF Begun
<1> QED BY <1>1, <1>2

AllSeated(v) == \A j \in 1 .. Len(v) : Seated(v[j].stm, Past(v, NoStm, j))

LEMMA Origin ==
  ASSUME NEW F, NEW f, NEW v, NEW a, Arrives(F, f, v, NoStm, a), NEW ch, NEW c, Legs(f, v, NoStm, a, ch, c),
         AllSeated(v), NEW n, n = Len(v)
  PROVE  Stale(c, v, n)
<1>1. n \in Nat /\ n >= 1 /\ f \in Nat /\ a \in Nat /\ Descends(F, v, NoStm)
      /\ \A i \in 1 .. n : v[i].pos \in Nat /\ v[i].stm \in Stm \cup Function /\ (v[i].stm.op = "DFun" <=> i = 1)
  <2>1. f \in Nat /\ a \in Nat /\ Descends(F, v, NoStm)
    BY DEF Arrives
  <2>2. n \in Nat /\ n >= 1 /\ \A i \in 1 .. n : v[i].pos \in Nat /\ v[i].stm \in Stm \cup Function
    BY <2>1, DownFacts
  <2>3. \A i \in 1 .. n : v[i].stm.op = "DFun" <=> i = 1
    BY <2>1 DEF Descends
  <2> QED BY <2>1, <2>2, <2>3
<1>2. PICK Bad : Bad = {j \in 1 .. n + 1 : ~ Stale(ch[j], v, j - 1)}
  OBVIOUS
<1>3. Bad = {}
  <2>1. SUFFICES ASSUME Bad # {} PROVE FALSE
    OBVIOUS
  <2>2. Bad \subseteq Nat
    BY <1>1, <1>2
  <2>3. PICK m \in Bad : \A y \in Bad : m <= y
    BY <2>1, <2>2, NatLeast
  <2>4. m \in 1 .. n + 1 /\ ~ Stale(ch[m], v, m - 1)
    BY <1>2
  <2>5. CASE m = 1
    <3>1. ch[1] = <<NoMembers>>
      BY DEF Legs
    <3>2. \A i \in DOMAIN <<NoMembers>> : DOMAIN <<NoMembers>>[i] = {}
      <4>1. DOMAIN <<NoMembers>> = {1} /\ <<NoMembers>>[1] = NoMembers
        OBVIOUS
      <4> QED BY <4>1, NoMembersMap
    <3>3. Stale(ch[1], v, m - 1)
      BY <3>1, <3>2 DEF Stale
    <3> QED BY <2>4, <2>5, <3>3
  <2>6. CASE m # 1
    <3>1. PICK j : j = m - 1
      OBVIOUS
    <3>2. j \in 1 .. n /\ j + 1 = m /\ j \notin Bad /\ j \in 1 .. n + 1 /\ j - 1 \in Nat /\ j \in Nat /\ j >= 1
      BY <1>1, <2>2, <2>3, <2>4, <2>6, <3>1
    <3>3. Stale(ch[j], v, j - 1)
      BY <1>2, <3>2
    <3>4. PICK s, p, at : s = v[j].stm /\ p = Past(v, NoStm, j) /\ at = Route(f, v, j)
      OBVIOUS
    <3>5. p \in Nat
      <4>1. v[j].pos \in Nat /\ (Inner(v, NoStm, j) => v[j].pos >= 1)
        BY <1>1, <3>2 DEF Descends
      <4> QED BY <3>4, <4>1 DEF Past
    <3>6. at \in Seq(Nat) /\ Len(at) = j
      <4>1. \A i \in 1 .. j - 1 : v[i].pos \in Nat
        BY <1>1, <3>2
      <4>2. f \in Nat /\ j \in Nat /\ j >= 1
        BY <1>1, <3>2
      <4> QED BY ONLY <3>4, <4>1, <4>2, RouteIs
    <3>7. Leg(ch[j], s, at, p, a, ch[m])
      BY <3>2, <3>4 DEF Legs
    <3>8. s \in Stm \cup Function /\ Seated(s, p) /\ (s.op = "DFun" => j = 1)
      BY <1>1, <3>2, <3>4 DEF AllSeated
    <3>9. PICK E : E = Inside(s, at, p, a)
      OBVIOUS
    <3>10. ASSUME NEW e \in E
           PROVE  ~ (e[2][j + 1] > p)
      <4>1. j = Len(at) /\ a \in Nat /\ e \in Inside(s, at, p, a)
        BY <1>1, <3>6, <3>9
      <4> QED BY ONLY <3>2, <3>5, <3>6, <3>8, <4>1, EntryAt
    <3>11. IsSeq(ch[j])
      <4>1. Len(v) \in Nat /\ j \in 1 .. Len(v) + 1
        BY <1>1, <3>2
      <4> QED BY <4>1, LegsAre
    <3>12. PICK b : b = Begun(ch[j], s)
      OBVIOUS
    <3>13. Stale(b, v, j - 1)
      BY <3>3, <3>11, <3>12, StaleBegun
    <3>14. Gains(b, E, ch[m])
      BY <3>7, <3>9, <3>12 DEF Leg
    <3>15. PICK k, d : k = j - 1 /\ d = ch[m]
      OBVIOUS
    <3>16. k \in Nat /\ k + 1 = j /\ k + 2 = j + 1
      BY <3>2, <3>15
    <3>17. \A e \in E : ~ (e[2][k + 2] > Past(v, NoStm, k + 1))
      BY ONLY <3>4, <3>10, <3>16
    <3>18. Stale(d, v, k + 1)
      <4>1. Gains(b, E, d) /\ Stale(b, v, k)
        BY <3>13, <3>14, <3>15
      <4> QED BY ONLY <3>16, <3>17, <4>1, StaleGains
    <3> QED BY <2>4, <3>1, <3>15, <3>16, <3>18
  <2> QED BY <2>5, <2>6
<1>4. n + 1 \in 1 .. n + 1 /\ n + 1 - 1 = n /\ ch[n + 1] = c
  BY <1>1 DEF Legs
<1> QED BY <1>2, <1>3, <1>4

-----------------------------------------------------------------------------
(* The same use in both walks *)

(* The position of the handler when the code generator visits slot k.      *)
Afterwards(s, k) ==
  IF s.op = "SDecls" THEN k
  ELSE IF s.op = "SDoWhile" \/ (s.op = "SFor" /\ k = 3) THEN 1 ELSE 0

Seats(w) == \A j \in 1 .. Len(w) : Seated(w[j].stm, w[j].pos)

Ahead(y, v, n) == \A j \in 1 .. n : y[j + 1] > Past(v, NoStm, j)

(* A place at part k of the statement on top, which is not behind it yet.  *)
LEMMA AheadIs ==
  ASSUME NEW f \in Nat, NEW v, NEW n, n = Len(v), n \in Nat, n >= 1, \A i \in 1 .. n : v[i].pos \in Nat,
         NEW at, at = Route(f, v, n), NEW k \in Nat, k > v[n].pos, NEW r \in Seq(Nat), NEW b, b = Append(at, k),
         NEW y, y = b \/ y = b \o r
  PROVE  Ahead(y, v, n)
<1>1. at \in Seq(Nat) /\ Len(at) = n /\ \A i \in 1 .. n - 1 : at[i + 1] = v[i].pos
  <2>1. \A i \in 1 .. n - 1 : v[i].pos \in Nat
    OBVIOUS
  <2>2. PICK m : m = Route(f, v, n)
    OBVIOUS
  <2>3. /\ Route(f, v, n) \in Seq(Nat) /\ Len(Route(f, v, n)) = n
        /\ \A i \in 1 .. n - 1 : Route(f, v, n)[i + 1] = v[i].pos
    BY ONLY <2>1, f \in Nat, n \in Nat, n >= 1, RouteIs
  <2>4. m \in Seq(Nat) /\ Len(m) = n /\ \A i \in 1 .. n - 1 : m[i + 1] = v[i].pos
    BY ONLY <2>2, <2>3
  <2>5. at = m
    BY ONLY <2>2, at = Route(f, v, n)
  <2> QED BY ONLY <2>4, <2>5
<1>2. b[n + 1] = k /\ (\A j \in 1 .. n : b[j] = at[j]) /\ \A j \in 1 .. n + 1 : (b \o r)[j] = b[j]
  <2>1. PICK d : d = b \o r
    OBVIOUS
  <2>2. /\ Len(at) \in Nat /\ b[Len(at) + 1] = k
        /\ \A j \in 1 .. Len(at) : b[j] = at[j]
        /\ \A j \in 1 .. Len(at) + 1 : d[j] = b[j]
    BY ONLY <1>1, <2>1, k \in Nat, r \in Seq(Nat), b = Append(at, k), Stepped
  <2> QED BY ONLY <1>1, <2>1, <2>2
<1>3. \A j \in 1 .. n + 1 : y[j] = b[j]
  BY <1>2
<1>4. ASSUME NEW j \in 1 .. n
      PROVE  y[j + 1] > Past(v, NoStm, j)
  <2>1. CASE j = n
    <3>1. Past(v, NoStm, j) = v[n].pos
      BY <2>1 DEF Past, Inner
    <3>2. y[j + 1] = k
      <4>1. j + 1 = n + 1 /\ n + 1 \in 1 .. n + 1
        BY <2>1
      <4>2. y[n + 1] = b[n + 1]
        BY ONLY <1>3, <4>1
      <4> QED BY <1>2, <4>1, <4>2
    <3> QED BY <3>1, <3>2
  <2>2. CASE j # n
    <3>1. j < n /\ j + 1 \in 1 .. n /\ j + 1 \in 1 .. n + 1 /\ j \in 1 .. n - 1
      BY <2>2
    <3>2. y[j + 1] = v[j].pos
      BY ONLY <1>1, <1>2, <1>3, <3>1
    <3>3. Past(v, NoStm, j) = v[j].pos - 1 /\ v[j].pos \in Nat
      BY <3>1 DEF Past, Inner
    <3> QED BY <3>2, <3>3
  <2> QED BY <2>1, <2>2
<1> QED BY <1>4 DEF Ahead

(* What is found in a chain is nothing that is ahead of the handlers.      *)
LEMMA FoundBehind ==
  ASSUME NEW c, IsSeq(c), NEW v, NEW n, Stale(c, v, n), NEW x, Holders(c, x) # {}, NEW y, Ahead(y, v, n)
  PROVE  findSymbol(c, x) # y
<1>1. PICK i \in Holders(c, x) : findSymbol(c, x) = c[i][x]
  BY LastHolder
<1>2. NotAhead(c[i][x], v, n)
  BY <1>1 DEF Holders, Stale
<1> QED BY <1>1, <1>2 DEF NotAhead, Ahead

(* Chain d has, beyond c, places that are ahead: it finds the same unless  *)
(* the name is one of those.                                               *)
LEMMA FoundApart ==
  ASSUME NEW c, NEW E, NEW d, Gains(c, E, d), NEW v, NEW n, Stale(c, v, n), \A e \in E : Ahead(e[2], v, n),
         NEW x, Holders(c, x) # {}
  PROVE  findSymbol(d, x) = findSymbol(c, x) <=> x \notin Names(E)
<1>1. IsSeq(c)
  BY DEF Gains
<1>2. CASE x \notin Names(E)
  BY <1>2, FoundGained
<1>3. CASE x \in Names(E)
  <2>1. PICK e \in E : e[1] = x /\ findSymbol(d, x) = e[2]
    BY <1>3, FoundGained
  <2>2. PICK y : y = e[2]
    OBVIOUS
  <2>3. Ahead(y, v, n)
    BY <2>1, <2>2
  <2>4. findSymbol(c, x) # y
    BY <1>1, <2>3, FoundBehind
  <2> QED BY <1>3, <2>1, <2>2, <2>4
<1> QED BY <1>2, <1>3

(* The statement of the use, if both are there.                            *)
Both(v, w, n, k) ==
  /\ Len(v) = n /\ Len(w) = n /\ SamePositions(v, w, n - 1)
  /\ v[n].pos = Before(v[n].stm, k) /\ w[n].pos = Afterwards(w[n].stm, k) /\ Seats(w)

(* An exception: the names that only the code generator has entered.       *)
Early(s, k) ==
  IF s.op = "SDecls" THEN {s.exps[k].name}
  ELSE IF s.op = "SFor" /\ k = 3 THEN Names(Around[s.kids[1]]) ELSE {}

Meet(F, f, v, w, n, k, s, at, ch, c, dh, d) ==
  /\ Arrives(F, f, v, NoStm, Len(F.args)) /\ Legs(f, v, NoStm, Len(F.args), ch, c)
  /\ Arrives(F, f, w, NoStm, Len(F.args)) /\ Legs(f, w, NoStm, Len(F.args), dh, d)
  /\ Both(v, w, n, k) /\ s = v[n].stm /\ s \in Stm /\ k \in Slots(s) /\ k \in Nat /\ at = Route(f, v, n)

LEMMA MeetFacts ==
  ASSUME NEW F, NEW f, NEW v, NEW w, NEW n, NEW k, NEW s, NEW at, NEW ch, NEW c, NEW dh, NEW d,
         Meet(F, f, v, w, n, k, s, at, ch, c, dh, d)
  PROVE  /\ n \in Nat /\ n >= 1 /\ f \in Nat /\ Len(F.args) \in Nat
         /\ \A i \in 1 .. n : v[i].pos \in Nat
         /\ \A i \in 1 .. n : v[i].stm = w[i].stm
         /\ w[n].stm = s /\ Route(f, w, n) = at /\ Alike(ch[n], dh[n])
         /\ Leg(ch[n], s, at, Before(s, k), Len(F.args), c)
         /\ Leg(dh[n], s, at, Afterwards(s, k), Len(F.args), d)
         /\ AllSeated(v)
<1>1. /\ Arrives(F, f, v, NoStm, Len(F.args)) /\ Legs(f, v, NoStm, Len(F.args), ch, c)
      /\ Arrives(F, f, w, NoStm, Len(F.args)) /\ Legs(f, w, NoStm, Len(F.args), dh, d)
      /\ Both(v, w, n, k) /\ s = v[n].stm /\ s \in Stm /\ k \in Slots(s) /\ k \in Nat /\ at = Route(f, v, n)
  BY DEF Meet
<1>2. Len(v) = n /\ Len(w) = n /\ SamePositions(v, w, n - 1) /\ Seats(w)
      /\ v[n].pos = Before(v[n].stm, k) /\ w[n].pos = Afterwards(w[n].stm, k)
  BY <1>1 DEF Both
<1>3. PICK a : a = Len(F.args)
  OBVIOUS
<1>4. a \in Nat /\ f \in Nat /\ Descends(F, v, NoStm) /\ Descends(F, w, NoStm)
  BY <1>1, <1>3 DEF Arrives
<1>5. n \in Nat /\ n >= 1 /\ (\A i \in 1 .. n : v[i].pos \in Nat) /\ \A i \in 1 .. n : w[i].pos \in Nat
  BY <1>2, <1>4, DownFacts
<1>6. /\ \A i \in 1 .. n : v[i].stm = w[i].stm
      /\ Route(f, w, n) = at /\ Alike(ch[n], dh[n])
  <2>1. n \in 1 .. n
    BY <1>5
  <2>2. ASSUME NEW i \in 1 .. n
        PROVE  v[i].stm = w[i].stm /\ Alike(ch[i], dh[i]) /\ Route(f, w, i) = Route(f, v, i)
    <3>1. /\ Arrives(F, f, v, NoStm, a) /\ Legs(f, v, NoStm, a, ch, c)
          /\ Arrives(F, f, w, NoStm, a) /\ Legs(f, w, NoStm, a, dh, d)
      BY <1>1, <1>3
    <3>2. SameWay(v, w, n)
      BY <1>2 DEF SameWay
    <3>3. Agrees(f, v, w, n, ch, dh)
      BY ONLY <3>1, <3>2, LegsAgree
    <3> QED BY <3>3 DEF Agrees
  <2> QED BY <1>1, <2>1, <2>2
<1>7. w[n].stm = s /\ v[n].pos = Before(s, k) /\ w[n].pos = Afterwards(s, k) /\ n \in 1 .. n
  BY <1>1, <1>2, <1>5, <1>6
<1>8. Past(v, NoStm, n) = v[n].pos /\ Past(w, NoStm, n) = w[n].pos
  BY <1>2, <1>5 DEF Past, Inner
<1>9. Leg(ch[n], s, at, Before(s, k), a, c)
  <2>1. Leg(ch[n], v[n].stm, Route(f, v, n), Past(v, NoStm, n), a, ch[n + 1])
    BY <1>1, <1>2, <1>3, <1>7 DEF Legs
  <2>2. ch[n + 1] = c
    BY <1>1, <1>2 DEF Legs
  <2> QED BY <1>1, <1>7, <1>8, <2>1, <2>2
<1>10. Leg(dh[n], s, at, Afterwards(s, k), a, d)
  <2>1. Leg(dh[n], w[n].stm, Route(f, w, n), Past(w, NoStm, n), a, dh[n + 1])
    BY <1>1, <1>2, <1>3, <1>7 DEF Legs
  <2>2. dh[n + 1] = d
    BY <1>1, <1>2 DEF Legs
  <2> QED BY <1>6, <1>7, <1>8, <2>1, <2>2
<1>11. ASSUME NEW j \in 1 .. Len(v)
       PROVE  Seated(v[j].stm, Past(v, NoStm, j))
  <2>1. j \in 1 .. n /\ v[j].stm = w[j].stm /\ v[j].pos \in Nat /\ w[j].pos \in Nat
    BY <1>2, <1>5, <1>6
  <2>2. Past(v, NoStm, j) <= w[j].pos /\ Past(v, NoStm, j) \in Int
    <3>1. CASE j = n
      <4>1. k = 0 \/ k >= 1
        BY <1>1
      <4>2. Before(s, k) <= Afterwards(s, k) /\ Before(s, k) \in Int
        BY <1>1, <4>1 DEF Before, Afterwards
      <4> QED BY <1>7, <1>8, <3>1, <4>2
    <3>2. CASE j # n
      <4>1. j \in 1 .. n - 1 /\ j < n
        BY <1>5, <2>1, <3>2
      <4>2. w[j].pos = v[j].pos
        BY <1>2, <4>1 DEF SamePositions
      <4>3. Past(v, NoStm, j) = v[j].pos - 1
        BY <1>2, <4>1 DEF Past, Inner
      <4> QED BY <2>1, <4>2, <4>3
    <3> QED BY <3>1, <3>2
  <2>3. Seated(w[j].stm, w[j].pos)
    BY <1>2, <2>1 DEF Seats
  <2>4. 1 .. Past(v, NoStm, j) \subseteq 1 .. w[j].pos
    BY <2>1, <2>2
  <2> QED BY <2>1, <2>3, <2>4 DEF Seated
<1>12. AllSeated(v)
  BY <1>11 DEF AllSeated
<1> QED BY <1>1, <1>3, <1>4, <1>5, <1>6, <1>7, <1>9, <1>10, <1>12

(* The code generator finds the declaration that the typechecker found,    *)
(* but for a name that only it has entered yet.                            *)
LEMMA MeetFinds ==
  ASSUME NEW F, NEW f, NEW v, NEW w, NEW n, NEW k, NEW s, NEW at, NEW ch, NEW c, NEW dh, NEW d,
         Meet(F, f, v, w, n, k, s, at, ch, c, dh, d), NEW x, Holders(c, x) # {}
  PROVE  findSymbol(d, x) = findSymbol(c, x) <=> x \notin Early(s, k)
<1>1. /\ n \in Nat /\ n >= 1 /\ f \in Nat /\ Len(F.args) \in Nat
      /\ \A i \in 1 .. n : v[i].pos \in Nat
      /\ Alike(ch[n], dh[n])
      /\ Leg(ch[n], s, at, Before(s, k), Len(F.args), c)
      /\ Leg(dh[n], s, at, Afterwards(s, k), Len(F.args), d)
      /\ AllSeated(v)
  BY MeetFacts
<1>2. /\ Arrives(F, f, v, NoStm, Len(F.args)) /\ Legs(f, v, NoStm, Len(F.args), ch, c)
      /\ Both(v, w, n, k) /\ s = v[n].stm /\ s \in Stm /\ k \in Slots(s) /\ k \in Nat /\ at = Route(f, v, n)
  BY DEF Meet
<1>3. Len(v) = n /\ v[n].pos = Before(s, k)
  BY <1>2 DEF Both
<1>4. PICK a, b, b2 : a = Len(F.args) /\ b = Begun(ch[n], s) /\ b2 = Begun(dh[n], s)
  OBVIOUS
<1>5. PICK X, Y, p, q : /\ X = Inside(s, at, p, a) /\ Y = Inside(s, at, q, a)
                        /\ p = Before(s, k) /\ q = Afterwards(s, k)
  OBVIOUS
<1>6. Alike(b, b2) /\ Gains(b, X, c) /\ Gains(b2, Y, d)
  BY <1>1, <1>4, <1>5, BegunAlike DEF Leg
<1>7. Stale(c, v, n)
  <2>1. Arrives(F, f, v, NoStm, a) /\ Legs(f, v, NoStm, a, ch, c) /\ AllSeated(v) /\ n = Len(v)
    BY <1>1, <1>2, <1>3, <1>4
  <2> QED BY ONLY <2>1, Origin
<1>8. CASE p = q /\ Early(s, k) = {}
  <2>1. Gains(b2, X, d)
    BY <1>5, <1>6, <1>8
  <2>2. Alike(c, d)
    BY ONLY <1>6, <2>1, GainsOnce
  <2>3. findSymbol(d, x) = findSymbol(c, x)
    BY ONLY <2>2, FoundAlike
  <2> QED BY <1>8, <2>3
<1>9. ASSUME NEW E, Y = X \cup E, NEW m \in Nat, m > p,
             \A e \in E : \E r \in Seq(Nat) : e[2] = Append(at, m) \/ e[2] = Append(at, m) \o r
      PROVE  findSymbol(d, x) = findSymbol(c, x) <=> x \notin Names(E)
  <2>1. Gains(c, E, d)
    BY ONLY <1>6, <1>9, GainsMore
  <2>2. ASSUME NEW e \in E
        PROVE  Ahead(e[2], v, n)
    <3>1. PICK r \in Seq(Nat) : e[2] = Append(at, m) \/ e[2] = Append(at, m) \o r
      BY <1>9
    <3>2. PICK y, g : y = e[2] /\ g = Append(at, m)
      OBVIOUS
    <3>3. y = g \/ y = g \o r
      BY <3>1, <3>2
    <3>4. n = Len(v) /\ m > v[n].pos /\ r \in Seq(Nat) /\ m \in Nat
      BY <1>3, <1>5, <1>9
    <3>5. Ahead(y, v, n)
      BY ONLY <1>1, <1>2, <3>2, <3>3, <3>4, AheadIs
    <3> QED BY <3>2, <3>5
  <2> QED BY ONLY <1>7, <2>1, <2>2, Holders(c, x) # {}, FoundApart
<1>10. CASE s.op = "SDecls"
  <2>1. k \in DOMAIN s.exps /\ k \in 1 .. Len(s.exps)
    <3>1. k \in DOMAIN s.exps
      BY <1>2, <1>10 DEF Slots, Variables
    <3>2. s.exps \in Seq(IdIn)
      BY <1>2, <1>10, StmParts
    <3> QED BY <3>1, <3>2
  <2>2. p = k - 1 /\ q = k /\ p \in Nat /\ q = p + 1
    BY <1>5, <1>10, <2>1 DEF Before, Afterwards
  <2>3. PICK E : E = {<<s.exps[k].name, Append(at, k)>>}
    OBVIOUS
  <2>4. Y = X \cup E
    <3>1. Inside(s, at, p + 1, a) = Inside(s, at, p, a) \cup {<<s.exps[p + 1].name, Append(at, p + 1)>>}
      <4>1. p \in Nat /\ s.op = "SDecls"
        BY <1>10, <2>2
      <4>2. DeclNext(s, at, p, a)
        BY ONLY <4>1, InsideDecl
      <4> QED BY <4>2 DEF DeclNext
    <3> QED BY ONLY <1>5, <2>2, <2>3, <3>1
  <2>5. \A e \in E : e[2] = Append(at, k)
    BY <2>3
  <2>6. \A e \in E : \E r \in Seq(Nat) : e[2] = Append(at, k) \/ e[2] = Append(at, k) \o r
    <3>1. <<>> \in Seq(Nat)
      OBVIOUS
    <3> QED BY <2>5, <3>1
  <2>7. k \in Nat /\ k > p
    BY <1>2, <2>2
  <2>8. findSymbol(d, x) = findSymbol(c, x) <=> x \notin Names(E)
    BY ONLY <1>9, <2>4, <2>6, <2>7
  <2>9. Names(E) = {s.exps[k].name}
    BY <2>3 DEF Names
  <2> QED BY <1>10, <2>8, <2>9 DEF Early
<1>11. CASE s.op = "SFor" /\ k = 3
  <2>1. p = 0 /\ q = 1 /\ DOMAIN s.kids = 1 .. 1
    BY <1>2, <1>5, <1>11, StmKids DEF Before, Afterwards
  <2>2. PICK u : u = s.kids[1]
    OBVIOUS
  <2>3. u \in Stm /\ Around[u] \in Entries
    <3>1. 1 \in DOMAIN s.kids
      BY <2>1
    <3>2. u \in Stm
      BY <1>2, <1>11, <2>2, <3>1, StmKids
    <3> QED BY <3>2, AroundIs
  <2>4. PICK A, g : A = Around[u] /\ g = Append(at, 1)
    OBVIOUS
  <2>5. PICK E : E = From(A, g)
    OBVIOUS
  <2>6. Y = X \cup E
    <3>1. 0 \in Nat /\ 0 + 1 = 1 /\ s.op # "SDecls"
      BY <1>11
    <3>2. PICK z, m : z = 0 /\ m = 1
      OBVIOUS
    <3>3. z \in Nat /\ m = z + 1 /\ s.op # "SDecls"
      BY <3>1, <3>2
    <3>4. Inside(s, at, m, a) = Inside(s, at, z, a) \cup From(Around[s.kids[m]], Append(at, m))
      BY ONLY <3>3, InsideNext
    <3> QED BY ONLY <1>5, <2>1, <2>2, <2>4, <2>5, <3>2, <3>4
  <2>7. \A e \in E : \E r \in Seq(Nat) : e[2] = Append(at, 1) \/ e[2] = Append(at, 1) \o r
    <3>1. SUFFICES ASSUME NEW e \in E PROVE \E r \in Seq(Nat) : e[2] = Append(at, 1) \o r
      OBVIOUS
    <3>2. PICK y \in A : e = <<y[1], g \o y[2]>>
      BY ONLY <2>5, e \in E DEF From
    <3>3. y \in Id \X Seq(Nat)
      BY <2>3, <2>4, <3>2 DEF Entries
    <3>4. y[2] \in Seq(Nat)
      BY ONLY <3>3
    <3> QED BY <2>4, <3>2, <3>4
  <2>8. 1 \in Nat /\ 1 > p
    BY <2>1
  <2>9. findSymbol(d, x) = findSymbol(c, x) <=> x \notin Names(E)
    BY ONLY <1>9, <2>6, <2>7, <2>8
  <2>10. Names(E) = Names(A)
    <3>1. ASSUME NEW z
          PROVE  z \in Names(E) <=> z \in Names(A)
      <4>1. z \in Names(E) <=> \E e \in E : e[1] = z
        BY DEF Names
      <4>2. ASSUME NEW e \in E, e[1] = z
            PROVE  \E y \in A : y[1] = z
        <5>1. PICK y \in A : e = <<y[1], g \o y[2]>>
          BY ONLY <2>5, e \in E DEF From
        <5> QED BY ONLY <4>2, <5>1
      <4>3. ASSUME NEW y \in A, y[1] = z
            PROVE  \E e \in E : e[1] = z
        <5>1. PICK e : e = <<y[1], g \o y[2]>>
          OBVIOUS
        <5>2. e \in E
          BY ONLY <2>5, <5>1, y \in A DEF From
        <5> QED BY ONLY <4>3, <5>1, <5>2
      <4> QED BY <4>1, <4>2, <4>3 DEF Names
    <3> QED BY <3>1
  <2> QED BY <1>11, <2>2, <2>4, <2>9, <2>10 DEF Early
<1>12. CASE s.op # "SDecls" /\ ~ (s.op = "SFor" /\ k = 3)
  <2>1. p = q /\ Early(s, k) = {}
    BY <1>5, <1>12 DEF Before, Afterwards, Early
  <2> QED BY <1>8, <2>1
<1> QED BY <1>10, <1>11, <1>12

-----------------------------------------------------------------------------
(* The statement at a place *)

Depths(u) == 1 .. (IF u[2] = 0 THEN 1 ELSE Len(u) - 1)

(* The way, the statement and the exceptions of CodeGenScope, of program P. *)
WayTo(P, h, u) == h = [i \in Depths(u) |-> IF i = 1 THEN P[u[1]] ELSE h[i - 1].kids[u[i]]]

WayIn(P, u) == CHOOSE h : WayTo(P, h, u)

StatementIn(P, u) == WayIn(P, u)[Len(u) - 1]

NamedAt(s, k) == Slot(s, k).name \in Early(s, k)

Exempt(P, u) == NamedAt(StatementIn(P, u), u[Len(u)])

LEMMA ExemptIs ==
  ASSUME NEW u
  PROVE  Exempt(program, u) <=> SelfInitialised(u) \/ SteppedByBody(u)
<1>1. StatementAt(u) = StatementIn(program, u)
  BY DEF StatementAt, StatementIn, Way, WayIn, WayTo, Depths
<1>2. PICK s, k, x : s = StatementAt(u) /\ k = u[Len(u)] /\ x = Slot(s, k).name
  OBVIOUS
<1>3. NameAt(u) = x
  BY <1>2 DEF NameAt
<1>4. SelfInitialised(u) <=> s.op = "SDecls" /\ s.exps[k].name = x
  BY <1>2, <1>3 DEF SelfInitialised
<1>5. SteppedByBody(u) <=> s.op = "SFor" /\ k = 3 /\ x \in Names(Around[s.kids[1]])
  BY <1>2, <1>3 DEF SteppedByBody, Names
<1>6. Exempt(program, u) <=> x \in Early(s, k)
  BY <1>1, <1>2 DEF Exempt, NamedAt
<1>7. CASE s.op = "SDecls"
  BY <1>4, <1>5, <1>6, <1>7 DEF Early
<1>8. CASE s.op # "SDecls"
  BY <1>4, <1>5, <1>6, <1>8 DEF Early
<1> QED BY <1>7, <1>8

LEMMA WayIs ==
  ASSUME NEW P, NEW u, NEW n \in Nat, Depths(u) = 1 .. n, NEW h, WayTo(P, h, u)
  PROVE  \A i \in 1 .. n : WayIn(P, u)[i] = h[i]
<1>1. WayTo(P, WayIn(P, u), u)
  BY DEF WayIn
<1>2. PICK g : g = WayIn(P, u)
  OBVIOUS
<1>3. PICK D : D = Depths(u)
  OBVIOUS
<1>4. /\ \A i \in D : g[i] = IF i = 1 THEN P[u[1]] ELSE g[i - 1].kids[u[i]]
      /\ \A i \in D : h[i] = IF i = 1 THEN P[u[1]] ELSE h[i - 1].kids[u[i]]
  BY <1>1, <1>2, <1>3 DEF WayTo
<1>5. PICK Bad : Bad = {i \in 1 .. n : g[i] # h[i]}
  OBVIOUS
<1>6. Bad = {}
  <2>1. SUFFICES ASSUME Bad # {} PROVE FALSE
    OBVIOUS
  <2>2. Bad \subseteq Nat
    BY <1>5
  <2>3. PICK m \in Bad : \A y \in Bad : m <= y
    BY <2>1, <2>2, NatLeast
  <2>4. m \in 1 .. n /\ g[m] # h[m] /\ m \in D
    BY <1>3, <1>5
  <2>5. m # 1
    BY <1>4, <2>4
  <2>6. PICK j : j = m - 1
    OBVIOUS
  <2>7. j \notin Bad /\ j \in 1 .. n
    BY <2>2, <2>3, <2>4, <2>5, <2>6
  <2>8. g[j] = h[j]
    BY <1>5, <2>7
  <2>9. g[m] = g[j].kids[u[m]] /\ h[m] = h[j].kids[u[m]]
    BY <1>4, <2>4, <2>5, <2>6
  <2> QED BY <2>4, <2>8, <2>9
<1> QED BY <1>2, <1>5, <1>6

UseOf(P, F, f, v, n, k, u) ==
  P[f] = F /\ n = Len(v) /\ n > 1 /\ k \in Nat /\ u = Append(Route(f, v, n), k)

(* That of a use is where the handlers are.                                *)
LEMMA StatementIs ==
  ASSUME NEW P, NEW F, NEW f, NEW v, NEW a, Arrives(F, f, v, NoStm, a),
         NEW n, NEW k, NEW u, UseOf(P, F, f, v, n, k, u)
  PROVE  StatementIn(P, u) = v[n].stm /\ u[1] = f /\ u[Len(u)] = k
<1> SUFFICES ASSUME P[f] = F, n = Len(v), n > 1, k \in Nat, u = Append(Route(f, v, n), k)
             PROVE  StatementIn(P, u) = v[n].stm /\ u[1] = f /\ u[Len(u)] = k
  BY DEF UseOf
<1>1. f \in Nat /\ Descends(F, v, NoStm)
  BY DEF Arrives
<1>2. n \in Nat /\ n >= 1 /\ \A i \in 1 .. n : v[i].pos \in Nat
  BY <1>1, DownFacts
<1>3. v[1].stm = F /\ \A i \in 1 .. n - 1 : v[i].pos >= 1 /\ v[i + 1].stm = v[i].stm.kids[v[i].pos]
  <2>1. v[1].stm = F
    BY <1>1 DEF Descends
  <2>2. ASSUME NEW i \in 1 .. n - 1
        PROVE  v[i].pos >= 1 /\ v[i + 1].stm = v[i].stm.kids[v[i].pos]
    <3>1. i \in 1 .. Len(v) /\ i < Len(v)
      BY <1>2
    <3>2. Inner(v, NoStm, i) /\ Sub(v, NoStm, i) = v[i + 1].stm
      BY <3>1 DEF Inner, Sub
    <3> QED BY <1>1, <3>1, <3>2 DEF Descends
  <2> QED BY <2>1, <2>2
<1>4. PICK at : at = Route(f, v, n)
  OBVIOUS
<1>5. at \in Seq(Nat) /\ Len(at) = n /\ at[1] = f /\ \A i \in 1 .. n - 1 : at[i + 1] = v[i].pos
  <2>1. \A i \in 1 .. n - 1 : v[i].pos \in Nat
    BY <1>2
  <2>2. f \in Nat /\ n \in Nat /\ n >= 1
    BY <1>1, <1>2
  <2> QED BY ONLY <1>4, <2>1, <2>2, RouteIs
<1>6. /\ u \in Seq(Nat) /\ Len(u) = n + 1 /\ u[n + 1] = k /\ u[1] = f
      /\ \A i \in 1 .. n : u[i] = at[i]
  BY <1>2, <1>4, <1>5
<1>7. \A i \in 1 .. n : i # 1 => u[i] = v[i - 1].pos
  <2>1. SUFFICES ASSUME NEW i \in 1 .. n, i # 1 PROVE u[i] = v[i - 1].pos
    OBVIOUS
  <2>2. PICK j : j = i - 1
    OBVIOUS
  <2>3. j \in 1 .. n - 1 /\ j + 1 = i
    BY <1>2, <2>1, <2>2
  <2>4. at[j + 1] = v[j].pos
    BY <1>5, <2>3
  <2> QED BY <1>6, <2>1, <2>2, <2>3, <2>4
<1>8. u[2] # 0
  <2>1. 2 \in 1 .. n /\ 1 \in 1 .. n - 1
    BY <1>2
  <2>2. u[2] = v[1].pos
    <3>1. 2 - 1 = 1 /\ 2 # 1
      OBVIOUS
    <3>2. u[2] = v[2 - 1].pos
      BY ONLY <1>7, <2>1, <3>1
    <3> QED BY <3>1, <3>2
  <2> QED BY <1>2, <1>3, <2>1, <2>2
<1>9. Depths(u) = 1 .. n
  BY <1>2, <1>6, <1>8 DEF Depths
<1>10. PICK h : h = [i \in 1 .. n |-> v[i].stm]
  OBVIOUS
<1>11. ASSUME NEW i \in 1 .. n
       PROVE  h[i] = IF i = 1 THEN P[u[1]] ELSE h[i - 1].kids[u[i]]
  <2>1. CASE i = 1
    BY <1>3, <1>6, <1>10, <2>1
  <2>2. CASE i # 1
    <3>1. PICK j : j = i - 1
      OBVIOUS
    <3>2. j \in 1 .. n - 1 /\ j + 1 = i /\ j \in 1 .. n
      BY <1>2, <2>2, <3>1
    <3>3. v[i].stm = v[j].stm.kids[v[j].pos] /\ u[i] = v[j].pos
      BY <1>3, <1>7, <2>2, <3>1, <3>2
    <3> QED BY <1>10, <2>2, <3>1, <3>2, <3>3
  <2> QED BY <2>1, <2>2
<1>12. WayTo(P, h, u)
  <2>1. h = [i \in 1 .. n |-> IF i = 1 THEN P[u[1]] ELSE h[i - 1].kids[u[i]]]
    BY <1>10, <1>11
  <2> QED BY <1>9, <2>1 DEF WayTo
<1>13. WayIn(P, u)[n] = h[n]
  <2>1. \A i \in 1 .. n : WayIn(P, u)[i] = h[i]
    BY <1>2, <1>9, <1>12, WayIs
  <2> QED BY <1>2, <2>1
<1>14. StatementIn(P, u) = v[n].stm
  BY <1>2, <1>6, <1>10, <1>13 DEF StatementIn
<1> QED BY <1>2, <1>6, <1>14 DEF IsPlace

-----------------------------------------------------------------------------
(* The places of the allocas that the CodeGenContexts hold *)

PlaceMap(m) == [x \in DOMAIN m |-> m[x].place]

PlacesOf(c) == [i \in DOMAIN c |-> PlaceMap(c[i])]

ArePlaces(c, k) ==
  /\ IsSeq(c) /\ IsSeq(k) /\ Len(k) = Len(c) /\ Len(c) \in Nat
  /\ DOMAIN c = 1 .. Len(c) /\ \A i \in 1 .. Len(c) : k[i] = PlaceMap(c[i])

LEMMA PlacesAre ==
  ASSUME NEW c, IsSeq(c), NEW k, k = PlacesOf(c)
  PROVE  ArePlaces(c, k)
<1>1. Len(c) \in Nat /\ DOMAIN c = 1 .. Len(c)
  BY SeqIs
<1>2. k = [i \in 1 .. Len(c) |-> PlaceMap(c[i])]
  BY <1>1 DEF PlacesOf
<1>3. k = [i \in 1 .. Len(c) |-> k[i]]
  BY <1>2
<1>4. IsSeq(k) /\ Len(k) = Len(c)
  BY <1>1, <1>3, SeqOf
<1>5. \A i \in 1 .. Len(c) : k[i] = PlaceMap(c[i])
  BY <1>2
<1> QED BY <1>1, <1>4, <1>5 DEF ArePlaces

LEMMA PlacesSelf ==
  ASSUME NEW c, IsSeq(c), Len(c) >= 1, NEW k, k = PlacesOf(c)
  PROVE  Alike(k, k)
<1>1. IsSeq(k) /\ Len(k) = Len(c)
  BY PlacesAre DEF ArePlaces
<1> QED BY <1>1, AlikeSelf

LEMMA PlacesOpen ==
  ASSUME NEW c, IsSeq(c), Len(c) >= 1, NEW d, d = Append(c, NoMembers),
         NEW k, k = PlacesOf(c), NEW l, l = PlacesOf(d)
  PROVE  Alike(Append(k, NoMembers), l)
<1>1. ArePlaces(c, k)
  BY PlacesAre
<1>2. IsPush(c, NoMembers, d)
  BY Push
<1>3. ArePlaces(d, l)
  BY <1>2, PlacesAre DEF IsPush
<1>4. PICK t : t = Append(k, NoMembers)
  OBVIOUS
<1>5. IsPush(k, NoMembers, t)
  BY <1>1, <1>4, Push DEF ArePlaces
<1>6. PICK n, m : n = Len(c) /\ m = n + 1
  OBVIOUS
<1>7. /\ n \in Nat /\ n >= 1 /\ IsSeq(t) /\ IsSeq(l) /\ Len(t) = m /\ Len(l) = m /\ m >= 1
      /\ d[m] = NoMembers /\ t[m] = NoMembers /\ \A i \in 1 .. n : d[i] = c[i] /\ t[i] = k[i]
      /\ Len(d) = m
  BY <1>1, <1>2, <1>3, <1>5, <1>6 DEF ArePlaces, IsPush
<1>8. \A i \in 1 .. m : i = m \/ i \in 1 .. n
  BY <1>6, <1>7
<1>9. \A i \in 1 .. m : l[i] = PlaceMap(d[i])
  BY <1>3, <1>7 DEF ArePlaces
<1>10. ASSUME NEW i \in 1 .. m PROVE SameMap(t[i], l[i])
  <2>1. CASE i = m
    <3>1. l[i] = PlaceMap(NoMembers) /\ t[i] = NoMembers
      BY <1>7, <1>9, <2>1
    <3>2. DOMAIN PlaceMap(NoMembers) = {} /\ DOMAIN NoMembers = {}
      BY NoMembersMap DEF PlaceMap
    <3> QED BY <3>1, <3>2 DEF SameMap
  <2>2. CASE i \in 1 .. n
    <3>1. l[i] = PlaceMap(c[i]) /\ k[i] = PlaceMap(c[i]) /\ t[i] = k[i]
      BY <1>1, <1>6, <1>7, <1>9, <2>2 DEF ArePlaces
    <3> QED BY <3>1 DEF SameMap
  <2> QED BY <1>8, <2>1, <2>2
<1>11. Alike(t, l)
  BY <1>7, <1>10 DEF Alike
<1> QED BY <1>4, <1>11

LEMMA PlacesClose ==
  ASSUME NEW c, IsSeq(c), Len(c) > 1, NEW d, d = SubSeq(c, 1, Len(c) - 1),
         NEW k, k = PlacesOf(c), NEW l, l = PlacesOf(d)
  PROVE  Alike(SubSeq(k, 1, Len(k) - 1), l)
<1>1. ArePlaces(c, k)
  BY PlacesAre
<1>2. c # <<>> /\ k # <<>>
  BY <1>1 DEF ArePlaces
<1>3. IsPop(c, d)
  BY <1>2, PopSeq
<1>4. ArePlaces(d, l)
  BY <1>3, PlacesAre DEF IsPop
<1>5. PICK t : t = SubSeq(k, 1, Len(k) - 1)
  OBVIOUS
<1>6. IsPop(k, t)
  BY <1>1, <1>2, <1>5, PopSeq DEF ArePlaces
<1>7. PICK n, m : n = Len(c) /\ m = n - 1
  OBVIOUS
<1>8. /\ n \in Nat /\ m >= 1 /\ IsSeq(t) /\ IsSeq(l) /\ Len(t) = m /\ Len(l) = m /\ Len(d) = m
      /\ \A i \in 1 .. m : d[i] = c[i] /\ t[i] = k[i]
  <2>1. n \in Nat /\ n > 1 /\ IsSeq(l) /\ Len(d) = m /\ Len(l) = m /\ Len(k) = n
    BY <1>1, <1>3, <1>4, <1>7 DEF ArePlaces, IsPop
  <2>2. IsSeq(t) /\ Len(t) = m /\ \A i \in 1 .. m : t[i] = k[i]
    BY <1>6, <1>7, <2>1 DEF IsPop
  <2>3. \A i \in 1 .. m : d[i] = c[i]
    BY <1>3, <1>7 DEF IsPop
  <2>4. m >= 1
    BY <1>7, <2>1
  <2> QED BY <2>1, <2>2, <2>3, <2>4
<1>9. ASSUME NEW i \in 1 .. m PROVE SameMap(t[i], l[i])
  <2>1. i \in 1 .. n
    BY <1>7, <1>8
  <2>2. l[i] = PlaceMap(d[i]) /\ k[i] = PlaceMap(c[i])
    BY <1>1, <1>4, <1>7, <1>8, <2>1 DEF ArePlaces
  <2> QED BY <1>8, <2>2 DEF SameMap
<1>10. Alike(t, l)
  BY <1>8, <1>9 DEF Alike
<1> QED BY <1>5, <1>10

LEMMA PlacesAdd ==
  ASSUME NEW c, IsSeq(c), Len(c) >= 1, NEW x, x \notin DOMAIN c[Len(c)], NEW p, NEW t,
         NEW d, d = [c EXCEPT ![Len(c)] = Emplace(@, x, Symbol(p, t))],
         NEW k, k = PlacesOf(c), NEW l, l = PlacesOf(d)
  PROVE  Gains(k, {<<x, p>>}, l)
<1>1. PICK n, m : n = Len(c) /\ m = Emplace(c[n], x, Symbol(p, t))
  OBVIOUS
<1>2. ArePlaces(c, k)
  BY PlacesAre
<1>3. d = Updated(c, n, m)
  BY <1>1 DEF Updated
<1>4. IsSeq(d) /\ Len(d) = n /\ d[n] = m /\ \A i \in 1 .. n : i # n => d[i] = c[i]
  <2>1. IsSeq(c) /\ n = Len(c) /\ n >= 1
    BY <1>1
  <2> QED BY ONLY <1>3, <2>1, UpdatedSeq
<1>5. ArePlaces(d, l)
  BY <1>4, PlacesAre
<1>6. /\ n \in Nat /\ n \in 1 .. n /\ IsSeq(k) /\ IsSeq(l) /\ Len(k) = n /\ Len(l) = n
      /\ \A i \in 1 .. n : k[i] = PlaceMap(c[i]) /\ l[i] = PlaceMap(d[i])
  <2>1. n \in Nat /\ IsSeq(k) /\ Len(k) = n /\ \A i \in 1 .. n : k[i] = PlaceMap(c[i])
    BY <1>1, <1>2 DEF ArePlaces
  <2>2. IsSeq(l) /\ Len(l) = n /\ \A i \in 1 .. n : l[i] = PlaceMap(d[i])
    BY <1>4, <1>5 DEF ArePlaces
  <2>3. n \in 1 .. n
    BY <1>1, <2>1
  <2> QED BY <2>1, <2>2, <2>3
<1>7. \A i \in 1 .. n : i # n => SameMap(k[i], l[i])
  <2>1. ASSUME NEW i \in 1 .. n, i # n PROVE SameMap(k[i], l[i])
    <3>1. PICK o : o = c[i]
      OBVIOUS
    <3>2. d[i] = o
      BY <1>4, <2>1, <3>1
    <3>3. k[i] = PlaceMap(o) /\ l[i] = PlaceMap(o)
      BY <1>6, <3>1, <3>2
    <3> QED BY <3>3 DEF SameMap
  <2> QED BY <2>1
<1>8. PICK b, e, E : b = k[n] /\ e = l[n] /\ E = {<<x, p>>}
  OBVIOUS
<1>9. b = PlaceMap(c[n]) /\ e = PlaceMap(m)
  BY <1>4, <1>6, <1>8
<1>10. /\ DOMAIN b = DOMAIN c[n] /\ DOMAIN e = DOMAIN c[n] \cup {x} /\ DOMAIN m = DOMAIN e
       /\ \A y \in DOMAIN c[n] : b[y] = c[n][y].place /\ m[y] = c[n][y]
       /\ \A y \in DOMAIN e : e[y] = m[y].place
  BY <1>1, <1>9 DEF PlaceMap, Emplace
<1>11. m[x] = Symbol(p, t)
  BY <1>1 DEF Emplace
<1>12. e[x] = p
  BY <1>10, <1>11 DEF Symbol
<1>13. Names(E) = {x}
  BY <1>8 DEF Names
<1>14. GainsMap(b, E, e)
  <2>1. \A z \in E : e[z[1]] = z[2]
    BY <1>8, <1>12
  <2> QED BY <1>10, <1>13, <2>1 DEF GainsMap
<1> QED BY <1>1, <1>6, <1>7, <1>8, <1>14 DEF Gains

(* A variable that is found is loaded from the alloca at the place found.  *)
LEMMA PlacesFind ==
  ASSUME NEW c, IsSeq(c), NEW x, Lookup(c, x) # NotFound, NEW k, k = PlacesOf(c)
  PROVE  Lookup(c, x).place = findSymbol(k, x)
<1>1. Holders(c, x) # {} /\ Lookup(c, x) = findSymbol(c, x)
  BY DEF Lookup
<1>2. ArePlaces(c, k)
  BY PlacesAre
<1>3. PICK i \in Holders(c, x) : (\A j \in Holders(c, x) : j <= i) /\ findSymbol(c, x) = c[i][x]
  BY <1>1, LastHolder
<1>4. IsSeq(k) /\ DOMAIN k = DOMAIN c /\ \A j \in DOMAIN c : k[j] = PlaceMap(c[j])
  BY <1>2, SeqIs DEF ArePlaces
<1>5. Holders(k, x) = Holders(c, x)
  BY <1>4 DEF Holders, PlaceMap
<1>6. findSymbol(k, x) = k[i][x]
  BY <1>3, <1>4, <1>5, FoundLast
<1>7. i \in DOMAIN c /\ x \in DOMAIN c[i]
  BY <1>3 DEF Holders
<1>8. k[i][x] = c[i][x].place
  BY <1>4, <1>7 DEF PlaceMap
<1> QED BY <1>1, <1>3, <1>6, <1>8

-----------------------------------------------------------------------------
(* The code generator's handlers are where the typechecker noted all uses  *)

(* The uses of the statements on the way are in T, and the handlers are at *)
(* parts that are there.                                                   *)
Secure(T, f, fr, nd) ==
  /\ \A i \in 1 .. Len(fr) : Covered(fr[i].stm, Route(f, fr, i), T) /\ Seated(fr[i].stm, fr[i].pos)
  /\ nd # NoStm => Covered(nd, Route(f, fr, Len(fr) + 1), T)

LEMMA SecureLeaf ==
  ASSUME NEW T, NEW f, NEW fr, NEW nd, Secure(T, f, fr, nd)
  PROVE  Secure(T, f, fr, NoStm)
  BY DEF Secure

(* All but handler n are as they were.                                     *)
LEMMA SecureTo ==
  ASSUME NEW T, NEW f, NEW fr, NEW nd, Secure(T, f, fr, nd), NEW g, NEW nd2, NEW n, n = Len(g), n \in Nat, n >= 1,
         Len(fr) \in Nat, n <= Len(fr) + 1, \A i \in 1 .. n - 1 : g[i] = fr[i],
         NEW s, s = g[n].stm, NEW at, at = Route(f, fr, n), Covered(s, at, T),
         Seated(s, g[n].pos), NEW b, b = Route(f, g, n + 1), nd2 # NoStm => Covered(nd2, b, T)
  PROVE  Secure(T, f, g, nd2)
<1>1. Route(f, g, n) = at
  BY RouteSame
<1>2. ASSUME NEW i \in 1 .. n
      PROVE  Covered(g[i].stm, Route(f, g, i), T) /\ Seated(g[i].stm, g[i].pos)
  <2>1. CASE i = n
    BY <1>1, <2>1
  <2>2. CASE i # n
    <3>1. i \in 1 .. Len(fr) /\ i \in 1 .. n - 1
      BY <2>2
    <3>2. g[i] = fr[i]
      BY <3>1
    <3>3. Route(f, g, i) = Route(f, fr, i)
      <4>1. \A j \in 1 .. i - 1 : j \in 1 .. n - 1
        BY <3>1
      <4>2. \A j \in 1 .. i - 1 : g[j].pos = fr[j].pos
        BY <4>1
      <4> QED BY ONLY <4>2, RouteSame
    <3>4. Covered(fr[i].stm, Route(f, fr, i), T) /\ Seated(fr[i].stm, fr[i].pos)
      BY <3>1 DEF Secure
    <3> QED BY <3>2, <3>3, <3>4
  <2> QED BY <2>1, <2>2
<1> QED BY <1>2 DEF Secure

(* The two together.                                                       *)
Steady(F, f, fr, nd, a, e, T) == Track(F, f, fr, nd, a, e) /\ Secure(T, f, fr, nd)

LEMMA SteadyAlike ==
  ASSUME NEW F, NEW f, NEW fr, NEW nd, NEW a, NEW e, NEW T, Steady(F, f, fr, nd, a, e, T),
         NEW e2, Alike(e, e2)
  PROVE  Steady(F, f, fr, nd, a, e2, T)
  BY TrackAlike DEF Steady

LEMMA SteadyLeaf ==
  ASSUME NEW F, NEW f, NEW fr, NEW nd, NEW a, NEW e, NEW T, Steady(F, f, fr, nd, a, e, T),
         nd # NoStm, Around[nd] = {}
  PROVE  Steady(F, f, fr, NoStm, a, e, T)
<1>1. Track(F, f, fr, nd, a, e) /\ Secure(T, f, fr, nd)
  BY DEF Steady
<1>2. Track(F, f, fr, NoStm, a, e)
  BY <1>1, TrackLeaf
<1> QED BY <1>1, <1>2, SecureLeaf DEF Steady

LEMMA SteadyCall ==
  ASSUME NEW F, NEW f, NEW fr, NEW nd, NEW a, NEW e, NEW T, Steady(F, f, fr, nd, a, e, T), nd # NoStm,
         NEW k, NEW nd2, \/ k = 0 /\ nd2 = NoStm
                         \/ k = 1 /\ nd2 \in Stm /\ nd2 = nd.kids[1] /\ nd.op # "SDecls" /\ 1 \in DOMAIN nd.kids,
         NEW g, g = Append(fr, Frame(nd, k)), NEW e2, Alike(Begun(e, nd), e2)
  PROVE  Steady(F, f, g, nd2, a, e2, T)
<1>1. Track(F, f, fr, nd, a, e) /\ Secure(T, f, fr, nd)
  BY DEF Steady
<1>2. Track(F, f, g, nd2, a, e2)
  BY <1>1, TrackCall
<1>3. /\ fr \in Seq(FrameSet) /\ Len(fr) \in Nat /\ nd \in Stm /\ f \in Nat
      /\ \A i \in 1 .. Len(fr) : fr[i].pos \in Nat
  BY <1>1, TrackFacts DEF Arrives
<1>4. PICK x : x = Frame(nd, k)
  OBVIOUS
<1>5. x \in FrameSet /\ x.stm = nd /\ x.pos = k /\ k \in Nat
  BY <1>3, <1>4 DEF Frame, FrameSet
<1>6. PICK n : n = Len(fr) + 1
  OBVIOUS
<1>7. /\ n \in Nat /\ n >= 1 /\ n = Len(g) /\ g[n] = x /\ \A i \in 1 .. n - 1 : g[i] = fr[i]
      /\ \A i \in 1 .. n - 1 : i \in 1 .. Len(fr)
  <2>1. g = Append(fr, x)
    BY <1>4
  <2>2. Len(g) = Len(fr) + 1 /\ g[Len(fr) + 1] = x /\ \A i \in 1 .. Len(fr) : g[i] = fr[i]
    BY <1>3, <1>5, <2>1, Pushed2
  <2>3. n \in Nat /\ n >= 1 /\ n - 1 = Len(fr)
    BY <1>3, <1>6
  <2> QED BY <1>6, <2>2, <2>3
<1>8. PICK at, b : at = Route(f, fr, n) /\ b = Route(f, g, n + 1)
  OBVIOUS
<1>9. Covered(nd, at, T)
  BY <1>1, <1>6, <1>8 DEF Secure
<1>10. b = Append(at, k)
  <2>1. Route(f, g, n) = at
    <3>1. \A i \in 1 .. n - 1 : g[i].pos = fr[i].pos
      BY <1>7
    <3> QED BY ONLY <1>8, <3>1, RouteSame
  <2>2. \A i \in 1 .. n : g[i].pos \in Nat
    <3>1. \A i \in 1 .. n : i = n \/ i \in 1 .. n - 1
      BY <1>7
    <3> QED BY <1>3, <1>5, <1>7, <3>1
  <2>3. Route(f, g, n + 1) = Append(Route(f, g, n), g[n].pos)
    <3>1. f \in Nat /\ n \in Nat /\ n >= 1
      BY <1>3, <1>7
    <3> QED BY ONLY <2>2, <3>1, RouteNext
  <2> QED BY <1>5, <1>7, <1>8, <2>1, <2>3
<1>11. nd2 # NoStm => Covered(nd2, b, T)
  BY <1>9, <1>10, CoveredParts
<1>12. Seated(nd, k)
  <2>1. CASE k = 0
    <3>1. 1 .. k = {}
      BY <2>1
    <3> QED BY <3>1 DEF Seated
  <2>2. CASE k = 1 /\ 1 \in DOMAIN nd.kids
    <3>1. 1 .. k = {1}
      BY <2>2
    <3> QED BY <2>2, <3>1 DEF Seated
  <2> QED BY <2>1, <2>2
<1>13. Secure(T, f, g, nd2)
  <2>1. /\ Secure(T, f, fr, nd) /\ n = Len(g) /\ n \in Nat /\ n >= 1
        /\ Len(fr) \in Nat /\ n <= Len(fr) + 1 /\ \A i \in 1 .. n - 1 : g[i] = fr[i]
    BY <1>1, <1>3, <1>6, <1>7
  <2>2. nd = g[n].stm /\ Seated(nd, g[n].pos)
    BY <1>5, <1>7, <1>12
  <2> QED BY ONLY <1>8, <1>9, <1>11, <2>1, <2>2, SecureTo
<1> QED BY <1>2, <1>13 DEF Steady

(* The handler on top, at its next part or name.                           *)
LEMMA SecureOn ==
  ASSUME NEW F, NEW f, NEW fr, NEW a, NEW e, Track(F, f, fr, NoStm, a, e),
         NEW T, Secure(T, f, fr, NoStm), NEW n, n = Len(fr), NEW s, s = fr[n].stm, NEW p, p = fr[n].pos,
         NEW q, q = p + 1, NEW nd2,
         \/ s.op = "SDecls" /\ nd2 = NoStm
         \/ s.op # "SDecls" /\ q \in DOMAIN s.kids /\ nd2 = s.kids[q],
         NEW g, g = Append(SubSeq(fr, 1, n - 1), Frame(s, q))
  PROVE  Secure(T, f, g, nd2)
<1>1. /\ fr \in Seq(FrameSet) /\ n \in Nat /\ n >= 1 /\ f \in Nat
      /\ \A i \in 1 .. n : fr[i].pos \in Nat
  BY TrackFacts
<1>2. n \in 1 .. n /\ p \in Nat /\ q \in Nat /\ fr[n] \in FrameSet
  BY <1>1
<1>3. PICK x : x = Frame(s, q)
  OBVIOUS
<1>4. x \in FrameSet /\ x.stm = s /\ x.pos = q
  BY <1>2, <1>3 DEF Frame, FrameSet
<1>5. n = Len(g) /\ g[n] = x /\ \A i \in 1 .. n - 1 : g[i] = fr[i]
  BY <1>1, <1>2, <1>3, <1>4, Advanced2
<1>6. PICK at, b : at = Route(f, fr, n) /\ b = Route(f, g, n + 1)
  OBVIOUS
<1>7. Covered(s, at, T) /\ Seated(s, p)
  BY <1>2, <1>6 DEF Secure
<1>8. b = Append(at, q)
  <2>1. Route(f, g, n) = at
    <3>1. \A i \in 1 .. n - 1 : g[i].pos = fr[i].pos
      BY <1>5
    <3> QED BY ONLY <1>6, <3>1, RouteSame
  <2>2. \A i \in 1 .. n : g[i].pos \in Nat
    <3>1. \A i \in 1 .. n : i = n \/ i \in 1 .. n - 1
      BY <1>1
    <3> QED BY <1>1, <1>2, <1>4, <1>5, <3>1
  <2>3. Route(f, g, n + 1) = Append(Route(f, g, n), g[n].pos)
    BY ONLY <1>1, <2>2, RouteNext
  <2> QED BY <1>4, <1>5, <1>6, <2>1, <2>3
<1>9. nd2 # NoStm => Covered(nd2, b, T)
  BY <1>7, <1>8, CoveredParts
<1>10. Seated(s, q)
  <2>1. CASE s.op = "SDecls"
    BY <2>1 DEF Seated
  <2>2. CASE s.op # "SDecls" /\ q \in DOMAIN s.kids
    <3>1. 1 .. p \subseteq DOMAIN s.kids
      BY <1>7, <2>2 DEF Seated
    <3>2. \A i \in 1 .. q : i = q \/ i \in 1 .. p
      BY <1>2
    <3> QED BY <2>2, <3>1, <3>2 DEF Seated
  <2> QED BY <2>1, <2>2
<1>11. /\ Secure(T, f, fr, NoStm) /\ n = Len(g) /\ n \in Nat /\ n >= 1
       /\ Len(fr) \in Nat /\ n <= Len(fr) + 1 /\ \A i \in 1 .. n - 1 : g[i] = fr[i]
  BY <1>1, <1>5
<1>12. s = g[n].stm /\ Seated(s, g[n].pos) /\ Covered(s, at, T)
  BY <1>4, <1>5, <1>7, <1>10
<1> QED BY ONLY <1>6, <1>9, <1>11, <1>12, SecureTo

LEMMA SteadyOn ==
  ASSUME NEW F, NEW f, NEW fr, NEW a, NEW e, NEW T, Steady(F, f, fr, NoStm, a, e, T),
         NEW n, n = Len(fr), NEW s, s = fr[n].stm, s.op # "SDecls",
         NEW q, q = fr[n].pos + 1, q \in DOMAIN s.kids,
         NEW g, g = Append(SubSeq(fr, 1, n - 1), Frame(s, q)),
         NEW nd2 \in Stm, nd2 = s.kids[q], n = 1 => a = Len(F.args),
         NEW e2, Alike(e, e2)
  PROVE  Steady(F, f, g, nd2, a, e2, T)
<1>1. Track(F, f, fr, NoStm, a, e) /\ Secure(T, f, fr, NoStm)
  BY DEF Steady
<1>2. Track(F, f, g, nd2, a, e2)
  BY <1>1, TrackOn
<1>3. PICK p : p = fr[n].pos
  OBVIOUS
<1>4. Secure(T, f, g, nd2)
  BY <1>1, <1>3, SecureOn
<1> QED BY <1>2, <1>4 DEF Steady

LEMMA SteadyDeclare ==
  ASSUME NEW F, NEW f, NEW fr, NEW a, NEW e, NEW T, Steady(F, f, fr, NoStm, a, e, T),
         NEW n, n = Len(fr), NEW s, s = fr[n].stm, s.op = "SDecls",
         NEW k, k = fr[n].pos + 1,
         NEW g, g = Append(SubSeq(fr, 1, n - 1), Frame(s, k)),
         NEW e2, Gains(e, {<<s.exps[k].name, Append(Route(f, fr, n), k)>>}, e2)
  PROVE  Steady(F, f, g, NoStm, a, e2, T)
<1>1. Track(F, f, fr, NoStm, a, e) /\ Secure(T, f, fr, NoStm)
  BY DEF Steady
<1>2. Track(F, f, g, NoStm, a, e2)
  BY <1>1, TrackDeclare
<1>3. PICK p : p = fr[n].pos
  OBVIOUS
<1>4. Secure(T, f, g, NoStm)
  BY <1>1, <1>3, SecureOn
<1> QED BY <1>2, <1>4 DEF Steady

LEMMA SteadyArg ==
  ASSUME NEW F, NEW f, NEW fr, NEW a, NEW e, NEW T, Steady(F, f, fr, NoStm, a, e, T), Len(fr) = 1,
         NEW e2, Gains(e, {Arg(F, <<f>>, a + 1)}, e2)
  PROVE  Steady(F, f, fr, NoStm, a + 1, e2, T)
  BY TrackArg DEF Steady

LEMMA SecurePop ==
  ASSUME NEW F, NEW f, NEW fr, NEW a, NEW e, Track(F, f, fr, NoStm, a, e),
         NEW T, Secure(T, f, fr, NoStm), NEW n, n = Len(fr), n > 1, NEW g, g = SubSeq(fr, 1, n - 1)
  PROVE  Secure(T, f, g, NoStm)
<1>1. fr \in Seq(FrameSet) /\ n \in Nat
  BY TrackFacts
<1>2. PICK m : m = n - 1
  OBVIOUS
<1>3. m \in Nat /\ m >= 1 /\ m = Len(g) /\ \A i \in 1 .. m : g[i] = fr[i]
  <2>1. g = SubSeq(fr, 1, Len(fr) - 1) /\ Len(fr) >= 1
    BY <1>1
  <2>2. Len(g) = Len(fr) - 1 /\ \A i \in 1 .. Len(fr) - 1 : g[i] = fr[i]
    BY <1>1, <2>1, Popped2
  <2> QED BY <1>1, <1>2, <2>2
<1>4. m \in 1 .. Len(fr) /\ m \in 1 .. m
  BY <1>1, <1>2, <1>3
<1>5. PICK s, at, b : s = g[m].stm /\ at = Route(f, fr, m) /\ b = Route(f, g, m + 1)
  OBVIOUS
<1>6. Covered(s, at, T) /\ Seated(s, g[m].pos)
  BY <1>3, <1>4, <1>5 DEF Secure
<1>7. /\ Len(fr) \in Nat /\ m <= Len(fr) + 1 /\ \A i \in 1 .. m - 1 : g[i] = fr[i]
      /\ m = Len(g) /\ m \in Nat /\ m >= 1 /\ Secure(T, f, fr, NoStm)
  BY <1>1, <1>2, <1>3
<1>8. NoStm # NoStm => Covered(NoStm, b, T)
  OBVIOUS
<1> QED BY ONLY <1>5, <1>6, <1>7, <1>8, SecureTo

LEMMA SteadyReturn ==
  ASSUME NEW F, NEW f, NEW fr, NEW a, NEW e, NEW T, Steady(F, f, fr, NoStm, a, e, T),
         NEW n, n = Len(fr), n > 1, NEW s, s = fr[n].stm, s.op \notin ScopeOps,
         s.op = "SDecls" => fr[n].pos = Len(s.exps), s.op # "SDecls" => DOMAIN s.kids = 1 .. fr[n].pos,
         NEW g, g = SubSeq(fr, 1, n - 1), NEW e2, Alike(e, e2)
  PROVE  Steady(F, f, g, NoStm, a, e2, T)
<1>1. Track(F, f, fr, NoStm, a, e) /\ Secure(T, f, fr, NoStm)
  BY DEF Steady
<1>2. Track(F, f, g, NoStm, a, e2)
  BY <1>1, TrackReturn
<1>3. Secure(T, f, g, NoStm)
  BY <1>1, SecurePop
<1> QED BY <1>2, <1>3 DEF Steady

LEMMA SteadyClose ==
  ASSUME NEW F, NEW f, NEW fr, NEW a, NEW e, NEW T, Steady(F, f, fr, NoStm, a, e, T),
         NEW n, n = Len(fr), n > 1, fr[n].stm.op = "SBlock",
         NEW g, g = SubSeq(fr, 1, n - 1), NEW e2, Alike(SubSeq(e, 1, Len(e) - 1), e2)
  PROVE  Steady(F, f, g, NoStm, a, e2, T)
<1>1. Track(F, f, fr, NoStm, a, e) /\ Secure(T, f, fr, NoStm)
  BY DEF Steady
<1>2. Track(F, f, g, NoStm, a, e2)
  BY <1>1, TrackClose
<1>3. Secure(T, f, g, NoStm)
  BY <1>1, SecurePop
<1> QED BY <1>2, <1>3 DEF Steady

LEMMA SteadyBegin ==
  ASSUME NEW F \in Function, NEW f \in Nat, NEW fr, fr = <<Frame(F, 0)>>,
         NEW c, Alike(<<NoMembers>>, c), NEW e, Alike(Append(c, NoMembers), e),
         NEW T, Covered(F, <<f>>, T)
  PROVE  Steady(F, f, fr, NoStm, 0, e, T)
<1>1. Track(F, f, fr, NoStm, 0, e)
  BY TrackBegin
<1>2. Len(fr) = 1 /\ fr[1].stm = F /\ fr[1].pos = 0
  BY DEF Frame
<1>3. Route(f, fr, 1) = <<f>>
  <2>1. PICK t : t = [i \in 1 .. 1 - 1 |-> fr[i].pos]
    OBVIOUS
  <2>2. t = <<>>
    <3>1. 1 .. 1 - 1 = {}
      OBVIOUS
    <3>2. t = [i \in {} |-> fr[i].pos]
      BY <2>1, <3>1
    <3> QED BY <3>2
  <2>3. <<f>> \o <<>> = <<f>>
    OBVIOUS
  <2> QED BY <2>1, <2>2, <2>3 DEF Route
<1>4. Seated(F, 0)
  <2>1. 1 .. 0 = {}
    OBVIOUS
  <2> QED BY <2>1 DEF Seated
<1>5. ASSUME NEW i \in 1 .. Len(fr)
      PROVE  Covered(fr[i].stm, Route(f, fr, i), T) /\ Seated(fr[i].stm, fr[i].pos)
  <2>1. i = 1
    BY <1>2
  <2> QED BY <1>2, <1>3, <1>4, <2>1
<1>6. Secure(T, f, fr, NoStm)
  BY <1>5 DEF Secure
<1> QED BY <1>1, <1>6 DEF Steady

-----------------------------------------------------------------------------
(* The variables that a step of the code generator visits *)

LEMMA SlotNumber ==
  ASSUME NEW s \in Stm, NEW k \in Slots(s)
  PROVE  k \in Nat /\ k \in DOMAIN s.exps
<1>1. s.op \notin ScopeOps /\ k \in DOMAIN s.exps
  BY DEF Slots, Variables
<1>2. s.op \in {"SExp", "SReturn", "SReturnV", "SDecls", "SWhile", "SDoWhile", "SFor", "SIfElse"}
  <2>1. s \in Statement
    BY TypeCheckAssumption
  <2>2. s.op \in {"SExp", "SReturn", "SReturnV", "SDecls", "SWhile", "SDoWhile", "SFor", "SIfElse", "SBlock"}
    BY <2>1 DEF Statement, Node
  <2> QED BY <1>1, <2>2 DEF ScopeOps
<1>3. CASE s.op = "SDecls"
  <2>1. s.exps \in Seq(IdIn)
    BY <1>3, StmParts
  <2> QED BY <1>1, <2>1
<1>4. CASE s.op # "SDecls"
  <2>1. DOMAIN s.exps \subseteq 1 .. 3
    BY <1>2, <1>4, ExpDomains
  <2> QED BY <1>1, <2>1
<1> QED BY <1>3, <1>4

IsAppend(r, p, j) == r = Append(p, j)

LEMMA AppendedIs ==
  ASSUME NEW p \in Seq(Nat), NEW j \in Nat, NEW r, IsAppend(r, p, j)
  PROVE  /\ Len(p) \in Nat /\ Len(r) = Len(p) + 1 /\ r[Len(p) + 1] = j
         /\ \A i \in 1 .. Len(p) : r[i] = p[i]
BY DEF IsAppend

LEMMA AppendSame ==
  ASSUME NEW p \in Seq(Nat), NEW q \in Seq(Nat), NEW j \in Nat, NEW k \in Nat, NEW r, IsAppend(r, p, j), IsAppend(r, q, k)
  PROVE  Len(p) = Len(q) /\ j = k /\ p = q
<1>2. /\ Len(p) \in Nat /\ Len(r) = Len(p) + 1 /\ r[Len(p) + 1] = j
      /\ \A i \in 1 .. Len(p) : r[i] = p[i]
  BY AppendedIs
<1>3. /\ Len(q) \in Nat /\ Len(r) = Len(q) + 1 /\ r[Len(q) + 1] = k
      /\ \A i \in 1 .. Len(q) : r[i] = q[i]
  BY AppendedIs
<1>4. Len(p) = Len(q) /\ j = k
  BY <1>2, <1>3
<1>5. \A i \in 1 .. Len(p) : p[i] = q[i]
  BY <1>2, <1>3, <1>4
<1>6. p = q
  <2>1. IsSeq(p) /\ IsSeq(q) /\ SameElements(p, q)
    BY <1>5 DEF IsSeq, SameElements
  <2> QED BY <1>4, <2>1, SeqsEqual
<1> QED BY <1>4, <1>6

UsedBy(s, w, n, k) ==
  s = w[n].stm /\ s \in Stm /\ k \in Slots(s) /\ w[n].pos = Afterwards(s, k)

BoundAt(d, s, k, ty, u, P) == findSymbol(d, Slot(s, k).name) = ty[u] <=> ~ Exempt(P, u)

(* What is loaded for a use of the statement on top is what was noted, but *)
(* for the exceptions.                                                     *)
LEMMA UseBound ==
  ASSUME NEW P, NEW ty, Noted(P, ty), NEW F, NEW f, NEW w, NEW d,
         Track(F, f, w, NoStm, Len(F.args), d), Seats(w), NEW n, NEW k, NEW u, u \in DOMAIN ty,
         UseOf(P, F, f, w, n, k, u), NEW s, UsedBy(s, w, n, k)
  PROVE  BoundAt(d, s, k, ty, u, P)
<1> SUFFICES ASSUME P[f] = F, n = Len(w), n > 1, u = Append(Route(f, w, n), k),
                    s = w[n].stm, s \in Stm, k \in Slots(s), w[n].pos = Afterwards(s, k)
             PROVE  findSymbol(d, Slot(s, k).name) = ty[u] <=> ~ Exempt(P, u)
  BY DEF UseOf, UsedBy, BoundAt
<1>1. PICK dh : Arrives(F, f, w, NoStm, Len(F.args)) /\ Legs(f, w, NoStm, Len(F.args), dh, d)
  BY DEF Track
<1>2. k \in Nat
  BY SlotNumber
<1>3. StatementIn(P, u) = s /\ u[1] = f /\ u[Len(u)] = k
  <2>1. P[f] = F /\ n = Len(w) /\ n > 1 /\ u = Append(Route(f, w, n), k) /\ s = w[n].stm
    OBVIOUS
  <2>2. PICK a : a = Len(F.args) /\ Arrives(F, f, w, NoStm, a)
    BY <1>1
  <2>3. StatementIn(P, u) = w[n].stm /\ u[1] = f /\ u[Len(u)] = k
    <3>1. UseOf(P, F, f, w, n, k, u)
      BY <1>2, <2>1 DEF UseOf
    <3> QED BY ONLY <2>2, <3>1, StatementIs
  <2> QED BY <2>1, <2>3
<1>4. PICK v, c, j : /\ Uses(F, f, v, c, j) /\ u = Append(Route(f, v, Len(v)), j)
                     /\ v[Len(v)].pos = Before(v[Len(v)].stm, j)
                     /\ ty[u] = findSymbol(c, Slot(v[Len(v)].stm, j).name)
  <2>1. NoteAt(F, u, ty[u])
    <3>1. NoteAt(P[u[1]], u, ty[u])
      BY DEF Noted
    <3> QED BY <1>3, <3>1
  <2> QED BY <1>3, <2>1 DEF NoteAt
<1>5. Track(F, f, v, NoStm, Len(F.args), c) /\ Len(v) > 1 /\ j \in Slots(v[Len(v)].stm)
      /\ Holders(c, Slot(v[Len(v)].stm, j).name) # {}
  BY <1>4 DEF Uses
<1>6. PICK ch : Arrives(F, f, v, NoStm, Len(F.args)) /\ Legs(f, v, NoStm, Len(F.args), ch, c)
  BY <1>5 DEF Track
<1>7. f \in Nat /\ Len(v) \in Nat /\ n \in Nat
      /\ (\A i \in 1 .. Len(v) : v[i].pos \in Nat /\ (v[i].stm.op = "DFun" <=> i = 1))
      /\ (\A i \in 1 .. Len(v) : v[i].stm.op # "DFun" => v[i].stm \in Stm)
      /\ (\A i \in 1 .. n : w[i].pos \in Nat)
  BY <1>5, TrackFacts
<1>8. v[Len(v)].stm \in Stm
  <2>1. Len(v) \in 1 .. Len(v) /\ Len(v) # 1
    BY <1>5, <1>7
  <2> QED BY <1>7, <2>1
<1>9. Route(f, v, Len(v)) \in Seq(Nat) /\ Len(Route(f, v, Len(v))) = Len(v)
      /\ \A i \in 1 .. Len(v) - 1 : Route(f, v, Len(v))[i + 1] = v[i].pos
  <2>1. \A i \in 1 .. Len(v) - 1 : v[i].pos \in Nat
    BY <1>7
  <2>2. Len(v) >= 1
    BY <1>5, <1>7
  <2> QED BY <1>7, <2>1, <2>2, RouteIs
<1>10. Route(f, w, n) \in Seq(Nat) /\ Len(Route(f, w, n)) = n
       /\ \A i \in 1 .. n - 1 : Route(f, w, n)[i + 1] = w[i].pos
  <2>1. \A i \in 1 .. n - 1 : w[i].pos \in Nat
    BY <1>7
  <2>2. n >= 1
    BY <1>7
  <2> QED BY <1>7, <2>1, <2>2, RouteIs
<1>11. Len(v) = n /\ j = k /\ Route(f, v, n) = Route(f, w, n)
  <2>1. PICK p : p = Route(f, v, Len(v)) /\ p \in Seq(Nat) /\ Len(p) = Len(v)
    BY <1>9
  <2>2. PICK q : q = Route(f, w, n) /\ q \in Seq(Nat) /\ Len(q) = n
    BY <1>10
  <2>3. j \in Nat
    BY <1>5, <1>8, SlotNumber
  <2>4. IsAppend(u, p, j) /\ IsAppend(u, q, k)
    BY <1>4, <2>1, <2>2 DEF IsAppend
  <2>5. Len(p) = Len(q) /\ j = k /\ p = q
    BY ONLY <2>1, <2>2, <2>3, <2>4, <1>2, AppendSame
  <2> QED BY <2>1, <2>2, <2>5
<1>12. SamePositions(v, w, n - 1)
  <2>1. \A i \in 1 .. n - 1 : v[i].pos = w[i].pos
    BY <1>9, <1>10, <1>11
  <2> QED BY <2>1 DEF SamePositions
<1>13. PICK r : r = v[n].stm /\ r \in Stm /\ k \in Slots(r)
  BY <1>5, <1>8, <1>11
<1>14. PICK at : at = Route(f, v, n)
  OBVIOUS
<1>15. Both(v, w, n, k)
  BY <1>4, <1>11, <1>12 DEF Both
<1>16. Meet(F, f, v, w, n, k, r, at, ch, c, dh, d)
  BY <1>1, <1>2, <1>6, <1>13, <1>14, <1>15 DEF Meet
<1>17. r = s
  BY <1>16, MeetFacts
<1>18. PICK x : x = Slot(s, k).name /\ Holders(c, x) # {} /\ ty[u] = findSymbol(c, x)
  BY <1>4, <1>5, <1>11, <1>13, <1>17
<1>19. findSymbol(d, x) = findSymbol(c, x) <=> x \notin Early(s, k)
  BY <1>16, <1>17, <1>18, MeetFinds
<1>20. Exempt(P, u) <=> x \in Early(s, k)
  BY <1>3, <1>18 DEF Exempt, NamedAt
<1> QED BY <1>18, <1>19, <1>20
(* Every load is of the alloca that was noted, but for the exceptions.     *)
BoundIn(ls, ty, P) == \A l \in ls : l.alloca = ty[l.use] <=> ~ Exempt(P, l.use)

(* The step visits the variables of the statement on top of handlers w.    *)
Visits(w, n, s, f) ==
  /\ n = Len(w) /\ n > 1 /\ s = w[n].stm /\ s \in Stm /\ s.op \notin ScopeOps
  /\ s = At(cgNode, cgFrames) /\ Path(cgFn, cgNode, cgFrames) = Route(f, w, n)
  /\ Generated # <<>> =>
       \A k \in DOMAIN Generated \cap DOMAIN s.exps : w[n].pos = Afterwards(s, k)

LEMMA VisitBound ==
  ASSUME NEW known, visitEIds(known), phase' # "thrown", IsSeq(known),
         NEW P, NEW ty, Noted(P, ty), BoundIn(loads, ty, P), NEW F, NEW f, P[f] = F,
         NEW w, NEW c, c = PlacesOf(known), Steady(F, f, w, NoStm, Len(F.args), c, DOMAIN ty),
         NEW n, NEW s, Visits(w, n, s, f)
  PROVE  BoundIn(loads', ty, P)
<1> DEFINE S == At(cgNode, cgFrames)
           V == IF Generated = <<>> THEN {} ELSE Variables(S, DOMAIN Generated \cap DOMAIN S.exps)
           at == Path(cgFn, cgNode, cgFrames)
<1>1. /\ n = Len(w) /\ n > 1 /\ s = w[n].stm /\ s \in Stm /\ s.op \notin ScopeOps
      /\ s = At(cgNode, cgFrames) /\ at = Route(f, w, n)
      /\ Generated # <<>> =>
           \A k \in DOMAIN Generated \cap DOMAIN s.exps : w[n].pos = Afterwards(s, k)
  BY DEF Visits
<1>2. /\ \A k \in V : Lookup(known, Slot(s, k).name) # NotFound
      /\ \A l \in loads' \ loads : \E k \in V :
           l.use = Append(at, k) /\ l.alloca = Lookup(known, Slot(s, k).name).place
  <2>1. /\ ~ \E k \in V : Lookup(known, Slot(S, k).name) = NotFound
        /\ loads' = loads \cup
             {[at |-> Generated[k], use |-> Append(at, k), alloca |-> Lookup(known, Slot(S, k).name).place] : k \in V}
    BY DEF visitEIds
  <2> HIDE DEF V
  <2>2. \A k : Slot(S, k) = Slot(s, k)
    BY <1>1
  <2> QED BY <2>1, <2>2
<1>3. ASSUME NEW k \in V
      PROVE  k \in Slots(s) /\ w[n].pos = Afterwards(s, k)
  <2>1. Generated # <<>> /\ k \in DOMAIN Generated \cap DOMAIN s.exps
        /\ Slot(s, k) # NoInit /\ Slot(s, k).op = "EId"
    BY <1>1 DEF Variables
  <2> QED BY <1>1, <2>1 DEF Slots, Variables
<1>4. Track(F, f, w, NoStm, Len(F.args), c) /\ Secure(DOMAIN ty, f, w, NoStm)
  BY DEF Steady
<1>5. Len(w) \in Nat /\ n \in 1 .. Len(w)
  BY <1>1, <1>4, TrackFacts
<1>6. Seats(w)
  BY <1>4 DEF Secure, Seats
<1>7. Slotted(s, at, DOMAIN ty)
  <2>1. PICK r : r = Route(f, w, n)
    OBVIOUS
  <2>2. Covered(s, r, DOMAIN ty)
    BY <1>1, <1>4, <1>5, <2>1 DEF Secure
  <2>3. Slotted(s, r, DOMAIN ty)
    BY <2>2, CoveredParts
  <2> QED BY <1>1, <2>1, <2>3
<1>8. ASSUME NEW l \in loads'
      PROVE  l.alloca = ty[l.use] <=> ~ Exempt(P, l.use)
  <2>1. CASE l \in loads
    BY <2>1 DEF BoundIn
  <2>2. CASE l \notin loads
    <3>1. PICK k \in V : l.use = Append(at, k) /\ l.alloca = Lookup(known, Slot(s, k).name).place
      BY <1>2, <2>2
    <3>2. k \in Slots(s) /\ w[n].pos = Afterwards(s, k)
      BY <1>3
    <3>3. PICK x : x = Slot(s, k).name /\ Lookup(known, x) # NotFound
      BY <1>2
    <3>4. l.alloca = findSymbol(c, x)
      BY <3>1, <3>3, PlacesFind
    <3>5. PICK u : u = l.use
      OBVIOUS
    <3>6. u = Append(Route(f, w, n), k) /\ u \in DOMAIN ty
      BY <1>1, <1>7, <3>1, <3>2, <3>5 DEF Slotted
    <3>7. findSymbol(c, Slot(s, k).name) = ty[u] <=> ~ Exempt(P, u)
      <4>1. UseOf(P, F, f, w, n, k, u)
        BY <1>1, <3>2, <3>6, SlotNumber DEF UseOf
      <4>2. UsedBy(s, w, n, k)
        BY <1>1, <3>2 DEF UsedBy
      <4>3. Noted(P, ty) /\ u \in DOMAIN ty
        BY <3>6
      <4>4. PICK a : a = Len(F.args) /\ Track(F, f, w, NoStm, Len(F.args), c)
        BY <1>4
      <4>5. BoundAt(c, s, k, ty, u, P)
        BY ONLY <1>6, <4>1, <4>2, <4>3, <4>4, UseBound
      <4> QED BY <4>5 DEF BoundAt
    <3> QED BY <3>3, <3>4, <3>5, <3>7
  <2> QED BY <2>1, <2>2
<1> QED BY <1>8 DEF BoundIn

(* The others visit none.                                                  *)
LEMMA NoVisit ==
  ASSUME NEW known, visitEIds(known), phase' # "thrown",
         Generated # <<>> => DOMAIN Generated \cap DOMAIN At(cgNode, cgFrames).exps = {}
  PROVE  loads' = loads
<1> DEFINE s == At(cgNode, cgFrames)
           V == IF Generated = <<>> THEN {} ELSE Variables(s, DOMAIN Generated \cap DOMAIN s.exps)
<1>1. V = {}
  BY DEF Variables
<1>2. loads' = loads \cup
        {[at |-> Generated[k], use |-> Append(Path(cgFn, cgNode, cgFrames), k),
          alloca |-> Lookup(known, Slot(s, k).name).place] : k \in V}
  BY DEF visitEIds
<1> QED BY <1>1, <1>2

-----------------------------------------------------------------------------
(* The code generator follows the trees too *)

(* In a function, its contexts hold what the handlers have declared.       *)
Tracking ==
  Steady(Fun, cgFn, Handlers, cgNode, cgArg, PlacesOf(symbols), DOMAIN typed)

Matching == Tracking /\ BoundIn(loads, typed, program)

(* The next step of a handler, from where the two agree.                   *)
Matched == Ready /\ Goes /\ cgFn' = cgFn /\ Noted(program, typed) /\ Matching

LEMMA MatchedIs ==
  ASSUME Matched
  PROVE  /\ Generating /\ cgArg = Len(Fun.args) /\ phase' # "thrown"
         /\ Fun' = Fun /\ cgFn' = cgFn /\ cgArg' = cgArg /\ typed' = typed /\ program' = program
         /\ Noted(program, typed) /\ BoundIn(loads, typed, program)
         /\ Tracking /\ IsSeq(symbols) /\ Len(symbols) >= 1
<1>1. Generating /\ cgArg = Len(Fun.args) /\ cgArg' = cgArg
  BY IsReady DEF Matched, Ready
<1>2. phase = "codegen" /\ phase' = phase /\ typed' = typed /\ program' = program
  BY DEF Matched, Ready, Goes, Entered, passed, history, vars
<1>3. Fun' = Fun
  BY <1>2 DEF Fun, Matched
<1>4. IsSeq(symbols) /\ Len(symbols) > 1 /\ Len(symbols) \in Nat
  BY <1>1, GenFacts DEF IsKnown
<1> QED BY <1>1, <1>2, <1>3, <1>4 DEF Matched, Matching

LEMMA ToMatching ==
  ASSUME Matched, NEW h, h = Handlers', NEW nd, nd = cgNode', NEW c, c = PlacesOf(symbols'),
         Steady(Fun, cgFn, h, nd, cgArg, c, DOMAIN typed), BoundIn(loads', typed, program)
  PROVE  Matching'
<1>1. Fun' = Fun /\ cgFn' = cgFn /\ cgArg' = cgArg /\ typed' = typed /\ program' = program
  BY MatchedIs
<1>2. Tracking'
  BY <1>1 DEF Tracking
<1> QED BY <1>1, <1>2 DEF Matching

(* Where the handlers are.                                                 *)
LEMMA HandlersAt ==
  ASSUME Generating, NEW h, h = Handlers, NEW n, n = Len(h), NEW e, NEW f, IsTop(e, f)
  PROVE  /\ n = Len(cgFrames) /\ n \in Nat /\ n >= 1 /\ f = h[n]
         /\ Path(cgFn, NoStm, cgFrames) = Route(cgFn, h, n)
         /\ cgNode # NoStm => Path(cgFn, cgNode, cgFrames) = Route(cgFn, h, n + 1)
         /\ cgNode = NoStm => At(cgNode, cgFrames) = e.stm
         /\ f.stm.op # "DFun" <=> n > 1
<1>1. IsKept(cgFrames, Fun, h)
  BY GenFacts
<1>2. n = Len(cgFrames) /\ n \in Nat /\ n >= 1
  BY <1>1 DEF IsKept, Generating
<1>3. \A i \in 1 .. n : h[i].pos = cgFrames[i].pos
  <2>1. SUFFICES ASSUME NEW i \in 1 .. n PROVE h[i].pos = cgFrames[i].pos
    OBVIOUS
  <2>2. h[i] = Frame(IF i = 1 THEN Fun ELSE cgFrames[i].stm, cgFrames[i].pos)
    BY <1>1, <1>2 DEF IsKept
  <2> QED BY <2>2 DEF Frame
<1>4. Route(cgFn, h, n) = Route(cgFn, cgFrames, n) /\ Route(cgFn, h, n + 1) = Route(cgFn, cgFrames, n + 1)
  <2>1. PICK m : m = n + 1 /\ m \in Nat
    BY <1>2
  <2>2. \A i \in 1 .. n - 1 : h[i].pos = cgFrames[i].pos
    BY <1>2, <1>3
  <2>3. \A i \in 1 .. m - 1 : h[i].pos = cgFrames[i].pos
    BY <1>2, <1>3, <2>1
  <2>4. Route(cgFn, h, n) = Route(cgFn, cgFrames, n)
    BY <2>2, RouteSame
  <2>5. Route(cgFn, h, m) = Route(cgFn, cgFrames, m)
    BY <2>3, RouteSame
  <2> QED BY <2>1, <2>4, <2>5
<1>5. Path(cgFn, NoStm, cgFrames) = Route(cgFn, cgFrames, n)
  <2>1. PICK nd : nd = NoStm
    OBVIOUS
  <2>2. Path(cgFn, nd, cgFrames) = Route(cgFn, cgFrames, IF nd = NoStm THEN Len(cgFrames) ELSE Len(cgFrames) + 1)
    BY <1>2, PathIs
  <2> QED BY <1>2, <2>1, <2>2
<1>6. cgNode # NoStm => Path(cgFn, cgNode, cgFrames) = Route(cgFn, cgFrames, n + 1)
  BY <1>2, PathIs
<1>7. f = h[n] /\ (cgNode = NoStm => At(cgNode, cgFrames) = e.stm) /\ (f.stm.op = "DFun" <=> n = 1)
  BY <1>2 DEF IsTop, At
<1> QED BY <1>2, <1>4, <1>5, <1>6, <1>7

(* The stack after a call, when a handler goes on, and when it returns.    *)
LEMMA HandlersCall ==
  ASSUME Generating, Fun' = Fun, NEW s, NEW p, NEW b, cgFrames' = Append(cgFrames, Cg!Frame(s, p, b))
  PROVE  Handlers' = Append(Handlers, Frame(s, p))
<1>1. PICK fr, F, top : fr = cgFrames /\ F = Fun /\ top = cgFrames' /\ top = Append(fr, Cg!Frame(s, p, b))
  OBVIOUS
<1>2. IsCall(fr, top, F, Frame(s, p))
  BY <1>1, KeptPush DEF Generating
<1> QED BY <1>1, <1>2 DEF IsCall, Handlers

LEMMA HandlersOn ==
  ASSUME Generating, Fun' = Fun, NEW e, NEW f, IsTop(e, f), NEW p,
         cgFrames' = Append(SubSeq(cgFrames, 1, Len(cgFrames) - 1), Cg!Frame(e.stm, p, e.base))
  PROVE  Handlers' = Append(SubSeq(Handlers, 1, Len(Handlers) - 1), Frame(f.stm, p))
<1>1. PICK fr, F, top : /\ fr = cgFrames /\ F = Fun /\ top = cgFrames'
                        /\ top = Append(SubSeq(fr, 1, Len(fr) - 1), Cg!Frame(e.stm, p, e.base))
  OBVIOUS
<1>2. e = fr[Len(fr)] /\ f = Kept(fr, F)[Len(Kept(fr, F))]
  BY <1>1 DEF IsTop, Handlers
<1>3. IsAdvance(fr, top, F, Frame(f.stm, p))
  BY <1>1, <1>2, KeptOn DEF Generating
<1> QED BY <1>1, <1>3 DEF IsAdvance, Handlers

LEMMA HandlersReturn ==
  ASSUME Generating, Fun' = Fun, cgFrames' = SubSeq(cgFrames, 1, Len(cgFrames) - 1)
  PROVE  Handlers' = SubSeq(Handlers, 1, Len(Handlers) - 1)
<1>1. PICK fr, F, top : fr = cgFrames /\ F = Fun /\ top = cgFrames' /\ top = SubSeq(fr, 1, Len(fr) - 1)
  OBVIOUS
<1>2. Kept(top, F) = SubSeq(Kept(fr, F), 1, Len(Kept(fr, F)) - 1)
  BY <1>1, KeptPop DEF Generating
<1> QED BY <1>1, <1>2 DEF Handlers

(* What a step visits on entering a statement.                             *)
LEMMA EnterVisit ==
  ASSUME Matched, visitEIds(symbols), cgNode # NoStm, NEW s, s = cgNode, s.op \notin ScopeOps,
         Generated # <<>> => \A k \in DOMAIN Generated \cap DOMAIN s.exps : Afterwards(s, k) = 0
  PROVE  BoundIn(loads', typed, program)
<1>1. PICK h, F, c, g : /\ h = Handlers /\ F = Fun /\ c = PlacesOf(symbols)
                        /\ g = Append(h, Frame(s, 0))
  OBVIOUS
<1>2. Steady(F, cgFn, h, s, Len(F.args), c, DOMAIN typed) /\ F = program[cgFn]
  BY <1>1, MatchedIs DEF Tracking, Fun
<1>3. Begun(c, s) = c /\ Alike(c, c)
  <2>1. Alike(c, c)
    BY <1>1, MatchedIs, PlacesSelf
  <2> QED BY <2>1 DEF Begun
<1>4. Steady(F, cgFn, g, NoStm, Len(F.args), c, DOMAIN typed)
  <2>1. PICK k, nd2, a, d : k = 0 /\ nd2 = NoStm /\ a = Len(F.args) /\ d = Begun(c, s)
    OBVIOUS
  <2>2. Steady(F, cgFn, h, s, a, c, DOMAIN typed) /\ s # NoStm
    BY <1>2, <2>1
  <2>3. g = Append(h, Frame(s, k)) /\ Alike(Begun(c, s), c)
    BY <1>1, <1>3, <2>1
  <2>4. Steady(F, cgFn, g, nd2, a, c, DOMAIN typed)
    BY <2>1, <2>2, <2>3, SteadyCall
  <2> QED BY <2>1, <2>4
<1>5. PICK e, f : IsTop(e, f)
  BY MatchedIs, TopIs
<1>6. s \in Stm /\ h \in Seq(FrameSet)
  BY <1>1, MatchedIs, GenFacts
<1>7. PICK m : m = Len(h) /\ m \in Nat /\ m >= 1 /\ Path(cgFn, cgNode, cgFrames) = Route(cgFn, h, m + 1)
  BY <1>1, <1>5, MatchedIs, HandlersAt
<1>8. PICK n : n = m + 1 /\ n \in Nat /\ n > 1
  BY <1>7
<1>9. Len(g) = n /\ g[n] = Frame(s, 0) /\ \A i \in 1 .. n - 1 : g[i] = h[i]
  BY <1>1, <1>6, <1>7, <1>8
<1>10. Route(cgFn, g, n) = Route(cgFn, h, n)
  <2>1. \A i \in 1 .. n - 1 : g[i].pos = h[i].pos
    BY <1>9
  <2> QED BY <2>1, RouteSame
<1>11. Visits(g, n, s, cgFn)
  <2>1. g[n].stm = s /\ g[n].pos = 0
    BY <1>9 DEF Frame
  <2>2. At(cgNode, cgFrames) = s
    BY DEF At
  <2> QED BY <1>6, <1>7, <1>8, <1>9, <1>10, <2>1, <2>2 DEF Visits
<1>12. visitEIds(symbols) /\ phase' # "thrown" /\ IsSeq(symbols) /\ Noted(program, typed)
       /\ BoundIn(loads, typed, program) /\ program[cgFn] = F
  BY <1>2, MatchedIs
<1> QED BY <1>1, <1>4, <1>11, <1>12, VisitBound

(* What the handler on top visits.                                         *)
LEMMA TopVisit ==
  ASSUME Matched, visitEIds(symbols), cgNode = NoStm, NEW e, NEW f, IsTop(e, f),
         NEW s, s = f.stm, s.op \notin ScopeOps,
         Generated # <<>> => \A k \in DOMAIN Generated \cap DOMAIN s.exps : f.pos = Afterwards(s, k)
  PROVE  BoundIn(loads', typed, program)
<1>1. PICK h, F, c : h = Handlers /\ F = Fun /\ c = PlacesOf(symbols)
  OBVIOUS
<1>2. Steady(F, cgFn, h, NoStm, Len(F.args), c, DOMAIN typed) /\ F = program[cgFn]
  BY <1>1, MatchedIs DEF Tracking, Fun
<1>3. s.op # "DFun" /\ s \in Stm /\ e.stm = s
  BY DEF IsTop, ScopeOps
<1>4. PICK n : n = Len(h) /\ n > 1 /\ f = h[n] /\ At(cgNode, cgFrames) = s
               /\ Path(cgFn, cgNode, cgFrames) = Route(cgFn, h, n)
  <2>1. PICK n : n = Len(h)
    OBVIOUS
  <2>2. /\ n \in Nat /\ f = h[n] /\ (f.stm.op # "DFun" <=> n > 1)
        /\ Path(cgFn, NoStm, cgFrames) = Route(cgFn, h, n)
        /\ (cgNode = NoStm => At(cgNode, cgFrames) = e.stm)
    BY <1>1, <2>1, MatchedIs, HandlersAt
  <2> QED BY <1>3, <2>1, <2>2
<1>5. Visits(h, n, s, cgFn)
  BY <1>3, <1>4 DEF Visits
<1>6. visitEIds(symbols) /\ phase' # "thrown" /\ IsSeq(symbols) /\ Noted(program, typed)
       /\ BoundIn(loads, typed, program) /\ program[cgFn] = F
  BY <1>2, MatchedIs
<1> QED BY <1>1, <1>2, <1>5, <1>6, VisitBound

LEMMA NothingVisited ==
  ASSUME Matched, visitEIds(symbols), Generated # <<>> => DOMAIN Generated \cap DOMAIN At(cgNode, cgFrames).exps = {}
  PROVE  BoundIn(loads', typed, program)
<1>1. loads' = loads
  BY MatchedIs, NoVisit
<1> QED BY <1>1, MatchedIs

-----------------------------------------------------------------------------
(* The handlers of the code generator, one by one *)

(* What a handler starts from, in names.                                   *)
LEMMA MatchedFrom ==
  ASSUME Matched, NEW h, h = Handlers, NEW F, F = Fun, NEW a, a = cgArg, NEW c, c = PlacesOf(symbols),
         NEW T, T = DOMAIN typed
  PROVE  Steady(F, cgFn, h, cgNode, a, c, T) /\ Alike(c, c) /\ a = Len(F.args)
<1>1. Tracking /\ IsSeq(symbols) /\ Len(symbols) >= 1 /\ a = Len(F.args)
  BY MatchedIs
<1>2. Alike(c, c)
  BY <1>1, PlacesSelf
<1> QED BY <1>1, <1>2 DEF Tracking

LEMMA LeafMatch ==
  ASSUME Matched, UNCHANGED symbols, visitEIds(symbols),
         Cg!visitSExp \/ Cg!visitSReturn \/ Cg!visitSReturnV
  PROVE  Matching'
<1>1. /\ UNCHANGED cgFrames /\ cgNode' = NoStm
      /\ cgNode # NoStm /\ cgNode.op \in {"SExp", "SReturn", "SReturnV"}
  BY DEF Cg!visitSExp, Cg!visitSReturn, Cg!visitSReturnV, Cg!Entering, Cg!Leaf, Cg!fixed
<1>2. PICK h, F, a, c, T, s : /\ h = Handlers /\ F = Fun /\ a = cgArg /\ c = PlacesOf(symbols)
                              /\ T = DOMAIN typed /\ s = cgNode
  OBVIOUS
<1>3. Steady(F, cgFn, h, s, a, c, T)
  BY <1>2, MatchedFrom
<1>4. Handlers' = h /\ s \in Stm
  BY <1>1, <1>2, MatchedIs, GenFacts DEF Handlers
<1>5. Steady(F, cgFn, h, NoStm, a, c, T)
  BY <1>1, <1>2, <1>3, <1>4, NothingAround, SteadyLeaf
<1>6. BoundIn(loads', typed, program)
  <2>1. Generated # <<>> => \A k \in DOMAIN Generated \cap DOMAIN s.exps : Afterwards(s, k) = 0
    <3>1. s.op # "SReturnV" => \A k \in DOMAIN Generated : k = 1
      BY <1>1, <1>2 DEF Generated
    <3>2. s.op = "SReturnV" => Generated = <<>>
      BY <1>1, <1>2 DEF Generated
    <3> QED BY <1>1, <1>2, <3>1, <3>2 DEF Afterwards
  <2> QED BY <1>1, <1>2, <2>1, EnterVisit DEF ScopeOps
<1> QED BY <1>1, <1>2, <1>4, <1>5, <1>6, ToMatching

LEMMA EnterMatch ==
  ASSUME Matched, UNCHANGED symbols, visitEIds(symbols),
         Cg!visitSWhile \/ Cg!visitSDoWhile \/ Cg!visitSFor \/ Cg!visitSIfElse
  PROVE  Matching'
<1>1. /\ cgNode # NoStm /\ cgNode' = cgNode.kids[1]
      /\ cgNode.op \in {"SWhile", "SDoWhile", "SFor", "SIfElse"}
      /\ \E b : cgFrames' = Append(cgFrames, Cg!Frame(cgNode, 1, b))
  <2>1. CASE Cg!visitSWhile
    BY <2>1 DEF Cg!visitSWhile, Cg!Entering, Cg!Call, Cg!fixed
  <2>2. CASE Cg!visitSDoWhile
    BY <2>2 DEF Cg!visitSDoWhile, Cg!Entering, Cg!Call, Cg!fixed
  <2>3. CASE Cg!visitSFor
    BY <2>3 DEF Cg!visitSFor, Cg!Entering, Cg!Call, Cg!fixed
  <2>4. CASE Cg!visitSIfElse
    BY <2>4 DEF Cg!visitSIfElse, Cg!Entering, Cg!Call, Cg!fixed
  <2> QED BY <2>1, <2>2, <2>3, <2>4
<1>2. PICK h, F, a, c, T, s : /\ h = Handlers /\ F = Fun /\ a = cgArg /\ c = PlacesOf(symbols)
                              /\ T = DOMAIN typed /\ s = cgNode
  OBVIOUS
<1>3. Steady(F, cgFn, h, s, a, c, T) /\ Alike(c, c)
  BY <1>2, MatchedFrom
<1>4. Handlers' = Append(h, Frame(s, 1)) /\ s \in Stm
  <2>1. s \in Stm
    BY <1>1, <1>2, MatchedIs, GenFacts
  <2>2. PICK b : cgFrames' = Append(cgFrames, Cg!Frame(s, 1, b))
    BY <1>1, <1>2
  <2> QED BY <1>2, <2>1, <2>2, MatchedIs, HandlersCall
<1>5. PICK g, nd2 : g = Append(h, Frame(s, 1)) /\ nd2 = s.kids[1]
  OBVIOUS
<1>6. Steady(F, cgFn, g, nd2, a, c, T)
  <2>1. s # NoStm /\ nd2 \in Stm /\ s.op # "SDecls" /\ 1 \in DOMAIN s.kids
    BY <1>1, <1>2, <1>4, <1>5, StmKids
  <2>2. Alike(Begun(c, s), c)
    BY <1>1, <1>2, <1>3 DEF Begun, ScopeOps
  <2>3. PICK k : k = 1
    OBVIOUS
  <2>4. g = Append(h, Frame(s, k)) /\ k = 1
    BY <1>5, <2>3
  <2> QED BY <1>3, <1>5, <2>1, <2>2, <2>4, SteadyCall
<1>7. BoundIn(loads', typed, program)
  <2>1. Generated # <<>> => \A k \in DOMAIN Generated \cap DOMAIN s.exps : Afterwards(s, k) = 0
    <3>1. s.op \in {"SWhile", "SIfElse"} => \A k \in DOMAIN Generated : k = 1
      BY <1>1, <1>2 DEF Generated
    <3>2. s.op = "SFor" => \A k \in DOMAIN Generated : k = 1 \/ k = 2
      BY <1>1, <1>2 DEF Generated
    <3>3. s.op = "SDoWhile" => Generated = <<>>
      BY <1>1, <1>2 DEF Generated
    <3> QED BY <1>1, <1>2, <3>1, <3>2, <3>3 DEF Afterwards
  <2> QED BY <1>1, <1>2, <2>1, EnterVisit DEF ScopeOps
<1> QED BY <1>1, <1>2, <1>4, <1>5, <1>6, <1>7, ToMatching

LEMMA DeclsMatch ==
  ASSUME Matched, UNCHANGED symbols, visitEIds(symbols), Cg!visitSDecls
  PROVE  Matching'
<1>1. /\ cgNode # NoStm /\ cgNode' = NoStm /\ cgNode.op = "SDecls"
      /\ cgFrames' = Append(cgFrames, Cg!Frame(cgNode, 0, 0))
  BY DEF Cg!visitSDecls, Cg!Entering, Cg!Call, Cg!fixed
<1>2. PICK h, F, a, c, T, s : /\ h = Handlers /\ F = Fun /\ a = cgArg /\ c = PlacesOf(symbols)
                              /\ T = DOMAIN typed /\ s = cgNode
  OBVIOUS
<1>3. Steady(F, cgFn, h, s, a, c, T) /\ Alike(c, c)
  BY <1>2, MatchedFrom
<1>4. Handlers' = Append(h, Frame(s, 0))
  BY <1>1, <1>2, MatchedIs, HandlersCall
<1>5. PICK g, k, nd2 : k = 0 /\ nd2 = NoStm /\ g = Append(h, Frame(s, k))
  OBVIOUS
<1>6. Steady(F, cgFn, g, nd2, a, c, T)
  <2>1. Alike(Begun(c, s), c)
    BY <1>1, <1>2, <1>3 DEF Begun, ScopeOps
  <2> QED BY <1>1, <1>2, <1>3, <1>5, <2>1, SteadyCall
<1>7. BoundIn(loads', typed, program)
  <2>1. Generated = <<>>
    BY <1>1 DEF Generated
  <2> QED BY <2>1, NothingVisited
<1> QED BY <1>1, <1>2, <1>4, <1>5, <1>6, <1>7, ToMatching

(* A block opens its context.                                              *)
LEMMA BlockMatch ==
  ASSUME Matched, UNCHANGED loads, Cg!visitSBlock, beginCodeGenContext
  PROVE  Matching'
<1>1. /\ cgNode # NoStm /\ cgNode' = NoStm /\ cgNode.op = "SBlock"
      /\ cgFrames' = Append(cgFrames, Cg!Frame(cgNode, 0, 0))
  BY DEF Cg!visitSBlock, Cg!Entering, Cg!Call, Cg!fixed
<1>2. PICK h, F, a, c, T, s : /\ h = Handlers /\ F = Fun /\ a = cgArg /\ c = PlacesOf(symbols)
                              /\ T = DOMAIN typed /\ s = cgNode
  OBVIOUS
<1>3. Steady(F, cgFn, h, s, a, c, T)
  BY <1>2, MatchedFrom
<1>4. Handlers' = Append(h, Frame(s, 0))
  BY <1>1, <1>2, MatchedIs, HandlersCall
<1>5. PICK g, k, nd2 : k = 0 /\ nd2 = NoStm /\ g = Append(h, Frame(s, k))
  OBVIOUS
<1>6. PICK old, new, d : old = symbols /\ new = symbols' /\ new = Append(old, NoMembers) /\ d = PlacesOf(new)
  BY DEF beginCodeGenContext
<1>7. Alike(Append(c, NoMembers), d)
  BY <1>2, <1>6, MatchedIs, PlacesOpen
<1>8. Alike(Begun(c, s), d)
  BY <1>1, <1>2, <1>7 DEF Begun, ScopeOps
<1>9. Steady(F, cgFn, g, nd2, a, d, T)
  BY <1>1, <1>2, <1>3, <1>5, <1>8, SteadyCall
<1>10. BoundIn(loads', typed, program)
  BY MatchedIs
<1> QED BY <1>1, <1>2, <1>4, <1>5, <1>6, <1>9, <1>10, ToMatching

-----------------------------------------------------------------------------
(* A handler goes on to its next part.                                     *)
LEMMA OnMatch ==
  ASSUME Matched, UNCHANGED symbols, visitEIds(symbols), Generated = <<>>, cgNode = NoStm,
         NEW e, NEW f, IsTop(e, f), NEW s, s = f.stm, s.op # "SDecls",
         NEW q, q = f.pos + 1, q \in DOMAIN s.kids, s.kids[q] \in Stm, cgNode' = s.kids[q],
         cgFrames' = Append(SubSeq(cgFrames, 1, Len(cgFrames) - 1), Cg!Frame(e.stm, q, e.base))
  PROVE  Matching'
<1>1. PICK h, F, a, c, T, n : /\ h = Handlers /\ F = Fun /\ a = cgArg /\ c = PlacesOf(symbols)
                              /\ T = DOMAIN typed /\ n = Len(h)
  OBVIOUS
<1>2. Steady(F, cgFn, h, NoStm, a, c, T) /\ Alike(c, c) /\ a = Len(F.args)
  BY <1>1, MatchedFrom
<1>3. f = h[n]
  BY <1>1, MatchedIs, HandlersAt
<1>4. PICK g, nd2 : g = Append(SubSeq(h, 1, n - 1), Frame(s, q)) /\ nd2 = s.kids[q] /\ nd2 \in Stm
  OBVIOUS
<1>5. Handlers' = g
  BY <1>1, <1>4, MatchedIs, HandlersOn
<1>6. Steady(F, cgFn, g, nd2, a, c, T)
  BY <1>1, <1>2, <1>3, <1>4, SteadyOn
<1>7. BoundIn(loads', typed, program)
  BY NothingVisited
<1> QED BY <1>1, <1>4, <1>5, <1>6, <1>7, ToMatching

LEMMA NextMatch ==
  ASSUME Matched, UNCHANGED symbols, visitEIds(symbols), Cg!visitNext
  PROVE  Matching'
<1>1. PICK e, f : IsTop(e, f)
  BY MatchedIs, TopIs
<1>2. /\ cgNode = NoStm /\ e.stm.op \in {"DFun", "SBlock"}
      /\ e.pos < Len(e.stm.kids) /\ cgNode' = e.stm.kids[e.pos + 1]
      /\ cgFrames' = Append(SubSeq(cgFrames, 1, Len(cgFrames) - 1), [e EXCEPT !.pos = @ + 1])
  BY <1>1 DEF IsTop, Cg!visitNext, Cg!InList, Cg!Top, Cg!Pop, Cg!fixed
<1>3. PICK s, q : s = f.stm /\ q = f.pos + 1
  OBVIOUS
<1>4. e.pos = f.pos /\ f.pos \in Nat /\ e.stm.kids = s.kids /\ s.op = e.stm.op
      /\ e = Cg!Frame(e.stm, e.pos, e.base)
      /\ (s.op = "DFun" => s = Fun) /\ (s.op # "DFun" => s \in Stm)
  BY <1>1, <1>3 DEF IsTop
<1>5. s.kids \in Seq(Stm)
  <2>1. Fun.kids \in Seq(Stm)
    <3>1. Fun \in Function
      BY MatchedIs, GenFacts
    <3> QED BY <3>1 DEF Function
  <2> QED BY <1>2, <1>4, <2>1, StmParts
<1>6. q \in DOMAIN s.kids /\ s.kids[q] \in Stm /\ cgNode' = s.kids[q]
  BY <1>2, <1>3, <1>4, <1>5
<1>7. [e EXCEPT !.pos = @ + 1] = Cg!Frame(e.stm, q, e.base)
  BY <1>3, <1>4 DEF Cg!Frame
<1>8. Generated = <<>>
  <2>1. Cg!Top = e /\ cgFrames[Len(cgFrames)] = e
    BY <1>1 DEF IsTop, Cg!Top
  <2> QED BY <1>2, <2>1 DEF Generated, Cg!Resuming, Cg!InDecls
<1> QED BY <1>1, <1>2, <1>3, <1>4, <1>6, <1>7, <1>8, OnMatch

LEMMA ElseMatch ==
  ASSUME Matched, UNCHANGED symbols, visitEIds(symbols), Cg!elseSIfElse
  PROVE  Matching'
<1>1. PICK e, f : IsTop(e, f)
  BY MatchedIs, TopIs
<1>2. /\ cgNode = NoStm /\ e.stm.op = "SIfElse"
      /\ e.pos = 1 /\ cgNode' = e.stm.kids[2]
      /\ cgFrames' = Append(SubSeq(cgFrames, 1, Len(cgFrames) - 1), [e EXCEPT !.pos = 2])
  BY <1>1 DEF IsTop, Cg!elseSIfElse, Cg!Resuming, Cg!Top, Cg!Pop, Cg!fixed
<1>3. PICK s, q : s = f.stm /\ q = f.pos + 1
  OBVIOUS
<1>4. e.pos = f.pos /\ e.stm = s /\ s \in Stm /\ e = Cg!Frame(e.stm, e.pos, e.base)
  BY <1>1, <1>2, <1>3 DEF IsTop
<1>5. q = 2 /\ q \in DOMAIN s.kids /\ s.kids[q] \in Stm
  BY <1>2, <1>3, <1>4, StmKids
<1>6. [e EXCEPT !.pos = 2] = Cg!Frame(e.stm, q, e.base)
  BY <1>4, <1>5 DEF Cg!Frame
<1>7. Generated = <<>>
  <2>1. Cg!Top = e /\ cgFrames[Len(cgFrames)] = e
    BY <1>1 DEF IsTop, Cg!Top
  <2> QED BY <1>2, <2>1 DEF Generated, Cg!Resuming, Cg!InDecls
<1> QED BY <1>1, <1>2, <1>3, <1>4, <1>5, <1>6, <1>7, OnMatch

(* A handler without a scope of its own returns.                           *)
LEMMA EndMatch ==
  ASSUME Matched, UNCHANGED symbols, visitEIds(symbols),
         Cg!endSDecls \/ Cg!endSWhile \/ Cg!endSDoWhile \/ Cg!endSFor \/ Cg!endSIfElse
  PROVE  Matching'
<1>1. PICK e, f : IsTop(e, f)
  BY MatchedIs, TopIs
<1>2. e = Cg!Top /\ e = cgFrames[Len(cgFrames)]
  BY <1>1 DEF IsTop, Cg!Top
<1>3. /\ cgNode = NoStm /\ cgNode' = NoStm
      /\ cgFrames' = SubSeq(cgFrames, 1, Len(cgFrames) - 1)
  BY DEF Cg!endSDecls, Cg!endSWhile, Cg!endSDoWhile, Cg!endSFor, Cg!endSIfElse, Cg!Resuming,
         Cg!InDecls, Cg!Return, Cg!Pop, Cg!fixed
<1>4. \/ e.stm.op \in {"SWhile", "SFor", "SDoWhile"} /\ e.pos = 1
      \/ e.stm.op = "SIfElse" /\ e.pos = 2
      \/ e.stm.op = "SDecls" /\ e.pos = Len(e.stm.exps)
  BY <1>2 DEF Cg!endSDecls, Cg!endSWhile, Cg!endSDoWhile, Cg!endSFor, Cg!endSIfElse, Cg!Resuming,
              Cg!InDecls
<1>5. PICK h, F, a, c, T, n, s : /\ h = Handlers /\ F = Fun /\ a = cgArg /\ c = PlacesOf(symbols)
                                 /\ T = DOMAIN typed /\ n = Len(h) /\ s = f.stm
  OBVIOUS
<1>6. e.stm = s /\ f.pos = e.pos /\ s \in Stm /\ s.op # "DFun" /\ s.op \notin ScopeOps
  BY <1>1, <1>4, <1>5 DEF IsTop, ScopeOps
<1>7. Steady(F, cgFn, h, NoStm, a, c, T) /\ Alike(c, c)
  BY <1>3, <1>5, MatchedFrom
<1>8. f = h[n] /\ n > 1
  BY <1>1, <1>5, <1>6, MatchedIs, HandlersAt
<1>9. PICK g : g = SubSeq(h, 1, n - 1)
  OBVIOUS
<1>10. Handlers' = g
  BY <1>3, <1>5, <1>9, MatchedIs, HandlersReturn
<1>11. Steady(F, cgFn, g, NoStm, a, c, T)
  <2>1. s.op = "SDecls" => f.pos = Len(s.exps)
    BY <1>4, <1>6
  <2>2. s.op # "SDecls" => DOMAIN s.kids = 1 .. f.pos
    BY <1>4, <1>6, StmKids
  <2> QED BY <1>5, <1>6, <1>7, <1>8, <1>9, <2>1, <2>2, SteadyReturn
<1>12. BoundIn(loads', typed, program)
  <2>1. CASE s.op \in {"SDoWhile", "SFor"}
    <3>1. s.op = "SDoWhile" => \A k \in DOMAIN Generated : k = 1
      BY <1>2, <1>3, <1>6 DEF Generated, Cg!Resuming, Cg!InDecls
    <3>2. s.op = "SFor" /\ Generated # <<>> => \A k \in DOMAIN Generated : k = 3
      BY <1>2, <1>3, <1>6 DEF Generated, Cg!Resuming, Cg!InDecls
    <3>3. Generated # <<>> => \A k \in DOMAIN Generated \cap DOMAIN s.exps : f.pos = Afterwards(s, k)
      BY <1>4, <1>6, <2>1, <3>1, <3>2 DEF Afterwards
    <3> QED BY <1>1, <1>3, <1>5, <1>6, <3>3, TopVisit
  <2>2. CASE s.op = "SDecls"
    <3>1. \A k \in DOMAIN Generated : k = Len(s.exps) + 1
      BY <1>2, <1>3, <1>4, <1>6, <2>2 DEF Generated, Cg!Resuming, Cg!InDecls
    <3>2. Len(s.exps) + 1 \notin DOMAIN s.exps
      <4>1. s.exps \in Seq(IdIn)
        BY <1>6, <2>2, StmParts
      <4> QED BY <4>1
    <3>3. At(cgNode, cgFrames) = s
      BY <1>2, <1>3, <1>6 DEF At
    <3> QED BY <3>1, <3>2, <3>3, NothingVisited
  <2>3. CASE s.op \in {"SWhile", "SIfElse"}
    <3>1. Generated = <<>>
      BY <1>2, <1>3, <1>6, <2>3 DEF Generated, Cg!Resuming, Cg!InDecls
    <3> QED BY <3>1, NothingVisited
  <2> QED BY <1>4, <1>6, <2>1, <2>2, <2>3
<1> QED BY <1>3, <1>5, <1>9, <1>10, <1>11, <1>12, ToMatching

(* A block closes its context, broken off or not.                          *)
LEMMA EndBlockMatch ==
  ASSUME Matched, UNCHANGED loads, Cg!endSBlock, endCodeGenContext
  PROVE  Matching'
<1>1. PICK e, f : IsTop(e, f)
  BY MatchedIs, TopIs
<1>2. /\ cgNode = NoStm /\ cgNode' = NoStm /\ e.stm.op = "SBlock"
      /\ cgFrames' = SubSeq(cgFrames, 1, Len(cgFrames) - 1)
  BY <1>1 DEF IsTop, Cg!endSBlock, Cg!ListDone, Cg!InList, Cg!Return, Cg!Top, Cg!Pop, Cg!fixed
<1>3. PICK h, F, a, c, T, n : /\ h = Handlers /\ F = Fun /\ a = cgArg /\ c = PlacesOf(symbols)
                              /\ T = DOMAIN typed /\ n = Len(h)
  OBVIOUS
<1>4. f.stm.op = "SBlock"
  BY <1>1, <1>2 DEF IsTop
<1>5. f = h[n] /\ n > 1
  BY <1>1, <1>3, <1>4, MatchedIs, HandlersAt
<1>6. Steady(F, cgFn, h, NoStm, a, c, T)
  BY <1>2, <1>3, MatchedFrom
<1>7. PICK g : g = SubSeq(h, 1, n - 1)
  OBVIOUS
<1>8. Handlers' = g
  BY <1>2, <1>3, <1>7, MatchedIs, HandlersReturn
<1>9. PICK old, new, d : /\ old = symbols /\ new = symbols' /\ new = SubSeq(old, 1, Len(old) - 1)
                         /\ d = PlacesOf(new)
  BY DEF endCodeGenContext
<1>10. IsSeq(old) /\ Len(old) > 1
  BY <1>9, MatchedIs, GenFacts
<1>11. Alike(SubSeq(c, 1, Len(c) - 1), d)
  BY <1>3, <1>9, <1>10, PlacesClose
<1>12. Steady(F, cgFn, g, NoStm, a, d, T)
  BY <1>3, <1>4, <1>5, <1>6, <1>7, <1>11, SteadyClose
<1>13. BoundIn(loads', typed, program)
  BY MatchedIs
<1> QED BY <1>2, <1>3, <1>7, <1>8, <1>9, <1>12, <1>13, ToMatching

(* A declaration enters its next name, and then visits the initialiser.    *)
LEMMA IdMatch ==
  ASSUME Matched, visitDeclarator
  PROVE  Matching'
<1>1. PICK e, f : IsTop(e, f)
  BY MatchedIs, TopIs
<1>2. /\ cgNode = NoStm /\ cgNode' = NoStm
      /\ e.stm.op = "SDecls" /\ e.pos < Len(e.stm.exps)
      /\ cgFrames' = Append(SubSeq(cgFrames, 1, Len(cgFrames) - 1), [e EXCEPT !.pos = @ + 1])
      /\ cgFrames[Len(cgFrames)] = e /\ Cg!Top = e
  BY <1>1 DEF visitDeclarator, IsTop, Cg!visitIdInit, Cg!InDecls, Cg!Top, Cg!Pop, Cg!fixed
<1>3. PICK h, F, a, c, T, n, s, k : /\ h = Handlers /\ F = Fun /\ a = cgArg /\ c = PlacesOf(symbols)
                                    /\ T = DOMAIN typed /\ n = Len(h) /\ s = f.stm /\ k = f.pos + 1
  OBVIOUS
<1>4. e.stm = s /\ f.pos = e.pos /\ s \in Stm /\ s.op = "SDecls" /\ f.pos \in Nat
      /\ e = Cg!Frame(e.stm, e.pos, e.base)
  BY <1>1, <1>2, <1>3 DEF IsTop
<1>5. f = h[n] /\ n > 1 /\ n \in Nat /\ Path(cgFn, NoStm, cgFrames) = Route(cgFn, h, n)
      /\ At(cgNode, cgFrames) = s
  <2>1. /\ n \in Nat /\ f = h[n] /\ (f.stm.op # "DFun" <=> n > 1)
        /\ Path(cgFn, NoStm, cgFrames) = Route(cgFn, h, n)
        /\ (cgNode = NoStm => At(cgNode, cgFrames) = e.stm)
    BY <1>1, <1>3, MatchedIs, HandlersAt
  <2> QED BY <1>2, <1>3, <1>4, <2>1
<1>6. PICK x, t, p, new, d : /\ x = s.exps[k].name /\ t = findBasicType(types, s.type)
                             /\ p = Append(Route(cgFn, h, n), k) /\ new = symbols'
                             /\ d = PlacesOf(new)
  OBVIOUS
<1>7. new = Added(x, Symbol(p, t)) /\ visitEIds(new)
  BY <1>2, <1>3, <1>4, <1>5, <1>6 DEF visitDeclarator
<1>8. x \notin DOMAIN symbols[Len(symbols)]
  <2>1. PICK kn, g2, top2, d2, id :
          /\ kn = Known(symbols) /\ g2 = [f EXCEPT !.pos = @ + 1] /\ id = s.exps[f.pos + 1]
          /\ top2 = Append(SubSeq(h, 1, Len(h) - 1), g2)
          /\ d2 = [kn EXCEPT ![Len(kn)] = Emplace(kn[Len(kn)], id.name, t)]
    OBVIOUS
  <2>2. InOrder(h, NoStm, a, kn, F)
    BY <1>2, <1>3, <2>1, MatchedIs, GenFacts
  <2>3. /\ s = f.stm /\ f = h[Len(h)] /\ f.pos < Len(s.exps) /\ t = findBasicType(types, s.type) /\ s.op = "SDecls"
    BY <1>2, <1>3, <1>4, <1>5, <1>6
  <2>4. NewId(id, t, kn, top2, a, d2, F)
    BY ONLY <2>1, <2>2, <2>3, IdOrder
  <2>5. id.name \notin DOMAIN kn[Len(kn)] /\ id.name = x
    BY <1>3, <1>6, <2>1, <2>4 DEF NewId
  <2>6. IsKnown(symbols, kn) /\ Len(symbols) > 1
    BY <2>1, MatchedIs, GenFacts
  <2>7. kn[Len(kn)] = [y \in DOMAIN symbols[Len(symbols)] |-> symbols[Len(symbols)][y].type]
    BY <2>6 DEF IsKnown
  <2> QED BY <2>5, <2>7
<1>9. IsSeq(symbols) /\ Len(symbols) >= 1
  BY MatchedIs
<1>10. Gains(c, {<<x, p>>}, d)
  <2>1. PICK old : old = symbols
    OBVIOUS
  <2>2. new = [old EXCEPT ![Len(old)] = Emplace(@, x, Symbol(p, t))]
    BY <1>7, <2>1 DEF Added
  <2>3. IsSeq(old) /\ Len(old) >= 1 /\ x \notin DOMAIN old[Len(old)] /\ c = PlacesOf(old)
    BY <1>3, <1>8, <1>9, <2>1
  <2> QED BY ONLY <1>6, <2>2, <2>3, PlacesAdd
<1>11. Steady(F, cgFn, h, NoStm, a, c, T) /\ a = Len(F.args)
  BY <1>2, <1>3, MatchedFrom
<1>12. PICK g : g = Append(SubSeq(h, 1, n - 1), Frame(s, k))
  OBVIOUS
<1>13. Handlers' = g
  <2>1. [e EXCEPT !.pos = @ + 1] = Cg!Frame(e.stm, k, e.base)
    BY <1>3, <1>4 DEF Cg!Frame
  <2>2. cgFrames' = Append(SubSeq(cgFrames, 1, Len(cgFrames) - 1), Cg!Frame(e.stm, k, e.base))
    BY <1>2, <2>1
  <2>3. Handlers' = Append(SubSeq(Handlers, 1, Len(Handlers) - 1), Frame(f.stm, k))
    BY <1>1, <2>2, MatchedIs, HandlersOn
  <2> QED BY <1>3, <1>12, <2>3
<1>14. Steady(F, cgFn, g, NoStm, a, d, T)
  BY <1>3, <1>4, <1>5, <1>6, <1>10, <1>11, <1>12, SteadyDeclare
<1>15. Len(g) = n /\ g[n] = Frame(s, k) /\ \A i \in 1 .. n - 1 : g[i] = h[i]
  <2>1. h \in Seq(FrameSet) /\ n >= 1 /\ Frame(s, k) \in FrameSet
    BY <1>3, <1>4, <1>5, MatchedIs, GenFacts DEF FrameSet, Frame
  <2> QED BY <1>3, <1>12, <2>1, Advanced2
<1>16. Visits(g, n, s, cgFn)
  <2>1. g[n].stm = s /\ g[n].pos = k
    BY <1>15 DEF Frame
  <2>2. Route(cgFn, g, n) = Route(cgFn, h, n)
    <3>1. \A i \in 1 .. n - 1 : g[i].pos = h[i].pos
      BY <1>15
    <3> QED BY <3>1, RouteSame
  <2>3. \A j \in DOMAIN Generated : j = k
    BY <1>2, <1>3, <1>4 DEF Generated, Cg!Resuming, Cg!InDecls
  <2>4. \A j \in DOMAIN Generated : Afterwards(s, j) = k
    BY <1>4, <2>3 DEF Afterwards
  <2>5. s.op \notin ScopeOps
    BY <1>4 DEF ScopeOps
  <2> QED BY <1>2, <1>4, <1>5, <1>15, <2>1, <2>2, <2>4, <2>5 DEF Visits
<1>17. IsSeq(new)
  BY <1>6, MatchedIs, Adding, <1>7 DEF Outermost
<1>18. BoundIn(loads', typed, program)
  <2>1. phase' # "thrown" /\ Noted(program, typed) /\ BoundIn(loads, typed, program) /\ program[cgFn] = F
    BY <1>3, MatchedIs DEF Fun
  <2>2. Steady(F, cgFn, g, NoStm, Len(F.args), d, DOMAIN typed)
    BY <1>3, <1>11, <1>14
  <2> QED BY <1>6, <1>7, <1>16, <1>17, <2>1, <2>2, VisitBound
<1> QED BY <1>2, <1>3, <1>6, <1>12, <1>13, <1>14, <1>18, ToMatching

-----------------------------------------------------------------------------
LEMMA ArgMatch ==
  ASSUME visitArgument, Generating, Matching
  PROVE  Matching'
<1>1. PICK h, F, a, c, T, f : /\ h = Handlers /\ F = Fun /\ a = cgArg /\ c = PlacesOf(symbols)
                              /\ T = DOMAIN typed /\ f = cgFn
  OBVIOUS
<1>2. PICK one, p : one = F.args[a + 1] /\ p = <<f, 0, a + 1>>
  OBVIOUS
<1>3. /\ a < Len(F.args) /\ cgArg' = a + 1 /\ symbols' = Added(one.name, Symbol(p, one.type))
      /\ program' = program /\ cgFn' = cgFn /\ typed' = typed /\ loads' = loads
      /\ cgFrames' = cgFrames /\ cgNode' = cgNode
  BY <1>1, <1>2 DEF visitArgument, Arguments, Fun, passed, vars, blocks, history
<1>4. Len(cgFrames) = 1 /\ cgNode = NoStm
  <2>1. F.args \in Seq([name : Id, type : DOMAIN types \ {TYPE_VOID}])
    BY <1>1, GenFacts, FunParts DEF Function
  <2>2. a # Len(F.args)
    BY <1>3, <2>1
  <2> QED BY <1>1, <2>2 DEF Generating
<1>5. Len(h) = 1 /\ h[1].stm = F
  <2>1. IsKept(cgFrames, F, h)
    BY <1>1, GenFacts
  <2>2. h[1] = Frame(F, cgFrames[1].pos)
    BY <1>4, <2>1 DEF IsKept
  <2> QED BY <1>4, <2>1, <2>2 DEF IsKept, Frame
<1>6. PICK x, t, new, d : x = one.name /\ t = one.type /\ new = symbols' /\ d = PlacesOf(new)
  OBVIOUS
<1>7. x \notin DOMAIN symbols[Len(symbols)]
  <2>1. PICK kn, d2, s : /\ kn = Known(symbols) /\ s = h[1].stm
                         /\ d2 = [kn EXCEPT ![Len(kn)] = Emplace(kn[Len(kn)], one.name, one.type)]
    OBVIOUS
  <2>2. InOrder(h, NoStm, a, kn, F)
    BY <1>1, <1>4, <2>1, GenFacts
  <2>3. Len(h) = 1 /\ a < Len(s.args) /\ one = s.args[a + 1]
    BY <1>2, <1>3, <1>5, <2>1
  <2>4. NewArg(one, kn, h, a, d2, F)
    BY ONLY <2>1, <2>2, <2>3, ArgOrder
  <2>5. x \notin DOMAIN kn[Len(kn)]
    BY <1>6, <2>4 DEF NewArg
  <2>6. IsKnown(symbols, kn) /\ Len(symbols) > 1
    BY <2>1, GenFacts
  <2>7. kn[Len(kn)] = [y \in DOMAIN symbols[Len(symbols)] |-> symbols[Len(symbols)][y].type]
    BY <2>6 DEF IsKnown
  <2> QED BY <2>5, <2>7
<1>8. Gains(c, {<<x, p>>}, d)
  <2>1. PICK old : old = symbols
    OBVIOUS
  <2>2. new = [old EXCEPT ![Len(old)] = Emplace(@, x, Symbol(p, t))]
    BY <1>3, <1>6, <2>1 DEF Added
  <2>3. IsSeq(old) /\ Len(old) >= 1 /\ x \notin DOMAIN old[Len(old)] /\ c = PlacesOf(old)
    <3>1. IsKnown(old, Known(old)) /\ Len(old) > 1
      BY <2>1, GenFacts
    <3> QED BY <1>1, <1>7, <2>1, <3>1 DEF IsKnown
  <2> QED BY ONLY <1>6, <2>2, <2>3, PlacesAdd
<1>9. Steady(F, f, h, NoStm, a, c, T)
  BY <1>1, <1>4 DEF Matching, Tracking
<1>10. Gains(c, {Arg(F, <<f>>, a + 1)}, d)
  <2>1. Arg(F, <<f>>, a + 1) = <<x, p>>
    BY <1>2, <1>6 DEF Arg
  <2> QED BY <1>8, <2>1
<1>11. Steady(F, f, h, NoStm, a + 1, d, T)
  BY <1>5, <1>9, <1>10, SteadyArg
<1>12. Fun' = F /\ Handlers' = h
  BY <1>1, <1>3 DEF Fun, Handlers
<1>13. Tracking'
  BY <1>1, <1>3, <1>4, <1>6, <1>11, <1>12 DEF Tracking
<1> QED BY <1>3, <1>13 DEF Matching

(* A function begins, with nothing declared yet.                           *)
LEMMA BodyMatch ==
  ASSUME visitDFunBody, program \in Seq(Function), Between,
         cgFn' \in 1 .. Len(program) => Covered(program[cgFn'], <<cgFn'>>, DOMAIN typed)
  PROVE  Matching'
<1>1. PICK n, top, F, new, T : /\ n = cgFn + 1 /\ F = program[cgFn + 1]
                               /\ top = cgFrames' /\ new = symbols' /\ T = DOMAIN typed
  OBVIOUS
<1>2. /\ cgFn < Len([i \in DOMAIN program |-> Lowered(program[i])])
      /\ cgFn' = n /\ cgNode' = NoStm
      /\ top = <<Cg!Frame(Cg!FunctionNode([i \in DOMAIN program |-> Lowered(program[i])][n]), 0, 0)>>
      /\ cgArg' = 0 /\ new = Append(symbols, NoMembers) /\ loads' = {}
      /\ program' = program /\ typed' = typed
  BY <1>1 DEF visitDFunBody, Cg!visitDFun, beginCodeGenContext, passed, vars, history
<1>3. symbols = <<NoMembers>> /\ cgFn \in 0 .. Len(program)
  BY DEF Between
<1>4. n \in 1 .. Len(program) /\ n \in DOMAIN program /\ n \in Nat
  <2>1. Len(program) \in Nat /\ DOMAIN program = 1 .. Len(program)
    OBVIOUS
  <2>2. Len([i \in DOMAIN program |-> Lowered(program[i])]) = Len(program)
    <3>1. PICK m, l : m = Len(program) /\ l = [i \in DOMAIN program |-> Lowered(program[i])]
      OBVIOUS
    <3>2. l = [i \in 1 .. m |-> l[i]] /\ m \in Nat
      BY <2>1, <3>1
    <3> QED BY <3>1, <3>2, SeqOf
  <2> QED BY <1>1, <1>2, <1>3, <2>1, <2>2
<1>5. F \in Function /\ Covered(F, <<n>>, T)
  BY <1>1, <1>2, <1>4
<1>6. PICK h : h = <<Frame(F, 0)>>
  OBVIOUS
<1>7. Kept(top, F) = h
  <2>1. PICK e : top = <<e>> /\ e.pos = 0
    BY <1>2 DEF Cg!Frame
  <2>2. DOMAIN top = {1} /\ top[1].pos = 0
    BY <2>1
  <2>3. Kept(top, F) = [i \in {1} |-> Frame(F, 0)]
    BY <2>2 DEF Kept
  <2> QED BY <1>6, <2>3
<1>8. PICK old, c, d : old = symbols /\ c = PlacesOf(old) /\ d = PlacesOf(new)
  OBVIOUS
<1>9. Alike(<<NoMembers>>, c)
  <2>1. old \in Seq({NoMembers}) /\ Len(old) = 1 /\ old[1] = NoMembers
    BY <1>3, <1>8
  <2>2. ArePlaces(old, c)
    BY <1>8, <2>1, PlacesAre DEF IsSeq
  <2>3. IsSeq(c) /\ Len(c) = 1 /\ c[1] = PlaceMap(NoMembers)
    BY <2>1, <2>2 DEF ArePlaces
  <2>4. SameMap(NoMembers, c[1])
    BY <2>3 DEF SameMap, PlaceMap, NoMembers
  <2>5. <<NoMembers>> \in Seq({NoMembers}) /\ Len(<<NoMembers>>) = 1 /\ <<NoMembers>>[1] = NoMembers
    OBVIOUS
  <2>6. PICK b : b = <<NoMembers>> /\ IsSeq(b) /\ Len(b) = 1 /\ b[1] = NoMembers
    BY <2>5 DEF IsSeq
  <2>7. Alike(b, c)
    BY <2>3, <2>4, <2>6 DEF Alike
  <2> QED BY <2>6, <2>7
<1>10. Alike(Append(c, NoMembers), d)
  <2>1. IsSeq(old) /\ Len(old) >= 1
    <3>1. old \in Seq({NoMembers}) /\ Len(old) = 1
      BY <1>3, <1>8
    <3> QED BY <3>1 DEF IsSeq
  <2> QED BY <1>2, <1>8, <2>1, PlacesOpen
<1>11. Steady(F, n, h, NoStm, 0, d, T)
  BY <1>4, <1>5, <1>6, <1>9, <1>10, SteadyBegin
<1>12. Fun' = F /\ Handlers' = h
  BY <1>1, <1>2, <1>7 DEF Fun, Handlers
<1>13. Tracking'
  BY <1>1, <1>2, <1>8, <1>11, <1>12 DEF Tracking
<1>14. BoundIn(loads', typed', program')
  BY <1>2 DEF BoundIn
<1> QED BY <1>13, <1>14 DEF Matching

-----------------------------------------------------------------------------
(* Both passes *)

(* Every use in the program has a note.                                    *)
AllNoted == \A g \in 1 .. Len(program) : Covered(program[g], <<g>>, DOMAIN typed)

(* The typechecker notes all uses; the code generator follows the same     *)
(* way, and loads what was noted.                                          *)
SameBindings ==
  /\ phase = "typecheck" => Bookkeeping /\ loads = {}
  /\ phase = "codegen" => Noted(program, typed) /\ AllNoted /\ (Generating => Tracking)
  /\ BoundIn(loads, typed, program)

LEMMA StatementMatch ==
  ASSUME visitStatement, Generating, Noted(program, typed), Matching
  PROVE  Goes /\ Matching'
<1>1. Ready /\ UNCHANGED symbols /\ visitEIds(symbols)
  BY DEF visitStatement, Ready
<1>2. \/ Cg!visitSExp \/ Cg!visitSReturn \/ Cg!visitSReturnV
      \/ Cg!visitSWhile \/ Cg!visitSDoWhile \/ Cg!visitSFor \/ Cg!visitSIfElse
      \/ Cg!visitSDecls \/ Cg!visitNext \/ Cg!elseSIfElse
      \/ Cg!endSDecls \/ Cg!endSWhile \/ Cg!endSDoWhile \/ Cg!endSFor \/ Cg!endSIfElse
  BY DEF visitStatement
<1>3. cgFn' = cgFn
  BY <1>2 DEF Cg!visitNext, Cg!visitSExp, Cg!visitSReturn, Cg!visitSReturnV, Cg!visitSDecls,
       Cg!endSDecls, Cg!visitSWhile, Cg!endSWhile, Cg!visitSDoWhile, Cg!endSDoWhile, Cg!visitSFor,
       Cg!endSFor, Cg!visitSIfElse, Cg!elseSIfElse, Cg!endSIfElse, Cg!fixed
<1>4. Goes => Matched
  BY <1>1, <1>3 DEF Matched
<1>5. CASE Cg!visitSExp \/ Cg!visitSReturn \/ Cg!visitSReturnV
  BY <1>1, <1>4, <1>5, LeafStep, LeafMatch
<1>6. CASE Cg!visitSWhile \/ Cg!visitSDoWhile \/ Cg!visitSFor \/ Cg!visitSIfElse
  BY <1>1, <1>4, <1>6, EnterStep, EnterMatch
<1>7. CASE Cg!visitSDecls
  BY <1>1, <1>4, <1>7, DeclsStep, DeclsMatch
<1>8. CASE Cg!visitNext
  BY <1>1, <1>4, <1>8, NextStep, NextMatch
<1>9. CASE Cg!elseSIfElse
  BY <1>1, <1>4, <1>9, ElseStep, ElseMatch
<1>10. CASE Cg!endSDecls \/ Cg!endSWhile \/ Cg!endSDoWhile \/ Cg!endSFor \/ Cg!endSIfElse
  BY <1>1, <1>4, <1>10, EndStep, EndMatch
<1> QED BY <1>2, <1>5, <1>6, <1>7, <1>8, <1>9, <1>10

(* Every step of the code generator.                                       *)
LEMMA CodeGenMatch ==
  ASSUME program \in Seq(Function), WellTyped(program), Generating \/ Between, CodeGenNext,
         Noted(program, typed), AllNoted, Generating => Tracking, BoundIn(loads, typed, program)
  PROVE  (Generating' => Tracking') /\ BoundIn(loads', typed', program')
<1>1. typed' = typed /\ program' = program
  BY DEF CodeGenNext, visitDFunBody, visitArgument, visitSBlockScope, endScope, visitDeclarator,
         visitStatement, passed, vars, history
<1>2. SUFFICES Matching' \/ (~ Generating' /\ loads' = loads)
  BY <1>1 DEF Matching
<1>3. CASE visitDFunBody
  <2>1. cgFrames = <<>>
    BY <1>3 DEF visitDFunBody, Cg!visitDFun
  <2>2. Between
    BY <2>1 DEF Generating
  <2>3. cgFn' \in 1 .. Len(program) => Covered(program[cgFn'], <<cgFn'>>, DOMAIN typed)
    BY DEF AllNoted
  <2> QED BY <1>3, <2>2, <2>3, BodyMatch
<1>4. ASSUME ~ visitDFunBody
      PROVE  Generating /\ Matching
  <2>1. Between => cgFrames = <<>> /\ cgNode = NoStm
    BY DEF Between
  <2>2. cgFrames = <<>> /\ cgNode = NoStm => FALSE
    BY <1>4 DEF CodeGenNext, visitArgument, visitSBlockScope, endScope, visitDeclarator,
         visitStatement, Cg!visitSBlock, Cg!endSBlock, Cg!endDFun, Cg!ListDone, Cg!InList,
         Cg!visitIdInit, Cg!InDecls, Cg!visitNext, Cg!visitSExp, Cg!visitSReturn,
         Cg!visitSReturnV, Cg!visitSDecls, Cg!endSDecls, Cg!visitSWhile, Cg!endSWhile,
         Cg!visitSDoWhile, Cg!endSDoWhile, Cg!visitSFor, Cg!endSFor, Cg!visitSIfElse,
         Cg!elseSIfElse, Cg!endSIfElse, Cg!Entering, Cg!Resuming
  <2> QED BY <2>1, <2>2 DEF Matching
<1>5. CASE visitArgument /\ ~ visitDFunBody
  BY <1>4, <1>5, ArgMatch
<1>6. CASE visitSBlockScope /\ ~ visitDFunBody
  <2>1. Ready /\ UNCHANGED phase /\ UNCHANGED loads /\ Cg!visitSBlock /\ beginCodeGenContext
    BY <1>4, <1>6 DEF visitSBlockScope, Ready
  <2>2. Goes /\ cgFn' = cgFn
    BY <2>1, BlockStep DEF Cg!visitSBlock, Cg!fixed
  <2>3. Matched
    BY <1>4, <1>6, <2>1, <2>2 DEF Matched
  <2> QED BY <2>1, <2>3, BlockMatch
<1>7. CASE endScope /\ ~ visitDFunBody
  <2>1. /\ Ready /\ UNCHANGED phase /\ UNCHANGED loads /\ endCodeGenContext
        /\ Cg!endSBlock \/ Cg!endDFun
    BY <1>4, <1>7 DEF endScope, Ready
  <2>2. CASE Cg!endSBlock
    <3>1. Goes /\ cgFn' = cgFn
      BY <2>1, <2>2, EndBlockStep DEF Cg!endSBlock, Cg!fixed
    <3>2. Matched
      BY <1>4, <1>7, <2>1, <3>1 DEF Matched
    <3> QED BY <2>1, <2>2, <3>2, EndBlockMatch
  <2>3. CASE Cg!endDFun
    <3>1. Between'
      BY <2>1, <2>3, EndFunctionStep
    <3>2. ~ Generating'
      BY <3>1 DEF Between, Generating
    <3> QED BY <2>1, <3>2
  <2> QED BY <2>1, <2>2, <2>3
<1>8. CASE visitDeclarator /\ ~ visitDFunBody
  <2>1. Ready /\ Goes /\ cgFn' = cgFn
    BY <1>4, <1>8, IdStep DEF visitDeclarator, Ready, Cg!visitIdInit, Cg!fixed
  <2>2. Matched
    BY <1>4, <1>8, <2>1 DEF Matched
  <2> QED BY <1>8, <2>2, IdMatch
<1>9. CASE visitStatement /\ ~ visitDFunBody
  BY <1>4, <1>9, StatementMatch
<1> QED BY <1>3, <1>5, <1>6, <1>7, <1>8, <1>9 DEF CodeGenNext

LEMMA StepSameBindings ==
  ASSUME IInv, Bindings, EnteredAsChain, SameBindings, [ScopeNext]_allVars
  PROVE  SameBindings'
<1>1. program \in Seq(Function)
  BY DEF IInv, Rest
<1>2. CASE UNCHANGED allVars
  <2>1. /\ phase' = phase /\ program' = program /\ cgFn' = cgFn /\ cgFrames' = cgFrames
        /\ cgNode' = cgNode /\ cgArg' = cgArg /\ symbols' = symbols /\ loads' = loads
        /\ typed' = typed /\ entered' = entered /\ fn' = fn /\ frames' = frames /\ node' = node
        /\ arg' = arg /\ anyErrors' = anyErrors /\ crashed' = crashed
    BY <1>2 DEF allVars, passed, vars, history, scopes, blocks
  <2>2. Bookkeeping' <=> Bookkeeping
    <3>1. Following' <=> Following
      BY <2>1 DEF Following
    <3>2. Resting' <=> Resting
      BY <2>1 DEF Resting
    <3>3. AllCovered' <=> AllCovered
      BY <2>1 DEF AllCovered
    <3>4. Noted(program, typed)' <=> Noted(program, typed)
      BY <2>1
    <3> QED BY <2>1, <3>1, <3>2, <3>3, <3>4 DEF Bookkeeping, Noting
  <2>3. Fun' = Fun /\ Handlers' = Handlers
    BY <2>1 DEF Fun, Handlers
  <2>4. Generating' <=> Generating
    <3>1. WellBound(Handlers, cgNode, cgArg, Known(symbols), Fun)' <=>
            WellBound(Handlers, cgNode, cgArg, Known(symbols), Fun)
      BY <2>1, <2>3
    <3> QED BY <2>1, <2>3, <3>1 DEF Generating
  <2>5. Tracking' <=> Tracking
    BY <2>1, <2>3 DEF Tracking
  <2>6. AllNoted' <=> AllNoted
    BY <2>1 DEF AllNoted
  <2>7. /\ Noted(program, typed)' <=> Noted(program, typed)
        /\ BoundIn(loads, typed, program)' <=> BoundIn(loads, typed, program)
    BY <2>1
  <2> QED BY <2>1, <2>2, <2>4, <2>5, <2>6, <2>7 DEF SameBindings
<1>3. CASE typeCheck
  <2>1. phase = "typecheck" /\ phase' = phase /\ loads' = loads /\ Next /\ Remember
    BY <1>3 DEF typeCheck, scopes, blocks
  <2>2. Bookkeeping /\ loads = {}
    BY <2>1 DEF SameBindings
  <2>3. Bookkeeping'
    BY <2>1, <2>2, StepNoting
  <2>4. BoundIn(loads, typed, program)'
    BY <2>1, <2>2 DEF BoundIn
  <2> QED BY <2>1, <2>2, <2>3, <2>4 DEF SameBindings
<1>4. CASE compileTypeChecked
  <2>1. /\ phase = "typecheck" /\ cgFrames' = cgFrames /\ Done
        /\ program' = program /\ typed' = typed /\ loads' = loads
        /\ phase' = IF crashed THEN "crashed" ELSE IF anyErrors THEN "rejected" ELSE "codegen"
    BY <1>4 DEF compileTypeChecked, scopes, blocks, passed, vars, history
  <2>2. Bookkeeping /\ BoundIn(loads, typed, program)
    BY <2>1 DEF SameBindings
  <2>3. ~ Generating'
    BY <2>1 DEF Bindings, Between, Generating
  <2>4. CASE phase' = "codegen"
    <3>1. ~ crashed /\ ~ anyErrors /\ fn = Len(program) /\ frames = <<>>
      BY <2>1, <2>4 DEF Done
    <3>2. Noting
      BY <2>2, <3>1 DEF Bookkeeping
    <3>3. Noted(program, typed) /\ AllNoted
      BY <3>1, <3>2 DEF Noting, AllCovered, AllNoted
    <3>4. AllNoted'
      BY <2>1, <3>3 DEF AllNoted
    <3>5. Noted(program, typed)' /\ BoundIn(loads, typed, program)'
      BY <2>1, <2>2, <3>3
    <3> QED BY <2>3, <2>4, <3>4, <3>5 DEF SameBindings
  <2>5. CASE phase' # "codegen"
    <3>1. BoundIn(loads, typed, program)'
      BY <2>1, <2>2
    <3>2. phase' # "typecheck"
      BY <2>1
    <3> QED BY <2>5, <3>1, <3>2 DEF SameBindings
  <2> QED BY <2>4, <2>5
<1>5. CASE CodeGenNext
  <2>1. phase = "codegen" /\ typed' = typed
    BY <1>5 DEF CodeGenNext, visitDFunBody, visitArgument, visitSBlockScope, endScope,
         visitDeclarator, visitStatement, Entered, passed, history
  <2>2. WellTyped(program) /\ (Generating \/ Between)
    BY <2>1 DEF Bindings
  <2>3. phase' = phase /\ program' = program
    BY <1>1, <1>5, <2>2, GeneratorStep
  <2>4. Noted(program, typed) /\ AllNoted /\ (Generating => Tracking) /\ BoundIn(loads, typed, program)
    BY <2>1 DEF SameBindings
  <2>5. (Generating' => Tracking') /\ BoundIn(loads', typed', program')
    BY <1>1, <1>5, <2>2, <2>4, CodeGenMatch
  <2>6. AllNoted' /\ Noted(program, typed)'
    BY <2>1, <2>3, <2>4 DEF AllNoted
  <2> QED BY <2>1, <2>3, <2>5, <2>6 DEF SameBindings
<1>6. CASE printIR
  <2>1. phase' = "printed" /\ loads' = loads /\ typed' = typed /\ program' = program
    BY <1>6 DEF printIR, scopes, passed, history, vars
  <2>2. BoundIn(loads, typed, program)'
    BY <2>1 DEF SameBindings
  <2> QED BY <2>1, <2>2 DEF SameBindings
<1> QED BY <1>2, <1>3, <1>4, <1>5, <1>6 DEF ScopeNext

LEMMA InitSameBindings == ScopeInit => SameBindings
<1> SUFFICES ASSUME ScopeInit PROVE SameBindings
  OBVIOUS
<1>1. phase = "typecheck" /\ loads = {}
  BY DEF ScopeInit
<1>2. Bookkeeping
  BY InitNoting
<1> QED BY <1>1, <1>2 DEF SameBindings, BoundIn

(* For every program and every use that the code generator loads, the      *)
(* declaration is the one that gave the typechecker its type               *)
(* (CodeGenVisitor.cpp:289), although the two enter names at other times,  *)
(* and the code generator leaves statements out; the initialiser of the    *)
(* very name (:110) and the last expression of a for (:219) are the only   *)
(* exceptions, and there it is always another.                             *)
THEOREM SameDeclaration == ScopeSpec => []BoundAsTyped
<1>1. SameBindings => BoundAsTyped
  <2> SUFFICES ASSUME SameBindings, NEW l \in loads
               PROVE  l.alloca = typed[l.use] <=> ~ SelfInitialised(l.use) /\ ~ SteppedByBody(l.use)
    BY DEF BoundAsTyped
  <2>1. l.alloca = typed[l.use] <=> ~ Exempt(program, l.use)
    BY DEF SameBindings, BoundIn
  <2>2. PICK u : u = l.use
    OBVIOUS
  <2>3. Exempt(program, u) <=> SelfInitialised(u) \/ SteppedByBody(u)
    BY ExemptIs
  <2> QED BY <2>1, <2>2, <2>3
<1>2. ScopeSpec => []IInv /\ []Bindings
  BY StepsOfTypeCheck, Invariance, BindingsHold, PTL
<1>3. IInv /\ EnteredAsChain /\ [ScopeNext]_allVars => EnteredAsChain'
  BY StepEntered
<1>4. IInv /\ Bindings /\ EnteredAsChain /\ SameBindings /\ [ScopeNext]_allVars => SameBindings'
  BY StepSameBindings
<1>5. ScopeInit => EnteredAsChain /\ SameBindings
  BY InitPlaces, InitSameBindings
<1> QED BY <1>1, <1>2, <1>3, <1>4, <1>5, PTL DEF ScopeSpec
=============================================================================
