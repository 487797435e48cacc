-------------------------- MODULE TypeCheckProofs --------------------------
(***************************************************************************)
(* Theorems about TypeCheck for every set of statements, every program and *)
(* every way an error can unwind: one Context per function or block that   *)
(* is being visited, the chain of Contexts implements LexicalScope, and    *)
(* the errors reported are those of the judgement of TypeCheckMeaning.     *)
(***************************************************************************)
EXTENDS TypeCheckMeaning, TreeProofs, FiniteSetTheorems, SequenceTheorems

(* What a Context's basicSymbols can be.                                   *)
Maps == UNION {[N -> DOMAIN types] : N \in SUBSET Id}

FrameSet == [stm : Stm \cup Function, pos : Nat]

ScopeOps == {"DFun", "SBlock"}

ScopeFrames(fr) == {i \in DOMAIN fr : fr[i].stm.op \in ScopeOps}

ScopeCount(fr) == Cardinality(ScopeFrames(fr))

(* visitSDecls goes on to the names only with a type it has found.         *)
TypeKnown(s) == s.op = "SDecls" => findBasicType(types, s.type) \in DOMAIN types

(* One visitDFun, at the bottom, and declarations of known types.          *)
StackOK(fr) ==
  /\ fr \in Seq(FrameSet)
  /\ \A i \in 1 .. Len(fr) : fr[i].stm.op = "DFun" <=> i = 1
  /\ \A i \in 1 .. Len(fr) : TypeKnown(fr[i].stm)

Rest ==
  /\ program \in Seq(Function)
  /\ rootParent \in {"null", "junk"}
  /\ fn \in 0 .. Len(program)
  /\ arg \in Nat
  /\ node \in Stm \cup {NoStm}
  /\ node # NoStm => frames # <<>>
  /\ anyErrors \in BOOLEAN
  /\ crashed \in BOOLEAN

IInv ==
  /\ Rest
  /\ StackOK(frames)
  /\ chain \in Seq(Maps)
  /\ Len(chain) = 1 + ScopeCount(frames)

(* What a step can do to the chain of Contexts.                            *)
Opens == chain' = Append(chain, NoMembers)

Closes == Len(chain) > 1 /\ chain' = SubSeq(chain, 1, Len(chain) - 1)

Declares ==
  \E x \in Id, m \in DOMAIN types :
    x \notin DOMAIN chain[Len(chain)] /\ addSymbol(x, m)

StepOK == IInv' /\ (chain' = chain \/ Opens \/ Closes \/ Declares)

-----------------------------------------------------------------------------
(* Sets of positions, sequences and maps *)

(* A set of positions that is not empty has a last one.                    *)
LEMMA Largest ==
  ASSUME NEW n \in Nat, NEW S, S \subseteq 1 .. n, S # {}
  PROVE  \E k \in S : \A j \in S : j <= k
<1> DEFINE T == {i \in Nat : \E k \in S : i = n - k}
<1> DEFINE R == {p \in Nat \X Nat : p[1] < p[2]}
<1>1. IsWellFoundedOn(R, Nat)
  BY NatLessThanWellFounded DEF OpToRel
<1>2. T \subseteq Nat /\ T # {}
  <2>1. PICK k \in S : TRUE
    OBVIOUS
  <2>2. k \in 1 .. n /\ n - k \in Nat
    BY <2>1
  <2> QED BY <2>2
<1>3. PICK x \in T : \A y \in T : <<y, x>> \notin R
  <2> HIDE DEF T, R
  <2> QED BY ONLY <1>1, <1>2, WFMin
<1>4. PICK k \in S : x = n - k
  BY <1>3
<1>5. ASSUME NEW j \in S
      PROVE  j <= k
  <2>1. j \in 1 .. n /\ k \in 1 .. n /\ n - j \in Nat /\ n - k \in Nat
    BY <1>4
  <2>2. <<n - j, x>> \notin R
    BY <1>3, <2>1
  <2> QED BY <1>4, <2>1, <2>2
<1> QED BY <1>5

(* The first k elements of a sequence.                                     *)
LEMMA PrefixFacts ==
  ASSUME NEW S, NEW s \in Seq(S), NEW k \in Nat, k <= Len(s)
  PROVE  /\ SubSeq(s, 1, k) \in Seq(S)
         /\ Len(SubSeq(s, 1, k)) = k
         /\ \A i \in 1 .. k : SubSeq(s, 1, k)[i] = s[i] /\ s[i] \in S
<1>1. Len(s) \in Nat /\ \A i \in 1 .. Len(s) : s[i] \in S
  OBVIOUS
<1>2. k \in Int /\ 1 \in Int /\ \A i \in 1 .. k : s[i] \in S
  BY <1>1
<1>3. /\ SubSeq(s, 1, k) \in Seq(S)
      /\ Len(SubSeq(s, 1, k)) = IF 1 <= k THEN k - 1 + 1 ELSE 0
      /\ \A i \in 1 .. k - 1 + 1 : SubSeq(s, 1, k)[i] = s[1 + i - 1]
  BY <1>2, SubSeqProperties
<1>4. \A i \in 1 .. k : 1 + i - 1 = i /\ i \in 1 .. k - 1 + 1
  OBVIOUS
<1>5. Len(SubSeq(s, 1, k)) = k
  BY <1>3
<1>6. \A i \in 1 .. k : SubSeq(s, 1, k)[i] = s[i]
  BY <1>3, <1>4
<1> QED BY <1>2, <1>3, <1>5, <1>6

(* Maps holds the functions from a set of identifiers to known types.      *)
LEMMA MapValues ==
  ASSUME NEW m
  PROVE  m \in Maps <=> DOMAIN m \subseteq Id /\ m \in [DOMAIN m -> DOMAIN types]
  BY DEF Maps

(* A new Context is empty.                                                 *)
LEMMA NoMembersMap == NoMembers \in Maps /\ DOMAIN NoMembers = {}
<1>1. DOMAIN NoMembers = {} /\ NoMembers \in [DOMAIN NoMembers -> DOMAIN types]
  BY DEF NoMembers
<1> QED BY <1>1, MapValues

(* Entering a fresh name.                                                  *)
LEMMA EmplaceMap ==
  ASSUME NEW m \in Maps, NEW x \in Id, NEW t \in DOMAIN types, x \notin DOMAIN m
  PROVE  /\ Emplace(m, x, t) \in Maps
         /\ DOMAIN Emplace(m, x, t) = DOMAIN m \cup {x}
         /\ Emplace(m, x, t)[x] = t
         /\ \A y \in DOMAIN m : Emplace(m, x, t)[y] = m[y]
<1>1. DOMAIN m \subseteq Id /\ m \in [DOMAIN m -> DOMAIN types]
  BY MapValues
<1>2. /\ DOMAIN Emplace(m, x, t) = DOMAIN m \cup {x}
      /\ Emplace(m, x, t)[x] = t
      /\ \A y \in DOMAIN m : Emplace(m, x, t)[y] = m[y]
  BY DEF Emplace
<1>3. Emplace(m, x, t) \in [DOMAIN m \cup {x} -> DOMAIN types]
  BY <1>1 DEF Emplace
<1> QED BY <1>1, <1>2, <1>3, MapValues

(* findBasicType yields nullptr or a known type, and null is none.         *)
LEMMA FindBasicType ==
  ASSUME NEW id
  PROVE  /\ findBasicType(types, id) = null \/ findBasicType(types, id) \in DOMAIN types
         /\ null \notin DOMAIN types
<1>1. DOMAIN types = 1 .. Len(types)
  BY TypeCheckAssumption
<1>2. null \notin DOMAIN types
  BY <1>1 DEF null
<1>3. CASE Matches(types, id) = {}
  BY <1>2, <1>3 DEF findBasicType
<1>4. CASE Matches(types, id) # {}
  <2>1. PICK t \in Matches(types, id) : TRUE
    BY <1>4
  <2>2. t \in DOMAIN types /\ Matches(types, id) = {t}
    BY <2>1, TypeCheckAssumption DEF Matches
  <2>3. t <= t
    BY <1>1, <2>2
  <2>4. findBasicType(types, id) = t
    BY <1>4, <2>2, <2>3 DEF findBasicType
  <2> QED BY <1>2, <2>2, <2>4
<1> QED BY <1>3, <1>4

-----------------------------------------------------------------------------
(* The stack of handlers *)

(* The fields of a statement, by its constructor.                          *)
LEMMA StmParts ==
  ASSUME NEW s \in Stm
  PROVE  /\ s.op # "DFun"
         /\ s.op \in {"SWhile", "SDoWhile", "SFor"} => s.kids[1] \in Stm
         /\ s.op = "SIfElse" => s.kids[1] \in Stm /\ s.kids[2] \in Stm
         /\ s.op = "SBlock" => s.kids \in Seq(Stm)
         /\ s.op = "SDecls" => s.exps \in Seq(IdIn)
<1>1. s \in Statement
  BY TypeCheckAssumption
<1>2. CASE s \in Node({"SExp", "SReturn"}, 1, 0) \cup Node({"SReturnV"}, 0, 0)
  BY <1>2 DEF Node
<1>3. CASE s \in Node({"SWhile", "SDoWhile"}, 1, 1) \cup Node({"SFor"}, 3, 1)
  BY <1>3 DEF Node
<1>4. CASE s \in Node({"SIfElse"}, 1, 2)
  BY <1>4 DEF Node
<1>5. CASE s \in [op : {"SBlock"}, kids : Seq(Stm)]
  BY <1>5
<1>6. CASE s \in [op : {"SDecls"}, type : TypeId, exps : Seq(IdIn)]
  BY <1>6
<1> QED BY <1>1, <1>2, <1>3, <1>4, <1>5, <1>6 DEF Statement

(* The fields of a function.                                               *)
LEMMA FunParts ==
  ASSUME NEW f \in Function
  PROVE  /\ f.op = "DFun" /\ f.kids \in Seq(Stm)
         /\ f.args \in Seq([name : Id, type : DOMAIN types \ {TYPE_VOID}])
  BY DEF Function

(* The scopes of a stack are a finite set of its positions.                *)
LEMMA ScopesFinite ==
  ASSUME NEW fr, StackOK(fr)
  PROVE  /\ fr \in Seq(FrameSet) /\ Len(fr) \in Nat /\ DOMAIN fr = 1 .. Len(fr)
         /\ ScopeFrames(fr) \subseteq 1 .. Len(fr)
         /\ IsFiniteSet(ScopeFrames(fr)) /\ ScopeCount(fr) \in Nat
<1>1. fr \in Seq(FrameSet) /\ Len(fr) \in Nat /\ DOMAIN fr = 1 .. Len(fr)
  BY DEF StackOK
<1>2. ScopeFrames(fr) \subseteq 1 .. Len(fr)
  BY <1>1 DEF ScopeFrames
<1>3. IsFiniteSet(1 .. Len(fr))
  BY <1>1, FS_Interval
<1> QED BY <1>1, <1>2, <1>3, FS_Subset, FS_CardinalityType DEF ScopeCount

(* A handler that is called: one scope more if it is one.                  *)
LEMMA Pushed ==
  ASSUME NEW fr, StackOK(fr), NEW f \in FrameSet,
         f.stm.op = "DFun" <=> fr = <<>>, TypeKnown(f.stm),
         NEW new, new = Append(fr, f)
  PROVE  /\ StackOK(new) /\ new # <<>>
         /\ f.stm.op \in ScopeOps => ScopeCount(new) = ScopeCount(fr) + 1
         /\ f.stm.op \notin ScopeOps => ScopeCount(new) = ScopeCount(fr)
<1>1. /\ fr \in Seq(FrameSet) /\ Len(fr) \in Nat /\ DOMAIN fr = 1 .. Len(fr)
      /\ ScopeFrames(fr) \subseteq 1 .. Len(fr) /\ IsFiniteSet(ScopeFrames(fr))
  BY ScopesFinite
<1>2. /\ new \in Seq(FrameSet) /\ Len(new) = Len(fr) + 1
      /\ DOMAIN new = 1 .. Len(fr) + 1
      /\ new[Len(fr) + 1] = f
      /\ \A i \in 1 .. Len(fr) : new[i] = fr[i]
  BY <1>1
<1>3. \A i \in 1 .. Len(fr) + 1 : i \in 1 .. Len(fr) \/ i = Len(fr) + 1
  BY <1>1
<1>4. fr = <<>> <=> Len(fr) + 1 = 1
  BY <1>1
<1>5. /\ \A i \in 1 .. Len(new) : new[i].stm.op = "DFun" <=> i = 1
      /\ \A i \in 1 .. Len(new) : TypeKnown(new[i].stm)
  <2>1. /\ \A i \in 1 .. Len(fr) : fr[i].stm.op = "DFun" <=> i = 1
        /\ \A i \in 1 .. Len(fr) : TypeKnown(fr[i].stm)
    BY DEF StackOK
  <2> QED BY <1>2, <1>3, <1>4, <2>1
<1>6. StackOK(new) /\ new # <<>>
  BY <1>1, <1>2, <1>5 DEF StackOK
<1>7. ASSUME f.stm.op \in ScopeOps
      PROVE  ScopeCount(new) = ScopeCount(fr) + 1
  <2>1. ScopeFrames(new) = ScopeFrames(fr) \cup {Len(fr) + 1} /\ Len(fr) + 1 \notin ScopeFrames(fr)
    BY <1>1, <1>2, <1>3, <1>7 DEF ScopeFrames
  <2> DEFINE old == ScopeFrames(fr)
  <2> HIDE DEF old
  <2>2. Cardinality(old \cup {Len(fr) + 1}) = Cardinality(old) + 1
    BY <1>1, <2>1, FS_AddElement DEF old
  <2> QED BY <2>1, <2>2 DEF old, ScopeCount
<1>8. ASSUME f.stm.op \notin ScopeOps
      PROVE  ScopeCount(new) = ScopeCount(fr)
  <2>1. ScopeFrames(new) = ScopeFrames(fr)
    BY <1>1, <1>2, <1>3, <1>8 DEF ScopeFrames
  <2> QED BY <2>1 DEF ScopeCount
<1> QED BY <1>6, <1>7, <1>8

(* A stack cut back is a stack.                                            *)
LEMMA CutStack ==
  ASSUME NEW fr, StackOK(fr), NEW k \in Nat, k <= Len(fr),
         NEW new, new = SubSeq(fr, 1, k)
  PROVE  /\ StackOK(new) /\ Len(new) = k
         /\ \A i \in 1 .. k : new[i] = fr[i]
<1>1. fr \in Seq(FrameSet) /\ Len(fr) \in Nat
  BY DEF StackOK
<1>2. new \in Seq(FrameSet) /\ Len(new) = k /\ \A i \in 1 .. k : new[i] = fr[i]
  BY <1>1, PrefixFacts
<1>3. \A i \in 1 .. k : i \in 1 .. Len(fr)
  BY <1>1
<1> QED BY <1>2, <1>3 DEF StackOK

(* A handler that returns: one scope less if it was one.                   *)
LEMMA Popped ==
  ASSUME NEW fr, StackOK(fr), fr # <<>>,
         NEW new, new = SubSeq(fr, 1, Len(fr) - 1)
  PROVE  /\ StackOK(new) /\ ScopeCount(new) \in Nat
         /\ fr[Len(fr)] \in FrameSet /\ TypeKnown(fr[Len(fr)].stm)
         /\ fr[Len(fr)].stm.op = "DFun" <=> new = <<>>
         /\ fr = Append(new, fr[Len(fr)])
         /\ fr[Len(fr)].stm.op \in ScopeOps => ScopeCount(fr) = ScopeCount(new) + 1
         /\ fr[Len(fr)].stm.op \notin ScopeOps => ScopeCount(fr) = ScopeCount(new)
<1>1. fr \in Seq(FrameSet) /\ Len(fr) \in Nat /\ Len(fr) >= 1
      /\ Len(fr) - 1 \in Nat /\ Len(fr) - 1 <= Len(fr)
  BY EmptySeq DEF StackOK
<1>2. /\ StackOK(new) /\ Len(new) = Len(fr) - 1
      /\ \A i \in 1 .. Len(fr) - 1 : new[i] = fr[i]
  <2>1. PICK k : k = Len(fr) - 1
    OBVIOUS
  <2>2. StackOK(fr) /\ k \in Nat /\ k <= Len(fr) /\ new = SubSeq(fr, 1, k)
    BY <1>1, <2>1
  <2>3. /\ StackOK(new) /\ Len(new) = k
        /\ \A i \in 1 .. k : new[i] = fr[i]
    BY ONLY <2>2, CutStack
  <2> QED BY <2>1, <2>3
<1>3. new \in Seq(FrameSet) /\ ScopeCount(new) \in Nat
  BY <1>2, ScopesFinite
<1>4. Len(fr) \in 1 .. Len(fr)
  BY <1>1
<1>5. fr[Len(fr)] \in FrameSet /\ TypeKnown(fr[Len(fr)].stm)
  BY <1>1, <1>4 DEF StackOK
<1>6. fr[Len(fr)].stm.op = "DFun" <=> new = <<>>
  <2>1. fr[Len(fr)].stm.op = "DFun" <=> Len(fr) = 1
    BY <1>4 DEF StackOK
  <2>2. new = <<>> <=> Len(new) = 0
    BY <1>3, EmptySeq
  <2> QED BY <1>1, <1>2, <2>1, <2>2
<1>7. fr = Append(new, fr[Len(fr)])
  <2>1. /\ Append(new, fr[Len(fr)]) \in Seq(FrameSet)
        /\ Len(fr) = Len(Append(new, fr[Len(fr)]))
        /\ \A i \in 1 .. Len(fr) : fr[i] = Append(new, fr[Len(fr)])[i]
    BY <1>1, <1>2, <1>3, <1>5
  <2> QED BY <1>1, <2>1, SeqEqual
<1>8. /\ fr[Len(fr)].stm.op \in ScopeOps => ScopeCount(fr) = ScopeCount(new) + 1
      /\ fr[Len(fr)].stm.op \notin ScopeOps => ScopeCount(fr) = ScopeCount(new)
  <2>1. PICK f : f = fr[Len(fr)]
    OBVIOUS
  <2>2. /\ StackOK(new) /\ f \in FrameSet /\ TypeKnown(f.stm)
        /\ f.stm.op = "DFun" <=> new = <<>>
        /\ fr = Append(new, f)
    BY <1>2, <1>5, <1>6, <1>7, <2>1
  <2>3. /\ f.stm.op \in ScopeOps => ScopeCount(fr) = ScopeCount(new) + 1
        /\ f.stm.op \notin ScopeOps => ScopeCount(fr) = ScopeCount(new)
    BY ONLY <2>2, Pushed
  <2> QED BY <2>1, <2>3
<1> QED BY <1>2, <1>3, <1>5, <1>6, <1>7, <1>8

(* A handler that goes on to its next child.                               *)
LEMMA Advanced ==
  ASSUME NEW fr, StackOK(fr), fr # <<>>,
         NEW f, f = [fr[Len(fr)] EXCEPT !.pos = @ + 1],
         NEW new, new = Append(SubSeq(fr, 1, Len(fr) - 1), f)
  PROVE  StackOK(new) /\ new # <<>> /\ ScopeCount(new) = ScopeCount(fr)
<1>1. PICK front : front = SubSeq(fr, 1, Len(fr) - 1)
  OBVIOUS
<1>2. /\ StackOK(front) /\ ScopeCount(front) \in Nat
      /\ fr[Len(fr)] \in FrameSet /\ TypeKnown(fr[Len(fr)].stm)
      /\ fr[Len(fr)].stm.op = "DFun" <=> front = <<>>
      /\ fr[Len(fr)].stm.op \in ScopeOps => ScopeCount(fr) = ScopeCount(front) + 1
      /\ fr[Len(fr)].stm.op \notin ScopeOps => ScopeCount(fr) = ScopeCount(front)
  BY <1>1, Popped
<1>3. f \in FrameSet /\ f.stm = fr[Len(fr)].stm
  <2>1. PICK g : g = fr[Len(fr)]
    OBVIOUS
  <2>2. g.stm \in Stm \cup Function /\ g.pos \in Nat /\ g = [stm |-> g.stm, pos |-> g.pos]
    BY <1>2, <2>1 DEF FrameSet
  <2>3. f = [stm |-> g.stm, pos |-> g.pos + 1]
    BY <2>1, <2>2
  <2> QED BY <2>1, <2>2, <2>3 DEF FrameSet
<1>4. /\ StackOK(new) /\ new # <<>>
      /\ f.stm.op \in ScopeOps => ScopeCount(new) = ScopeCount(front) + 1
      /\ f.stm.op \notin ScopeOps => ScopeCount(new) = ScopeCount(front)
  BY <1>1, <1>2, <1>3, Pushed
<1> QED BY <1>2, <1>3, <1>4

(* An error unwinds no scope: what it cuts off lies above the last one.    *)
LEMMA Unwound ==
  ASSUME NEW fr, StackOK(fr), fr # <<>>,
         NEW new, new = SubSeq(fr, 1, CHOOSE i \in ScopeFrames(fr) : \A j \in ScopeFrames(fr) : j <= i)
  PROVE  StackOK(new) /\ new # <<>> /\ ScopeCount(new) = ScopeCount(fr)
<1>1. /\ fr \in Seq(FrameSet) /\ Len(fr) \in Nat /\ Len(fr) >= 1
      /\ DOMAIN fr = 1 .. Len(fr) /\ ScopeFrames(fr) \subseteq 1 .. Len(fr)
  BY EmptySeq, ScopesFinite
<1>2. ScopeFrames(fr) # {}
  <2>1. 1 \in 1 .. Len(fr)
    BY <1>1
  <2>2. fr[1].stm.op = "DFun"
    BY <2>1 DEF StackOK
  <2> QED BY <1>1, <2>1, <2>2 DEF ScopeFrames, ScopeOps
<1>3. PICK k : k = CHOOSE i \in ScopeFrames(fr) : \A j \in ScopeFrames(fr) : j <= i
  OBVIOUS
<1>4. k \in ScopeFrames(fr) /\ \A j \in ScopeFrames(fr) : j <= k
  <2>1. \E i \in ScopeFrames(fr) : \A j \in ScopeFrames(fr) : j <= i
    BY <1>1, <1>2, Largest
  <2> QED BY <1>3, <2>1
<1>5. k \in 1 .. Len(fr) /\ k \in Nat /\ k <= Len(fr)
  BY <1>1, <1>4
<1>6. StackOK(new) /\ Len(new) = k /\ \A i \in 1 .. k : new[i] = fr[i]
  <2>1. new = SubSeq(fr, 1, k)
    BY <1>3
  <2> QED BY ONLY StackOK(fr), <1>5, <2>1, CutStack
<1>7. DOMAIN new = 1 .. k
  BY <1>6 DEF StackOK
<1>8. ScopeFrames(new) = ScopeFrames(fr)
  <2>1. \A i \in ScopeFrames(fr) : i \in 1 .. k
    BY <1>1, <1>4, <1>5
  <2>2. \A i \in 1 .. k : i \in 1 .. Len(fr)
    BY <1>1, <1>5
  <2> QED BY <1>1, <1>6, <1>7, <2>1, <2>2 DEF ScopeFrames
<1>9. new # <<>>
  BY <1>5, <1>6 DEF StackOK
<1> QED BY <1>6, <1>8, <1>9 DEF ScopeCount

-----------------------------------------------------------------------------
(* Kinds of steps *)

Others ==
  /\ UNCHANGED <<program, rootParent>>
  /\ fn' \in 0 .. Len(program)
  /\ arg' \in Nat
  /\ anyErrors' \in BOOLEAN
  /\ crashed' \in BOOLEAN

(* What every step can do to the chain keeps it a chain of maps.           *)
LEMMA ChainStep ==
  ASSUME chain \in Seq(Maps), Len(chain) >= 1
  PROVE  /\ Opens => chain' \in Seq(Maps) /\ Len(chain') = Len(chain) + 1
         /\ Closes => chain' \in Seq(Maps) /\ Len(chain') = Len(chain) - 1
         /\ Declares => chain' \in Seq(Maps) /\ Len(chain') = Len(chain)
<1>1. Len(chain) \in Nat /\ Len(chain) \in 1 .. Len(chain)
  OBVIOUS
<1>2. Opens => chain' \in Seq(Maps) /\ Len(chain') = Len(chain) + 1
  BY NoMembersMap DEF Opens
<1>3. Closes => chain' \in Seq(Maps) /\ Len(chain') = Len(chain) - 1
  <2>1. Len(chain) - 1 \in Nat /\ Len(chain) - 1 <= Len(chain)
    BY <1>1
  <2> QED BY <2>1, PrefixFacts DEF Closes
<1>4. ASSUME Declares
      PROVE  chain' \in Seq(Maps) /\ Len(chain') = Len(chain)
  <2>1. PICK x \in Id, m \in DOMAIN types :
          x \notin DOMAIN chain[Len(chain)] /\ addSymbol(x, m)
    BY <1>4 DEF Declares
  <2>2. chain[Len(chain)] \in Maps
    BY <1>1
  <2>3. Emplace(chain[Len(chain)], x, m) \in Maps
    BY <2>1, <2>2, EmplaceMap
  <2>4. chain' = [chain EXCEPT ![Len(chain)] = Emplace(chain[Len(chain)], x, m)]
    BY <2>1 DEF addSymbol
  <2> QED BY <1>1, <2>3, <2>4
<1> QED BY <1>2, <1>3, <1>4

(* The chain is never empty.                                               *)
LEMMA InvFacts ==
  ASSUME IInv
  PROVE  /\ StackOK(frames) /\ ScopeCount(frames) \in Nat
         /\ chain \in Seq(Maps) /\ Len(chain) \in Nat /\ Len(chain) >= 1
         /\ Len(chain) = 1 + ScopeCount(frames)
<1>1. /\ StackOK(frames) /\ chain \in Seq(Maps) /\ Len(chain) = 1 + ScopeCount(frames)
  BY DEF IInv
<1>2. ScopeCount(frames) \in Nat
  BY <1>1, ScopesFinite
<1> QED BY <1>1, <1>2

(* A handler is entered and stays on the stack.                            *)
LEMMA Calls ==
  ASSUME IInv, Others, NEW t \in Stm \cup Function, NEW p \in Nat,
         frames' = Append(frames, Frame(t, p)),
         t.op = "DFun" <=> frames = <<>>, TypeKnown(t),
         node' \in Stm \cup {NoStm},
         t.op \in ScopeOps => Opens, t.op \notin ScopeOps => chain' = chain
  PROVE  StepOK
<1>1. Frame(t, p) \in FrameSet /\ Frame(t, p).stm = t
  BY DEF Frame, FrameSet
<1>2. /\ StackOK(frames') /\ frames' # <<>>
      /\ t.op \in ScopeOps => ScopeCount(frames') = ScopeCount(frames) + 1
      /\ t.op \notin ScopeOps => ScopeCount(frames') = ScopeCount(frames)
  BY <1>1, InvFacts, Pushed
<1>3. chain' \in Seq(Maps) /\ Len(chain') = 1 + ScopeCount(frames')
  BY <1>2, InvFacts, ChainStep
<1>4. Rest'
  BY <1>2 DEF IInv, Rest, Others
<1>5. IInv'
  BY <1>2, <1>3, <1>4 DEF IInv, StackOK, ScopeCount, ScopeFrames
<1> QED BY <1>5 DEF StepOK

(* A handler returns.                                                      *)
LEMMA Returns ==
  ASSUME IInv, Others, frames # <<>>, Return,
         Top.stm.op \in ScopeOps => endContext, Top.stm.op \notin ScopeOps => chain' = chain
  PROVE  StepOK
<1>1. frames' = SubSeq(frames, 1, Len(frames) - 1) /\ node' = NoStm
  BY DEF Return, Pop
<1>2. /\ StackOK(frames') /\ ScopeCount(frames') \in Nat
      /\ Top.stm.op \in ScopeOps => ScopeCount(frames) = ScopeCount(frames') + 1
      /\ Top.stm.op \notin ScopeOps => ScopeCount(frames) = ScopeCount(frames')
  BY <1>1, InvFacts, Popped DEF Top
<1>3. Top.stm.op \in ScopeOps => Closes
  BY <1>2, InvFacts DEF Closes, endContext
<1>4. chain' \in Seq(Maps) /\ Len(chain') = 1 + ScopeCount(frames')
  BY <1>2, <1>3, InvFacts, ChainStep
<1>5. Rest'
  BY <1>1 DEF IInv, Rest, Others
<1>6. IInv'
  BY <1>2, <1>4, <1>5 DEF IInv, StackOK, ScopeCount, ScopeFrames
<1> QED BY <1>3, <1>6 DEF StepOK

(* A handler goes on to its next child, or round its own loop.             *)
LEMMA Advances ==
  ASSUME IInv, Others, frames # <<>>, NEW s \in Stm \cup {NoStm}, Advance(s),
         chain' = chain \/ Declares
  PROVE  StepOK
<1>0. PICK f : f = [frames[Len(frames)] EXCEPT !.pos = @ + 1]
  OBVIOUS
<1>1. frames' = Append(SubSeq(frames, 1, Len(frames) - 1), f) /\ node' = s
  BY <1>0 DEF Advance, Pop, Top
<1>2. StackOK(frames') /\ frames' # <<>> /\ ScopeCount(frames') = ScopeCount(frames)
  BY <1>0, <1>1, InvFacts, Advanced
<1>3. chain' \in Seq(Maps) /\ Len(chain') = 1 + ScopeCount(frames')
  BY <1>2, InvFacts, ChainStep
<1>4. Rest'
  BY <1>1, <1>2 DEF IInv, Rest, Others
<1>5. IInv'
  BY <1>2, <1>3, <1>4 DEF IInv, StackOK, ScopeCount, ScopeFrames
<1> QED BY <1>5 DEF StepOK

(* The stack stays: a leaf, an argument, a crash.                          *)
LEMMA Stays ==
  ASSUME IInv, Others, UNCHANGED frames, node' \in {node, NoStm},
         chain' = chain \/ Declares
  PROVE  StepOK
<1>1. chain' \in Seq(Maps) /\ Len(chain') = 1 + ScopeCount(frames)
  BY InvFacts, ChainStep
<1>2. Rest'
  BY DEF IInv, Rest, Others
<1>3. IInv'
  BY <1>1, <1>2 DEF IInv, StackOK, ScopeCount, ScopeFrames
<1> QED BY <1>3 DEF StepOK

(* An error unwinds the stack and leaves the chain alone.                  *)
LEMMA Throws ==
  ASSUME IInv, frames # <<>>, Throw, UNCHANGED <<program, rootParent, fn, arg>>
  PROVE  StepOK
<1>1. Catchers = ScopeFrames(frames)
  BY DEF Catchers, ScopeFrames, ScopeOps
<1>2. /\ frames' = SubSeq(frames, 1, CHOOSE i \in ScopeFrames(frames) : \A j \in ScopeFrames(frames) : j <= i)
      /\ node' = NoStm /\ chain' = chain
  BY <1>1 DEF Throw
<1>3. StackOK(frames') /\ frames' # <<>> /\ ScopeCount(frames') = ScopeCount(frames)
  BY <1>2, InvFacts, Unwound
<1>4. chain' \in Seq(Maps) /\ Len(chain') = 1 + ScopeCount(frames')
  BY <1>2, <1>3, InvFacts
<1>5. Rest'
  BY <1>2 DEF IInv, Rest, Throw
<1>6. IInv'
  BY <1>3, <1>4, <1>5 DEF IInv, StackOK, ScopeCount, ScopeFrames
<1> QED BY <1>2, <1>6 DEF StepOK

(* A lookup that goes astray.                                              *)
LEMMA Crashes ==
  ASSUME IInv, Crash, UNCHANGED <<program, rootParent, fn, arg>>
  PROVE  StepOK
<1>1. /\ Others /\ UNCHANGED frames /\ node' = node /\ chain' = chain
  BY DEF Crash, Others, IInv, Rest
<1> QED BY <1>1, Stays

-----------------------------------------------------------------------------
(* The actions *)

(* The handler that has control.                                           *)
LEMMA TopFacts ==
  ASSUME IInv, frames # <<>>
  PROVE  /\ Top.pos \in Nat /\ TypeKnown(Top.stm)
         /\ Top.stm.op = "DFun" => Top.stm \in Function
         /\ Top.stm.op # "DFun" => Top.stm \in Stm
<1>1. Top \in FrameSet /\ TypeKnown(Top.stm)
  BY InvFacts, Popped DEF Top
<1>2. Top.stm \in Stm \cup Function /\ Top.pos \in Nat
  BY <1>1 DEF FrameSet
<1> QED BY <1>1, <1>2, StmParts, FunParts

(* A handler is entered for a statement, from a handler on the stack.      *)
LEMMA NodeFacts ==
  ASSUME IInv, node # NoStm
  PROVE  node \in Stm /\ frames # <<>>
  BY DEF IInv, Rest

(* What is left of Others when a step only moves in the program.           *)
LEMMA SameOthers ==
  ASSUME IInv, UNCHANGED <<program, rootParent, fn, arg>>,
         anyErrors' \in BOOLEAN, crashed' \in BOOLEAN
  PROVE  Others
  BY DEF IInv, Rest, Others

(* How a handler with expressions goes on, when all is well.               *)
LEMMA Tested ==
  ASSUME IInv, frames # <<>>, UNCHANGED <<program, rootParent, fn, arg>>,
         Throw \/ Crash
  PROVE  StepOK
  BY Throws, Crashes

(* A function and its arguments.                                           *)
LEMMA visitDFunInv == ASSUME IInv, visitDFun PROVE StepOK
<1>1. /\ program \in Seq(Function) /\ fn \in 0 .. Len(program)
      /\ fn < Len(program) /\ frames = <<>>
  BY DEF IInv, Rest, visitDFun
<1>2. PICK f : f = program[fn + 1]
  OBVIOUS
<1>3. f \in Function /\ f.op = "DFun"
  BY <1>1, <1>2, FunParts
<1>4. Others
  BY <1>1 DEF visitDFun, Others, IInv, Rest
<1>5. /\ frames' = Append(frames, Frame(f, 0)) /\ Opens
      /\ node' \in Stm \cup {NoStm}
  BY <1>1, <1>2 DEF visitDFun, beginContext, Opens, IInv, Rest
<1>6. TypeKnown(f) /\ f.op \in ScopeOps
  BY <1>3 DEF TypeKnown, ScopeOps
<1> QED BY <1>1, <1>3, <1>4, <1>5, <1>6, Calls

(* An argument is entered in the Context of its function, once.            *)
LEMMA visitADeclInv == ASSUME IInv, visitADecl PROVE StepOK
<1>1. frames # <<>> /\ Top.stm.op = "DFun"
  BY DEF visitADecl, InFrame
<1>2. Top.stm \in Function
  BY <1>1, TopFacts
<1>3. PICK a : a = Top.stm.args[arg + 1]
  OBVIOUS
<1>4. a.name \in Id /\ a.type \in DOMAIN types
  <2> DEFINE Arg == [name : Id, type : DOMAIN types \ {TYPE_VOID}]
  <2>1. Top.stm.args \in Seq(Arg) /\ arg \in Nat /\ arg < Len(Top.stm.args)
    BY <1>2, FunParts DEF visitADecl, IInv, Rest
  <2>2. a \in Arg
    <3> HIDE DEF Arg
    <3> QED BY <1>3, <2>1
  <2> QED BY <2>2
<1>5. chain' = chain \/ (a.name \notin DOMAIN Current /\ addSymbol(a.name, a.type))
  BY <1>3 DEF visitADecl
<1>6. chain' = chain \/ Declares
  BY <1>4, <1>5 DEF Declares, Current
<1>7. Others /\ UNCHANGED frames /\ node' = node
  BY DEF visitADecl, Others, IInv, Rest
<1> QED BY <1>6, <1>7, Stays

(* Statement lists.                                                        *)
LEMMA visitNextInv == ASSUME IInv, visitNext PROVE StepOK
<1>1. frames # <<>> /\ Top.stm.op \in {"DFun", "SBlock"}
  BY DEF visitNext, InList, InFrame
<1>2. Top.stm.kids \in Seq(Stm) /\ Top.pos \in Nat /\ Top.pos < Len(Top.stm.kids)
  BY <1>1, TopFacts, StmParts, FunParts DEF visitNext
<1>3. PICK s : s = Top.stm.kids[Top.pos + 1]
  OBVIOUS
<1>4. s \in Stm
  BY <1>2, <1>3
<1>5. Advance(s) /\ Others /\ chain' = chain
  BY <1>3 DEF visitNext, fixed, Others, IInv, Rest
<1> QED BY <1>1, <1>4, <1>5, Advances

(* The end of a function or a block closes the Context it opened.          *)
LEMMA endListInv == ASSUME IInv, endDFun \/ endSBlock PROVE StepOK
<1>1. frames # <<>> /\ Top.stm.op \in ScopeOps
  BY DEF endDFun, endSBlock, ListDone, InList, InFrame, ScopeOps
<1>2. Return /\ endContext /\ Others
  BY DEF endDFun, endSBlock, fixed, Others, IInv, Rest
<1> QED BY <1>1, <1>2, Returns

(* A block opens a Context of its own.                                     *)
LEMMA visitSBlockInv == ASSUME IInv, visitSBlock PROVE StepOK
<1>1. node \in Stm /\ frames # <<>> /\ node.op = "SBlock"
  BY NodeFacts DEF visitSBlock, Entering
<1>2. TypeKnown(node) /\ node.op \in ScopeOps /\ node.op # "DFun"
  BY <1>1 DEF TypeKnown, ScopeOps
<1>3. /\ Others /\ Opens /\ node' \in Stm \cup {NoStm}
      /\ frames' = Append(frames, Frame(node, 0))
  BY DEF visitSBlock, fixed, Call, beginContext, Opens, Others, IInv, Rest
<1> QED BY <1>1, <1>2, <1>3, Calls

-----------------------------------------------------------------------------
(* Statements *)

(* A statement without sub-statements.                                     *)
LEMMA LeafInv == ASSUME IInv, visitSExp \/ visitSReturn \/ visitSReturnV PROVE StepOK
<1>1. frames # <<>> /\ UNCHANGED <<program, rootParent, fn, arg>>
  BY NodeFacts DEF visitSExp, visitSReturn, visitSReturnV, Entering, Checking
<1>2. (Leaf /\ Sound) \/ Throw \/ Crash
  BY DEF visitSExp, visitSReturn, visitSReturnV, Checking
<1>3. ASSUME Leaf, Sound
      PROVE  StepOK
  <2>1. Others
    BY <1>1, <1>3, SameOthers DEF Sound, IInv, Rest
  <2> QED BY <2>1, <1>3, Stays DEF Leaf, Sound
<1> QED BY <1>1, <1>2, <1>3, Tested

(* A handler that calls its first sub-statement after its expressions.     *)
LEMMA EnterInv ==
  ASSUME IInv, node # NoStm, node.op \in {"SWhile", "SFor", "SIfElse", "SDoWhile"},
         UNCHANGED <<program, rootParent, fn, arg>>,
         (Call(node.kids[1], Frame(node, 1)) /\ Sound) \/ Throw \/ Crash
  PROVE  StepOK
<1>1. /\ node \in Stm /\ frames # <<>> /\ node.kids[1] \in Stm
      /\ node.op # "DFun" /\ node.op \notin ScopeOps /\ TypeKnown(node)
  BY NodeFacts, StmParts DEF TypeKnown, ScopeOps
<1>2. ASSUME Call(node.kids[1], Frame(node, 1)), Sound
      PROVE  StepOK
  <2>1. Others /\ chain' = chain
    BY <1>2, SameOthers DEF Sound, IInv, Rest
  <2>2. frames' = Append(frames, Frame(node, 1)) /\ node' \in Stm \cup {NoStm}
    BY <1>1, <1>2 DEF Call
  <2> QED BY <1>1, <2>1, <2>2, Calls
<1> QED BY <1>1, <1>2, Tested

(* A while is entered after its condition.                                 *)
LEMMA visitSWhileInv == ASSUME IInv, visitSWhile PROVE StepOK
  BY EnterInv DEF visitSWhile, Entering, Checking

(* A for is entered after its three expressions.                           *)
LEMMA visitSForInv == ASSUME IInv, visitSFor PROVE StepOK
  BY EnterInv DEF visitSFor, Entering, Checking

(* An if is entered after its condition.                                   *)
LEMMA visitSIfElseInv == ASSUME IInv, visitSIfElse PROVE StepOK
  BY EnterInv DEF visitSIfElse, Entering, Checking

(* A do is entered at once: its condition comes last.                      *)
LEMMA visitSDoWhileInv == ASSUME IInv, visitSDoWhile PROVE StepOK
<1>1. /\ node # NoStm /\ node.op = "SDoWhile" /\ Call(node.kids[1], Frame(node, 1)) /\ Sound
      /\ UNCHANGED <<program, rootParent, fn, arg>>
  BY DEF visitSDoWhile, Entering, fixed, Sound
<1> QED BY <1>1, EnterInv

(* The condition of a do, and the end of the other handlers.               *)
LEMMA endInv == ASSUME IInv, endSDoWhile \/ endStm \/ endSDecls PROVE StepOK
<1>1. frames # <<>> /\ Top.stm.op \notin ScopeOps
  BY DEF endSDoWhile, endStm, endSDecls, Resuming, InFrame, ScopeOps
<1>2. UNCHANGED <<program, rootParent, fn, arg>>
  BY DEF endSDoWhile, endStm, endSDecls, Checking, fixed
<1>3. (Return /\ Sound) \/ Throw \/ Crash
  BY DEF endSDoWhile, endStm, endSDecls, Checking, fixed, Sound
<1>4. ASSUME Return, Sound
      PROVE  StepOK
  <2>1. Others /\ chain' = chain
    BY <1>2, <1>4, SameOthers DEF Sound, IInv, Rest
  <2> QED BY <1>1, <1>4, <2>1, Returns
<1> QED BY <1>1, <1>2, <1>3, <1>4, Tested

(* An if goes on to its else branch.                                       *)
LEMMA elseSIfElseInv == ASSUME IInv, elseSIfElse PROVE StepOK
<1>1. frames # <<>> /\ Top.stm.op = "SIfElse"
  BY DEF elseSIfElse, Resuming, InFrame
<1>2. PICK s : s = Top.stm.kids[2]
  OBVIOUS
<1>3. s \in Stm
  BY <1>1, <1>2, TopFacts, StmParts
<1>4. Advance(s) /\ Others /\ chain' = chain
  BY <1>2 DEF elseSIfElse, fixed, Others, IInv, Rest
<1> QED BY <1>1, <1>3, <1>4, Advances

(* Declarations.                                                           *)
LEMMA visitSDeclsInv == ASSUME IInv, visitSDecls PROVE StepOK
<1>1. /\ node \in Stm /\ frames # <<>> /\ node.op = "SDecls"
      /\ UNCHANGED <<program, rootParent, fn, arg>>
  BY NodeFacts DEF visitSDecls, Entering
<1>2. node.op # "DFun" /\ node.op \notin ScopeOps
  BY <1>1 DEF ScopeOps
<1>3. PICK t : t = findBasicType(types, node.type)
  OBVIOUS
<1>4. \/ Throw \/ Crash
      \/ t # null /\ Call(NoStm, Frame(node, 0)) /\ Sound
  BY <1>3 DEF visitSDecls
<1>5. ASSUME t # null, Call(NoStm, Frame(node, 0)), Sound
      PROVE  StepOK
  <2>1. TypeKnown(node)
    BY <1>3, <1>5, FindBasicType DEF TypeKnown
  <2>2. Others /\ chain' = chain
    BY <1>1, <1>5, SameOthers DEF Sound, IInv, Rest
  <2>3. frames' = Append(frames, Frame(node, 0)) /\ node' \in Stm \cup {NoStm}
    BY <1>5 DEF Call
  <2> QED BY <1>1, <1>2, <2>1, <2>2, <2>3, Calls
<1> QED BY <1>1, <1>4, <1>5, Tested

(* One name: declared in the innermost Context, or an error.               *)
LEMMA visitIdInInv == ASSUME IInv, visitIdIn PROVE StepOK
<1>1. /\ frames # <<>> /\ Top.stm.op = "SDecls" /\ Top.pos < Len(Top.stm.exps)
      /\ UNCHANGED <<program, rootParent, fn, arg>>
  BY DEF visitIdIn, InFrame, Checking
<1>2. PICK id, t : id = Top.stm.exps[Top.pos + 1] /\ t = findBasicType(types, Top.stm.type)
  OBVIOUS
<1>3. id.name \in Id /\ t \in DOMAIN types
  <2>1. Top.pos \in Nat /\ Top.stm.exps \in Seq(IdIn) /\ t \in DOMAIN types
    BY <1>1, <1>2, TopFacts, StmParts DEF TypeKnown
  <2>2. id \in IdIn
    BY <1>1, <1>2, <2>1
  <2> QED BY <2>1, <2>2 DEF IdIn
<1>4. \/ Throw \/ Crash
      \/ /\ id.name \notin DOMAIN Current /\ addSymbol(id.name, t)
         /\ Advance(NoStm) /\ UNCHANGED <<anyErrors, crashed>>
  BY <1>2 DEF visitIdIn, Checking
<1>5. ASSUME id.name \notin DOMAIN Current, addSymbol(id.name, t),
             Advance(NoStm), UNCHANGED <<anyErrors, crashed>>
      PROVE  StepOK
  <2>1. Declares
    BY <1>3, <1>5 DEF Declares, Current
  <2>2. Others
    BY <1>1, <1>5, SameOthers DEF IInv, Rest
  <2> QED BY <1>1, <1>5, <2>1, <2>2, Advances
<1> QED BY <1>1, <1>4, <1>5, Tested

-----------------------------------------------------------------------------
(* The invariant *)

(* No statement has run: one Context, no handler.                          *)
LEMMA InitInv == Init => IInv
<1> SUFFICES ASSUME Init PROVE IInv
  OBVIOUS
<1>1. StackOK(<<>>) /\ ScopeCount(<<>>) = 0
  BY FS_EmptySet DEF StackOK, ScopeCount, ScopeFrames
<1>2. chain \in Seq(Maps) /\ Len(chain) = 1
  BY NoMembersMap DEF Init
<1>3. Rest
  <2>1. program \in Seq(Function) /\ fn = 0
    BY TypeCheckAssumption DEF Init
  <2>2. fn \in 0 .. Len(program) /\ arg \in Nat
    BY <2>1 DEF Init
  <2> QED BY <2>1, <2>2 DEF Init, Rest
<1> QED BY <1>1, <1>2, <1>3 DEF Init, IInv

(* Every step keeps the invariant and moves the chain as LexicalScope can. *)
LEMMA NextInv == ASSUME IInv, [Next]_vars PROVE StepOK
<1>1. CASE UNCHANGED vars
  BY <1>1 DEF vars, StepOK, IInv, Rest, StackOK, ScopeCount, ScopeFrames
<1>2. CASE Next
  BY <1>2, visitDFunInv, visitADeclInv, visitNextInv, endListInv, visitSBlockInv, LeafInv,
     visitSDeclsInv, visitIdInInv, endInv, visitSWhileInv, visitSDoWhileInv, visitSForInv,
     visitSIfElseInv, elseSIfElseInv DEF Next
<1> QED BY <1>1, <1>2

(* In every state the open Contexts match the handlers on the stack: an    *)
(* error is caught by the loop of a function or block that is still open   *)
(* (TypeCheckVisitor.cpp:131-139).                                         *)
THEOREM Invariance == Spec => []IInv
<1>1. Init => IInv
  BY InitInv
<1>2. IInv /\ [Next]_vars => IInv'
  BY NextInv DEF StepOK
<1> QED BY <1>1, <1>2, PTL DEF Spec

(* Every Context maps names to known types, and the stack holds statements *)
(* and functions.                                                          *)
THEOREM TypeCorrect == Spec => []TypeOK
<1>1. IInv => TypeOK
  <2> SUFFICES ASSUME IInv PROVE TypeOK
    OBVIOUS
  <2>1. /\ frames \in Seq([stm : Stm \cup Function, pos : Nat])
        /\ chain \in Seq(Maps) /\ chain # <<>>
    BY InvFacts DEF StackOK, FrameSet
  <2>2. \A i \in DOMAIN chain :
          DOMAIN chain[i] \subseteq Id /\ chain[i] \in [DOMAIN chain[i] -> DOMAIN types]
    BY <2>1, MapValues
  <2> QED BY <2>1, <2>2 DEF TypeOK, IInv, Rest
<1> QED BY <1>1, Invariance, PTL

(* Whatever an error unwinds, as many Contexts are open as functions and   *)
(* blocks are being visited (TypeCheckVisitor.cpp:131-139).                *)
THEOREM ContextsFollowScopes == Spec => []ContextPerScope
<1>1. IInv => ContextPerScope
  BY DEF IInv, ContextPerScope, ScopeCount, ScopeFrames, ScopeOps
<1> QED BY <1>1, Invariance, PTL

-----------------------------------------------------------------------------
(* Lookups *)

(* What the chain c leaves to be restored, scope by scope.                 *)
OuterOf(c) ==
  [i \in 1 .. Len(c) - 1 |-> [visible |-> Table(SubSeq(c, 1, i)), local |-> DOMAIN c[i]]]

(* A chain that is not empty.                                              *)
Chain(c) == c \in Seq(Maps) /\ Len(c) >= 1

(* Its positions, and where names can be held.                             *)
LEMMA ChainFacts ==
  ASSUME NEW c, Chain(c)
  PROVE  /\ c \in Seq(Maps) /\ Len(c) \in Nat /\ Len(c) >= 1 /\ DOMAIN c = 1 .. Len(c)
         /\ Len(c) \in 1 .. Len(c) /\ Len(c) - 1 \in Nat /\ Len(c) - 1 <= Len(c)
         /\ \A x : Holders(c, x) \subseteq 1 .. Len(c)
  BY DEF Chain, Holders

(* The first k Contexts of two chains that agree on them.                  *)
LEMMA SamePrefix ==
  ASSUME NEW S, NEW c \in Seq(S), NEW d \in Seq(S), NEW k \in Nat, k <= Len(c), k <= Len(d),
         \A i \in 1 .. k : c[i] = d[i]
  PROVE  SubSeq(c, 1, k) = SubSeq(d, 1, k)
<1>1. PICK a, b : a = SubSeq(c, 1, k) /\ b = SubSeq(d, 1, k)
  OBVIOUS
<1>2. a \in Seq(S) /\ Len(a) = k /\ \A i \in 1 .. k : a[i] = c[i]
  BY <1>1, PrefixFacts
<1>3. b \in Seq(S) /\ Len(b) = k /\ \A i \in 1 .. k : b[i] = d[i]
  BY <1>1, PrefixFacts
<1>4. \A i \in 1 .. Len(a) : a[i] = b[i]
  BY <1>2, <1>3
<1>5. a = b
  BY ONLY <1>2, <1>3, <1>4, SeqEqual
<1> QED BY <1>1, <1>5

(* findSymbol yields what the innermost holder says.                       *)
LEMMA FindIs ==
  ASSUME NEW c, Chain(c), NEW x, NEW k \in Holders(c, x), \A j \in Holders(c, x) : j <= k
  PROVE  findSymbol(c, x) = c[k][x]
<1>1. PICK i : i = CHOOSE h \in Holders(c, x) : \A j \in Holders(c, x) : j <= h
  OBVIOUS
<1>2. i \in Holders(c, x) /\ \A j \in Holders(c, x) : j <= i
  BY <1>1
<1>3. i = k
  <2>1. i \in 1 .. Len(c) /\ k \in 1 .. Len(c) /\ i <= k /\ k <= i /\ Len(c) \in Nat
    BY <1>2, ChainFacts
  <2> QED BY <2>1
<1>4. findSymbol(c, x) = c[i][x]
  BY <1>1, <1>2 DEF findSymbol
<1> QED BY <1>3, <1>4

(* The innermost holder of a name.                                         *)
LEMMA Innermost ==
  ASSUME NEW c, Chain(c), NEW x, Holders(c, x) # {}
  PROVE  \E k \in Holders(c, x) : \A j \in Holders(c, x) : j <= k
<1>1. Len(c) \in Nat /\ Holders(c, x) \subseteq 1 .. Len(c)
  BY ChainFacts
<1> QED BY <1>1, Largest

(* Chains that hold a name in the same Contexts with the same types.       *)
LEMMA SameFind ==
  ASSUME NEW c, Chain(c), NEW d, Chain(d), NEW x, Holders(c, x) = Holders(d, x),
         \A i \in Holders(c, x) : c[i][x] = d[i][x]
  PROVE  findSymbol(c, x) = findSymbol(d, x)
<1>1. CASE Holders(c, x) = {}
  BY <1>1 DEF findSymbol
<1>2. CASE Holders(c, x) # {}
  <2>1. PICK k \in Holders(c, x) : \A j \in Holders(c, x) : j <= k
    BY <1>2, Innermost
  <2>2. findSymbol(c, x) = c[k][x]
    BY <2>1, FindIs
  <2>3. findSymbol(d, x) = d[k][x]
    BY <2>1, FindIs
  <2> QED BY <2>1, <2>2, <2>3
<1> QED BY <1>1, <1>2

(* A new Context hides nothing, and leaves c to come back to.              *)
LEMMA Opened ==
  ASSUME NEW c, Chain(c), NEW d, d = Append(c, NoMembers)
  PROVE  /\ Table(d) = Table(c)
         /\ DOMAIN d[Len(d)] = {}
         /\ OuterOf(d) = Append(OuterOf(c), [visible |-> Table(c), local |-> DOMAIN c[Len(c)]])
<1>1. /\ Chain(d) /\ Len(d) = Len(c) + 1 /\ d[Len(c) + 1] = NoMembers
      /\ \A i \in 1 .. Len(c) : d[i] = c[i]
  BY ChainFacts, NoMembersMap DEF Chain
<1>2. ASSUME NEW x
      PROVE  findSymbol(d, x) = findSymbol(c, x)
  <2>1. Holders(d, x) = Holders(c, x)
    <3>1. DOMAIN d = 1 .. Len(c) + 1 /\ DOMAIN c = 1 .. Len(c) /\ Len(c) \in Nat
      BY <1>1, ChainFacts
    <3>2. \A i \in 1 .. Len(c) + 1 : i \in 1 .. Len(c) \/ i = Len(c) + 1
      BY <3>1
    <3>3. x \notin DOMAIN d[Len(c) + 1]
      BY <1>1, NoMembersMap
    <3>4. 1 .. Len(c) \subseteq 1 .. Len(c) + 1
      BY <3>1
    <3> QED BY <1>1, <3>1, <3>2, <3>3, <3>4 DEF Holders
  <2>2. \A i \in Holders(d, x) : d[i][x] = c[i][x]
    BY <1>1, <2>1, ChainFacts
  <2> QED BY <1>1, <2>1, <2>2, SameFind
<1>3. Table(d) = Table(c)
  BY <1>2 DEF Table
<1>4. DOMAIN d[Len(d)] = {}
  BY <1>1, NoMembersMap
<1>5. ASSUME NEW i \in 1 .. Len(c)
      PROVE  SubSeq(d, 1, i) = SubSeq(c, 1, i)
  <2>1. /\ i \in Nat /\ i <= Len(c) /\ i <= Len(d) /\ c \in Seq(Maps) /\ d \in Seq(Maps)
        /\ \A j \in 1 .. i : d[j] = c[j]
    BY <1>1, ChainFacts DEF Chain
  <2> QED BY <2>1, SamePrefix
<1>6. SubSeq(c, 1, Len(c)) = c
  <2>1. PICK a : a = SubSeq(c, 1, Len(c))
    OBVIOUS
  <2>2. c \in Seq(Maps) /\ Len(c) \in Nat /\ Len(c) <= Len(c)
    BY ChainFacts
  <2>3. a \in Seq(Maps) /\ Len(a) = Len(c) /\ \A j \in 1 .. Len(c) : a[j] = c[j]
    BY <2>1, <2>2, PrefixFacts
  <2>4. a = c
    BY ONLY <2>2, <2>3, SeqEqual
  <2> QED BY <2>1, <2>4
<1>7. OuterOf(d) = Append(OuterOf(c), [visible |-> Table(c), local |-> DOMAIN c[Len(c)]])
  <2> DEFINE entry(i) == [visible |-> Table(SubSeq(c, 1, i)), local |-> DOMAIN c[i]]
  <2>1. OuterOf(d) = [i \in 1 .. Len(c) |-> entry(i)]
    <3>1. Len(d) - 1 = Len(c)
      BY <1>1, ChainFacts
    <3> QED BY <1>1, <1>5, <3>1 DEF OuterOf
  <2>2. OuterOf(c) = [i \in 1 .. Len(c) - 1 |-> entry(i)]
    BY DEF OuterOf
  <2>3. entry(Len(c)) = [visible |-> Table(c), local |-> DOMAIN c[Len(c)]]
    BY <1>6
  <2> HIDE DEF entry
  <2>4. [i \in 1 .. Len(c) |-> entry(i)] = Append([i \in 1 .. Len(c) - 1 |-> entry(i)], entry(Len(c)))
    BY ChainFacts
  <2> QED BY <2>1, <2>2, <2>3, <2>4
<1> QED BY <1>3, <1>4, <1>7

(* Closing comes back to what was left.                                    *)
LEMMA Closed ==
  ASSUME NEW c, Chain(c), Len(c) > 1, NEW d, d = SubSeq(c, 1, Len(c) - 1)
  PROVE  /\ OuterOf(c) # <<>>
         /\ Table(d) = OuterOf(c)[Len(OuterOf(c))].visible
         /\ DOMAIN d[Len(d)] = OuterOf(c)[Len(OuterOf(c))].local
         /\ OuterOf(d) = SubSeq(OuterOf(c), 1, Len(OuterOf(c)) - 1)
<1>1. PICK n \in Nat : Len(c) = n + 1 /\ n >= 1
  BY ChainFacts
<1>2. /\ c \in Seq(Maps) /\ d \in Seq(Maps) /\ Len(d) = n /\ n <= Len(c)
      /\ \A i \in 1 .. n : d[i] = c[i]
  <2>1. Len(c) - 1 = n
    BY <1>1
  <2> QED BY <1>1, <2>1, ChainFacts, PrefixFacts
<1>3. ASSUME NEW i \in 1 .. n
      PROVE  SubSeq(d, 1, i) = SubSeq(c, 1, i)
  <2>1. i \in Nat /\ i <= Len(c) /\ i <= Len(d) /\ \A j \in 1 .. i : d[j] = c[j]
    BY <1>1, <1>2
  <2> QED BY <1>2, <2>1, SamePrefix
<1> DEFINE entry(i) == [visible |-> Table(SubSeq(c, 1, i)), local |-> DOMAIN c[i]]
<1>4. OuterOf(c) = [i \in 1 .. n |-> entry(i)]
  BY <1>1 DEF OuterOf
<1>5. OuterOf(d) = [i \in 1 .. n - 1 |-> entry(i)]
  <2>1. \A i \in 1 .. n - 1 : i \in 1 .. n
    BY <1>1
  <2> QED BY <1>2, <1>3, <2>1 DEF OuterOf
<1>6. /\ entry(n).visible = Table(d)
      /\ entry(n).local = DOMAIN d[Len(d)]
  <2>1. n \in 1 .. n /\ d = SubSeq(c, 1, n)
    BY <1>1
  <2> QED BY <1>2, <2>1
<1> HIDE DEF entry
<1>7. /\ Len(OuterOf(c)) = n /\ OuterOf(c) # <<>> /\ OuterOf(c)[n] = entry(n)
  BY <1>1, <1>4
<1>8. OuterOf(d) = SubSeq(OuterOf(c), 1, n - 1)
  BY <1>1, <1>4, <1>5
<1> QED BY <1>6, <1>7, <1>8

(* d is c after addSymbol of x.                                            *)
Adds(c, d, x, m) ==
  x \notin DOMAIN c[Len(c)] /\ d = [c EXCEPT ![Len(c)] = Emplace(c[Len(c)], x, m)]

(* A name that is declared is found where it was declared; no other name   *)
(* changes its meaning, and nothing changes in what will be restored.      *)
LEMMA Declared ==
  ASSUME NEW c, Chain(c), NEW x \in Id, NEW m \in DOMAIN types, NEW d, Adds(c, d, x, m)
  PROVE  /\ Table(d) = [Table(c) EXCEPT ![x] = m]
         /\ DOMAIN d[Len(d)] = DOMAIN c[Len(c)] \cup {x}
         /\ OuterOf(d) = OuterOf(c)
<1>1. PICK n, e : /\ n = Len(c) /\ e = Emplace(c[n], x, m)
                  /\ x \notin DOMAIN c[n] /\ d = [c EXCEPT ![n] = e]
  BY DEF Adds
<1>2. /\ n \in Nat /\ n >= 1 /\ n \in 1 .. n /\ c \in Seq(Maps) /\ DOMAIN c = 1 .. n
      /\ c[n] \in Maps
  BY <1>1, ChainFacts
<1>3. /\ e \in Maps /\ DOMAIN e = DOMAIN c[n] \cup {x} /\ e[x] = m
      /\ \A y \in DOMAIN c[n] : e[y] = c[n][y]
  <2>1. PICK h : h = c[n]
    OBVIOUS
  <2>2. /\ h \in Maps /\ x \notin DOMAIN h /\ e = Emplace(h, x, m)
        /\ x \in Id /\ m \in DOMAIN types
    BY <1>1, <1>2, <2>1
  <2>3. /\ e \in Maps /\ DOMAIN e = DOMAIN h \cup {x} /\ e[x] = m
        /\ \A y \in DOMAIN h : e[y] = h[y]
    BY ONLY <2>2, EmplaceMap
  <2> QED BY <2>1, <2>3
<1>4. d = [c EXCEPT ![n] = e]
  BY <1>1
<1>5. /\ d \in Seq(Maps) /\ Len(d) = n /\ DOMAIN d = 1 .. n /\ d[n] = e
      /\ \A i \in 1 .. n : i # n => d[i] = c[i]
  BY <1>1, <1>2, <1>3, <1>4
<1>6. Chain(d) /\ DOMAIN d[Len(d)] = DOMAIN c[Len(c)] \cup {x}
  BY <1>1, <1>2, <1>3, <1>5 DEF Chain
<1>7. findSymbol(d, x) = m
  <2>1. n \in Holders(d, x) /\ \A j \in Holders(d, x) : j <= n
    BY <1>2, <1>3, <1>5 DEF Holders
  <2>2. findSymbol(d, x) = d[n][x]
    BY <1>6, <2>1, FindIs
  <2> QED BY <1>3, <1>5, <2>2
<1>8. ASSUME NEW y, y # x
      PROVE  findSymbol(d, y) = findSymbol(c, y)
  <2>1. \A i \in 1 .. n : y \in DOMAIN d[i] <=> y \in DOMAIN c[i]
    BY <1>3, <1>5, <1>8
  <2>2. Holders(d, y) = Holders(c, y)
    BY <1>2, <1>5, <2>1 DEF Holders
  <2>3. ASSUME NEW i \in Holders(d, y)
        PROVE  d[i][y] = c[i][y]
    <3>1. i \in 1 .. n /\ y \in DOMAIN c[i]
      BY <1>2, <2>2 DEF Holders
    <3>2. CASE i = n
      BY <1>3, <1>5, <3>1, <3>2
    <3>3. CASE i # n
      BY <1>5, <3>1, <3>3
    <3> QED BY <3>2, <3>3
  <2>4. Chain(c) /\ Chain(d)
    BY <1>6
  <2> QED BY ONLY <2>2, <2>3, <2>4, SameFind
<1>9. Table(d) = [Table(c) EXCEPT ![x] = m]
  BY <1>7, <1>8 DEF Table
<1>10. ASSUME NEW i \in 1 .. n - 1
       PROVE  d[i] = c[i] /\ SubSeq(d, 1, i) = SubSeq(c, 1, i)
  <2>1. /\ i \in Nat /\ i <= Len(c) /\ i <= Len(d) /\ \A j \in 1 .. i : d[j] = c[j]
        /\ d[i] = c[i]
    BY <1>1, <1>2, <1>5
  <2> QED BY <1>2, <1>5, <2>1, SamePrefix
<1>11. OuterOf(d) = OuterOf(c)
  BY <1>1, <1>5, <1>10 DEF OuterOf
<1> QED BY <1>6, <1>9, <1>11

-----------------------------------------------------------------------------
(* The refinement *)

(* The mapping of TypeCheck's INSTANCE, in terms of the chain.             *)
LEMMA InitLexical == Init => Lexical!Init
<1> SUFFICES ASSUME Init PROVE Lexical!Init
  OBVIOUS
<1>1. chain = <<NoMembers>> /\ Len(chain) = 1 /\ Chain(chain) /\ chain[1] = NoMembers
  BY NoMembersMap DEF Init, Chain
<1>2. DOMAIN Current = {}
  BY <1>1, NoMembersMap DEF Current
<1>3. \A x : Holders(chain, x) = {}
  BY <1>1, NoMembersMap DEF Holders
<1>4. Table(chain) = [x \in Id |-> null]
  BY <1>3 DEF Table, findSymbol
<1>5. OuterOf(chain) = <<>>
  BY <1>1 DEF OuterOf
<1> QED BY <1>2, <1>4, <1>5 DEF Lexical!Init, OuterOf

(* Every step of the visitor is one of LexicalScope, or leaves the table   *)
(* alone: an error that unwinds the stack does.                            *)
LEMMA StepLexical == ASSUME IInv, [Next]_vars PROVE [Lexical!Next]_(Lexical!vars)
<1>1. Chain(chain)
  BY InvFacts DEF Chain
<1>2. chain' = chain \/ Opens \/ Closes \/ Declares
  BY NextInv DEF StepOK
<1>3. OuterOf(chain)' = OuterOf(chain') /\ Table(chain)' = Table(chain')
  BY DEF OuterOf, Table, findSymbol, Holders
<1>4. CASE chain' = chain
  <2>1. UNCHANGED Lexical!vars
    BY <1>4 DEF Lexical!vars, Current, Table, findSymbol, Holders
  <2> QED BY <2>1
<1>5. CASE Opens
  <2>1. /\ Table(chain') = Table(chain) /\ DOMAIN Current' = {}
        /\ OuterOf(chain') = Append(OuterOf(chain), [visible |-> Table(chain), local |-> DOMAIN Current])
    BY <1>1, <1>5, Opened DEF Opens, Current
  <2>2. /\ Table(chain)' = Table(chain) /\ DOMAIN Current' = {}
        /\ OuterOf(chain)' = Append(OuterOf(chain), [visible |-> Table(chain), local |-> DOMAIN Current])
    BY <1>3, <2>1
  <2>3. Lexical!Open
    BY <2>2 DEF Lexical!Open, OuterOf
  <2> QED BY <2>3 DEF Lexical!Next
<1>6. CASE Closes
  <2>1. /\ OuterOf(chain) # <<>>
        /\ Table(chain') = OuterOf(chain)[Len(OuterOf(chain))].visible
        /\ DOMAIN Current' = OuterOf(chain)[Len(OuterOf(chain))].local
        /\ OuterOf(chain') = SubSeq(OuterOf(chain), 1, Len(OuterOf(chain)) - 1)
    BY <1>1, <1>6, Closed DEF Closes, Current
  <2>2. /\ OuterOf(chain) # <<>>
        /\ Table(chain)' = OuterOf(chain)[Len(OuterOf(chain))].visible
        /\ DOMAIN Current' = OuterOf(chain)[Len(OuterOf(chain))].local
        /\ OuterOf(chain)' = SubSeq(OuterOf(chain), 1, Len(OuterOf(chain)) - 1)
    BY <1>3, <2>1
  <2>3. Lexical!Close
    BY <2>2 DEF Lexical!Close, OuterOf
  <2> QED BY <2>3 DEF Lexical!Next
<1>7. CASE Declares
  <2>1. PICK x \in Id, m \in DOMAIN types :
          x \notin DOMAIN chain[Len(chain)] /\ addSymbol(x, m)
    BY <1>7 DEF Declares
  <2>2. /\ Table(chain') = [Table(chain) EXCEPT ![x] = m]
        /\ DOMAIN Current' = DOMAIN Current \cup {x}
        /\ OuterOf(chain') = OuterOf(chain)
    <3>1. PICK c, d : c = chain /\ d = chain'
      OBVIOUS
    <3>2. Chain(c) /\ x \in Id /\ m \in DOMAIN types /\ Adds(c, d, x, m)
      BY <1>1, <2>1, <3>1 DEF addSymbol, Adds
    <3>3. /\ Table(d) = [Table(c) EXCEPT ![x] = m]
          /\ DOMAIN d[Len(d)] = DOMAIN c[Len(c)] \cup {x}
          /\ OuterOf(d) = OuterOf(c)
      BY ONLY <3>2, Declared
    <3> QED BY <3>1, <3>3 DEF Current
  <2>3. /\ Table(chain)' = [Table(chain) EXCEPT ![x] = m]
        /\ DOMAIN Current' = DOMAIN Current \cup {x}
        /\ OuterOf(chain)' = OuterOf(chain) /\ x \notin DOMAIN Current
    BY <1>3, <2>1, <2>2 DEF Current
  <2>4. Lexical!Declare(x, m)
    BY <2>3 DEF Lexical!Declare, OuterOf
  <2> QED BY <2>4 DEF Lexical!Next
<1> QED BY <1>2, <1>4, <1>5, <1>6, <1>7

(* Whatever statements are nested, names repeated and errors thrown, the   *)
(* chain of Contexts is a lexically scoped table (Context.cpp:9-25,        *)
(* TypeCheckVisitor.cpp:131-139).                                          *)
THEOREM ImplementsLexicalScope == Spec => IsLexicalScope
<1>1. Init => Lexical!Init
  BY InitLexical
<1>2. IInv /\ [Next]_vars => [Lexical!Next]_(Lexical!vars)
  BY StepLexical
<1> QED BY <1>1, <1>2, Invariance, PTL DEF Spec, IsLexicalScope, Lexical!Spec

-----------------------------------------------------------------------------
(* The judgement *)

(* What a part of a program can make of a scope: nothing that was wrong    *)
(* becomes right.                                                          *)
Moves == {g \in [Scopes -> Scopes] : \A sc \in Scopes : g[sc].ok => sc.ok}

Table0 == [Id -> DOMAIN types \cup {null}]

(* The fields of a scope.                                                  *)
LEMMA ScopeParts ==
  ASSUME NEW sc \in Scopes
  PROVE  /\ sc.visible \in Table0 /\ sc.local \subseteq Id /\ sc.ok \in BOOLEAN
         /\ sc = Scope(sc.visible, sc.local, sc.ok)
  BY DEF Scopes, Scope, Table0

(* What Scope makes of its arguments.                                      *)
LEMMA ScopeIs ==
  ASSUME NEW v \in Table0, NEW l, l \subseteq Id, NEW b \in BOOLEAN
  PROVE  /\ Scope(v, l, b) \in Scopes
         /\ Scope(v, l, b).visible = v /\ Scope(v, l, b).local = l /\ Scope(v, l, b).ok = b
  BY DEF Scopes, Scope, Table0

(* A condition that holds changes nothing, one that fails is remembered.   *)
LEMMA AndHolds ==
  ASSUME NEW sc \in Scopes, NEW cond
  PROVE  /\ cond => And(sc, cond) = sc
         /\ ~ cond => And(sc, cond) = Scope(sc.visible, sc.local, FALSE)
<1>1. PICK v, l, b : v = sc.visible /\ l = sc.local /\ b = sc.ok
  OBVIOUS
<1>2. sc = [visible |-> v, local |-> l, ok |-> b] /\ b \in BOOLEAN
  BY <1>1, ScopeParts DEF Scope
<1>3. ASSUME cond
      PROVE  And(sc, cond) = sc
  <2>1. CASE b = TRUE
    BY <1>2, <1>3, <2>1 DEF And
  <2>2. CASE b = FALSE
    BY <1>2, <1>3, <2>2 DEF And
  <2> QED BY <1>2, <2>1, <2>2
<1>4. ASSUME ~ cond
      PROVE  And(sc, cond) = Scope(v, l, FALSE)
  <2>1. (sc.ok /\ cond) = FALSE
    BY <1>4
  <2>2. And(sc, cond) = [sc EXCEPT !.ok = FALSE]
    BY <2>1 DEF And
  <2> QED BY <1>2, <2>2 DEF Scope
<1> QED BY <1>1, <1>3, <1>4

(* Nothing that was wrong becomes right.                                   *)
LEMMA AndRange ==
  ASSUME NEW sc \in Scopes, NEW cond
  PROVE  And(sc, cond) \in Scopes /\ (And(sc, cond).ok => sc.ok /\ cond)
<1>1. PICK v, l : v = sc.visible /\ l = sc.local
  OBVIOUS
<1>2. v \in Table0 /\ l \subseteq Id
  BY <1>1, ScopeParts
<1>3. Scope(v, l, FALSE) \in Scopes /\ ~ Scope(v, l, FALSE).ok
  BY <1>2 DEF Scopes, Scope, Table0
<1>4. CASE cond
  BY <1>4, AndHolds
<1>5. CASE ~ cond
  BY <1>1, <1>3, <1>5, AndHolds
<1> QED BY <1>4, <1>5

(* A condition on the type of an expression.                               *)
LEMMA HasIs ==
  ASSUME NEW sc \in Scopes, NEW e, NEW want
  PROVE  /\ Has(e, want, sc) \in Scopes
         /\ Has(e, want, sc).ok => sc.ok /\ TypeIn(e, sc) \in want
         /\ TypeIn(e, sc) \in want => Has(e, want, sc) = sc
         /\ Has(e, want, sc).visible = sc.visible
         /\ Has(e, want, sc).local = sc.local
<1>1. CASE TypeIn(e, sc) \in want
  <2>1. Has(e, want, sc) = sc
    BY <1>1, AndHolds DEF Has
  <2> QED BY <1>1, <2>1
<1>2. CASE ~ (TypeIn(e, sc) \in want)
  <2>1. Has(e, want, sc) = Scope(sc.visible, sc.local, FALSE)
    BY <1>2, AndHolds DEF Has
  <2>2. /\ Scope(sc.visible, sc.local, FALSE) \in Scopes
        /\ Scope(sc.visible, sc.local, FALSE).visible = sc.visible
        /\ Scope(sc.visible, sc.local, FALSE).local = sc.local
        /\ ~ Scope(sc.visible, sc.local, FALSE).ok
    <3>1. PICK v, l : v = sc.visible /\ l = sc.local
      OBVIOUS
    <3>2. v \in Table0 /\ l \subseteq Id
      BY <3>1, ScopeParts
    <3> QED BY <3>1, <3>2 DEF Scopes, Scope, Table0
  <2> QED BY <1>2, <2>1, <2>2
<1> QED BY <1>1, <1>2

(* A name is entered unless the scope declared it before.                  *)
LEMMA EnterIs ==
  ASSUME NEW sc \in Scopes, NEW x \in Id, NEW t \in DOMAIN types
  PROVE  /\ Enter(sc, x, t) \in Scopes
         /\ Enter(sc, x, t).ok => sc.ok /\ x \notin sc.local
         /\ x \notin sc.local =>
              Enter(sc, x, t) = Scope([sc.visible EXCEPT ![x] = t], sc.local \cup {x}, sc.ok)
<1>1. PICK v, l, b : v = sc.visible /\ l = sc.local /\ b = sc.ok
  OBVIOUS
<1>2. /\ v \in Table0 /\ l \subseteq Id /\ b \in BOOLEAN
      /\ sc = [visible |-> v, local |-> l, ok |-> b]
  BY <1>1, ScopeParts DEF Scope
<1>3. PICK w, m : w = [v EXCEPT ![x] = t] /\ m = l \cup {x}
  OBVIOUS
<1>4. w \in Table0 /\ m \subseteq Id
  BY <1>2, <1>3 DEF Table0
<1>5. PICK s2 : s2 = [sc EXCEPT !.visible[x] = t, !.local = @ \cup {x}]
  OBVIOUS
<1>6. s2 = [visible |-> w, local |-> m, ok |-> b]
  <2>1. s2 = [sc EXCEPT !.visible = [sc.visible EXCEPT ![x] = t], !.local = sc.local \cup {x}]
    BY <1>5
  <2> QED BY <1>1, <1>2, <1>3, <2>1
<1>7. s2 = Scope(w, m, b)
  BY <1>6 DEF Scope
<1>8. s2 \in Scopes /\ s2.visible = w /\ s2.local = m /\ s2.ok = b
  BY <1>2, <1>4, <1>7, ScopeIs
<1>9. CASE x \notin l
  <2>1. Enter(sc, x, t) = s2
    BY <1>1, <1>5, <1>8, <1>9, AndHolds DEF Enter
  <2> QED BY <1>1, <1>3, <1>7, <1>8, <1>9, <2>1
<1>10. CASE x \in l
  <2>1. Enter(sc, x, t) = Scope(w, m, FALSE)
    BY <1>1, <1>5, <1>8, <1>10, AndHolds, ZenonT(40) DEF Enter
  <2>2. Scope(w, m, FALSE) \in Scopes /\ ~ Scope(w, m, FALSE).ok
    BY <1>4, ScopeIs
  <2> QED BY <1>1, <1>10, <2>1, <2>2
<1> QED BY <1>9, <1>10

(* With an initialiser, the type of that decides as well.                  *)
LEMMA EnterIdIs ==
  ASSUME NEW sc \in Scopes, NEW id \in IdIn, NEW t \in DOMAIN types
  PROVE  /\ EnterIdIn(sc, id, t) \in Scopes
         /\ EnterIdIn(sc, id, t).ok =>
              /\ sc.ok /\ id.name \notin sc.local
              /\ id.init # NoInit => TypeIn(id.init, sc) \in Becomes(t)
         /\ (id.init # NoInit => TypeIn(id.init, sc) \in Becomes(t)) =>
              EnterIdIn(sc, id, t) = Enter(sc, id.name, t)
<1>1. PICK s2 : s2 = IF id.init = NoInit THEN sc ELSE Has(id.init, Becomes(t), sc)
  OBVIOUS
<1>2. /\ s2 \in Scopes /\ s2.local = sc.local
      /\ s2.ok => sc.ok /\ (id.init # NoInit => TypeIn(id.init, sc) \in Becomes(t))
      /\ (id.init # NoInit => TypeIn(id.init, sc) \in Becomes(t)) => s2 = sc
  <2>1. CASE id.init = NoInit
    BY <1>1, <2>1
  <2>2. CASE id.init # NoInit
    <3>1. s2 = Has(id.init, Becomes(t), sc)
      BY <1>1, <2>2
    <3> QED BY <2>2, <3>1, HasIs
  <2> QED BY <2>1, <2>2
<1>3. EnterIdIn(sc, id, t) = Enter(s2, id.name, t)
  BY <1>1 DEF EnterIdIn
<1>4. id.name \in Id
  BY DEF IdIn
<1>5. /\ Enter(s2, id.name, t) \in Scopes
      /\ Enter(s2, id.name, t).ok => s2.ok /\ id.name \notin s2.local
  BY <1>2, <1>4, EnterIs
<1> QED BY <1>2, <1>3, <1>5

(* Steps in turn, from the first that is left.                             *)
LEMMA InTurnIs ==
  ASSUME NEW steps \in Seq(Moves)
  PROVE  /\ \A k \in 0 .. Len(steps) : InTurn(steps)[k] \in Moves
         /\ \A sc \in Scopes : InTurn(steps)[Len(steps)][sc] = sc
         /\ \A k \in 0 .. Len(steps) - 1 : \A sc \in Scopes :
              InTurn(steps)[k][sc] = InTurn(steps)[k + 1][steps[k + 1][sc]]
<1>1. PICK n \in Nat : n = Len(steps)
  OBVIOUS
<1>2. PICK S : S = 0 .. n
  OBVIOUS
<1>3. PICK h : h = [k \in S |-> n - k]
  OBVIOUS
<1>4. PICK kids : kids = [k \in S |-> IF k = n THEN {} ELSE {k + 1}]
  OBVIOUS
<1>5. /\ h \in [S -> Nat] /\ kids \in [S -> SUBSET S]
      /\ Lower(S, h, kids)
  BY <1>2, <1>3, <1>4 DEF Lower
<1> DEFINE Move(k, g) == [sc \in Scopes |-> IF k = n THEN sc ELSE g[k + 1][steps[k + 1][sc]]]
<1>6. ASSUME NEW k \in S, NEW g, k # n => g[k + 1] \in Moves
      PROVE  Move(k, g) \in Moves
  <2>1. CASE k = n
    BY <2>1 DEF Moves
  <2>2. CASE k # n
    <3>1. k + 1 \in 1 .. Len(steps)
      BY <1>1, <1>2, <2>2
    <3>2. steps[k + 1] \in Moves /\ g[k + 1] \in Moves
      BY <1>6, <2>2, <3>1
    <3> QED BY <2>2, <3>2 DEF Moves
  <2> QED BY <2>1, <2>2
<1>7. PICK step : step = [k \in S |-> [g \in [kids[k] -> Moves] |-> Move(k, g)]]
  OBVIOUS
<1>8. ASSUME NEW k \in S, NEW g \in [kids[k] -> Moves]
      PROVE  step[k][g] = Move(k, g) /\ step[k][g] \in Moves
  <2>1. k # n => k + 1 \in kids[k]
    BY <1>4
  <2>2. step[k][g] = Move(k, g)
    BY <1>7
  <2> HIDE DEF Move
  <2> QED BY <1>6, <2>1, <2>2
<1>9. \A k \in S : \A g \in [kids[k] -> Moves] : step[k][g] \in Moves
  BY <1>8
<1>10. PICK f \in [S -> Moves] : Computes(f, S, kids, step)
  BY <1>5, <1>9, TreeFunction
<1>11. ASSUME NEW k \in S
       PROVE  f[k] = Move(k, f)
  <2>1. PICK g : g = [j \in kids[k] |-> f[j]]
    OBVIOUS
  <2>2. kids[k] \subseteq S
    BY <1>5
  <2>3. g \in [kids[k] -> Moves]
    BY <2>1, <2>2
  <2>4. f[k] = Move(k, g)
    <3>1. f[k] = step[k][g]
      BY <1>10, <2>1 DEF Computes
    <3> HIDE DEF Move
    <3> QED BY <1>8, <2>3, <3>1
  <2>5. k # n => g[k + 1] = f[k + 1]
    BY <1>4, <2>1
  <2> QED BY <2>4, <2>5
<1> DEFINE sol(F) == F = [k \in 0 .. Len(steps) |-> [sc \in Scopes |->
                           IF k = Len(steps) THEN sc ELSE F[k + 1][steps[k + 1][sc]]]]
<1>12. sol(f)
  BY <1>1, <1>2, <1>10, <1>11
<1>13. InTurn(steps) = CHOOSE F : sol(F)
  BY DEF InTurn
<1>14. sol(InTurn(steps))
  <2> HIDE DEF sol
  <2> QED BY <1>12, <1>13
<1>15. PICK F : F = InTurn(steps)
  OBVIOUS
<1>16. F = [k \in S |-> Move(k, F)]
  BY <1>1, <1>2, <1>14, <1>15
<1>17. PICK P : P = {k \in S : F[k] \in Moves}
  OBVIOUS
<1>18. Hereditary(S, kids, P)
  <2>1. ASSUME NEW k \in S, kids[k] \subseteq P
        PROVE  k \in P
    <3>1. k # n => F[k + 1] \in Moves
      BY <1>4, <1>17, <2>1
    <3>2. F[k] = Move(k, F)
      BY <1>16
    <3> HIDE DEF Move
    <3> QED BY <1>6, <1>17, <3>1, <3>2
  <2> QED BY <2>1 DEF Hereditary
<1>19. S \subseteq P
  BY <1>5, <1>18, TreeInduction
<1>20. \A k \in S : F[k] \in Moves /\ F[k] = Move(k, F)
  BY <1>16, <1>17, <1>19
<1>21. n \in S /\ \A k \in 0 .. n - 1 : k \in S /\ k # n
  BY <1>2
<1>22. \A sc \in Scopes : F[n][sc] = sc
  BY <1>20, <1>21
<1>23. ASSUME NEW k \in 0 .. n - 1, NEW sc \in Scopes
       PROVE  F[k][sc] = F[k + 1][steps[k + 1][sc]]
  <2>1. k \in S /\ k # n
    BY <1>21
  <2>2. F[k] = [t \in Scopes |-> F[k + 1][steps[k + 1][t]]]
    BY <1>20, <2>1
  <2> QED BY <2>2
<1> HIDE DEF Move, sol
<1>24. /\ \A k \in 0 .. n : F[k] \in Moves
       /\ \A k \in 0 .. n - 1 : \A sc \in Scopes : F[k][sc] = F[k + 1][steps[k + 1][sc]]
  BY <1>2, <1>20, <1>23
<1> QED BY <1>1, <1>15, <1>22, <1>24

-----------------------------------------------------------------------------
(* What a statement makes of a scope *)

(* The expressions and parts of a statement, by its constructor.           *)
LEMMA StmExps ==
  ASSUME NEW s \in Stm
  PROVE  /\ s.op \in {"SExp", "SReturn", "SReturnV", "SWhile", "SDoWhile", "SFor", "SIfElse",
                      "SBlock", "SDecls"}
         /\ s.op \in {"SExp", "SReturn", "SWhile", "SDoWhile", "SIfElse"} => s.exps[1] \in Exp
         /\ s.op = "SFor" => s.exps[1] \in Exp /\ s.exps[2] \in Exp /\ s.exps[3] \in Exp
         /\ \A k \in DOMAIN Kids(s) : Kids(s)[k] \in Stm
         /\ s.op \in {"SWhile", "SDoWhile", "SFor", "SIfElse"} =>
              Kids(s) = s.kids /\ 1 \in DOMAIN Kids(s)
         /\ s.op = "SIfElse" => 2 \in DOMAIN Kids(s)
         /\ s.op = "SBlock" => Kids(s) = s.kids /\ s.kids \in Seq(Stm)
<1>1. s \in Statement
  BY TypeCheckAssumption
<1>2. CASE s \in Node({"SExp", "SReturn"}, 1, 0) \cup Node({"SReturnV"}, 0, 0)
  BY <1>2 DEF Node, Kids
<1>3. CASE s \in Node({"SWhile", "SDoWhile"}, 1, 1) \cup Node({"SFor"}, 3, 1)
  BY <1>3 DEF Node, Kids
<1>4. CASE s \in Node({"SIfElse"}, 1, 2)
  BY <1>4 DEF Node, Kids
<1>5. CASE s \in [op : {"SBlock"}, kids : Seq(Stm)]
  BY <1>5 DEF Kids
<1>6. CASE s \in [op : {"SDecls"}, type : TypeId, exps : Seq(IdIn)]
  BY <1>6 DEF Kids
<1> QED BY <1>1, <1>2, <1>3, <1>4, <1>5, <1>6 DEF Statement

(* A step that remembers a condition is one of Moves.                      *)
LEMMA HasMoves ==
  ASSUME NEW e, NEW want, NEW g \in Moves, NEW sc \in Scopes
  PROVE  /\ g[Has(e, want, sc)] \in Scopes /\ (g[Has(e, want, sc)].ok => sc.ok)
         /\ Has(e, want, g[sc]) \in Scopes /\ (Has(e, want, g[sc]).ok => sc.ok)
<1>1. Has(e, want, sc) \in Scopes /\ (Has(e, want, sc).ok => sc.ok)
  BY HasIs
<1>2. g[sc] \in Scopes /\ (g[sc].ok => sc.ok)
  BY DEF Moves
<1>3. PICK t : t = g[sc]
  OBVIOUS
<1>4. Has(e, want, t) \in Scopes /\ (Has(e, want, t).ok => t.ok)
  BY <1>2, <1>3, HasIs
<1>5. PICK u : u = Has(e, want, sc)
  OBVIOUS
<1>6. g[u] \in Scopes /\ (g[u].ok => u.ok)
  BY <1>1, <1>5 DEF Moves
<1> QED BY <1>1, <1>2, <1>3, <1>4, <1>5, <1>6

(* The names of a declaration, one after the other.                        *)
LEMMA EnterNamesMoves ==
  ASSUME NEW ids \in Seq(IdIn), NEW t \in DOMAIN types
  PROVE  /\ EnterNames(ids, t) \in Seq(Moves) /\ Len(EnterNames(ids, t)) = Len(ids)
         /\ \A k \in 1 .. Len(ids) : \A sc \in Scopes :
              EnterNames(ids, t)[k][sc] = EnterIdIn(sc, ids[k], t)
<1>1. DOMAIN ids = 1 .. Len(ids) /\ Len(ids) \in Nat /\ \A k \in 1 .. Len(ids) : ids[k] \in IdIn
  OBVIOUS
<1>2. ASSUME NEW k \in 1 .. Len(ids)
      PROVE  [sc \in Scopes |-> EnterIdIn(sc, ids[k], t)] \in Moves
  <2>1. \A sc \in Scopes : EnterIdIn(sc, ids[k], t) \in Scopes /\ (EnterIdIn(sc, ids[k], t).ok => sc.ok)
    BY <1>1, EnterIdIs
  <2> QED BY <2>1 DEF Moves
<1>3. EnterNames(ids, t) = [k \in 1 .. Len(ids) |-> [sc \in Scopes |-> EnterIdIn(sc, ids[k], t)]]
  BY <1>1 DEF EnterNames
<1> QED BY <1>1, <1>2, <1>3

(* The arguments of a function.                                            *)
LEMMA EnterArgsMoves ==
  ASSUME NEW args \in Seq([name : Id, type : DOMAIN types \ {TYPE_VOID}])
  PROVE  /\ EnterArgs(args) \in Seq(Moves) /\ Len(EnterArgs(args)) = Len(args)
         /\ \A k \in 1 .. Len(args) : \A sc \in Scopes :
              EnterArgs(args)[k][sc] = Enter(sc, args[k].name, args[k].type)
<1>1. /\ DOMAIN args = 1 .. Len(args) /\ Len(args) \in Nat
      /\ \A k \in 1 .. Len(args) : args[k].name \in Id /\ args[k].type \in DOMAIN types
  <2>1. PICK A : A = [name : Id, type : DOMAIN types \ {TYPE_VOID}]
    OBVIOUS
  <2>2. args \in Seq(A)
    BY <2>1
  <2>3. /\ DOMAIN args = 1 .. Len(args) /\ Len(args) \in Nat
        /\ \A k \in 1 .. Len(args) : args[k] \in A
    BY <2>2
  <2> QED BY <2>1, <2>3
<1>2. ASSUME NEW k \in 1 .. Len(args)
      PROVE  [sc \in Scopes |-> Enter(sc, args[k].name, args[k].type)] \in Moves
  <2>1. \A sc \in Scopes : /\ Enter(sc, args[k].name, args[k].type) \in Scopes
                           /\ Enter(sc, args[k].name, args[k].type).ok => sc.ok
    BY <1>1, EnterIs
  <2> QED BY <2>1 DEF Moves
<1>3. EnterArgs(args) =
        [k \in 1 .. Len(args) |-> [sc \in Scopes |-> Enter(sc, args[k].name, args[k].type)]]
  BY <1>1 DEF EnterArgs
<1> QED BY <1>1, <1>2, <1>3

(* Closing a scope keeps only whether all is well.                         *)
LEMMA LeaveMoves ==
  ASSUME NEW g \in Moves, NEW sc \in Scopes, NEW v \in Table0, NEW l, l \subseteq Id
  PROVE  /\ Scope(v, l, g[sc].ok) \in Scopes
         /\ Scope(v, l, g[sc].ok).ok => sc.ok
         /\ Scope(v, l, sc.ok) \in Scopes
<1>1. PICK t : t = g[sc]
  OBVIOUS
<1>2. t \in Scopes /\ (t.ok => sc.ok)
  BY <1>1 DEF Moves
<1>3. PICK b : b = t.ok
  OBVIOUS
<1>4. PICK b2 : b2 = sc.ok
  OBVIOUS
<1>5. b \in BOOLEAN /\ b2 \in BOOLEAN /\ (b => b2)
  BY <1>2, <1>3, <1>4, ScopeParts
<1>6. Scope(v, l, b) \in Scopes /\ Scope(v, l, b).ok = b /\ Scope(v, l, b2) \in Scopes
  BY <1>5, ScopeIs
<1> QED BY <1>1, <1>3, <1>4, <1>5, <1>6

(* A list of statements, when the meanings of its statements are Moves.    *)
LEMMA ListMoves ==
  ASSUME NEW n \in Nat, NEW after, NEW ret \in DOMAIN types,
         \A k \in 1 .. n : after[k] \in [DOMAIN types -> Moves]
  PROVE  /\ [k \in 1 .. n |-> after[k][ret]] \in Seq(Moves)
         /\ Len([k \in 1 .. n |-> after[k][ret]]) = n
<1>1. \A k \in 1 .. n : after[k][ret] \in Moves
  OBVIOUS
<1> QED BY <1>1

(* A statement makes nothing right that was wrong, when its parts do not.  *)
LEMMA JudgeMoves ==
  ASSUME NEW s \in Stm, NEW after, \A k \in DOMAIN Kids(s) : after[k] \in [DOMAIN types -> Moves],
         NEW ret \in DOMAIN types, NEW sc \in Scopes
  PROVE  Judge(s, after, ret, sc) \in Scopes /\ (Judge(s, after, ret, sc).ok => sc.ok)
<1>1. \A k \in DOMAIN Kids(s) : after[k][ret] \in Moves
  OBVIOUS
<1>2. CASE s.op \in {"SExp", "SReturn"}
  BY <1>2, HasIs DEF Judge
<1>3. CASE s.op = "SReturnV"
  <2>1. Judge(s, after, ret, sc) = And(sc, ret = TYPE_VOID)
    BY <1>3 DEF Judge
  <2> QED BY <2>1, AndRange
<1>4. CASE s.op = "SDecls"
  <2>1. PICK t : t = findBasicType(types, s.type)
    OBVIOUS
  <2>2. CASE t \in {null, TYPE_VOID}
    <3>1. Judge(s, after, ret, sc) = And(sc, FALSE)
      BY <1>4, <2>1, <2>2 DEF Judge
    <3> QED BY <3>1, AndRange, ZenonT(40)
  <2>3. CASE t \notin {null, TYPE_VOID}
    <3>1. t \in DOMAIN types /\ s.exps \in Seq(IdIn)
      BY <1>4, <2>1, <2>3, FindBasicType, StmParts
    <3>2. PICK steps : steps = EnterNames(s.exps, t)
      OBVIOUS
    <3>3. steps \in Seq(Moves)
      BY <3>1, <3>2, EnterNamesMoves
    <3>4. 0 \in 0 .. Len(steps)
      BY <3>3
    <3>5. InTurn(steps)[0] \in Moves
      BY <3>3, <3>4, InTurnIs
    <3>6. Judge(s, after, ret, sc) = InTurn(steps)[0][sc]
      BY <1>4, <2>1, <2>3, <3>2 DEF Judge
    <3> QED BY <3>5, <3>6 DEF Moves
  <2> QED BY <2>2, <2>3
<1>5. CASE s.op \in {"SWhile", "SDoWhile", "SFor", "SIfElse"}
  <2>1. after[1][ret] \in Moves /\ (s.op = "SIfElse" => after[2][ret] \in Moves)
    BY <1>1, <1>5, StmExps
  <2>2. PICK g, h : g = after[1][ret] /\ h = after[2][ret]
    OBVIOUS
  <2>3. g \in Moves /\ (s.op = "SIfElse" => h \in Moves)
    BY <2>1, <2>2
  <2>4. CASE s.op = "SWhile"
    <3>1. Judge(s, after, ret, sc) = g[Has(s.exps[1], Bool, sc)]
      BY <2>2, <2>4 DEF Judge
    <3> QED BY <2>3, <3>1, HasMoves
  <2>5. CASE s.op = "SDoWhile"
    <3>1. Judge(s, after, ret, sc) = Has(s.exps[1], Bool, g[sc])
      BY <2>2, <2>5 DEF Judge
    <3> QED BY <2>3, <3>1, HasMoves
  <2>6. CASE s.op = "SFor"
    <3>1. Judge(s, after, ret, sc) =
            g[Has(s.exps[3], AnyType, Has(s.exps[2], Bool, Has(s.exps[1], AnyType, sc)))]
      BY <2>2, <2>6 DEF Judge
    <3>2. PICK u : u = Has(s.exps[1], AnyType, sc)
      OBVIOUS
    <3>3. PICK v : v = Has(s.exps[2], Bool, u)
      OBVIOUS
    <3>4. u \in Scopes /\ (u.ok => sc.ok)
      BY <3>2, HasIs
    <3>5. v \in Scopes /\ (v.ok => u.ok)
      BY <3>3, <3>4, HasIs
    <3>6. g[Has(s.exps[3], AnyType, v)] \in Scopes /\ (g[Has(s.exps[3], AnyType, v)].ok => v.ok)
      BY <2>3, <3>5, HasMoves
    <3> QED BY <3>1, <3>2, <3>3, <3>4, <3>5, <3>6
  <2>7. CASE s.op = "SIfElse"
    <3>1. Judge(s, after, ret, sc) = h[g[Has(s.exps[1], Bool, sc)]]
      BY <2>2, <2>7 DEF Judge
    <3>2. PICK u : u = g[Has(s.exps[1], Bool, sc)]
      OBVIOUS
    <3>3. u \in Scopes /\ (u.ok => sc.ok)
      BY <2>3, <3>2, HasMoves
    <3>4. h[u] \in Scopes /\ (h[u].ok => u.ok)
      BY <2>3, <2>7, <3>3 DEF Moves
    <3> QED BY <3>1, <3>2, <3>3, <3>4
  <2> QED BY <1>5, <2>4, <2>5, <2>6, <2>7
<1>6. CASE s.op = "SBlock"
  <2>1. PICK n \in Nat : n = Len(s.kids) /\ DOMAIN s.kids = 1 .. n /\ Kids(s) = s.kids
    BY <1>6, StmExps
  <2>2. PICK steps : steps = [k \in 1 .. n |-> after[k][ret]]
    OBVIOUS
  <2>3. steps \in Seq(Moves) /\ Len(steps) = n
    BY <2>1, <2>2, ListMoves
  <2>4. 0 \in 0 .. Len(steps)
    BY <2>3
  <2>5. InTurn(steps)[0] \in Moves
    BY <2>3, <2>4, InTurnIs
  <2>6. PICK v, l, u, g : v = sc.visible /\ l = sc.local /\ u = Scope(v, {}, sc.ok) /\ g = InTurn(steps)[0]
    OBVIOUS
  <2>7. v \in Table0 /\ l \subseteq Id /\ sc.ok \in BOOLEAN
    BY <2>6, ScopeParts
  <2>8. u \in Scopes /\ u.ok = sc.ok
    <3>1. PICK b : b = sc.ok
      OBVIOUS
    <3>2. {} \subseteq Id /\ b \in BOOLEAN
      BY <2>7, <3>1
    <3>3. Scope(v, {}, b) \in Scopes /\ Scope(v, {}, b).ok = b
      BY <2>7, <3>2, ScopeIs
    <3> QED BY <2>6, <3>1, <3>3
  <2>9. Judge(s, after, ret, sc) = Scope(v, l, g[u].ok)
    BY <1>6, <2>1, <2>2, <2>6 DEF Judge
  <2>10. Scope(v, l, g[u].ok) \in Scopes /\ (Scope(v, l, g[u].ok).ok => u.ok)
    BY <2>5, <2>6, <2>7, <2>8, LeaveMoves
  <2> QED BY <2>8, <2>9, <2>10
<1> QED BY <1>2, <1>3, <1>4, <1>5, <1>6, StmExps

(* The parts of a statement as a set.                                      *)
Parts == [s \in Stm |-> {Kids(s)[k] : k \in DOMAIN Kids(s)}]

(* The parts of a statement are lower: what TreeProofs asks for.           *)
LEMMA PartsLower ==
  /\ Parts \in [Stm -> SUBSET Stm] /\ Height \in [Stm -> Nat] /\ Lower(Stm, Height, Parts)
  /\ \A s \in Stm : \A k \in DOMAIN Kids(s) : Kids(s)[k] \in Parts[s]
<1>1. \A s \in Stm : \A k \in DOMAIN Kids(s) : Kids(s)[k] \in Stm
  BY StmExps
<1>2. /\ Height \in [Stm -> Nat]
      /\ \A s \in Stm : \A k \in DOMAIN Kids(s) : Height[Kids(s)[k]] < Height[s]
  BY HeightAssumption
<1> QED BY <1>1, <1>2 DEF Parts, Lower

(* What statements can mean.                                               *)
Meanings == [DOMAIN types -> Moves]

(* A judgement on a statement is a meaning when those on its parts are.    *)
LEMMA JudgementRange ==
  ASSUME NEW s \in Stm, NEW after, \A k \in DOMAIN Kids(s) : after[k] \in Meanings
  PROVE  /\ Judgement(s, after) \in Meanings
         /\ \A ret \in DOMAIN types : \A sc \in Scopes :
              Judgement(s, after)[ret][sc] = Judge(s, after, ret, sc)
<1>0. \A k \in DOMAIN Kids(s) : after[k] \in [DOMAIN types -> Moves]
  BY DEF Meanings
<1>1. \A ret \in DOMAIN types : \A sc \in Scopes :
        Judge(s, after, ret, sc) \in Scopes /\ (Judge(s, after, ret, sc).ok => sc.ok)
  BY <1>0, JudgeMoves
<1>2. ASSUME NEW ret \in DOMAIN types
      PROVE  [sc \in Scopes |-> Judge(s, after, ret, sc)] \in Moves
  BY <1>1 DEF Moves
<1> QED BY <1>2 DEF Judgement, Meanings

(* After is what its definition says.                                      *)
LEMMA AfterIs ==
  /\ After \in [Stm -> Meanings]
  /\ \A s \in Stm : After[s] = Judgement(s, [k \in DOMAIN Kids(s) |-> After[Kids(s)[k]]])
<1>1. PICK step : step = [s \in Stm |-> [g \in [Parts[s] -> Meanings] |->
                            Judgement(s, [k \in DOMAIN Kids(s) |-> g[Kids(s)[k]]])]]
  OBVIOUS
<1>2. ASSUME NEW s \in Stm, NEW g \in [Parts[s] -> Meanings]
      PROVE  /\ step[s][g] = Judgement(s, [k \in DOMAIN Kids(s) |-> g[Kids(s)[k]]])
             /\ step[s][g] \in Meanings
  <2>1. step[s][g] = Judgement(s, [k \in DOMAIN Kids(s) |-> g[Kids(s)[k]]])
    BY <1>1
  <2>2. PICK after : after = [k \in DOMAIN Kids(s) |-> g[Kids(s)[k]]]
    OBVIOUS
  <2>3. \A k \in DOMAIN Kids(s) : after[k] \in Meanings
    BY <2>2, PartsLower
  <2>4. Judgement(s, after) \in Meanings
    BY <2>3, JudgementRange
  <2> QED BY <2>1, <2>2, <2>4
<1>3. \A s \in Stm : \A g \in [Parts[s] -> Meanings] : step[s][g] \in Meanings
  BY <1>2
<1>4. PICK f \in [Stm -> Meanings] : Computes(f, Stm, Parts, step)
  BY <1>3, PartsLower, TreeFunction
<1>5. ASSUME NEW s \in Stm
      PROVE  f[s] = Judgement(s, [k \in DOMAIN Kids(s) |-> f[Kids(s)[k]]])
  <2>1. PICK g : g = [k \in Parts[s] |-> f[k]]
    OBVIOUS
  <2>2. g \in [Parts[s] -> Meanings]
    BY <2>1, PartsLower
  <2>3. f[s] = step[s][g]
    BY <1>4, <2>1 DEF Computes
  <2>4. [k \in DOMAIN Kids(s) |-> g[Kids(s)[k]]] = [k \in DOMAIN Kids(s) |-> f[Kids(s)[k]]]
    BY <2>1, PartsLower
  <2> QED BY <1>2, <2>2, <2>3, <2>4
<1>6. f = [s \in Stm |-> Judgement(s, [k \in DOMAIN Kids(s) |-> f[Kids(s)[k]]])]
  BY <1>4, <1>5
<1>7. After = [s \in Stm |-> Judgement(s, [k \in DOMAIN Kids(s) |-> After[Kids(s)[k]]])]
  <2> DEFINE sol(F) == F = [s \in Stm |-> Judgement(s, [k \in DOMAIN Kids(s) |-> F[Kids(s)[k]]])]
  <2>1. sol(f)
    BY <1>6
  <2>2. After = CHOOSE F : sol(F)
    BY DEF After
  <2> HIDE DEF sol
  <2>3. sol(After)
    BY <2>1, <2>2
  <2> QED BY <2>3 DEF sol
<1>8. ASSUME NEW s \in Stm
      PROVE  After[s] = Judgement(s, [k \in DOMAIN Kids(s) |-> After[Kids(s)[k]]])
  BY <1>7
<1>9. PICK P : P = {s \in Stm : After[s] \in Meanings}
  OBVIOUS
<1>10. Hereditary(Stm, Parts, P)
  <2>1. ASSUME NEW s \in Stm, Parts[s] \subseteq P
        PROVE  s \in P
    <3>1. PICK after : after = [k \in DOMAIN Kids(s) |-> After[Kids(s)[k]]]
      OBVIOUS
    <3>2. \A k \in DOMAIN Kids(s) : after[k] \in Meanings
      BY <1>9, <2>1, <3>1, PartsLower
    <3>3. Judgement(s, after) \in Meanings
      BY <3>2, JudgementRange
    <3> QED BY <1>8, <1>9, <3>1, <3>3
  <2> QED BY <2>1 DEF Hereditary
<1>11. Stm \subseteq P
  BY <1>10, PartsLower, TreeInduction
<1>12. DOMAIN After = Stm
  BY <1>7
<1>13. After \in [Stm -> Meanings]
  BY <1>7, <1>9, <1>11
<1> QED BY <1>8, <1>13

(* What the statements of a list make of a scope, one by one.              *)
LEMMA BodiesAre ==
  ASSUME NEW stms \in Seq(Stm), NEW ret \in DOMAIN types
  PROVE  /\ Bodies(stms, ret) \in Seq(Moves) /\ Len(Bodies(stms, ret)) = Len(stms)
         /\ \A k \in 1 .. Len(stms) : Bodies(stms, ret)[k] = After[stms[k]][ret]
<1>1. DOMAIN stms = 1 .. Len(stms) /\ Len(stms) \in Nat /\ \A k \in 1 .. Len(stms) : stms[k] \in Stm
  OBVIOUS
<1>2. \A k \in 1 .. Len(stms) : After[stms[k]][ret] \in Moves
  BY <1>1, AfterIs DEF Meanings
<1>3. Bodies(stms, ret) = [k \in 1 .. Len(stms) |-> After[stms[k]][ret]]
  BY <1>1 DEF Bodies
<1> QED BY <1>1, <1>2, <1>3

(* What a statement makes of a scope is what Judge says.                   *)
LEMMA AfterAt ==
  ASSUME NEW s \in Stm, NEW ret \in DOMAIN types, NEW sc \in Scopes
  PROVE  /\ After[s][ret] \in Moves
         /\ After[s][ret][sc] = Judge(s, [k \in DOMAIN Kids(s) |-> After[Kids(s)[k]]], ret, sc)
<1>1. PICK after : after = [k \in DOMAIN Kids(s) |-> After[Kids(s)[k]]]
  OBVIOUS
<1>2. \A k \in DOMAIN Kids(s) : after[k] \in Meanings
  BY <1>1, AfterIs, StmExps
<1>3. After[s] = Judgement(s, after) /\ After[s] \in Meanings
  BY <1>1, AfterIs
<1>4. Judgement(s, after)[ret][sc] = Judge(s, after, ret, sc)
  BY <1>2, JudgementRange
<1> QED BY <1>1, <1>3, <1>4 DEF Meanings

(* Spelled out for every statement.                                        *)
LEMMA AfterSimple ==
  ASSUME NEW s \in Stm, NEW ret \in DOMAIN types, NEW sc \in Scopes
  PROVE  /\ s.op = "SExp" => After[s][ret][sc] = Has(s.exps[1], AnyType, sc)
         /\ s.op = "SReturn" => After[s][ret][sc] = Has(s.exps[1], Becomes(ret), sc)
         /\ s.op = "SReturnV" => After[s][ret][sc] = And(sc, ret = TYPE_VOID)
<1>1. PICK after : After[s][ret][sc] = Judge(s, after, ret, sc)
  BY AfterAt
<1> QED BY <1>1 DEF Judge

(* A declaration enters its names in turn, when its type is one to enter   *)
(* them with.                                                              *)
LEMMA AfterDecls ==
  ASSUME NEW s \in Stm, NEW ret \in DOMAIN types, NEW sc \in Scopes, s.op = "SDecls",
         NEW t, t = findBasicType(types, s.type)
  PROVE  /\ t \in {null, TYPE_VOID} => ~ After[s][ret][sc].ok
         /\ t \notin {null, TYPE_VOID} =>
              After[s][ret][sc] = InTurn(EnterNames(s.exps, t))[0][sc]
<1>1. PICK after : After[s][ret][sc] = Judge(s, after, ret, sc)
  BY AfterAt
<1>2. t \in {null, TYPE_VOID} => After[s][ret][sc] = And(sc, FALSE)
  BY <1>1 DEF Judge
<1>3. t \notin {null, TYPE_VOID} => After[s][ret][sc] = InTurn(EnterNames(s.exps, t))[0][sc]
  BY <1>1 DEF Judge
<1>4. ~ And(sc, FALSE).ok
  BY AndRange
<1> QED BY <1>2, <1>3, <1>4

(* A loop or an if does to a scope what its expressions and its parts do.  *)
LEMMA AfterParts ==
  ASSUME NEW s \in Stm, NEW ret \in DOMAIN types, NEW sc \in Scopes,
         s.op \in {"SWhile", "SDoWhile", "SFor", "SIfElse"},
         NEW g, g = After[s.kids[1]][ret]
  PROVE  /\ s.op = "SWhile" => After[s][ret][sc] = g[Has(s.exps[1], Bool, sc)]
         /\ s.op = "SDoWhile" => After[s][ret][sc] = Has(s.exps[1], Bool, g[sc])
         /\ s.op = "SFor" => After[s][ret][sc] =
              g[Has(s.exps[3], AnyType, Has(s.exps[2], Bool, Has(s.exps[1], AnyType, sc)))]
         /\ s.op = "SIfElse" =>
              After[s][ret][sc] = After[s.kids[2]][ret][g[Has(s.exps[1], Bool, sc)]]
<1>1. PICK after : after = [k \in DOMAIN Kids(s) |-> After[Kids(s)[k]]]
  OBVIOUS
<1>2. After[s][ret][sc] = Judge(s, after, ret, sc)
  BY <1>1, AfterAt
<1>3. after[1][ret] = g /\ (s.op = "SIfElse" => after[2] = After[s.kids[2]])
  BY <1>1, StmExps
<1> QED BY <1>2, <1>3 DEF Judge

LEMMA AfterIfElse ==
  ASSUME NEW s \in Stm, NEW ret \in DOMAIN types, NEW sc \in Scopes, s.op = "SIfElse",
         NEW g, g = After[s.kids[1]][ret]
  PROVE  After[s][ret][sc] = After[s.kids[2]][ret][g[Has(s.exps[1], Bool, sc)]]
<1>1. PICK after : after = [k \in DOMAIN Kids(s) |-> After[Kids(s)[k]]]
  OBVIOUS
<1>2. After[s][ret][sc] = Judge(s, after, ret, sc)
  BY <1>1, AfterAt
<1>3. after[1][ret] = g /\ after[2] = After[s.kids[2]]
  BY <1>1, StmExps
<1> QED BY <1>2, <1>3 DEF Judge

(* A block starts with no names of its own, and keeps of the scope it      *)
(* leaves only whether all is well.                                        *)
LEMMA AfterBlock ==
  ASSUME NEW s \in Stm, NEW ret \in DOMAIN types, NEW sc \in Scopes, s.op = "SBlock"
  PROVE  After[s][ret][sc] =
           Scope(sc.visible, sc.local,
                 InTurn(Bodies(s.kids, ret))[0][Scope(sc.visible, {}, sc.ok)].ok)
<1>1. PICK after : after = [k \in DOMAIN Kids(s) |-> After[Kids(s)[k]]]
  OBVIOUS
<1>2. After[s][ret][sc] = Judge(s, after, ret, sc)
  BY <1>1, AfterAt
<1>3. Kids(s) = s.kids
  BY StmExps
<1>4. [k \in DOMAIN s.kids |-> after[k][ret]] = Bodies(s.kids, ret)
  BY <1>1, <1>3 DEF Bodies
<1> QED BY <1>2, <1>4 DEF Judge

-----------------------------------------------------------------------------
(* What is left to do *)

(* What a scope is put back to when a block or function is left.           *)
Saved == [visible : Table0, local : SUBSET Id]

(* What a handler of a function that returns ret, with a arguments         *)
(* entered, makes of the scope that it goes on with: its frame is f, and o *)
(* is what it puts back.                                                   *)
Finish(f, ret, a, o, sc) ==
  CASE f.stm.op = "DFun" ->
         InTurn(Bodies(f.stm.kids, ret))[f.pos][InTurn(EnterArgs(f.stm.args))[a][sc]]
    [] f.stm.op = "SBlock" ->
         Scope(o.visible, o.local, InTurn(Bodies(f.stm.kids, ret))[f.pos][sc].ok)
    [] f.stm.op = "SDecls" ->
         InTurn(EnterNames(f.stm.exps, findBasicType(types, f.stm.type)))[f.pos][sc]
    [] f.stm.op = "SDoWhile" -> Has(f.stm.exps[1], Bool, sc)
    [] f.stm.op = "SIfElse" ->
         IF f.pos = 1 THEN After[f.stm.kids[2]][ret][sc] ELSE sc
    [] OTHER -> sc

(* The frame of a handler that is somewhere in its lists.                  *)
Fits(f, ret, a, o) ==
  /\ f \in FrameSet /\ ret \in DOMAIN types
  /\ f.stm.op \in ScopeOps => f.pos \in 0 .. Len(f.stm.kids) /\ o \in Saved
  /\ f.stm.op = "DFun" => a \in 0 .. Len(f.stm.args)
  /\ f.stm.op = "SDecls" => f.pos \in 0 .. Len(f.stm.exps)
  /\ TypeKnown(f.stm)

(* Then finishing it makes nothing right that was wrong.                   *)
LEMMA FinishMoves ==
  ASSUME NEW f, NEW ret, NEW a, NEW o, Fits(f, ret, a, o), NEW sc \in Scopes
  PROVE  Finish(f, ret, a, o, sc) \in Scopes /\ (Finish(f, ret, a, o, sc).ok => sc.ok)
<1>1. /\ f \in FrameSet /\ ret \in DOMAIN types /\ TypeKnown(f.stm)
      /\ f.stm.op \in ScopeOps => f.pos \in 0 .. Len(f.stm.kids) /\ o \in Saved
      /\ f.stm.op = "DFun" => a \in 0 .. Len(f.stm.args)
      /\ f.stm.op = "SDecls" => f.pos \in 0 .. Len(f.stm.exps)
  BY DEF Fits
<1>2. f.stm \in Stm \cup Function
  BY <1>1 DEF FrameSet
<1>3. PICK s : s = f.stm
  OBVIOUS
<1>4. s \in Stm \/ (s \in Function /\ s.op = "DFun")
  BY <1>2, <1>3, FunParts
<1>5. CASE s.op = "DFun"
  <2>1. s \in Function
    BY <1>4, <1>5, StmParts
  <2>2. PICK bs, as : bs = InTurn(Bodies(s.kids, ret))[f.pos] /\ as = InTurn(EnterArgs(s.args))[a]
    OBVIOUS
  <2>3. bs \in Moves
    <3>1. PICK b : b = Bodies(s.kids, ret)
      OBVIOUS
    <3>2. b \in Seq(Moves) /\ Len(b) = Len(s.kids)
      BY <1>1, <2>1, <3>1, FunParts, BodiesAre
    <3>3. f.pos \in 0 .. Len(b)
      BY <1>1, <1>3, <1>5, <3>2 DEF ScopeOps
    <3> QED BY <2>2, <3>1, <3>2, <3>3, InTurnIs
  <2>4. as \in Moves
    <3>1. PICK b : b = EnterArgs(s.args)
      OBVIOUS
    <3>2. b \in Seq(Moves) /\ Len(b) = Len(s.args)
      BY <2>1, <3>1, FunParts, EnterArgsMoves
    <3>3. a \in 0 .. Len(b)
      BY <1>1, <1>3, <1>5, <3>2
    <3> QED BY <2>2, <3>1, <3>2, <3>3, InTurnIs
  <2>5. Finish(f, ret, a, o, sc) = bs[as[sc]]
    BY <1>3, <1>5, <2>2 DEF Finish
  <2>6. PICK u, v : u = as[sc] /\ v = bs[u]
    OBVIOUS
  <2>7. u \in Scopes /\ (u.ok => sc.ok)
    BY <2>4, <2>6 DEF Moves
  <2>8. v \in Scopes /\ (v.ok => u.ok)
    BY <2>3, <2>6, <2>7 DEF Moves
  <2>9. Finish(f, ret, a, o, sc) = v
    BY <2>5, <2>6
  <2> QED BY <2>7, <2>8, <2>9
<1>6. CASE s.op = "SBlock"
  <2>1. s \in Stm /\ s.kids \in Seq(Stm)
    BY <1>4, <1>6, StmExps
  <2>2. PICK b : b = Bodies(s.kids, ret)
    OBVIOUS
  <2>3. b \in Seq(Moves) /\ Len(b) = Len(s.kids)
    BY <1>1, <2>1, <2>2, BodiesAre
  <2>4. f.pos \in 0 .. Len(b) /\ o \in Saved
    BY <1>1, <1>3, <1>6, <2>3 DEF ScopeOps
  <2>5. PICK g : g = InTurn(b)[f.pos]
    OBVIOUS
  <2>6. g \in Moves
    BY <2>3, <2>4, <2>5, InTurnIs
  <2>7. o.visible \in Table0 /\ o.local \subseteq Id
    BY <2>4 DEF Saved
  <2>8. Finish(f, ret, a, o, sc) = Scope(o.visible, o.local, g[sc].ok)
    BY <1>3, <1>6, <2>2, <2>5 DEF Finish
  <2>9. PICK v, l : v = o.visible /\ l = o.local
    OBVIOUS
  <2>10. Scope(v, l, g[sc].ok) \in Scopes /\ (Scope(v, l, g[sc].ok).ok => sc.ok)
    BY <2>6, <2>7, <2>9, LeaveMoves
  <2> QED BY <2>8, <2>9, <2>10
<1>7. CASE s.op = "SDecls"
  <2>1. s \in Stm /\ s.exps \in Seq(IdIn) /\ findBasicType(types, s.type) \in DOMAIN types
    BY <1>1, <1>3, <1>4, <1>7, StmParts DEF TypeKnown
  <2>2. PICK b : b = EnterNames(s.exps, findBasicType(types, s.type))
    OBVIOUS
  <2>3. b \in Seq(Moves) /\ Len(b) = Len(s.exps)
    BY <2>1, <2>2, EnterNamesMoves
  <2>4. f.pos \in 0 .. Len(b)
    BY <1>1, <1>3, <1>7, <2>3
  <2>5. InTurn(b)[f.pos] \in Moves
    BY <2>3, <2>4, InTurnIs
  <2>6. Finish(f, ret, a, o, sc) = InTurn(b)[f.pos][sc]
    BY <1>3, <1>7, <2>2 DEF Finish
  <2> QED BY <2>5, <2>6 DEF Moves
<1>8. CASE s.op = "SDoWhile"
  <2>1. Finish(f, ret, a, o, sc) = Has(s.exps[1], Bool, sc)
    BY <1>3, <1>8 DEF Finish
  <2> QED BY <2>1, HasIs
<1>9. CASE s.op = "SIfElse"
  <2>1. s \in Stm /\ s.kids[2] \in Stm
    BY <1>4, <1>9, StmParts
  <2>2. After[s.kids[2]][ret] \in Moves
    BY <1>1, <2>1, AfterAt
  <2>3. Finish(f, ret, a, o, sc) = IF f.pos = 1 THEN After[s.kids[2]][ret][sc] ELSE sc
    BY <1>3, <1>9 DEF Finish
  <2> QED BY <2>2, <2>3 DEF Moves
<1>10. CASE s.op \notin {"DFun", "SBlock", "SDecls", "SDoWhile", "SIfElse"}
  <2>1. Finish(f, ret, a, o, sc) = sc
    BY <1>3, <1>10 DEF Finish
  <2> QED BY <2>1
<1> QED BY <1>5, <1>6, <1>7, <1>8, <1>9, <1>10

-----------------------------------------------------------------------------
(* The whole stack *)

(* G[n] is what the first n handlers of fr will make of a scope, once the  *)
(* n-th goes on with it; L[n] of them have scopes of their own, and o is   *)
(* what these put back.                                                    *)
Rests(fr, n, o, ret, a, G, L) ==
  /\ G \in [Nat -> Moves] /\ L \in [Nat -> Nat]
  /\ L[0] = 0 /\ \A sc \in Scopes : G[0][sc] = sc
  /\ \A i \in 1 .. n :
       /\ L[i] = L[i - 1] + (IF fr[i].stm.op \in ScopeOps THEN 1 ELSE 0) /\ L[i] >= 1
       /\ Fits(fr[i], ret, a, o[L[i]])
       /\ \A sc \in Scopes : G[i][sc] = G[i - 1][Finish(fr[i], ret, a, o[L[i]], sc)]
  /\ \A i \in 0 .. n : \A j \in 0 .. i : L[j] <= L[i]

(* If the handler on top goes on with sc, all will be well exactly when w  *)
(* is so.                                                                  *)
Story(fr, o, ret, a, sc, w) ==
  \E G, L : /\ Rests(fr, Len(fr), o, ret, a, G, L)
            /\ L[Len(fr)] = Len(o)
            /\ G[Len(fr)][sc].ok <=> w

(* What is wrong stays wrong.                                              *)
LEMMA StoryFails ==
  ASSUME NEW fr, Len(fr) \in Nat, NEW o, NEW ret, NEW a, NEW sc \in Scopes, NEW w,
         Story(fr, o, ret, a, sc, w), ~ sc.ok
  PROVE  ~ w
<1>1. PICK G, L : /\ Rests(fr, Len(fr), o, ret, a, G, L)
                  /\ G[Len(fr)][sc].ok <=> w
  BY DEF Story
<1>2. G[Len(fr)] \in Moves
  BY <1>1 DEF Rests
<1>3. ~ G[Len(fr)][sc].ok
  BY <1>2 DEF Moves
<1> QED BY <1>1, <1>3

(* No handler left.                                                        *)
LEMMA StoryEmpty ==
  ASSUME NEW ret, NEW a, NEW sc \in Scopes, NEW w
  PROVE  Story(<<>>, <<>>, ret, a, sc, w) <=> (sc.ok <=> w)
<1>0. PICK fr : fr = <<>> /\ Len(fr) = 0
  OBVIOUS
<1>1. ASSUME Story(fr, fr, ret, a, sc, w)
      PROVE  sc.ok <=> w
  <2>1. PICK G, L : /\ Rests(fr, Len(fr), fr, ret, a, G, L)
                    /\ G[Len(fr)][sc].ok <=> w
    BY <1>1 DEF Story
  <2>2. G[0][sc] = sc
    BY <2>1 DEF Rests
  <2> QED BY <1>0, <2>1, <2>2
<1>2. ASSUME sc.ok <=> w
      PROVE  Story(fr, fr, ret, a, sc, w)
  <2>1. PICK id : id = [s \in Scopes |-> s]
    OBVIOUS
  <2>2. id \in Moves /\ id[sc] = sc
    BY <2>1 DEF Moves
  <2>3. PICK G, L : G = [n \in Nat |-> id] /\ L = [n \in Nat |-> 0]
    OBVIOUS
  <2>4. \A i \in 1 .. 0 : FALSE
    OBVIOUS
  <2>5. Rests(fr, 0, fr, ret, a, G, L)
    <3>1. G \in [Nat -> Moves] /\ L \in [Nat -> Nat] /\ L[0] = 0
      BY <2>2, <2>3
    <3>2. \A s \in Scopes : G[0][s] = s
      BY <2>1, <2>3
    <3>3. \A i \in 0 .. 0 : \A j \in 0 .. i : L[j] <= L[i]
      BY <2>3
    <3> QED BY <2>4, <3>1, <3>2, <3>3 DEF Rests
  <2>6. L[0] = 0 /\ G[0][sc] = sc
    BY <2>2, <2>3
  <2> QED BY <1>0, <1>2, <2>5, <2>6 DEF Story
<1> QED BY <1>0, <1>1, <1>2

(* The first n handlers know nothing of what is above them.                *)
LEMMA RestsBelow ==
  ASSUME NEW n \in Nat, NEW fr, NEW fr2, \A i \in 1 .. n : fr2[i] = fr[i],
         NEW o, NEW o2, NEW G, NEW L, \A j \in 1 .. L[n] : o2[j] = o[j],
         NEW ret, NEW a, NEW a2, a2 = a \/ n = 0,
         Rests(fr, n, o, ret, a, G, L)
  PROVE  Rests(fr2, n, o2, ret, a2, G, L)
<1>1. /\ G \in [Nat -> Moves] /\ L \in [Nat -> Nat]
      /\ L[0] = 0 /\ \A sc \in Scopes : G[0][sc] = sc
      /\ \A i \in 0 .. n : \A j \in 0 .. i : L[j] <= L[i]
  BY DEF Rests
<1>2. ASSUME NEW i \in 1 .. n
      PROVE  /\ L[i] = L[i - 1] + (IF fr2[i].stm.op \in ScopeOps THEN 1 ELSE 0) /\ L[i] >= 1
             /\ Fits(fr2[i], ret, a2, o2[L[i]])
             /\ \A sc \in Scopes : G[i][sc] = G[i - 1][Finish(fr2[i], ret, a2, o2[L[i]], sc)]
  <2>1. /\ L[i] = L[i - 1] + (IF fr[i].stm.op \in ScopeOps THEN 1 ELSE 0) /\ L[i] >= 1
        /\ Fits(fr[i], ret, a, o[L[i]])
        /\ \A sc \in Scopes : G[i][sc] = G[i - 1][Finish(fr[i], ret, a, o[L[i]], sc)]
    BY DEF Rests
  <2>2. fr2[i] = fr[i] /\ a2 = a
    OBVIOUS
  <2>3. o2[L[i]] = o[L[i]]
    <3>1. L[i] \in Nat /\ L[n] \in Nat /\ L[i] <= L[n]
      BY <1>1
    <3>2. L[i] \in 1 .. L[n]
      BY <2>1, <3>1
    <3> QED BY <3>2
  <2> QED BY <2>1, <2>2, <2>3
<1> QED BY <1>1, <1>2 DEF Rests

(* One handler more.                                                       *)
LEMMA RestsUp ==
  ASSUME NEW n \in Nat, NEW fr, NEW o, NEW ret, NEW a, NEW G, NEW L, Rests(fr, n, o, ret, a, G, L),
         NEW x, x = L[n] + (IF fr[n + 1].stm.op \in ScopeOps THEN 1 ELSE 0), x >= 1,
         Fits(fr[n + 1], ret, a, o[x])
  PROVE  \E G2, L2 :
           /\ Rests(fr, n + 1, o, ret, a, G2, L2) /\ L2[n + 1] = x
           /\ \A sc \in Scopes : G2[n + 1][sc] = G[n][Finish(fr[n + 1], ret, a, o[x], sc)]
<1>1. /\ G \in [Nat -> Moves] /\ L \in [Nat -> Nat]
      /\ L[0] = 0 /\ \A sc \in Scopes : G[0][sc] = sc
      /\ \A i \in 1 .. n :
           /\ L[i] = L[i - 1] + (IF fr[i].stm.op \in ScopeOps THEN 1 ELSE 0) /\ L[i] >= 1
           /\ Fits(fr[i], ret, a, o[L[i]])
           /\ \A sc \in Scopes : G[i][sc] = G[i - 1][Finish(fr[i], ret, a, o[L[i]], sc)]
      /\ \A i \in 0 .. n : \A j \in 0 .. i : L[j] <= L[i]
  BY DEF Rests
<1>2. x \in Nat /\ L[n] <= x
  BY <1>1
<1>3. PICK g : g = [sc \in Scopes |-> G[n][Finish(fr[n + 1], ret, a, o[x], sc)]]
  OBVIOUS
<1>4. g \in Moves
  <2>1. G[n] \in Moves
    BY <1>1
  <2>2. ASSUME NEW sc \in Scopes
        PROVE  g[sc] \in Scopes /\ (g[sc].ok => sc.ok)
    <3>1. PICK t : t = Finish(fr[n + 1], ret, a, o[x], sc)
      OBVIOUS
    <3>2. t \in Scopes /\ (t.ok => sc.ok)
      BY <3>1, FinishMoves
    <3>3. G[n][t] \in Scopes /\ (G[n][t].ok => t.ok)
      BY <2>1, <3>2 DEF Moves
    <3>4. g[sc] = G[n][t]
      BY <1>3, <3>1
    <3> QED BY <3>2, <3>3, <3>4
  <2> QED BY <1>3, <2>2 DEF Moves
<1>5. PICK G2, L2 : G2 = [G EXCEPT ![n + 1] = g] /\ L2 = [L EXCEPT ![n + 1] = x]
  OBVIOUS
<1>6. /\ G2 \in [Nat -> Moves] /\ L2 \in [Nat -> Nat]
      /\ G2[n + 1] = g /\ L2[n + 1] = x
      /\ \A i \in 0 .. n : i \in Nat /\ i # n + 1 /\ G2[i] = G[i] /\ L2[i] = L[i]
  BY <1>1, <1>2, <1>4, <1>5
<1>7. /\ 0 \in 0 .. n /\ n \in 0 .. n
      /\ \A i \in 1 .. n : i \in 0 .. n /\ i - 1 \in 0 .. n
      /\ \A i \in 0 .. n + 1 : i = n + 1 \/ i \in 0 .. n
      /\ \A i \in 1 .. n + 1 : i = n + 1 \/ i \in 1 .. n
      /\ n + 1 - 1 = n
  OBVIOUS
<1>8. L2[0] = 0 /\ \A sc \in Scopes : G2[0][sc] = sc
  BY <1>1, <1>6, <1>7
<1>9. ASSUME NEW i \in 1 .. n + 1
      PROVE  /\ L2[i] = L2[i - 1] + (IF fr[i].stm.op \in ScopeOps THEN 1 ELSE 0) /\ L2[i] >= 1
             /\ Fits(fr[i], ret, a, o[L2[i]])
             /\ \A sc \in Scopes : G2[i][sc] = G2[i - 1][Finish(fr[i], ret, a, o[L2[i]], sc)]
  <2>1. CASE i = n + 1
    <3>1. L2[i] = x /\ L2[i - 1] = L[n] /\ G2[i] = g /\ G2[i - 1] = G[n] /\ fr[i] = fr[n + 1]
      BY <1>6, <1>7, <2>1
    <3>2. \A sc \in Scopes : g[sc] = G[n][Finish(fr[n + 1], ret, a, o[x], sc)]
      BY <1>3
    <3> QED BY <3>1, <3>2
  <2>2. CASE i \in 1 .. n
    <3>1. L2[i] = L[i] /\ L2[i - 1] = L[i - 1] /\ G2[i] = G[i] /\ G2[i - 1] = G[i - 1]
      BY <1>6, <1>7, <2>2
    <3> QED BY <1>1, <2>2, <3>1
  <2> QED BY <1>7, <2>1, <2>2
<1>10. ASSUME NEW i \in 0 .. n + 1, NEW j \in 0 .. i
       PROVE  L2[j] <= L2[i]
  <2>1. CASE i = n + 1
    <3>1. CASE j = n + 1
      BY <1>2, <1>6, <2>1, <3>1
    <3>2. CASE j \in 0 .. n
      <4>1. L2[j] = L[j] /\ L[j] <= L[n] /\ L[j] \in Nat /\ L[n] \in Nat
        BY <1>1, <1>6, <1>7, <3>2
      <4> QED BY <1>2, <1>6, <2>1, <4>1
    <3> QED BY <1>7, <2>1, <3>1, <3>2
  <2>2. CASE i \in 0 .. n
    <3>1. j \in 0 .. n
      BY <2>2
    <3> QED BY <1>1, <1>6, <2>2, <3>1
  <2> QED BY <1>7, <2>1, <2>2
<1>11. Rests(fr, n + 1, o, ret, a, G2, L2)
  BY <1>6, <1>8, <1>9, <1>10 DEF Rests
<1>12. \A sc \in Scopes : G2[n + 1][sc] = G[n][Finish(fr[n + 1], ret, a, o[x], sc)]
  BY <1>3, <1>6
<1> QED BY <1>6, <1>11, <1>12

(* One handler less.                                                       *)
LEMMA RestsDown ==
  ASSUME NEW n \in Nat, NEW fr, NEW o, NEW ret, NEW a, NEW G, NEW L,
         Rests(fr, n + 1, o, ret, a, G, L)
  PROVE  /\ Rests(fr, n, o, ret, a, G, L)
         /\ L[n] \in Nat
         /\ L[n + 1] = L[n] + (IF fr[n + 1].stm.op \in ScopeOps THEN 1 ELSE 0)
         /\ L[n + 1] >= 1
         /\ Fits(fr[n + 1], ret, a, o[L[n + 1]])
         /\ \A sc \in Scopes : G[n + 1][sc] = G[n][Finish(fr[n + 1], ret, a, o[L[n + 1]], sc)]
<1>1. /\ n + 1 \in 1 .. n + 1 /\ n + 1 - 1 = n
      /\ \A i \in 1 .. n : i \in 1 .. n + 1
      /\ \A i \in 0 .. n : i \in 0 .. n + 1
  OBVIOUS
<1>2. Rests(fr, n, o, ret, a, G, L)
  BY <1>1 DEF Rests
<1> QED BY <1>1, <1>2 DEF Rests

(* f is called by the last handler of fr: up has what f puts back too.     *)
Above(f, fr, o, up) ==
  /\ f.stm.op \in ScopeOps => Len(up) = Len(o) + 1 /\ \A j \in 1 .. Len(o) : up[j] = o[j]
  /\ f.stm.op \notin ScopeOps => up = o /\ fr # <<>>

(* A handler that is called or returns: what is left to do is the same,    *)
(* when it finishes what it was called for.                                *)
LEMMA StoryCall ==
  ASSUME NEW fr \in Seq(FrameSet), NEW o \in Seq(Saved), NEW up \in Seq(Saved), NEW f \in FrameSet,
         Above(f, fr, o, up), NEW ret, NEW a, NEW a2, a2 = a \/ fr = <<>>, NEW sc \in Scopes, NEW w,
         NEW q, q = up[Len(up)], NEW top, top = Append(fr, f)
  PROVE  /\ Story(top, up, ret, a2, sc, w) =>
              Fits(f, ret, a2, q) /\ Story(fr, o, ret, a, Finish(f, ret, a2, q, sc), w)
         /\ Fits(f, ret, a2, q) /\ Story(fr, o, ret, a, Finish(f, ret, a2, q, sc), w) =>
              Story(top, up, ret, a2, sc, w)
<1>1. PICK n \in Nat : n = Len(fr)
  OBVIOUS
<1>2. /\ Len(top) = n + 1 /\ top[n + 1] = f /\ \A i \in 1 .. n : top[i] = fr[i]
      /\ fr = <<>> <=> n = 0
      /\ Len(o) \in Nat /\ Len(up) \in Nat
  BY <1>1
<1>3. \A j \in 1 .. Len(o) : up[j] = o[j]
  BY DEF ScopeOps, Above
<1>4. Len(up) = Len(o) + (IF f.stm.op \in ScopeOps THEN 1 ELSE 0)
  BY <1>2 DEF Above
<1>5. a2 = a \/ n = 0
  BY <1>2
<1>6. ASSUME Story(top, up, ret, a2, sc, w)
      PROVE  Fits(f, ret, a2, q) /\ Story(fr, o, ret, a, Finish(f, ret, a2, q, sc), w)
  <2>1. PICK G, L : /\ Rests(top, n + 1, up, ret, a2, G, L)
                    /\ L[n + 1] = Len(up)
                    /\ G[n + 1][sc].ok <=> w
    BY <1>2, <1>6 DEF Story
  <2>2. /\ Rests(top, n, up, ret, a2, G, L)
        /\ L[n] \in Nat
        /\ L[n + 1] = L[n] + (IF f.stm.op \in ScopeOps THEN 1 ELSE 0)
        /\ Fits(f, ret, a2, q)
        /\ G[n + 1][sc] = G[n][Finish(f, ret, a2, q, sc)]
    <3>1. Rests(top, n + 1, up, ret, a2, G, L)
      BY <2>1
    <3>2. /\ Rests(top, n, up, ret, a2, G, L)
          /\ L[n] \in Nat
          /\ L[n + 1] = L[n] + (IF top[n + 1].stm.op \in ScopeOps THEN 1 ELSE 0)
          /\ Fits(top[n + 1], ret, a2, up[L[n + 1]])
          /\ \A s \in Scopes : G[n + 1][s] = G[n][Finish(top[n + 1], ret, a2, up[L[n + 1]], s)]
      BY ONLY n \in Nat, <3>1, RestsDown
    <3> QED BY <1>2, <2>1, <3>2
  <2>3. L[n] = Len(o)
    BY <1>2, <1>4, <2>1, <2>2
  <2>4. Rests(fr, n, o, ret, a, G, L)
    <3>1. /\ \A i \in 1 .. n : fr[i] = top[i]
          /\ \A j \in 1 .. L[n] : o[j] = up[j]
          /\ a = a2 \/ n = 0
      BY <1>2, <1>3, <1>5, <2>3
    <3> QED BY <2>2, <3>1, RestsBelow
  <2> QED BY <1>1, <2>1, <2>2, <2>3, <2>4 DEF Story
<1>7. ASSUME Fits(f, ret, a2, q), Story(fr, o, ret, a, Finish(f, ret, a2, q, sc), w)
      PROVE  Story(top, up, ret, a2, sc, w)
  <2>1. PICK G, L : /\ Rests(fr, n, o, ret, a, G, L)
                    /\ L[n] = Len(o)
                    /\ G[n][Finish(f, ret, a2, q, sc)].ok <=> w
    BY <1>1, <1>7 DEF Story
  <2>2. Rests(top, n, up, ret, a2, G, L)
    <3>1. /\ \A i \in 1 .. n : top[i] = fr[i]
          /\ \A j \in 1 .. L[n] : up[j] = o[j]
      BY <1>2, <1>3, <2>1
    <3> QED BY <1>5, <2>1, <3>1, RestsBelow
  <2>3. PICK x : x = Len(up)
    OBVIOUS
  <2>4. x = L[n] + (IF top[n + 1].stm.op \in ScopeOps THEN 1 ELSE 0)
    BY <1>2, <1>4, <2>1, <2>3
  <2>5. x >= 1
    <3>1. CASE f.stm.op \in ScopeOps
      BY <1>2, <1>4, <2>3, <3>1
    <3>2. CASE f.stm.op \notin ScopeOps
      <4>1. n \in 1 .. n
        BY <1>2, <3>2 DEF Above
      <4>2. L[n] >= 1
        BY <2>1, <4>1 DEF Rests
      <4> QED BY <1>2, <1>4, <2>1, <2>3, <3>2, <4>2
    <3> QED BY <3>1, <3>2
  <2>6. Fits(top[n + 1], ret, a2, up[x])
    BY <1>2, <1>7, <2>3
  <2>7. PICK G2, L2 : /\ Rests(top, n + 1, up, ret, a2, G2, L2) /\ L2[n + 1] = x
                      /\ \A s \in Scopes : G2[n + 1][s] = G[n][Finish(top[n + 1], ret, a2, up[x], s)]
    BY ONLY n \in Nat, <2>2, <2>4, <2>5, <2>6, RestsUp
  <2>8. G2[n + 1][sc] = G[n][Finish(f, ret, a2, q, sc)]
    BY <1>2, <2>3, <2>7
  <2>9. G2[Len(top)][sc].ok <=> w
    BY <1>2, <2>1, <2>8
  <2> QED BY <1>2, <2>3, <2>7, <2>9 DEF Story
<1> QED BY <1>6, <1>7

(* A frame f that goes on as g with the same thing to do.                  *)
Continues(f, g, ret, a, a2, q, sc, sc2) ==
  /\ g.stm = f.stm /\ (a2 = a \/ f.stm.op = "DFun")
  /\ Fits(g, ret, a2, q) /\ Finish(f, ret, a, q, sc) = Finish(g, ret, a2, q, sc2)

(* A handler that goes on, and leaves what it was called for the same.     *)
LEMMA StoryOn ==
  ASSUME NEW fr, StackOK(fr), fr # <<>>, NEW o \in Seq(Saved),
         NEW f, f = fr[Len(fr)], NEW g \in FrameSet,
         NEW ret, NEW a, NEW a2, NEW sc \in Scopes, NEW sc2 \in Scopes, NEW w,
         Story(fr, o, ret, a, sc, w),
         NEW q, q = o[Len(o)], Continues(f, g, ret, a, a2, q, sc, sc2)
  PROVE  Story(Append(SubSeq(fr, 1, Len(fr) - 1), g), o, ret, a2, sc2, w)
<1>0. /\ g.stm = f.stm /\ (a2 = a \/ f.stm.op = "DFun")
      /\ Fits(g, ret, a2, q) /\ Finish(f, ret, a, q, sc) = Finish(g, ret, a2, q, sc2)
  BY DEF Continues
<1>1. PICK front : front = SubSeq(fr, 1, Len(fr) - 1)
  OBVIOUS
<1>2. /\ StackOK(front) /\ f \in FrameSet /\ fr = Append(front, f)
      /\ f.stm.op = "DFun" <=> front = <<>>
  BY <1>1, Popped
<1>3. front \in Seq(FrameSet)
  BY <1>2 DEF StackOK
<1>4. Len(o) \in Nat /\ Len(o) >= 1
  <2>1. PICK n \in Nat : Len(fr) = n + 1
    BY <1>2, <1>3
  <2>2. PICK G, L : /\ Rests(fr, n + 1, o, ret, a, G, L)
                    /\ L[n + 1] = Len(o)
    BY <2>1 DEF Story
  <2>3. L[n + 1] >= 1
    <3>1. Rests(fr, n + 1, o, ret, a, G, L)
      BY <2>2
    <3> QED BY ONLY n \in Nat, <3>1, RestsDown
  <2> QED BY <2>2, <2>3
<1>5. PICK low : low = IF f.stm.op \in ScopeOps THEN SubSeq(o, 1, Len(o) - 1) ELSE o
  OBVIOUS
<1>6. /\ low \in Seq(Saved)
      /\ f.stm.op \in ScopeOps => Len(o) = Len(low) + 1 /\ \A j \in 1 .. Len(low) : o[j] = low[j]
      /\ f.stm.op \notin ScopeOps => o = low
  <2>1. PICK m \in Nat : Len(o) = m + 1 /\ m <= Len(o) /\ m = Len(o) - 1
    <3>1. Len(o) - 1 \in Nat /\ Len(o) = Len(o) - 1 + 1 /\ Len(o) - 1 <= Len(o)
      BY <1>4
    <3> QED BY <3>1
  <2>2. PICK p : p = SubSeq(o, 1, m)
    OBVIOUS
  <2>3. p \in Seq(Saved) /\ Len(p) = m /\ \A j \in 1 .. m : p[j] = o[j]
    BY <2>1, <2>2, PrefixFacts
  <2>4. CASE f.stm.op \in ScopeOps
    <3>1. low = p
      BY <1>5, <2>1, <2>2, <2>4
    <3> QED BY <2>1, <2>3, <2>4, <3>1
  <2>5. CASE f.stm.op \notin ScopeOps
    BY <1>5, <2>5
  <2> QED BY <2>4, <2>5
<1>7. f.stm.op \notin ScopeOps => front # <<>>
  BY <1>2 DEF ScopeOps
<1>8. a2 = a \/ front = <<>>
  BY <1>0, <1>2
<1>9. Fits(f, ret, a, q) /\ Story(front, low, ret, a, Finish(f, ret, a, q, sc), w)
  <2>1. Above(f, front, low, o)
    BY <1>6, <1>7 DEF Above
  <2>2. /\ front \in Seq(FrameSet) /\ o \in Seq(Saved) /\ low \in Seq(Saved) /\ f \in FrameSet
        /\ sc \in Scopes /\ q = o[Len(o)] /\ fr = Append(front, f)
        /\ Story(fr, o, ret, a, sc, w)
    BY <1>2, <1>3, <1>6
  <2>3. PICK b : b = a
    OBVIOUS
  <2>4. b = a \/ front = <<>>
    BY <2>3
  <2>5. Story(fr, o, ret, a, sc, w) =>
          Fits(f, ret, a, q) /\ Story(front, low, ret, b, Finish(f, ret, a, q, sc), w)
    BY ONLY <2>1, <2>2, <2>4, StoryCall, ZenonT(40)
  <2> QED BY <2>2, <2>3, <2>5
<1>10. Fits(g, ret, a2, q) /\ Story(front, low, ret, a, Finish(g, ret, a2, q, sc2), w)
  BY <1>0, <1>9
<1>11. PICK top : top = Append(front, g)
  OBVIOUS
<1>12. Above(g, front, low, o)
  BY <1>0, <1>6, <1>7 DEF Above
<1>13. Story(top, o, ret, a2, sc2, w)
  BY <1>3, <1>6, <1>8, <1>10, <1>11, <1>12, StoryCall, ZenonT(40)
<1> QED BY <1>1, <1>11, <1>13

-----------------------------------------------------------------------------
(* The scope of a chain *)

Now(c) == Scope(Table(c), DOMAIN c[Len(c)], TRUE)

(* A lookup yields null or a known type.                                   *)
LEMMA TableRange ==
  ASSUME NEW c, Chain(c)
  PROVE  Table(c) \in Table0
<1>1. ASSUME NEW x \in Id
      PROVE  findSymbol(c, x) \in DOMAIN types \cup {null}
  <2>1. CASE Holders(c, x) = {}
    BY <2>1 DEF findSymbol
  <2>2. CASE Holders(c, x) # {}
    <3>1. PICK k \in Holders(c, x) : \A j \in Holders(c, x) : j <= k
      BY <2>2, Innermost
    <3>2. findSymbol(c, x) = c[k][x]
      BY <3>1, FindIs
    <3>3. c[k] \in Maps /\ x \in DOMAIN c[k]
      BY ChainFacts DEF Holders
    <3>4. c[k][x] \in DOMAIN types
      BY <3>3, MapValues
    <3> QED BY <3>2, <3>4
  <2> QED BY <2>1, <2>2
<1> QED BY <1>1 DEF Table, Table0

(* Its fields, and those of the Contexts around it.                        *)
LEMMA NowFacts ==
  ASSUME NEW c, Chain(c)
  PROVE  /\ Table(c) \in Table0 /\ DOMAIN c[Len(c)] \subseteq Id
         /\ Now(c) \in Scopes
         /\ Now(c).visible = Table(c) /\ Now(c).local = DOMAIN c[Len(c)] /\ Now(c).ok
         /\ OuterOf(c) \in Seq(Saved) /\ Len(OuterOf(c)) = Len(c) - 1
<1>1. PICK v, l : v = Table(c) /\ l = DOMAIN c[Len(c)]
  OBVIOUS
<1>2. v \in Table0
  BY <1>1, TableRange
<1>3. \A i \in 1 .. Len(c) : DOMAIN c[i] \subseteq Id
  BY ChainFacts, MapValues
<1>4. l \subseteq Id
  BY <1>1, <1>3, ChainFacts
<1>5. Scope(v, l, TRUE) \in Scopes /\ Scope(v, l, TRUE).visible = v
      /\ Scope(v, l, TRUE).local = l /\ Scope(v, l, TRUE).ok = TRUE
  BY <1>2, <1>4 DEF Scopes, Scope, Table0
<1>6. ASSUME NEW i \in 1 .. Len(c) - 1
      PROVE  [visible |-> Table(SubSeq(c, 1, i)), local |-> DOMAIN c[i]] \in Saved
  <2>1. PICK p : p = SubSeq(c, 1, i)
    OBVIOUS
  <2>2. c \in Seq(Maps) /\ Len(c) \in Nat /\ i \in Nat /\ i <= Len(c) /\ i >= 1
    BY ChainFacts
  <2>3. p \in Seq(Maps) /\ Len(p) = i
    BY <2>1, <2>2, PrefixFacts
  <2>4. Chain(p)
    BY <2>2, <2>3 DEF Chain
  <2>5. Table(p) \in Table0 /\ DOMAIN c[i] \subseteq Id
    BY <1>3, <2>2, <2>4, TableRange
  <2>6. PICK v2, l2 : v2 = Table(p) /\ l2 = DOMAIN c[i]
    OBVIOUS
  <2>7. [visible |-> v2, local |-> l2] \in Saved
    <3>1. v2 \in Table0 /\ l2 \in SUBSET Id
      BY <2>5, <2>6
    <3> QED BY ONLY <3>1 DEF Saved
  <2> QED BY <2>1, <2>6, <2>7
<1>7. OuterOf(c) \in Seq(Saved) /\ Len(OuterOf(c)) = Len(c) - 1
  <2>1. PICK m \in Nat : m = Len(c) - 1
    BY ChainFacts
  <2>2. OuterOf(c) = [i \in 1 .. m |-> [visible |-> Table(SubSeq(c, 1, i)), local |-> DOMAIN c[i]]]
    BY <2>1 DEF OuterOf
  <2>3. OuterOf(c) \in [1 .. m -> Saved]
    BY <1>6, <2>1, <2>2
  <2> QED BY <2>1, <2>3
<1> QED BY <1>1, <1>2, <1>4, <1>5, <1>7 DEF Now

(* A lookup in the chain is one in its scope.                              *)
LEMMA TypeNow ==
  ASSUME Chain(chain), NEW e \in Exp
  PROVE  TypeIn(e, Now(chain)) = resultExpType(e)
<1>1. Now(chain).visible = Table(chain)
  BY NowFacts
<1>2. e.op = "EId" => Table(chain)[e.name] = findSymbol(chain, e.name)
  BY DEF Exp, Table
<1>3. e.op \in {"EId", "Value", "Bad"}
  BY DEF Exp
<1>4. CASE e.op = "EId"
  BY <1>1, <1>2, <1>4 DEF TypeIn, resultExpType
<1>5. CASE e.op = "Value"
  BY <1>5 DEF TypeIn, resultExpType
<1>6. CASE e.op = "Bad"
  BY <1>6 DEF TypeIn, resultExpType
<1> QED BY <1>3, <1>4, <1>5, <1>6

(* The expressions of a handler pass the visitor's tests exactly when they *)
(* pass those of the judgement.                                            *)
LEMMA OneTest ==
  ASSUME Chain(chain), NEW e \in Exp, NEW want
  PROVE  /\ Failing(<<Test(e, want)>>) = {} <=> TypeIn(e, Now(chain)) \in want
         /\ Failing(<<Test(e, want)>>) = {} => Has(e, want, Now(chain)) = Now(chain)
         /\ Failing(<<Test(e, want)>>) # {} => ~ Has(e, want, Now(chain)).ok
<1>1. Failing(<<Test(e, want)>>) = {i \in {1} : resultExpType(e) \notin want}
  BY DEF Failing, Test
<1>2. Failing(<<Test(e, want)>>) = {} <=> TypeIn(e, Now(chain)) \in want
  BY <1>1, TypeNow
<1> QED BY <1>2, HasIs, NowFacts

(* The same of the three expressions of a for.                             *)
LEMMA ThreeTests ==
  ASSUME Chain(chain), NEW e1 \in Exp, NEW e2 \in Exp, NEW e3 \in Exp, NEW w1, NEW w2, NEW w3,
         NEW tests, tests = <<Test(e1, w1), Test(e2, w2), Test(e3, w3)>>,
         NEW sc, sc = Has(e3, w3, Has(e2, w2, Has(e1, w1, Now(chain))))
  PROVE  /\ sc \in Scopes
         /\ Failing(tests) = {} => sc = Now(chain)
         /\ Failing(tests) # {} => ~ sc.ok
<1>1. Failing(tests) = {i \in {1, 2, 3} : resultExpType(tests[i].exp) \notin tests[i].want}
  BY DEF Failing
<1>2. /\ tests[1].exp = e1 /\ tests[1].want = w1 /\ tests[2].exp = e2 /\ tests[2].want = w2
      /\ tests[3].exp = e3 /\ tests[3].want = w3
  BY DEF Test
<1>3. Failing(tests) = {} <=>
        resultExpType(e1) \in w1 /\ resultExpType(e2) \in w2 /\ resultExpType(e3) \in w3
  <2>1. Failing(tests) = {} <=>
          /\ resultExpType(tests[1].exp) \in tests[1].want
          /\ resultExpType(tests[2].exp) \in tests[2].want
          /\ resultExpType(tests[3].exp) \in tests[3].want
    BY <1>1
  <2> QED BY <1>2, <2>1
<1>4. PICK n, u, v : n = Now(chain) /\ u = Has(e1, w1, n) /\ v = Has(e2, w2, u)
  OBVIOUS
<1>5. n \in Scopes /\ n.ok /\ sc = Has(e3, w3, v)
  BY <1>4, NowFacts
<1>6. /\ u \in Scopes /\ (u.ok => TypeIn(e1, n) \in w1) /\ (TypeIn(e1, n) \in w1 => u = n)
  BY <1>4, <1>5, HasIs
<1>7. /\ v \in Scopes /\ (v.ok => u.ok /\ TypeIn(e2, u) \in w2) /\ (TypeIn(e2, u) \in w2 => v = u)
  BY <1>4, <1>6, HasIs
<1>8. /\ sc \in Scopes /\ (sc.ok => v.ok /\ TypeIn(e3, v) \in w3) /\ (TypeIn(e3, v) \in w3 => sc = v)
  BY <1>5, <1>7, HasIs
<1>9. /\ TypeIn(e1, n) = resultExpType(e1) /\ TypeIn(e2, n) = resultExpType(e2)
      /\ TypeIn(e3, n) = resultExpType(e3)
  BY <1>4, TypeNow
<1>10. Failing(tests) = {} => sc = n
  BY <1>3, <1>6, <1>7, <1>8, <1>9
<1>11. sc.ok => Failing(tests) = {}
  BY <1>3, <1>6, <1>7, <1>8, <1>9
<1> QED BY <1>4, <1>8, <1>10, <1>11

-----------------------------------------------------------------------------
(* The visitor agrees with the judgement so far *)

(* What is handed to the handler on top: the scope of the chain, after the *)
(* statement that is entered next.                                         *)
Value(c, nd, ret) == IF nd = NoStm THEN Now(c) ELSE After[nd][ret][Now(c)]

(* Function f of p is well typed exactly when what is left to do of it     *)
(* leaves all well.                                                        *)
Going(p, f, a, fr, nd, c) ==
  /\ f \in 1 .. Len(p)
  /\ OuterOf(c)[1].visible = NoVariables
  /\ Story(fr, OuterOf(c), p[f].type, a, Value(c, nd, p[f].type), WellTypedFunction(p[f]))

OnTrack == frames # <<>> /\ Going(program, fn, arg, frames, node, chain)
StaysOnTrack == frames' # <<>> /\ Going(program, fn, arg', frames', node', chain')
Wrong == fn \in 1 .. Len(program) /\ ~ WellTypedFunction(program[fn])

Errs == anyErrors' \/ crashed'

Outcome == (StaysOnTrack /\ UNCHANGED <<anyErrors, crashed>>) \/ (Wrong /\ Errs)

(* What follows from it of the state.                                      *)
LEMMA HereFacts ==
  ASSUME IInv, OnTrack, NEW c, c = chain, NEW ret, ret = program[fn].type
  PROVE  /\ Chain(c) /\ fn \in 1 .. Len(program)
         /\ program[fn] \in Function /\ ret \in DOMAIN types
         /\ StackOK(frames) /\ frames \in Seq(FrameSet) /\ Len(frames) \in Nat /\ frames # <<>>
         /\ Now(c) \in Scopes /\ Value(c, node, ret) \in Scopes
         /\ OuterOf(c) \in Seq(Saved)
         /\ Story(frames, OuterOf(c), ret, arg, Value(c, node, ret), WellTypedFunction(program[fn]))
<1>1. Chain(c) /\ StackOK(frames)
  BY InvFacts DEF Chain
<1>2. /\ fn \in 1 .. Len(program)
      /\ Story(frames, OuterOf(c), ret, arg, Value(c, node, ret), WellTypedFunction(program[fn]))
  BY DEF OnTrack, Going
<1>3. program[fn] \in Function
  BY <1>2 DEF IInv, Rest
<1>4. ret \in DOMAIN types
  BY <1>3 DEF Function
<1>5. frames \in Seq(FrameSet) /\ Len(frames) \in Nat
  BY <1>1, ScopesFinite
<1>6. Now(c) \in Scopes /\ OuterOf(c) \in Seq(Saved)
  BY <1>1, NowFacts
<1>7. Value(c, node, ret) \in Scopes
  <2>1. CASE node = NoStm
    BY <1>6, <2>1 DEF Value
  <2>2. CASE node # NoStm
    <3>1. node \in Stm
      BY <2>2, NodeFacts
    <3>2. After[node][ret] \in Moves
      BY <1>4, <1>6, <3>1, AfterAt
    <3> QED BY <1>6, <2>2, <3>2 DEF Value, Moves
  <2> QED BY <2>1, <2>2
<1> QED BY <1>1, <1>2, <1>3, <1>4, <1>5, <1>6, <1>7 DEF OnTrack

(* An error: the function is wrong.                                        *)
LEMMA ErrorIsWrong ==
  ASSUME IInv, OnTrack, ~ Value(chain, node, program[fn].type).ok
  PROVE  Wrong
<1>1. PICK ret, c : ret = program[fn].type /\ c = chain
  OBVIOUS
<1>2. PICK sc : sc = Value(c, node, ret)
  OBVIOUS
<1>3. PICK w : w = WellTypedFunction(program[fn])
  OBVIOUS
<1>4. /\ Len(frames) \in Nat /\ sc \in Scopes /\ fn \in 1 .. Len(program)
      /\ Story(frames, OuterOf(c), ret, arg, sc, w)
  BY <1>1, <1>2, <1>3, HereFacts
<1>5. ~ sc.ok
  BY <1>1, <1>2
<1>6. ~ w
  BY <1>4, <1>5, StoryFails
<1> QED BY <1>3, <1>4, <1>6 DEF Wrong

(* A handler throws, or asks for what is nowhere.                          *)
LEMMA Raised == Throw \/ Crash => Errs
  BY DEF Throw, Crash, Errs

(* A handler that calls: of what it entered with, its frame finishes what  *)
(* the called one is given.                                                *)
LEMMA CallGood ==
  ASSUME IInv, OnTrack, NEW ret, ret = program[fn].type, NEW c, c = chain,
         NEW f, f \in FrameSet, f.stm.op \notin ScopeOps,
         NEW q, q = OuterOf(c)[Len(OuterOf(c))], Fits(f, ret, arg, q),
         frames' = Append(frames, f), UNCHANGED <<fn, arg, chain>>,
         Value(c, node', ret) \in Scopes,
         Value(c, node, ret) = Finish(f, ret, arg, q, Value(c, node', ret))
  PROVE  StaysOnTrack
<1>1. PICK w, o, sc, sc2 : /\ w = WellTypedFunction(program[fn]) /\ o = OuterOf(c)
                           /\ sc = Value(c, node, ret) /\ sc2 = Value(c, node', ret)
  OBVIOUS
<1>2. /\ frames \in Seq(FrameSet) /\ frames # <<>> /\ fn \in 1 .. Len(program)
      /\ o \in Seq(Saved) /\ Story(frames, o, ret, arg, sc, w)
  BY <1>1, HereFacts
<1>3. Above(f, frames, o, o)
  BY <1>2 DEF Above
<1>4. PICK top, a : top = Append(frames, f) /\ a = arg
  OBVIOUS
<1>5. /\ f \in FrameSet /\ (a = a \/ frames = <<>>) /\ sc2 \in Scopes /\ q = o[Len(o)]
      /\ Fits(f, ret, a, q)
      /\ Story(frames, o, ret, a, Finish(f, ret, a, q, sc2), w)
  BY <1>1, <1>2, <1>4
<1>6. Story(top, o, ret, a, sc2, w)
  BY ONLY <1>2, <1>3, <1>4, <1>5, StoryCall
<1>7. frames' # <<>>
  BY <1>2
<1>8. OuterOf(c)[1].visible = NoVariables
  BY DEF OnTrack, Going
<1> QED BY <1>1, <1>2, <1>4, <1>6, <1>7, <1>8 DEF StaysOnTrack, Going

(* The stack stays, and what was to come is done.                          *)
LEMMA StayGood ==
  ASSUME IInv, OnTrack, UNCHANGED <<fn, arg, chain, frames>>,
         Value(chain, node, program[fn].type) = Value(chain, node', program[fn].type)
  PROVE  StaysOnTrack
  BY DEF OnTrack, StaysOnTrack, Going

(* A statement without sub-statements.                                     *)
LEMMA LeafGood ==
  ASSUME IInv, OnTrack, visitSExp \/ visitSReturn \/ visitSReturnV
  PROVE  Outcome
<1>1. PICK ret, c, n : ret = program[fn].type /\ c = chain /\ n = Now(c)
  OBVIOUS
<1>2. /\ node # NoStm /\ node \in Stm /\ UNCHANGED <<fn, arg>>
  BY NodeFacts DEF visitSExp, visitSReturn, visitSReturnV, Entering, Checking
<1>3. /\ Chain(chain) /\ ret \in DOMAIN types /\ n \in Scopes /\ n.ok
  BY <1>1, HereFacts, NowFacts
<1>4. Value(c, node, ret) = After[node][ret][n]
  BY <1>1, <1>2 DEF Value
<1>5. ASSUME After[node][ret][n] = n, Leaf, Sound
      PROVE  Outcome
  <2>1. Value(c, node', ret) = n
    BY <1>1, <1>5 DEF Value, Leaf
  <2>2. StaysOnTrack
    BY <1>1, <1>2, <1>4, <1>5, <2>1, StayGood DEF Leaf, Sound
  <2> QED BY <1>5, <2>2 DEF Outcome, Sound
<1>6. ASSUME ~ After[node][ret][n].ok, Throw \/ Crash
      PROVE  Outcome
  <2>1. Wrong
    BY <1>1, <1>4, <1>6, ErrorIsWrong
  <2> QED BY <1>6, <2>1, Raised DEF Outcome
<1>7. CASE visitSExp
  <2>1. node.op = "SExp" /\ node.exps[1] \in Exp
    BY <1>2, <1>7, StmExps DEF visitSExp, Entering
  <2>2. After[node][ret][n] = Has(node.exps[1], AnyType, n)
    BY <1>2, <1>3, <2>1, AfterSimple
  <2>3. PICK tests : tests = <<Test(node.exps[1], AnyType)>>
    OBVIOUS
  <2>4. \/ Failing(tests) = {} /\ Leaf /\ Sound
        \/ Failing(tests) # {} /\ (Throw \/ Crash)
    BY <1>7, <2>3 DEF visitSExp, Checking
  <2>5. /\ Failing(tests) = {} => After[node][ret][n] = n
        /\ Failing(tests) # {} => ~ After[node][ret][n].ok
    BY <1>1, <1>3, <2>1, <2>2, <2>3, OneTest
  <2> QED BY <1>5, <1>6, <2>4, <2>5
<1>8. CASE visitSReturn
  <2>1. node.op = "SReturn" /\ node.exps[1] \in Exp
    BY <1>2, <1>8, StmExps DEF visitSReturn, Entering
  <2>2. After[node][ret][n] = Has(node.exps[1], Becomes(ret), n)
    BY <1>2, <1>3, <2>1, AfterSimple
  <2>3. PICK tests : tests = <<Test(node.exps[1], Becomes(ret))>>
    OBVIOUS
  <2>4. \/ Failing(tests) = {} /\ Leaf /\ Sound
        \/ Failing(tests) # {} /\ (Throw \/ Crash)
    BY <1>1, <1>8, <2>3 DEF visitSReturn, Checking, returnType
  <2>5. /\ Failing(tests) = {} => After[node][ret][n] = n
        /\ Failing(tests) # {} => ~ After[node][ret][n].ok
    BY <1>1, <1>3, <2>1, <2>2, <2>3, OneTest
  <2> QED BY <1>5, <1>6, <2>4, <2>5
<1>9. CASE visitSReturnV
  <2>1. node.op = "SReturnV"
    BY <1>9 DEF visitSReturnV, Entering
  <2>2. After[node][ret][n] = And(n, ret = TYPE_VOID)
    BY <1>2, <1>3, <2>1, AfterSimple
  <2>3. isConvertibleTo(ret, TYPE_VOID) <=> ret = TYPE_VOID
    BY DEF isConvertibleTo, TYPE_VOID, TYPE_DOUBLE
  <2>4. IF ret = TYPE_VOID THEN Leaf /\ Sound ELSE Throw
    BY <1>1, <1>9, <2>3 DEF visitSReturnV, returnType
  <2>5. /\ ret = TYPE_VOID => And(n, ret = TYPE_VOID) = n
        /\ ret # TYPE_VOID => ~ And(n, ret = TYPE_VOID).ok
    BY <1>3, AndHolds, AndRange
  <2> QED BY <1>5, <1>6, <2>2, <2>4, <2>5
<1> QED BY <1>7, <1>8, <1>9

(* A handler that calls its first sub-statement with what its expressions  *)
(* left: sc is wrong if one of them is.                                    *)
LEMMA EnterGood ==
  ASSUME IInv, OnTrack, node # NoStm, node.op \in {"SWhile", "SFor", "SIfElse", "SDoWhile"},
         UNCHANGED <<program, rootParent, fn, arg>>,
         NEW c, c = chain, NEW ret, ret = program[fn].type,
         NEW sc \in Scopes, NEW f, f = Frame(node, 1), NEW q, q = OuterOf(c)[Len(OuterOf(c))],
         Value(c, node, ret) = Finish(f, ret, arg, q, After[node.kids[1]][ret][sc]),
         \/ sc = Now(c) /\ Call(node.kids[1], f) /\ Sound
         \/ ~ sc.ok /\ (Throw \/ Crash)
  PROVE  Outcome
<1>1. /\ node \in Stm /\ node.kids[1] \in Stm /\ node.op \notin ScopeOps /\ node.op # "SDecls"
      /\ ret \in DOMAIN types /\ TypeKnown(node)
  BY NodeFacts, StmParts, HereFacts DEF ScopeOps, TypeKnown
<1>2. f \in FrameSet /\ f.stm = node /\ f.pos = 1
  BY <1>1 DEF Frame, FrameSet
<1>3. Fits(f, ret, arg, q)
  BY <1>1, <1>2 DEF Fits, ScopeOps
<1>4. PICK t : t = After[node.kids[1]][ret][sc]
  OBVIOUS
<1>5. t \in Scopes /\ (t.ok => sc.ok)
  <2>1. After[node.kids[1]][ret] \in Moves
    BY <1>1, AfterAt
  <2> QED BY <1>4, <2>1 DEF Moves
<1>6. ASSUME sc = Now(c), Call(node.kids[1], f), Sound
      PROVE  Outcome
  <2>1. frames' = Append(frames, f) /\ node' = node.kids[1] /\ node' # NoStm
    BY <1>1, <1>6, TypeCheckAssumption DEF Call
  <2>2. Value(c, node', ret) = t
    BY <1>4, <1>6, <2>1 DEF Value
  <2>3. StaysOnTrack
    <3>1. f.stm.op \notin ScopeOps /\ UNCHANGED <<fn, arg, chain>>
      BY <1>1, <1>2, <1>6 DEF Sound
    <3> QED BY <1>2, <1>3, <1>4, <1>5, <2>1, <2>2, <3>1, CallGood, ZenonT(40)
  <2> QED BY <1>6, <2>3 DEF Outcome, Sound
<1>7. ASSUME ~ sc.ok, Throw \/ Crash
      PROVE  Outcome
  <2>1. Finish(f, ret, arg, q, t).ok => t.ok
    BY <1>3, <1>5, FinishMoves
  <2>2. ~ Value(c, node, ret).ok
    BY <1>4, <1>5, <1>7, <2>1
  <2>3. Wrong
    BY <2>2, ErrorIsWrong
  <2> QED BY <1>7, <2>3, Raised DEF Outcome
<1> QED BY <1>6, <1>7

(* A while is entered after its condition.                                 *)
LEMMA visitSWhileGood == ASSUME IInv, OnTrack, visitSWhile PROVE Outcome
<1>1. PICK ret, c, n, f, q : /\ ret = program[fn].type /\ c = chain /\ n = Now(c)
                             /\ f = Frame(node, 1) /\ q = OuterOf(c)[Len(OuterOf(c))]
  OBVIOUS
<1>2. /\ node # NoStm /\ node.op = "SWhile" /\ UNCHANGED <<program, rootParent, fn, arg>>
  BY DEF visitSWhile, Entering, Checking
<1>3. node \in Stm /\ node.exps[1] \in Exp /\ Chain(chain) /\ ret \in DOMAIN types /\ n \in Scopes
  BY <1>1, <1>2, NodeFacts, StmExps, HereFacts
<1>4. PICK sc, tests : sc = Has(node.exps[1], Bool, n) /\ tests = <<Test(node.exps[1], Bool)>>
  OBVIOUS
<1>5. sc \in Scopes
  BY <1>3, <1>4, HasIs
<1>6. /\ Failing(tests) = {} => sc = Now(c)
      /\ Failing(tests) # {} => ~ sc.ok
  BY <1>1, <1>3, <1>4, OneTest
<1>7. \/ Failing(tests) = {} /\ Call(node.kids[1], f) /\ Sound
      \/ Failing(tests) # {} /\ (Throw \/ Crash)
  BY <1>1, <1>4 DEF visitSWhile, Checking
<1>8. Value(c, node, ret) = Finish(f, ret, arg, q, After[node.kids[1]][ret][sc])
  <2>1. Value(c, node, ret) = After[node][ret][n]
    BY <1>1, <1>2 DEF Value
  <2>2. After[node][ret][n] = After[node.kids[1]][ret][sc]
    BY <1>2, <1>3, <1>4, AfterParts
  <2>3. f.stm.op = "SWhile"
    BY <1>1, <1>2 DEF Frame
  <2> QED BY <2>1, <2>2, <2>3 DEF Finish
<1>9. \/ sc = Now(c) /\ Call(node.kids[1], f) /\ Sound
      \/ ~ sc.ok /\ (Throw \/ Crash)
  BY <1>6, <1>7
<1> QED BY <1>1, <1>2, <1>5, <1>8, <1>9, EnterGood

(* An if is entered after its condition.                                   *)
LEMMA visitSIfElseGood == ASSUME IInv, OnTrack, visitSIfElse PROVE Outcome
<1>1. PICK ret, c, n, f, q : /\ ret = program[fn].type /\ c = chain /\ n = Now(c)
                             /\ f = Frame(node, 1) /\ q = OuterOf(c)[Len(OuterOf(c))]
  OBVIOUS
<1>2. /\ node # NoStm /\ node.op = "SIfElse" /\ UNCHANGED <<program, rootParent, fn, arg>>
  BY DEF visitSIfElse, Entering, Checking
<1>3. node \in Stm /\ node.exps[1] \in Exp /\ Chain(chain) /\ ret \in DOMAIN types /\ n \in Scopes
  BY <1>1, <1>2, NodeFacts, StmExps, HereFacts
<1>4. PICK sc, tests : sc = Has(node.exps[1], Bool, n) /\ tests = <<Test(node.exps[1], Bool)>>
  OBVIOUS
<1>5. sc \in Scopes
  BY <1>3, <1>4, HasIs
<1>6. /\ Failing(tests) = {} => sc = Now(c)
      /\ Failing(tests) # {} => ~ sc.ok
  BY <1>1, <1>3, <1>4, OneTest
<1>7. \/ Failing(tests) = {} /\ Call(node.kids[1], f) /\ Sound
      \/ Failing(tests) # {} /\ (Throw \/ Crash)
  BY <1>1, <1>4 DEF visitSIfElse, Checking
<1>8. Value(c, node, ret) = Finish(f, ret, arg, q, After[node.kids[1]][ret][sc])
  <2>1. Value(c, node, ret) = After[node][ret][n]
    BY <1>1, <1>2 DEF Value
  <2>2. After[node][ret][n] = After[node.kids[2]][ret][After[node.kids[1]][ret][sc]]
    BY <1>2, <1>3, <1>4, AfterParts, ZenonT(40)
  <2>3. f.stm = node /\ f.pos = 1
    BY <1>1 DEF Frame
  <2> QED BY <1>2, <2>1, <2>2, <2>3 DEF Finish
<1>9. \/ sc = Now(c) /\ Call(node.kids[1], f) /\ Sound
      \/ ~ sc.ok /\ (Throw \/ Crash)
  BY <1>6, <1>7
<1> QED BY <1>1, <1>2, <1>5, <1>8, <1>9, EnterGood

(* A for is entered after all three of its expressions.                    *)
LEMMA visitSForGood == ASSUME IInv, OnTrack, visitSFor PROVE Outcome
<1>1. PICK ret, c, n, f, q : /\ ret = program[fn].type /\ c = chain /\ n = Now(c)
                             /\ f = Frame(node, 1) /\ q = OuterOf(c)[Len(OuterOf(c))]
  OBVIOUS
<1>2. /\ node # NoStm /\ node.op = "SFor" /\ UNCHANGED <<program, rootParent, fn, arg>>
  BY DEF visitSFor, Entering, Checking
<1>3. /\ node \in Stm /\ node.exps[1] \in Exp /\ node.exps[2] \in Exp /\ node.exps[3] \in Exp
      /\ Chain(chain) /\ ret \in DOMAIN types /\ n \in Scopes
  BY <1>1, <1>2, NodeFacts, StmExps, HereFacts
<1>4. PICK e1, e2, e3 : e1 = node.exps[1] /\ e2 = node.exps[2] /\ e3 = node.exps[3]
  OBVIOUS
<1>5. PICK sc, tests : /\ sc = Has(e3, AnyType, Has(e2, Bool, Has(e1, AnyType, n)))
                       /\ tests = <<Test(e1, AnyType), Test(e2, Bool), Test(e3, AnyType)>>
  OBVIOUS
<1>6. /\ sc \in Scopes
      /\ Failing(tests) = {} => sc = Now(c)
      /\ Failing(tests) # {} => ~ sc.ok
  BY <1>1, <1>3, <1>4, <1>5, ThreeTests
<1>7. \/ Failing(tests) = {} /\ Call(node.kids[1], f) /\ Sound
      \/ Failing(tests) # {} /\ (Throw \/ Crash)
  BY <1>1, <1>4, <1>5 DEF visitSFor, Checking
<1>8. Value(c, node, ret) = Finish(f, ret, arg, q, After[node.kids[1]][ret][sc])
  <2>1. Value(c, node, ret) = After[node][ret][n]
    BY <1>1, <1>2 DEF Value
  <2>2. After[node][ret][n] = After[node.kids[1]][ret][sc]
    BY <1>2, <1>3, <1>4, <1>5, AfterParts
  <2>3. f.stm.op = "SFor"
    BY <1>1, <1>2 DEF Frame
  <2> QED BY <2>1, <2>2, <2>3 DEF Finish
<1>9. \/ sc = Now(c) /\ Call(node.kids[1], f) /\ Sound
      \/ ~ sc.ok /\ (Throw \/ Crash)
  BY <1>6, <1>7
<1> QED BY <1>1, <1>2, <1>6, <1>8, <1>9, EnterGood

(* A do is entered at once.                                                *)
LEMMA visitSDoWhileGood == ASSUME IInv, OnTrack, visitSDoWhile PROVE Outcome
<1>1. PICK ret, c, n, f, q : /\ ret = program[fn].type /\ c = chain /\ n = Now(c)
                             /\ f = Frame(node, 1) /\ q = OuterOf(c)[Len(OuterOf(c))]
  OBVIOUS
<1>2. /\ node # NoStm /\ node.op = "SDoWhile" /\ UNCHANGED <<program, rootParent, fn, arg>>
      /\ Call(node.kids[1], f) /\ Sound
  BY <1>1 DEF visitSDoWhile, Entering, fixed, Sound
<1>3. node \in Stm /\ ret \in DOMAIN types /\ n \in Scopes
  BY <1>1, <1>2, NodeFacts, HereFacts
<1>4. Value(c, node, ret) = Finish(f, ret, arg, q, After[node.kids[1]][ret][n])
  <2>1. Value(c, node, ret) = After[node][ret][n]
    BY <1>1, <1>2 DEF Value
  <2>2. After[node][ret][n] = Has(node.exps[1], Bool, After[node.kids[1]][ret][n])
    BY <1>2, <1>3, AfterParts
  <2>3. f.stm = node
    BY <1>1 DEF Frame
  <2> QED BY <1>2, <2>1, <2>2, <2>3 DEF Finish
<1> QED BY <1>1, <1>2, <1>3, <1>4, EnterGood

(* Names are entered one by one, when their type is known.                 *)
LEMMA visitSDeclsGood == ASSUME IInv, OnTrack, visitSDecls PROVE Outcome
<1>1. PICK ret, c, n, f, q : /\ ret = program[fn].type /\ c = chain /\ n = Now(c)
                             /\ f = Frame(node, 0) /\ q = OuterOf(c)[Len(OuterOf(c))]
  OBVIOUS
<1>2. PICK t : t = findBasicType(types, node.type)
  OBVIOUS
<1>3. /\ node # NoStm /\ node.op = "SDecls" /\ UNCHANGED <<program, rootParent, fn, arg>>
  BY DEF visitSDecls, Entering
<1>4. node \in Stm /\ node.exps \in Seq(IdIn) /\ ret \in DOMAIN types /\ n \in Scopes
  BY <1>1, <1>3, NodeFacts, StmParts, HereFacts
<1>5. Value(c, node, ret) = After[node][ret][n]
  BY <1>1, <1>3 DEF Value
<1>6. \/ t \in {null, TYPE_VOID} /\ (Throw \/ Crash)
      \/ t \notin {null, TYPE_VOID} /\ Call(NoStm, f) /\ Sound
  BY <1>1, <1>2 DEF visitSDecls
<1>7. ASSUME t \in {null, TYPE_VOID}, Throw \/ Crash
      PROVE  Outcome
  <2>1. ~ After[node][ret][n].ok
    BY <1>2, <1>3, <1>4, <1>7, AfterDecls
  <2>2. Wrong
    BY <1>1, <1>5, <2>1, ErrorIsWrong
  <2> QED BY <1>7, <2>2, Raised DEF Outcome
<1>8. ASSUME t \notin {null, TYPE_VOID}, Call(NoStm, f), Sound
      PROVE  Outcome
  <2>1. f \in FrameSet /\ f.stm = node /\ f.pos = 0
    BY <1>1, <1>4 DEF Frame, FrameSet
  <2>2. f.stm.op \notin ScopeOps /\ t \in DOMAIN types
    BY <1>2, <1>3, <1>8, <2>1, FindBasicType DEF ScopeOps
  <2>3. Fits(f, ret, arg, q)
    <3>1. TypeKnown(node)
      BY <1>2, <2>2 DEF TypeKnown
    <3>2. 0 \in 0 .. Len(node.exps)
      BY <1>4
    <3> QED BY <1>3, <1>4, <2>1, <2>2, <3>1, <3>2 DEF Fits
  <2>4. frames' = Append(frames, f) /\ node' = NoStm /\ UNCHANGED <<fn, arg, chain>>
    BY <1>3, <1>8 DEF Call, Sound
  <2>5. Value(c, node', ret) = n
    BY <1>1, <2>4 DEF Value
  <2>6. Value(c, node, ret) = Finish(f, ret, arg, q, n)
    <3>1. After[node][ret][n] = InTurn(EnterNames(node.exps, t))[0][n]
      BY <1>2, <1>3, <1>4, <1>8, AfterDecls
    <3> QED BY <1>2, <1>3, <1>5, <2>1, <3>1 DEF Finish
  <2>7. StaysOnTrack
    BY <1>1, <1>4, <2>1, <2>2, <2>3, <2>4, <2>5, <2>6, CallGood
  <2> QED BY <1>8, <2>7 DEF Outcome, Sound
<1> QED BY <1>6, <1>7, <1>8

(* The handler on top fits what is left.                                   *)
LEMMA StoryTop ==
  ASSUME NEW fr \in Seq(FrameSet), fr # <<>>, NEW o, NEW ret, NEW a, NEW sc, NEW w,
         Story(fr, o, ret, a, sc, w)
  PROVE  Len(o) >= 1 /\ Fits(fr[Len(fr)], ret, a, o[Len(o)])
<1>1. PICK n \in Nat : Len(fr) = n + 1
  <2>1. Len(fr) \in Nat /\ Len(fr) # 0
    OBVIOUS
  <2>2. Len(fr) - 1 \in Nat /\ Len(fr) = Len(fr) - 1 + 1
    BY <2>1
  <2> QED BY <2>2
<1>2. PICK G, L : Rests(fr, n + 1, o, ret, a, G, L) /\ L[n + 1] = Len(o)
  BY <1>1 DEF Story
<1>3. Rests(fr, n + 1, o, ret, a, G, L)
  BY <1>2
<1>4. L[n + 1] >= 1 /\ Fits(fr[n + 1], ret, a, o[L[n + 1]])
  BY ONLY n \in Nat, <1>3, RestsDown
<1> QED BY <1>1, <1>2, <1>4

(* In particular the one on top of the visitor's stack.                    *)
LEMMA HereTop ==
  ASSUME IInv, OnTrack, NEW c, c = chain, NEW ret, ret = program[fn].type,
         NEW q, q = OuterOf(c)[Len(OuterOf(c))]
  PROVE  /\ Len(OuterOf(c)) \in Nat /\ Len(OuterOf(c)) >= 1
         /\ Fits(Top, ret, arg, q) /\ Top \in FrameSet
         /\ OuterOf(c)[1].visible = NoVariables
<1>1. PICK w, o, sc : /\ w = WellTypedFunction(program[fn]) /\ o = OuterOf(c)
                      /\ sc = Value(c, node, ret)
  OBVIOUS
<1>2. /\ frames \in Seq(FrameSet) /\ frames # <<>> /\ o \in Seq(Saved)
      /\ Story(frames, o, ret, arg, sc, w)
  BY <1>1, HereFacts
<1>3. Len(o) >= 1 /\ Fits(frames[Len(frames)], ret, arg, o[Len(o)])
  BY <1>2, StoryTop
<1>4. Len(o) \in Nat
  BY <1>2
<1>5. OuterOf(c)[1].visible = NoVariables
  BY DEF OnTrack, Going
<1> QED BY <1>1, <1>3, <1>4, <1>5 DEF Top, Fits

(* A block leaves the scope it was entered in as it was.                   *)
LEMMA visitSBlockGood == ASSUME IInv, OnTrack, visitSBlock PROVE Outcome
<1>1. PICK ret, c, n, f, d : /\ ret = program[fn].type /\ c = chain /\ n = Now(c)
                             /\ f = Frame(node, 0) /\ d = chain'
  OBVIOUS
<1>2. /\ node # NoStm /\ node.op = "SBlock" /\ UNCHANGED <<program, fn, arg, anyErrors, crashed>>
      /\ frames' = Append(frames, f) /\ node' = NoStm /\ d = Append(c, NoMembers)
  BY <1>1 DEF visitSBlock, Entering, fixed, Call, beginContext
<1>3. /\ node \in Stm /\ node.kids \in Seq(Stm) /\ ret \in DOMAIN types /\ n \in Scopes /\ Chain(c)
  BY <1>1, <1>2, NodeFacts, StmParts, HereFacts
<1>4. PICK o, q, up : /\ o = OuterOf(c) /\ up = OuterOf(d)
                      /\ q = [visible |-> Table(c), local |-> DOMAIN c[Len(c)]]
  OBVIOUS
<1>5. /\ Table(d) = Table(c) /\ DOMAIN d[Len(d)] = {} /\ up = Append(o, q)
  BY <1>2, <1>3, <1>4, Opened
<1>6. Chain(d)
  BY <1>2, <1>3, NoMembersMap DEF Chain
<1>7. /\ Now(d) \in Scopes /\ Now(d) = Scope(Table(c), {}, TRUE)
      /\ o \in Seq(Saved) /\ up \in Seq(Saved) /\ Len(o) \in Nat /\ Len(o) >= 1
      /\ o[1].visible = NoVariables
  BY <1>1, <1>3, <1>4, <1>5, <1>6, NowFacts, HereTop DEF Now
<1>8. /\ Len(up) = Len(o) + 1 /\ up[Len(o) + 1] = q /\ \A j \in 1 .. Len(o) : up[j] = o[j]
      /\ up[Len(up)] = q /\ up[1] = o[1]
  BY <1>5, <1>7
<1>9. f \in FrameSet /\ f.stm = node /\ f.pos = 0
  BY <1>1, <1>3 DEF Frame, FrameSet
<1>10. Fits(f, ret, arg, q)
  <2>1. q \in Saved
    <3>1. Len(up) \in 1 .. Len(up)
      BY <1>7, <1>8
    <3> QED BY <1>7, <1>8, <3>1
  <2>2. 0 \in 0 .. Len(node.kids) /\ TypeKnown(node)
    BY <1>2, <1>3 DEF TypeKnown
  <2> QED BY <1>2, <1>3, <1>9, <2>1, <2>2 DEF Fits
<1>11. Value(c, node, ret) = Finish(f, ret, arg, q, Now(d))
  <2>1. Value(c, node, ret) = After[node][ret][n]
    BY <1>1, <1>2 DEF Value
  <2>2. After[node][ret][n] =
          Scope(n.visible, n.local, InTurn(Bodies(node.kids, ret))[0][Scope(n.visible, {}, n.ok)].ok)
    BY <1>2, <1>3, AfterBlock
  <2>3. n.visible = Table(c) /\ n.local = DOMAIN c[Len(c)] /\ n.ok = TRUE
    BY <1>1 DEF Now, Scope
  <2>4. Finish(f, ret, arg, q, Now(d)) =
          Scope(q.visible, q.local, InTurn(Bodies(node.kids, ret))[0][Now(d)].ok)
    BY <1>2, <1>9 DEF Finish
  <2> QED BY <1>4, <1>7, <2>1, <2>2, <2>3, <2>4
<1>12. PICK w, a, sc2, top : /\ w = WellTypedFunction(program[fn]) /\ a = arg /\ sc2 = Now(d)
                             /\ top = Append(frames, f)
  OBVIOUS
<1>13. /\ frames \in Seq(FrameSet) /\ frames # <<>> /\ fn \in 1 .. Len(program)
       /\ Story(frames, o, ret, a, Finish(f, ret, a, q, sc2), w) /\ Fits(f, ret, a, q)
  BY <1>1, <1>4, <1>10, <1>11, <1>12, HereFacts
<1>14. Above(f, frames, o, up) /\ sc2 \in Scopes /\ q = up[Len(up)] /\ (a = a \/ frames = <<>>)
  BY <1>2, <1>7, <1>8, <1>9, <1>12 DEF Above, ScopeOps
<1>15. Story(top, up, ret, a, sc2, w)
  BY ONLY <1>7, <1>9, <1>12, <1>13, <1>14, StoryCall
<1>16. frames' # <<>> /\ Value(d, node', ret) = sc2
  BY <1>2, <1>12, <1>13 DEF Value
<1>17. StaysOnTrack
  BY <1>1, <1>2, <1>4, <1>7, <1>8, <1>12, <1>13, <1>15, <1>16 DEF StaysOnTrack, Going
<1> QED BY <1>2, <1>17 DEF Outcome

-----------------------------------------------------------------------------
(* Handlers that go on *)

(* The handler on top goes on, in the same function and the same scopes.   *)
LEMMA OnStory ==
  ASSUME IInv, OnTrack, node = NoStm, NEW c, c = chain,
         NEW ret, ret = program[fn].type, NEW q, q = OuterOf(c)[Len(OuterOf(c))],
         NEW g \in FrameSet, NEW a2, NEW sc2 \in Scopes,
         Continues(Top, g, ret, arg, a2, q, Now(c), sc2)
  PROVE  /\ Append(Pop, g) # <<>> /\ Len(Append(Pop, g)) \in Nat
         /\ Story(Append(Pop, g), OuterOf(c), ret, a2, sc2, WellTypedFunction(program[fn]))
<1>1. PICK w, o, f, a, sc : /\ w = WellTypedFunction(program[fn]) /\ o = OuterOf(c)
                            /\ f = frames[Len(frames)] /\ a = arg /\ sc = Now(c)
  OBVIOUS
<1>2. /\ StackOK(frames) /\ frames # <<>> /\ o \in Seq(Saved) /\ sc \in Scopes
      /\ fn \in 1 .. Len(program) /\ Story(frames, o, ret, a, sc, w)
  <2>1. Value(c, node, ret) = sc
    BY <1>1 DEF Value
  <2> QED BY <1>1, <2>1, HereFacts
<1>3. /\ f = frames[Len(frames)] /\ q = o[Len(o)] /\ g \in FrameSet /\ sc2 \in Scopes
      /\ Continues(f, g, ret, a, a2, q, sc, sc2)
  BY <1>1 DEF Top
<1>4. Story(Append(SubSeq(frames, 1, Len(frames) - 1), g), o, ret, a2, sc2, w)
  BY ONLY <1>2, <1>3, StoryOn
<1>5. PICK front : front = SubSeq(frames, 1, Len(frames) - 1)
  OBVIOUS
<1>6. front \in Seq(FrameSet)
  BY <1>2, <1>5, Popped DEF StackOK
<1>7. Append(front, g) # <<>> /\ Len(Append(front, g)) \in Nat
  BY <1>6
<1> QED BY <1>1, <1>4, <1>5, <1>7 DEF Pop

(* A handler that goes on and leaves as much to do as there was.           *)
LEMMA OnGood ==
  ASSUME IInv, OnTrack, node = NoStm, NEW c, c = chain, NEW d, d = chain', OuterOf(d) = OuterOf(c),
         NEW ret, ret = program[fn].type, NEW q, q = OuterOf(c)[Len(OuterOf(c))],
         NEW g \in FrameSet, NEW a2, a2 = arg',
         fn' = fn, frames' = Append(Pop, g),
         NEW sc2 \in Scopes, sc2 = Value(d, node', ret),
         Continues(Top, g, ret, arg, a2, q, Now(c), sc2)
  PROVE  StaysOnTrack
<1>1. /\ frames' # <<>>
      /\ Story(frames', OuterOf(d), ret, arg', Value(d, node', ret), WellTypedFunction(program[fn]))
  BY OnStory
<1>2. fn \in 1 .. Len(program) /\ OuterOf(d)[1].visible = NoVariables
  BY DEF OnTrack, Going
<1> QED BY <1>1, <1>2 DEF StaysOnTrack, Going

(* What it would go on with is wrong.                                      *)
LEMMA OnWrong ==
  ASSUME IInv, OnTrack, node = NoStm, NEW c, c = chain,
         NEW ret, ret = program[fn].type, NEW q, q = OuterOf(c)[Len(OuterOf(c))],
         NEW g \in FrameSet, NEW a2, NEW sc2 \in Scopes, ~ sc2.ok,
         Continues(Top, g, ret, arg, a2, q, Now(c), sc2)
  PROVE  Wrong
<1>1. PICK w, fr, o : w = WellTypedFunction(program[fn]) /\ fr = Append(Pop, g) /\ o = OuterOf(c)
  OBVIOUS
<1>2. Len(fr) \in Nat /\ Story(fr, o, ret, a2, sc2, w)
  BY <1>1, OnStory
<1>3. ~ w
  BY <1>2, StoryFails
<1>4. fn \in 1 .. Len(program)
  BY DEF OnTrack, Going
<1> QED BY <1>1, <1>3, <1>4 DEF Wrong

(* The frame of a handler that goes on to its next child.                  *)
LEMMA NextFrame ==
  ASSUME NEW f \in FrameSet, NEW g, g = [f EXCEPT !.pos = @ + 1]
  PROVE  g \in FrameSet /\ g.stm = f.stm /\ g.pos = f.pos + 1 /\ f.pos \in Nat
<1>1. f.stm \in Stm \cup Function /\ f.pos \in Nat /\ f = [stm |-> f.stm, pos |-> f.pos]
  BY DEF FrameSet
<1>2. g = [stm |-> f.stm, pos |-> f.pos + 1]
  BY <1>1
<1> QED BY <1>1, <1>2 DEF FrameSet

(* A handler that was not a scope returns.                                 *)
LEMMA ReturnStory ==
  ASSUME IInv, OnTrack, node = NoStm, NEW c, c = chain, Top.stm.op \notin ScopeOps,
         NEW ret, ret = program[fn].type, NEW q, q = OuterOf(c)[Len(OuterOf(c))]
  PROVE  /\ Pop # <<>> /\ Pop \in Seq(FrameSet)
         /\ Story(Pop, OuterOf(c), ret, arg, Finish(Top, ret, arg, q, Now(c)), WellTypedFunction(program[fn]))
<1>1. PICK w, o, f, a, sc, front :
        /\ w = WellTypedFunction(program[fn]) /\ o = OuterOf(c)
        /\ f = frames[Len(frames)] /\ a = arg /\ sc = Now(c)
        /\ front = SubSeq(frames, 1, Len(frames) - 1)
  OBVIOUS
<1>2. /\ StackOK(frames) /\ frames # <<>> /\ o \in Seq(Saved) /\ sc \in Scopes
      /\ Story(frames, o, ret, a, sc, w)
  <2>1. Value(c, node, ret) = sc
    BY <1>1 DEF Value
  <2> QED BY <1>1, <2>1, HereFacts
<1>3. /\ front \in Seq(FrameSet) /\ f \in FrameSet /\ frames = Append(front, f)
      /\ f.stm.op = "DFun" <=> front = <<>>
  BY <1>1, <1>2, Popped DEF StackOK
<1>4. Above(f, front, o, o) /\ front # <<>>
  BY <1>1, <1>3 DEF Above, Top, ScopeOps
<1>5. PICK b : b = a
  OBVIOUS
<1>6. b = a \/ front = <<>>
  BY <1>5
<1>7. q = o[Len(o)]
  BY <1>1
<1>8. Story(frames, o, ret, a, sc, w) => Story(front, o, ret, b, Finish(f, ret, a, q, sc), w)
  BY ONLY <1>2, <1>3, <1>4, <1>6, <1>7, StoryCall
<1> QED BY <1>1, <1>2, <1>3, <1>4, <1>5, <1>8 DEF Top, Pop

(* It returns, unless the condition it tested last fails.                  *)
LEMMA ReturnGood ==
  ASSUME IInv, OnTrack, node = NoStm, NEW c, c = chain, Top.stm.op \notin ScopeOps,
         NEW ret, ret = program[fn].type, NEW q, q = OuterOf(c)[Len(OuterOf(c))],
         NEW sc \in Scopes, sc = Finish(Top, ret, arg, q, Now(c)), UNCHANGED <<fn, arg>>,
         \/ sc = Now(c) /\ Return /\ Sound
         \/ ~ sc.ok /\ (Throw \/ Crash)
  PROVE  Outcome
<1>1. /\ Pop # <<>> /\ Pop \in Seq(FrameSet)
      /\ Story(Pop, OuterOf(c), ret, arg, sc, WellTypedFunction(program[fn]))
  BY ReturnStory
<1>2. /\ fn \in 1 .. Len(program) /\ OuterOf(c)[1].visible = NoVariables
  BY DEF OnTrack, Going
<1>3. ASSUME sc = Now(c), Return, Sound
      PROVE  Outcome
  <2>1. frames' = Pop /\ node' = NoStm /\ chain' = c
    BY <1>3 DEF Return, Sound
  <2>2. Value(c, node', ret) = sc
    BY <1>3, <2>1 DEF Value
  <2>3. StaysOnTrack
    BY <1>1, <1>2, <2>1, <2>2 DEF StaysOnTrack, Going
  <2> QED BY <1>3, <2>3 DEF Outcome, Sound
<1>4. ASSUME ~ sc.ok, Throw \/ Crash
      PROVE  Outcome
  <2>1. PICK w, o, front : w = WellTypedFunction(program[fn]) /\ o = OuterOf(c) /\ front = Pop
    OBVIOUS
  <2>2. Len(front) \in Nat /\ Story(front, o, ret, arg, sc, w)
    BY <1>1, <2>1
  <2>3. ~ w
    BY <1>4, <2>2, StoryFails
  <2> QED BY <1>2, <1>4, <2>1, <2>3, Raised DEF Wrong, Outcome
<1> QED BY <1>3, <1>4

(* The condition of a do comes last.                                       *)
LEMMA endSDoWhileGood == ASSUME IInv, OnTrack, endSDoWhile PROVE Outcome
<1>1. PICK ret, c, q : /\ ret = program[fn].type /\ c = chain
                       /\ q = OuterOf(c)[Len(OuterOf(c))]
  OBVIOUS
<1>2. /\ node = NoStm /\ Top.stm.op = "SDoWhile" /\ frames # <<>> /\ UNCHANGED <<fn, arg>>
  BY DEF endSDoWhile, Resuming, InFrame, Checking
<1>3. PICK e : e = Top.stm.exps[1]
  OBVIOUS
<1>4. e \in Exp /\ Chain(chain) /\ Now(c) \in Scopes
  BY <1>1, <1>2, <1>3, TopFacts, StmExps, HereFacts
<1>5. PICK sc, tests : sc = Has(e, Bool, Now(c)) /\ tests = <<Test(e, Bool)>>
  OBVIOUS
<1>6. sc \in Scopes /\ sc = Finish(Top, ret, arg, q, Now(c))
  BY <1>2, <1>3, <1>4, <1>5, HasIs DEF Finish
<1>7. \/ Failing(tests) = {} /\ Return /\ Sound
      \/ Failing(tests) # {} /\ (Throw \/ Crash)
  BY <1>3, <1>5 DEF endSDoWhile, Checking
<1>8. /\ Failing(tests) = {} => sc = Now(c)
      /\ Failing(tests) # {} => ~ sc.ok
  BY <1>1, <1>4, <1>5, OneTest
<1>9. \/ sc = Now(c) /\ Return /\ Sound
      \/ ~ sc.ok /\ (Throw \/ Crash)
  BY <1>7, <1>8
<1>10. Top.stm.op \notin ScopeOps
  BY <1>2 DEF ScopeOps
<1> QED BY <1>1, <1>2, <1>6, <1>9, <1>10, ReturnGood

(* The other handlers have nothing left to do.                             *)
LEMMA endGood == ASSUME IInv, OnTrack, endStm \/ endSDecls PROVE Outcome
<1>1. PICK ret, c, q : /\ ret = program[fn].type /\ c = chain
                       /\ q = OuterOf(c)[Len(OuterOf(c))]
  OBVIOUS
<1>2. /\ node = NoStm /\ frames # <<>> /\ UNCHANGED <<fn, arg>> /\ Return /\ Sound
      /\ Top.stm.op \in {"SWhile", "SFor", "SIfElse", "SDecls"} /\ Top.stm.op \notin ScopeOps
  BY DEF endStm, endSDecls, Resuming, InFrame, fixed, Sound, ScopeOps
<1>3. Now(c) \in Scopes /\ Fits(Top, ret, arg, q)
  BY <1>1, HereFacts, HereTop
<1>4. Finish(Top, ret, arg, q, Now(c)) = Now(c)
  <2>1. CASE endSDecls
    <3>1. PICK s, t, steps : /\ s = Top.stm /\ t = findBasicType(types, s.type)
                             /\ steps = EnterNames(s.exps, t)
      OBVIOUS
    <3>2. s.op = "SDecls" /\ Top.pos = Len(s.exps)
      BY <2>1, <3>1 DEF endSDecls, InFrame
    <3>3. s.exps \in Seq(IdIn) /\ t \in DOMAIN types
      BY <1>2, <3>1, <3>2, TopFacts, StmParts DEF TypeKnown
    <3>4. steps \in Seq(Moves) /\ Len(steps) = Len(s.exps)
      BY <3>1, <3>3, EnterNamesMoves
    <3>5. InTurn(steps)[Len(steps)][Now(c)] = Now(c)
      BY <1>3, <3>4, InTurnIs
    <3> QED BY <3>1, <3>2, <3>4, <3>5 DEF Finish
  <2>2. CASE endStm
    <3>1. Top.stm.op \in {"SWhile", "SFor", "SIfElse"} /\ (Top.stm.op = "SIfElse" => Top.pos = 2)
      BY <2>2 DEF endStm, Resuming, InFrame
    <3> QED BY <3>1 DEF Finish
  <2> QED BY <2>1, <2>2 DEF endStm, endSDecls
<1>5. PICK sc : sc = Now(c)
  OBVIOUS
<1> QED BY <1>1, <1>2, <1>3, <1>4, <1>5, ReturnGood

(* An if goes on to its else branch.                                       *)
LEMMA elseSIfElseGood == ASSUME IInv, OnTrack, elseSIfElse PROVE Outcome
<1>1. PICK ret, c, q, f, g : /\ ret = program[fn].type /\ c = chain /\ f = Top
                             /\ q = OuterOf(c)[Len(OuterOf(c))]
                             /\ g = [Top EXCEPT !.pos = @ + 1]
  OBVIOUS
<1>2. /\ node = NoStm /\ f.stm.op = "SIfElse" /\ f.pos = 1 /\ frames # <<>>
      /\ frames' = Append(Pop, g) /\ node' = f.stm.kids[2]
      /\ UNCHANGED <<fn, arg, chain, anyErrors, crashed>>
  BY <1>1 DEF elseSIfElse, Resuming, InFrame, Advance, fixed
<1>3. f.stm.kids[2] \in Stm /\ f.stm.kids[2] # NoStm
  BY <1>1, <1>2, TopFacts, StmParts, TypeCheckAssumption
<1>4. /\ Now(c) \in Scopes /\ Fits(f, ret, arg, q) /\ f \in FrameSet /\ ret \in DOMAIN types
  BY <1>1, HereFacts, HereTop
<1>5. g \in FrameSet /\ g.stm = f.stm /\ g.pos = 2
  BY <1>1, <1>2, <1>4, NextFrame
<1>6. PICK sc : sc = After[f.stm.kids[2]][ret][Now(c)]
  OBVIOUS
<1>7. sc \in Scopes
  <2>1. After[f.stm.kids[2]][ret] \in Moves
    BY <1>3, <1>4, AfterAt
  <2> QED BY <1>4, <1>6, <2>1 DEF Moves
<1>8. Value(c, node', ret) = sc
  BY <1>2, <1>3, <1>6 DEF Value
<1>9. Fits(g, ret, arg, q)
  BY <1>2, <1>4, <1>5 DEF Fits, ScopeOps
<1>10. Finish(f, ret, arg, q, Now(c)) = sc /\ Finish(g, ret, arg, q, sc) = sc
  BY <1>2, <1>5, <1>6 DEF Finish
<1>11. Continues(Top, g, ret, arg, arg', q, Now(c), sc)
  BY <1>1, <1>2, <1>5, <1>9, <1>10 DEF Continues
<1>12. StaysOnTrack
  BY <1>1, <1>2, <1>5, <1>7, <1>8, <1>11, OnGood
<1> QED BY <1>2, <1>12 DEF Outcome

(* One of a list of steps.                                                 *)
LEMMA OneStep ==
  ASSUME NEW steps \in Seq(Moves), NEW k \in Nat, k < Len(steps), NEW sc \in Scopes
  PROVE  /\ InTurn(steps)[k][sc] = InTurn(steps)[k + 1][steps[k + 1][sc]]
         /\ InTurn(steps)[k + 1] \in Moves /\ steps[k + 1][sc] \in Scopes
<1>1. k \in 0 .. Len(steps) - 1 /\ k + 1 \in 0 .. Len(steps) /\ k + 1 \in 1 .. Len(steps)
  OBVIOUS
<1>2. steps[k + 1] \in Moves
  BY <1>1
<1> QED BY <1>1, <1>2, InTurnIs DEF Moves

(* The next statement of a list.                                           *)
LEMMA visitNextGood == ASSUME IInv, OnTrack, visitNext PROVE Outcome
<1>1. PICK ret, c, q, f, g, n :
        /\ ret = program[fn].type /\ c = chain /\ f = Top /\ n = Now(c)
        /\ q = OuterOf(c)[Len(OuterOf(c))]
        /\ g = [Top EXCEPT !.pos = @ + 1]
  OBVIOUS
<1>2. PICK s, kid : s = f.stm /\ kid = s.kids[f.pos + 1]
  OBVIOUS
<1>3. /\ node = NoStm /\ s.op \in {"DFun", "SBlock"} /\ f.pos < Len(s.kids) /\ frames # <<>>
      /\ s.op = "DFun" => arg = Len(s.args)
      /\ frames' = Append(Pop, g) /\ node' = kid
      /\ UNCHANGED <<fn, arg, chain, anyErrors, crashed>>
  BY <1>1, <1>2 DEF visitNext, InList, InFrame, Advance, fixed
<1>4. /\ n \in Scopes /\ Fits(f, ret, arg, q) /\ f \in FrameSet /\ ret \in DOMAIN types
  BY <1>1, HereFacts, HereTop
<1>5. g \in FrameSet /\ g.stm = s /\ g.pos = f.pos + 1 /\ f.pos \in Nat
  BY <1>1, <1>2, <1>4, NextFrame
<1>6. s.kids \in Seq(Stm)
  BY <1>1, <1>2, <1>3, TopFacts, StmParts, FunParts
<1>7. kid \in Stm /\ kid # NoStm
  BY <1>2, <1>3, <1>5, <1>6, TypeCheckAssumption
<1>8. PICK bs, sc : bs = Bodies(s.kids, ret) /\ sc = After[kid][ret][n]
  OBVIOUS
<1>9. /\ bs \in Seq(Moves) /\ Len(bs) = Len(s.kids) /\ bs[f.pos + 1] = After[kid][ret]
  <2>1. f.pos + 1 \in 1 .. Len(s.kids)
    BY <1>3, <1>5, <1>6
  <2> QED BY <1>2, <1>4, <1>6, <1>8, <2>1, BodiesAre
<1>10. /\ InTurn(bs)[f.pos][n] = InTurn(bs)[f.pos + 1][sc] /\ sc \in Scopes
  BY <1>3, <1>4, <1>5, <1>8, <1>9, OneStep
<1>11. Value(c, node', ret) = sc
  BY <1>1, <1>3, <1>7, <1>8 DEF Value
<1>12. Fits(g, ret, arg, q)
  <2>1. g.pos \in 0 .. Len(s.kids)
    BY <1>3, <1>5, <1>6
  <2> QED BY <1>2, <1>3, <1>4, <1>5, <2>1 DEF Fits
<1>13. Finish(f, ret, arg, q, n) = Finish(g, ret, arg, q, sc)
  <2>1. CASE s.op = "SBlock"
    BY <1>2, <1>5, <1>8, <1>10, <2>1 DEF Finish
  <2>2. CASE s.op = "DFun"
    <3>1. PICK as : as = EnterArgs(s.args)
      OBVIOUS
    <3>2. as \in Seq(Moves) /\ Len(as) = Len(s.args)
      BY <1>1, <1>2, <1>3, <2>2, <3>1, TopFacts, FunParts, EnterArgsMoves
    <3>3. InTurn(as)[arg][n] = n /\ InTurn(as)[arg][sc] = sc
      <4>1. \A t \in Scopes : InTurn(as)[Len(as)][t] = t
        BY <3>2, InTurnIs
      <4>2. arg = Len(as)
        BY <1>3, <2>2, <3>2
      <4> QED BY <1>4, <1>10, <4>1, <4>2
    <3>4. Finish(f, ret, arg, q, n) = InTurn(bs)[f.pos][InTurn(as)[arg][n]]
      BY <1>2, <1>8, <2>2, <3>1 DEF Finish
    <3>5. Finish(g, ret, arg, q, sc) = InTurn(bs)[f.pos + 1][InTurn(as)[arg][sc]]
      BY <1>5, <1>8, <2>2, <3>1 DEF Finish
    <3> QED BY <1>10, <3>3, <3>4, <3>5
  <2> QED BY <1>3, <2>1, <2>2
<1>14. Continues(Top, g, ret, arg, arg', q, Now(c), sc)
  BY <1>1, <1>2, <1>3, <1>5, <1>12, <1>13 DEF Continues
<1>15. StaysOnTrack
  BY <1>1, <1>3, <1>5, <1>10, <1>11, <1>14, OnGood
<1> QED BY <1>3, <1>15 DEF Outcome

(* The scope of a chain after addSymbol.                                   *)
LEMMA NameEntered ==
  ASSUME NEW c, Chain(c), NEW x \in Id, NEW t \in DOMAIN types, x \notin DOMAIN c[Len(c)],
         NEW d, d = [c EXCEPT ![Len(c)] = Emplace(c[Len(c)], x, t)]
  PROVE  /\ OuterOf(d) = OuterOf(c)
         /\ Now(d) = Enter(Now(c), x, t)
<1>1. Adds(c, d, x, t)
  BY DEF Adds
<1>2. /\ Table(d) = [Table(c) EXCEPT ![x] = t]
      /\ DOMAIN d[Len(d)] = DOMAIN c[Len(c)] \cup {x}
      /\ OuterOf(d) = OuterOf(c)
  <2>1. Chain(c) /\ x \in Id /\ t \in DOMAIN types /\ Adds(c, d, x, t)
    BY <1>1
  <2> QED BY ONLY <2>1, Declared
<1>3. PICK n, v, l : n = Now(c) /\ v = Table(c) /\ l = DOMAIN c[Len(c)]
  OBVIOUS
<1>4. n \in Scopes /\ n.visible = v /\ n.local = l
  BY <1>3, NowFacts
<1>5. n.ok = TRUE
  BY <1>3 DEF Now, Scope
<1>6. Enter(n, x, t) = Scope([v EXCEPT ![x] = t], l \cup {x}, TRUE)
  <2>1. x \notin n.local
    BY <1>3, <1>4
  <2>2. Enter(n, x, t) = Scope([n.visible EXCEPT ![x] = t], n.local \cup {x}, n.ok)
    BY <1>4, <2>1, EnterIs
  <2> QED BY <1>4, <1>5, <2>2
<1>7. Now(d) = Scope([v EXCEPT ![x] = t], l \cup {x}, TRUE)
  BY <1>2, <1>3 DEF Now
<1> QED BY <1>2, <1>3, <1>6, <1>7

(* An argument.                                                            *)
LEMMA visitADeclGood == ASSUME IInv, OnTrack, visitADecl PROVE Outcome
<1>1. PICK ret, c, q, f, n, d :
        /\ ret = program[fn].type /\ c = chain /\ f = Top /\ n = Now(c) /\ d = chain'
        /\ q = OuterOf(c)[Len(OuterOf(c))]
  OBVIOUS
<1>2. PICK s, a, one : s = f.stm /\ a = arg /\ one = s.args[a + 1]
  OBVIOUS
<1>3. /\ s.op = "DFun" /\ a < Len(s.args) /\ arg' = a + 1
      /\ UNCHANGED <<fn, frames, node, crashed>>
      /\ IF one.name \in DOMAIN c[Len(c)] THEN d = c /\ anyErrors' = TRUE
         ELSE /\ d = [c EXCEPT ![Len(c)] = Emplace(c[Len(c)], one.name, one.type)]
              /\ anyErrors' = anyErrors
  BY <1>1, <1>2 DEF visitADecl, InFrame, Current, addSymbol, IInv, Rest
<1>4. node = NoStm
  BY DEF visitADecl, InFrame
<1>5. /\ n \in Scopes /\ Fits(f, ret, a, q) /\ f \in FrameSet /\ ret \in DOMAIN types /\ Chain(c)
      /\ n.local = DOMAIN c[Len(c)]
  BY <1>1, <1>2, HereFacts, HereTop, NowFacts
<1>6. s \in Function /\ a \in Nat
  BY <1>1, <1>2, <1>3, TopFacts DEF IInv, Rest, OnTrack
<1>7. PICK as, bs, g : /\ as = EnterArgs(s.args)
                       /\ bs = InTurn(Bodies(s.kids, ret))[f.pos]
                       /\ g = Enter(n, one.name, one.type)
  OBVIOUS
<1>8. /\ as \in Seq(Moves) /\ Len(as) = Len(s.args) /\ as[a + 1][n] = g
      /\ one.name \in Id /\ one.type \in DOMAIN types
  <2>1. PICK A : A = [name : Id, type : DOMAIN types \ {TYPE_VOID}]
    OBVIOUS
  <2>4. s.args \in Seq([name : Id, type : DOMAIN types \ {TYPE_VOID}])
    BY <1>6, FunParts
  <2>6. s.args \in Seq(A)
    BY <2>1, <2>4
  <2>2. Len(s.args) \in Nat /\ a + 1 \in 1 .. Len(s.args)
    BY <1>3, <1>6, <2>6
  <2>3. one \in A
    BY <1>2, <2>2, <2>6
  <2>5. /\ as \in Seq(Moves) /\ Len(as) = Len(s.args)
        /\ \A k \in 1 .. Len(s.args) : \A sc \in Scopes :
             as[k][sc] = Enter(sc, s.args[k].name, s.args[k].type)
    BY <1>7, <2>4, EnterArgsMoves
  <2> QED BY <1>2, <1>5, <1>7, <2>1, <2>2, <2>3, <2>5
<1>9. InTurn(as)[a][n] = InTurn(as)[a + 1][g] /\ g \in Scopes
  BY <1>3, <1>5, <1>6, <1>8, OneStep
<1>10. Finish(f, ret, a, q, n) = Finish(f, ret, a + 1, q, g)
  <2>1. /\ Finish(f, ret, a, q, n) = bs[InTurn(as)[a][n]]
        /\ Finish(f, ret, a + 1, q, g) = bs[InTurn(as)[a + 1][g]]
    BY <1>2, <1>3, <1>7 DEF Finish
  <2> QED BY <1>9, <2>1
<1>11. Fits(f, ret, a + 1, q)
  <2>1. s.args \in Seq([name : Id, type : DOMAIN types \ {TYPE_VOID}])
    BY <1>6, FunParts
  <2>2. Len(s.args) \in Nat
    BY <2>1
  <2>3. a + 1 \in 0 .. Len(s.args)
    BY <1>3, <1>6, <2>2
  <2> QED BY <1>2, <1>3, <1>5, <2>3 DEF Fits
<1>12. PICK b : b = a + 1
  OBVIOUS
<1>13. Continues(Top, f, ret, arg, b, q, Now(c), g)
  BY <1>1, <1>2, <1>3, <1>10, <1>11, <1>12 DEF Continues
<1>14. CASE one.name \in DOMAIN c[Len(c)]
  <2>4. one.name \in n.local
    BY <1>5, <1>14
  <2>5. g.ok => one.name \notin n.local
    <3>1. PICK x, t : x = one.name /\ t = one.type
      OBVIOUS
    <3>2. n \in Scopes /\ x \in Id /\ t \in DOMAIN types
      BY <1>5, <1>8, <3>1
    <3>3. Enter(n, x, t).ok => x \notin n.local
      BY ONLY <3>2, EnterIs
    <3> QED BY <1>7, <3>1, <3>3
  <2>1. ~ g.ok
    BY <2>4, <2>5
  <2>2. Wrong
    BY <1>1, <1>4, <1>5, <1>9, <1>13, <2>1, OnWrong
  <2>3. Errs
    BY <1>3, <1>14 DEF Errs
  <2> QED BY <2>2, <2>3 DEF Outcome
<1>15. CASE one.name \notin DOMAIN c[Len(c)]
  <2>1. OuterOf(d) = OuterOf(c) /\ Now(d) = g
    BY <1>1, <1>3, <1>5, <1>7, <1>8, <1>15, NameEntered
  <2>2. Value(d, node', ret) = g
    BY <1>3, <1>4, <2>1 DEF Value
  <2>3. frames' = Append(Pop, f)
    BY <1>1, <1>3, HereFacts, Popped DEF Pop, Top
  <2>4. StaysOnTrack
    BY <1>1, <1>3, <1>4, <1>5, <1>9, <1>12, <1>13, <2>1, <2>2, <2>3, OnGood
  <2> QED BY <1>3, <1>15, <2>4 DEF Outcome
<1> QED BY <1>14, <1>15

(* A name: its initialiser first.                                          *)
LEMMA visitIdInGood == ASSUME IInv, OnTrack, visitIdIn PROVE Outcome
<1>1. PICK ret, c, q, f, n, g :
        /\ ret = program[fn].type /\ c = chain /\ f = Top /\ n = Now(c)
        /\ g = [Top EXCEPT !.pos = @ + 1]
        /\ q = OuterOf(c)[Len(OuterOf(c))]
  OBVIOUS
<1>2. PICK s, id, t : s = f.stm /\ id = s.exps[f.pos + 1] /\ t = findBasicType(types, s.type)
  OBVIOUS
<1>3. PICK tests : tests = IF id.init = NoInit THEN <<>> ELSE <<Test(id.init, Becomes(t))>>
  OBVIOUS
<1>4. /\ node = NoStm /\ s.op = "SDecls" /\ f.pos < Len(s.exps) /\ frames # <<>>
      /\ UNCHANGED <<fn, arg>>
  BY <1>1, <1>2 DEF visitIdIn, InFrame, Checking
<1>5. \/ /\ Failing(tests) = {} /\ id.name \notin DOMAIN c[Len(c)]
         /\ chain' = [c EXCEPT ![Len(c)] = Emplace(c[Len(c)], id.name, t)]
         /\ frames' = Append(Pop, g) /\ node' = NoStm
         /\ UNCHANGED <<anyErrors, crashed>>
      \/ Failing(tests) = {} /\ id.name \in DOMAIN c[Len(c)] /\ Throw
      \/ Failing(tests) # {} /\ (Throw \/ Crash)
  BY <1>1, <1>2, <1>3 DEF visitIdIn, Checking, Current, addSymbol, Advance
<1>6. /\ n \in Scopes /\ Fits(f, ret, arg, q) /\ f \in FrameSet /\ ret \in DOMAIN types /\ Chain(c)
      /\ n.local = DOMAIN c[Len(c)]
  BY <1>1, HereFacts, HereTop, NowFacts
<1>7. g \in FrameSet /\ g.stm = s /\ g.pos = f.pos + 1 /\ f.pos \in Nat
  BY <1>1, <1>2, <1>6, NextFrame
<1>8. s \in Stm /\ s.exps \in Seq(IdIn) /\ t \in DOMAIN types
  BY <1>1, <1>2, <1>4, TopFacts, StmParts DEF TypeKnown
<1>9. f.pos + 1 \in 1 .. Len(s.exps) /\ id \in IdIn
  BY <1>2, <1>4, <1>7, <1>8
<1>10. id.name \in Id /\ (id.init # NoInit => id.init \in Exp)
  BY <1>9 DEF IdIn
<1>11. PICK steps, sc : steps = EnterNames(s.exps, t) /\ sc = EnterIdIn(n, id, t)
  OBVIOUS
<1>12. steps \in Seq(Moves) /\ Len(steps) = Len(s.exps) /\ steps[f.pos + 1][n] = sc
  BY <1>2, <1>6, <1>8, <1>9, <1>11, EnterNamesMoves
<1>13. InTurn(steps)[f.pos][n] = InTurn(steps)[f.pos + 1][sc] /\ sc \in Scopes
  BY <1>4, <1>6, <1>7, <1>12, OneStep
<1>14. Finish(f, ret, arg, q, n) = Finish(g, ret, arg, q, sc)
  BY <1>2, <1>4, <1>7, <1>11, <1>13 DEF Finish
<1>15. Fits(g, ret, arg, q)
  <2>1. g.pos \in 0 .. Len(s.exps)
    BY <1>7, <1>8, <1>9
  <2>2. s.op \notin ScopeOps /\ s.op # "DFun" /\ TypeKnown(s)
    BY <1>1, <1>2, <1>4, TopFacts DEF ScopeOps
  <2> QED BY <1>2, <1>6, <1>7, <2>1, <2>2 DEF Fits
<1>16. PICK b : b = arg
  OBVIOUS
<1>17. Continues(Top, g, ret, arg, b, q, Now(c), sc)
  BY <1>1, <1>2, <1>7, <1>14, <1>15, <1>16 DEF Continues
<1>18. Failing(tests) = {} <=> (id.init # NoInit => TypeIn(id.init, n) \in Becomes(t))
  <2>1. CASE id.init = NoInit
    BY <1>3, <2>1 DEF Failing
  <2>2. CASE id.init # NoInit
    BY <1>1, <1>3, <1>6, <1>10, <2>2, OneTest
  <2> QED BY <2>1, <2>2
<1>19. /\ sc.ok => id.name \notin n.local /\ Failing(tests) = {}
       /\ Failing(tests) = {} => sc = Enter(n, id.name, t)
  BY <1>6, <1>8, <1>9, <1>11, <1>18, EnterIdIs
<1>20. CASE Failing(tests) = {} /\ id.name \notin DOMAIN c[Len(c)]
  <2>1. PICK d, x : d = chain' /\ x = id.name
    OBVIOUS
  <2>2. /\ frames' = Append(Pop, g) /\ node' = NoStm /\ UNCHANGED <<anyErrors, crashed>>
        /\ d = [c EXCEPT ![Len(c)] = Emplace(c[Len(c)], x, t)]
    BY <1>5, <1>20, <2>1
  <2>3. Chain(c) /\ x \in Id /\ t \in DOMAIN types /\ x \notin DOMAIN c[Len(c)]
    BY <1>6, <1>8, <1>10, <1>20, <2>1
  <2>4. OuterOf(d) = OuterOf(c) /\ Now(d) = Enter(n, x, t)
    <3>1. OuterOf(d) = OuterOf(c) /\ Now(d) = Enter(Now(c), x, t)
      BY ONLY <2>2, <2>3, NameEntered, ZenonT(40)
    <3> QED BY <1>1, <3>1
  <2>5. Value(d, node', ret) = sc
    BY <1>19, <1>20, <2>1, <2>2, <2>4 DEF Value
  <2>6. StaysOnTrack
    BY <1>1, <1>4, <1>7, <1>13, <1>16, <1>17, <2>1, <2>2, <2>4, <2>5, OnGood
  <2> QED BY <2>2, <2>6 DEF Outcome
<1>21. CASE ~ (Failing(tests) = {} /\ id.name \notin DOMAIN c[Len(c)])
  <2>1. Throw \/ Crash
    BY <1>5, <1>21
  <2>2. ~ sc.ok
    BY <1>6, <1>19, <1>21
  <2>3. Wrong
    BY <1>1, <1>4, <1>7, <1>13, <1>17, <2>2, OnWrong
  <2> QED BY <2>1, <2>3, Raised DEF Outcome
<1> QED BY <1>20, <1>21

-----------------------------------------------------------------------------
(* Blocks and functions *)

(* A block is left: its scope is put back.                                 *)
LEMMA endSBlockGood == ASSUME IInv, OnTrack, endSBlock PROVE Outcome
<1>1. PICK ret, c, f, d, front, a :
        /\ ret = program[fn].type /\ c = chain /\ f = frames[Len(frames)] /\ d = chain'
        /\ front = SubSeq(frames, 1, Len(frames) - 1) /\ a = arg
  OBVIOUS
<1>2. PICK up, o, q, w, n : /\ up = OuterOf(c) /\ o = OuterOf(d) /\ q = up[Len(up)]
                            /\ w = WellTypedFunction(program[fn]) /\ n = Now(c)
  OBVIOUS
<1>3. /\ node = NoStm /\ node' = NoStm /\ f.stm.op = "SBlock" /\ f.pos = Len(f.stm.kids)
      /\ frames # <<>> /\ frames' = front /\ d = SubSeq(c, 1, Len(c) - 1)
      /\ UNCHANGED <<program, fn, arg, anyErrors, crashed>>
  BY <1>1 DEF endSBlock, ListDone, InList, InFrame, endContext, Return, fixed, Top, Pop
<1>4. /\ Chain(c) /\ StackOK(frames) /\ ret \in DOMAIN types /\ n \in Scopes /\ up \in Seq(Saved)
      /\ fn \in 1 .. Len(program) /\ Story(frames, up, ret, a, n, w)
  <2>1. Value(c, node, ret) = n
    BY <1>2, <1>3 DEF Value
  <2> QED BY <1>1, <1>2, <2>1, HereFacts
<1>5. /\ front \in Seq(FrameSet) /\ f \in FrameSet /\ frames = Append(front, f)
      /\ front # <<>>
  BY <1>1, <1>3, <1>4, Popped DEF StackOK
<1>6. Len(up) \in Nat /\ Len(up) >= 1 /\ up[1].visible = NoVariables
  BY <1>1, <1>2, HereTop
<1>7. Len(c) > 1 /\ Len(up) = Len(c) - 1 /\ Len(c) \in Nat
  BY <1>2, <1>4, <1>6, NowFacts, ChainFacts
<1>8. /\ Table(d) = q.visible /\ DOMAIN d[Len(d)] = q.local
      /\ o = SubSeq(up, 1, Len(up) - 1)
  BY <1>2, <1>3, <1>4, <1>7, Closed
<1>9. Chain(d)
  <2>1. /\ c \in Seq(Maps) /\ Len(c) - 1 \in Nat /\ Len(c) - 1 <= Len(c)
    BY <1>4, ChainFacts
  <2>2. d \in Seq(Maps) /\ Len(d) = Len(c) - 1
    BY <1>3, <2>1, PrefixFacts
  <2> QED BY <1>7, <2>2 DEF Chain
<1>10. Now(d) \in Scopes /\ Now(d) = Scope(q.visible, q.local, TRUE) /\ o \in Seq(Saved)
  BY <1>2, <1>8, <1>9, NowFacts DEF Now
<1>11. Len(up) = Len(o) + 1 /\ Len(o) \in Nat /\ \A j \in 1 .. Len(o) : up[j] = o[j]
  <2>1. PICK k : k = Len(up) - 1
    OBVIOUS
  <2>2. k \in Nat /\ k <= Len(up) /\ Len(up) = k + 1
    BY <1>6, <2>1
  <2>3. up \in Seq(Saved) /\ o = SubSeq(up, 1, k)
    BY <1>4, <1>8, <2>1
  <2>4. Len(o) = k /\ \A j \in 1 .. k : o[j] = up[j]
    BY <2>2, <2>3, PrefixFacts
  <2> QED BY <2>2, <2>4
<1>12. Above(f, front, o, up)
  BY <1>3, <1>11 DEF Above, ScopeOps
<1>13. PICK b : b = a
  OBVIOUS
<1>14. b = a \/ front = <<>>
  BY <1>13
<1>15. q = up[Len(up)]
  BY <1>2
<1>16. Story(front, o, ret, b, Finish(f, ret, a, q, n), w)
  BY ONLY <1>4, <1>5, <1>10, <1>12, <1>14, <1>15, StoryCall
<1>17. Finish(f, ret, a, q, n) = Now(d)
  <2>1. f.stm.kids \in Seq(Stm)
    BY <1>1, <1>3, TopFacts, StmParts DEF Top
  <2>2. PICK bs : bs = Bodies(f.stm.kids, ret)
    OBVIOUS
  <2>3. bs \in Seq(Moves) /\ Len(bs) = Len(f.stm.kids)
    BY <1>4, <2>1, <2>2, BodiesAre
  <2>4. InTurn(bs)[Len(bs)][n] = n
    BY <1>4, <2>3, InTurnIs
  <2>5. n.ok = TRUE
    BY <1>2 DEF Now, Scope
  <2>6. Finish(f, ret, a, q, n) = Scope(q.visible, q.local, InTurn(bs)[f.pos][n].ok)
    BY <1>3, <2>2 DEF Finish
  <2> QED BY <1>3, <1>10, <2>3, <2>4, <2>5, <2>6
<1>18. o[1].visible = NoVariables
  <2>1. Len(o) >= 1
    BY <1>5, <1>16, StoryTop
  <2> QED BY <1>6, <1>11, <2>1
<1>19. Value(d, node', ret) = Now(d)
  BY <1>3 DEF Value
<1>20. StaysOnTrack
  BY <1>1, <1>2, <1>3, <1>4, <1>5, <1>13, <1>16, <1>17, <1>18, <1>19 DEF StaysOnTrack, Going
<1> QED BY <1>3, <1>20 DEF Outcome

(* A function is left: what its statements left decides.                   *)
LEMMA endDFunGood ==
  ASSUME IInv, OnTrack, endDFun
  PROVE  /\ frames' = <<>> /\ node' = NoStm /\ UNCHANGED <<program, fn, anyErrors, crashed>>
         /\ Table(chain') = NoVariables /\ Len(chain') = 1
         /\ fn \in 1 .. Len(program) /\ WellTypedFunction(program[fn])
<1>1. PICK ret, c, f, d, front, a :
        /\ ret = program[fn].type /\ c = chain /\ f = frames[Len(frames)] /\ d = chain'
        /\ front = SubSeq(frames, 1, Len(frames) - 1) /\ a = arg
  OBVIOUS
<1>2. PICK up, o, q, w, n : /\ up = OuterOf(c) /\ o = OuterOf(d) /\ q = up[Len(up)]
                            /\ w = WellTypedFunction(program[fn]) /\ n = Now(c)
  OBVIOUS
<1>3. /\ node = NoStm /\ node' = NoStm /\ f.stm.op = "DFun" /\ f.pos = Len(f.stm.kids)
      /\ a = Len(f.stm.args)
      /\ frames # <<>> /\ frames' = front /\ d = SubSeq(c, 1, Len(c) - 1)
      /\ UNCHANGED <<program, fn, anyErrors, crashed>>
  BY <1>1 DEF endDFun, ListDone, InList, InFrame, endContext, Return, fixed, Top, Pop
<1>4. /\ Chain(c) /\ StackOK(frames) /\ ret \in DOMAIN types /\ n \in Scopes /\ up \in Seq(Saved)
      /\ fn \in 1 .. Len(program) /\ Story(frames, up, ret, a, n, w)
      /\ Len(c) = 1 + ScopeCount(frames)
  <2>1. Value(c, node, ret) = n
    BY <1>2, <1>3 DEF Value
  <2> QED BY <1>1, <1>2, <2>1, HereFacts, InvFacts
<1>5. /\ front \in Seq(FrameSet) /\ f \in FrameSet /\ frames = Append(front, f)
      /\ front = <<>>
  BY <1>1, <1>3, <1>4, Popped DEF StackOK
<1>6. Len(up) \in Nat /\ Len(up) >= 1 /\ up[1].visible = NoVariables
  BY <1>1, <1>2, HereTop
<1>7. Len(c) > 1 /\ Len(up) = Len(c) - 1 /\ Len(c) \in Nat
  BY <1>2, <1>4, <1>6, NowFacts, ChainFacts
<1>8. /\ Table(d) = q.visible /\ DOMAIN d[Len(d)] = q.local
      /\ o = SubSeq(up, 1, Len(up) - 1)
  BY <1>2, <1>3, <1>4, <1>7, Closed
<1>9. Chain(d) /\ Len(d) = Len(c) - 1
  <2>1. c \in Seq(Maps) /\ Len(c) - 1 \in Nat /\ Len(c) - 1 <= Len(c)
    BY <1>4, ChainFacts
  <2>2. d \in Seq(Maps) /\ Len(d) = Len(c) - 1
    BY <1>3, <2>1, PrefixFacts
  <2> QED BY <1>7, <2>2 DEF Chain
<1>10. o \in Seq(Saved)
  BY <1>2, <1>9, NowFacts
<1>11. Len(up) = Len(o) + 1 /\ Len(o) \in Nat /\ \A j \in 1 .. Len(o) : up[j] = o[j]
  <2>1. PICK k : k = Len(up) - 1
    OBVIOUS
  <2>2. k \in Nat /\ k <= Len(up) /\ Len(up) = k + 1
    BY <1>6, <2>1
  <2>3. up \in Seq(Saved) /\ o = SubSeq(up, 1, k)
    BY <1>4, <1>8, <2>1
  <2>4. Len(o) = k /\ \A j \in 1 .. k : o[j] = up[j]
    BY <2>2, <2>3, PrefixFacts
  <2> QED BY <2>2, <2>4
<1>12. Above(f, front, o, up)
  BY <1>3, <1>11 DEF Above, ScopeOps
<1>13. PICK b : b = a
  OBVIOUS
<1>14. b = a \/ front = <<>>
  BY <1>13
<1>15. q = up[Len(up)]
  BY <1>2
<1>16. Story(front, o, ret, b, Finish(f, ret, a, q, n), w)
  BY ONLY <1>4, <1>5, <1>10, <1>12, <1>14, <1>15, StoryCall
<1>17. Finish(f, ret, a, q, n) = n
  <2>1. f.stm \in Function
    BY <1>1, <1>3, TopFacts DEF Top
  <2>2. PICK bs, as : bs = Bodies(f.stm.kids, ret) /\ as = EnterArgs(f.stm.args)
    OBVIOUS
  <2>3. f.stm.kids \in Seq(Stm)
    BY <2>1, FunParts
  <2>4. bs \in Seq(Moves) /\ Len(bs) = Len(f.stm.kids)
    BY <1>4, <2>2, <2>3, BodiesAre
  <2>5. as \in Seq(Moves) /\ Len(as) = Len(f.stm.args)
    BY <2>1, <2>2, FunParts, EnterArgsMoves
  <2>6. InTurn(bs)[Len(bs)][n] = n /\ InTurn(as)[Len(as)][n] = n
    BY <1>4, <2>4, <2>5, InTurnIs
  <2>7. Finish(f, ret, a, q, n) = InTurn(bs)[f.pos][InTurn(as)[a][n]]
    BY <1>3, <2>2 DEF Finish
  <2> QED BY <1>3, <2>4, <2>5, <2>6, <2>7
<1>18. Len(o) = 0
  <2>1. PICK G, L : /\ Rests(front, Len(front), o, ret, b, G, L)
                    /\ L[Len(front)] = Len(o)
    BY <1>16 DEF Story
  <2>2. L[0] = 0 /\ Len(front) = 0
    BY <1>5, <2>1 DEF Rests
  <2> QED BY <2>1, <2>2
<1>19. w
  <2>1. o = <<>>
    BY <1>10, <1>18
  <2>2. n.ok = TRUE
    BY <1>2 DEF Now, Scope
  <2>3. Story(<<>>, <<>>, ret, b, n, w)
    BY <1>5, <1>16, <1>17, <2>1
  <2> QED BY <1>4, <2>2, <2>3, StoryEmpty
<1>20. Len(up) = 1 /\ Len(d) = 1 /\ q = up[1]
  <2>1. Len(up) = 0 + 1
    BY <1>11, <1>18
  <2>2. Len(up) = 1
    BY <2>1
  <2> QED BY <1>2, <1>7, <1>9, <2>2
<1> QED BY <1>1, <1>2, <1>3, <1>4, <1>5, <1>6, <1>8, <1>19, <1>20

(* A function is entered: what is left to do is to judge it.               *)
LEMMA visitDFunGood ==
  ASSUME IInv, visitDFun, Table(chain) = NoVariables, Len(chain) = 1
  PROVE  /\ frames' # <<>> /\ fn' \in 1 .. Len(program) /\ fn' = fn + 1
         /\ UNCHANGED <<program, anyErrors, crashed>>
         /\ Going(program, fn', arg', frames', node', chain')
<1>1. PICK k, F, c, d : k = fn + 1 /\ F = program[fn + 1] /\ c = chain /\ d = chain'
  OBVIOUS
<1>2. PICK ret, f, q, w : /\ ret = F.type /\ f = Frame(F, 0) /\ w = WellTypedFunction(F)
                          /\ q = [visible |-> Table(c), local |-> DOMAIN c[Len(c)]]
  OBVIOUS
<1>3. /\ fn < Len(program) /\ fn' = k /\ arg' = 0 /\ frames' = <<f>> /\ node' = NoStm
      /\ d = Append(c, NoMembers) /\ UNCHANGED <<program, anyErrors, crashed>>
  BY <1>1, <1>2 DEF visitDFun, beginContext
<1>4. k \in 1 .. Len(program) /\ F \in Function /\ Chain(c) /\ Len(c) = 1
  <2>1. program \in Seq(Function) /\ fn \in 0 .. Len(program) /\ Len(program) \in Nat
    BY DEF IInv, Rest
  <2>2. k \in 1 .. Len(program)
    BY <1>1, <1>3, <2>1
  <2>3. F \in Function
    BY <1>1, <2>1, <2>2
  <2>4. Chain(c) /\ Len(c) = 1
    BY <1>1, InvFacts DEF Chain
  <2> QED BY <2>2, <2>3, <2>4
<1>5. /\ ret \in DOMAIN types /\ F.kids \in Seq(Stm)
      /\ F.args \in Seq([name : Id, type : DOMAIN types \ {TYPE_VOID}])
      /\ F.op = "DFun"
  BY <1>2, <1>4, FunParts DEF Function
<1>6. /\ f \in FrameSet /\ f.stm = F /\ f.pos = 0
  BY <1>2, <1>4 DEF Frame, FrameSet
<1>7. /\ Table(d) = NoVariables /\ DOMAIN d[Len(d)] = {} /\ OuterOf(d) = Append(OuterOf(c), q)
  BY <1>1, <1>2, <1>3, <1>4, Opened
<1>8. PICK o, up, n : o = OuterOf(c) /\ up = OuterOf(d) /\ n = Now(d)
  OBVIOUS
<1>9. Chain(d)
  BY <1>3, <1>4, NoMembersMap DEF Chain
<1>10. o \in Seq(Saved) /\ Len(o) = 0 /\ up \in Seq(Saved) /\ n \in Scopes
  BY <1>4, <1>8, <1>9, NowFacts
<1>11. o = <<>>
  BY <1>10
<1>12. up = <<q>> /\ Len(up) = 1 /\ up[1] = q /\ q \in Saved
  <2>1. up = Append(<<>>, q)
    BY <1>7, <1>8, <1>11
  <2>2. up = <<q>> /\ Len(up) = 1 /\ up[1] = q
    BY <2>1
  <2>3. 1 \in 1 .. Len(up)
    BY <2>2
  <2> QED BY <1>10, <2>2, <2>3
<1>13. q.visible = NoVariables
  BY <1>1, <1>2
<1>14. n = Scope(NoVariables, {}, TRUE)
  BY <1>7, <1>8 DEF Now
<1>15. PICK bs, as : bs = Bodies(F.kids, ret) /\ as = EnterArgs(F.args)
  OBVIOUS
<1>16. Finish(f, ret, 0, q, n) = InTurn(bs)[0][InTurn(as)[0][n]]
  BY <1>5, <1>6, <1>15 DEF Finish
<1>17. w <=> Finish(f, ret, 0, q, n).ok
  BY <1>2, <1>14, <1>15, <1>16 DEF WellTypedFunction
<1>18. PICK sc : sc = Finish(f, ret, 0, q, n)
  OBVIOUS
<1>19. Fits(f, ret, 0, q)
  <2>1. /\ f.pos \in 0 .. Len(f.stm.kids) /\ 0 \in 0 .. Len(f.stm.args)
    <3>1. Len(F.kids) \in Nat
      BY <1>5
    <3>2. PICK A : A = [name : Id, type : DOMAIN types \ {TYPE_VOID}]
      OBVIOUS
    <3>3. F.args \in Seq(A)
      BY <1>5, <3>2
    <3>4. Len(F.args) \in Nat
      BY <3>3
    <3> QED BY <1>6, <3>1, <3>4
  <2>2. TypeKnown(F)
    BY <1>5 DEF TypeKnown
  <2> QED BY <1>5, <1>6, <1>12, <2>1, <2>2 DEF Fits
<1>20. sc \in Scopes
  BY <1>10, <1>18, <1>19, FinishMoves
<1>21. PICK fr \in Seq(FrameSet) : fr = <<>>
  <2>1. <<>> \in Seq(FrameSet)
    OBVIOUS
  <2> QED BY <2>1
<1>22. Story(fr, o, ret, 0, sc, w)
  BY <1>11, <1>17, <1>18, <1>20, <1>21, StoryEmpty
<1>23. PICK top : top = Append(fr, f)
  OBVIOUS
<1>24. Above(f, fr, o, up)
  BY <1>5, <1>6, <1>10, <1>12 DEF Above, ScopeOps
<1>25. q = up[Len(up)]
  BY <1>12
<1>26. PICK a, b : a = 0 /\ b = 0
  OBVIOUS
<1>27. b = a \/ fr = <<>>
  BY <1>26
<1>28. Fits(f, ret, b, q) /\ Story(fr, o, ret, a, Finish(f, ret, b, q, n), w)
  BY <1>18, <1>19, <1>22, <1>26
<1>29. Story(top, up, ret, b, n, w)
  BY ONLY <1>6, <1>10, <1>21, <1>23, <1>24, <1>25, <1>27, <1>28, StoryCall, ZenonT(40)
<1>30. top = <<f>> /\ <<f>> # <<>>
  BY <1>21, <1>23
<1>31. Value(d, node', ret) = n
  BY <1>3, <1>8 DEF Value
<1> QED BY <1>1, <1>2, <1>3, <1>4, <1>8, <1>12, <1>13, <1>26, <1>29, <1>30, <1>31 DEF Going

-----------------------------------------------------------------------------
(* The verdict *)

(* The function that is being checked will be judged as the rest of it     *)
(* decides; those before it were well typed; and an error is the fault of  *)
(* the program.                                                            *)
Clean ==
  /\ \A i \in 1 .. fn : i < fn \/ frames = <<>> => WellTypedFunction(program[i])
  /\ frames = <<>> => Table(chain) = NoVariables
  /\ frames # <<>> => OnTrack

Verdict == IF anyErrors \/ crashed THEN ~ WellTyped(program) ELSE Clean

(* Every handler does what the judgement says of what it was called for.   *)
LEMMA HereStep ==
  ASSUME IInv, OnTrack, Next, ~ endDFun
  PROVE  Outcome /\ UNCHANGED <<program, fn>>
<1>1. ~ visitDFun
  BY DEF visitDFun, OnTrack
<1>2. Outcome
  BY <1>1, visitADeclGood, visitNextGood, visitSBlockGood, endSBlockGood, LeafGood,
     visitSDeclsGood, visitIdInGood, endGood, visitSWhileGood, visitSDoWhileGood,
     endSDoWhileGood, visitSForGood, visitSIfElseGood, elseSIfElseGood DEF Next
<1>3. UNCHANGED <<program, fn>>
  BY <1>1 DEF Next, visitADecl, visitNext, visitSBlock, endSBlock, visitSExp, visitSReturn,
     visitSReturnV, visitSDecls, visitIdIn, endSDecls, visitSWhile, visitSDoWhile, endSDoWhile,
     visitSFor, visitSIfElse, elseSIfElse, endStm, Checking, fixed
<1> QED BY <1>2, <1>3

(* No step changes the program, or takes back an error.                    *)
LEMMA Remembered ==
  ASSUME IInv, Next
  PROVE  UNCHANGED program /\ ~ crashed /\ (anyErrors => anyErrors')
<1>1. /\ Throw => anyErrors'
      /\ Crash \/ Sound => UNCHANGED anyErrors
  BY DEF Throw, Crash, Sound
<1>2. CASE visitDFun \/ visitNext \/ endDFun \/ visitSBlock \/ endSBlock \/ endSDecls
           \/ visitSDoWhile \/ elseSIfElse \/ endStm
  BY <1>2 DEF visitDFun, visitNext, endDFun, visitSBlock, endSBlock, endSDecls, visitSDoWhile,
     elseSIfElse, endStm, fixed, ListDone, InList, InFrame, Resuming, Entering
<1>3. CASE visitADecl
  BY <1>3 DEF visitADecl, InFrame
<1>4. CASE visitSExp \/ visitSReturn \/ visitSReturnV \/ visitSDecls
  BY <1>1, <1>4 DEF visitSExp, visitSReturn, visitSReturnV, visitSDecls, Checking, Entering
<1>5. CASE visitSWhile \/ endSDoWhile \/ visitSFor \/ visitSIfElse
  BY <1>1, <1>5 DEF visitSWhile, endSDoWhile, visitSFor, visitSIfElse, Checking, Entering,
     Resuming, InFrame
<1>6. CASE visitIdIn
  <2>1. ~ crashed /\ UNCHANGED program /\ (Throw \/ Crash \/ UNCHANGED anyErrors)
    BY <1>6 DEF visitIdIn, Checking, InFrame
  <2> QED BY <1>1, <2>1
<1> QED BY <1>2, <1>3, <1>4, <1>5, <1>6 DEF Next

(* Every step keeps the verdict so far.                                    *)
LEMMA VerdictStep == ASSUME IInv, Verdict, [Next]_vars PROVE Verdict'
<1>1. /\ Table(chain)' = Table(chain')
      /\ WellTyped(program)' <=> WellTyped(program')
      /\ OnTrack' <=> frames' # <<>> /\ Going(program', fn', arg', frames', node', chain')
      /\ \A i : WellTypedFunction(program[i])' <=> WellTypedFunction(program'[i])
  BY DEF OnTrack
<1>2. CASE UNCHANGED vars
  <2>1. OnTrack' <=> OnTrack
    BY <1>1, <1>2 DEF vars, OnTrack
  <2>2. Clean' <=> Clean
    BY <1>1, <1>2, <2>1 DEF vars, Clean
  <2> QED BY <1>1, <1>2, <2>2 DEF vars, Verdict
<1>3. CASE Next
  <2>1. program' = program /\ ~ crashed /\ (anyErrors => anyErrors')
    BY <1>3, Remembered
  <2>2. CASE anyErrors
    BY <1>1, <2>1, <2>2 DEF Verdict
  <2>3. CASE ~ anyErrors /\ visitDFun
    <3>1. /\ fn \in Nat /\ frames = <<>> /\ Clean
      BY <2>1, <2>3 DEF visitDFun, Verdict, IInv, Rest
    <3>2. Len(chain) = 1
      <4>1. ScopeFrames(frames) = {}
        BY <3>1 DEF ScopeFrames
      <4>2. ScopeCount(frames) = 0
        BY <4>1, FS_EmptySet DEF ScopeCount
      <4> QED BY <4>2, InvFacts
    <3>3. Table(chain) = NoVariables
      BY <3>1 DEF Clean
    <3>4. /\ frames' # <<>> /\ fn' = fn + 1 /\ UNCHANGED <<program, anyErrors, crashed>>
          /\ Going(program, fn', arg', frames', node', chain')
      BY <2>3, <3>2, <3>3, visitDFunGood
    <3>5. OnTrack'
      BY <1>1, <3>4
    <3>6. \A i \in 1 .. fn' : i < fn' => WellTypedFunction(program'[i])
      <4>1. \A i \in 1 .. fn' : i < fn' => i \in 1 .. fn
        BY <3>1, <3>4
      <4>2. \A i \in 1 .. fn : WellTypedFunction(program[i])
        BY <3>1 DEF Clean
      <4> QED BY <3>4, <4>1, <4>2
    <3>7. Clean'
      BY <1>1, <3>4, <3>5, <3>6 DEF Clean
    <3> QED BY <2>1, <2>3, <3>4, <3>7 DEF Verdict
  <2>4. CASE ~ anyErrors /\ ~ visitDFun /\ frames = <<>>
    <3>1. node = NoStm
      BY <2>4 DEF IInv, Rest
    <3> QED BY <1>3, <2>4, <3>1 DEF Next, visitADecl, visitNext, endDFun, visitSBlock, endSBlock,
        visitSExp, visitSReturn, visitSReturnV, visitSDecls, visitIdIn, endSDecls, visitSWhile,
        visitSDoWhile, endSDoWhile, visitSFor, visitSIfElse, elseSIfElse, endStm, Entering,
        Resuming, ListDone, InList, InFrame
  <2>5. CASE ~ anyErrors /\ frames # <<>> /\ endDFun
    <3>1. /\ OnTrack /\ fn \in Nat
          /\ \A i \in 1 .. fn : i < fn => WellTypedFunction(program[i])
      BY <2>1, <2>5 DEF Verdict, Clean, IInv, Rest
    <3>2. /\ frames' = <<>> /\ UNCHANGED <<program, fn, anyErrors, crashed>>
          /\ Table(chain') = NoVariables /\ WellTypedFunction(program[fn])
      BY <2>5, <3>1, endDFunGood
    <3>3. \A i \in 1 .. fn : i < fn \/ i = fn
      BY <3>1
    <3>4. \A i \in 1 .. fn' : WellTypedFunction(program'[i])
      BY <3>1, <3>2, <3>3
    <3>5. Clean'
      BY <1>1, <3>2, <3>4 DEF Clean
    <3> QED BY <2>1, <2>5, <3>2, <3>5 DEF Verdict
  <2>6. CASE ~ anyErrors /\ frames # <<>> /\ ~ endDFun
    <3>1. /\ OnTrack /\ \A i \in 1 .. fn : i < fn => WellTypedFunction(program[i])
      BY <2>1, <2>6 DEF Verdict, Clean
    <3>2. Outcome /\ UNCHANGED <<program, fn>>
      BY <1>3, <2>6, <3>1, HereStep
    <3>3. CASE StaysOnTrack /\ UNCHANGED <<anyErrors, crashed>>
      <4>1. OnTrack' /\ frames' # <<>>
        BY <1>1, <3>2, <3>3 DEF StaysOnTrack
      <4>2. Clean'
        BY <1>1, <3>1, <3>2, <4>1 DEF Clean
      <4> QED BY <2>1, <2>6, <3>3, <4>2 DEF Verdict
    <3>4. CASE Wrong /\ Errs
      <4>1. ~ WellTyped(program)
        <5>1. DOMAIN program = 1 .. Len(program)
          BY DEF IInv, Rest
        <5> QED BY <3>4, <5>1 DEF Wrong, WellTyped
      <4> QED BY <1>1, <3>2, <3>4, <4>1 DEF Verdict, Errs
    <3> QED BY <3>2, <3>3, <3>4 DEF Outcome
  <2> QED BY <2>2, <2>3, <2>4, <2>5, <2>6
<1> QED BY <1>2, <1>3

(* Nothing has been judged yet.                                            *)
LEMMA InitVerdict == Init => Verdict
<1> SUFFICES ASSUME Init PROVE Verdict
  OBVIOUS
<1>1. fn = 0 /\ frames = <<>> /\ ~ anyErrors /\ ~ crashed /\ chain = <<NoMembers>>
  BY DEF Init
<1>2. \A x : Holders(chain, x) = {}
  BY <1>1, NoMembersMap DEF Holders
<1>3. Table(chain) = NoVariables
  BY <1>2 DEF Table, findSymbol, NoVariables
<1>4. \A i \in 1 .. 0 : FALSE
  OBVIOUS
<1>5. Clean
  BY <1>1, <1>3, <1>4 DEF Clean
<1> QED BY <1>1, <1>5 DEF Verdict

(* In every state, an error or a crash means that the program is not well  *)
(* typed; without one, all functions that are behind are well typed, and   *)
(* the handlers on the stack will do to the Contexts what the judgement    *)
(* says of the statements that are left, in spite of the exceptions that   *)
(* the inner loops have caught before (TypeCheckVisitor.cpp:131-139).      *)
THEOREM VerdictSoFar == Spec => []Verdict
<1>1. Init => Verdict
  BY InitVerdict
<1>2. IInv /\ Verdict /\ [Next]_vars => Verdict'
  BY VerdictStep
<1> QED BY <1>1, <1>2, Invariance, PTL DEF Spec

LEMMA VerdictIs == ASSUME IInv, Verdict PROVE AcceptsExactlyWellTyped
<1> SUFFICES ASSUME Done, ~ crashed
             PROVE  anyErrors <=> ~ WellTyped(program)
  BY DEF AcceptsExactlyWellTyped
<1>1. CASE anyErrors
  BY <1>1 DEF Verdict
<1>2. CASE ~ anyErrors
  <2>1. Clean /\ fn = Len(program) /\ frames = <<>>
    BY <1>2 DEF Verdict, Done
  <2>2. DOMAIN program = 1 .. fn
    BY <2>1 DEF IInv, Rest
  <2> QED BY <1>2, <2>1, <2>2 DEF Clean, WellTyped
<1> QED BY <1>1, <1>2

(* main.cpp:22-27 hands exactly the well-typed programs to the code        *)
(* generator: when the visitor is done, anyErrors says that the program is *)
(* not well typed, whatever it is nested in.                               *)
THEOREM JudgesPrograms == Spec => []AcceptsExactlyWellTyped
<1>1. IInv /\ Verdict => AcceptsExactlyWellTyped
  BY VerdictIs
<1> QED BY <1>1, VerdictSoFar, Invariance, PTL

(* The type checker looks a name up behind its outermost Context (a parent *)
(* that is not set, Context.h:16-40) only when the program is not well     *)
(* typed.                                                                  *)
THEOREM CrashIsProgramsFault == Spec => []CrashesOnIllTyped
<1>1. Verdict => CrashesOnIllTyped
  BY DEF Verdict, CrashesOnIllTyped
<1> QED BY <1>1, VerdictSoFar, PTL
=============================================================================
