---------------------------- MODULE LexicalScope ----------------------------
(***************************************************************************)
(* What a chain of Contexts promises its users: one table of what every    *)
(* name means now.  Opening a scope remembers the table, declaring changes *)
(* one entry of it, closing puts back what was remembered.  There is no    *)
(* chain here, and looking a name up is one application of the table.      *)
(***************************************************************************)
EXTENDS Naturals, Sequences

CONSTANTS
  Name,
  Meaning,
  Unknown     \* the meaning of a name that is not declared

VARIABLES
  visible,    \* what each name means
  local,      \* the names declared since the innermost scope was opened
  outer       \* what closing restores, one entry per open scope

vars == <<visible, local, outer>>

Init ==
  /\ visible = [x \in Name |-> Unknown]
  /\ local = {}
  /\ outer = <<>>

Open ==
  /\ outer' = Append(outer, [visible |-> visible, local |-> local])
  /\ local' = {}
  /\ UNCHANGED visible

Close ==
  /\ outer # <<>>
  /\ visible' = outer[Len(outer)].visible
  /\ local' = outer[Len(outer)].local
  /\ outer' = SubSeq(outer, 1, Len(outer) - 1)

(* A name is declared once per scope.                                      *)
Declare(x, m) ==
  /\ x \notin local
  /\ visible' = [visible EXCEPT ![x] = m]
  /\ local' = local \cup {x}
  /\ UNCHANGED outer

Next == Open \/ Close \/ \E x \in Name, m \in Meaning : Declare(x, m)

Spec == Init /\ [][Next]_vars
=============================================================================
