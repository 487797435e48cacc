------------------------------- MODULE Context -------------------------------
(***************************************************************************)
(* Context and Types: the types a program knows and the signatures of its  *)
(* functions, as kept by the default context.                              *)
(*                                                                         *)
(* A const BasicType pointer is a position in the vector types, nullptr is *)
(* 0: types are compared by address everywhere in the compiler, never by   *)
(* name, and the vector only grows.  The scopes below the default context  *)
(* are in module TypeCheck.                                                *)
(***************************************************************************)
EXTENDS Naturals, Sequences

CONSTANT Id    \* identifiers of the program: types, functions, fields

null == 0

TYPE_INT    == 1
TYPE_DOUBLE == 2
TYPE_BOOL   == 3
TYPE_VOID   == 4

BasicIds == {"int", "double", "bool", "void"}

(* The grammar keeps keywords out of Id.                                   *)
ASSUME IdAssumption == Id \cap BasicIds = {}

TypeId == Id \cup BasicIds

(* A type has a name and, for structs, members: field names to types.      *)
NoMembers == [n \in {} |-> null]

BasicType(id) == [id |-> id, members |-> NoMembers]

StructType(id, members) == [id |-> id, members |-> members]

(* getDefaultContext                                                       *)
DefaultTypes ==
  <<BasicType("int"), BasicType("double"), BasicType("bool"), BasicType("void")>>

Matches(types, id) == {t \in DOMAIN types : types[t].id = id}

(* The first type of that name; the vector is searched from the front.     *)
findBasicType(types, id) ==
  IF Matches(types, id) = {} THEN null
  ELSE CHOOSE t \in Matches(types, id) : \A u \in Matches(types, id) : t <= u

(* map::emplace: an entry that exists is kept.                             *)
Emplace(map, key, value) ==
  [k \in DOMAIN map \cup {key} |-> IF k \in DOMAIN map THEN map[k] ELSE value]

(* map::operator[] on every key of keys: null where there was no entry.    *)
Subscript(map, keys) ==
  [k \in DOMAIN map \cup keys |-> IF k \in DOMAIN map THEN map[k] ELSE null]
=============================================================================
