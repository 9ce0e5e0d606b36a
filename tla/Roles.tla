------------------------------- MODULE Roles --------------------------------
(***************************************************************************)
(* libprocess and libthread: the roles of a process, child, parent or      *)
(* thread, a bitmap of enumerators, and its relations.  The pages of a     *)
(* bitmap come from malloc: a role holds whatever it was not told.  Where  *)
(* one bitmap is applied to another, the loop over the other's bits takes  *)
(* the truth of Find1() != 0 for a bit, so it looks at bit 1 for ever.     *)
(***************************************************************************)
EXTENDS Naturals

CONSTANTS Objects, EnumEnd      \* enumerators 1..EnumEnd - 1

VARIABLES
  library,              \* whose roles the objects are
  made,
  role_,
  relation_,
  known, told,          \* enumerators set or unset by name; those that were set
  looping               \* a call that does not return: its object, or {}

vars == <<library, made, role_, relation_, known, told, looping>>

Types == 1..EnumEnd - 1
Bits == 1..EnumEnd

Init ==
  /\ library \in {"process", "thread"}
  /\ made = {} /\ looping = {}
  /\ role_ = [o \in Objects |-> {}] /\ relation_ = [o \in Objects |-> 0]
  /\ known = [o \in Objects |-> {}] /\ told = [o \in Objects |-> {}]

Put(o, role, of, by) ==
  /\ role_' = [role_ EXCEPT ![o] = role]
  /\ known' = [known EXCEPT ![o] = of] /\ told' = [told EXCEPT ![o] = by]
  /\ UNCHANGED <<library, looping>>

\* Role(), Role(type), Role(types).
New(o, types) ==
  /\ o \notin made /\ made' = made \cup {o}
  /\ \E garbage \in SUBSET Bits : Put(o, garbage \cup types, types, types)

Copy(o, p) ==
  /\ o \notin made /\ p \in made /\ made' = made \cup {o}
  /\ Put(o, role_[p], known[p], told[p])

Assign(o, p) ==
  /\ {o, p} \subseteq made
  /\ Put(o, role_[p], known[p], told[p])
  /\ UNCHANGED made

Add(o, type) ==
  /\ o \in made
  /\ Put(o, role_[o] \cup {type}, known[o] \cup {type}, told[o] \cup {type})
  /\ UNCHANGED made

Delete(o, type) ==
  /\ o \in made
  /\ Put(o, role_[o] \ {type}, known[o] \cup {type}, told[o] \ {type})
  /\ UNCHANGED made

\* The objects that stand for a child and for the parent start with a role (2
\* here) and their relation.
Child(o) == library = "process" /\ New(o, {2})
Parent(o) == library = "process" /\ New(o, {2})

\* role + type and role - type: a copy that is changed.
Plus(o, p, type) ==
  /\ o \notin made /\ p \in made /\ made' = made \cup {o}
  /\ Put(o, role_[p] \cup {type}, known[p] \cup {type}, told[p] \cup {type})

Minus(o, p, type) ==
  /\ o \notin made /\ p \in made /\ made' = made \cup {o}
  /\ Put(o, role_[p] \ {type}, known[p] \cup {type}, told[p] \ {type})

\* Has, by type and by types.
Has(o, types) == types \subseteq role_[o]

\* The calls with a role: += and -= set or unset bit 1 and go on; Has answers
\* when bit 1 is not set.  None changes anything for a role of no bits.
Applies(o, p, bits) ==
  /\ {o, p} \subseteq made /\ role_[p] # {}
  /\ role_' = [role_ EXCEPT ![o] = bits]
  /\ looping' = {o}
  /\ UNCHANGED <<library, made, known, told>>

AddRole(o, p) == Applies(o, p, role_[o] \cup {1})
DelRole(o, p) ==
  \/ ~(o = p /\ role_[o] = {1}) /\ Applies(o, p, role_[o] \ {1})
  \/ o = p /\ role_[o] = {1} /\ Delete(o, 1)
HasRole(o, p) == Has(o, {1}) /\ Applies(o, p, role_[o])

\* Relations: the bits are never set and always found.
_BitSet(relation) == relation
RelationHas == TRUE

RelationAdd(o) ==
  /\ o \in made /\ relation_' = [relation_ EXCEPT ![o] = _BitSet(relation_[o])]
  /\ UNCHANGED <<library, made, role_, known, told, looping>>

RoleStep(o) ==
  /\ UNCHANGED relation_
  /\ \/ \E types \in SUBSET Types : New(o, types)
     \/ Child(o) \/ Parent(o)
     \/ \E type \in Types : Add(o, type) \/ Delete(o, type)
     \/ \E p \in Objects :
          \/ Copy(o, p) \/ Assign(o, p) \/ AddRole(o, p) \/ DelRole(o, p) \/ HasRole(o, p)
          \/ \E type \in Types : Plus(o, p, type) \/ Minus(o, p, type)

ThreadRole(o) == library = "thread" /\ RoleStep(o)
ProcessRole(o) == library = "process" /\ (RoleStep(o) \/ RelationAdd(o))

Next == looping = {} /\ \E o \in Objects : ThreadRole(o) \/ ProcessRole(o)

Spec == Init /\ [][Next]_vars

-----------------------------------------------------------------------------
TypeOK ==
  /\ made \subseteq Objects /\ looping \subseteq made
  /\ role_ \in [Objects -> SUBSET Bits]
  /\ \A o \in Objects : told[o] \subseteq known[o] /\ known[o] \subseteq Types

\* A role is there exactly when it was set by name and not unset since, except
\* in the object of a call that does not return.
RolesAsTold ==
  \A o \in made \ looping : \A type \in known[o] : Has(o, {type}) = (type \in told[o])
=============================================================================
