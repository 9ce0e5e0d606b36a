--------------------------- MODULE SignalActions ---------------------------
(***************************************************************************)
(* libsignal: the register of signal actions of a process.  Register asks  *)
(* the kernel first and writes its two maps after; a handler may run       *)
(* between, and call the register itself.  The lock of the class is        *)
(* commented out, so only one thread may use it.  A handler runs in a      *)
(* frame of its own on top of the main one.                                *)
(***************************************************************************)
EXTENDS Naturals, Sequences, FiniteSets

CONSTANTS
  Sigs,                 \* signal numbers
  Fixed,                \* those whose action the kernel does not change
  Handlers, Default,    \* what a signal may lead to
  NoAction

VARIABLES
  action,               \* the kernel's table
  register_map_, last_register_map_,
  todo,                 \* per frame: what the call still has to register
  old_action,           \* per frame: what sigaction gave back, until it is kept
  inside,               \* a handler is running
  before,               \* what the last change of each signal replaced
  crossed               \* signals a handler registered inside their registration

vars == <<action, register_map_, last_register_map_, todo, old_action, inside,
          before, crossed>>

Actions == Handlers \cup {Default}
Frames == {"main", "handler"}
Running == IF inside THEN "handler" ELSE "main"
Idle(f) == f = Running /\ todo[f] = <<>>

Init ==
  /\ action = [s \in Sigs |-> Default]
  /\ register_map_ = <<>> /\ last_register_map_ = <<>>
  /\ todo = [f \in Frames |-> <<>>] /\ old_action = [f \in Frames |-> NoAction]
  /\ inside = FALSE
  /\ before = [s \in Sigs |-> Default] /\ crossed = {}

Begin(f, list) ==
  /\ Idle(f)
  /\ todo' = [todo EXCEPT ![f] = list]
  /\ UNCHANGED <<action, register_map_, last_register_map_, old_action, inside, before, crossed>>

\* A map is copied and walked in the order of its signals.
Ordered(S) ==
  {o \in [1..Cardinality(S) -> S] : \A i, j \in 1..Cardinality(S) : i < j => o[i] < o[j]}
Entries(map) == {[i \in DOMAIN o |-> [sig |-> o[i], new |-> map[o[i]]]] : o \in Ordered(DOMAIN map)}

Register(f, s, a) == Begin(f, <<[sig |-> s, new |-> a]>>)
UnRegister(f, s) == Register(f, s, Default)
UnRegisterAll(f) ==
  \E list \in Entries([s \in DOMAIN register_map_ |-> Default]) : Begin(f, list)
Revert(f, s) == s \in DOMAIN last_register_map_ /\ Register(f, s, last_register_map_[s])
RevertAll(f) == \E list \in Entries(last_register_map_) : Begin(f, list)

InFlight(f, s) == old_action[f] # NoAction /\ Head(todo[f]).sig = s

\* _register_signal: sigaction.  A refusal ends the call, the rest of an
\* UnRegister or Revert of all signals included.
Sigaction(f) ==
  LET s == Head(todo[f]).sig IN
  /\ f = Running /\ todo[f] # <<>> /\ old_action[f] = NoAction
  /\ s \notin Fixed
  /\ action' = [action EXCEPT ![s] = Head(todo[f]).new]
  /\ old_action' = [old_action EXCEPT ![f] = action[s]]
  /\ before' = [before EXCEPT ![s] = action[s]]
  /\ crossed' = IF f = "handler" /\ InFlight("main", s) THEN crossed \cup {s} ELSE crossed \ {s}
  /\ UNCHANGED <<register_map_, last_register_map_, todo, inside>>

SigactionFails(f) ==
  /\ f = Running /\ todo[f] # <<>> /\ old_action[f] = NoAction
  /\ Head(todo[f]).sig \in Fixed
  /\ todo' = [todo EXCEPT ![f] = <<>>]
  /\ UNCHANGED <<action, register_map_, last_register_map_, old_action, inside, before, crossed>>

Assign(map, s, x) == [t \in DOMAIN map \cup {s} |-> IF t = s THEN x ELSE map[t]]
Keep(s, new, old) ==
  /\ register_map_' = Assign(register_map_, s, new)
  /\ last_register_map_' = Assign(last_register_map_, s, old)

Record(f) ==
  /\ f = Running /\ old_action[f] # NoAction
  /\ Keep(Head(todo[f]).sig, Head(todo[f]).new, old_action[f])
  /\ todo' = [todo EXCEPT ![f] = Tail(@)]
  /\ old_action' = [old_action EXCEPT ![f] = NoAction]
  /\ UNCHANGED <<action, inside, before, crossed>>

\* The kernel delivers a signal that has a handler; the handler returns.
Deliver ==
  /\ ~inside /\ \E s \in Sigs : action[s] \in Handlers
  /\ inside' = TRUE
  /\ UNCHANGED <<action, register_map_, last_register_map_, todo, old_action, before, crossed>>

HandlerReturns ==
  /\ inside /\ Idle("handler")
  /\ inside' = FALSE
  /\ UNCHANGED <<action, register_map_, last_register_map_, todo, old_action, before, crossed>>

Next ==
  \/ Deliver
  \/ HandlerReturns
  \/ \E f \in Frames :
       \/ Sigaction(f) \/ SigactionFails(f) \/ Record(f)
       \/ UnRegisterAll(f) \/ RevertAll(f)
       \/ \E s \in Sigs : UnRegister(f, s) \/ Revert(f, s) \/ \E a \in Handlers : Register(f, s, a)

Spec == Init /\ [][Next]_vars

-----------------------------------------------------------------------------
TypeOK ==
  /\ action \in [Sigs -> Actions] /\ before \in [Sigs -> Actions]
  /\ DOMAIN register_map_ = DOMAIN last_register_map_ /\ DOMAIN register_map_ \subseteq Sigs \ Fixed
  /\ \A f \in Frames : \A i \in DOMAIN todo[f] : todo[f][i] \in [sig : Sigs, new : Actions]
  /\ old_action \in [Frames -> Actions \cup {NoAction}]
  /\ inside \in BOOLEAN /\ crossed \subseteq Sigs

\* Outside a registration of the signal the maps say what the kernel does
\* with it and what it did before, unless a handler registered the same
\* signal in the middle of a registration.
MapsTell ==
  \A s \in DOMAIN register_map_ :
    \/ s \in crossed \/ \E f \in Frames : InFlight(f, s)
    \/ register_map_[s] = action[s] /\ last_register_map_[s] = before[s]
=============================================================================
