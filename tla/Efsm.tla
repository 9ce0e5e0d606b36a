------------------------------- MODULE Efsm --------------------------------
(***************************************************************************)
(* libmodel: the extended state machine.  Trigger runs callbacks of the    *)
(* host, each of which may fail, throw or call Trigger again; a Trigger    *)
(* under way is a frame of stack and the last frame runs.  Callbacks do    *)
(* not change the three tables.  The event's process function is never     *)
(* called: an event loses it when AddEvent copies it.                      *)
(***************************************************************************)
EXTENDS Naturals, Sequences

CONSTANTS
  Events, States,
  HasExit, HasUpdate,   \* states with an exit, an update function
  MaxDepth              \* bound: triggers within triggers

VARIABLES
  state_,
  event_map_, state_map_, trans_map_,
  stack,
  inside,               \* the state the host entered last, or none since an exit
  torn                  \* a trigger failed after its exit, or met another inside it

tables == <<event_map_, state_map_, trans_map_>>
vars == <<state_, tables, stack, inside, torn>>

Init ==
  /\ state_ \in States /\ inside = {state_}
  /\ event_map_ = {} /\ state_map_ = {} /\ trans_map_ = <<>>
  /\ stack = <<>> /\ torn = FALSE

Building == stack = <<>> /\ UNCHANGED <<state_, stack, inside, torn>>

AddEvent(e) == Building /\ event_map_' = event_map_ \cup {e} /\ UNCHANGED <<state_map_, trans_map_>>
AddState(s) == Building /\ state_map_' = state_map_ \cup {s} /\ UNCHANGED <<event_map_, trans_map_>>
AddTransition(e, s, to) ==
  /\ Building /\ UNCHANGED <<event_map_, state_map_>>
  /\ trans_map_' = [k \in DOMAIN trans_map_ \cup {<<e, s>>} |-> IF k = <<e, s>> THEN to ELSE trans_map_[k]]
DelTransition(e, s) ==
  /\ Building /\ UNCHANGED <<event_map_, state_map_>>
  /\ trans_map_' = [k \in DOMAIN trans_map_ \ {<<e, s>>} |-> trans_map_[k]]
clear == Building /\ event_map_' = {} /\ state_map_' = {} /\ trans_map_' = <<>>

-----------------------------------------------------------------------------
Found(e) ==
  /\ e \in event_map_ /\ <<e, state_>> \in DOMAIN trans_map_
  /\ {state_, trans_map_[<<e, state_>>]} \subseteq state_map_

\* A Trigger that gets past the look-ups; inside another one it is the work
\* of that one's callback.
Trigger(e) ==
  /\ Found(e) /\ Len(stack) < MaxDepth
  /\ stack' = Append(stack, [from |-> state_, to |-> trans_map_[<<e, state_>>], at |-> "check"])
  /\ torn' = (torn \/ stack # <<>>)
  /\ UNCHANGED <<state_, tables, inside>>

Top == stack[Len(stack)]
At(phase) == stack # <<>> /\ Top.at = phase
Goto(phase) == stack' = [stack EXCEPT ![Len(stack)].at = phase]
Pop == stack' = SubSeq(stack, 1, Len(stack) - 1)

\* Variant: the state changes before the functions that may refuse it.
CheckDoneEarly ==
  /\ At("check") /\ Goto(IF Top.to = state_ THEN "update" ELSE "exit")
  /\ state_' = Top.to
  /\ UNCHANGED <<tables, inside, torn>>

\* The check function agrees: no change of state is an update.
CheckDone ==
  /\ At("check") /\ Goto(IF Top.to = state_ THEN "update" ELSE "exit")
  /\ UNCHANGED <<state_, tables, inside, torn>>

CheckFails == At("check") /\ Pop /\ UNCHANGED <<state_, tables, inside, torn>>

\* The update function is called if the state has an exit function; without
\* an update function that call throws, through every frame.
UpdateDone ==
  /\ At("update") /\ (Top.from \in HasExit => Top.from \in HasUpdate)
  /\ Goto("complete")
  /\ UNCHANGED <<state_, tables, inside, torn>>
UpdateFails == At("update") /\ Top.from \in HasExit /\ Pop /\ UNCHANGED <<state_, tables, inside, torn>>
UpdateThrows ==
  /\ At("update") /\ Top.from \in HasExit \ HasUpdate
  /\ stack' = <<>>
  /\ UNCHANGED <<state_, tables, inside, torn>>

ExitDone ==
  /\ At("exit") /\ Goto("enter")
  /\ inside' = {}
  /\ UNCHANGED <<state_, tables, torn>>
ExitFails == At("exit") /\ Top.from \in HasExit /\ Pop /\ UNCHANGED <<state_, tables, inside, torn>>

EnterDone ==
  /\ At("enter") /\ Goto("complete")
  /\ inside' = {Top.to}
  /\ UNCHANGED <<state_, tables, torn>>
EnterFails ==
  /\ At("enter") /\ Pop
  /\ torn' = TRUE
  /\ UNCHANGED <<state_, tables, inside>>

\* The state changes last.
Complete ==
  /\ At("complete") /\ Pop
  /\ state_' = Top.to
  /\ UNCHANGED <<tables, inside, torn>>
CompleteFails ==
  /\ At("complete") /\ Pop
  /\ torn' = (torn \/ Top.from # Top.to)
  /\ UNCHANGED <<state_, tables, inside>>

\* The host may put things right by hand.
changeStateForce(s) ==
  /\ stack = <<>>
  /\ state_' = s /\ inside' = {s} /\ torn' = FALSE
  /\ UNCHANGED <<tables, stack>>

Next ==
  \/ clear
  \/ CheckDone \/ CheckFails \/ UpdateDone \/ UpdateFails \/ UpdateThrows
  \/ ExitDone \/ ExitFails \/ EnterDone \/ EnterFails \/ Complete \/ CompleteFails
  \/ \E s \in States : AddState(s) \/ changeStateForce(s)
  \/ \E e \in Events : AddEvent(e) \/ Trigger(e)
  \/ \E e \in Events, s, to \in States : AddTransition(e, s, to) \/ DelTransition(e, s)

Spec == Init /\ [][Next]_vars

-----------------------------------------------------------------------------
TypeOK ==
  /\ state_ \in States /\ inside \subseteq States /\ torn \in BOOLEAN
  /\ event_map_ \subseteq Events /\ state_map_ \subseteq States
  /\ DOMAIN trans_map_ \subseteq Events \X States /\ \A k \in DOMAIN trans_map_ : trans_map_[k] \in States
  /\ stack \in Seq([from : States, to : States, at : {"check", "update", "exit", "enter", "complete"}])
  /\ Len(stack) <= MaxDepth

\* Between triggers the machine says the state its host entered last,
\* whichever functions refused, unless one refused after an exit or a
\* trigger ran inside another; and a machine that found its tables
\* complete never names a state they do not have.
StateIsEntered ==
  /\ stack = <<>> /\ ~torn => inside = {state_}
  /\ \A i \in DOMAIN stack : {stack[i].from, stack[i].to} \subseteq state_map_
  /\ ~torn /\ stack # <<>> => state_ = stack[1].from
=============================================================================
