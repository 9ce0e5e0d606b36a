------------------------------ MODULE Multiton -------------------------------
(***************************************************************************)
(* libmodel: one instance per key.  Every call looks for the key before it *)
(* takes the lock and again under it; a search without the lock goes on to *)
(* read what it found, and a reset that finds nothing adds its instance    *)
(* without the lock.  A single operation of the map is a step: a search    *)
(* beside a change sees the map before or after it.                        *)
(***************************************************************************)
EXTENDS FiniteSets

CONSTANTS Threads, Keys, Instances, None

VARIABLES
  instance_map_,
  mutex_,
  at, key,              \* where each thread is, and for which key
  it,                   \* its iterator: the end, a node, or one erased since
  instance,             \* what the call has in hand
  alive,                \* constructed and not deleted
  used,                 \* constructed
  given,                \* what getInstance returned since a delete or reset
  lost,                 \* instances whose emplace found another
  strays,               \* returned from an erased node, or after their delete
  unlocked              \* keys whose node was added without the lock

vars == <<instance_map_, mutex_, at, key, it, instance, alive, used, given, lost, strays, unlocked>>
history == <<given, lost, strays>>

Init ==
  /\ instance_map_ = [k \in Keys |-> None] /\ mutex_ = None
  /\ at = [t \in Threads |-> "idle"] /\ key = [t \in Threads |-> CHOOSE k \in Keys : TRUE]
  /\ it = [t \in Threads |-> "end"] /\ instance = [t \in Threads |-> None]
  /\ alive = {} /\ used = {} /\ given = [k \in Keys |-> {}]
  /\ lost = {} /\ strays = {} /\ unlocked = {}

Here(t) == instance_map_[key[t]]
Goto(t, place) == at' = [at EXCEPT ![t] = place]
Drop(t) == it' = [it EXCEPT ![t] = "end"]
Hold(t, i) == instance' = [instance EXCEPT ![t] = i]
Give(t, i) == given' = [given EXCEPT ![key[t]] = @ \cup {i}]

Construct(t) ==
  \E i \in Instances \ used : used' = used \cup {i} /\ alive' = alive \cup {i} /\ Hold(t, i)

Call(t, k, place) ==
  /\ at[t] = "idle" /\ Goto(t, place) /\ key' = [key EXCEPT ![t] = k]
  /\ UNCHANGED <<instance_map_, mutex_, it, instance, alive, used, history, unlocked>>

lock(t, from, to) ==
  /\ at[t] = from /\ mutex_ = None /\ mutex_' = t /\ Goto(t, to)
  /\ UNCHANGED <<instance_map_, key, it, instance, alive, used, history, unlocked>>

unlock(t) ==
  /\ at[t] = "unlock" /\ mutex_' = None /\ Goto(t, "idle")
  /\ UNCHANGED <<instance_map_, key, it, instance, alive, used, history, unlocked>>

find(t, from, found, missing) ==
  /\ at[t] = from /\ Goto(t, IF Here(t) = None THEN missing ELSE found)
  /\ it' = [it EXCEPT ![t] = IF Here(t) = None THEN "end" ELSE "node"]
  /\ UNCHANGED <<instance_map_, mutex_, key, instance, alive, used, history, unlocked>>

\* The instance in hand goes into the map, unless the key is there by now.
emplace(t) ==
  /\ Hold(t, None)
  /\ IF Here(t) = None
     THEN /\ instance_map_' = [instance_map_ EXCEPT ![key[t]] = instance[t]]
          /\ unlocked' = IF mutex_ = t THEN unlocked \ {key[t]} ELSE unlocked \cup {key[t]}
          /\ UNCHANGED lost
     ELSE lost' = lost \cup {instance[t]} /\ UNCHANGED <<instance_map_, unlocked>>

-----------------------------------------------------------------------------
\* it->second; what an erased node has there may be anything.
GetRead(t, from, to) ==
  /\ at[t] = from /\ Goto(t, to) /\ Drop(t)
  /\ \E i \in Instances :
       /\ it[t] = "node" => i = Here(t)
       /\ Give(t, i)
       /\ strays' = IF it[t] = "node" /\ i \in alive THEN strays ELSE strays \cup {i}
  /\ UNCHANGED <<instance_map_, mutex_, key, instance, alive, used, lost, unlocked>>

GetNew(t) ==
  /\ at[t] = "getNew" /\ Goto(t, "getEmplace") /\ Construct(t)
  /\ UNCHANGED <<instance_map_, mutex_, key, it, history, unlocked>>

GetEmplace(t) ==
  /\ at[t] = "getEmplace" /\ Goto(t, "unlock")
  /\ emplace(t) /\ Give(t, instance[t])
  /\ UNCHANGED <<mutex_, key, it, alive, used, strays>>

\* Iterators to the node that goes are worth nothing.
DelErase(t) ==
  /\ at[t] = "delErase" /\ it[t] = "node" /\ Goto(t, "delDelete")
  /\ Hold(t, Here(t))
  /\ instance_map_' = [instance_map_ EXCEPT ![key[t]] = None]
  /\ it' = [u \in Threads |-> IF u = t THEN "end" ELSE IF key[u] = key[t] /\ it[u] = "node" THEN "gone" ELSE it[u]]
  /\ unlocked' = unlocked \ {key[t]} /\ given' = [given EXCEPT ![key[t]] = {}]
  /\ UNCHANGED <<mutex_, key, alive, used, lost, strays>>

DelDelete(t) ==
  /\ at[t] = "delDelete" /\ Goto(t, "unlock")
  /\ alive' = alive \ {instance[t]} /\ Hold(t, None)
  /\ UNCHANGED <<instance_map_, mutex_, key, it, used, history, unlocked>>

\* The new instance comes first.
ResetNew(t) ==
  /\ at[t] = "reset" /\ Goto(t, "resetFind") /\ Construct(t)
  /\ UNCHANGED <<instance_map_, mutex_, key, it, history, unlocked>>

ResetAdd(t, from, to) ==
  /\ at[t] = from /\ Goto(t, to) /\ emplace(t)
  /\ UNCHANGED <<mutex_, key, it, alive, used, given, strays>>

\* The map names the old instance until the new one is written over it.
ResetDelete(t) ==
  /\ at[t] = "resetDelete" /\ it[t] = "node" /\ Goto(t, "resetWrite")
  /\ alive' = alive \ {Here(t)}
  /\ UNCHANGED <<instance_map_, mutex_, key, it, instance, used, history, unlocked>>

ResetWrite(t) ==
  /\ at[t] = "resetWrite" /\ it[t] = "node" /\ Goto(t, "unlock") /\ Drop(t)
  /\ instance_map_' = [instance_map_ EXCEPT ![key[t]] = instance[t]]
  /\ Hold(t, None) /\ given' = [given EXCEPT ![key[t]] = {}]
  /\ UNCHANGED <<mutex_, key, alive, used, lost, strays, unlocked>>

GetStep(t) ==
  \/ find(t, "get", "getRead", "getLock") \/ GetRead(t, "getRead", "idle")
  \/ lock(t, "getLock", "getLocked") \/ find(t, "getLocked", "getTake", "getNew")
  \/ GetRead(t, "getTake", "unlock") \/ GetNew(t) \/ GetEmplace(t)
DelStep(t) ==
  \/ find(t, "del", "delLock", "idle")
  \/ lock(t, "delLock", "delLocked") \/ find(t, "delLocked", "delErase", "unlock")
  \/ DelErase(t) \/ DelDelete(t)
ResetStep(t) ==
  \/ ResetNew(t)
  \/ find(t, "resetFind", "resetLock", "resetAdd") \/ ResetAdd(t, "resetAdd", "idle")
  \/ lock(t, "resetLock", "resetLocked") \/ find(t, "resetLocked", "resetDelete", "resetEmplace")
  \/ ResetAdd(t, "resetEmplace", "unlock") \/ ResetDelete(t) \/ ResetWrite(t)

Next ==
  \E t \in Threads :
    \/ \E k \in Keys : Call(t, k, "get") \/ Call(t, k, "del") \/ Call(t, k, "reset")
    \/ GetStep(t) \/ DelStep(t) \/ ResetStep(t) \/ unlock(t)

Spec == Init /\ [][Next]_vars

-----------------------------------------------------------------------------
TypeOK ==
  /\ instance_map_ \in [Keys -> Instances \cup {None}] /\ mutex_ \in Threads \cup {None}
  /\ alive \subseteq used /\ used \subseteq Instances /\ lost \subseteq alive
  /\ instance \in [Threads -> Instances \cup {None}] /\ given \in [Keys -> SUBSET Instances]
  /\ it \in [Threads -> {"end", "node", "gone"}] /\ strays \subseteq Instances /\ unlocked \subseteq Keys

\* The map names instances that live, but while a reset stands between delete
\* and its write.  All who asked since the last delete or reset got the one in
\* the map, but those whose emplace was refused, and those who read without the
\* lock what was being deleted; refused is an emplace under the lock only by a
\* reset's without it, and an erased node is read only without the lock.  An
\* instance that lives is in the map, in the hands of a call, or lost.
OnePerKey ==
  /\ \A k \in Keys : instance_map_[k] # None =>
       instance_map_[k] \in alive \/ \E t \in Threads : at[t] = "resetWrite" /\ key[t] = k
  /\ \A k \in Keys : given[k] \subseteq {instance_map_[k]} \cup lost \cup strays
  /\ \A t \in Threads :
       at[t] \in {"getNew", "getEmplace", "resetEmplace"} /\ Here(t) # None => key[t] \in unlocked
  /\ \A t \in Threads : at[t] \in {"getTake", "delErase", "resetDelete", "resetWrite"} => it[t] = "node"
  /\ \A i \in alive \ lost : (\E k \in Keys : instance_map_[k] = i) \/ \E t \in Threads : instance[t] = i
  /\ \A t \in Threads : instance[t] # None => \A k \in Keys : instance_map_[k] # instance[t]
=============================================================================
