------------------------------- MODULE MemPool ------------------------------
(***************************************************************************)
(* libmemory: one pool per thread, which takes every block from the        *)
(* operating system (the thread cache never initialises) and lists those   *)
(* that are in use.  A block given back in another thread is not on that   *)
(* thread's list and stays.                                                *)
(***************************************************************************)
EXTENDS Naturals, FiniteSets

CONSTANTS Threads, Blocks, None

VARIABLES
  pInstance,            \* threads that have a pool
  busy_map_,            \* blocks on each thread's list
  allocated,            \* by the operating system
  freeing,              \* the block whose entry a thread still has to remove
  built,                \* blocks that hold an object
  owner,                \* the thread that got each block last
  lost                  \* blocks that no list names

vars == <<pInstance, busy_map_, allocated, freeing, built, owner, lost>>

Init ==
  /\ pInstance = {} /\ busy_map_ = [t \in Threads |-> {}] /\ allocated = {}
  /\ freeing = [t \in Threads |-> None] /\ built = {} /\ lost = {}
  /\ owner = [m \in Blocks |-> None]

\* Each thread runs one call at a time.
Free1(t) == freeing[t] = None

getInstance(t) ==
  /\ t \notin pInstance /\ pInstance' = pInstance \cup {t}
  /\ UNCHANGED <<busy_map_, allocated, freeing, built, owner, lost>>

\* Nothing gives the blocks on the list back.
freeInstance(t) ==
  /\ t \in pInstance /\ Free1(t)
  /\ pInstance' = pInstance \ {t}
  /\ busy_map_' = [busy_map_ EXCEPT ![t] = {}]
  /\ lost' = lost \cup busy_map_[t]
  /\ UNCHANGED <<allocated, freeing, built, owner>>

\* Insert refuses an address that the list names: the block goes back.
Insert(t, m) == m \notin busy_map_[t]

Alloc(t, m) ==
  /\ t \in pInstance /\ Free1(t) /\ m \notin allocated /\ Insert(t, m)
  /\ allocated' = allocated \cup {m} /\ owner' = [owner EXCEPT ![m] = t]
  /\ busy_map_' = [busy_map_ EXCEPT ![t] = @ \cup {m}]
  /\ UNCHANGED <<pInstance, freeing, lost>>

\* Malloc, and Malloc of a type, which constructs an object in the block.
Malloc(t, m) == Alloc(t, m) /\ UNCHANGED built
MallocT(t, m) == Alloc(t, m) /\ built' = built \cup {m}

\* Reset and Construct, Destruct.
Construct(t, m) ==
  /\ m \in allocated /\ owner[m] = t /\ Free1(t) /\ built' = built \cup {m}
  /\ UNCHANGED <<pInstance, busy_map_, allocated, freeing, owner, lost>>

Destruct(t, m) ==
  /\ m \in built /\ owner[m] = t /\ Free1(t) /\ built' = built \ {m}
  /\ UNCHANGED <<pInstance, busy_map_, allocated, freeing, owner, lost>>

Origin(t, m) == m \in busy_map_[t]

\* The program gives a block back once, in any thread that has a pool.  The
\* system has it before the entry is gone.  A free that finds no entry leaves
\* the block; the object in it is destroyed all the same.
Free(t, m) ==
  /\ t \in pInstance /\ Free1(t) /\ m \in allocated \ lost
  /\ built' = built \ {m}
  /\ IF Origin(t, m)
     THEN allocated' = allocated \ {m} /\ freeing' = [freeing EXCEPT ![t] = m]
     ELSE UNCHANGED <<allocated, freeing>>
  /\ UNCHANGED <<pInstance, busy_map_, owner, lost>>

Remove(t) ==
  /\ freeing[t] # None
  /\ busy_map_' = [busy_map_ EXCEPT ![t] = @ \ {freeing[t]}]
  /\ freeing' = [freeing EXCEPT ![t] = None]
  /\ UNCHANGED <<pInstance, allocated, built, owner, lost>>

Next ==
  \E t \in Threads :
    \/ getInstance(t) \/ freeInstance(t) \/ Remove(t)
    \/ \E m \in Blocks :
         Malloc(t, m) \/ MallocT(t, m) \/ Construct(t, m) \/ Destruct(t, m) \/ Free(t, m)

Spec == Init /\ [][Next]_vars

-----------------------------------------------------------------------------
TypeOK ==
  /\ pInstance \subseteq Threads /\ busy_map_ \in [Threads -> SUBSET Blocks]
  /\ lost \subseteq allocated /\ built \subseteq allocated
  /\ freeing \in [Threads -> Blocks \cup {None}]

\* Two lists name one block only while one of them is about to drop it; a
\* block that is in use is on the list of the thread that got it, or was on
\* that of a pool that is gone; no list names another.
PoolSound ==
  \A m \in Blocks :
    /\ Cardinality({t \in Threads : m \in busy_map_[t] /\ freeing[t] # m}) <= 1
    /\ m \in allocated \ lost => m \in busy_map_[owner[m]]
    /\ \A t \in Threads : m \in busy_map_[t] /\ freeing[t] # m => m \in allocated
=============================================================================
