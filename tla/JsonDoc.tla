------------------------------ MODULE JsonDoc ------------------------------
(***************************************************************************)
(* libparser: threads that work on one value of a ParserJson document      *)
(* through ParserJsonObject, with thread_safe_flag_ set: every call takes  *)
(* the document's read/write lock.  The calls differ in what they do       *)
(* before they have the lock: the get and set calls and operator[] look at *)
(* the value only under it, the array and object calls look at its type    *)
(* first.  A call is refused (RLock, WLock with overtime) or waits.        *)
(* Values are their type and, for arrays and objects, their size; the read *)
(* of a value that another thread is changing is not modelled.             *)
(***************************************************************************)
EXTENDS Naturals, FiniteSets

CONSTANTS
  Threads, NoThread,
  JsonTypes,            \* what callers pass to arrayPush and objectAdd
  MaxSize               \* bound: elements of an array, members of an object

VARIABLES
  type, size,           \* the value the objects of all threads point to
  writer, readers,      \* rwlock_
  at,                   \* where the call of a thread stands
  op,                   \* what it is to do
  raced,                \* another thread changed the value during this call
  left                  \* a call with an unsupported type was made

vars == <<type, size, writer, readers, at, op, raced, left>>

Scalars == {"STRING", "INT", "DOUBLE", "BOOL", "ONULL"}
Types == Scalars \cup {"ARRAY", "OBJECT"}
Supported == {"ARRAY", "OBJECT", "ONULL", "INT"}

Gets == [call : {"get"}, as : {"INT", "ARRAY", "OBJECT"}]
Sets == [call : {"set"}, as : {"INT", "ARRAY", "OBJECT"}]
Members == [call : {"member"}, as : {"OBJECT"}]
Indexes == [call : {"index"}, as : {"ARRAY"}, at : 0..MaxSize]
Checked == [call : {"size", "add", "addTree", "drop", "clear"}, as : {"ARRAY", "OBJECT"}]
Typed == [call : {"addType"}, as : {"ARRAY", "OBJECT"}, new : JsonTypes]
Ops == Gets \cup Sets \cup Members \cup Indexes \cup Checked \cup Typed

Reads(o) == o.call \in {"get", "member", "index", "size"}
ChecksFirst(o) == o \in Checked \cup Typed

Init ==
  /\ type = "OBJECT" /\ size = 0
  /\ writer = NoThread /\ readers = {}
  /\ at = [t \in Threads |-> "idle"]
  /\ op \in [Threads -> [call : {"get"}, as : {"INT"}]]
  /\ raced = [t \in Threads |-> FALSE]
  /\ left = FALSE

Goto(t, where) == at' = [at EXCEPT ![t] = where]

\* A call begins; the array and object calls go on only if the type fits.
Begin(t, o) ==
  /\ at[t] = "idle"
  /\ ChecksFirst(o) => type = o.as
  /\ Goto(t, "asks")
  /\ op' = [op EXCEPT ![t] = o]
  /\ raced' = [raced EXCEPT ![t] = FALSE]
  /\ UNCHANGED <<type, size, writer, readers, left>>

\* RwLock of the thread library: when it is given, and how it is given back.
CanRead == writer = NoThread
CanWrite == writer = NoThread /\ readers = {}
Release(t) ==
  /\ writer' = IF writer = t THEN NoThread ELSE writer
  /\ readers' = readers \ {t}

RLock(t) ==
  /\ at[t] = "asks" /\ Reads(op[t])
  /\ CanRead
  /\ readers' = readers \cup {t}
  /\ Goto(t, "holds")
  /\ UNCHANGED <<type, size, writer, op, raced, left>>

WLock(t) ==
  /\ at[t] = "asks" /\ ~Reads(op[t])
  /\ CanWrite
  /\ writer' = t
  /\ Goto(t, "holds")
  /\ UNCHANGED <<type, size, readers, op, raced, left>>

\* The lock call fails: EGETRLOCK, EGETWLOCK.
Refused(t) ==
  /\ at[t] = "asks"
  /\ writer # NoThread \/ readers # {}
  /\ Goto(t, "idle")
  /\ UNCHANGED <<type, size, writer, readers, op, raced, left>>

UnLock(t) == Release(t)

\* Every other call that is under way is overtaken by a change.
Overtake(t) == raced' = [u \in Threads |-> u # t /\ (at[u] # "idle" \/ raced[u])]

Return(t) == UnLock(t) /\ Goto(t, "idle")

\* A call that reads the value; what it hands out are pointers into it.
Read(t, call, as) ==
  /\ at[t] = "holds" /\ op[t].call = call /\ op[t].as \in as
  /\ Return(t)
  /\ UNCHANGED <<type, size, op, raced, left>>

Get(t) == Read(t, "get", Types)
Member(t) == Read(t, "member", {"OBJECT"})
arraySize(t) == Read(t, "size", {"ARRAY"})
objectSize(t) == Read(t, "size", {"OBJECT"})

Set(t) ==
  /\ at[t] = "holds" /\ op[t].call = "set"
  /\ type' = op[t].as /\ size' = 0
  /\ Return(t) /\ Overtake(t)
  /\ UNCHANGED <<op, left>>

\* Variant: the test is off by one more.
InsideByTwo(i) == i <= size + 1

\* The test lets the size itself through, which is no index.
Inside(i) == i <= size

\* operator[]: the index is tested under the lock, the element taken after.
Index(t) ==
  /\ at[t] = "holds" /\ op[t].call = "index"
  /\ UnLock(t)
  /\ Goto(t, IF type = "ARRAY" /\ Inside(op[t].at) THEN "takes" ELSE "idle")
  /\ UNCHANGED <<type, size, op, raced, left>>

Take(t) ==
  /\ at[t] = "takes"
  /\ Goto(t, "idle")
  /\ UNCHANGED <<type, size, writer, readers, op, raced, left>>

\* A call that writes.  What the library does to a value of another type is
\* not defined; here nothing happens to it.
Write(t, call, as, n) ==
  /\ at[t] = "holds" /\ op[t].call = call /\ op[t].as = as
  /\ size' = IF type = as THEN n ELSE size
  /\ Return(t) /\ Overtake(t)
  /\ UNCHANGED <<type, op, left>>

OneMore == IF size < MaxSize THEN size + 1 ELSE size
OneLess == IF size = 0 THEN 0 ELSE size - 1

arrayPush(t) == Write(t, "add", "ARRAY", OneMore)
objectAdd(t) == Write(t, "add", "OBJECT", OneMore)
arrayPushTree(t) == Write(t, "addTree", "ARRAY", OneMore)
objectAddTree(t) == Write(t, "addTree", "OBJECT", OneMore)
arrayPop(t) == Write(t, "drop", "ARRAY", OneLess)
objectDel(t) == Write(t, "drop", "OBJECT", OneLess)
arrayClear(t) == Write(t, "clear", "ARRAY", 0)
objectClear(t) == Write(t, "clear", "OBJECT", 0)

\* The type that is not supported returns with the lock.
Unsupported(t, as) ==
  /\ at[t] = "holds" /\ op[t].call = "addType" /\ op[t].as = as
  /\ op[t].new \notin Supported
  /\ Goto(t, "idle")
  /\ left' = TRUE
  /\ UNCHANGED <<type, size, writer, readers, op, raced>>

AddType(t, as) ==
  \/ Unsupported(t, as)
  \/ op[t] \in Typed /\ op[t].new \in Supported /\ Write(t, "addType", as, OneMore)

arrayPushType(t) == AddType(t, "ARRAY")
objectAddType(t) == AddType(t, "OBJECT")

\* Parsing takes no lock: no call may be under way.
Load ==
  /\ \A t \in Threads : at[t] = "idle" /\ t # writer
  /\ type' \in {"INT", "ARRAY", "OBJECT"} /\ size' = 0
  /\ UNCHANGED <<writer, readers, at, op, raced, left>>

Next ==
  \/ Load
  \/ \E t \in Threads :
       \/ \E o \in Ops : Begin(t, o)
       \/ RLock(t) \/ WLock(t) \/ Refused(t)
       \/ Get(t) \/ Set(t) \/ Member(t) \/ Index(t) \/ Take(t)
       \/ arraySize(t) \/ arrayPush(t) \/ arrayPushTree(t) \/ arrayPushType(t)
       \/ arrayPop(t) \/ arrayClear(t)
       \/ objectSize(t) \/ objectAdd(t) \/ objectAddTree(t) \/ objectAddType(t)
       \/ objectDel(t) \/ objectClear(t)

Spec == Init /\ [][Next]_vars

-----------------------------------------------------------------------------
TypeOK ==
  /\ type \in Types /\ size \in 0..MaxSize
  /\ writer \in Threads \cup {NoThread} /\ readers \subseteq Threads
  /\ at \in [Threads -> {"idle", "asks", "holds", "takes"}]
  /\ op \in [Threads -> Ops] /\ raced \in [Threads -> BOOLEAN] /\ left \in BOOLEAN

\* A call waits only while another call is under way ("This function will
\* block until other thread change this object done").
WaitsForCalls ==
  \A t \in Threads : t = writer \/ t \in readers => at[t] = "holds"

\* Only one kind of call keeps the lock when it returns, the one with a type
\* that is not supported; a writer is alone.
LockGivenBack ==
  /\ \A t \in Threads : at[t] = "holds" => t = writer \/ t \in readers
  /\ \A t \in readers : at[t] = "holds"
  /\ writer # NoThread =>
       /\ readers = {}
       /\ at[writer] = "holds" \/ left

\* Unless another thread changed the value between the test and the use: an
\* array or object call meets a value of its type, and operator[] takes an
\* element of an array or what is right behind the last one, which its test
\* lets through without any race, but nothing further.
WrongByRaceOrOne ==
  \A t \in Threads : ~raced[t] =>
    /\ at[t] = "holds" /\ ChecksFirst(op[t]) => type = op[t].as
    /\ at[t] = "takes" => type = "ARRAY" /\ op[t].at <= size
=============================================================================
