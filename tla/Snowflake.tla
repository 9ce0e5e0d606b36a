----------------------------- MODULE Snowflake -----------------------------
(***************************************************************************)
(* libcrypt: the serial number generator Snowflake.  ID puts together the  *)
(* time since activation, the number of times the clock went back, bits of *)
(* a hardware or network address and a serial; it keeps the components of  *)
(* the last number it gave, and a second array in which it prepares the    *)
(* next one.                                                               *)
(*                                                                         *)
(* A component of b bits takes values below its size 2^b.  A component     *)
(* that the composition of the generator does not have takes 0 bits: its   *)
(* size is 1.  Node stands for Mac, Ipv4 or Ipv6: an address that does not *)
(* change while the generator lives, or cannot be read.                    *)
(***************************************************************************)
EXTENDS Integers

CONSTANTS
  TimeSize, TimeBackSize, NodeSize, SerialSize,   \* 2^bits of each component
  node,           \* the address of the interface, masked to its bits
  Clock,          \* readings of the clock, in ms since activation
  MaxCalls        \* bound: calls of ID in one behaviour

ASSUME SnowflakeAssumption ==
  /\ TimeSize \in Nat \ {0} /\ TimeBackSize \in Nat \ {0}
  /\ NodeSize \in Nat \ {0} /\ SerialSize \in Nat \ {0}
  /\ node \in 0..(NodeSize - 1)
  /\ Clock \subseteq Int
  /\ MaxCalls \in Nat

VARIABLES
  last,           \* last_comp_value_
  curr,           \* curr_comp_value_
  issued,         \* the components of every number given
  repeated,       \* a number was given a second time
  run,            \* numbers given since Time and Node last changed
  backs,          \* how often the clock was found behind the last number
  overrun,        \* run or backs went beyond what their components can count
  calls

vars == <<last, curr, issued, repeated, run, backs, overrun, calls>>

Components ==
  [Time : 0..(TimeSize - 1), TimeBack : 0..(TimeBackSize - 1),
   Node : 0..(NodeSize - 1), Serial : 0..(SerialSize - 1)]

Zero == [Time |-> 0, TimeBack |-> 0, Node |-> 0, Serial |-> 0]

Init ==
  /\ last = Zero /\ curr = Zero
  /\ issued = {} /\ repeated = FALSE
  /\ run = 0 /\ backs = 0 /\ overrun = FALSE
  /\ calls = 0

\* The clock in its bits; the clock may run past them.
GenTime(t) == t % TimeSize

Changed(time) == time # last.Time \/ node # last.Node

\* Variant: the serial does not wrap.
GenSerialUnmasked(time) == IF Changed(time) THEN last.Serial ELSE last.Serial + 1

\* The serial of the last number, or the one after it when nothing else
\* tells the two numbers apart.
GenSerial(time) ==
  IF Changed(time) THEN last.Serial % SerialSize ELSE (last.Serial + 1) % SerialSize

WentBack(time) == time < last.Time

\* Variant: the count starts again when the clock does not go back.
GenTimeBackReset(time) == (IF WentBack(time) THEN last.TimeBack + 1 ELSE 0) % TimeBackSize

GenTimeBack(time) ==
  (IF WentBack(time) THEN last.TimeBack + 1 ELSE last.TimeBack) % TimeBackSize

\* The components side by side, the first one on top.
Assemble(c) ==
  ((c.Time * TimeBackSize + c.TimeBack) * NodeSize + c.Node) * SerialSize + c.Serial

Call == calls < MaxCalls /\ calls' = calls + 1
NothingIssued == UNCHANGED <<last, issued, repeated, run, backs, overrun>>

\* The clock is before the activation time, or cannot be read: INVALID_ID.
IDTimeFails(t) ==
  /\ Call
  /\ t < 0
  /\ NothingIssued
  /\ UNCHANGED curr

\* The address cannot be read: INVALID_ID, with the time already written.
IDNodeFails(t) ==
  /\ Call
  /\ t >= 0 /\ NodeSize > 1
  /\ curr' = [curr EXCEPT !.Time = GenTime(t)]
  /\ NothingIssued

\* The bookkeeping of what was given.
Record(c) ==
  /\ issued' = issued \cup {c}
  /\ repeated' = (repeated \/ \E i \in issued : Assemble(i) = Assemble(c))
  /\ run' = IF Changed(c.Time) THEN 1 ELSE run + 1
  /\ backs' = IF WentBack(c.Time) THEN backs + 1 ELSE backs
  /\ overrun' = (overrun \/ run' > SerialSize \/ backs' >= TimeBackSize)

\* A number is given and the two arrays change places.
ID(t) ==
  /\ Call
  /\ t >= 0
  /\ LET time == GenTime(t)
         c == [Time |-> time, TimeBack |-> GenTimeBack(time),
               Node |-> node, Serial |-> GenSerial(time)]
     IN  /\ Record(c)
         /\ last' = c
         /\ curr' = last

Next == \E t \in Clock : IDTimeFails(t) \/ IDNodeFails(t) \/ ID(t)

Spec == Init /\ [][Next]_vars

-----------------------------------------------------------------------------
\* Every component keeps to its bits, in both arrays and in every number.
TypeOK ==
  /\ last \in Components /\ curr \in Components
  /\ issued \subseteq Components
  /\ repeated \in BOOLEAN /\ overrun \in BOOLEAN
  /\ run \in Nat /\ backs \in Nat /\ calls \in Nat

(***************************************************************************)
(* No number is given twice, whatever the clock does and whichever calls   *)
(* failed, as long as one reading of the clock serves at most as many      *)
(* calls as the serial has values and the clock goes back less often than  *)
(* TimeBack can count: the serial goes on from the last number instead of  *)
(* starting again, and TimeBack tells the second pass over a time from the *)
(* first.                                                                  *)
(***************************************************************************)
UniqueWithinCapacity == ~overrun => ~repeated

(***************************************************************************)
(* "Snowflake Unique serial number generator": no number is ever given     *)
(* twice.  ID neither waits for the next tick when the serials of this one *)
(* are used up nor refuses a clock that goes back.                         *)
(***************************************************************************)
Unique == ~repeated

-----------------------------------------------------------------------------
(***************************************************************************)
(* The inductive invariant.  Behind(k) is the serial k calls before the    *)
(* last one.  While nothing overran, numbers of this pass of the clock are *)
(* not later than the last one, and those that share its time have one of  *)
(* the serials of the current run.                                         *)
(***************************************************************************)
Behind(k) == IF last.Serial >= k THEN last.Serial - k ELSE last.Serial - k + SerialSize

SamePass(i) == i.TimeBack = last.TimeBack

NodeKept ==
  /\ \A i \in issued : i.Node = node
  /\ issued # {} => last.Node = node

Counted == run <= SerialSize /\ backs < TimeBackSize /\ last.TimeBack = backs

Ordered ==
  \A i \in issued : i.TimeBack <= last.TimeBack /\ (SamePass(i) => i.Time <= last.Time)

RunSerials ==
  \A i \in issued :
    SamePass(i) /\ i.Time = last.Time => \E k \in 0..(run - 1) : i.Serial = Behind(k)

IInv ==
  /\ TypeOK
  /\ NodeKept
  /\ ~overrun => Counted /\ Ordered /\ RunSerials /\ ~repeated

-----------------------------------------------------------------------------
\* For TLC, a clock that may show any reading at any call, one before
\* activation and one past the bits of Time included.
Readings == {0 - 1} \cup (0..TimeSize)
=============================================================================
