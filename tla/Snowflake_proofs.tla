------------------------- MODULE Snowflake_proofs -------------------------
(***************************************************************************)
(* The serial number generator, for components of any size and any clock.  *)
(***************************************************************************)
EXTENDS Snowflake, TLAPS

\* Adding one below a size, modulo that size.
LEMMA NextModulo ==
  ASSUME NEW n \in Nat \ {0}, NEW v \in 0..(n - 1)
  PROVE  /\ (v + 1) % n = IF v + 1 = n THEN 0 ELSE v + 1
         /\ v % n = v
  OBVIOUS

\* A remainder is below the divisor.
LEMMA Modulo ==
  ASSUME NEW n \in Nat \ {0}, NEW v \in Int
  PROVE  v % n \in 0..(n - 1)
  OBVIOUS

\* A number is read back from quotient and remainder in one way only.
LEMMA Digits ==
  ASSUME NEW n \in Nat \ {0}, NEW a \in Nat, NEW b \in Nat,
         NEW r \in 0..(n - 1), NEW s \in 0..(n - 1),
         a * n + r = b * n + s
  PROVE  a = b /\ r = s
  <1>1. ASSUME NEW x \in Nat, NEW y \in Nat, NEW p \in 0..(n - 1), NEW q \in 0..(n - 1),
               x < y
        PROVE  x * n + p # y * n + q
    <2>1. PICK d \in Nat : y = x + 1 + d
      <3>1. y - x - 1 \in Nat /\ y = x + 1 + (y - x - 1)
        BY <1>1
      <3> QED BY <3>1
    <2>2. y * n = x * n + n + d * n
      BY <2>1
    <2>3. d * n \in Nat /\ x * n \in Nat
      OBVIOUS
    <2> QED BY <2>2, <2>3
  <1>2. a = b
    BY <1>1
  <1> QED BY <1>2

\* Numbers with different components are different numbers.
LEMMA AssembleInjective ==
  ASSUME NEW c \in Components, NEW d \in Components, Assemble(c) = Assemble(d)
  PROVE  c = d
  <1> USE SnowflakeAssumption
  <1> DEFINE Time2(x) == x.Time * TimeBackSize + x.TimeBack
             Node2(x) == Time2(x) * NodeSize + x.Node
  <1>1. ASSUME NEW n \in Nat \ {0}, NEW a \in Nat, NEW r \in 0..(n - 1)
        PROVE  a * n + r \in Nat
    OBVIOUS
  <1>2. /\ c.Time \in Nat /\ c.TimeBack \in 0..(TimeBackSize - 1)
        /\ c.Node \in 0..(NodeSize - 1) /\ c.Serial \in 0..(SerialSize - 1)
        /\ d.Time \in Nat /\ d.TimeBack \in 0..(TimeBackSize - 1)
        /\ d.Node \in 0..(NodeSize - 1) /\ d.Serial \in 0..(SerialSize - 1)
    BY DEF Components
  <1>3. Time2(c) \in Nat /\ Time2(d) \in Nat
    BY <1>1, <1>2
  <1>4. Node2(c) \in Nat /\ Node2(d) \in Nat
    <2> HIDE DEF Time2
    <2> QED BY <1>1, <1>2, <1>3
  <1>5. Node2(c) * SerialSize + c.Serial = Node2(d) * SerialSize + d.Serial
    BY DEF Assemble
  <1>6. Node2(c) = Node2(d) /\ c.Serial = d.Serial
    <2> HIDE DEF Node2
    <2> QED BY <1>2, <1>4, <1>5, Digits
  <1>7. Time2(c) = Time2(d) /\ c.Node = d.Node
    <2>1. Time2(c) * NodeSize + c.Node = Time2(d) * NodeSize + d.Node
      BY <1>6
    <2> HIDE DEF Time2
    <2> QED BY <2>1, <1>2, <1>3, Digits
  <1>8. c.Time = d.Time /\ c.TimeBack = d.TimeBack
    <2>1. c.Time * TimeBackSize + c.TimeBack = d.Time * TimeBackSize + d.TimeBack
      BY <1>7
    <2> DEFINE Time1(x) == x.Time
    <2>2. Time1(c) * TimeBackSize + c.TimeBack = Time1(d) * TimeBackSize + d.TimeBack
      BY <2>1
    <2>3. Time1(c) \in Nat /\ Time1(d) \in Nat
      BY <1>2
    <2>4. Time1(c) = Time1(d) /\ c.TimeBack = d.TimeBack
      <3> HIDE DEF Time1
      <3> QED BY <2>2, <2>3, <1>2, Digits
    <2> QED BY <2>4
  <1> QED BY <1>6, <1>7, <1>8 DEF Components

-----------------------------------------------------------------------------
LEMMA InitIInv == Init => IInv
  <1> SUFFICES ASSUME Init PROVE IInv
    OBVIOUS
  <1> USE SnowflakeAssumption DEF Init, Zero
  <1>1. Zero \in Components
    BY DEF Components
  <1>2. TypeOK
    BY <1>1 DEF TypeOK
  <1>3. NodeKept
    BY DEF NodeKept
  <1>4. Counted /\ Ordered /\ RunSerials /\ ~repeated
    BY DEF Counted, Ordered, RunSerials
  <1> QED BY <1>2, <1>3, <1>4 DEF IInv

\* The components ID computes for a reading t of the clock.
Given(t) ==
  [Time |-> GenTime(t), TimeBack |-> GenTimeBack(GenTime(t)),
   Node |-> node, Serial |-> GenSerial(GenTime(t))]

\* They fit in their bits; and what they are when nothing overruns.
LEMMA GivenComponents ==
  ASSUME TypeOK, NEW t \in Int
  PROVE  /\ Given(t) \in Components
         /\ GenTime(t) \in 0..(TimeSize - 1)
         /\ ~Changed(GenTime(t)) =>
              Given(t).Serial = IF last.Serial + 1 = SerialSize THEN 0 ELSE last.Serial + 1
         /\ ~WentBack(GenTime(t)) => Given(t).TimeBack = last.TimeBack
         /\ WentBack(GenTime(t)) /\ last.TimeBack + 1 < TimeBackSize =>
              Given(t).TimeBack = last.TimeBack + 1
  <1> USE SnowflakeAssumption
  <1>1. last.Serial \in 0..(SerialSize - 1) /\ last.TimeBack \in 0..(TimeBackSize - 1)
    BY DEF TypeOK, Components
  <1>2. GenTime(t) \in 0..(TimeSize - 1)
    BY Modulo DEF GenTime
  <1>3. /\ last.Serial % SerialSize \in 0..(SerialSize - 1)
        /\ (last.Serial + 1) % SerialSize =
             IF last.Serial + 1 = SerialSize THEN 0 ELSE last.Serial + 1
    BY <1>1, Modulo, NextModulo
  <1>4. /\ last.TimeBack % TimeBackSize = last.TimeBack
        /\ (last.TimeBack + 1) % TimeBackSize =
             IF last.TimeBack + 1 = TimeBackSize THEN 0 ELSE last.TimeBack + 1
    BY <1>1, NextModulo
  <1>5. GenSerial(GenTime(t)) \in 0..(SerialSize - 1)
    BY <1>1, <1>3 DEF GenSerial
  <1>6. GenTimeBack(GenTime(t)) \in 0..(TimeBackSize - 1)
    <2>1. CASE WentBack(GenTime(t))
      <3>1. GenTimeBack(GenTime(t)) = (last.TimeBack + 1) % TimeBackSize
        BY <2>1 DEF GenTimeBack
      <3>2. (last.TimeBack + 1) % TimeBackSize \in 0..(TimeBackSize - 1)
        <4>1. last.TimeBack + 1 \in Int
          BY <1>1
        <4> QED BY <4>1, Modulo
      <3> QED BY <3>1, <3>2
    <2>2. CASE ~WentBack(GenTime(t))
      <3>1. GenTimeBack(GenTime(t)) = last.TimeBack % TimeBackSize
        BY <2>2 DEF GenTimeBack
      <3> QED BY <3>1, <1>1, <1>4
    <2> QED BY <2>1, <2>2
  <1>7. Given(t) \in Components
    BY <1>2, <1>5, <1>6 DEF Given, Components
  <1>8. ~Changed(GenTime(t)) =>
          Given(t).Serial = IF last.Serial + 1 = SerialSize THEN 0 ELSE last.Serial + 1
    BY <1>3 DEF Given, GenSerial
  <1>9. /\ ~WentBack(GenTime(t)) => Given(t).TimeBack = last.TimeBack
        /\ WentBack(GenTime(t)) /\ last.TimeBack + 1 < TimeBackSize =>
             Given(t).TimeBack = last.TimeBack + 1
    BY <1>1, <1>4 DEF Given, GenTimeBack
  <1> QED BY <1>2, <1>7, <1>8, <1>9

\* A call that answers INVALID_ID keeps the invariant.
LEMMA NothingIssuedIInv ==
  ASSUME IInv, NothingIssued, curr' \in Components, calls' \in Nat
  PROVE  IInv'
  <1>1. TypeOK'
    BY DEF IInv, TypeOK, NothingIssued
  <1>2. NodeKept'
    BY DEF IInv, NodeKept, NothingIssued
  <1>3. ~overrun' => (Counted /\ Ordered /\ RunSerials /\ ~repeated)'
    BY DEF IInv, NothingIssued, Counted, Ordered, RunSerials, SamePass, Behind
  <1> QED BY <1>1, <1>2, <1>3 DEF IInv

\* What a call of ID that gives a number does, in terms of Given.
LEMMA IDGives ==
  ASSUME NEW t \in Int, ID(t)
  PROVE  /\ last' = Given(t) /\ curr' = last /\ calls' = calls + 1
         /\ issued' = issued \cup {Given(t)}
         /\ repeated' = (repeated \/ \E i \in issued : Assemble(i) = Assemble(Given(t)))
         /\ run' = IF Changed(GenTime(t)) THEN 1 ELSE run + 1
         /\ backs' = IF WentBack(GenTime(t)) THEN backs + 1 ELSE backs
         /\ overrun' = (overrun \/ run' > SerialSize \/ backs' >= TimeBackSize)
  BY DEF ID, Record, Given, Call

\* The number is new: the pass, the time or the serial tells it from all others.
LEMMA GivenIsNew ==
  ASSUME IInv, NEW t \in Int, ID(t), ~overrun'
  PROVE  /\ Given(t) \notin issued
         /\ Counted'
         /\ Ordered'
         /\ RunSerials'
  <1> USE SnowflakeAssumption
  <1> DEFINE time == GenTime(t)
             c == Given(t)
  <1>1. /\ TypeOK /\ NodeKept /\ ~overrun
        /\ Counted /\ Ordered /\ RunSerials
    BY IDGives DEF IInv
  <1>2. /\ run' <= SerialSize /\ backs' < TimeBackSize
    <2>1. ~(run' > SerialSize \/ backs' >= TimeBackSize)
      BY IDGives
    <2>2. run' \in Nat /\ backs' \in Nat
      BY <1>1, IDGives DEF TypeOK
    <2> QED BY <2>1, <2>2
  <1>3. /\ c \in Components /\ c.Time = time /\ c.Node = node
    BY <1>1, GivenComponents DEF Given
  <1>4. c.TimeBack = backs'
    <2>1. CASE WentBack(time)
      BY <2>1, <1>1, <1>2, IDGives, GivenComponents DEF Counted, TypeOK
    <2>2. CASE ~WentBack(time)
      BY <2>2, <1>1, <1>2, IDGives, GivenComponents DEF Counted, TypeOK
    <2> QED BY <2>1, <2>2
  <1>5. /\ last' = c /\ issued' = issued \cup {c}
    BY IDGives
  <1>6. Counted'
    BY <1>2, <1>4, <1>5 DEF Counted
  <1>7. last \in Components /\ issued \subseteq Components /\ run \in Nat /\ backs \in Nat
    BY <1>1 DEF TypeOK
  <1> HIDE DEF time, c
  <1>8. CASE WentBack(time)
    <2>1. \A i \in issued : i.TimeBack < c.TimeBack
      <3>1. c.TimeBack = last.TimeBack + 1
        BY <1>8, <1>1, <1>4, IDGives DEF Counted, time
      <3> QED BY <3>1, <1>1, <1>7 DEF Ordered, Components
    <2>2. run' = 1 /\ c.Serial \in 0..(SerialSize - 1)
      BY <1>8, <1>3, <1>7, IDGives DEF WentBack, Changed, Components, time
    <2>3. c \notin issued
      BY <2>1, <1>3 DEF Components
    <2>4. Ordered'
      BY <2>1, <1>3, <1>5, <1>7 DEF Ordered, SamePass, Components
    <2>5. RunSerials'
      <3>1. \A i \in issued : ~(i.TimeBack = c.TimeBack)
        BY <2>1, <1>3, <1>7 DEF Components
      <3>2. c.Serial = Behind(0)'
        BY <1>5, <2>2 DEF Behind
      <3>3. 0 \in 0..(run' - 1)
        BY <2>2
      <3> QED BY <3>1, <3>2, <3>3, <1>5 DEF RunSerials, SamePass
    <2> QED BY <2>3, <2>4, <2>5, <1>6 DEF c
  <1>9. CASE ~WentBack(time) /\ Changed(time)
    <2>1. c.TimeBack = last.TimeBack
      BY <1>9, <1>1, <1>4, IDGives DEF Counted, time
    <2>2. \A i \in issued : SamePass(i) => i.Time < time
      <3>1. issued # {} => time > last.Time
        <4>1. time \in Nat /\ last.Time \in Nat
          BY <1>3, <1>7 DEF Components
        <4> QED BY <4>1, <1>1, <1>9 DEF NodeKept, Changed, WentBack
      <3> QED BY <3>1, <1>1, <1>3, <1>7 DEF Ordered, Components
    <2>3. run' = 1 /\ c.Serial \in 0..(SerialSize - 1)
      BY <1>9, <1>3, IDGives DEF Components, time
    <2>4. c \notin issued
      BY <2>1, <2>2, <1>3, <1>7 DEF SamePass, Components
    <2>5. Ordered'
      BY <2>1, <2>2, <1>1, <1>3, <1>5, <1>7 DEF Ordered, SamePass, Components
    <2>6. RunSerials'
      <3>1. \A i \in issued : ~(i.TimeBack = c.TimeBack /\ i.Time = c.Time)
        BY <2>1, <2>2, <1>3, <1>7 DEF SamePass, Components
      <3>2. c.Serial = Behind(0)'
        BY <1>5, <2>3 DEF Behind
      <3>3. 0 \in 0..(run' - 1)
        BY <2>3
      <3> QED BY <3>1, <3>2, <3>3, <1>5 DEF RunSerials, SamePass
    <2> QED BY <2>4, <2>5, <2>6, <1>6 DEF c
  <1>10. CASE ~WentBack(time) /\ ~Changed(time)
    <2>1. c.TimeBack = last.TimeBack /\ c.Time = last.Time
      BY <1>10, <1>1, <1>3, <1>4, IDGives DEF Counted, Changed, time
    <2>2. c.Serial = IF last.Serial + 1 = SerialSize THEN 0 ELSE last.Serial + 1
      BY <1>10, <1>1, GivenComponents DEF c, time
    <2>3. run' = run + 1
      BY <1>10, IDGives DEF time
    <2>4. last.Serial \in 0..(SerialSize - 1)
      BY <1>7 DEF Components
    <2>5. \A k \in 0..(run - 1) :
            Behind(k) # c.Serial /\ k + 1 \in 0..(run' - 1) /\ Behind(k) = Behind(k + 1)'
      <3> SUFFICES ASSUME NEW k \in 0..(run - 1)
                   PROVE  Behind(k) # c.Serial /\ k + 1 \in 0..(run' - 1)
                            /\ Behind(k) = Behind(k + 1)'
        OBVIOUS
      <3>1. k + 1 < SerialSize + 0 /\ k \in Nat /\ k + 1 \in 0..(run' - 1)
        BY <1>2, <1>7, <2>3
      <3> QED BY <3>1, <1>5, <2>2, <2>4 DEF Behind
    <2>6. \A i \in issued : SamePass(i) /\ i.Time = last.Time => i.Serial # c.Serial
      BY <2>5, <1>1 DEF RunSerials
    <2>7. c \notin issued
      BY <2>1, <2>6 DEF SamePass
    <2>8. Ordered'
      BY <2>1, <1>1, <1>3, <1>5, <1>7 DEF Ordered, SamePass, Components
    <2>9. RunSerials'
      <3>1. c.Serial = Behind(0)' /\ 0 \in 0..(run' - 1)
        BY <1>3, <1>5, <1>7, <2>3 DEF Behind, Components
      <3>2. ASSUME NEW i \in issued, SamePass(i), i.Time = last.Time
            PROVE  \E k \in 0..(run' - 1) : i.Serial = Behind(k)'
        <4>1. PICK k \in 0..(run - 1) : i.Serial = Behind(k)
          BY <3>2, <1>1 DEF RunSerials
        <4>2. k + 1 \in 0..(run' - 1) /\ i.Serial = Behind(k + 1)'
          BY <4>1, <2>5
        <4> QED BY <4>2
      <3> QED BY <3>1, <3>2, <2>1, <1>5 DEF RunSerials, SamePass
    <2> QED BY <2>7, <2>8, <2>9, <1>6 DEF c
  <1> QED BY <1>8, <1>9, <1>10

LEMMA NextIInv == IInv /\ [Next]_vars => IInv'
  <1> SUFFICES ASSUME IInv, [Next]_vars PROVE IInv'
    OBVIOUS
  <1> USE SnowflakeAssumption
  <1>1. TypeOK
    BY DEF IInv
  <1>2. ASSUME NEW t \in Clock, IDTimeFails(t) PROVE IInv'
    <2>1. curr' \in Components /\ calls' \in Nat
      BY <1>1, <1>2 DEF IDTimeFails, Call, TypeOK
    <2> QED BY <2>1, <1>2, NothingIssuedIInv DEF IDTimeFails
  <1>3. ASSUME NEW t \in Clock, IDNodeFails(t) PROVE IInv'
    <2>1. GenTime(t) \in 0..(TimeSize - 1)
      BY <1>1, GivenComponents
    <2>2. curr' \in Components /\ calls' \in Nat
      BY <2>1, <1>1, <1>3 DEF IDNodeFails, Call, TypeOK, Components
    <2> QED BY <2>2, <1>3, NothingIssuedIInv DEF IDNodeFails
  <1>4. ASSUME NEW t \in Clock, ID(t) PROVE IInv'
    <2>1. Given(t) \in Components
      BY <1>1, GivenComponents
    <2>2. TypeOK'
      <3>1. /\ last' \in Components /\ curr' \in Components /\ issued' \subseteq Components
            /\ run' \in Nat /\ backs' \in Nat /\ calls' \in Nat
        BY <2>1, <1>1, <1>4, IDGives DEF TypeOK
      <3>2. repeated' \in BOOLEAN /\ overrun' \in BOOLEAN
        BY <1>4 DEF ID, Record
      <3> QED BY <3>1, <3>2 DEF TypeOK
    <2>3. NodeKept'
      <3>1. Given(t).Node = node
        BY DEF Given
      <3>2. last' = Given(t) /\ issued' = issued \cup {Given(t)}
        BY <1>4, IDGives
      <3> QED BY <3>1, <3>2 DEF IInv, NodeKept
    <2>4. ASSUME ~overrun' PROVE (Counted /\ Ordered /\ RunSerials /\ ~repeated)'
      <3>1. Given(t) \notin issued /\ (Counted /\ Ordered /\ RunSerials)'
        BY <1>4, <2>4, GivenIsNew
      <3>2. ~repeated
        BY <1>4, <2>4, IDGives DEF IInv
      <3>3. \A i \in issued : Assemble(i) # Assemble(Given(t))
        BY <3>1, <2>1, <1>1, AssembleInjective DEF TypeOK
      <3> QED BY <3>1, <3>2, <3>3, <1>4, IDGives
    <2> QED BY <2>2, <2>3, <2>4 DEF IInv
  <1>5. CASE UNCHANGED vars
    <2>1. NothingIssued /\ curr' \in Components /\ calls' \in Nat
      BY <1>1, <1>5 DEF vars, NothingIssued, TypeOK
    <2> QED BY <2>1, NothingIssuedIInv
  <1> QED BY <1>2, <1>3, <1>4, <1>5 DEF Next

-----------------------------------------------------------------------------
(***************************************************************************)
(* The invariant holds of every generator, whatever the sizes of its       *)
(* components, the readings of its clock and the calls that fail.          *)
(***************************************************************************)
THEOREM Invariance == Spec => []IInv
  <1>1. Init => IInv
    BY InitIInv
  <1>2. IInv /\ [Next]_vars => IInv'
    BY NextIInv
  <1> QED BY <1>1, <1>2, PTL DEF Spec

\* Components keep to their bits, so that _assemble never mixes them.
THEOREM TypeCorrect == Spec => []TypeOK
  <1>1. IInv => TypeOK
    BY DEF IInv
  <1> QED BY <1>1, Invariance, PTL

(***************************************************************************)
(* Within what the serial and TimeBack can count, ID gives no number       *)
(* twice, even if the clock stands still, goes back, wraps in its bits, or *)
(* calls fail between.                                                     *)
(***************************************************************************)
THEOREM UniqueNumbers == Spec => []UniqueWithinCapacity
  <1>1. IInv => UniqueWithinCapacity
    BY DEF IInv, UniqueWithinCapacity
  <1> QED BY <1>1, Invariance, PTL
=============================================================================
