----------------------------- MODULE TimeValue ------------------------------
(***************************************************************************)
(* libtimer: Time, seconds and nanoseconds with the arithmetic that the    *)
(* time-outs of locks and semaphores are computed with.  Two objects; the  *)
(* model keeps what each should amount to (exact).  Division and remainder *)
(* are those of C: they round towards zero.                                *)
(***************************************************************************)
EXTENDS Integers

CONSTANTS
  Nano,                 \* nanoseconds of a second
  Objects,
  Longs,                \* what callers pass as a number
  MaxExact              \* bound: what an object and its seconds amount to

VARIABLES
  second_, nanosecond_,
  exact,
  signed                \* objects that a negative number went into

vars == <<second_, nanosecond_, exact, signed>>

Quot(n) == IF n < 0 THEN -((-n) \div Nano) ELSE n \div Nano
Rem(n) == n - Quot(n) * Nano

Init ==
  /\ second_ = [x \in Objects |-> 0] /\ nanosecond_ = [x \in Objects |-> 0]
  /\ exact = [x \in Objects |-> 0] /\ signed = {}

\* x becomes s seconds and n nanoseconds, which should be e; neg: because of
\* a negative number, or from an object that holds one.
Becomes(x, s, n, e, neg) ==
  /\ {e, s * Nano} \subseteq -MaxExact..MaxExact
  /\ second_' = [second_ EXCEPT ![x] = s]
  /\ nanosecond_' = [nanosecond_ EXCEPT ![x] = n]
  /\ exact' = [exact EXCEPT ![x] = e]
  /\ signed' = IF neg THEN signed \cup {x} ELSE signed \ {x}

\* Too many nanoseconds make seconds; too few take one.
Carry(s, n) ==
  IF n >= Nano THEN [s |-> s + n \div Nano, n |-> n % Nano] ELSE [s |-> s, n |-> n]
Borrow(s, n) == IF n < 0 THEN [s |-> s - 1, n |-> n + Nano] ELSE [s |-> s, n |-> n]

Assign(x, l) == Becomes(x, Quot(l), Rem(l), l, l < 0)

\* operator+ and +=, with another object or a number.
Plus(x, s, n, e, neg) ==
  LET c == Carry(second_[x] + s, nanosecond_[x] + n)
  IN  Becomes(x, c.s, c.n, exact[x] + e, neg \/ x \in signed)
PlusTime(x, y) == Plus(x, second_[y], nanosecond_[y], exact[y], y \in signed)
PlusLong(x, l) == Plus(x, Quot(l), Rem(l), l, l < 0)

\* operator- and -=.
Minus(x, s, n, e, neg) ==
  LET d == Borrow(second_[x] - s, nanosecond_[x] - n)
  IN  Becomes(x, d.s, d.n, exact[x] - e, neg \/ x \in signed)
MinusTime(x, y) == Minus(x, second_[y], nanosecond_[y], exact[y], y \in signed)
MinusLong(x, l) == Minus(x, Quot(l), Rem(l), l, l < 0)

\* SetTime of so many parts of a second; unit is the nanoseconds of a part.
SetTime(x, l, unit) == Becomes(x, Quot(l * unit), Rem(l * unit), l * unit, l < 0)

SetSecond(x, l) == Becomes(x, l, nanosecond_[x], l * Nano + nanosecond_[x], x \in signed)

\* The seconds that SetNanoSecond makes are added to those there are.
SetNanoSecond(x, l) ==
  LET c == Carry(second_[x], l) d == Borrow(c.s, c.n)
  IN  Becomes(x, d.s, d.n, second_[x] * Nano + l, l < -Nano)

GetTime(x, unit) == second_[x] * (Nano \div unit) + Quot(nanosecond_[x] * (Nano \div unit))
Equal(x, y) == second_[x] = second_[y] /\ nanosecond_[x] = nanosecond_[y]
Less(x, y) == IF second_[x] = second_[y] THEN nanosecond_[x] < nanosecond_[y] ELSE second_[x] < second_[y]
IsZero(x) == second_[x] = 0 /\ nanosecond_[x] = 0
IsPositive(x) == ~(second_[x] < 0 /\ nanosecond_[x] < 0)

Next ==
  \E x \in Objects :
    \/ \E y \in Objects : PlusTime(x, y) \/ MinusTime(x, y)
    \/ \E l \in Longs :
         \/ Assign(x, l) \/ PlusLong(x, l) \/ MinusLong(x, l)
         \/ SetTime(x, l, 1) \/ SetTime(x, l, Nano) \/ SetSecond(x, l) \/ SetNanoSecond(x, l)

Spec == Init /\ [][Next]_vars

-----------------------------------------------------------------------------
\* An object amounts to what the calls make of it, whatever is carried or
\* borrowed.  Unless a negative number went into it, its nanoseconds are less
\* than a second, so that the comparisons, which look at the seconds first,
\* and IsZero are those of the amounts - and IsPositive is true of every
\* such object, the negative ones included.
ExactTime ==
  \A x \in Objects :
    /\ second_[x] * Nano + nanosecond_[x] = exact[x]
    /\ x \notin signed => nanosecond_[x] \in 0..Nano - 1 /\ IsPositive(x)
    /\ \A y \in Objects \ signed : x \notin signed =>
         /\ Less(x, y) <=> exact[x] < exact[y]
         /\ Equal(x, y) <=> exact[x] = exact[y]
    /\ x \notin signed => (IsZero(x) <=> exact[x] = 0) /\ GetTime(x, 1) = exact[x]
=============================================================================
