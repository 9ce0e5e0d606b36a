------------------------------ MODULE Crontab -------------------------------
(***************************************************************************)
(* libtimer: the next date of a crontab rule.  A field of the rule's text  *)
(* is the frequencies and the values it names, each once and in order, and *)
(* whether it is "*" as written.  A date is a struct tm.  Next works on a  *)
(* date from the seconds up and goes on to the next field while the one    *)
(* before wrapped around; Date::Set does not take every number it is given *)
(* (refused).                                                              *)
(***************************************************************************)
EXTENDS Naturals, Integers, Sequences, FiniteSets

CONSTANTS
  Rules,                \* sequences of fields
  Starts,               \* the dates a caller begins with
  MaxYear               \* bound: no date is asked for after this year

VARIABLES
  rule_, sub_rule_vec_,
  curr, next,           \* the last call's argument and result
  refused,              \* the fields that did not take the number Next set
  ended,                \* the year wrapped around
  asked                 \* Next was called

vars == <<rule_, sub_rule_vec_, curr, next, refused, ended, asked>>

Fields == <<"Year", "Month", "DayOfMonth", "Week", "DayOfWeek", "Hour", "Minute", "Second">>
Names == {Fields[i] : i \in DOMAIN Fields}

Least(s) == CHOOSE v \in s : \A w \in s : v <= w

-----------------------------------------------------------------------------
\* Date::Get and Set.
Get(tm, field) ==
  CASE field = "Year" -> tm.year + 1900
    [] field = "Month" -> tm.mon + 1
    [] field = "Week" -> (tm.yday \div 7) + 1
    [] field = "DayOfWeek" -> tm.wday + 1
    [] field = "DayOfMonth" -> tm.mday
    [] field = "Hour" -> tm.hour
    [] field = "Minute" -> tm.min
    [] field = "Second" -> tm.sec

Set(tm, value, field) ==
  CASE field = "Year" -> [tm EXCEPT !.year = value - 1900]
    [] field = "Month" -> IF value >= 12 THEN tm ELSE [tm EXCEPT !.mon = value - 1]
    [] field = "Week" -> tm
    [] field = "DayOfWeek" ->
         IF value >= 7 THEN tm ELSE [tm EXCEPT !.yday = (tm.yday \div 7) + value - 1]
    [] field = "DayOfMonth" -> IF value > 31 THEN tm ELSE [tm EXCEPT !.mday = value]
    [] field = "Hour" -> IF value >= 24 THEN tm ELSE [tm EXCEPT !.hour = value]
    [] field = "Minute" -> IF value >= 60 THEN tm ELSE [tm EXCEPT !.min = value]
    [] field = "Second" -> IF value >= 60 THEN tm ELSE [tm EXCEPT !.sec = value]

-----------------------------------------------------------------------------
\* The largest number a field of a rule may name, and the number that a
\* frequency counts modulo.
Limit == [Month |-> 12, DayOfMonth |-> 31, Week |-> 56, DayOfWeek |-> 7,
          Hour |-> 24, Minute |-> 60, Second |-> 60]
Over(field, n) ==
  CASE field = "Year" -> FALSE
    [] field = "Minute" -> n >= Limit[field]
    [] OTHER -> n > Limit[field]

\* _parse_sub_rule accepts the field.
SubRuleValid(field, sub) ==
  /\ sub.frequency = {} \/ sub.value = {}
  /\ Cardinality(sub.frequency) + Cardinality(sub.value) > 0
  /\ Cardinality(sub.frequency) <= 1
  /\ \A v \in sub.value : field # "Year" => v <= Limit[field]

\* Variant: a value that is the current one is taken again.
NextValueAgain(sub, c) ==
  LET later == {v \in sub.value : v >= c} IN
  IF later = {} THEN [to |-> Least(sub.value), buckle |-> TRUE] ELSE [to |-> Least(later), buckle |-> FALSE]

NextValue(sub, c) ==
  LET later == {v \in sub.value : v > c} IN
  IF later = {} THEN [to |-> Least(sub.value), buckle |-> TRUE] ELSE [to |-> Least(later), buckle |-> FALSE]

SubRuleNext(field, sub, c) ==
  IF sub.frequency = {} THEN NextValue(sub, c)
  ELSE LET n == c + Least(sub.frequency) IN
       IF Over(field, n) THEN [to |-> n % Limit[field], buckle |-> TRUE] ELSE [to |-> n, buckle |-> FALSE]

-----------------------------------------------------------------------------
\* _parse_rule: of month and week, and of the two kinds of day, one is "*"
\* and is skipped; a rule with a bad field is empty.
Star(rule, field) == \E i \in DOMAIN Fields : Fields[i] = field /\ rule[i].star
Both(rule) == (~Star(rule, "Week") /\ ~Star(rule, "Month"))
              \/ (~Star(rule, "DayOfWeek") /\ ~Star(rule, "DayOfMonth"))
Parse(rule) ==
  IF Len(rule) = Len(Fields) /\ ~Both(rule) /\ \A i \in DOMAIN rule : SubRuleValid(Fields[i], rule[i])
  THEN rule ELSE <<>>
Skipped(rule) ==
  {IF Star(rule, "Week") THEN "Week" ELSE "Month",
   IF Star(rule, "DayOfWeek") THEN "DayOfWeek" ELSE "DayOfMonth"}

\* Crontab::Next: what is left to do at field i, from the last to the first.
Walk(tm) ==
  LET from[i \in 0..Len(Fields)] ==   \* i fields are left
        IF i = Len(Fields) THEN [tm |-> tm, going |-> TRUE, refused |-> {}]
        ELSE LET before == from[i + 1] field == Fields[i + 1] IN
             IF ~before.going \/ field \in Skipped(rule_) THEN before
             ELSE LET s == SubRuleNext(field, sub_rule_vec_[i + 1], Get(before.tm, field))
                      tm2 == Set(before.tm, s.to, field)
                  IN  [tm |-> tm2, going |-> s.buckle,
                       refused |-> before.refused \cup IF Get(tm2, field) = s.to THEN {} ELSE {field}]
  IN  from[0]

Init ==
  /\ rule_ \in Rules /\ sub_rule_vec_ = Parse(rule_)
  /\ curr \in Starts /\ next = curr /\ refused = {} /\ ended = FALSE /\ asked = FALSE

\* A caller asks for the date after the last one it was given.
Next ==
  /\ sub_rule_vec_ # <<>> /\ Get(next, "Year") <= MaxYear
  /\ LET w == Walk(next) IN next' = w.tm /\ refused' = w.refused /\ ended' = w.going
  /\ curr' = next /\ asked' = TRUE
  /\ UNCHANGED <<rule_, sub_rule_vec_>>

Spec == Init /\ [][Next]_vars

-----------------------------------------------------------------------------
\* Dates in the order of the fields, without week and day of the week.
Clock == <<"Year", "Month", "DayOfMonth", "Hour", "Minute", "Second">>
Before(d, e) ==
  \E k \in DOMAIN Clock :
    /\ Get(d, Clock[k]) < Get(e, Clock[k])
    /\ \A j \in 1..k - 1 : Get(d, Clock[j]) = Get(e, Clock[j])

Sub(field) == sub_rule_vec_[CHOOSE i \in DOMAIN Fields : Fields[i] = field]
OnRule(d) == \A f \in Names \ Skipped(rule_) : Sub(f).value # {} => Get(d, f) \in Sub(f).value
\* No field stays where it is: "*/0" is a rule as any other.
Moves == \A f \in Names : 0 \notin Sub(f).frequency
\* A number of a field that the rule allows between two others.
Between(f, v, w) == \E n \in v + 1..w - 1 : Sub(f).value = {} \/ n \in Sub(f).value

TypeOK ==
  /\ sub_rule_vec_ \in {<<>>, rule_}
  /\ refused \subseteq Names /\ ended \in BOOLEAN /\ asked \in BOOLEAN

\* Asked for the date after one on the rule, Next names a later date on the
\* rule, and none lies between if every frequency is one - unless Date
\* refused a number, a frequency is zero, or the rule names no later year.
NextOnRule ==
  asked /\ OnRule(curr) /\ refused = {} /\ ~ended /\ Moves =>
    /\ Before(curr, next) /\ OnRule(next)
    /\ (\A f \in Names : Sub(f).frequency \subseteq {1}) =>
         \E k \in DOMAIN Clock :
           /\ \A j \in 1..k - 1 : Get(next, Clock[j]) = Get(curr, Clock[j])
           /\ Get(next, Clock[k]) > Get(curr, Clock[k])
           /\ ~Between(Clock[k], Get(curr, Clock[k]), Get(next, Clock[k]))
           /\ \A j \in k + 1..Len(Clock) :
                \A v \in Sub(Clock[j]).value : v >= Get(next, Clock[j]) /\ v <= Get(curr, Clock[j])
=============================================================================
