------------------------------- MODULE Hours -------------------------------
(***************************************************************************)
(* The hours of one employee: overtime within the caps of article 178      *)
(* (journey/overtime.service.ts) and the clock (clocking.service.ts).      *)
(* Both test what they have read and then insert, with no transaction and  *)
(* no key that would refuse a second row.                                  *)
(***************************************************************************)
EXTENDS Database, Functions, FiniteSetsExt

CONSTANTS
  WorkDay,       \* days, all of one year
  WeekOf,        \* [WorkDay -> Nat]
  Extra,         \* bound: the hours that are asked for at once
  Ordinary,      \* the hours of the journey, which count in the day
  MaxDaily, MaxWeekly, MaxYearly,
  Clock          \* bound: the times the employee clocks in

HoursConstants ==
  /\ IsFiniteSet(WorkDay) /\ WeekOf \in [WorkDay -> Nat]
  /\ IsFiniteSet(Extra) /\ Extra # {} /\ Extra \subseteq Nat \ {0}
  /\ {Ordinary, MaxDaily, MaxWeekly, MaxYearly} \subseteq Nat
  /\ Ordinary <= MaxDaily            \* no journey is longer than a day may be
  /\ IsFiniteSet(Clock) /\ Clock \subseteq Nat
  /\ WorkDay \cap ({"clock"} \X Clock) = {}
  /\ IsFiniteSet(Session)

vars == <<db, mine, at, job, calm>>

\* What was recorded as overtime each day, and the clocks, in order.
Turn(c) == <<"clock", c>>
Row == WorkDay \cup {Turn(c) : c \in Clock}

ClockState == {"none", "open", "open by hand", "closed"}

Init ==
  /\ db = [r \in Row |-> IF r \in WorkDay THEN 0 ELSE "none"]
  /\ RequestsInit

Span == {"day", "week", "year"}

DaysOf(span, d) ==
  CASE span = "day" -> {d} [] span = "week" -> {e \in WorkDay : WeekOf[e] = WeekOf[d]}
    [] OTHER -> WorkDay

Recorded(span, d) == SumFunction([e \in DaysOf(span, d) |-> db[e]])

Cap(span) ==
  CASE span = "day" -> MaxDaily - Ordinary [] span = "week" -> MaxWeekly [] OTHER -> MaxYearly

-----------------------------------------------------------------------------
(* Overtime, of the kind that is capped.                                    *)

StartOvertime(s) ==
  \E d \in WorkDay, h \in Extra :
    Begin(s, "overtime", [day |-> d, hours |-> h, unread |-> Span])

\* Mutant of Fits: the hours that are asked for are not counted.
FitsBefore(j, span) == Recorded(span, j.day) <= Cap(span)

\* validateCaps
Fits(j, span) == Recorded(span, j.day) + j.hours <= Cap(span)

\* sumAccumulated: three queries sent at once, each read when it comes.
SumAccumulated(s) ==
  /\ at[s] = "overtime"
  /\ \E span \in job[s].unread :
       IF Fits(job[s], span)
       THEN Look(s, "overtime", [job[s] EXCEPT !.unread = @ \ {span}])
       ELSE Rollback(s)

CreateOvertime(s) ==
  /\ at[s] = "overtime" /\ job[s].unread = {}
  /\ Apply(s, [r \in {job[s].day} |-> db[r] + job[s].hours], "idle", NoJob)

-----------------------------------------------------------------------------
(* The clock.                                                               *)

Opened == {c \in Clock : db[Turn(c)] \in {"open", "open by hand"}}
Running == {c \in Clock : db[Turn(c)] = "open"}
Unused == {c \in Clock : db[Turn(c)] = "none"}
Put(s, c, state) == Apply(s, [r \in {Turn(c)} |-> state], "idle", NoJob)

\* registerClockIn: an open clock is looked for first.
StartClockIn(s) == Opened = {} /\ Begin(s, "clock in", NoJob)

ClockIn(s) == at[s] = "clock in" /\ Unused # {} /\ Put(s, Min(Unused), "open")

\* registerManualClockIn looks for nothing.
StartManualClockIn(s) == Begin(s, "manual in", NoJob)
ManualClockIn(s) == at[s] = "manual in" /\ Unused # {} /\ Put(s, Min(Unused), "open by hand")

\* registerClockOut: the last to start of those open when the row is written; one
\* that was entered by hand may have started at any time.
StartClockOut(s) == Opened # {} /\ Begin(s, "clock out", NoJob)

ClockOut(s) ==
  /\ at[s] = "clock out"
  /\ IF Opened = {} THEN Rollback(s)
     ELSE \E c \in (Opened \ Running) \cup {Max(Running) : x \in Running} : Put(s, c, "closed")

\* registerManualClockOut: the one that is named.
StartManualClockOut(s) == \E c \in Clock : Begin(s, "manual out", c)

ManualClockOut(s) ==
  /\ at[s] = "manual out"
  /\ IF job[s] \in Opened THEN Put(s, job[s], "closed") ELSE Rollback(s)

Clocking(s) == \/ StartClockIn(s) \/ ClockIn(s) \/ StartManualClockIn(s) \/ ManualClockIn(s)
               \/ StartClockOut(s) \/ ClockOut(s) \/ StartManualClockOut(s) \/ ManualClockOut(s)

Next == \E s \in Session :
          StartOvertime(s) \/ SumAccumulated(s) \/ CreateOvertime(s) \/ Clocking(s) \/ Fail(s)

Spec == Init /\ [][Next]_vars

-----------------------------------------------------------------------------
(* Properties.                                                              *)

TypeOK ==
  /\ \A d \in WorkDay : db[d] \in Nat
  /\ \A c \in Clock : db[Turn(c)] \in ClockState

Others == Cardinality(Session) - 1

\* No day, week or year has more overtime than its cap and what the other
\* requests that are served at the same time may add to what each has read, and
\* none has more than its cap while they come one at a time; nor does the clock
\* run more often than there are requests, or once.
HoursBounded ==
  /\ \A d \in WorkDay, span \in Span :
       Recorded(span, d) <= Cap(span) + (IF calm THEN 0 ELSE Others * Max(Extra))
  /\ Cardinality(Running) <= 1 + (IF calm THEN 0 ELSE Others)

=============================================================================
