--------------------------- MODULE MCPeople_proofs ---------------------------
(***************************************************************************)
(* What is proved of the parts of hr, of the behaviours that TLC explores: *)
(* each part keeps its invariant while it is the one that runs.  Payroll,  *)
(* the overtime and the clock, the heirs, the year's profit, and service   *)
(* up to the settlement, in this order.                                    *)
(***************************************************************************)
EXTENDS MCPeople, Sequences, Sums, TLAPS

-----------------------------------------------------------------------------
(* Payroll: the invariant and its induction are those of Payroll_proofs.    *)

PayInv == part = "pay" => Pay!Sound /\ Pay!Closing

\* A behaviour that begins in payroll begins within its invariant.
LEMMA PayBegins == Init => PayInv
BY PeopleConstants, Pay!PayrollSteps DEF Init, PayInv

\* The steps of payroll keep its invariant and close a sheet once.
LEMMA PaySteps == PayInv /\ [Next]_vars => PayInv' /\ [part = "pay" => Pay!ClosesOnce]_vars
<1> SUFFICES ASSUME PayInv, [Next]_vars
             PROVE  PayInv' /\ [part = "pay" => Pay!ClosesOnce]_vars
  OBVIOUS
<1>0. part' = part BY DEF Next, vars
<1>1. CASE part = "pay"
  <2>1. [Pay!Next]_(Pay!vars) BY <1>1 DEF Next, vars, Pay!vars
  <2>2. Pay!Sound' /\ Pay!Closing' /\ [Pay!ClosesOnce]_(Pay!vars)
    BY <1>1, <2>1, PeopleConstants, Pay!PayrollSteps DEF PayInv
  <2>3. [Pay!ClosesOnce]_vars
    <3> SUFFICES ASSUME vars' # vars, Pay!vars' = Pay!vars PROVE FALSE
      BY <2>2
    <3> QED BY <1>1, <1>0 DEF Next, vars, Pay!vars
  <2> QED BY <2>2, <2>3 DEF PayInv
<1>2. CASE part # "pay" BY <1>0, <1>2 DEF PayInv
<1> QED BY <1>1, <1>2

\* What left a debt is what the details of the sheets and the payments say, whatever
\* the requests that calculate, pay, annul and collect do at the same time.
THEOREM DebtsAlwaysAddUp == Spec => []DebtAddsUp
<1>1. PayInv => DebtAddsUp
  BY PeopleConstants, Pay!PayrollSteps DEF PayInv, DebtAddsUp
<1> QED BY <1>1, PayBegins, PaySteps, PTL DEF Spec

\* A sheet closes once, with everybody in it, and is not opened again.
THEOREM SheetsCloseOnce == Spec => SheetClosesOnce
BY PayBegins, PaySteps, PTL DEF Spec, SheetClosesOnce

-----------------------------------------------------------------------------
(* Overtime and the clock.  A request that has tested a span holds a promise*)
(* of its hours against it until it inserts the row or gives up; what is    *)
(* recorded and promised stays within the cap and what the others could     *)
(* have promised in between, and nothing of the kind while all is calm.     *)

HourLabels == {"idle", "overtime", "clock in", "manual in", "clock out", "manual out"}
Asked == [day : Many, hours : Extra, unread : SUBSET Time!Span]

DaysTyped == \A d \in Many : db[d] \in Nat
TurnsTyped ==
  /\ DOMAIN db = Time!Row /\ \A c \in Clock : db[Time!Turn(c)] \in Time!ClockState
  /\ mine = [s \in Session |-> Unwritten]

\* What the requests hold.
JobsTyped ==
  /\ at \in [Session -> HourLabels] /\ DOMAIN job = Session
  /\ \A s \in Session : at[s] = "overtime" => job[s] \in Asked
  /\ \A s \in Session : at[s] = "manual out" => job[s] \in Clock

\* Two requests end what is calm.
OneAtMost ==
  /\ calm \in BOOLEAN
  /\ calm => \A s, t \in Session : at[s] # "idle" /\ at[t] # "idle" => s = t

HoursTyped == DaysTyped /\ TurnsTyped /\ JobsTyped /\ OneAtMost

Longest == Time!Max(Extra)

Promise(s, span, d) ==
  IF at[s] = "overtime" /\ span \notin job[s].unread /\ job[s].day \in Time!DaysOf(span, d)
  THEN job[s].hours ELSE 0

Promises(span, d) == [s \in Session |-> Promise(s, span, d)]
Promised(span, d) == SumFunctionOnSet(Promises(span, d), Session)

Slack == IF calm THEN 0 ELSE Time!Others * Longest

\* What is recorded and what is promised.
PromisesFit ==
  \A span \in Time!Span, d \in Many :
    Time!Recorded(span, d) + Promised(span, d) <= Time!Cap(span) + Slack

Entering == {s \in Session : at[s] = "clock in"}

\* The clocks that run and those that will.
ClocksFit ==
  Cardinality(Time!Running) + Cardinality(Entering) <= 1 + (IF calm THEN 0 ELSE Time!Others)

TimeInv == part = "time" => HoursTyped /\ PromisesFit /\ ClocksFit

-----------------------------------------------------------------------------

\* The operators that the instance extends are those of this module.
LEMMA SameSizes ==
  /\ \A S : Time!IsFiniteSet(S) <=> IsFiniteSet(S)
  /\ \A S : Time!Cardinality(S) = Cardinality(S)
<1>1. ASSUME NEW S PROVE Time!IsFiniteSet(S) <=> IsFiniteSet(S)
  BY DEF Time!IsFiniteSet, IsFiniteSet
<1>2. ASSUME NEW S PROVE Time!Cardinality(S) = Cardinality(S)
  BY DEF Time!Cardinality, Cardinality, Time!IsFiniteSet, IsFiniteSet
<1> QED BY <1>1, <1>2

\* What is assumed of the hours.
LEMMA HoursAssumed ==
  /\ IsFiniteSet(Many) /\ IsFiniteSet(Session)
  /\ IsFiniteSet(Extra) /\ Extra # {} /\ Extra \subseteq Nat \ {0}
  /\ {Ordinary, MaxDaily, MaxWeekly, MaxYearly} \subseteq Nat /\ Ordinary <= MaxDaily
  /\ IsFiniteSet(Clock) /\ Clock \subseteq Nat
  /\ Many \cap ({"clock"} \X Clock) = {}
BY PeopleConstants, SameSizes DEF Time!HoursConstants

\* The sum of the model is the sum of Sums.
LEMMA RecordedIs ==
  ASSUME NEW span, NEW d
  PROVE  Time!Recorded(span, d) =
           SumFunctionOnSet([e \in Time!DaysOf(span, d) |-> db[e]], Time!DaysOf(span, d))
BY DEF Time!Recorded, Time!SumFunction, Time!SumFunctionOnSet, Time!FoldFunctionOnSet,
       Time!MapThenFoldSet, SumFunctionOnSet, FoldFunctionOnSet, MapThenFoldSet

\* The same after a step.
LEMMA RecordedIsNext ==
  ASSUME NEW span, NEW d
  PROVE  Time!Recorded(span, d)' =
           SumFunctionOnSet([e \in Time!DaysOf(span, d) |-> db'[e]], Time!DaysOf(span, d))
BY DEF Time!Recorded, Time!SumFunction, Time!SumFunctionOnSet, Time!FoldFunctionOnSet,
       Time!MapThenFoldSet, SumFunctionOnSet, FoldFunctionOnSet, MapThenFoldSet,
       Time!DaysOf, Many, Weeks

\* The days of a span are finitely many, and those of each of its days.
LEMMA DaysOfSpan ==
  ASSUME NEW span \in Time!Span, NEW d \in Many
  PROVE  /\ Time!DaysOf(span, d) \subseteq Many /\ IsFiniteSet(Time!DaysOf(span, d))
         /\ d \in Time!DaysOf(span, d)
         /\ \A e \in Time!DaysOf(span, d) : Time!DaysOf(span, e) = Time!DaysOf(span, d)
<1>1. IsFiniteSet(Many) BY HoursAssumed
<1>2. Time!DaysOf(span, d) \in SUBSET Many BY DEF Time!DaysOf, Time!Span
<1>3. d \in Time!DaysOf(span, d) BY DEF Time!DaysOf, Time!Span
<1>4. ASSUME NEW e \in Time!DaysOf(span, d)
      PROVE  Time!DaysOf(span, e) = Time!DaysOf(span, d)
  BY <1>4, <1>2 DEF Time!DaysOf, Time!Span
<1> QED BY <1>1, <1>2, <1>3, <1>4, FS_Subset

\* The hours that are asked for, the caps and the requests are numbers.
LEMMA HourNumbers ==
  /\ Longest \in Nat /\ \A h \in Extra : h \in Nat /\ h <= Longest
  /\ \A span \in Time!Span : Time!Cap(span) \in Nat
  /\ IsFiniteSet(Session) /\ Cardinality(Session) \in Nat /\ Time!Others \in Int
  /\ Session # {} => Time!Others \in Nat
<1>1. Longest \in Nat /\ \A h \in Extra : h \in Nat /\ h <= Longest
  <2>1. Extra \subseteq Int /\ Extra \subseteq Nat /\ IsFiniteSet(Extra) /\ Extra # {}
    BY HoursAssumed
  <2>2. \E x \in Extra : \A y \in Extra : x >= y BY <2>1, HasExtremes
  <2>3. Longest \in Extra /\ \A y \in Extra : Longest >= y BY <2>2 DEF Longest, Time!Max
  <2> QED BY <2>1, <2>3
<1>2. \A span \in Time!Span : Time!Cap(span) \in Nat
  BY HoursAssumed DEF Time!Cap, Time!Span
<1>3. IsFiniteSet(Session) BY HoursAssumed
<1>4. Cardinality(Session) \in Nat BY <1>3, FS_CardinalityType
<1>5. Session # {} => Cardinality(Session) # 0 BY <1>3, FS_EmptySet
<1> QED BY <1>1, <1>2, <1>3, <1>4, <1>5, SameSizes DEF Time!Others

\* The rows of days and of clocks are apart.
LEMMA RowsApart ==
  /\ \A d \in Many, c \in Clock : d # Time!Turn(c)
  /\ \A b, c \in Clock : Time!Turn(b) = Time!Turn(c) => b = c
  /\ \A d \in Many : d \in Time!Row
  /\ \A c \in Clock : Time!Turn(c) \in Time!Row
BY HoursAssumed DEF Time!Turn, Time!Row

-----------------------------------------------------------------------------
(* The steps, by what they do to the tables and to the request.             *)

Moves(s, label, j) == at' = [at EXCEPT ![s] = label] /\ job' = [job EXCEPT ![s] = j]
Ends(s) == Moves(s, "idle", NoJob) /\ at[s] # "idle" /\ calm' = calm

Arrives(s) ==
  /\ at[s] = "idle" /\ db' = db /\ calm' = (calm /\ \A t \in Session : at[t] = "idle")
  /\ \/ \E j \in Asked : j.unread = Time!Span /\ Moves(s, "overtime", j)
     \/ Time!Opened = {} /\ Moves(s, "clock in", NoJob)
     \/ \E l \in {"manual in", "clock out"} : Moves(s, l, NoJob)
     \/ \E c \in Clock : Moves(s, "manual out", c)

Reads(s) ==
  /\ at[s] = "overtime" /\ db' = db /\ calm' = calm
  /\ \E span \in job[s].unread :
       /\ Time!Fits(job[s], span)
       /\ Moves(s, "overtime", [job[s] EXCEPT !.unread = @ \ {span}])

Records(s) ==
  /\ at[s] = "overtime" /\ job[s].unread = {} /\ Ends(s)
  /\ db' = [db EXCEPT ![job[s].day] = @ + job[s].hours]

Puts(s, c, state) == at[s] # "overtime" /\ Ends(s) /\ db' = [db EXCEPT ![Time!Turn(c)] = state]

Clocks(s) ==
  \E c \in Clock :
    \/ c \in Time!Unused /\ at[s] = "clock in" /\ Puts(s, c, "open")
    \/ c \in Time!Unused /\ Puts(s, c, "open by hand")
    \/ Puts(s, c, "closed")

GivesUp(s) == Ends(s) /\ db' = db

\* Replacing the value of one row.
LEMMA OneRow ==
  ASSUME NEW x \in DOMAIN db, NEW v
  PROVE  Time!Over([r \in {x} |-> v], db) = [db EXCEPT ![x] = v]
BY DEF Time!Over

\* Nothing is ever left uncommitted: each statement commits by itself.
LEMMA HourForms ==
  ASSUME HoursTyped, Time!Next
  PROVE  /\ mine' = mine
         /\ \E s \in Session : Arrives(s) \/ Reads(s) \/ Records(s) \/ Clocks(s) \/ GivesUp(s)
<1>1. PICK s \in Session :
        \/ Time!StartOvertime(s) \/ Time!SumAccumulated(s) \/ Time!CreateOvertime(s)
        \/ Time!Clocking(s) \/ Time!Fail(s)
  BY DEF Time!Next
<1>0. mine[s] = Time!Unwritten /\ [mine EXCEPT ![s] = Time!Unwritten] = mine
  BY DEF HoursTyped, TurnsTyped, Unwritten, Time!Unwritten
<1>2. CASE Time!StartOvertime(s)
  <2>1. PICK d \in Many, h \in Extra :
          Time!Begin(s, "overtime", [day |-> d, hours |-> h, unread |-> Time!Span])
    BY <1>2 DEF Time!StartOvertime
  <2>2. [day |-> d, hours |-> h, unread |-> Time!Span] \in Asked BY DEF Asked
  <2>3. Arrives(s) /\ mine' = mine
    BY <2>1, <2>2 DEF Time!Begin, Time!Goto, Time!Quiet, Arrives, Moves
  <2> QED BY <2>3
<1>r. ASSUME at[s] # "idle", Time!Rollback(s) PROVE GivesUp(s) /\ mine' = mine
  BY <1>0, <1>r DEF Time!Rollback, Time!Goto, GivesUp, Ends, Moves
<1>3. CASE Time!SumAccumulated(s)
  <2>1. PICK span \in job[s].unread :
          IF Time!Fits(job[s], span)
          THEN Time!Look(s, "overtime", [job[s] EXCEPT !.unread = @ \ {span}])
          ELSE Time!Rollback(s)
    BY <1>3 DEF Time!SumAccumulated
  <2>2. at[s] = "overtime" BY <1>3 DEF Time!SumAccumulated
  <2>3. CASE Time!Fits(job[s], span)
    <3>1. Reads(s) /\ mine' = mine
      BY <2>1, <2>2, <2>3 DEF Time!Look, Time!Goto, Reads, Moves
    <3> QED BY <3>1
  <2>4. CASE ~Time!Fits(job[s], span) BY <1>r, <2>1, <2>2, <2>4
  <2> QED BY <2>3, <2>4
<1>4. CASE Time!CreateOvertime(s)
  <2>1. /\ at[s] = "overtime" /\ job[s].unread = {}
        /\ Time!Apply(s, [r \in {job[s].day} |-> db[r] + job[s].hours], "idle", NoJob)
    BY <1>4 DEF Time!CreateOvertime
  <2>2. job[s].day \in DOMAIN db BY <2>1, RowsApart DEF HoursTyped, TurnsTyped, JobsTyped, Asked
  <2>3. [r \in {job[s].day} |-> db[r] + job[s].hours]
          = [r \in {job[s].day} |-> db[job[s].day] + job[s].hours]
    OBVIOUS
  <2>4. db' = [db EXCEPT ![job[s].day] = @ + job[s].hours]
    BY <2>1, <2>2, <2>3, OneRow DEF Time!Apply
  <2>5. Records(s) /\ mine' = mine
    BY <2>1, <2>4 DEF Time!Apply, Time!Goto, Records, Ends, Moves
  <2> QED BY <2>5
<1>5. CASE Time!Clocking(s)
  <2>1. ASSUME NEW c \in Clock, NEW st, at[s] \notin {"idle", "overtime"}, Time!Put(s, c, st)
        PROVE  Puts(s, c, st) /\ mine' = mine
    <3>1. Time!Turn(c) \in DOMAIN db BY RowsApart DEF HoursTyped, TurnsTyped
    <3>2. db' = [db EXCEPT ![Time!Turn(c)] = st]
      BY <2>1, <3>1, OneRow DEF Time!Put, Time!Apply
    <3> QED BY <2>1, <3>2 DEF Time!Put, Time!Apply, Time!Goto, Puts, Ends, Moves
  <2>2. Time!Unused \subseteq Clock /\ Time!Opened \subseteq Clock
    BY DEF Time!Unused, Time!Opened
  <2>3. Time!Unused # {} => Time!Min(Time!Unused) \in Time!Unused
    <3>1. Time!Unused \in SUBSET Clock /\ Time!Unused \subseteq Int
      BY <2>2, HoursAssumed
    <3>2. IsFiniteSet(Time!Unused) BY <3>1, HoursAssumed, FS_Subset
    <3>3. Time!Unused # {} => \E x \in Time!Unused : \A y \in Time!Unused : x <= y
      BY <3>1, <3>2, HasExtremes
    <3> QED BY <3>3 DEF Time!Min
  <2>4. Time!Running # {} => Time!Max(Time!Running) \in Time!Running
    <3>0. Time!Running \subseteq Clock BY DEF Time!Running
    <3>1. Time!Running \in SUBSET Clock /\ Time!Running \subseteq Int BY <3>0, HoursAssumed
    <3>2. IsFiniteSet(Time!Running) BY <3>1, HoursAssumed, FS_Subset
    <3>3. Time!Running # {} => \E x \in Time!Running : \A y \in Time!Running : x >= y
      BY <3>1, <3>2, HasExtremes
    <3> QED BY <3>3 DEF Time!Max
  <2>5. CASE Time!StartClockIn(s) \/ Time!StartManualClockIn(s) \/ Time!StartClockOut(s)
    <3>1. Arrives(s) /\ mine' = mine
      BY <2>5 DEF Time!StartClockIn, Time!StartManualClockIn, Time!StartClockOut,
                  Time!Begin, Time!Goto, Time!Quiet, Arrives, Moves
    <3> QED BY <3>1
  <2>6. CASE Time!StartManualClockOut(s)
    <3>1. Arrives(s) /\ mine' = mine
      BY <2>6 DEF Time!StartManualClockOut, Time!Begin, Time!Goto, Time!Quiet, Arrives, Moves
    <3> QED BY <3>1
  <2>7. CASE Time!ClockIn(s)
    <3>1. Time!Min(Time!Unused) \in Time!Unused /\ at[s] = "clock in"
          /\ Time!Put(s, Time!Min(Time!Unused), "open")
      BY <2>7, <2>3 DEF Time!ClockIn
    <3>2. Puts(s, Time!Min(Time!Unused), "open") /\ mine' = mine BY <3>1, <2>1, <2>2
    <3> QED BY <3>1, <3>2, <2>2 DEF Clocks
  <2>8. CASE Time!ManualClockIn(s)
    <3>1. Time!Min(Time!Unused) \in Time!Unused /\ at[s] = "manual in"
          /\ Time!Put(s, Time!Min(Time!Unused), "open by hand")
      BY <2>8, <2>3 DEF Time!ManualClockIn
    <3>2. Puts(s, Time!Min(Time!Unused), "open by hand") /\ mine' = mine BY <3>1, <2>1, <2>2
    <3> QED BY <3>1, <3>2, <2>2 DEF Clocks
  <2>9. CASE Time!ClockOut(s)
    <3>1. at[s] = "clock out" BY <2>9 DEF Time!ClockOut
    <3>2. CASE Time!Opened = {} BY <2>9, <3>1, <3>2, <1>r DEF Time!ClockOut
    <3>3. CASE Time!Opened # {}
      <4>1. PICK c \in (Time!Opened \ Time!Running) \cup {Time!Max(Time!Running) : x \in Time!Running} :
              Time!Put(s, c, "closed")
        BY <2>9, <3>3 DEF Time!ClockOut
      <4>2. c \in Clock
        <5>1. CASE c \in Time!Opened BY <5>1, <2>2
        <5>2. CASE c \in {Time!Max(Time!Running) : x \in Time!Running}
          BY <5>2, <2>4 DEF Time!Running
        <5> QED BY <5>1, <5>2
      <4>3. Puts(s, c, "closed") /\ mine' = mine BY <3>1, <4>1, <4>2, <2>1
      <4> QED BY <4>2, <4>3 DEF Clocks
    <3> QED BY <3>2, <3>3
  <2>10. CASE Time!ManualClockOut(s)
    <3>1. at[s] = "manual out" BY <2>10 DEF Time!ManualClockOut
    <3>2. CASE job[s] \notin Time!Opened BY <2>10, <3>1, <3>2, <1>r DEF Time!ManualClockOut
    <3>3. CASE job[s] \in Time!Opened
      <4>1. job[s] \in Clock /\ Time!Put(s, job[s], "closed")
        BY <2>10, <2>2, <3>3 DEF Time!ManualClockOut, HoursTyped, JobsTyped
      <4>2. Puts(s, job[s], "closed") /\ mine' = mine BY <3>1, <4>1, <2>1
      <4> QED BY <4>1, <4>2 DEF Clocks
    <3> QED BY <3>2, <3>3
  <2> QED BY <1>5, <2>5, <2>6, <2>7, <2>8, <2>9, <2>10 DEF Time!Clocking
<1>6. CASE Time!Fail(s) BY <1>6, <1>r DEF Time!Fail
<1> QED BY <1>1, <1>2, <1>3, <1>4, <1>5, <1>6

-----------------------------------------------------------------------------
(* The induction.                                                           *)

\* The steps keep the types and the calm.
LEMMA HoursStayTyped ==
  ASSUME HoursTyped, Time!Next
  PROVE  HoursTyped'
<1>1. PICK s \in Session : Arrives(s) \/ Reads(s) \/ Records(s) \/ Clocks(s) \/ GivesUp(s)
  BY HourForms
<1>2. mine' = [t \in Session |-> Unwritten] BY HourForms DEF HoursTyped, TurnsTyped
<1>0. DaysTyped /\ TurnsTyped /\ JobsTyped /\ OneAtMost BY DEF HoursTyped
<1>3. CASE Arrives(s)
  <2> DEFINE Fitting(l, j) == /\ Moves(s, l, j)
                              /\ l = "overtime" => j \in Asked
                              /\ l = "manual out" => j \in Clock
  <2>1. \E l \in HourLabels : \E j : Fitting(l, j) BY <1>3 DEF Arrives, HourLabels
  <2> HIDE DEF Fitting
  <2>2. PICK l \in HourLabels : \E j : Fitting(l, j) BY <2>1
  <2>2a. PICK j : Fitting(l, j) BY <2>2
  <2>3. OneAtMost'
    <3>1. calm' = (calm /\ \A t \in Session : at[t] = "idle") BY <1>3 DEF Arrives
    <3>2. \A t \in Session \ {s} : at'[t] = at[t] BY <2>2a, <1>0 DEF Fitting, Moves, JobsTyped
    <3> QED BY <3>1, <3>2 DEF OneAtMost
  <2>4. JobsTyped' BY <2>2a, <1>0 DEF Fitting, Moves, JobsTyped
  <2>5. db' = db BY <1>3 DEF Arrives
  <2>6. DaysTyped' /\ TurnsTyped' BY <1>0, <1>2, <2>5 DEF DaysTyped, TurnsTyped
  <2> QED BY <2>3, <2>4, <2>6 DEF HoursTyped
<1>4. CASE Reads(s)
  <2>1. PICK span \in job[s].unread : Moves(s, "overtime", [job[s] EXCEPT !.unread = @ \ {span}])
    BY <1>4 DEF Reads
  <2>2. [job[s] EXCEPT !.unread = @ \ {span}] \in Asked
    BY <1>0, <1>4 DEF Reads, JobsTyped, Asked
  <2>3. JobsTyped' BY <1>0, <2>1, <2>2 DEF Moves, JobsTyped, HourLabels
  <2>4. at' = at BY <1>0, <1>4, <2>1 DEF Reads, Moves, JobsTyped
  <2>5. db' = db /\ calm' = calm BY <1>4 DEF Reads
  <2>6. DaysTyped' /\ TurnsTyped' BY <1>0, <1>2, <2>5 DEF DaysTyped, TurnsTyped
  <2>7. OneAtMost' BY <1>0, <2>4, <2>5 DEF OneAtMost
  <2> QED BY <2>3, <2>6, <2>7 DEF HoursTyped
<1>5. ASSUME Ends(s) PROVE JobsTyped' /\ OneAtMost'
  <2>1. JobsTyped' BY <1>0, <1>5 DEF Ends, Moves, JobsTyped, HourLabels
  <2>2. calm' = calm /\ \A t \in Session : at'[t] # "idle" => at[t] # "idle"
    BY <1>0, <1>5 DEF Ends, Moves, JobsTyped
  <2> QED BY <1>0, <2>1, <2>2 DEF OneAtMost
<1>6. CASE Records(s)
  <2>1. job[s] \in Asked BY <1>0, <1>6 DEF Records, JobsTyped
  <2>2. job[s].day \in Many /\ job[s].hours \in Nat BY <2>1, HoursAssumed DEF Asked
  <2>3. db' = [db EXCEPT ![job[s].day] = @ + job[s].hours] BY <1>6 DEF Records
  <2>4. DaysTyped'
    <3>1. \A d \in Many : db'[d] = IF d = job[s].day THEN db[d] + job[s].hours ELSE db[d]
      BY <1>0, <2>3, RowsApart DEF TurnsTyped
    <3> QED BY <1>0, <2>2, <3>1 DEF DaysTyped
  <2>5. TurnsTyped'
    <3>1. \A c \in Clock : db'[Time!Turn(c)] = db[Time!Turn(c)]
      BY <2>2, <2>3, RowsApart
    <3> QED BY <1>0, <1>2, <2>3, <3>1 DEF TurnsTyped
  <2>6. Ends(s) BY <1>6 DEF Records
  <2> QED BY <1>5, <2>4, <2>5, <2>6 DEF HoursTyped
<1>7. CASE Clocks(s)
  <2>1. PICK c \in Clock, st \in {"open", "open by hand", "closed"} : Puts(s, c, st)
    BY <1>7 DEF Clocks
  <2>2. db' = [db EXCEPT ![Time!Turn(c)] = st] /\ Ends(s) BY <2>1 DEF Puts
  <2>3. DaysTyped'
    <3>1. \A d \in Many : db'[d] = db[d] BY <1>0, <2>2, RowsApart DEF TurnsTyped
    <3> QED BY <1>0, <3>1 DEF DaysTyped
  <2>4. TurnsTyped'
    <3>1. \A b \in Clock : db'[Time!Turn(b)] = IF b = c THEN st ELSE db[Time!Turn(b)]
      BY <1>0, <2>2, RowsApart DEF TurnsTyped
    <3> QED BY <1>0, <1>2, <2>2, <3>1 DEF TurnsTyped, Time!ClockState
  <2> QED BY <1>5, <2>2, <2>3, <2>4 DEF HoursTyped
<1>8. CASE GivesUp(s)
  <2>1. Ends(s) /\ db' = db BY <1>8 DEF GivesUp
  <2>2. DaysTyped' /\ TurnsTyped' BY <1>0, <1>2, <2>1 DEF DaysTyped, TurnsTyped
  <2> QED BY <1>5, <2>1, <2>2 DEF HoursTyped
<1> QED BY <1>1, <1>3, <1>4, <1>6, <1>7, <1>8

\* What a request promises is a number of hours, at most what may be asked for.
LEMMA PromiseIs ==
  ASSUME HoursTyped, NEW t \in Session, NEW span, NEW d
  PROVE  Promise(t, span, d) \in Nat /\ Promise(t, span, d) <= Longest
<1>1. at[t] = "overtime" => job[t].hours \in Extra BY DEF HoursTyped, JobsTyped, Asked
<1> QED BY <1>1, HourNumbers DEF Promise

\* The other requests promise no more than what may come while one is served.
LEMMA OthersPromise ==
  ASSUME HoursTyped, NEW s \in Session, at[s] # "idle",
         NEW span \in Time!Span, NEW d \in Many
  PROVE  /\ SumFunctionOnSet(Promises(span, d), Session \ {s}) \in Int
         /\ SumFunctionOnSet(Promises(span, d), Session \ {s}) <= Slack
<1> DEFINE R == Session \ {s}
<1>1. IsFiniteSet(R) /\ Cardinality(R) = Time!Others
  BY HourNumbers, FS_RemoveElement, SameSizes DEF Time!Others
<1>2. \A t \in R : Promises(span, d)[t] \in Int /\ Promises(span, d)[t] <= Longest
  BY PromiseIs, HourNumbers DEF Promises
<1>3. CASE calm
  <2>1. \A t \in R : Promises(span, d)[t] = 0
    BY <1>3 DEF Promises, Promise, HoursTyped, OneAtMost
  <2> HIDE DEF R
  <2>2. SumFunctionOnSet(Promises(span, d), R) = 0 BY <1>1, <2>1, SumOfZeros
  <2> QED BY <1>3, <2>2 DEF R, Slack
<1>4. CASE ~calm
  <2> HIDE DEF R
  <2>0. Longest \in Int BY HourNumbers
  <2>1. SumFunctionOnSet(Promises(span, d), R) <= Cardinality(R) * Longest
    BY <1>1, <1>2, <2>0, SumBounded
  <2>2. SumFunctionOnSet(Promises(span, d), R) \in Int BY <1>1, <1>2, SumType
  <2> QED BY <1>1, <1>4, <2>1, <2>2 DEF R, Slack
<1> QED BY <1>3, <1>4

\* What is recorded, promised and allowed are numbers.
LEMMA FitNumbers ==
  ASSUME HoursTyped, NEW span \in Time!Span, NEW d \in Many
  PROVE  /\ Time!Recorded(span, d) \in Int /\ Promised(span, d) \in Nat
         /\ Time!Cap(span) \in Int /\ Slack \in Int /\ (Session # {} => Slack \in Nat)
<1>1. Time!Recorded(span, d) \in Int
  <2> DEFINE D == Time!DaysOf(span, d)
             f == [e \in D |-> db[e]]
  <2>1. IsFiniteSet(D) /\ \A e \in D : f[e] \in Int 
    <3>1. D \subseteq Many /\ IsFiniteSet(D) BY DaysOfSpan
    <3>2. \A e \in Many : db[e] \in Int BY DEF HoursTyped, DaysTyped
    <3> QED BY <3>1, <3>2
  <2>2. Time!Recorded(span, d) = SumFunctionOnSet(f, D) BY RecordedIs
  <2> HIDE DEF D, f
  <2> QED BY <2>1, <2>2, SumType
<1>2. Promised(span, d) \in Nat
  <2>1. \A t \in Session : Promises(span, d)[t] \in Nat
    BY PromiseIs DEF Promises
  <2> QED BY <2>1, HourNumbers, SumNatural DEF Promised
<1>3. Slack \in Int /\ (Session # {} => Slack \in Nat) BY HourNumbers DEF Slack
<1> QED BY <1>1, <1>2, <1>3, HourNumbers

\* What is allowed above the caps never shrinks.
LEMMA SlackGrows ==
  ASSUME HoursTyped, HoursTyped', calm' => calm, NEW s \in Session
  PROVE  Slack <= Slack' /\ Slack' \in Int
<1>1. Time!Others \in Nat /\ Longest \in Nat BY HourNumbers
<1>2. Time!Others * Longest \in Nat BY <1>1
<1>3. Longest' = Longest /\ Time!Others' = Time!Others BY DEF Longest, Time!Others
<1>4. Slack = IF calm THEN 0 ELSE Time!Others * Longest BY DEF Slack
<1>5. Slack' = IF calm' THEN 0 ELSE Time!Others * Longest BY <1>3 DEF Slack
<1>6. calm \in BOOLEAN /\ calm' \in BOOLEAN BY DEF HoursTyped, OneAtMost
<1>7. CASE calm' BY <1>2, <1>4, <1>5, <1>7
<1>8. CASE ~calm'
  <2>1. Slack' = Time!Others * Longest BY <1>5, <1>8
  <2>2. Slack = 0 \/ Slack = Time!Others * Longest BY <1>4
  <2> HIDE DEF Slack
  <2> QED BY <1>2, <2>1, <2>2
<1> QED BY <1>7, <1>8

\* A step that records nothing and promises no more keeps within the caps.
LEMMA StaysFit ==
  ASSUME HoursTyped, PromisesFit, HoursTyped', NEW s \in Session,
         \A d \in Many : db'[d] = db[d], calm' => calm,
         NEW span \in Time!Span, NEW d \in Many,
         \A t \in Session : Promise(t, span, d)' <= Promise(t, span, d)
  PROVE  Time!Recorded(span, d)' + Promised(span, d)' <= Time!Cap(span) + Slack'
<1> DEFINE D == Time!DaysOf(span, d)
           f == [e \in D |-> db[e]]
           g == [e \in D |-> db'[e]]
           p == Promises(span, d)
           q == [t \in Session |-> Promise(t, span, d)']
<1>1. Time!Recorded(span, d) = SumFunctionOnSet(f, D) /\ Time!Recorded(span, d)' = SumFunctionOnSet(g, D)
  BY RecordedIs, RecordedIsNext
<1>2. f = g BY DaysOfSpan
<1>3. Promised(span, d)' = SumFunctionOnSet(q, Session)
  BY DEF Promised, Promises
<1>4. \A t \in Session : p[t] \in Int /\ q[t] \in Int /\ q[t] <= p[t]
  <2>1. ASSUME NEW t \in Session PROVE Promise(t, span, d) \in Int /\ Promise(t, span, d)' \in Int
    <3>1. Promise(t, span, d) \in Nat BY PromiseIs
    <3>2. Promise(t, span, d)' \in Nat
      <4>1. at'[t] = "overtime" => job'[t].hours \in Extra BY DEF HoursTyped, JobsTyped, Asked
      <4> QED BY <4>1, HourNumbers DEF Promise
    <3> QED BY <3>1, <3>2
  <2> QED BY <2>1 DEF Promises
<1>5. SumFunctionOnSet(q, Session) <= SumFunctionOnSet(p, Session)
  <2> HIDE DEF p, q
  <2> QED BY <1>4, HourNumbers, SumMonotone
<1>6. SumFunctionOnSet(q, Session) \in Int
  <2> HIDE DEF p, q
  <2> QED BY <1>4, HourNumbers, SumType
<1>7. Slack <= Slack' /\ Slack' \in Int BY SlackGrows
<1>8. Time!Recorded(span, d) + SumFunctionOnSet(p, Session) <= Time!Cap(span) + Slack
  BY DEF PromisesFit, Promised
<1>9. SumFunctionOnSet(p, Session) \in Int BY FitNumbers DEF Promised
<1> HIDE DEF p, q, f, g, D
<1> QED BY <1>1, <1>2, <1>3, <1>5, <1>6, <1>7, <1>8, <1>9, FitNumbers

\* A step of one request leaves what the others promise.
LEMMA OthersKeepPromise ==
  ASSUME HoursTyped, NEW s \in Session, NEW l, NEW j, Moves(s, l, j),
         NEW t \in Session \ {s}, NEW span, NEW d
  PROVE  Promise(t, span, d)' = Promise(t, span, d)
<1>1. at'[t] = at[t] /\ job'[t] = job[t] BY DEF HoursTyped, JobsTyped, Moves
<1>2. Time!DaysOf(span, d)' = Time!DaysOf(span, d) BY DEF Time!DaysOf, Many, Weeks
<1> QED BY <1>1, <1>2 DEF Promise

\* What is promised changes by what the request that takes the step promises.
LEMMA PromisedChanges ==
  ASSUME HoursTyped, HoursTyped', NEW s \in Session, NEW l, NEW j, Moves(s, l, j),
         NEW span, NEW d
  PROVE  /\ Promised(span, d) \in Int
         /\ Promised(span, d)' = Promised(span, d) + (Promise(s, span, d)' - Promise(s, span, d))
<1> DEFINE p == Promises(span, d)
           q == [t \in Session |-> Promise(t, span, d)']
<1>1. \A t \in Session \ {s} : q[t] = p[t] BY OthersKeepPromise DEF Promises
<1>2. \A t \in Session : p[t] \in Int BY PromiseIs DEF Promises
<1>3. q[s] \in Int
  <2>1. at'[s] = "overtime" => job'[s].hours \in Extra BY DEF HoursTyped, JobsTyped, Asked
  <2> QED BY <2>1, HourNumbers DEF Promise
<1>4. \A t \in Session : p[t] \in Int /\ q[t] \in Int
  <2> HIDE DEF p, q
  <2> QED BY <1>1, <1>2, <1>3
<1>5. SumFunctionOnSet(q, Session) = SumFunctionOnSet(p, Session) + (q[s] - p[s])
  <2> HIDE DEF p, q
  <2> QED BY <1>1, <1>4, HourNumbers, SumChanges
<1>6. Promised(span, d)' = SumFunctionOnSet(q, Session) BY DEF Promised, Promises
<1>7. SumFunctionOnSet(p, Session) \in Int
  <2> HIDE DEF p, q
  <2> QED BY <1>4, HourNumbers, SumType
<1>8. q[s] = Promise(s, span, d)' /\ p[s] = Promise(s, span, d) BY DEF Promises
<1> HIDE DEF p, q
<1>9. Promised(span, d) = SumFunctionOnSet(p, Session) BY DEF p, Promised
<1> QED BY <1>5, <1>6, <1>7, <1>8, <1>9

\* A request that is over promises nothing.
LEMMA EndsPromise ==
  ASSUME HoursTyped, NEW s \in Session, at' = [at EXCEPT ![s] = "idle"], NEW span, NEW d
  PROVE  Promise(s, span, d)' = 0
<1>1. at'[s] = "idle" BY DEF HoursTyped, JobsTyped
<1> QED BY <1>1 DEF Promise

\* Each step keeps what is recorded and promised within the caps.
LEMMA HoursStayFit ==
  ASSUME HoursTyped, PromisesFit, Time!Next
  PROVE  PromisesFit'
<1>0. HoursTyped' BY HoursStayTyped
<1>1. PICK s \in Session : Arrives(s) \/ Reads(s) \/ Records(s) \/ Clocks(s) \/ GivesUp(s)
  BY HourForms
<1> SUFFICES ASSUME NEW span \in Time!Span, NEW d \in Many
             PROVE  Time!Recorded(span, d)' + Promised(span, d)' <= Time!Cap(span) + Slack'
  <2>1. Time!Span' = Time!Span /\ Many' = Many BY DEF Time!Span, Many
  <2>2. \A span \in Time!Span : Time!Cap(span)' = Time!Cap(span) BY DEF Time!Cap
  <2> QED BY <2>1, <2>2 DEF PromisesFit
<1>2. ASSUME NEW l, NEW j, Moves(s, l, j), calm' => calm, \A e \in Many : db'[e] = db[e],
             Promise(s, span, d)' <= Promise(s, span, d)
      PROVE  Time!Recorded(span, d)' + Promised(span, d)' <= Time!Cap(span) + Slack'
  <2>1. \A t \in Session : Promise(t, span, d) \in Nat BY PromiseIs
  <2>2. \A t \in Session \ {s} : Promise(t, span, d)' = Promise(t, span, d)
    BY <1>2, OthersKeepPromise
  <2>3. \A t \in Session : Promise(t, span, d)' <= Promise(t, span, d)
    BY <1>2, <2>1, <2>2
  <2> QED BY <1>0, <1>2, <2>3, StaysFit
<1>p. Promise(s, span, d) \in Nat BY PromiseIs
<1>3. CASE Arrives(s)
  <2> DEFINE Fitting(l, j) == Moves(s, l, j) /\ (l = "overtime" => j.unread = Time!Span)
  <2>1. \E l : \E j : Fitting(l, j)
    <3>1. CASE \E j \in Asked : j.unread = Time!Span /\ Moves(s, "overtime", j) BY <3>1
    <3>2. CASE Moves(s, "clock in", NoJob)
      <4>1. Fitting("clock in", NoJob) BY <3>2
      <4> QED BY <4>1
    <3>3. CASE \E l \in {"manual in", "clock out"} : Moves(s, l, NoJob) BY <3>3
    <3>4. CASE \E c \in Clock : Moves(s, "manual out", c)
      <4>1. PICK c \in Clock : Moves(s, "manual out", c) BY <3>4
      <4>2. Fitting("manual out", c) BY <4>1
      <4> QED BY <4>2
    <3> QED BY <1>3, <3>1, <3>2, <3>3, <3>4 DEF Arrives
  <2> HIDE DEF Fitting
  <2>1a. PICK l : \E j : Fitting(l, j) BY <2>1
  <2>1b. PICK j : Fitting(l, j) BY <2>1a
  <2>2. Moves(s, l, j) /\ (l = "overtime" => j.unread = Time!Span) BY <2>1b DEF Fitting
  <2>3. at'[s] = l /\ job'[s] = j BY <2>2 DEF Moves, HoursTyped, JobsTyped
  <2>4. Promise(s, span, d)' = 0 BY <2>2, <2>3 DEF Promise
  <2>5. (calm' => calm) /\ db' = db BY <1>3 DEF Arrives
  <2> QED BY <1>2, <1>p, <2>2, <2>4, <2>5
<1>e. ASSUME Ends(s), \A e \in Many : db'[e] = db[e]
      PROVE  Time!Recorded(span, d)' + Promised(span, d)' <= Time!Cap(span) + Slack'
  <2>1. Moves(s, "idle", NoJob) /\ calm' = calm BY <1>e DEF Ends
  <2>2. Promise(s, span, d)' = 0 BY <2>1, EndsPromise DEF Moves
  <2> QED BY <1>2, <1>e, <1>p, <2>1, <2>2
<1>4. CASE Clocks(s)
  <2>1. PICK c \in Clock, st \in {"open", "open by hand", "closed"} : Puts(s, c, st)
    BY <1>4 DEF Clocks
  <2>2. db' = [db EXCEPT ![Time!Turn(c)] = st] /\ Ends(s) BY <2>1 DEF Puts
  <2>3. \A e \in Many : db'[e] = db[e] BY <2>2, RowsApart DEF HoursTyped, TurnsTyped
  <2> QED BY <1>e, <2>2, <2>3
<1>5. CASE GivesUp(s) BY <1>5, <1>e DEF GivesUp
<1>6. CASE Records(s)
  <2>1. job[s] \in Asked /\ at[s] = "overtime" /\ job[s].unread = {} /\ Ends(s)
    BY <1>6 DEF Records, HoursTyped, JobsTyped
  <2>2. job[s].day \in Many /\ job[s].hours \in Nat BY <2>1, HoursAssumed DEF Asked
  <2> DEFINE day == job[s].day
             D == Time!DaysOf(span, d)
             f == [e \in D |-> db[e]]
             g == [e \in D |-> db'[e]]
  <2>3. \A e \in Many : db'[e] = IF e = day THEN db[e] + job[s].hours ELSE db[e]
    <3>1. db' = [db EXCEPT ![job[s].day] = @ + job[s].hours] BY <1>6 DEF Records
    <3> QED BY <3>1, RowsApart DEF HoursTyped, TurnsTyped
  <2>4. Moves(s, "idle", NoJob) /\ calm' = calm BY <2>1 DEF Ends
  <2>5. Promise(s, span, d)' = 0 BY <2>4, EndsPromise DEF Moves
  <2>6. D \subseteq Many /\ IsFiniteSet(D) BY DaysOfSpan
  <2>7. \A e \in Many : db[e] \in Nat BY DEF HoursTyped, DaysTyped
  <2>8. CASE day \in D
    <3>1. Promise(s, span, d) = job[s].hours BY <2>1, <2>8 DEF Promise
    <3>2. \A e \in D : f[e] \in Int /\ g[e] \in Int BY <2>2, <2>3, <2>6, <2>7
    <3>3. \A e \in D \ {day} : g[e] = f[e] BY <2>3, <2>6
    <3>4. g[day] - f[day] = job[s].hours BY <2>2, <2>3, <2>7, <2>8
    <3>5. SumFunctionOnSet(g, D) = SumFunctionOnSet(f, D) + (g[day] - f[day])
      <4> HIDE DEF f, g, D, day
      <4> QED BY <2>6, <2>8, <3>2, <3>3, SumChanges
    <3>6. Time!Recorded(span, d)' = Time!Recorded(span, d) + job[s].hours
      BY <3>4, <3>5, RecordedIs, RecordedIsNext
    <3>7. Promised(span, d) \in Int /\ Promised(span, d)' = Promised(span, d) + (0 - job[s].hours)
      <4>1. /\ Promised(span, d) \in Int
            /\ Promised(span, d)' = Promised(span, d) + (Promise(s, span, d)' - Promise(s, span, d))
        BY <1>0, <2>4, PromisedChanges
      <4> QED BY <2>5, <3>1, <4>1
    <3>8. Time!Recorded(span, d) + Promised(span, d) <= Time!Cap(span) + Slack
      BY DEF PromisesFit
    <3>9. Slack' = Slack BY <2>4 DEF Slack, Longest, Time!Others
    <3> QED BY <2>2, <3>6, <3>7, <3>8, <3>9, FitNumbers
  <2>9. CASE day \notin D
    <3>1. f = g BY <2>3, <2>6, <2>9
    <3>2. Time!Recorded(span, d)' = Time!Recorded(span, d) BY <3>1, RecordedIs, RecordedIsNext
    <3>3. /\ Promised(span, d) \in Int
          /\ Promised(span, d)' = Promised(span, d) + (0 - Promise(s, span, d))
      <4>1. /\ Promised(span, d) \in Int
            /\ Promised(span, d)' = Promised(span, d) + (Promise(s, span, d)' - Promise(s, span, d))
        BY <1>0, <2>4, PromisedChanges
      <4> QED BY <2>5, <4>1
    <3>4. Time!Recorded(span, d) + Promised(span, d) <= Time!Cap(span) + Slack
      BY DEF PromisesFit
    <3>5. Slack' = Slack BY <2>4 DEF Slack, Longest, Time!Others
    <3> QED BY <1>p, <3>2, <3>3, <3>4, <3>5, FitNumbers
  <2> QED BY <2>8, <2>9
<1>7. CASE Reads(s)
  <2>1. PICK r \in job[s].unread :
          Time!Fits(job[s], r) /\ Moves(s, "overtime", [job[s] EXCEPT !.unread = @ \ {r}])
    BY <1>7 DEF Reads
  <2>2. at[s] = "overtime" /\ db' = db /\ calm' = calm BY <1>7 DEF Reads
  <2>3. job[s] \in Asked BY <2>2 DEF HoursTyped, JobsTyped
  <2>4. /\ at'[s] = "overtime" /\ job'[s].unread = job[s].unread \ {r}
        /\ job'[s].day = job[s].day /\ job'[s].hours = job[s].hours
    BY <2>1, <2>3 DEF Moves, HoursTyped, JobsTyped, Asked
  <2>5. Time!DaysOf(span, job[s].day)' = Time!DaysOf(span, job'[s].day)
    BY DEF Time!DaysOf, Many, Weeks
  <2>6. CASE span = r /\ job[s].day \in Time!DaysOf(span, d)
    <3>1. Time!DaysOf(span, job[s].day) = Time!DaysOf(span, d) BY <2>6, DaysOfSpan
    <3>2. Time!Recorded(span, d) + job[s].hours <= Time!Cap(span)
      <4>1. Time!Recorded(span, job[s].day) + job[s].hours <= Time!Cap(span)
        BY <2>1, <2>6 DEF Time!Fits
      <4> QED BY <3>1, <4>1 DEF Time!Recorded
    <3>3. Promise(s, span, d) = 0 BY <2>1, <2>6 DEF Promise
    <3>4. Promise(s, span, d)' = job[s].hours
      <4>1. Time!DaysOf(span, d)' = Time!DaysOf(span, d) BY DEF Time!DaysOf, Many, Weeks
      <4> QED BY <2>4, <2>6, <4>1 DEF Promise
    <3>5. /\ Promised(span, d) \in Int
          /\ Promised(span, d)' = Promised(span, d) + (job[s].hours - 0)
      <4>1. /\ Promised(span, d) \in Int
            /\ Promised(span, d)' = Promised(span, d) + (Promise(s, span, d)' - Promise(s, span, d))
        BY <1>0, <2>1, PromisedChanges
      <4> QED BY <3>3, <3>4, <4>1
    <3>6. Promised(span, d) <= Slack
      <4> DEFINE p == Promises(span, d)
      <4>1. \A t \in Session : p[t] \in Int BY PromiseIs DEF Promises
      <4>2. p[s] = 0 BY <3>3 DEF Promises
      <4>3. /\ SumFunctionOnSet(p, Session \ {s}) \in Int
            /\ SumFunctionOnSet(p, Session \ {s}) <= Slack
        BY <2>2, OthersPromise
      <4> HIDE DEF p
      <4>4. SumFunctionOnSet(p, Session) = p[s] + SumFunctionOnSet(p, Session \ {s})
        BY <4>1, HourNumbers, SumSplits
      <4>5. Promised(span, d) = SumFunctionOnSet(p, Session) BY DEF p, Promised
      <4> QED BY <4>2, <4>3, <4>4, <4>5
    <3>7. Time!Recorded(span, d)' = Time!Recorded(span, d)
      BY <2>2, RecordedIs, RecordedIsNext
    <3>8. Slack' = Slack BY <2>2 DEF Slack, Longest, Time!Others
    <3>9. job[s].hours \in Int
      <4>1. job[s].hours \in Extra BY <2>3 DEF Asked
      <4> QED BY <4>1, HourNumbers
    <3> QED BY <3>2, <3>5, <3>6, <3>7, <3>8, <3>9, FitNumbers
  <2>7. CASE ~(span = r /\ job[s].day \in Time!DaysOf(span, d))
    <3>1. Time!DaysOf(span, d)' = Time!DaysOf(span, d) BY DEF Time!DaysOf, Many, Weeks
    <3>2. Promise(s, span, d)' = Promise(s, span, d) BY <2>1, <2>2, <2>4, <2>7, <3>1 DEF Promise
    <3> QED BY <1>2, <1>p, <2>1, <2>2, <3>2
  <2> QED BY <2>6, <2>7
<1> QED BY <1>1, <1>3, <1>4, <1>5, <1>6, <1>7

\* The clocks and the requests can be counted.
LEMMA ClockNumbers ==
  /\ IsFiniteSet(Time!Running) /\ Cardinality(Time!Running) \in Nat
  /\ IsFiniteSet(Entering) /\ Cardinality(Entering) \in Nat
<1>1. Time!Running \in SUBSET Clock /\ Entering \in SUBSET Session
  BY DEF Time!Running, Entering
<1>2. IsFiniteSet(Time!Running) /\ IsFiniteSet(Entering)
  BY <1>1, HoursAssumed, FS_Subset
<1> QED BY <1>2, FS_CardinalityType

\* Fewer clocks that run, or requests that will start one, are within what was allowed.
LEMMA FewerClocks ==
  ASSUME HoursTyped, HoursTyped', ClocksFit, NEW s \in Session, calm' => calm,
         Time!Running' \subseteq Time!Running, Entering' \subseteq Entering
  PROVE  ClocksFit'
<1>1. /\ Cardinality(Time!Running') <= Cardinality(Time!Running)
      /\ Cardinality(Entering') <= Cardinality(Entering)
      /\ Cardinality(Time!Running') \in Nat /\ Cardinality(Entering') \in Nat
  <2>1. IsFiniteSet(Time!Running') /\ IsFiniteSet(Entering')
    BY ClockNumbers, FS_Subset
  <2> QED BY <2>1, ClockNumbers, FS_Subset, FS_CardinalityType
<1>2. Time!Others \in Nat /\ Time!Others' = Time!Others BY HourNumbers DEF Time!Others
<1>3. calm \in BOOLEAN /\ calm' \in BOOLEAN BY DEF HoursTyped, OneAtMost
<1>4. Cardinality(Time!Running') + Cardinality(Entering')
        <= Cardinality(Time!Running) + Cardinality(Entering)
  BY <1>1, ClockNumbers
<1>5. CASE calm' BY <1>1, <1>4, <1>5, ClockNumbers DEF ClocksFit
<1>6. CASE ~calm'
  <2>1. Cardinality(Time!Running) + Cardinality(Entering) <= 1 + Time!Others
    BY <1>2, ClockNumbers DEF ClocksFit
  <2> QED BY <1>1, <1>2, <1>4, <1>6, <2>1, ClockNumbers DEF ClocksFit
<1> QED BY <1>5, <1>6

\* A request that is over is not about to start a clock.
LEMMA FewerEnter ==
  ASSUME HoursTyped, NEW s \in Session, Ends(s)
  PROVE  Entering' = Entering \ {s}
BY DEF HoursTyped, JobsTyped, Ends, Moves, Entering

\* Each step keeps the number of clocks that run, or will, within what is allowed.
LEMMA ClocksStayFit ==
  ASSUME HoursTyped, ClocksFit, Time!Next
  PROVE  ClocksFit'
<1>0. HoursTyped' BY HoursStayTyped
<1>1. PICK s \in Session : Arrives(s) \/ Reads(s) \/ Records(s) \/ Clocks(s) \/ GivesUp(s)
  BY HourForms
<1>2. CASE Arrives(s)
  <2>0. db' = db /\ (calm' => calm) /\ at[s] = "idle" BY <1>2 DEF Arrives
  <2>1. Time!Running' = Time!Running BY <2>0 DEF Time!Running, Time!Turn
  <2>2. CASE \E l \in HourLabels \ {"clock in"} : at' = [at EXCEPT ![s] = l]
    <3>1. Entering' = Entering BY <2>0, <2>2 DEF Entering, HoursTyped, JobsTyped
    <3> QED BY <1>0, <2>0, <2>1, <3>1, FewerClocks
  <2>3. CASE Time!Opened = {} /\ at' = [at EXCEPT ![s] = "clock in"]
    <3>1. Time!Running = {} BY <2>3 DEF Time!Opened, Time!Running
    <3>2. Cardinality(Time!Running') = 0 BY <2>1, <3>1, FS_EmptySet
    <3>3. Entering' \in SUBSET Session BY DEF Entering
    <3>4. Cardinality(Entering') <= 1 + Time!Others /\ Cardinality(Entering') \in Nat
      <4>1. /\ IsFiniteSet(Entering')
            /\ Cardinality(Entering') <= Cardinality(Session)
        BY <3>3, HoursAssumed, FS_Subset
      <4>2. Cardinality(Session) = 1 + Time!Others BY HourNumbers, SameSizes DEF Time!Others
      <4> QED BY <4>1, <4>2, FS_CardinalityType
    <3>5. calm' => Cardinality(Entering') = 1
      <4>1. ASSUME calm' PROVE Entering' = {s}
        <5>1. \A t \in Session : at[t] = "idle" BY <1>2, <4>1 DEF Arrives
        <5> QED BY <5>1, <2>3 DEF Entering, HoursTyped, JobsTyped
      <4> QED BY <4>1, FS_Singleton
    <3>6. calm' \in BOOLEAN BY <1>0 DEF HoursTyped, OneAtMost
    <3>7. Time!Others' = Time!Others /\ Time!Others \in Int BY HourNumbers DEF Time!Others
    <3> QED BY <3>2, <3>4, <3>5, <3>6, <3>7 DEF ClocksFit
  <2>4. \/ \E l \in HourLabels \ {"clock in"} : at' = [at EXCEPT ![s] = l]
        \/ Time!Opened = {} /\ at' = [at EXCEPT ![s] = "clock in"]
    <3>1. CASE \E j \in Asked : j.unread = Time!Span /\ Moves(s, "overtime", j)
      BY <3>1 DEF Moves, HourLabels
    <3>2. CASE Time!Opened = {} /\ Moves(s, "clock in", NoJob) BY <3>2 DEF Moves
    <3>3. CASE \E l \in {"manual in", "clock out"} : Moves(s, l, NoJob)
      BY <3>3 DEF Moves, HourLabels
    <3>4. CASE \E c \in Clock : Moves(s, "manual out", c) BY <3>4 DEF Moves, HourLabels
    <3> QED BY <1>2, <3>1, <3>2, <3>3, <3>4 DEF Arrives
  <2> QED BY <2>2, <2>3, <2>4
<1>3. CASE Reads(s)
  <2>1. at' = at /\ db' = db /\ calm' = calm
    <3>1. PICK span \in job[s].unread : Moves(s, "overtime", [job[s] EXCEPT !.unread = @ \ {span}])
      BY <1>3 DEF Reads
    <3> QED BY <1>3, <3>1 DEF Reads, Moves, HoursTyped, JobsTyped
  <2>2. Time!Running' = Time!Running /\ Entering' = Entering
    BY <2>1 DEF Time!Running, Time!Turn, Entering
  <2> QED BY <1>0, <2>1, <2>2, FewerClocks
<1>4. CASE Records(s)
  <2>1. Ends(s) /\ job[s].day \in Many /\ db' = [db EXCEPT ![job[s].day] = @ + job[s].hours]
    BY <1>4 DEF Records, HoursTyped, JobsTyped, Asked
  <2>2. \A c \in Clock : db'[Time!Turn(c)] = db[Time!Turn(c)]
    BY <2>1, RowsApart DEF HoursTyped, TurnsTyped
  <2>3. Time!Running' = Time!Running BY <2>2 DEF Time!Running, Time!Turn
  <2> QED BY <1>0, <2>1, <2>3, FewerEnter, FewerClocks DEF Ends
<1>5. CASE GivesUp(s)
  <2>1. Ends(s) /\ db' = db BY <1>5 DEF GivesUp
  <2>2. Time!Running' = Time!Running BY <2>1 DEF Time!Running, Time!Turn
  <2> QED BY <1>0, <2>1, <2>2, FewerEnter, FewerClocks DEF Ends
<1>6. ASSUME NEW c \in Clock, NEW st, Puts(s, c, st)
      PROVE  /\ Ends(s) /\ Entering' = Entering \ {s} /\ calm' = calm
             /\ Time!Running' = IF st = "open" THEN Time!Running \cup {c} ELSE Time!Running \ {c}
  <2>1. Ends(s) /\ db' = [db EXCEPT ![Time!Turn(c)] = st] BY <1>6 DEF Puts
  <2>2. \A b \in Clock : db'[Time!Turn(b)] = IF b = c THEN st ELSE db[Time!Turn(b)]
    BY <2>1, RowsApart DEF HoursTyped, TurnsTyped
  <2>3. Time!Running' = IF st = "open" THEN Time!Running \cup {c} ELSE Time!Running \ {c}
    BY <2>2 DEF Time!Running, Time!Turn
  <2> QED BY <2>1, <2>3, FewerEnter DEF Ends
<1>7. CASE Clocks(s)
  <2>1. PICK c \in Clock :
          \/ c \in Time!Unused /\ at[s] = "clock in" /\ Puts(s, c, "open")
          \/ c \in Time!Unused /\ Puts(s, c, "open by hand")
          \/ Puts(s, c, "closed")
    BY <1>7 DEF Clocks
  <2>2. CASE c \in Time!Unused /\ at[s] = "clock in" /\ Puts(s, c, "open")
    <3>1. c \notin Time!Running /\ s \in Entering
      BY <2>2 DEF Time!Unused, Time!Running, Entering
    <3>2. Time!Running' = Time!Running \cup {c} /\ Entering' = Entering \ {s} /\ calm' = calm
      BY <1>6, <2>2
    <3>3. /\ Cardinality(Time!Running') = Cardinality(Time!Running) + 1
          /\ Cardinality(Entering') = Cardinality(Entering) - 1
      BY <3>1, <3>2, ClockNumbers, FS_AddElement, FS_RemoveElement
    <3>4. Time!Others' = Time!Others BY DEF Time!Others
    <3>5. Cardinality(Time!Running') + Cardinality(Entering')
            = Cardinality(Time!Running) + Cardinality(Entering)
      BY <3>3, ClockNumbers
    <3> QED BY <3>2, <3>4, <3>5 DEF ClocksFit
  <2>3. CASE Puts(s, c, "open by hand") \/ Puts(s, c, "closed")
    <3>1. Time!Running' \subseteq Time!Running /\ Entering' \subseteq Entering /\ calm' = calm
      <4>1. PICK st \in {"open by hand", "closed"} : Puts(s, c, st) BY <2>3
      <4>2. /\ Entering' = Entering \ {s} /\ calm' = calm
            /\ Time!Running' = IF st = "open" THEN Time!Running \cup {c} ELSE Time!Running \ {c}
        BY <1>6, <4>1
      <4>3. st # "open" OBVIOUS
      <4> QED BY <4>2, <4>3
    <3> QED BY <1>0, <3>1, FewerClocks
  <2> QED BY <2>1, <2>2, <2>3
<1> QED BY <1>1, <1>2, <1>3, <1>4, <1>5, <1>7

-----------------------------------------------------------------------------

\* At the beginning nothing is recorded, promised or running.
LEMMA TimeBegins == Init => TimeInv
<1> SUFFICES ASSUME part = "time", Time!Init PROVE HoursTyped /\ PromisesFit /\ ClocksFit
  BY DEF Init, TimeInv
<1>1. /\ db = [r \in Time!Row |-> IF r \in Many THEN 0 ELSE "none"]
      /\ mine = [s \in Session |-> Time!Unwritten]
      /\ at = [s \in Session |-> "idle"] /\ job = [s \in Session |-> NoJob] /\ calm = TRUE
  BY DEF Time!Init, Time!RequestsInit
<1>2. HoursTyped
  <2>1. DaysTyped BY <1>1, RowsApart DEF DaysTyped
  <2>2. TurnsTyped
    <3>1. \A c \in Clock : db[Time!Turn(c)] = "none" BY <1>1, RowsApart
    <3>2. mine = [s \in Session |-> Unwritten] BY <1>1 DEF Unwritten, Time!Unwritten
    <3> QED BY <1>1, <3>1, <3>2 DEF TurnsTyped, Time!ClockState
  <2>3. JobsTyped BY <1>1 DEF JobsTyped, HourLabels
  <2>4. OneAtMost BY <1>1 DEF OneAtMost
  <2> QED BY <2>1, <2>2, <2>3, <2>4 DEF HoursTyped
<1>3. PromisesFit
  <2> SUFFICES ASSUME NEW span \in Time!Span, NEW d \in Many
               PROVE  Time!Recorded(span, d) + Promised(span, d) <= Time!Cap(span) + Slack
    BY DEF PromisesFit
  <2> DEFINE D == Time!DaysOf(span, d)
             f == [e \in D |-> db[e]]
             p == Promises(span, d)
  <2>1. Time!Recorded(span, d) = 0
    <3>1. IsFiniteSet(D) /\ D \subseteq Many BY DaysOfSpan
    <3>2. \A e \in D : f[e] = 0 BY <1>1, <3>1, RowsApart
    <3>3. SumFunctionOnSet(f, D) = 0
      <4> HIDE DEF f, D
      <4> QED BY <3>1, <3>2, SumOfZeros
    <3> QED BY <3>3, RecordedIs
  <2>2. Promised(span, d) = 0
    <3>1. \A t \in Session : p[t] = 0 BY <1>1 DEF Promises, Promise
    <3>2. SumFunctionOnSet(p, Session) = 0
      <4> HIDE DEF p
      <4> QED BY <3>1, HourNumbers, SumOfZeros
    <3> QED BY <3>2 DEF Promised
  <2>3. Slack = 0 BY <1>1 DEF Slack
  <2>4. Time!Cap(span) \in Nat BY HourNumbers
  <2> QED BY <2>1, <2>2, <2>3, <2>4
<1>4. ClocksFit
  <2>1. \A c \in Clock : db[Time!Turn(c)] = "none" BY <1>1, RowsApart
  <2>2. Time!Running = {} /\ Entering = {} BY <1>1, <2>1 DEF Time!Running, Entering
  <2>3. Cardinality({}) = 0 BY FS_EmptySet
  <2>4. Cardinality(Time!Running) = 0 /\ Cardinality(Entering) = 0 BY <2>2, <2>3
  <2> QED BY <1>1, <2>4 DEF ClocksFit
<1> QED BY <1>2, <1>3, <1>4

\* The steps of hours keep its invariant, and no other part takes one in its stead.
LEMMA TimeSteps == TimeInv /\ [Next]_vars => TimeInv'
<1> SUFFICES ASSUME TimeInv, [Next]_vars, part' = "time"
             PROVE  (HoursTyped /\ PromisesFit /\ ClocksFit)'
  BY DEF TimeInv
<1>1. part = "time" BY DEF Next, vars
<1>2. HoursTyped /\ PromisesFit /\ ClocksFit BY <1>1 DEF TimeInv
<1>3. CASE Time!Next BY <1>2, <1>3, HoursStayTyped, HoursStayFit, ClocksStayFit
<1>4. CASE UNCHANGED vars
  <2>1. HoursTyped'
    BY <1>2, <1>4 DEF vars, HoursTyped, DaysTyped, TurnsTyped, JobsTyped, OneAtMost, Time!Turn
  <2>2. ClocksFit' BY <1>2, <1>4 DEF vars, ClocksFit, Time!Running, Time!Turn, Entering, Time!Others
  <2>3. PromisesFit'
    <3> SUFFICES ASSUME NEW span \in Time!Span, NEW d \in Many
                 PROVE  Time!Recorded(span, d)' + Promised(span, d)' <= Time!Cap(span) + Slack'
      <4>1. Time!Span' = Time!Span /\ Many' = Many BY DEF Time!Span, Many
      <4>2. \A span \in Time!Span : Time!Cap(span)' = Time!Cap(span) BY DEF Time!Cap
      <4> QED BY <4>1, <4>2 DEF PromisesFit
    <3>1. Time!Recorded(span, d)' = Time!Recorded(span, d)
      BY <1>4, RecordedIs, RecordedIsNext DEF vars
    <3>2. Promised(span, d)' = Promised(span, d)
      <4>1. Time!DaysOf(span, d)' = Time!DaysOf(span, d) BY DEF Time!DaysOf, Many, Weeks
      <4>2. \A t \in Session : Promise(t, span, d)' = Promise(t, span, d)
        BY <1>4, <4>1 DEF vars, Promise
      <4>3. Promises(span, d)' = Promises(span, d) BY <4>2 DEF Promises
      <4> QED BY <4>3 DEF Promised
    <3>3. Slack' = Slack BY <1>4 DEF vars, Slack, Longest, Time!Others
    <3> QED BY <1>2, <3>1, <3>2, <3>3 DEF PromisesFit
  <2> QED BY <2>1, <2>2, <2>3
<1> QED BY <1>1, <1>3, <1>4 DEF Next

\* No day, week or year has more overtime than its cap and what the requests that are
\* served at the same time could have tested in between, and none has more than its cap
\* while they come one at a time; nor do more clocks run than there are requests.
THEOREM HoursAlwaysBounded == Spec => []HoursBounded
<1>1. TimeInv => HoursBounded
  <2> SUFFICES ASSUME part = "time", HoursTyped, PromisesFit, ClocksFit PROVE Time!HoursBounded
    BY DEF TimeInv, HoursBounded
  <2>1. ASSUME NEW d \in Many, NEW span \in Time!Span
        PROVE  Time!Recorded(span, d)
                 <= Time!Cap(span) + (IF calm THEN 0 ELSE Time!Others * Time!Max(Extra))
    <3>1. Time!Recorded(span, d) + Promised(span, d) <= Time!Cap(span) + Slack
      BY DEF PromisesFit
    <3>2. Time!Recorded(span, d) <= Time!Cap(span) + Slack BY <3>1, FitNumbers
    <3> QED BY <3>2 DEF Slack, Longest
  <2>2. Time!Cardinality(Time!Running) <= 1 + (IF calm THEN 0 ELSE Time!Others)
    <3>1. Cardinality(Time!Running) <= Cardinality(Time!Running) + Cardinality(Entering)
      BY ClockNumbers
    <3>2. 1 + (IF calm THEN 0 ELSE Time!Others) \in Int BY HourNumbers
    <3> QED BY <3>1, <3>2, ClockNumbers, SameSizes DEF ClocksFit
  <2> QED BY <2>1, <2>2 DEF Time!HoursBounded
<1> QED BY <1>1, TimeBegins, TimeSteps, PTL DEF Spec

-----------------------------------------------------------------------------
(* The heirs.  A claim is validated for good and nobody withdraws one, so   *)
(* that those whom a distribution read stay validated; while nothing else   *)
(* runs, what it read is what is there, and those it has served have what   *)
(* they are due.                                                            *)

HeirLabels == {"idle", "claim", "validate", "pay", "shared before", "read amount",
               "shares", "distributed"}
Sharer == {"shared before", "read amount", "shares", "distributed"}
Distribution == [among : SUBSET Many, last : Many, recalculate : BOOLEAN,
                 total : Nat, left : SUBSET Many]
Known == [validated : BOOLEAN, share : Int \cup {Absent}]

ClaimsTyped ==
  /\ db = [r \in Claims!Row |-> db[r]] /\ \A h \in Many : db[h] \in Known \cup {Absent}
  /\ db["amount"] \in Nat
  /\ mine = [s \in Session |-> Unwritten]

ClaimJobsTyped ==
  /\ at \in [Session -> HeirLabels] /\ DOMAIN job = Session
  /\ \A s \in Session :
       /\ at[s] = "claim" => job[s] \in Many
       /\ at[s] = "validate" => job[s] \in Claims!Claimants
       /\ at[s] = "pay" => job[s] \in Nat
       /\ at[s] \in Sharer => job[s] \in Distribution

\* Shares are of those who were validated, and so are those that will be written.
OfTheValidated ==
  /\ Claims!Shared \subseteq Claims!Validated
  /\ \A s \in Session : at[s] \in Sharer =>
       /\ job[s].among \subseteq Claims!Validated /\ job[s].last \in job[s].among
       /\ job[s].left \subseteq job[s].among

\* A distribution that nothing runs beside.
Undisturbed ==
  calm => \A s \in Session : at[s] \in Sharer =>
    /\ job[s].among = Claims!Validated
    /\ at[s] \in {"shares", "distributed"} => job[s].total = db["amount"]
    /\ at[s] \in {"shared before", "read amount"} => job[s].left = job[s].among
    /\ at[s] = "distributed" => job[s].left = {}
    /\ \A h \in job[s].among \ job[s].left : db[h].share = Claims!ShareOf(job[s], h)

Shares == ClaimsTyped /\ ClaimJobsTyped /\ OneAtMost /\ OfTheValidated /\ Undisturbed

ClaimsInv == part = "claims" => Shares

-----------------------------------------------------------------------------

\* The operators that the instance extends are those of this module.
LEMMA SameSizesOfClaims ==
  /\ \A S : Claims!IsFiniteSet(S) <=> IsFiniteSet(S)
  /\ \A S : Claims!Cardinality(S) = Cardinality(S)
<1>1. ASSUME NEW S PROVE Claims!IsFiniteSet(S) <=> IsFiniteSet(S)
  BY DEF Claims!IsFiniteSet, IsFiniteSet
<1>2. ASSUME NEW S PROVE Claims!Cardinality(S) = Cardinality(S)
  BY DEF Claims!Cardinality, Cardinality, Claims!IsFiniteSet, IsFiniteSet
<1> QED BY <1>1, <1>2

\* What is assumed of the heirs.
LEMMA HeirsAssumed ==
  /\ IsFiniteSet(Many) /\ "amount" \notin Many
  /\ Absent \notin Int /\ Absent \notin Known
BY PeopleConstants, HoursAssumed DEF Claims!HeirsConstants, Known

-----------------------------------------------------------------------------
(* The steps, by what they do.                                              *)

Asks(s) ==
  /\ at[s] = "idle" /\ db' = db /\ calm' = (calm /\ \A t \in Session : at[t] = "idle")
  /\ \/ \E h \in Many : Moves(s, "claim", h)
     \/ \E h \in Claims!Claimants : Moves(s, "validate", h)
     \/ \E m \in Nat : Moves(s, "pay", m)
     \/ \E j \in Distribution :
          /\ j.among = Claims!Validated /\ j.left = j.among /\ j.last \in j.among
          /\ Moves(s, "shared before", j)

Finds(s) ==
  /\ db' = db /\ calm' = calm
  /\ \/ at[s] = "shared before" /\ Moves(s, "read amount", job[s])
     \/ at[s] = "read amount" /\ Moves(s, "shares", [job[s] EXCEPT !.total = db["amount"]])

NewClaimant == [validated |-> FALSE, share |-> Absent]

Changes(s) ==
  /\ Ends(s)
  /\ \/ /\ at[s] = "claim" /\ job[s] \notin Claims!Claimants
        /\ db' = [db EXCEPT ![job[s]] = NewClaimant]
     \/ at[s] = "validate" /\ db' = [db EXCEPT ![job[s]] = [@ EXCEPT !.validated = TRUE]]
     \/ at[s] = "pay" /\ db' = [db EXCEPT !["amount"] = job[s]]

Serves(s, h) ==
  /\ at[s] = "shares" /\ h \in job[s].left /\ (h = job[s].last => job[s].left = {h})
  /\ calm' = calm
  /\ db' = [db EXCEPT ![h] = [@ EXCEPT !.share = Claims!ShareOf(job[s], h)]]
  /\ Moves(s, IF h = job[s].last THEN "distributed" ELSE "shares",
           [job[s] EXCEPT !.left = @ \ {h}])

\* Replacing one row, or none.
LEMMA OneRowOfClaims ==
  ASSUME ClaimsTyped
  PROVE  /\ \A x \in DOMAIN db : \A v : Claims!Over([r \in {x} |-> v], db) = [db EXCEPT ![x] = v]
         /\ Claims!Over(Unwritten, db) = db
         /\ \A h \in Many : h \in DOMAIN db
         /\ "amount" \in DOMAIN db
<1>1. \A x \in DOMAIN db : \A v : Claims!Over([r \in {x} |-> v], db) = [db EXCEPT ![x] = v]
  BY DEF Claims!Over
<1>2. Claims!Over(Unwritten, db) = db
  <2>1. db = [r \in DOMAIN db |-> db[r]] BY DEF ClaimsTyped
  <2>2. Claims!Over(Unwritten, db) = [r \in DOMAIN db |-> db[r]] BY DEF Claims!Over, Unwritten
  <2> QED BY <2>1, <2>2
<1> QED BY <1>1, <1>2 DEF ClaimsTyped, Claims!Row

\* Each step of the heirs is one of these, and leaves nothing uncommitted.
LEMMA ClaimForms ==
  ASSUME Shares, Claims!Next
  PROVE  /\ mine' = mine
         /\ \E s \in Session : \/ Asks(s) \/ Finds(s) \/ Changes(s) \/ GivesUp(s)
                               \/ \E h \in Many : Serves(s, h)
<1>1. PICK s \in Session : Claims!Claiming(s) \/ Claims!Sharing(s) \/ Claims!Fail(s)
  BY DEF Claims!Next
<1>0. mine[s] = Claims!Unwritten /\ [mine EXCEPT ![s] = Claims!Unwritten] = mine
      /\ Claims!Unwritten = Unwritten
  BY DEF Shares, ClaimsTyped, Unwritten, Claims!Unwritten
<1>t. ClaimsTyped /\ ClaimJobsTyped /\ OfTheValidated BY DEF Shares
<1>v. Claims!Validated \subseteq Many /\ Claims!Claimants \subseteq Many
  BY DEF Claims!Validated, Claims!Claimants
<1>r. ASSUME at[s] # "idle", Claims!Rollback(s) PROVE GivesUp(s) /\ mine' = mine
  BY <1>0, <1>r DEF Claims!Rollback, Claims!Goto, GivesUp, Ends, Moves
<1>2. CASE Claims!StartClaim(s) \/ Claims!StartValidate(s) \/ Claims!StartPay(s)
  <2>1. CASE Claims!StartClaim(s)
    BY <2>1 DEF Claims!StartClaim, Claims!Begin, Claims!Goto, Claims!Quiet, Asks, Moves
  <2>2. CASE Claims!StartValidate(s)
    BY <2>2 DEF Claims!StartValidate, Claims!Begin, Claims!Goto, Claims!Quiet, Asks, Moves
  <2>3. CASE Claims!StartPay(s)
    <3>1. PICK m \in {0, 1} : Claims!Begin(s, "pay", 10 + m) BY <2>3 DEF Claims!StartPay
    <3>2. 10 + m \in Nat OBVIOUS
    <3> QED BY <3>1, <3>2 DEF Claims!Begin, Claims!Goto, Claims!Quiet, Asks, Moves
  <2> QED BY <1>2, <2>1, <2>2, <2>3
<1>3. CASE Claims!StartDistribute(s)
  <2>1. PICK last \in Claims!Validated, recalculate \in BOOLEAN :
          Claims!Begin(s, "shared before",
            [among |-> Claims!Validated, last |-> last, recalculate |-> recalculate,
             total |-> 0, left |-> Claims!Validated])
    BY <1>3 DEF Claims!StartDistribute
  <2> DEFINE j == [among |-> Claims!Validated, last |-> last, recalculate |-> recalculate,
                   total |-> 0, left |-> Claims!Validated]
  <2>2. /\ j \in Distribution /\ j.among = Claims!Validated /\ j.left = j.among
        /\ j.last \in j.among
    BY <1>v DEF Distribution
  <2> HIDE DEF j
  <2>3. Claims!Begin(s, "shared before", j) BY <2>1 DEF j
  <2> QED BY <2>2, <2>3 DEF Claims!Begin, Claims!Goto, Claims!Quiet, Asks, Moves
<1>4. CASE Claims!ReadShares(s)
  <2>1. at[s] = "shared before" BY <1>4 DEF Claims!ReadShares
  <2>2. CASE Claims!Look(s, "read amount", job[s])
    BY <2>1, <2>2 DEF Claims!Look, Claims!Goto, Finds, Moves
  <2>3. CASE Claims!Rollback(s) BY <1>r, <2>1, <2>3
  <2> QED BY <1>4, <2>2, <2>3 DEF Claims!ReadShares
<1>5. CASE Claims!ReadAmount(s)
  BY <1>5 DEF Claims!ReadAmount, Claims!Look, Claims!Goto, Finds, Moves
<1>6. CASE Claims!Claim(s)
  <2>1. at[s] = "claim" BY <1>6 DEF Claims!Claim
  <2>2. CASE job[s] \in Claims!Claimants BY <1>6, <1>r, <2>1, <2>2 DEF Claims!Claim
  <2>3. CASE job[s] \notin Claims!Claimants
    <3>1. Claims!Apply(s, [r \in {job[s]} |-> NewClaimant], "idle", NoJob)
      BY <1>6, <2>3 DEF Claims!Claim, NewClaimant
    <3>2. job[s] \in DOMAIN db BY <1>t, <2>1, OneRowOfClaims DEF ClaimJobsTyped
    <3>3. db' = [db EXCEPT ![job[s]] = NewClaimant]
      BY <1>t, <3>1, <3>2, OneRowOfClaims DEF Claims!Apply
    <3> QED BY <2>1, <2>3, <3>1, <3>3 DEF Claims!Apply, Claims!Goto, Changes, Ends, Moves
  <2> QED BY <2>2, <2>3
<1>7. CASE Claims!Validate(s)
  <2>1. /\ at[s] = "validate"
        /\ Claims!Apply(s, [r \in {job[s]} |-> [db[r] EXCEPT !.validated = TRUE]], "idle", NoJob)
    BY <1>7 DEF Claims!Validate
  <2>2. [r \in {job[s]} |-> [db[r] EXCEPT !.validated = TRUE]]
          = [r \in {job[s]} |-> [db[job[s]] EXCEPT !.validated = TRUE]]
    OBVIOUS
  <2>3. job[s] \in DOMAIN db BY <1>t, <1>v, <2>1, OneRowOfClaims DEF ClaimJobsTyped
  <2>4. db' = [db EXCEPT ![job[s]] = [db[job[s]] EXCEPT !.validated = TRUE]]
    <3> DEFINE v == [db[job[s]] EXCEPT !.validated = TRUE]
    <3>1. db' = Claims!Over([r \in {job[s]} |-> v], db) BY <2>1, <2>2 DEF Claims!Apply
    <3> HIDE DEF v
    <3>2. db' = [db EXCEPT ![job[s]] = v] BY <1>t, <2>3, <3>1, OneRowOfClaims
    <3> QED BY <3>2 DEF v
  <2> QED BY <2>1, <2>4 DEF Claims!Apply, Claims!Goto, Changes, Ends, Moves
<1>8. CASE Claims!Pay(s)
  <2>1. /\ at[s] = "pay" /\ Claims!Apply(s, [r \in {"amount"} |-> job[s]], "idle", NoJob)
    BY <1>8 DEF Claims!Pay
  <2>2. db' = [db EXCEPT !["amount"] = job[s]]
    BY <1>t, <2>1, OneRowOfClaims DEF Claims!Apply
  <2> QED BY <2>1, <2>2 DEF Claims!Apply, Claims!Goto, Changes, Ends, Moves
<1>9. CASE Claims!UpdateShare(s)
  <2>1. at[s] = "shares" BY <1>9 DEF Claims!UpdateShare
  <2>2. PICK h \in job[s].left :
          /\ h = job[s].last => job[s].left = {h}
          /\ Claims!Apply(s, [r \in {h} |-> [db[r] EXCEPT !.share = Claims!ShareOf(job[s], h)]],
                          IF h = job[s].last THEN "distributed" ELSE "shares",
                          [job[s] EXCEPT !.left = @ \ {h}])
    BY <1>9 DEF Claims!UpdateShare
  <2>3. h \in Many BY <1>t, <2>1 DEF ClaimJobsTyped, Sharer, Distribution
  <2>4. [r \in {h} |-> [db[r] EXCEPT !.share = Claims!ShareOf(job[s], h)]]
          = [r \in {h} |-> [db[h] EXCEPT !.share = Claims!ShareOf(job[s], h)]]
    OBVIOUS
  <2>5. db' = [db EXCEPT ![h] = [db[h] EXCEPT !.share = Claims!ShareOf(job[s], h)]]
    <3> DEFINE v == [db[h] EXCEPT !.share = Claims!ShareOf(job[s], h)]
    <3>1. db' = Claims!Over([r \in {h} |-> v], db) BY <2>2, <2>4 DEF Claims!Apply
    <3>2. h \in DOMAIN db BY <1>t, <2>3, OneRowOfClaims
    <3> HIDE DEF v
    <3>3. db' = [db EXCEPT ![h] = v] BY <1>t, <3>1, <3>2, OneRowOfClaims
    <3> QED BY <3>3 DEF v
  <2>6. Serves(s, h) /\ mine' = mine
    BY <2>1, <2>2, <2>5 DEF Claims!Apply, Claims!Goto, Serves, Moves
  <2> QED BY <2>3, <2>6
<1>10. CASE Claims!EndRequest(s)
  <2>1. at[s] = "distributed" /\ Claims!Publish(s, "idle", NoJob)
    BY <1>10 DEF Claims!EndRequest, Claims!Commit
  <2>2. db' = db BY <1>0, <1>t, <2>1, OneRowOfClaims DEF Claims!Publish
  <2>3. mine' = mine BY <1>0, <2>1 DEF Claims!Publish
  <2> QED BY <2>1, <2>2, <2>3 DEF Claims!Publish, Claims!Goto, GivesUp, Ends, Moves
<1>11. CASE Claims!Fail(s) BY <1>11, <1>r DEF Claims!Fail
<1> QED BY <1>1, <1>2, <1>3, <1>4, <1>5, <1>6, <1>7, <1>8, <1>9, <1>10, <1>11
        DEF Claims!Claiming, Claims!Sharing

-----------------------------------------------------------------------------
(* The induction.                                                           *)

\* A share is a number.
LEMMA ShareIsNumber ==
  ASSUME NEW j \in Distribution, j.last \in j.among, NEW h
  PROVE  Claims!ShareOf(j, h) \in Int
<1>1. j.among \in SUBSET Many /\ j.total \in Nat BY DEF Distribution
<1>2. IsFiniteSet(j.among) BY <1>1, HeirsAssumed, FS_Subset
<1>3. Cardinality(j.among) \in Nat /\ Cardinality(j.among) # 0
  BY <1>2, FS_CardinalityType, FS_EmptySet
<1>4. \A a \in Nat, n \in Nat \ {0} : a \div n \in Int OBVIOUS
<1>5. Claims!Rounded(j) \in Int BY <1>1, <1>3, <1>4, SameSizesOfClaims DEF Claims!Rounded
<1>6. Claims!Rounded(j) * Cardinality(j.among) \in Int BY <1>3, <1>5
<1> QED BY <1>1, <1>5, <1>6, SameSizesOfClaims DEF Claims!ShareOf

\* The shares of everybody are the amount, whatever the division leaves over.
LEMMA ShareSum ==
  ASSUME NEW j \in Distribution, j.last \in j.among,
         NEW f, \A h \in j.among : f[h] = Claims!ShareOf(j, h)
  PROVE  SumFunctionOnSet(f, j.among) = j.total
<1> DEFINE A == j.among
           n == Cardinality(A)
           k == Claims!Rounded(j)
           e == [h \in A |-> k]
<1>1. A \in SUBSET Many /\ j.total \in Nat BY DEF Distribution
<1>2. IsFiniteSet(A) BY <1>1, HeirsAssumed, FS_Subset
<1>3. n \in Nat /\ n # 0 BY <1>2, FS_CardinalityType, FS_EmptySet
<1>4. k \in Int
  <2>1. \A a \in Nat, m \in Nat \ {0} : a \div m \in Int OBVIOUS
  <2> QED BY <1>1, <1>3, <2>1, SameSizesOfClaims DEF Claims!Rounded
<1>5. k * n \in Int /\ n * k = k * n BY <1>3, <1>4
<1>6. \A h \in A : f[h] = k + (IF h = j.last THEN j.total - k * n ELSE 0)
  BY SameSizesOfClaims DEF Claims!ShareOf
<1>7. \A h \in A : f[h] \in Int /\ e[h] \in Int BY <1>1, <1>4, <1>5, <1>6
<1>8. \A h \in A \ {j.last} : f[h] = e[h] BY <1>4, <1>6
<1>9. f[j.last] - e[j.last] = j.total - k * n
  <2>1. f[j.last] = k + (j.total - k * n) /\ e[j.last] = k BY <1>6
  <2> QED BY <1>1, <1>4, <1>5, <2>1
<1>10. SumFunctionOnSet(e, A) = n * k
  <2>1. \A h \in A : e[h] = k OBVIOUS
  <2> HIDE DEF A, e, k, n
  <2>2. SumFunctionOnSet(e, A) = Cardinality(A) * k BY <1>2, <1>4, <2>1, SumOfSame
  <2> QED BY <2>2 DEF n
<1>11. SumFunctionOnSet(f, A) = SumFunctionOnSet(e, A) + (f[j.last] - e[j.last])
  <2> HIDE DEF A, e, k, n
  <2> DEFINE x == j.last
  <2>1. x \in A BY DEF A
  <2>2. \A y \in A : e[y] \in Int /\ f[y] \in Int BY <1>7
  <2>3. \A y \in A \ {x} : f[y] = e[y] BY <1>8
  <2> HIDE DEF x
  <2>4. SumFunctionOnSet(f, A) = SumFunctionOnSet(e, A) + (f[x] - e[x])
    BY <1>2, <2>1, <2>2, <2>3, SumChanges
  <2> QED BY <2>4 DEF x
<1> HIDE DEF A, e, k, n
<1>12. SumFunctionOnSet(f, A) = j.total BY <1>1, <1>5, <1>9, <1>10, <1>11
<1> QED BY <1>12 DEF A

ClaimStep(s) ==
  Asks(s) \/ Finds(s) \/ Changes(s) \/ GivesUp(s) \/ \E h \in Many : Serves(s, h)

\* Who has a claim keeps it, who is validated stays so, and has a share only then.
LEMMA ClaimantsStay ==
  ASSUME Shares, NEW s \in Session, ClaimStep(s), mine' = mine
  PROVE  /\ ClaimsTyped' /\ Claims!Claimants \subseteq Claims!Claimants'
         /\ Claims!Validated \subseteq Claims!Validated'
         /\ Claims!Shared' \subseteq Claims!Validated'
<1>t. ClaimsTyped /\ ClaimJobsTyped /\ OfTheValidated BY DEF Shares
<1>v. Claims!Claimants \subseteq Many BY DEF Claims!Claimants
<1>a. Absent \notin Known /\ NewClaimant \in Known /\ NewClaimant.share = Absent
      /\ NewClaimant.validated = FALSE
  BY HeirsAssumed DEF NewClaimant, Known
<1>m. \A x, v : ClaimsTyped /\ db' = [db EXCEPT ![x] = v] => db' = [r \in Claims!Row |-> db'[r]]
  BY DEF ClaimsTyped
<1>1. CASE db' = db
  <2>1. /\ Claims!Claimants' = Claims!Claimants /\ Claims!Validated' = Claims!Validated
        /\ Claims!Shared' = Claims!Shared
    BY <1>1 DEF Claims!Claimants, Claims!Validated, Claims!Shared, Many
  <2>2. ClaimsTyped' BY <1>1, <1>t DEF ClaimsTyped, Claims!Row, Many
  <2> QED BY <1>t, <2>1, <2>2 DEF OfTheValidated
<1>2. CASE at[s] = "claim" /\ job[s] \notin Claims!Claimants /\ db' = [db EXCEPT ![job[s]] = NewClaimant]
  <2>1. job[s] \in Many BY <1>2, <1>t DEF ClaimJobsTyped
  <2>2. db[job[s]] = Absent BY <1>2, <2>1 DEF Claims!Claimants
  <2>3. \A h \in Many : db'[h] = IF h = job[s] THEN NewClaimant ELSE db[h]
    BY <1>2, <1>t, OneRowOfClaims
  <2>4. db'["amount"] = db["amount"] BY <1>2, <2>1, HeirsAssumed
  <2>5. \A h \in Many : db'[h] \in Known \cup {Absent} BY <1>t, <1>a, <2>3 DEF ClaimsTyped
  <2>6. db' = [r \in Claims!Row |-> db'[r]] BY <1>2, <1>t, <1>m
  <2>7. ClaimsTyped' BY <1>t, <2>4, <2>5, <2>6 DEF ClaimsTyped, Claims!Row, Many
  <2>8. Claims!Claimants \subseteq Claims!Claimants'
    BY <1>a, <2>3 DEF Claims!Claimants
  <2>9. Claims!Validated' = Claims!Validated
    BY <1>a, <2>2, <2>3 DEF Claims!Claimants, Claims!Validated
  <2>10. Claims!Shared' = Claims!Shared
    BY <1>a, <2>2, <2>3 DEF Claims!Claimants, Claims!Shared
  <2> QED BY <1>t, <2>7, <2>8, <2>9, <2>10 DEF OfTheValidated
<1>3. CASE at[s] = "validate" /\ db' = [db EXCEPT ![job[s]] = [@ EXCEPT !.validated = TRUE]]
  <2>1. job[s] \in Many /\ db[job[s]] # Absent
    BY <1>3, <1>t DEF ClaimJobsTyped, Claims!Claimants
  <2>2. db[job[s]] \in Known BY <1>t, <2>1 DEF ClaimsTyped
  <2> DEFINE v == [db[job[s]] EXCEPT !.validated = TRUE]
  <2>3. v \in Known /\ v.validated = TRUE /\ v.share = db[job[s]].share BY <2>2 DEF Known
  <2>4. db' = [db EXCEPT ![job[s]] = v] BY <1>3
  <2> HIDE DEF v
  <2>5. \A h \in Many : db'[h] = IF h = job[s] THEN v ELSE db[h]
    BY <1>t, <2>4, OneRowOfClaims
  <2>6. db'["amount"] = db["amount"] BY <2>1, <2>4, HeirsAssumed
  <2>7. \A h \in Many : db'[h] \in Known \cup {Absent} BY <1>t, <2>3, <2>5 DEF ClaimsTyped
  <2>8. db' = [r \in Claims!Row |-> db'[r]] BY <1>t, <1>m, <2>4
  <2>9. ClaimsTyped' BY <1>t, <2>6, <2>7, <2>8 DEF ClaimsTyped, Claims!Row, Many
  <2>10. Claims!Claimants' = Claims!Claimants
    BY <1>a, <2>1, <2>3, <2>5 DEF Claims!Claimants
  <2>11. Claims!Validated \subseteq Claims!Validated'
    BY <1>v, <2>3, <2>5, <2>10 DEF Claims!Validated
  <2>12. Claims!Shared' = Claims!Shared BY <1>v, <2>3, <2>5, <2>10 DEF Claims!Shared
  <2> QED BY <1>t, <2>9, <2>10, <2>11, <2>12 DEF OfTheValidated
<1>4. CASE at[s] = "pay" /\ db' = [db EXCEPT !["amount"] = job[s]]
  <2>1. \A h \in Many : db'[h] = db[h] BY <1>4, HeirsAssumed
  <2>2. db'["amount"] \in Nat BY <1>4, <1>t, OneRowOfClaims DEF ClaimJobsTyped
  <2>3. db' = [r \in Claims!Row |-> db'[r]] BY <1>4, <1>t, <1>m
  <2>4. ClaimsTyped' BY <1>t, <2>1, <2>2, <2>3 DEF ClaimsTyped, Claims!Row, Many
  <2>5. Claims!Claimants' = Claims!Claimants BY <2>1 DEF Claims!Claimants
  <2>6. Claims!Validated' = Claims!Validated /\ Claims!Shared' = Claims!Shared
    BY <2>1, <2>5 DEF Claims!Validated, Claims!Shared, Claims!Claimants
  <2> QED BY <1>t, <2>4, <2>5, <2>6 DEF OfTheValidated
<1>5. ASSUME NEW h \in Many, Serves(s, h)
      PROVE  /\ ClaimsTyped' /\ Claims!Claimants \subseteq Claims!Claimants'
             /\ Claims!Validated \subseteq Claims!Validated'
             /\ Claims!Shared' \subseteq Claims!Validated'
  <2>1. /\ job[s] \in Distribution /\ job[s].last \in job[s].among /\ h \in Claims!Validated
    BY <1>5, <1>t DEF Serves, ClaimJobsTyped, OfTheValidated, Sharer
  <2>2. db[h] \in Known /\ db[h] # Absent /\ db[h].validated
    BY <1>t, <2>1 DEF ClaimsTyped, Claims!Validated, Claims!Claimants
  <2> DEFINE v == [db[h] EXCEPT !.share = Claims!ShareOf(job[s], h)]
  <2>3. v \in Known /\ v.validated = db[h].validated BY <2>1, <2>2, ShareIsNumber DEF Known
  <2>4. db' = [db EXCEPT ![h] = v] BY <1>5 DEF Serves
  <2> HIDE DEF v
  <2>5. \A g \in Many : db'[g] = IF g = h THEN v ELSE db[g]
    BY <1>t, <2>4, OneRowOfClaims
  <2>6. db'["amount"] = db["amount"] BY <2>4, HeirsAssumed
  <2>7. \A g \in Many : db'[g] \in Known \cup {Absent} BY <1>t, <2>3, <2>5 DEF ClaimsTyped
  <2>8. db' = [r \in Claims!Row |-> db'[r]] BY <1>t, <1>m, <2>4
  <2>9. ClaimsTyped' BY <1>t, <2>6, <2>7, <2>8 DEF ClaimsTyped, Claims!Row, Many
  <2>10. Claims!Claimants' = Claims!Claimants
    BY <1>a, <2>2, <2>3, <2>5 DEF Claims!Claimants
  <2>11. Claims!Validated' = Claims!Validated
    BY <1>v, <2>2, <2>3, <2>5, <2>10 DEF Claims!Validated
  <2>12. Claims!Shared' \subseteq Claims!Shared \cup {h}
    BY <1>v, <2>5, <2>10 DEF Claims!Shared
  <2> QED BY <1>t, <2>1, <2>9, <2>10, <2>11, <2>12 DEF OfTheValidated
<1> QED BY <1>1, <1>2, <1>3, <1>4, <1>5
        DEF ClaimStep, Asks, Finds, Changes, GivesUp

\* A step changes what its own request knows, and that is of the same kind.
LEMMA ClaimJobsStay ==
  ASSUME Shares, NEW s \in Session, ClaimStep(s), mine' = mine
  PROVE  ClaimJobsTyped' /\ OfTheValidated' /\ OneAtMost'
<1>t. ClaimsTyped /\ ClaimJobsTyped /\ OfTheValidated /\ OneAtMost BY DEF Shares
<1>g. /\ ClaimsTyped' /\ Claims!Claimants \subseteq Claims!Claimants'
      /\ Claims!Validated \subseteq Claims!Validated'
      /\ Claims!Shared' \subseteq Claims!Validated'
  BY ClaimantsStay
<1> DEFINE Kind(l, j) ==
      /\ l \in HeirLabels
      /\ l = "claim" => j \in Many
      /\ l = "validate" => j \in Claims!Claimants
      /\ l = "pay" => j \in Nat
      /\ l \in Sharer => /\ j \in Distribution /\ j.among \subseteq Claims!Validated
                         /\ j.last \in j.among /\ j.left \subseteq j.among
<1>1. ASSUME NEW l, NEW j, Moves(s, l, j), Kind(l, j) PROVE ClaimJobsTyped' /\ OfTheValidated'
  <2>1. \A t \in Session : /\ at'[t] = IF t = s THEN l ELSE at[t]
                           /\ job'[t] = IF t = s THEN j ELSE job[t]
    BY <1>1, <1>t DEF Moves, ClaimJobsTyped
  <2>2. \A t \in Session : Kind(at[t], job[t])
    BY <1>t DEF ClaimJobsTyped, OfTheValidated
  <2>3. \A t \in Session : Kind(at'[t], job'[t])
    <3> HIDE DEF Kind
    <3> QED BY <1>1, <2>1, <2>2
  <2>4. at' \in [Session -> HeirLabels] /\ DOMAIN job' = Session
    BY <1>1, <1>t DEF Moves, ClaimJobsTyped
  <2>5. ClaimJobsTyped' BY <1>g, <2>3, <2>4 DEF ClaimJobsTyped, Many, Distribution
  <2>6. OfTheValidated' BY <1>g, <2>3 DEF OfTheValidated
  <2> QED BY <2>5, <2>6
<1>k. \A l, j : Kind(l, j) <=>
      /\ l \in HeirLabels
      /\ l = "claim" => j \in Many
      /\ l = "validate" => j \in Claims!Claimants
      /\ l = "pay" => j \in Nat
      /\ l \in Sharer => /\ j \in Distribution /\ j.among \subseteq Claims!Validated
                         /\ j.last \in j.among /\ j.left \subseteq j.among
  OBVIOUS
<1>s. \A t \in Session : Kind(at[t], job[t])
    BY <1>t DEF ClaimJobsTyped, OfTheValidated
<1> HIDE DEF Kind
<1>2. \E l : \E j : Moves(s, l, j) /\ Kind(l, j)
  <2>1. CASE Asks(s)
    <3>1. CASE \E h \in Many : Moves(s, "claim", h)
      <4>1. PICK h \in Many : Moves(s, "claim", h) BY <3>1
      <4>2. Kind("claim", h) BY <1>k DEF HeirLabels, Sharer
      <4> QED BY <4>1, <4>2
    <3>2. CASE \E h \in Claims!Claimants : Moves(s, "validate", h)
      <4>1. PICK h \in Claims!Claimants : Moves(s, "validate", h) BY <3>2
      <4>2. Kind("validate", h) BY <1>k DEF HeirLabels, Sharer
      <4> QED BY <4>1, <4>2
    <3>3. CASE \E m \in Nat : Moves(s, "pay", m)
      <4>1. PICK m \in Nat : Moves(s, "pay", m) BY <3>3
      <4>2. Kind("pay", m) BY <1>k DEF HeirLabels, Sharer
      <4> QED BY <4>1, <4>2
    <3>4. CASE \E j \in Distribution :
                 /\ j.among = Claims!Validated /\ j.left = j.among /\ j.last \in j.among
                 /\ Moves(s, "shared before", j)
      <4>1. PICK j \in Distribution :
                 /\ j.among = Claims!Validated /\ j.left = j.among /\ j.last \in j.among
                 /\ Moves(s, "shared before", j)
        BY <3>4
      <4>2. Kind("shared before", j) BY <1>k, <4>1 DEF HeirLabels, Sharer
      <4> QED BY <4>1, <4>2
    <3> QED BY <2>1, <3>1, <3>2, <3>3, <3>4 DEF Asks
  <2>2. CASE Finds(s)
    <3>1. CASE at[s] = "shared before" /\ Moves(s, "read amount", job[s])
      <4>1. Kind("read amount", job[s]) BY <1>k, <1>s, <3>1 DEF HeirLabels, Sharer
      <4> QED BY <3>1, <4>1
    <3>2. CASE at[s] = "read amount" /\ Moves(s, "shares", [job[s] EXCEPT !.total = db["amount"]])
      <4> DEFINE j == [job[s] EXCEPT !.total = db["amount"]]
      <4>1. /\ job[s] \in Distribution /\ job[s].among \subseteq Claims!Validated
            /\ job[s].last \in job[s].among /\ job[s].left \subseteq job[s].among
        BY <1>k, <1>s, <3>2 DEF Sharer
      <4>2. /\ j \in Distribution /\ j.among = job[s].among /\ j.last = job[s].last
            /\ j.left = job[s].left
        BY <1>t, <4>1 DEF Distribution, ClaimsTyped
      <4>3. Kind("shares", j)
        <5> HIDE DEF j
        <5> QED BY <1>k, <4>1, <4>2 DEF HeirLabels, Sharer
      <4> QED BY <3>2, <4>3
    <3> QED BY <2>2, <3>1, <3>2 DEF Finds
  <2>3. CASE Ends(s)
    <3>1. Kind("idle", NoJob) BY <1>k DEF HeirLabels, Sharer
    <3> QED BY <2>3, <3>1 DEF Ends
  <2>4. ASSUME NEW h \in Many, Serves(s, h) PROVE \E l : \E j : Moves(s, l, j) /\ Kind(l, j)
    <3> DEFINE j == [job[s] EXCEPT !.left = @ \ {h}]
               l == IF h = job[s].last THEN "distributed" ELSE "shares"
    <3>1. /\ job[s] \in Distribution /\ job[s].among \subseteq Claims!Validated
          /\ job[s].last \in job[s].among /\ job[s].left \subseteq job[s].among
      BY <1>k, <1>s, <2>4 DEF Sharer, Serves
    <3>2. /\ j \in Distribution /\ j.among = job[s].among /\ j.last = job[s].last
          /\ j.left = job[s].left \ {h}
      BY <3>1 DEF Distribution
    <3>3. l \in {"distributed", "shares"} /\ Moves(s, l, j) BY <2>4 DEF Serves
    <3> HIDE DEF j, l
    <3>4. Kind(l, j) BY <1>k, <3>1, <3>2, <3>3 DEF HeirLabels, Sharer
    <3> QED BY <3>3, <3>4
  <2> QED BY <2>1, <2>2, <2>3, <2>4 DEF ClaimStep, Changes, GivesUp
<1>3. OneAtMost'
  <2>1. \E l : at' = [at EXCEPT ![s] = l] BY <1>2 DEF Moves
  <2>2. \A t \in Session \ {s} : at'[t] = at[t] BY <1>t, <2>1 DEF ClaimJobsTyped
  <2>3. CASE Asks(s)
    <3>1. calm' = (calm /\ \A t \in Session : at[t] = "idle") BY <2>3 DEF Asks
    <3> QED BY <1>t, <2>2, <3>1 DEF OneAtMost
  <2>4. CASE ~Asks(s)
    <3>1. calm' = calm /\ at[s] # "idle"
      BY <2>4 DEF ClaimStep, Finds, Changes, GivesUp, Ends, Serves
    <3> QED BY <1>t, <2>2, <3>1 DEF OneAtMost
  <2> QED BY <2>3, <2>4
<1> QED BY <1>1, <1>2, <1>3

\* What a distribution that nothing runs beside has read is there, and what it wrote.
LEMMA StaysUndisturbed ==
  ASSUME Shares, NEW s \in Session, ClaimStep(s), mine' = mine
  PROVE  Undisturbed'
<1>t. ClaimsTyped /\ ClaimJobsTyped /\ OfTheValidated /\ OneAtMost /\ Undisturbed BY DEF Shares
<1>n. ClaimsTyped' /\ ClaimJobsTyped' /\ OfTheValidated' /\ Claims!Validated \subseteq Claims!Validated'
  BY ClaimantsStay, ClaimJobsStay
<1> SUFFICES ASSUME calm', NEW t \in Session, at'[t] \in Sharer
             PROVE  /\ job'[t].among = Claims!Validated'
                    /\ at'[t] \in {"shares", "distributed"} => job'[t].total = db'["amount"]
                    /\ at'[t] \in {"shared before", "read amount"} => job'[t].left = job'[t].among
                    /\ at'[t] = "distributed" => job'[t].left = {}
                    /\ \A h \in job'[t].among \ job'[t].left :
                         db'[h].share = Claims!ShareOf(job'[t], h)
  BY DEF Undisturbed, Claims!ShareOf, Claims!Rounded
<1>i. \A l, j : Moves(s, l, j) => /\ at'[s] = l /\ job'[s] = j
                                  /\ \A u \in Session \ {s} : at'[u] = at[u] /\ job'[u] = job[u]
  BY <1>t DEF Moves, ClaimJobsTyped
<1>1. CASE Asks(s)
  <2>1. \A u \in Session : at[u] = "idle" BY <1>1 DEF Asks
  <2>2. db' = db BY <1>1 DEF Asks
  <2>3. \E l : \E j : Moves(s, l, j) BY <1>1 DEF Asks
  <2>4. t = s BY <1>i, <2>1, <2>3 DEF Sharer
  <2>5. PICK j \in Distribution :
          /\ j.among = Claims!Validated /\ j.left = j.among /\ j.last \in j.among
          /\ Moves(s, "shared before", j)
    BY <1>1, <1>i, <2>4 DEF Asks, Sharer
  <2>6. at'[t] = "shared before" /\ job'[t] = j BY <1>i, <2>4, <2>5
  <2>7. Claims!Validated' = Claims!Validated
    BY <2>2 DEF Claims!Validated, Claims!Claimants, Many
  <2> QED BY <2>5, <2>6, <2>7
<1>2. ASSUME calm' = calm, at[s] # "idle", NEW l, NEW j, Moves(s, l, j) PROVE t = s /\ calm
  BY <1>2, <1>i, <1>t DEF OneAtMost, Sharer
<1>3. CASE Finds(s)
  <2>1. calm' = calm /\ db' = db /\ at[s] \in {"shared before", "read amount"} BY <1>3 DEF Finds
  <2>2. \E l : \E j : Moves(s, l, j) BY <1>3 DEF Finds
  <2>3. t = s /\ calm BY <1>2, <2>1, <2>2
  <2>4. Claims!Validated' = Claims!Validated
    BY <2>1 DEF Claims!Validated, Claims!Claimants, Many
  <2>5. job[s].among = Claims!Validated /\ job[s].left = job[s].among /\ job[s] \in Distribution
    BY <1>t, <2>1, <2>3 DEF Undisturbed, Sharer, ClaimJobsTyped
  <2>6. CASE at[s] = "shared before" /\ Moves(s, "read amount", job[s])
    <3>1. at'[t] = "read amount" /\ job'[t] = job[s] BY <1>i, <2>3, <2>6
    <3> QED BY <2>4, <2>5, <3>1
  <2>7. CASE at[s] = "read amount" /\ Moves(s, "shares", [job[s] EXCEPT !.total = db["amount"]])
    <3>1. at'[t] = "shares" /\ job'[t] = [job[s] EXCEPT !.total = db["amount"]]
      BY <1>i, <2>3, <2>7
    <3>2. job'[t].among = job[s].among /\ job'[t].left = job[s].left /\ job'[t].total = db["amount"]
      BY <2>5, <3>1 DEF Distribution
    <3> QED BY <2>1, <2>4, <2>5, <3>1, <3>2
  <2> QED BY <1>3, <2>6, <2>7 DEF Finds
<1>4. ASSUME Ends(s) PROVE FALSE
  <2>1. Moves(s, "idle", NoJob) /\ calm' = calm /\ at[s] # "idle" BY <1>4 DEF Ends
  <2>2. t = s BY <1>2, <2>1
  <2> QED BY <1>i, <2>1, <2>2 DEF Sharer
<1>5. ASSUME NEW h \in Many, Serves(s, h)
      PROVE  /\ job'[t].among = Claims!Validated'
             /\ at'[t] \in {"shares", "distributed"} => job'[t].total = db'["amount"]
             /\ at'[t] \in {"shared before", "read amount"} => job'[t].left = job'[t].among
             /\ at'[t] = "distributed" => job'[t].left = {}
             /\ \A g \in job'[t].among \ job'[t].left :
                  db'[g].share = Claims!ShareOf(job'[t], g)
  <2> DEFINE l == IF h = job[s].last THEN "distributed" ELSE "shares"
             j == [job[s] EXCEPT !.left = @ \ {h}]
             v == [db[h] EXCEPT !.share = Claims!ShareOf(job[s], h)]
  <2>1. /\ at[s] = "shares" /\ h \in job[s].left /\ (h = job[s].last => job[s].left = {h})
        /\ calm' = calm /\ db' = [db EXCEPT ![h] = v] /\ Moves(s, l, j)
    BY <1>5 DEF Serves
  <2>2. job[s] \in Distribution BY <1>t, <2>1 DEF ClaimJobsTyped, Sharer
  <2>3. /\ j.among = job[s].among /\ j.last = job[s].last /\ j.total = job[s].total
        /\ j.left = job[s].left \ {h}
    BY <2>2 DEF Distribution
  <2>4. db[h] \in Known
    BY <1>t, <2>1 DEF OfTheValidated, Sharer, ClaimsTyped, Claims!Validated, Claims!Claimants
  <2>5. v.share = Claims!ShareOf(job[s], h) /\ v.validated = db[h].validated /\ v \in [validated : BOOLEAN, share : {v.share}]
    BY <2>4 DEF Known
  <2>6. \A g : Claims!ShareOf(j, g) = Claims!ShareOf(job[s], g)
    <3> HIDE DEF j
    <3> QED BY <2>3 DEF Claims!ShareOf, Claims!Rounded
  <2>7. t = s /\ calm
    <3> HIDE DEF j, l
    <3> QED BY <1>2, <2>1
  <2>8. at'[t] = l /\ job'[t] = j
    <3> HIDE DEF j, l
    <3> QED BY <1>i, <2>1, <2>7
  <2>9. /\ job[s].among = Claims!Validated /\ job[s].total = db["amount"]
        /\ \A g \in job[s].among \ job[s].left : db[g].share = Claims!ShareOf(job[s], g)
    BY <1>t, <2>1, <2>7 DEF Undisturbed, Sharer
  <2>10. l = "distributed" => job[s].left = {h} BY <2>1
  <2>11. l \in {"shares", "distributed"} OBVIOUS
  <2> HIDE DEF j, l, v
  <2>12. \A g \in Many : db'[g] = IF g = h THEN v ELSE db[g] BY <1>t, <2>1, OneRowOfClaims
  <2>13. db'["amount"] = db["amount"] BY <2>1, HeirsAssumed
  <2>14. Claims!Validated' = Claims!Validated
    <3>1. Claims!Validated' \subseteq Many BY DEF Claims!Validated, Claims!Claimants, Many
    <3>2. h \in Claims!Validated BY <1>t, <2>1 DEF OfTheValidated, Sharer
    <3>3. \A g \in Claims!Validated' : g \in Claims!Validated
      <4> SUFFICES ASSUME NEW g \in Claims!Validated', g # h PROVE g \in Claims!Validated
        BY <3>2
      <4>1. g \in Many /\ db'[g] # Absent /\ db'[g].validated BY DEF Claims!Validated, Claims!Claimants, Many
      <4>2. db'[g] = db[g] BY <2>12, <4>1
      <4> QED BY <4>1, <4>2 DEF Claims!Validated, Claims!Claimants
    <3> QED BY <1>n, <3>3
  <2>15. job[s].among \subseteq Many BY <2>2 DEF Distribution
  <2>16. ASSUME NEW g \in job'[t].among \ job'[t].left
         PROVE  db'[g].share = Claims!ShareOf(job'[t], g)
    <3>1. g \in job[s].among /\ (g = h \/ g \notin job[s].left) BY <2>3, <2>8
    <3>2. g \in Many BY <2>15, <3>1
    <3>3. CASE g = h BY <2>5, <2>6, <2>8, <2>12, <3>2, <3>3
    <3>4. CASE g # h
      <4>1. db'[g] = db[g] BY <2>12, <3>2, <3>4
      <4>2. db[g].share = Claims!ShareOf(job[s], g) BY <2>9, <3>1, <3>4
      <4> QED BY <2>6, <2>8, <4>1, <4>2
    <3> QED BY <3>3, <3>4
  <2> QED BY <2>3, <2>8, <2>9, <2>10, <2>11, <2>13, <2>14, <2>16
<1> QED BY <1>1, <1>3, <1>4, <1>5 DEF ClaimStep, Changes, GivesUp

\* At the beginning nobody has a claim.
LEMMA ClaimsBegin == Init => ClaimsInv
<1> SUFFICES ASSUME Claims!Init PROVE Shares
  BY DEF Init, ClaimsInv
<1>1. /\ db = [r \in Claims!Row |-> IF r \in Many THEN Absent ELSE 10]
      /\ mine = [s \in Session |-> Claims!Unwritten]
      /\ at = [s \in Session |-> "idle"] /\ job = [s \in Session |-> NoJob] /\ calm = TRUE
  BY DEF Claims!Init, Claims!RequestsInit
<1>2. \A h \in Many : db[h] = Absent BY <1>1 DEF Claims!Row
<1>3. db["amount"] = 10 BY <1>1, HeirsAssumed DEF Claims!Row
<1>4. mine = [s \in Session |-> Unwritten] BY <1>1 DEF Unwritten, Claims!Unwritten
<1>5. db = [r \in Claims!Row |-> db[r]] BY <1>1
<1>6. ClaimsTyped BY <1>2, <1>3, <1>4, <1>5 DEF ClaimsTyped
<1>7. ClaimJobsTyped BY <1>1 DEF ClaimJobsTyped, HeirLabels, Sharer
<1>8. OneAtMost BY <1>1 DEF OneAtMost
<1>9. OfTheValidated
  BY <1>1, <1>2 DEF OfTheValidated, Sharer, Claims!Shared, Claims!Claimants
<1>10. Undisturbed BY <1>1 DEF Undisturbed, Sharer
<1> QED BY <1>6, <1>7, <1>8, <1>9, <1>10 DEF Shares

\* The steps of the heirs keep its invariant.
LEMMA ClaimsSteps == ClaimsInv /\ [Next]_vars => ClaimsInv'
<1> SUFFICES ASSUME ClaimsInv, [Next]_vars, part' = "claims" PROVE Shares'
  BY DEF ClaimsInv
<1>1. part = "claims" BY DEF Next, vars
<1>2. Shares BY <1>1 DEF ClaimsInv
<1>3. CASE Claims!Next
  <2>1. mine' = mine /\ \E s \in Session : ClaimStep(s)
    BY <1>2, <1>3, ClaimForms DEF ClaimStep
  <2>2. PICK s \in Session : ClaimStep(s) BY <2>1
  <2> QED BY <1>2, <2>1, <2>2, ClaimantsStay, ClaimJobsStay, StaysUndisturbed DEF Shares
<1>4. CASE UNCHANGED vars
  <2>1. db' = db /\ mine' = mine /\ at' = at /\ job' = job /\ calm' = calm BY <1>4 DEF vars
  <2>2. /\ Claims!Claimants' = Claims!Claimants /\ Claims!Validated' = Claims!Validated
        /\ Claims!Shared' = Claims!Shared
    BY <2>1 DEF Claims!Claimants, Claims!Validated, Claims!Shared, Many
  <2>3. ClaimsTyped' BY <1>2, <2>1 DEF Shares, ClaimsTyped, Claims!Row, Many
  <2>4. ClaimJobsTyped' BY <1>2, <2>1, <2>2 DEF Shares, ClaimJobsTyped, Many, Distribution
  <2>5. OneAtMost' BY <1>2, <2>1 DEF Shares, OneAtMost
  <2>6. OfTheValidated' BY <1>2, <2>1, <2>2 DEF Shares, OfTheValidated
  <2>7. Undisturbed'
    <3>1. \A s \in Session : \A h : Claims!ShareOf(job[s], h)' = Claims!ShareOf(job[s], h)
      BY <2>1 DEF Claims!ShareOf, Claims!Rounded
    <3> QED BY <1>2, <2>1, <2>2, <3>1 DEF Shares, Undisturbed
  <2> QED BY <2>3, <2>4, <2>5, <2>6, <2>7 DEF Shares
<1> QED BY <1>1, <1>3, <1>4 DEF Next

\* Only who was validated has a share, and the shares of a distribution that nothing else
\* ran beside are the amount to the cent, whatever those that died before it left behind.
THEOREM SharesAlwaysAddUp == Spec => []SharesAddUp
<1>1. ClaimsInv => SharesAddUp
  <2> SUFFICES ASSUME Shares PROVE Claims!SharesAddUp
    BY DEF ClaimsInv, SharesAddUp
  <2>1. ASSUME NEW s \in Session, at[s] = "distributed", calm
        PROVE  /\ Claims!Shared = Claims!Validated
               /\ Claims!SumFunction([h \in Claims!Shared |-> db[h].share]) = db["amount"]
    <3> DEFINE j == job[s]
    <3>1. j \in Distribution /\ j.last \in j.among
      BY <2>1 DEF Shares, ClaimJobsTyped, OfTheValidated, Sharer
    <3>2. /\ j.among = Claims!Validated /\ j.total = db["amount"]
          /\ \A h \in j.among : db[h].share = Claims!ShareOf(j, h)
      BY <2>1 DEF Shares, Undisturbed, Sharer
    <3>3. \A h \in Claims!Validated : db[h].share # Absent
      BY <3>1, <3>2, ShareIsNumber, HeirsAssumed
    <3>4. Claims!Shared = Claims!Validated
      BY <3>3 DEF Shares, OfTheValidated, Claims!Shared, Claims!Validated
    <3> DEFINE f == [h \in Claims!Shared |-> db[h].share]
    <3>5. \A h \in j.among : f[h] = Claims!ShareOf(j, h) BY <3>2, <3>4
    <3>6. Claims!SumFunction(f) = SumFunctionOnSet(f, Claims!Shared)
      BY DEF Claims!SumFunction, Claims!SumFunctionOnSet, Claims!FoldFunctionOnSet,
             Claims!MapThenFoldSet, SumFunctionOnSet, FoldFunctionOnSet, MapThenFoldSet
    <3> HIDE DEF f, j
    <3>7. SumFunctionOnSet(f, j.among) = j.total BY <3>1, <3>5, ShareSum
    <3> QED BY <3>2, <3>4, <3>6, <3>7 DEF f
  <2> QED BY <2>1 DEF Claims!SharesAddUp, Shares, OfTheValidated
<1> QED BY <1>1, ClaimsBegin, ClaimsSteps, PTL DEF Spec

-----------------------------------------------------------------------------
(* The year's profit: what each gets of an amount.                          *)

\* What divides a product cancels.
LEMMA Cancels ==
  ASSUME NEW t \in Nat \ {0}, NEW a \in Int, NEW b \in Int, t * a <= t * b
  PROVE  a <= b
<1> SUFFICES ASSUME a >= b + 1 PROVE FALSE
  OBVIOUS
<1>1. \A d \in Nat : t * (b + 1 + d) = t * b + t + t * d /\ t * d >= 0 OBVIOUS
<1>2. PICK d \in Nat : a = b + 1 + d
  <2>1. a - b - 1 \in Nat /\ a = b + 1 + (a - b - 1) OBVIOUS
  <2> QED BY <2>1
<1>3. t * a = t * b + t + t * d /\ t * d >= 0 BY <1>1, <1>2
<1>4. \A x, y, z \in Int : x = y + t + z /\ z >= 0 => ~(x <= y) OBVIOUS
<1>5. t * a \in Int /\ t * b \in Int /\ t * d \in Int OBVIOUS
<1> QED BY <1>3, <1>4, <1>5

\* A quotient is the greatest number that goes into what is divided.
LEMMA QuotientIs ==
  ASSUME NEW a \in Nat, NEW b \in Nat \ {0}
  PROVE  /\ a \div b \in Nat /\ b * (a \div b) <= a /\ a < b * (a \div b) + b
         /\ \A m \in Int : b * m <= a => m <= a \div b
<1>1. a \div b \in Nat /\ b * (a \div b) <= a /\ a < b * (a \div b) + b OBVIOUS
<1>2. ASSUME NEW m \in Int, b * m <= a PROVE m <= a \div b
  <2> DEFINE q == a \div b
  <2>1. q \in Nat /\ a < b * q + b BY <1>1
  <2> HIDE DEF q
  <2> SUFFICES ASSUME m >= q + 1 PROVE FALSE
    BY <2>1 DEF q
  <2>2. b * (q + 1) = b * q + b BY <2>1
  <2>3. b * (q + 1) \in Int /\ b * m \in Int /\ b * q \in Int BY <2>1
  <2>4. b * (q + 1) <= b * m
    <3>1. \A d \in Nat : b * (q + 1 + d) = b * (q + 1) + b * d /\ b * d >= 0 BY <2>1
    <3>2. PICK d \in Nat : m = q + 1 + d
      <4>1. m - q - 1 \in Nat /\ m = q + 1 + (m - q - 1) BY <2>1
      <4> QED BY <4>1
    <3>3. b * m = b * (q + 1) + b * d /\ b * d >= 0 BY <3>1, <3>2
    <3>4. b * d \in Int OBVIOUS
    <3> QED BY <2>3, <3>3, <3>4
  <2> QED BY <1>2, <2>1, <2>2, <2>3, <2>4
<1> QED BY <1>1, <1>2

\* The caps.
LEMMA CapsAre ==
  ASSUME NEW w \in Nat
  PROVE  /\ Profit!MinCap(w) \in Nat /\ Profit!MaxCap(w) \in Nat
         /\ Profit!MinCap(w) <= Profit!MaxCap(w)
         /\ 12 * Profit!MinCap(w) <= w /\ 3 * Profit!MaxCap(w) <= w
         /\ \A m \in Int : 12 * m <= w => m <= Profit!MinCap(w)
         /\ \A m \in Int : 3 * m <= w => m <= Profit!MaxCap(w)
BY DEF Profit!MinCap, Profit!MaxCap

\* Of an amount a, out of the earnings t of all, somebody who earned w gets what
\* the caps make of a * w \div t.
Raw(a, w, t) == (a * w) \div t
Cut(a, w, t) ==
  Profit!Greater(Profit!MinCap(w), Profit!Lesser(Raw(a, w, t), Profit!MaxCap(w)))

\* One rate cuts everybody at the same cap, or nobody.
LEMMA CutsAlike ==
  ASSUME NEW a \in Nat, NEW w \in Nat, NEW t \in Nat \ {0}
  PROVE  /\ Raw(a, w, t) \in Nat /\ Cut(a, w, t) \in Nat
         /\ t * Raw(a, w, t) <= a * w /\ a * w < t * Raw(a, w, t) + t
         /\ 12 * a < t => /\ Cut(a, w, t) = Profit!MinCap(w)
                          /\ Raw(a, w, t) <= Cut(a, w, t)
         /\ t < 3 * a => /\ Cut(a, w, t) = Profit!MaxCap(w)
                         /\ Cut(a, w, t) <= Raw(a, w, t)
         /\ 3 * a <= t /\ t <= 12 * a => Cut(a, w, t) = Raw(a, w, t)
<1> DEFINE q == Raw(a, w, t)  lo == Profit!MinCap(w)  hi == Profit!MaxCap(w)
<1>1. a * w \in Nat OBVIOUS
<1>2. /\ q \in Nat /\ t * q <= a * w /\ a * w < t * q + t
      /\ \A m \in Int : t * m <= a * w => m <= q
  BY <1>1, QuotientIs DEF Raw
<1>3. /\ lo \in Nat /\ hi \in Nat /\ lo <= hi /\ 12 * lo <= w /\ 3 * hi <= w
      /\ \A m \in Int : 12 * m <= w => m <= lo
      /\ \A m \in Int : 3 * m <= w => m <= hi
  BY CapsAre
<1>4. Cut(a, w, t) = IF lo < (IF q < hi THEN q ELSE hi) THEN (IF q < hi THEN q ELSE hi) ELSE lo
  BY DEF Cut, Profit!Greater, Profit!Lesser
<1> HIDE DEF q, lo, hi
\* what is at most a fraction of what is earned
<1>5. ASSUME NEW k \in Nat \ {0}, k * a <= t PROVE k * q <= w
  <2>1. t * (k * q) = k * (t * q) /\ k * (t * q) <= k * (a * w)
    <3>1. t * (k * q) = k * (t * q) BY <1>2
    <3>2. k * (t * q) <= k * (a * w)
      <4>1. \A x, y \in Int : x <= y => k * x <= k * y
        <5>1. ASSUME NEW x \in Int, NEW y \in Int, x <= y PROVE k * x <= k * y
          <6>1. k * y = k * x + k * (y - x) /\ k * (y - x) >= 0 /\ k * x \in Int /\ k * (y - x) \in Int
            BY <5>1
          <6> QED BY <6>1
        <5> QED BY <5>1
      <4>2. t * q \in Int /\ a * w \in Int BY <1>2
      <4> QED BY <1>2, <4>1, <4>2
    <3> QED BY <3>1, <3>2
  <2>2. k * (a * w) = w * (k * a) /\ w * (k * a) <= w * t
    <3>1. k * (a * w) = w * (k * a) OBVIOUS
    <3>2. w * t = w * (k * a) + w * (t - k * a) /\ w * (t - k * a) >= 0
      <4>1. \A d \in Nat : w * (k * a + d) = w * (k * a) + w * d /\ w * d >= 0 OBVIOUS
      <4>2. t - k * a \in Nat /\ t = k * a + (t - k * a) BY <1>5
      <4> QED BY <4>1, <4>2
    <3>3. w * (k * a) \in Int /\ w * (t - k * a) \in Int OBVIOUS
    <3> QED BY <3>1, <3>2, <3>3
  <2>3. w * t = t * w OBVIOUS
  <2>4. t * (k * q) <= t * w
    <3>1. t * (k * q) \in Int /\ k * (a * w) \in Int /\ t * w \in Int BY <1>2
    <3> QED BY <2>1, <2>2, <2>3, <3>1
  <2>5. k * q \in Int BY <1>2
  <2> QED BY <2>4, <2>5, Cancels
\* and at least
<1>6. ASSUME NEW k \in Nat \ {0}, t <= k * a, NEW m \in Nat, k * m <= w PROVE m <= q
  <2>1. k * (t * m) = t * (k * m) /\ t * (k * m) <= t * w
    <3>1. k * (t * m) = t * (k * m) OBVIOUS
    <3>2. t * w = t * (k * m) + t * (w - k * m) /\ t * (w - k * m) >= 0
      <4>1. \A d \in Nat : t * (k * m + d) = t * (k * m) + t * d /\ t * d >= 0 OBVIOUS
      <4>2. w - k * m \in Nat /\ w = k * m + (w - k * m) BY <1>6
      <4> QED BY <4>1, <4>2
    <3>3. t * (k * m) \in Int /\ t * (w - k * m) \in Int OBVIOUS
    <3> QED BY <3>1, <3>2, <3>3
  <2>2. t * w = w * t /\ w * t <= w * (k * a)
    <3>1. w * (k * a) = w * t + w * (k * a - t) /\ w * (k * a - t) >= 0
      <4>1. \A d \in Nat : w * (t + d) = w * t + w * d /\ w * d >= 0 OBVIOUS
      <4>2. k * a - t \in Nat /\ k * a = t + (k * a - t) BY <1>6
      <4> QED BY <4>1, <4>2
    <3>2. w * t \in Int /\ w * (k * a - t) \in Int /\ t * w = w * t OBVIOUS
    <3> QED BY <3>1, <3>2
  <2>3. w * (k * a) = k * (a * w) OBVIOUS
  <2>4. k * (t * m) <= k * (a * w)
    <3>1. k * (t * m) \in Int /\ t * w \in Int /\ k * (a * w) \in Int OBVIOUS
    <3> QED BY <2>1, <2>2, <2>3, <3>1
  <2>5. t * m \in Int /\ a * w \in Int OBVIOUS
  <2>6. t * m <= a * w BY <2>4, <2>5, Cancels
  <2> QED BY <1>2, <2>6
<1>7. CASE 12 * a < t
  <2>1. 12 * q <= w BY <1>5, <1>7
  <2>2. q <= lo BY <1>2, <1>3, <2>1
  <2> QED BY <1>2, <1>3, <1>4, <1>7, <2>2 DEF q, lo, hi
<1>8. CASE t < 3 * a
  <2>1. hi <= q BY <1>3, <1>6, <1>8
  <2> QED BY <1>2, <1>3, <1>4, <1>8, <2>1 DEF q, lo, hi
<1>9. CASE 3 * a <= t /\ t <= 12 * a
  <2>1. 3 * q <= w BY <1>5, <1>9
  <2>2. q <= hi BY <1>2, <1>3, <2>1
  <2>3. lo <= q BY <1>3, <1>6, <1>9
  <2> QED BY <1>2, <1>3, <1>4, <1>9, <2>2, <2>3 DEF q, lo, hi
<1> QED BY <1>7, <1>8, <1>9

\* What the quotients leave over is less than a unit for each.
LEMMA RawsAddUp ==
  ASSUME NEW A, IsFiniteSet(A), NEW a \in Nat, NEW w, \A e \in A : w[e] \in Nat,
         NEW t \in Nat \ {0}, t = SumFunctionOnSet(w, A),
         NEW r, \A e \in A : r[e] = Raw(a, w[e], t)
  PROVE  /\ SumFunctionOnSet(r, A) \in Int
         /\ SumFunctionOnSet(r, A) <= a
         /\ a - Cardinality(A) <= SumFunctionOnSet(r, A)
<1> DEFINE tr == [e \in A |-> t * r[e]]
           aw == [e \in A |-> a * w[e]]
           one == [e \in A |-> 1]
           more == [e \in A |-> r[e] + 1]
           tm == [e \in A |-> t * more[e]]
           R == SumFunctionOnSet(r, A)
           n == Cardinality(A)
<1>1. ASSUME NEW e \in A
      PROVE  /\ r[e] \in Int /\ tr[e] \in Int /\ aw[e] \in Int /\ tm[e] \in Int
             /\ tr[e] <= aw[e] /\ aw[e] <= tm[e]
  <2>1. /\ r[e] \in Nat /\ t * r[e] <= a * w[e] /\ a * w[e] < t * r[e] + t
    BY CutsAlike
  <2>2. t * (r[e] + 1) = t * r[e] + t BY <2>1
  <2>3. a * w[e] \in Int /\ t * r[e] \in Int BY <2>1
  <2> QED BY <2>1, <2>2, <2>3
<1>2. R \in Int BY <1>1, SumType
<1>3. SumFunctionOnSet(tr, A) = t * R
  <2>1. \A e \in A : r[e] \in Int /\ tr[e] = t * r[e] BY <1>1
  <2> HIDE DEF tr
  <2> QED BY <2>1, SumScaled
<1>4. SumFunctionOnSet(aw, A) = a * t
  <2>1. \A e \in A : w[e] \in Int /\ aw[e] = a * w[e] OBVIOUS
  <2> HIDE DEF aw
  <2> QED BY <2>1, SumScaled
<1>5. SumFunctionOnSet(more, A) = R + n
  <2>1. \A e \in A : one[e] = 1 OBVIOUS
  <2>2. \A e \in A : r[e] \in Int /\ one[e] \in Int /\ more[e] = r[e] + one[e] BY <1>1
  <2> HIDE DEF one, more
  <2>3. SumFunctionOnSet(one, A) = Cardinality(A) * 1 BY <2>1, SumOfSame
  <2>4. SumFunctionOnSet(more, A) = SumFunctionOnSet(r, A) + SumFunctionOnSet(one, A)
    BY <2>2, SumAdds
  <2>5. Cardinality(A) \in Nat BY FS_CardinalityType
  <2> QED BY <2>3, <2>4, <2>5
<1>6. SumFunctionOnSet(tm, A) = t * (R + n)
  <2>1. \A e \in A : more[e] \in Int /\ tm[e] = t * more[e] BY <1>1
  <2> HIDE DEF tm, more
  <2>2. SumFunctionOnSet(tm, A) = t * SumFunctionOnSet(more, A) BY <2>1, SumScaled
  <2> QED BY <1>5, <2>2
<1>7. SumFunctionOnSet(tr, A) <= SumFunctionOnSet(aw, A)
  <2>1. \A e \in A : tr[e] \in Int /\ aw[e] \in Int /\ tr[e] <= aw[e] BY <1>1
  <2> HIDE DEF tr, aw
  <2> QED BY <2>1, SumMonotone
<1>8. SumFunctionOnSet(aw, A) <= SumFunctionOnSet(tm, A)
  <2>1. \A e \in A : aw[e] \in Int /\ tm[e] \in Int /\ aw[e] <= tm[e] BY <1>1
  <2> HIDE DEF tm, aw
  <2> QED BY <2>1, SumMonotone
<1>9. n \in Nat BY FS_CardinalityType
<1>10. t * R <= t * a /\ t * a <= t * (R + n)
  <2>1. a * t = t * a OBVIOUS
  <2> QED BY <1>3, <1>4, <1>6, <1>7, <1>8, <2>1
<1> HIDE DEF R, n
<1>11. R <= a BY <1>2, <1>10, Cancels
<1>12. a <= R + n
  <2>1. R + n \in Int BY <1>2, <1>9
  <2> QED BY <1>10, <2>1, Cancels
<1>13. a - n <= R BY <1>2, <1>9, <1>12
<1> QED BY <1>2, <1>11, <1>13 DEF R, n

\* An amount is given out but for a unit each, or everybody is cut at one cap.
LEMMA CutsAddUp ==
  ASSUME NEW A, IsFiniteSet(A), NEW a \in Nat, NEW w, \A e \in A : w[e] \in Nat \ {0},
         NEW f, \A e \in A : f[e] = Cut(a, w[e], SumFunctionOnSet(w, A))
  PROVE  LET given == SumFunctionOnSet(f, A) IN
           \/ a - Cardinality(A) <= given /\ given <= a
           \/ a > given /\ \A e \in A : f[e] = Profit!MaxCap(w[e])
           \/ a < given /\ \A e \in A : f[e] = Profit!MinCap(w[e])
<1>1. CASE A = {}
  <2>1. SumFunctionOnSet(f, A) = 0 /\ Cardinality(A) = 0 BY <1>1, SumOfNone, FS_EmptySet
  <2> QED BY <1>1, <2>1
<1>2. CASE A # {}
  <2> DEFINE t == SumFunctionOnSet(w, A)
             r == [e \in A |-> Raw(a, w[e], t)]
             R == SumFunctionOnSet(r, A)
             G == SumFunctionOnSet(f, A)
             n == Cardinality(A)
  <2>1. t \in Nat \ {0}
    <3>1. \A e \in A : w[e] \in Nat OBVIOUS
    <3>2. PICK e \in A : TRUE BY <1>2
    <3>3. t \in Nat BY <3>1, SumNatural
    <3>4. w[e] <= t BY <3>1, SumCovers
    <3>5. w[e] \in Nat \ {0} OBVIOUS
    <3> HIDE DEF t
    <3> QED BY <3>3, <3>4, <3>5
  <2>2. \A e \in A : r[e] = Raw(a, w[e], t) OBVIOUS
  <2>3. \A e \in A : f[e] = Cut(a, w[e], t) OBVIOUS
  <2>4. t = SumFunctionOnSet(w, A) OBVIOUS
  <2> HIDE DEF t, r
  <2>5. R \in Int /\ R <= a /\ a - n <= R BY <2>1, <2>2, <2>4, RawsAddUp
  <2>c. ASSUME NEW e \in A
        PROVE  /\ r[e] \in Int /\ f[e] \in Int
               /\ 12 * a < t => f[e] = Profit!MinCap(w[e]) /\ r[e] <= f[e]
               /\ t < 3 * a => f[e] = Profit!MaxCap(w[e]) /\ f[e] <= r[e]
               /\ 3 * a <= t /\ t <= 12 * a => f[e] = r[e]
    <3>1. w[e] \in Nat OBVIOUS
    <3>2. r[e] = Raw(a, w[e], t) /\ f[e] = Cut(a, w[e], t) BY <2>2, <2>3
    <3>3. /\ Raw(a, w[e], t) \in Nat /\ Cut(a, w[e], t) \in Nat
          /\ 12 * a < t => /\ Cut(a, w[e], t) = Profit!MinCap(w[e])
                           /\ Raw(a, w[e], t) <= Cut(a, w[e], t)
          /\ t < 3 * a => /\ Cut(a, w[e], t) = Profit!MaxCap(w[e])
                          /\ Cut(a, w[e], t) <= Raw(a, w[e], t)
          /\ 3 * a <= t /\ t <= 12 * a => Cut(a, w[e], t) = Raw(a, w[e], t)
      BY <2>1, <3>1, CutsAlike
    <3> QED BY ONLY <3>2, <3>3
  <2>6. \A e \in A : f[e] \in Int /\ r[e] \in Int BY <2>c
  <2>7. G \in Int BY <2>6, SumType
  <2>8. n \in Nat BY FS_CardinalityType
  <2>9. CASE 12 * a < t
    <3>1. \A e \in A : f[e] = Profit!MinCap(w[e]) /\ r[e] <= f[e]
      BY <2>c, <2>9
    <3>2. R <= G BY <2>6, <3>1, SumMonotone
    <3> HIDE DEF R, G, n
    <3> QED BY <2>5, <2>7, <2>8, <3>1, <3>2 DEF G, n
  <2>10. CASE t < 3 * a
    <3>1. \A e \in A : f[e] = Profit!MaxCap(w[e]) /\ f[e] <= r[e]
      BY <2>c, <2>10
    <3>2. G <= R BY <2>6, <3>1, SumMonotone
    <3> HIDE DEF R, G, n
    <3> QED BY <2>5, <2>7, <2>8, <3>1, <3>2 DEF G, n
  <2>11. CASE 3 * a <= t /\ t <= 12 * a
    <3>1. \A e \in A : f[e] = r[e] BY <2>c, <2>11
    <3>2. G = R BY <2>6, <3>1, SumSame
    <3> QED BY <2>5, <3>2
  <2> QED BY <2>1, <2>9, <2>10, <2>11
<1> QED BY <1>1, <1>2

-----------------------------------------------------------------------------
(* The year's profit: while nothing else runs, what a calculation has read  *)
(* is what is there, and those it has served have what they are due.        *)

ProfitLabels == {"idle", "employees", "salaries", "details", "bonus period", "advance"}
Calculator == {"employees", "salaries", "details"}

IsCalculation(j) ==
  /\ j = [amount |-> j.amount, earned |-> j.earned, left |-> j.left]
  /\ j.amount \in Nat /\ j.left \subseteq Staff /\ DOMAIN j.earned \subseteq Staff
  /\ j.earned = [e \in DOMAIN j.earned |-> j.earned[e]]
  /\ \A e \in DOMAIN j.earned : j.earned[e] \in Nat \ {0}

YearTyped ==
  /\ DOMAIN db = Profit!Row /\ db = [r \in DOMAIN db |-> db[r]]
  /\ Profit!TypeOK
  /\ mine = [s \in Session |-> Unwritten]

YearJobsTyped ==
  /\ at \in [Session -> ProfitLabels] /\ DOMAIN job = Session
  /\ \A s \in Session :
       /\ at[s] \in {"bonus period", "advance"} => job[s] \in Staff
       /\ at[s] \in Calculator => IsCalculation(job[s]) /\ db[Period] # Absent
       /\ at[s] = "employees" => DOMAIN job[s].earned = {}
       /\ at[s] = "details" => job[s].left \subseteq DOMAIN job[s].earned

\* What a calculation that nothing runs beside has read, and what it wrote.
ReadOf(l, j) ==
  /\ db[Period].status # "cerrado" /\ db[Period].amount = j.amount
  /\ l = "salaries" => DOMAIN j.earned \cup j.left = Profit!Active
  /\ l = "details" => DOMAIN j.earned = Profit!Active
  /\ \A e \in DOMAIN j.earned : j.earned[e] = Profit!Earned(e)
  /\ l = "details" => \A e \in DOMAIN j.earned \ j.left :
       /\ db[Profit!Detail(e)] # Absent
       /\ db[Profit!Detail(e)].final = Profit!Final(j, e)

Calculates == calm => \A s \in Session : at[s] \in Calculator => ReadOf(at[s], job[s])

Year == YearTyped /\ YearJobsTyped /\ OneAtMost /\ Calculates

YearInv == part = "profit" => Year

\* What is assumed of the year.
LEMMA YearAssumed ==
  /\ IsFiniteSet(Staff) /\ \A e \in Staff : Worked[e] \in 1 .. 12
  /\ \A e \in Staff : Earning[e] \subseteq Nat \ {0}
  /\ Seventeen \subseteq Nat
  /\ Period \notin Staff /\ ({Period} \cup Staff) \cap {Profit!Detail(e) : e \in Staff} = {}
  /\ Absent \notin Nat /\ Absent \notin Profit!PeriodRow /\ Absent \notin Profit!DetailRow
  /\ \A e \in Staff : Absent \notin Profit!EmployeeRow(e)
<1>1. IsFiniteSet(Staff)
  <2>1. Staff = {e1} \cup {e2} BY DEF Staff
  <2>2. IsFiniteSet({e1}) BY FS_Singleton
  <2>3. IsFiniteSet({e1} \cup {e2}) BY <2>2, FS_AddElement
  <2> QED BY <2>1, <2>3
<1>2. Profit!ProfitConstants BY PeopleConstants
<1> QED BY <1>1, <1>2 DEF Profit!ProfitConstants

\* Rows of the year are rows of their own.
LEMMA YearRows ==
  /\ Period \in Profit!Row /\ \A e \in Staff : e \in Profit!Row /\ Profit!Detail(e) \in Profit!Row
  /\ \A e \in Staff : e # Period /\ Profit!Detail(e) # Period
  /\ \A e, g \in Staff : /\ Profit!Detail(e) # g
                         /\ Profit!Detail(e) = Profit!Detail(g) => e = g
  /\ \A r \in Profit!Row : r = Period \/ r \in Staff \/ \E e \in Staff : r = Profit!Detail(e)
BY YearAssumed DEF Profit!Row, Profit!Detail

\* What somebody is due.
LEMMA FinalIs ==
  ASSUME NEW j, IsCalculation(j), NEW e \in DOMAIN j.earned
  PROVE  /\ Profit!Final(j, e)
              = Cut(j.amount, j.earned[e], SumFunctionOnSet(j.earned, DOMAIN j.earned))
         /\ Profit!Final(j, e) \in Nat
<1>1. Profit!TotalEarned(j) = SumFunctionOnSet(j.earned, DOMAIN j.earned)
  BY DEF Profit!TotalEarned, Profit!MapThenSumSet, Profit!MapThenFoldSet,
         SumFunctionOnSet, FoldFunctionOnSet, MapThenFoldSet
<1> DEFINE w == j.earned  A == DOMAIN j.earned  t == SumFunctionOnSet(w, A)
<1>2. Profit!Final(j, e) = Cut(j.amount, w[e], t)
  BY <1>1 DEF Profit!Final, Cut, Raw
<1>3. t \in Nat \ {0}
  <2>1. IsFiniteSet(A) BY YearAssumed, FS_Subset DEF IsCalculation
  <2>2. \A x \in A : w[x] \in Nat \ {0} BY DEF IsCalculation
  <2>3. e \in A OBVIOUS
  <2> HIDE DEF w, A
  <2>4. SumFunctionOnSet(w, A) \in Nat BY <2>1, <2>2, SumNatural
  <2>5. w[e] <= SumFunctionOnSet(w, A) BY <2>1, <2>2, <2>3, SumCovers
  <2> QED BY <2>2, <2>3, <2>4, <2>5
<1>4. w[e] \in Nat /\ j.amount \in Nat BY DEF IsCalculation
<1> HIDE DEF w, A, t
<1>5. Cut(j.amount, w[e], t) \in Nat BY <1>3, <1>4, CutsAlike
<1> QED BY <1>2, <1>5 DEF w, A, t

-----------------------------------------------------------------------------
(* The steps, by what they do.                                              *)

\* A request of one statement.
Keeps(s) ==
  /\ at[s] = "idle" /\ at' = at /\ job' = job
  /\ calm' = (calm /\ \A t \in Session : at[t] = "idle")
  /\ \/ \E v \in Profit!PeriodRow :
          /\ db[Period] # Absent /\ db[Period].status = "cerrado" => v.status = "cerrado"
          /\ db' = [db EXCEPT ![Period] = v]
     \/ \E e \in Staff : \E v \in Profit!EmployeeRow(e) : db' = [db EXCEPT ![e] = v]

Opens(s) ==
  /\ at[s] = "idle" /\ db' = db /\ calm' = (calm /\ \A t \in Session : at[t] = "idle")
  /\ \/ \E j : /\ IsCalculation(j) /\ DOMAIN j.earned = {}
               /\ db[Period] # Absent /\ db[Period].status # "cerrado" /\ db[Period].amount = j.amount
               /\ Moves(s, "employees", j)
     \/ \E l \in {"advance", "bonus period"} : \E e \in Staff : Moves(s, l, e)

\* One more salary is read.
More(j, e) ==
  [j EXCEPT !.left = @ \ {e}, !.earned = Profit!Over([x \in {e} |-> Profit!Earned(x)], @)]

Studies(s) ==
  /\ db' = db /\ calm' = calm
  /\ \/ at[s] = "employees" /\ Moves(s, "salaries", [job[s] EXCEPT !.left = Profit!Active])
     \/ /\ at[s] = "salaries" /\ job[s].left = {}
        /\ Moves(s, "details", [job[s] EXCEPT !.left = DOMAIN job[s].earned])
     \/ /\ at[s] = "salaries"
        /\ \E e \in job[s].left : Moves(s, "salaries", More(job[s], e))

Grants(s, e) ==
  /\ at[s] = "details" /\ e \in job[s].left /\ calm' = calm
  /\ db' = [db EXCEPT ![Profit!Detail(e)] =
              [final |-> Profit!Final(job[s], e), advance |-> Profit!Advance(e)]]
  /\ Moves(s, "details", [job[s] EXCEPT !.left = @ \ {e}])

Marks(s) ==
  /\ at[s] = "details" /\ job[s].left = {} /\ Ends(s)
  /\ db' = [db EXCEPT ![Period] = [@ EXCEPT !.status = "calculado"]]

Creates(s) ==
  /\ at[s] = "bonus period" /\ db[Period] = Absent /\ calm' = calm
  /\ db' = [db EXCEPT ![Period] = Profit!NewPeriod]
  /\ Moves(s, "advance", job[s])

Advances(s) ==
  /\ at[s] = "advance" /\ Ends(s)
  /\ db' = [db EXCEPT ![Profit!Detail(job[s])] =
              [final |-> Profit!Finals[job[s]], advance |-> Profit!Advance(job[s]) + 1]]

YearStep(s) ==
  Keeps(s) \/ Opens(s) \/ Studies(s) \/ Marks(s) \/ Creates(s) \/ Advances(s) \/ GivesUp(s)
    \/ \E e \in Staff : Grants(s, e)

\* Replacing one row.
LEMMA OneRowOfYear ==
  ASSUME YearTyped, NEW x \in Profit!Row, NEW v
  PROVE  Profit!Over([r \in {x} |-> v], db) = [db EXCEPT ![x] = v]
BY DEF Profit!Over, YearTyped

\* What an employee has, and has been given.
LEMMA DetailIs ==
  ASSUME YearTyped, NEW e \in Staff
  PROVE  /\ Profit!Finals[e] = IF db[Profit!Detail(e)] # Absent THEN db[Profit!Detail(e)].final
                               ELSE Absent
         /\ Profit!Finals[e] \in Nat \cup {Absent}
         /\ Profit!Advance(e) = IF db[Profit!Detail(e)] # Absent THEN db[Profit!Detail(e)].advance
                                ELSE 0
         /\ Profit!Advance(e) \in Nat
BY DEF YearTyped, Profit!TypeOK, Profit!Finals, Profit!Advance, Profit!Exists, Profit!DetailRow

\* Each step of the year is one of these, and leaves nothing uncommitted.
LEMMA YearForms ==
  ASSUME Year, Profit!Next
  PROVE  mine' = mine /\ \E s \in Session : YearStep(s)
<1>1. PICK s \in Session :
        Profit!Keeping(s) \/ Profit!Calculating(s) \/ Profit!Advancing(s) \/ Profit!Fail(s)
  BY DEF Profit!Next
<1>0. mine[s] = Profit!Unwritten /\ [mine EXCEPT ![s] = Profit!Unwritten] = mine
  BY DEF Year, YearTyped, Unwritten, Profit!Unwritten
<1>t. YearTyped /\ YearJobsTyped BY DEF Year
<1>p. db[Period] \in Profit!PeriodRow \cup {Absent} BY <1>t DEF YearTyped, Profit!TypeOK
<1>r. ASSUME at[s] # "idle", Profit!Rollback(s) PROVE GivesUp(s) /\ mine' = mine
  BY <1>0, <1>r DEF Profit!Rollback, Profit!Goto, GivesUp, Ends, Moves
<1>2. ASSUME NEW v \in Profit!PeriodRow, Profit!Single(s, Period, v),
             db[Period] # Absent /\ db[Period].status = "cerrado" => v.status = "cerrado"
      PROVE  Keeps(s) /\ mine' = mine
  BY <1>2 DEF Profit!Single, Profit!Quiet, Keeps
<1>3. ASSUME NEW e \in Staff, NEW v \in Profit!EmployeeRow(e), Profit!Single(s, e, v)
      PROVE  Keeps(s) /\ mine' = mine
  BY <1>3 DEF Profit!Single, Profit!Quiet, Keeps
<1>4. CASE Profit!Keeping(s)
  <2>1. CASE Profit!CreatePeriod(s)
    <3>1. Profit!NewPeriod \in Profit!PeriodRow BY DEF Profit!NewPeriod, Profit!PeriodRow
    <3>2. db[Period] = Absent /\ Profit!Single(s, Period, Profit!NewPeriod)
      BY <2>1 DEF Profit!CreatePeriod, Profit!Exists
    <3> QED BY <1>2, <3>1, <3>2 DEF YearStep
  <2>2. CASE Profit!SetLiquidBenefits(s)
    <3>1. PICK a \in Seventeen : /\ db[Period] # Absent
                                 /\ Profit!Single(s, Period, [db[Period] EXCEPT !.amount = a])
      BY <2>2 DEF Profit!SetLiquidBenefits, Profit!Exists
    <3> DEFINE v == [db[Period] EXCEPT !.amount = a]
    <3>2. a \in Nat BY YearAssumed
    <3>3. v \in Profit!PeriodRow /\ v.status = db[Period].status
      BY <1>p, <3>1, <3>2 DEF Profit!PeriodRow
    <3> HIDE DEF v
    <3>4. Profit!Single(s, Period, v) BY <3>1 DEF v
    <3> QED BY <1>2, <3>3, <3>4 DEF YearStep
  <2>3. CASE Profit!Close(s)
    <3>1. db[Period] # Absent /\ Profit!Single(s, Period, [db[Period] EXCEPT !.status = "cerrado"])
      BY <2>3 DEF Profit!Close, Profit!Exists
    <3> DEFINE v == [db[Period] EXCEPT !.status = "cerrado"]
    <3>2. v \in Profit!PeriodRow /\ v.status = "cerrado" BY <1>p, <3>1 DEF Profit!PeriodRow
    <3> HIDE DEF v
    <3>3. Profit!Single(s, Period, v) BY <3>1 DEF v
    <3> QED BY <1>2, <3>2, <3>3 DEF YearStep
  <2>4. CASE Profit!ChangeSalary(s)
    <3>0. PICK e \in Staff : \E v \in Earning[e] : Profit!Single(s, e, [db[e] EXCEPT !.salary = v])
      BY <2>4 DEF Profit!ChangeSalary, Profit!Active
    <3>1. PICK v \in Earning[e] : Profit!Single(s, e, [db[e] EXCEPT !.salary = v])
      BY <3>0
    <3> DEFINE u == [db[e] EXCEPT !.salary = v]
    <3>2. u \in Profit!EmployeeRow(e)
      BY <1>t, <3>1 DEF YearTyped, Profit!TypeOK, Profit!EmployeeRow
    <3> HIDE DEF u
    <3>3. Profit!Single(s, e, u) BY <3>1 DEF u
    <3> QED BY <1>3, <3>2, <3>3 DEF YearStep
  <2>5. CASE Profit!Dismiss(s)
    <3>1. PICK e \in Staff : Profit!Single(s, e, [db[e] EXCEPT !.active = FALSE])
      BY <2>5 DEF Profit!Dismiss, Profit!Active
    <3> DEFINE u == [db[e] EXCEPT !.active = FALSE]
    <3>2. u \in Profit!EmployeeRow(e)
      BY <1>t DEF YearTyped, Profit!TypeOK, Profit!EmployeeRow
    <3> HIDE DEF u
    <3>3. Profit!Single(s, e, u) BY <3>1 DEF u
    <3> QED BY <1>3, <3>2, <3>3 DEF YearStep
  <2> QED BY <1>4, <2>1, <2>2, <2>3, <2>4, <2>5 DEF Profit!Keeping, YearStep
<1>5. CASE Profit!Calculating(s)
  <2>1. CASE Profit!StartCalculate(s)
    <3> DEFINE j == [amount |-> db[Period].amount, earned |-> Profit!Unwritten, left |-> {}]
    <3>1. /\ db[Period] # Absent /\ db[Period].status # "cerrado" /\ db[Period].amount # Absent
          /\ Profit!Begin(s, "employees", j)
      BY <2>1 DEF Profit!StartCalculate, Profit!Exists, Profit!Refused
    <3>2. db[Period].amount \in Nat BY <1>p, <3>1 DEF Profit!PeriodRow
    <3>3. /\ DOMAIN Profit!Unwritten = {}
          /\ Profit!Unwritten = [e \in DOMAIN Profit!Unwritten |-> Profit!Unwritten[e]]
      BY DEF Profit!Unwritten
    <3>4. IsCalculation(j) /\ DOMAIN j.earned = {} /\ j.amount = db[Period].amount
      BY <3>2, <3>3 DEF IsCalculation
    <3> HIDE DEF j
    <3>5. Opens(s) /\ mine' = mine
      BY <3>1, <3>4 DEF Profit!Begin, Profit!Goto, Profit!Quiet, Opens, Moves
    <3> QED BY <3>5 DEF YearStep
  <2>2. CASE Profit!ReadEmployees(s)
    <3>1. Studies(s) /\ mine' = mine
      BY <2>2 DEF Profit!ReadEmployees, Profit!Look, Profit!Goto, Studies, Moves
    <3> QED BY <3>1 DEF YearStep
  <2>3. CASE Profit!ReadSalary(s)
    <3>0. at[s] = "salaries" BY <2>3 DEF Profit!ReadSalary
    <3>1. CASE job[s].left = {}
      <4>1. Studies(s) /\ mine' = mine
        BY <2>3, <3>1 DEF Profit!ReadSalary, Profit!Look, Profit!Goto, Studies, Moves
      <4> QED BY <4>1 DEF YearStep
    <3>2. CASE job[s].left # {}
      <4> DEFINE e == Profit!First(job[s].left)
                 j == More(job[s], e)
      <4>1. e \in job[s].left BY <3>2 DEF Profit!First
      <4>2. Profit!Look(s, "salaries", j) BY <2>3, <3>2 DEF Profit!ReadSalary, More
      <4>3. Moves(s, "salaries", j) /\ db' = db /\ calm' = calm /\ mine' = mine
        <5> HIDE DEF j
        <5> QED BY <4>2 DEF Profit!Look, Profit!Goto, Moves
      <4>4. Studies(s)
        <5> HIDE DEF e
        <5> QED BY <3>0, <4>1, <4>3 DEF Studies
      <4> QED BY <4>3, <4>4 DEF YearStep
    <3> QED BY <3>1, <3>2
  <2>4. CASE Profit!UpsertDetail(s)
    <3> DEFINE e == Profit!First(job[s].left)
               x == Profit!Detail(e)
               v == [final |-> Profit!Final(job[s], e), advance |-> Profit!Advance(e)]
               j == [job[s] EXCEPT !.left = @ \ {e}]
    <3>1. at[s] = "details" /\ job[s].left # {} BY <2>4 DEF Profit!UpsertDetail
    <3>2. e \in job[s].left /\ e \in Staff
      <4>1. e \in job[s].left BY <3>1 DEF Profit!First
      <4>2. job[s].left \subseteq Staff
        BY <1>t, <3>1 DEF YearJobsTyped, Calculator, IsCalculation
      <4> HIDE DEF e
      <4> QED BY <4>1, <4>2
    <3>3. Profit!Apply(s, [r \in {x} |->
                 [final |-> Profit!Final(job[s], e),
                  advance |-> IF Profit!Exists(r) THEN db[r].advance ELSE 0]], "details", j)
      BY <2>4 DEF Profit!UpsertDetail
    <3> HIDE DEF e
    <3>4. [r \in {x} |-> [final |-> Profit!Final(job[s], e),
                          advance |-> IF Profit!Exists(r) THEN db[r].advance ELSE 0]]
            = [r \in {x} |-> v]
      BY DEF Profit!Advance
    <3> HIDE DEF v, x, j
    <3>5. Profit!Apply(s, [r \in {x} |-> v], "details", j) BY <3>3, <3>4
    <3>6. x \in Profit!Row BY <3>2, YearRows DEF x
    <3>7. db' = [db EXCEPT ![x] = v] /\ mine' = mine /\ calm' = calm /\ Moves(s, "details", j)
      BY <1>t, <3>5, <3>6, OneRowOfYear DEF Profit!Apply, Profit!Goto, Moves
    <3>8. Grants(s, e) BY <3>1, <3>2, <3>7 DEF Grants, x, v, j
    <3> QED BY <3>2, <3>7, <3>8 DEF YearStep
  <2>5. CASE Profit!SetTotals(s)
    <3> DEFINE v == [db[Period] EXCEPT !.status = "calculado"]
    <3>1. at[s] = "details" /\ job[s].left = {}
          /\ Profit!Apply(s, [r \in {Period} |-> [db[r] EXCEPT !.status = "calculado"]], "idle", NoJob)
      BY <2>5 DEF Profit!SetTotals
    <3>2. [r \in {Period} |-> [db[r] EXCEPT !.status = "calculado"]] = [r \in {Period} |-> v]
      OBVIOUS
    <3> HIDE DEF v
    <3>3. Profit!Apply(s, [r \in {Period} |-> v], "idle", NoJob) BY <3>1, <3>2
    <3>4. db' = [db EXCEPT ![Period] = v] /\ mine' = mine /\ Ends(s)
      BY <1>t, <3>1, <3>3, YearRows, OneRowOfYear DEF Profit!Apply, Profit!Goto, Ends, Moves
    <3>5. Marks(s) BY <3>1, <3>4 DEF Marks, v
    <3> QED BY <3>4, <3>5 DEF YearStep
  <2> QED BY <1>5, <2>1, <2>2, <2>3, <2>4, <2>5 DEF Profit!Calculating
<1>6. CASE Profit!Advancing(s)
  <2>1. CASE Profit!StartBonus(s)
    <3>1. PICK e \in Staff :
            Profit!Begin(s, IF Profit!Exists(Period) THEN "advance" ELSE "bonus period", e)
      BY <2>1 DEF Profit!StartBonus
    <3> DEFINE l == IF Profit!Exists(Period) THEN "advance" ELSE "bonus period"
    <3>2. l \in {"advance", "bonus period"} OBVIOUS
    <3>3. Profit!Begin(s, l, e) BY <3>1
    <3> HIDE DEF l
    <3>4. Opens(s) /\ mine' = mine
      BY <3>2, <3>3 DEF Profit!Begin, Profit!Goto, Profit!Quiet, Opens, Moves
    <3> QED BY <3>4 DEF YearStep
  <2>2. CASE Profit!CreateBonusPeriod(s)
    <3>0. at[s] = "bonus period" BY <2>2 DEF Profit!CreateBonusPeriod
    <3>1. CASE Profit!Exists(Period)
      BY <1>r, <2>2, <3>0, <3>1 DEF Profit!CreateBonusPeriod, YearStep
    <3>2. CASE ~Profit!Exists(Period)
      <4>1. /\ db[Period] = Absent
            /\ Profit!Apply(s, [r \in {Period} |-> Profit!NewPeriod], "advance", job[s])
        BY <2>2, <3>2 DEF Profit!CreateBonusPeriod, Profit!Exists
      <4>2. /\ db' = [db EXCEPT ![Period] = Profit!NewPeriod] /\ mine' = mine /\ calm' = calm
            /\ Moves(s, "advance", job[s])
        BY <1>t, <4>1, YearRows, OneRowOfYear DEF Profit!Apply, Profit!Goto, Moves
      <4> QED BY <3>0, <4>1, <4>2 DEF Creates, YearStep
    <3> QED BY <3>1, <3>2
  <2>3. CASE Profit!UpsertAdvance(s)
    <3> DEFINE e == job[s]
               x == Profit!Detail(e)
               v == [final |-> Profit!Finals[e], advance |-> Profit!Advance(e) + 1]
    <3>1. at[s] = "advance"
          /\ Profit!Apply(s, [r \in {x} |->
               IF Profit!Exists(r) THEN [db[r] EXCEPT !.advance = @ + 1]
               ELSE [final |-> Absent, advance |-> 1]], "idle", NoJob)
      BY <2>3 DEF Profit!UpsertAdvance
    <3>2. e \in Staff BY <1>t, <3>1 DEF YearJobsTyped
    <3> HIDE DEF e
    <3>3. (IF Profit!Exists(x) THEN [db[x] EXCEPT !.advance = @ + 1]
           ELSE [final |-> Absent, advance |-> 1]) = v
      <4>1. CASE db[x] # Absent
        <5>1. db[x] \in Profit!DetailRow BY <1>t, <3>2, <4>1 DEF YearTyped, Profit!TypeOK
        <5>2. Profit!Finals[e] = db[x].final /\ Profit!Advance(e) = db[x].advance
          BY <1>t, <3>2, <4>1, DetailIs
        <5> QED BY <4>1, <5>1, <5>2 DEF Profit!DetailRow, Profit!Exists
      <4>2. CASE db[x] = Absent
        <5>1. Profit!Finals[e] = Absent /\ Profit!Advance(e) = 0
          BY <1>t, <3>2, <4>2, DetailIs
        <5> QED BY <4>2, <5>1 DEF Profit!Exists
      <4> QED BY <4>1, <4>2
    <3>4. [r \in {x} |-> IF Profit!Exists(r) THEN [db[r] EXCEPT !.advance = @ + 1]
                         ELSE [final |-> Absent, advance |-> 1]] = [r \in {x} |-> v]
      <4> HIDE DEF x, v
      <4> QED BY <3>3
    <3> HIDE DEF v, x
    <3>5. Profit!Apply(s, [r \in {x} |-> v], "idle", NoJob) BY <3>1, <3>4
    <3>6. x \in Profit!Row BY <3>2, YearRows DEF x
    <3>7. db' = [db EXCEPT ![x] = v] /\ mine' = mine /\ Ends(s)
      BY <1>t, <3>1, <3>5, <3>6, OneRowOfYear DEF Profit!Apply, Profit!Goto, Ends, Moves
    <3>8. Advances(s) BY <3>1, <3>7 DEF Advances, x, v, e
    <3> QED BY <3>7, <3>8 DEF YearStep
  <2> QED BY <1>6, <2>1, <2>2, <2>3 DEF Profit!Advancing
<1>7. CASE Profit!Fail(s) BY <1>7, <1>r DEF Profit!Fail, YearStep
<1> QED BY <1>1, <1>4, <1>5, <1>6, <1>7

\* A row that is written, and those that are not.
LEMMA RowWritten ==
  ASSUME YearTyped, NEW x \in Profit!Row, NEW v, db' = [db EXCEPT ![x] = v]
  PROVE  /\ DOMAIN db' = Profit!Row /\ db' = [r \in DOMAIN db' |-> db'[r]]
         /\ \A r \in Profit!Row : db'[r] = IF r = x THEN v ELSE db[r]
BY DEF YearTyped

\* A step keeps the tables what they are, and takes back no advance.
LEMMA YearStaysTyped ==
  ASSUME Year, NEW s \in Session, YearStep(s), mine' = mine
  PROVE  /\ YearTyped' /\ (db[Period] # Absent => db'[Period] # Absent)
         /\ \A e \in Staff : Profit!Advance(e)' >= Profit!Advance(e)
<1>t. YearTyped /\ YearJobsTyped BY DEF Year
<1>m. mine' = [t \in Session |-> Unwritten] BY <1>t DEF YearTyped
<1>a. \A e \in Staff : /\ Profit!Advance(e) \in Nat
                       /\ Profit!Advance(e)
                            = IF db[Profit!Detail(e)] # Absent THEN db[Profit!Detail(e)].advance ELSE 0
  BY <1>t, DetailIs
<1>b. \A e \in Staff : Profit!Advance(e)' = IF db'[Profit!Detail(e)] # Absent
                                            THEN db'[Profit!Detail(e)].advance ELSE 0
  BY DEF Profit!Advance, Profit!Exists, Profit!Detail
<1>d. Profit!Row' = Profit!Row /\ \A e \in Staff : Profit!Detail(e)' = Profit!Detail(e)
  BY DEF Profit!Row, Profit!Detail
<1>0. ASSUME db' = db PROVE YearTyped' /\ (db[Period] # Absent => db'[Period] # Absent)
                            /\ \A e \in Staff : Profit!Advance(e)' >= Profit!Advance(e)
  <2>1. YearTyped'
    BY <1>0, <1>t, <1>m, <1>d DEF YearTyped, Profit!TypeOK, Profit!PeriodRow, Profit!DetailRow, Profit!EmployeeRow
  <2> QED BY <1>0, <1>a, <1>b, <2>1
<1>1. ASSUME NEW v \in Profit!PeriodRow, db' = [db EXCEPT ![Period] = v]
      PROVE  YearTyped' /\ (db[Period] # Absent => db'[Period] # Absent)
             /\ \A e \in Staff : Profit!Advance(e)' >= Profit!Advance(e)
  <2>1. /\ DOMAIN db' = Profit!Row /\ db' = [r \in DOMAIN db' |-> db'[r]]
        /\ \A r \in Profit!Row : db'[r] = IF r = Period THEN v ELSE db[r]
    BY <1>t, <1>1, YearRows, RowWritten
  <2>2. /\ db'[Period] = v
        /\ \A e \in Staff : db'[e] = db[e] /\ db'[Profit!Detail(e)] = db[Profit!Detail(e)]
    BY <2>1, YearRows
  <2>3. v # Absent BY YearAssumed
  <2>4. YearTyped'
    BY <1>t, <1>m, <1>d, <2>1, <2>2
    DEF YearTyped, Profit!TypeOK, Profit!PeriodRow, Profit!DetailRow, Profit!EmployeeRow
  <2> QED BY <1>a, <1>b, <2>2, <2>3, <2>4
<1>2. ASSUME NEW e \in Staff, NEW v \in Profit!EmployeeRow(e), db' = [db EXCEPT ![e] = v]
      PROVE  YearTyped' /\ (db[Period] # Absent => db'[Period] # Absent)
             /\ \A g \in Staff : Profit!Advance(g)' >= Profit!Advance(g)
  <2>1. /\ DOMAIN db' = Profit!Row /\ db' = [r \in DOMAIN db' |-> db'[r]]
        /\ \A r \in Profit!Row : db'[r] = IF r = e THEN v ELSE db[r]
    BY <1>t, <1>2, YearRows, RowWritten
  <2>2. /\ db'[Period] = db[Period]
        /\ \A g \in Staff : /\ db'[g] = IF g = e THEN v ELSE db[g]
                            /\ db'[Profit!Detail(g)] = db[Profit!Detail(g)]
    BY <2>1, YearRows
  <2>4. YearTyped'
    BY <1>t, <1>m, <1>d, <2>1, <2>2
    DEF YearTyped, Profit!TypeOK, Profit!PeriodRow, Profit!DetailRow, Profit!EmployeeRow
  <2> QED BY <1>a, <1>b, <2>2, <2>4
<1>3. ASSUME NEW e \in Staff, NEW v \in Profit!DetailRow, db' = [db EXCEPT ![Profit!Detail(e)] = v],
             v.advance >= Profit!Advance(e)
      PROVE  YearTyped' /\ (db[Period] # Absent => db'[Period] # Absent)
             /\ \A g \in Staff : Profit!Advance(g)' >= Profit!Advance(g)
  <2>1. /\ DOMAIN db' = Profit!Row /\ db' = [r \in DOMAIN db' |-> db'[r]]
        /\ \A r \in Profit!Row : db'[r] = IF r = Profit!Detail(e) THEN v ELSE db[r]
    BY <1>t, <1>3, YearRows, RowWritten
  <2>2. /\ db'[Period] = db[Period]
        /\ \A g \in Staff : /\ db'[g] = db[g]
                            /\ db'[Profit!Detail(g)] = IF g = e THEN v ELSE db[Profit!Detail(g)]
    BY <2>1, YearRows
  <2>3. v # Absent BY YearAssumed
  <2>4. YearTyped'
    BY <1>t, <1>m, <1>d, <2>1, <2>2
    DEF YearTyped, Profit!TypeOK, Profit!PeriodRow, Profit!DetailRow, Profit!EmployeeRow
  <2>5. ASSUME NEW g \in Staff PROVE Profit!Advance(g)' >= Profit!Advance(g)
    <3>1. CASE g = e BY <1>3, <1>b, <2>2, <2>3, <3>1
    <3>2. CASE g # e BY <1>a, <1>b, <2>2, <3>2
    <3> QED BY <3>1, <3>2
  <2> QED BY <2>2, <2>4, <2>5
<1>4. CASE Keeps(s) BY <1>1, <1>2, <1>4 DEF Keeps
<1>5. CASE Opens(s) \/ Studies(s) \/ GivesUp(s) BY <1>0, <1>5 DEF Opens, Studies, GivesUp
<1>6. CASE Marks(s)
  <2> DEFINE v == [db[Period] EXCEPT !.status = "calculado"]
  <2>1. db[Period] \in Profit!PeriodRow
    BY <1>t, <1>6 DEF Marks, YearTyped, YearJobsTyped, Calculator, Profit!TypeOK
  <2>2. v \in Profit!PeriodRow BY <2>1 DEF Profit!PeriodRow
  <2>3. db' = [db EXCEPT ![Period] = v] BY <1>6 DEF Marks
  <2> HIDE DEF v
  <2> QED BY <1>1, <2>2, <2>3
<1>7. CASE Creates(s)
  <2>1. Profit!NewPeriod \in Profit!PeriodRow BY DEF Profit!NewPeriod, Profit!PeriodRow
  <2> QED BY <1>1, <1>7, <2>1 DEF Creates
<1>8. CASE Advances(s)
  <2> DEFINE e == job[s]
             v == [final |-> Profit!Finals[e], advance |-> Profit!Advance(e) + 1]
  <2>1. e \in Staff BY <1>t, <1>8 DEF Advances, YearJobsTyped
  <2> HIDE DEF e
  <2>2. Profit!Finals[e] \in Nat \cup {Absent} /\ Profit!Advance(e) \in Nat
    BY <1>t, <2>1, DetailIs
  <2>3. v \in Profit!DetailRow /\ v.advance >= Profit!Advance(e) BY <2>2 DEF Profit!DetailRow
  <2>4. db' = [db EXCEPT ![Profit!Detail(e)] = v] BY <1>8 DEF Advances, e
  <2> HIDE DEF v
  <2> QED BY <1>3, <2>1, <2>3, <2>4
<1>9. ASSUME NEW e \in Staff, Grants(s, e)
      PROVE  YearTyped' /\ (db[Period] # Absent => db'[Period] # Absent)
             /\ \A g \in Staff : Profit!Advance(g)' >= Profit!Advance(g)
  <2> DEFINE v == [final |-> Profit!Final(job[s], e), advance |-> Profit!Advance(e)]
  <2>1. IsCalculation(job[s]) /\ e \in DOMAIN job[s].earned
    BY <1>t, <1>9 DEF Grants, YearJobsTyped, Calculator
  <2>2. Profit!Final(job[s], e) \in Nat BY <2>1, FinalIs
  <2>3. v \in Profit!DetailRow /\ v.advance >= Profit!Advance(e)
    BY <1>a, <2>2 DEF Profit!DetailRow
  <2>4. db' = [db EXCEPT ![Profit!Detail(e)] = v] BY <1>9 DEF Grants
  <2> HIDE DEF v
  <2> QED BY <1>3, <2>3, <2>4
<1> QED BY <1>4, <1>5, <1>6, <1>7, <1>8, <1>9 DEF YearStep

\* One more salary is read.
LEMMA StudiedIs ==
  ASSUME YearTyped, NEW j, IsCalculation(j), NEW e \in Staff
  PROVE  /\ IsCalculation(More(j, e)) /\ More(j, e).amount = j.amount
         /\ More(j, e).left = j.left \ {e}
         /\ DOMAIN More(j, e).earned = DOMAIN j.earned \cup {e}
         /\ \A g \in DOMAIN More(j, e).earned :
              More(j, e).earned[g] = IF g = e THEN Profit!Earned(e) ELSE j.earned[g]
<1> DEFINE w == Profit!Over([x \in {e} |-> Profit!Earned(x)], j.earned)
           k == More(j, e)
<1>1. j = [amount |-> j.amount, earned |-> j.earned, left |-> j.left] BY DEF IsCalculation
<1>2. k = [amount |-> j.amount, earned |-> w, left |-> j.left \ {e}]
  <2>1. k = [j EXCEPT !.left = j.left \ {e}, !.earned = w] BY DEF More
  <2> HIDE DEF w, k
  <2> QED BY <1>1, <2>1
<1>3. DOMAIN w = DOMAIN j.earned \cup {e} /\ w = [g \in DOMAIN w |-> w[g]]
  BY DEF Profit!Over
<1>4. \A g \in DOMAIN w : w[g] = IF g = e THEN Profit!Earned(e) ELSE j.earned[g]
  BY DEF Profit!Over
<1>5. Profit!Earned(e) \in Nat \ {0}
  <2>1. db[e] \in Profit!EmployeeRow(e) BY DEF YearTyped, Profit!TypeOK
  <2>2. db[e].salary \in Nat \ {0} BY <2>1, YearAssumed DEF Profit!EmployeeRow
  <2>3. Worked[e] \in Nat \ {0} BY YearAssumed
  <2>4. db[e].salary * Worked[e] \in Nat \ {0}
    <3> DEFINE a == db[e].salary  b == Worked[e]
    <3>1. a \in Nat \ {0} /\ b \in Nat \ {0} BY <2>2, <2>3
    <3> HIDE DEF a, b
    <3>2. a * b \in Nat BY <3>1
    <3>3. a * b # 0 BY <3>1
    <3>4. a * b \in Nat \ {0} BY <3>2, <3>3
    <3> QED BY <3>4 DEF a, b
  <2> QED BY <2>4 DEF Profit!Earned
<1> HIDE DEF w, k
<1>6. k.amount = j.amount /\ k.earned = w /\ k.left = j.left \ {e}
  <2>1. \A u, x, y, z : u = [amount |-> x, earned |-> y, left |-> z]
                           => u.amount = x /\ u.earned = y /\ u.left = z
    OBVIOUS
  <2> QED BY ONLY <1>2, <2>1
<1>7. \A g \in DOMAIN w : w[g] \in Nat \ {0} BY <1>3, <1>4, <1>5 DEF IsCalculation
<1>8. IsCalculation(k) BY <1>2, <1>3, <1>6, <1>7 DEF IsCalculation
<1> QED BY <1>3, <1>4, <1>6, <1>8 DEF k

\* What the requests hold stays what it is.
LEMMA YearJobsStay ==
  ASSUME Year, NEW s \in Session, YearStep(s), mine' = mine
  PROVE  YearJobsTyped' /\ OneAtMost'
<1>t. YearTyped /\ YearJobsTyped /\ OneAtMost BY DEF Year
<1>g. db[Period] # Absent => db'[Period] # Absent BY YearStaysTyped
<1> DEFINE Kind(l, j) ==
      /\ l \in ProfitLabels
      /\ l \in {"bonus period", "advance"} => j \in Staff
      /\ l \in Calculator => IsCalculation(j) /\ db'[Period] # Absent
      /\ l = "employees" => DOMAIN j.earned = {}
      /\ l = "details" => j.left \subseteq DOMAIN j.earned
<1>1. ASSUME NEW l, NEW j, Moves(s, l, j), Kind(l, j) PROVE YearJobsTyped'
  <2>1. \A t \in Session : /\ at'[t] = IF t = s THEN l ELSE at[t]
                           /\ job'[t] = IF t = s THEN j ELSE job[t]
    BY <1>1, <1>t DEF Moves, YearJobsTyped
  <2>2. \A t \in Session : Kind(at[t], job[t])
    BY <1>t, <1>g DEF YearJobsTyped
  <2>3. \A t \in Session : Kind(at'[t], job'[t])
    <3> HIDE DEF Kind
    <3> QED BY <1>1, <2>1, <2>2
  <2>4. at' \in [Session -> ProfitLabels] /\ DOMAIN job' = Session
    BY <1>1, <1>t DEF Moves, YearJobsTyped
  <2> QED BY <2>3, <2>4 DEF YearJobsTyped, IsCalculation, Staff
<1>k. \A l, j : Kind(l, j) <=>
      /\ l \in ProfitLabels
      /\ l \in {"bonus period", "advance"} => j \in Staff
      /\ l \in Calculator => IsCalculation(j) /\ db'[Period] # Absent
      /\ l = "employees" => DOMAIN j.earned = {}
      /\ l = "details" => j.left \subseteq DOMAIN j.earned
  OBVIOUS
<1>s. \A t \in Session : Kind(at[t], job[t]) BY <1>t, <1>g DEF YearJobsTyped
<1> HIDE DEF Kind
\* a calculation with another list of who is left
<1>l. ASSUME at[s] \in Calculator, NEW E \in SUBSET Staff, NEW j,
             j = [job[s] EXCEPT !.left = E]
      PROVE  IsCalculation(j) /\ j.left = E /\ j.earned = job[s].earned
  <2>1. IsCalculation(job[s]) BY <1>k, <1>l, <1>s
  <2> QED BY <1>l, <2>1 DEF IsCalculation
<1>0. CASE Keeps(s)
  <2>1. at' = at /\ job' = job /\ (calm' => calm) BY <1>0 DEF Keeps
  <2>4. \A t \in Session : Kind(at'[t], job'[t]) BY <1>s, <2>1
  <2>5. at' \in [Session -> ProfitLabels] /\ DOMAIN job' = Session
    BY <1>t, <2>1 DEF YearJobsTyped
  <2>2. YearJobsTyped' BY <1>k, <2>4, <2>5 DEF YearJobsTyped, IsCalculation, Staff
  <2>3. OneAtMost' BY <1>t, <1>0, <2>1 DEF OneAtMost, Keeps
  <2> QED BY <2>2, <2>3
<1>2. ASSUME ~Keeps(s) PROVE \E l : \E j : Moves(s, l, j) /\ Kind(l, j)
  <2>2. CASE Opens(s)
    <3>1. CASE \E j : /\ IsCalculation(j) /\ DOMAIN j.earned = {} /\ db[Period] # Absent
                      /\ Moves(s, "employees", j)
      <4>1. PICK j : /\ IsCalculation(j) /\ DOMAIN j.earned = {} /\ db[Period] # Absent
                     /\ Moves(s, "employees", j)
        BY <3>1
      <4>2. Kind("employees", j) BY <1>g, <1>k, <4>1 DEF ProfitLabels, Calculator
      <4> QED BY <4>1, <4>2
    <3>2. CASE \E l \in {"advance", "bonus period"} : \E e \in Staff : Moves(s, l, e)
      <4>1. PICK l \in {"advance", "bonus period"} : \E e \in Staff : Moves(s, l, e) BY <3>2
      <4>2. PICK e \in Staff : Moves(s, l, e) BY <4>1
      <4>3. Kind(l, e) BY <1>k, <4>1 DEF ProfitLabels, Calculator
      <4> QED BY <4>2, <4>3
    <3> QED BY <2>2, <3>1, <3>2 DEF Opens
  <2>3. CASE Studies(s)
    <3>0. at[s] \in {"employees", "salaries"} BY <2>3 DEF Studies
    <3>1. IsCalculation(job[s]) /\ db'[Period] # Absent BY <1>k, <1>s, <3>0 DEF Calculator
    <3>2. CASE at[s] = "employees" /\ Moves(s, "salaries", [job[s] EXCEPT !.left = Profit!Active])
      <4> DEFINE j == [job[s] EXCEPT !.left = Profit!Active]
      <4>1. Profit!Active \in SUBSET Staff BY DEF Profit!Active
      <4>2. IsCalculation(j) BY <1>l, <3>2, <4>1 DEF Calculator
      <4>3. Kind("salaries", j)
        <5> HIDE DEF j
        <5> QED BY <1>k, <3>1, <4>2 DEF ProfitLabels, Calculator
      <4> QED BY <3>2, <4>3
    <3>3. CASE /\ at[s] = "salaries" /\ job[s].left = {}
               /\ Moves(s, "details", [job[s] EXCEPT !.left = DOMAIN job[s].earned])
      <4> DEFINE j == [job[s] EXCEPT !.left = DOMAIN job[s].earned]
      <4>1. DOMAIN job[s].earned \in SUBSET Staff BY <3>1 DEF IsCalculation
      <4>2. IsCalculation(j) /\ j.left = DOMAIN job[s].earned /\ j.earned = job[s].earned
        BY <1>l, <3>3, <4>1 DEF Calculator
      <4>3. Kind("details", j)
        <5> HIDE DEF j
        <5> QED BY <1>k, <3>1, <4>2 DEF ProfitLabels, Calculator
      <4> QED BY <3>3, <4>3
    <3>4. ASSUME NEW e \in job[s].left, at[s] = "salaries", Moves(s, "salaries", More(job[s], e))
          PROVE  \E l : \E j : Moves(s, l, j) /\ Kind(l, j)
      <4> DEFINE j == More(job[s], e)
      <4>1. e \in Staff BY <3>1 DEF IsCalculation
      <4>2. IsCalculation(j) BY <1>t, <3>1, <4>1, StudiedIs
      <4>3. Kind("salaries", j)
        <5> HIDE DEF j
        <5> QED BY <1>k, <3>1, <4>2 DEF ProfitLabels, Calculator
      <4> QED BY <3>4, <4>3
    <3> QED BY <2>3, <3>2, <3>3, <3>4 DEF Studies
  <2>4. ASSUME NEW e \in Staff, Grants(s, e) PROVE \E l : \E j : Moves(s, l, j) /\ Kind(l, j)
    <3> DEFINE j == [job[s] EXCEPT !.left = @ \ {e}]
    <3>1. at[s] = "details" /\ Moves(s, "details", j) BY <2>4 DEF Grants
    <3>2. /\ IsCalculation(job[s]) /\ db'[Period] # Absent
          /\ job[s].left \subseteq DOMAIN job[s].earned
      BY <1>k, <1>s, <3>1 DEF Calculator
    <3>3. job[s].left \ {e} \in SUBSET Staff BY <3>2 DEF IsCalculation
    <3>4. IsCalculation(j) /\ j.left = job[s].left \ {e} /\ j.earned = job[s].earned
      BY <1>l, <3>1, <3>3 DEF Calculator
    <3> HIDE DEF j
    <3>5. Kind("details", j) BY <1>k, <3>2, <3>4 DEF ProfitLabels, Calculator
    <3> QED BY <3>1, <3>5
  <2>5. CASE Creates(s)
    <3>1. job[s] \in Staff BY <1>k, <1>s, <2>5 DEF Creates
    <3>2. Kind("advance", job[s]) BY <1>k, <3>1 DEF ProfitLabels, Calculator
    <3> QED BY <2>5, <3>2 DEF Creates
  <2>6. CASE Ends(s)
    <3>1. Kind("idle", NoJob) BY <1>k DEF ProfitLabels, Calculator
    <3> QED BY <2>6, <3>1 DEF Ends
  <2> QED BY <1>2, <2>2, <2>3, <2>4, <2>5, <2>6 DEF YearStep, Marks, Advances, GivesUp
<1>3. ASSUME ~Keeps(s) PROVE OneAtMost'
  <2>1. \E l : at' = [at EXCEPT ![s] = l] BY <1>2, <1>3 DEF Moves
  <2>2. \A t \in Session \ {s} : at'[t] = at[t] BY <1>t, <2>1 DEF YearJobsTyped
  <2>3. CASE Opens(s)
    <3>1. calm' = (calm /\ \A t \in Session : at[t] = "idle") BY <2>3 DEF Opens
    <3> QED BY <1>t, <2>2, <3>1 DEF OneAtMost
  <2>4. CASE ~Opens(s)
    <3>1. calm' = calm /\ at[s] # "idle"
      BY <1>3, <2>4 DEF YearStep, Studies, Grants, Marks, Creates, Advances, GivesUp, Ends
    <3> QED BY <1>t, <2>2, <3>1 DEF OneAtMost
  <2> QED BY <2>3, <2>4
<1> QED BY <1>0, <1>1, <1>2, <1>3

\* What a calculation that nothing runs beside has read is there, and what it wrote.
LEMMA StaysCalculated ==
  ASSUME Year, NEW s \in Session, YearStep(s), mine' = mine
  PROVE  Calculates'
<1>t. YearTyped /\ YearJobsTyped /\ OneAtMost /\ Calculates BY DEF Year
<1>n. YearTyped' /\ YearJobsTyped' BY YearStaysTyped, YearJobsStay
<1> DEFINE Good(l, j) ==
      /\ db'[Period].status # "cerrado" /\ db'[Period].amount = j.amount
      /\ l = "salaries" => DOMAIN j.earned \cup j.left = Profit!Active'
      /\ l = "details" => DOMAIN j.earned = Profit!Active'
      /\ \A e \in DOMAIN j.earned : j.earned[e] = db'[e].salary * Worked[e]
      /\ l = "details" => \A e \in DOMAIN j.earned \ j.left :
           /\ db'[Profit!Detail(e)] # Absent
           /\ db'[Profit!Detail(e)].final = Profit!Final(j, e)
<1> SUFFICES ASSUME calm', NEW t \in Session, at'[t] \in Calculator
             PROVE  Good(at'[t], job'[t])
  BY DEF Calculates, ReadOf, Profit!Earned, Profit!Detail
<1>a. Profit!Active = {e \in Staff : db[e].active} /\ Profit!Active' = {e \in Staff : db'[e].active}
  BY DEF Profit!Active, Staff
<1>i. \A l, j : Moves(s, l, j) => /\ at'[s] = l /\ job'[s] = j
                                  /\ \A u \in Session \ {s} : at'[u] = at[u] /\ job'[u] = job[u]
  BY <1>t DEF Moves, YearJobsTyped
<1>r. ASSUME calm, at[s] \in Calculator
      PROVE  /\ IsCalculation(job[s]) /\ db[Period] # Absent
             /\ db[Period].status # "cerrado" /\ db[Period].amount = job[s].amount
             /\ at[s] = "employees" => DOMAIN job[s].earned = {}
             /\ at[s] = "salaries" => DOMAIN job[s].earned \cup job[s].left = Profit!Active
             /\ at[s] = "details" => /\ DOMAIN job[s].earned = Profit!Active
                                     /\ job[s].left \subseteq DOMAIN job[s].earned
             /\ \A e \in DOMAIN job[s].earned : job[s].earned[e] = db[e].salary * Worked[e]
             /\ at[s] = "details" => \A e \in DOMAIN job[s].earned \ job[s].left :
                  /\ db[Profit!Detail(e)] # Absent
                  /\ db[Profit!Detail(e)].final = Profit!Final(job[s], e)
  BY <1>r, <1>t DEF Calculates, ReadOf, YearJobsTyped, Profit!Earned
<1>o. ASSUME calm' = calm, at[s] # "idle", NEW l, NEW j, Moves(s, l, j) PROVE t = s /\ calm
  BY <1>o, <1>i, <1>t DEF OneAtMost, Calculator
<1>g. \A l, j : Good(l, j) <=>
      /\ db'[Period].status # "cerrado" /\ db'[Period].amount = j.amount
      /\ l = "salaries" => DOMAIN j.earned \cup j.left = Profit!Active'
      /\ l = "details" => DOMAIN j.earned = Profit!Active'
      /\ \A e \in DOMAIN j.earned : j.earned[e] = db'[e].salary * Worked[e]
      /\ l = "details" => \A e \in DOMAIN j.earned \ j.left :
           /\ db'[Profit!Detail(e)] # Absent
           /\ db'[Profit!Detail(e)].final = Profit!Final(j, e)
  OBVIOUS
<1> HIDE DEF Good
<1>1. CASE Keeps(s)
  <2>1. at'[t] = "idle" BY <1>1 DEF Keeps
  <2> QED BY <2>1 DEF Calculator
<1>2. CASE Opens(s)
  <2>1. (\A u \in Session : at[u] = "idle") /\ db' = db BY <1>2 DEF Opens
  <2>2. \E l : \E j : Moves(s, l, j) BY <1>2 DEF Opens
  <2>3. t = s BY <1>i, <2>1, <2>2 DEF Calculator
  <2>4. \A l \in {"advance", "bonus period"} : \A e : ~Moves(s, l, e)
    BY <1>i, <2>3 DEF Calculator
  <2>5. PICK j : /\ IsCalculation(j) /\ DOMAIN j.earned = {}
                 /\ db[Period].status # "cerrado" /\ db[Period].amount = j.amount
                 /\ Moves(s, "employees", j)
    BY <1>2, <2>4 DEF Opens
  <2>6. at'[t] = "employees" /\ job'[t] = j BY <1>i, <2>3, <2>5
  <2> QED BY <1>g, <2>1, <2>5, <2>6
<1>3. CASE Studies(s)
  <2>1. calm' = calm /\ db' = db /\ at[s] \in {"employees", "salaries"} BY <1>3 DEF Studies
  <2>2. \E l : \E j : Moves(s, l, j) BY <1>3 DEF Studies
  <2>3. t = s /\ calm BY <1>o, <2>1, <2>2
  <2>4. Profit!Active' = Profit!Active BY <1>a, <2>1
  <2>r. /\ IsCalculation(job[s]) /\ db'[Period].status # "cerrado" /\ db'[Period].amount = job[s].amount
        /\ at[s] = "employees" => DOMAIN job[s].earned = {}
        /\ at[s] = "salaries" => DOMAIN job[s].earned \cup job[s].left = Profit!Active'
        /\ \A e \in DOMAIN job[s].earned : job[s].earned[e] = db'[e].salary * Worked[e]
    BY <1>r, <2>1, <2>3, <2>4 DEF Calculator
  <2>l. ASSUME NEW E, NEW j, j = [job[s] EXCEPT !.left = E]
        PROVE  j.amount = job[s].amount /\ j.earned = job[s].earned /\ j.left = E
    BY <2>l, <2>r DEF IsCalculation
  <2>5. CASE at[s] = "employees" /\ Moves(s, "salaries", [job[s] EXCEPT !.left = Profit!Active])
    <3>1. at'[t] = "salaries" /\ job'[t] = [job[s] EXCEPT !.left = Profit!Active]
      BY <1>i, <2>3, <2>5
    <3>2. /\ job'[t].amount = job[s].amount /\ job'[t].earned = job[s].earned
          /\ job'[t].left = Profit!Active
      BY <2>l, <3>1
    <3> QED BY <1>g, <2>4, <2>5, <2>r, <3>1, <3>2
  <2>6. CASE /\ at[s] = "salaries" /\ job[s].left = {}
             /\ Moves(s, "details", [job[s] EXCEPT !.left = DOMAIN job[s].earned])
    <3>1. at'[t] = "details" /\ job'[t] = [job[s] EXCEPT !.left = DOMAIN job[s].earned]
      BY <1>i, <2>3, <2>6
    <3>2. /\ job'[t].amount = job[s].amount /\ job'[t].earned = job[s].earned
          /\ job'[t].left = DOMAIN job[s].earned
      BY <2>l, <3>1
    <3> QED BY <1>g, <2>6, <2>r, <3>1, <3>2
  <2>7. ASSUME NEW e \in job[s].left, at[s] = "salaries", Moves(s, "salaries", More(job[s], e))
        PROVE  Good(at'[t], job'[t])
    <3> DEFINE k == More(job[s], e)
    <3>1. e \in Staff BY <2>r DEF IsCalculation
    <3>2. /\ k.amount = job[s].amount /\ k.left = job[s].left \ {e}
          /\ DOMAIN k.earned = DOMAIN job[s].earned \cup {e}
          /\ \A g \in DOMAIN k.earned :
               k.earned[g] = IF g = e THEN Profit!Earned(e) ELSE job[s].earned[g]
      BY <1>t, <2>r, <3>1, StudiedIs
    <3>3. Moves(s, "salaries", k) BY <2>7
    <3> HIDE DEF k
    <3>4. at'[t] = "salaries" /\ job'[t] = k BY <1>i, <2>3, <3>3
    <3>5. Profit!Earned(e) = db'[e].salary * Worked[e] BY <2>1 DEF Profit!Earned
    <3>6. DOMAIN k.earned \cup k.left = Profit!Active' BY <2>7, <2>r, <3>2
    <3>7. \A g \in DOMAIN k.earned : k.earned[g] = db'[g].salary * Worked[g]
      BY <2>r, <3>2, <3>5
    <3> QED BY <1>g, <2>r, <3>2, <3>4, <3>6, <3>7
  <2> QED BY <1>3, <2>5, <2>6, <2>7 DEF Studies
<1>4. ASSUME NEW l, l \notin Calculator, calm' = calm, at[s] # "idle", NEW j, Moves(s, l, j)
      PROVE  FALSE
  BY <1>i, <1>4, <1>o
<1>5. CASE Ends(s) BY <1>4, <1>5 DEF Ends, Calculator
<1>6. CASE Creates(s) BY <1>4, <1>6 DEF Creates, Calculator
<1>7. ASSUME NEW e \in Staff, Grants(s, e) PROVE Good(at'[t], job'[t])
  <2> DEFINE j == job[s]  k == [job[s] EXCEPT !.left = @ \ {e}]
             v == [final |-> Profit!Final(j, e), advance |-> Profit!Advance(e)]
  <2>1. /\ at[s] = "details" /\ e \in j.left /\ calm' = calm
        /\ db' = [db EXCEPT ![Profit!Detail(e)] = v] /\ Moves(s, "details", k)
    BY <1>7 DEF Grants
  <2>2. t = s /\ calm
    <3> HIDE DEF k, v
    <3> QED BY <1>o, <2>1
  <2>3. /\ IsCalculation(j) /\ db[Period].status # "cerrado" /\ db[Period].amount = j.amount
        /\ DOMAIN j.earned = Profit!Active /\ j.left \subseteq DOMAIN j.earned
        /\ \A g \in DOMAIN j.earned : j.earned[g] = db[g].salary * Worked[g]
        /\ \A g \in DOMAIN j.earned \ j.left :
             /\ db[Profit!Detail(g)] # Absent
             /\ db[Profit!Detail(g)].final = Profit!Final(j, g)
    BY <1>r, <2>1, <2>2 DEF Calculator
  <2>4. k.amount = j.amount /\ k.earned = j.earned /\ k.left = j.left \ {e}
    BY <2>3 DEF IsCalculation
  <2>5. at'[t] = "details" /\ job'[t] = k
    <3> HIDE DEF k, v
    <3> QED BY <1>i, <2>1, <2>2
  <2>6. \A g : Profit!Final(k, g) = Profit!Final(j, g)
    <3>1. IsCalculation(k) BY <1>n, <2>5, <2>2 DEF YearJobsTyped, Calculator, IsCalculation
    <3> HIDE DEF k, j
    <3> QED BY <2>4 DEF Profit!Final, Profit!TotalEarned
  <2>7. v.final = Profit!Final(j, e) /\ v # Absent
    <3>1. Profit!Final(j, e) \in Nat BY <2>1, <2>3, FinalIs
    <3>2. Profit!Advance(e) \in Nat BY <1>t, DetailIs
    <3>3. v \in Profit!DetailRow BY <3>1, <3>2 DEF Profit!DetailRow
    <3> QED BY <3>3, YearAssumed
  <2> HIDE DEF j, k, v
  <2>8. \A r \in Profit!Row : db'[r] = IF r = Profit!Detail(e) THEN v ELSE db[r]
    BY <1>t, <2>1, YearRows, RowWritten
  <2>9. /\ db'[Period] = db[Period]
        /\ \A g \in Staff : /\ db'[g] = db[g]
                            /\ db'[Profit!Detail(g)] = IF g = e THEN v ELSE db[Profit!Detail(g)]
    BY <2>8, YearRows
  <2>10. Profit!Active' = Profit!Active BY <1>a, <2>9
  <2>11. DOMAIN j.earned \subseteq Staff BY <2>3 DEF IsCalculation
  <2>12. \A g \in DOMAIN k.earned : k.earned[g] = db'[g].salary * Worked[g]
    BY <2>3, <2>4, <2>9, <2>11
  <2>13. ASSUME NEW g \in DOMAIN k.earned \ k.left
         PROVE  /\ db'[Profit!Detail(g)] # Absent
                /\ db'[Profit!Detail(g)].final = Profit!Final(k, g)
    <3>1. g \in Staff BY <2>4, <2>11
    <3>2. CASE g = e BY <2>6, <2>7, <2>9, <3>1, <3>2
    <3>3. CASE g # e
      <4>1. g \in DOMAIN j.earned \ j.left BY <2>4, <3>3
      <4> QED BY <2>3, <2>6, <2>9, <3>1, <3>3, <4>1
    <3> QED BY <3>2, <3>3
  <2> QED BY <1>g, <2>3, <2>4, <2>5, <2>9, <2>10, <2>12, <2>13
<1> QED BY <1>1, <1>2, <1>3, <1>5, <1>6, <1>7 DEF YearStep, Marks, Advances, GivesUp

\* When a calculation that nothing ran beside has served all, the amount is distributed.
LEMMA AllServed ==
  ASSUME Year, calm, NEW s \in Session, at[s] = "details", job[s].left = {}
  PROVE  Profit!Distributed
<1> DEFINE j == job[s]  A == Profit!Active  f == Profit!Finals
           given == SumFunctionOnSet(f, A)
<1>1. /\ IsCalculation(j) /\ db[Period].amount = j.amount /\ DOMAIN j.earned = A
      /\ \A e \in DOMAIN j.earned : /\ j.earned[e] = Profit!Earned(e)
                                    /\ db[Profit!Detail(e)] # Absent
                                    /\ db[Profit!Detail(e)].final = Profit!Final(j, e)
  BY DEF Year, YearJobsTyped, Calculates, ReadOf, Calculator
<1>2. \A e \in A : e \in Staff BY DEF Profit!Active
<1>3. IsFiniteSet(A)
  <2>1. A \subseteq Staff BY <1>2
  <2> QED BY <2>1, YearAssumed, FS_Subset
<1>4. \A e \in A : /\ f[e] = Cut(j.amount, j.earned[e], SumFunctionOnSet(j.earned, A))
                   /\ f[e] \in Nat
  <2> SUFFICES ASSUME NEW e \in A
               PROVE  /\ f[e] = Cut(j.amount, j.earned[e], SumFunctionOnSet(j.earned, A))
                      /\ f[e] \in Nat
    OBVIOUS
  <2>1. e \in DOMAIN j.earned /\ e \in Staff BY <1>1, <1>2
  <2>2. f[e] = Profit!Final(j, e) BY <1>1, <2>1, DetailIs DEF Year
  <2>3. /\ Profit!Final(j, e)
             = Cut(j.amount, j.earned[e], SumFunctionOnSet(j.earned, DOMAIN j.earned))
        /\ Profit!Final(j, e) \in Nat
    BY <1>1, <2>1, FinalIs
  <2> QED BY <1>1, <2>2, <2>3
<1>5. j.amount \in Nat /\ \A e \in A : j.earned[e] \in Nat \ {0} BY <1>1 DEF IsCalculation
<1> HIDE DEF j, A, f
<1>7. \/ j.amount - Cardinality(A) <= given /\ given <= j.amount
      \/ j.amount > given /\ \A e \in A : f[e] = Profit!MaxCap(j.earned[e])
      \/ j.amount < given /\ \A e \in A : f[e] = Profit!MinCap(j.earned[e])
  BY <1>3, <1>4, <1>5, CutsAddUp
<1> HIDE DEF given
<1>8. \A e \in A : f[e] # Absent /\ j.earned[e] = Profit!Earned(e)
  BY <1>1, <1>4, YearAssumed
<1>9. \/ db[Period].amount - Cardinality(A) <= given /\ given <= db[Period].amount
      \/ db[Period].amount > given /\ \A e \in A : f[e] = Profit!MaxCap(Profit!Earned(e))
      \/ db[Period].amount < given /\ \A e \in A : f[e] = Profit!MinCap(Profit!Earned(e))
  BY <1>1, <1>7, <1>8
<1>10. Profit!Cardinality(Profit!Active) = Cardinality(A) BY DEF Profit!Cardinality, Cardinality, A
<1>11. Profit!Distributed <=>
         /\ \A e \in A : f[e] # Absent
         /\ \/ db[Period].amount - Cardinality(A) <= given /\ given <= db[Period].amount
            \/ db[Period].amount > given /\ \A e \in A : f[e] = Profit!MaxCap(Profit!Earned(e))
            \/ db[Period].amount < given /\ \A e \in A : f[e] = Profit!MinCap(Profit!Earned(e))
  <2> USE DEF A, f
  <2> HIDE DEF given
  <2>1. Profit!Distributed <=>
         /\ \A e \in Profit!Active : Profit!Finals[e] # Absent
         /\ \/ /\ db[Period].amount - Profit!Cardinality(Profit!Active) <= given
               /\ given <= db[Period].amount
            \/ /\ db[Period].amount > given
               /\ \A e \in Profit!Active : Profit!Finals[e] = Profit!MaxCap(Profit!Earned(e))
            \/ /\ db[Period].amount < given
               /\ \A e \in Profit!Active : Profit!Finals[e] = Profit!MinCap(Profit!Earned(e))
    BY DEF Profit!Distributed, given, Profit!MapThenSumSet, Profit!MapThenFoldSet,
           SumFunctionOnSet, FoldFunctionOnSet, MapThenFoldSet
  <2> QED BY <1>10, <2>1
<1> QED BY <1>8, <1>9, <1>11

\* A step of the year leaves what stands.
LEMMA YearStands ==
  ASSUME Year, NEW s \in Session, YearStep(s), mine' = mine
  PROVE  Profit!Stands
<1>t. YearTyped /\ YearJobsTyped /\ OneAtMost /\ Calculates BY DEF Year
<1>1. \A e \in Staff : Profit!Advance(e)' >= Profit!Advance(e) BY YearStaysTyped
<1>2. calm /\ (\E t \in Session : at[t] = "details" /\ job[t].left = {}) => Profit!Distributed
  BY AllServed
<1>3. ASSUME \A e \in Staff : db'[Profit!Detail(e)] = db[Profit!Detail(e)]
      PROVE  Profit!Finals' = Profit!Finals
  <2>1. Profit!Finals = [e \in Staff |-> IF db[Profit!Detail(e)] # Absent
                                         THEN db[Profit!Detail(e)].final ELSE Absent]
    BY DEF Profit!Finals, Profit!Exists
  <2>2. Profit!Finals' = [e \in Staff |-> IF db'[Profit!Detail(e)] # Absent
                                          THEN db'[Profit!Detail(e)].final ELSE Absent]
    BY DEF Profit!Finals, Profit!Exists, Profit!Detail, Staff
  <2> QED BY <1>3, <2>1, <2>2
<1>4. ASSUME db[Period] # Absent, calm', db[Period].status = "cerrado"
      PROVE  db'[Period].status = "cerrado" /\ Profit!Finals' = Profit!Finals
  <2>0. ASSUME db' = db PROVE db'[Period].status = "cerrado" /\ Profit!Finals' = Profit!Finals
    BY <1>3, <1>4, <2>0
  <2>c. ASSUME calm' = calm PROVE at[s] \notin Calculator
    BY <1>t, <1>4, <2>c DEF Calculates, ReadOf
  <2>1. CASE Keeps(s)
    <3>1. ASSUME NEW v, db' = [db EXCEPT ![Period] = v], v.status = "cerrado"
          PROVE  db'[Period].status = "cerrado" /\ Profit!Finals' = Profit!Finals
      <4>1. \A r \in Profit!Row : db'[r] = IF r = Period THEN v ELSE db[r]
        BY <1>t, <3>1, YearRows, RowWritten
      <4>2. db'[Period] = v /\ \A e \in Staff : db'[Profit!Detail(e)] = db[Profit!Detail(e)]
        BY <4>1, YearRows
      <4> QED BY <1>3, <3>1, <4>2
    <3>2. ASSUME NEW e \in Staff, NEW v, db' = [db EXCEPT ![e] = v]
          PROVE  db'[Period].status = "cerrado" /\ Profit!Finals' = Profit!Finals
      <4>1. \A r \in Profit!Row : db'[r] = IF r = e THEN v ELSE db[r]
        BY <1>t, <3>2, YearRows, RowWritten
      <4>2. /\ db'[Period] = db[Period]
            /\ \A g \in Staff : db'[Profit!Detail(g)] = db[Profit!Detail(g)]
        BY <4>1, YearRows
      <4> QED BY <1>3, <1>4, <4>2
    <3> QED BY <1>4, <2>1, <3>1, <3>2 DEF Keeps
  <2>2. CASE Opens(s) \/ Studies(s) \/ GivesUp(s) BY <2>0, <2>2 DEF Opens, Studies, GivesUp
  <2>3. CASE Marks(s) BY <2>c, <2>3 DEF Marks, Ends, Calculator
  <2>4. CASE Creates(s) BY <1>4, <2>4 DEF Creates
  <2>5. CASE Advances(s)
    <3> DEFINE e == job[s]
               v == [final |-> Profit!Finals[e], advance |-> Profit!Advance(e) + 1]
    <3>1. e \in Staff BY <1>t, <2>5 DEF Advances, YearJobsTyped
    <3>2. db' = [db EXCEPT ![Profit!Detail(e)] = v] BY <2>5 DEF Advances
    <3>3. v.final = Profit!Finals[e] /\ v # Absent
      <4> HIDE DEF e
      <4>1. Profit!Finals[e] \in Nat \cup {Absent} /\ Profit!Advance(e) \in Nat
        BY <1>t, <3>1, DetailIs
      <4>2. v \in Profit!DetailRow BY <4>1 DEF Profit!DetailRow
      <4> QED BY <4>2, YearAssumed
    <3> HIDE DEF e, v
    <3>4. \A r \in Profit!Row : db'[r] = IF r = Profit!Detail(e) THEN v ELSE db[r]
      BY <1>t, <3>1, <3>2, YearRows, RowWritten
    <3>5. /\ db'[Period] = db[Period]
          /\ \A g \in Staff :
               db'[Profit!Detail(g)] = IF g = e THEN v ELSE db[Profit!Detail(g)]
      BY <3>1, <3>4, YearRows
    <3>6. Profit!Finals' = Profit!Finals
      <4>1. Profit!Finals = [g \in Staff |-> IF db[Profit!Detail(g)] # Absent
                                             THEN db[Profit!Detail(g)].final ELSE Absent]
        BY DEF Profit!Finals, Profit!Exists
      <4>2. Profit!Finals' = [g \in Staff |-> IF db'[Profit!Detail(g)] # Absent
                                              THEN db'[Profit!Detail(g)].final ELSE Absent]
        BY DEF Profit!Finals, Profit!Exists, Profit!Detail, Staff
      <4>3. \A g \in Staff : Profit!Finals'[g] = Profit!Finals[g]
        <5> SUFFICES ASSUME NEW g \in Staff PROVE Profit!Finals'[g] = Profit!Finals[g]
          OBVIOUS
        <5>1. CASE g = e BY <3>3, <3>5, <4>2, <5>1
        <5>2. CASE g # e BY <3>5, <4>1, <4>2, <5>2
        <5> QED BY <5>1, <5>2
      <4>4. /\ Profit!Finals = [g \in Staff |-> Profit!Finals[g]]
            /\ Profit!Finals' = [g \in Staff |-> Profit!Finals'[g]]
        BY <4>1, <4>2
      <4> QED BY <4>3, <4>4
    <3> QED BY <1>4, <3>5, <3>6
  <2>6. ASSUME NEW e \in Staff, Grants(s, e) PROVE FALSE
    BY <2>c, <2>6 DEF Grants, Calculator
  <2> QED BY <2>1, <2>2, <2>3, <2>4, <2>5, <2>6 DEF YearStep
<1> QED BY <1>1, <1>2, <1>4 DEF Profit!Stands, Profit!Exists

\* At the beginning there is no period.
LEMMA YearBegins == Init => YearInv
<1> SUFFICES ASSUME Profit!Init PROVE Year
  BY DEF Init, YearInv
<1>1. /\ db \in [Profit!Row -> {Absent} \cup UNION {Profit!EmployeeRow(e) : e \in Staff}]
      /\ \A e \in Staff : db[e] \in Profit!EmployeeRow(e)
      /\ \A r \in Profit!Row \ Staff : db[r] = Absent
      /\ mine = [s \in Session |-> Profit!Unwritten]
      /\ at = [s \in Session |-> "idle"] /\ job = [s \in Session |-> NoJob] /\ calm = TRUE
  BY DEF Profit!Init, Profit!RequestsInit
<1>2. db[Period] = Absent /\ \A e \in Staff : db[Profit!Detail(e)] = Absent
  <2>1. Period \in Profit!Row \ Staff BY YearRows
  <2>2. \A e \in Staff : Profit!Detail(e) \in Profit!Row \ Staff BY YearRows
  <2> QED BY <1>1, <2>1, <2>2
<1>3. mine = [s \in Session |-> Unwritten] BY <1>1 DEF Unwritten, Profit!Unwritten
<1>4. DOMAIN db = Profit!Row /\ db = [r \in DOMAIN db |-> db[r]]
  <2> DEFINE V == {Absent} \cup UNION {Profit!EmployeeRow(e) : e \in Staff}
  <2>1. db \in [Profit!Row -> V] BY <1>1
  <2> HIDE DEF V
  <2> QED BY <2>1
<1>5. YearTyped BY <1>1, <1>2, <1>3, <1>4 DEF YearTyped, Profit!TypeOK
<1>6. YearJobsTyped BY <1>1 DEF YearJobsTyped, ProfitLabels, Calculator
<1>7. OneAtMost BY <1>1 DEF OneAtMost
<1>8. Calculates BY <1>1 DEF Calculates, Calculator
<1> QED BY <1>5, <1>6, <1>7, <1>8 DEF Year

\* The steps of the year keep its invariant, and leave what stands.
LEMMA YearSteps == YearInv /\ [Next]_vars => YearInv' /\ [part = "profit" => Profit!Stands]_vars
<1> SUFFICES ASSUME YearInv, [Next]_vars
             PROVE  YearInv' /\ [part = "profit" => Profit!Stands]_vars
  OBVIOUS
<1>1. CASE Next
  <2>1. part' = part BY <1>1 DEF Next
  <2>2. CASE part = "profit"
    <3>1. Year BY <2>2 DEF YearInv
    <3>2. Profit!Next BY <1>1, <2>2 DEF Next
    <3>3. mine' = mine /\ \E s \in Session : YearStep(s) BY <3>1, <3>2, YearForms
    <3>4. PICK s \in Session : YearStep(s) BY <3>3
    <3>5. YearTyped' BY <3>1, <3>3, <3>4, YearStaysTyped
    <3>6. YearJobsTyped' /\ OneAtMost' BY <3>1, <3>3, <3>4, YearJobsStay
    <3>7. Calculates' BY <3>1, <3>3, <3>4, StaysCalculated
    <3>8. Profit!Stands BY <3>1, <3>3, <3>4, YearStands
    <3>9. Year' BY <3>5, <3>6, <3>7 DEF Year
    <3> QED BY <3>8, <3>9 DEF YearInv
  <2>3. CASE part # "profit" BY <2>1, <2>3 DEF YearInv
  <2> QED BY <2>2, <2>3
<1>2. CASE UNCHANGED vars
  <2>1. /\ db' = db /\ mine' = mine /\ at' = at /\ job' = job /\ calm' = calm
        /\ part' = part
    BY <1>2 DEF vars
  <2> SUFFICES ASSUME part = "profit" PROVE Year'
    BY <1>2, <2>1 DEF YearInv
  <2>2. Year BY DEF YearInv
  <2>3. YearTyped'
    BY <2>1, <2>2 DEF Year, YearTyped, Profit!TypeOK, Profit!PeriodRow, Profit!DetailRow,
         Profit!EmployeeRow, Profit!Row, Profit!Detail, Profit!Exists
  <2>4. YearJobsTyped' BY <2>1, <2>2 DEF Year, YearJobsTyped, IsCalculation, Staff
  <2>5. OneAtMost' BY <2>1, <2>2 DEF Year, OneAtMost
  <2>6. Calculates'
    BY <2>1, <2>2 DEF Year, Calculates, ReadOf, Profit!Active, Profit!Earned, Profit!Detail, Staff
  <2> QED BY <2>3, <2>4, <2>5, <2>6 DEF Year
<1> QED BY <1>1, <1>2

\* While requests come one at a time, a period that is closed is never opened again nor
\* is anybody's share of it changed, one that is marked has been distributed among those
\* who are active but for a unit each, unless the caps cut it, and no advance is lost:
\* at every step, whatever the calculations that failed before it left behind.
THEOREM ProfitAlwaysStands == Spec => ProfitStands
BY YearBegins, YearSteps, PTL DEF Spec, ProfitStands

-----------------------------------------------------------------------------
(* From the hiring to the settlement: what a month of service brings.       *)

\* The sums of the benefits are those of Sums.
LEMMA BenefitSum == \A f : Leave!SumFunction(f) = SumFunctionOnSet(f, DOMAIN f)
BY DEF Leave!SumFunction, Leave!SumFunctionOnSet, Leave!FoldFunctionOnSet,
       Leave!MapThenFoldSet, SumFunctionOnSet, FoldFunctionOnSet, MapThenFoldSet

\* A month later, in the same year or at the beginning of the next.
LEMMA MonthPasses ==
  ASSUME NEW n \in Nat
  PROVE  /\ n \div 12 \in Nat /\ n % 12 \in 0 .. 11
         /\ \/ (n + 1) \div 12 = n \div 12 /\ (n + 1) % 12 = (n % 12) + 1
            \/ n % 12 = 11 /\ (n + 1) \div 12 = (n \div 12) + 1 /\ (n + 1) % 12 = 0
OBVIOUS

\* The days of a year's leave.
LeaveDays(y) == Leave!VacationDays(y) + Leave!BonusVacationDays(y)
WholeLeave == [y \in Nat |-> LeaveDays(y) * 1 * 200]

\* Days are a number.
LEMMA LeaveDaysAre ==
  ASSUME NEW y \in Nat
  PROVE  Leave!VacationDays(y) \in Nat /\ Leave!BonusVacationDays(y) \in Nat /\ LeaveDays(y) \in Nat
BY DEF LeaveDays, Leave!VacationDays, Leave!BonusVacationDays, Leave!Lesser, Leave!Greater

\* What rounding to hundredths of a day makes of a share.
LEMMA ShareIs ==
  ASSUME NEW days \in Nat, NEW m \in Nat
  PROVE  /\ Leave!Share(days, m) \in Nat
         /\ 3 * Leave!Share(days, m) - 25 * (days * m) \in -1 .. 1
<1>1. \A x \in Nat : (x + 1) \div 3 \in Nat /\ 3 * ((x + 1) \div 3) - x \in -1 .. 1
  OBVIOUS
<1>2. 25 * days * m = 25 * (days * m) /\ 25 * (days * m) \in Nat
  <2>1. \A a, b \in Nat : 25 * a * b = 25 * (a * b) /\ 25 * (a * b) \in Nat OBVIOUS
  <2> QED BY <2>1
<1> DEFINE x == 25 * (days * m)
<1>3. Leave!Share(days, m) = (x + 1) \div 3 BY <1>2 DEF Leave!Share
<1>4. x \in Nat BY <1>2
<1> HIDE DEF x
<1>5. Leave!Share(days, m) \in Nat /\ 3 * Leave!Share(days, m) - x \in -1 .. 1
  BY <1>1, <1>3, <1>4
<1> QED BY <1>5 DEF x

\* Both shares of the year in progress, in hundredths of a day.
BothShares(y, m) == Leave!Share(Leave!VacationDays(y), m) + Leave!Share(Leave!BonusVacationDays(y), m)

\* They are those of its days, but for the rounding of each.
LEMMA SharesAre ==
  ASSUME NEW y \in Nat, NEW m \in Nat
  PROVE  /\ BothShares(y, m) \in Nat
         /\ 3 * BothShares(y, m) - 25 * (LeaveDays(y) * m) \in -2 .. 2
         /\ m = 0 => BothShares(y, m) = 0
<1> DEFINE v == Leave!VacationDays(y)  b == Leave!BonusVacationDays(y)
           p == Leave!Share(v, m)  q == Leave!Share(b, m)
<1>1. v \in Nat /\ b \in Nat BY LeaveDaysAre
<1>2. LeaveDays(y) = v + b /\ BothShares(y, m) = p + q BY DEF LeaveDays, BothShares
<1> HIDE DEF v, b
<1>3. p \in Nat /\ 3 * p - 25 * (v * m) \in -1 .. 1 BY <1>1, ShareIs
<1>4. q \in Nat /\ 3 * q - 25 * (b * m) \in -1 .. 1 BY <1>1, ShareIs
<1>5. (v + b) * m = v * m + b * m /\ v * m \in Nat /\ b * m \in Nat BY <1>1
<1> HIDE DEF p, q
<1>6. 3 * (p + q) - 25 * (v * m + b * m) \in -2 .. 2
  <2> DEFINE c == v * m  d == b * m
  <2>1. c \in Nat /\ d \in Nat BY <1>5
  <2>2. 3 * p - 25 * c \in -1 .. 1 /\ 3 * q - 25 * d \in -1 .. 1 BY <1>3, <1>4
  <2> HIDE DEF c, d
  <2>3. 3 * (p + q) - 25 * (c + d) \in -2 .. 2 BY <1>3, <1>4, <2>1, <2>2
  <2> QED BY <2>3 DEF c, d
<1>7. m = 0 => p + q = 0
  <2> SUFFICES ASSUME m = 0 PROVE p + q = 0
    OBVIOUS
  <2>1. v * m = 0 /\ b * m = 0 BY <1>1
  <2> DEFINE c == v * m  d == b * m
  <2>2. c = 0 /\ d = 0 BY <2>1
  <2>3. 3 * p - 25 * c \in -1 .. 1 /\ 3 * q - 25 * d \in -1 .. 1 BY <1>3, <1>4
  <2> HIDE DEF c, d
  <2> QED BY <1>3, <1>4, <2>2, <2>3
<1> QED BY <1>2, <1>3, <1>4, <1>5, <1>6, <1>7

\* What they are worth.
LEMMA FractionIs ==
  ASSUME NEW t \in Leave!Tenure
  PROVE  Leave!LeaveFraction(t) = 2 * BothShares((t.months \div 12) + 1, t.months % 12)
<1>1. t.months \in Nat BY DEF Leave!Tenure
<1>2. (t.months \div 12) + 1 \in Nat /\ t.months % 12 \in Nat BY <1>1, MonthPasses
<1> DEFINE k == BothShares((t.months \div 12) + 1, t.months % 12)
<1>3. k \in Nat BY <1>2, SharesAre
<1>4. Leave!LeaveFraction(t) = k * 2 * 1
  BY DEF Leave!LeaveFraction, Leave!Years, Leave!Remainder, Leave!Hundredth, BothShares
<1> HIDE DEF k
<1>5. Leave!LeaveFraction(t) = 2 * k BY <1>3, <1>4
<1> QED BY <1>5 DEF k

\* The leave of somebody who never took any.
LEMMA LeaveIs ==
  ASSUME NEW t \in Leave!Tenure
  PROVE  Leave!Leave(t) = SumFunctionOnSet(WholeLeave, 1 .. (t.months \div 12))
                            + 2 * BothShares((t.months \div 12) + 1, t.months % 12)
<1> DEFINE n == t.months \div 12
           p == [y \in 1 .. n |-> [taken |-> 0, paid |-> FALSE]]
           f == [y \in DOMAIN p |-> Leave!PendingDays(y, p[y]) * 1 * Leave!Day]
<1>1. t.months \in Nat BY DEF Leave!Tenure
<1>2. n \in Nat /\ t.months % 12 \in Nat BY <1>1, MonthPasses
<1>3. Leave!Leave(t) = Leave!PendingLeave(p) + Leave!LeaveFraction(t)
  BY DEF Leave!Leave, Leave!Years
<1>4. Leave!PendingLeave(p) = SumFunctionOnSet(f, 1 .. n)
  <2>1. Leave!PendingLeave(p) = Leave!SumFunction(f) BY DEF Leave!PendingLeave
  <2>2. DOMAIN f = 1 .. n OBVIOUS
  <2> HIDE DEF f
  <2> QED BY <2>1, <2>2, BenefitSum
<1>5. \A y \in 1 .. n : f[y] \in Int /\ f[y] = WholeLeave[y]
  <2> SUFFICES ASSUME NEW y \in 1 .. n PROVE f[y] \in Int /\ f[y] = WholeLeave[y]
    OBVIOUS
  <2>1. y \in Nat BY <1>2
  <2>2. p[y] = [taken |-> 0, paid |-> FALSE] OBVIOUS
  <2>3. Leave!PendingDays(y, p[y]) = LeaveDays(y)
    <3> HIDE DEF p
    <3> QED BY <2>1, <2>2, LeaveDaysAre DEF Leave!PendingDays, LeaveDays
  <2>4. f[y] = LeaveDays(y) * 1 * 200 BY <2>3 DEF Leave!Day, Leave!Hundredth
  <2>5. LeaveDays(y) \in Int BY <2>1, LeaveDaysAre
  <2> QED BY <2>1, <2>4, <2>5 DEF WholeLeave
<1>6. IsFiniteSet(1 .. n) BY <1>2, FS_Interval
<1>7. SumFunctionOnSet(f, 1 .. n) = SumFunctionOnSet(WholeLeave, 1 .. n)
  <2> HIDE DEF f
  <2> QED BY <1>5, <1>6, SumSame
<1>8. Leave!LeaveFraction(t) = 2 * BothShares(n + 1, t.months % 12) BY FractionIs
<1> QED BY <1>3, <1>4, <1>7, <1>8

\* Each month brings a twelfth of the leave of its year, but for the rounding.
LEMMA LeaveGrows ==
  ASSUME NEW t \in Leave!Tenure, NEW u \in Leave!Tenure, u.months = t.months + 1
  PROVE  12 * (Leave!Leave(u) - Leave!Leave(t)) - 200 * LeaveDays((t.months \div 12) + 1)
           \in -48 .. 48
<1> DEFINE m == t.months  n == m \div 12  r == m % 12  k == LeaveDays(n + 1)
           S == SumFunctionOnSet(WholeLeave, 1 .. n)
           x == BothShares(n + 1, r)  y == BothShares(n + 1, r + 1)
<1>1. m \in Nat BY DEF Leave!Tenure
<1>2. /\ n \in Nat /\ r \in Nat
      /\ \/ (m + 1) \div 12 = n /\ (m + 1) % 12 = r + 1
         \/ r = 11 /\ (m + 1) \div 12 = n + 1 /\ (m + 1) % 12 = 0
  BY <1>1, MonthPasses
<1>3. k \in Nat /\ n + 1 \in Nat /\ n + 2 \in Nat BY <1>2, LeaveDaysAre
<1>4. Leave!Leave(t) = S + 2 * x BY LeaveIs
<1>5. Leave!Leave(u) = SumFunctionOnSet(WholeLeave, 1 .. ((m + 1) \div 12))
                         + 2 * BothShares(((m + 1) \div 12) + 1, (m + 1) % 12)
  BY LeaveIs
<1>6. S \in Int /\ SumFunctionOnSet(WholeLeave, 1 .. (n + 1)) = k * 1 * 200 + S
  <2>1. IsFiniteSet(1 .. (n + 1)) BY <1>2, FS_Interval
  <2>2. \A z \in 1 .. (n + 1) : WholeLeave[z] \in Int
    <3> SUFFICES ASSUME NEW z \in 1 .. (n + 1) PROVE WholeLeave[z] \in Int
      OBVIOUS
    <3>1. z \in Nat BY <1>2
    <3>2. LeaveDays(z) \in Nat BY <3>1, LeaveDaysAre
    <3> QED BY <3>1, <3>2 DEF WholeLeave
  <2>3. /\ 1 .. n \in SUBSET (1 .. (n + 1)) /\ n + 1 \in (1 .. (n + 1)) \ (1 .. n)
        /\ 1 .. (n + 1) = (1 .. n) \cup {n + 1}
    BY <1>2
  <2>4. WholeLeave[n + 1] = k * 1 * 200 BY <1>2 DEF WholeLeave
  <2> DEFINE W == 1 .. n  V == 1 .. (n + 1)  w == n + 1
  <2>5. IsFiniteSet(V) /\ (\A z \in V : WholeLeave[z] \in Int) /\ W \in SUBSET V /\ w \in V \ W
    BY <2>1, <2>2, <2>3
  <2>6. V = W \cup {w} BY <2>3
  <2>7. WholeLeave[w] = k * 1 * 200 BY <2>4
  <2> HIDE DEF W, V, w, n, k
  <2>8. /\ SumFunctionOnSet(WholeLeave, W) \in Int
        /\ SumFunctionOnSet(WholeLeave, W \cup {w}) = WholeLeave[w] + SumFunctionOnSet(WholeLeave, W)
    BY <2>5, SumGrows
  <2>9. /\ SumFunctionOnSet(WholeLeave, W) \in Int
        /\ SumFunctionOnSet(WholeLeave, V) = k * 1 * 200 + SumFunctionOnSet(WholeLeave, W)
    BY <2>6, <2>7, <2>8
  <2> QED BY <2>9 DEF W, V, w
<1>7. /\ x \in Nat /\ 3 * x - 25 * (k * r) \in -2 .. 2
      /\ y \in Nat /\ 3 * y - 25 * (k * (r + 1)) \in -2 .. 2
  <2>1. n + 1 \in Nat /\ r \in Nat /\ r + 1 \in Nat BY <1>2
  <2> HIDE DEF m, n, r
  <2>2. x \in Nat /\ 3 * x - 25 * (k * r) \in -2 .. 2 BY <2>1, SharesAre
  <2>3. y \in Nat /\ 3 * y - 25 * (k * (r + 1)) \in -2 .. 2 BY <2>1, SharesAre
  <2> QED BY <2>2, <2>3
<1>8. BothShares(n + 1 + 1, 0) = 0
  <2>1. n + 1 + 1 \in Nat BY <1>2
  <2> QED BY <2>1, SharesAre
<1> HIDE DEF m, n, r, k, S, x, y
<1>9. CASE (m + 1) \div 12 = n /\ (m + 1) % 12 = r + 1
  <2>1. Leave!Leave(u) = S + 2 * y BY <1>5, <1>9 DEF S, y
  <2>2. k * (r + 1) = k * r + k /\ k * r \in Int BY <1>2, <1>3
  <2> DEFINE c == k * r
  <2>3. 3 * x - 25 * c \in -2 .. 2 /\ 3 * y - 25 * (c + k) \in -2 .. 2 /\ c \in Int
    BY <1>7, <2>2
  <2> HIDE DEF c
  <2>4. 12 * ((S + 2 * y) - (S + 2 * x)) - 200 * k \in -48 .. 48
    BY <1>3, <1>6, <1>7, <2>3
  <2>5. 12 * (Leave!Leave(u) - Leave!Leave(t)) - 200 * k \in -48 .. 48 BY <1>4, <2>1, <2>4
  <2> QED BY <2>5 DEF k, n, m
<1>10. CASE r = 11 /\ (m + 1) \div 12 = n + 1 /\ (m + 1) % 12 = 0
  <2>1. Leave!Leave(u) = k * 1 * 200 + S + 2 * 0 BY <1>5, <1>6, <1>8, <1>10
  <2>2. k * r = 11 * k BY <1>3, <1>10
  <2>3. 3 * x - 25 * (11 * k) \in -2 .. 2 BY <1>7, <2>2
  <2>4. 12 * ((k * 1 * 200 + S + 2 * 0) - (S + 2 * x)) - 200 * k \in -48 .. 48
    BY <1>3, <1>6, <1>7, <2>3
  <2>5. 12 * (Leave!Leave(u) - Leave!Leave(t)) - 200 * k \in -48 .. 48 BY <1>4, <2>1, <2>4
  <2> QED BY <2>5 DEF k, n, m
<1> QED BY <1>2, <1>9, <1>10

\* Each month leaves no less severance than the one before.
LEMMA SeveranceGrows ==
  ASSUME NEW t \in Leave!Tenure, NEW u \in Leave!Tenure, u.months = t.months + 1,
         u.days >= t.days, t.months < 3 => t.days <= 31 * t.months
  PROVE  Leave!Severance(u, Leave!Deposited(u)) >= Leave!Severance(t, Leave!Deposited(t))
<1> DEFINE m == t.months
<1>1. m \in Nat /\ t.days \in Nat /\ u.days \in Nat BY DEF Leave!Tenure
<1>2. /\ (m + 1) \div 12 >= m \div 12 /\ m \div 12 \in Nat /\ (m + 1) \div 12 \in Nat
      /\ (m + 1) \div 3 >= m \div 3 /\ m \div 3 \in Nat /\ (m + 1) \div 3 \in Nat
  BY <1>1
<1>3. /\ Leave!AdditionalDays(m \div 12) \in Nat /\ Leave!AdditionalDays((m + 1) \div 12) \in Nat
      /\ Leave!AdditionalDays((m + 1) \div 12) >= Leave!AdditionalDays(m \div 12)
  BY <1>2 DEF Leave!AdditionalDays, Leave!Lesser
<1> DEFINE G(x) == Leave!Guarantee(x, Leave!Deposited(x))
<1>4. G(t) \in Nat /\ G(u) \in Nat /\ G(u) >= G(t) /\ G(u) >= 3000
  BY <1>1, <1>2, <1>3
  DEF Leave!Guarantee, Leave!Deposited, Leave!Quarters, Leave!Years, Leave!Day, Leave!Hundredth
<1>5. /\ Leave!Retroactive(t) \in Nat /\ Leave!Retroactive(u) \in Nat
      /\ Leave!Retroactive(u) >= Leave!Retroactive(t)
  BY <1>1, MonthPasses
  DEF Leave!Retroactive, Leave!ComputableYears, Leave!Years, Leave!Remainder, Leave!Day, Leave!Hundredth
<1>6. CASE m < 3
  <2>1. t.days <= 62 BY <1>1, <1>6
  <2>2. /\ (t.days + 29) \div 30 <= 3 /\ (t.days + 29) \div 30 \in Nat
        /\ (u.days + 29) \div 30 >= (t.days + 29) \div 30 /\ (u.days + 29) \div 30 \in Nat
    BY <1>1, <2>1
  <2> QED
    BY <1>1, <1>4, <1>5, <1>6, <2>2
    DEF Leave!Severance, Leave!ShortTenure, Leave!Greater, Leave!Day, Leave!Hundredth
<1>7. CASE m >= 3
  BY <1>1, <1>4, <1>5, <1>7 DEF Leave!Severance, Leave!ShortTenure, Leave!Greater
<1> QED BY <1>1, <1>6, <1>7

-----------------------------------------------------------------------------
(* The settlement: what its rows and its requests hold.                     *)

ItemCode == {"severance", "pending leave", "leave", "profit", "indemnity", "advance", "debt"}
ItemRow == [code : ItemCode, amount : Int]
Bill == Seq(ItemRow) \ {<< >>}
PaymentOf == [day : Nat, mora : Int]

TenureTyped(t) == t \in Leave!Tenure /\ (t.months < 3 => t.days <= 31 * t.months)

SettlementTyped ==
  /\ DOMAIN db = Leave!Row /\ db = [r \in DOMAIN db |-> db[r]]
  /\ mine = [s \in Session |-> Unwritten] /\ cut \in BOOLEAN
  /\ TenureTyped(db["tenure"])
  /\ db["deposits"] \in Nat /\ db["periods"] \in Seq(Leave!LeavePeriod)
  /\ db["advance"] \in Leave!AdvanceRow \cup {Absent} /\ db["debt"] \in Nat
  /\ db["settlement"] \in Leave!SettlementRow \cup {Absent}
  /\ db["items"] \in Int /\ db["mora items"] \in Nat

SettlementLabels ==
  {"idle", "enjoy", "preview", "discounts", "header", "items", "pay", "interest", "commit"}

SettlementJob(l, j) ==
  /\ l \in SettlementLabels
  /\ l = "enjoy" => j \in [year : Nat, taken : Nat]
  /\ l \in {"discounts", "header", "items"} => j \in Bill
  /\ l = "pay" => j \in PaymentOf

SettlementJobsTyped ==
  /\ DOMAIN at = Session /\ at = [s \in Session |-> at[s]] /\ DOMAIN job = Session
  /\ \A s \in Session : SettlementJob(at[s], job[s])

\* What the settlement and its items say while it is made and paid.
MoraOf(debt, day) == Leave!MoraByDay(debt, 5, day)

Settles ==
  /\ \A s, t \in Session : at[s] = "items" /\ at[t] = "items" => s = t
  /\ db["settlement"] = Absent =>
       /\ db["items"] = 0 /\ ~cut
       /\ \A s \in Session : at[s] \notin {"items", "pay"}
  /\ db["settlement"] # Absent =>
       /\ db["settlement"].mora = MoraOf(db["settlement"].subtotal, db["settlement"].paid)
       /\ \A s \in Session : at[s] = "pay" =>
            job[s].mora = MoraOf(db["settlement"].subtotal, job[s].day)
       /\ \A s \in Session : at[s] = "items" =>
            db["items"] + Leave!Total(job[s]) = db["settlement"].subtotal
       /\ (\A s \in Session : at[s] # "items") /\ ~cut =>
            db["settlement"].subtotal = db["items"]

Settled == SettlementTyped /\ SettlementJobsTyped /\ Settles

LeaveInv == part = "leave" => Settled

\* What is assumed of it.
LEMMA SettlementAssumed ==
  /\ Horizon \in Nat /\ TenDays \subseteq Nat
  /\ Absent \notin Leave!SettlementRow
BY PeopleConstants DEF Leave!SettlementConstants

-----------------------------------------------------------------------------
(* The steps, by what they do.                                              *)

\* The rows that the settlement is made of, and what each holds.
OfRow(r, v) ==
  \/ r \in {"deposits", "debt", "mora items"} /\ v \in Nat
  \/ r = "periods" /\ v \in Seq(Leave!LeavePeriod)
  \/ r = "advance" /\ v \in Leave!AdvanceRow

\* A month is worked.
Works ==
  /\ at' = at /\ job' = job /\ cut' = cut
  /\ \E n \in {28, 30, 31} :
       /\ db["tenure"].months < 3 => n # 30
       /\ db' = [db EXCEPT !["tenure"] = [months |-> db["tenure"].months + 1,
                                           days |-> db["tenure"].days + n]]

\* Anything but that, the settlement and its items is written.
NotesRow ==
  /\ cut' = cut
  /\ \E r \in {"deposits", "debt", "mora items", "periods", "advance"} : \E v :
       OfRow(r, v) /\ db' = [db EXCEPT ![r] = v]

Notes(s) == NotesRow /\ at[s] \in {"enjoy", "interest"} /\ Moves(s, "commit", job[s])

\* A request goes on, or ends, and writes nothing.
GoesOn(s) ==
  /\ db' = db /\ cut' = cut /\ at[s] # "items"
  /\ \E l \in SettlementLabels \ {"items"} : \E j :
       /\ Moves(s, l, j) /\ SettlementJob(l, j)
       /\ l = "pay" => /\ db["settlement"] # Absent
                       /\ j.mora = Leave!Mora(db["settlement"].subtotal, 5, j.day)

Heads(s) ==
  /\ at[s] = "header" /\ db["settlement"] = Absent /\ cut' = cut
  /\ db' = [db EXCEPT !["settlement"] = [subtotal |-> Leave!Total(job[s]),
                                         status |-> "calculada", mora |-> 0, paid |-> 0]]
  /\ Moves(s, "items", job[s])

Lists(s) ==
  /\ at[s] = "items" /\ cut' = cut
  /\ db' = [db EXCEPT !["items"] = @ + Head(job[s]).amount]
  /\ Moves(s, IF Len(job[s]) = 1 THEN "commit" ELSE "items", Tail(job[s]))

Pays(s) ==
  /\ at[s] = "pay" /\ job[s].mora >= 0 /\ cut' = cut
  /\ db' = [db EXCEPT !["settlement"] = [@ EXCEPT !.status = "pagada", !.mora = job[s].mora,
                                                  !.paid = job[s].day]]
  /\ \E l \in {"interest", "commit"} : Moves(s, l, job[s])

Voids ==
  /\ db["settlement"] # Absent /\ at' = at /\ job' = job /\ cut' = cut
  /\ db' = [db EXCEPT !["settlement"] = [@ EXCEPT !.status = "anulada"]]

Dies(s) ==
  /\ at[s] # "idle" /\ db' = db /\ cut' = (cut \/ at[s] = "items")
  /\ Moves(s, "idle", NoJob)

Alone == Works \/ Voids \/ (NotesRow /\ at' = at /\ job' = job)
SettlementStep(s) == Notes(s) \/ GoesOn(s) \/ Heads(s) \/ Lists(s) \/ Pays(s) \/ Dies(s)

-----------------------------------------------------------------------------

\* What a list of items comes to is a number.
LEMMA TotalType ==
  ASSUME NEW q \in Seq(ItemRow)
  PROVE  Leave!Total(q) \in Int
<1> DEFINE f == [i \in DOMAIN q |-> q[i].amount]
<1>1. Leave!Total(q) = SumFunctionOnSet(f, DOMAIN q)
  <2>1. Leave!Total(q) = Leave!SumFunction(f) BY DEF Leave!Total
  <2>2. DOMAIN f = DOMAIN q OBVIOUS
  <2> HIDE DEF f
  <2> QED BY <2>1, <2>2, BenefitSum
<1>2. DOMAIN q = 1 .. Len(q) /\ Len(q) \in Nat /\ \A i \in DOMAIN q : q[i] \in ItemRow
  OBVIOUS
<1>3. \A i \in DOMAIN q : f[i] \in Int BY <1>2 DEF ItemRow
<1>4. IsFiniteSet(DOMAIN q) BY <1>2, FS_Interval
<1> HIDE DEF f
<1> QED BY <1>1, <1>3, <1>4, SumType

\* A sum is its first term and that of the others, moved up.
LEMMA SumShifts ==
  ASSUME NEW n \in Nat, n >= 1, NEW f, \A i \in 1 .. n : f[i] \in Int,
         NEW g, \A i \in 1 .. (n - 1) : g[i] = f[i + 1]
  PROVE  SumFunctionOnSet(f, 1 .. n) = f[1] + SumFunctionOnSet(g, 1 .. (n - 1))
<1> DEFINE N == 1 .. n  S == 1 .. (n - 1)
           T == {W \in SUBSET S : SumFunctionOnSet(f, {1} \cup {i + 1 : i \in W})
                                    = f[1] + SumFunctionOnSet(g, W)}
<1>1. IsFiniteSet(S) /\ IsFiniteSet(N) /\ 1 \in N /\ \A i \in N : f[i] \in Int BY FS_Interval
<1>2. \A i \in S : g[i] = f[i + 1] /\ g[i] \in Int /\ i + 1 \in N /\ i \in Nat /\ i + 1 # 1 OBVIOUS
<1>6. {1} \cup {i + 1 : i \in S} = N
  <2>1. ASSUME NEW k \in 1 .. n PROVE k \in {1} \cup {i + 1 : i \in S}
    <3>1. k = 1 \/ (k - 1 \in S /\ k = (k - 1) + 1) OBVIOUS
    <3> QED BY <3>1
  <2> QED BY <1>2, <2>1
<1> SUFFICES SumFunctionOnSet(f, N) = f[1] + SumFunctionOnSet(g, S)
  OBVIOUS
<1> HIDE DEF N, S
<1>3. {} \in T
  <2>1. {1} \cup {i + 1 : i \in {}} = {1} OBVIOUS
  <2>2. SumFunctionOnSet(f, {1}) = f[1]
    <3> DEFINE V == {1}
    <3>1. IsFiniteSet(V) /\ 1 \in V /\ V \ {1} = {} /\ \A i \in V : f[i] \in Int
      BY <1>1, FS_Singleton
    <3> HIDE DEF V
    <3>2. SumFunctionOnSet(f, V) = f[1] + SumFunctionOnSet(f, V \ {1}) BY <3>1, SumSplits
    <3>3. SumFunctionOnSet(f, V) = f[1] BY <1>1, <3>1, <3>2, SumOfNone
    <3> QED BY <3>3 DEF V
  <2>3. SumFunctionOnSet(g, {}) = 0 BY SumOfNone
  <2> QED BY <2>1, <2>2, <2>3
<1>4. ASSUME NEW W \in SUBSET S, NEW x \in S \ W, W \in T PROVE W \cup {x} \in T
  <2> DEFINE U == {1} \cup {i + 1 : i \in W}
  <2>1. U \in SUBSET N /\ x + 1 \in N \ U BY <1>1, <1>2
  <2>2. {1} \cup {i + 1 : i \in W \cup {x}} = U \cup {x + 1} OBVIOUS
  <2>3. SumFunctionOnSet(f, U) = f[1] + SumFunctionOnSet(g, W) BY <1>4
  <2>4. g[x] = f[x + 1] /\ g[x] \in Int /\ f[1] \in Int BY <1>1, <1>2
  <2> HIDE DEF U
  <2>5. SumFunctionOnSet(f, U \cup {x + 1}) = f[x + 1] + SumFunctionOnSet(f, U)
    <3> DEFINE y == x + 1
    <3>1. y \in N \ U BY <2>1
    <3> HIDE DEF y
    <3>2. SumFunctionOnSet(f, U \cup {y}) = f[y] + SumFunctionOnSet(f, U)
      BY <1>1, <2>1, <3>1, SumGrows
    <3> QED BY <3>2 DEF y
  <2>6. /\ SumFunctionOnSet(g, W) \in Int
        /\ SumFunctionOnSet(g, W \cup {x}) = g[x] + SumFunctionOnSet(g, W)
    BY <1>1, <1>2, SumGrows
  <2>7. SumFunctionOnSet(f, U \cup {x + 1}) = f[1] + SumFunctionOnSet(g, W \cup {x})
    BY <2>3, <2>4, <2>5, <2>6
  <2> QED BY <2>2, <2>7
<1>5. S \in T
  <2> HIDE DEF T
  <2> QED BY <1>1, <1>3, <1>4, SubsetInduction
<1> QED BY <1>5, <1>6

\* Nothing comes to nothing.
LEMMA TotalOfNone == Leave!Total(<< >>) = 0
<1> DEFINE q == << >>  f == [i \in DOMAIN q |-> q[i].amount]
<1>1. DOMAIN q = {} /\ DOMAIN f = {} OBVIOUS
<1>2. Leave!Total(q) = Leave!SumFunction(f) BY DEF Leave!Total
<1> HIDE DEF q, f
<1>3. Leave!Total(q) = SumFunctionOnSet(f, {}) BY <1>1, <1>2, BenefitSum
<1> QED BY <1>3, SumOfNone DEF q

\* The first item, and the others.
LEMMA TotalSplits ==
  ASSUME NEW q \in Bill
  PROVE  /\ Head(q).amount \in Int /\ Tail(q) \in Seq(ItemRow)
         /\ Leave!Total(q) = Head(q).amount + Leave!Total(Tail(q))
         /\ Len(q) = 1 => Tail(q) = << >>
         /\ Len(q) # 1 => Tail(q) \in Bill
<1> DEFINE f == [i \in DOMAIN q |-> q[i].amount]
           n == Len(q)
           p == Tail(q)
           g == [i \in DOMAIN p |-> p[i].amount]
<1>1. /\ n \in Nat /\ n >= 1 /\ DOMAIN q = 1 .. n /\ \A i \in 1 .. n : q[i] \in ItemRow
  BY DEF Bill
<1>2. /\ Head(q) = q[1] /\ p \in Seq(ItemRow) /\ Len(p) = n - 1 /\ DOMAIN p = 1 .. (n - 1)
      /\ \A i \in 1 .. (n - 1) : p[i] = q[i + 1]
  BY <1>1 DEF Bill
<1>3. Leave!Total(q) = SumFunctionOnSet(f, 1 .. n) /\ Leave!Total(p) = SumFunctionOnSet(g, 1 .. (n - 1))
  <2>1. Leave!Total(q) = Leave!SumFunction(f) /\ Leave!Total(p) = Leave!SumFunction(g)
    BY DEF Leave!Total
  <2>2. DOMAIN f = 1 .. n /\ DOMAIN g = 1 .. (n - 1) BY <1>1, <1>2
  <2> HIDE DEF f, g, p, n
  <2> QED BY <2>1, <2>2, BenefitSum
<1>4. \A i \in 1 .. n : f[i] \in Int BY <1>1 DEF ItemRow
<1>5. \A i \in 1 .. (n - 1) : g[i] = f[i + 1] BY <1>1, <1>2
<1>6. SumFunctionOnSet(f, 1 .. n) = f[1] + SumFunctionOnSet(g, 1 .. (n - 1))
  BY <1>1, <1>4, <1>5, SumShifts
<1>7. f[1] = Head(q).amount BY <1>1, <1>2
<1>8. Len(q) = 1 => Tail(q) = << >> BY <1>2
<1>9. Len(q) # 1 => Tail(q) \in Bill
  <2>1. Len(q) # 1 => Len(p) # 0 BY <1>1, <1>2
  <2>2. \A u : u = << >> => Len(u) = 0 OBVIOUS
  <2> QED BY <1>2, <2>1, <2>2 DEF Bill
<1>10. Head(q).amount \in Int
  <2>1. Head(q) \in ItemRow BY <1>1, <1>2
  <2> QED BY <2>1 DEF ItemRow
<1> HIDE DEF f, g, n
<1> QED BY <1>10, <1>1, <1>2, <1>3, <1>4, <1>6, <1>7, <1>8, <1>9

\* A list of items that is not empty stays so.
LEMMA Listed ==
  /\ \A c \in ItemCode : \A a \in Int : << Leave!Item(c, a) >> \in Bill
  /\ \A c \in ItemCode : \A a \in Int : Leave!Owed(c, a) \in Seq(ItemRow)
  /\ \A p \in Bill : \A q \in Seq(ItemRow) : p \o q \in Bill
  /\ << >> \in Seq(ItemRow)
<1>1. \A u : u = << >> => Len(u) = 0 OBVIOUS
<1>2. \A x \in ItemRow : << x >> \in Seq(ItemRow) /\ << x >> # << >> OBVIOUS
<1>3. \A c \in ItemCode : \A a \in Int : Leave!Item(c, a) \in ItemRow BY DEF Leave!Item, ItemRow
<1>4. << >> \in Seq(ItemRow) OBVIOUS
<1>5. ASSUME NEW p \in Bill, NEW q \in Seq(ItemRow) PROVE p \o q \in Bill
  <2>1. p \in Seq(ItemRow) /\ p # << >> BY DEF Bill
  <2>2. Len(p) # 0 BY <2>1
  <2>3. p \o q \in Seq(ItemRow) /\ Len(p \o q) # 0 BY <2>1, <2>2
  <2> QED BY <1>1, <2>3 DEF Bill
<1> QED BY <1>2, <1>3, <1>4, <1>5 DEF Leave!Owed, Bill

\* What may be owed, and what is taken from it, are items.
LEMMA DueIsBill ==
  ASSUME NEW t \in Leave!Tenure, NEW d \in Int, NEW periods \in Seq(Leave!LeavePeriod), NEW i \in BOOLEAN
  PROVE  Leave!Due(t, d, periods, i) \in Bill
<1>0. /\ Leave!Years(t) \in Nat /\ Leave!Remainder(t) \in Nat /\ t.months \in Nat /\ t.days \in Nat
  BY MonthPasses DEF Leave!Tenure, Leave!Years, Leave!Remainder
<1>1. Leave!Severance(t, d) \in Int
  <2>1. (t.days + 29) \div 30 \in Int BY <1>0
  <2>2. Leave!AdditionalDays(Leave!Years(t)) \in Int
    BY <1>0 DEF Leave!AdditionalDays, Leave!Lesser
  <2>3. Leave!Guarantee(t, d) \in Int BY <2>2 DEF Leave!Guarantee, Leave!Day, Leave!Hundredth
  <2>4. Leave!Retroactive(t) \in Int
    BY <1>0 DEF Leave!Retroactive, Leave!ComputableYears, Leave!Day, Leave!Hundredth
  <2> QED BY <2>1, <2>3, <2>4 DEF Leave!Severance, Leave!Greater, Leave!Day, Leave!Hundredth
<1>2. Leave!PendingLeave(periods) \in Int
  <2> DEFINE f == [y \in DOMAIN periods |-> Leave!PendingDays(y, periods[y]) * 1 * Leave!Day]
  <2>1. Leave!PendingLeave(periods) = SumFunctionOnSet(f, DOMAIN periods)
    <3>1. Leave!PendingLeave(periods) = Leave!SumFunction(f) BY DEF Leave!PendingLeave
    <3>2. DOMAIN f = DOMAIN periods OBVIOUS
    <3> HIDE DEF f
    <3> QED BY <3>1, <3>2, BenefitSum
  <2>2. \A y \in DOMAIN periods : f[y] \in Int
    <3> SUFFICES ASSUME NEW y \in DOMAIN periods PROVE f[y] \in Int
      OBVIOUS
    <3>1. y \in Nat OBVIOUS
    <3>2. Leave!VacationDays(y) \in Int /\ Leave!BonusVacationDays(y) \in Int
      BY <3>1, LeaveDaysAre
    <3>3. Leave!PendingDays(y, periods[y]) \in Int
      <4> DEFINE b == periods[y].taken  c == periods[y].paid
      <4>1. \A u, v \in Int : (IF b = 0 THEN u ELSE 0) + (IF c THEN 0 ELSE v) \in Int OBVIOUS
      <4> QED BY <3>2, <4>1 DEF Leave!PendingDays
    <3> QED BY <3>3 DEF Leave!Day, Leave!Hundredth
  <2>3. IsFiniteSet(DOMAIN periods)
    <3>1. DOMAIN periods = 1 .. Len(periods) /\ Len(periods) \in Nat OBVIOUS
    <3> QED BY <3>1, FS_Interval
  <2> HIDE DEF f
  <2> QED BY <2>1, <2>2, <2>3, SumType
<1>3. Leave!LeaveFraction(t) \in Int
  <2>1. Leave!LeaveFraction(t) = BothShares(Leave!Years(t) + 1, Leave!Remainder(t)) * 2 * 1
    BY DEF Leave!LeaveFraction, Leave!Hundredth, BothShares
  <2>2. Leave!Years(t) + 1 \in Nat /\ Leave!Remainder(t) \in Nat BY <1>0
  <2>3. BothShares(Leave!Years(t) + 1, Leave!Remainder(t)) \in Nat BY <2>2, SharesAre
  <2>4. \A a \in Nat : a * 2 * 1 \in Int OBVIOUS
  <2> QED BY <2>1, <2>3, <2>4
<1>4. Leave!ProfitFraction(Leave!Remainder(t)) \in Int
  BY <1>0 DEF Leave!ProfitFraction, Leave!Lesser, Leave!Hundredth
<1> DEFINE a1 == << Leave!Item("severance", Leave!Severance(t, d)) >>
           left == IF Leave!Years(t) = 0 THEN 0 ELSE Leave!PendingLeave(periods)
           a2 == Leave!Owed("pending leave", left)
           a3 == Leave!Owed("leave", Leave!LeaveFraction(t))
           a4 == Leave!Owed("profit", Leave!ProfitFraction(Leave!Remainder(t)))
           a5 == IF i THEN << Leave!Item("indemnity", Leave!Severance(t, d)) >> ELSE << >>
<1>5. {"severance", "pending leave", "leave", "profit", "indemnity"} \subseteq ItemCode
  BY DEF ItemCode
<1>6. a1 \in Bill BY <1>1, <1>5, Listed
<1>7. a2 \in Seq(ItemRow)
  <2>1. left \in Int BY <1>2
  <2> HIDE DEF left
  <2> QED BY <2>1, <1>5, Listed
<1>8. a3 \in Seq(ItemRow) /\ a4 \in Seq(ItemRow) BY <1>3, <1>4, <1>5, Listed
<1>9. a5 \in Seq(ItemRow)
  <2>1. << Leave!Item("indemnity", Leave!Severance(t, d)) >> \in Bill BY <1>1, <1>5, Listed
  <2> QED BY <2>1, Listed DEF Bill
<1>10. Leave!Due(t, d, periods, i) = a1 \o a2 \o a3 \o a4 \o a5 BY DEF Leave!Due
<1> HIDE DEF a1, a2, a3, a4, a5
<1>11. a1 \o a2 \in Bill BY <1>6, <1>7, Listed
<1>12. a1 \o a2 \o a3 \in Bill BY <1>8, <1>11, Listed
<1>13. a1 \o a2 \o a3 \o a4 \in Bill BY <1>8, <1>12, Listed
<1>14. a1 \o a2 \o a3 \o a4 \o a5 \in Bill BY <1>9, <1>13, Listed
<1> QED BY <1>10, <1>14

\* And so is what is left when the advances and the debt are taken.
LEMMA DraftIsBill ==
  ASSUME NEW due \in Bill, NEW advances \in Nat, NEW debt \in Nat
  PROVE  Leave!Draft(due, advances, debt) \in Bill
<1>1. \A c \in {"advance", "debt"} : \A a \in Int :
        /\ << Leave!Item(c, a) >> \in Seq(ItemRow) /\ << >> \in Seq(ItemRow)
  BY Listed DEF Bill, ItemCode
<1> DEFINE a1 == IF advances > 0 THEN << Leave!Item("advance", -advances) >> ELSE << >>
           net == due \o a1
           half == Leave!Total(net) \div 2
           taken == Leave!Lesser(debt, half)
           a2 == IF debt > 0 /\ taken > 0 THEN << Leave!Item("debt", -taken) >> ELSE << >>
<1>3. a1 \in Seq(ItemRow)
  <2>1. -advances \in Int OBVIOUS
  <2> QED BY <1>1, <2>1
<1>4. net \in Bill
  <2> HIDE DEF a1
  <2> QED BY <1>3, Listed
<1>5. taken \in Int
  <2>1. Leave!Total(net) \in Int
    <3> HIDE DEF net
    <3> QED BY <1>4, TotalType DEF Bill
  <2>2. half \in Int BY <2>1
  <2> HIDE DEF half
  <2> QED BY <2>2 DEF Leave!Lesser
<1>6. a2 \in Seq(ItemRow)
  <2> HIDE DEF taken
  <2>1. -taken \in Int BY <1>5
  <2> QED BY <1>1, <2>1
<1>7. Leave!Draft(due, advances, debt) = net \o a2 BY DEF Leave!Draft
<1> HIDE DEF net, a2
<1> QED BY <1>4, <1>6, <1>7, Listed

-----------------------------------------------------------------------------
(* Interest for paying late: the segments come to what the days do.         *)

\* The table of rates begins before every date.
LEMMA TableIs ==
  /\ DOMAIN LateRates = 1 .. 3 /\ 1 \in 1 .. 3
  /\ \A i \in 1 .. 3 : LateRates[i].from \in Nat /\ LateRates[i].rate \in Int
  /\ LateRates[1].from = 0
BY DEF LateRates

\* The rates that have begun on a date.
Begun(d) == {i \in DOMAIN LateRates : LateRates[i].from <= d}

\* There is a rate on every date.
LEMMA RateIs ==
  ASSUME NEW d \in Nat
  PROVE  /\ Leave!RateAt(d) \in Int
         /\ \A c \in Nat : Begun(c) = Begun(d) => Leave!RateAt(c) = Leave!RateAt(d)
<1>1. \A c : Leave!RateAt(c) = LateRates[Leave!Max(Begun(c))].rate BY DEF Leave!RateAt, Begun
<1>2. Begun(d) \subseteq 1 .. 3 /\ 1 \in Begun(d) BY TableIs DEF Begun
<1>3. IsFiniteSet(Begun(d)) /\ Begun(d) \subseteq Int /\ Begun(d) # {}
  <2>1. IsFiniteSet(1 .. 3)
    <3>1. 1 \in Int /\ 3 \in Int OBVIOUS
    <3> QED BY <3>1, FS_Interval
  <2>2. 1 .. 3 \subseteq Int OBVIOUS
  <2> HIDE DEF Begun
  <2>3. IsFiniteSet(Begun(d)) BY <1>2, <2>1, FS_Subset
  <2> QED BY <1>2, <2>2, <2>3
<1>4. Leave!Max(Begun(d)) \in Begun(d) BY <1>3, HasExtremes DEF Leave!Max
<1>5. Leave!RateAt(d) \in Int BY <1>1, <1>2, <1>4, TableIs
<1> QED BY <1>1, <1>5

\* The cuts are days, and the first of them is the first day.
LEMMA CutsAre ==
  ASSUME NEW from \in Nat, NEW to \in Nat, from < to
  PROVE  /\ IsFiniteSet(Leave!Segments(from, to)) /\ from \in Leave!Segments(from, to)
         /\ Leave!Segments(from, to) \subseteq from .. (to - 1)
         /\ \A i \in 1 .. 3 : from < LateRates[i].from /\ LateRates[i].from < to
              => LateRates[i].from \in Leave!Segments(from, to)
<1> DEFINE C == Leave!Segments(from, to)
<1>1. C = {from} \cup {d \in {LateRates[i].from : i \in 1 .. 3} : from < d /\ d < to}
  BY TableIs DEF Leave!Segments
<1>2. from \in C /\ C \subseteq from .. (to - 1) BY <1>1, TableIs
<1>3. IsFiniteSet(C)
  <2>1. IsFiniteSet(from .. (to - 1)) BY FS_Interval
  <2> QED BY <1>2, <2>1, FS_Subset
<1> QED BY <1>1, <1>2, <1>3

\* The segment that a day is in, and where the segment ends.
StartOf(C, d) == Leave!Max({c \in C : c <= d})
EndOf(C, to, d) == Leave!Min({c \in C : c > d} \cup {to})

\* The days of a segment.
LEMMA SegmentIs ==
  ASSUME NEW from \in Nat, NEW to \in Nat, from < to,
         NEW C, C \subseteq from .. (to - 1), IsFiniteSet(C), from \in C
  PROVE  /\ \A d \in from .. (to - 1) :
              /\ StartOf(C, d) \in C /\ StartOf(C, d) <= d
              /\ \A c \in C : c <= d => c <= StartOf(C, d)
         /\ \A c \in C : /\ EndOf(C, to, c) \in Nat /\ c < EndOf(C, to, c)
                         /\ {d \in from .. (to - 1) : StartOf(C, d) = c} = c .. (EndOf(C, to, c) - 1)
<1>0. \A d \in from .. (to - 1) : d \in Int /\ from <= d /\ d < to OBVIOUS
<1>c. \A c \in C : c \in Int /\ from <= c /\ c < to BY <1>0
<1>1. ASSUME NEW d \in from .. (to - 1)
      PROVE  /\ StartOf(C, d) \in C /\ StartOf(C, d) <= d
             /\ \A c \in C : c <= d => c <= StartOf(C, d)
  <2> DEFINE S == {c \in C : c <= d}
  <2>1. S \subseteq C /\ from \in S /\ S \subseteq Int BY <1>0, <1>c
  <2>2. IsFiniteSet(S) BY <2>1, FS_Subset
  <2>3. \E x \in S : \A y \in S : x >= y BY <2>1, <2>2, HasExtremes
  <2>4. StartOf(C, d) = Leave!Max(S) BY DEF StartOf
  <2> HIDE DEF S
  <2>5. StartOf(C, d) \in S /\ \A y \in S : StartOf(C, d) >= y BY <2>3, <2>4 DEF Leave!Max
  <2> QED BY <2>5 DEF S
<1>2. ASSUME NEW c \in C
      PROVE  /\ EndOf(C, to, c) \in Nat /\ c < EndOf(C, to, c)
             /\ {d \in from .. (to - 1) : StartOf(C, d) = c} = c .. (EndOf(C, to, c) - 1)
  <2> DEFINE S == {x \in C : x > c} \cup {to}  e == EndOf(C, to, c)
  <2>1. to \in S /\ S \subseteq C \cup {to} /\ S \subseteq Int /\ c < to
    <3>1. to \in S /\ S \subseteq C \cup {to} OBVIOUS
    <3>2. C \cup {to} \subseteq Int BY <1>c
    <3> QED BY <1>c, <3>1, <3>2
  <2>2. IsFiniteSet(S)
    <3>1. IsFiniteSet(C \cup {to}) BY FS_AddElement
    <3> QED BY <2>1, <3>1, FS_Subset
  <2>3. \E x \in S : \A y \in S : x <= y BY <2>1, <2>2, HasExtremes
  <2>4. e = Leave!Min(S) BY DEF EndOf
  <2> HIDE DEF S, e
  <2>5. e \in S /\ \A y \in S : e <= y BY <2>3, <2>4 DEF Leave!Min
  <2>6. e \in Nat /\ c < e /\ e <= to /\ \A x \in C : x > c => e <= x
    <3>1. e \in {x \in C : x > c} \cup {to} BY <2>5 DEF S
    <3>2. \A x \in C : x > c => e <= x BY <2>5 DEF S
    <3> QED BY <2>1, <2>5, <3>1, <3>2
  <2>7. ASSUME NEW d \in from .. (to - 1), StartOf(C, d) = c PROVE d \in c .. (e - 1)
    <3>1. c <= d /\ \A x \in C : x <= d => x <= c BY <1>1, <2>7
    <3>2. CASE e = to BY <2>6, <3>1, <3>2
    <3>3. CASE e # to
      <4>1. e \in C /\ e > c BY <2>5, <3>3 DEF S
      <4>2. ~(e <= d) BY <2>6, <3>1, <4>1
      <4> QED BY <2>6, <3>1, <4>2
    <3> QED BY <3>2, <3>3
  <2>8. ASSUME NEW d \in c .. (e - 1) PROVE d \in from .. (to - 1) /\ StartOf(C, d) = c
    <3>1. d \in from .. (to - 1) BY <2>6
    <3>2. StartOf(C, d) \in C /\ StartOf(C, d) <= d /\ c <= StartOf(C, d) BY <1>1, <3>1
    <3> DEFINE x == StartOf(C, d)
    <3>3. x \in Int /\ c \in Int BY <1>c, <3>2
    <3> HIDE DEF x
    <3>4. ~(x > c)
      <4>1. x \in C /\ x <= d BY <3>2 DEF x
      <4>2. x > c => e <= x BY <2>6, <4>1
      <4> QED BY <2>6, <3>3, <4>1, <4>2
    <3>5. x >= c BY <3>2 DEF x
    <3> QED BY <3>1, <3>3, <3>4, <3>5 DEF x
  <2>9. {d \in from .. (to - 1) : StartOf(C, d) = c} = c .. (e - 1) BY <2>7, <2>8
  <2> QED BY <2>6, <2>9 DEF e
<1> QED BY <1>1, <1>2

\* The interest of the segments is that of the days, for any days of grace and any
\* date of payment.
LEMMA MoraAgrees ==
  ASSUME NEW debt \in Int, NEW from \in Nat, NEW to \in Nat
  PROVE  Leave!Mora(debt, from, to) = Leave!MoraByDay(debt, from, to)
<1> DEFINE D == from .. (to - 1)
           g == [d \in D |-> debt * Leave!RateAt(d)]
<1>1. Leave!MoraByDay(debt, from, to) = SumFunctionOnSet(g, D)
  <2>1. Leave!MoraByDay(debt, from, to) = Leave!SumFunction(g) BY DEF Leave!MoraByDay
  <2>2. DOMAIN g = D OBVIOUS
  <2> HIDE DEF g
  <2> QED BY <2>1, <2>2, BenefitSum
<1>2. CASE to <= from
  <2>1. D = {} BY <1>2
  <2>2. Leave!Mora(debt, from, to) = 0 BY <1>2 DEF Leave!Mora
  <2> HIDE DEF D, g
  <2> QED BY <1>1, <2>1, <2>2, SumOfNone
<1>3. CASE from < to
  <2> DEFINE C == Leave!Segments(from, to)
             E(c) == EndOf(C, to, c)
             F(c) == StartOf(C, c)
             k == [c \in C |-> debt * Leave!RateAt(c)]
             f == [c \in C |-> debt * Leave!RateAt(c) * (E(c) - c)]
  <2>1. /\ IsFiniteSet(C) /\ from \in C /\ C \subseteq D
        /\ \A i \in 1 .. 3 : from < LateRates[i].from /\ LateRates[i].from < to
             => LateRates[i].from \in C
    BY <1>3, CutsAre
  <2>2. /\ \A d \in D : F(d) \in C /\ F(d) <= d /\ \A c \in C : c <= d => c <= F(d)
        /\ \A c \in C : E(c) \in Nat /\ c < E(c) /\ {d \in D : F(d) = c} = c .. (E(c) - 1)
    BY <1>3, <2>1, SegmentIs
  <2>3. \A d \in D : d \in Nat /\ from <= d /\ d < to OBVIOUS
  <2>4. \A d \in D : Leave!RateAt(d) \in Int
    <3> HIDE DEF D
    <3> QED BY <2>3, RateIs
  <2>5. Leave!Mora(debt, from, to) = SumFunctionOnSet(f, C)
    <3>1. Leave!Mora(debt, from, to) = Leave!SumFunction(f) BY <1>3 DEF Leave!Mora, EndOf
    <3>2. DOMAIN f = C OBVIOUS
    <3> HIDE DEF f
    <3> QED BY <3>1, <3>2, BenefitSum
  <2>6. \A c \in C : k[c] \in Int /\ c \in D /\ c \in Nat
    <3> SUFFICES ASSUME NEW c \in C PROVE k[c] \in Int /\ c \in D /\ c \in Nat
      OBVIOUS
    <3>1. c \in D /\ c \in Nat BY <2>1, <2>3
    <3>2. Leave!RateAt(c) \in Int BY <2>4, <3>1
    <3>3. \A r \in Int : debt * r \in Int OBVIOUS
    <3> QED BY <3>1, <3>2, <3>3
  <2>7. \A d \in D : g[d] = k[F(d)] /\ g[d] \in Int
    <3> SUFFICES ASSUME NEW d \in D PROVE g[d] = k[F(d)] /\ g[d] \in Int
      OBVIOUS
    <3>1. F(d) \in C /\ F(d) \in D /\ F(d) \in Nat /\ F(d) <= d BY <2>2, <2>6
    <3>2. Begun(F(d)) = Begun(d)
      <4>1. ASSUME NEW i \in 1 .. 3, LateRates[i].from <= d PROVE LateRates[i].from <= F(d)
        <5> DEFINE a == LateRates[i].from
        <5>1. a \in Nat BY TableIs
        <5>2. CASE from < a
          <6>1. a < to BY <2>3, <4>1, <5>1
          <6>2. a \in C BY <2>1, <5>2, <6>1
          <6> QED BY <2>2, <4>1, <6>2
        <5>3. CASE ~(from < a)
          <6>1. from <= F(d) BY <2>3, <3>1
          <6> HIDE DEF a, F
          <6>2. a <= F(d) BY <3>1, <5>1, <5>3, <6>1
          <6> QED BY <6>2 DEF a
        <5> QED BY <5>2, <5>3
      <4>2. ASSUME NEW i \in 1 .. 3, LateRates[i].from <= F(d) PROVE LateRates[i].from <= d
        <5>1. LateRates[i].from \in Nat BY TableIs
        <5> DEFINE a == LateRates[i].from  b == F(d)
        <5>2. a \in Nat /\ b \in Nat /\ d \in Nat /\ a <= b /\ b <= d BY <2>3, <3>1, <4>2, <5>1
        <5> HIDE DEF a, b
        <5>3. a <= d BY <5>2
        <5> QED BY <5>3 DEF a
      <4> QED BY <4>1, <4>2, TableIs DEF Begun
    <3>3. Leave!RateAt(F(d)) = Leave!RateAt(d) BY <2>3, <3>1, <3>2, RateIs
    <3>4. k[F(d)] = debt * Leave!RateAt(F(d)) /\ g[d] = debt * Leave!RateAt(d) BY <3>1
    <3> QED BY <2>6, <3>1, <3>3, <3>4
  <2>8. IsFiniteSet(D) BY FS_Interval
  <2> DEFINE H(W) == [c \in C |-> k[c] * Cardinality({d \in W : F(d) = c})]
             T == {W \in SUBSET D : SumFunctionOnSet(g, W) = SumFunctionOnSet(H(W), C)}
  <2>h. ASSUME NEW W \in SUBSET D
        PROVE  \A c \in C : /\ Cardinality({d \in W : F(d) = c}) \in Nat
                            /\ H(W)[c] \in Int
                            /\ H(W)[c] = k[c] * Cardinality({d \in W : F(d) = c})
    <3> SUFFICES ASSUME NEW c \in C
                 PROVE  /\ Cardinality({d \in W : F(d) = c}) \in Nat
                        /\ H(W)[c] \in Int
                        /\ H(W)[c] = k[c] * Cardinality({d \in W : F(d) = c})
      OBVIOUS
    <3> DEFINE S == {d \in W : F(d) = c}
    <3>1. IsFiniteSet(S)
      <4>1. S \subseteq D OBVIOUS
      <4> HIDE DEF S
      <4> QED BY <2>8, <4>1, FS_Subset
    <3>2. Cardinality(S) \in Nat BY <3>1, FS_CardinalityType
    <3>3. H(W)[c] = k[c] * Cardinality(S) OBVIOUS
    <3> HIDE DEF S, H, k
    <3>4. \A a \in Int : \A n \in Nat : a * n \in Int OBVIOUS
    <3>5. k[c] * Cardinality(S) \in Int BY <2>6, <3>2, <3>4
    <3> QED BY <3>2, <3>3, <3>5 DEF S
  <2>9. SumFunctionOnSet(g, D) = SumFunctionOnSet(H(D), C)
    <3>1. {} \in T
      <4>1. \A c \in C : H({})[c] = 0
        <5>1. \A c \in C : {d \in {} : F(d) = c} = {} OBVIOUS
        <5>2. Cardinality({}) = 0 BY FS_EmptySet
        <5>3. {} \in SUBSET D OBVIOUS
        <5> HIDE DEF H
        <5>4. \A c \in C : H({})[c] = k[c] * 0 BY <2>h, <5>1, <5>2, <5>3
        <5> QED BY <2>6, <5>4
      <4> HIDE DEF H
      <4>2. SumFunctionOnSet(H({}), C) = 0 BY <2>1, <4>1, SumOfZeros
      <4>3. SumFunctionOnSet(g, {}) = 0 BY SumOfNone
      <4> QED BY <4>2, <4>3
    <3>2. ASSUME NEW W \in SUBSET D, NEW x \in D \ W, W \in T PROVE W \cup {x} \in T
      <4> DEFINE V == W \cup {x}  p == H(W)  q == H(V)  y == F(x)
      <4>1. V \in SUBSET D /\ y \in C BY <2>2
      <4>2. \A c \in C : p[c] \in Int /\ q[c] \in Int BY <2>h, <4>1
      <4>3. \A c \in C \ {y} : q[c] = p[c]
        <5> SUFFICES ASSUME NEW c \in C \ {y} PROVE q[c] = p[c]
          OBVIOUS
        <5>1. {d \in V : F(d) = c} = {d \in W : F(d) = c} OBVIOUS
        <5>2. p[c] = k[c] * Cardinality({d \in W : F(d) = c}) OBVIOUS
        <5>3. q[c] = k[c] * Cardinality({d \in V : F(d) = c}) OBVIOUS
        <5> QED BY <5>1, <5>2, <5>3
      <4>4. q[y] = p[y] + g[x]
        <5> DEFINE S == {d \in W : F(d) = y}
        <5>1. {d \in V : F(d) = y} = S \cup {x} /\ x \notin S /\ S \subseteq D OBVIOUS
        <5>2. IsFiniteSet(S)
          <6> HIDE DEF S
          <6> QED BY <2>8, <5>1, FS_Subset
        <5>3. Cardinality(S \cup {x}) = Cardinality(S) + 1 /\ Cardinality(S) \in Nat
          <6> HIDE DEF S
          <6> QED BY <5>1, <5>2, FS_AddElement, FS_CardinalityType
        <5>4. p[y] = k[y] * Cardinality(S) BY <4>1
        <5>5. q[y] = k[y] * Cardinality({d \in V : F(d) = y}) BY <4>1
        <5>6. q[y] = k[y] * (Cardinality(S) + 1) BY <5>1, <5>3, <5>5
        <5>7. k[y] = g[x] /\ g[x] \in Int BY <2>7
        <5> HIDE DEF S, k, g, p, q, y
        <5>8. \A a \in Int : \A n \in Nat : a * (n + 1) = a * n + a OBVIOUS
        <5>9. k[y] * (Cardinality(S) + 1) = k[y] * Cardinality(S) + k[y] BY <5>3, <5>7, <5>8
        <5> QED BY <5>4, <5>6, <5>7, <5>9
      <4> HIDE DEF p, q, y
      <4>5. SumFunctionOnSet(q, C) = SumFunctionOnSet(p, C) + (q[y] - p[y])
        <5>1. IsFiniteSet(C) /\ y \in C /\ \A c \in C : p[c] \in Int /\ q[c] \in Int
          BY <2>1, <4>1, <4>2
        <5> HIDE DEF C
        <5> QED BY <4>3, <5>1, SumChanges
      <4>6. \A d \in D : g[d] \in Int BY <2>7
      <4>7. SumFunctionOnSet(g, W \cup {x}) = g[x] + SumFunctionOnSet(g, W)
        <5> HIDE DEF D, g
        <5> QED BY <2>8, <4>6, SumGrows
      <4>8. SumFunctionOnSet(p, C) \in Int BY <2>1, <4>2, SumType
      <4>9. SumFunctionOnSet(g, W) = SumFunctionOnSet(p, C) BY <3>2 DEF p
      <4>10. p[y] \in Int /\ g[x] \in Int BY <4>1, <4>2, <4>6
      <4>11. SumFunctionOnSet(g, V) = SumFunctionOnSet(q, C)
        <5> HIDE DEF g
        <5> QED BY <4>4, <4>5, <4>7, <4>8, <4>9, <4>10
      <4> QED BY <4>1, <4>11 DEF q
    <3>3. D \in T
      <4> HIDE DEF T, D
      <4> QED BY <2>8, <3>1, <3>2, SubsetInduction
    <3> QED BY <3>3
  <2>10. \A c \in C : f[c] \in Int /\ f[c] = H(D)[c]
    <3> SUFFICES ASSUME NEW c \in C PROVE f[c] \in Int /\ f[c] = H(D)[c]
      OBVIOUS
    <3>1. D \in SUBSET D OBVIOUS
    <3>2. /\ H(D)[c] \in Int
          /\ H(D)[c] = k[c] * Cardinality({d \in D : F(d) = c})
      <4> HIDE DEF D, H, F, k
      <4> QED BY <2>h, <3>1
    <3>3. {d \in D : F(d) = c} = c .. (E(c) - 1) /\ E(c) \in Nat /\ c < E(c) /\ c \in Nat
      BY <2>2, <2>6
    <3>4. Cardinality(c .. (E(c) - 1)) = E(c) - c
      <4> DEFINE e == E(c)
      <4>1. e \in Nat /\ c < e /\ c \in Nat BY <3>3
      <4> HIDE DEF e
      <4>2. Cardinality(c .. (e - 1)) = IF c > e - 1 THEN 0 ELSE (e - 1) - c + 1
        BY <4>1, FS_Interval
      <4>3. Cardinality(c .. (e - 1)) = e - c BY <4>1, <4>2
      <4> QED BY <4>3 DEF e
    <3>5. f[c] = k[c] * (E(c) - c) OBVIOUS
    <3> QED BY <3>2, <3>3, <3>4, <3>5
  <2> HIDE DEF f, H
  <2>11. SumFunctionOnSet(f, C) = SumFunctionOnSet(H(D), C) BY <2>1, <2>10, SumSame
  <2> QED BY <1>1, <2>5, <2>9, <2>11
<1> QED BY <1>2, <1>3

-----------------------------------------------------------------------------
(* Every step of the settlement is one of those forms.                      *)

\* The interest of a day is a number, and there is none on the first.
LEMMA MoraIs ==
  ASSUME NEW debt \in Int, NEW d \in Nat
  PROVE  /\ MoraOf(debt, d) \in Int /\ MoraOf(debt, 0) = 0
         /\ Leave!Mora(debt, 5, d) = MoraOf(debt, d)
<1> DEFINE D == 5 .. (d - 1)  g == [x \in D |-> debt * Leave!RateAt(x)]
<1>1. MoraOf(debt, d) = SumFunctionOnSet(g, D)
  <2>1. MoraOf(debt, d) = Leave!SumFunction(g) BY DEF MoraOf, Leave!MoraByDay
  <2>2. DOMAIN g = D OBVIOUS
  <2> HIDE DEF g
  <2> QED BY <2>1, <2>2, BenefitSum
<1>2. IsFiniteSet(D) BY FS_Interval
<1>3. \A x \in D : g[x] \in Int
  <2> SUFFICES ASSUME NEW x \in D PROVE g[x] \in Int
    OBVIOUS
  <2>1. x \in Nat OBVIOUS
  <2>2. Leave!RateAt(x) \in Int BY <2>1, RateIs
  <2>3. \A r \in Int : debt * r \in Int OBVIOUS
  <2> QED BY <2>2, <2>3
<1>4. MoraOf(debt, d) \in Int
  <2> HIDE DEF D, g
  <2> QED BY <1>1, <1>2, <1>3, SumType
<1>5. MoraOf(debt, 0) = 0
  <2>1. Leave!Mora(debt, 5, 0) = 0 BY DEF Leave!Mora
  <2>2. Leave!Mora(debt, 5, 0) = Leave!MoraByDay(debt, 5, 0) BY MoraAgrees
  <2> QED BY <2>1, <2>2 DEF MoraOf
<1>6. Leave!Mora(debt, 5, d) = MoraOf(debt, d) BY MoraAgrees DEF MoraOf
<1> QED BY <1>4, <1>5, <1>6

\* Replacing one row.
LEMMA OneRowOfLeave ==
  ASSUME SettlementTyped, NEW x \in Leave!Row, NEW v
  PROVE  Leave!Over([r \in {x} |-> v], db) = [db EXCEPT ![x] = v]
BY DEF Leave!Over, SettlementTyped

\* A statement of its own.
LEMMA SingleNotes ==
  ASSUME SettlementTyped, NEW s, NEW r, NEW v, OfRow(r, v), Leave!Single(s, r, v)
  PROVE  mine' = mine /\ Alone
<1>1. r \in {"deposits", "debt", "mora items", "periods", "advance"} BY DEF OfRow
<1>2. db' = [db EXCEPT ![r] = v] /\ mine' = mine /\ at' = at /\ job' = job /\ cut' = cut
  BY DEF Leave!Single
<1> QED BY <1>1, <1>2 DEF Alone, NotesRow

\* Periods of leave that change one by one.
LEMMA PeriodsStay ==
  ASSUME NEW q \in Seq(Leave!LeavePeriod), NEW y \in Nat, NEW n \in Nat
  PROVE  /\ [q EXCEPT ![y].taken = n] \in Seq(Leave!LeavePeriod)
         /\ [q EXCEPT ![y].paid = TRUE] \in Seq(Leave!LeavePeriod)
<1> DEFINE k == Len(q)
<1>1. k \in Nat /\ DOMAIN q = 1 .. k /\ q \in [1 .. k -> Leave!LeavePeriod] OBVIOUS
<1>2. \A f : f \in [1 .. k -> Leave!LeavePeriod] => f \in Seq(Leave!LeavePeriod) BY <1>1
<1> HIDE DEF k
<1>3. [q EXCEPT ![y].taken = n] \in [1 .. k -> Leave!LeavePeriod] BY <1>1 DEF Leave!LeavePeriod
<1>4. [q EXCEPT ![y].paid = TRUE] \in [1 .. k -> Leave!LeavePeriod] BY <1>1 DEF Leave!LeavePeriod
<1> QED BY <1>2, <1>3, <1>4

\* What was put aside, and what was paid of it.
LEMMA MoneyIs ==
  ASSUME SettlementTyped
  PROVE  Leave!OfDeposits \in Int /\ Leave!Approved \in Nat /\ Leave!Years(Leave!Served) \in Nat
         /\ Leave!Quarters(Leave!Served) \in Nat
<1>1. db["deposits"] \in Nat /\ db["tenure"] \in Leave!Tenure BY DEF SettlementTyped, TenureTyped
<1>2. Leave!OfDeposits \in Int BY <1>1 DEF Leave!OfDeposits, Leave!Day, Leave!Hundredth
<1>3. Leave!Approved \in Nat BY DEF SettlementTyped, Leave!Approved, Leave!AdvanceRow
<1>4. Leave!Years(Leave!Served) \in Nat /\ Leave!Quarters(Leave!Served) \in Nat
  BY <1>1 DEF Leave!Served, Leave!Years, Leave!Quarters, Leave!Tenure
<1> QED BY <1>2, <1>3, <1>4

\* What happens while the employee serves.
LEMMA ServiceForms ==
  ASSUME Settled, NEW s \in Session, Leave!Service(s) \/ Leave!WriteEnjoyed(s)
  PROVE  mine' = mine /\ (Alone \/ SettlementStep(s))
<1>t. SettlementTyped /\ SettlementJobsTyped BY DEF Settled
<1>d. db["deposits"] \in Nat /\ db["periods"] \in Seq(Leave!LeavePeriod) /\ db["debt"] \in Nat
  BY <1>t DEF SettlementTyped
<1>1. CASE Leave!GenerateDeposits(s)
  <2>1. PICK n \in {1, Leave!Quarters(Leave!Served)} : Leave!Single(s, "deposits", n)
    BY <1>1 DEF Leave!GenerateDeposits
  <2>2. n \in Nat BY <1>t, MoneyIs
  <2>3. OfRow("deposits", n) BY <2>2 DEF OfRow
  <2> QED BY <1>t, <2>1, <2>3, SingleNotes
<1>2. CASE Leave!GeneratePeriods(s)
  <2> DEFINE n == Leave!Years(Leave!Served)
             q == [y \in 1 .. n |-> IF y \in DOMAIN db["periods"] THEN db["periods"][y]
                                    ELSE [taken |-> 0, paid |-> FALSE]]
  <2>1. Leave!Single(s, "periods", q) BY <1>2 DEF Leave!GeneratePeriods
  <2>2. n \in Nat BY <1>t, MoneyIs
  <2>3. q \in Seq(Leave!LeavePeriod)
    <3> HIDE DEF n
    <3>0. /\ \A y \in DOMAIN db["periods"] : db["periods"][y] \in Leave!LeavePeriod
          /\ [taken |-> 0, paid |-> FALSE] \in Leave!LeavePeriod
      <4>1. \A y \in DOMAIN db["periods"] : db["periods"][y] \in Leave!LeavePeriod
        <5> HIDE DEF q
        <5> QED BY <1>d
      <4>2. [taken |-> 0, paid |-> FALSE] \in Leave!LeavePeriod BY DEF Leave!LeavePeriod
      <4> QED BY <4>1, <4>2
    <3>1. \A y \in 1 .. n : q[y] \in Leave!LeavePeriod BY <3>0
    <3>2. q \in [1 .. n -> Leave!LeavePeriod] BY <3>1
    <3> HIDE DEF q
    <3> QED BY <2>2, <3>2
  <2> HIDE DEF q
  <2>4. OfRow("periods", q) BY <2>3 DEF OfRow
  <2> QED BY <1>t, <2>1, <2>4, SingleNotes
<1>3. CASE Leave!StartEnjoy(s)
  <2>1. PICK y \in DOMAIN db["periods"] :
          LET taken == db["periods"][y].taken IN
          /\ taken = 0 /\ 5 <= Leave!VacationDays(y) - taken
          /\ Leave!Starts(s, "enjoy", [year |-> y, taken |-> taken + 5])
    BY <1>3 DEF Leave!StartEnjoy
  <2> DEFINE j == [year |-> y, taken |-> db["periods"][y].taken + 5]
  <2>2. Leave!Starts(s, "enjoy", j) BY <2>1
  <2>3. y \in Nat BY <1>d
  <2>4. j \in [year : Nat, taken : Nat] BY <2>1, <2>3
  <2> HIDE DEF j
  <2>5. /\ at[s] = "idle" /\ db' = db /\ cut' = cut /\ mine' = mine /\ Moves(s, "enjoy", j)
    BY <2>2 DEF Leave!Starts, Leave!Begin, Leave!Goto, Moves
  <2>6. SettlementJob("enjoy", j) BY <2>4 DEF SettlementJob, SettlementLabels
  <2>7. GoesOn(s) BY <2>5, <2>6 DEF GoesOn, SettlementLabels
  <2> QED BY <2>5, <2>7 DEF SettlementStep
<1>4. CASE Leave!PayBonus(s)
  <2>1. PICK y \in DOMAIN db["periods"] :
          Leave!Single(s, "periods", [db["periods"] EXCEPT ![y].paid = TRUE])
    BY <1>4 DEF Leave!PayBonus
  <2>2. y \in Nat BY <1>d
  <2>3. [db["periods"] EXCEPT ![y].paid = TRUE] \in Seq(Leave!LeavePeriod)
    BY <1>d, <2>2, PeriodsStay
  <2>4. OfRow("periods", [db["periods"] EXCEPT ![y].paid = TRUE]) BY <2>3 DEF OfRow
  <2> QED BY <1>t, <2>1, <2>4, SingleNotes
<1>5. CASE Leave!RequestAdvance(s)
  <2> DEFINE v == [approved |-> 0, status |-> "pendiente"]
  <2>1. Leave!Single(s, "advance", v) BY <1>5 DEF Leave!RequestAdvance
  <2>2. OfRow("advance", v) BY DEF OfRow, Leave!AdvanceRow
  <2> HIDE DEF v
  <2> QED BY <1>t, <2>1, <2>2, SingleNotes
<1>6. CASE Leave!ResolveAdvance(s)
  <2> DEFINE v == [approved |-> 13400, status |-> "aprobado"]
             w == [approved |-> 0, status |-> "rechazado"]
  <2>1. Leave!Single(s, "advance", v) \/ Leave!Single(s, "advance", w)
    BY <1>6 DEF Leave!ResolveAdvance
  <2>2. OfRow("advance", v) /\ OfRow("advance", w) BY DEF OfRow, Leave!AdvanceRow
  <2> HIDE DEF v, w
  <2> QED BY <1>t, <2>1, <2>2, SingleNotes
<1>7. CASE Leave!RepayDebt(s)
  <2>1. Leave!Single(s, "debt", 0) BY <1>7 DEF Leave!RepayDebt
  <2>2. OfRow("debt", 0) BY DEF OfRow
  <2> QED BY <1>t, <2>1, <2>2, SingleNotes
<1>8. CASE Leave!WriteEnjoyed(s)
  <2> DEFINE v == [db["periods"] EXCEPT ![job[s].year].taken = job[s].taken]
  <2>1. at[s] = "enjoy" /\ cut' = cut BY <1>8 DEF Leave!WriteEnjoyed
  <2>2. Leave!Apply(s, [r \in {"periods"} |-> [db[r] EXCEPT ![job[s].year].taken = job[s].taken]],
                    "commit", job[s])
    BY <1>8 DEF Leave!WriteEnjoyed
  <2>3. [r \in {"periods"} |-> [db[r] EXCEPT ![job[s].year].taken = job[s].taken]]
          = [r \in {"periods"} |-> v]
    OBVIOUS
  <2>4. job[s] \in [year : Nat, taken : Nat] BY <1>t, <2>1 DEF SettlementJobsTyped, SettlementJob
  <2>5. v \in Seq(Leave!LeavePeriod) BY <1>d, <2>4, PeriodsStay
  <2> HIDE DEF v
  <2>6. Leave!Apply(s, [r \in {"periods"} |-> v], "commit", job[s]) BY <2>2, <2>3
  <2>7. "periods" \in Leave!Row BY DEF Leave!Row
  <2>8. db' = [db EXCEPT !["periods"] = v] /\ mine' = mine /\ Moves(s, "commit", job[s])
    BY <1>t, <2>6, <2>7, OneRowOfLeave DEF Leave!Apply, Leave!Goto, Moves
  <2>9. Notes(s) BY <2>1, <2>5, <2>8 DEF Notes, NotesRow, OfRow
  <2> QED BY <2>8, <2>9 DEF SettlementStep
<1> QED BY <1>1, <1>2, <1>3, <1>4, <1>5, <1>6, <1>7, <1>8 DEF Leave!Service

\* A request that reads, and goes on.
LEMMA LooksOn ==
  ASSUME NEW s, NEW l \in SettlementLabels \ {"items", "pay"}, NEW j, at[s] # "items",
         cut' = cut, Leave!Look(s, l, j), SettlementJob(l, j)
  PROVE  GoesOn(s) /\ mine' = mine
<1>1. db' = db /\ mine' = mine /\ Moves(s, l, j) BY DEF Leave!Look, Leave!Goto, Moves
<1> QED BY <1>1 DEF GoesOn

\* A request that ends having written nothing.
LEMMA EndsOf ==
  ASSUME SettlementTyped, NEW s \in Session, at[s] # "items", cut' = cut,
         Leave!Rollback(s) \/ Leave!Commit(s)
  PROVE  GoesOn(s) /\ mine' = mine
<1>1. mine[s] = Leave!Unwritten /\ [mine EXCEPT ![s] = Leave!Unwritten] = mine
  BY DEF SettlementTyped, Unwritten, Leave!Unwritten
<1>2. Leave!Over(mine[s], db) = db
  <2>1. DOMAIN Leave!Unwritten = {} BY DEF Leave!Unwritten
  <2>2. db = [r \in DOMAIN db |-> db[r]] BY DEF SettlementTyped
  <2> QED BY <1>1, <2>1, <2>2 DEF Leave!Over
<1>3. db' = db /\ mine' = mine /\ Moves(s, "idle", NoJob)
  BY <1>1, <1>2 DEF Leave!Rollback, Leave!Commit, Leave!Publish, Leave!Goto, Moves
<1>4. SettlementJob("idle", NoJob) BY DEF SettlementJob, SettlementLabels
<1> QED BY <1>3, <1>4 DEF GoesOn, SettlementLabels

\* What happens when the employee leaves.
LEMMA SettlingForms ==
  ASSUME Settled, NEW s \in Session,
         Leave!Settling(s) \/ Leave!EndRequest(s) \/ Leave!Die(s)
  PROVE  mine' = mine /\ (Alone \/ SettlementStep(s))
<1>t. SettlementTyped /\ SettlementJobsTyped BY DEF Settled
<1>d. /\ db["periods"] \in Seq(Leave!LeavePeriod) /\ db["debt"] \in Nat
      /\ db["settlement"] \in Leave!SettlementRow \cup {Absent}
      /\ db["items"] \in Int /\ db["mora items"] \in Nat /\ cut \in BOOLEAN
      /\ db["tenure"] \in Leave!Tenure
  BY <1>t DEF SettlementTyped, TenureTyped
<1>r. {"settlement", "items", "mora items"} \subseteq Leave!Row BY DEF Leave!Row
<1>1. CASE Leave!StartSettlement(s)
  <2>1. /\ at[s] = "idle" /\ db' = db /\ cut' = cut /\ mine' = mine /\ Moves(s, "preview", << >>)
    BY <1>1 DEF Leave!StartSettlement, Leave!Starts, Leave!Begin, Leave!Goto, Moves
  <2>2. SettlementJob("preview", << >>) BY DEF SettlementJob, SettlementLabels
  <2>3. GoesOn(s) BY <2>1, <2>2 DEF GoesOn, SettlementLabels
  <2> QED BY <2>1, <2>3 DEF SettlementStep
<1>2. CASE Leave!ReadBenefits(s)
  <2> DEFINE j == Leave!Due(Leave!Served, Leave!OfDeposits, db["periods"], TRUE)
  <2>1. at[s] = "preview" /\ cut' = cut /\ Leave!Look(s, "discounts", j)
    BY <1>2 DEF Leave!ReadBenefits
  <2>2. j \in Bill BY <1>t, <1>d, MoneyIs, DueIsBill DEF Leave!Served
  <2> HIDE DEF j
  <2>3. SettlementJob("discounts", j) BY <2>2 DEF SettlementJob, SettlementLabels
  <2>4. GoesOn(s) /\ mine' = mine BY <2>1, <2>3, LooksOn DEF SettlementLabels
  <2> QED BY <2>4 DEF SettlementStep
<1>3. CASE Leave!ReadDiscounts(s)
  <2> DEFINE j == Leave!Draft(job[s], Leave!Approved, db["debt"])
  <2>1. at[s] = "discounts" /\ cut' = cut /\ Leave!Look(s, "header", j)
    BY <1>3 DEF Leave!ReadDiscounts
  <2>2. job[s] \in Bill BY <1>t, <2>1 DEF SettlementJobsTyped, SettlementJob
  <2>3. j \in Bill BY <1>t, <1>d, <2>2, MoneyIs, DraftIsBill
  <2> HIDE DEF j
  <2>4. SettlementJob("header", j) BY <2>3 DEF SettlementJob, SettlementLabels
  <2>5. GoesOn(s) /\ mine' = mine BY <2>1, <2>4, LooksOn DEF SettlementLabels
  <2> QED BY <2>5 DEF SettlementStep
<1>4. CASE Leave!InsertHeader(s)
  <2>1. at[s] = "header" /\ cut' = cut BY <1>4 DEF Leave!InsertHeader
  <2>2. CASE db["settlement"] # Absent
    <3>1. Leave!Rollback(s) BY <1>4, <2>2 DEF Leave!InsertHeader
    <3>2. GoesOn(s) /\ mine' = mine BY <1>t, <2>1, <3>1, EndsOf
    <3> QED BY <3>2 DEF SettlementStep
  <2>3. CASE db["settlement"] = Absent
    <3> DEFINE v == [subtotal |-> Leave!Total(job[s]), status |-> "calculada", mora |-> 0, paid |-> 0]
    <3>1. Leave!Apply(s, [r \in {"settlement"} |-> v], "items", job[s])
      BY <1>4, <2>3 DEF Leave!InsertHeader
    <3> HIDE DEF v
    <3>2. db' = [db EXCEPT !["settlement"] = v] /\ mine' = mine /\ Moves(s, "items", job[s])
      BY <1>t, <1>r, <3>1, OneRowOfLeave DEF Leave!Apply, Leave!Goto, Moves
    <3>3. Heads(s) BY <2>1, <2>3, <3>2 DEF Heads, v
    <3> QED BY <3>2, <3>3 DEF SettlementStep
  <2> QED BY <2>2, <2>3
<1>5. CASE Leave!InsertItem(s)
  <2> DEFINE v == db["items"] + Head(job[s]).amount
             l == IF Len(job[s]) = 1 THEN "commit" ELSE "items"
  <2>1. at[s] = "items" /\ cut' = cut
        /\ Leave!Apply(s, [r \in {"items"} |-> db[r] + Head(job[s]).amount], l, Tail(job[s]))
    BY <1>5 DEF Leave!InsertItem
  <2>2. [r \in {"items"} |-> db[r] + Head(job[s]).amount] = [r \in {"items"} |-> v] OBVIOUS
  <2> HIDE DEF v, l
  <2>3. Leave!Apply(s, [r \in {"items"} |-> v], l, Tail(job[s])) BY <2>1, <2>2
  <2>4. db' = [db EXCEPT !["items"] = v] /\ mine' = mine /\ Moves(s, l, Tail(job[s]))
    BY <1>t, <1>r, <2>3, OneRowOfLeave DEF Leave!Apply, Leave!Goto, Moves
  <2>5. Lists(s) BY <2>1, <2>4 DEF Lists, v, l
  <2> QED BY <2>4, <2>5 DEF SettlementStep
<1>6. CASE Leave!StartPay(s)
  <2>1. PICK d \in TenDays :
          /\ db["settlement"] # Absent
          /\ Leave!Starts(s, "pay", [day |-> d, mora |-> Leave!Mora(db["settlement"].subtotal, 5, d)])
    BY <1>6 DEF Leave!StartPay
  <2> DEFINE m == Leave!Mora(db["settlement"].subtotal, 5, d)
             j == [day |-> d, mora |-> m]
  <2>2. d \in Nat BY SettlementAssumed
  <2>3. db["settlement"].subtotal \in Int BY <1>d, <2>1 DEF Leave!SettlementRow
  <2>4. m \in Int BY <2>2, <2>3, MoraIs
  <2> HIDE DEF m
  <2>5. j \in PaymentOf /\ j.day = d /\ j.mora = m BY <2>2, <2>4 DEF PaymentOf
  <2>6. Leave!Starts(s, "pay", j) BY <2>1 DEF m
  <2> HIDE DEF j
  <2>7. /\ at[s] = "idle" /\ db' = db /\ cut' = cut /\ mine' = mine /\ Moves(s, "pay", j)
    BY <2>6 DEF Leave!Starts, Leave!Begin, Leave!Goto, Moves
  <2>8. SettlementJob("pay", j) BY <2>5 DEF SettlementJob, SettlementLabels
  <2>9. db["settlement"] # Absent /\ j.mora = Leave!Mora(db["settlement"].subtotal, 5, j.day)
    BY <2>1, <2>5 DEF m
  <2>10. GoesOn(s) BY <2>7, <2>8, <2>9 DEF GoesOn, SettlementLabels
  <2> QED BY <2>7, <2>10 DEF SettlementStep
<1>7. CASE Leave!WritePaid(s)
  <2>1. at[s] = "pay" /\ cut' = cut BY <1>7 DEF Leave!WritePaid
  <2>2. job[s] \in PaymentOf BY <1>t, <2>1 DEF SettlementJobsTyped, SettlementJob
  <2>3. CASE job[s].mora < 0
    <3>1. Leave!Rollback(s) BY <1>7, <2>3 DEF Leave!WritePaid
    <3>2. GoesOn(s) /\ mine' = mine BY <1>t, <2>1, <3>1, EndsOf
    <3> QED BY <3>2 DEF SettlementStep
  <2>4. CASE ~(job[s].mora < 0)
    <3> DEFINE v == [db["settlement"] EXCEPT !.status = "pagada", !.mora = job[s].mora,
                                             !.paid = job[s].day]
               l == IF job[s].mora > 0 THEN "interest" ELSE "commit"
    <3>1. Leave!Apply(s, [r \in {"settlement"} |->
                            [db[r] EXCEPT !.status = "pagada", !.mora = job[s].mora,
                                          !.paid = job[s].day]], l, job[s])
      BY <1>7, <2>4 DEF Leave!WritePaid
    <3>2. [r \in {"settlement"} |-> [db[r] EXCEPT !.status = "pagada", !.mora = job[s].mora,
                                                  !.paid = job[s].day]]
            = [r \in {"settlement"} |-> v]
      OBVIOUS
    <3>3. l \in {"interest", "commit"} OBVIOUS
    <3>0. job[s].mora >= 0 BY <2>2, <2>4 DEF PaymentOf
    <3> HIDE DEF v, l
    <3>4. Leave!Apply(s, [r \in {"settlement"} |-> v], l, job[s]) BY <3>1, <3>2
    <3>5. db' = [db EXCEPT !["settlement"] = v] /\ mine' = mine /\ Moves(s, l, job[s])
      BY <1>t, <1>r, <3>4, OneRowOfLeave DEF Leave!Apply, Leave!Goto, Moves
    <3>6. Pays(s) BY <2>1, <3>0, <3>3, <3>5 DEF Pays, v
    <3> QED BY <3>5, <3>6 DEF SettlementStep
  <2> QED BY <2>3, <2>4
<1>8. CASE Leave!InsertMora(s)
  <2> DEFINE v == db["mora items"] + 1
  <2>1. at[s] = "interest" /\ cut' = cut
        /\ Leave!Apply(s, [r \in {"mora items"} |-> db[r] + 1], "commit", job[s])
    BY <1>8 DEF Leave!InsertMora
  <2>2. [r \in {"mora items"} |-> db[r] + 1] = [r \in {"mora items"} |-> v] OBVIOUS
  <2>3. v \in Nat
    <3>1. db["mora items"] \in Nat BY <1>d
    <3>2. \A x \in Nat : x + 1 \in Nat OBVIOUS
    <3>3. db["mora items"] + 1 \in Nat BY <3>1, <3>2
    <3> QED BY <3>3
  <2> HIDE DEF v
  <2>4. Leave!Apply(s, [r \in {"mora items"} |-> v], "commit", job[s]) BY <2>1, <2>2
  <2>5. db' = [db EXCEPT !["mora items"] = v] /\ mine' = mine /\ Moves(s, "commit", job[s])
    BY <1>t, <1>r, <2>4, OneRowOfLeave DEF Leave!Apply, Leave!Goto, Moves
  <2>6. Notes(s) BY <2>1, <2>3, <2>5 DEF Notes, NotesRow, OfRow
  <2> QED BY <2>5, <2>6 DEF SettlementStep
<1>9. CASE Leave!Void(s)
  <2> DEFINE v == [db["settlement"] EXCEPT !.status = "anulada"]
  <2>1. db["settlement"] # Absent /\ Leave!Single(s, "settlement", v) BY <1>9 DEF Leave!Void
  <2> HIDE DEF v
  <2>2. db' = [db EXCEPT !["settlement"] = v] /\ mine' = mine /\ at' = at /\ job' = job /\ cut' = cut
    BY <2>1 DEF Leave!Single
  <2> QED BY <2>1, <2>2 DEF Alone, Voids, v
<1>10. CASE Leave!EndRequest(s)
  <2>1. at[s] = "commit" /\ cut' = cut /\ Leave!Commit(s) BY <1>10 DEF Leave!EndRequest
  <2>2. GoesOn(s) /\ mine' = mine BY <1>t, <2>1, EndsOf
  <2> QED BY <2>2 DEF SettlementStep
<1>11. CASE Leave!Die(s)
  <2>1. at[s] # "idle" /\ cut' = (cut \/ at[s] = "items") /\ Leave!Rollback(s)
    BY <1>11 DEF Leave!Die, Leave!Fail
  <2>2. [mine EXCEPT ![s] = Leave!Unwritten] = mine
    BY <1>t DEF SettlementTyped, Unwritten, Leave!Unwritten
  <2>3. db' = db /\ mine' = mine /\ Moves(s, "idle", NoJob)
    BY <2>1, <2>2 DEF Leave!Rollback, Leave!Goto, Moves
  <2> QED BY <2>1, <2>3 DEF Dies, SettlementStep
<1> QED
  BY <1>1, <1>2, <1>3, <1>4, <1>5, <1>6, <1>7, <1>8, <1>9, <1>10, <1>11 DEF Leave!Settling

\* And all of them.
LEMMA SettlementForms ==
  ASSUME Settled, Leave!Next
  PROVE  mine' = mine /\ (Alone \/ \E s \in Session : SettlementStep(s))
<1>1. CASE Leave!Serve
  <2>1. PICK n \in IF Leave!Served.months < 3 THEN {28, 31} ELSE {30} :
          db' = [db EXCEPT !["tenure"] = [months |-> @.months + 1, days |-> @.days + n]]
    BY <1>1 DEF Leave!Serve
  <2>2. n \in {28, 30, 31} /\ (db["tenure"].months < 3 => n # 30) BY <2>1 DEF Leave!Served
  <2>3. mine' = mine /\ at' = at /\ job' = job /\ cut' = cut BY <1>1 DEF Leave!Serve
  <2>4. Works BY <2>1, <2>2, <2>3 DEF Works
  <2> QED BY <2>3, <2>4 DEF Alone
<1>2. ASSUME NEW s \in Session, Leave!Service(s) \/ Leave!WriteEnjoyed(s)
      PROVE  mine' = mine /\ (Alone \/ \E t \in Session : SettlementStep(t))
  BY <1>2, ServiceForms
<1>3. ASSUME NEW s \in Session, Leave!Settling(s) \/ Leave!EndRequest(s) \/ Leave!Die(s)
      PROVE  mine' = mine /\ (Alone \/ \E t \in Session : SettlementStep(t))
  BY <1>3, SettlingForms
<1> QED BY <1>1, <1>2, <1>3 DEF Leave!Next

-----------------------------------------------------------------------------
(* The steps keep what the settlement's rows and requests hold.             *)

RowTyped(x, v) ==
  /\ x = "tenure" => TenureTyped(v)
  /\ x \in {"deposits", "debt", "mora items"} => v \in Nat
  /\ x = "periods" => v \in Seq(Leave!LeavePeriod)
  /\ x = "advance" => v \in Leave!AdvanceRow \cup {Absent}
  /\ x = "settlement" => v \in Leave!SettlementRow \cup {Absent}
  /\ x = "items" => v \in Int

Replaces(x, v) == db' = [db EXCEPT ![x] = v]

\* A row that is written, and those that are not.
LEMMA SettlementRowWritten ==
  ASSUME SettlementTyped, NEW x \in Leave!Row, NEW v, RowTyped(x, v), mine' = mine,
         cut' \in BOOLEAN, Replaces(x, v)
  PROVE  SettlementTyped' /\ \A r \in Leave!Row : db'[r] = IF r = x THEN v ELSE db[r]
<1>1. DOMAIN db = Leave!Row BY DEF SettlementTyped
<1>2. DOMAIN db' = Leave!Row /\ db' = [r \in DOMAIN db' |-> db'[r]] BY <1>1 DEF Replaces
<1>3. \A r \in Leave!Row : db'[r] = IF r = x THEN v ELSE db[r] BY <1>1 DEF Replaces
<1>4. \A r \in Leave!Row : RowTyped(r, db[r]) BY DEF SettlementTyped, RowTyped
<1>5. \A r \in Leave!Row : RowTyped(r, db'[r]) BY <1>3, <1>4
<1>6. Leave!Row' = Leave!Row /\ Leave!LeavePeriod' = Leave!LeavePeriod BY DEF Leave!Row
<1>7. /\ TenureTyped(db'["tenure"]) /\ db'["deposits"] \in Nat
      /\ db'["periods"] \in Seq(Leave!LeavePeriod)
      /\ db'["advance"] \in Leave!AdvanceRow \cup {Absent} /\ db'["debt"] \in Nat
      /\ db'["settlement"] \in Leave!SettlementRow \cup {Absent}
      /\ db'["items"] \in Int /\ db'["mora items"] \in Nat
  <2>1. {"tenure", "deposits", "periods", "advance", "debt", "settlement", "items", "mora items"}
          \subseteq Leave!Row
    BY DEF Leave!Row
  <2>2. TenureTyped(db'["tenure"]) BY <1>5, <2>1 DEF RowTyped
  <2>3. db'["deposits"] \in Nat /\ db'["debt"] \in Nat /\ db'["mora items"] \in Nat
    BY <1>5, <2>1 DEF RowTyped
  <2>4. db'["periods"] \in Seq(Leave!LeavePeriod) BY <1>5, <2>1 DEF RowTyped
  <2>5. db'["advance"] \in Leave!AdvanceRow \cup {Absent} BY <1>5, <2>1 DEF RowTyped
  <2>6. db'["settlement"] \in Leave!SettlementRow \cup {Absent} BY <1>5, <2>1 DEF RowTyped
  <2>7. db'["items"] \in Int BY <1>5, <2>1 DEF RowTyped
  <2> QED BY <2>2, <2>3, <2>4, <2>5, <2>6, <2>7
<1>8. mine' = [s \in Session |-> Unwritten'] BY DEF SettlementTyped, Unwritten
<1>9. TenureTyped(db["tenure"])' BY <1>7 DEF TenureTyped
<1>10. SettlementTyped'
  BY <1>2, <1>6, <1>7, <1>8, <1>9 DEF SettlementTyped
<1> QED BY <1>3, <1>10

\* The same where no row is.
LEMMA SettlementUnwritten ==
  ASSUME SettlementTyped, mine' = mine, cut' \in BOOLEAN, db' = db
  PROVE  SettlementTyped'
BY DEF SettlementTyped, Unwritten, Leave!Row, TenureTyped

\* What one request does leaves the others' jobs as they are.
LEMMA SettlementJobMoves ==
  ASSUME SettlementJobsTyped, NEW s \in Session, NEW l, NEW j, Moves(s, l, j), SettlementJob(l, j)
  PROVE  /\ SettlementJobsTyped'
         /\ at'[s] = l /\ job'[s] = j
         /\ \A t \in Session \ {s} : at'[t] = at[t] /\ job'[t] = job[t]
<1>1. /\ DOMAIN at = Session /\ DOMAIN job = Session /\ at = [t \in Session |-> at[t]]
      /\ \A t \in Session : SettlementJob(at[t], job[t])
  BY DEF SettlementJobsTyped
<1>2. /\ DOMAIN at' = Session /\ DOMAIN job' = Session /\ at' = [t \in Session |-> at'[t]]
      /\ at'[s] = l /\ job'[s] = j
      /\ \A t \in Session \ {s} : at'[t] = at[t] /\ job'[t] = job[t]
  BY <1>1 DEF Moves
<1>3. \A t \in Session : SettlementJob(at'[t], job'[t]) BY <1>1, <1>2
<1>4. \A t \in Session : SettlementJob(at[t], job[t])'
  BY <1>3 DEF SettlementJob, SettlementLabels, Bill, ItemRow, ItemCode, PaymentOf
<1> QED BY <1>2, <1>4 DEF SettlementJobsTyped

\* Nothing of the settlement and of its items changes, and who began to pay has read it.
LEMMA SettlesOn ==
  ASSUME Settles, cut' = cut,
         db'["settlement"] = db["settlement"], db'["items"] = db["items"],
         \A t \in Session : at'[t] = "items" <=> at[t] = "items",
         \A t \in Session : at[t] = "items" => job'[t] = job[t],
         \A t \in Session : at'[t] = "pay" =>
           \/ at[t] = "pay" /\ job'[t] = job[t]
           \/ /\ db["settlement"] # Absent
              /\ job'[t].mora = MoraOf(db["settlement"].subtotal, job'[t].day)
  PROVE  Settles'
<1> USE DEF Settles
<1>1. \A s, t \in Session : at'[s] = "items" /\ at'[t] = "items" => s = t OBVIOUS
<1>2. db'["settlement"] = Absent =>
        /\ db'["items"] = 0 /\ ~cut'
        /\ \A t \in Session : at'[t] \notin {"items", "pay"}
  OBVIOUS
<1>3. ASSUME db'["settlement"] # Absent
      PROVE  /\ db'["settlement"].mora = MoraOf(db'["settlement"].subtotal, db'["settlement"].paid)
             /\ \A t \in Session : at'[t] = "pay" =>
                  job'[t].mora = MoraOf(db'["settlement"].subtotal, job'[t].day)
             /\ \A t \in Session : at'[t] = "items" =>
                  db'["items"] + Leave!Total(job'[t]) = db'["settlement"].subtotal
             /\ (\A t \in Session : at'[t] # "items") /\ ~cut' =>
                  db'["settlement"].subtotal = db'["items"]
  <2>1. db["settlement"] # Absent BY <1>3
  <2>2. \A t \in Session : at'[t] = "items" =>
          db'["items"] + Leave!Total(job'[t]) = db'["settlement"].subtotal
    BY <2>1
  <2>3. (\A t \in Session : at'[t] # "items") /\ ~cut' =>
          db'["settlement"].subtotal = db'["items"]
    BY <2>1
  <2> QED BY <2>1, <2>2, <2>3
<1> QED BY <1>1, <1>2, <1>3

\* What no request does, or no more than a statement of one.
LEMMA AloneKeeps ==
  ASSUME Settled, mine' = mine, Alone
  PROVE  Settled'
<1>t. SettlementTyped /\ SettlementJobsTyped /\ Settles BY DEF Settled
<1>c. cut \in BOOLEAN /\ db["settlement"] \in Leave!SettlementRow \cup {Absent}
  BY <1>t DEF SettlementTyped
<1>r. /\ "tenure" \in Leave!Row /\ "settlement" \in Leave!Row /\ "items" \in Leave!Row
      /\ \A x \in {"deposits", "debt", "mora items", "periods", "advance"} : x \in Leave!Row
  BY DEF Leave!Row
<1>b. cut' = cut => cut' \in BOOLEAN BY <1>c
<1>y. SettlementTyped BY <1>t
<1>0. at' = at /\ job' = job /\ cut' = cut BY DEF Alone, Works, Voids, NotesRow
<1>1. SettlementJobsTyped'
  BY <1>t, <1>0
  DEF SettlementJobsTyped, SettlementJob, SettlementLabels, Bill, ItemRow, ItemCode, PaymentOf
<1>2. CASE Works
  <2> DEFINE t == db["tenure"]
  <2>1. PICK n \in {28, 30, 31} :
          /\ t.months < 3 => n # 30
          /\ db' = [db EXCEPT !["tenure"] = [months |-> t.months + 1, days |-> t.days + n]]
    BY <1>2 DEF Works
  <2> DEFINE v == [months |-> t.months + 1, days |-> t.days + n]
  <2>2. TenureTyped(t) BY <1>t DEF SettlementTyped
  <2>3. TenureTyped(v)
    <3>1. t.months \in Nat /\ t.days \in Nat /\ (t.months < 3 => t.days <= 31 * t.months)
      BY <2>2 DEF TenureTyped, Leave!Tenure
    <3>2. v.months = t.months + 1 /\ v.days = t.days + n OBVIOUS
    <3>3. v \in Leave!Tenure BY <3>1 DEF Leave!Tenure
    <3> HIDE DEF v, t
    <3>4. v.months < 3 => v.days <= 31 * v.months BY <3>1, <3>2
    <3> QED BY <3>3, <3>4 DEF TenureTyped
  <2> HIDE DEF v, t
  <2>4. Replaces("tenure", v) BY <2>1 DEF v, Replaces
  <2>5. RowTyped("tenure", v) BY <2>3 DEF RowTyped
  <2>6. SettlementTyped' /\ \A r \in Leave!Row : db'[r] = IF r = "tenure" THEN v ELSE db[r]
    <3>1. cut' \in BOOLEAN /\ "tenure" \in Leave!Row BY <1>b, <1>r, <1>0
    <3> QED BY <1>y, <3>1, <2>4, <2>5, SettlementRowWritten
  <2>7. db'["settlement"] = db["settlement"] /\ db'["items"] = db["items"] BY <1>r, <2>6
  <2>8. Settles' BY <1>t, <1>0, <2>7, SettlesOn
  <2> QED BY <1>1, <2>6, <2>8 DEF Settled
<1>3. CASE NotesRow /\ at' = at /\ job' = job
  <2>1. PICK x \in {"deposits", "debt", "mora items", "periods", "advance"} : \E v :
          OfRow(x, v) /\ db' = [db EXCEPT ![x] = v]
    BY <1>3 DEF NotesRow
  <2>2. PICK v : OfRow(x, v) /\ db' = [db EXCEPT ![x] = v] BY <2>1
  <2>3. RowTyped(x, v) BY <2>2 DEF OfRow, RowTyped
  <2>4. SettlementTyped' /\ \A r \in Leave!Row : db'[r] = IF r = x THEN v ELSE db[r]
    <3>1. cut' \in BOOLEAN /\ x \in Leave!Row /\ Replaces(x, v)
      BY <1>b, <1>r, <1>0, <2>2 DEF Replaces
    <3> QED BY <1>y, <3>1, <2>3, SettlementRowWritten
  <2>5. db'["settlement"] = db["settlement"] /\ db'["items"] = db["items"] BY <1>r, <2>4
  <2>6. Settles' BY <1>t, <1>0, <2>5, SettlesOn
  <2> QED BY <1>1, <2>4, <2>6 DEF Settled
<1>4. CASE Voids
  <2> DEFINE v == [db["settlement"] EXCEPT !.status = "anulada"]
  <2>1. db["settlement"] # Absent /\ db' = [db EXCEPT !["settlement"] = v] BY <1>4 DEF Voids
  <2>2. db["settlement"] \in Leave!SettlementRow BY <1>c, <2>1
  <2>3. /\ v \in Leave!SettlementRow /\ v.subtotal = db["settlement"].subtotal
        /\ v.mora = db["settlement"].mora /\ v.paid = db["settlement"].paid
    BY <2>2 DEF Leave!SettlementRow
  <2> HIDE DEF v
  <2>4. v # Absent BY <2>3, SettlementAssumed
  <2>5. RowTyped("settlement", v) BY <2>3 DEF RowTyped
  <2>6. SettlementTyped' /\ \A r \in Leave!Row : db'[r] = IF r = "settlement" THEN v ELSE db[r]
    <3>1. cut' \in BOOLEAN /\ "settlement" \in Leave!Row /\ Replaces("settlement", v)
      BY <1>b, <1>r, <1>0, <2>1 DEF Replaces
    <3> QED BY <1>y, <3>1, <2>5, SettlementRowWritten
  <2>7. db'["settlement"] = v /\ db'["items"] = db["items"] BY <1>r, <2>6
  <2>8. Settles' BY <1>t, <1>0, <2>1, <2>3, <2>4, <2>7 DEF Settles
  <2> QED BY <1>1, <2>6, <2>8 DEF Settled
<1> QED BY <1>2, <1>3, <1>4 DEF Alone

\* What a request does.
LEMMA StepKeeps ==
  ASSUME Settled, mine' = mine, NEW s \in Session, SettlementStep(s)
  PROVE  Settled'
<1>t. SettlementTyped /\ SettlementJobsTyped /\ Settles BY DEF Settled
<1>c. /\ cut \in BOOLEAN /\ db["settlement"] \in Leave!SettlementRow \cup {Absent}
      /\ db["items"] \in Int
  BY <1>t DEF SettlementTyped
<1>j. at[s] \in SettlementLabels /\ SettlementJob(at[s], job[s])
  BY <1>t DEF SettlementJobsTyped, SettlementJob
<1>r. /\ "tenure" \in Leave!Row /\ "settlement" \in Leave!Row /\ "items" \in Leave!Row
      /\ \A x \in {"deposits", "debt", "mora items", "periods", "advance"} : x \in Leave!Row
  BY DEF Leave!Row
<1>b. cut' = cut => cut' \in BOOLEAN BY <1>c
<1>y. SettlementTyped BY <1>t
<1>1. CASE Notes(s)
  <2>1. PICK x \in {"deposits", "debt", "mora items", "periods", "advance"} : \E v :
          OfRow(x, v) /\ db' = [db EXCEPT ![x] = v]
    BY <1>1 DEF Notes, NotesRow
  <2>2. PICK v : OfRow(x, v) /\ db' = [db EXCEPT ![x] = v] BY <2>1
  <2>3. RowTyped(x, v) BY <2>2 DEF OfRow, RowTyped
  <2>0. cut' = cut /\ at[s] \in {"enjoy", "interest"} /\ Moves(s, "commit", job[s])
    BY <1>1 DEF Notes, NotesRow
  <2>4. SettlementTyped' /\ \A r \in Leave!Row : db'[r] = IF r = x THEN v ELSE db[r]
    <3>1. cut' \in BOOLEAN /\ x \in Leave!Row /\ Replaces(x, v)
      BY <1>b, <1>r, <2>0, <2>2 DEF Replaces
    <3> QED BY <1>y, <3>1, <2>3, SettlementRowWritten
  <2>5. db'["settlement"] = db["settlement"] /\ db'["items"] = db["items"] BY <1>r, <2>4
  <2>6. SettlementJob("commit", job[s]) BY DEF SettlementJob, SettlementLabels
  <2>7. /\ SettlementJobsTyped' /\ at'[s] = "commit"
        /\ \A t \in Session \ {s} : at'[t] = at[t] /\ job'[t] = job[t]
    BY <1>t, <2>0, <2>6, SettlementJobMoves
  <2>8. Settles' BY <1>t, <2>0, <2>5, <2>7, SettlesOn
  <2> QED BY <2>4, <2>7, <2>8 DEF Settled
<1>2. CASE GoesOn(s)
  <2>0. db' = db /\ cut' = cut /\ at[s] # "items" BY <1>2 DEF GoesOn
  <2>1. PICK l \in SettlementLabels \ {"items"} : \E j :
          /\ Moves(s, l, j) /\ SettlementJob(l, j)
          /\ l = "pay" => /\ db["settlement"] # Absent
                          /\ j.mora = Leave!Mora(db["settlement"].subtotal, 5, j.day)
    BY <1>2 DEF GoesOn
  <2>2. PICK j : /\ Moves(s, l, j) /\ SettlementJob(l, j)
                 /\ l = "pay" => /\ db["settlement"] # Absent
                                 /\ j.mora = Leave!Mora(db["settlement"].subtotal, 5, j.day)
    BY <2>1
  <2>3. SettlementTyped' BY <1>t, <1>c, <2>0, SettlementUnwritten
  <2>4. /\ SettlementJobsTyped' /\ at'[s] = l /\ job'[s] = j
        /\ \A t \in Session \ {s} : at'[t] = at[t] /\ job'[t] = job[t]
    BY <1>t, <2>2, SettlementJobMoves
  <2>5. l = "pay" => j.mora = MoraOf(db["settlement"].subtotal, j.day)
    <3> SUFFICES ASSUME l = "pay" PROVE j.mora = MoraOf(db["settlement"].subtotal, j.day)
      OBVIOUS
    <3>1. db["settlement"].subtotal \in Int BY <1>c, <2>2 DEF Leave!SettlementRow
    <3>2. j.day \in Nat BY <2>2 DEF SettlementJob, PaymentOf
    <3>3. Leave!Mora(db["settlement"].subtotal, 5, j.day) = MoraOf(db["settlement"].subtotal, j.day)
      BY <3>1, <3>2, MoraIs
    <3> QED BY <2>2, <3>3
  <2>6. Settles' BY <1>t, <2>0, <2>2, <2>4, <2>5, SettlesOn
  <2> QED BY <2>3, <2>4, <2>6 DEF Settled
<1>3. CASE Dies(s)
  <2>0. at[s] # "idle" /\ db' = db /\ cut' = (cut \/ at[s] = "items") /\ Moves(s, "idle", NoJob)
    BY <1>3 DEF Dies
  <2>1. SettlementTyped' BY <1>t, <2>0, SettlementUnwritten
  <2>2. SettlementJob("idle", NoJob) BY DEF SettlementJob, SettlementLabels
  <2>3. /\ SettlementJobsTyped' /\ at'[s] = "idle"
        /\ \A t \in Session \ {s} : at'[t] = at[t] /\ job'[t] = job[t]
    BY <1>t, <2>0, <2>2, SettlementJobMoves
  <2>4. CASE at[s] # "items"
    <3>1. cut' = cut BY <1>c, <2>0, <2>4
    <3> QED BY <1>t, <2>0, <2>1, <2>3, <2>4, <3>1, SettlesOn DEF Settled
  <2>5. CASE at[s] = "items"
    <3>1. cut' = TRUE /\ db["settlement"] # Absent BY <1>t, <2>0, <2>5 DEF Settles
    <3>2. \A t \in Session : at'[t] # "items" BY <1>t, <2>3, <2>5 DEF Settles
    <3>3. Settles' BY <1>t, <2>0, <2>3, <3>1, <3>2 DEF Settles
    <3> QED BY <2>1, <2>3, <3>3 DEF Settled
  <2> QED BY <2>4, <2>5
<1>4. CASE Heads(s)
  <2> DEFINE v == [subtotal |-> Leave!Total(job[s]), status |-> "calculada", mora |-> 0, paid |-> 0]
  <2>1. /\ at[s] = "header" /\ db["settlement"] = Absent /\ cut' = cut
        /\ db' = [db EXCEPT !["settlement"] = v] /\ Moves(s, "items", job[s])
    BY <1>4 DEF Heads
  <2>2. job[s] \in Bill BY <1>j, <2>1 DEF SettlementJob
  <2>3. Leave!Total(job[s]) \in Int BY <2>2, TotalType DEF Bill
  <2>4. /\ v \in Leave!SettlementRow /\ v.subtotal = Leave!Total(job[s]) /\ v.mora = 0 /\ v.paid = 0
    BY <2>3 DEF Leave!SettlementRow
  <2> HIDE DEF v
  <2>5. v # Absent BY <2>4, SettlementAssumed
  <2>6. RowTyped("settlement", v) BY <2>4 DEF RowTyped
  <2>7. SettlementTyped' /\ \A r \in Leave!Row : db'[r] = IF r = "settlement" THEN v ELSE db[r]
    <3>1. cut' \in BOOLEAN /\ "settlement" \in Leave!Row /\ Replaces("settlement", v)
      BY <1>b, <1>r, <2>1 DEF Replaces
    <3> QED BY <1>y, <3>1, <2>6, SettlementRowWritten
  <2>8. db'["settlement"] = v /\ db'["items"] = db["items"] BY <1>r, <2>7
  <2>9. SettlementJob("items", job[s]) BY <2>2 DEF SettlementJob, SettlementLabels
  <2>10. /\ SettlementJobsTyped' /\ at'[s] = "items" /\ job'[s] = job[s]
         /\ \A t \in Session \ {s} : at'[t] = at[t] /\ job'[t] = job[t]
    BY <1>t, <2>1, <2>9, SettlementJobMoves
  <2>11. db["items"] = 0 /\ ~cut /\ \A t \in Session : at[t] \notin {"items", "pay"}
    BY <1>t, <2>1 DEF Settles
  <2>12. v.mora = MoraOf(v.subtotal, v.paid) BY <2>3, <2>4, MoraIs
  <2>13. db'["items"] + Leave!Total(job'[s]) = v.subtotal BY <2>3, <2>4, <2>8, <2>10, <2>11
  <2>14. Settles' BY <2>5, <2>8, <2>10, <2>11, <2>12, <2>13 DEF Settles
  <2> QED BY <2>7, <2>10, <2>14 DEF Settled
<1>5. CASE Lists(s)
  <2> DEFINE q == job[s]
             v == db["items"] + Head(q).amount
             l == IF Len(q) = 1 THEN "commit" ELSE "items"
  <2>1. /\ at[s] = "items" /\ cut' = cut
        /\ db' = [db EXCEPT !["items"] = v] /\ Moves(s, l, Tail(q))
    BY <1>5 DEF Lists
  <2>2. q \in Bill BY <1>j, <2>1 DEF SettlementJob
  <2>3. /\ Head(q).amount \in Int /\ Tail(q) \in Seq(ItemRow)
        /\ Leave!Total(q) = Head(q).amount + Leave!Total(Tail(q))
        /\ Len(q) = 1 => Tail(q) = << >>
        /\ Len(q) # 1 => Tail(q) \in Bill
    <3> HIDE DEF q
    <3> QED BY <2>2, TotalSplits
  <2>4. v \in Int BY <1>c, <2>3
  <2>5. Leave!Total(Tail(q)) \in Int BY <2>3, TotalType
  <2>6. db["settlement"] # Absent /\ db["items"] + Leave!Total(q) = db["settlement"].subtotal
    BY <1>t, <2>1 DEF Settles
  <2>7. v + Leave!Total(Tail(q)) = db["settlement"].subtotal
    <3> HIDE DEF q
    <3> QED BY <1>c, <2>3, <2>5, <2>6
  <2>8. l \in {"commit", "items"} /\ SettlementJob(l, Tail(q))
    BY <2>3 DEF SettlementJob, SettlementLabels
  <2>9. l = "commit" => v = db["settlement"].subtotal
    <3> SUFFICES ASSUME l = "commit" PROVE v = db["settlement"].subtotal
      OBVIOUS
    <3>1. Tail(q) = << >> BY <2>3
    <3>2. Leave!Total(Tail(q)) = 0 BY <3>1, TotalOfNone
    <3> HIDE DEF v, q
    <3> QED BY <2>4, <2>7, <3>2
  <2> HIDE DEF v, l, q
  <2>10. RowTyped("items", v) BY <2>4 DEF RowTyped
  <2>11. SettlementTyped' /\ \A r \in Leave!Row : db'[r] = IF r = "items" THEN v ELSE db[r]
    <3>1. cut' \in BOOLEAN /\ "items" \in Leave!Row /\ Replaces("items", v)
      BY <1>b, <1>r, <2>1 DEF Replaces
    <3> QED BY <1>y, <3>1, <2>10, SettlementRowWritten
  <2>12. db'["settlement"] = db["settlement"] /\ db'["items"] = v BY <1>r, <2>11
  <2>13. /\ SettlementJobsTyped' /\ at'[s] = l /\ job'[s] = Tail(q)
         /\ \A t \in Session \ {s} : at'[t] = at[t] /\ job'[t] = job[t]
    BY <1>t, <2>1, <2>8, SettlementJobMoves
  <2>14. \A t \in Session \ {s} : at'[t] # "items" BY <1>t, <2>1, <2>13 DEF Settles
  <2>15. Settles' BY <1>t, <2>1, <2>6, <2>7, <2>8, <2>9, <2>12, <2>13, <2>14 DEF Settles
  <2> QED BY <2>11, <2>13, <2>15 DEF Settled
<1>6. CASE Pays(s)
  <2> DEFINE v == [db["settlement"] EXCEPT !.status = "pagada", !.mora = job[s].mora,
                                           !.paid = job[s].day]
  <2>1. /\ at[s] = "pay" /\ job[s].mora >= 0 /\ cut' = cut
        /\ db' = [db EXCEPT !["settlement"] = v]
        /\ \E l \in {"interest", "commit"} : Moves(s, l, job[s])
    BY <1>6 DEF Pays
  <2>2. PICK l \in {"interest", "commit"} : Moves(s, l, job[s]) BY <2>1
  <2>3. job[s].day \in Nat /\ job[s].mora \in Int BY <1>j, <2>1 DEF SettlementJob, PaymentOf
  <2>4. db["settlement"] # Absent /\ job[s].mora = MoraOf(db["settlement"].subtotal, job[s].day)
    BY <1>t, <2>1 DEF Settles
  <2>5. db["settlement"] \in Leave!SettlementRow BY <1>c, <2>4
  <2>6. job[s].mora \in Nat BY <2>1, <2>3
  <2>7. /\ v \in Leave!SettlementRow /\ v.subtotal = db["settlement"].subtotal
        /\ v.mora = job[s].mora /\ v.paid = job[s].day
    BY <2>3, <2>5, <2>6 DEF Leave!SettlementRow
  <2> HIDE DEF v
  <2>8. v # Absent BY <2>7, SettlementAssumed
  <2>9. RowTyped("settlement", v) BY <2>7 DEF RowTyped
  <2>10. SettlementTyped' /\ \A r \in Leave!Row : db'[r] = IF r = "settlement" THEN v ELSE db[r]
    <3>1. cut' \in BOOLEAN /\ "settlement" \in Leave!Row /\ Replaces("settlement", v)
      BY <1>b, <1>r, <2>1 DEF Replaces
    <3> QED BY <1>y, <3>1, <2>9, SettlementRowWritten
  <2>11. db'["settlement"] = v /\ db'["items"] = db["items"] BY <1>r, <2>10
  <2>12. SettlementJob(l, job[s]) BY DEF SettlementJob, SettlementLabels
  <2>13. /\ SettlementJobsTyped' /\ at'[s] = l
         /\ \A t \in Session \ {s} : at'[t] = at[t] /\ job'[t] = job[t]
    BY <1>t, <2>2, <2>12, SettlementJobMoves
  <2>14. v.mora = MoraOf(v.subtotal, v.paid) BY <2>4, <2>7
  <2>15. Settles' BY <1>t, <2>1, <2>4, <2>7, <2>8, <2>11, <2>13, <2>14 DEF Settles
  <2> QED BY <2>10, <2>13, <2>15 DEF Settled
<1> QED BY <1>1, <1>2, <1>3, <1>4, <1>5, <1>6 DEF SettlementStep

-----------------------------------------------------------------------------
(* From the hiring on.                                                      *)

\* Every row but the length of the service is written by somebody else.
LEMMA SameService ==
  ASSUME Settled, ~Works, Alone \/ \E s \in Session : SettlementStep(s)
  PROVE  db'["tenure"] = db["tenure"]
<1>1. DOMAIN db = Leave!Row /\ "tenure" \in Leave!Row
  BY DEF Settled, SettlementTyped, Leave!Row
<1>2. ASSUME NotesRow PROVE db'["tenure"] = db["tenure"]
  <2>1. PICK x \in {"deposits", "debt", "mora items", "periods", "advance"} : \E v :
          db' = [db EXCEPT ![x] = v]
    BY <1>2 DEF NotesRow
  <2> QED BY <1>1, <2>1
<1>3. ASSUME NEW s \in Session, SettlementStep(s) PROVE db'["tenure"] = db["tenure"]
  <2>1. CASE Notes(s) BY <1>2, <2>1 DEF Notes
  <2>2. CASE GoesOn(s) BY <2>2 DEF GoesOn
  <2>3. CASE Heads(s) BY <1>1, <2>3 DEF Heads
  <2>4. CASE Lists(s) BY <1>1, <2>4 DEF Lists
  <2>5. CASE Pays(s) BY <1>1, <2>5 DEF Pays
  <2>6. CASE Dies(s) BY <2>6 DEF Dies
  <2> QED BY <1>3, <2>1, <2>2, <2>3, <2>4, <2>5, <2>6 DEF SettlementStep
<1>4. CASE Voids BY <1>1, <1>4 DEF Voids
<1> QED BY <1>2, <1>3, <1>4 DEF Alone

\* A month brings what it should.
LEMMA MonthAccrues ==
  ASSUME Settled, Alone \/ \E s \in Session : SettlementStep(s)
  PROVE  Leave!Accrues
<1>1. CASE ~Works
  <2>1. Leave!Served' = Leave!Served BY <1>1, SameService DEF Leave!Served
  <2> QED BY <2>1 DEF Leave!Accrues
<1>2. CASE Works
  <2> DEFINE t == db["tenure"]
  <2>1. PICK n \in {28, 30, 31} : db' = [db EXCEPT !["tenure"] = [months |-> t.months + 1,
                                                                  days |-> t.days + n]]
    BY <1>2 DEF Works
  <2> DEFINE u == [months |-> t.months + 1, days |-> t.days + n]
  <2>2. TenureTyped(t) /\ DOMAIN db = Leave!Row /\ "tenure" \in Leave!Row
    BY DEF Settled, SettlementTyped, Leave!Row
  <2>3. t \in Leave!Tenure /\ t.months \in Nat /\ t.days \in Nat /\ (t.months < 3 => t.days <= 31 * t.months)
    BY <2>2 DEF TenureTyped, Leave!Tenure
  <2>4. u \in Leave!Tenure /\ u.months = t.months + 1 /\ u.days >= t.days
    BY <2>3 DEF Leave!Tenure
  <2>5. db'["tenure"] = u BY <2>1, <2>2
  <2> HIDE DEF u
  <2>6. Leave!Served = t /\ Leave!Served' = u BY <2>5 DEF Leave!Served
  <2> HIDE DEF t
  <2> DEFINE d == LeaveDays((t.months \div 12) + 1)  gained == Leave!Leave(u) - Leave!Leave(t)
  <2>7. 12 * gained - 200 * d \in -48 .. 48 BY <2>3, <2>4, LeaveGrows
  <2>8. Leave!Severance(u, Leave!Deposited(u)) >= Leave!Severance(t, Leave!Deposited(t))
    BY <2>3, <2>4, SeveranceGrows
  <2>9. (t.months \div 12) + 1 \in Nat BY <2>3, MonthPasses
  <2>10. d \in Nat BY <2>9, LeaveDaysAre
  <2>11. (Leave!VacationDays(Leave!Years(t) + 1) + Leave!BonusVacationDays(Leave!Years(t) + 1))
            * 1 * Leave!Day = 200 * d
    <3>1. (Leave!VacationDays(Leave!Years(t) + 1) + Leave!BonusVacationDays(Leave!Years(t) + 1)) = d
      BY DEF LeaveDays, Leave!Years
    <3>2. Leave!Day = 200 BY DEF Leave!Day, Leave!Hundredth
    <3> HIDE DEF d
    <3>3. d * 1 * 200 = 200 * d BY <2>10
    <3> QED BY <3>1, <3>2, <3>3
  <2>12. -(12 * (2 * Leave!Hundredth * 1)) = -48 /\ 12 * (2 * Leave!Hundredth * 1) = 48
    BY DEF Leave!Hundredth
  <2> HIDE DEF d
  <2>13. 12 * (Leave!Leave(u) - Leave!Leave(t)) - 200 * d \in -48 .. 48 BY <2>7
  <2> QED BY <2>6, <2>8, <2>11, <2>12, <2>13 DEF Leave!Accrues
<1> QED BY <1>1, <1>2

\* When somebody is hired there is nothing yet.
LEMMA LeaveBegins == Init => LeaveInv
<1> SUFFICES ASSUME Leave!Init PROVE Settled
  BY DEF Init, LeaveInv
<1>1. /\ db = [r \in Leave!Row |->
                 CASE r = "tenure" -> [months |-> 0, days |-> 0]
                   [] r = "periods" -> << >>
                   [] r \in {"advance", "settlement"} -> Absent
                   [] r = "debt" -> 400
                   [] OTHER -> 0]
      /\ cut = FALSE
      /\ mine = [s \in Session |-> Leave!Unwritten]
      /\ at = [s \in Session |-> "idle"] /\ job = [s \in Session |-> NoJob]
  BY DEF Leave!Init, Leave!RequestsInit
<1>2. mine = [s \in Session |-> Unwritten] BY <1>1 DEF Unwritten, Leave!Unwritten
<1>3. DOMAIN db = Leave!Row /\ db = [r \in DOMAIN db |-> db[r]] BY <1>1
<1>4. /\ "tenure" \in Leave!Row /\ "deposits" \in Leave!Row /\ "periods" \in Leave!Row
      /\ "advance" \in Leave!Row /\ "debt" \in Leave!Row /\ "settlement" \in Leave!Row
      /\ "items" \in Leave!Row /\ "mora items" \in Leave!Row
  BY DEF Leave!Row
<1>5. db["tenure"] = [months |-> 0, days |-> 0] BY <1>1, <1>4
<1>6. db["periods"] = << >> BY <1>1, <1>4
<1>7. db["advance"] = Absent /\ db["settlement"] = Absent BY <1>1, <1>4
<1>8. db["debt"] = 400 /\ db["deposits"] = 0 /\ db["items"] = 0 /\ db["mora items"] = 0
  BY <1>1, <1>4
<1>9. TenureTyped(db["tenure"])
  <2> DEFINE t == db["tenure"]
  <2>1. t \in Leave!Tenure /\ t.months = 0 /\ t.days = 0 BY <1>5 DEF Leave!Tenure
  <2> HIDE DEF t
  <2>2. TenureTyped(t) BY <2>1 DEF TenureTyped
  <2> QED BY <2>2 DEF t
<1>10. db["periods"] \in Seq(Leave!LeavePeriod) BY <1>6
<1>11. SettlementTyped
  <2>1. cut \in BOOLEAN BY <1>1
  <2>2. db["advance"] \in Leave!AdvanceRow \cup {Absent} /\ db["settlement"] \in Leave!SettlementRow \cup {Absent}
    BY <1>7
  <2>3. db["debt"] \in Nat /\ db["deposits"] \in Nat /\ db["items"] \in Int /\ db["mora items"] \in Nat
    <3>1. 400 \in Nat /\ 0 \in Nat /\ 0 \in Int OBVIOUS
    <3> QED BY <1>8, <3>1
  <2> QED BY <1>2, <1>3, <1>9, <1>10, <2>1, <2>2, <2>3 DEF SettlementTyped
<1>12. SettlementJobsTyped
  BY <1>1 DEF SettlementJobsTyped, SettlementJob, SettlementLabels
<1>13. Settles BY <1>1, <1>7, <1>8 DEF Settles
<1> QED BY <1>11, <1>12, <1>13 DEF Settled

\* Every step keeps the invariant, and a month brings its share.
LEMMA LeaveSteps == LeaveInv /\ [Next]_vars => LeaveInv' /\ [part = "leave" => Leave!Accrues]_vars
<1> SUFFICES ASSUME LeaveInv, [Next]_vars
             PROVE  LeaveInv' /\ [part = "leave" => Leave!Accrues]_vars
  OBVIOUS
<1>1. CASE Next
  <2>1. part' = part BY <1>1 DEF Next
  <2>2. CASE part = "leave"
    <3>1. Settled BY <2>2 DEF LeaveInv
    <3>2. Leave!Next BY <1>1, <2>2 DEF Next
    <3>3. mine' = mine /\ (Alone \/ \E s \in Session : SettlementStep(s))
      BY <3>1, <3>2, SettlementForms
    <3>4. Settled' BY <3>1, <3>3, AloneKeeps, StepKeeps
    <3>5. Leave!Accrues BY <3>1, <3>3, MonthAccrues
    <3> QED BY <3>4, <3>5 DEF LeaveInv
  <2>3. CASE part # "leave" BY <2>1, <2>3 DEF LeaveInv
  <2> QED BY <2>2, <2>3
<1>2. CASE UNCHANGED vars
  <2>1. db' = db /\ mine' = mine /\ at' = at /\ job' = job /\ cut' = cut /\ part' = part
    BY <1>2 DEF vars
  <2> SUFFICES ASSUME part = "leave" PROVE Settled'
    BY <1>2, <2>1 DEF LeaveInv
  <2>2. SettlementTyped /\ SettlementJobsTyped /\ Settles BY DEF LeaveInv, Settled
  <2>3. cut' \in BOOLEAN BY <2>1, <2>2 DEF SettlementTyped
  <2>4. SettlementTyped' BY <2>1, <2>2, <2>3, SettlementUnwritten
  <2>5. SettlementJobsTyped'
    BY <2>1, <2>2
    DEF SettlementJobsTyped, SettlementJob, SettlementLabels, Bill, ItemRow, ItemCode, PaymentOf
  <2>6. Settles' BY <2>1, <2>2, SettlesOn
  <2> QED BY <2>4, <2>5, <2>6 DEF Settled
<1> QED BY <1>1, <1>2

\* For any number of requests, months of service and moments to leave at: the header of a
\* settlement is the sum of its items once they are all written, and the interest that was
\* paid is what the rate of each day gives, whoever else tries to make a settlement and
\* whatever is repaid, approved, voided or paid again meanwhile.
THEOREM SettlementAlwaysAddsUp == Spec => []SettlementAddsUp
<1>1. LeaveInv => SettlementAddsUp
  BY DEF LeaveInv, SettlementAddsUp, Leave!SettlementAddsUp, Settled, Settles, MoraOf
<1>2. LeaveInv /\ [Next]_vars => LeaveInv' BY LeaveSteps
<1> QED BY <1>1, <1>2, LeaveBegins, PTL DEF Spec

\* A longer service never brings less severance, and every month of it a twelfth of the
\* leave of the year it belongs to, to within a hundredth of a day for the vacation and
\* one for its bonus, however long it lasts: an action property.
THEOREM BenefitsAlwaysAccrue == Spec => BenefitsAccrue
BY LeaveBegins, LeaveSteps, PTL DEF Spec, BenefitsAccrue

=============================================================================
