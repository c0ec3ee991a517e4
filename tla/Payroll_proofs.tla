--------------------------- MODULE Payroll_proofs ---------------------------
(***************************************************************************)
(* What holds of Payroll for any number of sheets, employees, debts and    *)
(* requests: every debt adds up, and a sheet closes once.                  *)
(***************************************************************************)
EXTENDS Payroll, Sums, TLAPS

Slot == Sheet \X Employee \X Session

PayJob == [sheet : Sheet, left : SUBSET Employee, cuts : [Debt -> Nat], due : SUBSET Debt]

Label == {"idle", "lend", "hand", "detail", "cut", "close", "commit"}

\* A payroll is under way.
Busy(s) == at[s] \in {"detail", "cut", "close"}

-----------------------------------------------------------------------------
(* The inductive invariant of the debts.                                    *)

Kinds ==
  /\ DOMAIN db = Row /\ TypeOK
  /\ DOMAIN mine = Session /\ DOMAIN job = Session
  /\ at \in [Session -> Label] /\ calm \in BOOLEAN

\* What a request works on is there, and so is what it takes instalments from.
Labelled(s) ==
  /\ at[s] = "lend" => job[s] \in [debt : Debt]
  /\ at[s] = "hand" => job[s] \in [debt : Debt, amount : Nat] /\ Exists(job[s].debt)
  /\ Busy(s) => /\ job[s] \in PayJob /\ Exists(job[s].sheet)
                /\ \A d \in Debt : job[s].cuts[d] > 0 => Exists(d)

\* The debts of e that the payroll of s reduces.
Own(s, e) == {d \in Debt : Debtor[d] = e /\ job[s].cuts[d] > 0}

\* Between the detail of e and its COMMIT a session has written the detail,
\* with all it takes, and has taken from the debts that are no longer due.
Holds(s, e) ==
  LET r == Details(job[s].sheet, e, s) IN
  /\ job[s].due \subseteq Own(s, e) /\ e \notin job[s].left
  /\ DOMAIN mine[s] = {r} \cup (Own(s, e) \ job[s].due)
  /\ mine[s][r] \in DetailRow /\ mine[s][r].count = db[r].count + 1
  /\ \A d \in Debt :
       mine[s][r].taken[d] = db[r].taken[d] + (IF Debtor[d] = e THEN job[s].cuts[d] ELSE 0)
  /\ \A d \in Own(s, e) \ job[s].due :
       /\ mine[s][d] \in DebtRow /\ mine[s][d].balance >= 0
       /\ mine[s][d].balance = db[d].balance - job[s].cuts[d]
       /\ mine[s][d].handed = db[d].handed

\* Otherwise it has written nothing that is not committed.
Held(s) == IF at[s] = "cut" THEN \E e \in Employee : Holds(s, e) ELSE DOMAIN mine[s] = {}

Apart == \A s, t \in Session : s # t => DOMAIN mine[s] \cap DOMAIN mine[t] = {}

\* A debt that is not there yet has nothing taken from it.
BookOf(d) ==
  IF Exists(d) THEN /\ db[d].balance >= 0
                    /\ db[d].balance + db[d].handed + TakenFrom(d) = Loan
  ELSE TakenFrom(d) = 0

Books == \A d \in Debt : BookOf(d)

Sound == /\ Kinds /\ Apart /\ Books
         /\ \A s \in Session : Labelled(s) /\ Held(s)

-----------------------------------------------------------------------------
(* Rows and sums.                                                           *)

\* Sheets, debts and details are different rows.
LEMMA RowsApart ==
  ASSUME PayrollConstants
  PROVE  /\ \A w \in Sheet : w \notin Debt /\ w \notin Slot
         /\ \A d \in Debt : d \notin Sheet /\ d \notin Slot
         /\ \A w \in Sheet, e \in Employee, s \in Session : Details(w, e, s) \in Slot
         /\ Row = Sheet \cup Debt \cup Slot
BY DEF PayrollConstants, Slot, Details, Row

\* There are finitely many details.
LEMMA SlotsFinite == ASSUME PayrollConstants PROVE IsFiniteSet(Slot)
<1>1. IsFiniteSet((Sheet \X Employee) \X Session)
  BY FS_Product DEF PayrollConstants
<1> DEFINE f == [x \in (Sheet \X Employee) \X Session |-> <<x[1][1], x[1][2], x[2]>>]
<1>2. f \in Surjection((Sheet \X Employee) \X Session, Slot)
  <2>1. f \in [(Sheet \X Employee) \X Session -> Slot] BY DEF Slot
  <2>2. ASSUME NEW r \in Slot PROVE \E x \in (Sheet \X Employee) \X Session : f[x] = r
    <3>1. PICK w \in Sheet, e \in Employee, s \in Session : r = <<w, e, s>> BY DEF Slot
    <3>2. <<<<w, e>>, s>> \in (Sheet \X Employee) \X Session OBVIOUS
    <3>3. f[<<<<w, e>>, s>>] = r BY <3>1, <3>2
    <3> QED BY <3>2, <3>3
  <2> HIDE DEF f
  <2> QED BY <2>1, <2>2 DEF Surjection
<1> HIDE DEF f
<1> QED BY <1>1, <1>2, FS_Surjection

\* What is taken from a debt is a sum over the details.
LEMMA TakenSum ==
  ASSUME NEW d
  PROVE  TakenFrom(d) = SumFunctionOnSet([r \in Slot |-> db[r].taken[d]], Slot)
BY DEF TakenFrom, SumFunction, Slot

\* The same, after the step.
LEMMA TakenSumNext ==
  ASSUME NEW d
  PROVE  TakenFrom(d)' = SumFunctionOnSet([r \in Slot |-> db'[r].taken[d]], Slot)
BY DEF TakenFrom, SumFunction, Slot

\* It is a number, and stays where no detail takes more.
LEMMA TakenKept ==
  ASSUME PayrollConstants, Kinds, NEW d \in Debt,
         \A r \in Slot : db'[r].taken[d] = db[r].taken[d]
  PROVE  TakenFrom(d)' = TakenFrom(d) /\ TakenFrom(d) \in Int
<1> DEFINE f == [r \in Slot |-> db[r].taken[d]]  g == [r \in Slot |-> db'[r].taken[d]]
<1>1. \A r \in Slot : f[r] \in Int /\ f[r] = g[r]
  BY DEF Kinds, TypeOK, Slot, DetailRow
<1>2. SumFunctionOnSet(f, Slot) = SumFunctionOnSet(g, Slot)
  <2> HIDE DEF f, g
  <2> QED BY <1>1, SlotsFinite, SumSame
<1>3. SumFunctionOnSet(f, Slot) \in Int
  <2> HIDE DEF f, g
  <2> QED BY <1>1, SlotsFinite, SumType
<1> QED BY <1>2, <1>3, TakenSum, TakenSumNext

\* Where one detail takes n more, so does the sum.
LEMMA TakenMore ==
  ASSUME PayrollConstants, Kinds, NEW d \in Debt, NEW r \in Slot, NEW n \in Nat,
         \A x \in Slot \ {r} : db'[x].taken[d] = db[x].taken[d],
         db'[r].taken[d] = db[r].taken[d] + n
  PROVE  TakenFrom(d)' = TakenFrom(d) + n /\ TakenFrom(d) \in Int
<1> DEFINE f == [x \in Slot |-> db[x].taken[d]]  g == [x \in Slot |-> db'[x].taken[d]]
<1>1. \A x \in Slot : f[x] \in Int
  BY DEF Kinds, TypeOK, Slot, DetailRow
<1>2. \A x \in Slot \ {r} : g[x] = f[x] OBVIOUS
<1>3. g[r] = f[r] + n /\ f[r] \in Int BY <1>1
<1>4. \A x \in Slot : f[x] \in Int /\ g[x] \in Int BY <1>1, <1>2, <1>3
<1>5. SumFunctionOnSet(f, Slot) \in Int
  <2> HIDE DEF f, g
  <2> QED BY <1>1, SlotsFinite, SumType
<1>6. SumFunctionOnSet(g, Slot) = SumFunctionOnSet(f, Slot) + (g[r] - f[r])
  <2> HIDE DEF f, g
  <2>1. IsFiniteSet(Slot) /\ r \in Slot BY SlotsFinite
  <2>2. \A x \in Slot : f[x] \in Int /\ g[x] \in Int BY <1>4
  <2>3. \A x \in Slot \ {r} : g[x] = f[x] BY <1>2
  <2> HIDE DEF Slot
  <2> QED BY ONLY <2>1, <2>2, <2>3, SumChanges
<1>7. g[r] - f[r] = n
  <2> HIDE DEF f, g
  <2> QED BY <1>3
<1> HIDE DEF f, g
<1>8. TakenFrom(d) = SumFunctionOnSet(f, Slot) BY TakenSum DEF f
<1>9. TakenFrom(d)' = SumFunctionOnSet(g, Slot) BY TakenSumNext DEF g
<1> QED BY <1>5, <1>6, <1>7, <1>8, <1>9

-----------------------------------------------------------------------------
(* Steps.                                                                   *)

\* What the others work on stays as it is.
Others(s) ==
  /\ DOMAIN mine' = Session /\ DOMAIN job' = Session /\ at' \in [Session -> Label]
  /\ \A t \in Session \ {s} : mine'[t] = mine[t] /\ at'[t] = at[t] /\ job'[t] = job[t]

\* Only s moves.
LEMMA GotoMoves ==
  ASSUME Kinds, NEW s \in Session, NEW label \in Label, NEW j, Goto(s, label, j)
  PROVE  /\ at'[s] = label /\ job'[s] = j /\ DOMAIN job' = Session /\ at' \in [Session -> Label]
         /\ \A t \in Session \ {s} : at'[t] = at[t] /\ job'[t] = job[t]
BY DEF Kinds, Goto

\* A statement within a transaction, as the others see it.
LEMMA WriteMoves ==
  ASSUME Kinds, NEW s \in Session, NEW new, NEW label \in Label, NEW j, Write(s, new, label, j)
  PROVE  /\ Others(s) /\ at'[s] = label /\ job'[s] = j /\ mine'[s] = Over(new, mine[s])
         /\ db' = db /\ calm' = calm
         /\ \A t \in Session \ {s} : DOMAIN new \cap DOMAIN mine[t] = {}
<1>1. Goto(s, label, j) /\ mine' = [mine EXCEPT ![s] = Over(new, mine[s])]
  BY DEF Write
<1>2. /\ mine'[s] = Over(new, mine[s]) /\ DOMAIN mine' = Session
      /\ \A t \in Session \ {s} : mine'[t] = mine[t]
  BY <1>1 DEF Kinds
<1> QED BY <1>1, <1>2, GotoMoves DEF Others, Write, Free

\* A statement that commits by itself.
LEMMA ApplyMoves ==
  ASSUME Kinds, NEW s \in Session, NEW new, NEW label \in Label, NEW j, Apply(s, new, label, j)
  PROVE  /\ Others(s) /\ at'[s] = label /\ job'[s] = j /\ mine' = mine /\ calm' = calm
         /\ DOMAIN db' = Row \cup DOMAIN new
         /\ \A x \in Row \cup DOMAIN new : db'[x] = IF x \in DOMAIN new THEN new[x] ELSE db[x]
         /\ \A t \in Session \ {s} : DOMAIN new \cap DOMAIN mine[t] = {}
<1>1. Goto(s, label, j) /\ db' = Over(new, db) /\ mine' = mine /\ calm' = calm
  BY DEF Apply
<1> QED BY <1>1, GotoMoves DEF Others, Apply, Free, Kinds, Over

\* COMMIT.
LEMMA PublishMoves ==
  ASSUME Kinds, NEW s \in Session, NEW label \in Label, NEW j, Publish(s, label, j),
         DOMAIN mine[s] \subseteq Row
  PROVE  /\ Others(s) /\ at'[s] = label /\ job'[s] = j /\ DOMAIN mine'[s] = {} /\ calm' = calm
         /\ DOMAIN db' = Row
         /\ \A x \in Row : db'[x] = IF x \in DOMAIN mine[s] THEN mine[s][x] ELSE db[x]
<1>1. Goto(s, label, j) /\ db' = Over(mine[s], db) /\ mine' = [mine EXCEPT ![s] = Unwritten]
  BY DEF Publish
<1>2. /\ DOMAIN mine'[s] = {} /\ DOMAIN mine' = Session
      /\ \A t \in Session \ {s} : mine'[t] = mine[t]
  BY <1>1 DEF Kinds, Unwritten
<1> QED BY <1>1, <1>2, GotoMoves DEF Others, Publish, Kinds, Over

\* ROLLBACK.
LEMMA RollbackMoves ==
  ASSUME Kinds, NEW s \in Session, Rollback(s)
  PROVE  /\ Others(s) /\ at'[s] = "idle" /\ job'[s] = NoJob /\ DOMAIN mine'[s] = {}
         /\ db' = db /\ calm' = calm
<1>1. Goto(s, "idle", NoJob) /\ mine' = [mine EXCEPT ![s] = Unwritten]
  BY DEF Rollback
<1>2. /\ DOMAIN mine'[s] = {} /\ DOMAIN mine' = Session
      /\ \A t \in Session \ {s} : mine'[t] = mine[t]
  BY <1>1 DEF Kinds, Unwritten
<1>3. "idle" \in Label BY DEF Label
<1> QED BY <1>1, <1>2, <1>3, GotoMoves DEF Others, Rollback

\* The beginning of a request, and a query.
LEMMA LookMoves ==
  ASSUME Kinds, NEW s \in Session, NEW label \in Label, NEW j,
         Begin(s, label, j) \/ Look(s, label, j)
  PROVE  /\ Others(s) /\ at'[s] = label /\ job'[s] = j /\ mine' = mine /\ db' = db
         /\ calm' \in BOOLEAN
<1>1. Goto(s, label, j) /\ mine' = mine /\ db' = db /\ calm' \in BOOLEAN
  BY DEF Begin, Look, Kinds
<1> QED BY <1>1, GotoMoves DEF Others, Kinds

\* A step of s that leaves what the others hold leaves them as they are.
LEMMA Frame ==
  ASSUME PayrollConstants, Sound, NEW s \in Session, Others(s),
         DOMAIN db' = Row, TypeOK', calm' \in BOOLEAN,
         \A x \in Sheet \cup Debt : Exists(x) => db'[x] # Absent,
         \A t \in Session \ {s} : /\ \A x \in DOMAIN mine[t] : db'[x] = db[x]
                                  /\ DOMAIN mine'[s] \cap DOMAIN mine[t] = {},
         Books', Labelled(s)', Held(s)'
  PROVE  Sound'
<1>1. /\ \A t \in Session \ {s} : mine'[t] = mine[t] /\ at'[t] = at[t] /\ job'[t] = job[t]
      /\ DOMAIN mine' = Session /\ DOMAIN job' = Session /\ at' \in [Session -> Label]
  BY DEF Others
<1>2. Kinds' BY <1>1 DEF Kinds
<1>3. Apart' BY <1>1 DEF Sound, Apart
<1>4. ASSUME NEW t \in Session, t # s PROVE Labelled(t)' /\ Held(t)'
  <2>1. mine'[t] = mine[t] /\ at'[t] = at[t] /\ job'[t] = job[t] BY <1>1, <1>4
  <2>2. Labelled(t) /\ Held(t) BY DEF Sound
  <2>3. Labelled(t)' BY <2>1, <2>2 DEF Labelled, Busy, Exists, PayJob
  <2>4. ASSUME NEW e \in Employee, Holds(t, e) PROVE Holds(t, e)'
    <3> DEFINE r == Details(job[t].sheet, e, t)
    <3>1. Details(job'[t].sheet, e, t) = r BY <2>1
    <3>2. Own(t, e)' = Own(t, e) BY <2>1 DEF Own
    <3>3. DOMAIN mine[t] = {r} \cup (Own(t, e) \ job[t].due) BY <2>4 DEF Holds
    <3>4. db'[r] = db[r] /\ \A d \in Own(t, e) \ job[t].due : db'[d] = db[d]
      BY <1>4, <3>3
    <3> HIDE DEF r
    <3>5. /\ job[t].due \subseteq Own(t, e) /\ e \notin job[t].left
          /\ mine[t][r] \in DetailRow /\ mine[t][r].count = db[r].count + 1
          /\ \A d \in Debt :
               mine[t][r].taken[d] = db[r].taken[d] + (IF Debtor[d] = e THEN job[t].cuts[d] ELSE 0)
          /\ \A d \in Own(t, e) \ job[t].due :
               /\ mine[t][d] \in DebtRow /\ mine[t][d].balance >= 0
               /\ mine[t][d].balance = db[d].balance - job[t].cuts[d]
               /\ mine[t][d].handed = db[d].handed
      BY <2>4 DEF Holds, r
    <3> QED BY <2>1, <3>1, <3>2, <3>3, <3>4, <3>5 DEF Holds
  <2>5. Held(t)'
    <3>1. CASE at[t] = "cut" BY <2>1, <2>2, <2>4, <3>1 DEF Held
    <3>2. CASE at[t] # "cut" BY <2>1, <2>2, <3>2 DEF Held
    <3> QED BY <3>1, <3>2
  <2> QED BY <2>3, <2>5
<1> QED BY <1>2, <1>3, <1>4 DEF Sound

\* Nothing of what is committed changes.
LEMMA SameBooks ==
  ASSUME PayrollConstants, Sound, DOMAIN db' = Row, \A x \in Row : db'[x] = db[x]
  PROVE  Books' /\ TypeOK' /\ \A x \in Sheet \cup Debt : Exists(x) => db'[x] # Absent
<1>0. Kinds /\ Books /\ TypeOK BY DEF Sound, Kinds
<1>1. \A x \in Sheet \cup Debt \cup Slot : db'[x] = db[x] BY RowsApart
<1>2. ASSUME NEW d \in Debt PROVE BookOf(d)'
  <2>1. \A r \in Slot : db'[r].taken[d] = db[r].taken[d] BY <1>1
  <2>2. TakenFrom(d)' = TakenFrom(d) BY <1>0, <2>1, TakenKept
  <2>3. BookOf(d) /\ db'[d] = db[d] BY <1>0, <1>1 DEF Books
  <2> QED BY <2>2, <2>3 DEF BookOf, Exists
<1>3. Books' BY <1>2 DEF Books
<1>4. TypeOK' BY <1>0, <1>1 DEF TypeOK, Slot
<1> QED BY <1>1, <1>3, <1>4 DEF Exists

\* A step of s that writes nothing.
LEMMA NoWrite ==
  ASSUME PayrollConstants, Sound, NEW s \in Session, Others(s), db' = db, calm' \in BOOLEAN,
         mine'[s] = mine[s] \/ DOMAIN mine'[s] = {},
         Labelled(s)', Held(s)'
  PROVE  Sound'
<1>1. \A t \in Session \ {s} : /\ \A x \in DOMAIN mine[t] : db'[x] = db[x]
                               /\ DOMAIN mine'[s] \cap DOMAIN mine[t] = {}
  BY DEF Sound, Apart
<1>2. DOMAIN db' = Row /\ \A x \in Row : db'[x] = db[x] BY DEF Sound, Kinds
<1> QED BY <1>1, <1>2, SameBooks, Frame

\* A request that ends without a COMMIT leaves nothing.
LEMMA RollbackKeeps ==
  ASSUME PayrollConstants, Sound, NEW s \in Session, Rollback(s)
  PROVE  Sound'
<1>1. Kinds BY DEF Sound
<1>2. Labelled(s)' /\ Held(s)' BY <1>1, RollbackMoves DEF Labelled, Held, Busy
<1> QED BY <1>1, <1>2, RollbackMoves, NoWrite DEF Kinds

\* The requests about a debt, and a payroll, begin on what is there.
LEMMA StartKeeps ==
  ASSUME PayrollConstants, Sound, NEW s \in Session,
         StartDebt(s) \/ StartHandPay(s) \/ StartPayroll(s)
  PROVE  Sound'
<1>0. Kinds /\ Held(s) /\ Labelled(s) BY DEF Sound
<1>1. CASE StartDebt(s)
  <2>1. PICK d \in Debt : Begin(s, "lend", [debt |-> d]) BY <1>1 DEF StartDebt
  <2>2. "lend" \in Label /\ at[s] = "idle" BY <2>1 DEF Label, Begin
  <2>3. /\ Others(s) /\ at'[s] = "lend" /\ job'[s] = [debt |-> d] /\ mine' = mine /\ db' = db
        /\ calm' \in BOOLEAN
    BY <1>0, <2>1, <2>2, LookMoves
  <2>4. Labelled(s)' /\ Held(s)' BY <1>0, <2>2, <2>3 DEF Labelled, Held, Busy
  <2> QED BY <2>3, <2>4, NoWrite
<1>2. CASE StartHandPay(s)
  <2>1. PICK d \in Debt, n \in 1 .. Loan : Exists(d) /\ Begin(s, "hand", [debt |-> d, amount |-> n])
    BY <1>2 DEF StartHandPay
  <2>2. "hand" \in Label /\ at[s] = "idle" BY <2>1 DEF Label, Begin
  <2>3. /\ Others(s) /\ at'[s] = "hand" /\ job'[s] = [debt |-> d, amount |-> n] /\ mine' = mine
        /\ db' = db /\ calm' \in BOOLEAN
    BY <1>0, <2>1, <2>2, LookMoves
  <2>4. n \in Nat BY DEF PayrollConstants
  <2>5. Labelled(s)' /\ Held(s)' BY <1>0, <2>1, <2>2, <2>3, <2>4 DEF Labelled, Held, Busy, Exists
  <2> QED BY <2>3, <2>5, NoWrite
<1>3. CASE StartPayroll(s)
  <2> DEFINE j(w) == [sheet |-> w, left |-> Employee, cuts |-> Installments, due |-> {}]
  <2>1. PICK w \in Sheet : Exists(w) /\ Begin(s, "detail", j(w))
    BY <1>3 DEF StartPayroll
  <2>2. "detail" \in Label /\ at[s] = "idle" BY <2>1 DEF Label, Begin
  <2>3. /\ Others(s) /\ at'[s] = "detail" /\ job'[s] = j(w) /\ mine' = mine
        /\ db' = db /\ calm' \in BOOLEAN
    <3> HIDE DEF j
    <3> QED BY <1>0, <2>1, <2>2, LookMoves
  <2>4. ASSUME NEW d \in Debt
        PROVE  Installments[d] \in Nat /\ (Installments[d] > 0 => Exists(d))
    <3>1. d \in Running(Debtor[d]) => Exists(d) /\ db[d].balance > 0 /\ db[d] \in DebtRow
      BY <1>0 DEF Running, Exists, Kinds, TypeOK
    <3> QED BY <3>1 DEF Installments, PayrollConstants, DebtRow
  <2>5. Installments \in [Debt -> Nat] BY <2>4 DEF Installments
  <2>6. j(w) \in PayJob BY <2>5 DEF PayJob
  <2>7. Labelled(s)'
    BY <2>1, <2>3, <2>4, <2>6 DEF Labelled, Busy, Exists
  <2>8. Held(s)' BY <1>0, <2>2, <2>3 DEF Held
  <2> QED BY <2>3, <2>7, <2>8, NoWrite
<1> QED BY <1>1, <1>2, <1>3

\* A request has written details and debts only.
LEMMA MineRows ==
  ASSUME PayrollConstants, Sound, NEW t \in Session
  PROVE  DOMAIN mine[t] \subseteq Slot \cup Debt
<1>1. Held(t) /\ Labelled(t) BY DEF Sound
<1>2. CASE at[t] = "cut"
  <2>1. PICK e \in Employee : Holds(t, e) BY <1>1, <1>2 DEF Held
  <2>2. job[t].sheet \in Sheet BY <1>1, <1>2 DEF Labelled, Busy, PayJob
  <2>3. Details(job[t].sheet, e, t) \in Slot BY <2>2, RowsApart
  <2>4. DOMAIN mine[t] = {Details(job[t].sheet, e, t)} \cup (Own(t, e) \ job[t].due)
    BY <2>1 DEF Holds
  <2> QED BY <2>3, <2>4 DEF Own
<1>3. CASE at[t] # "cut" BY <1>1, <1>3 DEF Held
<1> QED BY <1>2, <1>3

\* A statement on one debt that keeps, or starts, its account.
LEMMA DebtChanges ==
  ASSUME PayrollConstants, Sound, NEW d \in Debt, DOMAIN db' = Row,
         \A x \in Row \ {d} : db'[x] = db[x],
         db'[d] \in DebtRow, db'[d].balance >= 0,
         IF Exists(d) THEN db'[d].balance + db'[d].handed = db[d].balance + db[d].handed
         ELSE db'[d].balance + db'[d].handed = Loan
  PROVE  Books' /\ TypeOK' /\ \A x \in Sheet \cup Debt : Exists(x) => db'[x] # Absent
<1>0. Kinds /\ Books /\ TypeOK BY DEF Sound, Kinds
<1>1. db'[d] # Absent BY DEF PayrollConstants
<1>2. \A x \in Sheet \cup Debt \cup Slot : x \in Row BY RowsApart
<1>3. TypeOK'
  <2>1. \A w \in Sheet : db'[w] \in SheetRow \cup {Absent} BY <1>0, <1>2, RowsApart DEF TypeOK
  <2>2. \A x \in Debt : db'[x] \in DebtRow \cup {Absent} BY <1>0, <1>2 DEF TypeOK
  <2>3. \A r \in Slot : db'[r] \in DetailRow BY <1>0, <1>2, RowsApart DEF TypeOK, Slot
  <2> QED BY <2>1, <2>2, <2>3 DEF TypeOK, Slot
<1>4. ASSUME NEW x \in Debt PROVE BookOf(x)'
  <2>1. \A r \in Slot : db'[r].taken[x] = db[r].taken[x] BY <1>2, RowsApart
  <2>2. TakenFrom(x)' = TakenFrom(x) /\ TakenFrom(x) \in Int BY <1>0, <2>1, TakenKept
  <2>3. BookOf(x) BY <1>0 DEF Books
  <2>4. CASE x # d
    <3>1. db'[x] = db[x] BY <1>2, <2>4
    <3> QED BY <2>2, <2>3, <3>1 DEF BookOf, Exists
  <2>5. CASE x = d /\ Exists(d)
    <3>1. db[d] \in DebtRow BY <1>0, <2>5 DEF TypeOK, Exists
    <3>2. db[d].balance + db[d].handed + TakenFrom(d) = Loan BY <2>3, <2>5 DEF BookOf
    <3>3. db'[d].balance + db'[d].handed + TakenFrom(d)' = Loan
      BY <2>2, <2>5, <3>1, <3>2 DEF DebtRow
    <3> QED BY <1>1, <2>5, <3>3 DEF BookOf, Exists
  <2>6. CASE x = d /\ ~Exists(d)
    <3>1. TakenFrom(d) = 0 BY <2>3, <2>6 DEF BookOf
    <3>2. db'[d].balance + db'[d].handed + TakenFrom(d)' = Loan
      BY <2>2, <2>6, <3>1 DEF DebtRow, PayrollConstants
    <3> QED BY <1>1, <2>6, <3>2 DEF BookOf, Exists
  <2> QED BY <2>4, <2>5, <2>6
<1>5. Books' BY <1>4 DEF Books
<1>6. \A x \in Sheet \cup Debt : Exists(x) => db'[x] # Absent BY <1>1, <1>2 DEF Exists
<1> QED BY <1>3, <1>5, <1>6

\* A statement on one sheet.
LEMMA SheetChanges ==
  ASSUME PayrollConstants, Sound, NEW w \in Sheet, DOMAIN db' = Row,
         \A x \in Row \ {w} : db'[x] = db[x], db'[w] \in SheetRow
  PROVE  Books' /\ TypeOK' /\ \A x \in Sheet \cup Debt : Exists(x) => db'[x] # Absent
<1>0. Kinds /\ Books /\ TypeOK BY DEF Sound, Kinds
<1>1. db'[w] # Absent BY DEF PayrollConstants
<1>2. /\ \A x \in Sheet \cup Debt \cup Slot : x \in Row
      /\ \A x \in Debt \cup Slot : x # w
  BY RowsApart
<1>3. TypeOK'
  <2>1. \A x \in Sheet : db'[x] \in SheetRow \cup {Absent} BY <1>0, <1>2 DEF TypeOK
  <2>2. \A x \in Debt : db'[x] \in DebtRow \cup {Absent} BY <1>0, <1>2 DEF TypeOK
  <2>3. \A r \in Slot : db'[r] \in DetailRow BY <1>0, <1>2 DEF TypeOK, Slot
  <2> QED BY <2>1, <2>2, <2>3 DEF TypeOK, Slot
<1>4. ASSUME NEW x \in Debt PROVE BookOf(x)'
  <2>1. \A r \in Slot : db'[r].taken[x] = db[r].taken[x] BY <1>2
  <2>2. TakenFrom(x)' = TakenFrom(x) BY <1>0, <2>1, TakenKept
  <2>3. BookOf(x) /\ db'[x] = db[x] BY <1>0, <1>2 DEF Books
  <2> QED BY <2>2, <2>3 DEF BookOf, Exists
<1>5. Books' BY <1>4 DEF Books
<1>6. \A x \in Sheet \cup Debt : Exists(x) => db'[x] # Absent BY <1>1, <1>2 DEF Exists
<1> QED BY <1>3, <1>5, <1>6

\* What a statement that commits one row by itself does to the table,
LEMMA AppliedRow ==
  ASSUME PayrollConstants, Sound, NEW s \in Session, NEW x \in Sheet \cup Debt, NEW new,
         DOMAIN new = {x}, Apply(s, new, "commit", job[s])
  PROVE  /\ DOMAIN db' = Row /\ db'[x] = new[x] /\ \A y \in Row \ {x} : db'[y] = db[y]
         /\ Others(s) /\ at'[s] = "commit" /\ mine' = mine /\ calm' = calm
         /\ \A t \in Session \ {s} : x \notin DOMAIN mine[t]
<1>1. Kinds /\ x \in Row BY RowsApart DEF Sound
<1>2. "commit" \in Label BY DEF Label
<1>3. /\ Others(s) /\ at'[s] = "commit" /\ mine' = mine /\ calm' = calm
      /\ DOMAIN db' = Row \cup DOMAIN new
      /\ \A y \in Row \cup DOMAIN new : db'[y] = IF y \in DOMAIN new THEN new[y] ELSE db[y]
      /\ \A t \in Session \ {s} : DOMAIN new \cap DOMAIN mine[t] = {}
  BY <1>1, <1>2, ApplyMoves
<1> QED BY <1>1, <1>3

\* and that it leaves the others as they are when the books are right.
LEMMA AppliedKeeps ==
  ASSUME PayrollConstants, Sound, NEW s \in Session, NEW x \in Sheet \cup Debt, NEW new,
         DOMAIN new = {x}, Apply(s, new, "commit", job[s]), at[s] # "cut",
         Books', TypeOK', \A y \in Sheet \cup Debt : Exists(y) => db'[y] # Absent
  PROVE  Sound'
<1>1. /\ DOMAIN db' = Row /\ \A y \in Row \ {x} : db'[y] = db[y]
      /\ Others(s) /\ at'[s] = "commit" /\ mine' = mine /\ calm' = calm
      /\ \A t \in Session \ {s} : x \notin DOMAIN mine[t]
  BY ONLY PayrollConstants, Sound, DOMAIN new = {x}, Apply(s, new, "commit", job[s]), AppliedRow
<1>2. Kinds /\ Held(s) BY DEF Sound
<1>3. Labelled(s)' /\ Held(s)' BY <1>1, <1>2 DEF Labelled, Held, Busy
<1>4. \A t \in Session \ {s} : /\ \A y \in DOMAIN mine[t] : db'[y] = db[y]
                               /\ DOMAIN mine'[s] \cap DOMAIN mine[t] = {}
  <2>1. \A t \in Session \ {s} : DOMAIN mine[s] \cap DOMAIN mine[t] = {} BY DEF Sound, Apart
  <2>2. \A t \in Session : DOMAIN mine[t] \subseteq Row BY MineRows, RowsApart
  <2> QED BY <1>1, <2>1, <2>2
<1> QED BY <1>1, <1>2, <1>3, <1>4, Frame DEF Kinds

\* INSERT of a debt, for all it was agreed to be.
LEMMA InsertDebtKeeps ==
  ASSUME PayrollConstants, Sound, NEW s \in Session, InsertDebt(s)
  PROVE  Sound'
<1> DEFINE d == job[s].debt
           row == [balance |-> Loan, active |-> TRUE, handed |-> 0]
           new == [r \in {d} |-> row]
<1>1. at[s] = "lend" /\ db[d] = Absent /\ Apply(s, new, "commit", job[s])
  BY DEF InsertDebt
<1>2. d \in Debt BY <1>1 DEF Sound, Labelled
<1>3. row \in DebtRow /\ row.balance >= 0 /\ row.balance + row.handed = Loan
  BY DEF DebtRow, PayrollConstants
<1>A. DOMAIN new = {d} /\ new[d] = row OBVIOUS
<1> HIDE DEF new, row, d
<1>4. DOMAIN db' = Row /\ db'[d] = row /\ \A y \in Row \ {d} : db'[y] = db[y]
  BY <1>1, <1>2, <1>A, AppliedRow
<1>5. ~Exists(d) BY <1>1 DEF Exists
<1>6. Books' /\ TypeOK' /\ \A x \in Sheet \cup Debt : Exists(x) => db'[x] # Absent
  BY <1>2, <1>3, <1>4, <1>5, DebtChanges
<1> QED BY <1>1, <1>2, <1>6, <1>A, AppliedKeeps

\* A payment by hand takes from the balance of now what it hands in.
LEMMA HandPayKeeps ==
  ASSUME PayrollConstants, Sound, NEW s \in Session, HandPay(s)
  PROVE  Sound'
<1> DEFINE d == job[s].debt  n == job[s].amount
           row == [balance |-> db[d].balance - n, active |-> db[d].balance > n,
                   handed |-> db[d].handed + n]
           new == [r \in {d} |-> row]
<1>1. at[s] = "hand" BY DEF HandPay
<1>2. d \in Debt /\ n \in Nat /\ Exists(d) BY <1>1 DEF Sound, Labelled
<1>3. CASE db[d].balance < n
  <2>1. Rollback(s) BY <1>3 DEF HandPay
  <2> QED BY <2>1, RollbackKeeps
<1>4. CASE ~(db[d].balance < n)
  <2>1. Apply(s, new, "commit", job[s]) BY <1>4 DEF HandPay
  <2>2. db[d] \in DebtRow BY <1>2 DEF Sound, Kinds, TypeOK, Exists
  <2>3. /\ row \in DebtRow /\ row.balance >= 0
        /\ row.balance + row.handed = db[d].balance + db[d].handed
    BY <1>2, <1>4, <2>2 DEF DebtRow
  <2>A. DOMAIN new = {d} /\ new[d] = row OBVIOUS
  <2> HIDE DEF new, row, d
  <2>4. DOMAIN db' = Row /\ db'[d] = row /\ \A y \in Row \ {d} : db'[y] = db[y]
    BY <1>2, <2>1, <2>A, AppliedRow
  <2>5. Books' /\ TypeOK' /\ \A x \in Sheet \cup Debt : Exists(x) => db'[x] # Absent
    BY <1>2, <2>3, <2>4, DebtChanges
  <2> QED BY <1>1, <1>2, <2>1, <2>5, <2>A, AppliedKeeps
<1> QED BY <1>3, <1>4

\* An amendment hands in what it takes off the balance.
LEMMA AmendKeeps ==
  ASSUME PayrollConstants, Sound, NEW s \in Session, Amend(s)
  PROVE  Sound'
<1>0. Kinds /\ Held(s) /\ Labelled(s) BY DEF Sound
<1>1. at[s] = "idle" /\ UNCHANGED <<mine, at, job>> /\ calm' = (calm /\ Quiet) BY DEF Amend
<1>2. PICK d \in Debt, flag \in BOOLEAN :
        /\ Exists(d) /\ Free(s, {d})
        /\ \E b \in {0, db[d].balance} :
             db' = [db EXCEPT ![d] = [balance |-> b, active |-> flag,
                                      handed |-> @.handed + @.balance - b]]
  BY DEF Amend
<1>A. PICK b \in {0, db[d].balance} :
        db' = [db EXCEPT ![d] = [balance |-> b, active |-> flag,
                                 handed |-> @.handed + @.balance - b]]
  BY <1>2
<1>3. d \in Row /\ db[d] \in DebtRow /\ db[d].balance >= 0
  BY <1>0, <1>2, RowsApart DEF Kinds, TypeOK, Exists, Sound, Books, BookOf
<1>4. /\ DOMAIN db' = Row /\ \A x \in Row \ {d} : db'[x] = db[x]
      /\ db'[d] = [balance |-> b, active |-> flag,
                   handed |-> db[d].handed + db[d].balance - b]
  BY <1>0, <1>A, <1>3 DEF Kinds
<1>5. /\ db'[d] \in DebtRow /\ db'[d].balance >= 0
      /\ db'[d].balance + db'[d].handed = db[d].balance + db[d].handed
  BY <1>3, <1>4 DEF DebtRow
<1>6. Books' /\ TypeOK' /\ \A x \in Sheet \cup Debt : Exists(x) => db'[x] # Absent
  BY <1>2, <1>4, <1>5, DebtChanges
<1>7. Others(s) /\ calm' \in BOOLEAN BY <1>0, <1>1 DEF Others, Kinds
<1>8. Labelled(s)' /\ Held(s)' BY <1>0, <1>1 DEF Labelled, Held, Busy
<1>9. \A t \in Session \ {s} : /\ \A y \in DOMAIN mine[t] : db'[y] = db[y]
                               /\ DOMAIN mine'[s] \cap DOMAIN mine[t] = {}
  <2>1. \A t \in Session \ {s} : DOMAIN mine[s] \cap DOMAIN mine[t] = {} BY DEF Sound, Apart
  <2>2. \A t \in Session : DOMAIN mine[t] \subseteq Row BY MineRows, RowsApart
  <2> QED BY <1>1, <1>2, <1>4, <2>1, <2>2 DEF Free
<1> QED BY <1>4, <1>6, <1>7, <1>8, <1>9, Frame

\* A new sheet is open.
LEMMA OpenSheetKeeps ==
  ASSUME PayrollConstants, Sound, NEW s \in Session, OpenSheet(s)
  PROVE  Sound'
<1>0. Kinds /\ Held(s) /\ Labelled(s) BY DEF Sound
<1>1. at[s] = "idle" /\ UNCHANGED <<mine, at, job>> /\ calm' = (calm /\ Quiet) BY DEF OpenSheet
<1>2. PICK w \in Sheet : db' = [db EXCEPT ![w] = [closed |-> FALSE, net |-> 0]]
  BY DEF OpenSheet
<1>3. w \in Row /\ w \notin Slot \cup Debt BY RowsApart
<1>4. /\ DOMAIN db' = Row /\ \A x \in Row \ {w} : db'[x] = db[x]
      /\ db'[w] = [closed |-> FALSE, net |-> 0]
  BY <1>0, <1>2, <1>3 DEF Kinds
<1>5. db'[w] \in SheetRow BY <1>4 DEF SheetRow
<1>6. Books' /\ TypeOK' /\ \A x \in Sheet \cup Debt : Exists(x) => db'[x] # Absent
  BY <1>4, <1>5, SheetChanges
<1>7. Others(s) /\ calm' \in BOOLEAN BY <1>0, <1>1 DEF Others, Kinds
<1>8. Labelled(s)' /\ Held(s)' BY <1>0, <1>1 DEF Labelled, Held, Busy
<1>9. \A t \in Session \ {s} : /\ \A y \in DOMAIN mine[t] : db'[y] = db[y]
                               /\ DOMAIN mine'[s] \cap DOMAIN mine[t] = {}
  <2>1. \A t \in Session \ {s} : DOMAIN mine[s] \cap DOMAIN mine[t] = {} BY DEF Sound, Apart
  <2>2. \A t \in Session : DOMAIN mine[t] \subseteq Slot \cup Debt BY MineRows
  <2> QED BY <1>1, <1>3, <1>4, <2>1, <2>2, RowsApart
<1> QED BY <1>4, <1>6, <1>7, <1>8, <1>9, Frame

\* The close of a sheet.
LEMMA CloseSheetKeeps ==
  ASSUME PayrollConstants, Sound, NEW s \in Session, CloseSheet(s)
  PROVE  Sound'
<1> DEFINE w == job[s].sheet
           row == [closed |-> TRUE, net |-> NetOf(w)]
           new == [r \in {w} |-> row]
<1>1. at[s] = "close" /\ Apply(s, new, "commit", job[s]) BY DEF CloseSheet
<1>2. w \in Sheet BY <1>1 DEF Sound, Labelled, Busy, PayJob
<1>3. NetOf(w) \in Int
  <2> DEFINE f == [r \in Of(w) |-> db[r].net]
  <2>1. Of(w) \subseteq Slot BY <1>2 DEF Of, Slot
  <2>2. IsFiniteSet(Of(w)) BY <2>1, SlotsFinite, FS_Subset
  <2>3. \A r \in Of(w) : f[r] \in Int BY <2>1 DEF Sound, Kinds, TypeOK, Slot, DetailRow
  <2>4. SumFunctionOnSet(f, Of(w)) \in Int
    <3> HIDE DEF f
    <3> QED BY <2>2, <2>3, SumType
  <2> QED BY <2>4 DEF NetOf, SumFunction
<1>4. row \in SheetRow BY <1>3 DEF SheetRow
<1>A. DOMAIN new = {w} /\ new[w] = row OBVIOUS
<1> HIDE DEF new, row, w
<1>5. DOMAIN db' = Row /\ db'[w] = row /\ \A y \in Row \ {w} : db'[y] = db[y]
  BY <1>1, <1>2, <1>A, AppliedRow
<1>6. Books' /\ TypeOK' /\ \A x \in Sheet \cup Debt : Exists(x) => db'[x] # Absent
  BY <1>2, <1>4, <1>5, SheetChanges
<1> QED BY <1>1, <1>2, <1>6, <1>A, AppliedKeeps

\* A statement in a transaction of s, as Frame wants it.
LEMMA WriteKeeps ==
  ASSUME PayrollConstants, Sound, NEW s \in Session, Others(s), db' = db, calm' = calm,
         \A t \in Session \ {s} : DOMAIN mine'[s] \cap DOMAIN mine[t] = {},
         Labelled(s)', Held(s)'
  PROVE  Sound'
<1>1. calm' \in BOOLEAN BY DEF Sound, Kinds
<1>2. DOMAIN db' = Row /\ \A x \in Row : db'[x] = db[x] BY DEF Sound, Kinds
<1>3. \A t \in Session \ {s} : /\ \A x \in DOMAIN mine[t] : db'[x] = db[x]
                               /\ DOMAIN mine'[s] \cap DOMAIN mine[t] = {}
  OBVIOUS
<1> QED BY <1>1, <1>2, <1>3, SameBooks, Frame

\* A detail, with all it takes from the debts of its employee.
LEMMA DetailKeeps ==
  ASSUME PayrollConstants, Sound, NEW s \in Session, at[s] = "detail",
         NEW e \in job[s].left, Detail(s, e)
  PROVE  Sound'
<1> DEFINE j == job[s]
           r == Details(j.sheet, e, s)
           cuts == [d \in Debt |-> IF Debtor[d] = e THEN j.cuts[d] ELSE 0]
           row == [count |-> db[r].count + 1, net |-> db[r].net + Salary - SumFunction(cuts),
                   taken |-> [d \in Debt |-> db[r].taken[d] + cuts[d]]]
           new == [x \in {r} |-> row]
           left == j.left \ {e}
           due == {d \in Debt : cuts[d] > 0}
           next == [j EXCEPT !.left = left, !.due = due]
<1>0. Kinds /\ Held(s) /\ Labelled(s) BY DEF Sound
<1>1. /\ j \in PayJob /\ Exists(j.sheet) /\ \A d \in Debt : j.cuts[d] > 0 => Exists(d)
  BY <1>0 DEF Labelled, Busy
<1>2. e \in Employee /\ r \in Slot BY <1>1, RowsApart DEF PayJob
<1>3. db[r] \in DetailRow BY <1>0, <1>2 DEF Kinds, TypeOK, Slot
<1>4. cuts \in [Debt -> Nat] BY <1>1 DEF PayJob
<1>5. SumFunction(cuts) \in Int
  <2>1. \A d \in Debt : cuts[d] \in Int BY <1>4
  <2>2. DOMAIN cuts = Debt OBVIOUS
  <2> HIDE DEF cuts
  <2>3. SumFunctionOnSet(cuts, Debt) \in Int BY <2>1, SumType DEF PayrollConstants
  <2> QED BY <2>2, <2>3 DEF SumFunction
<1>6. row \in DetailRow
  <2>1. [d \in Debt |-> db[r].taken[d] + cuts[d]] \in [Debt -> Nat] BY <1>3, <1>4 DEF DetailRow
  <2> HIDE DEF cuts, r
  <2> QED BY <1>3, <1>5, <2>1 DEF DetailRow, PayrollConstants
<1>7. /\ row.count = db[r].count + 1
      /\ \A d \in Debt : row.taken[d] = db[r].taken[d] + (IF Debtor[d] = e THEN j.cuts[d] ELSE 0)
  OBVIOUS
<1>8. /\ next.sheet = j.sheet /\ next.left = left /\ next.cuts = j.cuts /\ next.due = due
      /\ next \in PayJob
  <2>1. left \in SUBSET Employee /\ due \in SUBSET Debt BY <1>1 DEF PayJob
  <2> HIDE DEF left, due
  <2> QED BY <1>1, <2>1 DEF PayJob
<1>9. Write(s, new, "cut", next) BY DEF Detail
<1>10. "cut" \in Label BY DEF Label
<1>11. DOMAIN new = {r} /\ new[r] = row /\ DOMAIN mine[s] = {} BY <1>0 DEF Held
<1>12. due = {d \in Debt : Debtor[d] = e /\ j.cuts[d] > 0} OBVIOUS
<1>13. e \notin left OBVIOUS
<1> HIDE DEF new, next, row, cuts, left, due
<1>14. /\ Others(s) /\ at'[s] = "cut" /\ job'[s] = next /\ mine'[s] = Over(new, mine[s])
       /\ db' = db /\ calm' = calm
       /\ \A t \in Session \ {s} : DOMAIN new \cap DOMAIN mine[t] = {}
  BY <1>0, <1>9, <1>10, WriteMoves
<1>15. DOMAIN mine'[s] = {r} /\ mine'[s][r] = row BY <1>11, <1>14 DEF Over
<1>16. Labelled(s)' BY <1>1, <1>8, <1>14 DEF Labelled, Busy, Exists
<1>17. Holds(s, e)'
  <2>1. Details(job'[s].sheet, e, s) = r BY <1>8, <1>14
  <2>2. Own(s, e)' = due BY <1>8, <1>12, <1>14 DEF Own
  <2>3. /\ job'[s].due = due /\ job'[s].left = left /\ job'[s].cuts = j.cuts BY <1>8, <1>14
  <2> HIDE DEF r, j
  <2> QED BY <1>6, <1>7, <1>13, <1>14, <1>15, <2>1, <2>2, <2>3 DEF Holds
<1>18. Held(s)' BY <1>2, <1>14, <1>17 DEF Held
<1>19. \A t \in Session \ {s} : DOMAIN mine'[s] \cap DOMAIN mine[t] = {} BY <1>11, <1>14, <1>15
<1> QED BY <1>14, <1>16, <1>18, <1>19, WriteKeeps

\* A closed sheet refuses it.
LEMMA InsertDetailKeeps ==
  ASSUME PayrollConstants, Sound, NEW s \in Session, InsertDetail(s)
  PROVE  Sound'
<1>1. at[s] = "detail" BY DEF InsertDetail
<1>2. CASE db[job[s].sheet].closed
  <2>1. Rollback(s) BY <1>2 DEF InsertDetail
  <2> QED BY <2>1, RollbackKeeps
<1>3. CASE ~db[job[s].sheet].closed
  <2>1. PICK e \in job[s].left : Detail(s, e) BY <1>3 DEF InsertDetail
  <2> QED BY <1>1, <2>1, DetailKeeps
<1> QED BY <1>2, <1>3

\* An instalment that the balance does not cover undoes the detail as well.
LEMMA TakeInstallmentKeeps ==
  ASSUME PayrollConstants, Sound, NEW s \in Session, TakeInstallment(s)
  PROVE  Sound'
<1> DEFINE j == job[s]
           rest(d) == Sees(s, d).balance - j.cuts[d]
           row(d) == [Sees(s, d) EXCEPT !.balance = rest(d), !.active = rest(d) > 0]
           next(d) == [j EXCEPT !.due = @ \ {d}]
           new(d) == [x \in {d} |-> row(d)]
<1>0. Kinds /\ Held(s) /\ Labelled(s) BY DEF Sound
<1>1. at[s] = "cut" BY DEF TakeInstallment
<1>2. PICK d \in j.due : IF rest(d) < 0 THEN Rollback(s) ELSE Write(s, new(d), "cut", next(d))
  BY DEF TakeInstallment
<1>3. CASE rest(d) < 0
  <2>1. Rollback(s) BY <1>2, <1>3
  <2> QED BY <2>1, RollbackKeeps
<1>4. CASE ~(rest(d) < 0)
  <2>1. PICK e \in Employee : Holds(s, e) BY <1>0, <1>1 DEF Held
  <2> DEFINE r == Details(j.sheet, e, s)
  <2>2. /\ j \in PayJob /\ Exists(j.sheet) /\ \A x \in Debt : j.cuts[x] > 0 => Exists(x)
    BY <1>0, <1>1 DEF Labelled, Busy
  <2>3. /\ j.due \subseteq Own(s, e) /\ e \notin j.left
        /\ DOMAIN mine[s] = {r} \cup (Own(s, e) \ j.due)
        /\ mine[s][r] \in DetailRow /\ mine[s][r].count = db[r].count + 1
        /\ \A x \in Debt :
             mine[s][r].taken[x] = db[r].taken[x] + (IF Debtor[x] = e THEN j.cuts[x] ELSE 0)
        /\ \A x \in Own(s, e) \ j.due :
             /\ mine[s][x] \in DebtRow /\ mine[s][x].balance >= 0
             /\ mine[s][x].balance = db[x].balance - j.cuts[x]
             /\ mine[s][x].handed = db[x].handed
    BY <2>1 DEF Holds
  <2>4. d \in Own(s, e) /\ d \in Debt /\ j.cuts[d] > 0 BY <1>2, <2>3 DEF Own
  <2>5. r \in Slot /\ d # r /\ d \notin DOMAIN mine[s]
    <3>1. r \in Slot BY <2>2, RowsApart DEF PayJob
    <3> HIDE DEF r
    <3> QED BY <1>2, <2>3, <2>4, <3>1, RowsApart
  <2>6. Sees(s, d) = db[d] BY <2>5 DEF Sees
  <2>7. db[d] \in DebtRow BY <1>0, <2>2, <2>4 DEF Kinds, TypeOK, Exists
  <2>8. rest(d) = db[d].balance - j.cuts[d] /\ j.cuts[d] \in Nat
    BY <2>2, <2>4, <2>6 DEF PayJob
  <2>9. /\ row(d) \in DebtRow /\ row(d).balance >= 0
        /\ row(d).balance = db[d].balance - j.cuts[d] /\ row(d).handed = db[d].handed
    <3> DEFINE n == db[d].balance - j.cuts[d]  more == n > 0
    <3>1. row(d) = [db[d] EXCEPT !.balance = n, !.active = more] BY <2>6
    <3>2. n \in Int /\ n >= 0 /\ more \in BOOLEAN BY <1>4, <2>7, <2>8 DEF DebtRow
    <3> HIDE DEF n, more, row
    <3>3. row(d) \in DebtRow /\ row(d).balance = n /\ row(d).handed = db[d].handed
      BY <2>7, <3>1, <3>2 DEF DebtRow
    <3> QED BY <3>2, <3>3 DEF n
  <2>10. /\ next(d).sheet = j.sheet /\ next(d).left = j.left /\ next(d).cuts = j.cuts
         /\ next(d).due = j.due \ {d} /\ next(d) \in PayJob
    BY <2>2 DEF PayJob
  <2>11. Write(s, new(d), "cut", next(d)) BY <1>2, <1>4
  <2>12. "cut" \in Label BY DEF Label
  <2>13. DOMAIN new(d) = {d} /\ new(d)[d] = row(d) OBVIOUS
  <2> HIDE DEF new, next, row, rest
  <2>14. /\ Others(s) /\ at'[s] = "cut" /\ job'[s] = next(d) /\ mine'[s] = Over(new(d), mine[s])
         /\ db' = db /\ calm' = calm
         /\ \A t \in Session \ {s} : DOMAIN new(d) \cap DOMAIN mine[t] = {}
    BY <1>0, <2>11, <2>12, WriteMoves
  <2> HIDE DEF r
  <2>15. /\ DOMAIN mine'[s] = {d} \cup DOMAIN mine[s] /\ mine'[s][d] = row(d)
         /\ \A x \in DOMAIN mine[s] : mine'[s][x] = mine[s][x]
    BY <2>5, <2>13, <2>14 DEF Over
  <2>16. Labelled(s)'
    <3>1. Busy(s)' /\ at'[s] = "cut" BY <2>14 DEF Busy
    <3>2. job'[s] \in PayJob /\ job'[s].sheet = j.sheet /\ job'[s].cuts = j.cuts
      BY <2>10, <2>14
    <3>3. db'[job'[s].sheet] # Absent /\ \A x \in Debt : job'[s].cuts[x] > 0 => db'[x] # Absent
      BY <2>2, <2>14, <3>2 DEF Exists
    <3> QED BY <3>1, <3>2, <3>3 DEF Labelled, Exists
  <2>17. Holds(s, e)'
    <3>1. Details(job'[s].sheet, e, s) = r BY <2>10, <2>14 DEF r
    <3>2. Own(s, e)' = Own(s, e) BY <2>10, <2>14 DEF Own
    <3>3. /\ job'[s].due = j.due \ {d} /\ job'[s].left = j.left /\ job'[s].cuts = j.cuts
      BY <2>10, <2>14
    <3>4. DOMAIN mine'[s] = {r} \cup (Own(s, e) \ (j.due \ {d})) BY <2>3, <2>4, <2>15
    <3>5. mine'[s][r] = mine[s][r] BY <2>3, <2>15
    <3>6. \A x \in Own(s, e) \ (j.due \ {d}) :
            /\ mine'[s][x] \in DebtRow /\ mine'[s][x].balance >= 0
            /\ mine'[s][x].balance = db[x].balance - j.cuts[x]
            /\ mine'[s][x].handed = db[x].handed
      BY <2>3, <2>9, <2>15
    <3> HIDE DEF j
    <3> QED BY <2>3, <2>14, <3>1, <3>2, <3>3, <3>4, <3>5, <3>6 DEF Holds
  <2>18. Held(s)' BY <2>14, <2>17 DEF Held
  <2>19. \A t \in Session \ {s} : DOMAIN mine'[s] \cap DOMAIN mine[t] = {}
    <3>1. \A t \in Session \ {s} : DOMAIN mine[s] \cap DOMAIN mine[t] = {} BY DEF Sound, Apart
    <3> QED BY <2>13, <2>14, <2>15, <3>1
  <2> QED BY <2>14, <2>16, <2>18, <2>19, WriteKeeps
<1> QED BY <1>3, <1>4

\* COMMIT of a detail: what it says was taken has left the debts.
LEMMA CommitDetailKeeps ==
  ASSUME PayrollConstants, Sound, NEW s \in Session, CommitDetail(s)
  PROVE  Sound'
<1> DEFINE j == job[s]
<1>0. Kinds /\ Held(s) /\ Labelled(s) /\ Books /\ TypeOK BY DEF Sound, Kinds
<1>1. at[s] = "cut" /\ j.due = {} /\ Publish(s, "detail", j) BY DEF CommitDetail
<1>2. PICK e \in Employee : Holds(s, e) BY <1>0, <1>1 DEF Held
<1> DEFINE r == Details(j.sheet, e, s)
<1>3. /\ j \in PayJob /\ Exists(j.sheet) /\ \A d \in Debt : j.cuts[d] > 0 => Exists(d)
  BY <1>0, <1>1 DEF Labelled, Busy
<1>4. r \in Slot BY <1>3, RowsApart DEF PayJob
<1>5. /\ DOMAIN mine[s] = {r} \cup Own(s, e) /\ mine[s][r] \in DetailRow
      /\ \A d \in Debt :
           mine[s][r].taken[d] = db[r].taken[d] + (IF Debtor[d] = e THEN j.cuts[d] ELSE 0)
      /\ \A d \in Own(s, e) :
           /\ mine[s][d] \in DebtRow /\ mine[s][d].balance >= 0
           /\ mine[s][d].balance = db[d].balance - j.cuts[d]
           /\ mine[s][d].handed = db[d].handed
  BY <1>1, <1>2 DEF Holds
<1> HIDE DEF r
<1>6. DOMAIN mine[s] \subseteq Row BY MineRows, RowsApart
<1>7. "detail" \in Label BY DEF Label
<1>8. /\ Others(s) /\ at'[s] = "detail" /\ job'[s] = j /\ DOMAIN mine'[s] = {} /\ calm' = calm
      /\ DOMAIN db' = Row
      /\ \A x \in Row : db'[x] = IF x \in DOMAIN mine[s] THEN mine[s][x] ELSE db[x]
  BY <1>0, <1>1, <1>6, <1>7, PublishMoves
<1>9. Own(s, e) \subseteq Debt BY DEF Own
<1>10. /\ \A x \in Slot \ {r} : db'[x] = db[x]
       /\ db'[r] = mine[s][r]
       /\ \A w \in Sheet : db'[w] = db[w]
       /\ \A d \in Debt : db'[d] = IF d \in Own(s, e) THEN mine[s][d] ELSE db[d]
  BY <1>4, <1>5, <1>8, <1>9, RowsApart
<1>11. TypeOK'
  <2>1. \A w \in Sheet : db'[w] \in SheetRow \cup {Absent} BY <1>0, <1>10 DEF TypeOK
  <2>2. \A d \in Debt : db'[d] \in DebtRow \cup {Absent} BY <1>0, <1>5, <1>10 DEF TypeOK
  <2>3. \A x \in Slot : db'[x] \in DetailRow BY <1>0, <1>5, <1>10 DEF TypeOK, Slot
  <2> QED BY <2>1, <2>2, <2>3 DEF TypeOK, Slot
<1>12. ASSUME NEW d \in Debt PROVE BookOf(d)'
  <2> DEFINE n == IF Debtor[d] = e THEN j.cuts[d] ELSE 0
  <2>1. n \in Nat /\ j.cuts[d] \in Nat BY <1>3 DEF PayJob
  <2>2. \A x \in Slot \ {r} : db'[x].taken[d] = db[x].taken[d] BY <1>10
  <2>3. db'[r].taken[d] = db[r].taken[d] + n BY <1>5, <1>10
  <2>4. TakenFrom(d)' = TakenFrom(d) + n /\ TakenFrom(d) \in Int
    <3> HIDE DEF n
    <3> QED BY <1>0, <1>4, <2>1, <2>2, <2>3, TakenMore
  <2>5. BookOf(d) BY <1>0 DEF Books
  <2>6. CASE d \in Own(s, e)
    <3>1. n = j.cuts[d] /\ j.cuts[d] > 0 BY <2>6 DEF Own
    <3>2. Exists(d) /\ db[d] \in DebtRow BY <1>0, <1>3, <3>1 DEF TypeOK, Exists
    <3>3. db[d].balance + db[d].handed + TakenFrom(d) = Loan BY <2>5, <3>2 DEF BookOf
    <3>4. /\ db'[d].balance = db[d].balance - j.cuts[d] /\ db'[d].handed = db[d].handed
          /\ db'[d].balance >= 0 /\ db'[d] \in DebtRow
      BY <1>5, <1>10, <2>6
    <3>5. db'[d] # Absent BY <3>4 DEF PayrollConstants
    <3>6. db'[d].balance + db'[d].handed + TakenFrom(d)' = Loan
      <4> HIDE DEF n
      <4> QED BY <2>1, <2>4, <3>1, <3>2, <3>3, <3>4 DEF DebtRow
    <3> QED BY <3>4, <3>5, <3>6 DEF BookOf, Exists
  <2>7. CASE d \notin Own(s, e)
    <3>1. n = 0 BY <2>1, <2>7 DEF Own
    <3>2. db'[d] = db[d] BY <1>10, <2>7
    <3>3. TakenFrom(d)' = TakenFrom(d)
      <4> HIDE DEF n
      <4> QED BY <2>4, <3>1
    <3> QED BY <2>5, <3>2, <3>3 DEF BookOf, Exists
  <2> QED BY <2>6, <2>7
<1>13. Books' BY <1>12 DEF Books
<1>14. \A x \in Sheet \cup Debt : Exists(x) => db'[x] # Absent
  BY <1>5, <1>10 DEF Exists, PayrollConstants
<1>15. Labelled(s)' BY <1>3, <1>8, <1>14 DEF Labelled, Busy, Exists, PayJob
<1>16. Held(s)' BY <1>8 DEF Held
<1>17. \A t \in Session \ {s} : /\ \A x \in DOMAIN mine[t] : db'[x] = db[x]
                                /\ DOMAIN mine'[s] \cap DOMAIN mine[t] = {}
  <2>1. \A t \in Session \ {s} : DOMAIN mine[s] \cap DOMAIN mine[t] = {} BY DEF Sound, Apart
  <2>2. \A t \in Session : DOMAIN mine[t] \subseteq Row BY MineRows, RowsApart
  <2> QED BY <1>8, <2>1, <2>2
<1>18. calm' \in BOOLEAN BY <1>0, <1>8 DEF Kinds
<1> QED BY <1>8, <1>11, <1>13, <1>14, <1>15, <1>16, <1>17, <1>18, Frame

\* The count of the details writes nothing.
LEMMA VerifyKeeps ==
  ASSUME PayrollConstants, Sound, NEW s \in Session, Verify(s)
  PROVE  Sound'
<1>0. Kinds /\ Held(s) /\ Labelled(s) BY DEF Sound
<1>1. CASE Rollback(s) BY <1>1, RollbackKeeps
<1>2. CASE at[s] = "detail" /\ Look(s, "close", job[s])
  <2>1. "close" \in Label BY DEF Label
  <2>2. /\ Others(s) /\ at'[s] = "close" /\ job'[s] = job[s] /\ mine' = mine /\ db' = db
        /\ calm' \in BOOLEAN
    BY <1>0, <1>2, <2>1, LookMoves
  <2>3. Labelled(s)' BY <1>0, <1>2, <2>2 DEF Labelled, Busy, Exists
  <2>4. Held(s)' BY <1>0, <1>2, <2>2 DEF Held
  <2> QED BY <2>2, <2>3, <2>4, NoWrite
<1> QED BY <1>1, <1>2 DEF Verify

\* The end of a request, which has nothing left to publish.
LEMMA EndRequestKeeps ==
  ASSUME PayrollConstants, Sound, NEW s \in Session, EndRequest(s)
  PROVE  Sound'
<1>0. Kinds /\ Held(s) BY DEF Sound
<1>1. at[s] = "commit" /\ Publish(s, "idle", NoJob) BY DEF EndRequest, Commit
<1>2. DOMAIN mine[s] = {} /\ DOMAIN mine[s] \subseteq Row BY <1>0, <1>1 DEF Held
<1>3. "idle" \in Label BY DEF Label
<1>4. /\ Others(s) /\ at'[s] = "idle" /\ DOMAIN mine'[s] = {} /\ calm' = calm
      /\ DOMAIN db' = Row
      /\ \A x \in Row : db'[x] = IF x \in DOMAIN mine[s] THEN mine[s][x] ELSE db[x]
  BY <1>0, <1>1, <1>2, <1>3, PublishMoves
<1>5. \A x \in Row : db'[x] = db[x] BY <1>2, <1>4
<1>6. Books' /\ TypeOK' /\ \A x \in Sheet \cup Debt : Exists(x) => db'[x] # Absent
  BY <1>4, <1>5, SameBooks
<1>7. Labelled(s)' /\ Held(s)' BY <1>4 DEF Labelled, Held, Busy
<1>8. \A t \in Session \ {s} : /\ \A x \in DOMAIN mine[t] : db'[x] = db[x]
                               /\ DOMAIN mine'[s] \cap DOMAIN mine[t] = {}
  <2>1. \A t \in Session : DOMAIN mine[t] \subseteq Row BY MineRows, RowsApart
  <2> QED BY <1>4, <1>5, <2>1
<1>9. calm' \in BOOLEAN BY <1>0, <1>4 DEF Kinds
<1> QED BY <1>4, <1>6, <1>7, <1>8, <1>9, Frame

-----------------------------------------------------------------------------
(* The theorem.                                                             *)

\* Before the first request there is nothing.
LEMMA InitSound == ASSUME PayrollConstants, Init PROVE Sound
<1> DEFINE none == [count |-> 0, net |-> 0, taken |-> [d \in Debt |-> 0]]
<1>1. /\ DOMAIN db = Row
      /\ \A x \in Sheet \cup Debt : db[x] = Absent
      /\ \A x \in Slot : db[x] = none
  BY RowsApart DEF Init
<1>2. none \in DetailRow /\ \A d \in Debt : none.taken[d] = 0 BY DEF DetailRow
<1> HIDE DEF none
<1>3. /\ DOMAIN mine = Session /\ DOMAIN job = Session /\ at = [s \in Session |-> "idle"]
      /\ calm = TRUE /\ \A s \in Session : DOMAIN mine[s] = {}
  BY DEF Init, RequestsInit, Unwritten
<1>4. Kinds BY <1>1, <1>2, <1>3 DEF Kinds, TypeOK, Slot, Label
<1>5. ASSUME NEW d \in Debt PROVE BookOf(d)
  <2> DEFINE f == [r \in Slot |-> db[r].taken[d]]
  <2>1. \A r \in Slot : f[r] = 0 BY <1>1, <1>2
  <2>2. SumFunctionOnSet(f, Slot) = 0
    <3> HIDE DEF f
    <3> QED BY <2>1, SlotsFinite, SumOfZeros
  <2>3. TakenFrom(d) = 0 BY <2>2, TakenSum
  <2> QED BY <1>1, <2>3 DEF BookOf, Exists
<1>6. Apart BY <1>3 DEF Apart
<1>7. \A s \in Session : Labelled(s) /\ Held(s) BY <1>3 DEF Labelled, Held, Busy
<1> QED BY <1>4, <1>5, <1>6, <1>7 DEF Sound, Books

\* Every step keeps the invariant.
LEMMA NextSound == ASSUME PayrollConstants, Sound, [Next]_vars PROVE Sound'
<1>1. CASE UNCHANGED vars
  <2>1. /\ db' = db /\ mine' = mine /\ at' = at /\ job' = job /\ calm' = calm BY <1>1 DEF vars
  <2>2. DOMAIN db' = Row /\ \A x \in Row : db'[x] = db[x] BY <2>1 DEF Sound, Kinds
  <2>3. Books' BY <2>2, SameBooks
  <2>4. Kinds' BY <2>1 DEF Sound, Kinds, TypeOK
  <2>5. Apart' BY <2>1 DEF Sound, Apart
  <2>6. ASSUME NEW s \in Session PROVE Labelled(s)' /\ Held(s)'
    <3>1. Labelled(s) /\ Held(s) BY DEF Sound
    <3>2. Labelled(s)' BY <2>1, <3>1 DEF Labelled, Busy, Exists
    <3>3. Held(s)' BY <2>1, <3>1 DEF Held, Holds, Own
    <3> QED BY <3>2, <3>3
  <2> QED BY <2>3, <2>4, <2>5, <2>6 DEF Sound
<1>2. CASE Next
  <2>1. PICK s \in Session : Debts(s) \/ Processing(s) \/ EndRequest(s) \/ Fail(s)
    BY <1>2 DEF Next
  <2>2. CASE Debts(s)
    BY <2>2, StartKeeps, InsertDebtKeeps, HandPayKeeps, AmendKeeps DEF Debts
  <2>3. CASE Processing(s)
    BY <2>3, OpenSheetKeeps, StartKeeps, InsertDetailKeeps, TakeInstallmentKeeps,
       CommitDetailKeeps, VerifyKeeps, CloseSheetKeeps DEF Processing
  <2>4. CASE EndRequest(s) BY <2>4, EndRequestKeeps
  <2>5. CASE Fail(s) BY <2>5, RollbackKeeps DEF Fail
  <2> QED BY <2>1, <2>2, <2>3, <2>4, <2>5
<1> QED BY <1>1, <1>2

\* What every row holds is a row of its table.
THEOREM PayrollTypeCorrect == PayrollConstants => (Spec => []TypeOK)
<1> SUFFICES ASSUME PayrollConstants PROVE Spec => []TypeOK OBVIOUS
<1>1. Init => Sound BY InitSound
<1>2. Sound /\ [Next]_vars => Sound' BY NextSound
<1>3. Sound => TypeOK BY DEF Sound, Kinds
<1> QED BY <1>1, <1>2, <1>3, PTL DEF Spec

\* A debt is never overpaid, and what left it is what the committed details
\* and the payments by hand took, whatever runs at once and wherever it dies.
THEOREM DebtAlwaysAddsUp == PayrollConstants => (Spec => []DebtAddsUp)
<1> SUFFICES ASSUME PayrollConstants PROVE Spec => []DebtAddsUp OBVIOUS
<1>1. Init => Sound BY InitSound
<1>2. Sound /\ [Next]_vars => Sound' BY NextSound
<1>3. Sound => DebtAddsUp BY DEF Sound, Books, BookOf, DebtAddsUp
<1> QED BY <1>1, <1>2, <1>3, PTL DEF Spec

-----------------------------------------------------------------------------
(* A sheet closes once.                                                     *)

\* The employees a payroll has left behind have a detail of it, and at the
\* close there is nobody else, in a sheet that is open.
Counted(s) ==
  Busy(s) =>
    /\ \A e \in Employee \ job[s].left :
         LET r == Details(job[s].sheet, e, s) IN r \in DOMAIN mine[s] \/ db[r].count > 0
    /\ at[s] = "close" => job[s].left = {} /\ ~db[job[s].sheet].closed

\* A request has given everybody a detail of the sheet.
AllOf(w, s) == \A e \in Employee : db[Details(w, e, s)].count > 0

\* If it works on the sheet once more, it has not begun.
Anew(w, s) == Busy(s) /\ job[s].sheet = w => at[s] = "detail" /\ job[s].left = Employee

\* A closed sheet was closed by such a request.
Whole == \A w \in Sheet : Exists(w) /\ db[w].closed =>
           \E s \in Session : AllOf(w, s) /\ Anew(w, s)

\* As long as no two requests were under way at once, none is but one, and
\* its count of the details is right to the end.
Alone == calm => \A s, t \in Session : s # t => at[s] = "idle" \/ at[t] = "idle"
Exact == \A s \in Session :
           calm /\ at[s] = "close" => Written(job[s].sheet) = Cardinality(Employee)

\* No two are about to close the same sheet: one of them counted too many.
OneCloses ==
  \A s, t \in Session :
    at[s] = "close" /\ at[t] = "close" /\ job[s].sheet = job[t].sheet => s = t

Closing == Whole /\ Alone /\ Exact /\ OneCloses /\ \A s \in Session : Counted(s)

\* With the details of two requests there are more than there are employees.
LEMMA TooMany ==
  ASSUME PayrollConstants, TypeOK, NEW w \in Sheet, NEW s \in Session, NEW t \in Session,
         s # t, AllOf(w, s), AllOf(w, t)
  PROVE  Written(w) # Cardinality(Employee)
<1> DEFINE g == [e \in Employee |-> Details(w, e, s)]
           U == {Details(w, e, s) : e \in Employee}
           f == [r \in Of(w) |-> db[r].count]
<1>1. PICK e0 \in Employee : TRUE BY DEF PayrollConstants
<1> DEFINE r0 == Details(w, e0, t)
<1>2. IsFiniteSet(U) /\ Cardinality(U) = Cardinality(Employee)
  <2>1. g \in Bijection(Employee, U)
    <3>1. g \in [Employee -> U] OBVIOUS
    <3>2. \A a, b \in Employee : g[a] = g[b] => a = b BY DEF Details
    <3>3. \A u \in U : \E a \in Employee : g[a] = u OBVIOUS
    <3> HIDE DEF g, U
    <3> QED BY <3>1, <3>2, <3>3 DEF Bijection, Injection, IsInjective, Surjection
  <2>2. ExistsBijection(Employee, U) BY <2>1 DEF ExistsBijection
  <2> HIDE DEF U
  <2> QED BY <2>2, FS_Bijection DEF PayrollConstants
<1>3. r0 \notin U BY DEF Details
<1>4. IsFiniteSet(Employee) /\ Cardinality(Employee) \in Nat
  BY FS_CardinalityType DEF PayrollConstants
<1>5. Cardinality(U \cup {r0}) = Cardinality(Employee) + 1
  <2> HIDE DEF U, r0
  <2> QED BY <1>2, <1>3, FS_AddElement
<1>6. Of(w) \subseteq Slot /\ U \cup {r0} \in SUBSET Of(w) BY DEF Of, Slot, Details
<1>7. IsFiniteSet(Of(w)) BY <1>6, SlotsFinite, FS_Subset
<1>8. \A r \in Of(w) : f[r] \in Nat BY <1>6 DEF TypeOK, Slot, DetailRow
<1>9. \A r \in U \cup {r0} : f[r] >= 1
  <2>1. ASSUME NEW r \in U \cup {r0} PROVE db[r].count > 0 /\ f[r] = db[r].count
    BY <1>6, <2>1 DEF AllOf
  <2> HIDE DEF f, U, r0
  <2> QED BY <1>6, <1>8, <2>1
<1>10. Cardinality(U \cup {r0}) <= SumFunctionOnSet(f, Of(w))
  <2> HIDE DEF f, U, r0
  <2> QED BY <1>6, <1>7, <1>8, <1>9, SumCounts
<1>11. SumFunctionOnSet(f, Of(w)) \in Nat
  <2> HIDE DEF f
  <2> QED BY <1>7, <1>8, SumNatural
<1>12. Written(w) = SumFunctionOnSet(f, Of(w)) BY DEF Written, SumFunction
<1> HIDE DEF f, U, r0
<1> QED BY <1>4, <1>5, <1>10, <1>11, <1>12

\* Whatever s does, no two were at once only if it is the only one.
LEMMA StaysAlone ==
  ASSUME Closing, NEW s \in Session,
         (at[s] = "idle" /\ calm' = (calm /\ Quiet)) \/ (at[s] # "idle" /\ calm' = calm)
  PROVE  calm' => calm /\ \A t \in Session \ {s} : at[t] = "idle"
BY DEF Closing, Alone, Quiet

\* A step of s that closes no sheet.
LEMMA ClosingFrame ==
  ASSUME PayrollConstants, Sound, Closing, NEW s \in Session, Others(s),
         (at[s] = "idle" /\ calm' = (calm /\ Quiet)) \/ (at[s] # "idle" /\ calm' = calm),
         \A r \in Slot : db[r].count > 0 => db'[r].count > 0,
         \A w \in Sheet : IF Exists(w) THEN db'[w] = db[w]
                          ELSE db'[w] # Absent => ~db'[w].closed,
         Counted(s)',
         \A w \in Sheet : Exists(w) /\ db[w].closed /\ Anew(w, s) => Anew(w, s)',
         at'[s] = "close" =>
           /\ \A t \in Session \ {s} : at[t] = "close" => job[t].sheet # job'[s].sheet
           /\ calm' => (Written(job[s].sheet) = Cardinality(Employee))'
  PROVE  Closing' /\ ClosesOnce
<1>0. \A t \in Session \ {s} : mine'[t] = mine[t] /\ at'[t] = at[t] /\ job'[t] = job[t]
  BY DEF Others
<1>1. calm' => calm /\ \A t \in Session \ {s} : at[t] = "idle" BY StaysAlone
<1>2. Alone' BY <1>0, <1>1 DEF Alone
<1>3. Exact'
  <2> SUFFICES ASSUME NEW t \in Session, calm', at'[t] = "close"
               PROVE  (Written(job[t].sheet) = Cardinality(Employee))'
    BY DEF Exact
  <2>1. t = s BY <1>0, <1>1
  <2> QED BY <2>1
<1>4. OneCloses' BY <1>0 DEF OneCloses, Closing
<1>5. ASSUME NEW t \in Session, t # s PROVE Counted(t)'
  <2>1. mine'[t] = mine[t] /\ at'[t] = at[t] /\ job'[t] = job[t] BY <1>0, <1>5
  <2>2. Counted(t) /\ Labelled(t) BY DEF Closing, Sound
  <2>3. CASE Busy(t)
    <3>1. job[t].sheet \in Sheet /\ Exists(job[t].sheet) BY <2>2, <2>3 DEF Labelled, PayJob
    <3>2. db'[job[t].sheet] = db[job[t].sheet] BY <3>1
    <3>3. \A e \in Employee : Details(job[t].sheet, e, t) \in Slot BY <3>1, RowsApart
    <3> QED BY <2>1, <2>2, <2>3, <3>2, <3>3 DEF Counted, Busy
  <2>4. CASE ~Busy(t) BY <2>1, <2>4 DEF Counted, Busy
  <2> QED BY <2>3, <2>4
<1>6. Whole'
  <2> SUFFICES ASSUME NEW w \in Sheet, db'[w] # Absent, db'[w].closed
               PROVE  \E t \in Session : AllOf(w, t)' /\ Anew(w, t)'
    BY DEF Whole, Exists
  <2>1. Exists(w) /\ db[w].closed OBVIOUS
  <2>2. PICK t \in Session : AllOf(w, t) /\ Anew(w, t) BY <2>1 DEF Closing, Whole
  <2>3. AllOf(w, t)' BY <2>2, RowsApart DEF AllOf
  <2>4. Anew(w, t)'
    <3>1. CASE t = s BY <2>1, <2>2, <3>1
    <3>2. CASE t # s BY <1>0, <2>2, <3>2 DEF Anew, Busy
    <3> QED BY <3>1, <3>2
  <2> QED BY <2>3, <2>4
<1>7. ClosesOnce BY DEF ClosesOnce
<1> QED BY <1>2, <1>3, <1>4, <1>5, <1>6, <1>7 DEF Closing

\* The requests about a debt, new sheets, and the ends of requests.
LEMMA OtherStepsClosing ==
  ASSUME PayrollConstants, Sound, Closing, NEW s \in Session, Others(s), ~Busy(s)',
         (at[s] = "idle" /\ calm' = (calm /\ Quiet)) \/ (at[s] # "idle" /\ calm' = calm),
         \A r \in Slot : db'[r] = db[r],
         \A w \in Sheet : IF Exists(w) THEN db'[w] = db[w]
                          ELSE db'[w] # Absent => ~db'[w].closed
  PROVE  Closing' /\ ClosesOnce
<1>1. Counted(s)' BY DEF Counted
<1>2. \A w \in Sheet : Anew(w, s)' BY DEF Anew
<1>3. at'[s] # "close" BY DEF Busy
<1>4. \A r \in Slot : db[r].count > 0 => db'[r].count > 0 OBVIOUS
<1> QED BY <1>1, <1>2, <1>3, <1>4, ClosingFrame

\* ROLLBACK closes no sheet.
LEMMA RollbackCloses ==
  ASSUME PayrollConstants, Sound, Closing, NEW s \in Session, at[s] # "idle", Rollback(s)
  PROVE  Closing' /\ ClosesOnce
<1>1. Kinds BY DEF Sound
<1>2. Others(s) /\ at'[s] = "idle" /\ db' = db /\ calm' = calm BY <1>1, RollbackMoves
<1>3. ~Busy(s)' BY <1>2 DEF Busy
<1>4. /\ \A r \in Slot : db'[r] = db[r]
      /\ \A w \in Sheet : IF Exists(w) THEN db'[w] = db[w] ELSE db'[w] # Absent => ~db'[w].closed
  BY <1>2 DEF Exists
<1> QED BY <1>2, <1>3, <1>4, OtherStepsClosing

\* What is done about debts closes no sheet.
LEMMA DebtsClose ==
  ASSUME PayrollConstants, Sound, Closing, NEW s \in Session, Debts(s)
  PROVE  Closing' /\ ClosesOnce
<1>0. Kinds /\ Labelled(s) BY DEF Sound
<1> DEFINE Other == /\ Others(s) /\ ~Busy(s)'
                    /\ \/ at[s] = "idle" /\ calm' = (calm /\ Quiet)
                       \/ at[s] # "idle" /\ calm' = calm
                    /\ \A r \in Slot : db'[r] = db[r]
                    /\ \A w \in Sheet : db'[w] = db[w]
<1>1. ASSUME NEW label \in {"lend", "hand"}, NEW j, Begin(s, label, j) PROVE Other
  <2>1. label \in Label /\ at[s] = "idle" /\ calm' = (calm /\ Quiet) BY <1>1 DEF Label, Begin
  <2>2. Others(s) /\ at'[s] = label /\ db' = db BY <1>0, <1>1, <2>1, LookMoves
  <2> QED BY <2>1, <2>2 DEF Busy
<1>2. ASSUME NEW d \in Debt, NEW new, DOMAIN new = {d}, at[s] # "idle",
             Apply(s, new, "commit", job[s])
      PROVE  Other
  <2>1. /\ \A y \in Row \ {d} : db'[y] = db[y]
        /\ Others(s) /\ at'[s] = "commit" /\ calm' = calm
    BY ONLY <1>2, PayrollConstants, Sound, s \in Session, AppliedRow
  <2> QED BY <1>2, <2>1, RowsApart DEF Busy
<1>3. CASE StartDebt(s)
  <2>1. PICK d \in Debt : Begin(s, "lend", [debt |-> d]) BY <1>3 DEF StartDebt
  <2>2. Other BY <1>1, <2>1
  <2> QED BY <2>2, OtherStepsClosing DEF Exists
<1>4. CASE StartHandPay(s)
  <2>1. PICK d \in Debt, n \in 1 .. Loan : Begin(s, "hand", [debt |-> d, amount |-> n])
    BY <1>4 DEF StartHandPay
  <2>2. Other BY <1>1, <2>1
  <2> QED BY <2>2, OtherStepsClosing DEF Exists
<1>5. CASE InsertDebt(s)
  <2> DEFINE d == job[s].debt
             new == [r \in {d} |-> [balance |-> Loan, active |-> TRUE, handed |-> 0]]
  <2>1. at[s] = "lend" /\ Apply(s, new, "commit", job[s]) BY <1>5 DEF InsertDebt
  <2>2. d \in Debt BY <1>0, <2>1 DEF Labelled
  <2>3. DOMAIN new = {d} OBVIOUS
  <2> HIDE DEF new, d
  <2>4. Other BY <1>2, <2>1, <2>2, <2>3
  <2> QED BY <2>4, OtherStepsClosing DEF Exists
<1>6. CASE HandPay(s)
  <2> DEFINE d == job[s].debt
             new == [r \in {d} |-> [balance |-> db[d].balance - job[s].amount,
                                    active |-> db[d].balance > job[s].amount,
                                    handed |-> db[d].handed + job[s].amount]]
  <2>1. at[s] = "hand" BY <1>6 DEF HandPay
  <2>2. CASE Rollback(s) BY <2>1, <2>2, RollbackCloses
  <2>3. CASE Apply(s, new, "commit", job[s])
    <3>1. d \in Debt BY <1>0, <2>1 DEF Labelled
    <3>2. DOMAIN new = {d} OBVIOUS
    <3> HIDE DEF new, d
    <3>3. Other BY <1>2, <2>1, <2>3, <3>1, <3>2
    <3> QED BY <3>3, OtherStepsClosing DEF Exists
  <2> QED BY <1>6, <2>2, <2>3 DEF HandPay
<1>7. CASE Amend(s)
  <2>1. at[s] = "idle" /\ UNCHANGED <<mine, at, job>> /\ calm' = (calm /\ Quiet)
    BY <1>7 DEF Amend
  <2>2. PICK d \in Debt : \E row : db' = [db EXCEPT ![d] = row] BY <1>7 DEF Amend
  <2>3. \A x \in Sheet \cup Slot : db'[x] = db[x] BY <1>0, <2>2, RowsApart DEF Kinds
  <2>4. Others(s) /\ ~Busy(s)' BY <1>0, <2>1 DEF Others, Kinds, Busy
  <2>5. Other BY <2>1, <2>3, <2>4
  <2> QED BY <2>5, OtherStepsClosing DEF Exists
<1> QED BY <1>3, <1>4, <1>5, <1>6, <1>7 DEF Debts

\* A new sheet is open.
LEMMA OpenSheetCloses ==
  ASSUME PayrollConstants, Sound, Closing, NEW s \in Session, OpenSheet(s)
  PROVE  Closing' /\ ClosesOnce
<1>0. Kinds BY DEF Sound
<1>1. at[s] = "idle" /\ UNCHANGED <<mine, at, job>> /\ calm' = (calm /\ Quiet) BY DEF OpenSheet
<1>2. PICK w \in Sheet : ~Exists(w) /\ db' = [db EXCEPT ![w] = [closed |-> FALSE, net |-> 0]]
  BY DEF OpenSheet
<1>3. /\ \A x \in Slot : db'[x] = db[x]
      /\ \A x \in Sheet \ {w} : db'[x] = db[x]
      /\ ~db'[w].closed
  BY <1>0, <1>2, RowsApart DEF Kinds
<1>4. \A x \in Sheet : IF Exists(x) THEN db'[x] = db[x] ELSE db'[x] # Absent => ~db'[x].closed
  BY <1>2, <1>3 DEF Exists
<1>5. Others(s) /\ ~Busy(s)' BY <1>0, <1>1 DEF Others, Kinds, Busy
<1> QED BY <1>1, <1>3, <1>4, <1>5, OtherStepsClosing

\* A payroll begins with everybody left.
LEMMA StartPayrollCloses ==
  ASSUME PayrollConstants, Sound, Closing, NEW s \in Session, StartPayroll(s)
  PROVE  Closing' /\ ClosesOnce
<1> DEFINE j(w) == [sheet |-> w, left |-> Employee, cuts |-> Installments, due |-> {}]
<1>0. Kinds BY DEF Sound
<1>1. PICK w \in Sheet : Begin(s, "detail", j(w)) BY DEF StartPayroll
<1>2. "detail" \in Label /\ at[s] = "idle" /\ calm' = (calm /\ Quiet) BY <1>1 DEF Label, Begin
<1>3. j(w).left = Employee OBVIOUS
<1> HIDE DEF j
<1>4. Others(s) /\ at'[s] = "detail" /\ job'[s] = j(w) /\ db' = db BY <1>0, <1>1, <1>2, LookMoves
<1>5. Counted(s)' BY <1>3, <1>4 DEF Counted
<1>6. \A x \in Sheet : Anew(x, s)' BY <1>3, <1>4 DEF Anew
<1>7. /\ \A r \in Slot : db[r].count > 0 => db'[r].count > 0
      /\ \A x \in Sheet : IF Exists(x) THEN db'[x] = db[x] ELSE db'[x] # Absent => ~db'[x].closed
  BY <1>4 DEF Exists
<1> QED BY <1>2, <1>4, <1>5, <1>6, <1>7, ClosingFrame

\* A write within the transaction of a detail: the sheet it is for is open, or
\* was open when the transaction began.
LEMMA CutCloses ==
  ASSUME PayrollConstants, Sound, Closing, NEW s \in Session, Others(s), at[s] # "idle",
         at'[s] = "cut", db' = db, calm' = calm, job'[s].sheet = job[s].sheet, Counted(s)',
         Exists(job[s].sheet) /\ db[job[s].sheet].closed => ~Anew(job[s].sheet, s)
  PROVE  Closing' /\ ClosesOnce
<1>1. /\ \A r \in Slot : db[r].count > 0 => db'[r].count > 0
      /\ \A x \in Sheet : IF Exists(x) THEN db'[x] = db[x] ELSE db'[x] # Absent => ~db'[x].closed
  BY DEF Exists
<1>2. \A w \in Sheet : Exists(w) /\ db[w].closed /\ Anew(w, s) => Anew(w, s)'
  BY DEF Anew
<1> QED BY <1>1, <1>2, ClosingFrame

\* A detail is inserted in a sheet that is open.
LEMMA InsertDetailCloses ==
  ASSUME PayrollConstants, Sound, Closing, NEW s \in Session, InsertDetail(s)
  PROVE  Closing' /\ ClosesOnce
<1> DEFINE j == job[s]
<1>0. Kinds /\ Held(s) /\ Labelled(s) /\ Counted(s) BY DEF Sound, Closing
<1>1. at[s] = "detail" BY DEF InsertDetail
<1>2. CASE Rollback(s) BY <1>1, <1>2, RollbackCloses
<1>3. CASE ~db[j.sheet].closed /\ \E e \in j.left : Detail(s, e)
  <2>1. PICK e \in j.left : Detail(s, e) BY <1>3
  <2> DEFINE r == Details(j.sheet, e, s)
             cuts == [d \in Debt |-> IF Debtor[d] = e THEN j.cuts[d] ELSE 0]
             new == [x \in {r} |-> [count |-> db[r].count + 1,
                                    net |-> db[r].net + Salary - SumFunction(cuts),
                                    taken |-> [d \in Debt |-> db[r].taken[d] + cuts[d]]]]
             next == [j EXCEPT !.left = @ \ {e}, !.due = {d \in Debt : cuts[d] > 0}]
  <2>2. j \in PayJob BY <1>0, <1>1 DEF Labelled, Busy
  <2>3. Write(s, new, "cut", next) BY <2>1 DEF Detail
  <2>4. DOMAIN new = {r} OBVIOUS
  <2>5. next.sheet = j.sheet /\ next.left = j.left \ {e} BY <2>2 DEF PayJob
  <2>6. "cut" \in Label /\ DOMAIN mine[s] = {} BY <1>0, <1>1 DEF Label, Held
  <2> HIDE DEF new, next
  <2>7. /\ Others(s) /\ at'[s] = "cut" /\ job'[s] = next /\ mine'[s] = Over(new, mine[s])
        /\ db' = db /\ calm' = calm
    BY <1>0, <2>3, <2>6, WriteMoves
  <2>8. r \in DOMAIN mine'[s] BY <2>4, <2>7 DEF Over
  <2>9. \A x \in Employee \ j.left : db[Details(j.sheet, x, s)].count > 0
    BY <1>0, <1>1, <2>6 DEF Counted, Busy
  <2>10. Counted(s)' BY <2>5, <2>7, <2>8, <2>9 DEF Counted
  <2>11. job'[s].sheet = j.sheet /\ ~db[j.sheet].closed BY <1>3, <2>5, <2>7
  <2> HIDE DEF r, cuts
  <2> QED BY <1>1, <2>7, <2>10, <2>11, CutCloses
<1> QED BY <1>2, <1>3 DEF InsertDetail

\* An instalment leaves the sheets as they are.
LEMMA TakeInstallmentCloses ==
  ASSUME PayrollConstants, Sound, Closing, NEW s \in Session, TakeInstallment(s)
  PROVE  Closing' /\ ClosesOnce
<1> DEFINE j == job[s]
           rest(d) == Sees(s, d).balance - j.cuts[d]
           row(d) == [Sees(s, d) EXCEPT !.balance = rest(d), !.active = rest(d) > 0]
           next(d) == [j EXCEPT !.due = @ \ {d}]
           new(d) == [x \in {d} |-> row(d)]
<1>0. Kinds /\ Labelled(s) /\ Counted(s) BY DEF Sound, Closing
<1>1. at[s] = "cut" BY DEF TakeInstallment
<1>2. PICK d \in j.due : IF rest(d) < 0 THEN Rollback(s) ELSE Write(s, new(d), "cut", next(d))
  BY DEF TakeInstallment
<1>3. CASE Rollback(s) BY <1>1, <1>3, RollbackCloses
<1>4. CASE Write(s, new(d), "cut", next(d))
  <2>1. j \in PayJob BY <1>0, <1>1 DEF Labelled, Busy
  <2>2. next(d).sheet = j.sheet /\ next(d).left = j.left BY <2>1 DEF PayJob
  <2>3. "cut" \in Label BY DEF Label
  <2> HIDE DEF new, next, row, rest
  <2>4. /\ Others(s) /\ at'[s] = "cut" /\ job'[s] = next(d) /\ mine'[s] = Over(new(d), mine[s])
        /\ db' = db /\ calm' = calm
    BY <1>0, <1>4, <2>3, WriteMoves
  <2>5. DOMAIN mine[s] \subseteq DOMAIN mine'[s] BY <2>4 DEF Over
  <2>6. job'[s].sheet = j.sheet /\ job'[s].left = j.left BY <2>2, <2>4
  <2>7. Counted(s)' BY <1>0, <1>1, <2>4, <2>5, <2>6 DEF Counted, Busy
  <2>8. ~Anew(j.sheet, s) BY <1>1 DEF Anew, Busy
  <2> QED BY <1>1, <2>4, <2>6, <2>7, <2>8, CutCloses
<1> QED BY <1>2, <1>3, <1>4

\* COMMIT of a detail: its employee has one.
LEMMA CommitDetailCloses ==
  ASSUME PayrollConstants, Sound, Closing, NEW s \in Session, CommitDetail(s)
  PROVE  Closing' /\ ClosesOnce
<1> DEFINE j == job[s]
<1>0. Kinds /\ Held(s) /\ Labelled(s) /\ Counted(s) BY DEF Sound, Closing
<1>1. at[s] = "cut" /\ Publish(s, "detail", j) BY DEF CommitDetail
<1>2. PICK e \in Employee : Holds(s, e) BY <1>0, <1>1 DEF Held
<1> DEFINE r == Details(j.sheet, e, s)
<1>3. j \in PayJob BY <1>0, <1>1 DEF Labelled, Busy
<1>4. r \in Slot BY <1>3, RowsApart DEF PayJob
<1>5. DOMAIN mine[s] \cap Slot = {r} /\ mine[s][r].count = db[r].count + 1
      /\ DOMAIN mine[s] \subseteq Slot \cup Debt
  <2>1. DOMAIN mine[s] = {r} \cup (Own(s, e) \ j.due) /\ mine[s][r].count = db[r].count + 1
    BY <1>2 DEF Holds
  <2> HIDE DEF r
  <2> QED BY <1>4, <2>1, RowsApart DEF Own
<1>6. "detail" \in Label /\ DOMAIN mine[s] \subseteq Row BY <1>5, RowsApart DEF Label
<1>7. /\ Others(s) /\ at'[s] = "detail" /\ job'[s] = j /\ calm' = calm
      /\ \A x \in Row : db'[x] = IF x \in DOMAIN mine[s] THEN mine[s][x] ELSE db[x]
  BY <1>0, <1>1, <1>6, PublishMoves
<1>8. db[r].count \in Nat BY <1>0, <1>4 DEF Kinds, TypeOK, Slot, DetailRow
<1> HIDE DEF r
<1>9. /\ db'[r].count > 0
      /\ \A x \in Slot \ {r} : db'[x] = db[x]
      /\ \A w \in Sheet : db'[w] = db[w]
  <2>1. db'[r].count = db[r].count + 1 BY <1>4, <1>5, <1>7, RowsApart
  <2>2. \A x \in Slot \ {r} : x \in Row /\ x \notin DOMAIN mine[s] BY <1>5, RowsApart
  <2>3. \A w \in Sheet : w \in Row /\ w \notin DOMAIN mine[s] BY <1>5, RowsApart
  <2> QED BY <1>7, <1>8, <2>1, <2>2, <2>3
<1>10. \A x \in Slot : db[x].count > 0 => db'[x].count > 0 BY <1>9
<1>11. ASSUME NEW x \in Employee \ j.left PROVE db'[Details(j.sheet, x, s)].count > 0
  <2> DEFINE q == Details(j.sheet, x, s)
  <2>1. q \in Slot BY <1>3, RowsApart DEF PayJob
  <2>2. q \in DOMAIN mine[s] \/ db[q].count > 0 BY <1>0, <1>1 DEF Counted, Busy
  <2> HIDE DEF q
  <2>3. q \in DOMAIN mine[s] => q = r BY <1>5, <2>1
  <2>4. db'[q].count > 0 BY <1>9, <1>10, <2>1, <2>2, <2>3
  <2> QED BY <2>4 DEF q
<1>12. Counted(s)' BY <1>7, <1>11 DEF Counted
<1>13. \A w \in Sheet : Exists(w) /\ db[w].closed /\ Anew(w, s) => Anew(w, s)'
  BY <1>1, <1>7 DEF Anew, Busy
<1>14. \A w \in Sheet : IF Exists(w) THEN db'[w] = db[w] ELSE db'[w] # Absent => ~db'[w].closed
  BY <1>9 DEF Exists
<1> QED BY <1>1, <1>7, <1>10, <1>12, <1>13, <1>14, ClosingFrame

\* A payroll that counts as many details as employees is the only one that
\* gave everybody one, and the sheet is open.
LEMMA VerifyCloses ==
  ASSUME PayrollConstants, Sound, Closing, NEW s \in Session, Verify(s)
  PROVE  Closing' /\ ClosesOnce
<1> DEFINE j == job[s]  w == j.sheet
<1>0. Kinds /\ Held(s) /\ Labelled(s) /\ Counted(s) /\ TypeOK BY DEF Sound, Closing, Kinds
<1>1. at[s] = "detail" /\ j.left = {} BY DEF Verify
<1>2. CASE Rollback(s) BY <1>1, <1>2, RollbackCloses
<1>3. CASE Written(w) = Cardinality(Employee) /\ Look(s, "close", j)
  <2>1. "close" \in Label /\ calm' = calm BY <1>3 DEF Label, Look
  <2>2. Others(s) /\ at'[s] = "close" /\ job'[s] = j /\ mine' = mine /\ db' = db
    BY <1>0, <1>3, <2>1, LookMoves
  <2>3. j \in PayJob /\ w \in Sheet /\ Exists(w) BY <1>0, <1>1 DEF Labelled, Busy, PayJob
  <2>4. DOMAIN mine[s] = {} BY <1>0, <1>1 DEF Held
  <2>5. AllOf(w, s) BY <1>0, <1>1, <2>4 DEF Counted, Busy, AllOf
  <2>6. \A t \in Session \ {s} : ~AllOf(w, t) BY <1>0, <1>3, <2>3, <2>5, TooMany
  <2>7. ~db[w].closed
    <3>1. ASSUME db[w].closed PROVE FALSE
      <4>1. PICK t \in Session : AllOf(w, t) /\ Anew(w, t) BY <2>3, <3>1 DEF Closing, Whole
      <4>2. t = s BY <2>6, <4>1
      <4>3. j.left = Employee BY <1>1, <4>1, <4>2 DEF Anew, Busy
      <4> QED BY <1>1, <4>3 DEF PayrollConstants
    <3> QED BY <3>1
  <2>8. ASSUME NEW t \in Session \ {s}, at[t] = "close" PROVE job[t].sheet # w
    <3>1. Counted(t) /\ Held(t) BY DEF Sound, Closing
    <3>2. DOMAIN mine[t] = {} /\ job[t].left = {} BY <2>8, <3>1 DEF Held, Counted, Busy
    <3>3. AllOf(job[t].sheet, t) BY <2>8, <3>1, <3>2 DEF Counted, Busy, AllOf
    <3> QED BY <2>6, <3>3
  <2>9. Counted(s)'
    <3>1. \A e \in Employee : db'[Details(w, e, s)].count > 0 BY <2>2, <2>5 DEF AllOf
    <3> QED BY <1>1, <2>2, <2>7, <3>1 DEF Counted
  <2>10. (Written(job[s].sheet) = Cardinality(Employee))'
    BY <1>3, <2>2 DEF Written, Of
  <2>11. \A x \in Sheet : Exists(x) /\ db[x].closed /\ Anew(x, s) => Anew(x, s)'
    BY <2>2, <2>7 DEF Anew
  <2>12. /\ \A r \in Slot : db[r].count > 0 => db'[r].count > 0
         /\ \A x \in Sheet : IF Exists(x) THEN db'[x] = db[x] ELSE db'[x] # Absent => ~db'[x].closed
    BY <2>2 DEF Exists
  <2> QED BY <1>1, <2>1, <2>2, <2>8, <2>9, <2>10, <2>11, <2>12, ClosingFrame
<1> QED BY <1>2, <1>3 DEF Verify

\* The close: everybody has a detail, and if no two were at once just one.
LEMMA CloseSheetCloses ==
  ASSUME PayrollConstants, Sound, Closing, NEW s \in Session, CloseSheet(s)
  PROVE  Closing' /\ ClosesOnce
<1> DEFINE w == job[s].sheet
           row == [closed |-> TRUE, net |-> NetOf(w)]
           new == [r \in {w} |-> row]
<1>0. Kinds /\ Held(s) /\ Labelled(s) /\ Counted(s) BY DEF Sound, Closing
<1>1. at[s] = "close" /\ Apply(s, new, "commit", job[s]) BY DEF CloseSheet
<1>2. w \in Sheet /\ Exists(w) BY <1>0, <1>1 DEF Labelled, Busy, PayJob
<1>3. /\ DOMAIN new = {w} /\ new[w] = row /\ row.closed = TRUE /\ row.net = NetOf(w)
  OBVIOUS
<1>4. ~db[w].closed /\ AllOf(w, s)
  <2>1. DOMAIN mine[s] = {} BY <1>0, <1>1 DEF Held
  <2> QED BY <1>0, <1>1, <2>1 DEF Counted, Busy, AllOf
<1>5. calm => Written(w) = Cardinality(Employee) BY <1>1 DEF Closing, Exact
<1> HIDE DEF new, row
<1>6. /\ db'[w] = row /\ \A y \in Row \ {w} : db'[y] = db[y]
      /\ Others(s) /\ at'[s] = "commit" /\ mine' = mine /\ calm' = calm
  <2>1. w \in Sheet \cup Debt /\ DOMAIN new = {w} /\ new[w] = row BY <1>2, <1>3
  <2>2. Apply(s, new, "commit", job[s]) BY <1>1
  <2> HIDE DEF w
  <2> QED BY ONLY <2>1, <2>2, PayrollConstants, Sound, s \in Session, AppliedRow
<1>7. \A x \in Slot : db'[x] = db[x] BY <1>2, <1>6, RowsApart
<1>8. \A x \in Sheet \ {w} : db'[x] = db[x] BY <1>6, RowsApart
<1>9. \A t \in Session \ {s} : mine'[t] = mine[t] /\ at'[t] = at[t] /\ job'[t] = job[t]
  BY <1>6 DEF Others
<1>10. Alone' BY <1>1, <1>6, <1>9 DEF Closing, Alone
<1>11. Exact'
  <2>1. \A t \in Session : calm' => at'[t] # "close" BY <1>1, <1>6, <1>9 DEF Closing, Alone
  <2> QED BY <2>1 DEF Exact
<1>12. OneCloses' BY <1>6, <1>9 DEF OneCloses, Closing
<1>13. ASSUME NEW t \in Session PROVE Counted(t)'
  <2>1. CASE t = s BY <1>6, <2>1 DEF Counted, Busy
  <2>2. CASE t # s
    <3>1. mine'[t] = mine[t] /\ at'[t] = at[t] /\ job'[t] = job[t] BY <1>9, <2>2
    <3>2. Counted(t) /\ Labelled(t) BY DEF Closing, Sound
    <3>3. CASE Busy(t)
      <4>1. job[t].sheet \in Sheet BY <3>2, <3>3 DEF Labelled, PayJob
      <4>2. \A e \in Employee : Details(job[t].sheet, e, t) \in Slot BY <4>1, RowsApart
      <4>3. at[t] = "close" => job[t].sheet # w BY <1>1, <2>2 DEF Closing, OneCloses
      <4>4. at[t] = "close" => db'[job[t].sheet] = db[job[t].sheet] BY <1>8, <4>1, <4>3
      <4> HIDE DEF w
      <4> QED BY <1>7, <3>1, <3>2, <3>3, <4>2, <4>4 DEF Counted, Busy
    <3>4. CASE ~Busy(t) BY <3>1, <3>4 DEF Counted, Busy
    <3> QED BY <3>3, <3>4
  <2> QED BY <2>1, <2>2
<1>14. Whole'
  <2> SUFFICES ASSUME NEW x \in Sheet, db'[x] # Absent, db'[x].closed
               PROVE  \E t \in Session : AllOf(x, t)' /\ Anew(x, t)'
    BY DEF Whole, Exists
  <2>1. \A t \in Session : AllOf(x, t) => AllOf(x, t)' BY <1>7, RowsApart DEF AllOf
  <2>2. \A y \in Sheet : Anew(y, s)' BY <1>6 DEF Anew, Busy
  <2>3. CASE x = w
    <3> HIDE DEF w
    <3> QED BY <1>4, <2>1, <2>2, <2>3
  <2>4. CASE x # w
    <3>1. Exists(x) /\ db[x].closed BY <1>8, <2>4 DEF Exists
    <3>2. PICK t \in Session : AllOf(x, t) /\ Anew(x, t) BY <3>1 DEF Closing, Whole
    <3>3. Anew(x, t)'
      <4>1. CASE t = s BY <2>2, <4>1
      <4>2. CASE t # s BY <1>9, <3>2, <4>2 DEF Anew, Busy
      <4> QED BY <4>1, <4>2
    <3> QED BY <2>1, <3>2, <3>3
  <2> QED BY <2>3, <2>4
<1>15. ClosesOnce
  <2> SUFFICES ASSUME NEW x \in Sheet, Exists(x)
               PROVE  IF db[x].closed THEN db'[x] = db[x]
                      ELSE db'[x].closed =>
                             /\ \A e \in Employee : \E t \in Session : db[Details(x, e, t)].count > 0
                             /\ calm => /\ Written(x) = Cardinality(Employee)
                                        /\ db'[x].net = NetOf(x)
    BY DEF ClosesOnce
  <2>1. CASE x # w BY <1>8, <2>1
  <2>2. CASE x = w
    <3>1. \A e \in Employee : db[Details(w, e, s)].count > 0 BY <1>4 DEF AllOf
    <3>2. db'[w].net = NetOf(w) BY <1>3, <1>6
    <3> HIDE DEF w
    <3> QED BY <1>4, <1>5, <2>2, <3>1, <3>2
  <2> QED BY <2>1, <2>2
<1> QED BY <1>10, <1>11, <1>12, <1>13, <1>14, <1>15 DEF Closing

\* The end of a request.
LEMMA EndRequestCloses ==
  ASSUME PayrollConstants, Sound, Closing, NEW s \in Session, EndRequest(s)
  PROVE  Closing' /\ ClosesOnce
<1>0. Kinds /\ Held(s) BY DEF Sound
<1>1. at[s] = "commit" /\ Publish(s, "idle", NoJob) BY DEF EndRequest, Commit
<1>2. DOMAIN mine[s] = {} /\ DOMAIN mine[s] \subseteq Row BY <1>0, <1>1 DEF Held
<1>3. "idle" \in Label BY DEF Label
<1>4. /\ Others(s) /\ at'[s] = "idle" /\ calm' = calm
      /\ \A x \in Row : db'[x] = IF x \in DOMAIN mine[s] THEN mine[s][x] ELSE db[x]
  BY <1>0, <1>1, <1>2, <1>3, PublishMoves
<1>5. \A x \in Sheet \cup Slot : db'[x] = db[x] BY <1>2, <1>4, RowsApart
<1>6. ~Busy(s)' BY <1>4 DEF Busy
<1> QED BY <1>1, <1>4, <1>5, <1>6, OtherStepsClosing DEF Exists

\* Before the first request no sheet is closed and none is about to be.
LEMMA InitClosing == ASSUME PayrollConstants, Init PROVE Closing
<1>1. /\ \A x \in Sheet : db[x] = Absent
      /\ \A s \in Session : at[s] = "idle"
  BY RowsApart DEF Init, RequestsInit
<1>2. Whole BY <1>1 DEF Whole, Exists
<1> QED BY <1>1, <1>2 DEF Closing, Alone, Exact, OneCloses, Counted, Busy

\* Every step keeps the invariant, and closes no sheet but as it should.
LEMMA NextCloses ==
  ASSUME PayrollConstants, Sound, Closing, [Next]_vars
  PROVE  Closing' /\ [ClosesOnce]_vars
<1>1. CASE UNCHANGED vars
  <2>1. /\ db' = db /\ mine' = mine /\ at' = at /\ job' = job /\ calm' = calm BY <1>1 DEF vars
  <2>2. Whole' BY <2>1 DEF Closing, Whole, Exists, AllOf, Anew, Busy
  <2>3. Alone' /\ OneCloses' BY <2>1 DEF Closing, Alone, OneCloses
  <2>4. Exact' BY <2>1 DEF Closing, Exact, Written, Of
  <2>5. ASSUME NEW s \in Session PROVE Counted(s)'
    <3>1. Counted(s) BY DEF Closing
    <3> QED BY <2>1, <3>1 DEF Counted, Busy
  <2> QED BY <1>1, <2>2, <2>3, <2>4, <2>5 DEF Closing
<1>2. CASE Next
  <2>1. PICK s \in Session : Debts(s) \/ Processing(s) \/ EndRequest(s) \/ Fail(s)
    BY <1>2 DEF Next
  <2>2. CASE Debts(s) BY <2>2, DebtsClose
  <2>3. CASE Processing(s)
    BY <2>3, OpenSheetCloses, StartPayrollCloses, InsertDetailCloses, TakeInstallmentCloses,
       CommitDetailCloses, VerifyCloses, CloseSheetCloses DEF Processing
  <2>4. CASE EndRequest(s) BY <2>4, EndRequestCloses
  <2>5. CASE Fail(s) BY <2>5, RollbackCloses DEF Fail
  <2> QED BY <2>1, <2>2, <2>3, <2>4, <2>5
<1> QED BY <1>1, <1>2

\* A paysheet closes once and is not touched again; when it does every
\* employee has a detail in it, and, unless two requests ran at once, exactly
\* one, and its net is their sum.
THEOREM SheetAlwaysClosesOnce == PayrollConstants => (Spec => SheetClosesOnce)
<1> SUFFICES ASSUME PayrollConstants PROVE Spec => [][ClosesOnce]_vars
  BY DEF SheetClosesOnce
<1>1. Init => Sound /\ Closing BY InitSound, InitClosing
<1>2. Sound /\ Closing /\ [Next]_vars => Sound' /\ Closing' /\ [ClosesOnce]_vars
  BY NextSound, NextCloses
<1> QED BY <1>1, <1>2, PTL DEF Spec

\* For a module that has payroll as one of its parts: the invariant is inductive.
THEOREM PayrollSteps ==
  PayrollConstants =>
    /\ Init => Sound /\ Closing
    /\ Sound /\ Closing /\ [Next]_vars => Sound' /\ Closing' /\ [ClosesOnce]_vars
    /\ Sound => DebtAddsUp
<1> SUFFICES ASSUME PayrollConstants
             PROVE  /\ Init => Sound /\ Closing
                    /\ Sound /\ Closing /\ [Next]_vars => Sound' /\ Closing' /\ [ClosesOnce]_vars
                    /\ Sound => DebtAddsUp
  OBVIOUS
<1>1. Init => Sound /\ Closing BY InitSound, InitClosing
<1>2. Sound /\ Closing /\ [Next]_vars => Sound' /\ Closing' /\ [ClosesOnce]_vars
  BY NextSound, NextCloses
<1>3. Sound => DebtAddsUp BY DEF Sound, Books, BookOf, DebtAddsUp
<1> QED BY <1>1, <1>2, <1>3

=============================================================================
