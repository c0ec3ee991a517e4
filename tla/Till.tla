-------------------------------- MODULE Till --------------------------------
(***************************************************************************)
(* The counter of one branch: shifts of its cash register                  *)
(* (cash_register.service.ts, close_cash_register_session), the sales that *)
(* are rung up on them, their payments, and the loyalty points of one      *)
(* customer.                                                               *)
(*                                                                         *)
(* A sale comes to be in two ways.  createFullSale writes it with its      *)
(* payments and its invoice in one transaction, and moves the points in    *)
(* statements of their own after the commit.  Or createSale writes a bare  *)
(* sale.  Either may get more payments, which are born verified or not as  *)
(* the caller says, and may be deleted; verify_customer_payment verifies   *)
(* one, redeems its points and completes the sale when they add up, and    *)
(* the triggers of the completion make the invoice, award points and link  *)
(* the sale to a shift.  The links, the invoice and the points awarded of  *)
(* a sale are fields of its row here.                                      *)
(***************************************************************************)
EXTENDS Database, Functions

CONSTANTS
  Shift,         \* slots for cash_register_session rows
  Sale, Slip,    \* slots for sales and for customer_payment rows
  Score,         \* the row of tenant_customer_score
  Terms,         \* how sales are made at the counter
  Price,         \* the total of every sale
  Start,         \* the points the customer starts with
  Absent

vars == <<db, mine, at, job, calm>>

Row == Shift \cup Sale \cup Slip \cup {Score}

ShiftRow == [open : BOOLEAN, total : Nat]

\* straight: completed by whoever created it.
SaleRow == [shift : Shift \cup {Absent}, done : BOOLEAN,
            straight : BOOLEAN, invoiced : BOOLEAN, earned : Nat]

\* rung: written with its sale by createFullSale; born: inserted as verified.  The
\* properties look at deleted slips too, so that they are kept.
SlipRow == [sale : Sale, amount : Nat, points : Nat, verified : BOOLEAN,
            rung : BOOLEAN, born : BOOLEAN, deleted : BOOLEAN]

\* A sale that is completed is not on credit; its payment is verified or not, and in
\* points or in money.
EveryTerms == [done : BOOLEAN, credit : BOOLEAN, verified : BOOLEAN, points : BOOLEAN]

TillConstants ==
  /\ Terms \subseteq {terms \in EveryTerms : terms.done => ~terms.credit}
  /\ Price \in Nat \ {0} /\ Start \in Nat
  /\ IsFiniteSet(Sale) /\ IsFiniteSet(Slip) /\ IsFiniteSet(Session)
  /\ Shift \cap Sale = {} /\ Shift \cap Slip = {} /\ Sale \cap Slip = {}
  /\ Score \notin Shift \cup Sale \cup Slip
  /\ Absent \notin Row /\ Absent \notin ShiftRow /\ Absent \notin SaleRow /\ Absent \notin SlipRow

Init ==
  /\ db = [r \in Row |-> IF r = Score
                         THEN [score |-> Start, lifetime |-> Start, redeemed |-> 0]
                         ELSE Absent]
  /\ RequestsInit

Exists(r) == db[r] # Absent
Open(s) == {t \in Shift : Sees(s, t) # Absent /\ Sees(s, t).open}

\* The slips of a sale that a statement of s sees.
Paying(s, x) ==
  {p \in Slip : Sees(s, p) # Absent /\ ~Sees(s, p).deleted /\ Sees(s, p).sale = x}
PaidWith(s, P) == SumFunction([p \in P |-> Sees(s, p).amount])

-----------------------------------------------------------------------------
(* Shifts.                                                                  *)

\* startSession: nothing looks for a shift that is open.
OpenShift(s) ==
  /\ at[s] = "idle"
  /\ \E t \in Shift :
       /\ ~Exists(t)
       /\ db' = [db EXCEPT ![t] = [open |-> TRUE, total |-> 0]]
  /\ UNCHANGED <<mine, at, job>> /\ calm' = (calm /\ Quiet)

\* getSession, and the test of is_active
StartClose(s) ==
  \E t \in Shift : Exists(t) /\ db[t].open /\ Begin(s, "lock", [shift |-> t, sum |-> 0])

\* Open transactions that link a sale to the shift hold its key.
Links(u, t) ==
  \E x \in Sale \cap DOMAIN mine[u] :
    mine[u][x].shift = t /\ (db[x] = Absent \/ db[x].shift # t)
Ringing(s, t) == {u \in Session \ {s} : Links(u, t)}

\* Mutant of LockShift: the lock is the one an UPDATE takes, which lets the key
\* be held.
LockShiftNoKey(s) ==
  LET t == job[s].shift IN
  /\ at[s] = "lock" /\ Free(s, {t})
  /\ IF ~Sees(s, t).open THEN Rollback(s)
     ELSE Write(s, [r \in {t} |-> Sees(s, t)], "sum", job[s])

\* SELECT FOR UPDATE: it waits for the key holders too, then tests is_active.
LockShift(s) ==
  LET t == job[s].shift IN
  /\ at[s] = "lock" /\ Free(s, {t}) /\ Ringing(s, t) = {}
  /\ IF ~Sees(s, t).open THEN Rollback(s)
     ELSE Write(s, [r \in {t} |-> Sees(s, t)], "sum", job[s])

Linked(s, t) == {x \in Sale : Sees(s, x) # Absent /\ Sees(s, x).shift = t}

\* The payments of the sales linked, by one statement.
SumShift(s) ==
  LET t == job[s].shift IN
  /\ at[s] = "sum"
  /\ Look(s, "close",
          [job[s] EXCEPT !.sum = PaidWith(s, UNION {Paying(s, x) : x \in Linked(s, t)})])

CloseShift(s) ==
  /\ at[s] = "close"
  /\ Write(s, [r \in {job[s].shift} |-> [open |-> FALSE, total |-> job[s].sum]],
           "commit", job[s])

-----------------------------------------------------------------------------
(* createFullSale.                                                          *)

\* bound: Sale, Slip, Terms.  One payment, of the price of a sale that is completed
\* or of half, in money or in points.  A sale on credit earns as much as is paid.
StartSale(s) ==
  \E terms \in Terms :
    LET amount == IF terms.done THEN Price ELSE Price \div 2 IN
    Begin(s, IF terms.done \/ terms.credit THEN "ring" ELSE "pay",
          [done |-> terms.done, verified |-> terms.verified, amount |-> amount,
           points |-> IF terms.points THEN amount ELSE 0,
           earned |-> IF terms.credit THEN amount ELSE Price, shift |-> Absent])

\* linkSaleToActiveSession: a shift that is open, of those of the branch.
PickShift(s) ==
  /\ at[s] = "ring"
  /\ IF Open(s) = {} THEN Look(s, "pay", job[s])
     ELSE \E t \in Open(s) : Look(s, "pay", [job[s] EXCEPT !.shift = t])

\* The link waits for whoever has locked the shift, then is made: the key is
\* still there.
RingUp(s) ==
  LET j == job[s] IN
  /\ at[s] = "pay" /\ Free(s, {j.shift})
  /\ \E x \in Sale, p \in Slip :
       /\ ~Exists(x) /\ ~Exists(p)
       /\ Write(s, [r \in {x, p} |->
                      IF r = x THEN [shift |-> j.shift, done |-> j.done,
                                     straight |-> j.done, invoiced |-> TRUE,
                                     earned |-> j.earned]
                      ELSE [sale |-> x, amount |-> j.amount, points |-> j.points,
                            verified |-> j.verified, rung |-> TRUE, born |-> j.verified,
                            deleted |-> FALSE]],
                "sold", j)

CommitSale(s) == at[s] = "sold" /\ Publish(s, "earn", job[s])

\* upsertEarned
Earn(s) ==
  LET n == job[s].earned IN
  /\ at[s] = "earn"
  /\ Apply(s, [r \in {Score} |-> [db[r] EXCEPT !.score = @ + n, !.lifetime = @ + n]],
           "deduct", job[s])

\* deductRedeemed: a customer without the points keeps what there is.
Deduct(s) ==
  LET n == job[s].points IN
  /\ at[s] = "deduct"
  /\ IF db[Score].score < n THEN Free(s, {Score}) /\ Rollback(s)
     ELSE Apply(s, [r \in {Score} |-> [db[r] EXCEPT !.score = @ - n, !.redeemed = @ + n]],
                "commit", job[s])

-----------------------------------------------------------------------------
(* A bare sale, its payments, and their verification.                       *)

\* createSale: a sale that is completed, as the caller says, is linked to a shift
\* by a statement of its own; triggers are of updates, and do nothing.
BareSale(s) ==
  /\ at[s] = "idle" /\ UNCHANGED mine /\ calm' = (calm /\ Quiet)
  /\ \E x \in Sale, done \in BOOLEAN :
       /\ ~Exists(x) /\ Free(s, {x})
       /\ db' = [db EXCEPT ![x] = [shift |-> Absent, done |-> done,
                                   straight |-> done, invoiced |-> FALSE, earned |-> 0]]
       /\ IF done THEN Goto(s, "link", [bare |-> x, shift |-> Absent]) ELSE UNCHANGED <<at, job>>

PickLink(s) ==
  /\ at[s] = "link"
  /\ IF Open(s) = {} THEN Rollback(s)
     ELSE \E t \in Open(s) : Look(s, "bind", [job[s] EXCEPT !.shift = t])

BindSale(s) ==
  LET x == job[s].bare  t == job[s].shift IN
  /\ at[s] = "bind" /\ Free(s, {t})
  /\ Apply(s, [r \in {x} |-> [db[x] EXCEPT !.shift = t]], "idle", NoJob)

\* createCustomerPayment, bulkInsert: half the price, of any sale.
Pay(s) ==
  /\ at[s] = "idle" /\ UNCHANGED <<mine, at, job>> /\ calm' = (calm /\ Quiet)
  /\ \E x \in Sale, p \in Slip, verified \in BOOLEAN :
       /\ Exists(x) /\ ~Exists(p) /\ Free(s, {p})
       /\ db' = [db EXCEPT ![p] = [sale |-> x, amount |-> Price \div 2, points |-> 0,
                                   verified |-> verified, rung |-> FALSE,
                                   born |-> verified, deleted |-> FALSE]]

\* deleteCustomerPayment: whatever was done with it.
DeletePayment(s) ==
  /\ at[s] = "idle" /\ UNCHANGED <<mine, at, job>> /\ calm' = (calm /\ Quiet)
  /\ \E p \in Slip :
       /\ Exists(p) /\ ~db[p].deleted /\ Free(s, {p})
       /\ db' = [db EXCEPT ![p].deleted = TRUE]

StartVerify(s) ==
  \E p \in Slip :
    /\ Exists(p) /\ ~db[p].verified /\ ~db[p].deleted
    /\ Begin(s, IF db[p].points > 0 THEN "balance" ELSE "verify",
             [slip |-> p, sale |-> db[p].sale, points |-> db[p].points,
              score |-> 0, earned |-> 0, shift |-> Absent])

\* redeem_points reads the balance, and refuses more than it.
ReadBalance(s) ==
  /\ at[s] = "balance"
  /\ IF Sees(s, Score).score < job[s].points THEN Rollback(s)
     ELSE Look(s, "redeem", [job[s] EXCEPT !.score = Sees(s, Score).score])

\* Mutant of Redeem: what was read is written back.
RedeemFromRead(s) ==
  LET n == job[s].points IN
  /\ at[s] = "redeem"
  /\ Write(s, [r \in {Score} |-> [Sees(s, r) EXCEPT !.score = job[s].score - n,
                                                    !.redeemed = @ + n]],
           "verify", job[s])

\* The UPDATE takes from what is there now; the CHECK of the column refuses a
\* negative balance, and the error ends the verification.
Redeem(s) ==
  LET n == job[s].points IN
  /\ at[s] = "redeem" /\ Free(s, {Score})
  /\ IF Sees(s, Score).score < n THEN Rollback(s)
     ELSE Write(s, [r \in {Score} |-> [Sees(s, r) EXCEPT !.score = @ - n, !.redeemed = @ + n]],
                "verify", job[s])

\* A slip that was deleted meanwhile is not there to be updated.
MarkVerified(s) ==
  LET p == job[s].slip IN
  /\ at[s] = "verify" /\ Free(s, {p})
  /\ IF Sees(s, p).deleted THEN Look(s, "check", job[s])
     ELSE Write(s, [r \in {p} |-> [Sees(s, p) EXCEPT !.verified = TRUE]], "check", job[s])

\* Mutant of CheckPaid: payments that wait to be verified are not looked at.
CheckPaidNever(s) == at[s] = "check" /\ Look(s, "commit", job[s])

\* Mutant of CheckPaid: nothing waits when one payment is verified.
CheckPaidAny(s) ==
  LET x == job[s].sale IN
  /\ at[s] = "check"
  /\ Look(s, IF Sees(s, x).done THEN "commit" ELSE "complete", job[s])

\* check_sale_payment_completion: no payment waits, and they add up.  award_points
\* counts those in money, of a sale that has no invoice; a sale that is linked
\* keeps its shift.
CheckPaid(s) ==
  LET x == job[s].sale
      slips == Paying(s, x)
      money == IF Sees(s, x).invoiced THEN 0
               ELSE PaidWith(s, {p \in slips : Sees(s, p).points = 0})
  IN /\ at[s] = "check"
     /\ IF \/ Sees(s, x).done
           \/ \E p \in slips : ~Sees(s, p).verified
           \/ PaidWith(s, slips) # Price
        THEN Look(s, "commit", job[s])
        ELSE IF Open(s) = {} \/ Sees(s, x).shift # Absent
        THEN Look(s, "complete", [job[s] EXCEPT !.earned = money])
        ELSE \E t \in Open(s) :
               Look(s, "complete", [job[s] EXCEPT !.earned = money, !.shift = t])

\* UPDATE sale, and, if that completed it, its triggers: the invoice, the points
\* it earns, and the shift.
Complete(s) ==
  LET x == job[s].sale  n == job[s].earned  t == job[s].shift IN
  /\ at[s] = "complete" /\ Free(s, {t, x})
  /\ IF Sees(s, x).done THEN Write(s, [r \in {x} |-> Sees(s, x)], "commit", job[s])
     ELSE Write(s, [r \in {x} \cup (IF n > 0 THEN {Score} ELSE {}) |->
                      IF r = x THEN [Sees(s, x) EXCEPT !.done = TRUE, !.invoiced = TRUE,
                                                       !.earned = @ + n,
                                                       !.shift = IF t = Absent THEN @ ELSE t]
                      ELSE [Sees(s, r) EXCEPT !.score = @ + n, !.lifetime = @ + n]],
                "commit", job[s])

EndRequest(s) == at[s] = "commit" /\ Commit(s)

-----------------------------------------------------------------------------

Shifts(s) == OpenShift(s) \/ StartClose(s) \/ LockShift(s) \/ SumShift(s) \/ CloseShift(s)
FullSale(s) == StartSale(s) \/ PickShift(s) \/ RingUp(s) \/ CommitSale(s)
                 \/ Earn(s) \/ Deduct(s)
Bare(s) == BareSale(s) \/ PickLink(s) \/ BindSale(s)
Verification(s) == StartVerify(s) \/ ReadBalance(s) \/ Redeem(s) \/ MarkVerified(s)
                     \/ CheckPaid(s) \/ Complete(s)

Next == \E s \in Session : Shifts(s) \/ FullSale(s) \/ Bare(s) \/ Pay(s) \/ DeletePayment(s)
                             \/ Verification(s) \/ EndRequest(s) \/ Fail(s)

Spec == Init /\ [][Next]_vars

-----------------------------------------------------------------------------
(* Properties.                                                              *)

TypeOK ==
  /\ \A t \in Shift : db[t] \in ShiftRow \cup {Absent}
  /\ \A x \in Sale : db[x] \in SaleRow \cup {Absent}
  /\ \A p \in Slip : db[p] \in SlipRow \cup {Absent}
  /\ db[Score] \in [score : Nat, lifetime : Nat, redeemed : Nat]

Earned == SumFunction([x \in {y \in Sale : Exists(y)} |-> db[x].earned])

\* What the payments claim: once when their sale was rung up, and once more when
\* they are verified after that.
Claim(p) == IF db[p].verified /\ ~db[p].born THEN 2 * db[p].points ELSE db[p].points
Claimed == SumFunction([p \in {q \in Slip : Exists(q)} |-> Claim(p)])

\* The balance of points is never negative and is always what was ever earned
\* less what was redeemed, though three handlers write it at once.
ScoreAddsUp ==
  /\ db[Score].score >= 0
  /\ db[Score].score = db[Score].lifetime - db[Score].redeemed

\* Points are lost when the server dies after a sale, never invented: no more
\* is earned than the invoices say, each once; and requests that come one at a
\* time redeem no more than the payments claim.
PointsBacked ==
  /\ db[Score].lifetime <= Start + Earned
  /\ calm => db[Score].redeemed <= Claimed

\* The three numbers kept of a customer's points agree, and come from somewhere.
PointsAddUp == ScoreAddsUp /\ PointsBacked

\* A shift that closes has counted every payment rung up with its sale and linked
\* to it, in a transaction open when the closing began included, and, alone, every
\* payment; and closing it is for good.
PaidOn(t, P) ==
  SumFunction([p \in {q \in P : /\ Exists(q) /\ ~db[q].deleted
                                /\ Exists(db[q].sale) /\ db[db[q].sale].shift = t}
                 |-> db[p].amount])
Closes ==
  \A t \in Shift :
    Exists(t) =>
      IF ~db[t].open THEN db'[t] = db[t]
      ELSE ~db'[t].open =>
             /\ db'[t].total >= PaidOn(t, {p \in Slip : Exists(p) /\ db[p].rung})
             /\ calm => db'[t].total = PaidOn(t, Slip)

\* Verification completes no sale before what was verified of it covers its price,
\* whatever other requests pay, verify and delete at once.
CompletedWhenPaid ==
  \A x \in Sale : Exists(x) /\ db[x].done /\ ~db[x].straight =>
    SumFunction([p \in {q \in Slip : Exists(q) /\ db[q].sale = x /\ db[q].verified}
                   |-> db[p].amount]) >= Price

\* And, when requests come one at a time, the verification after which nothing of
\* the sale waits and all of it is paid completes it.
VerifiedCompletes ==
  \A p \in Slip : calm /\ Exists(p) /\ ~db[p].verified /\ db'[p].verified =>
    LET x == db[p].sale
        slips == {q \in Slip : db'[q] # Absent /\ ~db'[q].deleted /\ db'[q].sale = x}
    IN (/\ \A q \in slips : db'[q].verified
        /\ SumFunction([q \in slips |-> db'[q].amount]) = Price) => db'[x].done

=============================================================================
