------------------------------- MODULE Loyalty -------------------------------
(***************************************************************************)
(* The points that the collections of a sale on credit earn one by one     *)
(* (loyalty-currency.ts, grantProportionalLoyaltyPoints), with the         *)
(* programs that say how many (loyalty-program.service.ts) and the rate    *)
(* that takes bolivares to the dollars they count.                         *)
(*                                                                         *)
(* Points are granted after the collection is committed, outside any       *)
(* transaction: the program is read, then the rate, then the balance is    *)
(* added to, then the ledger that finances reads gets its row.             *)
(***************************************************************************)
EXTENDS Database, Functions

CONSTANTS
  Program,         \* slots for loyalty_program rows
  Earning,         \* bound: [earn, least]: points for a dollar, dollars to earn any
  Collection,      \* slots for collections of one sale, and their ledger rows
  Amount,          \* [Collection -> Nat]: what each collects
  Currency,        \* the currency of the sale
  ExchangeRate,    \* bound: bolivares for a dollar
  Balance, Rate,   \* the rows of tenant_customer_score and exchange_rate
  Absent

Saved == [earn : Nat, least : Nat, active : BOOLEAN]

LoyaltyConstants ==
  /\ IsFiniteSet(Session) /\ IsFiniteSet(Collection) /\ Collection # {}
  /\ Amount \in [Collection -> Nat \ {0}]
  /\ Currency \in {"USD", "VES"} /\ ExchangeRate \subseteq Nat \ {0}
  /\ Earning \subseteq [earn : Nat, least : Nat]
  /\ Program \cap Collection = {} /\ Balance # Rate
  /\ {Balance, Rate} \cap (Program \cup Collection) = {}
  /\ Absent \notin Nat /\ Absent \notin Saved

vars == <<db, mine, at, job, calm>>

Row == Program \cup Collection \cup {Balance, Rate}

Init ==
  /\ db = [r \in Row |-> IF r = Balance THEN 0 ELSE Absent]
  /\ RequestsInit

Total == SumFunction(Amount)
Exists(r) == db[r] # Absent
Active == {p \in Program : Exists(p) /\ db[p].active}

Single(s, new) ==
  /\ at[s] = "idle" /\ Free(s, DOMAIN new)
  /\ db' = Over(new, db)
  /\ calm' = (calm /\ Quiet)
  /\ UNCHANGED <<mine, at, job>>

\* createLoyalProgram: nothing looks for another that is active.
CreateProgram(s) ==
  \E p \in Program, e \in Earning :
    ~Exists(p) /\ Single(s, [r \in {p} |-> [earn |-> e.earn, least |-> e.least, active |-> TRUE]])

\* updateLoyalProgram: COALESCE column by column.
UpdateProgram(s) ==
  \E p \in Program, e \in Earning, active \in BOOLEAN :
    Exists(p) /\ Single(s, [r \in {p} |-> [earn |-> e.earn, least |-> e.least, active |-> active]])

DeleteProgram(s) == \E p \in Program : Exists(p) /\ Single(s, [r \in {p} |-> Absent])

\* A rate is published.
PublishRate(s) == \E n \in ExchangeRate : Single(s, [r \in {Rate} |-> n])

-----------------------------------------------------------------------------

\* A collection is committed, and its points are granted next; 0 is one that has no
\* row in the ledger.
StartGrant(s) ==
  /\ at[s] = "idle"
  /\ \E c \in Collection :
       /\ ~Exists(c)
       /\ db' = [db EXCEPT ![c] = 0]
       /\ Goto(s, "read program",
               [collection |-> c, earning |-> [earn |-> 0, least |-> 0], points |-> 0])
  /\ calm' = (calm /\ Quiet)
  /\ UNCHANGED mine

\* getActiveProgramForTenant: one of those that are active.
ReadProgram(s) ==
  /\ at[s] = "read program"
  /\ IF Active = {} THEN Rollback(s)
     ELSE \E p \in Active :
            Look(s, "read rate",
                 [job[s] EXCEPT !.earning = [earn |-> db[p].earn, least |-> db[p].least]])

\* toProgramCurrency: how much of the sale's currency is a dollar.
PerDollar(rate) == IF Currency = "USD" THEN 1 ELSE rate

\* Mutant of EarnedPoints: what is short of a point is a point.
EarnedPointsUp(e, per, total, base) ==
  IF total < e.least * per THEN 0
  ELSE ((IF base < total THEN base ELSE total) * e.earn + per - 1) \div per

\* calculateEarnedPoints: the total decides whether there are any, the base how many.
EarnedPoints(e, per, total, base) ==
  IF total < e.least * per THEN 0
  ELSE ((IF base < total THEN base ELSE total) * e.earn) \div per

\* A sale in bolivares earns nothing while there is no rate.
ReadRate(s) ==
  LET j == job[s] IN
  /\ at[s] = "read rate"
  /\ IF Currency # "USD" /\ ~Exists(Rate) THEN Rollback(s)
     ELSE LET n == EarnedPoints(j.earning, PerDollar(db[Rate]), Total, Amount[j.collection])
          IN IF n = 0 THEN Rollback(s) ELSE Look(s, "upsert", [j EXCEPT !.points = n])

\* upsertEarned
Upsert(s) ==
  /\ at[s] = "upsert"
  /\ Apply(s, [r \in {Balance} |-> db[r] + job[s].points], "ledger", job[s])

\* insertCollectionEarned
InsertLedger(s) ==
  /\ at[s] = "ledger"
  /\ Apply(s, [r \in {job[s].collection} |-> job[s].points], "idle", NoJob)

Programs(s) == CreateProgram(s) \/ UpdateProgram(s) \/ DeleteProgram(s)
Granting(s) == StartGrant(s) \/ ReadProgram(s) \/ ReadRate(s) \/ Upsert(s) \/ InsertLedger(s)

Next == \E s \in Session : Programs(s) \/ PublishRate(s) \/ Granting(s) \/ Fail(s)

Spec == Init /\ [][Next]_vars

-----------------------------------------------------------------------------
(* Properties.                                                              *)

TypeOK ==
  /\ \A p \in Program : db[p] \in Saved \cup {Absent}
  /\ \A c \in Collection : db[c] \in Nat \cup {Absent}
  /\ db[Balance] \in Nat /\ db[Rate] \in ExchangeRate \cup {Absent}

\* getGrowth: the points of the collections, as the chart of finances sums them.
Growth == SumFunction([c \in {x \in Collection : Exists(x)} |-> db[c]])

\* The chart never shows points the customer was not given, whichever request
\* stopped between the two statements.
ChartBacked ==
  Growth + SumFunction([s \in {t \in Session : at[t] = "ledger"} |-> job[s].points])
    <= db[Balance]

\* What the collections earn one by one is what the sale earns at once, but for
\* less than a point each; whatever the program and the rate.
SplitFits ==
  \A p \in Active :
    Currency = "USD" \/ Exists(Rate) =>
      LET Points(base) == EarnedPoints([earn |-> db[p].earn, least |-> db[p].least],
                                       PerDollar(db[Rate]), Total, base)
          split == SumFunction([c \in Collection |-> Points(Amount[c])])
      IN /\ split <= Points(Total)
         /\ Points(Total) < split + Cardinality(Collection)

PointsGranted == ChartBacked /\ SplitFits

=============================================================================
