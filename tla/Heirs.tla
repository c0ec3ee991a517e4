------------------------------- MODULE Heirs -------------------------------
(***************************************************************************)
(* Who claims the settlement of an employee that died, and what each gets  *)
(* of it (beneficiaries.service.ts): the valid claimants are read, then    *)
(* whether there are shares, then the amount, and every share is written   *)
(* by a statement of its own, with no transaction.  Meanwhile somebody     *)
(* else is validated, or the settlement is paid with its interest.         *)
(***************************************************************************)
EXTENDS Database, FiniteSetsExt

CONSTANTS
  Heir,
  Subtotal,     \* of the settlement, in cents
  Interest,     \* what paying it late may add
  Absent

HeirsConstants ==
  /\ IsFiniteSet(Heir) /\ "amount" \notin Heir
  /\ Subtotal \in Nat /\ Interest \in Nat
  /\ Absent \notin Int /\ Absent \notin [validated : BOOLEAN, share : Int \cup {Absent}]

vars == <<db, mine, at, job, calm>>

Row == Heir \cup {"amount"}

\* share_amount, Absent while nothing was distributed
Claimant == [validated : BOOLEAN, share : Nat \cup {Absent}]

Init ==
  /\ db = [r \in Row |-> IF r \in Heir THEN Absent ELSE Subtotal]
  /\ RequestsInit

Claimants == {h \in Heir : db[h] # Absent}
Validated == {h \in Claimants : db[h].validated}
Shared == {h \in Claimants : db[h].share # Absent}

-----------------------------------------------------------------------------
\* create, within three months of the death; the document is unique.
StartClaim(s) == \E h \in Heir \ Claimants : Begin(s, "claim", h)

Claim(s) ==
  /\ at[s] = "claim"
  /\ IF job[s] \in Claimants THEN Rollback(s)
     ELSE Apply(s, [r \in {job[s]} |-> [validated |-> FALSE, share |-> Absent]], "idle", NoJob)

StartValidate(s) == \E h \in Claimants : Begin(s, "validate", h)

Validate(s) ==
  /\ at[s] = "validate"
  /\ Apply(s, [r \in {job[s]} |-> [db[r] EXCEPT !.validated = TRUE]], "idle", NoJob)

\* pay, in settlement.service.ts: total = subtotal + interest
StartPay(s) == \E m \in {0, Interest} : Begin(s, "pay", Subtotal + m)

Pay(s) == at[s] = "pay" /\ Apply(s, [r \in {"amount"} |-> job[s]], "idle", NoJob)

-----------------------------------------------------------------------------
\* distribute: who shares, in no order, so that anyone may come last.
StartDistribute(s) ==
  \E last \in Validated, recalculate \in BOOLEAN :
    Begin(s, "shared before",
          [among |-> Validated, last |-> last, recalculate |-> recalculate,
           total |-> 0, left |-> Validated])

ReadShares(s) ==
  /\ at[s] = "shared before"
  /\ IF Shared # {} /\ ~job[s].recalculate THEN Rollback(s) ELSE Look(s, "read amount", job[s])

ReadAmount(s) ==
  /\ at[s] = "read amount"
  /\ Look(s, "shares", [job[s] EXCEPT !.total = db["amount"]])

Rounded(j) == j.total \div Cardinality(j.among)

\* Mutant of ShareOf: nobody gets what the division leaves over.
ShareOfRounded(j, h) == Rounded(j)

\* The last one gets what the division leaves over.
ShareOf(j, h) ==
  Rounded(j) + (IF h = j.last THEN j.total - Rounded(j) * Cardinality(j.among) ELSE 0)

UpdateShare(s) ==
  /\ at[s] = "shares"
  /\ \E h \in job[s].left :
       /\ h = job[s].last => job[s].left = {h}
       /\ Apply(s, [r \in {h} |-> [db[r] EXCEPT !.share = ShareOf(job[s], h)]],
                IF h = job[s].last THEN "distributed" ELSE "shares",
                [job[s] EXCEPT !.left = @ \ {h}])

EndRequest(s) == at[s] = "distributed" /\ Commit(s)

Claiming(s) == \/ StartClaim(s) \/ Claim(s) \/ StartValidate(s) \/ Validate(s)
               \/ StartPay(s) \/ Pay(s)
Sharing(s) == \/ StartDistribute(s) \/ ReadShares(s) \/ ReadAmount(s) \/ UpdateShare(s)
              \/ EndRequest(s)

Next == \E s \in Session : Claiming(s) \/ Sharing(s) \/ Fail(s)

Spec == Init /\ [][Next]_vars

-----------------------------------------------------------------------------
(* Properties.                                                              *)

TypeOK ==
  /\ \A h \in Heir : db[h] \in Claimant \cup {Absent}
  /\ db["amount"] \in Nat

\* Only those who were validated have a share, and when a distribution ends that
\* nothing else ran beside, the shares are the amount to the cent, whatever was
\* left by the ones before it that failed on the way.
SharesAddUp ==
  /\ Shared \subseteq Validated
  /\ \A s \in Session : at[s] = "distributed" /\ calm =>
       /\ Shared = Validated
       /\ SumFunction([h \in Shared |-> db[h].share]) = db["amount"]

=============================================================================
