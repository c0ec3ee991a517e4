------------------------------- MODULE Alerts -------------------------------
(***************************************************************************)
(* Alerts of accounts that are due: those of sales on credit (pos/modules/ *)
(* collection_alerts) and those of purchases (purchase/modules/            *)
(* payment_alerts), which are the same code twice.                         *)
(*                                                                         *)
(* A user has the alerts generated, by one function of the database that   *)
(* goes over the accounts that were unpaid when it began; a trigger on the *)
(* account resolves them when its status becomes paid, and a user may      *)
(* resolve one by hand.  Nothing makes an account's alerts unique.         *)
(***************************************************************************)
EXTENDS Database

CONSTANTS
  Account,     \* accounts of one tenant
  Alert,       \* bound: alerts that are ever made
  Horizon,     \* bound: the days that pass
  DueDay,      \* the day every account is due
  DueAmount,   \* what is owed on it
  Notice,      \* [urgent, warning]: settings a tenant may choose, in days
  Absent

\* The rows of different tables differ, and none is the lack of one.
AlertsConstants ==
  /\ IsFiniteSet(Account) /\ Horizon \in Nat /\ DueDay \in Nat /\ DueAmount \in Nat \ {0}
  /\ Notice \subseteq [urgent : Nat, warning : Nat]
  /\ Account \cap Alert = {} /\ {"today", "notice"} \cap (Account \cup Alert) = {}
  /\ Absent \notin [account : Account, kind : 1 .. 3, resolved : BOOLEAN]

vars == <<db, mine, at, job, calm>>

Warning == 1
Urgent == 2
Overdue == 3

Row == Account \cup Alert \cup {"today", "notice"}

AccountRow == [collected : Nat, paid : BOOLEAN]
AlertRow == [account : Account, kind : {Warning, Urgent, Overdue}, resolved : BOOLEAN]

Init ==
  /\ db = [r \in Row |->
             CASE r \in Account -> [collected |-> 0, paid |-> FALSE]
               [] r = "today" -> 0
               [] OTHER -> Absent]
  /\ RequestsInit

Paying(a) == a \in Account /\ ~db[a].paid

NewDay ==
  /\ db["today"] < Horizon
  /\ db' = [db EXCEPT !["today"] = @ + 1]
  /\ UNCHANGED <<mine, at, job, calm>>

\* upsertConfig
UpsertConfig(s) ==
  \E n \in Notice :
    /\ at[s] = "idle" /\ n # db["notice"] /\ Free(s, {"notice"})
    /\ db' = [db EXCEPT !["notice"] = n]
    /\ calm' = (calm /\ Quiet)
    /\ UNCHANGED <<mine, at, job>>

-----------------------------------------------------------------------------
(* Generating.                                                              *)

\* The alert an account calls for so many days before it is due, or none.
Kind(days, notice) ==
  CASE days < 0 -> Overdue
    [] 0 <= days /\ days <= notice.urgent -> Urgent
    [] notice.urgent < days /\ days <= notice.warning -> Warning
    [] OTHER -> 0

\* generate: a tenant without settings has no alerts.
StartGenerate(s) ==
  /\ db["notice"] # Absent
  /\ LET kind == Kind(DueDay - db["today"], db["notice"]) IN
       /\ kind # 0
       /\ Begin(s, "generate", [accounts |-> {a \in Account : Paying(a)}, kind |-> kind])

Pending(s, a, kind) ==
  {x \in Alert : Sees(s, x) # Absent /\ Sees(s, x).account = a
                   /\ Sees(s, x).kind = kind /\ ~Sees(s, x).resolved}

Unused(s) == {x \in Alert : \A t \in Session : Sees(t, x) = Absent}

\* Mutant of Missing: whatever there is.
MissingAlways(s, a, kind) == TRUE

\* An account keeps the alert it has of that kind.
Missing(s, a, kind) == Pending(s, a, kind) = {}

\* One account of those it found, paid meanwhile or not.
GenerateOne(s) ==
  /\ at[s] = "generate"
  /\ \E a \in job[s].accounts :
       LET rest == [job[s] EXCEPT !.accounts = @ \ {a}] IN
       IF Missing(s, a, job[s].kind)
       THEN \E x \in Unused(s) :
              Write(s, [r \in {x} |-> [account |-> a, kind |-> job[s].kind, resolved |-> FALSE]],
                    "generate", rest)
       ELSE Look(s, "generate", rest)

EndGenerate(s) == at[s] = "generate" /\ job[s].accounts = {} /\ Commit(s)

-----------------------------------------------------------------------------
(* Paying and resolving.                                                    *)

Resolved(X) == [x \in X |-> [db[x] EXCEPT !.resolved = TRUE]]

\* The triggers of a payment: the sum of the account, that it is paid, its
\* status, and the alerts that are committed and pending.
Settled(s, a) ==
  LET sum == db[a].collected + 1
      paid == sum = DueAmount
      pending == {x \in Alert : db[x] # Absent /\ db[x].account = a /\ ~db[x].resolved}
  IN Over([r \in {a} |-> [collected |-> sum, paid |-> paid]],
          IF paid THEN Resolved(pending) ELSE Unwritten)

StartPay(s) == \E a \in Account : Paying(a) /\ Begin(s, "pay", [account |-> a])

\* registerCollection, registerPayment; bound: a unit at a time.
Pay(s) ==
  LET a == job[s].account IN
  /\ at[s] = "pay" /\ Free(s, {a})
  /\ IF Paying(a) THEN Write(s, Settled(s, a), "commit", job[s]) ELSE Rollback(s)

EndPay(s) == at[s] = "commit" /\ Commit(s)

\* resolve: the alert is looked up, then marked, resolved already or not.
StartResolve(s) ==
  \E x \in Alert : db[x] # Absent /\ ~db[x].resolved /\ Begin(s, "resolve", [alert |-> x])

Resolve(s) ==
  /\ at[s] = "resolve"
  /\ Apply(s, Resolved({job[s].alert}), "idle", NoJob)

Next ==
  \/ NewDay
  \/ \E s \in Session :
       \/ UpsertConfig(s) \/ StartGenerate(s) \/ GenerateOne(s) \/ EndGenerate(s)
       \/ StartPay(s) \/ Pay(s) \/ EndPay(s) \/ StartResolve(s) \/ Resolve(s) \/ Fail(s)

Spec == Init /\ [][Next]_vars

-----------------------------------------------------------------------------
(* Properties.                                                              *)

TypeOK ==
  /\ \A a \in Account : db[a] \in AccountRow
  /\ \A x \in Alert : db[x] \in AlertRow \cup {Absent}
  /\ db["today"] \in 0 .. Horizon /\ db["notice"] \in Notice \cup {Absent}

Made == {x \in Alert : db[x] # Absent}

\* Nobody is dunned before the day, whatever runs at once; and while requests
\* come one at a time an account has one pending alert of a kind at most, and
\* none once it is paid.
AlertsFollow ==
  /\ \A x \in Made : db[x].kind = Overdue => db["today"] > DueDay
  /\ calm => /\ \A x \in Made : ~db[x].resolved => ~db[db[x].account].paid
             /\ \A x, y \in Made :
                  x # y /\ ~db[x].resolved /\ ~db[y].resolved
                    => <<db[x].account, db[x].kind>> # <<db[y].account, db[y].kind>>

=============================================================================
