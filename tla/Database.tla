------------------------------ MODULE Database ------------------------------
(***************************************************************************)
(* What every service of the server has in common: requests that run side  *)
(* by side, each a series of SQL statements sent to one PostgreSQL at READ *)
(* COMMITTED.  A statement sees what is committed and what its own         *)
(* transaction wrote; a row that another open transaction wrote must be    *)
(* waited for; COMMIT publishes all a transaction wrote and ROLLBACK none. *)
(* A request fails at any statement, or dies with the process, by Fail.    *)
(*                                                                         *)
(* A module that extends this one names its rows, gives db its initial     *)
(* value and writes its handlers with the operators below, one action per  *)
(* statement or per group of statements nothing can come between.          *)
(***************************************************************************)
EXTENDS Integers, FiniteSets

CONSTANTS
  Session,    \* the requests that are served at the same time
  NoJob       \* what an idle session works on

VARIABLES
  db,         \* [row -> value]: what is committed
  mine,       \* [Session -> [some rows -> value]]: written, not committed
  at,         \* [Session -> label]: what the request does next
  job,        \* [Session -> record]: its parameters and what it has read
  calm        \* history: no two requests have been under way at once

Unwritten == [r \in {} |-> r]

\* What a statement of s finds in a row.
Sees(s, r) == IF r \in DOMAIN mine[s] THEN mine[s][r] ELSE db[r]

\* Nobody else's open transaction has written one of these rows.
Free(s, R) == \A t \in Session \ {s} : R \cap DOMAIN mine[t] = {}

Over(new, old) ==
  [r \in DOMAIN new \cup DOMAIN old |->
     IF r \in DOMAIN new THEN new[r] ELSE old[r]]

Quiet == \A s \in Session : at[s] = "idle"

RequestsInit ==
  /\ mine = [s \in Session |-> Unwritten]
  /\ at = [s \in Session |-> "idle"]
  /\ job = [s \in Session |-> NoJob]
  /\ calm = TRUE

Goto(s, label, j) ==
  /\ at' = [at EXCEPT ![s] = label]
  /\ job' = [job EXCEPT ![s] = j]

\* A request arrives.
Begin(s, label, j) ==
  /\ at[s] = "idle"
  /\ Goto(s, label, j)
  /\ calm' = (calm /\ Quiet)
  /\ UNCHANGED <<db, mine>>

\* A SELECT, or code that touches no table.
Look(s, label, j) == Goto(s, label, j) /\ UNCHANGED <<db, mine, calm>>

\* An INSERT, UPDATE or DELETE inside a transaction.
Write(s, new, label, j) ==
  /\ Free(s, DOMAIN new)
  /\ mine' = [mine EXCEPT ![s] = Over(new, @)]
  /\ Goto(s, label, j)
  /\ UNCHANGED <<db, calm>>

\* The same outside any transaction: it commits by itself.
Apply(s, new, label, j) ==
  /\ Free(s, DOMAIN new)
  /\ db' = Over(new, db)
  /\ Goto(s, label, j)
  /\ UNCHANGED <<mine, calm>>

\* COMMIT, in a request that has more to do.
Publish(s, label, j) ==
  /\ db' = Over(mine[s], db)
  /\ mine' = [mine EXCEPT ![s] = Unwritten]
  /\ Goto(s, label, j)
  /\ UNCHANGED calm

Commit(s) == Publish(s, "idle", NoJob)

Rollback(s) ==
  /\ mine' = [mine EXCEPT ![s] = Unwritten]
  /\ Goto(s, "idle", NoJob)
  /\ UNCHANGED <<db, calm>>

\* An error at any statement, a lost connection, a deadlock's victim.
Fail(s) == at[s] # "idle" /\ Rollback(s)

=============================================================================
