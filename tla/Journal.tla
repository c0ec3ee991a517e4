------------------------------- MODULE Journal -------------------------------
(***************************************************************************)
(* Documents and their journal entries.  Every service that records a      *)
(* document has accounting-journal.service.ts write its entry, in one of   *)
(* three ways: secondary, in a SAVEPOINT of the document's transaction, so *)
(* that an entry that fails is left out and the document stays             *)
(* (trySecondary); primary, where a failed entry undoes the document       *)
(* (expenses, withholdings, entries made by hand); or apart, in a          *)
(* transaction of its own when the document is committed (payroll).        *)
(*                                                                         *)
(* The accounts an entry refers to are the tenant's copy of the template   *)
(* chart, which is made the first time it is needed.  All its accounts are *)
(* inserted together, so the chart is one row here, whose value tells one  *)
(* copy from another; accountCache, the process's memory of account ids,   *)
(* is no row, and survives a rollback.                                     *)
(***************************************************************************)
EXTENDS Database, Entries

CONSTANTS
  Document,               \* slots for documents
  Paper,                  \* what may be recorded
  Tried,                  \* papers the generators alone are tried with
  Copy,                   \* identities of copies of the chart
  Chart, Numbering, Period, \* rows: the chart, the vouchers' lock, the period
  Absent

VARIABLES
  accountCache,           \* Absent, or the copy the cached ids belong to
  lazy                    \* history: a request had to make the chart

EntryOf(d) == <<"entry", d>>
Reversed(d, s) == <<"reversed", d, s>>

DocumentRow == [paper : Paper, number : Nat, voided : BOOLEAN]
EntryRow == [account : Copy, status : {"confirmed", "voided"}]

ASSUME JournalConstants ==
  /\ IsFiniteSet(Document) /\ IsFiniteSet(Session)
  /\ Chart # Numbering /\ Chart # Period /\ Numbering # Period
  /\ {Chart, Numbering, Period} \cap Document = {}
  /\ ({Chart, Numbering, Period} \cup Document)
       \cap ({EntryOf(d) : d \in Document} \cup {Reversed(d, s) : d \in Document, s \in Session}) = {}
  /\ Absent \notin Copy \cup DocumentRow \cup EntryRow

Generated == {"sale", "cogs", "purchase", "receipt", "return", "credit note", "debit note",
              "withholding", "payment", "expense", "payroll"}

PaymentRow == [method : {"cash", "card", "transfer", "points", "credit"}, amount : Nat, other : BOOLEAN]

Account == {"cash", "banks", "discounts", "receivable", "income", "vat owed", "cost",
            "inventory", "vat due", "payable", "returns", "advances", "withheld",
            "expense", "salaries", "salaries owed"}

LineRow == [account : Account, debit : Nat, credit : Nat]

PaperRow == [kind : Generated \cup {"manual"}, net : Nat, tax : Nat,
             payments : Seq(PaymentRow), change : Int, owed : Nat,
             onCash : BOOLEAN, foreign : BOOLEAN, lines : Seq(LineRow)]

ASSUME PaperAssumption == Paper \cup Tried \subseteq PaperRow

vars == <<db, mine, at, job, calm, accountCache, lazy>>

Row == Document \cup {Chart, Numbering, Period}
         \cup {EntryOf(d) : d \in Document}
         \cup {Reversed(d, s) : d \in Document, s \in Session}

Primary == {"expense", "withholding", "manual"}

\* The chart is made when the tenant is created, or, for older ones, is not there.
Init ==
  /\ \E chart \in {Absent} \cup Copy :
       db = [r \in Row |->
               CASE r = Chart -> chart
                 [] r = Numbering -> 0
                 [] r = Period -> "open"
                 [] r \in Document \cup {EntryOf(d) : d \in Document} -> Absent
                 [] OTHER -> 0]
  /\ RequestsInit
  /\ accountCache = Absent /\ lazy = FALSE

Keep == UNCHANGED <<accountCache, lazy>>

Recorded(d) == db[d] # Absent
Reversals(d) == SumFunction([s \in Session |-> db[Reversed(d, s)]])

-----------------------------------------------------------------------------
(* Recording a document.                                                    *)

Job(p) == [paper |-> p, doc |-> Absent, number |-> 0, account |-> Absent]

\* createExpense looks for a closed period before its transaction.
StartDocument(s) ==
  /\ \E p \in Paper :
       /\ p.kind = "expense" => db[Period] = "open"
       /\ p.kind = "manual" => db[Chart] # Absent
       /\ Begin(s, IF p.kind = "withholding" THEN "number" ELSE "insert", Job(p))
  /\ Keep

Vouchers == {d \in Document : Recorded(d) /\ db[d].paper.kind = "withholding"}

NextNumber == 1 + Max({0} \cup {db[d].number : d \in Vouchers})

\* Mutant of TakeNumber: no lock is taken.
TakeNumberUnlocked(s) ==
  /\ at[s] = "number"
  /\ Look(s, "insert", [job[s] EXCEPT !.number = NextNumber])
  /\ Keep

\* The advisory lock of the tenant's numbering, then MAX + 1.
TakeNumber(s) ==
  /\ at[s] = "number"
  /\ Write(s, [r \in {Numbering} |-> 0], "insert", [job[s] EXCEPT !.number = NextNumber])
  /\ Keep

\* bound: Document.  The insert of the document: a payroll is committed at
\* once; what is made by hand names its accounts itself.
InsertDocument(s) ==
  LET p == job[s].paper  row == [paper |-> p, number |-> job[s].number, voided |-> FALSE]
  IN /\ at[s] = "insert"
     /\ \E d \in Document :
          /\ ~Recorded(d) /\ Free(s, {d})
          /\ LET new == [r \in {d} |-> row] IN
             IF p.kind = "payroll"
             THEN Apply(s, new, "resolve", [job[s] EXCEPT !.doc = d])
             ELSE Write(s, new, IF p.kind = "manual" THEN "entry" ELSE "resolve",
                        [job[s] EXCEPT !.doc = d,
                           !.account = IF p.kind = "manual" THEN db[Chart] ELSE Absent])
     /\ Keep

-----------------------------------------------------------------------------
(* The entry.                                                               *)

\* An error in it: the document goes too, or only what the savepoint covers.
EntryFails(s) ==
  IF job[s].paper.kind \in Primary THEN Rollback(s)
  ELSE /\ mine' = [mine EXCEPT ![s] =
                     [r \in DOMAIN @ \ {Chart, EntryOf(job[s].doc)} |-> @[r]]]
       /\ Goto(s, "commit", job[s])
       /\ UNCHANGED <<db, calm>>

\* Mutant of Resolve: what was found is cached and not returned.
ResolveForgets(s) ==
  /\ at[s] = "resolve"
  /\ IF accountCache # Absent
     THEN Look(s, "entry", [job[s] EXCEPT !.account = accountCache]) /\ Keep
     ELSE IF Sees(s, Chart) # Absent
     THEN /\ Look(s, "entry", job[s])
          /\ accountCache' = Sees(s, Chart) /\ UNCHANGED lazy
     ELSE Look(s, "provision", job[s]) /\ Keep

\* resolveAccount: the cache, else the tenant's chart, else there is none yet.
Resolve(s) ==
  /\ at[s] = "resolve"
  /\ IF accountCache # Absent
     THEN Look(s, "entry", [job[s] EXCEPT !.account = accountCache]) /\ Keep
     ELSE IF Sees(s, Chart) # Absent
     THEN /\ Look(s, "entry", [job[s] EXCEPT !.account = Sees(s, Chart)])
          /\ accountCache' = Sees(s, Chart) /\ UNCHANGED lazy
     ELSE Look(s, "provision", job[s]) /\ Keep

\* An id no other row, transaction or memory holds.
Fresh(c) == /\ c # db[Chart] /\ c # accountCache
            /\ \A s \in Session : /\ Chart \in DOMAIN mine[s] => c # mine[s][Chart]
                                  /\ at[s] # "idle" => c # job[s].account
            /\ \A d \in Document : db[EntryOf(d)] # Absent => c # db[EntryOf(d)].account

\* provision_tenant_accounts: its inserts wait for another's, and fail on
\* them; what it made is cached, before anything is committed.
Provision(s) ==
  /\ at[s] = "provision" /\ Free(s, {Chart})
  /\ lazy' = TRUE
  /\ IF db[Chart] # Absent THEN EntryFails(s) /\ UNCHANGED accountCache
     ELSE \E c \in Copy : /\ Fresh(c)
                          /\ Write(s, [r \in {Chart} |-> c], "entry",
                                   [job[s] EXCEPT !.account = c])
                          /\ accountCache' = c

\* Mutants of InsertEntry: the document of a failed entry stays; the foreign
\* key of a line is not there.
InsertEntryAnyway(s) ==
  /\ at[s] = "entry"
  /\ IF Accepted(job[s].paper) /\ job[s].account = Sees(s, Chart)
     THEN Write(s, [r \in {EntryOf(job[s].doc)} |-> [account |-> job[s].account, status |-> "confirmed"]],
                "commit", job[s])
     ELSE Look(s, "commit", job[s])
  /\ Keep

\* createEntry: the rate, the balance, the entry and its lines, whose foreign
\* key wants accounts that this transaction sees.
InsertEntry(s) ==
  /\ at[s] = "entry"
  /\ IF Accepted(job[s].paper) /\ job[s].account = Sees(s, Chart)
     THEN Write(s, [r \in {EntryOf(job[s].doc)} |->
                      [account |-> job[s].account, status |-> "confirmed"]],
                "commit", job[s])
     ELSE EntryFails(s)
  /\ Keep

-----------------------------------------------------------------------------
(* Voiding, and the fiscal period.                                          *)

Voidable == {"credit note", "debit note", "withholding"}

\* voidNote and IvaWithholdingService.void test is_voided before they begin.
StartVoid(s) ==
  /\ \E d \in Document :
       /\ Recorded(d) /\ db[d].paper.kind \in Voidable /\ ~db[d].voided
       /\ Begin(s, "void", [Job(db[d].paper) EXCEPT !.doc = d])
  /\ Keep

MarkVoided(s) ==
  LET d == job[s].doc IN
  /\ at[s] = "void"
  /\ Write(s, [r \in {d} |-> [Sees(s, d) EXCEPT !.voided = TRUE]], "reverse", job[s])
  /\ Keep

\* reverseEntryBySource: whatever entry there is, void or not.
ReverseEntry(s) ==
  LET d == job[s].doc IN
  /\ at[s] = "reverse"
  /\ IF Sees(s, EntryOf(d)) = Absent THEN Look(s, "commit", job[s])
     ELSE Write(s, [r \in {Reversed(d, s)} |-> Sees(s, r) + 1], "commit", job[s])
  /\ Keep

\* void_journal_entry: the status is read, and not locked.
StartVoidEntry(s) ==
  /\ \E d \in Document :
       /\ db[EntryOf(d)] # Absent /\ db[EntryOf(d)].status = "confirmed"
       /\ Begin(s, "void entry", [Job(db[d].paper) EXCEPT !.doc = d])
  /\ Keep

VoidEntry(s) ==
  LET d == job[s].doc IN
  /\ at[s] = "void entry"
  /\ Write(s, [r \in {EntryOf(d), Reversed(d, s)} |->
                 IF r = EntryOf(d) THEN [Sees(s, r) EXCEPT !.status = "voided"]
                 ELSE Sees(s, r) + 1],
           "commit", job[s])
  /\ Keep

\* closeFiscalPeriod
ClosePeriod(s) ==
  /\ at[s] = "idle" /\ db[Period] = "open" /\ Free(s, {Period})
  /\ db' = [db EXCEPT ![Period] = "closed"]
  /\ calm' = (calm /\ Quiet)
  /\ UNCHANGED <<mine, at, job>> /\ Keep

EndRequest(s) == at[s] = "commit" /\ Commit(s) /\ Keep
FailRequest(s) == Fail(s) /\ Keep

\* The process goes down and comes up with nothing in memory.
Restart ==
  /\ mine' = [s \in Session |-> Unwritten]
  /\ at' = [s \in Session |-> "idle"] /\ job' = [s \in Session |-> NoJob]
  /\ accountCache' = Absent
  /\ UNCHANGED <<db, calm, lazy>>

-----------------------------------------------------------------------------

Recording(s) == StartDocument(s) \/ TakeNumber(s) \/ InsertDocument(s)
                  \/ Resolve(s) \/ Provision(s) \/ InsertEntry(s)
Voiding(s) == StartVoid(s) \/ MarkVoided(s) \/ ReverseEntry(s)
                \/ StartVoidEntry(s) \/ VoidEntry(s)

Next == \/ \E s \in Session : Recording(s) \/ Voiding(s) \/ ClosePeriod(s)
                                \/ EndRequest(s) \/ FailRequest(s)
        \/ Restart

Spec == Init /\ [][Next]_vars

-----------------------------------------------------------------------------
(* Properties.                                                              *)

\* Rows hold what their columns can; idle sessions hold no locks.
TypeOK ==
  /\ db[Chart] \in Copy \cup {Absent} /\ accountCache \in Copy \cup {Absent}
  /\ \A d \in Document : /\ db[d] \in DocumentRow \cup {Absent}
                         /\ db[EntryOf(d)] \in EntryRow \cup {Absent}
  /\ \A s \in Session : at[s] = "idle" => mine[s] = Unwritten /\ job[s] = NoJob

\* An expense, a withholding and what is made by hand are never without their
\* entry, and no entry is without its document.
EntryWithDocument ==
  \A d \in Document :
    /\ db[EntryOf(d)] # Absent => Recorded(d)
    /\ Recorded(d) /\ db[d].paper.kind \in Primary => db[EntryOf(d)] # Absent

\* Every entry stands on the accounts of the tenant's one chart, whatever copy
\* the process remembers.
EntryOnChart ==
  \A d \in Document : db[EntryOf(d)] # Absent => db[EntryOf(d)].account = db[Chart]

\* While no request has had to make the chart, no entry of a document that
\* balances is left out: the savepoint hides no failure of the code's own.
NothingOmitted ==
  ~lazy => \A d \in Document :
             Recorded(d) /\ Accepted(db[d].paper) /\ db[d].paper.kind # "payroll"
               => db[EntryOf(d)] # Absent

\* The books hold every document they must and can, on the chart that is there.
EntriesPlaced == EntryWithDocument /\ EntryOnChart /\ NothingOmitted

\* Requests that come one at a time reverse an entry once for the document
\* that was voided and once for the entry that was.
ReversalsFollow ==
  calm => \A d \in Document :
    Reversals(d) =
      IF db[EntryOf(d)] = Absent THEN 0
      ELSE (IF db[d].voided THEN 1 ELSE 0)
             + (IF db[EntryOf(d)].status = "voided" THEN 1 ELSE 0)

\* The vouchers of withholding are numbered 1, 2, 3, with no gap and no number
\* twice, whatever fails or runs at once.
VouchersNumbered ==
  {db[d].number : d \in Vouchers} = 1 .. Cardinality(Vouchers)

\* What is undone, and what is numbered, is so once.
OnceOnly == ReversalsFollow /\ VouchersNumbered

\* A document a generator can balance: points pay no more than the total, and
\* a receipt is for what was received.
Sound(p) ==
  /\ p.kind = "sale" => Settlement(p).points <= Total(p)
  /\ p.kind = "receipt" => SumOfParts(Settlement(p)) = Total(p)
  /\ p.kind # "manual"

\* A generator whose document is sound makes an entry that createEntry takes,
\* for every amount tried: the cents that conversion loses are always put back.
Tries == \A p \in Tried : Sound(p) => Accepted(p)
NeverRefused ==
  Tries /\ \A s \in Session :
             at[s] # "idle" /\ Sound(job[s].paper) => Accepted(job[s].paper)

=============================================================================
