# A verification project for the My Business Panel backend

The backend is a multi-tenant ERP: a NestJS server whose services send SQL to
one PostgreSQL database. There is no in-process state worth speaking of except
caches; everything a business depends on is in rows that many requests read and
write at once. The code sends its statements at the default isolation level,
READ COMMITTED, takes almost no explicit locks (`FOR UPDATE` appears in the
closing of a cash register and in the numbering of entries) and leaves much of
the bookkeeping to triggers. So the questions that are hard here are the same
everywhere:

* what was read before an `UPDATE` may no longer be true when it runs,
* a check made outside the transaction guards nothing inside it,
* a trigger sums rows that another transaction has not committed yet,
* what happens after a commit, outside any transaction, may not happen,
* a request without a transaction may stop half way.

The modules in this directory model the parts of the code where these questions
decide about stock, money and what people are owed, statement by statement.

Paths below are relative to `src/`; `SQL` is
`src/contexts/general/modules/db/database_backup.sql`, the one file with the
tables, functions and triggers.

## The system

| part | state | operations | hard behaviour | what makes it correct |
|---|---|---|---|---|
| inventory/warehouse | stock of a lot, its log, transfer requests, discrepancy reports | sell, move, break packs, receive, edit, decide, adjust | races on a shelf, deadlocks, partial failure, documents applied twice | no negative stock, nothing lost, log and stock agree, what is approved was moved |
| general: compositions | recipe rows, `is_composite` | replace, update quantity, clear, delete a variant with its cascade, explode, availability | two edits that make a cycle; a cascade that takes rows of other recipes; products reached by several paths | recipes end, the flag follows the rows but for the cascade, explosion counts every path |
| general: catalogue | products, groups (a tree), assignments | create many, move a group, delete it, replace assignments | a move reads descendants first; skipped rows of an `INSERT` | the groups are a tree; a product is in the groups asked for |
| general: tenants | tenants, branches, subscriptions, special codes | onboard, subscribe, hear from Stripe, edit and delete branches | Stripe is outside every transaction; events twice and in any order | what lives at Stripe is known here, a code is spent for a tenant, one main branch |
| pos/sale, cash_register, loyalty | sales, payments, shifts, points | full sale, bare sale, pay, delete a payment, verify it, open, close, earn, redeem | a sale during the closing, points moved after the commit | points add up, a shift counts its sales, a verification completes a sale when it is paid and not before |
| pos/promos | promotions with rules, segments and targets; the functions that compute discounts | create, update, delete; discount of a line by each kind | an update is six statements; a kind may change while its rules stay | what is kept is what one request sent; no more is taken off than is bought |
| pos/pos-royalty | a rule of gifts, its dimensions and options | put, delete, replace the dimensions, put options | no transaction anywhere | nothing outlives the rule; options lie within the dimensions |
| pos/loyalty: collections | programs, rates, the balance and the ledger | edit programs, grant for a collection | the balance and its ledger row are written apart, after the commit | the chart shows no points nobody got; collections earn what the sale earns |
| pos/accounts_receivable | the account and its collections | register, correct; complete an apartado or credit sale | trigger and application both keep the totals; work after the commit | totals are the sums, goods leave once and only when paid |
| pos/returns, credit-debit-note | returned lines, notes, supplier credits born of them | partial and full refund, delete a line, create and void notes | the trigger reads quantities without locking; the balance is read before | the totals of a sale are its lines' but for those deleted, no more is credited than invoiced |
| pos, purchase: alerts | alerts of accounts that come due | generate, resolve by trigger or by hand | generation against a payment | nobody is dunned early, twice, or once paid |
| purchase: payments | `account_payable`, payments, supplier credits | register, correct a payment; apply a credit | only the trigger keeps the totals | totals are the sums, credits are conserved |
| purchase: orders | order, receipts, matching, disputes | create, ship, cancel, receive, bill, match, dispute | status read before it is written | the trail explains the status, goods come in once |
| finances: accounting | chart, entries, numbering, caches | generate, record in a savepoint, number, void, reverse | a cache that outlives a rollback | entries and documents go together, balance, are reversed once |
| finances: reports | nothing of their own | cash flow, projections, net sales, expenses, balances, VAT | each screen has its own queries, time zones and rates | the screens agree, and cash is told once |
| hr: payroll and debts | paysheets, details, debts | process, pay, amend | a retry after a crash, a debt paid during a payroll | debts add up, a sheet closes once |
| hr: benefits and settlement | deposits, vacation periods, advances, settlement and its items | accrue, enjoy, advance, settle, approve, pay | long formulas over years; no transaction | months accrue their share, the header is the sum of its items |
| hr: time | overtime, clockings | register, clock in and out | caps read, then inserted | overtime within the caps |
| hr: heirs, profit sharing | beneficiaries and shares; periods, details, bonuses | validate, distribute; calculate, close, advance | many statements, no transaction | shares are the amount; a closed period stands |

They interact through the database and by calls: a sale calls
`consumeStockForSale` and inserts the receivable and its first collection in one
transaction; `registerCollection`, after its own transaction, calls
`completeApartado`, which opens another one and consumes stock; the approval of
a transfer request calls `moveProductToWarehouse`, which has a transaction of
its own, and records the decision afterwards; a credit note creates a supplier
credit, which `applySupplierCredit` spends as a payment of a purchase; recipes
are read by sales, moves, receipts and by the availability shown to the user; a
shift is closed by a function of the database that sums the sales rung up on it.
Most handlers also have a journal entry written.

`PROJECT.json` lists every component, with the ones that are not modelled and
why, and under "hazards" each place where these behaviours bite, at its line.

## The modules

    StockTable ---- WarehouseService ---- Shop (what it implements)
                           |------------- MCWarehouse ---- MCCounter
                           '---- Counter ------------------'
                                     '-- WarehouseService_proofs
    Receivables ---- MCAccounts, Accounts_proofs
    Payables ------------'
    Database ------- Journal ------------ MCJournal,  Journal_proofs
        |                '-- Entries
        |----------- Catalogue ---------- MCCatalogue
        |                '----.
        |----------- Composition -------- MCGoods
        |----------- Till, AfterSale, Promotions, Royalties, Loyalty ---- MCSelling
        |                                                      '-- MCSelling_proofs
        |----------- Tenancy, Orders, Alerts, Reports ---- MCOffice, MCOffice_proofs
        '----------- Payroll, Settlement, Hours, Heirs, ProfitSharing --- MCPeople
                         |           '-- Benefits                            |
                         '-- Payroll_proofs ------------------------- MCPeople_proofs
    Sums: lemmas on sums and counts, which every module of proofs uses

`StockTable`, `Receivables` and `Payables` have a database of
their own, made for what they prove; the others write their handlers in the
terms of `Database`. `MCGoods`, `MCSelling`, `MCOffice` and `MCPeople`
instantiate modules that share no row side by side: a behaviour begins in one
`part` and stays there, and the properties of each are stated of its part.
`MCAccounts` and `MCOffice` have two specifications, of a run each: the account
of a sale (`SaleSpec`) and that of an order (`OrderSpec`); tenants (`TenantSpec`)
and the rest (`OfficeSpec`).

### StockTable and WarehouseService

`StockTable` is the database as the warehouse sees it. A row is (warehouse,
variant, lot). `com` is the committed stock, `draft` the stock with what
transactions in progress have written, `holder` the session with the row lock;
`log` is the committed balance of `inventory_log` by shelf and `pend` what each
session has logged and not committed. `Seen` is READ COMMITTED: a statement
reads the committed rows and its own writes. A write waits for the lock, then
tests its WHERE clause again on the row as it is (`Removable`); a row another
session is inserting is invisible. `removeStock` updates every lot of the shelf
that has enough, which is what its SQL does.

`WarehouseService` runs the handlers of `warehouse.service.ts`. A session has a
program, `prog`: the statements it has still to send. `Handler` gives the first
ones; executing a statement may put others in front, which is how the loops and
branches of the code become visible (`SellLeaf` sends `parent`, `break`,
`reread`, `final`). Between any two statements of a session every other session
may run, and a session may fail at each (`Fail`), which rolls back its
transaction. Where the code opens no transaction, as in
`receiveStockFromPurchase`, each statement commits by itself. `DeadlockVictim`
is PostgreSQL's deadlock detection: it aborts a member of a ring of waiters and
nothing else. `Shop` is what the point of sale may assume: units leave by sales
and by nothing else, and a sale takes every unit it sells. `Counter` adds a
history variable, `alone`, that says whether two requests have ever been under
way at once: what the code promises only to requests that come one at a time is
stated with it.

### Composition and Catalogue

`Composition`: sessions replace, change and clear the recipe of a variant, one
statement at a time: `CheckComponent` for each component, `FindRows` and
`DeleteRows` for what the DELETE sees and takes, `InsertRows`, `SetFlag`,
`EndRequest`; any of them may fail, and fails where a key refuses it.
`DeleteVariant` is the deletion of a variant with the trigger
`cascade_delete_composite_children` (SQL:532): it takes the components along,
with every row they are in, those of other recipes too, and tells no flag.
`Robbed(p)` is the history of that. Quantities are numeric(12,3) in the code and
count in parts of a piece here. `Explode` and `Availability` are the two
functions that read the table, the second from one inventory row of each leaf,
as the query with LIMIT 1 gives it; `RecipesCounted` checks them against
definitions that do not recurse the way the code does (the paths through the
recipe; whether the number can be built from those rows). They are RECURSIVE
operators, so nothing is proved about this module.

`Catalogue`: `tenant_product_group` is a tree. A move is three queries
(`StartMove` and the read of the descendants, the read of the parent, the
UPDATE) with no transaction. Assignments of a product are replaced in a
transaction of two statements; products are created in one `INSERT ... ON
CONFLICT DO NOTHING` whose RETURNING list holds only the new ones.

### Receivables

One sale on credit or in layaway and its account. `registerCollection` is
`Backfill`, `Insert`, the trigger (`ReadSum`, `TriggerWrite`), the
recalculation (`ReadSum`, `RecalcWrite`), `Commit`, then outside the transaction
`Reread` and `CompleteCredit` or `CompleteApartado`. `ReadSum` is a step of its
own because a statement computes its subqueries from its snapshot and only then
waits for the row it updates. `ar` and `rows` are what is committed, `own` and
`mine` what a session has written. `HasTrigger = FALSE` is an installation
without the trigger, `Legacy = TRUE` an account made before initial collections
had rows: the comments of the code name both.

### Payables

One purchase order, its payments, and supplier credits. The payment is one row,
its trigger sums and then locks the account (`ReadSum`, `TriggerWrite`), the
credit is decremented relative to its row (`Spend`), and all are published by
`Commit`. What `applySupplierCredit` reads before the transaction, the credit
and the balance, are steps of their own (`ReadCredit`, `ReadBalance`).

### Database

What every service has in common, once: `db` is what is committed, by row,
`mine` what each session's open transaction has written (`Absent` for a row it
deleted), `at` where a session is and `job` what it carries. `Sees` is READ
COMMITTED, `Free` says that no other open transaction has written a row, `Fail` an error or a crash
anywhere, which rolls back. `calm` is a history variable: no two requests have
ever been under way at once. A module that extends it names its rows, gives
`db` its first value, and writes its handlers as actions, one for each
statement, or for each group of statements between which nothing another
session does can be told.

### AfterSale, Till, Journal

`AfterSale`: one invoiced sale, for as long as its invoice is there
(`deleteInvoice` is left out). `StartReturn` takes the request, `TakeLine` is the
trigger `update_on_return` reading the quantity, `PutLine` writing what it read
less what is returned, `SumInvoice` and `PutInvoice`, `SumSale` and `PutSale` the
totals of invoice and sale, each summed before the row is locked. `DeleteItem` is
the DELETE of a line by itself: no total hears of it, which the properties say
(`Tells`: a total is no less than the lines that are left are worth, and no more
than these with the deleted ones). Notes: the balance is summed (`CheckCredits`)
before the transaction that inserts; voiding tests the status it has read.

`Till`: shifts, sales in the two ways the code has, payments, points. A full sale
comes in the ways its request may ask for (`Terms`): completed or not, on credit
or not, with points, its payment born verified or not. A bare sale is completed
or not as the caller says, and so is a payment verified (`Pay`); `DeletePayment`
takes away any payment. `check_sale_payment_completion` runs when a payment
becomes verified and at no other time (`CheckPaid`, `Complete`), so a sale paid by
payments that were born verified waits for nothing and stays open, and one whose
payment is deleted stays completed: `CompletedWhenPaid` and `VerifiedCompletes`
are of verifications. The closing (`StartClose`, then the function of the
database) locks the shift and sums the sales linked to it; a sale that links
itself afterwards waits for the row and finds it closed. Points move in
statements of their own after the commit. No endpoint of the repository calls
`createSale` or `verify_customer_payment`; they are there for callers of the
database and of the service.

`Entries` is the pure part of the accounting: the lines each generator makes of
a document, their conversion to bolivares, the correction of the cents, and the
test of the balance. `Journal` has the three ways an entry is written (in a
savepoint, primary, apart), the chart that is made on demand, the account cache
that no rollback undoes, numbering under a lock, voiding and reversal.

### Promotions, Royalties, Loyalty

`Promotions`: a promotion is a row with rules, segments and targets in three
other tables. An update writes the row first, whatever it changes, and then
deletes and inserts the others one table at a time; what each session inserted
is a row of the model, because inserts of two requests never meet. `Discounts`
is `calculate_promotion_discount` with the functions it calls, in cents, over
every rule `LIMIT 1` may pick.

`Royalties`: no request opens a transaction, so each statement is a step; the
dimensions of a rule are replaced by one that drops options, one that clears,
and one for each that is inserted.

`Loyalty`: what collections earn one by one, after their commit. The program is
read, then the rate, then the balance is added to, then the ledger gets its row.
The products and quotients of the code's floating point are exact here.

### Orders, Alerts, Reports

`Orders`: status, receipts, matching and disputes, each acting on a status that
an earlier query read. The functions of migrations that are not in the
repository (`start_`, `update_`, `confirm_`, `cancel_goods_receipt`) are
external: modelled from how the service calls them, and assumed to supersede the
trigger `create_goods_receipt` (SQL:5782). `Alerts` is the collection alerts and
the payment alerts, which are the same code twice.

`Reports` has one action for a handler that makes a document, since what
requests do to one another is the subject of the other modules, and time in
sixths of a day, the business being one sixth west of Greenwich. Each screen is
an operator that reads the documents with the filters, days and rates of its
query.

### Tenancy

Tenants, branches, codes and subscriptions; Stripe is a set of rows that no
rollback reaches. `Compensate` is what the service does when the database
refuses; a crash loses it. Events are delivered any number of times, in any
order.

### Payroll, Benefits, Settlement, Hours, Heirs, ProfitSharing

`Benefits` is the pure part: what a month, a year and a leave give, the items of
a settlement, the interest for lateness. It counts in halves of a hundredth of a
day, because the fraction of a year's leave is rounded to hundredths, vacation and
bonus each by itself (`vacations.service.ts:121`), and the twelfths of a profit of
thirty days are halves. `Settlement` takes one employee from
hiring to settlement by months. `Payroll` writes details one by one, each in a
transaction with the instalments it takes; `Hours`, `Heirs` and `ProfitSharing`
have no transaction at all, so every statement is a step.

## Runs

The bounds are small on purpose and chosen so that what can go wrong does: each
property of a passing run has a mutant, a change to one definition as a bug of
the code would make it, which the same run refutes.

| run | bounds | question |
|---|---|---|
| counter | 2 sessions, 2 jobs each, 2 warehouses, a unit and a pack of 2, 1 lot, fairness | races of sales, moves and breaking of packs, with failures: stock not negative, nothing lost, the log no more than the stock, and exact while alone; does every request end; alone, does a sale sell all (the refinement of `Shop`)? |
| shelf | 2 sessions, 2 jobs each, 2 lots, 1 transfer request, 1 discrepancy report, no packs | row endpoints and documents against sales and purchases, with failures: what is logged was there or is gone, never the other way round; what reads approved was moved |
| goods | recipes: 1 session, 3 variants, quantities to 3 halves; groups: 2 sessions, 3 groups, 2 products | recipes and their two readers; the tree and the assignments |
| receivables | 2 sessions, 4 rows, failures, corrections, with and without legacy | totals, statuses, the initial collection, release of goods |
| payables | 2 sessions, 3 payments, 2 credits, failures, corrections | credits conserved, totals, no more than what is due |
| journal | 2 sessions, 2 documents, 3 copies of the chart; every small document | entries with documents, on the chart, numbered, reversed once, balanced |
| selling | 2 sessions in each of five parts: 2 shifts, 2 sales, 2 payments; 2 lines, 2 notes; 1 promotion; 2 dimensions, 3 groups; 3 collections, 2 programs | points, closings, completion; totals of a sale after returns, notes; promotions, gifts and points of collections |
| people | 2 sessions in each of five parts; 240 months of service | debts, settlements, caps, shares, closings |
| office | 2 sessions: 1 order with 3 steps of trail; 2 accounts, 3 alerts, 4 days; the documents of 2 days | the history of an order; alerts; what the screens tell |
| tenancy | 2 sessions, 2 tenants, 2 branches, 1 code | Stripe, codes, main branch |
| bulk_create | as the groups of goods | the comment of `createProduct`, refuted |
| net_sales | as the reports of office | the comment of the sales-against-expenses report, refuted |

Several runs join in one name what belongs together: `AccountShown` (the status
of an account and its initial collection), `TenantsBacked` (Stripe and the
codes), `EntriesPlaced` (with the document, on the chart, left out for no fault
of the code), `OnceOnly` (numbers and reversals), `PaidInFull` (points and
completion), `GroupsKept`, `NotesBacked`, `PromotionsKept`, `ReportsTell`. The
conjuncts have names of their own in the module, next to what they are about.

Two sessions are enough for a lost update, a check that is stale, or a ring of
waiters; one pack and its unit make every branch of `consumeStockForSale` happen;
three collections are an initial one, one that pays part and one that pays the
rest; three groups are the shortest chain that a move can close; two shifts, one
to close while a sale asks for the other; 240 months are past every threshold of
the benefits (the 30 days of leave, the two years of accumulated deposits, the
180 days of profit). A session may serve several requests one after the other
wherever the bound is on rows rather than on jobs.

No deadlock is checked in the runs where a system that has used its rows stops
by the bound alone; `counter`, whose question it is, checks that every request
ends. `shelf` checks no liveness: its handlers insert rows, and the bound on the
lots of a shelf would hold them up for a reason the database does not have.

Fairness is stated in `counter` alone: weak fairness of the steps of each
session. The event loop takes every handler on, the database grants a free lock
and parts a ring. Failures and new requests are not assumed. Weak fairness
suffices because a session that waits for a lock waits for one that runs.

`bulk_create` ends in a counterexample: `createProduct` says that it maps the
rows it got back by sku, and maps them by index. So does `net_sales`: the report
says that sales are net of returns, and a partial return takes its piece off the
line and is subtracted once more.

Several properties are stated, wholly or in one of their conjuncts, of requests
that come one at a time (`calm`, `alone`), because the code does not keep them
otherwise; the next section says where.

## What the code does not promise

While modelling we met behaviours a reader may not expect. None is a property of
a passing run; each property says by its hypotheses on which side of the line it
stands, and dropping the hypothesis shows the behaviour.

Stock and money.

* The row count of the last `UPDATE` of a sale is not looked at
  (`warehouse.service.ts:782`): two sales of the last units both commit. With two
  lots on a shelf, a sale takes its quantity from both.
* A transfer request may be approved twice at once (`:1251`), a discrepancy
  report applied twice (`:1134`), an apartado released twice by two last payments
  (`accounts-receivable.service.ts:291`). An apartado paid in full when it is
  created is completed and its goods never leave.
* Two payments of one order: the second writes a total without the first
  (SQL:5574). `applySupplierCredit` never compares the supplier of the credit
  with that of the order.
* Two first collections of a legacy account both insert the initial one.
* Two replacements of recipes, each legal, make a cycle; so do two moves of
  groups. Two replacements of a product's groups at once leave the union.
* Two returns at once may return one piece twice, two notes credit more than the
  invoice.
* `receiveStockFromPurchase` has no caller in `src/`; the average cost
  (SQL:3282) is read and written without a lock.
* `DELETE /items/:id` deletes a line and corrects neither the totals nor the stock
  (`sale-item.service.ts:38`), where its controller says that it alters both.
* A sale paid by payments that were created verified is never completed: only the
  verification of a payment looks (SQL:3373). A payment may be deleted after it
  completed a sale (`customer-payment.service.ts:94`). A payment in points that is
  verified after its sale was rung up is taken off the balance twice.
* The deletion of a composite deletes its components, with the rows they have in
  other recipes (SQL:547), whose `is_composite` stays: one whose last component went sells
  without taking any stock.
* `receiveStockFromPurchase` opens no transaction: a purchase that dies between
  two statements leaves stock that no log row tells.
* A credit sale whose upfront payment leaves a balance within the tolerance of a
  cent is marked paid and stays uncompleted, unless the request asked for
  completion (`sale.service.ts:203`).
* `setRuleDimensions` has no transaction, where its comment says a single one
  (`pos-royalty.service.ts:81`, `:95`): two replacements leave the union.
* The switching of promotions by date (SQL:3815) and the search for those of a
  variant (`pos.queries.ts:946`) name columns that are not there and always
  fail. Pay-x-get-y and stepped rules may take off more than the price when
  their columns say so; the function that adds a purchase up ignores its
  minimum; `getPromoInfo` reads the tables one after the other; an update that
  changes only `is_universal` leaves segments that no longer count.
* Nothing keeps a tenant from several active programs of points. The balance and
  the ledger of points are written apart, and correcting a collection takes no
  point back.
* The list of the products that may be given (a recursion by UNION ALL) does not
  end on a cycle of groups.
* A cash register session is started with no test of an open one in the service;
  SQL:4284 raises. Its closing maps payment method 4 to transfers and 5 to
  points, which are not the seeds of SQL:6958.

Accounting. The account cache is one per process (`accounting-journal.service.ts:69`),
where comments say per request: entries that were made while a chart was rolled
back are left out afterwards.

People.

* A payroll retried after a crash inserts a second detail and takes the
  instalment twice; two at once leave the sheet open.
* A settlement is written with no transaction; paying it twice adds two interest
  items; `approve` tests neither amount nor status. A full year counts 11 months
  of deposits (27.5 days, not 30). `enjoy` writes `disfrutando`, which the list of
  pending periods omits (`vacation-period.service.ts:189`, `hr.queries.ts:956`), so
  that what remains of a period is lost, and two at once lose an update.
* Overtime: the caps are read and then inserted; the week of a UTC date is
  computed with local functions. Two clock-ins leave two open clocks.
* Shares of heirs are written one by one; two distributions mix, and a payment
  with interest leaves them stale.
* A profit-sharing period that is closed while a calculation runs goes back to
  `calculado`; the details of an employee who left stay and are counted.
* `incapacity` updates with a statement that has one parameter more than are sent
  (`hr.queries.ts:500`, `incapacity.service.ts:199`), so it always fails.

* The bulk creation of users and employees leaves out `hire_date`, which is NOT
  NULL (`hr.queries.ts:110`, `user.service.ts:332`).

Reports. A partial return is subtracted twice from net sales (`net_sales`); a
full refund is not subtracted at all; notes on invoices whose price includes the
tax are taken whole, where the VAT takes their lines; a partial return has tax
put upon a price that includes it. A return on a sale on credit counts as cash
that left, and points that open an account as cash that came. The return of a
whole line deletes its own `return_product` by cascade. Profitability compares a
date with an instant of Greenwich at the start of its expenses. The statements
of one report may see different states. The trigger of migration 032 and
`get_exchange_rate_at` (044) are not in the repository.

Purchases. `updateOrderStatus` and `updatePurchaseOrder` act on a stale status
(`purchase.service.ts:571`, `:524`), the second tests no transition; a pending
receipt matched by hand is not matched again when it is confirmed; resolving a
dispute tests no status. An account that moves from warning to urgent keeps both
alerts; suppliers with several branches are counted once for each; a generation
that races a payment leaves an alert on a paid account.

Catalogue. Updating a group without a parent sets it to NULL and keeps the level;
levels of descendants are not refreshed. The trigger `prevent_category_cycles`
puts a UUID in a VARCHAR(13).

Tenants. The end of one subscription unsubscribes a tenant that has another; so
does the event of one that was compensated. An onboarding whose token cannot be
issued cancels at Stripe though the tenant is committed. `deleteTenant` cancels
nothing at Stripe and is refused for a tenant that redeemed a code. Two
subscriptions of a tenant without customer create two. Updating a branch against
deleting one may leave no main branch. A crash loses the compensation.

## Proofs

TLAPS checks these for every value of the constants: any number of sessions, of
rows and of requests, and any amounts. The assumptions are the ones the modules
name (`ServiceConstants`, `ReceivableConstants`, `AccountsConstants`,
`TenancyAssumption`, `OfficeConstants`, `JournalConstants`, `PaperAssumption`,
`PeopleConstants`, `SellingConstants` and those of `StockTable`), which TLC
evaluates in each run; they say that sets of rows are finite, that the names of
rows differ, which columns are positive, and what a document is made of. The
theorems of `Payroll_proofs` have them as a hypothesis (`PayrollConstants => ...`),
for the module that has payroll as a part. Where a theorem needs more, its
statement says so and the reason is below.

`Sums` comes first: the sums of the models are `SumFunction` of the community
modules, a fold that takes elements by CHOOSE. Its lemmas say that it is defined
on finite sets, takes one element at a time, splits over disjoint sets, moves by
what one element moves, is bounded by its terms and, of zeros and ones, counts.
The library's induction theorems over operators are beyond the provers, so these
rest on the smallest counterexample: among the subsets of a finite set for which
a formula fails there is one none of whose proper subsets fails. The property is
a set there and not an operator, so it can be cited.

* `WarehouseService_proofs`: `TypeCorrect`, `StockNeverNegative`,
  `ApprovalFollowsMove`. The inductive invariant of the first two is the two
  together with the types of the statements still to be sent, and `CleanRows`: a
  row nobody holds is as committed (by the way the database is modelled, so it is
  no property of the program), and a rollback returns to a stock that was not
  negative; every statement in a program adds or takes a positive number, which for `MoveProduct` needs a lemma on rounding division. For the
  approvals `Backed` speaks of programs: a statement that approves a request is
  only ever sent behind a COMMIT of the same decision, or after one has been
  committed. Requests come in finitely many sorts (`IsFiniteSet(Job)`), since the
  property counts the commits of those that decide.
  `LogNeverOverstates` and `StockIsConserved` are of a shop (`OneRowEach`,
  `ShopJobs`, `PacksAddUp`; the constants of `counter`, whose run has TLC evaluate
  the three): requests sell, move and break up packs, every shelf has one row of
  its variant, and a pack holds what it is broken into. They are not true without:
  an edited row adjusts the stock and logs nothing, and `addStock` changes every
  lot of a shelf and is logged once. The argument is of programs again. A statement
  owes the units it is to take or to put (`Effect`), a program what its statements
  owe together (`Owed`), and each statement that is sent owes, with what it has
  done to the shelves, what it stood for (`Does`): the leaves of what is sold, what
  a broken pack is made of, both ends of a move. So what a session has put on the
  shelves, what it has still to put there and what it was ordered are never less
  than nothing together (`Afloat`), and when its COMMIT comes, behind which
  nothing that moves stock is sent (`Planned`), it may take no more than it sells.
  A row changes only under its lock, by what the log will say or more
  (`LogInv`): a `removeStock` that finds its row short takes nothing and is
  logged all the same.
  `LogTellsAll` and `ShopSellsWhole` are of the same shop with the history of
  `Counter`, while its requests come one at a time; the second is the refinement
  of `Shop`, initial states and steps. What is new is why the unchecked decrement
  at the end of a sale cannot miss then: the check in front of it has just seen
  that the row has enough (`Careful`), and no other session holds or wants a
  row. So every statement does to the shelves exactly what it is logged for
  (`Exactly`, `CalmInv`), and "never less than nothing" becomes "nothing" for
  every session with a COMMIT to come (`Even`): what it sells is what it took.
* `Accounts_proofs`, of a sale: `ReceivableTypeCorrect`, with or without the trigger, and
  `BooksAlwaysAgree`, `AccountAlwaysShown`, `GoodsAlwaysFollowPayment`, where it
  exists. The first invariant says who holds the lock of the account, and that
  the sum a session carries to `RecalcWrite` is the sum of the collections it
  sees: true because the trigger has locked the account first, so nobody commits
  in between. That is why the recalculation, defensive in the words of its
  comment, is right with the trigger and wrong without it. The second, `Agreed`,
  adds what each step of a collection has been told of the account (`Told`), that
  no two sessions write one collection, and that what is settled has a session
  that will complete it (`Finishes`). The last theorem is of sales worth more
  than twice the tolerance (`Ample`), and of upfront payments that are not the
  whole but for the tolerance (`UpfrontApart`): without these the first payment
  settles an account that no request completes, as the section above tells.
  Of a purchase order, as an instance of `Payables` in the same module:
  `PayableTypeCorrect`, `CreditAlwaysConserved`, `PayableAlwaysAgrees`,
  `CreditAlwaysFits`. Whoever wrote a credit holds its
  lock until it commits, and what it wrote is what the row held, less the amount
  it records as applied. `Consistent` adds what the account shows, which rows are
  fresh, and, while calm, that what `applySupplierCredit` read before its
  transaction still holds. The last theorem is an action property.
* `Journal_proofs`: `JournalTypeCorrect`, `EntriesAlwaysPlaced`,
  `AlwaysOnceOnly`, `SoundNeverRefused`. The invariant has four parts. `Sited`: what is committed of a
  document and its entry go together on the one chart, and so does what a session
  is about to commit; a cache holds the chart that is there unless a request has
  made one (`lazy`). `Numbered`: a voucher that is not committed has the next
  number and its session holds the lock of the numbering. `Alone`: two requests
  end what is calm. `Calmly`: as many reversals stand as a document and its entry
  were undone, in what is committed and in what is about to be. The last theorem
  is of the generators: each makes lines with an amount on one side that balance
  (`GeneratedBalance`), half a cent at most is lost of a line, and nothing of an
  empty one (`RoundedIs`), so the sides of what was converted differ by no more
  than the lines that are kept (`RoundingIsSmall`), and what is put back makes it
  up (`CorrectedBalances`). It asks for `2 * Rate >= Unit`, half a bolivar to the
  dollar: with less, a line of a cent is rounded to nothing, one side may be left
  with no line to take the difference (two cents on one side, a cent and a cent
  on the other, at a quarter of a bolivar), and the code refuses the entry. The
  tests of the journal take 50.
* `MCOffice_proofs`, of tenants: `TenancyTypeCorrect`, `TenantsAlwaysBacked`,
  `MainAlwaysKept`.
  `Inv` says what is so of the tables and of Stripe, whoever is at work (`Shared`),
  and of each request what it knows, what it has written and where the
  subscription it makes stands (`Knows`, `Holds`, `Stands`). A request that makes a
  payment is the only one to know it until it commits (`Apart`), and has noted what
  is to be compensated before it looks at the answer: so nothing lives at Stripe
  that neither the database nor a request knows. That the end of the last
  subscription unsubscribes its tenant is not inductive; `Ended` is: a tenant that
  counts as subscribed and pays has a payment whose end nobody was told of
  (`Going`). `MInv` is of branches. Whoever marks one sees no other, and no other
  request has written a change of a mark of that tenant (`OpenMain`), whatever comes
  together; while requests come one at a time (`InTurn`) one that marks finds its
  branch there and one that deletes finds it as it was (`Calmly`). The slots the
  model takes for branches to be made are never those a request is about
  (`Slots`): the code draws a new identifier. `MainAlwaysKept` is of steps.
  Of orders: `HistoryAlwaysKept`. A request that moves an order writes the status
  that is there at the head of what it appends, whatever it read before, so each
  change leads on from the last (`Leads`); by hand no order is delivered. A
  confirmation holds the locks of its order and its receipt until it commits, so
  what it will publish is what is there with the goods of a receipt that is not
  yet confirmed, and the matching it needs is its own or was there (`Confirms`);
  no two confirm one order, so the goods came in once (`Came`).
  Of alerts: `AlertsAlwaysFollow`. The kind of an alert was found on a day that
  does not come back (`InTime`), whatever runs at once; while requests come one at
  a time the accounts a generation goes over stay unpaid, and what it will publish
  spares whoever has paid or has an alert (`Sparing`, `DunsAlone`).
* `Payroll_proofs`: `PayrollTypeCorrect`, `DebtAlwaysAddsUp`,
  `SheetAlwaysClosesOnce`, each of the form `PayrollConstants => ...`. `Sound`
  says that the transaction of a detail holds the slot, the debts it has cut and
  nothing else, and that the books of each debt add up in what is committed:
  balance, what was handed in and what the details took are the loan. `Closing`
  says what a session that goes through the staff has counted, that a closed
  sheet has everybody, and that of those that would close it at once only one
  finds it open. `PayrollSteps` is that the two are inductive, for a module that
  has payroll as a part.
* `MCPeople_proofs`: `DebtsAlwaysAddUp` and `SheetsCloseOnce` carry those to the
  properties the run checks. `HoursAlwaysBounded`: a request that has tested a
  span holds a promise of its hours against it, until it inserts its row or gives
  up. What is recorded and promised is within the cap and what the other sessions
  can have tested meanwhile, each its longest request; nothing of the kind while
  calm. The clocks that run and those about to are bounded in the same way.
  `SharesAlwaysAddUp`: what a distribution that nothing runs beside has read is
  what is there, and those it has served have what they are due
  (`Undisturbed`); the quotients rounded down and the rest, which the last heir
  takes, are the amount (`ShareSum`). `ProfitAlwaysStands`: a calculation that
  nothing runs beside has read what is there, and those it has served have what
  they are due (`Calculates`); the quotients leave over less than a unit each, and
  one rate cuts everybody at the same cap (`CutsAlike`, `CutsAddUp`).
  `SettlementAlwaysAddsUp`: the items that are written and those the request that
  made the header still has are its subtotal, no two requests write them, and who
  pays has read a subtotal nothing changes (`Settles`); the interest cut where the
  rate changes is the days' (`MoraAgrees`, for any dates). `BenefitsAlwaysAccrue`:
  the leave is the sum of the years' and the fraction, which turns into a period at
  the end of one; each share of it is within a third of a hundredth of a day of
  the exact twelfths (`ShareIs`), so a month brings its twelfth but for the
  rounding of two shares before and two after (`LeaveGrows`); severance is the better of two that both grow
  (`SeveranceGrows`). The caps,
  hours, clocks and sheets are any;
  the other constants are those of `MCPeople`.
* `MCSelling_proofs`: `SaleAlwaysAddsUp`, `NotesAlwaysBacked`,
  `RoyaltiesAlwaysKept`, `PointsAlwaysGranted`, `DiscountsAlwaysFit`,
  `PromotionsAlwaysKept`, `PaidAlwaysInFull`, `VerifiedAlwaysCompletes`,
  `ShiftAlwaysCloses`, for any number of requests, lines, notes, dimensions, groups, collections, promotions, shifts,
  sales and payments. `AfterInv` says of each request what
  it has written (`Written`: no line it holds loses a piece, whatever others commit
  meanwhile), where it is (`Control`) and, while calm, what it knows (`Alone`). The
  argument is the lock of the invoice: a request past it sees lines that nobody
  else commits, so the total it puts on the sale is what its lines are worth when
  it commits, while the total of the invoice, summed before the lock, is so only of
  a request by itself. A line deleted by itself takes nothing off either total,
  so what they tell is between the worth of the lines that are left and of these
  with the deleted ones (`Erased`); that no line is deleted under a return that has locked
  its key (`held`) is what keeps its pieces counted once. `GiftsInv`: how far a replacement has come that nobody else
  meets (`Halfway`). `PointsInv`: a collection is granted its points by one request
  only, and what the ledger shows and is about to show is on the balance. That a
  split sale earns what the sale earns, but for less than a point a collection, is
  arithmetic of quotients rounded down (`RoundingFits`). `OffersInv`: whoever
  updates a promotion holds its row, so that nobody else touches its tables, and
  how far it has come with each (`Rewritten`): rows not yet reached are as they
  were, rows deleted are gone and rows inserted are those sent. A request that
  sends rules and no targets mixes what two requests sent, and the code lets it:
  so `PromotionsAlwaysKept` is of requests that send both or neither
  (`SentTogether`, which the run's do), and `DiscountsAlwaysFit`, of rules alone,
  of all. `TillInv` is of the counter, where requests of four kinds write one
  row of points. Whoever closes a shift holds its row, and no other request has
  rung up on it what it has not committed (`Locking`, `NobodyRings`): the lock waits for the key that a
  link to the shift takes, so that what was summed stays what there is. A
  verification sees the points as they are committed, plus what its own
  completion awards, less what it redeemed (`Checking`): true because it updates
  what is there when it has the row and never what it read; and what it saw verified
  of its sale can only grow, payments that are deleted meanwhile still counting
  as what was verified. Points earned and not yet added are owed by the
  request that will add them (`Owed`), so that what fails is lost and nothing
  added twice. `TillAlone` is what a request knows while nothing runs beside it: one
  that will commit a verification has completed its sale, or left one that is not
  paid or waits for another (`Unsettled`). `TillCalm` is what the tables then
  keep: no more points are redeemed than payments claim. The theorems of shifts
  (`ShutRight`) and of verifications are of steps.

What stays with TLC, and why:

* liveness (`EveryRequestEnds`) and the fairness behind it: ENABLED and WF are
  out of reach of the prover;
* `RecipesSound` and `RecipesCounted`: Composition is written with RECURSIVE
  operators, which the prover does not take; `ReportsTell`: the queries of the
  reports over small tables; `LogNeverAhead`, the log beside endpoints that do
  not write it;
* `GroupsKept`: a move reads the descendants of a group and its ancestors by two
  bounded recursions, whose agreement is an induction over the tree.

The modules over `Database` have a `TypeOK` each, for the reader; what a run or
a theorem states of them implies the part of it that matters.

## What is left out, and the plan

`PROJECT.json` gives the reason for each component that is not modelled or only
partly: operations of a single statement upon a row of its own (suppliers, categories,
records of hr; what a deletion cascades to is left out), pure checks of one request (guards,
interceptors), and wiring. What could be added is: the interest on severance;
the functions of average cost; deleting an order or an invoice; the register's
transactions made by hand; the exceptions that
`check_sale_payment_completion` swallows (WHEN OTHERS). The proof that would come next is of the tree of groups.
