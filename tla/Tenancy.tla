------------------------------ MODULE Tenancy ------------------------------
(***************************************************************************)
(* Tenants, their branches and their subscriptions: the onboarding that    *)
(* creates a tenant whole (tenant.service.ts), the one that subscribes a   *)
(* tenant again and the webhook through which Stripe tells what became of  *)
(* a subscription (subscription.service.ts), the codes that pay for one    *)
(* (special_code.service.ts) and the main branch (branch.service.ts).      *)
(*                                                                         *)
(* Stripe takes part in no transaction: a request that fails after it made *)
(* a subscription there cancels it, if it still can.  Stripe sends every   *)
(* event at least once, in any order.                                      *)
(***************************************************************************)
EXTENDS Database

CONSTANTS
  Uuid,       \* identifies a payment, its subscription and the tenant it onboards
  Name,       \* tenant_name, identification: unique
  Branch,     \* slots for rows of branch
  Code,       \* the rows of special_code
  Absent

VARIABLES
  stripe,     \* [Uuid -> [status, tenant]]: the subscriptions at Stripe
  sent,       \* the events Stripe has sent, and may send again
  told        \* history: the subscriptions whose end was answered with success

vars == <<db, mine, at, job, calm, stripe, sent, told>>
outside == <<stripe, sent, told>>

T(u) == <<"tenant", u>>
P(u) == <<"payment", u>>
Row == {T(u) : u \in Uuid} \cup {P(u) : u \in Uuid} \cup Branch \cup Code

\* A payment is inserted with its subscription, and stands for both.
TenantRow == [name : Name, subscribed : BOOLEAN, customer : BOOLEAN]
PaymentRow == [tenant : Uuid, verified : BOOLEAN]
BranchRow == [tenant : Uuid, main : BOOLEAN]
CodeRow == Uuid \cup {Absent}         \* the tenant that redeemed it

\* The rows of different tables differ, and none is the lack of one.
TenancyConstants ==
  /\ Absent \notin Uuid \cup Name \cup Branch \cup Code \cup TenantRow \cup PaymentRow \cup BranchRow
  /\ Branch \cap Code = {}
  /\ ({T(u) : u \in Uuid} \cup {P(u) : u \in Uuid}) \cap (Branch \cup Code) = {}

ASSUME TenancyAssumption == TenancyConstants

Blank == [tenant |-> Absent, pay |-> Absent, name |-> Absent, code |-> Absent,
          branch |-> Absent, main |-> TRUE, others |-> {}, made |-> FALSE]

Init ==
  /\ db = [r \in Row |-> Absent]
  /\ RequestsInit
  /\ stripe = [u \in Uuid |-> [status |-> "none", tenant |-> Absent]]
  /\ sent = {} /\ told = {}

Exists(r) == db[r] # Absent
Live(u) == stripe[u].status \in {"incomplete", "active", "leaving"}

\* randomUUID
Fresh ==
  {u \in Uuid : /\ ~Exists(T(u)) /\ ~Exists(P(u)) /\ stripe[u].status = "none"
                /\ \A s \in Session : at[s] # "idle" => job[s].pay # u}
FreshBranch ==
  {b \in Branch : /\ ~Exists(b) /\ \A s \in Session : b \notin DOMAIN mine[s]
                  /\ \A s \in Session : at[s] # "idle" => b \notin {job[s].branch} \cup job[s].others}

\* The unique indexes make a second writer wait for the first.
NameTaken(n) == \E u \in Uuid : Exists(T(u)) /\ db[T(u)].name = n
NameOpen(s, n) ==
  \A t \in Session \ {s}, u \in Uuid :
    T(u) \in DOMAIN mine[t] /\ ~Exists(T(u)) => mine[t][T(u)].name # n

-----------------------------------------------------------------------------
(* createTenantWithOnboarding.                                              *)

\* bound: Uuid.
StartOnboarding(s) ==
  /\ \E u \in Fresh, n \in Name, k \in Code \cup {Absent} :
       Begin(s, "tenant", [Blank EXCEPT !.tenant = u, !.pay = u, !.name = n, !.code = k])
  /\ UNCHANGED outside

\* Steps 1 to 3: the tenant with its defaults, its main branch and its
\* administrator.  bound: Branch.
CreateTenant(s) ==
  LET j == job[s] IN
  /\ at[s] = "tenant" /\ NameOpen(s, j.name)
  /\ IF NameTaken(j.name) THEN Rollback(s)
     ELSE \E b \in FreshBranch :
            Write(s, [r \in {T(j.tenant), b} |->
                        IF r = b THEN [tenant |-> j.tenant, main |-> TRUE]
                        ELSE [name |-> j.name, subscribed |-> TRUE, customer |-> FALSE]],
                  IF j.code = Absent THEN "subscribe" ELSE "redeem", j)
  /\ UNCHANGED outside

NewPayment(j) == [tenant |-> j.tenant, verified |-> FALSE]

\* consume: is_used is tested by the UPDATE itself.
Redeemable(s, k) == Sees(s, k) = Absent

\* Mutant of Redeem: the code is taken as it was when the form was filled in.
RedeemUntested(s) ==
  LET j == job[s] IN
  /\ at[s] = "redeem" /\ Free(s, {j.code})
  /\ Write(s, [r \in {j.code, P(j.pay)} |-> IF r = j.code THEN j.tenant ELSE NewPayment(j)],
           "commit", j)
  /\ UNCHANGED outside

\* The code, then the payment of nothing and its subscription.
Redeem(s) ==
  LET j == job[s] IN
  /\ at[s] = "redeem" /\ Free(s, {j.code})
  /\ IF ~Redeemable(s, j.code) THEN Rollback(s)
     ELSE Write(s, [r \in {j.code, P(j.pay)} |->
                      IF r = j.code THEN j.tenant ELSE NewPayment(j)],
                "commit", j)
  /\ UNCHANGED outside

\* Mutant of Subscribe: what is to be compensated is noted after the answer
\* was looked at.
SubscribeUnnoted(s) ==
  LET j == job[s] IN
  /\ at[s] = "subscribe"
  /\ stripe' = [stripe EXCEPT ![j.pay] = [status |-> "incomplete", tenant |-> j.tenant]]
  /\ Look(s, "record", j)
  /\ UNCHANGED <<sent, told>>

\* The customer, its payment method and the subscription; an answer that lacks
\* the invoice or its secret is an Error at "record".
Subscribe(s) ==
  LET j == job[s] IN
  /\ at[s] = "subscribe"
  /\ stripe' = [stripe EXCEPT ![j.pay] = [status |-> "incomplete", tenant |-> j.tenant]]
  /\ Look(s, "record", [j EXCEPT !.made = TRUE])
  /\ UNCHANGED <<sent, told>>

\* The catch blocks: roll back what is not committed, then compensate.
GiveUp(s) ==
  /\ mine' = [mine EXCEPT ![s] = Unwritten]
  /\ IF job[s].made THEN Goto(s, "cancel", job[s]) ELSE Goto(s, "idle", NoJob)
  /\ UNCHANGED <<db, calm>>

\* enable_tenant, the trigger on the new subscription
Enabled(row) == [row EXCEPT !.subscribed = TRUE]

\* updateStripeId, the payment and its subscription; a tenant that is gone fails
\* the foreign key.
Record(s) ==
  LET j == job[s]  t == T(j.tenant) IN
  /\ at[s] = "record" /\ Free(s, {t})
  /\ IF Sees(s, t) = Absent THEN GiveUp(s)
     ELSE Write(s, [r \in {t, P(j.pay)} |->
                      IF r = t THEN [Enabled(Sees(s, t)) EXCEPT !.customer = TRUE]
                      ELSE NewPayment(j)],
                "commit", j)
  /\ UNCHANGED outside

\* COMMIT: an onboarding goes on to issue tokens.
CommitTenant(s) ==
  /\ at[s] = "commit"
  /\ IF job[s].name # Absent THEN Publish(s, "tokens", job[s]) ELSE Commit(s)
  /\ UNCHANGED outside

IssueTokens(s) == at[s] = "tokens" /\ Rollback(s) /\ UNCHANGED outside

\* bound: none.  Any await of a request that is not the last may throw.
Error(s) == at[s] \notin {"idle", "cancel"} /\ GiveUp(s) /\ UNCHANGED outside

Becomes(U, status) ==
  [u \in Uuid |-> IF u \in U THEN [stripe[u] EXCEPT !.status = status] ELSE stripe[u]]
Event(type, u) == [type |-> type, pay |-> u]

\* The compensation, at Stripe; its own failure is only logged.
Cancel(s) ==
  LET u == job[s].pay IN
  /\ at[s] = "cancel" /\ Rollback(s) /\ UNCHANGED told
  /\ \/ stripe' = Becomes({u}, "cancelled") /\ sent' = sent \cup {Event("deleted", u)}
     \/ stripe' = Becomes({u}, "lost") /\ UNCHANGED sent

\* The process dies, and nobody has the secret to pay what it began.
Crash(s) ==
  /\ Fail(s) /\ job[s].made
  /\ stripe' = Becomes({job[s].pay}, "lost")
  /\ UNCHANGED <<sent, told>>

-----------------------------------------------------------------------------
(* createSubscription, for a tenant that is there; deleteTenant.            *)

StartSubscription(s) ==
  /\ \E u \in Fresh, t \in Uuid :
       Exists(T(t)) /\ Begin(s, "subscribe", [Blank EXCEPT !.tenant = t, !.pay = u])
  /\ UNCHANGED outside

\* Rows of a tenant that somebody is writing hold its key.
Touched(s, t) ==
  \E u \in Session \ {s} : \E r \in DOMAIN mine[u] :
    \/ r = T(t)
    \/ r \notin Code /\ mine[u][r] # Absent /\ r \notin {T(v) : v \in Uuid} /\ mine[u][r].tenant = t

\* The rows that reference it go with it; a code it redeemed refuses, for it
\* would be left used by nobody.  Stripe is not told.
DeleteTenant(s) ==
  /\ at[s] = "idle" /\ UNCHANGED <<mine, at, job>> /\ calm' = (calm /\ Quiet)
  /\ \E t \in Uuid :
       LET own == {P(u) : u \in Uuid} \cup Branch
           gone == {T(t)} \cup {r \in own : Exists(r) /\ db[r].tenant = t}
       IN /\ Exists(T(t)) /\ ~Touched(s, t) /\ Free(s, gone)
          /\ \A k \in Code : db[k] # t
          /\ db' = [r \in Row |-> IF r \in gone THEN Absent ELSE db[r]]
          /\ stripe' = Becomes({u \in Uuid : P(u) \in gone}, "lost")
  /\ UNCHANGED <<sent, told>>

-----------------------------------------------------------------------------
(* Stripe, and its webhook.                                                 *)

\* The secret goes to the client with the answer, and the client pays.
Pay ==
  \E u \in Uuid :
    /\ stripe[u].status = "incomplete" /\ Exists(P(u))
    /\ \A s \in Session : at[s] # "idle" => job[s].pay # u
    /\ stripe' = Becomes({u}, "active")
    /\ sent' = sent \cup {Event("paid", u)}
    /\ UNCHANGED <<db, mine, at, job, calm, told>>

\* cancel_at_period_end
Leave ==
  \E u \in Uuid :
    /\ stripe[u].status = "active"
    /\ stripe' = Becomes({u}, "leaving")
    /\ sent' = sent \cup {Event("updated", u)}
    /\ UNCHANGED <<db, mine, at, job, calm, told>>

EndPeriod ==
  \E u \in Uuid :
    /\ stripe[u].status \in {"active", "leaving"}
    /\ stripe' = Becomes({u}, "cancelled") /\ sent' = sent \cup {Event("deleted", u)}
    /\ UNCHANGED <<db, mine, at, job, calm, told>>

\* handleSubscriptionWebhook
StartWebhook(s) ==
  /\ \E e \in sent :
       Begin(s, IF e.type = "paid" THEN "verify" ELSE "unsubscribe",
             [Blank EXCEPT !.pay = e.pay, !.name = e.type, !.tenant = stripe[e.pay].tenant])
  /\ UNCHANGED outside

Answered(s) == told' = IF job[s].name = "deleted" THEN told \cup {job[s].pay} ELSE told

\* verify_tenant_payment: a payment that is not there, or that somebody verified
\* meanwhile, raises; the trigger finds the subscription of the payment there.
VerifyPayment(s) ==
  LET p == P(job[s].pay) IN
  /\ at[s] = "verify" /\ Free(s, {p})
  /\ \/ ~Exists(p) /\ Rollback(s)
     \/ Exists(p) /\ db[p].verified /\ Rollback(s)
     \/ /\ Exists(p) /\ ~db[p].verified
        /\ Apply(s, [r \in {p} |-> [db[p] EXCEPT !.verified = TRUE]], "idle", NoJob)
  /\ UNCHANGED outside

\* cancelSubscription, of whatever the tenant has
Unsubscribe(s) ==
  LET t == T(job[s].tenant) IN
  /\ at[s] = "unsubscribe" /\ Free(s, {t}) /\ Answered(s)
  /\ IF ~Exists(t) THEN Rollback(s)
     ELSE Apply(s, [r \in {t} |-> [db[t] EXCEPT !.subscribed = FALSE]], "idle", NoJob)
  /\ UNCHANGED <<stripe, sent>>

-----------------------------------------------------------------------------
(* Branches.                                                                *)

\* bound: branches are edited before Stripe tells anything.
Early == sent = {}

Mains(t) == {b \in Branch : Exists(b) /\ db[b].tenant = t /\ db[b].main}

\* unique_main_branch_per_tenant: whoever changes a main mark is waited for.
MainOpen(s, t) ==
  \A u \in Session \ {s} : \A b \in Branch \cap DOMAIN mine[u] :
    LET before == Exists(b) /\ db[b].tenant = t /\ db[b].main
        after == mine[u][b] # Absent /\ mine[u][b].tenant = t /\ mine[u][b].main
    IN before = after
MainTaken(s, t, b) ==
  \E c \in Branch \ {b} : Sees(s, c) # Absent /\ Sees(s, c).tenant = t /\ Sees(s, c).main

\* createBranch: one INSERT, and its COMMIT.
CreateBranch(s) ==
  /\ at[s] = "idle" /\ Early /\ UNCHANGED <<mine, at, job, outside>> /\ calm' = (calm /\ Quiet)
  /\ \E b \in FreshBranch, t \in Uuid, m \in BOOLEAN :
       /\ Exists(T(t))
       /\ m => MainOpen(s, t) /\ ~MainTaken(s, t, b)
       /\ db' = [db EXCEPT ![b] = [tenant |-> t, main |-> m]]

\* The UPDATE of the others finds them, waits for each, and looks again.
StartUpdateBranch(s) ==
  /\ \E b \in Branch, m \in BOOLEAN :
       /\ Early /\ Exists(b)
       /\ Begin(s, IF m THEN "unmark" ELSE "mark",
                [Blank EXCEPT !.tenant = db[b].tenant, !.branch = b, !.main = m,
                              !.others = IF m THEN Mains(db[b].tenant) \ {b} ELSE {}])
  /\ UNCHANGED outside

UnmarkOthers(s) ==
  LET still == {b \in job[s].others : Sees(s, b) # Absent /\ Sees(s, b).main} IN
  /\ at[s] = "unmark" /\ Free(s, job[s].others)
  /\ Write(s, [b \in still |-> [db[b] EXCEPT !.main = FALSE]], "mark", job[s])
  /\ UNCHANGED outside

\* An UPDATE that finds no row is committed like one that does.
MarkBranch(s) ==
  LET j == job[s]  b == j.branch IN
  /\ at[s] = "mark" /\ Free(s, {b})
  /\ \/ Sees(s, b) = Absent /\ Look(s, "commit", j)
     \/ /\ Sees(s, b) # Absent /\ (j.main => MainOpen(s, j.tenant))
        /\ IF j.main /\ MainTaken(s, j.tenant, b) THEN Rollback(s)
           ELSE Write(s, [r \in {b} |-> [Sees(s, b) EXCEPT !.main = j.main]], "commit", j)
  /\ UNCHANGED outside

\* Mutant of StartDeleteBranch: any branch may be deleted.
StartDeleteBranchAny(s) ==
  /\ \E b \in Branch :
       Early /\ Exists(b) /\ Begin(s, "erase", [Blank EXCEPT !.tenant = db[b].tenant, !.branch = b])
  /\ UNCHANGED outside

\* deleteBranch refuses the main branch it reads,
StartDeleteBranch(s) ==
  /\ \E b \in Branch :
       /\ Early /\ Exists(b) /\ ~db[b].main
       /\ Begin(s, "erase", [Blank EXCEPT !.tenant = db[b].tenant, !.branch = b])
  /\ UNCHANGED outside

\* and deletes whatever it has become.
EraseBranch(s) ==
  /\ at[s] = "erase"
  /\ Apply(s, [r \in {job[s].branch} |-> Absent], "idle", NoJob)
  /\ UNCHANGED outside

-----------------------------------------------------------------------------

Onboarding(s) == StartOnboarding(s) \/ CreateTenant(s) \/ Redeem(s) \/ IssueTokens(s)
Subscription(s) == StartSubscription(s) \/ Subscribe(s) \/ Record(s) \/ CommitTenant(s)
                     \/ Error(s) \/ Cancel(s) \/ Crash(s)
Webhook(s) == StartWebhook(s) \/ VerifyPayment(s) \/ Unsubscribe(s)
Branches(s) == CreateBranch(s) \/ StartUpdateBranch(s) \/ UnmarkOthers(s)
                 \/ MarkBranch(s) \/ StartDeleteBranch(s) \/ EraseBranch(s)

Next ==
  \/ \E s \in Session :
       Onboarding(s) \/ Subscription(s) \/ Webhook(s) \/ Branches(s) \/ DeleteTenant(s)
  \/ Pay \/ Leave \/ EndPeriod

Spec == Init /\ [][Next]_vars

-----------------------------------------------------------------------------
(* Properties.                                                              *)

TypeOK ==
  /\ \A u \in Uuid : /\ db[T(u)] \in TenantRow \cup {Absent}
                     /\ db[P(u)] \in PaymentRow \cup {Absent}
  /\ \A b \in Branch : db[b] \in BranchRow \cup {Absent}
  /\ \A k \in Code : db[k] \in CodeRow
  /\ told \subseteq Uuid

Working(u) == \E s \in Session : at[s] # "idle" /\ job[s].made /\ job[s].pay = u

\* Nobody is billed for nothing: a subscription that lives at Stripe has its
\* payment and its tenant in the database, or a request is still working on it;
\* only a crash, a cancellation that fails or a deleted tenant loses it.
NoOrphans ==
  \A u \in Uuid : Live(u) /\ ~Working(u) =>
    Exists(P(u)) /\ Exists(T(stripe[u].tenant))

\* A code is redeemed by one tenant, which is there, and a tenant that pays
\* nothing has redeemed one: no failure or race spends a code for nobody.
CodeBacksTenant ==
  /\ \A k \in Code : Exists(k) => Exists(T(db[k]))
  /\ \A u \in Uuid : Exists(P(u)) /\ stripe[u].status = "none" =>
       \E k \in Code : db[k] = u

\* A tenant all of whose subscriptions have ended, as the webhook was told, does
\* not count as subscribed, however its events were ordered and repeated.
EndedIsUnsubscribed ==
  \A t \in Uuid :
    LET own == {u \in Uuid : Exists(P(u)) /\ db[P(u)].tenant = t} IN
    /\ Exists(T(t)) /\ own # {}
    /\ \A u \in own : stripe[u].status = "cancelled" /\ u \in told
    => ~db[T(t)].subscribed

\* What lives at Stripe is known here, what ended there too, and a tenant that
\* pays nothing has spent a code.
TenantsBacked == NoOrphans /\ EndedIsUnsubscribed /\ CodeBacksTenant

\* A tenant has at most one main branch, whatever comes together; and requests
\* that come one at a time leave it with one, unless they unmark it.
Unmarking(s) == at[s] = "commit" /\ ~job[s].main
MainBranchKept ==
  [][\A t \in Uuid : Exists(T(t)) /\ Exists(T(t))' =>
       /\ Cardinality(Mains(t)') <= 1
       /\ Mains(t) # {} /\ Mains(t)' = {} => ~calm' \/ \E s \in Session : Unmarking(s)]_vars

=============================================================================
