--------------------------- MODULE MCOffice_proofs ---------------------------
(***************************************************************************)
(* What is proved of tenants, their payments and their branches, of        *)
(* purchase orders and of alerts, for every number of requests and rows.   *)
(*                                                                         *)
(* The payments.  A request that makes a payment is the only one to know   *)
(* it until it commits: it holds the rows of the tenant, the payment and   *)
(* the code until then, its subscription at Stripe stands where it left    *)
(* it, and it has noted what is to be compensated before it looks at the   *)
(* answer.  So a subscription that lives at Stripe is in the database with *)
(* its tenant or in the hands of a request, and a code that is spent backs *)
(* the tenant whose payment it was committed with.  That a tenant all of   *)
(* whose subscriptions ended is unsubscribed needs that one that counts as *)
(* subscribed has a payment whose end nobody was told of.                  *)
(*                                                                         *)
(* The main branch.  Whoever marks one sees no other, and nobody else has  *)
(* written a change of a mark of that tenant: what it sees is what it will *)
(* publish.  While requests come one at a time a request that marks finds  *)
(* its branch where it read it, and one that deletes finds it as it was.   *)
(*                                                                         *)
(* An order.  A change of status leads on from the status that is there,   *)
(* whatever was read; only a confirmation says that goods came.  It locks  *)
(* the order and its receipt, so what it has written is what is there with *)
(* the goods of a receipt that nobody has confirmed.                       *)
(*                                                                         *)
(* Alerts.  What a request generates as overdue it began to after the day, *)
(* and days do not come back.  While requests come one at a time the       *)
(* accounts it goes over are unpaid and it sees all the alerts there are.  *)
(***************************************************************************)
EXTENDS MCOffice, FiniteSetTheorems, SequenceTheorems, TLAPS

(* What a request may do next. *)
Step == {"idle", "tenant", "redeem", "subscribe", "record", "commit", "tokens", "cancel",
         "verify", "unsubscribe", "unmark", "mark", "erase"}

(* What a subscription may be at Stripe. *)
Status == {"none", "incomplete", "active", "leaving", "cancelled", "lost"}

(* What a request is about. *)
JobRow == [tenant : Uuid \cup {Absent}, pay : Uuid \cup {Absent},
           name : Name \cup {Absent, "paid", "updated", "deleted"},
           code : Code \cup {Absent}, branch : Branch \cup {Absent}, main : BOOLEAN,
           others : SUBSET Branch, made : BOOLEAN]

(* A request that makes a payment, from its start to its end. *)
Building(s) ==
  \/ at[s] \in {"tenant", "redeem", "subscribe", "record", "tokens", "cancel"}
  \/ at[s] = "commit" /\ job[s].pay # Absent

(* What the tables hold. *)
Tables ==
  /\ DOMAIN db = Row
  /\ \A u \in Uuid : /\ db[T(u)] \in TenantRow \cup {Absent}
                     /\ db[P(u)] \in PaymentRow \cup {Absent}
  /\ \A b \in Branch : db[b] \in BranchRow \cup {Absent}
  /\ \A k \in Code : db[k] \in CodeRow

(* The requests, and what they have written. *)
Requests ==
  /\ at \in [Session -> Step]
  /\ DOMAIN mine = Session /\ DOMAIN job = Session

(* What Stripe holds: a subscription that was made is of a tenant. *)
AtStripe ==
  /\ stripe \in [Uuid -> [status : Status, tenant : Uuid \cup {Absent}]]
  /\ \A u \in Uuid : stripe[u].status = "none" \/ stripe[u].tenant \in Uuid

(* What Stripe has said is so, and so is what the webhook was told. *)
Said ==
  /\ \A e \in sent : e.pay \in Uuid /\ stripe[e.pay].status # "none"
  /\ \A e \in sent : e.type = "deleted" => stripe[e.pay].status \in {"cancelled", "lost"}
  /\ \A e \in sent : e.type \in {"paid", "updated", "deleted"}
  /\ told \subseteq Uuid
  /\ \A u \in told : stripe[u].status \in {"cancelled", "lost"}

(* What a request knows, by how far it has come. *)
Knows(s) ==
  LET j == job[s] IN
  /\ at[s] # "idle" => j \in JobRow
  /\ Building(s) => j.pay \in Uuid /\ j.tenant \in Uuid
  /\ Building(s) /\ j.name # Absent => j.pay = j.tenant /\ j.name \in Name
  /\ at[s] \in {"tenant", "redeem", "tokens"} => j.name # Absent
  /\ at[s] = "redeem" => j.code # Absent
  /\ at[s] \in {"record", "cancel"} => j.made
  /\ at[s] \in {"tenant", "redeem", "subscribe", "verify", "unsubscribe", "unmark", "mark", "erase"}
       => ~j.made
  /\ at[s] \in {"unmark", "mark", "erase"} \/ (at[s] = "commit" /\ ~Building(s)) =>
       ~j.made /\ j.name = Absent /\ j.pay = Absent
  /\ at[s] \in {"unmark", "mark", "erase"} => j.branch \in Branch
  /\ at[s] \in {"verify", "unsubscribe"} =>
       j.pay \in Uuid /\ stripe[j.pay].status # "none" /\ j.tenant = stripe[j.pay].tenant
  /\ at[s] = "unsubscribe" /\ j.name = "deleted" => stripe[j.pay].status \in {"cancelled", "lost"}

(* The rows a request has written and not committed, and what they hold. *)
Holds(s) ==
  LET j == job[s]  m == mine[s] IN
  /\ at[s] \in {"redeem", "subscribe", "record"} =>
       IF j.name = Absent THEN DOMAIN m = {}
       ELSE /\ T(j.tenant) \in DOMAIN m /\ DOMAIN m \subseteq {T(j.tenant)} \cup Branch
            /\ m[T(j.tenant)] \in TenantRow
  /\ at[s] = "commit" /\ Building(s) =>
       /\ {T(j.tenant), P(j.pay)} \subseteq DOMAIN m
       /\ DOMAIN m \subseteq {T(j.tenant), P(j.pay)} \cup Branch \cup Code
       /\ m[T(j.tenant)] \in TenantRow
       /\ m[P(j.pay)] = NewPayment(j)
       /\ \A k \in Code \cap DOMAIN m : m[k] = j.tenant
       /\ ~j.made => j.tenant = j.pay /\ \E k \in Code : k \in DOMAIN m
  /\ at[s] = "mark" \/ (at[s] = "commit" /\ ~Building(s)) => DOMAIN m \subseteq Branch
  /\ at[s] \in Step \ {"redeem", "subscribe", "record", "commit", "mark"} => DOMAIN m = {}
  /\ \A b \in Branch \cap DOMAIN m : m[b] \in BranchRow
  /\ \A k \in Code \cap DOMAIN m : db[k] = Absent

(* Where the subscription it makes stands. *)
Stands(s) ==
  LET j == job[s]  u == j.pay IN
  /\ Building(s) /\ at[s] \notin {"tokens", "cancel"} =>
       /\ ~Exists(P(u))
       /\ IF j.made THEN stripe[u] = [status |-> "incomplete", tenant |-> j.tenant]
          ELSE stripe[u].status = "none"
  /\ at[s] \in {"tokens", "cancel"} /\ j.made =>
       /\ stripe[u].status \notin {"none", "active", "leaving"}
       /\ stripe[u].status = "incomplete" \/ ~Exists(P(u))
  /\ at[s] = "tokens" /\ ~j.made => stripe[u].status = "none"
  /\ at[s] = "tokens" /\ j.made /\ Live(u) => Exists(P(u)) /\ Exists(T(stripe[u].tenant))

(* No two requests write the same row or make the same payment. *)
Apart ==
  /\ \A s, t \in Session : s # t => DOMAIN mine[s] \cap DOMAIN mine[t] = {}
  /\ \A s, t \in Session : s # t /\ Building(s) /\ Building(t) => job[s].pay # job[t].pay

(* A payment is of the tenant its subscription is of, or of the one it        *)
(* onboarded.                                                                *)
Ours ==
  \A u \in Uuid : Exists(P(u)) =>
    db[P(u)].tenant = IF stripe[u].status = "none" THEN u ELSE stripe[u].tenant

(* A tenant that counts as subscribed and pays has a payment whose           *)
(* subscription has not ended, as far as anybody was told.                   *)
Going(v, t) == /\ Exists(P(v)) /\ db[P(v)].tenant = t
               /\ ~(stripe[v].status = "cancelled" /\ v \in told)
Ended ==
  \A t \in Uuid : Exists(T(t)) /\ db[T(t)].subscribed =>
    \A u \in Uuid : Exists(P(u)) /\ db[P(u)].tenant = t => \E v \in Uuid : Going(v, t)

(* What is so of the tables and of Stripe, whoever is at work. *)
Shared == Tables /\ AtStripe /\ Said /\ Ours /\ NoOrphans /\ Ended /\ CodeBacksTenant

(* What is so of one request. *)
Request(s) == Knows(s) /\ Holds(s) /\ Stands(s)

(* The invariant. *)
Inv == Shared /\ Requests /\ Apart /\ \A s \in Session : Request(s)

-----------------------------------------------------------------------------

(* The keys of the tables differ. *)
LEMMA Keys ==
  ASSUME TenancyConstants
  PROVE  /\ \A u, v : T(u) # P(v) /\ (T(u) = T(v) <=> u = v) /\ (P(u) = P(v) <=> u = v)
         /\ \A u \in Uuid : /\ T(u) \in Row /\ T(u) \notin Branch \cup Code
                            /\ P(u) \in Row /\ P(u) \notin Branch \cup Code
         /\ \A b \in Branch : b \in Row /\ b \notin Code
         /\ \A k \in Code : k \in Row /\ k \notin Branch
<1>1. \A u, v : T(u) # P(v) /\ (T(u) = T(v) <=> u = v) /\ (P(u) = P(v) <=> u = v)
  BY DEF T, P
<1>2. \A u \in Uuid : T(u) \in Row /\ P(u) \in Row
  BY DEF Row
<1>3. \A u \in Uuid : T(u) \notin Branch \cup Code /\ P(u) \notin Branch \cup Code
  BY DEF TenancyConstants
<1>4. \A b \in Branch : b \in Row /\ b \notin Code
  BY DEF Row, TenancyConstants
<1>5. \A k \in Code : k \in Row /\ k \notin Branch
  BY DEF Row, TenancyConstants
<1> QED
  BY <1>1, <1>2, <1>3, <1>4, <1>5

(* A row of a table is not the lack of one. *)
LEMMA Present ==
  ASSUME TenancyConstants
  PROVE  Absent \notin Uuid \cup Name \cup Branch \cup Code \cup TenantRow \cup PaymentRow \cup BranchRow
BY DEF TenancyConstants

(* What a table holds after a statement wrote to it. *)
LEMMA Written ==
  ASSUME NEW new, NEW old
  PROVE  /\ DOMAIN Over(new, old) = DOMAIN new \cup DOMAIN old
         /\ \A r \in DOMAIN new \cup DOMAIN old :
              Over(new, old)[r] = IF r \in DOMAIN new THEN new[r] ELSE old[r]
BY DEF Over

(* All requests but one stay where they are. *)
Alone(s) == \A t \in Session \ {s} : at'[t] = at[t] /\ job'[t] = job[t] /\ mine'[t] = mine[t]

(* A request moves on. *)
LEMMA Goes ==
  ASSUME Requests, NEW s \in Session, NEW l \in Step, NEW j, Goto(s, l, j)
  PROVE  /\ at' \in [Session -> Step] /\ DOMAIN job' = Session
         /\ at'[s] = l /\ job'[s] = j
         /\ \A t \in Session \ {s} : at'[t] = at[t] /\ job'[t] = job[t]
BY DEF Requests, Goto

(* Stripe never takes back what it has said of a subscription. *)
Lasting ==
  \A u \in Uuid :
    /\ stripe[u].status # "none" => stripe'[u].status # "none" /\ stripe'[u].tenant = stripe[u].tenant
    /\ stripe[u].status \in {"cancelled", "lost"} => stripe'[u].status \in {"cancelled", "lost"}

(* What a request knows stays so while others work. *)
LEMMA KnowsStays ==
  ASSUME NEW t \in Session, at'[t] = at[t], job'[t] = job[t], Lasting, Knows(t)
  PROVE  Knows(t)'
BY DEF Knows, Building, Lasting, JobRow

(* What it has written stays so, as long as nobody commits a code it wrote. *)
LEMMA HoldsStays ==
  ASSUME NEW t \in Session, at'[t] = at[t], job'[t] = job[t], mine'[t] = mine[t],
         \A k \in Code \cap DOMAIN mine[t] : db'[k] = db[k], Holds(t)
  PROVE  Holds(t)'
<1>1. NewPayment(job[t])' = NewPayment(job[t])
  BY DEF NewPayment
<1> QED
  BY <1>1 DEF Holds, Building

(* Its subscription stands where it stood. *)
LEMMA StandsStays ==
  ASSUME NEW t \in Session, at'[t] = at[t], job'[t] = job[t], Stands(t),
         Building(t) =>
           /\ stripe'[job[t].pay] = stripe[job[t].pay]
           /\ Exists(P(job[t].pay))' <=> Exists(P(job[t].pay))
           /\ Exists(T(stripe[job[t].pay].tenant)) => Exists(T(stripe[job[t].pay].tenant))'
  PROVE  Stands(t)'
BY DEF Stands, Building, Live

(* A request that writes and works apart from the others. *)
LEMMA ApartStays ==
  ASSUME Apart, NEW s \in Session, Alone(s), Requests,
         \A t \in Session \ {s} : DOMAIN mine'[s] \cap DOMAIN mine[t] = {},
         \A t \in Session \ {s} : Building(s)' /\ Building(t) => job'[s].pay # job[t].pay
  PROVE  Apart'
<1>1. \A t \in Session \ {s} : Building(t)' <=> Building(t)
  BY DEF Alone, Building
<1> QED
  BY <1>1 DEF Apart, Alone

(* The tables but that of branches are as they were, but for a mark that a    *)
(* payment is verified.                                                      *)
SameRows ==
  /\ \A u \in Uuid : /\ db'[T(u)] = db[T(u)]
                     /\ Exists(P(u))' <=> Exists(P(u))
                     /\ db'[P(u)].tenant = db[P(u)].tenant
  /\ \A k \in Code : db'[k] = db[k]

(* The subscription a request made is not left to nobody. *)
NotLeft(s) ==
  at[s] # "idle" /\ job[s].made =>
    \/ at'[s] # "idle" /\ job'[s].made /\ job'[s].pay = job[s].pay
    \/ Live(job[s].pay) => Exists(P(job[s].pay)) /\ Exists(T(stripe[job[s].pay].tenant))

(* A step of one request that neither commits a tenant, a payment or a code  *)
(* nor calls Stripe.                                                         *)
LEMMA Inside ==
  ASSUME Inv, NEW s \in Session, Alone(s), SameRows, Tables', UNCHANGED outside,
         Requests', Apart', Request(s)', NotLeft(s)
  PROVE  Inv'
<1>1. AtStripe' /\ Said'
  BY DEF Inv, Shared, AtStripe, Said, outside
<1>2. \A u \in Uuid : /\ Exists(T(u))' <=> Exists(T(u))
                      /\ Exists(P(u))' <=> Exists(P(u))
                      /\ Live(u)' <=> Live(u)
  BY DEF SameRows, Exists, Live, outside
<1>3. Ours'
  BY <1>2 DEF Inv, Shared, Ours, SameRows, outside
<1>4. NoOrphans'
  <2> SUFFICES ASSUME NEW u \in Uuid, Live(u)', ~Working(u)'
               PROVE  Exists(P(u))' /\ Exists(T(stripe[u].tenant))'
    BY DEF NoOrphans
  <2>1. Live(u) /\ stripe[u].tenant \in Uuid
    BY <1>2 DEF Inv, Shared, AtStripe, Live
  <2>2. CASE Working(u)
    <3>1. PICK t \in Session : at[t] # "idle" /\ job[t].made /\ job[t].pay = u
      BY <2>2 DEF Working
    <3>2. t = s
      BY <3>1 DEF Working, Alone
    <3> QED
      BY <1>2, <2>1, <3>1, <3>2 DEF NotLeft, Working, outside
  <2>3. CASE ~Working(u)
    BY <1>2, <2>1, <2>3 DEF Inv, Shared, NoOrphans, outside
  <2> QED
    BY <2>2, <2>3
<1>5. Ended'
  <2>1. \A v, t \in Uuid : Going(v, t)' <=> Going(v, t)
    BY <1>2 DEF Going, SameRows, outside
  <2> QED
    BY <1>2, <2>1 DEF Inv, Shared, Ended, SameRows
<1>6. CodeBacksTenant'
  <2>1. \A k \in Code : Exists(k)' <=> Exists(k)
    BY DEF SameRows, Exists
  <2>2. \A k \in Code : Exists(k) => db[k] \in Uuid
    BY DEF Inv, Shared, Tables, CodeRow, Exists
  <2> QED
    BY <1>2, <2>1, <2>2 DEF Inv, Shared, CodeBacksTenant, SameRows, outside
<1>7. ASSUME NEW t \in Session \ {s} PROVE Request(t)'
  <2>1. Request(t) /\ at'[t] = at[t] /\ job'[t] = job[t] /\ mine'[t] = mine[t]
    BY DEF Inv, Alone
  <2>2. Lasting
    BY DEF Lasting, outside
  <2>3. Building(t) => job[t].pay \in Uuid
    BY <2>1 DEF Request, Knows
  <2>4. Building(t) /\ stripe[job[t].pay].status # "none" => stripe[job[t].pay].tenant \in Uuid
    BY <2>3 DEF Inv, Shared, AtStripe
  <2>5. Knows(t)'
    BY <2>1, <2>2, KnowsStays DEF Request
  <2>6. Holds(t)'
    BY <2>1, HoldsStays DEF Request, SameRows
  <2>7. Stands(t)'
    <3>1. CASE ~Building(t)
      BY <2>1, <3>1, StandsStays DEF Request
    <3>2. CASE Building(t) /\ stripe[job[t].pay].status # "none"
      BY <1>2, <2>1, <2>3, <2>4, <3>2, StandsStays DEF Request, outside
    <3>3. CASE Building(t) /\ stripe[job[t].pay].status = "none"
      BY <1>2, <2>1, <2>3, <3>3 DEF Request, Stands, Building, Live, outside
    <3> QED
      BY <3>1, <3>2, <3>3
  <2> QED
    BY <2>5, <2>6, <2>7 DEF Request
<1> QED
  BY <1>1, <1>3, <1>4, <1>5, <1>6, <1>7 DEF Inv, Shared

-----------------------------------------------------------------------------
(* The requests begin.                                                      *)

(* At first there is nothing. *)
LEMMA InitInv == TenancyConstants /\ Init => Inv
<1> SUFFICES ASSUME TenancyConstants, Init PROVE Inv
  OBVIOUS
<1>1. \A r \in Row : ~Exists(r)
  BY DEF Init, Exists
<1>2. Requests
  BY DEF Init, RequestsInit, Requests, Step
<1>3. Tables
  BY Keys DEF Init, Tables, CodeRow
<1>4. AtStripe /\ Said
  BY DEF Init, AtStripe, Said, Status
<1>5. Ours /\ NoOrphans /\ Ended /\ CodeBacksTenant
  BY <1>1, Keys DEF Init, Ours, NoOrphans, Ended, CodeBacksTenant, Live
<1>6. Apart
  BY DEF Init, RequestsInit, Apart, Building, Unwritten
<1>7. ASSUME NEW s \in Session PROVE Request(s)
  BY DEF Init, RequestsInit, Request, Knows, Holds, Stands, Building, Unwritten
<1> QED
  BY <1>2, <1>3, <1>4, <1>5, <1>6, <1>7 DEF Inv, Shared

(* A request that begins has written nothing. *)
LEMMA Begins ==
  ASSUME Inv, NEW s \in Session, NEW l \in Step, NEW j, Begin(s, l, j), UNCHANGED outside,
         \/ l \in {"tenant", "verify", "unsubscribe", "unmark", "mark", "erase"}
         \/ l = "subscribe" /\ j.name = Absent,
         Knows(s)', Stands(s)',
         \A t \in Session \ {s} : l \in {"tenant", "subscribe"} /\ Building(t) => j.pay # job[t].pay
  PROVE  Inv'
<1>1. /\ at' \in [Session -> Step] /\ DOMAIN job' = Session
      /\ at'[s] = l /\ job'[s] = j
      /\ \A t \in Session \ {s} : at'[t] = at[t] /\ job'[t] = job[t]
  BY Goes DEF Inv, Begin
<1>2. Requests' /\ Alone(s)
  BY <1>1 DEF Requests, Alone, Begin, Inv
<1>3. DOMAIN mine[s] = {}
  BY DEF Inv, Request, Holds, Begin, Step
<1>4. Holds(s)'
  BY <1>1, <1>3 DEF Holds, Begin, Building
<1>5. Apart'
  <2>1. Building(s)' => l \in {"tenant", "subscribe"}
    BY <1>1 DEF Building
  <2> QED
    BY <1>1, <1>2, <1>3, <2>1, ApartStays DEF Inv, Begin
<1>6. SameRows /\ Tables' /\ NotLeft(s)
  BY DEF SameRows, Exists, Begin, Inv, Shared, Tables, NotLeft
<1> QED
  BY <1>1, <1>2, <1>4, <1>5, <1>6, Inside DEF Request

(* randomUUID is nobody's. *)
LEMMA FreshIsNobodys ==
  ASSUME NEW u \in Fresh
  PROVE  /\ u \in Uuid /\ ~Exists(P(u)) /\ stripe[u].status = "none"
         /\ \A t \in Session : Building(t) => job[t].pay # u
BY DEF Fresh, Building

(* An onboarding begins with a payment, and a tenant, that nobody knows. *)
LEMMA StartOnboardingKeeps ==
  ASSUME TenancyConstants, Inv, NEW s \in Session, StartOnboarding(s)
  PROVE  Inv'
<1> PICK u \in Fresh, n \in Name, k \in Code \cup {Absent} :
      Begin(s, "tenant", [Blank EXCEPT !.tenant = u, !.pay = u, !.name = n, !.code = k])
  BY DEF StartOnboarding
<1> DEFINE j == [Blank EXCEPT !.tenant = u, !.pay = u, !.name = n, !.code = k]
<1>1. j \in JobRow /\ j.tenant = u /\ j.pay = u /\ j.name = n /\ j.made = FALSE
  BY FreshIsNobodys DEF Blank, JobRow
<1>2. n # Absent
  BY Present
<1>3. at'[s] = "tenant" /\ job'[s] = j
  BY Goes DEF Inv, Begin, Step
<1>4. Knows(s)'
  BY <1>1, <1>2, <1>3, FreshIsNobodys DEF Knows, Building
<1>5. Stands(s)'
  BY <1>1, <1>3, FreshIsNobodys DEF Stands, Building, Begin, Exists, StartOnboarding, outside
<1>6. Begin(s, "tenant", j) /\ UNCHANGED outside /\ "tenant" \in Step
  BY DEF StartOnboarding, Step
<1> HIDE DEF j
<1> QED
  BY <1>1, <1>4, <1>5, <1>6, Begins, FreshIsNobodys

(* A tenant that is there is subscribed again, with a new payment. *)
LEMMA StartSubscriptionKeeps ==
  ASSUME TenancyConstants, Inv, NEW s \in Session, StartSubscription(s)
  PROVE  Inv'
<1> PICK u \in Fresh, t \in Uuid : Begin(s, "subscribe", [Blank EXCEPT !.tenant = t, !.pay = u])
  BY DEF StartSubscription
<1> DEFINE j == [Blank EXCEPT !.tenant = t, !.pay = u]
<1>1. j \in JobRow /\ j.tenant = t /\ j.pay = u /\ j.name = Absent /\ j.made = FALSE
  BY FreshIsNobodys DEF Blank, JobRow
<1>3. at'[s] = "subscribe" /\ job'[s] = j
  BY Goes DEF Inv, Begin, Step
<1>4. Knows(s)'
  BY <1>1, <1>3, FreshIsNobodys DEF Knows, Building
<1>5. Stands(s)'
  BY <1>1, <1>3, FreshIsNobodys DEF Stands, Building, Begin, Exists, StartSubscription, outside
<1> HIDE DEF j
<1> QED
  BY <1>1, <1>4, <1>5, Begins, FreshIsNobodys DEF StartSubscription, Step, j

(* The webhook takes up something Stripe has said. *)
LEMMA StartWebhookKeeps ==
  ASSUME Inv, NEW s \in Session, StartWebhook(s)
  PROVE  Inv'
<1> PICK e \in sent :
      Begin(s, IF e.type = "paid" THEN "verify" ELSE "unsubscribe",
            [Blank EXCEPT !.pay = e.pay, !.name = e.type, !.tenant = stripe[e.pay].tenant])
  BY DEF StartWebhook
<1> DEFINE j == [Blank EXCEPT !.pay = e.pay, !.name = e.type, !.tenant = stripe[e.pay].tenant]
           l == IF e.type = "paid" THEN "verify" ELSE "unsubscribe"
<1>0. /\ e.pay \in Uuid /\ stripe[e.pay].status # "none" /\ stripe[e.pay].tenant \in Uuid
      /\ e.type \in {"paid", "updated", "deleted"}
      /\ e.type = "deleted" => stripe[e.pay].status \in {"cancelled", "lost"}
  BY DEF Inv, Shared, Said, AtStripe
<1>1. j \in JobRow /\ j.tenant = stripe[e.pay].tenant /\ j.pay = e.pay /\ j.name = e.type /\ j.made = FALSE
  BY <1>0 DEF Blank, JobRow
<1>2. l \in {"verify", "unsubscribe"} /\ (l = "unsubscribe" => e.type # "paid")
  OBVIOUS
<1> HIDE DEF j, l
<1>3. at'[s] = l /\ job'[s] = j /\ l \in Step
  BY <1>2, Goes DEF Inv, Begin, Step, j, l
<1>4. Knows(s)'
  BY <1>0, <1>1, <1>2, <1>3 DEF Knows, Building, StartWebhook, outside
<1>5. Stands(s)'
  BY <1>1, <1>2, <1>3 DEF Stands, Building
<1>6. Begin(s, l, j) /\ UNCHANGED outside
  BY DEF j, l, StartWebhook
<1> QED
  BY <1>2, <1>3, <1>4, <1>5, <1>6, Begins

(* An update of a branch begins; it has nothing to do with payments. *)
LEMMA StartUpdateBranchKeeps ==
  ASSUME TenancyConstants, Inv, NEW s \in Session, StartUpdateBranch(s)
  PROVE  Inv'
<1> PICK b \in Branch, m \in BOOLEAN :
       /\ Exists(b)
       /\ Begin(s, IF m THEN "unmark" ELSE "mark",
                [Blank EXCEPT !.tenant = db[b].tenant, !.branch = b, !.main = m,
                              !.others = IF m THEN Mains(db[b].tenant) \ {b} ELSE {}])
  BY DEF StartUpdateBranch
<1> DEFINE j == [Blank EXCEPT !.tenant = db[b].tenant, !.branch = b, !.main = m,
                              !.others = IF m THEN Mains(db[b].tenant) \ {b} ELSE {}]
           l == IF m THEN "unmark" ELSE "mark"
<1>0. db[b].tenant \in Uuid /\ Mains(db[b].tenant) \subseteq Branch
  BY DEF Inv, Shared, Tables, BranchRow, Exists, Mains
<1>1. /\ j \in JobRow /\ j.pay = Absent /\ j.name = Absent /\ j.made = FALSE
      /\ j.branch = b
  BY <1>0 DEF Blank, JobRow
<1>2. l \in {"unmark", "mark"}
  OBVIOUS
<1> HIDE DEF j, l
<1>3. at'[s] = l /\ job'[s] = j /\ l \in Step
  BY <1>2, Goes DEF Inv, Begin, Step, j, l
<1>4. Knows(s)'
  BY <1>1, <1>2, <1>3 DEF Knows, Building
<1>5. Stands(s)'
  BY <1>1, <1>2, <1>3 DEF Stands, Building
<1>6. Begin(s, l, j) /\ UNCHANGED outside
  BY DEF j, l, StartUpdateBranch
<1> QED
  BY <1>2, <1>3, <1>4, <1>5, <1>6, Begins

(* Nor has the deletion of one. *)
LEMMA StartDeleteBranchKeeps ==
  ASSUME TenancyConstants, Inv, NEW s \in Session, StartDeleteBranch(s)
  PROVE  Inv'
<1> PICK b \in Branch :
       /\ Exists(b)
       /\ Begin(s, "erase", [Blank EXCEPT !.tenant = db[b].tenant, !.branch = b])
  BY DEF StartDeleteBranch
<1> DEFINE j == [Blank EXCEPT !.tenant = db[b].tenant, !.branch = b]
<1>0. db[b].tenant \in Uuid
  BY DEF Inv, Shared, Tables, BranchRow, Exists
<1>1. /\ j \in JobRow /\ j.pay = Absent /\ j.name = Absent /\ j.made = FALSE
      /\ j.branch = b
  BY <1>0 DEF Blank, JobRow
<1>3. at'[s] = "erase" /\ job'[s] = j
  BY Goes DEF Inv, Begin, Step
<1>4. Knows(s)'
  BY <1>1, <1>3 DEF Knows, Building
<1>5. Stands(s)'
  BY <1>1, <1>3 DEF Stands, Building
<1> HIDE DEF j
<1> QED
  BY <1>1, <1>4, <1>5, Begins DEF StartDeleteBranch, Step, j

-----------------------------------------------------------------------------
(* The requests give up, read and write.                                    *)

(* A request that ends without a commit. *)
LEMMA Ends ==
  ASSUME Inv, NEW s \in Session, Rollback(s), UNCHANGED outside, NotLeft(s)
  PROVE  Inv'
<1>1. /\ at' \in [Session -> Step] /\ DOMAIN job' = Session
      /\ at'[s] = "idle" /\ job'[s] = NoJob
      /\ \A t \in Session \ {s} : at'[t] = at[t] /\ job'[t] = job[t]
  BY Goes DEF Inv, Rollback, Step
<1>2. Requests' /\ Alone(s) /\ DOMAIN mine'[s] = {}
  BY <1>1 DEF Requests, Alone, Rollback, Inv, Unwritten
<1>3. Request(s)'
  BY <1>1, <1>2 DEF Request, Knows, Holds, Stands, Building
<1>4. Apart'
  BY <1>1, <1>2, ApartStays DEF Inv, Building
<1>5. SameRows /\ Tables'
  BY DEF SameRows, Exists, Rollback, Inv, Shared, Tables
<1> QED
  BY <1>2, <1>3, <1>4, <1>5, Inside

(* Only one that makes a payment has made a subscription. *)
LEMMA MakersBuild ==
  ASSUME Inv, NEW s \in Session, at[s] # "idle", job[s].made
  PROVE  /\ at[s] \in {"record", "commit", "tokens", "cancel"}
         /\ Building(s) /\ job[s].pay \in Uuid /\ job[s].tenant \in Uuid
<1>1. at[s] \in Step /\ Knows(s)
  BY DEF Inv, Requests, Request
<1> QED
  BY <1>1 DEF Knows, Building, Step

(* A failure loses no subscription: the request goes on to cancel it. *)
LEMMA GivesUp ==
  ASSUME Inv, NEW s \in Session, GiveUp(s), at[s] \notin {"idle", "cancel"}, UNCHANGED outside
  PROVE  Inv'
<1>1. CASE ~job[s].made
  BY <1>1, Ends DEF GiveUp, Rollback, NotLeft
<1>2. CASE job[s].made
  <2>1. /\ at' \in [Session -> Step] /\ DOMAIN job' = Session
        /\ at'[s] = "cancel" /\ job'[s] = job[s]
        /\ \A t \in Session \ {s} : at'[t] = at[t] /\ job'[t] = job[t]
    <3>1. Goto(s, "cancel", job[s]) /\ "cancel" \in Step
      BY <1>2 DEF GiveUp, Step
    <3> QED
      BY <3>1, Goes DEF Inv
  <2>2. Requests' /\ Alone(s) /\ DOMAIN mine'[s] = {}
    BY <2>1 DEF Requests, Alone, GiveUp, Inv, Unwritten
  <2>3. /\ at[s] \in {"record", "commit", "tokens", "cancel"}
        /\ Building(s) /\ job[s].pay \in Uuid /\ job[s].tenant \in Uuid
    BY <1>2, MakersBuild
  <2>4. Knows(s)'
    BY <1>2, <2>1, <2>3 DEF Inv, Request, Knows, Building
  <2>5. Holds(s)'
    BY <2>1, <2>2 DEF Holds, Building
  <2>6. Stands(s)'
    <3>1. /\ stripe[job[s].pay].status \notin {"none", "active", "leaving"}
          /\ stripe[job[s].pay].status = "incomplete" \/ ~Exists(P(job[s].pay))
      <4>1. CASE at[s] \in {"tokens", "cancel"}
        BY <1>2, <4>1 DEF Inv, Request, Stands
      <4>2. CASE at[s] \in {"record", "commit"}
        <5>1. stripe[job[s].pay] = [status |-> "incomplete", tenant |-> job[s].tenant]
          BY <1>2, <2>3, <4>2 DEF Inv, Request, Stands
        <5> QED
          BY <5>1
      <4> QED
        BY <2>3, <4>1, <4>2
    <3> QED
      BY <2>1, <3>1 DEF Stands, Building, GiveUp, Exists, outside
  <2>7. Apart'
    BY <2>1, <2>2, <2>3, ApartStays DEF Inv, Apart
  <2>8. SameRows /\ Tables' /\ NotLeft(s)
    BY <1>2, <2>1 DEF SameRows, Exists, GiveUp, Inv, Shared, Tables, NotLeft
  <2> QED
    BY <2>2, <2>4, <2>5, <2>6, <2>7, <2>8, Inside DEF Request
<1> QED
  BY <1>1, <1>2

(* What a statement does to its request. *)
LEMMA Writing ==
  ASSUME Inv, NEW s \in Session, NEW new, NEW l \in Step, NEW j, Write(s, new, l, j)
  PROVE  /\ at' \in [Session -> Step] /\ Requests' /\ Alone(s)
         /\ at'[s] = l /\ job'[s] = j /\ db' = db
         /\ DOMAIN mine'[s] = DOMAIN new \cup DOMAIN mine[s]
         /\ \A r \in DOMAIN mine'[s] :
              mine'[s][r] = IF r \in DOMAIN new THEN new[r] ELSE mine[s][r]
<1>1. /\ at' \in [Session -> Step] /\ DOMAIN job' = Session
      /\ at'[s] = l /\ job'[s] = j
      /\ \A t \in Session \ {s} : at'[t] = at[t] /\ job'[t] = job[t]
  BY Goes DEF Inv, Write
<1>2. /\ DOMAIN mine' = Session /\ mine'[s] = Over(new, mine[s])
      /\ \A t \in Session \ {s} : mine'[t] = mine[t]
  BY DEF Inv, Requests, Write
<1>3. Requests' /\ Alone(s)
  BY <1>1, <1>2 DEF Requests, Alone
<1>4. /\ DOMAIN mine'[s] = DOMAIN new \cup DOMAIN mine[s]
      /\ \A r \in DOMAIN mine'[s] :
           mine'[s][r] = IF r \in DOMAIN new THEN new[r] ELSE mine[s][r]
  BY <1>2 DEF Over
<1> QED
  BY <1>1, <1>3, <1>4 DEF Write

(* A statement of a request, which commits nothing. *)
LEMMA Writes ==
  ASSUME Inv, NEW s \in Session, NEW new, NEW l \in Step \ {"idle"}, NEW j, Write(s, new, l, j),
         UNCHANGED outside, Request(s)',
         Building(s)' => Building(s) /\ j.pay = job[s].pay,
         at[s] # "idle" /\ job[s].made => j.made /\ j.pay = job[s].pay
  PROVE  Inv'
<1>1. /\ at' \in [Session -> Step] /\ Requests' /\ Alone(s)
      /\ at'[s] = l /\ job'[s] = j /\ db' = db
      /\ DOMAIN mine'[s] = DOMAIN new \cup DOMAIN mine[s]
  BY Writing
<1>2. Apart'
  <2>1. \A t \in Session \ {s} : DOMAIN mine'[s] \cap DOMAIN mine[t] = {}
    BY <1>1 DEF Write, Free, Inv, Apart
  <2>2. \A t \in Session \ {s} : Building(s)' /\ Building(t) => job'[s].pay # job[t].pay
    BY <1>1 DEF Inv, Apart
  <2> QED
    BY <1>1, <2>1, <2>2, ApartStays DEF Inv
<1>3. SameRows /\ Tables' /\ NotLeft(s)
  BY <1>1 DEF SameRows, Exists, Inv, Shared, Tables, NotLeft
<1> QED
  BY <1>1, <1>2, <1>3, Inside

-----------------------------------------------------------------------------
(* The statements of an onboarding.                                         *)

(* The tenant and its branch are written, or its name is taken. *)
LEMMA CreateTenantKeeps ==
  ASSUME TenancyConstants, Inv, NEW s \in Session, CreateTenant(s)
  PROVE  Inv'
<1> DEFINE j == job[s]
<1>0. at[s] = "tenant" /\ UNCHANGED outside /\ Request(s)
  BY DEF CreateTenant, Inv
<1>1. /\ j \in JobRow /\ j.pay \in Uuid /\ j.tenant = j.pay /\ j.name \in Name /\ ~j.made
      /\ Building(s) /\ DOMAIN mine[s] = {} /\ ~Exists(P(j.pay)) /\ stripe[j.pay].status = "none"
  <2>1. /\ j \in JobRow /\ j.pay \in Uuid /\ j.tenant = j.pay /\ j.name # Absent /\ ~j.made
        /\ Building(s) /\ DOMAIN mine[s] = {}
    BY <1>0 DEF Request, Knows, Holds, Building, Step
  <2>2. ~Exists(P(j.pay)) /\ stripe[j.pay].status = "none"
    BY <1>0, <2>1 DEF Request, Stands
  <2>3. j.name \in Name
    BY <1>0, <2>1 DEF Request, Knows
  <2> QED
    BY <2>1, <2>2, <2>3
<1>2. CASE NameTaken(j.name)
  BY <1>0, <1>1, <1>2, Ends DEF CreateTenant, NotLeft
<1>3. CASE ~NameTaken(j.name)
  <2> PICK b \in FreshBranch :
        Write(s, [r \in {T(j.tenant), b} |->
                    IF r = b THEN [tenant |-> j.tenant, main |-> TRUE]
                    ELSE [name |-> j.name, subscribed |-> TRUE, customer |-> FALSE]],
              IF j.code = Absent THEN "subscribe" ELSE "redeem", j)
    BY <1>3 DEF CreateTenant
  <2> DEFINE new == [r \in {T(j.tenant), b} |->
                       IF r = b THEN [tenant |-> j.tenant, main |-> TRUE]
                       ELSE [name |-> j.name, subscribed |-> TRUE, customer |-> FALSE]]
             l == IF j.code = Absent THEN "subscribe" ELSE "redeem"
  <2>1. b \in Branch /\ b # T(j.tenant) /\ b \notin Code /\ T(j.tenant) \notin Branch \cup Code
    BY <1>1, Keys DEF FreshBranch
  <2>2. /\ DOMAIN new = {T(j.tenant), b}
        /\ new[b] \in BranchRow /\ new[T(j.tenant)] \in TenantRow
    BY <1>1, <2>1 DEF BranchRow, TenantRow
  <2>3. l \in {"subscribe", "redeem"} /\ (l = "redeem" => j.code # Absent)
    OBVIOUS
  <2> HIDE DEF new, l
  <2>4. Write(s, new, l, j) /\ l \in Step \ {"idle"}
    BY <2>3 DEF new, l, Step
  <2>5. /\ at'[s] = l /\ job'[s] = j /\ db' = db
        /\ DOMAIN mine'[s] = {T(j.tenant), b}
        /\ mine'[s][b] \in BranchRow /\ mine'[s][T(j.tenant)] \in TenantRow
    BY <1>1, <2>2, <2>4, Writing
  <2>6. Knows(s)'
    BY <1>1, <2>3, <2>5, Present DEF Knows, Building
  <2>7. Holds(s)'
    BY <1>1, <2>1, <2>3, <2>5, Present DEF Holds, Building
  <2>8. Stands(s)'
    BY <1>0, <1>1, <2>3, <2>5 DEF Stands, Building, Exists, outside
  <2> HIDE DEF j
  <2> QED
    BY <1>0, <1>1, <2>4, <2>6, <2>7, <2>8, Writes DEF Request, j
<1> QED
  BY <1>2, <1>3

(* What a request that is to commit a payment knows of it. *)
LEMMA Builds ==
  ASSUME Inv, NEW s \in Session, at[s] \in {"redeem", "subscribe", "record"}
  PROVE  /\ Building(s) /\ job[s] \in JobRow /\ job[s].pay \in Uuid /\ job[s].tenant \in Uuid
         /\ job[s].name # Absent => job[s].tenant = job[s].pay /\ job[s].name \in Name
         /\ ~Exists(P(job[s].pay))
         /\ DOMAIN mine[s] \subseteq {T(job[s].tenant)} \cup Branch
         /\ T(job[s].tenant) \in DOMAIN mine[s] => mine[s][T(job[s].tenant)] \in TenantRow
         /\ \A b \in Branch \cap DOMAIN mine[s] : mine[s][b] \in BranchRow
<1>0. Request(s)
  BY DEF Inv
<1>1. /\ Building(s) /\ job[s] \in JobRow /\ job[s].pay \in Uuid /\ job[s].tenant \in Uuid
      /\ job[s].name # Absent => job[s].tenant = job[s].pay /\ job[s].name \in Name
  BY <1>0 DEF Request, Knows, Building
<1>2. ~Exists(P(job[s].pay))
  BY <1>0, <1>1 DEF Request, Stands
<1>3. /\ DOMAIN mine[s] \subseteq {T(job[s].tenant)} \cup Branch
      /\ T(job[s].tenant) \in DOMAIN mine[s] => mine[s][T(job[s].tenant)] \in TenantRow
      /\ \A b \in Branch \cap DOMAIN mine[s] : mine[s][b] \in BranchRow
  BY <1>0 DEF Request, Holds
<1> QED
  BY <1>1, <1>2, <1>3

(* The code is nobody's yet, and backs the payment it is written with. *)
LEMMA RedeemKeeps ==
  ASSUME TenancyConstants, Inv, NEW s \in Session, Redeem(s)
  PROVE  Inv'
<1> DEFINE j == job[s]
<1>0. at[s] = "redeem" /\ UNCHANGED outside /\ Request(s)
  BY DEF Redeem, Inv
<1>1. /\ Building(s) /\ j \in JobRow /\ j.pay \in Uuid /\ j.tenant \in Uuid /\ j.tenant = j.pay
      /\ ~Exists(P(j.pay)) /\ j.name # Absent /\ j.name \in Name /\ j.code \in Code /\ ~j.made
      /\ stripe[j.pay].status = "none"
  <2>1. j.name # Absent /\ j.code \in Code /\ ~j.made
    BY <1>0 DEF Request, Knows, JobRow
  <2>2. stripe[j.pay].status = "none"
    BY <1>0, <2>1, Builds DEF Request, Stands
  <2> QED
    BY <1>0, <2>1, <2>2, Builds
<1>2. /\ T(j.tenant) \in DOMAIN mine[s] /\ DOMAIN mine[s] \subseteq {T(j.tenant)} \cup Branch
      /\ mine[s][T(j.tenant)] \in TenantRow
      /\ \A b \in Branch \cap DOMAIN mine[s] : mine[s][b] \in BranchRow
  BY <1>0, <1>1 DEF Request, Holds
<1>3. CASE ~Redeemable(s, j.code)
  BY <1>0, <1>1, <1>3, Ends DEF Redeem, NotLeft
<1>4. CASE Redeemable(s, j.code)
  <2> DEFINE new == [r \in {j.code, P(j.pay)} |-> IF r = j.code THEN j.tenant ELSE NewPayment(j)]
  <2>1. /\ j.code # T(j.tenant) /\ j.code # P(j.pay) /\ j.code \notin Branch
        /\ P(j.pay) # T(j.tenant) /\ P(j.pay) \notin Branch \cup Code
        /\ T(j.tenant) \notin Branch \cup Code /\ Branch \cap Code = {}
    BY <1>1, Keys
  <2>2. DOMAIN new = {j.code, P(j.pay)} /\ new[j.code] = j.tenant /\ new[P(j.pay)] = NewPayment(j)
    BY <2>1
  <2>3. db[j.code] = Absent
    BY <1>2, <1>4, <2>1 DEF Redeemable, Sees
  <2> HIDE DEF new
  <2>4. Write(s, new, "commit", j) /\ "commit" \in Step \ {"idle"}
    BY <1>4 DEF new, Step, Redeem
  <2>5. /\ at'[s] = "commit" /\ job'[s] = j /\ db' = db
        /\ DOMAIN mine'[s] = {j.code, P(j.pay)} \cup DOMAIN mine[s]
        /\ mine'[s][j.code] = j.tenant /\ mine'[s][P(j.pay)] = NewPayment(j)
        /\ mine'[s][T(j.tenant)] \in TenantRow
        /\ \A b \in Branch \cap DOMAIN mine[s] : mine'[s][b] \in BranchRow
    <3>1. /\ at'[s] = "commit" /\ job'[s] = j /\ db' = db
          /\ DOMAIN mine'[s] = DOMAIN new \cup DOMAIN mine[s]
          /\ \A r \in DOMAIN mine'[s] :
               mine'[s][r] = IF r \in DOMAIN new THEN new[r] ELSE mine[s][r]
      BY <2>4, Writing
    <3> QED
      BY <1>2, <2>1, <2>2, <3>1
  <2>6. Knows(s)'
    BY <1>1, <2>5, Present DEF Knows, Building
  <2>7. Holds(s)'
    <3>1. NewPayment(j)' = NewPayment(j)
      BY <2>5 DEF NewPayment
    <3> QED
      BY <1>1, <1>2, <2>1, <2>3, <2>5, Present DEF Holds, Building, NewPayment
  <2>8. Stands(s)'
    BY <1>0, <1>1, <2>5 DEF Stands, Building, Exists, outside
  <2> HIDE DEF j
  <2> QED
    BY <1>0, <1>1, <2>4, <2>6, <2>7, <2>8, Writes DEF Request, j
<1> QED
  BY <1>3, <1>4

(* The payment is written with its tenant, or given up where that is gone. *)
LEMMA RecordKeeps ==
  ASSUME TenancyConstants, Inv, NEW s \in Session, Record(s)
  PROVE  Inv'
<1> DEFINE j == job[s]  t == T(j.tenant)
<1>0. at[s] = "record" /\ UNCHANGED outside /\ Request(s)
  BY DEF Record, Inv
<1>1. /\ Building(s) /\ j \in JobRow /\ j.pay \in Uuid /\ j.tenant \in Uuid
      /\ j.name # Absent => j.tenant = j.pay /\ j.name \in Name
      /\ ~Exists(P(j.pay)) /\ j.made
      /\ stripe[j.pay] = [status |-> "incomplete", tenant |-> j.tenant]
      /\ DOMAIN mine[s] \subseteq {t} \cup Branch
      /\ t \in DOMAIN mine[s] => mine[s][t] \in TenantRow
      /\ \A b \in Branch \cap DOMAIN mine[s] : mine[s][b] \in BranchRow
  <2>1. j.made
    BY <1>0 DEF Request, Knows
  <2>2. stripe[j.pay] = [status |-> "incomplete", tenant |-> j.tenant]
    BY <1>0, <2>1, Builds DEF Request, Stands
  <2> QED
    BY <1>0, <2>1, <2>2, Builds
<1>3. CASE Sees(s, t) = Absent
  BY <1>0, <1>3, GivesUp DEF Record
<1>4. CASE Sees(s, t) # Absent
  <2> DEFINE row == [Enabled(Sees(s, t)) EXCEPT !.customer = TRUE]
             new == [r \in {t, P(j.pay)} |-> IF r = t THEN row ELSE NewPayment(j)]
  <2>1. /\ P(j.pay) # t /\ P(j.pay) \notin Branch \cup Code
        /\ t \notin Branch \cup Code /\ Branch \cap Code = {}
    BY <1>1, Keys
  <2>2. row \in TenantRow
    <3>1. Sees(s, t) \in TenantRow
      BY <1>1, <1>4 DEF Sees, Inv, Shared, Tables
    <3> QED
      BY <3>1 DEF TenantRow, Enabled
  <2>3. DOMAIN new = {t, P(j.pay)} /\ new[t] \in TenantRow /\ new[P(j.pay)] = NewPayment(j)
    BY <2>1, <2>2
  <2>4. Write(s, new, "commit", j) /\ "commit" \in Step \ {"idle"}
    BY <1>4 DEF Step, Record
  <2> HIDE DEF new
  <2>5. /\ at'[s] = "commit" /\ job'[s] = j /\ db' = db
        /\ DOMAIN mine'[s] = {t, P(j.pay)} \cup DOMAIN mine[s]
        /\ mine'[s][P(j.pay)] = NewPayment(j) /\ mine'[s][t] \in TenantRow
        /\ \A b \in Branch \cap DOMAIN mine[s] : mine'[s][b] \in BranchRow
    <3>1. /\ at'[s] = "commit" /\ job'[s] = j /\ db' = db
          /\ DOMAIN mine'[s] = DOMAIN new \cup DOMAIN mine[s]
          /\ \A r \in DOMAIN mine'[s] :
               mine'[s][r] = IF r \in DOMAIN new THEN new[r] ELSE mine[s][r]
      BY <2>4, Writing
    <3> QED
      BY <1>1, <2>1, <2>3, <3>1
  <2>6. Knows(s)'
    BY <1>1, <2>5, Present DEF Knows, Building
  <2>7. Holds(s)'
    <3>1. NewPayment(j)' = NewPayment(j)
      BY <2>5 DEF NewPayment
    <3> QED
      BY <1>1, <2>1, <2>5, Present DEF Holds, Building, NewPayment
  <2>8. Stands(s)'
    BY <1>0, <1>1, <2>5 DEF Stands, Building, Exists, outside
  <2> HIDE DEF j, t
  <2> QED
    BY <1>0, <1>1, <2>4, <2>6, <2>7, <2>8, Writes DEF Request, j
<1> QED
  BY <1>3, <1>4

(* What an onboarding made is committed when it issues tokens. *)
LEMMA IssueTokensKeeps ==
  ASSUME Inv, NEW s \in Session, IssueTokens(s)
  PROVE  Inv'
<1>1. NotLeft(s)
  BY MakersBuild DEF IssueTokens, NotLeft, Inv, Request, Stands
<1> QED
  BY <1>1, Ends DEF IssueTokens

(* A request that fails gives up, whatever it had written. *)
LEMMA ErrorKeeps ==
  ASSUME Inv, NEW s \in Session, Error(s)
  PROVE  Inv'
BY GivesUp DEF Error

-----------------------------------------------------------------------------
(* The statements of an edited branch.                                      *)

(* What is committed to branches alone. *)
LEMMA BranchesWritten ==
  ASSUME TenancyConstants, Tables, NEW new, DOMAIN new \subseteq Branch,
         \A b \in DOMAIN new : new[b] \in BranchRow \cup {Absent}, db' = Over(new, db)
  PROVE  SameRows /\ Tables'
<1>1. /\ DOMAIN db' = Row
      /\ \A r \in Row : db'[r] = IF r \in DOMAIN new THEN new[r] ELSE db[r]
  <2>1. DOMAIN new \cup Row = Row
    BY Keys
  <2> QED
    BY <2>1 DEF Over, Tables
<1>2. /\ \A u \in Uuid : db'[T(u)] = db[T(u)] /\ db'[P(u)] = db[P(u)]
      /\ \A k \in Code : db'[k] = db[k]
  BY <1>1, Keys
<1>3. \A b \in Branch : db'[b] \in BranchRow \cup {Absent}
  BY <1>1, Keys DEF Tables
<1> QED
  BY <1>1, <1>2, <1>3 DEF Tables, SameRows, Exists

(* What a request that edits a branch knows. *)
LEMMA Edits ==
  ASSUME Inv, NEW s \in Session,
         at[s] \in {"unmark", "mark", "erase"} \/ (at[s] = "commit" /\ ~Building(s))
  PROVE  /\ ~Building(s) /\ job[s] \in JobRow /\ ~job[s].made
         /\ job[s].name = Absent /\ job[s].pay = Absent
         /\ at[s] \in {"mark", "erase"} => job[s].branch \in Branch
         /\ at[s] \in {"unmark", "erase"} => DOMAIN mine[s] = {}
         /\ DOMAIN mine[s] \subseteq Branch
         /\ \A b \in DOMAIN mine[s] : mine[s][b] \in BranchRow
<1>1. Request(s)
  BY DEF Inv
<1>2. /\ ~Building(s) /\ job[s] \in JobRow /\ ~job[s].made
      /\ job[s].name = Absent /\ job[s].pay = Absent
      /\ at[s] \in {"mark", "erase"} => job[s].branch \in Branch
  BY <1>1 DEF Request, Knows, Building
<1>3. /\ at[s] \in {"unmark", "erase"} => DOMAIN mine[s] = {}
      /\ DOMAIN mine[s] \subseteq Branch
      /\ \A b \in Branch \cap DOMAIN mine[s] : mine[s][b] \in BranchRow
  BY <1>1, <1>2 DEF Request, Holds, Step
<1> QED
  BY <1>2, <1>3

(* A request that goes on editing. *)
LEMMA GoesOnEditing ==
  ASSUME TenancyConstants, Inv, NEW s \in Session, at[s] \in {"unmark", "mark"},
         at'[s] \in {"mark", "commit"}, job'[s] = job[s], at'[s] = "mark" => job[s].branch \in Branch,
         db' = db, stripe' = stripe, DOMAIN mine'[s] \subseteq Branch,
         \A b \in DOMAIN mine'[s] : mine'[s][b] \in BranchRow
  PROVE  Request(s)' /\ ~Building(s)'
<1>1. /\ job[s] \in JobRow /\ ~job[s].made
      /\ job[s].name = Absent /\ job[s].pay = Absent
  BY Edits
<1>2. ~Building(s)'
  BY <1>1 DEF Building
<1>3. Knows(s)'
  BY <1>1, <1>2 DEF Knows
<1>4. Holds(s)'
  BY <1>1, <1>2, Keys DEF Holds
<1>5. Stands(s)'
  BY <1>1, <1>2 DEF Stands
<1> QED
  BY <1>2, <1>3, <1>4, <1>5 DEF Request

(* Marks are written and not committed. *)
LEMMA UnmarkOthersKeeps ==
  ASSUME TenancyConstants, Inv, NEW s \in Session, UnmarkOthers(s)
  PROVE  Inv'
<1> DEFINE still == {b \in job[s].others : Sees(s, b) # Absent /\ Sees(s, b).main}
           new == [b \in still |-> [db[b] EXCEPT !.main = FALSE]]
<1>0. at[s] = "unmark" /\ UNCHANGED outside /\ stripe' = stripe
  BY DEF UnmarkOthers, outside
<1>1. /\ job[s] \in JobRow /\ ~job[s].made /\ DOMAIN mine[s] = {} /\ job[s].others \subseteq Branch
  BY <1>0, Edits DEF JobRow
<1>2. DOMAIN new \subseteq Branch /\ \A b \in DOMAIN new : new[b] \in BranchRow
  <2> SUFFICES ASSUME NEW b \in still PROVE b \in Branch /\ [db[b] EXCEPT !.main = FALSE] \in BranchRow
    OBVIOUS
  <2>1. b \in Branch /\ db[b] # Absent
    BY <1>1 DEF Sees
  <2>2. db[b] \in BranchRow
    BY <2>1 DEF Inv, Shared, Tables
  <2> QED
    BY <2>1, <2>2 DEF BranchRow
<1>3. Write(s, new, "mark", job[s]) /\ "mark" \in Step \ {"idle"}
  BY DEF UnmarkOthers, Step
<1> HIDE DEF new
<1>4. /\ at'[s] = "mark" /\ job'[s] = job[s] /\ db' = db
      /\ DOMAIN mine'[s] = DOMAIN new \cup DOMAIN mine[s]
      /\ \A r \in DOMAIN mine'[s] : mine'[s][r] = IF r \in DOMAIN new THEN new[r] ELSE mine[s][r]
  BY <1>3, Writing
<1>5. job[s].branch \in Branch
  BY <1>0 DEF Inv, Request, Knows
<1>6. Request(s)' /\ ~Building(s)'
  BY <1>0, <1>1, <1>2, <1>4, <1>5, GoesOnEditing
<1> QED
  BY <1>0, <1>1, <1>3, <1>6, Writes

(* So is the mark of the branch itself. *)
LEMMA MarkBranchKeeps ==
  ASSUME TenancyConstants, Inv, NEW s \in Session, MarkBranch(s)
  PROVE  Inv'
<1> DEFINE j == job[s]  b == j.branch
<1>0. at[s] = "mark" /\ UNCHANGED outside /\ stripe' = stripe
  BY DEF MarkBranch, outside
<1>1. /\ j \in JobRow /\ ~j.made /\ b \in Branch /\ DOMAIN mine[s] \subseteq Branch
      /\ \A c \in DOMAIN mine[s] : mine[s][c] \in BranchRow
  BY <1>0, Edits
<1>2. CASE Look(s, "commit", j)
  <2>1. /\ at' \in [Session -> Step] /\ DOMAIN job' = Session
        /\ at'[s] = "commit" /\ job'[s] = j
        /\ \A t \in Session \ {s} : at'[t] = at[t] /\ job'[t] = job[t]
    <3>1. Goto(s, "commit", j) /\ "commit" \in Step
      BY <1>2 DEF Look, Step
    <3> QED
      BY <3>1, Goes DEF Inv
  <2>2. Requests' /\ Alone(s) /\ mine' = mine /\ db' = db
    BY <1>2, <2>1 DEF Requests, Alone, Look, Inv
  <2>3. Request(s)' /\ ~Building(s)'
    BY <1>0, <1>1, <2>1, <2>2, GoesOnEditing
  <2>4. Apart'
    BY <2>2, <2>3, ApartStays DEF Inv, Apart
  <2>5. SameRows /\ Tables' /\ NotLeft(s)
    BY <1>1, <2>2 DEF SameRows, Exists, Inv, Shared, Tables, NotLeft
  <2> QED
    BY <1>0, <2>2, <2>3, <2>4, <2>5, Inside
<1>3. CASE Rollback(s)
  BY <1>0, <1>1, <1>3, Ends DEF NotLeft
<1>4. ASSUME Sees(s, b) # Absent, Write(s, [r \in {b} |-> [Sees(s, b) EXCEPT !.main = j.main]], "commit", j)
      PROVE  Inv'
  <2> DEFINE new == [r \in {b} |-> [Sees(s, b) EXCEPT !.main = j.main]]
  <2>1. Sees(s, b) \in BranchRow
    BY <1>1, <1>4 DEF Sees, Inv, Shared, Tables
  <2>2. DOMAIN new = {b} /\ new[b] \in BranchRow
    BY <1>1, <2>1 DEF BranchRow, JobRow
  <2>3. Write(s, new, "commit", j) /\ "commit" \in Step \ {"idle"}
    BY <1>4 DEF Step
  <2> HIDE DEF new
  <2>4. /\ at'[s] = "commit" /\ job'[s] = j /\ db' = db
        /\ DOMAIN mine'[s] = DOMAIN new \cup DOMAIN mine[s]
        /\ \A r \in DOMAIN mine'[s] : mine'[s][r] = IF r \in DOMAIN new THEN new[r] ELSE mine[s][r]
    BY <2>3, Writing
  <2>5. Request(s)' /\ ~Building(s)'
    <3>1. DOMAIN mine'[s] \subseteq Branch /\ \A c \in DOMAIN mine'[s] : mine'[s][c] \in BranchRow
      BY <1>1, <2>2, <2>4
    <3> QED
      BY <1>0, <2>4, <3>1, GoesOnEditing
  <2> QED
    BY <1>0, <1>1, <2>3, <2>5, Writes
<1> QED
  BY <1>2, <1>3, <1>4 DEF MarkBranch

(* A branch is deleted at once. *)
LEMMA EraseBranchKeeps ==
  ASSUME TenancyConstants, Inv, NEW s \in Session, EraseBranch(s)
  PROVE  Inv'
<1> DEFINE new == [r \in {job[s].branch} |-> Absent]
<1>0. at[s] = "erase" /\ UNCHANGED outside /\ Apply(s, new, "idle", NoJob)
  BY DEF EraseBranch
<1>1. ~job[s].made /\ job[s].branch \in Branch /\ DOMAIN mine[s] = {}
  BY <1>0, Edits
<1>2. SameRows /\ Tables'
  BY <1>0, <1>1, BranchesWritten DEF Apply, Inv, Shared
<1>3. /\ at' \in [Session -> Step] /\ DOMAIN job' = Session
      /\ at'[s] = "idle" /\ job'[s] = NoJob
      /\ \A t \in Session \ {s} : at'[t] = at[t] /\ job'[t] = job[t]
  BY <1>0, Goes DEF Inv, Apply, Step
<1>4. Requests' /\ Alone(s) /\ DOMAIN mine'[s] = {}
  BY <1>0, <1>1, <1>3 DEF Requests, Alone, Apply, Inv
<1>5. Request(s)'
  BY <1>3, <1>4 DEF Request, Knows, Holds, Stands, Building
<1>6. Apart'
  BY <1>3, <1>4, ApartStays DEF Inv, Building
<1> QED
  BY <1>0, <1>1, <1>2, <1>4, <1>5, <1>6, Inside DEF NotLeft

(* A branch is made at once. *)
LEMMA CreateBranchKeeps ==
  ASSUME TenancyConstants, Inv, NEW s \in Session, CreateBranch(s)
  PROVE  Inv'
<1> PICK b \in FreshBranch, t \in Uuid, m \in BOOLEAN : db' = [db EXCEPT ![b] = [tenant |-> t, main |-> m]]
  BY DEF CreateBranch
<1>0. UNCHANGED <<mine, at, job>> /\ UNCHANGED outside /\ at[s] = "idle"
  BY DEF CreateBranch
<1>1. b \in Branch /\ b \in Row
  BY Keys DEF FreshBranch
<1>2. SameRows /\ Tables'
  <2>1. DOMAIN db' = Row /\ db'[b] \in BranchRow /\ \A r \in Row \ {b} : db'[r] = db[r]
    BY <1>1 DEF Inv, Shared, Tables, BranchRow
  <2>2. /\ \A u \in Uuid : db'[T(u)] = db[T(u)] /\ db'[P(u)] = db[P(u)]
        /\ \A k \in Code : db'[k] = db[k]
    BY <1>1, <2>1, Keys
  <2> QED
    BY <2>1, <2>2, Keys DEF SameRows, Tables, Inv, Shared, Exists
<1>3. Requests' /\ Alone(s) /\ NotLeft(s)
  BY <1>0 DEF Requests, Alone, Inv, NotLeft
<1>4. Request(s)'
  <2>1. Knows(s)' /\ Stands(s)'
    BY <1>0 DEF Knows, Stands, Building
  <2>2. Holds(s)'
    BY <1>0 DEF Inv, Request, Holds, Step, Building
  <2> QED
    BY <2>1, <2>2 DEF Request
<1>5. Apart'
  BY <1>0 DEF Inv, Apart, Building
<1> QED
  BY <1>0, <1>2, <1>3, <1>4, <1>5, Inside

-----------------------------------------------------------------------------
(* What becomes of a subscription at Stripe.                                *)

(* A request that another step leaves alone. *)
LEMMA RequestStays ==
  ASSUME Inv, NEW t \in Session, at'[t] = at[t], job'[t] = job[t], mine'[t] = mine[t], Lasting,
         \A k \in Code \cap DOMAIN mine[t] : db'[k] = db[k],
         Building(t) =>
           /\ stripe'[job[t].pay] = stripe[job[t].pay]
           /\ Exists(P(job[t].pay))' <=> Exists(P(job[t].pay))
           /\ Exists(T(stripe[job[t].pay].tenant)) => Exists(T(stripe[job[t].pay].tenant))'
  PROVE  Request(t)'
BY KnowsStays, HoldsStays, StandsStays DEF Inv, Request

(* The subscriptions of U get a new status. *)
LEMMA Becoming ==
  ASSUME AtStripe, NEW U \in SUBSET Uuid, NEW st \in Status \ {"none"}, stripe' = Becomes(U, st),
         \A u \in U : stripe[u].status # "none"
  PROVE  /\ AtStripe'
         /\ \A u \in U : stripe'[u].status = st /\ stripe'[u].tenant = stripe[u].tenant
         /\ \A u \in Uuid \ U : stripe'[u] = stripe[u]
<1>1. \A u \in U : stripe'[u] = [stripe[u] EXCEPT !.status = st]
  BY DEF Becomes
<1>2. \A u \in Uuid \ U : stripe'[u] = stripe[u]
  BY DEF Becomes
<1>3. \A u \in U : stripe'[u].status = st /\ stripe'[u].tenant = stripe[u].tenant
  BY <1>1 DEF AtStripe
<1>4. ASSUME NEW u \in Uuid PROVE stripe'[u] \in [status : Status, tenant : Uuid \cup {Absent}]
  <2>1. stripe[u] \in [status : Status, tenant : Uuid \cup {Absent}]
    BY DEF AtStripe
  <2>2. [stripe[u] EXCEPT !.status = st] \in [status : Status, tenant : Uuid \cup {Absent}]
    BY <2>1
  <2> QED
    BY <1>1, <1>2, <2>1, <2>2
<1>5. stripe' \in [Uuid -> [status : Status, tenant : Uuid \cup {Absent}]]
  BY <1>4 DEF Becomes
<1> QED
  BY <1>2, <1>3, <1>5 DEF AtStripe

(* What Stripe does, or is asked to do, leaves what is shared in order: no    *)
(* subscription comes to life that was not known, and one that ends is told  *)
(* as ended, or belongs to nobody.                                           *)
LEMMA StripeMoves ==
  ASSUME Inv, NEW U \in SUBSET Uuid, NEW st \in {"active", "leaving", "cancelled", "lost"},
         stripe' = Becomes(U, st), UNCHANGED <<db, told>>,
         \A u \in U : stripe[u].status # "none",
         st \in {"active", "leaving"} => \A u \in U : stripe[u].status \in {"incomplete", "active"},
         st = "cancelled" => \A u \in U : u \notin told \/ ~Exists(P(u)),
         \A e \in sent' : \/ e \in sent
                          \/ /\ e.pay \in U /\ e.type \in {"paid", "updated", "deleted"}
                             /\ e.type = "deleted" => st = "cancelled",
         \A u \in Uuid : Working(u) /\ ~Working(u)' => ~Live(u)'
  PROVE  Shared' /\ Lasting
<1>1. /\ AtStripe'
      /\ \A u \in U : stripe'[u].status = st /\ stripe'[u].tenant = stripe[u].tenant
      /\ \A u \in Uuid \ U : stripe'[u] = stripe[u]
  BY Becoming DEF Inv, Shared, Status
<1>2. Lasting
  BY <1>1 DEF Lasting
<1>3. Tables'
  BY DEF Inv, Shared, Tables
<1>4. Said'
  <2>1. \A u \in told : stripe'[u].status \in {"cancelled", "lost"}
    BY <1>2 DEF Inv, Shared, Said, Lasting
  <2>2. \A e \in sent : /\ e.pay \in Uuid /\ stripe'[e.pay].status # "none"
                        /\ e.type = "deleted" => stripe'[e.pay].status \in {"cancelled", "lost"}
                        /\ e.type \in {"paid", "updated", "deleted"}
    BY <1>2 DEF Inv, Shared, Said, Lasting
  <2>3. \A e \in sent' : /\ e.pay \in Uuid /\ stripe'[e.pay].status # "none"
                         /\ e.type = "deleted" => stripe'[e.pay].status \in {"cancelled", "lost"}
                         /\ e.type \in {"paid", "updated", "deleted"}
    BY <1>1, <2>2
  <2>4. told' \subseteq Uuid /\ told' = told
    BY DEF Inv, Shared, Said
  <2>5. \A u \in told' : stripe'[u].status \in {"cancelled", "lost"}
    BY <2>1, <2>4
  <2> QED
    BY <2>3, <2>4, <2>5 DEF Said
<1>5. \A r : Exists(r)' <=> Exists(r)
  BY DEF Exists
<1>6. Ours'
  BY <1>1, <1>5 DEF Inv, Shared, Ours
<1>7. NoOrphans'
  <2> SUFFICES ASSUME NEW u \in Uuid, Live(u)', ~Working(u)'
               PROVE  Exists(P(u))' /\ Exists(T(stripe[u].tenant))'
    BY DEF NoOrphans
  <2>1. ~Working(u)
    OBVIOUS
  <2>2. Live(u) /\ stripe'[u].tenant = stripe[u].tenant
    BY <1>1 DEF Live
  <2> QED
    BY <1>5, <2>1, <2>2 DEF Inv, Shared, NoOrphans
<1>8. Ended'
  <2>1. \A v, t \in Uuid : Going(v, t) => Going(v, t)'
    BY <1>1, <1>5 DEF Going
  <2> QED
    BY <1>5, <2>1 DEF Inv, Shared, Ended
<1>9. CodeBacksTenant'
  BY <1>1, <1>5 DEF Inv, Shared, CodeBacksTenant
<1> QED
  BY <1>1, <1>2, <1>3, <1>4, <1>6, <1>7, <1>8, <1>9 DEF Shared

(* A step of Stripe alone, on a subscription no request is making. *)
LEMMA StripeAlone ==
  ASSUME Inv, NEW u \in Uuid, NEW st \in {"active", "leaving", "cancelled"}, NEW type \in {"paid", "updated", "deleted"},
         stripe' = Becomes({u}, st), sent' = sent \cup {Event(type, u)},
         UNCHANGED <<db, mine, at, job, told>>,
         stripe[u].status \in {"incomplete", "active", "leaving"},
         st # "cancelled" => stripe[u].status # "leaving",
         type = "deleted" => st = "cancelled",
         \A t \in Session : Building(t) => job[t].pay # u
  PROVE  Inv'
<1>1. Shared' /\ Lasting
  <2>1. \A v \in Uuid : Working(v)' <=> Working(v)
    BY DEF Working
  <2>2. u \notin told
    BY DEF Inv, Shared, Said
  <2>3. Event(type, u).pay = u /\ Event(type, u).type = type
    BY DEF Event
  <2>4. \A e \in sent' : \/ e \in sent
                         \/ /\ e.pay \in {u} /\ e.type \in {"paid", "updated", "deleted"}
                            /\ e.type = "deleted" => st = "cancelled"
    BY <2>3
  <2> QED
    BY <2>1, <2>2, <2>4, StripeMoves
<1>2. ASSUME NEW t \in Session PROVE Request(t)'
  <2>1. Building(t) => job[t].pay \in Uuid \ {u}
    BY DEF Inv, Request, Knows
  <2>2. \A v \in Uuid \ {u} : stripe'[v] = stripe[v]
    BY Becoming DEF Inv, Shared, Status
  <2> QED
    BY <1>1, <2>1, <2>2, RequestStays DEF Exists
<1>3. Requests' /\ Apart'
  BY DEF Inv, Requests, Apart, Building
<1> QED
  BY <1>1, <1>2, <1>3 DEF Inv

(* A subscription that is paid for is nobody's any more. *)
LEMMA PaidIsMade ==
  ASSUME Inv, NEW u \in Uuid, stripe[u].status \in {"active", "leaving"}, NEW t \in Session, Building(t)
  PROVE  job[t].pay # u
<1> SUFFICES ASSUME job[t].pay = u PROVE FALSE
  OBVIOUS
<1>1. CASE job[t].made /\ at[t] \in {"tokens", "cancel"}
  BY <1>1 DEF Inv, Request, Stands
<1>2. CASE ~job[t].made /\ at[t] \in {"tokens", "cancel"}
  BY <1>2 DEF Inv, Request, Knows, Stands
<1>3. CASE ~job[t].made /\ at[t] \notin {"tokens", "cancel"}
  BY <1>3 DEF Inv, Request, Stands
<1>4. CASE job[t].made /\ at[t] \notin {"tokens", "cancel"}
  <2>1. stripe[u] = [status |-> "incomplete", tenant |-> job[t].tenant]
    BY <1>4 DEF Inv, Request, Stands
  <2> QED
    BY <2>1
<1> QED
  BY <1>1, <1>2, <1>3, <1>4

(* The client pays a subscription whose payment is there. *)
LEMMA PayKeeps == ASSUME Inv, Pay PROVE Inv'
<1> PICK u \in Uuid :
       /\ stripe[u].status = "incomplete" /\ Exists(P(u))
       /\ \A s \in Session : at[s] # "idle" => job[s].pay # u
       /\ stripe' = Becomes({u}, "active")
       /\ sent' = sent \cup {Event("paid", u)}
       /\ UNCHANGED <<db, mine, at, job, calm, told>>
  BY DEF Pay
<1>1. \A t \in Session : Building(t) => job[t].pay # u
  BY DEF Building
<1> QED
  BY <1>1, StripeAlone

(* One that is active leaves at the end of its period. *)
LEMMA LeaveKeeps == ASSUME Inv, Leave PROVE Inv'
<1> PICK u \in Uuid :
       /\ stripe[u].status = "active"
       /\ stripe' = Becomes({u}, "leaving")
       /\ sent' = sent \cup {Event("updated", u)}
       /\ UNCHANGED <<db, mine, at, job, calm, told>>
  BY DEF Leave
<1>1. \A t \in Session : Building(t) => job[t].pay # u
  BY PaidIsMade
<1> QED
  BY <1>1, StripeAlone

(* A subscription ends, and Stripe says so. *)
LEMMA EndPeriodKeeps == ASSUME Inv, EndPeriod PROVE Inv'
<1> PICK u \in Uuid :
       /\ stripe[u].status \in {"active", "leaving"}
       /\ stripe' = Becomes({u}, "cancelled") /\ sent' = sent \cup {Event("deleted", u)}
       /\ UNCHANGED <<db, mine, at, job, calm, told>>
  BY DEF EndPeriod
<1>1. \A t \in Session : Building(t) => job[t].pay # u
  BY PaidIsMade
<1> QED
  BY <1>1, StripeAlone

(* What a request does that ends by cancelling, or losing, what it made. *)
LEMMA Cancels ==
  ASSUME Inv, NEW s \in Session, Rollback(s), at[s] # "idle", job[s].made,
         NEW st \in {"cancelled", "lost"}, stripe' = Becomes({job[s].pay}, st), UNCHANGED told,
         st = "cancelled" => at[s] = "cancel",
         \/ sent' = sent
         \/ sent' = sent \cup {Event("deleted", job[s].pay)} /\ st = "cancelled"
  PROVE  Inv'
<1> DEFINE u == job[s].pay
<1>1. Building(s) /\ u \in Uuid /\ at[s] \in {"record", "commit", "tokens", "cancel"}
  BY MakersBuild
<1>2. stripe[u].status # "none" /\ (at[s] = "cancel" => u \notin told \/ ~Exists(P(u)))
  <2>1. CASE at[s] \in {"tokens", "cancel"}
    <3>1. stripe[u].status # "none" /\ (stripe[u].status = "incomplete" \/ ~Exists(P(u)))
      BY <2>1 DEF Inv, Request, Stands
    <3> QED
      BY <3>1 DEF Inv, Shared, Said
  <2>2. CASE at[s] \in {"record", "commit"}
    <3>1. stripe[u] = [status |-> "incomplete", tenant |-> job[s].tenant]
      BY <1>1, <2>2 DEF Inv, Request, Stands
    <3> QED
      BY <2>2, <3>1
  <2> QED
    BY <1>1, <2>1, <2>2
<1>3. /\ at' \in [Session -> Step] /\ DOMAIN job' = Session
      /\ at'[s] = "idle" /\ job'[s] = NoJob
      /\ \A t \in Session \ {s} : at'[t] = at[t] /\ job'[t] = job[t]
  BY Goes DEF Inv, Rollback, Step
<1>4. Requests' /\ Alone(s) /\ DOMAIN mine'[s] = {} /\ db' = db
  BY <1>3 DEF Requests, Alone, Rollback, Inv, Unwritten
<1>5. /\ \A v \in Uuid \ {u} : stripe'[v] = stripe[v]
      /\ stripe'[u].status = st
  <2>1. {u} \in SUBSET Uuid /\ st \in Status \ {"none"} /\ AtStripe /\ \A v \in {u} : stripe[v].status # "none"
    BY <1>1, <1>2 DEF Inv, Shared, Status
  <2>2. stripe' = Becomes({u}, st)
    OBVIOUS
  <2> HIDE DEF u
  <2> QED
    BY <2>1, <2>2, Becoming
<1>6. Shared' /\ Lasting
  <2>1. ASSUME NEW v \in Uuid, Working(v), ~Working(v)' PROVE ~Live(v)'
    <3>1. PICK t \in Session : at[t] # "idle" /\ job[t].made /\ job[t].pay = v
      BY <2>1 DEF Working
    <3>2. t = s
      BY <1>3, <2>1, <3>1 DEF Working
    <3> QED
      BY <1>5, <3>1, <3>2 DEF Live
  <2>2. \A e \in sent' : \/ e \in sent
                         \/ /\ e.pay \in {u} /\ e.type \in {"paid", "updated", "deleted"}
                            /\ e.type = "deleted" => st = "cancelled"
    <3>1. Event("deleted", u).pay = u /\ Event("deleted", u).type = "deleted"
      BY DEF Event
    <3> QED
      BY <3>1
  <2>3. {u} \in SUBSET Uuid /\ stripe' = Becomes({u}, st) /\ UNCHANGED <<db, told>>
    BY <1>1, <1>4
  <2>4. st = "cancelled" => \A v \in {u} : v \notin told \/ ~Exists(P(v))
    BY <1>2
  <2> HIDE DEF u
  <2> QED
    BY <1>2, <2>1, <2>2, <2>3, <2>4, StripeMoves
<1>7. Request(s)'
  BY <1>3, <1>4 DEF Request, Knows, Holds, Stands, Building
<1>8. Apart'
  BY <1>3, <1>4, ApartStays DEF Inv, Building
<1>9. ASSUME NEW t \in Session \ {s} PROVE Request(t)'
  <2>1. Building(t) => job[t].pay \in Uuid \ {u}
    BY <1>1 DEF Inv, Request, Knows, Apart
  <2>2. Building(t) => stripe'[job[t].pay] = stripe[job[t].pay]
    BY <1>5, <2>1
  <2>3. \A r : Exists(r)' <=> Exists(r)
    BY <1>4 DEF Exists
  <2>4. Lasting /\ \A k \in Code \cap DOMAIN mine[t] : db'[k] = db[k]
    BY <1>4, <1>6
  <2> QED
    BY <1>4, <2>1, <2>2, <2>3, <2>4, RequestStays DEF Alone
<1> QED
  BY <1>4, <1>6, <1>7, <1>8, <1>9 DEF Inv

(* The request that cancels lets go of what it made. *)
LEMMA CancelKeeps ==
  ASSUME Inv, NEW s \in Session, Cancel(s)
  PROVE  Inv'
<1>1. at[s] = "cancel" /\ Rollback(s) /\ UNCHANGED told /\ job[s].made
  BY DEF Cancel, Inv, Request, Knows
<1>2. CASE stripe' = Becomes({job[s].pay}, "cancelled") /\ sent' = sent \cup {Event("deleted", job[s].pay)}
  BY <1>1, <1>2, Cancels
<1>3. CASE stripe' = Becomes({job[s].pay}, "lost") /\ UNCHANGED sent
  BY <1>1, <1>3, Cancels
<1> QED
  BY <1>2, <1>3 DEF Cancel

(* So does the one that dies. *)
LEMMA CrashKeeps ==
  ASSUME Inv, NEW s \in Session, Crash(s)
  PROVE  Inv'
BY Cancels DEF Crash, Fail

(* A subscription is made at Stripe, and the request works on it. *)
LEMMA SubscribeKeeps ==
  ASSUME TenancyConstants, Inv, NEW s \in Session, Subscribe(s)
  PROVE  Inv'
<1> DEFINE j == job[s]  u == j.pay  made == [j EXCEPT !.made = TRUE]
<1>0. /\ at[s] = "subscribe" /\ UNCHANGED <<sent, told>> /\ Request(s)
      /\ stripe' = [stripe EXCEPT ![u] = [status |-> "incomplete", tenant |-> j.tenant]]
      /\ Look(s, "record", made)
  BY DEF Subscribe, Inv
<1>1. /\ Building(s) /\ j \in JobRow /\ u \in Uuid /\ j.tenant \in Uuid /\ ~Exists(P(u))
      /\ j.name # Absent => j.tenant = j.pay /\ j.name \in Name
  BY <1>0, Builds
<1>2. ~j.made /\ stripe[u].status = "none"
  BY <1>0, <1>1 DEF Request, Knows, Stands
<1>3. /\ made \in JobRow /\ made.made /\ made.pay = u /\ made.tenant = j.tenant /\ made.name = j.name
      /\ made.code = j.code /\ made.branch = j.branch
  BY <1>1 DEF JobRow
<1> HIDE DEF made
<1>4. /\ at' \in [Session -> Step] /\ DOMAIN job' = Session
      /\ at'[s] = "record" /\ job'[s] = made
      /\ \A t \in Session \ {s} : at'[t] = at[t] /\ job'[t] = job[t]
  <2>1. Goto(s, "record", made) /\ "record" \in Step
    BY <1>0 DEF Look, Step
  <2> QED
    BY <2>1, Goes DEF Inv
<1>5. Requests' /\ Alone(s) /\ db' = db /\ mine' = mine
  BY <1>0, <1>4 DEF Requests, Alone, Look, Inv
<1>6. /\ \A v \in Uuid \ {u} : stripe'[v] = stripe[v]
      /\ stripe'[u] = [status |-> "incomplete", tenant |-> j.tenant]
      /\ stripe'[u].status = "incomplete" /\ stripe'[u].tenant = j.tenant
  BY <1>0, <1>1 DEF Inv, Shared, AtStripe
<1>7. Lasting
  BY <1>2, <1>6 DEF Lasting
<1>8. Tables'
  BY <1>5 DEF Inv, Shared, Tables
<1>9. AtStripe'
  BY <1>0, <1>1, <1>6 DEF Inv, Shared, AtStripe, Status
<1>10. Said'
  BY <1>0, <1>7 DEF Inv, Shared, Said, Lasting
<1>11. \A r : Exists(r)' <=> Exists(r)
  BY <1>5 DEF Exists
<1>12. Ours'
  BY <1>1, <1>5, <1>6, <1>11 DEF Inv, Shared, Ours
<1>13. NoOrphans'
  <2> SUFFICES ASSUME NEW v \in Uuid, Live(v)', ~Working(v)'
               PROVE  Exists(P(v))' /\ Exists(T(stripe[v].tenant))'
    BY DEF NoOrphans
  <2>1. v # u
    BY <1>3, <1>4 DEF Working
  <2>2. ~Working(v)
    BY <1>2, <1>4 DEF Working
  <2> QED
    BY <1>6, <1>11, <2>1, <2>2 DEF Inv, Shared, NoOrphans, Live
<1>14. Ended'
  <2>1. \A v, t \in Uuid : Going(v, t)' <=> Going(v, t)
    BY <1>0, <1>1, <1>5, <1>6, <1>11 DEF Going
  <2> QED
    BY <1>5, <1>11, <2>1 DEF Inv, Shared, Ended
<1>15. CodeBacksTenant'
  BY <1>1, <1>5, <1>6, <1>11 DEF Inv, Shared, CodeBacksTenant
<1>16. Building(s)'
  BY <1>4 DEF Building
<1>17. Knows(s)'
  BY <1>1, <1>3, <1>4, <1>16 DEF Knows
<1>18. Holds(s)'
  BY <1>0, <1>3, <1>4, <1>5 DEF Request, Holds
<1>19. Stands(s)'
  BY <1>1, <1>3, <1>4, <1>6, <1>11 DEF Stands
<1>20. Apart'
  BY <1>1, <1>3, <1>4, <1>5, <1>16, ApartStays DEF Inv, Apart
<1>21. ASSUME NEW t \in Session \ {s} PROVE Request(t)'
  <2>1. Building(t) => job[t].pay \in Uuid \ {u}
    BY <1>1 DEF Inv, Request, Knows, Apart
  <2> QED
    BY <1>5, <1>6, <1>7, <2>1, RequestStays DEF Exists, Alone
<1> QED
  BY <1>5, <1>8, <1>9, <1>10, <1>12, <1>13, <1>14, <1>15, <1>17, <1>18, <1>19, <1>20, <1>21
     DEF Inv, Shared, Request

-----------------------------------------------------------------------------
(* What the webhook does.                                                   *)

(* A request that writes one row of a table, outside any transaction. *)
LEMMA Applies ==
  ASSUME Inv, NEW s \in Session, NEW r \in Row, NEW row, Apply(s, [x \in {r} |-> row], "idle", NoJob),
         DOMAIN mine[s] = {}
  PROVE  /\ DOMAIN db' = Row /\ db'[r] = row /\ \A x \in Row \ {r} : db'[x] = db[x]
         /\ Requests' /\ Alone(s) /\ Request(s)' /\ Apart'
<1>1. /\ at' \in [Session -> Step] /\ DOMAIN job' = Session
      /\ at'[s] = "idle" /\ job'[s] = NoJob
      /\ \A t \in Session \ {s} : at'[t] = at[t] /\ job'[t] = job[t]
  BY Goes DEF Inv, Apply, Step
<1>2. Requests' /\ Alone(s) /\ DOMAIN mine'[s] = {}
  BY <1>1 DEF Requests, Alone, Apply, Inv
<1>3. Request(s)'
  BY <1>1, <1>2 DEF Request, Knows, Holds, Stands, Building
<1>4. Apart'
  BY <1>1, <1>2, ApartStays DEF Inv, Building
<1>5. DOMAIN db' = Row /\ db'[r] = row /\ \A x \in Row \ {r} : db'[x] = db[x]
  BY DEF Apply, Over, Inv, Shared, Tables
<1> QED
  BY <1>2, <1>3, <1>4, <1>5

(* What a webhook in progress knows. *)
LEMMA Hears ==
  ASSUME Inv, NEW s \in Session, at[s] \in {"verify", "unsubscribe"}
  PROVE  /\ ~job[s].made /\ job[s].pay \in Uuid /\ DOMAIN mine[s] = {}
         /\ stripe[job[s].pay].status # "none"
         /\ job[s].tenant = stripe[job[s].pay].tenant /\ job[s].tenant \in Uuid
         /\ at[s] = "unsubscribe" /\ job[s].name = "deleted" =>
              stripe[job[s].pay].status \in {"cancelled", "lost"}
<1>1. Request(s) /\ AtStripe
  BY DEF Inv, Shared
<1>2. /\ ~job[s].made /\ job[s].pay \in Uuid
      /\ stripe[job[s].pay].status # "none" /\ job[s].tenant = stripe[job[s].pay].tenant
      /\ at[s] = "unsubscribe" /\ job[s].name = "deleted" =>
           stripe[job[s].pay].status \in {"cancelled", "lost"}
  BY <1>1 DEF Request, Knows
<1>3. DOMAIN mine[s] = {}
  BY <1>1 DEF Request, Holds, Step
<1> QED
  BY <1>1, <1>2, <1>3 DEF AtStripe

(* A payment that is there is verified, and stays whose it is. *)
LEMMA VerifyPaymentKeeps ==
  ASSUME TenancyConstants, Inv, NEW s \in Session, VerifyPayment(s)
  PROVE  Inv'
<1> DEFINE u == job[s].pay  row == [db[P(u)] EXCEPT !.verified = TRUE]
<1>0. at[s] = "verify" /\ UNCHANGED outside
  BY DEF VerifyPayment
<1>1. ~job[s].made /\ u \in Uuid /\ DOMAIN mine[s] = {}
  BY <1>0, Hears
<1>2. CASE Rollback(s)
  BY <1>0, <1>1, <1>2, Ends DEF NotLeft
<1>3. ASSUME Exists(P(u)), Apply(s, [r \in {P(u)} |-> row], "idle", NoJob)
      PROVE  Inv'
  <2>1. row \in PaymentRow /\ row.tenant = db[P(u)].tenant /\ P(u) \in Row
    <3>1. db[P(u)] \in PaymentRow
      BY <1>1, <1>3 DEF Inv, Shared, Tables, Exists
    <3> QED
      BY <1>1, <3>1, Keys DEF PaymentRow
  <2> HIDE DEF row
  <2>2. /\ DOMAIN db' = Row /\ db'[P(u)] = row /\ \A x \in Row \ {P(u)} : db'[x] = db[x]
        /\ Requests' /\ Alone(s) /\ Request(s)' /\ Apart'
    BY <1>1, <1>3, <2>1, Applies
  <2>3. /\ \A v \in Uuid : /\ db'[T(v)] = db[T(v)]
                           /\ v # u => db'[P(v)] = db[P(v)]
        /\ \A b \in Branch : db'[b] = db[b]
        /\ \A k \in Code : db'[k] = db[k]
    BY <1>1, <2>2, Keys
  <2>4. SameRows
    BY <1>3, <2>1, <2>2, <2>3, Present DEF SameRows, Exists
  <2>5. Tables'
    BY <2>1, <2>2, <2>3 DEF Inv, Shared, Tables
  <2> QED
    BY <1>0, <1>1, <2>2, <2>4, <2>5, Inside DEF NotLeft
<1> QED
  BY <1>2, <1>3 DEF VerifyPayment

(* A tenant of which an end is told is no longer subscribed. *)
LEMMA UnsubscribeKeeps ==
  ASSUME TenancyConstants, Inv, NEW s \in Session, Unsubscribe(s)
  PROVE  Inv'
<1> DEFINE u == job[s].pay  t == job[s].tenant
<1>0. at[s] = "unsubscribe" /\ UNCHANGED <<stripe, sent>> /\ Answered(s)
  BY DEF Unsubscribe
<1>1. /\ ~job[s].made /\ u \in Uuid /\ DOMAIN mine[s] = {}
      /\ stripe[u].status # "none" /\ t = stripe[u].tenant /\ t \in Uuid
      /\ job[s].name = "deleted" => stripe[u].status \in {"cancelled", "lost"}
  BY <1>0, Hears
<1>2. /\ told \subseteq told' /\ told' \subseteq told \cup {u}
      /\ u \in told' => u \in told \/ stripe[u].status \in {"cancelled", "lost"}
  BY <1>0, <1>1 DEF Answered
(* However it ends, T(t) does not count as subscribed, and nothing else changed. *)
<1>3. /\ Requests' /\ Alone(s) /\ Request(s)' /\ Apart' /\ Tables'
      /\ \A v \in Uuid : /\ Exists(T(v))' <=> Exists(T(v))
                         /\ db'[P(v)] = db[P(v)]
                         /\ v # t => db'[T(v)] = db[T(v)]
      /\ \A k \in Code : db'[k] = db[k]
      /\ db'[T(t)] # Absent => ~db'[T(t)].subscribed
  <2>1. CASE ~Exists(T(t))
    <3>0. Rollback(s)
      BY <2>1 DEF Unsubscribe
    <3>1. /\ at' \in [Session -> Step] /\ DOMAIN job' = Session
          /\ at'[s] = "idle" /\ job'[s] = NoJob
          /\ \A v \in Session \ {s} : at'[v] = at[v] /\ job'[v] = job[v]
      BY <3>0, Goes DEF Inv, Rollback, Step
    <3>2. Requests' /\ Alone(s) /\ DOMAIN mine'[s] = {} /\ db' = db
      BY <3>0, <3>1 DEF Requests, Alone, Rollback, Inv, Unwritten
    <3>3. Request(s)'
      BY <3>1, <3>2 DEF Request, Knows, Holds, Stands, Building
    <3>4. Apart'
      BY <3>1, <3>2, ApartStays DEF Inv, Building
    <3> QED
      BY <2>1, <3>2, <3>3, <3>4 DEF Inv, Shared, Tables, Exists
  <2>2. CASE Exists(T(t))
    <3> DEFINE row == [db[T(t)] EXCEPT !.subscribed = FALSE]
    <3>0. Apply(s, [r \in {T(t)} |-> row], "idle", NoJob)
      BY <2>2 DEF Unsubscribe
    <3>1. row \in TenantRow /\ ~row.subscribed /\ T(t) \in Row
      <4>1. db[T(t)] \in TenantRow
        BY <1>1, <2>2 DEF Inv, Shared, Tables, Exists
      <4> QED
        BY <1>1, <4>1, Keys DEF TenantRow
    <3> HIDE DEF row
    <3>2. /\ DOMAIN db' = Row /\ db'[T(t)] = row /\ \A x \in Row \ {T(t)} : db'[x] = db[x]
          /\ Requests' /\ Alone(s) /\ Request(s)' /\ Apart'
      BY <1>1, <3>0, <3>1, Applies
    <3>3. /\ \A v \in Uuid : /\ db'[P(v)] = db[P(v)]
                             /\ v # t => db'[T(v)] = db[T(v)]
          /\ \A b \in Branch : db'[b] = db[b]
          /\ \A k \in Code : db'[k] = db[k]
      BY <1>1, <3>2, Keys
    <3>4. db'[T(t)] # Absent
      BY <3>1, <3>2, Present
    <3>5. Tables'
      BY <3>1, <3>2, <3>3 DEF Inv, Shared, Tables
    <3> QED
      BY <2>2, <3>1, <3>2, <3>3, <3>4, <3>5 DEF Exists
  <2> QED
    BY <2>1, <2>2
<1>4. AtStripe' /\ Said'
  BY <1>0, <1>1, <1>2 DEF Inv, Shared, AtStripe, Said
<1>5. \A v \in Uuid : (Exists(P(v))' <=> Exists(P(v))) /\ (Live(v)' <=> Live(v))
  BY <1>0, <1>3 DEF Exists, Live
<1>6. Ours'
  BY <1>0, <1>3, <1>5 DEF Inv, Shared, Ours
<1>7. NoOrphans'
  <2> SUFFICES ASSUME NEW v \in Uuid, Live(v)', ~Working(v)'
               PROVE  Exists(P(v))' /\ Exists(T(stripe[v].tenant))'
    BY DEF NoOrphans
  <2>1. Live(v) /\ stripe[v].tenant \in Uuid
    BY <1>5 DEF Inv, Shared, AtStripe, Live
  <2>2. ~Working(v)
    BY <1>1, <1>3 DEF Working, Alone
  <2> QED
    BY <1>0, <1>3, <1>5, <2>1, <2>2 DEF Inv, Shared, NoOrphans
<1>8. Ended'
  <2> SUFFICES ASSUME NEW x \in Uuid, Exists(T(x))', db'[T(x)].subscribed,
                      NEW w \in Uuid, Exists(P(w))', db'[P(w)].tenant = x
               PROVE  \E v \in Uuid : Going(v, x)'
    BY DEF Ended
  <2>1. x # t
    BY <1>3 DEF Exists
  <2>2. PICK v \in Uuid : Going(v, x)
    BY <1>3, <1>5, <2>1 DEF Inv, Shared, Ended
  <2>3. v # u
    BY <1>1, <2>1, <2>2 DEF Inv, Shared, Ours, Going
  <2>4. Going(v, x)'
    BY <1>0, <1>2, <1>3, <1>5, <2>2, <2>3 DEF Going
  <2> QED
    BY <2>4
<1>9. CodeBacksTenant'
  <2>1. \A k \in Code : (Exists(k)' <=> Exists(k)) /\ (Exists(k) => db[k] \in Uuid)
    BY <1>3 DEF Inv, Shared, Tables, CodeRow, Exists
  <2> QED
    BY <1>0, <1>3, <1>5, <2>1 DEF Inv, Shared, CodeBacksTenant
<1>10. ASSUME NEW v \in Session \ {s} PROVE Request(v)'
  <2>1. Building(v) => job[v].pay \in Uuid
    BY DEF Inv, Request, Knows
  <2>2. at'[v] = at[v] /\ job'[v] = job[v] /\ mine'[v] = mine[v]
    BY <1>3 DEF Alone
  <2>3. Lasting
    BY <1>0 DEF Lasting
  <2>4. Knows(v)' /\ Holds(v)'
    BY <1>3, <2>2, <2>3, KnowsStays, HoldsStays DEF Inv, Request
  <2>5. Stands(v)'
    <3>1. CASE ~Building(v) \/ stripe[job[v].pay].tenant \in Uuid
      BY <1>0, <1>3, <1>5, <2>1, <2>2, <3>1, StandsStays DEF Inv, Request
    <3>2. CASE Building(v) /\ stripe[job[v].pay].status = "none"
      BY <1>0, <1>5, <2>1, <2>2, <3>2 DEF Inv, Request, Stands, Building, Live
    <3> QED
      BY <2>1, <3>1, <3>2 DEF Inv, Shared, AtStripe
  <2> QED
    BY <2>4, <2>5 DEF Request
<1> QED
  BY <1>3, <1>4, <1>6, <1>7, <1>8, <1>9, <1>10 DEF Inv, Shared

-----------------------------------------------------------------------------
(* A commit, and a deleted tenant.                                          *)

(* The COMMIT of a request that edits branches. *)
LEMMA CommitBranchKeeps ==
  ASSUME TenancyConstants, Inv, NEW s \in Session, CommitTenant(s), ~Building(s)
  PROVE  Inv'
<1>0. at[s] = "commit" /\ UNCHANGED outside
  BY DEF CommitTenant
<1>1. /\ ~job[s].made /\ job[s].name = Absent /\ DOMAIN mine[s] \subseteq Branch
      /\ \A b \in DOMAIN mine[s] : mine[s][b] \in BranchRow
  BY <1>0, Edits
<1>2. Publish(s, "idle", NoJob)
  BY <1>1 DEF CommitTenant, Commit
<1>3. SameRows /\ Tables'
  <2>1. db' = Over(mine[s], db)
    BY <1>2 DEF Publish
  <2> QED
    BY <1>1, <2>1, BranchesWritten DEF Inv, Shared
<1>4. /\ at' \in [Session -> Step] /\ DOMAIN job' = Session
      /\ at'[s] = "idle" /\ job'[s] = NoJob
      /\ \A t \in Session \ {s} : at'[t] = at[t] /\ job'[t] = job[t]
  BY <1>2, Goes DEF Inv, Publish, Step
<1>5. Requests' /\ Alone(s) /\ DOMAIN mine'[s] = {}
  BY <1>2, <1>4 DEF Requests, Alone, Publish, Inv, Unwritten
<1>6. Request(s)'
  BY <1>4, <1>5 DEF Request, Knows, Holds, Stands, Building
<1>7. Apart'
  BY <1>4, <1>5, ApartStays DEF Inv, Building
<1> QED
  BY <1>0, <1>1, <1>3, <1>5, <1>6, <1>7, Inside DEF NotLeft

(* A payment u of a tenant t is committed, with the tenant and, where nothing  *)
(* is to be paid, a code.                                                    *)
LEMMA CommitPaymentKeeps ==
  ASSUME TenancyConstants, Inv, NEW s \in Session, CommitTenant(s), Building(s),
         NEW u, NEW t, u = job[s].pay, t = job[s].tenant, NEW made, made = job[s].made,
         NEW m, m = mine[s]
  PROVE  Inv'
<1>0. at[s] = "commit" /\ UNCHANGED outside /\ Request(s)
  BY DEF CommitTenant, Inv
<1>1. /\ u \in Uuid /\ t \in Uuid /\ job[s] \in JobRow
      /\ job[s].name # Absent => t = u /\ job[s].name \in Name
  BY <1>0 DEF Request, Knows
<1>2. /\ T(t) \in DOMAIN m /\ P(u) \in DOMAIN m
      /\ DOMAIN m \subseteq {T(t), P(u)} \cup Branch \cup Code
      /\ m[T(t)] \in TenantRow /\ m[P(u)] = [tenant |-> t, verified |-> FALSE]
      /\ \A k \in Code \cap DOMAIN m : m[k] = t
      /\ ~made => t = u /\ \E k \in Code : k \in DOMAIN m
      /\ \A b \in Branch \cap DOMAIN m : m[b] \in BranchRow
      /\ \A k \in Code \cap DOMAIN m : db[k] = Absent
  BY <1>0 DEF Request, Holds, NewPayment
<1>3. /\ ~Exists(P(u))
      /\ made => stripe[u] = [status |-> "incomplete", tenant |-> t]
      /\ ~made => stripe[u].status = "none"
  BY <1>0 DEF Request, Stands
<1>4. made => stripe[u].status = "incomplete" /\ stripe[u].tenant = t
  BY <1>3
<1>5. db' = Over(m, db)
  BY DEF CommitTenant, Commit, Publish
<1>6. /\ DOMAIN db' = Row
      /\ \A r \in Row : db'[r] = IF r \in DOMAIN m THEN m[r] ELSE db[r]
  <2>1. DOMAIN m \cup Row = Row
    BY <1>1, <1>2, Keys
  <2> QED
    BY <1>5, <2>1 DEF Over, Inv, Shared, Tables
<1>7. /\ db'[T(t)] \in TenantRow /\ db'[P(u)] = [tenant |-> t, verified |-> FALSE]
      /\ db'[P(u)] \in PaymentRow
      /\ \A v \in Uuid : /\ v # t => db'[T(v)] = db[T(v)]
                         /\ v # u => db'[P(v)] = db[P(v)]
      /\ \A b \in Branch : db'[b] \in BranchRow \cup {Absent}
      /\ \A k \in Code : db'[k] = IF k \in DOMAIN m THEN t ELSE db[k]
  <2>1. db'[T(t)] = m[T(t)] /\ db'[P(u)] = m[P(u)]
    BY <1>1, <1>2, <1>6, Keys
  <2>2. m[P(u)] \in PaymentRow
    BY <1>1, <1>2 DEF PaymentRow
  <2>3. ASSUME NEW v \in Uuid
        PROVE  /\ v # t => db'[T(v)] = db[T(v)]
               /\ v # u => db'[P(v)] = db[P(v)]
    BY <1>1, <1>2, <1>6, Keys
  <2>4. \A b \in Branch : db'[b] \in BranchRow \cup {Absent}
    BY <1>2, <1>6, Keys DEF Inv, Shared, Tables
  <2>5. \A k \in Code : db'[k] = IF k \in DOMAIN m THEN t ELSE db[k]
    BY <1>2, <1>6, Keys
  <2> QED
    BY <1>2, <2>1, <2>2, <2>3, <2>4, <2>5
<1>8. /\ \A v \in Uuid : /\ Exists(T(v)) => Exists(T(v))'
                         /\ v # u => (Exists(P(v))' <=> Exists(P(v)))
      /\ Exists(T(t))' /\ Exists(P(u))'
  BY <1>7, Present DEF Exists
<1>9. Tables'
  <2>1. \A v \in Uuid : /\ db'[T(v)] \in TenantRow \cup {Absent}
                        /\ db'[P(v)] \in PaymentRow \cup {Absent}
    BY <1>7 DEF Inv, Shared, Tables
  <2>2. \A k \in Code : db'[k] \in CodeRow
    BY <1>1, <1>7 DEF Inv, Shared, Tables, CodeRow
  <2> QED
    BY <1>6, <1>7, <2>1, <2>2 DEF Tables
<1>10. AtStripe' /\ Said'
  BY <1>0 DEF Inv, Shared, AtStripe, Said, outside
<1>11. Ours'
  <2> SUFFICES ASSUME NEW v \in Uuid, Exists(P(v))'
               PROVE  db'[P(v)].tenant = IF stripe[v].status = "none" THEN v ELSE stripe[v].tenant
    BY <1>0 DEF Ours, outside
  <2>1. CASE v = u
    BY <1>2, <1>3, <1>4, <1>7, <2>1
  <2>2. CASE v # u
    BY <1>7, <1>8, <2>2 DEF Inv, Shared, Ours
  <2> QED
    BY <2>1, <2>2
<1>12. /\ at'[s] \in {"idle", "tokens"} /\ Requests' /\ Alone(s) /\ DOMAIN mine'[s] = {}
       /\ at'[s] = "tokens" => job'[s] = job[s] /\ job[s].name # Absent
  <2>1. CASE job[s].name # Absent
    <3>0. Publish(s, "tokens", job[s])
      BY <2>1 DEF CommitTenant
    <3>1. /\ at' \in [Session -> Step] /\ DOMAIN job' = Session
          /\ at'[s] = "tokens" /\ job'[s] = job[s]
          /\ \A v \in Session \ {s} : at'[v] = at[v] /\ job'[v] = job[v]
      <4>1. Goto(s, "tokens", job[s]) /\ "tokens" \in Step
        BY <3>0 DEF Publish, Step
      <4> QED
        BY <4>1, Goes DEF Inv
    <3> QED
      BY <2>1, <3>0, <3>1 DEF Requests, Alone, Publish, Inv, Unwritten
  <2>2. CASE job[s].name = Absent
    <3>0. Publish(s, "idle", NoJob)
      BY <2>2 DEF CommitTenant, Commit
    <3>1. /\ at' \in [Session -> Step] /\ DOMAIN job' = Session
          /\ at'[s] = "idle" /\ job'[s] = NoJob
          /\ \A v \in Session \ {s} : at'[v] = at[v] /\ job'[v] = job[v]
      BY <3>0, Goes DEF Inv, Publish, Step
    <3> QED
      BY <2>2, <3>0, <3>1 DEF Requests, Alone, Publish, Inv, Unwritten
  <2> QED
    BY <2>1, <2>2
<1>13. NoOrphans'
  <2> SUFFICES ASSUME NEW v \in Uuid, Live(v)', ~Working(v)'
               PROVE  Exists(P(v))' /\ Exists(T(stripe[v].tenant))'
    BY <1>0 DEF NoOrphans, outside
  <2>0. Live(v) /\ stripe'[v].tenant = stripe[v].tenant /\ stripe[v].tenant \in Uuid
    BY <1>0 DEF Live, outside, Inv, Shared, AtStripe
  <2>1. CASE v = u
    BY <1>3, <1>4, <1>8, <2>0, <2>1 DEF Live
  <2>2. CASE v # u
    <3>1. ~Working(v)
      BY <1>12, <2>2 DEF Working, Alone
    <3> QED
      BY <1>8, <2>0, <2>2, <3>1 DEF Inv, Shared, NoOrphans
  <2> QED
    BY <2>1, <2>2
<1>14. Ended'
  <2> SUFFICES ASSUME NEW x \in Uuid, Exists(T(x))', db'[T(x)].subscribed,
                      NEW w \in Uuid, Exists(P(w))', db'[P(w)].tenant = x
               PROVE  \E v \in Uuid : Going(v, x)'
    BY DEF Ended
  <2>1. CASE x = t
    <3>1. Going(u, x)'
      BY <1>0, <1>1, <1>3, <1>4, <1>7, <1>8, <2>1 DEF Going, outside
    <3> QED
      BY <1>1, <3>1
  <2>2. CASE x # t
    <3>1. w # u
      BY <1>7, <2>2
    <3>2. PICK v \in Uuid : Going(v, x)
      BY <1>7, <1>8, <2>2, <3>1 DEF Inv, Shared, Ended, Exists
    <3>3. v # u
      BY <1>3, <3>2 DEF Going
    <3>4. Going(v, x)'
      BY <1>0, <1>7, <1>8, <3>2, <3>3 DEF Going, outside
    <3> QED
      BY <3>4
  <2> QED
    BY <2>1, <2>2
<1>15. CodeBacksTenant'
  <2>1. ASSUME NEW k \in Code, Exists(k)' PROVE Exists(T(db[k]))'
    <3>1. CASE k \in DOMAIN m
      BY <1>7, <1>8, <3>1
    <3>2. CASE k \notin DOMAIN m
      <4>1. db'[k] = db[k] /\ Exists(k)
        BY <1>7, <2>1, <3>2 DEF Exists
      <4>2. db[k] \in Uuid /\ Exists(T(db[k]))
        BY <4>1 DEF Inv, Shared, Tables, CodeRow, CodeBacksTenant, Exists
      <4>3. Exists(T(db[k]))' <=> db'[T(db'[k])] # Absent
        BY DEF Exists
      <4>4. \A v \in Uuid : Exists(T(v)) => db'[T(v)] # Absent
        BY <1>8 DEF Exists
      <4> QED
        BY <4>1, <4>2, <4>3, <4>4
    <3> QED
      BY <3>1, <3>2
  <2>2. ASSUME NEW v \in Uuid, Exists(P(v))', stripe'[v].status = "none"
        PROVE  \E k \in Code : db'[k] = v
    <3>1. CASE v = u
      BY <1>0, <1>2, <1>4, <1>7, <2>2, <3>1 DEF outside
    <3>2. CASE v # u
      <4>1. PICK k \in Code : db[k] = v
        BY <1>0, <1>8, <2>2, <3>2 DEF Inv, Shared, CodeBacksTenant, outside
      <4>2. k \notin DOMAIN m
        BY <1>2, <4>1, Present
      <4> QED
        BY <1>7, <4>1, <4>2
    <3> QED
      BY <3>1, <3>2
  <2> QED
    BY <2>1, <2>2 DEF CodeBacksTenant
<1>16. Request(s)'
  <2>1. CASE at'[s] = "idle"
    BY <1>12, <2>1 DEF Request, Knows, Holds, Stands, Building
  <2>2. CASE at'[s] = "tokens"
    <3>1. Knows(s)'
      BY <1>1, <1>12, <2>2 DEF Knows, Building
    <3>2. Holds(s)'
      BY <1>12, <2>2 DEF Holds, Building
    <3>3. Stands(s)'
      BY <1>0, <1>3, <1>4, <1>8, <1>12, <2>2 DEF Stands, Building, outside
    <3> QED
      BY <3>1, <3>2, <3>3 DEF Request
  <2> QED
    BY <1>12, <2>1, <2>2
<1>17. Apart'
  <2>1. Building(s)' => job'[s].pay = u
    BY <1>12 DEF Building
  <2> QED
    BY <1>12, <2>1, ApartStays DEF Inv, Apart
<1>18. ASSUME NEW x \in Session \ {s} PROVE Request(x)'
  <2>1. Building(x) => job[x].pay \in Uuid \ {u}
    BY DEF Inv, Request, Knows, Apart
  <2>2. at'[x] = at[x] /\ job'[x] = job[x] /\ mine'[x] = mine[x]
    BY <1>12 DEF Alone
  <2>3. Lasting
    BY <1>0 DEF Lasting, outside
  <2>4. \A k \in Code \cap DOMAIN mine[x] : db'[k] = db[k]
    BY <1>7 DEF Inv, Apart
  <2>5. Knows(x)' /\ Holds(x)'
    BY <2>2, <2>3, <2>4, KnowsStays, HoldsStays DEF Inv, Request
  <2>6. Stands(x)'
    <3>1. CASE ~Building(x) \/ stripe[job[x].pay].tenant \in Uuid
      <4>1. Building(x) => /\ stripe'[job[x].pay] = stripe[job[x].pay]
                           /\ Exists(P(job[x].pay))' <=> Exists(P(job[x].pay))
                           /\ Exists(T(stripe[job[x].pay].tenant)) => Exists(T(stripe[job[x].pay].tenant))'
        BY <1>0, <1>7, <1>8, <2>1, <2>2, <3>1 DEF outside, Exists
      <4> QED
        BY <2>2, <4>1, StandsStays DEF Inv, Request
    <3>2. CASE Building(x) /\ stripe[job[x].pay].status = "none"
      <4>1. /\ stripe'[job[x].pay] = stripe[job[x].pay]
            /\ Exists(P(job[x].pay))' <=> Exists(P(job[x].pay))
        BY <1>0, <1>7, <2>1, <2>2, <3>2 DEF outside, Exists
      <4> QED
        BY <2>2, <3>2, <4>1 DEF Inv, Request, Stands, Building, Live
    <3> QED
      BY <2>1, <3>1, <3>2 DEF Inv, Shared, AtStripe
  <2> QED
    BY <2>5, <2>6 DEF Request
<1> QED
  BY <1>9, <1>10, <1>11, <1>12, <1>13, <1>14, <1>15, <1>16, <1>17, <1>18 DEF Inv, Shared

(* Every COMMIT edits branches or publishes a payment. *)
LEMMA CommitTenantKeeps ==
  ASSUME TenancyConstants, Inv, NEW s \in Session, CommitTenant(s)
  PROVE  Inv'
BY CommitBranchKeeps, CommitPaymentKeeps

(* A tenant t is deleted with its payments, the subscriptions U of which are   *)
(* then nobody's.  No request is about to commit a payment of it, for that    *)
(* would have written the tenant.                                            *)
LEMMA DeleteTenantKeeps ==
  ASSUME TenancyConstants, Inv, NEW s \in Session, DeleteTenant(s)
  PROVE  Inv'
<1> DEFINE own == {P(u) : u \in Uuid} \cup Branch
           Gone(t) == {T(t)} \cup {r \in own : Exists(r) /\ db[r].tenant = t}
<1> PICK t \in Uuid :
      /\ Exists(T(t)) /\ ~Touched(s, t)
      /\ \A k \in Code : db[k] # t
      /\ db' = [r \in Row |-> IF r \in Gone(t) THEN Absent ELSE db[r]]
      /\ stripe' = Becomes({u \in Uuid : P(u) \in Gone(t)}, "lost")
  BY DEF DeleteTenant
<1>0. /\ at[s] = "idle" /\ mine' = mine /\ at' = at /\ job' = job
      /\ sent' = sent /\ told' = told
  BY DEF DeleteTenant
<1> DEFINE U == {u \in Uuid : Exists(P(u)) /\ db[P(u)].tenant = t}
<1>1. /\ DOMAIN db' = Row
      /\ \A v \in Uuid : /\ db'[T(v)] = IF v = t THEN Absent ELSE db[T(v)]
                         /\ db'[P(v)] = IF v \in U THEN Absent ELSE db[P(v)]
      /\ \A b \in Branch : db'[b] \in {db[b], Absent}
      /\ \A k \in Code : db'[k] = db[k]
  <2>1. \A v \in Uuid : T(v) \in Gone(t) <=> v = t
    BY Keys
  <2>2. \A v \in Uuid : P(v) \in Gone(t) <=> v \in U
    BY Keys
  <2>3. \A k \in Code : k \notin Gone(t)
    BY Keys
  <2> HIDE DEF Gone, U
  <2> QED
    BY <2>1, <2>2, <2>3, Keys
<1>2. stripe' = Becomes(U, "lost")
  <2>1. {u \in Uuid : P(u) \in Gone(t)} = U
    BY Keys
  <2> QED
    BY <2>1
(* What cost nothing was paid with a code, and that keeps its tenant. *)
<1>3. \A u \in U : u \in Uuid /\ stripe[u].status # "none" /\ stripe[u].tenant = t
  BY DEF Inv, Shared, Ours, CodeBacksTenant
<1>4. /\ AtStripe'
      /\ \A u \in U : stripe'[u].status = "lost" /\ stripe'[u].tenant = stripe[u].tenant
      /\ \A u \in Uuid \ U : stripe'[u] = stripe[u]
  <2>1. U \in SUBSET Uuid /\ "lost" \in Status \ {"none"} /\ AtStripe
    BY DEF Inv, Shared, Status
  <2> HIDE DEF U
  <2> QED
    BY <1>2, <1>3, <2>1, Becoming
<1>5. /\ \A v \in Uuid \ {t} : Exists(T(v))' <=> Exists(T(v))
      /\ \A v \in U : ~Exists(P(v))'
      /\ \A v \in Uuid \ U : Exists(P(v))' <=> Exists(P(v))
      /\ ~Exists(T(t))'
  BY <1>1 DEF Exists
<1>6. \A v \in Uuid \ U : Exists(P(v)) => db[P(v)].tenant # t
  OBVIOUS
<1>7. Lasting
  BY <1>4 DEF Lasting
<1>8. U \subseteq Uuid
  OBVIOUS
<1> HIDE DEF U, Gone
<1>9. Tables'
  BY <1>1 DEF Inv, Shared, Tables
<1>10. Said'
  BY <1>0, <1>7 DEF Inv, Shared, Said, Lasting
<1>11. Ours'
  <2> SUFFICES ASSUME NEW v \in Uuid, Exists(P(v))'
               PROVE  db'[P(v)].tenant = IF stripe'[v].status = "none" THEN v ELSE stripe'[v].tenant
    BY DEF Ours
  <2>1. v \notin U
    BY <1>5
  <2> QED
    BY <1>1, <1>4, <1>5, <2>1 DEF Inv, Shared, Ours
<1>12. \A v \in Uuid : Working(v)' <=> Working(v)
  BY <1>0 DEF Working
<1>13. NoOrphans'
  <2> SUFFICES ASSUME NEW v \in Uuid, Live(v)', ~Working(v)'
               PROVE  Exists(P(v))' /\ Exists(T(stripe[v].tenant))'
    BY DEF NoOrphans
  <2>1. v \notin U
    BY <1>4 DEF Live
  <2>2. stripe'[v] = stripe[v] /\ Live(v) /\ stripe[v].tenant \in Uuid
    BY <1>4, <2>1 DEF Live, Inv, Shared, AtStripe
  <2>3. Exists(P(v)) /\ Exists(T(stripe[v].tenant)) /\ db[P(v)].tenant = stripe[v].tenant
    BY <1>12, <2>2 DEF Inv, Shared, NoOrphans, Ours, Live
  <2>4. stripe[v].tenant # t
    BY <1>6, <2>1, <2>3
  <2> QED
    BY <1>5, <2>1, <2>2, <2>3, <2>4
<1>14. Ended'
  <2> SUFFICES ASSUME NEW x \in Uuid, Exists(T(x))', db'[T(x)].subscribed,
                      NEW w \in Uuid, Exists(P(w))', db'[P(w)].tenant = x
               PROVE  \E v \in Uuid : Going(v, x)'
    BY DEF Ended
  <2>1. x # t /\ w \notin U
    BY <1>5
  <2>2. PICK v \in Uuid : Going(v, x)
    BY <1>1, <1>5, <2>1 DEF Inv, Shared, Ended
  <2>3. v \notin U
    BY <1>3, <2>1, <2>2 DEF Going, Inv, Shared, Ours
  <2>4. Going(v, x)'
    BY <1>0, <1>1, <1>4, <1>5, <2>2, <2>3 DEF Going
  <2> QED
    BY <2>4
<1>15. CodeBacksTenant'
  <2>1. ASSUME NEW k \in Code, Exists(k)' PROVE Exists(T(db[k]))'
    <3>1. db'[k] = db[k] /\ db[k] \in Uuid \ {t} /\ Exists(T(db[k]))
      BY <1>1, <2>1 DEF Exists, Inv, Shared, Tables, CodeRow, CodeBacksTenant
    <3>2. db'[T(db[k])] # Absent
      BY <1>1, <3>1 DEF Exists
    <3> QED
      BY <3>1, <3>2 DEF Exists
  <2>2. ASSUME NEW v \in Uuid, Exists(P(v))', stripe'[v].status = "none"
        PROVE  \E k \in Code : db'[k] = v
    BY <1>1, <1>4, <1>5, <2>2 DEF Inv, Shared, CodeBacksTenant
  <2> QED
    BY <2>1, <2>2 DEF CodeBacksTenant
<1>16. Requests' /\ Apart'
  BY <1>0 DEF Inv, Requests, Apart, Building
<1>17. ASSUME NEW x \in Session PROVE Request(x)'
  <2>1. Request(x) /\ at'[x] = at[x] /\ job'[x] = job[x] /\ mine'[x] = mine[x]
    BY <1>0 DEF Inv
  <2>2. Building(x) => job[x].pay \in Uuid /\ job[x].tenant \in Uuid
    BY <2>1 DEF Request, Knows
  <2>3. Knows(x)' /\ Holds(x)'
    BY <1>1, <1>7, <2>1, KnowsStays, HoldsStays DEF Request
  <2>4. Stands(x)'
    <3>1. CASE ~Building(x)
      BY <2>1, <3>1 DEF Stands, Building
    <3>2. CASE Building(x) /\ job[x].pay \in U
      <4>1. at[x] \in {"tokens", "cancel"} /\ job[x].made
        <5>1. Exists(P(job[x].pay)) /\ stripe[job[x].pay].status # "none"
          BY <1>3, <3>2 DEF U
        <5> QED
          BY <2>1, <3>2, <5>1 DEF Request, Stands, Knows
      <4>2. stripe'[job[x].pay].status = "lost" /\ ~Exists(P(job[x].pay))'
        BY <1>4, <1>5, <2>1, <3>2 DEF Exists
      <4> QED
        BY <2>1, <4>1, <4>2 DEF Stands, Building, Live
    <3>3. CASE Building(x) /\ job[x].pay \notin U
      <4>1. stripe'[job[x].pay] = stripe[job[x].pay] /\ (Exists(P(job[x].pay))' <=> Exists(P(job[x].pay)))
        BY <1>4, <1>5, <2>1, <2>2, <3>3 DEF Exists
      <4>2. CASE at[x] = "tokens" /\ job[x].made /\ Live(job[x].pay)
        <5>1. /\ Exists(P(job[x].pay)) /\ Exists(T(stripe[job[x].pay].tenant))
              /\ stripe[job[x].pay].tenant \in Uuid
          BY <2>1, <2>2, <3>3, <4>2 DEF Request, Stands, Inv, Shared, AtStripe, Live
        <5>2. stripe[job[x].pay].tenant # t
          BY <1>6, <2>2, <3>3, <4>2, <5>1 DEF Inv, Shared, Ours, Live
        <5>3. Exists(T(stripe[job[x].pay].tenant))'
          BY <1>5, <2>1, <4>1, <5>1, <5>2 DEF Exists
        <5> QED
          BY <2>1, <3>3, <4>1, <4>2, <5>3 DEF Request, Stands, Building, Live
      <4>3. CASE ~(at[x] = "tokens" /\ job[x].made /\ Live(job[x].pay))
        BY <2>1, <3>3, <4>1, <4>3 DEF Request, Stands, Building, Live
      <4> QED
        BY <4>2, <4>3
    <3> QED
      BY <3>1, <3>2, <3>3
  <2> QED
    BY <2>3, <2>4 DEF Request
<1> QED
  BY <1>4, <1>9, <1>10, <1>11, <1>13, <1>14, <1>15, <1>16, <1>17 DEF Inv, Shared

-----------------------------------------------------------------------------

(* Every step keeps the invariant. *)
LEMMA StepKeeps ==
  ASSUME TenancyConstants, Inv, [Next]_vars
  PROVE  Inv'
<1>1. CASE UNCHANGED vars
  <2>1. /\ db' = db /\ mine' = mine /\ at' = at /\ job' = job
        /\ stripe' = stripe /\ sent' = sent /\ told' = told
    BY <1>1 DEF vars
  <2>2. Shared'
    BY <2>1 DEF Inv, Shared, Tables, AtStripe, Said, Ours, NoOrphans, Ended, CodeBacksTenant,
              Going, Live, Working, Exists
  <2>3. Requests' /\ Apart'
    BY <2>1 DEF Inv, Requests, Apart, Building
  <2>4. ASSUME NEW x \in Session PROVE Request(x)'
    BY <2>1 DEF Inv, Request, Knows, Holds, Stands, Building, Exists, Live, NewPayment
  <2> QED
    BY <2>2, <2>3, <2>4 DEF Inv
<1>2. ASSUME NEW s \in Session, Onboarding(s) PROVE Inv'
  BY <1>2, StartOnboardingKeeps, CreateTenantKeeps, RedeemKeeps, IssueTokensKeeps DEF Onboarding
<1>3. ASSUME NEW s \in Session, Subscription(s) PROVE Inv'
  BY <1>3, StartSubscriptionKeeps, SubscribeKeeps, RecordKeeps, CommitTenantKeeps, ErrorKeeps,
     CancelKeeps, CrashKeeps DEF Subscription
<1>4. ASSUME NEW s \in Session, Webhook(s) PROVE Inv'
  BY <1>4, StartWebhookKeeps, VerifyPaymentKeeps, UnsubscribeKeeps DEF Webhook
<1>5. ASSUME NEW s \in Session, Branches(s) PROVE Inv'
  BY <1>5, CreateBranchKeeps, StartUpdateBranchKeeps, UnmarkOthersKeeps, MarkBranchKeeps,
     StartDeleteBranchKeeps, EraseBranchKeeps DEF Branches
<1> QED
  BY <1>1, <1>2, <1>3, <1>4, <1>5, DeleteTenantKeeps, PayKeeps, LeaveKeeps, EndPeriodKeeps DEF Next

(* The invariant is more than what is promised. *)
LEMMA BackedByInv == Inv => TenantsBacked
<1> SUFFICES ASSUME Inv PROVE EndedIsUnsubscribed
  BY DEF Inv, Shared, TenantsBacked
<1> QED
  BY DEF Inv, Shared, Ended, EndedIsUnsubscribed, Going

(* Whatever fails, crashes or is told twice: what lives at Stripe has its      *)
(* payment and its tenant here, or a request that still works on it; a tenant *)
(* whose subscriptions ended, as it was told, is not subscribed; and a tenant *)
(* that pays nothing has spent a code, which backs nobody else.              *)
THEOREM TenantsAlwaysBacked == Spec => []TenantsBacked
<1> USE TenancyAssumption
<1>1. Init => Inv
  BY InitInv
<1>2. Inv /\ [Next]_vars => Inv'
  BY StepKeeps
<1>3. Inv => TenantsBacked
  BY BackedByInv
<1> QED
  BY <1>1, <1>2, <1>3, PTL DEF Spec

(* The tables stay well typed, and the webhook is told of subscriptions only. *)
THEOREM TenancyTypeCorrect == Spec => []TypeOK
<1> USE TenancyAssumption
<1>1. Init => Inv
  BY InitInv
<1>2. Inv /\ [Next]_vars => Inv'
  BY StepKeeps
<1>3. Inv => TypeOK
  BY DEF Inv, Shared, Tables, Said, TypeOK
<1> QED
  BY <1>1, <1>2, <1>3, PTL DEF Spec

-----------------------------------------------------------------------------
(* The main branch.                                                         *)

(* A row is a main branch of a tenant. *)
Main(row, t) == row # Absent /\ row.tenant = t /\ row.main

(* What a request knows of branches. *)
Placed(s) ==
  LET j == job[s]  m == mine[s] IN
  /\ Building(s) /\ j.name # Absent /\ at[s] \notin {"tokens", "cancel"} => ~Exists(T(j.tenant))
  /\ Building(s) /\ j.name = Absent /\ at[s] = "commit" => Exists(T(j.tenant))
  /\ \A b \in Branch \cap DOMAIN m :
       /\ m[b].tenant = j.tenant
       /\ Building(s) => ~Exists(b)
       /\ ~Building(s) => Exists(b) /\ db[b].tenant = j.tenant
  /\ at[s] \in {"unmark", "mark"} =>
       /\ j.tenant \in Uuid
       /\ \A b \in {j.branch} \cup j.others : Exists(b) => db[b].tenant = j.tenant
  /\ at[s] = "mark" => \A b \in DOMAIN m : ~m[b].main

(* What it knows of them when nothing comes between. *)
Calmly(s) ==
  LET b == job[s].branch IN
  /\ at[s] = "erase" /\ Exists(b) => ~db[b].main
  /\ at[s] \in {"unmark", "mark"} => Exists(b)
  /\ at[s] = "commit" /\ ~Building(s) /\ job[s].main => b \in DOMAIN mine[s] /\ mine[s][b].main

(* A branch is of a tenant that is there. *)
Rooted == \A b \in Branch : Exists(b) => Exists(T(db[b].tenant))

(* What is committed has one main branch for a tenant. *)
OneMain == \A t \in Uuid, b, c \in Branch : Main(db[b], t) /\ Main(db[c], t) => b = c

(* A branch that a request makes is none that another one is about. *)
Slots ==
  \A s, t \in Session : s # t /\ Building(s) /\ at[t] # "idle" =>
    \A b \in Branch \cap DOMAIN mine[s] : b \notin {job[t].branch} \cup job[t].others

(* Who has marked a main branch sees no other one, and nobody else changes a   *)
(* mark of that tenant.                                                      *)
OpenMain ==
  \A s \in Session : \A b \in Branch \cap DOMAIN mine[s] : mine[s][b].main =>
    /\ \A c \in Branch \ {b} : ~Main(Sees(s, c), mine[s][b].tenant)
    /\ \A v \in Session \ {s} : \A c \in Branch \cap DOMAIN mine[v] :
         ~Main(mine[v][c], mine[s][b].tenant) /\ ~Main(db[c], mine[s][b].tenant)

(* As long as requests come one at a time, all but one are idle. *)
InTurn == calm => \A s, t \in Session : s = t \/ at[s] = "idle" \/ at[t] = "idle"

(* The invariant of the main branch. *)
MInv ==
  /\ Rooted /\ OneMain /\ Slots /\ OpenMain /\ InTurn
  /\ \A s \in Session : Placed(s) /\ (calm => Calmly(s))

(* At first there are no branches. *)
LEMMA InitMInv == TenancyConstants /\ Init => MInv
<1> SUFFICES ASSUME TenancyConstants, Init PROVE MInv
  OBVIOUS
<1>1. \A b \in Branch : db[b] = Absent
  BY Keys DEF Init
<1>2. \A s \in Session : at[s] = "idle" /\ DOMAIN mine[s] = {}
  BY DEF Init, RequestsInit, Unwritten
<1>3. Rooted /\ OneMain
  BY <1>1 DEF Rooted, OneMain, Main, Exists
<1>4. Slots /\ OpenMain /\ InTurn
  BY <1>2 DEF Slots, OpenMain, InTurn
<1>5. \A s \in Session : Placed(s) /\ Calmly(s)
  BY <1>2 DEF Placed, Calmly, Building
<1> QED
  BY <1>3, <1>4, <1>5 DEF MInv

(* In calm, nobody but the request that moves is under way. *)
LEMMA OthersIdle ==
  ASSUME InTurn, NEW s \in Session,
         \/ at[s] # "idle" /\ calm' = calm
         \/ calm' = (calm /\ Quiet)
  PROVE  calm' => \A t \in Session \ {s} : at[t] = "idle"
BY DEF InTurn, Quiet

(* What another step leaves of what a request knows of branches. *)
LEMMA PlacedStays ==
  ASSUME NEW t \in Session, at'[t] = at[t], job'[t] = job[t], mine'[t] = mine[t], Placed(t),
         \A b \in Branch \cap DOMAIN mine[t] : db'[b] = db[b],
         at[t] \in {"unmark", "mark"} =>
           \A b \in {job[t].branch} \cup job[t].others : Exists(b)' => db'[b].tenant = job[t].tenant,
         Building(t) /\ job[t].name # Absent /\ at[t] \notin {"tokens", "cancel"} =>
           (Exists(T(job[t].tenant))' => Exists(T(job[t].tenant))),
         Building(t) /\ job[t].name = Absent /\ at[t] = "commit" =>
           (Exists(T(job[t].tenant)) => Exists(T(job[t].tenant))')
  PROVE  Placed(t)'
<1>1. Building(t)' <=> Building(t)
  BY DEF Building
<1>2. \A b \in Branch \cap DOMAIN mine[t] : Exists(b)' <=> Exists(b)
  BY DEF Exists
<1> QED
  BY <1>1, <1>2 DEF Placed

(* A step of one request, of which the parts are known. *)
LEMMA Together ==
  ASSUME MInv, NEW s \in Session, Alone(s), calm' => \A t \in Session \ {s} : at[t] = "idle",
         Rooted', OneMain', Slots', OpenMain', Placed(s)', calm' => Calmly(s)',
         \A t \in Session \ {s} : Placed(t)'
  PROVE  MInv'
<1>1. InTurn'
  BY DEF InTurn, Alone
<1>2. ASSUME NEW t \in Session \ {s}, calm' PROVE Calmly(t)'
  BY <1>2 DEF Calmly, Alone
<1> QED
  BY <1>1, <1>2 DEF MInv

(* Branches, and which tenants there are, as they were. *)
SameBranches ==
  /\ \A b \in Branch : db'[b] = db[b]
  /\ \A v \in Uuid : Exists(T(v))' <=> Exists(T(v))

(* The branches a request has written are as they were, or given up. *)
SamePending(s) ==
  \/ \A b \in Branch : b \notin DOMAIN mine'[s]
  \/ \A b \in Branch : /\ b \in DOMAIN mine'[s] <=> b \in DOMAIN mine[s]
                       /\ b \in DOMAIN mine[s] => mine'[s][b] = mine[s][b]

(* A request that goes on is about what it was about, and one that begins      *)
(* about branches that are there.                                            *)
About(s) ==
  at'[s] # "idle" =>
    \/ at[s] # "idle" /\ job'[s].branch = job[s].branch /\ job'[s].others = job[s].others
    \/ \A b \in Branch \cap ({job'[s].branch} \cup job'[s].others) : Exists(b)

(* A step of one request that has nothing to do with branches. *)
LEMMA Neutral ==
  ASSUME TenancyConstants, Inv, MInv, NEW s \in Session, Alone(s),
         calm' => \A t \in Session \ {s} : at[t] = "idle",
         SameBranches, SamePending(s), About(s),
         Building(s)' => Building(s) \/ \A b \in Branch : b \notin DOMAIN mine'[s],
         Placed(s)', calm' => Calmly(s)'
  PROVE  MInv'
<1>0. \A b \in Branch : Exists(b)' <=> Exists(b)
  BY DEF SameBranches, Exists
<1>1. Rooted'
  <2> SUFFICES ASSUME NEW b \in Branch, Exists(b)' PROVE Exists(T(db[b].tenant))'
    BY DEF Rooted
  <2>1. db'[b] = db[b] /\ db[b].tenant \in Uuid /\ Exists(T(db[b].tenant))
    BY <1>0 DEF MInv, Rooted, SameBranches, Inv, Shared, Tables, BranchRow, Exists
  <2>2. db'[T(db[b].tenant)] # Absent
    BY <2>1 DEF SameBranches, Exists
  <2> QED
    BY <2>1, <2>2 DEF Exists
<1>2. OneMain'
  BY DEF MInv, OneMain, Main, SameBranches
<1>3. Slots'
  <2> SUFFICES ASSUME NEW v \in Session, NEW t \in Session, v # t, Building(v)', at'[t] # "idle",
                      NEW b \in Branch \cap DOMAIN mine'[v]
               PROVE  b \notin {job'[t].branch} \cup job'[t].others
    BY DEF Slots
  <2>1. CASE v = s
    <3>1. Building(s) /\ b \in DOMAIN mine[s]
      BY <2>1 DEF SamePending
    <3>2. at'[t] = at[t] /\ job'[t] = job[t]
      BY <2>1 DEF Alone
    <3> QED
      BY <2>1, <3>1, <3>2 DEF MInv, Slots
  <2>2. CASE v # s
    <3>1. Building(v) /\ b \in DOMAIN mine[v] /\ ~Exists(b)
      BY <2>2 DEF Alone, Building, MInv, Placed
    <3>2. CASE t = s
      <4>1. CASE at[s] # "idle" /\ job'[s].branch = job[s].branch /\ job'[s].others = job[s].others
        BY <2>2, <3>1, <3>2, <4>1 DEF MInv, Slots
      <4>2. CASE \A c \in Branch \cap ({job'[s].branch} \cup job'[s].others) : Exists(c)
        BY <3>1, <3>2, <4>2
      <4> QED
        BY <3>2, <4>1, <4>2 DEF About
    <3>3. CASE t # s
      BY <3>1, <3>3 DEF MInv, Slots, Alone
    <3> QED
      BY <3>2, <3>3
  <2> QED
    BY <2>1, <2>2
<1>4. OpenMain'
  <2> SUFFICES ASSUME NEW a \in Session, NEW b \in Branch \cap DOMAIN mine'[a], mine'[a][b].main
               PROVE  /\ \A c \in Branch \ {b} : ~Main(Sees(a, c), mine[a][b].tenant)'
                      /\ \A v \in Session \ {a} : \A c \in Branch \cap DOMAIN mine'[v] :
                           /\ ~Main(mine'[v][c], mine'[a][b].tenant)
                           /\ ~Main(db'[c], mine'[a][b].tenant)
    BY DEF OpenMain, Main
  <2>1. /\ \A c \in Branch : /\ c \in DOMAIN mine'[a] <=> c \in DOMAIN mine[a]
                             /\ c \in DOMAIN mine[a] => mine'[a][c] = mine[a][c]
    BY DEF SamePending, Alone
  <2>2. b \in DOMAIN mine[a] /\ mine[a][b] = mine'[a][b] /\ mine[a][b].main
    BY <2>1
  <2>3. \A c \in Branch : Sees(a, c)' = Sees(a, c)
    BY <2>1 DEF Sees, SameBranches
  <2>4. \A v \in Session \ {a} : \A c \in Branch \cap DOMAIN mine'[v] :
          c \in DOMAIN mine[v] /\ mine'[v][c] = mine[v][c]
    BY DEF SamePending, Alone
  <2> QED
    BY <2>2, <2>3, <2>4 DEF MInv, OpenMain, Main, SameBranches
<1>5. ASSUME NEW t \in Session \ {s} PROVE Placed(t)'
  <2>1. at'[t] = at[t] /\ job'[t] = job[t] /\ mine'[t] = mine[t] /\ Placed(t)
    BY DEF Alone, MInv
  <2>2. Building(t) => job[t].tenant \in Uuid
    BY DEF Inv, Request, Knows
  <2>3. at[t] \in {"unmark", "mark"} => job[t].branch \in Branch /\ job[t].others \subseteq Branch
    BY DEF Inv, Request, Knows, JobRow
  <2>4. \A b \in Branch \cap DOMAIN mine[t] : db'[b] = db[b]
    BY DEF SameBranches
  <2>5. at[t] \in {"unmark", "mark"} =>
          \A b \in {job[t].branch} \cup job[t].others : Exists(b)' => db'[b].tenant = job[t].tenant
    BY <1>0, <2>1, <2>3 DEF SameBranches, Placed
  <2>6. Building(t) => (Exists(T(job[t].tenant))' <=> Exists(T(job[t].tenant)))
    BY <2>1, <2>2 DEF SameBranches, Exists
  <2> QED
    BY <2>1, <2>4, <2>5, <2>6, PlacedStays
<1> QED
  BY <1>1, <1>2, <1>3, <1>4, <1>5, Together

(* A request that is idle has written nothing. *)
LEMMA IdleHoldsNothing ==
  ASSUME Inv, NEW s \in Session,
         at[s] \in {"idle", "tenant", "tokens", "cancel", "verify", "unsubscribe", "unmark", "erase"}
  PROVE  DOMAIN mine[s] = {}
BY DEF Inv, Request, Holds, Step

(* A request begins, about branches that are there. *)
LEMMA BeginsAbout ==
  ASSUME TenancyConstants, Inv, MInv, NEW s \in Session, NEW l \in Step, NEW j, Begin(s, l, j),
         \A b \in Branch \cap ({j.branch} \cup j.others) : Exists(b),
         l = "tenant" => ~Exists(T(j.tenant)),
         l = "subscribe" => j.name = Absent,
         l \in {"tenant", "subscribe", "verify", "unsubscribe", "unmark", "mark", "erase"},
         l \in {"unmark", "mark"} =>
           /\ j.tenant \in Uuid /\ j.branch \in Branch
           /\ \A b \in {j.branch} \cup j.others : Exists(b) => db[b].tenant = j.tenant,
         l = "erase" /\ Exists(j.branch) => ~db[j.branch].main
  PROVE  MInv'
<1>1. /\ at' \in [Session -> Step] /\ DOMAIN job' = Session
      /\ at'[s] = l /\ job'[s] = j
      /\ \A t \in Session \ {s} : at'[t] = at[t] /\ job'[t] = job[t]
  BY Goes DEF Inv, Begin
<1>2. mine' = mine /\ db' = db /\ at[s] = "idle" /\ DOMAIN mine[s] = {} /\ Alone(s)
  BY <1>1, IdleHoldsNothing DEF Begin, Alone
<1>3. \A r : Exists(r)' <=> Exists(r)
  BY <1>2 DEF Exists
<1>4. calm' => \A t \in Session \ {s} : at[t] = "idle"
  BY OthersIdle DEF MInv, Begin
<1>5. SameBranches /\ SamePending(s) /\ About(s)
  BY <1>1, <1>2, <1>3 DEF SameBranches, SamePending, About
<1>6. Placed(s)'
  BY <1>1, <1>2, <1>3 DEF Placed, Building
<1>7. Calmly(s)'
  <2>1. Exists(job[s].branch)' <=> db[j.branch] # Absent
    BY <1>1, <1>2 DEF Exists
  <2> QED
    BY <1>1, <1>2, <2>1 DEF Calmly, Building, Exists
<1> QED
  BY <1>2, <1>4, <1>5, <1>6, <1>7, Neutral

(* Who begins is about branches that are there, or about none. *)
LEMMA StartOnboardingMain ==
  ASSUME TenancyConstants, Inv, MInv, NEW s \in Session, StartOnboarding(s)
  PROVE  MInv'
<1> PICK u \in Fresh, n \in Name, k \in Code \cup {Absent} :
      Begin(s, "tenant", [Blank EXCEPT !.tenant = u, !.pay = u, !.name = n, !.code = k])
  BY DEF StartOnboarding
<1> DEFINE j == [Blank EXCEPT !.tenant = u, !.pay = u, !.name = n, !.code = k]
<1>1. j.tenant = u /\ j.branch = Absent /\ j.others = {} /\ ~Exists(T(u))
  BY DEF Blank, Fresh
<1>2. \A b \in Branch \cap ({j.branch} \cup j.others) : Exists(b)
  BY <1>1, Present
<1>3. Begin(s, "tenant", j) /\ "tenant" \in Step
  BY DEF Step
<1> HIDE DEF j
<1> QED
  BY <1>1, <1>2, <1>3, BeginsAbout

(* A new subscription is about no branch. *)
LEMMA StartSubscriptionMain ==
  ASSUME TenancyConstants, Inv, MInv, NEW s \in Session, StartSubscription(s)
  PROVE  MInv'
<1> PICK u \in Fresh, t \in Uuid : Begin(s, "subscribe", [Blank EXCEPT !.tenant = t, !.pay = u])
  BY DEF StartSubscription
<1> DEFINE j == [Blank EXCEPT !.tenant = t, !.pay = u]
<1>1. j.branch = Absent /\ j.others = {} /\ j.name = Absent
  BY DEF Blank
<1>2. \A b \in Branch \cap ({j.branch} \cup j.others) : Exists(b)
  BY <1>1, Present
<1>3. Begin(s, "subscribe", j) /\ "subscribe" \in Step
  BY DEF Step
<1> HIDE DEF j
<1> QED
  BY <1>1, <1>2, <1>3, BeginsAbout

(* Nor is the webhook. *)
LEMMA StartWebhookMain ==
  ASSUME TenancyConstants, Inv, MInv, NEW s \in Session, StartWebhook(s)
  PROVE  MInv'
<1> PICK e \in sent :
      Begin(s, IF e.type = "paid" THEN "verify" ELSE "unsubscribe",
            [Blank EXCEPT !.pay = e.pay, !.name = e.type, !.tenant = stripe[e.pay].tenant])
  BY DEF StartWebhook
<1> DEFINE j == [Blank EXCEPT !.pay = e.pay, !.name = e.type, !.tenant = stripe[e.pay].tenant]
           l == IF e.type = "paid" THEN "verify" ELSE "unsubscribe"
<1>1. j.branch = Absent /\ j.others = {}
  BY DEF Blank
<1>2. \A b \in Branch \cap ({j.branch} \cup j.others) : Exists(b)
  BY <1>1, Present
<1>3. Begin(s, l, j) /\ l \in Step /\ l \in {"verify", "unsubscribe"}
  BY DEF Step
<1> HIDE DEF j, l
<1> QED
  BY <1>2, <1>3, BeginsAbout

(* An update is about a branch that is there and the main ones it sees. *)
LEMMA StartUpdateBranchMain ==
  ASSUME TenancyConstants, Inv, MInv, NEW s \in Session, StartUpdateBranch(s)
  PROVE  MInv'
<1> PICK b \in Branch, m \in BOOLEAN :
       /\ Exists(b)
       /\ Begin(s, IF m THEN "unmark" ELSE "mark",
                [Blank EXCEPT !.tenant = db[b].tenant, !.branch = b, !.main = m,
                              !.others = IF m THEN Mains(db[b].tenant) \ {b} ELSE {}])
  BY DEF StartUpdateBranch
<1> DEFINE j == [Blank EXCEPT !.tenant = db[b].tenant, !.branch = b, !.main = m,
                              !.others = IF m THEN Mains(db[b].tenant) \ {b} ELSE {}]
           l == IF m THEN "unmark" ELSE "mark"
<1>1. db[b].tenant \in Uuid /\ j.tenant = db[b].tenant /\ j.branch = b /\ j.others \subseteq Mains(db[b].tenant)
  BY DEF Blank, Inv, Shared, Tables, BranchRow, Exists
<1>2. /\ \A c \in Branch \cap ({j.branch} \cup j.others) : Exists(c)
      /\ \A c \in {j.branch} \cup j.others : Exists(c) => db[c].tenant = j.tenant
  BY <1>1 DEF Mains
<1>3. Begin(s, l, j) /\ l \in Step /\ l \in {"unmark", "mark"}
  BY DEF Step
<1> HIDE DEF j, l
<1> QED
  BY <1>1, <1>2, <1>3, BeginsAbout

(* A deletion is about a branch that is not the main one. *)
LEMMA StartDeleteBranchMain ==
  ASSUME TenancyConstants, Inv, MInv, NEW s \in Session, StartDeleteBranch(s)
  PROVE  MInv'
<1> PICK b \in Branch :
       /\ Exists(b) /\ ~db[b].main
       /\ Begin(s, "erase", [Blank EXCEPT !.tenant = db[b].tenant, !.branch = b])
  BY DEF StartDeleteBranch
<1> DEFINE j == [Blank EXCEPT !.tenant = db[b].tenant, !.branch = b]
<1>1. j.branch = b /\ j.others = {}
  BY DEF Blank
<1>3. Begin(s, "erase", j) /\ "erase" \in Step
  BY DEF Step
<1> HIDE DEF j
<1> QED
  BY <1>1, <1>3, BeginsAbout

(* A request ends, and branches are as they were. *)
LEMMA EndsAbout ==
  ASSUME TenancyConstants, Inv, MInv, NEW s \in Session, Alone(s), SameBranches, at[s] # "idle", calm' = calm,
         at'[s] = "idle", DOMAIN mine'[s] = {}
  PROVE  MInv'
<1>1. calm' => \A t \in Session \ {s} : at[t] = "idle"
  BY OthersIdle DEF MInv
<1>2. Placed(s)' /\ Calmly(s)' /\ ~Building(s)' /\ SamePending(s) /\ About(s)
  BY DEF Placed, Calmly, Building, SamePending, About
<1> QED
  BY <1>1, <1>2, Neutral

(* A rollback leaves the branches as they were. *)
LEMMA RollbackMain ==
  ASSUME TenancyConstants, Inv, MInv, NEW s \in Session, Rollback(s), at[s] # "idle"
  PROVE  MInv'
<1>1. /\ at' \in [Session -> Step] /\ DOMAIN job' = Session
      /\ at'[s] = "idle" /\ job'[s] = NoJob
      /\ \A t \in Session \ {s} : at'[t] = at[t] /\ job'[t] = job[t]
  BY Goes DEF Inv, Rollback, Step
<1>2. Alone(s) /\ DOMAIN mine'[s] = {} /\ db' = db
  BY <1>1 DEF Alone, Rollback, Inv, Requests, Unwritten
<1>3. SameBranches
  BY <1>2 DEF SameBranches, Exists
<1> QED
  BY <1>1, <1>2, <1>3, EndsAbout DEF Rollback

(* So does a request that gives up. *)
LEMMA GiveUpMain ==
  ASSUME TenancyConstants, Inv, MInv, NEW s \in Session, GiveUp(s), at[s] \notin {"idle", "cancel"}
  PROVE  MInv'
<1>1. CASE ~job[s].made
  BY <1>1, RollbackMain DEF GiveUp, Rollback
<1>2. CASE job[s].made
  <2>1. /\ at' \in [Session -> Step] /\ DOMAIN job' = Session
        /\ at'[s] = "cancel" /\ job'[s] = job[s]
        /\ \A t \in Session \ {s} : at'[t] = at[t] /\ job'[t] = job[t]
    <3>1. Goto(s, "cancel", job[s]) /\ "cancel" \in Step
      BY <1>2 DEF GiveUp, Step
    <3> QED
      BY <3>1, Goes DEF Inv
  <2>2. Alone(s) /\ DOMAIN mine'[s] = {} /\ db' = db /\ calm' = calm
    BY <2>1 DEF Alone, GiveUp, Inv, Requests, Unwritten
  <2>3. SameBranches /\ SamePending(s) /\ About(s)
    BY <2>1, <2>2 DEF SameBranches, Exists, SamePending, About
  <2>4. Placed(s)' /\ Calmly(s)'
    BY <2>1, <2>2 DEF Placed, Calmly, Building
  <2>5. calm' => \A t \in Session \ {s} : at[t] = "idle"
    BY <2>2, OthersIdle DEF MInv
  <2> QED
    BY <2>2, <2>3, <2>4, <2>5, Neutral
<1> QED
  BY <1>1, <1>2

(* A payment is no branch. *)
LEMMA VerifyPaymentMain ==
  ASSUME TenancyConstants, Inv, MInv, NEW s \in Session, VerifyPayment(s)
  PROVE  MInv'
<1> DEFINE u == job[s].pay  row == [db[P(u)] EXCEPT !.verified = TRUE]
<1>0. at[s] = "verify"
  BY DEF VerifyPayment
<1>1. u \in Uuid /\ DOMAIN mine[s] = {}
  BY <1>0, Hears
<1>2. CASE Rollback(s)
  BY <1>0, <1>2, RollbackMain
<1>3. CASE Apply(s, [r \in {P(u)} |-> row], "idle", NoJob)
  <2>1. P(u) \in Row
    BY <1>1, Keys
  <2>2. \A x \in Row \ {P(u)} : db'[x] = db[x]
    BY <1>1, <1>3, <2>1, Applies
  <2>3. Alone(s)
    BY <1>1, <1>3, <2>1, Applies
  <2>4. SameBranches
    BY <1>1, <2>2, Keys DEF SameBranches, Exists
  <2>5. at'[s] = "idle" /\ DOMAIN mine'[s] = {} /\ calm' = calm
    BY <1>1, <1>3 DEF Apply, Goto, Inv, Requests
  <2> QED
    BY <1>0, <2>3, <2>4, <2>5, EndsAbout
<1> QED
  BY <1>2, <1>3 DEF VerifyPayment

(* A tenant that is unsubscribed is still there. *)
LEMMA UnsubscribeMain ==
  ASSUME TenancyConstants, Inv, MInv, NEW s \in Session, Unsubscribe(s)
  PROVE  MInv'
<1> DEFINE t == job[s].tenant  row == [db[T(t)] EXCEPT !.subscribed = FALSE]
<1>0. at[s] = "unsubscribe"
  BY DEF Unsubscribe
<1>1. t \in Uuid /\ DOMAIN mine[s] = {}
  BY <1>0, Hears
<1>2. CASE Rollback(s)
  BY <1>0, <1>2, RollbackMain
<1>3. ASSUME Exists(T(t)), Apply(s, [r \in {T(t)} |-> row], "idle", NoJob)
      PROVE  MInv'
  <2>1. T(t) \in Row /\ row \in TenantRow
    <3>1. db[T(t)] \in TenantRow
      BY <1>1, <1>3 DEF Inv, Shared, Tables, Exists
    <3> QED
      BY <1>1, <3>1, Keys DEF TenantRow
  <2> HIDE DEF row
  <2>2. db'[T(t)] = row /\ \A x \in Row \ {T(t)} : db'[x] = db[x]
    BY <1>1, <1>3, <2>1, Applies
  <2>3. Alone(s)
    BY <1>1, <1>3, <2>1, Applies
  <2>4. SameBranches
    <3>1. \A b \in Branch : db'[b] = db[b]
      BY <1>1, <2>2, Keys
    <3>2. \A v \in Uuid : db'[T(v)] # Absent <=> db[T(v)] # Absent
      BY <1>1, <1>3, <2>1, <2>2, Keys, Present DEF Exists
    <3> QED
      BY <3>1, <3>2 DEF SameBranches, Exists
  <2>5. at'[s] = "idle" /\ DOMAIN mine'[s] = {} /\ calm' = calm
    BY <1>1, <1>3 DEF Apply, Goto, Inv, Requests
  <2> QED
    BY <1>0, <2>3, <2>4, <2>5, EndsAbout
<1> QED
  BY <1>2, <1>3 DEF Unsubscribe

(* A request goes on making a payment, and writes no branch. *)
LEMMA BuildsAbout ==
  ASSUME TenancyConstants, Inv, MInv, NEW s \in Session, Alone(s), db' = db, calm' = calm,
         at[s] \in {"redeem", "subscribe", "record"}, at'[s] \in {"record", "commit"},
         job'[s].tenant = job[s].tenant, job'[s].name = job[s].name, job'[s].pay = job[s].pay,
         job'[s].branch = job[s].branch, job'[s].others = job[s].others,
         \A b \in Branch : /\ b \in DOMAIN mine'[s] <=> b \in DOMAIN mine[s]
                           /\ b \in DOMAIN mine[s] => mine'[s][b] = mine[s][b],
         at'[s] = "commit" /\ job[s].name = Absent => Exists(T(job[s].tenant))
  PROVE  MInv'
<1>1. Building(s) /\ job[s].pay \in Uuid
  BY Builds
<1>2. Building(s)'
  BY <1>1, Present DEF Building
<1>3. \A r : Exists(r)' <=> Exists(r)
  BY DEF Exists
<1>4. Exists(T(job[s].tenant))' <=> Exists(T(job[s].tenant))
  BY DEF Exists
<1>5. Placed(s)'
  BY <1>1, <1>2, <1>3, <1>4 DEF Placed, MInv
<1>6. Calmly(s)'
  BY <1>2 DEF Calmly
<1>7. SameBranches /\ SamePending(s) /\ About(s)
  BY <1>3 DEF SameBranches, SamePending, About
<1>8. calm' => \A t \in Session \ {s} : at[t] = "idle"
  BY OthersIdle DEF MInv
<1> QED
  BY <1>1, <1>5, <1>6, <1>7, <1>8, Neutral

(* A code that is written leaves the branches as they were. *)
LEMMA RedeemMain ==
  ASSUME TenancyConstants, Inv, MInv, NEW s \in Session, Redeem(s)
  PROVE  MInv'
<1> DEFINE j == job[s]
           new == [r \in {j.code, P(j.pay)} |-> IF r = j.code THEN j.tenant ELSE NewPayment(j)]
<1>0. at[s] = "redeem"
  BY DEF Redeem
<1>1. j.code \in Code /\ j.pay \in Uuid /\ j.name # Absent
  BY <1>0 DEF Inv, Request, Knows, JobRow, Building
<1>2. CASE Rollback(s)
  BY <1>0, <1>2, RollbackMain
<1>3. CASE Write(s, new, "commit", j)
  <2>1. DOMAIN new = {j.code, P(j.pay)} /\ \A b \in Branch : b \notin DOMAIN new
    BY <1>1, Keys
  <2>2. "commit" \in Step
    BY DEF Step
  <2> HIDE DEF new
  <2>3. /\ Alone(s) /\ at'[s] = "commit" /\ job'[s] = j /\ db' = db
        /\ DOMAIN mine'[s] = DOMAIN new \cup DOMAIN mine[s]
        /\ \A r \in DOMAIN mine'[s] : mine'[s][r] = IF r \in DOMAIN new THEN new[r] ELSE mine[s][r]
    BY <1>3, <2>2, Writing
  <2>4. calm' = calm
    BY <1>3 DEF Write
  <2> QED
    BY <1>0, <1>1, <2>1, <2>3, <2>4, BuildsAbout
<1> QED
  BY <1>2, <1>3 DEF Redeem

(* So does a payment that is written. *)
LEMMA RecordMain ==
  ASSUME TenancyConstants, Inv, MInv, NEW s \in Session, Record(s)
  PROVE  MInv'
<1> DEFINE j == job[s]  t == T(j.tenant)
           row == [Enabled(Sees(s, t)) EXCEPT !.customer = TRUE]
           new == [r \in {t, P(j.pay)} |-> IF r = t THEN row ELSE NewPayment(j)]
<1>0. at[s] = "record"
  BY DEF Record
<1>1. j.tenant \in Uuid /\ j.pay \in Uuid
  BY <1>0, Builds
<1>2. CASE GiveUp(s)
  BY <1>0, <1>2, GiveUpMain
<1>3. ASSUME Sees(s, t) # Absent, Write(s, new, "commit", j) PROVE MInv'
  <2>1. DOMAIN new = {t, P(j.pay)} /\ \A b \in Branch : b \notin DOMAIN new
    BY <1>1, Keys
  <2>2. "commit" \in Step
    BY DEF Step
  <2>3. j.name = Absent => Exists(t)
    BY <1>0, <1>3 DEF Inv, Request, Holds, Sees, Exists
  <2> HIDE DEF new
  <2>4. /\ Alone(s) /\ at'[s] = "commit" /\ job'[s] = j /\ db' = db
        /\ DOMAIN mine'[s] = DOMAIN new \cup DOMAIN mine[s]
        /\ \A r \in DOMAIN mine'[s] : mine'[s][r] = IF r \in DOMAIN new THEN new[r] ELSE mine[s][r]
    BY <1>3, <2>2, Writing
  <2>5. calm' = calm
    BY <1>3 DEF Write
  <2> QED
    BY <1>0, <1>1, <2>1, <2>3, <2>4, <2>5, BuildsAbout
<1> QED
  BY <1>2, <1>3 DEF Record

(* So does a subscription at Stripe. *)
LEMMA SubscribeMain ==
  ASSUME TenancyConstants, Inv, MInv, NEW s \in Session, Subscribe(s)
  PROVE  MInv'
<1> DEFINE j == job[s]  made == [j EXCEPT !.made = TRUE]
<1>0. at[s] = "subscribe" /\ Look(s, "record", made)
  BY DEF Subscribe
<1>1. j \in JobRow
  BY <1>0, Builds
<1>2. /\ made.pay = j.pay /\ made.tenant = j.tenant /\ made.name = j.name
      /\ made.branch = j.branch /\ made.others = j.others
  BY <1>1 DEF JobRow
<1> HIDE DEF made
<1>3. /\ at'[s] = "record" /\ job'[s] = made
      /\ \A t \in Session \ {s} : at'[t] = at[t] /\ job'[t] = job[t]
  <2>1. Goto(s, "record", made) /\ "record" \in Step
    BY <1>0 DEF Look, Step
  <2> QED
    BY <2>1, Goes DEF Inv
<1>4. Alone(s) /\ db' = db /\ mine' = mine /\ calm' = calm
  BY <1>0, <1>3 DEF Alone, Look
<1> QED
  BY <1>0, <1>2, <1>3, <1>4, BuildsAbout

(* Nobody else writes rows about a tenant that is not there yet. *)
LEMMA NewTenantsBranches ==
  ASSUME TenancyConstants, Inv, MInv, NEW s \in Session, Building(s), job[s].name # Absent,
         at[s] \notin {"tokens", "cancel"}
  PROVE  /\ \A b \in Branch : ~Main(db[b], job[s].tenant)
         /\ \A v \in Session \ {s} : \A b \in Branch \cap DOMAIN mine[v] : ~Main(mine[v][b], job[s].tenant)
<1>1. ~Exists(T(job[s].tenant)) /\ job[s].tenant = job[s].pay
  BY DEF MInv, Placed, Inv, Request, Knows
<1>2. \A b \in Branch : ~Main(db[b], job[s].tenant)
  BY <1>1 DEF Main, MInv, Rooted, Exists
<1>3. ASSUME NEW v \in Session \ {s}, NEW b \in Branch \cap DOMAIN mine[v], Main(mine[v][b], job[s].tenant)
      PROVE  FALSE
  <2>1. mine[v][b].tenant = job[s].tenant
    BY <1>3 DEF Main
  <2>2. CASE ~Building(v)
    <3>1. Exists(b) /\ db[b].tenant = job[s].tenant
      BY <2>1, <2>2 DEF MInv, Placed
    <3>2. Exists(T(db[b].tenant))
      BY <3>1 DEF MInv, Rooted
    <3> QED
      BY <1>1, <3>1, <3>2
  <2>3. CASE Building(v)
    <3>1. job[v].name # Absent /\ job[v].tenant = job[s].tenant
      <4>1. job[v].tenant = job[s].tenant
        BY <2>1, <2>3 DEF MInv, Placed
      <4>2. at[v] \in {"redeem", "subscribe", "record", "commit"}
        BY IdleHoldsNothing, <2>3 DEF Building
      <4>3. CASE at[v] # "commit" /\ job[v].name = Absent
        BY <4>2, <4>3 DEF Inv, Request, Holds
      <4>4. CASE at[v] = "commit" /\ job[v].name = Absent
        <5>1. Exists(T(job[v].tenant))
          BY <2>3, <4>4 DEF MInv, Placed
        <5> QED
          BY <1>1, <4>1, <5>1
      <4> QED
        BY <4>1, <4>2, <4>3, <4>4
    <3>2. job[v].tenant = job[v].pay
      BY <2>3, <3>1 DEF Inv, Request, Knows
    <3> QED
      BY <1>1, <2>3, <3>1, <3>2 DEF Inv, Apart
  <2> QED
    BY <2>2, <2>3
<1> QED
  BY <1>2, <1>3

(* What is committed of branches stays so while requests write. *)
LEMMA WritesAbout ==
  ASSUME TenancyConstants, Inv, MInv, NEW s \in Session, Alone(s), db' = db, calm' = calm,
         at[s] # "idle", job'[s] = job[s], Placed(s)', calm' => Calmly(s)',
         \A b \in Branch \cap DOMAIN mine'[s] : mine'[s][b].main =>
           /\ \A c \in Branch \ {b} : ~Main(Sees(s, c)', mine'[s][b].tenant)
           /\ \A v \in Session \ {s} : \A c \in Branch \cap DOMAIN mine[v] :
                ~Main(mine[v][c], mine'[s][b].tenant) /\ ~Main(db[c], mine'[s][b].tenant),
         \A a \in Session \ {s} : \A b \in Branch \cap DOMAIN mine[a] : mine[a][b].main =>
           \A c \in Branch \cap DOMAIN mine'[s] :
             ~Main(mine'[s][c], mine[a][b].tenant) /\ ~Main(db[c], mine[a][b].tenant),
         Building(s)' => \A b \in Branch \cap DOMAIN mine'[s], t \in Session \ {s} :
           at[t] # "idle" => b \notin {job[t].branch} \cup job[t].others
  PROVE  MInv'
<1>1. \A r : Exists(r)' <=> Exists(r)
  BY DEF Exists
<1>2. Rooted'
  <2> SUFFICES ASSUME NEW b \in Branch, Exists(b)' PROVE Exists(T(db[b].tenant))'
    BY DEF Rooted
  <2>1. Exists(T(db[b].tenant))' <=> Exists(T(db[b].tenant))
    BY DEF Exists
  <2> QED
    BY <1>1, <2>1 DEF MInv, Rooted
<1>3. OneMain'
  BY DEF MInv, OneMain, Main
<1>4. Slots'
  <2> SUFFICES ASSUME NEW v \in Session, NEW t \in Session, v # t, Building(v)', at'[t] # "idle",
                      NEW b \in Branch \cap DOMAIN mine'[v]
               PROVE  b \notin {job'[t].branch} \cup job'[t].others
    BY DEF Slots
  <2>1. CASE v = s
    BY <2>1 DEF Alone
  <2>2. CASE v # s
    <3>1. Building(v) /\ b \in DOMAIN mine[v]
      BY <2>2 DEF Alone, Building
    <3>2. at[t] # "idle" /\ job'[t] = job[t]
      BY DEF Alone
    <3> QED
      BY <3>1, <3>2 DEF MInv, Slots
  <2> QED
    BY <2>1, <2>2
<1>5. OpenMain'
  <2> SUFFICES ASSUME NEW a \in Session, NEW b \in Branch \cap DOMAIN mine'[a], mine'[a][b].main
               PROVE  /\ \A c \in Branch \ {b} : ~Main(Sees(a, c)', mine'[a][b].tenant)
                      /\ \A v \in Session \ {a} : \A c \in Branch \cap DOMAIN mine'[v] :
                           /\ ~Main(mine'[v][c], mine'[a][b].tenant)
                           /\ ~Main(db'[c], mine'[a][b].tenant)
    BY DEF OpenMain, Main
  <2>1. CASE a = s
    BY <2>1 DEF Alone
  <2>2. CASE a # s
    <3>1. mine'[a] = mine[a]
      BY <2>2 DEF Alone
    <3>2. \A c \in Branch : Sees(a, c)' = Sees(a, c)
      BY <3>1 DEF Sees
    <3>3. \A c \in Branch \ {b} : ~Main(Sees(a, c)', mine'[a][b].tenant)
      BY <3>1, <3>2 DEF MInv, OpenMain
    <3>4. ASSUME NEW v \in Session \ {a}, NEW c \in Branch \cap DOMAIN mine'[v]
          PROVE  ~Main(mine'[v][c], mine'[a][b].tenant) /\ ~Main(db'[c], mine'[a][b].tenant)
      <4>1. CASE v = s
        BY <2>2, <3>1, <4>1
      <4>2. CASE v # s
        BY <3>1, <4>2 DEF MInv, OpenMain, Alone
      <4> QED
        BY <4>1, <4>2
    <3> QED
      BY <3>3, <3>4
  <2> QED
    BY <2>1, <2>2
<1>6. ASSUME NEW t \in Session \ {s} PROVE Placed(t)'
  <2>1. at'[t] = at[t] /\ job'[t] = job[t] /\ mine'[t] = mine[t] /\ Placed(t)
    BY DEF Alone, MInv
  <2>2. Exists(T(job[t].tenant))' <=> Exists(T(job[t].tenant))
    BY <2>1 DEF Exists
  <2>3. at[t] \in {"unmark", "mark"} =>
          \A b \in {job[t].branch} \cup job[t].others : Exists(b)' => db'[b].tenant = job[t].tenant
    BY <1>1, <2>1 DEF Placed
  <2> QED
    BY <2>1, <2>2, <2>3, PlacedStays
<1>7. calm' => \A t \in Session \ {s} : at[t] = "idle"
  BY OthersIdle DEF MInv
<1> QED
  BY <1>2, <1>3, <1>4, <1>5, <1>6, <1>7, Together

(* The branch of a new tenant is its main one, and the only one it has. *)
LEMMA CreateTenantMain ==
  ASSUME TenancyConstants, Inv, MInv, NEW s \in Session, CreateTenant(s)
  PROVE  MInv'
<1> DEFINE j == job[s]
<1>0. at[s] = "tenant" /\ Building(s) /\ DOMAIN mine[s] = {}
  BY IdleHoldsNothing DEF CreateTenant, Building
<1>1. j.tenant \in Uuid /\ j.pay \in Uuid /\ j.name # Absent
  BY <1>0 DEF Inv, Request, Knows
<1>2. CASE Rollback(s)
  BY <1>0, <1>2, RollbackMain
<1>3. CASE ~Rollback(s)
  <2> PICK b \in FreshBranch :
        Write(s, [r \in {T(j.tenant), b} |->
                    IF r = b THEN [tenant |-> j.tenant, main |-> TRUE]
                    ELSE [name |-> j.name, subscribed |-> TRUE, customer |-> FALSE]],
              IF j.code = Absent THEN "subscribe" ELSE "redeem", j)
    BY <1>3 DEF CreateTenant
  <2> DEFINE new == [r \in {T(j.tenant), b} |->
                       IF r = b THEN [tenant |-> j.tenant, main |-> TRUE]
                       ELSE [name |-> j.name, subscribed |-> TRUE, customer |-> FALSE]]
             l == IF j.code = Absent THEN "subscribe" ELSE "redeem"
  <2>1. b \in Branch /\ ~Exists(b) /\ b # T(j.tenant) /\ T(j.tenant) \notin Branch
    BY <1>1, Keys DEF FreshBranch
  <2>2. DOMAIN new = {T(j.tenant), b} /\ new[b] = [tenant |-> j.tenant, main |-> TRUE]
    OBVIOUS
  <2>3. l \in {"subscribe", "redeem"} /\ l \in Step
    BY DEF Step
  <2> HIDE DEF new, l
  <2>4. Write(s, new, l, j)
    BY DEF new, l
  <2>5. /\ Alone(s) /\ at'[s] = l /\ job'[s] = j /\ db' = db
        /\ DOMAIN mine'[s] = {T(j.tenant), b}
        /\ mine'[s][b].tenant = j.tenant /\ mine'[s][b].main
    <3>1. /\ Alone(s) /\ at'[s] = l /\ job'[s] = j /\ db' = db
          /\ DOMAIN mine'[s] = DOMAIN new \cup DOMAIN mine[s]
          /\ \A r \in DOMAIN mine'[s] : mine'[s][r] = IF r \in DOMAIN new THEN new[r] ELSE mine[s][r]
      BY <2>3, <2>4, Writing
    <3>2. mine'[s][b] = new[b] /\ DOMAIN mine'[s] = {T(j.tenant), b}
      BY <1>0, <2>2, <3>1
    <3>3. mine'[s][b] = [tenant |-> j.tenant, main |-> TRUE]
      BY <2>2, <3>2
    <3> QED
      BY <3>1, <3>2, <3>3
  <2>6. Branch \cap DOMAIN mine'[s] = {b}
    BY <2>1, <2>5
  <2>7. calm' = calm
    BY <2>4 DEF Write
  <2>8. /\ \A c \in Branch : ~Main(db[c], j.tenant)
        /\ \A v \in Session \ {s} : \A c \in Branch \cap DOMAIN mine[v] : ~Main(mine[v][c], j.tenant)
    BY <1>0, <1>1, NewTenantsBranches
  <2>9. \A c \in Branch \ {b} : ~Main(Sees(s, c)', j.tenant)
    BY <2>5, <2>6, <2>8 DEF Sees
  <2>10. ASSUME NEW a \in Session \ {s}, NEW d \in Branch \cap DOMAIN mine[a], mine[a][d].main
         PROVE  ~Main(mine'[s][b], mine[a][d].tenant) /\ ~Main(db[b], mine[a][d].tenant)
    <3>1. mine[a][d] # Absent
      BY Present DEF Inv, Request, Holds
    <3> QED
      BY <2>1, <2>5, <2>8, <2>10, <3>1 DEF Main, Exists
  <2>11. \A t \in Session : at[t] # "idle" => b \notin {job[t].branch} \cup job[t].others
    BY DEF FreshBranch
  <2>12. Building(s)'
    BY <2>3, <2>5 DEF Building
  <2>13. Placed(s)'
    <3>1. ~Exists(T(j.tenant)) /\ (Exists(T(job[s].tenant))' <=> Exists(T(j.tenant)))
      BY <1>0, <1>1, <2>5 DEF MInv, Placed, Exists
    <3>2. ~Exists(b)'
      BY <2>1, <2>5 DEF Exists
    <3> QED
      BY <1>1, <2>3, <2>5, <2>6, <2>12, <3>1, <3>2 DEF Placed
  <2>14. Calmly(s)'
    BY <2>3, <2>5 DEF Calmly
  <2> QED
    BY <1>0, <2>5, <2>6, <2>7, <2>8, <2>9, <2>10, <2>11, <2>13, <2>14, WritesAbout
<1> QED
  BY <1>2, <1>3

(* A mark that is taken away is no second one. *)
LEMMA UnmarkOthersMain ==
  ASSUME TenancyConstants, Inv, MInv, NEW s \in Session, UnmarkOthers(s)
  PROVE  MInv'
<1> DEFINE still == {b \in job[s].others : Sees(s, b) # Absent /\ Sees(s, b).main}
           new == [b \in still |-> [db[b] EXCEPT !.main = FALSE]]
<1>0. at[s] = "unmark"
  BY DEF UnmarkOthers
<1>1. /\ job[s] \in JobRow /\ DOMAIN mine[s] = {} /\ job[s].others \subseteq Branch
      /\ job[s].pay = Absent /\ Placed(s)
  BY <1>0, Edits DEF JobRow, MInv
<1>2. DOMAIN new = still /\ \A b \in still : new[b].main = FALSE /\ new[b].tenant = job[s].tenant
                       /\ b \in Branch /\ Exists(b) /\ db[b].tenant = job[s].tenant
  <2> SUFFICES ASSUME NEW b \in still
               PROVE  /\ [db[b] EXCEPT !.main = FALSE].main = FALSE
                      /\ [db[b] EXCEPT !.main = FALSE].tenant = job[s].tenant
                      /\ b \in Branch /\ Exists(b) /\ db[b].tenant = job[s].tenant
    OBVIOUS
  <2>1. b \in Branch /\ Exists(b)
    BY <1>1 DEF Sees, Exists
  <2>2. db[b].tenant = job[s].tenant
    BY <1>0, <1>1, <2>1 DEF Placed
  <2>3. db[b] \in BranchRow
    BY <2>1 DEF Inv, Shared, Tables, Exists
  <2> QED
    BY <2>1, <2>2, <2>3 DEF BranchRow
<1>3. Write(s, new, "mark", job[s]) /\ "mark" \in Step
  BY DEF UnmarkOthers, Step
<1> HIDE DEF new, still
<1>4. /\ Alone(s) /\ at'[s] = "mark" /\ job'[s] = job[s] /\ db' = db
      /\ DOMAIN mine'[s] = still /\ \A r \in still : mine'[s][r] = new[r]
  <2>1. /\ Alone(s) /\ at'[s] = "mark" /\ job'[s] = job[s] /\ db' = db
        /\ DOMAIN mine'[s] = DOMAIN new \cup DOMAIN mine[s]
        /\ \A r \in DOMAIN mine'[s] : mine'[s][r] = IF r \in DOMAIN new THEN new[r] ELSE mine[s][r]
    BY <1>3, Writing
  <2> QED
    BY <1>1, <1>2, <2>1
<1>5. calm' = calm /\ Free(s, still)
  BY <1>2, <1>3 DEF Write
<1>6. ~Building(s)'
  BY <1>1, <1>4 DEF Building
<1>7. Placed(s)'
  <2>1. \A r : Exists(r)' <=> Exists(r)
    BY <1>4 DEF Exists
  <2> QED
    BY <1>0, <1>1, <1>2, <1>4, <1>6, <2>1 DEF Placed
<1>8. calm' => Calmly(s)'
  <2>1. Exists(job[s].branch)' <=> Exists(job[s].branch)
    BY <1>4 DEF Exists
  <2> QED
    BY <1>0, <1>4, <1>5, <2>1 DEF Calmly, MInv
<1>9. ASSUME NEW a \in Session \ {s}, NEW b \in Branch \cap DOMAIN mine[a], mine[a][b].main,
             NEW c \in still
      PROVE  ~Main(mine'[s][c], mine[a][b].tenant) /\ ~Main(db[c], mine[a][b].tenant)
  <2>1. c \notin DOMAIN mine[a] /\ c # b /\ c \in Branch
    BY <1>2, <1>5 DEF Free
  <2>2. ~Main(Sees(a, c), mine[a][b].tenant)
    BY <1>9, <2>1 DEF MInv, OpenMain
  <2> QED
    BY <1>2, <1>4, <2>1, <2>2 DEF Sees, Main
<1>10. \A b \in Branch \cap DOMAIN mine'[s] : ~mine'[s][b].main
  BY <1>2, <1>4
<1> QED
  BY <1>0, <1>4, <1>5, <1>6, <1>7, <1>8, <1>9, <1>10, WritesAbout

(* Who marks a branch finds no other mark, and no change of one. *)
LEMMA MarkBranchMain ==
  ASSUME TenancyConstants, Inv, MInv, NEW s \in Session, MarkBranch(s)
  PROVE  MInv'
<1> DEFINE j == job[s]  b == j.branch
<1>0. at[s] = "mark"
  BY DEF MarkBranch
<1>1. /\ j \in JobRow /\ b \in Branch /\ DOMAIN mine[s] \subseteq Branch /\ j.pay = Absent
      /\ \A c \in DOMAIN mine[s] : mine[s][c] \in BranchRow /\ ~mine[s][c].main
      /\ ~Building(s) /\ Placed(s)
  BY <1>0, Edits DEF MInv, Placed
<1>2. ASSUME Sees(s, b) = Absent, Look(s, "commit", j) PROVE MInv'
  <2>1. /\ at'[s] = "commit" /\ job'[s] = j
        /\ \A t \in Session \ {s} : at'[t] = at[t] /\ job'[t] = job[t]
    <3>1. Goto(s, "commit", j) /\ "commit" \in Step
      BY <1>2 DEF Look, Step
    <3> QED
      BY <3>1, Goes DEF Inv
  <2>2. Alone(s) /\ mine' = mine /\ db' = db /\ calm' = calm
    BY <1>2, <2>1 DEF Alone, Look
  <2>3. \A r : Exists(r)' <=> Exists(r)
    BY <2>2 DEF Exists
  <2>4. SameBranches /\ SamePending(s) /\ About(s)
    BY <1>0, <2>1, <2>2, <2>3 DEF SameBranches, SamePending, About
  <2>5. ~Building(s)'
    BY <1>1, <2>1 DEF Building
  <2>6. Placed(s)'
    BY <1>1, <2>1, <2>2, <2>3, <2>5 DEF Placed
  <2>7. ~calm
    BY <1>0, <1>1, <1>2, Present DEF MInv, Calmly, Sees, Exists
  <2>8. calm' => \A t \in Session \ {s} : at[t] = "idle"
    BY <2>2, <2>7
  <2> QED
    BY <2>2, <2>4, <2>5, <2>6, <2>7, <2>8, Neutral
<1>3. CASE Rollback(s)
  BY <1>0, <1>3, RollbackMain
<1>4. ASSUME Sees(s, b) # Absent, Free(s, {b}), j.main => MainOpen(s, j.tenant) /\ ~MainTaken(s, j.tenant, b),
             Write(s, [r \in {b} |-> [Sees(s, b) EXCEPT !.main = j.main]], "commit", j)
      PROVE  MInv'
  <2> DEFINE row == [Sees(s, b) EXCEPT !.main = j.main]
             new == [r \in {b} |-> row]
  <2>0. Sees(s, b) \in BranchRow
    BY <1>1, <1>4 DEF Sees, Inv, Shared, Tables
  <2>1. row.tenant = j.tenant /\ row.main = j.main /\ j.main \in BOOLEAN /\ Exists(b) /\ db[b].tenant = j.tenant
    <3>1. Exists(b) /\ db[b].tenant = j.tenant /\ Sees(s, b).tenant = j.tenant
      BY <1>0, <1>1, <1>4 DEF Sees, Placed, Exists
    <3> QED
      BY <1>1, <2>0, <3>1 DEF BranchRow, JobRow
  <2>2. DOMAIN new = {b} /\ new[b] = row
    OBVIOUS
  <2> HIDE DEF new, row
  <2>3. Write(s, new, "commit", j) /\ "commit" \in Step
    BY <1>4 DEF Step, new, row
  <2>4. /\ Alone(s) /\ at'[s] = "commit" /\ job'[s] = j /\ db' = db
        /\ DOMAIN mine'[s] = {b} \cup DOMAIN mine[s] /\ mine'[s][b] = row
        /\ \A r \in DOMAIN mine[s] \ {b} : mine'[s][r] = mine[s][r]
    <3>1. /\ Alone(s) /\ at'[s] = "commit" /\ job'[s] = j /\ db' = db
          /\ DOMAIN mine'[s] = DOMAIN new \cup DOMAIN mine[s]
          /\ \A r \in DOMAIN mine'[s] : mine'[s][r] = IF r \in DOMAIN new THEN new[r] ELSE mine[s][r]
      BY <2>3, Writing
    <3> QED
      BY <2>2, <3>1
  <2>5. calm' = calm
    BY <2>3 DEF Write
  <2>6. ~Building(s)'
    BY <1>1, <2>4 DEF Building
  <2>7. Placed(s)'
    <3>1. \A r : Exists(r)' <=> Exists(r)
      BY <2>4 DEF Exists
    <3> QED
      BY <1>1, <2>1, <2>4, <2>6, <3>1 DEF Placed
  <2>8. Calmly(s)'
    BY <2>1, <2>4 DEF Calmly
(* Who marks finds no other mark, and no change of one. *)
  <2>9. ASSUME j.main, NEW v \in Session \ {s}, NEW c \in Branch \cap DOMAIN mine[v]
        PROVE  ~Main(mine[v][c], j.tenant) /\ ~Main(db[c], j.tenant)
    <3>1. c \notin DOMAIN mine[s] /\ c # b
      BY <1>4 DEF Inv, Apart, Free
    <3>2. ~Main(db[c], j.tenant)
      BY <1>4, <2>9, <3>1 DEF MainTaken, Sees, Main
    <3>3. Main(mine[v][c], j.tenant) => Main(db[c], j.tenant)
      BY <1>4, <2>9 DEF MainOpen, Main, Exists
    <3> QED
      BY <3>2, <3>3
  <2>10. ASSUME NEW d \in Branch \cap DOMAIN mine'[s], mine'[s][d].main
         PROVE  /\ \A c \in Branch \ {d} : ~Main(Sees(s, c)', mine'[s][d].tenant)
                /\ \A v \in Session \ {s} : \A c \in Branch \cap DOMAIN mine[v] :
                     ~Main(mine[v][c], mine'[s][d].tenant) /\ ~Main(db[c], mine'[s][d].tenant)
    <3>1. d = b
      BY <1>1, <2>4, <2>10
    <3>2. j.main /\ mine'[s][d].tenant = j.tenant
      BY <2>1, <2>4, <2>10, <3>1
    <3>3. ASSUME NEW c \in Branch \ {d} PROVE ~Main(Sees(s, c)', j.tenant)
      <4>1. Sees(s, c)' = Sees(s, c)
        BY <2>4, <3>1 DEF Sees
      <4>2. ~Main(Sees(s, c), j.tenant)
        BY <1>4, <3>1, <3>2 DEF MainTaken, Main
      <4> QED
        BY <4>1, <4>2
    <3> QED
      BY <2>9, <3>2, <3>3
  <2>11. ASSUME NEW a \in Session \ {s}, NEW d \in Branch \cap DOMAIN mine[a], mine[a][d].main,
                NEW c \in Branch \cap DOMAIN mine'[s]
         PROVE  ~Main(mine'[s][c], mine[a][d].tenant) /\ ~Main(db[c], mine[a][d].tenant)
    <3>1. CASE c # b
      BY <2>4, <2>11, <3>1 DEF MInv, OpenMain
    <3>2. CASE c = b
      <4>1. c \notin DOMAIN mine[a]
        BY <1>4, <3>2 DEF Free
      <4>2. ~Main(db[c], mine[a][d].tenant)
        BY <2>11, <4>1 DEF MInv, OpenMain, Sees
      <4>3. mine[a][d] # Absent
        BY Present DEF Inv, Request, Holds
      <4>4. ~Main(row, mine[a][d].tenant)
        BY <2>1, <2>9, <2>11, <4>3 DEF Main
      <4> QED
        BY <2>4, <3>2, <4>2, <4>4
    <3> QED
      BY <3>1, <3>2
  <2> QED
    BY <1>0, <2>4, <2>5, <2>6, <2>7, <2>8, <2>10, <2>11, WritesAbout
<1> QED
  BY <1>2, <1>3, <1>4 DEF MarkBranch

(* What a COMMIT leaves of tenants and branches. *)
LEMMA Commits ==
  ASSUME TenancyConstants, Inv, NEW s \in Session, CommitTenant(s)
  PROVE  /\ Alone(s) /\ at[s] = "commit" /\ calm' = calm /\ DOMAIN mine'[s] = {}
         /\ \A b \in Branch : db'[b] = Sees(s, b)
         /\ \A u \in Uuid : Exists(T(u))' <=> Exists(T(u)) \/ (Building(s) /\ u = job[s].tenant)
         /\ ~Building(s) => DOMAIN mine[s] \subseteq Branch
         /\ at'[s] = "idle" \/ (at'[s] = "tokens" /\ job'[s] = job[s] /\ Building(s))
<1>0. at[s] = "commit" /\ Request(s)
  BY DEF CommitTenant, Inv
<1>1. /\ db' = Over(mine[s], db) /\ mine' = [mine EXCEPT ![s] = Unwritten] /\ calm' = calm
      /\ \/ job[s].name # Absent /\ Goto(s, "tokens", job[s])
         \/ Goto(s, "idle", NoJob)
  BY DEF CommitTenant, Commit, Publish
<1>2. /\ Alone(s)
      /\ at'[s] = "idle" \/ (at'[s] = "tokens" /\ job'[s] = job[s] /\ job[s].name # Absent)
  BY <1>1, Goes DEF Inv, Step, Alone, Requests
<1>3. DOMAIN mine'[s] = {}
  BY <1>1 DEF Inv, Requests, Unwritten
<1>4. ~Building(s) => job[s].name = Absent /\ DOMAIN mine[s] \subseteq Branch
  BY <1>0 DEF Request, Knows, Holds
<1>5. Building(s) => /\ job[s].tenant \in Uuid /\ job[s].pay \in Uuid
                     /\ T(job[s].tenant) \in DOMAIN mine[s]
                     /\ mine[s][T(job[s].tenant)] # Absent
                     /\ DOMAIN mine[s] \subseteq {T(job[s].tenant), P(job[s].pay)} \cup Branch \cup Code
  BY <1>0, Present DEF Request, Knows, Holds
<1>6. DOMAIN db = Row
  BY DEF Inv, Shared, Tables
<1>7. \A b \in Branch : db'[b] = Sees(s, b)
  BY <1>1, <1>6, Keys DEF Over, Sees
<1>8. ASSUME NEW u \in Uuid
      PROVE  Exists(T(u))' <=> Exists(T(u)) \/ (Building(s) /\ u = job[s].tenant)
  <2>1. db'[T(u)] = IF T(u) \in DOMAIN mine[s] THEN mine[s][T(u)] ELSE db[T(u)]
    BY <1>1, <1>6, Keys DEF Over
  <2>2. T(u) \in DOMAIN mine[s] <=> Building(s) /\ u = job[s].tenant
    BY <1>4, <1>5, Keys
  <2> QED
    BY <1>5, <2>1, <2>2 DEF Exists
<1> QED
  BY <1>0, <1>1, <1>2, <1>3, <1>4, <1>7, <1>8

(* What is published has one main branch, for nobody else changes the marks. *)
LEMMA CommitTenantMain ==
  ASSUME TenancyConstants, Inv, MInv, NEW s \in Session, CommitTenant(s)
  PROVE  MInv'
<1> DEFINE j == job[s]  m == mine[s]
<1>1. /\ Alone(s) /\ at[s] = "commit" /\ calm' = calm /\ DOMAIN mine'[s] = {}
      /\ \A b \in Branch : db'[b] = Sees(s, b)
      /\ \A u \in Uuid : Exists(T(u))' <=> Exists(T(u)) \/ (Building(s) /\ u = j.tenant)
      /\ ~Building(s) => DOMAIN m \subseteq Branch
      /\ at'[s] = "idle" \/ (at'[s] = "tokens" /\ job'[s] = j /\ Building(s))
  BY Commits
<1>2. /\ \A b \in Branch \cap DOMAIN m : m[b] \in BranchRow /\ m[b] # Absent /\ m[b].tenant = j.tenant
      /\ \A b \in Branch : db[b] # Absent => db[b].tenant \in Uuid
  BY Present DEF Inv, Request, Holds, MInv, Placed, Shared, Tables, BranchRow
<1>3. Rooted'
  <2> SUFFICES ASSUME NEW b \in Branch, Exists(b)' PROVE Exists(T(db[b].tenant))'
    BY DEF Rooted
  <2> DEFINE v == db'[b].tenant
  <2>0. \A u \in Uuid : db'[T(u)] # Absent <=> Exists(T(u)) \/ (Building(s) /\ u = j.tenant)
    BY <1>1 DEF Exists
  <2>1. v \in Uuid /\ db'[T(v)] # Absent
    <3>1. CASE b \in DOMAIN m /\ Building(s)
      <4>1. v = j.tenant /\ j.tenant \in Uuid
        BY <1>1, <1>2, <3>1 DEF Sees, Inv, Request, Knows
      <4> QED
        BY <2>0, <3>1, <4>1
    <3>2. CASE b \in DOMAIN m /\ ~Building(s)
      <4>1. v = db[b].tenant /\ Exists(b)
        BY <1>1, <1>2, <3>2 DEF Sees, MInv, Placed
      <4> QED
        BY <1>2, <2>0, <4>1 DEF MInv, Rooted, Exists
    <3>3. CASE b \notin DOMAIN m
      <4>1. db'[b] = db[b] /\ db[b] # Absent
        BY <1>1, <3>3 DEF Sees, Exists
      <4> QED
        BY <1>2, <2>0, <4>1 DEF MInv, Rooted, Exists
    <3> QED
      BY <3>1, <3>2, <3>3
  <2> QED
    BY <2>1 DEF Exists
<1>4. OneMain'
  <2> SUFFICES ASSUME NEW t \in Uuid, NEW b \in Branch, NEW c \in Branch,
                      Main(Sees(s, b), t), Main(Sees(s, c), t), b # c
               PROVE  FALSE
    BY <1>1 DEF OneMain, Main
  <2>1. CASE b \in DOMAIN m
    <3>1. m[b].main /\ m[b].tenant = t
      BY <2>1 DEF Main, Sees
    <3> QED
      BY <2>1, <3>1 DEF MInv, OpenMain
  <2>2. CASE c \in DOMAIN m
    <3>1. m[c].main /\ m[c].tenant = t
      BY <2>2 DEF Main, Sees
    <3> QED
      BY <2>2, <3>1 DEF MInv, OpenMain
  <2>3. CASE b \notin DOMAIN m /\ c \notin DOMAIN m
    BY <2>3 DEF MInv, OneMain, Sees
  <2> QED
    BY <2>1, <2>2, <2>3
<1>5. Slots'
  <2> SUFFICES ASSUME NEW v \in Session, NEW t \in Session, v # t, Building(v)', at'[t] # "idle",
                      NEW b \in Branch \cap DOMAIN mine'[v]
               PROVE  b \notin {job'[t].branch} \cup job'[t].others
    BY DEF Slots
  <2>1. v # s
    BY <1>1
  <2>2. Building(v) /\ b \in DOMAIN mine[v]
    BY <1>1, <2>1 DEF Alone, Building
  <2>3. at[t] # "idle" /\ job'[t] = job[t]
    BY <1>1 DEF Alone
  <2> QED
    BY <2>2, <2>3 DEF MInv, Slots
<1>6. OpenMain'
  <2> SUFFICES ASSUME NEW a \in Session, NEW b \in Branch \cap DOMAIN mine'[a], mine'[a][b].main
               PROVE  /\ \A c \in Branch \ {b} : ~Main(Sees(a, c)', mine'[a][b].tenant)
                      /\ \A v \in Session \ {a} : \A c \in Branch \cap DOMAIN mine'[v] :
                           /\ ~Main(mine'[v][c], mine'[a][b].tenant)
                           /\ ~Main(db'[c], mine'[a][b].tenant)
    BY DEF OpenMain, Main
  <2>1. a # s /\ mine'[a] = mine[a]
    BY <1>1 DEF Alone
  <2>2. ASSUME NEW c \in Branch \ {b} PROVE ~Main(Sees(a, c)', mine[a][b].tenant)
    <3>1. ~Main(Sees(a, c), mine[a][b].tenant)
      BY <2>1 DEF MInv, OpenMain
    <3>2. CASE c \in DOMAIN mine[a]
      BY <2>1, <3>1, <3>2 DEF Sees
    <3>3. CASE c \notin DOMAIN mine[a] /\ c \in DOMAIN m
      <4>1. ~Main(m[c], mine[a][b].tenant)
        BY <2>1, <3>3 DEF MInv, OpenMain
      <4> QED
        BY <1>1, <2>1, <3>3, <4>1 DEF Sees
    <3>4. CASE c \notin DOMAIN mine[a] /\ c \notin DOMAIN m
      BY <1>1, <2>1, <3>1, <3>4 DEF Sees
    <3> QED
      BY <3>2, <3>3, <3>4
  <2>3. ASSUME NEW v \in Session \ {a}, NEW c \in Branch \cap DOMAIN mine'[v]
        PROVE  ~Main(mine'[v][c], mine[a][b].tenant) /\ ~Main(db'[c], mine[a][b].tenant)
    <3>1. v # s /\ mine'[v] = mine[v]
      BY <1>1 DEF Alone
    <3>2. c \notin DOMAIN m
      BY <3>1 DEF Inv, Apart
    <3>3. ~Main(mine[v][c], mine[a][b].tenant) /\ ~Main(db[c], mine[a][b].tenant)
      BY <2>1, <3>1 DEF MInv, OpenMain
    <3> QED
      BY <1>1, <3>1, <3>2, <3>3 DEF Sees
  <2> QED
    BY <2>1, <2>2, <2>3
<1>7. ASSUME NEW t \in Session \ {s} PROVE Placed(t)'
  <2>1. at'[t] = at[t] /\ job'[t] = job[t] /\ mine'[t] = mine[t] /\ Placed(t)
    BY <1>1 DEF Alone, MInv
  <2>2. \A b \in Branch \cap DOMAIN mine[t] : db'[b] = db[b]
    BY <1>1 DEF Inv, Apart, Sees
  <2>3. ASSUME at[t] \in {"unmark", "mark"}, NEW b \in {job[t].branch} \cup job[t].others, Exists(b)'
        PROVE  db'[b].tenant = job[t].tenant
    <3>1. b \in Branch
      BY <2>3 DEF Inv, Request, Knows, JobRow
    <3>2. CASE b \notin DOMAIN m
      <4>1. db'[b] = db[b] /\ Exists(b)
        BY <1>1, <2>3, <3>1, <3>2 DEF Sees, Exists
      <4> QED
        BY <2>1, <2>3, <4>1 DEF Placed
    <3>3. CASE b \in DOMAIN m
      <4>1. ~Building(s)
        BY <2>3, <3>1, <3>3 DEF MInv, Slots
      <4>2. db'[b].tenant = j.tenant /\ db[b].tenant = j.tenant /\ Exists(b)
        BY <1>1, <1>2, <3>1, <3>3, <4>1 DEF Sees, MInv, Placed
      <4> QED
        BY <2>1, <2>3, <4>2 DEF Placed
    <3> QED
      BY <3>2, <3>3
  <2>4. Building(t) => job[t].tenant \in Uuid
    BY DEF Inv, Request, Knows
  <2>5. ASSUME Building(t), job[t].name # Absent, at[t] \notin {"tokens", "cancel"}, Exists(T(job[t].tenant))'
        PROVE  Exists(T(job[t].tenant))
    <3> SUFFICES ASSUME ~Exists(T(job[t].tenant)) PROVE FALSE
      OBVIOUS
    <3>0. db'[T(job[t].tenant)] # Absent
      BY <2>1, <2>5 DEF Exists
    <3>1. Building(s) /\ job[t].tenant = j.tenant
      BY <1>1, <2>4, <2>5, <3>0 DEF Exists
    <3>2. j.name # Absent
      BY <1>1, <3>1 DEF MInv, Placed
    <3>3. j.pay = j.tenant /\ job[t].pay = job[t].tenant
      BY <2>5, <3>1, <3>2 DEF Inv, Request, Knows
    <3> QED
      BY <2>5, <3>1, <3>3 DEF Inv, Apart
  <2>6. Building(t) /\ Exists(T(job[t].tenant)) => Exists(T(job[t].tenant))'
    <3> SUFFICES ASSUME Building(t), Exists(T(job[t].tenant)) PROVE db'[T(job[t].tenant)] # Absent
      BY <2>1 DEF Exists
    <3> QED
      BY <1>1, <2>4 DEF Exists
  <2> QED
    BY <2>1, <2>2, <2>3, <2>5, <2>6, PlacedStays
<1>8. Placed(s)' /\ Calmly(s)'
  BY <1>1 DEF Placed, Calmly, Building
<1>9. calm' => \A t \in Session \ {s} : at[t] = "idle"
  BY <1>1, OthersIdle DEF MInv
<1> QED
  BY <1>1, <1>3, <1>4, <1>5, <1>6, <1>7, <1>8, <1>9, Together


(* A new branch is the main one only where there is none. *)
LEMMA CreateBranchMain ==
  ASSUME TenancyConstants, Inv, MInv, NEW s \in Session, CreateBranch(s)
  PROVE  MInv'
<1> PICK b \in FreshBranch, t \in Uuid, m \in BOOLEAN :
      /\ Exists(T(t))
      /\ m => MainOpen(s, t) /\ ~MainTaken(s, t, b)
      /\ db' = [db EXCEPT ![b] = [tenant |-> t, main |-> m]]
  BY DEF CreateBranch
<1>0. mine' = mine /\ at' = at /\ job' = job /\ at[s] = "idle" /\ calm' = (calm /\ Quiet)
  BY DEF CreateBranch
<1>1. /\ b \in Branch /\ b \in Row /\ ~Exists(b)
      /\ \A v \in Session : b \notin DOMAIN mine[v]
      /\ \A v \in Session : at[v] # "idle" => b \notin {job[v].branch} \cup job[v].others
  BY Keys DEF FreshBranch
<1>2. /\ \A c \in Branch \ {b} : db'[c] = db[c]
      /\ \A u \in Uuid : db'[T(u)] = db[T(u)]
      /\ db'[b].tenant = t /\ db'[b].main = m /\ db'[b] # Absent
  <2>1. db'[b] = [tenant |-> t, main |-> m] /\ db'[b] \in BranchRow /\ \A r \in Row \ {b} : db'[r] = db[r]
    BY <1>1 DEF Inv, Shared, Tables, BranchRow
  <2> QED
    BY <1>1, <2>1, Keys, Present
<1>3. DOMAIN mine[s] = {}
  BY <1>0, IdleHoldsNothing
(* Nobody has or is about to have a main branch when this is one. *)
<1>4. m => /\ \A c \in Branch : ~Main(db[c], t)
           /\ \A v \in Session : \A c \in Branch \cap DOMAIN mine[v] : ~Main(mine[v][c], t)
  <2>1. m => \A c \in Branch : ~Main(db[c], t)
    BY <1>1, <1>3 DEF MainTaken, Sees, Main, Exists
  <2>2. ASSUME m, NEW v \in Session, NEW c \in Branch \cap DOMAIN mine[v], Main(mine[v][c], t)
        PROVE  FALSE
    <3>1. v # s
      BY <1>3
    <3>2. Main(db[c], t)
      BY <2>2, <3>1 DEF MainOpen, Main, Exists
    <3> QED
      BY <2>1, <2>2, <3>2
  <2> QED
    BY <2>1, <2>2
<1>5. Rooted'
  <2> SUFFICES ASSUME NEW c \in Branch, db'[c] # Absent PROVE db'[T(db'[c].tenant)] # Absent
    BY DEF Rooted, Exists
  <2>1. CASE c = b
    BY <1>2, <2>1 DEF Exists
  <2>2. CASE c # b
    <3>1. db'[c] = db[c] /\ db[c] # Absent
      BY <1>2, <2>2
    <3>2. db[c].tenant \in Uuid /\ db[T(db[c].tenant)] # Absent
      BY <3>1 DEF MInv, Rooted, Exists, Inv, Shared, Tables, BranchRow
    <3> QED
      BY <1>2, <3>1, <3>2
  <2> QED
    BY <2>1, <2>2
<1>6. OneMain'
  <2> SUFFICES ASSUME NEW u \in Uuid, NEW c \in Branch, NEW d \in Branch,
                      Main(db'[c], u), Main(db'[d], u), c # d
               PROVE  FALSE
    BY DEF OneMain, Main
  <2>1. CASE c = b
    <3>1. m /\ u = t /\ Main(db[d], u)
      BY <1>2, <2>1 DEF Main
    <3> QED
      BY <1>4, <3>1
  <2>2. CASE d = b
    <3>1. m /\ u = t /\ Main(db[c], u)
      BY <1>2, <2>2 DEF Main
    <3> QED
      BY <1>4, <3>1
  <2>3. CASE c # b /\ d # b
    BY <1>2, <2>3 DEF MInv, OneMain
  <2> QED
    BY <2>1, <2>2, <2>3
<1>7. Slots'
  BY <1>0 DEF MInv, Slots, Building
<1>8. OpenMain'
  <2> SUFFICES ASSUME NEW a \in Session, NEW d \in Branch \cap DOMAIN mine[a], mine[a][d].main
               PROVE  /\ \A c \in Branch \ {d} : ~Main(Sees(a, c)', mine[a][d].tenant)
                      /\ \A v \in Session \ {a} : \A c \in Branch \cap DOMAIN mine[v] :
                           /\ ~Main(mine[v][c], mine[a][d].tenant)
                           /\ ~Main(db'[c], mine[a][d].tenant)
    BY <1>0 DEF OpenMain, Main
  <2>1. ASSUME NEW c \in Branch \ {d} PROVE ~Main(Sees(a, c)', mine[a][d].tenant)
    <3>1. CASE c = b
      <4>1. mine[a][d] # Absent
        BY Present DEF Inv, Request, Holds
      <4>2. ~Main(db'[b], mine[a][d].tenant)
        BY <1>2, <1>4, <2>1, <4>1 DEF Main
      <4> QED
        BY <1>0, <1>1, <3>1, <4>2 DEF Sees
    <3>2. CASE c # b
      <4>1. Sees(a, c)' = Sees(a, c)
        BY <1>0, <1>2, <3>2 DEF Sees
      <4> QED
        BY <4>1 DEF MInv, OpenMain
    <3> QED
      BY <3>1, <3>2
  <2>2. ASSUME NEW v \in Session \ {a}, NEW c \in Branch \cap DOMAIN mine[v]
        PROVE  ~Main(mine[v][c], mine[a][d].tenant) /\ ~Main(db'[c], mine[a][d].tenant)
    <3>1. db'[c] = db[c]
      BY <1>1, <1>2
    <3> QED
      BY <3>1 DEF MInv, OpenMain
  <2> QED
    BY <2>1, <2>2
<1>9. ASSUME NEW x \in Session PROVE Placed(x)'
  <2>1. at'[x] = at[x] /\ job'[x] = job[x] /\ mine'[x] = mine[x] /\ Placed(x)
    BY <1>0 DEF MInv
  <2>2. \A c \in Branch \cap DOMAIN mine[x] : db'[c] = db[c]
    BY <1>1, <1>2
  <2>3. ASSUME at[x] \in {"unmark", "mark"}, NEW c \in {job[x].branch} \cup job[x].others, Exists(c)'
        PROVE  db'[c].tenant = job[x].tenant
    <3>1. c \in Branch \ {b}
      BY <1>1, <2>3 DEF Inv, Request, Knows, JobRow
    <3>2. db'[c] = db[c] /\ Exists(c)
      BY <1>2, <2>3, <3>1 DEF Exists
    <3> QED
      BY <2>1, <2>3, <3>2 DEF Placed
  <2>4. Building(x) => (Exists(T(job[x].tenant))' <=> Exists(T(job[x].tenant)))
    BY <1>0, <1>2 DEF Inv, Request, Knows, Exists
  <2> QED
    BY <2>1, <2>2, <2>3, <2>4, PlacedStays
<1>10. Alone(s) /\ Calmly(s)'
  BY <1>0 DEF Alone, Calmly
<1>11. calm' => \A v \in Session \ {s} : at[v] = "idle"
  BY <1>0, OthersIdle DEF MInv
<1> QED
  BY <1>5, <1>6, <1>7, <1>8, <1>9, <1>10, <1>11, Together

(* Branches are deleted, by a request that has written none, and none that    *)
(* another one has written.                                                  *)
LEMMA Shrinks ==
  ASSUME TenancyConstants, Inv, MInv, NEW s \in Session, Alone(s), at'[s] = "idle",
         DOMAIN mine'[s] = {}, calm' => \A t \in Session \ {s} : at[t] = "idle",
         \A b \in Branch : db'[b] \in {db[b], Absent},
         \A v \in Session \ {s} : \A b \in Branch \cap DOMAIN mine[v] : db'[b] = db[b],
         \A b \in Branch : db'[b] # Absent => db'[T(db[b].tenant)] # Absent,
         \A u \in Uuid : db'[T(u)] # Absent => Exists(T(u)),
         \A v \in Session \ {s} : at[v] = "commit" /\ Building(v) =>
           (Exists(T(job[v].tenant)) => db'[T(job[v].tenant)] # Absent)
  PROVE  MInv'
<1>1. Rooted'
  BY DEF Rooted, Exists
<1>2. OneMain'
  BY DEF MInv, OneMain, Main
<1>3. Slots'
  <2> SUFFICES ASSUME NEW v \in Session, NEW t \in Session, v # t, Building(v)', at'[t] # "idle",
                      NEW b \in Branch \cap DOMAIN mine'[v]
               PROVE  b \notin {job'[t].branch} \cup job'[t].others
    BY DEF Slots
  <2>1. v # s /\ t # s
    OBVIOUS
  <2>2. Building(v) /\ b \in DOMAIN mine[v] /\ at[t] # "idle" /\ job'[t] = job[t]
    BY <2>1 DEF Alone, Building
  <2> QED
    BY <2>2 DEF MInv, Slots
<1>4. OpenMain'
  <2> SUFFICES ASSUME NEW a \in Session, NEW b \in Branch \cap DOMAIN mine'[a], mine'[a][b].main
               PROVE  /\ \A c \in Branch \ {b} : ~Main(Sees(a, c)', mine'[a][b].tenant)
                      /\ \A v \in Session \ {a} : \A c \in Branch \cap DOMAIN mine'[v] :
                           /\ ~Main(mine'[v][c], mine'[a][b].tenant)
                           /\ ~Main(db'[c], mine'[a][b].tenant)
    BY DEF OpenMain, Main
  <2>1. a # s /\ mine'[a] = mine[a]
    BY DEF Alone
  <2>2. ASSUME NEW c \in Branch \ {b} PROVE ~Main(Sees(a, c)', mine[a][b].tenant)
    <3>1. ~Main(Sees(a, c), mine[a][b].tenant)
      BY <2>1 DEF MInv, OpenMain
    <3>2. CASE c \in DOMAIN mine[a]
      BY <2>1, <3>1, <3>2 DEF Sees
    <3>3. CASE c \notin DOMAIN mine[a]
      BY <2>1, <3>1, <3>3 DEF Sees, Main
    <3> QED
      BY <3>2, <3>3
  <2>3. ASSUME NEW v \in Session \ {a}, NEW c \in Branch \cap DOMAIN mine'[v]
        PROVE  ~Main(mine'[v][c], mine[a][b].tenant) /\ ~Main(db'[c], mine[a][b].tenant)
    <3>1. v # s /\ mine'[v] = mine[v]
      BY DEF Alone
    <3>2. db'[c] = db[c]
      BY <3>1
    <3> QED
      BY <2>1, <3>1, <3>2 DEF MInv, OpenMain
  <2> QED
    BY <2>1, <2>2, <2>3
<1>5. ASSUME NEW t \in Session \ {s} PROVE Placed(t)'
  <2>1. at'[t] = at[t] /\ job'[t] = job[t] /\ mine'[t] = mine[t] /\ Placed(t)
    BY DEF Alone, MInv
  <2>2. \A b \in Branch \cap DOMAIN mine[t] : db'[b] = db[b]
    OBVIOUS
  <2>3. ASSUME at[t] \in {"unmark", "mark"}, NEW b \in {job[t].branch} \cup job[t].others, Exists(b)'
        PROVE  db'[b].tenant = job[t].tenant
    <3>1. b \in Branch
      BY <2>3 DEF Inv, Request, Knows, JobRow
    <3>2. db'[b] = db[b] /\ Exists(b)
      BY <2>3, <3>1 DEF Exists
    <3> QED
      BY <2>1, <2>3, <3>2 DEF Placed
  <2>4. Building(t) => job[t].tenant \in Uuid
    BY DEF Inv, Request, Knows
  <2>5. Building(t) => (Exists(T(job[t].tenant))' => Exists(T(job[t].tenant)))
    <3> SUFFICES ASSUME Building(t), db'[T(job[t].tenant)] # Absent PROVE Exists(T(job[t].tenant))
      BY <2>1 DEF Exists
    <3> QED
      BY <2>4
  <2>6. Building(t) /\ at[t] = "commit" => (Exists(T(job[t].tenant)) => Exists(T(job[t].tenant))')
    <3> SUFFICES ASSUME Building(t), at[t] = "commit", Exists(T(job[t].tenant))
                 PROVE  db'[T(job[t].tenant)] # Absent
      BY <2>1 DEF Exists
    <3> QED
      OBVIOUS
  <2> QED
    BY <2>1, <2>2, <2>3, <2>5, <2>6, PlacedStays
<1>6. Placed(s)' /\ Calmly(s)'
  BY DEF Placed, Calmly, Building
<1> QED
  BY <1>1, <1>2, <1>3, <1>4, <1>5, <1>6, Together

(* A branch is deleted, and none that somebody has written. *)
LEMMA EraseBranchMain ==
  ASSUME TenancyConstants, Inv, MInv, NEW s \in Session, EraseBranch(s)
  PROVE  MInv'
<1> DEFINE b == job[s].branch
<1>0. at[s] = "erase" /\ Apply(s, [r \in {b} |-> Absent], "idle", NoJob)
  BY DEF EraseBranch
<1>1. b \in Branch /\ b \in Row /\ DOMAIN mine[s] = {}
  BY <1>0, Edits, Keys
<1>2. db'[b] = Absent /\ Alone(s) /\ \A r \in Row \ {b} : db'[r] = db[r]
  <2> HIDE DEF b
  <2>1. db'[b] = Absent
    BY <1>0, <1>1, Applies
  <2>2. Alone(s)
    BY <1>0, <1>1, Applies
  <2>3. \A r \in Row \ {b} : db'[r] = db[r]
    BY <1>0, <1>1, Applies
  <2> QED
    BY <2>1, <2>2, <2>3
<1>3. at'[s] = "idle" /\ DOMAIN mine'[s] = {} /\ calm' = calm /\ Free(s, {b})
  BY <1>0, <1>1 DEF Apply, Goto, Inv, Requests
<1>4. calm' => \A t \in Session \ {s} : at[t] = "idle"
  BY <1>0, <1>3, OthersIdle DEF MInv
<1>5. \A c \in Branch : db'[c] \in {db[c], Absent}
  BY <1>1, <1>2, Keys
<1>6. \A v \in Session \ {s} : \A c \in Branch \cap DOMAIN mine[v] : db'[c] = db[c]
  BY <1>1, <1>2, <1>3, Keys DEF Free
<1>7. \A u \in Uuid : db'[T(u)] = db[T(u)]
  BY <1>1, <1>2, Keys
<1>8. ASSUME NEW c \in Branch, db'[c] # Absent PROVE db'[T(db[c].tenant)] # Absent
  <2>1. Exists(c) /\ db[c].tenant \in Uuid
    BY <1>5, <1>8 DEF Exists, Inv, Shared, Tables, BranchRow
  <2> QED
    BY <1>7, <2>1 DEF MInv, Rooted, Exists
<1>9. \A v \in Session : Building(v) =>
        (Exists(T(job[v].tenant)) => db'[T(job[v].tenant)] # Absent)
  BY <1>7 DEF Inv, Request, Knows, Exists
<1> QED
  BY <1>2, <1>3, <1>4, <1>5, <1>6, <1>7, <1>8, <1>9, Shrinks DEF Exists

(* A tenant goes with its branches, and nobody has written one of them. *)
LEMMA DeleteTenantMain ==
  ASSUME TenancyConstants, Inv, MInv, NEW s \in Session, DeleteTenant(s)
  PROVE  MInv'
<1> DEFINE own == {P(u) : u \in Uuid} \cup Branch
           Gone(t) == {T(t)} \cup {r \in own : Exists(r) /\ db[r].tenant = t}
<1> PICK t \in Uuid :
      /\ Free(s, Gone(t))
      /\ db' = [r \in Row |-> IF r \in Gone(t) THEN Absent ELSE db[r]]
  BY DEF DeleteTenant
<1>0. mine' = mine /\ at' = at /\ job' = job /\ at[s] = "idle" /\ calm' = (calm /\ Quiet)
  BY DEF DeleteTenant
<1>1. /\ \A b \in Branch : db'[b] \in {db[b], Absent}
      /\ \A b \in Branch : db'[b] # Absent => db'[b] = db[b] /\ db[b].tenant # t
      /\ \A b \in Branch : b \notin Gone(t) => db'[b] = db[b]
      /\ \A u \in Uuid : db'[T(u)] = IF u = t THEN Absent ELSE db[T(u)]
  <2>1. \A u \in Uuid : T(u) \in Gone(t) <=> u = t
    BY Keys
  <2>2. \A b \in Branch : b \notin Gone(t) /\ db[b] # Absent => db[b].tenant # t
    BY DEF Exists
  <2> HIDE DEF Gone
  <2> QED
    BY <2>1, <2>2, Keys
<1>2. T(t) \in Gone(t)
  OBVIOUS
<1> HIDE DEF Gone, own
<1>3. \A v \in Session \ {s} : \A b \in Branch \cap DOMAIN mine[v] : db'[b] = db[b]
  BY <1>1 DEF Free
<1>4. ASSUME NEW b \in Branch, db'[b] # Absent PROVE db'[T(db[b].tenant)] # Absent
  <2>1. Exists(b) /\ db[b].tenant \in Uuid \ {t}
    BY <1>1, <1>4 DEF Exists, Inv, Shared, Tables, BranchRow
  <2> QED
    BY <1>1, <2>1 DEF MInv, Rooted, Exists
<1>5. ASSUME NEW v \in Session \ {s}, at[v] = "commit", Building(v), Exists(T(job[v].tenant))
      PROVE  db'[T(job[v].tenant)] # Absent
  <2>1. job[v].tenant \in Uuid /\ T(job[v].tenant) \in DOMAIN mine[v]
    BY <1>5 DEF Inv, Request, Knows, Holds
  <2>2. job[v].tenant # t
    BY <1>2, <2>1 DEF Free
  <2> QED
    BY <1>1, <1>5, <2>1, <2>2 DEF Exists
<1>6. \A u \in Uuid : db'[T(u)] # Absent => Exists(T(u))
  BY <1>1 DEF Exists
<1>7. Alone(s) /\ at'[s] = "idle" /\ DOMAIN mine'[s] = {}
  BY <1>0, IdleHoldsNothing DEF Alone
<1>8. calm' => \A v \in Session \ {s} : at[v] = "idle"
  BY <1>0, OthersIdle DEF MInv
<1> QED
  BY <1>1, <1>3, <1>4, <1>5, <1>6, <1>7, <1>8, Shrinks

(* The rest goes on, or ends, with the branches as they were. *)
LEMMA StepMain ==
  ASSUME TenancyConstants, Inv, MInv, [Next]_vars
  PROVE  MInv'
<1>1. ASSUME db' = db, mine' = mine, at' = at, job' = job, calm' = calm PROVE MInv'
  <2>1. /\ Rooted' <=> Rooted
        /\ OneMain' <=> OneMain
        /\ Slots' <=> Slots
        /\ InTurn' <=> InTurn
    BY <1>1 DEF Rooted, OneMain, Slots, InTurn, Exists, Main, Building
  <2>2. OpenMain'
    <3>1. \A a, c : Sees(a, c)' = Sees(a, c)
      BY <1>1 DEF Sees
    <3> QED
      BY <1>1, <3>1 DEF MInv, OpenMain, Main
  <2>3. ASSUME NEW x \in Session PROVE Placed(x)' /\ (calm' => Calmly(x)')
    BY <1>1 DEF MInv, Placed, Calmly, Building, Exists
  <2> QED
    BY <2>1, <2>2, <2>3 DEF MInv
<1>2. CASE UNCHANGED vars
  BY <1>1, <1>2 DEF vars
<1>3. CASE Pay \/ Leave \/ EndPeriod
  BY <1>1, <1>3 DEF Pay, Leave, EndPeriod
<1>4. ASSUME NEW s \in Session, IssueTokens(s) \/ Error(s) \/ Cancel(s) \/ Crash(s) PROVE MInv'
  BY <1>4, RollbackMain, GiveUpMain DEF IssueTokens, Error, Cancel, Crash, Fail
<1>5. ASSUME NEW s \in Session, Onboarding(s) PROVE MInv'
  BY <1>4, <1>5, StartOnboardingMain, CreateTenantMain, RedeemMain DEF Onboarding
<1>6. ASSUME NEW s \in Session, Subscription(s) PROVE MInv'
  BY <1>4, <1>6, StartSubscriptionMain, SubscribeMain, RecordMain, CommitTenantMain DEF Subscription
<1>7. ASSUME NEW s \in Session, Webhook(s) PROVE MInv'
  BY <1>7, StartWebhookMain, VerifyPaymentMain, UnsubscribeMain DEF Webhook
<1>8. ASSUME NEW s \in Session, Branches(s) PROVE MInv'
  BY <1>8, CreateBranchMain, StartUpdateBranchMain, UnmarkOthersMain, MarkBranchMain,
     StartDeleteBranchMain, EraseBranchMain DEF Branches
<1> QED
  BY <1>2, <1>3, <1>5, <1>6, <1>7, <1>8, DeleteTenantMain DEF Next

(* Only a COMMIT, a deletion or a new branch changes what branches there are. *)
LEMMA BranchesStay ==
  ASSUME TenancyConstants, Inv, NEW s \in Session,
         \/ Onboarding(s)
         \/ Subscription(s) /\ ~CommitTenant(s)
         \/ Webhook(s)
         \/ Branches(s) /\ ~CreateBranch(s) /\ ~EraseBranch(s),
         NEW b \in Branch
  PROVE  db'[b] = db[b]
<1>1. CASE Onboarding(s)
  BY <1>1 DEF Onboarding, StartOnboarding, CreateTenant, Redeem, IssueTokens, Begin, Write, Rollback
<1>2. CASE Subscription(s) /\ ~CommitTenant(s)
  BY <1>2 DEF Subscription, StartSubscription, Subscribe, Record, Error, Cancel, Crash, Fail,
          Begin, Look, Write, Rollback, GiveUp
<1>3. CASE Webhook(s)
  <2>1. CASE StartWebhook(s)
    BY <2>1 DEF StartWebhook, Begin
  <2>2. ASSUME NEW r \in Row \ Branch, NEW row, Apply(s, [x \in {r} |-> row], "idle", NoJob),
               DOMAIN mine[s] = {}
        PROVE  db'[b] = db[b]
    <3>1. \A x \in Row \ {r} : db'[x] = db[x]
      BY <2>2, Applies
    <3> QED
      BY <3>1, Keys
  <2>3. CASE VerifyPayment(s)
    <3>1. P(job[s].pay) \in Row \ Branch /\ DOMAIN mine[s] = {}
      BY <2>3, Hears, Keys DEF VerifyPayment
    <3> QED
      BY <2>2, <2>3, <3>1 DEF VerifyPayment, Rollback
  <2>4. CASE Unsubscribe(s)
    <3>1. T(job[s].tenant) \in Row \ Branch /\ DOMAIN mine[s] = {}
      BY <2>4, Hears, Keys DEF Unsubscribe
    <3> QED
      BY <2>2, <2>4, <3>1 DEF Unsubscribe, Rollback
  <2> QED
    BY <1>3, <2>1, <2>3, <2>4 DEF Webhook
<1>4. CASE Branches(s) /\ ~CreateBranch(s) /\ ~EraseBranch(s)
  BY <1>4 DEF Branches, StartUpdateBranch, UnmarkOthers, MarkBranch, StartDeleteBranch,
          Begin, Look, Write, Rollback
<1> QED
  BY <1>1, <1>2, <1>3, <1>4

(* Requests that come one at a time leave a tenant its main branch, unless    *)
(* they unmark it.                                                           *)
LEMMA MainStays ==
  ASSUME TenancyConstants, Inv, MInv, Next, calm', NEW t \in Uuid, NEW b \in Branch,
         Main(db[b], t), db'[T(t)] # Absent, \A c \in Branch : ~Main(db'[c], t)
  PROVE  \E s \in Session : Unmarking(s)
<1>1. db'[b] # db[b]
  OBVIOUS
<1>2. ASSUME NEW s \in Session, CommitTenant(s) PROVE Unmarking(s)
  <2>1. at[s] = "commit" /\ calm' = calm /\ \A c \in Branch : db'[c] = Sees(s, c)
    BY <1>2, Commits
  <2>2. b \in DOMAIN mine[s]
    BY <1>1, <2>1 DEF Sees
  <2>3. ~Building(s) /\ job[s].tenant = t
    BY <2>2 DEF MInv, Placed, Main, Exists
  <2>4. ASSUME job[s].main PROVE FALSE
    <3> DEFINE c == job[s].branch
    <3>1. c \in DOMAIN mine[s] /\ mine[s][c].main
      BY <2>1, <2>3, <2>4 DEF MInv, Calmly
    <3>2. c \in Branch
      BY <2>1, <2>3, <3>1 DEF Inv, Request, Holds
    <3>3. mine[s][c].tenant = t /\ mine[s][c] # Absent
      BY <2>3, <3>1, <3>2, Present DEF MInv, Placed, Inv, Request, Holds
    <3> QED
      BY <2>1, <3>1, <3>2, <3>3 DEF Sees, Main
  <2> QED
    BY <2>1, <2>4 DEF Unmarking
<1>3. ASSUME NEW s \in Session, CreateBranch(s) PROVE FALSE
  <2> PICK c \in FreshBranch, u \in Uuid, m \in BOOLEAN : db' = [db EXCEPT ![c] = [tenant |-> u, main |-> m]]
    BY <1>3 DEF CreateBranch
  <2>1. c # b
    BY DEF FreshBranch, Exists, Main
  <2> QED
    BY <1>1, <2>1, Keys DEF Inv, Shared, Tables
<1>4. ASSUME NEW s \in Session, EraseBranch(s) PROVE FALSE
  <2> DEFINE c == job[s].branch
  <2>0. at[s] = "erase" /\ Apply(s, [r \in {c} |-> Absent], "idle", NoJob)
    BY <1>4 DEF EraseBranch
  <2>1. c \in Row /\ DOMAIN mine[s] = {} /\ calm' = calm
    BY <2>0, Edits, Keys DEF Apply
  <2>2. c # b
    BY <2>0, <2>1 DEF MInv, Calmly, Main, Exists
  <2>3. \A r \in Row \ {c} : db'[r] = db[r]
    <3> HIDE DEF c
    <3> QED
      BY <2>0, <2>1, Applies
  <2> QED
    BY <1>1, <2>2, <2>3, Keys
<1>5. ASSUME NEW s \in Session, DeleteTenant(s) PROVE FALSE
  <2> DEFINE own == {P(u) : u \in Uuid} \cup Branch
             Gone(v) == {T(v)} \cup {r \in own : Exists(r) /\ db[r].tenant = v}
  <2> PICK v \in Uuid : db' = [r \in Row |-> IF r \in Gone(v) THEN Absent ELSE db[r]]
    BY <1>5 DEF DeleteTenant
  <2>1. T(v) \in Gone(v) /\ T(t) \in Row /\ b \in Row
    BY Keys
  <2>2. b \in Gone(v) => v = t
    BY Keys DEF Main
  <2> HIDE DEF Gone
  <2> QED
    BY <1>1, <2>1, <2>2
<1>6. CASE Pay \/ Leave \/ EndPeriod
  BY <1>1, <1>6 DEF Pay, Leave, EndPeriod
<1> QED
  BY <1>1, <1>2, <1>3, <1>4, <1>5, <1>6, BranchesStay DEF Next, Subscription, Branches

(* A tenant has at most one main branch at any time, whatever requests come   *)
(* together; and as long as they come one at a time, none but an update that *)
(* unmarks the main branch leaves a tenant without one.                      *)
THEOREM MainAlwaysKept == Spec => MainBranchKept
<1> USE TenancyAssumption
<1>1. Init => Inv /\ MInv
  BY InitInv, InitMInv
<1>2. Inv /\ MInv /\ [Next]_vars => Inv' /\ MInv'
  BY StepKeeps, StepMain
<1>3. Inv /\ MInv /\ MInv' /\ [Next]_vars =>
        [\A t \in Uuid : Exists(T(t)) /\ Exists(T(t))' =>
           /\ Cardinality(Mains(t)') <= 1
           /\ Mains(t) # {} /\ Mains(t)' = {} => ~calm' \/ \E s \in Session : Unmarking(s)]_vars
  <2> SUFFICES ASSUME Inv, MInv, MInv', Next, NEW t \in Uuid, Exists(T(t)), Exists(T(t))'
               PROVE  /\ Cardinality(Mains(t)') <= 1
                      /\ Mains(t) # {} /\ Mains(t)' = {} => ~calm' \/ \E s \in Session : Unmarking(s)
    OBVIOUS
  <2>1. Mains(t)' = {b \in Branch : Main(db'[b], t)} /\ Mains(t) = {b \in Branch : Main(db[b], t)}
    BY DEF Mains, Main, Exists
  <2>2. Cardinality(Mains(t)') <= 1
    <3>1. CASE Mains(t)' = {}
      BY <3>1, FS_EmptySet
    <3>2. CASE Mains(t)' # {}
      <4> PICK b \in Branch : Main(db'[b], t)
        BY <2>1, <3>2
      <4>1. \A c \in Branch : Main(db'[c], t) => c = b
        BY DEF MInv, OneMain, Main
      <4>2. Mains(t)' = {b}
        BY <2>1, <4>1
      <4>3. Cardinality({b}) = 1
        BY FS_Singleton
      <4> QED
        BY <4>2, <4>3
    <3> QED
      BY <3>1, <3>2
  <2>3. ASSUME Mains(t) # {}, Mains(t)' = {}, calm' PROVE \E s \in Session : Unmarking(s)
    <3>1. db'[T(t)] # Absent
      BY DEF Exists
    <3>2. PICK b \in Branch : Main(db[b], t)
      BY <2>1, <2>3
    <3>3. \A c \in Branch : ~Main(db'[c], t)
      BY <2>1, <2>3
    <3> QED
      BY <2>3, <3>1, <3>2, <3>3, MainStays
  <2> QED
    BY <2>2, <2>3
<1> QED
  BY <1>1, <1>2, <1>3, PTL DEF Spec, MainBranchKept

-----------------------------------------------------------------------------
(* Purchase orders.                                                         *)

(* Where a trail stands: each change leads on from the one before, and the  *)
(* order has the status the last one led to.                                *)
Leads(order) ==
  LET trail == order.trail IN
  /\ \A i \in 1 .. Len(trail) :
       trail[i].from = IF i = 1 THEN Buying!Pending ELSE trail[i - 1].to
  /\ order.status = IF trail = << >> THEN Buying!Pending ELSE trail[Len(trail)].to

(* The changes that say the goods came.                                     *)
Deliveries(order) == {i \in 1 .. Len(order.trail) : order.trail[i].to = Buying!Delivered}

(* The history of an order, in terms of its rows.                           *)
Came(o) ==
  LET order == db[Buying!The(o)]
      receipt == db[Buying!Receipt(o)]
  IN
  /\ Leads(order)
  /\ IF Deliveries(order) = {} THEN order.goods = 0
     ELSE /\ Cardinality(Deliveries(order)) = 1
          /\ receipt # Absent /\ receipt.confirmed /\ order.goods = receipt.quantity
          /\ o \in Invoiced => db[Buying!Match(o)] # Absent

(* What the rows of an order hold.                                          *)
OrderHolds(o) ==
  /\ db[Buying!The(o)] \in Buying!OrderRow
  /\ db[Buying!Receipt(o)] \in Buying!ReceiptRow \cup {Absent}
  /\ db[Buying!Bill(o)] \in Quantity \cup {Absent}
  /\ o \in Invoiced => db[Buying!Bill(o)] # Absent

(* What a request about an order knows of it.                               *)
Buys(s) ==
  /\ at[s] \in {"move", "receive", "edit", "drop", "confirm", "bill", "commit"} => job[s].order \in Order
  /\ at[s] = "move" => job[s].to \in Buying!Status \ {Buying!Delivered}
  /\ at[s] \in {"edit", "bill"} => job[s].quantity \in Quantity
  /\ at[s] = "bill" => job[s].order \in Invoiced
  /\ at[s] = "resolve" => job[s].dispute \in Dispute
  /\ at[s] # "commit" => DOMAIN mine[s] = {}

(* A receipt that is confirmed and not committed: what will be published is *)
(* what is there with the goods that came, since the order and the receipt  *)
(* are locked; and there is a matching, the request's or another's.         *)
Confirms(s) ==
  at[s] = "commit" =>
    LET o == job[s].order
        m == mine[s]
        receipt == db[Buying!Receipt(o)]
    IN
    /\ {Buying!The(o), Buying!Receipt(o)} \subseteq DOMAIN m
    /\ DOMAIN m \subseteq {Buying!The(o), Buying!Receipt(o), Buying!Match(o)} \cup ({"dispute"} \X Dispute)
    /\ receipt # Absent /\ ~receipt.confirmed
    /\ m[Buying!The(o)] =
         Buying!Moved([db[Buying!The(o)] EXCEPT !.goods = @ + receipt.quantity], Buying!Delivered)
    /\ m[Buying!Receipt(o)] = [confirmed |-> TRUE, quantity |-> receipt.quantity]
    /\ Buying!Match(o) \in DOMAIN m => m[Buying!Match(o)] # Absent
    /\ o \in Invoiced => Buying!Match(o) \in DOMAIN m \/ db[Buying!Match(o)] # Absent

(* The requests, their labels and what they hold.                           *)
Served ==
  /\ DOMAIN at = Session /\ DOMAIN job = Session /\ DOMAIN mine = Session
  /\ at = [s \in Session |-> at[s]] /\ job = [s \in Session |-> job[s]]
  /\ mine = [s \in Session |-> mine[s]]

(* The invariant of orders.                                                 *)
OrdersInv ==
  /\ Served /\ DOMAIN db = Buying!Row
  /\ \A o \in Order : OrderHolds(o) /\ Came(o)
  /\ \A s \in Session : Buys(s) /\ Confirms(s)
  /\ \A s, t \in Session : s # t /\ at[s] = "commit" /\ at[t] = "commit" => job[s].order # job[t].order

(* The rows of an order are rows, and differ.                               *)
LEMMA OrderRows ==
  ASSUME NEW o \in Order
  PROVE  /\ {Buying!The(o), Buying!Receipt(o), Buying!Bill(o), Buying!Match(o)} \subseteq Buying!Row
         /\ \A d \in Dispute : <<"dispute", d>> \in Buying!Row
         /\ \A p \in Order :
              /\ Buying!The(o) = Buying!The(p) <=> o = p
              /\ Buying!Receipt(o) = Buying!Receipt(p) <=> o = p
              /\ Buying!Bill(o) = Buying!Bill(p) <=> o = p
              /\ Buying!Match(o) = Buying!Match(p) <=> o = p
              /\ Buying!The(o) \notin {Buying!Receipt(p), Buying!Bill(p), Buying!Match(p)}
              /\ Buying!Receipt(o) \notin {Buying!Bill(p), Buying!Match(p)}
              /\ Buying!Bill(o) # Buying!Match(p)
         /\ {Buying!The(o), Buying!Receipt(o), Buying!Bill(o), Buying!Match(o)} \cap ({"dispute"} \X Dispute) = {}
BY DEF Buying!The, Buying!Receipt, Buying!Bill, Buying!Match, Buying!Row

(* A change of status leads on from the status that is there.               *)
LEMMA MovedLeads ==
  ASSUME NEW order \in Buying!OrderRow, Leads(order), NEW status \in Buying!Status
  PROVE  LET new == Buying!Moved(order, status) IN
         /\ new \in Buying!OrderRow /\ Leads(new) /\ new.goods = order.goods
         /\ Deliveries(new) = Deliveries(order)
              \cup {i \in {Len(order.trail) + 1} : status = Buying!Delivered}
         /\ Len(order.trail) + 1 \notin Deliveries(order)
<1> DEFINE new == Buying!Moved(order, status)
           step == [from |-> order.status, to |-> status]
           n == Len(order.trail)
<1>1. /\ order.trail \in Seq([from : Buying!Status, to : Buying!Status]) /\ order.status \in Buying!Status
      /\ n \in Nat
  BY DEF Buying!OrderRow
<1>2. /\ new.status = status /\ new.trail = Append(order.trail, step) /\ new.goods = order.goods
      /\ new \in Buying!OrderRow
  <2>1. new = [order EXCEPT !.status = status, !.trail = Append(@, step)]
    BY DEF Buying!Moved
  <2>2. Append(order.trail, step) \in Seq([from : Buying!Status, to : Buying!Status])
    BY <1>1
  <2> QED
    BY <2>1, <2>2 DEF Buying!OrderRow
<1>3. /\ Len(new.trail) = n + 1 /\ new.trail[n + 1] = step
      /\ \A i \in 1 .. n : new.trail[i] = order.trail[i]
  BY <1>1, <1>2
<1>4. new.trail # << >>
  BY <1>3, <1>1
<1>5. order.trail = << >> <=> n = 0
  BY <1>1
<1>6. Leads(new)
  <2>1. ASSUME NEW i \in 1 .. n + 1
        PROVE  new.trail[i].from = IF i = 1 THEN Buying!Pending ELSE new.trail[i - 1].to
    <3>1. CASE i \in 1 .. n
      BY <3>1, <1>3, <1>1 DEF Leads
    <3>2. CASE i = n + 1
      <4>1. new.trail[i].from = order.status
        BY <3>2, <1>3
      <4>2. CASE n = 0
        BY <4>1, <4>2, <3>2, <1>5 DEF Leads
      <4>3. CASE n # 0
        BY <4>1, <4>3, <3>2, <1>5, <1>3, <1>1 DEF Leads
      <4> QED
        BY <4>2, <4>3
    <3> QED
      BY <3>1, <3>2, <1>1
  <2>2. new.status = new.trail[n + 1].to
    BY <1>2, <1>3
  <2> QED
    BY <2>1, <2>2, <1>3, <1>4 DEF Leads
<1>7. Deliveries(new) = Deliveries(order) \cup {i \in {n + 1} : status = Buying!Delivered}
  <2>1. new.trail[n + 1].to = status
    BY <1>3
  <2> QED
    BY <2>1, <1>3, <1>1 DEF Deliveries
<1> QED
  BY <1>2, <1>6, <1>7, <1>1 DEF Deliveries

(* A change by hand leaves the deliveries as they are, a confirmation adds  *)
(* the first one.                                                           *)
LEMMA Delivers ==
  ASSUME NEW order \in Buying!OrderRow, Leads(order), NEW q \in Nat
  PROVE  /\ \A status \in Buying!Status \ {Buying!Delivered} :
              Deliveries(Buying!Moved(order, status)) = Deliveries(order)
         /\ LET new == Buying!Moved([order EXCEPT !.goods = @ + q], Buying!Delivered) IN
            /\ new \in Buying!OrderRow /\ Leads(new) /\ new.goods = order.goods + q
            /\ Deliveries(new) # {}
            /\ Deliveries(order) = {} => Cardinality(Deliveries(new)) = 1
<1>1. \A status \in Buying!Status \ {Buying!Delivered} :
        Deliveries(Buying!Moved(order, status)) = Deliveries(order)
  BY MovedLeads
<1> DEFINE full == [order EXCEPT !.goods = @ + q]
           new == Buying!Moved(full, Buying!Delivered)
<1>2. full \in Buying!OrderRow /\ full.trail = order.trail /\ full.status = order.status
      /\ full.goods = order.goods + q
  BY DEF Buying!OrderRow
<1>3. Leads(full) /\ Deliveries(full) = Deliveries(order)
  BY <1>2 DEF Leads, Deliveries
<1>4. Buying!Delivered \in Buying!Status
  BY DEF Buying!Status
<1>5. /\ new \in Buying!OrderRow /\ Leads(new) /\ new.goods = full.goods
      /\ Deliveries(new) = Deliveries(full) \cup {i \in {Len(full.trail) + 1} : Buying!Delivered = Buying!Delivered}
  BY <1>2, <1>3, <1>4, MovedLeads
<1>6. Deliveries(order) = {} => Deliveries(new) = {Len(full.trail) + 1}
  BY <1>5, <1>3
<1> QED
  BY <1>1, <1>2, <1>3, <1>5, <1>6, FS_Singleton

(* Nothing is changed of another request.                                   *)
Only(s) ==
  /\ Served'
  /\ \A t \in Session \ {s} : at'[t] = at[t] /\ job'[t] = job[t] /\ mine'[t] = mine[t]

(* Every handler moves one request on.                                      *)
LEMMA OneRequest ==
  ASSUME Served, NEW s \in Session, NEW label, NEW j, Buying!Goto(s, label, j),
         mine' = mine \/ \E m : mine' = [mine EXCEPT ![s] = m]
  PROVE  Only(s) /\ at'[s] = label /\ job'[s] = j
BY DEF Served, Only, Buying!Goto

(* A step that changes no row keeps the invariant, if the request it moves  *)
(* on has what it needs.                                                    *)
LEMMA NoRowChanges ==
  ASSUME OrdersInv, NEW s \in Session, Only(s), db' = db, at'[s] # "commit", Buys(s)'
  PROVE  OrdersInv'
<1>1. \A o \in Order : OrderHolds(o)' /\ Came(o)'
  BY DEF OrdersInv, OrderHolds, Came
<1>2. \A t \in Session : Buys(t)' /\ Confirms(t)'
  BY DEF OrdersInv, Only, Buys, Confirms
<1> QED
  BY <1>1, <1>2 DEF OrdersInv, Only

(* What happens to an order that is not moved: a receipt that nobody has    *)
(* confirmed changes, and there may be a matching that was not.             *)
LEMMA StaysCame ==
  ASSUME Buying!OrdersConstants, NEW o \in Order, OrderHolds(o), Came(o),
         db'[Buying!The(o)] = db[Buying!The(o)],
         \/ db'[Buying!Receipt(o)] = db[Buying!Receipt(o)]
         \/ /\ db[Buying!Receipt(o)] = Absent \/ ~db[Buying!Receipt(o)].confirmed
            /\ db'[Buying!Receipt(o)] \in Buying!ReceiptRow \cup {Absent},
         db'[Buying!Bill(o)] \in {db[Buying!Bill(o)]} \cup Quantity,
         db[Buying!Match(o)] # Absent => db'[Buying!Match(o)] # Absent
  PROVE  OrderHolds(o)' /\ Came(o)'
<1>1. OrderHolds(o)'
  BY DEF OrderHolds, Buying!OrdersConstants
<1>2. Came(o)'
  <2>1. CASE db'[Buying!Receipt(o)] = db[Buying!Receipt(o)]
    BY <2>1 DEF Came
  <2>2. CASE db[Buying!Receipt(o)] = Absent \/ ~db[Buying!Receipt(o)].confirmed
    <3>1. Deliveries(db[Buying!The(o)]) = {}
      BY <2>2 DEF Came
    <3> QED
      BY <3>1 DEF Came
  <2> QED
    BY <2>1, <2>2
<1> QED
  BY <1>1, <1>2

(* A statement that commits by itself keeps the invariant if it keeps what  *)
(* the tables hold: nobody else has written its rows.                       *)
LEMMA TablesChange ==
  ASSUME OrdersInv, NEW s \in Session, Only(s), at'[s] = "idle", DOMAIN mine'[s] = {},
         DOMAIN db' = Buying!Row, NEW R, \A r \in Buying!Row \ R : db'[r] = db[r],
         \A t \in Session \ {s} : R \cap DOMAIN mine[t] = {},
         \A o \in Order : OrderHolds(o)' /\ Came(o)',
         \A o \in Order : db[Buying!Match(o)] # Absent => db'[Buying!Match(o)] # Absent
  PROVE  OrdersInv'
<1>1. \A t \in Session : Buys(t)'
  BY DEF OrdersInv, Only, Buys
<1>2. ASSUME NEW t \in Session PROVE Confirms(t)'
  <2>1. CASE t = s
    BY <2>1 DEF Confirms
  <2>2. CASE t # s /\ at[t] = "commit"
    <3> DEFINE o == job[t].order
    <3>1. o \in Order /\ Confirms(t) /\ at'[t] = at[t] /\ job'[t] = job[t] /\ mine'[t] = mine[t]
      BY <2>2 DEF OrdersInv, Buys, Only
    <3>2. {Buying!The(o), Buying!Receipt(o)} \subseteq DOMAIN mine[t]
      BY <3>1, <2>2 DEF Confirms
    <3>3. db'[Buying!The(o)] = db[Buying!The(o)] /\ db'[Buying!Receipt(o)] = db[Buying!Receipt(o)]
      BY <3>1, <3>2, <2>2, OrderRows
    <3> QED
      BY <3>1, <3>3, <2>2 DEF Confirms
  <2>3. CASE t # s /\ at[t] # "commit"
    BY <2>3 DEF Only, Confirms
  <2> QED
    BY <2>1, <2>2, <2>3
<1> QED
  BY <1>1, <1>2 DEF OrdersInv, Only

(* A statement that commits by itself.                                      *)
LEMMA DoneIs ==
  ASSUME OrdersInv, NEW s \in Session, at[s] # "commit", NEW new,
         DOMAIN new \subseteq Buying!Row, Buying!Done(s, new)
  PROVE  /\ Only(s) /\ at'[s] = "idle" /\ DOMAIN mine'[s] = {} /\ DOMAIN db' = Buying!Row
         /\ \A r \in Buying!Row : db'[r] = IF r \in DOMAIN new THEN new[r] ELSE db[r]
         /\ \A t \in Session \ {s} : DOMAIN new \cap DOMAIN mine[t] = {}
<1>1. /\ Buying!Goto(s, "idle", NoJob) /\ mine' = mine /\ db' = Buying!Over(new, db)
      /\ Buying!Free(s, DOMAIN new)
  BY DEF Buying!Done, Buying!Apply
<1>2. Only(s) /\ at'[s] = "idle"
  BY <1>1, OneRequest DEF OrdersInv
<1>3. DOMAIN mine'[s] = {}
  BY <1>1 DEF OrdersInv, Buys
<1>4. /\ DOMAIN db' = Buying!Row
      /\ \A r \in Buying!Row : db'[r] = IF r \in DOMAIN new THEN new[r] ELSE db[r]
  BY <1>1 DEF Buying!Over, OrdersInv
<1> QED
  BY <1>1, <1>2, <1>3, <1>4 DEF Buying!Free

(* A request that gives up.                                                 *)
LEMMA RolledBack ==
  ASSUME OrdersInv, NEW s \in Session, Buying!Rollback(s)
  PROVE  OrdersInv'
<1>1. /\ Buying!Goto(s, "idle", NoJob) /\ db' = db /\ mine' = [mine EXCEPT ![s] = Buying!Unwritten]
  BY DEF Buying!Rollback
<1>2. Only(s) /\ at'[s] = "idle"
  BY <1>1, OneRequest DEF OrdersInv
<1>3. DOMAIN mine'[s] = {}
  BY <1>1 DEF OrdersInv, Served, Buying!Unwritten
<1> QED
  BY <1>1, <1>2, <1>3, NoRowChanges DEF Buys

(* A request arrives.                                                       *)
LEMMA Begun ==
  ASSUME OrdersInv, NEW s \in Session, NEW label, NEW j, Buying!Begin(s, label, j), label # "commit",
         label \in {"move", "receive", "edit", "drop", "confirm", "bill"} => j.order \in Order,
         label = "move" => j.to \in Buying!Status \ {Buying!Delivered},
         label \in {"edit", "bill"} => j.quantity \in Quantity,
         label = "bill" => j.order \in Invoiced,
         label = "resolve" => j.dispute \in Dispute
  PROVE  OrdersInv'
<1>1. Buying!Goto(s, label, j) /\ at[s] = "idle" /\ db' = db /\ mine' = mine
  BY DEF Buying!Begin
<1>2. Only(s) /\ at'[s] = label /\ job'[s] = j
  BY <1>1, OneRequest DEF OrdersInv
<1>3. DOMAIN mine'[s] = {}
  BY <1>1 DEF OrdersInv, Buys
<1>4. Buys(s)'
  BY <1>2, <1>3 DEF Buys
<1> QED
  BY <1>1, <1>2, <1>4, NoRowChanges

(* The status changes by hand.                                              *)
LEMMA MoveKeeps ==
  ASSUME Buying!OrdersConstants, OrdersInv, NEW s \in Session, Buying!Move(s)
  PROVE  OrdersInv'
<1> DEFINE o == job[s].order
           r == Buying!The(o)
           new == [x \in {r} |-> Buying!Moved(db[r], job[s].to)]
<1>1. at[s] = "move" /\ Buying!Done(s, new)
  BY DEF Buying!Move
<1>2. o \in Order /\ job[s].to \in Buying!Status \ {Buying!Delivered}
  BY <1>1 DEF OrdersInv, Buys
<1>3. r \in Buying!Row /\ DOMAIN new = {r} /\ new[r] = Buying!Moved(db[r], job[s].to)
  BY <1>2, OrderRows
<1> HIDE DEF new
<1>4. /\ Only(s) /\ at'[s] = "idle" /\ DOMAIN mine'[s] = {} /\ DOMAIN db' = Buying!Row
      /\ \A x \in Buying!Row : db'[x] = IF x \in {r} THEN new[x] ELSE db[x]
      /\ \A t \in Session \ {s} : {r} \cap DOMAIN mine[t] = {}
  BY <1>1, <1>3, DoneIs
<1>5. ASSUME NEW p \in Order PROVE OrderHolds(p)' /\ Came(p)'
  <2>0. /\ OrderHolds(p) /\ Came(p)
        /\ db'[Buying!Receipt(p)] = db[Buying!Receipt(p)] /\ db'[Buying!Bill(p)] = db[Buying!Bill(p)]
        /\ db'[Buying!Match(p)] = db[Buying!Match(p)]
    BY <1>2, <1>4, OrderRows DEF OrdersInv
  <2>1. CASE p # o
    <3>1. db'[Buying!The(p)] = db[Buying!The(p)]
      BY <2>1, <1>2, <1>4, OrderRows
    <3> QED
      BY <3>1, <2>0, StaysCame
  <2>2. CASE p = o
    <3>1. db[r] \in Buying!OrderRow /\ Leads(db[r])
      BY <2>0, <2>2 DEF OrderHolds, Came
    <3>2. db'[r] = Buying!Moved(db[r], job[s].to)
      BY <1>3, <1>4
    <3>3. /\ db'[r] \in Buying!OrderRow /\ Leads(db'[r]) /\ db'[r].goods = db[r].goods
          /\ Deliveries(db'[r]) = Deliveries(db[r])
      <4> DEFINE old == db[r]
                 to == job[s].to
      <4>1. to \in Buying!Status \ {Buying!Delivered} /\ old \in Buying!OrderRow /\ Leads(old)
        BY <1>2, <3>1
      <4> HIDE DEF old, to
      <4>2. /\ Buying!Moved(old, to) \in Buying!OrderRow /\ Leads(Buying!Moved(old, to))
            /\ Buying!Moved(old, to).goods = old.goods
        BY <4>1, MovedLeads
      <4>3. Deliveries(Buying!Moved(old, to)) = Deliveries(old)
        <5>1. 0 \in Nat OBVIOUS
        <5> QED BY <5>1, <4>1, Delivers
      <4> QED
        BY <4>2, <4>3, <3>2 DEF old, to
    <3> QED
      BY <3>3, <2>0, <2>2 DEF OrderHolds, Came
  <2> QED
    BY <2>1, <2>2
<1>6. \A p \in Order : db'[Buying!Match(p)] = db[Buying!Match(p)]
  BY <1>2, <1>4, OrderRows
<1> QED
  BY <1>4, <1>5, <1>6, TablesChange

(* A statement that moves no order and commits by itself.                   *)
LEMMA RestChanges ==
  ASSUME Buying!OrdersConstants, OrdersInv, NEW s \in Session, Only(s), at'[s] = "idle",
         DOMAIN mine'[s] = {}, DOMAIN db' = Buying!Row,
         NEW R, \A r \in Buying!Row \ R : db'[r] = db[r],
         \A t \in Session \ {s} : R \cap DOMAIN mine[t] = {},
         \A o \in Order :
           /\ db'[Buying!The(o)] = db[Buying!The(o)]
           /\ \/ db'[Buying!Receipt(o)] = db[Buying!Receipt(o)]
              \/ /\ db[Buying!Receipt(o)] = Absent \/ ~db[Buying!Receipt(o)].confirmed
                 /\ db'[Buying!Receipt(o)] \in Buying!ReceiptRow \cup {Absent}
           /\ db'[Buying!Bill(o)] \in {db[Buying!Bill(o)]} \cup Quantity
           /\ db[Buying!Match(o)] # Absent => db'[Buying!Match(o)] # Absent
  PROVE  OrdersInv'
<1>1. ASSUME NEW o \in Order PROVE OrderHolds(o)' /\ Came(o)'
  BY StaysCame DEF OrdersInv
<1> QED
  BY <1>1, TablesChange

(* A receipt is written that nobody has confirmed, or deleted.              *)
LEMMA ReceiptChanges ==
  ASSUME Buying!OrdersConstants, OrdersInv, NEW s \in Session, at[s] # "commit", NEW o \in Order,
         NEW row \in Buying!ReceiptRow \cup {Absent},
         db[Buying!Receipt(o)] = Absent \/ ~db[Buying!Receipt(o)].confirmed,
         Buying!Done(s, [x \in {Buying!Receipt(o)} |-> row])
  PROVE  OrdersInv'
<1> DEFINE r == Buying!Receipt(o)
           new == [x \in {r} |-> row]
<1>1. r \in Buying!Row /\ DOMAIN new = {r} /\ new[r] = row
  BY OrderRows
<1>2. Buying!Done(s, new)
  OBVIOUS
<1> HIDE DEF new
<1>3. /\ Only(s) /\ at'[s] = "idle" /\ DOMAIN mine'[s] = {} /\ DOMAIN db' = Buying!Row
      /\ \A x \in Buying!Row : db'[x] = IF x \in {r} THEN new[x] ELSE db[x]
      /\ \A t \in Session \ {s} : {r} \cap DOMAIN mine[t] = {}
  BY <1>1, <1>2, DoneIs
<1>4. ASSUME NEW p \in Order
      PROVE  /\ db'[Buying!The(p)] = db[Buying!The(p)]
             /\ \/ db'[Buying!Receipt(p)] = db[Buying!Receipt(p)]
                \/ /\ db[Buying!Receipt(p)] = Absent \/ ~db[Buying!Receipt(p)].confirmed
                   /\ db'[Buying!Receipt(p)] \in Buying!ReceiptRow \cup {Absent}
             /\ db'[Buying!Bill(p)] = db[Buying!Bill(p)]
             /\ db'[Buying!Match(p)] = db[Buying!Match(p)]
  <2>1. /\ db'[Buying!The(p)] = db[Buying!The(p)] /\ db'[Buying!Bill(p)] = db[Buying!Bill(p)]
        /\ db'[Buying!Match(p)] = db[Buying!Match(p)]
    BY <1>3, OrderRows
  <2>2. CASE p = o
    BY <2>1, <2>2, <1>1, <1>3
  <2>3. CASE p # o
    BY <2>1, <2>3, <1>3, OrderRows
  <2> QED
    BY <2>2, <2>3
<1> QED
  BY <1>3, <1>4, RestChanges

(* A receipt is begun, edited or cancelled.                                 *)
LEMMA ReceivingKeeps ==
  ASSUME Buying!OrdersConstants, OrdersInv, NEW s \in Session,
         Buying!InsertReceipt(s) \/ Buying!EditReceipt(s) \/ Buying!DropReceipt(s)
  PROVE  OrdersInv'
<1>1. CASE Buying!InsertReceipt(s)
  <2> DEFINE r == Buying!Receipt(job[s].order)
             row == [confirmed |-> FALSE, quantity |-> Ordered]
  <2>1. at[s] = "receive" /\ job[s].order \in Order
    BY <1>1 DEF Buying!InsertReceipt, OrdersInv, Buys
  <2>2. CASE Buying!Rollback(s)
    BY <2>2, RolledBack
  <2>3. CASE db[r] = Absent /\ Buying!Done(s, [x \in {r} |-> row])
    <3>1. row \in Buying!ReceiptRow
      BY DEF Buying!ReceiptRow, Buying!OrdersConstants
    <3> HIDE DEF row
    <3> QED
      BY <2>1, <2>3, <3>1, ReceiptChanges
  <2> QED
    BY <1>1, <2>2, <2>3 DEF Buying!InsertReceipt
<1>2. CASE Buying!EditReceipt(s)
  <2> DEFINE o == job[s].order
             row == [confirmed |-> FALSE, quantity |-> job[s].quantity]
  <2>1. at[s] = "edit" /\ o \in Order /\ job[s].quantity \in Quantity
    BY <1>2 DEF Buying!EditReceipt, OrdersInv, Buys
  <2>2. CASE Buying!Rollback(s)
    BY <2>2, RolledBack
  <2>3. CASE Buying!OpenReceipt(o) /\ Buying!Done(s, [x \in {Buying!Receipt(o)} |-> row])
    <3>1. row \in Buying!ReceiptRow
      BY <2>1 DEF Buying!ReceiptRow
    <3> HIDE DEF row
    <3> QED
      BY <2>1, <2>3, <3>1, ReceiptChanges DEF Buying!OpenReceipt
  <2> QED
    BY <1>2, <2>2, <2>3 DEF Buying!EditReceipt
<1>3. CASE Buying!DropReceipt(s)
  <2> DEFINE o == job[s].order
  <2>1. at[s] = "drop" /\ o \in Order
    BY <1>3 DEF Buying!DropReceipt, OrdersInv, Buys
  <2>2. CASE Buying!Rollback(s)
    BY <2>2, RolledBack
  <2>3. CASE Buying!OpenReceipt(o) /\ Buying!Done(s, [x \in {Buying!Receipt(o)} |-> Absent])
    BY <2>1, <2>3, ReceiptChanges DEF Buying!OpenReceipt
  <2> QED
    BY <1>3, <2>2, <2>3 DEF Buying!DropReceipt
<1> QED
  BY <1>1, <1>2, <1>3

(* The invoice, the matching by hand and the disputes.                      *)
LEMMA BillKeeps ==
  ASSUME Buying!OrdersConstants, OrdersInv, NEW s \in Session, Buying!UpdateBill(s)
  PROVE  OrdersInv'
<1> DEFINE o == job[s].order
           b == Buying!Bill(o)
           new == [x \in {b} |-> job[s].quantity]
<1>1. at[s] = "bill" /\ Buying!Done(s, new) /\ o \in Order /\ job[s].quantity \in Quantity
  BY DEF Buying!UpdateBill, OrdersInv, Buys
<1>2. b \in Buying!Row /\ DOMAIN new = {b} /\ new[b] = job[s].quantity
  BY <1>1, OrderRows
<1> HIDE DEF new
<1>3. /\ Only(s) /\ at'[s] = "idle" /\ DOMAIN mine'[s] = {} /\ DOMAIN db' = Buying!Row
      /\ \A x \in Buying!Row : db'[x] = IF x \in {b} THEN new[x] ELSE db[x]
      /\ \A t \in Session \ {s} : {b} \cap DOMAIN mine[t] = {}
  BY <1>1, <1>2, DoneIs
<1>4. ASSUME NEW p \in Order
      PROVE  /\ db'[Buying!The(p)] = db[Buying!The(p)]
             /\ db'[Buying!Receipt(p)] = db[Buying!Receipt(p)]
             /\ db'[Buying!Match(p)] = db[Buying!Match(p)]
             /\ db'[Buying!Bill(p)] \in {db[Buying!Bill(p)]} \cup Quantity
  <2>1. /\ db'[Buying!The(p)] = db[Buying!The(p)] /\ db'[Buying!Receipt(p)] = db[Buying!Receipt(p)]
        /\ db'[Buying!Match(p)] = db[Buying!Match(p)]
    BY <1>1, <1>3, OrderRows
  <2>2. CASE Buying!Bill(p) = b
    BY <2>1, <2>2, <1>1, <1>2, <1>3
  <2>3. CASE Buying!Bill(p) # b
    BY <2>1, <2>3, <1>3, OrderRows
  <2> QED
    BY <2>2, <2>3
<1> QED
  BY <1>3, <1>4, RestChanges

(* A matching: none, or a row of the order that has none.                   *)
LEMMA MatchingIs ==
  ASSUME Buying!OrdersConstants, NEW o \in Order, OrderHolds(o), NEW q \in Quantity
  PROVE  LET m == Buying!Matching(o, q) IN
         /\ DOMAIN m \subseteq {Buying!Match(o)}
         /\ \A r \in DOMAIN m : m[r] # Absent
         /\ o \in Invoiced => Buying!Match(o) \in DOMAIN m \/ db[Buying!Match(o)] # Absent
<1>1. CASE db[Buying!Bill(o)] = Absent \/ db[Buying!Match(o)] # Absent
  BY <1>1 DEF Buying!Matching, Buying!Unwritten, OrderHolds
<1>2. CASE ~(db[Buying!Bill(o)] = Absent \/ db[Buying!Match(o)] # Absent)
  <2> DEFINE row == [receipt |-> q, billed |-> db[Buying!Bill(o)]]
  <2>1. row \in [receipt : Quantity, billed : Quantity]
    BY <1>2 DEF OrderHolds
  <2>2. row # Absent
    BY <2>1 DEF Buying!OrdersConstants
  <2>3. Buying!Matching(o, q) = [r \in {Buying!Match(o)} |-> row]
    BY <1>2 DEF Buying!Matching
  <2> HIDE DEF row
  <2> QED
    BY <2>2, <2>3
<1> QED
  BY <1>1, <1>2

LEMMA ByHandKeeps ==
  ASSUME Buying!OrdersConstants, OrdersInv, NEW s \in Session,
         Buying!MatchByHand(s) \/ Buying!CreateDispute(s)
  PROVE  OrdersInv'
<1>1. /\ at[s] = "idle" /\ at' = at /\ job' = job /\ mine' = mine
  BY DEF Buying!MatchByHand, Buying!CreateDispute
<1>2. Only(s) /\ at'[s] = "idle" /\ DOMAIN mine'[s] = {}
  BY <1>1 DEF Only, Served, OrdersInv, Buys
<1>3. CASE Buying!MatchByHand(s)
  <2>1. PICK o \in Order :
          /\ db[Buying!Receipt(o)] # Absent /\ Buying!Free(s, {Buying!Match(o)})
          /\ db' = Buying!Over(Buying!Matching(o, db[Buying!Receipt(o)].quantity), db)
    BY <1>3 DEF Buying!MatchByHand
  <2> DEFINE m == Buying!Matching(o, db[Buying!Receipt(o)].quantity)
  <2>2. db[Buying!Receipt(o)].quantity \in Quantity /\ OrderHolds(o)
    BY <2>1 DEF OrdersInv, OrderHolds, Buying!ReceiptRow
  <2>3. DOMAIN m \subseteq {Buying!Match(o)} /\ \A r \in DOMAIN m : m[r] # Absent
    BY <2>2, MatchingIs
  <2> HIDE DEF m
  <2>4. /\ DOMAIN db' = Buying!Row
        /\ \A x \in Buying!Row : db'[x] = IF x \in DOMAIN m THEN m[x] ELSE db[x]
    BY <2>1, <2>3, OrderRows DEF m, Buying!Over, OrdersInv
  <2>5. \A t \in Session \ {s} : DOMAIN m \cap DOMAIN mine[t] = {}
    BY <2>1, <2>3 DEF Buying!Free
  <2>6. ASSUME NEW p \in Order
        PROVE  /\ db'[Buying!The(p)] = db[Buying!The(p)]
               /\ db'[Buying!Receipt(p)] = db[Buying!Receipt(p)]
               /\ db'[Buying!Bill(p)] = db[Buying!Bill(p)]
               /\ db[Buying!Match(p)] # Absent => db'[Buying!Match(p)] # Absent
    BY <2>3, <2>4, OrderRows
  <2> QED
    BY <1>2, <2>4, <2>5, <2>6, RestChanges
<1>4. CASE Buying!CreateDispute(s)
  <2>1. PICK o \in Order, d \in Dispute :
          /\ Buying!Free(s, {<<"dispute", d>>})
          /\ db' = [db EXCEPT ![<<"dispute", d>>] = [of |-> o, resolved |-> 0]]
    BY <1>4 DEF Buying!CreateDispute
  <2> DEFINE r == <<"dispute", d>>
  <2>2. /\ DOMAIN db' = Buying!Row /\ \A x \in Buying!Row \ {r} : db'[x] = db[x]
    BY <2>1 DEF OrdersInv
  <2>3. \A t \in Session \ {s} : {r} \cap DOMAIN mine[t] = {}
    BY <2>1 DEF Buying!Free
  <2>4. ASSUME NEW p \in Order
        PROVE  r \notin {Buying!The(p), Buying!Receipt(p), Buying!Bill(p), Buying!Match(p)}
    BY OrderRows
  <2>5. ASSUME NEW p \in Order
        PROVE  /\ db'[Buying!The(p)] = db[Buying!The(p)]
               /\ db'[Buying!Receipt(p)] = db[Buying!Receipt(p)]
               /\ db'[Buying!Bill(p)] = db[Buying!Bill(p)]
               /\ db'[Buying!Match(p)] = db[Buying!Match(p)]
    BY <2>2, <2>4, OrderRows
  <2> HIDE DEF r
  <2> QED
    BY <1>2, <2>2, <2>3, <2>5, RestChanges
<1> QED
  BY <1>3, <1>4

LEMMA ResolveKeeps ==
  ASSUME Buying!OrdersConstants, OrdersInv, NEW s \in Session, Buying!Resolve(s)
  PROVE  OrdersInv'
<1> DEFINE r == <<"dispute", job[s].dispute>>
           new == [x \in {r} |-> [db[r] EXCEPT !.resolved = @ + 1]]
<1>1. at[s] = "resolve" /\ Buying!Done(s, new) /\ job[s].dispute \in Dispute
  BY DEF Buying!Resolve, OrdersInv, Buys
<1>2. r \in Buying!Row /\ DOMAIN new = {r}
  BY <1>1 DEF Buying!Row
<1>3. ASSUME NEW p \in Order
      PROVE  r \notin {Buying!The(p), Buying!Receipt(p), Buying!Bill(p), Buying!Match(p)}
  BY <1>1, OrderRows
<1> HIDE DEF new, r
<1>4. /\ Only(s) /\ at'[s] = "idle" /\ DOMAIN mine'[s] = {} /\ DOMAIN db' = Buying!Row
      /\ \A x \in Buying!Row : db'[x] = IF x \in {r} THEN new[x] ELSE db[x]
      /\ \A t \in Session \ {s} : {r} \cap DOMAIN mine[t] = {}
  BY <1>1, <1>2, DoneIs
<1>5. ASSUME NEW p \in Order
      PROVE  /\ db'[Buying!The(p)] = db[Buying!The(p)]
             /\ db'[Buying!Receipt(p)] = db[Buying!Receipt(p)]
             /\ db'[Buying!Bill(p)] = db[Buying!Bill(p)]
             /\ db'[Buying!Match(p)] = db[Buying!Match(p)]
  BY <1>3, <1>4, OrderRows
<1> QED
  BY <1>4, <1>5, RestChanges

(* A receipt is confirmed: what its transaction has written is what it is   *)
(* to publish.                                                              *)
LEMMA ConfirmKeeps ==
  ASSUME Buying!OrdersConstants, OrdersInv, NEW s \in Session, Buying!ConfirmReceipt(s)
  PROVE  OrdersInv'
<1> DEFINE o == job[s].order
           q == db[Buying!Receipt(o)].quantity
           moved == Buying!Moved([db[Buying!The(o)] EXCEPT !.goods = @ + q], Buying!Delivered)
           base == [r \in {Buying!Receipt(o), Buying!The(o)} |->
                      IF r = Buying!The(o)
                      THEN Buying!Moved([db[r] EXCEPT !.goods = @ + q], Buying!Delivered)
                      ELSE [confirmed |-> TRUE, quantity |-> q]]
           m == Buying!Matching(o, q)
<1>1. at[s] = "confirm" /\ o \in Order /\ Buying!Free(s, {Buying!Receipt(o), Buying!The(o)})
  BY DEF Buying!ConfirmReceipt, OrdersInv, Buys
<1>2. CASE Buying!Rollback(s)
  BY <1>2, RolledBack
<1>3. ASSUME Buying!OpenReceipt(o), NEW dispute \in Buying!Complaint(o, m),
             Buying!Write(s, Buying!Over(dispute, Buying!Over(m, base)), "commit", job[s])
      PROVE  OrdersInv'
  <2> DEFINE w == Buying!Over(dispute, Buying!Over(m, base))
  <2>1. q \in Quantity /\ OrderHolds(o) /\ db[Buying!Receipt(o)] # Absent /\ ~db[Buying!Receipt(o)].confirmed
    BY <1>1, <1>3 DEF OrdersInv, OrderHolds, Buying!ReceiptRow, Buying!OpenReceipt
  <2>2. /\ DOMAIN m \subseteq {Buying!Match(o)} /\ \A r \in DOMAIN m : m[r] # Absent
        /\ o \in Invoiced => Buying!Match(o) \in DOMAIN m \/ db[Buying!Match(o)] # Absent
    BY <1>1, <2>1, MatchingIs
  <2>3. DOMAIN dispute \subseteq {"dispute"} \X Dispute
    <3>1. \/ dispute = Buying!Unwritten
          \/ \E d \in Dispute : dispute = [r \in {<<"dispute", d>>} |-> [of |-> o, resolved |-> 0]]
      BY <1>3 DEF Buying!Complaint
    <3>2. CASE dispute = Buying!Unwritten
      BY <3>2 DEF Buying!Unwritten
    <3>3. ASSUME NEW d \in Dispute, dispute = [r \in {<<"dispute", d>>} |-> [of |-> o, resolved |-> 0]]
          PROVE  DOMAIN dispute \subseteq {"dispute"} \X Dispute
      BY <3>3
    <3> QED
      BY <3>1, <3>2, <3>3
  <2>4. /\ DOMAIN base = {Buying!Receipt(o), Buying!The(o)} /\ base[Buying!The(o)] = moved
        /\ base[Buying!Receipt(o)] = [confirmed |-> TRUE, quantity |-> q]
    BY <1>1, OrderRows
  <2> HIDE DEF base, m, moved
  <2>5. /\ DOMAIN w = DOMAIN dispute \cup DOMAIN m \cup {Buying!Receipt(o), Buying!The(o)}
        /\ \A r \in DOMAIN w : w[r] = IF r \in DOMAIN dispute THEN dispute[r]
                                      ELSE IF r \in DOMAIN m THEN m[r] ELSE base[r]
    BY <2>4 DEF Buying!Over
  <2>6. /\ w[Buying!The(o)] = moved
        /\ w[Buying!Receipt(o)] = [confirmed |-> TRUE, quantity |-> q]
        /\ Buying!Match(o) \in DOMAIN w <=> Buying!Match(o) \in DOMAIN m
        /\ Buying!Match(o) \in DOMAIN w => w[Buying!Match(o)] # Absent
    BY <1>1, <2>2, <2>3, <2>4, <2>5, OrderRows
  <2>7. /\ Buying!Goto(s, "commit", job[s]) /\ db' = db
        /\ mine' = [mine EXCEPT ![s] = Buying!Over(w, @)]
    BY <1>3 DEF Buying!Write
  <2>8. Only(s) /\ at'[s] = "commit" /\ job'[s] = job[s]
    BY <2>7, OneRequest DEF OrdersInv
  <2> HIDE DEF w
  <2>9. DOMAIN mine'[s] = DOMAIN w /\ \A r \in DOMAIN w : mine'[s][r] = w[r]
    <3>1. DOMAIN mine[s] = {} /\ s \in DOMAIN mine
      BY <1>1 DEF OrdersInv, Buys, Served
    <3>2. mine'[s] = Buying!Over(w, mine[s])
      BY <2>7, <3>1
    <3> QED
      BY <3>1, <3>2 DEF Buying!Over
  <2>10. Confirms(s)'
    <3>1. /\ {Buying!The(o), Buying!Receipt(o)} \subseteq DOMAIN w
          /\ DOMAIN w \subseteq {Buying!The(o), Buying!Receipt(o), Buying!Match(o)} \cup ({"dispute"} \X Dispute)
      BY <2>2, <2>3, <2>5
    <3> QED
      BY <3>1, <2>1, <2>2, <2>6, <2>7, <2>8, <2>9 DEF Confirms, moved
  <2>11. Buys(s)'
    BY <1>1, <2>8 DEF Buys
  <2>12. ASSUME NEW t \in Session PROVE Buys(t)' /\ Confirms(t)'
    <3>1. CASE t = s
      BY <3>1, <2>10, <2>11
    <3>2. CASE t # s
      BY <3>2, <2>7, <2>8 DEF OrdersInv, Only, Buys, Confirms
    <3> QED
      BY <3>1, <3>2
  <2>13. \A p \in Order : OrderHolds(p)' /\ Came(p)'
    BY <2>7 DEF OrdersInv, OrderHolds, Came
  <2>14. ASSUME NEW t \in Session, t # s, at[t] = "commit" PROVE job[t].order # o
    BY <2>14, <1>1 DEF Buying!Free, OrdersInv, Confirms
  <2>15. \A t, u \in Session : t # u /\ at'[t] = "commit" /\ at'[u] = "commit" =>
           job'[t].order # job'[u].order
    BY <2>8, <2>14 DEF OrdersInv, Only
  <2> QED
    BY <2>7, <2>8, <2>12, <2>13, <2>15 DEF OrdersInv, Only
<1> QED
  BY <1>2, <1>3 DEF Buying!ConfirmReceipt

(* It is committed: the trail has its delivery, the order its goods.        *)
LEMMA PublishKeeps ==
  ASSUME Buying!OrdersConstants, OrdersInv, NEW s \in Session, Buying!EndRequest(s)
  PROVE  OrdersInv'
<1>1. PICK o \in Order : at[s] = "commit" /\ o = job[s].order /\ Confirms(s)
  BY DEF Buying!EndRequest, OrdersInv, Buys
<1> DEFINE q == db[Buying!Receipt(o)].quantity
<1>2. /\ Buying!Goto(s, "idle", NoJob) /\ db' = Buying!Over(mine[s], db)
      /\ mine' = [mine EXCEPT ![s] = Buying!Unwritten]
  BY DEF Buying!EndRequest, Buying!Commit, Buying!Publish
<1>3. Only(s) /\ at'[s] = "idle" /\ DOMAIN mine'[s] = {}
  <2>1. Only(s) /\ at'[s] = "idle"
    BY <1>2, OneRequest DEF OrdersInv
  <2> QED
    BY <1>2, <2>1 DEF OrdersInv, Served, Buying!Unwritten
<1>4. DOMAIN mine[s] \subseteq {Buying!The(o), Buying!Receipt(o), Buying!Match(o)} \cup ({"dispute"} \X Dispute)
  BY <1>1 DEF Confirms
<1>5. DOMAIN mine[s] \subseteq Buying!Row
  BY <1>1, <1>4, OrderRows DEF Buying!Row
<1>6. /\ DOMAIN db' = Buying!Row
      /\ \A r \in Buying!Row : db'[r] = IF r \in DOMAIN mine[s] THEN mine[s][r] ELSE db[r]
  BY <1>2, <1>5 DEF Buying!Over, OrdersInv
<1>7. ASSUME NEW p \in Order, p # o
      PROVE  /\ db'[Buying!The(p)] = db[Buying!The(p)] /\ db'[Buying!Receipt(p)] = db[Buying!Receipt(p)]
             /\ db'[Buying!Bill(p)] = db[Buying!Bill(p)] /\ db'[Buying!Match(p)] = db[Buying!Match(p)]
  <2>1. {Buying!The(p), Buying!Receipt(p), Buying!Bill(p), Buying!Match(p)} \cap DOMAIN mine[s] = {}
    BY <1>1, <1>4, <1>7, OrderRows
  <2> QED
    BY <2>1, <1>6, OrderRows
<1>8. /\ db'[Buying!The(o)] = Buying!Moved([db[Buying!The(o)] EXCEPT !.goods = @ + q], Buying!Delivered)
      /\ db'[Buying!Receipt(o)] = [confirmed |-> TRUE, quantity |-> q]
      /\ db'[Buying!Bill(o)] = db[Buying!Bill(o)]
      /\ db[Buying!Match(o)] # Absent => db'[Buying!Match(o)] # Absent
      /\ o \in Invoiced => db'[Buying!Match(o)] # Absent
  <2>1. Buying!Bill(o) \notin DOMAIN mine[s]
    BY <1>1, <1>4, OrderRows
  <2>2. /\ Buying!The(o) \in DOMAIN mine[s] /\ Buying!Receipt(o) \in DOMAIN mine[s]
        /\ mine[s][Buying!The(o)] = Buying!Moved([db[Buying!The(o)] EXCEPT !.goods = @ + q], Buying!Delivered)
        /\ mine[s][Buying!Receipt(o)] = [confirmed |-> TRUE, quantity |-> q]
        /\ Buying!Match(o) \in DOMAIN mine[s] => mine[s][Buying!Match(o)] # Absent
        /\ o \in Invoiced => Buying!Match(o) \in DOMAIN mine[s] \/ db[Buying!Match(o)] # Absent
    BY <1>1 DEF Confirms
  <2>3. {Buying!The(o), Buying!Receipt(o), Buying!Bill(o), Buying!Match(o)} \subseteq Buying!Row
    BY <1>1, OrderRows
  <2> QED
    BY <2>1, <2>2, <2>3, <1>6
<1>9. OrderHolds(o)' /\ Came(o)'
  <2>1. /\ db[Buying!The(o)] \in Buying!OrderRow /\ Leads(db[Buying!The(o)])
        /\ db[Buying!Receipt(o)] \in Buying!ReceiptRow /\ ~db[Buying!Receipt(o)].confirmed
        /\ OrderHolds(o) /\ Came(o)
    BY <1>1 DEF OrdersInv, OrderHolds, Came, Confirms
  <2>2. q \in Nat /\ q \in Quantity
    BY <2>1 DEF Buying!ReceiptRow, Buying!OrdersConstants
  <2>3. Deliveries(db[Buying!The(o)]) = {} /\ db[Buying!The(o)].goods = 0
    BY <2>1 DEF Came
  <2> DEFINE new == db'[Buying!The(o)]
  <2>4. /\ new \in Buying!OrderRow /\ Leads(new) /\ new.goods = q
        /\ Deliveries(new) # {} /\ Cardinality(Deliveries(new)) = 1
    BY <2>1, <2>2, <2>3, <1>8, Delivers
  <2>5. [confirmed |-> TRUE, quantity |-> q] \in Buying!ReceiptRow
    BY <2>2 DEF Buying!ReceiptRow
  <2>6. [confirmed |-> TRUE, quantity |-> q] # Absent
    BY <2>5 DEF Buying!ReceiptRow, Buying!OrdersConstants
  <2> HIDE DEF new, q
  <2>7. OrderHolds(o)'
    BY <2>1, <2>4, <2>5, <1>8 DEF OrderHolds, new
  <2>8. Came(o)'
    BY <2>4, <2>6, <1>8 DEF Came, new
  <2> QED
    BY <2>7, <2>8
<1>10. ASSUME NEW p \in Order PROVE OrderHolds(p)' /\ Came(p)'
  <2>1. CASE p = o
    BY <2>1, <1>9
  <2>2. CASE p # o
    BY <2>2, <1>7, StaysCame DEF OrdersInv
  <2> QED
    BY <2>1, <2>2
<1>11. ASSUME NEW t \in Session PROVE Buys(t)' /\ Confirms(t)'
  <2>1. CASE t = s
    BY <2>1, <1>3 DEF Buys, Confirms
  <2>2. CASE t # s
    <3>1. Buys(t)' /\ at'[t] = at[t] /\ job'[t] = job[t] /\ mine'[t] = mine[t]
      BY <2>2, <1>3 DEF OrdersInv, Only, Buys
    <3>2. CASE at[t] = "commit"
      <4>1. job[t].order \in Order /\ job[t].order # o /\ Confirms(t)
        BY <2>2, <3>2, <1>1 DEF OrdersInv, Buys
      <4> QED
        BY <4>1, <3>1, <3>2, <1>7 DEF Confirms
    <3> QED
      BY <3>1, <3>2 DEF Confirms
  <2> QED
    BY <2>1, <2>2
<1> QED
  BY <1>3, <1>6, <1>10, <1>11 DEF OrdersInv, Only

(* Requests about orders begin and go on.                                   *)
LEMMA OrdersKeep ==
  ASSUME Buying!OrdersConstants, OrdersInv, Buying!Next
  PROVE  OrdersInv'
<1>1. PICK s \in Session :
        Buying!ByStatus(s) \/ Buying!Receiving(s) \/ Buying!Checking(s) \/ Buying!Fail(s)
  BY DEF Buying!Next
<1>2. CASE Buying!Fail(s)
  BY <1>2, RolledBack DEF Buying!Fail
<1>3. CASE Buying!ByStatus(s)
  <2>1. CASE Buying!StartUpdate(s)
    <3>1. PICK o \in Order, status \in Buying!Status :
            Buying!ByHand(status) /\ Buying!Begin(s, "move", [order |-> o, to |-> status])
      BY <2>1 DEF Buying!StartUpdate
    <3> QED
      BY <3>1, Begun DEF Buying!ByHand
  <2>2. CASE Buying!StartTransition(s)
    <3>1. PICK o \in Order : \E status \in Buying!Allowed[db[Buying!The(o)].status] :
            Buying!ByHand(status) /\ Buying!Begin(s, "move", [order |-> o, to |-> status])
      BY <2>2 DEF Buying!StartTransition
    <3>2. PICK status \in Buying!Allowed[db[Buying!The(o)].status] :
            Buying!ByHand(status) /\ Buying!Begin(s, "move", [order |-> o, to |-> status])
      BY <3>1
    <3>3. db[Buying!The(o)].status \in Buying!Status
      BY DEF OrdersInv, OrderHolds, Buying!OrderRow
    <3>4. Buying!Allowed[db[Buying!The(o)].status] \subseteq Buying!Status
      BY <3>3 DEF Buying!Allowed, Buying!Status
    <3>5. status \in Buying!Status \ {Buying!Delivered}
      BY <3>2, <3>4 DEF Buying!ByHand
    <3> QED
      BY <3>2, <3>5, Begun
  <2> QED
    BY <1>3, <2>1, <2>2, MoveKeeps DEF Buying!ByStatus
<1>4. CASE Buying!Receiving(s)
  <2>1. CASE Buying!StartReceiving(s)
    BY <2>1, Begun DEF Buying!StartReceiving
  <2>2. CASE Buying!StartEdit(s)
    <3>1. PICK o \in Order, n \in Quantity : Buying!Begin(s, "edit", [order |-> o, quantity |-> n])
      BY <2>2 DEF Buying!StartEdit
    <3> QED
      BY <3>1, Begun
  <2>3. CASE Buying!StartCancel(s)
    BY <2>3, Begun DEF Buying!StartCancel
  <2>4. CASE Buying!StartConfirm(s)
    BY <2>4, Begun DEF Buying!StartConfirm
  <2> QED
    BY <1>4, <2>1, <2>2, <2>3, <2>4, ReceivingKeeps, ConfirmKeeps, PublishKeeps DEF Buying!Receiving
<1>5. CASE Buying!Checking(s)
  <2>1. CASE Buying!StartBill(s)
    <3>1. PICK o \in Invoiced, n \in Quantity : Buying!Begin(s, "bill", [order |-> o, quantity |-> n])
      BY <2>1 DEF Buying!StartBill
    <3>2. o \in Order
      BY DEF Buying!OrdersConstants
    <3> QED
      BY <3>1, <3>2, Begun
  <2>2. CASE Buying!StartResolve(s)
    <3>1. PICK d \in Dispute : Buying!Begin(s, "resolve", [dispute |-> d])
      BY <2>2 DEF Buying!StartResolve
    <3> QED
      BY <3>1, Begun
  <2> QED
    BY <1>5, <2>1, <2>2, BillKeeps, ByHandKeeps, ResolveKeeps DEF Buying!Checking
<1> QED
  BY <1>1, <1>2, <1>3, <1>4, <1>5

(* At first orders are pending and nothing has come.                        *)
LEMMA OrdersBegin ==
  ASSUME Buying!OrdersConstants, Buying!Init
  PROVE  OrdersInv
<1>1. /\ DOMAIN db = Buying!Row
      /\ \A o \in Order :
           /\ db[Buying!The(o)] = [status |-> Buying!Pending, trail |-> << >>, goods |-> 0]
           /\ db[Buying!Receipt(o)] = Absent /\ db[Buying!Match(o)] = Absent
           /\ db[Buying!Bill(o)] = IF o \in Invoiced THEN Ordered ELSE Absent
  BY OrderRows DEF Buying!Init, Buying!Row, Buying!The, Buying!Receipt, Buying!Match, Buying!Bill
<1>2. ASSUME NEW o \in Order PROVE OrderHolds(o) /\ Came(o)
  <2> DEFINE order == [status |-> Buying!Pending, trail |-> << >>, goods |-> 0]
  <2>1. order \in Buying!OrderRow
    BY DEF Buying!OrderRow, Buying!Status
  <2>2. Leads(order) /\ Deliveries(order) = {} /\ order.goods = 0
    BY DEF Leads, Deliveries
  <2> HIDE DEF order
  <2> QED
    BY <1>1, <2>1, <2>2 DEF OrderHolds, Came, order, Buying!OrdersConstants
<1>3. Served /\ \A s \in Session : at[s] = "idle" /\ DOMAIN mine[s] = {}
  BY DEF Buying!Init, Buying!RequestsInit, Buying!Unwritten, Served
<1> QED
  BY <1>1, <1>2, <1>3 DEF OrdersInv, Buys, Confirms

(* What the rows say is the history that was to be kept.                    *)
LEMMA OrdersFollow ==
  ASSUME OrdersInv
  PROVE  Buying!OrderHistory
<1> SUFFICES ASSUME NEW o \in Order PROVE Buying!Chains(o) /\ Buying!Arrived(o) /\ Buying!Compared(o)
  BY DEF Buying!OrderHistory
<1> DEFINE order == db[Buying!The(o)]
           trail == order.trail
           tos == [i \in DOMAIN trail |-> trail[i].to]
           before == <<Buying!Pending>> \o tos
<1>1. Came(o) /\ Leads(order) /\ order \in Buying!OrderRow
  BY DEF OrdersInv, OrderHolds, Came
<1>2. /\ trail \in Seq([from : Buying!Status, to : Buying!Status]) /\ Len(trail) \in Nat
      /\ DOMAIN trail = 1 .. Len(trail)
  BY <1>1 DEF Buying!OrderRow
<1>3. tos \in Seq(Buying!Status) /\ Len(tos) = Len(trail)
  <2>1. ASSUME NEW i \in 1 .. Len(trail) PROVE trail[i].to \in Buying!Status
    <3>1. trail[i] \in [from : Buying!Status, to : Buying!Status]
      BY <1>2, ElementOfSeq
    <3> QED
      BY <3>1
  <2>2. tos \in [1 .. Len(trail) -> Buying!Status]
    BY <1>2, <2>1
  <2> HIDE DEF tos
  <2> QED
    BY <1>2, <2>2
<1>4. Buying!Pending \in Buying!Status
  BY DEF Buying!Status
<1>5. /\ Len(before) = Len(trail) + 1 /\ before[1] = Buying!Pending
      /\ \A i \in 1 .. Len(trail) : before[i + 1] = trail[i].to
  <2>1. \A i \in 1 .. Len(trail) : tos[i] = trail[i].to
    BY <1>2
  <2> HIDE DEF tos, trail
  <2>2. <<Buying!Pending>> \in Seq(Buying!Status) /\ Len(<<Buying!Pending>>) = 1
    BY <1>4
  <2>3. /\ Len(before) = 1 + Len(tos)
        /\ \A i \in 1 .. 1 + Len(tos) : before[i] = IF i <= 1 THEN Buying!Pending ELSE tos[i - 1]
    BY <2>2, <1>3, <1>4
  <2> QED
    BY <1>2, <1>3, <2>1, <2>3
<1> HIDE DEF before, tos
<1>6. Buying!Chains(o)
  <2>1. ASSUME NEW i \in DOMAIN trail PROVE trail[i].from = before[i]
    <3>1. CASE i = 1
      BY <3>1, <1>1, <1>2, <1>5 DEF Leads
    <3>2. CASE i # 1
      <4>1. i - 1 \in 1 .. Len(trail) /\ (i - 1) + 1 = i
        BY <3>2, <1>2
      <4>2. before[i] = trail[i - 1].to
        BY <4>1, <1>5
      <4> QED
        BY <3>2, <4>2, <1>1, <1>2 DEF Leads
    <3> QED
      BY <3>1, <3>2
  <2>2. order.status = before[Len(before)]
    <3>1. CASE trail = << >>
      BY <3>1, <1>1, <1>5 DEF Leads
    <3>2. CASE trail # << >>
      <4>1. Len(trail) \in 1 .. Len(trail)
        BY <3>2, <1>2
      <4> QED
        BY <4>1, <3>2, <1>1, <1>5 DEF Leads
    <3> QED
      BY <3>1, <3>2
  <2> QED
    BY <2>1, <2>2 DEF Buying!Chains, before, tos
<1>7. Deliveries(order) = {i \in DOMAIN trail : trail[i].to = Buying!Delivered}
  BY <1>2 DEF Deliveries
<1>8. Buying!Arrived(o)
  BY <1>1, <1>7 DEF Came, Buying!Arrived, Buying!Cardinality, Cardinality
<1>9. Buying!Compared(o)
  BY <1>1, <1>7 DEF Came, Buying!Compared
<1> QED
  BY <1>6, <1>8, <1>9

(* However many requests move, receive, bill and match an order at once, on *)
(* statuses they read before (updateOrderStatus, confirmGoodsReceipt), its  *)
(* trail explains its status, its goods came in once, as confirmed, and it  *)
(* was matched with its invoice.                                            *)
THEOREM HistoryAlwaysKept == OfficeSpec => []OrderHistory
<1> DEFINE Kept == part = "orders" => OrdersInv
<1>0. Buying!OrdersConstants
  BY OfficeConstants
<1>1. OfficeInit => Kept
  BY <1>0, OrdersBegin DEF OfficeInit
<1>2. Kept /\ [OfficeNext]_<<vars, part>> => Kept'
  <2> SUFFICES ASSUME Kept, [OfficeNext]_<<vars, part>>, part' = "orders" PROVE OrdersInv'
    OBVIOUS
  <2>1. CASE OfficeNext
    BY <1>0, <2>1, OrdersKeep DEF OfficeNext
  <2>2. CASE UNCHANGED <<vars, part>>
    BY <2>2 DEF vars, OrdersInv, Served, Buys, Confirms, OrderHolds, Came
  <2> QED
    BY <2>1, <2>2
<1>3. Kept => OrderHistory
  BY OrdersFollow DEF OrderHistory
<1> QED
  BY <1>1, <1>2, <1>3, PTL DEF OfficeSpec

-----------------------------------------------------------------------------
(* Alerts of what is due.                                                   *)

(* What a request sees of accounts and alerts.                              *)
View(s) == [r \in Dunning!Row |-> Dunning!Sees(s, r)]

(* What accounts and alerts hold, wherever they are seen.                   *)
Kept(v) ==
  /\ \A a \in Account : v[a] \in Dunning!AccountRow
  /\ \A x \in Alert : v[x] \in Dunning!AlertRow \cup {Absent}

(* An alert that waits.                                                     *)
Waits(v, x) == v[x] # Absent /\ ~v[x].resolved

(* Whoever has paid has no alert that waits, and nobody two of a kind.      *)
Sparing(v) ==
  /\ \A x \in Alert : Waits(v, x) => ~v[v[x].account].paid
  /\ \A x, y \in Alert : x # y /\ Waits(v, x) /\ Waits(v, y) =>
       v[x].account # v[y].account \/ v[x].kind # v[y].kind

(* An alert that says the day is past is of no day before.                  *)
InTime(row) == row.kind = Dunning!Overdue => db["today"] > DueDay

(* What a request about alerts knows and holds.                             *)
Duns(s) ==
  LET m == mine[s] IN
  /\ DOMAIN m \subseteq Account \cup Alert
  /\ \A a \in Account \cap DOMAIN m : m[a] \in Dunning!AccountRow
  /\ \A x \in Alert \cap DOMAIN m : m[x] \in Dunning!AlertRow /\ InTime(m[x])
  /\ at[s] \notin {"generate", "commit"} => DOMAIN m = {}
  /\ at[s] = "generate" =>
       /\ job[s].accounts \subseteq Account /\ DOMAIN m \subseteq Alert
       /\ job[s].kind \in {Dunning!Warning, Dunning!Urgent, Dunning!Overdue} /\ InTime(job[s])
  /\ at[s] = "pay" => job[s].account \in Account
  /\ at[s] = "resolve" => job[s].alert \in Alert /\ db[job[s].alert] # Absent

(* And what it does where nothing runs beside it: the accounts it goes over *)
(* are unpaid.                                                              *)
DunsAlone(s) ==
  /\ Sparing(View(s))
  /\ at[s] = "generate" => \A a \in job[s].accounts : ~db[a].paid

(* The invariant of alerts.                                                 *)
AlertsInv ==
  /\ Served /\ DOMAIN db = Dunning!Row /\ Kept(db) /\ db["today"] \in Nat
  /\ \A x \in Alert : db[x] # Absent => InTime(db[x])
  /\ \A s \in Session : Duns(s)
  /\ calm => /\ \A s, t \in Session : s = t \/ at[s] = "idle" \/ at[t] = "idle"
             /\ Sparing(db) /\ \A s \in Session : DunsAlone(s)

(* The rows of alerts and of what they are about.                           *)
LEMMA AlertRows ==
  ASSUME Dunning!AlertsConstants
  PROVE  /\ Account \subseteq Dunning!Row /\ Alert \subseteq Dunning!Row /\ "today" \in Dunning!Row
         /\ Account \cap Alert = {} /\ "today" \notin Account \cup Alert /\ "notice" \notin Account \cup Alert
         /\ Absent \notin Dunning!AlertRow /\ DueDay \in Nat
BY DEF Dunning!AlertsConstants, Dunning!Row, Dunning!AlertRow, Dunning!Warning, Dunning!Urgent, Dunning!Overdue

(* Accounts and alerts that are the same spare the same.                    *)
LEMMA SameSparing ==
  ASSUME Dunning!AlertsConstants, NEW v, NEW w, Kept(v), Sparing(v),
         \A r \in Account \cup Alert : w[r] = v[r]
  PROVE  Sparing(w)
<1>1. \A x \in Alert : v[x] # Absent => v[x].account \in Account
  BY DEF Kept, Dunning!AlertRow
<1> QED
  BY <1>1 DEF Sparing, Waits

(* An idle request sees what is committed.                                  *)
LEMMA IdleSees ==
  ASSUME Dunning!AlertsConstants, NEW s, DOMAIN mine[s] = {}
  PROVE  \A r \in Account \cup Alert : View(s)[r] = db[r]
BY AlertRows DEF View, Dunning!Sees

(* The lemma of what resolves and pays: alerts are resolved, those of an    *)
(* account that is paid all of them.                                        *)
LEMMA SettledSpares ==
  ASSUME Dunning!AlertsConstants, NEW v, NEW w, Kept(v), Sparing(v),
         \A x \in Alert : w[x] = v[x] \/ w[x].resolved,
         \A a \in Account : w[a].paid =>
           v[a].paid \/ \A x \in Alert : Waits(v, x) /\ v[x].account = a => w[x].resolved
  PROVE  Sparing(w)
<1>1. ASSUME NEW x \in Alert, Waits(w, x) PROVE w[x] = v[x] /\ Waits(v, x) /\ v[x].account \in Account
  BY <1>1 DEF Waits, Kept, Dunning!AlertRow
<1>2. ASSUME NEW x \in Alert, Waits(w, x) PROVE ~w[w[x].account].paid
  BY <1>1, <1>2 DEF Sparing, Waits
<1> QED
  BY <1>1, <1>2 DEF Sparing

(* A new alert spares, where none of its kind waits and nothing is paid.    *)
LEMMA NewSpares ==
  ASSUME Dunning!AlertsConstants, NEW v, NEW w, Kept(v), Sparing(v), NEW x \in Alert, NEW a \in Account,
         ~v[a].paid, w[x].account = a,
         \A y \in Alert : Waits(v, y) => v[y].account # a \/ v[y].kind # w[x].kind,
         \A r \in (Account \cup Alert) \ {x} : w[r] = v[r]
  PROVE  Sparing(w)
<1>1. \A y \in Alert \ {x} : w[y] = v[y]
  OBVIOUS
<1>2. \A b \in Account : w[b] = v[b]
  BY AlertRows
<1>3. \A y \in Alert : v[y] # Absent => v[y].account \in Account
  BY DEF Kept, Dunning!AlertRow
<1> QED
  BY <1>1, <1>2, <1>3 DEF Sparing, Waits

(* Days pass and settings change: nobody is late who was not.               *)
LEMMA OthersPass ==
  ASSUME Dunning!AlertsConstants, AlertsInv, DOMAIN db' = Dunning!Row,
         \A r \in Account \cup Alert : db'[r] = db[r],
         db'["today"] \in Nat, db'["today"] >= db["today"],
         at' = at, job' = job, mine' = mine, calm' => calm
  PROVE  AlertsInv'
<1>1. \A row : InTime(row) => InTime(row)'
  BY AlertRows DEF InTime, AlertsInv
<1>2. Kept(db')
  BY AlertRows DEF AlertsInv, Kept
<1>3. \A x \in Alert : db'[x] # Absent => InTime(db[x])'
  BY <1>1 DEF AlertsInv
<1>4. ASSUME NEW s \in Session PROVE Duns(s)'
  <2>1. Duns(s)
    BY DEF AlertsInv
  <2>2. at'[s] = "resolve" => db'[job'[s].alert] # Absent
    BY <2>1 DEF Duns
  <2> QED
    BY <1>1, <2>1, <2>2 DEF Duns, InTime
<1>5. ASSUME calm' PROVE Sparing(db') /\ \A s \in Session : DunsAlone(s)'
  <2>1. Sparing(db')
    BY <1>5, SameSparing DEF AlertsInv
  <2>2. ASSUME NEW s \in Session PROVE DunsAlone(s)'
    <3>1. Duns(s) /\ DunsAlone(s)
      BY <1>5 DEF AlertsInv
    <3>2. \A r \in Account \cup Alert : View(s)'[r] = View(s)[r]
      BY AlertRows DEF View, Dunning!Sees
    <3>3. Kept(View(s))
      BY <3>1, AlertRows DEF Kept, Duns, View, Dunning!Sees, AlertsInv
    <3>4. Sparing(View(s)')
      BY <3>1, <3>2, <3>3, SameSparing DEF DunsAlone
    <3>5. at[s] = "generate" => \A a \in job[s].accounts : db'[a] = db[a]
      BY <3>1 DEF Duns
    <3> QED
      BY <3>1, <3>4, <3>5 DEF DunsAlone
  <2> QED
    BY <2>1, <2>2
<1> QED
  BY <1>2, <1>3, <1>4, <1>5 DEF AlertsInv, Served, InTime

(* While requests come one at a time, the others are idle when one goes on. *)
Lonely(s) == calm' => calm /\ \A t \in Session \ {s} : at[t] = "idle"

(* A request goes on that commits nothing.                                  *)
LEMMA DunningGoesOn ==
  ASSUME Dunning!AlertsConstants, AlertsInv, NEW s \in Session, Only(s), Lonely(s), db' = db,
         Duns(s)', calm' => DunsAlone(s)'
  PROVE  AlertsInv'
<1>1. ASSUME NEW t \in Session PROVE Duns(t)'
  <2>1. CASE t # s
    BY <2>1 DEF AlertsInv, Only, Duns, InTime
  <2> QED
    BY <2>1
<1>2. ASSUME NEW t \in Session, calm' PROVE DunsAlone(t)'
  <2>1. CASE t # s
    <3>1. at'[t] = at[t] /\ job'[t] = job[t] /\ mine'[t] = mine[t] /\ DunsAlone(t)
      BY <1>2, <2>1 DEF Only, Lonely, AlertsInv
    <3>2. View(t)' = View(t)
      BY <3>1 DEF View, Dunning!Sees
    <3> QED
      BY <3>1, <3>2 DEF DunsAlone
  <2> QED
    BY <1>2, <2>1
<1>3. calm' => \A t, u \in Session : t = u \/ at'[t] = "idle" \/ at'[u] = "idle"
  BY DEF Lonely, Only
<1>4. Served' /\ (calm' => calm)
  BY DEF Only, Lonely
<1>5. Kept(db') /\ (calm' => Sparing(db')) /\ \A x \in Alert : db'[x] # Absent => InTime(db[x])'
  BY <1>4 DEF AlertsInv, InTime
<1> QED
  BY <1>1, <1>2, <1>3, <1>4, <1>5 DEF AlertsInv

(* A request ends that has committed accounts and alerts.                   *)
LEMMA DunningEnds ==
  ASSUME Dunning!AlertsConstants, AlertsInv, NEW s \in Session, Only(s), Lonely(s),
         at'[s] = "idle", DOMAIN mine'[s] = {}, DOMAIN db' = Dunning!Row, db'["today"] = db["today"],
         Kept(db'), \A x \in Alert : db[x] # Absent => db'[x] # Absent,
         \A x \in Alert : db'[x] # Absent => InTime(db'[x]),
         calm' => Sparing(db')
  PROVE  AlertsInv'
<1>1. ASSUME NEW t \in Session PROVE Duns(t)'
  <2>1. CASE t # s
    BY <2>1 DEF AlertsInv, Only, Duns, InTime
  <2>2. CASE t = s
    BY <2>2 DEF Duns
  <2> QED
    BY <2>1, <2>2
<1>2. ASSUME NEW t \in Session, calm' PROVE DunsAlone(t)'
  <2>1. at'[t] = "idle"
    BY <1>2 DEF Only, Lonely
  <2>2. DOMAIN mine'[t] = {}
    BY <1>1, <2>1 DEF Duns
  <2>3. \A r \in Account \cup Alert : View(t)'[r] = db'[r]
    BY <2>2, AlertRows DEF View, Dunning!Sees
  <2>4. Sparing(View(t)')
    BY <1>2, <2>3, SameSparing
  <2> QED
    BY <2>1, <2>4 DEF DunsAlone
<1>3. calm' => \A t, u \in Session : t = u \/ at'[t] = "idle" \/ at'[u] = "idle"
  BY DEF Lonely, Only
<1>4. Served' /\ (calm' => calm)
  BY DEF Only, Lonely
<1>5. \A x \in Alert : db'[x] # Absent => InTime(db[x])'
  BY DEF InTime
<1> QED
  BY <1>1, <1>2, <1>3, <1>4, <1>5 DEF AlertsInv

(* A request that gives up.                                                 *)
LEMMA DunningStops ==
  ASSUME Dunning!AlertsConstants, AlertsInv, NEW s \in Session, at[s] # "idle", Dunning!Rollback(s)
  PROVE  AlertsInv'
<1>1. /\ Buying!Goto(s, "idle", NoJob) /\ db' = db /\ mine' = [mine EXCEPT ![s] = Dunning!Unwritten]
      /\ calm' = calm
  BY DEF Dunning!Rollback, Dunning!Goto, Buying!Goto
<1>2. Only(s) /\ at'[s] = "idle"
  BY <1>1, OneRequest DEF AlertsInv
<1>3. DOMAIN mine'[s] = {}
  BY <1>1 DEF AlertsInv, Served, Dunning!Unwritten
<1>4. Lonely(s)
  BY <1>1 DEF AlertsInv, Lonely
<1>5. \A x \in Alert : db'[x] # Absent => InTime(db'[x])
  BY <1>1 DEF AlertsInv
<1>6. DOMAIN db' = Dunning!Row /\ Kept(db') /\ (calm' => Sparing(db'))
  BY <1>1 DEF AlertsInv
<1> QED
  BY <1>1, <1>2, <1>3, <1>4, <1>5, <1>6, DunningEnds

(* A request arrives.                                                       *)
LEMMA DunningBegins ==
  ASSUME Dunning!AlertsConstants, AlertsInv, NEW s \in Session, NEW label, NEW j, Dunning!Begin(s, label, j),
         label # "commit",
         label = "generate" =>
           /\ j.accounts \subseteq Account /\ \A a \in j.accounts : ~db[a].paid
           /\ j.kind \in {Dunning!Warning, Dunning!Urgent, Dunning!Overdue} /\ InTime(j),
         label = "pay" => j.account \in Account,
         label = "resolve" => j.alert \in Alert /\ db[j.alert] # Absent
  PROVE  AlertsInv'
<1>1. /\ Buying!Goto(s, label, j) /\ at[s] = "idle" /\ db' = db /\ mine' = mine
      /\ calm' = (calm /\ Dunning!Quiet)
  BY DEF Dunning!Begin, Dunning!Goto, Buying!Goto
<1>2. Only(s) /\ at'[s] = label /\ job'[s] = j
  BY <1>1, OneRequest DEF AlertsInv
<1>3. Lonely(s)
  BY <1>1 DEF Lonely, Dunning!Quiet
<1>4. DOMAIN mine'[s] = {}
  BY <1>1 DEF AlertsInv, Duns
<1>5. Duns(s)'
  BY <1>1, <1>2, <1>4 DEF Duns, InTime
<1>6. ASSUME calm' PROVE DunsAlone(s)'
  <2>1. View(s)' = View(s) /\ DunsAlone(s)
    BY <1>1, <1>6 DEF View, Dunning!Sees, AlertsInv
  <2> QED
    BY <2>1, <1>1, <1>2 DEF DunsAlone
<1> QED
  BY <1>1, <1>2, <1>3, <1>5, <1>6, DunningGoesOn

(* Generating: the day is past for what is overdue.                         *)
LEMMA GenerateBegins ==
  ASSUME Dunning!AlertsConstants, AlertsInv, NEW s \in Session, Dunning!StartGenerate(s)
  PROVE  AlertsInv'
<1> DEFINE kind == Dunning!Kind(DueDay - db["today"], db["notice"])
           j == [accounts |-> {a \in Account : Dunning!Paying(a)}, kind |-> kind]
<1>1. kind # 0 /\ Dunning!Begin(s, "generate", j)
  BY DEF Dunning!StartGenerate
<1>2. db["today"] \in Nat /\ DueDay \in Nat
  BY AlertRows DEF AlertsInv
<1>3. kind = Dunning!Overdue => db["today"] > DueDay
  BY <1>2 DEF Dunning!Kind, Dunning!Overdue, Dunning!Urgent, Dunning!Warning
<1>4. kind \in {Dunning!Warning, Dunning!Urgent, Dunning!Overdue}
  BY <1>1 DEF Dunning!Kind
<1>5. j.accounts \subseteq Account /\ \A a \in j.accounts : ~db[a].paid
  BY DEF Dunning!Paying
<1> HIDE DEF kind
<1>6. InTime(j) /\ j.kind \in {Dunning!Warning, Dunning!Urgent, Dunning!Overdue}
  BY <1>3, <1>4 DEF InTime
<1> HIDE DEF j
<1> QED
  BY <1>1, <1>5, <1>6, DunningBegins

(* One account more: it has the alert it needs, or gets it.                 *)
LEMMA GenerateKeeps ==
  ASSUME Dunning!AlertsConstants, AlertsInv, NEW s \in Session, Dunning!GenerateOne(s)
  PROVE  AlertsInv'
<1>1. at[s] = "generate" /\ Duns(s)
  BY DEF Dunning!GenerateOne, AlertsInv
<1>2. PICK a \in job[s].accounts :
        LET rest == [job[s] EXCEPT !.accounts = @ \ {a}] IN
        IF Dunning!Missing(s, a, job[s].kind)
        THEN \E x \in Dunning!Unused(s) :
               Dunning!Write(s, [r \in {x} |-> [account |-> a, kind |-> job[s].kind, resolved |-> FALSE]],
                             "generate", rest)
        ELSE Dunning!Look(s, "generate", rest)
  BY DEF Dunning!GenerateOne
<1> DEFINE rest == [job[s] EXCEPT !.accounts = @ \ {a}]
           row == [account |-> a, kind |-> job[s].kind, resolved |-> FALSE]
<1>3. /\ rest.accounts \subseteq job[s].accounts /\ rest.kind = job[s].kind
      /\ a \in Account
  BY <1>1 DEF Duns
<1>4. row \in Dunning!AlertRow /\ InTime(row)
  BY <1>1, <1>3 DEF Duns, InTime, Dunning!AlertRow
<1> HIDE DEF rest
<1>5. Lonely(s) \/ calm' # calm
  BY <1>1 DEF Lonely, AlertsInv
<1>6. CASE Dunning!Look(s, "generate", rest)
  <2>1. /\ Buying!Goto(s, "generate", rest) /\ db' = db /\ mine' = mine /\ calm' = calm
    BY <1>6 DEF Dunning!Look, Dunning!Goto, Buying!Goto
  <2>2. Only(s) /\ at'[s] = "generate" /\ job'[s] = rest
    BY <2>1, OneRequest DEF AlertsInv
  <2>3. Duns(s)'
    BY <1>1, <1>3, <2>1, <2>2 DEF Duns, InTime
  <2>4. ASSUME calm' PROVE DunsAlone(s)'
    <3>1. DunsAlone(s) /\ View(s)' = View(s)
      BY <2>1, <2>4 DEF AlertsInv, View, Dunning!Sees
    <3> QED
      BY <3>1, <1>1, <1>3, <2>1, <2>2 DEF DunsAlone
  <2> QED
    BY <1>5, <2>1, <2>2, <2>3, <2>4, DunningGoesOn
<1>7. ASSUME Dunning!Missing(s, a, job[s].kind), NEW x \in Dunning!Unused(s),
             Dunning!Write(s, [r \in {x} |-> row], "generate", rest)
      PROVE  AlertsInv'
  <2> DEFINE new == [r \in {x} |-> row]
  <2>0. DOMAIN new = {x} /\ new[x] = row
    OBVIOUS
  <2>1. /\ Buying!Goto(s, "generate", rest) /\ db' = db /\ calm' = calm
        /\ mine' = [mine EXCEPT ![s] = Dunning!Over(new, @)]
    BY <1>7 DEF Dunning!Write, Dunning!Goto, Buying!Goto
  <2> HIDE DEF new, row
  <2>2. Only(s) /\ at'[s] = "generate" /\ job'[s] = rest
    BY <2>1, OneRequest DEF AlertsInv
  <2>3. x \in Alert /\ Dunning!Sees(s, x) = Absent
    BY <1>7 DEF Dunning!Unused
  <2>4. mine'[s] = Dunning!Over(new, mine[s])
    BY <2>1 DEF AlertsInv, Served
  <2>5. /\ DOMAIN mine'[s] = DOMAIN mine[s] \cup {x} /\ mine'[s][x] = row
        /\ \A r \in DOMAIN mine[s] \ {x} : mine'[s][r] = mine[s][r]
    BY <2>0, <2>4 DEF Dunning!Over
  <2>6. Duns(s)'
    BY <1>1, <1>3, <1>4, <2>1, <2>2, <2>3, <2>5, AlertRows DEF Duns, InTime
  <2>7. ASSUME calm' PROVE DunsAlone(s)'
    <3>1. DunsAlone(s)
      BY <2>1, <2>7 DEF AlertsInv
    <3>2. Kept(View(s))
      BY <1>1, AlertRows DEF Kept, Duns, View, Dunning!Sees, AlertsInv
    <3>3. /\ View(s)'[x] = row
          /\ \A r \in (Account \cup Alert) \ {x} : View(s)'[r] = View(s)[r]
      BY <2>1, <2>3, <2>5, AlertRows DEF View, Dunning!Sees
    <3>4. View(s)[a] = db[a]
      BY <1>1, <1>3, AlertRows DEF View, Dunning!Sees, Duns
    <3>5. \A y \in Alert : Waits(View(s), y) => View(s)[y].account # a \/ View(s)[y].kind # job[s].kind
      BY <1>7, AlertRows DEF Waits, View, Dunning!Missing, Dunning!Pending
    <3>6. ~View(s)[a].paid
      BY <3>1, <3>4, <1>1 DEF DunsAlone
    <3>7. row.account = a /\ row.kind = job[s].kind
      BY DEF row
    <3>8. Sparing(View(s)')
      BY <1>3, <2>3, <3>1, <3>2, <3>3, <3>5, <3>6, <3>7, NewSpares DEF DunsAlone
    <3> QED
      BY <3>1, <3>8, <1>1, <1>3, <2>1, <2>2 DEF DunsAlone
  <2> QED
    BY <1>5, <2>1, <2>2, <2>6, <2>7, DunningGoesOn
<1> QED
  BY <1>2, <1>6, <1>7 DEF rest

(* What is committed of accounts and alerts is what the request saw.        *)
LEMMA DunningCommits ==
  ASSUME Dunning!AlertsConstants, AlertsInv, NEW s \in Session, at[s] # "idle", Dunning!Commit(s)
  PROVE  AlertsInv'
<1>1. /\ Buying!Goto(s, "idle", NoJob) /\ db' = Dunning!Over(mine[s], db) /\ calm' = calm
      /\ mine' = [mine EXCEPT ![s] = Dunning!Unwritten]
  BY DEF Dunning!Commit, Dunning!Publish, Dunning!Goto, Buying!Goto
<1>2. Only(s) /\ at'[s] = "idle"
  BY <1>1, OneRequest DEF AlertsInv
<1>3. DOMAIN mine'[s] = {}
  BY <1>1 DEF AlertsInv, Served, Dunning!Unwritten
<1>4. Lonely(s)
  BY <1>1 DEF AlertsInv, Lonely
<1>5. Duns(s) /\ DOMAIN mine[s] \subseteq Dunning!Row /\ DOMAIN db = Dunning!Row
  BY AlertRows DEF AlertsInv, Duns
<1>6. /\ DOMAIN db' = Dunning!Row
      /\ \A r \in Dunning!Row : db'[r] = IF r \in DOMAIN mine[s] THEN mine[s][r] ELSE db[r]
  BY <1>1, <1>5 DEF Dunning!Over
<1>7. db'["today"] = db["today"]
  BY <1>5, <1>6, AlertRows DEF Duns
<1>8. Kept(db') /\ \A x \in Alert : db[x] # Absent => db'[x] # Absent
  BY <1>5, <1>6, AlertRows DEF AlertsInv, Kept, Duns
<1>9. \A x \in Alert : db'[x] # Absent => InTime(db'[x])
  BY <1>5, <1>6, AlertRows DEF AlertsInv, Duns
<1>10. ASSUME calm' PROVE Sparing(db')
  <2>1. Sparing(View(s))
    BY <1>1, <1>10 DEF AlertsInv, DunsAlone
  <2>2. Kept(View(s))
    BY <1>5, AlertRows DEF Kept, Duns, View, Dunning!Sees, AlertsInv
  <2>3. \A r \in Account \cup Alert : db'[r] = View(s)[r]
    BY <1>6, AlertRows DEF View, Dunning!Sees
  <2> QED
    BY <2>1, <2>2, <2>3, SameSparing
<1> QED
  BY <1>2, <1>3, <1>4, <1>6, <1>7, <1>8, <1>9, <1>10, DunningEnds

(* An account is paid, and its alerts are resolved with it.                 *)
LEMMA PaySpares ==
  ASSUME Dunning!AlertsConstants, AlertsInv, NEW s \in Session, Dunning!Pay(s)
  PROVE  AlertsInv'
<1> DEFINE a == job[s].account
           sum == db[a].collected + 1
           paid == sum = DueAmount
           row == [collected |-> sum, paid |-> paid]
           pending == {x \in Alert : db[x] # Absent /\ db[x].account = a /\ ~db[x].resolved}
           gone == Dunning!Resolved(pending)
           rest == IF paid THEN gone ELSE Dunning!Unwritten
           new == Dunning!Over([r \in {a} |-> row], rest)
<1>1. at[s] = "pay" /\ Duns(s) /\ a \in Account /\ DOMAIN mine[s] = {}
  BY DEF Dunning!Pay, AlertsInv, Duns
<1>2. CASE Dunning!Rollback(s)
  BY <1>1, <1>2, DunningStops
<1>3. CASE Dunning!Paying(a) /\ Dunning!Write(s, new, "commit", job[s])
  <2>0. row.paid => paid
    OBVIOUS
  <2>1. row \in Dunning!AccountRow /\ db[a] \in Dunning!AccountRow
    BY <1>1 DEF AlertsInv, Kept, Dunning!AccountRow
  <2>2. /\ DOMAIN gone = pending
        /\ \A x \in pending : gone[x] = [db[x] EXCEPT !.resolved = TRUE]
    BY DEF Dunning!Resolved
  <2>3. \A x \in pending : /\ gone[x] \in Dunning!AlertRow /\ gone[x].resolved
                           /\ gone[x].kind = db[x].kind
    BY <2>2 DEF AlertsInv, Kept, Dunning!AlertRow
  <2>4. /\ DOMAIN rest \subseteq pending /\ (paid => DOMAIN rest = pending)
        /\ \A x \in DOMAIN rest : rest[x] = gone[x]
    BY <2>2 DEF Dunning!Unwritten
  <2>5. pending \subseteq Alert
    OBVIOUS
  <2> HIDE DEF gone, rest
  <2>6. /\ DOMAIN new = {a} \cup DOMAIN rest /\ new[a] = row
        /\ \A x \in DOMAIN rest : x # a => new[x] = rest[x]
    BY DEF Dunning!Over
  <2> HIDE DEF new, row
  <2>7. /\ Buying!Goto(s, "commit", job[s]) /\ db' = db /\ calm' = calm
        /\ mine' = [mine EXCEPT ![s] = Dunning!Over(new, @)]
    BY <1>3 DEF Dunning!Write, Dunning!Goto, Buying!Goto
  <2>8. Only(s) /\ at'[s] = "commit" /\ job'[s] = job[s]
    BY <2>7, OneRequest DEF AlertsInv
  <2>9. Lonely(s)
    BY <1>1, <2>7 DEF Lonely, AlertsInv
  <2>10. mine'[s] = Dunning!Over(new, mine[s])
    BY <2>7 DEF AlertsInv, Served
  <2>11. DOMAIN mine'[s] = DOMAIN new /\ \A r \in DOMAIN new : mine'[s][r] = new[r]
    BY <1>1, <2>10 DEF Dunning!Over
  <2>12. \A x \in Alert \cap DOMAIN new : x \in DOMAIN rest /\ x \in pending /\ new[x] = gone[x]
    BY <1>1, <2>4, <2>6, AlertRows
  <2>13. \A b \in Account \cap DOMAIN new : b = a
    BY <2>4, <2>5, <2>6, AlertRows
  <2>14. \A x \in pending : InTime(gone[x])
    BY <2>3 DEF AlertsInv, InTime
  <2>15. Duns(s)'
    <3>1. DOMAIN mine'[s] \subseteq Account \cup Alert
      BY <1>1, <2>4, <2>5, <2>6, <2>11
    <3>2. \A b \in Account \cap DOMAIN mine'[s] : mine'[s][b] \in Dunning!AccountRow
      BY <2>1, <2>6, <2>11, <2>13
    <3>3. \A x \in Alert \cap DOMAIN mine'[s] : mine'[s][x] \in Dunning!AlertRow /\ InTime(mine'[s][x])
      BY <2>3, <2>11, <2>12, <2>14
    <3> HIDE DEF pending
    <3> QED
      BY <3>1, <3>2, <3>3, <2>7, <2>8 DEF Duns, InTime
  <2>16. ASSUME calm' PROVE DunsAlone(s)'
    <3>1. Sparing(db) /\ Kept(db)
      BY <2>7, <2>16 DEF AlertsInv
    <3>2. \A r \in Account \cup Alert :
            View(s)'[r] = IF r \in DOMAIN new THEN new[r] ELSE db[r]
      BY <2>7, <2>11, AlertRows DEF View, Dunning!Sees
    <3>3. ASSUME NEW x \in Alert PROVE View(s)'[x] = db[x] \/ View(s)'[x].resolved
      BY <3>2, <2>3, <2>12
    <3>4. ASSUME NEW b \in Account, View(s)'[b].paid
          PROVE  db[b].paid \/ \A x \in Alert : Waits(db, x) /\ db[x].account = b => View(s)'[x].resolved
      <4>1. CASE b # a
        BY <3>2, <3>4, <4>1, <2>13
      <4>2. CASE b = a
        <5>1. View(s)'[a] = row
          BY <1>1, <3>2, <2>6
        <5>2. paid
          <6>1. View(s)'[a].paid
            BY <3>4, <4>2
          <6>2. row.paid
            BY <5>1, <6>1
          <6> QED
            BY <6>2, <2>0
        <5>3. ASSUME NEW x \in Alert, Waits(db, x), db[x].account = a PROVE View(s)'[x].resolved
          <6>1. x \in pending
            BY <5>3 DEF Waits
          <6>2. x \in DOMAIN new
            BY <5>2, <6>1, <2>4, <2>6
          <6> QED
            BY <6>1, <6>2, <3>2, <2>3, <2>12
        <5> QED
          BY <4>2, <5>3
      <4> QED
        BY <4>1, <4>2
    <3>5. Sparing(View(s)')
      BY <3>1, <3>3, <3>4, SettledSpares
    <3> QED
      BY <3>5, <2>8 DEF DunsAlone
  <2> QED
    BY <2>7, <2>8, <2>9, <2>15, <2>16, DunningGoesOn
<1> QED
  BY <1>2, <1>3 DEF Dunning!Pay, Dunning!Settled

(* An alert is resolved by hand.                                            *)
LEMMA ResolveSpares ==
  ASSUME Dunning!AlertsConstants, AlertsInv, NEW s \in Session, Dunning!Resolve(s)
  PROVE  AlertsInv'
<1> DEFINE x == job[s].alert
           row == [db[x] EXCEPT !.resolved = TRUE]
           new == Dunning!Resolved({x})
<1>1. at[s] = "resolve" /\ Duns(s) /\ x \in Alert /\ db[x] # Absent /\ DOMAIN mine[s] = {}
  BY DEF Dunning!Resolve, AlertsInv, Duns
<1>2. DOMAIN new = {x} /\ new[x] = row
  BY DEF Dunning!Resolved
<1>3. row \in Dunning!AlertRow /\ row.resolved /\ row.kind = db[x].kind
  BY <1>1 DEF AlertsInv, Kept, Dunning!AlertRow
<1> HIDE DEF new, row
<1>4. /\ Buying!Goto(s, "idle", NoJob) /\ db' = Dunning!Over(new, db) /\ mine' = mine /\ calm' = calm
  BY DEF Dunning!Resolve, Dunning!Apply, Dunning!Goto, Buying!Goto, new
<1>5. Only(s) /\ at'[s] = "idle"
  BY <1>4, OneRequest DEF AlertsInv
<1>6. DOMAIN mine'[s] = {} /\ Lonely(s)
  BY <1>1, <1>4 DEF Lonely, AlertsInv
<1>7. /\ DOMAIN db' = Dunning!Row
      /\ db'[x] = row /\ \A r \in Dunning!Row \ {x} : db'[r] = db[r]
  BY <1>1, <1>2, <1>4, AlertRows DEF Dunning!Over, AlertsInv
<1>8. db'["today"] = db["today"]
  BY <1>1, <1>7, AlertRows
<1>9. Kept(db') /\ \A y \in Alert : db[y] # Absent => db'[y] # Absent
  BY <1>1, <1>3, <1>7, AlertRows DEF AlertsInv, Kept
<1>10. \A y \in Alert : db'[y] # Absent => InTime(db'[y])
  <2>1. InTime(db[x])
    BY <1>1 DEF AlertsInv
  <2> QED
    BY <2>1, <1>3, <1>7, AlertRows DEF AlertsInv, InTime
<1>11. ASSUME calm' PROVE Sparing(db')
  <2>1. Sparing(db) /\ Kept(db)
    BY <1>4, <1>11 DEF AlertsInv
  <2>2. \A y \in Alert : db'[y] = db[y] \/ db'[y].resolved
    BY <1>3, <1>7, AlertRows
  <2>3. \A b \in Account : db'[b] = db[b]
    BY <1>1, <1>7, AlertRows
  <2> QED
    BY <2>1, <2>2, <2>3, SettledSpares
<1> QED
  BY <1>5, <1>6, <1>7, <1>8, <1>9, <1>10, <1>11, DunningEnds

(* Days pass, settings change, requests begin and go on.                    *)
LEMMA AlertsKeep ==
  ASSUME Dunning!AlertsConstants, AlertsInv, Dunning!Next
  PROVE  AlertsInv'
<1>1. CASE Dunning!NewDay
  <2>1. /\ db' = [db EXCEPT !["today"] = @ + 1] /\ at' = at /\ job' = job /\ mine' = mine /\ calm' = calm
    BY <1>1 DEF Dunning!NewDay
  <2>2. /\ DOMAIN db' = Dunning!Row /\ db'["today"] = db["today"] + 1
        /\ \A r \in Account \cup Alert : db'[r] = db[r]
    BY <2>1, AlertRows DEF AlertsInv
  <2>3. db["today"] \in Nat
    BY DEF AlertsInv
  <2> QED
    BY <2>1, <2>2, <2>3, OthersPass
<1>2. ASSUME NEW s \in Session, Dunning!UpsertConfig(s) PROVE AlertsInv'
  <2>1. PICK n \in Notice : /\ db' = [db EXCEPT !["notice"] = n]
                            /\ at' = at /\ job' = job /\ mine' = mine /\ (calm' => calm)
    BY <1>2 DEF Dunning!UpsertConfig
  <2>2. /\ DOMAIN db' = Dunning!Row /\ db'["today"] = db["today"]
        /\ \A r \in Account \cup Alert : db'[r] = db[r]
    BY <2>1, AlertRows DEF AlertsInv
  <2>3. db["today"] \in Nat
    BY DEF AlertsInv
  <2> QED
    BY <2>1, <2>2, <2>3, OthersPass
<1>3. ASSUME NEW s \in Session, Dunning!StartPay(s) PROVE AlertsInv'
  <2>1. PICK a \in Account : Dunning!Begin(s, "pay", [account |-> a])
    BY <1>3 DEF Dunning!StartPay
  <2> QED
    BY <2>1, DunningBegins
<1>4. ASSUME NEW s \in Session, Dunning!StartResolve(s) PROVE AlertsInv'
  <2>1. PICK x \in Alert : db[x] # Absent /\ Dunning!Begin(s, "resolve", [alert |-> x])
    BY <1>4 DEF Dunning!StartResolve
  <2> QED
    BY <2>1, DunningBegins
<1>5. ASSUME NEW s \in Session, Dunning!EndGenerate(s) \/ Dunning!EndPay(s) PROVE AlertsInv'
  BY <1>5, DunningCommits DEF Dunning!EndGenerate, Dunning!EndPay
<1>6. ASSUME NEW s \in Session, Dunning!Fail(s) PROVE AlertsInv'
  BY <1>6, DunningStops DEF Dunning!Fail
<1> QED
  BY <1>1, <1>2, <1>3, <1>4, <1>5, <1>6, GenerateBegins, GenerateKeeps, PaySpares, ResolveSpares
     DEF Dunning!Next

(* At first nothing is paid and there are no alerts.                        *)
LEMMA AlertsBegin ==
  ASSUME Dunning!AlertsConstants, Dunning!Init
  PROVE  AlertsInv
<1>1. /\ DOMAIN db = Dunning!Row /\ db["today"] = 0
      /\ \A a \in Account : db[a] = [collected |-> 0, paid |-> FALSE]
      /\ \A x \in Alert : db[x] = Absent
  BY AlertRows DEF Dunning!Init
<1>2. Kept(db) /\ Sparing(db)
  <2>1. [collected |-> 0, paid |-> FALSE] \in Dunning!AccountRow
    BY DEF Dunning!AccountRow
  <2>2. Kept(db)
    BY <1>1, <2>1 DEF Kept
  <2> QED
    BY <1>1, <2>2 DEF Sparing, Waits
<1>3. Served /\ \A s \in Session : at[s] = "idle" /\ DOMAIN mine[s] = {}
  BY DEF Dunning!Init, Dunning!RequestsInit, Dunning!Unwritten, Served
<1>4. ASSUME NEW s \in Session PROVE Duns(s) /\ DunsAlone(s)
  <2>1. \A r \in Account \cup Alert : View(s)[r] = db[r]
    BY <1>3, IdleSees
  <2> QED
    BY <1>2, <1>3, <2>1, SameSparing DEF Duns, DunsAlone
<1> QED
  BY <1>1, <1>2, <1>3, <1>4 DEF AlertsInv

(* However many requests generate and resolve alerts while accounts are     *)
(* paid and the days pass (generate, resolve, registerCollection and the    *)
(* triggers of a payment), nobody is dunned before the day; and requests    *)
(* that come one at a time leave an account one alert of a kind that waits, *)
(* and none once it is paid.                                                *)
THEOREM AlertsAlwaysFollow == OfficeSpec => []AlertsFollow
<1> DEFINE Tells == part = "alerts" => AlertsInv
<1>0. Dunning!AlertsConstants
  BY OfficeConstants
<1>1. OfficeInit => Tells
  BY <1>0, AlertsBegin DEF OfficeInit
<1>2. Tells /\ [OfficeNext]_<<vars, part>> => Tells'
  <2> SUFFICES ASSUME Tells, [OfficeNext]_<<vars, part>>, part' = "alerts" PROVE AlertsInv'
    OBVIOUS
  <2>1. CASE OfficeNext
    BY <1>0, <2>1, AlertsKeep DEF OfficeNext
  <2>2. CASE UNCHANGED <<vars, part>>
    BY <2>2 DEF vars, AlertsInv, Served, Duns, DunsAlone, View, Dunning!Sees, InTime
  <2> QED
    BY <2>1, <2>2
<1>3. Tells => AlertsFollow
  <2> SUFFICES ASSUME AlertsInv PROVE Dunning!AlertsFollow
    BY DEF AlertsFollow
  <2>1. \A x \in Dunning!Made : db[x].kind = Dunning!Overdue => db["today"] > DueDay
    BY DEF AlertsInv, InTime, Dunning!Made
  <2>2. ASSUME calm, NEW x \in Dunning!Made, ~db[x].resolved
        PROVE  /\ ~db[db[x].account].paid
               /\ \A y \in Dunning!Made : x # y /\ ~db[y].resolved
                    => <<db[x].account, db[x].kind>> # <<db[y].account, db[y].kind>>
    BY <2>2 DEF AlertsInv, Sparing, Waits, Dunning!Made
  <2> QED
    BY <2>1, <2>2 DEF Dunning!AlertsFollow
<1> QED
  BY <1>1, <1>2, <1>3, PTL DEF OfficeSpec

=============================================================================
