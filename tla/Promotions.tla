----------------------------- MODULE Promotions -----------------------------
(***************************************************************************)
(* Promotions (pos/modules/promos) with their rules, segments and targets, *)
(* and the discount a rule gives (calculate_promotion_discount and the     *)
(* functions it calls).                                                    *)
(*                                                                         *)
(* A promotion is a row with rows in three other tables.  An update writes *)
(* the row first, whatever it changes, and then deletes and inserts the    *)
(* others one table at a time: whoever updates the same promotion waits at *)
(* the first statement.  Rows of those tables have no key but one of their *)
(* own, so inserts of two requests never meet, and what each session has   *)
(* inserted is a row here.                                                 *)
(***************************************************************************)
EXTENDS Database, Sequences

CONSTANTS
  Promo,       \* slots for promotion rows
  Change,      \* the requests: [kind, universal, active, rules, segments, targets]
  Same,        \* what a request leaves as it is
  None,        \* a column that is NULL
  MaxUnits, UnitPrice,   \* bound: what is bought, and at which prices
  Absent

vars == <<db, mine, at, job, calm>>

Tables == <<"rules", "segments", "targets">>
Table == {Tables[i] : i \in DOMAIN Tables}
Of(p, t, s) == <<p, t, s>>
Row == Promo \cup (Promo \X Table \X Session)

Kind == {"percentage", "fixed", "buy x get y", "volume", "tiered", "combo", "free shipping"}
Header == [kind : Kind, universal : BOOLEAN, active : BOOLEAN]

\* A rule of promotion_rule, all of whose columns may be NULL.
NoRule == [percent |-> None, amount |-> None, buy |-> None, get |-> None, off |-> 100,
           min |-> None, max |-> None, least |-> None,
           tier |-> None, from |-> None, to |-> None, price |-> None, less |-> None]

\* What the columns of a rule may hold, and the requests.
RuleRow ==
  [percent : (0 .. 100) \cup {None}, amount : Nat \cup {None},
   buy : Int \cup {None}, get : Int \cup {None}, off : 0 .. 100,
   min : Int \cup {None}, max : Int \cup {None}, least : Int \cup {None},
   tier : Int \cup {None}, from : Int \cup {None}, to : Int \cup {None},
   price : Int \cup {None}, less : Int \cup {None}]

PromotionsConstants ==
  /\ None \notin Int /\ UnitPrice \subseteq Nat
  /\ Absent \notin Header /\ Absent # {} /\ Promo \cap (Promo \X Table \X Session) = {}
  /\ \A c \in Change :
       /\ c.kind \in Kind \cup {Same} /\ c.universal \in BOOLEAN \cup {Same}
       /\ c.active \in BOOLEAN \cup {Same}
       /\ c.rules = Same \/ c.rules \subseteq RuleRow

Init ==
  /\ db = [r \in Row |-> IF r \in Promo THEN Absent ELSE {}]
  /\ RequestsInit

Exists(p) == db[p] # Absent
\* The rows of a table that belong to a promotion.
Has(p, t) == UNION {db[Of(p, t, s)] : s \in Session}

-----------------------------------------------------------------------------
(* Discounts, in cents.                                                     *)

Share(total, percent) == (total * percent + 50) \div 100
Within(q, low, high) == low # None /\ low <= q /\ (high = None \/ q <= high)
Top(R, Key(_)) == {r \in R : \A o \in R : Key(o) <= Key(r)}
Enough(r, purchase) == r.least = None \/ (purchase # None /\ purchase >= r.least)

ByMin(r) == r.min
ByTier(r) == r.tier

\* The rules each function may pick: LIMIT 1 takes any of them.
Percentages(R) == {r \in R : r.percent # None}
Amounts(R) == {r \in R : r.amount # None}
Gifts(R) == {r \in R : r.buy # None /\ r.get # None}
Volumes(R, q) == Top({r \in Percentages(R) : Within(q, r.min, r.max)}, ByMin)
Tiers(R, q) == Top({r \in R : r.tier # None /\ Within(q, r.from, r.to)}, ByTier)

PercentageDiscount(R, q, price, purchase) ==
  {Share(q * price, r.percent) : r \in {x \in Percentages(R) : Enough(x, purchase)}}

FixedDiscount(R, q, price, purchase) ==
  {IF r.amount < q * price THEN r.amount ELSE q * price :
     r \in {x \in Amounts(R) : Enough(x, purchase)}}

GiftDiscount(R, q, price) ==
  {Share((q \div r.buy) * r.get * price, r.off) : r \in {x \in Gifts(R) : q >= x.buy}}

VolumeDiscount(R, q, price) == {Share(q * price, r.percent) : r \in Volumes(R, q)}

TierDiscount(R, q, price) ==
  {(price - r.price) * q : r \in {x \in Tiers(R, q) : x.price # None}}
    \cup {Share(q * price, r.less) : r \in {x \in Tiers(R, q) : x.price = None /\ x.less # None}}

\* calculate_promotion_discount: what it may answer; nothing if it does not apply.
Discounts(p, q, price, purchase) ==
  LET R == Has(p, "rules") IN
  IF ~Exists(p) THEN {}
  ELSE IF ~db[p].active THEN {}
  ELSE CASE db[p].kind = "percentage" -> PercentageDiscount(R, q, price, purchase)
         [] db[p].kind = "fixed" -> FixedDiscount(R, q, price, purchase)
         [] db[p].kind = "buy x get y" -> GiftDiscount(R, q, price)
         [] db[p].kind = "volume" -> VolumeDiscount(R, q, price)
         [] db[p].kind = "tiered" -> TierDiscount(R, q, price)
         [] OTHER -> {}

-----------------------------------------------------------------------------
(* Requests.                                                                *)

\* createPromoWithRule
StartCreate(s) ==
  \E c \in Change :
    c.kind # Same /\ c.rules # Same /\ Begin(s, "insert promotion", [promo |-> None, change |-> c, table |-> 1])

InsertPromotion(s) ==
  LET c == job[s].change IN
  /\ at[s] = "insert promotion"
  /\ \E p \in Promo :
       /\ db[p] = Absent /\ Free(s, {p})
       /\ Write(s, [r \in {p} |-> [kind |-> c.kind, active |-> c.active = TRUE,
                                   universal |-> c.universal # FALSE]],
                "delete rows", [job[s] EXCEPT !.promo = p])

StartUpdate(s) ==
  \E p \in Promo, c \in Change :
    Exists(p) /\ Begin(s, "update promotion", [promo |-> p, change |-> c, table |-> 1])

Coalesce(new, old) == IF new = Same THEN old ELSE new

\* Mutant of UpdatePromotion: nothing is updated when the row does not change.
UpdatePromotionIfChanged(s) ==
  LET p == job[s].promo  c == job[s].change IN
  /\ at[s] = "update promotion"
  /\ IF Sees(s, p) = Absent THEN Rollback(s)
     ELSE IF c.kind = Same /\ c.universal = Same /\ c.active = Same THEN Look(s, "delete rows", job[s])
     ELSE Write(s, [r \in {p} |-> [kind |-> Coalesce(c.kind, Sees(s, p).kind),
                                   universal |-> Coalesce(c.universal, Sees(s, p).universal),
                                   active |-> Coalesce(c.active, Sees(s, p).active)]],
                "delete rows", job[s])

\* updatePromo: COALESCE column by column; a promotion that is gone is not found.
UpdatePromotion(s) ==
  LET p == job[s].promo  c == job[s].change IN
  /\ at[s] = "update promotion" /\ Free(s, {p})
  /\ IF Sees(s, p) = Absent THEN Rollback(s)
     ELSE Write(s, [r \in {p} |-> [kind |-> Coalesce(c.kind, Sees(s, p).kind),
                                   universal |-> Coalesce(c.universal, Sees(s, p).universal),
                                   active |-> Coalesce(c.active, Sees(s, p).active)]],
                "delete rows", job[s])

Given(s) == job[s].change[Tables[job[s].table]]

\* deletePromoRules, deletePromoSegments, deleteForPromotion; a table that the
\* request does not name is left alone.
DeleteRows(s) ==
  LET j == job[s] IN
  /\ at[s] = "delete rows" /\ j.table <= Len(Tables)
  /\ IF Given(s) = Same THEN Look(s, "delete rows", [j EXCEPT !.table = @ + 1])
     ELSE LET there == {r \in {Of(j.promo, Tables[j.table], u) : u \in Session} : Sees(s, r) # {}}
          IN Write(s, [r \in there |-> {}], "insert rows", j)

\* A universal promotion keeps no segments.
Kept(s) ==
  IF Tables[job[s].table] = "segments" /\ Sees(s, job[s].promo).universal THEN {} ELSE Given(s)

\* _insertRule, insertPromoSegment, replaceTargets
InsertRows(s) ==
  LET j == job[s]  r == Of(j.promo, Tables[j.table], s) IN
  /\ at[s] = "insert rows"
  /\ IF Sees(s, j.promo) = Absent THEN Rollback(s)
     ELSE Write(s, [x \in {r} |-> Sees(s, r) \cup Kept(s)], "delete rows",
                [j EXCEPT !.table = @ + 1])

EndRequest(s) == at[s] = "delete rows" /\ job[s].table > Len(Tables) /\ Commit(s)

\* deletePromotion: its rows go with it.
DeletePromotion(s) ==
  \E p \in Promo :
    LET rows == {p} \cup ({p} \X Table \X Session) IN
    /\ at[s] = "idle" /\ Exists(p) /\ Free(s, rows)
    /\ db' = [r \in Row |-> IF r = p THEN Absent ELSE IF r \in rows THEN {} ELSE db[r]]
    /\ calm' = (calm /\ Quiet)
    /\ UNCHANGED <<mine, at, job>>

Next == \E s \in Session :
          \/ StartCreate(s) \/ InsertPromotion(s) \/ StartUpdate(s) \/ UpdatePromotion(s)
          \/ DeleteRows(s) \/ InsertRows(s) \/ EndRequest(s) \/ DeletePromotion(s) \/ Fail(s)

Spec == Init /\ [][Next]_vars

-----------------------------------------------------------------------------
(* Properties.                                                              *)

TypeOK ==
  /\ \A p \in Promo : db[p] \in Header \cup {Absent}
  /\ \A r \in Promo \X Table \X Session : IsFiniteSet(db[r])

\* The rules and the targets of a promotion are those one request sent, none of
\* them mixed with what another sent at the same time, and nothing is left of a
\* promotion that was deleted.
PromotionsWhole ==
  \A p \in Promo :
    IF ~Exists(p) THEN \A t \in Table : Has(p, t) = {}
    ELSE \E c \in Change : \A t \in {"rules", "targets"} : c[t] # Same /\ Has(p, t) = c[t]

\* A rule that gives no more pieces than it asks for, no price above the price
\* of the product and no more than the whole.  The columns do not require it.
Fair(r, price) ==
  /\ r.buy # None /\ r.get # None => r.buy > 0 /\ r.get \in 0 .. r.buy
  /\ r.price # None => r.price \in 0 .. price
  /\ r.less # None => r.less \in 0 .. 100

\* Whatever kind a promotion becomes while its rules stay, no more is taken off
\* than what is bought costs, and nothing is added.
DiscountsFit ==
  \A p \in Promo, q \in 1 .. MaxUnits, price \in UnitPrice :
    (\A r \in Has(p, "rules") : Fair(r, price)) =>
      \A purchase \in {None, q * price} :
        \A d \in Discounts(p, q, price, purchase) : d \in 0 .. q * price

PromotionsKept == PromotionsWhole /\ DiscountsFit

=============================================================================
