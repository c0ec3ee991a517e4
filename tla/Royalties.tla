----------------------------- MODULE Royalties -----------------------------
(***************************************************************************)
(* The gifts a purchase earns (pos/modules/pos-royalty): a rule has a      *)
(* threshold, the dimensions it applies to (kinds of product groups), and  *)
(* options (groups whose products may be given).                           *)
(*                                                                         *)
(* No request of this service opens a transaction.  The dimensions of a    *)
(* rule are replaced by one statement that drops the options outside them, *)
(* one that clears them, and one for each that is inserted.                *)
(***************************************************************************)
EXTENDS Database, FiniteSetsExt

CONSTANTS
  Dimension,       \* kinds of groups
  Group,           \* groups that may be given
  DimensionOf,     \* [Group -> Dimension]
  Threshold,       \* bound: the amounts a rule may ask for
  Rule,            \* the row of royalty_rule
  Gone,            \* a rule that was deleted: another would have another id
  Absent

\* Rows of different tables differ, and an amount is no missing row.
RoyaltiesConstants ==
  /\ Rule \notin Dimension \cup Group /\ Dimension \cap Group = {}
  /\ DimensionOf \in [Group -> Dimension]
  /\ Threshold \subseteq Nat \ {0}
  /\ Absent \notin Threshold \cup {1, 2} /\ Gone \notin Threshold

vars == <<db, mine, at, job, calm>>

Row == {Rule} \cup Dimension \cup Group

\* A row of royalty_rule_dimension is there or not; an option is its quantity.
Init ==
  /\ db = [r \in Row |-> IF r \in Dimension THEN FALSE ELSE Absent]
  /\ RequestsInit

Exists == db[Rule] \notin {Absent, Gone}
Dimensions == {d \in Dimension : db[d]}
Options == {g \in Group : db[g] # Absent}
Outside(D) == {g \in Options : DimensionOf[g] \notin D}

\* A statement that is a request by itself.
Single(s, new) ==
  /\ at[s] = "idle" /\ Free(s, DOMAIN new)
  /\ db' = Over(new, db)
  /\ calm' = (calm /\ Quiet)
  /\ UNCHANGED <<mine, at, job>>

\* createRule, updateRule
PutRule(s) ==
  \E n \in Threshold : db[Rule] # Gone /\ Single(s, [r \in {Rule} |-> n])

\* deleteRule: the dimensions and the options go with it.
DeleteRule(s) ==
  /\ Exists
  /\ Single(s, [r \in Row |-> CASE r = Rule -> Gone [] r \in Dimension -> FALSE [] OTHER -> Absent])

\* setRuleDimensions: the rule is read.
StartSet(s) ==
  \E D \in SUBSET Dimension :
    Exists /\ Begin(s, "drop options", [sent |-> D, left |-> D])

\* Mutant of DropOptions: the dimensions that are there are kept, not the new ones.
DropOptionsOfOld(s) ==
  /\ at[s] = "drop options"
  /\ Apply(s, [g \in Outside(Dimensions) |-> Absent], "clear", job[s])

\* deleteOptionsByRuleExcludingTypes
DropOptions(s) ==
  /\ at[s] = "drop options"
  /\ Apply(s, [g \in Outside(job[s].sent) |-> Absent], "clear", job[s])

\* clearRuleDimensions
Clear(s) ==
  /\ at[s] = "clear"
  /\ Apply(s, [d \in Dimensions |-> FALSE], "insert", job[s])

\* insertRuleDimension: one that is there is left; a rule that is gone fails the key.
InsertDimension(s) ==
  /\ at[s] = "insert"
  /\ \E d \in job[s].left :
       IF ~Exists THEN Rollback(s)
       ELSE Apply(s, [r \in {d} |-> TRUE], "insert", [job[s] EXCEPT !.left = @ \ {d}])

EndSet(s) == at[s] = "insert" /\ job[s].left = {} /\ Rollback(s)

\* createOption: the dimension of the group is looked for.
StartOption(s) ==
  \E g \in Group :
    DimensionOf[g] \in Dimensions /\ Begin(s, "insert option", [group |-> g])

\* INSERT ... SELECT from the rule: none without it; the key refuses a second option.
InsertOption(s) ==
  LET g == job[s].group IN
  /\ at[s] = "insert option"
  /\ IF ~Exists \/ db[g] # Absent THEN Rollback(s)
     ELSE Apply(s, [r \in {g} |-> 1], "idle", NoJob)

\* updateOption, deleteOption
PutOption(s) == \E g \in Options, n \in {1, 2} : Single(s, [r \in {g} |-> n])
DeleteOption(s) == \E g \in Options : Single(s, [r \in {g} |-> Absent])

Next == \E s \in Session :
          \/ PutRule(s) \/ DeleteRule(s)
          \/ StartSet(s) \/ DropOptions(s) \/ Clear(s) \/ InsertDimension(s) \/ EndSet(s)
          \/ StartOption(s) \/ InsertOption(s) \/ PutOption(s) \/ DeleteOption(s)
          \/ Fail(s)

Spec == Init /\ [][Next]_vars

-----------------------------------------------------------------------------
(* Properties.                                                              *)

TypeOK ==
  /\ db[Rule] \in Threshold \cup {Gone, Absent}
  /\ \A d \in Dimension : db[d] \in BOOLEAN
  /\ \A g \in Group : db[g] \in {1, 2, Absent}

\* getApplicableRules: how often a purchase earns what the rule gives.
Times(amount) == IF Exists /\ db[Rule] <= amount THEN amount \div db[Rule] ELSE 0

\* A replacement that ends alone leaves the dimensions that were sent, and no
\* option outside them, whatever replacement stopped half way before it; and
\* options and dimensions never outlive their rule, whoever deletes it.
RoyaltiesKept ==
  /\ ~Exists => Dimensions = {} /\ Options = {}
  /\ \A s \in Session :
       calm /\ at[s] = "insert" /\ job[s].left = {} /\ Exists =>
         Dimensions = job[s].sent /\ Outside(job[s].sent) = {}

=============================================================================
