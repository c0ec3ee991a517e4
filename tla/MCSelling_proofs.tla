-------------------------- MODULE MCSelling_proofs --------------------------
(***************************************************************************)
(* What goes on around a sale, proved for any number of requests served at *)
(* the same time: gifts, points of collections, returns, notes,            *)
(* promotions, and the till: its shifts, sales, payments and points.       *)
(***************************************************************************)
EXTENDS MCSelling, Sequences, Sums, TLAPS

-----------------------------------------------------------------------------
(* Requests, whatever they are about.                                       *)

\* Every request has a place, and two at once end what is calm.
Shaped ==
  /\ DOMAIN mine = Session /\ DOMAIN at = Session /\ DOMAIN job = Session
  /\ calm \in BOOLEAN
  /\ calm => \A s, t \in Session : s # t => at[s] = "idle" \/ at[t] = "idle"

\* Only s moves.
Others(s) ==
  /\ DOMAIN mine' = Session /\ DOMAIN at' = Session /\ DOMAIN job' = Session
  /\ \A t \in Session \ {s} : mine'[t] = mine[t] /\ at'[t] = at[t] /\ job'[t] = job[t]

\* What a step of s may do to calm.
Watched(s) == calm' \in BOOLEAN /\ (calm' => calm /\ (at[s] # "idle" \/ Quiet))

\* A row is written over.
Overwritten(new) ==
  /\ DOMAIN db' = DOMAIN db \cup DOMAIN new
  /\ \A r \in DOMAIN db \cup DOMAIN new : db'[r] = IF r \in DOMAIN new THEN new[r] ELSE db[r]

\* Requests stay in their places.
LEMMA StaysShaped ==
  ASSUME Shaped, NEW s \in Session, Others(s), Watched(s)
  PROVE  Shaped'
<1>1. ASSUME calm', NEW u \in Session, NEW t \in Session, u # t
      PROVE  at'[u] = "idle" \/ at'[t] = "idle"
  <2>1. calm /\ (at[s] # "idle" \/ Quiet) BY <1>1 DEF Watched
  <2>2. \A v \in Session \ {s} : at'[v] = at[v] BY DEF Others
  <2>3. at[u] = "idle" \/ at[t] = "idle" BY <1>1, <2>1 DEF Shaped
  <2> QED BY <1>1, <2>1, <2>2, <2>3 DEF Shaped, Quiet
<1> QED BY <1>1 DEF Shaped, Others, Watched

\* While all is calm, nobody but s has anything to do.
LEMMA OthersIdle ==
  ASSUME Shaped, NEW s \in Session, at[s] # "idle" \/ Quiet, calm
  PROVE  \A t \in Session \ {s} : at[t] = "idle"
BY DEF Shaped, Quiet

\* A request arrives, or reads.
LEMMA LookMoves ==
  ASSUME Shaped, NEW s \in Session, NEW label, NEW j, Begin(s, label, j) \/ Look(s, label, j),
         at[s] # "idle" \/ Begin(s, label, j)
  PROVE  /\ Others(s) /\ Watched(s) /\ at'[s] = label /\ job'[s] = j
         /\ mine' = mine /\ db' = db
<1>1. Goto(s, label, j) /\ mine' = mine /\ db' = db BY DEF Begin, Look
<1>2. Others(s) /\ at'[s] = label /\ job'[s] = j BY <1>1 DEF Goto, Others, Shaped
<1>3. CASE Begin(s, label, j)
  <2>1. calm' = (calm /\ Quiet) BY <1>3 DEF Begin
  <2>2. Quiet \in BOOLEAN BY DEF Quiet
  <2> QED BY <1>1, <1>2, <2>1, <2>2 DEF Watched, Shaped
<1>4. CASE Look(s, label, j) /\ at[s] # "idle"
  <2>1. calm' = calm BY <1>4 DEF Look
  <2> QED BY <1>1, <1>2, <1>4, <2>1 DEF Watched, Shaped
<1> QED BY <1>3, <1>4

\* A statement within a transaction.
LEMMA WriteMoves ==
  ASSUME Shaped, NEW s \in Session, NEW new, NEW label, NEW j, Write(s, new, label, j),
         at[s] # "idle"
  PROVE  /\ Others(s) /\ Watched(s) /\ at'[s] = label /\ job'[s] = j
         /\ mine'[s] = Over(new, mine[s]) /\ db' = db
         /\ \A t \in Session \ {s} : DOMAIN new \cap DOMAIN mine[t] = {}
<1>1. Goto(s, label, j) /\ mine' = [mine EXCEPT ![s] = Over(new, mine[s])] /\ db' = db
  BY DEF Write
<1>2. Others(s) /\ at'[s] = label /\ job'[s] = j /\ mine'[s] = Over(new, mine[s])
  BY <1>1 DEF Goto, Others, Shaped
<1> QED BY <1>1, <1>2 DEF Write, Watched, Shaped, Free

\* A statement that commits by itself.
LEMMA ApplyMoves ==
  ASSUME Shaped, NEW s \in Session, NEW new, NEW label, NEW j, Apply(s, new, label, j),
         at[s] # "idle"
  PROVE  /\ Others(s) /\ Watched(s) /\ at'[s] = label /\ job'[s] = j /\ mine' = mine
         /\ Overwritten(new) /\ calm' = calm
         /\ \A t \in Session \ {s} : DOMAIN new \cap DOMAIN mine[t] = {}
<1>1. Goto(s, label, j) /\ mine' = mine /\ db' = Over(new, db) BY DEF Apply
<1>2. Others(s) /\ at'[s] = label /\ job'[s] = j BY <1>1 DEF Goto, Others, Shaped
<1>3. Overwritten(new) BY <1>1 DEF Over, Overwritten
<1> QED BY <1>1, <1>2, <1>3 DEF Apply, Watched, Shaped, Free

\* COMMIT.
LEMMA PublishMoves ==
  ASSUME Shaped, NEW s \in Session, NEW label, NEW j, Publish(s, label, j), at[s] # "idle"
  PROVE  /\ Others(s) /\ Watched(s) /\ at'[s] = label /\ job'[s] = j
         /\ mine'[s] = Unwritten /\ Overwritten(mine[s]) /\ calm' = calm
<1>1. Goto(s, label, j) /\ mine' = [mine EXCEPT ![s] = Unwritten] /\ db' = Over(mine[s], db)
  BY DEF Publish
<1>2. Others(s) /\ at'[s] = label /\ job'[s] = j /\ mine'[s] = Unwritten
  BY <1>1 DEF Goto, Others, Shaped
<1>3. Overwritten(mine[s]) BY <1>1 DEF Over, Overwritten
<1> QED BY <1>1, <1>2, <1>3 DEF Publish, Watched, Shaped

\* ROLLBACK.
LEMMA RollbackMoves ==
  ASSUME Shaped, NEW s \in Session, Rollback(s), at[s] # "idle"
  PROVE  /\ Others(s) /\ Watched(s) /\ at'[s] = "idle" /\ job'[s] = NoJob
         /\ mine'[s] = Unwritten /\ db' = db /\ calm' = calm
<1>1. Goto(s, "idle", NoJob) /\ mine' = [mine EXCEPT ![s] = Unwritten] /\ db' = db
  BY DEF Rollback
<1>2. Others(s) /\ at'[s] = "idle" /\ job'[s] = NoJob /\ mine'[s] = Unwritten
  BY <1>1 DEF Goto, Others, Shaped
<1> QED BY <1>1, <1>2 DEF Rollback, Watched, Shaped

-----------------------------------------------------------------------------
(* Gifts.                                                                   *)

\* The gifts are requests like all the others.
LEMMA GiftsRequests ==
  /\ \A s, l, j : Gifts!Begin(s, l, j) <=> Begin(s, l, j)
  /\ \A s, n, l, j : Gifts!Apply(s, n, l, j) <=> Apply(s, n, l, j)
  /\ \A s : Gifts!Rollback(s) <=> Rollback(s)
  /\ \A n, o : Gifts!Over(n, o) = Over(n, o)
BY DEF Gifts!Begin, Begin, Gifts!Goto, Goto, Gifts!Quiet, Quiet, Gifts!Apply, Apply,
  Gifts!Free, Free, Gifts!Over, Over, Gifts!Rollback, Rollback, Gifts!Unwritten, Unwritten

\* A statement that is a request by itself.
LEMMA GiftsSingle ==
  ASSUME Shaped, NEW s \in Session, NEW new, Gifts!Single(s, new)
  PROVE  /\ Others(s) /\ Watched(s) /\ at' = at /\ job' = job /\ mine' = mine
         /\ Overwritten(new) /\ at[s] = "idle"
<1>1. at' = at /\ job' = job /\ mine' = mine /\ at[s] = "idle" BY DEF Gifts!Single
<1>2. Overwritten(new) BY DEF Gifts!Single, Gifts!Over, Overwritten
<1>3. calm' = (calm /\ Quiet) /\ Quiet \in BOOLEAN BY DEF Gifts!Single, Gifts!Quiet, Quiet
<1>4. Others(s) BY <1>1 DEF Others, Shaped
<1>5. Watched(s) BY <1>3 DEF Watched, Shaped
<1> QED BY <1>1, <1>2, <1>4, <1>5

\* What a request under way works on.
GiftsJob(s) ==
  /\ mine[s] = Unwritten
  /\ at[s] \in {"idle", "drop options", "clear", "insert", "insert option"}
  /\ at[s] \in {"drop options", "clear", "insert"} =>
       job[s] \in [sent : SUBSET Dimension, left : SUBSET Dimension]
  /\ at[s] = "insert option" => job[s] \in [group : Group]

\* How far a replacement has come that nobody else meets.
Halfway(s) ==
  /\ at[s] \in {"drop options", "clear"} => job[s].left = job[s].sent
  /\ at[s] \in {"clear", "insert"} => Gifts!Outside(job[s].sent) = {}
  /\ at[s] = "insert" =>
       job[s].left \subseteq job[s].sent /\ Gifts!Dimensions = job[s].sent \ job[s].left

\* What goes with its rule.
NoOrphans == ~Gifts!Exists => Gifts!Dimensions = {} /\ Gifts!Options = {}

\* What makes RoyaltiesKept inductive.
GiftsInv ==
  /\ Shaped /\ DOMAIN db = Gifts!Row /\ Gifts!TypeOK /\ NoOrphans
  /\ \A s \in Session : GiftsJob(s) /\ (calm => Halfway(s))

\* It is enough to look at the request that moves.
LEMMA GiftsMove ==
  ASSUME GiftsInv, NEW s \in Session, Others(s), Watched(s),
         DOMAIN db' = Gifts!Row, Gifts!TypeOK', NoOrphans',
         GiftsJob(s)', calm' => Halfway(s)'
  PROVE  GiftsInv'
<1>1. Shaped' BY StaysShaped DEF GiftsInv
<1>2. ASSUME NEW t \in Session, t # s PROVE GiftsJob(t)' /\ (calm' => Halfway(t)')
  <2>1. mine'[t] = mine[t] /\ at'[t] = at[t] /\ job'[t] = job[t] BY <1>2 DEF Others
  <2>2. GiftsJob(t)' BY <2>1 DEF GiftsInv, GiftsJob
  <2>3. ASSUME calm' PROVE at[t] = "idle"
    <3>1. calm /\ (at[s] # "idle" \/ Quiet) BY <2>3 DEF Watched
    <3> QED BY <1>2, <3>1, OthersIdle DEF GiftsInv
  <2>4. ASSUME calm' PROVE Halfway(t)' BY <2>1, <2>3, <2>4 DEF Halfway
  <2> QED BY <2>2, <2>4
<1> QED BY <1>1, <1>2 DEF GiftsInv

\* The initial state.
LEMMA GiftsStart == ASSUME Gifts!Init PROVE GiftsInv
<1>1. Gifts!RoyaltiesConstants BY SellingConstants
<1>2. Gifts!RequestsInit /\ db = [r \in Gifts!Row |-> IF r \in Dimension THEN FALSE ELSE Absent]
  BY DEF Gifts!Init
<1>3. Shaped /\ \A s \in Session : at[s] = "idle" /\ mine[s] = Unwritten
  BY <1>2 DEF Gifts!RequestsInit, Shaped, Gifts!Unwritten, Unwritten
<1>4. \A s \in Session : GiftsJob(s) /\ Halfway(s) BY <1>3 DEF GiftsJob, Halfway
<1>5. Gifts!TypeOK /\ NoOrphans /\ DOMAIN db = Gifts!Row
  BY <1>1, <1>2 DEF Gifts!Row, Gifts!TypeOK, NoOrphans, Gifts!Dimensions, Gifts!Options,
     Gifts!RoyaltiesConstants
<1> QED BY <1>3, <1>4, <1>5 DEF GiftsInv

\* createRule, updateRule, deleteRule, updateOption, deleteOption.
LEMMA GiftsSingles ==
  ASSUME GiftsInv, NEW s \in Session,
         \/ Gifts!PutRule(s) \/ Gifts!DeleteRule(s) \/ Gifts!PutOption(s) \/ Gifts!DeleteOption(s)
  PROVE  GiftsInv'
<1>0. Gifts!RoyaltiesConstants BY SellingConstants
<1> DEFINE Whole == [r \in Gifts!Row |->
                       CASE r = Rule -> Gone [] r \in Dimension -> FALSE [] OTHER -> Absent]
<1>1. PICK new : Gifts!Single(s, new) /\
        \/ \E n \in Threshold : db[Rule] # Gone /\ new = [r \in {Rule} |-> n]
        \/ new = Whole
        \/ \E g \in Gifts!Options, n \in {1, 2, Absent} : new = [r \in {g} |-> n]
  BY DEF Gifts!PutRule, Gifts!DeleteRule, Gifts!PutOption, Gifts!DeleteOption
<1>2. /\ Others(s) /\ Watched(s) /\ at' = at /\ job' = job /\ mine' = mine
      /\ Overwritten(new) /\ at[s] = "idle"
  BY <1>1, GiftsSingle DEF GiftsInv
<1>3. GiftsJob(s)' /\ Halfway(s)' BY <1>2 DEF GiftsInv, GiftsJob, Halfway
<1>4. DOMAIN db' = Gifts!Row /\ Gifts!TypeOK' /\ NoOrphans'
  <2>1. CASE \E n \in Threshold : db[Rule] # Gone /\ new = [r \in {Rule} |-> n]
    <3>1. PICK n \in Threshold : new = [r \in {Rule} |-> n] BY <2>1
    <3>2. DOMAIN db' = Gifts!Row /\ db'[Rule] = n
          /\ \A r \in Dimension \cup Group : db'[r] = db[r]
      BY <1>0, <1>2, <3>1 DEF GiftsInv, Overwritten, Gifts!Row, Gifts!RoyaltiesConstants
    <3> QED BY <1>0, <3>2 DEF GiftsInv, Gifts!TypeOK, NoOrphans, Gifts!Exists,
              Gifts!RoyaltiesConstants
  <2>2. CASE new = Whole
    <3>1. DOMAIN db' = Gifts!Row /\ db'[Rule] = Gone
          /\ (\A d \in Dimension : db'[d] = FALSE) /\ (\A g \in Group : db'[g] = Absent)
      BY <1>0, <1>2, <2>2 DEF GiftsInv, Overwritten, Gifts!Row, Gifts!RoyaltiesConstants
    <3> QED BY <3>1 DEF Gifts!TypeOK, NoOrphans, Gifts!Dimensions, Gifts!Options
  <2>3. CASE \E g \in Gifts!Options, n \in {1, 2, Absent} : new = [r \in {g} |-> n]
    <3>1. PICK g \in Gifts!Options, n \in {1, 2, Absent} : new = [r \in {g} |-> n] BY <2>3
    <3>2. g \in Group /\ Gifts!Exists BY DEF Gifts!Options, GiftsInv, NoOrphans
    <3>3. DOMAIN db' = Gifts!Row /\ db'[g] = n
          /\ \A r \in Gifts!Row \ {g} : db'[r] = db[r]
      BY <1>2, <3>1, <3>2 DEF GiftsInv, Overwritten, Gifts!Row
    <3>4. db'[Rule] = db[Rule] /\ \A d \in Dimension : db'[d] = db[d]
      BY <1>0, <3>2, <3>3 DEF Gifts!Row, Gifts!RoyaltiesConstants
    <3>5. \A h \in Group : db'[h] \in {1, 2, Absent}
      BY <3>3 DEF GiftsInv, Gifts!TypeOK, Gifts!Row
    <3> QED BY <3>2, <3>3, <3>4, <3>5 DEF GiftsInv, Gifts!TypeOK, NoOrphans, Gifts!Exists
  <2> QED BY <1>1, <2>1, <2>2, <2>3
<1> QED BY <1>2, <1>3, <1>4, GiftsMove

\* setRuleDimensions and createOption read before they write.
LEMMA GiftsBegin ==
  ASSUME GiftsInv, NEW s \in Session, Gifts!StartSet(s) \/ Gifts!StartOption(s)
  PROVE  GiftsInv'
<1>1. PICK label, j : Begin(s, label, j) /\
        \/ /\ label = "drop options"
           /\ \E D \in SUBSET Dimension : j = [sent |-> D, left |-> D]
        \/ label = "insert option" /\ \E g \in Group : j = [group |-> g]
  BY GiftsRequests DEF Gifts!StartSet, Gifts!StartOption
<1>2. /\ Others(s) /\ Watched(s) /\ at'[s] = label /\ job'[s] = j /\ mine' = mine /\ db' = db
  BY <1>1, LookMoves DEF GiftsInv
<1>3. GiftsJob(s)' /\ Halfway(s)'
  <2>1. mine'[s] = Unwritten BY <1>2 DEF GiftsInv, GiftsJob
  <2>2. CASE label = "insert option" /\ \E g \in Group : j = [group |-> g]
    <3>1. PICK g \in Group : j = [group |-> g] BY <2>2
    <3>2. j \in [group : Group] BY <3>1
    <3> QED BY <1>2, <2>1, <2>2, <3>2 DEF GiftsJob, Halfway
  <2>3. CASE label = "drop options" /\ \E D \in SUBSET Dimension : j = [sent |-> D, left |-> D]
    <3>1. PICK D \in SUBSET Dimension : j = [sent |-> D, left |-> D] BY <2>3
    <3>2. j \in [sent : SUBSET Dimension, left : SUBSET Dimension] /\ j.left = j.sent BY <3>1
    <3> QED BY <1>2, <2>1, <2>3, <3>2 DEF GiftsJob, Halfway
  <2> QED BY <1>1, <2>2, <2>3
<1>4. DOMAIN db' = Gifts!Row /\ Gifts!TypeOK' /\ NoOrphans'
  BY <1>2 DEF GiftsInv, Gifts!TypeOK, NoOrphans, Gifts!Exists, Gifts!Dimensions, Gifts!Options
<1> QED BY <1>2, <1>3, <1>4, GiftsMove

\* A request ends, or fails.
LEMMA GiftsRollback ==
  ASSUME GiftsInv, NEW s \in Session, Rollback(s), at[s] # "idle"
  PROVE  GiftsInv'
<1>1. /\ Others(s) /\ Watched(s) /\ at'[s] = "idle" /\ mine'[s] = Unwritten /\ db' = db
  BY RollbackMoves DEF GiftsInv
<1>2. GiftsJob(s)' /\ Halfway(s)' BY <1>1 DEF GiftsJob, Halfway
<1>3. DOMAIN db' = Gifts!Row /\ Gifts!TypeOK' /\ NoOrphans'
  BY <1>1 DEF GiftsInv, Gifts!TypeOK, NoOrphans, Gifts!Exists, Gifts!Dimensions, Gifts!Options
<1> QED BY <1>1, <1>2, <1>3, GiftsMove

\* deleteOptionsByRuleExcludingTypes leaves no option outside what was sent.
LEMMA GiftsDrop ==
  ASSUME GiftsInv, NEW s \in Session, Gifts!DropOptions(s)
  PROVE  GiftsInv'
<1> DEFINE Gone_ == Gifts!Outside(job[s].sent)
           new == [g \in Gone_ |-> Absent]
<1>0. Gifts!RoyaltiesConstants BY SellingConstants
<1>1. at[s] = "drop options" /\ Apply(s, new, "clear", job[s])
  BY GiftsRequests DEF Gifts!DropOptions
<1>2. /\ Others(s) /\ Watched(s) /\ at'[s] = "clear" /\ job'[s] = job[s] /\ mine' = mine
      /\ Overwritten(new) /\ calm' = calm
  <2> HIDE DEF new
  <2> QED BY <1>1, ApplyMoves DEF GiftsInv
<1>3. Gone_ \subseteq Group BY DEF Gifts!Outside, Gifts!Options
<1>4. /\ DOMAIN db' = Gifts!Row
      /\ \A r \in Gifts!Row : db'[r] = IF r \in Gone_ THEN Absent ELSE db[r]
  BY <1>2, <1>3 DEF GiftsInv, Overwritten, Gifts!Row
<1>5. /\ db'[Rule] = db[Rule] /\ \A d \in Dimension : db'[d] = db[d]
      /\ \A g \in Group : db'[g] = IF g \in Gone_ THEN Absent ELSE db[g]
  BY <1>0, <1>3, <1>4 DEF Gifts!Row, Gifts!RoyaltiesConstants
<1> HIDE DEF Gone_, new
<1>6. Gifts!TypeOK' /\ NoOrphans'
  BY <1>5 DEF GiftsInv, Gifts!TypeOK, NoOrphans, Gifts!Exists, Gifts!Dimensions, Gifts!Options
<1>7. Gifts!Outside(job[s].sent)' = {}
  <2>1. Gone_ = {g \in Group : db[g] # Absent /\ DimensionOf[g] \notin job[s].sent}
    BY DEF Gone_, Gifts!Outside, Gifts!Options
  <2> QED BY <1>2, <1>5, <2>1 DEF Gifts!Outside, Gifts!Options
<1>8. GiftsJob(s)' BY <1>1, <1>2 DEF GiftsInv, GiftsJob
<1>9. calm' => Halfway(s)' BY <1>1, <1>2, <1>7 DEF GiftsInv, Halfway, Gifts!Outside
<1> QED BY <1>2, <1>4, <1>6, <1>8, <1>9, GiftsMove

\* clearRuleDimensions leaves none.
LEMMA GiftsClear ==
  ASSUME GiftsInv, NEW s \in Session, Gifts!Clear(s)
  PROVE  GiftsInv'
<1> DEFINE new == [d \in Gifts!Dimensions |-> FALSE]
<1>0. Gifts!RoyaltiesConstants BY SellingConstants
<1>1. at[s] = "clear" /\ Apply(s, new, "insert", job[s])
  BY GiftsRequests DEF Gifts!Clear
<1>2. /\ Others(s) /\ Watched(s) /\ at'[s] = "insert" /\ job'[s] = job[s] /\ mine' = mine
      /\ Overwritten(new) /\ calm' = calm
  <2> HIDE DEF new
  <2> QED BY <1>1, ApplyMoves DEF GiftsInv
<1>3. Gifts!Dimensions \subseteq Dimension BY DEF Gifts!Dimensions
<1>4. /\ DOMAIN db' = Gifts!Row
      /\ \A r \in Gifts!Row : db'[r] = IF r \in Gifts!Dimensions THEN FALSE ELSE db[r]
  BY <1>2, <1>3 DEF GiftsInv, Overwritten, Gifts!Row
<1>5. /\ db'[Rule] = db[Rule] /\ (\A d \in Dimension : db'[d] = FALSE)
      /\ \A g \in Group : db'[g] = db[g]
  <2>1. \A d \in Dimension \ Gifts!Dimensions : db[d] = FALSE
    BY DEF GiftsInv, Gifts!TypeOK, Gifts!Dimensions
  <2> QED BY <1>0, <1>3, <1>4, <2>1 DEF Gifts!Row, Gifts!RoyaltiesConstants
<1> HIDE DEF new
<1>6. Gifts!TypeOK' /\ NoOrphans' /\ Gifts!Dimensions' = {}
  BY <1>5 DEF GiftsInv, Gifts!TypeOK, NoOrphans, Gifts!Exists, Gifts!Dimensions, Gifts!Options
<1>7. Gifts!Outside(job[s].sent)' = Gifts!Outside(job[s].sent)
  BY <1>2, <1>5 DEF Gifts!Outside, Gifts!Options
<1>8. GiftsJob(s)' BY <1>1, <1>2 DEF GiftsInv, GiftsJob
<1>9. ASSUME calm' PROVE Halfway(s)'
  <2>1. job[s].left = job[s].sent /\ Gifts!Outside(job[s].sent) = {}
    BY <1>1, <1>2, <1>9 DEF GiftsInv, Halfway
  <2> QED BY <1>2, <1>6, <1>7, <2>1 DEF Halfway
<1> QED BY <1>2, <1>4, <1>6, <1>8, <1>9, GiftsMove

\* insertRuleDimension
LEMMA GiftsInsertDimension ==
  ASSUME GiftsInv, NEW s \in Session, Gifts!InsertDimension(s)
  PROVE  GiftsInv'
<1>0. Gifts!RoyaltiesConstants BY SellingConstants
<1>1. at[s] = "insert" BY DEF Gifts!InsertDimension
<1>2. CASE Rollback(s) BY <1>1, <1>2, GiftsRollback
<1>3. ASSUME NEW d \in job[s].left, Gifts!Exists,
             Apply(s, [r \in {d} |-> TRUE], "insert", [job[s] EXCEPT !.left = @ \ {d}])
      PROVE  GiftsInv'
  <2> DEFINE new == [r \in {d} |-> TRUE]
             next == [job[s] EXCEPT !.left = @ \ {d}]
  <2>1. job[s] \in [sent : SUBSET Dimension, left : SUBSET Dimension]
    BY <1>1 DEF GiftsInv, GiftsJob
  <2>2. next = [sent |-> job[s].sent, left |-> job[s].left \ {d}] /\ d \in Dimension
    BY <2>1
  <2>3. /\ Others(s) /\ Watched(s) /\ at'[s] = "insert" /\ job'[s] = next /\ mine' = mine
        /\ Overwritten(new) /\ calm' = calm
    <3> HIDE DEF new, next
    <3>1. Apply(s, new, "insert", next) BY <1>3 DEF new, next
    <3> QED BY <1>1, <3>1, ApplyMoves DEF GiftsInv
  <2>4. /\ DOMAIN db' = Gifts!Row
        /\ \A r \in Gifts!Row : db'[r] = IF r = d THEN TRUE ELSE db[r]
    <3>1. DOMAIN new = {d} /\ new[d] = TRUE OBVIOUS
    <3>2. DOMAIN db = Gifts!Row /\ d \in Gifts!Row BY <2>2 DEF GiftsInv, Gifts!Row
    <3> HIDE DEF new, next
    <3> QED BY <2>3, <3>1, <3>2 DEF Overwritten
  <2>5. /\ db'[Rule] = db[Rule]
        /\ \A c \in Dimension : db'[c] = IF c = d THEN TRUE ELSE db[c]
        /\ \A g \in Group : db'[g] = db[g]
    BY <1>0, <2>2, <2>4 DEF Gifts!Row, Gifts!RoyaltiesConstants
  <2> HIDE DEF new, next
  <2>6. Gifts!TypeOK' BY <2>5 DEF GiftsInv, Gifts!TypeOK
  <2>7. NoOrphans' BY <1>3, <2>5 DEF NoOrphans, Gifts!Exists
  <2>8. Gifts!Dimensions' = Gifts!Dimensions \cup {d} BY <2>2, <2>5 DEF Gifts!Dimensions
  <2>9. Gifts!Outside(job[s].sent)' = Gifts!Outside(job[s].sent)
    BY <2>2, <2>3, <2>5 DEF Gifts!Outside, Gifts!Options
  <2>10. GiftsJob(s)'
    <3>1. next \in [sent : SUBSET Dimension, left : SUBSET Dimension] BY <2>1, <2>2
    <3>2. mine'[s] = Unwritten BY <2>3 DEF GiftsInv, GiftsJob
    <3> QED BY <2>3, <3>1, <3>2 DEF GiftsJob
  <2>11. ASSUME calm' PROVE Halfway(s)'
    <3>1. /\ Gifts!Outside(job[s].sent) = {} /\ job[s].left \subseteq job[s].sent
          /\ Gifts!Dimensions = job[s].sent \ job[s].left
      BY <1>1, <2>3, <2>11 DEF GiftsInv, Halfway
    <3> QED BY <1>3, <2>2, <2>3, <2>8, <2>9, <3>1 DEF Halfway
  <2> QED BY <2>3, <2>4, <2>6, <2>7, <2>10, <2>11, GiftsMove
<1> QED BY <1>2, <1>3, GiftsRequests DEF Gifts!InsertDimension

\* INSERT of an option.
LEMMA GiftsInsertOption ==
  ASSUME GiftsInv, NEW s \in Session, Gifts!InsertOption(s)
  PROVE  GiftsInv'
<1> DEFINE g == job[s].group
           new == [r \in {g} |-> 1]
<1>0. Gifts!RoyaltiesConstants BY SellingConstants
<1>1. at[s] = "insert option" /\ g \in Group BY DEF Gifts!InsertOption, GiftsInv, GiftsJob
<1>2. CASE Rollback(s) BY <1>1, <1>2, GiftsRollback
<1>3. CASE Gifts!Exists /\ Apply(s, new, "idle", NoJob)
  <2> HIDE DEF g
  <2>1. /\ Others(s) /\ Watched(s) /\ at'[s] = "idle" /\ mine' = mine /\ Overwritten(new)
    <3> HIDE DEF new
    <3> QED BY <1>1, <1>3, ApplyMoves DEF GiftsInv
  <2>2. DOMAIN db' = Gifts!Row /\ \A r \in Gifts!Row : db'[r] = IF r = g THEN 1 ELSE db[r]
    BY <1>1, <2>1 DEF GiftsInv, Overwritten, Gifts!Row
  <2>3. /\ db'[Rule] = db[Rule] /\ (\A d \in Dimension : db'[d] = db[d])
        /\ \A h \in Group : db'[h] = IF h = g THEN 1 ELSE db[h]
    BY <1>0, <1>1, <2>2 DEF Gifts!Row, Gifts!RoyaltiesConstants
  <2>4. Gifts!TypeOK' /\ NoOrphans'
    BY <1>3, <2>3 DEF GiftsInv, Gifts!TypeOK, NoOrphans, Gifts!Exists
  <2>5. GiftsJob(s)' /\ Halfway(s)' BY <2>1 DEF GiftsInv, GiftsJob, Halfway
  <2> QED BY <2>1, <2>2, <2>4, <2>5, GiftsMove
<1> QED BY <1>2, <1>3, GiftsRequests DEF Gifts!InsertOption

\* Every step of the gifts keeps the invariant.
LEMMA GiftsStep == ASSUME GiftsInv, Gifts!Next PROVE GiftsInv'
<1>1. PICK s \in Session :
        \/ Gifts!PutRule(s) \/ Gifts!DeleteRule(s)
        \/ Gifts!StartSet(s) \/ Gifts!DropOptions(s) \/ Gifts!Clear(s)
        \/ Gifts!InsertDimension(s) \/ Gifts!EndSet(s)
        \/ Gifts!StartOption(s) \/ Gifts!InsertOption(s) \/ Gifts!PutOption(s)
        \/ Gifts!DeleteOption(s) \/ Gifts!Fail(s)
  BY DEF Gifts!Next
<1>2. CASE Gifts!PutRule(s) \/ Gifts!DeleteRule(s) \/ Gifts!PutOption(s) \/ Gifts!DeleteOption(s)
  BY <1>2, GiftsSingles
<1>3. CASE Gifts!StartSet(s) \/ Gifts!StartOption(s) BY <1>3, GiftsBegin
<1>4. CASE Gifts!DropOptions(s) BY <1>4, GiftsDrop
<1>5. CASE Gifts!Clear(s) BY <1>5, GiftsClear
<1>6. CASE Gifts!InsertDimension(s) BY <1>6, GiftsInsertDimension
<1>7. CASE Gifts!InsertOption(s) BY <1>7, GiftsInsertOption
<1>8. CASE Gifts!EndSet(s) \/ Gifts!Fail(s)
  <2>1. at[s] # "idle" /\ Rollback(s)
    BY <1>8, GiftsRequests DEF Gifts!EndSet, Gifts!Fail
  <2> QED BY <2>1, GiftsRollback
<1> QED BY <1>1, <1>2, <1>3, <1>4, <1>5, <1>6, <1>7, <1>8

\* RoyaltiesKept is part of the invariant.
LEMMA GiftsShow == ASSUME GiftsInv PROVE Gifts!RoyaltiesKept
BY DEF GiftsInv, NoOrphans, Halfway, Gifts!RoyaltiesKept

-----------------------------------------------------------------------------
(* Points.                                                                  *)

\* What division rounds down.
LEMMA Floor ==
  ASSUME NEW a \in Nat, NEW b \in Nat \ {0}
  PROVE  a \div b \in Nat /\ b * (a \div b) <= a /\ a < b * (a \div b) + b
<1> DEFINE q == a \div b
<1>1. a = b * q + (a % b) /\ a % b \in 0 .. (b - 1) /\ q \in Int OBVIOUS
<1>2. ASSUME q < 0 PROVE FALSE
  <2>1. b * q <= -b BY <1>1, <1>2
  <2> QED BY <1>1, <2>1
<1> QED BY <1>1, <1>2

\* A factor is taken from both sides.
LEMMA LessWithout ==
  ASSUME NEW b \in Nat \ {0}, NEW x \in Int, NEW y \in Int, b * x < b * y
  PROVE  x < y
<1>1. ASSUME y <= x PROVE FALSE
  <2>1. PICK d \in Nat : x = y + d BY <1>1
  <2>2. b * d >= 0 /\ b * x = b * y + b * d BY <2>1
  <2> QED BY <2>2
<1> QED BY <1>1

\* What each of several earns, rounded down, is what they earn at once but for
\* less than one each.
LEMMA RoundingFits ==
  ASSUME NEW S, IsFiniteSet(S), S # {}, NEW b \in Nat \ {0}, NEW a, NEW e \in Nat,
         \A c \in S : a[c] \in Nat, NEW q, \A c \in S : q[c] = (a[c] * e) \div b
  PROVE  /\ SumFunctionOnSet(q, S) <= (SumFunctionOnSet(a, S) * e) \div b
         /\ (SumFunctionOnSet(a, S) * e) \div b < SumFunctionOnSet(q, S) + Cardinality(S)
<1> DEFINE T == SumFunctionOnSet(a, S)
           Q == SumFunctionOnSet(q, S)
           n == Cardinality(S)
           once == (T * e) \div b
           ae == [c \in S |-> e * a[c]]
           bq == [c \in S |-> b * q[c]]
           low == [c \in S |-> e * a[c] - b * q[c]]
<1>1. ASSUME NEW c \in S
      PROVE  /\ q[c] \in Nat /\ ae[c] \in Int /\ bq[c] \in Int /\ low[c] \in Int
             /\ ae[c] = e * a[c] /\ bq[c] = b * q[c] /\ ae[c] = bq[c] + low[c]
             /\ low[c] >= 0 /\ low[c] <= b - 1
  <2> DEFINE x == a[c] * e
  <2>1. x \in Nat /\ x = e * a[c] OBVIOUS
  <2>2. x \div b \in Nat /\ b * (x \div b) <= x /\ x < b * (x \div b) + b
    <3> HIDE DEF x
    <3> QED BY <2>1, Floor
  <2>3. q[c] = x \div b OBVIOUS
  <2>4. ae[c] = x /\ bq[c] = b * (x \div b) /\ low[c] = x - b * (x \div b) BY <2>1, <2>3
  <2>5. b * (x \div b) \in Int BY <2>2
  <2> HIDE DEF x, ae, bq, low
  <2>6. q[c] \in Nat /\ bq[c] = b * q[c] /\ bq[c] \in Int BY <2>2, <2>3, <2>4, <2>5
  <2>7. ae[c] = e * a[c] /\ ae[c] \in Int BY <2>1, <2>4
  <2>8. low[c] \in Int /\ low[c] >= 0 /\ low[c] <= b - 1 /\ ae[c] = bq[c] + low[c]
    <3> DEFINE d == b * (x \div b)
    <3>1. /\ x \in Int /\ d \in Int /\ d <= x /\ x < d + b
          /\ ae[c] = x /\ bq[c] = d /\ low[c] = x - d
      BY <2>1, <2>2, <2>4, <2>5
    <3> HIDE DEF d
    <3> QED BY <3>1
  <2> QED BY <2>6, <2>7, <2>8
<1>2. T \in Nat /\ Q \in Nat /\ n \in Nat \ {0}
  <2>1. T \in Nat BY SumNatural
  <2>2. \A c \in S : q[c] \in Nat BY <1>1
  <2>3. Q \in Nat BY <2>2, SumNatural
  <2> QED BY <2>1, <2>3, FS_CardinalityType, FS_EmptySet
<1> HIDE DEF ae, bq, low
<1>3. SumFunctionOnSet(ae, S) = e * T
  <2>1. \A c \in S : a[c] \in Int /\ ae[c] = e * a[c] BY <1>1
  <2> QED BY <2>1, SumScaled
<1>4. SumFunctionOnSet(bq, S) = b * Q
  <2>1. \A c \in S : q[c] \in Int /\ bq[c] = b * q[c] BY <1>1
  <2> QED BY <2>1, SumScaled
<1>5. SumFunctionOnSet(ae, S) = SumFunctionOnSet(bq, S) + SumFunctionOnSet(low, S)
  <2>1. \A c \in S : bq[c] \in Int /\ low[c] \in Int /\ ae[c] = bq[c] + low[c] BY <1>1
  <2> QED BY <2>1, SumAdds
<1>6. SumFunctionOnSet(low, S) \in Nat /\ SumFunctionOnSet(low, S) <= n * (b - 1)
  <2>1. \A c \in S : low[c] \in Nat /\ low[c] \in Int /\ low[c] <= b - 1 BY <1>1
  <2>2. b - 1 \in Int OBVIOUS
  <2> QED BY <2>1, <2>2, SumNatural, SumBounded
<1> HIDE DEF T, Q, n
<1>7. T * e \in Nat /\ T * e = e * T BY <1>2
<1>8. once \in Nat /\ b * once <= T * e /\ T * e < b * once + b BY <1>7, Floor
<1> HIDE DEF once
<1>9. b * Q <= e * T /\ e * T <= b * Q + n * (b - 1)
  <2>1. b * Q \in Int /\ n * (b - 1) \in Int BY <1>2
  <2> QED BY <1>3, <1>4, <1>5, <1>6, <2>1
<1>10. Q < once + 1
  <2>1. b * (once + 1) = b * once + b BY <1>8
  <2>2. b * Q < b * (once + 1) BY <1>2, <1>7, <1>8, <1>9, <2>1
  <2> QED BY <1>2, <1>8, <2>2, LessWithout
<1>11. once < Q + n
  <2>1. b * (Q + n) = b * Q + n * (b - 1) + n BY <1>2
  <2>2. b * once < b * (Q + n) BY <1>2, <1>7, <1>8, <1>9, <2>1
  <2> QED BY <1>2, <1>8, <2>2, LessWithout
<1>12. Q <= once /\ once < Q + n BY <1>2, <1>8, <1>10, <1>11
<1> QED BY <1>12 DEF T, Q, n, once

\* The points are requests like all the others.
LEMMA PointsRequests ==
  /\ \A s, l, j : Points!Look(s, l, j) <=> Look(s, l, j)
  /\ \A s, n, l, j : Points!Apply(s, n, l, j) <=> Apply(s, n, l, j)
  /\ \A s : Points!Rollback(s) <=> Rollback(s)
  /\ \A n, o : Points!Over(n, o) = Over(n, o)
BY DEF Points!Look, Look, Points!Goto, Goto, Points!Apply, Apply,
  Points!Free, Free, Points!Over, Over, Points!Rollback, Rollback, Points!Unwritten, Unwritten

\* A statement that is a request by itself.
LEMMA PointsSingle ==
  ASSUME Shaped, NEW s \in Session, NEW new, Points!Single(s, new)
  PROVE  /\ Others(s) /\ Watched(s) /\ at' = at /\ job' = job /\ mine' = mine
         /\ Overwritten(new) /\ at[s] = "idle"
<1>1. at' = at /\ job' = job /\ mine' = mine /\ at[s] = "idle" BY DEF Points!Single
<1>2. Overwritten(new) BY DEF Points!Single, Points!Over, Overwritten
<1>3. calm' = (calm /\ Quiet) /\ Quiet \in BOOLEAN BY DEF Points!Single, Points!Quiet, Quiet
<1>4. Others(s) BY <1>1 DEF Others, Shaped
<1>5. Watched(s) BY <1>3 DEF Watched, Shaped
<1> QED BY <1>1, <1>2, <1>4, <1>5

\* What the instance extends is what this module extends.
LEMMA PointsSums ==
  /\ \A f : Points!SumFunction(f) = SumFunctionOnSet(f, DOMAIN f)
  /\ \A S : Points!IsFiniteSet(S) <=> IsFiniteSet(S)
  /\ \A S : Points!Cardinality(S) = Cardinality(S)
<1>1. ASSUME NEW f PROVE Points!SumFunction(f) = SumFunctionOnSet(f, DOMAIN f)
  BY DEF Points!SumFunction, Points!SumFunctionOnSet, Points!FoldFunctionOnSet,
         Points!MapThenFoldSet, SumFunctionOnSet, FoldFunctionOnSet, MapThenFoldSet
<1>2. ASSUME NEW S PROVE Points!IsFiniteSet(S) <=> IsFiniteSet(S)
  BY DEF Points!IsFiniteSet, IsFiniteSet
<1>3. ASSUME NEW S PROVE Points!Cardinality(S) = Cardinality(S)
  BY DEF Points!Cardinality, Cardinality, Points!IsFiniteSet, IsFiniteSet
<1> QED BY <1>1, <1>2, <1>3

\* What is assumed of the points.
LEMMA PointsAssumed ==
  /\ IsFiniteSet(Session) /\ IsFiniteSet(Collection) /\ Collection # {}
  /\ Collected \in [Collection -> Nat \ {0}] /\ ExchangeRate \subseteq Nat \ {0}
  /\ Currency \in {"USD", "VES"} /\ Earning \subseteq [earn : Nat, least : Nat]
  /\ Program \cap Collection = {} /\ Score # Rate
  /\ {Score, Rate} \cap (Program \cup Collection) = {}
  /\ Absent \notin Nat /\ Absent \notin Points!Saved
BY SellingConstants, PointsSums DEF Points!LoyaltyConstants

\* What a program may say.
Said == [earn : Nat, least : Nat]

\* A request grants the points of a collection that has no row in the ledger.
PointsJob(s) ==
  /\ mine[s] = Unwritten
  /\ at[s] \in {"idle", "read program", "read rate", "upsert", "ledger"}
  /\ at[s] # "idle" =>
       job[s] \in [collection : Collection, earning : Said, points : Nat]
       /\ db[job[s].collection] = 0

\* No collection is granted its points by two.
GrantedOnce ==
  \A s, t \in Session :
    s # t /\ at[s] # "idle" /\ at[t] # "idle" => job[s].collection # job[t].collection

\* What the ledger shows, and what the customer has that it does not show yet.
Shown == [c \in Collection |-> IF db[c] = Absent THEN 0 ELSE db[c]]
Pending == [s \in Session |-> IF at[s] = "ledger" THEN job[s].points ELSE 0]
LedgerBacked ==
  SumFunctionOnSet(Shown, Collection) + SumFunctionOnSet(Pending, Session) <= db[Score]

\* What makes ChartBacked inductive.
PointsInv ==
  /\ Shaped /\ DOMAIN db = Points!Row /\ Points!TypeOK
  /\ \A s \in Session : PointsJob(s)
  /\ GrantedOnce /\ LedgerBacked

\* The invariant backs the chart, and types are enough for the split to fit.
LEMMA PointsShow == ASSUME PointsInv PROVE Points!PointsGranted
<1>1. /\ IsFiniteSet(Session) /\ IsFiniteSet(Collection) /\ Collection # {}
      /\ Collected \in [Collection -> Nat \ {0}] /\ ExchangeRate \subseteq Nat \ {0}
      /\ Currency \in {"USD", "VES"} /\ Absent \notin Nat /\ Absent \notin Points!Saved
  BY PointsAssumed
<1>2. \A c \in Collection : db[c] \in Nat \cup {Absent} BY DEF PointsInv, Points!TypeOK
<1>3. Points!ChartBacked
  <2> DEFINE C == {c \in Collection : Points!Exists(c)}
             f == [c \in C |-> db[c]]
             L == {t \in Session : at[t] = "ledger"}
             g == [s \in L |-> job[s].points]
  <2>1. Points!Growth = SumFunctionOnSet(f, C) BY PointsSums DEF Points!Growth
  <2>2. SumFunctionOnSet(f, C) = SumFunctionOnSet(Shown, Collection)
    <3>1. \A c \in C : f[c] \in Int /\ Shown[c] = f[c] BY <1>2 DEF Shown, Points!Exists
    <3>2. \A c \in Collection \ C : Shown[c] = 0 BY DEF Shown, Points!Exists
    <3>3. C \in SUBSET Collection OBVIOUS
    <3> HIDE DEF C, f
    <3> QED BY <1>1, <3>1, <3>2, <3>3, SumRestrict
  <2>3. SumFunctionOnSet(g, L) = SumFunctionOnSet(Pending, Session)
    <3>1. \A s \in L : job[s].points \in Nat BY DEF PointsInv, PointsJob
    <3>4. \A s \in L : g[s] \in Int /\ Pending[s] = g[s] BY <3>1 DEF Pending
    <3>2. \A s \in Session \ L : Pending[s] = 0 BY DEF Pending
    <3>3. L \in SUBSET Session OBVIOUS
    <3> HIDE DEF L, g
    <3> QED BY <1>1, <3>2, <3>3, <3>4, SumRestrict
  <2>4. Points!SumFunction(g) = SumFunctionOnSet(g, L) BY PointsSums
  <2> QED BY <2>1, <2>2, <2>3, <2>4 DEF Points!ChartBacked, PointsInv, LedgerBacked
<1>4. Points!SplitFits
  <2> SUFFICES ASSUME NEW p \in Points!Active, Currency = "USD" \/ Points!Exists(Rate)
               PROVE  LET Given(base) == Points!EarnedPoints(
                                           [earn |-> db[p].earn, least |-> db[p].least],
                                           Points!PerDollar(db[Rate]), Points!Total, base)
                          split == Points!SumFunction([c \in Collection |-> Given(Collected[c])])
                      IN /\ split <= Given(Points!Total)
                         /\ Given(Points!Total) < split + Points!Cardinality(Collection)
    BY DEF Points!SplitFits
  <2> DEFINE e == db[p].earn
             per == Points!PerDollar(db[Rate])
             T == SumFunctionOnSet(Collected, Collection)
             Few == T < db[p].least * per
             Given(base) == Points!EarnedPoints([earn |-> db[p].earn, least |-> db[p].least],
                                                per, Points!Total, base)
             each == [c \in Collection |-> Given(Collected[c])]
             n == Cardinality(Collection)
  <2>1. e \in Nat /\ db[p].least \in Nat
    <3>1. db[p] \in Points!Saved
      BY DEF PointsInv, Points!TypeOK, Points!Active, Points!Exists
    <3> QED BY <3>1 DEF Points!Saved
  <2>2. per \in Nat \ {0}
    <3>1. Currency # "USD" => db[Rate] \in ExchangeRate
      BY DEF PointsInv, Points!TypeOK, Points!Exists
    <3>2. Currency # "USD" => db[Rate] \in Nat \ {0} BY <1>1, <3>1
    <3> QED BY <3>2 DEF Points!PerDollar
  <2>3. Points!Total = T BY <1>1, PointsSums DEF Points!Total
  <2>4. T \in Nat /\ \A c \in Collection : Collected[c] \in Nat /\ Collected[c] <= T
    <3>1. \A c \in Collection : Collected[c] \in Nat BY <1>1
    <3> QED BY <1>1, <3>1, SumNatural, SumCovers
  <2>5. Points!SumFunction(each) = SumFunctionOnSet(each, Collection) BY PointsSums
  <2>6. n \in Nat \ {0} BY <1>1, FS_CardinalityType, FS_EmptySet
  <2>7. \A base \in Nat : base <= T => Given(base) = IF Few THEN 0 ELSE (base * e) \div per
    <3> HIDE DEF T, per
    <3>1. SUFFICES ASSUME NEW base \in Nat, base <= T
                   PROVE  Given(base) = IF Few THEN 0 ELSE (base * e) \div per
      OBVIOUS
    <3>2. (IF base < T THEN base ELSE T) = base BY <2>4, <3>1
    <3> QED BY <2>3, <3>2 DEF Points!EarnedPoints
  <2> HIDE DEF e, per, Few, Given, n
  <2>8. SumFunctionOnSet(each, Collection) <= Given(T)
        /\ Given(T) < SumFunctionOnSet(each, Collection) + n
    <3>1. CASE Few
      <4>1. \A c \in Collection : each[c] = 0 BY <2>4, <2>7, <3>1
      <4>2. Given(T) = 0 BY <2>4, <2>7, <3>1
      <4> HIDE DEF each
      <4>3. SumFunctionOnSet(each, Collection) = 0 BY <1>1, <4>1, SumOfZeros
      <4> QED BY <2>6, <4>2, <4>3
    <3>2. CASE ~Few
      <4> DEFINE q == [c \in Collection |-> (Collected[c] * e) \div per]
      <4>1. each = q BY <2>4, <2>7, <3>2
      <4>2. Given(T) = (T * e) \div per BY <2>4, <2>7, <3>2
      <4>3. SumFunctionOnSet(q, Collection) <= (T * e) \div per
            /\ (T * e) \div per < SumFunctionOnSet(q, Collection) + Cardinality(Collection)
        <5>4. \A c \in Collection : q[c] = (Collected[c] * e) \div per OBVIOUS
        <5> HIDE DEF T, q
        <5>1. \A c \in Collection : Collected[c] \in Nat BY <2>4
        <5>2. e \in Nat BY <2>1 DEF e
        <5>3. per \in Nat \ {0} BY <2>2 DEF per
        <5> QED BY <1>1, <5>1, <5>2, <5>3, <5>4, RoundingFits DEF T
      <4> QED BY <4>1, <4>2, <4>3 DEF n
    <3> QED BY <3>1, <3>2
  <2> QED BY <2>3, <2>5, <2>8, PointsSums DEF Given, per, n
<1> QED BY <1>3, <1>4 DEF Points!PointsGranted

\* The initial state.
LEMMA PointsStart == ASSUME Points!Init PROVE PointsInv
<1>1. Points!RequestsInit /\ db = [r \in Points!Row |-> IF r = Score THEN 0 ELSE Absent]
  BY DEF Points!Init
<1>2. Shaped /\ \A s \in Session : at[s] = "idle" /\ mine[s] = Unwritten
  BY <1>1 DEF Points!RequestsInit, Shaped, Points!Unwritten, Unwritten
<1>3. GrantedOnce /\ \A s \in Session : PointsJob(s) BY <1>2 DEF PointsJob, GrantedOnce
<1>4. Points!TypeOK /\ DOMAIN db = Points!Row
  BY <1>1, PointsAssumed DEF Points!Row, Points!TypeOK
<1>5. db[Score] = 0 /\ \A c \in Collection : db[c] = Absent
  BY <1>1, PointsAssumed DEF Points!Row
<1>6. SumFunctionOnSet(Shown, Collection) = 0
  <2>1. \A c \in Collection : Shown[c] = 0 BY <1>5 DEF Shown
  <2> QED BY <2>1, PointsAssumed, SumOfZeros
<1>7. SumFunctionOnSet(Pending, Session) = 0
  <2>1. \A s \in Session : Pending[s] = 0 BY <1>2 DEF Pending
  <2> QED BY <2>1, PointsAssumed, SumOfZeros
<1>8. LedgerBacked BY <1>5, <1>6, <1>7 DEF LedgerBacked
<1> QED BY <1>2, <1>3, <1>4, <1>8 DEF PointsInv

\* Both sums are of numbers.
LEMMA PointsNumbers ==
  ASSUME PointsInv
  PROVE  /\ \A c \in Collection : Shown[c] \in Nat
         /\ \A s \in Session : Pending[s] \in Nat
         /\ SumFunctionOnSet(Shown, Collection) \in Nat
         /\ SumFunctionOnSet(Pending, Session) \in Nat
<1>1. \A c \in Collection : Shown[c] \in Nat BY DEF PointsInv, Points!TypeOK, Shown
<1>2. \A s \in Session : Pending[s] \in Nat BY DEF PointsInv, PointsJob, Pending
<1>3. IsFiniteSet(Collection) /\ IsFiniteSet(Session) BY PointsAssumed
<1> QED BY <1>1, <1>2, <1>3, SumNatural

\* What nobody grants, or was not granted, is as it was: the sums change by what the
\* one request and its collection show.
LEMMA PointsMove ==
  ASSUME PointsInv, NEW s \in Session, Others(s), Watched(s),
         DOMAIN db' = Points!Row, Points!TypeOK', PointsJob(s)', NEW c \in Collection,
         \A d \in Collection \ {c} : db'[d] = db[d],
         \A t \in Session \ {s} : at[t] # "idle" =>
           job[t].collection # c \/ db'[c] = db[c],
         \A t \in Session \ {s} :
           at[t] # "idle" /\ at'[s] # "idle" => job[t].collection # job'[s].collection,
         Shown'[c] - Shown[c] + (Pending'[s] - Pending[s]) <= db'[Score] - db[Score]
  PROVE  PointsInv'
<1>1. Shaped' BY StaysShaped DEF PointsInv
<1>2. \A t \in Session \ {s} : mine'[t] = mine[t] /\ at'[t] = at[t] /\ job'[t] = job[t]
  BY DEF Others
<1>3. ASSUME NEW t \in Session PROVE PointsJob(t)'
  <2>1. CASE t = s BY <2>1
  <2>2. CASE t # s
    <3>1. PointsJob(t) /\ mine'[t] = mine[t] /\ at'[t] = at[t] /\ job'[t] = job[t]
      BY <1>2, <2>2 DEF PointsInv
    <3>2. ASSUME at[t] # "idle" PROVE db'[job[t].collection] = 0
      <4>1. job[t].collection \in Collection /\ db[job[t].collection] = 0
        BY <3>1, <3>2 DEF PointsJob
      <4> QED BY <2>2, <3>2, <4>1
    <3> QED BY <3>1, <3>2 DEF PointsJob
  <2> QED BY <2>1, <2>2
<1>4. GrantedOnce'
  <2>1. ASSUME NEW t \in Session, NEW u \in Session, t # u, at'[t] # "idle", at'[u] # "idle"
        PROVE  job'[t].collection # job'[u].collection
    <3>1. CASE t = s BY <1>2, <2>1, <3>1
    <3>2. CASE u = s BY <1>2, <2>1, <3>2
    <3>3. CASE t # s /\ u # s BY <1>2, <2>1, <3>3 DEF PointsInv, GrantedOnce
    <3> QED BY <3>1, <3>2, <3>3
  <2> QED BY <2>1 DEF GrantedOnce
<1>5. LedgerBacked'
  <2>1. /\ \A d \in Collection : Shown[d] \in Nat
        /\ \A t \in Session : Pending[t] \in Nat
        /\ SumFunctionOnSet(Shown, Collection) \in Nat
        /\ SumFunctionOnSet(Pending, Session) \in Nat
    BY PointsNumbers
  <2>2. \A d \in Collection : Shown'[d] \in Nat BY DEF Points!TypeOK, Shown
  <2>3. \A t \in Session : Pending'[t] \in Nat BY <1>3 DEF PointsJob, Pending
  <2>4. \A d \in Collection \ {c} : Shown'[d] = Shown[d] BY DEF Shown
  <2>5. \A t \in Session \ {s} : Pending'[t] = Pending[t] BY <1>2 DEF Pending
  <2>6. db[Score] \in Nat /\ db'[Score] \in Nat BY DEF PointsInv, Points!TypeOK
  <2>7. LedgerBacked BY DEF PointsInv
  <2> DEFINE f == Shown
             g == Shown'
             h == Pending
             k == Pending'
  <2>8. (\A d \in Collection : f[d] \in Int /\ g[d] \in Int)
        /\ (\A d \in Collection \ {c} : g[d] = f[d])
    BY <2>1, <2>2, <2>4
  <2>9. (\A t \in Session : h[t] \in Int /\ k[t] \in Int)
        /\ (\A t \in Session \ {s} : k[t] = h[t])
    BY <2>1, <2>3, <2>5
  <2>10. SumFunctionOnSet(f, Collection) + SumFunctionOnSet(h, Session) <= db[Score]
         /\ g[c] - f[c] + (k[s] - h[s]) <= db'[Score] - db[Score]
    BY <2>7 DEF LedgerBacked
  <2>11. SumFunctionOnSet(f, Collection) \in Int /\ SumFunctionOnSet(h, Session) \in Int
    BY <2>1
  <2> HIDE DEF f, g, h, k
  <2>12. SumFunctionOnSet(g, Collection) = SumFunctionOnSet(f, Collection) + (g[c] - f[c])
    BY <2>8, PointsAssumed, SumChanges
  <2>13. SumFunctionOnSet(k, Session) = SumFunctionOnSet(h, Session) + (k[s] - h[s])
    BY <2>9, PointsAssumed, SumChanges
  <2>14. SumFunctionOnSet(g, Collection) + SumFunctionOnSet(k, Session) <= db'[Score]
    BY <2>6, <2>8, <2>9, <2>10, <2>11, <2>12, <2>13
  <2> QED BY <2>14 DEF LedgerBacked, g, k
<1> QED BY <1>1, <1>3, <1>4, <1>5 DEF PointsInv

\* Programs and rates are nothing to the ledger.
LEMMA PointsSingles ==
  ASSUME PointsInv, NEW s \in Session, Points!Programs(s) \/ Points!PublishRate(s)
  PROVE  PointsInv'
<1>1. PICK r, v :
        /\ r \in Program \cup {Rate}
        /\ Points!Single(s, [x \in {r} |-> v])
        /\ r \in Program => v \in Points!Saved \cup {Absent}
        /\ r = Rate => v \in ExchangeRate
  <2>1. CASE Points!Programs(s)
    <3>1. ASSUME NEW p \in Program, NEW e \in Earning, NEW b \in BOOLEAN
          PROVE  [earn |-> e.earn, least |-> e.least, active |-> b] \in Points!Saved
      <4>1. e \in Said BY PointsAssumed DEF Said
      <4> QED BY <4>1 DEF Points!Saved, Said
    <3>2. Rate \notin Program BY PointsAssumed
    <3>3. PICK p \in Program, v \in Points!Saved \cup {Absent} : Points!Single(s, [x \in {p} |-> v])
      BY <2>1, <3>1 DEF Points!Programs, Points!CreateProgram, Points!UpdateProgram,
         Points!DeleteProgram
    <3> QED BY <3>2, <3>3
  <2>2. CASE Points!PublishRate(s)
    BY <2>2, PointsAssumed DEF Points!PublishRate
  <2> QED BY <2>1, <2>2
<1> DEFINE new == [x \in {r} |-> v]
<1>2. /\ Others(s) /\ Watched(s) /\ at' = at /\ job' = job /\ mine' = mine
      /\ Overwritten(new) /\ at[s] = "idle"
  <2> HIDE DEF new
  <2> QED BY <1>1, PointsSingle DEF PointsInv, new
<1>a. r \in Program \cup {Rate} BY <1>1
<1>3. DOMAIN db' = Points!Row /\ \A x \in Points!Row : db'[x] = IF x = r THEN v ELSE db[x]
  BY <1>a, <1>2 DEF PointsInv, Overwritten, Points!Row
<1>4. /\ \A d \in Collection : db'[d] = db[d]
      /\ db'[Score] = db[Score]
      /\ \A p \in Program : db'[p] = IF p = r THEN v ELSE db[p]
      /\ db'[Rate] = IF r = Rate THEN v ELSE db[Rate]
  BY <1>a, <1>3, PointsAssumed DEF Points!Row
<1>5. Points!TypeOK' BY <1>1, <1>4 DEF PointsInv, Points!TypeOK
<1>6. PointsJob(s)' BY <1>2 DEF PointsInv, PointsJob
<1>7. PICK c \in Collection : TRUE BY PointsAssumed
<1>8. Shown'[c] - Shown[c] + (Pending'[s] - Pending[s]) <= db'[Score] - db[Score]
  <2>1. Shown'[c] = Shown[c] BY <1>4 DEF Shown
  <2>2. Pending'[s] = Pending[s] BY <1>2 DEF Pending
  <2>3. Shown[c] \in Nat /\ Pending[s] \in Nat /\ db[Score] \in Nat
    BY PointsNumbers DEF PointsInv, Points!TypeOK
  <2> QED BY <1>4, <2>1, <2>2, <2>3
<1> HIDE DEF new
<1> QED BY <1>2, <1>3, <1>4, <1>5, <1>6, <1>8, PointsMove

\* A collection is committed; nobody else grants it.
LEMMA PointsBegin ==
  ASSUME PointsInv, NEW s \in Session, Points!StartGrant(s)
  PROVE  PointsInv'
<1>1. PICK c \in Collection :
        /\ ~Points!Exists(c)
        /\ db' = [db EXCEPT ![c] = 0]
        /\ Points!Goto(s, "read program",
                       [collection |-> c, earning |-> [earn |-> 0, least |-> 0], points |-> 0])
  BY DEF Points!StartGrant
<1> DEFINE j == [collection |-> c, earning |-> [earn |-> 0, least |-> 0], points |-> 0]
<1>2. at[s] = "idle" /\ calm' = (calm /\ Points!Quiet) /\ mine' = mine BY DEF Points!StartGrant
<1>3. Points!Quiet <=> Quiet BY DEF Points!Quiet, Quiet
<1>4. at'[s] = "read program" /\ job'[s] = j /\ Others(s)
  BY <1>1, <1>2 DEF PointsInv, Shaped, Points!Goto, Others
<1>5. Watched(s)
  <2>1. Points!Quiet \in BOOLEAN BY DEF Points!Quiet
  <2> QED BY <1>2, <1>3, <2>1 DEF PointsInv, Shaped, Watched
<1>6. DOMAIN db' = Points!Row /\ \A x \in Points!Row : db'[x] = IF x = c THEN 0 ELSE db[x]
  BY <1>1 DEF PointsInv, Points!Row
<1>7. /\ db'[c] = 0 /\ db[c] = Absent /\ \A d \in Collection \ {c} : db'[d] = db[d]
      /\ db'[Score] = db[Score] /\ db'[Rate] = db[Rate]
      /\ \A p \in Program : db'[p] = db[p]
  BY <1>1, <1>6, PointsAssumed DEF Points!Row, Points!Exists
<1>8. Points!TypeOK' BY <1>7 DEF PointsInv, Points!TypeOK
<1>9. PointsJob(s)'
  <2>1. j \in [collection : Collection, earning : Said, points : Nat] BY DEF Said
  <2>2. mine'[s] = Unwritten BY <1>2 DEF PointsInv, PointsJob
  <2>3. j.collection = c OBVIOUS
  <2> HIDE DEF j
  <2> QED BY <1>4, <1>7, <2>1, <2>2, <2>3 DEF PointsJob
<1>10. \A t \in Session \ {s} : at[t] # "idle" => job[t].collection # c
  <2>1. ASSUME NEW t \in Session, at[t] # "idle" PROVE db[job[t].collection] = 0
    BY <2>1 DEF PointsInv, PointsJob
  <2>2. Absent # 0 BY PointsAssumed
  <2> QED BY <1>7, <2>1, <2>2
<1>11. Shown'[c] - Shown[c] + (Pending'[s] - Pending[s]) <= db'[Score] - db[Score]
  <2>1. Shown'[c] = 0 /\ Shown[c] = 0 BY <1>7 DEF Shown
  <2>2. Pending'[s] = 0 /\ Pending[s] = 0 BY <1>2, <1>4 DEF Pending
  <2>3. db[Score] \in Nat BY DEF PointsInv, Points!TypeOK
  <2> QED BY <1>7, <2>1, <2>2, <2>3
<1>12. j.collection = c OBVIOUS
<1> HIDE DEF j
<1>13. job'[s].collection = c BY <1>4, <1>12
<1>14. \A t \in Session \ {s} : at[t] # "idle" /\ at'[s] # "idle" =>
         job[t].collection # job'[s].collection
  BY <1>10, <1>13
<1>15. DOMAIN db' = Points!Row /\ (\A d \in Collection \ {c} : db'[d] = db[d])
       /\ (\A t \in Session \ {s} : at[t] # "idle" =>
              job[t].collection # c \/ db'[c] = db[c])
  BY <1>6, <1>7, <1>10
<1> QED BY <1>4, <1>5, <1>8, <1>9, <1>11, <1>14, <1>15, PointsMove

\* A read, or the end: the tables are as they were, and no more is pending.
LEMMA PointsLook ==
  ASSUME PointsInv, NEW s \in Session, at[s] # "idle", Others(s), Watched(s),
         db' = db, PointsJob(s)', at'[s] # "ledger",
         at'[s] = "idle" \/ job'[s].collection = job[s].collection
  PROVE  PointsInv'
<1> DEFINE c == job[s].collection
<1>1. c \in Collection BY DEF PointsInv, PointsJob
<1>2. Shown'[c] = Shown[c] BY DEF Shown
<1>3. Pending'[s] = 0 BY DEF Pending
<1>4. Shown[c] \in Nat /\ Pending[s] \in Nat /\ db[Score] \in Nat
  BY <1>1, PointsNumbers DEF PointsInv, Points!TypeOK
<1>5. Shown'[c] - Shown[c] + (Pending'[s] - Pending[s]) <= db'[Score] - db[Score]
  BY <1>2, <1>3, <1>4
<1>6. DOMAIN db' = Points!Row /\ Points!TypeOK' BY DEF PointsInv, Points!TypeOK
<1>7. \A t \in Session \ {s} : at[t] # "idle" => job[t].collection # c
  BY DEF PointsInv, GrantedOnce
<1>8. \A d \in Collection \ {c} : db'[d] = db[d] OBVIOUS
<1>9. \A t \in Session \ {s} : at[t] # "idle" /\ at'[s] # "idle" =>
        job[t].collection # job'[s].collection
  BY <1>7
<1> HIDE DEF c
<1> QED BY <1>1, <1>5, <1>6, <1>7, <1>8, <1>9, PointsMove

\* The end of a request.
LEMMA PointsRollback ==
  ASSUME PointsInv, NEW s \in Session, Rollback(s), at[s] # "idle"
  PROVE  PointsInv'
<1>1. /\ Others(s) /\ Watched(s) /\ at'[s] = "idle" /\ mine'[s] = Unwritten /\ db' = db
  BY RollbackMoves DEF PointsInv
<1>2. PointsJob(s)' BY <1>1 DEF PointsJob
<1> QED BY <1>1, <1>2, PointsLook

\* The program, or the rate, is read.
LEMMA PointsRead ==
  ASSUME PointsInv, NEW s \in Session, at[s] # "idle",
         NEW label \in {"read rate", "upsert"}, NEW j,
         j \in [collection : Collection, earning : Said, points : Nat],
         j.collection = job[s].collection, Look(s, label, j)
  PROVE  PointsInv'
<1>1. /\ Others(s) /\ Watched(s) /\ at'[s] = label /\ job'[s] = j /\ mine' = mine /\ db' = db
  BY LookMoves DEF PointsInv
<1>2. PointsJob(s)'
  <2>1. mine'[s] = Unwritten /\ db[job[s].collection] = 0 BY <1>1 DEF PointsInv, PointsJob
  <2> QED BY <1>1, <2>1 DEF PointsJob
<1>3. at'[s] # "ledger" /\ job'[s].collection = job[s].collection BY <1>1
<1> QED BY <1>1, <1>2, <1>3, PointsLook

\* getActiveProgramForTenant
LEMMA PointsReadProgram ==
  ASSUME PointsInv, NEW s \in Session, Points!ReadProgram(s)
  PROVE  PointsInv'
<1>1. at[s] = "read program" BY DEF Points!ReadProgram
<1>2. job[s] \in [collection : Collection, earning : Said, points : Nat]
  BY <1>1 DEF PointsInv, PointsJob
<1>3. ASSUME NEW p \in Points!Active,
             Look(s, "read rate",
                  [job[s] EXCEPT !.earning = [earn |-> db[p].earn, least |-> db[p].least]])
      PROVE  PointsInv'
  <2> DEFINE e == [earn |-> db[p].earn, least |-> db[p].least]
             j == [job[s] EXCEPT !.earning = e]
  <2>1. db[p] \in Points!Saved
    BY DEF PointsInv, Points!TypeOK, Points!Active, Points!Exists
  <2>2. e \in Said BY <2>1 DEF Points!Saved, Said
  <2> HIDE DEF e
  <2>3. j \in [collection : Collection, earning : Said, points : Nat]
        /\ j.collection = job[s].collection
    BY <1>2, <2>2
  <2>4. Look(s, "read rate", j) BY <1>3 DEF e
  <2> HIDE DEF j
  <2> QED BY <1>1, <2>3, <2>4, PointsRead
<1>4. CASE Rollback(s) BY <1>1, <1>4, PointsRollback
<1> QED BY <1>3, <1>4, PointsRequests DEF Points!ReadProgram

\* The rate, and what the collection earns at it.
LEMMA PointsReadRate ==
  ASSUME PointsInv, NEW s \in Session, Points!ReadRate(s)
  PROVE  PointsInv'
<1> DEFINE n == Points!EarnedPoints(job[s].earning, Points!PerDollar(db[Rate]), Points!Total,
                                    Collected[job[s].collection])
           j == [job[s] EXCEPT !.points = n]
<1>1. at[s] = "read rate" BY DEF Points!ReadRate
<1>2. job[s] \in [collection : Collection, earning : Said, points : Nat]
  BY <1>1 DEF PointsInv, PointsJob
<1>3. CASE Rollback(s) BY <1>1, <1>3, PointsRollback
<1>4. CASE (Currency = "USD" \/ Points!Exists(Rate)) /\ Look(s, "upsert", j)
  <2>1. Points!PerDollar(db[Rate]) \in Nat \ {0}
    <3>1. Currency # "USD" => db[Rate] \in Nat \ {0}
      BY <1>4, PointsAssumed DEF PointsInv, Points!TypeOK, Points!Exists
    <3> QED BY <3>1 DEF Points!PerDollar
  <2>2. Points!Total \in Nat
    <3>1. Points!Total = SumFunctionOnSet(Collected, Collection)
      BY PointsSums, PointsAssumed DEF Points!Total
    <3>2. \A c \in Collection : Collected[c] \in Nat BY PointsAssumed
    <3> QED BY <3>1, <3>2, PointsAssumed, SumNatural
  <2>3. Collected[job[s].collection] \in Nat /\ job[s].earning.earn \in Nat
    BY <1>2, PointsAssumed DEF Said
  <2>4. n \in Nat
    <3> DEFINE base == Collected[job[s].collection]
               least == IF base < Points!Total THEN base ELSE Points!Total
    <3>1. least * job[s].earning.earn \in Nat BY <2>2, <2>3
    <3> HIDE DEF least
    <3>2. (least * job[s].earning.earn) \div Points!PerDollar(db[Rate]) \in Nat
      BY <2>1, <3>1, Floor
    <3> QED BY <3>2 DEF Points!EarnedPoints, least
  <2> HIDE DEF n
  <2>5. j \in [collection : Collection, earning : Said, points : Nat]
        /\ j.collection = job[s].collection
    BY <1>2, <2>4
  <2> HIDE DEF j
  <2> QED BY <1>1, <1>4, <2>5, PointsRead
<1> QED BY <1>3, <1>4, PointsRequests DEF Points!ReadRate, Points!Exists

\* upsertEarned: what the balance gains is pending.
LEMMA PointsUpsert ==
  ASSUME PointsInv, NEW s \in Session, Points!Upsert(s)
  PROVE  PointsInv'
<1> DEFINE n == job[s].points
           c == job[s].collection
           new == [r \in {Score} |-> db[r] + n]
<1>1. at[s] = "upsert" /\ Apply(s, new, "ledger", job[s])
  BY PointsRequests DEF Points!Upsert
<1>2. /\ Others(s) /\ Watched(s) /\ at'[s] = "ledger" /\ job'[s] = job[s] /\ mine' = mine
      /\ Overwritten(new)
  <2> HIDE DEF new
  <2> QED BY <1>1, ApplyMoves DEF PointsInv
<1>3. job[s] \in [collection : Collection, earning : Said, points : Nat] /\ db[c] = 0
      /\ mine[s] = Unwritten
  BY <1>1 DEF PointsInv, PointsJob
<1>4. c \in Collection /\ n \in Nat BY <1>3
<1>5. DOMAIN db' = Points!Row
      /\ \A r \in Points!Row : db'[r] = IF r = Score THEN db[Score] + n ELSE db[r]
  BY <1>2 DEF PointsInv, Overwritten, Points!Row
<1>6. /\ db'[Score] = db[Score] + n /\ db'[Rate] = db[Rate]
      /\ (\A d \in Collection : db'[d] = db[d]) /\ \A p \in Program : db'[p] = db[p]
  BY <1>5, PointsAssumed DEF Points!Row
<1> HIDE DEF n, c, new
<1>7. Points!TypeOK' BY <1>4, <1>6 DEF PointsInv, Points!TypeOK
<1>8. PointsJob(s)' BY <1>2, <1>3, <1>4, <1>6 DEF PointsJob, c
<1>9. Shown'[c] - Shown[c] + (Pending'[s] - Pending[s]) <= db'[Score] - db[Score]
  <2>1. Shown'[c] = Shown[c] BY <1>4, <1>6 DEF Shown
  <2>2. Pending'[s] = n /\ Pending[s] = 0 BY <1>1, <1>2 DEF Pending, n
  <2>3. Shown[c] \in Nat /\ db[Score] \in Nat
    BY <1>4, PointsNumbers DEF PointsInv, Points!TypeOK
  <2> QED BY <1>4, <1>6, <2>1, <2>2, <2>3
<1>10. \A t \in Session \ {s} : at[t] # "idle" => job[t].collection # job[s].collection
  BY <1>1 DEF PointsInv, GrantedOnce
<1>11. \A t \in Session \ {s} : at[t] # "idle" /\ at'[s] # "idle" =>
         job[t].collection # job'[s].collection
  BY <1>2, <1>10
<1> QED BY <1>2, <1>4, <1>5, <1>6, <1>7, <1>8, <1>9, <1>11, PointsMove

\* insertCollectionEarned: what was pending is shown.
LEMMA PointsInsertLedger ==
  ASSUME PointsInv, NEW s \in Session, Points!InsertLedger(s)
  PROVE  PointsInv'
<1> DEFINE n == job[s].points
           c == job[s].collection
           new == [r \in {c} |-> n]
<1>1. at[s] = "ledger" /\ Apply(s, new, "idle", NoJob)
  BY PointsRequests DEF Points!InsertLedger
<1>2. /\ Others(s) /\ Watched(s) /\ at'[s] = "idle" /\ mine' = mine /\ Overwritten(new)
  <2> HIDE DEF new
  <2> QED BY <1>1, ApplyMoves DEF PointsInv
<1>3. job[s] \in [collection : Collection, earning : Said, points : Nat] /\ db[c] = 0
      /\ mine[s] = Unwritten
  BY <1>1 DEF PointsInv, PointsJob
<1>4. c \in Collection /\ n \in Nat BY <1>3
<1>a. 0 # Absent /\ n # Absent BY <1>4, PointsAssumed
<1>b. Pending[s] = n BY <1>1 DEF Pending
<1>c. \A t \in Session \ {s} : at[t] # "idle" => job[t].collection # c
  BY <1>1 DEF PointsInv, GrantedOnce
<1> HIDE DEF n, c
<1>5. DOMAIN db' = Points!Row
      /\ \A r \in Points!Row : db'[r] = IF r = c THEN n ELSE db[r]
  BY <1>2, <1>4 DEF PointsInv, Overwritten, Points!Row
<1>6. /\ db'[Score] = db[Score] /\ db'[Rate] = db[Rate]
      /\ (\A d \in Collection : db'[d] = IF d = c THEN n ELSE db[d])
      /\ \A p \in Program : db'[p] = db[p]
  BY <1>4, <1>5, PointsAssumed DEF Points!Row
<1> HIDE DEF new
<1>7. Points!TypeOK' BY <1>4, <1>6 DEF PointsInv, Points!TypeOK
<1>8. PointsJob(s)' BY <1>2, <1>3 DEF PointsJob
<1>9. Shown'[c] - Shown[c] + (Pending'[s] - Pending[s]) <= db'[Score] - db[Score]
  <2>1. Shown'[c] = n /\ Shown[c] = 0 BY <1>3, <1>4, <1>6, <1>a DEF Shown
  <2>2. Pending'[s] = 0 BY <1>2 DEF Pending
  <2>3. db[Score] \in Nat BY DEF PointsInv, Points!TypeOK
  <2> QED BY <1>4, <1>6, <1>b, <2>1, <2>2, <2>3
<1> QED BY <1>2, <1>4, <1>5, <1>6, <1>7, <1>8, <1>9, <1>c, PointsMove

\* Every step of the points keeps the invariant.
LEMMA PointsStep == ASSUME PointsInv, Points!Next PROVE PointsInv'
<1>1. PICK s \in Session :
        Points!Programs(s) \/ Points!PublishRate(s) \/ Points!Granting(s) \/ Points!Fail(s)
  BY DEF Points!Next
<1>2. CASE Points!Programs(s) \/ Points!PublishRate(s) BY <1>2, PointsSingles
<1>3. CASE Points!Granting(s)
  BY <1>3, PointsBegin, PointsReadProgram, PointsReadRate, PointsUpsert, PointsInsertLedger
  DEF Points!Granting
<1>4. CASE Points!Fail(s)
  <2>1. at[s] # "idle" /\ Rollback(s) BY <1>4, PointsRequests DEF Points!Fail
  <2> QED BY <2>1, PointsRollback
<1> QED BY <1>1, <1>2, <1>3, <1>4

-----------------------------------------------------------------------------
(* After a sale.                                                            *)

\* What happens to a sale is requests like all the others.
LEMMA AfterRequests ==
  /\ \A s, l, j : After!Begin(s, l, j) <=> Begin(s, l, j)
  /\ \A s, l, j : After!Look(s, l, j) <=> Look(s, l, j)
  /\ \A s, n, l, j : After!Write(s, n, l, j) <=> Write(s, n, l, j)
  /\ \A s : After!Commit(s) <=> Publish(s, "idle", NoJob)
  /\ \A s : After!Rollback(s) <=> Rollback(s)
  /\ \A s, r : After!Sees(s, r) = Sees(s, r)
  /\ \A s, R : After!Free(s, R) <=> Free(s, R)
BY DEF After!Begin, Begin, After!Look, Look, After!Goto, Goto, After!Quiet, Quiet,
  After!Write, Write, After!Commit, After!Publish, Publish, After!Free, Free, After!Over, Over,
  After!Rollback, Rollback, After!Unwritten, Unwritten, After!Sees, Sees

\* What the instance extends is what this module extends.
LEMMA AfterSums ==
  /\ \A f : After!SumFunction(f) = SumFunctionOnSet(f, DOMAIN f)
  /\ \A S : After!IsFiniteSet(S) <=> IsFiniteSet(S)
<1>1. ASSUME NEW f PROVE After!SumFunction(f) = SumFunctionOnSet(f, DOMAIN f)
  BY DEF After!SumFunction, After!SumFunctionOnSet, After!FoldFunctionOnSet,
         After!MapThenFoldSet, SumFunctionOnSet, FoldFunctionOnSet, MapThenFoldSet
<1>2. ASSUME NEW S PROVE After!IsFiniteSet(S) <=> IsFiniteSet(S)
  BY DEF After!IsFiniteSet, IsFiniteSet
<1> QED BY <1>1, <1>2

\* What is assumed of a sale, in numbers.
LEMMA AfterAssumed ==
  /\ IsFiniteSet(Line) /\ IsFiniteSet(Note) /\ IsFiniteSet(Session)
  /\ Sold \in [Line -> Nat \ {0}] /\ LinePrice \in [Line -> Nat]
  /\ NoteAmount \subseteq Nat \ {0} /\ Slack \in Nat /\ DollarRate \in Nat \ {0}
  /\ Absent \notin Nat /\ Absent \notin After!NoteRow
BY SellingConstants, AfterSums DEF After!SaleConstants

\* No two rows are one.
LEMMA AfterRows ==
  /\ Line \cap Note = {} /\ Invoice \notin Line \cup Note /\ Sale \notin Line \cup Note
  /\ Invoice # Sale
  /\ \A l \in Line, s \in Session :
       After!Returned(l, s) \notin Line \cup Note \cup {Invoice, Sale}
  /\ \A n \in Note : After!CreditOf(n) \notin Line \cup Note \cup {Invoice, Sale}
  /\ \A l, k, s, t : After!Returned(l, s) = After!Returned(k, t) => l = k /\ s = t
  /\ \A n, m : After!CreditOf(n) = After!CreditOf(m) => n = m
  /\ \A l, s, n : After!Returned(l, s) # After!CreditOf(n)
  /\ \A l \in Line : After!Erased(l) \notin Line \cup Note \cup {Invoice, Sale}
  /\ \A l, k : After!Erased(l) = After!Erased(k) => l = k
  /\ \A l, k, s : After!Erased(l) # After!Returned(k, s)
  /\ \A l, n : After!Erased(l) # After!CreditOf(n)
<1>1. After!SaleConstants BY SellingConstants
<1>2. /\ Line \cap Note = {} /\ {Invoice, Sale} \cap (Line \cup Note) = {} /\ Invoice # Sale
      /\ \A l \in Line, s \in Session :
           After!Returned(l, s) \notin Line \cup {Invoice, Sale} \cup Note
      /\ \A n \in Note : After!CreditOf(n) \notin Line \cup {Invoice, Sale} \cup Note
      /\ \A l \in Line : After!Erased(l) \notin Line \cup {Invoice, Sale} \cup Note
  BY <1>1 DEF After!SaleConstants
<1>3. \A l, k, s, t : After!Returned(l, s) = After!Returned(k, t) => l = k /\ s = t
  BY DEF After!Returned
<1>4. \A n, m : After!CreditOf(n) = After!CreditOf(m) => n = m BY DEF After!CreditOf
<1>5. \A l, s, n : After!Returned(l, s) # After!CreditOf(n)
  BY DEF After!Returned, After!CreditOf
<1>6. \A l, k : After!Erased(l) = After!Erased(k) => l = k BY DEF After!Erased
<1>7. \A l, k, s : After!Erased(l) # After!Returned(k, s)
  BY DEF After!Erased, After!Returned
<1>8. \A l, n : After!Erased(l) # After!CreditOf(n) BY DEF After!Erased, After!CreditOf
<1> QED BY <1>2, <1>3, <1>4, <1>5, <1>6, <1>7, <1>8

\* What the lines hold, and what they hold to a request.
Lines == [l \in Line |-> db[l]]
Seen(s) == [l \in Line |-> Sees(s, l)]

\* What was deleted of the lines, and the pieces that are not on the sale any more.
Erasures == [l \in Line |-> db[After!Erased(l)]]
Away(l) == After!HasReturned(l) + db[After!Erased(l)]

\* A total of these lines, of which more may have been deleted.
Tells(total, lines, erased) ==
  total \in After!Worth(lines) .. After!Worth(lines) + After!Worth(erased)

\* The lines that a request has written, and how many pieces it adds to what was returned.
Held(s) == Line \cap DOMAIN mine[s]
Back(s, l) == mine[s][After!Returned(l, s)] - db[After!Returned(l, s)]

SaleRow == [total : Nat, refunded : BOOLEAN]

\* What a request has written is of its lines, and no piece of theirs is lost by it.
Written(s) ==
  /\ DOMAIN mine[s] \subseteq After!Row
  /\ \A l \in Held(s) :
       /\ mine[s][l] \in 0 .. Sold[l]
       /\ After!Returned(l, s) \in DOMAIN mine[s]
       /\ mine[s][After!Returned(l, s)] \in Nat
       /\ Back(s, l) >= 0
       /\ Away(l) + Back(s, l) + mine[s][l] >= Sold[l]
  /\ \A l \in Line, t \in Session :
       After!Returned(l, t) \in DOMAIN mine[s] => t = s /\ l \in Held(s)
  /\ \A l \in Line : After!Erased(l) \notin DOMAIN mine[s]
  /\ Sale \in DOMAIN mine[s] =>
       /\ mine[s][Sale] \in SaleRow
       /\ Held(s) = {} => mine[s][Sale].total = db[Sale].total

\* It writes no note.
NoNotes(s) == \A n \in Note : {n, After!CreditOf(n)} \cap DOMAIN mine[s] = {}

Item == Line \X (Nat \ {0})
ReturnJob == [items : Seq(Item), held : SUBSET Line, left : Nat, sum : Nat]

\* A return takes different lines one after the other: the one it is at, of which it
\* read what was there, and those it has not come to.
Returning(s) ==
  LET items == job[s].items  l == job[s].items[1][1] IN
  /\ job[s] \in ReturnJob /\ items # <<>> /\ NoNotes(s)
  /\ \A i, k \in DOMAIN items : i # k => items[i][1] # items[k][1]
  /\ \A i \in DOMAIN items : i # 1 => items[i][1] \notin DOMAIN mine[s]
  /\ at[s] \in {"take", "line"} <=> l \notin DOMAIN mine[s]
  /\ at[s] = "line" =>
       /\ l \in job[s].held /\ job[s].left \in items[1][2] .. Sold[l]
       /\ Away(l) + job[s].left >= Sold[l]
  /\ at[s] \in {"sumsale", "sale"} => Invoice \in DOMAIN mine[s]
  /\ at[s] = "sale" => Tells(job[s].sum, Seen(s), Erasures)

\* What a request is about to commit: a return, a refund, a note, the end of a note.
ReturnDone(s) ==
  /\ {Invoice, Sale} \subseteq DOMAIN mine[s] /\ Held(s) # {} /\ NoNotes(s)
  /\ Tells(mine[s][Sale].total, Seen(s), Erasures)
RefundDone(s) == DOMAIN mine[s] = {Sale}
NoteWritten(s, n) ==
  /\ n \in Note /\ n \in DOMAIN mine[s] /\ DOMAIN mine[s] \subseteq {n, After!CreditOf(n)}
  /\ db[n] = Absent /\ mine[s][n] \in After!NoteRow /\ ~mine[s][n].voided
NoteDone(s) ==
  \E n \in Note :
    /\ NoteWritten(s, n)
    /\ After!CreditOf(n) \in DOMAIN mine[s] <=> mine[s][n].damaged
    /\ mine[s][n].damaged =>
         mine[s][After!CreditOf(n)] = mine[s][n].amount \div DollarRate
VoidDone(s) ==
  \E n \in Note : /\ DOMAIN mine[s] = {n} /\ db[n] \in After!NoteRow
                  /\ mine[s][n] = [db[n] EXCEPT !.voided = TRUE]

ReturnAt == {"take", "line", "sum", "invoice", "sumsale", "sale"}

\* Where a request is, and what it has.
Control(s) ==
  /\ at[s] \in ReturnAt \cup {"idle", "refund", "credits", "note", "supplier", "void", "commit"}
  /\ at[s] \in {"idle", "refund", "credits", "note", "void"} => mine[s] = Unwritten
  /\ at[s] \in ReturnAt => Returning(s)
  /\ at[s] \in {"credits", "note"} => job[s].note \in After!NoteRow /\ ~job[s].note.voided
  /\ at[s] = "credits" => job[s].note.type = "credit"
  /\ at[s] = "supplier" =>
       /\ NoteWritten(s, job[s].note) /\ mine[s][job[s].note].damaged
       /\ After!CreditOf(job[s].note) \notin DOMAIN mine[s]
       /\ job[s].dollars = mine[s][job[s].note].amount \div DollarRate
  /\ at[s] = "void" => job[s].note \in Note /\ db[job[s].note] \in After!NoteRow
  /\ at[s] = "commit" => ReturnDone(s) \/ RefundDone(s) \/ NoteDone(s) \/ VoidDone(s)

\* What notes credit, and what they ever debited.
Credits == After!SumOf(After!Active("credit"))
Debits == After!SumOf({n \in Note : db[n] # Absent /\ db[n].type = "debit"})
Limit == After!Worth(Sold) + Slack + Debits

\* What a request knows that nobody else meets.
Alone(s) ==
  /\ at[s] = "line" =>
       Away(job[s].items[1][1]) + job[s].left = Sold[job[s].items[1][1]]
  /\ \A l \in Held(s) : Away(l) + Back(s, l) + mine[s][l] = Sold[l]
  /\ at[s] = "invoice" => Tells(job[s].sum, Seen(s), Erasures)
  /\ at[s] \in {"sumsale", "sale", "commit"} /\ Invoice \in DOMAIN mine[s] =>
       Tells(mine[s][Invoice], Seen(s), Erasures)
  /\ at[s] = "credits" => job[s].ceiling \in Int /\ job[s].ceiling <= After!Worth(Sold)
  /\ at[s] = "note" /\ job[s].note.type = "credit" => Credits + job[s].note.amount <= Limit
  /\ \A n \in Note : n \in DOMAIN mine[s] /\ db[n] = Absent /\ mine[s][n].type = "credit" =>
       Credits + mine[s][n].amount <= Limit

\* The tables.
SaleTables ==
  /\ DOMAIN db = After!Row
  /\ \A l \in Line : db[l] \in 0 .. Sold[l] /\ Away(l) + db[l] >= Sold[l]
  /\ \A l \in Line, t \in Session : db[After!Returned(l, t)] \in Nat
  /\ \A l \in Line : db[After!Erased(l)] \in Nat
  /\ db[Sale] \in SaleRow /\ Tells(db[Sale].total, Lines, Erasures)
  /\ \A n \in Note : db[n] \in After!NoteRow \cup {Absent}
  /\ After!CreditBacked

\* The tables while requests come one after the other.
CalmTables ==
  /\ \A l \in Line : Away(l) + db[l] = Sold[l]
  /\ Tells(db[Invoice], Lines, Erasures)
  /\ Credits <= Limit

\* Nobody writes what another has written.
WritesApart == \A s, t \in Session : s # t => DOMAIN mine[s] \cap DOMAIN mine[t] = {}

\* What makes SaleAddsUp and NotesBacked inductive.
AfterInv ==
  /\ Shaped /\ WritesApart /\ SaleTables
  /\ \A s \in Session : Written(s) /\ Control(s)
  /\ calm => CalmTables /\ \A s \in Session : Alone(s)

\* While the tables are as they were, it is enough to look at the request that moves.
LEMMA AfterMove ==
  ASSUME AfterInv, NEW s \in Session, Others(s), Watched(s), db' = db,
         \A t \in Session \ {s} : DOMAIN mine'[s] \cap DOMAIN mine[t] = {},
         Written(s)', Control(s)', calm' => Alone(s)'
  PROVE  AfterInv'
<1>1. Shaped' BY StaysShaped DEF AfterInv
<1>2. \A t \in Session \ {s} : mine'[t] = mine[t] /\ at'[t] = at[t] /\ job'[t] = job[t]
  BY DEF Others
<1>3. WritesApart' BY <1>2 DEF AfterInv, WritesApart
<1>4. \A l : Away(l)' = Away(l) BY DEF Away, After!HasReturned
<1>5. Credits' = Credits /\ Limit' = Limit /\ Lines' = Lines /\ Erasures' = Erasures
  BY DEF Credits, Limit, Debits, Lines, Erasures, After!SumOf, After!Active
<1>6. SaleTables' BY <1>4, <1>5 DEF AfterInv, SaleTables, After!CreditBacked
<1>7. ASSUME NEW t \in Session PROVE Written(t)' /\ Control(t)'
  <2>1. CASE t = s BY <2>1
  <2>2. CASE t # s
    <3>1. mine'[t] = mine[t] /\ at'[t] = at[t] /\ job'[t] = job[t] BY <1>2, <2>2
    <3>2. Written(t) /\ Control(t) BY DEF AfterInv
    <3>3. Written(t)' BY <1>4, <3>1, <3>2 DEF Written, Held, Back
    <3>4. Seen(t)' = Seen(t) /\ Erasures' = Erasures BY <1>5, <3>1 DEF Seen, Sees
    <3>5. ASSUME at[t] \in ReturnAt PROVE Returning(t)'
      <4>1. Returning(t) BY <3>2, <3>5 DEF Control
      <4>2. NoNotes(t)' BY <3>1, <4>1 DEF Returning, NoNotes
      <4> QED BY <1>4, <3>1, <3>4, <4>1, <4>2 DEF Returning
    <3>6. ASSUME at[t] = "commit"
          PROVE  ReturnDone(t)' \/ RefundDone(t)' \/ NoteDone(t)' \/ VoidDone(t)'
      <4>1. ReturnDone(t) \/ RefundDone(t) \/ NoteDone(t) \/ VoidDone(t)
        BY <3>2, <3>6 DEF Control
      <4>2. ReturnDone(t) => ReturnDone(t)' BY <3>1, <3>4 DEF ReturnDone, Held, NoNotes
      <4>3. RefundDone(t) => RefundDone(t)' BY <3>1 DEF RefundDone
      <4>4. NoteDone(t) => NoteDone(t)' BY <3>1 DEF NoteDone, NoteWritten
      <4>5. VoidDone(t) => VoidDone(t)' BY <3>1 DEF VoidDone
      <4> QED BY <4>1, <4>2, <4>3, <4>4, <4>5
    <3>7. Control(t)' BY <3>1, <3>2, <3>5, <3>6 DEF Control, NoteWritten
    <3> QED BY <3>3, <3>7
  <2> QED BY <2>1, <2>2
<1>8. ASSUME calm' PROVE CalmTables' /\ \A t \in Session : Alone(t)'
  <2>1. calm /\ (at[s] # "idle" \/ Quiet) BY <1>8 DEF Watched
  <2>2. CalmTables' BY <1>4, <1>5, <2>1 DEF AfterInv, CalmTables
  <2>3. ASSUME NEW t \in Session, t # s PROVE Alone(t)'
    <3>1. at[t] = "idle" /\ mine[t] = Unwritten BY <2>1, <2>3, OthersIdle DEF AfterInv, Control
    <3>2. at'[t] = "idle" /\ mine'[t] = Unwritten BY <1>2, <2>3, <3>1
    <3> QED BY <3>2 DEF Alone, Held, Unwritten
  <2> QED BY <1>8, <2>2, <2>3
<1> QED BY <1>1, <1>3, <1>6, <1>7, <1>8 DEF AfterInv

\* While the tables are as they were, so is all that is read of them.
LEMMA AfterStill ==
  ASSUME db' = db
  PROVE  /\ \A l : Away(l)' = Away(l)
         /\ Credits' = Credits /\ Limit' = Limit /\ Lines' = Lines /\ Erasures' = Erasures
         /\ \A s : mine'[s] = mine[s] => /\ Seen(s)' = Seen(s) /\ Held(s)' = Held(s)
                                        /\ \A l : Back(s, l)' = Back(s, l)
<1>1. \A l : Away(l)' = Away(l) BY DEF Away, After!HasReturned
<1>2. Credits' = Credits /\ Limit' = Limit /\ Lines' = Lines /\ Erasures' = Erasures
  BY DEF Credits, Limit, Debits, Lines, Erasures, After!SumOf, After!Active
<1>3. ASSUME NEW s, mine'[s] = mine[s]
      PROVE  /\ Seen(s)' = Seen(s) /\ Held(s)' = Held(s) /\ \A l : Back(s, l)' = Back(s, l)
  BY <1>3 DEF Seen, Sees, Held, Back
<1> QED BY <1>1, <1>2, <1>3

\* A request that arrives, reads, or goes to its next statement has written what it had.
LEMMA AfterLook ==
  ASSUME AfterInv, NEW s \in Session, NEW label, NEW j, Begin(s, label, j) \/ Look(s, label, j),
         at[s] # "idle" \/ Begin(s, label, j)
  PROVE  /\ Others(s) /\ Watched(s) /\ at'[s] = label /\ job'[s] = j
         /\ mine' = mine /\ db' = db /\ Written(s)'
         /\ \A t \in Session \ {s} : DOMAIN mine'[s] \cap DOMAIN mine[t] = {}
<1>1. /\ Others(s) /\ Watched(s) /\ at'[s] = label /\ job'[s] = j /\ mine' = mine /\ db' = db
  BY LookMoves DEF AfterInv
<1>2. Written(s)' BY <1>1, AfterStill DEF AfterInv, Written
<1> QED BY <1>1, <1>2 DEF AfterInv, WritesApart

\* The end of a request that failed.
LEMMA AfterRollback ==
  ASSUME AfterInv, NEW s \in Session, Rollback(s), at[s] # "idle"
  PROVE  AfterInv'
<1>1. /\ Others(s) /\ Watched(s) /\ at'[s] = "idle" /\ mine'[s] = Unwritten /\ db' = db
  BY RollbackMoves DEF AfterInv
<1>2. Written(s)' BY <1>1 DEF Written, Held, Unwritten
<1>3. Control(s)' /\ Alone(s)' BY <1>1 DEF Control, Alone, Held, Unwritten, ReturnAt
<1>4. \A t \in Session \ {s} : DOMAIN mine'[s] \cap DOMAIN mine[t] = {}
  BY <1>1 DEF Unwritten
<1> QED BY <1>1, <1>2, <1>3, <1>4, AfterMove

\* The lines of a return are different, and some.
LEMMA AfterStartReturn ==
  ASSUME AfterInv, NEW s \in Session, After!StartReturn(s)
  PROVE  AfterInv'
<1>1. PICK items \in {<<i>> : i \in After!Item} \cup (After!Item \X After!Item) :
        /\ Len(items) = 2 => items[1][1] # items[2][1]
        /\ After!Begin(s, "take", [items |-> items, held |-> {}, left |-> 0, sum |-> 0])
  BY DEF After!StartReturn
<1> DEFINE j == [items |-> items, held |-> {}, left |-> 0, sum |-> 0]
<1>2. After!Item \subseteq Item BY AfterAssumed DEF After!Item, Item
<1>3. /\ items \in Seq(Item) /\ items # <<>>
      /\ \A i, k \in DOMAIN items : i # k => items[i][1] # items[k][1]
  <2>1. CASE items \in {<<i>> : i \in After!Item}
    <3>1. PICK i \in Item : items = <<i>> BY <1>2, <2>1
    <3> QED BY <3>1
  <2>2. CASE items \in After!Item \X After!Item
    <3>1. PICK i \in Item, k \in Item : items = <<i, k>> BY <1>2, <2>2
    <3>2. Len(items) = 2 /\ items[1] = i /\ items[2] = k /\ DOMAIN items = {1, 2} BY <3>1
    <3>3. items \in Seq(Item) /\ items # <<>> BY <3>1
    <3> QED BY <1>1, <3>2, <3>3
  <2> QED BY <2>1, <2>2
<1>4. j \in ReturnJob /\ j.items = items BY <1>3 DEF ReturnJob
<1> HIDE DEF j
<1>5. Begin(s, "take", j) BY <1>1, AfterRequests DEF j
<1>6. /\ Others(s) /\ Watched(s) /\ at'[s] = "take" /\ job'[s] = j
      /\ mine' = mine /\ db' = db /\ Written(s)'
      /\ \A t \in Session \ {s} : DOMAIN mine'[s] \cap DOMAIN mine[t] = {}
  BY <1>5, AfterLook
<1>7. mine[s] = Unwritten BY <1>5 DEF Begin, AfterInv, Control
<1>8. Returning(s)'
  BY <1>3, <1>4, <1>6, <1>7 DEF Returning, NoNotes, Unwritten
<1>9. Control(s)' /\ Alone(s)' BY <1>6, <1>7, <1>8 DEF Control, ReturnAt, Alone, Held, Unwritten
<1> QED BY <1>6, <1>9, AfterMove

\* Lines are worth a number; those that hold less are worth less.
LEMMA WorthCounts ==
  /\ \A v : (\A l \in Line : v[l] \in Nat) => After!Worth(v) \in Nat
  /\ \A u, v, w : (\A l \in Line : /\ u[l] \in Nat /\ v[l] \in Nat /\ w[l] \in Nat
                                    /\ w[l] = u[l] + v[l]) =>
       After!Worth(w) = After!Worth(u) + After!Worth(v)
<1> DEFINE f(v) == [l \in Line |-> v[l] * LinePrice[l]]
<1>1. \A v : After!Worth(v) = SumFunctionOnSet(f(v), Line) BY AfterSums DEF After!Worth
<1>2. \A v, l : l \in Line => f(v)[l] = v[l] * LinePrice[l] OBVIOUS
<1> HIDE DEF f
<1>3. ASSUME NEW v, \A l \in Line : v[l] \in Nat PROVE After!Worth(v) \in Nat
  <2>1. \A l \in Line : f(v)[l] \in Nat BY <1>2, <1>3, AfterAssumed
  <2> QED BY <1>1, <2>1, AfterAssumed, SumNatural
<1>4. ASSUME NEW u, NEW v, NEW w,
             \A l \in Line : /\ u[l] \in Nat /\ v[l] \in Nat /\ w[l] \in Nat
                              /\ w[l] = u[l] + v[l]
      PROVE  After!Worth(w) = After!Worth(u) + After!Worth(v)
  <2>1. ASSUME NEW l \in Line
        PROVE  f(u)[l] \in Int /\ f(v)[l] \in Int /\ f(w)[l] = f(u)[l] + f(v)[l]
    <3>1. /\ f(u)[l] = u[l] * LinePrice[l] /\ f(v)[l] = v[l] * LinePrice[l]
          /\ f(w)[l] = w[l] * LinePrice[l]
      BY <1>2
    <3>2. u[l] \in Nat /\ v[l] \in Nat /\ w[l] = u[l] + v[l] BY <1>4
    <3>3. LinePrice[l] \in Nat BY AfterAssumed
    <3>4. (u[l] + v[l]) * LinePrice[l] = u[l] * LinePrice[l] + v[l] * LinePrice[l]
      BY <3>2, <3>3
    <3> QED BY <3>1, <3>2, <3>3, <3>4
  <2> QED BY <1>1, <2>1, AfterAssumed, SumAdds
<1> QED BY <1>3, <1>4

\* The pieces of a line that were returned are a number.
LEMMA ReturnedCounts ==
  ASSUME AfterInv, NEW l \in Line
  PROVE  After!HasReturned(l) \in Nat
<1> DEFINE f == [t \in Session |-> db[After!Returned(l, t)]]
<1>1. \A t \in Session : f[t] \in Nat BY DEF AfterInv, SaleTables
<1>2. After!HasReturned(l) = SumFunctionOnSet(f, Session) BY AfterSums DEF After!HasReturned
<1> HIDE DEF f
<1> QED BY <1>1, <1>2, AfterAssumed, SumNatural

\* A refund, a note or the end of a note begins.
LEMMA AfterStarts ==
  ASSUME AfterInv, NEW s \in Session,
         After!StartRefund(s) \/ After!StartNote(s) \/ After!StartVoid(s)
  PROVE  AfterInv'
<1>1. PICK label, j : Begin(s, label, j) /\
        \/ label = "refund"
        \/ /\ label \in {"credits", "note"} /\ j.note \in After!NoteRow /\ ~j.note.voided
           /\ (label = "credits" <=> j.note.type = "credit") /\ j.ceiling = db[Invoice]
        \/ label = "void" /\ j.note \in Note /\ db[j.note] # Absent
  <2>1. CASE After!StartRefund(s) BY <2>1, AfterRequests DEF After!StartRefund
  <2>2. CASE After!StartNote(s)
    <3>1. PICK note \in After!NoteRow :
            /\ ~note.voided
            /\ Begin(s, IF note.type = "credit" THEN "credits" ELSE "note",
                     [note |-> note, ceiling |-> db[Invoice], held |-> {}])
      BY <2>2, AfterRequests DEF After!StartNote
    <3> DEFINE j == [note |-> note, ceiling |-> db[Invoice], held |-> {}]
               label == IF note.type = "credit" THEN "credits" ELSE "note"
    <3>2. j.note = note /\ j.ceiling = db[Invoice] OBVIOUS
    <3>3. label \in {"credits", "note"} /\ (label = "credits" <=> note.type = "credit") OBVIOUS
    <3> HIDE DEF j, label
    <3>4. Begin(s, label, j) BY <3>1 DEF j, label
    <3> QED BY <3>1, <3>2, <3>3, <3>4
  <2>3. CASE After!StartVoid(s)
    <3>1. PICK n \in Note : db[n] # Absent /\ Begin(s, "void", [note |-> n, held |-> {}])
      BY <2>3, AfterRequests DEF After!StartVoid
    <3>2. [note |-> n, held |-> {}].note = n OBVIOUS
    <3> QED BY <3>1, <3>2
  <2> QED BY <2>1, <2>2, <2>3
<1>2. /\ Others(s) /\ Watched(s) /\ at'[s] = label /\ job'[s] = j
      /\ mine' = mine /\ db' = db /\ Written(s)'
      /\ \A t \in Session \ {s} : DOMAIN mine'[s] \cap DOMAIN mine[t] = {}
  BY <1>1, AfterLook
<1>3. mine[s] = Unwritten /\ at[s] = "idle" BY <1>1 DEF Begin, AfterInv, Control
<1>4. Control(s)'
  <2>1. label = "void" => db[j.note] \in After!NoteRow
    BY <1>1 DEF AfterInv, SaleTables
  <2> QED BY <1>1, <1>2, <1>3, <2>1 DEF Control, ReturnAt
<1>5. ASSUME calm' PROVE Alone(s)'
  <2>1. calm BY <1>2, <1>5 DEF Watched
  <2>2. \A l \in Line : db[l] \in Nat /\ db[l] <= Sold[l] /\ Sold[l] \in Nat
    BY AfterAssumed DEF AfterInv, SaleTables
  <2>3. After!Worth(Lines) + After!Worth(Erasures) <= After!Worth(Sold)
        /\ After!Worth(Lines) \in Nat /\ After!Worth(Erasures) \in Nat
    <3> DEFINE both == [l \in Line |-> db[l] + db[After!Erased(l)]]
               rest == [l \in Line |-> Sold[l] - both[l]]
    <3>1. ASSUME NEW l \in Line
          PROVE  /\ Lines[l] \in Nat /\ Erasures[l] \in Nat /\ both[l] \in Nat
                 /\ rest[l] \in Nat /\ Sold[l] \in Nat
                 /\ both[l] = Lines[l] + Erasures[l] /\ Sold[l] = both[l] + rest[l]
      <4>1. Away(l) + db[l] = Sold[l] BY <2>1 DEF AfterInv, CalmTables
      <4>2. db[After!Erased(l)] \in Nat BY DEF AfterInv, SaleTables
      <4>3. After!HasReturned(l) \in Nat BY ReturnedCounts
      <4>4. db[l] \in Nat /\ Sold[l] \in Nat BY <2>2
      <4> QED BY <4>1, <4>2, <4>3, <4>4 DEF Lines, Erasures, Away
    <3> HIDE DEF both, rest
    <3>2. After!Worth(both) = After!Worth(Lines) + After!Worth(Erasures)
          /\ After!Worth(Lines) \in Nat /\ After!Worth(Erasures) \in Nat
      BY <3>1, WorthCounts
    <3>3. After!Worth(Sold) = After!Worth(both) + After!Worth(rest)
          /\ After!Worth(rest) \in Nat /\ After!Worth(both) \in Nat
      BY <3>1, WorthCounts
    <3> QED BY <3>2, <3>3
  <2>4. label = "credits" => j.ceiling \in Int /\ j.ceiling <= After!Worth(Sold)
    <3>1. Tells(db[Invoice], Lines, Erasures) BY <2>1 DEF AfterInv, CalmTables
    <3>2. After!Worth(Sold) \in Nat BY <2>2, WorthCounts
    <3>3. db[Invoice] \in Int /\ db[Invoice] <= After!Worth(Sold)
      BY <2>3, <3>1, <3>2 DEF Tells
    <3> QED BY <1>1, <3>3
  <2>5. label = "note" => j.note.type # "credit" BY <1>1
  <2> QED BY <1>1, <1>2, <1>3, <2>4, <2>5 DEF Alone, Held, Unwritten
<1> QED BY <1>2, <1>4, <1>5, AfterMove

\* The item a return is at.
LEMMA AfterItem ==
  ASSUME AfterInv, NEW s \in Session, at[s] \in ReturnAt
  PROVE  /\ Returning(s) /\ job[s] \in ReturnJob
         /\ job[s].items \in Seq(Item) /\ job[s].items # <<>>
         /\ Head(job[s].items) = job[s].items[1] /\ 1 \in DOMAIN job[s].items
         /\ job[s].items[1][1] \in Line /\ job[s].items[1][2] \in Nat \ {0}
<1>1. Returning(s) BY DEF AfterInv, Control
<1>2. job[s] \in ReturnJob /\ job[s].items # <<>> BY <1>1 DEF Returning
<1>3. job[s].items \in Seq(Item) BY <1>2 DEF ReturnJob
<1>4. Head(job[s].items) = job[s].items[1] /\ 1 \in DOMAIN job[s].items
      /\ job[s].items[1] \in Item
  <2> DEFINE items == job[s].items
  <2> HIDE DEF items
  <2>1. items \in Seq(Item) /\ items # <<>> BY <1>2, <1>3 DEF items
  <2>2. Head(items) = items[1] /\ 1 \in DOMAIN items /\ items[1] \in Item BY <2>1
  <2> QED BY <2>2 DEF items
<1>5. job[s].items[1][1] \in Line /\ job[s].items[1][2] \in Nat \ {0} BY <1>4 DEF Item
<1> QED BY <1>1, <1>2, <1>3, <1>4, <1>5

\* What lines are worth is a number, and what the queries of a request sum is what it sees.
LEMMA AfterWorth ==
  ASSUME AfterInv, NEW s \in Session
  PROVE  /\ After!Total(s) = After!Worth(Seen(s))
         /\ After!Worth(Seen(s)) \in Nat
         /\ Tells(After!Worth(Seen(s)), Seen(s), Erasures)
<1>1. After!Total(s) = After!Worth(Seen(s)) BY AfterRequests DEF After!Total, Seen
<1>2. \A l \in Line : Seen(s)[l] \in Nat
  BY DEF AfterInv, SaleTables, Written, Held, Seen, Sees
<1>3. \A l \in Line : Erasures[l] \in Nat BY DEF AfterInv, SaleTables, Erasures
<1>4. After!Worth(Seen(s)) \in Nat /\ After!Worth(Erasures) \in Nat
  BY <1>2, <1>3, WorthCounts
<1> QED BY <1>1, <1>4 DEF Tells

\* A statement of a request adds to what it has written.
LEMMA AfterWrite ==
  ASSUME AfterInv, NEW s \in Session, NEW new, NEW label, NEW j, Write(s, new, label, j),
         at[s] # "idle"
  PROVE  /\ Others(s) /\ Watched(s) /\ at'[s] = label /\ job'[s] = j /\ db' = db
         /\ DOMAIN mine'[s] = DOMAIN new \cup DOMAIN mine[s]
         /\ \A r \in DOMAIN mine'[s] :
              mine'[s][r] = IF r \in DOMAIN new THEN new[r] ELSE mine[s][r]
         /\ \A t \in Session \ {s} : DOMAIN mine'[s] \cap DOMAIN mine[t] = {}
<1>1. /\ Others(s) /\ Watched(s) /\ at'[s] = label /\ job'[s] = j
      /\ mine'[s] = Over(new, mine[s]) /\ db' = db
      /\ \A t \in Session \ {s} : DOMAIN new \cap DOMAIN mine[t] = {}
  BY WriteMoves DEF AfterInv
<1>2. DOMAIN mine'[s] = DOMAIN new \cup DOMAIN mine[s] BY <1>1 DEF Over
<1>3. \A r \in DOMAIN mine'[s] :
        mine'[s][r] = IF r \in DOMAIN new THEN new[r] ELSE mine[s][r]
  BY <1>1 DEF Over
<1>4. \A t \in Session \ {s} : DOMAIN mine[s] \cap DOMAIN mine[t] = {}
  BY DEF AfterInv, WritesApart
<1> QED BY <1>1, <1>2, <1>3, <1>4

\* The trigger reads the line.
LEMMA AfterTakeLine ==
  ASSUME AfterInv, NEW s \in Session, After!TakeLine(s)
  PROVE  AfterInv'
<1> DEFINE items == job[s].items
           l == items[1][1]
           n == items[1][2]
           j == [job[s] EXCEPT !.held = @ \cup {l}, !.left = db[l]]
<1>1. at[s] = "take" BY DEF After!TakeLine
<1>2. /\ Returning(s) /\ job[s] \in ReturnJob /\ Head(items) = items[1]
      /\ l \in Line /\ n \in Nat \ {0}
  BY <1>1, AfterItem DEF ReturnAt
<1>3. l \notin DOMAIN mine[s] BY <1>1, <1>2 DEF Returning
<1>4. Sees(s, l) = db[l] BY <1>3 DEF Sees
<1>5. db[l] \in 0 .. Sold[l] /\ Away(l) + db[l] >= Sold[l] /\ Sold[l] \in Nat
  BY <1>2, AfterAssumed DEF AfterInv, SaleTables
<1>6. CASE Rollback(s) BY <1>1, <1>6, AfterRollback
<1>7. CASE ~(db[l] < n) /\ Look(s, "line", j)
  <2>1. j \in ReturnJob /\ j.items = items /\ j.left = db[l] /\ l \in j.held
    <3> DEFINE k == l
    <3>1. k \in Line /\ db[k] \in Nat BY <1>2, <1>5
    <3> HIDE DEF k
    <3>2. [job[s] EXCEPT !.held = @ \cup {k}, !.left = db[k]] \in ReturnJob
          /\ [job[s] EXCEPT !.held = @ \cup {k}, !.left = db[k]].items = job[s].items
          /\ [job[s] EXCEPT !.held = @ \cup {k}, !.left = db[k]].left = db[k]
          /\ k \in [job[s] EXCEPT !.held = @ \cup {k}, !.left = db[k]].held
      BY <1>2, <3>1 DEF ReturnJob
    <3> QED BY <3>2 DEF k
  <2> HIDE DEF j
  <2>2. /\ Others(s) /\ Watched(s) /\ at'[s] = "line" /\ job'[s] = j
        /\ mine' = mine /\ db' = db /\ Written(s)'
        /\ \A t \in Session \ {s} : DOMAIN mine'[s] \cap DOMAIN mine[t] = {}
    BY <1>1, <1>7, AfterLook
  <2>3. \A k : Away(k)' = Away(k) BY <2>2, AfterStill
  <2>4. Returning(s)'
    <3>1. NoNotes(s)' BY <1>2, <2>2 DEF Returning, NoNotes
    <3>2. /\ \A i, k \in DOMAIN items : i # k => items[i][1] # items[k][1]
          /\ \A i \in DOMAIN items : i # 1 => items[i][1] \notin DOMAIN mine[s]
          /\ items # <<>>
      BY <1>2 DEF Returning
    <3>3. db[l] \in n .. Sold[l] /\ Away(l) + db[l] >= Sold[l]
      BY <1>2, <1>5, <1>7
    <3> HIDE DEF items
    <3> QED BY <1>3, <2>1, <2>2, <2>3, <3>1, <3>2, <3>3 DEF Returning
  <2>5. Control(s)' BY <2>2, <2>4 DEF Control, ReturnAt
  <2>6. ASSUME calm' PROVE Alone(s)'
    <3>1. calm BY <2>2, <2>6 DEF Watched
    <3>2. Away(l) + db[l] = Sold[l] BY <1>2, <3>1 DEF AfterInv, CalmTables
    <3>3. \A k \in Held(s) : Away(k) + Back(s, k) + mine[s][k] = Sold[k]
      BY <3>1 DEF AfterInv, Alone
    <3>4. \A k \in Held(s)' : (Away(k) + Back(s, k) + mine[s][k] = Sold[k])'
      BY <2>2, <3>3, AfterStill
    <3>5. \A m \in Note : m \notin DOMAIN mine'[s] BY <2>2, <1>2 DEF Returning, NoNotes
    <3> QED BY <2>1, <2>2, <2>3, <3>2, <3>4, <3>5 DEF Alone
  <2> QED BY <2>2, <2>5, <2>6, AfterMove
<1>8. Rollback(s) \/ (~(db[l] < n) /\ Look(s, "line", j))
  BY <1>2, <1>4, AfterRequests DEF After!TakeLine
<1> QED BY <1>6, <1>7, <1>8

\* The trigger takes what is returned off what it read.
LEMMA AfterPutLine ==
  ASSUME AfterInv, NEW s \in Session, After!PutLine(s)
  PROVE  AfterInv'
<1>1. at[s] = "line" BY DEF After!PutLine
<1>2. PICK l \in Line, n \in Nat \ {0} : l = job[s].items[1][1] /\ n = job[s].items[1][2]
  BY <1>1, AfterItem DEF ReturnAt
<1>3. Returning(s) /\ job[s] \in ReturnJob /\ Head(job[s].items) = job[s].items[1]
  BY <1>1, AfterItem DEF ReturnAt
<1> DEFINE ret == After!Returned(l, s)
           left == job[s].left - n
           new == [r \in {l, ret} |-> IF r = l THEN left ELSE Sees(s, r) + n]
<1>4. Write(s, new, "sum", job[s]) BY <1>2, <1>3, AfterRequests DEF After!PutLine
<1>5. /\ l \notin DOMAIN mine[s] /\ job[s].left \in n .. Sold[l]
      /\ Away(l) + job[s].left >= Sold[l]
  BY <1>1, <1>2, <1>3 DEF Returning
<1>6. left \in 0 .. Sold[l] /\ Sold[l] \in Nat /\ left = job[s].left - n
  BY <1>5, AfterAssumed
<1>7. ret \notin DOMAIN mine[s] BY <1>5 DEF AfterInv, Written, Held
<1>8. Sees(s, ret) = db[ret] /\ db[ret] \in Nat BY <1>7 DEF Sees, AfterInv, SaleTables
<1>9. /\ ret \notin Line \cup Note \cup {Invoice, Sale} /\ l # Sale /\ l # Invoice
      /\ l \notin Note
      /\ \A m \in Note : After!CreditOf(m) \notin {l, ret}
      /\ \A k \in Line, t \in Session : After!Returned(k, t) # l
      /\ \A k \in Line, t \in Session : After!Returned(k, t) = ret => k = l /\ t = s
      /\ \A k \in Line : After!Erased(k) \notin {l, ret}
  BY AfterRows
<1>10. new[l] = left /\ new[ret] = db[ret] + n /\ DOMAIN new = {l, ret} BY <1>8, <1>9
<1>11. ret \in After!Row /\ l \in After!Row BY DEF After!Row
<1> HIDE DEF new, ret, left
<1>12. /\ Others(s) /\ Watched(s) /\ at'[s] = "sum" /\ job'[s] = job[s] /\ db' = db
       /\ DOMAIN mine'[s] = {l, ret} \cup DOMAIN mine[s]
       /\ \A r \in DOMAIN mine'[s] :
            mine'[s][r] = IF r \in {l, ret} THEN new[r] ELSE mine[s][r]
       /\ \A t \in Session \ {s} : DOMAIN mine'[s] \cap DOMAIN mine[t] = {}
  BY <1>1, <1>4, <1>10, AfterWrite
<1>13. \A k : Away(k)' = Away(k) BY <1>12, AfterStill
<1>14. Held(s)' = Held(s) \cup {l} BY <1>9, <1>12 DEF Held
<1>15. mine'[s][l] = left /\ mine'[s][ret] = db[ret] + n /\ ret \in DOMAIN mine'[s]
  BY <1>10, <1>12
<1>16. ASSUME NEW k \in Held(s)
       PROVE  /\ k # l /\ mine'[s][k] = mine[s][k]
              /\ After!Returned(k, s) \in DOMAIN mine'[s]
              /\ mine'[s][After!Returned(k, s)] = mine[s][After!Returned(k, s)]
              /\ Back(s, k)' = Back(s, k)
  <2>1. k # l /\ k \in DOMAIN mine[s] /\ k \in Line BY <1>5 DEF Held
  <2>2. k # ret BY <1>9, <2>1
  <2>3. After!Returned(k, s) \in DOMAIN mine[s] BY DEF AfterInv, Written
  <2>4. After!Returned(k, s) \notin {l, ret} BY <1>9, <2>1
  <2>5. mine'[s][k] = mine[s][k] BY <1>12, <2>1, <2>2
  <2>6. mine'[s][After!Returned(k, s)] = mine[s][After!Returned(k, s)]
        /\ After!Returned(k, s) \in DOMAIN mine'[s]
    BY <1>12, <2>3, <2>4
  <2> QED BY <1>12, <2>1, <2>5, <2>6 DEF Back
<1>17. Back(s, l)' = n BY <1>8, <1>12, <1>15 DEF Back, ret
<1>18. Away(l) \in Int BY ReturnedCounts DEF AfterInv, SaleTables, Away
<1>19. Written(s)'
  <2>1. DOMAIN mine'[s] \subseteq After!Row BY <1>11, <1>12 DEF AfterInv, Written
  <2>2. ASSUME NEW k \in Held(s)'
        PROVE  (/\ mine[s][k] \in 0 .. Sold[k]
                /\ After!Returned(k, s) \in DOMAIN mine[s]
                /\ mine[s][After!Returned(k, s)] \in Nat
                /\ Back(s, k) >= 0
                /\ Away(k) + Back(s, k) + mine[s][k] >= Sold[k])'
    <3>1. CASE k = l
      <4>1. Away(l) + n + left >= Sold[l] BY <1>5, <1>6, <1>18
      <4>2. db[ret] + n \in Nat BY <1>8
      <4>3. k \notin Held(s) BY <1>5, <3>1 DEF Held
      <4> QED BY <1>6, <1>13, <1>15, <1>17, <3>1, <4>1, <4>2 DEF ret
    <3>2. CASE k \in Held(s)
      <4>1. /\ mine[s][k] \in 0 .. Sold[k] /\ mine[s][After!Returned(k, s)] \in Nat
            /\ Back(s, k) >= 0 /\ Away(k) + Back(s, k) + mine[s][k] >= Sold[k]
        BY <3>2 DEF AfterInv, Written
      <4> QED BY <1>13, <1>16, <3>2, <4>1
    <3> QED BY <1>14, <3>1, <3>2
  <2>3. ASSUME NEW k \in Line, NEW t \in Session, After!Returned(k, t) \in DOMAIN mine'[s]
        PROVE  t = s /\ k \in Held(s)'
    <3>1. CASE After!Returned(k, t) \in DOMAIN mine[s]
      BY <1>14, <3>1 DEF AfterInv, Written
    <3>2. CASE After!Returned(k, t) \in {l, ret} BY <1>9, <1>14, <3>2
    <3> QED BY <1>12, <2>3, <3>1, <3>2
  <2>4. ASSUME Sale \in DOMAIN mine'[s]
        PROVE  mine'[s][Sale] \in SaleRow /\ Held(s)' # {}
    BY <1>9, <1>12, <1>14, <2>4 DEF AfterInv, Written
  <2>5. \A k \in Line : After!Erased(k) \notin DOMAIN mine'[s]
    BY <1>9, <1>12 DEF AfterInv, Written
  <2> QED BY <2>1, <2>2, <2>3, <2>4, <2>5 DEF Written
<1>20. Returning(s)'
  <2>1. NoNotes(s)' BY <1>3, <1>9, <1>12 DEF Returning, NoNotes
  <2>2. \A i \in DOMAIN job[s].items : i # 1 => job[s].items[i][1] \notin DOMAIN mine'[s]
    <3>1. SUFFICES ASSUME NEW i \in DOMAIN job[s].items, i # 1
                   PROVE  job[s].items[i][1] \notin DOMAIN mine'[s]
      OBVIOUS
    <3>2. job[s].items[i][1] # l /\ job[s].items[i][1] \notin DOMAIN mine[s]
      <4>1. 1 \in DOMAIN job[s].items BY <1>1, AfterItem DEF ReturnAt
      <4> QED BY <1>2, <1>3, <3>1, <4>1 DEF Returning
    <3>3. job[s].items[i][1] \in Line
      <4>1. job[s].items \in Seq(Item) BY <1>3 DEF ReturnJob
      <4>2. job[s].items[i] \in Item BY <3>1, <4>1
      <4> QED BY <4>2 DEF Item
    <3> QED BY <1>9, <1>12, <3>2, <3>3
  <2> QED BY <1>2, <1>3, <1>12, <2>1, <2>2 DEF Returning
<1>21. Control(s)' BY <1>12, <1>20 DEF Control, ReturnAt
<1>22. ASSUME calm' PROVE Alone(s)'
  <2>1. calm BY <1>12, <1>22 DEF Watched
  <2>2. Away(l) + job[s].left = Sold[l]
    BY <1>1, <1>2, <2>1 DEF AfterInv, Alone
  <2>3. Away(l) + n + left = Sold[l] BY <1>5, <1>6, <1>18, <2>2
  <2>4. \A k \in Held(s) : Away(k) + Back(s, k) + mine[s][k] = Sold[k]
    BY <2>1 DEF AfterInv, Alone
  <2>5. \A k \in Held(s)' : (Away(k) + Back(s, k) + mine[s][k] = Sold[k])'
    BY <1>13, <1>14, <1>15, <1>16, <1>17, <2>3, <2>4
  <2>6. \A m \in Note : m \notin DOMAIN mine'[s] BY <1>20 DEF Returning, NoNotes
  <2> QED BY <1>12, <2>5, <2>6 DEF Alone
<1> QED BY <1>12, <1>19, <1>21, <1>22, AfterMove

\* The lines are summed, for the invoice or for the sale.
LEMMA AfterSum ==
  ASSUME AfterInv, NEW s \in Session, After!SumInvoice(s) \/ After!SumSale(s)
  PROVE  AfterInv'
<1> DEFINE label == IF at[s] = "sum" THEN "invoice" ELSE "sale"
           j == [job[s] EXCEPT !.sum = After!Worth(Seen(s))]
<1>1. at[s] \in {"sum", "sumsale"} /\ Look(s, label, j)
  BY AfterWorth, AfterRequests DEF After!SumInvoice, After!SumSale
<1>2. /\ Returning(s) /\ job[s] \in ReturnJob BY <1>1, AfterItem DEF ReturnAt
<1>3. j \in ReturnJob /\ j.items = job[s].items /\ j.sum = After!Worth(Seen(s))
      /\ Tells(j.sum, Seen(s), Erasures)
  <2> DEFINE w == After!Worth(Seen(s))
  <2>1. w \in Nat BY AfterWorth
  <2> HIDE DEF w
  <2>2. [job[s] EXCEPT !.sum = w] \in ReturnJob /\ [job[s] EXCEPT !.sum = w].sum = w
        /\ [job[s] EXCEPT !.sum = w].items = job[s].items
    BY <1>2, <2>1 DEF ReturnJob
  <2> QED BY <2>2, AfterWorth DEF w
<1> HIDE DEF j, label
<1>4. /\ Others(s) /\ Watched(s) /\ at'[s] = label /\ job'[s] = j
      /\ mine' = mine /\ db' = db /\ Written(s)'
      /\ \A t \in Session \ {s} : DOMAIN mine'[s] \cap DOMAIN mine[t] = {}
  BY <1>1, AfterLook
<1>5. Seen(s)' = Seen(s) /\ Held(s)' = Held(s) /\ Erasures' = Erasures BY <1>4, AfterStill
<1>6. label \in {"invoice", "sale"} /\ (label = "sale" <=> at[s] = "sumsale")
  BY <1>1 DEF label
<1>7. Returning(s)'
  BY <1>1, <1>2, <1>3, <1>4, <1>5, <1>6 DEF Returning, NoNotes
<1>8. Control(s)' BY <1>4, <1>6, <1>7 DEF Control, ReturnAt
<1>9. ASSUME calm' PROVE Alone(s)'
  <2>1. calm BY <1>4, <1>9 DEF Watched
  <2>2. \A k \in Held(s) : Away(k) + Back(s, k) + mine[s][k] = Sold[k]
    BY <2>1 DEF AfterInv, Alone
  <2>3. \A k \in Held(s)' : (Away(k) + Back(s, k) + mine[s][k] = Sold[k])'
    BY <1>4, <2>2, AfterStill
  <2>4. label = "sale" /\ Invoice \in DOMAIN mine[s] => Tells(mine[s][Invoice], Seen(s), Erasures)
    BY <1>6, <2>1 DEF AfterInv, Alone
  <2>5. \A m \in Note : m \notin DOMAIN mine'[s] BY <1>2, <1>4 DEF Returning, NoNotes
  <2> QED BY <1>3, <1>4, <1>5, <1>6, <2>3, <2>4, <2>5 DEF Alone
<1> QED BY <1>4, <1>8, <1>9, AfterMove

\* A total is written: the lines that the request has written, and those it sees, are as
\* they were.
LEMMA AfterPut ==
  ASSUME AfterInv, NEW s \in Session, NEW x \in {Invoice, Sale}, NEW v, NEW label, NEW j,
         NEW new, DOMAIN new = {x}, new[x] = v, Write(s, new, label, j),
         at[s] # "idle", Held(s) # {}, x = Sale => v \in SaleRow
  PROVE  /\ Others(s) /\ Watched(s) /\ at'[s] = label /\ job'[s] = j /\ db' = db
         /\ DOMAIN mine'[s] = {x} \cup DOMAIN mine[s]
         /\ mine'[s][x] = v /\ \A r \in DOMAIN mine[s] \ {x} : mine'[s][r] = mine[s][r]
         /\ \A t \in Session \ {s} : DOMAIN mine'[s] \cap DOMAIN mine[t] = {}
         /\ Held(s)' = Held(s) /\ Seen(s)' = Seen(s) /\ Erasures' = Erasures
         /\ \A k \in Held(s) : Back(s, k)' = Back(s, k) /\ mine'[s][k] = mine[s][k]
         /\ Written(s)'
<1>1. /\ Others(s) /\ Watched(s) /\ at'[s] = label /\ job'[s] = j /\ db' = db
      /\ DOMAIN mine'[s] = {x} \cup DOMAIN mine[s]
      /\ \A r \in DOMAIN mine'[s] : mine'[s][r] = IF r \in {x} THEN new[r] ELSE mine[s][r]
      /\ \A t \in Session \ {s} : DOMAIN mine'[s] \cap DOMAIN mine[t] = {}
  BY AfterWrite
<1>2. mine'[s][x] = v /\ \A r \in DOMAIN mine[s] \ {x} : mine'[s][r] = mine[s][r]
  BY <1>1
<1>3. /\ x \notin Line /\ x \in After!Row
      /\ \A k \in Line, t \in Session : After!Returned(k, t) # x
      /\ \A k \in Line : After!Erased(k) # x
  BY AfterRows DEF After!Row
<1>4. Held(s)' = Held(s) BY <1>1, <1>3 DEF Held
<1>5. \A k \in Line : Sees(s, k)' = Sees(s, k) BY <1>1, <1>2, <1>3 DEF Sees
<1>6. Seen(s)' = Seen(s) BY <1>5 DEF Seen
<1>7. ASSUME NEW k \in Held(s)
      PROVE  /\ Back(s, k)' = Back(s, k) /\ mine'[s][k] = mine[s][k]
             /\ After!Returned(k, s) \in DOMAIN mine'[s]
             /\ mine'[s][After!Returned(k, s)] = mine[s][After!Returned(k, s)]
  <2>1. k \in Line /\ k \in DOMAIN mine[s] /\ After!Returned(k, s) \in DOMAIN mine[s]
    BY DEF Held, AfterInv, Written
  <2> QED BY <1>1, <1>2, <1>3, <2>1 DEF Back
<1>8. Written(s)'
  <2>1. Written(s) BY DEF AfterInv
  <2>2. \A k : Away(k)' = Away(k) BY <1>1, AfterStill
  <2>3. \A l \in Held(s)' :
          (/\ mine[s][l] \in 0 .. Sold[l]
           /\ After!Returned(l, s) \in DOMAIN mine[s]
           /\ mine[s][After!Returned(l, s)] \in Nat
           /\ Back(s, l) >= 0
           /\ Away(l) + Back(s, l) + mine[s][l] >= Sold[l])'
    BY <1>4, <1>7, <2>1, <2>2 DEF Written
  <2>4. DOMAIN mine'[s] \subseteq After!Row BY <1>1, <1>3, <2>1 DEF Written
  <2>5. \A k \in Line, t \in Session :
          After!Returned(k, t) \in DOMAIN mine'[s] => t = s /\ k \in Held(s)'
    BY <1>1, <1>3, <1>4, <2>1 DEF Written
  <2>6. Sale \in DOMAIN mine'[s] => mine'[s][Sale] \in SaleRow
    BY <1>1, <1>2, <2>1 DEF Written
  <2>7. \A k \in Line : After!Erased(k) \notin DOMAIN mine'[s] BY <1>1, <1>3, <2>1 DEF Written
  <2> QED BY <1>4, <2>3, <2>4, <2>5, <2>6, <2>7 DEF Written
<1>9. Erasures' = Erasures BY <1>1, AfterStill
<1> QED BY <1>1, <1>2, <1>4, <1>6, <1>7, <1>8, <1>9

\* The total of the invoice is what was summed before it was locked.
LEMMA AfterPutInvoice ==
  ASSUME AfterInv, NEW s \in Session, After!PutInvoice(s)
  PROVE  AfterInv'
<1>1. at[s] = "invoice" /\ Write(s, [r \in {Invoice} |-> job[s].sum], "sumsale", job[s])
  BY AfterRequests DEF After!PutInvoice
<1>2. /\ Returning(s) /\ job[s].items[1][1] \in Line BY <1>1, AfterItem DEF ReturnAt
<1>3. Held(s) # {} BY <1>1, <1>2 DEF Returning, Held
<1>4. /\ Others(s) /\ Watched(s) /\ at'[s] = "sumsale" /\ job'[s] = job[s] /\ db' = db
      /\ DOMAIN mine'[s] = {Invoice} \cup DOMAIN mine[s]
      /\ mine'[s][Invoice] = job[s].sum
      /\ \A t \in Session \ {s} : DOMAIN mine'[s] \cap DOMAIN mine[t] = {}
      /\ Held(s)' = Held(s) /\ Seen(s)' = Seen(s) /\ Erasures' = Erasures
      /\ \A k \in Held(s) : Back(s, k)' = Back(s, k) /\ mine'[s][k] = mine[s][k]
      /\ Written(s)'
  <2> DEFINE sum == job[s].sum
             j == job[s]
             new == [r \in {Invoice} |-> sum]
  <2>1. Write(s, new, "sumsale", j) /\ at[s] # "idle" BY <1>1
  <2>2. /\ Invoice \in {Invoice, Sale} /\ Invoice # Sale
        /\ DOMAIN new = {Invoice} /\ new[Invoice] = sum
    BY AfterRows
  <2> HIDE DEF sum, j, new
  <2>3. /\ Others(s) /\ Watched(s) /\ at'[s] = "sumsale" /\ job'[s] = j /\ db' = db
        /\ DOMAIN mine'[s] = {Invoice} \cup DOMAIN mine[s]
        /\ mine'[s][Invoice] = sum
        /\ \A t \in Session \ {s} : DOMAIN mine'[s] \cap DOMAIN mine[t] = {}
        /\ Held(s)' = Held(s) /\ Seen(s)' = Seen(s) /\ Erasures' = Erasures
        /\ \A k \in Held(s) : Back(s, k)' = Back(s, k) /\ mine'[s][k] = mine[s][k]
        /\ Written(s)'
    BY <1>3, <2>1, <2>2, AfterPut
  <2> QED BY <2>3 DEF sum, j
<1>5. NoNotes(s)' BY <1>2, <1>4, AfterRows DEF Returning, NoNotes
<1>6. Returning(s)'
  <2>1. \A i \in DOMAIN job[s].items : job[s].items[i][1] \in Line
    <3>1. job[s].items \in Seq(Item) BY <1>2 DEF Returning, ReturnJob
    <3>2. \A i \in DOMAIN job[s].items : job[s].items[i] \in Item BY <3>1
    <3> QED BY <3>2 DEF Item
  <2>2. \A i \in DOMAIN job[s].items : i # 1 => job[s].items[i][1] \notin DOMAIN mine'[s]
    BY <1>2, <1>4, <2>1, AfterRows DEF Returning
  <2> QED BY <1>1, <1>2, <1>4, <1>5, <2>2 DEF Returning
<1>7. Control(s)' BY <1>4, <1>6 DEF Control, ReturnAt
<1>8. ASSUME calm' PROVE Alone(s)'
  <2>1. calm BY <1>4, <1>8 DEF Watched
  <2>2. \A k \in Held(s) : Away(k) + Back(s, k) + mine[s][k] = Sold[k]
    BY <2>1 DEF AfterInv, Alone
  <2>3. \A k \in Held(s)' : (Away(k) + Back(s, k) + mine[s][k] = Sold[k])'
    BY <1>4, <2>2, AfterStill
  <2>4. Tells(job[s].sum, Seen(s), Erasures) BY <1>1, <2>1 DEF AfterInv, Alone
  <2>5. \A m \in Note : m \notin DOMAIN mine'[s] BY <1>5 DEF NoNotes
  <2> QED BY <1>4, <2>3, <2>4, <2>5 DEF Alone
<1> QED BY <1>4, <1>7, <1>8, AfterMove

\* The total of the sale is what the request sees of its lines, for nobody else gets past
\* the invoice; the next item follows.
LEMMA AfterPutSale ==
  ASSUME AfterInv, NEW s \in Session, After!PutSale(s)
  PROVE  AfterInv'
<1> DEFINE rest == Tail(job[s].items)
           row == [Sees(s, Sale) EXCEPT !.total = job[s].sum]
           label == IF rest = <<>> THEN "commit" ELSE "take"
           j == [job[s] EXCEPT !.items = rest]
<1>1. at[s] = "sale" /\ Write(s, [r \in {Sale} |-> row], label, j)
  BY AfterRequests DEF After!PutSale
<1>2. /\ Returning(s) /\ job[s].items[1][1] \in Line /\ job[s] \in ReturnJob
      /\ job[s].items \in Seq(Item) /\ job[s].items # <<>>
  BY <1>1, AfterItem DEF ReturnAt
<1>3. Held(s) # {} BY <1>1, <1>2 DEF Returning, Held
<1>4. row \in SaleRow /\ row.total = job[s].sum
  <2> DEFINE old == Sees(s, Sale)
             sum == job[s].sum
  <2>1. old \in SaleRow BY DEF AfterInv, SaleTables, Written, Sees
  <2>2. sum \in Nat BY <1>2 DEF ReturnJob
  <2> HIDE DEF old, sum
  <2>3. [old EXCEPT !.total = sum] \in SaleRow /\ [old EXCEPT !.total = sum].total = sum
    BY <2>1, <2>2 DEF SaleRow
  <2> QED BY <2>3 DEF old, sum
<1>5. /\ rest \in Seq(Item) /\ Len(rest) = Len(job[s].items) - 1
      /\ \A i \in DOMAIN rest : rest[i] = job[s].items[i + 1] /\ i + 1 \in DOMAIN job[s].items
                               /\ i + 1 # 1 /\ i \in Nat
  <2> DEFINE items == job[s].items
  <2> HIDE DEF items
  <2>1. items \in Seq(Item) /\ items # <<>> BY <1>2 DEF items
  <2>2. /\ Tail(items) \in Seq(Item) /\ Len(Tail(items)) = Len(items) - 1
        /\ \A i \in 1 .. Len(items) - 1 : Tail(items)[i] = items[i + 1]
        /\ DOMAIN items = 1 .. Len(items) /\ Len(items) \in Nat
    BY <2>1
  <2>3. DOMAIN Tail(items) = 1 .. Len(items) - 1 BY <2>2
  <2>4. \A i \in DOMAIN Tail(items) :
          Tail(items)[i] = items[i + 1] /\ i + 1 \in DOMAIN items /\ i + 1 # 1 /\ i \in Nat
    BY <2>2, <2>3
  <2> QED BY <2>2, <2>4 DEF items
<1>6. j \in ReturnJob /\ j.items = rest
  <2> HIDE DEF rest
  <2> QED BY <1>2, <1>5 DEF ReturnJob
<1> DEFINE new == [r \in {Sale} |-> row]
<1>0. DOMAIN new = {Sale} /\ new[Sale] = row OBVIOUS
<1>01. Write(s, new, label, j) BY <1>1
<1> HIDE DEF row, j, label, new
<1>7. /\ Others(s) /\ Watched(s) /\ at'[s] = label /\ job'[s] = j /\ db' = db
      /\ DOMAIN mine'[s] = {Sale} \cup DOMAIN mine[s]
      /\ mine'[s][Sale] = row /\ \A r \in DOMAIN mine[s] \ {Sale} : mine'[s][r] = mine[s][r]
      /\ \A t \in Session \ {s} : DOMAIN mine'[s] \cap DOMAIN mine[t] = {}
      /\ Held(s)' = Held(s) /\ Seen(s)' = Seen(s) /\ Erasures' = Erasures
      /\ \A k \in Held(s) : Back(s, k)' = Back(s, k) /\ mine'[s][k] = mine[s][k]
      /\ Written(s)'
  BY <1>0, <1>01, <1>1, <1>3, <1>4, AfterPut
<1>8. NoNotes(s)' BY <1>2, <1>7, AfterRows DEF Returning, NoNotes
<1>9. Tells(job[s].sum, Seen(s), Erasures) /\ Invoice \in DOMAIN mine[s]
  BY <1>1, <1>2 DEF Returning
<1>10. Control(s)'
  <2>1. CASE rest = <<>>
    <3>1. label = "commit" BY <2>1 DEF label
    <3>2. ReturnDone(s)' BY <1>3, <1>4, <1>7, <1>8, <1>9 DEF ReturnDone
    <3> QED BY <1>7, <3>1, <3>2 DEF Control, ReturnAt
  <2>2. CASE rest # <<>>
    <3>1. label = "take" BY <2>2 DEF label
    <3>2. 1 \in DOMAIN rest BY <1>5, <2>2
    <3>3. \A i \in DOMAIN rest : rest[i][1] \in Line /\ rest[i][1] \notin DOMAIN mine[s]
      <4>1. \A i \in DOMAIN rest : rest[i][1] \notin DOMAIN mine[s]
        BY <1>2, <1>5 DEF Returning
      <4>2. \A i \in DOMAIN rest : rest[i] \in Item BY <1>5
      <4> QED BY <4>1, <4>2 DEF Item
    <3>4. \A i \in DOMAIN rest : rest[i][1] \notin DOMAIN mine'[s] BY <1>7, <3>3, AfterRows
    <3>5. \A i, k \in DOMAIN rest : i # k => rest[i][1] # rest[k][1]
      <4>1. SUFFICES ASSUME NEW i \in DOMAIN rest, NEW k \in DOMAIN rest, i # k
                     PROVE  rest[i][1] # rest[k][1]
        OBVIOUS
      <4>2. i + 1 # k + 1 BY <1>5, <4>1
      <4> QED BY <1>2, <1>5, <4>2 DEF Returning
    <3> HIDE DEF rest
    <3>6. Returning(s)' BY <1>6, <1>7, <1>8, <2>2, <3>1, <3>2, <3>4, <3>5 DEF Returning
    <3> QED BY <1>7, <3>1, <3>6 DEF Control, ReturnAt
  <2> QED BY <2>1, <2>2
<1>11. ASSUME calm' PROVE Alone(s)'
  <2>1. calm BY <1>7, <1>11 DEF Watched
  <2>2. \A k \in Held(s) : Away(k) + Back(s, k) + mine[s][k] = Sold[k]
    BY <2>1 DEF AfterInv, Alone
  <2>3. \A k \in Held(s)' : (Away(k) + Back(s, k) + mine[s][k] = Sold[k])'
    BY <1>7, <2>2, AfterStill
  <2>4. Tells(mine'[s][Invoice], Seen(s), Erasures)
    BY <1>1, <1>7, <1>9, <2>1, AfterRows DEF AfterInv, Alone
  <2>5. \A m \in Note : m \notin DOMAIN mine'[s] BY <1>8 DEF NoNotes
  <2>6. label \in {"take", "commit"} BY DEF label
  <2> QED BY <1>7, <2>3, <2>4, <2>5, <2>6 DEF Alone
<1> QED BY <1>7, <1>10, <1>11, AfterMove

\* processFullRefund marks the sale and leaves its total.
LEMMA AfterMarkRefunded ==
  ASSUME AfterInv, NEW s \in Session, After!MarkRefunded(s)
  PROVE  AfterInv'
<1> DEFINE row == [Sees(s, Sale) EXCEPT !.refunded = TRUE]
           new == [r \in {Sale} |-> row]
<1>1. at[s] = "refund" /\ Write(s, new, "commit", job[s])
  BY AfterRequests DEF After!MarkRefunded
<1>2. mine[s] = Unwritten BY <1>1 DEF AfterInv, Control
<1>3. row \in SaleRow /\ row.total = db[Sale].total
  <2> DEFINE old == Sees(s, Sale)
  <2>1. old = db[Sale] /\ old \in SaleRow BY <1>2 DEF AfterInv, SaleTables, Sees, Unwritten
  <2> HIDE DEF old
  <2>2. [old EXCEPT !.refunded = TRUE] \in SaleRow
        /\ [old EXCEPT !.refunded = TRUE].total = old.total
    BY <2>1 DEF SaleRow
  <2> QED BY <2>1, <2>2 DEF old
<1>4. DOMAIN new = {Sale} /\ new[Sale] = row OBVIOUS
<1> HIDE DEF row, new
<1>5. /\ Others(s) /\ Watched(s) /\ at'[s] = "commit" /\ job'[s] = job[s] /\ db' = db
      /\ DOMAIN mine'[s] = {Sale} /\ mine'[s][Sale] = row
      /\ \A t \in Session \ {s} : DOMAIN mine'[s] \cap DOMAIN mine[t] = {}
  BY <1>1, <1>2, <1>4, AfterWrite DEF Unwritten
<1>6. Held(s)' = {} BY <1>5, AfterRows DEF Held
<1>7. Written(s)' BY <1>3, <1>5, <1>6, AfterRows DEF Written, After!Row
<1>8. Control(s)' BY <1>5 DEF Control, ReturnAt, RefundDone
<1>9. Alone(s)' BY <1>5, <1>6, AfterRows DEF Alone
<1> QED BY <1>5, <1>7, <1>8, <1>9, AfterMove

\* What a note credits or debits, of the tables T.
NoteCredit(T) ==
  [n \in Note |-> IF T[n] # Absent /\ T[n].type = "credit" /\ ~T[n].voided
                  THEN T[n].amount ELSE 0]
NoteDebit(T) ==
  [n \in Note |-> IF T[n] # Absent /\ T[n].type = "debit" THEN T[n].amount ELSE 0]

\* A sum over some notes is one over all.
LEMMA NotesInAll ==
  ASSUME NEW N \in SUBSET Note, NEW f, DOMAIN f = N, \A n \in N : f[n] \in Nat,
         NEW g, \A n \in N : g[n] = f[n], \A n \in Note \ N : g[n] = 0
  PROVE  /\ After!SumFunction(f) = SumFunctionOnSet(g, Note)
         /\ SumFunctionOnSet(g, Note) \in Nat
<1>1. /\ \A n \in N : f[n] \in Int /\ g[n] = f[n]
      /\ \A n \in Note : g[n] \in Nat
  OBVIOUS
<1>2. After!SumFunction(f) = SumFunctionOnSet(f, N) BY AfterSums
<1>3. SumFunctionOnSet(f, N) = SumFunctionOnSet(g, Note) BY <1>1, AfterAssumed, SumRestrict
<1>4. SumFunctionOnSet(g, Note) \in Nat BY <1>1, AfterAssumed, SumNatural
<1> QED BY <1>2, <1>3, <1>4

\* What is credited and debited, in numbers.
LEMMA AfterNotes ==
  ASSUME NEW T, \A n \in Note : T[n] \in After!NoteRow \cup {Absent}
  PROVE  /\ After!SumFunction([n \in {m \in Note : T[m] # Absent /\ T[m].type = "credit"
                                                   /\ ~T[m].voided} |-> T[n].amount])
              = SumFunctionOnSet(NoteCredit(T), Note)
         /\ After!SumFunction([n \in {m \in Note : T[m] # Absent /\ T[m].type = "debit"}
                                 |-> T[n].amount])
              = SumFunctionOnSet(NoteDebit(T), Note)
         /\ \A n \in Note : NoteCredit(T)[n] \in Nat /\ NoteDebit(T)[n] \in Nat
         /\ SumFunctionOnSet(NoteCredit(T), Note) \in Nat
         /\ SumFunctionOnSet(NoteDebit(T), Note) \in Nat
<1> DEFINE C == {m \in Note : T[m] # Absent /\ T[m].type = "credit" /\ ~T[m].voided}
           D == {m \in Note : T[m] # Absent /\ T[m].type = "debit"}
           c == NoteCredit(T)
           d == NoteDebit(T)
           e == [n \in C |-> T[n].amount]
           f == [n \in D |-> T[n].amount]
<1>1. \A n \in Note : T[n] # Absent => T[n].amount \in Nat BY AfterAssumed DEF After!NoteRow
<1>2. /\ C \in SUBSET Note /\ DOMAIN e = C /\ \A n \in C : e[n] \in Nat /\ c[n] = e[n]
      /\ \A n \in Note \ C : c[n] = 0
  BY <1>1 DEF NoteCredit
<1>3. /\ D \in SUBSET Note /\ DOMAIN f = D /\ \A n \in D : f[n] \in Nat /\ d[n] = f[n]
      /\ \A n \in Note \ D : d[n] = 0
  BY <1>1 DEF NoteDebit
<1> HIDE DEF C, D, c, d, e, f
<1>4. /\ After!SumFunction(e) = SumFunctionOnSet(c, Note)
      /\ SumFunctionOnSet(c, Note) \in Nat
  BY <1>2, NotesInAll
<1>5. /\ After!SumFunction(f) = SumFunctionOnSet(d, Note)
      /\ SumFunctionOnSet(d, Note) \in Nat
  BY <1>3, NotesInAll
<1>6. \A n \in Note : c[n] \in Nat /\ d[n] \in Nat BY <1>2, <1>3
<1> QED BY <1>4, <1>5, <1>6 DEF C, D, c, d, e, f

\* The sums that the properties name are those.
LEMMA AfterNotesNow ==
  ASSUME AfterInv
  PROVE  /\ Credits = SumFunctionOnSet(NoteCredit(db), Note)
         /\ Debits = SumFunctionOnSet(NoteDebit(db), Note)
         /\ Credits \in Nat /\ Debits \in Nat
         /\ After!Worth(Sold) \in Nat /\ Limit \in Nat
<1>1. \A n \in Note : db[n] \in After!NoteRow \cup {Absent} BY DEF AfterInv, SaleTables
<1>2. Credits = SumFunctionOnSet(NoteCredit(db), Note) /\ Credits \in Nat
  BY <1>1, AfterNotes DEF Credits, After!SumOf, After!Active
<1>3. Debits = SumFunctionOnSet(NoteDebit(db), Note) /\ Debits \in Nat
  BY <1>1, AfterNotes DEF Debits, After!SumOf
<1>4. After!Worth(Sold) \in Nat
  <2> DEFINE f == [l \in Line |-> Sold[l] * LinePrice[l]]
  <2>1. \A l \in Line : f[l] \in Nat BY AfterAssumed
  <2>2. After!Worth(Sold) = SumFunctionOnSet(f, Line) BY AfterSums DEF After!Worth
  <2> HIDE DEF f
  <2> QED BY <2>1, <2>2, AfterAssumed, SumNatural
<1> QED BY <1>2, <1>3, <1>4, AfterAssumed DEF Limit

\* A credit is tested against what the invoice was when the request began.
LEMMA AfterCheckCredits ==
  ASSUME AfterInv, NEW s \in Session, After!CheckCredits(s)
  PROVE  AfterInv'
<1> DEFINE debits == After!SumOf(After!Active("debit"))
<1>1. at[s] = "credits" /\ mine[s] = Unwritten BY DEF After!CheckCredits, AfterInv, Control
<1>2. /\ job[s].note \in After!NoteRow /\ ~job[s].note.voided /\ job[s].note.type = "credit"
      /\ job[s].note.amount \in Nat
  BY <1>1, AfterAssumed DEF AfterInv, Control, After!NoteRow
<1>3. CASE Rollback(s) BY <1>1, <1>3, AfterRollback
<1>4. CASE /\ Look(s, "note", job[s])
           /\ ~(job[s].note.amount > job[s].ceiling - Credits + debits + Slack)
  <2>1. /\ Others(s) /\ Watched(s) /\ at'[s] = "note" /\ job'[s] = job[s]
        /\ mine' = mine /\ db' = db /\ Written(s)'
        /\ \A t \in Session \ {s} : DOMAIN mine'[s] \cap DOMAIN mine[t] = {}
    BY <1>1, <1>4, AfterLook
  <2>2. Control(s)' BY <1>1, <1>2, <2>1 DEF Control, ReturnAt
  <2>3. ASSUME calm' PROVE Alone(s)'
    <3>1. calm BY <2>1, <2>3 DEF Watched
    <3>2. job[s].ceiling \in Int /\ job[s].ceiling <= After!Worth(Sold)
      BY <1>1, <3>1 DEF AfterInv, Alone
    <3>3. debits \in Int /\ debits <= Debits
      <4> DEFINE D == {m \in Note : db[m] # Absent /\ db[m].type = "debit" /\ ~db[m].voided}
                 g == [n \in Note |-> IF n \in D THEN db[n].amount ELSE 0]
                 f == [n \in D |-> db[n].amount]
                 h == NoteDebit(db)
      <4>1. \A n \in Note : db[n] \in After!NoteRow \cup {Absent} BY DEF AfterInv, SaleTables
      <4>2. \A n \in Note : db[n] # Absent => db[n].amount \in Nat
        BY <4>1, AfterAssumed DEF After!NoteRow
      <4>3. debits = After!SumFunction(f) BY DEF After!SumOf, After!Active
      <4>4. /\ D \in SUBSET Note /\ DOMAIN f = D /\ \A n \in D : f[n] \in Nat /\ g[n] = f[n]
            /\ \A n \in Note \ D : g[n] = 0
        BY <4>2
      <4>5. \A n \in Note : g[n] \in Int /\ h[n] \in Int /\ g[n] <= h[n]
        <5>1. \A n \in Note : h[n] \in Nat BY <4>1, AfterNotes
        <5>2. \A n \in D : h[n] = g[n] BY DEF NoteDebit
        <5> HIDE DEF D, f, g, h
        <5> QED BY <4>4, <5>1, <5>2
      <4> HIDE DEF D, f, g, debits
      <4>7. debits = SumFunctionOnSet(g, Note) BY <4>3, <4>4, NotesInAll
      <4>6. Debits = SumFunctionOnSet(h, Note) BY AfterNotesNow
      <4> HIDE DEF g, h, D, debits
      <4> QED BY <4>5, <4>6, <4>7, AfterAssumed, SumMonotone, SumType
    <3>4. Credits \in Nat /\ Debits \in Nat /\ After!Worth(Sold) \in Nat /\ Slack \in Nat
      BY AfterNotesNow, AfterAssumed
    <3> HIDE DEF debits
    <3>5. Credits + job[s].note.amount <= Limit
      BY <1>2, <1>4, <3>2, <3>3, <3>4 DEF Limit
    <3>6. Credits' = Credits /\ Limit' = Limit BY <2>1, AfterStill
    <3> QED BY <1>1, <2>1, <3>5, <3>6 DEF Alone, Held, Unwritten
  <2> QED BY <2>1, <2>2, <2>3, AfterMove
<1>5. Rollback(s) \/ (/\ Look(s, "note", job[s])
                      /\ ~(job[s].note.amount > job[s].ceiling - Credits + debits + Slack))
  BY AfterRequests DEF After!CheckCredits, Credits
<1> QED BY <1>3, <1>4, <1>5

\* A note is a new row.
LEMMA AfterInsertNote ==
  ASSUME AfterInv, NEW s \in Session, After!InsertNote(s)
  PROVE  AfterInv'
<1> DEFINE note == job[s].note
           label == IF note.damaged THEN "supplier" ELSE "commit"
<1>1. at[s] = "note" /\ mine[s] = Unwritten BY DEF After!InsertNote, AfterInv, Control
<1>2. PICK n \in Note :
        /\ db[n] = Absent
        /\ Write(s, [r \in {n} |-> note], label,
                 [note |-> n, dollars |-> note.amount \div DollarRate, held |-> {}])
  BY AfterRequests DEF After!InsertNote
<1> DEFINE new == [r \in {n} |-> note]
           j == [note |-> n, dollars |-> note.amount \div DollarRate, held |-> {}]
<1>3. DOMAIN new = {n} /\ new[n] = note OBVIOUS
<1>4. j.note = n /\ j.dollars = note.amount \div DollarRate OBVIOUS
<1>5. note \in After!NoteRow /\ ~note.voided /\ note.damaged \in BOOLEAN
  BY <1>1 DEF AfterInv, Control, After!NoteRow
<1>6. label \in {"supplier", "commit"} /\ (label = "supplier" <=> note.damaged) BY <1>5
<1> HIDE DEF new, j, label
<1>7. /\ Others(s) /\ Watched(s) /\ at'[s] = label /\ job'[s] = j /\ db' = db
      /\ DOMAIN mine'[s] = {n} /\ mine'[s][n] = note
      /\ \A t \in Session \ {s} : DOMAIN mine'[s] \cap DOMAIN mine[t] = {}
  <2>1. Write(s, new, label, j) BY <1>2 DEF new, j, label
  <2> QED BY <1>1, <1>3, <2>1, AfterWrite DEF Unwritten
<1> HIDE DEF note
<1>8. /\ n \notin Line /\ n # Sale /\ n # Invoice /\ n \in After!Row
      /\ \A l \in Line, t \in Session : After!Returned(l, t) # n
      /\ \A m \in Note : After!CreditOf(m) # n
      /\ \A l \in Line : After!Erased(l) # n
  BY AfterRows DEF After!Row
<1>9. Held(s)' = {} BY <1>7, <1>8 DEF Held
<1>10. Written(s)' BY <1>7, <1>8, <1>9 DEF Written
<1>11. NoteWritten(s, n)' BY <1>2, <1>5, <1>7 DEF NoteWritten
<1>12. Control(s)'
  <2>1. CASE label = "supplier"
    BY <1>4, <1>6, <1>7, <1>8, <1>11, <2>1 DEF Control, ReturnAt
  <2>2. CASE label = "commit"
    <3>1. NoteDone(s)' BY <1>6, <1>7, <1>8, <1>11, <2>2 DEF NoteDone
    <3> QED BY <1>7, <2>2, <3>1 DEF Control, ReturnAt
  <2> QED BY <1>6, <2>1, <2>2
<1>13. ASSUME calm' PROVE Alone(s)'
  <2>1. calm BY <1>7, <1>13 DEF Watched
  <2>2. note.type = "credit" => Credits + note.amount <= Limit
    BY <1>1, <2>1 DEF AfterInv, Alone, note
  <2>3. Credits' = Credits /\ Limit' = Limit BY <1>7, AfterStill
  <2> QED BY <1>6, <1>7, <1>8, <1>9, <2>2, <2>3 DEF Alone
<1> QED BY <1>7, <1>10, <1>12, <1>13, AfterMove

\* The credit that a note leaves with a supplier.
LEMMA AfterInsertCredit ==
  ASSUME AfterInv, NEW s \in Session, After!InsertCredit(s)
  PROVE  AfterInv'
<1>0. at[s] = "supplier" BY DEF After!InsertCredit
<1>A. PICK n \in Note : n = job[s].note BY <1>0 DEF AfterInv, Control, NoteWritten
<1> DEFINE c == After!CreditOf(n)
           new == [r \in {c} |-> job[s].dollars]
<1>1. at[s] = "supplier" /\ Write(s, new, "commit", job[s])
  BY <1>A, AfterRequests DEF After!InsertCredit
<1>2. /\ NoteWritten(s, n) /\ mine[s][n].damaged /\ c \notin DOMAIN mine[s]
      /\ job[s].dollars = mine[s][n].amount \div DollarRate
  BY <1>1, <1>A DEF AfterInv, Control
<1>3. n \in Note /\ DOMAIN mine[s] = {n} BY <1>2 DEF NoteWritten
<1>4. DOMAIN new = {c} /\ new[c] = job[s].dollars OBVIOUS
<1> HIDE DEF new, c
<1>5. /\ Others(s) /\ Watched(s) /\ at'[s] = "commit" /\ job'[s] = job[s] /\ db' = db
      /\ DOMAIN mine'[s] = {n, c}
      /\ \A r \in {n, c} : mine'[s][r] = IF r \in {c} THEN new[r] ELSE mine[s][r]
      /\ \A t \in Session \ {s} : DOMAIN mine'[s] \cap DOMAIN mine[t] = {}
  <2>1. {c} \cup {n} = {n, c} OBVIOUS
  <2> QED BY <1>1, <1>3, <1>4, <2>1, AfterWrite
<1>6. /\ n \notin Line \cup {Sale, Invoice} /\ c \notin Line \cup Note \cup {Sale, Invoice}
      /\ n \in After!Row /\ c \in After!Row
      /\ \A l \in Line, t \in Session : After!Returned(l, t) \notin {n, c}
      /\ \A l \in Line : After!Erased(l) \notin {n, c}
  BY <1>3, AfterRows DEF After!Row, c
<1>7. mine'[s][n] = mine[s][n] /\ mine'[s][c] = job[s].dollars BY <1>3, <1>4, <1>5, <1>6
<1>8. Held(s)' = {} BY <1>5, <1>6 DEF Held
<1>9. Written(s)' BY <1>5, <1>6, <1>8 DEF Written
<1>10. NoteWritten(s, n)' BY <1>2, <1>3, <1>5, <1>7 DEF NoteWritten, c
<1>11. NoteDone(s)' BY <1>2, <1>3, <1>5, <1>7, <1>10 DEF NoteDone, c
<1>12. Control(s)' BY <1>5, <1>11 DEF Control, ReturnAt
<1>13. ASSUME calm' PROVE Alone(s)'
  <2>1. calm BY <1>5, <1>13 DEF Watched
  <2>2. mine[s][n].type = "credit" => Credits + mine[s][n].amount <= Limit
    BY <1>2, <1>3, <2>1 DEF AfterInv, Alone, NoteWritten
  <2>3. Credits' = Credits /\ Limit' = Limit BY <1>5, AfterStill
  <2> QED BY <1>5, <1>6, <1>7, <1>8, <2>2, <2>3 DEF Alone
<1> QED BY <1>5, <1>9, <1>12, <1>13, AfterMove

\* A note is voided that is there.
LEMMA AfterMarkVoided ==
  ASSUME AfterInv, NEW s \in Session, After!MarkVoided(s)
  PROVE  AfterInv'
<1> DEFINE n == job[s].note
           row == [Sees(s, n) EXCEPT !.voided = TRUE]
           new == [r \in {n} |-> row]
<1>1. at[s] = "void" /\ Write(s, new, "commit", job[s])
  BY AfterRequests DEF After!MarkVoided
<1>2. mine[s] = Unwritten /\ n \in Note /\ db[n] \in After!NoteRow
  BY <1>1 DEF AfterInv, Control
<1>3. row = [db[n] EXCEPT !.voided = TRUE] BY <1>2 DEF Sees, Unwritten
<1>4. DOMAIN new = {n} /\ new[n] = row OBVIOUS
<1> HIDE DEF new, row, n
<1>5. /\ Others(s) /\ Watched(s) /\ at'[s] = "commit" /\ job'[s] = job[s] /\ db' = db
      /\ DOMAIN mine'[s] = {n} /\ mine'[s][n] = row
      /\ \A t \in Session \ {s} : DOMAIN mine'[s] \cap DOMAIN mine[t] = {}
  BY <1>1, <1>2, <1>4, AfterWrite DEF Unwritten
<1>6. /\ n \notin Line \cup {Sale, Invoice} /\ n \in After!Row
      /\ \A l \in Line, t \in Session : After!Returned(l, t) # n
      /\ \A l \in Line : After!Erased(l) # n
  BY <1>2, AfterRows DEF After!Row
<1>7. Held(s)' = {} BY <1>5, <1>6 DEF Held
<1>8. Written(s)' BY <1>5, <1>6, <1>7 DEF Written
<1>9. VoidDone(s)' BY <1>2, <1>3, <1>5 DEF VoidDone
<1>10. Control(s)' BY <1>5, <1>9 DEF Control, ReturnAt
<1>11. db[n] # Absent BY <1>2, AfterAssumed
<1>12. Alone(s)' BY <1>5, <1>6, <1>7, <1>11 DEF Alone
<1> QED BY <1>5, <1>8, <1>10, <1>12, AfterMove

\* What is about to be committed: a return, with the lock of the invoice, or what leaves the
\* lines alone.
LEMMA AfterDone ==
  ASSUME AfterInv, NEW s \in Session, at[s] = "commit"
  PROVE  \/ ReturnDone(s)
         \/ /\ Held(s) = {} /\ Invoice \notin DOMAIN mine[s]
            /\ RefundDone(s) \/ NoteDone(s) \/ VoidDone(s)
<1>1. ReturnDone(s) \/ RefundDone(s) \/ NoteDone(s) \/ VoidDone(s) BY DEF AfterInv, Control
<1>2. CASE RefundDone(s) BY <1>2, AfterRows DEF RefundDone, Held
<1>3. CASE NoteDone(s)
  <2>1. PICK n \in Note : DOMAIN mine[s] \subseteq {n, After!CreditOf(n)}
    BY <1>3 DEF NoteDone, NoteWritten
  <2>2. {n, After!CreditOf(n)} \cap (Line \cup {Invoice}) = {} BY AfterRows
  <2> QED BY <1>3, <2>1, <2>2 DEF Held
<1>4. CASE VoidDone(s)
  <2>1. PICK n \in Note : DOMAIN mine[s] = {n} BY <1>4 DEF VoidDone
  <2> QED BY <1>4, <2>1, AfterRows DEF Held
<1> QED BY <1>1, <1>2, <1>3, <1>4

\* The pieces that a commit adds to what was returned are those of its lines.
LEMMA ReturnedGrows ==
  ASSUME AfterInv, NEW s \in Session, Overwritten(mine[s]), NEW l \in Line
  PROVE  /\ After!HasReturned(l) \in Nat
         /\ l \in Held(s) => /\ Back(s, l) \in Nat
                            /\ After!HasReturned(l)' = After!HasReturned(l) + Back(s, l)
         /\ l \notin Held(s) => After!HasReturned(l)' = After!HasReturned(l)
<1> DEFINE f == [t \in Session |-> db[After!Returned(l, t)]]
           g == [t \in Session |-> db'[After!Returned(l, t)]]
<1>1. \A t \in Session : f[t] \in Nat BY DEF AfterInv, SaleTables
<1>2. \A t \in Session : After!Returned(l, t) \in DOMAIN db
  BY DEF AfterInv, SaleTables, After!Row
<1>3. \A t \in Session \ {s} : g[t] = f[t] BY <1>2 DEF AfterInv, Written, Overwritten
<1>4. After!HasReturned(l) = SumFunctionOnSet(f, Session)
      /\ After!HasReturned(l)' = SumFunctionOnSet(g, Session)
  BY AfterSums DEF After!HasReturned
<1>5. CASE l \in Held(s)
  <2>1. /\ After!Returned(l, s) \in DOMAIN mine[s] /\ mine[s][After!Returned(l, s)] \in Nat
        /\ Back(s, l) >= 0
    BY <1>5 DEF AfterInv, Written
  <2>2. g[s] = mine[s][After!Returned(l, s)] BY <1>2, <2>1 DEF Overwritten
  <2>3. g[s] \in Nat /\ Back(s, l) = g[s] - f[s] BY <2>1, <2>2 DEF Back
  <2>4. (\A t \in Session : f[t] \in Int /\ g[t] \in Int) /\ Back(s, l) \in Nat
    <3> HIDE DEF f, g
    <3>1. \A t \in Session : g[t] \in Nat BY <1>1, <1>3, <2>3
    <3>2. f[s] \in Nat /\ g[s] \in Nat BY <1>1, <2>3
    <3> QED BY <1>1, <2>1, <2>3, <3>1, <3>2
  <2> HIDE DEF f, g
  <2>5. SumFunctionOnSet(g, Session) = SumFunctionOnSet(f, Session) + (g[s] - f[s])
    BY <1>3, <2>4, AfterAssumed, SumChanges
  <2>6. SumFunctionOnSet(f, Session) \in Nat BY <1>1, AfterAssumed, SumNatural
  <2> QED BY <1>4, <1>5, <2>3, <2>4, <2>5, <2>6
<1>6. CASE l \notin Held(s)
  <2>1. g[s] = f[s] BY <1>2, <1>6 DEF AfterInv, Written, Overwritten
  <2> HIDE DEF f, g
  <2>2. \A t \in Session : f[t] \in Int /\ f[t] = g[t] BY <1>1, <1>3, <2>1
  <2>3. SumFunctionOnSet(f, Session) = SumFunctionOnSet(g, Session)
    BY <2>2, AfterAssumed, SumSame
  <2>4. SumFunctionOnSet(f, Session) \in Nat BY <1>1, AfterAssumed, SumNatural
  <2> QED BY <1>4, <1>6, <2>3, <2>4
<1> QED BY <1>5, <1>6

\* And a commit deletes no line outright.
LEMMA AfterReturned ==
  ASSUME AfterInv, NEW s \in Session, Overwritten(mine[s]), NEW l \in Line
  PROVE  /\ Away(l) \in Nat
         /\ l \in Held(s) => Back(s, l) \in Nat /\ Away(l)' = Away(l) + Back(s, l)
         /\ l \notin Held(s) => Away(l)' = Away(l)
<1>1. After!Erased(l) \in DOMAIN db /\ After!Erased(l) \notin DOMAIN mine[s]
      /\ db[After!Erased(l)] \in Nat
  BY DEF AfterInv, SaleTables, Written, After!Row
<1>2. db'[After!Erased(l)] = db[After!Erased(l)] BY <1>1 DEF Overwritten
<1> QED BY <1>1, <1>2, ReturnedGrows DEF Away

\* The lines that a commit leaves are those its request saw.
LEMMA AfterLines ==
  ASSUME AfterInv, NEW s \in Session, Overwritten(mine[s])
  PROVE  /\ DOMAIN db' = After!Row
         /\ \A r \in After!Row : db'[r] = IF r \in DOMAIN mine[s] THEN mine[s][r] ELSE db[r]
         /\ Lines' = Seen(s) /\ Erasures' = Erasures
         /\ Held(s) = {} => Lines' = Lines
<1>1. DOMAIN mine[s] \subseteq After!Row /\ DOMAIN db = After!Row
  BY DEF AfterInv, Written, SaleTables
<1>2. /\ DOMAIN db' = After!Row
      /\ \A r \in After!Row : db'[r] = IF r \in DOMAIN mine[s] THEN mine[s][r] ELSE db[r]
  BY <1>1 DEF Overwritten
<1>3. \A l \in Line : l \in After!Row /\ db'[l] = Sees(s, l) BY <1>2 DEF After!Row, Sees
<1>4. Lines' = Seen(s) BY <1>3 DEF Lines, Seen
<1>5. ASSUME Held(s) = {} PROVE Lines' = Lines BY <1>2, <1>3, <1>5 DEF Lines, Held, Sees
<1>6. \A l \in Line : db'[After!Erased(l)] = db[After!Erased(l)]
  BY <1>2 DEF After!Row, AfterInv, Written
<1>7. Erasures' = Erasures BY <1>6 DEF Erasures
<1> QED BY <1>2, <1>4, <1>5, <1>7

\* A commit leaves the notes, adds one, or voids one; a credit comes with its note.
LEMMA AfterNotesWritten ==
  ASSUME AfterInv, NEW s \in Session, at[s] = "commit", Overwritten(mine[s])
  PROVE  /\ After!CreditBacked'
         /\ \/ \A n \in Note : db'[n] = db[n]
            \/ \E n \in Note :
                 /\ n \in DOMAIN mine[s] /\ db[n] = Absent /\ db'[n] = mine[s][n]
                 /\ mine[s][n] \in After!NoteRow /\ ~mine[s][n].voided
                 /\ \A m \in Note \ {n} : db'[m] = db[m]
            \/ \E n \in Note :
                 /\ db[n] \in After!NoteRow /\ db'[n] = [db[n] EXCEPT !.voided = TRUE]
                 /\ \A m \in Note \ {n} : db'[m] = db[m]
<1>1. \A r \in After!Row : db'[r] = IF r \in DOMAIN mine[s] THEN mine[s][r] ELSE db[r]
  BY AfterLines
<1>2. \A n \in Note : n \in After!Row /\ After!CreditOf(n) \in After!Row BY DEF After!Row
<1>3. \A n \in Note : db[After!CreditOf(n)] =
        IF db[n] # Absent /\ db[n].damaged THEN db[n].amount \div DollarRate ELSE Absent
  BY DEF AfterInv, SaleTables, After!CreditBacked
<1>4. CASE NoNotes(s)
  <2>1. \A n \in Note : db'[n] = db[n] /\ db'[After!CreditOf(n)] = db[After!CreditOf(n)]
    BY <1>1, <1>2, <1>4 DEF NoNotes
  <2>2. After!CreditBacked' BY <1>3, <2>1 DEF After!CreditBacked
  <2> QED BY <2>1, <2>2
<1>5. CASE NoteDone(s)
  <2>1. PICK n \in Note :
          /\ NoteWritten(s, n)
          /\ After!CreditOf(n) \in DOMAIN mine[s] <=> mine[s][n].damaged
          /\ mine[s][n].damaged =>
               mine[s][After!CreditOf(n)] = mine[s][n].amount \div DollarRate
    BY <1>5 DEF NoteDone
  <2>2. /\ n \in DOMAIN mine[s] /\ DOMAIN mine[s] \subseteq {n, After!CreditOf(n)}
        /\ db[n] = Absent /\ mine[s][n] \in After!NoteRow /\ ~mine[s][n].voided
    BY <2>1 DEF NoteWritten
  <2>3. db'[n] = mine[s][n] /\ db'[n] # Absent BY <1>1, <1>2, <2>2, AfterAssumed
  <2>4. \A m \in Note \ {n} : db'[m] = db[m] /\ db'[After!CreditOf(m)] = db[After!CreditOf(m)]
    BY <1>1, <1>2, <2>2, AfterRows
  <2>5. db'[After!CreditOf(n)] =
          IF db'[n].damaged THEN db'[n].amount \div DollarRate ELSE Absent
    <3>1. CASE mine[s][n].damaged BY <1>1, <1>2, <2>1, <2>3, <3>1
    <3>2. CASE ~mine[s][n].damaged
      <4>1. db'[After!CreditOf(n)] = db[After!CreditOf(n)] BY <1>1, <1>2, <2>1, <3>2
      <4> QED BY <1>3, <2>2, <2>3, <3>2, <4>1
    <3> QED BY <3>1, <3>2
  <2>6. After!CreditBacked' BY <1>3, <2>3, <2>4, <2>5 DEF After!CreditBacked
  <2> QED BY <2>2, <2>3, <2>4, <2>6
<1>6. CASE VoidDone(s)
  <2>1. PICK n \in Note : /\ DOMAIN mine[s] = {n} /\ db[n] \in After!NoteRow
                          /\ mine[s][n] = [db[n] EXCEPT !.voided = TRUE]
    BY <1>6 DEF VoidDone
  <2>2. db'[n] = [db[n] EXCEPT !.voided = TRUE] BY <1>1, <1>2, <2>1
  <2>3. /\ \A m \in Note \ {n} : db'[m] = db[m]
        /\ \A m \in Note : db'[After!CreditOf(m)] = db[After!CreditOf(m)]
    BY <1>1, <1>2, <2>1, AfterRows
  <2>4. /\ db'[n] # Absent /\ db'[n].damaged = db[n].damaged /\ db'[n].amount = db[n].amount
        /\ db[n] # Absent
    <3> DEFINE row == db[n]
    <3>1. row \in After!NoteRow BY <2>1
    <3> HIDE DEF row
    <3>2. /\ [row EXCEPT !.voided = TRUE] \in After!NoteRow
          /\ [row EXCEPT !.voided = TRUE].damaged = row.damaged
          /\ [row EXCEPT !.voided = TRUE].amount = row.amount
      BY <3>1 DEF After!NoteRow
    <3> QED BY <2>1, <2>2, <3>2, AfterAssumed DEF row
  <2>5. After!CreditBacked' BY <1>3, <2>3, <2>4 DEF After!CreditBacked
  <2> QED BY <2>1, <2>2, <2>3, <2>5
<1>7. RefundDone(s) => NoNotes(s) BY AfterRows DEF RefundDone, NoNotes
<1> QED BY <1>4, <1>5, <1>6, <1>7, AfterDone DEF ReturnDone

\* What the sums become when notes change.
LEMMA NoteChanges ==
  ASSUME NEW T, NEW U, \A n \in Note : T[n] \in After!NoteRow \cup {Absent},
         \A n \in Note : U[n] \in After!NoteRow \cup {Absent},
         NEW n \in Note, \A m \in Note \ {n} : U[m] = T[m]
  PROVE  /\ SumFunctionOnSet(NoteCredit(U), Note) =
              SumFunctionOnSet(NoteCredit(T), Note) + (NoteCredit(U)[n] - NoteCredit(T)[n])
         /\ SumFunctionOnSet(NoteDebit(U), Note) =
              SumFunctionOnSet(NoteDebit(T), Note) + (NoteDebit(U)[n] - NoteDebit(T)[n])
<1> DEFINE c == NoteCredit(T)
           d == NoteDebit(T)
           e == NoteCredit(U)
           f == NoteDebit(U)
<1>1. \A m \in Note \ {n} : e[m] = c[m] /\ f[m] = d[m] BY DEF NoteCredit, NoteDebit
<1>6. \A m \in Note : c[m] \in Nat /\ d[m] \in Nat BY AfterNotes
<1>7. \A m \in Note : e[m] \in Nat /\ f[m] \in Nat BY AfterNotes
<1> HIDE DEF c, d, e, f
<1>2. \A m \in Note : c[m] \in Int /\ d[m] \in Int BY <1>6
<1>3. \A m \in Note : e[m] \in Int /\ f[m] \in Int BY <1>7
<1>4. SumFunctionOnSet(e, Note) = SumFunctionOnSet(c, Note) + (e[n] - c[n])
  BY <1>1, <1>2, <1>3, AfterAssumed, SumChanges
<1>5. SumFunctionOnSet(f, Note) = SumFunctionOnSet(d, Note) + (f[n] - d[n])
  BY <1>1, <1>2, <1>3, AfterAssumed, SumChanges
<1> QED BY <1>4, <1>5 DEF c, d, e, f

\* What notes credit fits when one was tested, alone, before it was written.
LEMMA AfterCredits ==
  ASSUME AfterInv, NEW s \in Session, at[s] = "commit", Overwritten(mine[s]), calm
  PROVE  Credits' <= Limit'
<1>1. \A n \in Note : db[n] \in After!NoteRow \cup {Absent} BY DEF AfterInv, SaleTables
<1>2. CASE \A n \in Note : db'[n] = db[n]
  <2>1. NoteCredit(db') = NoteCredit(db) /\ NoteDebit(db') = NoteDebit(db)
    BY <1>2 DEF NoteCredit, NoteDebit
  <2>2. \A n \in Note : db'[n] \in After!NoteRow \cup {Absent} BY <1>1, <1>2
  <2>3. Credits' = SumFunctionOnSet(NoteCredit(db'), Note)
        /\ Debits' = SumFunctionOnSet(NoteDebit(db'), Note)
    BY <2>2, AfterNotes DEF Credits, Debits, After!SumOf, After!Active
  <2>4. Credits' = Credits /\ Debits' = Debits BY <2>1, <2>3, AfterNotesNow
  <2>5. Credits <= Limit BY DEF AfterInv, CalmTables
  <2> QED BY <2>4, <2>5 DEF Limit
<1>3. ASSUME NEW n \in Note, \A m \in Note \ {n} : db'[m] = db[m], db'[n] \in After!NoteRow,
             \/ /\ n \in DOMAIN mine[s] /\ db[n] = Absent /\ db'[n] = mine[s][n]
                /\ ~mine[s][n].voided
             \/ /\ db[n] \in After!NoteRow /\ db'[n] = [db[n] EXCEPT !.voided = TRUE]
      PROVE  Credits' <= Limit'
  <2> DEFINE c == NoteCredit(db)[n]
             d == NoteDebit(db)[n]
             e == NoteCredit(db')[n]
             f == NoteDebit(db')[n]
  <2>1. \A m \in Note : db'[m] \in After!NoteRow \cup {Absent} BY <1>1, <1>3
  <2>2. Credits' = SumFunctionOnSet(NoteCredit(db'), Note)
        /\ Debits' = SumFunctionOnSet(NoteDebit(db'), Note)
    BY <2>1, AfterNotes DEF Credits, Debits, After!SumOf, After!Active
  <2>3. Credits' = Credits + (e - c) /\ Debits' = Debits + (f - d)
    BY <1>1, <1>3, <2>1, <2>2, AfterNotesNow, NoteChanges
  <2>4. c \in Nat /\ d \in Nat /\ e \in Nat /\ f \in Nat BY <1>1, <2>1, AfterNotes
  <2>5. db'[n] # Absent /\ db'[n].type \in {"credit", "debit"}
    BY <1>3, AfterAssumed DEF After!NoteRow
  <2>6. CASE /\ n \in DOMAIN mine[s] /\ db[n] = Absent /\ db'[n] = mine[s][n]
             /\ ~mine[s][n].voided
    <3>1. c = 0 /\ d = 0 BY <2>6 DEF NoteCredit, NoteDebit
    <3>2. CASE db'[n].type = "credit"
      <4>1. e = mine[s][n].amount /\ f = 0 BY <2>5, <2>6, <3>2 DEF NoteCredit, NoteDebit
      <4>2. Credits + mine[s][n].amount <= Limit BY <2>6, <3>2 DEF AfterInv, Alone
      <4>3. Debits' = Debits /\ Credits' = Credits + mine[s][n].amount
        BY <2>3, <2>4, <3>1, <4>1, AfterNotesNow
      <4> QED BY <4>2, <4>3 DEF Limit
    <3>3. CASE db'[n].type = "debit"
      <4>1. e = 0 BY <3>3 DEF NoteCredit
      <4>2. Credits <= Limit BY DEF AfterInv, CalmTables
      <4> HIDE DEF c, d, e, f
      <4>3. Credits' = Credits /\ Debits' = Debits + f /\ Debits \in Nat /\ Credits \in Nat
        BY <2>3, <2>4, <3>1, <4>1, AfterNotesNow
      <4>4. After!Worth(Sold) \in Nat /\ Slack \in Nat BY AfterNotesNow, AfterAssumed
      <4> QED BY <2>4, <4>2, <4>3, <4>4 DEF Limit
    <3> QED BY <2>5, <3>2, <3>3
  <2>7. CASE db[n] \in After!NoteRow /\ db'[n] = [db[n] EXCEPT !.voided = TRUE]
    <3> DEFINE row == db[n]
    <3>1. row \in After!NoteRow BY <2>7
    <3> HIDE DEF row
    <3>2. /\ [row EXCEPT !.voided = TRUE].voided = TRUE
          /\ [row EXCEPT !.voided = TRUE].type = row.type
          /\ [row EXCEPT !.voided = TRUE].amount = row.amount
      BY <3>1 DEF After!NoteRow
    <3>3. db'[n].voided = TRUE /\ db'[n].type = db[n].type /\ db'[n].amount = db[n].amount
          /\ db[n] # Absent
      BY <2>7, <3>2, AfterAssumed DEF row
    <3>4. e = 0 /\ f = d BY <2>5, <3>3 DEF NoteCredit, NoteDebit
    <3>5. Credits <= Limit BY DEF AfterInv, CalmTables
    <3> HIDE DEF c, d, e, f
    <3>6. Debits' = Debits BY <2>3, <2>4, <3>4, AfterNotesNow
    <3>7. Credits' <= Credits /\ Credits' \in Int /\ Credits \in Int /\ Limit \in Int
      BY <2>3, <2>4, <3>4, AfterNotesNow
    <3>8. Limit' = Limit BY <3>6 DEF Limit
    <3> QED BY <3>5, <3>7, <3>8
  <2> QED BY <1>3, <2>6, <2>7
<1>4. ASSUME NEW n \in Note, db[n] \in After!NoteRow
      PROVE  [db[n] EXCEPT !.voided = TRUE] \in After!NoteRow
  <2> DEFINE row == db[n]
  <2>1. row \in After!NoteRow BY <1>4
  <2> HIDE DEF row
  <2>2. [row EXCEPT !.voided = TRUE] \in After!NoteRow BY <2>1 DEF After!NoteRow
  <2> QED BY <2>2 DEF row
<1> QED BY <1>2, <1>3, <1>4, AfterNotesWritten

\* A commit does not meet what another request has read or written.
LEMMA AfterOthers ==
  ASSUME AfterInv, NEW s \in Session, at[s] = "commit", Overwritten(mine[s]),
         NEW t \in Session, t # s,
         mine'[t] = mine[t], at'[t] = at[t], job'[t] = job[t]
  PROVE  Written(t)' /\ Control(t)'
<1>1. Written(t) /\ Control(t) /\ DOMAIN mine[s] \cap DOMAIN mine[t] = {}
  BY DEF AfterInv, WritesApart
<1>2. \A r \in After!Row : db'[r] = IF r \in DOMAIN mine[s] THEN mine[s][r] ELSE db[r]
  BY AfterLines
<1>3. DOMAIN mine[t] \subseteq After!Row BY <1>1 DEF Written
<1>4. \A r \in DOMAIN mine[t] : db'[r] = db[r] BY <1>1, <1>2, <1>3
<1>5. ASSUME NEW l \in Held(t)
      PROVE  Away(l)' = Away(l) /\ Back(t, l)' = Back(t, l)
  <2>1. l \in Line /\ l \in DOMAIN mine[t] /\ After!Returned(l, t) \in DOMAIN mine[t]
    BY <1>1 DEF Held, Written
  <2>2. l \notin Held(s) BY <1>1, <2>1 DEF Held
  <2>3. Away(l)' = Away(l) BY <2>1, <2>2, AfterReturned
  <2>4. Back(t, l)' = Back(t, l) BY <1>4, <2>1 DEF Back
  <2> QED BY <2>3, <2>4
<1>6. Written(t)'
  <2>1. Held(t)' = Held(t) BY DEF Held
  <2>2. \A l \in Held(t)' :
          (/\ mine[t][l] \in 0 .. Sold[l]
           /\ After!Returned(l, t) \in DOMAIN mine[t]
           /\ mine[t][After!Returned(l, t)] \in Nat
           /\ Back(t, l) >= 0
           /\ Away(l) + Back(t, l) + mine[t][l] >= Sold[l])'
    BY <1>1, <1>5, <2>1 DEF Written
  <2>3. \A l \in Line, u \in Session :
          After!Returned(l, u) \in DOMAIN mine'[t] => u = t /\ l \in Held(t)'
    BY <1>1, <2>1 DEF Written
  <2>4. Sale \in DOMAIN mine'[t] =>
          /\ mine'[t][Sale] \in SaleRow
          /\ Held(t)' = {} => mine'[t][Sale].total = db'[Sale].total
    BY <1>1, <1>4, <2>1 DEF Written
  <2> QED BY <1>1, <1>3, <2>1, <2>2, <2>3, <2>4 DEF Written
<1>7. ASSUME Invoice \in DOMAIN mine[t] PROVE Seen(t)' = Seen(t) /\ Erasures' = Erasures
  <2>1. Held(s) = {} BY <1>1, <1>7, AfterDone DEF ReturnDone
  <2>2. \A l \in Line : db'[l] = db[l] BY <1>2, <2>1 DEF Held, After!Row
  <2> QED BY <2>2, AfterLines DEF Seen, Sees
<1>8. ASSUME at[t] \in ReturnAt PROVE Returning(t)'
  <2>1. Returning(t) /\ job[t].items[1][1] \in Line /\ job[t] \in ReturnJob
    BY <1>8, AfterItem
  <2>0. PICK l \in Line : l = job[t].items[1][1] BY <2>1
  <2>2. at[t] = "line" =>
          /\ l \in job[t].held /\ job[t].left \in job[t].items[1][2] .. Sold[l]
          /\ Away(l)' + job[t].left >= Sold[l]
    <3>1. SUFFICES ASSUME at[t] = "line"
                   PROVE  /\ l \in job[t].held
                          /\ job[t].left \in job[t].items[1][2] .. Sold[l]
                          /\ Away(l)' + job[t].left >= Sold[l]
      OBVIOUS
    <3>2. /\ l \in job[t].held /\ job[t].left \in job[t].items[1][2] .. Sold[l]
          /\ Away(l) + job[t].left >= Sold[l]
      BY <2>0, <2>1, <3>1 DEF Returning
    <3>3. l \in Line /\ job[t].left \in Nat /\ Sold[l] \in Nat
      BY <2>1, AfterAssumed DEF ReturnJob
    <3>4. /\ Away(l) \in Nat
          /\ l \in Held(s) => /\ Back(s, l) \in Nat
                             /\ Away(l)' = Away(l) + Back(s, l)
          /\ l \notin Held(s) => Away(l)' = Away(l)
      BY <3>3, AfterReturned
    <3>5. Away(l)' + job[t].left >= Sold[l]
      BY <3>2, <3>3, <3>4
    <3> QED BY <3>2, <3>5
  <2>3. at[t] = "sale" => Tells(job[t].sum, Seen(t)', Erasures')
    BY <1>7, <2>1 DEF Returning
  <2>4. NoNotes(t)' BY <2>1 DEF Returning, NoNotes
  <2> QED BY <2>0, <2>1, <2>2, <2>3, <2>4 DEF Returning
<1>9. ASSUME NEW n, NoteWritten(t, n) PROVE NoteWritten(t, n)'
  BY <1>4, <1>9 DEF NoteWritten
<1>10. ASSUME at[t] = "void" PROVE job'[t].note \in Note /\ db'[job'[t].note] \in After!NoteRow
  <2> DEFINE n == job[t].note
  <2>1. n \in Note /\ db[n] \in After!NoteRow BY <1>1, <1>10 DEF Control
  <2> DEFINE row == db[n]
  <2>2. [row EXCEPT !.voided = TRUE] \in After!NoteRow
    <3>1. row \in After!NoteRow BY <2>1
    <3> HIDE DEF row
    <3> QED BY <3>1 DEF After!NoteRow
  <2>3. db'[n] \in After!NoteRow BY <2>1, <2>2, AfterNotesWritten, AfterAssumed
  <2> QED BY <2>1, <2>3
<1>11. ASSUME at[t] = "commit"
       PROVE  ReturnDone(t)' \/ RefundDone(t)' \/ NoteDone(t)' \/ VoidDone(t)'
  <2>1. CASE ReturnDone(t)
    <3>1. Seen(t)' = Seen(t) /\ Erasures' = Erasures BY <1>7, <2>1 DEF ReturnDone
    <3>2. ReturnDone(t)' BY <2>1, <3>1 DEF ReturnDone, Held, NoNotes
    <3> QED BY <3>2
  <2>2. CASE RefundDone(t) BY <2>2 DEF RefundDone
  <2>3. CASE NoteDone(t)
    <3>1. NoteDone(t)' BY <1>9, <2>3 DEF NoteDone
    <3> QED BY <3>1
  <2>4. CASE VoidDone(t)
    <3>1. VoidDone(t)' BY <1>4, <2>4 DEF VoidDone
    <3> QED BY <3>1
  <2> QED BY <1>1, <1>11, <2>1, <2>2, <2>3, <2>4 DEF Control
<1>12. Control(t)' BY <1>1, <1>8, <1>9, <1>10, <1>11 DEF Control
<1> QED BY <1>6, <1>12

\* COMMIT.
LEMMA AfterCommit ==
  ASSUME AfterInv, NEW s \in Session, After!EndRequest(s)
  PROVE  AfterInv'
<1>1. at[s] = "commit" /\ Publish(s, "idle", NoJob)
  BY AfterRequests DEF After!EndRequest
<1>2. /\ Others(s) /\ Watched(s) /\ at'[s] = "idle" /\ job'[s] = NoJob
      /\ mine'[s] = Unwritten /\ Overwritten(mine[s]) /\ calm' = calm
  BY <1>1, PublishMoves DEF AfterInv
<1>3. Shaped' BY <1>2, StaysShaped DEF AfterInv
<1>4. \A t \in Session \ {s} : mine'[t] = mine[t] /\ at'[t] = at[t] /\ job'[t] = job[t]
  BY <1>2 DEF Others
<1>5. WritesApart'
  <2>1. DOMAIN mine'[s] = {} BY <1>2 DEF Unwritten
  <2> QED BY <1>4, <2>1 DEF AfterInv, WritesApart
<1>6. ASSUME NEW t \in Session PROVE Written(t)' /\ Control(t)'
  <2>1. CASE t = s
    BY <1>2, <2>1 DEF Written, Held, Unwritten, Control, ReturnAt
  <2>2. CASE t # s BY <1>1, <1>2, <1>4, <2>2, AfterOthers
  <2> QED BY <2>1, <2>2
<1>7. /\ DOMAIN db' = After!Row
      /\ \A r \in After!Row : db'[r] = IF r \in DOMAIN mine[s] THEN mine[s][r] ELSE db[r]
      /\ Lines' = Seen(s) /\ Erasures' = Erasures
      /\ Held(s) = {} => Lines' = Lines
  BY <1>2, AfterLines
<1>8. /\ Sale \in After!Row /\ Invoice \in After!Row
      /\ \A l \in Line : l \in After!Row
      /\ \A l \in Line, t \in Session : After!Returned(l, t) \in After!Row
      /\ \A n \in Note : n \in After!Row
  BY DEF After!Row
<1>9. SaleTables'
  <2>1. ASSUME NEW l \in Line
        PROVE  db'[l] \in 0 .. Sold[l] /\ Away(l)' + db'[l] >= Sold[l]
    <3>1. CASE l \in Held(s)
      <4>1. /\ mine[s][l] \in 0 .. Sold[l]
            /\ Away(l) + Back(s, l) + mine[s][l] >= Sold[l]
        BY <3>1 DEF AfterInv, Written
      <4>2. db'[l] = mine[s][l] BY <1>7, <1>8, <3>1 DEF Held
      <4>3. Away(l)' = Away(l) + Back(s, l)
        BY <1>2, <3>1, AfterReturned
      <4> QED BY <4>1, <4>2, <4>3
    <3>2. CASE l \notin Held(s)
      <4>1. db'[l] = db[l] BY <1>7, <1>8, <3>2 DEF Held
      <4>2. Away(l)' = Away(l) BY <1>2, <3>2, AfterReturned
      <4> QED BY <4>1, <4>2 DEF AfterInv, SaleTables
    <3> QED BY <3>1, <3>2
  <2>2. ASSUME NEW l \in Line, NEW t \in Session PROVE db'[After!Returned(l, t)] \in Nat
    <3>1. CASE After!Returned(l, t) \in DOMAIN mine[s]
      <4>1. t = s /\ l \in Held(s) BY <3>1 DEF AfterInv, Written
      <4>2. mine[s][After!Returned(l, s)] \in Nat BY <4>1 DEF AfterInv, Written
      <4> QED BY <1>7, <1>8, <3>1, <4>1, <4>2
    <3>2. CASE After!Returned(l, t) \notin DOMAIN mine[s]
      BY <1>7, <1>8, <3>2 DEF AfterInv, SaleTables
    <3> QED BY <3>1, <3>2
  <2>3. db'[Sale] \in SaleRow
    BY <1>7, <1>8 DEF AfterInv, SaleTables, Written
  <2>4. Tells(db'[Sale].total, Lines', Erasures')
    <3>1. CASE ReturnDone(s)
      BY <1>7, <1>8, <3>1 DEF ReturnDone
    <3>2. CASE Held(s) = {}
      <4>1. db'[Sale].total = db[Sale].total
        BY <1>7, <1>8, <3>2 DEF AfterInv, Written
      <4> QED BY <1>7, <3>2, <4>1 DEF AfterInv, SaleTables
    <3> QED BY <1>1, <3>1, <3>2, AfterDone
  <2>5. /\ \A n \in Note : db'[n] \in After!NoteRow \cup {Absent}
        /\ After!CreditBacked'
    <3>1. \A n \in Note : db[n] \in After!NoteRow \cup {Absent} BY DEF AfterInv, SaleTables
    <3>2. ASSUME NEW n \in Note, db[n] \in After!NoteRow
          PROVE  [db[n] EXCEPT !.voided = TRUE] \in After!NoteRow
      <4> DEFINE row == db[n]
      <4>1. row \in After!NoteRow BY <3>2
      <4> HIDE DEF row
      <4>2. [row EXCEPT !.voided = TRUE] \in After!NoteRow BY <4>1 DEF After!NoteRow
      <4> QED BY <4>2 DEF row
    <3> QED BY <1>1, <1>2, <3>1, <3>2, AfterNotesWritten
  <2>6. ASSUME NEW l \in Line PROVE db'[After!Erased(l)] \in Nat
    <3>1. db'[After!Erased(l)] = Erasures'[l] /\ db[After!Erased(l)] = Erasures[l]
      BY DEF Erasures
    <3> QED BY <1>7, <3>1 DEF AfterInv, SaleTables
  <2> QED BY <1>7, <2>1, <2>2, <2>3, <2>4, <2>5, <2>6 DEF SaleTables
<1>10. ASSUME calm' PROVE CalmTables' /\ \A t \in Session : Alone(t)'
  <2>1. calm BY <1>2, <1>10
  <2>2. \A t \in Session \ {s} : at[t] = "idle" BY <1>1, <2>1, OthersIdle DEF AfterInv
  <2>3. \A t \in Session : at'[t] = "idle" /\ mine'[t] = Unwritten
    BY <1>2, <1>4, <2>2 DEF AfterInv, Control
  <2>4. ASSUME NEW t \in Session PROVE Alone(t)'
    BY <2>3 DEF Alone, Held, Unwritten
  <2>5. ASSUME NEW l \in Line PROVE Away(l)' + db'[l] = Sold[l]
    <3>1. CASE l \in Held(s)
      <4>1. Away(l) + Back(s, l) + mine[s][l] = Sold[l]
        BY <2>1, <3>1 DEF AfterInv, Alone
      <4>2. db'[l] = mine[s][l] BY <1>7, <1>8, <3>1 DEF Held
      <4>3. Away(l)' = Away(l) + Back(s, l)
        BY <1>2, <3>1, AfterReturned
      <4> QED BY <4>1, <4>2, <4>3
    <3>2. CASE l \notin Held(s)
      <4>1. db'[l] = db[l] BY <1>7, <1>8, <3>2 DEF Held
      <4>2. Away(l)' = Away(l) BY <1>2, <3>2, AfterReturned
      <4> QED BY <2>1, <4>1, <4>2 DEF AfterInv, CalmTables
    <3> QED BY <3>1, <3>2
  <2>6. Tells(db'[Invoice], Lines', Erasures')
    <3>1. CASE ReturnDone(s)
      <4>1. Invoice \in DOMAIN mine[s] BY <3>1 DEF ReturnDone
      <4>2. Tells(mine[s][Invoice], Seen(s), Erasures)
        BY <1>1, <2>1, <4>1 DEF AfterInv, Alone
      <4> QED BY <1>7, <1>8, <4>1, <4>2
    <3>2. CASE Held(s) = {} /\ Invoice \notin DOMAIN mine[s]
      BY <1>7, <1>8, <2>1, <3>2 DEF AfterInv, CalmTables
    <3> QED BY <1>1, <3>1, <3>2, AfterDone
  <2>7. Credits' <= Limit' BY <1>1, <1>2, <2>1, AfterCredits
  <2> QED BY <2>4, <2>5, <2>6, <2>7 DEF CalmTables
<1> QED BY <1>3, <1>5, <1>6, <1>9, <1>10 DEF AfterInv

\* The initial state.
LEMMA AfterStart == ASSUME After!Init PROVE AfterInv
<1>1. After!RequestsInit BY DEF After!Init
<1>2. /\ DOMAIN db = After!Row
      /\ \A l \in Line : db[l] = Sold[l]
      /\ db[Invoice] = After!Worth(Sold)
      /\ db[Sale] = [total |-> After!Worth(Sold), refunded |-> FALSE]
      /\ \A n \in Note : db[n] = Absent /\ db[After!CreditOf(n)] = Absent
      /\ \A l \in Line, s \in Session : db[After!Returned(l, s)] = 0
      /\ \A l \in Line : db[After!Erased(l)] = 0
  <2> DEFINE Value(r) == CASE r \in Line -> Sold[r]
                           [] r = Invoice -> After!Worth(Sold)
                           [] r = Sale -> [total |-> After!Worth(Sold), refunded |-> FALSE]
                           [] r \in Note \cup {After!CreditOf(n) : n \in Note} -> Absent
                           [] OTHER -> 0
  <2>1. DOMAIN db = After!Row /\ \A r \in After!Row : db[r] = Value(r) BY DEF After!Init
  <2>2. \A l \in Line : l \in After!Row /\ Value(l) = Sold[l] BY AfterRows DEF After!Row
  <2>3. /\ Invoice \in After!Row /\ Value(Invoice) = After!Worth(Sold)
        /\ Sale \in After!Row
        /\ Value(Sale) = [total |-> After!Worth(Sold), refunded |-> FALSE]
    BY AfterRows DEF After!Row
  <2>4. \A n \in Note : n \in After!Row /\ Value(n) = Absent BY AfterRows DEF After!Row
  <2>5. ASSUME NEW n \in Note
        PROVE  After!CreditOf(n) \in After!Row /\ Value(After!CreditOf(n)) = Absent
    BY AfterRows DEF After!Row
  <2>6. ASSUME NEW l \in Line, NEW s \in Session
        PROVE  After!Returned(l, s) \in After!Row /\ Value(After!Returned(l, s)) = 0
    BY AfterRows DEF After!Row
  <2>7. ASSUME NEW l \in Line
        PROVE  After!Erased(l) \in After!Row /\ Value(After!Erased(l)) = 0
    BY AfterRows DEF After!Row
  <2> HIDE DEF Value
  <2> QED BY <2>1, <2>2, <2>3, <2>4, <2>5, <2>6, <2>7
<1>3. Shaped /\ \A s \in Session : at[s] = "idle" /\ mine[s] = Unwritten
  BY <1>1 DEF After!RequestsInit, Shaped, After!Unwritten, Unwritten
<1>4. ASSUME NEW l \in Line PROVE Away(l) = 0
  <2> DEFINE f == [s \in Session |-> db[After!Returned(l, s)]]
  <2>1. \A s \in Session : f[s] = 0 BY <1>2
  <2>2. After!HasReturned(l) = SumFunctionOnSet(f, Session) BY AfterSums DEF After!HasReturned
  <2> HIDE DEF f
  <2>3. After!HasReturned(l) = 0 BY <2>1, <2>2, AfterAssumed, SumOfZeros
  <2> QED BY <1>2, <2>3 DEF Away
<1>5. Tells(After!Worth(Sold), Lines, Erasures) /\ After!Worth(Sold) \in Nat
  <2>1. ASSUME NEW l \in Line
        PROVE  /\ Sold[l] \in Nat /\ Lines[l] \in Nat /\ Erasures[l] \in Nat
               /\ Sold[l] = Lines[l] + Erasures[l]
    BY <1>2, AfterAssumed DEF Lines, Erasures
  <2>2. /\ After!Worth(Sold) = After!Worth(Lines) + After!Worth(Erasures)
        /\ After!Worth(Lines) \in Nat /\ After!Worth(Erasures) \in Nat
    BY <2>1, WorthCounts
  <2> QED BY <2>2 DEF Tells
<1>6. \A l \in Line : db[l] \in 0 .. Sold[l] /\ Away(l) + db[l] = Sold[l]
  BY <1>2, <1>4, AfterAssumed
<1>7. SaleTables
  <2>1. db[Sale] \in SaleRow /\ db[Sale].total = After!Worth(Sold) BY <1>2, <1>5 DEF SaleRow
  <2>2. After!CreditBacked BY <1>2 DEF After!CreditBacked
  <2>3. \A l \in Line : Away(l) + db[l] >= Sold[l] BY <1>6, AfterAssumed
  <2> QED BY <1>2, <1>5, <1>6, <2>1, <2>2, <2>3 DEF SaleTables
<1>8. \A s \in Session : Written(s) /\ Control(s) /\ Alone(s)
  BY <1>3 DEF Written, Control, Alone, Held, Unwritten, ReturnAt
<1>9. CalmTables
  <2>1. \A n \in Note : NoteCredit(db)[n] = 0 /\ NoteDebit(db)[n] = 0
    BY <1>2 DEF NoteCredit, NoteDebit
  <2>2. SumFunctionOnSet(NoteCredit(db), Note) = 0 /\ SumFunctionOnSet(NoteDebit(db), Note) = 0
    BY <2>1, AfterAssumed, SumOfZeros
  <2>3. \A n \in Note : db[n] \in After!NoteRow \cup {Absent} BY <1>2
  <2>4. Credits = 0 /\ Debits = 0
    BY <2>2, <2>3, AfterNotes DEF Credits, Debits, After!SumOf, After!Active
  <2>5. Credits <= Limit BY <1>5, <2>4, AfterAssumed DEF Limit
  <2> QED BY <1>2, <1>5, <1>6, <2>5 DEF CalmTables
<1>10. WritesApart BY <1>3 DEF WritesApart, Unwritten
<1> QED BY <1>3, <1>7, <1>8, <1>9, <1>10 DEF AfterInv

\* A line that is deleted is worth to every total what it adds to what was deleted.
LEMMA TellsOn ==
  ASSUME NEW v, NEW e, NEW w, NEW f, NEW l \in Line,
         \A k \in Line : v[k] \in Nat /\ e[k] \in Nat,
         w[l] = 0, f[l] = e[l] + v[l],
         \A k \in Line \ {l} : w[k] = v[k] /\ f[k] = e[k]
  PROVE  \A x : Tells(x, v, e) => Tells(x, w, f)
<1> DEFINE d == [k \in Line |-> IF k = l THEN v[l] ELSE 0]
<1>1. \A k \in Line : d[k] \in Nat /\ w[k] \in Nat /\ f[k] \in Nat OBVIOUS
<1>2. \A k \in Line : v[k] = w[k] + d[k] OBVIOUS
<1>3. \A k \in Line : f[k] = e[k] + d[k] OBVIOUS
<1> HIDE DEF d
<1>4. After!Worth(v) = After!Worth(w) + After!Worth(d) BY <1>1, <1>2, WorthCounts
<1>5. After!Worth(f) = After!Worth(e) + After!Worth(d) BY <1>1, <1>3, WorthCounts
<1>6. After!Worth(w) \in Nat /\ After!Worth(d) \in Nat /\ After!Worth(e) \in Nat
  BY <1>1, WorthCounts
<1> QED BY <1>4, <1>5, <1>6 DEF Tells

\* A line is deleted that nobody else has written or is about to write.
LEMMA AfterDeleteItem ==
  ASSUME AfterInv, NEW s \in Session, After!DeleteItem(s)
  PROVE  AfterInv'
<1>1. PICK l \in Line :
        /\ db[l] > 0 /\ Free(s, {l}) /\ After!KeyFree(s, l)
        /\ db' = [db EXCEPT ![l] = 0, ![After!Erased(l)] = @ + db[l]]
  BY AfterRequests DEF After!DeleteItem
<1>2. /\ at[s] = "idle" /\ mine' = mine /\ at' = at /\ job' = job
      /\ calm' = (calm /\ Quiet) /\ mine[s] = Unwritten
  BY DEF After!DeleteItem, After!Quiet, Quiet, AfterInv, Control
<1>3. /\ \A k \in Line : k \in After!Row /\ After!Erased(k) \in After!Row
      /\ After!Erased(l) # l /\ After!Erased(l) \notin Line
  BY AfterRows DEF After!Row
<1>4. /\ DOMAIN db' = After!Row /\ db'[l] = 0
      /\ db'[After!Erased(l)] = db[After!Erased(l)] + db[l]
      /\ \A r \in After!Row \ {l, After!Erased(l)} : db'[r] = db[r]
  BY <1>1, <1>3 DEF AfterInv, SaleTables
<1>5. \A t \in Session : l \notin DOMAIN mine[t]
  BY <1>1, <1>2 DEF Free, Unwritten
<1>6. \A t \in Session : DOMAIN mine[t] \subseteq After!Row \ {l, After!Erased(l)}
  BY <1>5 DEF AfterInv, Written
<1>7. \A t \in Session : at[t] # "idle" /\ t # s => l \notin job[t].held
  BY <1>1 DEF After!KeyFree
<1>8. \A k \in Line \ {l} : db'[k] = db[k] /\ db'[After!Erased(k)] = db[After!Erased(k)]
  BY <1>3, <1>4, AfterRows
<1>9. ASSUME NEW k \in Line PROVE After!HasReturned(k)' = After!HasReturned(k)
  <2>1. \A t \in Session : db'[After!Returned(k, t)] = db[After!Returned(k, t)]
    BY <1>4, AfterRows DEF After!Row
  <2>2. [t \in Session |-> db'[After!Returned(k, t)]] =
          [t \in Session |-> db[After!Returned(k, t)]]
    BY <2>1
  <2> QED BY <2>2 DEF After!HasReturned
<1>10. \A k \in Line \ {l} : Away(k)' = Away(k) BY <1>8, <1>9 DEF Away
<1>11. Away(l) \in Nat /\ db[l] \in Nat /\ Sold[l] \in Nat /\ Away(l)' = Away(l) + db[l]
       /\ db[After!Erased(l)] \in Nat
  BY <1>4, <1>9, ReturnedCounts, AfterAssumed DEF Away, AfterInv, SaleTables
<1>12. /\ Sale \in After!Row \ {l, After!Erased(l)}
       /\ Invoice \in After!Row \ {l, After!Erased(l)}
       /\ \A n \in Note : {n, After!CreditOf(n)} \subseteq After!Row \ {l, After!Erased(l)}
  BY AfterRows DEF After!Row
<1>13. ASSUME NEW v, NEW w, \A k \in Line : v[k] \in Nat, v[l] = db[l], w[l] = 0,
              \A k \in Line \ {l} : w[k] = v[k]
       PROVE  \A x : Tells(x, v, Erasures) => Tells(x, w, Erasures')
  <2>1. \A k \in Line : v[k] \in Nat /\ Erasures[k] \in Nat
    BY <1>13 DEF Erasures, AfterInv, SaleTables
  <2>2. Erasures'[l] = Erasures[l] + v[l] BY <1>4, <1>13 DEF Erasures
  <2>3. \A k \in Line \ {l} : w[k] = v[k] /\ Erasures'[k] = Erasures[k]
    BY <1>8, <1>13 DEF Erasures
  <2> DEFINE e == Erasures
             f == Erasures'
  <2>4. /\ \A k \in Line : v[k] \in Nat /\ e[k] \in Nat
        /\ w[l] = 0 /\ f[l] = e[l] + v[l]
        /\ \A k \in Line \ {l} : w[k] = v[k] /\ f[k] = e[k]
    BY <1>13, <2>1, <2>2, <2>3
  <2> HIDE DEF e, f
  <2>5. \A x : Tells(x, v, e) => Tells(x, w, f) BY <2>4, TellsOn
  <2> QED BY <2>5 DEF e, f
<1>14. ASSUME NEW t \in Session
       PROVE  \A x : Tells(x, Seen(t), Erasures) => Tells(x, Seen(t)', Erasures')
  <2>1. \A k \in Line : Seen(t)[k] \in Nat
    BY DEF AfterInv, SaleTables, Written, Held, Seen, Sees
  <2>2. Seen(t)[l] = db[l] /\ Seen(t)'[l] = 0 BY <1>2, <1>4, <1>5 DEF Seen, Sees
  <2>3. \A k \in Line \ {l} : Seen(t)'[k] = Seen(t)[k] BY <1>2, <1>8 DEF Seen, Sees
  <2> DEFINE v == Seen(t)
             w == Seen(t)'
  <2>4. /\ \A k \in Line : v[k] \in Nat
        /\ v[l] = db[l] /\ w[l] = 0 /\ \A k \in Line \ {l} : w[k] = v[k]
    BY <2>1, <2>2, <2>3
  <2> HIDE DEF v, w
  <2>5. \A x : Tells(x, v, Erasures) => Tells(x, w, Erasures') BY <1>13, <2>4
  <2> QED BY <2>5 DEF v, w
<1>15. \A x : Tells(x, Lines, Erasures) => Tells(x, Lines', Erasures')
  <2>1. \A k \in Line : Lines[k] \in Nat BY DEF AfterInv, SaleTables, Lines
  <2>2. Lines[l] = db[l] /\ Lines'[l] = 0 BY <1>4 DEF Lines
  <2>3. \A k \in Line \ {l} : Lines'[k] = Lines[k] BY <1>8 DEF Lines
  <2> DEFINE v == Lines
             w == Lines'
  <2>4. /\ \A k \in Line : v[k] \in Nat
        /\ v[l] = db[l] /\ w[l] = 0 /\ \A k \in Line \ {l} : w[k] = v[k]
    BY <2>1, <2>2, <2>3
  <2> HIDE DEF v, w
  <2>5. \A x : Tells(x, v, Erasures) => Tells(x, w, Erasures') BY <1>13, <2>4
  <2> QED BY <2>5 DEF v, w
<1>16. ASSUME NEW t \in Session PROVE Written(t)'
  <2>1. Written(t) /\ Held(t)' = Held(t) /\ l \notin Held(t)
    BY <1>2, <1>5 DEF AfterInv, Held
  <2>2. ASSUME NEW k \in Held(t)
        PROVE  Back(t, k)' = Back(t, k) /\ Away(k)' = Away(k)
    <3>1. k \in Line /\ k # l /\ After!Returned(k, t) \in After!Row \ {l, After!Erased(l)}
      BY <1>6, <2>1 DEF Held, Written
    <3> QED BY <1>2, <1>4, <1>10, <3>1 DEF Back
  <2>3. \A k \in Held(t)' :
          (/\ mine[t][k] \in 0 .. Sold[k]
           /\ After!Returned(k, t) \in DOMAIN mine[t]
           /\ mine[t][After!Returned(k, t)] \in Nat
           /\ Back(t, k) >= 0
           /\ Away(k) + Back(t, k) + mine[t][k] >= Sold[k])'
    BY <1>2, <2>1, <2>2 DEF Written
  <2>4. db'[Sale] = db[Sale] BY <1>4, <1>12
  <2> QED BY <1>2, <2>1, <2>3, <2>4 DEF Written
<1>17. ASSUME NEW t \in Session PROVE Control(t)'
  <2>1. Control(t) BY DEF AfterInv
  <2>2. \A n \in Note : db'[n] = db[n] BY <1>4, <1>12
  <2>3. ASSUME at[t] \in ReturnAt PROVE Returning(t)'
    <3>1. Returning(t) /\ job[t].items[1][1] \in Line BY <2>3, AfterItem
    <3>2. PICK k \in Line : k = job[t].items[1][1] BY <3>1
    <3>3. at[t] = "line" => /\ k \in job[t].held
                            /\ job[t].left \in job[t].items[1][2] .. Sold[k]
                            /\ Away(k) + job[t].left >= Sold[k]
      BY <3>1, <3>2 DEF Returning
    <3>4. at[t] = "line" => k # l BY <1>2, <1>7, <3>3
    <3>5. at[t] = "line" => Away(k)' + job[t].left >= Sold[k] BY <1>10, <3>3, <3>4
    <3>6. at[t] = "sale" => Tells(job[t].sum, Seen(t)', Erasures')
      BY <1>14, <3>1 DEF Returning
    <3>7. NoNotes(t)' BY <1>2, <3>1 DEF Returning, NoNotes
    <3> QED BY <1>2, <3>1, <3>2, <3>3, <3>5, <3>6, <3>7 DEF Returning
  <2>4. ASSUME NEW n, NoteWritten(t, n) PROVE NoteWritten(t, n)'
    BY <1>2, <2>2, <2>4 DEF NoteWritten
  <2>5. ASSUME at[t] = "commit"
        PROVE  ReturnDone(t)' \/ RefundDone(t)' \/ NoteDone(t)' \/ VoidDone(t)'
    <3>1. ReturnDone(t) => ReturnDone(t)'
      BY <1>2, <1>14 DEF ReturnDone, Held, NoNotes
    <3>2. RefundDone(t) => RefundDone(t)' BY <1>2 DEF RefundDone
    <3>3. NoteDone(t) => NoteDone(t)' BY <1>2, <2>4 DEF NoteDone
    <3>4. VoidDone(t) => VoidDone(t)' BY <1>2, <2>2 DEF VoidDone
    <3> QED BY <2>1, <2>5, <3>1, <3>2, <3>3, <3>4 DEF Control
  <2> QED BY <1>2, <2>1, <2>2, <2>3, <2>4, <2>5 DEF Control
<1>18. SaleTables'
  <2>1. ASSUME NEW k \in Line
        PROVE  db'[k] \in 0 .. Sold[k] /\ Away(k)' + db'[k] >= Sold[k]
    <3>1. db[k] \in 0 .. Sold[k] /\ Away(k) + db[k] >= Sold[k] BY DEF AfterInv, SaleTables
    <3>2. CASE k = l BY <1>4, <1>11, <3>1, <3>2
    <3>3. CASE k # l BY <1>8, <1>10, <3>1, <3>3
    <3> QED BY <3>2, <3>3
  <2>2. \A k \in Line, t \in Session : db'[After!Returned(k, t)] \in Nat
    BY <1>4, AfterRows DEF After!Row, AfterInv, SaleTables
  <2>3. ASSUME NEW k \in Line PROVE db'[After!Erased(k)] \in Nat
    BY <1>4, <1>8, <1>11 DEF AfterInv, SaleTables
  <2>4. db'[Sale] = db[Sale] BY <1>4, <1>12
  <2>5. \A n \in Note : db'[n] = db[n] /\ db'[After!CreditOf(n)] = db[After!CreditOf(n)]
    BY <1>4, <1>12
  <2>6. db[Sale] \in SaleRow /\ Tells(db[Sale].total, Lines, Erasures)
        /\ (\A n \in Note : db[n] \in After!NoteRow \cup {Absent}) /\ After!CreditBacked
    BY DEF AfterInv, SaleTables
  <2>7. Tells(db'[Sale].total, Lines', Erasures') BY <1>15, <2>4, <2>6
  <2>8. After!CreditBacked' BY <2>5, <2>6 DEF After!CreditBacked
  <2> QED BY <1>4, <2>1, <2>2, <2>3, <2>4, <2>5, <2>6, <2>7, <2>8 DEF SaleTables
<1>19. ASSUME calm' PROVE CalmTables' /\ \A t \in Session : Alone(t)'
  <2>1. calm /\ \A t \in Session : at[t] = "idle" /\ mine[t] = Unwritten
    BY <1>2, <1>19 DEF Quiet, AfterInv, Control
  <2>2. CalmTables BY <2>1 DEF AfterInv
  <2>3. ASSUME NEW k \in Line PROVE Away(k)' + db'[k] = Sold[k]
    <3>1. Away(k) + db[k] = Sold[k] BY <2>2 DEF CalmTables
    <3>2. CASE k = l BY <1>4, <1>11, <3>1, <3>2
    <3>3. CASE k # l BY <1>8, <1>10, <3>1, <3>3
    <3> QED BY <3>2, <3>3
  <2>4. Tells(db'[Invoice], Lines', Erasures') BY <1>4, <1>12, <1>15, <2>2 DEF CalmTables
  <2>5. Credits' <= Limit'
    <3>1. \A n \in Note : db'[n] = db[n] BY <1>4, <1>12
    <3>2. NoteCredit(db') = NoteCredit(db) /\ NoteDebit(db') = NoteDebit(db)
      BY <3>1 DEF NoteCredit, NoteDebit
    <3>3. \A n \in Note : db'[n] \in After!NoteRow \cup {Absent}
      BY <3>1 DEF AfterInv, SaleTables
    <3>4. Credits' = SumFunctionOnSet(NoteCredit(db'), Note)
          /\ Debits' = SumFunctionOnSet(NoteDebit(db'), Note)
      BY <3>3, AfterNotes DEF Credits, Debits, After!SumOf, After!Active
    <3>5. Credits' = Credits /\ Debits' = Debits BY <3>2, <3>4, AfterNotesNow
    <3> QED BY <2>2, <3>5 DEF Limit, CalmTables
  <2>6. ASSUME NEW t \in Session PROVE Alone(t)'
    BY <1>2, <2>1 DEF Alone, Held, Unwritten
  <2> QED BY <2>3, <2>4, <2>5, <2>6 DEF CalmTables
<1>20. Shaped'
  <2>1. Shaped /\ (calm' => calm) /\ calm' \in BOOLEAN
    <3>1. Quiet \in BOOLEAN BY DEF Quiet
    <3> QED BY <1>2, <3>1 DEF AfterInv, Shaped
  <2> QED BY <1>2, <2>1 DEF Shaped
<1>21. WritesApart' BY <1>2 DEF AfterInv, WritesApart
<1> QED BY <1>16, <1>17, <1>18, <1>19, <1>20, <1>21 DEF AfterInv

\* Every step.
LEMMA AfterStep == ASSUME AfterInv, After!Next PROVE AfterInv'
<1>1. PICK s \in Session : \/ After!Return(s) \/ After!DeleteItem(s) \/ After!Refund(s)
                           \/ After!NoteStep(s) \/ After!Void(s) \/ After!EndRequest(s)
                           \/ After!Fail(s)
  BY DEF After!Next
<1>2. CASE After!Return(s)
  BY <1>2, AfterStartReturn, AfterTakeLine, AfterPutLine, AfterSum, AfterPutInvoice, AfterPutSale
  DEF After!Return
<1>3. CASE After!Refund(s) BY <1>3, AfterStarts, AfterMarkRefunded DEF After!Refund
<1>4. CASE After!NoteStep(s)
  BY <1>4, AfterStarts, AfterCheckCredits, AfterInsertNote, AfterInsertCredit DEF After!NoteStep
<1>5. CASE After!Void(s) BY <1>5, AfterStarts, AfterMarkVoided DEF After!Void
<1>6. CASE After!EndRequest(s) BY <1>6, AfterCommit
<1>7. CASE After!Fail(s) BY <1>7, AfterRequests, AfterRollback DEF After!Fail
<1>8. CASE After!DeleteItem(s) BY <1>8, AfterDeleteItem
<1> QED BY <1>1, <1>2, <1>3, <1>4, <1>5, <1>6, <1>7, <1>8

\* What the invariant shows.
LEMMA AfterShow == ASSUME AfterInv PROVE After!SaleAddsUp /\ After!NotesBacked
<1>1. ASSUME NEW l \in Line
      PROVE  After!HasReturned(l) \in Nat /\ db[l] \in Nat /\ db[After!Erased(l)] \in Nat
  BY ReturnedCounts, AfterAssumed DEF AfterInv, SaleTables
<1>2. After!ReturnsAddUp
  <2>1. After!NothingVanishes BY DEF AfterInv, SaleTables, After!NothingVanishes, Away
  <2>2. ASSUME calm, NEW l \in Line
        PROVE  After!HasReturned(l) + db[After!Erased(l)] + db[l] = Sold[l]
    BY <2>2 DEF AfterInv, CalmTables, Away
  <2> QED BY <2>1, <2>2 DEF After!ReturnsAddUp
<1>3. After!TotalsFollowLines
  BY DEF AfterInv, SaleTables, CalmTables, Lines, Erasures, Tells, After!Tells,
     After!TotalsFollowLines, After!SaleFollowsLines
<1>4. After!NotesBacked
  BY DEF AfterInv, SaleTables, CalmTables, Credits, Limit, Debits, After!NotesBacked,
     After!CreditsFit
<1> QED BY <1>2, <1>3, <1>4 DEF After!SaleAddsUp

-----------------------------------------------------------------------------
(* Promotions.                                                              *)

\* What a request finds in a table of a promotion.
FoundIn(s, p, t) == UNION {Sees(s, Offers!Of(p, t, u)) : u \in Session}
LeftAlone(s, p, t) == \A u \in Session : Offers!Of(p, t, u) \notin DOMAIN mine[s]

\* How far a request has come with a table: not yet there, in the middle or done.
Rewritten(s, i) ==
  LET j == job[s]  t == Offers!Tables[i] IN
  IF j.change[t] = Same \/ i > j.table \/ (i = j.table /\ at[s] = "delete rows")
  THEN LeftAlone(s, j.promo, t)
  ELSE IF i = j.table THEN FoundIn(s, j.promo, t) = {}
       ELSE t # "segments" => FoundIn(s, j.promo, t) = j.change[t]

RowsOf(p) == {p} \cup ({p} \X Offers!Table \X Session)

\* What a request does between its first statement and the last.
Holding(s) ==
  LET j == job[s]  p == j.promo IN
  /\ p \in Promo /\ p \in DOMAIN mine[s] /\ mine[s][p] \in Offers!Header
  /\ DOMAIN mine[s] \subseteq RowsOf(p)
  /\ j.change.rules = Same => db[p] # Absent
  /\ at[s] = "insert rows" => j.table <= 3 /\ j.change[Offers!Tables[j.table]] # Same
  /\ \A i \in 1 .. 3 : Rewritten(s, i)

OfferJob(s) ==
  /\ at[s] \in {"idle", "insert promotion", "update promotion", "delete rows", "insert rows"}
  /\ at[s] \in {"idle", "insert promotion", "update promotion"} => mine[s] = Unwritten
  /\ at[s] # "idle" => job[s] \in [promo : Promo \cup {None}, change : Change, table : 1 .. 4]
  /\ at[s] \in {"insert promotion", "update promotion"} => job[s].table = 1
  /\ at[s] = "insert promotion" => job[s].change.kind # Same /\ job[s].change.rules # Same
  /\ at[s] = "update promotion" => job[s].promo \in Promo
  /\ at[s] \in {"delete rows", "insert rows"} => Holding(s)

\* A request that sends rules sends the targets with them.
SentTogether == \A c \in Change : c.rules = Same <=> c.targets = Same

\* The rules are those one request sent, and the targets too when they go together.
RulesWhole ==
  \A p \in Promo :
    IF ~Offers!Exists(p) THEN \A t \in Offers!Table : Offers!Has(p, t) = {}
    ELSE \E c \in Change : c.rules # Same /\ Offers!Has(p, "rules") = c.rules
OffersWhole == RulesWhole /\ (SentTogether => Offers!PromotionsWhole)

\* What makes PromotionsWhole inductive.
OffersInv ==
  /\ Shaped /\ WritesApart /\ DOMAIN db = Offers!Row
  /\ \A p \in Promo : db[p] \in Offers!Header \cup {Absent}
  /\ OffersWhole
  /\ \A s \in Session : OfferJob(s)

\* The promotions are requests like all the others.
LEMMA OffersRequests ==
  /\ \A s, l, j : Offers!Begin(s, l, j) <=> Begin(s, l, j)
  /\ \A s, l, j : Offers!Look(s, l, j) <=> Look(s, l, j)
  /\ \A s, n, l, j : Offers!Write(s, n, l, j) <=> Write(s, n, l, j)
  /\ \A s : Offers!Commit(s) <=> Publish(s, "idle", NoJob)
  /\ \A s : Offers!Rollback(s) <=> Rollback(s)
  /\ \A s : Offers!Fail(s) <=> (at[s] # "idle" /\ Rollback(s))
  /\ \A s, r : Offers!Sees(s, r) = Sees(s, r)
  /\ \A s, R : Offers!Free(s, R) <=> Free(s, R)
  /\ Offers!Quiet <=> Quiet
BY DEF Offers!Begin, Begin, Offers!Look, Look, Offers!Goto, Goto, Offers!Quiet, Quiet,
  Offers!Write, Write, Offers!Commit, Offers!Publish, Publish, Offers!Free, Free, Offers!Over,
  Over, Offers!Fail, Offers!Rollback, Rollback, Offers!Unwritten, Unwritten, Offers!Sees, Sees

\* The tables.
LEMMA OffersTables ==
  /\ Offers!Tables[1] = "rules" /\ Offers!Tables[2] = "segments"
  /\ Offers!Tables[3] = "targets" /\ Len(Offers!Tables) = 3
  /\ Offers!Table = {"rules", "segments", "targets"}
  /\ \A i \in 1 .. 3 : Offers!Tables[i] \in Offers!Table
BY DEF Offers!Tables, Offers!Table

\* The rows, none of which is two things.
LEMMA OffersRows ==
  /\ \A p \in Promo : RowsOf(p) \subseteq Offers!Row
  /\ \A p \in Promo, t \in Offers!Table, u \in Session :
       /\ Offers!Of(p, t, u) \in RowsOf(p) /\ Offers!Of(p, t, u) \notin Promo
  /\ \A p, q \in Promo : p # q => RowsOf(p) \cap RowsOf(q) = {}
  /\ \A p, q, t, z, u, v : Offers!Of(p, t, u) = Offers!Of(q, z, v) => p = q /\ t = z /\ u = v
<1>1. Offers!PromotionsConstants BY SellingConstants
<1>2. \A p \in Promo, x \in Promo \X Offers!Table \X Session : p # x
  BY <1>1 DEF Offers!PromotionsConstants
<1>3. \A p, q, t, z, u, v : Offers!Of(p, t, u) = Offers!Of(q, z, v) => p = q /\ t = z /\ u = v
  BY DEF Offers!Of
<1>4. \A p \in Promo : RowsOf(p) \subseteq Offers!Row BY DEF RowsOf, Offers!Row
<1>5. \A p \in Promo, t \in Offers!Table, u \in Session :
        /\ Offers!Of(p, t, u) \in RowsOf(p) /\ Offers!Of(p, t, u) \notin Promo
  BY <1>2 DEF RowsOf, Offers!Of
<1>6. \A p, q \in Promo : p # q => RowsOf(p) \cap RowsOf(q) = {} BY <1>2 DEF RowsOf
<1> QED BY <1>3, <1>4, <1>5, <1>6

\* Nothing but a promotion has a header.
LEMMA OffersAssumed ==
  /\ Absent \notin Offers!Header /\ Absent # {} /\ None \notin Int /\ UnitPrice \subseteq Nat
  /\ \A c \in Change :
       /\ c.kind \in Offers!Kind \cup {Same} /\ c.universal \in BOOLEAN \cup {Same}
       /\ c.active \in BOOLEAN \cup {Same}
       /\ c.rules = Same \/ c.rules \subseteq Offers!RuleRow
BY SellingConstants DEF Offers!PromotionsConstants

\* What a request finds changes with what is there and what it wrote.
LEMMA FoundSame ==
  ASSUME NEW s \in Session, NEW p, NEW t, mine'[s] = mine[s],
         \A u \in Session : db'[Offers!Of(p, t, u)] = db[Offers!Of(p, t, u)]
  PROVE  FoundIn(s, p, t)' = FoundIn(s, p, t)
<1>1. \A u \in Session : Sees(s, Offers!Of(p, t, u))' = Sees(s, Offers!Of(p, t, u)) BY DEF Sees
<1> QED BY <1>1 DEF FoundIn

\* Whoever holds a promotion is not disturbed while its rows stay.
LEMMA StillHolding ==
  ASSUME NEW s \in Session, Holding(s), mine'[s] = mine[s], at'[s] = at[s], job'[s] = job[s],
         \A r \in RowsOf(job[s].promo) : db'[r] = db[r]
  PROVE  Holding(s)'
<1> DEFINE p == job[s].promo
<1>1. p \in Promo BY DEF Holding
<1>2. db'[p] = db[p] BY DEF RowsOf
<1>3. \A i \in 1 .. 3 : FoundIn(s, p, Offers!Tables[i])' = FoundIn(s, p, Offers!Tables[i])
  <2>1. \A i \in 1 .. 3, u \in Session : Offers!Of(p, Offers!Tables[i], u) \in RowsOf(p)
    BY <1>1, OffersTables, OffersRows
  <2> HIDE DEF p
  <2>2. ASSUME NEW i \in 1 .. 3
        PROVE  FoundIn(s, p, Offers!Tables[i])' = FoundIn(s, p, Offers!Tables[i])
    <3>1. \A u \in Session : db'[Offers!Of(p, Offers!Tables[i], u)] = db[Offers!Of(p, Offers!Tables[i], u)]
      BY <2>1 DEF p
    <3> DEFINE t == Offers!Tables[i]
    <3>2. t' = t BY DEF Offers!Tables
    <3>3. p' = p BY DEF p
    <3> HIDE DEF t
    <3>4. \A u \in Session : db'[Offers!Of(p, t, u)] = db[Offers!Of(p, t, u)] BY <3>1 DEF t
    <3>5. FoundIn(s, p, t)' = FoundIn(s, p, t) 
      <4>1. \A u \in Session : Sees(s, Offers!Of(p, t, u))' = Sees(s, Offers!Of(p, t, u))
        BY <3>2, <3>3, <3>4 DEF Sees
      <4> QED BY <4>1, <3>2, <3>3 DEF FoundIn
    <3> QED BY <3>5, <3>2 DEF t
  <2> QED BY <2>2
<1>4. \A i \in 1 .. 3 : LeftAlone(s, p, Offers!Tables[i])' = LeftAlone(s, p, Offers!Tables[i])
  BY DEF LeftAlone
<1>5. \A i \in 1 .. 3 : Rewritten(s, i)'
  <2>1. \A i \in 1 .. 3 : Rewritten(s, i) BY DEF Holding
  <2> QED BY <1>3, <1>4, <2>1 DEF Rewritten
<1> QED BY <1>2, <1>5 DEF Holding

\* It is enough to look at the request that moves.
LEMMA OffersMove ==
  ASSUME OffersInv, NEW s \in Session, Others(s), Watched(s), DOMAIN db' = Offers!Row,
         \A p \in Promo : db'[p] \in Offers!Header \cup {Absent},
         OffersWhole', OfferJob(s)',
         \A t \in Session \ {s} : DOMAIN mine'[s] \cap DOMAIN mine[t] = {},
         \A t \in Session \ {s} :
           at[t] \in {"delete rows", "insert rows"} =>
             \A r \in RowsOf(job[t].promo) : db'[r] = db[r]
  PROVE  OffersInv'
<1>1. Shaped' BY StaysShaped DEF OffersInv
<1>2. WritesApart'
  <2>1. \A u \in Session \ {s} : mine'[u] = mine[u] BY DEF Others
  <2>2. \A u, t \in Session : u # t => DOMAIN mine[u] \cap DOMAIN mine[t] = {}
    BY DEF OffersInv, WritesApart
  <2>3. ASSUME NEW u \in Session, NEW t \in Session, u # t
        PROVE  DOMAIN mine'[u] \cap DOMAIN mine'[t] = {}
    <3>1. CASE u # s /\ t # s BY <2>1, <2>2, <2>3, <3>1
    <3>2. CASE u = s BY <2>1, <2>3, <3>2
    <3>3. CASE t = s BY <2>1, <2>3, <3>3
    <3> QED BY <3>1, <3>2, <3>3
  <2> QED BY <2>3 DEF WritesApart
<1>3. ASSUME NEW t \in Session, t # s PROVE OfferJob(t)'
  <2>1. mine'[t] = mine[t] /\ at'[t] = at[t] /\ job'[t] = job[t] BY <1>3 DEF Others
  <2>2. OfferJob(t) BY DEF OffersInv
  <2>3. Holding(t) => (at[t] \in {"delete rows", "insert rows"} => Holding(t)')
    BY <1>3, <2>1, StillHolding
  <2> QED BY <2>1, <2>2, <2>3 DEF OfferJob
<1> QED BY <1>1, <1>2, <1>3 DEF OffersInv

\* What is there stays as it is.
LEMMA OffersStay ==
  ASSUME OffersInv, db' = db
  PROVE  /\ DOMAIN db' = Offers!Row /\ OffersWhole'
         /\ \A p \in Promo : db'[p] \in Offers!Header \cup {Absent}
<1>1. \A p \in Promo : Offers!Exists(p)' = Offers!Exists(p) BY DEF Offers!Exists
<1>2. \A p \in Promo, t \in Offers!Table : Offers!Has(p, t)' = Offers!Has(p, t)
  BY DEF Offers!Has, Offers!Of
<1>3. RulesWhole'
  BY <1>1, <1>2, OffersTables DEF OffersInv, OffersWhole, RulesWhole
<1>4. ASSUME SentTogether PROVE Offers!PromotionsWhole'
  BY <1>1, <1>2, <1>4, OffersTables DEF OffersInv, OffersWhole, Offers!PromotionsWhole
<1> QED BY <1>3, <1>4 DEF OffersInv, OffersWhole

\* A request arrives.
LEMMA OffersBegin ==
  ASSUME OffersInv, NEW s \in Session, Offers!StartCreate(s) \/ Offers!StartUpdate(s)
  PROVE  OffersInv'
<1>1. PICK label, j : Begin(s, label, j) /\
        \/ /\ label = "insert promotion"
           /\ \E c \in Change : /\ c.kind # Same /\ c.rules # Same
                                /\ j = [promo |-> None, change |-> c, table |-> 1]
        \/ /\ label = "update promotion"
           /\ \E p \in Promo, c \in Change : j = [promo |-> p, change |-> c, table |-> 1]
  BY OffersRequests DEF Offers!StartCreate, Offers!StartUpdate
<1>2. /\ Others(s) /\ Watched(s) /\ at'[s] = label /\ job'[s] = j /\ mine' = mine /\ db' = db
  BY <1>1, LookMoves DEF OffersInv
<1>3. OfferJob(s)'
  <2>1. mine'[s] = Unwritten BY <1>1, <1>2 DEF OffersInv, OfferJob, Begin
  <2>2. CASE label = "insert promotion"
    <3>1. PICK c \in Change : /\ c.kind # Same /\ c.rules # Same
                              /\ j = [promo |-> None, change |-> c, table |-> 1]
      BY <1>1, <2>2
    <3>2. /\ j \in [promo : Promo \cup {None}, change : Change, table : 1 .. 4]
          /\ j.table = 1 /\ j.change = c
      BY <3>1
    <3> QED BY <1>2, <2>1, <2>2, <3>1, <3>2 DEF OfferJob
  <2>3. CASE label = "update promotion"
    <3>1. PICK p \in Promo, c \in Change : j = [promo |-> p, change |-> c, table |-> 1]
      BY <1>1, <2>3
    <3>2. /\ j \in [promo : Promo \cup {None}, change : Change, table : 1 .. 4]
          /\ j.table = 1 /\ j.promo = p
      BY <3>1
    <3> QED BY <1>2, <2>1, <2>3, <3>1, <3>2 DEF OfferJob
  <2> QED BY <1>1, <2>2, <2>3
<1>4. \A t \in Session \ {s} : DOMAIN mine'[s] \cap DOMAIN mine[t] = {}
  BY <1>2 DEF OffersInv, WritesApart
<1> QED BY <1>2, <1>3, <1>4, OffersStay, OffersMove

\* A request fails.
LEMMA OffersRollback ==
  ASSUME OffersInv, NEW s \in Session, Rollback(s), at[s] # "idle"
  PROVE  OffersInv'
<1>1. /\ Others(s) /\ Watched(s) /\ at'[s] = "idle" /\ mine'[s] = Unwritten /\ db' = db
  BY RollbackMoves DEF OffersInv
<1>2. OfferJob(s)' BY <1>1 DEF OfferJob
<1>3. DOMAIN mine'[s] = {} BY <1>1 DEF Unwritten
<1> QED BY <1>1, <1>2, <1>3, OffersStay, OffersMove

\* The first statement, INSERT or UPDATE of the promotion.
LEMMA OffersHeader ==
  ASSUME OffersInv, NEW s \in Session, at[s] \in {"insert promotion", "update promotion"},
         NEW p \in Promo, NEW h \in Offers!Header, NEW j,
         Write(s, [r \in {p} |-> h], "delete rows", j),
         j \in [promo : Promo \cup {None}, change : Change, table : 1 .. 4],
         j.promo = p, j.table = 1, j.change = job[s].change,
         job[s].change.rules = Same => db[p] # Absent
  PROVE  OffersInv'
<1> DEFINE new == [r \in {p} |-> h]
<1>1. /\ Others(s) /\ Watched(s) /\ at'[s] = "delete rows" /\ job'[s] = j
      /\ mine'[s] = Over(new, mine[s]) /\ db' = db
      /\ \A t \in Session \ {s} : DOMAIN new \cap DOMAIN mine[t] = {}
  <2> HIDE DEF new
  <2>1. Write(s, new, "delete rows", j) /\ at[s] # "idle" BY DEF new
  <2>2. Shaped BY DEF OffersInv
  <2> QED BY ONLY s \in Session, <2>1, <2>2, WriteMoves
<1>2. DOMAIN mine'[s] = {p} /\ mine'[s][p] = h
  <2>1. mine[s] = Unwritten BY DEF OffersInv, OfferJob
  <2> QED BY <1>1, <2>1 DEF Over, Unwritten
<1> HIDE DEF new
<1>4. ASSUME NEW i \in 1 .. 3 PROVE Rewritten(s, i)'
  <2>1. \A u \in Session : Offers!Of(p, Offers!Tables[i], u) # p
    BY ONLY p \in Promo, i \in 1 .. 3, OffersTables, OffersRows
  <2>2. LeftAlone(s, p, Offers!Tables[i])'
    <3>1. (Offers!Tables[i])' = Offers!Tables[i] BY DEF Offers!Tables
    <3> QED BY <1>2, <2>1 DEF LeftAlone, Offers!Of, Offers!Tables
  <2>3. i > j.table \/ i = j.table BY ONLY i \in 1 .. 3, j.table = 1
  <2> QED BY <1>1, <2>2, <2>3 DEF Rewritten
<1>5. Holding(s)' BY <1>1, <1>2, <1>4 DEF Holding, RowsOf
<1>6. OfferJob(s)' BY <1>1, <1>5 DEF OfferJob
<1>7. \A t \in Session \ {s} : DOMAIN mine'[s] \cap DOMAIN mine[t] = {} BY <1>1, <1>2 DEF new
<1> QED BY <1>1, <1>6, <1>7, OffersStay, OffersMove

\* createPromoWithRule: INSERT of the promotion.
LEMMA OffersInsertPromotion ==
  ASSUME OffersInv, NEW s \in Session, Offers!InsertPromotion(s)
  PROVE  OffersInv'
<1> DEFINE c == job[s].change
           h == [kind |-> c.kind, active |-> c.active = TRUE, universal |-> c.universal # FALSE]
<1>1. at[s] = "insert promotion" BY DEF Offers!InsertPromotion
<1>2. /\ job[s] \in [promo : Promo \cup {None}, change : Change, table : 1 .. 4]
      /\ job[s].table = 1 /\ c.kind # Same /\ c.rules # Same
  BY <1>1 DEF OffersInv, OfferJob
<1>3. PICK p \in Promo :
        Write(s, [r \in {p} |-> h], "delete rows", [job[s] EXCEPT !.promo = p])
  BY OffersRequests DEF Offers!InsertPromotion
<1> DEFINE j == [job[s] EXCEPT !.promo = p]
<1>4. /\ j \in [promo : Promo \cup {None}, change : Change, table : 1 .. 4]
      /\ j.promo = p /\ j.table = 1 /\ j.change = c
  BY <1>2
<1>5. h \in Offers!Header
  <2>1. c.kind \in Offers!Kind BY <1>2, OffersAssumed
  <2> QED BY <2>1 DEF Offers!Header
<1>6. Write(s, [r \in {p} |-> h], "delete rows", j) BY <1>3
<1> HIDE DEF h, j
<1> QED BY <1>1, <1>2, <1>4, <1>5, <1>6, OffersHeader

\* updatePromo: UPDATE of the promotion.
LEMMA OffersUpdatePromotion ==
  ASSUME OffersInv, NEW s \in Session, Offers!UpdatePromotion(s)
  PROVE  OffersInv'
<1> DEFINE c == job[s].change
           p == job[s].promo
           h == [kind |-> Offers!Coalesce(c.kind, Sees(s, p).kind),
                 universal |-> Offers!Coalesce(c.universal, Sees(s, p).universal),
                 active |-> Offers!Coalesce(c.active, Sees(s, p).active)]
<1>1. at[s] = "update promotion" BY DEF Offers!UpdatePromotion
<1>2. /\ job[s] \in [promo : Promo \cup {None}, change : Change, table : 1 .. 4]
      /\ job[s].table = 1 /\ p \in Promo /\ mine[s] = Unwritten
  BY <1>1 DEF OffersInv, OfferJob
<1>3. Sees(s, p) = db[p] /\ db[p] \in Offers!Header \cup {Absent}
  BY <1>2 DEF Sees, Unwritten, OffersInv
<1>4. CASE Rollback(s) BY <1>1, <1>4, OffersRollback
<1>5. CASE Sees(s, p) # Absent /\ Write(s, [r \in {p} |-> h], "delete rows", job[s])
  <2>1. h \in Offers!Header
    <3>1. db[p] \in Offers!Header BY <1>3, <1>5
    <3>2. c.kind # Same => c.kind \in Offers!Kind BY <1>2, OffersAssumed
    <3>3. c.universal # Same => c.universal \in BOOLEAN BY <1>2, OffersAssumed
    <3>4. c.active # Same => c.active \in BOOLEAN BY <1>2, OffersAssumed
    <3>5. Offers!Coalesce(c.kind, Sees(s, p).kind) \in Offers!Kind
      BY <1>3, <3>1, <3>2 DEF Offers!Coalesce, Offers!Header
    <3>6. Offers!Coalesce(c.universal, Sees(s, p).universal) \in BOOLEAN
      BY <1>3, <3>1, <3>3 DEF Offers!Coalesce, Offers!Header
    <3>7. Offers!Coalesce(c.active, Sees(s, p).active) \in BOOLEAN
      BY <1>3, <3>1, <3>4 DEF Offers!Coalesce, Offers!Header
    <3> QED BY <3>5, <3>6, <3>7 DEF Offers!Header
  <2>2. p \in Promo /\ db[p] # Absent BY <1>2, <1>3, <1>5
  <2> HIDE DEF h
  <2> QED BY <1>1, <1>2, <1>5, <2>1, <2>2, OffersHeader
<1> QED BY <1>4, <1>5, OffersRequests DEF Offers!UpdatePromotion

\* A statement on one table leaves the others.
LEMMA OtherTables ==
  ASSUME NEW s \in Session, NEW p, NEW new, NEW k,
         DOMAIN new \subseteq {Offers!Of(p, k, u) : u \in Session},
         mine'[s] = Over(new, mine[s]), db' = db, NEW t, t # k
  PROVE  FoundIn(s, p, t)' = FoundIn(s, p, t) /\ LeftAlone(s, p, t)' = LeftAlone(s, p, t)
<1>1. \A u \in Session : Offers!Of(p, t, u) \notin DOMAIN new BY OffersRows
<1>2. ASSUME NEW u \in Session
      PROVE  /\ Sees(s, Offers!Of(p, t, u))' = Sees(s, Offers!Of(p, t, u))
             /\ Offers!Of(p, t, u) \in DOMAIN mine'[s] <=> Offers!Of(p, t, u) \in DOMAIN mine[s]
  <2> DEFINE r == Offers!Of(p, t, u)
  <2>1. r \notin DOMAIN new BY <1>1
  <2>2. (r \in DOMAIN mine'[s] <=> r \in DOMAIN mine[s])
        /\ (r \in DOMAIN mine[s] => mine'[s][r] = mine[s][r])
    <3> HIDE DEF r
    <3> QED BY <2>1 DEF Over
  <2> QED BY <2>2 DEF Sees, Offers!Of
<1>3. FoundIn(s, p, t)' = FoundIn(s, p, t) BY <1>2 DEF FoundIn, Offers!Of
<1>4. LeftAlone(s, p, t)' = LeftAlone(s, p, t) BY <1>2 DEF LeftAlone, Offers!Of
<1> QED BY <1>3, <1>4

\* No table is there twice.
LEMMA TablesDiffer == \A i, k \in 1 .. 3 : i # k => Offers!Tables[i] # Offers!Tables[k]
BY OffersTables

\* deletePromoRules, deletePromoSegments, deleteForPromotion
LEMMA OffersDeleteRows ==
  ASSUME OffersInv, NEW s \in Session, Offers!DeleteRows(s)
  PROVE  OffersInv'
<1> DEFINE p == job[s].promo
           k == job[s].table
           t == Offers!Tables[k]
           c == job[s].change
           there == {r \in {Offers!Of(p, t, u) : u \in Session} : Sees(s, r) # {}}
           new == [r \in there |-> {}]
           next == [job[s] EXCEPT !.table = @ + 1]
<1>1. at[s] = "delete rows" /\ k <= 3 BY OffersTables DEF Offers!DeleteRows
<1>2. /\ job[s] \in [promo : Promo \cup {None}, change : Change, table : 1 .. 4]
      /\ Holding(s) /\ k \in 1 .. 3 /\ p \in Promo
  <2>1. OfferJob(s) BY DEF OffersInv
  <2>2. job[s] \in [promo : Promo \cup {None}, change : Change, table : 1 .. 4] /\ Holding(s)
    BY <1>1, <2>1 DEF OfferJob
  <2>3. p \in Promo BY <2>2 DEF Holding
  <2>4. k \in 1 .. 4 BY <2>2
  <2>5. k \in 1 .. 3
    <3>1. k \in 1 .. 4 /\ k <= 3 BY <1>1, <2>4
    <3> HIDE DEF k
    <3> QED BY ONLY <3>1
  <2> QED BY <2>2, <2>3, <2>5
<1>3. CASE c[t] = Same /\ Look(s, "delete rows", next)
  <2>1. /\ Others(s) /\ Watched(s) /\ at'[s] = "delete rows" /\ job'[s] = next
        /\ mine' = mine /\ db' = db
    <3> HIDE DEF next
    <3> QED BY <1>1, <1>3, LookMoves DEF OffersInv
  <2>2. /\ next \in [promo : Promo \cup {None}, change : Change, table : 1 .. 4]
        /\ next.promo = p /\ next.change = c /\ next.table = k + 1
    BY <1>2
  <2> HIDE DEF next
  <2>3. ASSUME NEW i \in 1 .. 3 PROVE Rewritten(s, i)'
    <3> DEFINE z == Offers!Tables[i]
    <3>1. FoundIn(s, p, z)' = FoundIn(s, p, z) /\ LeftAlone(s, p, z)' = LeftAlone(s, p, z)
      BY <2>1, <2>2 DEF FoundIn, LeftAlone, Sees, Offers!Of, Offers!Tables
    <3>2. Rewritten(s, i) BY <1>2 DEF Holding
    <3>3. i = k => c[z] = Same BY <1>3
    <3>4. i > k + 1 \/ i = k + 1 \/ i = k \/ i < k BY <1>2
    <3>5. (i > k + 1 => i > k) /\ (i = k + 1 => i > k) /\ (i < k => ~(i > k) /\ i # k)
          /\ (i < k => ~(i > k + 1) /\ i # k + 1)
      BY <1>2
    <3> HIDE DEF z
    <3>6. CASE c[z] = Same \/ i > k
      <4>1. LeftAlone(s, p, z) BY <3>2, <3>6 DEF Rewritten, z
      <4>2. c[z] = Same \/ i > k + 1 \/ i = k + 1 BY <3>4, <3>5, <3>6
      <4> QED BY <2>1, <2>2, <3>1, <4>1, <4>2 DEF Rewritten, z
    <3>7. CASE c[z] # Same /\ ~(i > k)
      <4>1. i < k BY <3>3, <3>4, <3>5, <3>7
      <4>2. z # "segments" => FoundIn(s, p, z) = c[z] BY <3>2, <3>5, <3>7, <4>1 DEF Rewritten, z
      <4> QED BY <2>1, <2>2, <3>1, <3>5, <3>7, <4>1, <4>2 DEF Rewritten, z
    <3> QED BY <3>6, <3>7
  <2>4. Holding(s)' BY <1>2, <2>1, <2>2, <2>3 DEF Holding
  <2>5. OfferJob(s)' BY <2>1, <2>2, <2>4 DEF OfferJob
  <2>6. \A u \in Session \ {s} : DOMAIN mine'[s] \cap DOMAIN mine[u] = {}
    BY <2>1 DEF OffersInv, WritesApart
  <2> QED BY <2>1, <2>5, <2>6, OffersStay, OffersMove
<1>4. CASE c[t] # Same /\ Write(s, new, "insert rows", job[s])
  <2>1. /\ Others(s) /\ Watched(s) /\ at'[s] = "insert rows" /\ job'[s] = job[s]
        /\ mine'[s] = Over(new, mine[s]) /\ db' = db
        /\ \A u \in Session \ {s} : DOMAIN new \cap DOMAIN mine[u] = {}
    <3> HIDE DEF new
    <3>1. Shaped /\ at[s] # "idle" BY <1>1 DEF OffersInv
    <3> QED BY <1>4, <3>1, WriteMoves
  <2>2. /\ DOMAIN new = there /\ there \subseteq {Offers!Of(p, t, u) : u \in Session}
        /\ \A r \in there : new[r] = {}
    OBVIOUS
  <2>3. \A r \in {Offers!Of(p, t, u) : u \in Session} : r \notin there => Sees(s, r) = {}
    OBVIOUS
  <2>4. {Offers!Of(p, t, u) : u \in Session} \subseteq RowsOf(p) \ Promo
    BY <1>2, OffersTables, OffersRows
  <2> HIDE DEF there, new, t
  <2>5. FoundIn(s, p, t)' = {}
    <3>1. ASSUME NEW u \in Session PROVE Sees(s, Offers!Of(p, t, u))' = {}
      <4> DEFINE r == Offers!Of(p, t, u)
      <4>1. r \in {Offers!Of(p, t, v) : v \in Session} OBVIOUS
      <4>2. r' = r BY <2>1 DEF Offers!Of, t, Offers!Tables
      <4>3. r \in there \/ Sees(s, r) = {} BY <2>3, <4>1
      <4> HIDE DEF r
      <4>4. IF r \in DOMAIN mine'[s] THEN mine'[s][r] = {} ELSE db'[r] = {}
        BY <2>1, <2>2, <4>3 DEF Over, Sees
      <4> QED BY <4>2, <4>4 DEF Sees, r
    <3> QED BY <3>1 DEF FoundIn
  <2>6. ASSUME NEW i \in 1 .. 3, i # k
        PROVE  /\ FoundIn(s, p, Offers!Tables[i])' = FoundIn(s, p, Offers!Tables[i])
               /\ LeftAlone(s, p, Offers!Tables[i])' = LeftAlone(s, p, Offers!Tables[i])
    <3>1. PICK q : q = p OBVIOUS
    <3>2. PICK z : z = Offers!Tables[i] OBVIOUS
    <3>3. z # t BY <1>2, <2>6, <3>2, TablesDiffer DEF t
    <3>4. (Offers!Tables[i])' = z /\ p' = q BY <2>1, <3>1, <3>2 DEF Offers!Tables
    <3>5. DOMAIN new \subseteq {Offers!Of(q, t, u) : u \in Session} BY <2>2, <3>1
    <3>6. PICK n, m : n = new /\ m = t OBVIOUS
    <3>7. FoundIn(s, q, z)' = FoundIn(s, q, z) /\ LeftAlone(s, q, z)' = LeftAlone(s, q, z)
      <4>1. DOMAIN n \subseteq {Offers!Of(q, m, u) : u \in Session} BY <3>5, <3>6
      <4>2. mine'[s] = Over(n, mine[s]) /\ db' = db /\ z # m BY <2>1, <3>3, <3>6
      <4> QED BY ONLY s \in Session, <4>1, <4>2, OtherTables
    <3> QED BY <3>1, <3>2, <3>4, <3>7
  <2>7. ASSUME NEW i \in 1 .. 3 PROVE Rewritten(s, i)'
    <3>1. Rewritten(s, i) BY <1>2 DEF Holding
    <3>2. CASE i = k
      <4>1. ~(i > k) BY <1>2, <3>2
      <4> QED BY <1>4, <2>1, <2>5, <3>2, <4>1 DEF Rewritten, t
    <3>3. CASE i # k BY <2>1, <2>6, <3>1, <3>3 DEF Rewritten
    <3> QED BY <3>2, <3>3
  <2>8. /\ DOMAIN mine'[s] = there \cup DOMAIN mine[s]
        /\ \A r \in DOMAIN mine[s] \ there : mine'[s][r] = mine[s][r]
    BY <2>1, <2>2 DEF Over
  <2>9. Holding(s)'
    <3>1. p \in DOMAIN mine'[s] /\ mine'[s][p] \in Offers!Header
      BY <1>2, <2>2, <2>4, <2>8 DEF Holding
    <3>2. DOMAIN mine'[s] \subseteq RowsOf(p) BY <1>2, <2>2, <2>4, <2>8 DEF Holding
    <3> QED BY <1>1, <1>2, <1>4, <2>1, <2>7, <3>1, <3>2 DEF Holding, t, RowsOf, Offers!Table,
               Offers!Tables
  <2>10. OfferJob(s)' BY <1>2, <2>1, <2>9 DEF OfferJob
  <2>11. \A u \in Session \ {s} : DOMAIN mine'[s] \cap DOMAIN mine[u] = {}
    BY <2>1, <2>2, <2>8 DEF OffersInv, WritesApart
  <2> QED BY <2>1, <2>10, <2>11, OffersStay, OffersMove
<1> QED BY <1>3, <1>4, OffersRequests DEF Offers!DeleteRows, Offers!Given

\* _insertRule, insertPromoSegment, replaceTargets
LEMMA OffersInsertRows ==
  ASSUME OffersInv, NEW s \in Session, Offers!InsertRows(s)
  PROVE  OffersInv'
<1>1. at[s] = "insert rows" BY DEF Offers!InsertRows
<1>2. PICK p, k, c : p = job[s].promo /\ k = job[s].table /\ c = job[s].change OBVIOUS
<1>3. /\ job[s] \in [promo : Promo \cup {None}, change : Change, table : 1 .. 4]
      /\ Holding(s) /\ k \in 1 .. 3 /\ p \in Promo /\ c[Offers!Tables[k]] # Same
  <2>1. OfferJob(s) BY DEF OffersInv
  <2>2. job[s] \in [promo : Promo \cup {None}, change : Change, table : 1 .. 4] /\ Holding(s)
    BY <1>1, <2>1 DEF OfferJob
  <2>3. p \in Promo /\ k <= 3 /\ c[Offers!Tables[k]] # Same BY <1>1, <1>2, <2>2 DEF Holding
  <2>4. k \in 1 .. 4 BY <1>2, <2>2
  <2>5. k \in 1 .. 3 BY ONLY <2>3, <2>4
  <2> QED BY <2>2, <2>3, <2>5
<1>4. PICK t : t = Offers!Tables[k] OBVIOUS
<1> DEFINE r == Offers!Of(p, t, s)
           new == [x \in {r} |-> Sees(s, r) \cup Offers!Kept(s)]
           next == [job[s] EXCEPT !.table = @ + 1]
<1>5. CASE Rollback(s) BY <1>1, <1>5, OffersRollback
<1>6. CASE Write(s, new, "delete rows", next)
  <2>1. /\ Others(s) /\ Watched(s) /\ at'[s] = "delete rows" /\ job'[s] = next
        /\ mine'[s] = Over(new, mine[s]) /\ db' = db
        /\ \A u \in Session \ {s} : DOMAIN new \cap DOMAIN mine[u] = {}
    <3> HIDE DEF new, next
    <3>1. Shaped /\ at[s] # "idle" BY <1>1 DEF OffersInv
    <3> QED BY <1>6, <3>1, WriteMoves
  <2>2. /\ next \in [promo : Promo \cup {None}, change : Change, table : 1 .. 4]
        /\ next.promo = p /\ next.change = c /\ next.table = k + 1
    <3>1. k + 1 \in 1 .. 4 BY <1>3
    <3> QED BY <1>2, <1>3, <3>1
  <2>3. DOMAIN new = {r} /\ new[r] = Sees(s, r) \cup Offers!Kept(s) OBVIOUS
  <2>4. r \in RowsOf(p) \ Promo BY <1>3, <1>4, OffersTables, OffersRows
  <2>5. FoundIn(s, p, t) = {} /\ \A u \in Session : Sees(s, Offers!Of(p, t, u)) = {}
    <3>1. Rewritten(s, k) BY <1>3 DEF Holding
    <3>2. ~(k > k) BY <1>3
    <3>3. FoundIn(s, p, t) = {} BY <1>1, <1>2, <1>3, <1>4, <3>1, <3>2 DEF Rewritten
    <3> QED BY <3>3 DEF FoundIn
  <2>6. t # "segments" => Offers!Kept(s) = c[t]
    BY <1>2, <1>4 DEF Offers!Kept, Offers!Given
  <2> HIDE DEF next, new, r
  <2>7. t # "segments" => FoundIn(s, p, t)' = c[t]
    <3>1. ASSUME NEW u \in Session, t # "segments"
          PROVE  Sees(s, Offers!Of(p, t, u))' = IF u = s THEN c[t] ELSE {}
      <4> DEFINE x == Offers!Of(p, t, u)
      <4>1. x = r <=> u = s BY OffersRows DEF r
      <4>2. Sees(s, x) = {} BY <2>5
      <4>3. Sees(s, r) = {} BY <2>5 DEF r
      <4> HIDE DEF x
      <4>4. IF x = r THEN x \in DOMAIN mine'[s] /\ mine'[s][x] = c[t]
            ELSE IF x \in DOMAIN mine'[s] THEN mine'[s][x] = {} ELSE db'[x] = {}
        BY <2>1, <2>3, <2>6, <3>1, <4>2, <4>3 DEF Over, Sees
      <4>5. IF x \in DOMAIN mine'[s] THEN mine'[s][x] = (IF u = s THEN c[t] ELSE {})
            ELSE db'[x] = (IF u = s THEN c[t] ELSE {})
        BY <4>1, <4>4
      <4> QED BY <4>5 DEF Sees, x, Offers!Of
    <3>2. \A u \in Session : \A v : t # "segments" =>
            (v \in Sees(s, Offers!Of(p, t, u))' <=> u = s /\ v \in c[t])
      BY <3>1
    <3> QED BY <3>2 DEF FoundIn
  <2>8. ASSUME NEW i \in 1 .. 3, i # k
        PROVE  /\ FoundIn(s, p, Offers!Tables[i])' = FoundIn(s, p, Offers!Tables[i])
               /\ LeftAlone(s, p, Offers!Tables[i])' = LeftAlone(s, p, Offers!Tables[i])
    <3>1. PICK z : z = Offers!Tables[i] OBVIOUS
    <3>2. z # t BY <1>3, <1>4, <2>8, <3>1, TablesDiffer
    <3>3. (Offers!Tables[i])' = z BY <3>1 DEF Offers!Tables
    <3>4. PICK n : n = new OBVIOUS
    <3>5. DOMAIN n \subseteq {Offers!Of(p, t, u) : u \in Session} BY <2>3, <3>4 DEF r
    <3>6. mine'[s] = Over(n, mine[s]) /\ db' = db BY <2>1, <3>4
    <3>7. FoundIn(s, p, z)' = FoundIn(s, p, z) /\ LeftAlone(s, p, z)' = LeftAlone(s, p, z)
      BY ONLY s \in Session, <3>2, <3>5, <3>6, OtherTables
    <3> QED BY <3>1, <3>3, <3>7
  <2>9. ASSUME NEW i \in 1 .. 3 PROVE Rewritten(s, i)'
    <3>1. Rewritten(s, i) BY <1>3 DEF Holding
    <3>2. /\ i < k => ~(i > k) /\ ~(i > k + 1) /\ i # k + 1 /\ i # k
          /\ i = k => ~(i > k + 1) /\ i # k + 1
          /\ i > k => i # k /\ (i > k + 1 \/ i = k + 1)
          /\ i < k \/ i = k \/ i > k
      BY <1>3
    <3>3. CASE i = k BY <1>3, <1>4, <2>1, <2>2, <2>7, <3>2, <3>3 DEF Rewritten
    <3>4. CASE i > k BY <1>2, <2>1, <2>2, <2>8, <3>1, <3>2, <3>4 DEF Rewritten
    <3>5. CASE i < k BY <1>2, <2>1, <2>2, <2>8, <3>1, <3>2, <3>5 DEF Rewritten
    <3> QED BY <3>2, <3>3, <3>4, <3>5
  <2>10. /\ DOMAIN mine'[s] = {r} \cup DOMAIN mine[s]
         /\ \A x \in DOMAIN mine[s] \ {r} : mine'[s][x] = mine[s][x]
    BY <2>1, <2>3 DEF Over
  <2>11. Holding(s)'
    <3>1. p \in DOMAIN mine'[s] /\ mine'[s][p] \in Offers!Header
      BY <1>2, <1>3, <2>4, <2>10 DEF Holding
    <3>2. DOMAIN mine'[s] \subseteq RowsOf(p) BY <1>2, <1>3, <2>4, <2>10 DEF Holding
    <3> QED BY <1>2, <1>3, <2>1, <2>2, <2>9, <3>1, <3>2 DEF Holding, RowsOf, Offers!Table,
               Offers!Tables
  <2>12. OfferJob(s)' BY <2>1, <2>2, <2>11 DEF OfferJob
  <2>13. \A u \in Session \ {s} : DOMAIN mine'[s] \cap DOMAIN mine[u] = {}
    BY <2>1, <2>3, <2>10 DEF OffersInv, WritesApart
  <2> QED BY <2>1, <2>12, <2>13, OffersStay, OffersMove
<1> QED BY <1>2, <1>4, <1>5, <1>6, OffersRequests DEF Offers!InsertRows

\* Whoever holds a promotion, nobody else wrote its rows.
LEMMA HeldApart ==
  ASSUME OffersInv, NEW s \in Session, NEW p \in Promo, NEW t \in Session \ {s},
         at[t] \in {"delete rows", "insert rows"}, p \notin DOMAIN mine[t]
  PROVE  job[t].promo \in Promo /\ RowsOf(job[t].promo) \cap RowsOf(p) = {}
<1>1. Holding(t) BY DEF OffersInv, OfferJob
<1>2. job[t].promo \in Promo /\ job[t].promo # p BY <1>1 DEF Holding
<1> QED BY <1>2, OffersRows

\* The request commits.
LEMMA OffersCommit ==
  ASSUME OffersInv, NEW s \in Session, Offers!EndRequest(s)
  PROVE  OffersInv'
<1>1. at[s] = "delete rows" /\ job[s].table > 3 /\ Publish(s, "idle", NoJob)
  BY OffersRequests, OffersTables DEF Offers!EndRequest
<1>2. PICK p, c : p = job[s].promo /\ c = job[s].change OBVIOUS
<1>3. c \in Change /\ Holding(s) /\ p \in Promo /\ job[s].table \in 1 .. 4
  <2>1. OfferJob(s) BY DEF OffersInv
  <2>2. job[s] \in [promo : Promo \cup {None}, change : Change, table : 1 .. 4] /\ Holding(s)
    BY <1>1, <2>1 DEF OfferJob
  <2> QED BY <1>2, <2>2 DEF Holding
<1>4. /\ Others(s) /\ Watched(s) /\ at'[s] = "idle" /\ job'[s] = NoJob
      /\ mine'[s] = Unwritten /\ Overwritten(mine[s])
  BY <1>1, PublishMoves DEF OffersInv
<1>5. /\ p \in DOMAIN mine[s] /\ mine[s][p] \in Offers!Header
      /\ DOMAIN mine[s] \subseteq RowsOf(p) /\ (c.rules = Same => db[p] # Absent)
  BY <1>2, <1>3 DEF Holding
<1>6. /\ DOMAIN db' = Offers!Row
      /\ \A r \in Offers!Row : db'[r] = Sees(s, r)
      /\ \A r \in Offers!Row \ RowsOf(p) : db'[r] = db[r]
  <2>1. DOMAIN db = Offers!Row BY DEF OffersInv
  <2>2. DOMAIN mine[s] \subseteq Offers!Row BY <1>3, <1>5, OffersRows
  <2> QED BY <1>4, <1>5, <2>1, <2>2 DEF Overwritten, Sees
<1>7. \A q \in Promo : RowsOf(q) \subseteq Offers!Row /\ q \in RowsOf(q)
  BY OffersRows DEF RowsOf
<1>8. \A q \in Promo \ {p} : \A r \in RowsOf(q) : db'[r] = db[r]
  BY <1>3, <1>6, <1>7, OffersRows
<1>9. \A q \in Promo : db'[q] \in Offers!Header \cup {Absent}
  <2>1. db'[p] = mine[s][p] BY <1>3, <1>5, <1>6, <1>7 DEF Sees
  <2>2. \A q \in Promo \ {p} : db'[q] = db[q] BY <1>7, <1>8
  <2> QED BY <1>5, <2>1, <2>2 DEF OffersInv
<1>10. ASSUME NEW q \in Promo, q # p, NEW t \in Offers!Table
       PROVE  Offers!Has(q, t)' = Offers!Has(q, t)
  <2>1. \A u \in Session : db'[Offers!Of(q, t, u)] = db[Offers!Of(q, t, u)]
    BY <1>8, <1>10, OffersRows
  <2> QED BY <2>1 DEF Offers!Has, Offers!Of
<1>11. ASSUME NEW t \in Offers!Table PROVE Offers!Has(p, t)' = FoundIn(s, p, t)
  <2>1. \A u \in Session : db'[Offers!Of(p, t, u)] = Sees(s, Offers!Of(p, t, u))
    BY <1>3, <1>6, <1>7, OffersRows
  <2> QED BY <2>1 DEF Offers!Has, FoundIn, Offers!Of
<1>12. ASSUME NEW i \in {1, 3}
       PROVE  FoundIn(s, p, Offers!Tables[i]) =
                IF c[Offers!Tables[i]] = Same THEN Offers!Has(p, Offers!Tables[i])
                ELSE c[Offers!Tables[i]]
  <2>1. Rewritten(s, i)
    <3>1. i \in 1 .. 3 OBVIOUS
    <3> QED BY <1>3, <3>1 DEF Holding
  <2>2. ~(i > job[s].table) /\ i # job[s].table
    <3>1. PICK k : k = job[s].table OBVIOUS
    <3>2. k \in 1 .. 4 /\ k > 3 BY <1>1, <1>3, <3>1
    <3>3. ~(i > k) /\ i # k BY ONLY i \in {1, 3}, <3>2
    <3> QED BY <3>1, <3>3
  <2>3. Offers!Tables[i] # "segments" BY OffersTables
  <2>4. LeftAlone(s, p, Offers!Tables[i]) =>
          FoundIn(s, p, Offers!Tables[i]) = Offers!Has(p, Offers!Tables[i])
    BY DEF LeftAlone, FoundIn, Offers!Has, Sees
  <2> QED BY <1>2, <2>1, <2>2, <2>3, <2>4 DEF Rewritten
<1>13. /\ Offers!Has(p, "rules")' = IF c.rules = Same THEN Offers!Has(p, "rules") ELSE c.rules
       /\ Offers!Has(p, "targets")' =
            IF c.targets = Same THEN Offers!Has(p, "targets") ELSE c.targets
  BY <1>11, <1>12, OffersTables
<1>14. Offers!Exists(p)'
  <2>1. db'[p] = mine[s][p] BY <1>3, <1>5, <1>6, <1>7 DEF Sees
  <2> QED BY <1>5, <2>1, OffersAssumed DEF Offers!Exists
<1>15. \A q \in Promo \ {p} : Offers!Exists(q)' = Offers!Exists(q)
  <2>1. \A q \in Promo \ {p} : db'[q] = db[q] BY <1>7, <1>8
  <2> QED BY <2>1 DEF Offers!Exists
<1>16. c.rules = Same => Offers!Exists(p) BY <1>5 DEF Offers!Exists
<1>17. RulesWhole'
  <2>1. RulesWhole BY DEF OffersInv, OffersWhole
  <2>2. \E d \in Change : d.rules # Same /\ Offers!Has(p, "rules")' = d.rules
    <3>1. CASE c.rules # Same BY <1>3, <1>13, <3>1
    <3>2. CASE c.rules = Same BY <1>3, <1>13, <1>16, <2>1, <3>2 DEF RulesWhole
    <3> QED BY <3>1, <3>2
  <2> QED BY <1>10, <1>14, <1>15, <2>1, <2>2, OffersTables DEF RulesWhole
<1>18. ASSUME SentTogether PROVE Offers!PromotionsWhole'
  <2>1. Offers!PromotionsWhole BY <1>18 DEF OffersInv, OffersWhole
  <2>2. c.rules = Same <=> c.targets = Same BY <1>3, <1>18 DEF SentTogether
  <2>3. \E d \in Change : \A t \in {"rules", "targets"} :
          d[t] # Same /\ Offers!Has(p, t)' = d[t]
    <3>1. CASE c.rules # Same BY <1>3, <1>13, <2>2, <3>1
    <3>2. CASE c.rules = Same
      <4>1. PICK d \in Change : \A t \in {"rules", "targets"} :
              d[t] # Same /\ Offers!Has(p, t) = d[t]
        BY <1>3, <1>16, <2>1, <3>2 DEF Offers!PromotionsWhole
      <4> QED BY <1>13, <2>2, <3>2, <4>1
    <3> QED BY <3>1, <3>2
  <2> QED BY <1>10, <1>14, <1>15, <2>1, <2>3, OffersTables DEF Offers!PromotionsWhole
<1>19. OfferJob(s)' BY <1>4 DEF OfferJob
<1>20. DOMAIN mine'[s] = {} BY <1>4 DEF Unwritten
<1>21. ASSUME NEW t \in Session \ {s}, at[t] \in {"delete rows", "insert rows"}
       PROVE  \A r \in RowsOf(job[t].promo) : db'[r] = db[r]
  <2>1. p \notin DOMAIN mine[t] BY <1>5 DEF OffersInv, WritesApart
  <2>2. job[t].promo \in Promo /\ RowsOf(job[t].promo) \cap RowsOf(p) = {}
    BY <1>3, <1>21, <2>1, HeldApart
  <2> QED BY <1>6, <1>7, <2>2
<1>22. OffersWhole' BY <1>17, <1>18 DEF OffersWhole
<1> QED BY <1>4, <1>6, <1>9, <1>19, <1>20, <1>21, <1>22, OffersMove

\* deletePromotion
LEMMA OffersDelete ==
  ASSUME OffersInv, NEW s \in Session, Offers!DeletePromotion(s)
  PROVE  OffersInv'
<1>1. PICK p \in Promo :
        /\ at[s] = "idle" /\ Free(s, RowsOf(p)) /\ calm' = (calm /\ Quiet)
        /\ db' = [r \in Offers!Row |-> IF r = p THEN Absent
                                       ELSE IF r \in RowsOf(p) THEN {} ELSE db[r]]
        /\ UNCHANGED <<mine, at, job>>
  BY OffersRequests DEF Offers!DeletePromotion, RowsOf
<1>2. Others(s) BY <1>1 DEF OffersInv, Shaped, Others
<1>3. Watched(s) BY <1>1 DEF OffersInv, Shaped, Watched, Quiet
<1>4. \A q \in Promo : RowsOf(q) \subseteq Offers!Row /\ q \in RowsOf(q)
  BY OffersRows DEF RowsOf
<1>5. /\ DOMAIN db' = Offers!Row /\ db'[p] = Absent
      /\ \A r \in Offers!Row \ RowsOf(p) : db'[r] = db[r]
      /\ \A r \in RowsOf(p) \ {p} : db'[r] = {}
  BY <1>1, <1>4
<1>6. \A q \in Promo \ {p} : \A r \in RowsOf(q) : db'[r] = db[r] BY <1>4, <1>5, OffersRows
<1>7. \A q \in Promo : db'[q] \in Offers!Header \cup {Absent}
  BY <1>4, <1>5, <1>6 DEF OffersInv
<1>8. OffersWhole'
  <2>1. ASSUME NEW q \in Promo, q # p PROVE Offers!Exists(q)' = Offers!Exists(q)
    <3>1. db'[q] = db[q] BY <1>4, <1>6, <2>1
    <3> QED BY <3>1 DEF Offers!Exists
  <2>2. ASSUME NEW q \in Promo, q # p, NEW t \in Offers!Table
        PROVE  Offers!Has(q, t)' = Offers!Has(q, t)
    <3>1. \A u \in Session : db'[Offers!Of(q, t, u)] = db[Offers!Of(q, t, u)]
      BY <1>6, <2>2, OffersRows
    <3> QED BY <3>1 DEF Offers!Has, Offers!Of
  <2>3. ~Offers!Exists(p)' BY <1>5 DEF Offers!Exists
  <2>4. ASSUME NEW t \in Offers!Table PROVE Offers!Has(p, t)' = {}
    <3>1. \A u \in Session : db'[Offers!Of(p, t, u)] = {} BY <1>5, OffersRows
    <3> QED BY <3>1 DEF Offers!Has, Offers!Of
  <2>5. RulesWhole'
    BY <2>1, <2>2, <2>3, <2>4, OffersTables DEF OffersInv, OffersWhole, RulesWhole
  <2>6. ASSUME SentTogether PROVE Offers!PromotionsWhole'
    BY <2>1, <2>2, <2>3, <2>4, <2>6, OffersTables DEF OffersInv, OffersWhole,
       Offers!PromotionsWhole
  <2> QED BY <2>5, <2>6 DEF OffersWhole
<1>9. OfferJob(s)' BY <1>1 DEF OffersInv, OfferJob
<1>10. ASSUME NEW t \in Session \ {s}, at[t] \in {"delete rows", "insert rows"}
       PROVE  \A r \in RowsOf(job[t].promo) : db'[r] = db[r]
  <2>1. p \notin DOMAIN mine[t] BY <1>1, <1>4 DEF Free
  <2>2. job[t].promo \in Promo /\ RowsOf(job[t].promo) \cap RowsOf(p) = {}
    BY <1>10, <2>1, HeldApart
  <2> QED BY <1>4, <1>5, <2>2
<1>11. \A t \in Session \ {s} : DOMAIN mine'[s] \cap DOMAIN mine[t] = {}
  BY <1>1 DEF OffersInv, WritesApart
<1> QED BY <1>2, <1>3, <1>5, <1>7, <1>8, <1>9, <1>10, <1>11, OffersMove

\* The initial state.
LEMMA OffersStart == ASSUME Offers!Init PROVE OffersInv
<1>1. Offers!RequestsInit /\ db = [r \in Offers!Row |-> IF r \in Promo THEN Absent ELSE {}]
  BY DEF Offers!Init
<1>2. Shaped /\ \A s \in Session : at[s] = "idle" /\ mine[s] = Unwritten
  BY <1>1 DEF Offers!RequestsInit, Shaped, Offers!Unwritten, Unwritten
<1>3. WritesApart BY <1>2 DEF WritesApart, Unwritten
<1>4. \A s \in Session : OfferJob(s) BY <1>2 DEF OfferJob
<1>5. DOMAIN db = Offers!Row /\ \A p \in Promo : db[p] = Absent BY <1>1 DEF Offers!Row
<1>6. OffersWhole
  <2>1. ASSUME NEW p \in Promo, NEW t \in Offers!Table PROVE Offers!Has(p, t) = {}
    <3>1. \A u \in Session : Offers!Of(p, t, u) \in Offers!Row \ Promo BY OffersRows
    <3>2. \A u \in Session : db[Offers!Of(p, t, u)] = {} BY <1>1, <3>1
    <3> QED BY <3>2 DEF Offers!Has
  <2> QED BY <1>5, <2>1 DEF OffersWhole, RulesWhole, Offers!PromotionsWhole, Offers!Exists
<1> QED BY <1>2, <1>3, <1>4, <1>5, <1>6 DEF OffersInv

\* Every step.
LEMMA OffersStep == ASSUME OffersInv, Offers!Next PROVE OffersInv'
<1>1. PICK s \in Session :
        \/ Offers!StartCreate(s) \/ Offers!InsertPromotion(s) \/ Offers!StartUpdate(s)
        \/ Offers!UpdatePromotion(s) \/ Offers!DeleteRows(s) \/ Offers!InsertRows(s)
        \/ Offers!EndRequest(s) \/ Offers!DeletePromotion(s) \/ Offers!Fail(s)
  BY DEF Offers!Next
<1>2. CASE Offers!Fail(s) BY <1>2, OffersRequests, OffersRollback
<1> QED BY <1>1, <1>2, OffersBegin, OffersInsertPromotion, OffersUpdatePromotion,
           OffersDeleteRows, OffersInsertRows, OffersCommit, OffersDelete

\* A share of no more than the whole, rounded to the cent, is no more than the whole.
LEMMA ShareFits ==
  ASSUME NEW total \in Nat, NEW percent \in 0 .. 100
  PROVE  Offers!Share(total, percent) \in 0 .. total
<1> DEFINE x == total * percent + 50
           y == x \div 100
<1>1. total * percent \in Nat /\ total * percent <= 100 * total
  <2>1. PICK d \in Nat : percent + d = 100
    <3>1. 100 - percent \in Nat /\ percent + (100 - percent) = 100 OBVIOUS
    <3> QED BY <3>1
  <2>2. total * percent + total * d = 100 * total
    <3>1. total * (percent + d) = total * percent + total * d OBVIOUS
    <3> QED BY <2>1, <3>1
  <2>3. total * percent \in Nat /\ total * d \in Nat OBVIOUS
  <2> QED BY <2>2, <2>3
<1>2. x \in Nat BY <1>1
<1>3. y \in Nat /\ 100 * y <= x
  <2> HIDE DEF x
  <2> QED BY <1>2, Floor
<1>4. y <= total
  <2> HIDE DEF y
  <2>1. 100 * y <= 100 * total + 50 BY <1>1, <1>3
  <2> QED BY <1>3, <2>1
<1> QED BY <1>3, <1>4 DEF Offers!Share

\* Two factors that are no greater have no greater product.
LEMMA ProductFits ==
  ASSUME NEW a \in Nat, NEW b \in Nat, NEW c \in Nat, a <= b
  PROVE  a * c \in Nat /\ b * c \in Nat /\ a * c <= b * c
<1>1. PICK d \in Nat : b = a + d
  <2>1. b - a \in Nat /\ b = a + (b - a) OBVIOUS
  <2> QED BY <2>1
<1>2. b * c = a * c + d * c BY <1>1
<1>3. a * c \in Nat /\ d * c \in Nat OBVIOUS
<1> QED BY <1>2, <1>3

\* No kind of promotion takes off more than what is bought costs.
LEMMA OffersFit ==
  ASSUME RulesWhole, NEW p \in Promo, NEW q \in Nat \ {0}, NEW price \in Nat,
         \A r \in Offers!Has(p, "rules") : Offers!Fair(r, price), NEW purchase,
         NEW d \in Offers!Discounts(p, q, price, purchase)
  PROVE  d \in 0 .. q * price
<1> DEFINE R == Offers!Has(p, "rules")
<1>1. R \subseteq Offers!RuleRow
  <2>1. CASE Offers!Exists(p)
    <3>1. PICK c \in Change : c.rules # Same /\ R = c.rules BY <2>1 DEF RulesWhole
    <3> QED BY <3>1, OffersAssumed
  <2>2. CASE ~Offers!Exists(p) BY <2>2, OffersTables DEF RulesWhole
  <2> QED BY <2>1, <2>2
<1>2. /\ d \in Offers!PercentageDiscount(R, q, price, purchase)
         \/ d \in Offers!FixedDiscount(R, q, price, purchase)
         \/ d \in Offers!GiftDiscount(R, q, price)
         \/ d \in Offers!VolumeDiscount(R, q, price)
         \/ d \in Offers!TierDiscount(R, q, price)
  <2> HIDE DEF R
  <2>1. Offers!Exists(p) /\ db[p].active BY DEF Offers!Discounts
  <2>2. d \in (CASE db[p].kind = "percentage" -> Offers!PercentageDiscount(R, q, price, purchase)
                 [] db[p].kind = "fixed" -> Offers!FixedDiscount(R, q, price, purchase)
                 [] db[p].kind = "buy x get y" -> Offers!GiftDiscount(R, q, price)
                 [] db[p].kind = "volume" -> Offers!VolumeDiscount(R, q, price)
                 [] db[p].kind = "tiered" -> Offers!TierDiscount(R, q, price)
                 [] OTHER -> {})
    BY <2>1 DEF Offers!Discounts, R
  <2> QED BY <2>2
<1>3. \A r \in R : Offers!Fair(r, price) OBVIOUS
<1> HIDE DEF R
<1>4. q * price \in Nat OBVIOUS
<1>5. \A r \in Offers!Percentages(R) : r \in R /\ r.percent \in 0 .. 100
  BY <1>1 DEF Offers!Percentages, Offers!RuleRow
<1>6. CASE d \in Offers!PercentageDiscount(R, q, price, purchase)
  <2>1. PICK r \in Offers!Percentages(R) : d = Offers!Share(q * price, r.percent)
    BY <1>6 DEF Offers!PercentageDiscount
  <2> QED BY <1>4, <1>5, <2>1, ShareFits
<1>7. CASE d \in Offers!VolumeDiscount(R, q, price)
  <2>1. PICK r \in Offers!Percentages(R) : d = Offers!Share(q * price, r.percent)
    BY <1>7 DEF Offers!VolumeDiscount, Offers!Volumes, Offers!Top
  <2> QED BY <1>4, <1>5, <2>1, ShareFits
<1>8. CASE d \in Offers!FixedDiscount(R, q, price, purchase)
  <2>1. PICK r \in Offers!Amounts(R) : d = IF r.amount < q * price THEN r.amount ELSE q * price
    BY <1>8 DEF Offers!FixedDiscount
  <2>2. r.amount \in Nat BY <1>1 DEF Offers!Amounts, Offers!RuleRow
  <2> DEFINE whole == q * price
  <2>3. whole \in Nat BY <1>4
  <2>4. d = IF r.amount < whole THEN r.amount ELSE whole BY <2>1
  <2> HIDE DEF whole
  <2>5. d \in 0 .. whole BY <2>2, <2>3, <2>4
  <2> QED BY <2>5 DEF whole
<1>9. CASE d \in Offers!GiftDiscount(R, q, price)
  <2>1. PICK r \in Offers!Gifts(R) : d = Offers!Share((q \div r.buy) * r.get * price, r.off)
    BY <1>9 DEF Offers!GiftDiscount
  <2>2. PICK buy, get, off : buy = r.buy /\ get = r.get /\ off = r.off OBVIOUS
  <2>3. buy \in Nat \ {0} /\ get \in 0 .. buy /\ off \in 0 .. 100
    <3>1. r \in R /\ r.buy # None /\ r.get # None BY DEF Offers!Gifts
    <3>2. r.buy \in Int /\ r.get \in Int /\ r.off \in 0 .. 100 BY <1>1, <3>1 DEF Offers!RuleRow
    <3>3. r.buy > 0 /\ r.get \in 0 .. r.buy BY <1>3, <3>1 DEF Offers!Fair
    <3>4. buy \in Int /\ buy > 0 /\ get \in 0 .. buy BY <2>2, <3>2, <3>3
    <3>5. buy \in Nat \ {0} BY ONLY <3>4
    <3> QED BY <2>2, <3>2, <3>4, <3>5
  <2> DEFINE n == q \div buy
             given == n * get
  <2>4. n \in Nat /\ buy * n <= q BY <2>3, Floor
  <2> HIDE DEF n
  <2>5. given \in Nat /\ given <= q
    <3>1. get * n \in Nat /\ buy * n \in Nat /\ get * n <= buy * n BY <2>3, <2>4, ProductFits
    <3>2. given = get * n BY <2>3, <2>4
    <3> HIDE DEF given
    <3> QED BY <2>4, <3>1, <3>2
  <2>6. d = Offers!Share(given * price, off) BY <2>1, <2>2 DEF n
  <2> HIDE DEF given
  <2>7. given * price \in Nat /\ given * price <= q * price BY <2>5, ProductFits
  <2>8. d \in 0 .. given * price BY <2>3, <2>6, <2>7, ShareFits
  <2> QED BY <1>4, <2>7, <2>8
<1>10. CASE d \in Offers!TierDiscount(R, q, price)
  <2>1. \/ \E r \in R : r.price # None /\ d = (price - r.price) * q
        \/ \E r \in R : r.less # None /\ d = Offers!Share(q * price, r.less)
    BY <1>10 DEF Offers!TierDiscount, Offers!Tiers, Offers!Top
  <2>2. CASE \E r \in R : r.less # None /\ d = Offers!Share(q * price, r.less)
    <3>1. PICK r \in R : r.less # None /\ d = Offers!Share(q * price, r.less) BY <2>2
    <3>2. r.less \in 0 .. 100 BY <1>3, <3>1 DEF Offers!Fair
    <3> QED BY <1>4, <3>1, <3>2, ShareFits
  <2>3. CASE \E r \in R : r.price # None /\ d = (price - r.price) * q
    <3>1. PICK r \in R : r.price # None /\ d = (price - r.price) * q BY <2>3
    <3>2. r.price \in 0 .. price BY <1>3, <3>1 DEF Offers!Fair
    <3>3. PICK off : off = price - r.price OBVIOUS
    <3>4. off \in Nat /\ off <= price
      <4>1. PICK x : x = r.price OBVIOUS
      <4>2. x \in 0 .. price /\ off = price - x BY <3>2, <3>3, <4>1
      <4> QED BY ONLY price \in Nat, <4>2
    <3>5. off * q \in Nat /\ price * q \in Nat /\ off * q <= price * q
      BY <3>4, ProductFits
    <3>6. price * q = q * price OBVIOUS
    <3> QED BY <3>1, <3>3, <3>5, <3>6
  <2> QED BY <2>1, <2>2, <2>3
<1> QED BY <1>2, <1>6, <1>7, <1>8, <1>9, <1>10

\* What the invariant shows.
LEMMA OffersShow ==
  ASSUME OffersInv
  PROVE  Offers!DiscountsFit /\ (SentTogether => Offers!PromotionsKept)
<1>1. RulesWhole BY DEF OffersInv, OffersWhole
<1>2. Offers!DiscountsFit
  <2>1. ASSUME NEW p \in Promo, NEW q \in 1 .. MaxUnits, NEW price \in UnitPrice,
               \A r \in Offers!Has(p, "rules") : Offers!Fair(r, price), NEW purchase,
               NEW d \in Offers!Discounts(p, q, price, purchase)
        PROVE  d \in 0 .. q * price
    <3>1. price \in Nat /\ q \in Nat \ {0} BY OffersAssumed
    <3> QED BY <1>1, <2>1, <3>1, OffersFit
  <2> QED BY <2>1 DEF Offers!DiscountsFit
<1> QED BY <1>2 DEF OffersInv, OffersWhole, Offers!PromotionsKept

-----------------------------------------------------------------------------
(* The till.                                                                *)

\* Sums over slips, of a table of them.
SumSlips(f) == SumFunctionOnSet(f, Slip)
For(v, x, p) == v[p] # Absent /\ v[p].sale = x

\* What is charged of a sale, and what was verified of it, deleted slips too.
Stands(v, x, p) == For(v, x, p) /\ ~v[p].deleted
Charged(v, x) == SumSlips([p \in Slip |-> IF Stands(v, x, p) THEN v[p].amount ELSE 0])
Tally(v, x) == SumSlips([p \in Slip |-> IF For(v, x, p) /\ v[p].verified THEN v[p].amount ELSE 0])

\* The points that slips claim: once more when they are verified after they were made.
Worth(v, p) ==
  IF v[p] = Absent THEN 0
  ELSE IF v[p].verified /\ ~v[p].born THEN 2 * v[p].points ELSE v[p].points
Redeemable(v) == SumSlips([p \in Slip |-> Worth(v, p)])

\* The sale is not paid, or something waits to be verified.
Unsettled(v, x) ==
  (\E p \in Slip : Stands(v, x, p) /\ ~v[p].verified) \/ Charged(v, x) # TicketPrice

View(s) == [r \in Counter!Row |-> Sees(s, r)]

\* What was paid of the sales on a shift, and what of it was rung up with them.
OnShift(v, t, p) ==
  v[p] # Absent /\ ~v[p].deleted /\ v[v[p].sale] # Absent /\ v[v[p].sale].shift = t
FullAt(v, t, p) == OnShift(v, t, p) /\ v[p].rung
AllOn(v, t) == SumSlips([p \in Slip |-> IF OnShift(v, t, p) THEN v[p].amount ELSE 0])
FullOn(v, t) == SumSlips([p \in Slip |-> IF FullAt(v, t, p) THEN v[p].amount ELSE 0])

\* What covers what was rung up still does.
Covered(v, w, t) == \A n \in Nat : n >= FullOn(v, t) => n >= FullOn(w, t)

\* The points that were earned, and those that a request has still to add.
EarnedOn(v) == [x \in Ticket |-> IF v[x] = Absent THEN 0 ELSE v[x].earned]
AllEarned(v) == SumFunctionOnSet(EarnedOn(v), Ticket)
Owed == [s \in Session |-> IF at[s] = "earn" THEN job[s].earned ELSE 0]
AllOwed == SumFunctionOnSet(Owed, Session)
ScoreRow == [score : Nat, lifetime : Nat, redeemed : Nat]

CloseJob == [shift : Shift, sum : Nat]
RingJob == [done : BOOLEAN, verified : BOOLEAN, amount : Nat, points : Nat, earned : Nat,
            shift : Shift \cup {Absent}]
LinkJob == [bare : Ticket, shift : Shift \cup {Absent}]
CheckJob == [slip : Slip, sale : Ticket, points : Nat, score : Nat, earned : Nat,
             shift : Shift \cup {Absent}]

\* No other request has linked a sale to the shift and not committed it.
NobodyRings(s, t) ==
  \A u \in Session \ {s} : \A x \in Ticket \cap DOMAIN mine[u] :
    mine[u][x].shift = t => db[x] # Absent /\ db[x].shift = t

\* A request that closes a shift: it has the lock, and what it counted stands.
Locking(s, t) ==
  /\ DOMAIN mine[s] = {t} /\ db[t] # Absent /\ db[t].open /\ NobodyRings(s, t)
ShiftDone(s) ==
  \E t \in Shift :
    /\ Locking(s, t) /\ mine[s][t] \in Counter!ShiftRow /\ ~mine[s][t].open
    /\ mine[s][t].total >= FullOn(db, t)

\* One that has rung up a sale.
Rung(s) ==
  \E x \in Ticket, p \in Slip :
    /\ DOMAIN mine[s] = {x, p} /\ db[x] = Absent /\ db[p] = Absent
    /\ mine[s][x] = [shift |-> job[s].shift, done |-> job[s].done, straight |-> job[s].done,
                     invoiced |-> TRUE, earned |-> job[s].earned]
    /\ mine[s][p] = [sale |-> x, amount |-> job[s].amount, points |-> job[s].points,
                     verified |-> job[s].verified, rung |-> TRUE, born |-> job[s].verified,
                     deleted |-> FALSE]

\* One that verifies a slip: what it has written of the slip, the sale and the points.
Awarded(s, x) == IF x \in DOMAIN mine[s] THEN mine[s][x].earned - db[x].earned ELSE 0
Redeemed(s) == IF at[s] \in {"balance", "redeem"} THEN 0 ELSE job[s].points
Checking(s) ==
  LET j == job[s]  p == j.slip  x == j.sale IN
  /\ j \in CheckJob /\ db[p] # Absent /\ db[p].sale = x /\ db[p].points = j.points
  /\ db[x] # Absent
  /\ DOMAIN mine[s] \subseteq {p, x, Score}
  /\ at[s] \in {"check", "complete", "commit"} => p \in DOMAIN mine[s] \/ db[p].deleted
  /\ p \in DOMAIN mine[s] => /\ at[s] \in {"check", "complete", "commit"}
                             /\ mine[s][p] = [db[p] EXCEPT !.verified = TRUE]
  /\ x \in DOMAIN mine[s] =>
       /\ at[s] = "commit" /\ mine[s][x] \in Counter!SaleRow
       /\ mine[s][x].done /\ mine[s][x].earned >= db[x].earned
  /\ at[s] = "complete" \/ x \in DOMAIN mine[s] => Tally(View(s), x) >= TicketPrice
  /\ Sees(s, Score) \in ScoreRow
  /\ Sees(s, Score).score = Sees(s, Score).lifetime - Sees(s, Score).redeemed
  /\ Sees(s, Score).lifetime = db[Score].lifetime + Awarded(s, x)
  /\ Sees(s, Score).redeemed = db[Score].redeemed + Redeemed(s)

\* Where a request is.
TillAt(s) ==
  /\ at[s] \in {"idle", "lock", "sum", "close", "ring", "pay", "sold", "earn", "deduct",
                "link", "bind", "balance", "redeem", "verify", "check", "complete", "commit"}
  /\ at[s] \in {"idle", "lock", "ring", "pay", "earn", "deduct", "link", "bind",
                "balance", "redeem"} => mine[s] = Unwritten
  /\ at[s] \in {"lock", "sum", "close"} => job[s] \in CloseJob /\ db[job[s].shift] # Absent
  /\ at[s] \in {"sum", "close"} => Locking(s, job[s].shift)
                                   /\ mine[s][job[s].shift] = db[job[s].shift]
  /\ at[s] = "close" => job[s].sum >= FullOn(db, job[s].shift)
  /\ at[s] \in {"ring", "pay", "sold", "earn", "deduct"} => job[s] \in RingJob
  /\ at[s] = "sold" => Rung(s)
  /\ at[s] \in {"link", "bind"} => job[s] \in LinkJob /\ db[job[s].bare] # Absent
  /\ at[s] \in {"balance", "redeem", "verify", "check", "complete"} => Checking(s)
  /\ at[s] = "commit" => \/ job[s] \in CloseJob /\ ShiftDone(s)
                         \/ job[s] \in RingJob /\ mine[s] = Unwritten
                         \/ Checking(s)

\* What it knows while nothing runs beside it.
TillAlone(s) ==
  /\ at[s] = "close" => job[s].sum = AllOn(db, job[s].shift)
  /\ at[s] = "commit" => \A t \in Shift \cap DOMAIN mine[s] : mine[s][t].total = AllOn(db, t)
  /\ at[s] \in {"earn", "deduct"} => db[Score].redeemed + job[s].points <= Redeemable(db)
  /\ at[s] \in {"balance", "redeem", "verify", "check", "complete", "commit"}
       /\ job[s] \in CheckJob => ~db[job[s].slip].verified /\ ~db[job[s].slip].deleted
  /\ at[s] = "commit" /\ job[s] \in CheckJob =>
       Sees(s, job[s].sale).done \/ Unsettled(View(s), job[s].sale)

\* What is committed.
TillTables ==
  /\ Counter!TypeOK /\ Counter!ScoreAddsUp
  /\ \A p \in Slip : db[p] # Absent => /\ db[db[p].sale] # Absent
                                       /\ db[p].born => db[p].verified
  /\ \A x \in Ticket : db[x] # Absent /\ db[x].done /\ ~db[x].straight =>
                       Tally(db, x) >= TicketPrice
  /\ db[Score].lifetime + AllOwed <= Start + AllEarned(db)
TillCalm == db[Score].redeemed <= Redeemable(db)

\* What makes PaidInFull inductive.
TillInv ==
  /\ Shaped /\ WritesApart /\ DOMAIN db = Counter!Row /\ TillTables /\ (calm => TillCalm)
  /\ \A s \in Session : TillAt(s) /\ (calm => TillAlone(s))

\* The till are requests like all the others.
LEMMA TillRequests ==
  /\ \A s, l, j : Counter!Begin(s, l, j) <=> Begin(s, l, j)
  /\ \A s, l, j : Counter!Look(s, l, j) <=> Look(s, l, j)
  /\ \A s, n, l, j : Counter!Write(s, n, l, j) <=> Write(s, n, l, j)
  /\ \A s, n, l, j : Counter!Apply(s, n, l, j) <=> Apply(s, n, l, j)
  /\ \A s, l, j : Counter!Publish(s, l, j) <=> Publish(s, l, j)
  /\ \A s : Counter!Commit(s) <=> Publish(s, "idle", NoJob)
  /\ \A s : Counter!Rollback(s) <=> Rollback(s)
  /\ \A s : Counter!Fail(s) <=> (at[s] # "idle" /\ Rollback(s))
  /\ \A s, r : Counter!Sees(s, r) = Sees(s, r)
  /\ \A s, R : Counter!Free(s, R) <=> Free(s, R)
  /\ Counter!Quiet <=> Quiet
BY DEF Counter!Begin, Begin, Counter!Look, Look, Counter!Goto, Goto, Counter!Quiet, Quiet,
  Counter!Write, Write, Counter!Apply, Apply, Counter!Commit, Counter!Publish, Publish,
  Counter!Free, Free, Counter!Over, Over, Counter!Fail, Counter!Rollback, Rollback,
  Counter!Unwritten, Unwritten, Counter!Sees, Sees

\* Its sums and finite sets are those of this module.
LEMMA TillSums ==
  /\ \A f : Counter!SumFunction(f) = SumFunctionOnSet(f, DOMAIN f)
  /\ \A S : Counter!IsFiniteSet(S) <=> IsFiniteSet(S)
<1>1. ASSUME NEW f PROVE Counter!SumFunction(f) = SumFunctionOnSet(f, DOMAIN f)
  BY DEF Counter!SumFunction, Counter!SumFunctionOnSet, Counter!FoldFunctionOnSet,
         Counter!MapThenFoldSet, SumFunctionOnSet, FoldFunctionOnSet, MapThenFoldSet
<1>2. ASSUME NEW S PROVE Counter!IsFiniteSet(S) <=> IsFiniteSet(S)
  BY DEF Counter!IsFiniteSet, IsFiniteSet
<1> QED BY <1>1, <1>2

\* What is assumed.
LEMMA TillAssumed ==
  /\ Terms \subseteq Counter!EveryTerms /\ TicketPrice \in Nat \ {0} /\ Start \in Nat
  /\ IsFiniteSet(Ticket) /\ IsFiniteSet(Slip) /\ IsFiniteSet(Session)
  /\ Shift \cap Ticket = {} /\ Shift \cap Slip = {} /\ Ticket \cap Slip = {}
  /\ Score \notin Shift /\ Score \notin Ticket /\ Score \notin Slip
  /\ Absent \notin Counter!Row /\ Absent \notin Counter!ShiftRow
  /\ Absent \notin Counter!SaleRow /\ Absent \notin Counter!SlipRow
  /\ Counter!Row = Shift \cup Ticket \cup Slip \cup {Score}
<1>1. Counter!TillConstants BY SellingConstants
<1>2. Counter!Row = Shift \cup Ticket \cup Slip \cup {Score} BY DEF Counter!Row
<1> QED BY <1>1, <1>2, TillSums DEF Counter!TillConstants

\* A request has one purpose.
LEMMA JobsDiffer ==
  ASSUME NEW j
  PROVE  /\ j \in CloseJob => j \notin RingJob /\ j \notin CheckJob
         /\ j \in RingJob => j \notin CheckJob
<1>1. ASSUME j \in CloseJob PROVE DOMAIN j = {"shift", "sum"} BY <1>1 DEF CloseJob
<1>2. ASSUME j \in RingJob
      PROVE  DOMAIN j = {"done", "verified", "amount", "points", "earned", "shift"}
  BY <1>2 DEF RingJob
<1>3. ASSUME j \in CheckJob
      PROVE  DOMAIN j = {"slip", "sale", "points", "score", "earned", "shift"}
  BY <1>3 DEF CheckJob
<1> QED BY <1>1, <1>2, <1>3

SlipTable(v) == \A p \in Slip : v[p] \in Counter!SlipRow \cup {Absent}

\* No slip is lost, none is unverified again and none comes back.
Grows(v, w) ==
  \A p \in Slip : v[p] # Absent =>
    /\ w[p] # Absent /\ w[p].sale = v[p].sale /\ w[p].amount = v[p].amount
    /\ w[p].points = v[p].points /\ w[p].born = v[p].born
    /\ v[p].verified => w[p].verified
    /\ v[p].deleted => w[p].deleted

\* The sums are numbers.
LEMMA SlipSums ==
  ASSUME NEW v, SlipTable(v)
  PROVE  /\ Redeemable(v) \in Nat /\ \A p \in Slip : Worth(v, p) \in Nat
         /\ \A x : Tally(v, x) \in Nat /\ Charged(v, x) \in Nat
<1>1. IsFiniteSet(Slip) BY TillAssumed
<1>2. \A p \in Slip : v[p] # Absent =>
        v[p].amount \in Nat /\ v[p].points \in Nat /\ v[p].verified \in BOOLEAN
  BY DEF SlipTable, Counter!SlipRow
<1>3. Redeemable(v) \in Nat /\ \A p \in Slip : Worth(v, p) \in Nat
  <2> DEFINE f == [p \in Slip |-> Worth(v, p)]
  <2>1. \A p \in Slip : Worth(v, p) \in Nat BY <1>2 DEF Worth
  <2>2. \A p \in Slip : f[p] \in Nat BY <2>1
  <2> HIDE DEF f
  <2>3. SumFunctionOnSet(f, Slip) \in Nat BY <1>1, <2>2, SumNatural
  <2> QED BY <2>1, <2>3 DEF Redeemable, SumSlips, f
<1>4. ASSUME NEW x PROVE Tally(v, x) \in Nat /\ Charged(v, x) \in Nat
  <2> DEFINE f == [p \in Slip |-> IF For(v, x, p) /\ v[p].verified THEN v[p].amount ELSE 0]
             g == [p \in Slip |-> IF Stands(v, x, p) THEN v[p].amount ELSE 0]
  <2>1. \A p \in Slip : f[p] \in Nat BY <1>2 DEF For
  <2>2. \A p \in Slip : g[p] \in Nat BY <1>2 DEF For, Stands
  <2> HIDE DEF f, g
  <2>3. SumFunctionOnSet(f, Slip) \in Nat BY <1>1, <2>1, SumNatural
  <2>4. SumFunctionOnSet(g, Slip) \in Nat BY <1>1, <2>2, SumNatural
  <2> QED BY <2>3, <2>4 DEF Tally, Charged, SumSlips, f, g
<1> QED BY <1>3, <1>4

\* What is verified of a sale does not get less.
LEMMA TallyGrows ==
  ASSUME NEW v, NEW w, SlipTable(v), SlipTable(w), Grows(v, w), NEW x
  PROVE  Tally(v, x) <= Tally(w, x)
<1>1. IsFiniteSet(Slip) BY TillAssumed
<1> DEFINE f == [p \in Slip |-> IF For(v, x, p) /\ v[p].verified THEN v[p].amount ELSE 0]
           g == [p \in Slip |-> IF For(w, x, p) /\ w[p].verified THEN w[p].amount ELSE 0]
<1>2. ASSUME NEW p \in Slip PROVE f[p] \in Int /\ g[p] \in Int /\ f[p] <= g[p]
  <2>1. v[p] # Absent => v[p].amount \in Nat BY DEF SlipTable, Counter!SlipRow
  <2>2. w[p] # Absent => w[p].amount \in Nat BY DEF SlipTable, Counter!SlipRow
  <2>3. f[p] \in Nat BY <2>1 DEF For
  <2>4. g[p] \in Nat BY <2>2 DEF For
  <2>5. CASE For(v, x, p) /\ v[p].verified
    <3>1. For(w, x, p) /\ w[p].verified /\ w[p].amount = v[p].amount BY <2>5 DEF Grows, For
    <3>2. f[p] = v[p].amount /\ g[p] = w[p].amount BY <2>5, <3>1
    <3> HIDE DEF f, g
    <3> QED BY <2>3, <2>4, <3>1, <3>2
  <2>6. CASE ~(For(v, x, p) /\ v[p].verified)
    <3>1. f[p] = 0 BY <2>6
    <3> HIDE DEF f, g
    <3> QED BY <2>3, <2>4, <3>1
  <2> QED BY <2>5, <2>6
<1> HIDE DEF f, g
<1>3. SumFunctionOnSet(f, Slip) <= SumFunctionOnSet(g, Slip) BY <1>1, <1>2, SumMonotone
<1> QED BY <1>3 DEF Tally, SumSlips, f, g

\* What slips claim does not get less.
LEMMA RedeemableGrows ==
  ASSUME NEW v, NEW w, SlipTable(v), SlipTable(w), Grows(v, w)
  PROVE  Redeemable(v) <= Redeemable(w)
<1>1. IsFiniteSet(Slip) BY TillAssumed
<1> DEFINE f == [p \in Slip |-> Worth(v, p)]
           g == [p \in Slip |-> Worth(w, p)]
<1>2. ASSUME NEW p \in Slip PROVE Worth(v, p) \in Int /\ Worth(w, p) \in Int /\ Worth(v, p) <= Worth(w, p)
  <2>1. Worth(v, p) \in Nat /\ Worth(w, p) \in Nat BY SlipSums
  <2>2. CASE v[p] = Absent BY <2>1, <2>2 DEF Worth
  <2>3. CASE v[p] # Absent
    <3>1. /\ w[p] # Absent /\ w[p].points = v[p].points /\ w[p].born = v[p].born
          /\ v[p].verified => w[p].verified
      BY <2>3 DEF Grows
    <3>2. v[p].points \in Nat BY <2>3 DEF SlipTable, Counter!SlipRow
    <3> QED BY <2>1, <2>3, <3>1, <3>2 DEF Worth
  <2> QED BY <2>1, <2>2, <2>3
<1>3. \A p \in Slip : f[p] \in Int /\ g[p] \in Int /\ f[p] <= g[p] BY <1>2
<1> HIDE DEF f, g
<1>4. SumFunctionOnSet(f, Slip) <= SumFunctionOnSet(g, Slip) BY <1>1, <1>3, SumMonotone
<1> QED BY <1>4 DEF Redeemable, SumSlips, f, g

\* One slip claims more.
LEMMA RedeemableAdds ==
  ASSUME NEW v, NEW w, SlipTable(v), SlipTable(w), NEW p \in Slip, NEW n \in Nat,
         \A q \in Slip \ {p} : w[q] = v[q], Worth(w, p) = Worth(v, p) + n
  PROVE  Redeemable(w) = Redeemable(v) + n
<1>1. IsFiniteSet(Slip) BY TillAssumed
<1> DEFINE f == [q \in Slip |-> Worth(v, q)]
           g == [q \in Slip |-> Worth(w, q)]
<1>2. \A q \in Slip : f[q] \in Int /\ g[q] \in Int BY SlipSums
<1>3. \A q \in Slip \ {p} : g[q] = f[q] BY DEF Worth
<1>4. g[p] = f[p] + n OBVIOUS
<1> HIDE DEF f, g
<1>5. SumFunctionOnSet(g, Slip) = SumFunctionOnSet(f, Slip) + (g[p] - f[p])
  BY ONLY <1>1, <1>2, <1>3, p \in Slip, SumChanges
<1>6. SumFunctionOnSet(f, Slip) \in Int BY <1>1, <1>2, SumType
<1>7. SumFunctionOnSet(g, Slip) = SumFunctionOnSet(f, Slip) + n BY <1>2, <1>4, <1>5, <1>6
<1> QED BY <1>7 DEF Redeemable, SumSlips, f, g

\* What is paid of a sale depends on the slips of that sale.
LEMMA SameSlips ==
  ASSUME NEW v, NEW w, NEW x, \A p \in Slip : For(v, x, p) \/ For(w, x, p) => v[p] = w[p]
  PROVE  /\ Charged(v, x) = Charged(w, x) /\ Tally(v, x) = Tally(w, x)
         /\ Unsettled(v, x) <=> Unsettled(w, x)
<1>1. \A p \in Slip : (For(v, x, p) <=> For(w, x, p)) /\ (Stands(v, x, p) <=> Stands(w, x, p))
  BY DEF For, Stands
<1>2. [p \in Slip |-> IF Stands(v, x, p) THEN v[p].amount ELSE 0] =
        [p \in Slip |-> IF Stands(w, x, p) THEN w[p].amount ELSE 0]
  BY <1>1 DEF Stands
<1>3. [p \in Slip |-> IF For(v, x, p) /\ v[p].verified THEN v[p].amount ELSE 0] =
        [p \in Slip |-> IF For(w, x, p) /\ w[p].verified THEN w[p].amount ELSE 0]
  BY <1>1
<1>4. (\E p \in Slip : Stands(v, x, p) /\ ~v[p].verified) <=>
        (\E p \in Slip : Stands(w, x, p) /\ ~w[p].verified)
  BY <1>1 DEF Stands
<1> QED BY <1>2, <1>3, <1>4 DEF Charged, Tally, Unsettled

\* When nothing waits, what is charged was verified.
LEMMA AllVerified ==
  ASSUME NEW v, SlipTable(v), NEW x, \A p \in Slip : Stands(v, x, p) => v[p].verified
  PROVE  Charged(v, x) <= Tally(v, x)
<1>1. IsFiniteSet(Slip) BY TillAssumed
<1> DEFINE f == [p \in Slip |-> IF Stands(v, x, p) THEN v[p].amount ELSE 0]
           g == [p \in Slip |-> IF For(v, x, p) /\ v[p].verified THEN v[p].amount ELSE 0]
<1>2. \A p \in Slip : v[p] # Absent => v[p].amount \in Nat BY DEF SlipTable, Counter!SlipRow
<1>3. \A p \in Slip : f[p] \in Int /\ g[p] \in Int /\ f[p] <= g[p] BY <1>2 DEF Stands, For
<1> HIDE DEF f, g
<1>4. SumFunctionOnSet(f, Slip) <= SumFunctionOnSet(g, Slip) BY <1>1, <1>3, SumMonotone
<1> QED BY <1>4 DEF Tally, Charged, SumSlips, f, g


\* What was rung up on a shift depends on its slips.
LEMMA FullLess ==
  ASSUME NEW v, NEW w, SlipTable(v), SlipTable(w), NEW h,
         \A p \in Slip : FullAt(w, h, p) => FullAt(v, h, p) /\ v[p].amount = w[p].amount
  PROVE  Covered(v, w, h)
<1>1. IsFiniteSet(Slip) BY TillAssumed
<1> DEFINE f == [p \in Slip |-> IF FullAt(w, h, p) THEN w[p].amount ELSE 0]
           g == [p \in Slip |-> IF FullAt(v, h, p) THEN v[p].amount ELSE 0]
<1>2. \A p \in Slip : /\ v[p] # Absent => v[p].amount \in Nat
                      /\ w[p] # Absent => w[p].amount \in Nat
  BY DEF SlipTable, Counter!SlipRow
<1>3. \A p \in Slip : f[p] \in Int /\ g[p] \in Int /\ f[p] <= g[p] BY <1>2 DEF FullAt, OnShift
<1> HIDE DEF f, g
<1>4. SumFunctionOnSet(f, Slip) <= SumFunctionOnSet(g, Slip) BY <1>1, <1>3, SumMonotone
<1>5. SumFunctionOnSet(f, Slip) \in Int /\ SumFunctionOnSet(g, Slip) \in Int
  BY <1>1, <1>3, SumType
<1>6. \A n \in Nat : n >= SumFunctionOnSet(g, Slip) => n >= SumFunctionOnSet(f, Slip)
  BY <1>4, <1>5
<1> QED BY <1>6 DEF Covered, FullOn, SumSlips, f, g

\* It is no more than all that was paid on it.
LEMMA FullFits ==
  ASSUME NEW v, SlipTable(v), NEW h
  PROVE  FullOn(v, h) \in Nat /\ AllOn(v, h) \in Nat /\ FullOn(v, h) <= AllOn(v, h)
<1>1. IsFiniteSet(Slip) BY TillAssumed
<1> DEFINE f == [p \in Slip |-> IF FullAt(v, h, p) THEN v[p].amount ELSE 0]
           g == [p \in Slip |-> IF OnShift(v, h, p) THEN v[p].amount ELSE 0]
<1>2. \A p \in Slip : v[p] # Absent => v[p].amount \in Nat BY DEF SlipTable, Counter!SlipRow
<1>3. \A p \in Slip : f[p] \in Nat /\ g[p] \in Nat /\ f[p] <= g[p] BY <1>2 DEF FullAt, OnShift
<1> HIDE DEF f, g
<1>4. \A p \in Slip : f[p] \in Nat BY <1>3
<1>5. \A p \in Slip : g[p] \in Nat BY <1>3
<1>6. \A p \in Slip : f[p] \in Int /\ g[p] \in Int /\ f[p] <= g[p] BY <1>3
<1>7. SumFunctionOnSet(f, Slip) \in Nat BY <1>1, <1>4, SumNatural
<1>8. SumFunctionOnSet(g, Slip) \in Nat BY <1>1, <1>5, SumNatural
<1>9. SumFunctionOnSet(f, Slip) <= SumFunctionOnSet(g, Slip) BY <1>1, <1>6, SumMonotone
<1> QED BY <1>7, <1>8, <1>9 DEF FullOn, AllOn, SumSlips, f, g

\* A sum that a statement takes, over some slips.
LEMMA SumOver ==
  ASSUME NEW P \in SUBSET Slip, NEW a, \A p \in P : a[p] \in Int
  PROVE  Counter!SumFunction([p \in P |-> a[p]]) = SumSlips([p \in Slip |-> IF p \in P THEN a[p] ELSE 0])
<1>1. IsFiniteSet(Slip) BY TillAssumed
<1> DEFINE f == [p \in P |-> a[p]]
           g == [p \in Slip |-> IF p \in P THEN a[p] ELSE 0]
<1>2. \A p \in P : f[p] \in Int /\ g[p] = f[p] OBVIOUS
<1>3. \A p \in Slip \ P : g[p] = 0 OBVIOUS
<1>4. DOMAIN f = P OBVIOUS
<1> HIDE DEF f, g
<1>5. SumFunctionOnSet(f, P) = SumFunctionOnSet(g, Slip) BY <1>1, <1>2, <1>3, SumRestrict
<1>6. Counter!SumFunction(f) = SumFunctionOnSet(f, P) BY <1>4, TillSums
<1> QED BY <1>5, <1>6 DEF SumSlips, f, g

SaleTable(v) == \A x \in Ticket : v[x] \in Counter!SaleRow \cup {Absent}

\* What is earned is a number, and moves with a sale.
LEMMA EarnedType == ASSUME NEW v, SaleTable(v) PROVE AllEarned(v) \in Nat
<1>1. \A x \in Ticket : v[x] # Absent => v[x].earned \in Nat BY DEF SaleTable, Counter!SaleRow
<1>2. \A x \in Ticket : EarnedOn(v)[x] \in Nat BY <1>1 DEF EarnedOn
<1> QED BY <1>2, TillAssumed, SumNatural DEF AllEarned

\* One sale earns more.
LEMMA EarnedMoves ==
  ASSUME NEW v, NEW w, SaleTable(v), SaleTable(w), NEW x \in Ticket,
         NEW n \in Int, \A y \in Ticket \ {x} : w[y] = v[y],
         EarnedOn(w)[x] = EarnedOn(v)[x] + n
  PROVE  AllEarned(w) = AllEarned(v) + n
<1>1. \A y \in Ticket : v[y] # Absent => v[y].earned \in Nat BY DEF SaleTable, Counter!SaleRow
<1>2. \A y \in Ticket : w[y] # Absent => w[y].earned \in Nat BY DEF SaleTable, Counter!SaleRow
<1> DEFINE f == EarnedOn(v)
           g == EarnedOn(w)
<1>3. \A y \in Ticket : f[y] \in Int /\ g[y] \in Int BY <1>1, <1>2 DEF EarnedOn
<1>4. \A y \in Ticket \ {x} : g[y] = f[y] BY DEF EarnedOn
<1>5. g[x] = f[x] + n OBVIOUS
<1> HIDE DEF f, g
<1>6. IsFiniteSet(Ticket) BY TillAssumed
<1>7. SumFunctionOnSet(g, Ticket) = SumFunctionOnSet(f, Ticket) + (g[x] - f[x])
  BY ONLY <1>3, <1>4, <1>6, x \in Ticket, SumChanges
<1>8. SumFunctionOnSet(f, Ticket) \in Int BY <1>3, <1>6, SumType
<1>9. SumFunctionOnSet(g, Ticket) = SumFunctionOnSet(f, Ticket) + n
  BY <1>3, <1>5, <1>7, <1>8
<1> QED BY <1>9 DEF AllEarned, f, g

\* What is owed is a number, and moves with a request.
LEMMA OwedType ==
  ASSUME \A s \in Session : TillAt(s)
  PROVE  AllOwed \in Nat /\ \A s \in Session : Owed[s] \in Nat
<1>1. \A s \in Session : at[s] = "earn" => job[s].earned \in Nat
  BY TillAssumed DEF TillAt, RingJob
<1>2. \A s \in Session : Owed[s] \in Nat BY <1>1 DEF Owed
<1> QED BY <1>2, TillAssumed, SumNatural DEF AllOwed

LEMMA OwedMoves ==
  ASSUME \A s \in Session : TillAt(s), NEW s \in Session, Others(s), TillAt(s)'
  PROVE  AllOwed' = AllOwed + (Owed'[s] - Owed[s])
<1> DEFINE g == Owed'
<1>1. \A t \in Session : Owed[t] \in Int BY OwedType
<1>2. \A t \in Session \ {s} : g[t] = Owed[t] BY DEF Others, Owed
<1>3. g[s] \in Int
  <2>1. at'[s] = "earn" => job'[s].earned \in Nat BY TillAssumed DEF TillAt, RingJob
  <2> QED BY <2>1 DEF Owed
<1>4. \A t \in Session : g[t] \in Int BY <1>1, <1>2, <1>3
<1>5. AllOwed' = SumFunctionOnSet(g, Session) BY DEF AllOwed
<1> HIDE DEF g
<1>6. SumFunctionOnSet(g, Session) = SumFunctionOnSet(Owed, Session) + (g[s] - Owed[s])
  BY <1>1, <1>2, <1>4, TillAssumed, SumChanges
<1> QED BY <1>5, <1>6 DEF AllOwed, g

\* What s has written links no sale to a shift anew.
LinksNone(s, h) ==
  \A x \in Ticket \cap DOMAIN mine'[s] :
    mine'[s][x].shift = h => db'[x] # Absent /\ db'[x].shift = h

\* What a step of s leaves to the others.
Considerate(s) ==
  /\ \A t \in Session \ {s} : /\ DOMAIN mine'[s] \cap DOMAIN mine[t] = {}
                              /\ \A r \in DOMAIN mine[t] : db'[r] = db[r]
  /\ Grows(db, db')
  /\ \A x \in Ticket : db[x] # Absent => db'[x] # Absent
  /\ \A h \in Shift : db[h] # Absent => db'[h] # Absent
  /\ \A t \in Session \ {s} : \A h \in Shift \cap DOMAIN mine[t] :
       Covered(db, db', h) /\ LinksNone(s, h)

\* A request that has the lock of a shift keeps it.
LEMMA LockingStays ==
  ASSUME NEW s \in Session, Others(s), Considerate(s), NEW t \in Session \ {s},
         NEW h \in Shift, Locking(t, h)
  PROVE  Locking(t, h)' /\ Covered(db, db', h)
<1>1. mine'[t] = mine[t] BY DEF Others
<1>2. h \in DOMAIN mine[t] BY DEF Locking
<1>3. db'[h] = db[h] /\ Covered(db, db', h) /\ LinksNone(s, h) BY <1>2 DEF Considerate
<1>4. NobodyRings(t, h)'
  <2>1. ASSUME NEW u \in Session \ {t}, NEW x \in Ticket \cap DOMAIN mine'[u], mine'[u][x].shift = h
        PROVE  db'[x] # Absent /\ db'[x].shift = h
    <3>1. CASE u = s BY <1>3, <2>1, <3>1 DEF LinksNone
    <3>2. CASE u # s
      <4>1. mine'[u] = mine[u] BY <3>2 DEF Others
      <4>2. db'[x] = db[x] BY <2>1, <3>2, <4>1 DEF Considerate
      <4>3. db[x] # Absent /\ db[x].shift = h BY <2>1, <4>1 DEF Locking, NobodyRings
      <4> QED BY <4>2, <4>3
    <3> QED BY <3>1, <3>2
  <2> QED BY <2>1 DEF NobodyRings
<1> QED BY <1>1, <1>3, <1>4 DEF Locking

\* The slips that a request sees are slips.
LEMMA ViewTable ==
  ASSUME NEW s \in Session, Checking(s), SlipTable(db)
  PROVE  SlipTable(View(s))
<1> DEFINE p == job[s].slip
<1>1. p \in Slip /\ db[p] # Absent BY DEF Checking, CheckJob
<1>2. \A q \in Slip \cap DOMAIN mine[s] : q = p
  BY TillAssumed DEF Checking, CheckJob
<1>3. p \in DOMAIN mine[s] => mine[s][p] = [db[p] EXCEPT !.verified = TRUE] BY DEF Checking
<1>4. db[p] \in Counter!SlipRow BY <1>1 DEF SlipTable
<1>5. p \in DOMAIN mine[s] => mine[s][p] \in Counter!SlipRow
  BY <1>3, <1>4 DEF Counter!SlipRow
<1>6. \A q \in Slip : View(s)[q] = Sees(s, q) BY TillAssumed DEF View
<1> QED BY <1>2, <1>5, <1>6 DEF SlipTable, Sees

\* One that verifies a slip goes on as it was.
LEMMA CheckingStays ==
  ASSUME NEW s \in Session, Others(s), Considerate(s), NEW t \in Session \ {s},
         Checking(t), SlipTable(db), SlipTable(db'), SaleTable(db), Counter!ScoreAddsUp, Counter!ScoreAddsUp',
         db[Score] \in ScoreRow, db'[Score] \in ScoreRow
  PROVE  Checking(t)'
<1>1. PICK m, j, a : m = mine[t] /\ j = job[t] /\ a = at[t] OBVIOUS
<1>2. mine'[t] = m /\ job'[t] = j /\ at'[t] = a BY <1>1 DEF Others
<1>3. PICK p, x : p = j.slip /\ x = j.sale OBVIOUS
<1>4. /\ j \in CheckJob /\ p \in Slip /\ x \in Ticket /\ db[p] # Absent /\ db[p].sale = x
      /\ db[p].points = j.points /\ db[x] # Absent
      /\ DOMAIN m \subseteq {p, x, Score}
      /\ a \in {"check", "complete", "commit"} => p \in DOMAIN m \/ db[p].deleted
      /\ p \in DOMAIN m => /\ a \in {"check", "complete", "commit"}
                           /\ m[p] = [db[p] EXCEPT !.verified = TRUE]
      /\ x \in DOMAIN m => /\ a = "commit" /\ m[x] \in Counter!SaleRow
                           /\ m[x].done /\ m[x].earned >= db[x].earned
      /\ a = "complete" \/ x \in DOMAIN m => Tally(View(t), x) >= TicketPrice
  BY <1>1, <1>3 DEF Checking, CheckJob
<1>5. \A r \in DOMAIN m : db'[r] = db[r] BY <1>1 DEF Considerate
<1>6. /\ db'[p] # Absent /\ db'[p].sale = x /\ db'[p].points = j.points
      /\ db'[x] # Absent /\ (db[p].deleted => db'[p].deleted)
  BY <1>4 DEF Considerate, Grows
<1>7. \A r : /\ Sees(t, r) = IF r \in DOMAIN m THEN m[r] ELSE db[r]
             /\ Sees(t, r)' = IF r \in DOMAIN m THEN m[r] ELSE db'[r]
  BY <1>1, <1>2 DEF Sees
<1>8. Tally(View(t), x) <= Tally(View(t)', x)
  <2>1. SlipTable(View(t)) BY ViewTable
  <2>2. \A q \in Slip : View(t)[q] = Sees(t, q) /\ View(t)'[q] = Sees(t, q)'
    BY TillAssumed DEF View
  <2>3. SlipTable(View(t)') BY <1>5, <1>7, <2>1, <2>2 DEF SlipTable
  <2>4. Grows(View(t), View(t)') BY <1>5, <1>7, <2>2 DEF Grows, Considerate
  <2> QED BY <2>1, <2>3, <2>4, TallyGrows
<1>9. (a = "complete" \/ x \in DOMAIN m) => Tally(View(t)', x) >= TicketPrice
  <2>1. Tally(View(t), x) \in Nat BY ViewTable, SlipSums
  <2>2. Tally(View(t)', x) \in Nat
    <3>1. SlipTable(View(t)')
      <4>1. SlipTable(View(t)) BY ViewTable
      <4>2. \A q \in Slip : View(t)[q] = Sees(t, q) /\ View(t)'[q] = Sees(t, q)'
        BY TillAssumed DEF View
      <4> QED BY <1>5, <1>7, <4>1, <4>2 DEF SlipTable
    <3> QED BY <3>1, SlipSums
  <2> QED BY <1>4, <1>8, <2>1, <2>2, TillAssumed
<1>10. PICK award : award = Awarded(t, x) OBVIOUS
<1>11. Awarded(t, x)' = award BY <1>1, <1>2, <1>5, <1>10 DEF Awarded
<1>12. PICK taken : taken = Redeemed(t) /\ Redeemed(t)' = taken BY <1>1, <1>2 DEF Redeemed
<1>13. /\ Sees(t, Score) \in ScoreRow
       /\ Sees(t, Score).score = Sees(t, Score).lifetime - Sees(t, Score).redeemed
       /\ Sees(t, Score).lifetime = db[Score].lifetime + award
       /\ Sees(t, Score).redeemed = db[Score].redeemed + taken
  BY <1>1, <1>3, <1>10, <1>12 DEF Checking
<1>14. award \in Int /\ taken \in Int
  <2>1. award \in Int
    <3>1. x \in DOMAIN m => m[x].earned \in Nat BY <1>4 DEF Counter!SaleRow
    <3>2. db[x].earned \in Nat BY <1>4 DEF SaleTable, Counter!SaleRow
    <3> QED BY <1>1, <1>10, <3>1, <3>2 DEF Awarded
  <2>2. taken \in Nat BY <1>1, <1>4, <1>12 DEF Redeemed, CheckJob
  <2> QED BY <2>1, <2>2
<1>15. /\ Sees(t, Score)' \in ScoreRow
       /\ Sees(t, Score)'.score = Sees(t, Score)'.lifetime - Sees(t, Score)'.redeemed
       /\ Sees(t, Score)'.lifetime = db'[Score].lifetime + award
       /\ Sees(t, Score)'.redeemed = db'[Score].redeemed + taken
  <2>1. CASE Score \in DOMAIN m BY <1>5, <1>7, <1>13, <2>1
  <2>2. CASE Score \notin DOMAIN m
    <3>1. Sees(t, Score) = db[Score] /\ Sees(t, Score)' = db'[Score] BY <1>7, <2>2
    <3>2. db[Score].lifetime \in Nat /\ db[Score].redeemed \in Nat BY DEF ScoreRow
    <3>3. award = 0 /\ taken = 0 BY <1>13, <1>14, <3>1, <3>2
    <3>4. db'[Score].lifetime \in Nat /\ db'[Score].redeemed \in Nat BY DEF ScoreRow
    <3>5. db'[Score].score = db'[Score].lifetime - db'[Score].redeemed BY DEF Counter!ScoreAddsUp
    <3> QED BY <3>1, <3>3, <3>4, <3>5
  <2> QED BY <2>1, <2>2
<1>16. /\ p \in DOMAIN m => m[p] = [db'[p] EXCEPT !.verified = TRUE]
       /\ x \in DOMAIN m => /\ a = "commit" /\ m[x] \in Counter!SaleRow
                            /\ m[x].done /\ m[x].earned >= db'[x].earned
       /\ a \in {"check", "complete", "commit"} => p \in DOMAIN m \/ db'[p].deleted
  BY <1>4, <1>5, <1>6
<1>17. job'[t] = j /\ job'[t].slip = p /\ job'[t].sale = x BY <1>2, <1>3
<1>18. /\ Sees(t, Score)'.lifetime = db'[Score].lifetime + Awarded(t, x)'
       /\ Sees(t, Score)'.redeemed = db'[Score].redeemed + Redeemed(t)'
  BY <1>11, <1>12, <1>15
<1> QED BY ONLY <1>2, <1>4, <1>6, <1>9, <1>15, <1>16, <1>17, <1>18 DEF Checking

\* Every request stays where it is while another moves.
LEMMA TillStays ==
  ASSUME NEW s \in Session, Others(s), Considerate(s), NEW t \in Session \ {s}, TillAt(t),
         TillTables, TillTables', SlipTable(db), SlipTable(db'), SaleTable(db)
  PROVE  TillAt(t)'
<1>1. mine'[t] = mine[t] /\ at'[t] = at[t] /\ job'[t] = job[t] BY DEF Others
<1>2. Checking(t) => Checking(t)'
  <2>1. /\ Counter!ScoreAddsUp /\ Counter!ScoreAddsUp'
        /\ db[Score] \in ScoreRow /\ db'[Score] \in ScoreRow
    BY DEF TillTables, Counter!TypeOK, ScoreRow
  <2> QED BY <2>1, CheckingStays
<1>3. \A h \in Shift : Locking(t, h) =>
        /\ Locking(t, h)' /\ Covered(db, db', h) /\ db'[h] = db[h]
  <2>1. \A h \in Shift : Locking(t, h) => db'[h] = db[h] BY DEF Locking, Considerate
  <2> QED BY <2>1, LockingStays
<1>4. \A h \in Shift : db[h] # Absent => db'[h] # Absent BY DEF Considerate
<1>5. ShiftDone(t) => ShiftDone(t)'
  <2>1. ASSUME NEW h \in Shift, Locking(t, h), mine[t][h] \in Counter!ShiftRow,
               mine[t][h].total >= FullOn(db, h)
        PROVE  mine[t][h].total >= FullOn(db', h)
    <3>1. mine[t][h].total \in Nat BY <2>1 DEF Counter!ShiftRow
    <3> QED BY <1>3, <2>1, <3>1 DEF Covered
  <2> QED BY <1>1, <1>3, <2>1 DEF ShiftDone
<1>6. Rung(t) => Rung(t)'
  <2> SUFFICES ASSUME Rung(t) PROVE Rung(t)' OBVIOUS
  <2>1. PICK m, j : m = mine[t] /\ j = job[t] OBVIOUS
  <2>2. mine'[t] = m /\ job'[t] = j BY <1>1, <2>1
  <2>3. PICK x \in Ticket, p \in Slip :
          /\ DOMAIN m = {x, p} /\ db[x] = Absent /\ db[p] = Absent
          /\ m[x] = [shift |-> j.shift, done |-> j.done, straight |-> j.done,
                     invoiced |-> TRUE, earned |-> j.earned]
          /\ m[p] = [sale |-> x, amount |-> j.amount, points |-> j.points,
                     verified |-> j.verified, rung |-> TRUE, born |-> j.verified,
                     deleted |-> FALSE]
    BY <2>1 DEF Rung
  <2>4. db'[x] = db[x] /\ db'[p] = db[p] BY <2>1, <2>3 DEF Considerate
  <2>5. \E y \in Ticket, q \in Slip :
          /\ DOMAIN mine'[t] = {y, q} /\ db'[y] = Absent /\ db'[q] = Absent
          /\ mine'[t][y] = [shift |-> job'[t].shift, done |-> job'[t].done,
                     straight |-> job'[t].done, invoiced |-> TRUE, earned |-> job'[t].earned]
          /\ mine'[t][q] = [sale |-> y, amount |-> job'[t].amount, points |-> job'[t].points,
                     verified |-> job'[t].verified, rung |-> TRUE, born |-> job'[t].verified,
                     deleted |-> FALSE]
    BY <2>2, <2>3, <2>4, Zenon
  <2> QED BY <2>5 DEF Rung
<1>7. job[t] \in CloseJob => job[t].shift \in Shift BY DEF CloseJob
<1>8. at[t] \in {"lock", "sum", "close"} => job[t] \in CloseJob /\ db'[job[t].shift] # Absent
  BY <1>4, <1>7 DEF TillAt
<1>9. at[t] \in {"sum", "close"} => /\ Locking(t, job[t].shift)'
                                    /\ mine[t][job[t].shift] = db'[job[t].shift]
                                    /\ Covered(db, db', job[t].shift)
  <2>1. PICK h : h = job[t].shift OBVIOUS
  <2>2. job'[t].shift = h BY <1>1, <2>1
  <2>3. at[t] \in {"sum", "close"} => h \in Shift /\ Locking(t, h) /\ mine[t][h] = db[h]
    BY <1>7, <2>1 DEF TillAt
  <2>4. at[t] \in {"sum", "close"} => Locking(t, h)' /\ mine[t][h] = db'[h]
                                      /\ Covered(db, db', h)
    BY <1>3, <2>3
  <2> QED BY <2>1, <2>2, <2>4 DEF Locking, NobodyRings
<1>10. at[t] = "close" => job[t].sum >= FullOn(db', job[t].shift)
  <2>1. at[t] = "close" => job[t].sum \in Nat /\ job[t].sum >= FullOn(db, job[t].shift)
    BY DEF TillAt, CloseJob
  <2> QED BY <1>9, <2>1 DEF Covered
<1>11. at[t] \in {"link", "bind"} => job[t] \in LinkJob /\ db'[job[t].bare] # Absent
  <2>1. job[t] \in LinkJob => job[t].bare \in Ticket BY DEF LinkJob
  <2> QED BY <2>1 DEF TillAt, Considerate
<1> QED
  BY ONLY <1>1, <1>2, <1>5, <1>6, <1>8, <1>9, <1>10, <1>11, TillAt(t) DEF TillAt

\* It is enough to look at the request that moves.
LEMMA TillMove ==
  ASSUME TillInv, NEW s \in Session, Others(s), Watched(s), Considerate(s),
         DOMAIN db' = Counter!Row, TillTables', calm' => TillCalm',
         TillAt(s)', calm' => TillAlone(s)'
  PROVE  TillInv'
<1>1. Shaped' BY StaysShaped DEF TillInv
<1>2. WritesApart'
  <2>1. \A u \in Session \ {s} : mine'[u] = mine[u] BY DEF Others
  <2>2. \A u \in Session \ {s} : DOMAIN mine'[s] \cap DOMAIN mine[u] = {} BY DEF Considerate
  <2>3. \A u, t \in Session : u # t => DOMAIN mine[u] \cap DOMAIN mine[t] = {}
    BY DEF TillInv, WritesApart
  <2>4. ASSUME NEW u \in Session, NEW t \in Session, u # t
        PROVE  DOMAIN mine'[u] \cap DOMAIN mine'[t] = {}
    <3>1. CASE u # s /\ t # s BY <2>1, <2>3, <2>4, <3>1
    <3>2. CASE u = s BY <2>1, <2>2, <2>4, <3>2
    <3>3. CASE t = s BY <2>1, <2>2, <2>4, <3>3
    <3> QED BY <3>1, <3>2, <3>3
  <2> QED BY <2>4 DEF WritesApart
<1>3. SlipTable(db) /\ SlipTable(db') /\ SaleTable(db)
  BY DEF TillInv, TillTables, Counter!TypeOK, SlipTable, SaleTable
<1>4. ASSUME NEW t \in Session \ {s} PROVE TillAt(t)' /\ (calm' => TillAlone(t)')
  <2>1. TillAt(t)' BY <1>3, TillStays DEF TillInv
  <2>2. ASSUME calm' PROVE at'[t] = "idle"
    <3>1. calm /\ (at[s] # "idle" \/ Quiet) BY <2>2 DEF Watched
    <3>2. at[t] = "idle" BY <3>1, OthersIdle DEF TillInv
    <3> QED BY <3>2 DEF Others
  <2>3. at'[t] = "idle" => TillAlone(t)' BY DEF TillAlone
  <2> QED BY <2>1, <2>2, <2>3
<1> QED BY <1>1, <1>2, <1>4 DEF TillInv

\* A table that stays as it is suits everybody.
LEMMA StillConsiderate ==
  ASSUME TillInv, NEW s \in Session, db' = db,
         \A t \in Session \ {s} : DOMAIN mine'[s] \cap DOMAIN mine[t] = {},
         \A t \in Session \ {s} : \A h \in Shift \cap DOMAIN mine[t] : LinksNone(s, h)
  PROVE  Considerate(s)
BY DEF Considerate, Grows, Covered

\* A step that leaves what is committed.
LEMMA TillQuietly ==
  ASSUME TillInv, NEW s \in Session, Others(s), Watched(s), db' = db,
         \A t \in Session \ {s} : DOMAIN mine'[s] \cap DOMAIN mine[t] = {},
         \A t \in Session \ {s} : \A h \in Shift \cap DOMAIN mine[t] : LinksNone(s, h),
         TillAt(s)', calm' => TillAlone(s)', at'[s] # "earn"
  PROVE  TillInv'
<1>1. Considerate(s) BY StillConsiderate
<1>2. AllOwed' <= AllOwed
  <2>1. \A t \in Session : TillAt(t) BY DEF TillInv
  <2>2. AllOwed' = AllOwed + (Owed'[s] - Owed[s]) BY <2>1, OwedMoves
  <2>3. Owed'[s] = 0 BY DEF Owed
  <2>4. AllOwed \in Nat /\ Owed[s] \in Nat BY <2>1, OwedType
  <2> QED BY <2>2, <2>3, <2>4
<1>3. TillTables'
  <2>1. AllOwed' \in Int /\ AllOwed \in Int
    <3>1. \A t \in Session : TillAt(t) BY DEF TillInv
    <3>2. AllOwed' = AllOwed + (Owed'[s] - Owed[s]) BY <3>1, OwedMoves
    <3>3. Owed'[s] = 0 BY DEF Owed
    <3>4. AllOwed \in Nat /\ Owed[s] \in Nat BY <3>1, OwedType
    <3> QED BY <3>2, <3>3, <3>4
  <2>2. TillTables BY DEF TillInv
  <2>3. Counter!TypeOK' /\ Counter!ScoreAddsUp'
    BY <2>2 DEF TillTables, Counter!TypeOK, Counter!ScoreAddsUp
  <2>4. db[Score].lifetime \in Nat /\ Start + AllEarned(db) \in Int
    <3>1. SaleTable(db) BY <2>2 DEF TillTables, Counter!TypeOK, SaleTable
    <3> QED BY <2>2, <3>1, EarnedType, TillAssumed DEF TillTables, Counter!TypeOK
  <2>5. db'[Score].lifetime + AllOwed' <= Start + AllEarned(db')
    <3>1. db[Score].lifetime + AllOwed <= Start + AllEarned(db) BY <2>2 DEF TillTables
    <3> QED BY <1>2, <2>1, <2>4, <3>1
  <2> QED BY <2>2, <2>3, <2>5 DEF TillTables
<1>4. calm' => TillCalm' BY DEF TillInv, Watched, TillCalm
<1> QED BY <1>1, <1>3, <1>4, TillMove DEF TillInv

\* Whoever has written a row of a shift has its lock.
LEMMA HolderLocks ==
  ASSUME TillInv, NEW t \in Session, NEW h \in Shift \cap DOMAIN mine[t]
  PROVE  Locking(t, h) /\ at[t] \in {"sum", "close", "commit"}
<1>1. TillAt(t) BY DEF TillInv
<1>2. mine[t] # Unwritten BY DEF Unwritten
<1>3. ~Rung(t)
  <2>1. ASSUME NEW x \in Ticket, NEW p \in Slip, DOMAIN mine[t] = {x, p} PROVE FALSE
    BY <2>1, TillAssumed
  <2> QED BY <2>1 DEF Rung
<1>4. ~Checking(t)
  <2>1. Checking(t) => job[t].slip \in Slip /\ job[t].sale \in Ticket
                       /\ DOMAIN mine[t] \subseteq {job[t].slip, job[t].sale, Score}
    BY DEF Checking, CheckJob
  <2> QED BY <2>1, TillAssumed
<1>5. at[t] \in {"sum", "close", "commit"} BY <1>1, <1>2, <1>3, <1>4 DEF TillAt
<1>6. CASE at[t] \in {"sum", "close"}
  <2>1. Locking(t, job[t].shift) BY <1>1, <1>6 DEF TillAt
  <2>2. h = job[t].shift BY <2>1 DEF Locking
  <2> QED BY <1>5, <2>1, <2>2
<1>7. CASE at[t] = "commit"
  <2>1. ShiftDone(t) BY <1>1, <1>2, <1>4, <1>7 DEF TillAt
  <2>2. PICK g \in Shift : Locking(t, g) BY <2>1 DEF ShiftDone
  <2>3. h = g BY <2>2 DEF Locking
  <2> QED BY <1>5, <2>2, <2>3
<1> QED BY <1>5, <1>6, <1>7

\* What is linked and not committed is linked to no shift that another has locked.
LEMMA RungApart ==
  ASSUME TillInv, NEW s \in Session, NEW t \in Session \ {s}, NEW h \in Shift \cap DOMAIN mine[t],
         NEW x \in Ticket \cap DOMAIN mine[s], mine[s][x].shift = h
  PROVE  db[x] # Absent /\ db[x].shift = h
<1>1. Locking(t, h) BY HolderLocks
<1> QED BY <1>1 DEF Locking, NobodyRings

\* A step that writes nothing.
LEMMA TillReads ==
  ASSUME TillInv, NEW s \in Session, Others(s), Watched(s), db' = db, mine'[s] = mine[s],
         TillAt(s)', calm' => TillAlone(s)', at'[s] # "earn"
  PROVE  TillInv'
<1>1. \A t \in Session \ {s} : DOMAIN mine'[s] \cap DOMAIN mine[t] = {}
  BY DEF TillInv, WritesApart
<1>2. \A t \in Session \ {s} : \A h \in Shift \cap DOMAIN mine[t] :
        LinksNone(s, h)
  BY RungApart DEF LinksNone
<1> QED BY <1>1, <1>2, TillQuietly

\* A request fails.
LEMMA TillRollback ==
  ASSUME TillInv, NEW s \in Session, Rollback(s), at[s] # "idle"
  PROVE  TillInv'
<1>1. /\ Others(s) /\ Watched(s) /\ at'[s] = "idle" /\ mine'[s] = Unwritten /\ db' = db
  BY RollbackMoves DEF TillInv
<1>2. TillAt(s)' BY <1>1 DEF TillAt
<1>3. TillAlone(s)' BY <1>1 DEF TillAlone
<1>4. DOMAIN mine'[s] = {} BY <1>1 DEF Unwritten
<1> QED BY <1>1, <1>2, <1>3, <1>4, TillQuietly DEF LinksNone

\* What is there has its types.
LEMMA TillTypes ==
  ASSUME TillInv
  PROVE  /\ SlipTable(db) /\ SaleTable(db) /\ db[Score] \in ScoreRow
         /\ \A h \in Shift : db[h] \in Counter!ShiftRow \cup {Absent}
         /\ db[Score].score = db[Score].lifetime - db[Score].redeemed
BY DEF TillInv, TillTables, Counter!TypeOK, SlipTable, SaleTable, ScoreRow, Counter!ScoreAddsUp

\* getSession
LEMMA TillStartClose ==
  ASSUME TillInv, NEW s \in Session, Counter!StartClose(s)
  PROVE  TillInv'
<1>1. PICK h \in Shift : Counter!Exists(h) /\ Begin(s, "lock", [shift |-> h, sum |-> 0])
  BY TillRequests DEF Counter!StartClose
<1>2. PICK j : j = [shift |-> h, sum |-> 0] OBVIOUS
<1>3. /\ Others(s) /\ Watched(s) /\ at'[s] = "lock" /\ job'[s] = j /\ mine' = mine /\ db' = db
      /\ at[s] = "idle"
  BY <1>1, <1>2, LookMoves DEF TillInv, Begin
<1>4. j \in CloseJob /\ j.shift = h BY <1>2 DEF CloseJob
<1>5. TillAt(s)'
  <2>1. mine[s] = Unwritten BY <1>3 DEF TillInv, TillAt
  <2> QED BY <1>1, <1>3, <1>4, <2>1 DEF TillAt, Counter!Exists
<1>6. TillAlone(s)' BY <1>3 DEF TillAlone
<1> QED BY <1>3, <1>5, <1>6, TillReads

\* createFullSale
LEMMA TillStartSale ==
  ASSUME TillInv, NEW s \in Session, Counter!StartSale(s)
  PROVE  TillInv'
<1>1. PICK terms \in Terms :
        LET amount == IF terms.done THEN TicketPrice ELSE TicketPrice \div 2 IN
        Begin(s, IF terms.done \/ terms.credit THEN "ring" ELSE "pay",
              [done |-> terms.done, verified |-> terms.verified, amount |-> amount,
               points |-> IF terms.points THEN amount ELSE 0,
               earned |-> IF terms.credit THEN amount ELSE TicketPrice, shift |-> Absent])
  BY TillRequests DEF Counter!StartSale
<1>2. terms.done \in BOOLEAN /\ terms.verified \in BOOLEAN BY TillAssumed DEF Counter!EveryTerms
<1>3. PICK amount : amount = IF terms.done THEN TicketPrice ELSE TicketPrice \div 2 OBVIOUS
<1>4. amount \in Nat /\ TicketPrice \in Nat BY <1>3, TillAssumed
<1>5. PICK j, label :
        /\ j = [done |-> terms.done, verified |-> terms.verified, amount |-> amount,
                points |-> IF terms.points THEN amount ELSE 0,
                earned |-> IF terms.credit THEN amount ELSE TicketPrice, shift |-> Absent]
        /\ label = IF terms.done \/ terms.credit THEN "ring" ELSE "pay"
  OBVIOUS
<1>6. /\ Others(s) /\ Watched(s) /\ at'[s] = label /\ job'[s] = j /\ mine' = mine /\ db' = db
      /\ at[s] = "idle"
  BY <1>1, <1>3, <1>5, LookMoves DEF TillInv, Begin
<1>7. j \in RingJob /\ label \in {"ring", "pay"} BY <1>2, <1>4, <1>5 DEF RingJob
<1>8. TillAt(s)'
  <2>1. mine[s] = Unwritten BY <1>6 DEF TillInv, TillAt
  <2> QED BY <1>6, <1>7, <2>1 DEF TillAt
<1>9. TillAlone(s)' BY <1>6, <1>7 DEF TillAlone
<1>10. at'[s] # "earn" BY <1>6, <1>7
<1> QED BY <1>6, <1>8, <1>9, <1>10, TillReads

\* linkSaleToActiveSession
LEMMA TillPickShift ==
  ASSUME TillInv, NEW s \in Session, Counter!PickShift(s)
  PROVE  TillInv'
<1>1. at[s] = "ring" BY DEF Counter!PickShift
<1>2. job[s] \in RingJob /\ mine[s] = Unwritten BY <1>1 DEF TillInv, TillAt
<1>3. PICK j \in RingJob : Look(s, "pay", j)
  <2>1. \A t \in Counter!Open(s) : t \in Shift /\ [job[s] EXCEPT !.shift = t] \in RingJob
    BY <1>2 DEF Counter!Open, RingJob
  <2> QED BY <1>2, <2>1, TillRequests DEF Counter!PickShift
<1>4. /\ Others(s) /\ Watched(s) /\ at'[s] = "pay" /\ job'[s] = j /\ mine' = mine /\ db' = db
  BY <1>1, <1>3, LookMoves DEF TillInv
<1>5. TillAt(s)' BY <1>2, <1>4 DEF TillAt
<1>6. TillAlone(s)' BY <1>4 DEF TillAlone
<1> QED BY <1>4, <1>5, <1>6, TillReads

\* What a statement counts on a shift, of slips and sales that its request has not written.
LEMMA SumIs ==
  ASSUME TillInv, NEW s \in Session, NEW h \in Shift, DOMAIN mine[s] = {h}
  PROVE  Counter!PaidWith(s, UNION {Counter!Paying(s, x) : x \in Counter!Linked(s, h)}) = AllOn(db, h)
<1> DEFINE P == UNION {Counter!Paying(s, x) : x \in Counter!Linked(s, h)}
           a == [p \in P |-> Sees(s, p).amount]
<1>1. \A r \in Ticket \cup Slip : Sees(s, r) = db[r] BY TillAssumed DEF Sees
<1>2. SlipTable(db) BY TillTypes
<1>3. \A p \in Slip : p \in P <=> OnShift(db, h, p)
  <2>1. \A p : p \in P <=> \E x \in Counter!Linked(s, h) : p \in Counter!Paying(s, x) OBVIOUS
  <2>2. \A x : x \in Counter!Linked(s, h) <=> x \in Ticket /\ db[x] # Absent /\ db[x].shift = h
    BY <1>1, TillRequests DEF Counter!Linked
  <2>3. \A x, p : p \in Counter!Paying(s, x) <=> 
          p \in Slip /\ db[p] # Absent /\ ~db[p].deleted /\ db[p].sale = x
    BY <1>1, TillRequests DEF Counter!Paying
  <2>4. \A p \in Slip : db[p] # Absent => db[p].sale \in Ticket
    BY <1>2 DEF SlipTable, Counter!SlipRow
  <2> HIDE DEF P
  <2> QED BY <2>1, <2>2, <2>3, <2>4 DEF OnShift
<1>4. P \in SUBSET Slip BY DEF Counter!Paying
<1>5. \A p \in P : a[p] \in Int /\ a[p] = db[p].amount
  BY <1>1, <1>2, <1>3, <1>4 DEF SlipTable, Counter!SlipRow, OnShift
<1>6. Counter!PaidWith(s, P) = Counter!SumFunction([p \in P |-> a[p]])
  <2>1. [p \in P |-> Counter!Sees(s, p).amount] = [p \in P |-> a[p]] BY TillRequests
  <2> QED BY <2>1 DEF Counter!PaidWith
<1> HIDE DEF P, a
<1>7. Counter!SumFunction([p \in P |-> a[p]]) = SumSlips([p \in Slip |-> IF p \in P THEN a[p] ELSE 0])
  BY <1>4, <1>5, SumOver
<1>8. [p \in Slip |-> IF p \in P THEN a[p] ELSE 0] =
        [p \in Slip |-> IF OnShift(db, h, p) THEN db[p].amount ELSE 0]
  BY <1>3, <1>5
<1> QED BY <1>6, <1>7, <1>8 DEF AllOn, P

\* The payments of the sales linked to the shift.
LEMMA TillSumShift ==
  ASSUME TillInv, NEW s \in Session, Counter!SumShift(s)
  PROVE  TillInv'
<1>1. at[s] = "sum" BY DEF Counter!SumShift
<1>2. PICK h : h = job[s].shift OBVIOUS
<1>3. job[s] \in CloseJob /\ h \in Shift /\ Locking(s, h) /\ mine[s][h] = db[h]
  BY <1>1, <1>2 DEF TillInv, TillAt, CloseJob
<1>4. PICK n : n = AllOn(db, h) OBVIOUS
<1>5. Look(s, "close", [job[s] EXCEPT !.sum = n])
  BY <1>2, <1>3, <1>4, SumIs, TillRequests DEF Counter!SumShift, Locking
<1>6. PICK j : j = [job[s] EXCEPT !.sum = n] OBVIOUS
<1>7. n \in Nat /\ n >= FullOn(db, h) BY <1>4, TillTypes, FullFits
<1>8. j \in CloseJob /\ j.shift = h /\ j.sum = n BY <1>2, <1>3, <1>6, <1>7 DEF CloseJob
<1>9. /\ Others(s) /\ Watched(s) /\ at'[s] = "close" /\ job'[s] = j /\ mine' = mine /\ db' = db
  BY <1>1, <1>5, <1>6, LookMoves DEF TillInv
<1>10. Locking(s, h)' BY <1>3, <1>9 DEF Locking, NobodyRings
<1>11. TillAt(s)'
  <2>1. Locking(s, job[s].shift)' BY <1>8, <1>9, <1>10 DEF Locking, NobodyRings
  <2>2. db[h] # Absent BY <1>3 DEF Locking
  <2>3. mine'[s][h] = db[h] BY <1>3, <1>9
  <2> QED BY ONLY <1>7, <1>8, <1>9, <2>1, <2>2, <2>3 DEF TillAt
<1>12. TillAlone(s)' BY <1>4, <1>8, <1>9 DEF TillAlone
<1> QED BY <1>9, <1>11, <1>12, TillReads

\* SELECT FOR UPDATE of the shift.
LEMMA TillLockShift ==
  ASSUME TillInv, NEW s \in Session, Counter!LockShift(s)
  PROVE  TillInv'
<1>1. at[s] = "lock" BY DEF Counter!LockShift
<1>2. PICK h, j : j = job[s] /\ h = j.shift OBVIOUS
<1>3. j \in CloseJob /\ h \in Shift /\ db[h] # Absent /\ mine[s] = Unwritten
  BY <1>1, <1>2 DEF TillInv, TillAt, CloseJob
<1>4. Sees(s, h) = db[h] BY <1>3 DEF Sees, Unwritten
<1>5. CASE Rollback(s) BY <1>1, <1>5, TillRollback
<1>6. CASE db[h].open /\ Write(s, [r \in {h} |-> db[h]], "sum", j)
  <2> DEFINE new == [r \in {h} |-> db[h]]
  <2>1. /\ Others(s) /\ Watched(s) /\ at'[s] = "sum" /\ job'[s] = j
        /\ mine'[s] = Over(new, mine[s]) /\ db' = db
        /\ \A t \in Session \ {s} : DOMAIN new \cap DOMAIN mine[t] = {}
    <3>1. Write(s, new, "sum", j) /\ at[s] # "idle" BY <1>1, <1>6
    <3>2. Shaped BY DEF TillInv
    <3> HIDE DEF new
    <3> QED BY ONLY s \in Session, <3>1, <3>2, WriteMoves
  <2>2. DOMAIN mine'[s] = {h} /\ mine'[s][h] = db[h] BY <1>3, <2>1 DEF Over, Unwritten
  <2>3. \A t \in Session \ {s} : DOMAIN mine'[s] \cap DOMAIN mine[t] = {} BY <2>1, <2>2
  <2>4. NobodyRings(s, h)'
    <3>1. Counter!Ringing(s, h) = {} BY <1>2 DEF Counter!LockShift
    <3>2. \A u \in Session \ {s} : \A x \in Ticket \cap DOMAIN mine[u] :
            mine[u][x].shift = h => db[x] # Absent /\ db[x].shift = h
      BY <3>1 DEF Counter!Ringing, Counter!Links
    <3>3. \A u \in Session \ {s} : mine'[u] = mine[u] BY <2>1 DEF Others
    <3> QED BY <2>1, <3>2, <3>3 DEF NobodyRings
  <2>5. Locking(s, h)' BY <1>3, <1>6, <2>1, <2>2, <2>4 DEF Locking
  <2>6. TillAt(s)'
    <3>1. Locking(s, job[s].shift)' BY <1>2, <2>1, <2>5 DEF Locking, NobodyRings
    <3> QED BY <1>2, <1>3, <2>1, <2>2, <3>1 DEF TillAt
  <2>7. TillAlone(s)' BY <2>1 DEF TillAlone
  <2>8. Ticket \cap DOMAIN mine'[s] = {} BY <1>3, <2>2, TillAssumed
  <2> QED BY <2>1, <2>3, <2>6, <2>7, <2>8, TillQuietly DEF LinksNone
<1> QED
  <2>1. \/ Rollback(s)
        \/ db[h].open /\ Write(s, [r \in {h} |-> db[h]], "sum", j)
    <3>1. IF ~Sees(s, h).open THEN Rollback(s)
          ELSE Write(s, [r \in {h} |-> Sees(s, h)], "sum", j)
      BY <1>2, TillRequests DEF Counter!LockShift
    <3> QED BY <1>4, <3>1
  <2> QED BY <1>5, <1>6, <2>1

\* UPDATE of the shift.
LEMMA TillCloseShift ==
  ASSUME TillInv, NEW s \in Session, Counter!CloseShift(s)
  PROVE  TillInv'
<1>1. at[s] = "close" BY DEF Counter!CloseShift
<1>2. PICK h, j : j = job[s] /\ h = j.shift OBVIOUS
<1>3. /\ j \in CloseJob /\ h \in Shift /\ Locking(s, h) /\ j.sum >= FullOn(db, h)
      /\ j.sum \in Nat /\ (calm => j.sum = AllOn(db, h))
  BY <1>1, <1>2 DEF TillInv, TillAt, TillAlone, CloseJob
<1> DEFINE row == [open |-> FALSE, total |-> j.sum]
           new == [r \in {h} |-> row]
<1>4. /\ Others(s) /\ Watched(s) /\ at'[s] = "commit" /\ job'[s] = j
      /\ mine'[s] = Over(new, mine[s]) /\ db' = db
      /\ \A t \in Session \ {s} : DOMAIN new \cap DOMAIN mine[t] = {}
  <2>1. Write(s, new, "commit", j) /\ at[s] # "idle"
    BY <1>1, <1>2, TillRequests DEF Counter!CloseShift
  <2>2. Shaped BY DEF TillInv
  <2> HIDE DEF new
  <2> QED BY ONLY s \in Session, <2>1, <2>2, WriteMoves
<1>5. DOMAIN mine'[s] = {h} /\ mine'[s][h] = row BY <1>3, <1>4 DEF Over, Locking
<1>6. \A t \in Session \ {s} : DOMAIN mine'[s] \cap DOMAIN mine[t] = {} BY <1>4, <1>5
<1>7. row \in Counter!ShiftRow /\ ~row.open /\ row.total = j.sum
  BY <1>3 DEF Counter!ShiftRow
<1> HIDE DEF row, new
<1>8. ShiftDone(s)'
  <2>1. Locking(s, h)' BY <1>3, <1>4, <1>5 DEF Locking, NobodyRings, Others
  <2> QED BY <1>3, <1>4, <1>5, <1>7, <2>1 DEF ShiftDone
<1>9. TillAt(s)' BY ONLY <1>3, <1>4, <1>8 DEF TillAt
<1>10. calm' => TillAlone(s)'
  <2>1. calm' => calm BY <1>4 DEF Watched
  <2>2. j \notin CheckJob BY <1>3, JobsDiffer
  <2>3. calm' => \A t \in Shift \cap DOMAIN mine'[s] : mine'[s][t].total = AllOn(db', t)
    BY <1>3, <1>4, <1>5, <1>7, <2>1
  <2> QED BY ONLY <1>4, <2>2, <2>3 DEF TillAlone
<1>11. Ticket \cap DOMAIN mine'[s] = {} BY <1>3, <1>5, TillAssumed
<1> QED BY <1>4, <1>6, <1>9, <1>10, <1>11, TillQuietly DEF LinksNone

\* The sale and its payment, written in the transaction of the request.
LEMMA TillRingUp ==
  ASSUME TillInv, NEW s \in Session, Counter!RingUp(s)
  PROVE  TillInv'
<1>1. at[s] = "pay" BY DEF Counter!RingUp
<1>2. PICK j : j = job[s] OBVIOUS
<1>3. j \in RingJob /\ mine[s] = Unwritten BY <1>1, <1>2 DEF TillInv, TillAt
<1>4. Free(s, {j.shift}) BY <1>2, TillRequests DEF Counter!RingUp
<1> DEFINE sale == [shift |-> j.shift, done |-> j.done, straight |-> j.done,
                    invoiced |-> TRUE, earned |-> j.earned]
           slip(x) == [sale |-> x, amount |-> j.amount, points |-> j.points,
                       verified |-> j.verified, rung |-> TRUE, born |-> j.verified,
                       deleted |-> FALSE]
<1>5. PICK x \in Ticket, p \in Slip :
        /\ db[x] = Absent /\ db[p] = Absent
        /\ Write(s, [r \in {x, p} |-> IF r = x THEN sale ELSE slip(x)], "sold", j)
  <2>1. \A n : Counter!Write(s, n, "sold", j) <=> Write(s, n, "sold", j) BY TillRequests
  <2> QED BY <1>2, <2>1 DEF Counter!RingUp, Counter!Exists
<1>6. x # p BY TillAssumed
<1> DEFINE new == [r \in {x, p} |-> IF r = x THEN sale ELSE slip(x)]
<1>7. /\ Others(s) /\ Watched(s) /\ at'[s] = "sold" /\ job'[s] = j
      /\ mine'[s] = Over(new, mine[s]) /\ db' = db
      /\ \A t \in Session \ {s} : DOMAIN new \cap DOMAIN mine[t] = {}
  <2>1. Write(s, new, "sold", j) /\ at[s] # "idle" BY <1>1, <1>5
  <2>2. Shaped BY DEF TillInv
  <2> HIDE DEF new
  <2> QED BY ONLY s \in Session, <2>1, <2>2, WriteMoves
<1>8. sale.shift = j.shift OBVIOUS
<1>9. DOMAIN mine'[s] = {x, p} /\ mine'[s][x] = sale /\ mine'[s][p] = slip(x)
  <2> HIDE DEF sale, slip
  <2> QED BY <1>3, <1>6, <1>7 DEF Over, Unwritten
<1>10. \A t \in Session \ {s} : DOMAIN mine'[s] \cap DOMAIN mine[t] = {} BY <1>7, <1>9
<1>11. TillAt(s)'
  <2>1. Rung(s)' BY <1>5, <1>7, <1>9 DEF Rung
  <2> HIDE DEF sale, slip, new
  <2> QED BY ONLY <1>3, <1>7, <2>1 DEF TillAt
<1>12. TillAlone(s)' BY ONLY <1>7 DEF TillAlone
<1>13. ASSUME NEW t \in Session \ {s}, NEW h \in Shift \cap DOMAIN mine[t],
              NEW y \in Ticket \cap DOMAIN mine'[s]
       PROVE  mine'[s][y].shift # h
  <2>1. y = x BY <1>9, TillAssumed
  <2>2. h # j.shift BY <1>4 DEF Free
  <2> QED BY <1>8, <1>9, <2>1, <2>2
<1>14. \A t \in Session \ {s} : \A h \in Shift \cap DOMAIN mine[t] : LinksNone(s, h)
  BY <1>13 DEF LinksNone
<1> HIDE DEF sale, slip, new
<1> QED BY <1>7, <1>10, <1>11, <1>12, <1>14, TillQuietly

\* The verification of a slip begins.
LEMMA TillStartVerify ==
  ASSUME TillInv, NEW s \in Session, Counter!StartVerify(s)
  PROVE  TillInv'
<1>1. PICK p \in Slip :
        /\ db[p] # Absent /\ ~db[p].verified /\ ~db[p].deleted
        /\ Begin(s, IF db[p].points > 0 THEN "balance" ELSE "verify",
                 [slip |-> p, sale |-> db[p].sale, points |-> db[p].points,
                  score |-> 0, earned |-> 0, shift |-> Absent])
  BY TillRequests DEF Counter!StartVerify, Counter!Exists
<1>2. PICK j, label : /\ j = [slip |-> p, sale |-> db[p].sale, points |-> db[p].points,
                              score |-> 0, earned |-> 0, shift |-> Absent]
                      /\ label = IF db[p].points > 0 THEN "balance" ELSE "verify"
  OBVIOUS
<1>3. /\ Others(s) /\ Watched(s) /\ at'[s] = label /\ job'[s] = j /\ mine' = mine /\ db' = db
      /\ at[s] = "idle"
  BY <1>1, <1>2, LookMoves DEF TillInv, Begin
<1>4. db[p] \in Counter!SlipRow BY <1>1, TillTypes DEF SlipTable
<1>5. j \in CheckJob /\ j.slip = p /\ j.sale = db[p].sale /\ j.points = db[p].points
  BY <1>2, <1>4 DEF CheckJob, Counter!SlipRow
<1>6. mine[s] = Unwritten BY <1>3 DEF TillInv, TillAt
<1>7. DOMAIN mine'[s] = {} BY <1>3, <1>6 DEF Unwritten
<1>8. Redeemed(s)' = 0
  <2>1. j.points \in Nat BY <1>5 DEF CheckJob
  <2>2. label = "verify" => j.points = 0 BY <1>2, <1>5, <2>1
  <2>3. label \in {"balance", "verify"} BY <1>2
  <2> QED BY <1>3, <2>2, <2>3 DEF Redeemed
<1>9. Checking(s)'
  <2>1. db[db[p].sale] # Absent
    BY <1>1 DEF TillInv, TillTables
  <2>2. Sees(s, Score)' = db[Score] BY <1>3, <1>7 DEF Sees
  <2>3. db[Score] \in ScoreRow /\ db[Score].score = db[Score].lifetime - db[Score].redeemed
    BY TillTypes
  <2>4. Awarded(s, j.sale)' = 0 BY <1>3, <1>7 DEF Awarded
  <2>5. db[Score].lifetime + 0 = db[Score].lifetime /\ db[Score].redeemed + 0 = db[Score].redeemed
    BY <2>3 DEF ScoreRow
  <2>6. label \in {"balance", "verify"} BY <1>2
  <2>7. Awarded(s, job[s].sale)' = 0 BY <1>3, <2>4 DEF Awarded
  <2> QED BY ONLY <1>1, <1>3, <1>5, <1>7, <1>8, <2>1, <2>2, <2>3, <2>5, <2>6, <2>7 DEF Checking
<1>10. TillAt(s)'
  <2>1. label \in {"balance", "verify"} BY <1>2
  <2> QED BY ONLY <1>3, <1>6, <1>9, <2>1 DEF TillAt
<1>11. TillAlone(s)'
  <2>1. label \in {"balance", "verify"} BY <1>2
  <2> QED BY ONLY <1>1, <1>3, <1>5, <2>1 DEF TillAlone
<1>12. label # "earn" BY <1>2
<1> QED BY <1>3, <1>10, <1>11, <1>12, TillReads

\* One that verifies a slip reads.
LEMMA CheckingReads ==
  ASSUME NEW s \in Session, Checking(s), mine'[s] = mine[s], db' = db, NEW j \in CheckJob,
         job'[s] = j, j.slip = job[s].slip, j.sale = job[s].sale, j.points = job[s].points,
         j.slip \in DOMAIN mine[s] => at'[s] \in {"check", "complete", "commit"},
         at'[s] \in {"check", "complete", "commit"} =>
           j.slip \in DOMAIN mine[s] \/ db[j.slip].deleted,
         j.sale \in DOMAIN mine[s] => at'[s] = "commit",
         at'[s] = "complete" => Tally(View(s), j.sale) >= TicketPrice,
         at[s] \in {"balance", "redeem"} <=> at'[s] \in {"balance", "redeem"}
  PROVE  Checking(s)'
<1>1. \A r : Sees(s, r)' = Sees(s, r) BY DEF Sees
<1>2. View(s)' = View(s) BY <1>1 DEF View
<1>3. Redeemed(s)' = Redeemed(s) BY DEF Redeemed
<1>4. Awarded(s, j.sale)' = Awarded(s, j.sale)
  <2>1. PICK x : x = j.sale OBVIOUS
  <2>2. job'[s].sale = x BY <2>1
  <2>3. Awarded(s, x)' = Awarded(s, x) BY DEF Awarded
  <2> QED BY <2>1, <2>2, <2>3 DEF Awarded
<1>5. Awarded(s, job[s].sale)' = Awarded(s, job[s].sale) BY <1>4 DEF Awarded
<1> QED BY <1>1, <1>2, <1>3, <1>5 DEF Checking

\* redeem_points reads the balance.
LEMMA TillReadBalance ==
  ASSUME TillInv, NEW s \in Session, Counter!ReadBalance(s)
  PROVE  TillInv'
<1>1. at[s] = "balance" BY DEF Counter!ReadBalance
<1>2. Checking(s) /\ mine[s] = Unwritten BY <1>1 DEF TillInv, TillAt
<1>3. job[s] \in CheckJob /\ Sees(s, Score).score \in Nat BY <1>2 DEF Checking, ScoreRow
<1>4. CASE Rollback(s) BY <1>1, <1>4, TillRollback
<1>5. CASE Look(s, "redeem", [job[s] EXCEPT !.score = Sees(s, Score).score])
  <2>1. PICK j : j = [job[s] EXCEPT !.score = Sees(s, Score).score] OBVIOUS
  <2>2. /\ j \in CheckJob /\ j.slip = job[s].slip /\ j.sale = job[s].sale
        /\ j.points = job[s].points
    BY <1>3, <2>1 DEF CheckJob
  <2>3. /\ Others(s) /\ Watched(s) /\ at'[s] = "redeem" /\ job'[s] = j /\ mine' = mine /\ db' = db
    BY <1>1, <1>5, <2>1, LookMoves DEF TillInv
  <2>4. Checking(s)'
    <3>1. DOMAIN mine[s] = {} BY <1>2 DEF Unwritten
    <3> QED BY <1>1, <1>2, <2>2, <2>3, <3>1, CheckingReads
  <2>5. TillAt(s)' BY ONLY <1>2, <2>3, <2>4 DEF TillAt
  <2>6. calm' => TillAlone(s)'
    <3>1. calm' => calm BY <2>3 DEF Watched
    <3>2. calm => ~db[job[s].slip].verified /\ ~db[job[s].slip].deleted
      BY <1>1, <1>3 DEF TillInv, TillAlone
    <3>3. calm' => ~db'[job'[s].slip].verified /\ ~db'[job'[s].slip].deleted
      BY <2>2, <2>3, <3>1, <3>2
    <3> QED BY ONLY <2>3, <3>3 DEF TillAlone
  <2> QED BY <2>3, <2>5, <2>6, TillReads
<1> QED BY <1>4, <1>5, TillRequests DEF Counter!ReadBalance

\* The UPDATE of the points.
LEMMA TillRedeem ==
  ASSUME TillInv, NEW s \in Session, Counter!Redeem(s)
  PROVE  TillInv'
<1>1. at[s] = "redeem" BY DEF Counter!Redeem
<1>2. PICK j : j = job[s] OBVIOUS
<1>3. Checking(s) /\ mine[s] = Unwritten BY <1>1 DEF TillInv, TillAt
<1>4. DOMAIN mine[s] = {} BY <1>3 DEF Unwritten
<1>5. PICK n : n = j.points OBVIOUS
<1>6. j \in CheckJob /\ n \in Nat BY <1>2, <1>3, <1>5 DEF Checking, CheckJob
<1>7. PICK old : old = db[Score] OBVIOUS
<1>8. Sees(s, Score) = old BY <1>4, <1>7 DEF Sees
<1>9. old \in ScoreRow /\ old.score = old.lifetime - old.redeemed BY <1>7, TillTypes
<1>10. CASE Rollback(s) BY <1>1, <1>10, TillRollback
<1>11. CASE old.score >= n /\ Write(s, [r \in {Score} |-> [Sees(s, r) EXCEPT !.score = @ - n,
                                                                    !.redeemed = @ + n]],
                                    "verify", j)
  <2> DEFINE row == [old EXCEPT !.score = @ - n, !.redeemed = @ + n]
             new == [r \in {Score} |-> row]
  <2>1. /\ Others(s) /\ Watched(s) /\ at'[s] = "verify" /\ job'[s] = j
        /\ mine'[s] = Over(new, mine[s]) /\ db' = db
        /\ \A t \in Session \ {s} : DOMAIN new \cap DOMAIN mine[t] = {}
    <3>1. [r \in {Score} |-> [Sees(s, r) EXCEPT !.score = @ - n, !.redeemed = @ + n]] = new
      BY <1>8
    <3>2. Write(s, new, "verify", j) /\ at[s] # "idle" BY <1>1, <1>11, <3>1
    <3>3. Shaped BY DEF TillInv
    <3> HIDE DEF new
    <3> QED BY ONLY s \in Session, <3>2, <3>3, WriteMoves
  <2>2. /\ row \in ScoreRow /\ row.score = row.lifetime - row.redeemed
        /\ row.lifetime = old.lifetime + 0 /\ row.redeemed = old.redeemed + n
    <3>1. PICK a, b, c : a = old.score /\ b = old.lifetime /\ c = old.redeemed OBVIOUS
    <3>2. a \in Nat /\ b \in Nat /\ c \in Nat /\ a >= n /\ a = b - c
      BY <1>9, <1>11, <3>1 DEF ScoreRow
    <3>3. a - n \in Nat /\ c + n \in Nat /\ a - n = b - (c + n) /\ b = b + 0
      BY ONLY <1>6, <3>2
    <3>4. row.score = a - n /\ row.lifetime = b /\ row.redeemed = c + n
      BY <1>9, <3>1 DEF ScoreRow
    <3>5. row \in ScoreRow BY <1>9, <3>1, <3>2, <3>3 DEF ScoreRow
    <3> QED BY <3>1, <3>3, <3>4, <3>5
  <2> HIDE DEF row
  <2>3. DOMAIN mine'[s] = {Score} /\ mine'[s][Score] = row BY <1>4, <2>1 DEF Over
  <2>4. \A t \in Session \ {s} : DOMAIN mine'[s] \cap DOMAIN mine[t] = {} BY <2>1, <2>3
  <2>5. Checking(s)'
    <3>1. Sees(s, Score)' = row BY <2>3 DEF Sees
    <3>2. j.slip # Score /\ j.sale # Score BY <1>6, TillAssumed DEF CheckJob
    <3>3. Awarded(s, job[s].sale)' = 0 BY <2>1, <2>3, <3>2 DEF Awarded
    <3>4. Redeemed(s)' = n BY <1>5, <2>1 DEF Redeemed
    <3>5. /\ db[j.slip] # Absent /\ db[j.slip].sale = j.sale /\ db[j.slip].points = j.points
          /\ db[j.sale] # Absent
      BY <1>2, <1>3 DEF Checking
    <3> QED
      BY ONLY <1>6, <1>7, <2>1, <2>2, <2>3, <3>1, <3>2, <3>3, <3>4, <3>5 DEF Checking
  <2>6. TillAt(s)' BY ONLY <2>1, <2>5 DEF TillAt
  <2>7. calm' => TillAlone(s)'
    <3>1. calm' => calm BY <2>1 DEF Watched
    <3>2. calm => ~db[j.slip].verified /\ ~db[j.slip].deleted
      BY <1>1, <1>2, <1>6 DEF TillInv, TillAlone
    <3> QED BY ONLY <2>1, <3>1, <3>2 DEF TillAlone
  <2>8. Ticket \cap DOMAIN mine'[s] = {} BY <2>3, TillAssumed
  <2> QED BY <2>1, <2>4, <2>6, <2>7, <2>8, TillQuietly DEF LinksNone
<1>12. \/ Rollback(s)
       \/ old.score >= n /\ Write(s, [r \in {Score} |-> [Sees(s, r) EXCEPT !.score = @ - n,
                                                                   !.redeemed = @ + n]],
                                 "verify", j)
  <2>1. IF Sees(s, Score).score < n THEN Rollback(s)
        ELSE Write(s, [r \in {Score} |-> [Sees(s, r) EXCEPT !.score = @ - n, !.redeemed = @ + n]],
                   "verify", j)
    BY <1>2, <1>5, TillRequests DEF Counter!Redeem
  <2>2. old.score \in Nat BY <1>9 DEF ScoreRow
  <2> QED BY <1>6, <1>8, <2>1, <2>2
<1> QED BY <1>10, <1>11, <1>12

\* A slip that was deleted is not marked.
LEMMA TillMarksNone ==
  ASSUME TillInv, NEW s \in Session, at[s] = "verify", Checking(s), job[s] \in CheckJob,
         db[job[s].slip].deleted, DOMAIN mine[s] \subseteq {Score},
         Score \notin {job[s].slip, job[s].sale}, Look(s, "check", job[s])
  PROVE  TillInv'
<1>1. PICK j : j = job[s] OBVIOUS
<1>2. /\ Others(s) /\ Watched(s) /\ at'[s] = "check" /\ job'[s] = j /\ mine' = mine /\ db' = db
  BY <1>1, LookMoves DEF TillInv
<1>3. Checking(s)'
  <2>1. j.slip \notin DOMAIN mine[s] /\ j.sale \notin DOMAIN mine[s] BY <1>1
  <2> QED BY <1>1, <1>2, <2>1, CheckingReads
<1>4. TillAt(s)' BY ONLY <1>2, <1>3 DEF TillAt
<1>5. calm' => TillAlone(s)'
  <2>1. calm' => calm BY <1>2 DEF Watched
  <2>2. ~calm BY DEF TillInv, TillAlone
  <2> QED BY <2>1, <2>2
<1> QED BY <1>2, <1>4, <1>5, TillReads

\* One that was not is.
LEMMA TillMarks ==
  ASSUME TillInv, NEW s \in Session, at[s] = "verify", Checking(s), NEW j, NEW p, NEW x,
         j = job[s], p = j.slip, x = j.sale,
         j \in CheckJob, p \in Slip, x \in Ticket, p # Score, x # Score, p # x,
         db[p] # Absent, db[p].sale = x, db[p].points = j.points, db[x] # Absent,
         DOMAIN mine[s] \subseteq {Score}, Sees(s, p) = db[p],
         Write(s, [r \in {p} |-> [Sees(s, p) EXCEPT !.verified = TRUE]], "check", j)
  PROVE  TillInv'
<1> DEFINE row == [db[p] EXCEPT !.verified = TRUE]
           new == [r \in {p} |-> row]
<1>7. /\ Others(s) /\ Watched(s) /\ at'[s] = "check" /\ job'[s] = j
      /\ mine'[s] = Over(new, mine[s]) /\ db' = db
      /\ \A t \in Session \ {s} : DOMAIN new \cap DOMAIN mine[t] = {}
  <2>2. Write(s, new, "check", j) /\ at[s] # "idle" OBVIOUS
  <2>3. Shaped BY DEF TillInv
  <2> HIDE DEF new
  <2> QED BY ONLY s \in Session, <2>2, <2>3, WriteMoves
<1> HIDE DEF row
<1>8. /\ DOMAIN mine'[s] = {p} \cup DOMAIN mine[s] /\ mine'[s][p] = row
      /\ \A r \in DOMAIN mine[s] : mine'[s][r] = mine[s][r]
  BY <1>7 DEF Over
<1>9. \A t \in Session \ {s} : DOMAIN mine'[s] \cap DOMAIN mine[t] = {}
  BY <1>7, <1>8 DEF TillInv, WritesApart
<1>10. Checking(s)'
  <2>1. Sees(s, Score)' = Sees(s, Score) BY <1>7, <1>8 DEF Sees
  <2>2. Awarded(s, job[s].sale)' = 0 /\ Awarded(s, job[s].sale) = 0
    BY <1>7, <1>8 DEF Awarded
  <2>3. Redeemed(s)' = Redeemed(s) BY <1>7 DEF Redeemed
  <2>4. /\ Sees(s, Score)' \in ScoreRow
        /\ Sees(s, Score)'.score = Sees(s, Score)'.lifetime - Sees(s, Score)'.redeemed
        /\ Sees(s, Score)'.lifetime = db[Score].lifetime + Awarded(s, job[s].sale)'
        /\ Sees(s, Score)'.redeemed = db[Score].redeemed + Redeemed(s)'
    BY <2>1, <2>2, <2>3 DEF Checking
  <2>5. p \in DOMAIN mine'[s] /\ x \notin DOMAIN mine'[s] /\ DOMAIN mine'[s] \subseteq {p, x, Score}
    BY <1>8
  <2>6. mine'[s][p] = [db'[p] EXCEPT !.verified = TRUE] BY <1>7, <1>8 DEF row
  <2>7. job'[s] = j /\ job'[s].slip = p /\ job'[s].sale = x BY <1>7
  <2> QED BY <1>7, <2>4, <2>5, <2>6, <2>7 DEF Checking
<1>11. TillAt(s)' BY ONLY <1>7, <1>10 DEF TillAt
<1>12. calm' => TillAlone(s)'
  <2>1. calm' => calm BY <1>7 DEF Watched
  <2>2. calm => ~db[j.slip].verified /\ ~db[j.slip].deleted BY DEF TillInv, TillAlone
  <2> QED BY ONLY <1>7, <2>1, <2>2 DEF TillAlone
<1>13. Ticket \cap DOMAIN mine'[s] = {} BY <1>8, TillAssumed
<1> HIDE DEF new
<1> QED BY <1>7, <1>9, <1>11, <1>12, <1>13, TillQuietly DEF LinksNone

\* The UPDATE of the slip.
LEMMA TillMarkVerified ==
  ASSUME TillInv, NEW s \in Session, Counter!MarkVerified(s)
  PROVE  TillInv'
<1>1. at[s] = "verify" BY DEF Counter!MarkVerified
<1>2. PICK j, p, x : j = job[s] /\ p = j.slip /\ x = j.sale OBVIOUS
<1>3. Checking(s) BY <1>1 DEF TillInv, TillAt
<1>4. j \in CheckJob /\ p \in Slip /\ x \in Ticket /\ p # Score /\ x # Score /\ p # x
  BY <1>2, <1>3, TillAssumed DEF Checking, CheckJob
<1>5. /\ db[p] # Absent /\ db[p].sale = x /\ db[p].points = j.points
      /\ db[x] # Absent /\ DOMAIN mine[s] \subseteq {Score}
  BY <1>1, <1>2, <1>3 DEF Checking
<1>6. Sees(s, p) = db[p] BY <1>4, <1>5 DEF Sees
<1>7. CASE db[p].deleted /\ Look(s, "check", j) BY <1>1, <1>2, <1>3, <1>4, <1>5, <1>7, TillMarksNone
<1>8. CASE Write(s, [r \in {p} |-> [Sees(s, p) EXCEPT !.verified = TRUE]], "check", j)
  BY <1>1, <1>2, <1>3, <1>4, <1>5, <1>6, <1>8, TillMarks
<1> QED BY <1>2, <1>6, <1>7, <1>8, TillRequests DEF Counter!MarkVerified

\* What a statement finds paid of a sale.
LEMMA PaidIs ==
  ASSUME NEW s \in Session, SlipTable(View(s)), NEW x,
         NEW P, P \subseteq Counter!Paying(s, x)
  PROVE  /\ Counter!PaidWith(s, P) \in Nat
         /\ P = Counter!Paying(s, x) => Counter!PaidWith(s, P) = Charged(View(s), x)
<1> DEFINE a == [p \in P |-> Sees(s, p).amount]
           g == [p \in Slip |-> IF p \in P THEN a[p] ELSE 0]
<1>1. \A p \in Slip : View(s)[p] = Sees(s, p) BY TillAssumed DEF View
<1>2. \A p : p \in Counter!Paying(s, x) <=> p \in Slip /\ Stands(View(s), x, p)
  BY <1>1, TillRequests DEF Counter!Paying, For, Stands
<1>3. P \in SUBSET Slip BY <1>2
<1>4. \A p \in P : a[p] \in Nat /\ a[p] = View(s)[p].amount
  BY <1>1, <1>2, <1>3 DEF SlipTable, For, Stands, Counter!SlipRow
<1>5. Counter!PaidWith(s, P) = Counter!SumFunction([p \in P |-> a[p]])
  <2>1. [p \in P |-> Counter!Sees(s, p).amount] = [p \in P |-> a[p]] BY TillRequests
  <2> QED BY <2>1 DEF Counter!PaidWith
<1> HIDE DEF a
<1>6. \A p \in P : a[p] \in Int BY <1>4
<1>7. Counter!SumFunction([p \in P |-> a[p]]) = SumSlips(g) BY <1>3, <1>6, SumOver
<1>8. SumSlips(g) \in Nat
  <2>1. \A p \in Slip : g[p] \in Nat BY <1>4
  <2> HIDE DEF g
  <2> QED BY <2>1, TillAssumed, SumNatural DEF SumSlips
<1>9. ASSUME P = Counter!Paying(s, x) PROVE SumSlips(g) = Charged(View(s), x)
  <2>1. g = [p \in Slip |-> IF Stands(View(s), x, p) THEN View(s)[p].amount ELSE 0]
    BY <1>2, <1>4, <1>9
  <2> HIDE DEF g
  <2> QED BY <2>1 DEF Charged
<1> QED BY <1>5, <1>7, <1>8, <1>9

\* check_sale_payment_completion
LEMMA TillCheckPaid ==
  ASSUME TillInv, NEW s \in Session, Counter!CheckPaid(s)
  PROVE  TillInv'
<1>1. at[s] = "check" BY DEF Counter!CheckPaid
<1>2. PICK j, p, x : j = job[s] /\ p = j.slip /\ x = j.sale OBVIOUS
<1>3. Checking(s) BY <1>1 DEF TillInv, TillAt
<1>4. /\ j \in CheckJob /\ x \in Ticket /\ x \notin DOMAIN mine[s]
      /\ p \in DOMAIN mine[s] \/ db[p].deleted
      /\ DOMAIN mine[s] \subseteq {p, x, Score} /\ p \in Slip
  BY <1>1, <1>2, <1>3 DEF Checking, CheckJob
<1>5. SlipTable(View(s)) BY <1>3, TillTypes, ViewTable
<1> DEFINE slips == Counter!Paying(s, x)
           money == IF Sees(s, x).invoiced THEN 0
                    ELSE Counter!PaidWith(s, {q \in slips : Sees(s, q).points = 0})
           Waits == \/ Sees(s, x).done
                    \/ \E q \in slips : ~Sees(s, q).verified
                    \/ Counter!PaidWith(s, slips) # TicketPrice
<1>6. /\ \A q \in Slip : View(s)[q] = Sees(s, q)
      /\ \A q : q \in slips <=> q \in Slip /\ Stands(View(s), x, q)
  <2>1. \A q \in Slip : View(s)[q] = Sees(s, q) BY TillAssumed DEF View
  <2> QED BY <2>1, TillRequests DEF Counter!Paying, For, Stands
<1>7. Counter!PaidWith(s, slips) = Charged(View(s), x)
  <2>1. slips \subseteq Counter!Paying(s, x) OBVIOUS
  <2> HIDE DEF slips
  <2> QED BY <1>5, <2>1, PaidIs DEF slips
<1>8. money \in Nat
  <2>1. {q \in slips : Sees(s, q).points = 0} \subseteq Counter!Paying(s, x) OBVIOUS
  <2> QED BY <1>5, <2>1, PaidIs
<1> HIDE DEF money
<1>9. \/ Waits /\ Look(s, "commit", j)
      \/ /\ ~Waits
         /\ \E k \in CheckJob : /\ k.slip = p /\ k.sale = x /\ k.points = j.points
                                /\ Look(s, "complete", k)
  <2>1. IF Waits THEN Look(s, "commit", j)
        ELSE IF Counter!Open(s) = {} \/ Sees(s, x).shift # Absent
        THEN Look(s, "complete", [j EXCEPT !.earned = money])
        ELSE \E t \in Counter!Open(s) :
               Look(s, "complete", [j EXCEPT !.earned = money, !.shift = t])
    BY <1>2, TillRequests DEF Counter!CheckPaid, money
  <2>2. \A t \in Shift : LET k == [j EXCEPT !.earned = money, !.shift = t] IN
          k \in CheckJob /\ k.slip = p /\ k.sale = x /\ k.points = j.points
    BY <1>2, <1>4, <1>8 DEF CheckJob
  <2>3. LET k == [j EXCEPT !.earned = money] IN
          k \in CheckJob /\ k.slip = p /\ k.sale = x /\ k.points = j.points
    BY <1>2, <1>4, <1>8 DEF CheckJob
  <2>4. Counter!Open(s) \subseteq Shift BY DEF Counter!Open
  <2> HIDE DEF Waits
  <2> QED BY <2>1, <2>2, <2>3, <2>4
<1>10. calm => ~db[p].verified /\ ~db[p].deleted BY <1>1, <1>2, <1>4 DEF TillInv, TillAlone
<1>11. CASE Waits /\ Look(s, "commit", j)
  <2>1. /\ Others(s) /\ Watched(s) /\ at'[s] = "commit" /\ job'[s] = j /\ mine' = mine /\ db' = db
    BY <1>1, <1>11, LookMoves DEF TillInv
  <2>2. Checking(s)' BY <1>1, <1>2, <1>3, <1>4, <2>1, CheckingReads
  <2>3. TillAt(s)' BY ONLY <2>1, <2>2 DEF TillAt
  <2>4. Sees(s, x).done \/ Unsettled(View(s), x)
    BY <1>6, <1>7, <1>11 DEF Unsettled
  <2>5. Sees(s, x)' = Sees(s, x) /\ View(s)' = View(s)
    <3>1. \A r : Sees(s, r)' = Sees(s, r) BY <2>1 DEF Sees
    <3> QED BY <3>1 DEF View
  <2>6. calm' => TillAlone(s)'
    <3>1. calm' => calm BY <2>1 DEF Watched
    <3>2. Shift \cap DOMAIN mine'[s] = {} BY <1>4, <2>1, TillAssumed
    <3>3. Sees(s, job[s].sale)'.done \/ Unsettled(View(s)', job'[s].sale)
      <4>1. job'[s].sale = x BY <1>2, <2>1
      <4>2. Sees(s, job[s].sale)' = Sees(s, x)' BY <4>1 DEF Sees
      <4> QED BY <2>4, <2>5, <4>1, <4>2
    <3> QED BY ONLY <1>2, <1>10, <2>1, <3>1, <3>2, <3>3 DEF TillAlone
  <2> QED BY <2>1, <2>3, <2>6, TillReads
<1>12. CASE /\ ~Waits
            /\ \E k \in CheckJob : /\ k.slip = p /\ k.sale = x /\ k.points = j.points
                                   /\ Look(s, "complete", k)
  <2>1. PICK k \in CheckJob : /\ k.slip = p /\ k.sale = x /\ k.points = j.points
                              /\ Look(s, "complete", k)
    BY <1>12
  <2>2. /\ Others(s) /\ Watched(s) /\ at'[s] = "complete" /\ job'[s] = k /\ mine' = mine /\ db' = db
    BY <1>1, <2>1, LookMoves DEF TillInv
  <2>3. Tally(View(s), x) >= TicketPrice
    <3>1. \A q \in Slip : Stands(View(s), x, q) => View(s)[q].verified BY <1>6, <1>12
    <3>2. TicketPrice <= Tally(View(s), x) BY <1>5, <1>7, <1>12, <3>1, AllVerified
    <3>3. Tally(View(s), x) \in Nat BY <1>5, SlipSums
    <3> QED BY <3>2, <3>3, TillAssumed
  <2>4. Checking(s)' BY <1>1, <1>2, <1>3, <1>4, <2>1, <2>2, <2>3, CheckingReads
  <2>5. TillAt(s)' BY ONLY <2>2, <2>4 DEF TillAt
  <2>6. calm' => TillAlone(s)'
    <3>1. calm' => calm BY <2>2 DEF Watched
    <3> QED BY ONLY <1>10, <2>1, <2>2, <3>1 DEF TillAlone
  <2> QED BY <2>2, <2>5, <2>6, TillReads
<1> QED BY <1>9, <1>11, <1>12

\* UPDATE of the sale, and its triggers.
LEMMA TillComplete ==
  ASSUME TillInv, NEW s \in Session, Counter!Complete(s)
  PROVE  TillInv'
<1>1. at[s] = "complete" BY DEF Counter!Complete
<1>2. PICK j, p, x : j = job[s] /\ p = j.slip /\ x = j.sale OBVIOUS
<1>3. Checking(s) BY <1>1 DEF TillInv, TillAt
<1>4. /\ j \in CheckJob /\ x \in Ticket /\ p \in Slip /\ p # x /\ p # Score /\ x # Score
      /\ x \notin DOMAIN mine[s] /\ DOMAIN mine[s] \subseteq {p, x, Score}
      /\ p \in DOMAIN mine[s] \/ db[p].deleted
      /\ p \in DOMAIN mine[s] => mine[s][p] = [db[p] EXCEPT !.verified = TRUE]
      /\ db[p] # Absent /\ db[p].sale = x /\ db[p].points = j.points
      /\ db[x] # Absent
  BY <1>1, <1>2, <1>3, TillAssumed DEF Checking, CheckJob
<1>5. PICK n, old, had : n = j.earned /\ old = db[x] /\ had = Sees(s, Score) OBVIOUS
<1>6. n \in Nat /\ old \in Counter!SaleRow /\ Sees(s, x) = old
      /\ j.shift \in Shift \cup {Absent}
  BY <1>4, <1>5, TillTypes DEF Sees, SaleTable, CheckJob
<1>7. /\ had \in ScoreRow /\ had.score = had.lifetime - had.redeemed
      /\ had.lifetime = db[Score].lifetime /\ had.redeemed = db[Score].redeemed + Redeemed(s)
  <2>1. Awarded(s, job[s].sale) = 0 BY <1>2, <1>4 DEF Awarded
  <2>2. had \in ScoreRow /\ db[Score] \in ScoreRow BY <1>3, <1>5, TillTypes DEF Checking
  <2>3. had.lifetime = db[Score].lifetime + 0 BY <1>3, <1>5, <2>1 DEF Checking
  <2>4. db[Score].lifetime \in Nat BY <2>2 DEF ScoreRow
  <2>5. had.lifetime = db[Score].lifetime BY <2>3, <2>4
  <2> QED BY <1>3, <1>5, <2>2, <2>5 DEF Checking
<1>8. PICK R, new :
        /\ x \in R /\ R \subseteq {x, Score} /\ DOMAIN new = R
        /\ Write(s, new, "commit", j)
        /\ new[x] \in Counter!SaleRow /\ new[x].done
        /\ new[x].shift \in {old.shift, j.shift}
        /\ old.done => new[x] = old /\ R = {x}
        /\ ~old.done => new[x].earned = old.earned + n /\ (n > 0 <=> Score \in R)
        /\ Score \in R => new[Score] = [had EXCEPT !.score = @ + n, !.lifetime = @ + n]
  <2>1. CASE old.done
    <3> DEFINE new == [r \in {x} |-> old]
    <3>1. Write(s, new, "commit", j)
      BY <1>2, <1>5, <1>6, <2>1, TillRequests DEF Counter!Complete
    <3>2. DOMAIN new = {x} /\ new[x] = old OBVIOUS
    <3> HIDE DEF new
    <3> QED BY <1>4, <1>6, <2>1, <3>1, <3>2
  <2>2. CASE ~old.done
    <3> DEFINE R == {x} \cup (IF n > 0 THEN {Score} ELSE {})
               row == [old EXCEPT !.done = TRUE, !.invoiced = TRUE, !.earned = @ + n,
                                    !.shift = IF j.shift = Absent THEN @ ELSE j.shift]
               more == [had EXCEPT !.score = @ + n, !.lifetime = @ + n]
               new == [r \in R |-> IF r = x THEN row ELSE more]
    <3>1. Write(s, new, "commit", j)
      <4>1. Write(s, [r \in R |->
                        IF r = x THEN [Sees(s, x) EXCEPT !.done = TRUE, !.invoiced = TRUE,
                                                         !.earned = @ + n,
                                    !.shift = IF j.shift = Absent THEN @ ELSE j.shift]
                        ELSE [Sees(s, r) EXCEPT !.score = @ + n, !.lifetime = @ + n]],
                  "commit", j)
        <5>1. Counter!Write(s, [r \in R |->
                        IF r = x THEN [Counter!Sees(s, x) EXCEPT !.done = TRUE, !.invoiced = TRUE,
                                                         !.earned = @ + n,
                                    !.shift = IF j.shift = Absent THEN @ ELSE j.shift]
                        ELSE [Counter!Sees(s, r) EXCEPT !.score = @ + n, !.lifetime = @ + n]],
                  "commit", j)
          BY <1>2, <1>5, <1>6, <2>2, TillRequests DEF Counter!Complete
        <5>2. \A m : Counter!Write(s, m, "commit", j) <=> Write(s, m, "commit", j) BY TillRequests
        <5> HIDE DEF R
        <5> QED BY ONLY <5>1, <5>2 DEF Counter!Sees, Sees
      <4>2. \A r \in R : r # x => r = Score OBVIOUS
      <4>3. [r \in R |->
               IF r = x THEN [Sees(s, x) EXCEPT !.done = TRUE, !.invoiced = TRUE,
                                                !.earned = @ + n,
                                    !.shift = IF j.shift = Absent THEN @ ELSE j.shift]
               ELSE [Sees(s, r) EXCEPT !.score = @ + n, !.lifetime = @ + n]] = new
        BY <1>5, <1>6, <4>2
      <4> QED BY <4>1, <4>3
    <3>2. DOMAIN new = R /\ new[x] = row /\ (Score \in R => new[Score] = more) BY <1>4
    <3>3. x \in R /\ R \subseteq {x, Score} /\ (n > 0 <=> Score \in R) BY <1>4
    <3>4. row \in Counter!SaleRow /\ row.done /\ row.earned = old.earned + n
         /\ row.shift \in {old.shift, j.shift}
      <4>1. PICK e, h : e = old.earned + n /\ h = IF j.shift = Absent THEN old.shift ELSE j.shift
        OBVIOUS
      <4>2. old.earned \in Nat /\ old.shift \in Shift \cup {Absent} BY <1>6 DEF Counter!SaleRow
      <4>3. e \in Nat /\ h \in Shift \cup {Absent} /\ h \in {old.shift, j.shift}
        BY ONLY <1>6, <4>1, <4>2
      <4>4. row = [old EXCEPT !.done = TRUE, !.invoiced = TRUE, !.earned = e, !.shift = h]
        BY <1>6, <4>1 DEF Counter!SaleRow
      <4> HIDE DEF row
      <4> QED BY ONLY <1>6, <4>1, <4>3, <4>4 DEF Counter!SaleRow
    <3> HIDE DEF R, row, new
    <3> QED BY <2>2, <3>1, <3>2, <3>3, <3>4
  <2> QED BY <2>1, <2>2
<1>9. /\ Others(s) /\ Watched(s) /\ at'[s] = "commit" /\ job'[s] = j
      /\ mine'[s] = Over(new, mine[s]) /\ db' = db
      /\ \A t \in Session \ {s} : DOMAIN new \cap DOMAIN mine[t] = {}
  <2>1. Write(s, new, "commit", j) /\ at[s] # "idle" /\ Shaped BY <1>1, <1>8 DEF TillInv
  <2> QED BY ONLY s \in Session, <2>1, WriteMoves
<1>10. /\ DOMAIN mine'[s] = R \cup DOMAIN mine[s]
       /\ \A r \in R : mine'[s][r] = new[r]
       /\ \A r \in DOMAIN mine[s] \ R : mine'[s][r] = mine[s][r]
  BY <1>8, <1>9 DEF Over
<1>11. \A t \in Session \ {s} : DOMAIN mine'[s] \cap DOMAIN mine[t] = {}
  BY <1>8, <1>9, <1>10 DEF TillInv, WritesApart
<1>12. Ticket \cap DOMAIN mine'[s] = {x}
  BY <1>4, <1>8, <1>10, TillAssumed
<1>13. Tally(View(s)', x) >= TicketPrice
  <2>1. \A q \in Slip : Sees(s, q)' = Sees(s, q)
    <3>1. \A q \in Slip : q \notin R BY <1>4, <1>8, TillAssumed
    <3> QED BY <1>9, <1>10, <3>1 DEF Sees
  <2>2. \A q \in Slip : View(s)'[q] = View(s)[q] BY <2>1, TillAssumed DEF View
  <2>3. Tally(View(s), x) >= TicketPrice BY <1>1, <1>2, <1>3 DEF Checking
  <2>4. Tally(View(s), x) = Tally(View(s)', x) BY <2>2, SameSlips
  <2> QED BY <2>3, <2>4
<1>14. Awarded(s, x)' = IF old.done THEN 0 ELSE n
  <2>1. old.earned \in Nat BY <1>6 DEF Counter!SaleRow
  <2>2. x \in DOMAIN mine'[s] /\ mine'[s][x] = new[x] BY <1>8, <1>10
  <2>3. Awarded(s, x)' = new[x].earned - old.earned BY <1>5, <1>9, <2>2 DEF Awarded
  <2> QED BY <1>6, <1>8, <2>1, <2>3
<1>15. PICK award : award = IF old.done THEN 0 ELSE n OBVIOUS
<1>16. /\ Sees(s, Score)' \in ScoreRow
       /\ Sees(s, Score)'.score = Sees(s, Score)'.lifetime - Sees(s, Score)'.redeemed
       /\ Sees(s, Score)'.lifetime = db[Score].lifetime + award
       /\ Sees(s, Score)'.redeemed = had.redeemed
  <2>1. CASE Score \in R
    <3>1. Sees(s, Score)' = [had EXCEPT !.score = @ + n, !.lifetime = @ + n]
      BY <1>8, <1>10, <2>1 DEF Sees
    <3>2. PICK a, b, c : a = had.score /\ b = had.lifetime /\ c = had.redeemed OBVIOUS
    <3>3. a \in Nat /\ b \in Nat /\ c \in Nat /\ a = b - c /\ b = db[Score].lifetime
      BY <1>7, <3>2 DEF ScoreRow
    <3>4. a + n \in Nat /\ b + n \in Nat /\ a + n = (b + n) - c BY ONLY <1>6, <3>3
    <3> DEFINE more == [had EXCEPT !.score = @ + n, !.lifetime = @ + n]
    <3>5. more.score = a + n /\ more.lifetime = b + n /\ more.redeemed = c
      BY <1>7, <3>2 DEF ScoreRow
    <3>7. more \in ScoreRow BY <1>7, <3>2, <3>3, <3>4 DEF ScoreRow
    <3>6. award = n BY <1>4, <1>8, <1>15, <2>1
    <3>8. Sees(s, Score)' = more BY <3>1
    <3> HIDE DEF more
    <3> QED BY <3>2, <3>3, <3>4, <3>5, <3>6, <3>7, <3>8
  <2>2. CASE Score \notin R
    <3>1. Sees(s, Score)' = had BY <1>5, <1>9, <1>10, <2>2 DEF Sees
    <3>2. award = 0 BY <1>6, <1>8, <1>15, <2>2
    <3>3. had.lifetime \in Nat BY <1>7 DEF ScoreRow
    <3> QED BY <1>7, <3>1, <3>2, <3>3
  <2> QED BY <2>1, <2>2
<1>17. Checking(s)'
  <2>1. job'[s] = j /\ job'[s].slip = p /\ job'[s].sale = x BY <1>2, <1>9
  <2>2. Redeemed(s)' = Redeemed(s) BY <1>1, <1>2, <1>9 DEF Redeemed
  <2>3. /\ Sees(s, Score)'.lifetime = db[Score].lifetime + Awarded(s, x)'
        /\ Sees(s, Score)'.redeemed = db[Score].redeemed + Redeemed(s)'
    BY <1>7, <1>14, <1>15, <1>16, <2>2
  <2>4. /\ DOMAIN mine'[s] \subseteq {p, x, Score} /\ x \in DOMAIN mine'[s]
        /\ p \in DOMAIN mine'[s] \/ db'[p].deleted
    BY <1>4, <1>8, <1>9, <1>10
  <2>5. p \in DOMAIN mine'[s] => mine'[s][p] = [db'[p] EXCEPT !.verified = TRUE]
    BY <1>4, <1>8, <1>9, <1>10
  <2>6. /\ mine'[s][x] \in Counter!SaleRow /\ mine'[s][x].done
        /\ mine'[s][x].earned >= db'[x].earned
    <3>1. old.earned \in Nat BY <1>6 DEF Counter!SaleRow
    <3>2. mine'[s][x] = new[x] /\ db'[x] = old BY <1>5, <1>8, <1>9, <1>10
    <3>3. new[x].earned >= old.earned BY <1>6, <1>8, <3>1
    <3> QED BY <1>8, <3>2, <3>3
  <2> QED BY ONLY <1>4, <1>9, <1>13, <1>16, <2>1, <2>3, <2>4, <2>5, <2>6 DEF Checking
<1>18. TillAt(s)' BY ONLY <1>9, <1>17 DEF TillAt
<1>19. calm' => TillAlone(s)'
  <2>1. calm' => calm BY <1>9 DEF Watched
  <2>2. calm => ~db[p].verified /\ ~db[p].deleted BY <1>1, <1>2, <1>4 DEF TillInv, TillAlone
  <2>3. Shift \cap DOMAIN mine'[s] = {} BY <1>4, <1>8, <1>10, TillAssumed
  <2>4. Sees(s, job[s].sale)'.done
    <3>1. job'[s].sale = x BY <1>2, <1>9
    <3> QED BY <1>8, <1>10, <3>1 DEF Sees
  <2> QED BY ONLY <1>2, <1>9, <2>1, <2>2, <2>3, <2>4 DEF TillAlone
<1>20. \A t \in Session \ {s} : \A h \in Shift \cap DOMAIN mine[t] : LinksNone(s, h)
  <2> SUFFICES ASSUME NEW t \in Session \ {s}, NEW h \in Shift \cap DOMAIN mine[t],
                      mine'[s][x].shift = h
               PROVE  db'[x] # Absent /\ db'[x].shift = h
    BY <1>12 DEF LinksNone
  <2>1. h # j.shift
    <3>1. Counter!Free(s, {j.shift, x}) BY <1>2 DEF Counter!Complete
    <3>2. Free(s, {j.shift, x}) BY <3>1, TillRequests
    <3> QED BY <3>2 DEF Free
  <2>2. mine'[s][x] = new[x] BY <1>8, <1>10
  <2> QED BY <1>4, <1>5, <1>8, <1>9, <2>1, <2>2
<1> QED BY <1>9, <1>11, <1>18, <1>19, <1>20, TillQuietly

\* A shift that closes has counted what it should, and nothing else changes it.
ShutRight ==
  \A h \in Shift : db[h] # Absent /\ db'[h] # db[h] =>
    /\ db[h].open /\ db'[h].total >= FullOn(db, h)
    /\ calm => db'[h].total = AllOn(db, h)

\* Whoever verifies a slip alone leaves the sale completed, or something to wait for.
SettledRight ==
  \A p \in Slip : calm /\ db[p] # Absent /\ ~db[p].verified /\ db'[p].verified =>
    db'[db[p].sale].done \/ Unsettled(db', db[p].sale)

\* All sums are over slips and sales.
LEMMA BooksSame ==
  ASSUME NEW v, NEW w, \A r \in Ticket \cup Slip : w[r] = v[r], SlipTable(v)
  PROVE  /\ Redeemable(w) = Redeemable(v) /\ AllEarned(w) = AllEarned(v) /\ Grows(v, w)
         /\ \A x : Tally(w, x) = Tally(v, x) /\ (Unsettled(w, x) <=> Unsettled(v, x))
         /\ \A h : Covered(v, w, h)
<1>1. [p \in Slip |-> Worth(w, p)] = [p \in Slip |-> Worth(v, p)] BY DEF Worth
<1>2. EarnedOn(w) = EarnedOn(v) BY DEF EarnedOn
<1>3. Grows(v, w) BY DEF Grows
<1>4. ASSUME NEW x PROVE Tally(w, x) = Tally(v, x) /\ (Unsettled(w, x) <=> Unsettled(v, x))
  <2>1. \A p \in Slip : For(v, x, p) \/ For(w, x, p) => v[p] = w[p] OBVIOUS
  <2> QED BY <2>1, SameSlips
<1>5. ASSUME NEW h PROVE Covered(v, w, h)
  <2>1. \A p \in Slip : v[p] # Absent => v[p].sale \in Ticket BY DEF SlipTable, Counter!SlipRow
  <2>2. \A p \in Slip : FullAt(w, h, p) <=> FullAt(v, h, p) BY <2>1 DEF FullAt, OnShift
  <2>3. \A p \in Slip : FullAt(w, h, p) => FullAt(v, h, p) /\ v[p].amount = w[p].amount
    BY <2>2
  <2>4. SlipTable(w) BY DEF SlipTable
  <2> QED BY <2>3, <2>4, FullLess
<1> QED BY <1>1, <1>2, <1>3, <1>4, <1>5 DEF Redeemable, AllEarned

\* Slips and sales stay as they are.
LEMMA TablesStay ==
  ASSUME TillInv, \A r \in Ticket \cup Slip : db'[r] = db[r],
         \A h \in Shift : db'[h] \in Counter!ShiftRow \cup {Absent},
         db'[Score] \in ScoreRow, db'[Score].score = db'[Score].lifetime - db'[Score].redeemed,
         db'[Score].lifetime + AllOwed' <= Start + AllEarned(db)
  PROVE  /\ TillTables' /\ Grows(db, db') /\ \A h : Covered(db, db', h)
         /\ TillCalm /\ db'[Score].redeemed <= Redeemable(db) => TillCalm'
         /\ \A x \in Ticket : db[x] # Absent => db'[x] # Absent
         /\ SettledRight
<1>1. /\ Redeemable(db') = Redeemable(db) /\ AllEarned(db') = AllEarned(db) /\ Grows(db, db')
      /\ \A x : Tally(db', x) = Tally(db, x) /\ (Unsettled(db', x) <=> Unsettled(db, x))
      /\ \A h : Covered(db, db', h)
  BY TillTypes, BooksSame
<1>2. TillTables BY DEF TillInv
<1>3. Counter!TypeOK' BY <1>2 DEF TillTables, Counter!TypeOK, ScoreRow
<1>4. Counter!ScoreAddsUp' BY DEF Counter!ScoreAddsUp, ScoreRow
<1>5. \A p \in Slip : db[p] # Absent => db[p].sale \in Ticket
  BY TillTypes DEF SlipTable, Counter!SlipRow
<1>6. TillTables' BY <1>1, <1>2, <1>3, <1>4, <1>5 DEF TillTables
<1>7. TillCalm /\ db'[Score].redeemed <= Redeemable(db) => TillCalm' BY <1>1 DEF TillCalm
<1> QED BY <1>1, <1>6, <1>7 DEF SettledRight

\* startSession
LEMMA TillOpenShift ==
  ASSUME TillInv, NEW s \in Session, Counter!OpenShift(s)
  PROVE  TillInv' /\ ShutRight /\ SettledRight
<1>1. PICK h \in Shift : /\ at[s] = "idle" /\ db[h] = Absent
                         /\ db' = [db EXCEPT ![h] = [open |-> TRUE, total |-> 0]]
                         /\ UNCHANGED <<mine, at, job>> /\ calm' = (calm /\ Quiet)
  BY TillRequests DEF Counter!OpenShift, Counter!Exists
<1>2. Others(s) BY <1>1 DEF TillInv, Shaped, Others
<1>3. Watched(s) BY <1>1 DEF TillInv, Shaped, Watched, Quiet
<1>4. DOMAIN db = Counter!Row /\ h \in Counter!Row /\ h \notin Ticket \cup Slip \cup {Score}
  BY TillAssumed DEF TillInv
<1>5. /\ DOMAIN db' = Counter!Row /\ db'[h] = [open |-> TRUE, total |-> 0]
      /\ \A r \in Counter!Row \ {h} : db'[r] = db[r]
  BY <1>1, <1>4
<1>6. \A r \in Ticket \cup Slip \cup {Score} : db'[r] = db[r] BY <1>4, <1>5, TillAssumed
<1>7. \A g \in Shift : /\ db'[g] \in Counter!ShiftRow \cup {Absent}
                       /\ db[g] # Absent => db'[g] = db[g]
  BY <1>1, <1>5, TillTypes, TillAssumed DEF Counter!ShiftRow
<1>8. /\ TillTables' /\ Grows(db, db') /\ \A g : Covered(db, db', g)
      /\ TillCalm => TillCalm'
      /\ \A x \in Ticket : db[x] # Absent => db'[x] # Absent
  <2>1. AllOwed' = AllOwed BY <1>1 DEF AllOwed, Owed
  <2>2. db'[Score] = db[Score] BY <1>6
  <2>3. db[Score].lifetime + AllOwed <= Start + AllEarned(db) BY DEF TillInv, TillTables
  <2> QED BY <1>6, <1>7, <2>1, <2>2, <2>3, TillTypes, TablesStay DEF TillCalm
<1>9. \A t \in Session : h \notin DOMAIN mine[t] BY <1>1, HolderLocks DEF Locking
<1>10. Considerate(s)
  <2>1. ASSUME NEW t \in Session \ {s} PROVE \A r \in DOMAIN mine[t] : db'[r] = db[r]
    <3>1. \A r : r # h => db'[r] = db[r] BY <1>1, <1>4, <1>5
    <3> QED BY <1>9, <3>1
  <2>2. \A t \in Session \ {s} : DOMAIN mine'[s] \cap DOMAIN mine[t] = {}
    BY <1>1 DEF TillInv, WritesApart
  <2>3. \A t \in Session \ {s} : \A g \in Shift \cap DOMAIN mine[t] :
          LinksNone(s, g)
    <3>1. ASSUME NEW t \in Session \ {s}, NEW g \in Shift \cap DOMAIN mine[t],
                 NEW x \in Ticket \cap DOMAIN mine'[s], mine'[s][x].shift = g
          PROVE  db'[x] # Absent /\ db'[x].shift = g
      <4>1. db[x] # Absent /\ db[x].shift = g BY <1>1, <3>1, RungApart
      <4> QED BY <1>6, <4>1
    <3> QED BY <3>1 DEF LinksNone
  <2>4. \A g \in Shift : db[g] # Absent => db'[g] # Absent BY <1>7
  <2> QED BY <1>8, <2>1, <2>2, <2>3, <2>4 DEF Considerate
<1>11. TillAt(s)' /\ TillAlone(s)'
  <2>1. at'[s] = "idle" /\ mine'[s] = Unwritten BY <1>1 DEF TillInv, TillAt
  <2> QED BY <2>1 DEF TillAt, TillAlone
<1>12. calm' => TillCalm' BY <1>1, <1>8 DEF TillInv, Shaped
<1>13. TillInv' BY <1>2, <1>3, <1>5, <1>8, <1>10, <1>11, <1>12, TillMove
<1>14. SettledRight BY <1>6 DEF SettledRight
<1> QED BY <1>7, <1>13, <1>14 DEF ShutRight

\* What requests write are rows of the till.
LEMMA TillRows == ASSUME TillInv, NEW t \in Session PROVE DOMAIN mine[t] \subseteq Counter!Row
<1>1. TillAt(t) BY DEF TillInv
<1>2. DOMAIN Unwritten = {} BY DEF Unwritten
<1>3. Rung(t) => DOMAIN mine[t] \subseteq Counter!Row BY TillAssumed DEF Rung
<1>4. Checking(t) => DOMAIN mine[t] \subseteq Counter!Row BY TillAssumed DEF Checking, CheckJob
<1>5. \A h \in Shift : Locking(t, h) => DOMAIN mine[t] \subseteq Counter!Row
  BY TillAssumed DEF Locking
<1>6. job[t] \in CloseJob => job[t].shift \in Shift BY DEF CloseJob
<1>7. at[t] \in {"sum", "close"} => job[t] \in CloseJob /\ Locking(t, job[t].shift)
  BY <1>1 DEF TillAt
<1>8. ShiftDone(t) => DOMAIN mine[t] \subseteq Counter!Row BY <1>5 DEF ShiftDone
<1> QED BY <1>1, <1>2, <1>3, <1>4, <1>5, <1>6, <1>7, <1>8 DEF TillAt

\* A commit suits the others.
LEMMA CommitConsiderate ==
  ASSUME TillInv, NEW s \in Session, Others(s), mine'[s] = Unwritten, Overwritten(mine[s]),
         Grows(db, db'),
         \A x \in Ticket : db[x] # Absent => db'[x] # Absent,
         \A h \in Shift : db[h] # Absent => db'[h] # Absent,
         \A t \in Session \ {s} : \A h \in Shift \cap DOMAIN mine[t] :
           Covered(db, db', h)
  PROVE  Considerate(s) /\ DOMAIN db' = Counter!Row
<1>1. DOMAIN mine'[s] = {} BY DEF Unwritten
<1>2. ASSUME NEW t \in Session \ {s} PROVE \A r \in DOMAIN mine[t] : db'[r] = db[r]
  <2>1. \A r \in DOMAIN mine[t] : r \in DOMAIN db /\ r \notin DOMAIN mine[s]
    BY TillRows DEF TillInv, WritesApart
  <2> QED BY <2>1 DEF Overwritten
<1>3. DOMAIN db' = Counter!Row BY TillRows DEF TillInv, Overwritten
<1> QED BY <1>1, <1>2, <1>3 DEF Considerate, LinksNone

\* The points that a sale earns.
LEMMA TillEarn ==
  ASSUME TillInv, NEW s \in Session, Counter!Earn(s)
  PROVE  TillInv' /\ ShutRight /\ SettledRight
<1>1. at[s] = "earn" BY DEF Counter!Earn
<1>2. PICK j, n, old : j = job[s] /\ n = j.earned /\ old = db[Score] OBVIOUS
<1>3. j \in RingJob /\ mine[s] = Unwritten /\ n \in Nat
  BY <1>1, <1>2, TillAssumed DEF TillInv, TillAt, RingJob
<1>4. old \in ScoreRow /\ old.score = old.lifetime - old.redeemed BY <1>2, TillTypes
<1> DEFINE row == [old EXCEPT !.score = @ + n, !.lifetime = @ + n]
           new == [r \in {Score} |-> row]
<1>5. /\ Others(s) /\ Watched(s) /\ at'[s] = "deduct" /\ job'[s] = j /\ mine' = mine
      /\ Overwritten(new) /\ calm' = calm
      /\ \A t \in Session \ {s} : DOMAIN new \cap DOMAIN mine[t] = {}
  <2>1. Apply(s, [r \in {Score} |-> [db[r] EXCEPT !.score = @ + n, !.lifetime = @ + n]], "deduct", j)
    BY <1>2, TillRequests DEF Counter!Earn
  <2>2. [r \in {Score} |-> [db[r] EXCEPT !.score = @ + n, !.lifetime = @ + n]] = new BY <1>2
  <2>3. Apply(s, new, "deduct", j) /\ at[s] # "idle" BY <1>1, <2>1, <2>2
  <2>4. Shaped BY DEF TillInv
  <2> HIDE DEF new
  <2> QED BY ONLY s \in Session, <2>3, <2>4, ApplyMoves
<1>6. /\ row \in ScoreRow /\ row.score = row.lifetime - row.redeemed
      /\ row.lifetime = old.lifetime + n /\ row.redeemed = old.redeemed
  <2>1. PICK a, b, c : a = old.score /\ b = old.lifetime /\ c = old.redeemed OBVIOUS
  <2>2. a \in Nat /\ b \in Nat /\ c \in Nat /\ a = b - c BY <1>4, <2>1 DEF ScoreRow
  <2>3. a + n \in Nat /\ b + n \in Nat /\ a + n = (b + n) - c BY ONLY <1>3, <2>2
  <2>4. row.score = a + n /\ row.lifetime = b + n /\ row.redeemed = c
    BY <1>4, <2>1 DEF ScoreRow
  <2>5. row \in ScoreRow BY <1>4, <2>1, <2>2, <2>3 DEF ScoreRow
  <2> QED BY <2>1, <2>3, <2>4, <2>5
<1> HIDE DEF row
<1>7. /\ DOMAIN db' = Counter!Row /\ db'[Score] = row
      /\ \A r \in Counter!Row \ {Score} : db'[r] = db[r]
  <2>1. Score \in Counter!Row BY TillAssumed
  <2> QED BY <1>5, <2>1 DEF TillInv, Overwritten
<1>8. TillAt(s)' BY <1>3, <1>5 DEF TillAt
<1>9. db'[Score].lifetime + AllOwed' <= Start + AllEarned(db)
  <2>1. AllOwed' = AllOwed + (Owed'[s] - Owed[s]) /\ AllOwed \in Nat
    BY <1>5, <1>8, OwedMoves, OwedType DEF TillInv
  <2>2. Owed'[s] = 0 /\ Owed[s] = n BY <1>1, <1>2, <1>5 DEF Owed
  <2>3. old.lifetime + AllOwed <= Start + AllEarned(db) BY <1>2 DEF TillInv, TillTables
  <2>4. PICK k, e, b, k2 : k = AllOwed /\ e = Start + AllEarned(db) /\ b = old.lifetime /\ k2 = AllOwed'
    OBVIOUS
  <2>5. k \in Nat /\ e \in Nat /\ b \in Nat /\ k2 = k + (0 - n) /\ b + k <= e
    BY <1>4, <2>1, <2>2, <2>3, <2>4, TillTypes, EarnedType, TillAssumed DEF ScoreRow
  <2>6. (b + n) + k2 <= e BY ONLY <1>3, <2>5
  <2> QED BY <1>6, <1>7, <2>4, <2>6
<1>10. /\ TillTables' /\ Grows(db, db') /\ \A h : Covered(db, db', h)
       /\ TillCalm /\ db'[Score].redeemed <= Redeemable(db) => TillCalm'
       /\ \A x \in Ticket : db[x] # Absent => db'[x] # Absent
  <2>1. \A r \in Ticket \cup Slip \cup Shift : db'[r] = db[r] BY <1>7, TillAssumed
  <2>2. \A h \in Shift : db'[h] \in Counter!ShiftRow \cup {Absent} BY <2>1, TillTypes
  <2> QED BY <1>6, <1>7, <1>9, <2>1, <2>2, TablesStay
<1>11. calm' => TillCalm' BY <1>2, <1>5, <1>6, <1>7, <1>10 DEF TillInv, TillCalm
<1>12. Considerate(s)
  <2>1. ASSUME NEW t \in Session \ {s} PROVE \A r \in DOMAIN mine[t] : db'[r] = db[r]
    BY <1>5, <1>7, TillRows
  <2>2. DOMAIN mine'[s] = {} BY <1>3, <1>5 DEF Unwritten
  <2>3. \A h \in Shift : db[h] # Absent => db'[h] # Absent BY <1>7, TillAssumed
  <2> QED BY <1>10, <2>1, <2>2, <2>3 DEF Considerate, LinksNone
<1>13. calm' => TillAlone(s)'
  <2>1. calm => old.redeemed + j.points <= Redeemable(db) BY <1>1, <1>2 DEF TillInv, TillAlone
  <2>2. Redeemable(db') = Redeemable(db)
    <3>1. \A r \in Ticket \cup Slip : db'[r] = db[r] BY <1>7, TillAssumed
    <3> QED BY <3>1, TillTypes, BooksSame
  <2>3. calm' => db'[Score].redeemed + job'[s].points <= Redeemable(db')
    BY <1>5, <1>6, <1>7, <2>1, <2>2
  <2> QED BY ONLY <1>5, <2>3 DEF TillAlone
<1>14. TillInv' BY <1>5, <1>7, <1>8, <1>10, <1>11, <1>12, <1>13, TillMove
<1>15. SettledRight
  <2>1. \A p \in Slip : db'[p] = db[p] BY <1>7, TillAssumed
  <2> QED BY <2>1 DEF SettledRight
<1> QED BY <1>7, <1>14, <1>15, TillAssumed DEF ShutRight

\* The points that a sale is paid with.
LEMMA TillDeduct ==
  ASSUME TillInv, NEW s \in Session, Counter!Deduct(s)
  PROVE  TillInv' /\ ShutRight /\ SettledRight
<1>1. at[s] = "deduct" BY DEF Counter!Deduct
<1>2. PICK j, n, old : j = job[s] /\ n = j.points /\ old = db[Score] OBVIOUS
<1>3. j \in RingJob /\ mine[s] = Unwritten /\ n \in Nat
  BY <1>1, <1>2, TillAssumed DEF TillInv, TillAt, RingJob
<1>4. old \in ScoreRow /\ old.score = old.lifetime - old.redeemed BY <1>2, TillTypes
<1>5. CASE Rollback(s)
  <2>1. TillInv' BY <1>1, <1>5, TillRollback
  <2>2. db' = db BY <1>5 DEF Rollback
  <2> QED BY <2>1, <2>2 DEF ShutRight, SettledRight
<1> DEFINE row == [old EXCEPT !.score = @ - n, !.redeemed = @ + n]
           new == [r \in {Score} |-> row]
<1>6. CASE old.score >= n /\ Apply(s, new, "commit", j)
  <2>1. /\ Others(s) /\ Watched(s) /\ at'[s] = "commit" /\ job'[s] = j /\ mine' = mine
        /\ Overwritten(new) /\ calm' = calm
        /\ \A t \in Session \ {s} : DOMAIN new \cap DOMAIN mine[t] = {}
    <3>1. Apply(s, new, "commit", j) /\ at[s] # "idle" /\ Shaped BY <1>1, <1>6 DEF TillInv
    <3> HIDE DEF new
    <3> QED BY ONLY s \in Session, <3>1, ApplyMoves
  <2>2. /\ row \in ScoreRow /\ row.score = row.lifetime - row.redeemed
        /\ row.lifetime = old.lifetime /\ row.redeemed = old.redeemed + n
    <3>1. PICK a, b, c : a = old.score /\ b = old.lifetime /\ c = old.redeemed OBVIOUS
    <3>2. a \in Nat /\ b \in Nat /\ c \in Nat /\ a = b - c /\ a >= n
      BY <1>4, <1>6, <3>1 DEF ScoreRow
    <3>3. a - n \in Nat /\ c + n \in Nat /\ a - n = b - (c + n) BY ONLY <1>3, <3>2
    <3>4. row.score = a - n /\ row.lifetime = b /\ row.redeemed = c + n
      BY <1>4, <3>1 DEF ScoreRow
    <3>5. row \in ScoreRow BY <1>4, <3>1, <3>2, <3>3 DEF ScoreRow
    <3> QED BY <3>1, <3>3, <3>4, <3>5
  <2> HIDE DEF row
  <2>3. /\ DOMAIN db' = Counter!Row /\ db'[Score] = row
        /\ \A r \in Counter!Row \ {Score} : db'[r] = db[r]
    <3>1. Score \in Counter!Row BY TillAssumed
    <3> QED BY <2>1, <3>1 DEF TillInv, Overwritten
  <2>4. TillAt(s)' BY <1>3, <2>1 DEF TillAt
  <2>5. db'[Score].lifetime + AllOwed' <= Start + AllEarned(db)
    <3>1. AllOwed' = AllOwed + (Owed'[s] - Owed[s]) /\ AllOwed \in Nat
      BY <2>1, <2>4, OwedMoves, OwedType DEF TillInv
    <3>2. Owed'[s] = 0 /\ Owed[s] = 0 BY <1>1, <2>1 DEF Owed
    <3>3. AllOwed' = AllOwed BY <3>1, <3>2
    <3> QED BY <1>2, <2>2, <2>3, <3>3 DEF TillInv, TillTables
  <2>6. /\ TillTables' /\ Grows(db, db') /\ \A h : Covered(db, db', h)
        /\ TillCalm /\ db'[Score].redeemed <= Redeemable(db) => TillCalm'
        /\ \A x \in Ticket : db[x] # Absent => db'[x] # Absent
    <3>1. \A r \in Ticket \cup Slip \cup Shift : db'[r] = db[r] BY <2>3, TillAssumed
    <3>2. \A h \in Shift : db'[h] \in Counter!ShiftRow \cup {Absent} BY <3>1, TillTypes
    <3> QED BY <2>2, <2>3, <2>5, <3>1, <3>2, TablesStay
  <2>7. calm' => TillCalm'
    <3>1. calm => old.redeemed + n <= Redeemable(db) BY <1>1, <1>2 DEF TillInv, TillAlone
    <3> QED BY <2>1, <2>2, <2>3, <2>6, <3>1 DEF TillInv
  <2>8. Considerate(s)
    <3>1. ASSUME NEW t \in Session \ {s} PROVE \A r \in DOMAIN mine[t] : db'[r] = db[r]
      BY <2>1, <2>3, TillRows
    <3>2. DOMAIN mine'[s] = {} BY <1>3, <2>1 DEF Unwritten
    <3>3. \A h \in Shift : db[h] # Absent => db'[h] # Absent BY <2>3, TillAssumed
    <3> QED BY <2>6, <3>1, <3>2, <3>3 DEF Considerate, LinksNone
  <2>9. TillAlone(s)'
    <3>1. j \notin CheckJob BY <1>3, JobsDiffer
    <3>2. DOMAIN mine'[s] = {} BY <1>3, <2>1 DEF Unwritten
    <3> QED BY ONLY <2>1, <3>1, <3>2 DEF TillAlone
  <2>10. TillInv' BY <2>1, <2>3, <2>4, <2>6, <2>7, <2>8, <2>9, TillMove
  <2>11. SettledRight
    <3>1. \A p \in Slip : db'[p] = db[p] BY <2>3, TillAssumed
    <3> QED BY <3>1 DEF SettledRight
  <2> QED BY <2>3, <2>10, <2>11, TillAssumed DEF ShutRight
<1>7. Rollback(s) \/ (old.score >= n /\ Apply(s, new, "commit", j))
  <2>1. IF old.score < n THEN Free(s, {Score}) /\ Rollback(s)
        ELSE Apply(s, [r \in {Score} |-> [db[r] EXCEPT !.score = @ - n, !.redeemed = @ + n]],
                   "commit", j)
    BY <1>2, TillRequests DEF Counter!Deduct
  <2>2. [r \in {Score} |-> [db[r] EXCEPT !.score = @ - n, !.redeemed = @ + n]] = new BY <1>2
  <2>3. old.score \in Nat BY <1>4 DEF ScoreRow
  <2> HIDE DEF new
  <2> QED BY <1>3, <2>1, <2>2, <2>3
<1> QED BY <1>5, <1>6, <1>7

\* createSale, completed or not.
LEMMA TillBareSale ==
  ASSUME TillInv, NEW s \in Session, Counter!BareSale(s)
  PROVE  TillInv' /\ ShutRight /\ SettledRight
<1>1. PICK x \in Ticket, done \in BOOLEAN :
        /\ at[s] = "idle" /\ mine' = mine /\ calm' = (calm /\ Quiet)
        /\ db[x] = Absent /\ Free(s, {x})
        /\ db' = [db EXCEPT ![x] = [shift |-> Absent, done |-> done, straight |-> done,
                                    invoiced |-> FALSE, earned |-> 0]]
        /\ IF done THEN Goto(s, "link", [bare |-> x, shift |-> Absent])
           ELSE UNCHANGED <<at, job>>
  BY TillRequests DEF Counter!BareSale, Counter!Exists, Counter!Goto, Goto
<1>2. PICK row : row = [shift |-> Absent, done |-> done, straight |-> done,
                        invoiced |-> FALSE, earned |-> 0]
  OBVIOUS
<1>3. row \in Counter!SaleRow /\ row.done = row.straight /\ row.earned = 0
  BY <1>2 DEF Counter!SaleRow
<1>4. row # Absent BY <1>3, TillAssumed
<1>5. DOMAIN db = Counter!Row /\ x \in Counter!Row /\ x \notin Shift \cup Slip \cup {Score}
  BY TillAssumed DEF TillInv
<1>6. /\ DOMAIN db' = Counter!Row /\ db'[x] = row
      /\ \A r : r # x => db'[r] = db[r]
  BY <1>1, <1>2, <1>5
<1>7. /\ \A p \in Slip : db'[p] = db[p]
      /\ \A y \in Ticket \ {x} : db'[y] = db[y]
      /\ \A h \in Shift : db'[h] = db[h]
      /\ db'[Score] = db[Score]
  BY <1>5, <1>6
<1>8. Others(s) BY <1>1 DEF TillInv, Shaped, Others, Goto
<1>9. Watched(s) BY <1>1 DEF TillInv, Shaped, Watched, Quiet
<1>10. \A p \in Slip : db[p] # Absent => /\ db[p].sale \in Ticket /\ db[p].sale # x
                                         /\ db[db[p].sale] # Absent
  BY <1>1, TillTypes DEF TillInv, TillTables, SlipTable, Counter!SlipRow
<1>11. TillTables /\ SlipTable(db) /\ SaleTable(db) BY TillTypes DEF TillInv
<1>12. SlipTable(db') /\ SaleTable(db') /\ Grows(db, db')
  BY <1>3, <1>6, <1>7, <1>11 DEF SlipTable, SaleTable, Grows
<1>13. \A y : Tally(db', y) = Tally(db, y) BY <1>7, SameSlips
<1>14. mine'[s] = Unwritten /\ at'[s] \in {"idle", "link"}
       /\ (at'[s] = "link" => job'[s] = [bare |-> x, shift |-> Absent])
  <2>1. mine[s] = Unwritten BY <1>1 DEF TillInv, TillAt
  <2> QED BY <1>1, <2>1 DEF TillInv, Shaped, Goto
<1>15. TillAt(s)' /\ TillAlone(s)'
  <2>1. [bare |-> x, shift |-> Absent] \in LinkJob /\ [bare |-> x, shift |-> Absent].bare = x
    BY DEF LinkJob
  <2>2. at'[s] = "link" => job'[s] \in LinkJob /\ db'[job'[s].bare] # Absent
    BY <1>4, <1>6, <1>14, <2>1
  <2> QED BY ONLY <1>14, <2>2 DEF TillAt, TillAlone
<1>16. TillTables'
  <2>1. Counter!TypeOK' BY <1>7, <1>11, <1>12 DEF TillTables, Counter!TypeOK, SlipTable, SaleTable
  <2>2. Counter!ScoreAddsUp' BY <1>7, <1>11 DEF TillTables, Counter!ScoreAddsUp
  <2>3. \A p \in Slip : db'[p] # Absent => /\ db'[db'[p].sale] # Absent
                                           /\ db'[p].born => db'[p].verified
    BY <1>7, <1>10, <1>11 DEF TillTables
  <2>4. \A y \in Ticket : db'[y] # Absent /\ db'[y].done /\ ~db'[y].straight =>
          Tally(db', y) >= TicketPrice
    BY <1>3, <1>6, <1>7, <1>11, <1>13 DEF TillTables
  <2>5. db'[Score].lifetime + AllOwed' <= Start + AllEarned(db')
    <3>1. AllOwed' = AllOwed
      <4>1. AllOwed' = AllOwed + (Owed'[s] - Owed[s]) BY <1>8, <1>15, OwedMoves DEF TillInv
      <4>2. Owed'[s] = 0 /\ Owed[s] = 0 BY <1>1, <1>14 DEF Owed
      <4>3. AllOwed \in Nat BY OwedType DEF TillInv
      <4> QED BY <4>1, <4>2, <4>3
    <3>2. EarnedOn(db') = EarnedOn(db)
      <4>1. \A y \in Ticket : (IF db'[y] = Absent THEN 0 ELSE db'[y].earned) =
                              (IF db[y] = Absent THEN 0 ELSE db[y].earned)
        BY <1>1, <1>3, <1>4, <1>6, <1>7
      <4> QED BY <4>1 DEF EarnedOn
    <3> QED BY <1>7, <1>11, <3>1, <3>2 DEF TillTables, AllEarned
  <2> QED BY <2>1, <2>2, <2>3, <2>4, <2>5 DEF TillTables
<1>17. calm' => TillCalm'
  <2>1. calm' => TillCalm BY <1>1 DEF TillInv
  <2>2. [p \in Slip |-> Worth(db', p)] = [p \in Slip |-> Worth(db, p)] BY <1>7 DEF Worth
  <2> QED BY <1>7, <2>1, <2>2 DEF TillCalm, Redeemable
<1>18. Considerate(s)
  <2>1. ASSUME NEW t \in Session \ {s}
        PROVE  DOMAIN mine'[s] \cap DOMAIN mine[t] = {} /\ \A r \in DOMAIN mine[t] : db'[r] = db[r]
    BY <1>1, <1>6 DEF Free, TillInv, WritesApart
  <2>2. DOMAIN mine'[s] = {} BY <1>14 DEF Unwritten
  <2>3. ASSUME NEW h PROVE Covered(db, db', h)
    <3>1. \A p \in Slip : FullAt(db', h, p) => FullAt(db, h, p) /\ db[p].amount = db'[p].amount
      BY <1>7, <1>10 DEF FullAt, OnShift
    <3> QED BY <1>11, <1>12, <3>1, FullLess
  <2>4. \A y \in Ticket : db[y] # Absent => db'[y] # Absent BY <1>1, <1>7
  <2> QED BY <1>7, <1>12, <2>1, <2>2, <2>3, <2>4 DEF Considerate, LinksNone
<1>19. TillInv' BY <1>6, <1>8, <1>9, <1>15, <1>16, <1>17, <1>18, TillMove
<1> QED BY <1>7, <1>19 DEF ShutRight, SettledRight

\* The shift of a sale that was created completed.
LEMMA TillPickLink ==
  ASSUME TillInv, NEW s \in Session, Counter!PickLink(s)
  PROVE  TillInv'
<1>1. at[s] = "link" BY DEF Counter!PickLink
<1>2. job[s] \in LinkJob /\ db[job[s].bare] # Absent /\ mine[s] = Unwritten
  BY <1>1 DEF TillInv, TillAt
<1>3. CASE Rollback(s) BY <1>1, <1>3, TillRollback
<1>4. CASE \E j \in LinkJob : j.bare = job[s].bare /\ Look(s, "bind", j)
  <2>1. PICK j \in LinkJob : j.bare = job[s].bare /\ Look(s, "bind", j) BY <1>4
  <2>2. /\ Others(s) /\ Watched(s) /\ at'[s] = "bind" /\ job'[s] = j /\ mine' = mine /\ db' = db
    BY <1>1, <2>1, LookMoves DEF TillInv
  <2>3. TillAt(s)' BY ONLY <1>2, <2>1, <2>2 DEF TillAt
  <2>4. TillAlone(s)' BY ONLY <2>2 DEF TillAlone
  <2> QED BY <2>2, <2>3, <2>4, TillReads
<1>5. Rollback(s) \/ \E j \in LinkJob : j.bare = job[s].bare /\ Look(s, "bind", j)
  <2>1. ASSUME NEW t \in Counter!Open(s)
        PROVE  [job[s] EXCEPT !.shift = t] \in LinkJob
               /\ [job[s] EXCEPT !.shift = t].bare = job[s].bare
    BY <1>2 DEF Counter!Open, LinkJob
  <2> QED BY <2>1, TillRequests DEF Counter!PickLink
<1> QED BY <1>3, <1>4, <1>5

\* It is linked.
LEMMA TillBindSale ==
  ASSUME TillInv, NEW s \in Session, Counter!BindSale(s)
  PROVE  TillInv' /\ ShutRight /\ SettledRight
<1>1. at[s] = "bind" BY DEF Counter!BindSale
<1>2. PICK x, t, old : x = job[s].bare /\ t = job[s].shift /\ old = db[x] OBVIOUS
<1>3. /\ x \in Ticket /\ t \in Shift \cup {Absent} /\ old # Absent /\ old \in Counter!SaleRow
      /\ mine[s] = Unwritten
  BY <1>1, <1>2, TillTypes DEF TillInv, TillAt, LinkJob, SaleTable
<1>4. PICK row : row = [old EXCEPT !.shift = t] OBVIOUS
<1>5. /\ row \in Counter!SaleRow /\ row.done = old.done /\ row.straight = old.straight
      /\ row.earned = old.earned /\ row.shift = t
  BY <1>3, <1>4 DEF Counter!SaleRow
<1>6. row # Absent BY <1>5, TillAssumed
<1> DEFINE new == [r \in {x} |-> row]
<1>7. /\ Others(s) /\ Watched(s) /\ at'[s] = "idle" /\ mine' = mine
      /\ Overwritten(new) /\ calm' = calm
      /\ \A u \in Session \ {s} : DOMAIN new \cap DOMAIN mine[u] = {}
  <2>1. Apply(s, new, "idle", NoJob)
    <3>1. Apply(s, [r \in {x} |-> [db[x] EXCEPT !.shift = t]], "idle", NoJob)
      BY <1>2, TillRequests DEF Counter!BindSale
    <3> QED BY <1>2, <1>4, <3>1
  <2>2. at[s] # "idle" /\ Shaped BY <1>1 DEF TillInv
  <2> HIDE DEF new
  <2> QED BY ONLY s \in Session, <2>1, <2>2, ApplyMoves
<1>8. x \in Counter!Row /\ x \notin Shift /\ x \notin Slip /\ x # Score BY <1>3, TillAssumed
<1>9. /\ DOMAIN db' = Counter!Row /\ db'[x] = row
      /\ \A r \in Counter!Row \ {x} : db'[r] = db[r]
  BY <1>7, <1>8 DEF TillInv, Overwritten
<1>10. /\ \A p \in Slip : db'[p] = db[p]
       /\ \A y \in Ticket \ {x} : db'[y] = db[y]
       /\ \A h \in Shift : db'[h] = db[h]
       /\ db'[Score] = db[Score]
  BY <1>8, <1>9, TillAssumed
<1>11. TillTables /\ SlipTable(db) /\ SaleTable(db) BY TillTypes DEF TillInv
<1>12. SlipTable(db') /\ SaleTable(db') /\ Grows(db, db')
  BY <1>5, <1>9, <1>10, <1>11 DEF SlipTable, SaleTable, Grows
<1>13. \A y : Tally(db', y) = Tally(db, y) BY <1>10, SameSlips
<1>14. \A p \in Slip : db[p] # Absent => db[p].sale \in Ticket /\ db[db[p].sale] # Absent
  BY <1>11 DEF TillTables, SlipTable, Counter!SlipRow
<1>15. TillAt(s)' /\ TillAlone(s)' BY ONLY <1>3, <1>7 DEF TillAt, TillAlone
<1>16. TillTables'
  <2>1. Counter!TypeOK' BY <1>10, <1>11, <1>12 DEF TillTables, Counter!TypeOK, SlipTable, SaleTable
  <2>2. Counter!ScoreAddsUp' BY <1>10, <1>11 DEF TillTables, Counter!ScoreAddsUp
  <2>3. \A p \in Slip : db'[p] # Absent => /\ db'[db'[p].sale] # Absent
                                           /\ db'[p].born => db'[p].verified
    BY <1>6, <1>9, <1>10, <1>11, <1>14 DEF TillTables
  <2>4. \A y \in Ticket : db'[y] # Absent /\ db'[y].done /\ ~db'[y].straight =>
          Tally(db', y) >= TicketPrice
    BY <1>2, <1>3, <1>5, <1>9, <1>10, <1>11, <1>13 DEF TillTables
  <2>5. db'[Score].lifetime + AllOwed' <= Start + AllEarned(db')
    <3>1. AllOwed' = AllOwed
      <4>1. AllOwed' = AllOwed + (Owed'[s] - Owed[s]) BY <1>7, <1>15, OwedMoves DEF TillInv
      <4>2. Owed'[s] = 0 /\ Owed[s] = 0 BY <1>1, <1>7 DEF Owed
      <4>3. AllOwed \in Nat BY OwedType DEF TillInv
      <4> QED BY <4>1, <4>2, <4>3
    <3>2. EarnedOn(db') = EarnedOn(db)
      <4>1. \A y \in Ticket : (IF db'[y] = Absent THEN 0 ELSE db'[y].earned) =
                              (IF db[y] = Absent THEN 0 ELSE db[y].earned)
        BY <1>2, <1>3, <1>5, <1>6, <1>9, <1>10
      <4> QED BY <4>1 DEF EarnedOn
    <3> QED BY <1>10, <1>11, <3>1, <3>2 DEF TillTables, AllEarned
  <2> QED BY <2>1, <2>2, <2>3, <2>4, <2>5 DEF TillTables
<1>17. calm' => TillCalm'
  <2>1. calm' => TillCalm BY <1>7 DEF TillInv
  <2>2. [p \in Slip |-> Worth(db', p)] = [p \in Slip |-> Worth(db, p)] BY <1>10 DEF Worth
  <2> QED BY <1>10, <2>1, <2>2 DEF TillCalm, Redeemable
<1>18. Considerate(s)
  <2>1. ASSUME NEW u \in Session \ {s} PROVE \A r \in DOMAIN mine[u] : db'[r] = db[r]
    BY <1>7, <1>9, TillRows
  <2>2. DOMAIN mine'[s] = {} BY <1>3, <1>7 DEF Unwritten
  <2>3. ASSUME NEW u \in Session \ {s}, NEW h \in Shift \cap DOMAIN mine[u]
        PROVE  Covered(db, db', h)
    <3>1. h # t
      <4>1. Counter!Free(s, {t}) BY <1>2 DEF Counter!BindSale
      <4>2. Free(s, {t}) BY <4>1, TillRequests
      <4> QED BY <4>2 DEF Free
    <3>2. \A p \in Slip : FullAt(db', h, p) => FullAt(db, h, p) /\ db[p].amount = db'[p].amount
      BY <1>5, <1>9, <1>10, <1>14, <3>1 DEF FullAt, OnShift
    <3> QED BY <1>11, <1>12, <3>2, FullLess
  <2>4. \A y \in Ticket : db[y] # Absent => db'[y] # Absent BY <1>6, <1>9, <1>10
  <2> QED BY <1>10, <1>12, <2>1, <2>2, <2>3, <2>4 DEF Considerate, LinksNone
<1>19. TillInv' BY <1>7, <1>9, <1>15, <1>16, <1>17, <1>18, TillMove
<1> QED BY <1>10, <1>19 DEF ShutRight, SettledRight

\* An idle request writes one slip of a sale.
LEMMA TillSlip ==
  ASSUME TillInv, NEW s \in Session, at[s] = "idle", UNCHANGED <<mine, at, job>>,
         calm' = (calm /\ Quiet), NEW p \in Slip, Free(s, {p}), NEW row \in Counter!SlipRow,
         db' = [db EXCEPT ![p] = row], ~row.rung \/ row.deleted,
         db[row.sale] # Absent, row.born => row.verified,
         db[p] # Absent => /\ row.sale = db[p].sale /\ row.amount = db[p].amount
                           /\ row.points = db[p].points /\ row.born = db[p].born
                           /\ row.verified = db[p].verified
                           /\ db[p].deleted => row.deleted
  PROVE  TillInv' /\ ShutRight /\ SettledRight
<1>1. Others(s) BY DEF TillInv, Shaped, Others
<1>2. Watched(s) BY DEF TillInv, Shaped, Watched, Quiet
<1>3. DOMAIN db = Counter!Row /\ p \in Counter!Row /\ p \notin Shift \cup Ticket \cup {Score}
  BY TillAssumed DEF TillInv
<1>4. row # Absent /\ row.sale \in Ticket BY TillAssumed DEF Counter!SlipRow
<1>5. DOMAIN db' = Counter!Row /\ db'[p] = row /\ \A r : r # p => db'[r] = db[r]
  BY <1>3
<1>6. /\ \A q \in Slip \ {p} : db'[q] = db[q]
      /\ \A y \in Ticket : db'[y] = db[y]
      /\ \A h \in Shift : db'[h] = db[h]
      /\ db'[Score] = db[Score]
  BY <1>3, <1>5
<1>7. \A q \in Slip : db[q] # Absent => db[q].sale \in Ticket
  BY TillTypes DEF SlipTable, Counter!SlipRow
<1>8. TillTables /\ SlipTable(db) /\ SaleTable(db) BY TillTypes DEF TillInv
<1>9. SlipTable(db') /\ SaleTable(db') BY <1>5, <1>6, <1>8 DEF SlipTable, SaleTable
<1>10. Grows(db, db')
  <2>1. ASSUME NEW q \in Slip, db[q] # Absent
        PROVE  /\ db'[q] # Absent /\ db'[q].sale = db[q].sale /\ db'[q].amount = db[q].amount
               /\ db'[q].points = db[q].points /\ db'[q].born = db[q].born
               /\ db[q].verified => db'[q].verified
               /\ db[q].deleted => db'[q].deleted
    <3>1. CASE q = p BY <1>4, <1>5, <2>1, <3>1
    <3>2. CASE q # p BY <1>5, <2>1, <3>2
    <3> QED BY <3>1, <3>2
  <2> QED BY <2>1 DEF Grows
<1>11. TillTables'
  <2>1. Counter!TypeOK' BY <1>6, <1>8, <1>9 DEF TillTables, Counter!TypeOK, SlipTable, SaleTable
  <2>2. Counter!ScoreAddsUp' BY <1>6, <1>8 DEF TillTables, Counter!ScoreAddsUp
  <2>3. ASSUME NEW q \in Slip, db'[q] # Absent
        PROVE  db'[db'[q].sale] # Absent /\ (db'[q].born => db'[q].verified)
    <3>1. CASE q = p BY <1>4, <1>5, <1>6, <3>1
    <3>2. CASE q # p BY <1>6, <1>7, <1>8, <2>3, <3>2 DEF TillTables
    <3> QED BY <3>1, <3>2
  <2>4. ASSUME NEW y \in Ticket, db'[y] # Absent, db'[y].done, ~db'[y].straight
        PROVE  Tally(db', y) >= TicketPrice
    <3>1. Tally(db, y) >= TicketPrice BY <1>6, <1>8, <2>4 DEF TillTables
    <3>2. Tally(db, y) <= Tally(db', y) BY <1>8, <1>9, <1>10, TallyGrows
    <3>3. Tally(db, y) \in Nat /\ Tally(db', y) \in Nat BY <1>8, <1>9, SlipSums
    <3> QED BY <3>1, <3>2, <3>3, TillAssumed
  <2>5. db'[Score].lifetime + AllOwed' <= Start + AllEarned(db')
    <3>1. AllOwed' = AllOwed BY DEF AllOwed, Owed
    <3>2. EarnedOn(db') = EarnedOn(db) BY <1>6 DEF EarnedOn
    <3> QED BY <1>6, <1>8, <3>1, <3>2 DEF TillTables, AllEarned
  <2> QED BY <2>1, <2>2, <2>3, <2>4, <2>5 DEF TillTables
<1>12. calm' => TillCalm'
  <2>1. calm' => TillCalm BY DEF TillInv
  <2>2. Redeemable(db) <= Redeemable(db') /\ Redeemable(db) \in Nat /\ Redeemable(db') \in Nat
    BY <1>8, <1>9, <1>10, RedeemableGrows, SlipSums
  <2>3. db[Score].redeemed \in Nat BY TillTypes DEF ScoreRow
  <2> QED BY <1>6, <2>1, <2>2, <2>3 DEF TillCalm
<1>13. Considerate(s)
  <2>1. ASSUME NEW t \in Session \ {s}
        PROVE  DOMAIN mine'[s] \cap DOMAIN mine[t] = {} /\ \A r \in DOMAIN mine[t] : db'[r] = db[r]
    BY <1>5 DEF Free, TillInv, WritesApart
  <2>2. DOMAIN mine'[s] = {} BY DEF TillInv, TillAt, Unwritten
  <2>3. ASSUME NEW h PROVE Covered(db, db', h)
    <3>1. ASSUME NEW q \in Slip, FullAt(db', h, q)
          PROVE  FullAt(db, h, q) /\ db[q].amount = db'[q].amount
      <4>1. q # p BY <1>5, <3>1 DEF FullAt, OnShift
      <4>2. db'[q] = db[q] /\ db'[db[q].sale] = db[db[q].sale]
        BY <1>6, <1>7, <3>1, <4>1 DEF FullAt, OnShift
      <4> QED BY <3>1, <4>2 DEF FullAt, OnShift
    <3> QED BY <1>8, <1>9, <3>1, FullLess
  <2> QED BY <1>6, <1>10, <2>1, <2>2, <2>3 DEF Considerate, LinksNone
<1>14. TillAt(s)' /\ TillAlone(s)'
  <2>1. at'[s] = "idle" /\ mine'[s] = Unwritten BY DEF TillInv, TillAt
  <2> QED BY ONLY <2>1 DEF TillAt, TillAlone
<1>15. TillInv' BY <1>1, <1>2, <1>5, <1>11, <1>12, <1>13, <1>14, TillMove
<1>16. SettledRight
  <2>1. ASSUME NEW q \in Slip, db[q] # Absent, ~db[q].verified PROVE ~db'[q].verified
    <3>1. CASE q = p BY <1>5, <2>1, <3>1
    <3>2. CASE q # p BY <1>5, <2>1, <3>2
    <3> QED BY <3>1, <3>2
  <2> QED BY <2>1 DEF SettledRight
<1> QED BY <1>6, <1>15, <1>16 DEF ShutRight

\* createCustomerPayment, bulkInsert
LEMMA TillPay ==
  ASSUME TillInv, NEW s \in Session, Counter!Pay(s)
  PROVE  TillInv' /\ ShutRight /\ SettledRight
<1>1. PICK x \in Ticket, p \in Slip, verified \in BOOLEAN :
        /\ at[s] = "idle" /\ db[x] # Absent /\ db[p] = Absent /\ Free(s, {p})
        /\ db' = [db EXCEPT ![p] = [sale |-> x, amount |-> TicketPrice \div 2, points |-> 0,
                                    verified |-> verified, rung |-> FALSE,
                                    born |-> verified, deleted |-> FALSE]]
        /\ UNCHANGED <<mine, at, job>> /\ calm' = (calm /\ Quiet)
  BY TillRequests DEF Counter!Pay, Counter!Exists
<1>2. PICK row : row = [sale |-> x, amount |-> TicketPrice \div 2, points |-> 0,
                        verified |-> verified, rung |-> FALSE,
                        born |-> verified, deleted |-> FALSE]
  OBVIOUS
<1>3. TicketPrice \div 2 \in Nat BY TillAssumed
<1>4. /\ row \in Counter!SlipRow /\ ~row.rung /\ row.sale = x
      /\ (row.born => row.verified)
  BY <1>2, <1>3 DEF Counter!SlipRow
<1>5. db' = [db EXCEPT ![p] = row] BY <1>1, <1>2
<1> QED BY <1>1, <1>4, <1>5, TillSlip

\* deleteCustomerPayment
LEMMA TillDeletePayment ==
  ASSUME TillInv, NEW s \in Session, Counter!DeletePayment(s)
  PROVE  TillInv' /\ ShutRight /\ SettledRight
<1>1. PICK p \in Slip :
        /\ at[s] = "idle" /\ db[p] # Absent /\ Free(s, {p})
        /\ db' = [db EXCEPT ![p].deleted = TRUE]
        /\ UNCHANGED <<mine, at, job>> /\ calm' = (calm /\ Quiet)
  BY TillRequests DEF Counter!DeletePayment, Counter!Exists
<1>2. db[p] \in Counter!SlipRow BY <1>1, TillTypes DEF SlipTable
<1>3. PICK row : row = [db[p] EXCEPT !.deleted = TRUE] OBVIOUS
<1>4. /\ row \in Counter!SlipRow /\ row.deleted /\ row.sale = db[p].sale
      /\ row.amount = db[p].amount /\ row.points = db[p].points /\ row.born = db[p].born
      /\ row.verified = db[p].verified
  BY <1>2, <1>3 DEF Counter!SlipRow
<1>5. db[row.sale] # Absent /\ (row.born => row.verified)
  BY <1>1, <1>4 DEF TillInv, TillTables
<1>6. db' = [db EXCEPT ![p] = row] BY <1>1, <1>3
<1> QED BY <1>1, <1>4, <1>5, <1>6, TillSlip

\* createFullSale commits.
LEMMA TillCommitSale ==
  ASSUME TillInv, NEW s \in Session, Counter!CommitSale(s)
  PROVE  TillInv' /\ ShutRight /\ SettledRight
<1>1. at[s] = "sold" BY DEF Counter!CommitSale
<1>2. PICK j : j = job[s] OBVIOUS
<1>3. j \in RingJob /\ Rung(s) BY <1>1, <1>2 DEF TillInv, TillAt
<1>4. PICK x \in Ticket, p \in Slip :
        /\ DOMAIN mine[s] = {x, p} /\ db[x] = Absent /\ db[p] = Absent
        /\ mine[s][x] = [shift |-> j.shift, done |-> j.done, straight |-> j.done,
                         invoiced |-> TRUE, earned |-> j.earned]
        /\ mine[s][p] = [sale |-> x, amount |-> j.amount, points |-> j.points,
                         verified |-> j.verified, rung |-> TRUE, born |-> j.verified,
                         deleted |-> FALSE]
  BY <1>2, <1>3 DEF Rung
<1>5. PICK sale, slip : sale = mine[s][x] /\ slip = mine[s][p] OBVIOUS
<1>6. /\ sale \in Counter!SaleRow /\ sale.done = sale.straight /\ sale.shift = j.shift
      /\ sale.earned = j.earned /\ j.earned \in Nat
  BY <1>3, <1>4, <1>5, TillAssumed DEF RingJob, Counter!SaleRow
<1>7. /\ slip \in Counter!SlipRow /\ slip.sale = x /\ slip.points = j.points /\ slip.born = slip.verified
      /\ j.points \in Nat
  BY <1>3, <1>4, <1>5, TillAssumed DEF RingJob, Counter!SlipRow
<1>8. sale # Absent /\ slip # Absent BY <1>6, <1>7, TillAssumed
<1>9. /\ Others(s) /\ Watched(s) /\ at'[s] = "earn" /\ job'[s] = j /\ mine'[s] = Unwritten
      /\ Overwritten(mine[s]) /\ calm' = calm
  <2>1. Publish(s, "earn", j) /\ Shaped
    BY <1>2, TillRequests DEF Counter!CommitSale, TillInv
  <2> QED BY <1>1, <2>1, PublishMoves
<1>10. /\ db'[x] = sale /\ db'[p] = slip
       /\ \A r \in Counter!Row \ {x, p} : db'[r] = db[r]
  BY <1>4, <1>5, <1>9, TillAssumed DEF Overwritten, TillInv
<1>11. /\ \A q \in Slip \ {p} : db'[q] = db[q]
       /\ \A y \in Ticket \ {x} : db'[y] = db[y]
       /\ \A h \in Shift : db'[h] = db[h]
       /\ db'[Score] = db[Score]
  BY <1>10, TillAssumed
<1>12. TillTables /\ SlipTable(db) /\ SaleTable(db) BY TillTypes DEF TillInv
<1>13. \A q \in Slip : db[q] # Absent => /\ db[q].sale \in Ticket /\ db[q].sale # x
                                         /\ db[db[q].sale] # Absent
  BY <1>4, <1>12 DEF TillTables, SlipTable, Counter!SlipRow
<1>14. SlipTable(db') /\ SaleTable(db') /\ Grows(db, db')
  BY <1>4, <1>6, <1>7, <1>10, <1>11, <1>12 DEF SlipTable, SaleTable, Grows
<1>15. \A y \in Ticket \ {x} : Tally(db', y) = Tally(db, y)
  <2>1. ASSUME NEW y \in Ticket \ {x}, NEW q \in Slip, For(db, y, q) \/ For(db', y, q)
        PROVE  db[q] = db'[q]
    BY <1>4, <1>7, <1>10, <1>11, <2>1 DEF For
  <2>2. \A y \in Ticket \ {x} : \A q \in Slip :
          For(db, y, q) \/ For(db', y, q) => db[q] = db'[q]
    BY <2>1
  <2> QED BY <2>2, SameSlips
<1>16. TillAt(s)' BY <1>3, <1>9 DEF TillAt
<1>17. AllEarned(db') = AllEarned(db) + j.earned
  <2>1. /\ SaleTable(db) /\ SaleTable(db') /\ db[x] = Absent /\ db'[x] # Absent
        /\ \A y \in Ticket \ {x} : db'[y] = db[y]
    BY <1>4, <1>8, <1>10, <1>11, <1>12, <1>14
  <2>2. EarnedOn(db')[x] = EarnedOn(db)[x] + j.earned
    BY <1>6, <1>10, <2>1 DEF EarnedOn
  <2>3. j.earned \in Int BY <1>6
  <2> QED BY ONLY <2>1, <2>2, <2>3, x \in Ticket, EarnedMoves
<1>18. AllOwed' = AllOwed + j.earned /\ AllOwed \in Nat
  <2>1. \A t \in Session : TillAt(t) BY DEF TillInv
  <2>2. AllOwed' = AllOwed + (Owed'[s] - Owed[s]) /\ AllOwed \in Nat
    BY <1>9, <1>16, <2>1, OwedMoves, OwedType
  <2>3. Owed'[s] = j.earned /\ Owed[s] = 0 BY <1>1, <1>9 DEF Owed
  <2> QED BY <1>6, <2>2, <2>3
<1>19. Redeemable(db') = Redeemable(db) + j.points /\ Redeemable(db) \in Nat
  <2>1. /\ SlipTable(db) /\ SlipTable(db') /\ \A q \in Slip \ {p} : db'[q] = db[q]
        /\ j.points \in Nat /\ Worth(db', p) = Worth(db, p) + j.points
    BY <1>4, <1>7, <1>8, <1>10, <1>11, <1>12, <1>14 DEF Worth
  <2>2. Redeemable(db') = Redeemable(db) + j.points
    BY ONLY <2>1, p \in Slip, RedeemableAdds
  <2> QED BY <1>12, <2>2, SlipSums
<1>20. TillTables'
  <2>1. Counter!TypeOK' BY <1>11, <1>12, <1>14 DEF TillTables, Counter!TypeOK, SlipTable, SaleTable
  <2>2. Counter!ScoreAddsUp' BY <1>11, <1>12 DEF TillTables, Counter!ScoreAddsUp
  <2>4. ASSUME NEW q \in Slip, db'[q] # Absent
        PROVE  db'[db'[q].sale] # Absent /\ (db'[q].born => db'[q].verified)
    <3>1. CASE q = p BY <1>7, <1>8, <1>10, <3>1
    <3>2. CASE q # p BY <1>11, <1>12, <1>13, <2>4, <3>2 DEF TillTables
    <3> QED BY <3>1, <3>2
  <2>5. \A y \in Ticket : db'[y] # Absent /\ db'[y].done /\ ~db'[y].straight =>
          Tally(db', y) >= TicketPrice
    BY <1>6, <1>10, <1>11, <1>12, <1>15 DEF TillTables
  <2>6. db'[Score].lifetime + AllOwed' <= Start + AllEarned(db')
    <3>1. db[Score].lifetime + AllOwed <= Start + AllEarned(db) BY <1>12 DEF TillTables
    <3>2. PICK a, b, c, n : a = db[Score].lifetime /\ b = AllOwed /\ c = AllEarned(db) /\ n = j.earned
      OBVIOUS
    <3>3. a \in Nat /\ b \in Nat /\ c \in Nat /\ n \in Nat /\ Start \in Nat /\ a + b <= Start + c
      BY <1>6, <1>12, <1>18, <3>1, <3>2, EarnedType, TillTypes, TillAssumed DEF ScoreRow
    <3>4. a + (b + n) <= Start + (c + n) BY ONLY <3>3
    <3> QED BY <1>11, <1>17, <1>18, <3>2, <3>4
  <2> QED BY <2>1, <2>2, <2>4, <2>5, <2>6 DEF TillTables
<1>21. calm' => TillCalm' /\ db'[Score].redeemed + j.points <= Redeemable(db')
  <2>1. calm' => TillCalm BY <1>9 DEF TillInv
  <2>2. db[Score].redeemed \in Nat BY TillTypes DEF ScoreRow
  <2>3. calm' => /\ db'[Score].redeemed <= Redeemable(db')
                 /\ db'[Score].redeemed + j.points <= Redeemable(db')
    BY <1>7, <1>11, <1>19, <2>1, <2>2 DEF TillCalm
  <2> QED BY <2>3 DEF TillCalm
<1>22. Considerate(s) /\ DOMAIN db' = Counter!Row
  <2>1. ASSUME NEW t \in Session \ {s}, NEW h \in Shift \cap DOMAIN mine[t]
        PROVE  Covered(db, db', h)
    <3>1. sale.shift # h
      <4>1. x \in Ticket \cap DOMAIN mine[s] BY <1>4
      <4>2. mine[s][x].shift # h BY <1>4, <4>1, RungApart
      <4> QED BY <1>5, <4>2
    <3>2. ASSUME NEW q \in Slip, FullAt(db', h, q)
          PROVE  FullAt(db, h, q) /\ db[q].amount = db'[q].amount
      <4>1. CASE q = p BY <1>7, <1>10, <3>1, <3>2, <4>1 DEF FullAt, OnShift
      <4>2. CASE q # p
        <5>1. db'[q] = db[q] BY <1>11, <4>2
        <5>2. db[q] # Absent BY <3>2, <5>1 DEF FullAt, OnShift
        <5>3. db'[db[q].sale] = db[db[q].sale] BY <1>11, <1>13, <5>2
        <5> QED BY <3>2, <5>1, <5>3 DEF FullAt, OnShift
      <4> QED BY <4>1, <4>2
    <3> QED BY <1>12, <1>14, <3>2, FullLess
  <2>2. \A y \in Ticket : db[y] # Absent => db'[y] # Absent
    BY <1>4, <1>11
  <2>3. \A h \in Shift : db[h] # Absent => db'[h] # Absent BY <1>11
  <2> QED BY <1>9, <1>14, <2>1, <2>2, <2>3, CommitConsiderate
<1>23. calm' => TillAlone(s)' BY ONLY <1>9, <1>21 DEF TillAlone
<1>24. TillInv' BY <1>9, <1>16, <1>20, <1>21, <1>22, <1>23, TillMove
<1>25. SettledRight
  <2>1. \A q \in Slip : db[q] # Absent => db'[q] = db[q] BY <1>4, <1>11
  <2> QED BY <2>1 DEF SettledRight
<1> QED BY <1>11, <1>24, <1>25 DEF ShutRight

\* When a request ends.
LEMMA TillEnds ==
  ASSUME TillInv, NEW s \in Session, Counter!EndRequest(s)
  PROVE  /\ at[s] = "commit" /\ Others(s) /\ Watched(s) /\ at'[s] = "idle"
         /\ mine'[s] = Unwritten /\ Overwritten(mine[s]) /\ calm' = calm
         /\ TillAt(s)' /\ TillAlone(s)' /\ AllOwed' = AllOwed
<1>1. at[s] = "commit" /\ Publish(s, "idle", NoJob) /\ Shaped
  BY TillRequests DEF Counter!EndRequest, TillInv
<1>2. /\ Others(s) /\ Watched(s) /\ at'[s] = "idle" /\ mine'[s] = Unwritten
      /\ Overwritten(mine[s]) /\ calm' = calm
  BY <1>1, PublishMoves
<1>3. TillAt(s)' /\ TillAlone(s)' BY <1>2 DEF TillAt, TillAlone
<1>4. AllOwed' = AllOwed
  <2>1. \A t \in Session : TillAt(t) BY DEF TillInv
  <2>2. AllOwed' = AllOwed + (Owed'[s] - Owed[s]) /\ AllOwed \in Nat
    BY <1>2, <1>3, <2>1, OwedMoves, OwedType
  <2>3. Owed'[s] = 0 /\ Owed[s] = 0 BY <1>1, <1>2 DEF Owed
  <2> QED BY <2>2, <2>3
<1> QED BY <1>1, <1>2, <1>3, <1>4

\* A shift closes.
LEMMA TillEndClose ==
  ASSUME TillInv, NEW s \in Session, Counter!EndRequest(s), ShiftDone(s)
  PROVE  TillInv' /\ ShutRight /\ SettledRight
<1>1. /\ at[s] = "commit" /\ Others(s) /\ Watched(s) /\ at'[s] = "idle"
      /\ mine'[s] = Unwritten /\ Overwritten(mine[s]) /\ calm' = calm
      /\ TillAt(s)' /\ TillAlone(s)' /\ AllOwed' = AllOwed
  BY TillEnds
<1>2. PICK h \in Shift : /\ Locking(s, h) /\ mine[s][h] \in Counter!ShiftRow /\ ~mine[s][h].open
                         /\ mine[s][h].total >= FullOn(db, h)
  BY DEF ShiftDone
<1>3. PICK row : row = mine[s][h] OBVIOUS
<1>4. DOMAIN mine[s] = {h} /\ db[h] # Absent /\ db[h].open /\ row # Absent
  BY <1>2, <1>3, TillAssumed DEF Locking
<1>5. db'[h] = row /\ \A r \in Counter!Row \ {h} : db'[r] = db[r]
  BY <1>1, <1>3, <1>4, TillAssumed DEF Overwritten, TillInv
<1>6. \A r \in Ticket \cup Slip \cup {Score} : db'[r] = db[r] BY <1>5, TillAssumed
<1>7. \A g \in Shift \ {h} : db'[g] = db[g] BY <1>5, TillAssumed
<1>8. \A g \in Shift : db'[g] \in Counter!ShiftRow \cup {Absent} BY <1>2, <1>3, <1>5, <1>7, TillTypes
<1>9. /\ TillTables' /\ Grows(db, db') /\ \A g : Covered(db, db', g)
      /\ TillCalm => TillCalm'
      /\ \A x \in Ticket : db[x] # Absent => db'[x] # Absent
  <2>1. db[Score].lifetime + AllOwed <= Start + AllEarned(db) /\ db'[Score] = db[Score]
    BY <1>6 DEF TillInv, TillTables
  <2> QED BY <1>1, <1>6, <1>8, <2>1, TillTypes, TablesStay DEF TillCalm
<1>10. Considerate(s) /\ DOMAIN db' = Counter!Row
  <2>1. \A g \in Shift : db[g] # Absent => db'[g] # Absent BY <1>4, <1>5, <1>7
  <2> QED BY <1>1, <1>9, <2>1, CommitConsiderate
<1>11. TillInv' BY <1>1, <1>9, <1>10, TillMove DEF TillInv
<1>12. calm => row.total = AllOn(db, h)
  <2>1. h \in Shift \cap DOMAIN mine[s] BY <1>4
  <2> QED BY <1>1, <1>3, <2>1 DEF TillInv, TillAlone
<1>13. SettledRight BY <1>6 DEF SettledRight
<1> QED BY <1>2, <1>3, <1>4, <1>5, <1>7, <1>11, <1>12, <1>13 DEF ShutRight

\* A request that has nothing more to write ends.
LEMMA TillEndNothing ==
  ASSUME TillInv, NEW s \in Session, Counter!EndRequest(s), mine[s] = Unwritten
  PROVE  TillInv' /\ ShutRight /\ SettledRight
<1>1. /\ at[s] = "commit" /\ Others(s) /\ Watched(s) /\ at'[s] = "idle"
      /\ mine'[s] = Unwritten /\ Overwritten(mine[s]) /\ calm' = calm
      /\ TillAt(s)' /\ TillAlone(s)' /\ AllOwed' = AllOwed
  BY TillEnds
<1>2. DOMAIN mine[s] = {} BY DEF Unwritten
<1>3. \A r \in Counter!Row : db'[r] = db[r] BY <1>1, <1>2 DEF Overwritten, TillInv
<1>4. \A r \in Ticket \cup Slip \cup Shift \cup {Score} : db'[r] = db[r] BY <1>3, TillAssumed
<1>5. \A g \in Shift : db'[g] \in Counter!ShiftRow \cup {Absent} BY <1>4, TillTypes
<1>6. /\ TillTables' /\ Grows(db, db') /\ \A g : Covered(db, db', g)
      /\ TillCalm => TillCalm'
      /\ \A x \in Ticket : db[x] # Absent => db'[x] # Absent
  <2>1. db[Score].lifetime + AllOwed <= Start + AllEarned(db) /\ db'[Score] = db[Score]
    BY <1>4 DEF TillInv, TillTables
  <2> QED BY <1>1, <1>4, <1>5, <2>1, TillTypes, TablesStay DEF TillCalm
<1>7. Considerate(s) /\ DOMAIN db' = Counter!Row
  <2>1. \A g \in Shift : db[g] # Absent => db'[g] # Absent BY <1>4
  <2> QED BY <1>1, <1>6, <2>1, CommitConsiderate
<1>8. TillInv' BY <1>1, <1>6, <1>7, TillMove DEF TillInv
<1>9. SettledRight BY <1>4 DEF SettledRight
<1> QED BY <1>4, <1>8, <1>9 DEF ShutRight

\* verify_customer_payment commits.
LEMMA TillEndCheck ==
  ASSUME TillInv, NEW s \in Session, Counter!EndRequest(s), Checking(s)
  PROVE  TillInv' /\ ShutRight /\ SettledRight
<1>1. /\ at[s] = "commit" /\ Others(s) /\ Watched(s) /\ at'[s] = "idle"
      /\ mine'[s] = Unwritten /\ Overwritten(mine[s]) /\ calm' = calm
      /\ TillAt(s)' /\ TillAlone(s)' /\ AllOwed' = AllOwed
  BY TillEnds
<1>2. PICK j, p, x : j = job[s] /\ p = j.slip /\ x = j.sale OBVIOUS
<1>3. PICK m, v, award : m = mine[s] /\ v = View(s) /\ award = Awarded(s, x) OBVIOUS
<1>4. /\ j \in CheckJob /\ p \in Slip /\ x \in Ticket /\ j.points \in Nat
      /\ db[p] # Absent /\ db[p].sale = x /\ db[p].points = j.points /\ db[x] # Absent
      /\ DOMAIN m \subseteq {p, x, Score} /\ (p \in DOMAIN m \/ db[p].deleted)
      /\ p \in DOMAIN m => m[p] = [db[p] EXCEPT !.verified = TRUE]
      /\ x \in DOMAIN m => /\ m[x] \in Counter!SaleRow /\ m[x].done
                           /\ Tally(v, x) >= TicketPrice
  BY <1>1, <1>2, <1>3 DEF Checking, CheckJob
<1>5. \A r \in Counter!Row : db'[r] = Sees(s, r) BY <1>1, TillRows DEF Overwritten, TillInv, Sees
<1>6. TillTables /\ SlipTable(db) /\ SaleTable(db) BY TillTypes DEF TillInv
<1>7. PICK slip, sale, score : slip = db'[p] /\ sale = db'[x] /\ score = db'[Score] OBVIOUS
<1>8. /\ slip \in Counter!SlipRow /\ slip # Absent
      /\ slip.sale = x /\ slip.points = j.points /\ slip.amount = db[p].amount
      /\ slip.rung = db[p].rung /\ slip.born = db[p].born /\ slip.deleted = db[p].deleted
      /\ db[p].verified => slip.verified
      /\ p \in DOMAIN m => slip.verified
  <2>1. db[p] \in Counter!SlipRow BY <1>4, <1>6 DEF SlipTable
  <2>2. slip = IF p \in DOMAIN m THEN [db[p] EXCEPT !.verified = TRUE] ELSE db[p]
    BY <1>3, <1>4, <1>5, <1>7, TillAssumed DEF Sees
  <2>3. CASE p \in DOMAIN m
    <3>1. slip = [db[p] EXCEPT !.verified = TRUE] BY <2>2, <2>3
    <3> QED BY <1>4, <2>1, <3>1, TillAssumed DEF Counter!SlipRow
  <2>4. CASE p \notin DOMAIN m BY <1>4, <2>1, <2>2, <2>4
  <2> QED BY <2>3, <2>4
<1>9. /\ sale \in Counter!SaleRow /\ sale # Absent
      /\ sale = IF x \in DOMAIN m THEN m[x] ELSE db[x]
      /\ sale = Sees(s, x)
  <2>1. db[x] \in Counter!SaleRow BY <1>4, <1>6 DEF SaleTable
  <2>2. sale = Sees(s, x) BY <1>4, <1>5, <1>7, TillAssumed
  <2>3. sale = IF x \in DOMAIN m THEN m[x] ELSE db[x] BY <1>3, <2>2 DEF Sees
  <2> QED BY <1>4, <2>1, <2>2, <2>3, TillAssumed
<1>10. /\ \A q \in Slip \ {p} : db'[q] = db[q]
       /\ \A y \in Ticket \ {x} : db'[y] = db[y]
       /\ \A h \in Shift : db'[h] = db[h]
  <2>1. ASSUME NEW r \in Counter!Row, r \notin {p, x, Score} PROVE db'[r] = db[r]
    BY <1>3, <1>4, <1>5, <2>1 DEF Sees
  <2> QED BY <1>4, <2>1, TillAssumed
<1>11. /\ score \in ScoreRow /\ score.score = score.lifetime - score.redeemed
       /\ score.lifetime = db[Score].lifetime + award
       /\ score.redeemed = db[Score].redeemed + j.points
  <2>1. score = Sees(s, Score) BY <1>5, <1>7, TillAssumed
  <2>2. Redeemed(s) = j.points BY <1>1, <1>2 DEF Redeemed
  <2> QED BY <1>2, <1>3, <2>1, <2>2 DEF Checking
<1>12. \A q \in Slip : v[q] = db'[q]
  BY <1>3, <1>5, TillAssumed DEF View
<1>13. \A q \in Slip : db[q] # Absent => db[q].sale \in Ticket /\ db[db[q].sale] # Absent
  BY <1>6 DEF TillTables, SlipTable, Counter!SlipRow
<1>14. SlipTable(db') /\ SaleTable(db') /\ Grows(db, db')
  BY <1>4, <1>6, <1>7, <1>8, <1>9, <1>10 DEF SlipTable, SaleTable, Grows
<1>15. \A y \in Ticket \ {x} : Tally(db', y) = Tally(db, y)
  <2>1. ASSUME NEW y \in Ticket \ {x}, NEW q \in Slip, For(db, y, q) \/ For(db', y, q)
        PROVE  db[q] = db'[q]
    <3>1. db[p].sale = x /\ db'[p].sale = x BY <1>4, <1>7, <1>8
    <3>2. q # p BY <2>1, <3>1 DEF For
    <3> QED BY <1>10, <3>2
  <2>2. \A y \in Ticket \ {x} : \A q \in Slip :
          For(db, y, q) \/ For(db', y, q) => db[q] = db'[q]
    BY <2>1
  <2> QED BY <2>2, SameSlips
<1>16. Tally(db', x) = Tally(v, x) /\ (Unsettled(db', x) <=> Unsettled(v, x))
  <2>1. \A q \in Slip : For(db', x, q) \/ For(v, x, q) => db'[q] = v[q] BY <1>12
  <2> QED BY <2>1, SameSlips
<1>17. sale.done /\ ~sale.straight => Tally(db', x) >= TicketPrice
  <2>1. CASE x \in DOMAIN m BY <1>4, <1>16, <2>1
  <2>2. CASE x \notin DOMAIN m
    <3>1. sale.done /\ ~sale.straight => Tally(db, x) >= TicketPrice
      BY <1>4, <1>6, <1>9, <2>2 DEF TillTables
    <3>2. Tally(db, x) <= Tally(db', x) BY <1>6, <1>14, TallyGrows
    <3>3. Tally(db, x) \in Nat /\ Tally(db', x) \in Nat BY <1>6, <1>14, SlipSums
    <3> QED BY <3>1, <3>2, <3>3, TillAssumed
  <2> QED BY <2>1, <2>2
<1>18. AllEarned(db') = AllEarned(db) + award /\ award \in Int /\ AllEarned(db) \in Nat
  <2>1. AllEarned(db) \in Nat BY <1>6, EarnedType
  <2>2. sale.earned \in Nat /\ db[x].earned \in Nat
    BY <1>4, <1>6, <1>9 DEF SaleTable, Counter!SaleRow
  <2>3. award = sale.earned - db[x].earned
    <3>1. CASE x \in DOMAIN m BY <1>3, <1>9, <3>1 DEF Awarded
    <3>2. CASE x \notin DOMAIN m BY <1>3, <1>9, <2>2, <3>2 DEF Awarded
    <3> QED BY <3>1, <3>2
  <2>4. award \in Int /\ sale.earned = db[x].earned + award BY <2>2, <2>3
  <2>5. EarnedOn(db')[x] = EarnedOn(db)[x] + award BY <1>4, <1>7, <1>9, <2>4 DEF EarnedOn
  <2>6. AllEarned(db') = AllEarned(db) + award
    BY ONLY <1>4, <1>6, <1>10, <1>14, <2>4, <2>5, EarnedMoves
  <2> QED BY <2>1, <2>4, <2>6
<1>19. TillTables'
  <2>1. Counter!TypeOK' BY <1>6, <1>7, <1>10, <1>11, <1>14
    DEF TillTables, Counter!TypeOK, SlipTable, SaleTable, ScoreRow
  <2>2. Counter!ScoreAddsUp' BY <1>7, <1>11 DEF Counter!ScoreAddsUp, ScoreRow
  <2>4. ASSUME NEW q \in Slip, db'[q] # Absent
        PROVE  db'[db'[q].sale] # Absent /\ (db'[q].born => db'[q].verified)
    <3>1. CASE q = p BY <1>4, <1>6, <1>7, <1>8, <1>9, <3>1 DEF TillTables
    <3>2. CASE q # p
      <4>1. db'[q] = db[q] /\ db[q].sale \in Ticket /\ db[db[q].sale] # Absent
            /\ (db[q].born => db[q].verified)
        BY <1>6, <1>10, <1>13, <2>4, <3>2 DEF TillTables
      <4>2. CASE db[q].sale = x BY <1>7, <1>9, <4>1, <4>2
      <4>3. CASE db[q].sale # x BY <1>10, <4>1, <4>3
      <4> QED BY <4>2, <4>3
    <3> QED BY <3>1, <3>2
  <2>5. ASSUME NEW y \in Ticket, db'[y] # Absent, db'[y].done, ~db'[y].straight
        PROVE  Tally(db', y) >= TicketPrice
    <3>1. CASE y = x BY <1>7, <1>17, <2>5, <3>1
    <3>2. CASE y # x BY <1>6, <1>10, <1>15, <2>5, <3>2 DEF TillTables
    <3> QED BY <3>1, <3>2
  <2>6. db'[Score].lifetime + AllOwed' <= Start + AllEarned(db')
    <3>1. db[Score].lifetime + AllOwed <= Start + AllEarned(db) BY <1>6 DEF TillTables
    <3>2. PICK a, b, c : a = db[Score].lifetime /\ b = AllOwed /\ c = AllEarned(db) OBVIOUS
    <3>3. b \in Nat BY <3>2, OwedType DEF TillInv
    <3>4. a \in Nat /\ c \in Nat /\ award \in Int /\ Start \in Nat /\ a + b <= Start + c
      BY <1>18, <3>1, <3>2, TillTypes, TillAssumed DEF ScoreRow
    <3>5. (a + award) + b <= Start + (c + award) BY ONLY <3>3, <3>4
    <3> QED BY <1>1, <1>7, <1>11, <1>18, <3>2, <3>5
  <2> QED BY <2>1, <2>2, <2>4, <2>5, <2>6 DEF TillTables
<1>20. calm => ~db[p].verified /\ p \in DOMAIN m /\ (sale.done \/ Unsettled(v, x))
  BY <1>1, <1>2, <1>3, <1>4, <1>9 DEF TillInv, TillAlone
<1>21. ASSUME calm PROVE TillCalm'
  <2>1. TillCalm BY <1>21 DEF TillInv
  <2>2. Redeemable(db') = Redeemable(db) + j.points
    <3>1. ~db[p].verified /\ slip.verified /\ ~db[p].born /\ ~slip.born
      <4>1. ~db[p].verified /\ slip.verified BY <1>8, <1>20, <1>21
      <4>2. ~db[p].born BY <1>4, <1>6, <4>1 DEF TillTables
      <4> QED BY <1>8, <4>1, <4>2
    <3>2. Worth(db, p) = j.points BY <1>4, <3>1 DEF Worth
    <3>3. Worth(db', p) = 2 * j.points BY <1>7, <1>8, <3>1 DEF Worth
    <3>4. Worth(db', p) = Worth(db, p) + j.points BY <1>4, <3>2, <3>3
    <3> QED BY ONLY <1>4, <1>6, <1>10, <1>14, <3>4, RedeemableAdds
  <2>3. Redeemable(db) \in Nat /\ db[Score].redeemed \in Nat
    BY <1>6, SlipSums, TillTypes DEF ScoreRow
  <2> QED BY <1>4, <1>7, <1>11, <2>1, <2>2, <2>3 DEF TillCalm
<1>22. Considerate(s) /\ DOMAIN db' = Counter!Row
  <2>1. ASSUME NEW t \in Session \ {s}, NEW h \in Shift \cap DOMAIN mine[t]
        PROVE  Covered(db, db', h)
    <3>1. sale.shift = h => db[x].shift = h
      <4>1. CASE x \in DOMAIN m
        <5>1. x \in Ticket \cap DOMAIN mine[s] /\ mine[s][x] = sale BY <1>3, <1>4, <1>9, <4>1
        <5> QED BY <5>1, RungApart
      <4>2. CASE x \notin DOMAIN m BY <1>9, <4>2
      <4> QED BY <4>1, <4>2
    <3>2. ASSUME NEW q \in Slip, FullAt(db', h, q)
          PROVE  FullAt(db, h, q) /\ db[q].amount = db'[q].amount
      <4>1. CASE q = p
        <5>1. sale.shift = h /\ slip.rung /\ ~slip.deleted
          BY <1>7, <1>8, <3>2, <4>1 DEF FullAt, OnShift
        <5> QED BY <1>4, <1>7, <1>8, <3>1, <4>1, <5>1 DEF FullAt, OnShift
      <4>2. CASE q # p
        <5>1. db'[q] = db[q] BY <1>10, <4>2
        <5>2. db[q] # Absent BY <3>2, <5>1 DEF FullAt, OnShift
        <5>3. CASE db[q].sale = x BY <1>4, <1>7, <3>1, <3>2, <5>1, <5>2, <5>3 DEF FullAt, OnShift
        <5>4. CASE db[q].sale # x
          <6>1. db'[db[q].sale] = db[db[q].sale] BY <1>10, <1>13, <5>2, <5>4
          <6> QED BY <3>2, <5>1, <6>1 DEF FullAt, OnShift
        <5> QED BY <5>3, <5>4
      <4> QED BY <4>1, <4>2
    <3> QED BY <1>6, <1>14, <3>2, FullLess
  <2>2. \A y \in Ticket : db[y] # Absent => db'[y] # Absent BY <1>7, <1>9, <1>10
  <2>3. \A h \in Shift : db[h] # Absent => db'[h] # Absent BY <1>10
  <2> QED BY <1>1, <1>14, <2>1, <2>2, <2>3, CommitConsiderate
<1>23. TillInv' BY <1>1, <1>19, <1>21, <1>22, TillMove
<1>24. SettledRight
  <2> SUFFICES ASSUME NEW q \in Slip, calm, db[q] # Absent, ~db[q].verified, db'[q].verified
               PROVE  db'[db[q].sale].done \/ Unsettled(db', db[q].sale)
    BY DEF SettledRight
  <2>1. q = p BY <1>10
  <2> QED BY <1>4, <1>7, <1>16, <1>20, <2>1
<1> QED BY <1>10, <1>23, <1>24 DEF ShutRight

\* Every request that ends.
LEMMA TillEndRequest ==
  ASSUME TillInv, NEW s \in Session, Counter!EndRequest(s)
  PROVE  TillInv' /\ ShutRight /\ SettledRight
<1>1. TillAt(s) /\ at[s] = "commit" BY TillEnds DEF TillInv
<1>2. ShiftDone(s) \/ mine[s] = Unwritten \/ Checking(s) BY <1>1 DEF TillAt
<1> QED BY <1>2, TillEndClose, TillEndNothing, TillEndCheck

\* What is added up of some slips.
LEMMA SumPicked ==
  ASSUME NEW v, SlipTable(v), NEW P \in SUBSET Slip, \A p \in P : v[p] # Absent
  PROVE  Counter!SumFunction([p \in P |-> v[p].amount]) =
           SumSlips([p \in Slip |-> IF p \in P THEN v[p].amount ELSE 0])
<1> DEFINE a == [p \in P |-> v[p].amount]
<1>1. \A p \in P : a[p] \in Int /\ a[p] = v[p].amount BY DEF SlipTable, Counter!SlipRow
<1>2. [p \in P |-> a[p]] = a OBVIOUS
<1>3. [p \in Slip |-> IF p \in P THEN a[p] ELSE 0] =
        [p \in Slip |-> IF p \in P THEN v[p].amount ELSE 0]
  BY <1>1
<1> HIDE DEF a
<1>4. Counter!SumFunction([p \in P |-> a[p]]) = SumSlips([p \in Slip |-> IF p \in P THEN a[p] ELSE 0])
  BY <1>1, SumOver
<1>5. Counter!SumFunction(a) = SumSlips([p \in Slip |-> IF p \in P THEN v[p].amount ELSE 0])
  BY <1>2, <1>3, <1>4
<1> QED BY <1>5 DEF a

\* What sales earned and what slips claim.
LEMMA BooksAre ==
  ASSUME TillInv
  PROVE  Counter!Earned = AllEarned(db) /\ Counter!Claimed = Redeemable(db)
<1>1. SlipTable(db) /\ SaleTable(db) BY TillTypes
<1>2. Counter!Earned = AllEarned(db)
  <2> DEFINE S == {y \in Ticket : Counter!Exists(y)}
             f == [x \in S |-> db[x].earned]
             g == EarnedOn(db)
  <2>1. \A x \in S : f[x] \in Int /\ g[x] = f[x]
    BY <1>1 DEF SaleTable, Counter!SaleRow, Counter!Exists, EarnedOn
  <2>2. \A x \in Ticket \ S : g[x] = 0 BY DEF Counter!Exists, EarnedOn
  <2>3. S \in SUBSET Ticket /\ DOMAIN f = S OBVIOUS
  <2>4. Counter!Earned = Counter!SumFunction(f) BY DEF Counter!Earned
  <2> HIDE DEF S, f, g
  <2>5. SumFunctionOnSet(f, S) = SumFunctionOnSet(g, Ticket)
    BY <2>1, <2>2, <2>3, TillAssumed, SumRestrict
  <2> QED BY <2>3, <2>4, <2>5, TillSums DEF AllEarned, g
<1>3. Counter!Claimed = Redeemable(db)
  <2> DEFINE P == {q \in Slip : Counter!Exists(q)}
             a == [p \in P |-> Counter!Claim(p)]
  <2>1. P \in SUBSET Slip OBVIOUS
  <2>2. Counter!Claimed = Counter!SumFunction(a) BY DEF Counter!Claimed
  <2>3. \A p \in P : a[p] = Worth(db, p) BY DEF Counter!Claim, Counter!Exists, Worth
  <2>4. \A p \in P : a[p] \in Int BY <1>1, <2>3, SlipSums
  <2>5. [p \in Slip |-> IF p \in P THEN a[p] ELSE 0] = [p \in Slip |-> Worth(db, p)]
    BY <2>3 DEF Counter!Exists, Worth
  <2>6. [p \in P |-> a[p]] = a OBVIOUS
  <2> HIDE DEF P, a
  <2>7. Counter!SumFunction([p \in P |-> a[p]]) = SumSlips([p \in Slip |-> IF p \in P THEN a[p] ELSE 0])
    BY <2>1, <2>4, SumOver
  <2> QED BY <2>2, <2>5, <2>6, <2>7 DEF Redeemable
<1> QED BY <1>2, <1>3

\* What is verified of a sale and what is paid on a shift.
LEMMA PaidAre ==
  ASSUME SlipTable(db), NEW x, NEW t
  PROVE  /\ Counter!SumFunction([p \in {q \in Slip : Counter!Exists(q) /\ db[q].sale = x /\ db[q].verified}
                                   |-> db[p].amount]) = Tally(db, x)
         /\ Counter!PaidOn(t, Slip) = AllOn(db, t)
         /\ Counter!PaidOn(t, {p \in Slip : Counter!Exists(p) /\ db[p].rung}) = FullOn(db, t)
<1> DEFINE V == {q \in Slip : Counter!Exists(q) /\ db[q].sale = x /\ db[q].verified}
           A == {q \in Slip : OnShift(db, t, q)}
           F == {q \in Slip : FullAt(db, t, q)}
           D(S) == [p \in Slip |-> IF p \in S THEN db[p].amount ELSE 0]
<1>1. V \in SUBSET Slip /\ \A p \in V : db[p] # Absent BY DEF Counter!Exists
<1>2. A \in SUBSET Slip /\ \A p \in A : db[p] # Absent BY DEF OnShift
<1>3. F \in SUBSET Slip /\ \A p \in F : db[p] # Absent BY DEF FullAt, OnShift
<1>4. \A p \in Slip : p \in V <=> For(db, x, p) /\ db[p].verified BY DEF For, Counter!Exists
<1>5. Tally(db, x) = SumSlips(D(V))
  <2>1. D(V) = [p \in Slip |-> IF For(db, x, p) /\ db[p].verified THEN db[p].amount ELSE 0]
    BY <1>4
  <2> QED BY <2>1 DEF Tally
<1>6. AllOn(db, t) = SumSlips(D(A)) BY DEF AllOn
<1>7. FullOn(db, t) = SumSlips(D(F)) BY DEF FullOn
<1>8. Counter!PaidOn(t, Slip) = Counter!SumFunction([p \in A |-> db[p].amount])
  <2>1. {q \in Slip : /\ Counter!Exists(q) /\ ~db[q].deleted
                      /\ Counter!Exists(db[q].sale) /\ db[db[q].sale].shift = t} = A
    BY DEF Counter!Exists, OnShift
  <2> QED BY <2>1 DEF Counter!PaidOn
<1>9. Counter!PaidOn(t, {p \in Slip : Counter!Exists(p) /\ db[p].rung}) =
         Counter!SumFunction([p \in F |-> db[p].amount])
  <2> DEFINE X == {p \in Slip : Counter!Exists(p) /\ db[p].rung}
  <2>1. {q \in X : /\ Counter!Exists(q) /\ ~db[q].deleted
                   /\ Counter!Exists(db[q].sale) /\ db[db[q].sale].shift = t} = F
    BY DEF Counter!Exists, OnShift, FullAt
  <2> HIDE DEF X
  <2>2. Counter!PaidOn(t, X) = Counter!SumFunction([p \in F |-> db[p].amount])
    BY <2>1 DEF Counter!PaidOn
  <2> QED BY <2>2 DEF X
<1> HIDE DEF V, A, F
<1>10. /\ Counter!SumFunction([p \in V |-> db[p].amount]) = SumSlips(D(V))
       /\ Counter!SumFunction([p \in A |-> db[p].amount]) = SumSlips(D(A))
       /\ Counter!SumFunction([p \in F |-> db[p].amount]) = SumSlips(D(F))
  BY <1>1, <1>2, <1>3, SumPicked
<1> HIDE DEF D
<1>11. Counter!SumFunction([p \in V |-> db[p].amount]) = Tally(db, x) BY <1>5, <1>10
<1>12. /\ Counter!PaidOn(t, Slip) = AllOn(db, t)
       /\ Counter!PaidOn(t, {p \in Slip : Counter!Exists(p) /\ db[p].rung}) = FullOn(db, t)
  BY <1>6, <1>7, <1>8, <1>9, <1>10
<1> QED BY <1>11, <1>12 DEF V

\* What the invariant says of points and of sales.
LEMMA TillShow ==
  ASSUME TillInv
  PROVE  Counter!PointsAddUp /\ Counter!CompletedWhenPaid
<1>1. SlipTable(db) /\ SaleTable(db) /\ TillTables BY TillTypes DEF TillInv
<1>2. Counter!PointsAddUp
  <2>1. db[Score].lifetime \in Nat /\ db[Score].redeemed \in Nat BY TillTypes DEF ScoreRow
  <2>2. AllOwed \in Nat /\ AllEarned(db) \in Nat BY <1>1, OwedType, EarnedType DEF TillInv
  <2>3. db[Score].lifetime <= Start + Counter!Earned
    <3>1. db[Score].lifetime + AllOwed <= Start + AllEarned(db) BY <1>1 DEF TillTables
    <3> QED BY <2>1, <2>2, <3>1, BooksAre, TillAssumed
  <2>4. calm => db[Score].redeemed <= Counter!Claimed
    <3>1. calm => db[Score].redeemed <= Redeemable(db) BY DEF TillInv, TillCalm
    <3> QED BY <3>1, BooksAre
  <2> QED BY <1>1, <2>3, <2>4 DEF Counter!PointsAddUp, Counter!PointsBacked, TillTables
<1>3. Counter!CompletedWhenPaid
  <2>1. ASSUME NEW x \in Ticket, db[x] # Absent, db[x].done, ~db[x].straight
        PROVE  Counter!SumFunction([p \in {q \in Slip : Counter!Exists(q) /\ db[q].sale = x
                                                        /\ db[q].verified} |-> db[p].amount])
                 >= TicketPrice
    <3>1. Tally(db, x) >= TicketPrice BY <1>1, <2>1 DEF TillTables
    <3>2. Counter!SumFunction([p \in {q \in Slip : Counter!Exists(q) /\ db[q].sale = x
                                                   /\ db[q].verified} |-> db[p].amount])
            = Tally(db, x)
      BY <1>1, PaidAre
    <3> QED BY <3>1, <3>2
  <2> QED BY <2>1 DEF Counter!CompletedWhenPaid, Counter!Exists
<1> QED BY <1>2, <1>3

\* And of shifts, of a step.
LEMMA TillCloses ==
  ASSUME TillInv, ShutRight
  PROVE  Counter!Closes
<1>1. SlipTable(db) BY TillTypes
<1>2. ASSUME NEW t \in Shift, db[t] # Absent, ~db[t].open PROVE db'[t] = db[t]
  BY <1>2 DEF ShutRight
<1>3. ASSUME NEW t \in Shift, db[t] # Absent, db[t].open, ~db'[t].open
      PROVE  /\ db'[t].total >= Counter!PaidOn(t, {p \in Slip : Counter!Exists(p) /\ db[p].rung})
             /\ calm => db'[t].total = Counter!PaidOn(t, Slip)
  <2>1. db'[t] # db[t] BY <1>3
  <2>2. db'[t].total >= FullOn(db, t) /\ (calm => db'[t].total = AllOn(db, t))
    BY <1>3, <2>1 DEF ShutRight
  <2>3. /\ Counter!PaidOn(t, Slip) = AllOn(db, t)
        /\ Counter!PaidOn(t, {p \in Slip : Counter!Exists(p) /\ db[p].rung}) = FullOn(db, t)
    BY <1>1, PaidAre
  <2> QED BY <2>2, <2>3
<1> QED BY <1>2, <1>3 DEF Counter!Closes, Counter!Exists

\* And of a verification.
LEMMA TillSettles ==
  ASSUME TillInv', SettledRight
  PROVE  Counter!VerifiedCompletes
<1>1. SlipTable(db') BY DEF TillInv, TillTables, Counter!TypeOK, SlipTable
<1>2. ASSUME NEW p \in Slip, calm, db[p] # Absent, ~db[p].verified, db'[p].verified,
             NEW x, x = db[p].sale,
             NEW slips, slips = {q \in Slip : db'[q] # Absent /\ ~db'[q].deleted /\ db'[q].sale = x},
             \A q \in slips : db'[q].verified,
             Counter!SumFunction([q \in slips |-> db'[q].amount]) = TicketPrice
      PROVE  db'[x].done
  <2>1. \A q \in Slip : q \in slips <=> Stands(db', x, q) BY <1>2 DEF Stands, For
  <2>2. Counter!SumFunction([q \in slips |-> db'[q].amount]) = Charged(db', x)
    <3>1. slips \in SUBSET Slip /\ \A q \in slips : db'[q] # Absent BY <1>2
    <3>2. [q \in Slip |-> IF q \in slips THEN db'[q].amount ELSE 0] =
            [q \in Slip |-> IF Stands(db', x, q) THEN db'[q].amount ELSE 0]
      BY <2>1
    <3>3. Counter!SumFunction([q \in slips |-> db'[q].amount]) =
            SumSlips([q \in Slip |-> IF q \in slips THEN db'[q].amount ELSE 0])
      BY ONLY <1>1, <3>1, SumPicked
    <3> QED BY <3>2, <3>3 DEF Charged
  <2>3. ~Unsettled(db', x) BY <1>2, <2>1, <2>2 DEF Unsettled
  <2>4. db'[x].done \/ Unsettled(db', x) BY <1>2 DEF SettledRight
  <2> QED BY <2>3, <2>4
<1> QED BY <1>2 DEF Counter!VerifiedCompletes, Counter!Exists

\* Nothing is sold at first.
LEMMA TillStart == Counter!Init => TillInv
<1> SUFFICES ASSUME Counter!Init PROVE TillInv
  OBVIOUS
<1>1. /\ Shaped /\ calm \in BOOLEAN
      /\ \A s \in Session : mine[s] = Unwritten /\ at[s] = "idle"
  BY DEF Counter!Init, Counter!RequestsInit, Counter!Unwritten, Unwritten, Shaped
<1>2. PICK row : row = [score |-> Start, lifetime |-> Start, redeemed |-> 0] OBVIOUS
<1>3. db = [r \in Counter!Row |-> IF r = Score THEN row ELSE Absent] BY <1>2 DEF Counter!Init
<1>4. /\ DOMAIN db = Counter!Row /\ db[Score] = row
      /\ \A r \in Shift \cup Ticket \cup Slip : db[r] = Absent
  BY <1>3, TillAssumed
<1>5. /\ row \in ScoreRow /\ row.score = row.lifetime - row.redeemed /\ row.score >= 0
      /\ row.lifetime = Start /\ row.redeemed = 0
  BY <1>2, TillAssumed DEF ScoreRow
<1>6. SlipTable(db) /\ SaleTable(db) BY <1>4 DEF SlipTable, SaleTable
<1>7. \A s \in Session : TillAt(s) /\ TillAlone(s) BY <1>1 DEF TillAt, TillAlone
<1>8. AllOwed = 0
  <2>1. \A s \in Session : Owed[s] = 0 BY <1>1 DEF Owed
  <2> QED BY <2>1, TillAssumed, SumOfZeros DEF AllOwed
<1>9. AllEarned(db) \in Nat /\ Redeemable(db) \in Nat BY <1>6, EarnedType, SlipSums
<1>10. TillTables
  <2>1. Counter!TypeOK BY <1>4, <1>5 DEF Counter!TypeOK, ScoreRow
  <2>2. Counter!ScoreAddsUp BY <1>4, <1>5 DEF Counter!ScoreAddsUp
  <2>3. db[Score].lifetime + AllOwed <= Start + AllEarned(db)
    BY <1>4, <1>5, <1>8, <1>9, TillAssumed
  <2> QED BY <1>4, <2>1, <2>2, <2>3 DEF TillTables
<1>11. TillCalm BY <1>4, <1>5, <1>9 DEF TillCalm
<1>12. WritesApart BY <1>1 DEF WritesApart, Unwritten
<1> QED BY <1>1, <1>4, <1>7, <1>10, <1>11, <1>12 DEF TillInv

\* Every step of the counter.
LEMMA TillStep ==
  ASSUME TillInv, Counter!Next
  PROVE  TillInv' /\ ShutRight /\ SettledRight
<1>1. PICK s \in Session : \/ Counter!Shifts(s) \/ Counter!FullSale(s) \/ Counter!Bare(s)
                           \/ Counter!Pay(s) \/ Counter!DeletePayment(s) \/ Counter!Verification(s)
                           \/ Counter!EndRequest(s) \/ Counter!Fail(s)
  BY DEF Counter!Next
<1>2. db' = db => ShutRight /\ SettledRight BY DEF ShutRight, SettledRight
<1>3. /\ \A l, j : Begin(s, l, j) \/ Look(s, l, j) => db' = db
      /\ \A n, l, j : Write(s, n, l, j) => db' = db
      /\ Rollback(s) => db' = db
  BY DEF Begin, Look, Write, Rollback
<1>4. CASE Counter!Shifts(s)
  <2>1. CASE Counter!OpenShift(s) BY <2>1, TillOpenShift
  <2>2. CASE Counter!StartClose(s)
    <3>1. db' = db BY <1>3, <2>2, TillRequests DEF Counter!StartClose
    <3> QED BY <1>2, <2>2, <3>1, TillStartClose
  <2>3. CASE Counter!LockShift(s)
    <3>1. db' = db BY <2>3 DEF Counter!LockShift, Counter!Rollback, Counter!Write
    <3> QED BY <1>2, <2>3, <3>1, TillLockShift
  <2>4. CASE Counter!SumShift(s)
    <3>1. db' = db BY <2>4 DEF Counter!SumShift, Counter!Look
    <3> QED BY <1>2, <2>4, <3>1, TillSumShift
  <2>5. CASE Counter!CloseShift(s)
    <3>1. db' = db BY <2>5 DEF Counter!CloseShift, Counter!Write
    <3> QED BY <1>2, <2>5, <3>1, TillCloseShift
  <2> QED BY <1>4, <2>1, <2>2, <2>3, <2>4, <2>5 DEF Counter!Shifts
<1>5. CASE Counter!FullSale(s)
  <2>1. CASE Counter!StartSale(s)
    <3>1. db' = db BY <2>1 DEF Counter!StartSale, Counter!Begin
    <3> QED BY <1>2, <2>1, <3>1, TillStartSale
  <2>2. CASE Counter!PickShift(s)
    <3>1. db' = db BY <2>2 DEF Counter!PickShift, Counter!Look
    <3> QED BY <1>2, <2>2, <3>1, TillPickShift
  <2>3. CASE Counter!RingUp(s)
    <3>1. db' = db BY <2>3 DEF Counter!RingUp, Counter!Write
    <3> QED BY <1>2, <2>3, <3>1, TillRingUp
  <2>4. CASE Counter!CommitSale(s) BY <2>4, TillCommitSale
  <2>5. CASE Counter!Earn(s) BY <2>5, TillEarn
  <2>6. CASE Counter!Deduct(s) BY <2>6, TillDeduct
  <2> QED BY <1>5, <2>1, <2>2, <2>3, <2>4, <2>5, <2>6 DEF Counter!FullSale
<1>6. CASE Counter!Verification(s)
  <2>1. CASE Counter!StartVerify(s)
    <3>1. db' = db BY <2>1 DEF Counter!StartVerify, Counter!Begin
    <3> QED BY <1>2, <2>1, <3>1, TillStartVerify
  <2>2. CASE Counter!ReadBalance(s)
    <3>1. db' = db BY <2>2 DEF Counter!ReadBalance, Counter!Look, Counter!Rollback
    <3> QED BY <1>2, <2>2, <3>1, TillReadBalance
  <2>3. CASE Counter!Redeem(s)
    <3>1. db' = db BY <2>3 DEF Counter!Redeem, Counter!Write, Counter!Rollback
    <3> QED BY <1>2, <2>3, <3>1, TillRedeem
  <2>4. CASE Counter!MarkVerified(s)
    <3>1. db' = db BY <2>4 DEF Counter!MarkVerified, Counter!Write, Counter!Look
    <3> QED BY <1>2, <2>4, <3>1, TillMarkVerified
  <2>5. CASE Counter!CheckPaid(s)
    <3>1. db' = db BY <2>5 DEF Counter!CheckPaid, Counter!Look
    <3> QED BY <1>2, <2>5, <3>1, TillCheckPaid
  <2>6. CASE Counter!Complete(s)
    <3>1. db' = db BY <2>6 DEF Counter!Complete, Counter!Write
    <3> QED BY <1>2, <2>6, <3>1, TillComplete
  <2> QED BY <1>6, <2>1, <2>2, <2>3, <2>4, <2>5, <2>6 DEF Counter!Verification
<1>7. CASE Counter!Fail(s)
  <2>1. at[s] # "idle" /\ Rollback(s) BY <1>7, TillRequests
  <2>2. db' = db BY <1>3, <2>1
  <2> QED BY <1>2, <2>1, <2>2, TillRollback
<1>8. CASE Counter!Bare(s)
  <2>1. CASE Counter!BareSale(s) BY <2>1, TillBareSale
  <2>2. CASE Counter!PickLink(s)
    <3>1. db' = db BY <2>2 DEF Counter!PickLink, Counter!Look, Counter!Rollback
    <3> QED BY <1>2, <2>2, <3>1, TillPickLink
  <2>3. CASE Counter!BindSale(s) BY <2>3, TillBindSale
  <2> QED BY <1>8, <2>1, <2>2, <2>3 DEF Counter!Bare
<1>9. CASE Counter!Pay(s) \/ Counter!DeletePayment(s) BY <1>9, TillPay, TillDeletePayment
<1>10. CASE Counter!EndRequest(s) BY <1>10, TillEndRequest
<1> QED BY <1>1, <1>4, <1>5, <1>6, <1>7, <1>8, <1>9, <1>10

\* A step that changes nothing keeps the invariant of the till.
LEMMA TillStill ==
  ASSUME TillInv, db' = db, mine' = mine, at' = at, job' = job, calm' = calm
  PROVE  TillInv'
<1>1. Shaped' /\ WritesApart' /\ DOMAIN db' = Counter!Row BY DEF TillInv, Shaped, WritesApart
<1>2. TillTables' /\ (calm' => TillCalm')
  <2>1. AllOwed' = AllOwed BY DEF AllOwed, Owed
  <2>2. Counter!TypeOK' /\ Counter!ScoreAddsUp'
    BY DEF TillInv, TillTables, Counter!TypeOK, Counter!ScoreAddsUp
  <2> QED BY <2>1, <2>2 DEF TillInv, TillTables, TillCalm
<1>3. ASSUME NEW s \in Session PROVE TillAt(s)' /\ (calm' => TillAlone(s)')
  <2>1. PICK j : j = job[s] OBVIOUS
  <2>2. Checking(s) => Checking(s)'
    <3>1. Checking(s) => /\ j \in CheckJob
                         /\ j.slip \in DOMAIN mine[s] => at'[s] \in {"check", "complete", "commit"}
                         /\ at'[s] \in {"check", "complete", "commit"} =>
                              j.slip \in DOMAIN mine[s] \/ db[j.slip].deleted
                         /\ j.sale \in DOMAIN mine[s] => at'[s] = "commit"
                         /\ at'[s] = "complete" => Tally(View(s), j.sale) >= TicketPrice
      BY <2>1 DEF Checking
    <3>2. job'[s] = j BY <2>1
    <3> QED BY <2>1, <3>1, <3>2, CheckingReads
  <2>3. \A h \in Shift : Locking(s, h) => Locking(s, h)' BY DEF Locking, NobodyRings
  <2>4. ShiftDone(s) => ShiftDone(s)' BY <2>3 DEF ShiftDone
  <2>5. Rung(s) => Rung(s)' BY DEF Rung
  <2>6. Locking(s, job[s].shift) => Locking(s, job[s].shift)' BY DEF Locking, NobodyRings
  <2>7. TillAt(s) BY DEF TillInv
  <2>8. TillAt(s)' BY <2>2, <2>4, <2>5, <2>6, <2>7 DEF TillAt
  <2>9. \A r : Sees(s, r)' = Sees(s, r) BY DEF Sees
  <2>10. View(s)' = View(s) BY <2>9 DEF View
  <2>11. calm' => TillAlone(s)' BY <2>9, <2>10 DEF TillInv, TillAlone
  <2> QED BY <2>8, <2>11
<1> QED BY <1>1, <1>2, <1>3 DEF TillInv

-----------------------------------------------------------------------------
(* The behaviours that TLC explores.                                        *)

\* What holds of the part that a behaviour is in.
SellingInv ==
  /\ part = "till" => TillInv
  /\ part = "gifts" => GiftsInv
  /\ part = "points" => PointsInv
  /\ part = "after" => AfterInv
  /\ part = "offers" => OffersInv

\* It holds at first.
LEMMA SellingBegins == Init => SellingInv
BY TillStart, GiftsStart, PointsStart, AfterStart, OffersStart DEF Init, SellingInv

\* A step that changes nothing keeps it.
LEMMA SellingStill == ASSUME SellingInv, UNCHANGED vars PROVE SellingInv'
<1>1. db' = db /\ mine' = mine /\ at' = at /\ job' = job /\ calm' = calm /\ part' = part
  BY DEF vars
<1>2. Shaped => Shaped' BY <1>1 DEF Shaped
<1>3. GiftsInv => GiftsInv'
  <2>1. Gifts!TypeOK => Gifts!TypeOK' BY <1>1 DEF Gifts!TypeOK
  <2>2. NoOrphans => NoOrphans'
    BY <1>1 DEF NoOrphans, Gifts!Exists, Gifts!Dimensions, Gifts!Options
  <2>3. \A s \in Session : GiftsJob(s) => GiftsJob(s)' BY <1>1 DEF GiftsJob
  <2>4. \A s \in Session : Halfway(s) => Halfway(s)'
    BY <1>1 DEF Halfway, Gifts!Outside, Gifts!Dimensions, Gifts!Options
  <2> QED BY <1>1, <1>2, <2>1, <2>2, <2>3, <2>4 DEF GiftsInv
<1>4. PointsInv => PointsInv'
  <2>1. Points!TypeOK => Points!TypeOK' BY <1>1 DEF Points!TypeOK
  <2>2. \A s \in Session : PointsJob(s) => PointsJob(s)' BY <1>1 DEF PointsJob
  <2>3. GrantedOnce => GrantedOnce' BY <1>1 DEF GrantedOnce
  <2>4. LedgerBacked => LedgerBacked' BY <1>1 DEF LedgerBacked, Shown, Pending
  <2> QED BY <1>1, <1>2, <2>1, <2>2, <2>3, <2>4 DEF PointsInv
<1>5. AfterInv => AfterInv'
  <2>1. WritesApart => WritesApart' BY <1>1 DEF WritesApart
  <2>2. /\ \A l : Away(l)' = Away(l) /\ Erasures' = Erasures
        /\ Credits' = Credits /\ Limit' = Limit /\ Lines' = Lines
        /\ \A s : /\ Seen(s)' = Seen(s) /\ Held(s)' = Held(s)
                  /\ \A l : Back(s, l)' = Back(s, l)
    BY <1>1, AfterStill
  <2>3. SaleTables => SaleTables' BY <1>1, <2>2 DEF SaleTables, After!CreditBacked
  <2>4. CalmTables => CalmTables' BY <1>1, <2>2 DEF CalmTables
  <2>5. \A s \in Session : Written(s) => Written(s)' BY <1>1, <2>2 DEF Written
  <2>6. \A s \in Session : Alone(s) => Alone(s)' BY <1>1, <2>2 DEF Alone
  <2>7. \A s : /\ Returning(s) => Returning(s)'
               /\ ReturnDone(s) => ReturnDone(s)'
               /\ RefundDone(s) => RefundDone(s)'
               /\ NoteDone(s) => NoteDone(s)'
               /\ VoidDone(s) => VoidDone(s)'
               /\ \A n : NoteWritten(s, n) => NoteWritten(s, n)'
    BY <1>1, <2>2 DEF Returning, NoNotes, ReturnDone, RefundDone, NoteDone, VoidDone, NoteWritten
  <2>8. \A s \in Session : Control(s) => Control(s)' BY <1>1, <2>7 DEF Control
  <2> QED BY <1>1, <1>2, <2>1, <2>3, <2>4, <2>5, <2>6, <2>8 DEF AfterInv
<1>6. OffersInv => OffersInv'
  <2>1. WritesApart => WritesApart' BY <1>1 DEF WritesApart
  <2>2. OffersInv => /\ DOMAIN db' = Offers!Row /\ OffersWhole'
                     /\ \A p \in Promo : db'[p] \in Offers!Header \cup {Absent}
    BY <1>1, OffersStay
  <2>3. \A s \in Session : Holding(s) => Holding(s)' BY <1>1, StillHolding
  <2>4. \A s \in Session : OfferJob(s) => OfferJob(s)' BY <1>1, <2>3 DEF OfferJob
  <2> QED BY <1>2, <2>1, <2>2, <2>4 DEF OffersInv
<1>7. TillInv => TillInv' BY <1>1, TillStill
<1> QED BY <1>1, <1>3, <1>4, <1>5, <1>6, <1>7 DEF SellingInv

\* Every step of every part keeps it.
LEMMA SellingSteps == SellingInv /\ [Next]_vars => SellingInv'
<1>1. ASSUME SellingInv, Next PROVE SellingInv'
  <2>1. part' = part /\ \/ part = "till" /\ Counter!Next
                        \/ part = "after" /\ After!Next
                        \/ part = "offers" /\ Offers!Next
                        \/ part = "gifts" /\ Gifts!Next
                        \/ part = "points" /\ Points!Next
    BY <1>1 DEF Next
  <2>2. CASE part = "till" /\ Counter!Next BY <1>1, <2>1, <2>2, TillStep DEF SellingInv
  <2>3. CASE part = "after" /\ After!Next BY <1>1, <2>1, <2>3, AfterStep DEF SellingInv
  <2>4. CASE part = "gifts" /\ Gifts!Next BY <1>1, <2>1, <2>4, GiftsStep DEF SellingInv
  <2>5. CASE part = "points" /\ Points!Next BY <1>1, <2>1, <2>5, PointsStep DEF SellingInv
  <2>6. CASE part = "offers" /\ Offers!Next BY <1>1, <2>1, <2>6, OffersStep DEF SellingInv
  <2> QED BY <2>1, <2>2, <2>3, <2>4, <2>5, <2>6
<1> QED BY <1>1, SellingStill

\* However requests interleave, fail or are repeated, the points of a customer add up and come
\* from sales and payments, and no verification completes a sale before it is paid.
THEOREM PaidAlwaysInFull == Spec => []PaidInFull
<1>1. SellingInv => PaidInFull BY TillShow DEF SellingInv, PaidInFull
<1> QED BY <1>1, SellingBegins, SellingSteps, PTL DEF Spec

\* A shift that closes has counted every payment rung up on it, whoever sells, pays or deletes
\* while it closes, and does not change any more.
THEOREM ShiftAlwaysCloses == Spec => ShiftCloses
<1>1. SellingInv /\ [Next]_vars => [part = "till" => Counter!Closes]_vars
  <2>1. ASSUME SellingInv, Next, part = "till" PROVE Counter!Closes
    <3>1. Counter!Next BY <2>1 DEF Next
    <3>2. TillInv BY <2>1 DEF SellingInv
    <3> QED BY <3>1, <3>2, TillStep, TillCloses
  <2> QED BY <2>1
<1> QED BY <1>1, SellingBegins, SellingSteps, PTL DEF Spec, ShiftCloses

\* Alone, the verification after which nothing of a sale waits and all is paid completes it.
THEOREM VerifiedAlwaysCompletes == Spec => VerifiedCompletes
<1>1. SellingInv /\ [Next]_vars => [part = "till" => Counter!VerifiedCompletes]_vars
  <2>1. ASSUME SellingInv, Next, part = "till" PROVE Counter!VerifiedCompletes
    <3>1. Counter!Next BY <2>1 DEF Next
    <3>2. TillInv BY <2>1 DEF SellingInv
    <3> QED BY <3>1, <3>2, TillStep, TillSettles
  <2> QED BY <2>1
<1> QED BY <1>1, SellingBegins, SellingSteps, PTL DEF Spec, VerifiedCompletes

\* The pieces of a sale are on it, were returned, or were deleted with their line, and its
\* totals are what its lines are worth, but for lines that were deleted, however many returns,
\* deletions, refunds and notes are under way at once.
THEOREM SaleAlwaysAddsUp == Spec => []SaleAddsUp
<1>1. SellingInv => SaleAddsUp BY AfterShow DEF SellingInv, SaleAddsUp
<1> QED BY <1>1, SellingBegins, SellingSteps, PTL DEF Spec

\* Notes one after the other credit no more than was invoiced, and a supplier has a credit,
\* of what the note is worth, when there is a note of damaged goods and only then.
THEOREM NotesAlwaysBacked == Spec => []NotesBacked
<1>1. SellingInv => NotesBacked BY AfterShow DEF SellingInv, NotesBacked
<1> QED BY <1>1, SellingBegins, SellingSteps, PTL DEF Spec

\* A replacement of the dimensions of a rule that ends alone leaves those that were sent, and
\* no option outside them; no rule, no options.
THEOREM RoyaltiesAlwaysKept == Spec => []RoyaltiesKept
<1>1. SellingInv => RoyaltiesKept BY GiftsShow DEF SellingInv, RoyaltiesKept
<1> QED BY <1>1, SellingBegins, SellingSteps, PTL DEF Spec

\* The chart never shows points that the customer was not given, and the collections of a
\* sale earn one by one what it earns at once, but for less than a point each.
THEOREM PointsAlwaysGranted == Spec => []PointsGranted
<1>1. SellingInv => PointsGranted BY PointsShow DEF SellingInv, PointsGranted
<1> QED BY <1>1, SellingBegins, SellingSteps, PTL DEF Spec

\* Whatever requests come at once, the rules of a promotion are those that one of them sent,
\* of a promotion that is gone nothing stays, and no kind of promotion with fair rules takes
\* off more than what is bought costs.
THEOREM DiscountsAlwaysFit ==
  Spec => [](part = "offers" => RulesWhole /\ Offers!DiscountsFit)
<1>1. SellingInv => (part = "offers" => RulesWhole /\ Offers!DiscountsFit)
  BY OffersShow DEF SellingInv, OffersInv, OffersWhole
<1> QED BY <1>1, SellingBegins, SellingSteps, PTL DEF Spec

\* When requests that send rules send targets with them, as those of the run do, both are of
\* one request, however many write the promotion at once.
THEOREM PromotionsAlwaysKept == ASSUME SentTogether PROVE Spec => []PromotionsKept
<1>1. SellingInv => PromotionsKept BY OffersShow DEF SellingInv, PromotionsKept
<1> QED BY <1>1, SellingBegins, SellingSteps, PTL DEF Spec

=============================================================================
