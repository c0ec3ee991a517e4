--------------------------- MODULE Journal_proofs ---------------------------
(***************************************************************************)
(* What holds of Journal for any documents, papers, chart and requests:    *)
(* entries are where they belong, and what is undone or numbered is so     *)
(* once, whatever fails, runs at once or is lost when the process goes     *)
(* down; and no entry of a sound document is refused.                      *)
(***************************************************************************)
EXTENDS Journal, Sums, SequenceTheorems, TLAPS

Label == {"idle", "number", "insert", "resolve", "provision", "entry",
          "void", "reverse", "void entry", "commit"}

JobRow == [paper : Paper, doc : Document \cup {Absent}, number : Nat,
           account : Copy \cup {Absent}]

\* The entry of a document is being made.
Making(s) == at[s] \in {"resolve", "provision", "entry"}

-----------------------------------------------------------------------------
(* The inductive invariant of the entries.                                  *)

Columns ==
  /\ DOMAIN db = Row /\ DOMAIN mine = Session /\ DOMAIN job = Session
  /\ at \in [Session -> Label] /\ calm \in BOOLEAN /\ lazy \in BOOLEAN
  /\ db[Chart] \in Copy \cup {Absent} /\ accountCache \in Copy \cup {Absent}
  /\ \A d \in Document : /\ db[d] \in DocumentRow \cup {Absent}
                         /\ db[EntryOf(d)] \in EntryRow \cup {Absent}
  /\ \A d \in Document, s \in Session : db[Reversed(d, s)] \in Nat

\* What a request knows, by how far it has come.
Knows(s) ==
  LET j == job[s]  d == j.doc IN
  IF at[s] = "idle" THEN mine[s] = Unwritten /\ j = NoJob
  ELSE
    /\ j \in JobRow
    /\ at[s] \notin {"number", "insert"} => d \in Document
    /\ at[s] = "insert" /\ j.paper.kind = "manual" => db[Chart] # Absent
    /\ at[s] = "entry" => j.account \in Copy /\ (~lazy => j.account = db[Chart])
    /\ at[s] \in {"void", "reverse", "void entry"} => Recorded(d)
    /\ at[s] = "void entry" => db[EntryOf(d)] # Absent
    /\ at[s] = "commit" => Recorded(d) \/ d \in DOMAIN mine[s]

\* The rows a request has written and not committed.
Rows(s) ==
  LET d == job[s].doc IN
  CASE at[s] \in {"idle", "number", "void", "void entry"} -> {}
    [] at[s] = "insert" -> {Numbering}
    [] at[s] = "reverse" -> {d}
    [] Making(s) -> {Numbering, Chart, d}
    [] at[s] = "commit" -> {Numbering, Chart, d, EntryOf(d), Reversed(d, s)}

\* What they hold: one chart at most is being made, and only while there is none.
Holds(s) ==
  LET d == job[s].doc  m == mine[s] IN
  /\ DOMAIN m \subseteq Rows(s)
  /\ Chart \in DOMAIN m => m[Chart] \in Copy /\ db[Chart] = Absent /\ lazy
  /\ at[s] # "idle" /\ d \in Document \cap DOMAIN m =>
       /\ m[d] \in DocumentRow
       /\ Recorded(d) => m[d].paper = db[d].paper /\ m[d].number = db[d].number /\ m[d].voided
       /\ ~Recorded(d) => ~m[d].voided
  /\ at[s] = "commit" /\ EntryOf(d) \in DOMAIN m => m[EntryOf(d)] \in EntryRow
  /\ at[s] = "commit" /\ Reversed(d, s) \in DOMAIN m =>
       m[Reversed(d, s)] = db[Reversed(d, s)] + 1

\* The document whose entry is being made: it is new, and part of the
\* transaction, but for a payroll.
Makes(s) ==
  LET j == job[s]  d == j.doc IN
  Making(s) =>
    /\ IF j.paper.kind = "payroll"
       THEN Recorded(d) /\ db[d].paper = j.paper /\ d \notin DOMAIN mine[s]
       ELSE /\ ~Recorded(d) /\ d \in DOMAIN mine[s]
            /\ mine[s][d].paper = j.paper /\ mine[s][d].number = j.number
    /\ at[s] # "entry" => Chart \notin DOMAIN mine[s]

\* A document, its entry and the chart as they must stand together.
Together(doc, entry, chart) ==
  /\ entry # Absent => doc # Absent /\ entry.account = chart
  /\ doc # Absent /\ doc.paper.kind \in Primary => entry # Absent
  /\ ~lazy /\ doc # Absent /\ Accepted(doc.paper) /\ doc.paper.kind # "payroll"
       => entry # Absent

Placed(d) == Together(db[d], db[EntryOf(d)], db[Chart])

\* What COMMIT is about to publish.
Ready(s) ==
  LET d == job[s].doc IN
  at[s] = "commit" => Together(Sees(s, d), Sees(s, EntryOf(d)), Sees(s, Chart))

Apart == \A s, t \in Session : s # t => DOMAIN mine[s] \cap DOMAIN mine[t] = {}

\* The process remembers the chart that is there, or one a request made.
Cached == ~lazy => accountCache \in {Absent, db[Chart]}

Sited == /\ Columns /\ Apart /\ Cached
         /\ \A d \in Document : Placed(d)
         /\ \A s \in Session : Knows(s) /\ Holds(s) /\ Makes(s) /\ Ready(s)

-----------------------------------------------------------------------------
(* The inductive invariant of the numbers.                                  *)

\* A voucher that is not committed has the next number, and its session the lock.
NextUp(s, n) == Numbering \in DOMAIN mine[s] /\ n = Cardinality(Vouchers) + 1

Numbers(s) ==
  LET j == job[s]  d == j.doc IN
  /\ (at[s] = "insert" \/ Making(s)) /\ j.paper.kind = "withholding" => NextUp(s, j.number)
  /\ at[s] = "number" => j.paper.kind = "withholding"
  /\ at[s] = "commit" /\ d \in DOMAIN mine[s] /\ ~Recorded(d)
       /\ mine[s][d].paper.kind = "withholding" => NextUp(s, mine[s][d].number)

Numbered == VouchersNumbered /\ \A s \in Session : Numbers(s)

-----------------------------------------------------------------------------
(* The inductive invariant of the reversals, of requests one at a time.     *)

Alone == calm => \A s, t \in Session : s # t => at[s] = "idle" \/ at[t] = "idle"

\* As often as a document and its entry were undone.
Undone(doc, entry, n) ==
  n = IF entry = Absent THEN 0
      ELSE (IF doc.voided THEN 1 ELSE 0) + (IF entry.status = "voided" THEN 1 ELSE 0)

More(s, d) == IF Reversed(d, s) \in DOMAIN mine[s] THEN 1 ELSE 0

Undoes(s) ==
  LET d == job[s].doc IN
  /\ at[s] \in {"void", "reverse"} => ~db[d].voided
  /\ at[s] = "reverse" => d \in DOMAIN mine[s]
  /\ at[s] = "void entry" => db[EntryOf(d)].status = "confirmed"
  /\ Making(s) => db[EntryOf(d)] = Absent /\ ~Sees(s, d).voided
  /\ at[s] = "commit" => Undone(Sees(s, d), Sees(s, EntryOf(d)), Reversals(d) + More(s, d))

Calmly == calm => /\ \A d \in Document : Undone(db[d], db[EntryOf(d)], Reversals(d))
                  /\ \A s \in Session : Undoes(s)

Inv == Sited /\ Numbered /\ Alone /\ Calmly

-----------------------------------------------------------------------------
(* Rows.                                                                    *)

\* Rows of different sorts, or of different documents, are different rows.
LEMMA RowsApart ==
  /\ Chart # Numbering /\ Chart # Period /\ Numbering # Period
  /\ Chart \in Row /\ Numbering \in Row /\ Period \in Row
  /\ \A d \in Document :
       /\ d \in Row /\ EntryOf(d) \in Row
       /\ d # Chart /\ d # Numbering /\ d # Period
       /\ EntryOf(d) # Chart /\ EntryOf(d) # Numbering /\ EntryOf(d) # Period
       /\ \A e \in Document : d # EntryOf(e) /\ (EntryOf(d) = EntryOf(e) => d = e)
  /\ \A d \in Document, s \in Session :
       /\ Reversed(d, s) \in Row
       /\ Reversed(d, s) # Chart /\ Reversed(d, s) # Numbering /\ Reversed(d, s) # Period
       /\ \A e \in Document : e # Reversed(d, s) /\ EntryOf(e) # Reversed(d, s)
       /\ \A e \in Document, t \in Session :
            Reversed(d, s) = Reversed(e, t) => d = e /\ s = t
<1>1. \A d, e, s : EntryOf(d) # Reversed(e, s) BY DEF EntryOf, Reversed
<1>2. \A d, e : EntryOf(d) = EntryOf(e) => d = e BY DEF EntryOf
<1>3. \A d, e, s, t : Reversed(d, s) = Reversed(e, t) => d = e /\ s = t BY DEF Reversed
<1> QED BY <1>1, <1>2, <1>3, JournalConstants DEF Row

-----------------------------------------------------------------------------
(* Steps.                                                                   *)

\* What the other sessions do and hold stays as it is.
Others(s) ==
  /\ DOMAIN mine' = Session /\ DOMAIN job' = Session /\ at' \in [Session -> Label]
  /\ \A t \in Session \ {s} : mine'[t] = mine[t] /\ at'[t] = at[t] /\ job'[t] = job[t]

\* Two requests are under way from the beginning of the second.
Watched(s) ==
  (at[s] = "idle" /\ calm' = (calm /\ Quiet)) \/ (at[s] # "idle" /\ calm' = calm)

\* Only s moves.
LEMMA GotoMoves ==
  ASSUME Columns, NEW s \in Session, NEW label \in Label, NEW j, Goto(s, label, j)
  PROVE  /\ at'[s] = label /\ job'[s] = j /\ DOMAIN job' = Session /\ at' \in [Session -> Label]
         /\ \A t \in Session \ {s} : at'[t] = at[t] /\ job'[t] = job[t]
BY DEF Columns, Goto

\* A statement within a transaction.
LEMMA WriteMoves ==
  ASSUME Columns, NEW s \in Session, NEW new, NEW label \in Label, NEW j, Write(s, new, label, j)
  PROVE  /\ Others(s) /\ at'[s] = label /\ job'[s] = j /\ db' = db /\ calm' = calm
         /\ DOMAIN mine'[s] = DOMAIN new \cup DOMAIN mine[s]
         /\ \A x \in DOMAIN mine'[s] :
              mine'[s][x] = IF x \in DOMAIN new THEN new[x] ELSE mine[s][x]
         /\ \A t \in Session \ {s} : DOMAIN new \cap DOMAIN mine[t] = {}
<1>1. Goto(s, label, j) /\ mine' = [mine EXCEPT ![s] = Over(new, mine[s])]
  BY DEF Write
<1>2. /\ mine'[s] = Over(new, mine[s]) /\ DOMAIN mine' = Session
      /\ \A t \in Session \ {s} : mine'[t] = mine[t]
  BY <1>1 DEF Columns
<1>3. /\ DOMAIN mine'[s] = DOMAIN new \cup DOMAIN mine[s]
      /\ \A x \in DOMAIN mine'[s] : mine'[s][x] = IF x \in DOMAIN new THEN new[x] ELSE mine[s][x]
  BY <1>2 DEF Over
<1> QED BY <1>1, <1>2, <1>3, GotoMoves DEF Others, Write, Free

\* A query.
LEMMA LookMoves ==
  ASSUME Columns, NEW s \in Session, NEW label \in Label, NEW j, Look(s, label, j)
  PROVE  /\ Others(s) /\ at'[s] = label /\ job'[s] = j /\ mine' = mine /\ db' = db
         /\ calm' = calm
<1>1. Goto(s, label, j) /\ mine' = mine /\ db' = db /\ calm' = calm BY DEF Look
<1> QED BY <1>1, GotoMoves DEF Others, Columns

\* The beginning of a request.
LEMMA BeginMoves ==
  ASSUME Columns, NEW s \in Session, NEW label \in Label, NEW j, Begin(s, label, j)
  PROVE  /\ Others(s) /\ at'[s] = label /\ job'[s] = j /\ mine' = mine /\ db' = db
         /\ at[s] = "idle" /\ calm' = (calm /\ Quiet)
<1>1. Goto(s, label, j) /\ mine' = mine /\ db' = db /\ at[s] = "idle" /\ calm' = (calm /\ Quiet)
  BY DEF Begin
<1> QED BY <1>1, GotoMoves DEF Others, Columns

\* ROLLBACK.
LEMMA RollbackMoves ==
  ASSUME Columns, NEW s \in Session, Rollback(s)
  PROVE  /\ Others(s) /\ at'[s] = "idle" /\ job'[s] = NoJob /\ mine'[s] = Unwritten
         /\ db' = db /\ calm' = calm
<1>1. Goto(s, "idle", NoJob) /\ mine' = [mine EXCEPT ![s] = Unwritten]
  BY DEF Rollback
<1>2. /\ mine'[s] = Unwritten /\ DOMAIN mine' = Session
      /\ \A t \in Session \ {s} : mine'[t] = mine[t]
  BY <1>1 DEF Columns
<1>3. "idle" \in Label BY DEF Label
<1> QED BY <1>1, <1>2, <1>3, GotoMoves DEF Others, Rollback

\* Whatever s does, no two were at once only if it is the only one.
LEMMA StaysAlone ==
  ASSUME Inv, NEW s \in Session, Watched(s)
  PROVE  calm' => calm /\ \A t \in Session \ {s} : at[t] = "idle"
BY DEF Inv, Alone, Quiet, Watched

\* A step of s that publishes nothing.
LEMMA QuietStep ==
  ASSUME Inv, NEW s \in Session, Others(s), db' = db, Watched(s),
         lazy' \in BOOLEAN, lazy => lazy', accountCache' \in Copy \cup {Absent}, Cached',
         \A t \in Session \ {s} : DOMAIN mine'[s] \cap DOMAIN mine[t] = {},
         Knows(s)', Holds(s)', Makes(s)', Ready(s)', Numbers(s)',
         calm' => Undoes(s)'
  PROVE  Inv'
<1>0. Columns /\ Apart /\ Numbered /\ Alone /\ Calmly BY DEF Inv, Sited
<1>1. /\ \A t \in Session \ {s} : mine'[t] = mine[t] /\ at'[t] = at[t] /\ job'[t] = job[t]
      /\ DOMAIN mine' = Session /\ DOMAIN job' = Session /\ at' \in [Session -> Label]
  BY DEF Others
<1>2. calm' => calm /\ \A t \in Session \ {s} : at[t] = "idle" BY StaysAlone
<1>3. calm' \in BOOLEAN BY <1>0 DEF Watched, Columns
<1>4. Columns' BY <1>0, <1>1, <1>3 DEF Columns
<1>5. Apart' BY <1>0, <1>1 DEF Apart
<1>6. \A d \in Document : Placed(d)' BY DEF Inv, Sited, Placed, Together
<1>7. Vouchers' = Vouchers BY DEF Vouchers, Recorded
<1>8. ASSUME NEW t \in Session, t # s
      PROVE  (Knows(t) /\ Holds(t) /\ Makes(t) /\ Ready(t))' /\ Numbers(t)'
  <2>1. mine'[t] = mine[t] /\ at'[t] = at[t] /\ job'[t] = job[t] BY <1>1, <1>8
  <2>2. Knows(t) /\ Holds(t) /\ Makes(t) /\ Ready(t) /\ Numbers(t)
    BY DEF Inv, Sited, Numbered
  <2>3. Knows(t)' BY <2>1, <2>2 DEF Knows, Recorded
  <2>4. Holds(t)'
    <3>1. Rows(t)' = Rows(t) BY <2>1 DEF Rows, Making
    <3>2. \A d : Recorded(d)' <=> Recorded(d) BY DEF Recorded
    <3> QED BY <2>1, <2>2, <3>1, <3>2 DEF Holds
  <2>5. Makes(t)' BY <2>1, <2>2 DEF Makes, Making, Recorded
  <2>6. Ready(t)'
    <3>1. \A r : Sees(t, r)' = Sees(t, r) BY <2>1 DEF Sees
    <3>2. \A doc, entry, chart : Together(doc, entry, chart) => Together(doc, entry, chart)'
      BY DEF Together
    <3> QED BY <2>1, <2>2, <3>1, <3>2 DEF Ready
  <2>7. Numbers(t)'
    <3>1. /\ Making(t)' <=> Making(t)
          /\ \A n : NextUp(t, n)' <=> NextUp(t, n)
          /\ \A d : Recorded(d)' <=> Recorded(d)
      BY <1>7, <2>1 DEF Making, NextUp, Recorded
    <3> QED BY <2>1, <2>2, <3>1 DEF Numbers
  <2> QED BY <2>3, <2>4, <2>5, <2>6, <2>7
<1>9. Sited' BY <1>4, <1>5, <1>6, <1>8 DEF Sited
<1>10. VouchersNumbered' BY <1>0, <1>7 DEF Numbered, VouchersNumbered
<1>11. Numbered' BY <1>8, <1>10 DEF Numbered
<1>12. Alone' BY <1>1, <1>2 DEF Alone
<1>13. Calmly'
  <2> SUFFICES ASSUME calm'
               PROVE  /\ \A d \in Document : Undone(db'[d], db'[EntryOf(d)], Reversals(d)')
                      /\ \A t \in Session : Undoes(t)'
    BY DEF Calmly
  <2>1. \A d \in Document : Undone(db'[d], db'[EntryOf(d)], Reversals(d)')
    BY <1>0, <1>2 DEF Calmly, Reversals
  <2>2. ASSUME NEW t \in Session, t # s PROVE Undoes(t)'
    <3>1. at'[t] = "idle" BY <1>1, <1>2, <2>2
    <3> QED BY <3>1 DEF Undoes, Making
  <2> QED BY <2>1, <2>2
<1> QED BY <1>9, <1>11, <1>12, <1>13 DEF Inv

-----------------------------------------------------------------------------
(* The entry of a document.                                                 *)

\* What the invariant says of a request that is making one.
LEMMA WhileMaking ==
  ASSUME Inv, NEW s \in Session, Making(s), NEW d, d = job[s].doc
  PROVE  /\ d \in Document /\ job[s] \in JobRow /\ job[s].paper \in Paper
         /\ DOMAIN mine[s] \subseteq {Numbering, Chart, d}
         /\ EntryOf(d) \notin DOMAIN mine[s] /\ Reversed(d, s) \notin DOMAIN mine[s]
         /\ Chart \in DOMAIN mine[s] => mine[s][Chart] \in Copy /\ db[Chart] = Absent /\ lazy
         /\ Sees(s, d) \in DocumentRow /\ Sees(s, d).paper = job[s].paper
         /\ d \in DOMAIN mine[s] => /\ ~Recorded(d) /\ ~mine[s][d].voided
                                    /\ mine[s][d].number = job[s].number
         /\ calm => db[EntryOf(d)] = Absent /\ Reversals(d) = 0 /\ ~Sees(s, d).voided
<1>0. Columns /\ Knows(s) /\ Holds(s) /\ Makes(s) /\ Calmly BY DEF Inv, Sited
<1>1. at[s] \notin {"idle", "number", "insert", "void", "reverse", "void entry", "commit"}
  BY DEF Making
<1>2. d \in Document /\ job[s] \in JobRow /\ job[s].paper \in Paper
  BY <1>0, <1>1 DEF Knows, JobRow
<1>3. DOMAIN mine[s] \subseteq {Numbering, Chart, d} BY <1>0, <1>1 DEF Holds, Rows
<1>4. EntryOf(d) \notin DOMAIN mine[s] /\ Reversed(d, s) \notin DOMAIN mine[s]
  BY <1>2, <1>3, RowsApart
<1>5. Chart \in DOMAIN mine[s] => mine[s][Chart] \in Copy /\ db[Chart] = Absent /\ lazy
  BY <1>0 DEF Holds
<1>6. d \in DOMAIN mine[s] => /\ mine[s][d] \in DocumentRow
                              /\ ~Recorded(d) => ~mine[s][d].voided
  BY <1>0, <1>1, <1>2 DEF Holds
<1>7. d \in DOMAIN mine[s] => /\ ~Recorded(d) /\ mine[s][d].paper = job[s].paper
                              /\ mine[s][d].number = job[s].number
  BY <1>0 DEF Makes
<1>8. d \notin DOMAIN mine[s] => /\ Recorded(d) /\ db[d].paper = job[s].paper
                                 /\ db[d] \in DocumentRow
  BY <1>0, <1>2 DEF Makes, Columns, Recorded
<1>9. Sees(s, d) \in DocumentRow /\ Sees(s, d).paper = job[s].paper
  BY <1>6, <1>7, <1>8 DEF Sees
<1>10. calm => db[EntryOf(d)] = Absent /\ Reversals(d) = 0 /\ ~Sees(s, d).voided
  BY <1>0, <1>2 DEF Calmly, Undoes, Undone
<1> QED BY <1>2, <1>3, <1>4, <1>5, <1>6, <1>7, <1>9, <1>10

\* A request that ends without a COMMIT leaves nothing.
LEMMA RollbackKeeps ==
  ASSUME Inv, NEW s \in Session, at[s] # "idle", Rollback(s), accountCache' = accountCache,
         lazy' \in BOOLEAN, lazy => lazy'
  PROVE  Inv'
<1>0. Columns /\ Cached BY DEF Inv, Sited
<1>1. /\ Others(s) /\ at'[s] = "idle" /\ job'[s] = NoJob /\ mine'[s] = Unwritten
      /\ db' = db /\ calm' = calm
  BY <1>0, RollbackMoves
<1>2. Watched(s) BY <1>1 DEF Watched
<1>3. DOMAIN mine'[s] = {} BY <1>1 DEF Unwritten
<1>4. Knows(s)' BY <1>1 DEF Knows
<1>5. Holds(s)' BY <1>1, <1>3 DEF Holds
<1>6. Makes(s)' /\ Ready(s)' BY <1>1 DEF Makes, Making, Ready
<1>7. Numbers(s)' /\ Undoes(s)' BY <1>1 DEF Numbers, Making, Undoes
<1>8. Cached' /\ accountCache' \in Copy \cup {Absent} BY <1>0, <1>1 DEF Cached, Columns
<1> QED BY <1>1, <1>2, <1>3, <1>4, <1>5, <1>6, <1>7, <1>8, QuietStep

\* Without its entry a document that needs none, or that has none it could
\* have, is published.
LEMMA EntryFailsKeeps ==
  ASSUME Inv, NEW s \in Session, at[s] \in {"provision", "entry"}, EntryFails(s),
         accountCache' = accountCache, lazy' \in BOOLEAN, lazy => lazy',
         lazy' \/ ~Accepted(job[s].paper)
  PROVE  Inv'
<1>0. Columns /\ Cached /\ Apart BY DEF Inv, Sited
<1>1. CASE job[s].paper.kind \in Primary
  <2>1. Rollback(s) BY <1>1 DEF EntryFails
  <2> QED BY <2>1, RollbackKeeps
<1>2. CASE job[s].paper.kind \notin Primary
  <2>d. PICK d : d = job[s].doc OBVIOUS
  <2> DEFINE m == [r \in DOMAIN mine[s] \ {Chart, EntryOf(d)} |-> mine[s][r]]
  <2>0. /\ d \in Document /\ job[s] \in JobRow /\ job[s].paper \in Paper
        /\ DOMAIN mine[s] \subseteq {Numbering, Chart, d}
        /\ EntryOf(d) \notin DOMAIN mine[s] /\ Reversed(d, s) \notin DOMAIN mine[s]
        /\ Sees(s, d) \in DocumentRow /\ Sees(s, d).paper = job[s].paper
        /\ d \in DOMAIN mine[s] => /\ ~Recorded(d) /\ ~mine[s][d].voided
                                   /\ mine[s][d].number = job[s].number
        /\ calm => db[EntryOf(d)] = Absent /\ Reversals(d) = 0 /\ ~Sees(s, d).voided
    BY <2>d, WhileMaking DEF Making
  <2>1. /\ mine' = [mine EXCEPT ![s] = m] /\ Goto(s, "commit", job[s])
        /\ db' = db /\ calm' = calm
    BY <1>2, <2>d DEF EntryFails
  <2>2. DOMAIN m = DOMAIN mine[s] \ {Chart} /\ \A r \in DOMAIN m : m[r] = mine[s][r]
    BY <2>0
  <2> HIDE DEF m
  <2>3. "commit" \in Label BY DEF Label
  <2>4. Others(s) /\ at'[s] = "commit" /\ job'[s] = job[s] /\ mine'[s] = m
    BY <1>0, <2>1, <2>3, GotoMoves DEF Others, Columns
  <2>5. Watched(s) BY <2>1 DEF Watched
  <2>6. d # Chart /\ d # Numbering /\ d # EntryOf(d) /\ Chart # EntryOf(d)
    BY <2>0, RowsApart
  <2>7. Sees(s, d)' = Sees(s, d)
    <3>1. d \in DOMAIN m <=> d \in DOMAIN mine[s] BY <2>2, <2>6
    <3> QED BY <2>1, <2>2, <2>4, <3>1 DEF Sees
  <2>8. Sees(s, EntryOf(d))' = db[EntryOf(d)] BY <2>0, <2>1, <2>2, <2>4 DEF Sees
  <2>9. Sees(s, Chart)' = db[Chart] BY <2>1, <2>2, <2>4 DEF Sees
  <2>10. job'[s].doc = d BY <2>4, <2>d
  <2>11. Knows(s)'
    <3>1. Recorded(d) \/ d \in DOMAIN m BY <2>0, <2>2, <2>6, JournalConstants DEF Sees, Recorded
    <3> QED BY <2>0, <2>1, <2>4, <2>10, <3>1 DEF Knows, Recorded
  <2>12. Holds(s)'
    <3>1. DOMAIN mine'[s] \subseteq Rows(s)' BY <2>0, <2>2, <2>4, <2>10 DEF Rows, Making
    <3>2. d \in DOMAIN m => mine[s][d] \in DocumentRow BY <2>0, <2>2 DEF Sees
    <3>3. d \in DOMAIN m => ~Recorded(d) /\ ~m[d].voided /\ m[d] \in DocumentRow
      BY <2>0, <2>2, <3>2
    <3>4. EntryOf(d) \notin DOMAIN m /\ Reversed(d, s) \notin DOMAIN m /\ Chart \notin DOMAIN m
      BY <2>0, <2>2
    <3> QED BY <2>1, <2>4, <2>10, <3>1, <3>3, <3>4 DEF Holds, Recorded
  <2>13. Makes(s)' BY <2>4 DEF Makes, Making
  <2>14. Ready(s)'
    <3>1. Placed(d) BY <2>0 DEF Inv, Sited
    <3>2. Sees(s, d) # Absent BY <2>0, JournalConstants
    <3>3. Sees(s, d).paper.kind \notin Primary BY <1>2, <2>0
    <3>4. lazy' \/ ~Accepted(Sees(s, d).paper) BY <2>0
    <3>5. Together(Sees(s, d), db[EntryOf(d)], db[Chart])'
      BY <2>1, <2>7, <3>1, <3>2, <3>3, <3>4 DEF Placed, Together
    <3> QED BY <2>8, <2>9, <2>10, <3>1, <3>2, <3>3, <3>4, <2>7 DEF Ready, Placed, Together
  <2>15. Numbers(s)'
    <3>1. d \in DOMAIN m => m[d].paper.kind \notin Primary BY <1>2, <2>0, <2>2 DEF Sees
    <3>2. "withholding" \in Primary BY DEF Primary
    <3> QED BY <2>4, <2>10, <3>1, <3>2 DEF Numbers, Making
  <2>16. calm' => Undoes(s)'
    <3>1. Reversals(d)' = Reversals(d) BY <2>1 DEF Reversals
    <3>2. More(s, d)' = 0 BY <2>0, <2>2, <2>4 DEF More
    <3>3. calm' => Undone(Sees(s, d)', Sees(s, EntryOf(d))', Reversals(d)' + More(s, d)')
      BY <2>0, <2>1, <2>8, <3>1, <3>2 DEF Undone
    <3> QED BY <2>4, <2>10, <3>3 DEF Undoes, Making
  <2>17. Cached' /\ accountCache' \in Copy \cup {Absent} BY <1>0, <2>1 DEF Cached, Columns
  <2>18. \A t \in Session \ {s} : DOMAIN mine'[s] \cap DOMAIN mine[t] = {}
    BY <1>0, <2>2, <2>4 DEF Apart
  <2> QED BY <2>1, <2>4, <2>5, <2>11, <2>12, <2>13, <2>14, <2>15, <2>16, <2>17, <2>18, QuietStep
<1> QED BY <1>1, <1>2


-----------------------------------------------------------------------------
(* One lemma for each statement.                                            *)

\* A request that begins has written nothing, and its session is idle before.
LEMMA BeginsEmpty ==
  ASSUME Inv, NEW s \in Session, NEW label \in Label, NEW j, Begin(s, label, j), Keep
  PROVE  /\ Others(s) /\ at'[s] = label /\ job'[s] = j /\ mine' = mine /\ db' = db
         /\ Watched(s) /\ mine'[s] = Unwritten /\ DOMAIN mine'[s] = {}
         /\ lazy' \in BOOLEAN /\ (lazy => lazy') /\ accountCache' \in Copy \cup {Absent} /\ Cached'
         /\ \A t \in Session \ {s} : DOMAIN mine'[s] \cap DOMAIN mine[t] = {}
<1>0. Columns /\ Cached /\ Knows(s) BY DEF Inv, Sited
<1>1. /\ Others(s) /\ at'[s] = label /\ job'[s] = j /\ mine' = mine /\ db' = db
      /\ at[s] = "idle" /\ calm' = (calm /\ Quiet)
  BY <1>0, BeginMoves
<1>2. mine'[s] = Unwritten BY <1>0, <1>1 DEF Knows
<1>3. DOMAIN mine'[s] = {} BY <1>2 DEF Unwritten
<1>4. lazy' = lazy /\ accountCache' = accountCache BY DEF Keep
<1> QED BY <1>0, <1>1, <1>2, <1>3, <1>4 DEF Watched, Columns, Cached

\* A document is asked for.
LEMMA StartDocumentKeeps ==
  ASSUME Inv, NEW s \in Session, StartDocument(s)
  PROVE  Inv'
<1>0. Columns /\ Keep BY DEF Inv, Sited, StartDocument
<1>1. PICK p \in Paper :
        /\ p.kind = "manual" => db[Chart] # Absent
        /\ Begin(s, IF p.kind = "withholding" THEN "number" ELSE "insert", Job(p))
  BY DEF StartDocument
<1>2. PICK label : label = IF p.kind = "withholding" THEN "number" ELSE "insert" OBVIOUS
<1>3. label \in Label /\ label \in {"number", "insert"} BY <1>2 DEF Label
<1>4. /\ Others(s) /\ at'[s] = label /\ job'[s] = Job(p) /\ mine' = mine /\ db' = db
      /\ Watched(s) /\ mine'[s] = Unwritten /\ DOMAIN mine'[s] = {}
      /\ lazy' \in BOOLEAN /\ (lazy => lazy') /\ accountCache' \in Copy \cup {Absent} /\ Cached'
      /\ \A t \in Session \ {s} : DOMAIN mine'[s] \cap DOMAIN mine[t] = {}
  BY <1>0, <1>1, <1>2, <1>3, BeginsEmpty
<1>5. Job(p) \in JobRow /\ Job(p).paper = p BY DEF Job, JobRow
<1>6. Knows(s)' BY <1>1, <1>3, <1>4, <1>5 DEF Knows
<1>7. Holds(s)' BY <1>3, <1>4 DEF Holds
<1>8. Makes(s)' /\ Ready(s)' BY <1>3, <1>4 DEF Makes, Making, Ready
<1>9. Numbers(s)' BY <1>2, <1>3, <1>4, <1>5 DEF Numbers, Making
<1>10. Undoes(s)' BY <1>3, <1>4 DEF Undoes, Making
<1> QED BY <1>4, <1>6, <1>7, <1>8, <1>9, <1>10, QuietStep

\* A document is to be voided.
LEMMA StartVoidKeeps ==
  ASSUME Inv, NEW s \in Session, StartVoid(s)
  PROVE  Inv'
<1>0. Columns /\ Keep BY DEF Inv, Sited, StartVoid
<1>1. PICK d \in Document :
        /\ Recorded(d) /\ ~db[d].voided
        /\ Begin(s, "void", [Job(db[d].paper) EXCEPT !.doc = d])
  BY DEF StartVoid
<1>2. PICK j : j = [Job(db[d].paper) EXCEPT !.doc = d] OBVIOUS
<1>3. db[d] \in DocumentRow BY <1>0, <1>1 DEF Columns, Recorded
<1>4. j \in JobRow /\ j.doc = d BY <1>2, <1>3 DEF Job, JobRow, DocumentRow
<1>5. "void" \in Label BY DEF Label
<1>6. /\ Others(s) /\ at'[s] = "void" /\ job'[s] = j /\ mine' = mine /\ db' = db
      /\ Watched(s) /\ mine'[s] = Unwritten /\ DOMAIN mine'[s] = {}
      /\ lazy' \in BOOLEAN /\ (lazy => lazy') /\ accountCache' \in Copy \cup {Absent} /\ Cached'
      /\ \A t \in Session \ {s} : DOMAIN mine'[s] \cap DOMAIN mine[t] = {}
  BY <1>0, <1>1, <1>2, <1>5, BeginsEmpty
<1>7. Knows(s)' BY <1>1, <1>4, <1>6 DEF Knows, Recorded
<1>8. Holds(s)' BY <1>6 DEF Holds
<1>9. Makes(s)' /\ Ready(s)' /\ Numbers(s)' BY <1>6 DEF Makes, Making, Ready, Numbers
<1>10. Undoes(s)' BY <1>1, <1>4, <1>6 DEF Undoes, Making
<1> QED BY <1>6, <1>7, <1>8, <1>9, <1>10, QuietStep

\* An entry is to be voided: there is one, so there is its document.
LEMMA StartVoidEntryKeeps ==
  ASSUME Inv, NEW s \in Session, StartVoidEntry(s)
  PROVE  Inv'
<1>0. Columns /\ Keep BY DEF Inv, Sited, StartVoidEntry
<1>1. PICK d \in Document :
        /\ db[EntryOf(d)] # Absent /\ db[EntryOf(d)].status = "confirmed"
        /\ Begin(s, "void entry", [Job(db[d].paper) EXCEPT !.doc = d])
  BY DEF StartVoidEntry
<1>2. PICK j : j = [Job(db[d].paper) EXCEPT !.doc = d] OBVIOUS
<1>3. Placed(d) BY DEF Inv, Sited
<1>4. db[d] # Absent /\ db[d] \in DocumentRow
  BY <1>0, <1>1, <1>3 DEF Placed, Together, Columns
<1>5. j \in JobRow /\ j.doc = d BY <1>2, <1>4 DEF Job, JobRow, DocumentRow
<1>6. "void entry" \in Label BY DEF Label
<1>7. /\ Others(s) /\ at'[s] = "void entry" /\ job'[s] = j /\ mine' = mine /\ db' = db
      /\ Watched(s) /\ mine'[s] = Unwritten /\ DOMAIN mine'[s] = {}
      /\ lazy' \in BOOLEAN /\ (lazy => lazy') /\ accountCache' \in Copy \cup {Absent} /\ Cached'
      /\ \A t \in Session \ {s} : DOMAIN mine'[s] \cap DOMAIN mine[t] = {}
  BY <1>0, <1>1, <1>2, <1>6, BeginsEmpty
<1>8. Knows(s)' BY <1>1, <1>4, <1>5, <1>7 DEF Knows, Recorded
<1>9. Holds(s)' BY <1>7 DEF Holds
<1>10. Makes(s)' /\ Ready(s)' /\ Numbers(s)' BY <1>7 DEF Makes, Making, Ready, Numbers
<1>11. Undoes(s)' BY <1>1, <1>5, <1>7 DEF Undoes, Making
<1> QED BY <1>7, <1>8, <1>9, <1>10, <1>11, QuietStep

\* The vouchers are finitely many, and the last has the highest number.
LEMMA NextIsNew ==
  ASSUME Inv
  PROVE  NextNumber \in Nat /\ NextNumber = Cardinality(Vouchers) + 1
<1>1. IsFiniteSet(Vouchers) BY JournalConstants, FS_Subset DEF Vouchers
<1>2. PICK n : n = Cardinality(Vouchers) OBVIOUS
<1>3. n \in Nat BY <1>1, <1>2, FS_CardinalityType
<1>4. {db[d].number : d \in Vouchers} = 1 .. n
  BY <1>2 DEF Inv, Numbered, VouchersNumbered
<1>5. {0} \cup {db[d].number : d \in Vouchers} = 0 .. n BY <1>3, <1>4
<1>6. Max(0 .. n) = n
  <2>1. n \in 0 .. n /\ \A y \in 0 .. n : n >= y BY <1>3
  <2>2. \A x \in 0 .. n : (\A y \in 0 .. n : x >= y) => x = n BY <1>3
  <2> QED BY <2>1, <2>2 DEF Max
<1>7. NextNumber = 1 + Max({0} \cup {db[d].number : d \in Vouchers}) BY DEF NextNumber
<1> HIDE DEF NextNumber
<1>8. NextNumber = 1 + Max(0 .. n) BY <1>5, <1>7
<1> QED BY <1>2, <1>3, <1>6, <1>8

\* The voucher's number is taken under the lock.
LEMMA TakeNumberKeeps ==
  ASSUME Inv, NEW s \in Session, TakeNumber(s)
  PROVE  Inv'
<1>0. Columns /\ Cached /\ Apart /\ Knows(s) /\ Holds(s) /\ Numbers(s)
  BY DEF Inv, Sited, Numbered
<1>1. at[s] = "number" /\ lazy' = lazy /\ accountCache' = accountCache
  BY DEF TakeNumber, Keep
<1>2. PICK j : j = [job[s] EXCEPT !.number = NextNumber] OBVIOUS
<1>3. PICK new : new = [r \in {Numbering} |-> 0] OBVIOUS
<1>4. Write(s, new, "insert", j) /\ DOMAIN new = {Numbering} BY <1>2, <1>3 DEF TakeNumber
<1>5. "insert" \in Label BY DEF Label
<1>6. /\ Others(s) /\ at'[s] = "insert" /\ job'[s] = j /\ db' = db /\ calm' = calm
      /\ DOMAIN mine'[s] = DOMAIN new \cup DOMAIN mine[s]
      /\ \A t \in Session \ {s} : DOMAIN new \cap DOMAIN mine[t] = {}
  BY <1>0, <1>4, <1>5, WriteMoves
<1>7. DOMAIN mine[s] = {} BY <1>0, <1>1 DEF Holds, Rows, Making
<1>8. DOMAIN mine'[s] = {Numbering} BY <1>4, <1>6, <1>7
<1>9. job[s] \in JobRow BY <1>0, <1>1 DEF Knows
<1>10. j \in JobRow /\ j.paper = job[s].paper /\ j.number = NextNumber /\ j.doc = job[s].doc
  BY <1>2, <1>9, NextIsNew DEF JobRow
<1>11. job[s].paper.kind = "withholding" BY <1>0, <1>1 DEF Numbers
<1>12. Knows(s)' BY <1>6, <1>10, <1>11 DEF Knows
<1>13. Holds(s)'
  <2>1. Chart # Numbering BY RowsApart
  <2>2. Numbering \notin Document BY RowsApart
  <2> QED BY <1>6, <1>8, <2>1, <2>2 DEF Holds, Rows, Making
<1>14. Makes(s)' /\ Ready(s)' /\ Undoes(s)' BY <1>6 DEF Makes, Making, Ready, Undoes
<1>15. Vouchers' = Vouchers BY <1>6 DEF Vouchers, Recorded
<1>16. Numbers(s)' BY <1>6, <1>8, <1>10, <1>15, NextIsNew DEF Numbers, NextUp, Making
<1>17. \A t \in Session \ {s} : DOMAIN mine'[s] \cap DOMAIN mine[t] = {} BY <1>4, <1>6, <1>8
<1>18. Watched(s) BY <1>1, <1>6 DEF Watched
<1>19. Cached' /\ accountCache' \in Copy \cup {Absent} /\ lazy' \in BOOLEAN
  BY <1>0, <1>1, <1>6 DEF Cached, Columns
<1> QED BY <1>1, <1>6, <1>12, <1>13, <1>14, <1>16, <1>17, <1>18, <1>19, QuietStep


\* The request knows more of the accounts, and has written nothing.
LEMMA LookKeeps ==
  ASSUME Inv, NEW s \in Session, at[s] = "resolve", NEW label \in {"provision", "entry"},
         NEW j \in JobRow, j.paper = job[s].paper, j.doc = job[s].doc, j.number = job[s].number,
         label = "entry" => j.account \in Copy /\ (~lazy => j.account = db[Chart]),
         Look(s, label, j), lazy' = lazy, accountCache' \in Copy \cup {Absent}, Cached'
  PROVE  Inv'
<1>0. Columns /\ Apart /\ Knows(s) /\ Holds(s) /\ Makes(s) /\ Numbers(s) /\ (calm => Undoes(s))
  BY DEF Inv, Sited, Numbered, Calmly
<1>1. label \in Label BY DEF Label
<1>2. /\ Others(s) /\ at'[s] = label /\ job'[s] = j /\ mine' = mine /\ db' = db /\ calm' = calm
  BY <1>0, <1>1, LookMoves
<1>3. Making(s) /\ Making(s)' BY <1>2 DEF Making
<1>4. j.doc \in Document BY <1>0 DEF Knows
<1>5. Knows(s)' BY <1>2, <1>4 DEF Knows
<1>6. Holds(s)' BY <1>0, <1>2, <1>3 DEF Holds, Rows, Recorded
<1>7. Makes(s)' BY <1>0, <1>2, <1>3 DEF Makes, Recorded
<1>8. Ready(s)' BY <1>2 DEF Ready
<1>9. Vouchers' = Vouchers BY <1>2 DEF Vouchers, Recorded
<1>10. Numbers(s)' BY <1>0, <1>2, <1>3, <1>9 DEF Numbers, NextUp
<1>11. calm' => Undoes(s)' BY <1>0, <1>2, <1>3 DEF Undoes, Sees
<1>12. \A t \in Session \ {s} : DOMAIN mine'[s] \cap DOMAIN mine[t] = {} BY <1>0, <1>2 DEF Apart
<1>13. Watched(s) BY <1>2 DEF Watched
<1>14. lazy' \in BOOLEAN BY <1>0 DEF Columns
<1> QED BY <1>2, <1>5, <1>6, <1>7, <1>8, <1>10, <1>11, <1>12, <1>13, <1>14, QuietStep

\* The accounts come from the cache or from the chart.
LEMMA ResolveKeeps ==
  ASSUME Inv, NEW s \in Session, Resolve(s)
  PROVE  Inv'
<1>0. Columns /\ Cached /\ Knows(s) /\ Makes(s) BY DEF Inv, Sited
<1>1. at[s] = "resolve" BY DEF Resolve
<1>2. job[s] \in JobRow BY <1>0, <1>1 DEF Knows
<1>3. Sees(s, Chart) = db[Chart] BY <1>0, <1>1 DEF Makes, Making, Sees
<1>4. CASE accountCache # Absent
  <2>1. PICK j : j = [job[s] EXCEPT !.account = accountCache] OBVIOUS
  <2>2. Look(s, "entry", j) /\ lazy' = lazy /\ accountCache' = accountCache
    BY <1>4, <2>1 DEF Resolve, Keep
  <2>3. /\ j \in JobRow /\ j.paper = job[s].paper /\ j.doc = job[s].doc
        /\ j.number = job[s].number /\ j.account = accountCache
    BY <1>0, <1>2, <2>1 DEF JobRow, Columns
  <2>4. accountCache \in Copy /\ (~lazy => accountCache = db[Chart])
    BY <1>0, <1>4 DEF Columns, Cached
  <2>5. Cached' BY <1>0, <2>2 DEF Cached, Look
  <2> QED BY <1>1, <2>2, <2>3, <2>4, <2>5, LookKeeps
<1>5. CASE accountCache = Absent /\ Sees(s, Chart) # Absent
  <2>1. PICK j : j = [job[s] EXCEPT !.account = Sees(s, Chart)] OBVIOUS
  <2>2. Look(s, "entry", j) /\ lazy' = lazy /\ accountCache' = db[Chart]
    BY <1>3, <1>5, <2>1 DEF Resolve
  <2>3. db[Chart] \in Copy BY <1>0, <1>3, <1>5 DEF Columns
  <2>4. /\ j \in JobRow /\ j.paper = job[s].paper /\ j.doc = job[s].doc
        /\ j.number = job[s].number /\ j.account = db[Chart]
    BY <1>2, <1>3, <2>1, <2>3 DEF JobRow
  <2>5. Cached' BY <2>2 DEF Cached, Look
  <2> QED BY <1>1, <2>2, <2>3, <2>4, <2>5, LookKeeps
<1>6. CASE accountCache = Absent /\ Sees(s, Chart) = Absent
  <2>1. Look(s, "provision", job[s]) /\ lazy' = lazy /\ accountCache' = accountCache
    BY <1>6 DEF Resolve, Keep
  <2>2. Cached' BY <1>0, <2>1 DEF Cached, Look
  <2>3. accountCache' \in Copy \cup {Absent} BY <1>0, <2>1 DEF Columns
  <2> QED BY <1>1, <1>2, <2>1, <2>2, <2>3, LookKeeps
<1> QED BY <1>4, <1>5, <1>6

\* The chart is made, and remembered before it is committed.
LEMMA ProvisionKeeps ==
  ASSUME Inv, NEW s \in Session, Provision(s)
  PROVE  Inv'
<1>0. /\ Columns /\ Apart /\ Knows(s) /\ Holds(s) /\ Makes(s) /\ Numbers(s)
      /\ (calm => Undoes(s))
  BY DEF Inv, Sited, Numbered, Calmly
<1>1. at[s] = "provision" /\ lazy' = TRUE BY DEF Provision
<1>2. CASE db[Chart] # Absent
  <2>1. EntryFails(s) /\ accountCache' = accountCache BY <1>2 DEF Provision
  <2> QED BY <1>1, <2>1, EntryFailsKeeps
<1>3. CASE db[Chart] = Absent
  <2>1. PICK c \in Copy :
          /\ Write(s, [r \in {Chart} |-> c], "entry", [job[s] EXCEPT !.account = c])
          /\ accountCache' = c
    BY <1>3 DEF Provision
  <2>2. PICK j : j = [job[s] EXCEPT !.account = c] OBVIOUS
  <2>3. PICK new : new = [r \in {Chart} |-> c] OBVIOUS
  <2>4. DOMAIN new = {Chart} /\ new[Chart] = c BY <2>3
  <2>5. Write(s, new, "entry", j) BY <2>1, <2>2, <2>3
  <2>6. "entry" \in Label BY DEF Label
  <2>7. /\ Others(s) /\ at'[s] = "entry" /\ job'[s] = j /\ db' = db /\ calm' = calm
        /\ DOMAIN mine'[s] = DOMAIN new \cup DOMAIN mine[s]
        /\ \A x \in DOMAIN mine'[s] :
             mine'[s][x] = IF x \in DOMAIN new THEN new[x] ELSE mine[s][x]
        /\ \A t \in Session \ {s} : DOMAIN new \cap DOMAIN mine[t] = {}
    BY <1>0, <2>5, <2>6, WriteMoves
  <2>8. job[s] \in JobRow /\ job[s].doc \in Document BY <1>0, <1>1 DEF Knows
  <2>9. /\ j \in JobRow /\ j.paper = job[s].paper /\ j.doc = job[s].doc
        /\ j.number = job[s].number /\ j.account = c
    BY <2>2, <2>8 DEF JobRow
  <2>10. Making(s) /\ Making(s)' BY <1>1, <2>7 DEF Making
  <2>11. PICK d : d = job[s].doc OBVIOUS
  <2>12. d \in Document /\ d # Chart /\ d # Numbering /\ job'[s].doc = d
    BY <2>7, <2>8, <2>9, <2>11, RowsApart
  <2>13. /\ DOMAIN mine'[s] = {Chart} \cup DOMAIN mine[s] /\ mine'[s][Chart] = c
         /\ d \in DOMAIN mine'[s] <=> d \in DOMAIN mine[s]
         /\ d \in DOMAIN mine[s] => mine'[s][d] = mine[s][d]
    BY <2>4, <2>7, <2>12
  <2>14. Knows(s)' BY <1>1, <2>7, <2>8, <2>9 DEF Knows
  <2>15. Holds(s)'
    <3>1. DOMAIN mine[s] \subseteq {Numbering, Chart, d}
      BY <1>0, <1>1, <2>10, <2>11 DEF Holds, Rows
    <3>2. DOMAIN mine'[s] \subseteq Rows(s)'
      BY <2>7, <2>10, <2>12, <2>13, <3>1 DEF Rows, Making
    <3>3. d \in DOMAIN mine[s] =>
            /\ mine[s][d] \in DocumentRow
            /\ Recorded(d) => /\ mine[s][d].paper = db[d].paper
                              /\ mine[s][d].number = db[d].number /\ mine[s][d].voided
            /\ ~Recorded(d) => ~mine[s][d].voided
      BY <1>0, <1>1, <2>11, <2>12 DEF Holds
    <3> QED BY <1>1, <1>3, <2>7, <2>12, <2>13, <3>2, <3>3 DEF Holds, Recorded
  <2>16. Makes(s)' BY <1>0, <2>7, <2>9, <2>10, <2>11, <2>12, <2>13 DEF Makes, Recorded
  <2>17. Ready(s)' BY <2>7 DEF Ready
  <2>18. Vouchers' = Vouchers BY <2>7 DEF Vouchers, Recorded
  <2>19. Numbers(s)' BY <1>0, <2>7, <2>9, <2>10, <2>13, <2>18 DEF Numbers, NextUp
  <2>20. calm' => Undoes(s)' BY <1>0, <2>7, <2>10, <2>11, <2>12, <2>13 DEF Undoes, Sees
  <2>21. \A t \in Session \ {s} : DOMAIN mine'[s] \cap DOMAIN mine[t] = {}
    BY <1>0, <2>4, <2>7, <2>13 DEF Apart
  <2>22. Watched(s) BY <1>1, <2>7 DEF Watched
  <2>23. accountCache' \in Copy \cup {Absent} /\ Cached' BY <1>1, <2>1 DEF Cached
  <2> QED BY <1>1, <2>7, <2>14, <2>15, <2>16, <2>17, <2>19, <2>20, <2>21, <2>22, <2>23, QuietStep
<1> QED BY <1>2, <1>3

\* The entry is made, of accounts this transaction sees, or fails.
LEMMA InsertEntryKeeps ==
  ASSUME Inv, NEW s \in Session, InsertEntry(s)
  PROVE  Inv'
<1>0. /\ Columns /\ Apart /\ Cached /\ Knows(s) /\ Holds(s) /\ Numbers(s)
  BY DEF Inv, Sited, Numbered, Calmly
<1>1. at[s] = "entry" /\ lazy' = lazy /\ accountCache' = accountCache
  BY DEF InsertEntry, Keep
<1>2. lazy' \in BOOLEAN /\ accountCache' \in Copy \cup {Absent} BY <1>0, <1>1 DEF Columns
<1>3. CASE ~(Accepted(job[s].paper) /\ job[s].account = Sees(s, Chart))
  <2>1. EntryFails(s) BY <1>3 DEF InsertEntry
  <2>2. ~lazy => Sees(s, Chart) = db[Chart] BY <1>0 DEF Holds, Sees
  <2>3. ~lazy => job[s].account = db[Chart] BY <1>0, <1>1 DEF Knows
  <2>4. lazy' \/ ~Accepted(job[s].paper) BY <1>1, <1>3, <2>2, <2>3
  <2> QED BY <1>1, <1>2, <2>1, <2>4, EntryFailsKeeps
<1>4. CASE Accepted(job[s].paper) /\ job[s].account = Sees(s, Chart)
  <2>d. PICK d : d = job[s].doc OBVIOUS
  <2>e. PICK row : row = [account |-> job[s].account, status |-> "confirmed"] OBVIOUS
  <2>0. Making(s) BY <1>1 DEF Making
  <2>1. /\ d \in Document /\ job[s] \in JobRow /\ job[s].paper \in Paper
        /\ DOMAIN mine[s] \subseteq {Numbering, Chart, d}
        /\ EntryOf(d) \notin DOMAIN mine[s] /\ Reversed(d, s) \notin DOMAIN mine[s]
        /\ Chart \in DOMAIN mine[s] => mine[s][Chart] \in Copy /\ db[Chart] = Absent /\ lazy
        /\ Sees(s, d) \in DocumentRow /\ Sees(s, d).paper = job[s].paper
        /\ d \in DOMAIN mine[s] => /\ ~Recorded(d) /\ ~mine[s][d].voided
                                   /\ mine[s][d].number = job[s].number
        /\ calm => db[EntryOf(d)] = Absent /\ Reversals(d) = 0 /\ ~Sees(s, d).voided
    BY <2>0, <2>d, WhileMaking
  <2>2. PICK new : new = [r \in {EntryOf(d)} |-> row] OBVIOUS
  <2>3. DOMAIN new = {EntryOf(d)} /\ new[EntryOf(d)] = row BY <2>2
  <2>4. Write(s, new, "commit", job[s]) BY <1>4, <2>2, <2>d, <2>e DEF InsertEntry
  <2>5. "commit" \in Label BY DEF Label
  <2>6. /\ Others(s) /\ at'[s] = "commit" /\ job'[s] = job[s] /\ db' = db /\ calm' = calm
        /\ DOMAIN mine'[s] = DOMAIN new \cup DOMAIN mine[s]
        /\ \A x \in DOMAIN mine'[s] :
             mine'[s][x] = IF x \in DOMAIN new THEN new[x] ELSE mine[s][x]
        /\ \A t \in Session \ {s} : DOMAIN new \cap DOMAIN mine[t] = {}
    BY <1>0, <2>4, <2>5, WriteMoves
  <2>7. /\ d # EntryOf(d) /\ Chart # EntryOf(d) /\ Reversed(d, s) # EntryOf(d)
        /\ d # Chart /\ d # Numbering
    BY <2>1, RowsApart
  <2>8. /\ DOMAIN mine'[s] = {EntryOf(d)} \cup DOMAIN mine[s]
        /\ mine'[s][EntryOf(d)] = row
        /\ d \in DOMAIN mine'[s] <=> d \in DOMAIN mine[s]
        /\ d \in DOMAIN mine[s] => mine'[s][d] = mine[s][d]
        /\ Chart \in DOMAIN mine'[s] <=> Chart \in DOMAIN mine[s]
        /\ Chart \in DOMAIN mine[s] => mine'[s][Chart] = mine[s][Chart]
        /\ Reversed(d, s) \notin DOMAIN mine'[s]
    BY <2>1, <2>3, <2>6, <2>7
  <2>9. job'[s].doc = d BY <2>6, <2>d
  <2>10. job[s].account \in Copy BY <1>0, <1>1 DEF Knows
  <2>11. row \in EntryRow /\ row.account = job[s].account /\ row.status = "confirmed"
    BY <2>e, <2>10 DEF EntryRow
  <2>12. row # Absent /\ Sees(s, d) # Absent BY <2>1, <2>11, JournalConstants
  <2>13. /\ Sees(s, d)' = Sees(s, d) /\ Sees(s, EntryOf(d))' = row
         /\ Sees(s, Chart)' = Sees(s, Chart)
    BY <2>6, <2>8 DEF Sees
  <2>14. Knows(s)'
    <3>1. Recorded(d) \/ d \in DOMAIN mine[s] BY <2>12 DEF Sees, Recorded
    <3> QED BY <2>1, <2>6, <2>8, <2>9, <3>1 DEF Knows, Recorded
  <2>15. Holds(s)'
    <3>1. DOMAIN mine'[s] \subseteq Rows(s)' BY <2>1, <2>6, <2>8, <2>9 DEF Rows, Making
    <3>2. d \in DOMAIN mine[s] => mine[s][d] \in DocumentRow BY <2>1 DEF Sees
    <3> QED BY <1>1, <2>1, <2>6, <2>8, <2>9, <2>11, <3>1, <3>2 DEF Holds, Recorded
  <2>16. Makes(s)' BY <2>6 DEF Makes, Making
  <2>17. Ready(s)' BY <1>4, <2>9, <2>11, <2>12, <2>13 DEF Ready, Together
  <2>18. Vouchers' = Vouchers BY <2>6 DEF Vouchers, Recorded
  <2>19. Numbers(s)'
    <3>1. d \in DOMAIN mine[s] => mine[s][d].paper = job[s].paper BY <2>1 DEF Sees
    <3>2. job[s].paper.kind = "withholding" => NextUp(s, job[s].number) BY <1>0, <2>0 DEF Numbers
    <3> QED BY <2>1, <2>6, <2>8, <2>9, <2>18, <3>1, <3>2 DEF Numbers, NextUp, Making
  <2>20. calm' => Undoes(s)'
    <3>1. Reversals(d)' = Reversals(d) BY <2>6 DEF Reversals
    <3>2. More(s, d)' = 0 BY <2>8 DEF More
    <3>3. calm' => Undone(Sees(s, d)', Sees(s, EntryOf(d))', Reversals(d)' + More(s, d)')
      BY <2>1, <2>6, <2>11, <2>12, <2>13, <3>1, <3>2 DEF Undone
    <3> QED BY <2>6, <2>9, <3>3 DEF Undoes, Making
  <2>21. \A t \in Session \ {s} : DOMAIN mine'[s] \cap DOMAIN mine[t] = {}
    BY <1>0, <2>3, <2>6, <2>8 DEF Apart
  <2>22. Watched(s) BY <1>1, <2>6 DEF Watched
  <2>23. Cached' BY <1>0, <1>1, <2>6 DEF Cached
  <2> QED BY <1>1, <1>2, <2>6, <2>14, <2>15, <2>16, <2>17, <2>19, <2>20, <2>21, <2>22, <2>23, QuietStep
<1> QED BY <1>3, <1>4


\* The document is marked as voided.
LEMMA MarkVoidedKeeps ==
  ASSUME Inv, NEW s \in Session, MarkVoided(s)
  PROVE  Inv'
<1>0. /\ Columns /\ Apart /\ Cached /\ Knows(s) /\ Holds(s) /\ (calm => Undoes(s))
  BY DEF Inv, Sited, Calmly
<1>1. at[s] = "void" /\ lazy' = lazy /\ accountCache' = accountCache
  BY DEF MarkVoided, Keep
<1>2. PICK d : d = job[s].doc OBVIOUS
<1>3. /\ d \in Document /\ Recorded(d) /\ job[s] \in JobRow /\ DOMAIN mine[s] = {}
  BY <1>0, <1>1, <1>2 DEF Knows, Holds, Rows, Making
<1>4. db[d] \in DocumentRow /\ Sees(s, d) = db[d] BY <1>0, <1>3 DEF Columns, Recorded, Sees
<1>5. PICK row : row = [db[d] EXCEPT !.voided = TRUE] OBVIOUS
<1>6. row \in DocumentRow /\ row.paper = db[d].paper /\ row.number = db[d].number /\ row.voided
  BY <1>4, <1>5 DEF DocumentRow
<1>7. PICK new : new = [r \in {d} |-> [Sees(s, d) EXCEPT !.voided = TRUE]] OBVIOUS
<1>8. DOMAIN new = {d} /\ new[d] = row BY <1>4, <1>5, <1>7
<1>9. Write(s, new, "reverse", job[s]) BY <1>2, <1>7 DEF MarkVoided
<1>10. "reverse" \in Label BY DEF Label
<1>11. /\ Others(s) /\ at'[s] = "reverse" /\ job'[s] = job[s] /\ db' = db /\ calm' = calm
       /\ DOMAIN mine'[s] = DOMAIN new \cup DOMAIN mine[s]
       /\ \A x \in DOMAIN mine'[s] :
            mine'[s][x] = IF x \in DOMAIN new THEN new[x] ELSE mine[s][x]
       /\ \A t \in Session \ {s} : DOMAIN new \cap DOMAIN mine[t] = {}
  BY <1>0, <1>9, <1>10, WriteMoves
<1>12. DOMAIN mine'[s] = {d} /\ mine'[s][d] = row BY <1>3, <1>8, <1>11
<1>13. job'[s].doc = d BY <1>2, <1>11
<1>14. Knows(s)' BY <1>3, <1>11, <1>13 DEF Knows, Recorded
<1>15. Holds(s)'
  <2>1. d # Chart BY <1>3, RowsApart
  <2> QED BY <1>3, <1>6, <1>11, <1>12, <1>13, <2>1 DEF Holds, Rows, Making, Recorded
<1>16. Makes(s)' /\ Ready(s)' /\ Numbers(s)' BY <1>11 DEF Makes, Making, Ready, Numbers
<1>17. calm' => Undoes(s)'
  BY <1>0, <1>1, <1>2, <1>11, <1>12, <1>13 DEF Undoes, Making
<1>18. \A t \in Session \ {s} : DOMAIN mine'[s] \cap DOMAIN mine[t] = {}
  BY <1>8, <1>11, <1>12
<1>19. Watched(s) BY <1>1, <1>11 DEF Watched
<1>20. Cached' /\ accountCache' \in Copy \cup {Absent} /\ lazy' \in BOOLEAN
  BY <1>0, <1>1, <1>11 DEF Cached, Columns
<1> QED BY <1>1, <1>11, <1>14, <1>15, <1>16, <1>17, <1>18, <1>19, <1>20, QuietStep

\* The entry of the voided document is reversed, if it has one.
LEMMA ReverseEntryKeeps ==
  ASSUME Inv, NEW s \in Session, ReverseEntry(s)
  PROVE  Inv'
<1>0. /\ Columns /\ Apart /\ Cached /\ Knows(s) /\ Holds(s) /\ (calm => Undoes(s))
  BY DEF Inv, Sited, Calmly
<1>1. at[s] = "reverse" /\ lazy' = lazy /\ accountCache' = accountCache
  BY DEF ReverseEntry, Keep
<1>2. PICK d : d = job[s].doc OBVIOUS
<1>3. PICK e : e = EntryOf(d) OBVIOUS
<1>4. PICK v : v = Reversed(d, s) OBVIOUS
<1>5. /\ d \in Document /\ Recorded(d) /\ job[s] \in JobRow /\ DOMAIN mine[s] \subseteq {d}
  BY <1>0, <1>1, <1>2 DEF Knows, Holds, Rows, Making
<1>6. d # Chart /\ d # e /\ d # v /\ e # Chart /\ v # Chart /\ e # v
  BY <1>3, <1>4, <1>5, RowsApart
<1>7. db[d] \in DocumentRow BY <1>0, <1>5 DEF Columns, Recorded
<1>8. d \in DOMAIN mine[s] => /\ mine[s][d] \in DocumentRow /\ mine[s][d].voided
                              /\ mine[s][d].paper = db[d].paper
                              /\ mine[s][d].number = db[d].number
  BY <1>0, <1>1, <1>2, <1>5 DEF Holds
<1>9. Sees(s, d) \in DocumentRow /\ Sees(s, d).paper = db[d].paper BY <1>7, <1>8 DEF Sees
<1>10. Sees(s, e) = db[e] /\ Sees(s, v) = db[v] BY <1>5, <1>6 DEF Sees
<1>11. Placed(d) BY <1>5 DEF Inv, Sited
<1>12. Together(Sees(s, d), db[e], db[Chart])
  BY <1>3, <1>5, <1>9, <1>11, JournalConstants DEF Placed, Together, Recorded
<1>13. calm => /\ ~db[d].voided /\ Sees(s, d).voided
               /\ Undone(db[d], db[e], Reversals(d))
  BY <1>0, <1>1, <1>2, <1>3, <1>5, <1>8 DEF Undoes, Inv, Calmly, Sees
<1>14. "commit" \in Label BY DEF Label
<1> DEFINE n == IF db[e] = Absent THEN 0 ELSE 1
<1>15. /\ Others(s) /\ at'[s] = "commit" /\ job'[s] = job[s] /\ db' = db /\ calm' = calm
       /\ DOMAIN mine'[s] = DOMAIN mine[s] \cup (IF n = 1 THEN {v} ELSE {})
       /\ d \in DOMAIN mine[s] => mine'[s][d] = mine[s][d]
       /\ v \in DOMAIN mine'[s] => mine'[s][v] = db[v] + 1
       /\ \A t \in Session \ {s} : DOMAIN mine'[s] \cap DOMAIN mine[t] = {}
  <2>1. CASE db[e] = Absent
    <3>1. Look(s, "commit", job[s]) BY <1>2, <1>3, <1>10, <2>1 DEF ReverseEntry
    <3>2. /\ Others(s) /\ at'[s] = "commit" /\ job'[s] = job[s] /\ mine' = mine
          /\ db' = db /\ calm' = calm
      BY <1>0, <1>14, <3>1, LookMoves
    <3> QED BY <1>0, <1>5, <1>6, <2>1, <3>2 DEF Apart
  <2>2. CASE db[e] # Absent
    <3>1. PICK new : new = [r \in {v} |-> Sees(s, r) + 1] OBVIOUS
    <3>2. DOMAIN new = {v} /\ new[v] = db[v] + 1 BY <1>10, <3>1
    <3>3. Write(s, new, "commit", job[s])
      BY <1>2, <1>3, <1>4, <1>10, <2>2, <3>1 DEF ReverseEntry
    <3>4. /\ Others(s) /\ at'[s] = "commit" /\ job'[s] = job[s] /\ db' = db /\ calm' = calm
          /\ DOMAIN mine'[s] = DOMAIN new \cup DOMAIN mine[s]
          /\ \A x \in DOMAIN mine'[s] :
               mine'[s][x] = IF x \in DOMAIN new THEN new[x] ELSE mine[s][x]
          /\ \A t \in Session \ {s} : DOMAIN new \cap DOMAIN mine[t] = {}
      BY <1>0, <1>14, <3>3, WriteMoves
    <3>5. \A t \in Session \ {s} : DOMAIN mine[s] \cap DOMAIN mine[t] = {} BY <1>0 DEF Apart
    <3>6. \A t \in Session \ {s} : DOMAIN mine'[s] \cap DOMAIN mine[t] = {}
      BY <3>2, <3>4, <3>5
    <3> QED BY <1>6, <2>2, <3>2, <3>4, <3>6
  <2> QED BY <2>1, <2>2
<1>16. job'[s].doc = d BY <1>2, <1>15
<1>17. Knows(s)' BY <1>5, <1>15, <1>16 DEF Knows, Recorded
<1>18. /\ Sees(s, d)' = Sees(s, d) /\ Sees(s, e)' = db[e] /\ Sees(s, Chart)' = db[Chart]
  BY <1>5, <1>6, <1>15 DEF Sees
<1>19. Holds(s)'
  <2>1. DOMAIN mine'[s] \subseteq Rows(s)' BY <1>4, <1>5, <1>15, <1>16 DEF Rows, Making
  <2>2. Chart \notin DOMAIN mine'[s] /\ e \notin DOMAIN mine'[s] BY <1>5, <1>6, <1>15
  <2>3. d \in DOMAIN mine'[s] => d \in DOMAIN mine[s] BY <1>6, <1>15
  <2> QED BY <1>3, <1>4, <1>5, <1>8, <1>15, <1>16, <2>1, <2>2, <2>3 DEF Holds, Recorded
<1>20. Makes(s)' BY <1>15 DEF Makes, Making
<1>21. Ready(s)'
  <2>1. Together(Sees(s, d), db[e], db[Chart])' BY <1>1, <1>12, <1>15, <1>18 DEF Together
  <2> QED BY <1>3, <1>16, <1>18, <2>1, <1>12, <1>1 DEF Ready, Together
<1>22. Numbers(s)' BY <1>5, <1>15, <1>16 DEF Numbers, Making, Recorded
<1>23. calm' => Undoes(s)'
  <2>1. Reversals(d)' = Reversals(d) BY <1>15 DEF Reversals
  <2>2. More(s, d)' = n
    <3>1. v \in DOMAIN mine'[s] <=> n = 1 BY <1>5, <1>6, <1>15
    <3> QED BY <1>4, <3>1 DEF More
  <2>3. calm' => Undone(Sees(s, d)', Sees(s, e)', Reversals(d)' + More(s, d)')
    BY <1>13, <1>15, <1>18, <2>1, <2>2 DEF Undone
  <2> QED BY <1>3, <1>15, <1>16, <2>3 DEF Undoes, Making
<1>24. Watched(s) BY <1>1, <1>15 DEF Watched
<1>25. Cached' /\ accountCache' \in Copy \cup {Absent} /\ lazy' \in BOOLEAN
  BY <1>0, <1>1, <1>15 DEF Cached, Columns
<1> QED BY <1>1, <1>15, <1>17, <1>19, <1>20, <1>21, <1>22, <1>23, <1>24, <1>25, QuietStep

\* An entry is voided and reversed.
LEMMA VoidEntryKeeps ==
  ASSUME Inv, NEW s \in Session, VoidEntry(s)
  PROVE  Inv'
<1>0. /\ Columns /\ Apart /\ Cached /\ Knows(s) /\ Holds(s) /\ (calm => Undoes(s))
  BY DEF Inv, Sited, Calmly
<1>1. at[s] = "void entry" /\ lazy' = lazy /\ accountCache' = accountCache
  BY DEF VoidEntry, Keep
<1>2. PICK d : d = job[s].doc OBVIOUS
<1>3. PICK e : e = EntryOf(d) OBVIOUS
<1>4. PICK v : v = Reversed(d, s) OBVIOUS
<1>5. /\ d \in Document /\ Recorded(d) /\ job[s] \in JobRow /\ DOMAIN mine[s] = {}
      /\ db[e] # Absent
  BY <1>0, <1>1, <1>2, <1>3 DEF Knows, Holds, Rows, Making
<1>6. d # Chart /\ d # e /\ d # v /\ e # Chart /\ v # Chart /\ e # v
  BY <1>3, <1>4, <1>5, RowsApart
<1>7. db[d] \in DocumentRow /\ db[e] \in EntryRow
  BY <1>0, <1>3, <1>5 DEF Columns, Recorded
<1>8. PICK row : row = [db[e] EXCEPT !.status = "voided"] OBVIOUS
<1>9. row \in EntryRow /\ row.account = db[e].account /\ row.status = "voided" /\ row # Absent
  BY <1>7, <1>8, JournalConstants DEF EntryRow
<1>10. \A r : Sees(s, r) = db[r] BY <1>5 DEF Sees
<1>11. PICK new : new = [r \in {e, v} |-> IF r = e THEN [Sees(s, r) EXCEPT !.status = "voided"]
                                          ELSE Sees(s, r) + 1] OBVIOUS
<1>12. DOMAIN new = {e, v} /\ new[e] = row /\ new[v] = db[v] + 1
  BY <1>6, <1>8, <1>10, <1>11
<1>13. Write(s, new, "commit", job[s]) BY <1>2, <1>3, <1>4, <1>11 DEF VoidEntry
<1>14. "commit" \in Label BY DEF Label
<1>15. /\ Others(s) /\ at'[s] = "commit" /\ job'[s] = job[s] /\ db' = db /\ calm' = calm
       /\ DOMAIN mine'[s] = DOMAIN new \cup DOMAIN mine[s]
       /\ \A x \in DOMAIN mine'[s] :
            mine'[s][x] = IF x \in DOMAIN new THEN new[x] ELSE mine[s][x]
       /\ \A t \in Session \ {s} : DOMAIN new \cap DOMAIN mine[t] = {}
  BY <1>0, <1>13, <1>14, WriteMoves
<1>16. DOMAIN mine'[s] = {e, v} /\ mine'[s][e] = row /\ mine'[s][v] = db[v] + 1
  BY <1>5, <1>6, <1>12, <1>15
<1>17. job'[s].doc = d BY <1>2, <1>15
<1>18. Sees(s, d)' = db[d] /\ Sees(s, e)' = row /\ Sees(s, Chart)' = db[Chart]
  BY <1>6, <1>15, <1>16 DEF Sees
<1>19. Knows(s)' BY <1>5, <1>15, <1>17 DEF Knows, Recorded
<1>20. Holds(s)'
  <2>1. DOMAIN mine'[s] \subseteq Rows(s)' BY <1>3, <1>4, <1>15, <1>16, <1>17 DEF Rows, Making
  <2> QED BY <1>3, <1>4, <1>6, <1>9, <1>15, <1>16, <1>17, <2>1 DEF Holds
<1>21. Makes(s)' BY <1>15 DEF Makes, Making
<1>22. Ready(s)'
  <2>1. Placed(d) BY <1>5 DEF Inv, Sited
  <2>2. db[d] # Absent /\ row.account = db[Chart]
    BY <1>3, <1>5, <1>9, <2>1 DEF Placed, Together
  <2> QED BY <1>3, <1>9, <1>17, <1>18, <2>2 DEF Ready, Together
<1>23. Numbers(s)' BY <1>5, <1>15, <1>17 DEF Numbers, Making, Recorded
<1>24. calm' => Undoes(s)'
  <2>1. Reversals(d)' = Reversals(d) BY <1>15 DEF Reversals
  <2>2. More(s, d)' = 1 BY <1>4, <1>16 DEF More
  <2>3. calm => Undone(db[d], db[e], Reversals(d)) /\ db[e].status = "confirmed"
    BY <1>0, <1>1, <1>2, <1>3, <1>5 DEF Undoes, Inv, Calmly
  <2>4. calm' => Undone(Sees(s, d)', Sees(s, e)', Reversals(d)' + More(s, d)')
    BY <1>5, <1>9, <1>15, <1>18, <2>1, <2>2, <2>3 DEF Undone
  <2> QED BY <1>3, <1>15, <1>17, <2>4 DEF Undoes, Making
<1>25. \A t \in Session \ {s} : DOMAIN mine'[s] \cap DOMAIN mine[t] = {}
  BY <1>12, <1>15, <1>16
<1>26. Watched(s) BY <1>1, <1>15 DEF Watched
<1>27. Cached' /\ accountCache' \in Copy \cup {Absent} /\ lazy' \in BOOLEAN
  BY <1>0, <1>1, <1>15 DEF Cached, Columns
<1> QED BY <1>1, <1>15, <1>19, <1>20, <1>21, <1>22, <1>23, <1>24, <1>25, <1>26, <1>27, QuietStep

\* An error at any statement leaves what was there.
LEMMA FailRequestKeeps ==
  ASSUME Inv, NEW s \in Session, FailRequest(s)
  PROVE  Inv'
<1>1. at[s] # "idle" /\ Rollback(s) BY DEF FailRequest, Fail
<1>2. accountCache' = accountCache /\ lazy' = lazy BY DEF FailRequest, Keep
<1>3. lazy \in BOOLEAN BY DEF Inv, Sited, Columns
<1> QED BY <1>1, <1>2, <1>3, RollbackKeeps


-----------------------------------------------------------------------------
(* Steps that publish.                                                      *)

\* What is recorded stays, with its paper and number; an entry and a chart stay.
Grows ==
  /\ DOMAIN db' = Row /\ db'[Chart] \in Copy \cup {Absent}
  /\ \A d \in Document : /\ db'[d] \in DocumentRow \cup {Absent}
                         /\ db'[EntryOf(d)] \in EntryRow \cup {Absent}
  /\ \A d \in Document, s \in Session : db'[Reversed(d, s)] \in Nat
  /\ \A d \in Document :
       /\ Recorded(d) => /\ db'[d] # Absent
                         /\ db'[d].paper = db[d].paper /\ db'[d].number = db[d].number
       /\ db[EntryOf(d)] # Absent => /\ db'[EntryOf(d)] # Absent
                                     /\ db'[EntryOf(d)].account = db[EntryOf(d)].account
  /\ db[Chart] # Absent => db'[Chart] = db[Chart]

\* Nobody publishes what another has written, or numbers while it holds the lock.
Spares(t) ==
  /\ \A r \in DOMAIN mine[t] : db'[r] = db[r]
  /\ Vouchers' = Vouchers \/ Numbering \notin DOMAIN mine[t]

\* Another's request stays as it was.
LEMMA OtherKeeps ==
  ASSUME Inv, NEW t \in Session, mine'[t] = mine[t], at'[t] = at[t], job'[t] = job[t],
         Grows, Spares(t), lazy' = lazy, \A d \in Document : Placed(d)'
  PROVE  (Knows(t) /\ Holds(t) /\ Makes(t) /\ Ready(t))' /\ Numbers(t)'
<1>0. Columns /\ Knows(t) /\ Holds(t) /\ Makes(t) /\ Ready(t) /\ Numbers(t)
  BY DEF Inv, Sited, Numbered
<1>d. PICK d : d = job[t].doc OBVIOUS
<1>1. /\ DOMAIN db' = Row /\ db'[Chart] \in Copy \cup {Absent}
      /\ db[Chart] # Absent => db'[Chart] = db[Chart]
      /\ \A r \in DOMAIN mine[t] : db'[r] = db[r]
  BY DEF Grows, Spares
<1>2. d \in Document =>
        /\ db'[d] \in DocumentRow \cup {Absent} /\ db'[EntryOf(d)] \in EntryRow \cup {Absent}
        /\ db[d] # Absent => /\ db'[d] # Absent
                             /\ db'[d].paper = db[d].paper /\ db'[d].number = db[d].number
        /\ db[EntryOf(d)] # Absent => /\ db'[EntryOf(d)] # Absent
                                      /\ db'[EntryOf(d)].account = db[EntryOf(d)].account
  BY DEF Grows, Recorded
<1>3. Absent \notin Copy BY JournalConstants
<1>4. at[t] \notin {"idle", "number", "insert"} => d \in Document
  BY <1>0, <1>d DEF Knows
<1>5. Knows(t)' BY <1>0, <1>1, <1>2, <1>3, <1>4, <1>d DEF Knows, Recorded
<1>6. Holds(t)'
  <2>1. DOMAIN mine'[t] \subseteq Rows(t)' BY <1>0 DEF Holds, Rows, Making
  <2>2. Chart \in DOMAIN mine[t] => mine[t][Chart] \in Copy /\ db'[Chart] = Absent /\ lazy'
    BY <1>0, <1>1 DEF Holds
  <2>3. at[t] # "idle" /\ d \in Document \cap DOMAIN mine[t] =>
          /\ mine[t][d] \in DocumentRow /\ db'[d] = db[d]
          /\ db[d] # Absent => /\ mine[t][d].paper = db[d].paper
                               /\ mine[t][d].number = db[d].number /\ mine[t][d].voided
          /\ db[d] = Absent => ~mine[t][d].voided
    BY <1>0, <1>1, <1>d DEF Holds, Recorded
  <2>4. at[t] = "commit" /\ EntryOf(d) \in DOMAIN mine[t] => mine[t][EntryOf(d)] \in EntryRow
    BY <1>0, <1>d DEF Holds
  <2>5. at[t] = "commit" /\ Reversed(d, t) \in DOMAIN mine[t] =>
          mine[t][Reversed(d, t)] = db'[Reversed(d, t)] + 1
    BY <1>0, <1>1, <1>d DEF Holds
  <2> QED BY <1>d, <2>1, <2>2, <2>3, <2>4, <2>5 DEF Holds, Recorded
<1>7. Makes(t)'
  <2>1. CASE Making(t)
    <3>1. d \in Document BY <1>4, <2>1 DEF Making
    <3> QED BY <1>0, <1>1, <1>2, <1>d, <2>1, <3>1 DEF Makes, Making, Recorded
  <2> QED BY <2>1 DEF Makes, Making
<1>8. Ready(t)'
  <2> SUFFICES ASSUME at[t] = "commit" PROVE Ready(t)' BY DEF Ready
  <2>e. PICK e : e = EntryOf(d) OBVIOUS
  <2>1. d \in Document BY <1>4
  <2>2. Recorded(d) \/ d \in DOMAIN mine[t] BY <1>0, <1>d DEF Knows
  <2>3. d \in DOMAIN mine[t] => mine[t][d] \in DocumentRow BY <1>0, <1>d, <2>1 DEF Holds
  <2>4. Absent \notin DocumentRow /\ Absent \notin EntryRow BY JournalConstants
  <2>5. Sees(t, d) # Absent /\ Sees(t, d)' # Absent /\ Sees(t, d)'.paper = Sees(t, d).paper
    BY <1>2, <2>1, <2>2, <2>3, <2>4 DEF Sees, Recorded
  <2>6. e \in DOMAIN mine[t] => mine[t][e] \in EntryRow BY <1>0, <1>d, <2>e DEF Holds
  <2>7. Chart \in DOMAIN mine[t] => db[Chart] = Absent /\ db'[Chart] = Absent
    BY <1>0, <1>1 DEF Holds
  <2>8. Sees(t, Chart) # Absent => Sees(t, Chart)' = Sees(t, Chart)
    BY <1>1 DEF Sees
  <2>9. Together(Sees(t, d), Sees(t, e), Sees(t, Chart)) BY <1>0, <1>d, <2>e DEF Ready
  <2>10. Sees(t, e) # Absent => /\ Sees(t, e) \in EntryRow
                                /\ Sees(t, e)' # Absent
                                /\ Sees(t, e)'.account = Sees(t, e).account
    BY <1>0, <1>2, <2>1, <2>4, <2>6, <2>e DEF Sees, Columns
  <2>11. Sees(t, e) = Absent /\ Sees(t, e)' # Absent => Sees(t, e)'.account = Sees(t, Chart)'
    <3>1. SUFFICES ASSUME Sees(t, e) = Absent, Sees(t, e)' # Absent
                   PROVE  Sees(t, e)'.account = Sees(t, Chart)'
      OBVIOUS
    <3>2. e \notin DOMAIN mine[t] BY <2>4, <2>6, <3>1 DEF Sees
    <3>3. Sees(t, e)' = db'[e] BY <3>2 DEF Sees
    <3>4. db'[e].account = db'[Chart] BY <2>1, <2>e, <3>1, <3>3 DEF Placed, Together
    <3>5. db'[e].account \in Copy BY <1>2, <2>1, <2>e, <3>1, <3>3 DEF EntryRow
    <3>6. Chart \notin DOMAIN mine[t] BY <1>3, <2>7, <3>4, <3>5
    <3>7. Sees(t, Chart)' = db'[Chart] BY <3>6 DEF Sees
    <3> QED BY <3>3, <3>4, <3>7
  <2>12. Sees(t, e) # Absent => Sees(t, Chart) # Absent
    BY <1>3, <2>9, <2>10 DEF Together, EntryRow
  <2> QED BY <1>d, <2>e, <2>5, <2>8, <2>9, <2>10, <2>11, <2>12 DEF Ready, Together
<1>9. Numbers(t)'
  <2>1. (at[t] = "insert" \/ Making(t)) /\ job[t].paper.kind = "withholding"
          => NextUp(t, job[t].number)
    BY <1>0 DEF Numbers
  <2>2. at[t] = "number" => job[t].paper.kind = "withholding" BY <1>0 DEF Numbers
  <2>3. at[t] = "commit" /\ d \in DOMAIN mine[t] /\ ~Recorded(d)
          /\ mine[t][d].paper.kind = "withholding" => NextUp(t, mine[t][d].number)
    BY <1>0, <1>d DEF Numbers
  <2>4. \A n : NextUp(t, n) => NextUp(t, n)' BY DEF NextUp, Spares
  <2>5. at[t] = "commit" /\ d \in DOMAIN mine[t] /\ ~Recorded(d)' => ~Recorded(d)
    BY <1>1 DEF Recorded
  <2> QED BY <1>d, <2>1, <2>2, <2>3, <2>4, <2>5 DEF Numbers, Making
<1> QED BY <1>5, <1>6, <1>7, <1>8, <1>9

\* What is written is in the tables.
LEMMA WritesRows ==
  ASSUME Inv, NEW t \in Session
  PROVE  DOMAIN mine[t] \subseteq Row
<1>0. Columns /\ Knows(t) /\ Holds(t) BY DEF Inv, Sited
<1>1. PICK d : d = job[t].doc OBVIOUS
<1>2. at[t] \in Label BY <1>0 DEF Columns
<1>3. at[t] \notin {"idle", "number", "insert"} => d \in Document BY <1>0, <1>1 DEF Knows
<1>4. d \in Document => {d, EntryOf(d), Reversed(d, t)} \subseteq Row BY RowsApart
<1>5. Numbering \in Row /\ Chart \in Row BY RowsApart
<1>6. Rows(t) \subseteq Row
  BY <1>1, <1>2, <1>3, <1>4, <1>5 DEF Rows, Making, Label
<1> QED BY <1>0, <1>6 DEF Holds

\* A step of s that publishes what it has written.
LEMMA GrowStep ==
  ASSUME Inv, NEW s \in Session, Others(s), Watched(s), Grows,
         \A t \in Session \ {s} : Spares(t),
         lazy' = lazy, accountCache' = accountCache, Cached',
         \A d \in Document : Placed(d)',
         DOMAIN mine'[s] \subseteq DOMAIN mine[s],
         Knows(s)', Holds(s)', Makes(s)', Ready(s)', Numbers(s)', VouchersNumbered',
         calm' => Undoes(s)',
         calm' => \A d \in Document : Undone(db'[d], db'[EntryOf(d)], Reversals(d)')
  PROVE  Inv'
<1>0. Columns /\ Apart BY DEF Inv, Sited
<1>1. /\ \A t \in Session \ {s} : mine'[t] = mine[t] /\ at'[t] = at[t] /\ job'[t] = job[t]
      /\ DOMAIN mine' = Session /\ DOMAIN job' = Session /\ at' \in [Session -> Label]
  BY DEF Others
<1>2. calm' => calm /\ \A t \in Session \ {s} : at[t] = "idle" BY StaysAlone
<1>3. calm' \in BOOLEAN BY <1>0 DEF Watched, Columns
<1>4. Columns' BY <1>0, <1>1, <1>3 DEF Columns, Grows
<1>5. Apart' BY <1>0, <1>1 DEF Apart
<1>6. ASSUME NEW t \in Session, t # s
      PROVE  (Knows(t) /\ Holds(t) /\ Makes(t) /\ Ready(t))' /\ Numbers(t)'
  BY <1>1, <1>6, OtherKeeps
<1>7. Sited' BY <1>4, <1>5, <1>6 DEF Sited
<1>8. Numbered' BY <1>6 DEF Numbered
<1>9. Alone' BY <1>1, <1>2 DEF Alone
<1>10. Calmly'
  <2> SUFFICES ASSUME calm' PROVE \A t \in Session : Undoes(t)' BY DEF Calmly
  <2>1. ASSUME NEW t \in Session, t # s PROVE Undoes(t)'
    <3>1. at'[t] = "idle" BY <1>1, <1>2, <2>1
    <3> QED BY <3>1 DEF Undoes, Making
  <2> QED BY <2>1
<1> QED BY <1>7, <1>8, <1>9, <1>10 DEF Inv


\* A new document, and in its transaction, but for a payroll.
LEMMA InsertDocumentKeeps ==
  ASSUME Inv, NEW s \in Session, InsertDocument(s)
  PROVE  Inv'
<1>0. /\ Columns /\ Apart /\ Cached /\ Knows(s) /\ Holds(s) /\ Numbers(s)
  BY DEF Inv, Sited, Numbered
<1>1. at[s] = "insert" /\ lazy' = lazy /\ accountCache' = accountCache
  BY DEF InsertDocument, Keep
<1>2. PICK p : p = job[s].paper OBVIOUS
<1>3. PICK row : row = [paper |-> p, number |-> job[s].number, voided |-> FALSE] OBVIOUS
<1>4. PICK d \in Document :
        /\ ~Recorded(d) /\ Free(s, {d})
        /\ IF p.kind = "payroll"
           THEN Apply(s, [r \in {d} |-> row], "resolve", [job[s] EXCEPT !.doc = d])
           ELSE Write(s, [r \in {d} |-> row], IF p.kind = "manual" THEN "entry" ELSE "resolve",
                      [job[s] EXCEPT !.doc = d,
                         !.account = IF p.kind = "manual" THEN db[Chart] ELSE Absent])
  BY <1>2, <1>3 DEF InsertDocument
<1>5. job[s] \in JobRow /\ DOMAIN mine[s] \subseteq {Numbering}
  BY <1>0, <1>1 DEF Knows, Holds, Rows, Making
<1>6. /\ row \in DocumentRow /\ row.paper = p /\ row.number = job[s].number /\ ~row.voided
      /\ row # Absent
  <2>1. p \in Paper /\ job[s].number \in Nat BY <1>2, <1>5 DEF JobRow
  <2>2. row \in DocumentRow BY <1>3, <2>1 DEF DocumentRow
  <2> QED BY <1>3, <2>2, JournalConstants
<1>7. PICK e : e = EntryOf(d) OBVIOUS
<1>8. /\ Chart # Numbering /\ d # Chart /\ d # Numbering /\ d # e /\ e # Chart /\ e # Numbering
      /\ d \in Row
  BY <1>7, RowsApart
<1>9. db[d] = Absent /\ db[e] = Absent
  BY <1>4, <1>7 DEF Inv, Sited, Placed, Together, Recorded
<1>10. PICK new : new = [r \in {d} |-> row] OBVIOUS
<1>11. DOMAIN new = {d} /\ new[d] = row BY <1>10
<1>12. CASE p.kind # "payroll"
  <2>1. PICK label : label = IF p.kind = "manual" THEN "entry" ELSE "resolve" OBVIOUS
  <2>2. PICK j : j = [job[s] EXCEPT !.doc = d,
                        !.account = IF p.kind = "manual" THEN db[Chart] ELSE Absent] OBVIOUS
  <2>3. Write(s, new, label, j) BY <1>4, <1>10, <1>12, <2>1, <2>2
  <2>4. label \in Label /\ label \in {"entry", "resolve"} BY <2>1 DEF Label
  <2>5. /\ Others(s) /\ at'[s] = label /\ job'[s] = j /\ db' = db /\ calm' = calm
        /\ DOMAIN mine'[s] = DOMAIN new \cup DOMAIN mine[s]
        /\ \A x \in DOMAIN mine'[s] :
             mine'[s][x] = IF x \in DOMAIN new THEN new[x] ELSE mine[s][x]
        /\ \A t \in Session \ {s} : DOMAIN new \cap DOMAIN mine[t] = {}
    BY <1>0, <2>3, <2>4, WriteMoves
  <2>6. DOMAIN mine'[s] = {d} \cup DOMAIN mine[s] /\ mine'[s][d] = row
    BY <1>11, <2>5
  <2>7. p.kind = "manual" => db[Chart] \in Copy
    BY <1>0, <1>1, <1>2 DEF Knows, Columns
  <2>8. /\ j \in JobRow /\ j.doc = d /\ j.paper = p /\ j.number = job[s].number
        /\ label = "entry" => j.account \in Copy /\ j.account = db[Chart]
    BY <1>2, <1>5, <2>1, <2>2, <2>7 DEF JobRow
  <2>9. Making(s)' BY <2>4, <2>5 DEF Making
  <2>10. Knows(s)' BY <2>4, <2>5, <2>8 DEF Knows
  <2>11. Holds(s)'
    <3>1. DOMAIN mine'[s] \subseteq Rows(s)' BY <1>5, <2>5, <2>6, <2>8, <2>9, <2>4 DEF Rows, Making
    <3>2. Chart \notin DOMAIN mine'[s] BY <1>5, <1>8, <2>6
    <3> QED BY <1>6, <1>9, <2>4, <2>5, <2>6, <2>8, <3>1, <3>2 DEF Holds, Recorded
  <2>12. Makes(s)'
    <3>1. Chart \notin DOMAIN mine'[s] BY <1>5, <1>8, <2>6
    <3> QED BY <1>6, <1>9, <1>12, <2>5, <2>6, <2>8, <3>1 DEF Makes, Recorded
  <2>13. Ready(s)' BY <2>4, <2>5 DEF Ready
  <2>14. Vouchers' = Vouchers BY <2>5 DEF Vouchers, Recorded
  <2>15. Numbers(s)'
    <3>1. p.kind = "withholding" => NextUp(s, job[s].number) BY <1>0, <1>1, <1>2 DEF Numbers
    <3> QED BY <2>4, <2>5, <2>8, <2>14, <2>6, <3>1 DEF Numbers, NextUp
  <2>16. calm' => Undoes(s)'
    <3>1. Sees(s, d)' = row BY <2>6 DEF Sees
    <3> QED BY <1>6, <1>7, <1>9, <2>4, <2>5, <2>8, <3>1 DEF Undoes
  <2>17. \A t \in Session \ {s} : DOMAIN mine'[s] \cap DOMAIN mine[t] = {}
    BY <1>0, <1>11, <2>5, <2>6 DEF Apart
  <2>18. Watched(s) BY <1>1, <2>5 DEF Watched
  <2>19. Cached' /\ accountCache' \in Copy \cup {Absent} /\ lazy' \in BOOLEAN
    BY <1>0, <1>1, <2>5 DEF Cached, Columns
  <2> QED BY <1>1, <2>5, <2>10, <2>11, <2>12, <2>13, <2>15, <2>16, <2>17, <2>18, <2>19, QuietStep
<1>13. CASE p.kind = "payroll"
  <2>1. PICK j : j = [job[s] EXCEPT !.doc = d] OBVIOUS
  <2>2. Apply(s, new, "resolve", j) BY <1>4, <1>10, <1>13, <2>1
  <2>3. /\ db' = Over(new, db) /\ mine' = mine /\ calm' = calm /\ Goto(s, "resolve", j)
    BY <2>2 DEF Apply
  <2>4. "resolve" \in Label BY DEF Label
  <2>5. Others(s) /\ at'[s] = "resolve" /\ job'[s] = j
    BY <1>0, <2>3, <2>4, GotoMoves DEF Others, Columns
  <2>6. /\ DOMAIN db' = Row /\ db'[d] = row /\ \A r \in Row \ {d} : db'[r] = db[r]
    BY <1>0, <1>8, <1>11, <2>3 DEF Over, Columns
  <2>7. /\ db'[Chart] = db[Chart] /\ db'[e] = Absent
        /\ \A x \in Document : db'[EntryOf(x)] = db[EntryOf(x)]
        /\ \A x \in Document \ {d} : db'[x] = db[x]
        /\ \A x \in Document, t \in Session : db'[Reversed(x, t)] = db[Reversed(x, t)]
    BY <1>7, <1>9, <2>6, RowsApart
  <2>8. Grows BY <1>0, <1>6, <1>9, <2>6, <2>7 DEF Grows, Columns, Recorded
  <2>9. "payroll" # "withholding" /\ "payroll" \notin Primary BY DEF Primary
  <2>10. d \notin Vouchers /\ d \notin Vouchers' /\ Vouchers' = Vouchers
    BY <1>6, <1>9, <1>13, <2>6, <2>7, <2>9 DEF Vouchers, Recorded
  <2>11. {db'[x].number : x \in Vouchers} = {db[x].number : x \in Vouchers}
    <3>1. \A x \in Vouchers : x \in Document \ {d} BY <2>10 DEF Vouchers
    <3> QED BY <2>7, <3>1
  <2>12. VouchersNumbered'
    <3>1. VouchersNumbered BY DEF Inv, Numbered
    <3> QED BY <2>10, <2>11, <3>1 DEF VouchersNumbered
  <2>13. \A t \in Session \ {s} : Spares(t)
    <3>1. \A t \in Session \ {s} : d \notin DOMAIN mine[t] BY <1>4 DEF Free
    <3>2. \A t \in Session \ {s} : \A r \in DOMAIN mine[t] : db'[r] = db[r]
      <4> SUFFICES ASSUME NEW t \in Session \ {s}, NEW r \in DOMAIN mine[t] PROVE db'[r] = db[r]
        OBVIOUS
      <4>1. r # d BY <3>1
      <4>2. r \in Row
        <5>1. DOMAIN mine[t] \subseteq Row BY WritesRows
        <5> QED BY <5>1
      <4> QED BY <2>6, <4>1, <4>2
    <3> QED BY <2>10, <3>2 DEF Spares
  <2>14. \A x \in Document : Placed(x)'
    <3>1. \A x \in Document : Placed(x) BY DEF Inv, Sited
    <3>2. \A x \in Document \ {d} : Placed(x)' BY <1>1, <2>7, <3>1 DEF Placed, Together
    <3>3. Placed(d)' BY <1>6, <1>7, <1>13, <2>6, <2>7, <2>9 DEF Placed, Together
    <3> QED BY <3>2, <3>3
  <2>15. j \in JobRow /\ j.doc = d /\ j.paper = p BY <1>2, <1>5, <2>1 DEF JobRow
  <2>16. Knows(s)' BY <2>5, <2>15 DEF Knows
  <2>17. d \notin DOMAIN mine[s] /\ Chart \notin DOMAIN mine[s] BY <1>5, <1>8
  <2>18. Making(s)' BY <2>5 DEF Making
  <2>19. Holds(s)'
    <3>1. DOMAIN mine'[s] \subseteq Rows(s)' BY <1>5, <2>3, <2>5, <2>18 DEF Rows
    <3> QED BY <2>3, <2>5, <2>15, <2>17, <3>1 DEF Holds
  <2>20. Makes(s)'
    BY <1>6, <1>13, <2>3, <2>5, <2>6, <2>15, <2>17 DEF Makes, Recorded
  <2>21. Ready(s)' BY <2>5 DEF Ready
  <2>22. Numbers(s)' BY <1>13, <2>5, <2>9, <2>15 DEF Numbers
  <2>23. calm' => Undoes(s)'
    <3>1. Sees(s, d)' = row BY <2>3, <2>6, <2>17 DEF Sees
    <3> QED BY <1>6, <1>7, <2>5, <2>7, <2>15, <3>1 DEF Undoes
  <2>24. calm' => \A x \in Document : Undone(db'[x], db'[EntryOf(x)], Reversals(x)')
    <3>1. \A x \in Document : Reversals(x)' = Reversals(x) BY <2>7 DEF Reversals
    <3>2. calm => \A x \in Document : Undone(db[x], db[EntryOf(x)], Reversals(x))
      BY DEF Inv, Calmly
    <3>3. \A x \in Document : Undone(db[x], db[EntryOf(x)], Reversals(x)) =>
                              Undone(db'[x], db'[EntryOf(x)], Reversals(x)')
      <4> SUFFICES ASSUME NEW x \in Document, Undone(db[x], db[EntryOf(x)], Reversals(x))
                   PROVE  Undone(db'[x], db'[EntryOf(x)], Reversals(x)')
        OBVIOUS
      <4>1. CASE x = d BY <1>7, <1>9, <2>7, <3>1, <4>1 DEF Undone
      <4>2. CASE x # d BY <2>7, <3>1, <4>2 DEF Undone
      <4> QED BY <4>1, <4>2
    <3> QED BY <2>3, <3>2, <3>3
  <2>25. Watched(s) BY <1>1, <2>3 DEF Watched
  <2>26. Cached' BY <1>0, <1>1, <2>7 DEF Cached
  <2>27. DOMAIN mine'[s] \subseteq DOMAIN mine[s] BY <2>3
  <2> QED BY <1>1, <2>5, <2>8, <2>12, <2>13, <2>14, <2>16, <2>19, <2>20, <2>21, <2>22, <2>23,
            <2>24, <2>25, <2>26, <2>27, GrowStep
<1> QED BY <1>12, <1>13

\* The fiscal period is closed: no document is.
LEMMA ClosePeriodKeeps ==
  ASSUME Inv, NEW s \in Session, ClosePeriod(s)
  PROVE  Inv'
<1>0. Columns /\ Cached /\ Knows(s) /\ Holds(s) /\ Makes(s) /\ Ready(s) /\ Numbers(s) /\ Calmly
  BY DEF Inv, Sited, Numbered
<1>1. /\ at[s] = "idle" /\ db' = [db EXCEPT ![Period] = "closed"] /\ calm' = (calm /\ Quiet)
      /\ mine' = mine /\ at' = at /\ job' = job /\ lazy' = lazy /\ accountCache' = accountCache
      /\ Free(s, {Period})
  BY DEF ClosePeriod, Keep
<1>2. Others(s) /\ Watched(s) BY <1>0, <1>1 DEF Others, Watched, Columns
<1>3. DOMAIN db' = Row /\ \A r \in Row \ {Period} : db'[r] = db[r]
  BY <1>0, <1>1 DEF Columns
<1>4. /\ db'[Chart] = db[Chart]
      /\ \A x \in Document : db'[x] = db[x] /\ db'[EntryOf(x)] = db[EntryOf(x)]
      /\ \A x \in Document, t \in Session : db'[Reversed(x, t)] = db[Reversed(x, t)]
  <2>1. db'[Chart] = db[Chart] BY <1>3, RowsApart
  <2>2. \A x \in Document : db'[x] = db[x] BY <1>3, RowsApart
  <2>3. \A x \in Document : db'[EntryOf(x)] = db[EntryOf(x)] BY <1>3, RowsApart
  <2>4. \A x \in Document, t \in Session : db'[Reversed(x, t)] = db[Reversed(x, t)]
    BY <1>3, RowsApart
  <2> QED BY <2>1, <2>2, <2>3, <2>4
<1>5. Grows BY <1>0, <1>3, <1>4 DEF Grows, Columns, Recorded
<1>6. Vouchers' = Vouchers BY <1>4 DEF Vouchers, Recorded
<1>7. {db'[x].number : x \in Vouchers} = {db[x].number : x \in Vouchers}
  <2>1. \A x \in Vouchers : x \in Document BY DEF Vouchers
  <2> QED BY <1>4, <2>1
<1>8. VouchersNumbered'
  <2>1. VouchersNumbered BY DEF Inv, Numbered
  <2> QED BY <1>6, <1>7, <2>1 DEF VouchersNumbered
<1>9. \A t \in Session \ {s} : Spares(t)
  <2> SUFFICES ASSUME NEW t \in Session \ {s}, NEW r \in DOMAIN mine[t] PROVE db'[r] = db[r]
    BY <1>6 DEF Spares
  <2>1. r # Period BY <1>1 DEF Free
  <2>2. DOMAIN mine[t] \subseteq Row BY WritesRows
  <2> QED BY <1>3, <2>1, <2>2
<1>10. \A x \in Document : Placed(x)'
  <2>1. \A x \in Document : Placed(x) BY DEF Inv, Sited
  <2> QED BY <1>1, <1>4, <2>1 DEF Placed, Together
<1>11. (Knows(s) /\ Holds(s) /\ Makes(s) /\ Ready(s))' /\ Numbers(s)'
  <2>1. DOMAIN mine[s] = {} BY <1>0, <1>1 DEF Knows, Unwritten
  <2>2. Knows(s)' BY <1>0, <1>1 DEF Knows
  <2>3. Holds(s)' BY <1>1, <2>1 DEF Holds
  <2>4. Makes(s)' /\ Ready(s)' /\ Numbers(s)' BY <1>1 DEF Makes, Making, Ready, Numbers
  <2> QED BY <2>2, <2>3, <2>4
<1>12. Undoes(s)' BY <1>1 DEF Undoes, Making
<1>13. calm' => \A x \in Document : Undone(db'[x], db'[EntryOf(x)], Reversals(x)')
  <2>1. \A x \in Document : Reversals(x)' = Reversals(x) BY <1>4 DEF Reversals
  <2>2. calm' => calm BY <1>1
  <2> QED BY <1>0, <1>4, <2>1, <2>2 DEF Calmly
<1>14. Cached' BY <1>0, <1>1, <1>4 DEF Cached
<1>15. DOMAIN mine'[s] \subseteq DOMAIN mine[s] BY <1>1
<1> QED BY <1>1, <1>2, <1>5, <1>8, <1>9, <1>10, <1>11, <1>12, <1>13, <1>14, <1>15, GrowStep


\* COMMIT publishes what the request has made, whole.
LEMMA EndRequestKeeps ==
  ASSUME Inv, NEW s \in Session, EndRequest(s)
  PROVE  Inv'
<1>0. /\ Columns /\ Apart /\ Cached /\ Knows(s) /\ Holds(s) /\ Ready(s) /\ Numbers(s)
      /\ (calm => Undoes(s))
  BY DEF Inv, Sited, Numbered, Calmly
<1>1. /\ at[s] = "commit" /\ lazy' = lazy /\ accountCache' = accountCache /\ calm' = calm
      /\ db' = Over(mine[s], db) /\ mine' = [mine EXCEPT ![s] = Unwritten]
      /\ Goto(s, "idle", NoJob)
  BY DEF EndRequest, Keep, Commit, Publish
<1>2. "idle" \in Label BY DEF Label
<1>3. /\ mine'[s] = Unwritten /\ DOMAIN mine' = Session
      /\ \A t \in Session \ {s} : mine'[t] = mine[t]
  BY <1>0, <1>1 DEF Columns
<1>4. Others(s) /\ at'[s] = "idle" /\ job'[s] = NoJob
  BY <1>0, <1>1, <1>2, <1>3, GotoMoves DEF Others
<1>5. DOMAIN mine'[s] = {} BY <1>3 DEF Unwritten
<1>d. PICK d : d = job[s].doc OBVIOUS
<1>e. PICK e : e = EntryOf(d) OBVIOUS
<1>v. PICK v : v = Reversed(d, s) OBVIOUS
<1>6. /\ d \in Document /\ DOMAIN mine[s] \subseteq {Numbering, Chart, d, e, v}
      /\ Recorded(d) \/ d \in DOMAIN mine[s]
  BY <1>0, <1>1, <1>d, <1>e, <1>v DEF Knows, Holds, Rows, Making
<1>7. DOMAIN mine[s] \subseteq Row BY WritesRows
<1>8. DOMAIN db' = Row /\ \A r \in Row : db'[r] = Sees(s, r)
  BY <1>0, <1>1, <1>7 DEF Over, Columns, Sees
<1>9. \A r \in Row \ DOMAIN mine[s] : db'[r] = db[r] BY <1>8 DEF Sees
<1>10. /\ d \in DOMAIN mine[s] =>
            /\ mine[s][d] \in DocumentRow
            /\ Recorded(d) => /\ mine[s][d].paper = db[d].paper
                              /\ mine[s][d].number = db[d].number
       /\ e \in DOMAIN mine[s] => mine[s][e] \in EntryRow
       /\ v \in DOMAIN mine[s] => mine[s][v] = db[v] + 1
       /\ Chart \in DOMAIN mine[s] => mine[s][Chart] \in Copy /\ db[Chart] = Absent /\ lazy
  BY <1>0, <1>1, <1>6, <1>d, <1>e, <1>v DEF Holds
<1>11. Absent \notin DocumentRow /\ Absent \notin EntryRow /\ Absent \notin Copy
  BY JournalConstants
<1>12. /\ d \in Row /\ e \in Row /\ v \in Row /\ Chart \in Row /\ Numbering \in Row
       /\ d # e /\ d # v /\ e # v /\ Chart # d /\ Chart # e /\ Chart # v
  BY <1>6, <1>e, <1>v, RowsApart
<1>13. \A x \in Document \ {d} :
         /\ db'[x] = db[x] /\ db'[EntryOf(x)] = db[EntryOf(x)]
         /\ \A t \in Session : db'[Reversed(x, t)] = db[Reversed(x, t)]
  <2> SUFFICES ASSUME NEW x \in Document, x # d
               PROVE  /\ db'[x] = db[x] /\ db'[EntryOf(x)] = db[EntryOf(x)]
                      /\ \A t \in Session : db'[Reversed(x, t)] = db[Reversed(x, t)]
    OBVIOUS
  <2>1. x \in Row /\ x \notin {Numbering, Chart, d, e, v} BY <1>6, <1>e, <1>v, RowsApart
  <2>2. EntryOf(x) \in Row /\ EntryOf(x) \notin {Numbering, Chart, d, e, v}
    BY <1>6, <1>e, <1>v, RowsApart
  <2>3. \A t \in Session : /\ Reversed(x, t) \in Row
                           /\ Reversed(x, t) \notin {Numbering, Chart, d, e, v}
    BY <1>6, <1>e, <1>v, RowsApart
  <2> QED BY <1>6, <1>9, <2>1, <2>2, <2>3
<1>14. \A t \in Session \ {s} : db'[Reversed(d, t)] = db[Reversed(d, t)]
  <2>1. \A t \in Session \ {s} : /\ Reversed(d, t) \in Row
                                 /\ Reversed(d, t) \notin {Numbering, Chart, d, e, v}
    BY <1>6, <1>e, <1>v, RowsApart
  <2> QED BY <1>6, <1>9, <2>1
<1>15. db[v] \in Nat /\ db'[v] = db[v] + More(s, d) /\ db'[v] \in Nat
  <2>1. db[v] \in Nat BY <1>0, <1>6, <1>v DEF Columns
  <2> QED BY <1>8, <1>10, <1>12, <1>v, <2>1 DEF Sees, More
<1>16. /\ db'[d] \in DocumentRow
       /\ Recorded(d) => db'[d].paper = db[d].paper /\ db'[d].number = db[d].number
  BY <1>0, <1>6, <1>8, <1>10, <1>12 DEF Sees, Columns, Recorded
<1>17. /\ db'[e] \in EntryRow \cup {Absent}
       /\ db'[Chart] \in Copy \cup {Absent}
       /\ db[Chart] # Absent => db'[Chart] = db[Chart]
  BY <1>0, <1>6, <1>8, <1>10, <1>12, <1>e DEF Sees, Columns
<1>18. Together(db'[d], db'[e], db'[Chart])
  BY <1>0, <1>1, <1>8, <1>12, <1>d, <1>e DEF Ready
<1>19. Placed(d) BY <1>6 DEF Inv, Sited
<1>20. db[e] # Absent => db'[e] # Absent /\ db'[e].account = db[e].account
  <2>1. CASE e \notin DOMAIN mine[s] BY <1>9, <1>12, <2>1
  <2>2. CASE e \in DOMAIN mine[s]
    <3> SUFFICES ASSUME db[e] # Absent
                 PROVE  db'[e] # Absent /\ db'[e].account = db[e].account
      OBVIOUS
    <3>1. db'[e] # Absent BY <1>8, <1>10, <1>11, <1>12, <2>2 DEF Sees
    <3>2. db[e].account = db[Chart] /\ db[e] \in EntryRow
      BY <1>0, <1>6, <1>19, <1>e DEF Placed, Together, Columns
    <3>3. db[Chart] # Absent BY <1>11, <3>2 DEF EntryRow
    <3> QED BY <1>17, <1>18, <3>1, <3>2, <3>3 DEF Together
  <2> QED BY <2>1, <2>2
<1>21. Grows
  <2>1. \A x \in Document : /\ db'[x] \in DocumentRow \cup {Absent}
                            /\ db'[EntryOf(x)] \in EntryRow \cup {Absent}
    BY <1>0, <1>13, <1>16, <1>17, <1>e DEF Columns
  <2>2. \A x \in Document, t \in Session : db'[Reversed(x, t)] \in Nat
    <3> SUFFICES ASSUME NEW x \in Document, NEW t \in Session PROVE db'[Reversed(x, t)] \in Nat
      OBVIOUS
    <3>1. db[Reversed(x, t)] \in Nat BY <1>0 DEF Columns
    <3> QED BY <1>13, <1>14, <1>15, <1>v, <3>1
  <2>3. \A x \in Document :
          /\ Recorded(x) => /\ db'[x] # Absent
                            /\ db'[x].paper = db[x].paper /\ db'[x].number = db[x].number
          /\ db[EntryOf(x)] # Absent => /\ db'[EntryOf(x)] # Absent
                                        /\ db'[EntryOf(x)].account = db[EntryOf(x)].account
    <3> SUFFICES ASSUME NEW x \in Document
                 PROVE  /\ Recorded(x) => /\ db'[x] # Absent
                                          /\ db'[x].paper = db[x].paper
                                          /\ db'[x].number = db[x].number
                        /\ db[EntryOf(x)] # Absent =>
                             /\ db'[EntryOf(x)] # Absent
                             /\ db'[EntryOf(x)].account = db[EntryOf(x)].account
      OBVIOUS
    <3>1. CASE x = d BY <1>11, <1>16, <1>20, <1>e, <3>1
    <3>2. CASE x # d BY <1>13, <3>2 DEF Recorded
    <3> QED BY <3>1, <3>2
  <2> QED BY <1>8, <1>17, <2>1, <2>2, <2>3 DEF Grows
<1>22. \A x \in Document : Placed(x)'
  <2> SUFFICES ASSUME NEW x \in Document PROVE Placed(x)' OBVIOUS
  <2>1. CASE x = d BY <1>1, <1>18, <1>e, <2>1 DEF Placed, Together
  <2>2. CASE x # d
    <3>1. Placed(x) BY DEF Inv, Sited
    <3>2. db[EntryOf(x)] \in EntryRow \cup {Absent} BY <1>0 DEF Columns
    <3>3. db[EntryOf(x)] # Absent => db'[Chart] = db[Chart]
      BY <1>11, <1>17, <3>1, <3>2 DEF Placed, Together, EntryRow
    <3> QED BY <1>1, <1>13, <2>2, <3>1, <3>3 DEF Placed, Together
  <2> QED BY <2>1, <2>2
<1>23. \/ Vouchers' = Vouchers /\ VouchersNumbered'
       \/ Numbering \in DOMAIN mine[s] /\ VouchersNumbered'
  <2>0. VouchersNumbered BY DEF Inv, Numbered
  <2>1. \A x \in Document : Recorded(x) => db'[x] # Absent /\ db'[x].number = db[x].number
                                            /\ db'[x].paper = db[x].paper
    BY <1>21 DEF Grows
  <2>2. \A x \in Document \ {d} : Recorded(x)' <=> Recorded(x) BY <1>13 DEF Recorded
  <2>3. Vouchers \subseteq Document /\ \A x \in Vouchers : Recorded(x) BY DEF Vouchers
  <2>4. {db'[x].number : x \in Vouchers} = {db[x].number : x \in Vouchers} BY <2>1, <2>3
  <2>5. CASE Recorded(d) \/ db'[d].paper.kind # "withholding"
    <3>1. Recorded(d) => Recorded(d)' BY <1>6, <2>1 DEF Recorded
    <3>2. \A x \in Document : x \in Vouchers' <=> x \in Vouchers
      BY <1>13, <1>16, <2>1, <2>2, <2>5, <3>1 DEF Vouchers
    <3>3. Vouchers' \subseteq Document BY DEF Vouchers
    <3>4. Vouchers' = Vouchers BY <2>3, <3>2, <3>3
    <3> QED BY <2>0, <2>4, <3>4 DEF VouchersNumbered
  <2>6. CASE ~Recorded(d) /\ db'[d].paper.kind = "withholding"
    <3>1. d \in DOMAIN mine[s] /\ db'[d] = mine[s][d] BY <1>6, <1>8, <1>12, <2>6 DEF Sees
    <3>2. Numbering \in DOMAIN mine[s] /\ db'[d].number = Cardinality(Vouchers) + 1
      BY <1>0, <1>1, <1>d, <2>6, <3>1 DEF Numbers, NextUp
    <3>3. d \notin Vouchers BY <2>6 DEF Vouchers
    <3>4. d \in Vouchers' BY <1>6, <1>11, <1>16, <2>6 DEF Vouchers, Recorded
    <3>5. \A x \in Document \ {d} : x \in Vouchers' <=> x \in Vouchers
      BY <1>13, <2>2 DEF Vouchers
    <3>6. Vouchers' \subseteq Document BY DEF Vouchers
    <3>7. Vouchers' = Vouchers \cup {d} BY <2>3, <3>4, <3>5, <3>6
    <3>8. IsFiniteSet(Vouchers) BY <2>3, JournalConstants, FS_Subset
    <3>9. PICK n : n = Cardinality(Vouchers) OBVIOUS
    <3>10. n \in Nat /\ Cardinality(Vouchers') = n + 1
      BY <3>3, <3>7, <3>8, <3>9, FS_AddElement, FS_CardinalityType
    <3>11. {db'[x].number : x \in Vouchers'} = {db'[x].number : x \in Vouchers} \cup {n + 1}
      BY <3>2, <3>7, <3>9
    <3>12. {db[x].number : x \in Vouchers} = 1 .. n BY <2>0, <3>9 DEF VouchersNumbered
    <3>13. 1 .. (n + 1) = (1 .. n) \cup {n + 1} BY <3>10
    <3>14. {db'[x].number : x \in Vouchers'} = 1 .. Cardinality(Vouchers')
      BY <2>4, <3>10, <3>11, <3>12, <3>13
    <3> QED BY <3>2, <3>14 DEF VouchersNumbered
  <2> QED BY <2>5, <2>6
<1>24. \A t \in Session \ {s} : Spares(t)
  <2> SUFFICES ASSUME NEW t \in Session, t # s PROVE Spares(t) OBVIOUS
  <2>1. DOMAIN mine[s] \cap DOMAIN mine[t] = {} BY <1>0 DEF Apart
  <2>2. DOMAIN mine[t] \subseteq Row BY WritesRows
  <2> QED BY <1>9, <1>23, <2>1, <2>2 DEF Spares
<1>25. (Knows(s) /\ Holds(s) /\ Makes(s) /\ Ready(s))' /\ Numbers(s)'
  <2>1. Knows(s)' BY <1>3, <1>4 DEF Knows
  <2>2. Holds(s)' BY <1>4, <1>5 DEF Holds
  <2> QED BY <1>4, <2>1, <2>2 DEF Makes, Making, Ready, Numbers
<1>26. Undoes(s)' BY <1>4 DEF Undoes, Making
<1>27. calm' => \A x \in Document : Undone(db'[x], db'[EntryOf(x)], Reversals(x)')
  <2> SUFFICES ASSUME calm, NEW x \in Document
               PROVE  Undone(db'[x], db'[EntryOf(x)], Reversals(x)')
    BY <1>1
  <2>1. CASE x = d
    <3>1. Reversals(d)' = Reversals(d) + More(s, d)
      <4>1. PICK f : f = [t \in Session |-> db[Reversed(d, t)]] OBVIOUS
      <4>2. PICK g : g = [t \in Session |-> db'[Reversed(d, t)]] OBVIOUS
      <4>3. \A t \in Session : f[t] \in Int /\ g[t] \in Int
        BY <1>0, <1>6, <1>14, <1>15, <1>v, <4>1, <4>2 DEF Columns
      <4>4. \A t \in Session \ {s} : g[t] = f[t] BY <1>14, <4>1, <4>2
      <4>5. SumFunctionOnSet(g, Session) = SumFunctionOnSet(f, Session) + (g[s] - f[s])
        BY <4>3, <4>4, JournalConstants, SumChanges
      <4>6. g[s] - f[s] = More(s, d)
        <5>1. f[s] = db[v] /\ g[s] = db'[v] BY <1>v, <4>1, <4>2
        <5>2. More(s, d) \in Nat BY DEF More
        <5> QED BY <1>15, <5>1, <5>2
      <4>7. SumFunction(f) = SumFunctionOnSet(f, Session)
        BY <4>1 DEF SumFunction
      <4>8. SumFunction(g) = SumFunctionOnSet(g, Session)
        BY <4>2 DEF SumFunction
      <4>9. Reversals(d) = SumFunction(f) BY <4>1 DEF Reversals
      <4>10. Reversals(d)' = SumFunction(g) BY <4>2 DEF Reversals
      <4> QED BY <4>5, <4>6, <4>7, <4>8, <4>9, <4>10
    <3>2. Undone(Sees(s, d), Sees(s, e), Reversals(d) + More(s, d))
      BY <1>0, <1>1, <1>d, <1>e DEF Undoes
    <3> QED BY <1>8, <1>12, <1>e, <2>1, <3>1, <3>2
  <2>2. CASE x # d
    <3>1. Reversals(x)' = Reversals(x) BY <1>13, <2>2 DEF Reversals
    <3>2. Undone(db[x], db[EntryOf(x)], Reversals(x)) BY DEF Inv, Calmly
    <3> QED BY <1>13, <2>2, <3>1, <3>2
  <2> QED BY <2>1, <2>2
<1>28. Cached'
  <2>1. ~lazy => db'[Chart] = db[Chart] BY <1>9, <1>10, <1>12
  <2> QED BY <1>0, <1>1, <2>1 DEF Cached
<1>29. Watched(s) BY <1>1 DEF Watched
<1>30. VouchersNumbered' BY <1>23
<1>31. DOMAIN mine'[s] \subseteq DOMAIN mine[s] BY <1>5
<1> QED BY <1>1, <1>4, <1>21, <1>22, <1>24, <1>25, <1>26, <1>27, <1>28, <1>29, <1>30, <1>31, GrowStep

\* The process goes down: what was not committed is gone, and the cache.
LEMMA RestartKeeps ==
  ASSUME Inv, Restart
  PROVE  Inv'
<1>0. Columns /\ Numbered /\ Calmly BY DEF Inv, Sited
<1>1. /\ mine' = [s \in Session |-> Unwritten] /\ at' = [s \in Session |-> "idle"]
      /\ job' = [s \in Session |-> NoJob] /\ accountCache' = Absent
      /\ db' = db /\ calm' = calm /\ lazy' = lazy
  BY DEF Restart
<1>2. \A s \in Session : /\ mine'[s] = Unwritten /\ DOMAIN mine'[s] = {}
                         /\ at'[s] = "idle" /\ job'[s] = NoJob
  BY <1>1 DEF Unwritten
<1>3. "idle" \in Label BY DEF Label
<1>4. Columns' BY <1>0, <1>1, <1>3 DEF Columns
<1>5. Apart' BY <1>2 DEF Apart
<1>6. Cached' BY <1>1 DEF Cached
<1>7. \A d \in Document : Placed(d)' BY <1>1 DEF Inv, Sited, Placed, Together
<1>8. \A s \in Session : (Knows(s) /\ Holds(s) /\ Makes(s) /\ Ready(s))'
  BY <1>2 DEF Knows, Holds, Makes, Ready, Making
<1>9. Sited' BY <1>4, <1>5, <1>6, <1>7, <1>8 DEF Sited
<1>10. Vouchers' = Vouchers BY <1>1 DEF Vouchers, Recorded
<1>11. Numbered'
  <2>1. VouchersNumbered' BY <1>0, <1>1, <1>10 DEF Numbered, VouchersNumbered
  <2>2. \A s \in Session : Numbers(s)' BY <1>2 DEF Numbers, Making
  <2> QED BY <2>1, <2>2 DEF Numbered
<1>12. Alone' BY <1>2 DEF Alone
<1>13. Calmly'
  <2>1. \A d \in Document : Reversals(d)' = Reversals(d) BY <1>1 DEF Reversals
  <2>2. \A s \in Session : Undoes(s)' BY <1>2 DEF Undoes, Making
  <2> QED BY <1>0, <1>1, <2>1, <2>2 DEF Calmly
<1> QED BY <1>9, <1>11, <1>12, <1>13 DEF Inv


\* No document, no entry, no request.
LEMMA InitInv == ASSUME Init PROVE Inv
<1>1. PICK chart \in {Absent} \cup Copy :
        db = [r \in Row |->
                CASE r = Chart -> chart
                  [] r = Numbering -> 0
                  [] r = Period -> "open"
                  [] r \in Document \cup {EntryOf(d) : d \in Document} -> Absent
                  [] OTHER -> 0]
  BY DEF Init
<1>2. /\ mine = [s \in Session |-> Unwritten] /\ at = [s \in Session |-> "idle"]
      /\ job = [s \in Session |-> NoJob] /\ calm = TRUE /\ accountCache = Absent /\ lazy = FALSE
  BY DEF Init, RequestsInit
<1>3. DOMAIN db = Row /\ db[Chart] = chart BY <1>1, RowsApart
<1>4. \A d \in Document : db[d] = Absent
  <2> SUFFICES ASSUME NEW d \in Document PROVE db[d] = Absent OBVIOUS
  <2>1. /\ d \in Row /\ d # Chart /\ d # Numbering /\ d # Period
        /\ d \in Document \cup {EntryOf(x) : x \in Document}
    BY RowsApart
  <2> QED BY <1>1, <2>1
<1>5. \A d \in Document : db[EntryOf(d)] = Absent
  <2> SUFFICES ASSUME NEW d \in Document PROVE db[EntryOf(d)] = Absent OBVIOUS
  <2>1. PICK e : e = EntryOf(d) OBVIOUS
  <2>2. e \in {EntryOf(x) : x \in Document} BY <2>1
  <2>3. e \in Row /\ e # Chart /\ e # Numbering /\ e # Period
        /\ e \in Document \cup {EntryOf(x) : x \in Document}
    BY <2>1, <2>2, RowsApart
  <2> QED BY <1>1, <2>1, <2>3
<1>6. \A d \in Document, s \in Session : db[Reversed(d, s)] = 0
  <2> SUFFICES ASSUME NEW d \in Document, NEW s \in Session PROVE db[Reversed(d, s)] = 0 OBVIOUS
  <2>1. PICK v : v = Reversed(d, s) OBVIOUS
  <2>2. /\ v \in Row /\ v # Chart /\ v # Numbering /\ v # Period
        /\ v \notin Document \cup {EntryOf(x) : x \in Document}
    BY <2>1, RowsApart
  <2> QED BY <1>1, <2>1, <2>2
<1>7. \A s \in Session : /\ mine[s] = Unwritten /\ DOMAIN mine[s] = {}
                         /\ at[s] = "idle" /\ job[s] = NoJob
  BY <1>2 DEF Unwritten
<1>8. "idle" \in Label BY DEF Label
<1>9. Columns
  <2>1. DOMAIN mine = Session /\ DOMAIN job = Session /\ at \in [Session -> Label]
    BY <1>2, <1>8
  <2>2. \A d \in Document, s \in Session : db[Reversed(d, s)] \in Nat BY <1>6
  <2> QED BY <1>2, <1>3, <1>4, <1>5, <2>1, <2>2 DEF Columns
<1>10. Apart BY <1>7 DEF Apart
<1>11. Cached BY <1>2 DEF Cached
<1>12. \A d \in Document : Placed(d) BY <1>4, <1>5 DEF Placed, Together
<1>13. \A s \in Session : Knows(s) /\ Holds(s) /\ Makes(s) /\ Ready(s)
  BY <1>7 DEF Knows, Holds, Makes, Ready, Making
<1>14. Sited BY <1>9, <1>10, <1>11, <1>12, <1>13 DEF Sited
<1>15. Numbered
  <2>1. Vouchers = {} BY <1>4 DEF Vouchers, Recorded
  <2>2. Cardinality(Vouchers) = 0 BY <2>1, FS_EmptySet
  <2>3. {db[d].number : d \in Vouchers} = {} BY <2>1
  <2>4. 1 .. 0 = {} OBVIOUS
  <2>5. VouchersNumbered BY <2>2, <2>3, <2>4 DEF VouchersNumbered
  <2> QED BY <1>7, <2>5 DEF Numbered, Numbers, Making
<1>16. Alone BY <1>7 DEF Alone
<1>17. Calmly
  <2>1. \A d \in Document : Reversals(d) = 0
    <3> SUFFICES ASSUME NEW d \in Document PROVE Reversals(d) = 0 OBVIOUS
    <3>1. PICK f : f = [s \in Session |-> db[Reversed(d, s)]] OBVIOUS
    <3>2. \A s \in Session : f[s] = 0 BY <1>6, <3>1
    <3>3. SumFunctionOnSet(f, Session) = 0 BY <3>2, JournalConstants, SumOfZeros
    <3>4. SumFunction(f) = SumFunctionOnSet(f, Session) BY <3>1 DEF SumFunction
    <3> QED BY <3>1, <3>3, <3>4 DEF Reversals
  <2>2. \A s \in Session : Undoes(s) BY <1>7 DEF Undoes, Making
  <2> QED BY <1>5, <2>1, <2>2 DEF Calmly, Undone
<1> QED BY <1>14, <1>15, <1>16, <1>17 DEF Inv

\* Every step keeps the invariant.
LEMMA NextInv == ASSUME Inv, [Next]_vars PROVE Inv'
<1>1. CASE Next
  <2>1. ASSUME NEW s \in Session, Recording(s) PROVE Inv'
    BY <2>1, StartDocumentKeeps, TakeNumberKeeps, InsertDocumentKeeps, ResolveKeeps,
       ProvisionKeeps, InsertEntryKeeps DEF Recording
  <2>2. ASSUME NEW s \in Session, Voiding(s) PROVE Inv'
    BY <2>2, StartVoidKeeps, MarkVoidedKeeps, ReverseEntryKeeps, StartVoidEntryKeeps,
       VoidEntryKeeps DEF Voiding
  <2>3. ASSUME NEW s \in Session, ClosePeriod(s) \/ EndRequest(s) \/ FailRequest(s) PROVE Inv'
    BY <2>3, ClosePeriodKeeps, EndRequestKeeps, FailRequestKeeps
  <2> QED BY <1>1, <2>1, <2>2, <2>3, RestartKeeps DEF Next
<1>2. CASE UNCHANGED vars
  <2>1. /\ db' = db /\ mine' = mine /\ at' = at /\ job' = job /\ calm' = calm
        /\ accountCache' = accountCache /\ lazy' = lazy
    BY <1>2 DEF vars
  <2>2. Columns' /\ Apart' /\ Cached' BY <2>1 DEF Inv, Sited, Columns, Apart, Cached
  <2>3. \A d \in Document : Placed(d)' BY <2>1 DEF Inv, Sited, Placed, Together
  <2>4. \A s \in Session : Knows(s)' BY <2>1 DEF Inv, Sited, Knows, Recorded
  <2>5. \A s \in Session : Holds(s)' BY <2>1 DEF Inv, Sited, Holds, Rows, Making, Recorded
  <2>6. \A s \in Session : Makes(s)' BY <2>1 DEF Inv, Sited, Makes, Making, Recorded
  <2>7. ASSUME NEW s \in Session PROVE Ready(s)'
    <3>1. \A r : Sees(s, r)' = Sees(s, r) BY <2>1 DEF Sees
    <3>2. \A doc, entry, chart : Together(doc, entry, chart) => Together(doc, entry, chart)'
      BY <2>1 DEF Together
    <3>3. Ready(s) BY DEF Inv, Sited
    <3> QED BY <2>1, <3>1, <3>2, <3>3 DEF Ready
  <2>8. Vouchers' = Vouchers BY <2>1 DEF Vouchers, Recorded
  <2>9. ASSUME NEW s \in Session PROVE Numbers(s)'
    <3>1. /\ Making(s)' <=> Making(s)
          /\ \A n : NextUp(s, n)' <=> NextUp(s, n)
          /\ \A d : Recorded(d)' <=> Recorded(d)
      BY <2>1, <2>8 DEF Making, NextUp, Recorded
    <3>2. Numbers(s) BY DEF Inv, Numbered
    <3> QED BY <2>1, <3>1, <3>2 DEF Numbers
  <2>10. VouchersNumbered' BY <2>1, <2>8 DEF Inv, Numbered, VouchersNumbered
  <2>11. Alone' BY <2>1 DEF Inv, Alone
  <2>12. \A d \in Document : Reversals(d)' = Reversals(d) BY <2>1 DEF Reversals
  <2>13. Calmly'
    <3>1. calm' => \A d \in Document : Undone(db'[d], db'[EntryOf(d)], Reversals(d)')
      BY <2>1, <2>12 DEF Inv, Calmly
    <3>2. \A d, s : More(s, d)' = More(s, d) /\ Sees(s, d)' = Sees(s, d) BY <2>1 DEF More, Sees
    <3>3. \A d : Reversals(d)' = Reversals(d) BY <2>1 DEF Reversals
    <3>4. ASSUME NEW s \in Session, Undoes(s) PROVE Undoes(s)'
      BY <2>1, <3>2, <3>3, <3>4 DEF Undoes, Making
    <3> QED BY <2>1, <3>1, <3>4 DEF Inv, Calmly
  <2> QED BY <2>2, <2>3, <2>4, <2>5, <2>6, <2>7, <2>9, <2>10, <2>11, <2>13 DEF Inv, Sited, Numbered
<1> QED BY <1>1, <1>2

\* What the proofs rest on holds of every behaviour.
LEMMA Invariant == Spec => []Inv
<1> QED BY InitInv, NextInv, PTL DEF Spec

-----------------------------------------------------------------------------
(* What an entry adds up to: sums of few lines, and of lines in bolivares.  *)

\* A sum over the first so many numbers.
LEMMA SumToNext ==
  ASSUME NEW f, NEW n \in Nat, \A i \in 1 .. (n + 1) : f[i] \in Int
  PROVE  SumFunctionOnSet(f, 1 .. (n + 1)) = SumFunctionOnSet(f, 1 .. n) + f[n + 1]
<1> DEFINE S == 1 .. (n + 1)  W == 1 .. n  x == n + 1
<1>1. IsFiniteSet(S) BY FS_Interval
<1>2. W \in SUBSET S /\ x \in S \ W /\ W \cup {x} = S OBVIOUS
<1>3. \A i \in S : f[i] \in Int OBVIOUS
<1>4. SumFunctionOnSet(f, W) \in Int /\ SumFunctionOnSet(f, S) = f[x] + SumFunctionOnSet(f, W)
  <2> HIDE DEF S, W, x
  <2> QED BY <1>1, <1>2, <1>3, SumGrows
<1>5. f[x] \in Int BY <1>2, <1>3
<1>6. \A a, b, c \in Int : a = b + c => a = c + b OBVIOUS
<1> QED BY <1>4, <1>5, <1>6

\* The sums of two, three, four and six terms.
LEMMA SumOfFew ==
  ASSUME NEW f
  PROVE  /\ (\A i \in 1 .. 2 : f[i] \in Int) => SumFunctionOnSet(f, 1 .. 2) = f[1] + f[2]
         /\ (\A i \in 1 .. 3 : f[i] \in Int) => SumFunctionOnSet(f, 1 .. 3) = f[1] + f[2] + f[3]
         /\ (\A i \in 1 .. 4 : f[i] \in Int)
              => SumFunctionOnSet(f, 1 .. 4) = f[1] + f[2] + f[3] + f[4]
         /\ (\A i \in 1 .. 6 : f[i] \in Int)
              => SumFunctionOnSet(f, 1 .. 6) = f[1] + f[2] + f[3] + f[4] + f[5] + f[6]
<1> DEFINE S(n) == SumFunctionOnSet(f, 1 .. n)
<1>0. S(0) = 0
  <2>1. 1 .. 0 = {} OBVIOUS
  <2> QED BY <2>1, SumOfNone
<1>1. ASSUME NEW n \in Nat, \A i \in 1 .. (n + 1) : f[i] \in Int
      PROVE  S(n + 1) = S(n) + f[n + 1]
  BY <1>1, SumToNext
<1>2. \A n \in Nat : (\A i \in 1 .. (n + 1) : f[i] \in Int) => S(n + 1) = S(n) + f[n + 1]
  BY <1>1
<1> HIDE DEF S
<1>3. (\A i \in 1 .. 1 : f[i] \in Int) => S(1) = f[1]
  <2>1. 0 + 1 = 1 OBVIOUS
  <2>2. (\A i \in 1 .. 1 : f[i] \in Int) => S(1) = S(0) + f[1] BY <1>2, <2>1
  <2> QED BY <1>0, <2>2
<1>4. (\A i \in 1 .. 2 : f[i] \in Int) => S(2) = f[1] + f[2]
  <2>1. 1 + 1 = 2 OBVIOUS
  <2>2. (\A i \in 1 .. 2 : f[i] \in Int) => S(2) = S(1) + f[2] BY <1>2, <2>1
  <2> QED BY <1>3, <2>2
<1>5. (\A i \in 1 .. 3 : f[i] \in Int) => S(3) = f[1] + f[2] + f[3]
  <2>1. 2 + 1 = 3 OBVIOUS
  <2>2. (\A i \in 1 .. 3 : f[i] \in Int) => S(3) = S(2) + f[3] BY <1>2, <2>1
  <2> QED BY <1>4, <2>2
<1>6. (\A i \in 1 .. 4 : f[i] \in Int) => S(4) = f[1] + f[2] + f[3] + f[4]
  <2>1. 3 + 1 = 4 OBVIOUS
  <2>2. (\A i \in 1 .. 4 : f[i] \in Int) => S(4) = S(3) + f[4] BY <1>2, <2>1
  <2> QED BY <1>5, <2>2
<1>7. (\A i \in 1 .. 5 : f[i] \in Int) => S(5) = f[1] + f[2] + f[3] + f[4] + f[5]
  <2>1. 4 + 1 = 5 OBVIOUS
  <2>2. (\A i \in 1 .. 5 : f[i] \in Int) => S(5) = S(4) + f[5] BY <1>2, <2>1
  <2> QED BY <1>6, <2>2
<1>8. (\A i \in 1 .. 6 : f[i] \in Int) => S(6) = f[1] + f[2] + f[3] + f[4] + f[5] + f[6]
  <2>1. 5 + 1 = 6 OBVIOUS
  <2>2. (\A i \in 1 .. 6 : f[i] \in Int) => S(6) = S(5) + f[6] BY <1>2, <2>1
  <2> QED BY <1>7, <2>2
<1> QED BY <1>4, <1>5, <1>6, <1>8 DEF S

\* What Math.round makes of n / d: within half of it.
LEMMA RoundedIs ==
  ASSUME NEW n \in Nat, NEW d \in Nat \ {0}
  PROVE  /\ Rounded(n, d) \in Nat
         /\ 2 * (d * Rounded(n, d)) <= 2 * n + d
         /\ 2 * n + d < 2 * (d * Rounded(n, d)) + 2 * d
<1> DEFINE a == 2 * n + d  b == 2 * d  q == a \div b
<1>1. a \in Nat /\ b \in Nat \ {0} OBVIOUS
<1> HIDE DEF a, b
<1>2. a = b * q + (a % b) /\ a % b \in 0 .. (b - 1) /\ q \in Int BY <1>1
<1> HIDE DEF q
<1>3. ASSUME q < 0 PROVE FALSE
  <2>1. b * q <= -b BY <1>1, <1>2, <1>3
  <2> QED BY <1>1, <1>2, <2>1
<1>4. q \in Nat BY <1>2, <1>3
<1>5. b * q <= a /\ a < b * q + b
  <2>1. b * q \in Int BY <1>1, <1>4
  <2> QED BY <1>1, <1>2, <2>1
<1>6. b * q = 2 * (d * q) BY <1>4 DEF b
<1>7. Rounded(n, d) = q BY DEF Rounded, a, b, q
<1> QED BY <1>4, <1>5, <1>6, <1>7 DEF a, b

\* Lines with an amount on one side each.
OneSided(lines) ==
  /\ lines \in Seq(LineRow)
  /\ \A i \in DOMAIN lines : lines[i].debit = 0 \/ lines[i].credit = 0

\* What adds up.
LEMMA SidesAre ==
  ASSUME NEW ls, OneSided(ls)
  PROVE  /\ DOMAIN ls = 1 .. Len(ls) /\ Len(ls) \in Nat /\ IsFiniteSet(DOMAIN ls)
         /\ Debits(ls) = SumFunctionOnSet([i \in DOMAIN ls |-> ls[i].debit], DOMAIN ls)
         /\ Credits(ls) = SumFunctionOnSet([i \in DOMAIN ls |-> ls[i].credit], DOMAIN ls)
         /\ \A i \in DOMAIN ls : ls[i].debit \in Nat /\ ls[i].credit \in Nat
         /\ Debits(ls) \in Nat /\ Credits(ls) \in Nat
<1>1. DOMAIN ls = 1 .. Len(ls) /\ Len(ls) \in Nat BY DEF OneSided
<1>2. IsFiniteSet(DOMAIN ls) BY <1>1, FS_Interval
<1>3. \A i \in DOMAIN ls : ls[i].debit \in Nat /\ ls[i].credit \in Nat 
  <2>1. ASSUME NEW i \in DOMAIN ls PROVE ls[i] \in LineRow BY <1>1 DEF OneSided
  <2> QED BY <2>1 DEF LineRow
<1> DEFINE f == [i \in DOMAIN ls |-> ls[i].debit]  g == [i \in DOMAIN ls |-> ls[i].credit]
<1>4. SumFunctionOnSet(f, DOMAIN ls) \in Nat /\ SumFunctionOnSet(g, DOMAIN ls) \in Nat
  <2>1. \A i \in DOMAIN ls : f[i] \in Nat /\ g[i] \in Nat BY <1>3
  <2> HIDE DEF f, g
  <2> QED BY <1>2, <2>1, SumNatural
<1>5. DOMAIN f = DOMAIN ls /\ DOMAIN g = DOMAIN ls OBVIOUS
<1>6. Debits(ls) = SumFunctionOnSet(f, DOMAIN ls) /\ Credits(ls) = SumFunctionOnSet(g, DOMAIN ls)
  BY <1>5 DEF Debits, Credits, SumFunction
<1> QED BY <1>1, <1>2, <1>3, <1>4, <1>6

\* Rounding the entry's lines to the cent leaves its sides apart by no more than
\* a cent for each line that is kept, and empties neither side of one alone.
LEMMA RoundingIsSmall ==
  ASSUME NEW S, IsFiniteSet(S), NEW u \in Nat \ {0}, NEW r \in Nat,
         NEW f, NEW g, NEW fc, NEW gc, NEW K \in SUBSET S,
         SumFunctionOnSet(f, S) = SumFunctionOnSet(g, S),
         \A i \in S : /\ f[i] \in Nat /\ g[i] \in Nat /\ fc[i] \in Nat /\ gc[i] \in Nat
                      /\ i \in K =>
                           /\ 2 * (u * fc[i]) + 2 * (r * g[i]) <= 2 * (u * gc[i]) + 2 * (r * f[i]) + u
                           /\ 2 * (u * gc[i]) + 2 * (r * f[i]) <= 2 * (u * fc[i]) + 2 * (r * g[i]) + u
                      /\ i \notin K => f[i] = 0 /\ g[i] = 0 /\ fc[i] = 0 /\ gc[i] = 0,
         NEW d, d = SumFunctionOnSet(fc, S), NEW c, c = SumFunctionOnSet(gc, S)
  PROVE  d \in Nat /\ c \in Nat /\ d - c <= Cardinality(K) /\ c - d <= Cardinality(K)
<1> DEFINE F == SumFunctionOnSet(f, S)
           a == [i \in S |-> (2 * u) * fc[i]]  b == [i \in S |-> (2 * r) * g[i]]
           v == [i \in S |-> (2 * u) * gc[i]]  w == [i \in S |-> (2 * r) * f[i]]
           m == [i \in S |-> IF i \in K THEN u ELSE 0]
           ab == [i \in S |-> a[i] + b[i]]  vw == [i \in S |-> v[i] + w[i]]
           abm == [i \in S |-> ab[i] + m[i]]  vwm == [i \in S |-> vw[i] + m[i]]
<1>1. F \in Nat /\ d \in Nat /\ c \in Nat BY SumNatural
<1>2. IsFiniteSet(K) BY FS_Subset
<1>3. Cardinality(K) \in Nat BY <1>2, FS_CardinalityType
<1>4. 2 * u \in Int /\ 2 * r \in Int OBVIOUS
<1>5. \A i \in S : /\ a[i] \in Int /\ b[i] \in Int /\ v[i] \in Int /\ w[i] \in Int /\ m[i] \in Int
                   /\ a[i] = (2 * u) * fc[i] /\ b[i] = (2 * r) * g[i]
                   /\ v[i] = (2 * u) * gc[i] /\ w[i] = (2 * r) * f[i]
  <2> SUFFICES ASSUME NEW i \in S
               PROVE  /\ a[i] \in Int /\ b[i] \in Int /\ v[i] \in Int /\ w[i] \in Int /\ m[i] \in Int
                      /\ a[i] = (2 * u) * fc[i] /\ b[i] = (2 * r) * g[i]
                      /\ v[i] = (2 * u) * gc[i] /\ w[i] = (2 * r) * f[i]
    OBVIOUS
  <2>1. /\ a[i] = (2 * u) * fc[i] /\ b[i] = (2 * r) * g[i]
        /\ v[i] = (2 * u) * gc[i] /\ w[i] = (2 * r) * f[i]
    OBVIOUS
  <2>2. \A x \in Int, y \in Nat : x * y \in Int OBVIOUS
  <2>3. a[i] \in Int /\ b[i] \in Int /\ v[i] \in Int /\ w[i] \in Int
    <3> HIDE DEF a, b, v, w
    <3> QED BY <1>4, <2>1, <2>2
  <2> QED BY <2>1, <2>3
<1>6. \A i \in S : /\ i \in K => m[i] = u
                   /\ i \notin K => m[i] = 0
  OBVIOUS
<1>7. \A i \in S : /\ ab[i] = a[i] + b[i] /\ vw[i] = v[i] + w[i]
                   /\ abm[i] = ab[i] + m[i] /\ vwm[i] = vw[i] + m[i]
  OBVIOUS
<1> HIDE DEF F, a, b, v, w, m, ab, vw, abm, vwm
<1>8. \A i \in S : ab[i] \in Int /\ vw[i] \in Int /\ abm[i] \in Int /\ vwm[i] \in Int
  BY <1>5, <1>7
<1>9. \A i \in S : ab[i] <= vwm[i] /\ vw[i] <= abm[i]
  <2> SUFFICES ASSUME NEW i \in S PROVE ab[i] <= vwm[i] /\ vw[i] <= abm[i] OBVIOUS
  <2>1. /\ u * fc[i] \in Int /\ u * gc[i] \in Int /\ r * f[i] \in Int /\ r * g[i] \in Int
    <3>1. \A x \in Nat, y \in Nat : x * y \in Int OBVIOUS
    <3> QED BY <3>1
  <2>2. /\ a[i] = 2 * (u * fc[i]) /\ b[i] = 2 * (r * g[i])
        /\ v[i] = 2 * (u * gc[i]) /\ w[i] = 2 * (r * f[i])
    <3>1. \A x \in Nat, y \in Nat : (2 * x) * y = 2 * (x * y) OBVIOUS
    <3> QED BY <1>5, <3>1
  <2>3. CASE i \in K
    <3>1. /\ 2 * (u * fc[i]) + 2 * (r * g[i]) <= 2 * (u * gc[i]) + 2 * (r * f[i]) + u
          /\ 2 * (u * gc[i]) + 2 * (r * f[i]) <= 2 * (u * fc[i]) + 2 * (r * g[i]) + u
      BY <2>3
    <3>2. m[i] = u BY <1>6, <2>3
    <3> QED BY <1>5, <1>7, <2>1, <2>2, <3>1, <3>2
  <2>4. CASE i \notin K
    <3>1. f[i] = 0 /\ g[i] = 0 /\ fc[i] = 0 /\ gc[i] = 0 BY <2>4
    <3>2. u * 0 = 0 /\ r * 0 = 0 OBVIOUS
    <3>3. m[i] = 0 BY <1>6, <2>4
    <3> QED BY <1>5, <1>7, <2>2, <3>1, <3>2, <3>3
  <2> QED BY <2>3, <2>4
<1>10. /\ SumFunctionOnSet(ab, S) <= SumFunctionOnSet(vwm, S)
       /\ SumFunctionOnSet(vw, S) <= SumFunctionOnSet(abm, S)
  BY <1>8, <1>9, SumMonotone
<1> DEFINE M == SumFunctionOnSet(m, S)
<1>11. /\ SumFunctionOnSet(ab, S) = SumFunctionOnSet(a, S) + SumFunctionOnSet(b, S)
       /\ SumFunctionOnSet(vw, S) = SumFunctionOnSet(v, S) + SumFunctionOnSet(w, S)
       /\ SumFunctionOnSet(abm, S) = SumFunctionOnSet(ab, S) + M
       /\ SumFunctionOnSet(vwm, S) = SumFunctionOnSet(vw, S) + M
  BY <1>5, <1>7, <1>8, SumAdds
<1>12. /\ SumFunctionOnSet(a, S) = (2 * u) * d /\ SumFunctionOnSet(v, S) = (2 * u) * c
       /\ SumFunctionOnSet(b, S) = (2 * r) * F /\ SumFunctionOnSet(w, S) = (2 * r) * F
  <2>1. \A i \in S : f[i] \in Int /\ g[i] \in Int /\ fc[i] \in Int /\ gc[i] \in Int OBVIOUS
  <2>2. SumFunctionOnSet(a, S) = (2 * u) * SumFunctionOnSet(fc, S) BY <1>4, <1>5, <2>1, SumScaled
  <2>3. SumFunctionOnSet(v, S) = (2 * u) * SumFunctionOnSet(gc, S) BY <1>4, <1>5, <2>1, SumScaled
  <2>4. SumFunctionOnSet(b, S) = (2 * r) * SumFunctionOnSet(g, S) BY <1>4, <1>5, <2>1, SumScaled
  <2>5. SumFunctionOnSet(w, S) = (2 * r) * SumFunctionOnSet(f, S) BY <1>4, <1>5, <2>1, SumScaled
  <2> QED BY <2>2, <2>3, <2>4, <2>5 DEF F
<1>13. M = Cardinality(K) * u
  <2> DEFINE one == [i \in K |-> u]
  <2>1. \A i \in K : one[i] = u /\ one[i] \in Int /\ m[i] = one[i] BY <1>6
  <2>2. \A i \in S \ K : m[i] = 0 BY <1>6
  <2> HIDE DEF one
  <2>0. \A i \in K : one[i] \in Int /\ m[i] = one[i] BY <2>1
  <2>3. SumFunctionOnSet(one, K) = SumFunctionOnSet(m, S)
    <3> HIDE DEF M
    <3>1. IsFiniteSet(S) /\ K \in SUBSET S OBVIOUS
    <3> QED BY ONLY <2>0, <2>2, <3>1, SumRestrict
  <2>4. SumFunctionOnSet(one, K) = Cardinality(K) * u BY <1>2, <2>1, SumOfSame
  <2> QED BY <2>3, <2>4
<1> HIDE DEF M
<1>14. \A x, y, z, t \in Int : x + y <= (z + y) + t => x <= z + t OBVIOUS
<1>15. /\ (2 * u) * d <= (2 * u) * c + M
       /\ (2 * u) * c <= (2 * u) * d + M
  <2>1. (2 * u) * d \in Int /\ (2 * u) * c \in Int /\ (2 * r) * F \in Int /\ M \in Int
    <3>1. \A x \in Int, y \in Nat : x * y \in Int OBVIOUS
    <3>2. \A x \in Nat, y \in Nat : x * y \in Int OBVIOUS
    <3>3. M \in Int BY <1>3, <1>13, <3>2
    <3> QED BY <1>1, <1>4, <3>1, <3>3
  <2> QED BY <1>10, <1>11, <1>12, <1>14, <2>1
<1>16. ASSUME NEW x \in Nat, NEW y \in Nat, NEW k \in Nat, (2 * u) * x <= (2 * u) * y + k * u
       PROVE  x - y <= k
  <2>1. ASSUME x - y > k PROVE FALSE
    <3>1. PICK e \in Nat : x = y + k + 1 + e
      <4>1. x - y - k - 1 \in Nat /\ x = y + k + 1 + (x - y - k - 1) BY <2>1
      <4> QED BY <4>1
    <3>2. (2 * u) * x = (2 * u) * y + 2 * (k * u) + 2 * u + 2 * (u * e) BY <3>1
    <3>3. u * e >= 0 /\ k * u >= 0 /\ u * e \in Int /\ k * u \in Int /\ (2 * u) * y \in Int
      <4>1. \A p \in Nat, q \in Nat : p * q \in Nat OBVIOUS
      <4> QED BY <4>1
    <3> QED BY <1>16, <3>2, <3>3
  <2> QED BY <2>1
<1> QED BY <1>1, <1>3, <1>13, <1>15, <1>16

\* A line in bolivares.
LEMMA ConvertedAre ==
  ASSUME NEW ls, OneSided(ls), NEW foreign \in BOOLEAN
  PROVE  LET cs == Converted(ls, foreign) IN
         /\ OneSided(cs) /\ DOMAIN cs = DOMAIN ls
         /\ \A i \in DOMAIN ls :
              /\ foreign => /\ cs[i].debit = Rounded(ls[i].debit * Rate, Unit)
                            /\ cs[i].credit = Rounded(ls[i].credit * Rate, Unit)
              /\ ~foreign => cs[i].debit = ls[i].debit /\ cs[i].credit = ls[i].credit
<1> DEFINE cs == Converted(ls, foreign)
           Of(n) == IF foreign THEN Rounded(n * Rate, Unit) ELSE n
<1>1. DOMAIN ls = 1 .. Len(ls) /\ Len(ls) \in Nat BY SidesAre
<1>2. cs = [i \in DOMAIN ls |-> [ls[i] EXCEPT !.debit = Of(ls[i].debit),
                                              !.credit = Of(ls[i].credit)]]
  BY DEF Converted
<1>3. \A n \in Nat : Of(n) \in Nat /\ Of(0) = 0
  <2> SUFFICES ASSUME NEW n \in Nat PROVE Of(n) \in Nat /\ Of(0) = 0 OBVIOUS
  <2>1. n * Rate \in Nat /\ 0 * Rate = 0 /\ Unit \in Nat \ {0}
    <3>1. Rate \in Nat BY EntryConstants
    <3>2. \A x, y \in Nat : x * y \in Nat /\ 0 * y = 0 OBVIOUS
    <3> QED BY EntryConstants, <3>1, <3>2
  <2>2. Rounded(n * Rate, Unit) \in Nat /\ Rounded(0, Unit) \in Nat BY <2>1, RoundedIs
  <2>3. 2 * (Unit * Rounded(0, Unit)) <= 2 * 0 + Unit BY <2>1, RoundedIs
  <2>4. Rounded(0, Unit) = 0
    <3> DEFINE q == Rounded(0, Unit)
    <3> HIDE DEF q
    <3>1. ASSUME q > 0 PROVE FALSE
      <4>1. PICK e \in Nat : q = 1 + e
        <5>1. q - 1 \in Nat /\ q = 1 + (q - 1) BY <2>2, <3>1 DEF q
        <5> QED BY <5>1
      <4>2. Unit * q = Unit + Unit * e BY <2>1, <4>1
      <4>3. Unit * e \in Nat
        <5>1. \A x, y \in Nat : x * y \in Nat OBVIOUS
        <5> QED BY <2>1, <5>1
      <4> QED BY <2>1, <2>3, <4>2, <4>3 DEF q
    <3> QED BY <2>2, <3>1 DEF q
  <2> QED BY <2>1, <2>2, <2>4
<1> HIDE DEF cs, Of
<1>4. ASSUME NEW i \in DOMAIN ls
      PROVE  /\ cs[i] \in LineRow
             /\ cs[i].debit = Of(ls[i].debit) /\ cs[i].credit = Of(ls[i].credit)
             /\ cs[i].debit = 0 \/ cs[i].credit = 0
  <2>1. ls[i] \in LineRow BY <1>1 DEF OneSided
  <2>2. cs[i] = [ls[i] EXCEPT !.debit = Of(ls[i].debit), !.credit = Of(ls[i].credit)] BY <1>2
  <2>3. Of(ls[i].debit) \in Nat /\ Of(ls[i].credit) \in Nat BY <1>3, <2>1 DEF LineRow
  <2>4. cs[i] \in LineRow /\ cs[i].debit = Of(ls[i].debit) /\ cs[i].credit = Of(ls[i].credit)
    BY <2>1, <2>2, <2>3 DEF LineRow
  <2>5. ls[i].debit = 0 \/ ls[i].credit = 0 BY DEF OneSided
  <2>6. Of(0) = 0 BY <1>3
  <2> QED BY <2>4, <2>5, <2>6
<1>5. DOMAIN cs = DOMAIN ls BY <1>2
<1>6. cs \in Seq(LineRow)
  <2>1. cs \in [1 .. Len(ls) -> LineRow]
    <3>1. \A i \in 1 .. Len(ls) : cs[i] \in LineRow BY <1>1, <1>4
    <3>2. cs = [i \in 1 .. Len(ls) |-> cs[i]] BY <1>1, <1>2
    <3> QED BY <3>1, <3>2
  <2> QED BY <1>1, <2>1
<1>7. OneSided(cs) BY <1>4, <1>5, <1>6 DEF OneSided
<1> QED BY <1>4, <1>5, <1>7 DEF cs, Of

\* Among amounts there is a first one of the largest.
LEMMA FirstLargest ==
  ASSUME NEW ls, OneSided(ls), DOMAIN ls # {}, NEW f, \A i \in DOMAIN ls : f[i] \in Nat
  PROVE  \E i \in DOMAIN ls : \A k \in DOMAIN ls : f[k] < f[i] \/ (f[k] = f[i] /\ i <= k)
<1> DEFINE S == DOMAIN ls  V == {f[i] : i \in S}
<1>1. IsFiniteSet(S) /\ S \subseteq Int
  <2>1. IsFiniteSet(S) /\ S = 1 .. Len(ls) /\ Len(ls) \in Nat BY SidesAre
  <2> QED BY <2>1
<1>2. IsFiniteSet(V)
  <2> DEFINE h == [i \in S |-> f[i]]
  <2>1. h \in [S -> V] /\ \A v \in V : \E i \in S : h[i] = v OBVIOUS
  <2>2. h \in Surjection(S, V) BY <2>1 DEF Surjection
  <2> HIDE DEF h, V, S
  <2> QED BY <1>1, <2>2, FS_Surjection
<1>3. V \subseteq Int /\ V # {} OBVIOUS
<1>4. PICK v \in V : \A w \in V : v >= w
  <2> HIDE DEF V, S
  <2> QED BY <1>2, <1>3, HasExtremes
<1> DEFINE L == {i \in S : f[i] = v}
<1>5. IsFiniteSet(L) /\ L \subseteq Int BY <1>1, FS_Subset
<1>6. L # {} BY <1>4
<1>7. PICK i \in L : \A k \in L : i <= k
  <2> HIDE DEF L
  <2> QED BY <1>5, <1>6, HasExtremes
<1>8. ASSUME NEW k \in S PROVE f[k] < f[i] \/ (f[k] = f[i] /\ i <= k)
  <2>1. f[i] = v /\ i \in S BY <1>7
  <2>2. f[k] <= v BY <1>4
  <2>3. f[k] \in Nat /\ f[i] \in Nat BY <1>8, <2>1
  <2>4. f[k] = v => i <= k BY <1>7, <1>8
  <2> QED BY <2>1, <2>2, <2>3, <2>4
<1> QED BY <1>7, <1>8

\* The line that takes the difference is one of the lines.
LEMMA LargestAre ==
  ASSUME NEW ls, OneSided(ls), DOMAIN ls # {}
  PROVE  LargestDebit(ls) \in DOMAIN ls /\ LargestCredit(ls) \in DOMAIN ls
<1> DEFINE f == [i \in DOMAIN ls |-> ls[i].debit]  g == [i \in DOMAIN ls |-> ls[i].credit]
<1>1. \A i \in DOMAIN ls : f[i] \in Nat /\ g[i] \in Nat /\ f[i] = ls[i].debit /\ g[i] = ls[i].credit
  BY SidesAre
<1> HIDE DEF f, g
<1>2. \E i \in DOMAIN ls : \A k \in DOMAIN ls : f[k] < f[i] \/ (f[k] = f[i] /\ i <= k)
  BY <1>1, FirstLargest
<1>3. \E i \in DOMAIN ls : \A k \in DOMAIN ls : g[k] < g[i] \/ (g[k] = g[i] /\ i <= k)
  BY <1>1, FirstLargest
<1>4. \E i \in DOMAIN ls : \A k \in DOMAIN ls :
        \/ ls[k].debit < ls[i].debit
        \/ ls[k].debit = ls[i].debit /\ i <= k
  BY <1>1, <1>2
<1>5. \E i \in DOMAIN ls : \A k \in DOMAIN ls :
        \/ ls[k].credit < ls[i].credit
        \/ ls[k].credit = ls[i].credit /\ i <= k
  BY <1>1, <1>3
<1> QED BY <1>4, <1>5 DEF LargestDebit, LargestCredit

\* What is put back makes up the difference.
LEMMA CorrectedBalances ==
  ASSUME NEW ls, OneSided(ls),
         Debits(ls) = Credits(ls)
           \/ /\ Debits(ls) > 0 /\ Credits(ls) > 0
              /\ Debits(ls) - Credits(ls) <= Cardinality(Filled(ls))
              /\ Credits(ls) - Debits(ls) <= Cardinality(Filled(ls))
  PROVE  Balanced(Corrected(ls))
<1> DEFINE S == DOMAIN ls  d == Debits(ls)  c == Credits(ls)
           f == [i \in S |-> ls[i].debit]  g == [i \in S |-> ls[i].credit]
<1>1. /\ IsFiniteSet(S) /\ d = SumFunctionOnSet(f, S) /\ c = SumFunctionOnSet(g, S)
      /\ d \in Nat /\ c \in Nat
      /\ \A i \in S : ls[i].debit \in Nat /\ ls[i].credit \in Nat
  BY SidesAre
<1>2. CASE d = c BY <1>2 DEF Corrected, Balanced
<1>3. CASE d # c
  <2>1. /\ d > 0 /\ c > 0
        /\ d - c <= Cardinality(Filled(ls)) /\ c - d <= Cardinality(Filled(ls))
    BY <1>3
  <2>2. ~(Distance(d, c) > Cardinality(Filled(ls)))
    <3>1. Filled(ls) \in SUBSET S BY DEF Filled
    <3>2. Cardinality(Filled(ls)) \in Nat BY <1>1, <3>1, FS_Subset, FS_CardinalityType
    <3> QED BY <1>1, <2>1, <3>2 DEF Distance
  <2>3. S # {}
    <3>1. ASSUME S = {} PROVE FALSE
      <4>1. SumFunctionOnSet(f, {}) = 0 BY SumOfNone
      <4> QED BY <1>1, <2>1, <3>1, <4>1
    <3> QED BY <3>1
  <2>4. CASE d > c
    <3> DEFINE i == LargestCredit(ls)  ns == [ls EXCEPT ![i].credit = ls[i].credit + (d - c)]
               nf == [k \in S |-> ns[k].debit]  ng == [k \in S |-> ns[k].credit]
    <3>1. Corrected(ls) = ns BY <1>3, <2>1, <2>2, <2>4, <1>1 DEF Corrected
    <3>2. i \in S BY <1>1, <2>3, LargestAre
    <3>3. DOMAIN ns = S OBVIOUS
    <3>4. \A k \in S \ {i} : ns[k] = ls[k] OBVIOUS
    <3>5. ls[i] \in LineRow
      <4>1. \A k \in DOMAIN ls : ls[k] \in LineRow BY SidesAre DEF OneSided
      <4> QED BY <3>2, <4>1
    <3>6. ns[i] = [ls[i] EXCEPT !.credit = ls[i].credit + (d - c)] BY <3>2
    <3>7. ns[i].debit = ls[i].debit /\ ns[i].credit = ls[i].credit + (d - c)
      BY <3>5, <3>6 DEF LineRow
    <3> HIDE DEF i, ns
    <3>8. \A k \in S : f[k] = ls[k].debit /\ g[k] = ls[k].credit
                       /\ nf[k] = ns[k].debit /\ ng[k] = ns[k].credit
      OBVIOUS
    <3>9. /\ Debits(ns) = SumFunctionOnSet(nf, S) /\ Credits(ns) = SumFunctionOnSet(ng, S)
      <4>1. DOMAIN nf = S /\ DOMAIN ng = S OBVIOUS
      <4> QED BY <3>3, <4>1 DEF Debits, Credits, SumFunction
    <3> HIDE DEF f, g, nf, ng
    <3>10. \A k \in S : f[k] \in Int /\ g[k] \in Int /\ nf[k] = f[k] BY <1>1, <3>4, <3>7, <3>8
    <3>11. \A k \in S \ {i} : ng[k] = g[k] BY <3>4, <3>8
    <3>12. ng[i] = g[i] + (d - c) /\ g[i] \in Int BY <1>1, <3>2, <3>7, <3>8
    <3>13. \A k \in S : ng[k] \in Int BY <1>1, <3>10, <3>11, <3>12
    <3>14. SumFunctionOnSet(nf, S) = SumFunctionOnSet(f, S)
      <4>1. \A k \in S : f[k] \in Int /\ f[k] = nf[k] BY <3>10
      <4> QED BY <1>1, <4>1, SumSame
    <3>15. SumFunctionOnSet(ng, S) = SumFunctionOnSet(g, S) + (ng[i] - g[i])
      <4>1. \A k \in S : g[k] \in Int /\ ng[k] \in Int BY <3>10, <3>13
      <4> QED BY ONLY <1>1, <3>2, <3>11, <4>1, SumChanges
    <3>16. Debits(ns) = d BY <1>1, <3>9, <3>14
    <3>17. Credits(ns) = d BY <1>1, <3>9, <3>12, <3>15
    <3> QED BY <3>1, <3>16, <3>17 DEF Balanced
  <2>5. CASE ~(d > c)
    <3> DEFINE i == LargestDebit(ls)  ns == [ls EXCEPT ![i].debit = ls[i].debit + (c - d)]
               nf == [k \in S |-> ns[k].debit]  ng == [k \in S |-> ns[k].credit]
    <3>1. Corrected(ls) = ns BY <1>3, <2>1, <2>2, <2>5, <1>1 DEF Corrected
    <3>2. i \in S BY <1>1, <2>3, LargestAre
    <3>3. DOMAIN ns = S OBVIOUS
    <3>4. \A k \in S \ {i} : ns[k] = ls[k] OBVIOUS
    <3>5. ls[i] \in LineRow
      <4>1. \A k \in DOMAIN ls : ls[k] \in LineRow BY SidesAre DEF OneSided
      <4> QED BY <3>2, <4>1
    <3>6. ns[i] = [ls[i] EXCEPT !.debit = ls[i].debit + (c - d)] BY <3>2
    <3>7. ns[i].credit = ls[i].credit /\ ns[i].debit = ls[i].debit + (c - d)
      BY <3>5, <3>6 DEF LineRow
    <3> HIDE DEF i, ns
    <3>8. \A k \in S : f[k] = ls[k].debit /\ g[k] = ls[k].credit
                       /\ nf[k] = ns[k].debit /\ ng[k] = ns[k].credit
      OBVIOUS
    <3>9. /\ Debits(ns) = SumFunctionOnSet(nf, S) /\ Credits(ns) = SumFunctionOnSet(ng, S)
      <4>1. DOMAIN nf = S /\ DOMAIN ng = S OBVIOUS
      <4> QED BY <3>3, <4>1 DEF Debits, Credits, SumFunction
    <3> HIDE DEF f, g, nf, ng
    <3>10. \A k \in S : f[k] \in Int /\ g[k] \in Int /\ ng[k] = g[k] BY <1>1, <3>4, <3>7, <3>8
    <3>11. \A k \in S \ {i} : nf[k] = f[k] BY <3>4, <3>8
    <3>12. nf[i] = f[i] + (c - d) /\ f[i] \in Int BY <1>1, <3>2, <3>7, <3>8
    <3>13. \A k \in S : nf[k] \in Int BY <1>1, <3>10, <3>11, <3>12
    <3>14. SumFunctionOnSet(ng, S) = SumFunctionOnSet(g, S)
      <4>1. \A k \in S : g[k] \in Int /\ g[k] = ng[k] BY <3>10
      <4> QED BY <1>1, <4>1, SumSame
    <3>15. SumFunctionOnSet(nf, S) = SumFunctionOnSet(f, S) + (nf[i] - f[i])
      <4>1. \A k \in S : f[k] \in Int /\ nf[k] \in Int BY <3>10, <3>13
      <4> QED BY ONLY <1>1, <3>2, <3>11, <4>1, SumChanges
    <3>16. Debits(ns) = c BY <1>1, <3>9, <3>12, <3>15
    <3>17. Credits(ns) = c BY <1>1, <3>9, <3>14
    <3> QED BY <3>1, <3>16, <3>17 DEF Balanced
  <2> QED BY <2>4, <2>5
<1> QED BY <1>2, <1>3

\* Lines that balance are entered as lines that balance, in bolivares too, when
\* a cent of a dollar is half a cent of a bolivar or more.
LEMMA BalancedLines ==
  ASSUME NEW ls, OneSided(ls), Debits(ls) = Credits(ls), NEW foreign \in BOOLEAN,
         2 * Rate >= Unit
  PROVE  Balanced(Corrected(Converted(ls, foreign)))
<1> DEFINE cs == Converted(ls, foreign)  S == DOMAIN ls  K == Filled(cs)
           f == [i \in S |-> ls[i].debit]  g == [i \in S |-> ls[i].credit]
           fc == [i \in S |-> cs[i].debit]  gc == [i \in S |-> cs[i].credit]
<1>1. /\ OneSided(cs) /\ DOMAIN cs = S
      /\ \A i \in S :
           /\ foreign => /\ cs[i].debit = Rounded(ls[i].debit * Rate, Unit)
                         /\ cs[i].credit = Rounded(ls[i].credit * Rate, Unit)
           /\ ~foreign => cs[i].debit = ls[i].debit /\ cs[i].credit = ls[i].credit
  BY ConvertedAre
<1>2. /\ IsFiniteSet(S)
      /\ Debits(ls) = SumFunctionOnSet(f, S) /\ Credits(ls) = SumFunctionOnSet(g, S)
      /\ \A i \in S : ls[i].debit \in Nat /\ ls[i].credit \in Nat
  BY SidesAre
<1>3. K = {i \in S : cs[i].debit > 0 \/ cs[i].credit > 0} BY <1>1 DEF Filled
<1> HIDE DEF cs, K
<1>4. /\ Debits(cs) = SumFunctionOnSet(fc, S) /\ Credits(cs) = SumFunctionOnSet(gc, S)
      /\ \A i \in S : cs[i].debit \in Nat /\ cs[i].credit \in Nat
      /\ Debits(cs) \in Nat /\ Credits(cs) \in Nat
  BY <1>1, SidesAre
<1>5. \A i \in S : /\ f[i] = ls[i].debit /\ g[i] = ls[i].credit
                   /\ fc[i] = cs[i].debit /\ gc[i] = cs[i].credit
  OBVIOUS
<1> HIDE DEF f, g, fc, gc
<1>6. \A i \in S : f[i] \in Nat /\ g[i] \in Nat /\ fc[i] \in Nat /\ gc[i] \in Nat
  BY <1>2, <1>4, <1>5
<1>7. CASE ~foreign
  <2>1. \A i \in S : /\ fc[i] \in Int /\ fc[i] = f[i]
                     /\ gc[i] \in Int /\ gc[i] = g[i]
    BY <1>1, <1>5, <1>6, <1>7
  <2>2. SumFunctionOnSet(fc, S) = SumFunctionOnSet(f, S) BY <1>2, <2>1, SumSame
  <2>3. SumFunctionOnSet(gc, S) = SumFunctionOnSet(g, S) BY <1>2, <2>1, SumSame
  <2>4. Debits(cs) = Credits(cs) BY <1>2, <1>4, <2>2, <2>3
  <2> QED BY <1>1, <2>4, CorrectedBalances DEF cs
<1>8. CASE foreign
  <2>0. Rate \in Nat /\ Unit \in Nat \ {0} BY EntryConstants
  <2>1. ASSUME NEW a \in Nat, NEW q, q = Rounded(a * Rate, Unit)
        PROVE  /\ q \in Nat /\ Unit * q \in Nat /\ Rate * a \in Nat
               /\ 2 * (Unit * q) <= 2 * (Rate * a) + Unit
               /\ 2 * (Rate * a) + Unit < 2 * (Unit * q) + 2 * Unit
               /\ q = 0 <=> a = 0
    <3>1. \A x, y \in Nat : x * y \in Nat /\ x * y = y * x OBVIOUS
    <3>2. a * Rate \in Nat /\ a * Rate = Rate * a BY <2>0, <3>1
    <3>3. /\ q \in Nat /\ 2 * (Unit * q) <= 2 * (a * Rate) + Unit
          /\ 2 * (a * Rate) + Unit < 2 * (Unit * q) + 2 * Unit
      BY <2>0, <2>1, <3>2, RoundedIs
    <3>4. Unit * q \in Nat BY <2>0, <3>1, <3>3
    <3>5. q = 0 => a = 0
      <4>1. ASSUME q = 0, a > 0 PROVE FALSE
        <5>1. Unit * q = 0 BY <2>0, <4>1
        <5>2. 2 * (a * Rate) < Unit BY <2>0, <3>2, <3>3, <5>1
        <5>3. PICK e \in Nat : a = 1 + e
          <6>1. a - 1 \in Nat /\ a = 1 + (a - 1) BY <4>1
          <6> QED BY <6>1
        <5>4. a * Rate = Rate + e * Rate BY <2>0, <5>3
        <5>5. e * Rate \in Nat BY <2>0, <3>1
        <5> QED BY <2>0, <5>2, <5>4, <5>5
      <4> QED BY <4>1
    <3>6. a = 0 => q = 0
      <4>1. ASSUME a = 0, q > 0 PROVE FALSE
        <5>1. a * Rate = 0 BY <2>0, <4>1
        <5>2. PICK e \in Nat : q = 1 + e
          <6>1. q - 1 \in Nat /\ q = 1 + (q - 1) BY <3>3, <4>1
          <6> QED BY <6>1
        <5>3. Unit * q = Unit + Unit * e BY <2>0, <5>2
        <5>4. Unit * e \in Nat BY <2>0, <3>1
        <5> QED BY <2>0, <3>3, <5>1, <5>3, <5>4
      <4> QED BY <3>3, <4>1
    <3> QED BY <3>2, <3>3, <3>4, <3>5, <3>6
  <2>2. \A i \in S : /\ fc[i] = Rounded(f[i] * Rate, Unit)
                     /\ gc[i] = Rounded(g[i] * Rate, Unit)
    BY <1>1, <1>5, <1>8
  <2>3. \A i \in S : (fc[i] = 0 <=> f[i] = 0) /\ (gc[i] = 0 <=> g[i] = 0)
    BY <1>6, <2>1, <2>2
  <2>4. ASSUME NEW i \in S, i \in K
        PROVE  /\ 2 * (Unit * fc[i]) + 2 * (Rate * g[i])
                    <= 2 * (Unit * gc[i]) + 2 * (Rate * f[i]) + Unit
               /\ 2 * (Unit * gc[i]) + 2 * (Rate * f[i])
                    <= 2 * (Unit * fc[i]) + 2 * (Rate * g[i]) + Unit
    <3>1. /\ Unit * fc[i] \in Nat /\ Rate * f[i] \in Nat
          /\ 2 * (Unit * fc[i]) <= 2 * (Rate * f[i]) + Unit
          /\ 2 * (Rate * f[i]) + Unit < 2 * (Unit * fc[i]) + 2 * Unit
      BY <1>6, <2>1, <2>2
    <3>2. /\ Unit * gc[i] \in Nat /\ Rate * g[i] \in Nat
          /\ 2 * (Unit * gc[i]) <= 2 * (Rate * g[i]) + Unit
          /\ 2 * (Rate * g[i]) + Unit < 2 * (Unit * gc[i]) + 2 * Unit
      BY <1>6, <2>1, <2>2
    <3>3. f[i] = 0 \/ g[i] = 0 BY <1>5 DEF OneSided
    <3>4. CASE f[i] = 0
      <4>1. fc[i] = 0 BY <2>3, <3>4
      <4>2. Unit * 0 = 0 /\ Rate * 0 = 0 BY <2>0
      <4> QED BY <2>0, <3>2, <3>4, <4>1, <4>2
    <3>5. CASE g[i] = 0
      <4>1. gc[i] = 0 BY <2>3, <3>5
      <4>2. Unit * 0 = 0 /\ Rate * 0 = 0 BY <2>0
      <4> QED BY <2>0, <3>1, <3>5, <4>1, <4>2
    <3> QED BY <3>3, <3>4, <3>5
  <2>5. ASSUME NEW i \in S, i \notin K
        PROVE  f[i] = 0 /\ g[i] = 0 /\ fc[i] = 0 /\ gc[i] = 0
    <3>1. fc[i] = 0 /\ gc[i] = 0 BY <1>3, <1>5, <1>6, <2>5
    <3> QED BY <2>3, <3>1
  <2>6. K \in SUBSET S BY <1>3
  <2>7. SumFunctionOnSet(f, S) = SumFunctionOnSet(g, S) BY <1>2
  <2>8. /\ Debits(cs) - Credits(cs) <= Cardinality(K)
        /\ Credits(cs) - Debits(cs) <= Cardinality(K)
    <3> DEFINE u == Unit  r == Rate  d == Debits(cs)  c == Credits(cs)
    <3>1. u \in Nat \ {0} /\ r \in Nat /\ d = SumFunctionOnSet(fc, S) /\ c = SumFunctionOnSet(gc, S)
      BY <1>4, <2>0
    <3>2. \A i \in S : /\ f[i] \in Nat /\ g[i] \in Nat /\ fc[i] \in Nat /\ gc[i] \in Nat
                       /\ i \in K =>
                            /\ 2 * (u * fc[i]) + 2 * (r * g[i]) <= 2 * (u * gc[i]) + 2 * (r * f[i]) + u
                            /\ 2 * (u * gc[i]) + 2 * (r * f[i]) <= 2 * (u * fc[i]) + 2 * (r * g[i]) + u
                       /\ i \notin K => f[i] = 0 /\ g[i] = 0 /\ fc[i] = 0 /\ gc[i] = 0
      BY <1>6, <2>4, <2>5
    <3> HIDE DEF u, r, d, c, S
    <3>3. IsFiniteSet(S) BY <1>2 DEF S
    <3>4. d - c <= Cardinality(K) /\ c - d <= Cardinality(K)
      BY ONLY <2>6, <2>7, <3>1, <3>2, <3>3, RoundingIsSmall
    <3> QED BY <3>4 DEF d, c
  <2>9. Debits(cs) = 0 <=> Credits(cs) = 0
    <3>1. ASSUME NEW a, NEW ac, NEW b, NEW bc,
                 \A i \in S : /\ a[i] \in Nat /\ b[i] \in Nat /\ ac[i] \in Nat /\ bc[i] \in Nat
                              /\ (ac[i] = 0 <=> a[i] = 0) /\ (bc[i] = 0 <=> b[i] = 0),
                 SumFunctionOnSet(a, S) = SumFunctionOnSet(b, S),
                 SumFunctionOnSet(ac, S) = 0
          PROVE  SumFunctionOnSet(bc, S) = 0
      <4>1. \A i \in S : ac[i] = 0
        <5> SUFFICES ASSUME NEW i \in S PROVE ac[i] = 0 OBVIOUS
        <5>1. \A j \in S : ac[j] \in Nat BY <3>1
        <5>2. ac[i] <= SumFunctionOnSet(ac, S) BY <1>2, <5>1, SumCovers
        <5> QED BY <3>1, <5>1, <5>2
      <4>2. \A i \in S : a[i] = 0 BY <3>1, <4>1
      <4>3. SumFunctionOnSet(a, S) = 0 BY <1>2, <4>2, SumOfZeros
      <4>4. \A i \in S : b[i] = 0
        <5> SUFFICES ASSUME NEW i \in S PROVE b[i] = 0 OBVIOUS
        <5>1. \A j \in S : b[j] \in Nat BY <3>1
        <5>2. b[i] <= SumFunctionOnSet(b, S) BY <1>2, <5>1, SumCovers
        <5> QED BY <3>1, <4>3, <5>1, <5>2
      <4>5. \A i \in S : bc[i] = 0 BY <3>1, <4>4
      <4> QED BY <1>2, <4>5, SumOfZeros
    <3>2. \A i \in S : /\ f[i] \in Nat /\ g[i] \in Nat /\ fc[i] \in Nat /\ gc[i] \in Nat
                       /\ (fc[i] = 0 <=> f[i] = 0) /\ (gc[i] = 0 <=> g[i] = 0)
      BY <1>6, <2>3
    <3>3. SumFunctionOnSet(fc, S) = 0 => SumFunctionOnSet(gc, S) = 0
      BY <2>7, <3>1, <3>2
    <3>4. SumFunctionOnSet(gc, S) = 0 => SumFunctionOnSet(fc, S) = 0
      <4>1. \A i \in S : /\ g[i] \in Nat /\ f[i] \in Nat /\ gc[i] \in Nat /\ fc[i] \in Nat
                         /\ (gc[i] = 0 <=> g[i] = 0) /\ (fc[i] = 0 <=> f[i] = 0)
        BY <3>2
      <4> QED BY <2>7, <3>1, <4>1
    <3> QED BY <1>4, <3>3, <3>4
  <2>10. \/ Debits(cs) = Credits(cs)
         \/ Debits(cs) > 0 /\ Credits(cs) > 0
    BY <1>4, <2>9
  <2> QED BY <1>1, <2>8, <2>10, CorrectedBalances DEF cs, K
<1> QED BY <1>7, <1>8

\* A line with an amount on one side.
Line(l) == l \in LineRow /\ (l.debit = 0 \/ l.credit = 0)

\* What Debit and Credit make.
LEMMA LinesAre ==
  ASSUME NEW account \in Account, NEW n \in Nat
  PROVE  /\ Line(Debit(account, n)) /\ Debit(account, n).debit = n /\ Debit(account, n).credit = 0
         /\ Line(Credit(account, n)) /\ Credit(account, n).debit = 0 /\ Credit(account, n).credit = n
BY DEF Line, LineRow, Debit, Credit

\* The sides of two lines.
LEMMA TwoLines ==
  ASSUME NEW a, NEW b, Line(a), Line(b)
  PROVE  /\ OneSided(<<a, b>>)
         /\ Debits(<<a, b>>) = a.debit + b.debit
         /\ Credits(<<a, b>>) = a.credit + b.credit
<1> DEFINE ls == <<a, b>>
           f == [i \in DOMAIN ls |-> ls[i].debit]  g == [i \in DOMAIN ls |-> ls[i].credit]
<1>1. DOMAIN ls = 1 .. 2 /\ ls[1] = a /\ ls[2] = b OBVIOUS
<1>2. ls \in Seq(LineRow) BY DEF Line
<1> HIDE DEF ls
<1>3. /\ f[1] = a.debit /\ g[1] = a.credit
      /\ f[2] = b.debit /\ g[2] = b.credit
  BY <1>1
<1>4. DOMAIN f = 1 .. 2 /\ DOMAIN g = 1 .. 2 BY <1>1
<1>5. Debits(ls) = SumFunctionOnSet(f, 1 .. 2) /\ Credits(ls) = SumFunctionOnSet(g, 1 .. 2)
  BY <1>4 DEF Debits, Credits, SumFunction
<1>6. \A i \in 1 .. 2 : i = 1 \/ i = 2 OBVIOUS
<1>7. /\ a.debit \in Nat /\ a.credit \in Nat
      /\ b.debit \in Nat /\ b.credit \in Nat
  BY DEF Line, LineRow
<1> HIDE DEF f, g
<1>8. \A i \in 1 .. 2 : f[i] \in Int /\ g[i] \in Int BY <1>3, <1>6, <1>7
<1>9. OneSided(ls) BY <1>1, <1>2, <1>6 DEF OneSided, Line
<1>10. SumFunctionOnSet(f, 1 .. 2) = f[1] + f[2] BY <1>8, SumOfFew
<1>11. SumFunctionOnSet(g, 1 .. 2) = g[1] + g[2] BY <1>8, SumOfFew
<1> QED BY <1>3, <1>5, <1>9, <1>10, <1>11 DEF ls

\* The sides of three lines.
LEMMA ThreeLines ==
  ASSUME NEW a, NEW b, NEW c, Line(a), Line(b), Line(c)
  PROVE  /\ OneSided(<<a, b, c>>)
         /\ Debits(<<a, b, c>>) = a.debit + b.debit + c.debit
         /\ Credits(<<a, b, c>>) = a.credit + b.credit + c.credit
<1> DEFINE ls == <<a, b, c>>
           f == [i \in DOMAIN ls |-> ls[i].debit]  g == [i \in DOMAIN ls |-> ls[i].credit]
<1>1. DOMAIN ls = 1 .. 3 /\ ls[1] = a /\ ls[2] = b /\ ls[3] = c OBVIOUS
<1>2. ls \in Seq(LineRow) BY DEF Line
<1> HIDE DEF ls
<1>3. /\ f[1] = a.debit /\ g[1] = a.credit
      /\ f[2] = b.debit /\ g[2] = b.credit
      /\ f[3] = c.debit /\ g[3] = c.credit
  BY <1>1
<1>4. DOMAIN f = 1 .. 3 /\ DOMAIN g = 1 .. 3 BY <1>1
<1>5. Debits(ls) = SumFunctionOnSet(f, 1 .. 3) /\ Credits(ls) = SumFunctionOnSet(g, 1 .. 3)
  BY <1>4 DEF Debits, Credits, SumFunction
<1>6. \A i \in 1 .. 3 : i = 1 \/ i = 2 \/ i = 3 OBVIOUS
<1>7. /\ a.debit \in Nat /\ a.credit \in Nat
      /\ b.debit \in Nat /\ b.credit \in Nat
      /\ c.debit \in Nat /\ c.credit \in Nat
  BY DEF Line, LineRow
<1> HIDE DEF f, g
<1>8. \A i \in 1 .. 3 : f[i] \in Int /\ g[i] \in Int BY <1>3, <1>6, <1>7
<1>9. OneSided(ls) BY <1>1, <1>2, <1>6 DEF OneSided, Line
<1>10. SumFunctionOnSet(f, 1 .. 3) = f[1] + f[2] + f[3] BY <1>8, SumOfFew
<1>11. SumFunctionOnSet(g, 1 .. 3) = g[1] + g[2] + g[3] BY <1>8, SumOfFew
<1> QED BY <1>3, <1>5, <1>9, <1>10, <1>11 DEF ls

\* The sides of four lines.
LEMMA FourLines ==
  ASSUME NEW a, NEW b, NEW c, NEW d, Line(a), Line(b), Line(c), Line(d)
  PROVE  /\ OneSided(<<a, b, c, d>>)
         /\ Debits(<<a, b, c, d>>) = a.debit + b.debit + c.debit + d.debit
         /\ Credits(<<a, b, c, d>>) = a.credit + b.credit + c.credit + d.credit
<1> DEFINE ls == <<a, b, c, d>>
           f == [i \in DOMAIN ls |-> ls[i].debit]  g == [i \in DOMAIN ls |-> ls[i].credit]
<1>1. DOMAIN ls = 1 .. 4 /\ ls[1] = a /\ ls[2] = b /\ ls[3] = c /\ ls[4] = d OBVIOUS
<1>2. ls \in Seq(LineRow) BY DEF Line
<1> HIDE DEF ls
<1>3. /\ f[1] = a.debit /\ g[1] = a.credit
      /\ f[2] = b.debit /\ g[2] = b.credit
      /\ f[3] = c.debit /\ g[3] = c.credit
      /\ f[4] = d.debit /\ g[4] = d.credit
  BY <1>1
<1>4. DOMAIN f = 1 .. 4 /\ DOMAIN g = 1 .. 4 BY <1>1
<1>5. Debits(ls) = SumFunctionOnSet(f, 1 .. 4) /\ Credits(ls) = SumFunctionOnSet(g, 1 .. 4)
  BY <1>4 DEF Debits, Credits, SumFunction
<1>6. \A i \in 1 .. 4 : i = 1 \/ i = 2 \/ i = 3 \/ i = 4 OBVIOUS
<1>7. /\ a.debit \in Nat /\ a.credit \in Nat
      /\ b.debit \in Nat /\ b.credit \in Nat
      /\ c.debit \in Nat /\ c.credit \in Nat
      /\ d.debit \in Nat /\ d.credit \in Nat
  BY DEF Line, LineRow
<1> HIDE DEF f, g
<1>8. \A i \in 1 .. 4 : f[i] \in Int /\ g[i] \in Int BY <1>3, <1>6, <1>7
<1>9. OneSided(ls) BY <1>1, <1>2, <1>6 DEF OneSided, Line
<1>10. SumFunctionOnSet(f, 1 .. 4) = f[1] + f[2] + f[3] + f[4] BY <1>8, SumOfFew
<1>11. SumFunctionOnSet(g, 1 .. 4) = g[1] + g[2] + g[3] + g[4] BY <1>8, SumOfFew
<1> QED BY <1>3, <1>5, <1>9, <1>10, <1>11 DEF ls

\* The sides of six lines.
LEMMA SixLines ==
  ASSUME NEW a, NEW b, NEW c, NEW d, NEW e, NEW h, Line(a), Line(b), Line(c), Line(d), Line(e), Line(h)
  PROVE  /\ OneSided(<<a, b, c, d, e, h>>)
         /\ Debits(<<a, b, c, d, e, h>>) = a.debit + b.debit + c.debit + d.debit + e.debit + h.debit
         /\ Credits(<<a, b, c, d, e, h>>)
              = a.credit + b.credit + c.credit + d.credit + e.credit + h.credit
<1> DEFINE ls == <<a, b, c, d, e, h>>
           f == [i \in DOMAIN ls |-> ls[i].debit]  g == [i \in DOMAIN ls |-> ls[i].credit]
<1>1. /\ DOMAIN ls = 1 .. 6 /\ ls[1] = a /\ ls[2] = b /\ ls[3] = c
      /\ ls[4] = d /\ ls[5] = e /\ ls[6] = h
  OBVIOUS
<1>2. ls \in Seq(LineRow) BY DEF Line
<1> HIDE DEF ls
<1>3. /\ f[1] = a.debit /\ g[1] = a.credit
      /\ f[2] = b.debit /\ g[2] = b.credit
      /\ f[3] = c.debit /\ g[3] = c.credit
      /\ f[4] = d.debit /\ g[4] = d.credit
      /\ f[5] = e.debit /\ g[5] = e.credit
      /\ f[6] = h.debit /\ g[6] = h.credit
  BY <1>1
<1>4. DOMAIN f = 1 .. 6 /\ DOMAIN g = 1 .. 6 BY <1>1
<1>5. Debits(ls) = SumFunctionOnSet(f, 1 .. 6) /\ Credits(ls) = SumFunctionOnSet(g, 1 .. 6)
  BY <1>4 DEF Debits, Credits, SumFunction
<1>6. \A i \in 1 .. 6 : i = 1 \/ i = 2 \/ i = 3 \/ i = 4 \/ i = 5 \/ i = 6 OBVIOUS
<1>7. /\ a.debit \in Nat /\ a.credit \in Nat
      /\ b.debit \in Nat /\ b.credit \in Nat
      /\ c.debit \in Nat /\ c.credit \in Nat
      /\ d.debit \in Nat /\ d.credit \in Nat
      /\ e.debit \in Nat /\ e.credit \in Nat
      /\ h.debit \in Nat /\ h.credit \in Nat
  BY DEF Line, LineRow
<1> HIDE DEF f, g
<1>8. \A i \in 1 .. 6 : f[i] \in Int /\ g[i] \in Int BY <1>3, <1>6, <1>7
<1>9. OneSided(ls) BY <1>1, <1>2, <1>6 DEF OneSided, Line
<1>10. SumFunctionOnSet(f, 1 .. 6) = f[1] + f[2] + f[3] + f[4] + f[5] + f[6] BY <1>8, SumOfFew
<1>11. SumFunctionOnSet(g, 1 .. 6) = g[1] + g[2] + g[3] + g[4] + g[5] + g[6] BY <1>8, SumOfFew
<1> QED BY <1>3, <1>5, <1>9, <1>10, <1>11 DEF ls

-----------------------------------------------------------------------------
(* What each generator makes of a paper.                                    *)

\* What \o makes of three and some more.
LEMMA AfterThree ==
  ASSUME NEW V, NEW s \in Seq(V), NEW t \in Seq(V), Len(s) = 3, NEW n, n = Len(t)
  PROVE  /\ Len(s \o t) = 3 + n /\ s \o t \in Seq(V)
         /\ \A i \in 1 .. 3 : (s \o t)[i] = s[i]
         /\ \A i \in 1 .. n : (s \o t)[3 + i] = t[i]
<1>1. /\ Len(s \o t) = Len(s) + Len(t) /\ s \o t \in Seq(V)
      /\ \A i \in 1 .. (Len(s) + Len(t)) : (s \o t)[i] = IF i <= Len(s) THEN s[i] ELSE t[i - Len(s)]
  BY ONLY s \in Seq(V), t \in Seq(V), ConcatProperties
<1>2. PICK w : w = s \o t OBVIOUS
<1>3. \A i \in 1 .. (3 + n) : w[i] = IF i <= 3 THEN s[i] ELSE t[i - 3] BY <1>1, <1>2
<1>4. ASSUME NEW i \in 1 .. 3 PROVE w[i] = s[i] BY <1>3
<1>5. ASSUME NEW i \in 1 .. n PROVE w[3 + i] = t[i]
  <2>1. 3 + i \in 1 .. (3 + n) /\ ~(3 + i <= 3) /\ 3 + i - 3 = i OBVIOUS
  <2> QED BY <1>3, <2>1
<1> QED BY <1>1, <1>2, <1>4, <1>5

\* Three and three are six.
LEMMA ThreeAndThree ==
  ASSUME NEW x, NEW y, NEW z, NEW a, NEW b, NEW c
  PROVE  <<x, y, z>> \o <<a, b, c>> = <<x, y, z, a, b, c>>
<1> DEFINE s == <<x, y, z>>  t == <<a, b, c>>  u == <<x, y, z, a, b, c>> V == {x,y,z,a,b,c}  w == s \o t
<1>1. s \in Seq(V) /\ t \in Seq(V) /\ u \in Seq(V) /\ Len(s) = 3 /\ Len(t) = 3 /\ Len(u) = 6 OBVIOUS
<1>2. s[1] = x /\ s[2] = y /\ s[3] = z /\ t[1] = a /\ t[2] = b /\ t[3] = c OBVIOUS
<1>3. u[1] = x /\ u[2] = y /\ u[3] = z /\ u[4] = a /\ u[5] = b /\ u[6] = c OBVIOUS
<1> HIDE DEF s, t, u, V, w
<1>4. /\ Len(w) = 3 + 3 /\ w \in Seq(V)
      /\ \A i \in 1 .. 3 : w[i] = s[i]
      /\ \A i \in 1 .. 3 : w[3 + i] = t[i]
   BY <1>1, AfterThree DEF w
<1>5. w[3 + 1] = t[1] /\ w[3 + 2] = t[2] /\ w[3 + 3] = t[3] BY <1>4
<1>6. w[1] = x /\ w[2] = y /\ w[3] = z /\ w[4] = a /\ w[5] = b /\ w[6] = c BY <1>2, <1>4, <1>5
<1>7. \A i \in 1 .. 6 : w[i] = u[i]
  <2>1. \A i \in 1 .. 6 : i = 1 \/ i = 2 \/ i = 3 \/ i = 4 \/ i = 5 \/ i = 6 OBVIOUS
  <2> QED BY <1>3, <1>6, <2>1
<1>8. w = u
  <2>1. w \in [1 .. 6 -> V] /\ u \in [1 .. 6 -> V]
    <3>1. 3 + 3 = 6 OBVIOUS
    <3>2. \A q \in Seq(V) : q \in [1 .. Len(q) -> V] OBVIOUS
    <3>3. Len(w) = 6 /\ w \in Seq(V) BY <1>4, <3>1
    <3> QED BY <1>1, <3>2, <3>3
  <2> QED BY <1>7, <2>1
<1> QED BY <1>8 DEF s, t, u, w

\* Three and one are four.
LEMMA ThreeAndOne ==
  ASSUME NEW x, NEW y, NEW z, NEW a
  PROVE  <<x, y, z>> \o <<a>> = <<x, y, z, a>>
<1> DEFINE s == <<x, y, z>>  t == <<a>>  u == <<x, y, z, a>> V == {x,y,z,a}  w == s \o t
<1>1. s \in Seq(V) /\ t \in Seq(V) /\ u \in Seq(V) /\ Len(s) = 3 /\ Len(t) = 1 /\ Len(u) = 4 OBVIOUS
<1>2. s[1] = x /\ s[2] = y /\ s[3] = z /\ t[1] = a OBVIOUS
<1>3. u[1] = x /\ u[2] = y /\ u[3] = z /\ u[4] = a OBVIOUS
<1> HIDE DEF s, t, u, V, w
<1> DEFINE n == Len(t)
<1>4. n = 1 BY <1>1
<1> HIDE DEF n
<1>5. /\ Len(w) = 3 + n /\ w \in Seq(V)
      /\ \A i \in 1 .. 3 : w[i] = s[i]
      /\ \A i \in 1 .. n : w[3 + i] = t[i]
  <2>1. n = Len(t) BY DEF n
  <2>2. s \in Seq(V) /\ t \in Seq(V) /\ Len(s) = 3 BY <1>1
  <2>3. Len(s \o t) = 3 + n BY ONLY <2>1, <2>2, AfterThree
  <2>4. s \o t \in Seq(V) BY ONLY <2>1, <2>2, AfterThree
  <2>5. \A i \in 1 .. 3 : (s \o t)[i] = s[i] BY ONLY <2>1, <2>2, AfterThree
  <2>6. \A i \in 1 .. n : (s \o t)[3 + i] = t[i] BY ONLY <2>1, <2>2, AfterThree
  <2> QED BY <2>3, <2>4, <2>5, <2>6 DEF w
<1>6. w[3 + 1] = t[1]
  <2>1. 1 \in 1 .. n BY <1>4
  <2> QED BY <1>5, <2>1
<1>7. w[1] = x /\ w[2] = y /\ w[3] = z /\ w[4] = a BY <1>2, <1>5, <1>6
<1>8. \A i \in 1 .. 4 : w[i] = u[i]
  <2>1. \A i \in 1 .. 4 : i = 1 \/ i = 2 \/ i = 3 \/ i = 4 OBVIOUS
  <2> QED BY <1>3, <1>7, <2>1
<1>9. w = u
  <2>1. w \in [1 .. 4 -> V] /\ u \in [1 .. 4 -> V]
    <3>1. 3 + n = 4 BY <1>4
    <3>2. \A q \in Seq(V) : q \in [1 .. Len(q) -> V] OBVIOUS
    <3>3. Len(w) = 4 /\ w \in Seq(V) BY <1>5, <3>1
    <3> QED BY <1>1, <3>2, <3>3
  <2> QED BY <1>8, <2>1
<1> QED BY <1>9 DEF s, t, u, w

\* The accounts that the generators name.
LEMMA AccountsAre ==
  /\ {"cash", "banks", "discounts", "receivable", "income", "vat owed"} \subseteq Account
  /\ {"cost", "inventory", "vat due", "payable", "returns", "advances"} \subseteq Account
  /\ {"withheld", "expense", "salaries", "salaries owed"} \subseteq Account
BY DEF Account

\* The fields of a paper.
LEMMA PaperIs ==
  ASSUME NEW p \in PaperRow
  PROVE  /\ p.kind \in Generated \cup {"manual"} /\ p.net \in Nat /\ p.tax \in Nat
         /\ p.change \in Int /\ p.owed \in Nat /\ p.onCash \in BOOLEAN /\ p.foreign \in BOOLEAN
         /\ p.payments \in Seq(PaymentRow) /\ Total(p) = p.net + p.tax /\ Total(p) \in Nat
BY DEF PaperRow, Total

\* What was paid is an amount.
LEMMA PaidIs ==
  ASSUME NEW p \in PaperRow, NEW methods, Rate > 0
  PROVE  PaidBy(p, methods) \in Nat
<1> DEFINE ps == p.payments
           f == [i \in DOMAIN ps |-> IF ps[i].method \in methods THEN InDocument(p, ps[i]) ELSE 0]
<1>1. ps \in Seq(PaymentRow) BY PaperIs
<1>2. DOMAIN ps = 1 .. Len(ps) /\ Len(ps) \in Nat BY <1>1
<1>3. IsFiniteSet(DOMAIN ps) BY <1>2, FS_Interval
<1>4. ASSUME NEW i \in DOMAIN ps PROVE f[i] \in Nat
  <2>1. ps[i] \in PaymentRow BY <1>1, <1>2
  <2>2. ps[i].amount \in Nat /\ ps[i].other \in BOOLEAN BY <2>1 DEF PaymentRow
  <2>3. Rate \in Nat \ {0} /\ Unit \in Nat \ {0} BY EntryConstants
  <2>4. ps[i].amount * Unit \in Nat /\ ps[i].amount * Rate \in Nat
    <3>1. \A x, y \in Nat : x * y \in Nat OBVIOUS
    <3> QED BY <2>2, <2>3, <3>1
  <2>5. Rounded(ps[i].amount * Unit, Rate) \in Nat /\ Rounded(ps[i].amount * Rate, Unit) \in Nat
    BY <2>3, <2>4, RoundedIs
  <2>6. InDocument(p, ps[i]) \in Nat BY <2>2, <2>5, PaperIs DEF InDocument
  <2> QED BY <2>6
<1>5. DOMAIN f = DOMAIN ps OBVIOUS
<1>6. PaidBy(p, methods) = SumFunctionOnSet(f, DOMAIN ps) BY <1>5 DEF PaidBy, SumFunction
<1> HIDE DEF f
<1> QED BY <1>3, <1>4, <1>6, SumNatural

\* What was paid, by where it goes.
LEMMA SettlementIs ==
  ASSUME NEW p \in PaperRow, Rate > 0
  PROVE  /\ Settlement(p) \in [cash : Nat, bank : Nat, points : Nat]
<1>1. PaidBy(p, {"cash"}) \in Nat /\ PaidBy(p, {"card", "transfer"}) \in Nat
      /\ PaidBy(p, {"points"}) \in Nat
  BY PaidIs
<1>2. p.change \in Int BY PaperIs
<1> DEFINE cash == PaidBy(p, {"cash"})  fromCash == Least(AtLeast0(p.change), cash)
           bank == PaidBy(p, {"card", "transfer"})
<1>3. cash - fromCash \in Nat /\ fromCash \in Nat
  BY <1>1, <1>2 DEF Least, AtLeast0
<1>4. AtLeast0(bank - (AtLeast0(p.change) - fromCash)) \in Nat
  BY <1>1, <1>2, <1>3 DEF AtLeast0
<1> QED BY <1>1, <1>3, <1>4 DEF Settlement

\* The lines of what was paid, and three more.
LEMMA SettlementWith ==
  ASSUME NEW t \in [cash : Nat, bank : Nat, points : Nat]
  PROVE  /\ Line(Debit("cash", t.cash)) /\ Line(Debit("banks", t.bank))
         /\ Line(Debit("discounts", t.points))
         /\ \A a, b, c : SettlementLines(t) \o <<a, b, c>>
              = <<Debit("cash", t.cash), Debit("banks", t.bank), Debit("discounts", t.points), a, b, c>>
         /\ \A a : SettlementLines(t) \o <<a>>
              = <<Debit("cash", t.cash), Debit("banks", t.bank), Debit("discounts", t.points), a>>
         /\ Debit("cash", t.cash).debit + Debit("banks", t.bank).debit
              + Debit("discounts", t.points).debit = SumOfParts(t)
         /\ SumOfParts(t) \in Nat
         /\ Debit("cash", t.cash).credit = 0 /\ Debit("banks", t.bank).credit = 0
         /\ Debit("discounts", t.points).credit = 0
<1>1. t.cash \in Nat /\ t.bank \in Nat /\ t.points \in Nat OBVIOUS
<1>2. /\ Line(Debit("cash", t.cash)) /\ Line(Debit("banks", t.bank))
      /\ Line(Debit("discounts", t.points))
      /\ Debit("cash", t.cash).credit = 0 /\ Debit("banks", t.bank).credit = 0
      /\ Debit("discounts", t.points).credit = 0
      /\ Debit("cash", t.cash).debit = t.cash /\ Debit("banks", t.bank).debit = t.bank
      /\ Debit("discounts", t.points).debit = t.points
  BY <1>1, LinesAre, AccountsAre
<1> DEFINE x == Debit("cash", t.cash)  y == Debit("banks", t.bank)  z == Debit("discounts", t.points)
<1>3. /\ \A a, b, c : <<x, y, z>> \o <<a, b, c>> = <<x, y, z, a, b, c>>
      /\ \A a : <<x, y, z>> \o <<a>> = <<x, y, z, a>>
  <2> HIDE DEF x, y, z
  <2> QED BY ThreeAndThree, ThreeAndOne
<1>4. SumOfParts(t) = t.cash + t.bank + t.points BY DEF SumOfParts
<1>5. SettlementLines(t) = <<x, y, z>> BY DEF SettlementLines
<1>6. x.debit + y.debit + z.debit = SumOfParts(t) /\ SumOfParts(t) \in Nat BY <1>1, <1>2, <1>4
<1> QED BY <1>2, <1>3, <1>5, <1>6

\* A sale that points do not overpay balances.
LEMMA SaleBalances ==
  ASSUME NEW p \in PaperRow, Rate > 0, Settlement(p).points <= Total(p)
  PROVE  OneSided(SaleLines(p)) /\ Debits(SaleLines(p)) = Credits(SaleLines(p))
<1> DEFINE T == [cash : Nat, bank : Nat, points : Nat]
           s == Settlement(p)  k == Clipped(s, Total(p))  t == Forgiven(p, k)
           d == AtLeast0(Total(p) - SumOfParts(t))
<1>1. s \in T /\ Total(p) \in Nat /\ p.net \in Nat /\ p.tax \in Nat /\ Total(p) = p.net + p.tax
  BY SettlementIs, PaperIs
<1>2. s.points <= Total(p) OBVIOUS
<1> HIDE DEF s
<1>3. k \in T /\ SumOfParts(k) <= Total(p)
  <2> DEFINE excess == AtLeast0(SumOfParts(s) - Total(p))  fromCash == Least(excess, s.cash)
  <2>1. s.cash \in Nat /\ s.bank \in Nat /\ s.points \in Nat BY <1>1
  <2>2. SumOfParts(s) = s.cash + s.bank + s.points BY DEF SumOfParts
  <2>3. excess \in Nat /\ (excess = 0 \/ excess = s.cash + s.bank + s.points - Total(p))
        /\ s.cash + s.bank + s.points - Total(p) <= excess
    BY <1>1, <2>1, <2>2 DEF AtLeast0
  <2>4. /\ k = [s EXCEPT !.cash = s.cash - fromCash, !.bank = AtLeast0(s.bank - (excess - fromCash))]
    BY DEF Clipped
  <2> HIDE DEF excess, k
  <2>5. fromCash \in Nat /\ fromCash <= s.cash /\ fromCash <= excess
        /\ (fromCash = s.cash \/ fromCash = excess)
    BY <2>1, <2>3 DEF Least
  <2> HIDE DEF fromCash
  <2>6. AtLeast0(s.bank - (excess - fromCash)) \in Nat
        /\ (\/ AtLeast0(s.bank - (excess - fromCash)) = s.bank - (excess - fromCash)
            \/ AtLeast0(s.bank - (excess - fromCash)) = 0 /\ s.bank - (excess - fromCash) <= 0)
    BY <2>1, <2>3, <2>5 DEF AtLeast0
  <2> DEFINE x == s.cash - fromCash  y == AtLeast0(s.bank - (excess - fromCash))
  <2>61. x \in Nat /\ y \in Nat /\ k = [s EXCEPT !.cash = x, !.bank = y] BY <2>1, <2>4, <2>5, <2>6
  <2> HIDE DEF x, y
  <2>62. k \in T /\ k.cash = x /\ k.bank = y /\ k.points = s.points BY <1>1, <2>61
  <2>7. k \in T /\ k.cash = s.cash - fromCash /\ k.bank = AtLeast0(s.bank - (excess - fromCash))
        /\ k.points = s.points
    BY <2>62 DEF x, y
  <2>8. SumOfParts(k) = k.cash + k.bank + k.points BY DEF SumOfParts
  <2> QED BY <1>1, <1>2, <2>1, <2>3, <2>5, <2>6, <2>7, <2>8
<1> HIDE DEF k
<1>4. t \in T /\ SumOfParts(t) <= Total(p)
  <2> DEFINE short == Total(p) - SumOfParts(k)
  <2>1. k.cash \in Nat /\ k.bank \in Nat /\ k.points \in Nat BY <1>3
  <2>2. SumOfParts(k) = k.cash + k.bank + k.points BY DEF SumOfParts
  <2>3. short \in Nat BY <1>1, <1>3, <2>1, <2>2
  <2>4. t = k \/ t = [k EXCEPT !.cash = k.cash + short] BY DEF Forgiven
  <2> HIDE DEF t
  <2>5. CASE t = k BY <1>3, <2>5
  <2>6. CASE t = [k EXCEPT !.cash = k.cash + short]
    <3> HIDE DEF short
    <3>1. t \in T /\ t.cash = k.cash + short /\ t.bank = k.bank /\ t.points = k.points
      BY <1>3, <2>1, <2>3, <2>6
    <3>2. SumOfParts(t) = t.cash + t.bank + t.points BY DEF SumOfParts
    <3> QED BY <1>1, <2>1, <2>2, <3>1, <3>2 DEF short
  <2> QED BY <2>4, <2>5, <2>6
<1> HIDE DEF t
<1>5. SumOfParts(t) \in Nat BY <1>4, SettlementWith
<1>6. d \in Nat /\ d = Total(p) - SumOfParts(t) BY <1>1, <1>4, <1>5 DEF AtLeast0
<1> DEFINE a == Debit("cash", t.cash)  b == Debit("banks", t.bank)  c == Debit("discounts", t.points)
           x == Debit("receivable", d)  y == Credit("income", p.net)  z == Credit("vat owed", p.tax)
<1>7. SaleLines(p) = <<a, b, c, x, y, z>>
  <2>1. SaleLines(p) = SettlementLines(t) \o <<x, y, z>> BY DEF SaleLines, t, k, s
  <2> QED BY <1>4, <2>1, SettlementWith
<1> HIDE DEF d
<1>8. /\ Line(a) /\ Line(b) /\ Line(c) /\ a.debit + b.debit + c.debit = SumOfParts(t)
      /\ a.credit = 0 /\ b.credit = 0 /\ c.credit = 0
  BY <1>4, SettlementWith
<1>9. /\ Line(x) /\ Line(y) /\ Line(z) /\ x.debit = d /\ y.debit = 0 /\ z.debit = 0
      /\ x.credit = 0 /\ y.credit = p.net /\ z.credit = p.tax
  BY <1>1, <1>6, LinesAre, AccountsAre
<1> HIDE DEF a, b, c, x, y, z
<1>10. /\ OneSided(SaleLines(p))
       /\ Debits(SaleLines(p)) = a.debit + b.debit + c.debit + x.debit + y.debit + z.debit
       /\ Credits(SaleLines(p)) = a.credit + b.credit + c.credit + x.credit + y.credit + z.credit
  BY <1>7, <1>8, <1>9, SixLines
<1> QED BY <1>1, <1>5, <1>6, <1>8, <1>9, <1>10

\* A receipt for what was received balances.
LEMMA ReceiptBalances ==
  ASSUME NEW p \in PaperRow, Rate > 0, SumOfParts(Settlement(p)) = Total(p)
  PROVE  OneSided(ReceiptLines(p)) /\ Debits(ReceiptLines(p)) = Credits(ReceiptLines(p))
<1> DEFINE t == Settlement(p)
           a == Debit("cash", t.cash)  b == Debit("banks", t.bank)  c == Debit("discounts", t.points)
           x == Credit("receivable", Total(p))
<1>1. t \in [cash : Nat, bank : Nat, points : Nat] /\ Total(p) \in Nat BY SettlementIs, PaperIs
<1>2. SumOfParts(t) = Total(p) OBVIOUS
<1> HIDE DEF t
<1>3. ReceiptLines(p) = <<a, b, c, x>>
  <2>1. ReceiptLines(p) = SettlementLines(t) \o <<x>> BY DEF ReceiptLines, t
  <2> QED BY <1>1, <2>1, SettlementWith
<1>4. /\ Line(a) /\ Line(b) /\ Line(c) /\ a.debit + b.debit + c.debit = SumOfParts(t)
      /\ a.credit = 0 /\ b.credit = 0 /\ c.credit = 0
  BY <1>1, SettlementWith
<1>5. Line(x) /\ x.debit = 0 /\ x.credit = Total(p) BY <1>1, LinesAre, AccountsAre
<1> HIDE DEF a, b, c, x
<1>6. /\ OneSided(ReceiptLines(p))
      /\ Debits(ReceiptLines(p)) = a.debit + b.debit + c.debit + x.debit
      /\ Credits(ReceiptLines(p)) = a.credit + b.credit + c.credit + x.credit
  BY <1>3, <1>4, <1>5, FourLines
<1> QED BY <1>1, <1>2, <1>4, <1>5, <1>6

\* So does what reduces a debt, whatever was owed.
LEMMA ReliefBalances ==
  ASSUME NEW p \in PaperRow, NEW rest \in Account
  PROVE  OneSided(ReliefLines(p, rest)) /\ Debits(ReliefLines(p, rest)) = Credits(ReliefLines(p, rest))
<1> DEFINE relief == Least(p.owed, Total(p))
           a == Debit("returns", p.net)  b == Debit("vat owed", p.tax)
           c == Credit("receivable", relief)  d == Credit(rest, Total(p) - relief)
<1>1. p.net \in Nat /\ p.tax \in Nat /\ Total(p) = p.net + p.tax /\ p.owed \in Nat BY PaperIs
<1>2. relief \in Nat /\ Total(p) - relief \in Nat BY <1>1 DEF Least
<1>3. ReliefLines(p, rest) = <<a, b, c, d>> BY DEF ReliefLines
<1> HIDE DEF relief
<1>4. /\ Line(a) /\ Line(b) /\ Line(c) /\ Line(d)
      /\ a.debit = p.net /\ b.debit = p.tax /\ c.debit = 0 /\ d.debit = 0
      /\ a.credit = 0 /\ b.credit = 0 /\ c.credit = relief /\ d.credit = Total(p) - relief
  BY <1>1, <1>2, LinesAre, AccountsAre
<1> HIDE DEF a, b, c, d
<1>5. /\ OneSided(ReliefLines(p, rest))
      /\ Debits(ReliefLines(p, rest)) = a.debit + b.debit + c.debit + d.debit
      /\ Credits(ReliefLines(p, rest)) = a.credit + b.credit + c.credit + d.credit
  BY <1>3, <1>4, FourLines
<1> QED BY <1>1, <1>2, <1>4, <1>5

\* And one amount from one account to another.
LEMMA TransferBalances ==
  ASSUME NEW n \in Nat, NEW from \in Account, NEW to \in Account,
         NEW ls, ls = <<Debit(from, n), Credit(to, n)>>
  PROVE  OneSided(ls) /\ Debits(ls) = Credits(ls)
<1> DEFINE a == Debit(from, n)  b == Credit(to, n)
<1>1. Line(a) /\ Line(b) /\ a.debit = n /\ b.debit = 0 /\ a.credit = 0 /\ b.credit = n BY LinesAre
<1>2. ls = <<a, b>> OBVIOUS
<1> HIDE DEF a, b
<1>3. OneSided(ls) /\ Debits(ls) = a.debit + b.debit /\ Credits(ls) = a.credit + b.credit
  BY <1>1, <1>2, TwoLines
<1> QED BY <1>1, <1>3

\* And two parts debited, and their total credited.
LEMMA PartsDebited ==
  ASSUME NEW m \in Nat, NEW n \in Nat, NEW t, t = m + n,
         NEW x \in Account, NEW y \in Account, NEW z \in Account
  PROVE  /\ OneSided(<<Debit(x, m), Debit(y, n), Credit(z, t)>>)
         /\ Debits(<<Debit(x, m), Debit(y, n), Credit(z, t)>>)
              = Credits(<<Debit(x, m), Debit(y, n), Credit(z, t)>>)
<1> DEFINE a == Debit(x, m)  b == Debit(y, n)  c == Credit(z, t)
<1>1. t \in Nat OBVIOUS
<1>2. /\ Line(a) /\ Line(b) /\ Line(c)
      /\ a.debit + b.debit + c.debit = a.credit + b.credit + c.credit
  BY <1>1, LinesAre
<1> HIDE DEF a, b, c
<1>3. OneSided(<<a, b, c>>) /\ Debits(<<a, b, c>>) = Credits(<<a, b, c>>)
  BY <1>2, ThreeLines
<1> QED BY <1>3 DEF a, b, c

\* And their total debited, and two parts credited.
LEMMA PartsCredited ==
  ASSUME NEW m \in Nat, NEW n \in Nat, NEW t, t = m + n,
         NEW x \in Account, NEW y \in Account, NEW z \in Account
  PROVE  /\ OneSided(<<Debit(z, t), Credit(x, m), Credit(y, n)>>)
         /\ Debits(<<Debit(z, t), Credit(x, m), Credit(y, n)>>)
              = Credits(<<Debit(z, t), Credit(x, m), Credit(y, n)>>)
<1> DEFINE a == Debit(z, t)  b == Credit(x, m)  c == Credit(y, n)
<1>1. t \in Nat OBVIOUS
<1>2. /\ Line(a) /\ Line(b) /\ Line(c)
      /\ a.debit + b.debit + c.debit = a.credit + b.credit + c.credit
  BY <1>1, LinesAre
<1> HIDE DEF a, b, c
<1>3. OneSided(<<a, b, c>>) /\ Debits(<<a, b, c>>) = Credits(<<a, b, c>>)
  BY <1>2, ThreeLines
<1> QED BY <1>3 DEF a, b, c

\* Every generator whose document is sound makes lines that balance.
LEMMA GeneratedBalance ==
  ASSUME NEW p \in PaperRow, Rate > 0, Sound(p)
  PROVE  OneSided(LinesOf(p)) /\ Debits(LinesOf(p)) = Credits(LinesOf(p))
<1>0. /\ p.kind \in Generated /\ p.net \in Nat /\ p.tax \in Nat /\ Total(p) = p.net + p.tax
      /\ Funds(p) \in Account
  BY PaperIs, AccountsAre DEF Sound, Funds
<1> DEFINE m == p.net  n == p.tax  t == Total(p)
<1>1. m \in Nat /\ n \in Nat /\ t = m + n BY <1>0
<1>2. ASSUME NEW x \in Account, NEW y \in Account, NEW z \in Account,
             \/ LinesOf(p) = <<Debit(x, m), Debit(y, n), Credit(z, t)>>
             \/ LinesOf(p) = <<Debit(z, t), Credit(x, m), Credit(y, n)>>
      PROVE  OneSided(LinesOf(p)) /\ Debits(LinesOf(p)) = Credits(LinesOf(p))
  <2> HIDE DEF m, n, t
  <2> DEFINE a == <<Debit(x, m), Debit(y, n), Credit(z, t)>>
             b == <<Debit(z, t), Credit(x, m), Credit(y, n)>>
  <2>1. OneSided(a) /\ Debits(a) = Credits(a) BY <1>1, PartsDebited
  <2>2. OneSided(b) /\ Debits(b) = Credits(b) BY <1>1, PartsCredited
  <2> HIDE DEF a, b
  <2>3. LinesOf(p) = a \/ LinesOf(p) = b BY <1>2 DEF a, b
  <2> QED BY <2>1, <2>2, <2>3
<1>3. CASE p.kind = "sale"
  <2>1. LinesOf(p) = SaleLines(p) BY <1>3 DEF LinesOf
  <2> QED BY <1>3, <2>1, SaleBalances DEF Sound
<1>4. CASE p.kind = "receipt"
  <2>1. LinesOf(p) = ReceiptLines(p) BY <1>4 DEF LinesOf
  <2> QED BY <1>4, <2>1, ReceiptBalances DEF Sound
<1>5. CASE p.kind = "cogs"
  <2>1. LinesOf(p) = CogsLines(p) BY <1>5 DEF LinesOf
  <2> QED BY <1>0, <2>1, TransferBalances, AccountsAre DEF CogsLines
<1>6. CASE p.kind = "purchase"
  <2>1. PICK x, y, z \in Account : x = "inventory" /\ y = "vat due" /\ z = "payable"
    BY <1>0, AccountsAre
  <2>2. LinesOf(p) = <<Debit(x, m), Debit(y, n), Credit(z, t)>>
    BY <1>6, <2>1 DEF LinesOf, PurchaseLines
  <2> QED BY <1>2, <2>2
<1>7. CASE p.kind = "return"
  <2>1. LinesOf(p) = ReliefLines(p, Funds(p)) BY <1>7 DEF LinesOf, ReturnLines
  <2> QED BY <1>0, <2>1, ReliefBalances, AccountsAre
<1>8. CASE p.kind = "credit note"
  <2>1. LinesOf(p) = ReliefLines(p, "advances") BY <1>8 DEF LinesOf, NoteLines
  <2> QED BY <2>1, ReliefBalances, AccountsAre
<1>9. CASE p.kind = "debit note"
  <2>1. PICK x, y, z \in Account : x = "income" /\ y = "vat owed" /\ z = "receivable"
    BY <1>0, AccountsAre
  <2>2. LinesOf(p) = <<Debit(z, t), Credit(x, m), Credit(y, n)>>
    BY <1>9, <2>1 DEF LinesOf, NoteLines
  <2> QED BY <1>2, <2>2
<1>10. CASE p.kind = "withholding"
  <2>1. LinesOf(p) = WithholdingLines(p) BY <1>10 DEF LinesOf
  <2> QED BY <1>0, <2>1, TransferBalances, AccountsAre DEF WithholdingLines
<1>11. CASE p.kind = "payment"
  <2>1. LinesOf(p) = PaymentLines(p) BY <1>11 DEF LinesOf
  <2> QED BY <1>0, <2>1, TransferBalances, AccountsAre DEF PaymentLines
<1>12. CASE p.kind = "expense"
  <2>1. PICK x, y, z \in Account : x = "expense" /\ y = "vat due"
                                      /\ z = IF p.owed > 0 THEN "payable" ELSE Funds(p)
    BY <1>0, AccountsAre
  <2>2. LinesOf(p) = <<Debit(x, m), Debit(y, n), Credit(z, t)>>
    BY <1>12, <2>1 DEF LinesOf, ExpenseLines
  <2> QED BY <1>2, <2>2
<1>13. CASE p.kind = "payroll"
  <2>1. PICK x, y, z \in Account : x = "salaries owed" /\ y = "withheld" /\ z = "salaries"
    BY <1>0, AccountsAre
  <2>2. LinesOf(p) = <<Debit(z, t), Credit(x, m), Credit(y, n)>>
    BY <1>13, <2>1 DEF LinesOf, PayrollLines
  <2> QED BY <1>2, <2>2
<1> QED BY <1>0, <1>3, <1>4, <1>5, <1>6, <1>7, <1>8, <1>9, <1>10, <1>11, <1>12, <1>13 DEF Generated

\* So createEntry takes it.
LEMMA SoundIsAccepted ==
  ASSUME NEW p \in PaperRow, 2 * Rate >= Unit, Sound(p)
  PROVE  Accepted(p)
<1>1. Rate > 0 BY EntryConstants
<1>2. OneSided(LinesOf(p)) /\ Debits(LinesOf(p)) = Credits(LinesOf(p)) BY <1>1, GeneratedBalance
<1>3. p.foreign \in BOOLEAN BY PaperIs
<1>4. Balanced(EntryLines(p)) BY <1>2, <1>3, BalancedLines DEF EntryLines
<1>5. p.kind # "manual" BY DEF Sound
<1> QED BY <1>1, <1>4, <1>5 DEF Accepted

-----------------------------------------------------------------------------
(* What is promised.                                                        *)

\* Rows hold what their columns can, and idle sessions hold no locks.
THEOREM JournalTypeCorrect == Spec => []TypeOK
<1>1. Inv => TypeOK BY DEF Inv, Sited, Columns, Knows, TypeOK
<1> QED BY <1>1, Invariant, PTL

\* The books hold every document they must and can, on the tenant's one
\* chart, whatever fails, whoever makes the chart and whatever is cached.
THEOREM EntriesAlwaysPlaced == Spec => []EntriesPlaced
<1>1. ASSUME Inv PROVE EntriesPlaced
  <2>1. \A d \in Document : Together(db[d], db[EntryOf(d)], db[Chart])
    BY <1>1 DEF Inv, Sited, Placed
  <2> QED BY <2>1 DEF EntriesPlaced, EntryWithDocument, EntryOnChart, NothingOmitted,
                      Together, Recorded
<1> QED BY <1>1, Invariant, PTL

\* What is undone one request at a time is undone once, and the vouchers are
\* numbered without gap or repetition however many are made at once.
THEOREM AlwaysOnceOnly == Spec => []OnceOnly
<1>1. ASSUME Inv PROVE OnceOnly
  <2>1. VouchersNumbered BY <1>1 DEF Inv, Numbered
  <2>2. calm => \A d \in Document : Undone(db[d], db[EntryOf(d)], Reversals(d))
    BY <1>1 DEF Inv, Calmly
  <2>3. ReversalsFollow BY <2>2 DEF ReversalsFollow, Undone
  <2> QED BY <2>1, <2>3 DEF OnceOnly
<1> QED BY <1>1, Invariant, PTL

\* A sound document's entry is never refused, whatever its amounts, its
\* payments and its currency, and whatever the rate, when a cent of a dollar is
\* half a cent of a bolivar or more: what rounding loses is put back.
THEOREM SoundNeverRefused == ASSUME 2 * Rate >= Unit PROVE Spec => []NeverRefused
<1>1. ASSUME Inv PROVE NeverRefused
  <2>1. Tries
    <3> SUFFICES ASSUME NEW p \in Tried, Sound(p) PROVE Accepted(p) BY DEF Tries
    <3>1. p \in PaperRow BY PaperAssumption
    <3> QED BY <3>1, SoundIsAccepted
  <2>2. ASSUME NEW s \in Session, at[s] # "idle", Sound(job[s].paper)
        PROVE  Accepted(job[s].paper)
    <3>1. Knows(s) BY <1>1 DEF Inv, Sited
    <3>2. job[s] \in JobRow BY <2>2, <3>1 DEF Knows
    <3>3. job[s].paper \in Paper BY <3>2 DEF JobRow
    <3>4. job[s].paper \in PaperRow BY <3>3, PaperAssumption
    <3> QED BY <2>2, <3>4, SoundIsAccepted
  <2> QED BY <2>1, <2>2 DEF NeverRefused
<1> QED BY <1>1, Invariant, PTL

=============================================================================
