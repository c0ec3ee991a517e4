------------------------------ MODULE MCJournal ------------------------------
EXTENDS Journal, TLC

CONSTANTS d1, d2, s1, s2, c1, c2, c3

Blank == [kind |-> "sale", net |-> 1, tax |-> 0, payments |-> <<>>, change |-> 0,
          owed |-> 0, onCash |-> FALSE, foreign |-> FALSE, lines |-> <<>>]

\* What is recorded: every way of writing an entry, one that is refused, and
\* one that cannot be balanced.
MCPaper ==
  {[Blank EXCEPT !.kind = k] : k \in {"credit note", "expense", "withholding", "payroll"}}
    \cup {[Blank EXCEPT !.payments = <<[method |-> "points", amount |-> 9, other |-> FALSE]>>],
          [Blank EXCEPT !.kind = "manual", !.lines = <<Debit("cash", 1)>>],
          [Blank EXCEPT !.kind = "manual", !.lines = <<Debit("cash", 1), Credit("banks", 1)>>]}

\* What the generators are tried with.
Payment == [method : {"cash", "card", "points", "credit"}, amount : {1, 3}, other : BOOLEAN]
Payments == {<<>>} \cup {<<p>> : p \in Payment} \cup {<<p, q>> : p, q \in Payment}
Kinds == {"cogs", "purchase", "return", "credit note", "debit note", "withholding",
          "payment", "expense", "payroll"}

MCTried ==
  {[Blank EXCEPT !.kind = k, !.net = n, !.tax = t, !.payments = ps, !.change = c,
                 !.onCash = h, !.foreign = f] :
     k \in {"sale", "receipt"}, n \in 1 .. 3, t \in 0 .. 1, ps \in Payments,
     c \in 0 .. 1, h \in BOOLEAN, f \in BOOLEAN}
  \cup {[Blank EXCEPT !.kind = k, !.net = n, !.tax = t, !.owed = o, !.onCash = h,
                      !.foreign = f] :
     k \in Kinds, n \in 1 .. 6, t \in 0 .. 3, o \in 0 .. 4, h \in BOOLEAN, f \in BOOLEAN}

Symmetric == Permutations(Session) \cup Permutations(Document) \cup Permutations(Copy)

=============================================================================
