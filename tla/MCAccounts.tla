----------------------------- MODULE MCAccounts -----------------------------
(***************************************************************************)
(* The account of a sale and that of a purchase order on small instances:  *)
(* each of 4, of which 3 counts as paid, and two credits for the order.    *)
(* They share no row, so that each is explored by itself: what is of the   *)
(* other alone stays as it is.                                             *)
(***************************************************************************)
EXTENDS Receivables, TLC

CONSTANTS
  Slot, Credit, Original, NoCredit,   \* Payables, the others as for a sale
  s1, s2, c1, c2

VARIABLES payable, remaining, applied, spender, which, left, amount, corrected

Order == INSTANCE Payables WITH Id <- Slot

ASSUME AccountsConstants == Order!PayableConstants

ofSale == <<kind, notes, ar, sale, settled, payment, smooth>>
NoSale == /\ kind = Nobody /\ notes = Nobody /\ ar = Nobody /\ sale = Nobody
          /\ settled = Nobody /\ payment = Nobody /\ smooth = Nobody

ofOrder == <<payable, remaining, applied, spender, which, left, amount, corrected>>
NoOrder == /\ payable = Nobody /\ remaining = Nobody /\ applied = Nobody /\ spender = Nobody
           /\ which = Nobody /\ left = Nobody /\ amount = Nobody /\ corrected = Nobody

SaleInit == Init /\ NoOrder
SaleSpec == SaleInit /\ [][Next /\ UNCHANGED ofOrder]_<<vars, ofOrder>>

OrderInit == Order!Init /\ NoSale
OrderSpec == OrderInit /\ [][Order!Next /\ UNCHANGED ofSale]_<<Order!vars, ofSale>>

\* What was applied of a credit and what remains are its amount (Payables).
CreditConserved == Order!CreditConserved

\* An order's account shows its payments (Payables).
PayableAgrees == Order!PayableAgrees

\* A credit pays no more than is due (Payables).
CreditFits == Order!CreditFits

CreditAmounts == [c \in Credit |-> IF c = c1 THEN 3 ELSE 2]
Symmetric == Permutations(Session)

=============================================================================
