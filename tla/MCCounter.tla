----------------------------- MODULE MCCounter -----------------------------
(***************************************************************************)
(* Requests over the counter, two sessions at once.                        *)
(***************************************************************************)
EXTENDS MCWarehouse, Counter

\* A session that can take its next step does so in the end, a deadlock victim
\* included; nothing makes a request fail.
MCSpec == CounterSpec /\ \A p \in Proc : WF_vars(Step(p))

\* Of this shop the properties of the log and of the units hold.
ASSUME ShopOpens == OneRowEach /\ ShopJobs /\ PacksAddUp

=============================================================================
