------------------------------ MODULE MCStores ------------------------------
(***************************************************************************)
(* TLC instance of the two stores.  They share nothing but the bucket: a  *)
(* run checks either the accounting ledger or the review history.          *)
(***************************************************************************)
EXTENDS Ledger, ReviewHistory

CONSTANTS deposit

VARIABLE part

MCAmount == [f \in {deposit} |-> 3]

MCInit ==
    \/ part = "ledger" /\ LedgerInit /\ HistoryInit /\ disk = "local"
    \/ part = "history" /\ LedgerInit /\ HistoryInit /\ backend = "local"

MCNext ==
    /\ part' = part
    /\ \/ part = "ledger" /\ LedgerNext /\ UNCHANGED reviewVars
       \/ part = "history" /\ HistoryNext /\ UNCHANGED ledger

MCSpec == MCInit /\ [][MCNext]_<<part, ledger, reviewVars>>
=============================================================================
