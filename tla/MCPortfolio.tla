---- MODULE MCPortfolio ----
(* Two markets, every price, small quantities, a bounded number of fills. *)
EXTENDS Portfolio

CONSTANTS
    MaxQty,     \* bound: quantity of one fill
    MaxBought   \* bound: contracts ever bought of one market and side

MCNext ==
    \/ \E m \in Market, side \in Side, price \in Price, qty \in 1 .. MaxQty, fee \in {1} :
           bought[m][side] + qty <= MaxBought /\ Buy(m, side, price, qty, fee)
    \/ \E m \in Market, value \in Value : Settle(m, value)

MCSpec == LedgerInit /\ [][MCNext]_ledger
=============================
