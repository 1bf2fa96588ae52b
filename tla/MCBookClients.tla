----------------------------- MODULE MCBookClients -----------------------------
(***************************************************************************)
(* One position of two lots, closed in two deals of one lot each.          *)
(***************************************************************************)
EXTENDS BookClients

DealTicket == [d \in Deals |-> "p"]
DealLots   == [d \in Deals |-> 1]
DealPips   == [d \in Deals |-> IF d = 1 THEN 5 ELSE 0 - d]
TwoLots    == [t \in Tickets |-> 2]
=============================================================================
