------------------------------ MODULE RowPrices ------------------------------
(***************************************************************************)
(* The microprice that a BookSnapshot derives from its best levels (l2.py) *)
(* and the writer records with every row.  lv is the row's levels.  A      *)
(* quotient is the record of its numerator and denominator; decimals round *)
(* it only in the 28th digit.                                              *)
(***************************************************************************)
EXTENDS L2Book

ASSUME NoneIsNoQuotient == None \notin [num : Int, den : Int]

TwoSided(lv) == Best(lv, "bid") # {} /\ Best(lv, "ask") # {}

\* best_bid and best_ask, of a side that has levels.
BestLevel(lv, side) ==
    LET p == CHOOSE q \in Prices : q \in Best(lv, side)
    IN  [price |-> p, qty |-> lv[<<side, p>>]]

Quotient(num, den) == [num |-> num, den |-> den]

\* Both quantities at the touch; the microprice is None without any.
TouchQty(lv) == BestLevel(lv, "bid").qty + BestLevel(lv, "ask").qty

\* Each price is weighted with the quantity of the other side.
Microprice(lv) ==
    LET b == BestLevel(lv, "bid")
        a == BestLevel(lv, "ask")
    IN  IF ~TwoSided(lv) \/ TouchQty(lv) = 0 THEN None
        ELSE Quotient(a.price * b.qty + b.price * a.qty, TouchQty(lv))
=============================================================================
