--------------------------- MODULE MCStockProjection ---------------------------
(***************************************************************************)
(* One bag of maize bought and one sold: the sale is possible only because *)
(* of the purchase.                                                        *)
(***************************************************************************)
EXTENDS MCOfflineOutbox, StockProjection

MCLines == [o \in Ops |-> CASE Kind[o] = "purchase" -> 1
                            [] Kind[o] = "sale"     -> -1
                            [] OTHER                -> 0]
================================================================================
