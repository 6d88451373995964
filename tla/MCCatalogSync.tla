--------------------------- MODULE MCCatalogSync ---------------------------
(* Instances of CatalogSync for TLC. *)
EXTENDS CatalogSync

CONSTANTS gol, uno, tank, price, v1, v2

Gol(t, p) == [id |-> gol, data |-> [c \in Columns |-> IF c = tank THEN t ELSE p]]
Uno(t, p) == [id |-> uno, data |-> [c \in Columns |-> IF c = tank THEN t ELSE p]]

OneModel == <<Gol(v1, v2)>>

(* One model, another one, the first with other columns, both in the other     *)
(* order with new data and with a repeated row, and what cannot be parsed or   *)
(* stored.  A sync of the first that overlaps one of the third and one of the  *)
(* fourth may mix the columns.                                                 *)
SixSheets ==
  {OneModel, <<Uno(v1, v2)>>, <<Gol(v1, v1)>>, <<Uno(v1, v2), Gol(v2, v1), Uno(v2, v2)>>,
   <<>>, <<Gol(v2, v2), Uno(v1, Oversized)>>}
=============================================================================
