-------------------------------- MODULE Tables --------------------------------
(* Tables, and what a transaction has written, as functions from keys to rows. *)

Row(k, r) == [x \in {k} |-> r]

\* The table after the rows have been written.
Over(rows, table) ==
  [k \in DOMAIN rows \cup DOMAIN table |-> IF k \in DOMAIN rows THEN rows[k] ELSE table[k]]
=============================================================================
