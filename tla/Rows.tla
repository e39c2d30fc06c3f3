-------------------------------- MODULE Rows --------------------------------
(***************************************************************************)
(* A row of a Postgres table as transactions under READ COMMITTED see it:  *)
(* the committed value, the newest version, and the transaction that wrote *)
(* that version and holds the row until it ends.  A statement of another   *)
(* transaction that would write the row waits for that end; a reading      *)
(* statement does not.  External, modelled from the statements of src/.    *)
(***************************************************************************)
CONSTANT Nobody     \* no transaction holds the row

Stored(value) == [was |-> value, is |-> value, by |-> Nobody]

RowOf(values, owners) ==
    [was : values, is : values, by : owners \cup {Nobody}]

\* What transaction c reads.
Visible(row, c) == IF row.by = c THEN row.is ELSE row.was

\* Transaction c may write the row without waiting.
Writable(row, c) == row.by \in {Nobody, c}

Written(row, c, value) == [was |-> row.was, is |-> value, by |-> c]

\* A table with new rows over it.
Over(rows, table) ==
    [k \in DOMAIN rows \cup DOMAIN table |-> IF k \in DOMAIN rows THEN rows[k] ELSE table[k]]

Committed(table, c) ==
    [k \in DOMAIN table |-> IF table[k].by = c THEN Stored(table[k].is)
                                               ELSE table[k]]

RolledBack(table, c) ==
    [k \in DOMAIN table |-> IF table[k].by = c THEN Stored(table[k].was)
                                               ELSE table[k]]
=============================================================================
