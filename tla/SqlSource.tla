----------------------------- MODULE SqlSource -----------------------------
(***************************************************************************)
(* What the SQL connector reads: connectors/sql_database/connector.py with *)
(* core/sql_cursor_check.py and core/cursor_utils.py.                      *)
(*                                                                         *)
(* A table of the source is <<schema, name>>.  The dashboard offers it by a*)
(* label, <<name>> in the default schema and <<schema, name>> in another,  *)
(* the user picks labels and may give each a cursor column to load it      *)
(* incrementally, and the connector finds the table behind a label again.  *)
(* A name holds no dot here: a dot in a name would be taken for the one    *)
(* between schema and name.  A config is a record; its SQL fields are      *)
(*   picked    labels, in order                                            *)
(*   settings  label |-> [column, initial], for the labels that have one   *)
(*   common    [column, initial], for the labels that have none            *)
(***************************************************************************)
EXTENDS Naturals, Sequences

CONSTANTS Tables,  \* the tables of the source
          Default, \* its default schema
          System,  \* the schemas of the database system itself
          Columns, \* the columns of a table; {} if it cannot be inspected
          Type,    \* the type of a column: "date", "number" or "text"
          None     \* no column, no initial value

ASSUME SqlSourceAssumption ==
  /\ \A t \in Tables : t = <<t[1], t[2]>>
  /\ Default \notin System
  /\ DOMAIN Columns = Tables
  /\ \A t \in Tables : None \notin Columns[t] /\ Columns[t] \subseteq DOMAIN Type
-----------------------------------------------------------------------------
\* inspect_sql_tables: the labels the user picks from.
Label(t) == IF t[1] = Default THEN <<t[2]>> ELSE t
Offered == {Label(t) : t \in {s \in Tables : s[1] \notin System}}

\* _parse_table_ref: the table behind a label.
TableOf(label) == IF Len(label) = 2 THEN label ELSE <<Default, label[1]>>

\* The name by which a setting is looked up when the label has none, and which
\* the table has at the destination.
Bare(label) == <<label[Len(label)]>>

NoSetting == [column |-> None, initial |-> None]

Setting(c, label) ==
  IF label \in DOMAIN c.settings THEN c.settings[label]
  ELSE IF Bare(label) \in DOMAIN c.settings THEN c.settings[Bare(label)]
  ELSE NoSetting

Cursor(c, label) ==
  IF Setting(c, label).column # None THEN Setting(c, label).column ELSE c.common.column

\* The common initial value belongs to the common column.
Initial(c, label) ==
  IF Setting(c, label).initial # None THEN Setting(c, label).initial
  ELSE IF Cursor(c, label) = c.common.column THEN c.common.initial
  ELSE None

\* parse_cursor_value: an initial value is typed as the user wrote it, and a
\* number of four digits is a year.
Parsed(raw) ==
  [at   |-> raw.at,
   type |-> IF raw.form \in {"date", "datetime", "year"} THEN "date"
            ELSE IF raw.form = "digits" THEN "number" ELSE "text"]

\* Where a table is first read from.
From(c, label) == IF Initial(c, label) = None THEN 0 ELSE Parsed(Initial(c, label)).at

\* The source compares the initial value with the column, if it can.
Comparable(c, label) ==
  None \notin {Cursor(c, label), Initial(c, label)}
    => Parsed(Initial(c, label)).type = Type[Cursor(c, label)]

\* assert_cursor_columns_exist: a table that cannot be inspected is not judged.
CursorsExist(c) ==
  \A i \in 1..Len(c.picked) :
    LET columns == Columns[TableOf(c.picked[i])]
    IN  columns # {} => Cursor(c, c.picked[i]) \in columns \cup {None}

\* _build_sql_database_source, with the file of an SQLite source in place.
CanRead(c) == c.picked # <<>> /\ CursorsExist(c)
=============================================================================
