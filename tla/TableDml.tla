------------------------------- MODULE TableDml -------------------------------
(***************************************************************************)
(* The statements of the single-table DAOs (framework/dao/dml_utils.cpp,   *)
(* sql_utils.cpp) by what they do to a table.                              *)
(*                                                                         *)
(* A record of a DAO is a record of TLA+ whose fields are its columns;     *)
(* NoValue stands for an optional field without a value.  A column is a    *)
(* text, also where the schema says INTEGER: the DAOs write numbers as     *)
(* texts.  A table is a function that stores each row under its primary    *)
(* key.                                                                    *)
(***************************************************************************)
EXTENDS FiniteSets

NoValue == "<no value>"

(* Build...Values: the columns of a record that have a value. *)
KeyValues(record) ==
  [column \in {c \in DOMAIN record : record[c] # NoValue} |-> record[column]]

(* BuildWhereSql: AppendStringEq writes no condition for an empty text. *)
Conditions(where) == {column \in DOMAIN where : where[column] # ""}

Satisfies(row, where) ==
  \A column \in Conditions(where) : row[column] = where[column]

(* SELECT: the keys of the rows in the result. *)
SelectRows(table, where) == {key \in DOMAIN table : Satisfies(table[key], where)}

CountRows(table, where) == Cardinality(SelectRows(table, where))

(* UPDATE and DELETE are refused without a condition, UPDATE also without  *)
(* values; it is the list of columns that must not be empty, not their     *)
(* texts.                                                                  *)
MayUpdate(values, where) == DOMAIN values # {} /\ DOMAIN where # {}

(* Written values take the place of those that were there. *)
Over(new, old) ==
  [key \in DOMAIN new \cup DOMAIN old |->
     IF key \in DOMAIN new THEN new[key] ELSE old[key]]

(* The rows an UPDATE writes, with their new contents. *)
UpdateRows(table, values, where) ==
  [key \in SelectRows(table, where) |-> Over(values, table[key])]

(* INSERT of one row; the primary key must be new. *)
InsertRow(key, values) == [id \in {key} |-> values]
=============================================================================
