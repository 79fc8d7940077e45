----------------------------- MODULE AccountBook -----------------------------
(***************************************************************************)
(* What account_service promises of its two tables: they change in one     *)
(* piece.  An account is added together with its trading password, and an  *)
(* update of an account that is there changes its row, or its row and its  *)
(* password.  Nothing deletes.                                             *)
(***************************************************************************)
CONSTANTS
  Ids,         \* account_id
  Rows,        \* the other columns of trading_account
  Passwords    \* the password credential

VARIABLES
  accounts,      \* trading_account: a function on the ids of its rows
  credentials    \* account_credential, type kPassword

tables == <<accounts, credentials>>

Put(table, id, value) ==
  [i \in DOMAIN table \cup {id} |-> IF i = id THEN value ELSE table[i]]

Init == accounts = <<>> /\ credentials = <<>>

Add(id, row, password) ==
  /\ id \notin DOMAIN accounts
  /\ accounts' = Put(accounts, id, row)
  /\ credentials' = Put(credentials, id, password)

Change(id, row) ==
  /\ id \in DOMAIN accounts
  /\ accounts' = Put(accounts, id, row)
  /\ UNCHANGED credentials

ChangeWithPassword(id, row, password) ==
  /\ id \in DOMAIN accounts
  /\ accounts' = Put(accounts, id, row)
  /\ credentials' = Put(credentials, id, password)

Next ==
  \E id \in Ids, row \in Rows :
    \/ Change(id, row)
    \/ \E password \in Passwords :
         Add(id, row, password) \/ ChangeWithPassword(id, row, password)

Spec == Init /\ [][Next]_tables
=============================================================================
