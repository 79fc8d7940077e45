------------------------- MODULE AccountStoreProofs -------------------------
(***************************************************************************)
(* For any threads, connections, accounts and passwords: what the calls of *)
(* account_service leave in the tables, on their connections and in their  *)
(* answers.                                                                *)
(***************************************************************************)
EXTENDS AccountStore, FiniteSetTheorems, TLAPS

----------------------------------------------------------------------------
(* The inductive invariant                                                 *)

(* A call that is under way was accepted and is somewhere in its plan. *)
Requests ==
  \A t \in Threads : ~Idle(t) =>
    Req(t) \in Writes \cup Reads /\ Valid(Req(t)) /\ call[t].pc \in DOMAIN Plan(Req(t))

(* A connection is the pool's and clean, or that of one call, which has it *)
(* from Acquire to its answer and has no other.                            *)
Owners ==
  /\ \A k \in Connections : user[k] = Pool => session[k] = NoTransaction
  /\ \A k \in Connections, t \in Threads :
       user[k] = t => Step(t) \notin {"idle", "acquire"}
  /\ \A t \in Threads :
       Step(t) \notin {"idle", "acquire"} => \E k \in Connections : user[k] = t
  /\ \A t \in Threads, j, k \in Connections : user[j] = t /\ user[k] = t => j = k

(* What the transaction of a call has written when it is at a step. *)
AccountRow(r)    == InsertRow(r.id, AccountRecord(r))
CredentialRow(r) == InsertRow(r.id, CredentialRecord(r))
Wrote(s, step, r) ==
  /\ step \in {"begin", "readAccount", "readAccounts", "checkAccount", "readCredential"} =>
       s = NoTransaction
  /\ step \in {"count", "insertAccount", "updateAccount"} =>
       s.accounts = <<>> /\ s.credentials = <<>>
  /\ step \in {"insertCredential", "findCredential", "updateCredential"} =>
       s.accounts = AccountRow(r) /\ s.credentials = <<>>
  /\ step = "commit" =>
       /\ s.accounts = AccountRow(r)
       /\ s.credentials = IF r.password = "" THEN <<>> ELSE CredentialRow(r)
Transactions ==
  \A k \in Connections, t \in Threads : user[k] = t => Wrote(session[k], Step(t), Req(t))

(* No two transactions have written the same account. *)
Exclusive ==
  \A j, k \in Connections :
    j # k => DOMAIN session[j].accounts \cap DOMAIN session[k].accounts = {}

(* No account is without its password, and no password without account. *)
Paired == DOMAIN accounts = DOMAIN credentials

(* A new account stays new until its call commits it, one that was found   *)
(* stays.                                                                  *)
Known(t) ==
  /\ (\/ Step(t) = "insertCredential"
      \/ Step(t) = "commit" /\ Req(t).op = "AddAccount") =>
       Req(t).id \notin DOMAIN accounts
  /\ (\/ Step(t) \in {"findCredential", "updateCredential", "readCredential"}
      \/ Step(t) = "commit" /\ Req(t).op = "UpdateAccount") =>
       Req(t).id \in DOMAIN accounts
Presence == \A t \in Threads : Known(t)

IInv ==
  /\ TypeOK /\ Requests /\ Owners /\ Transactions /\ Exclusive /\ Paired /\ Presence

----------------------------------------------------------------------------
(* The tables and the statements                                           *)

AccountRows    == [account_id : Ids, line : Lines, status : Statuses]
CredentialRows == [account_id : Ids, credential_type : {"password"},
                   key_id : {KeyId}, ciphertext : Passwords]

LEMMA OverIs ==
  ASSUME NEW f, NEW g
  PROVE  /\ DOMAIN Over(f, g) = DOMAIN f \cup DOMAIN g
         /\ \A x \in DOMAIN f : Over(f, g)[x] = f[x]
         /\ \A x \in DOMAIN g \ DOMAIN f : Over(f, g)[x] = g[x]
BY DEF Over

(* A table of either kind, by what it stores. *)
LEMMA PartialIs ==
  ASSUME NEW S, NEW V, NEW f
  PROVE  f \in PartialOn(S, V) <=>
           f = [x \in DOMAIN f |-> f[x]] /\ DOMAIN f \subseteq S /\ \A x \in DOMAIN f : f[x] \in V
<1>1. f \in PartialOn(S, V) <=> \E some \in SUBSET S : f \in [some -> V]
  BY Zenon DEF PartialOn
<1>2. ASSUME NEW some \in SUBSET S, f \in [some -> V]
      PROVE  f = [x \in DOMAIN f |-> f[x]] /\ DOMAIN f \subseteq S /\ \A x \in DOMAIN f : f[x] \in V
  BY <1>2
<1>3. ASSUME f = [x \in DOMAIN f |-> f[x]], DOMAIN f \subseteq S, \A x \in DOMAIN f : f[x] \in V
      PROVE  f \in [DOMAIN f -> V]
  BY <1>3
<1>. QED  BY <1>1, <1>2, <1>3

LEMMA PartialOver ==
  ASSUME NEW S, NEW V, NEW f \in PartialOn(S, V), NEW g \in PartialOn(S, V)
  PROVE  /\ Over(f, g) \in PartialOn(S, V)
         /\ Keyed(f) /\ Keyed(g) => Keyed(Over(f, g))
<1>. DEFINE h == Over(f, g)
<1>1. /\ DOMAIN f \subseteq S /\ \A x \in DOMAIN f : f[x] \in V
      /\ DOMAIN g \subseteq S /\ \A x \in DOMAIN g : g[x] \in V
  BY PartialIs
<1>2. h = [x \in DOMAIN h |-> h[x]]
  BY DEF Over
<1>3. /\ DOMAIN h = DOMAIN f \cup DOMAIN g
      /\ \A x \in DOMAIN f : h[x] = f[x]
      /\ \A x \in DOMAIN g \ DOMAIN f : h[x] = g[x]
  BY OverIs, Zenon
<1>. HIDE DEF h
<1>4. DOMAIN h \subseteq S /\ \A x \in DOMAIN h : h[x] \in V
  BY <1>1, <1>3
<1>5. h \in PartialOn(S, V)
  BY <1>2, <1>4, PartialIs, Zenon
<1>6. Keyed(f) /\ Keyed(g) => Keyed(h)
  BY <1>3 DEF Keyed
<1>. QED  BY <1>5, <1>6 DEF h

LEMMA NoRows ==
  ASSUME NEW f, f = [x \in DOMAIN f |-> f[x]], DOMAIN f = {}
  PROVE  f = <<>>
OBVIOUS

LEMMA PartialEmpty ==
  ASSUME NEW S, NEW V, NEW f \in PartialOn(S, V)
  PROVE  /\ <<>> \in PartialOn(S, V) /\ Keyed(<<>>) /\ DOMAIN <<>> = {}
         /\ Over(<<>>, f) = f /\ Over(f, <<>>) = f
         /\ DOMAIN f = {} <=> f = <<>>
<1>1. <<>> = [x \in {} |-> S] /\ DOMAIN <<>> = {}
  OBVIOUS
<1>2. <<>> \in PartialOn(S, V) /\ Keyed(<<>>)
  <2>1. \A x \in DOMAIN <<>> : FALSE
    BY <1>1
  <2>2. <<>> = [x \in DOMAIN <<>> |-> <<>>[x]] /\ DOMAIN <<>> \subseteq S
    BY <1>1
  <2>. QED  BY <2>1, <2>2, PartialIs, Zenon DEF Keyed
<1>3. f = [x \in DOMAIN f |-> f[x]]
  BY PartialIs
<1>4. Over(<<>>, f) = f /\ Over(f, <<>>) = f
  BY <1>1, <1>3 DEF Over
<1>5. DOMAIN f = {} => f = <<>>
  BY <1>1, <1>3
<1>. QED  BY <1>1, <1>2, <1>4, <1>5

LEMMA PartialRow ==
  ASSUME NEW S, NEW V, NEW id \in S, NEW row \in V
  PROVE  /\ InsertRow(id, row) \in PartialOn(S, V)
         /\ DOMAIN InsertRow(id, row) = {id} /\ InsertRow(id, row)[id] = row
         /\ row.account_id = id => Keyed(InsertRow(id, row))
<1>1. InsertRow(id, row) = [x \in {id} |-> row] /\ DOMAIN InsertRow(id, row) = {id}
  BY DEF InsertRow
<1>2. InsertRow(id, row) = [x \in DOMAIN InsertRow(id, row) |-> InsertRow(id, row)[x]]
  BY <1>1
<1>. QED  BY <1>1, <1>2, PartialIs DEF Keyed

(* The conditions of the statements hit the rows of the one account. *)
LEMMA SelectAccount ==
  ASSUME StoreConstants, NEW id \in Ids, NEW table, Keyed(table)
  PROVE  /\ SelectRows(table, AccountOf(id)) = {id} \cap DOMAIN table
         /\ MayUpdate(KeyValues(AccountOf(id)), AccountOf(id))
<1>1. AccountOf(id) = [column \in {"account_id"} |-> id]
  <2>. DEFINE record == [account_id |-> id, line |-> NoValue, status |-> NoValue]
  <2>1. {c \in DOMAIN record : record[c] # NoValue} = {"account_id"}
    <3>1. id # NoValue
      BY DEF StoreConstants
    <3>2. DOMAIN record = {"account_id", "line", "status"}
      OBVIOUS
    <3>3. record["account_id"] = id /\ record["line"] = NoValue /\ record["status"] = NoValue
      OBVIOUS
    <3>. HIDE DEF record
    <3>. QED  BY <3>1, <3>2, <3>3
  <2>2. KeyValues(record) = [column \in {"account_id"} |-> record[column]]
    BY <2>1 DEF KeyValues
  <2>. QED  BY <2>2 DEF AccountOf
<1>2. Conditions(AccountOf(id)) = {"account_id"}
  BY <1>1 DEF Conditions, StoreConstants
<1>3. SelectRows(table, AccountOf(id)) = {key \in DOMAIN table : table[key]["account_id"] = id}
  BY <1>1, <1>2 DEF SelectRows, Satisfies
<1>. QED  BY <1>1, <1>3 DEF Keyed, MayUpdate, KeyValues

LEMMA SelectPassword ==
  ASSUME StoreConstants, NEW id \in Ids, NEW table, Keyed(table),
         \A key \in DOMAIN table : table[key].credential_type = "password"
  PROVE  SelectRows(table, PasswordOf(id)) = {id} \cap DOMAIN table
<1>. DEFINE record == [account_id |-> id, credential_type |-> "password",
                       key_id |-> NoValue, ciphertext |-> NoValue]
<1>1. id # NoValue /\ "password" # NoValue /\ id # ""
  BY DEF StoreConstants, NoValue
<1>2. /\ DOMAIN record = {"account_id", "credential_type", "key_id", "ciphertext"}
      /\ record["account_id"] = id /\ record["credential_type"] = "password"
      /\ record["key_id"] = NoValue /\ record["ciphertext"] = NoValue
  OBVIOUS
<1>3. PasswordOf(id) = KeyValues(record)
  BY DEF PasswordOf
<1>. HIDE DEF record
<1>4. {c \in DOMAIN record : record[c] # NoValue} = {"account_id", "credential_type"}
  BY <1>1, <1>2
<1>5. KeyValues(record) = [column \in {"account_id", "credential_type"} |-> record[column]]
  BY <1>4 DEF KeyValues
<1>6. Conditions(PasswordOf(id)) = {"account_id", "credential_type"}
  BY <1>1, <1>2, <1>3, <1>5 DEF Conditions
<1>7. SelectRows(table, PasswordOf(id)) =
        {key \in DOMAIN table : /\ table[key]["account_id"] = id
                                /\ table[key]["credential_type"] = "password"}
  <2>1. PasswordOf(id)["account_id"] = id /\ PasswordOf(id)["credential_type"] = "password"
    BY <1>2, <1>3, <1>5
  <2>. QED  BY <1>6, <2>1 DEF SelectRows, Satisfies
<1>. QED  BY <1>7 DEF Keyed

(* Every column of the written records has a value. *)
LEMMA AccountRecordIs ==
  ASSUME StoreConstants, NEW r \in Writes, r.id # ""
  PROVE  /\ AccountRecord(r) \in AccountRows /\ AccountRecord(r).account_id = r.id
         /\ KeyValues(AccountRecord(r)) = AccountRecord(r) /\ r.id \in Ids
<1>. DEFINE record == AccountRecord(r)
<1>1. r.id \in Ids /\ r.line \in Lines /\ r.status \in Statuses \cup {""}
  BY DEF Writes
<1>2. record \in AccountRows /\ record.account_id = r.id
  BY <1>1, StoreConstants DEF AccountRecord, AccountRows
<1>3. /\ record = [column \in DOMAIN record |-> record[column]]
      /\ DOMAIN record = {"account_id", "line", "status"}
      /\ record["account_id"] \in Ids /\ record["line"] \in Lines
      /\ record["status"] \in Statuses
  BY <1>2 DEF AccountRows
<1>. HIDE DEF record
<1>4. {c \in DOMAIN record : record[c] # NoValue} = DOMAIN record
  BY <1>3 DEF StoreConstants
<1>5. KeyValues(record) = record
  BY <1>3, <1>4 DEF KeyValues
<1>. QED  BY <1>1, <1>2, <1>5 DEF record

LEMMA CredentialRecordIs ==
  ASSUME StoreConstants, NEW r \in Writes, r.id # "", r.password # ""
  PROVE  /\ CredentialRecord(r) \in CredentialRows /\ CredentialRecord(r).account_id = r.id
         /\ KeyValues(CredentialRecord(r)) = CredentialRecord(r)
         /\ CredentialRecord(r).ciphertext = r.password /\ r.password \in Passwords
<1>. DEFINE record == CredentialRecord(r)
<1>1. r.id \in Ids /\ r.password \in Passwords
  BY DEF Writes
<1>2. /\ record \in CredentialRows /\ record.account_id = r.id
      /\ record.ciphertext = r.password
  BY <1>1 DEF CredentialRecord, CredentialRows
<1>3. /\ record = [column \in DOMAIN record |-> record[column]]
      /\ DOMAIN record = {"account_id", "credential_type", "key_id", "ciphertext"}
      /\ record["account_id"] \in Ids /\ record["credential_type"] = "password"
      /\ record["key_id"] = KeyId /\ record["ciphertext"] \in Passwords
  BY <1>2 DEF CredentialRows
<1>. HIDE DEF record
<1>4. {c \in DOMAIN record : record[c] # NoValue} = DOMAIN record
  BY <1>3 DEF StoreConstants, KeyId, NoValue
<1>5. KeyValues(record) = record
  BY <1>3, <1>4 DEF KeyValues
<1>. QED  BY <1>1, <1>2, <1>5 DEF record

(* A written record takes the place of every column of the row. *)
LEMMA OverRow ==
  ASSUME NEW f, NEW g, DOMAIN f = DOMAIN g, f = [x \in DOMAIN f |-> f[x]]
  PROVE  Over(f, g) = f
BY DEF Over

LEMMA AccountTableIs ==
  ASSUME NEW f \in AccountTable, NEW g \in AccountTable
  PROVE  /\ Over(f, g) \in AccountTable /\ <<>> \in AccountTable
         /\ Over(<<>>, f) = f /\ Over(f, <<>>) = f /\ (DOMAIN f = {} <=> f = <<>>)
         /\ Keyed(f) /\ DOMAIN f \subseteq Ids /\ \A id \in DOMAIN f : f[id] \in AccountRows
         /\ f = [id \in DOMAIN f |-> f[id]]
<1>1. AccountTable = {table \in PartialOn(Ids, AccountRows) : Keyed(table)}
  BY DEF AccountTable, AccountRows
<1>2. /\ f \in PartialOn(Ids, AccountRows) /\ Keyed(f)
      /\ g \in PartialOn(Ids, AccountRows) /\ Keyed(g)
  BY <1>1, Zenon
<1>3. Over(f, g) \in AccountTable
  BY <1>1, <1>2, PartialOver, Zenon
<1>4. /\ <<>> \in AccountTable /\ Over(<<>>, f) = f /\ Over(f, <<>>) = f
      /\ DOMAIN f = {} <=> f = <<>>
  BY <1>1, <1>2, PartialEmpty, Zenon
<1>5. /\ DOMAIN f \subseteq Ids /\ \A id \in DOMAIN f : f[id] \in AccountRows
      /\ f = [id \in DOMAIN f |-> f[id]]
  BY <1>2, PartialIs
<1>. QED  BY <1>2, <1>3, <1>4, <1>5

LEMMA CredentialTableIs ==
  ASSUME NEW f \in CredentialTable, NEW g \in CredentialTable
  PROVE  /\ Over(f, g) \in CredentialTable /\ <<>> \in CredentialTable
         /\ Over(<<>>, f) = f /\ Over(f, <<>>) = f /\ (DOMAIN f = {} <=> f = <<>>)
         /\ Keyed(f) /\ DOMAIN f \subseteq Ids
         /\ \A id \in DOMAIN f : f[id] \in CredentialRows
         /\ f = [id \in DOMAIN f |-> f[id]]
<1>1. CredentialTable = {table \in PartialOn(Ids, CredentialRows) : Keyed(table)}
  BY DEF CredentialTable, CredentialRows
<1>2. /\ f \in PartialOn(Ids, CredentialRows) /\ Keyed(f)
      /\ g \in PartialOn(Ids, CredentialRows) /\ Keyed(g)
  BY <1>1, Zenon
<1>3. Over(f, g) \in CredentialTable
  BY <1>1, <1>2, PartialOver, Zenon
<1>4. /\ <<>> \in CredentialTable /\ Over(<<>>, f) = f /\ Over(f, <<>>) = f
      /\ DOMAIN f = {} <=> f = <<>>
  BY <1>1, <1>2, PartialEmpty, Zenon
<1>5. /\ DOMAIN f \subseteq Ids /\ \A id \in DOMAIN f : f[id] \in CredentialRows
      /\ f = [id \in DOMAIN f |-> f[id]]
  BY <1>2, PartialIs
<1>. QED  BY <1>2, <1>3, <1>4, <1>5

LEMMA EmptyTables ==
  <<>> \in AccountTable /\ <<>> \in CredentialTable /\ DOMAIN <<>> = {}
<1>1. <<>> \in PartialOn(Ids, AccountRows) /\ <<>> \in PartialOn(Ids, CredentialRows)
  <2>1. \A x \in DOMAIN <<>> : FALSE
    OBVIOUS
  <2>2. <<>> = [x \in DOMAIN <<>> |-> <<>>[x]] /\ \A S : DOMAIN <<>> \subseteq S
    OBVIOUS
  <2>. QED  BY <2>1, <2>2, PartialIs, Zenon
<1>2. Keyed(<<>>)
  BY DEF Keyed
<1>. QED  BY <1>1, <1>2 DEF AccountTable, CredentialTable, AccountRows, CredentialRows

(* The rows the calls write. *)
LEMMA WrittenRows ==
  ASSUME StoreConstants, NEW r \in Writes, r.id # ""
  PROVE  /\ AccountRow(r) \in AccountTable /\ DOMAIN AccountRow(r) = {r.id}
         /\ AccountRow(r)[r.id] = AccountRecord(r)
         /\ r.password # "" =>
              /\ CredentialRow(r) \in CredentialTable /\ DOMAIN CredentialRow(r) = {r.id}
              /\ CredentialRow(r)[r.id] = CredentialRecord(r)
<1>1. /\ AccountRow(r) \in PartialOn(Ids, AccountRows) /\ Keyed(AccountRow(r))
      /\ DOMAIN AccountRow(r) = {r.id} /\ AccountRow(r)[r.id] = AccountRecord(r)
  <2>1. r.id \in Ids /\ AccountRecord(r) \in AccountRows /\ AccountRecord(r).account_id = r.id
    BY AccountRecordIs, Zenon
  <2>. DEFINE id  == r.id
              row == AccountRecord(r)
  <2>. HIDE DEF id, row
  <2>2. id \in Ids /\ row \in AccountRows /\ row.account_id = id
    BY <2>1 DEF id, row
  <2>3. InsertRow(id, row) \in PartialOn(Ids, AccountRows) /\ Keyed(InsertRow(id, row))
    BY <2>2, PartialRow
  <2>4. DOMAIN InsertRow(id, row) = {id} /\ InsertRow(id, row)[id] = row
    BY DEF InsertRow
  <2>. QED  BY <2>3, <2>4 DEF id, row, AccountRow
<1>2. ASSUME r.password # ""
      PROVE  /\ CredentialRow(r) \in PartialOn(Ids, CredentialRows) /\ Keyed(CredentialRow(r))
             /\ DOMAIN CredentialRow(r) = {r.id}
             /\ CredentialRow(r)[r.id] = CredentialRecord(r)
  <2>1. /\ r.id \in Ids /\ CredentialRecord(r) \in CredentialRows
        /\ CredentialRecord(r).account_id = r.id
    BY <1>2, AccountRecordIs, CredentialRecordIs, Zenon
  <2>. DEFINE id  == r.id
              row == CredentialRecord(r)
  <2>. HIDE DEF id, row
  <2>2. id \in Ids /\ row \in CredentialRows /\ row.account_id = id
    BY <2>1 DEF id, row
  <2>3. InsertRow(id, row) \in PartialOn(Ids, CredentialRows) /\ Keyed(InsertRow(id, row))
    BY <2>2, PartialRow
  <2>4. DOMAIN InsertRow(id, row) = {id} /\ InsertRow(id, row)[id] = row
    BY DEF InsertRow
  <2>. QED  BY <2>3, <2>4 DEF id, row, CredentialRow
<1>. QED  BY <1>1, <1>2 DEF AccountTable, CredentialTable, AccountRows, CredentialRows

(* An UPDATE writes the row of its account if there is one.  It has its    *)
(* values and its condition.                                               *)
LEMMA AccountUpdate ==
  ASSUME StoreConstants, NEW r \in Writes, r.id # "", NEW table \in AccountTable
  PROVE  UpdateRows(table, KeyValues(AccountRecord(r)), AccountOf(r.id)) =
           IF r.id \in DOMAIN table THEN AccountRow(r) ELSE <<>>
<1>. DEFINE rows == SelectRows(table, AccountOf(r.id))
<1>1. rows = {r.id} \cap DOMAIN table
  BY AccountRecordIs, AccountTableIs, SelectAccount, Zenon
<1>2. ASSUME r.id \in DOMAIN table
      PROVE  Over(AccountRecord(r), table[r.id]) = AccountRecord(r)
  <2>1. AccountRecord(r) \in AccountRows /\ table[r.id] \in AccountRows
    BY <1>2, AccountRecordIs, AccountTableIs, Zenon
  <2>2. /\ DOMAIN AccountRecord(r) = DOMAIN table[r.id]
        /\ AccountRecord(r) = [x \in DOMAIN AccountRecord(r) |-> AccountRecord(r)[x]]
    BY <2>1 DEF AccountRows
  <2>. QED  BY <2>2, OverRow, Zenon
<1>3. KeyValues(AccountRecord(r)) = AccountRecord(r)
  BY AccountRecordIs, Zenon
<1>4. UpdateRows(table, KeyValues(AccountRecord(r)), AccountOf(r.id)) =
        [key \in rows |-> Over(AccountRecord(r), table[key])]
  BY <1>3 DEF UpdateRows
<1>5. CASE r.id \in DOMAIN table
  <2>1. rows = {r.id}
    BY <1>1, <1>5, Zenon
  <2>. HIDE DEF rows
  <2>2. [key \in rows |-> Over(AccountRecord(r), table[key])] =
          [key \in {r.id} |-> AccountRecord(r)]
    BY <1>2, <1>5, <2>1
  <2>. QED  BY <1>4, <1>5, <2>2 DEF AccountRow, InsertRow
<1>6. CASE r.id \notin DOMAIN table
  <2>1. rows = {}
    BY <1>1, <1>6, Zenon
  <2>. HIDE DEF rows
  <2>. DEFINE f == [key \in rows |-> Over(AccountRecord(r), table[key])]
  <2>2. f = [key \in DOMAIN f |-> f[key]] /\ DOMAIN f = {}
    BY <2>1
  <2>. HIDE DEF f
  <2>3. f = <<>>
    BY <2>2, NoRows, Zenon
  <2>. QED  BY <1>4, <1>6, <2>3 DEF f
<1>. QED  BY <1>5, <1>6

LEMMA CredentialUpdate ==
  ASSUME StoreConstants, NEW r \in Writes, r.id # "", r.password # "",
         NEW table \in CredentialTable
  PROVE  UpdateRows(table, KeyValues(CredentialRecord(r)), PasswordOf(r.id)) =
           IF r.id \in DOMAIN table THEN CredentialRow(r) ELSE <<>>
<1>. DEFINE rows == SelectRows(table, PasswordOf(r.id))
<1>1. rows = {r.id} \cap DOMAIN table
  <2>1. \A key \in DOMAIN table : table[key].credential_type = "password"
    BY CredentialTableIs DEF CredentialRows
  <2>. QED  BY <2>1, AccountRecordIs, CredentialTableIs, SelectPassword, Zenon
<1>2. ASSUME r.id \in DOMAIN table
      PROVE  Over(CredentialRecord(r), table[r.id]) = CredentialRecord(r)
  <2>1. CredentialRecord(r) \in CredentialRows /\ table[r.id] \in CredentialRows
    BY <1>2, CredentialRecordIs, CredentialTableIs, Zenon
  <2>2. /\ DOMAIN CredentialRecord(r) = DOMAIN table[r.id]
        /\ CredentialRecord(r) = [x \in DOMAIN CredentialRecord(r) |-> CredentialRecord(r)[x]]
    BY <2>1 DEF CredentialRows
  <2>. QED  BY <2>2, OverRow, Zenon
<1>3. KeyValues(CredentialRecord(r)) = CredentialRecord(r)
  BY CredentialRecordIs, Zenon
<1>4. UpdateRows(table, KeyValues(CredentialRecord(r)), PasswordOf(r.id)) =
        [key \in rows |-> Over(CredentialRecord(r), table[key])]
  BY <1>3 DEF UpdateRows
<1>5. CASE r.id \in DOMAIN table
  <2>1. rows = {r.id}
    BY <1>1, <1>5, Zenon
  <2>. HIDE DEF rows
  <2>2. [key \in rows |-> Over(CredentialRecord(r), table[key])] =
          [key \in {r.id} |-> CredentialRecord(r)]
    BY <1>2, <1>5, <2>1
  <2>. QED  BY <1>4, <1>5, <2>2 DEF CredentialRow, InsertRow
<1>6. CASE r.id \notin DOMAIN table
  <2>1. rows = {}
    BY <1>1, <1>6, Zenon
  <2>. HIDE DEF rows
  <2>. DEFINE f == [key \in rows |-> Over(CredentialRecord(r), table[key])]
  <2>2. f = [key \in DOMAIN f |-> f[key]] /\ DOMAIN f = {}
    BY <2>1
  <2>. HIDE DEF f
  <2>3. f = <<>>
    BY <2>2, NoRows, Zenon
  <2>. QED  BY <1>4, <1>6, <2>3 DEF f
<1>. QED  BY <1>5, <1>6

----------------------------------------------------------------------------
(* The plans of the calls                                                  *)

WriteOps == {"AddAccount", "UpdateAccount"}
Last     == {"commit", "readAccount", "readAccounts", "readCredential"}

(* The step that comes after another one in a plan. *)
After(r, step) ==
  CASE step = "acquire" -> (CASE r.op \in WriteOps     -> "begin"
                              [] r.op = "GetAccount"    -> "readAccount"
                              [] r.op = "ListAccounts"  -> "readAccounts"
                              [] r.op = "GetCredential" -> "checkAccount")
    [] step = "begin"            -> IF r.op = "AddAccount" THEN "count" ELSE "updateAccount"
    [] step = "count"            -> "insertAccount"
    [] step = "insertAccount"    -> "insertCredential"
    [] step = "insertCredential" -> "commit"
    [] step = "updateAccount"    -> IF r.password = "" THEN "commit" ELSE "findCredential"
    [] step = "findCredential"   -> "updateCredential"
    [] step = "updateCredential" -> "commit"
    [] step = "checkAccount"     -> "readCredential"

(* Whose plan a step is in. *)
Fits(r, step) ==
  \/ step = "acquire"
  \/ step \in {"begin", "commit"} /\ r.op \in WriteOps
  \/ step \in {"count", "insertAccount", "insertCredential"} /\ r.op = "AddAccount"
  \/ step = "updateAccount" /\ r.op = "UpdateAccount"
  \/ /\ step \in {"findCredential", "updateCredential"}
     /\ r.op = "UpdateAccount" /\ r.password # ""
  \/ step = "readAccount" /\ r.op = "GetAccount"
  \/ step = "readAccounts" /\ r.op = "ListAccounts"
  \/ step \in {"checkAccount", "readCredential"} /\ r.op = "GetCredential"

LEMMA AfterIs ==
  ASSUME NEW r
  PROVE  /\ r.op \in WriteOps => After(r, "acquire") = "begin"
         /\ r.op = "GetAccount" => After(r, "acquire") = "readAccount"
         /\ r.op = "ListAccounts" => After(r, "acquire") = "readAccounts"
         /\ r.op = "GetCredential" => After(r, "acquire") = "checkAccount"
         /\ After(r, "begin") = IF r.op = "AddAccount" THEN "count" ELSE "updateAccount"
         /\ After(r, "count") = "insertAccount"
         /\ After(r, "insertAccount") = "insertCredential"
         /\ After(r, "insertCredential") = "commit"
         /\ After(r, "updateAccount") =
              IF r.password = "" THEN "commit" ELSE "findCredential"
         /\ After(r, "findCredential") = "updateCredential"
         /\ After(r, "updateCredential") = "commit"
         /\ After(r, "checkAccount") = "readCredential"
BY DEF After, WriteOps

LEMMA OperationIs ==
  ASSUME NEW r \in Writes \cup Reads
  PROVE  r.op \in {"AddAccount", "UpdateAccount", "GetAccount", "ListAccounts", "GetCredential"}
<1>1. CASE r \in Writes
  BY <1>1 DEF Writes
<1>2. CASE r \in Reads
  <2>1. r.op \in {"GetAccount", "GetCredential"} \/ r = [op |-> "ListAccounts"]
    BY <1>2 DEF Reads
  <2>2. r.op \in {"GetAccount", "GetCredential"} \/ r.op = "ListAccounts"
    BY <2>1
  <2>. QED  BY <2>2
<1>. QED  BY <1>1, <1>2

(* A place of a plan: its step, and the one that follows it. *)
Place(r, p, i) ==
  /\ i \in 1..6 /\ 1 \in DOMAIN p /\ p[1] = "acquire"
  /\ p[i] = "acquire" => i = 1
  /\ Fits(r, p[i])
  /\ p[i] \notin Last => i + 1 \in DOMAIN p /\ p[i + 1] = After(r, p[i])

LEMMA PlanSteps ==
  ASSUME NEW r \in Writes \cup Reads, NEW i \in DOMAIN Plan(r)
  PROVE  Place(r, Plan(r), i)
<1>1. CASE r.op = "AddAccount"
  <2>. DEFINE p == Plan(r)
  <2>1. p = <<"acquire", "begin", "count", "insertAccount", "insertCredential", "commit">>
    BY <1>1 DEF Plan, AddPlan
  <2>. HIDE DEF p
  <2>2. DOMAIN p = 1..6
    BY <2>1
  <2>3. /\ p[1] = "acquire" /\ p[2] = "begin" /\ p[3] = "count"
        /\ p[4] = "insertAccount" /\ p[5] = "insertCredential" /\ p[6] = "commit"
    BY <2>1
  <2>4. /\ After(r, p[1]) = p[2] /\ After(r, p[2]) = p[3] /\ After(r, p[3]) = p[4]
        /\ After(r, p[4]) = p[5] /\ After(r, p[5]) = p[6]
    BY <1>1, <2>3, AfterIs DEF WriteOps
  <2>5. /\ Fits(r, p[1]) /\ Fits(r, p[2]) /\ Fits(r, p[3]) /\ Fits(r, p[4])
        /\ Fits(r, p[5]) /\ Fits(r, p[6])
    BY <1>1, <2>3 DEF Fits, WriteOps
  <2>6. /\ p[1 + 1] = p[2] /\ p[2 + 1] = p[3] /\ p[3 + 1] = p[4] /\ p[4 + 1] = p[5]
        /\ p[5 + 1] = p[6]
    OBVIOUS
  <2>7. /\ Place(r, p, 1) /\ Place(r, p, 2) /\ Place(r, p, 3) /\ Place(r, p, 4)
        /\ Place(r, p, 5) /\ Place(r, p, 6)
    BY <2>2, <2>3, <2>4, <2>5, <2>6 DEF Place, Last
  <2>8. i \in 1..6
    BY <2>2 DEF p
  <2>9. i = 1 \/ i = 2 \/ i = 3 \/ i = 4 \/ i = 5 \/ i = 6
    BY <2>8
  <2>. QED  BY <2>7, <2>9, Zenon DEF p
<1>2. CASE r.op = "UpdateAccount" /\ r.password = ""
  <2>. DEFINE p == Plan(r)
  <2>1. p = <<"acquire", "begin", "updateAccount", "commit">>
    BY <1>2 DEF Plan, UpdatePlan
  <2>. HIDE DEF p
  <2>2. DOMAIN p = 1..4
    BY <2>1
  <2>3. /\ p[1] = "acquire" /\ p[2] = "begin" /\ p[3] = "updateAccount"
        /\ p[4] = "commit"
    BY <2>1
  <2>4. After(r, p[1]) = p[2] /\ After(r, p[2]) = p[3] /\ After(r, p[3]) = p[4]
    BY <1>2, <2>3, AfterIs DEF WriteOps
  <2>5. Fits(r, p[1]) /\ Fits(r, p[2]) /\ Fits(r, p[3]) /\ Fits(r, p[4])
    BY <1>2, <2>3 DEF Fits, WriteOps
  <2>6. p[1 + 1] = p[2] /\ p[2 + 1] = p[3] /\ p[3 + 1] = p[4]
    OBVIOUS
  <2>7. Place(r, p, 1) /\ Place(r, p, 2) /\ Place(r, p, 3) /\ Place(r, p, 4)
    BY <2>2, <2>3, <2>4, <2>5, <2>6 DEF Place, Last
  <2>8. i \in 1..4
    BY <2>2 DEF p
  <2>9. i = 1 \/ i = 2 \/ i = 3 \/ i = 4
    BY <2>8
  <2>. QED  BY <2>7, <2>9, Zenon DEF p
<1>3. CASE r.op = "UpdateAccount" /\ r.password # ""
  <2>. DEFINE p == Plan(r)
  <2>1. p = <<"acquire", "begin", "updateAccount", "findCredential",
             "updateCredential", "commit">>
    BY <1>3 DEF Plan, UpdatePlan
  <2>. HIDE DEF p
  <2>2. DOMAIN p = 1..6
    BY <2>1
  <2>3. /\ p[1] = "acquire" /\ p[2] = "begin" /\ p[3] = "updateAccount"
        /\ p[4] = "findCredential" /\ p[5] = "updateCredential" /\ p[6] = "commit"
    BY <2>1
  <2>4. /\ After(r, p[1]) = p[2] /\ After(r, p[2]) = p[3] /\ After(r, p[3]) = p[4]
        /\ After(r, p[4]) = p[5] /\ After(r, p[5]) = p[6]
    BY <1>3, <2>3, AfterIs DEF WriteOps
  <2>5. /\ Fits(r, p[1]) /\ Fits(r, p[2]) /\ Fits(r, p[3]) /\ Fits(r, p[4])
        /\ Fits(r, p[5]) /\ Fits(r, p[6])
    BY <1>3, <2>3 DEF Fits, WriteOps
  <2>6. /\ p[1 + 1] = p[2] /\ p[2 + 1] = p[3] /\ p[3 + 1] = p[4] /\ p[4 + 1] = p[5]
        /\ p[5 + 1] = p[6]
    OBVIOUS
  <2>7. /\ Place(r, p, 1) /\ Place(r, p, 2) /\ Place(r, p, 3) /\ Place(r, p, 4)
        /\ Place(r, p, 5) /\ Place(r, p, 6)
    BY <2>2, <2>3, <2>4, <2>5, <2>6 DEF Place, Last
  <2>8. i \in 1..6
    BY <2>2 DEF p
  <2>9. i = 1 \/ i = 2 \/ i = 3 \/ i = 4 \/ i = 5 \/ i = 6
    BY <2>8
  <2>. QED  BY <2>7, <2>9, Zenon DEF p
<1>4. CASE r.op = "GetAccount"
  <2>. DEFINE p == Plan(r)
  <2>1. p = <<"acquire", "readAccount">>
    BY <1>4 DEF Plan
  <2>. HIDE DEF p
  <2>2. DOMAIN p = 1..2
    BY <2>1
  <2>3. /\ p[1] = "acquire" /\ p[2] = "readAccount"
    BY <2>1
  <2>4. After(r, p[1]) = p[2]
    BY <1>4, <2>3, AfterIs DEF WriteOps
  <2>5. Fits(r, p[1]) /\ Fits(r, p[2])
    BY <1>4, <2>3 DEF Fits, WriteOps
  <2>6. p[1 + 1] = p[2]
    OBVIOUS
  <2>7. Place(r, p, 1) /\ Place(r, p, 2)
    BY <2>2, <2>3, <2>4, <2>5, <2>6 DEF Place, Last
  <2>8. i \in 1..2
    BY <2>2 DEF p
  <2>9. i = 1 \/ i = 2
    BY <2>8
  <2>. QED  BY <2>7, <2>9, Zenon DEF p
<1>5. CASE r.op = "ListAccounts"
  <2>. DEFINE p == Plan(r)
  <2>1. p = <<"acquire", "readAccounts">>
    BY <1>5 DEF Plan
  <2>. HIDE DEF p
  <2>2. DOMAIN p = 1..2
    BY <2>1
  <2>3. /\ p[1] = "acquire" /\ p[2] = "readAccounts"
    BY <2>1
  <2>4. After(r, p[1]) = p[2]
    BY <1>5, <2>3, AfterIs DEF WriteOps
  <2>5. Fits(r, p[1]) /\ Fits(r, p[2])
    BY <1>5, <2>3 DEF Fits, WriteOps
  <2>6. p[1 + 1] = p[2]
    OBVIOUS
  <2>7. Place(r, p, 1) /\ Place(r, p, 2)
    BY <2>2, <2>3, <2>4, <2>5, <2>6 DEF Place, Last
  <2>8. i \in 1..2
    BY <2>2 DEF p
  <2>9. i = 1 \/ i = 2
    BY <2>8
  <2>. QED  BY <2>7, <2>9, Zenon DEF p
<1>6. CASE r.op = "GetCredential"
  <2>. DEFINE p == Plan(r)
  <2>1. p = <<"acquire", "checkAccount", "readCredential">>
    BY <1>6 DEF Plan
  <2>. HIDE DEF p
  <2>2. DOMAIN p = 1..3
    BY <2>1
  <2>3. /\ p[1] = "acquire" /\ p[2] = "checkAccount" /\ p[3] = "readCredential"
    BY <2>1
  <2>4. After(r, p[1]) = p[2] /\ After(r, p[2]) = p[3]
    BY <1>6, <2>3, AfterIs DEF WriteOps
  <2>5. Fits(r, p[1]) /\ Fits(r, p[2]) /\ Fits(r, p[3])
    BY <1>6, <2>3 DEF Fits, WriteOps
  <2>6. p[1 + 1] = p[2] /\ p[2 + 1] = p[3]
    OBVIOUS
  <2>7. Place(r, p, 1) /\ Place(r, p, 2) /\ Place(r, p, 3)
    BY <2>2, <2>3, <2>4, <2>5, <2>6 DEF Place, Last
  <2>8. i \in 1..3
    BY <2>2 DEF p
  <2>9. i = 1 \/ i = 2 \/ i = 3
    BY <2>8
  <2>. QED  BY <2>7, <2>9, Zenon DEF p
<1>. QED  BY <1>1, <1>2, <1>3, <1>4, <1>5, <1>6, OperationIs

LEMMA PlanStarts ==
  ASSUME NEW r \in Writes \cup Reads
  PROVE  1 \in DOMAIN Plan(r) /\ Plan(r)[1] = "acquire"
<1>1. ASSUME NEW a, NEW b, NEW c, NEW d, NEW e, NEW f
      PROVE  /\ 1 \in DOMAIN <<a, b>> /\ 1 \in DOMAIN <<a, b, c>>
             /\ 1 \in DOMAIN <<a, b, c, d>> /\ 1 \in DOMAIN <<a, b, c, d, e, f>>
  OBVIOUS
<1>2. CASE r.op \in {"AddAccount", "UpdateAccount"}
  BY <1>1, <1>2 DEF Plan, AddPlan, UpdatePlan
<1>3. CASE r.op \in {"GetAccount", "ListAccounts", "GetCredential"}
  BY <1>1, <1>3 DEF Plan
<1>. QED  BY <1>2, <1>3, OperationIs

LEMMA RequestIs ==
  ASSUME NEW r \in Writes \cup Reads, Valid(r)
  PROVE  /\ r.op \in WriteOps => r \in Writes /\ r.id # "" /\ r.id \in Ids
         /\ r.op = "AddAccount" => r.password # ""
         /\ r.op \in {"GetAccount", "GetCredential"} => r.id \in Ids
<1>1. CASE r \in Writes
  <2>1. /\ r.op \in {"AddAccount", "UpdateAccount"} /\ r.id \in Ids \cup {""}
    BY <1>1 DEF Writes
  <2>. QED  BY <1>1, <2>1 DEF Valid, WriteOps
<1>2. CASE r \in Reads
  <2>1. CASE r = [op |-> "ListAccounts"]
    BY <2>1 DEF WriteOps
  <2>2. CASE r.op \in {"GetAccount", "GetCredential"} /\ r.id \in Ids \cup {""}
    BY <2>2 DEF Valid, WriteOps
  <2>. QED  BY <1>2, <2>1, <2>2 DEF Reads
<1>. QED  BY <1>1, <1>2

(* What the invariant says of a call at its step. *)
Answers == {"none", "ok", "not_found", "invalid_argument", "internal"}
Calls   == [req : Writes \cup Reads \cup {NoRequest}, pc : 0..6, answer : Answers]

LEMMA StepIs ==
  ASSUME TypeOK, Requests, NEW t \in Threads
  PROVE  /\ Idle(t) => Step(t) = "idle"
         /\ ~Idle(t) =>
              /\ Req(t) \in Writes \cup Reads /\ Valid(Req(t))
              /\ Step(t) # "idle" /\ Fits(Req(t), Step(t))
              /\ Place(Req(t), Plan(Req(t)), call[t].pc)
<1>1. Idle(t) => Step(t) = "idle"
  BY DEF Step
<1>2. ASSUME ~Idle(t)
      PROVE  /\ Req(t) \in Writes \cup Reads /\ Valid(Req(t))
             /\ Place(Req(t), Plan(Req(t)), call[t].pc)
  <2>1. /\ Req(t) \in Writes \cup Reads /\ Valid(Req(t))
        /\ call[t].pc \in DOMAIN Plan(Req(t))
    BY <1>2, Zenon DEF Requests
  <2>. QED  BY <2>1, PlanSteps, Zenon
<1>3. ASSUME ~Idle(t) PROVE Fits(Req(t), Step(t))
  <2>1. Step(t) = Plan(Req(t))[call[t].pc]
    BY <1>3 DEF Step, Req
  <2>. QED  BY <1>2, <1>3, <2>1 DEF Place
<1>4. ~Fits(Req(t), "idle")
  BY DEF Fits
<1>. QED  BY <1>1, <1>2, <1>3, <1>4, Zenon

(* The others are where they were. *)
Others(t) ==
  \A u \in Threads \ {t} :
    /\ call'[u] = call[u] /\ Step(u)' = Step(u) /\ Req(u)' = Req(u)
    /\ Idle(u)' <=> Idle(u)

LEMMA OthersStay ==
  ASSUME NEW t \in Threads, \A u \in Threads \ {t} : call'[u] = call[u]
  PROVE  Others(t)
BY Zenon DEF Others, Step, Req, Idle

LEMMA RequestsStay ==
  ASSUME TypeOK, Requests, NEW t \in Threads, Others(t),
         ~Idle(t)' => /\ Req(t)' \in Writes \cup Reads /\ Valid(Req(t))'
                      /\ call'[t].pc \in DOMAIN Plan(Req(t)')
  PROVE  Requests'
<1>1. ASSUME NEW u \in Threads, ~Idle(u)'
      PROVE  /\ Req(u)' \in Writes \cup Reads /\ Valid(Req(u))'
             /\ call'[u].pc \in DOMAIN Plan(Req(u)')
  <2>1. CASE u = t
    BY <1>1, <2>1
  <2>2. CASE u # t
    <3>1. ~Idle(u) /\ Req(u)' = Req(u) /\ call'[u] = call[u]
      BY <1>1, <2>2 DEF Others
    <3>2. Req(u) \in Writes \cup Reads /\ Valid(Req(u)) /\ call[u].pc \in DOMAIN Plan(Req(u))
      BY <3>1, Zenon DEF Requests
    <3>3. Valid(Req(u))' <=> Valid(Req(u)')
      OBVIOUS
    <3>. QED  BY <3>1, <3>2, <3>3
  <2>. QED  BY <2>1, <2>2
<1>. QED  BY <1>1, Zenon DEF Requests

(* The three ways in which the call of a thread changes. *)
LEMMA Answered ==
  ASSUME TypeOK, Requests, NEW t \in Threads, NEW status \in Answers, Answer(t, status)
  PROVE  /\ call' \in [Threads -> Calls] /\ Others(t) /\ Requests'
         /\ Idle(t)' /\ Step(t)' = "idle" /\ call'[t].answer = status /\ call'[t].pc = 0
<1>1. call \in [Threads -> Calls]
  BY DEF TypeOK, Calls, Answers
<1>. DEFINE c == [req |-> NoRequest, pc |-> 0, answer |-> status]
<1>2. c \in Calls /\ c.pc = 0 /\ c.answer = status
  BY DEF Calls
<1>3. call' = [call EXCEPT ![t] = c]
  BY DEF Answer
<1>. HIDE DEF c
<1>4. call' \in [Threads -> Calls] /\ call'[t] = c /\ \A u \in Threads \ {t} : call'[u] = call[u]
  BY <1>1, <1>2, <1>3
<1>5. Others(t)
  BY <1>4, OthersStay
<1>6. Idle(t)' /\ Step(t)' = "idle"
  BY <1>2, <1>4 DEF Idle, Step
<1>7. Requests'
  BY <1>5, <1>6, RequestsStay
<1>. QED  BY <1>2, <1>4, <1>5, <1>6, <1>7

LEMMA Proceeded ==
  ASSUME TypeOK, Requests, NEW t \in Threads, ~Idle(t), Step(t) \notin Last, Proceed(t)
  PROVE  /\ call' \in [Threads -> Calls] /\ Others(t) /\ Requests'
         /\ ~Idle(t)' /\ Req(t)' = Req(t) /\ Step(t)' = After(Req(t), Step(t))
         /\ call'[t].pc # 0
<1>. DEFINE r == Req(t)
            i == call[t].pc
<1>1. call \in [Threads -> Calls]
  BY DEF TypeOK, Calls, Answers
<1>2. /\ r \in Writes \cup Reads /\ Valid(r) /\ Place(r, Plan(r), i)
      /\ Step(t) = Plan(r)[i]
  BY StepIs DEF Step, Req
<1>3. i + 1 \in DOMAIN Plan(r) /\ Plan(r)[i + 1] = After(r, Plan(r)[i]) /\ i + 1 # 0
  BY <1>2 DEF Place
<1>4. i + 1 \in 1..6
  BY <1>2, <1>3, PlanSteps DEF Place
<1>. DEFINE c == [call[t] EXCEPT !.pc = i + 1]
<1>5. c \in Calls /\ c.pc = i + 1 /\ c.req = r
  BY <1>1, <1>4 DEF Calls, Req
<1>6. call' = [call EXCEPT ![t] = c]
  BY DEF Proceed
<1>. HIDE DEF c
<1>7. call' \in [Threads -> Calls] /\ call'[t] = c /\ \A u \in Threads \ {t} : call'[u] = call[u]
  BY <1>1, <1>5, <1>6
<1>8. Others(t)
  BY <1>7, OthersStay
<1>9. ~Idle(t)' /\ Req(t)' = r /\ call'[t].pc = i + 1
  BY <1>3, <1>5, <1>7 DEF Idle, Req
<1>10. Step(t)' = After(r, Step(t))
  <2>1. Step(t)' = Plan(call'[t].req)[call'[t].pc]
    BY <1>9 DEF Step
  <2>2. Step(t)' = Plan(r)[i + 1]
    BY <1>5, <1>7, <2>1
  <2>. QED  BY <1>2, <1>3, <2>2
<1>11. Requests'
  <2>1. Valid(r)' <=> Valid(Req(t)')
    OBVIOUS
  <2>. QED  BY <1>2, <1>3, <1>8, <1>9, <2>1, RequestsStay
<1>. QED  BY <1>3, <1>7, <1>8, <1>9, <1>10, <1>11

----------------------------------------------------------------------------
(* The kinds of steps                                                      *)

Sessions == [open : BOOLEAN, accounts : AccountTable, credentials : CredentialTable]

Stepped(t) == call' \in [Threads -> Calls] /\ Others(t) /\ Requests'

(* Without a connection: a request arrives, or is refused one. *)
Waits(t) ==
  /\ Step(t) \in {"idle", "acquire"} /\ Step(t)' \in {"idle", "acquire"}
  /\ Step(t)' = "idle" => call'[t].answer # "ok"
  /\ UNCHANGED <<tables, session, user>>

Takes(t, k) ==
  /\ Step(t) = "acquire" /\ user[k] = Pool
  /\ Step(t)' = After(Req(t), "acquire") /\ Req(t)' = Req(t) /\ call'[t].pc # 0
  /\ user' = [user EXCEPT ![k] = t]
  /\ UNCHANGED <<tables, session>>

(* A statement that is not the last one. *)
Moves(t, k) ==
  /\ user[k] = t /\ Step(t) \notin {"idle", "acquire"} \cup Last
  /\ Step(t)' = After(Req(t), Step(t)) /\ Req(t)' = Req(t) /\ call'[t].pc # 0
  /\ session'[k] \in Sessions /\ session' = [session EXCEPT ![k] = session'[k]]
  /\ Wrote(session'[k], Step(t)', Req(t)) /\ Known(t)'
  /\ \A j \in Connections \ {k} :
       DOMAIN session'[k].accounts \cap DOMAIN session[j].accounts = {}
  /\ UNCHANGED <<tables, user>>

Commits(r) ==
  /\ accounts' = Over(AccountRow(r), accounts)
  /\ credentials' = IF r.password = "" THEN credentials ELSE Over(CredentialRow(r), credentials)

Leaves(t, k) ==
  /\ user[k] = t /\ Step(t) \notin {"idle", "acquire"}
  /\ Step(t)' = "idle" /\ call'[t].pc = 0
  /\ user' = [user EXCEPT ![k] = Pool]
  /\ session' = [session EXCEPT ![k] = NoTransaction]
  /\ \/ UNCHANGED tables /\ (call'[t].answer = "ok" => Req(t).op \notin WriteOps)
     \/ Step(t) = "commit" /\ Commits(Req(t)) /\ call'[t].answer \in {"ok", "internal"}

(* What the invariant says of the call that has a connection. *)
LEMMA HolderIs ==
  ASSUME IInv, NEW t \in Threads, NEW k \in Connections, user[k] = t
  PROVE  /\ Req(t) \in Writes \cup Reads /\ Valid(Req(t)) /\ Fits(Req(t), Step(t))
         /\ ~Idle(t) /\ Step(t) \notin {"idle", "acquire"}
         /\ Wrote(session[k], Step(t), Req(t)) /\ Known(t)
         /\ session[k] \in Sessions /\ session \in [Connections -> Sessions]
<1>1. Step(t) \notin {"idle", "acquire"}
  BY Zenon DEF IInv, Owners
<1>2. Wrote(session[k], Step(t), Req(t)) /\ Known(t)
  BY Zenon DEF IInv, Transactions, Presence
<1>3. session \in [Connections -> Sessions]
  BY Zenon DEF IInv, TypeOK, Sessions
<1>4. /\ ~Idle(t)
      /\ Req(t) \in Writes \cup Reads /\ Valid(Req(t)) /\ Fits(Req(t), Step(t))
  <2>1. TypeOK /\ Requests /\ Step(t) # "idle"
    BY <1>1, Zenon DEF IInv
  <2>. QED  BY <2>1, StepIs, Zenon
<1>. QED  BY <1>1, <1>2, <1>3, <1>4

LEMMA WaitKinds ==
  ASSUME IInv, NEW t \in Threads,
         (\E r \in Writes \cup Reads : Arrive(t, r) \/ Reject(t, r)) \/ AcquireFails(t)
  PROVE  Stepped(t) /\ Waits(t)
<1>1. TypeOK /\ Requests
  BY Zenon DEF IInv
<1>2. ASSUME NEW r \in Writes \cup Reads, Arrive(t, r) PROVE Stepped(t) /\ Waits(t)
  <2>. DEFINE c == [req |-> r, pc |-> 1, answer |-> "none"]
  <2>1. Idle(t) /\ Valid(r) /\ call' = [call EXCEPT ![t] = c] /\ UNCHANGED <<tables, session, user>>
    BY <1>2 DEF Arrive
  <2>2. c \in Calls /\ c.req = r /\ c.pc = 1
    BY DEF Calls, Answers
  <2>. HIDE DEF c
  <2>3. call \in [Threads -> Calls]
    BY <1>1 DEF TypeOK, Calls, Answers
  <2>4. call' \in [Threads -> Calls] /\ call'[t] = c /\ \A u \in Threads \ {t} : call'[u] = call[u]
    BY <2>1, <2>2, <2>3
  <2>5. Others(t)
    BY <2>4, OthersStay
  <2>6. ~Idle(t)' /\ Req(t)' = r /\ Step(t)' = Plan(r)[1] /\ Valid(Req(t)')
    BY <2>1, <2>2, <2>4 DEF Idle, Req, Step
  <2>7. 1 \in DOMAIN Plan(r) /\ Plan(r)[1] = "acquire"
    BY PlanStarts
  <2>8. Requests'
    BY <1>1, <2>2, <2>4, <2>5, <2>6, <2>7, RequestsStay
  <2>9. Step(t) = "idle"
    BY <2>1 DEF Step
  <2>. QED  BY <2>1, <2>4, <2>5, <2>6, <2>7, <2>8, <2>9 DEF Stepped, Waits
<1>3. ASSUME NEW r \in Writes \cup Reads, Reject(t, r) PROVE Stepped(t) /\ Waits(t)
  <2>1. /\ Step(t) = "idle" /\ Answer(t, "invalid_argument") /\ "invalid_argument" \in Answers
        /\ UNCHANGED <<tables, session, user>>
    BY <1>3 DEF Reject, Step, Answers
  <2>. QED  BY <1>1, <2>1, Answered DEF Stepped, Waits
<1>4. ASSUME AcquireFails(t) PROVE Stepped(t) /\ Waits(t)
  <2>1. /\ Step(t) = "acquire" /\ Answer(t, "internal") /\ "internal" \in Answers
        /\ UNCHANGED <<tables, session, user>>
    BY <1>4 DEF AcquireFails, Answers
  <2>. QED  BY <1>1, <2>1, Answered DEF Stepped, Waits
<1>. QED  BY <1>2, <1>3, <1>4

LEMMA TakeKind ==
  ASSUME IInv, NEW t \in Threads, NEW k \in Connections, Acquire(t, k)
  PROVE  Stepped(t) /\ Takes(t, k)
<1>1. TypeOK /\ Requests
  BY Zenon DEF IInv
<1>2. /\ Step(t) = "acquire" /\ user[k] = Pool /\ Proceed(t)
      /\ user' = [user EXCEPT ![k] = t] /\ UNCHANGED <<tables, session>>
  BY DEF Acquire
<1>3. ~Idle(t) /\ Step(t) \notin Last
  BY <1>2 DEF Step, Last
<1>. QED  BY <1>1, <1>2, <1>3, Proceeded DEF Stepped, Takes

LEMMA MoveStarts ==
  ASSUME IInv, NEW t \in Threads, NEW k \in Connections, user[k] = t,
         Step(t) \notin Last, Proceed(t)
  PROVE  /\ Stepped(t) /\ Step(t) \notin {"idle", "acquire"} \cup Last
         /\ Step(t)' = After(Req(t), Step(t)) /\ Req(t)' = Req(t) /\ call'[t].pc # 0
<1>1. TypeOK /\ Requests
  BY Zenon DEF IInv
<1>2. ~Idle(t) /\ Step(t) \notin {"idle", "acquire"}
  BY HolderIs, Zenon
<1>. QED  BY <1>1, <1>2, Proceeded, Zenon DEF Stepped

(* No other transaction has written the account. *)
LEMMA Unlocked ==
  ASSUME StoreConstants, IInv, NEW k \in Connections, NEW id \in Ids,
         ~Locked(k, "accounts", AccountOf(id))
  PROVE  \A j \in Connections \ {k} : id \notin DOMAIN session[j].accounts
<1>1. ASSUME NEW j \in Connections \ {k} PROVE id \notin DOMAIN session[j].accounts
  <2>1. session[j].accounts \in AccountTable
    BY DEF IInv, TypeOK
  <2>2. SelectRows(session[j]["accounts"], AccountOf(id)) = {}
    BY Zenon DEF Locked
  <2>3. SelectRows(session[j].accounts, AccountOf(id)) = {id} \cap DOMAIN session[j].accounts
    BY <2>1, AccountTableIs, SelectAccount, Zenon
  <2>. QED  BY <2>2, <2>3
<1>. QED  BY <1>1

(* A move that leaves the transaction as it is. *)
LEMMA StillMoves ==
  ASSUME IInv, NEW t \in Threads, NEW k \in Connections, user[k] = t,
         Step(t) \notin Last, Proceed(t), UNCHANGED <<tables, session, user>>,
         Wrote(session[k], After(Req(t), Step(t)), Req(t)), Known(t)'
  PROVE  Stepped(t) /\ Moves(t, k)
<1>1. /\ session[k] \in Sessions /\ session \in [Connections -> Sessions]
  BY HolderIs, Zenon
<1>2. session' = [session EXCEPT ![k] = session'[k]] /\ session'[k] = session[k]
  BY <1>1
<1>3. \A j \in Connections \ {k} : DOMAIN session[k].accounts \cap DOMAIN session[j].accounts = {}
  BY Zenon DEF IInv, Exclusive
<1>4. /\ Stepped(t) /\ Step(t) \notin {"idle", "acquire"} \cup Last
      /\ Step(t)' = After(Req(t), Step(t)) /\ Req(t)' = Req(t) /\ call'[t].pc # 0
  BY MoveStarts, Zenon
<1>. QED  BY <1>1, <1>2, <1>3, <1>4, Zenon DEF Moves

LEMMA PlainMoves ==
  ASSUME StoreConstants, IInv, NEW t \in Threads, NEW k \in Connections,
         CountNone(t, k) \/ FindCredential(t, k) \/ CheckAccount(t, k)
  PROVE  Stepped(t) /\ Moves(t, k)
<1>. DEFINE r == Req(t)
<1>1. /\ user[k] = t /\ Proceed(t) /\ UNCHANGED <<tables, session, user>>
      /\ Step(t) \in {"count", "findCredential", "checkAccount"}
      /\ Step(t) = "checkAccount" => AccountsFound(t) # {}
  BY DEF CountNone, FindCredential, CheckAccount, At
<1>2. /\ r \in Writes \cup Reads /\ Valid(r) /\ Fits(r, Step(t))
      /\ Wrote(session[k], Step(t), r) /\ Known(t)
  BY <1>1, HolderIs, Zenon
<1>3. Step(t) \notin Last
  BY <1>1 DEF Last
<1>4. Step(t)' = After(r, Step(t)) /\ Req(t)' = r
  BY <1>1, <1>3, MoveStarts, Zenon
<1>5. CASE Step(t) = "count"
  <2>1. After(r, Step(t)) = "insertAccount"
    BY <1>5, AfterIs
  <2>2. Wrote(session[k], "insertAccount", r)
    BY <1>2, <1>5 DEF Wrote
  <2>3. Known(t)'
    BY <1>4, <2>1 DEF Known
  <2>. QED  BY <1>1, <1>3, <2>1, <2>2, <2>3, StillMoves, Zenon
<1>6. CASE Step(t) = "findCredential"
  <2>1. After(r, Step(t)) = "updateCredential"
    BY <1>6, AfterIs
  <2>2. Wrote(session[k], "updateCredential", r)
    BY <1>2, <1>6 DEF Wrote
  <2>3. Known(t)'
    <3>1. r.id \in DOMAIN accounts /\ accounts' = accounts
      <4>1. r.id \in DOMAIN accounts
        BY <1>2, <1>6 DEF Known
      <4>2. accounts' = accounts
        BY <1>1 DEF tables
      <4>. QED  BY <4>1, <4>2
    <3>. QED  BY <1>4, <2>1, <3>1 DEF Known
  <2>. QED  BY <1>1, <1>3, <2>1, <2>2, <2>3, StillMoves, Zenon
<1>7. CASE Step(t) = "checkAccount"
  <2>1. After(r, Step(t)) = "readCredential"
    BY <1>7, AfterIs
  <2>2. Wrote(session[k], "readCredential", r)
    BY <1>2, <1>7 DEF Wrote
  <2>3. r.id \in DOMAIN accounts
    <3>1. r.id \in Ids
      BY <1>2, <1>7, RequestIs DEF Fits
    <3>2. accounts \in AccountTable
      BY DEF IInv, TypeOK
    <3>3. AccountsFound(t) = {r.id} \cap DOMAIN accounts
      BY <3>1, <3>2, AccountTableIs, SelectAccount, Zenon DEF AccountsFound
    <3>. QED  BY <1>1, <1>7, <3>3
  <2>4. Known(t)'
    <3>1. accounts' = accounts
      BY <1>1 DEF tables
    <3>. QED  BY <1>4, <2>1, <2>3, <3>1 DEF Known
  <2>. QED  BY <1>1, <1>3, <2>1, <2>2, <2>4, StillMoves, Zenon
<1>. QED  BY <1>1, <1>5, <1>6, <1>7

LEMMA NoTransactionIs ==
  /\ NoTransaction \in Sessions
  /\ NoTransaction.accounts = <<>> /\ NoTransaction.credentials = <<>>
BY EmptyTables DEF NoTransaction, Sessions

LEMMA BeginMoves ==
  ASSUME IInv, NEW t \in Threads, NEW k \in Connections, Begin(t, k)
  PROVE  Stepped(t) /\ Moves(t, k)
<1>. DEFINE r == Req(t)
            s == [NoTransaction EXCEPT !.open = TRUE]
<1>1. /\ user[k] = t /\ Step(t) = "begin" /\ Proceed(t) /\ user' = user
      /\ accounts' = Over(session[k].accounts, accounts)
      /\ credentials' = Over(session[k].credentials, credentials)
      /\ session' = [session EXCEPT ![k] = s]
  BY Zenon DEF Begin, At
<1>2. /\ session \in [Connections -> Sessions] /\ Wrote(session[k], Step(t), r)
      /\ r \in Writes \cup Reads /\ Fits(r, Step(t))
  BY <1>1, HolderIs, Zenon
<1>3. UNCHANGED tables
  <2>1. session[k].accounts = <<>> /\ session[k].credentials = <<>>
    BY <1>1, <1>2 DEF Wrote, NoTransaction
  <2>2. accounts \in AccountTable /\ credentials \in CredentialTable
    BY DEF IInv, TypeOK
  <2>3. Over(<<>>, accounts) = accounts
    BY <2>2, AccountTableIs, Zenon
  <2>4. Over(<<>>, credentials) = credentials
    BY <2>2, CredentialTableIs, Zenon
  <2>. QED  BY <1>1, <2>1, <2>3, <2>4 DEF tables
<1>4. s \in Sessions /\ s.accounts = <<>> /\ s.credentials = <<>>
  BY NoTransactionIs DEF Sessions
<1>. HIDE DEF s
<1>5. session'[k] = s /\ session' = [session EXCEPT ![k] = session'[k]]
  BY <1>1, <1>2
<1>6. Step(t) \notin Last
  BY <1>1 DEF Last
<1>7. /\ Stepped(t) /\ Step(t) \notin {"idle", "acquire"} \cup Last
      /\ Step(t)' = After(r, Step(t)) /\ Req(t)' = r /\ call'[t].pc # 0
  BY <1>1, <1>6, MoveStarts, Zenon
<1>8. Step(t)' \in {"count", "updateAccount"}
  BY <1>1, <1>7, AfterIs
<1>9. Wrote(s, Step(t)', r)
  BY <1>4, <1>8 DEF Wrote
<1>10. Known(t)'
  BY <1>8 DEF Known
<1>11. \A j \in Connections \ {k} : DOMAIN s.accounts \cap DOMAIN session[j].accounts = {}
  BY <1>4, EmptyTables
<1>12. UNCHANGED <<tables, user>>
  BY <1>1, <1>3
<1>. QED  BY <1>1, <1>4, <1>5, <1>7, <1>9, <1>10, <1>11, <1>12, Zenon DEF Moves

(* What the statements on trading_account find and write. *)
LEMMA AccountWrites ==
  ASSUME StoreConstants, IInv, NEW t \in Threads, NEW k \in Connections,
         InsertAccount(t, k) \/ UpdateRow(t, k)
  PROVE  /\ user[k] = t /\ Step(t) \in {"insertAccount", "updateAccount"}
         /\ WriteAccounts(t, k, AccountRow(Req(t)))
         /\ Req(t) \in Writes /\ Req(t).id # "" /\ Req(t).id \in Ids
         /\ Step(t) = "insertAccount" => Req(t).id \notin DOMAIN accounts
         /\ Step(t) = "updateAccount" => Req(t).id \in DOMAIN accounts
         /\ \A j \in Connections \ {k} : Req(t).id \notin DOMAIN session[j].accounts
<1>. DEFINE r == Req(t)
<1>1. /\ user[k] = t /\ Step(t) \in {"insertAccount", "updateAccount"}
      /\ ~Locked(k, "accounts", AccountOf(r.id))
  BY DEF InsertAccount, UpdateRow, At
<1>2. /\ r \in Writes \cup Reads /\ Valid(r) /\ Fits(r, Step(t))
      /\ Wrote(session[k], Step(t), r)
  BY <1>1, HolderIs, Zenon
<1>3. r \in Writes /\ r.id # "" /\ r.id \in Ids
  <2>1. r.op \in WriteOps
    BY <1>1, <1>2 DEF Fits, WriteOps
  <2>. QED  BY <1>2, <2>1, RequestIs, Zenon
<1>4. \A j \in Connections \ {k} : r.id \notin DOMAIN session[j].accounts
  BY <1>1, <1>3, Unlocked, Zenon
<1>5. CASE InsertAccount(t, k)
  <2>1. /\ Step(t) = "insertAccount" /\ r.id \notin DOMAIN accounts
        /\ WriteAccounts(t, k, InsertRow(r.id, KeyValues(AccountRecord(r))))
    BY <1>5 DEF InsertAccount, At
  <2>2. KeyValues(AccountRecord(r)) = AccountRecord(r)
    BY <1>3, AccountRecordIs, Zenon
  <2>3. WriteAccounts(t, k, AccountRow(r))
    BY <2>1, <2>2 DEF AccountRow
  <2>. QED  BY <1>1, <1>3, <1>4, <2>1, <2>3
<1>6. CASE UpdateRow(t, k)
  <2>1. /\ Step(t) = "updateAccount" /\ DOMAIN AccountsUpdated(t, k) # {}
        /\ WriteAccounts(t, k, AccountsUpdated(t, k))
    BY <1>6 DEF UpdateRow, At
  <2>2. accounts \in AccountTable
    BY DEF IInv, TypeOK
  <2>3. AccountsSeen(k) = accounts
    <3>1. session[k].accounts = <<>>
      BY <1>2, <2>1 DEF Wrote
    <3>2. Over(<<>>, accounts) = accounts
      BY <2>2, AccountTableIs, Zenon
    <3>. QED  BY <3>1, <3>2 DEF AccountsSeen
  <2>4. AccountsUpdated(t, k) = IF r.id \in DOMAIN accounts THEN AccountRow(r) ELSE <<>>
    BY <1>3, <2>2, <2>3, AccountUpdate, Zenon DEF AccountsUpdated
  <2>5. r.id \in DOMAIN accounts /\ AccountsUpdated(t, k) = AccountRow(r)
    BY <2>1, <2>4, EmptyTables
  <2>6. WriteAccounts(t, k, AccountRow(r))
    BY <2>1, <2>5, Zenon
  <2>. QED  BY <1>1, <1>3, <1>4, <2>1, <2>5, <2>6
<1>. QED  BY <1>5, <1>6

LEMMA AccountMoves ==
  ASSUME StoreConstants, IInv, NEW t \in Threads, NEW k \in Connections,
         InsertAccount(t, k) \/ UpdateRow(t, k)
  PROVE  Stepped(t) /\ Moves(t, k)
<1>. DEFINE r == Req(t)
            rows == AccountRow(r)
            s == [session[k] EXCEPT !.accounts = rows]
<1>1. /\ user[k] = t /\ Step(t) \in {"insertAccount", "updateAccount"}
      /\ WriteAccounts(t, k, rows)
      /\ r \in Writes /\ r.id # "" /\ r.id \in Ids
      /\ Step(t) = "insertAccount" => r.id \notin DOMAIN accounts
      /\ Step(t) = "updateAccount" => r.id \in DOMAIN accounts
      /\ \A j \in Connections \ {k} : r.id \notin DOMAIN session[j].accounts
  BY AccountWrites, Zenon
<1>2. /\ session \in [Connections -> Sessions] /\ Wrote(session[k], Step(t), r)
      /\ Fits(r, Step(t))
  BY <1>1, HolderIs, Zenon
<1>3. rows \in AccountTable /\ DOMAIN rows = {r.id}
  BY <1>1, WrittenRows, Zenon
<1>4. session[k].accounts = <<>> /\ session[k].credentials = <<>>
  BY <1>1, <1>2 DEF Wrote
<1>5. session' = [session EXCEPT ![k] = s] /\ Proceed(t) /\ UNCHANGED <<tables, user>>
  <2>1. Over(rows, <<>>) = rows
    BY <1>3, AccountTableIs, Zenon
  <2>2. session' = [session EXCEPT ![k].accounts = Over(rows, session[k].accounts)]
    BY <1>1 DEF WriteAccounts
  <2>. HIDE DEF rows
  <2>3. session' = [session EXCEPT ![k].accounts = rows]
    BY <1>4, <2>1, <2>2
  <2>. QED  BY <1>1, <1>2, <2>3 DEF WriteAccounts
<1>. HIDE DEF rows
<1>6. s \in Sessions /\ s.accounts = rows /\ s.credentials = <<>>
  BY <1>2, <1>3, <1>4 DEF Sessions
<1>. HIDE DEF s
<1>7. session'[k] = s /\ session' = [session EXCEPT ![k] = session'[k]]
  BY <1>2, <1>5
<1>8. Step(t) \notin Last
  BY <1>1 DEF Last
<1>9. /\ Stepped(t) /\ Step(t) \notin {"idle", "acquire"} \cup Last
      /\ Step(t)' = After(r, Step(t)) /\ Req(t)' = r /\ call'[t].pc # 0
  BY <1>1, <1>5, <1>8, MoveStarts, Zenon
<1>10. \/ Step(t) = "insertAccount" /\ Step(t)' = "insertCredential"
       \/ Step(t) = "updateAccount" /\ r.password # "" /\ Step(t)' = "findCredential"
       \/ /\ Step(t) = "updateAccount" /\ r.password = ""
          /\ Step(t)' = "commit" /\ r.op = "UpdateAccount"
  <2>1. CASE Step(t) = "insertAccount"
    BY <1>9, <2>1, AfterIs
  <2>2. CASE Step(t) = "updateAccount"
    BY <1>2, <1>9, <2>2, AfterIs DEF Fits
  <2>. QED  BY <1>1, <2>1, <2>2
<1>11. Wrote(s, Step(t)', r)
  BY <1>6, <1>10 DEF Wrote, rows
<1>12. Known(t)'
  <2>1. accounts' = accounts
    BY <1>5 DEF tables
  <2>. QED  BY <1>1, <1>9, <1>10, <2>1 DEF Known
<1>13. \A j \in Connections \ {k} : DOMAIN s.accounts \cap DOMAIN session[j].accounts = {}
  BY <1>1, <1>3, <1>6
<1>. QED  BY <1>1, <1>5, <1>6, <1>7, <1>9, <1>11, <1>12, <1>13, Zenon DEF Moves

LEMMA CredentialWrites ==
  ASSUME StoreConstants, IInv, NEW t \in Threads, NEW k \in Connections,
         InsertCredential(t, k) \/ UpdateCredential(t, k)
  PROVE  /\ user[k] = t /\ Step(t) \in {"insertCredential", "updateCredential"}
         /\ WriteCredentials(t, k, CredentialRow(Req(t)))
         /\ Req(t) \in Writes /\ Req(t).id # "" /\ Req(t).password # ""
<1>. DEFINE r == Req(t)
<1>1. user[k] = t /\ Step(t) \in {"insertCredential", "updateCredential"}
  BY DEF InsertCredential, UpdateCredential, At
<1>2. /\ r \in Writes \cup Reads /\ Valid(r) /\ Fits(r, Step(t))
      /\ Wrote(session[k], Step(t), r)
  BY <1>1, HolderIs, Zenon
<1>3. r \in Writes /\ r.id # "" /\ r.password # ""
  <2>1. r.op \in WriteOps /\ (r.op = "AddAccount" \/ r.password # "")
    BY <1>1, <1>2 DEF Fits, WriteOps
  <2>. QED  BY <1>2, <2>1, RequestIs, Zenon
<1>4. CASE InsertCredential(t, k)
  <2>1. WriteCredentials(t, k, InsertRow(r.id, KeyValues(CredentialRecord(r))))
    BY <1>4 DEF InsertCredential
  <2>2. KeyValues(CredentialRecord(r)) = CredentialRecord(r)
    BY <1>3, CredentialRecordIs, Zenon
  <2>3. WriteCredentials(t, k, CredentialRow(r))
    BY <2>1, <2>2 DEF CredentialRow
  <2>. QED  BY <1>1, <1>3, <2>3
<1>5. CASE UpdateCredential(t, k)
  <2>1. /\ DOMAIN CredentialsUpdated(t, k) # {}
        /\ WriteCredentials(t, k, CredentialsUpdated(t, k))
    BY <1>5 DEF UpdateCredential
  <2>2. credentials \in CredentialTable
    BY DEF IInv, TypeOK
  <2>3. CredentialsSeen(k) = credentials
    <3>1. session[k].credentials = <<>>
      BY <1>1, <1>2 DEF Wrote
    <3>2. Over(<<>>, credentials) = credentials
      BY <2>2, CredentialTableIs, Zenon
    <3>. QED  BY <3>1, <3>2 DEF CredentialsSeen
  <2>4. CredentialsUpdated(t, k) =
          IF r.id \in DOMAIN credentials THEN CredentialRow(r) ELSE <<>>
    BY <1>3, <2>2, <2>3, CredentialUpdate, Zenon DEF CredentialsUpdated
  <2>5. CredentialsUpdated(t, k) = CredentialRow(r)
    BY <2>1, <2>4, EmptyTables
  <2>6. WriteCredentials(t, k, CredentialRow(r))
    BY <2>1, <2>5, Zenon
  <2>. QED  BY <1>1, <1>3, <2>6
<1>. QED  BY <1>4, <1>5

LEMMA CredentialMoves ==
  ASSUME StoreConstants, IInv, NEW t \in Threads, NEW k \in Connections,
         InsertCredential(t, k) \/ UpdateCredential(t, k)
  PROVE  Stepped(t) /\ Moves(t, k)
<1>. DEFINE r == Req(t)
            rows == CredentialRow(r)
            s == [session[k] EXCEPT !.credentials = rows]
<1>1. /\ user[k] = t /\ Step(t) \in {"insertCredential", "updateCredential"}
      /\ WriteCredentials(t, k, rows)
      /\ r \in Writes /\ r.id # "" /\ r.password # ""
  BY CredentialWrites, Zenon
<1>2. /\ session \in [Connections -> Sessions] /\ Wrote(session[k], Step(t), r)
      /\ Fits(r, Step(t)) /\ Known(t)
  BY <1>1, HolderIs, Zenon
<1>3. rows \in CredentialTable
  BY <1>1, WrittenRows, Zenon
<1>4. session[k].accounts = AccountRow(r) /\ session[k].credentials = <<>>
  BY <1>1, <1>2 DEF Wrote
<1>5. session' = [session EXCEPT ![k] = s] /\ Proceed(t) /\ UNCHANGED <<tables, user>>
  <2>1. Over(rows, <<>>) = rows
    BY <1>3, CredentialTableIs, Zenon
  <2>2. session' = [session EXCEPT ![k].credentials = Over(rows, session[k].credentials)]
    BY <1>1 DEF WriteCredentials
  <2>. HIDE DEF rows
  <2>3. session' = [session EXCEPT ![k].credentials = rows]
    BY <1>4, <2>1, <2>2
  <2>. QED  BY <1>1, <1>2, <2>3 DEF WriteCredentials
<1>. HIDE DEF rows
<1>6. /\ s \in Sessions /\ s.accounts = AccountRow(r) /\ s.credentials = rows
      /\ s.accounts = session[k].accounts
  BY <1>2, <1>3, <1>4 DEF Sessions
<1>. HIDE DEF s
<1>7. session'[k] = s /\ session' = [session EXCEPT ![k] = session'[k]]
  BY <1>2, <1>5
<1>8. Step(t) \notin Last
  BY <1>1 DEF Last
<1>9. /\ Stepped(t) /\ Step(t) \notin {"idle", "acquire"} \cup Last
      /\ Step(t)' = After(r, Step(t)) /\ Req(t)' = r /\ call'[t].pc # 0
  BY <1>1, <1>5, <1>8, MoveStarts, Zenon
<1>10. Step(t)' = "commit"
  BY <1>1, <1>9, AfterIs
<1>11. Wrote(s, "commit", r)
  BY <1>1, <1>6 DEF Wrote, rows
<1>12. Known(t)'
  <2>1. accounts' = accounts
    BY <1>5 DEF tables
  <2>2. /\ Step(t) = "insertCredential" => r.op = "AddAccount" /\ r.id \notin DOMAIN accounts
        /\ Step(t) = "updateCredential" => r.op = "UpdateAccount" /\ r.id \in DOMAIN accounts
    BY <1>2 DEF Fits, Known
  <2>. QED  BY <1>1, <1>9, <1>10, <2>1, <2>2 DEF Known
<1>13. \A j \in Connections \ {k} : DOMAIN s.accounts \cap DOMAIN session[j].accounts = {}
  <2>1. \A j \in Connections \ {k} :
          DOMAIN session[k].accounts \cap DOMAIN session[j].accounts = {}
    BY Zenon DEF IInv, Exclusive
  <2>. QED  BY <1>6, <2>1
<1>. QED  BY <1>1, <1>5, <1>6, <1>7, <1>9, <1>10, <1>11, <1>12, <1>13, Zenon DEF Moves

LEMMA AbortLeaves ==
  ASSUME IInv, NEW t \in Threads, NEW k \in Connections, user[k] = t,
         NEW status \in Answers \ {"ok"}, Abort(t, k, status)
  PROVE  Stepped(t) /\ Leaves(t, k)
<1>1. TypeOK /\ Requests
  BY Zenon DEF IInv
<1>2. Step(t) \notin {"idle", "acquire"}
  BY HolderIs, Zenon
<1>3. /\ Answer(t, status) /\ user' = [user EXCEPT ![k] = Pool]
      /\ session' = [session EXCEPT ![k] = NoTransaction] /\ UNCHANGED tables
  BY DEF Abort, HandBack
<1>4. Stepped(t) /\ Step(t)' = "idle" /\ call'[t].answer # "ok" /\ call'[t].pc = 0
  BY <1>1, <1>3, Answered DEF Stepped
<1>. QED  BY <1>2, <1>3, <1>4 DEF Leaves

(* Nothing is open on the connection of a call that answers by Return. *)
LEMMA ReturnLeaves ==
  ASSUME IInv, NEW t \in Threads, NEW k \in Connections, user[k] = t,
         NEW status \in Answers, Return(t, k, status),
         Step(t) \in {"begin", "readAccount", "readAccounts", "checkAccount", "readCredential"},
         status = "ok" => Step(t) # "begin"
  PROVE  Stepped(t) /\ Leaves(t, k)
<1>1. TypeOK /\ Requests
  BY Zenon DEF IInv
<1>2. /\ Step(t) \notin {"idle", "acquire"} /\ Fits(Req(t), Step(t))
      /\ Wrote(session[k], Step(t), Req(t)) /\ session \in [Connections -> Sessions]
  BY HolderIs, Zenon
<1>3. /\ Answer(t, status) /\ user' = [user EXCEPT ![k] = Pool] /\ UNCHANGED tables
      /\ session' = session
  BY DEF Return, HandBack
<1>4. session' = [session EXCEPT ![k] = NoTransaction]
  <2>1. session[k] = NoTransaction
    BY <1>2 DEF Wrote
  <2>. QED  BY <1>2, <1>3, <2>1
<1>5. Stepped(t) /\ Step(t)' = "idle" /\ call'[t].answer = status /\ call'[t].pc = 0
  BY <1>1, <1>3, Answered DEF Stepped
<1>6. status = "ok" => Req(t).op \notin WriteOps
  BY <1>2 DEF Fits, WriteOps
<1>. QED  BY <1>2, <1>3, <1>4, <1>5, <1>6 DEF Leaves

LEMMA CommitLeaves ==
  ASSUME IInv, NEW t \in Threads, NEW k \in Connections,
         Commit(t, k) \/ CommitUnconfirmed(t, k)
  PROVE  Stepped(t) /\ Leaves(t, k)
<1>. DEFINE r == Req(t)
<1>1. TypeOK /\ Requests
  BY Zenon DEF IInv
<1>2. /\ user[k] = t /\ Step(t) = "commit"
      /\ accounts' = Over(session[k].accounts, accounts)
      /\ credentials' = Over(session[k].credentials, credentials)
      /\ session' = [session EXCEPT ![k] = NoTransaction]
      /\ Answer(t, "ok") \/ Answer(t, "internal")
      /\ user' = [user EXCEPT ![k] = Pool]
  BY DEF Commit, CommitUnconfirmed, At, HandBack
<1>3. Wrote(session[k], Step(t), r)
  BY <1>2, HolderIs, Zenon
<1>4. Commits(r)
  <2>1. /\ session[k].accounts = AccountRow(r)
        /\ session[k].credentials = IF r.password = "" THEN <<>> ELSE CredentialRow(r)
    BY <1>2, <1>3 DEF Wrote
  <2>2. Over(<<>>, credentials) = credentials
    <3>1. credentials \in CredentialTable
      BY <1>1 DEF TypeOK
    <3>. QED  BY <3>1, CredentialTableIs, Zenon
  <2>. QED  BY <1>2, <2>1, <2>2 DEF Commits
<1>5. PICK status \in {"ok", "internal"} : Answer(t, status)
  BY <1>2
<1>6. Stepped(t) /\ Step(t)' = "idle" /\ call'[t].answer = status /\ call'[t].pc = 0
  <2>1. status \in Answers
    BY DEF Answers
  <2>. QED  BY <1>1, <1>5, <2>1, Answered, Zenon DEF Stepped
<1>. QED  BY <1>2, <1>4, <1>6 DEF Leaves

(* Every step is of one of these kinds. *)
LEMMA Kinds ==
  ASSUME StoreConstants, IInv, Next
  PROVE  \E t \in Threads :
           /\ Stepped(t)
           /\ Waits(t) \/ \E k \in Connections : Takes(t, k) \/ Moves(t, k) \/ Leaves(t, k)
<1>1. PICK t \in Threads :
        \/ \E r \in Writes \cup Reads : Arrive(t, r) \/ Reject(t, r)
        \/ Serve(t)
        \/ Fail(t)
  BY Zenon DEF Next
<1>2. SUFFICES /\ Stepped(t)
               /\ Waits(t) \/ \E k \in Connections : Takes(t, k) \/ Moves(t, k) \/ Leaves(t, k)
  BY Zenon
<1>3. CASE (\E r \in Writes \cup Reads : Arrive(t, r) \/ Reject(t, r)) \/ AcquireFails(t)
  BY <1>3, WaitKinds, Zenon
<1>4. CASE \E k \in Connections : Acquire(t, k)
  BY <1>4, TakeKind, Zenon
<1>5. ASSUME NEW k \in Connections, Begin(t, k) PROVE Stepped(t) /\ Moves(t, k)
  BY <1>5, BeginMoves, Zenon
<1>6. ASSUME NEW k \in Connections, AddAccount(t, k)
      PROVE  Stepped(t) /\ (Moves(t, k) \/ Leaves(t, k))
  <2>1. CASE CountNone(t, k)
    BY <2>1, PlainMoves, Zenon
  <2>2. CASE InsertAccount(t, k)
    BY <2>2, AccountMoves, Zenon
  <2>3. CASE InsertCredential(t, k)
    BY <2>3, CredentialMoves, Zenon
  <2>4. CASE CountFound(t, k) \/ DuplicateAccount(t, k)
    <3>1. user[k] = t /\ Abort(t, k, "internal") /\ "internal" \in Answers \ {"ok"}
      BY <2>4 DEF CountFound, DuplicateAccount, At, Answers
    <3>. QED  BY <3>1, AbortLeaves, Zenon
  <2>. QED  BY <1>6, <2>1, <2>2, <2>3, <2>4 DEF AddAccount
<1>7. ASSUME NEW k \in Connections, UpdateAccount(t, k)
      PROVE  Stepped(t) /\ (Moves(t, k) \/ Leaves(t, k))
  <2>1. CASE FindCredential(t, k)
    BY <2>1, PlainMoves, Zenon
  <2>2. CASE UpdateRow(t, k)
    BY <2>2, AccountMoves, Zenon
  <2>3. CASE UpdateCredential(t, k)
    BY <2>3, CredentialMoves, Zenon
  <2>4. CASE UpdateAffectsNone(t, k) \/ UpdateCredentialAffectsNone(t, k)
    <3>1. user[k] = t /\ Abort(t, k, "not_found") /\ "not_found" \in Answers \ {"ok"}
      BY <2>4 DEF UpdateAffectsNone, UpdateCredentialAffectsNone, At, Answers
    <3>. QED  BY <3>1, AbortLeaves, Zenon
  <2>. QED  BY <1>7, <2>1, <2>2, <2>3, <2>4 DEF UpdateAccount
<1>8. ASSUME NEW k \in Connections, Commit(t, k) \/ CommitUnconfirmed(t, k)
      PROVE  Stepped(t) /\ Leaves(t, k)
  BY <1>8, CommitLeaves, Zenon
<1>9. ASSUME NEW k \in Connections, Read(t, k)
      PROVE  Stepped(t) /\ (Moves(t, k) \/ Leaves(t, k))
  <2>1. CASE CheckAccount(t, k)
    BY <2>1, PlainMoves, Zenon
  <2>2. CASE \/ ReadAccount(t, k) \/ ReadAccounts(t, k)
             \/ RefuseCredential(t, k) \/ ReadCredential(t, k)
    <3>1. /\ user[k] = t
          /\ Step(t) \in {"readAccount", "readAccounts", "checkAccount", "readCredential"}
      BY <2>2 DEF ReadAccount, ReadAccounts, RefuseCredential, ReadCredential, At
    <3>2. \E status \in {"ok", "not_found", "invalid_argument"} : Return(t, k, status)
      BY <2>2 DEF ReadAccount, ReadAccounts, RefuseCredential, ReadCredential
    <3>3. PICK status \in Answers : Return(t, k, status)
      BY <3>2 DEF Answers
    <3>. QED  BY <3>1, <3>3, ReturnLeaves
  <2>. QED  BY <1>9, <2>1, <2>2 DEF Read
<1>10. ASSUME NEW k \in Connections,
              StatementFails(t, k) \/ CommitFails(t, k) \/ FindCredentialFails(t, k)
       PROVE  Stepped(t) /\ Leaves(t, k)
  <2>1. PICK status \in {"internal", "not_found"} : user[k] = t /\ Abort(t, k, status)
    BY <1>10 DEF StatementFails, CommitFails, FindCredentialFails, At
  <2>2. status \in Answers \ {"ok"}
    BY DEF Answers
  <2>. QED  BY <2>1, <2>2, AbortLeaves, Zenon
<1>11. ASSUME NEW k \in Connections, BeginFails(t, k) \/ ReadFails(t, k)
       PROVE  Stepped(t) /\ Leaves(t, k)
  <2>1. /\ user[k] = t /\ Return(t, k, "internal") /\ "internal" \in Answers
        /\ Step(t) \in {"begin", "readAccount", "readAccounts", "checkAccount", "readCredential"}
    BY <1>11 DEF BeginFails, ReadFails, At, Answers
  <2>. QED  BY <2>1, ReturnLeaves
<1>12. CASE Serve(t)
  <2>1. PICK k \in Connections :
          \/ Acquire(t, k) \/ Begin(t, k)
          \/ AddAccount(t, k) \/ UpdateAccount(t, k) \/ Commit(t, k)
          \/ Read(t, k)
    BY <1>12, Zenon DEF Serve
  <2>. QED  BY <1>4, <1>5, <1>6, <1>7, <1>8, <1>9, <2>1, Zenon
<1>13. CASE Fail(t)
  <2>1. CASE AcquireFails(t)
    BY <1>3, <2>1, Zenon
  <2>2. CASE \E k \in Connections :
               \/ BeginFails(t, k) \/ StatementFails(t, k) \/ FindCredentialFails(t, k)
               \/ CommitFails(t, k) \/ CommitUnconfirmed(t, k) \/ ReadFails(t, k)
    BY <1>8, <1>10, <1>11, <2>2, Zenon
  <2>. QED  BY <1>13, <2>1, <2>2, Zenon DEF Fail
<1>. QED  BY <1>1, <1>3, <1>12, <1>13, Zenon

----------------------------------------------------------------------------
(* The invariant is inductive                                              *)

Acts(t, k) == Takes(t, k) \/ Moves(t, k) \/ Leaves(t, k)

LEMMA AfterStays ==
  ASSUME NEW r \in Writes \cup Reads, NEW step, Fits(r, step), step \notin Last
  PROVE  /\ After(r, step) \notin {"idle", "acquire"}
         /\ step = "acquire" =>
              After(r, step) \in {"begin", "readAccount", "readAccounts", "checkAccount"}
<1>1. CASE step = "acquire"
  <2>1. After(r, "acquire") \in {"begin", "readAccount", "readAccounts", "checkAccount"}
    BY OperationIs, AfterIs DEF WriteOps
  <2>. QED  BY <1>1, <2>1
<1>2. CASE step # "acquire"
  <2>1. step \in {"begin", "count", "insertAccount", "insertCredential", "updateAccount",
                  "findCredential", "updateCredential", "checkAccount"}
    BY <1>2 DEF Fits, Last
  <2>2. \A s \in {"begin", "count", "insertAccount", "insertCredential", "updateAccount",
                  "findCredential", "updateCredential", "checkAccount"} :
          After(r, s) \notin {"idle", "acquire"}
    BY AfterIs
  <2>. QED  BY <1>2, <2>1, <2>2
<1>. QED  BY <1>1, <1>2

(* A commit writes the rows of its request. *)
LEMMA CommitIs ==
  ASSUME StoreConstants, IInv, NEW t \in Threads, NEW k \in Connections, user[k] = t,
         Step(t) = "commit", Commits(Req(t))
  PROVE  LET r == Req(t) IN
         /\ r \in Writes /\ r.op \in WriteOps /\ r.id # "" /\ r.id \in Ids
         /\ r.op = "AddAccount" => r.password # "" /\ r.id \notin DOMAIN accounts
         /\ r.op = "UpdateAccount" => r.id \in DOMAIN accounts
         /\ accounts' \in AccountTable /\ DOMAIN accounts' = DOMAIN accounts \cup {r.id}
         /\ accounts'[r.id] = AccountRecord(r)
         /\ \A id \in DOMAIN accounts \ {r.id} : accounts'[id] = accounts[id]
         /\ credentials' \in CredentialTable
         /\ r.password = "" => credentials' = credentials
         /\ r.password # "" =>
              /\ DOMAIN credentials' = DOMAIN credentials \cup {r.id}
              /\ credentials'[r.id] = CredentialRecord(r)
              /\ \A id \in DOMAIN credentials \ {r.id} : credentials'[id] = credentials[id]
<1>. DEFINE r == Req(t)
<1>1. /\ r \in Writes \cup Reads /\ Valid(r) /\ Fits(r, Step(t)) /\ Known(t)
  BY HolderIs, Zenon
<1>2. r.op \in WriteOps
  BY <1>1 DEF Fits, WriteOps
<1>3. /\ r \in Writes /\ r.id # "" /\ r.id \in Ids
      /\ r.op = "AddAccount" => r.password # ""
  BY <1>1, <1>2, RequestIs, Zenon
<1>4. /\ r.op = "AddAccount" => r.id \notin DOMAIN accounts
      /\ r.op = "UpdateAccount" => r.id \in DOMAIN accounts
  BY <1>1 DEF Known
<1>5. accounts \in AccountTable /\ credentials \in CredentialTable
  BY DEF IInv, TypeOK
<1>6. /\ accounts' = Over(AccountRow(r), accounts)
      /\ credentials' = IF r.password = "" THEN credentials
                        ELSE Over(CredentialRow(r), credentials)
  BY DEF Commits
<1>. HIDE DEF r
<1>7. /\ AccountRow(r) \in AccountTable /\ DOMAIN AccountRow(r) = {r.id}
      /\ AccountRow(r)[r.id] = AccountRecord(r)
      /\ r.password # "" =>
           /\ CredentialRow(r) \in CredentialTable /\ DOMAIN CredentialRow(r) = {r.id}
           /\ CredentialRow(r)[r.id] = CredentialRecord(r)
  BY <1>3, WrittenRows, Zenon
<1>8. /\ accounts' \in AccountTable /\ DOMAIN accounts' = DOMAIN accounts \cup {r.id}
      /\ accounts'[r.id] = AccountRecord(r)
      /\ \A id \in DOMAIN accounts \ {r.id} : accounts'[id] = accounts[id]
  <2>. DEFINE f == AccountRow(r)
              h == Over(f, accounts)
  <2>1. h \in AccountTable
    BY <1>5, <1>7, AccountTableIs, Zenon
  <2>2. /\ DOMAIN h = DOMAIN f \cup DOMAIN accounts
        /\ \A x \in DOMAIN f : h[x] = f[x]
        /\ \A x \in DOMAIN accounts \ DOMAIN f : h[x] = accounts[x]
    BY OverIs, Zenon
  <2>3. accounts' = h /\ DOMAIN f = {r.id} /\ f[r.id] = AccountRecord(r)
    BY <1>6, <1>7
  <2>. HIDE DEF f, h
  <2>. QED  BY <2>1, <2>2, <2>3
<1>9. /\ credentials' \in CredentialTable
      /\ r.password = "" => credentials' = credentials
      /\ r.password # "" =>
           /\ DOMAIN credentials' = DOMAIN credentials \cup {r.id}
           /\ credentials'[r.id] = CredentialRecord(r)
           /\ \A id \in DOMAIN credentials \ {r.id} : credentials'[id] = credentials[id]
  <2>1. CASE r.password = ""
    BY <1>5, <1>6, <2>1
  <2>2. CASE r.password # ""
    <3>. DEFINE f == CredentialRow(r)
                h == Over(f, credentials)
    <3>1. h \in CredentialTable
      BY <1>5, <1>7, <2>2, CredentialTableIs, Zenon
    <3>2. /\ DOMAIN h = DOMAIN f \cup DOMAIN credentials
          /\ \A x \in DOMAIN f : h[x] = f[x]
          /\ \A x \in DOMAIN credentials \ DOMAIN f : h[x] = credentials[x]
      BY OverIs, Zenon
    <3>3. credentials' = h /\ DOMAIN f = {r.id} /\ f[r.id] = CredentialRecord(r)
      BY <1>6, <1>7, <2>2
    <3>. HIDE DEF f, h
    <3>. QED  BY <2>2, <3>1, <3>2, <3>3
  <2>. QED  BY <2>1, <2>2
<1>. QED  BY <1>2, <1>3, <1>4, <1>8, <1>9, Zenon DEF r

LEMMA TypeStep ==
  ASSUME StoreConstants, IInv, NEW t \in Threads, NEW k \in Connections,
         Stepped(t), Waits(t) \/ Acts(t, k)
  PROVE  TypeOK'
<1>1. /\ accounts \in AccountTable /\ credentials \in CredentialTable
      /\ session \in [Connections -> Sessions] /\ user \in [Connections -> Threads \cup {Pool}]
  BY DEF IInv, TypeOK, Sessions
<1>2. call' \in [Threads -> Calls]
  BY DEF Stepped
<1>3. /\ session' \in [Connections -> Sessions]
      /\ user' \in [Connections -> Threads \cup {Pool}]
  <2>1. CASE Waits(t) \/ Takes(t, k)
    BY <1>1, <2>1 DEF Waits, Takes
  <2>2. CASE Moves(t, k)
    <3>. DEFINE s == session'[k]
    <3>1. s \in Sessions /\ session' = [session EXCEPT ![k] = s] /\ user' = user
      BY <2>2 DEF Moves
    <3>. HIDE DEF s
    <3>. QED  BY <1>1, <3>1
  <2>3. CASE Leaves(t, k)
    BY <1>1, <2>3, NoTransactionIs DEF Leaves
  <2>. QED  BY <2>1, <2>2, <2>3 DEF Acts
<1>4. accounts' \in AccountTable /\ credentials' \in CredentialTable
  <2>1. CASE UNCHANGED tables
    BY <1>1, <2>1 DEF tables
  <2>2. CASE user[k] = t /\ Step(t) = "commit" /\ Commits(Req(t))
    BY <2>2, CommitIs, Zenon
  <2>. QED  BY <2>1, <2>2 DEF Waits, Acts, Takes, Moves, Leaves
<1>. QED  BY <1>2, <1>3, <1>4, Zenon DEF TypeOK, Sessions, Calls, Answers

LEMMA OwnersStep ==
  ASSUME StoreConstants, IInv, NEW t \in Threads, NEW k \in Connections,
         Stepped(t), Waits(t) \/ Acts(t, k)
  PROVE  Owners'
<1>1. /\ \A j \in Connections : user[j] = Pool => session[j] = NoTransaction
      /\ \A j \in Connections, u \in Threads :
           user[j] = u => Step(u) \notin {"idle", "acquire"}
      /\ \A u \in Threads :
           Step(u) \notin {"idle", "acquire"} => \E j \in Connections : user[j] = u
      /\ \A u \in Threads, i, j \in Connections : user[i] = u /\ user[j] = u => i = j
  BY Zenon DEF IInv, Owners
<1>2. \A u \in Threads \ {t} : Step(u)' = Step(u)
  BY Zenon DEF Stepped, Others
<1>3. user \in [Connections -> Threads \cup {Pool}] /\ session \in [Connections -> Sessions]
  BY DEF IInv, TypeOK, Sessions
<1>4. Pool \notin Threads
  BY DEF StoreConstants
<1>5. CASE Waits(t)
  <2>1. /\ Step(t) \in {"idle", "acquire"} /\ Step(t)' \in {"idle", "acquire"}
        /\ session' = session /\ user' = user
    BY <1>5 DEF Waits
  <2>. QED  BY <1>1, <1>2, <2>1 DEF Owners
<1>6. CASE Takes(t, k)
  <2>1. /\ Step(t) = "acquire" /\ user[k] = Pool /\ session' = session
        /\ user' = [user EXCEPT ![k] = t] /\ Step(t)' = After(Req(t), "acquire")
    BY <1>6 DEF Takes
  <2>2. Step(t)' \notin {"idle", "acquire"}
    <3>1. ~Idle(t)
      BY <2>1 DEF Step
    <3>2. TypeOK /\ Requests
      BY Zenon DEF IInv
    <3>3. Req(t) \in Writes \cup Reads /\ Fits(Req(t), Step(t))
      BY <3>1, <3>2, StepIs, Zenon
    <3>. QED  BY <2>1, <3>3, AfterStays DEF Last
  <2>3. user'[k] = t /\ \A j \in Connections \ {k} : user'[j] = user[j]
    BY <1>3, <2>1
  <2>4. \A j \in Connections : user[j] # t
    BY <1>1, <2>1
  <2>5. \A j \in Connections : user'[j] = Pool => session'[j] = NoTransaction
    BY <1>1, <1>4, <2>1, <2>3
  <2>6. ASSUME NEW j \in Connections, NEW u \in Threads, user'[j] = u
        PROVE  Step(u)' \notin {"idle", "acquire"}
    <3>1. CASE j = k
      BY <2>2, <2>3, <2>6, <3>1
    <3>2. CASE j # k
      <4>1. user[j] = u /\ u # t
        BY <2>3, <2>4, <2>6, <3>2
      <4>. QED  BY <1>1, <1>2, <4>1
    <3>. QED  BY <3>1, <3>2
  <2>7. ASSUME NEW u \in Threads, Step(u)' \notin {"idle", "acquire"}
        PROVE  \E j \in Connections : user'[j] = u
    <3>1. CASE u = t
      BY <2>3, <3>1
    <3>2. CASE u # t
      <4>1. PICK j \in Connections : user[j] = u
        BY <1>1, <1>2, <2>7, <3>2
      <4>. QED  BY <1>4, <2>1, <2>3, <4>1
    <3>. QED  BY <3>1, <3>2
  <2>8. ASSUME NEW u \in Threads, NEW i \in Connections, NEW j \in Connections,
               user'[i] = u, user'[j] = u
        PROVE  i = j
    <3>1. CASE u = t
      BY <2>3, <2>4, <2>8, <3>1
    <3>2. CASE u # t
      <4>1. user[i] = u /\ user[j] = u
        BY <2>3, <2>8, <3>2
      <4>. QED  BY <1>1, <4>1
    <3>. QED  BY <3>1, <3>2
  <2>. QED  BY <2>5, <2>6, <2>7, <2>8, Zenon DEF Owners
<1>7. CASE Moves(t, k)
  <2>1. /\ user[k] = t /\ user' = user /\ Step(t)' = After(Req(t), Step(t))
        /\ \A j \in Connections \ {k} : session'[j] = session[j]
        /\ Step(t) \notin {"idle", "acquire"} \cup Last
    <3>. DEFINE s == session'[k]
    <3>1. session' = [session EXCEPT ![k] = s]
      BY <1>7 DEF Moves
    <3>. HIDE DEF s
    <3>2. \A j \in Connections \ {k} : session'[j] = session[j]
      BY <1>3, <3>1
    <3>. QED  BY <1>7, <3>2 DEF Moves
  <2>2. Step(t)' \notin {"idle", "acquire"}
    <3>1. Req(t) \in Writes \cup Reads /\ Fits(Req(t), Step(t))
      BY <2>1, HolderIs, Zenon
    <3>. QED  BY <2>1, <3>1, AfterStays
  <2>3. \A j \in Connections : user'[j] = Pool => session'[j] = NoTransaction
    BY <1>1, <1>4, <2>1
  <2>4. \A j \in Connections, u \in Threads : user'[j] = u => Step(u)' \notin {"idle", "acquire"}
    BY <1>1, <1>2, <2>1, <2>2
  <2>5. \A u \in Threads :
          Step(u)' \notin {"idle", "acquire"} => \E j \in Connections : user'[j] = u
    BY <1>1, <1>2, <2>1
  <2>6. \A u \in Threads, i, j \in Connections : user'[i] = u /\ user'[j] = u => i = j
    BY <1>1, <2>1
  <2>. QED  BY <2>3, <2>4, <2>5, <2>6, Zenon DEF Owners
<1>8. CASE Leaves(t, k)
  <2>1. /\ user[k] = t /\ Step(t)' = "idle" /\ user' = [user EXCEPT ![k] = Pool]
        /\ session' = [session EXCEPT ![k] = NoTransaction]
    BY <1>8 DEF Leaves
  <2>2. /\ user'[k] = Pool /\ \A j \in Connections \ {k} : user'[j] = user[j] /\ user[j] # t
        /\ session'[k] = NoTransaction /\ \A j \in Connections \ {k} : session'[j] = session[j]
    BY <1>1, <1>3, <2>1
  <2>3. \A j \in Connections : user'[j] = Pool => session'[j] = NoTransaction
    BY <1>1, <2>2
  <2>4. ASSUME NEW j \in Connections, NEW u \in Threads, user'[j] = u
        PROVE  Step(u)' \notin {"idle", "acquire"}
    <3>1. j # k
      BY <1>4, <2>2, <2>4
    <3>2. user[j] = u /\ u # t
      BY <2>2, <2>4, <3>1
    <3>. QED  BY <1>1, <1>2, <3>2
  <2>5. ASSUME NEW u \in Threads, Step(u)' \notin {"idle", "acquire"}
        PROVE  \E j \in Connections : user'[j] = u
    <3>1. u # t
      BY <2>1, <2>5
    <3>2. PICK j \in Connections : user[j] = u
      BY <1>1, <1>2, <2>5, <3>1
    <3>. QED  BY <2>1, <2>2, <3>1, <3>2
  <2>6. ASSUME NEW u \in Threads, NEW i \in Connections, NEW j \in Connections,
               user'[i] = u, user'[j] = u
        PROVE  i = j
    <3>1. i # k /\ j # k
      BY <1>4, <2>2, <2>6
    <3>2. user[i] = u /\ user[j] = u
      BY <2>2, <2>6, <3>1
    <3>. QED  BY <1>1, <3>2
  <2>. QED  BY <2>3, <2>4, <2>5, <2>6, Zenon DEF Owners
<1>. QED  BY <1>5, <1>6, <1>7, <1>8 DEF Acts

(* Who has a connection after the step had it before, or has just taken it. *)
LEMMA UserBefore ==
  ASSUME StoreConstants, IInv, NEW t \in Threads, NEW k \in Connections,
         Stepped(t), Waits(t) \/ Acts(t, k),
         NEW j \in Connections, NEW u \in Threads, user'[j] = u
  PROVE  \/ j = k /\ u = t /\ (Takes(t, k) \/ Moves(t, k))
         \/ u # t /\ user[j] = u /\ session'[j] = session[j]
<1>1. /\ user \in [Connections -> Threads \cup {Pool}] /\ session \in [Connections -> Sessions]
      /\ Pool \notin Threads
  BY DEF IInv, TypeOK, Sessions, StoreConstants
<1>2. /\ \A i \in Connections, v \in Threads : user[i] = v => Step(v) \notin {"idle", "acquire"}
      /\ \A v \in Threads, i, l \in Connections : user[i] = v /\ user[l] = v => i = l
  BY Zenon DEF IInv, Owners
<1>3. CASE Waits(t)
  BY <1>2, <1>3 DEF Waits
<1>4. CASE Takes(t, k)
  <2>1. /\ Step(t) = "acquire" /\ user' = [user EXCEPT ![k] = t] /\ session' = session
    BY <1>4 DEF Takes
  <2>2. CASE j = k
    BY <1>1, <1>4, <2>1, <2>2
  <2>3. CASE j # k
    <3>1. user[j] = u
      BY <1>1, <2>1, <2>3
    <3>. QED  BY <1>2, <2>1, <3>1
  <2>. QED  BY <2>2, <2>3
<1>5. CASE Moves(t, k)
  <2>. DEFINE s == session'[k]
  <2>1. user[k] = t /\ user' = user /\ session' = [session EXCEPT ![k] = s]
    BY <1>5 DEF Moves
  <2>. HIDE DEF s
  <2>2. CASE j = k
    BY <1>5, <2>1, <2>2
  <2>3. CASE j # k
    <3>1. user[j] = u /\ session'[j] = session[j]
      BY <1>1, <2>1, <2>3
    <3>. QED  BY <1>2, <2>1, <2>3, <3>1
  <2>. QED  BY <2>2, <2>3
<1>6. CASE Leaves(t, k)
  <2>1. /\ user[k] = t /\ user' = [user EXCEPT ![k] = Pool]
        /\ session' = [session EXCEPT ![k] = NoTransaction]
    BY <1>6 DEF Leaves
  <2>2. j # k
    BY <1>1, <2>1
  <2>3. user[j] = u /\ session'[j] = session[j]
    BY <1>1, <2>1, <2>2
  <2>. QED  BY <1>2, <2>1, <2>2, <2>3
<1>. QED  BY <1>3, <1>4, <1>5, <1>6 DEF Acts

LEMMA TransactionsStep ==
  ASSUME StoreConstants, IInv, NEW t \in Threads, NEW k \in Connections,
         Stepped(t), Waits(t) \/ Acts(t, k)
  PROVE  Transactions'
<1>1. ASSUME NEW j \in Connections, NEW u \in Threads, user'[j] = u
      PROVE  Wrote(session'[j], Step(u)', Req(u)')
  <2>1. CASE u # t /\ user[j] = u /\ session'[j] = session[j]
    <3>1. Step(u)' = Step(u) /\ Req(u)' = Req(u)
      BY <2>1, Zenon DEF Stepped, Others
    <3>2. Wrote(session[j], Step(u), Req(u))
      BY <2>1, HolderIs, Zenon
    <3>. QED  BY <2>1, <3>1, <3>2, Zenon
  <2>2. CASE j = k /\ u = t /\ Moves(t, k)
    BY <2>2, Zenon DEF Moves
  <2>3. CASE j = k /\ u = t /\ Takes(t, k)
    <3>1. /\ Step(t) = "acquire" /\ user[k] = Pool /\ session'[k] = session[k]
          /\ Step(t)' = After(Req(t), "acquire")
      BY <2>3 DEF Takes
    <3>2. session[k] = NoTransaction
      BY <3>1, Zenon DEF IInv, Owners
    <3>3. Step(t)' \in {"begin", "readAccount", "readAccounts", "checkAccount"}
      <4>1. ~Idle(t) /\ TypeOK /\ Requests
        BY <3>1 DEF Step, IInv
      <4>2. Req(t) \in Writes \cup Reads /\ Fits(Req(t), Step(t))
        BY <4>1, StepIs, Zenon
      <4>. QED  BY <3>1, <4>2, AfterStays DEF Last
    <3>. QED  BY <2>3, <3>1, <3>2, <3>3 DEF Wrote
  <2>. QED  BY <1>1, <2>1, <2>2, <2>3, UserBefore, Zenon
<1>2. ASSUME NEW j, NEW u
      PROVE  Wrote(session[j], Step(u), Req(u))' <=> Wrote(session'[j], Step(u)', Req(u)')
  BY Zenon DEF Wrote, AccountRow, CredentialRow
<1>. QED  BY <1>1, <1>2, Zenon DEF Transactions

LEMMA ExclusiveStep ==
  ASSUME StoreConstants, IInv, NEW t \in Threads, NEW k \in Connections,
         Stepped(t), Waits(t) \/ Acts(t, k)
  PROVE  Exclusive'
<1>1. /\ session \in [Connections -> Sessions]
      /\ \A i, j \in Connections :
           i # j => DOMAIN session[i].accounts \cap DOMAIN session[j].accounts = {}
  BY Zenon DEF IInv, TypeOK, Sessions, Exclusive
<1>2. CASE Waits(t) \/ Takes(t, k)
  BY <1>1, <1>2 DEF Waits, Takes, Exclusive
<1>3. ASSUME NEW s \in Sessions, session' = [session EXCEPT ![k] = s],
             \A j \in Connections \ {k} : DOMAIN s.accounts \cap DOMAIN session[j].accounts = {}
      PROVE  Exclusive'
  <2>1. session'[k] = s /\ \A j \in Connections \ {k} : session'[j] = session[j]
    BY <1>1, <1>3
  <2>2. ASSUME NEW i \in Connections, NEW j \in Connections, i # j
        PROVE  DOMAIN session'[i].accounts \cap DOMAIN session'[j].accounts = {}
    <3>1. CASE i = k
      <4>1. session'[i] = s /\ session'[j] = session[j] /\ j \in Connections \ {k}
        BY <2>1, <2>2, <3>1
      <4>. QED  BY <1>3, <4>1
    <3>2. CASE j = k
      <4>1. session'[j] = s /\ session'[i] = session[i] /\ i \in Connections \ {k}
        BY <2>1, <2>2, <3>2
      <4>. QED  BY <1>3, <4>1
    <3>3. CASE i # k /\ j # k
      <4>1. session'[i] = session[i] /\ session'[j] = session[j]
        BY <2>1, <3>3
      <4>. QED  BY <1>1, <2>2, <4>1
    <3>. QED  BY <3>1, <3>2, <3>3
  <2>. QED  BY <2>2, Zenon DEF Exclusive
<1>4. CASE Moves(t, k)
  BY <1>3, <1>4, Zenon DEF Moves
<1>5. CASE Leaves(t, k)
  <2>1. NoTransaction \in Sessions /\ DOMAIN NoTransaction.accounts = {}
    BY NoTransactionIs, EmptyTables
  <2>2. \A j \in Connections \ {k} :
          DOMAIN NoTransaction.accounts \cap DOMAIN session[j].accounts = {}
    BY <2>1
  <2>. QED  BY <1>3, <1>5, <2>1, <2>2, Zenon DEF Leaves
<1>. QED  BY <1>2, <1>4, <1>5 DEF Acts

LEMMA PairedStep ==
  ASSUME StoreConstants, IInv, NEW t \in Threads, NEW k \in Connections,
         Stepped(t), Waits(t) \/ Acts(t, k)
  PROVE  Paired'
<1>1. DOMAIN accounts = DOMAIN credentials
  BY DEF IInv, Paired
<1>2. CASE UNCHANGED tables
  BY <1>1, <1>2 DEF tables, Paired
<1>3. CASE user[k] = t /\ Step(t) = "commit" /\ Commits(Req(t))
  <2>. DEFINE r == Req(t)
  <2>1. /\ r.op \in {"AddAccount", "UpdateAccount"}
        /\ r.op = "AddAccount" => r.password # ""
        /\ r.op = "UpdateAccount" => r.id \in DOMAIN accounts
        /\ DOMAIN accounts' = DOMAIN accounts \cup {r.id}
        /\ r.password = "" => credentials' = credentials
        /\ r.password # "" => DOMAIN credentials' = DOMAIN credentials \cup {r.id}
    BY <1>3, CommitIs, Zenon DEF WriteOps
  <2>. HIDE DEF r
  <2>2. CASE r.password # ""
    BY <1>1, <2>1, <2>2 DEF Paired
  <2>3. CASE r.password = ""
    <3>1. DOMAIN accounts' = DOMAIN accounts
      BY <2>1, <2>3
    <3>. QED  BY <1>1, <2>1, <2>3, <3>1 DEF Paired
  <2>. QED  BY <2>2, <2>3
<1>. QED  BY <1>2, <1>3 DEF Waits, Acts, Takes, Moves, Leaves

LEMMA PresenceStep ==
  ASSUME StoreConstants, IInv, NEW t \in Threads, NEW k \in Connections,
         Stepped(t), Waits(t) \/ Acts(t, k)
  PROVE  Presence'
<1>1. Known(t)'
  <2>1. CASE Waits(t)
    BY <2>1 DEF Waits, Known
  <2>2. CASE Takes(t, k)
    <3>1. Step(t) = "acquire" /\ Step(t)' = After(Req(t), "acquire")
      BY <2>2 DEF Takes
    <3>2. ~Idle(t) /\ TypeOK /\ Requests
      BY <3>1 DEF Step, IInv
    <3>3. Req(t) \in Writes \cup Reads /\ Fits(Req(t), Step(t))
      BY <3>2, StepIs, Zenon
    <3>4. Step(t)' \in {"begin", "readAccount", "readAccounts", "checkAccount"}
      BY <3>1, <3>3, AfterStays DEF Last
    <3>. QED  BY <3>4 DEF Known
  <2>3. CASE Moves(t, k)
    BY <2>3 DEF Moves
  <2>4. CASE Leaves(t, k)
    BY <2>4 DEF Leaves, Known
  <2>. QED  BY <2>1, <2>2, <2>3, <2>4 DEF Acts
<1>2. ASSUME NEW u \in Threads \ {t} PROVE Known(u)'
  <2>1. Known(u) /\ Step(u)' = Step(u) /\ Req(u)' = Req(u)
    BY Zenon DEF IInv, Presence, Stepped, Others
  <2>2. CASE UNCHANGED tables
    <3>1. accounts' = accounts
      BY <2>2 DEF tables
    <3>. QED  BY <2>1, <3>1 DEF Known
  <2>3. CASE user[k] = t /\ Step(t) = "commit" /\ Commits(Req(t))
    <3>1. DOMAIN accounts' = DOMAIN accounts \cup {Req(t).id}
      BY <2>3, CommitIs, Zenon
    <3>2. ASSUME \/ Step(u) = "insertCredential"
                 \/ Step(u) = "commit" /\ Req(u).op = "AddAccount"
          PROVE  Req(u).id \notin DOMAIN accounts'
      <4>1. Req(u).id \notin DOMAIN accounts
        BY <2>1, <3>2 DEF Known
      <4>2. PICK j \in Connections : user[j] = u
        <5>1. Step(u) \notin {"idle", "acquire"}
          BY <3>2
        <5>. QED  BY <5>1, Zenon DEF IInv, Owners
      <4>3. j # k
        BY <2>3, <4>2
      <4>4. session[j].accounts = AccountRow(Req(u)) /\ session[k].accounts = AccountRow(Req(t))
        <5>1. Wrote(session[j], Step(u), Req(u)) /\ Wrote(session[k], Step(t), Req(t))
          BY <2>3, <4>2, HolderIs, Zenon
        <5>. QED  BY <2>3, <3>2, <5>1 DEF Wrote
      <4>5. \A r : DOMAIN AccountRow(r) = {r.id}
        BY DEF AccountRow, InsertRow
      <4>6. DOMAIN session[j].accounts \cap DOMAIN session[k].accounts = {}
        BY <4>3, Zenon DEF IInv, Exclusive
      <4>. QED  BY <3>1, <4>1, <4>4, <4>5, <4>6
    <3>. QED  BY <2>1, <3>1, <3>2 DEF Known
  <2>. QED  BY <2>2, <2>3 DEF Waits, Acts, Takes, Moves, Leaves
<1>. QED  BY <1>1, <1>2, Zenon DEF Presence

LEMMA IdleCall ==
  ASSUME NEW status \in Answers
  PROVE  [req |-> NoRequest, pc |-> 0, answer |-> status] \in Calls
BY DEF Calls

LEMMA Initially ==
  ASSUME StoreConstants, Init
  PROVE  IInv
<1>1. /\ accounts = <<>> /\ credentials = <<>>
      /\ session = [k \in Connections |-> NoTransaction]
      /\ user = [k \in Connections |-> Pool]
      /\ call = [t \in Threads |-> [req |-> NoRequest, pc |-> 0, answer |-> "none"]]
      /\ Pool \notin Threads
  BY DEF Init, StoreConstants
<1>2. TypeOK
  <2>1. call \in [Threads -> Calls]
    <3>. DEFINE c == [req |-> NoRequest, pc |-> 0, answer |-> "none"]
    <3>1. c \in Calls
      <4>1. "none" \in Answers
        BY DEF Answers
      <4>. QED  BY <4>1, IdleCall, Zenon
    <3>. QED  BY <1>1, <3>1
  <2>2. session \in [Connections -> Sessions]
    BY <1>1, NoTransactionIs
  <2>3. user \in [Connections -> Threads \cup {Pool}]
    BY <1>1
  <2>4. accounts \in AccountTable /\ credentials \in CredentialTable
    BY <1>1, EmptyTables
  <2>. QED  BY <2>1, <2>2, <2>3, <2>4, Zenon DEF TypeOK, Calls, Answers, Sessions
<1>3. \A t \in Threads : Idle(t) /\ Step(t) = "idle"
  BY <1>1 DEF Idle, Step
<1>4. Requests
  BY <1>3 DEF Requests
<1>5. Owners
  BY <1>1, <1>3 DEF Owners
<1>6. Transactions
  BY <1>1 DEF Transactions
<1>7. Exclusive
  <2>1. \A k \in Connections : DOMAIN session[k].accounts = {}
    BY <1>1, NoTransactionIs, EmptyTables
  <2>. QED  BY <2>1 DEF Exclusive
<1>8. Paired
  BY <1>1 DEF Paired
<1>9. Presence
  BY <1>3 DEF Presence, Known
<1>. QED  BY <1>2, <1>4, <1>5, <1>6, <1>7, <1>8, <1>9 DEF IInv

(* Without a connection every call is refused one. *)
LEMMA NoConnections ==
  ASSUME IInv, Connections = {}, NEW t \in Threads, Stepped(t), Waits(t)
  PROVE  IInv'
<1>1. /\ accounts' = accounts /\ credentials' = credentials /\ session' = session
      /\ user' = user /\ Step(t)' \in {"idle", "acquire"}
  BY DEF Waits, tables
<1>2. \A u \in Threads \ {t} : Step(u)' = Step(u) /\ Req(u)' = Req(u)
  BY Zenon DEF Stepped, Others
<1>3. Requests' /\ call' \in [Threads -> Calls]
  BY DEF Stepped
<1>4. TypeOK'
  BY <1>1, <1>3, Zenon DEF IInv, TypeOK, Calls, Answers
<1>5. \A u \in Threads : Step(u)' \in {"idle", "acquire"}
  <2>1. \A u \in Threads : Step(u) \in {"idle", "acquire"}
    BY DEF IInv, Owners
  <2>. QED  BY <1>1, <1>2, <2>1
<1>6. Owners' /\ Transactions' /\ Exclusive'
  BY <1>5 DEF Owners, Transactions, Exclusive
<1>7. Paired'
  BY <1>1 DEF IInv, Paired
<1>8. Presence'
  BY <1>5 DEF Presence, Known
<1>. QED  BY <1>3, <1>4, <1>6, <1>7, <1>8, Zenon DEF IInv

LEMMA NextKeeps ==
  ASSUME StoreConstants, IInv, [Next]_vars
  PROVE  IInv'
<1>1. CASE Next
  <2>1. PICK t \in Threads :
          /\ Stepped(t)
          /\ Waits(t) \/ \E k \in Connections : Takes(t, k) \/ Moves(t, k) \/ Leaves(t, k)
    BY <1>1, Kinds, Zenon
  <2>2. Requests'
    BY <2>1 DEF Stepped
  <2>3. ASSUME NEW k \in Connections, Waits(t) \/ Acts(t, k) PROVE IInv'
    <3>1. TypeOK'
      BY <2>1, <2>3, TypeStep, Zenon
    <3>2. Owners'
      BY <2>1, <2>3, OwnersStep, Zenon
    <3>3. Transactions'
      BY <2>1, <2>3, TransactionsStep, Zenon
    <3>4. Exclusive'
      BY <2>1, <2>3, ExclusiveStep, Zenon
    <3>5. Paired'
      BY <2>1, <2>3, PairedStep, Zenon
    <3>6. Presence'
      BY <2>1, <2>3, PresenceStep, Zenon
    <3>. QED  BY <2>2, <3>1, <3>2, <3>3, <3>4, <3>5, <3>6, Zenon DEF IInv
  <2>4. CASE Connections = {}
    BY <2>1, <2>4, NoConnections, Zenon
  <2>. QED  BY <2>1, <2>3, <2>4, Zenon DEF Acts
<1>2. CASE UNCHANGED vars
  <2>1. /\ accounts' = accounts /\ credentials' = credentials /\ session' = session
        /\ user' = user /\ call' = call
    BY <1>2 DEF vars, tables
  <2>2. \A t \in Threads : Step(t)' = Step(t) /\ Req(t)' = Req(t) /\ (Idle(t)' <=> Idle(t))
    BY <2>1, Zenon DEF Step, Req, Idle
  <2>3. TypeOK'
    BY <2>1, Zenon DEF IInv, TypeOK
  <2>4. Requests'
    BY <2>1, Zenon DEF IInv, Requests, Idle, Req
  <2>5. Owners'
    BY <2>1, <2>2, Zenon DEF IInv, Owners
  <2>6. Transactions'
    BY <2>1, <2>2, Zenon DEF IInv, Transactions, Wrote, AccountRow, CredentialRow
  <2>7. Exclusive' /\ Paired'
    BY <2>1, Zenon DEF IInv, Exclusive, Paired
  <2>8. Presence'
    BY <2>1, <2>2, Zenon DEF IInv, Presence, Known
  <2>. QED  BY <2>3, <2>4, <2>5, <2>6, <2>7, <2>8, Zenon DEF IInv
<1>. QED  BY <1>1, <1>2

----------------------------------------------------------------------------
(* The theorems                                                            *)

(* In every reachable state the calls, their connections and the tables    *)
(* are related as the inductive invariant says.                            *)
THEOREM Invariant == Spec => []IInv
<1>1. Init => IInv
  BY StoreConstants, Initially
<1>2. IInv /\ [Next]_vars => IInv'
  BY StoreConstants, NextKeeps
<1>. QED  BY <1>1, <1>2, PTL DEF Spec

(* Every variable has its type, and every row is stored under its          *)
(* account_id, whatever calls the handlers interleave.                     *)
THEOREM TypeCorrect == Spec => []TypeOK
<1>1. IInv => TypeOK
  BY Zenon DEF IInv
<1>. QED  BY <1>1, Invariant, PTL

(* A call hands back its connection with nothing open on it, and has one   *)
(* exactly between Acquire and its answer.                                 *)
THEOREM PoolRestoredHolds == Spec => []PoolRestored
<1>1. ASSUME IInv PROVE PoolRestored
  <2>1. \A k \in Connections : user[k] = Pool => session[k] = NoTransaction
    BY <1>1, Zenon DEF IInv, Owners
  <2>2. ASSUME NEW t \in Threads, Step(t) \in {"idle", "acquire"}
        PROVE  Cardinality({k \in Connections : user[k] = t}) = 0
    <3>1. \A k \in Connections : user[k] # t
      BY <1>1, <2>2, Zenon DEF IInv, Owners
    <3>2. {k \in Connections : user[k] = t} = {}
      BY <3>1
    <3>. QED  BY <3>2, FS_EmptySet
  <2>3. ASSUME NEW t \in Threads, Step(t) \notin {"idle", "acquire"}
        PROVE  Cardinality({k \in Connections : user[k] = t}) = 1
    <3>1. PICK k \in Connections : user[k] = t
      BY <1>1, <2>3, Zenon DEF IInv, Owners
    <3>2. \A j \in Connections : user[j] = t => j = k
      BY <1>1, <3>1, Zenon DEF IInv, Owners
    <3>3. {j \in Connections : user[j] = t} = {k}
      BY <3>1, <3>2
    <3>. QED  BY <3>3, FS_Singleton
  <2>. QED  BY <2>1, <2>2, <2>3 DEF PoolRestored
<1>. QED  BY <1>1, Invariant, PTL

(* The call that is held up is about to write the account: who is about to *)
(* write the credential has its account locked, and whoever else had       *)
(* written that credential would have locked the account first.            *)
LEMMA HeldUpAtAccount ==
  ASSUME StoreConstants, IInv, NEW t \in Threads, NEW u \in Threads, WaitsFor(t, u)
  PROVE  /\ Step(t) \in {"insertAccount", "updateAccount"}
         /\ Step(u) \notin {"insertAccount", "updateAccount"}
<1>1. PICK k \in Connections, j \in Connections :
        /\ user[k] = t /\ user[j] = u /\ k # j
        /\ \/ /\ Step(t) \in {"insertAccount", "updateAccount"}
              /\ SelectRows(session[j].accounts, AccountOf(Req(t).id)) # {}
           \/ /\ Step(t) \in {"insertCredential", "updateCredential"}
              /\ SelectRows(session[j].credentials, PasswordOf(Req(t).id)) # {}
  BY Zenon DEF WaitsFor
<1>2. /\ Req(t) \in Writes \cup Reads /\ Valid(Req(t)) /\ Fits(Req(t), Step(t))
      /\ Wrote(session[k], Step(t), Req(t))
      /\ Wrote(session[j], Step(u), Req(u)) /\ Fits(Req(u), Step(u))
      /\ session[j] \in Sessions /\ Step(u) \notin {"idle", "acquire"}
  BY <1>1, HolderIs, Zenon
<1>3. \A where : SelectRows(<<>>, where) = {}
  BY EmptyTables DEF SelectRows
<1>4. ASSUME Step(t) \in {"insertCredential", "updateCredential"},
             SelectRows(session[j].credentials, PasswordOf(Req(t).id)) # {}
      PROVE  FALSE
  <2>1. session[j].credentials # <<>>
    BY <1>3, <1>4, Zenon
  <2>2. Step(u) = "commit" /\ session[j].accounts = AccountRow(Req(u))
        /\ session[j].credentials = CredentialRow(Req(u))
    <3>1. Step(u) = "commit"
      <4>1. NoTransaction.credentials = <<>>
        BY NoTransactionIs
      <4>. QED  BY <1>2, <2>1, <4>1 DEF Wrote, Fits
    <3>. QED  BY <1>2, <2>1, <3>1 DEF Wrote
  <2>3. Req(t).id \in Ids
    <3>1. Req(t).op \in WriteOps
      BY <1>2, <1>4 DEF Fits, WriteOps
    <3>. QED  BY <1>2, <3>1, RequestIs, Zenon
  <2>4. SelectRows(session[j].credentials, PasswordOf(Req(t).id)) =
          {Req(t).id} \cap DOMAIN session[j].credentials
    <3>1. session[j].credentials \in CredentialTable
      BY <1>2 DEF Sessions
    <3>2. \A key \in DOMAIN session[j].credentials :
            session[j].credentials[key].credential_type = "password"
      BY <3>1, CredentialTableIs DEF CredentialRows
    <3>. QED  BY <2>3, <3>1, <3>2, CredentialTableIs, SelectPassword, Zenon
  <2>5. DOMAIN session[j].credentials = {Req(u).id} /\ DOMAIN session[j].accounts = {Req(u).id}
    BY <2>2 DEF AccountRow, CredentialRow, InsertRow
  <2>6. DOMAIN session[k].accounts = {Req(t).id}
    BY <1>2, <1>4 DEF Wrote, AccountRow, InsertRow
  <2>7. DOMAIN session[j].accounts \cap DOMAIN session[k].accounts = {}
    BY <1>1, Zenon DEF IInv, Exclusive
  <2>. QED  BY <1>4, <2>4, <2>5, <2>6, <2>7
<1>5. Step(u) \in {"insertAccount", "updateAccount"} => session[j].accounts = <<>>
  BY <1>2 DEF Wrote
<1>. QED  BY <1>1, <1>3, <1>4, <1>5

(* Row locks never make calls wait in a circle, of whatever length: the    *)
(* call that holds up another one waits for nobody.                        *)
THEOREM NoLockCycleHolds == Spec => []NoLockCycle
<1>1. ASSUME IInv, NEW t \in Threads, NEW u \in Threads, NEW v \in Threads,
             WaitsFor(t, u), WaitsFor(u, v)
      PROVE  FALSE
  BY <1>1, StoreConstants, HeldUpAtAccount, Zenon
<1>2. IInv => NoLockCycle
  BY <1>1, Zenon DEF NoLockCycle
<1>. QED  BY <1>2, Invariant, PTL

(* A call that has found its account also finds the password: no account   *)
(* is ever without one, and nothing takes it away.                         *)
THEOREM CredentialIsThereHolds == Spec => []CredentialIsThere
<1>1. ASSUME IInv, NEW t \in Threads,
             Step(t) \in {"readCredential", "findCredential", "updateCredential"}
      PROVE  Req(t).id \in DOMAIN credentials
  BY <1>1 DEF IInv, Presence, Known, Paired
<1>2. IInv => CredentialIsThere
  BY <1>1, Zenon DEF CredentialIsThere
<1>. QED  BY <1>2, Invariant, PTL

(* A step by whom and on which connection, if it needs one. *)
LEMMA Actor ==
  ASSUME StoreConstants, IInv, Next
  PROVE  \E t \in Threads :
           /\ Stepped(t)
           /\ \/ Waits(t)
              \/ \E k \in Connections : Takes(t, k) \/ Moves(t, k)
              \/ \E k \in Connections : Leaves(t, k) /\ UNCHANGED tables
                                        /\ (call'[t].answer = "ok" => Req(t).op \notin WriteOps)
              \/ \E k \in Connections : Leaves(t, k) /\ user[k] = t /\ Step(t) = "commit"
                                        /\ Commits(Req(t)) /\ call'[t].answer \in {"ok", "internal"}
<1>1. PICK t \in Threads :
        /\ Stepped(t)
        /\ Waits(t) \/ \E k \in Connections : Takes(t, k) \/ Moves(t, k) \/ Leaves(t, k)
  BY Kinds, Zenon
<1>2. ASSUME NEW k \in Connections, Leaves(t, k)
      PROVE  \/ UNCHANGED tables /\ (call'[t].answer = "ok" => Req(t).op \notin WriteOps)
             \/ /\ user[k] = t /\ Step(t) = "commit"
                /\ Commits(Req(t)) /\ call'[t].answer \in {"ok", "internal"}
  BY <1>2, Zenon DEF Leaves
<1>. QED  BY <1>1, <1>2, Zenon

(* OK to an AddAccount or an UpdateAccount means that what it asked for is *)
(* in the tables, in one piece; a call refused as NOT_FOUND or             *)
(* INVALID_ARGUMENT leaves them alone.                                     *)
THEOREM AnswersAreTrueHolds == Spec => AnswersAreTrue
<1>. DEFINE True(t) ==
       ~Idle(t) /\ call'[t].pc = 0 /\ Req(t).op \in {"AddAccount", "UpdateAccount"} =>
         LET r == Req(t) IN
         /\ call'[t].answer = "ok" =>
              /\ r.id \in DOMAIN accounts' /\ accounts'[r.id] = AccountRecord(r)
              /\ r.password # "" => r.id \in DOMAIN credentials'
                                    /\ credentials'[r.id].ciphertext = r.password
         /\ call'[t].answer \in {"not_found", "invalid_argument"} =>
              UNCHANGED tables
<1>1. ASSUME IInv, Next, NEW t \in Threads, ~Idle(t), call'[t].pc = 0, Req(t).op \in WriteOps
      PROVE  True(t)
  <2>1. PICK u \in Threads :
          /\ Stepped(u)
          /\ \/ Waits(u)
             \/ \E k \in Connections : Takes(u, k) \/ Moves(u, k)
             \/ \E k \in Connections : Leaves(u, k) /\ UNCHANGED tables
                                       /\ (call'[u].answer = "ok" => Req(u).op \notin WriteOps)
             \/ \E k \in Connections : Leaves(u, k) /\ user[k] = u /\ Step(u) = "commit"
                                       /\ Commits(Req(u)) /\ call'[u].answer \in {"ok", "internal"}
    BY <1>1, StoreConstants, Actor, Zenon
  <2>2. u = t
    BY <1>1, <2>1 DEF Stepped, Others, Idle
  <2>3. CASE Waits(t)
    <3>1. Step(t)' = "idle"
      BY <1>1 DEF Step, Idle
    <3>. QED  BY <2>3, <3>1 DEF Waits
  <2>4. CASE \E k \in Connections : Takes(t, k) \/ Moves(t, k)
    BY <1>1, <2>4 DEF Takes, Moves
  <2>5. CASE UNCHANGED tables /\ (call'[t].answer = "ok" => Req(t).op \notin WriteOps)
    BY <1>1, <2>5
  <2>6. ASSUME NEW k \in Connections, user[k] = t, Step(t) = "commit", Commits(Req(t)),
               call'[t].answer \in {"ok", "internal"}
        PROVE  True(t)
    <3>. DEFINE r == Req(t)
    <3>1. /\ r \in Writes /\ r.id # ""
          /\ DOMAIN accounts' = DOMAIN accounts \cup {r.id}
          /\ accounts'[r.id] = AccountRecord(r)
          /\ r.password # "" => /\ DOMAIN credentials' = DOMAIN credentials \cup {r.id}
                                /\ credentials'[r.id] = CredentialRecord(r)
      BY <1>1, <2>6, StoreConstants, CommitIs, Zenon
    <3>2. r.password # "" => CredentialRecord(r).ciphertext = r.password
      BY <3>1, StoreConstants, CredentialRecordIs, Zenon
    <3>. QED  BY <2>6, <3>1, <3>2
  <2>. QED  BY <2>1, <2>2, <2>3, <2>4, <2>5, <2>6, Zenon
<1>2. IInv /\ [Next]_vars => [\A t \in Threads : True(t)]_vars
  BY <1>1 DEF WriteOps
<1>. QED  BY <1>2, Invariant, PTL DEF Spec, AnswersAreTrue

(* The rows of an account change only when a call that names it commits,   *)
(* whatever its condition, and whatever others left on its connection.     *)
THEOREM OnlyThatAccountHolds == Spec => OnlyThatAccount
<1>. DEFINE Named(id) ==
       \/ RowsOf(id)' = RowsOf(id)
       \/ \E t \in Threads :
            Step(t) = "commit" /\ Req(t).id = id /\ call'[t].pc = 0
<1>1. ASSUME IInv, Next, NEW id \in Ids
      PROVE  Named(id)
  <2>1. PICK u \in Threads :
          /\ Stepped(u)
          /\ \/ Waits(u)
             \/ \E k \in Connections : Takes(u, k) \/ Moves(u, k)
             \/ \E k \in Connections : Leaves(u, k) /\ UNCHANGED tables
                                       /\ (call'[u].answer = "ok" => Req(u).op \notin WriteOps)
             \/ \E k \in Connections : Leaves(u, k) /\ user[k] = u /\ Step(u) = "commit"
                                       /\ Commits(Req(u)) /\ call'[u].answer \in {"ok", "internal"}
    BY <1>1, StoreConstants, Actor, Zenon
  <2>2. CASE UNCHANGED tables
    BY <2>2 DEF RowsOf, tables
  <2>3. ASSUME NEW k \in Connections, Leaves(u, k), user[k] = u, Step(u) = "commit",
               Commits(Req(u))
        PROVE  Named(id)
    <3>. DEFINE r == Req(u)
    <3>1. /\ DOMAIN accounts' = DOMAIN accounts \cup {r.id}
          /\ \A i \in DOMAIN accounts \ {r.id} : accounts'[i] = accounts[i]
          /\ r.password = "" => credentials' = credentials
          /\ r.password # "" =>
               /\ DOMAIN credentials' = DOMAIN credentials \cup {r.id}
               /\ \A i \in DOMAIN credentials \ {r.id} : credentials'[i] = credentials[i]
      BY <1>1, <2>3, StoreConstants, CommitIs, Zenon
    <3>2. CASE r.id = id
      BY <2>3, <3>2 DEF Leaves
    <3>3. CASE r.id # id
      <4>1. {accounts'[i] : i \in DOMAIN accounts' \cap {id}} =
              {accounts[i] : i \in DOMAIN accounts \cap {id}}
        BY <3>1, <3>3
      <4>2. {credentials'[i] : i \in DOMAIN credentials' \cap {id}} =
              {credentials[i] : i \in DOMAIN credentials \cap {id}}
        BY <3>1, <3>3
      <4>. QED  BY <4>1, <4>2 DEF RowsOf
    <3>. QED  BY <3>2, <3>3
  <2>4. Waits(u) \/ (\E k \in Connections : Takes(u, k) \/ Moves(u, k)) => UNCHANGED tables
    BY DEF Waits, Takes, Moves
  <2>. QED  BY <2>1, <2>2, <2>3, <2>4, Zenon
<1>2. IInv /\ [Next]_vars => [\A id \in Ids : Named(id)]_vars
  BY <1>1
<1>. QED  BY <1>2, Invariant, PTL DEF Spec, OnlyThatAccount

(* Every step of the handlers is one of the abstract specification or      *)
(* leaves its tables as they are: a commit adds an account with its        *)
(* password, or changes the row, or the row and the password, of one that  *)
(* is there.                                                               *)
THEOREM BookImplementedHolds == Spec => BookImplemented
<1>1. Init => Book!Init
  <2>1. ASSUME accounts = <<>>, credentials = <<>>
        PROVE  AccountsBooked = <<>> /\ CredentialsBooked = <<>>
    <3>1. /\ AccountsBooked = [id \in DOMAIN AccountsBooked |-> AccountsBooked[id]]
          /\ CredentialsBooked = [id \in DOMAIN CredentialsBooked |-> CredentialsBooked[id]]
      BY DEF AccountsBooked, CredentialsBooked
    <3>2. DOMAIN AccountsBooked = {} /\ DOMAIN CredentialsBooked = {}
      BY <2>1, EmptyTables DEF AccountsBooked, CredentialsBooked
    <3>. QED  BY <3>1, <3>2, NoRows, Zenon
  <2>. QED  BY <2>1 DEF Init, Book!Init
<1>2. ASSUME UNCHANGED tables PROVE UNCHANGED Book!tables
  BY <1>2 DEF tables, Book!tables, AccountsBooked, CredentialsBooked
<1>3. ASSUME IInv, NEW t \in Threads, NEW k \in Connections, user[k] = t,
             Step(t) = "commit", Commits(Req(t))
      PROVE  Book!Next
  <2>. DEFINE r   == Req(t)
              row == RowOf(AccountRecord(r))
  <2>1. /\ r \in Writes /\ r.op \in WriteOps /\ r.id # "" /\ r.id \in Ids
        /\ r.op = "AddAccount" => r.password # "" /\ r.id \notin DOMAIN accounts
        /\ r.op = "UpdateAccount" => r.id \in DOMAIN accounts
        /\ DOMAIN accounts' = DOMAIN accounts \cup {r.id}
        /\ accounts'[r.id] = AccountRecord(r)
        /\ \A id \in DOMAIN accounts \ {r.id} : accounts'[id] = accounts[id]
        /\ r.password = "" => credentials' = credentials
        /\ r.password # "" =>
             /\ DOMAIN credentials' = DOMAIN credentials \cup {r.id}
             /\ credentials'[r.id] = CredentialRecord(r)
             /\ \A id \in DOMAIN credentials \ {r.id} : credentials'[id] = credentials[id]
    BY <1>3, StoreConstants, CommitIs, Zenon
  <2>2. row \in Rows
    <3>1. AccountRecord(r) \in AccountRows
      BY <2>1, StoreConstants, AccountRecordIs, Zenon
    <3>. QED  BY <3>1 DEF AccountRows, RowOf, Rows
  <2>3. r.password # "" => r.password \in Passwords /\ CredentialRecord(r).ciphertext = r.password
    BY <2>1, StoreConstants, CredentialRecordIs, Zenon
  <2>. HIDE DEF r
  <2>4. AccountsBooked' = Book!Put(AccountsBooked, r.id, row)
    BY <2>1 DEF AccountsBooked, Book!Put
  <2>5. r.password # "" => CredentialsBooked' = Book!Put(CredentialsBooked, r.id, r.password)
    BY <2>1, <2>3 DEF CredentialsBooked, Book!Put
  <2>6. r.password = "" => UNCHANGED CredentialsBooked
    BY <2>1 DEF CredentialsBooked
  <2>7. DOMAIN AccountsBooked = DOMAIN accounts
    BY DEF AccountsBooked
  <2>. HIDE DEF row
  <2>8. CASE r.op = "AddAccount"
    <3>1. Book!Add(r.id, row, r.password)
      BY <2>1, <2>4, <2>5, <2>7, <2>8 DEF Book!Add
    <3>. QED  BY <2>1, <2>2, <2>3, <2>8, <3>1, Zenon DEF Book!Next
  <2>9. CASE r.op = "UpdateAccount" /\ r.password = ""
    <3>1. Book!Change(r.id, row)
      BY <2>1, <2>4, <2>6, <2>7, <2>9 DEF Book!Change
    <3>. QED  BY <2>1, <2>2, <3>1, Zenon DEF Book!Next
  <2>10. CASE r.op = "UpdateAccount" /\ r.password # ""
    <3>1. Book!ChangeWithPassword(r.id, row, r.password)
      BY <2>1, <2>4, <2>5, <2>7, <2>10 DEF Book!ChangeWithPassword
    <3>. QED  BY <2>1, <2>2, <2>3, <2>10, <3>1, Zenon DEF Book!Next
  <2>. QED  BY <2>1, <2>8, <2>9, <2>10 DEF WriteOps
<1>4. IInv /\ [Next]_vars => [Book!Next]_Book!tables
  <2>1. ASSUME IInv, Next PROVE Book!Next \/ UNCHANGED Book!tables
    <3>1. PICK u \in Threads :
            /\ Stepped(u)
            /\ \/ Waits(u)
               \/ \E k \in Connections : Takes(u, k) \/ Moves(u, k)
               \/ \E k \in Connections : Leaves(u, k) /\ UNCHANGED tables
                                         /\ (call'[u].answer = "ok" => Req(u).op \notin WriteOps)
               \/ \E k \in Connections :
                    /\ Leaves(u, k) /\ user[k] = u /\ Step(u) = "commit"
                    /\ Commits(Req(u)) /\ call'[u].answer \in {"ok", "internal"}
      BY <2>1, StoreConstants, Actor, Zenon
    <3>2. Waits(u) \/ (\E k \in Connections : Takes(u, k) \/ Moves(u, k)) => UNCHANGED tables
      BY DEF Waits, Takes, Moves
    <3>. QED  BY <1>2, <1>3, <2>1, <3>1, <3>2, Zenon
  <2>2. UNCHANGED vars => UNCHANGED tables
    BY DEF vars
  <2>. QED  BY <1>2, <2>1, <2>2
<1>. QED  BY <1>1, <1>4, Invariant, PTL DEF Spec, BookImplemented, Book!Spec
=============================================================================
