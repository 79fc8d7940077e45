---------------------------- MODULE AccountStore ----------------------------
(***************************************************************************)
(* The handlers of account_service (handler/*.cpp) on its two tables.      *)
(* Each gRPC thread runs one call at a time; a call takes a connection     *)
(* from the pool and makes its statements one after the other, the writing *)
(* calls inside a transaction.  A step of the model is one statement.      *)
(*                                                                         *)
(* The database is outside this repository and modelled by what the        *)
(* handlers rely on: a written row is locked until its transaction ends, a *)
(* plain SELECT sees what is committed and what its own transaction wrote, *)
(* a primary key is unique, any statement may fail, a lost connection ends *)
(* the transaction, and BEGIN on a session whose transaction is still open *)
(* commits that one first.  An UPDATE that changes no value may report     *)
(* that it affected no row.                                                *)
(***************************************************************************)
EXTENDS Integers, Sequences, TableDml

CONSTANTS
  Threads,       \* gRPC threads
  Connections,   \* connections of the pool
  Ids,           \* account_id of requests; "" is a missing one
  Lines,         \* broker_id and connection_string of requests
  Passwords,     \* passwords of requests; "" is none
  Statuses,      \* status of requests, any text; "" is none
  Pool           \* not a thread: whose a connection is when nobody uses it

ASSUME StoreConstants ==
  /\ Pool \notin Threads
  /\ "" \notin Ids /\ "" \notin Passwords /\ "" \notin Statuses
  /\ "active" \in Statuses
  /\ NoValue \notin Ids \cup Lines \cup Passwords \cup Statuses

VARIABLES
  accounts,      \* trading_account, committed: its rows by account_id
  credentials,   \* account_credential, committed: by account_id, as the
                 \* handlers write rows of the type kPassword only
  session,       \* connection -> its transaction
  user,          \* connection -> the thread that has it, or Pool
  call           \* thread -> its request, the step it is at, its last answer

tables == <<accounts, credentials>>
vars   == <<tables, session, user, call>>

----------------------------------------------------------------------------
(* Requests                                                                *)

NoRequest == [op |-> "none"]

Writes == [op : {"AddAccount", "UpdateAccount"}, id : Ids \cup {""},
           line : Lines, status : Statuses \cup {""}, password : Passwords \cup {""}]
(* The id "" also stands for a request that lacks its account message, or  *)
(* the engine_id that GetCredential asks for.                              *)
Reads  == [op : {"GetAccount", "GetCredential"}, id : Ids \cup {""}]
            \cup {[op |-> "ListAccounts"]}

(* ToTradingAccountRecord: an empty status means active. *)
AccountVerbatim(r) ==                                        \* mutant
  [account_id |-> r.id, line |-> r.line, status |-> r.status]
AccountRecord(r) ==
  [account_id |-> r.id, line |-> r.line,
   status |-> IF r.status = "" THEN "active" ELSE r.status]

(* EncryptCredential keeps the text as it is; it refuses an empty one,     *)
(* which no plan hands to it.                                              *)
KeyId == "stub-v1"
CredentialRecord(r) ==
  [account_id |-> r.id, credential_type |-> "password",
   key_id |-> KeyId, ciphertext |-> r.password]
Decryptable(row) == row.key_id # "" /\ row.ciphertext # ""

(* The conditions of the handlers' statements. *)
AccountOf(id) ==
  KeyValues([account_id |-> id, line |-> NoValue, status |-> NoValue])
PasswordOf(id) ==
  KeyValues([account_id |-> id, credential_type |-> "password",
             key_id |-> NoValue, ciphertext |-> NoValue])

(* Mutant: an update does not ask for an id. *)
ValidWithoutId(r) ==
  CASE r.op = "ListAccounts"  -> TRUE
    [] r.op = "AddAccount"    -> r.id # "" /\ r.password # ""
    [] r.op = "UpdateAccount" -> TRUE
    [] OTHER                  -> r.id # ""

(* ValidateParams *)
Valid(r) ==
  CASE r.op = "ListAccounts" -> TRUE
    [] r.op = "AddAccount"   -> r.id # "" /\ r.password # ""
    [] OTHER                 -> r.id # ""

(* The statements of an AddAccount, of an UpdateAccount, and of every call *)
(* that meets no obstacle (ExecuteBusiness).                               *)
AddPlanForgetsCredential ==                                  \* mutant
  <<"acquire", "begin", "count", "insertAccount", "commit">>
AddPlan ==
  <<"acquire", "begin", "count", "insertAccount", "insertCredential", "commit">>

(* Mutant: an update that disables the account changes its password first. *)
UpdatePlanInTwoOrders(r) ==
  <<"acquire", "begin">>
    \o IF r.password = "" THEN <<"updateAccount", "commit">>
       ELSE IF r.status = "disabled"
       THEN <<"findCredential", "updateCredential", "updateAccount", "commit">>
       ELSE <<"updateAccount", "findCredential", "updateCredential", "commit">>
UpdatePlan(r) ==
  IF r.password = "" THEN <<"acquire", "begin", "updateAccount", "commit">>
  ELSE <<"acquire", "begin", "updateAccount",
         "findCredential", "updateCredential", "commit">>

Plan(r) ==
  CASE r.op = "AddAccount"    -> AddPlan
    [] r.op = "UpdateAccount" -> UpdatePlan(r)
    [] r.op = "GetAccount"    -> <<"acquire", "readAccount">>
    [] r.op = "ListAccounts"  -> <<"acquire", "readAccounts">>
    [] r.op = "GetCredential" -> <<"acquire", "checkAccount", "readCredential">>

Idle(t) == call[t].pc = 0
Step(t) == IF Idle(t) THEN "idle" ELSE Plan(call[t].req)[call[t].pc]
Req(t)  == call[t].req

----------------------------------------------------------------------------
(* The database                                                            *)

NoTransaction == [open |-> FALSE, accounts |-> <<>>, credentials |-> <<>>]

(* Another transaction has written a row that this condition hits. *)
Locked(k, table, where) ==
  \E j \in Connections \ {k} : SelectRows(session[j][table], where) # {}

(* What a SELECT on connection k sees of a table. *)
AccountsSeen(k)    == Over(session[k].accounts, accounts)
CredentialsSeen(k) == Over(session[k].credentials, credentials)

----------------------------------------------------------------------------
Init ==
  /\ accounts = <<>>
  /\ credentials = <<>>
  /\ session = [k \in Connections |-> NoTransaction]
  /\ user = [k \in Connections |-> Pool]
  /\ call = [t \in Threads |-> [req |-> NoRequest, pc |-> 0, answer |-> "none"]]

(* ToGrpcStatus of the result of Run: OK, NOT_FOUND, INVALID_ARGUMENT or   *)
(* INTERNAL.                                                               *)
Answer(t, status) ==
  call' = [call EXCEPT ![t] = [req |-> NoRequest, pc |-> 0, answer |-> status]]

Proceed(t) == call' = [call EXCEPT ![t].pc = @ + 1]

(* Thread t with its connection k is at this step. *)
At(t, k, step) == Step(t) = step /\ user[k] = t

(* The connection's destructor hands it back to the pool. *)
HandBack(k) == user' = [user EXCEPT ![k] = Pool]

(* RollbackTransaction and an early return. *)
Abort(t, k, status) ==
  /\ Answer(t, status)
  /\ HandBack(k)
  /\ session' = [session EXCEPT ![k] = NoTransaction]
  /\ UNCHANGED tables

(* A statement of k writes these rows. *)
WriteAccounts(t, k, rows) ==
  /\ session' = [session EXCEPT ![k].accounts = Over(rows, @)]
  /\ Proceed(t)
  /\ UNCHANGED <<tables, user>>

WriteCredentials(t, k, rows) ==
  /\ session' = [session EXCEPT ![k].credentials = Over(rows, @)]
  /\ Proceed(t)
  /\ UNCHANGED <<tables, user>>

(* A SELECT answers the call, outside a transaction. *)
Return(t, k, status) ==
  /\ Answer(t, status)
  /\ HandBack(k)
  /\ UNCHANGED <<tables, session>>

----------------------------------------------------------------------------
(* A call arrives and takes a connection                                   *)

Arrive(t, r) ==
  /\ Idle(t) /\ Valid(r)
  /\ call' = [call EXCEPT ![t] = [req |-> r, pc |-> 1, answer |-> "none"]]
  /\ UNCHANGED <<tables, session, user>>

Reject(t, r) ==
  /\ Idle(t) /\ ~Valid(r)
  /\ Answer(t, "invalid_argument")
  /\ UNCHANGED <<tables, session, user>>

Acquire(t, k) ==
  /\ Step(t) = "acquire" /\ user[k] = Pool
  /\ user' = [user EXCEPT ![k] = t]
  /\ Proceed(t)
  /\ UNCHANGED <<tables, session>>

(* The pool is exhausted or not open (DatabaseReady, Acquire). *)
AcquireFails(t) ==
  /\ Step(t) = "acquire"
  /\ Answer(t, "internal")
  /\ UNCHANGED <<tables, session, user>>

Begin(t, k) ==
  /\ At(t, k, "begin")
  /\ accounts' = Over(session[k].accounts, accounts)
  /\ credentials' = Over(session[k].credentials, credentials)
  /\ session' = [session EXCEPT ![k] = [NoTransaction EXCEPT !.open = TRUE]]
  /\ Proceed(t)
  /\ UNCHANGED user

BeginFails(t, k) ==
  /\ At(t, k, "begin")
  /\ Return(t, k, "internal")

----------------------------------------------------------------------------
(* AddAccount                                                              *)

CountNone(t, k) ==
  /\ At(t, k, "count") /\ CountRows(AccountsSeen(k), AccountOf(Req(t).id)) = 0
  /\ Proceed(t)
  /\ UNCHANGED <<tables, session, user>>

CountFound(t, k) ==
  /\ At(t, k, "count") /\ CountRows(AccountsSeen(k), AccountOf(Req(t).id)) > 0
  /\ Abort(t, k, "internal")

InsertAccount(t, k) ==
  /\ At(t, k, "insertAccount") /\ ~Locked(k, "accounts", AccountOf(Req(t).id))
  /\ Req(t).id \notin DOMAIN accounts
  /\ WriteAccounts(t, k, InsertRow(Req(t).id, KeyValues(AccountRecord(Req(t)))))

(* Added by another call since the count. *)
DuplicateAccount(t, k) ==
  /\ At(t, k, "insertAccount") /\ ~Locked(k, "accounts", AccountOf(Req(t).id))
  /\ Req(t).id \in DOMAIN accounts
  /\ Abort(t, k, "internal")

InsertCredential(t, k) ==
  /\ At(t, k, "insertCredential")
  /\ ~Locked(k, "credentials", PasswordOf(Req(t).id))
  /\ Req(t).id \notin DOMAIN credentials
  /\ WriteCredentials(t, k, InsertRow(Req(t).id, KeyValues(CredentialRecord(Req(t)))))

AddAccount(t, k) ==
  \/ CountNone(t, k) \/ CountFound(t, k)
  \/ InsertAccount(t, k) \/ DuplicateAccount(t, k) \/ InsertCredential(t, k)

----------------------------------------------------------------------------
(* UpdateAccount                                                           *)

(* The rows as the two UPDATE statements leave them. *)
AccountsUpdated(t, k) ==
  UpdateRows(AccountsSeen(k), KeyValues(AccountRecord(Req(t))), AccountOf(Req(t).id))
CredentialsUpdated(t, k) ==
  UpdateRows(CredentialsSeen(k), KeyValues(CredentialRecord(Req(t))), PasswordOf(Req(t).id))

(* These rows are in the table as they are: none, or none that changes. *)
AllIn(rows, table) == \A id \in DOMAIN rows : rows[id] = table[id]

UpdateRow(t, k) ==
  /\ At(t, k, "updateAccount") /\ ~Locked(k, "accounts", AccountOf(Req(t).id))
  /\ MayUpdate(KeyValues(AccountRecord(Req(t))), AccountOf(Req(t).id))
  /\ DOMAIN AccountsUpdated(t, k) # {}
  /\ WriteAccounts(t, k, AccountsUpdated(t, k))

(* Mutant: one of the early returns does not roll back. *)
UpdateAffectsNoneKeepsOpen(t, k) ==
  /\ At(t, k, "updateAccount") /\ ~Locked(k, "accounts", AccountOf(Req(t).id))
  /\ Return(t, k, "not_found")

(* No row has the id, or the row has these values already. *)
UpdateAffectsNone(t, k) ==
  /\ At(t, k, "updateAccount") /\ ~Locked(k, "accounts", AccountOf(Req(t).id))
  /\ AllIn(AccountsUpdated(t, k), AccountsSeen(k))
  /\ Abort(t, k, "not_found")

FindCredential(t, k) ==
  /\ At(t, k, "findCredential")
  /\ SelectRows(CredentialsSeen(k), PasswordOf(Req(t).id)) # {}
  /\ Proceed(t)
  /\ UNCHANGED <<tables, session, user>>

(* A SELECT that fails and one that finds nothing answer the same. *)
FindCredentialFails(t, k) ==
  /\ At(t, k, "findCredential")
  /\ Abort(t, k, "not_found")

UpdateCredential(t, k) ==
  /\ At(t, k, "updateCredential")
  /\ ~Locked(k, "credentials", PasswordOf(Req(t).id))
  /\ MayUpdate(KeyValues(CredentialRecord(Req(t))), PasswordOf(Req(t).id))
  /\ DOMAIN CredentialsUpdated(t, k) # {}
  /\ WriteCredentials(t, k, CredentialsUpdated(t, k))

(* The account has this password already, or has lost its row. *)
UpdateCredentialAffectsNone(t, k) ==
  /\ At(t, k, "updateCredential")
  /\ ~Locked(k, "credentials", PasswordOf(Req(t).id))
  /\ AllIn(CredentialsUpdated(t, k), CredentialsSeen(k))
  /\ Abort(t, k, "not_found")

UpdateAccount(t, k) ==
  \/ UpdateRow(t, k) \/ UpdateAffectsNone(t, k)
  \/ FindCredential(t, k)
  \/ UpdateCredential(t, k) \/ UpdateCredentialAffectsNone(t, k)

----------------------------------------------------------------------------
(* The end of a transaction, and failures                                  *)

Commit(t, k) ==
  /\ At(t, k, "commit")
  /\ accounts' = Over(session[k].accounts, accounts)
  /\ credentials' = Over(session[k].credentials, credentials)
  /\ session' = [session EXCEPT ![k] = NoTransaction]
  /\ Answer(t, "ok")
  /\ HandBack(k)

(* Mutant: the result of CommitTransaction is ignored. *)
CommitFailsUnnoticed(t, k) == At(t, k, "commit") /\ Abort(t, k, "ok")

CommitFails(t, k) == At(t, k, "commit") /\ Abort(t, k, "internal")

(* The commit took effect, but its confirmation was lost. *)
CommitUnconfirmed(t, k) ==
  /\ At(t, k, "commit")
  /\ accounts' = Over(session[k].accounts, accounts)
  /\ credentials' = Over(session[k].credentials, credentials)
  /\ session' = [session EXCEPT ![k] = NoTransaction]
  /\ Answer(t, "internal")
  /\ HandBack(k)

(* Mutant: the early return of a failed statement does not roll back. *)
StatementFailsKeepsOpen(t, k) ==
  /\ Step(t) \in {"count", "insertAccount", "insertCredential",
                  "updateAccount", "updateCredential"}
  /\ user[k] = t
  /\ Return(t, k, "internal")

StatementFails(t, k) ==
  /\ Step(t) \in {"count", "insertAccount", "insertCredential",
                  "updateAccount", "updateCredential"}
  /\ user[k] = t
  /\ Abort(t, k, "internal")

----------------------------------------------------------------------------
(* GetAccount, ListAccounts, GetCredential                                 *)

AccountsFound(t) == SelectRows(accounts, AccountOf(Req(t).id))
Disabled(t)      == \E id \in AccountsFound(t) : accounts[id].status = "disabled"

ReadAccount(t, k) ==
  /\ At(t, k, "readAccount")
  /\ Return(t, k, IF AccountsFound(t) # {} THEN "ok" ELSE "not_found")

(* Without a condition every row is listed; the list may be empty. *)
ReadAccounts(t, k) ==
  /\ At(t, k, "readAccounts")
  /\ Return(t, k, "ok")

CheckAccount(t, k) ==
  /\ At(t, k, "checkAccount")
  /\ AccountsFound(t) # {} /\ ~Disabled(t)
  /\ Proceed(t)
  /\ UNCHANGED <<tables, session, user>>

RefuseCredential(t, k) ==
  /\ At(t, k, "checkAccount")
  /\ \/ AccountsFound(t) = {} /\ Return(t, k, "not_found")
     \/ AccountsFound(t) # {} /\ Disabled(t) /\ Return(t, k, "invalid_argument")

ReadCredential(t, k) ==
  /\ At(t, k, "readCredential")
  /\ LET found == SelectRows(credentials, PasswordOf(Req(t).id)) IN
     Return(t, k, IF found = {} THEN "not_found"
                  ELSE IF \A id \in found : Decryptable(credentials[id])
                  THEN "ok" ELSE "invalid_argument")

ReadFails(t, k) ==
  /\ Step(t) \in {"readAccount", "readAccounts", "checkAccount", "readCredential"}
  /\ user[k] = t
  /\ Return(t, k, "internal")

Read(t, k) ==
  \/ ReadAccount(t, k) \/ ReadAccounts(t, k)
  \/ CheckAccount(t, k) \/ RefuseCredential(t, k) \/ ReadCredential(t, k)

----------------------------------------------------------------------------
(* A step of a call that is not held up and does not fail. *)
Serve(t) ==
  \E k \in Connections :
    \/ Acquire(t, k) \/ Begin(t, k)
    \/ AddAccount(t, k) \/ UpdateAccount(t, k) \/ Commit(t, k)
    \/ Read(t, k)

Fail(t) ==
  \/ AcquireFails(t)
  \/ \E k \in Connections :
       \/ BeginFails(t, k) \/ StatementFails(t, k) \/ FindCredentialFails(t, k)
       \/ CommitFails(t, k) \/ CommitUnconfirmed(t, k) \/ ReadFails(t, k)

Next ==
  \E t \in Threads :
    \/ \E r \in Writes \cup Reads : Arrive(t, r) \/ Reject(t, r)
    \/ Serve(t)
    \/ Fail(t)

Spec == Init /\ [][Next]_vars

(* A thread runs on, and a row lock is granted in turn, so that one whom   *)
(* others overtook for a while gets it too.                                *)
FairSpec == Spec /\ \A t \in Threads : SF_vars(Serve(t))

----------------------------------------------------------------------------
(* Properties                                                              *)

(* Every variable has its type; a row is stored under its account_id. *)
Keyed(table) == \A id \in DOMAIN table : table[id].account_id = id

PartialOn(ids, values) == UNION {[some -> values] : some \in SUBSET ids}

AccountTable ==
  {table \in PartialOn(Ids, [account_id : Ids, line : Lines, status : Statuses]) :
     Keyed(table)}
CredentialTable ==
  {table \in PartialOn(Ids, [account_id : Ids, credential_type : {"password"},
                             key_id : {KeyId}, ciphertext : Passwords]) :
     Keyed(table)}

TypeOK ==
  /\ accounts \in AccountTable
  /\ credentials \in CredentialTable
  /\ session \in [Connections ->
       [open : BOOLEAN, accounts : AccountTable, credentials : CredentialTable]]
  /\ user \in [Connections -> Threads \cup {Pool}]
  /\ call \in [Threads ->
       [req : Writes \cup Reads \cup {NoRequest}, pc : 0..6,
        answer : {"none", "ok", "not_found", "invalid_argument", "internal"}]]

(* Whatever path a call leaves its handler by, it has given back its       *)
(* connection, and with no transaction open on it: the next call would     *)
(* inherit the locks, and commit the writes.                               *)
PoolRestored ==
  /\ \A k \in Connections : user[k] = Pool => session[k] = NoTransaction
  /\ \A t \in Threads :
       Cardinality({k \in Connections : user[k] = t}) =
         IF Step(t) \in {"idle", "acquire"} THEN 0 ELSE 1

(* t is held up by a row that u has written. *)
WaitsFor(t, u) ==
  \E k, j \in Connections :
    /\ user[k] = t /\ user[j] = u /\ k # j
    /\ \/ /\ Step(t) \in {"insertAccount", "updateAccount"}
          /\ SelectRows(session[j].accounts, AccountOf(Req(t).id)) # {}
       \/ /\ Step(t) \in {"insertCredential", "updateCredential"}
          /\ SelectRows(session[j].credentials, PasswordOf(Req(t).id)) # {}

(* Calls never hold each other up in a circle, however long: one that      *)
(* holds up another is not held up itself, as every handler locks the      *)
(* account before its credential.                                          *)
NoLockCycle ==
  \A t, u, v \in Threads : ~(WaitsFor(t, u) /\ WaitsFor(u, v))

(* A call that has found the account always finds its password: between    *)
(* its two statements, which GetCredential makes outside a transaction,    *)
(* nothing takes it away, and no account is without one.                   *)
CredentialIsThere ==
  \A t \in Threads :
    Step(t) \in {"readCredential", "findCredential", "updateCredential"} =>
      Req(t).id \in DOMAIN credentials

(* OK to a writing call means that at that moment everything it asked for  *)
(* is committed; NOT_FOUND and INVALID_ARGUMENT mean that the call does    *)
(* not change the tables then.                                             *)
AnswersAreTrue ==
  [][\A t \in Threads :
       ~Idle(t) /\ call'[t].pc = 0 /\ Req(t).op \in {"AddAccount", "UpdateAccount"} =>
         LET r == Req(t) IN
         /\ call'[t].answer = "ok" =>
              /\ r.id \in DOMAIN accounts' /\ accounts'[r.id] = AccountRecord(r)
              /\ r.password # "" => r.id \in DOMAIN credentials'
                                    /\ credentials'[r.id].ciphertext = r.password
         /\ call'[t].answer \in {"not_found", "invalid_argument"} =>
              UNCHANGED tables]_vars

(* The rows of an account change only when a call that names it commits:   *)
(* no UPDATE reaches further than its account, though a condition on an    *)
(* empty text is dropped, and nothing a call leaves behind on its          *)
(* connection is committed by another one.                                 *)
RowsOf(id) ==
  {accounts[i] : i \in DOMAIN accounts \cap {id}}
    \cup {credentials[i] : i \in DOMAIN credentials \cap {id}}

OnlyThatAccount ==
  [][\A id \in Ids :
       \/ RowsOf(id)' = RowsOf(id)
       \/ \E t \in Threads :
            Step(t) = "commit" /\ Req(t).id = id /\ call'[t].pc = 0]_vars

(* The tables change only as the abstract specification says: an account   *)
(* with its password in one piece, whatever step fails, whatever calls     *)
(* interleave.                                                             *)
Rows == [line : Lines, status : Statuses]
RowOf(row) == [line |-> row.line, status |-> row.status]
AccountsBooked    == [id \in DOMAIN accounts |-> RowOf(accounts[id])]
CredentialsBooked == [id \in DOMAIN credentials |-> credentials[id].ciphertext]
Book == INSTANCE AccountBook WITH
  accounts <- AccountsBooked, credentials <- CredentialsBooked
BookImplemented == Book!Spec

(* Every call is answered, however the row locks make calls wait. *)
CallsReturn == \A t \in Threads : ~Idle(t) ~> Idle(t)
=============================================================================
