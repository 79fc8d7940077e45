# A verification project for qtrade_service

TLA+ modules, TLC configurations and TLAPS proofs for the three support
services of this repository: `config_service`, `account_service` and
`account_risk_service`. Everything is translated from the code under
`src/qtrade_service`, `include` and `proto`; libraries outside the repository
(gRPC, cpputils, the database) are modelled by what the code relies on.

    cd tla
    tlc -config MCAccountRiskLedger_calls.cfg MCAccountRiskLedger
    tlapm AccountRiskLedgerProofs.tla

## 1. The system

| part | code | state | operations |
|---|---|---|---|
| account risk ledger | `service/account_risk_service/grpc/account_risk_grpc_service.cpp` | a process-wide map account → policy, reservations, three running counters; one mutex | ReserveOrder, QueryReservation, ReleaseOrder, ListActiveReservations, Get- and UpsertAccountRiskPolicy, the lazy sweep |
| config call tags | `service/config_service/grpc/config_grpc_async_handler.cpp`, `framework/grpc/async/unary_call_tag.hpp` | one object per call: status, `since_version_`, write in flight, finished | Proceed on each completion: request, alarm, write, finish |
| configuration query | `service/config_service/grpc/config_scope.cpp` | a row of `engine_config` | QueryEngineConfig: row, placeholder, empty |
| async server | `framework/grpc/async/grpc_async_server.cpp`, `completion_queue_loop.cpp` | `running_`, `server_`, `cq_`, `loop_` | Start, Shutdown, Wait, destructor, Run |
| sync server | `framework/grpc/sync/grpc_sync_server.cpp` | `running_`, `server_` | Start, Shutdown, Wait, destructor |
| service lifecycle | `framework/support/support_*_service_impl.hpp`, `*_service.cpp` | `state_`, `last_error_`, pool, service object or handler, server | Initialize, Start, Stop, Wait |
| process boot | `common/boot/support_service_boot.cpp` | the main and the waiting thread | RunSupportServiceMain, RunUntilShutdown |
| program entries | `config_service/main.cpp` and the other two | none | read the configuration file, call RunSupportServiceMain |
| bootstrap configuration | `common/config/*.cpp` | none | LoadJsonFile and one parser per service, the database section |
| table creation | `framework/dao/ddl_utils.cpp`, the twelve DAOs under `dao/` | the schema in the database | EnsureTableSchema, CreateTableSql, CreateIndexSqls |
| handler pipeline | `include/qtrade/grpc/grpc_handler_interface.hpp` | per call: `rollback_on_exception` | Run: eight hooks in a fixed order, Rollback |
| account handlers | `service/account_service/handler/*.cpp` | tables `trading_account`, `account_credential`; a connection per call | AddAccount, GetAccount, ListAccounts, UpdateAccount, GetCredential |
| DAO and DML helpers | `dao/account_service`, `framework/dao/dml_utils.cpp` | none | Insert, Update, Count, Select |
| credential codec | `service/account_service/logic/credential_codec.*` | none | encrypt and decrypt a password: a placeholder |
| connection pool manager | `framework/database/db_connection_pool_manager.cpp` | pools by database name | AddConnectionPool, Acquire, IsReady |
| not modelled | JSON to protobuf conversion, command line, log settings, DAO operations nobody calls (Delete, BatchDelete, Truncate) | | |

How they interact. `main` reads the configuration file and hands a service
object to the boot code, which initializes it (reading the same file again,
opening the pool, making the tables), starts it, spawns a thread in `Wait` and
stops it at a signal. The two synchronous services answer each RPC on a gRPC
thread: `account_service` through a handler object, called by
`GrpcHandlerInterface::Run`, that takes a connection from the pool,
`account_risk_service` on a map under a mutex. `config_service` hands operations
to a completion queue; one poller thread takes the completions and calls the
tags. The services do not call each other; the engine that calls them lives in
another repository.

What is hard here:

* *interleaving*: handler threads on one ledger with clock readings taken
  outside the mutex; two transactions on the rows of one account; Stop against
  Wait, and Stop against the poller;
* *ordering*: completions, alarms and disconnections in any order on one tag;
* *failure*: any statement, a commit whose confirmation is lost, an unreadable
  table, a caller that is gone, a hook or a Rollback that throws, a configuration
  file that is wrong or edited between its two readings, a database that goes
  away between two statements of the schema, a process killed there, a restart
  that forgets the ledger;
* *time*: reservations that fall due between calls, policies that lapse,
  retries of a call whose answer was lost, a connection pool that closes after
  it was looked at.

What makes each part correct: the ledger never grants beyond the policy of the
moment and its running counters are the true sums; a stream never goes back and
never falls silent; an account and its credential change in one piece; a call
that is answered with an error has left nothing; a Ready service has what its
start looked for, made from a file its own parser accepts, and a signal ends it. `PROJECT.json` lists under
`hazards` each place where the code could miss one of these, with the property
that watches it or the reason why none does.

## 2. Modules

### The ledger

* `ReservedTotals` – sums over the orders that hold quota, of amounts of either
  sign, and the limit test (`WithinLimit`, the three comparisons of
  ReserveOrder). Constant-level only.
* `AccountQuota` – the abstract promise: an order obtains quota at most once,
  while the sum over the holders fits the limits of that moment, and gives it
  back at most once. The limits must not have lapsed (`valid_until`) at the time
  from which the order's deadline is counted. `Forget` is what a restart loses.
  No threads, no counters; the time only passes.
* `AccountRiskLedger` – the code. `pc[t]` is `waiting` between the arrival of a
  request and its turn at the mutex, `sweeping` while it holds it. ReserveOrder
  reads the clock in `ReserveArrive`, before the mutex; QueryReservation and
  ListActiveReservations in `LockAndSweep`, under it. `ExpireOne` is one step of
  the sweep loop, whose order is that of an unordered map, hence any. The
  disjuncts of ReserveOrder follow the returns of the handler in their order.
* `MCAccountRiskLedger` – intents, policies and symmetry for TLC, and two
  properties the documentation claims and the code does not have.
* `ReservedTotalsProofs`, `AccountRiskLedgerProofs` – lemmas and theorems.

### The configuration streams

* `ConfigStreams` – tags as records (`status`, `accepted`, `writing`,
  `finished`, `since`, `outgoing`), operations handed to gRPC (`ops`), completed
  events (`cq`), the callers, the engine's row and the steps of Stop. One event
  taken by the poller is one action named for the branch of Proceed that runs.
  gRPC is external: a request completes when a call arrives or the server is
  shut down, an alarm completes at any time, a write to a caller that is there
  succeeds and to one that is gone may fail. Reading a configuration goes
  through `MakeConfigScope` (a missing engine_id becomes `default`) and the
  SELECT of `TableDml`, and is told by its version: −1 stands for the empty
  answer of a failed read (version 0), 0 for a missing row (version 1), v for a
  row of version v, −2 for the row of another engine, which no caller may see.
  The handler asks `DatabaseReady()` wherever it makes a tag, and makes none,
  silently, when the pool is closed: `StartUnready` in Start (the pool may also
  close between its two tags, `StartSubscribe`), `GetUnready` and
  `AcceptUnready` where a tag should make its successor. `PoolCloses` may come
  at any time; nothing but Initialize opens a pool, so it stays closed.
* `MCConfigStreams` – three claims of comments that the code does not keep.
* `ConfigStreamsProofs` – its theorems.

### The process

* `BootstrapConfig` – which configuration documents each parser accepts, refuses
  or throws on. A document is a record of what the parsers tell apart; the checks
  of a parser are a sequence and the first that fails decides. A pool size is
  read as unsigned and wraps; `SizeRange` (65536) stands for 2^64. Constant-level.
* `ServiceSchema` – the CREATE statements of the twelve DAOs, each with what it
  makes, the tables it needs and whether it says IF NOT EXISTS;
  `EnsureTableSchema` puts those of one DAO in order, `Schema` the DAOs of a
  service in the order of Initialize. Constant-level.
* `SupportService` – main thread and waiting thread with the fields of the
  service and its server; `service` is one of the three and `Kind` (sync, async)
  follows from it. `main` goes from the first reading of the file through
  Initialize, one step per reading, pool, DAO, lease, statement and return, to
  Start and Stop. Start is three steps: what it checks (`StartOk`), the server that
  listens (`Listen`), and handler_->Start() with kReady (`SetReady`). Around it
  the file is edited, the database goes and comes, the pool closes at any time,
  and the process is killed and booted again on the tables it left. Whether a
  statement of the schema is accepted is derived from the statement and the
  tables that are there (`Accepts`); one whose connection is cut may have taken
  effect all the same (`CreateFails`). Stop's mutex
  excludes nothing of Wait, so each field is released in a step of its own. A
  call is a number. Where the code goes on with an object that the other thread
  has deleted, `UseAfterFree` lets the process die or go on.
* `MCSupportService` – the fifteen documents of the runs: the shipped file and
  that file with one thing wrong or different.
* `SupportServiceProofs` – its theorems.

### The accounts

* `TableDml` – the single-table statements by what they do to a table: a record
  becomes its columns, a condition with an empty text vanishes from the WHERE,
  INSERT, UPDATE, COUNT and SELECT. `Over` lays new values over old ones; it is
  written out here because TLC's `@@` has no definition a prover could use.
  Constant-level.
* `AccountBook` – the abstract promise: an account and its password are added
  together, a row changes alone or with its password, nothing is deleted.
* `AccountStore` – the handlers. `Plan` (with `AddPlan` and `UpdatePlan`) is
  the order of the statements of each handler, a step of the model is one
  statement of `TableDml`. A credential is written by `CredentialRecord` under a
  `KeyId` and read back where it is `Decryptable`. A transaction's writes stay in
  `session[k]` until the commit, and lock their rows. Every early return of the
  code is an action that ends in `Abort` (rollback, connection back, answer).
  The database is external and stated in the head of the module; two of its
  choices are left open: an UPDATE that changes nothing may count as one row or
  none, and a commit that reports failure may have taken effect. `NoLockCycle`
  says that a call which holds another up at a row waits for no row itself, so
  there is no cycle of any length, not only none of two calls.
* `AccountStoreProofs` – its theorems.

### The handler pipeline

* `HandlerPipeline` – one call through `GrpcHandlerInterface::Run`. Each hook
  succeeds, returns an error code or throws; Rollback returns or throws; the copy
  of an error text may throw, and so may the last text of the catch block, for
  which gRPC then answers itself (`Caught`). `armed` is `rollback_on_exception`.
  `effect` is what there is of ExecuteBusiness. The call is that of a "writing"
  handler of this repository – AddAccount or UpdateAccount: the work is a
  transaction, Rollback is empty, and the hooks after ExecuteBusiness return a
  constant that cannot fail (`Fallible`) – or of a "compensating" one, for which
  the base class is written too and of which there is none yet: any hook may fail
  and Rollback undoes what was made. The reading handlers have no effect.
* `HandlerPipelineProofs` – its theorems.

How they compose: `AccountRiskLedger` implements `AccountQuota` (`KeepsQuota`,
checked and proved), `AccountStore` implements `AccountBook` (`BookImplemented`,
checked and proved). `ConfigStreams` and `AccountStore` read and write through `TableDml`;
`SupportService` extends `BootstrapConfig` and `ServiceSchema`. The commit and
rollback statements inside one hook are in `AccountStore`, the course between the
hooks in `HandlerPipeline`. `SupportService` and `ConfigStreams` overlap in the stop of the
asynchronous server: the first follows the server's fields, the second the tags
that are still in its queue.

## 3. Runs

| run | shows | distinct states |
|---|---|---|
| `ledger_calls` | two threads on one account and two orders, policies in which each limit binds, cut down, switched off and lapsing, stale clocks, sweeps, releases, a restart: counters are totals, no early expiry, rejections are earned, replies are fresh, order ids end for good, the ledger implements `AccountQuota` | 809,584 |
| `ledger_retry` (violation) | a repeated ReserveOrder is REJECTED although the reservation is held | |
| `ledger_scan` (violation) | a due reservation stays reserved for ever; the configured scan interval drives nothing | |
| `config_streams` | calls of both kinds, callers that leave, an outage, two versions, a pool that closes and a stop at any moment: one operation per tag, never two acceptors and one as long as the pool is open, versions increase, a request without engine_id gets the default engine's configuration and no other | 3,444,264 |
| `config_live` | a subscriber that stays is sent every version, or a later one, or the version it said it has, across an outage; but for the first row after a placeholder | 93,833 |
| `config_get` (violation) | after one caller left early GetEngineConfig is never served again | |
| `config_stop` (violation) | Stop destroys the handler before the tags are through with it | |
| `config_first` (violation) | the first row of an engine, version 1, is never pushed to a subscriber that was sent the placeholder, version 1 too | |
| `lifecycle` | boot from fifteen files, an edit between the readings, an outage and a kill anywhere, a pool that closes anywhere, a second boot, failures, calls, signal, Stop against Wait: Ready is backed and configured as its parser demands, calls keep their service, exits are clean, the schema can be made again over a part of it, the signal ends a synchronous service | 68,178 |
| `lifecycle_queue` (violation) | Wait destroys the completion queue with the poller in it | |
| `account_calls` | two threads, one account, all five RPCs, every failure: tables change in one piece, connections come back clean, no lock cycle, answers are true, no call touches another account, calls return | 60,491 |
| `pipeline` | one call through Run with every outcome of every hook, for a writing handler of this repository and for a compensating one: an error leaves nothing but what `ErrorLeavesNothing` names, success means every hook succeeded, at most one Rollback completes, always an answer | 367 |

What the properties do not claim, because the code does not keep it:

* `RejectionEarned` and `Balanced` allow a sum that is too high in an account
  that has recorded a negative amount: the clamp at zero raised it. It is never
  too low, so `KeepsQuota` has no such reserve.
* `OneAcceptor` demands an acceptor only while the pool is open, `ReadyIsBacked`
  a started handler likewise: a Ready service whose pool has closed may have
  none, against the comment on kReady (a finding).
* `StreamCatchesUp` leaves out version 1 for a subscriber that was sent the
  placeholder (`config_first`), and interruptions: the call ended, the service
  stopped or crashed.
* `ErrorLeavesNothing` names what an error may leave. Of a writing handler: a
  commit that was not confirmed may have taken effect, and an exception of
  ExecuteBusiness may leave the transaction open (a finding). Of a
  compensating one: NotifyService threw, or no Rollback came to its end. A
  writing handler that had a check which can fail would not keep it, its Rollback
  being empty; that is its second mutant.
* `RollbackOnce` counts the Rollbacks that complete; one that throws is called
  again by the catch block.

A violation run states what a comment or document of the repository says; the
finding in `PROJECT.json` quotes it. Eight findings have no run, because there
is nothing to execute or the refutation needs no search: `max_gross_exposure`,
`default_ttl_ms` and `database.enabled` are stored and ignored, a handler whose
pool is closed makes no tag and the service says Ready, an empty Rollback undoes
nothing, a Start whose precondition fails leaves `last_error_` as it was, Stop
blocks where a comment says it does not, and a condition with an empty text is
dropped from the WHERE. Each property of a passing run has a mutant: a plausible
slip in one definition that makes TLC find the property violated.

Bounds. Every bound is a constant of its module. The ledger run uses one
account: accounts share nothing but the mutex, and the theorems cover any
number. Two orders and two threads are the least with which a check and an
update, or a sweep and a grant, can interleave; the clock runs to 2 so that a
deadline lies before, at and after a reading; two versions and one restart let a
policy be cut below what is held and a book be forgotten. The amounts of the run
are positive; that nothing depends on it is proved. `ConfigStreams` has three
tags, the GetEngineConfig slot, one stream and the next acceptor, two versions
and one outage: enough for a write, an outage and a second write; tags share no
state but the queue. Requests ask with `since_version` 0; the theorems hold for
any. `AccountStore` has one id, since transactions on different ids touch
different rows, two passwords and two statuses, so that an update can change
either, both or nothing. The code takes any text for a status; `Statuses` is a
constant, of which the theorems ask only that the default "active" is in it and
the empty text, which the code replaces by it, is not. `SupportService` has two
boots, one edit and one outage, the least that puts each between any two steps
of an Initialize and lets a boot find half a schema; `PoolLimit` (100) is the
largest pool the library opens, so that 0, 4 and a wrapped −1 fall on different
sides; two calls let one end while another holds the server. `HandlerPipeline`
has no bound: one call is finite, and three error codes stand for any set
(proved).

Symmetry is used in `ledger_calls` only (threads and orders are interchangeable
there), never under a liveness property. Deadlock is checked where a state
without a step would be an error; the cfgs of `ConfigStreams`, `SupportService`,
`AccountStore` and `HandlerPipeline` switch it off because the service really
stops, the process or the call really ends, or a call may wait for a row.

Fairness. `ConfigStreams!FairSpec`: the poller thread takes each event in the
end, gRPC completes writes and alarms, an outage ends; nothing is assumed of
callers or administrators. `SupportService!FairSpec`: both threads and the
poller run, and unary calls of a synchronous service return; nothing makes the
signal come, or a subscriber leave, which is why a stop of the asynchronous
kind may wait for ever. `AccountStore!FairSpec`: a thread runs on, strongly fair
because the database grants a row lock in turn; failing statements are never
forced, so a call that is held up is not freed by a timeout.
`HandlerPipeline!FairSpec`: the call's thread is scheduled and its hooks return;
which way they return is open. `ledger_scan` uses
fairness of the handler threads: even so, no sweep comes by itself.

External assumptions. The database executes a CREATE statement when it answers,
the tables that the statement needs are there, and what it makes is not or the
statement says IF NOT EXISTS. That its dialect has that clause, also for CREATE
INDEX, and `COMMENT` clauses is taken for granted; the shipped configurations
name `mysql`, whose own CREATE INDEX does not have it, and then a service with
indexes would not boot at all. A connection pool that has closed is not opened
again by anyone; it may close for any reason at any time. The ledger's clock
never goes back, although the code reads a wall clock, which an administrator may
set: then a deadline may come early or late. A constant of fewer than sixteen
bytes becomes a string without memory from the heap. What the library's own pool defaults are when the database section is
absent or disabled is left open, both outcomes happen. What becomes of a lease
that outlives its pool is decided in cpputils. Every exception is a
`std::exception`.

## 4. Proofs

`AccountRiskLedgerProofs` proves, for every set of accounts, orders, threads,
intents and policies and every bound:

* `TypeCorrect` – the type invariant; the unsigned counter never underflows.
* `CountersAreTotals` – the running counters cover the true totals, and are
  those totals in an account without a negative record.
* `OrdersEndForGood`, `RejectionsAreEarned`, `RepliesAreFreshAlways`,
  `NoEarlyExpiry` – the properties of the runs.
* `LedgerKeepsQuota` – the ledger implements `AccountQuota`.

None of them assumes anything of the amounts of an intent, whose sign the code
does not check.

The argument. The type invariant alone is not enough: a grant compares the
*counter* with the limit, while the promise speaks of the *sum* over the orders.
The inductive invariant is the conjunction of the types and `Balanced` (counter at
least the total over the reserved orders, in every account, and equal to it
without negative records). Every step either leaves an account alone, vacates one
held order, occupies one fresh order, or clears the book (`StepKinds`); vacating
and occupying move counter and total by the same amount (`VacateBalance`,
`OccupyBalance`, on the lemmas about `Total` in `ReservedTotalsProofs`), except
where the clamp bites, which only raises the counter and only bites after a
negative record. So what a counter admits the sum admits, and with the invariant
each step of the ledger maps to a step of `AccountQuota`.

`HandlerPipelineProofs` proves, for every set of handlers and error codes:

* `TypeCorrect` – the type invariant.
* `ErrorLeavesNothingHolds` – a call that is answered with an error has left
  nothing or has undone it, with the exceptions named in section 3, for writing
  and for compensating handlers.
* `AnswerMatchesHooksHolds` – success is answered exactly when the hooks
  succeeded, and then the effect stands.
* `RollbackOnceHolds` – at most one Rollback completes, none before
  ExecuteBusiness.

The argument. The properties speak of the end of a call, and the end knows
nothing of the way there; the invariant (theorem `Invariant`) keeps it in four
parts. `Course`: the hooks before the present one succeeded, those after it are
uncalled, and the effect is what they made. `Leaving`: on the way out, the result
at hand agrees with the hook that failed. `Armed`: the flag is up only while
there is something to roll back that has not been rolled back, which is why an
exception inside Rollback does not undo a thing twice. `Cleared`: what an error
path has left at each of its places. One step per action, one leaf per part.

`ConfigStreamsProofs` proves, for every set of tags, every engine_id, every
`since_version` a request may carry, and every number of versions and outages:

* `TypeCorrect` – the type invariant.
* `OneOperationPerTagHolds` – a tag never has two operations under way, a
  deleted one has none, one whose call is not over has exactly one.
* `OneAcceptorHolds` – while the service serves, one tag waits for the next
  subscriber as long as the pool is open, never two, and at most one for
  GetEngineConfig.
* `OwnConfigurationHolds` – nobody is given the row of another engine.
* `VersionsIncreaseHolds` – what a subscriber receives is newer than all it had.

They assume that there are two tags to start with (`StartNeedsTwoTags`: Start
makes one of each kind) and that an engine_id is a text (`EngineIdIsText`).

The argument. Counting operations is not inductive: whether the completion of
one leads to another depends on the branch of Proceed, hence on the tag's status.
`Shapes` says which members of a tag go together, and from them `Awaits` reads
off the one operation it waits for; `Matched` says that every operation and every
event is the awaited one and that an awaited one is somewhere. A tag is freed and
taken anew, so `Opening` adds that a request fails only after the server's
shutdown: otherwise the branch that makes the next acceptor might be missed while
the service serves (`Accepting`). Versions need `Streams`: `since_version_` bounds
what was asked for and received, except while the message that is being written
is newer; and that a subscriber who is gone receives nothing is `Callers`.
`OwnConfiguration` rests on `OwnRowsOnly`, about the operators alone: the
condition on engine_id never vanishes from the WHERE, as the default replaces the
empty text. Operations and events of a tag are counted only at the end, by
`AtMostOne`.

`SupportServiceProofs` proves, for each of the three services, any documents,
and any number of edits, outages, boots and calls:

* `TypeCorrect` – the type invariant.
* `ReadyIsBackedHolds`, `ReadyIsConfiguredHolds` – what a Ready service stands
  on, whenever the pool closes.
* `CallsKeepTheirServiceHolds` – a call of a synchronous service finds its object
  and its database up to its end.
* `ExitIsCleanHolds` – a process that reports success has wound everything up.
* `SchemaRepeatsHolds` – a schema fails only because the connection is cut, never
  because of what an earlier boot made or of the order of its statements.

They assume that a pool size is a number (`SizesAreNumbers`) and that the process
is booted at all.

The argument. The properties speak of moments – Ready, a call, the exit – and
what they demand is made or taken apart by two threads elsewhere. `StatementsLeft`
keeps the statements that are pending among those of the service's schema; that
types and a suffix of the schema stay what they are under `Tail` is a matter of
the lemmas about sequences (`SuffixElements`, `SuffixTail`). That no statement is
refused rests on the statements themselves (`SchemaRepeatable`, from
`RepeatableTable` and `RepeatableConcat`): each says IF NOT EXISTS, and a table is
made before the indexes on it. `Initializing` says
what each step of Initialize has settled for the later ones: that tables and
pending statements together make up the schema is why none is missing at the end.
`Quiet`, `Serving`, `Held`, `Listening` and `TakenApart` tie the main thread's place to
the waiter's and to the fields: once the server is drained, the listener is down while
the waiter has not left Wait, gone after that, and nothing is released before the last call.

`AccountStoreProofs` proves, for every set of threads, connections, account ids,
lines, statuses and passwords:

* `TypeCorrect` – the type invariant; every row is stored under its own id.
* `PoolRestoredHolds` – a connection goes back clean, and a call has one exactly
  from Acquire to its answer.
* `NoLockCycleHolds` – a call that holds another up waits for no row.
* `CredentialIsThereHolds` – a call that has found the account finds its password.
* `AnswersAreTrueHolds` – OK means committed, NOT_FOUND and INVALID_ARGUMENT mean
  that nothing changes.
* `OnlyThatAccountHolds` – the rows of an account change only when a call that
  names it commits.
* `BookImplementedHolds` – the handlers implement `AccountBook`.

They assume `StoreConstants`: no thread is the pool, ids and passwords that were
accepted are not empty, "active" is a status and the empty text is none, and the
sign for an absent optional field is no text.

The argument. Everything follows from what a transaction has written at each
step of its call, which is a function of the step and the request
(`Transactions`, by `Wrote`): nothing before the first write, the account's row
after it, the credential's row after that. Hence a call waits for a row of the
account table only with nothing written, and for the credential only with the
account locked; with `Exclusive`, no two transactions have written one account,
so nobody holds a credential another waits for (`HeldUpAtAccount`), and there is
no cycle. `Owners` says whose each connection is. `Paired` (accounts and
credentials have the same ids) needs `Presence`: an id that an AddAccount found
free, or an UpdateAccount found taken, is so still when it commits; the first
because the inserted row is locked, the second because nothing is deleted. A
commit is then one step of `AccountBook` (`CommitIs`), every other step a stutter.
The proofs do not go through all the actions once for each part: every action is
first shown to be of one of four kinds (`Kinds`) – the thread `Waits` without a
connection, `Takes` one, `Moves` on with it, or `Leaves` and hands it back – with
what the kind keeps, and each part of the invariant is proved by kind. What a plan has at which place is proved
once (`PlanSteps`, `Place`), and what the statements do to a table too
(`SelectAccount`, `AccountUpdate`, `CredentialUpdate`).

In each module TLC checked the parts of the inductive invariant on the module's
run before they were proved.

Only model-checked:

* liveness (`StreamCatchesUp`, `SignalEndsProcess`, `CallsReturn`,
  `EveryCallAnswered`), and with it everything about fairness and ENABLED, which is
  beyond the prover. In particular the proof of `NoLockCycle` excludes circular
  waiting, not waiting as such: that a call returns is `CallsReturn`.
* What the violation runs refute is found by TLC and needs no proof.

Every invariant and every action property of a passing run is a theorem, and so
are the two refinements. No module uses a RECURSIVE operator.

## 5. What is not modelled

* Amounts are integers where the code has doubles: rounding of the running sums
  is not seen. A restart forgets the ledger, as in the code; the account risk
  tables are created and never used.
* The contents of read responses, the text of SQL and its quoting, the conversion
  of a JSON payload to protobuf (a call of protobuf's own parser; its failure is
  a flag), the command line, logging.
* Exceptions thrown between Begin and Commit of an account handler as steps of
  `AccountStore`: `HandlerPipeline` has them, with the transaction left open,
  but what the pool does with such a connection is decided in
  cpputils.
* A second Initialize of a terminated service, which no program here does.
* Delete, BatchDelete and Truncate of the DAOs, which nothing calls.

## 6. Plan

Done: the ledger with its refinement, the streams, the process with its
configuration files and schema, the accounts on their statements with their
refinement, the handler pipeline; all invariants, action properties and
refinements of the runs proved. Next, in this order:

1. Constant-level theorems about the parsers of `BootstrapConfig`: for any
   document, which checks an accepted one has passed and that a wrapped pool size
   is never opened; now cases of `ReadyIsConfiguredHolds`.
2. An abstract specification of a stream (its caller's version goes up, it ends
   once) that `ConfigStreams` implements, with the tags hidden; now it is the
   action property `VersionsIncrease`.
3. The engine's side of the ledger: a client that retries and releases over a
   network that loses, repeats and delays, composed with `AccountRiskLedger`;
   a release that overtakes its reserve, a reserve repeated after a restart.
4. `GetCredential` with what it returns: which pairs of rows an engine can see.
