--------------------------- MODULE SupportService ---------------------------
(***************************************************************************)
(* The life of a support service process: main.cpp reads the configuration *)
(* file, RunSupportServiceMain (support_service_boot.cpp) initializes and  *)
(* starts the service, spawns a thread that blocks in Wait, and at a       *)
(* signal calls Stop and joins it.  The service is of the synchronous kind *)
(* (account, account_risk) or the asynchronous one (config); Stop holds a  *)
(* mutex that Wait does not take, so the steps of Stop on the main thread  *)
(* and of Wait on the other interleave here field by field.                *)
(*                                                                         *)
(* Initialize reads the same file once more, opens the pool and makes the  *)
(* tables statement by statement.  Around it the file may be edited, the   *)
(* database may come and go, and the process may be killed and booted      *)
(* again on the tables it left.                                            *)
(*                                                                         *)
(* A gRPC call under way is a number in calls; a grpc::Server goes from    *)
(* "up" over "closing" to "down" when the last one has ended.              *)
(***************************************************************************)
EXTENDS BootstrapConfig, ServiceSchema

CONSTANTS
  Documents,   \* what the configuration file may contain
  PoolLimit,   \* the largest pool that the database library opens
  MaxCalls,    \* bound: calls under way at a time
  MaxEdits,    \* bound: edits of the file
  MaxOutages,  \* bound: times the database goes away during boot
  MaxBoots     \* bound: times the process is started

ASSUME LifeBounds ==
  /\ PoolLimit \in 1..SizeRange
  /\ MaxCalls \in Nat /\ MaxEdits \in Nat
  /\ MaxOutages \in Nat /\ MaxBoots \in Nat \ {0}
ASSUME SizesAreNumbers == \A d \in Documents : d.size \in Int

VARIABLES
  service,      \* which of the three services
  document,     \* the configuration file
  tables,       \* the tables and indexes in the database
  reachable,    \* does the database answer
  happened,     \* how often the process was booted, the file edited, the
                \* database gone
  settings,     \* the document that Initialize took its settings from
  pending,      \* the statements that Initialize has yet to execute
  leased,       \* does schema_connection hold a connection
  dao,          \* dao_mgr_: does the object exist
  state,        \* state_
  last_error,   \* last_error_
  pool,         \* connection_pool_mgr_: "none", "open", or there and "closed"
  backend,      \* grpc_service_ or handler_: does the object exist
  started,      \* started_ of the asynchronous handler: it takes calls
  grpc_server,  \* grpc_server_: does the pointer hold an object
  running,      \* GrpcSyncServer::running_, GrpcAsyncServer::running_
  listener,     \* server_: "none", "up", "closing", "down"
  queue,        \* cq_ (async): "none", "open", "shut"
  loop,         \* loop_ and its poller: "none", "polling", "exited"
  calls,        \* calls under way
  main,         \* what the main thread does next
  waiter,       \* what the thread in Wait does next
  exit_code     \* "none", "success", "failure", or "crashed"

world   == <<service, document, tables, reachable, happened>>
setup   == <<settings, pending, leased, dao>>
wrapper == <<grpc_server, running, listener, queue, loop>>
status  == <<state, last_error>>
handler == <<backend, started>>
threads == <<main, waiter, exit_code>>
vars    == <<world, setup, status, pool, handler, wrapper, calls, threads>>

Kind == IF service = "config" THEN "async" ELSE "sync"

----------------------------------------------------------------------------
NoDocument == [root |-> "unreadable"]

Init ==
  /\ service \in Services
  /\ document \in Documents
  /\ tables = {}
  /\ reachable = TRUE
  /\ happened = [boots |-> 1, edits |-> 0, outages |-> 0]
  /\ settings = NoDocument /\ pending = <<>> /\ leased = FALSE /\ dao = FALSE
  /\ state = "New" /\ last_error = "kSuccess"
  /\ pool = "none" /\ backend = FALSE /\ started = FALSE
  /\ grpc_server = FALSE /\ running = FALSE
  /\ listener = "none" /\ queue = "none" /\ loop = "none" /\ calls = 0
  /\ main = "load" /\ waiter = "off" /\ exit_code = "none"

(* The asynchronous server has a completion queue and a thread that polls  *)
(* it.                                                                     *)
HasQueueAlways == TRUE                                       \* mutant
HasQueue == Kind = "async"

(* The main thread moves on; the process may be over. *)
Go(from, to) ==
  /\ exit_code = "none"
  /\ main = from
  /\ main' = to
  /\ UNCHANGED <<waiter, world>>

Leave(from, code) ==
  /\ Go(from, "exited")
  /\ exit_code' = code

----------------------------------------------------------------------------
(* What happens around the process                                         *)

Starting ==
  {"load", "environment", "initialize", "open", "connect", "schema"}

Happens(what) == happened' = [happened EXCEPT ![what] = @ + 1]

(* The file matters until Initialize has read it, what is in the database  *)
(* until the schema is made; PoolCloses may come at any time.              *)
FileEdited ==
  /\ main \in {"load", "environment", "initialize"}
  /\ happened.edits < MaxEdits
  /\ \E other \in Documents \ {document} : document' = other
  /\ Happens("edits")
  /\ UNCHANGED <<service, tables, reachable, setup, status, pool, handler,
                 wrapper, calls, threads>>

DatabaseGoes ==
  /\ main \in Starting /\ reachable
  /\ happened.outages < MaxOutages
  /\ reachable' = FALSE
  /\ Happens("outages")
  /\ UNCHANGED <<service, document, tables, setup, status, pool, handler,
                 wrapper, calls, threads>>

DatabaseReturns ==
  /\ main \in Starting /\ ~reachable
  /\ reachable' = TRUE
  /\ UNCHANGED <<service, document, tables, happened, setup, status, pool,
                 handler, wrapper, calls, threads>>

(* The pool closes under the process and stays closed. *)
PoolCloses ==
  /\ exit_code = "none" /\ pool = "open"
  /\ pool' = "closed"
  /\ UNCHANGED <<world, setup, status, handler, wrapper, calls, threads>>

Killed ==
  /\ exit_code = "none"
  /\ main' = "exited" /\ exit_code' = "crashed"
  /\ UNCHANGED <<world, setup, status, pool, handler, wrapper, calls, waiter>>

(* A new process: only the file and the database are left. *)
Reboot ==
  /\ main = "exited"
  /\ happened.boots < MaxBoots
  /\ Happens("boots")
  /\ settings' = NoDocument /\ pending' = <<>> /\ leased' = FALSE /\ dao' = FALSE
  /\ state' = "New" /\ last_error' = "kSuccess"
  /\ pool' = "none" /\ backend' = FALSE /\ started' = FALSE
  /\ grpc_server' = FALSE /\ running' = FALSE
  /\ listener' = "none" /\ queue' = "none" /\ loop' = "none" /\ calls' = 0
  /\ main' = "load" /\ waiter' = "off" /\ exit_code' = "none"
  /\ UNCHANGED <<service, document, tables, reachable>>

----------------------------------------------------------------------------
(* main and InitializeService                                              *)

Outcome == Parse(service, document)

(* A parser that throws ends the process: nothing catches. *)
ExitFor(outcome) == IF outcome = "throws" THEN "crashed" ELSE "failure"

Load ==
  /\ Go("load", "environment")
  /\ Outcome = "ok"
  /\ UNCHANGED <<exit_code, setup, status, pool, handler, wrapper, calls>>

LoadFails ==
  /\ Leave("load", ExitFor(Outcome))
  /\ Outcome # "ok"
  /\ UNCHANGED <<setup, status, pool, handler, wrapper, calls>>

InitProgramEnvironment ==
  /\ Go("environment", "initialize")
  /\ UNCHANGED <<exit_code, setup, status, pool, handler, wrapper, calls>>

EnvironmentFails ==
  /\ Leave("environment", "failure")
  /\ UNCHANGED <<setup, status, pool, handler, wrapper, calls>>

TakeSettings ==
  /\ Go("initialize", "open")
  /\ state' = "Initializing"
  /\ settings' = document
  /\ UNCHANGED <<exit_code, last_error, pending, leased, dao, pool, handler,
                 wrapper, calls>>

(* Mutant: Initialize relies on what main has checked. *)
ReadSettingsUnchecked == document.root = "object" /\ TakeSettings

ReadSettings == Outcome = "ok" /\ TakeSettings

ParseError ==
  IF document.root # "unreadable" /\ service = "account_risk"
  THEN "kInternalError" ELSE "kNotFound"

ReadSettingsFails ==
  /\ Leave("initialize", "failure")
  /\ Outcome = "none"
  /\ state' = "Failed"
  /\ last_error' = ParseError
  /\ UNCHANGED <<setup, pool, handler, wrapper, calls>>

ReadSettingsThrows ==
  /\ Leave("initialize", "crashed")
  /\ Outcome = "throws"
  /\ state' = "Initializing"
  /\ UNCHANGED <<last_error, setup, pool, handler, wrapper, calls>>

(* The library opens a pool of at most PoolLimit connections to a database *)
(* that answers; what it does with its own default options is left open.   *)
Openable == reachable /\ PoolSize(settings) <= PoolLimit

OpenPool ==
  /\ Go("open", "connect")
  /\ DatabaseEnabled(settings) => Openable
  /\ pool' = "open"
  /\ dao' = TRUE
  /\ UNCHANGED <<exit_code, status, settings, pending, leased, handler,
                 wrapper, calls>>

(* The early returns of Initialize after the settings are read. *)
InitializeFails ==
  /\ pool' = "none"
  /\ dao' = FALSE
  /\ state' = "Failed"
  /\ last_error' = "kInternalError"
  /\ UNCHANGED <<settings, leased, handler, wrapper, calls>>

(* The library refuses, or the pool has closed again when IsReady looks. *)
OpenPoolFails ==
  /\ Leave("open", "failure")
  /\ InitializeFails
  /\ UNCHANGED pending

(* A pool without connections, or without a database, lends none, and a    *)
(* closed one never.                                                       *)
Lends ==
  /\ pool = "open"
  /\ DatabaseEnabled(settings) => reachable /\ PoolSize(settings) > 0

Connect ==
  /\ Go("connect", "schema")
  /\ Lends
  /\ leased' = TRUE
  /\ pending' = Schema(service)
  /\ UNCHANGED <<exit_code, status, settings, dao, pool, handler, wrapper, calls>>

ConnectFails ==
  /\ Leave("connect", "failure")
  /\ ~Lends
  /\ InitializeFails
  /\ UNCHANGED pending

(* The database executes a statement when the tables it is about exist and *)
(* what it makes does not, unless the statement allows for that.           *)
Accepts(statement) ==
  /\ reachable
  /\ statement.needs \subseteq tables
  /\ statement.makes \in tables => statement.if_not_exists

CreateNext ==
  /\ exit_code = "none" /\ main = "schema" /\ pending # <<>>
  /\ Accepts(Head(pending))
  /\ tables' = tables \cup {Head(pending).makes}
  /\ pending' = Tail(pending)
  /\ UNCHANGED <<service, document, reachable, happened, settings, leased, dao,
                 status, pool, handler, wrapper, calls, threads>>

(* The connection may be cut before or after the database has executed the *)
(* statement.                                                              *)
Cut == ~reachable \/ pool = "closed"

(* Mutant: a statement that fails is skipped. *)
CreateSkips ==
  /\ exit_code = "none" /\ main = "schema" /\ pending # <<>>
  /\ Cut \/ ~Accepts(Head(pending))
  /\ pending' = Tail(pending)
  /\ UNCHANGED <<world, settings, leased, dao, status, pool, handler, wrapper,
                 calls, threads>>

(* The pool goes before the connection that is leased from it. *)
CreateFails ==
  /\ exit_code = "none" /\ main = "schema" /\ pending # <<>>
  /\ \/ tables' = tables /\ (Cut \/ ~Accepts(Head(pending)))
     \/ /\ Cut /\ Head(pending).needs \subseteq tables
        /\ tables' = tables \cup {Head(pending).makes}
  /\ main' = "unwind"
  /\ InitializeFails
  /\ pending' = <<>>
  /\ UNCHANGED <<service, document, reachable, happened, waiter, exit_code>>

Unwind ==
  /\ Leave("unwind", "failure")
  /\ leased' = FALSE
  /\ UNCHANGED <<settings, pending, dao, status, pool, handler, wrapper, calls>>

InitializeOk ==
  /\ Go("schema", "start")
  /\ pending = <<>>
  /\ leased' = FALSE
  /\ last_error' = "kSuccess"
  /\ UNCHANGED <<exit_code, state, settings, pending, dao, pool, handler,
                 wrapper, calls>>

----------------------------------------------------------------------------
(* StartService                                                            *)

(* A failed precondition returns an error and records nothing. *)
StartNotReady ==
  /\ Go("start", "giveup")
  /\ pool # "open"
  /\ UNCHANGED <<exit_code, setup, status, pool, handler, wrapper, calls>>

StartOk ==
  /\ Go("start", "listen")
  /\ pool = "open"
  /\ UNCHANGED <<exit_code, setup, status, pool, handler, wrapper, calls>>

(* CreateGrpcService wants the DAOs; a port that cannot be bound fails     *)
(* either kind.                                                            *)
StartFails ==
  /\ Go("listen", "giveup")
  /\ state' = "Failed"
  /\ last_error' = IF Kind = "sync" /\ ~dao THEN "kSystemError"
                                            ELSE "kInternalError"
  /\ UNCHANGED <<exit_code, setup, pool, handler, wrapper, calls>>

(* The server is built and listens. *)
Listen ==
  /\ Go("listen", "ready")
  /\ Kind = "sync" => dao
  /\ backend' = TRUE
  /\ grpc_server' = TRUE
  /\ running' = TRUE
  /\ listener' = "up"
  /\ queue' = IF HasQueue THEN "open" ELSE "none"
  /\ loop' = IF HasQueue THEN "polling" ELSE "none"
  /\ UNCHANGED <<exit_code, setup, status, pool, started, calls>>

(* Mutant: handler_->Start() before InitHandler() has nothing to work on. *)
HandlerStartsUnbound == FALSE

(* handler_->Start() looks at the pool once more and may return without a  *)
(* word.                                                                   *)
HandlerStarts == Kind = "async" /\ pool = "open"

(* The main thread says Ready and spawns the waiter. *)
SetReady ==
  /\ exit_code = "none"
  /\ main = "ready" /\ main' = "run"
  /\ waiter' = "enter"
  /\ started' = HandlerStarts
  /\ state' = "Ready"
  /\ last_error' = "kSuccess"
  /\ UNCHANGED <<world, setup, pool, backend, wrapper, calls, exit_code>>

(* Stop after a failed Start, then the process ends. *)
GiveUp ==
  /\ Leave("giveup", "failure")
  /\ IF state = "Initializing"
     THEN pool' = "none" /\ state' = "Terminated"
     ELSE UNCHANGED <<pool, state>>
  /\ UNCHANGED <<last_error, setup, handler, wrapper, calls>>

----------------------------------------------------------------------------
(* Calls                                                                   *)

(* An asynchronous handler takes none before it has started. *)
CallBegins ==
  /\ exit_code = "none" /\ listener = "up" /\ backend
  /\ Kind = "async" => started
  /\ calls < MaxCalls
  /\ calls' = calls + 1
  /\ UNCHANGED <<world, setup, status, pool, handler, wrapper, threads>>

CallEnds ==
  /\ exit_code = "none" /\ calls > 0
  /\ calls' = calls - 1
  /\ UNCHANGED <<world, setup, status, pool, handler, wrapper, threads>>

----------------------------------------------------------------------------
(* RunUntilShutdown on the main thread: the signal, Stop, join             *)

Signal ==
  /\ Go("run", "stop")
  /\ UNCHANGED <<exit_code, setup, status, pool, handler, wrapper, calls>>

(* Mutants: the service object goes first; the server is not shut down. *)
StopDropsService ==
  /\ Go("stop", "shutdown")
  /\ state' = "Stopping"
  /\ backend' = FALSE
  /\ started' = FALSE
  /\ UNCHANGED <<exit_code, setup, last_error, pool, wrapper, calls>>
StopForgetsServer ==
  /\ Go("stop", "clear")
  /\ state' = "Stopping"
  /\ backend' = (Kind = "sync")
  /\ started' = FALSE
  /\ UNCHANGED <<exit_code, setup, last_error, pool, wrapper, calls>>

(* Stop: the asynchronous kind destroys its handler before the server. *)
StopBegins ==
  /\ Go("stop", "shutdown")
  /\ state' = "Stopping"
  /\ backend' = (Kind = "sync")
  /\ started' = FALSE
  /\ UNCHANGED <<exit_code, setup, last_error, pool, wrapper, calls>>

(* grpc::Server::Shutdown refuses new calls and returns after the last. *)
ListenerCloses ==
  /\ Go("shutdown", "drain")
  /\ listener' = "closing"
  /\ UNCHANGED <<exit_code, setup, status, pool, handler, grpc_server,
                 running, queue, loop, calls>>

ListenerDown ==
  /\ Go("drain", IF HasQueue THEN "closeQueue" ELSE "clear")
  /\ calls = 0
  /\ listener' = "down"
  /\ UNCHANGED <<exit_code, setup, status, pool, handler, grpc_server,
                 running, queue, loop, calls>>

(* if (cq_) cq_->Shutdown(): by now the waiter may have reset cq_. *)
CloseQueue ==
  /\ Go("closeQueue", "joinLoop")
  /\ queue' = IF queue = "open" THEN "shut" ELSE queue
  /\ UNCHANGED <<exit_code, setup, status, pool, handler, grpc_server,
                 running, listener, loop, calls>>

JoinLoop ==
  /\ Go("joinLoop", "clear")
  /\ loop # "polling"
  /\ loop' = "none"
  /\ UNCHANGED <<exit_code, setup, status, pool, handler, grpc_server,
                 running, listener, queue, calls>>

ClearRunning ==
  /\ Go("clear", "release")
  /\ running' = FALSE
  /\ UNCHANGED <<exit_code, setup, status, pool, handler, grpc_server,
                 listener, queue, loop, calls>>

Release ==
  /\ Go("release", "join")
  /\ backend' = FALSE
  /\ pool' = "none"
  /\ state' = "Terminated"
  /\ UNCHANGED <<started, exit_code, setup, last_error, wrapper, calls>>

(* Mutant: main returns without joining the waiter. *)
ExitWithoutJoin ==
  /\ Leave("join", "success")
  /\ UNCHANGED <<setup, status, pool, handler, wrapper, calls>>

JoinWaiter ==
  /\ Leave("join", "success")
  /\ waiter = "done"
  /\ UNCHANGED <<setup, status, pool, handler, wrapper, calls>>

(* Main is still inside Shutdown of an object the waiter has deleted: it   *)
(* reads and writes freed memory.  It may go on, or the process may die.   *)
UseAfterFree ==
  /\ Leave(main, "crashed")
  /\ main \in {"closeQueue", "joinLoop", "clear"} /\ ~grpc_server
  /\ UNCHANGED <<setup, status, pool, handler, wrapper, calls>>

----------------------------------------------------------------------------
(* Wait on the other thread                                                *)

WaiterGoes(from, to) ==
  /\ exit_code = "none"
  /\ waiter = from
  /\ waiter' = to
  /\ UNCHANGED <<world, setup, status, pool, handler, calls, main, exit_code>>

(* server_->Wait() returns when the server is down; then server_.reset(). *)
WaitReturns ==
  /\ listener = "down"
  /\ WaiterGoes("enter", IF HasQueue THEN "resetQueue" ELSE "resetServer")
  /\ listener' = "none"
  /\ UNCHANGED <<grpc_server, running, queue, loop>>

ResetQueue ==
  /\ WaiterGoes("resetQueue", "resetServer")
  /\ queue' = "none"
  /\ UNCHANGED <<grpc_server, running, listener, loop>>

ResetServer ==
  /\ WaiterGoes("resetServer", "delete")
  /\ grpc_server' = FALSE
  /\ UNCHANGED <<running, listener, queue, loop>>

(* The destructor shuts down again: if running_ is still set it joins the  *)
(* poller as well.                                                         *)
DeleteServer ==
  /\ running => loop # "polling"
  /\ WaiterGoes("delete", "done")
  /\ running' = FALSE
  /\ loop' = IF running THEN "none" ELSE loop
  /\ UNCHANGED <<grpc_server, listener, queue>>

(* The poller's Next returns false once its queue is shut down (destroying *)
(* it does that too) and drained.                                          *)
PollerExits ==
  /\ exit_code = "none"
  /\ loop = "polling" /\ queue # "open"
  /\ loop' = "exited"
  /\ UNCHANGED <<world, setup, status, pool, handler, grpc_server, running,
                 listener, queue, calls, threads>>

----------------------------------------------------------------------------
World ==
  \/ FileEdited \/ DatabaseGoes \/ DatabaseReturns \/ PoolCloses
  \/ Killed \/ Reboot

Boot ==
  \/ Load \/ LoadFails \/ InitProgramEnvironment \/ EnvironmentFails
  \/ ReadSettings \/ ReadSettingsFails \/ ReadSettingsThrows
  \/ OpenPool \/ OpenPoolFails \/ Connect \/ ConnectFails
  \/ CreateNext \/ CreateFails \/ Unwind \/ InitializeOk
  \/ StartNotReady \/ StartOk \/ StartFails \/ Listen \/ SetReady \/ GiveUp

Stop ==
  \/ StopBegins \/ ListenerCloses \/ ListenerDown \/ CloseQueue \/ JoinLoop
  \/ ClearRunning \/ Release \/ JoinWaiter \/ UseAfterFree

Wait == WaitReturns \/ ResetQueue \/ ResetServer \/ DeleteServer

Next ==
  \/ World \/ Boot
  \/ CallBegins \/ CallEnds
  \/ Signal \/ Stop \/ Wait \/ PollerExits

Spec == Init /\ [][Next]_vars

(* Both threads and the poller are scheduled; unary handlers return, also  *)
(* when the listener is closing and new calls are refused.                 *)
FairSpec ==
  /\ Spec
  /\ WF_vars(Stop) /\ WF_vars(Wait) /\ WF_vars(PollerExits)
  /\ Kind = "sync" => WF_vars(CallEnds)

----------------------------------------------------------------------------
(* Properties                                                              *)

(* Every variable has its type; only the asynchronous kind has a queue. *)
TypeOK ==
  /\ service \in Services /\ document \in Documents
  /\ tables \subseteq Names(Schema(service)) /\ reachable \in BOOLEAN
  /\ happened \in [boots : 1..MaxBoots, edits : 0..MaxEdits,
                   outages : 0..MaxOutages]
  /\ settings \in Documents \cup {NoDocument}
  /\ IsSuffix(pending, Schema(service))
  /\ leased \in BOOLEAN /\ dao \in BOOLEAN
  /\ state \in {"New", "Initializing", "Ready", "Stopping", "Terminated", "Failed"}
  /\ last_error \in {"kSuccess", "kNotFound", "kInternalError", "kSystemError"}
  /\ pool \in {"none", "open", "closed"}
  /\ backend \in BOOLEAN /\ started \in BOOLEAN
  /\ grpc_server \in BOOLEAN /\ running \in BOOLEAN
  /\ listener \in {"none", "up", "closing", "down"}
  /\ queue \in {"none", "open", "shut"}
  /\ loop \in {"none", "polling", "exited"}
  /\ Kind = "sync" => queue = "none" /\ loop = "none"
  /\ calls \in 0..MaxCalls
  /\ main \in Starting \cup {"unwind", "start", "listen", "ready",
               "giveup", "run", "stop", "shutdown",
               "drain", "closeQueue", "joinLoop", "clear", "release", "join",
               "exited"}
  /\ waiter \in {"off", "enter", "resetQueue", "resetServer", "delete", "done"}
  /\ exit_code \in {"none", "success", "failure", "crashed"}

(* A service that says Ready is one: its server runs and listens, the      *)
(* object that serves the calls is there, and so are its pool and every    *)
(* table and index of its schema, whatever failed, went away or was left   *)
(* half done by an earlier boot.  The asynchronous handler has started as  *)
(* well, unless the pool has closed since Start first looked at it.        *)
ReadyIsBacked ==
  state = "Ready" =>
    /\ grpc_server /\ running /\ listener = "up"
    /\ pool # "none" /\ backend /\ dao /\ ~leased
    /\ Names(Schema(service)) \subseteq tables
    /\ Kind = "async" => /\ queue = "open" /\ loop = "polling"
                         /\ pool = "open" => started

(* The file is read twice and may be edited in between: what a Ready       *)
(* service runs on has an endpoint, log names, usable intervals and, where *)
(* the database is enabled, a pool that has connections.                   *)
ReadyIsConfigured ==
  state = "Ready" =>
    /\ {"config", "grpc"} \subseteq settings.sections /\ settings.endpoint
    /\ settings.empty = {}
    /\ service = "account_risk" =>
         settings.default_ttl_ms > 0 /\ settings.expire_scan_interval_ms > 0
    /\ DatabaseEnabled(settings) => PoolSize(settings) \in 1..PoolLimit

(* EnsureTableSchema can be repeated: a boot that finds the tables and     *)
(* indexes of earlier ones, all or some of them, is not refused by the     *)
(* database, neither because of them nor for a table that an index needs;  *)
(* only a cut connection fails it.                                         *)
SchemaRepeats == [][main = "schema" /\ main' = "unwind" => Cut]_vars

(* No call of a synchronous service runs on after Stop has released the    *)
(* service object or the pool, whichever thread is ahead.                  *)
CallsKeepTheirService ==
  Kind = "sync" /\ calls > 0 => backend /\ pool # "none"

(* A process that reports success has wound everything up: both threads    *)
(* are through, nothing listens, no call is left and nothing is held.      *)
ExitIsClean ==
  exit_code = "success" =>
    /\ state = "Terminated" /\ pool = "none" /\ ~backend
    /\ ~grpc_server /\ ~running /\ listener = "none" /\ queue = "none"
    /\ calls = 0 /\ waiter = "done" /\ loop # "polling"

(* After the signal a synchronous service ends: Stop and Wait do not wait  *)
(* for each other for ever.                                                *)
SignalEndsProcess ==
  (Kind = "sync" /\ main = "stop") ~> exit_code # "none"

(* completion_queue_loop.hpp: the queue's lifetime must cover the loop.    *)
(* Wait resets the queue as soon as the server is down, while Stop has yet *)
(* to shut the queue down and the poller still sits in it.                 *)
QueueOutlivesLoop == loop = "polling" => queue # "none"
=============================================================================
