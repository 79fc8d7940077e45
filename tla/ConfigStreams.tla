--------------------------- MODULE ConfigStreams ---------------------------
(***************************************************************************)
(* The asynchronous RPCs of config_service: call tags, the completion      *)
(* queue and its one poller thread, and the order in which a stop takes    *)
(* them apart (config_grpc_async_handler.cpp, unary_call_tag.hpp,          *)
(* completion_queue_loop.cpp, grpc_async_server.cpp,                       *)
(* support_async_service_impl.hpp).                                        *)
(*                                                                         *)
(* A tag hands an operation to gRPC (ops); gRPC completes it into an event *)
(* with an ok flag (cq); the poller takes events one at a time and calls   *)
(* the tag's Proceed, which is one action here.  Operations complete in    *)
(* any order, alarms fire at any time.  All requests name one engine, whose *)
(* row in engine_config is a number: 0 without a row, v when its version   *)
(* is v; the table also has a row of another engine.  A read that fails    *)
(* and a payload that does not parse are the same to a caller: readable is *)
(* FALSE.                                                                  *)
(***************************************************************************)
EXTENDS Integers, TableDml

CONSTANTS
  Tags,         \* call tag objects that can exist at a time
  EngineId,     \* engine_id in requests; "" when it is left out
  Asked,        \* values of since_version in requests
  MaxVersion,   \* bound: the last version an administrator writes
  MaxOutages,   \* bound: how often the table becomes unreadable
  MayClose,     \* bound: whether the connection pool ever closes
  MayStop       \* bound: whether Stop is ever called

ASSUME ConfigBounds ==
  /\ MaxVersion \in Nat /\ MaxOutages \in Nat /\ Asked \subseteq Nat
  /\ MayClose \in BOOLEAN /\ MayStop \in BOOLEAN
ASSUME StartNeedsTwoTags == \E g, s \in Tags : g # s
ASSUME EngineIdIsText == EngineId # NoValue

VARIABLES
  service,   \* "new", "starting", "serving" (kReady), then the steps of Stop,
             \* or "crashed"
  tag,       \* Tags -> the call tag's members
  ops,       \* operations handed to gRPC and not complete
  cq,        \* completed operations the poller has not taken
  client,    \* Tags -> the caller at the other end of the tag's call
  row,       \* version of the engine's row in engine_config
  pool_open, \* DatabaseReady: the connection pool is open
  readable,  \* a query succeeds and its payload parses
  outages    \* how often readable was lost

server == <<service, tag, ops, cq>>
store  == <<row, pool_open, readable, outages>>
vars   == <<server, client, store>>

----------------------------------------------------------------------------
(* Values                                                                  *)

ForeignConfig == -2   \* the row of another engine: version 1
EmptyConfig   == -1   \* what a failed query returns: version 0
NoRowConfig   == 0    \* what a missing row returns: version 1

Version(c) ==
  CASE c = EmptyConfig -> 0
    [] c \in {NoRowConfig, ForeignConfig} -> 1
    [] OTHER -> c

NormalizeScopeFieldVerbatim(value) == value                  \* mutant
NormalizeScopeField(value) == IF value = "" THEN "default" ELSE value

MakeConfigScope ==
  [tenant_id |-> "default", engine_id |-> NormalizeScopeField(EngineId)]

(* The engine that a caller with this engine_id means. *)
OwnEngine == IF EngineId = "" THEN "default" ELSE EngineId

EngineConfigTable ==
  [engine \in {"another"} \cup (IF row = 0 THEN {} ELSE {OwnEngine}) |->
     [tenant_id |-> "default", engine_id |-> engine,
      version |-> IF engine = OwnEngine THEN row ELSE 1]]

Where ==
  KeyValues([tenant_id |-> MakeConfigScope.tenant_id,
             engine_id |-> MakeConfigScope.engine_id,
             version |-> NoValue, payload |-> NoValue])

(* QueryEngineConfig: the first of the rows that the SELECT returns.  A pool *)
(* that is closed lends no connection to ask with.                         *)
QueryConfig ==
  LET found == SelectRows(EngineConfigTable, Where)
  IN  IF ~pool_open \/ ~readable THEN EmptyConfig
      ELSE IF found = {} THEN NoRowConfig
      ELSE IF (CHOOSE engine \in found : TRUE) = OwnEngine THEN row
      ELSE ForeignConfig

Free ==
  [kind |-> "free", status |-> "create", accepted |-> FALSE,
   writing |-> FALSE, finished |-> FALSE, since |-> 0, outgoing |-> EmptyConfig]

(* A tag's constructor runs Proceed once, which hands over its request. *)
GetTag       == [Free EXCEPT !.kind = "get", !.status = "process"]
SubscribeTag == [Free EXCEPT !.kind = "subscribe", !.status = "accept"]

NoClient == [state |-> "none", asked |-> 0, got |-> EmptyConfig]

Op(t, name)        == [tag |-> t, op |-> name]
Event(t, name, ok) == [tag |-> t, op |-> name, ok |-> ok]

FreeTags == {t \in Tags : tag[t].kind = "free"}
FreeTag  == CHOOSE t \in FreeTags : TRUE

HandlerDestroyed == service \in {"stopping", "draining", "closing", "stopped"}
Polling          ==
  service \in {"starting", "serving", "stopping", "draining", "closing"}

----------------------------------------------------------------------------
Init ==
  /\ service = "new"
  /\ tag = [t \in Tags |-> Free]
  /\ ops = {}
  /\ cq = {}
  /\ client = [t \in Tags |-> NoClient]
  /\ row = 0
  /\ pool_open = TRUE
  /\ readable = TRUE
  /\ outages = 0

(* ConfigGrpcAsyncHandler::Start: one tag of either kind waits for a call. *)
(* The queue has its poller already.  Start returns at once when the       *)
(* database is not ready, and looks again before each tag; the service is  *)
(* set to kReady in either case.                                           *)
StartGet ==
  /\ service = "new" /\ pool_open
  /\ service' = "starting"
  /\ tag' = [tag EXCEPT ![FreeTag] = GetTag]
  /\ ops' = {Op(FreeTag, "request")}
  /\ UNCHANGED <<cq, client, store>>

StartSubscribe ==
  /\ service = "starting" /\ pool_open
  /\ service' = "serving"
  /\ tag' = [tag EXCEPT ![FreeTag] = SubscribeTag]
  /\ ops' = ops \cup {Op(FreeTag, "request")}
  /\ UNCHANGED <<cq, client, store>>

StartUnready ==
  /\ service \in {"new", "starting"} /\ ~pool_open
  /\ service' = "serving"
  /\ UNCHANGED <<tag, ops, cq, client, store>>

Start == StartGet \/ StartSubscribe \/ StartUnready

----------------------------------------------------------------------------
(* gRPC and the callers                                                    *)

(* gRPC completes the operation with this ok flag. *)
Complete(t, name, ok) ==
  /\ service # "crashed"
  /\ Op(t, name) \in ops
  /\ ops' = ops \ {Op(t, name)}
  /\ cq' = cq \cup {Event(t, name, ok)}
  /\ UNCHANGED <<service, tag>>

(* A call arrives; the bound on tags must leave one for the next acceptor. *)
Arrive(t, asked) ==
  /\ service \in {"starting", "serving", "stopping"}
  /\ tag[t].kind = "subscribe" /\ pool_open => FreeTags # {}
  /\ tag[t].kind = "get" => asked = 0
  /\ Complete(t, "request", TRUE)
  /\ client' = [client EXCEPT ![t] =
                  [state |-> "connected", asked |-> asked, got |-> EmptyConfig]]
  /\ UNCHANGED store

(* The server has been shut down: no request is matched any more. *)
RequestFails(t) ==
  /\ service \in {"draining", "closing"}
  /\ Complete(t, "request", FALSE)
  /\ UNCHANGED <<client, store>>

AlarmFires(t) ==
  /\ Complete(t, "alarm", TRUE)
  /\ UNCHANGED <<client, store>>

(* A caller that is there receives the message; a write to one that is     *)
(* gone may still be accepted by the transport.                            *)
WriteCompletes(t, ok) ==
  /\ client[t].state = "connected" => ok
  /\ Complete(t, "write", ok)
  /\ client' = [client EXCEPT ![t].got =
                  IF client[t].state = "connected" THEN tag[t].outgoing ELSE @]
  /\ UNCHANGED store

FinishCompletes(t, ok) ==
  /\ client[t].state = "connected" => ok
  /\ Complete(t, "finish", ok)
  /\ client' = [client EXCEPT
                  ![t].state = "closed",
                  ![t].got = IF client[t].state = "connected"
                             THEN tag[t].outgoing ELSE @]
  /\ UNCHANGED store

Disconnect(t) ==
  /\ client[t].state = "connected"
  /\ client' = [client EXCEPT ![t].state = "gone"]
  /\ UNCHANGED <<server, store>>

----------------------------------------------------------------------------
(* The administrator and the database                                      *)

WriteRow ==
  /\ row < MaxVersion
  /\ row' = row + 1
  /\ UNCHANGED <<server, client, pool_open, readable, outages>>

Outage ==
  /\ readable
  /\ outages < MaxOutages
  /\ readable' = FALSE
  /\ outages' = outages + 1
  /\ UNCHANGED <<server, client, row, pool_open>>

Recover ==
  /\ ~readable
  /\ readable' = TRUE
  /\ UNCHANGED <<server, client, row, pool_open, outages>>

(* The pool closes under the service.  Only Initialize opens one.          *)
PoolCloses ==
  /\ MayClose
  /\ pool_open
  /\ pool_open' = FALSE
  /\ UNCHANGED <<server, client, row, readable, outages>>

----------------------------------------------------------------------------
(* The poller thread                                                       *)

(* It takes the event of tag t, whose Proceed(ok) hands these over to gRPC. *)
Take(t, ok, next) ==
  /\ Polling
  /\ \E e \in cq : e.tag = t /\ e.ok = ok /\ cq' = cq \ {e}
  /\ ops' = ops \cup {Op(t, name) : name \in next}

(* UnaryCallTag::Proceed *)

GetDropped(t) ==
  /\ tag[t].kind = "get"
  /\ Take(t, FALSE, {})
  /\ tag' = [tag EXCEPT ![t] = Free]
  /\ client' = [client EXCEPT ![t] = NoClient]
  /\ UNCHANGED <<service, store>>

GetProcess(t) ==
  /\ tag[t].kind = "get" /\ tag[t].status = "process"
  /\ Take(t, TRUE, {"finish"})
  /\ tag' = [tag EXCEPT ![t].status = "finish", ![t].outgoing = QueryConfig]
  /\ UNCHANGED <<service, client, store>>

(* The next tag takes the place of the finished one.  A request on a queue *)
(* that is shut down aborts the process.                                   *)
GetRespawn(t) ==
  /\ tag[t].kind = "get" /\ tag[t].status = "finish"
  /\ pool_open
  /\ Take(t, TRUE, {"request"})
  /\ service' = IF service = "closing" THEN "crashed" ELSE service
  /\ tag' = [tag EXCEPT ![t] = GetTag]
  /\ client' = [client EXCEPT ![t] = NoClient]
  /\ UNCHANGED store

(* SpawnGetEngineConfig returns when the database is not ready: no tag of   *)
(* its kind is left.                                                       *)
GetUnready(t) ==
  /\ tag[t].kind = "get" /\ tag[t].status = "finish"
  /\ ~pool_open
  /\ Take(t, TRUE, {})
  /\ tag' = [tag EXCEPT ![t] = Free]
  /\ client' = [client EXCEPT ![t] = NoClient]
  /\ UNCHANGED <<service, store>>

(* SubscribeConfigCallTag::Proceed *)

(* Mutants: an unchanged version is sent again; a failed read ends the     *)
(* polling; the next poll is scheduled beside a write.                     *)
NewerAgain(s) == Version(QueryConfig) >= s.since
AfterPollGivesUp(s) ==
  IF Version(QueryConfig) > s.since THEN {"write"}
  ELSE IF readable THEN {"alarm"} ELSE {}

(* The stored version is newer than what the stream has. *)
Newer(s) == Version(QueryConfig) > s.since

AfterPollAlways(s) == IF Newer(s) THEN {"write", "alarm"} ELSE {"alarm"}

(* PollAndMaybeWrite, then SchedulePoll unless a write is under way. *)
Polled(s) ==
  IF Newer(s)
  THEN [s EXCEPT !.status = "write", !.writing = TRUE, !.outgoing = QueryConfig]
  ELSE s
AfterPoll(s) == IF Newer(s) THEN {"write"} ELSE {"alarm"}

(* SpawnSubscribeEngineConfig returns when the database is not ready: the  *)
(* call is served and no acceptor is left for the next one.                *)
AcceptUnready(t) ==
  LET s == [tag[t] EXCEPT !.accepted = TRUE, !.since = client[t].asked] IN
  /\ tag[t].kind = "subscribe" /\ tag[t].status = "accept" /\ ~tag[t].accepted
  /\ ~pool_open
  /\ Take(t, TRUE, AfterPoll(s))
  /\ tag' = [tag EXCEPT ![t] = Polled(s)]
  /\ UNCHANGED <<service, client, store>>

(* Mutant: the acceptor's successor is never put up. *)
AcceptWithoutSpawn(t) ==
  LET s == [tag[t] EXCEPT !.accepted = TRUE, !.since = client[t].asked] IN
  /\ tag[t].kind = "subscribe" /\ tag[t].status = "accept" /\ ~tag[t].accepted
  /\ pool_open
  /\ Take(t, TRUE, AfterPoll(s))
  /\ tag' = [tag EXCEPT ![t] = Polled(s)]
  /\ UNCHANGED <<service, client, store>>

(* The call of a subscriber: put up the next acceptor, poll at once. *)
Accept(t) ==
  LET s == [tag[t] EXCEPT !.accepted = TRUE, !.since = client[t].asked] IN
  /\ tag[t].kind = "subscribe" /\ tag[t].status = "accept" /\ ~tag[t].accepted
  /\ pool_open /\ FreeTags # {}
  /\ Polling
  /\ \E e \in cq : e.tag = t /\ e.ok /\ cq' = cq \ {e}
  /\ tag' = [tag EXCEPT ![t] = Polled(s), ![FreeTag] = SubscribeTag]
  /\ ops' = ops \cup {Op(FreeTag, "request")}
                \cup {Op(t, name) : name \in AfterPoll(s)}
  /\ UNCHANGED <<service, client, store>>

Poll(t) ==
  /\ tag[t].kind = "subscribe" /\ tag[t].status = "accept" /\ tag[t].accepted
  /\ Take(t, TRUE, AfterPoll(tag[t]))
  /\ tag' = [tag EXCEPT ![t] = Polled(tag[t])]
  /\ UNCHANGED <<service, client, store>>

(* Mutant: the status is left at kWrite. *)
WrittenKeepsStatus(t) ==
  /\ tag[t].kind = "subscribe" /\ tag[t].status = "write"
  /\ Take(t, TRUE, {"alarm"})
  /\ tag' = [tag EXCEPT ![t].since = Version(tag[t].outgoing),
                        ![t].writing = FALSE]
  /\ UNCHANGED <<service, client, store>>

Written(t) ==
  /\ tag[t].kind = "subscribe" /\ tag[t].status = "write"
  /\ Take(t, TRUE, {"alarm"})
  /\ tag' = [tag EXCEPT ![t].since = Version(tag[t].outgoing),
                        ![t].writing = FALSE,
                        ![t].status = "accept"]
  /\ UNCHANGED <<service, client, store>>

(* An event that failed on a call under way: Finish.  It also cancels the  *)
(* alarm, which is not set while a write is under way.                     *)
CancelStream(t) ==
  /\ tag[t].kind = "subscribe" /\ tag[t].accepted /\ ~tag[t].finished
  /\ Take(t, FALSE, {"finish"})
  /\ tag' = [tag EXCEPT ![t].finished = TRUE, ![t].status = "finish"]
  /\ UNCHANGED <<service, client, store>>

(* The pending acceptor fails when the server shuts down; Proceed calls    *)
(* Finish on a call that never began.  gRPC calls that misuse: the process *)
(* aborts, or the tag is left behind.                                      *)
CancelAcceptor(t) ==
  /\ tag[t].kind = "subscribe" /\ ~tag[t].accepted
  /\ Take(t, FALSE, {})
  /\ tag' = [tag EXCEPT ![t].finished = TRUE, ![t].status = "finish"]
  /\ service' \in {service, "crashed"}
  /\ UNCHANGED <<client, store>>

(* Finish failed because the caller is gone: Proceed returns, no delete. *)
StreamLeaks(t) ==
  /\ tag[t].kind = "subscribe" /\ tag[t].finished
  /\ Take(t, FALSE, {})
  /\ UNCHANGED <<service, tag, client, store>>

StreamDeleted(t) ==
  /\ tag[t].kind = "subscribe" /\ tag[t].status = "finish"
  /\ Take(t, TRUE, {})
  /\ tag' = [tag EXCEPT ![t] = Free]
  /\ client' = [client EXCEPT ![t] = NoClient]
  /\ UNCHANGED <<service, store>>

(* A tag whose Proceed uses the handler after Stop destroyed it: besides   *)
(* going on as if the memory were intact, the process may die.             *)
UseAfterDestroy(t) ==
  /\ HandlerDestroyed
  /\ tag[t].kind = "get" \/ tag[t].status = "accept"
  /\ Take(t, TRUE, {})
  /\ service' = "crashed"
  /\ UNCHANGED <<tag, client, store>>

Proceed(t) ==
  \/ GetDropped(t) \/ GetProcess(t) \/ GetRespawn(t) \/ GetUnready(t)
  \/ Accept(t) \/ AcceptUnready(t) \/ Poll(t) \/ Written(t)
  \/ CancelStream(t) \/ CancelAcceptor(t) \/ StreamLeaks(t) \/ StreamDeleted(t)
  \/ UseAfterDestroy(t)

----------------------------------------------------------------------------
(* SupportAsyncServiceImpl::Stop, step by step on another thread           *)

DestroyHandler ==
  /\ MayStop
  /\ service = "serving"
  /\ service' = "stopping"
  /\ UNCHANGED <<tag, ops, cq, client, store>>

ShutdownServer ==
  /\ service = "stopping"
  /\ service' = "draining"
  /\ UNCHANGED <<tag, ops, cq, client, store>>

(* grpc::Server::Shutdown returns when no call is open, and the queue is   *)
(* shut down next.                                                         *)
ShutdownQueue ==
  /\ service = "draining"
  /\ \A t \in Tags : client[t].state \notin {"connected", "gone"}
  /\ service' = "closing"
  /\ UNCHANGED <<tag, ops, cq, client, store>>

(* The poller finds the queue shut down and empty, and is joined. *)
JoinPoller ==
  /\ service = "closing"
  /\ ops = {} /\ cq = {}
  /\ service' = "stopped"
  /\ UNCHANGED <<tag, ops, cq, client, store>>

Stop == DestroyHandler \/ ShutdownServer \/ ShutdownQueue \/ JoinPoller

----------------------------------------------------------------------------
GrpcStep(t) ==
  \/ \E asked \in Asked : Arrive(t, asked)
  \/ RequestFails(t)
  \/ AlarmFires(t)
  \/ \E ok \in BOOLEAN : WriteCompletes(t, ok) \/ FinishCompletes(t, ok)
  \/ Disconnect(t)

Next ==
  \/ Start
  \/ \E t \in Tags : Proceed(t) \/ GrpcStep(t)
  \/ WriteRow \/ Outage \/ Recover \/ PoolCloses
  \/ Stop

Spec == Init /\ [][Next]_vars

(* The poller thread is scheduled and takes each event in the end; gRPC    *)
(* completes the writes and alarms it was given; an outage ends.           *)
FairSpec ==
  /\ Spec
  /\ \A t \in Tags :
       /\ WF_vars(Proceed(t))
       /\ WF_vars(AlarmFires(t))
       /\ WF_vars(\E ok \in BOOLEAN : WriteCompletes(t, ok))
  /\ WF_vars(Recover)

----------------------------------------------------------------------------
(* Properties                                                              *)

TagType ==
  [kind : {"free", "get", "subscribe"},
   status : {"create", "process", "accept", "write", "finish"},
   accepted : BOOLEAN, writing : BOOLEAN, finished : BOOLEAN,
   since : Asked \cup 0..MaxVersion + 1, outgoing : ForeignConfig..MaxVersion]

(* Every variable has its type, and write_in_flight_ agrees with the       *)
(* status, but for a stream whose write has failed.                        *)
TypeOK ==
  /\ service \in {"new", "starting", "serving", "stopping", "draining", "closing",
                  "stopped", "crashed"}
  /\ tag \in [Tags -> TagType]
  /\ \A t \in Tags : tag[t].status = "write" => tag[t].writing
  /\ \A t \in Tags : tag[t].writing => tag[t].status \in {"write", "finish"}
  /\ ops \subseteq [tag : Tags, op : {"request", "alarm", "write", "finish"}]
  /\ cq \subseteq [tag : Tags, op : {"request", "alarm", "write", "finish"},
                   ok : BOOLEAN]
  /\ client \in [Tags -> [state : {"none", "connected", "gone", "closed"},
                          asked : Asked \cup {0}, got : ForeignConfig..MaxVersion]]
  /\ row \in 0..MaxVersion
  /\ pool_open \in BOOLEAN /\ readable \in BOOLEAN
  /\ outages \in 0..MaxOutages

(* Operations of t that gRPC has not completed or the poller not taken. *)
Pending(t) == Cardinality({o \in ops : o.tag = t}) + Cardinality({e \in cq : e.tag = t})

(* A tag that waits for the next subscriber. *)
Acceptor(t) == tag[t].kind = "subscribe" /\ ~tag[t].accepted

(* A tag is a state machine driven by the completion of its one operation: *)
(* it never has two under way (the second would be taken for the first, or *)
(* arrive at a deleted tag), a deleted one has none, and one whose call is *)
(* not over has exactly one, or it would never run again.                  *)
OneOperationPerTag ==
  service # "crashed" =>
    \A t \in Tags :
      /\ Pending(t) <= 1
      /\ tag[t].kind = "free" => Pending(t) = 0
      /\ tag[t].kind # "free" /\ ~tag[t].finished => Pending(t) = 1

(* While the service serves, at most one tag waits for the next subscriber *)
(* and at most one for GetEngineConfig: they do not pile up.  And as long  *)
(* as the pool is open, one does wait: no path of accepting, failing and   *)
(* deleting loses the acceptor, without which every subscriber would hang. *)
(* When the pool has closed the code puts up no successor.                 *)
OneAcceptor ==
  service = "serving" =>
    /\ Cardinality({t \in Tags : Acceptor(t)}) <= 1
    /\ Cardinality({t \in Tags : tag[t].kind = "get"}) <= 1
    /\ pool_open => \E t \in Tags : Acceptor(t)

(* Whoever asks is given the configuration of its own engine, or none: an  *)
(* empty engine_id means the default engine.  A condition on an empty text *)
(* would be dropped from the SELECT, and the first row be anybody's.       *)
OwnConfiguration ==
  \A t \in Tags : ForeignConfig \notin {tag[t].outgoing, client[t].got}

(* What a subscriber receives is newer than what it said it has and newer  *)
(* than everything it received before, across outages in which the table   *)
(* reads as version 0.                                                     *)
VersionsIncrease ==
  [][\A t \in Tags :
       /\ tag[t].kind = "subscribe" /\ client'[t].state # "none"
       /\ client'[t].got # client[t].got
       => /\ Version(client'[t].got) > client[t].asked
          /\ Version(client'[t].got) > Version(client[t].got)]_vars

Streaming(t) == tag[t].kind = "subscribe" /\ client[t].state = "connected"

(* What releases the service from bringing stream t further. *)
Interrupted(t) == ~Streaming(t) \/ service # "serving" \/ ~pool_open \/ ~readable

(* The stream was answered before the engine had a row: the placeholder it *)
(* was sent has version 1, the first row's own, so that row is withheld.   *)
FirstRowWithheld(t, v) == v = 1 /\ client[t].got = NoRowConfig

(* A subscriber that stays connected receives every version that is        *)
(* written, or a later one, unless it said it has it or the table cannot   *)
(* be read just then: no path of polling, writing and failing forgets to   *)
(* schedule the next poll.  The one exception is a first row after the     *)
(* placeholder.                                                            *)
StreamCatchesUp ==
  \A t \in Tags, v \in 1..MaxVersion :
    (Streaming(t) /\ row >= v) ~>
      \/ client[t].got >= v \/ client[t].asked >= v
      \/ FirstRowWithheld(t, v)
      \/ Interrupted(t)
=============================================================================
