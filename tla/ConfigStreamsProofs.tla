------------------------- MODULE ConfigStreamsProofs -------------------------
(***************************************************************************)
(* For any number of tags, any requests and any versions: what the call    *)
(* tags of ConfigStreams keep to.                                          *)
(***************************************************************************)
EXTENDS ConfigStreams, FiniteSetTheorems, TLAPS

----------------------------------------------------------------------------
(* The inductive invariant                                                 *)

(* The operation whose completion a tag in this state waits for. *)
Awaits(s) ==
  IF s.kind = "free" THEN "nothing"
  ELSE IF s.kind = "get"
  THEN IF s.status = "process" THEN "request" ELSE "finish"
  ELSE IF s.accepted
  THEN IF s.status = "accept" THEN "alarm" ELSE s.status
  ELSE IF s.finished THEN "nothing" ELSE "request"

(* Which members go together. *)
Shaped(s) ==
  /\ s.kind = "free" => s = Free
  /\ s.kind = "get" =>
       /\ s.status \in {"process", "finish"}
       /\ ~s.accepted /\ ~s.finished /\ ~s.writing
  /\ s.kind = "subscribe" =>
       /\ s.status \in {"accept", "write", "finish"}
       /\ s.finished <=> s.status = "finish"
       /\ ~s.accepted => s.status # "write" /\ ~s.writing
       /\ s.status = "accept" => ~s.writing
       /\ s.status = "write" => s.writing
Shapes == \A t \in Tags : Shaped(tag[t])

(* Operations and events are the ones their tags wait for; nothing is      *)
(* under way twice, and nothing that is waited for is missing.             *)
Matched ==
  service # "crashed" =>
    /\ \A o \in ops : o.op = Awaits(tag[o.tag])
    /\ \A e \in cq : e.op = Awaits(tag[e.tag]) /\ Op(e.tag, e.op) \notin ops
    /\ \A e, f \in cq : e.tag = f.tag => e = f
    /\ \A t \in Tags :
         tag[t].kind # "free" /\ ~tag[t].finished =>
           \/ Op(t, Awaits(tag[t])) \in ops
           \/ \E ok \in BOOLEAN : Event(t, Awaits(tag[t]), ok) \in cq

(* A request fails only when the server has been shut down. *)
Opening ==
  /\ service = "new" => ops = {} /\ cq = {} /\ \A t \in Tags : tag[t] = Free
  /\ service \in {"new", "starting", "serving", "stopping"} =>
       \A e \in cq : e.op = "request" => e.ok

(* At most one tag of either kind waits for a call, none for a subscriber  *)
(* before Start has put one up, and one for as long as the pool is open.   *)
Accepting ==
  /\ service \in {"starting", "serving"} =>
       /\ \A t, u \in Tags : Acceptor(t) /\ Acceptor(u) => t = u
       /\ \A t, u \in Tags : tag[t].kind = "get" /\ tag[u].kind = "get" => t = u
  /\ service = "starting" => \A t \in Tags : tag[t].kind # "subscribe"
  /\ service = "serving" /\ pool_open => \E t \in Tags : Acceptor(t)

(* Where there is no call there is no caller, and where an event has       *)
(* failed or a stream is finished, none that is still connected.           *)
Caller(t) ==
  /\ client[t].state = "none" => client[t] = NoClient
  /\ tag[t].kind = "free" \/ Op(t, "request") \in ops => client[t].state = "none"
  /\ tag[t].kind = "subscribe" /\ tag[t].finished => client[t].state # "connected"
  /\ Acceptor(t) => client[t].got = EmptyConfig
Callers ==
  /\ \A t \in Tags : Caller(t)
  /\ \A e \in cq : ~e.ok => client[e.tag].state # "connected"

(* since_version_ is at least what the caller asked for and has, except    *)
(* for the message that is just being written, which is newer.             *)
Stream(t) ==
  tag[t].kind = "subscribe" /\ tag[t].accepted =>
    /\ client[t].asked <= tag[t].since
    /\ tag[t].writing => Version(tag[t].outgoing) > tag[t].since
    /\ \/ Version(client[t].got) <= tag[t].since
       \/ tag[t].writing /\ client[t].got = tag[t].outgoing
          /\ Op(t, "write") \notin ops
Streams == \A t \in Tags : Stream(t)

IInv == TypeOK /\ Shapes /\ Matched /\ Opening /\ Accepting /\ Callers /\ Streams
        /\ OwnConfiguration

----------------------------------------------------------------------------
(* The configuration query                                                 *)

(* The SELECT finds the row of the caller's own engine, or none. *)
LEMMA OwnRowsOnly == SelectRows(EngineConfigTable, Where) \subseteq {OwnEngine}
<1>1. MakeConfigScope.engine_id = OwnEngine
  BY DEF MakeConfigScope, NormalizeScopeField, OwnEngine
<1>2. OwnEngine # "" /\ OwnEngine # NoValue
  BY EngineIdIsText DEF OwnEngine, NoValue
<1>3. "engine_id" \in DOMAIN Where /\ Where["engine_id"] = OwnEngine
  BY <1>1, <1>2 DEF Where, KeyValues
<1>4. "engine_id" \in Conditions(Where)
  BY <1>2, <1>3 DEF Conditions
<1>5. ASSUME NEW engine \in DOMAIN EngineConfigTable
      PROVE  EngineConfigTable[engine].engine_id = engine
  BY DEF EngineConfigTable
<1>. QED  BY <1>3, <1>4, <1>5 DEF SelectRows, Satisfies

LEMMA QueryType ==
  ASSUME row \in 0..MaxVersion
  PROVE  QueryConfig \in EmptyConfig..MaxVersion
<1>1. ASSUME SelectRows(EngineConfigTable, Where) # {}
      PROVE  (CHOOSE engine \in SelectRows(EngineConfigTable, Where) : TRUE) = OwnEngine
  BY <1>1, OwnRowsOnly
<1>. QED  BY <1>1, ConfigBounds DEF QueryConfig, EmptyConfig, NoRowConfig

LEMMA AskedType ==
  ASSUME NEW a \in Asked \cup {0} \cup 0..MaxVersion + 1
  PROVE  a \in Nat
<1>1. CASE a \in Asked
  <2>1. Asked \subseteq Nat
    BY Zenon, ConfigBounds
  <2>. QED  BY <1>1, <2>1, Zenon
<1>2. CASE a \in {0} \cup 0..MaxVersion + 1
  <2>1. MaxVersion \in Nat
    BY Zenon, ConfigBounds
  <2>. QED  BY <1>2, <2>1
<1>. QED  BY <1>1, <1>2

LEMMA VersionType ==
  ASSUME NEW c \in ForeignConfig..MaxVersion
  PROVE  Version(c) \in 0..MaxVersion + 1 /\ Version(c) \in Int
BY ConfigBounds DEF Version, ForeignConfig, EmptyConfig, NoRowConfig

LEMMA FreeType ==
  /\ Free \in TagType /\ GetTag \in TagType /\ SubscribeTag \in TagType
  /\ Free.kind = "free" /\ GetTag.kind = "get" /\ SubscribeTag.kind = "subscribe"
<1>1. EmptyConfig \in ForeignConfig..MaxVersion /\ 0 \in 0..MaxVersion + 1
  BY ConfigBounds DEF EmptyConfig, ForeignConfig
<1>2. Free \in TagType
  BY <1>1, Zenon DEF Free, TagType
<1>3. GetTag \in TagType
  BY <1>2 DEF GetTag, TagType
<1>4. SubscribeTag \in TagType
  BY <1>2 DEF SubscribeTag, TagType
<1>. QED  BY <1>2, <1>3, <1>4 DEF Free, GetTag, SubscribeTag
----------------------------------------------------------------------------
(* Types                                                                   *)

LEMMA TakeType ==
  ASSUME TypeOK, NEW t \in Tags, NEW ok \in BOOLEAN,
         NEW next \in SUBSET {"request", "alarm", "write", "finish"}, Take(t, ok, next)
  PROVE  /\ ops' \subseteq [tag : Tags, op : {"request", "alarm", "write", "finish"}]
         /\ cq' \subseteq [tag : Tags, op : {"request", "alarm", "write", "finish"},
                          ok : BOOLEAN]
BY DEF TypeOK, Take, Op

LEMMA CompleteType ==
  ASSUME TypeOK, NEW t \in Tags, NEW ok \in BOOLEAN, NEW name, Complete(t, name, ok)
  PROVE  /\ ops' \subseteq [tag : Tags, op : {"request", "alarm", "write", "finish"}]
         /\ cq' \subseteq [tag : Tags, op : {"request", "alarm", "write", "finish"},
                          ok : BOOLEAN]
BY DEF TypeOK, Complete, Op, Event

LEMMA PolledType ==
  ASSUME NEW s \in TagType, s.status = "accept", ~s.writing, row \in 0..MaxVersion
  PROVE  /\ Polled(s) \in TagType
         /\ Polled(s).status = "write" <=> Polled(s).writing
         /\ Polled(s).status \in {"accept", "write"}
         /\ AfterPoll(s) \in SUBSET {"alarm", "write"}
<1>1. QueryConfig \in ForeignConfig..MaxVersion
  BY QueryType, ConfigBounds DEF ForeignConfig, EmptyConfig
<1>. QED  BY <1>1 DEF Polled, AfterPoll, TagType

(* The call of a subscriber, from the acceptor's members. *)
Accepted(t) == [tag[t] EXCEPT !.accepted = TRUE, !.since = client[t].asked]

LEMMA AcceptedShape ==
  ASSUME TypeOK, Shapes, NEW t \in Tags, Acceptor(t), tag[t].status = "accept"
  PROVE  /\ Accepted(t) \in TagType /\ Shaped(Accepted(t))
         /\ Accepted(t).kind = "subscribe" /\ Accepted(t).accepted
         /\ Accepted(t).status = "accept" /\ ~Accepted(t).writing
         /\ Accepted(t).since = client[t].asked
<1>1. client[t].asked \in Asked \cup 0..MaxVersion + 1
  BY ConfigBounds DEF TypeOK
<1>2. tag[t] \in TagType
  BY DEF TypeOK
<1>3. Accepted(t) \in TagType
  BY <1>1, <1>2 DEF TagType, Accepted
<1>. QED  BY <1>2, <1>3 DEF Accepted, Shapes, Shaped, Acceptor, TagType

LEMMA AcceptUnreadyShape ==
  ASSUME NEW t, AcceptUnready(t)
  PROVE  /\ tag' = [tag EXCEPT ![t] = Polled(Accepted(t))]
         /\ Take(t, TRUE, AfterPoll(Accepted(t)))
         /\ UNCHANGED <<service, client, store>>
         /\ Acceptor(t) /\ tag[t].status = "accept" /\ ~pool_open
BY DEF AcceptUnready, Accepted, Acceptor

LEMMA NoClientType ==
  NoClient \in [state : {"none", "connected", "gone", "closed"},
               asked : Asked \cup {0}, got : ForeignConfig..MaxVersion]
BY ConfigBounds DEF NoClient, EmptyConfig, ForeignConfig

LEMMA ProceedType ==
  ASSUME TypeOK, Shapes, NEW t \in Tags, Proceed(t)
  PROVE  TypeOK'
<1>. USE FreeType, NoClientType DEF TypeOK, store
<1>1. CASE GetDropped(t)
  BY <1>1, TakeType DEF GetDropped, Free
<1>2. CASE GetProcess(t)
  <2>1. QueryConfig \in ForeignConfig..MaxVersion
    BY QueryType, ConfigBounds DEF ForeignConfig, EmptyConfig
  <2>. DEFINE s == [tag[t] EXCEPT !.status = "finish", !.outgoing = QueryConfig]
  <2>2. s \in TagType /\ s.status = "finish" /\ ~s.writing
    BY <1>2, <2>1 DEF GetProcess, TagType, Shapes, Shaped
  <2>3. tag' = [tag EXCEPT ![t] = s]
    BY <1>2 DEF GetProcess
  <2>. HIDE DEF s
  <2>. QED  BY <1>2, <2>2, <2>3, TakeType DEF GetProcess
<1>3. CASE GetRespawn(t)
  BY <1>3, TakeType DEF GetRespawn, GetTag, Free
<1>4. CASE Accept(t)
  <2>. DEFINE s == [tag[t] EXCEPT !.accepted = TRUE, !.since = client[t].asked]
              f == FreeTag
  <2>1. s \in TagType /\ s.status = "accept" /\ ~s.writing
    <3>1. client[t].asked \in Asked \cup 0..MaxVersion + 1
      BY ConfigBounds
    <3>2. tag[t] \in TagType
      OBVIOUS
    <3>3. s \in TagType
      BY <3>1, <3>2 DEF TagType
    <3>4. s.status = "accept" /\ s.writing = tag[t].writing
      BY <1>4, <3>2 DEF Accept, TagType
    <3>. QED  BY <1>4, <3>3, <3>4 DEF Accept, Shapes, Shaped
  <2>2. f \in Tags /\ f # t
    BY <1>4 DEF Accept, FreeTags, FreeTag
  <2>3. tag' = [tag EXCEPT ![t] = Polled(s), ![f] = SubscribeTag]
    BY <1>4 DEF Accept
  <2>4. ops' = ops \cup {Op(f, "request")} \cup {Op(t, name) : name \in AfterPoll(s)}
    BY <1>4 DEF Accept
  <2>5. cq' \subseteq cq /\ UNCHANGED <<service, client, row, pool_open, readable, outages>>
    BY <1>4 DEF Accept
  <2>. HIDE DEF s, f
  <2>6. ops' \subseteq [tag : Tags, op : {"request", "alarm", "write", "finish"}]
    BY <2>1, <2>2, <2>4, PolledType DEF Op
  <2>7. /\ tag' \in [Tags -> TagType]
        /\ \A u \in Tags : tag'[u].status = "write" => tag'[u].writing
        /\ \A u \in Tags : tag'[u].writing => tag'[u].status \in {"write", "finish"}
    BY <2>1, <2>2, <2>3, PolledType DEF SubscribeTag, Free
  <2>. QED  BY <2>5, <2>6, <2>7
<1>12. CASE AcceptUnready(t)
  <2>1. /\ Accepted(t) \in TagType /\ Accepted(t).status = "accept" /\ ~Accepted(t).writing
        /\ tag' = [tag EXCEPT ![t] = Polled(Accepted(t))]
        /\ Take(t, TRUE, AfterPoll(Accepted(t)))
        /\ UNCHANGED <<service, client, store>>
    BY <1>12, AcceptUnreadyShape, AcceptedShape
  <2>. QED  BY <2>1, TakeType, PolledType
<1>13. CASE GetUnready(t)
  BY <1>13, TakeType DEF GetUnready, Free
<1>5. CASE Poll(t)
  BY <1>5, TakeType, PolledType DEF Poll, Shapes, Shaped
<1>6. CASE Written(t)
  BY <1>6, TakeType, VersionType DEF Written, TagType, Shapes, Shaped
<1>7. CASE CancelStream(t)
  BY <1>7, TakeType DEF CancelStream, TagType, Shapes, Shaped
<1>8. CASE CancelAcceptor(t)
  <2>1. service' \in {service, "crashed"} /\ UNCHANGED <<client, row, readable, outages>>
    BY <1>8 DEF CancelAcceptor
  <2>2. /\ tag' \in [Tags -> TagType]
        /\ \A u \in Tags : tag'[u].status = "write" => tag'[u].writing
        /\ \A u \in Tags : tag'[u].writing => tag'[u].status \in {"write", "finish"}
    <3>. DEFINE s == [tag[t] EXCEPT !.finished = TRUE, !.status = "finish"]
    <3>1. s \in TagType /\ s.status = "finish"
      BY ZenonT(60) DEF TagType
    <3>2. tag' = [tag EXCEPT ![t] = s]
      BY <1>8 DEF CancelAcceptor
    <3>. HIDE DEF s
    <3>. QED  BY <3>1, <3>2
  <2>. QED  BY <1>8, <2>1, <2>2, TakeType DEF CancelAcceptor
<1>9. CASE StreamLeaks(t)
  BY <1>9, TakeType DEF StreamLeaks
<1>10. CASE StreamDeleted(t)
  BY <1>10, TakeType DEF StreamDeleted, Free
<1>11. CASE UseAfterDestroy(t)
  BY <1>11, TakeType DEF UseAfterDestroy
<1>. QED  BY <1>1, <1>2, <1>3, <1>4, <1>5, <1>6, <1>7, <1>8, <1>9, <1>10, <1>11, <1>12, <1>13
          DEF Proceed

LEMMA GrpcStepType ==
  ASSUME TypeOK, NEW t \in Tags, GrpcStep(t)
  PROVE  TypeOK'
<1>. USE DEF TypeOK, store
<1>1. CASE \E asked \in Asked : Arrive(t, asked)
  <2>1. PICK asked \in Asked : Arrive(t, asked)
    BY <1>1
  <2>2. EmptyConfig \in ForeignConfig..MaxVersion
    BY ConfigBounds DEF EmptyConfig, ForeignConfig
  <2>. QED  BY <2>1, <2>2, CompleteType DEF Arrive, Complete
<1>2. CASE RequestFails(t)
  BY <1>2, CompleteType DEF RequestFails, Complete
<1>3. CASE AlarmFires(t)
  BY <1>3, CompleteType DEF AlarmFires, Complete
<1>4. ASSUME NEW ok \in BOOLEAN, WriteCompletes(t, ok) PROVE TypeOK'
  <2>1. tag[t].outgoing \in ForeignConfig..MaxVersion
    BY DEF TagType
  <2>2. client' \in [Tags -> [state : {"none", "connected", "gone", "closed"},
                    asked : Asked \cup {0}, got : ForeignConfig..MaxVersion]]
    BY <1>4, <2>1 DEF WriteCompletes
  <2>. QED  BY <1>4, <2>2, CompleteType DEF WriteCompletes, Complete
<1>5. ASSUME NEW ok \in BOOLEAN, FinishCompletes(t, ok) PROVE TypeOK'
  <2>1. tag[t].outgoing \in ForeignConfig..MaxVersion
    BY DEF TagType
  <2>2. client' \in [Tags -> [state : {"none", "connected", "gone", "closed"},
                    asked : Asked \cup {0}, got : ForeignConfig..MaxVersion]]
    BY <1>5, <2>1 DEF FinishCompletes
  <2>. QED  BY <1>5, <2>2, CompleteType DEF FinishCompletes, Complete
<1>6. CASE Disconnect(t)
  BY <1>6 DEF Disconnect, server
<1>. QED  BY <1>1, <1>2, <1>3, <1>4, <1>5, <1>6 DEF GrpcStep

(* Start puts up one tag at a time, and there is a free one for each. *)
LEMMA StartTag ==
  ASSUME TypeOK, Opening, Accepting, StartGet \/ StartSubscribe
  PROVE  /\ FreeTag \in Tags /\ tag[FreeTag].kind = "free"
         /\ ops' = ops \cup {Op(FreeTag, "request")} /\ cq' = cq /\ client' = client
         /\ \/ /\ service = "new" /\ service' = "starting"
               /\ tag' = [tag EXCEPT ![FreeTag] = GetTag]
            \/ /\ service = "starting" /\ service' = "serving"
               /\ tag' = [tag EXCEPT ![FreeTag] = SubscribeTag]
<1>1. FreeTags # {}
  <2>1. CASE StartGet
    BY <2>1, StartNeedsTwoTags DEF StartGet, Opening, FreeTags, Free
  <2>2. CASE StartSubscribe
    <3>1. PICK g, s \in Tags : g # s
      BY StartNeedsTwoTags
    <3>2. tag[g].kind \in {"free", "get"} /\ tag[s].kind \in {"free", "get"}
      BY <2>2 DEF StartSubscribe, Accepting, TypeOK, TagType
    <3>3. ~(tag[g].kind = "get" /\ tag[s].kind = "get")
      BY <2>2, <3>1 DEF StartSubscribe, Accepting
    <3>. QED  BY <3>2, <3>3 DEF FreeTags
  <2>. QED  BY <2>1, <2>2
<1>2. FreeTag \in FreeTags
  BY <1>1 DEF FreeTag
<1>3. service = "new" => ops = {}
  BY DEF Opening
<1>. QED  BY <1>2, <1>3 DEF FreeTags, StartGet, StartSubscribe

LEMMA RestType ==
  ASSUME TypeOK, Opening, Accepting,
         Start \/ WriteRow \/ Outage \/ Recover \/ PoolCloses \/ Stop
  PROVE  TypeOK'
<1>. USE ConfigBounds DEF TypeOK, store, server
<1>1. CASE StartGet \/ StartSubscribe
  <2>1. \E fresh \in {GetTag, SubscribeTag} :
          tag' = [tag EXCEPT ![FreeTag] = fresh] /\ FreeTag \in Tags
    BY <1>1, StartTag
  <2>2. ops' \subseteq [tag : Tags, op : {"request", "alarm", "write", "finish"}]
    BY <1>1, StartTag DEF Op
  <2>3. /\ tag' \in [Tags -> TagType]
        /\ \A u \in Tags : tag'[u].status = "write" => tag'[u].writing
        /\ \A u \in Tags : tag'[u].writing => tag'[u].status \in {"write", "finish"}
    <3>1. PICK fresh \in {GetTag, SubscribeTag} :
             tag' = [tag EXCEPT ![FreeTag] = fresh] /\ FreeTag \in Tags
      BY <2>1
    <3>2. fresh \in TagType /\ fresh.status \notin {"write"} /\ ~fresh.writing
      BY FreeType DEF SubscribeTag, GetTag, Free
    <3>. QED  BY <3>1, <3>2
  <2>4. service' \in {"starting", "serving"} /\ UNCHANGED <<cq, client, store>>
    BY <1>1 DEF StartGet, StartSubscribe
  <2>. QED  BY <2>2, <2>3, <2>4
<1>6. CASE StartUnready
  BY <1>6 DEF StartUnready
<1>7. CASE PoolCloses
  BY <1>7 DEF PoolCloses
<1>2. CASE WriteRow
  BY <1>2 DEF WriteRow
<1>3. CASE Outage
  <2>1. outages' \in 0..MaxOutages
    BY <1>3 DEF Outage
  <2>2. readable' \in BOOLEAN
    BY <1>3, Zenon DEF Outage
  <2>. QED  BY <1>3, <2>1, <2>2 DEF Outage
<1>4. CASE Recover
  BY <1>4 DEF Recover
<1>5. CASE Stop
  BY <1>5 DEF Stop, DestroyHandler, ShutdownServer, ShutdownQueue, JoinPoller
<1>. QED  BY <1>1, <1>2, <1>3, <1>4, <1>5, <1>6, <1>7 DEF Start
----------------------------------------------------------------------------
(* Members of a tag                                                        *)

LEMMA PolledShape ==
  ASSUME NEW s \in TagType, s.kind = "subscribe", s.accepted, s.status = "accept",
         Shaped(s), row \in 0..MaxVersion
  PROVE  /\ Shaped(Polled(s)) /\ AfterPoll(s) = {Awaits(Polled(s))}
         /\ Polled(s).kind = "subscribe" /\ Polled(s).accepted
         /\ ~Polled(s).finished /\ Polled(s).since = s.since
BY DEF Polled, AfterPoll, Shaped, Awaits, TagType

LEMMA FreshShape ==
  /\ Shaped(Free) /\ Shaped(GetTag) /\ Shaped(SubscribeTag)
  /\ Awaits(Free) = "nothing"
  /\ Awaits(GetTag) = "request" /\ Awaits(SubscribeTag) = "request"
  /\ ~SubscribeTag.accepted /\ ~SubscribeTag.finished
BY DEF Shaped, Awaits, Free, GetTag, SubscribeTag

LEMMA AcceptShape ==
  ASSUME TypeOK, NEW t \in Tags, Accept(t)
  PROVE  /\ FreeTag \in Tags /\ FreeTag # t /\ tag[FreeTag].kind = "free"
         /\ tag' = [tag EXCEPT ![t] = Polled(Accepted(t)), ![FreeTag] = SubscribeTag]
         /\ ops' = ops \cup {Op(FreeTag, "request")}
                       \cup {Op(t, name) : name \in AfterPoll(Accepted(t))}
         /\ Acceptor(t) /\ tag[t].status = "accept"
BY DEF Accept, Accepted, Acceptor, FreeTags, FreeTag

LEMMA ProceedShapes ==
  ASSUME TypeOK, Shapes, NEW t \in Tags, Proceed(t)
  PROVE  Shapes'
<1>. USE DEF TypeOK, Shapes
<1>1. CASE GetDropped(t)
  BY <1>1, FreshShape DEF GetDropped
<1>2. CASE GetProcess(t)
  BY <1>2 DEF GetProcess, TagType, Shaped
<1>3. CASE GetRespawn(t)
  BY <1>3, FreshShape DEF GetRespawn
<1>4. CASE Accept(t)
  BY <1>4, AcceptShape, AcceptedShape, PolledShape, FreshShape
<1>12. CASE AcceptUnready(t)
  <2>1. /\ tag' = [tag EXCEPT ![t] = Polled(Accepted(t))]
        /\ Shaped(Polled(Accepted(t)))
    BY <1>12, AcceptUnreadyShape, AcceptedShape, PolledShape
  <2>. QED  BY <2>1
<1>13. CASE GetUnready(t)
  BY <1>13, FreshShape DEF GetUnready
<1>5. CASE Poll(t)
  BY <1>5, PolledShape DEF Poll
<1>6. CASE Written(t)
  BY <1>6 DEF Written, TagType, Shaped
<1>7. CASE CancelStream(t)
  BY <1>7 DEF CancelStream, TagType, Shaped
<1>8. CASE CancelAcceptor(t)
  BY <1>8 DEF CancelAcceptor, TagType, Shaped
<1>9. CASE StreamLeaks(t)
  BY <1>9 DEF StreamLeaks
<1>10. CASE StreamDeleted(t)
  BY <1>10, FreshShape DEF StreamDeleted
<1>11. CASE UseAfterDestroy(t)
  BY <1>11 DEF UseAfterDestroy
<1>. QED  BY <1>1, <1>2, <1>3, <1>4, <1>5, <1>6, <1>7, <1>8, <1>9, <1>10, <1>11, <1>12, <1>13
          DEF Proceed

----------------------------------------------------------------------------
(* Operations and events                                                   *)

(* The poller takes the one event of the tag. *)
LEMMA Taken ==
  ASSUME TypeOK, Matched, service # "crashed", NEW t \in Tags, NEW ok \in BOOLEAN,
         \E e \in cq : e.tag = t /\ e.ok = ok /\ cq' = cq \ {e}
  PROVE  /\ Event(t, Awaits(tag[t]), ok) \in cq
         /\ Awaits(tag[t]) \in {"request", "alarm", "write", "finish"}
         /\ cq' \subseteq cq /\ \A e \in cq' : e.tag # t
         /\ \A e \in cq : e.tag # t => e \in cq'
         /\ \A o \in ops : o.tag # t
<1>1. PICK e \in cq : e.tag = t /\ e.ok = ok /\ cq' = cq \ {e}
  OBVIOUS
<1>2. e.op = Awaits(tag[t]) /\ e \in [tag : Tags, op : {"request", "alarm", "write", "finish"},
                                  ok : BOOLEAN]
  BY <1>1 DEF Matched, TypeOK
<1>3. e = Event(t, Awaits(tag[t]), ok)
  BY <1>1, <1>2 DEF Event
<1>4. \A o \in ops : o.tag # t
  <2>. SUFFICES ASSUME NEW o \in ops, o.tag = t PROVE FALSE
    OBVIOUS
  <2>1. o.op = Awaits(tag[t]) /\ o \in [tag : Tags, op : {"request", "alarm", "write", "finish"}]
    BY DEF Matched, TypeOK
  <2>2. o = Op(e.tag, e.op)
    BY <1>1, <1>2, <2>1 DEF Op
  <2>. QED  BY <1>1, <2>2 DEF Matched
<1>5. \A f \in cq : f.tag = t => f = e
  BY <1>1 DEF Matched
<1>. QED  BY <1>1, <1>2, <1>3, <1>4, <1>5

(* ... and Proceed hands over the next operation, if there is to be one. *)
LEMMA TakenMatched ==
  ASSUME TypeOK, Matched, service # "crashed", NEW t \in Tags, NEW ok \in BOOLEAN,
         NEW next, Take(t, ok, next),
         tag' \in [Tags -> TagType], \A u \in Tags \ {t} : tag'[u] = tag[u],
         \/ next = {Awaits(tag'[t])}
         \/ next = {} /\ (tag'[t].kind = "free" \/ tag'[t].finished)
  PROVE  Matched'
<1>1. /\ cq' \subseteq cq /\ \A e \in cq' : e.tag # t
      /\ \A e \in cq : e.tag # t => e \in cq'
      /\ \A o \in ops : o.tag # t
  BY Taken DEF Take
<1>2. ops' = ops \cup {Op(t, name) : name \in next}
  BY DEF Take
<1>3. \A o \in ops' : o.op = Awaits(tag'[o.tag])
  BY <1>1, <1>2 DEF Matched, TypeOK, Op
<1>4. \A e \in cq' : e.op = Awaits(tag'[e.tag]) /\ Op(e.tag, e.op) \notin ops'
  BY <1>1, <1>2 DEF Matched, TypeOK, Op
<1>5. \A e, f \in cq' : e.tag = f.tag => e = f
  BY <1>1 DEF Matched
<1>6. ASSUME NEW u \in Tags, tag'[u].kind # "free" /\ ~tag'[u].finished
      PROVE  \/ Op(u, Awaits(tag'[u])) \in ops'
             \/ \E b \in BOOLEAN : Event(u, Awaits(tag'[u]), b) \in cq'
  <2>1. CASE u = t
    BY <1>2, <1>6, <2>1
  <2>2. CASE u # t
    BY <1>1, <1>2, <1>6, <2>2 DEF Matched, Event
  <2>. QED  BY <2>1, <2>2
<1>. QED  BY <1>3, <1>4, <1>5, <1>6 DEF Matched

LEMMA CompleteMatched ==
  ASSUME TypeOK, Matched, NEW t \in Tags, NEW name, NEW ok \in BOOLEAN,
         Complete(t, name, ok)
  PROVE  /\ Matched' /\ name = Awaits(tag[t])
         /\ \A e \in cq : e.tag # t
         /\ \A o \in ops' : o \in ops /\ o.tag # t
<1>1. /\ service # "crashed" /\ Op(t, name) \in ops
      /\ ops' = ops \ {Op(t, name)} /\ cq' = cq \cup {Event(t, name, ok)}
      /\ service' = service /\ tag' = tag
  BY DEF Complete
<1>2. name = Awaits(tag[t])
  BY <1>1 DEF Matched, Op
<1>3. \A e \in cq : e.tag # t
  BY <1>1, <1>2 DEF Matched
<1>4. \A o \in ops' : o \in ops /\ o.tag # t
  <2>. SUFFICES ASSUME NEW o \in ops', o.tag = t PROVE FALSE
    BY <1>1
  <2>1. o.op = name /\ o \in [tag : Tags, op : {"request", "alarm", "write", "finish"}]
    BY <1>1, <1>2 DEF Matched, TypeOK
  <2>. QED  BY <1>1, <2>1 DEF Op
<1>5. \A e \in cq' : e.op = Awaits(tag[e.tag]) /\ Op(e.tag, e.op) \notin ops'
  <2>1. ASSUME NEW e \in cq
        PROVE  e.op = Awaits(tag[e.tag]) /\ Op(e.tag, e.op) \notin ops'
    BY <1>1 DEF Matched
  <2>2. Event(t, name, ok).tag = t /\ Event(t, name, ok).op = name
    BY DEF Event
  <2>. QED  BY <1>1, <1>2, <2>1, <2>2
<1>6. \A e, f \in cq' : e.tag = f.tag => e = f
  BY <1>1, <1>3 DEF Matched, Event
<1>7. ASSUME NEW u \in Tags, tag[u].kind # "free" /\ ~tag[u].finished
      PROVE  \/ Op(u, Awaits(tag[u])) \in ops'
             \/ \E b \in BOOLEAN : Event(u, Awaits(tag[u]), b) \in cq'
  <2>1. CASE u = t
    BY <1>1, <1>2, <2>1
  <2>2. CASE u # t
    BY <1>1, <1>7, <2>2 DEF Matched, Op
  <2>. QED  BY <2>1, <2>2
<1>. QED  BY <1>1, <1>2, <1>3, <1>4, <1>5, <1>6, <1>7 DEF Matched

LEMMA ProceedMatched ==
  ASSUME TypeOK, Shapes, Matched, NEW t \in Tags, Proceed(t), TypeOK'
  PROVE  Matched'
<1>. SUFFICES ASSUME service # "crashed" /\ service' # "crashed" PROVE Matched'
  BY DEF Matched, Proceed, GetDropped, GetProcess, GetRespawn, GetUnready, Accept,
         AcceptUnready, Poll, Written, CancelStream, CancelAcceptor, StreamLeaks,
         StreamDeleted, UseAfterDestroy, Take, Polling
<1>. USE DEF Shapes
<1>0. tag \in [Tags -> TagType] /\ tag' \in [Tags -> TagType] /\ row \in 0..MaxVersion
  BY DEF TypeOK
<1>1. CASE GetDropped(t)
  <2>1. tag'[t] = Free /\ \A u \in Tags \ {t} : tag'[u] = tag[u]
    BY <1>0, <1>1 DEF GetDropped
  <2>. QED  BY <1>0, <1>1, <2>1, TakenMatched, FreeType DEF GetDropped
<1>2. CASE GetProcess(t)
  <2>1. Awaits(tag'[t]) = "finish" /\ \A u \in Tags \ {t} : tag'[u] = tag[u]
    BY <1>0, <1>2 DEF GetProcess, Awaits, TagType
  <2>. QED  BY <1>0, <1>2, <2>1, TakenMatched DEF GetProcess
<1>3. CASE GetRespawn(t)
  <2>1. Awaits(tag'[t]) = "request" /\ \A u \in Tags \ {t} : tag'[u] = tag[u]
    BY <1>0, <1>3, FreshShape DEF GetRespawn
  <2>. QED  BY <1>0, <1>3, <2>1, TakenMatched DEF GetRespawn
<1>4. CASE Accept(t)
  <2>. DEFINE f == FreeTag
  <2>1. /\ f \in Tags /\ f # t /\ tag[f].kind = "free"
        /\ tag'[t] = Polled(Accepted(t)) /\ tag'[f] = SubscribeTag
        /\ \A u \in Tags \ {t, f} : tag'[u] = tag[u]
        /\ ops' = ops \cup {Op(f, "request")}
                      \cup {Op(t, name) : name \in AfterPoll(Accepted(t))}
    BY <1>0, <1>4, AcceptShape
  <2>2. AfterPoll(Accepted(t)) = {Awaits(tag'[t])}
    BY <1>0, <1>4, <2>1, AcceptShape, AcceptedShape, PolledShape
  <2>3. ops' = ops \cup {Op(f, Awaits(tag'[f])), Op(t, Awaits(tag'[t]))}
    BY <2>1, <2>2, FreshShape
  <2>4. /\ cq' \subseteq cq /\ \A e \in cq' : e.tag # t
        /\ \A e \in cq : e.tag # t => e \in cq'
        /\ \A o \in ops : o.tag # t
    <3>1. \E e \in cq : e.tag = t /\ e.ok = TRUE /\ cq' = cq \ {e}
      BY <1>4 DEF Accept, TypeOK
    <3>. QED  BY <3>1, Taken
  <2>5. \A e \in cq : e.tag # f
    BY <2>1 DEF Matched, TypeOK, Awaits
  <2>6. \A o \in ops : o.tag # f
    BY <2>1 DEF Matched, TypeOK, Awaits
  <2>. HIDE DEF f
  <2>7. \A o \in ops' : o.op = Awaits(tag'[o.tag])
    BY <2>1, <2>3, <2>4, <2>6 DEF Matched, TypeOK, Op
  <2>8. \A e \in cq' : e.op = Awaits(tag'[e.tag]) /\ Op(e.tag, e.op) \notin ops'
    BY <2>1, <2>3, <2>4, <2>5 DEF Matched, TypeOK, Op
  <2>9. \A e, g \in cq' : e.tag = g.tag => e = g
    BY <2>4 DEF Matched
  <2>10. ASSUME NEW u \in Tags, tag'[u].kind # "free" /\ ~tag'[u].finished
         PROVE  \/ Op(u, Awaits(tag'[u])) \in ops'
                \/ \E b \in BOOLEAN : Event(u, Awaits(tag'[u]), b) \in cq'
    <3>1. CASE u \in {t, f}
      BY <2>3, <3>1
    <3>2. CASE u \notin {t, f}
      BY <2>1, <2>3, <2>4, <2>10, <3>2 DEF Matched, Event
    <3>. QED  BY <3>1, <3>2
  <2>. QED  BY <2>7, <2>8, <2>9, <2>10 DEF Matched
<1>12. CASE AcceptUnready(t)
  <2>1. /\ tag' = [tag EXCEPT ![t] = Polled(Accepted(t))]
        /\ Take(t, TRUE, AfterPoll(Accepted(t)))
        /\ AfterPoll(Accepted(t)) = {Awaits(Polled(Accepted(t)))}
    BY <1>0, <1>12, AcceptUnreadyShape, AcceptedShape, PolledShape
  <2>2. tag'[t] = Polled(Accepted(t)) /\ \A u \in Tags \ {t} : tag'[u] = tag[u]
    BY <1>0, <2>1
  <2>. QED  BY <1>0, <2>1, <2>2, TakenMatched
<1>13. CASE GetUnready(t)
  <2>1. tag'[t] = Free /\ \A u \in Tags \ {t} : tag'[u] = tag[u]
    BY <1>0, <1>13 DEF GetUnready
  <2>. QED  BY <1>0, <1>13, <2>1, TakenMatched, FreeType DEF GetUnready
<1>5. CASE Poll(t)
  <2>1. /\ AfterPoll(tag[t]) = {Awaits(tag'[t])}
        /\ \A u \in Tags \ {t} : tag'[u] = tag[u]
    BY <1>0, <1>5, PolledShape DEF Poll
  <2>. QED  BY <1>0, <1>5, <2>1, TakenMatched DEF Poll
<1>6. CASE Written(t)
  <2>1. Awaits(tag'[t]) = "alarm" /\ \A u \in Tags \ {t} : tag'[u] = tag[u]
    <3>1. tag[t].accepted
      BY <1>6 DEF Written, Shaped
    <3>. QED  BY <1>0, <1>6, <3>1 DEF Written, Awaits, TagType
  <2>. QED  BY <1>0, <1>6, <2>1, TakenMatched DEF Written
<1>7. CASE CancelStream(t)
  <2>1. Awaits(tag'[t]) = "finish" /\ \A u \in Tags \ {t} : tag'[u] = tag[u]
    BY <1>0, <1>7 DEF CancelStream, Awaits, TagType
  <2>. QED  BY <1>0, <1>7, <2>1, TakenMatched DEF CancelStream
<1>8. CASE CancelAcceptor(t)
  <2>1. tag'[t].finished /\ \A u \in Tags \ {t} : tag'[u] = tag[u]
    BY <1>0, <1>8 DEF CancelAcceptor, TagType
  <2>. QED  BY <1>0, <1>8, <2>1, TakenMatched DEF CancelAcceptor
<1>9. CASE StreamLeaks(t)
  BY <1>0, <1>9, TakenMatched DEF StreamLeaks
<1>10. CASE StreamDeleted(t)
  <2>1. tag'[t] = Free /\ \A u \in Tags \ {t} : tag'[u] = tag[u]
    BY <1>0, <1>10 DEF StreamDeleted
  <2>. QED  BY <1>0, <1>10, <2>1, TakenMatched, FreeType DEF StreamDeleted
<1>11. CASE UseAfterDestroy(t)
  BY <1>11 DEF UseAfterDestroy
<1>. QED  BY <1>1, <1>2, <1>3, <1>4, <1>5, <1>6, <1>7, <1>8, <1>9, <1>10, <1>11, <1>12, <1>13
          DEF Proceed

LEMMA GrpcStepMatched ==
  ASSUME TypeOK, Matched, NEW t \in Tags, GrpcStep(t)
  PROVE  Matched'
<1>1. ASSUME NEW asked \in Asked, Arrive(t, asked) PROVE Matched'
  BY <1>1, CompleteMatched DEF Arrive
<1>2. CASE RequestFails(t)
  BY <1>2, CompleteMatched DEF RequestFails
<1>3. CASE AlarmFires(t)
  BY <1>3, CompleteMatched DEF AlarmFires
<1>4. ASSUME NEW ok \in BOOLEAN, WriteCompletes(t, ok) PROVE Matched'
  BY <1>4, CompleteMatched DEF WriteCompletes
<1>5. ASSUME NEW ok \in BOOLEAN, FinishCompletes(t, ok) PROVE Matched'
  BY <1>5, CompleteMatched DEF FinishCompletes
<1>6. CASE Disconnect(t)
  BY <1>6 DEF Disconnect, server, Matched
<1>. QED  BY <1>1, <1>2, <1>3, <1>4, <1>5, <1>6 DEF GrpcStep

(* Start hands over the requests of two tags, one after the other; the     *)
(* rest does not touch tags or operations.                                 *)
LEMMA StartInv ==
  ASSUME TypeOK, Shapes, Matched, Opening, Accepting, Callers, Streams,
         OwnConfiguration, StartGet \/ StartSubscribe
  PROVE  /\ Shapes' /\ Matched' /\ Opening' /\ Accepting' /\ Callers' /\ Streams'
         /\ OwnConfiguration'
<1>. DEFINE f == FreeTag
<1>1. PICK fresh \in {GetTag, SubscribeTag} :
         /\ f \in Tags /\ tag[f].kind = "free"
         /\ ops' = ops \cup {Op(f, "request")} /\ cq' = cq /\ client' = client
         /\ service \in {"new", "starting"} /\ service' \in {"starting", "serving"}
         /\ tag' = [tag EXCEPT ![f] = fresh]
  BY StartTag
<1>2. /\ tag'[f] = fresh /\ \A u \in Tags \ {f} : tag'[u] = tag[u]
  BY <1>1 DEF TypeOK
<1>3. /\ Shaped(fresh) /\ Awaits(fresh) = "request" /\ fresh.kind # "free"
      /\ ~fresh.finished /\ ~fresh.accepted /\ fresh.outgoing = EmptyConfig
  BY FreshShape DEF GetTag, SubscribeTag, Free
<1>4. /\ \A e \in cq : e.tag # f
      /\ \A o \in ops : o.tag # f
  BY <1>1 DEF Matched, TypeOK, Awaits
<1>5. Opening' /\ Accepting'
  <2>1. Opening'
    BY <1>1 DEF Opening
  <2>2. CASE service = "new"
    <3>1. service' = "starting" /\ tag'[f] = GetTag /\ \A u \in Tags : tag[u] = Free
      BY <1>1, <1>2, <2>2, StartTag DEF Opening, TypeOK
    <3>. QED  BY <1>2, <2>1, <3>1, FreeType DEF Accepting, Acceptor
  <2>3. CASE service = "starting"
    <3>1. service' = "serving" /\ tag'[f] = SubscribeTag
      BY <1>1, <2>3, StartTag DEF TypeOK
    <3>2. \A u \in Tags : Acceptor(u)' <=> u = f
      BY <1>2, <2>3, <3>1, FreshShape, FreeType DEF Accepting, Acceptor
    <3>3. \A u \in Tags : tag'[u].kind = "get" => tag[u].kind = "get"
      BY <1>2, <3>1, FreeType
    <3>. QED  BY <1>1, <2>1, <2>3, <3>1, <3>2, <3>3 DEF Accepting
  <2>. QED  BY <1>1, <2>2, <2>3
<1>. HIDE DEF f
<1>6. Shapes'
  BY <1>2, <1>3 DEF Shapes
<1>7. Matched'
  <2>. USE <1>1, <1>2, <1>3, <1>4
  <2>1. ASSUME NEW o \in ops' PROVE o.op = Awaits(tag'[o.tag])
    <3>1. CASE o \in ops
      <4>1. o \in [tag : Tags, op : {"request", "alarm", "write", "finish"}]
        BY <3>1 DEF TypeOK
      <4>2. o.tag \in Tags /\ o.tag # f
        BY <3>1, <4>1
      <4>3. o.op = Awaits(tag[o.tag])
        BY <3>1 DEF Matched
      <4>. QED  BY <4>2, <4>3
    <3>2. CASE o = Op(f, "request")
      BY <3>2 DEF Op
    <3>. QED  BY <3>1, <3>2
  <2>2. ASSUME NEW e \in cq'
        PROVE  e.op = Awaits(tag'[e.tag]) /\ Op(e.tag, e.op) \notin ops'
    <3>0. e \in [tag : Tags, op : {"request", "alarm", "write", "finish"}, ok : BOOLEAN]
      BY DEF TypeOK
    <3>1. e \in cq /\ e.tag \in Tags /\ e.tag # f
      BY <3>0
    <3>2. e.op = Awaits(tag[e.tag]) /\ Op(e.tag, e.op) \notin ops
      BY <3>1 DEF Matched
    <3>3. Op(e.tag, e.op) # Op(f, "request")
      BY <3>1 DEF Op
    <3>. QED  BY <3>1, <3>2, <3>3
  <2>3. \A e, g \in cq' : e.tag = g.tag => e = g
    BY DEF Matched
  <2>4. ASSUME NEW u \in Tags, tag'[u].kind # "free" /\ ~tag'[u].finished
        PROVE  \/ Op(u, Awaits(tag'[u])) \in ops'
               \/ \E b \in BOOLEAN : Event(u, Awaits(tag'[u]), b) \in cq'
    <3>1. CASE u = f
      BY <3>1
    <3>2. CASE u # f
      BY <2>4, <3>2 DEF Matched
    <3>. QED  BY <3>1, <3>2
  <2>. QED  BY <2>1, <2>2, <2>3, <2>4 DEF Matched
<1>8. client[f] = NoClient
  BY <1>1 DEF Callers, Caller
<1>9. Callers'
  <2>1. \A u \in Tags : Op(u, "request") \in ops' => Op(u, "request") \in ops \/ u = f
    BY <1>1 DEF Op
  <2>2. ASSUME NEW u \in Tags PROVE Caller(u)'
    <3>1. CASE u = f
      BY <1>1, <1>2, <1>3, <1>8, <3>1 DEF Caller, NoClient
    <3>2. CASE u # f
      BY <1>1, <1>2, <2>1, <3>2 DEF Callers, Caller, Acceptor
    <3>. QED  BY <3>1, <3>2
  <2>. QED  BY <1>1, <2>2 DEF Callers
<1>10. Streams'
  <2>1. ASSUME NEW u \in Tags PROVE Stream(u)'
    <3>1. CASE u = f
      BY <1>2, <1>3, <3>1 DEF Stream
    <3>2. CASE u # f
      BY <1>1, <1>2, <3>2 DEF Streams, Stream, Op
    <3>. QED  BY <3>1, <3>2
  <2>. QED  BY <2>1 DEF Streams
<1>11. OwnConfiguration'
  BY <1>1, <1>2, <1>3 DEF OwnConfiguration, EmptyConfig, ForeignConfig
<1>. QED  BY <1>5, <1>6, <1>7, <1>9, <1>10, <1>11

LEMMA RestInv ==
  ASSUME Shapes, Matched, Opening, Accepting, Callers, Streams, OwnConfiguration,
         \/ StartUnready \/ WriteRow \/ Outage \/ Recover \/ PoolCloses \/ Stop
         \/ UNCHANGED vars
  PROVE  /\ Shapes' /\ Matched' /\ Opening' /\ Accepting' /\ Callers' /\ Streams'
         /\ OwnConfiguration'
<1>1. /\ tag' = tag /\ ops' = ops /\ cq' = cq /\ client' = client
      /\ pool_open' => pool_open
      /\ service' # service =>
           /\ service # "crashed"
           /\ service' \in {"serving", "stopping", "draining", "closing", "stopped"}
           /\ service' = "serving" => service \in {"new", "starting"} /\ ~pool_open'
           /\ service' = "stopping" => service = "serving"
  BY DEF StartUnready, WriteRow, Outage, Recover, PoolCloses, Stop, DestroyHandler,
         ShutdownServer, ShutdownQueue, JoinPoller, vars, server, store
<1>2. Shapes' /\ Streams' /\ Callers' /\ OwnConfiguration'
  BY <1>1 DEF Shapes, Streams, Stream, Callers, Caller, OwnConfiguration, Acceptor
<1>3. Matched'
  BY <1>1 DEF Matched
<1>4. Opening' /\ Accepting'
  BY <1>1, FreeType DEF Opening, Accepting, Acceptor
<1>. QED  BY <1>2, <1>3, <1>4

----------------------------------------------------------------------------
(* The poller's steps                                                      *)

(* What a step of Proceed(t) may change: the tag itself and, when a        *)
(* subscriber is accepted, one free tag.                                   *)
LEMMA ProceedFrame ==
  ASSUME TypeOK, Matched, Shapes, NEW t \in Tags, Proceed(t)
  PROVE  /\ service # "crashed" /\ tag[t].kind # "free"
         /\ cq' \subseteq cq
         /\ service' \in {service, "crashed"}
         /\ UNCHANGED store
         /\ ~Accept(t) => \A u \in Tags \ {t} : tag'[u] = tag[u]
         /\ \A u \in Tags : client'[u] # client[u] =>
              u = t /\ client'[t] = NoClient /\ tag'[t].kind # "subscribe"
<1>1. service # "crashed" /\ cq' \subseteq cq /\ UNCHANGED store
      /\ service' \in {service, "crashed"}
  <2>. USE DEF Take, Polling
  <2>1. CASE GetDropped(t) \/ GetProcess(t) \/ GetRespawn(t) \/ GetUnready(t)
    BY <2>1 DEF GetDropped, GetProcess, GetRespawn, GetUnready
  <2>2. CASE Accept(t)
    BY <2>2 DEF Accept
  <2>3. CASE AcceptUnready(t) \/ Poll(t) \/ Written(t) \/ CancelStream(t)
    BY <2>3 DEF AcceptUnready, Poll, Written, CancelStream
  <2>4. CASE CancelAcceptor(t) \/ StreamLeaks(t) \/ StreamDeleted(t) \/ UseAfterDestroy(t)
    BY <2>4 DEF CancelAcceptor, StreamLeaks, StreamDeleted, UseAfterDestroy, store
  <2>. QED  BY <2>1, <2>2, <2>3, <2>4 DEF Proceed
<1>2. tag[t].kind # "free"
  <2>1. CASE UseAfterDestroy(t)
    BY <2>1 DEF UseAfterDestroy, Shapes, Shaped, Free
  <2>2. CASE ~UseAfterDestroy(t)
    BY <2>2 DEF Proceed, GetDropped, GetProcess, GetRespawn, GetUnready, Accept,
                AcceptUnready, Poll, Written, CancelStream, CancelAcceptor, StreamLeaks,
                StreamDeleted
  <2>. QED  BY <2>1, <2>2
<1>3. ~Accept(t) => \A u \in Tags \ {t} : tag'[u] = tag[u]
  BY DEF TypeOK, Proceed, GetDropped, GetProcess, GetRespawn, GetUnready, AcceptUnready,
         Poll, Written, CancelStream, CancelAcceptor, StreamLeaks, StreamDeleted,
         UseAfterDestroy
<1>4. CASE GetDropped(t) \/ GetRespawn(t) \/ GetUnready(t) \/ StreamDeleted(t)
  <2>1. client' = [client EXCEPT ![t] = NoClient] /\ tag'[t] \in {Free, GetTag}
    BY <1>4 DEF GetDropped, GetRespawn, GetUnready, StreamDeleted, TypeOK
  <2>. QED  BY <1>1, <1>2, <1>3, <2>1, FreeType DEF TypeOK
<1>5. CASE ~(GetDropped(t) \/ GetRespawn(t) \/ GetUnready(t) \/ StreamDeleted(t))
  <2>1. client' = client
    BY <1>5 DEF Proceed, GetProcess, Accept, AcceptUnready, Poll, Written, CancelStream,
                CancelAcceptor, StreamLeaks, UseAfterDestroy
  <2>. QED  BY <1>1, <1>2, <1>3, <2>1
<1>. QED  BY <1>4, <1>5

(* While nothing has shut the server down, the acceptor's event is a call. *)
LEMMA AcceptorEvent ==
  ASSUME TypeOK, Matched, Opening, NEW t \in Tags, Acceptor(t), NEW ok \in BOOLEAN,
         NEW next, Take(t, ok, next), service # "crashed"
  PROVE  Awaits(tag[t]) = "request" /\ (service \in {"starting", "serving"} => ok)
<1>1. Event(t, Awaits(tag[t]), ok) \in cq
      /\ Awaits(tag[t]) \in {"request", "alarm", "write", "finish"}
  BY Taken DEF Take
<1>2. Awaits(tag[t]) = "request"
  BY <1>1 DEF Awaits, Acceptor
<1>3. service \in {"starting", "serving"} => Event(t, "request", ok).ok
  BY <1>1, <1>2 DEF Opening, Event
<1>. QED  BY <1>2, <1>3 DEF Event

LEMMA ProceedAccepting ==
  ASSUME TypeOK, Shapes, Matched, Opening, Accepting, NEW t \in Tags, Proceed(t), TypeOK'
  PROVE  Accepting'
<1>. SUFFICES ASSUME service \in {"starting", "serving"} PROVE Accepting'
  BY ProceedFrame DEF Accepting
<1>0. /\ tag \in [Tags -> TagType] /\ tag' \in [Tags -> TagType]
      /\ service' \in {service, "crashed"} /\ pool_open' = pool_open
      /\ tag[t].kind = "subscribe" => service = "serving"
  BY ProceedFrame DEF TypeOK, store, Accepting
<1>1. ASSUME \A u \in Tags : Acceptor(u)' <=> Acceptor(u),
             \A u \in Tags : tag'[u].kind = "get" => tag[u].kind = "get",
             \A u \in Tags : tag'[u].kind = "subscribe" => tag[u].kind = "subscribe"
      PROVE  Accepting'
  BY <1>0, <1>1 DEF Accepting
<1>2. CASE GetDropped(t) \/ GetRespawn(t) \/ GetUnready(t)
  <2>1. /\ tag'[t] \in {Free, GetTag} /\ tag[t].kind = "get"
        /\ \A u \in Tags \ {t} : tag'[u] = tag[u]
    BY <1>0, <1>2 DEF GetDropped, GetRespawn, GetUnready
  <2>. QED  BY <1>1, <2>1, FreeType DEF Acceptor
<1>3. CASE Accept(t)
  <2>. DEFINE f == FreeTag
  <2>1. /\ f \in Tags /\ f # t /\ tag[f].kind = "free" /\ Acceptor(t)
        /\ tag'[t] = Polled(Accepted(t)) /\ tag'[f] = SubscribeTag
        /\ \A u \in Tags \ {t, f} : tag'[u] = tag[u]
    BY <1>0, <1>3, AcceptShape
  <2>2. tag'[t].kind = "subscribe" /\ tag'[t].accepted
    BY <1>3, <2>1, AcceptShape, AcceptedShape, PolledShape DEF TypeOK
  <2>. HIDE DEF f
  <2>3. \A u \in Tags : Acceptor(u)' <=> u = f
    BY <2>1, <2>2, FreshShape, FreeType DEF Acceptor, Accepting
  <2>4. service = "serving" /\ \A u \in Tags : tag'[u].kind = "get" => tag[u].kind = "get"
    BY <1>0, <2>1, <2>2, FreeType DEF Acceptor
  <2>. QED  BY <1>0, <2>1, <2>3, <2>4 DEF Accepting
<1>11. CASE AcceptUnready(t)
  <2>1. /\ Acceptor(t) /\ ~pool_open /\ tag' = [tag EXCEPT ![t] = Polled(Accepted(t))]
    BY <1>11, AcceptUnreadyShape
  <2>2. tag'[t].kind = "subscribe" /\ tag'[t].accepted
        /\ \A u \in Tags \ {t} : tag'[u] = tag[u]
    BY <1>0, <1>11, <2>1, AcceptUnreadyShape, AcceptedShape, PolledShape DEF TypeOK
  <2>3. /\ service = "serving"
        /\ \A u \in Tags : Acceptor(u)' => Acceptor(u)
        /\ \A u \in Tags : tag'[u].kind = "get" => tag[u].kind = "get"
    BY <1>0, <2>1, <2>2 DEF Acceptor
  <2>. QED  BY <1>0, <2>1, <2>3 DEF Accepting
<1>4. CASE GetProcess(t)
  BY <1>0, <1>1, <1>4 DEF GetProcess, Acceptor, TagType
<1>5. CASE Poll(t)
  <2>1. /\ tag'[t].kind = "subscribe" /\ tag'[t].accepted /\ Acceptor(t) = FALSE
        /\ \A u \in Tags \ {t} : tag'[u] = tag[u]
    BY <1>0, <1>5, PolledShape DEF Poll, Shapes, TypeOK, Acceptor
  <2>2. tag[t].kind = "subscribe"
    BY <1>5 DEF Poll
  <2>. QED  BY <1>1, <2>1, <2>2 DEF Acceptor
<1>6. CASE Written(t)
  BY <1>0, <1>1, <1>6 DEF Written, Acceptor, TagType
<1>7. CASE CancelStream(t)
  BY <1>0, <1>1, <1>7 DEF CancelStream, Acceptor, TagType
<1>8. CASE CancelAcceptor(t)
  BY <1>0, <1>8, AcceptorEvent DEF CancelAcceptor, Acceptor
<1>9. CASE StreamLeaks(t) \/ UseAfterDestroy(t)
  BY <1>1, <1>9 DEF StreamLeaks, UseAfterDestroy, Acceptor
<1>10. CASE StreamDeleted(t)
  <2>1. ~Acceptor(t)
    <3>. SUFFICES ASSUME Acceptor(t) PROVE FALSE
      OBVIOUS
    <3>1. Awaits(tag[t]) = "request"
      BY <1>10, AcceptorEvent DEF StreamDeleted
    <3>. QED  BY <1>10, <3>1 DEF StreamDeleted, Shapes, Shaped, Awaits, Acceptor
  <2>2. tag'[t] = Free /\ \A u \in Tags \ {t} : tag'[u] = tag[u]
    BY <1>0, <1>10 DEF StreamDeleted
  <2>. QED  BY <1>1, <2>1, <2>2, FreeType DEF Acceptor
<1>. QED  BY <1>2, <1>3, <1>4, <1>5, <1>6, <1>7, <1>8, <1>9, <1>10, <1>11 DEF Proceed

LEMMA ProceedOpening ==
  ASSUME TypeOK, Shapes, Matched, Opening, NEW t \in Tags, Proceed(t)
  PROVE  Opening'
<1>1. service # "new"
  BY DEF Proceed, GetDropped, GetProcess, GetRespawn, GetUnready, Accept, AcceptUnready,
         Poll, Written, CancelStream, CancelAcceptor, StreamLeaks, StreamDeleted,
         UseAfterDestroy, Take, Polling
<1>2. cq' \subseteq cq /\ service' \in {service, "crashed"}
  BY ProceedFrame
<1>. QED  BY <1>1, <1>2 DEF Opening

(* Which operations there are after a step of the poller. *)
LEMMA ProceedOps ==
  ASSUME TypeOK, Shapes, Matched, NEW t \in Tags, Proceed(t), NEW o \in ops'
  PROVE  \/ o \in ops /\ o.tag # t
         \/ /\ o.tag = t
            /\ o.op = "request" => GetRespawn(t)
            /\ o.op = "write" => Accept(t) \/ AcceptUnready(t) \/ Poll(t)
         \/ Accept(t) /\ o.tag = FreeTag
<1>1. ASSUME NEW ok \in BOOLEAN, NEW next, Take(t, ok, next)
      PROVE  (o \in ops /\ o.tag # t) \/ (o.tag = t /\ o.op \in next)
  <2>1. service # "crashed" /\ ops' = ops \cup {Op(t, name) : name \in next}
    BY <1>1 DEF Take, Polling
  <2>2. \A p \in ops : p.tag # t
    BY <1>1, <2>1, Taken DEF Take
  <2>. QED  BY <2>1, <2>2 DEF Op
<1>2. ASSUME NEW ok \in BOOLEAN, NEW next \in SUBSET {"finish", "alarm"}, Take(t, ok, next)
      PROVE  \/ o \in ops /\ o.tag # t
             \/ o.tag = t /\ o.op # "request" /\ o.op # "write"
  <2>1. (o \in ops /\ o.tag # t) \/ (o.tag = t /\ o.op \in next)
    BY <1>1, <1>2
  <2>. QED  BY <2>1
<1>3. CASE GetRespawn(t)
  <2>1. Take(t, TRUE, {"request"})
    BY <1>3 DEF GetRespawn
  <2>2. (o \in ops /\ o.tag # t) \/ (o.tag = t /\ o.op \in {"request"})
    BY <1>1, <2>1, Zenon
  <2>. QED  BY <1>3, <2>2
<1>4. CASE Accept(t)
  <2>1. service # "crashed" /\ \E e \in cq : e.tag = t /\ e.ok = TRUE /\ cq' = cq \ {e}
    BY <1>4 DEF Accept, Polling, TypeOK
  <2>2. \A p \in ops : p.tag # t
    BY <2>1, Taken
  <2>3. AfterPoll(Accepted(t)) \in SUBSET {"alarm", "write"}
    BY DEF AfterPoll
  <2>4. ops' = ops \cup {Op(FreeTag, "request")}
                  \cup {Op(t, name) : name \in AfterPoll(Accepted(t))}
    BY <1>4, AcceptShape
  <2>5. CASE o = Op(FreeTag, "request")
    BY <1>4, <2>5 DEF Op
  <2>6. ASSUME NEW name \in {"alarm", "write"}, o = Op(t, name)
        PROVE  o.tag = t /\ o.op # "request"
    BY <2>6 DEF Op
  <2>. QED  BY <1>4, <2>2, <2>3, <2>4, <2>5, <2>6
<1>5. CASE Poll(t)
  <2>1. AfterPoll(tag[t]) \in SUBSET {"alarm", "write"}
    BY DEF AfterPoll
  <2>2. Take(t, TRUE, AfterPoll(tag[t]))
    BY <1>5 DEF Poll
  <2>. QED  BY <1>1, <1>5, <2>1, <2>2
<1>9. CASE AcceptUnready(t)
  <2>1. AfterPoll(Accepted(t)) \in SUBSET {"alarm", "write"}
    BY DEF AfterPoll
  <2>2. Take(t, TRUE, AfterPoll(Accepted(t)))
    BY <1>9, AcceptUnreadyShape
  <2>. QED  BY <1>1, <1>9, <2>1, <2>2
<1>6. CASE Written(t)
  <2>1. Take(t, TRUE, {"alarm"})
    BY <1>6 DEF Written
  <2>. QED  BY <1>2, <2>1
<1>7. CASE GetProcess(t) \/ CancelStream(t)
  <2>1. \E ok \in BOOLEAN : Take(t, ok, {"finish"})
    BY <1>7 DEF GetProcess, CancelStream
  <2>. QED  BY <1>2, <2>1
<1>8. CASE \/ GetDropped(t) \/ GetUnready(t) \/ CancelAcceptor(t) \/ StreamLeaks(t)
           \/ StreamDeleted(t) \/ UseAfterDestroy(t)
  <2>1. \E ok \in BOOLEAN : Take(t, ok, {})
    BY <1>8 DEF GetDropped, GetUnready, CancelAcceptor, StreamLeaks, StreamDeleted,
                UseAfterDestroy
  <2>. QED  BY <1>2, <2>1
<1>. QED  BY <1>3, <1>4, <1>5, <1>6, <1>7, <1>8, <1>9 DEF Proceed

LEMMA ProceedCallers ==
  ASSUME TypeOK, Shapes, Matched, Callers, NEW t \in Tags, Proceed(t), TypeOK'
  PROVE  Callers'
<1>0. tag \in [Tags -> TagType] /\ tag' \in [Tags -> TagType]
  BY DEF TypeOK
<1>1. /\ cq' \subseteq cq
      /\ \A u \in Tags : client'[u] # client[u] =>
           u = t /\ client'[t] = NoClient /\ tag'[t].kind # "subscribe"
  BY ProceedFrame
<1>2. \A u \in Tags : client'[u].state = "none" => client'[u] = NoClient
  BY <1>1 DEF Callers, Caller
<1>3. \A e \in cq' : ~e.ok => client'[e.tag].state # "connected"
  BY <1>1 DEF Callers, Caller, TypeOK, NoClient
<1>4. ASSUME NEW u \in Tags, u # t
      PROVE  /\ tag'[u].kind = "free" \/ Op(u, "request") \in ops' => client'[u].state = "none"
             /\ tag'[u].kind = "subscribe" /\ tag'[u].finished =>
                  client'[u].state # "connected"
             /\ Acceptor(u)' => client'[u].got = EmptyConfig
  <2>1. /\ client'[u] = client[u]
        /\ tag'[u] = tag[u] \/ (tag[u].kind = "free" /\ tag'[u] = SubscribeTag)
    <3>1. client'[u] = client[u]
      BY <1>1, <1>4
    <3>2. CASE Accept(t)
      BY <1>0, <1>4, <3>1, <3>2, AcceptShape
    <3>3. CASE ~Accept(t)
      BY <1>4, <3>1, <3>3, ProceedFrame
    <3>. QED  BY <3>2, <3>3
  <2>2. Op(u, "request") \in ops' => Op(u, "request") \in ops \/ tag[u].kind = "free"
    <3>. SUFFICES ASSUME Op(u, "request") \in ops'
                  PROVE  Op(u, "request") \in ops \/ tag[u].kind = "free"
      OBVIOUS
    <3>1. Op(u, "request").tag = u
      BY DEF Op
    <3>2. Op(u, "request") \in ops \/ (Accept(t) /\ u = FreeTag)
      BY <1>4, <3>1, ProceedOps
    <3>. QED  BY <3>2, AcceptShape
  <2>3. tag[u].kind = "free" => client[u] = NoClient
    BY DEF Callers, Caller
  <2>. QED  BY <2>1, <2>2, <2>3, FreshShape, FreeType DEF Callers, Caller, Acceptor, NoClient
<1>5. /\ tag'[t].kind = "free" \/ Op(t, "request") \in ops' => client'[t].state = "none"
      /\ tag'[t].kind = "subscribe" /\ tag'[t].finished => client'[t].state # "connected"
      /\ Acceptor(t)' => client'[t].got = EmptyConfig
  <2>1. CASE GetDropped(t) \/ GetRespawn(t) \/ GetUnready(t) \/ StreamDeleted(t)
    <3>1. client'[t] = NoClient /\ tag'[t] \in {Free, GetTag}
      BY <1>0, <2>1 DEF GetDropped, GetRespawn, GetUnready, StreamDeleted, TypeOK
    <3>. QED  BY <3>1, FreeType DEF NoClient, Acceptor
  <2>2. CASE ~(GetDropped(t) \/ GetRespawn(t) \/ GetUnready(t) \/ StreamDeleted(t))
    <3>2. client'[t] = client[t] /\ Op(t, "request") \notin ops'
      <4>1. client' = client
        BY <2>2 DEF Proceed, GetProcess, Accept, AcceptUnready, Poll, Written,
               CancelStream, CancelAcceptor, StreamLeaks, UseAfterDestroy
      <4>2. Op(t, "request").tag = t /\ Op(t, "request").op = "request"
        BY DEF Op
      <4>3. Accept(t) => FreeTag # t
        BY AcceptShape
      <4>. QED  BY <2>2, <4>1, <4>2, <4>3, ProceedOps
    <3>3. CASE Accept(t)
      BY <1>0, <3>2, <3>3, AcceptShape, AcceptedShape, PolledShape DEF Acceptor, TypeOK
    <3>8. CASE AcceptUnready(t)
      <4>1. tag'[t] = Polled(Accepted(t))
        BY <1>0, <3>8, AcceptUnreadyShape
      <4>2. tag'[t].kind = "subscribe" /\ tag'[t].accepted /\ ~tag'[t].finished
        <5>1. Acceptor(t) /\ tag[t].status = "accept" /\ row \in 0..MaxVersion
          BY <3>8, AcceptUnreadyShape DEF TypeOK
        <5>2. /\ Accepted(t) \in TagType /\ Shaped(Accepted(t)) /\ Accepted(t).accepted
              /\ Accepted(t).kind = "subscribe" /\ Accepted(t).status = "accept"
          BY <5>1, AcceptedShape
        <5>. QED  BY <4>1, <5>1, <5>2, PolledShape
      <4>. QED  BY <3>2, <4>2 DEF Acceptor
    <3>4. CASE Poll(t)
      BY <1>0, <3>2, <3>4, PolledShape DEF Poll, Shapes, TypeOK, Acceptor
    <3>5. CASE GetProcess(t) \/ Written(t)
      <4>1. tag'[t].kind = tag[t].kind /\ tag'[t].finished = tag[t].finished
            /\ tag'[t].accepted = tag[t].accepted
        <5>1. CASE GetProcess(t)
          BY <1>0, <5>1 DEF GetProcess, TagType
        <5>2. CASE Written(t)
          BY <1>0, <5>2 DEF Written, TagType
        <5>. QED  BY <3>5, <5>1, <5>2
      <4>2. tag[t].kind # "free"
        BY <3>5 DEF GetProcess, Written
      <4>. QED  BY <3>2, <4>1, <4>2 DEF Callers, Caller, Acceptor
    <3>6. CASE CancelStream(t) \/ CancelAcceptor(t)
      <4>1. \E e \in cq : e.tag = t /\ e.ok = FALSE
        BY <3>6 DEF CancelStream, CancelAcceptor, Take
      <4>2. client[t].state # "connected"
        BY <4>1 DEF Callers, Caller
      <4>3. /\ tag'[t].kind = "subscribe" /\ tag[t].kind = "subscribe"
            /\ tag'[t].accepted = tag[t].accepted
        <5>1. tag[t].kind = "subscribe"
              /\ tag' = [tag EXCEPT ![t].finished = TRUE, ![t].status = "finish"]
          BY <3>6 DEF CancelStream, CancelAcceptor
        <5>. QED  BY <1>0, <5>1 DEF TagType
      <4>. QED  BY <3>2, <4>2, <4>3 DEF Callers, Caller, Acceptor
    <3>7. CASE StreamLeaks(t) \/ UseAfterDestroy(t)
      <4>1. tag' = tag /\ tag[t].kind # "free"
        BY <3>7, ProceedFrame DEF StreamLeaks, UseAfterDestroy
      <4>. QED  BY <3>2, <4>1 DEF Callers, Caller, Acceptor
    <3>. QED  BY <2>2, <3>3, <3>4, <3>5, <3>6, <3>7, <3>8 DEF Proceed
  <2>. QED  BY <2>1, <2>2
<1>. QED  BY <1>2, <1>3, <1>4, <1>5 DEF Callers, Caller

----------------------------------------------------------------------------
(* The steps of gRPC and the callers                                       *)

(* The tag whose operation completes. *)
LEMMA AwaitsWhat ==
  ASSUME TypeOK, Shapes, NEW t \in Tags
  PROVE  /\ Awaits(tag[t]) # "nothing" => tag[t].kind # "free"
         /\ Awaits(tag[t]) \in {"request", "write"} /\ tag[t].kind = "subscribe" =>
              ~tag[t].finished
         /\ Awaits(tag[t]) = "request" => ~tag[t].accepted
         /\ Awaits(tag[t]) = "write" =>
              tag[t].kind = "subscribe" /\ tag[t].accepted /\ tag[t].writing
         /\ Awaits(tag[t]) = "finish" /\ tag[t].kind = "subscribe" =>
              tag[t].finished /\ tag[t].accepted
BY DEF TypeOK, TagType, Shapes, Shaped, Awaits, Free

(* It is enough to look at the tag whose operation completes. *)
LEMMA CompleteInv ==
  ASSUME TypeOK, Shapes, Matched, Opening, Accepting, Callers, Streams, OwnConfiguration,
         NEW t \in Tags, NEW name, NEW ok \in BOOLEAN, Complete(t, name, ok),
         name = "request" /\ ~ok => service \notin {"new", "starting", "serving", "stopping"},
         ~ok => client'[t].state # "connected",
         \A u \in Tags \ {t} : client'[u] = client[u], pool_open' = pool_open,
         Caller(t)', Stream(t)', client'[t].got # ForeignConfig
  PROVE  /\ Shapes' /\ Opening' /\ Accepting' /\ Callers' /\ Streams' /\ OwnConfiguration'
<1>1. /\ service' = service /\ tag' = tag /\ Op(t, name) \in ops
      /\ ops' \subseteq ops /\ cq' = cq \cup {Event(t, name, ok)}
      /\ \A e \in cq : e.tag # t
  BY CompleteMatched DEF Complete
<1>2. Event(t, name, ok).tag = t /\ Event(t, name, ok).op = name
      /\ Event(t, name, ok).ok = ok
  BY DEF Event
<1>3. Shapes' /\ Accepting' /\ OwnConfiguration'
  BY <1>1 DEF Shapes, Accepting, Acceptor, OwnConfiguration
<1>4. Opening'
  BY <1>1, <1>2 DEF Opening
<1>5. ASSUME NEW u \in Tags PROVE Caller(u)' /\ Stream(u)'
  <2>1. CASE u = t
    BY <2>1
  <2>2. CASE u # t
    BY <1>1, <2>2 DEF Callers, Streams, Caller, Stream, Acceptor
  <2>. QED  BY <2>1, <2>2
<1>6. \A e \in cq' : ~e.ok => client'[e.tag].state # "connected"
  BY <1>1, <1>2 DEF Callers, Caller, TypeOK
<1>. QED  BY <1>3, <1>4, <1>5, <1>6 DEF Callers, Streams, Caller, Stream

LEMMA GrpcStepInv ==
  ASSUME TypeOK, Shapes, Matched, Opening, Accepting, Callers, Streams, OwnConfiguration,
         NEW t \in Tags, GrpcStep(t)
  PROVE  /\ Shapes' /\ Opening' /\ Accepting' /\ Callers' /\ Streams' /\ OwnConfiguration'
<1>0. /\ client \in [Tags -> [state : {"none", "connected", "gone", "closed"},
                            asked : Asked \cup {0}, got : ForeignConfig..MaxVersion]]
      /\ Caller(t) /\ Stream(t) /\ client[t].got # ForeignConfig
      /\ tag[t].outgoing # ForeignConfig
  BY DEF TypeOK, Callers, Streams, OwnConfiguration, Caller, Stream
<1>8. pool_open' = pool_open
  BY DEF GrpcStep, Arrive, RequestFails, AlarmFires, WriteCompletes, FinishCompletes,
         Disconnect, store
<1>1. ASSUME NEW name, NEW ok \in BOOLEAN, Complete(t, name, ok)
      PROVE  /\ tag' = tag /\ name = Awaits(tag[t]) /\ Op(t, name) \in ops
             /\ Op(t, "request") \notin ops' /\ Op(t, "write") \notin ops'
  BY <1>1, CompleteMatched DEF Complete, Op
<1>2. ASSUME NEW asked \in Asked, Arrive(t, asked)
      PROVE  /\ Shapes' /\ Opening' /\ Accepting' /\ Callers' /\ Streams'
             /\ OwnConfiguration'
  <2>1. Complete(t, "request", TRUE)
    BY <1>2 DEF Arrive
  <2>2. /\ client'[t] = [state |-> "connected", asked |-> asked, got |-> EmptyConfig]
        /\ \A u \in Tags \ {t} : client'[u] = client[u]
    BY <1>0, <1>2 DEF Arrive
  <2>3. /\ tag' = tag /\ tag[t].kind # "free" /\ ~tag[t].accepted
        /\ tag[t].kind = "subscribe" => ~tag[t].finished
        /\ Op(t, "request") \notin ops'
    <3>1. tag' = tag /\ Awaits(tag[t]) = "request" /\ Op(t, "request") \notin ops'
      BY <1>1, <2>1
    <3>. QED  BY <3>1, AwaitsWhat
  <2>4. client'[t].state = "connected" /\ client'[t].got = EmptyConfig
    BY <2>2
  <2>5. Caller(t)'
    BY <2>3, <2>4 DEF Caller, Acceptor
  <2>6. Stream(t)'
    BY <2>3 DEF Stream
  <2>7. client'[t].got # ForeignConfig
    BY <2>4 DEF EmptyConfig, ForeignConfig
  <2>. QED  BY <2>1, <2>2, <2>5, <2>6, <2>7, <1>8, CompleteInv
<1>3. CASE RequestFails(t)
  <2>1. Complete(t, "request", FALSE) /\ client' = client /\ service \in {"draining", "closing"}
    BY <1>3 DEF RequestFails
  <2>2. client[t].state = "none"
    BY <1>0, <1>1, <2>1 DEF Caller
  <2>3. Caller(t)' /\ Stream(t)'
    BY <1>0, <1>1, <2>1 DEF Caller, Stream, Acceptor
  <2>. QED  BY <1>0, <2>1, <2>2, <2>3, <1>8, CompleteInv
<1>4. CASE AlarmFires(t)
  <2>1. Complete(t, "alarm", TRUE) /\ client' = client
    BY <1>4 DEF AlarmFires
  <2>2. Caller(t)' /\ Stream(t)'
    BY <1>0, <1>1, <2>1 DEF Caller, Stream, Acceptor
  <2>. QED  BY <1>0, <2>1, <2>2, <1>8, CompleteInv
<1>5. ASSUME NEW ok \in BOOLEAN, WriteCompletes(t, ok)
      PROVE  /\ Shapes' /\ Opening' /\ Accepting' /\ Callers' /\ Streams'
             /\ OwnConfiguration'
  <2>1. Complete(t, "write", ok) /\ (client[t].state = "connected" => ok)
    BY <1>5 DEF WriteCompletes
  <2>2. /\ client'[t].state = client[t].state /\ client'[t].asked = client[t].asked
        /\ client'[t].got \in {client[t].got, tag[t].outgoing}
        /\ client[t].state = "none" => client'[t] = client[t]
        /\ \A u \in Tags \ {t} : client'[u] = client[u]
    BY <1>0, <1>5 DEF WriteCompletes
  <2>3. Awaits(tag[t]) = "write" /\ tag' = tag /\ Op(t, "request") \notin ops'
        /\ Op(t, "write") \notin ops'
    BY <1>1, <2>1
  <2>4. tag[t].kind = "subscribe" /\ tag[t].accepted /\ tag[t].writing /\ ~tag[t].finished
    BY <2>3, AwaitsWhat
  <2>5. Caller(t)'
    BY <1>0, <2>2, <2>3, <2>4 DEF Caller, Acceptor
  <2>6. Stream(t)'
    BY <1>0, <2>2, <2>3, <2>4 DEF Stream
  <2>. QED  BY <1>0, <2>1, <2>2, <2>5, <2>6, <1>8, CompleteInv
<1>6. ASSUME NEW ok \in BOOLEAN, FinishCompletes(t, ok)
      PROVE  /\ Shapes' /\ Opening' /\ Accepting' /\ Callers' /\ Streams'
             /\ OwnConfiguration'
  <2>1. Complete(t, "finish", ok) /\ (client[t].state = "connected" => ok)
    BY <1>6 DEF FinishCompletes
  <2>2. /\ client'[t].state = "closed" /\ client'[t].asked = client[t].asked
        /\ client'[t].got \in {client[t].got, tag[t].outgoing}
        /\ client[t].state # "connected" => client'[t].got = client[t].got
        /\ \A u \in Tags \ {t} : client'[u] = client[u]
    BY <1>0, <1>6 DEF FinishCompletes
  <2>3. Awaits(tag[t]) = "finish" /\ tag' = tag /\ Op(t, "request") \notin ops'
        /\ Op(t, "write") \notin ops'
    BY <1>1, <2>1
  <2>4. tag[t].kind # "free"
        /\ (tag[t].kind = "subscribe" => tag[t].finished /\ tag[t].accepted)
    BY <2>3, AwaitsWhat
  <2>5. tag[t].kind = "subscribe" => client[t].state # "connected"
    BY <1>0, <2>4 DEF Caller
  <2>6. Caller(t)'
    BY <2>2, <2>3, <2>4 DEF Caller, Acceptor
  <2>7. Stream(t)'
    BY <1>0, <2>2, <2>3, <2>4, <2>5 DEF Stream
  <2>. QED  BY <1>0, <2>1, <2>2, <2>6, <2>7, <1>8, CompleteInv
<1>7. CASE Disconnect(t)
  <2>1. /\ client[t].state = "connected" /\ client'[t].state = "gone"
        /\ client'[t].asked = client[t].asked /\ client'[t].got = client[t].got
        /\ \A u \in Tags \ {t} : client'[u] = client[u]
        /\ service' = service /\ tag' = tag /\ ops' = ops /\ cq' = cq
    BY <1>0, <1>7 DEF Disconnect, server
  <2>2. Shapes' /\ Opening' /\ Accepting'
    BY <1>8, <2>1 DEF Shapes, Opening, Accepting, Acceptor
  <2>3. Streams' /\ OwnConfiguration'
    BY <2>1 DEF Streams, Stream, OwnConfiguration
  <2>4. ASSUME NEW u \in Tags PROVE Caller(u)'
    BY <1>0, <2>1 DEF Callers, Caller, Acceptor
  <2>5. \A e \in cq' : ~e.ok => client'[e.tag].state # "connected"
    BY <2>1 DEF Callers, Caller, TypeOK
  <2>. QED  BY <2>2, <2>3, <2>4, <2>5 DEF Callers, Caller
<1>. QED  BY <1>2, <1>3, <1>4, <1>5, <1>6, <1>7 DEF GrpcStep

----------------------------------------------------------------------------
(* What streams have and what callers are given                            *)

(* What PollAndMaybeWrite sends is newer than what the stream has. *)
LEMMA PolledNewer ==
  ASSUME NEW s \in TagType, ~s.writing
  PROVE  /\ Polled(s).since = s.since
         /\ Polled(s).writing => Version(Polled(s).outgoing) > s.since
BY DEF Polled, Newer, TagType

LEMMA ProceedStreams ==
  ASSUME TypeOK, Shapes, Matched, Callers, Streams, NEW t \in Tags, Proceed(t), TypeOK'
  PROVE  Streams'
<1>0. /\ tag \in [Tags -> TagType] /\ tag' \in [Tags -> TagType] /\ row \in 0..MaxVersion
      /\ client \in [Tags -> [state : {"none", "connected", "gone", "closed"},
                            asked : Asked \cup {0}, got : ForeignConfig..MaxVersion]]
  BY DEF TypeOK
<1>1. ASSUME NEW u \in Tags, u # t PROVE Stream(u)'
  <2>1. client'[u] = client[u]
    BY <1>1, ProceedFrame
  <2>2. tag'[u] = tag[u] \/ tag'[u] = SubscribeTag
    <3>1. CASE Accept(t)
      BY <1>0, <1>1, <3>1, AcceptShape
    <3>2. CASE ~Accept(t)
      BY <1>1, <3>2, ProceedFrame
    <3>. QED  BY <3>1, <3>2
  <2>3. Op(u, "write") \in ops' => Op(u, "write") \in ops \/ tag'[u] = SubscribeTag
    <3>1. Op(u, "write").tag = u
      BY DEF Op
    <3>2. Op(u, "write") \in ops' => Op(u, "write") \in ops \/ (Accept(t) /\ u = FreeTag)
      BY <1>1, <3>1, ProceedOps
    <3>. QED  BY <1>0, <1>1, <3>2, AcceptShape
  <2>. QED  BY <2>1, <2>2, <2>3, FreshShape DEF Streams, Stream
<1>2. Stream(t)'
  <2>0. Stream(t) /\ Caller(t) /\ Version(client[t].got) \in Int /\ client[t].asked \in Int
    <3>1. Stream(t) /\ Caller(t)
      BY DEF Streams, Callers
    <3>2. client[t].got \in ForeignConfig..MaxVersion /\ client[t].asked \in Asked \cup {0}
      BY <1>0
    <3>3. client[t].asked \in Nat
      BY <3>2, AskedType
    <3>. QED  BY <3>1, <3>2, <3>3, VersionType
  <2>1. CASE Accept(t) \/ AcceptUnready(t)
    <3>0. Acceptor(t) /\ tag[t].status = "accept" /\ client' = client
      BY <2>1, AcceptShape, AcceptUnreadyShape DEF Accept, AcceptUnready
    <3>1. /\ tag'[t] = Polled(Accepted(t)) /\ client' = client
          /\ client[t].got = EmptyConfig
      <4>1. CASE Accept(t)
        BY <1>0, <2>0, <3>0, <4>1, AcceptShape DEF Caller
      <4>2. CASE AcceptUnready(t)
        <5>1. tag' = [tag EXCEPT ![t] = Polled(Accepted(t))]
          BY <4>2, AcceptUnreadyShape
        <5>. QED  BY <1>0, <2>0, <3>0, <5>1 DEF Caller
      <4>. QED  BY <2>1, <4>1, <4>2
    <3>2. /\ Polled(Accepted(t)).since = client[t].asked
          /\ Polled(Accepted(t)).writing =>
               Version(Polled(Accepted(t)).outgoing) > client[t].asked
      <4>1. Accepted(t) \in TagType /\ ~Accepted(t).writing
            /\ Accepted(t).since = client[t].asked
        BY <3>0, AcceptedShape
      <4>. QED  BY <4>1, PolledNewer
    <3>3. Version(EmptyConfig) = 0
      BY DEF Version, EmptyConfig, NoRowConfig, ForeignConfig
    <3>4. client[t].asked \in Nat
      <4>1. client[t].asked \in Asked \cup {0}
        BY <1>0
      <4>. QED  BY <4>1, AskedType
    <3>. QED  BY <3>1, <3>2, <3>3, <3>4 DEF Stream
  <2>2. CASE Poll(t)
    <3>1. tag'[t] = Polled(tag[t]) /\ client' = client /\ ~tag[t].writing
          /\ tag[t].kind = "subscribe" /\ tag[t].accepted
      BY <1>0, <2>2 DEF Poll, Shapes, Shaped
    <3>2. /\ Polled(tag[t]).since = tag[t].since
          /\ Polled(tag[t]).writing => Version(Polled(tag[t]).outgoing) > tag[t].since
      BY <1>0, <3>1, PolledNewer
    <3>. QED  BY <2>0, <3>1, <3>2 DEF Stream
  <2>3. CASE Written(t)
    <3>1. /\ client' = client /\ tag[t].kind = "subscribe" /\ tag[t].accepted /\ tag[t].writing
      BY <1>0, <2>3 DEF Written, Shapes, Shaped
    <3>2. tag'[t].since = Version(tag[t].outgoing) /\ ~tag'[t].writing
      BY <1>0, <2>3 DEF Written, TagType
    <3>3. tag[t].since \in Int /\ Version(tag[t].outgoing) \in Int
      <4>1. tag[t].since \in Asked \cup 0..MaxVersion + 1
            /\ tag[t].outgoing \in ForeignConfig..MaxVersion
        BY <1>0 DEF TagType
      <4>. QED  BY <4>1, VersionType, AskedType
    <3>. QED  BY <2>0, <3>1, <3>2, <3>3 DEF Stream
  <2>4. CASE CancelStream(t)
    <3>1. /\ client' = client /\ tag[t].kind = "subscribe" /\ tag[t].accepted
          /\ tag' = [tag EXCEPT ![t].finished = TRUE, ![t].status = "finish"]
      BY <2>4 DEF CancelStream
    <3>2. /\ tag'[t].since = tag[t].since /\ tag'[t].writing = tag[t].writing
          /\ tag'[t].outgoing = tag[t].outgoing
      BY <1>0, <3>1 DEF TagType
    <3>3. Op(t, "write") \notin ops'
      BY <2>4, ProceedOps DEF Op, CancelStream, Accept, AcceptUnready, Poll, Take
    <3>. QED  BY <2>0, <3>1, <3>2, <3>3 DEF Stream
  <2>5. CASE CancelAcceptor(t)
    <3>1. /\ tag[t].kind = "subscribe" /\ ~tag[t].accepted
          /\ tag' = [tag EXCEPT ![t].finished = TRUE, ![t].status = "finish"]
      BY <2>5 DEF CancelAcceptor
    <3>2. ~tag'[t].accepted
      BY <1>0, <3>1 DEF TagType
    <3>. QED  BY <3>2 DEF Stream
  <2>6. CASE GetDropped(t) \/ GetRespawn(t) \/ GetUnready(t) \/ StreamDeleted(t)
    <3>1. tag'[t] \in {Free, GetTag}
      BY <1>0, <2>6 DEF GetDropped, GetRespawn, GetUnready, StreamDeleted
    <3>. QED  BY <3>1, FreeType DEF Stream
  <2>7. CASE GetProcess(t)
    <3>1. tag'[t].kind = "get"
      BY <1>0, <2>7 DEF GetProcess, TagType
    <3>. QED  BY <3>1 DEF Stream
  <2>8. CASE StreamLeaks(t) \/ UseAfterDestroy(t)
    <3>1. tag' = tag /\ client' = client /\ ops' = ops
      BY <2>8 DEF StreamLeaks, UseAfterDestroy, Take
    <3>. QED  BY <2>0, <3>1 DEF Stream
  <2>. QED  BY <2>1, <2>2, <2>3, <2>4, <2>5, <2>6, <2>7, <2>8 DEF Proceed
<1>. QED  BY <1>1, <1>2 DEF Streams

LEMMA ProceedOwn ==
  ASSUME TypeOK, Shapes, Matched, OwnConfiguration, NEW t \in Tags, Proceed(t), TypeOK'
  PROVE  OwnConfiguration'
<1>0. tag \in [Tags -> TagType] /\ tag' \in [Tags -> TagType] /\ row \in 0..MaxVersion
  BY DEF TypeOK
<1>1. EmptyConfig # ForeignConfig /\ QueryConfig # ForeignConfig
  BY <1>0, QueryType DEF EmptyConfig, ForeignConfig
<1>2. \A u \in Tags : client'[u].got # ForeignConfig
  BY <1>1, ProceedFrame DEF OwnConfiguration, NoClient
<1>3. ASSUME NEW u \in Tags
      PROVE  tag'[u].outgoing \in {tag[u].outgoing, QueryConfig, EmptyConfig}
  <2>1. CASE GetDropped(t) \/ GetRespawn(t) \/ GetUnready(t) \/ StreamDeleted(t)
    <3>1. tag'[u] = tag[u] \/ tag'[u] \in {Free, GetTag}
      BY <1>0, <2>1 DEF GetDropped, GetRespawn, GetUnready, StreamDeleted
    <3>2. Free.outgoing = EmptyConfig /\ GetTag.outgoing = EmptyConfig
      BY DEF Free, GetTag
    <3>. QED  BY <3>1, <3>2
  <2>2. CASE GetProcess(t)
    BY <1>0, <2>2 DEF GetProcess, TagType
  <2>3. CASE Accept(t)
    <3>1. tag'[u] \in {tag[u], SubscribeTag, Polled(Accepted(u))}
      BY <1>0, <2>3, AcceptShape
    <3>2. Polled(Accepted(u)).outgoing \in {tag[u].outgoing, QueryConfig}
      BY <1>0 DEF Polled, Accepted, TagType
    <3>. QED  BY <3>1, <3>2 DEF SubscribeTag, Free
  <2>8. CASE AcceptUnready(t)
    <3>1. tag'[u] \in {tag[u], Polled(Accepted(u))}
      BY <1>0, <2>8, AcceptUnreadyShape
    <3>2. Polled(Accepted(u)).outgoing \in {tag[u].outgoing, QueryConfig}
      BY <1>0 DEF Polled, Accepted, TagType
    <3>. QED  BY <3>1, <3>2
  <2>4. CASE Poll(t)
    BY <1>0, <2>4 DEF Poll, Polled, TagType
  <2>5. CASE Written(t)
    BY <1>0, <2>5 DEF Written, TagType
  <2>6. CASE CancelStream(t) \/ CancelAcceptor(t)
    <3>1. tag' = [tag EXCEPT ![t].finished = TRUE, ![t].status = "finish"]
      BY <2>6 DEF CancelStream, CancelAcceptor
    <3>. QED  BY <1>0, <3>1 DEF TagType
  <2>7. CASE StreamLeaks(t) \/ UseAfterDestroy(t)
    BY <2>7 DEF StreamLeaks, UseAfterDestroy
  <2>. QED  BY <2>1, <2>2, <2>3, <2>4, <2>5, <2>6, <2>7, <2>8 DEF Proceed
<1>. QED  BY <1>1, <1>2, <1>3 DEF OwnConfiguration

----------------------------------------------------------------------------
(* The theorems                                                            *)

LEMMA InitIInv == ASSUME Init PROVE IInv
<1>1. TypeOK
  BY ConfigBounds, FreeType, NoClientType DEF Init, TypeOK, Free
<1>2. Shapes /\ Matched /\ Opening /\ Accepting
  BY FreshShape, FreeType DEF Init, Shapes, Matched, Opening, Accepting
<1>3. Callers /\ Streams /\ OwnConfiguration
  BY FreeType DEF Init, Callers, Caller, Streams, Stream, OwnConfiguration, Acceptor,
                  NoClient, Free, EmptyConfig, ForeignConfig
<1>. QED  BY <1>1, <1>2, <1>3 DEF IInv

LEMMA NextIInv == ASSUME IInv, [Next]_vars PROVE IInv'
<1>. USE DEF IInv
<1>1. ASSUME NEW t \in Tags, Proceed(t) PROVE IInv'
  <2>1. TypeOK'
    BY <1>1, ProceedType
  <2>2. Shapes' /\ Matched' /\ Opening'
    BY <1>1, <2>1, ProceedShapes, ProceedMatched, ProceedOpening
  <2>3. Accepting' /\ Callers' /\ Streams' /\ OwnConfiguration'
    BY <1>1, <2>1, ProceedAccepting, ProceedCallers, ProceedStreams, ProceedOwn
  <2>. QED  BY <2>1, <2>2, <2>3
<1>2. ASSUME NEW t \in Tags, GrpcStep(t) PROVE IInv'
  BY <1>2, GrpcStepType, GrpcStepMatched, GrpcStepInv
<1>3. CASE StartGet \/ StartSubscribe
  <2>1. TypeOK'
    BY <1>3, RestType DEF Start
  <2>. QED  BY <1>3, <2>1, StartInv
<1>4. CASE StartUnready \/ WriteRow \/ Outage \/ Recover \/ PoolCloses \/ Stop
  <2>1. TypeOK'
    BY <1>4, RestType DEF Start
  <2>. QED  BY <1>4, <2>1, RestInv
<1>5. CASE UNCHANGED vars
  <2>1. TypeOK'
    BY <1>5 DEF vars, server, store, TypeOK
  <2>. QED  BY <1>5, <2>1, RestInv
<1>. QED  BY <1>1, <1>2, <1>3, <1>4, <1>5 DEF Next, Start

(* The inductive invariant holds of every behaviour. *)
THEOREM Invariant == Spec => []IInv
<1>1. Init => IInv
  BY InitIInv
<1>2. IInv /\ [Next]_vars => IInv'
  BY NextIInv
<1>. QED  BY <1>1, <1>2, PTL DEF Spec

(* Every variable of the asynchronous service keeps its type, and a tag's  *)
(* write_in_flight_ agrees with its status.                                *)
THEOREM TypeCorrect == Spec => []TypeOK
<1>1. IInv => TypeOK
  BY DEF IInv
<1>. QED  BY <1>1, Invariant, PTL

(* Every caller is given the configuration of its own engine, or none, for *)
(* every engine_id, the empty one included.                                *)
THEOREM OwnConfigurationHolds == Spec => []OwnConfiguration
<1>1. IInv => OwnConfiguration
  BY DEF IInv
<1>. QED  BY <1>1, Invariant, PTL

(* A set in which any two elements are equal has at most one. *)
LEMMA AtMostOne ==
  ASSUME NEW S, \A a, b \in S : a = b
  PROVE  /\ S = {} => Cardinality(S) = 0
         /\ S # {} => Cardinality(S) = 1
<1>1. S = {} => Cardinality(S) = 0
  BY FS_EmptySet
<1>2. ASSUME NEW a \in S PROVE Cardinality(S) = 1
  <2>1. S = {a}
    OBVIOUS
  <2>. QED  BY <2>1, FS_Singleton
<1>. QED  BY <1>1, <1>2

(* However many callers there are and in whatever order gRPC completes     *)
(* what it was given, a tag has at most one operation under way, none once *)
(* it is deleted, and exactly one until its call is over.                  *)
THEOREM OneOperationPerTagHolds == Spec => []OneOperationPerTag
<1>1. ASSUME IInv PROVE OneOperationPerTag
  <2>. SUFFICES ASSUME service # "crashed", NEW t \in Tags
                PROVE  /\ Pending(t) <= 1
                       /\ tag[t].kind = "free" => Pending(t) = 0
                       /\ tag[t].kind # "free" /\ ~tag[t].finished => Pending(t) = 1
    BY DEF OneOperationPerTag
  <2>. USE DEF IInv
  <2>. DEFINE O == {o \in ops : o.tag = t}
              E == {e \in cq : e.tag = t}
  <2>1. ASSUME NEW o \in O
        PROVE  o = Op(t, Awaits(tag[t])) /\ tag[t].kind # "free" /\ E = {}
    <3>1. o \in [tag : Tags, op : {"request", "alarm", "write", "finish"}]
          /\ o.op = Awaits(tag[t])
      BY <1>1, <2>1 DEF TypeOK, Matched
    <3>2. o = Op(t, Awaits(tag[t]))
      BY <2>1, <3>1 DEF Op
    <3>3. E = {}
      BY <1>1, <2>1, <3>2 DEF Matched
    <3>. QED  BY <3>1, <3>2, <3>3 DEF Awaits
  <2>2. ASSUME NEW e \in E
        PROVE  tag[t].kind # "free" /\ \A f \in E : f = e
    <3>1. e \in [tag : Tags, op : {"request", "alarm", "write", "finish"}, ok : BOOLEAN]
          /\ e.op = Awaits(tag[t])
      BY <1>1, <2>2 DEF TypeOK, Matched
    <3>2. \A f \in E : f = e
      BY <1>1, <2>2 DEF Matched
    <3>. QED  BY <3>1, <3>2 DEF Awaits
  <2>3. tag[t].kind # "free" /\ ~tag[t].finished => O # {} \/ E # {}
    <3>1. \A name, ok : Op(t, name).tag = t /\ Event(t, name, ok).tag = t
      BY DEF Op, Event
    <3>2. tag[t].kind # "free" /\ ~tag[t].finished =>
            \/ Op(t, Awaits(tag[t])) \in ops
            \/ \E ok \in BOOLEAN : Event(t, Awaits(tag[t]), ok) \in cq
      BY <1>1 DEF Matched
    <3>. QED  BY <3>1, <3>2
  <2>4. /\ O = {} => Cardinality(O) = 0
        /\ O # {} => Cardinality(O) = 1
    BY <2>1, AtMostOne
  <2>5. /\ E = {} => Cardinality(E) = 0
        /\ E # {} => Cardinality(E) = 1
    BY <2>2, AtMostOne
  <2>6. Pending(t) = Cardinality(O) + Cardinality(E)
    BY DEF Pending
  <2>. HIDE DEF O, E
  <2>. QED  BY <2>1, <2>2, <2>3, <2>4, <2>5, <2>6
<1>. QED  BY <1>1, Invariant, PTL

(* While the service serves, at most one tag waits for the next subscriber *)
(* and at most one for GetEngineConfig, and as long as the pool is open    *)
(* one does wait: acceptors do not pile up and none is lost, whenever the  *)
(* pool closes.                                                            *)
THEOREM OneAcceptorHolds == Spec => []OneAcceptor
<1>1. ASSUME NEW S, \A a, b \in S : a = b
      PROVE  Cardinality(S) <= 1
  <2>1. Cardinality(S) \in {0, 1}
    BY <1>1, AtMostOne
  <2>. HIDE DEF Cardinality
  <2>. QED  BY <2>1
<1>2. ASSUME IInv PROVE OneAcceptor
  <2>. SUFFICES ASSUME service = "serving"
                PROVE  /\ Cardinality({t \in Tags : Acceptor(t)}) <= 1
                       /\ Cardinality({t \in Tags : tag[t].kind = "get"}) <= 1
                       /\ pool_open => \E t \in Tags : Acceptor(t)
    BY DEF OneAcceptor
  <2>1. Accepting
    BY <1>2 DEF IInv
  <2>2. \A a, b \in {t \in Tags : Acceptor(t)} : a = b
    BY <2>1 DEF Accepting
  <2>3. \A a, b \in {t \in Tags : tag[t].kind = "get"} : a = b
    BY <2>1 DEF Accepting
  <2>4. pool_open => \E t \in Tags : Acceptor(t)
    BY <2>1 DEF Accepting
  <2>5. Cardinality({t \in Tags : Acceptor(t)}) <= 1
    BY <1>1, <2>2, Zenon
  <2>6. Cardinality({t \in Tags : tag[t].kind = "get"}) <= 1
    BY <1>1, <2>3, Zenon
  <2>. QED  BY <2>4, <2>5, <2>6
<1>. QED  BY <1>2, Invariant, PTL

(* What a subscriber receives is newer than what it asked with and newer   *)
(* than everything it received before.                                     *)
THEOREM VersionsIncreaseHolds == Spec => VersionsIncrease
<1>. DEFINE Step ==
       \A t \in Tags :
         /\ tag[t].kind = "subscribe" /\ client'[t].state # "none"
         /\ client'[t].got # client[t].got
         => /\ Version(client'[t].got) > client[t].asked
            /\ Version(client'[t].got) > Version(client[t].got)
<1>1. IInv /\ [Next]_vars => [Step]_vars
  <2>. SUFFICES ASSUME IInv, Next, NEW t \in Tags, tag[t].kind = "subscribe",
                       client'[t].state # "none", client'[t].got # client[t].got
                PROVE  /\ Version(client'[t].got) > client[t].asked
                       /\ Version(client'[t].got) > Version(client[t].got)
    OBVIOUS
  <2>. USE DEF IInv
  <2>1. PICK ok \in BOOLEAN : WriteCompletes(t, ok)
    <3>0. client \in [Tags -> [state : {"none", "connected", "gone", "closed"},
                              asked : Asked \cup {0}, got : ForeignConfig..MaxVersion]]
      BY DEF TypeOK
    <3>1. ASSUME NEW u \in Tags, Proceed(u) PROVE FALSE
      <4>1. client'[t] = NoClient
        BY <3>1, ProceedFrame
      <4>. QED  BY <4>1 DEF NoClient
    <3>2. CASE Start \/ WriteRow \/ Outage \/ Recover \/ PoolCloses \/ Stop
      BY <3>2 DEF Start, StartGet, StartSubscribe, StartUnready, WriteRow, Outage, Recover,
                  PoolCloses, Stop, DestroyHandler, ShutdownServer, ShutdownQueue, JoinPoller
    <3>3. ASSUME NEW u \in Tags, NEW asked \in Asked, Arrive(u, asked) PROVE FALSE
      <4>1. Op(u, "request") \in ops /\ client'[u].got = EmptyConfig
            /\ \A v \in Tags \ {u} : client'[v] = client[v]
        BY <3>0, <3>3 DEF Arrive, Complete
      <4>2. client[u] = NoClient
        BY <4>1 DEF Callers, Caller
      <4>. QED  BY <4>1, <4>2 DEF NoClient
    <3>4. ASSUME NEW u \in Tags, NEW ok \in BOOLEAN, FinishCompletes(u, ok) PROVE FALSE
      <4>1. Complete(u, "finish", ok)
        BY <3>4 DEF FinishCompletes
      <4>2. /\ client[u].state # "connected" => client'[u].got = client[u].got
            /\ \A v \in Tags \ {u} : client'[v] = client[v]
        BY <3>0, <3>4 DEF FinishCompletes
      <4>3. Awaits(tag[u]) = "finish"
        BY <4>1, CompleteMatched
      <4>4. tag[u].kind = "subscribe" => client[u].state # "connected"
        BY <4>3, AwaitsWhat DEF Callers, Caller
      <4>. QED  BY <4>2, <4>4
    <3>5. ASSUME NEW u \in Tags, RequestFails(u) \/ AlarmFires(u) \/ Disconnect(u) PROVE FALSE
      <4>1. client' \in {client, [client EXCEPT ![u].state = "gone"]}
        BY <3>5 DEF RequestFails, AlarmFires, Disconnect
      <4>. QED  BY <3>0, <4>1
    <3>6. ASSUME NEW u \in Tags, NEW ok \in BOOLEAN, WriteCompletes(u, ok) PROVE u = t
      BY <3>0, <3>6 DEF WriteCompletes
    <3>. QED  BY <3>1, <3>2, <3>3, <3>4, <3>5, <3>6 DEF Next, GrpcStep
  <2>2. client'[t].got = tag[t].outgoing /\ Op(t, "write") \in ops
    BY <2>1 DEF WriteCompletes, Complete, TypeOK
  <2>3. Awaits(tag[t]) = "write"
    BY <2>1, CompleteMatched DEF WriteCompletes
  <2>4. tag[t].accepted /\ tag[t].writing
    BY <2>3, AwaitsWhat
  <2>5. /\ client[t].asked <= tag[t].since /\ Version(tag[t].outgoing) > tag[t].since
        /\ Version(client[t].got) <= tag[t].since
    BY <2>2, <2>4 DEF Streams, Stream
  <2>6. /\ client[t].asked \in Nat /\ tag[t].since \in Nat
        /\ Version(tag[t].outgoing) \in Int /\ Version(client[t].got) \in Int
    <3>1. /\ client[t].asked \in Asked \cup {0} /\ client[t].got \in ForeignConfig..MaxVersion
          /\ tag[t].since \in Asked \cup 0..MaxVersion + 1
          /\ tag[t].outgoing \in ForeignConfig..MaxVersion
      BY DEF TypeOK, TagType
    <3>. QED  BY <3>1, AskedType, VersionType
  <2>. QED  BY <2>2, <2>5, <2>6
<1>. QED  BY <1>1, Invariant, PTL DEF Spec, VersionsIncrease
=============================================================================
