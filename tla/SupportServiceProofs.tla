------------------------ MODULE SupportServiceProofs ------------------------
(***************************************************************************)
(* For any configuration files, any number of edits, outages, boots and    *)
(* calls: what a Ready service stands on and how it ends.                  *)
(***************************************************************************)
EXTENDS SupportService, SequenceTheorems, WellFoundedInduction, TLAPS

----------------------------------------------------------------------------
(* The inductive invariant                                                 *)

StatementsLeft == pending \in Seq(ToSet(Schema(service)))

(* The process is over when the main thread is. *)
Ended == main = "exited" <=> exit_code # "none"

(* Until Start nothing listens, nobody waits and nobody calls. *)
Before == Starting \cup {"unwind", "start", "listen", "giveup"}
Quiet ==
  main \in Before =>
    /\ state \in {"New", "Initializing", "Failed"}
    /\ ~backend /\ ~started /\ ~grpc_server /\ ~running
    /\ listener = "none" /\ queue = "none" /\ loop = "none" /\ calls = 0
    /\ waiter = "off"

(* How many statements Initialize has executed, and what they made. *)
Executed == Len(Schema(service)) - Len(pending)
MadeSoFar == \A i \in 1..Executed : Schema(service)[i].makes \in tables

(* What each step of Initialize has settled for the ones after it. *)
Parsed == Parse(service, settings) = "ok"
Starts == {"start", "listen", "ready"}
Initializing ==
  /\ main \in {"open", "connect", "schema"} \cup Starts =>
       settings \in Documents /\ Parsed
  /\ main \in {"connect", "schema"} \cup Starts =>
       dao /\ (DatabaseEnabled(settings) => PoolSize(settings) <= PoolLimit)
  /\ main \in {"schema"} \cup Starts =>
       (DatabaseEnabled(settings) => PoolSize(settings) > 0)
  /\ main = "schema" => MadeSoFar
  /\ main \in Starts => ~leased /\ Names(Schema(service)) \subseteq tables
  /\ main \in {"listen", "ready"} => pool # "none"

(* Ready is said from the end of Start to the beginning of Stop. *)
Serving ==
  /\ main = "ready" =>
       /\ state \in {"New", "Initializing", "Failed"} /\ waiter = "off"
       /\ backend /\ ~started /\ grpc_server /\ running
       /\ Kind = "async" => queue = "open" /\ loop = "polling"
  /\ main \in {"run", "stop"} => state = "Ready" /\ waiter = "enter"
  /\ state = "Ready" => main \in {"run", "stop", "exited"}
  /\ state = "Terminated" => main \in {"join", "exited"}
  /\ main = "join" => state = "Terminated"

(* Only Release takes the database, and from a synchronous service the     *)
(* service object; it comes after the last call.                           *)
Unreleased == {"run", "stop", "shutdown", "drain", "closeQueue", "joinLoop",
               "clear", "release"}
Held ==
  /\ main \in Unreleased => pool # "none" /\ (Kind = "sync" => backend)
  /\ main = "join" => pool = "none" /\ ~backend
  /\ listener \in {"none", "down"} => calls = 0

(* The listener goes up with the waiter, and down step by step. *)
Listening ==
  /\ main \in {"ready", "run", "stop", "shutdown"} => listener = "up"
  /\ main \in {"run", "stop", "shutdown"} => waiter = "enter"
  /\ main = "drain" => listener = "closing" /\ waiter = "enter"
  /\ main \in {"closeQueue", "joinLoop", "clear", "release", "join"} =>
       /\ waiter \in {"enter", "resetQueue", "resetServer", "delete", "done"}
       /\ listener = IF waiter = "enter" THEN "down" ELSE "none"

(* What the waiter and the main thread have taken apart. *)
TakenApart ==
  /\ waiter \in {"resetServer", "delete", "done"} => queue = "none"
  /\ waiter \in {"delete", "done"} => ~grpc_server
  /\ main \in {"release", "join"} => ~running
  /\ main \in {"clear", "release", "join"} => loop # "polling"

Phases ==
  /\ Ended /\ Quiet /\ Initializing /\ Serving /\ Held /\ Listening /\ TakenApart
  /\ ReadyIsBacked /\ ReadyIsConfigured /\ ExitIsClean /\ CallsKeepTheirService

IInv == TypeOK /\ StatementsLeft /\ Phases

----------------------------------------------------------------------------
(* Sequences of statements                                                 *)

LEMMA ReverseType ==
  ASSUME NEW S, NEW s \in Seq(S)
  PROVE  /\ Reverse(s) \in Seq(S) /\ Len(Reverse(s)) = Len(s)
         /\ \A i \in 1..Len(s) : Reverse(s)[i] = s[Len(s) - i + 1]
BY DEF Reverse

(* A suffix is the other sequence from some place on. *)
LEMMA SuffixElements ==
  ASSUME NEW S, NEW s \in Seq(S), NEW t \in Seq(S)
  PROVE  IsSuffix(s, t) <=>
           /\ Len(s) <= Len(t)
           /\ \A i \in 1..Len(s) : s[Len(s) - i + 1] = t[Len(t) - i + 1]
<1>. DEFINE r == Reverse(s)
            q == Reverse(t)
<1>1. /\ r \in Seq(S) /\ Len(r) = Len(s) /\ \A i \in 1..Len(s) : r[i] = s[Len(s) - i + 1]
      /\ q \in Seq(S) /\ Len(q) = Len(t) /\ \A i \in 1..Len(t) : q[i] = t[Len(t) - i + 1]
  BY ReverseType
<1>2. IsSuffix(s, t) <=> Len(r) <= Len(q) /\ SubSeq(r, 1, Len(r)) = SubSeq(q, 1, Len(r))
  BY DEF IsSuffix, IsPrefix
<1>. HIDE DEF r, q
<1>3. ASSUME Len(r) <= Len(q)
      PROVE  SubSeq(r, 1, Len(r)) = SubSeq(q, 1, Len(r)) <=>
               \A i \in 1..Len(r) : r[i] = q[i]
  <2>1. /\ SubSeq(r, 1, Len(r)) = [i \in 1..Len(r) |-> r[i]]
        /\ SubSeq(q, 1, Len(r)) = [i \in 1..Len(r) |-> q[i]]
    BY <1>1, <1>3
  <2>. QED  BY <2>1
<1>4. ASSUME Len(s) <= Len(t)
      PROVE  (\A i \in 1..Len(r) : r[i] = q[i]) <=>
               \A i \in 1..Len(s) : s[Len(s) - i + 1] = t[Len(t) - i + 1]
  <2>1. ASSUME NEW i \in 1..Len(s)
        PROVE  r[i] = s[Len(s) - i + 1] /\ q[i] = t[Len(t) - i + 1]
    BY <1>1, <1>4
  <2>. QED  BY <1>1, <2>1
<1>. QED  BY <1>1, <1>2, <1>3, <1>4

LEMMA SuffixTail ==
  ASSUME NEW S, NEW s \in Seq(S), NEW t \in Seq(S), IsSuffix(s, t), s # <<>>
  PROVE  /\ Tail(s) \in Seq(S) /\ IsSuffix(Tail(s), t)
         /\ Len(s) \in Nat \ {0} /\ Len(t) \in Nat /\ Len(s) <= Len(t)
         /\ Len(Tail(s)) = Len(s) - 1
         /\ Head(s) = t[Len(t) - Len(s) + 1]
<1>1. Len(s) \in Nat \ {0} /\ Len(t) \in Nat /\ Len(s) <= Len(t)
  BY SuffixElements
<1>2. /\ Tail(s) \in Seq(S) /\ Len(Tail(s)) = Len(s) - 1
      /\ \A i \in 1..Len(s) - 1 : Tail(s)[i] = s[i + 1]
      /\ Head(s) = s[1]
  BY <1>1
<1>3. \A i \in 1..Len(s) : s[Len(s) - i + 1] = t[Len(t) - i + 1]
  BY SuffixElements
<1>4. IsSuffix(Tail(s), t)
  <2>1. ASSUME NEW i \in 1..Len(s) - 1
        PROVE  Tail(s)[Len(s) - 1 - i + 1] = t[Len(t) - i + 1]
    <3>1. Len(s) - 1 - i + 1 \in 1..Len(s) - 1
      BY <1>1
    <3>. QED  BY <1>1, <1>2, <1>3, <3>1
  <2>. DEFINE u == Tail(s)
  <2>2. u \in Seq(S) /\ Len(u) = Len(s) - 1 /\ Len(u) <= Len(t)
    BY <1>1, <1>2
  <2>3. \A i \in 1..Len(u) : u[Len(u) - i + 1] = t[Len(t) - i + 1]
    BY <1>2, <2>1
  <2>. HIDE DEF u
  <2>4. IsSuffix(u, t)
    BY <2>2, <2>3, SuffixElements
  <2>. QED  BY <2>4 DEF u
<1>5. Head(s) = t[Len(t) - Len(s) + 1]
  BY <1>1, <1>2, <1>3
<1>. QED  BY <1>1, <1>2, <1>4, <1>5

LEMMA SuffixEnds ==
  ASSUME NEW S, NEW t \in Seq(S)
  PROVE  IsSuffix(<<>>, t) /\ IsSuffix(t, t) /\ <<>> \in Seq(S) /\ ToSet(<<>>) = {}
<1>1. /\ <<>> \in Seq(S) /\ Len(<<>>) = 0 /\ Len(t) \in Nat
      /\ \A i \in 1..Len(<<>>) : FALSE
  OBVIOUS
<1>2. ASSUME NEW s \in Seq(S), Len(s) = 0 PROVE IsSuffix(s, t)
  <2>1. Len(s) <= Len(t) /\ \A i \in 1..Len(s) : s[Len(s) - i + 1] = t[Len(t) - i + 1]
    BY <1>1, <1>2
  <2>. QED  BY <2>1, SuffixElements
<1>3. IsSuffix(t, t)
  <2>1. Len(t) <= Len(t)
    BY <1>1
  <2>. QED  BY <2>1, SuffixElements, Zenon
<1>4. ToSet(<<>>) = {}
  BY DEF ToSet
<1>. QED  BY <1>1, <1>2, <1>3, <1>4

(* A statement makes what no word about existing things can stop, and the  *)
(* tables it needs are made by earlier statements of the sequence.         *)
Repeatable(s) ==
  /\ s \in Seq(ToSet(s))
  /\ \A i \in 1..Len(s) : s[i].if_not_exists = TRUE
  /\ \A i \in 1..Len(s) : \A table \in s[i].needs :
       \E j \in 1..i - 1 : s[j].makes = table

LEMMA RepeatableConcat ==
  ASSUME NEW s, NEW t, Repeatable(s), Repeatable(t)
  PROVE  Repeatable(s \o t)
<1>. DEFINE u == s \o t
            Statement == ToSet(s) \cup ToSet(t)
<1>1. /\ s \in Seq(Statement) /\ t \in Seq(Statement)
      /\ Len(s) \in Nat /\ Len(t) \in Nat
  BY DEF Repeatable
<1>. HIDE DEF Statement
<1>2. /\ u \in Seq(Statement) /\ Len(u) = Len(s) + Len(t)
      /\ \A i \in 1..Len(u) : u[i] = IF i <= Len(s) THEN s[i] ELSE t[i - Len(s)]
  BY <1>1
<1>. HIDE DEF u
<1>3. ASSUME NEW i \in 1..Len(u), NEW table \in u[i].needs
      PROVE  \E j \in 1..i - 1 : u[j].makes = table
  <2>1. CASE i <= Len(s)
    <3>1. PICK j \in 1..i - 1 : s[j].makes = table
      BY <1>1, <1>2, <1>3, <2>1 DEF Repeatable
    <3>2. j \in 1..Len(u) /\ u[j] = s[j]
      BY <1>1, <1>2, <2>1
    <3>. QED  BY <3>1, <3>2
  <2>2. CASE ~(i <= Len(s))
    <3>1. i - Len(s) \in 1..Len(t) /\ u[i] = t[i - Len(s)]
      BY <1>1, <1>2, <2>2
    <3>2. PICK j \in 1..i - Len(s) - 1 : t[j].makes = table
      BY <1>1, <1>3, <3>1 DEF Repeatable
    <3>3. /\ Len(s) + j \in 1..i - 1 /\ Len(s) + j \in 1..Len(u)
          /\ ~(Len(s) + j <= Len(s)) /\ Len(s) + j - Len(s) = j
      BY <1>1, <1>2, <3>1
    <3>4. u[Len(s) + j] = t[j]
      BY <1>2, <3>3
    <3>. QED  BY <3>2, <3>3, <3>4
  <2>. QED  BY <2>1, <2>2
<1>4. \A i \in 1..Len(u) : u[i].if_not_exists = TRUE
  BY <1>1, <1>2 DEF Repeatable
<1>5. u \in Seq(ToSet(u))
  BY <1>2 DEF ToSet
<1>. QED  BY <1>3, <1>4, <1>5 DEF Repeatable, u

(* A table and up to two indexes on it. *)
LEMMA RepeatableTable ==
  ASSUME NEW table, NEW a, NEW b
  PROVE  /\ Repeatable(EnsureTableSchema(<<Create(table)>>, <<>>))
         /\ Repeatable(EnsureTableSchema(<<Create(table)>>, <<Index(a, table)>>))
         /\ Repeatable(EnsureTableSchema(<<Create(table)>>,
                                         <<Index(a, table), Index(b, table)>>))
<1>. DEFINE c == Create(table)
            x == Index(a, table)
            y == Index(b, table)
<1>1. c.needs = {} /\ c.makes = table /\ c.if_not_exists = TRUE
  BY DEF Create
<1>2. /\ x.needs = {table} /\ x.if_not_exists = TRUE
      /\ y.needs = {table} /\ y.if_not_exists = TRUE
  BY DEF Index
<1>. HIDE DEF c, x, y
<1>3. /\ EnsureTableSchema(<<c>>, <<>>) = <<c>>
      /\ EnsureTableSchema(<<c>>, <<x>>) = <<c, x>>
      /\ EnsureTableSchema(<<c>>, <<x, y>>) = <<c, x, y>>
  <2>1. <<c>> \o <<>> = <<c>>
    OBVIOUS
  <2>. DEFINE S == {c, x, y}
  <2>2. <<c>> \o <<x>> = <<c, x>>
    <3>1. /\ <<c>> \o <<x>> \in Seq(S) /\ <<c, x>> \in Seq(S)
          /\ Len(<<c>> \o <<x>>) = 2 /\ Len(<<c, x>>) = 2
          /\ \A i \in 1..2 : (<<c>> \o <<x>>)[i] = <<c, x>>[i]
      OBVIOUS
    <3>. QED  BY <3>1, SeqEqual
  <2>3. <<c>> \o <<x, y>> = <<c, x, y>>
    <3>1. /\ <<c>> \o <<x, y>> \in Seq(S) /\ <<c, x, y>> \in Seq(S)
          /\ Len(<<c>> \o <<x, y>>) = 3 /\ Len(<<c, x, y>>) = 3
          /\ \A i \in 1..3 : (<<c>> \o <<x, y>>)[i] = <<c, x, y>>[i]
      OBVIOUS
    <3>. QED  BY <3>1, SeqEqual
  <2>. QED  BY <2>1, <2>2, <2>3 DEF EnsureTableSchema
<1>6. Repeatable(<<c>>)
  BY <1>1 DEF Repeatable, ToSet
<1>7. Repeatable(<<c, x>>)
  BY <1>1, <1>2 DEF Repeatable, ToSet
<1>8. Repeatable(<<c, x, y>>)
  BY <1>1, <1>2 DEF Repeatable, ToSet
<1>. QED  BY <1>3, <1>6, <1>7, <1>8 DEF c, x, y

(* The schema of each service can be repeated. *)
LEMMA SchemaRepeatable ==
  ASSUME NEW s \in Services
  PROVE  Repeatable(Schema(s))
<1>0. /\ \A table : Repeatable(EnsureTableSchema(<<Create(table)>>, <<>>))
      /\ \A table, a :
           Repeatable(EnsureTableSchema(<<Create(table)>>, <<Index(a, table)>>))
      /\ \A table, a, b :
           Repeatable(EnsureTableSchema(<<Create(table)>>,
                                        <<Index(a, table), Index(b, table)>>))
  BY RepeatableTable
<1>1. /\ Repeatable(TradingAccount) /\ Repeatable(AccountCredential)
      /\ Repeatable(AccountRiskPolicy) /\ Repeatable(AccountRiskLedger)
  BY <1>0, Zenon DEF TradingAccount, AccountCredential, AccountRiskPolicy, AccountRiskLedger
<1>2. Repeatable(OrderReservation)
  BY <1>0, Zenon DEF OrderReservation
<1>3. /\ Repeatable(EngineConfig) /\ Repeatable(TenantRiskPolicy)
      /\ Repeatable(InstanceRiskPolicy) /\ Repeatable(StrategyRiskPolicy)
  BY <1>0, Zenon
     DEF EngineConfig, TenantRiskPolicy, InstanceRiskPolicy, StrategyRiskPolicy
<1>4. /\ Repeatable(InstrumentRiskPolicy) /\ Repeatable(OrderRiskPolicy)
      /\ Repeatable(QuoteHealthPolicy)
  BY <1>0, Zenon DEF InstrumentRiskPolicy, OrderRiskPolicy, QuoteHealthPolicy
<1>. QED  BY <1>1, <1>2, <1>3, <1>4, RepeatableConcat DEF Schema, Services

LEMMA SchemaType ==
  ASSUME NEW s \in Services
  PROVE  Schema(s) \in Seq(ToSet(Schema(s)))
BY SchemaRepeatable DEF Repeatable

----------------------------------------------------------------------------
(* The configuration file                                                  *)

(* A file is accepted only when every check has passed. *)
LEMMA FirstFailureOk ==
  ASSUME NEW checks, DOMAIN checks \subseteq Nat, FirstFailure(checks) = "ok"
  PROVE  \A i \in DOMAIN checks : checks[i] = "ok"
<1>. DEFINE failed == {i \in DOMAIN checks : checks[i] # "ok"}
<1>1. SUFFICES ASSUME failed # {} PROVE FALSE
  OBVIOUS
<1>2. \E i \in failed : \A j \in failed : i <= j
  <2>1. PICK i \in failed : \A j \in failed : <<j, i>> \notin OpToRel(<, Nat)
    BY <1>1, WFMin, NatLessThanWellFounded
  <2>2. \A j, k \in Nat : j < k => <<j, k>> \in OpToRel(<, Nat)
    BY DEF OpToRel
  <2>3. failed \subseteq Nat
    OBVIOUS
  <2>. HIDE DEF failed
  <2>4. ASSUME NEW j \in failed PROVE i <= j
    <3>1. i \in Nat /\ j \in Nat
      BY <2>3, <2>4
    <3>2. ~(j < i)
      BY <2>1, <2>2, <2>4, <3>1
    <3>. QED  BY <3>1, <3>2
  <2>. QED  BY <2>4
<1>3. Min(failed) \in failed
  BY <1>2 DEF Min
<1>. QED  BY <1>1, <1>3 DEF FirstFailure

(* The bound on the size of a pool is a number. *)
LEMMA PoolLimitIsNumber == PoolLimit \in Int
<1>1. PoolLimit \in 1..SizeRange
  BY LifeBounds, Zenon
<1>2. \A n \in 1..SizeRange : n \in Int
  OBVIOUS
<1>. QED  BY <1>1, <1>2

(* What the parsers have made sure of. *)
LEMMA ParsedDocument ==
  ASSUME NEW s \in Services, NEW d, Parse(s, d) = "ok"
  PROVE  /\ {"config", "grpc"} \subseteq d.sections /\ d.endpoint = TRUE
         /\ d.empty = {}
         /\ s = "account_risk" => d.default_ttl_ms > 0 /\ d.expire_scan_interval_ms > 0
<1>1. CASE s = "account_risk"
  <2>. DEFINE checks == <<
         Check(d.root = "object"), HasSection(d, "grpc"), HasEndpoint(d),
         HasSection(d, "config"), Read(d, "config", LogFields \cup Intervals),
         HasLogNames(d), Check(\A field \in Intervals : d[field] > 0),
         ParseDatabaseConfig(d)>>
  <2>1. FirstFailure(checks) = "ok"
    BY <1>1 DEF Parse, ParseAccountRiskConfig
  <2>2. DOMAIN checks = 1..8
    OBVIOUS
  <2>3. \A i \in 1..8 : checks[i] = "ok"
    BY <2>1, <2>2, FirstFailureOk
  <2>4. /\ HasSection(d, "grpc") = "ok" /\ HasEndpoint(d) = "ok"
        /\ HasSection(d, "config") = "ok" /\ HasLogNames(d) = "ok"
        /\ Check(\A field \in Intervals : d[field] > 0) = "ok"
    <3>1. checks[2] = "ok" /\ checks[3] = "ok" /\ checks[4] = "ok"
          /\ checks[6] = "ok" /\ checks[7] = "ok"
      <4>. HIDE DEF checks
      <4>. QED  BY <2>3
    <3>. QED  BY <3>1
  <2>. QED  BY <2>4 DEF HasSection, HasEndpoint, HasLogNames, Check, Intervals
<1>2. CASE s # "account_risk"
  <2>. DEFINE checks == <<
         Check(d.root = "object"), HasSection(d, "config"), HasSection(d, "grpc"),
         HasEndpoint(d), Read(d, "config", LogFields), HasLogNames(d),
         ParseDatabaseConfig(d)>>
  <2>1. FirstFailure(checks) = "ok"
    BY <1>2 DEF Parse, ParseCommonConfig
  <2>2. DOMAIN checks = 1..7
    OBVIOUS
  <2>3. \A i \in 1..7 : checks[i] = "ok"
    BY <2>1, <2>2, FirstFailureOk
  <2>4. /\ HasSection(d, "grpc") = "ok" /\ HasEndpoint(d) = "ok"
        /\ HasSection(d, "config") = "ok" /\ HasLogNames(d) = "ok"
    <3>1. checks[2] = "ok" /\ checks[3] = "ok" /\ checks[4] = "ok" /\ checks[6] = "ok"
      BY <2>3
    <3>. QED  BY <3>1
  <2>. QED  BY <1>2, <2>4 DEF HasSection, HasEndpoint, HasLogNames, Check
<1>. QED  BY <1>1, <1>2

----------------------------------------------------------------------------
(* Types                                                                   *)

Flags ==
  /\ reachable \in BOOLEAN /\ leased \in BOOLEAN /\ dao \in BOOLEAN
  /\ backend \in BOOLEAN /\ started \in BOOLEAN /\ grpc_server \in BOOLEAN /\ running \in BOOLEAN

(* What Initialize has left to do is the end of the service's schema. *)
LEMMA StatementsType ==
  ASSUME TypeOK, StatementsLeft
  PROVE  /\ IsSuffix(<<>>, Schema(service)) /\ IsSuffix(Schema(service), Schema(service))
         /\ <<>> \in Seq(ToSet(Schema(service)))
         /\ Schema(service) \in Seq(ToSet(Schema(service)))
         /\ pending # <<>> =>
              /\ Executed \in Nat /\ Executed + 1 \in 1..Len(Schema(service))
              /\ Head(pending) = Schema(service)[Executed + 1]
              /\ Head(pending).makes \in Names(Schema(service))
              /\ Len(Tail(pending)) = Len(pending) - 1 /\ Len(pending) \in Nat
              /\ IsSuffix(Tail(pending), Schema(service))
              /\ Tail(pending) \in Seq(ToSet(Schema(service)))
<1>1. Schema(service) \in Seq(ToSet(Schema(service)))
  BY SchemaType DEF TypeOK
<1>2. IsSuffix(pending, Schema(service))
  BY DEF TypeOK
<1>3. ASSUME pending # <<>>
      PROVE  /\ Executed \in Nat /\ Executed + 1 \in 1..Len(Schema(service))
             /\ Head(pending) = Schema(service)[Executed + 1]
             /\ Len(Tail(pending)) = Len(pending) - 1 /\ Len(pending) \in Nat
             /\ IsSuffix(Tail(pending), Schema(service))
             /\ Tail(pending) \in Seq(ToSet(Schema(service)))
  BY <1>1, <1>2, <1>3, SuffixTail DEF StatementsLeft, Executed
<1>4. ASSUME pending # <<>> PROVE Head(pending).makes \in Names(Schema(service))
  BY <1>1, <1>3, <1>4 DEF Names, ToSet
<1>. QED  BY <1>1, <1>3, <1>4, SuffixEnds

LEMMA StatementsStay ==
  ASSUME TypeOK, StatementsLeft, Next
  PROVE  StatementsLeft'
<1>1. service' = service /\ pending' \in {pending, <<>>, Schema(service)} \cup
        (IF pending # <<>> THEN {Tail(pending)} ELSE {})
  <2>. USE DEF world, setup, Go, Leave
  <2>1. CASE World
    BY <2>1 DEF World, FileEdited, DatabaseGoes, DatabaseReturns, PoolCloses, Killed,
             Reboot
  <2>2. CASE Boot
    <3>1. CASE Load \/ LoadFails \/ InitProgramEnvironment \/ EnvironmentFails
      BY <3>1 DEF Load, LoadFails, InitProgramEnvironment, EnvironmentFails
    <3>2. CASE ReadSettings \/ ReadSettingsFails \/ ReadSettingsThrows \/ OpenPool
      BY <3>2 DEF ReadSettings, TakeSettings, ReadSettingsFails, ReadSettingsThrows, OpenPool
    <3>3. CASE OpenPoolFails \/ Connect \/ ConnectFails
      BY <3>3 DEF OpenPoolFails, Connect, ConnectFails
    <3>4. CASE CreateNext \/ CreateFails \/ Unwind \/ InitializeOk
      BY <3>4 DEF CreateNext, CreateFails, Unwind, InitializeOk
    <3>5. CASE StartNotReady \/ StartOk \/ StartFails \/ Listen \/ SetReady \/ GiveUp
      BY <3>5 DEF StartNotReady, StartOk, StartFails, Listen, SetReady, GiveUp
    <3>. QED  BY <2>2, <3>1, <3>2, <3>3, <3>4, <3>5 DEF Boot
  <2>3. CASE CallBegins \/ CallEnds \/ Signal \/ PollerExits
    BY <2>3 DEF CallBegins, CallEnds, Signal, PollerExits
  <2>4. CASE Stop
    BY <2>4 DEF Stop, StopBegins, ListenerCloses, ListenerDown, CloseQueue, JoinLoop,
                ClearRunning, Release, JoinWaiter, UseAfterFree
  <2>5. CASE Wait
    BY <2>5 DEF Wait, WaitReturns, ResetQueue, ResetServer, DeleteServer, WaiterGoes
  <2>. QED  BY <2>1, <2>2, <2>3, <2>4, <2>5 DEF Next
<1>. QED  BY <1>1, StatementsType DEF StatementsLeft

LEMMA WorldType == ASSUME TypeOK, StatementsLeft, World PROVE TypeOK'
<1>. USE LifeBounds DEF TypeOK, world, setup, wrapper, status, handler, threads, Kind, Starting
<1>1. CASE FileEdited
  BY <1>1 DEF FileEdited, Happens
<1>2. CASE DatabaseGoes
  <2>1. Flags'
    BY <1>2, Zenon DEF Flags, DatabaseGoes, Happens
  <2>. QED  BY <1>2, <2>1 DEF Flags, DatabaseGoes, Happens
<1>3. CASE DatabaseReturns
  BY <1>3 DEF DatabaseReturns
<1>4. CASE Killed
  BY <1>4 DEF Killed
<1>5. CASE Reboot
  <2>1. Flags'
    BY <1>5, Zenon DEF Flags, Reboot, Happens
  <2>. QED  BY <1>5, <2>1, StatementsType DEF Flags, Reboot, Happens
<1>6. CASE PoolCloses
  BY <1>6 DEF PoolCloses
<1>. QED  BY <1>1, <1>2, <1>3, <1>4, <1>5, <1>6 DEF World

LEMMA BootType == ASSUME TypeOK, StatementsLeft, Boot PROVE TypeOK'
<1>. USE LifeBounds DEF TypeOK, world, setup, wrapper, status, handler, threads, Kind, Starting
<1>1. CASE Load
  BY <1>1 DEF Load, Go
<1>2. CASE LoadFails
  BY <1>2 DEF LoadFails, Leave, Go, ExitFor
<1>3. CASE InitProgramEnvironment
  BY <1>3 DEF InitProgramEnvironment, Go
<1>4. CASE EnvironmentFails
  BY <1>4 DEF EnvironmentFails, Leave, Go
<1>5. CASE ReadSettings
  BY <1>5 DEF ReadSettings, Go, TakeSettings
<1>6. CASE ReadSettingsFails
  BY <1>6 DEF ReadSettingsFails, Leave, Go, ParseError
<1>7. CASE ReadSettingsThrows
  BY <1>7 DEF ReadSettingsThrows, Leave, Go
<1>8. CASE OpenPool
  BY <1>8 DEF OpenPool, Go
<1>9. CASE OpenPoolFails
  <2>1. Flags'
    BY <1>9, Zenon DEF Flags, OpenPoolFails, Leave, Go, InitializeFails
  <2>. QED  BY <1>9, <2>1 DEF Flags, OpenPoolFails, Leave, Go, InitializeFails
<1>10. CASE Connect
  <2>1. Flags'
    BY <1>10, Zenon DEF Flags, Connect, Go
  <2>. QED  BY <1>10, <2>1, StatementsType DEF Flags, Connect, Go
<1>11. CASE ConnectFails
  <2>1. Flags'
    BY <1>11, Zenon DEF Flags, ConnectFails, Leave, Go, InitializeFails
  <2>. QED  BY <1>11, <2>1 DEF Flags, ConnectFails, Leave, Go, InitializeFails
<1>12. CASE CreateNext
  <2>1. Flags'
    BY <1>12, Zenon DEF Flags, CreateNext
  <2>. QED  BY <1>12, <2>1, StatementsType DEF Flags, CreateNext
<1>13. CASE CreateFails
  <2>1. Flags'
    BY <1>13, Zenon DEF Flags, CreateFails, Go, InitializeFails
  <2>. QED  BY <1>13, <2>1, StatementsType DEF Flags, CreateFails, Go, InitializeFails
<1>14. CASE Unwind
  <2>1. Flags'
    BY <1>14, Zenon DEF Flags, Unwind, Leave, Go
  <2>. QED  BY <1>14, <2>1 DEF Flags, Unwind, Leave, Go
<1>15. CASE InitializeOk
  <2>1. Flags'
    BY <1>15, Zenon DEF Flags, InitializeOk, Go
  <2>. QED  BY <1>15, <2>1 DEF Flags, InitializeOk, Go
<1>16. CASE StartNotReady
  BY <1>16 DEF StartNotReady, Go
<1>17. CASE StartOk
  BY <1>17 DEF StartOk, Go
<1>18. CASE StartFails
  BY <1>18 DEF StartFails, Go
<1>19. CASE Listen
  <2>1. Flags'
    BY <1>19, Zenon DEF Flags, Listen, Go
  <2>. QED  BY <1>19, <2>1 DEF Flags, Listen, Go, HasQueue
<1>20. CASE SetReady
  <2>1. Flags'
    BY <1>20, Zenon DEF Flags, SetReady, HandlerStarts
  <2>. QED  BY <1>20, <2>1 DEF Flags, SetReady
<1>21. CASE GiveUp
  BY <1>21 DEF GiveUp, Leave, Go
<1>. QED
  BY <1>1, <1>2, <1>3, <1>4, <1>5, <1>6, <1>7, <1>8, <1>9, <1>10, <1>11, <1>12, <1>13,
     <1>14, <1>15, <1>16, <1>17, <1>18, <1>19, <1>20, <1>21 DEF Boot

LEMMA StopType == ASSUME TypeOK, StatementsLeft, Stop PROVE TypeOK'
<1>. USE LifeBounds DEF TypeOK, world, setup, wrapper, status, handler, threads, Kind, Starting
<1>1. CASE StopBegins
  <2>1. Flags'
    BY <1>1, Zenon DEF Flags, StopBegins, Go
  <2>. QED  BY <1>1, <2>1 DEF Flags, StopBegins, Go
<1>2. CASE ListenerCloses
  BY <1>2 DEF ListenerCloses, Go
<1>3. CASE ListenerDown
  BY <1>3 DEF ListenerDown, Go, HasQueue
<1>4. CASE CloseQueue
  BY <1>4 DEF CloseQueue, Go
<1>5. CASE JoinLoop
  BY <1>5 DEF JoinLoop, Go
<1>6. CASE ClearRunning
  <2>1. Flags'
    BY <1>6, Zenon DEF Flags, ClearRunning, Go
  <2>. QED  BY <1>6, <2>1 DEF Flags, ClearRunning, Go
<1>7. CASE Release
  <2>1. Flags'
    BY <1>7, Zenon DEF Flags, Release, Go
  <2>. QED  BY <1>7, <2>1 DEF Flags, Release, Go
<1>8. CASE JoinWaiter
  BY <1>8 DEF JoinWaiter, Leave, Go
<1>9. CASE UseAfterFree
  BY <1>9 DEF UseAfterFree, Leave, Go
<1>. QED  BY <1>1, <1>2, <1>3, <1>4, <1>5, <1>6, <1>7, <1>8, <1>9 DEF Stop

LEMMA WaitType == ASSUME TypeOK, StatementsLeft, Wait PROVE TypeOK'
<1>. USE LifeBounds DEF TypeOK, world, setup, wrapper, status, handler, threads, Kind, Starting
<1>1. CASE WaitReturns
  BY <1>1 DEF WaitReturns, WaiterGoes, HasQueue
<1>2. CASE ResetQueue
  BY <1>2 DEF ResetQueue, WaiterGoes
<1>3. CASE ResetServer
  <2>1. Flags'
    BY <1>3, Zenon DEF Flags, ResetServer, WaiterGoes
  <2>. QED  BY <1>3, <2>1 DEF Flags, ResetServer, WaiterGoes
<1>4. CASE DeleteServer
  <2>1. Flags'
    BY <1>4, Zenon DEF Flags, DeleteServer, WaiterGoes
  <2>. QED  BY <1>4, <2>1 DEF Flags, DeleteServer, WaiterGoes
<1>. QED  BY <1>1, <1>2, <1>3, <1>4 DEF Wait

LEMMA OtherType ==
  ASSUME TypeOK, CallBegins \/ CallEnds \/ Signal \/ PollerExits
  PROVE  TypeOK'
<1>. USE LifeBounds DEF TypeOK, world, setup, wrapper, status, handler, threads, Kind, Starting
<1>1. CASE CallBegins
  BY <1>1 DEF CallBegins
<1>2. CASE CallEnds
  BY <1>2 DEF CallEnds
<1>3. CASE Signal
  BY <1>3 DEF Signal, Go
<1>4. CASE PollerExits
  BY <1>4 DEF PollerExits
<1>. QED  BY <1>1, <1>2, <1>3, <1>4

LEMMA StepType == ASSUME TypeOK, StatementsLeft, [Next]_vars PROVE TypeOK'
<1>1. CASE UNCHANGED vars
  BY <1>1 DEF TypeOK, vars, world, setup, wrapper, status, handler, threads, Kind
<1>. QED  BY <1>1, WorldType, BootType, StopType, WaitType, OtherType DEF Next


----------------------------------------------------------------------------
(* The invariant, action by action                                         *)

LEMMA WorldPhases == ASSUME IInv, World PROVE Phases'
<1>. USE DEF world, setup, wrapper, status, handler, threads, Kind, Starting, Phases,
         Ended, Before, Quiet, Initializing, MadeSoFar, Executed, Parsed, Starts,
         Serving, Unreleased, Held, Listening, TakenApart,
         ReadyIsBacked, ReadyIsConfigured, ExitIsClean, CallsKeepTheirService
<1>0. /\ Phases /\ service \in Services /\ calls \in Nat
      /\ Kind = "sync" => queue = "none" /\ loop = "none"
  BY LifeBounds DEF IInv, TypeOK
<1>1. CASE FileEdited
  BY <1>0, <1>1 DEF FileEdited, Happens
<1>2. CASE DatabaseGoes
  BY <1>0, <1>2 DEF DatabaseGoes, Happens
<1>3. CASE DatabaseReturns
  BY <1>0, <1>3 DEF DatabaseReturns
<1>4. CASE Killed
  BY <1>0, <1>4 DEF Killed
<1>5. CASE Reboot
  BY <1>0, <1>5 DEF Reboot, Happens
<1>6. CASE PoolCloses
  BY <1>0, <1>6 DEF PoolCloses
<1>. QED  BY <1>1, <1>2, <1>3, <1>4, <1>5, <1>6 DEF World

LEMMA BootPhases == ASSUME IInv, Boot PROVE Phases'
<1>. USE DEF world, setup, wrapper, status, handler, threads, Kind, Starting, Phases,
         Ended, Before, Quiet, Initializing, MadeSoFar, Executed, Parsed, Starts,
         Serving, Unreleased, Held, Listening, TakenApart,
         ReadyIsBacked, ReadyIsConfigured, ExitIsClean, CallsKeepTheirService
<1>0. /\ Phases /\ service \in Services /\ calls \in Nat
      /\ Kind = "sync" => queue = "none" /\ loop = "none"
  BY LifeBounds DEF IInv, TypeOK
<1>1. CASE Load
  BY <1>0, <1>1 DEF Load, Go
<1>2. CASE LoadFails
  BY <1>0, <1>2 DEF LoadFails, Leave, Go, ExitFor
<1>3. CASE InitProgramEnvironment
  BY <1>0, <1>3 DEF InitProgramEnvironment, Go
<1>4. CASE EnvironmentFails
  BY <1>0, <1>4 DEF EnvironmentFails, Leave, Go
<1>5. CASE ReadSettings
  <2>1. document \in Documents
    BY DEF IInv, TypeOK
  <2>. QED  BY <1>0, <1>5, <2>1 DEF ReadSettings, Go, TakeSettings, Outcome
<1>6. CASE ReadSettingsFails
  BY <1>0, <1>6 DEF ReadSettingsFails, Leave, Go, ParseError
<1>7. CASE ReadSettingsThrows
  BY <1>0, <1>7 DEF ReadSettingsThrows, Leave, Go
<1>8. CASE OpenPool
  BY <1>0, <1>8 DEF OpenPool, Go, Openable
<1>9. CASE OpenPoolFails
  BY <1>0, <1>9 DEF OpenPoolFails, Leave, Go, InitializeFails
<1>10. CASE Connect
  BY <1>0, <1>10 DEF Connect, Go, Lends
<1>11. CASE ConnectFails
  BY <1>0, <1>11 DEF ConnectFails, Leave, Go, InitializeFails
<1>12. CASE CreateNext
  <2>1. /\ Executed \in Nat /\ Head(pending) = Schema(service)[Executed + 1]
        /\ Len(Tail(pending)) = Len(pending) - 1 /\ Len(pending) \in Nat
        /\ Executed + 1 \in 1..Len(Schema(service))
    BY <1>12, StatementsType DEF CreateNext, IInv
  <2>2. MadeSoFar'
    <3>. SUFFICES ASSUME NEW i \in 1..Executed'
                  PROVE  (Schema(service)[i].makes \in tables)'
      BY DEF MadeSoFar
    <3>1. /\ service' = service /\ pending' = Tail(pending)
          /\ tables' = tables \cup {Head(pending).makes}
      BY <1>12 DEF CreateNext
    <3>2. Len(Schema(service)) \in Int
      BY SchemaType DEF IInv, TypeOK
    <3>3. i \in 1..Executed \/ i = Executed + 1
      BY <2>1, <3>1, <3>2 DEF Executed
    <3>4. MadeSoFar
      BY <1>0, <1>12 DEF CreateNext
    <3>. QED  BY <2>1, <3>1, <3>3, <3>4 DEF MadeSoFar
  <2>. HIDE DEF MadeSoFar
  <2>. QED  BY <1>0, <1>12, <2>2 DEF CreateNext
<1>13. CASE CreateFails
  BY <1>0, <1>13 DEF CreateFails, InitializeFails
<1>14. CASE Unwind
  BY <1>0, <1>14 DEF Unwind, Leave, Go
<1>15. CASE InitializeOk
  <2>1. Names(Schema(service)) \subseteq tables
    <3>1. MadeSoFar /\ Len(pending) = 0
      BY <1>0, <1>15 DEF InitializeOk, Go
    <3>2. Schema(service) \in Seq(ToSet(Schema(service)))
      BY SchemaType DEF IInv, TypeOK
    <3>. QED  BY <3>1, <3>2 DEF MadeSoFar, Executed, Names, ToSet
  <2>. HIDE DEF MadeSoFar
  <2>. QED  BY <1>0, <1>15, <2>1 DEF InitializeOk, Go
<1>16. CASE StartNotReady
  BY <1>0, <1>16 DEF StartNotReady, Go
<1>17. CASE StartOk
  BY <1>0, <1>17 DEF StartOk, Go
<1>18. CASE StartFails
  BY <1>0, <1>18 DEF StartFails, Go
<1>19. CASE Listen
  BY <1>0, <1>19 DEF Listen, Go, HasQueue
<1>20. CASE SetReady
  <2>1. settings \in Documents /\ Parse(service, settings) = "ok"
    BY <1>0, <1>20 DEF SetReady
  <2>2. PoolSize(settings) \in Int
    BY <2>1, SizesAreNumbers DEF PoolSize, SizeRange
  <2>3. DatabaseEnabled(settings) => PoolSize(settings) \in 1..PoolLimit
    <3>1. DatabaseEnabled(settings) =>
            PoolSize(settings) <= PoolLimit /\ PoolSize(settings) > 0
      BY <1>0, <1>20 DEF SetReady
    <3>2. PoolLimit \in Int
      BY PoolLimitIsNumber
    <3>. HIDE DEF Phases
    <3>. QED  BY <2>2, <3>1, <3>2
  <2>4. ReadyIsConfigured'
    BY <1>20, <1>0, <2>1, <2>3, ParsedDocument DEF SetReady
  <2>5. Ended' /\ Quiet' /\ Initializing' /\ Serving' /\ Held' /\ Listening'
        /\ TakenApart'
    BY <1>0, <1>20 DEF SetReady
  <2>6. ReadyIsBacked' /\ ExitIsClean' /\ CallsKeepTheirService'
    BY <1>0, <1>20 DEF SetReady, HandlerStarts
  <2>. QED  BY <2>4, <2>5, <2>6
<1>21. CASE GiveUp
  BY <1>0, <1>21 DEF GiveUp, Leave, Go
<1>. QED
  BY <1>1, <1>2, <1>3, <1>4, <1>5, <1>6, <1>7, <1>8, <1>9, <1>10, <1>11, <1>12, <1>13,
     <1>14, <1>15, <1>16, <1>17, <1>18, <1>19, <1>20, <1>21 DEF Boot

LEMMA StopPhases == ASSUME IInv, Stop PROVE Phases'
<1>. USE DEF world, setup, wrapper, status, handler, threads, Kind, Starting, Phases,
         Ended, Before, Quiet, Initializing, MadeSoFar, Executed, Parsed, Starts,
         Serving, Unreleased, Held, Listening, TakenApart,
         ReadyIsBacked, ReadyIsConfigured, ExitIsClean, CallsKeepTheirService
<1>0. /\ Phases /\ service \in Services /\ calls \in Nat
      /\ Kind = "sync" => queue = "none" /\ loop = "none"
  BY LifeBounds DEF IInv, TypeOK
<1>1. CASE StopBegins
  BY <1>0, <1>1 DEF StopBegins, Go
<1>2. CASE ListenerCloses
  BY <1>0, <1>2 DEF ListenerCloses, Go
<1>3. CASE ListenerDown
  BY <1>0, <1>3 DEF ListenerDown, Go, HasQueue
<1>4. CASE CloseQueue
  BY <1>0, <1>4 DEF CloseQueue, Go
<1>5. CASE JoinLoop
  BY <1>0, <1>5 DEF JoinLoop, Go
<1>6. CASE ClearRunning
  BY <1>0, <1>6 DEF ClearRunning, Go
<1>7. CASE Release
  BY <1>0, <1>7 DEF Release, Go
<1>8. CASE JoinWaiter
  BY <1>0, <1>8 DEF JoinWaiter, Leave, Go
<1>9. CASE UseAfterFree
  BY <1>0, <1>9 DEF UseAfterFree, Leave, Go
<1>. QED  BY <1>1, <1>2, <1>3, <1>4, <1>5, <1>6, <1>7, <1>8, <1>9 DEF Stop

LEMMA WaitPhases == ASSUME IInv, Wait PROVE Phases'
<1>. USE DEF world, setup, wrapper, status, handler, threads, Kind, Starting, Phases,
         Ended, Before, Quiet, Initializing, MadeSoFar, Executed, Parsed, Starts,
         Serving, Unreleased, Held, Listening, TakenApart,
         ReadyIsBacked, ReadyIsConfigured, ExitIsClean, CallsKeepTheirService
<1>0. /\ Phases /\ service \in Services /\ calls \in Nat
      /\ Kind = "sync" => queue = "none" /\ loop = "none"
  BY LifeBounds DEF IInv, TypeOK
<1>1. CASE WaitReturns
  BY <1>0, <1>1 DEF WaitReturns, WaiterGoes, HasQueue
<1>2. CASE ResetQueue
  BY <1>0, <1>2 DEF ResetQueue, WaiterGoes
<1>3. CASE ResetServer
  BY <1>0, <1>3 DEF ResetServer, WaiterGoes
<1>4. CASE DeleteServer
  BY <1>0, <1>4 DEF DeleteServer, WaiterGoes
<1>. QED  BY <1>1, <1>2, <1>3, <1>4 DEF Wait

LEMMA OtherPhases ==
  ASSUME IInv, CallBegins \/ CallEnds \/ Signal \/ PollerExits
  PROVE  Phases'
<1>. USE DEF world, setup, wrapper, status, handler, threads, Kind, Starting, Phases,
         Ended, Before, Quiet, Initializing, MadeSoFar, Executed, Parsed, Starts,
         Serving, Unreleased, Held, Listening, TakenApart,
         ReadyIsBacked, ReadyIsConfigured, ExitIsClean, CallsKeepTheirService
<1>0. /\ Phases /\ service \in Services /\ calls \in Nat
      /\ Kind = "sync" => queue = "none" /\ loop = "none"
  BY LifeBounds DEF IInv, TypeOK
<1>1. CASE CallBegins
  <2>1. main \in {"ready", "run", "stop", "shutdown"}
    BY <1>0, <1>1 DEF CallBegins, IInv, TypeOK
  <2>. QED  BY <1>0, <1>1, <2>1 DEF CallBegins
<1>2. CASE CallEnds
  BY <1>0, <1>2 DEF CallEnds
<1>3. CASE Signal
  BY <1>0, <1>3 DEF Signal, Go
<1>4. CASE PollerExits
  BY <1>0, <1>4 DEF PollerExits
<1>. QED  BY <1>1, <1>2, <1>3, <1>4

LEMMA StepPhases == ASSUME IInv, [Next]_vars PROVE Phases'
<1>1. CASE UNCHANGED vars
  BY <1>1 DEF IInv, vars, world, setup, wrapper, status, handler, threads, Kind, Phases, Ended,
              Quiet, Initializing, MadeSoFar, Executed, Parsed, Serving, Held, Listening, TakenApart,
              ReadyIsBacked, ReadyIsConfigured, ExitIsClean, CallsKeepTheirService
<1>. QED  BY <1>1, WorldPhases, BootPhases, StopPhases, WaitPhases, OtherPhases DEF Next

LEMMA InitIInv == ASSUME Init PROVE IInv
<1>1. TypeOK /\ StatementsLeft
  <2>1. IsSuffix(pending, Schema(service)) /\ StatementsLeft
    BY SchemaType, SuffixEnds DEF Init, StatementsLeft
  <2>2. Flags
    BY Zenon DEF Init, Flags
  <2>3. /\ happened \in [boots : 1..MaxBoots, edits : 0..MaxEdits, outages : 0..MaxOutages]
        /\ calls \in 0..MaxCalls
    BY LifeBounds DEF Init
  <2>. QED  BY <2>1, <2>2, <2>3 DEF Init, TypeOK, Flags, Starting
<1>2. Phases
  BY DEF Init, Phases, Ended, Before, Starting, Quiet, Initializing, Starts, Serving, Unreleased,
         Held, Listening, TakenApart, ReadyIsBacked, ReadyIsConfigured, ExitIsClean,
         CallsKeepTheirService
<1>. QED  BY <1>1, <1>2 DEF IInv

----------------------------------------------------------------------------
(* The theorems                                                            *)

(* The inductive invariant holds of every behaviour. *)
THEOREM Invariant == Spec => []IInv
<1>1. Init => IInv
  BY InitIInv
<1>2. IInv /\ [Next]_vars => IInv'
  <2>. SUFFICES ASSUME IInv, [Next]_vars PROVE IInv'
    OBVIOUS
  <2>1. TypeOK'
    BY StepType DEF IInv
  <2>2. StatementsLeft'
    BY StatementsStay DEF IInv, vars, world, setup, StatementsLeft
  <2>3. Phases'
    BY StepPhases
  <2>. QED  BY <2>1, <2>2, <2>3 DEF IInv
<1>. QED  BY <1>1, <1>2, PTL DEF Spec

(* Every variable of the service process keeps its type, and only the      *)
(* asynchronous kind has a completion queue and a poller.                  *)
THEOREM TypeCorrect == Spec => []TypeOK
<1>1. IInv => TypeOK
  BY DEF IInv
<1>. QED  BY <1>1, Invariant, PTL

(* Whatever failed, went away or was left half done by an earlier boot, a  *)
(* service that says Ready listens, has its objects and its database, and  *)
(* every table and index of its schema exists.                             *)
THEOREM ReadyIsBackedHolds == Spec => []ReadyIsBacked
<1>1. IInv => ReadyIsBacked
  BY DEF IInv, Phases
<1>. QED  BY <1>1, Invariant, PTL

(* However the file is edited between the two times it is read, the        *)
(* settings of a Ready service have passed every check, and its pool has   *)
(* connections.                                                            *)
THEOREM ReadyIsConfiguredHolds == Spec => []ReadyIsConfigured
<1>1. IInv => ReadyIsConfigured
  BY DEF IInv, Phases
<1>. QED  BY <1>1, Invariant, PTL

(* A call of a synchronous service finds the service object and the        *)
(* database up to its end, whichever of Stop and Wait is ahead.            *)
THEOREM CallsKeepTheirServiceHolds == Spec => []CallsKeepTheirService
<1>1. IInv => CallsKeepTheirService
  BY DEF IInv, Phases
<1>. QED  BY <1>1, Invariant, PTL

(* A process that reports success has wound everything up.                 *)
THEOREM ExitIsCleanHolds == Spec => []ExitIsClean
<1>1. IInv => ExitIsClean
  BY DEF IInv, Phases
<1>. QED  BY <1>1, Invariant, PTL

(* A boot that finds tables and indexes of earlier ones, all or some of    *)
(* them, is not refused by the database: every statement allows for what   *)
(* it makes, and the tables it needs are made before it.  Only a cut       *)
(* connection fails it.                                                    *)
THEOREM SchemaRepeatsHolds == Spec => SchemaRepeats
<1>1. IInv /\ [Next]_vars => [main = "schema" /\ main' = "unwind" => Cut]_vars
  <2>. SUFFICES ASSUME IInv, Next, main = "schema", main' = "unwind" PROVE Cut
    OBVIOUS
  <2>. USE DEF Go, Leave
  <2>1. CASE World
    BY <2>1 DEF World, FileEdited, DatabaseGoes, DatabaseReturns, PoolCloses, Killed,
                Reboot, threads
  <2>2. CASE Boot
    <3>1. CASE CreateFails
      <4>. DEFINE statement == Head(pending)
      <4>1. SUFFICES ASSUME reachable, pending # <<>> PROVE Accepts(statement)
        BY <3>1 DEF CreateFails, Cut
      <4>2. /\ Executed \in Nat /\ Executed + 1 \in 1..Len(Schema(service))
            /\ statement = Schema(service)[Executed + 1]
        BY <4>1, StatementsType DEF IInv
      <4>3. Repeatable(Schema(service))
        BY SchemaRepeatable DEF IInv, TypeOK
      <4>4. statement.if_not_exists = TRUE
        BY <4>2, <4>3 DEF Repeatable
      <4>5. \A table \in statement.needs : table \in tables
        <5>1. MadeSoFar
          BY DEF IInv, Phases, Initializing
        <5>2. ASSUME NEW table \in statement.needs
              PROVE  \E j \in 1..Executed : Schema(service)[j].makes = table
          <6>1. \E j \in 1..(Executed + 1) - 1 : Schema(service)[j].makes = table
            BY <4>2, <4>3 DEF Repeatable
          <6>. QED  BY <4>2, <6>1
        <5>. QED  BY <5>1, <5>2 DEF MadeSoFar
      <4>. HIDE DEF statement
      <4>. QED  BY <4>1, <4>4, <4>5 DEF Accepts
    <3>2. CASE CreateNext
      BY <3>2 DEF CreateNext, threads
    <3>3. CASE SetReady
      BY <3>3 DEF SetReady
    <3>. QED  BY <2>2, <3>1, <3>2, <3>3
           DEF Boot, Load, LoadFails, InitProgramEnvironment, EnvironmentFails, ReadSettings,
               TakeSettings, ReadSettingsFails, ReadSettingsThrows, OpenPool, OpenPoolFails,
               Connect, ConnectFails, Unwind, InitializeOk, StartNotReady, StartOk,
               StartFails, Listen, GiveUp
  <2>3. CASE CallBegins \/ CallEnds \/ Signal \/ PollerExits
    BY <2>3 DEF CallBegins, CallEnds, Signal, PollerExits, threads
  <2>4. CASE Stop
    BY <2>4 DEF Stop, StopBegins, ListenerCloses, ListenerDown, CloseQueue, JoinLoop,
                ClearRunning, Release, JoinWaiter, UseAfterFree
  <2>5. CASE Wait
    BY <2>5 DEF Wait, WaitReturns, ResetQueue, ResetServer, DeleteServer, WaiterGoes
  <2>. QED  BY <2>1, <2>2, <2>3, <2>4, <2>5 DEF Next
<1>. QED  BY <1>1, Invariant, PTL DEF Spec, SchemaRepeats
=============================================================================
