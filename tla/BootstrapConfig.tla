--------------------------- MODULE BootstrapConfig ---------------------------
(***************************************************************************)
(* What each service makes of its JSON configuration file                  *)
(* (common/config/*.cpp).  A document is reduced to what the parsers tell  *)
(* apart:                                                                  *)
(*   root       "unreadable" (no file, no JSON), "array", or "object"      *)
(*   sections   which of config, grpc and database are there, as objects   *)
(*   endpoint   does ParseServiceEndpoint accept the grpc section          *)
(*   empty      the log names of config that are empty                     *)
(*   default_ttl_ms, expire_scan_interval_ms                               *)
(*   enabled, type, legacy (is there a conn_string), size of the database  *)
(*   mistyped   <<section, field>> of every value of an unexpected type    *)
(* Parsing gives "ok", "none" (nullopt), or "throws": the json library     *)
(* throws when it has to convert a value of an unexpected type, and no     *)
(* caller catches.  The checks run one after the other and the first that  *)
(* fails decides.                                                          *)
(***************************************************************************)
EXTENDS Integers, FiniteSetsExt

Services == {"account", "account_risk", "config"}

FirstFailure(checks) ==
  LET failed == {i \in DOMAIN checks : checks[i] # "ok"}
  IN IF failed = {} THEN "ok" ELSE checks[Min(failed)]

Check(holds) == IF holds THEN "ok" ELSE "none"
Read(document, section, fields) ==
  IF \E field \in fields : <<section, field>> \in document.mistyped
  THEN "throws" ELSE "ok"

----------------------------------------------------------------------------
(* The database section                                                    *)

(* The fields that the connection settings of each type are built from; an *)
(* unknown type is taken for sqlite3.                                      *)
ServerFields == {"host", "port", "user", "password", "connect_timeout", "soci_options"}
ConnectionFields(type) ==
  CASE type = "mysql"      -> ServerFields \cup {"database_name"}
    [] type = "postgresql" -> ServerFields \cup {"database_name", "socket_path",
                                                 "ssl_mode", "connection_type"}
    [] type = "oracle"     -> ServerFields \cup {"service_name"}
    [] OTHER               -> {"database_path", "busy_timeout", "soci_options"}

BuildConnectionConfig(document) ==
  FirstFailure(<<
    Read(document, "database", {"type"}),
    IF document.legacy
    THEN Read(document, "database", {"conn_string", "soci_options"})
    ELSE Read(document, "database.config", ConnectionFields(document.type))>>)

ParseDatabaseConfig(document) ==
  IF "database" \notin document.sections THEN "ok"
  ELSE IF Read(document, "database", {"enabled"}) = "throws" THEN "throws"
  ELSE IF ~document.enabled THEN "ok"
  ELSE FirstFailure(<<
         BuildConnectionConfig(document),
         Read(document, "database.pool", {"size", "lease_timeout"})>>)

(* Without an enabled database the pool options are the library's own. *)
DatabaseEnabled(document) ==
  "database" \in document.sections /\ document.enabled

(* get<std::size_t> of a number wraps around; SizeRange stands for 2^64. *)
SizeRange == 65536
PoolSize(document) == document.size % SizeRange

----------------------------------------------------------------------------
(* The three services                                                      *)

HasSection(document, name) == Check(name \in document.sections)
HasEndpoint(document) == Check(document.endpoint)
HasLogNames(document) == Check(document.empty = {})
LogFields == {"log_dir", "log_filename"}

ParseCommonConfig(document) ==
  FirstFailure(<<
    Check(document.root = "object"),
    HasSection(document, "config"),
    HasSection(document, "grpc"),
    HasEndpoint(document),
    Read(document, "config", LogFields),
    HasLogNames(document),
    ParseDatabaseConfig(document)>>)

Intervals == {"default_ttl_ms", "expire_scan_interval_ms"}

ParseAccountRiskConfig(document) ==
  FirstFailure(<<
    Check(document.root = "object"),
    HasSection(document, "grpc"),
    HasEndpoint(document),
    HasSection(document, "config"),
    Read(document, "config", LogFields \cup Intervals),
    HasLogNames(document),
    Check(\A field \in Intervals : document[field] > 0),
    ParseDatabaseConfig(document)>>)

(* LoadJsonFile and the service's parser. *)
Parse(service, document) ==
  IF document.root = "unreadable" THEN "none"
  ELSE IF service = "account_risk" THEN ParseAccountRiskConfig(document)
  ELSE ParseCommonConfig(document)
=============================================================================
