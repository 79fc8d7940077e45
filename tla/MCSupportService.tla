-------------------------- MODULE MCSupportService --------------------------
(* The configuration files of the runs: the shipped one, and that file with *)
(* one thing wrong or different.                                            *)
EXTENDS SupportService

(* config/qtrade_*_service.json *)
Shipped == [
  root |-> "object", sections |-> {"config", "grpc", "database"},
  endpoint |-> TRUE, empty |-> {},
  default_ttl_ms |-> 5000, expire_scan_interval_ms |-> 500,
  enabled |-> TRUE, type |-> "mysql", legacy |-> FALSE, size |-> 4,
  mistyped |-> {}]

Mistyped(section, field) ==
  [Shipped EXCEPT !.mistyped = {<<section, field>>}]

SomeDocuments == {
  Shipped,
  [Shipped EXCEPT !.root = "unreadable"],
  [Shipped EXCEPT !.root = "array"],
  [Shipped EXCEPT !.sections = @ \ {"grpc"}],
  [Shipped EXCEPT !.endpoint = FALSE],
  [Shipped EXCEPT !.empty = {"log_dir"}],
  [Shipped EXCEPT !.expire_scan_interval_ms = 0],
  [Shipped EXCEPT !.sections = @ \ {"database"}],
  [Shipped EXCEPT !.enabled = FALSE],
  [Shipped EXCEPT !.size = 0],
  [Shipped EXCEPT !.size = -1],
  Mistyped("config", "log_filename"),
  Mistyped("database.config", "port"),
  \* oracle does not read the field; with conn_string nothing of config is read
  [Mistyped("database.config", "database_name") EXCEPT !.type = "oracle"],
  [Mistyped("database.config", "port") EXCEPT !.legacy = TRUE]}

ShippedOnly == {Shipped}
=============================================================================
