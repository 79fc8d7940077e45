---------------------------- MODULE ServiceSchema ----------------------------
(***************************************************************************)
(* The tables of each service and the statements that make them.  A table  *)
(* DAO (dao/*/*.cpp) hands over its CREATE TABLE and CREATE INDEX          *)
(* statements; here a statement is the name of what it makes, the tables   *)
(* that must exist for it, and whether it says IF NOT EXISTS.              *)
(***************************************************************************)
EXTENDS Sequences, SequencesExt

Create(table) == [makes |-> table, needs |-> {}, if_not_exists |-> TRUE]

(* Mutant: the indexes are made without IF NOT EXISTS. *)
IndexOnce(idx, table) == [makes |-> idx, needs |-> {table}, if_not_exists |-> FALSE]
Index(idx, table) == [makes |-> idx, needs |-> {table}, if_not_exists |-> TRUE]

(* Mutant: the indexes come first. *)
EnsureIndexesFirst(kCreateTableSqls, kIndexSqls) == kIndexSqls \o kCreateTableSqls

(* EnsureTableSchema executes the CREATE TABLE statements of a DAO, then   *)
(* its CREATE INDEX statements.                                            *)
EnsureTableSchema(kCreateTableSqls, kIndexSqls) == kCreateTableSqls \o kIndexSqls

TradingAccount    == EnsureTableSchema(<<Create("trading_account")>>, <<>>)
AccountCredential == EnsureTableSchema(<<Create("account_credential")>>, <<>>)

AccountRiskPolicy ==
  EnsureTableSchema(<<Create("account_risk_policy")>>,
    <<Index("idx_account_risk_policy_enabled", "account_risk_policy")>>)
OrderReservation ==
  EnsureTableSchema(<<Create("order_reservation")>>,
    <<Index("idx_order_reservation_status", "order_reservation"),
      Index("idx_order_reservation_expires", "order_reservation")>>)
AccountRiskLedger ==
  EnsureTableSchema(<<Create("account_risk_ledger")>>,
    <<Index("idx_account_risk_ledger_updated", "account_risk_ledger")>>)

EngineConfig     == EnsureTableSchema(<<Create("engine_config")>>, <<>>)
TenantRiskPolicy ==
  EnsureTableSchema(<<Create("tenant_risk_policy")>>,
    <<Index("idx_tenant_risk_policy_enabled", "tenant_risk_policy")>>)
InstanceRiskPolicy ==
  EnsureTableSchema(<<Create("instance_risk_policy")>>,
    <<Index("idx_instance_risk_policy_engine", "instance_risk_policy")>>)
StrategyRiskPolicy ==
  EnsureTableSchema(<<Create("strategy_risk_policy")>>,
    <<Index("idx_strategy_risk_policy_strategy", "strategy_risk_policy")>>)
InstrumentRiskPolicy ==
  EnsureTableSchema(<<Create("instrument_risk_policy")>>,
    <<Index("idx_instrument_risk_policy_instr", "instrument_risk_policy")>>)
OrderRiskPolicy   == EnsureTableSchema(<<Create("order_risk_policy")>>, <<>>)
QuoteHealthPolicy ==
  EnsureTableSchema(<<Create("quote_health_policy")>>,
    <<Index("idx_quote_health_policy_engine", "quote_health_policy")>>)

(* The statements of the EnsureTableSchema calls, in the order in which    *)
(* the Initialize of each service makes them.                              *)
Schema(service) ==
  CASE service = "account"      -> TradingAccount \o AccountCredential
    [] service = "account_risk" -> AccountRiskPolicy \o OrderReservation
                                     \o AccountRiskLedger
    [] service = "config"       -> EngineConfig \o TenantRiskPolicy
                                     \o InstanceRiskPolicy \o StrategyRiskPolicy
                                     \o InstrumentRiskPolicy \o OrderRiskPolicy
                                     \o QuoteHealthPolicy

(* What a sequence of statements makes. *)
Names(statements) == {statement.makes : statement \in ToSet(statements)}
=============================================================================
