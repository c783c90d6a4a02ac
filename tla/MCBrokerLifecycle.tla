------------------------- MODULE MCBrokerLifecycle -------------------------
(***************************************************************************)
(* BrokerLifecycle for TLC; the configurations give the constants values.   *)
(***************************************************************************)
EXTENDS BrokerLifecycle

============================================================================
