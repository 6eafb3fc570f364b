--------------------------- MODULE MCTransactions ---------------------------
(* Small instances of Transactions: one or two application threads, with   *)
(* the MQTT task for MQTT.                                                 *)
EXTENDS Transactions, TLC

CONSTANTS app1, app2, net, t1, t2

MCOneApp == {app1, net}
MCHttp == {app1, app2}
MCTxns == {t1, t2}
MCLossy == {t2}
MCSymmetry == Permutations(MCTxns)
MCHeartbeat == [th \in {app1, app2, net} |-> {"heartbeat"}]
\* One thread calls every API function, the other competes with it for the
\* store.
MCAllFunctions ==
  app1 :> {"bind", "heartbeat", "ota_next", "ota_ongoing", "ota_status",
           "submit_float", "submit_geo", "submit_status", "vs_set_float",
           "vs_set_string", "vs_set_bool", "vs_set_bin", "vs_get", "vs_list",
           "vs_delete", "event", "log", "cmd_status", "cmd_list", "cmd_next"}
    @@ app2 :> {"heartbeat"}
=============================================================================
