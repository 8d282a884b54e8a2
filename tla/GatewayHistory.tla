--------------------------- MODULE GatewayHistory ---------------------------
(***************************************************************************)
(* Gateway with the history of its endings.  A status is no record of what *)
(* happened to a call: markCall (voiceagent-saas/server.js:417-426) writes *)
(* the object its caller read before a request, status included, so an     *)
(* ended call may read as live again.                                      *)
(***************************************************************************)
EXTENDS Gateway

VARIABLE over  \* history: calls that had failed or ended at some time

historyVars == <<gatewayVars, over>>

IsOver(r) == r # None /\ r.status \in {"bridge_failed", "failed", "ended"}

HistoryInit == GatewayInit /\ over = {}
HistoryNext == GatewayNext /\ over' = over \cup {c \in Calls : IsOver(rec'[c])}
HistorySpec == HistoryInit /\ [][HistoryNext]_historyVars

----------------------------------------------------------------------------
(* Properties                                                              *)


=============================================================================
