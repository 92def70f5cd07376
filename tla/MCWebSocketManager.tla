------------------------ MODULE MCWebSocketManager -------------------------
(***************************************************************************)
(* WebSocketManager with two connections and two executions: all of one    *)
(* job, or a connection and an execution for each of two jobs.             *)
(***************************************************************************)
EXTENDS WebSocketManager

CONSTANTS c1, c2, s1, s2, j1, j2

MCTopics ==
    {[x \in {c1, c2, s1, s2} |-> j1],
     [x \in {c1, c2, s1, s2} |-> IF x \in {c1, s1} THEN j1 ELSE j2]}
=============================================================================
