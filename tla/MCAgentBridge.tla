--------------------------- MODULE MCAgentBridge ---------------------------
(* Instances of AgentBridge for TLC.                                        *)
EXTENDS AgentBridge, TLC

\* 5 is ready and sh (4) sleeps: one candidate; both sleep: the second filter applies and
\* there are two; nobody but the first three processes, and an unused slot.
MCTables == {4 :> 2 @@ 5 :> 3, 4 :> 2 @@ 5 :> 2, 0 :> 0 @@ 3 :> 3}

\* A candidate, and a process that never is one.
MCAnswers == {3, 5}
=============================================================================
