--------------------------- MODULE MCExecuteProcess ---------------------------
(* The instance of ExecuteProcess that TLC checks, with all options.           *)
EXTENDS ExecuteProcess
CONSTANTS p1, p2, p3
MCPids == {p1, p2, p3}
MCOptionSets ==
  {o \in [safe : BOOLEAN, screen : BOOLEAN, watched : BOOLEAN, retries : 0 .. 2,
          delay : {2}, backoff : {0, 2}] : (o.backoff = 0 \/ o.retries = 2) /\ (o.watched => o.safe)}
MCMemoryLevels == {1, 3}
MCLoadLevels == {2, 9}
=============================================================================
