----------------------------- MODULE MCEventLoop -----------------------------
(* The instance of EventLoop that TLC checks: two threads that take events of  *)
(* two kinds, and a list of up to two handlers.                               *)
EXTENDS EventLoop
CONSTANTS c1, c2, h1, h2
MCConsumers == {c1, c2}
MCHandlers == {h1, h2}
MCMatches == [h \in MCHandlers |-> IF h = h1 THEN Kinds ELSE {"process_exited"}]
MCKind == <<"process_started", "process_exited", "process_exited">>
=============================================================================
