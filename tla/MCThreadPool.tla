---------------------------- MODULE MCThreadPool ----------------------------
(* The instance of ThreadPool that TLC checks, see the MCThreadPool*.cfg.   *)
EXTENDS ThreadPool
CONSTANTS w1, w2, c1, c2, t1, t2, t3
MCWorkers == {w1, w2}
MCClients == {c1, c2}
MCTasks == {t1, t2, t3}
=============================================================================
