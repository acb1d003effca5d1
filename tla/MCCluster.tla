----------------------------- MODULE MCCluster -----------------------------
(* A small instance of Cluster for TLC.                                    *)
EXTENDS Cluster

CONSTANTS t1

(* The worker, the channel and what the manager does to them: the history  *)
(* of the manager and its cascading bookkeeping never influence a step.    *)
MCView == <<wstate, tasks, joining, countDown, ticking, round, loss_count, leaving,
            channel, state, workers, sched>>
=============================================================================
