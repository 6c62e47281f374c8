---------------------------- MODULE MCStoreLocks ----------------------------
(* StoreLocks with a goroutine per call.                                    *)
EXTENDS StoreLocks, TLC

CONSTANTS t1, t2, t3, t4, t5

\* the calls of a running and closing node, and of one that cleans the DB up
Node == (t1 :> "cache") @@ (t2 :> "cache") @@ (t3 :> "stat") @@ (t4 :> "close")
        @@ (t5 :> "cleanup")
=============================================================================
