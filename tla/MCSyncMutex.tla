---------------------------- MODULE MCSyncMutex -----------------------------
(* Instances of SyncMutex for TLC. *)
EXTENDS SyncMutex, TLC

CONSTANTS t1, t2, t3

Events == {"event", "high_priority_event"}

\* Three threads call once each, or two of them twice.
OnceOrTwice == {t1 :> 1 @@ t2 :> 1 @@ t3 :> 1, t1 :> 2 @@ t2 :> 0 @@ t3 :> 2}

Once == {t1 :> 1 @@ t2 :> 1 @@ t3 :> 1}
=============================================================================
