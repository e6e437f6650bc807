---------------------------- MODULE ExclusiveLock ----------------------------
(***************************************************************************)
(* What a lock of src/platform/process-lock.ts promises its callers, with  *)
(* no mention of sockets, names or attempts: one holder per key, until it  *)
(* releases the lock or its process ends.  ProcessLock implements it where *)
(* the name of a lock is a named pipe.                                     *)
(***************************************************************************)
CONSTANTS Procs, Keys

VARIABLE holders      \* holders[k]: the processes that hold the lock of k

TypeOK == holders \in [Keys -> SUBSET Procs]

Init == holders = [k \in Keys |-> {}]

\* Only a lock nobody holds is given.
Acquire(p, k) ==
    /\ holders[k] = {}
    /\ holders' = [holders EXCEPT ![k] = {p}]

Free(p, k) ==
    /\ p \in holders[k]
    /\ holders' = [holders EXCEPT ![k] = @ \ {p}]

\* A process that ends holds nothing any more.
End(p) == holders' = [k \in Keys |-> holders[k] \ {p}]

Next == \E p \in Procs :
    \/ \E k \in Keys : Acquire(p, k) \/ Free(p, k)
    \/ End(p)

Spec == Init /\ [][Next]_holders

=============================================================================
