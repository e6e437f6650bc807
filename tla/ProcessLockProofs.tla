------------------------- MODULE ProcessLockProofs -------------------------
(***************************************************************************)
(* Proofs about ProcessLock for any set of processes and keys: its type    *)
(* invariant on both platforms, and mutual exclusion where the name is a   *)
(* named pipe.                                                             *)
(***************************************************************************)
EXTENDS ProcessLock, TLAPS

Entry == [at : Places, attempt : 0..1, rival : BOOLEAN]

\* Moving one entry keeps the type of the whole function.
LEMMA MoveType ==
    ASSUME LockTypeOK, NEW p \in Procs, NEW k \in Keys, NEW at \in Places, NEW n \in 0..1,
           Move(p, k, at, n)
    PROVE  lock' \in [Procs -> [Keys -> Entry]]
<1>2. lock[p][k].rival \in BOOLEAN
  BY DEF LockTypeOK
<1>3. Rival(p, k) \in BOOLEAN
  BY DEF Rival
<1>4. [at |-> at, attempt |-> n, rival |-> lock[p][k].rival \/ Rival(p, k)] \in Entry
  BY <1>2, <1>3 DEF Entry
<1>. QED
  BY <1>4 DEF Move, LockTypeOK, Entry

\* A second attempt, or the refusal, keeps the type.
LEMMA NextAttemptType ==
    ASSUME LockTypeOK, NEW p \in Procs, NEW k \in Keys, NextAttempt(p, k)
    PROVE  lock' \in [Procs -> [Keys -> Entry]]
<1>1. "listen" \in Places /\ "refused" \in Places /\ 1 \in 0..1
  BY DEF Places
<1>. QED
  BY <1>1, MoveType DEF NextAttempt

\* So does the binding of the name, which the contenders see.
LEMMA BindByType ==
    ASSUME LockTypeOK, NEW p \in Procs, NEW k \in Keys, NEW at \in Places, BindBy(p, k, at)
    PROVE  lock' \in [Procs -> [Keys -> Entry]]
<1>1. ASSUME NEW q \in Procs PROVE lock[q] \in [Keys -> Entry]
  BY <1>1 DEF LockTypeOK, Entry
<1>2. ASSUME NEW e \in Entry
      PROVE  [e EXCEPT !.at = at] \in Entry /\ [e EXCEPT !.rival = TRUE] \in Entry
  BY <1>2 DEF Entry
<1>. QED
  BY <1>1, <1>2 DEF BindBy

\* A contender that is not in a call has a well-typed entry.
LEMMA IdleEntry == Idle \in Entry
  BY DEF Idle, Entry, Places

\* One step of one process keeps the type invariant.
LEMMA StepType ==
    ASSUME LockTypeOK, NEW p \in Procs, NEW k \in Keys,
           TryAcquire(p, k) \/ LockStep(p, k) \/ Refused(p, k) \/ Release(p, k)
    PROVE  LockTypeOK'
<1>0. lock[p][k] \in Entry /\ lock[p][k].attempt \in 0..1
  BY DEF LockTypeOK, Entry
<1>. USE <1>0
<1>p. {"listen", "bound", "probe", "stat", "rename", "held", "closing", "refused"} \subseteq Places
  BY DEF Places
<1>1. CASE TryAcquire(p, k)
  <2>1. [at |-> "listen", attempt |-> 0, rival |-> Rival(p, k)] \in Entry
    BY <1>p DEF Entry, Rival
  <2>. QED  BY <1>1, <2>1 DEF TryAcquire, LockTypeOK, Entry
<1>2. CASE Bind(p, k)
  <2>1. PICK at \in Places : BindBy(p, k, at)
    BY <1>2, <1>p DEF Bind
  <2>. QED  BY <1>2, <2>1, BindByType DEF Bind, LockTypeOK, Entry
<1>3. CASE Listening(p, k)
  BY <1>3, <1>p, MoveType DEF Listening, LockTypeOK, Entry
<1>4. CASE AddressInUse(p, k)
  <2>1. PICK at \in Places : Move(p, k, at, lock[p][k].attempt)
    BY <1>4, <1>p DEF AddressInUse
  <2>. QED  BY <1>4, <2>1, MoveType DEF AddressInUse, LockTypeOK, Entry
<1>5. CASE SocketIsActive(p, k)
  <2>1. PICK at \in Places : Move(p, k, at, lock[p][k].attempt)
    BY <1>5, <1>p DEF SocketIsActive
  <2>. QED  BY <1>5, <2>1, MoveType DEF SocketIsActive, LockTypeOK, Entry
<1>6. CASE StatStale(p, k)
  BY <1>6, <1>p, MoveType, NextAttemptType DEF StatStale, LockTypeOK, Entry
<1>7. CASE RemoveStale(p, k)
  BY <1>7, NextAttemptType DEF RemoveStale, LockTypeOK, Entry
<1>8. CASE Closed(p, k)
  BY <1>8, IdleEntry DEF Closed, LockTypeOK, Entry
<1>9. CASE Refused(p, k)
  BY <1>9, IdleEntry DEF Refused, LockTypeOK, Entry
<1>10. CASE Release(p, k)
  <2>1. [lock[p][k] EXCEPT !.at = "closing"] \in Entry
    BY <1>p DEF Entry
  <2>. QED  BY <1>10, <2>1, IdleEntry DEF Release, LockTypeOK, Entry
<1>. QED
  BY <1>1, <1>2, <1>3, <1>4, <1>5, <1>6, <1>7, <1>8, <1>9, <1>10 DEF LockStep

\* Every state of the lock is well typed, for any processes and keys and on both
\* platforms: the second attempt of tryAcquireProcessLock is the last one.
THEOREM LockTypeCorrect == LockSpec => []LockTypeOK
<1>1. LockInit => LockTypeOK
  BY IdleEntry DEF LockInit, LockTypeOK, Entry
<1>2. LockTypeOK /\ [LockNext]_lockVars => LockTypeOK'
  <2>. SUFFICES ASSUME LockTypeOK, [LockNext]_lockVars PROVE LockTypeOK'
    OBVIOUS
  <2>1. CASE UNCHANGED lockVars
    BY <2>1 DEF lockVars, LockTypeOK
  <2>2. ASSUME NEW p \in Procs, LockCrash(p) PROVE LockTypeOK'
    <3>1. lock' \in [Procs -> [Keys -> Entry]]
      BY <2>2, IdleEntry DEF LockCrash, LockTypeOK, Entry
    <3>2. name' \in [Keys -> Procs \cup {NoOne, Stale}]
      BY <2>2 DEF LockCrash, LockTypeOK
    <3>. QED  BY <3>1, <3>2 DEF LockTypeOK, Entry
  <2>. QED
    BY <2>1, <2>2, StepType DEF LockNext
<1>. QED
  BY <1>1, <1>2, PTL DEF LockSpec

-----------------------------------------------------------------------------
\* On Windows the name and its holder go together: a process holds the lock only
\* while the pipe's name leads to it, and no step of the socket's clean-up is ever
\* reached.
PipeInv ==
    \A p \in Procs, k \in Keys :
        /\ At(p, k) \in {"idle", "listen", "held", "refused"}
        /\ Holds(p, k) => name[k] = p

\* What the step of p on k does to the places and to the name, on Windows.
LEMMA PipeStep ==
    ASSUME Platform = "win32", LockTypeOK, PipeInv, NEW p \in Procs, NEW k \in Keys,
           TryAcquire(p, k) \/ LockStep(p, k) \/ Refused(p, k) \/ Release(p, k)
    PROVE  PipeInv'
<1>0. /\ At(p, k) \in {"idle", "listen", "held", "refused"}
      /\ Holds(p, k) => name[k] = p
  BY DEF PipeInv
<1>. USE <1>0
<1>. SUFFICES ASSUME NEW q \in Procs, NEW j \in Keys
              PROVE  /\ At(q, j)' \in {"idle", "listen", "held", "refused"}
                     /\ Holds(q, j)' => name'[j] = q
  BY DEF PipeInv
<1>q. /\ At(q, j) \in {"idle", "listen", "held", "refused"}
      /\ Holds(q, j) => name[j] = q
      /\ NoOne # q
      /\ lock[q][j] \in Entry /\ lock[p][k] \in Entry
  BY MarksAssumption DEF PipeInv, LockTypeOK, Entry
<1>1. CASE TryAcquire(p, k)
  BY <1>1, <1>q DEF TryAcquire, LockTypeOK, At, Holds
<1>2. CASE Bind(p, k)
  <2>1. CASE q = p /\ j = k
    BY <1>2, <1>q, <2>1 DEF Bind, BindBy, LockTypeOK, At, Holds, Entry
  <2>2. CASE ~(q = p /\ j = k)
    <3>1. At(q, j)' = At(q, j)
      BY <1>2, <1>q, <2>2 DEF Bind, BindBy, LockTypeOK, At, Entry
    <3>2. name'[j] = name[j] \/ (j = k /\ name[j] = NoOne)
      BY <1>2 DEF Bind, LockTypeOK
    <3>. QED  BY <3>1, <3>2, <1>q DEF Holds
  <2>. QED  BY <2>1, <2>2
<1>3. CASE AddressInUse(p, k)
  BY <1>3, <1>q DEF AddressInUse, Move, LockTypeOK, At, Holds
<1>4. CASE Refused(p, k)
  BY <1>4, <1>q DEF Refused, LockTypeOK, At, Holds, Idle
<1>5. CASE Release(p, k)
  BY <1>5, <1>q DEF Release, LockTypeOK, At, Holds, Idle
<1>6. CASE Listening(p, k) \/ SocketIsActive(p, k) \/ StatStale(p, k) \/ RemoveStale(p, k) \/ Closed(p, k)
  BY <1>6 DEF Listening, SocketIsActive, StatStale, RemoveStale, Closed
<1>. QED
  BY <1>1, <1>2, <1>3, <1>4, <1>5, <1>6 DEF LockStep

\* A process that ends takes its pipes along and nobody else's.
LEMMA PipeCrash ==
    ASSUME Platform = "win32", LockTypeOK, PipeInv, NEW p \in Procs, LockCrash(p)
    PROVE  PipeInv'
<1>. SUFFICES ASSUME NEW q \in Procs, NEW j \in Keys
              PROVE  /\ At(q, j)' \in {"idle", "listen", "held", "refused"}
                     /\ Holds(q, j)' => name'[j] = q
  BY DEF PipeInv
<1>2. lock'[q][j] = IF q = p THEN Idle ELSE lock[q][j]
  BY DEF LockCrash, LockTypeOK
<1>3. q # p => name'[j] = IF name[j] # p THEN name[j] ELSE NoOne
  BY DEF LockCrash
<1>. QED
  BY <1>2, <1>3 DEF PipeInv, At, Holds, Idle

\* The invariant of named pipes holds.
LEMMA PipesKeepName ==
    ASSUME Platform = "win32"
    PROVE  LockSpec => []PipeInv
<1>1. LockInit => PipeInv
  <2>. SUFFICES ASSUME LockInit, NEW p \in Procs, NEW k \in Keys PROVE At(p, k) = "idle"
    BY DEF PipeInv, Holds
  <2>. QED  BY DEF LockInit, At, Idle
<1>2. LockTypeOK /\ PipeInv /\ [LockNext]_lockVars => PipeInv'
  <2>1. UNCHANGED lockVars /\ PipeInv => PipeInv'
    BY DEF lockVars, PipeInv, At, Holds
  <2>. QED  BY <2>1, PipeStep, PipeCrash DEF LockNext
<1>. QED
  BY <1>1, <1>2, LockTypeCorrect, PTL DEF LockSpec

\* With named pipes the lock of process-lock.ts is exclusive: however the calls of
\* any number of processes interleave and whichever of them end, no two processes
\* hold the lock of one key.
THEOREM PipesExclude ==
    ASSUME Platform = "win32"
    PROVE  LockSpec => []MutualExclusion
<1>1. PipeInv => MutualExclusion
  BY DEF PipeInv, MutualExclusion
<1>. QED
  BY <1>1, PipesKeepName, PTL

-----------------------------------------------------------------------------
\* A step of one process in one call leaves everybody else, and its own calls for
\* other keys, where they are.
LEMMA OthersStay ==
    ASSUME LockTypeOK, NEW p \in Procs, NEW k \in Keys,
           TryAcquire(p, k) \/ LockStep(p, k) \/ Refused(p, k) \/ Release(p, k),
           NEW q \in Procs, NEW j \in Keys, ~(q = p /\ j = k)
    PROVE  At(q, j)' = At(q, j)
<1>q. lock[q][j] \in Entry /\ lock[p][k] \in Entry
  BY DEF LockTypeOK, Entry
<1>1. CASE TryAcquire(p, k)
  BY <1>1 DEF TryAcquire, LockTypeOK, At
<1>2. CASE Bind(p, k)
  BY <1>2, <1>q DEF Bind, BindBy, LockTypeOK, At, Entry
<1>3. CASE \E at \in Places, n \in 0..1 : Move(p, k, at, n)
  BY <1>3 DEF Move, LockTypeOK, At
<1>4. CASE Listening(p, k) \/ AddressInUse(p, k) \/ SocketIsActive(p, k)
  <2>1. lock[p][k].attempt \in 0..1
    BY <1>q DEF Entry
  <2>2. {"held", "refused", "probe", "stat"} \subseteq Places
    BY DEF Places
  <2>. QED  BY <1>3, <1>4, <2>1, <2>2 DEF Listening, AddressInUse, SocketIsActive
<1>5. CASE StatStale(p, k) \/ RemoveStale(p, k)
  <2>1. lock[p][k].attempt \in 0..1 /\ 1 \in 0..1
    BY <1>q DEF Entry
  <2>2. {"listen", "refused", "rename"} \subseteq Places
    BY DEF Places
  <2>. QED  BY <1>3, <1>5, <2>1, <2>2 DEF StatStale, RemoveStale, NextAttempt
<1>6. CASE Closed(p, k) \/ Refused(p, k) \/ Release(p, k)
  BY <1>6 DEF Closed, Refused, Release, LockTypeOK, At
<1>. QED
  BY <1>1, <1>2, <1>4, <1>5, <1>6 DEF LockStep

\* Whoever holds a lock keeps it until its own release.
LEMMA HoldStays ==
    ASSUME LockTypeOK, NEW p \in Procs, NEW k \in Keys,
           TryAcquire(p, k) \/ LockStep(p, k) \/ Refused(p, k) \/ Release(p, k),
           NEW q \in Procs, NEW j \in Keys, Holds(q, j),
           ~(q = p /\ j = k) \/ ~Release(p, k)
    PROVE  Holds(q, j)'
<1>1. CASE ~(q = p /\ j = k)
  BY <1>1, OthersStay DEF Holds
<1>2. CASE q = p /\ j = k /\ ~Release(p, k)
  BY <1>2 DEF Holds, TryAcquire, LockStep, Refused, Bind, Listening, AddressInUse,
              SocketIsActive, StatStale, RemoveStale, Closed
<1>. QED
  BY <1>1, <1>2

\* The end of a process is nothing to the others.
LEMMA CrashOthers ==
    ASSUME LockTypeOK, NEW p \in Procs, LockCrash(p), NEW q \in Procs, q # p, NEW j \in Keys
    PROVE  At(q, j)' = At(q, j)
  BY DEF LockCrash, LockTypeOK, At

\* The same, said of who holds what.
LEMMA HoldersOfOthers ==
    ASSUME LockTypeOK, NEW p \in Procs, NEW k \in Keys,
           TryAcquire(p, k) \/ LockStep(p, k) \/ Refused(p, k) \/ Release(p, k)
    PROVE  /\ (Holds(p, k)' <=> Holds(p, k)) => Holders' = Holders
           /\ Holds(p, k)' => Holders' = [Holders EXCEPT ![k] = @ \cup {p}]
           /\ ~Holds(p, k)' => Holders' = [Holders EXCEPT ![k] = @ \ {p}]
<1>1. \A q \in Procs, j \in Keys : ~(q = p /\ j = k) => (Holds(q, j)' = Holds(q, j))
  BY OthersStay DEF Holds
<1>2. \A j \in Keys : j # k => {q \in Procs : Holds(q, j)}' = {q \in Procs : Holds(q, j)}
  BY <1>1
<1>3. Holds(p, k)' => {q \in Procs : Holds(q, k)}' = {q \in Procs : Holds(q, k)} \cup {p}
  BY <1>1
<1>4. ~Holds(p, k)' => {q \in Procs : Holds(q, k)}' = {q \in Procs : Holds(q, k)} \ {p}
  BY <1>1
<1>5. (Holds(p, k)' <=> Holds(p, k)) => {q \in Procs : Holds(q, k)}' = {q \in Procs : Holds(q, k)}
  BY <1>1
<1>. QED
  BY <1>2, <1>3, <1>4, <1>5 DEF Holders

\* With named pipes a step of the lock is a step of an exclusive lock, or none.
LEMMA PipeStepsAbstractly ==
    ASSUME Platform = "win32", LockTypeOK, PipeInv, NEW p \in Procs, NEW k \in Keys,
           TryAcquire(p, k) \/ LockStep(p, k) \/ Refused(p, k) \/ Release(p, k)
    PROVE  [Exclusive!Next]_Holders
<1>0. At(p, k) \in {"idle", "listen", "held", "refused"}
  BY DEF PipeInv
<1>1. CASE Bind(p, k)
  <2>1. \A q \in Procs : ~Holds(q, k)
    BY <1>1, MarksAssumption DEF Bind, PipeInv
  <2>2. Holds(p, k)'
    BY <1>1 DEF Bind, BindBy, Holds, At, LockTypeOK
  <2>3. Holders[k] = {}
    BY <2>1 DEF Holders
  <2>4. Exclusive!Acquire(p, k)
    BY <2>2, <2>3, HoldersOfOthers DEF Exclusive!Acquire
  <2>. QED  BY <2>4 DEF Exclusive!Next
<1>2. CASE Release(p, k)
  <2>1. p \in Holders[k]
    BY <1>2 DEF Release, Holders
  <2>2. ~Holds(p, k)'
    BY <1>2 DEF Release, Holds, At, LockTypeOK, Idle
  <2>3. Exclusive!Free(p, k)
    BY <2>1, <2>2, HoldersOfOthers DEF Exclusive!Free
  <2>. QED  BY <2>3 DEF Exclusive!Next
<1>3. CASE TryAcquire(p, k) \/ AddressInUse(p, k) \/ Refused(p, k)
  <2>1. ~Holds(p, k) /\ ~Holds(p, k)'
    BY <1>3 DEF TryAcquire, AddressInUse, Refused, Move, Holds, At, LockTypeOK, Idle
  <2>. QED  BY <2>1, HoldersOfOthers
<1>4. CASE Listening(p, k) \/ SocketIsActive(p, k) \/ StatStale(p, k) \/ RemoveStale(p, k) \/ Closed(p, k)
  BY <1>4, <1>0 DEF Listening, SocketIsActive, StatStale, RemoveStale, Closed
<1>. QED
  BY <1>1, <1>2, <1>3, <1>4 DEF LockStep

\* The lock of process-lock.ts over named pipes implements an exclusive lock, for any
\* processes and keys: a lock is given when nobody holds it, and is taken from its
\* holder only by a release or by the end of the process.
THEOREM PipesImplementExclusiveLock ==
    ASSUME Platform = "win32"
    PROVE  LockSpec => LockIsExclusive
<1>1. LockInit => Exclusive!Init
  BY DEF LockInit, Exclusive!Init, Holders, Holds, At, Idle
<1>2. LockTypeOK /\ PipeInv /\ [LockNext]_lockVars => [Exclusive!Next]_Holders
  <2>. SUFFICES ASSUME LockTypeOK, PipeInv, [LockNext]_lockVars PROVE [Exclusive!Next]_Holders
    OBVIOUS
  <2>1. CASE UNCHANGED lockVars
    BY <2>1 DEF lockVars, Holders, Holds, At
  <2>2. ASSUME NEW p \in Procs, LockCrash(p) PROVE [Exclusive!Next]_Holders
    <3>1. \A q \in Procs, k \in Keys : Holds(q, k)' = (q # p /\ Holds(q, k))
      BY <2>2 DEF LockCrash, Holds, At, Idle, LockTypeOK
    <3>2. Exclusive!End(p)
      BY <3>1 DEF Exclusive!End, Holders
    <3>. QED  BY <3>2 DEF Exclusive!Next
  <2>. QED
    BY <2>1, <2>2, PipeStepsAbstractly DEF LockNext
<1>. QED
  BY <1>1, <1>2, LockTypeCorrect, PipesKeepName, PTL DEF LockSpec, LockIsExclusive, Exclusive!Spec

-----------------------------------------------------------------------------
\* Why a refusal is honest.  A name leads to a process only while its socket exists;
\* a pipe leaves nothing behind; and a contender in its second attempt that has seen
\* nobody has a free name in front of it, so it will not be refused.
NameInv ==
    \A k \in Keys :
        /\ name[k] \in Procs => At(name[k], k) \in {"bound", "held"}
        /\ Platform = "win32" => name[k] # Stale

Trying == {"listen", "probe", "stat", "rename"}

SecondAttemptInv ==
    \A p \in Procs, k \in Keys :
        At(p, k) \in Trying /\ lock[p][k].attempt = 1 /\ ~lock[p][k].rival
            => At(p, k) = "listen" /\ name[k] = NoOne

BusyInv == NameInv /\ SecondAttemptInv /\ BusyIsHonest

\* A step of p on k leaves what anybody else has learnt.
LEMMA OthersKeep ==
    ASSUME LockTypeOK, NEW p \in Procs, NEW k \in Keys,
           TryAcquire(p, k) \/ LockStep(p, k) \/ Refused(p, k) \/ Release(p, k),
           NEW q \in Procs, NEW j \in Keys, ~(q = p /\ j = k)
    PROVE  /\ lock'[q][j].attempt = lock[q][j].attempt
           /\ lock[q][j].rival => lock'[q][j].rival
<1>q. lock[q][j] \in Entry /\ lock[p][k] \in Entry
  BY DEF LockTypeOK, Entry
<1>1. CASE TryAcquire(p, k)
  BY <1>1 DEF TryAcquire, LockTypeOK
<1>2. CASE Bind(p, k)
  BY <1>2, <1>q DEF Bind, BindBy, LockTypeOK, Entry
<1>3. ASSUME NEW at, NEW n, Move(p, k, at, n)
      PROVE  lock'[q][j] = lock[q][j]
  BY <1>3 DEF Move, LockTypeOK
<1>4. CASE Listening(p, k) \/ AddressInUse(p, k) \/ SocketIsActive(p, k) \/ StatStale(p, k) \/ RemoveStale(p, k)
  BY <1>3, <1>4 DEF Listening, AddressInUse, SocketIsActive, StatStale, RemoveStale, NextAttempt
<1>5. CASE Closed(p, k) \/ Refused(p, k) \/ Release(p, k)
  BY <1>5 DEF Closed, Refused, Release, LockTypeOK
<1>. QED
  BY <1>1, <1>2, <1>4, <1>5 DEF LockStep

\* Whoever is trying for a name sees that somebody else has bound it.
LEMMA BindIsSeen ==
    ASSUME LockTypeOK, NEW p \in Procs, NEW k \in Keys, Bind(p, k),
           NEW q \in Procs, q # p, At(q, k) \in Trying
    PROVE  lock'[q][k].rival
<1>1. lock[q][k] \in Entry
  BY DEF LockTypeOK, Entry
<1>2. At(q, k) \in Places \ (Binding \cup {"idle", "refused"})
  BY DEF Trying, Places, Binding
<1>. QED
  BY <1>1, <1>2 DEF Bind, BindBy, LockTypeOK, Entry, At

\* What a move writes.
LEMMA MoveWrites ==
    ASSUME LockTypeOK, NEW p \in Procs, NEW k \in Keys, NEW at, NEW n, Move(p, k, at, n)
    PROVE  /\ At(p, k)' = at /\ lock'[p][k].attempt = n
           /\ lock[p][k].rival \/ Rival(p, k) => lock'[p][k].rival
  BY DEF Move, LockTypeOK, At

\* Where p itself is after its own step.
LEMMA OwnStep ==
    ASSUME LockTypeOK, BusyInv, NEW p \in Procs, NEW k \in Keys,
           TryAcquire(p, k) \/ LockStep(p, k) \/ Refused(p, k) \/ Release(p, k)
    PROVE  /\ At(p, k)' = "refused" => lock'[p][k].rival
           /\ At(p, k)' \in Trying /\ lock'[p][k].attempt = 1 /\ ~lock'[p][k].rival
                  => At(p, k)' = "listen" /\ name'[k] = NoOne
<1>q. /\ lock[p][k] \in Entry /\ lock[p][k].attempt \in 0..1
      /\ name[k] \in Procs \cup {NoOne, Stale}
  BY DEF LockTypeOK, Entry
<1>i. /\ At(p, k) = "refused" => lock[p][k].rival
      /\ At(p, k) \in Trying /\ lock[p][k].attempt = 1 /\ ~lock[p][k].rival
             => At(p, k) = "listen" /\ name[k] = NoOne
  BY DEF BusyInv, SecondAttemptInv, BusyIsHonest
<1>r. name[k] \in Procs /\ name[k] # p => Rival(p, k)
  <2>1. name[k] \in Procs => At(name[k], k) \in {"bound", "held"}
    BY DEF BusyInv, NameInv
  <2>. QED  BY <2>1 DEF Rival, Binding
<1>p. At(p, k) \in Trying => name[k] # p
  BY DEF BusyInv, NameInv, Trying
<1>1. CASE TryAcquire(p, k)
  BY <1>1 DEF TryAcquire, LockTypeOK, At
<1>2. CASE Bind(p, k)
  <2>1. At(p, k)' \in {"held", "bound"}
    BY <1>2, <1>q DEF Bind, BindBy, LockTypeOK, At, Entry
  <2>. QED  BY <2>1 DEF Trying
<1>3. CASE Listening(p, k)
  BY <1>3, MoveWrites DEF Listening, Trying
<1>4. CASE AddressInUse(p, k)
  <2>1. Platform = "win32" => Rival(p, k)
    BY <1>4, <1>q, <1>r, <1>p DEF AddressInUse, BusyInv, NameInv, Trying
  <2>2. lock[p][k].attempt = 1 => lock[p][k].rival
    BY <1>4, <1>i DEF AddressInUse, Trying
  <2>3. /\ At(p, k)' = IF Platform = "win32" THEN "refused" ELSE "probe"
        /\ lock'[p][k].attempt = lock[p][k].attempt
        /\ lock[p][k].rival \/ Rival(p, k) => lock'[p][k].rival
    BY <1>4, MoveWrites DEF AddressInUse
  <2>. QED  BY <2>1, <2>2, <2>3
<1>5. CASE SocketIsActive(p, k)
  <2>1. Answers(k) => Rival(p, k)
    BY <1>5, <1>r, <1>p DEF SocketIsActive, Answers, Trying
  <2>2. lock[p][k].attempt = 1 => lock[p][k].rival
    BY <1>5, <1>i DEF SocketIsActive, Trying
  <2>3. /\ At(p, k)' = IF Answers(k) THEN "refused" ELSE "stat"
        /\ lock'[p][k].attempt = lock[p][k].attempt
        /\ lock[p][k].rival \/ Rival(p, k) => lock'[p][k].rival
    BY <1>5, MoveWrites DEF SocketIsActive
  <2>. QED  BY <2>1, <2>2, <2>3
<1>n. ASSUME NextAttempt(p, k), At(p, k) \in {"stat", "rename"}, name'[k] = NoOne
      PROVE  /\ At(p, k)' = "refused" => lock'[p][k].rival
             /\ At(p, k)' \in {"listen", "refused"}
             /\ name'[k] = NoOne
  <2>1. lock[p][k].attempt = 1 => lock[p][k].rival
    BY <1>n, <1>i DEF Trying
  <2>. QED  BY <1>n, <1>q, <2>1, MoveWrites DEF NextAttempt
<1>6. CASE StatStale(p, k)
  <2>1. CASE name[k] = NoOne
    BY <1>6, <2>1, <1>n DEF StatStale, Trying
  <2>2. CASE name[k] # NoOne
    <3>1. lock[p][k].attempt = 1 => lock[p][k].rival
      BY <1>6, <1>i DEF StatStale, Trying
    <3>. QED  BY <1>6, <2>2, <3>1, MoveWrites DEF StatStale
  <2>. QED  BY <2>1, <2>2
<1>7. CASE RemoveStale(p, k)
  <2>1. name'[k] = NoOne
    BY <1>7 DEF RemoveStale, LockTypeOK
  <2>. QED  BY <1>7, <2>1, <1>n DEF RemoveStale, Trying
<1>8. CASE Closed(p, k) \/ Refused(p, k) \/ Release(p, k)
  <2>1. At(p, k)' \in {"idle", "closing"}
    BY <1>8 DEF Closed, Refused, Release, LockTypeOK, At, Idle
  <2>. QED  BY <2>1 DEF Trying
<1>. QED
  BY <1>1, <1>2, <1>3, <1>4, <1>5, <1>6, <1>7, <1>8 DEF LockStep

\* The name of k after a step of p on k; other names stay.
LEMMA NameStep ==
    ASSUME LockTypeOK, NameInv, NEW p \in Procs, NEW k \in Keys,
           TryAcquire(p, k) \/ LockStep(p, k) \/ Refused(p, k) \/ Release(p, k)
    PROVE  /\ \A j \in Keys : j # k => name'[j] = name[j]
           /\ \/ name'[k] = name[k] /\ (name[k] = p => At(p, k)' \in {"bound", "held"})
              \/ name'[k] = NoOne
              \/ name'[k] = p /\ Bind(p, k) /\ At(p, k)' \in {"bound", "held"}
<1>q. lock[p][k] \in Entry
  BY DEF LockTypeOK, Entry
<1>n. name[k] = p => At(p, k) \in {"bound", "held"}
  BY DEF NameInv
<1>1. CASE Bind(p, k)
  BY <1>1, <1>q DEF Bind, BindBy, LockTypeOK, At, Entry
<1>2. CASE Release(p, k) \/ RemoveStale(p, k)
  BY <1>2 DEF Release, RemoveStale, LockTypeOK
<1>3. CASE Listening(p, k)
  BY <1>3, MoveWrites DEF Listening
<1>4. CASE TryAcquire(p, k) \/ AddressInUse(p, k) \/ SocketIsActive(p, k) \/ StatStale(p, k)
           \/ Closed(p, k) \/ Refused(p, k)
  BY <1>4, <1>n DEF TryAcquire, AddressInUse, SocketIsActive, StatStale, Closed, Refused
<1>. QED
  BY <1>1, <1>2, <1>3, <1>4 DEF LockStep

\* A step of one call keeps the invariant.
LEMMA BusyStep ==
    ASSUME LockTypeOK, BusyInv, NEW p \in Procs, NEW k \in Keys,
           TryAcquire(p, k) \/ LockStep(p, k) \/ Refused(p, k) \/ Release(p, k)
    PROVE  BusyInv'
<1>m. NoOne # Stale /\ NoOne \notin Procs /\ Stale \notin Procs
  BY MarksAssumption DEF NoOne, Stale
<1>n. NameInv
  BY DEF BusyInv
<1>1. NameInv'
  <2>. SUFFICES ASSUME NEW j \in Keys
                PROVE  /\ name'[j] \in Procs => lock'[name'[j]][j].at \in {"bound", "held"}
                       /\ Platform = "win32" => name'[j] # Stale
    BY DEF NameInv, At
  <2>0. /\ name[j] \in Procs => At(name[j], j) \in {"bound", "held"}
        /\ Platform = "win32" => name[j] # Stale
    BY <1>n DEF NameInv
  <2>1. CASE j # k
    BY <2>0, <2>1, <1>n, NameStep, OthersStay DEF At
  <2>2. CASE j = k /\ name'[k] = name[k]
    <3>1. CASE name[k] = p
      BY <2>0, <2>2, <3>1, <1>n, <1>m, NameStep DEF At
    <3>2. CASE name[k] \in Procs /\ name[k] # p
      BY <2>0, <2>2, <3>2, OthersStay DEF At
    <3>. QED  BY <2>0, <2>2, <3>1, <3>2
  <2>3. CASE j = k /\ name'[k] = NoOne
    BY <2>3, <1>m
  <2>4. CASE j = k /\ name'[k] = p /\ At(p, k)' \in {"bound", "held"}
    BY <2>4, <1>m DEF At
  <2>. QED  BY <2>1, <2>2, <2>3, <2>4, <1>n, NameStep
<1>2. SecondAttemptInv'
  <2>. SUFFICES ASSUME NEW q \in Procs, NEW j \in Keys, At(q, j)' \in Trying,
                       lock'[q][j].attempt = 1, ~lock'[q][j].rival
                PROVE  At(q, j)' = "listen" /\ name'[j] = NoOne
    BY DEF SecondAttemptInv
  <2>1. CASE q = p /\ j = k
    BY <2>1, OwnStep
  <2>2. CASE ~(q = p /\ j = k)
    <3>1. At(q, j) \in Trying /\ At(q, j)' = At(q, j)
      BY <2>2, OthersStay
    <3>2. lock[q][j].attempt = 1 /\ ~lock[q][j].rival
      BY <2>2, OthersKeep
    <3>3. At(q, j) = "listen" /\ name[j] = NoOne
      BY <3>1, <3>2 DEF BusyInv, SecondAttemptInv
    <3>4. Bind(p, k) /\ j = k => FALSE
      BY <2>2, <3>1, BindIsSeen
    <3>5. name'[j] = NoOne
      BY <3>3, <3>4, <1>n, <1>m, NameStep
    <3>. QED  BY <3>1, <3>3, <3>5
  <2>. QED  BY <2>1, <2>2
<1>3. BusyIsHonest'
  <2>. SUFFICES ASSUME NEW q \in Procs, NEW j \in Keys, At(q, j)' = "refused"
                PROVE  lock'[q][j].rival
    BY DEF BusyIsHonest
  <2>1. CASE q = p /\ j = k
    BY <2>1, OwnStep
  <2>2. CASE ~(q = p /\ j = k)
    BY <2>2, OthersStay, OthersKeep DEF BusyInv, BusyIsHonest
  <2>. QED  BY <2>1, <2>2
<1>. QED
  BY <1>1, <1>2, <1>3 DEF BusyInv

\* So does the end of a process, which leaves its names to nobody.
LEMMA BusyCrash ==
    ASSUME LockTypeOK, BusyInv, NEW p \in Procs, LockCrash(p)
    PROVE  BusyInv'
<1>m. NoOne # Stale /\ NoOne \notin Procs /\ Stale \notin Procs
  BY MarksAssumption DEF NoOne, Stale
<1>1. \A q \in Procs, j \in Keys : lock'[q][j] = IF q = p THEN Idle ELSE lock[q][j]
  BY DEF LockCrash, LockTypeOK
<1>2. \A j \in Keys : name'[j] = IF name[j] # p THEN name[j] ELSE IF Platform = "posix" THEN Stale ELSE NoOne
  BY DEF LockCrash
<1>3. NameInv'
  BY <1>1, <1>2, <1>m DEF BusyInv, NameInv, At
<1>4. SecondAttemptInv'
  BY <1>1, <1>2, <1>m DEF BusyInv, SecondAttemptInv, At, Idle, Trying
<1>5. BusyIsHonest'
  BY <1>1 DEF BusyInv, BusyIsHonest, At, Idle
<1>. QED
  BY <1>3, <1>4, <1>5 DEF BusyInv

\* The answer `undefined` of tryAcquireProcessLock always has a rival to show for it, on
\* both platforms, for any processes and keys and whatever a crash has left at a name.
THEOREM RefusalsAreHonest == LockSpec => []BusyIsHonest
<1>1. LockInit => BusyInv
  <2>. SUFFICES ASSUME LockInit PROVE BusyInv
    OBVIOUS
  <2>1. \A p \in Procs, k \in Keys : At(p, k) = "idle"
    BY DEF LockInit, At, Idle
  <2>2. \A k \in Keys : name[k] \notin Procs /\ (Platform = "win32" => name[k] # Stale)
    BY MarksAssumption DEF LockInit, NoOne, Stale
  <2>. QED  BY <2>1, <2>2 DEF BusyInv, NameInv, SecondAttemptInv, BusyIsHonest, Trying
<1>2. LockTypeOK /\ BusyInv /\ [LockNext]_lockVars => BusyInv'
  <2>1. UNCHANGED lockVars /\ BusyInv => BusyInv'
    BY DEF lockVars, BusyInv, NameInv, SecondAttemptInv, BusyIsHonest, At
  <2>. QED  BY <2>1, BusyStep, BusyCrash DEF LockNext
<1>3. BusyInv => BusyIsHonest
  BY DEF BusyInv
<1>. QED
  BY <1>1, <1>2, <1>3, LockTypeCorrect, PTL DEF LockSpec

=============================================================================
