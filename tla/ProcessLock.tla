---------------------------- MODULE ProcessLock ----------------------------
(***************************************************************************)
(* The lock of src/platform/process-lock.ts: an exclusive lock that the    *)
(* operating system holds for a process.  A process takes the lock by      *)
(* listening on a name, a named pipe on Windows and a Unix socket in a     *)
(* private directory elsewhere.  On POSIX the name is a file: a crash      *)
(* leaves it behind, and a contender that finds it unanswered renames it   *)
(* away and binds the name again.  The workspace binding store has its own *)
(* copy of the same algorithm (src/workspace/binding-store.ts).            *)
(*                                                                         *)
(* Every system call of the algorithm that another process can come        *)
(* between is a step of its own: bind, listen, connect, lstat, rename, and *)
(* the unlink and close of a release.                                      *)
(***************************************************************************)
EXTENDS Naturals, FiniteSets

CONSTANTS
    Procs,      \* the processes of this user on this computer
    Keys,       \* the (scope, key) pairs locks are taken for
    Platform    \* "posix" or "win32"

ASSUME PlatformAssumption == Platform \in {"posix", "win32"}

NoOne == "noone"    \* nothing at the pathname
Stale == "stale"    \* a socket file whose process has ended

ASSUME MarksAssumption == NoOne \notin Procs /\ Stale \notin Procs

VARIABLES
    name,   \* name[k]: whose socket the name of k leads to, or NoOne, or Stale
    lock    \* lock[p][k]: where p is in taking or releasing the lock of k

lockVars == <<name, lock>>

Idle == [at |-> "idle", attempt |-> 0, rival |-> FALSE]

Places == {"idle", "listen", "bound", "probe", "stat", "rename",
           "held", "closing", "refused"}

\* Type invariant of the lock's two variables.
LockTypeOK ==
    /\ name \in [Keys -> Procs \cup {NoOne, Stale}]
    /\ lock \in [Procs -> [Keys -> [at : Places, attempt : 0..1, rival : BOOLEAN]]]

LockInit ==
    /\ name \in [Keys -> {NoOne} \cup (IF Platform = "posix" THEN {Stale} ELSE {})]
    /\ lock = [p \in Procs |-> [k \in Keys |-> Idle]]

-----------------------------------------------------------------------------
At(p, k) == lock[p][k].at
Holds(p, k) == At(p, k) = "held"

\* The places of a process whose socket exists: it is taking or has the lock.
Binding == {"bound", "held", "closing"}

\* Is a process other than p anywhere between bind and the end of its close?
Rival(p, k) == \E q \in Procs \ {p} : At(q, k) \in Binding

\* p goes on to place at.  The field rival records, for the whole call, whether
\* some other process had or was taking the lock while p was trying: it is the
\* history that BusyIsHonest is about and no part of the code reads it.
Move(p, k, at, attempt) ==
    lock' = [lock EXCEPT ![p][k] =
                [at |-> at, attempt |-> attempt, rival |-> @.rival \/ Rival(p, k)]]

\* The processes trying for k see that p has bound the name.
BindBy(p, k, at) ==
    lock' = [q \in Procs |-> [lock[q] EXCEPT ![k] =
        IF q = p THEN [@ EXCEPT !.at = at]
        ELSE IF @.at \in Places \ (Binding \cup {"idle", "refused"})
             THEN [@ EXCEPT !.rival = TRUE]
             ELSE @]]

\* Mutants: no second attempt once the stale name is gone; no end of attempts;
\* one attempt too many.
OneAttempt(p, k) == Move(p, k, "refused", lock[p][k].attempt)
EndlessAttempts(p, k) == Move(p, k, "listen", lock[p][k].attempt)
ThreeAttempts(p, k) ==
    IF lock[p][k].attempt < 2 THEN Move(p, k, "listen", lock[p][k].attempt + 1)
    ELSE Move(p, k, "refused", 2)

\* The bounded loop of tryAcquireProcessLock: after the first attempt one more,
\* after the second the answer is `undefined`.
NextAttempt(p, k) ==
    IF lock[p][k].attempt = 0 THEN Move(p, k, "listen", 1) ELSE Move(p, k, "refused", 1)

\* The call starts.
TryAcquire(p, k) ==
    /\ At(p, k) = "idle"
    /\ lock' = [lock EXCEPT ![p][k] = [at |-> "listen", attempt |-> 0, rival |-> Rival(p, k)]]
    /\ UNCHANGED name

\* Mutant: the name is not exclusive, a second server may be created on it.
BindAnyway(p, k) ==
    /\ At(p, k) = "listen"
    /\ name' = [name EXCEPT ![k] = p]
    /\ BindBy(p, k, IF Platform = "win32" THEN "held" ELSE "bound")

\* server.listen on a free name.  A pipe listens as soon as it exists; a socket
\* exists from bind on and answers only from listen on.
Bind(p, k) ==
    /\ At(p, k) = "listen"
    /\ name[k] = NoOne
    /\ name' = [name EXCEPT ![k] = p]
    /\ BindBy(p, k, IF Platform = "win32" THEN "held" ELSE "bound")

Listening(p, k) ==
    /\ At(p, k) = "bound"
    /\ Move(p, k, "held", lock[p][k].attempt)
    /\ UNCHANGED name

\* server.listen on a name in use: EADDRINUSE.
AddressInUse(p, k) ==
    /\ At(p, k) = "listen"
    /\ name[k] # NoOne
    /\ Move(p, k, IF Platform = "win32" THEN "refused" ELSE "probe", lock[p][k].attempt)
    /\ UNCHANGED name

\* A connection to the name is answered: its socket has a listening process.
Answers(k) == name[k] \in Procs /\ At(name[k], k) = "held"

\* socketIsActive: only ECONNREFUSED and ENOENT count as nobody there.
SocketIsActive(p, k) ==
    /\ At(p, k) = "probe"
    /\ Move(p, k, IF Answers(k) THEN "refused" ELSE "stat", lock[p][k].attempt)
    /\ UNCHANGED name

\* removeStaleSocket, its lstat: a name that is gone needs no removal.
StatStale(p, k) ==
    /\ At(p, k) = "stat"
    /\ IF name[k] = NoOne THEN NextAttempt(p, k) ELSE Move(p, k, "rename", lock[p][k].attempt)
    /\ UNCHANGED name

\* removeStaleSocket, its rename and unlink: whatever is at the name now goes.
RemoveStale(p, k) ==
    /\ At(p, k) = "rename"
    /\ name' = [name EXCEPT ![k] = NoOne]
    /\ NextAttempt(p, k)

\* The caller goes on with the answer `undefined`.
Refused(p, k) ==
    /\ At(p, k) = "refused"
    /\ lock' = [lock EXCEPT ![p][k] = Idle]
    /\ UNCHANGED name

\* release: closing a Unix socket server unlinks its pathname, whoever's socket
\* is there by now, and then closes the socket; a pipe is gone with its handle.
Release(p, k) ==
    /\ Holds(p, k)
    /\ name' = [name EXCEPT ![k] = IF Platform = "posix" \/ @ = p THEN NoOne ELSE @]
    /\ lock' = [lock EXCEPT ![p][k] = IF Platform = "posix" THEN [@ EXCEPT !.at = "closing"] ELSE Idle]

Closed(p, k) ==
    /\ At(p, k) = "closing"
    /\ lock' = [lock EXCEPT ![p][k] = Idle]
    /\ UNCHANGED name

\* The process ends at any point: the kernel closes its sockets, and on POSIX
\* their pathnames stay.
LockCrash(p) ==
    /\ \E k \in Keys : At(p, k) # "idle"
    /\ name' = [k \in Keys |->
            IF name[k] # p THEN name[k] ELSE IF Platform = "posix" THEN Stale ELSE NoOne]
    /\ lock' = [lock EXCEPT ![p] = [k \in Keys |-> Idle]]

\* The steps inside a call of tryAcquireProcessLock.
LockStep(p, k) ==
    \/ Bind(p, k)
    \/ Listening(p, k)
    \/ AddressInUse(p, k)
    \/ SocketIsActive(p, k)
    \/ StatStale(p, k)
    \/ RemoveStale(p, k)
    \/ Closed(p, k)

LockNext ==
    \/ \E p \in Procs, k \in Keys :
        \/ TryAcquire(p, k)
        \/ LockStep(p, k)
        \/ Refused(p, k)
        \/ Release(p, k)
    \/ \E p \in Procs : LockCrash(p)

LockSpec == LockInit /\ [][LockNext]_lockVars

\* A process that is in a call goes on with it unless it ends; nothing makes a
\* caller try again, or a holder release.
LockFairSpec ==
    LockSpec /\ \A p \in Procs, k \in Keys :
        WF_lockVars(LockStep(p, k)) /\ WF_lockVars(Refused(p, k))

-----------------------------------------------------------------------------
\* The lock is exclusive: no two processes hold the lock of one key
\* (process-lock.ts, "An exclusive lock the OPERATING SYSTEM holds for this
\* process").  Where two contenders clear one stale name it is not.
MutualExclusion ==
    \A k \in Keys : \A p, q \in Procs : Holds(p, k) /\ Holds(q, k) => p = q

\* The answer `undefined` is given only if some other process had the lock, or
\* was taking or closing it, at some moment of the call: what a crashed holder
\* left behind is never mistaken for one, so a crash locks nobody out.
BusyIsHonest ==
    \A p \in Procs, k \in Keys : At(p, k) = "refused" => lock[p][k].rival

\* Under fair scheduling every call of tryAcquireProcessLock comes to an end.
CallsEnd ==
    \A p \in Procs, k \in Keys :
        (At(p, k) \notin {"idle", "held"}) ~> (At(p, k) \in {"idle", "held"})

\* Who holds each lock, and the lock that callers may think of: with named pipes
\* this module implements ExclusiveLock (process-lock.ts, "An exclusive lock the
\* OPERATING SYSTEM holds for this process"), step by step.
Holders == [k \in Keys |-> {p \in Procs : Holds(p, k)}]
Exclusive == INSTANCE ExclusiveLock WITH holders <- Holders
LockIsExclusive == Exclusive!Spec

=============================================================================
