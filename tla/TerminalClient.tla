--------------------------- MODULE TerminalClient ---------------------------
(***************************************************************************)
(* The terminal client this computer is, per AgentSession                  *)
(* (src/runtime/terminal-client-identity.ts, with the claim and release of *)
(* src/runtime/node-foreground-session.ts).  The writer seat of a session  *)
(* is held by a client id, so a process that attaches reuses the id the    *)
(* last attachment recorded; two processes must never be the same client   *)
(* at once, so the id is used only by the process that holds the lock of   *)
(* the session (ProcessLock, one key per session).                         *)
(***************************************************************************)
EXTENDS ProcessLock

CONSTANT MaxIds     \* bound: how many client ids may be minted

ASSUME MaxIdsAssumption == MaxIds \in Nat \ {0}

Sessions == Keys
None == [id |-> 0, idle |-> FALSE]          \* no record file
Records == [id : 0..MaxIds, idle : BOOLEAN]

VARIABLES
    record,     \* record[s]: the file of s: the client id and whether it was
                \* last used more than TERMINAL_CLIENT_RECORD_IDLE_MS ago
    client,     \* client[p]: the attachment p is making or has
    minted,     \* how many ids were minted
    gone        \* sessions in a typed terminal state

vars == <<name, lock, record, client, minted, gone>>

ClaimPlaces == {"none", "claim", "write", "sweep", "trylock", "unlink", "attached", "fresh"}
Detached == [at |-> "none", session |-> NoOne, id |-> 0, sweep |-> {}, target |-> NoOne]

\* p has decided which client it is.
Attaching(p) == client[p].at \in {"write", "sweep", "trylock", "unlink", "attached", "fresh"}

\* Type invariant; the id of an attachment has been minted.
TypeOK ==
    /\ LockTypeOK
    /\ record \in [Sessions -> Records]
    /\ client \in [Procs -> [at : ClaimPlaces, session : Sessions \cup {NoOne}, id : 0..MaxIds,
                             sweep : SUBSET Sessions, target : Sessions \cup {NoOne}]]
    /\ minted \in 0..MaxIds
    /\ gone \in SUBSET Sessions
    /\ \A p \in Procs : Attaching(p) => client[p].id \in 1..minted

Init ==
    /\ LockInit
    /\ record = [s \in Sessions |-> None]
    /\ client = [p \in Procs |-> Detached]
    /\ minted = 0
    /\ gone = {}

-----------------------------------------------------------------------------
Present(s) == record[s].id # 0
Fresh(s) == Present(s) /\ ~record[s].idle

Mint == minted < MaxIds /\ minted' = minted + 1

\* claimClientIdentity: only for a session its row does not say is gone.
Claim(p, s) ==
    /\ client[p].at = "none"
    /\ s \notin gone
    /\ TryAcquire(p, s)
    /\ client' = [client EXCEPT ![p] = [Detached EXCEPT !.at = "claim", !.session = s]]
    /\ UNCHANGED <<record, minted, gone>>

\* Mutant: the recorded id is used although another process has the lock.
ClaimWithoutLock(p) ==
    /\ client[p].at = "claim"
    /\ Refused(p, client[p].session)
    /\ Present(client[p].session)
    /\ client' = [client EXCEPT ![p].at = "fresh", ![p].id = record[client[p].session].id]
    /\ UNCHANGED <<record, minted, gone>>

\* The lock is another process's: attach under a new id that is not recorded.
ClaimBusy(p) ==
    /\ client[p].at = "claim"
    /\ Refused(p, client[p].session)
    /\ Mint
    /\ client' = [client EXCEPT ![p].at = "fresh", ![p].id = minted + 1]
    /\ UNCHANGED <<record, gone>>

\* Mutants: every claim mints; a record that is not there counts as used recently.
MintAlways(p) ==
    /\ client[p].at = "claim"
    /\ Holds(p, client[p].session)
    /\ Mint
    /\ client' = [client EXCEPT ![p].at = "write", ![p].id = minted + 1]
    /\ UNCHANGED <<lockVars, record, gone>>

ReuseUnchecked(p) ==
    /\ client[p].at = "claim"
    /\ Holds(p, client[p].session)
    /\ ~record[client[p].session].idle
    /\ client' = [client EXCEPT ![p].at = "write", ![p].id = record[client[p].session].id]
    /\ UNCHANGED <<lockVars, record, minted, gone>>

\* The lock is held: the record is read, and decides between its id and a new one.
ReadRecord(p) ==
    LET s == client[p].session IN
    /\ client[p].at = "claim"
    /\ Holds(p, s)
    /\ \/ /\ Fresh(s)
          /\ client' = [client EXCEPT ![p].at = "write", ![p].id = record[s].id]
          /\ UNCHANGED minted
       \/ /\ ~Fresh(s)
          /\ Mint
          /\ client' = [client EXCEPT ![p].at = "write", ![p].id = minted + 1]
    /\ UNCHANGED <<lockVars, record, gone>>

\* The record is written with a new stamp, and the directory listed for the sweep.
WriteRecord(p) ==
    /\ client[p].at = "write"
    /\ record' = [record EXCEPT ![client[p].session] = [id |-> client[p].id, idle |-> FALSE]]
    /\ client' = [client EXCEPT ![p].at = "sweep",
                    ![p].sweep = {s \in Sessions \ {client[p].session} : Present(s)}]
    /\ UNCHANGED <<lockVars, minted, gone>>

\* sweepIdleRecords, one name: a record used recently is passed over, one that
\* is idle or no longer readable is to be removed under its own lock.
SweepRead(p, s) ==
    /\ client[p].at = "sweep"
    /\ s \in client[p].sweep
    /\ \A t \in Sessions \ {client[p].session} : At(p, t) = "idle"
    /\ \/ /\ Fresh(s)
          /\ client' = [client EXCEPT ![p].sweep = @ \ {s}]
          /\ UNCHANGED lockVars
       \/ /\ ~Fresh(s)
          /\ TryAcquire(p, s)
          /\ client' = [client EXCEPT ![p].at = "trylock", ![p].sweep = @ \ {s}, ![p].target = s]
    /\ UNCHANGED <<record, minted, gone>>

\* Mutant: the sweep removes what another process has locked.
SweepAnyway(p) ==
    /\ client[p].at = "trylock"
    /\ Refused(p, client[p].target)
    /\ record' = [record EXCEPT ![client[p].target] = None]
    /\ client' = [client EXCEPT ![p].at = "sweep", ![p].target = NoOne]
    /\ UNCHANGED <<minted, gone>>

SweepBusy(p) ==
    /\ client[p].at = "trylock"
    /\ Refused(p, client[p].target)
    /\ client' = [client EXCEPT ![p].at = "sweep", ![p].target = NoOne]
    /\ UNCHANGED <<record, minted, gone>>

SweepRemove(p) ==
    /\ client[p].at = "trylock"
    /\ Holds(p, client[p].target)
    /\ record' = [record EXCEPT ![client[p].target] = None]
    /\ client' = [client EXCEPT ![p].at = "unlink"]
    /\ UNCHANGED <<lockVars, minted, gone>>

SweepRelease(p) ==
    /\ client[p].at = "unlink"
    /\ Release(p, client[p].target)
    /\ client' = [client EXCEPT ![p].at = "sweep", ![p].target = NoOne]
    /\ UNCHANGED <<record, minted, gone>>

Attached(p) ==
    /\ client[p].at = "sweep"
    /\ client[p].sweep = {}
    /\ \A t \in Sessions \ {client[p].session} : At(p, t) = "idle"
    /\ client' = [client EXCEPT ![p].at = "attached"]
    /\ UNCHANGED <<lockVars, record, minted, gone>>

\* The record cannot be read or written, or the sweep throws: the lock is released
\* and the run is a new client, as it was before ids were remembered.
ClaimFails(p) ==
    /\ client[p].at \in {"claim", "write", "sweep"}
    /\ \A t \in Sessions \ {client[p].session} : At(p, t) = "idle"
    /\ Release(p, client[p].session)
    /\ Mint
    /\ client' = [client EXCEPT ![p] = [Detached EXCEPT !.at = "fresh", !.id = minted + 1]]
    /\ UNCHANGED <<record, gone>>

\* The attachment ends; forget: one that saw the process exit removes the record.
Detach(p) ==
    /\ client[p].at = "attached"
    /\ Release(p, client[p].session)
    /\ record' = IF client[p].session \in gone
                 THEN [record EXCEPT ![client[p].session] = None] ELSE record
    /\ client' = [client EXCEPT ![p] = Detached]
    /\ UNCHANGED <<minted, gone>>

DetachFresh(p) ==
    /\ client[p].at = "fresh"
    /\ client' = [client EXCEPT ![p] = Detached]
    /\ UNCHANGED <<lockVars, record, minted, gone>>

\* forgetTerminalClientIdentity, by any process, without the lock.
Forget(s) ==
    /\ s \in gone
    /\ Present(s)
    /\ record' = [record EXCEPT ![s] = None]
    /\ UNCHANGED <<lockVars, client, minted, gone>>

\* The waiting inside a call of the lock.
LockGoesOn(p) ==
    /\ \E s \in Sessions : LockStep(p, s)
    /\ UNCHANGED <<record, client, minted, gone>>

\* The process ends, at any point.
Crash(p) ==
    /\ LockCrash(p)
    /\ client' = [client EXCEPT ![p] = Detached]
    /\ UNCHANGED <<record, minted, gone>>

\* A record goes unused for longer than the bound.
GrowsIdle(s) ==
    /\ Fresh(s)
    /\ record' = [record EXCEPT ![s].idle = TRUE]
    /\ UNCHANGED <<lockVars, client, minted, gone>>

\* The session ends.
SessionGone(s) ==
    /\ s \notin gone
    /\ gone' = gone \cup {s}
    /\ UNCHANGED <<lockVars, record, client, minted>>

Next ==
    \/ \E p \in Procs :
        \/ \E s \in Sessions : Claim(p, s) \/ SweepRead(p, s)
        \/ ClaimBusy(p) \/ ReadRecord(p) \/ WriteRecord(p) \/ ClaimFails(p)
        \/ SweepBusy(p) \/ SweepRemove(p) \/ SweepRelease(p) \/ Attached(p)
        \/ Detach(p) \/ DetachFresh(p)
        \/ LockGoesOn(p) \/ Crash(p)
    \/ \E s \in Sessions : Forget(s) \/ GrowsIdle(s) \/ SessionGone(s)

Spec == Init /\ [][Next]_vars

-----------------------------------------------------------------------------
\* Two processes are never the same client at the same time: each would replace
\* the other's binding on every reconnect.
OneClientPerId ==
    \A p, q \in Procs : Attaching(p) /\ Attaching(q) /\ client[p].id = client[q].id => p = q

\* A record an attachment is using is never removed or rewritten from under it,
\* by a sweep or by another claim, while its session lives.
InUseKept ==
    \A p \in Procs :
        client[p].at = "attached" /\ client[p].session \notin gone
            => record[client[p].session].id = client[p].id

\* An id is given up for another one only once its record has grown idle or was
\* removed: a detach and a new attach within the bound are the same client.
SeatResumes ==
    [][\A s \in Sessions : Fresh(s) /\ record'[s].id # 0 => record'[s].id = record[s].id]_vars

\* The record an attachment uses is not removed or rewritten under it while its
\* session lives, and the next attachment of that session resumes its seat.
SeatsKept == [](TypeOK /\ InUseKept) /\ SeatResumes

=============================================================================
