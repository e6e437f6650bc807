---------------------------- MODULE HumanSession ----------------------------
(***************************************************************************)
(* The interactive sign-in of one profile: the service every process runs  *)
(* (src/auth/human-session.ts), the vault it keeps its session in          *)
(* (src/credentials/vault.ts) and the encrypted pair of files on disk      *)
(* (src/credentials/local-session.ts).  The processes share the files and  *)
(* the server.  Every store operation runs under a kernel-owned lock that  *)
(* dies with its process, so it is one step, or a step its process ends    *)
(* in; a refresh holds a second such lock from before its read until its   *)
(* end, a sign-in and a sign-out do not.                                   *)
(***************************************************************************)
EXTENDS Naturals, FiniteSets, TLC

CONSTANTS
    Procs,        \* processes of this user and profile
    Width,        \* bound: how many requests of a process are under way at once
    MaxActive,    \* bound: how many calls are under way at once on this computer
    MaxLogins,    \* bound: how many login codes are issued
    MaxBearers,   \* bound: how many bearers are issued
    MaxEvents     \* bound: lost answers, interrupted writes, failed unlinks, and
                  \* what time and the server do to codes and bearers

ASSUME BoundsAssumption ==
    /\ MaxActive \in Nat /\ MaxLogins \in Nat /\ MaxBearers \in Nat
    /\ MaxEvents \in Nat
    /\ Width \in Nat \ {0}

Families == 1..MaxLogins        \* a login code and every bearer bought with it
Bearers == 1..MaxBearers        \* 0: no bearer
Calls == 1..Width               \* the callers in a process; 0: no call

VARIABLES
    disk,       \* the two files: the decrypted envelope, and the key
    family,     \* family[f]: what the server knows of a login code
    lapsed,     \* login codes past their expiry
    bearer,     \* bearer[b]: its family, its age and whether the server refuses it
    mem,        \* mem[p]: the service and the vault object of p
    call,       \* call[p][i]: a caller of the service
    flight,     \* flight[p]: the refresh the vault of p is running
    closed,     \* families a call reported removed from this computer
    forgotten,  \* bearers an undecided sign-out took off the disk
    events      \* how many faults and turns there were

vars == <<disk, family, lapsed, bearer, mem, call, flight, closed, forgotten, events>>

Envelopes == [rev : Nat, fam : 0..MaxLogins, tok : 0..MaxBearers]
NoEnvelope == [rev |-> 0, fam |-> 0, tok |-> 0]

\* A bearer ages from reusable (0) through the reuse margin of 120 s, where a
\* process that has it still uses it (1), to its last 30 s, where none does (2).
Unissued == [fam |-> 0, age |-> 0, refused |-> FALSE]

\* A process that has done nothing yet.
Fresh == [mode |-> "work", tok |-> 0, rev |-> 0, fence |-> NoEnvelope,
          revoked |-> FALSE, current |-> 0, probed |-> FALSE]
IdleCall == [at |-> "idle", rej |-> 0, retry |-> FALSE, on |-> 0, tok |-> 0, env |-> NoEnvelope]
NoFlight == [at |-> "none", owner |-> 0, forget |-> FALSE, waiters |-> {},
             env |-> NoEnvelope, next |-> NoEnvelope, terminal |-> FALSE]

CallPlaces == {"idle", "wait", "join", "have",
               "browser", "swap", "settle", "cleanup", "erase", "remove"}
FlightPlaces == {"none", "read", "locked", "exchange", "write", "settle", "reject"}

\* Type invariant; only an issued bearer is on disk, in memory or in a call.
TypeOK ==
    /\ disk \in [env : Envelopes, key : {"none", "empty", "ok"}]
    /\ family \in [Families -> {"none", "live", "revoked"}]
    /\ lapsed \in SUBSET Families
    /\ bearer \in [Bearers -> [fam : 0..MaxLogins, age : 0..2, refused : BOOLEAN]]
    /\ mem \in [Procs -> [mode : {"work", "logout"}, tok : 0..MaxBearers, rev : Nat,
                          fence : Envelopes, revoked : BOOLEAN, current : 0..Width,
                          probed : BOOLEAN]]
    /\ call \in [Procs -> [Calls -> [at : CallPlaces, rej : 0..MaxBearers, retry : BOOLEAN,
                                     on : 0..Width, tok : 0..MaxBearers, env : Envelopes]]]
    /\ flight \in [Procs -> [at : FlightPlaces, owner : 0..Width, forget : BOOLEAN, waiters : SUBSET Calls,
                             env : Envelopes, next : Envelopes, terminal : BOOLEAN]]
    /\ closed \in SUBSET Families /\ forgotten \in SUBSET Bearers
    /\ events \in 0..MaxEvents
    /\ \A b \in Bearers : bearer[b].fam = 0 =>
          disk.env.tok # b /\ \A p \in Procs : mem[p].tok # b /\ \A i \in Calls : call[p][i].tok # b

Init ==
    /\ disk = [env |-> NoEnvelope, key |-> "none"]
    /\ family = [f \in Families |-> "none"]
    /\ lapsed = {}
    /\ bearer = [b \in Bearers |-> Unissued]
    /\ mem = [p \in Procs |-> Fresh]
    /\ call = [p \in Procs |-> [i \in Calls |-> IdleCall]]
    /\ flight = [p \in Procs |-> NoFlight]
    /\ closed = {} /\ forgotten = {} /\ events = 0

remote == <<family, lapsed, bearer>>
local == <<mem, call, flight>>

\* What a step adds to the books: an event, a report.
Event == events < MaxEvents /\ events' = events + 1
NoEvent == UNCHANGED events
Reported(f) == closed' = closed \cup {f} /\ UNCHANGED forgotten
Unreported == UNCHANGED <<closed, forgotten>>

-----------------------------------------------------------------------------
(* The store: each is one operation under the storage lock *)

\* #requireBackend: a key file of no bytes fails the probe.  The evidence of an
\* earlier probe of this process may still be good (five minutes).
ProbeFails == disk.key = "empty"
Verified(p) == ~ProbeFails \/ mem[p].probed

\* #readUnlocked: without its ciphertext the key is removed, without its key
\* the ciphertext is removed and the read fails.
Readable == disk.env = NoEnvelope \/ disk.key = "ok"
Observed == IF Readable THEN disk.env ELSE NoEnvelope
Deleted == [env |-> NoEnvelope, key |-> "none"]
AfterRead == IF disk.env # NoEnvelope /\ disk.key = "ok" THEN disk ELSE Deleted

\* Mutant: nothing is compared.
SwapAnything(old, new) == Readable /\ disk' = [env |-> new, key |-> "ok"]

\* compareAndSwap against the digest of what was read before.
CompareAndSwap(old, new) ==
    /\ Readable
    /\ Observed = old
    /\ disk' = [env |-> new, key |-> "ok"]

SwapConflict(old) == Readable /\ Observed # old /\ disk' = AfterRead

\* Mutant: whatever is there is deleted.
DeleteAnything(old) == Readable /\ disk' = Deleted

\* compareAndDelete: what is gone already counts as deleted.
CompareAndDelete(old) ==
    /\ Readable
    /\ Observed \in {old, NoEnvelope}
    /\ disk' = Deleted

DeleteConflict(old) == Readable /\ Observed \notin {old, NoEnvelope} /\ UNCHANGED disk

\* The operation throws: the lock was not had in time, or the pair is
\* incomplete and was removed; a delete also when an unlink failed, and then
\* the other file is gone.
StoreThrows == disk' = IF Readable THEN disk ELSE Deleted
DeleteThrows(old) ==
    \/ StoreThrows
    \/ /\ disk.env = old /\ disk.key = "ok"
       /\ disk' \in {[disk EXCEPT !.env = NoEnvelope], [disk EXCEPT !.key = "none"]}

\* The process ends inside the operation: the key is created empty, then
\* written, and the ciphertext appears at the rename; of the pair the
\* ciphertext is unlinked first.
TornSwap(old, new) ==
    /\ Readable /\ Observed = old
    /\ disk' \in {[env |-> new, key |-> "ok"]}
         \cup IF old = NoEnvelope THEN {[env |-> old, key |-> k] : k \in {"empty", "ok"}} ELSE {}
TornDelete(old) ==
    /\ disk.env = old /\ disk.key = "ok"
    /\ disk' = [disk EXCEPT !.env = NoEnvelope]

-----------------------------------------------------------------------------
(* The server and time *)

Turn == Event /\ UNCHANGED <<disk, local, closed, forgotten>>

BearerAges(b) ==
    /\ bearer[b].fam # 0 /\ bearer[b].age < 2
    /\ bearer' = [bearer EXCEPT ![b].age = @ + 1]
    /\ UNCHANGED <<family, lapsed>> /\ Turn

BearerRefused(b) ==
    /\ bearer[b].fam # 0 /\ ~bearer[b].refused
    /\ bearer' = [bearer EXCEPT ![b].refused = TRUE]
    /\ UNCHANGED <<family, lapsed>> /\ Turn

CodeLapses(f) ==
    /\ family[f] # "none" /\ f \notin lapsed
    /\ lapsed' = lapsed \cup {f}
    /\ UNCHANGED <<family, bearer>> /\ Turn

\* The family is revoked elsewhere (the browser).
FamilyRevoked(f) ==
    /\ family[f] = "live"
    /\ family' = [family EXCEPT ![f] = "revoked"]
    /\ UNCHANGED <<lapsed, bearer>> /\ Turn

\* Mutant: the bearer is not the server's.
Unknown(b, f) ==
    /\ bearer[b] = Unissued /\ \A c \in 1..(b - 1) : bearer[c].fam # 0
    /\ UNCHANGED bearer

\* client.exchange buys bearer b of family f.
Issue(b, f) ==
    /\ bearer[b] = Unissued /\ \A c \in 1..(b - 1) : bearer[c].fam # 0
    /\ bearer' = [bearer EXCEPT ![b].fam = f]

Accepts(b) == ~bearer[b].refused /\ family[bearer[b].fam] = "live"

\* client.logout whose answer does not matter or does not come.
MaybeRevoked(b) ==
    family' \in {family, [family EXCEPT ![bearer[b].fam] = IF Accepts(b) THEN "revoked" ELSE @]}

-----------------------------------------------------------------------------
(* Processes and their callers *)

Busy == {c \in Procs \X Calls : call[c[1]][c[2]].at # "idle"}
MayCall == Cardinality(Busy) < MaxActive

InMemory(p) == mem[p].tok # 0 /\ bearer[mem[p].tok].age < 2
RefreshBy(i) == [NoFlight EXCEPT !.at = "read", !.owner = i, !.waiters = {i}]
ForgetBy(i) == [RefreshBy(i) EXCEPT !.forget = TRUE]

\* vault.refresh for call i: joins the refresh this vault is running, or starts one.
Refresh(p, i, c) ==
    /\ call' = [call EXCEPT ![p][i] = [c EXCEPT !.at = "wait"]]
    /\ flight' = [flight EXCEPT ![p] = IF @.at = "none" THEN RefreshBy(i)
                                       ELSE [flight[p] EXCEPT !.waiters = @ \cup {i}]]

\* A process that signs out has no bearer in memory and starts by acquiring one.
LogoutStart(p) ==
    /\ mem[p] = Fresh /\ MayCall
    /\ \A i \in Calls : call[p][i].at = "idle"
    /\ mem' = [mem EXCEPT ![p].mode = "logout", ![p].current = 1]
    /\ Refresh(p, 1, IdleCall)
    /\ UNCHANGED <<disk, remote>> /\ Unreported /\ NoEvent

\* The process ends and the next one takes its place.
Exit(p) ==
    /\ mem' = [mem EXCEPT ![p] = Fresh]
    /\ call' = [call EXCEPT ![p] = [i \in Calls |-> IdleCall]]
    /\ flight' = [flight EXCEPT ![p] = NoFlight]

\* The process ends, whatever it was doing.
End(p) ==
    /\ mem[p] # Fresh \/ \E i \in Calls : call[p][i].at # "idle"
    /\ Exit(p)
    /\ UNCHANGED <<disk, remote>> /\ Unreported /\ NoEvent

\* acquireAccessToken: the bearer in memory, else the re-exchange under way,
\* else a new one.
Acquire(p, i) ==
    /\ mem[p].mode = "work" /\ call[p][i].at = "idle"
    /\ call[p][1].at \in {"idle", "wait", "join", "have"}
    /\ \A j \in 1..(i - 1) : call[p][j].at # "idle"   \* callers are interchangeable
    /\ MayCall
    /\ \/ /\ InMemory(p)
          /\ call' = [call EXCEPT ![p][i] = [IdleCall EXCEPT !.at = "have", !.tok = mem[p].tok]]
          /\ UNCHANGED <<mem, flight>>
       \/ /\ ~InMemory(p) /\ mem[p].current # 0
          /\ call' = [call EXCEPT ![p][i] = [IdleCall EXCEPT !.at = "join", !.on = mem[p].current]]
          /\ UNCHANGED <<mem, flight>>
       \/ /\ ~InMemory(p) /\ mem[p].current = 0
          /\ mem' = [mem EXCEPT ![p].current = i]
          /\ Refresh(p, i, IdleCall)
    /\ UNCHANGED <<disk, remote>> /\ Unreported /\ NoEvent

\* The request is answered; the caller is done with its bearer.
Answered(p, i) ==
    /\ mem[p].mode = "work" /\ call[p][i].at = "have"
    /\ call' = [call EXCEPT ![p][i] = IdleCall]
    /\ UNCHANGED <<disk, remote, mem, flight>> /\ Unreported /\ NoEvent

\* refreshRejectedAccessToken, once per request: a bearer another caller has
\* put in its place is returned; otherwise a re-exchange that names the
\* refused one starts, whatever is under way.
Refused(p, i) ==
    LET t == call[p][i].tok IN
    /\ mem[p].mode = "work" /\ call[p][i].at = "have" /\ call[p][i].rej = 0
    /\ ~Accepts(t)
    /\ \/ /\ InMemory(p) /\ mem[p].tok # t
          /\ call' = [call EXCEPT ![p][i] = [IdleCall EXCEPT !.at = "have", !.tok = mem[p].tok, !.rej = t]]
          /\ UNCHANGED <<mem, flight>>
       \/ /\ ~(InMemory(p) /\ mem[p].tok # t)
          /\ mem' = [mem EXCEPT ![p].tok = 0, ![p].current = i]
          /\ Refresh(p, i, [IdleCall EXCEPT !.rej = t])
    /\ UNCHANGED <<disk, remote>> /\ Unreported /\ NoEvent

-----------------------------------------------------------------------------
(* The refresh: #performRefresh and what its callers make of it *)

\* Mutant: the lock is given up once the exchange is answered.
HeldUntilAnswered(p) == flight[p].at \in {"locked", "exchange"}

\* withRefreshLock: what a refresh does, its probe and its read included, it does
\* with the lock.
Refreshing(p) == flight[p].at \in {"locked", "exchange", "write", "settle", "reject"}

LockFree == \A p \in Procs : ~Refreshing(p)

\* usableStoredAccess: not the bearer the server just refused, and more than the margin left.
Usable(e, rejected) == e.tok # 0 /\ e.tok # rejected /\ bearer[e.tok].age = 0

\* Mutant: a joined refresh gives whatever it stored.
GivesAny(p, i, snap) == snap.tok # 0

\* The snapshot gives i a bearer: the one its own callback captured, or the
\* stored one of a refresh it joined if that is good for it.
Gives(p, i, snap) ==
    /\ snap.tok # 0
    /\ i = flight[p].owner \/ (Usable(snap, call[p][i].rej) /\ snap.fam \notin lapsed)

\* Every waiter resumes, and who waits for a waiter's re-exchange with it; one
\* that got no bearer tries once more.  A sign-out that got none forgets the
\* stored bearer, and ends after that.  m is the memory of p by then.
Settle(p, ok, snap, m) ==
    LET W == flight[p].waiters
        Got(i) == i \in W /\ ok /\ Gives(p, i, snap)
        Again == {i \in W : ok /\ ~Gives(p, i, snap) /\ ~call[p][i].retry}
        Failed(i) == i \in W /\ ~Got(i) /\ i \notin Again
        resumed(i) ==
            LET c == call[p][i]
                w == IF c.at = "join" THEN c.on ELSE i IN
            IF Got(w) THEN [IdleCall EXCEPT !.at = "have", !.tok = snap.tok, !.rej = c.rej]
            ELSE IF Failed(w) THEN IdleCall
            ELSE [c EXCEPT !.retry = @ \/ i \in Again]
    IN  IF flight[p].forget THEN Exit(p)
        ELSE IF m.mode = "logout" /\ Failed(1)
        THEN /\ flight' = [flight EXCEPT ![p] = ForgetBy(1)]
             /\ mem' = [mem EXCEPT ![p] = m] /\ UNCHANGED call
        ELSE /\ call' = [call EXCEPT ![p] = [i \in Calls |-> resumed(i)]]
             /\ mem' = [mem EXCEPT ![p] =
                   [m EXCEPT !.tok = IF \E i \in W : Got(i) THEN snap.tok ELSE @,
                             !.rev = IF m.mode = "logout" /\ Got(1) THEN snap.rev ELSE @,
                             !.current = IF Got(@) \/ Failed(@) THEN 0 ELSE @]]
             /\ IF Again = {} THEN flight' = [flight EXCEPT ![p] = NoFlight]
                ELSE \E i \in Again :
                        flight' = [flight EXCEPT ![p] = [RefreshBy(i) EXCEPT !.waiters = Again]]

Fails(p) == Settle(p, FALSE, NoEnvelope, mem[p])

\* Mutant: the bearer stays.
WithAccess(e) == [e EXCEPT !.rev = @ + 1]

\* forgetStoredAccess: the same login code without its bearer.
WithoutAccess(e) == [e EXCEPT !.rev = @ + 1, !.tok = 0]

\* The digest of a retained envelope is kept for a delete in this process, and
\* only a sign-out goes on to one.
Retained(p, e, m) ==
    Settle(p, TRUE, e, IF m.mode = "logout" THEN [m EXCEPT !.fence = e] ELSE m)

FlightLocks(p) ==
    /\ flight[p].at = "read" /\ LockFree
    /\ flight' = [flight EXCEPT ![p].at = "locked"]
    /\ UNCHANGED <<disk, remote, mem, call>> /\ Unreported /\ NoEvent

\* The envelope is read, and the callback decides without the server where it
\* can: nothing stored, the code lapsed, the bearer good.
FlightRead(p) ==
    LET fl == flight[p]
        e == Observed
        m == [mem[p] EXCEPT !.probed = TRUE]
        Goto(where, next) ==
            /\ flight' = [flight EXCEPT ![p] = [fl EXCEPT !.at = where, !.env = e, !.next = next]]
            /\ mem' = [mem EXCEPT ![p] = m] /\ UNCHANGED call
    IN
    /\ fl.at = "locked" /\ Verified(p)
    /\ disk' = AfterRead
    /\ \/ e = NoEnvelope /\ Settle(p, FALSE, e, m)
       \/ e # NoEnvelope /\ fl.forget /\ e.tok = 0 /\ Retained(p, e, m)
       \/ e # NoEnvelope /\ fl.forget /\ e.tok # 0 /\ Goto("write", WithoutAccess(e))
       \/ e # NoEnvelope /\ ~fl.forget /\ e.fam \in lapsed /\ Goto("reject", NoEnvelope)
       \/ /\ e # NoEnvelope /\ ~fl.forget /\ e.fam \notin lapsed
          /\ IF Usable(e, call[p][fl.owner].rej) THEN Retained(p, e, m) ELSE Goto("exchange", NoEnvelope)
    /\ UNCHANGED remote /\ Unreported /\ NoEvent

\* The lock was not had in time, or the store cannot be verified.
FlightRefused(p) ==
    /\ (flight[p].at = "read" /\ ~LockFree) \/ (flight[p].at = "locked" /\ ProbeFails)
    /\ Fails(p)
    /\ UNCHANGED <<disk, remote>> /\ Unreported /\ NoEvent

\* client.exchange: a new bearer of the same family.
Exchanged(p) ==
    LET fl == flight[p] IN
    /\ fl.at = "exchange" /\ family[fl.env.fam] = "live"
    /\ \E b \in Bearers :
          /\ Issue(b, fl.env.fam)
          /\ flight' = [flight EXCEPT ![p].at = "write",
                          ![p].next = [fl.env EXCEPT !.rev = @ + 1, !.tok = b]]
    /\ UNCHANGED <<disk, family, lapsed, mem, call>> /\ Unreported /\ NoEvent

\* The answer is not about the session that was stored: the family is signed
\* out as far as that works, and the session rejected.
ExchangeMismatch(p) ==
    LET f == flight[p].env.fam IN
    /\ flight[p].at = "exchange" /\ family[f] = "live"
    /\ family' \in {family, [family EXCEPT ![f] = "revoked"]}
    /\ flight' = [flight EXCEPT ![p].at = "reject"]
    /\ UNCHANGED <<disk, lapsed, bearer, mem, call>> /\ Unreported /\ Event

\* The server says that the family is no more.
ExchangeRejected(p) ==
    /\ flight[p].at = "exchange" /\ family[flight[p].env.fam] = "revoked"
    /\ flight' = [flight EXCEPT ![p].at = "reject", ![p].terminal = TRUE]
    /\ UNCHANGED <<disk, remote, mem, call>> /\ Unreported /\ NoEvent

\* No answer, or one that proves nothing.
ExchangeFails(p) ==
    /\ flight[p].at = "exchange"
    /\ Fails(p)
    /\ UNCHANGED <<disk, remote>> /\ Unreported /\ NoEvent

\* The rotation is stored: a sign-out that forgot a bearer has done so.
Rotated(p) ==
    /\ Settle(p, TRUE, flight[p].next, [mem[p] EXCEPT !.revoked = FALSE])
    /\ forgotten' = IF flight[p].forget THEN forgotten \cup {flight[p].env.tok} ELSE forgotten
    /\ UNCHANGED closed

\* The rotation: swapped, a conflict, or thrown with or without its effect, or
\* its process ends in it.
FlightWrite(p) ==
    LET fl == flight[p] IN
    /\ fl.at = "write"
    /\ \/ CompareAndSwap(fl.env, fl.next) /\ Rotated(p) /\ NoEvent
       \/ SwapConflict(fl.env) /\ Fails(p) /\ Unreported /\ NoEvent
       \/ /\ CompareAndSwap(fl.env, fl.next) \/ StoreThrows
          /\ flight' = [flight EXCEPT ![p].at = "settle"]
          /\ UNCHANGED <<mem, call>> /\ Unreported /\ Event
       \/ TornSwap(fl.env, fl.next) /\ Exit(p) /\ Unreported /\ Event
    /\ UNCHANGED remote

\* #replaceWithReconciliation reads back and adjudicates the effect.
FlightSettle(p) ==
    LET fl == flight[p] IN
    /\ fl.at = "settle"
    /\ disk' = AfterRead
    /\ \/ Observed = fl.next /\ Rotated(p) /\ NoEvent
       \/ Observed # fl.next /\ Fails(p) /\ Unreported /\ NoEvent
       \/ Observed = fl.next /\ Fails(p) /\ Unreported /\ Event
    /\ UNCHANGED remote

\* A rejected session is removed if it is still the one that was read; for a
\* sign-out the server's terminal answer is its success.
FlightReject(p) ==
    LET fl == flight[p] IN
    /\ fl.at = "reject"
    /\ \/ /\ CompareAndDelete(fl.env)
          /\ IF mem[p].mode = "logout" /\ fl.terminal
             THEN Exit(p) /\ Reported(fl.env.fam)
             ELSE Settle(p, FALSE, NoEnvelope, [mem[p] EXCEPT !.revoked = TRUE]) /\ Unreported
          /\ NoEvent
       \/ DeleteConflict(fl.env) /\ Fails(p) /\ Unreported /\ NoEvent
       \/ DeleteThrows(fl.env) /\ Fails(p) /\ Unreported /\ Event
       \/ TornDelete(fl.env) /\ Exit(p) /\ Unreported /\ Event
    /\ UNCHANGED remote

-----------------------------------------------------------------------------
(* login: the first call of a process that has no other under way *)

One(p) == call[p][1]
Goto(p, c) == call' = [call EXCEPT ![p][1] = c]

\* vault.status: a session this process removed is not looked for again; a
\* stored one whose code has not lapsed ends the sign-in, as does a store
\* that cannot be verified.
LoginStatus(p) ==
    /\ mem[p].mode = "work" /\ flight[p].at = "none" /\ MayCall
    /\ \A i \in Calls : call[p][i].at = "idle"
    /\ Verified(p)
    /\ mem' = [mem EXCEPT ![p].probed = TRUE]
    /\ \/ mem[p].revoked /\ UNCHANGED disk /\ Goto(p, [IdleCall EXCEPT !.at = "browser"])
       \/ /\ ~mem[p].revoked
          /\ disk' = AfterRead
          /\ IF Readable /\ (Observed = NoEnvelope \/ Observed.fam \in lapsed)
             THEN Goto(p, [IdleCall EXCEPT !.at = "browser"]) ELSE UNCHANGED call
    /\ UNCHANGED <<remote, flight>> /\ Unreported /\ NoEvent

\* Expired, no code, refused, cancelled: nothing was stored.
LoginGivesUp(p) ==
    /\ One(p).at = "browser"
    /\ Goto(p, IdleCall)
    /\ UNCHANGED <<disk, remote, mem, flight>> /\ Unreported /\ NoEvent

\* The sign-in ends with an error, and its remote family is signed out as far
\* as that works.
LoginFails(p) == Goto(p, IdleCall) /\ MaybeRevoked(One(p).tok) /\ UNCHANGED <<lapsed, bearer>>

\* The continuation, the code from the browser and its exchange.  rotate then
\* reads what is stored, whatever status saw; a sign-in that was cancelled,
\* or whose account is not ready, or that cannot read, stores nothing.
LoginExchange(p) ==
    /\ One(p).at = "browser"
    /\ \E f \in Families, b \in Bearers :
          /\ family[f] = "none" /\ \A g \in 1..(f - 1) : family[g] # "none"
          /\ Issue(b, f)
          /\ \/ /\ Readable /\ disk' = AfterRead
                /\ family' = [family EXCEPT ![f] = "live"]
                /\ Goto(p, [One(p) EXCEPT !.at = "swap", !.tok = b, !.env = Observed])
             \/ /\ StoreThrows
                /\ \E known \in {"live", "revoked"} : family' = [family EXCEPT ![f] = known]
                /\ Goto(p, IdleCall)
    /\ UNCHANGED <<lapsed, mem, flight>> /\ Unreported /\ NoEvent

\* The envelope of this sign-in, one revision above what rotate read:
\* expectedRevision is not given.
LoginEnvelope(p) == [rev |-> One(p).env.rev + 1, fam |-> bearer[One(p).tok].fam, tok |-> One(p).tok]

\* Stored: the bearer is kept in memory, or a cancellation came meanwhile.
LoginStored(p) ==
    \/ /\ mem' = [mem EXCEPT ![p].revoked = FALSE, ![p].tok = One(p).tok]
       /\ Goto(p, IdleCall)
    \/ /\ mem' = [mem EXCEPT ![p].revoked = FALSE]
       /\ Goto(p, [One(p) EXCEPT !.at = "cleanup", !.env = LoginEnvelope(p)])

LoginSwap(p) ==
    LET old == One(p).env IN
    /\ One(p).at = "swap"
    /\ \/ CompareAndSwap(old, LoginEnvelope(p)) /\ LoginStored(p) /\ UNCHANGED <<remote, flight>> /\ NoEvent
       \/ SwapConflict(old) /\ LoginFails(p) /\ UNCHANGED <<mem, flight>> /\ NoEvent
       \/ /\ CompareAndSwap(old, LoginEnvelope(p)) \/ StoreThrows
          /\ Goto(p, [One(p) EXCEPT !.at = "settle"])
          /\ UNCHANGED <<remote, mem, flight>> /\ Event
       \/ TornSwap(old, LoginEnvelope(p)) /\ Exit(p) /\ UNCHANGED remote /\ Event
    /\ Unreported

LoginSettle(p) ==
    /\ One(p).at = "settle"
    /\ disk' = AfterRead
    /\ \/ Observed = LoginEnvelope(p) /\ LoginStored(p) /\ UNCHANGED remote /\ NoEvent
       \/ Observed # LoginEnvelope(p) /\ LoginFails(p) /\ UNCHANGED mem /\ NoEvent
       \/ Observed = LoginEnvelope(p) /\ LoginFails(p) /\ UNCHANGED mem /\ Event
    /\ UNCHANGED flight /\ Unreported

-----------------------------------------------------------------------------
(* logout, and deleteIfRevision for it and for a cancelled sign-in *)

\* The server confirms, or says the family is no more: what is stored under
\* the revision the bearer came with may go.
LogoutConfirmed(p) ==
    LET t == One(p).tok IN
    /\ mem[p].mode = "logout" /\ One(p).at = "have"
    /\ Accepts(t) \/ family[bearer[t].fam] = "revoked"
    /\ family' = [family EXCEPT ![bearer[t].fam] = "revoked"]
    /\ Goto(p, [One(p) EXCEPT !.at = "remove", !.env = [NoEnvelope EXCEPT !.rev = mem[p].rev]])
    /\ mem' = [mem EXCEPT ![p].tok = 0, ![p].rev = 0]
    /\ UNCHANGED <<disk, lapsed, bearer, flight>> /\ Unreported /\ NoEvent

\* No answer, or one that proves nothing: the bearer is forgotten in memory
\* and, next, on disk; the login code stays.
LogoutUnknown(p) ==
    /\ mem[p].mode = "logout" /\ One(p).at = "have"
    /\ MaybeRevoked(One(p).tok)
    /\ mem' = [mem EXCEPT ![p].tok = 0, ![p].rev = 0, ![p].fence = NoEnvelope]
    /\ Goto(p, [IdleCall EXCEPT !.at = "wait"])
    /\ flight' = [flight EXCEPT ![p] = ForgetBy(1)]
    /\ UNCHANGED <<disk, lapsed, bearer>> /\ Unreported /\ NoEvent

\* The process that signed out ends; a cancelled sign-in goes on to the server.
AfterRemoval(p, gone) ==
    IF mem[p].mode = "logout" THEN Exit(p) /\ UNCHANGED remote
    ELSE /\ LoginFails(p)
         /\ mem' = [mem EXCEPT ![p].revoked = @ \/ gone]
         /\ UNCHANGED flight

Removed(p) == AfterRemoval(p, TRUE) /\ Reported(bearer[One(p).tok].fam)
NotRemoved(p) == AfterRemoval(p, FALSE) /\ Unreported

\* compareAndDelete of the fenced session.
Erase(p, e) ==
    \/ CompareAndDelete(e) /\ Removed(p) /\ NoEvent
    \/ DeleteConflict(e) /\ NotRemoved(p) /\ NoEvent
    \/ DeleteThrows(e) /\ NotRemoved(p) /\ Event
    \/ TornDelete(e) /\ Exit(p) /\ UNCHANGED remote /\ Unreported /\ Event

\* With a fence of the expected revision the delete compares its digest;
\* without one the envelope is read first and its revision compared.
RemoveFenced(p) ==
    /\ One(p).at \in {"cleanup", "remove"} /\ mem[p].fence.rev = One(p).env.rev
    /\ \/ Erase(p, mem[p].fence)
       \/ ProbeFails /\ UNCHANGED disk /\ NotRemoved(p) /\ NoEvent

RemoveRead(p) ==
    /\ One(p).at \in {"cleanup", "remove"} /\ mem[p].fence.rev # One(p).env.rev
    /\ \/ /\ Readable /\ disk' = AfterRead
          /\ NoEvent
          /\ \/ /\ Observed.rev = One(p).env.rev
                /\ Goto(p, [One(p) EXCEPT !.at = "erase", !.env = Observed])
                /\ UNCHANGED <<remote, mem, flight>> /\ Unreported
             \/ Observed = NoEnvelope /\ Removed(p)
             \/ Observed.rev \notin {0, One(p).env.rev} /\ NotRemoved(p)
       \/ /\ StoreThrows /\ NotRemoved(p)
          /\ IF ProbeFails \/ ~Readable THEN NoEvent ELSE Event

RemoveErase(p) ==
    /\ One(p).at = "erase"
    /\ Erase(p, One(p).env)

-----------------------------------------------------------------------------
Next ==
    \/ \E p \in Procs :
          \/ LogoutStart(p) \/ End(p)
          \/ \E i \in Calls : Acquire(p, i) \/ Answered(p, i) \/ Refused(p, i)
          \/ FlightLocks(p) \/ FlightRead(p) \/ FlightRefused(p) \/ Exchanged(p) \/ ExchangeMismatch(p)
          \/ ExchangeRejected(p) \/ ExchangeFails(p) \/ FlightWrite(p) \/ FlightSettle(p) \/ FlightReject(p)
          \/ LoginStatus(p) \/ LoginExchange(p) \/ LoginGivesUp(p)
          \/ LoginSwap(p) \/ LoginSettle(p)
          \/ LogoutConfirmed(p) \/ LogoutUnknown(p)
          \/ RemoveFenced(p) \/ RemoveRead(p) \/ RemoveErase(p)
    \/ \E b \in Bearers : BearerAges(b) \/ BearerRefused(b)
    \/ \E f \in Families : CodeLapses(f) \/ FamilyRevoked(f)

Spec == Init /\ [][Next]_vars

-----------------------------------------------------------------------------
(* Properties *)

\* A caller that named a bearer the server refused never gets it back, from
\* the disk, from the refresh of another caller or from memory ("or a 401
\* becomes an infinite loop against a dead token").
RefusedNotReturned ==
    \A p \in Procs : \A i \in Calls :
        call[p][i].at = "have" => call[p][i].tok # call[p][i].rej

\* Once a sign-out, or the clean-up of a cancelled sign-in, has reported a
\* session removed, no process puts it back, not even a refresh that read it before.
RemovedStaysGone == disk.env.fam \notin closed

\* A bearer that an undecided sign-out took off the disk never returns to it.
ForgottenStaysGone == disk.env.tok \notin forgotten

\* A login code is exchanged for a new bearer only while the store holds none of
\* that code that would do: whoever waited for the refresh of another process finds
\* what that one stored, however the exchange and the write were answered.
ExchangeNeeded ==
    \A p \in Procs :
        flight[p].at = "exchange" /\ disk.env.fam = flight[p].env.fam =>
            ~Usable(disk.env, call[p][flight[p].owner].rej)

\* A session is taken off the disk, or another put in its place, only once it
\* is of no use (revoked, lapsed, without its key), or by a process whose last
\* read was of that very session: one whose answer did not match, a sign-in,
\* or a removal by revision.  One that was stored meanwhile is kept.
LiveSessionKept ==
    [][\A f \in Families :
         disk.env.fam = f /\ disk'.env.fam # f =>
           \/ disk.key = "none" \/ family[f] = "revoked" \/ f \in lapsed
           \/ \E p \in Procs : \/ flight[p].at = "reject" /\ flight[p].env = disk.env
                               \/ One(p).at \in {"swap", "erase"} /\ One(p).env = disk.env]_vars

\* What is gone stays gone: a bearer the service refused is not returned, and a session
\* that was removed or forgotten does not come back by a write that began before.
GoneStaysGone == TypeOK /\ RefusedNotReturned /\ RemovedStaysGone /\ ForgottenStaysGone

\* Processes are interchangeable (the symmetry TLC uses).
Symmetry == Permutations(Procs)
=============================================================================
