----------------------------- MODULE LocalSession -----------------------------
(***************************************************************************)
(* The encrypted local session store on Windows                            *)
(* (credentials/local-session.ts): an AES key file and a ciphertext file   *)
(* in one directory, every operation under a process lock the system frees *)
(* when the process ends.  Before it touches a file an operation must know *)
(* that the directory and the file are the current user's alone: from the  *)
(* record of an earlier inspection whose stats still match, or from one    *)
(* inspection by the operating system.  Anybody who may can change a       *)
(* permission at any moment; processes end at any step.                    *)
(***************************************************************************)
EXTENDS Naturals, FiniteSets

CONSTANTS LsProcs,        \* processes
          LsOps,          \* bound: operations started
          LsTampers,      \* bound: permissions changed by others
          LsEnds          \* bound: processes that end inside an operation

ASSUME StoreBounds == LsOps \in Nat /\ LsTampers \in Nat /\ LsEnds \in Nat

VARIABLES lsDisk,         \* object -> its permissions, change clock and content
          lsRecord,       \* the fingerprint record: object -> change clock, or {}
          lsLock,         \* the process holding the storage lock
          lsProc,         \* what each process holds in memory
          lsTick,         \* the file system's clock
          lsKept,         \* ghost: the code stored and not removed since
          lsLeft          \* bounds left: operations, permission changes, ends
lsVars == <<lsDisk, lsRecord, lsLock, lsProc, lsTick, lsKept, lsLeft>>

Objects == {"dir", "key", "session"}
Files == {"key", "session"}
Absent == [acl |-> "none", at |-> 0, holds |-> 0, under |-> 0]
Present(o) == lsDisk[o] # Absent
\* windowsAclInspectionFromSddl: the exact protected one-entry DACL.  What a new
\* object inherits from its directory is not that.
OwnerOnly(o) == lsDisk[o].acl = "own"
NoLsRecord == [o \in Objects |-> 0]

LsKinds == {"probe", "read", "replace", "swap", "delete", "drop"}
Removing == {"delete", "drop"}
\* An operation: its step, the stats taken before the inspection, the objects
\* its scope knows to be owner-only, the objects it has inspected, and (ghost)
\* the objects that were owner-only at some moment of it.
LsResting == [pc |-> "idle", op |-> "none", before |-> NoLsRecord, good |-> {}, asked |-> {}, was |-> {},
              seen |-> 0, code |-> 0, result |-> "none"]

\* Nothing there yet, or what an earlier process stored step by step.
Stored == [dir     |-> [acl |-> "own", at |-> 6, holds |-> 0, under |-> 0],
           key     |-> [acl |-> "own", at |-> 5, holds |-> 4, under |-> 0],
           session |-> [acl |-> "own", at |-> 7, holds |-> 6, under |-> 4]]
LsInit ==
    /\ \/ /\ lsDisk = [o \in Objects |-> Absent]
          /\ lsRecord = NoLsRecord
          /\ lsTick = 1 /\ lsKept = 0
       \/ /\ lsDisk = Stored
          /\ lsRecord = [NoLsRecord EXCEPT !["dir"] = 2]
          /\ lsTick = 8 /\ lsKept = 6
    /\ lsLock = "free"
    /\ lsProc = [p \in LsProcs |-> LsResting]
    /\ lsLeft = [ops |-> LsOps, tampers |-> LsTampers, ends |-> LsEnds]

At(p, s) == lsProc[p].pc = s
\* Every step of an operation remembers what it saw owner-only (ghost).
Owned(disk) == {o \in Objects : disk[o].acl = "own"}
LsBecomes(p, r, disk) ==
    /\ lsDisk' = disk
    /\ lsProc' = [q \in LsProcs |->
                    LET s == IF q = p THEN r ELSE lsProc[q]
                    IN IF s.pc = "idle" THEN s ELSE [s EXCEPT !.was = @ \cup Owned(disk)]]
Moves1(p, s) == LsBecomes(p, [lsProc[p] EXCEPT !.pc = s], lsDisk)
Answers(p, result) == LsBecomes(p, [lsProc[p] EXCEPT !.pc = "unlock", !.result = result], lsDisk)
Same == UNCHANGED <<lsRecord, lsLock, lsTick, lsKept, lsLeft>>
\* An object changed: its clock moves, and its directory's when the object is
\* created, replaced or removed.
Changed(o, acl, holds, under) == [lsDisk EXCEPT ![o] = [acl |-> acl, at |-> lsTick, holds |-> holds, under |-> under]]
Entered(disk) == [disk EXCEPT !["dir"].at = lsTick]
Ticks == lsTick' = lsTick + 1

\* #withNamedProcessLock before the lock: the directory is made if it is
\* absent ...
StartOp(p) ==
    /\ At(p, "idle")
    /\ lsLeft.ops > 0
    /\ \E k \in LsKinds :
        LET r == [LsResting EXCEPT !.op = k, !.seen = lsProc[p].seen]
        IN IF Present("dir")
           THEN LsBecomes(p, [r EXCEPT !.pc = "lock"], lsDisk) /\ UNCHANGED lsTick
           ELSE LsBecomes(p, [r EXCEPT !.pc = "fresh_dir"], Changed("dir", "inherited", 0, 0)) /\ Ticks
    /\ lsLeft' = [lsLeft EXCEPT !.ops = @ - 1]
    /\ UNCHANGED <<lsRecord, lsLock, lsKept>>

\* ... and its permissions are set, which the code does for new objects only.
\* (ensureNewWindowsOwnerOnlyAcl: inspect, repair and inspect in one call.)
Reconciles(p, o, next) ==
    /\ LsBecomes(p, [lsProc[p] EXCEPT !.pc = next, !.good = @ \ {o}],
                 IF OwnerOnly(o) THEN lsDisk
                 ELSE Changed(o, "own", lsDisk[o].holds, lsDisk[o].under))
    /\ Ticks

FreshDirectory(p) ==
    /\ At(p, "fresh_dir")
    /\ Reconciles(p, "dir", "lock")
    /\ UNCHANGED <<lsRecord, lsLock, lsKept, lsLeft>>

TakeLock(p) ==
    /\ At(p, "lock")
    /\ lsLock = "free"
    /\ lsLock' = p
    /\ Moves1(p, "stat")
    /\ UNCHANGED <<lsRecord, lsTick, lsKept, lsLeft>>

\* The lock stayed taken until the deadline.
LockTimesOut(p) ==
    /\ At(p, "lock")
    /\ lsLock # "free"
    /\ LsBecomes(p, [LsResting EXCEPT !.seen = lsProc[p].seen], lsDisk)
    /\ Same

Stats == [o \in Objects |-> lsDisk[o].at]
MatchesDirectory(record, stats) == stats["dir"] # 0 /\ record["dir"] = stats["dir"]
\* #readAclFingerprint: every object present now is as recorded.
Matches(record, stats) == stats["dir"] # 0 /\ \A o \in Objects : stats[o] # 0 => record[o] = stats[o]

\* #inspectWindowsAcl at the first enforcement site, the directory: stats of
\* all three, then the record stands in for the inspection if it matches.
TakeStats(p) ==
    /\ At(p, "stat")
    /\ LET r == [lsProc[p] EXCEPT !.before = Stats]
       IN IF Matches(lsRecord, Stats)
          THEN LsBecomes(p, [r EXCEPT !.pc = "act", !.good = {o \in Objects : Present(o)},
                                      !.asked = {o \in Objects : Present(o)}], lsDisk)
          ELSE LsBecomes(p, [r EXCEPT !.pc = "inspect"], lsDisk)
    /\ Same

\* One OS inspection of the three paths; an absent one yields nothing.
LsInspect(p) ==
    /\ At(p, "inspect")
    /\ LsBecomes(p, [lsProc[p] EXCEPT !.pc = "restat", !.good = Owned(lsDisk),
                                      !.asked = {o \in Objects : Present(o)}], lsDisk)
    /\ Same

\* The inspection failed or outlasted its bound: the operation fails closed.
InspectFails(p) ==
    /\ At(p, "inspect")
    /\ Answers(p, "unverified")
    /\ Same

RecordsUnwatched(p) == lsProc[p].asked \subseteq lsProc[p].good

\* #recordAclFingerprint: only when all that is there was owner-only and
\* nothing moved meanwhile.
Recordable(p) ==
    /\ lsProc[p].asked \subseteq lsProc[p].good
    /\ \A o \in Objects : (lsProc[p].before[o] # 0) = (o \in lsProc[p].asked)
    /\ Stats = lsProc[p].before

Restat(p) ==
    /\ At(p, "restat")
    /\ LsBecomes(p, [lsProc[p] EXCEPT !.pc = "act",
                       !.before = IF Recordable(p) THEN Stats ELSE NoLsRecord], lsDisk)
    /\ lsRecord' = IF Recordable(p) THEN Stats ELSE lsRecord
    /\ UNCHANGED <<lsLock, lsTick, lsKept, lsLeft>>

\* #assertSafeIfPresent, of a file that is there: not empty, and owner-only.
Safe(p, o) == lsDisk[o].holds # 0 /\ o \in lsProc[p].good

\* The directory first; then the operation.
Act(p) ==
    /\ At(p, "act")
    /\ IF "dir" \notin lsProc[p].good THEN Answers(p, "unverified")
       ELSE CASE lsProc[p].op = "probe" ->
                   Answers(p, IF \A o \in Files : Present(o) => Safe(p, o) THEN "verified" ELSE "unverified")
              [] lsProc[p].op \in {"read", "swap", "drop"} -> Moves1(p, "read")
              [] lsProc[p].op = "replace" -> Moves1(p, "make_key")
              [] lsProc[p].op = "delete"  -> Moves1(p, "unlink_session")
    /\ Same

ReadSessionEagerly(p) ==
    CASE ~Present("session")      -> "lost_key"
      [] Present("session") /\ (~Safe(p, "session") \/ ~Present("key") \/ ~Safe(p, "key")) -> "unlink_session"
      [] OTHER -> "decrypt"

\* What a read does when a file cannot be used.
ReadSession(p) ==
    CASE ~Present("session")      -> "lost_key"
      [] Present("session") /\ ~Safe(p, "session") -> "fail"
      [] Present("session") /\ Safe(p, "session") /\ ~Present("key") -> "unlink_session"
      [] Present("session") /\ Safe(p, "session") /\ Present("key") /\ ~Safe(p, "key") -> "fail"
      [] OTHER -> "decrypt"
\* #readUnlocked.  Without a ciphertext the key is residue; without a key the
\* ciphertext is.  The digest comparison of a swap or a drop follows.
ReadFiles(p) ==
    /\ At(p, "read")
    /\ CASE ReadSession(p) = "fail"     -> Answers(p, "unverified")
         [] ReadSession(p) = "lost_key" -> LsBecomes(p, [lsProc[p] EXCEPT !.pc = "unlink_key", !.result = "absent"], lsDisk)
         [] ReadSession(p) = "unlink_session" ->
                LsBecomes(p, [lsProc[p] EXCEPT !.pc = "unlink_session", !.result = "corrupt"], lsDisk)
         [] ReadSession(p) = "decrypt" /\ lsDisk["session"].under # lsDisk["key"].holds -> Answers(p, "corrupt")
         [] OTHER ->
                LET c == lsDisk["session"].holds
                IN CASE lsProc[p].op = "read" -> LsBecomes(p, [lsProc[p] EXCEPT !.pc = "unlock", !.result = "value", !.seen = c, !.code = c], lsDisk)
                     [] lsProc[p].op # "read" /\ lsProc[p].seen # c -> Answers(p, "conflict")
                     [] lsProc[p].op = "swap" /\ lsProc[p].seen = c -> Moves1(p, "make_key")
                     [] OTHER -> Moves1(p, "unlink_session")
    /\ Same

\* #loadOrCreateKey: an existing key is verified; a new one is an empty file
\* first, then 32 bytes, then given its permissions.
LoadKey(p) ==
    /\ At(p, "make_key")
    /\ IF Present("key")
       THEN /\ IF Safe(p, "key") THEN Moves1(p, "write_session") ELSE Answers(p, "unverified")
            /\ UNCHANGED lsTick
       ELSE /\ LsBecomes(p, [lsProc[p] EXCEPT !.pc = "fill_key"], Entered(Changed("key", "inherited", 0, 0)))
            /\ Ticks
    /\ UNCHANGED <<lsRecord, lsLock, lsKept, lsLeft>>

FillKey(p) ==
    /\ At(p, "fill_key")
    /\ LsBecomes(p, [lsProc[p] EXCEPT !.pc = "fresh_key"], Changed("key", lsDisk["key"].acl, lsTick, 0))
    /\ Ticks
    /\ UNCHANGED <<lsRecord, lsLock, lsKept, lsLeft>>

FreshKey(p) ==
    /\ At(p, "fresh_key")
    /\ Reconciles(p, "key", "write_session")
    /\ UNCHANGED <<lsRecord, lsLock, lsKept, lsLeft>>

\* #writeRestricted: a temporary file renamed over the ciphertext ...
WriteSession(p) ==
    /\ At(p, "write_session")
    /\ \/ /\ LsBecomes(p, [lsProc[p] EXCEPT !.pc = "fresh_session"],
                       Entered(Changed("session", "inherited", lsTick, lsDisk["key"].holds)))
          /\ lsKept' = lsTick
       \/ Answers(p, "failed") /\ UNCHANGED lsKept
    /\ Ticks
    /\ UNCHANGED <<lsRecord, lsLock, lsLeft>>

\* ... and then given its permissions.
FreshSession(p) ==
    /\ At(p, "fresh_session")
    /\ LET c == lsDisk["session"].holds
       IN LsBecomes(p, [lsProc[p] EXCEPT !.pc = "unlock", !.good = @ \ {"session"}, !.seen = c, !.code = c],
                    IF OwnerOnly("session") THEN lsDisk ELSE Changed("session", "own", c, lsDisk["session"].under))
    /\ Ticks
    /\ UNCHANGED <<lsRecord, lsLock, lsKept, lsLeft>>

\* Setting the permissions of a new object failed: the operation is reported
\* as failed, with the object in place.
ReconcileFails(p) ==
    /\ lsProc[p].pc \in {"fresh_key", "fresh_session"}
    /\ Answers(p, "failed")
    /\ Same

\* #deleteFiles: the ciphertext, then the key, then the record; each unlink may
\* fail, and the others still happen.
Gone(o) == Entered([lsDisk EXCEPT ![o] = Absent])
UnlinkSession(p) ==
    /\ At(p, "unlink_session")
    /\ \/ /\ LsBecomes(p, [lsProc[p] EXCEPT !.pc = "unlink_key"], IF Present("session") THEN Gone("session") ELSE lsDisk)
          /\ lsKept' = IF lsProc[p].op \in Removing THEN 0 ELSE lsKept
       \/ /\ LsBecomes(p, [lsProc[p] EXCEPT !.pc = "unlink_key", !.result = "failed"], lsDisk)
          /\ UNCHANGED lsKept
    /\ Ticks
    /\ UNCHANGED <<lsRecord, lsLock, lsLeft>>

UnlinkKey(p) ==
    /\ At(p, "unlink_key")
    /\ LET whole == lsProc[p].op \in Removing \/ lsProc[p].result = "corrupt"
       IN /\ \/ /\ LsBecomes(p, [lsProc[p] EXCEPT !.pc = IF lsProc[p].op = "swap" /\ lsProc[p].result = "absent" THEN "compare" ELSE "unlock",
                                                  !.seen = IF lsProc[p].op = "read" /\ lsProc[p].result = "absent" THEN 0 ELSE @],
                             IF Present("key") THEN Gone("key") ELSE lsDisk)
                /\ lsKept' = IF lsProc[p].op \in Removing THEN 0 ELSE lsKept
                /\ lsRecord' = IF whole /\ lsProc[p].result # "failed" THEN NoLsRecord ELSE lsRecord
             \/ /\ Present("key")
                /\ Answers(p, "failed")
                /\ UNCHANGED <<lsKept, lsRecord>>
    /\ Ticks
    /\ UNCHANGED <<lsLock, lsLeft>>

\* compareAndSwap found no value: a conflict unless none was expected.
CompareAbsent(p) ==
    /\ At(p, "compare")
    /\ IF lsProc[p].seen = 0 THEN Moves1(p, "make_key") ELSE Answers(p, "conflict")
    /\ Same

LsUnlock(p) ==
    /\ At(p, "unlock")
    /\ lsLock' = "free"
    /\ LsBecomes(p, [LsResting EXCEPT !.seen = lsProc[p].seen], lsDisk)
    /\ UNCHANGED <<lsRecord, lsTick, lsKept, lsLeft>>

\* The process ends; its lock goes with it.
ProcessEnds(p) ==
    /\ ~At(p, "idle")
    /\ lsLeft.ends > 0
    /\ lsLeft' = [lsLeft EXCEPT !.ends = @ - 1]
    /\ lsLock' = IF lsLock = p THEN "free" ELSE lsLock
    /\ LsBecomes(p, LsResting, lsDisk)
    /\ UNCHANGED <<lsRecord, lsTick, lsKept>>

\* Somebody who may widens an object's permissions: its change clock moves
\* (external, measured by the code's authors on NTFS).
Tamper(o) ==
    /\ lsLeft.tampers > 0
    /\ Present(o)
    /\ lsLeft' = [lsLeft EXCEPT !.tampers = @ - 1]
    /\ LsBecomes("nobody", LsResting, Changed(o, "open", lsDisk[o].holds, lsDisk[o].under))
    /\ Ticks
    /\ UNCHANGED <<lsRecord, lsLock, lsKept>>

LsNext ==
    \/ \E p \in LsProcs :
        \/ StartOp(p) \/ FreshDirectory(p) \/ TakeLock(p) \/ LockTimesOut(p)
        \/ TakeStats(p) \/ LsInspect(p) \/ InspectFails(p) \/ Restat(p) \/ Act(p)
        \/ ReadFiles(p) \/ LoadKey(p) \/ FillKey(p) \/ FreshKey(p)
        \/ WriteSession(p) \/ FreshSession(p) \/ ReconcileFails(p)
        \/ UnlinkSession(p) \/ UnlinkKey(p) \/ CompareAbsent(p)
        \/ LsUnlock(p) \/ ProcessEnds(p)
    \/ \E o \in Objects : Tamper(o)

LsSpec == LsInit /\ [][LsNext]_lsVars

\* "A permission change between two operations is always re-read": an
\* operation that hands out or stores a login code has, at some moment since
\* it began, had the directory, the key and the ciphertext all owner-only,
\* whatever an earlier operation recorded about them.
UsedWasOwnerOnly ==
    \A p \in LsProcs : lsProc[p].pc = "unlock" /\ lsProc[p].code # 0 => lsProc[p].was = Objects

\* A stored login code leaves the disk only through an operation that removes
\* or replaces it: no failed inspection, changed permission or process that
\* ended costs the person their session, and its key stays the one it was
\* encrypted under.
StoredIsKept ==
    lsKept # 0 => /\ lsDisk["session"].holds = lsKept
                  /\ lsDisk["key"].holds = lsDisk["session"].under
==============================================================================
