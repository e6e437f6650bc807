---------------------------- MODULE SyncCheckpoint ----------------------------
(***************************************************************************)
(* The durable checkpoint of an initial workspace synchronization          *)
(* (sync/workspace-sync-coordinator.ts) as several CLI processes share it. *)
(* Each base generation has a directory with one checkpoint file and one   *)
(* lease file.  A run takes the lease (hard link, then a fence one above   *)
(* the checkpoint's), loads the checkpoint once and saves each phase       *)
(* through a compare-and-swap that is several file operations long.        *)
(* Processes end at any step; a lease whose process is gone is renamed     *)
(* away by whoever finds it.  Cuna's server is external: it replays a      *)
(* request it has seen, and commits one manifest per generation.           *)
(***************************************************************************)
EXTENDS Naturals, FiniteSets

CONSTANTS SkRuns,         \* processes, each synchronizing once
          SkBases,        \* base generations, 0..n
          SkRoots,        \* manifest roots (what the folder holds)
          SkAttempts,     \* maximumAttempts
          SkDeaths,       \* bound: processes that end before their run does
          SkElsewhere     \* bound: generations committed by other installations

ASSUME CheckpointBounds == /\ 0 \in SkBases /\ SkBases \subseteq Nat
                           /\ SkAttempts \in Nat \ {0}
                           /\ SkDeaths \in Nat /\ SkElsewhere \in Nat

VARIABLES skRun,          \* what each process holds: step, intent, lease, ...
          skLease,        \* base -> the lease file
          skDisk,         \* base -> the checkpoint file
          skLanded,       \* [base, root] committed by this installation
          skWire,         \* commit requests that may still arrive
          skHead,         \* generation the server publishes
          skMoves,        \* generations committed elsewhere so far
          skOverrun       \* bases whose lease was taken from a run between
                          \* its last look at the files and its rename
skVars == <<skRun, skLease, skDisk, skLanded, skWire, skHead, skMoves, skOverrun>>

NoClaim == [by |-> "nobody", fence |-> 0]
NoCheckpointFile == [root |-> "none", phase |-> "absent", rev |-> 0, fence |-> 0]

SkIdle == [pc |-> "new", base |-> 0, root |-> "none", fence |-> 0,
           rev |-> 0, next |-> "absent", tries |-> 0, sure |-> FALSE, told |-> "nothing"]

SkInit ==
    /\ skRun = [p \in SkRuns |-> SkIdle]
    /\ skLease = [b \in SkBases |-> NoClaim]
    /\ skDisk = [b \in SkBases |-> NoCheckpointFile]
    /\ skLanded = {}
    /\ skWire = {}
    /\ skHead = 0
    /\ skMoves = 0
    /\ skOverrun = {}

SkStep(p, s) == /\ skRun[p].pc = s
              /\ s # "dead"
SkGoes(p, r) == skRun' = [skRun EXCEPT ![p] = r]
SkTo(p, s) == SkGoes(p, [skRun[p] EXCEPT !.pc = s])
FilesKept == UNCHANGED <<skLease, skDisk, skOverrun>>
ServerKept == UNCHANGED <<skLanded, skWire, skHead, skMoves>>

SkLease(p) == [by |-> p, fence |-> skRun[p].fence]
\* #assertLease: the lease file is this run's, at its fence.
Holds(p) == skLease[skRun[p].base] = SkLease(p)
File(p) == skDisk[skRun[p].base]
\* The run is over, and the person was told so.
IsOver(p, told) == SkGoes(p, [SkIdle EXCEPT !.pc = "over", !.base = skRun[p].base, !.root = skRun[p].root, !.told = told])
\* The rest of the run is the finally of withLease.
Fails(p) == SkTo(p, "release")

\* synchronizeLocalWorkspace: the base is the generation the server published
\* some time before, the root what the folder holds.
StartSyncRun(p) ==
    /\ skRun[p].pc = "new"
    /\ \E b \in {c \in SkBases : c <= skHead}, r \in SkRoots :
           SkGoes(p, [SkIdle EXCEPT !.pc = "claim", !.base = b, !.root = r])
    /\ FilesKept /\ ServerKept

\* #acquireLease: link() makes the claim, with fence 0, unless the file exists.
Claim(p) ==
    /\ SkStep(p, "claim")
    /\ skLease[skRun[p].base] = NoClaim
    /\ skLease' = [skLease EXCEPT ![skRun[p].base] = [by |-> p, fence |-> 0]]
    /\ SkTo(p, "fence")
    /\ UNCHANGED <<skDisk, skOverrun>> /\ ServerKept

\* EEXIST, and the incumbent's process is alive: checkpoint_busy.
Busy1(p) ==
    /\ SkStep(p, "claim")
    /\ skLease[skRun[p].base].by \in SkRuns
    /\ skRun[skLease[skRun[p].base].by].pc # "dead"
    /\ IsOver(p, "nothing")
    /\ FilesKept /\ ServerKept

\* EEXIST, and the incumbent's process is gone: the lease is stale.
FindStale(p) ==
    /\ SkStep(p, "claim")
    /\ skLease[skRun[p].base].by \in SkRuns
    /\ skRun[skLease[skRun[p].base].by].pc = "dead"
    /\ SkTo(p, "reclaim")
    /\ FilesKept /\ ServerKept

\* The rename takes away whatever lease file is there by now; ENOENT when
\* another process was first.  The run then claims again.
Reclaim(p) ==
    /\ SkStep(p, "reclaim")
    /\ skLease' = [skLease EXCEPT ![skRun[p].base] = NoClaim]
    /\ SkTo(p, "claim")
    /\ UNCHANGED <<skDisk, skOverrun>> /\ ServerKept

\* The prior record's fence is read ...
SkReadFence(p) ==
    /\ SkStep(p, "fence")
    /\ SkGoes(p, [skRun[p] EXCEPT !.pc = "replace", !.rev = File(p).fence + 1])
    /\ FilesKept /\ ServerKept

\* ... and #replaceLease asserts the claim and renames the fenced lease over
\* it.  A lost claim fails the acquisition, and is not this run's to remove.
ReplaceLease(p) ==
    /\ SkStep(p, "replace")
    /\ IF Holds(p)
       THEN /\ skLease' = [skLease EXCEPT ![skRun[p].base] = [by |-> p, fence |-> skRun[p].rev]]
            /\ SkGoes(p, [skRun[p] EXCEPT !.pc = "load", !.fence = skRun[p].rev])
       ELSE /\ IsOver(p, "nothing")
            /\ UNCHANGED skLease
    /\ UNCHANGED <<skDisk, skOverrun>> /\ ServerKept

\* transaction.save(phase): the compare-and-swap follows.
Saves(p, phase) == SkGoes(p, [skRun[p] EXCEPT !.pc = "save", !.next = phase, !.tries = 0, !.sure = FALSE])

\* transaction.load, and what #synchronizeWithLease does with what it found.
Load(p) ==
    LET here == [skRun[p] EXCEPT !.rev = File(p).rev]
    IN /\ SkStep(p, "load")
       /\ SkGoes(p,
            CASE ~Holds(p)                                             -> [here EXCEPT !.pc = "release"]
              [] Holds(p) /\ File(p) = NoCheckpointFile                -> [here EXCEPT !.pc = "save", !.next = "begin_pending"]
              [] Holds(p) /\ File(p) # NoCheckpointFile
                 /\ File(p).root # here.root                           -> [here EXCEPT !.pc = "release", !.told = "mismatch"]
              [] Holds(p) /\ File(p).root = here.root /\ File(p).phase = "committed"
                                                                       -> [here EXCEPT !.pc = "release", !.told = "committed"]
              [] Holds(p) /\ File(p).root = here.root /\ File(p).phase = "conflicted"
                                                                       -> [here EXCEPT !.pc = "release", !.told = "conflicted"]
              [] Holds(p) /\ File(p).root = here.root /\ File(p).phase = "begin_pending"
                                                                       -> [here EXCEPT !.pc = "begin"]
              [] OTHER                                                 -> [here EXCEPT !.pc = "stage"])
       /\ FilesKept /\ ServerKept

\* begin: its key is a digest of the intent, so every run of one intent gets
\* the same session.  It fails outside the try: the checkpoint stays.
Begin(p) ==
    /\ SkStep(p, "begin")
    /\ \/ Saves(p, "staging")
       \/ Fails(p)
    /\ FilesKept /\ ServerKept

Session(p) == [base |-> skRun[p].base, root |-> skRun[p].root]
\* The server refuses a session whose base is no longer the head, unless that
\* session is the one it committed.
RefusedByServer(p) == skHead # skRun[p].base /\ Session(p) \notin skLanded

\* Manifest pages and missing chunks: all accepted, or refused, or failed (a
\* file that changed under the upload, an exhausted retry).
Stage(p) ==
    /\ SkStep(p, "stage")
    /\ \/ Saves(p, "commit_pending")
       \/ RefusedByServer(p) /\ Saves(p, "conflicted")
       \/ Fails(p)
    /\ FilesKept /\ ServerKept

\* commit is sent ...
SendCommit(p) ==
    /\ SkStep(p, "commit")
    /\ skRun[p].tries < SkAttempts
    /\ skWire' = skWire \cup {Session(p)}
    /\ SkGoes(p, [skRun[p] EXCEPT !.pc = "sent", !.tries = @ + 1])
    /\ FilesKept /\ UNCHANGED <<skLanded, skHead, skMoves>>

\* ... and arrives, once or again, soon or late (external).
CommitArrives(s) ==
    /\ s \in skWire
    /\ IF skHead = s.base
       THEN /\ skLanded' = skLanded \cup {s}
            /\ skHead' = skHead + 1
       ELSE UNCHANGED <<skLanded, skHead>>
    /\ skWire' = skWire \ {s}
    /\ UNCHANGED <<skRun, skMoves>> /\ FilesKept

ConflictsWhenLost(p, answer) == answer \in {"conflict", "lost"}
\* isAuthoritativeConflict: only an answer of the server is.
Conflicts(p, answer) == answer = "conflict"

\* The answer to commit: its receipt (again, when the session is committed
\* already), a conflict, or none that can be read.  A lost answer is retried
\* under the same key until #idempotent gives up; an abort or an answer for
\* another scope ends the run.
CommitAnswer(p) ==
    /\ SkStep(p, "sent")
    /\ \E answer \in {"receipt", "conflict", "lost"} :
        /\ answer = "receipt" => Session(p) \in skLanded
        /\ answer = "conflict" => RefusedByServer(p)
        /\ CASE answer = "receipt" -> Saves(p, "committed")
             [] answer # "receipt" /\ Conflicts(p, answer) -> Saves(p, "conflicted")
             [] OTHER -> \/ skRun[p].tries < SkAttempts /\ SkTo(p, "commit")
                         \/ Fails(p)
    /\ FilesKept /\ ServerKept

\* #compareAndSwap, first part: lease, revision, fence, and a committed
\* checkpoint takes no other phase.  Then the temporary file is written.
MaySwap(p) ==
    /\ Holds(p)
    /\ File(p).rev = skRun[p].rev
    /\ File(p).fence <= skRun[p].fence

SwapCheck(p) ==
    /\ SkStep(p, "save")
    /\ IF MaySwap(p) /\ (File(p).phase = "committed" => skRun[p].next = "committed")
       THEN SkTo(p, "again")
       ELSE Fails(p)
    /\ FilesKept /\ ServerKept

SwapBlind(p) == SkStep(p, "again") /\ SkTo(p, "rename") /\ FilesKept /\ ServerKept

\* The second look, after the temporary file is on disk.
SwapAgain(p) ==
    /\ SkStep(p, "again")
    /\ IF MaySwap(p)
       THEN SkGoes(p, [skRun[p] EXCEPT !.pc = "rename", !.sure = TRUE])
       ELSE Fails(p)
    /\ FilesKept /\ ServerKept

\* What follows a saved phase.
Onward(p) ==
    CASE skRun[p].next = "begin_pending"  -> "begin"
      [] skRun[p].next = "staging"        -> "stage"
      [] skRun[p].next = "commit_pending" -> "commit"
      [] OTHER                            -> "release"

\* The rename that makes the phase durable.
SwapRename(p) ==
    /\ SkStep(p, "rename")
    /\ skDisk' = [skDisk EXCEPT ![skRun[p].base] =
                    [root |-> skRun[p].root, phase |-> skRun[p].next,
                     rev |-> skRun[p].rev + 1, fence |-> skRun[p].fence]]
    /\ SkGoes(p, [skRun[p] EXCEPT !.pc = Onward(p), !.rev = @ + 1,
                                  !.told = IF skRun[p].next \in {"committed", "conflicted"}
                                           THEN skRun[p].next ELSE @])
    /\ skOverrun' = IF skRun[p].sure /\ ~Holds(p) THEN skOverrun \cup {skRun[p].base} ELSE skOverrun
    /\ UNCHANGED skLease /\ ServerKept

\* #releaseLease: assert, then unlink; a lost lease makes the run fail, what
\* it was told included.
ReleaseCheck(p) ==
    /\ SkStep(p, "release")
    /\ IF Holds(p) THEN SkTo(p, "unlink")
                   ELSE IsOver(p, "nothing")
    /\ FilesKept /\ ServerKept

Unlink1(p) ==
    /\ SkStep(p, "unlink")
    /\ skLease' = [skLease EXCEPT ![skRun[p].base] = NoClaim]
    /\ IsOver(p, skRun[p].told)
    /\ UNCHANGED <<skDisk, skOverrun>> /\ ServerKept

\* The process ends (a crash, a kill, Ctrl+C) wherever it is.
Dies(p) ==
    /\ skRun[p].pc \notin {"new", "over", "dead"}
    /\ Cardinality({q \in SkRuns : skRun[q].pc = "dead"}) < SkDeaths
    /\ SkGoes(p, [SkIdle EXCEPT !.pc = "dead"])
    /\ FilesKept /\ ServerKept

\* Another installation commits on the head (external).
CommittedElsewhere ==
    /\ skMoves < SkElsewhere
    /\ skMoves' = skMoves + 1
    /\ skHead' = skHead + 1
    /\ UNCHANGED <<skRun, skLanded, skWire>> /\ FilesKept

SkNext ==
    \/ \E p \in SkRuns :
        \/ StartSyncRun(p) \/ Claim(p) \/ Busy1(p) \/ FindStale(p) \/ Reclaim(p)
        \/ SkReadFence(p) \/ ReplaceLease(p) \/ Load(p) \/ Begin(p) \/ Stage(p)
        \/ SendCommit(p) \/ CommitAnswer(p)
        \/ SwapCheck(p) \/ SwapAgain(p) \/ SwapRename(p)
        \/ ReleaseCheck(p) \/ Unlink1(p) \/ Dies(p)
    \/ \E s \in skWire : CommitArrives(s)
    \/ CommittedElsewhere

SkSpec == SkInit /\ [][SkNext]_skVars

\* commitRefused (workspace-sync-product-service.ts): "this phase proves no
\* commit on this base from this installation landed" - a conflicted
\* checkpoint, whatever processes came and went, and whatever request is still
\* on its way.
ConflictMeansNothingLanded ==
    \A b \in SkBases \ skOverrun :
        skDisk[b].phase = "conflicted" => ~ \E s \in skLanded \cup skWire :
            s.base = b /\ (s \in skLanded \/ skHead = b)

\* A run that ended by saying its synchronization committed: its manifest is
\* the one the server committed on that base, and the checkpoint that later
\* runs and the continuous sync start from says so.
CommittedIsDurable ==
    \A p \in SkRuns : skRun[p].pc = "over" /\ skRun[p].told = "committed" =>
        /\ Session(p) \in skLanded
        /\ skRun[p].base \notin skOverrun =>
               skDisk[skRun[p].base].phase = "committed" /\ File(p).root = skRun[p].root
==============================================================================
