-------------------------- MODULE WorkspaceBinding --------------------------
(***************************************************************************)
(* A folder's binding record and the runs that read and move it.           *)
(*                                                                         *)
(* The record (.cuna/workspace.json, src/workspace/binding-store.ts) names *)
(* the Machine the folder's project is on and the workspace generation the *)
(* folder last published or took in.  Runs of the CLI in that folder       *)
(* (synchronizeWorkspace of src/journey/workspace-effects.ts) load it,     *)
(* reconcile it with the binding authority on the server, commit the       *)
(* folder when it changed, and replace the record by a compare-and-swap    *)
(* under the binding writer lock, which is the algorithm of ProcessLock.   *)
(*                                                                         *)
(* Several runs may be open in one folder, the agent on the Machine may    *)
(* publish generations at any time, the Machine may disappear, the person  *)
(* may edit the folder or delete the record, and a run may end at any step.*)
(***************************************************************************)
EXTENDS ProcessLock, TLC

CONSTANTS
    Machines,   \* the Machines a run can select
    Faults,     \* which of these happen: a run ends unexpectedly ("crash"), or
                \* does so between the server's commit and the checkpoint that
                \* records it ("lost"), a Machine disappears ("gone"), the
                \* person deletes the record between runs ("delete")
    MaxGen,     \* bound: the generations published on a Machine, with any other's
    MaxRev,     \* bound: the last revision of the record
    MaxRuns     \* bound: the number of runs started; 0 is no bound

ASSUME FolderAssumption == \E k \in Keys : Keys = {k}
ASSUME BindingBounds == MaxGen \in Nat \ {0} /\ MaxRev \in Nat \ {0} /\ MaxRuns \in Nat
ASSUME MachinesAssumption == NoOne \notin Machines
ASSUME FaultsAssumption == Faults \subseteq {"crash", "lost", "gone", "delete"}

Folder == CHOOSE k \in Keys : TRUE
NoRecord == [rev |-> 0, machine |-> NoOne, gen |-> 0]
Unknown == MaxGen + 1       \* a generation no local state names

VARIABLES
    record,     \* the binding record on disk
    temps,      \* the processes whose temporary image of the record exists
    run,        \* run[p]: the run of process p
    head,       \* head[m]: the active generation of the folder's binding on m
    gone,       \* Machines that no longer exist
    committed,  \* committed[m]: the newest committed sync session this
                \* installation has for m, or Unknown
    durable,    \* durable[m]: the supervisor's durable base for m, or Unknown
    syncer,     \* the process that has the folder's sync lease
    folder,     \* what the folder holds: a generation of a Machine, edited or not
    held,       \* held[m]: the last generation of m the folder has held
    runs        \* how many runs were started, where that is bounded

vars == <<name, lock, record, temps, run, head, gone, committed, durable,
          syncer, folder, held, runs>>

localState == <<committed, durable, syncer>>
content == <<folder, held>>
remote == <<head, gone>>

Gens == 0..MaxGen
RecordSet == [rev : 0..MaxRev, machine : Machines \cup {NoOne}, gen : Gens]

Ended == [at |-> "ended", machine |-> NoOne, seen |-> NoRecord, active |-> 0,
          draft |-> 0, rebind |-> FALSE, after |-> "ended"]

RunPlaces == {"ended", "inspect", "observe", "create", "authority", "compare",
              "pull", "commit", "checkpoint", "confirm", "start", "resume", "live",
              "persist", "swap", "image", "verify", "rename", "readback", "unlock"}

\* Type invariant.
TypeOK ==
    /\ LockTypeOK
    /\ record \in RecordSet
    /\ temps \in SUBSET Procs
    /\ run \in [Procs -> [at : RunPlaces, machine : Machines \cup {NoOne}, seen : RecordSet,
                          active : Gens, draft : Gens, rebind : BOOLEAN, after : RunPlaces]]
    /\ head \in [Machines -> Gens]
    /\ gone \in SUBSET Machines
    /\ committed \in [Machines -> Gens \cup {Unknown}]
    /\ durable \in [Machines -> Gens \cup {Unknown}]
    /\ syncer \in Procs \cup {NoOne}
    /\ folder \in [machine : Machines \cup {NoOne}, gen : Gens, edited : BOOLEAN]
    /\ held \in [Machines -> Gens]
    /\ runs \in 0..MaxRuns

Init ==
    /\ LockInit
    /\ record = NoRecord
    /\ temps = {}
    /\ run = [p \in Procs |-> Ended]
    /\ head = [m \in Machines |-> 0]
    /\ gone = {}
    /\ committed = [m \in Machines |-> Unknown]
    /\ durable = [m \in Machines |-> Unknown]
    /\ syncer = NoOne
    /\ folder = [machine |-> NoOne, gen |-> 0, edited |-> TRUE]
    /\ held = [m \in Machines |-> 0]
    /\ runs = 0

-----------------------------------------------------------------------------
(* Going on and ending.                                                    *)

\* Of what a run has read, an open one uses only its Machine again.
Goto(p, at) ==
    run' = [run EXCEPT ![p] =
        IF at = "live" THEN [Ended EXCEPT !.at = at, !.machine = run[p].machine]
        ELSE [@ EXCEPT !.at = at]]

\* A refusal or an error ends the run, and with it its lease.
Fail(p) ==
    /\ run' = [run EXCEPT ![p] = Ended]
    /\ syncer' = IF syncer = p THEN NoOne ELSE syncer

\* A refused persist is an error, which ends the run unless it was recording what
\* a pull brought in: that error is caught and the run goes on.
OnRefusal(p) == IF run[p].after = "live" THEN "live" ELSE "ended"

\* Call persistWorkspaceBinding with generation gen, then go on at after.
Persist(p, gen, rebind, after) ==
    run' = [run EXCEPT ![p].at = "persist", ![p].draft = gen,
                       ![p].rebind = rebind, ![p].after = after]

-----------------------------------------------------------------------------
(* synchronizeWorkspace.                                                   *)

Start(p, m) ==
    /\ run[p].at = "ended"
    /\ At(p, Folder) = "idle"
    /\ m \notin gone
    /\ MaxRuns = 0 \/ runs < MaxRuns
    /\ runs' = IF MaxRuns = 0 THEN 0 ELSE runs + 1
    /\ run' = [run EXCEPT ![p] = [Ended EXCEPT !.at = "inspect", !.machine = m]]
    /\ UNCHANGED <<lockVars, record, temps, remote, localState, content>>

\* loadWorkspaceBindingIntent: a temporary image stops every reader.
Inspect(p) ==
    /\ run[p].at = "inspect"
    /\ \/ /\ temps # {}
          /\ Fail(p)
       \/ /\ temps = {}
          /\ run' = [run EXCEPT ![p].seen = record,
                ![p].at = CASE record = NoRecord -> "create"
                            [] record.machine = run[p].machine -> "authority"
                            [] OTHER -> "observe"]
          /\ UNCHANGED syncer
    /\ UNCHANGED <<lockVars, record, temps, remote, committed, durable, content, runs>>

\* Mutant: the Machine the record names is left without looking whether it is gone.
LeaveBoundMachine(p) ==
    /\ run[p].at = "observe"
    /\ Goto(p, "create")
    /\ UNCHANGED <<lockVars, record, temps, remote, localState, content, runs>>

\* The record names another Machine: only one that is gone may be left.
ObserveBoundMachine(p) ==
    /\ run[p].at = "observe"
    /\ \/ run[p].seen.machine \in gone /\ Goto(p, "create") /\ UNCHANGED syncer
       \/ run[p].seen.machine \notin gone /\ Fail(p)
    /\ UNCHANGED <<lockVars, record, temps, remote, committed, durable, content, runs>>

\* createWorkspaceBinding, under an idempotency key made of the same tuple, so a
\* binding that exists is found again.  A rebind is recorded before any sync.
CreateBinding(p) ==
    LET m == run[p].machine
        taken == [run[p] EXCEPT !.active = head[m]]
    IN
    /\ run[p].at = "create"
    /\ \/ /\ m \in gone \/ run[p].seen = NoRecord      \* the latter with --no-sync
          /\ Fail(p)
       \/ /\ m \notin gone
          /\ run' = [run EXCEPT ![p] =
                IF run[p].seen = NoRecord THEN [taken EXCEPT !.at = "compare"]
                ELSE [taken EXCEPT !.at = "persist", !.draft = head[m],
                                   !.rebind = TRUE, !.after = "compare"]]
          /\ UNCHANGED syncer
    /\ UNCHANGED <<lockVars, record, temps, remote, committed, durable, content, runs>>

GetAuthority(p) ==
    /\ run[p].at = "authority"
    /\ \/ run[p].machine \in gone /\ Fail(p)
       \/ /\ run[p].machine \notin gone
          /\ run' = [run EXCEPT ![p].at = "compare", ![p].active = head[run[p].machine]]
          /\ UNCHANGED syncer
    /\ UNCHANGED <<lockVars, record, temps, remote, committed, durable, content, runs>>

\* Does the folder's manifest root equal the one the authority published?
Reproduces(m, g) == g >= 1 /\ folder = [machine |-> m, gen |-> g, edited |-> FALSE]

\* readLocalWorkspaceBase: the supervisor's state if it is as new as the last
\* committed session, else that session's generation, which proves no files.
Resumable(m) == durable[m] # Unknown /\ (committed[m] = Unknown \/ durable[m] >= committed[m])
LocalBase(m) == IF Resumable(m) THEN durable[m] ELSE committed[m]

\* Mutant: a bound folder whose sync state was not found claims the head.
ClaimHead(p) ==
    LET m == run[p].machine IN
    IF Resumable(m) THEN durable[m] ELSE run[p].active

\* The generation the commit will claim as its base.
BaseGeneration(p) ==
    LET m == run[p].machine IN
    IF LocalBase(m) # Unknown THEN LocalBase(m)
    ELSE IF run[p].seen # NoRecord THEN run[p].seen.gen
    ELSE run[p].active

\* recordPublishedGeneration, unless the record names that generation already.
RecordPublished(p, after) ==
    IF run[p].seen # NoRecord /\ run[p].seen.gen = run[p].active
    THEN Goto(p, after)
    ELSE Persist(p, run[p].active, FALSE, after)

Compare(p) ==
    LET m == run[p].machine
        base == BaseGeneration(p)
    IN
    /\ run[p].at = "compare"
    /\ \/ /\ Reproduces(m, run[p].active)
          /\ RecordPublished(p, "resume")
          /\ UNCHANGED syncer
       \/ /\ ~Reproduces(m, run[p].active)
          /\ \/ base > run[p].active /\ Fail(p)
             \/ base < run[p].active /\ ~Resumable(m) /\ Fail(p)
             \/ base < run[p].active /\ Resumable(m) /\ Goto(p, "pull") /\ UNCHANGED syncer
             \/ /\ base = run[p].active
                /\ run' = [run EXCEPT ![p].at = "commit", ![p].draft = base]
                /\ UNCHANGED syncer
    /\ UNCHANGED <<lockVars, record, temps, remote, committed, durable, content, runs>>

\* --no-sync: the run attaches to a published generation, or is refused.
AttachUnsynced(p) ==
    /\ run[p].at = "compare"
    /\ run[p].seen # NoRecord
    /\ IF run[p].active >= 1 THEN Goto(p, "live") /\ UNCHANGED syncer ELSE Fail(p)
    /\ UNCHANGED <<lockVars, record, temps, remote, committed, durable, content, runs>>

\* Every start of a supervisor has its own state; the newest is the one found.
Newest(known, g) == IF known # Unknown /\ known > g THEN known ELSE g

\* The supervisor brings the head into the folder, keeping what was edited.
TakeIn(m) ==
    /\ folder' = [machine |-> m, gen |-> head[m], edited |-> folder.edited \/ folder.machine # m]
    /\ held' = [held EXCEPT ![m] = head[m]]
    /\ durable' = [durable EXCEPT ![m] = Newest(@, head[m])]

\* Mutant: the published generation is recorded although the wait for it ended
\* without it.
PullRecordedEarly(p) ==
    /\ run[p].at = "pull"
    /\ syncer' = IF syncer = NoOne THEN p ELSE syncer
    /\ RecordPublished(p, "live")
    /\ UNCHANGED <<lockVars, record, temps, remote, committed, durable, content, runs>>

\* resumeContinuousWorkspaceSyncFromLocalBase, waiting for the published
\* generation; the wait can end without it, and the lease can be another run's.
Pull(p) ==
    LET m == run[p].machine IN
    /\ run[p].at = "pull"
    /\ \/ /\ syncer = NoOne
          /\ m \notin gone
          /\ TakeIn(m)
          /\ syncer' = p
          /\ RecordPublished(p, "live")
       \/ /\ syncer' = IF syncer = NoOne THEN p ELSE syncer
          /\ Goto(p, "live")
          /\ UNCHANGED <<durable, content>>
    /\ UNCHANGED <<lockVars, record, temps, remote, committed, runs>>

\* Bound: one more generation on m.
RoomOn(m) == \A n \in Machines : (IF n = m THEN 0 ELSE head[n]) + head[m] < MaxGen

\* synchronizeLocalWorkspace: the server compares the claimed base to its head.
Publish(m, base) ==
    /\ m \notin gone
    /\ head[m] = base
    /\ RoomOn(m)
    /\ head' = [head EXCEPT ![m] = base + 1]
    /\ folder' = [machine |-> m, gen |-> base + 1, edited |-> FALSE]
    /\ held' = [held EXCEPT ![m] = base + 1]

Commit(p) ==
    LET m == run[p].machine
        base == run[p].draft
    IN
    /\ run[p].at = "commit"
    /\ \/ /\ Publish(m, base)
          /\ run' = [run EXCEPT ![p].at = "checkpoint", ![p].draft = base + 1]
          /\ UNCHANGED <<syncer, gone>>
       \/ /\ m \in gone \/ head[m] # base
          /\ Fail(p)
          /\ UNCHANGED <<remote, content>>
    /\ UNCHANGED <<lockVars, record, temps, committed, durable, runs>>

\* The receipt is saved in the session's checkpoint.
SaveCheckpoint(p) ==
    /\ run[p].at = "checkpoint"
    /\ committed' = [committed EXCEPT ![run[p].machine] = run[p].draft]
    /\ Goto(p, "confirm")
    /\ UNCHANGED <<lockVars, record, temps, remote, durable, syncer, content, runs>>

\* The authority must confirm the receipt; only then is the record replaced.
Confirm(p) ==
    LET m == run[p].machine IN
    /\ run[p].at = "confirm"
    /\ \/ m \notin gone /\ head[m] = run[p].draft
          /\ Persist(p, run[p].draft, FALSE, "start") /\ UNCHANGED syncer
       \/ (m \in gone \/ head[m] # run[p].draft) /\ Fail(p)
    /\ UNCHANGED <<lockVars, record, temps, remote, committed, durable, content, runs>>

\* startContinuousWorkspaceSync: the folder must still be what was committed, and
\* the lease free; otherwise the run fails.
StartSync(p) ==
    LET m == run[p].machine
        proven == syncer = NoOne /\ Reproduces(m, run[p].draft)
    IN
    /\ run[p].at = "start"
    /\ \/ /\ proven
          /\ syncer' = p
          /\ durable' = [durable EXCEPT ![m] = Newest(@, run[p].draft)]
          /\ Goto(p, "live")
       \/ ~proven /\ Fail(p) /\ UNCHANGED durable
    /\ UNCHANGED <<lockVars, record, temps, remote, committed, content, runs>>

\* resumeContinuousWorkspaceSync: admitted by the published generation and a
\* committed session of this installation; without them the run goes on unsynced.
ResumeSync(p) ==
    LET m == run[p].machine
        proven == /\ syncer = NoOne
                  /\ Reproduces(m, run[p].active)
                  /\ committed[m] # Unknown /\ committed[m] <= run[p].active
    IN
    /\ run[p].at = "resume"
    /\ \/ /\ proven
          /\ syncer' = p
          /\ durable' = [durable EXCEPT ![m] = Newest(@, run[p].active)]
       \/ ~proven /\ UNCHANGED <<syncer, durable>>
    /\ Goto(p, "live")
    /\ UNCHANGED <<lockVars, record, temps, remote, committed, content, runs>>

\* While the run is open its supervisor takes in what the Machine publishes and
\* publishes what is edited here (ContinuousSync models it).
LivePull(p) ==
    LET m == run[p].machine IN
    /\ run[p].at = "live" /\ syncer = p
    /\ durable[m] # Unknown /\ m \notin gone
    /\ durable[m] < head[m]
    /\ TakeIn(m)
    /\ UNCHANGED <<lockVars, record, temps, run, remote, committed, syncer, runs>>

LiveCommit(p) ==
    LET m == run[p].machine IN
    /\ run[p].at = "live" /\ syncer = p
    /\ folder.edited /\ folder.machine = m
    /\ durable[m] # Unknown
    /\ Publish(m, durable[m])
    /\ durable' = [durable EXCEPT ![m] = head'[m]]
    /\ committed' = [committed EXCEPT ![m] = head'[m]]
    /\ UNCHANGED <<lockVars, record, temps, run, gone, syncer, runs>>

End(p) ==
    /\ run[p].at = "live"
    /\ Fail(p)
    /\ UNCHANGED <<lockVars, record, temps, remote, committed, durable, content, runs>>

-----------------------------------------------------------------------------
(* persistWorkspaceBinding.                                                *)

\* The writer is done, or gives up: the lock is released, then p goes on at after.
Unlock(p, after) == run' = [run EXCEPT ![p].at = "unlock", ![p].after = after]

AcquireWriterLock(p) ==
    /\ run[p].at = "persist"
    /\ TryAcquire(p, Folder)
    /\ Goto(p, "swap")
    /\ UNCHANGED <<record, temps, remote, localState, content, runs>>

WriterBusy(p) ==
    /\ run[p].at = "swap"
    /\ Refused(p, Folder)
    /\ IF OnRefusal(p) = "live" THEN Goto(p, "live") /\ UNCHANGED syncer ELSE Fail(p)
    /\ UNCHANGED <<record, temps, remote, committed, durable, content, runs>>

\* Mutant: the last revision is not guarded.
SwapUnbounded(p) ==
    /\ record = run[p].seen
    /\ IF run[p].rebind THEN record # NoRecord /\ record.machine # run[p].machine
       ELSE record # NoRecord =>
                record.machine = run[p].machine /\ run[p].draft >= record.gen

\* assertCompareAndSwap against the record this run loaded, then the rules on
\* who the record may be about, which a rebind turns round.
SwapAllowed(p) ==
    /\ record = run[p].seen
    /\ record.rev < MaxRev
    /\ IF run[p].rebind THEN record # NoRecord /\ record.machine # run[p].machine
       ELSE record # NoRecord =>
                record.machine = run[p].machine /\ run[p].draft >= record.gen

\* Mutant: the compare-and-swap is made before the lock is there.
SwapUnlocked(p) ==
    /\ run[p].at = "swap"
    /\ \/ SwapAllowed(p) /\ temps' = {} /\ Goto(p, "image")
       \/ ~SwapAllowed(p) /\ Unlock(p, OnRefusal(p)) /\ UNCHANGED temps
    /\ UNCHANGED <<lockVars, record, remote, localState, content, runs>>

\* The compare-and-swap is proved, and temporary images of writers that ended
\* are removed; or it is refused.
ProveSwap(p) ==
    /\ run[p].at = "swap"
    /\ Holds(p, Folder)
    /\ \/ SwapAllowed(p) /\ temps' = {} /\ Goto(p, "image")
       \/ ~SwapAllowed(p) /\ Unlock(p, OnRefusal(p)) /\ UNCHANGED temps
    /\ UNCHANGED <<lockVars, record, remote, localState, content, runs>>

\* The new record is written to a temporary image of its own.
WriteImage(p) ==
    /\ run[p].at = "image"
    /\ temps' = temps \cup {p}
    /\ Goto(p, "verify")
    /\ UNCHANGED <<lockVars, record, remote, localState, content, runs>>

\* The record is read again just before the commit.
VerifyUnchanged(p) ==
    /\ run[p].at = "verify"
    /\ \/ record = run[p].seen /\ Goto(p, "rename") /\ UNCHANGED temps
       \/ record # run[p].seen /\ temps' = temps \ {p} /\ Unlock(p, OnRefusal(p))
    /\ UNCHANGED <<lockVars, record, remote, localState, content, runs>>

Image(p) == [rev |-> run[p].seen.rev + 1, machine |-> run[p].machine, gen |-> run[p].draft]

\* The rename commits, if the image is still there.
RenameImage(p) ==
    /\ run[p].at = "rename"
    /\ \/ /\ p \in temps
          /\ record' = Image(p)
          /\ temps' = temps \ {p}
          /\ Goto(p, "readback")
       \/ p \notin temps /\ Unlock(p, OnRefusal(p)) /\ UNCHANGED <<record, temps>>
    /\ UNCHANGED <<lockVars, remote, localState, content, runs>>

\* The record read back must be the one written; it is then the one that a later
\* swap of this run is compared with.
ReadBack(p) ==
    /\ run[p].at = "readback"
    /\ \/ record = Image(p) /\ run' = [run EXCEPT ![p].at = "unlock", ![p].seen = Image(p)]
       \/ record # Image(p) /\ Unlock(p, OnRefusal(p))
    /\ UNCHANGED <<lockVars, record, temps, remote, localState, content, runs>>

ReleaseWriterLock(p) ==
    /\ run[p].at = "unlock"
    /\ Release(p, Folder)
    /\ IF run[p].after = "ended" THEN Fail(p) ELSE Goto(p, run[p].after) /\ UNCHANGED syncer
    /\ UNCHANGED <<record, temps, remote, committed, durable, content, runs>>

LockGoesOn(p) ==
    /\ LockStep(p, Folder)
    /\ UNCHANGED <<record, temps, run, remote, localState, content, runs>>

-----------------------------------------------------------------------------
(* The rest of the world.                                                  *)

\* The agent on the Machine publishes a generation.
MachinePublishes(m) ==
    /\ m \notin gone
    /\ head[m] >= 1
    /\ RoomOn(m)
    /\ head' = [head EXCEPT ![m] = @ + 1]
    /\ UNCHANGED <<lockVars, record, temps, run, gone, localState, content, runs>>

MachineGone(m) ==
    /\ "gone" \in Faults
    /\ m \notin gone
    /\ gone' = gone \cup {m}
    /\ UNCHANGED <<lockVars, record, temps, run, head, localState, content, runs>>

\* The person edits the folder.
Edit ==
    /\ ~folder.edited
    /\ folder' = [folder EXCEPT !.edited = TRUE]
    /\ UNCHANGED <<lockVars, record, temps, run, remote, localState, held, runs>>

\* The person deletes .cuna/workspace.json, as the conflict's hint says.
DeleteRecord ==
    /\ "delete" \in Faults
    /\ \A p \in Procs : run[p].at \in {"ended", "live"}
    /\ record # NoRecord
    /\ record' = NoRecord
    /\ UNCHANGED <<lockVars, temps, run, remote, localState, content, runs>>

\* The process of a run ends: its locks and lease go, its temporary image stays.
Crash(p) ==
    /\ run[p].at # "ended"
    /\ (IF run[p].at = "checkpoint" THEN "lost" ELSE "crash") \in Faults
    /\ IF \E k \in Keys : At(p, k) # "idle" THEN LockCrash(p) ELSE UNCHANGED lockVars
    /\ Fail(p)
    /\ UNCHANGED <<record, temps, remote, committed, durable, content, runs>>

RunStep(p) ==
    \/ Inspect(p) \/ ObserveBoundMachine(p) \/ CreateBinding(p) \/ GetAuthority(p)
    \/ Compare(p) \/ AttachUnsynced(p) \/ Pull(p) \/ Commit(p) \/ SaveCheckpoint(p) \/ Confirm(p)
    \/ StartSync(p) \/ ResumeSync(p) \/ End(p)
    \/ AcquireWriterLock(p) \/ WriterBusy(p) \/ ProveSwap(p) \/ WriteImage(p)
    \/ VerifyUnchanged(p) \/ RenameImage(p) \/ ReadBack(p) \/ ReleaseWriterLock(p)
    \/ LockGoesOn(p)

Next ==
    \/ \E p \in Procs :
        \/ \E m \in Machines : Start(p, m)
        \/ RunStep(p) \/ LivePull(p) \/ LiveCommit(p) \/ Crash(p)
    \/ \E m \in Machines : MachinePublishes(m) \/ MachineGone(m)
    \/ Edit \/ DeleteRecord

Spec == Init /\ [][Next]_vars

-----------------------------------------------------------------------------
\* p's run publishes a generation in this step.
Publishes(p) == run[p].at = "commit" /\ run'[p].at = "checkpoint"

\* A generation published from this folder is based on a head the folder has
\* held: the claim comes from the folder's own sync record, never from the head,
\* so the Machine's newer bytes are not overwritten.  The first upload onto a
\* binding has nothing to overwrite.
NoBlindOverwrite ==
    [][\A p \in Procs :
        Publishes(p) => head[run[p].machine] \in {0, held[run[p].machine]}]_vars

\* A run that found the folder bound to its Machine, by a record that is true of
\* the folder, overwrites nothing that the folder never held, whatever other runs,
\* the Machine and crashes do between the reading of the record and the commit.
\* (The record that a rebind of the same run wrote need not be true of the folder: see
\* RecordTruthful.)
BoundRunsClaimHeld ==
    [][\A p \in Procs :
        Publishes(p) /\ run[p].seen # NoRecord /\ run[p].seen.gen <= held[run[p].machine]
            => head[run[p].machine] = held[run[p].machine]]_vars

\* Whoever replaces the record, a first or a later synchronization, records a
\* generation that the folder has held.  Only a rebind names the new binding's head
\* unseen.
RecordTruthful ==
    [][record' \notin {record, NoRecord} /\ record.machine \in {NoOne, record'.machine}
        => record'.gen <= held[record'.machine]]_vars

\* No lost update: a record replaces exactly the record its writer had read, so
\* revisions grow by one; only the person's deletion starts again.
NoLostUpdate ==
    [][record' \notin {record, NoRecord} =>
        /\ record'.rev = record.rev + 1
        /\ \E p \in Procs : run[p].at = "rename" /\ run[p].seen = record]_vars

\* A folder leaves the Machine its record names only when that Machine is gone.
RebindOnlyWhenGone ==
    [][record # NoRecord /\ record' # NoRecord /\ record'.machine # record.machine
        => record.machine \in gone]_vars

\* What the record says is so: the generation it names was taken into the folder, and
\* a bound run holds the claim it goes on with.
RecordsTrue == []TypeOK /\ RecordTruthful /\ BoundRunsClaimHeld

\* Processes and Machines are interchangeable (safety runs only).
Symmetry == Permutations(Procs) \cup Permutations(Machines)
=============================================================================
