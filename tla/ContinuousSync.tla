-------------------------- MODULE ContinuousSync --------------------------
(***************************************************************************)
(* Continuous workspace synchronization: the loop of                       *)
(* src/sync/continuous-sync-supervisor.ts, its commit authority            *)
(* (src/sync/workspace-sync-product-service.ts) and the durable checkpoint *)
(* that makes a commit repeatable (src/sync/workspace-sync-coordinator.ts).*)
(*                                                                         *)
(* One folder is kept equal to the newest generation of a workspace.  A    *)
(* person edits the folder; the Machine publishes generations; the loop    *)
(* takes generations in and commits the folder on top of the newest one.   *)
(* Each step of the loop is an action that ends at an await, so edits,     *)
(* generations, lost answers, an expired journal lease and the end of the  *)
(* process fall between any two steps.                                     *)
(*                                                                         *)
(* A file is its bytes; a manifest root or a fingerprint is what it        *)
(* determines, the tree or the bytes.  Directories, links and modes are    *)
(* not told apart.                                                         *)
(***************************************************************************)
EXTENDS Integers, Sequences, FiniteSets

CONSTANTS
  Paths,        \* the paths people and the Machine write
  Excluded,     \* those of Paths the folder's policy excludes
  MaxGen,       \* bound: generations
  MaxEdits,     \* bound: the person's edits
  MaxMachine,   \* bound: generations the Machine publishes
  MaxEnds,      \* bound: times the process ends
  MaxFailures,  \* bound: requests or answers lost
  MaxSleeps,    \* bound: times the journal lease runs out
  MaxPending,   \* maximumPendingOperations
  StaleLimit,   \* STALE_BASE_REFUSAL_LIMIT
  RetakeLimit,  \* JOURNAL_RETAKE_LIMIT
  EditDuring    \* when, besides between passes, edits happen: "apply", "pass"

ASSUME SyncAssumption ==
  /\ Excluded \subseteq Paths
  /\ MaxGen \in Nat \ {0}
  /\ {MaxEdits, MaxMachine, MaxEnds, MaxFailures, MaxSleeps} \subseteq Nat
  /\ {MaxPending, StaleLimit, RetakeLimit} \subseteq Nat \ {0}
  /\ EditDuring \subseteq {"apply", "pass"}

Gens == 1..MaxGen

\* conflictSiblingPath: a sibling carries the generation whose bytes it holds
\* and who wrote it; the CLI and the guest never use the same name.
Names == {<<p, 0, "own">> : p \in Paths}
           \cup {<<p, g, who>> : p \in Paths, g \in Gens, who \in {"cli", "guest"}}
Own(p) == <<p, 0, "own">>
Sibling(p, g) == <<p, g, "cli">>
GuestSibling(p, g) == <<p, g, "guest">>
IsExcluded(n) == n[1] \in Excluded

Absent == <<"absent", 0>>
Keep == <<"keep", 0>>    \* no entry in a partial map of names to bytes
Bytes == {Absent, <<"base", 0>>}
           \cup {<<"user", k>> : k \in 1..MaxEdits}
           \cup {<<"machine", k>> : k \in 1..MaxMachine}
Trees == [Names -> Bytes]
Maps == [Names -> Bytes \cup {Keep}]
NoOps == [n \in Names |-> Keep]
EmptyTree == [n \in Names |-> Absent]

JournalStates == {"none", "queued", "sending", "uncertain", "acknowledged", "applied", "conflicted"}
Stopped == {"conflicted", "recovery_required"}
Statuses == Stopped \cup {"recovering", "reconciling", "catching_up", "live_unverified", "converged", "paused"}

VARIABLES
  folder,    \* the person's folder
  hist,      \* the server's generations: trees, and who published each
  ckpt,      \* the checkpoint of the commit on each base generation
  d,         \* continuous-sync.state.json
  jr,        \* the journal's latest state of each pending operation
  pc,        \* where the process is
  v,         \* the volatile state of the process
  mine,      \* history: the person's latest bytes of each path
  given,     \* history: the bytes the person saved over or removed
  replaced,  \* history: paths whose latest bytes the Machine edited, knowing them
  used       \* how much of each bound is used

vars == <<folder, hist, ckpt, d, jr, pc, v, mine, given, replaced, used>>
history == <<mine, given, replaced>>

NoRemote == [gen |-> 0, todo |-> {}]
NoVolatile == [phase |-> "off", scan |-> FALSE, rec |-> FALSE, man |-> EmptyTree, todo |-> {},
               ro |-> EmptyTree, copied |-> FALSE, stale |-> 0, refusals |-> 0, retakes |-> 0]
NoCheckpoint == [phase |-> "none", tree |-> EmptyTree]

Newest == Len(hist)
Tree(g) == hist[g].tree

\* #buildManifest: the folder as the policy shows it, with the entries of the
\* generation that the policy keeps out of the folder.
BuildManifest(f, ro) == [n \in Names |-> IF IsExcluded(n) THEN ro[n] ELSE f[n]]

\* diffManifest: the operations that lead from a baseline to a manifest.
DiffManifest(base, man) == [n \in Names |-> IF base[n] = man[n] THEN Keep ELSE man[n]]
OpsOf(map) == {n \in Names : map[n] # Keep}

\* What a Machine generation changed against the one before it.
ChangedIn(g) == {n \in Names : Tree(g)[n] # Tree(g - 1)[n]}

Init ==
  LET first == [n \in Names |-> IF n[3] = "own" /\ ~IsExcluded(n) THEN <<"base", 0>> ELSE Absent]
  IN /\ folder = first
     /\ hist = <<[tree |-> first, by |-> "cli"]>>
     /\ ckpt = [g \in Gens |-> NoCheckpoint]
     /\ d = [gen |-> 1, root |-> first, base |-> first, dirty |-> FALSE, status |-> "recovering",
             reason |-> "none", pl |-> NoOps, plBase |-> 0, pr |-> NoRemote,
             last |-> [gen |-> 0, entries |-> NoOps], ronly |-> EmptyTree]
     /\ jr = [n \in Names |-> "none"]
     /\ pc = "off"
     /\ v = NoVolatile
     /\ mine = [p \in Paths |-> Absent]
     /\ given = {}
     /\ replaced = {}
     /\ used = [edits |-> 0, machine |-> 0, ends |-> 0, failures |-> 0, sleeps |-> 0]

-----------------------------------------------------------------------------
(* The person and the Machine                                              *)

Applying == {"apply", "item", "record"}
Between == {"off", "wait", "dead"}

Use(field) == used' = [used EXCEPT ![field] = @ + 1]

\* The Machine edited the bytes b of p in a generation not taken in yet.
EditedAway(p, b) ==
  \E g \in (d.gen + 1)..Newest :
    hist[g].by = "machine" /\ Own(p) \in ChangedIn(g) /\ Tree(g - 1)[Own(p)] = b

\* A save, of new bytes or of earlier ones, or a removal.  The watcher asks for a
\* scan of a path the policy shows; before the watcher exists the start asks for
\* one anyway.
UserEdit(p) ==
  /\ used.edits < MaxEdits
  /\ \/ pc \in Between
     \/ pc \in Applying /\ "apply" \in EditDuring
     \/ pc \notin Between \cup Applying /\ "pass" \in EditDuring
  /\ \E b \in {<<"user", k>> : k \in 1..(used.edits + 1)} \cup {Absent} :
       /\ b # folder[Own(p)]
       /\ folder' = [folder EXCEPT ![Own(p)] = b]
       /\ mine' = [mine EXCEPT ![p] = b]
       /\ replaced' = IF EditedAway(p, b) THEN replaced \cup {p} ELSE replaced \ {p}
  /\ given' = given \cup {folder[Own(p)]}
  /\ v' = [v EXCEPT !.scan = v.scan \/ (v.phase = "loop" /\ p \notin Excluded)]
  /\ Use("edits")
  /\ UNCHANGED <<hist, ckpt, d, jr, pc>>

MayPublish == Newest < MaxGen /\ used.machine < MaxMachine

\* The Machine holds the newest generation and edits a path of it.
MachineEdits(p) ==
  /\ MayPublish
  /\ \E b \in {<<"machine", used.machine + 1>>, Absent} :
       /\ b # Tree(Newest)[Own(p)]
       /\ hist' = Append(hist, [tree |-> [Tree(Newest) EXCEPT ![Own(p)] = b], by |-> "machine"])
  /\ replaced' = IF Tree(Newest)[Own(p)] = mine[p] THEN replaced \cup {p} ELSE replaced
  /\ Use("machine")
  /\ UNCHANGED <<folder, ckpt, d, jr, pc, v, mine, given>>

\* The Machine edited a path before it took in the folder's newest commit of
\* it: it keeps its own bytes in place and the folder's beside them, and
\* publishes both.
MachineKeepsBoth(p) ==
  /\ MayPublish
  /\ Newest > 1 /\ hist[Newest].by = "cli"
  /\ Own(p) \in ChangedIn(Newest)
  /\ hist' = Append(hist,
       [tree |-> [Tree(Newest) EXCEPT ![Own(p)] = <<"machine", used.machine + 1>>,
                                      ![GuestSibling(p, Newest)] = Tree(Newest)[Own(p)]],
        by |-> "machine"])
  /\ Use("machine")
  /\ UNCHANGED <<folder, ckpt, d, jr, pc, v, history>>

-----------------------------------------------------------------------------
(* Failures of a pass                                                      *)

\* classifyFailure.  A pause goes on; the other stops end the loop and give the
\* writer authority back.  A failure while the supervisor is still opening is
\* thrown by start, which records nothing.
Fails(kind, reason, state) ==
  IF v.phase = "open"
  THEN /\ d' = state
       /\ pc' = "off"
       /\ v' = NoVolatile
  ELSE /\ d' = [state EXCEPT !.status = kind, !.dirty = TRUE, !.reason = reason]
       /\ pc' = IF kind = "paused" THEN "wait" ELSE "dead"
       /\ v' = [v EXCEPT !.man = EmptyTree, !.todo = {}, !.ro = EmptyTree, !.copied = FALSE, !.phase = "loop"]

\* A request or its answer is lost.
NetworkFails == used.failures < MaxFailures /\ Use("failures")

\* After the steps that only open or retake perform, the loop goes on.
AfterOpening == IF d.pr # NoRemote THEN "apply" ELSE "recover"

\* An operation the server's newest generation shows to have landed.
Landed == OpsOf(d.pl) # {} /\ Newest = d.gen + 1 /\ Tree(Newest) = v.man

\* The journal refused this process's expired lease.  #retakeJournal closes and
\* opens it again and recovers as a start does, a bounded number of times.
JournalLeaseExpires ==
  /\ pc \in {"queue", "mark", "receipt", "adopt", "renew"}
  /\ used.sleeps < MaxSleeps
  /\ Use("sleeps")
  /\ IF v.retakes >= RetakeLimit
     THEN Fails("conflicted", "stale_fence", d)
     ELSE /\ v' = [v EXCEPT !.phase = "retake", !.retakes = @ + 1, !.man = EmptyTree]
          /\ pc' = AfterOpening
          /\ UNCHANGED d
  /\ UNCHANGED <<folder, hist, ckpt, jr, history>>

\* The process is stopped, crashes or is killed.
ProcessEnds ==
  /\ pc # "off"
  /\ used.ends < MaxEnds
  /\ Use("ends")
  /\ pc' = "off"
  /\ v' = NoVolatile
  /\ UNCHANGED <<folder, hist, ckpt, d, jr, history>>

-----------------------------------------------------------------------------
(* start and #open                                                         *)

Unsent == {n \in OpsOf(d.pl) : jr[n] = "queued"}

\* A stop on an expired lease is taken up; `sync recover` takes up any stop
\* and asks for a reconciliation.
Start(recover) ==
  LET takeUp == \/ d.status \in Stopped /\ d.reason = "stale_fence"
                \/ recover /\ d.status \in Stopped \cup {"paused"}
  IN /\ pc = "off"
     /\ d' = IF takeUp THEN [d EXCEPT !.status = "recovering", !.dirty = TRUE, !.reason = "none"] ELSE d
     /\ v' = [NoVolatile EXCEPT !.phase = "open", !.rec = takeUp \/ recover, !.todo = IF recover THEN Unsent ELSE {}]
     /\ IF recover /\ Unsent # {}
        THEN pc' = "drop" /\ jr' = [n \in Names |-> IF n \in Unsent THEN "conflicted" ELSE jr[n]]
        ELSE pc' = AfterOpening /\ UNCHANGED jr
     /\ UNCHANGED <<folder, hist, ckpt, history, used>>

\* #dropUnsentLocal: the journal says conflicted, now the state lets go of them.
DropUnsent ==
  /\ pc = "drop"
  /\ d' = [d EXCEPT !.pl = [n \in Names |-> IF n \in v.todo THEN Keep ELSE d.pl[n]], !.dirty = TRUE]
  /\ jr' = [n \in Names |-> IF n \in v.todo THEN "none" ELSE jr[n]]
  /\ v' = [v EXCEPT !.todo = {}]
  /\ pc' = AfterOpening
  /\ UNCHANGED <<folder, hist, ckpt, history, used>>

\* #releaseRefusedLocal: the checkpoint proves the authority refused them.
Refused == OpsOf(d.pl) # {} /\ ckpt[d.plBase].phase = "conflicted"
ForgetOps(state) == [state EXCEPT !.pl = NoOps, !.plBase = 0]

\* A pending operation may have been sent.
MaybeSent == \E n \in OpsOf(d.pl) : jr[n] \in {"sending", "uncertain", "acknowledged"}

\* #recoverPendingLocal; a start and a retake then ask for a scan.
RecoverPendingLocal ==
  /\ pc = "recover"
  /\ LET uncertain == ~Refused /\ MaybeSent
     IN /\ d' = CASE Refused -> [ForgetOps(d) EXCEPT !.status = "catching_up", !.dirty = TRUE, !.reason = "none"]
                  [] uncertain -> [d EXCEPT !.status = "reconciling", !.dirty = TRUE, !.reason = "none"]
                  [] OTHER -> d
        /\ jr' = IF Refused THEN [n \in Names |-> "none"] ELSE jr
        /\ v' = [v EXCEPT !.scan = TRUE, !.phase = "loop",
                          !.rec = v.rec \/ uncertain \/ v.phase = "retake"]
  /\ pc' = "top"
  /\ UNCHANGED <<folder, hist, ckpt, history, used>>

-----------------------------------------------------------------------------
(* #reconcile                                                              *)

BeginReconcile ==
  /\ d' = [d EXCEPT !.status = "reconciling", !.dirty = TRUE, !.reason = "none"]
  /\ v' = [v EXCEPT !.rec = FALSE, !.man = BuildManifest(folder, d.ronly)]
  /\ pc' = "ask"
  /\ UNCHANGED <<folder, hist, ckpt, jr, history, used>>

RequestedReconcile == pc = "top" /\ v.rec /\ BeginReconcile
\* reconciliationIntervalMs has passed.
IntervalReconcile == pc = "top" /\ ~v.rec /\ BeginReconcile
NoReconcile ==
  /\ pc = "top"
  /\ ~v.rec
  /\ pc' = "pull"
  /\ UNCHANGED <<folder, hist, ckpt, d, jr, v, history, used>>

ReconcileAnswered ==
  /\ pc = "ask"
  /\ \/ /\ Newest = d.gen /\ Tree(Newest) = v.man
        /\ d' = [d EXCEPT !.root = v.man, !.base = v.man, !.dirty = FALSE, !.status = "converged", !.reason = "none"]
        /\ pc' = "pull" /\ v' = [v EXCEPT !.man = EmptyTree] /\ UNCHANGED jr
     \/ /\ Landed
        /\ pc' = "adopt" /\ UNCHANGED <<d, jr, v>>
     \/ /\ ~(Newest = d.gen /\ Tree(Newest) = v.man) /\ ~Landed
        /\ d' = [d EXCEPT !.status = "reconciling", !.dirty = TRUE, !.reason = "divergence"]
        /\ pc' = "pull" /\ v' = [v EXCEPT !.man = EmptyTree] /\ UNCHANGED jr
  /\ UNCHANGED <<folder, hist, ckpt, history, used>>

ReconcileLost ==
  /\ pc = "ask"
  /\ NetworkFails
  /\ Fails("paused", "network", d)
  /\ UNCHANGED <<folder, hist, ckpt, jr, history>>

\* localCommitRecord: the paths this folder's consecutive commits carried.
LocalCommitRecord(g) ==
  [gen |-> g,
   entries |-> [n \in Names |-> IF d.pl[n] # Keep THEN d.pl[n]
                                ELSE IF d.last.gen = g - 1 THEN d.last.entries[n] ELSE Keep]]

\* The state after a commit of v.man, from a receipt or from a reconciliation.
AdoptCommit(status) ==
  [ForgetOps(d) EXCEPT !.gen = d.gen + 1, !.root = v.man, !.base = v.man,
                       !.last = LocalCommitRecord(d.gen + 1),
                       !.dirty = FALSE, !.status = status, !.reason = "none"]

\* The journal records of a commit that landed are advanced one at a time, each
\* to the end before the next; a process that ends in between leaves the rest.
Unfinished == {n \in OpsOf(d.pl) : jr[n] \notin {"applied", "conflicted"}}
AdvanceJournal(label, after) ==
  /\ pc = label
  /\ \E n \in Unfinished :
       /\ \A m \in Unfinished \ {n} : jr[m] # "acknowledged"
       /\ jr' = [jr EXCEPT ![n] = after[jr[n]]]
  /\ UNCHANGED <<folder, hist, ckpt, d, pc, v, history, used>>

\* transitionToApplied passes through every state on the way.
TransitionToApplied ==
  AdvanceJournal("adopt", [queued |-> "sending", sending |-> "uncertain",
                           uncertain |-> "acknowledged", acknowledged |-> "applied"])

FinishAdopt(label, status, next) ==
  /\ pc = label
  /\ Unfinished = {}
  /\ d' = AdoptCommit(status)
  /\ jr' = [n \in Names |-> "none"]
  /\ v' = [v EXCEPT !.man = EmptyTree]
  /\ pc' = next
  /\ UNCHANGED <<folder, hist, ckpt, history, used>>

AdoptReconciled == FinishAdopt("adopt", "converged", "pull")
AdoptReceipt == FinishAdopt("receipt", "live_unverified", "renew")

-----------------------------------------------------------------------------
(* #consumeRemote                                                          *)

\* The next generation is recorded as pending before any of it is applied.
PullNext ==
  /\ pc = "pull"
  /\ d.status \notin Stopped \cup {"paused"}
  /\ Newest > d.gen
  /\ d' = [d EXCEPT !.status = "catching_up", !.reason = "none",
                    !.pr = [gen |-> d.gen + 1, todo |-> ChangedIn(d.gen + 1)]]
  /\ pc' = "apply"
  /\ UNCHANGED <<folder, hist, ckpt, jr, v, history, used>>

\* Nothing newer; or a stop or a pause, under which the feed is not read.
PullNothing ==
  /\ pc = "pull"
  /\ \/ d.status \in Stopped \cup {"paused"} /\ UNCHANGED d
     \/ /\ d.status \notin Stopped \cup {"paused"}
        /\ Newest = d.gen
        /\ d' = IF ~d.dirty /\ d.status # "converged"
                THEN [d EXCEPT !.status = "live_unverified", !.reason = "none"] ELSE d
  /\ pc' = "scan"
  /\ UNCHANGED <<folder, hist, ckpt, jr, v, history, used>>

PullLost ==
  /\ pc = "pull"
  /\ d.status \notin Stopped \cup {"paused"}
  /\ NetworkFails
  /\ Fails("paused", "network", d)
  /\ UNCHANGED <<folder, hist, ckpt, jr, history>>

-----------------------------------------------------------------------------
(* #resumeRemoteApply                                                      *)

\* Mutation of Rank: replacements come before new files.
RankReplacementsFirst(n) == IF Tree(d.pr.gen)[n] = Absent THEN 3 ELSE IF d.base[n] = Absent THEN 2 ELSE 1

\* orderRemoteItems: new files, then replacements, then removals.
Rank(n) == IF Tree(d.pr.gen)[n] = Absent THEN 3 ELSE IF d.base[n] = Absent THEN 1 ELSE 2

\* The manifest is read once, before the first item.
ReadFolder ==
  /\ pc = "apply"
  /\ v' = [v EXCEPT !.man = BuildManifest(folder, d.ronly), !.todo = d.pr.todo, !.ro = d.ronly]
  /\ pc' = "item"
  /\ UNCHANGED <<folder, hist, ckpt, d, jr, history, used>>

NextItem(n) ==
  /\ pc = "item"
  /\ n \in v.todo
  /\ \A m \in v.todo : Rank(n) <= Rank(m)

\* A path the policy keeps out of the folder is only recorded.
ExcludedItem(n) ==
  /\ NextItem(n)
  /\ IsExcluded(n)
  /\ v' = [v EXCEPT !.ro[n] = Tree(d.pr.gen)[n], !.todo = @ \ {n}]
  /\ UNCHANGED <<folder, hist, ckpt, d, jr, pc, history, used>>

\* Excluded items seen so far are recorded before another item is touched.
RecordExcluded(state) == [state EXCEPT !.ronly = v.ro, !.pr.todo = v.todo]

SameBytes(n) == v.man[n] = Tree(d.pr.gen)[n]
ChangedHere(n) == ~SameBytes(n) /\ d.base[n] # v.man[n]

\* The incoming generation directly follows this folder's own commits and
\* replaces bytes one of them carried.
ReplacesOwnCommit(n) ==
  /\ v.man[n] # Absent
  /\ d.last.gen = d.pr.gen - 1
  /\ d.last.entries[n] = v.man[n]

\* A write to the folder; the watcher, once there is one, asks for a scan.
Noticed == v.scan \/ v.phase = "loop"
Put(n, b) == folder' = [folder EXCEPT ![n] = b]

\* writeRetainedSibling never overwrites other bytes.
SiblingFree(name, b) == folder[name] \in {Absent, b}

\* Both sides hold the same bytes, or the incoming side removed what changed
\* here: there is nothing to write.
LeaveItem(n) ==
  /\ NextItem(n) /\ ~IsExcluded(n)
  /\ \/ SameBytes(n)
     \/ ChangedHere(n) /\ Tree(d.pr.gen)[n] = Absent
  /\ d' = RecordExcluded(d)
  /\ v' = [v EXCEPT !.todo = @ \ {n}]
  /\ pc' = "record"
  /\ UNCHANGED <<folder, hist, ckpt, jr, history, used>>

\* Mutation of RetainRemote: the local bytes stay and the incoming ones go.
DiscardRemote(n) ==
  /\ NextItem(n) /\ ~IsExcluded(n)
  /\ ChangedHere(n) /\ Tree(d.pr.gen)[n] # Absent
  /\ d' = RecordExcluded(d)
  /\ v' = [v EXCEPT !.todo = @ \ {n}]
  /\ pc' = "record"
  /\ UNCHANGED <<folder, hist, ckpt, jr, history, used>>

\* Changed on both sides: the local bytes stay, the incoming ones are kept
\* beside them.
RetainRemote(n) ==
  /\ NextItem(n) /\ ~IsExcluded(n)
  /\ ChangedHere(n) /\ Tree(d.pr.gen)[n] # Absent
  /\ LET kept == Sibling(n[1], d.pr.gen)
     IN IF SiblingFree(kept, Tree(d.pr.gen)[n])
        THEN /\ Put(kept, Tree(d.pr.gen)[n])
             /\ d' = RecordExcluded(d)
             /\ v' = [v EXCEPT !.todo = @ \ {n}, !.scan = Noticed]
             /\ pc' = "record"
        ELSE Fails("conflicted", "collision", RecordExcluded(d)) /\ UNCHANGED folder
  /\ UNCHANGED <<hist, ckpt, jr, history, used>>

\* Mutation of RetainLocal: the copy is named after the incoming generation.
RetainLocalMisnamed(n) ==
  /\ NextItem(n) /\ ~IsExcluded(n)
  /\ ~SameBytes(n) /\ ~ChangedHere(n) /\ ReplacesOwnCommit(n) /\ ~v.copied
  /\ folder[n] # Absent
  /\ Put(Sibling(n[1], d.pr.gen), folder[n])
  /\ d' = RecordExcluded(d)
  /\ v' = [v EXCEPT !.copied = TRUE, !.scan = Noticed]
  /\ UNCHANGED pc
  /\ UNCHANGED <<hist, ckpt, jr, history, used>>

\* The bytes an own commit carried are copied beside the file before the
\* incoming ones replace them.
RetainLocal(n) ==
  /\ NextItem(n) /\ ~IsExcluded(n)
  /\ ~SameBytes(n) /\ ~ChangedHere(n) /\ ReplacesOwnCommit(n) /\ ~v.copied
  /\ LET kept == Sibling(n[1], d.pr.gen - 1)
     IN IF folder[n] = Absent
        THEN Fails("paused", "dependency", RecordExcluded(d)) /\ UNCHANGED folder
        ELSE IF SiblingFree(kept, folder[n])
        THEN /\ Put(kept, folder[n])
             /\ d' = RecordExcluded(d)
             /\ v' = [v EXCEPT !.copied = TRUE, !.scan = Noticed]
             /\ UNCHANGED pc
        ELSE Fails("conflicted", "collision", RecordExcluded(d)) /\ UNCHANGED folder
  /\ UNCHANGED <<hist, ckpt, jr, history, used>>

\* #applyRemoteItem.  The file is not looked at again before it is replaced.
ApplyItem(n) ==
  /\ NextItem(n) /\ ~IsExcluded(n)
  /\ ~SameBytes(n) /\ ~ChangedHere(n) /\ (ReplacesOwnCommit(n) => v.copied)
  /\ Put(n, Tree(d.pr.gen)[n])
  /\ d' = RecordExcluded(d)
  /\ v' = [v EXCEPT !.todo = @ \ {n}, !.copied = FALSE, !.scan = Noticed]
  /\ pc' = "record"
  /\ UNCHANGED <<hist, ckpt, jr, history, used>>

\* The incoming bytes could not be read.
ChunkLost ==
  /\ pc = "item"
  /\ \E n \in v.todo : NextItem(n) /\ ~IsExcluded(n) /\ ~SameBytes(n) /\ Tree(d.pr.gen)[n] # Absent
  /\ NetworkFails
  /\ Fails("paused", "network", RecordExcluded(d))
  /\ UNCHANGED <<folder, hist, ckpt, jr, history>>

RecordItem ==
  /\ pc = "record"
  /\ d' = [d EXCEPT !.pr.todo = v.todo]
  /\ pc' = "item"
  /\ UNCHANGED <<folder, hist, ckpt, jr, v, history, used>>

\* remoteTargetProjection: the baseline with the generation's items applied.
Adopted == [n \in Names |-> IF n \in ChangedIn(d.pr.gen) THEN Tree(d.pr.gen)[n] ELSE d.base[n]]

\* A path the generation names still shows its old bytes.
NotApplied(man) ==
  \E n \in ChangedIn(d.pr.gen) : man[n] # Adopted[n] /\ man[n] = d.base[n]

\* Mutation of FinishApply: the folder, not the generation, becomes the baseline.
FinishOnFolder ==
  /\ pc = "item" /\ v.todo = {}
  /\ LET man == BuildManifest(folder, v.ro)
     IN /\ d' = [d EXCEPT !.ronly = v.ro, !.gen = d.pr.gen, !.root = man, !.base = man,
                          !.pr = NoRemote, !.dirty = FALSE, !.status = "live_unverified", !.reason = "none"]
        /\ v' = [v EXCEPT !.man = EmptyTree, !.ro = EmptyTree]
        /\ pc' = IF v.phase = "loop" THEN "pull" ELSE "recover"
        /\ UNCHANGED jr
  /\ UNCHANGED <<folder, hist, ckpt, history, used>>

\* The generation becomes the folder's base; what the folder holds beyond it is
\* a local change for the next scan.
FinishApply ==
  /\ pc = "item" /\ v.todo = {}
  /\ LET man == BuildManifest(folder, v.ro)
         ahead == man # Tree(d.pr.gen)
         kept == IF Refused THEN ForgetOps(d) ELSE d
     IN IF ahead /\ NotApplied(man)
        THEN Fails("conflicted", "mismatch", RecordExcluded(d)) /\ UNCHANGED jr
        ELSE /\ jr' = IF Refused THEN [n \in Names |-> "none"] ELSE jr
             /\ d' = [kept EXCEPT !.ronly = v.ro, !.gen = d.pr.gen, !.root = Tree(d.pr.gen),
                                  !.base = IF ahead THEN Adopted ELSE man,
                                  !.pr = NoRemote, !.dirty = ahead, !.status = "live_unverified", !.reason = "none"]
             /\ v' = [v EXCEPT !.man = EmptyTree, !.ro = EmptyTree, !.scan = v.scan \/ ahead]
             /\ pc' = IF v.phase = "loop" THEN "pull" ELSE "recover"
  /\ UNCHANGED <<folder, hist, ckpt, history, used>>

-----------------------------------------------------------------------------
(* #scanAndCommit                                                          *)

NoScan ==
  /\ pc = "scan"
  /\ ~v.scan \/ d.status \in Stopped
  /\ pc' = "renew"
  /\ UNCHANGED <<folder, hist, ckpt, d, jr, v, history, used>>

SamePendingIntent(ops) == d.pl = ops /\ d.plBase = d.gen

Scan ==
  /\ pc = "scan"
  /\ v.scan /\ d.status \notin Stopped
  /\ LET man == BuildManifest(folder, d.ronly)
         ops == DiffManifest(d.base, man)
         scanned == [d EXCEPT !.status = "catching_up", !.reason = "none"]
         quiet == [v EXCEPT !.scan = FALSE]
     IN CASE man = d.root ->
               /\ d' = IF d.dirty THEN scanned ELSE [scanned EXCEPT !.status = "live_unverified"]
               /\ v' = [quiet EXCEPT !.rec = v.rec \/ d.dirty]
               /\ pc' = "renew"
          [] man # d.root /\ OpsOf(d.pl) # {} /\ ~SamePendingIntent(ops) ->
               /\ d' = [d EXCEPT !.status = "conflicted", !.dirty = TRUE, !.reason = "intent_changed"]
               /\ v' = quiet
               /\ pc' = "dead"
          [] man # d.root /\ (OpsOf(d.pl) = {} \/ SamePendingIntent(ops)) /\ Cardinality(OpsOf(ops)) > MaxPending ->
               /\ d' = [d EXCEPT !.status = "paused", !.dirty = TRUE, !.reason = "limit"]
               /\ v' = quiet
               /\ pc' = "renew"
          [] OTHER ->
               /\ d' = scanned
               /\ v' = [quiet EXCEPT !.man = man]
               /\ pc' = IF OpsOf(d.pl) = {} THEN "queue" ELSE "mark"
  /\ UNCHANGED <<folder, hist, ckpt, jr, history, used>>

\* Each operation is in the journal before the state names it.
QueueOps ==
  /\ pc = "queue"
  /\ LET ops == DiffManifest(d.base, v.man)
     IN /\ d' = [d EXCEPT !.pl = ops, !.plBase = d.gen]
        /\ jr' = [n \in Names |-> IF n \in OpsOf(ops) THEN "queued" ELSE "none"]
  /\ pc' = "mark"
  /\ UNCHANGED <<folder, hist, ckpt, v, history, used>>

\* transitionIfQueued, one operation at a time.
MarkSending ==
  /\ pc = "mark"
  /\ \/ /\ \E n \in Unsent : jr' = [jr EXCEPT ![n] = "sending"]
        /\ UNCHANGED <<d, v, pc>>
     \/ /\ Unsent = {}
        /\ UNCHANGED jr
        /\ IF \A n \in OpsOf(d.pl) : jr[n] \in {"sending", "uncertain"}
           THEN pc' = "send" /\ UNCHANGED <<d, v>>
           ELSE Fails("conflicted", "journal_state", d)
  /\ UNCHANGED <<folder, hist, ckpt, history, used>>

\* A failed commit may or may not have landed.
MarkUncertain == jr' = [n \in Names |-> IF jr[n] = "sending" THEN "uncertain" ELSE jr[n]]

CommitLost ==
  /\ pc \in {"send", "commit"}
  /\ NetworkFails
  /\ MarkUncertain
  /\ Fails("paused", "network", d)
  /\ UNCHANGED <<folder, hist, ckpt, history>>

\* The checkpoint of this base: a recorded commit is answered from it, another
\* intent or a recorded refusal is refused, anything else is (re)sent.
OpenCheckpoint ==
  /\ pc = "send"
  /\ LET c == ckpt[d.gen]
     IN \/ /\ c.phase = "none" \/ (c.phase = "open" /\ c.tree = v.man)
           /\ ckpt' = [ckpt EXCEPT ![d.gen] = [phase |-> "open", tree |-> v.man]]
           /\ pc' = "commit"
           /\ UNCHANGED <<d, jr, v>>
        \/ /\ c.phase = "committed" /\ c.tree = v.man
           /\ pc' = "receipt"
           /\ UNCHANGED <<ckpt, d, jr, v>>
        \/ /\ c.phase # "none" /\ (c.tree # v.man \/ c.phase = "conflicted")
           /\ IF v.stale = d.gen
              THEN pc' = "refused" /\ UNCHANGED <<d, jr, v>>
              ELSE MarkUncertain /\ Fails("conflicted", "checkpoint", d)
           /\ UNCHANGED ckpt
  /\ UNCHANGED <<folder, hist, history, used>>

\* A file changed between the manifest and the upload of its chunks.
SourceChanged ==
  /\ pc = "commit"
  /\ \E n \in OpsOf(d.pl) : v.man[n] # Absent /\ folder[n] # v.man[n]
  /\ MarkUncertain
  /\ Fails("conflicted", "chunk_source_changed", d)
  /\ UNCHANGED <<folder, hist, ckpt, history, used>>

\* The server: a commit lands on the newest generation only; the same commit
\* sent again is answered as before.
Lands == Newest = d.gen /\ Newest < MaxGen
AlreadyLanded == Newest > d.gen /\ hist[d.gen + 1].by = "cli" /\ Tree(d.gen + 1) = v.man
Publish == hist' = IF Lands THEN Append(hist, [tree |-> v.man, by |-> "cli"]) ELSE hist

\* Mutation of CommitAnswered: the server's refusal of a stale base is not
\* there, and the newest generation is overwritten.
CommitAnyBase ==
  /\ pc = "commit"
  /\ Newest < MaxGen
  /\ hist' = Append(hist, [tree |-> v.man, by |-> "cli"])
  /\ ckpt' = [ckpt EXCEPT ![d.gen].phase = "committed"]
  /\ pc' = "receipt"
  /\ UNCHANGED <<folder, d, jr, v, history, used>>

CommitAnswered ==
  /\ pc = "commit"
  /\ \/ /\ Lands \/ AlreadyLanded
        /\ Publish
        /\ ckpt' = [ckpt EXCEPT ![d.gen].phase = "committed"]
        /\ pc' = "receipt"
     \/ /\ Newest > d.gen /\ ~AlreadyLanded
        /\ ckpt' = [ckpt EXCEPT ![d.gen].phase = "conflicted"]
        /\ pc' = "refused"
        /\ UNCHANGED hist
  /\ UNCHANGED <<folder, d, jr, v, history, used>>

\* The commit lands and its answer is lost; or the process ends before it.
AnswerLost ==
  /\ pc = "commit"
  /\ Lands
  /\ Publish
  /\ \/ NetworkFails /\ MarkUncertain /\ Fails("paused", "network", d)
     \/ /\ used.ends < MaxEnds /\ Use("ends")
        /\ pc' = "off" /\ v' = NoVolatile /\ UNCHANGED <<d, jr>>
  /\ UNCHANGED <<folder, ckpt, history>>

\* The receipt: acknowledged, then applied, in the journal; the state follows.
JournalReceipt ==
  AdvanceJournal("receipt", [sending |-> "acknowledged", uncertain |-> "acknowledged", acknowledged |-> "applied"])

\* Mutation of AcceptStaleRefusal: a refused commit stops synchronization.
RefusalStops ==
  /\ pc = "refused"
  /\ MarkUncertain
  /\ Fails("conflicted", "generation_conflict", d)
  /\ UNCHANGED <<folder, hist, ckpt, history, used>>

\* #acceptStaleRefusal.
AcceptStaleRefusal ==
  /\ pc = "refused"
  /\ LET refusals == IF v.stale = d.gen THEN v.refusals + 1 ELSE 1
         freed == [ForgetOps(d) EXCEPT !.status = "catching_up", !.dirty = TRUE, !.reason = "none"]
     IN IF refusals >= StaleLimit
        THEN Fails("conflicted", "remote_advanced_unobserved", freed)
        ELSE /\ d' = freed
             /\ v' = [v EXCEPT !.stale = d.gen, !.refusals = refusals, !.scan = TRUE, !.man = EmptyTree]
             /\ pc' = "renew"
  /\ jr' = [n \in Names |-> "none"]
  /\ UNCHANGED <<folder, hist, ckpt, history, used>>

\* The journal lease is renewed once per pass.
Renew ==
  /\ pc = "renew"
  /\ v' = [v EXCEPT !.retakes = 0, !.man = EmptyTree]
  /\ pc' = "wait"
  /\ UNCHANGED <<folder, hist, ckpt, d, jr, history, used>>

Wake ==
  /\ pc = "wait"
  /\ pc' = "top"
  /\ UNCHANGED <<folder, hist, ckpt, d, jr, v, history, used>>

-----------------------------------------------------------------------------
Apply ==
  \/ ReadFolder \/ RecordItem \/ FinishApply
  \/ \E n \in Names : ExcludedItem(n) \/ LeaveItem(n) \/ RetainRemote(n) \/ RetainLocal(n) \/ ApplyItem(n)

\* The steps the running process takes by itself, in order.
Pass ==
  \/ DropUnsent \/ RecoverPendingLocal
  \/ RequestedReconcile \/ ReconcileAnswered \/ TransitionToApplied \/ AdoptReconciled
  \/ PullNext \/ PullNothing \/ Apply
  \/ NoScan \/ Scan \/ QueueOps \/ MarkSending \/ OpenCheckpoint \/ CommitAnswered
  \/ JournalReceipt \/ AdoptReceipt \/ AcceptStaleRefusal \/ Renew \/ Wake

Faults ==
  \/ ReconcileLost \/ PullLost \/ ChunkLost \/ CommitLost \/ AnswerLost \/ SourceChanged
  \/ JournalLeaseExpires \/ ProcessEnds

Environment == \E p \in Paths : UserEdit(p) \/ MachineEdits(p) \/ MachineKeepsBoth(p)

Next ==
  \/ Environment
  \/ \E recover \in BOOLEAN : Start(recover)
  \/ NoReconcile \/ IntervalReconcile
  \/ Pass
  \/ Faults

Spec == Init /\ [][Next]_vars

\* The process runs on and is started again when it ends; a pass is never the
\* last one, and a reconciliation falls due again and again.
FairSpec ==
  /\ Spec
  /\ WF_vars(Pass \/ NoReconcile \/ IntervalReconcile)
  /\ SF_vars(IntervalReconcile)
  /\ WF_vars(Start(FALSE))

-----------------------------------------------------------------------------
(* Properties                                                              *)

\* Types: every durable record and every volatile one is of its admitted shape.
TypeOK ==
  /\ folder \in Trees
  /\ \A g \in 1..Newest : hist[g].tree \in Trees /\ hist[g].by \in {"cli", "machine"}
  /\ Newest \in Gens
  /\ \A g \in Gens : ckpt[g].phase \in {"none", "open", "committed", "conflicted"} /\ ckpt[g].tree \in Trees
  /\ d.gen \in Gens /\ d.root \in Trees /\ d.base \in Trees /\ d.ronly \in Trees
  /\ d.status \in Statuses /\ d.dirty \in BOOLEAN
  /\ d.pl \in Maps /\ d.plBase \in 0..MaxGen /\ d.last.entries \in Maps
  /\ d.pr.gen \in 0..MaxGen /\ d.pr.todo \subseteq Names
  /\ jr \in [Names -> JournalStates]
  /\ v.man \in Trees /\ v.ro \in Trees /\ v.todo \subseteq Names
  /\ v.phase \in {"off", "open", "retake", "loop"}

\* What the folder believes it last synchronized is what the server holds
\* under that generation, after any crash, lost answer or retake: the baseline
\* decides what counts as a local edit, so an error here overwrites bytes.
BaselineTruth == d.base = Tree(d.gen) /\ d.root = Tree(d.gen)

\* The person's latest bytes of a path are in the folder, in place or beside
\* it, unless the Machine edited those very bytes.  In particular the pull of a
\* conflict the Machine resolved is never caught between two files.
NoEditLost ==
  \A p \in Paths \ Excluded :
    mine[p] # Absent /\ p \notin replaced =>
      \E n \in Names : n[1] = p /\ folder[n] = mine[p]

\* A conflict sibling holds the bytes its name says, so no later conflict on
\* the same path finds its name taken.
SiblingTruth ==
  \A p \in Paths, g \in 1..Newest :
    folder[Sibling(p, g)] \in {Absent, Tree(g)[Own(p)]}

\* Both sides of a conflict are kept: the person's latest bytes, and the
\* sibling that holds the other side's.
BothSidesKept == NoEditLost /\ SiblingTruth

\* A generation the folder commits takes away only bytes the person saved over
\* or removed, or keeps them beside the path; and it changes no entry the
\* policy excludes.  A commit on a base older than it seems would break it.
CommitKeepsOthers ==
  \A g \in 2..Newest : hist[g].by = "cli" =>
    \A n \in ChangedIn(g) :
      /\ ~IsExcluded(n)
      /\ \/ Tree(g - 1)[n] \in {Absent} \cup given
         \/ \E m \in Names : m[1] = n[1] /\ Tree(g)[m] = Tree(g - 1)[n]

\* A path changed on both sides keeps both versions: when a generation has
\* been taken in, each file it brought is in place or beside the local one, or
\* the person has since saved over it.
TakenInWhole ==
  [][\A n \in Names :
       d'.gen = d.gen + 1 /\ d.pr.gen = d'.gen /\ n \in ChangedIn(d'.gen) /\ ~IsExcluded(n)
         => \/ Tree(d'.gen)[n] \in {Absent, folder[n]} \cup given
            \/ Tree(d'.gen)[n] = folder[Sibling(n[1], d'.gen)]]_vars

\* A file the policy excludes belongs to the side that wrote it: no step of the
\* loop writes or removes one in the folder, whatever the Machine published.
ExcludedUntouched ==
  [][\A n \in Names : IsExcluded(n) /\ folder'[n] # folder[n] => used'.edits # used.edits]_vars

\* A generation is applied in whole and to nothing else: what it changed is in
\* the folder, in place or beside, and what the policy excludes is untouched.
AppliesInWhole == TakenInWhole /\ ExcludedUntouched

\* When edits and generations have ended, the folder and the newest generation
\* come to agree and stay so, through every race of the two and every refusal.
Converges == <>[](d.gen = Newest /\ BuildManifest(folder, d.ronly) = Tree(Newest))
=============================================================================
