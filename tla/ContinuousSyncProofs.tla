------------------------ MODULE ContinuousSyncProofs ------------------------
(***************************************************************************)
(* The baseline of continuous synchronization, for any paths, exclusions   *)
(* and bounds.  The baseline is true for as long as a pending generation   *)
(* is the next one; and a pending generation is the next one for as long   *)
(* as no download of its bytes fails and nobody saves while it is applied. *)
(* Without the second proviso it is not so: a generation half taken in     *)
(* stays pending while a later one is adopted.                             *)
(***************************************************************************)
EXTENDS ContinuousSync, SequenceTheorems, TLAPS

-----------------------------------------------------------------------------
(* Types                                                                   *)

Phases == {"off", "open", "retake", "loop"}
Reasons == {"none", "stale_fence", "dependency", "collision", "mismatch", "intent_changed", "limit", "journal_state",
            "checkpoint", "chunk_source_changed", "network", "remote_advanced_unobserved", "divergence"}
Generations == [tree : Trees, by : {"cli", "machine"}]
Checkpoints == [phase : {"none", "open", "committed", "conflicted"}, tree : Trees]
Remotes == [gen : 0..MaxGen, todo : SUBSET Names]
Lasts == [gen : 0..MaxGen, entries : Maps]
States == [gen : Gens, root : Trees, base : Trees, dirty : BOOLEAN, status : Statuses,
           reason : Reasons, pl : Maps, plBase : 0..MaxGen, pr : Remotes, last : Lasts, ronly : Trees]
Volatiles == [phase : Phases, scan : BOOLEAN, rec : BOOLEAN, man : Trees, todo : SUBSET Names, ro : Trees,
              copied : BOOLEAN, stale : 0..MaxGen, refusals : Nat, retakes : Nat]
Budgets == [edits : Nat, machine : Nat, ends : Nat, failures : Nat, sleeps : Nat]

\* The records the process reads are of the shape it writes.
SyncTypes ==
  /\ folder \in Trees
  /\ hist \in Seq(Generations) /\ Newest \in Gens
  /\ ckpt \in [Gens -> Checkpoints]
  /\ d \in States
  /\ v \in Volatiles
  /\ used \in Budgets

LEMMA TreesExist ==
  /\ EmptyTree \in Trees
  /\ NoOps \in Maps
  /\ Absent \in Bytes
  /\ Trees \subseteq Maps
BY DEF EmptyTree, Trees, NoOps, Maps, Bytes

LEMMA NoVolatileTyped == NoVolatile \in Volatiles
<1>1. 0 \in 0..MaxGen /\ 0 \in Nat
  BY SyncAssumption
<1>2. EmptyTree \in Trees /\ {} \in SUBSET Names
  BY TreesExist
<1> QED
  BY <1>1, <1>2 DEF NoVolatile, Volatiles, Phases

LEMMA ManifestTyped ==
  ASSUME NEW f \in Trees, NEW ro \in Trees
  PROVE  BuildManifest(f, ro) \in Trees
BY DEF BuildManifest, Trees

LEMMA DiffTyped ==
  ASSUME NEW base \in Trees, NEW man \in Trees
  PROVE  DiffManifest(base, man) \in Maps
BY DEF DiffManifest, Trees, Maps

\* A bound is used only below its limit and only grows.
LEMMA UseTyped ==
  ASSUME used \in Budgets,
         \E field \in {"edits", "machine", "ends", "failures", "sleeps"} : Use(field)
  PROVE  used' \in Budgets
BY DEF Use, Budgets

\* Every generation the history names is a tree.
LEMMA TreeTyped ==
  ASSUME SyncTypes, NEW g \in 1..Newest
  PROVE  Tree(g) \in Trees /\ hist[g].by \in {"cli", "machine"}
<1>1. hist[g] \in Generations
  BY ElementOfSeq DEF SyncTypes, Newest
<1> QED
  BY <1>1 DEF Generations, Tree

\* A generation more leaves those before it as they were.
LEMMA HistoryGrows ==
  ASSUME SyncTypes, NEW t \in Trees, NEW by \in {"cli", "machine"},
         hist' = Append(hist, [tree |-> t, by |-> by]), Newest < MaxGen
  PROVE  /\ hist' \in Seq(Generations)
         /\ Newest' = Newest + 1 /\ Newest' \in Gens
         /\ \A g \in 1..Newest : hist'[g] = hist[g]
         /\ hist'[Newest + 1] = [tree |-> t, by |-> by]
<1> DEFINE e == [tree |-> t, by |-> by]
<1>1. e \in Generations
  BY DEF Generations
<1>2. /\ Append(hist, e) \in Seq(Generations)
      /\ Len(Append(hist, e)) = Len(hist) + 1
      /\ \A i \in 1..Len(hist) : Append(hist, e)[i] = hist[i]
      /\ Append(hist, e)[Len(hist) + 1] = e
  BY <1>1, AppendProperties DEF SyncTypes
<1>3. Newest \in 1..MaxGen /\ MaxGen \in Nat
  BY SyncAssumption DEF SyncTypes, Gens
<1>4. hist' = Append(hist, e)
  OBVIOUS
<1>5. Newest' = Newest + 1 /\ Newest' \in Gens
  BY <1>2, <1>3, <1>4 DEF Newest, Gens
<1>6. \A g \in 1..Newest : hist'[g] = hist[g]
  BY <1>2, <1>4 DEF Newest
<1>7. hist'[Newest + 1] = e
  BY <1>2, <1>4 DEF Newest
<1> QED
  BY <1>2, <1>4, <1>5, <1>6, <1>7

\* A failure moves the loop and the record of the stop, and nothing else.
LEMMA FailsEffect ==
  ASSUME v \in Volatiles, NEW state \in States, NEW kind \in {"paused", "conflicted"}, NEW reason \in Reasons,
         Fails(kind, reason, state)
  PROVE  /\ d' \in States /\ v' \in Volatiles
         /\ d'.gen = state.gen /\ d'.base = state.base /\ d'.root = state.root /\ d'.pr = state.pr
         /\ pc' \in {"off", "wait", "dead"}
         /\ pc' = "wait" => kind = "paused"
         /\ v'.man = EmptyTree
<1>1. EmptyTree \in Trees /\ {} \in SUBSET Names
  BY TreesExist
<1>2. CASE v.phase = "open"
  <2>1. d' = state /\ pc' = "off" /\ v' = NoVolatile
    BY <1>2 DEF Fails
  <2>2. NoVolatile.man = EmptyTree
    BY DEF NoVolatile
  <2> QED
    BY <2>1, <2>2, NoVolatileTyped
<1>3. CASE v.phase # "open"
  <2>1. d' = [state EXCEPT !.status = kind, !.dirty = TRUE, !.reason = reason]
    BY <1>3 DEF Fails
  <2>2. kind \in Statuses
    BY DEF Statuses, Stopped
  <2>3. /\ d' \in States
        /\ d'.gen = state.gen /\ d'.base = state.base /\ d'.root = state.root /\ d'.pr = state.pr
    BY <2>1, <2>2 DEF States
  <2>4. v' = [v EXCEPT !.man = EmptyTree, !.todo = {}, !.ro = EmptyTree, !.copied = FALSE, !.phase = "loop"]
    BY <1>3 DEF Fails
  <2>5. v' \in Volatiles /\ v'.man = EmptyTree
    BY <1>1, <2>4 DEF Volatiles, Phases
  <2>6. pc' = IF kind = "paused" THEN "wait" ELSE "dead"
    BY <1>3 DEF Fails
  <2> QED
    BY <2>3, <2>5, <2>6
<1> QED
  BY <1>2, <1>3

\* Forgetting the pending operations keeps the baseline and the pending generation.
LEMMA ForgetEffect ==
  ASSUME NEW state \in States
  PROVE  /\ ForgetOps(state) \in States
         /\ ForgetOps(state).gen = state.gen /\ ForgetOps(state).base = state.base
         /\ ForgetOps(state).root = state.root /\ ForgetOps(state).pr = state.pr
<1>1. NoOps \in Maps /\ 0 \in 0..MaxGen
  BY TreesExist, SyncAssumption
<1>2. ForgetOps(state) = [state EXCEPT !.pl = NoOps, !.plBase = 0]
  BY DEF ForgetOps
<1> QED
  BY <1>1, <1>2 DEF States

\* Recording the items done so far keeps the baseline and the generation they
\* belong to.
LEMMA RecordEffect ==
  ASSUME d \in States, v \in Volatiles
  PROVE  LET state == RecordExcluded(d)
         IN /\ state \in States
            /\ state.gen = d.gen /\ state.base = d.base /\ state.root = d.root
            /\ state.pr.gen = d.pr.gen
<1>1. v.ro \in Trees /\ v.todo \in SUBSET Names
  BY DEF Volatiles
<1>2. d.pr \in Remotes
  BY DEF States
<1>3. [d.pr EXCEPT !.todo = v.todo] \in Remotes /\ [d.pr EXCEPT !.todo = v.todo].gen = d.pr.gen
  BY <1>1, <1>2 DEF Remotes
<1> QED
  BY <1>1, <1>3 DEF RecordExcluded, States

-----------------------------------------------------------------------------
(* The invariant                                                           *)

\* The baseline is a generation the server holds, and holds as it is here.
Truth == BaselineTruth /\ d.gen <= Newest

\* A pending generation is one the server has published.
PendingKnown == d.pr.gen <= Newest /\ (d.pr.gen = 0 => d.pr = NoRemote)
ApplyPending == pc \in Applying => d.pr.gen # 0

\* What is being adopted is the generation after the baseline's.
Landing == {"adopt", "receipt"}
AdoptsNext == pc \in Landing => d.gen < Newest /\ Tree(d.gen + 1) = v.man

\* A commit in flight is the one its checkpoint records, and a checkpoint that
\* says committed tells the truth whatever happened since.
CommitRecorded == pc = "commit" => ckpt[d.gen].tree = v.man
CheckpointTruth ==
  \A g \in Gens : ckpt[g].phase = "committed" => g < Newest /\ Tree(g + 1) = ckpt[g].tree

SyncInv ==
  /\ SyncTypes
  /\ Truth /\ PendingKnown /\ ApplyPending
  /\ AdoptsNext /\ CommitRecorded /\ CheckpointTruth

LEMMA InitSync == Init => SyncInv
<1> SUFFICES ASSUME Init PROVE SyncInv
  OBVIOUS
<1> DEFINE first == [n \in Names |-> IF n[3] = "own" /\ ~IsExcluded(n) THEN <<"base", 0>> ELSE Absent]
<1> DEFINE one == [tree |-> first, by |-> "cli"]
<1>1. first \in Trees
  BY DEF Trees, Bytes, Absent
<1>2. 1 \in Gens /\ 0 \in 0..MaxGen /\ EmptyTree \in Trees /\ NoOps \in Maps
  BY TreesExist, SyncAssumption DEF Gens
<1>3. hist = <<one>> /\ folder = first
  BY DEF Init
<1>4. one \in Generations
  BY <1>1 DEF Generations
<1>5. hist \in Seq(Generations) /\ Newest = 1 /\ Tree(1) = first
  BY <1>3, <1>4 DEF Newest, Tree
<1>6. /\ d.gen = 1 /\ d.root = first /\ d.base = first /\ d.pr = NoRemote
      /\ pc = "off" /\ v = NoVolatile
      /\ ckpt = [g \in Gens |-> NoCheckpoint]
  BY DEF Init
<1>7. NoRemote \in Remotes /\ NoRemote.gen = 0
  BY <1>2 DEF NoRemote, Remotes
<1>8. d \in States
  <2> DEFINE last == [gen |-> 0, entries |-> NoOps]
  <2>1. last \in Lasts
    BY <1>2 DEF Lasts
  <2>2. "recovering" \in Statuses /\ "none" \in Reasons
    BY DEF Statuses, Reasons
  <2>3. d = [gen |-> 1, root |-> first, base |-> first, dirty |-> FALSE, status |-> "recovering",
             reason |-> "none", pl |-> NoOps, plBase |-> 0, pr |-> NoRemote,
             last |-> last, ronly |-> EmptyTree]
    BY DEF Init
  <2> HIDE DEF first, last
  <2> QED
    BY <1>1, <1>2, <1>7, <2>1, <2>2, <2>3 DEF States
<1>9. ckpt \in [Gens -> Checkpoints] /\ \A g \in Gens : ckpt[g].phase = "none"
  BY <1>2, <1>6 DEF NoCheckpoint, Checkpoints
<1>10. used \in Budgets
  BY DEF Init, Budgets
<1>11. SyncTypes
  BY <1>1, <1>2, <1>3, <1>5, <1>6, <1>8, <1>9, <1>10, NoVolatileTyped DEF SyncTypes
<1> QED
  BY <1>5, <1>6, <1>7, <1>9, <1>11
  DEF SyncInv, Truth, BaselineTruth, PendingKnown, ApplyPending, Applying, AdoptsNext, Landing, CommitRecorded, CheckpointTruth

\* A step that leaves alone the server, the checkpoint and the baseline.
QuietStep ==
  /\ hist' = hist /\ ckpt' = ckpt
  /\ folder' \in Trees /\ d' \in States /\ v' \in Volatiles /\ used' \in Budgets
  /\ d'.gen = d.gen /\ d'.base = d.base /\ d'.root = d.root
  /\ d'.pr = d.pr \/ (d.pr.gen # 0 /\ d'.pr.gen = d.pr.gen)
  /\ pc' \in Applying => d.pr.gen # 0
  /\ pc' \in Landing \cup {"commit"} => pc' = pc /\ v'.man = v.man

LEMMA QuietKeeps ==
  ASSUME SyncInv, QuietStep
  PROVE  SyncInv'
<1>1. Newest' = Newest /\ \A g : Tree(g)' = Tree(g)
  BY DEF QuietStep, Newest, Tree
<1>2. SyncTypes'
  BY <1>1 DEF QuietStep, SyncInv, SyncTypes
<1>3. Truth' /\ PendingKnown' /\ ApplyPending'
  BY <1>1 DEF QuietStep, SyncInv, Truth, BaselineTruth, PendingKnown, ApplyPending, NoRemote, Tree
<1>4. AdoptsNext' /\ CommitRecorded'
  BY <1>1 DEF QuietStep, SyncInv, AdoptsNext, CommitRecorded, Landing, Tree
<1>5. CheckpointTruth'
  BY <1>1 DEF QuietStep, SyncInv, CheckpointTruth, Tree
<1> QED
  BY <1>2, <1>3, <1>4, <1>5 DEF SyncInv

\* A failure is quiet, whatever it records of the items done.
LEMMA FailsQuiet ==
  ASSUME SyncInv, hist' = hist, ckpt' = ckpt, folder' = folder, used' \in Budgets,
         NEW state \in States, NEW kind \in {"paused", "conflicted"}, NEW reason \in Reasons,
         Fails(kind, reason, state),
         state.gen = d.gen, state.base = d.base, state.root = d.root,
         state.pr = d.pr \/ (d.pr.gen # 0 /\ state.pr.gen = d.pr.gen)
  PROVE  QuietStep
<1>1. v \in Volatiles /\ folder \in Trees
  BY DEF SyncInv, SyncTypes
<1> QED
  BY <1>1, FailsEffect DEF QuietStep, Applying, Landing

\* What the invariant says of the types of single fields.
LEMMA FieldTypes ==
  ASSUME SyncInv
  PROVE  /\ folder \in Trees /\ d \in States /\ v \in Volatiles /\ used \in Budgets
         /\ d.gen \in 1..Newest /\ Newest \in 1..MaxGen /\ MaxGen \in Nat
         /\ d.ronly \in Trees /\ d.pl \in Maps /\ d.pr \in Remotes /\ d.base \in Trees
         /\ v.man \in Trees /\ v.ro \in Trees /\ v.todo \in SUBSET Names
BY SyncAssumption, SMTT(30) DEF SyncInv, SyncTypes, Truth, States, Volatiles, Gens

-----------------------------------------------------------------------------
(* The quiet steps                                                         *)

LEMMA EditIsQuiet ==
  ASSUME SyncInv, NEW p \in Paths, UserEdit(p)
  PROVE  QuietStep
<1>1. PICK b \in {<<"user", k>> : k \in 1..(used.edits + 1)} \cup {Absent} : folder' = [folder EXCEPT ![Own(p)] = b]
  BY DEF UserEdit
<1>2. b \in Bytes
  <2>1. used.edits \in Nat /\ used.edits < MaxEdits /\ MaxEdits \in Nat
    BY FieldTypes, SyncAssumption DEF UserEdit, Budgets
  <2> QED
    BY <2>1, TreesExist DEF Bytes
<1>3. folder' \in Trees
  BY <1>1, <1>2, FieldTypes DEF Trees
<1>4. v' \in Volatiles /\ v'.man = v.man
  <2>1. v' = [v EXCEPT !.scan = v.scan \/ (v.phase = "loop" /\ p \notin Excluded)]
    BY DEF UserEdit
  <2> QED
    BY <2>1, FieldTypes DEF Volatiles
<1>5. used' \in Budgets
  BY FieldTypes, UseTyped DEF UserEdit
<1>6. hist' = hist /\ ckpt' = ckpt /\ d' = d /\ pc' = pc
  BY DEF UserEdit
<1> QED
  BY <1>3, <1>4, <1>5, <1>6, FieldTypes DEF QuietStep, SyncInv, ApplyPending

LEMMA LossIsQuiet ==
  ASSUME SyncInv, ReconcileLost \/ PullLost \/ ChunkLost \/ CommitLost \/ SourceChanged
  PROVE  QuietStep
<1> USE FieldTypes
<1>1. hist' = hist /\ ckpt' = ckpt /\ folder' = folder
  BY DEF ReconcileLost, PullLost, ChunkLost, CommitLost, SourceChanged
<1>2. used' \in Budgets
  BY UseTyped DEF ReconcileLost, PullLost, ChunkLost, CommitLost, SourceChanged, NetworkFails
<1>3. CASE ReconcileLost \/ PullLost \/ CommitLost
  <2>1. Fails("paused", "network", d)
    BY <1>3 DEF ReconcileLost, PullLost, CommitLost
  <2> QED
    BY <1>1, <1>2, <2>1, FailsQuiet DEF Reasons
<1>4. CASE SourceChanged
  <2>1. Fails("conflicted", "chunk_source_changed", d)
    BY <1>4 DEF SourceChanged
  <2> QED
    BY <1>1, <1>2, <2>1, FailsQuiet DEF Reasons
<1>5. CASE ChunkLost
  <2>1. Fails("paused", "network", RecordExcluded(d)) /\ pc = "item"
    BY <1>5 DEF ChunkLost
  <2>2. d.pr.gen # 0
    BY <2>1 DEF SyncInv, ApplyPending, Applying
  <2> QED
    BY <1>1, <1>2, <2>1, <2>2, FailsQuiet, RecordEffect DEF Reasons
<1> QED
  BY <1>3, <1>4, <1>5

\* Where the process goes on is an apply only when something is pending.
LEMMA GoesOn ==
  ASSUME SyncInv, pc' = AfterOpening
  PROVE  /\ pc' \in {"apply", "recover"}
         /\ pc' \in Applying => d.pr.gen # 0
BY DEF AfterOpening, Applying, SyncInv, PendingKnown

LEMMA RestartIsQuiet ==
  ASSUME SyncInv, JournalLeaseExpires \/ ProcessEnds \/ DropUnsent \/ \E recover \in BOOLEAN : Start(recover)
  PROVE  QuietStep
<1> USE FieldTypes
<1>1. hist' = hist /\ ckpt' = ckpt /\ folder' = folder
  BY DEF JournalLeaseExpires, ProcessEnds, DropUnsent, Start
<1>2. used' \in Budgets
  BY UseTyped DEF JournalLeaseExpires, ProcessEnds, DropUnsent, Start
<1>3. CASE JournalLeaseExpires
  <2>1. CASE v.retakes >= RetakeLimit
    <3>1. Fails("conflicted", "stale_fence", d)
      BY <1>3, <2>1 DEF JournalLeaseExpires
    <3> QED
      BY <1>1, <1>2, <3>1, FailsQuiet DEF Reasons
  <2>2. CASE ~(v.retakes >= RetakeLimit)
    <3>1. v' = [v EXCEPT !.phase = "retake", !.retakes = @ + 1, !.man = EmptyTree]
      BY <1>3, <2>2 DEF JournalLeaseExpires
    <3>2. v' \in Volatiles
      <4>1. v.retakes + 1 \in Nat /\ EmptyTree \in Trees /\ "retake" \in Phases
        BY TreesExist DEF Volatiles, Phases
      <4> QED
        BY <3>1, <4>1 DEF Volatiles
    <3>3. d' = d /\ pc' = AfterOpening
      BY <1>3, <2>2 DEF JournalLeaseExpires
    <3> QED
      BY <1>1, <1>2, <3>2, <3>3, GoesOn DEF QuietStep, Landing
  <2> QED
    BY <2>1, <2>2
<1>4. CASE ProcessEnds
  BY <1>1, <1>2, <1>4, NoVolatileTyped DEF ProcessEnds, QuietStep, Applying, Landing
<1>5. CASE DropUnsent
  <2>1. /\ d' = [d EXCEPT !.pl = [n \in Names |-> IF n \in v.todo THEN Keep ELSE d.pl[n]], !.dirty = TRUE]
        /\ v' = [v EXCEPT !.todo = {}]
        /\ pc' = AfterOpening
    BY <1>5 DEF DropUnsent
  <2>2. [n \in Names |-> IF n \in v.todo THEN Keep ELSE d.pl[n]] \in Maps
    BY DEF Maps
  <2>3. d' \in States /\ d'.gen = d.gen /\ d'.base = d.base /\ d'.root = d.root /\ d'.pr = d.pr
    BY <2>1, <2>2 DEF States
  <2>4. v' \in Volatiles
    BY <2>1 DEF Volatiles
  <2> QED
    BY <1>1, <1>2, <2>1, <2>3, <2>4, GoesOn DEF QuietStep, Landing
<1>6. ASSUME NEW recover \in BOOLEAN, Start(recover)
      PROVE  QuietStep
  <2>1. d' \in States /\ d'.gen = d.gen /\ d'.base = d.base /\ d'.root = d.root /\ d'.pr = d.pr
    <3>1. d' = d \/ d' = [d EXCEPT !.status = "recovering", !.dirty = TRUE, !.reason = "none"]
      BY <1>6 DEF Start
    <3>2. "recovering" \in Statuses /\ "none" \in Reasons
      BY DEF Statuses, Reasons
    <3> QED
      BY <3>1, <3>2 DEF States
  <2>2. v' \in Volatiles
    <3>1. PICK rec \in BOOLEAN, todo \in SUBSET Names : v' = [NoVolatile EXCEPT !.phase = "open", !.rec = rec, !.todo = todo]
      BY <1>6 DEF Start, Unsent, OpsOf
    <3> QED
      BY <3>1, NoVolatileTyped DEF Volatiles, Phases
  <2>3. pc' = "drop" \/ pc' = AfterOpening
    BY <1>6 DEF Start
  <2> QED
    BY <1>1, <1>2, <2>1, <2>2, <2>3, GoesOn DEF QuietStep, Landing, Applying
<1> QED
  BY <1>3, <1>4, <1>5, <1>6

LEMMA RecoveryIsQuiet ==
  ASSUME SyncInv, RecoverPendingLocal \/ RequestedReconcile \/ IntervalReconcile \/ NoReconcile
  PROVE  QuietStep
<1> USE FieldTypes
<1>1. hist' = hist /\ ckpt' = ckpt /\ folder' = folder /\ used' = used
  BY DEF RecoverPendingLocal, RequestedReconcile, IntervalReconcile, BeginReconcile, NoReconcile
<1>2. "reconciling" \in Statuses /\ "catching_up" \in Statuses /\ "none" \in Reasons
  BY DEF Statuses, Reasons
<1>3. CASE RecoverPendingLocal
  <2>1. d' \in States /\ d'.gen = d.gen /\ d'.base = d.base /\ d'.root = d.root /\ d'.pr = d.pr
    <3>1. \/ d' = [ForgetOps(d) EXCEPT !.status = "catching_up", !.dirty = TRUE, !.reason = "none"]
          \/ d' = [d EXCEPT !.status = "reconciling", !.dirty = TRUE, !.reason = "none"]
          \/ d' = d
      BY <1>3 DEF RecoverPendingLocal
    <3>2. /\ ForgetOps(d) \in States
          /\ ForgetOps(d).gen = d.gen /\ ForgetOps(d).base = d.base
          /\ ForgetOps(d).root = d.root /\ ForgetOps(d).pr = d.pr
      BY ForgetEffect
    <3> QED
      BY <1>2, <3>1, <3>2 DEF States
  <2>2. v' \in Volatiles
    <3>1. PICK rec \in BOOLEAN : v' = [v EXCEPT !.scan = TRUE, !.phase = "loop", !.rec = rec]
      BY <1>3 DEF RecoverPendingLocal, Volatiles, Refused, MaybeSent
    <3> QED
      BY <3>1 DEF Volatiles, Phases
  <2>3. pc' = "top"
    BY <1>3 DEF RecoverPendingLocal
  <2> QED
    BY <1>1, <2>1, <2>2, <2>3 DEF QuietStep, Applying, Landing
<1>4. CASE RequestedReconcile \/ IntervalReconcile
  <2>1. /\ d' = [d EXCEPT !.status = "reconciling", !.dirty = TRUE, !.reason = "none"]
        /\ v' = [v EXCEPT !.rec = FALSE, !.man = BuildManifest(folder, d.ronly)]
        /\ pc' = "ask"
    BY <1>4 DEF RequestedReconcile, IntervalReconcile, BeginReconcile
  <2>2. d' \in States /\ d'.gen = d.gen /\ d'.base = d.base /\ d'.root = d.root /\ d'.pr = d.pr
    BY <1>2, <2>1 DEF States
  <2>3. v' \in Volatiles
    BY <2>1, ManifestTyped DEF Volatiles
  <2> QED
    BY <1>1, <2>1, <2>2, <2>3 DEF QuietStep, Applying, Landing
<1>5. CASE NoReconcile
  BY <1>1, <1>5 DEF NoReconcile, QuietStep, Applying, Landing
<1> QED
  BY <1>3, <1>4, <1>5

LEMMA JournalIsQuiet ==
  ASSUME SyncInv, TransitionToApplied \/ JournalReceipt
  PROVE  QuietStep
<1>1. /\ UNCHANGED <<folder, hist, ckpt, d, pc, v, used>>
      /\ pc \in Landing
  BY DEF TransitionToApplied, JournalReceipt, AdvanceJournal, history, Landing
<1> QED
  BY <1>1, FieldTypes DEF QuietStep, Applying, Landing

LEMMA FolderReadIsQuiet ==
  ASSUME SyncInv, ReadFolder \/ RecordItem \/ PullNothing
  PROVE  QuietStep
<1> USE FieldTypes
<1>1. hist' = hist /\ ckpt' = ckpt /\ folder' = folder /\ used' = used
  BY DEF ReadFolder, RecordItem, PullNothing
<1>2. CASE ReadFolder
  <2>1. /\ v' = [v EXCEPT !.man = BuildManifest(folder, d.ronly), !.todo = d.pr.todo, !.ro = d.ronly]
        /\ d' = d /\ pc' = "item" /\ pc = "apply"
    BY <1>2 DEF ReadFolder
  <2>2. d.pr.todo \in SUBSET Names
    BY DEF Remotes
  <2>3. v' \in Volatiles
    BY <2>1, <2>2, ManifestTyped DEF Volatiles
  <2> QED
    BY <1>1, <2>1, <2>3 DEF QuietStep, SyncInv, ApplyPending, Applying, Landing
<1>3. CASE RecordItem
  <2>1. d' = [d EXCEPT !.pr.todo = v.todo] /\ v' = v /\ pc' = "item" /\ pc = "record"
    BY <1>3 DEF RecordItem
  <2>2. [d.pr EXCEPT !.todo = v.todo] \in Remotes /\ [d.pr EXCEPT !.todo = v.todo].gen = d.pr.gen
    BY DEF Remotes
  <2>3. d' \in States /\ d'.gen = d.gen /\ d'.base = d.base /\ d'.root = d.root /\ d'.pr.gen = d.pr.gen
    BY <2>1, <2>2 DEF States
  <2> QED
    BY <1>1, <2>1, <2>3 DEF QuietStep, SyncInv, ApplyPending, Applying, Landing
<1>4. CASE PullNothing
  <2>1. d' = d \/ d' = [d EXCEPT !.status = "live_unverified", !.reason = "none"]
    BY <1>4 DEF PullNothing
  <2>2. "live_unverified" \in Statuses /\ "none" \in Reasons
    BY DEF Statuses, Reasons
  <2>3. d' \in States /\ d'.gen = d.gen /\ d'.base = d.base /\ d'.root = d.root /\ d'.pr = d.pr
    BY <2>1, <2>2 DEF States
  <2> QED
    BY <1>1, <1>4, <2>3 DEF QuietStep, PullNothing, Applying, Landing
<1> QED
  BY <1>2, <1>3, <1>4

\* Writing tree bytes to a name of the folder.
LEMMA PutTyped ==
  ASSUME folder \in Trees, NEW n, NEW b \in Bytes, Put(n, b)
  PROVE  folder' \in Trees
BY DEF Put, Trees

LEMMA ItemIsQuiet ==
  ASSUME SyncInv, NEW n \in Names,
         ExcludedItem(n) \/ LeaveItem(n) \/ RetainRemote(n) \/ RetainLocal(n) \/ ApplyItem(n)
  PROVE  QuietStep
<1> USE FieldTypes
<1>1. hist' = hist /\ ckpt' = ckpt /\ used' = used
  BY DEF ExcludedItem, LeaveItem, RetainRemote, RetainLocal, ApplyItem
<1>2. pc = "item" /\ d.pr.gen # 0
  BY DEF ExcludedItem, LeaveItem, RetainRemote, RetainLocal, ApplyItem, NextItem, SyncInv, ApplyPending, Applying
<1>3. Tree(d.pr.gen) \in Trees
  <2>1. d.pr.gen \in 1..Newest
    BY <1>2 DEF SyncInv, PendingKnown, Remotes
  <2> QED
    BY <2>1, TreeTyped DEF SyncInv
<1>4. Tree(d.pr.gen)[n] \in Bytes /\ folder[n] \in Bytes
  BY <1>3 DEF Trees
<1>5. /\ RecordExcluded(d) \in States
      /\ RecordExcluded(d).gen = d.gen /\ RecordExcluded(d).base = d.base /\ RecordExcluded(d).root = d.root
      /\ RecordExcluded(d).pr.gen = d.pr.gen
  BY RecordEffect
<1>6. ASSUME NEW kind \in {"paused", "conflicted"}, NEW reason \in Reasons,
             Fails(kind, reason, RecordExcluded(d)), UNCHANGED folder
      PROVE  QuietStep
  BY <1>1, <1>2, <1>5, <1>6, FailsQuiet
<1>7. ASSUME folder' \in Trees, d' = d \/ d' = RecordExcluded(d), v' \in Volatiles, pc' \in Applying
      PROVE  QuietStep
  BY <1>1, <1>2, <1>5, <1>7 DEF QuietStep, Applying, Landing
<1>8. v.todo \ {n} \in SUBSET Names /\ Noticed \in BOOLEAN
  BY DEF Noticed, Volatiles
<1>9. CASE ExcludedItem(n)
  <2>1. v' = [v EXCEPT !.ro[n] = Tree(d.pr.gen)[n], !.todo = @ \ {n}] /\ UNCHANGED <<folder, d, pc>>
    BY <1>9 DEF ExcludedItem
  <2>2. [v.ro EXCEPT ![n] = Tree(d.pr.gen)[n]] \in Trees
    BY <1>4 DEF Trees
  <2>3. v' \in Volatiles
    BY <1>8, <2>1, <2>2 DEF Volatiles
  <2> QED
    BY <1>2, <1>7, <2>1, <2>3 DEF Applying
<1>10. CASE LeaveItem(n)
  <2>1. /\ d' = RecordExcluded(d) /\ v' = [v EXCEPT !.todo = @ \ {n}]
        /\ pc' = "record" /\ UNCHANGED folder
    BY <1>10 DEF LeaveItem
  <2>2. v' \in Volatiles
    BY <1>8, <2>1 DEF Volatiles
  <2> QED
    BY <1>7, <2>1, <2>2 DEF Applying
<1>11. CASE RetainRemote(n)
  <2> DEFINE kept == Sibling(n[1], d.pr.gen)
  <2>1. CASE SiblingFree(kept, Tree(d.pr.gen)[n])
    <3>1. /\ Put(kept, Tree(d.pr.gen)[n]) /\ d' = RecordExcluded(d)
          /\ v' = [v EXCEPT !.todo = @ \ {n}, !.scan = Noticed] /\ pc' = "record"
      BY <1>11, <2>1 DEF RetainRemote
    <3>2. v' \in Volatiles
      BY <1>8, <3>1 DEF Volatiles
    <3> QED
      BY <1>4, <1>7, <3>1, <3>2, PutTyped DEF Applying
  <2>2. CASE ~SiblingFree(kept, Tree(d.pr.gen)[n])
    <3>1. Fails("conflicted", "collision", RecordExcluded(d)) /\ UNCHANGED folder
      BY <1>11, <2>2 DEF RetainRemote
    <3> QED
      BY <1>6, <3>1 DEF Reasons
  <2> QED
    BY <2>1, <2>2
<1>12. CASE RetainLocal(n)
  <2> DEFINE kept == Sibling(n[1], d.pr.gen - 1)
  <2>1. CASE folder[n] = Absent
    <3>1. Fails("paused", "dependency", RecordExcluded(d)) /\ UNCHANGED folder
      BY <1>12, <2>1 DEF RetainLocal
    <3> QED
      BY <1>6, <3>1 DEF Reasons
  <2>2. CASE folder[n] # Absent /\ SiblingFree(kept, folder[n])
    <3>1. /\ Put(kept, folder[n]) /\ d' = RecordExcluded(d)
          /\ v' = [v EXCEPT !.copied = TRUE, !.scan = Noticed] /\ pc' = pc
      BY <1>12, <2>2 DEF RetainLocal
    <3>2. v' \in Volatiles
      BY <1>8, <3>1 DEF Volatiles
    <3> QED
      BY <1>2, <1>4, <1>7, <3>1, <3>2, PutTyped DEF Applying
  <2>3. CASE folder[n] # Absent /\ ~SiblingFree(kept, folder[n])
    <3>1. Fails("conflicted", "collision", RecordExcluded(d)) /\ UNCHANGED folder
      BY <1>12, <2>3 DEF RetainLocal
    <3> QED
      BY <1>6, <3>1 DEF Reasons
  <2> QED
    BY <2>1, <2>2, <2>3
<1>13. CASE ApplyItem(n)
  <2>1. /\ Put(n, Tree(d.pr.gen)[n]) /\ d' = RecordExcluded(d)
        /\ v' = [v EXCEPT !.todo = @ \ {n}, !.copied = FALSE, !.scan = Noticed] /\ pc' = "record"
    BY <1>13 DEF ApplyItem
  <2>2. v' \in Volatiles
    BY <1>8, <2>1 DEF Volatiles
  <2> QED
    BY <1>4, <1>7, <2>1, <2>2, PutTyped DEF Applying
<1> QED
  BY <1>9, <1>10, <1>11, <1>12, <1>13

LEMMA ScanIsQuiet ==
  ASSUME SyncInv, NoScan \/ Scan \/ QueueOps \/ Renew \/ Wake
  PROVE  QuietStep
<1> USE FieldTypes
<1>1. hist' = hist /\ ckpt' = ckpt /\ folder' = folder /\ used' = used
  BY DEF NoScan, Scan, QueueOps, Renew, Wake
<1>2. ASSUME d' \in States, d'.gen = d.gen, d'.base = d.base, d'.root = d.root, d'.pr = d.pr,
             v' \in Volatiles, pc' \notin Applying \cup Landing \cup {"commit"}
      PROVE  QuietStep
  BY <1>1, <1>2 DEF QuietStep
<1>3. CASE NoScan \/ Wake
  BY <1>2, <1>3 DEF NoScan, Wake, Applying, Landing
<1>4. CASE Renew
  <2>1. v' = [v EXCEPT !.retakes = 0, !.man = EmptyTree] /\ pc' = "wait" /\ d' = d
    BY <1>4 DEF Renew
  <2>2. EmptyTree \in Trees /\ 0 \in Nat
    BY TreesExist
  <2>3. v' \in Volatiles
    BY <2>1, <2>2 DEF Volatiles
  <2> QED
    BY <1>2, <2>1, <2>3 DEF Applying, Landing
<1>5. CASE QueueOps
  <2>1. d' = [d EXCEPT !.pl = DiffManifest(d.base, v.man), !.plBase = d.gen] /\ v' = v /\ pc' = "mark"
    BY <1>5 DEF QueueOps
  <2>2. DiffManifest(d.base, v.man) \in Maps /\ d.gen \in 0..MaxGen
    BY DiffTyped
  <2>3. d' \in States /\ d'.gen = d.gen /\ d'.base = d.base /\ d'.root = d.root /\ d'.pr = d.pr
    BY <2>1, <2>2 DEF States
  <2> QED
    BY <1>2, <2>1, <2>3 DEF Applying, Landing
<1>6. CASE Scan
  <2> DEFINE man == BuildManifest(folder, d.ronly)
  <2>1. \E status \in {"catching_up", "live_unverified", "conflicted", "paused"},
           dirty \in BOOLEAN, reason \in {"none", "intent_changed", "limit"} :
          d' = [d EXCEPT !.status = status, !.dirty = dirty, !.reason = reason]
    <3>1. \/ d' = [d EXCEPT !.status = "catching_up", !.reason = "none"]
          \/ d' = [[d EXCEPT !.status = "catching_up", !.reason = "none"] EXCEPT !.status = "live_unverified"]
          \/ d' = [d EXCEPT !.status = "conflicted", !.dirty = TRUE, !.reason = "intent_changed"]
          \/ d' = [d EXCEPT !.status = "paused", !.dirty = TRUE, !.reason = "limit"]
      BY <1>6 DEF Scan
    <3>2. d.dirty \in BOOLEAN
      BY DEF States
    <3>3. [d EXCEPT !.status = "catching_up", !.reason = "none"]
            = [d EXCEPT !.status = "catching_up", !.dirty = d.dirty, !.reason = "none"]
      BY DEF States
    <3>4. [[d EXCEPT !.status = "catching_up", !.reason = "none"] EXCEPT !.status = "live_unverified"]
            = [d EXCEPT !.status = "live_unverified", !.dirty = d.dirty, !.reason = "none"]
      BY DEF States
    <3> QED
      BY <3>1, <3>2, <3>3, <3>4
  <2>2. {"catching_up", "live_unverified", "conflicted", "paused"} \subseteq Statuses
        /\ {"none", "intent_changed", "limit"} \subseteq Reasons
    BY DEF Statuses, Stopped, Reasons
  <2>3. d' \in States /\ d'.gen = d.gen /\ d'.base = d.base /\ d'.root = d.root /\ d'.pr = d.pr
    BY <2>1, <2>2, ZenonT(30) DEF States
  <2>4. man \in Trees
    BY ManifestTyped
  <2>5. v' \in Volatiles
    <3>1. \/ v' = [[v EXCEPT !.scan = FALSE] EXCEPT !.rec = v.rec \/ d.dirty]
          \/ v' = [v EXCEPT !.scan = FALSE]
          \/ v' = [[v EXCEPT !.scan = FALSE] EXCEPT !.man = man]
      BY <1>6 DEF Scan
    <3>2. [v EXCEPT !.scan = FALSE] \in Volatiles
      BY DEF Volatiles
    <3>3. (v.rec \/ d.dirty) \in BOOLEAN
      OBVIOUS
    <3> HIDE DEF man
    <3> QED
      BY <2>4, <3>1, <3>2, <3>3 DEF Volatiles
  <2>6. pc' \in {"renew", "dead", "queue", "mark"}
    BY <1>6 DEF Scan
  <2> QED
    BY <1>2, <2>3, <2>5, <2>6 DEF Applying, Landing
<1> QED
  BY <1>3, <1>4, <1>5, <1>6

LEMMA RefusalIsQuiet ==
  ASSUME SyncInv, AcceptStaleRefusal \/ MarkSending
  PROVE  QuietStep
<1> USE FieldTypes
<1>1. hist' = hist /\ ckpt' = ckpt /\ folder' = folder /\ used' = used
  BY DEF AcceptStaleRefusal, MarkSending, history
<1>2. CASE MarkSending
  <2>1. \/ d' = d /\ v' = v /\ pc' \in {"send", "mark"}
        \/ Fails("conflicted", "journal_state", d)
    BY <1>2 DEF MarkSending
  <2>2. CASE d' = d /\ v' = v /\ pc' \in {"send", "mark"}
    BY <1>1, <2>2 DEF QuietStep, Applying, Landing
  <2>3. CASE Fails("conflicted", "journal_state", d)
    BY <1>1, <2>3, FailsQuiet DEF Reasons
  <2> QED
    BY <2>1, <2>2, <2>3
<1>3. CASE AcceptStaleRefusal
  <2> DEFINE refusals == IF v.stale = d.gen THEN v.refusals + 1 ELSE 1
             freed == [ForgetOps(d) EXCEPT !.status = "catching_up", !.dirty = TRUE, !.reason = "none"]
  <2>1. "catching_up" \in Statuses /\ "none" \in Reasons
    BY DEF Statuses, Reasons
  <2>2. /\ freed \in States
        /\ freed.gen = d.gen /\ freed.base = d.base /\ freed.root = d.root /\ freed.pr = d.pr
    <3>1. /\ ForgetOps(d) \in States
          /\ ForgetOps(d).gen = d.gen /\ ForgetOps(d).base = d.base
          /\ ForgetOps(d).root = d.root /\ ForgetOps(d).pr = d.pr
      BY ForgetEffect
    <3> QED
      BY <2>1, <3>1 DEF States
  <2>3. refusals \in Nat
    BY DEF Volatiles
  <2>4. CASE refusals >= StaleLimit
    <3>1. Fails("conflicted", "remote_advanced_unobserved", freed)
      BY <1>3, <2>4 DEF AcceptStaleRefusal
    <3> HIDE DEF freed
    <3> QED
      BY <1>1, <2>2, <3>1, FailsQuiet DEF Reasons
  <2>5. CASE ~(refusals >= StaleLimit)
    <3>1. /\ d' = freed /\ pc' = "renew"
          /\ v' = [v EXCEPT !.stale = d.gen, !.refusals = refusals, !.scan = TRUE, !.man = EmptyTree]
      BY <1>3, <2>5 DEF AcceptStaleRefusal
    <3>2. EmptyTree \in Trees /\ d.gen \in 0..MaxGen
      BY TreesExist
    <3> HIDE DEF freed, refusals
    <3>3. v' \in Volatiles
      BY <2>3, <3>1, <3>2 DEF Volatiles
    <3> QED
      BY <1>1, <2>2, <3>1, <3>3 DEF QuietStep, Applying, Landing
  <2> QED
    BY <2>4, <2>5
<1> QED
  BY <1>2, <1>3

-----------------------------------------------------------------------------
(* A generation is published                                               *)

\* As QuietStep, but the server has one generation more.
GrowthStep ==
  /\ \E t \in Trees, by \in {"cli", "machine"} : hist' = Append(hist, [tree |-> t, by |-> by])
  /\ Newest < MaxGen
  /\ ckpt' = ckpt
  /\ folder' \in Trees /\ d' \in States /\ v' \in Volatiles /\ used' \in Budgets
  /\ d'.gen = d.gen /\ d'.base = d.base /\ d'.root = d.root /\ d'.pr = d.pr
  /\ pc' \in Applying => d.pr.gen # 0
  /\ pc' \in Landing \cup {"commit"} => pc' = pc /\ v'.man = v.man

LEMMA GrowthKeeps ==
  ASSUME SyncInv, GrowthStep
  PROVE  SyncInv'
<1> USE FieldTypes
<1>1. PICK t \in Trees, by \in {"cli", "machine"} : hist' = Append(hist, [tree |-> t, by |-> by])
  BY DEF GrowthStep
<1>2. /\ hist' \in Seq(Generations)
      /\ Newest' = Newest + 1 /\ Newest' \in Gens
      /\ \A g \in 1..Newest : hist'[g] = hist[g]
  BY <1>1, HistoryGrows DEF GrowthStep, SyncInv
<1>3. \A g \in 1..Newest : Tree(g)' = Tree(g)
  BY <1>2 DEF Tree
<1>4. SyncTypes'
  BY <1>2 DEF GrowthStep, SyncInv, SyncTypes
<1>5. Truth' /\ PendingKnown' /\ ApplyPending'
  <2>1. d'.gen = d.gen /\ hist'[d.gen] = hist[d.gen]
    BY <1>2 DEF GrowthStep
  <2>2. Truth'
    <3>1. d.base = hist[d.gen].tree /\ d.root = hist[d.gen].tree
      BY DEF SyncInv, Truth, BaselineTruth, Tree
    <3>2. d'.base = hist'[d'.gen].tree /\ d'.root = hist'[d'.gen].tree
      BY <2>1, <3>1 DEF GrowthStep
    <3>3. d'.gen <= Newest'
      BY <1>2, <2>1
    <3> QED
      BY <3>2, <3>3 DEF Truth, BaselineTruth, Tree
  <2> QED
    BY <1>2, <2>2 DEF GrowthStep, SyncInv, PendingKnown, ApplyPending, NoRemote, Remotes
<1>6. AdoptsNext' /\ CommitRecorded'
  <2>1. ASSUME pc' \in Landing
        PROVE  (d.gen < Newest)' /\ (Tree(d.gen + 1) = v.man)'
    <3>1. d.gen < Newest /\ Tree(d.gen + 1) = v.man /\ v'.man = v.man
      BY <2>1 DEF GrowthStep, SyncInv, AdoptsNext, Landing
    <3>2. d'.gen = d.gen /\ d.gen + 1 \in 1..Newest
      BY <3>1 DEF GrowthStep
    <3>3. hist'[d'.gen + 1] = hist[d.gen + 1]
      BY <1>2, <3>2
    <3> QED
      BY <1>2, <3>1, <3>2, <3>3 DEF Tree
  <2> QED
    BY <2>1 DEF GrowthStep, SyncInv, AdoptsNext, CommitRecorded
<1>7. CheckpointTruth'
  <2> SUFFICES ASSUME NEW g \in Gens, ckpt'[g].phase = "committed"
               PROVE  g < Newest' /\ hist'[g + 1].tree = ckpt'[g].tree
    BY DEF CheckpointTruth, Tree
  <2>1. g < Newest /\ Tree(g + 1) = ckpt[g].tree /\ g \in Nat /\ g >= 1
    BY DEF GrowthStep, SyncInv, CheckpointTruth, Gens
  <2>2. g + 1 \in 1..Newest
    BY <2>1
  <2>3. hist'[g + 1] = hist[g + 1]
    BY <1>2, <2>2
  <2>4. g < Newest'
    BY <1>2, <2>1
  <2>5. ckpt'[g] = ckpt[g]
    BY DEF GrowthStep
  <2> QED
    BY <2>1, <2>3, <2>4, <2>5 DEF Tree
<1> QED
  BY <1>4, <1>5, <1>6, <1>7 DEF SyncInv

LEMMA MachineGrows ==
  ASSUME SyncInv, NEW p \in Paths, MachineEdits(p) \/ MachineKeepsBoth(p)
  PROVE  GrowthStep
<1> USE FieldTypes
<1>1. UNCHANGED <<folder, ckpt, d, pc, v>> /\ Newest < MaxGen
  BY DEF MachineEdits, MachineKeepsBoth, MayPublish
<1>2. used' \in Budgets
  BY UseTyped DEF MachineEdits, MachineKeepsBoth
<1>3. Tree(Newest) \in Trees
  BY TreeTyped DEF SyncInv
<1>4. <<"machine", used.machine + 1>> \in Bytes
  <2>1. used.machine \in Nat /\ used.machine < MaxMachine /\ MaxMachine \in Nat
    BY SyncAssumption DEF MachineEdits, MachineKeepsBoth, MayPublish, Budgets
  <2> QED
    BY <2>1 DEF Bytes
<1>5. \E t \in Trees : hist' = Append(hist, [tree |-> t, by |-> "machine"])
  <2>1. CASE MachineEdits(p)
    <3>1. PICK b \in {<<"machine", used.machine + 1>>, Absent} :
            hist' = Append(hist, [tree |-> [Tree(Newest) EXCEPT ![Own(p)] = b], by |-> "machine"])
      BY <2>1 DEF MachineEdits
    <3>2. b \in Bytes
      BY <1>4, TreesExist
    <3>3. [Tree(Newest) EXCEPT ![Own(p)] = b] \in Trees
      BY <1>3, <3>2 DEF Trees
    <3> QED
      BY <3>1, <3>3
  <2>2. CASE MachineKeepsBoth(p)
    <3> DEFINE t == [Tree(Newest) EXCEPT ![Own(p)] = <<"machine", used.machine + 1>>,
                                         ![GuestSibling(p, Newest)] = Tree(Newest)[Own(p)]]
    <3>1. hist' = Append(hist, [tree |-> t, by |-> "machine"])
      BY <2>2 DEF MachineKeepsBoth
    <3>2. Own(p) \in Names
      BY DEF Own, Names
    <3>3. Tree(Newest)[Own(p)] \in Bytes
      BY <1>3, <3>2 DEF Trees
    <3>4. t \in Trees
      BY <1>3, <1>4, <3>3 DEF Trees
    <3> QED
      BY <3>1, <3>4
  <2> QED
    BY <2>1, <2>2
<1>6. pc \in Applying => d.pr.gen # 0
  BY DEF SyncInv, ApplyPending
<1> QED
  BY <1>1, <1>2, <1>5, <1>6 DEF GrowthStep

LEMMA AnswerLostGrows ==
  ASSUME SyncInv, AnswerLost
  PROVE  GrowthStep
<1> USE FieldTypes
<1>1. /\ hist' = Append(hist, [tree |-> v.man, by |-> "cli"]) /\ Newest < MaxGen
      /\ UNCHANGED <<folder, ckpt>>
  BY DEF AnswerLost, Publish, Lands
<1>2. used' \in Budgets
  BY UseTyped DEF AnswerLost, NetworkFails
<1>3. \/ Fails("paused", "network", d)
      \/ pc' = "off" /\ v' = NoVolatile /\ d' = d
  BY DEF AnswerLost
<1>4. /\ d' \in States /\ v' \in Volatiles
      /\ d'.gen = d.gen /\ d'.base = d.base /\ d'.root = d.root /\ d'.pr = d.pr
      /\ pc' \in {"off", "wait", "dead"}
  <2>1. CASE Fails("paused", "network", d)
    BY <2>1, FailsEffect DEF Reasons
  <2>2. CASE pc' = "off" /\ v' = NoVolatile /\ d' = d
    BY <2>2, NoVolatileTyped
  <2> QED
    BY <1>3, <2>1, <2>2
<1> QED
  BY <1>1, <1>2, <1>4 DEF GrowthStep, Applying, Landing

-----------------------------------------------------------------------------
(* The baseline moves                                                      *)

\* What is left of the invariant when the server and the folder stay as they
\* are, and the checkpoint too.
LEMMA SettledKeeps ==
  ASSUME SyncInv, hist' = hist, ckpt' = ckpt, folder' = folder, used' = used,
         d' \in States, v' \in Volatiles,
         d'.gen <= Newest, d'.base = Tree(d'.gen), d'.root = Tree(d'.gen),
         d'.pr.gen <= Newest, d'.pr.gen = 0 => d'.pr = NoRemote,
         pc' \in Applying => d'.pr.gen # 0,
         pc' \in Landing => d'.gen < Newest /\ Tree(d'.gen + 1) = v'.man,
         pc' # "commit"
  PROVE  SyncInv'
<1>1. Newest' = Newest
  BY DEF Newest
<1>2. SyncTypes'
  BY <1>1 DEF SyncInv, SyncTypes
<1>3. Truth' /\ PendingKnown' /\ ApplyPending' /\ AdoptsNext' /\ CommitRecorded'
  BY <1>1 DEF Truth, BaselineTruth, PendingKnown, ApplyPending, AdoptsNext, CommitRecorded, Tree, NoRemote
<1>4. CheckpointTruth'
  BY <1>1 DEF SyncInv, CheckpointTruth, Tree
<1> QED
  BY <1>2, <1>3, <1>4 DEF SyncInv

LEMMA ReconcileKeeps ==
  ASSUME SyncInv, ReconcileAnswered
  PROVE  SyncInv'
<1> USE FieldTypes
<1>1. UNCHANGED <<folder, hist, ckpt, used>>
  BY DEF ReconcileAnswered, history
<1>2. d.pr.gen <= Newest /\ (d.pr.gen = 0 => d.pr = NoRemote) /\ Tree(d.gen) = d.base /\ Tree(d.gen) = d.root
  BY DEF SyncInv, PendingKnown, Truth, BaselineTruth
<1>3. EmptyTree \in Trees /\ {"converged", "reconciling"} \subseteq Statuses /\ {"none", "divergence"} \subseteq Reasons
  BY TreesExist DEF Statuses, Reasons
<1>4. [v EXCEPT !.man = EmptyTree] \in Volatiles
  BY <1>3 DEF Volatiles
<1>5. CASE Newest = d.gen /\ Tree(Newest) = v.man
  <2>1. /\ d' = [d EXCEPT !.root = v.man, !.base = v.man, !.dirty = FALSE, !.status = "converged", !.reason = "none"]
        /\ pc' = "pull" /\ v' = [v EXCEPT !.man = EmptyTree]
    BY <1>5 DEF ReconcileAnswered, Landed
  <2>2. /\ d' \in States
        /\ d'.gen = d.gen /\ d'.root = v.man /\ d'.base = v.man /\ d'.pr = d.pr
    BY <1>3, <2>1 DEF States
  <2> QED
    BY <1>1, <1>2, <1>4, <1>5, <2>1, <2>2, SettledKeeps DEF Applying, Landing
<1>6. CASE Landed
  <2>1. UNCHANGED <<d, v>> /\ pc' = "adopt"
    BY <1>6 DEF ReconcileAnswered, Landed
  <2>2. Newest = d.gen + 1 /\ Tree(d.gen + 1) = v.man
    BY <1>6 DEF Landed
  <2>3. pc' \notin Applying /\ pc' # "commit"
    BY <2>1 DEF Applying
  <2>4. d.gen < Newest /\ Tree(d.gen + 1) = v.man
    BY <2>2
  <2>5. d' = d /\ v' = v /\ d.gen <= Newest
    BY <2>1
  <2> QED
    BY <1>1, <1>2, <2>3, <2>4, <2>5, SettledKeeps
<1>7. CASE ~(Newest = d.gen /\ Tree(Newest) = v.man) /\ ~Landed
  <2>1. /\ d' = [d EXCEPT !.status = "reconciling", !.dirty = TRUE, !.reason = "divergence"]
        /\ pc' = "pull" /\ v' = [v EXCEPT !.man = EmptyTree]
    BY <1>7 DEF ReconcileAnswered
  <2>2. d' \in States /\ d'.gen = d.gen /\ d'.root = d.root /\ d'.base = d.base /\ d'.pr = d.pr
    BY <1>3, <2>1 DEF States
  <2> QED
    BY <1>1, <1>2, <1>4, <2>1, <2>2, SettledKeeps DEF Applying, Landing
<1> QED
  BY <1>5, <1>6, <1>7

LEMMA AdoptKeeps ==
  ASSUME SyncInv, AdoptReconciled \/ AdoptReceipt
  PROVE  SyncInv'
<1> USE FieldTypes
<1>1. PICK status \in {"converged", "live_unverified"} :
        /\ d' = AdoptCommit(status)
        /\ v' = [v EXCEPT !.man = EmptyTree]
        /\ pc \in Landing /\ pc' \in {"pull", "renew"}
        /\ UNCHANGED <<folder, hist, ckpt, used>>
  BY DEF AdoptReconciled, AdoptReceipt, FinishAdopt, Landing
<1>2. d.gen < Newest /\ Tree(d.gen + 1) = v.man
  BY <1>1 DEF SyncInv, AdoptsNext
<1>3. LocalCommitRecord(d.gen + 1) \in Lasts
  <2> DEFINE entries == [n \in Names |-> IF d.pl[n] # Keep THEN d.pl[n]
                           ELSE IF d.last.gen = (d.gen + 1) - 1 THEN d.last.entries[n] ELSE Keep]
  <2>1. d.last.entries \in Maps
    BY DEF States, Lasts
  <2>2. entries \in Maps
    BY <2>1 DEF Maps
  <2>3. LocalCommitRecord(d.gen + 1) = [gen |-> d.gen + 1, entries |-> entries]
    BY DEF LocalCommitRecord
  <2> HIDE DEF entries
  <2> QED
    BY <1>2, <2>2, <2>3 DEF Lasts
<1>4. /\ ForgetOps(d) \in States /\ ForgetOps(d).pr = d.pr
  BY ForgetEffect
<1>5. d' \in States /\ d'.gen = d.gen + 1 /\ d'.root = v.man /\ d'.base = v.man /\ d'.pr = d.pr
  <2>1. status \in Statuses /\ "none" \in Reasons /\ d.gen + 1 \in Gens
    BY <1>2 DEF Statuses, Reasons, Gens
  <2> QED
    BY <1>1, <1>3, <1>4, <2>1 DEF AdoptCommit, States
<1>6. v' \in Volatiles
  BY <1>1, TreesExist DEF Volatiles
<1>7. d.pr.gen <= Newest /\ (d.pr.gen = 0 => d.pr = NoRemote)
  BY DEF SyncInv, PendingKnown
<1> QED
  BY <1>1, <1>2, <1>5, <1>6, <1>7, SettledKeeps DEF Applying, Landing

LEMMA PullKeeps ==
  ASSUME SyncInv, PullNext
  PROVE  SyncInv'
<1> USE FieldTypes
<1> DEFINE pr == [gen |-> d.gen + 1, todo |-> ChangedIn(d.gen + 1)]
<1>1. /\ d' = [d EXCEPT !.status = "catching_up", !.reason = "none", !.pr = pr]
      /\ pc' = "apply" /\ Newest > d.gen /\ UNCHANGED <<folder, hist, ckpt, v, used>>
  BY DEF PullNext
<1>2. pr \in Remotes /\ pr.gen = d.gen + 1
  BY <1>1 DEF Remotes, ChangedIn
<1>3. "catching_up" \in Statuses /\ "none" \in Reasons
  BY DEF Statuses, Reasons
<1> HIDE DEF pr
<1>4. d' \in States /\ d'.gen = d.gen /\ d'.root = d.root /\ d'.base = d.base /\ d'.pr = pr
  BY <1>1, <1>2, <1>3 DEF States
<1>5. Tree(d.gen) = d.base /\ Tree(d.gen) = d.root
  BY DEF SyncInv, Truth, BaselineTruth
<1> QED
  BY <1>1, <1>2, <1>4, <1>5, SettledKeeps DEF Landing

\* A pending generation follows the one the folder is on.
PendingIsNext == d.pr # NoRemote => d.pr.gen = d.gen + 1

\* A baseline that is the generation before, with what the next one changed, is
\* the next one.
LEMMA AdoptedIsTree ==
  ASSUME SyncInv, d.pr.gen = d.gen + 1
  PROVE  Adopted = Tree(d.pr.gen)
<1> USE FieldTypes
<1>1. d.pr.gen \in 1..Newest /\ d.pr.gen - 1 = d.gen
  BY DEF SyncInv, PendingKnown
<1>2. Tree(d.pr.gen) \in Trees
  BY <1>1, TreeTyped DEF SyncInv
<1>3. d.base = Tree(d.pr.gen - 1)
  BY <1>1 DEF SyncInv, Truth, BaselineTruth
<1>4. \A n \in Names : n \notin ChangedIn(d.pr.gen) => d.base[n] = Tree(d.pr.gen)[n]
  BY <1>3 DEF ChangedIn
<1>5. \A n \in Names : Adopted[n] = Tree(d.pr.gen)[n]
  BY <1>4 DEF Adopted
<1>6. Adopted = [n \in Names |-> Tree(d.pr.gen)[n]]
  BY <1>5 DEF Adopted
<1> QED
  BY <1>2, <1>6 DEF Trees

LEMMA FinishKeeps ==
  ASSUME SyncInv, PendingIsNext, FinishApply
  PROVE  SyncInv'
<1> USE FieldTypes
<1> DEFINE man == BuildManifest(folder, v.ro)
           ahead == man # Tree(d.pr.gen)
           kept == IF Refused THEN ForgetOps(d) ELSE d
<1>1. UNCHANGED <<folder, hist, ckpt, used>> /\ pc = "item"
  BY DEF FinishApply, history
<1>2. d.pr.gen # 0
  BY <1>1 DEF SyncInv, ApplyPending, Applying
<1>3. d.pr.gen = d.gen + 1 /\ d.pr.gen \in 1..Newest
  BY <1>2 DEF PendingIsNext, NoRemote, SyncInv, PendingKnown, Remotes
<1>4. Adopted = Tree(d.pr.gen)
  BY <1>3, AdoptedIsTree
<1>5. Tree(d.pr.gen) \in Trees
  BY <1>3, TreeTyped DEF SyncInv
<1>6. CASE ahead /\ NotApplied(man)
  <2>1. Fails("conflicted", "mismatch", RecordExcluded(d))
    BY <1>6 DEF FinishApply
  <2> QED
    BY <1>1, <1>2, <2>1, FailsQuiet, RecordEffect, QuietKeeps DEF Reasons
<1>7. CASE ~(ahead /\ NotApplied(man))
  <2>1. /\ d' = [kept EXCEPT !.ronly = v.ro, !.gen = d.pr.gen, !.root = Tree(d.pr.gen),
                             !.base = IF ahead THEN Adopted ELSE man,
                             !.pr = NoRemote, !.dirty = ahead, !.status = "live_unverified", !.reason = "none"]
        /\ v' = [v EXCEPT !.man = EmptyTree, !.ro = EmptyTree, !.scan = v.scan \/ ahead]
        /\ pc' = IF v.phase = "loop" THEN "pull" ELSE "recover"
    BY <1>7 DEF FinishApply
  <2>2. kept \in States
    BY ForgetEffect
  <2>3. (IF ahead THEN Adopted ELSE man) = Tree(d.pr.gen)
    BY <1>4
  <2>4. "live_unverified" \in Statuses /\ "none" \in Reasons /\ NoRemote \in Remotes /\ NoRemote.gen = 0
        /\ EmptyTree \in Trees /\ d.pr.gen \in Gens
    BY <1>3, TreesExist DEF Statuses, Reasons, NoRemote, Remotes, Gens
  <2>5. ahead \in BOOLEAN /\ (v.scan \/ ahead) \in BOOLEAN
    OBVIOUS
  <2> HIDE DEF kept, ahead, man
  <2>6. d' = [kept EXCEPT !.ronly = v.ro, !.gen = d.pr.gen, !.root = Tree(d.pr.gen), !.base = Tree(d.pr.gen),
                          !.pr = NoRemote, !.dirty = ahead, !.status = "live_unverified", !.reason = "none"]
    BY <2>1, <2>3
  <2>7. d' \in States /\ d'.gen = d.pr.gen /\ d'.root = Tree(d.pr.gen) /\ d'.base = Tree(d.pr.gen) /\ d'.pr = NoRemote
    BY <1>5, <2>2, <2>4, <2>5, <2>6 DEF States
  <2>8. v' \in Volatiles
    BY <2>1, <2>4, <2>5 DEF Volatiles
  <2>9. pc' \in {"pull", "recover"}
    BY <2>1
  <2> QED
    BY <1>1, <1>3, <2>4, <2>7, <2>8, <2>9, SettledKeeps DEF Applying, Landing
<1> QED
  BY <1>6, <1>7

-----------------------------------------------------------------------------
(* A commit                                                                *)

LEMMA CheckpointKeeps ==
  ASSUME SyncInv, OpenCheckpoint
  PROVE  SyncInv'
<1> USE FieldTypes
<1> DEFINE c == ckpt[d.gen]
<1>1. UNCHANGED <<folder, hist, used>> /\ pc = "send"
  BY DEF OpenCheckpoint, history
<1>2. d.gen \in Gens /\ ckpt \in [Gens -> Checkpoints]
  BY DEF Gens, SyncInv, SyncTypes
<1>3. CASE /\ c.phase = "none" \/ (c.phase = "open" /\ c.tree = v.man)
           /\ ckpt' = [ckpt EXCEPT ![d.gen] = [phase |-> "open", tree |-> v.man]]
           /\ pc' = "commit"
           /\ UNCHANGED <<d, jr, v>>
  <2>1. [phase |-> "open", tree |-> v.man] \in Checkpoints
    BY DEF Checkpoints
  <2>2. /\ ckpt' \in [Gens -> Checkpoints]
        /\ ckpt'[d.gen] = [phase |-> "open", tree |-> v.man]
        /\ \A g \in Gens : g # d.gen => ckpt'[g] = ckpt[g]
    BY <1>2, <1>3, <2>1
  <2>3. SyncTypes'
    BY <1>1, <1>3, <2>2 DEF SyncInv, SyncTypes, Newest
  <2>4. Truth' /\ PendingKnown' /\ ApplyPending' /\ AdoptsNext'
    BY <1>1, <1>3 DEF SyncInv, Truth, BaselineTruth, PendingKnown, ApplyPending, Applying, AdoptsNext, Landing, Tree, Newest, NoRemote
  <2>5. CommitRecorded'
    BY <1>3, <2>2 DEF CommitRecorded
  <2>6. CheckpointTruth'
    BY <1>1, <2>2 DEF SyncInv, CheckpointTruth, Tree, Newest
  <2> QED
    BY <2>3, <2>4, <2>5, <2>6 DEF SyncInv
<1>4. CASE c.phase = "committed" /\ c.tree = v.man /\ pc' = "receipt" /\ UNCHANGED <<ckpt, d, jr, v>>
  <2>1. d.gen < Newest /\ Tree(d.gen + 1) = v.man
    BY <1>2, <1>4 DEF SyncInv, CheckpointTruth
  <2>2. Tree(d.gen) = d.base /\ Tree(d.gen) = d.root /\ d.pr.gen <= Newest /\ (d.pr.gen = 0 => d.pr = NoRemote)
    BY DEF SyncInv, Truth, BaselineTruth, PendingKnown
  <2>3. pc' \notin Applying /\ pc' # "commit"
    BY <1>4 DEF Applying
  <2> QED
    BY <1>1, <1>4, <2>1, <2>2, <2>3, SettledKeeps
<1>5. CASE pc' = "refused" /\ UNCHANGED <<ckpt, d, jr, v>>
  <2>1. QuietStep
    BY <1>1, <1>5 DEF QuietStep, Applying, Landing
  <2> QED
    BY <2>1, QuietKeeps
<1>6. CASE Fails("conflicted", "checkpoint", d) /\ UNCHANGED ckpt
  BY <1>1, <1>6, FailsQuiet, QuietKeeps DEF Reasons
<1> QED
  BY <1>3, <1>4, <1>5, <1>6 DEF OpenCheckpoint

LEMMA CommitKeeps ==
  ASSUME SyncInv, CommitAnswered
  PROVE  SyncInv'
<1> USE FieldTypes
<1>1. UNCHANGED <<folder, d, v, used>> /\ pc = "commit" /\ pc' \in {"receipt", "refused"}
  BY DEF CommitAnswered, history
<1>2. d.gen \in Gens /\ ckpt \in [Gens -> Checkpoints] /\ ckpt[d.gen].tree = v.man
  BY <1>1 DEF Gens, SyncInv, SyncTypes, CommitRecorded
<1>3. ASSUME NEW phase \in {"committed", "conflicted"}, ckpt' = [ckpt EXCEPT ![d.gen].phase = phase],
             hist' \in Seq(Generations), Newest' \in Gens, Newest <= Newest',
             \A g \in 1..Newest : hist'[g] = hist[g],
             phase = "committed" => d.gen < Newest' /\ hist'[d.gen + 1].tree = v.man,
             pc' = "receipt" => phase = "committed"
      PROVE  SyncInv'
  <2>1. /\ ckpt' \in [Gens -> Checkpoints]
        /\ ckpt'[d.gen].phase = phase /\ ckpt'[d.gen].tree = v.man
        /\ \A g \in Gens : g # d.gen => ckpt'[g] = ckpt[g]
    <3>1. ckpt' = [ckpt EXCEPT ![d.gen] = [ckpt[d.gen] EXCEPT !.phase = phase]]
      BY <1>3
    <3>2. [ckpt[d.gen] EXCEPT !.phase = phase] \in Checkpoints
          /\ [ckpt[d.gen] EXCEPT !.phase = phase].phase = phase
          /\ [ckpt[d.gen] EXCEPT !.phase = phase].tree = v.man
      BY <1>2 DEF Checkpoints
    <3> QED
      BY <1>2, <3>1, <3>2
  <2>2. SyncTypes'
    BY <1>1, <1>3, <2>1 DEF SyncInv, SyncTypes
  <2>3. Truth' /\ PendingKnown' /\ ApplyPending'
    <3>1. hist'[d.gen] = hist[d.gen] /\ d'.gen <= Newest' /\ d'.pr.gen <= Newest'
      BY <1>1, <1>3 DEF SyncInv, PendingKnown, Remotes, Gens
    <3> QED
      BY <1>1, <3>1 DEF SyncInv, Truth, BaselineTruth, PendingKnown, ApplyPending, Applying, Tree, NoRemote
  <2>4. AdoptsNext' /\ CommitRecorded'
    BY <1>1, <1>3 DEF AdoptsNext, CommitRecorded, Landing, Tree
  <2>5. ASSUME NEW g \in Gens, ckpt'[g].phase = "committed"
        PROVE  g < Newest' /\ hist'[g + 1].tree = ckpt'[g].tree
    <3>1. CASE g = d.gen
      BY <1>3, <2>1, <2>5, <3>1
    <3>2. CASE g # d.gen
      <4>1. g < Newest /\ hist[g + 1].tree = ckpt[g].tree /\ ckpt'[g] = ckpt[g]
        BY <2>1, <2>5, <3>2 DEF SyncInv, CheckpointTruth, Tree
      <4>2. g + 1 \in 1..Newest /\ g < Newest'
        BY <1>3, <4>1 DEF Gens
      <4> QED
        BY <1>3, <4>1, <4>2
    <3> QED
      BY <3>1, <3>2
  <2>6. CheckpointTruth'
    BY <2>5 DEF CheckpointTruth, Tree
  <2> QED
    BY <2>2, <2>3, <2>4, <2>6 DEF SyncInv
<1>4. CASE /\ Lands \/ AlreadyLanded
           /\ Publish
           /\ ckpt' = [ckpt EXCEPT ![d.gen].phase = "committed"]
           /\ pc' = "receipt"
  <2>1. CASE Lands
    <3>1. hist' = Append(hist, [tree |-> v.man, by |-> "cli"]) /\ Newest = d.gen /\ Newest < MaxGen
      BY <1>4, <2>1 DEF Publish, Lands
    <3>2. /\ hist' \in Seq(Generations)
          /\ Newest' = Newest + 1 /\ Newest' \in Gens
          /\ \A g \in 1..Newest : hist'[g] = hist[g]
          /\ hist'[Newest + 1] = [tree |-> v.man, by |-> "cli"]
      BY <3>1, HistoryGrows DEF SyncInv
    <3>3. Newest <= Newest' /\ d.gen < Newest'
      BY <3>1, <3>2
    <3>4. hist'[d.gen + 1] = [tree |-> v.man, by |-> "cli"]
      BY <3>1, <3>2
    <3>5. hist'[d.gen + 1].tree = v.man
      BY <3>4
    <3> QED
      BY <1>3, <1>4, <3>2, <3>3, <3>5
  <2>2. CASE AlreadyLanded /\ ~Lands
    <3>1. hist' = hist /\ Newest' = Newest
      BY <1>4, <2>2 DEF Publish, Newest
    <3>2. hist \in Seq(Generations) /\ Newest \in Gens
      BY DEF SyncInv, SyncTypes
    <3>3. d.gen < Newest /\ hist[d.gen + 1].tree = v.man
      BY <2>2 DEF AlreadyLanded, Tree
    <3> QED
      BY <1>3, <1>4, <3>1, <3>2, <3>3
  <2> QED
    BY <1>4, <2>1, <2>2
<1>5. CASE /\ ckpt' = [ckpt EXCEPT ![d.gen].phase = "conflicted"]
           /\ pc' = "refused"
           /\ UNCHANGED hist
  <2>1. hist \in Seq(Generations) /\ Newest \in Gens /\ Newest' = Newest
    BY <1>5 DEF SyncInv, SyncTypes, Newest
  <2> QED
    BY <1>3, <1>5, <2>1
<1> QED
  BY <1>4, <1>5 DEF CommitAnswered

-----------------------------------------------------------------------------
(* The baseline is true while a pending generation is the next one         *)

LEMMA SyncStep ==
  ASSUME SyncInv, PendingIsNext, [Next]_vars
  PROVE  SyncInv'
<1>1. ASSUME NEW p \in Paths, UserEdit(p) \/ MachineEdits(p) \/ MachineKeepsBoth(p)
      PROVE  SyncInv'
  BY <1>1, EditIsQuiet, QuietKeeps, MachineGrows, GrowthKeeps
<1>2. CASE \/ \E recover \in BOOLEAN : Start(recover)
           \/ JournalLeaseExpires \/ ProcessEnds \/ DropUnsent
  BY <1>2, RestartIsQuiet, QuietKeeps
<1>3. CASE NoReconcile \/ IntervalReconcile \/ RequestedReconcile \/ RecoverPendingLocal
  BY <1>3, RecoveryIsQuiet, QuietKeeps
<1>4. CASE ReconcileAnswered
  BY <1>4, ReconcileKeeps
<1>5. CASE TransitionToApplied \/ JournalReceipt
  BY <1>5, JournalIsQuiet, QuietKeeps
<1>6. CASE AdoptReconciled \/ AdoptReceipt
  BY <1>6, AdoptKeeps
<1>7. CASE PullNext
  BY <1>7, PullKeeps
<1>8. CASE PullNothing \/ ReadFolder \/ RecordItem
  BY <1>8, FolderReadIsQuiet, QuietKeeps
<1>9. CASE FinishApply
  BY <1>9, FinishKeeps
<1>10. CASE \E n \in Names : ExcludedItem(n) \/ LeaveItem(n) \/ RetainRemote(n) \/ RetainLocal(n) \/ ApplyItem(n)
  BY <1>10, ItemIsQuiet, QuietKeeps
<1>11. CASE NoScan \/ Scan \/ QueueOps \/ Renew \/ Wake
  BY <1>11, ScanIsQuiet, QuietKeeps
<1>12. CASE MarkSending \/ AcceptStaleRefusal
  BY <1>12, RefusalIsQuiet, QuietKeeps
<1>13. CASE OpenCheckpoint
  BY <1>13, CheckpointKeeps
<1>14. CASE CommitAnswered
  BY <1>14, CommitKeeps
<1>15. CASE ReconcileLost \/ PullLost \/ ChunkLost \/ CommitLost \/ SourceChanged
  BY <1>15, LossIsQuiet, QuietKeeps
<1>16. CASE AnswerLost
  BY <1>16, AnswerLostGrows, GrowthKeeps
<1>17. CASE UNCHANGED vars
  <2>1. QuietStep
    BY <1>17, FieldTypes DEF vars, QuietStep, SyncInv, ApplyPending
  <2> QED
    BY <2>1, QuietKeeps
<1>18. CASE Environment
  BY <1>1, <1>18 DEF Environment
<1>19. CASE Pass
  BY <1>2, <1>3, <1>4, <1>5, <1>6, <1>7, <1>8, <1>9, <1>10, <1>11, <1>12, <1>13, <1>14, <1>19 DEF Pass, Apply
<1>20. CASE Faults
  BY <1>2, <1>15, <1>16, <1>20 DEF Faults
<1> QED
  BY <1>2, <1>3, <1>17, <1>18, <1>19, <1>20 DEF Next

\* Whatever is lost, ends, expires or is edited when, the baseline is the tree
\* the server holds under its generation for as long as a generation that is
\* half taken in stays the next one (#resumeRemoteApply, #reconcile, the
\* receipt of a commit).
THEOREM TrueWhileNext == Spec /\ []PendingIsNext => []BaselineTruth
<1>1. SyncInv /\ PendingIsNext /\ [Next]_vars => SyncInv'
  BY SyncStep
<1>2. SyncInv => BaselineTruth
  BY DEF SyncInv, Truth
<1> QED
  BY InitSync, <1>1, <1>2, PTL DEF Spec

-----------------------------------------------------------------------------
(* A pending generation is the next one while no download of it fails      *)

\* A generation half taken in is held over an end or a stop of the process,
\* never while the loop goes on: only then could another be adopted before it.
HeldOver == d.pr.gen # 0 => pc \in Applying \cup {"off", "dead", "drop"}

\* A file that was there when the folder was read is there until its item.
StillThere ==
  pc \in {"item", "record"} =>
    \A n \in v.todo : ~IsExcluded(n) /\ v.man[n] # Absent => folder[n] # Absent

PendingInv == PendingIsNext /\ HeldOver /\ StillThere

LEMMA InitPending == Init => PendingInv
BY DEF Init, PendingInv, PendingIsNext, HeldOver, StillThere, NoRemote

\* Without a pending generation nothing but the pull makes one.
LEMMA IdleStays ==
  ASSUME SyncInv, d.pr.gen = 0, d'.pr = d.pr, pc' \notin Applying
  PROVE  PendingInv'
BY DEF SyncInv, PendingKnown, PendingInv, PendingIsNext, HeldOver, StillThere, Applying, NoRemote

LEMMA IdleQuiet ==
  ASSUME SyncInv, d.pr.gen = 0, QuietStep \/ GrowthStep
  PROVE  PendingInv'
<1>1. d'.pr = d.pr /\ pc' \notin Applying
  BY DEF QuietStep, GrowthStep
<1> QED
  BY <1>1, IdleStays

\* A step out of the items keeps what is pending if it stops the loop.
LEMMA StopStays ==
  ASSUME SyncInv, PendingInv, d.pr.gen # 0, d'.gen = d.gen, d'.pr.gen = d.pr.gen,
         pc' \in {"apply", "off", "dead", "drop"}
  PROVE  PendingInv'
<1>1. d.pr.gen = d.gen + 1
  BY DEF PendingInv, PendingIsNext, NoRemote
<1> QED
  BY <1>1 DEF PendingInv, PendingIsNext, HeldOver, StillThere, Applying

LEMMA FailureStays ==
  ASSUME SyncInv, PendingInv, d.pr.gen # 0, NEW state \in States, NEW reason \in Reasons,
         state.gen = d.gen, state.pr.gen = d.pr.gen, Fails("conflicted", reason, state)
  PROVE  PendingInv'
<1>1. /\ d'.gen = state.gen /\ d'.pr = state.pr
      /\ pc' \in {"off", "wait", "dead"} /\ pc' # "wait"
  BY FailsEffect, FieldTypes
<1> QED
  BY <1>1, StopStays

LEMMA ItemStays ==
  ASSUME SyncInv, PendingInv, NEW n \in Names,
         ExcludedItem(n) \/ LeaveItem(n) \/ RetainRemote(n) \/ RetainLocal(n) \/ ApplyItem(n)
  PROVE  PendingInv'
<1> USE FieldTypes
<1>1. pc = "item" /\ d.pr.gen # 0 /\ n \in v.todo
  BY DEF ExcludedItem, LeaveItem, RetainRemote, RetainLocal, ApplyItem, NextItem, SyncInv, ApplyPending, Applying
<1>2. /\ RecordExcluded(d) \in States
      /\ RecordExcluded(d).gen = d.gen /\ RecordExcluded(d).pr.gen = d.pr.gen
  BY RecordEffect
<1>3. d.pr.gen = d.gen + 1
  BY <1>1 DEF PendingInv, PendingIsNext, NoRemote
<1>4. \A m \in v.todo : ~IsExcluded(m) /\ v.man[m] # Absent => folder[m] # Absent
  BY <1>1 DEF PendingInv, StillThere
<1>5. ASSUME NEW reason \in Reasons, Fails("conflicted", reason, RecordExcluded(d))
      PROVE  PendingInv'
  BY <1>1, <1>2, <1>5, FailureStays
<1>6. ASSUME d' = d \/ d' = RecordExcluded(d), pc' \in {"item", "record"}, v'.man = v.man, v'.todo \subseteq v.todo,
             \A m \in v'.todo : folder[m] # Absent => folder'[m] # Absent
      PROVE  PendingInv'
  <2>1. d'.gen = d.gen /\ d'.pr.gen = d.pr.gen
    BY <1>2, <1>6
  <2>2. PendingIsNext' /\ HeldOver'
    BY <1>3, <1>6, <2>1 DEF PendingIsNext, HeldOver, Applying
  <2>3. StillThere'
    BY <1>4, <1>6 DEF StillThere, IsExcluded
  <2> QED
    BY <2>2, <2>3 DEF PendingInv
<1>7. CASE ExcludedItem(n) \/ LeaveItem(n)
  <2>1. pc' \in {"item", "record"}
    BY <1>1, <1>7 DEF ExcludedItem, LeaveItem
  <2>2. v'.man = v.man /\ v'.todo = v.todo \ {n}
    BY <1>7 DEF ExcludedItem, LeaveItem, Volatiles
  <2>3. folder' = folder /\ (d' = d \/ d' = RecordExcluded(d))
    BY <1>7 DEF ExcludedItem, LeaveItem
  <2> QED
    BY <1>6, <2>1, <2>2, <2>3
<1>8. CASE RetainRemote(n)
  <2> DEFINE kept == Sibling(n[1], d.pr.gen)
  <2>1. CASE SiblingFree(kept, Tree(d.pr.gen)[n])
    <3>1. /\ folder' = [folder EXCEPT ![kept] = Tree(d.pr.gen)[n]] /\ d' = RecordExcluded(d)
          /\ v' = [v EXCEPT !.todo = @ \ {n}, !.scan = Noticed] /\ pc' = "record"
          /\ Tree(d.pr.gen)[n] # Absent
      BY <1>8, <2>1 DEF RetainRemote, Put
    <3>2. v'.man = v.man /\ v'.todo = v.todo \ {n}
      BY <3>1 DEF Volatiles
    <3>3. \A m \in Names : folder[m] # Absent => folder'[m] # Absent
      BY <3>1 DEF Trees
    <3> QED
      BY <1>6, <3>1, <3>2, <3>3
  <2>2. CASE ~SiblingFree(kept, Tree(d.pr.gen)[n])
    <3>1. Fails("conflicted", "collision", RecordExcluded(d))
      BY <1>8, <2>2 DEF RetainRemote
    <3> QED
      BY <1>5, <3>1 DEF Reasons
  <2> QED
    BY <2>1, <2>2
<1>9. CASE RetainLocal(n)
  <2> DEFINE kept == Sibling(n[1], d.pr.gen - 1)
  <2>1. folder[n] # Absent
    BY <1>1, <1>4, <1>9 DEF RetainLocal, ReplacesOwnCommit
  <2>2. CASE SiblingFree(kept, folder[n])
    <3>1. /\ folder' = [folder EXCEPT ![kept] = folder[n]] /\ d' = RecordExcluded(d)
          /\ v' = [v EXCEPT !.copied = TRUE, !.scan = Noticed] /\ pc' = pc
      BY <1>9, <2>1, <2>2 DEF RetainLocal, Put
    <3>2. v'.man = v.man /\ v'.todo = v.todo
      BY <3>1 DEF Volatiles
    <3>3. \A m \in Names : folder[m] # Absent => folder'[m] # Absent
      BY <2>1, <3>1 DEF Trees
    <3> QED
      BY <1>1, <1>6, <3>1, <3>2, <3>3
  <2>3. CASE ~SiblingFree(kept, folder[n])
    <3>1. Fails("conflicted", "collision", RecordExcluded(d))
      BY <1>9, <2>1, <2>3 DEF RetainLocal
    <3> QED
      BY <1>5, <3>1 DEF Reasons
  <2> QED
    BY <2>2, <2>3
<1>10. CASE ApplyItem(n)
  <2>1. /\ folder' = [folder EXCEPT ![n] = Tree(d.pr.gen)[n]] /\ d' = RecordExcluded(d)
        /\ v' = [v EXCEPT !.todo = @ \ {n}, !.copied = FALSE, !.scan = Noticed] /\ pc' = "record"
    BY <1>10 DEF ApplyItem, Put
  <2>2. v'.man = v.man /\ v'.todo = v.todo \ {n}
    BY <2>1 DEF Volatiles
  <2>3. \A m \in v'.todo : folder[m] # Absent => folder'[m] # Absent
    BY <2>1, <2>2 DEF Trees
  <2> QED
    BY <1>6, <2>1, <2>2, <2>3
<1> QED
  BY <1>7, <1>8, <1>9, <1>10

LEMMA FinishStays ==
  ASSUME SyncInv, PendingInv, FinishApply
  PROVE  PendingInv'
<1> USE FieldTypes
<1> DEFINE man == BuildManifest(folder, v.ro)
           kept == IF Refused THEN ForgetOps(d) ELSE d
<1>1. d.pr.gen # 0
  BY DEF FinishApply, SyncInv, ApplyPending, Applying
<1>2. CASE man # Tree(d.pr.gen) /\ NotApplied(man)
  <2>1. Fails("conflicted", "mismatch", RecordExcluded(d))
    BY <1>2 DEF FinishApply
  <2> QED
    BY <1>1, <2>1, FailureStays, RecordEffect DEF Reasons
<1>3. CASE ~(man # Tree(d.pr.gen) /\ NotApplied(man))
  <2>1. kept \in States
    BY ForgetEffect
  <2>2. d' = [kept EXCEPT !.ronly = v.ro, !.gen = d.pr.gen, !.root = Tree(d.pr.gen),
                          !.base = IF man # Tree(d.pr.gen) THEN Adopted ELSE man,
                          !.pr = NoRemote, !.dirty = man # Tree(d.pr.gen),
                          !.status = "live_unverified", !.reason = "none"]
    BY <1>3 DEF FinishApply
  <2> HIDE DEF kept
  <2>3. d'.pr = NoRemote
    BY <2>1, <2>2 DEF States
  <2>4. pc' \in {"pull", "recover"}
    BY <1>3 DEF FinishApply
  <2> QED
    BY <2>3, <2>4 DEF PendingInv, PendingIsNext, HeldOver, StillThere, NoRemote
<1> QED
  BY <1>2, <1>3

LEMMA PendingStep ==
  ASSUME SyncInv, PendingInv, [Next]_vars, [~ChunkLost]_vars, "apply" \notin EditDuring
  PROVE  PendingInv'
<1> USE FieldTypes
<1>1. d.pr.gen # 0 => d.pr.gen = d.gen + 1
  BY DEF PendingInv, PendingIsNext, NoRemote
<1>2. pc \notin Applying \cup {"off", "dead", "drop"} => d.pr.gen = 0
  BY DEF PendingInv, HeldOver
<1>3. CASE UNCHANGED vars
  BY <1>3 DEF vars, PendingInv, PendingIsNext, HeldOver, StillThere, IsExcluded
<1>4. ASSUME NEW p \in Paths, UserEdit(p)
      PROVE  PendingInv'
  <2>1. pc \notin Applying /\ d' = d /\ pc' = pc
    BY <1>4 DEF UserEdit, Between, Applying
  <2> QED
    BY <2>1 DEF PendingInv, PendingIsNext, HeldOver, StillThere, Applying
<1>5. ASSUME NEW p \in Paths, MachineEdits(p) \/ MachineKeepsBoth(p)
      PROVE  PendingInv'
  <2>1. UNCHANGED <<d, pc, v, folder>>
    BY <1>5 DEF MachineEdits, MachineKeepsBoth
  <2> QED
    BY <2>1 DEF PendingInv, PendingIsNext, HeldOver, StillThere, IsExcluded
<1>6. CASE DropUnsent \/ ProcessEnds \/ \E recover \in BOOLEAN : Start(recover)
  <2>1. d'.gen = d.gen /\ (d'.pr = d.pr \/ (d.pr.gen # 0 /\ d'.pr.gen = d.pr.gen))
    BY <1>6, RestartIsQuiet DEF QuietStep
  <2>2. pc' \in {"off", "drop"} \/ pc' = AfterOpening
    BY <1>6 DEF DropUnsent, ProcessEnds, Start
  <2>3. CASE d.pr.gen # 0
    <3>1. pc' \in {"off", "drop", "apply"}
      BY <2>2, <2>3 DEF AfterOpening, NoRemote
    <3> QED
      BY <2>1, <2>3, <3>1, StopStays
  <2>4. CASE d.pr.gen = 0
    BY <1>6, <2>4, RestartIsQuiet, IdleQuiet
  <2> QED
    BY <2>3, <2>4
<1>7. CASE JournalLeaseExpires
  <2>1. d.pr.gen = 0
    BY <1>2, <1>7 DEF JournalLeaseExpires, Applying
  <2> QED
    BY <1>7, <2>1, RestartIsQuiet, IdleQuiet
<1>8. CASE RecoverPendingLocal \/ RequestedReconcile \/ IntervalReconcile \/ NoReconcile
  <2>1. d.pr.gen = 0
    BY <1>2, <1>8 DEF RecoverPendingLocal, RequestedReconcile, IntervalReconcile, NoReconcile, Applying
  <2> QED
    BY <1>8, <2>1, RecoveryIsQuiet, IdleQuiet
<1>9. CASE ReconcileAnswered
  <2>1. d.pr.gen = 0
    BY <1>2, <1>9 DEF ReconcileAnswered, Applying
  <2>2. d'.pr = d.pr /\ pc' \in {"pull", "adopt"}
    BY <1>9 DEF ReconcileAnswered, States
  <2> QED
    BY <2>1, <2>2, IdleStays DEF Applying
<1>10. CASE TransitionToApplied \/ JournalReceipt
  <2>1. d.pr.gen = 0
    BY <1>2, <1>10 DEF TransitionToApplied, JournalReceipt, AdvanceJournal, Applying
  <2> QED
    BY <1>10, <2>1, JournalIsQuiet, IdleQuiet
<1>11. CASE AdoptReconciled \/ AdoptReceipt
  <2>1. d.pr.gen = 0
    BY <1>2, <1>11 DEF AdoptReconciled, AdoptReceipt, FinishAdopt, Applying
  <2>2. ForgetOps(d) \in States /\ ForgetOps(d).pr = d.pr
    BY ForgetEffect
  <2>3. \E status : d' = AdoptCommit(status)
    BY <1>11 DEF AdoptReconciled, AdoptReceipt, FinishAdopt
  <2>4. d'.pr = d.pr
    BY <2>2, <2>3 DEF AdoptCommit, States
  <2>5. pc' \in {"pull", "renew"}
    BY <1>11 DEF AdoptReconciled, AdoptReceipt, FinishAdopt
  <2> QED
    BY <2>1, <2>4, <2>5, IdleStays DEF Applying
<1>12. CASE PullNext
  <2>1. d'.gen = d.gen /\ d'.pr.gen = d.gen + 1 /\ pc' = "apply"
    BY <1>12 DEF PullNext, States
  <2> QED
    BY <2>1 DEF PendingInv, PendingIsNext, HeldOver, StillThere, Applying
<1>13. CASE PullNothing
  <2>1. d.pr.gen = 0
    BY <1>2, <1>13 DEF PullNothing, Applying
  <2> QED
    BY <1>13, <2>1, FolderReadIsQuiet, IdleQuiet
<1>14. CASE ReadFolder
  <2>1. d' = d /\ folder' = folder /\ pc = "apply" /\ pc' = "item"
    BY <1>14 DEF ReadFolder
  <2>2. v'.man = BuildManifest(folder, d.ronly) /\ v'.todo = d.pr.todo
    BY <1>14 DEF ReadFolder, Volatiles
  <2>3. \A n \in v'.todo : ~IsExcluded(n) /\ v'.man[n] # Absent => folder'[n] # Absent
    <3>1. v'.todo \subseteq Names
      BY <2>2 DEF Remotes
    <3> QED
      BY <2>1, <2>2, <3>1 DEF BuildManifest
  <2>4. PendingIsNext' /\ HeldOver'
    BY <2>1 DEF PendingInv, PendingIsNext, HeldOver, Applying
  <2> QED
    BY <2>3, <2>4 DEF PendingInv, StillThere, IsExcluded
<1>15. CASE RecordItem
  <2>1. d' = [d EXCEPT !.pr.todo = v.todo] /\ v' = v /\ folder' = folder /\ pc = "record" /\ pc' = "item"
    BY <1>15 DEF RecordItem
  <2>2. d'.gen = d.gen /\ d'.pr.gen = d.pr.gen
    BY <2>1 DEF States, Remotes
  <2>3. d.pr.gen # 0
    BY <2>1 DEF SyncInv, ApplyPending, Applying
  <2>4. PendingIsNext' /\ HeldOver'
    BY <1>1, <2>1, <2>2, <2>3 DEF PendingIsNext, HeldOver, Applying
  <2>5. StillThere'
    BY <2>1 DEF PendingInv, StillThere, IsExcluded
  <2> QED
    BY <2>4, <2>5 DEF PendingInv
<1>16. CASE \E n \in Names : ExcludedItem(n) \/ LeaveItem(n) \/ RetainRemote(n) \/ RetainLocal(n) \/ ApplyItem(n)
  BY <1>16, ItemStays
<1>17. CASE FinishApply
  BY <1>17, FinishStays
<1>18. CASE NoScan \/ Scan \/ QueueOps \/ Renew \/ Wake
  <2>1. d.pr.gen = 0
    BY <1>2, <1>18 DEF NoScan, Scan, QueueOps, Renew, Wake, Applying
  <2> QED
    BY <1>18, <2>1, ScanIsQuiet, IdleQuiet
<1>19. CASE MarkSending \/ AcceptStaleRefusal
  <2>1. d.pr.gen = 0
    BY <1>2, <1>19 DEF MarkSending, AcceptStaleRefusal, Applying
  <2> QED
    BY <1>19, <2>1, RefusalIsQuiet, IdleQuiet
<1>20. CASE OpenCheckpoint \/ CommitAnswered
  <2>1. d.pr.gen = 0
    BY <1>2, <1>20 DEF OpenCheckpoint, CommitAnswered, Applying
  <2>2. \/ d' = d /\ pc' \in {"commit", "receipt", "refused"}
        \/ Fails("conflicted", "checkpoint", d)
    BY <1>20 DEF OpenCheckpoint, CommitAnswered
  <2>3. d'.pr = d.pr /\ pc' \notin Applying
    BY <2>2, FailsEffect DEF Reasons, Applying
  <2> QED
    BY <2>1, <2>3, IdleStays
<1>21. CASE ReconcileLost \/ PullLost \/ CommitLost \/ SourceChanged
  <2>1. d.pr.gen = 0
    BY <1>2, <1>21 DEF ReconcileLost, PullLost, CommitLost, SourceChanged, Applying
  <2> QED
    BY <1>21, <2>1, LossIsQuiet, IdleQuiet
<1>22. CASE AnswerLost
  <2>1. d.pr.gen = 0
    BY <1>2, <1>22 DEF AnswerLost, Applying
  <2> QED
    BY <1>22, <2>1, AnswerLostGrows, IdleQuiet
<1>23. CASE ChunkLost
  BY <1>3, <1>23
<1>24. CASE Environment
  BY <1>4, <1>5, <1>24 DEF Environment
<1>25. CASE Pass
  BY <1>6, <1>8, <1>9, <1>10, <1>11, <1>12, <1>13, <1>14, <1>15, <1>16, <1>17, <1>18, <1>19, <1>20, <1>25 DEF Pass, Apply
<1>26. CASE Faults
  BY <1>6, <1>7, <1>21, <1>22, <1>23, <1>26 DEF Faults
<1> QED
  BY <1>3, <1>6, <1>8, <1>24, <1>25, <1>26 DEF Next

\* As long as the bytes of every generation being taken in can be read
\* (#applyRemoteItem) and nobody saves in the middle of it, a generation that
\* an end of the process leaves half taken in is the first thing the next start
\* takes up: nothing is adopted before it.  Requests and answers may be lost
\* anywhere else.
THEOREM HalfTakenInIsNext ==
  ASSUME "apply" \notin EditDuring
  PROVE  Spec /\ [][~ChunkLost]_vars => []PendingIsNext
<1>1. SyncInv /\ PendingInv /\ [Next]_vars /\ [~ChunkLost]_vars => (SyncInv /\ PendingInv)'
  BY SyncStep, PendingStep DEF PendingInv
<1>2. PendingInv => PendingIsNext
  BY DEF PendingInv
<1>3. Init => SyncInv /\ PendingInv
  BY InitSync, InitPending
<1> QED
  BY <1>1, <1>2, <1>3, PTL DEF Spec

\* What the folder believes it last synchronized is what the server holds under
\* that generation, through every end of the process, expired lease, refusal,
\* lost answer and race of the two sides, under the same two provisos.  Without
\* the first, a commit adopted over a generation half taken in makes it false.
THEOREM BaselineStaysTrue ==
  ASSUME "apply" \notin EditDuring
  PROVE  Spec /\ [][~ChunkLost]_vars => []BaselineTruth
BY TrueWhileNext, HalfTakenInIsNext, PTL

-----------------------------------------------------------------------------
(* Excluded files                                                          *)

\* The folder names the same files throughout, and edits are counted.
FolderNamed == folder = [n \in Names |-> folder[n]] /\ used \in Budgets

\* What a step may do to the folder: an edit, or a write by the loop beside or
\* in place of a file the policy shows.
FolderStep ==
  \/ folder' = folder
  \/ used'.edits = used.edits + 1 /\ \E n, b : folder' = [folder EXCEPT ![n] = b]
  \/ \E n, b : ~IsExcluded(n) /\ folder' = [folder EXCEPT ![n] = b]

LEMMA OnlyShownWritten ==
  ASSUME FolderNamed, [Next]_vars
  PROVE  FolderStep /\ used' \in Budgets
<1>0. used \in Budgets
  BY DEF FolderNamed
<1>1. ASSUME NEW p \in Paths, UserEdit(p)
      PROVE  FolderStep
  <2>1. used'.edits = used.edits + 1
    BY <1>0, <1>1 DEF UserEdit, Use, Budgets
  <2>2. \E b : folder' = [folder EXCEPT ![Own(p)] = b]
    BY <1>1 DEF UserEdit
  <2> QED
    BY <2>1, <2>2 DEF FolderStep
<1>2. ASSUME NEW n \in Names, ExcludedItem(n) \/ LeaveItem(n) \/ RetainRemote(n) \/ RetainLocal(n) \/ ApplyItem(n)
      PROVE  FolderStep
  <2>1. ASSUME NEW g, ~IsExcluded(n)
        PROVE  ~IsExcluded(Sibling(n[1], g))
    BY <2>1 DEF IsExcluded, Sibling
  <2>2. \/ folder' = folder
        \/ ~IsExcluded(n) /\ \E m, b : (m = n \/ \E g : m = Sibling(n[1], g)) /\ folder' = [folder EXCEPT ![m] = b]
    BY <1>2 DEF ExcludedItem, LeaveItem, RetainRemote, RetainLocal, ApplyItem, Put
  <2> QED
    BY <2>1, <2>2 DEF FolderStep
<1>3. ASSUME NEW p \in Paths, MachineEdits(p) \/ MachineKeepsBoth(p)
      PROVE  folder' = folder
  BY <1>3 DEF MachineEdits, MachineKeepsBoth
<1>4. ASSUME Pass PROVE FolderStep
  <2>1. folder' = folder \/ \E n \in Names : ExcludedItem(n) \/ LeaveItem(n) \/ RetainRemote(n) \/ RetainLocal(n) \/ ApplyItem(n)
    BY <1>4 DEF Pass, DropUnsent, RecoverPendingLocal, RequestedReconcile, BeginReconcile, ReconcileAnswered,
       TransitionToApplied, JournalReceipt, AdvanceJournal, AdoptReconciled, AdoptReceipt, FinishAdopt,
       PullNext, PullNothing, Apply, ReadFolder, RecordItem, FinishApply, NoScan, Scan, QueueOps, MarkSending,
       OpenCheckpoint, CommitAnswered, AcceptStaleRefusal, Renew, Wake
  <2> QED
    BY <1>2, <2>1 DEF FolderStep
<1>5. ASSUME Faults PROVE FolderStep
  <2>1. folder' = folder
    BY <1>5 DEF Faults, ReconcileLost, PullLost, ChunkLost, CommitLost, AnswerLost, SourceChanged,
       JournalLeaseExpires, ProcessEnds
  <2> QED
    BY <2>1 DEF FolderStep
<1>6. ASSUME UNCHANGED vars \/ NoReconcile \/ IntervalReconcile \/ \E recover \in BOOLEAN : Start(recover)
      PROVE  FolderStep
  <2>1. folder' = folder
    BY <1>6 DEF vars, NoReconcile, IntervalReconcile, BeginReconcile, Start
  <2> QED
    BY <2>1 DEF FolderStep
<1>7. FolderStep
  <2>1. CASE Environment
    BY <1>1, <1>3, <2>1 DEF Environment, FolderStep
  <2> QED
    BY <1>4, <1>5, <1>6, <2>1 DEF Next
<1>8. used' \in Budgets
  <2>1. used' = used \/ \E field \in {"edits", "machine", "ends", "failures", "sleeps"} : Use(field)
    <3>1. CASE Environment
      BY <3>1 DEF Environment, UserEdit, MachineEdits, MachineKeepsBoth
    <3>2. CASE Faults
      BY <3>2 DEF Faults, ReconcileLost, PullLost, ChunkLost, CommitLost, AnswerLost, SourceChanged,
         JournalLeaseExpires, ProcessEnds, NetworkFails
    <3>3. CASE Pass
      BY <3>3 DEF Pass, DropUnsent, RecoverPendingLocal, RequestedReconcile, BeginReconcile, ReconcileAnswered,
         TransitionToApplied, JournalReceipt, AdvanceJournal, AdoptReconciled, AdoptReceipt, FinishAdopt,
         PullNext, PullNothing, Apply, ReadFolder, RecordItem, FinishApply, ExcludedItem, LeaveItem, RetainRemote,
         RetainLocal, ApplyItem, NoScan, Scan, QueueOps, MarkSending, OpenCheckpoint, CommitAnswered,
         AcceptStaleRefusal, Renew, Wake
    <3>4. CASE UNCHANGED vars \/ NoReconcile \/ IntervalReconcile \/ \E recover \in BOOLEAN : Start(recover)
      BY <3>4 DEF vars, NoReconcile, IntervalReconcile, BeginReconcile, Start
    <3> QED
      BY <3>1, <3>2, <3>3, <3>4 DEF Next
  <2> QED
    BY <1>0, <2>1, UseTyped
<1> QED
  BY <1>7, <1>8

\* The loop never writes or removes a file the policy excludes, whatever the
\* Machine published and whatever fails: neither in place nor as the copy of a
\* conflict (#outsideFolder, writeRetainedSibling).
THEOREM ExcludedStays == Spec => ExcludedUntouched
<1>1. Init => FolderNamed
  BY DEF Init, FolderNamed, Budgets
<1>2. ASSUME FolderNamed, [Next]_vars
      PROVE  /\ FolderNamed'
             /\ \A n \in Names : IsExcluded(n) /\ folder'[n] # folder[n] => used'.edits # used.edits
  <2>1. FolderStep /\ used' \in Budgets
    BY <1>2, OnlyShownWritten
  <2>2. used.edits \in Nat
    BY <1>2 DEF FolderNamed, Budgets
  <2>3. FolderNamed'
    BY <1>2, <2>1 DEF FolderNamed, FolderStep
  <2>4. \A n \in Names : IsExcluded(n) /\ folder'[n] # folder[n] => used'.edits # used.edits
    BY <1>2, <2>1, <2>2 DEF FolderNamed, FolderStep
  <2> QED
    BY <2>3, <2>4
<1> QED
  BY <1>1, <1>2, PTL DEF Spec, ExcludedUntouched

=============================================================================
