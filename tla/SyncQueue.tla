--------------------------- MODULE SyncQueue ---------------------------
(***************************************************************************)
(* The bounded queue of operations (sync/supervisor.ts): a new write of a  *)
(* path takes the place of the last one still waiting, an operation past   *)
(* a limit is not taken and leaves the queue dirty, and only a             *)
(* reconciliation of a drained queue cleans it.                            *)
(***************************************************************************)
EXTENDS Naturals, Sequences, FiniteSets

CONSTANTS
    SqPaths,
    SqOperations,    \* maximumOperations
    SqMaximumBytes,  \* maximumBytes
    SqContents,      \* bound: contents 1 .. SqContents, each its own length; 0 is absent
    SqGenerations    \* bound: base generations

ASSUME QueueBounds == {SqOperations, SqMaximumBytes, SqContents, SqGenerations} \subseteq Nat \ {0}

VARIABLES
    sqLocal, sqRemote,    \* path -> content
    sqItems, sqBytes,     \* #items, #bytes
    sqDirty,
    sqGeneration          \* the base generation an operation is written against

sqVars == <<sqLocal, sqRemote, sqItems, sqBytes, sqDirty, sqGeneration>>

SqInit ==
    /\ sqLocal = [p \in SqPaths |-> 0] /\ sqRemote = [p \in SqPaths |-> 0]
    /\ sqItems = <<>> /\ sqBytes = 0 /\ sqDirty = FALSE /\ sqGeneration = 1

-----------------------------------------------------------------------------
\* BoundedOperationQueue.

Writing(item) == item.kind \in {"create", "update"}
\* The last waiting item of the path, when a write may take its place.
LastOf(op) ==
    {i \in 1..Len(sqItems): sqItems[i].path = op.path /\ \A j \in (i+1)..Len(sqItems): sqItems[j].path # op.path}
MayReplace(item, op) ==
    /\ Writing(item) /\ ~item.acknowledged /\ item.base = op.base
CoalescedLast(op) == {i \in LastOf(op): Writing(op) /\ MayReplace(sqItems[i], op)}
\* A queue that looks past a delete for a write to replace.
CoalescedAny(op) ==
    LET fit == {i \in 1..Len(sqItems): sqItems[i].path = op.path /\ MayReplace(sqItems[i], op)}
    IN  {i \in fit: Writing(op) /\ \A j \in fit: j <= i}
Coalesced(op) == CoalescedLast(op)

\* enqueue.
Enqueued(op) ==
    LET taken == Coalesced(op)
        replaced == IF taken = {} THEN 0 ELSE sqItems[CHOOSE i \in taken: TRUE].content
        size == Len(sqItems) + (IF taken = {} THEN 1 ELSE 0)
        bytes == sqBytes - replaced + op.content
    IN  IF size > SqOperations \/ bytes > SqMaximumBytes
        THEN sqDirty' = TRUE /\ UNCHANGED <<sqItems, sqBytes>>
        ELSE /\ sqItems' = IF taken = {} THEN Append(sqItems, op)
                           ELSE [i \in 1..Len(sqItems) |-> IF i \in taken THEN op ELSE sqItems[i]]
             /\ sqBytes' = bytes /\ UNCHANGED sqDirty

\* A change of the folder, with the operation that tells of it.  A rename is told
\* of at the path it ends at, and its origin by a delete of its own.
Edit(p, content, acknowledged, renamed) ==
    LET kind == IF content = 0 THEN "delete"
                ELSE IF renamed THEN "rename" ELSE IF sqLocal[p] = 0 THEN "create" ELSE "update"
    IN  /\ content # sqLocal[p] /\ (renamed => content # 0)
        /\ sqLocal' = [sqLocal EXCEPT ![p] = content]
        /\ Enqueued([path |-> p, kind |-> kind, content |-> content, base |-> sqGeneration, acknowledged |-> acknowledged])
        /\ UNCHANGED <<sqRemote, sqGeneration>>

\* shift: the head of the queue is applied to the other side.
Shift ==
    /\ sqItems # <<>>
    /\ sqRemote' = [sqRemote EXCEPT ![Head(sqItems).path] = Head(sqItems).content]
    /\ sqItems' = Tail(sqItems) /\ sqBytes' = sqBytes - Head(sqItems).content
    /\ UNCHANGED <<sqLocal, sqDirty, sqGeneration>>

\* The folder is reconciled from its manifest; markReconciled refuses a queue
\* that still holds something.
MarkReconciled ==
    /\ sqItems = <<>> /\ sqDirty
    /\ sqRemote' = sqLocal /\ sqDirty' = FALSE
    /\ UNCHANGED <<sqLocal, sqItems, sqBytes, sqGeneration>>

NewGeneration ==
    /\ sqGeneration < SqGenerations
    /\ sqGeneration' = sqGeneration + 1
    /\ UNCHANGED <<sqLocal, sqRemote, sqItems, sqBytes, sqDirty>>

SqNext ==
    \/ \E p \in SqPaths, content \in 0..SqContents, acknowledged, renamed \in BOOLEAN: Edit(p, content, acknowledged, renamed)
    \/ Shift \/ MarkReconciled \/ NewGeneration

SqSpec == SqInit /\ [][SqNext]_sqVars

-----------------------------------------------------------------------------
\* A queue that has been drained and is not dirty has said everything: the
\* other side holds what the folder holds, whatever was coalesced or refused.
DrainedIsEqual == (sqItems = <<>> /\ ~sqDirty) => sqRemote = sqLocal

-----------------------------------------------------------------------------
(***************************************************************************)
(* Revisions and session overlays (sync/revisions.ts): every AgentSession  *)
(* writes into an overlay of its own on top of the revision it began from, *)
(* seals it, and merges it into the head three-way, by content first and   *)
(* by vector clock second; what neither settles becomes a conflict record, *)
(* which is previewed and then resolved.                                   *)
(*                                                                         *)
(* A revision is its tree: its id is a digest of nothing else that varies. *)
(* A call presents the generation its caller has just read; one that       *)
(* presents an older generation is refused and changes nothing.            *)
(***************************************************************************)

CONSTANTS
    OvSessions,
    OvPaths,
    OvContents,      \* what a file may hold
    OvQuota          \* quotaBytes, with one byte for each file changed

ASSUME OverlayQuota == OvQuota \in Nat \ {0}

VARIABLES
    ovHead,          \* #head
    ovRevisions,     \* #revisions
    ovOverlay,       \* session -> its overlay
    ovConflicts,     \* ConflictStore: conflict -> [state, resolution]
    ovSeen           \* ghost: session -> the versions its author has looked at

ovVars == <<ovHead, ovRevisions, ovOverlay, ovConflicts, ovSeen>>

Deleted == "deleted"                     \* a tombstone
NoClock == [s \in OvSessions |-> 0]
Missing == [content |-> "missing", clock |-> NoClock]
InitialTree == [p \in OvPaths |-> [content |-> CHOOSE c \in OvContents: TRUE, clock |-> NoClock]]
NoOverlay == [state |-> "none", base |-> InitialTree, changes |-> [p \in OvPaths |-> Missing]]

OvInit ==
    /\ ovHead = InitialTree /\ ovRevisions = {InitialTree}
    /\ ovOverlay = [s \in OvSessions |-> NoOverlay]
    /\ ovConflicts = [k \in {} |-> <<>>]
    /\ ovSeen = [s \in OvSessions |-> {}]

-----------------------------------------------------------------------------
\* The clocks and what they decide.

Less(l, r) == \E s \in OvSessions: l[s] < r[s]
\* compareVectorClocks.
CompareVectorClocks(l, r) ==
    CASE Less(l, r) /\ Less(r, l) -> "concurrent"
      [] Less(l, r) /\ ~Less(r, l) -> "before"
      [] ~Less(l, r) /\ Less(r, l) -> "after"
      [] OTHER -> "equal"
MergeVectorClocks(l, r) == [s \in OvSessions |-> IF l[s] < r[s] THEN r[s] ELSE l[s]]
IncrementVectorClock(c, s) == [c EXCEPT ![s] = @ + 1]

SameVersion(l, r) == l.content = r.content
\* merge: a path the head does not hold counts as a tombstone without a clock.
Theirs(p) == IF ovHead[p] = Missing THEN [content |-> Deleted, clock |-> NoClock] ELSE ovHead[p]

\* classifyConflict.
Classified(ours, theirs) ==
    IF SameVersion(ours, theirs) THEN "converged"
    ELSE IF CompareVectorClocks(ours.clock, theirs.clock) \in {"before", "after"} THEN "ordered"
    ELSE "conflict"
\* A merge that takes every later-written version for the newer one.
ClassifiedByArrival(ours, theirs) ==
    IF SameVersion(ours, theirs) THEN "converged"
    ELSE IF Less(theirs.clock, ours.clock) THEN "ordered"
    ELSE "conflict"
ClassifyConflict(ours, theirs) == Classified(ours, theirs)

\* inferConflictClass, of versions that differ.
InferConflictClass(base, ours, theirs) ==
    IF Deleted \in {ours.content, theirs.content} THEN "modify_delete"
    ELSE IF base = Missing THEN "create_create" ELSE "modify_modify"

-----------------------------------------------------------------------------
ContentChanged(o) == {p \in OvPaths: o.changes[p] # Missing}

\* allocateOverlay: one overlay for a session, ever, on a revision that exists.
AllocateOverlay(s, base) ==
    /\ ovOverlay[s].state = "none"
    /\ ovOverlay' = [ovOverlay EXCEPT ![s] = [NoOverlay EXCEPT !.state = "writable", !.base = base]]
    /\ ovSeen' = [ovSeen EXCEPT ![s] = {base[p]: p \in OvPaths}]
    /\ UNCHANGED <<ovHead, ovRevisions, ovConflicts>>

\* applyChange.  The writer's clock counts its own change on top of everything
\* it started from, and of the versions it has merged in by hand.
ApplyChange(s, p, content, merged) ==
    LET o == ovOverlay[s]
        clock == IncrementVectorClock(MergeVectorClocks(o.base[p].clock, merged.clock), s)
    IN  /\ o.state = "writable"
        /\ Cardinality(ContentChanged(o) \cup {p}) <= OvQuota
        /\ ovOverlay' = [ovOverlay EXCEPT ![s].changes[p] = [content |-> content, clock |-> clock]]
        /\ UNCHANGED <<ovHead, ovRevisions, ovConflicts, ovSeen>>

Seal(s) ==
    /\ ovOverlay[s].state = "writable"
    /\ ovOverlay' = [ovOverlay EXCEPT ![s].state = "sealed"]
    /\ UNCHANGED <<ovHead, ovRevisions, ovConflicts, ovSeen>>

\* retainAfterExit: whatever is not merged is kept as it is.
RetainAfterExit(s) ==
    /\ ovOverlay[s].state \notin {"none", "merged", "retained"}
    /\ ovOverlay' = [ovOverlay EXCEPT ![s].state = "retained"]
    /\ UNCHANGED <<ovHead, ovRevisions, ovConflicts, ovSeen>>

Untouched(o, p) == (o.base[p] = Missing) = (ovHead[p] = Missing) /\ SameVersion(o.base[p], ovHead[p])
TakesOurs(o, p) ==
    \/ Untouched(o, p)
    \/ SameVersion(o.changes[p], Theirs(p))
    \/ /\ ClassifyConflict(o.changes[p], Theirs(p)) = "ordered"
       /\ Less(Theirs(p).clock, o.changes[p].clock)
InConflict(o, p) == ~TakesOurs(o, p) /\ ClassifyConflict(o.changes[p], Theirs(p)) = "conflict"
ConflictOf(o, p) ==
    [path |-> p, base |-> o.base[p], ours |-> o.changes[p], theirs |-> Theirs(p),
     class |-> InferConflictClass(o.base[p], o.changes[p], Theirs(p))]

\* merge: one conflict and nothing is published; without any, the tree becomes
\* the head.  A conflict already in the store is left as it stands there.
Merge(s) ==
    LET o == ovOverlay[s]
        found == {ConflictOf(o, p): p \in {q \in ContentChanged(o): InConflict(o, q)}}
        tree == [p \in OvPaths |-> IF p \in ContentChanged(o) /\ TakesOurs(o, p) THEN o.changes[p] ELSE ovHead[p]]
    IN  /\ o.state = "sealed"
        /\ IF found # {}
           THEN /\ ovConflicts' = [k \in DOMAIN ovConflicts \cup found |->
                       IF k \in DOMAIN ovConflicts THEN ovConflicts[k] ELSE [state |-> "quarantined", resolution |-> "none"]]
                /\ ovOverlay' = [ovOverlay EXCEPT ![s].state = "conflicted"]
                /\ UNCHANGED <<ovHead, ovRevisions>>
           ELSE /\ ovHead' = tree /\ ovRevisions' = ovRevisions \cup {tree}
                /\ ovOverlay' = [ovOverlay EXCEPT ![s].state = "merged"]
                /\ UNCHANGED ovConflicts
        /\ UNCHANGED ovSeen

\* ConflictStore.preview, from any state; its reader has then seen both sides.
Preview(k, s) ==
    /\ ovConflicts' = [ovConflicts EXCEPT ![k].state = "previewed"]
    /\ ovSeen' = [ovSeen EXCEPT ![s] = @ \cup {k.ours, k.theirs}]
    /\ UNCHANGED <<ovHead, ovRevisions, ovOverlay>>

Resolve(k, resolution) ==
    /\ ovConflicts[k].state = "previewed"
    /\ ovConflicts' = [ovConflicts EXCEPT ![k] = [state |-> "resolved", resolution |-> resolution]]
    /\ UNCHANGED <<ovHead, ovRevisions, ovOverlay, ovSeen>>

OvNext ==
    \/ \E s \in OvSessions, base \in ovRevisions: AllocateOverlay(s, base)
    \/ \E s \in OvSessions, p \in OvPaths, content \in OvContents \cup {Deleted}:
          \E merged \in ovSeen[s]: ApplyChange(s, p, content, merged)
    \/ \E s \in OvSessions: Seal(s) \/ RetainAfterExit(s) \/ Merge(s)
    \/ \E k \in DOMAIN ovConflicts: \/ \E s \in OvSessions: Preview(k, s)
                                    \/ \E r \in {"ours", "theirs"}: Resolve(k, r)

OvSpec == OvInit /\ [][OvNext]_ovVars

-----------------------------------------------------------------------------
\* A merge replaces only what the session's author has looked at, in the
\* revision it began from or in a conflict it previewed, or what says the same;
\* and an overlay that ends as merged has all its changes in the head.  The
\* two clocks that decide this travel through other sessions' merges.
MergesWhatWasSeen ==
    [][\A s \in OvSessions:
          (ovOverlay[s].state # "merged" /\ ovOverlay'[s].state = "merged") =>
              \A p \in ContentChanged(ovOverlay[s]):
                  /\ SameVersion(ovHead'[p], ovOverlay[s].changes[p])
                  /\ \/ SameVersion(ovHead'[p], Theirs(p))
                     \/ \E v \in ovSeen[s]: SameVersion(v, Theirs(p))]_ovVars
=============================================================================
