--------------------------- MODULE IntentJournal ----------------------------
(***************************************************************************)
(* The daemon's durable state (daemon/journal.ts, daemon/lease.ts): the    *)
(* intent journal, a document replaced as a whole by write, fsync, rename  *)
(* and directory fsync, and the fenced leases, which live in memory and    *)
(* end with the process.  Callers are anyone who holds the two objects;    *)
(* the journal does not order them.  On Windows there is no directory      *)
(* fsync: its failure is swallowed and the save goes on.                   *)
(***************************************************************************)
EXTENDS Naturals, FiniteSets

CONSTANTS
    DmPlatform,    \* process.platform, as far as save asks: "posix" or "win32"
    DmCallers,     \* calls of the journal that may overlap
    DmOwners,      \* who asks for the writer lease
    DmIntents,     \* intent ids
    DmEntries,     \* MAX_JOURNAL_ENTRIES
    DmClock,       \* bound: ticks of the clock
    DmTtl,         \* ttlMs
    DmLives        \* bound: processes the daemon has been

ASSUME JournalPlatform == DmPlatform \in {"posix", "win32"}

ASSUME JournalBounds == {DmEntries, DmClock, DmTtl, DmLives} \subseteq Nat \ {0}

VARIABLES
    dmFile,        \* the document on disk: intent id -> record
    dmShadow,      \* the documents before the renames no directory fsync covers yet
    dmMemory,      \* #document
    dmCall,        \* caller -> the #persist it waits for
    dmLife,        \* ghost: the process, counted
    dmLease, dmLastGeneration, dmNow,
    dmTokens,      \* ghost: every fence token handed out, with its life and turn
    dmTurn,        \* ghost: leases granted so far
    dmAcked,       \* ghost: intent id -> the record a caller was last given
    dmUnsure,      \* ghost: #document counts on a rename no directory fsync covers
    dmUndone       \* ghost: a power loss has undone such a rename

dmLeases == <<dmLease, dmLastGeneration, dmNow, dmTokens, dmTurn>>
dmJournal == <<dmFile, dmShadow, dmMemory, dmCall, dmAcked, dmUnsure, dmUndone>>
dmVars == <<dmFile, dmShadow, dmMemory, dmCall, dmLife, dmLease, dmLastGeneration, dmNow, dmTokens, dmTurn, dmAcked, dmUnsure, dmUndone>>

NoEntries == [i \in {} |-> <<>>]
DmNoLease == [owner |-> "none", generation |-> 0, expiresAt |-> 0, released |-> TRUE]
NoCall == [step |-> "none", next |-> NoEntries, id |-> "none"]

DmInit ==
    /\ dmFile = NoEntries /\ dmShadow = {} /\ dmMemory = NoEntries
    /\ dmCall = [c \in DmCallers |-> NoCall] /\ dmAcked = NoEntries
    /\ dmLife = 1 /\ dmLease = DmNoLease /\ dmLastGeneration = 0 /\ dmNow = 0
    /\ dmTokens = {} /\ dmTurn = 0 /\ dmUnsure = FALSE /\ dmUndone = FALSE

-----------------------------------------------------------------------------
\* FencedLeaseStore.

LeaseActive == ~dmLease.released /\ dmLease.expiresAt > dmNow
IsCurrent(t) == ~dmLease.released /\ dmLease.owner = t.owner /\ dmLease.generation = t.generation
PassesAssertWriter(t) == IsCurrent(t) /\ dmLease.expiresAt > dmNow

\* A store that numbers an expired lease anew only when another process starts.
ReusesGeneration == IF dmLastGeneration = 0 THEN 1 ELSE dmLastGeneration
NextGeneration == dmLastGeneration + 1

\* acquire: an owner that still holds it is given the same lease again.
AcquireLease(o) ==
    /\ ~LeaseActive
    /\ dmTurn < DmClock
    /\ dmLease' = [owner |-> o, generation |-> NextGeneration, expiresAt |-> dmNow + DmTtl, released |-> FALSE]
    /\ dmLastGeneration' = NextGeneration
    /\ dmTurn' = dmTurn + 1
    /\ dmTokens' = dmTokens \cup {[owner |-> o, generation |-> NextGeneration, life |-> dmLife, turn |-> dmTurn + 1]}
    /\ UNCHANGED <<dmNow, dmLife>> /\ UNCHANGED dmJournal

RenewLease(t) ==
    /\ PassesAssertWriter(t)
    /\ dmLease' = [dmLease EXCEPT !.expiresAt = dmNow + DmTtl]
    /\ UNCHANGED <<dmLastGeneration, dmNow, dmTokens, dmTurn, dmLife>> /\ UNCHANGED dmJournal

DmReleaseLease(t) ==
    /\ PassesAssertWriter(t)
    /\ dmLease' = [dmLease EXCEPT !.released = TRUE]
    /\ UNCHANGED <<dmLastGeneration, dmNow, dmTokens, dmTurn, dmLife>> /\ UNCHANGED dmJournal

ClockTicks ==
    /\ dmNow < DmClock
    /\ dmNow' = dmNow + 1
    /\ UNCHANGED <<dmLease, dmLastGeneration, dmTokens, dmTurn, dmLife>> /\ UNCHANGED dmJournal

-----------------------------------------------------------------------------
\* DurableIntentJournal.

Dispositions == {"committed", "rejected"}
Undecided == {"recorded", "dispatched", "uncertain"}
\* markDispatched, markUncertain, recordDisposition: the states each may leave.
MayLeave(to) ==
    CASE to = "dispatched" -> {"recorded"}
      [] to = "uncertain" -> {"recorded", "dispatched"}
      [] to \in Dispositions -> Undecided

NewIntent(payload, generation) == [payload |-> payload, generation |-> generation, state |-> "recorded"]
Replaced(document, id, record) == [i \in DOMAIN document \cup {id} |-> IF i = id THEN record ELSE document[i]]

Resolves(c, id) ==
    /\ dmAcked' = Replaced(dmAcked, id, dmMemory[id])
    /\ UNCHANGED <<dmFile, dmShadow, dmMemory, dmCall, dmUnsure, dmUndone>>
Persists(c, id, record) ==
    /\ dmCall' = [dmCall EXCEPT ![c] = [step |-> "write", next |-> Replaced(dmMemory, id, record), id |-> id]]
    /\ UNCHANGED <<dmFile, dmShadow, dmMemory, dmAcked, dmUnsure, dmUndone>>

\* recordIntent: an id already bound to the same intent is answered with its
\* record, one bound to another refused; a full journal refuses.
RecordIntent(c, id, payload, t) ==
    /\ dmCall[c].step = "none"
    /\ \/ /\ id \in DOMAIN dmMemory
          /\ dmMemory[id].payload = payload /\ dmMemory[id].generation = t.generation
          /\ Resolves(c, id)
       \/ /\ id \notin DOMAIN dmMemory
          /\ Cardinality(DOMAIN dmMemory) < DmEntries
          /\ Persists(c, id, NewIntent(payload, t.generation))
    /\ UNCHANGED dmLife /\ UNCHANGED dmLeases

\* #transition: a state already reached is answered as it stands.
MarkIntent(c, id, to) ==
    /\ dmCall[c].step = "none" /\ id \in DOMAIN dmMemory
    /\ \/ /\ dmMemory[id].state \in MayLeave(to)
          /\ Persists(c, id, [dmMemory[id] EXCEPT !.state = to])
       \/ /\ dmMemory[id].state \notin MayLeave(to) /\ dmMemory[id].state = to
          /\ Resolves(c, id)
    /\ UNCHANGED dmLife /\ UNCHANGED dmLeases

\* AtomicFileJournalStorage.save: the temporary file is written and synced, then
\* renamed over the document.  Nothing shows until the rename.
RenameDocument(c) ==
    /\ dmCall[c].step = "write"
    /\ dmFile' = dmCall[c].next /\ dmShadow' = dmShadow \cup {dmFile}
    /\ dmCall' = [dmCall EXCEPT ![c].step = "sync"]
    /\ UNCHANGED <<dmMemory, dmAcked, dmUnsure, dmUndone, dmLife>> /\ UNCHANGED dmLeases

\* The document is admitted and the caller answered.
Admits(c) ==
    /\ dmMemory' = dmCall[c].next
    /\ dmAcked' = Replaced(dmAcked, dmCall[c].id, dmCall[c].next[dmCall[c].id])
    /\ dmCall' = [dmCall EXCEPT ![c] = NoCall]
    /\ UNCHANGED <<dmFile, dmUndone, dmLife>> /\ UNCHANGED dmLeases

\* A journal that answers once the file is written, before it is renamed.
AdmitsEarly(c) ==
    /\ dmCall[c].step \in {"write", "sync"}
    /\ Admits(c) /\ UNCHANGED <<dmShadow, dmUnsure>>

\* The directory is synced; or it cannot be, and on Windows the save returns all the same.
AdmitDocument(c) ==
    /\ dmCall[c].step = "sync"
    /\ Admits(c)
    /\ \/ dmShadow' = {} /\ dmUnsure' = FALSE
       \/ DmPlatform = "win32" /\ UNCHANGED dmShadow /\ dmUnsure' = TRUE

\* The write fails, or the directory fsync where its failure is thrown: the caller
\* sees an error and #document stays, whatever the file holds by then.
SaveFails(c) ==
    /\ dmCall[c].step = "write" \/ (dmCall[c].step = "sync" /\ DmPlatform # "win32")
    /\ dmCall' = [dmCall EXCEPT ![c] = NoCall]
    /\ UNCHANGED <<dmFile, dmShadow, dmMemory, dmAcked, dmUnsure, dmUndone, dmLife>> /\ UNCHANGED dmLeases

\* DurableIntentJournal.open reads what there is; the leases start over.
OpensOn(document) ==
    /\ dmLife < DmLives
    /\ dmLife' = dmLife + 1
    /\ dmFile' = document /\ dmMemory' = document
    /\ dmCall' = [c \in DmCallers |-> NoCall]
    /\ dmLease' = DmNoLease /\ dmLastGeneration' = 0
    /\ UNCHANGED <<dmNow, dmTokens, dmTurn, dmAcked>>

\* The process ends; the directory holds what it held.  The next one counts on the
\* document it loads, whether or not its rename was ever synced.
RestartDaemon == OpensOn(dmFile) /\ dmUnsure' = (dmShadow # {}) /\ UNCHANGED <<dmShadow, dmUndone>>

\* The host loses power: any rename that no directory fsync covered may be undone.
PowerLost(document) ==
    /\ OpensOn(document)
    /\ dmShadow' = {} /\ dmUnsure' = FALSE
    /\ dmUndone' = (dmUndone \/ (dmUnsure /\ document # dmFile))

DmNext ==
    \/ \E o \in DmOwners: AcquireLease(o)
    \/ \E t \in dmTokens: RenewLease(t) \/ DmReleaseLease(t)
    \/ ClockTicks
    \/ \E c \in DmCallers, id \in DmIntents, payload \in {"p", "q"}, t \in dmTokens: RecordIntent(c, id, payload, t)
    \/ \E c \in DmCallers, id \in DmIntents, to \in {"dispatched", "uncertain", "committed", "rejected"}: MarkIntent(c, id, to)
    \/ \E c \in DmCallers: RenameDocument(c) \/ AdmitDocument(c) \/ SaveFails(c)
    \/ RestartDaemon
    \/ \E document \in {dmFile} \cup dmShadow: PowerLost(document)

DmSpec == DmInit /\ [][DmNext]_dmVars

-----------------------------------------------------------------------------
Rank == [recorded |-> 0, dispatched |-> 1, uncertain |-> 2, committed |-> 3, rejected |-> 3]

\* What the journal has answered is in the file, through every failed save, crash
\* and power loss: the same intent under the same fence, no earlier in its life,
\* and a disposition as it was ("Admission occurs only after the storage boundary
\* confirms durability").  Where the journal counts on a rename that no directory
\* fsync has covered (any save on Windows; elsewhere the document left by a process
\* that ended in between, which load does not sync), it is so until a power loss has
\* undone that rename.
AckedIntentKept ==
    ~dmUndone =>
        \A id \in DOMAIN dmAcked:
            /\ id \in DOMAIN dmFile
            /\ dmFile[id].payload = dmAcked[id].payload /\ dmFile[id].generation = dmAcked[id].generation
            /\ \/ dmFile[id].state = dmAcked[id].state
               \/ Rank[dmFile[id].state] > Rank[dmAcked[id].state]

\* A fence token that passes assertWriter belongs to whoever was granted the
\* lease last, and within one life of the daemon to that very grant: a writer
\* that slept through its lease never writes again on the old token.
OnlyLatestWriter ==
    \A t \in dmTokens:
        PassesAssertWriter(t) =>
            /\ \A u \in dmTokens: u.turn = dmTurn => u.owner = t.owner
            /\ t.life = dmLife => t.turn = dmTurn
=============================================================================
