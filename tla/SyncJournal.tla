---------------------------- MODULE SyncJournal ----------------------------
(***************************************************************************)
(* The durable sync journal, src/sync/journal.ts (DurableSyncJournal).     *)
(*                                                                         *)
(* Several Cuna processes may try to write one journal directory.  A       *)
(* kernel lock held by a helper process (flock/lockf, or a named pipe on   *)
(* Windows) admits one writer; a lease file and a fence number recorded in *)
(* the metadata file tell a former writer from the present one; the        *)
(* records are lines of an append-only file, chained by checksum.          *)
(*                                                                         *)
(* Every await between two file operations is a place where another        *)
(* process may run or this one may die, so an open is seven steps and an   *)
(* append is two.  A checksum is modelled by what it determines: the       *)
(* record bodies it covers.                                                *)
(***************************************************************************)
EXTENDS Integers, Sequences

CONSTANTS
  Writers,      \* processes that may open the journal
  NoOne,        \* the lock is free
  Ops,          \* operation ids
  Intents,      \* what an operation id may stand for (base, digest, length)
  Faults,       \* which of FaultKinds the environment may inflict
  LeaseMs,      \* length of a lease, in clock units
  MaxNow,       \* bound: the clock stays within 0..MaxNow
  MaxOpens,     \* bound: number of times the lock is taken
  MaxLog        \* bound: number of append attempts that reach the file

FaultKinds == {"torn", "helper", "power"}

ASSUME JournalAssumption ==
  /\ NoOne \notin Writers
  /\ Faults \subseteq FaultKinds
  /\ LeaseMs \in Nat \ {0}
  /\ MaxNow \in Nat
  /\ MaxOpens \in Nat
  /\ MaxLog \in Nat

States == {"queued", "sending", "uncertain", "acknowledged", "applied", "conflicted"}

\* A record without its two checksums.  recordSequence is kept, and is one or more
\* (validRecordShape): inspection compares it with the line number.
Body == [op : Ops, intent : Intents, state : States, fence : Nat, seq : Nat \ {0}]

\* A line of journal.ndjson.  prev stands for previousChecksum: the bodies the
\* chain covers.  end is "nl" for a complete line, "open" for a complete
\* record whose newline never reached the disk, "bad" for bytes that do not
\* parse.
Line == [body : Body, prev : Seq(Body), end : {"nl", "open", "bad"}]

Lease == [owner : Nat, fence : Nat, expires : Nat]
NoLease == [owner |-> 0, fence |-> 0, expires |-> 0]

VARIABLES
  now,       \* the wall clock
  lock,      \* who holds the kernel lock
  meta,      \* metadata.lastFence (0: the file does not exist yet)
  lease,     \* writer.lease, or NoLease
  log,       \* journal.ndjson, a sequence of lines
  synced,    \* number of lines of log known to be on stable storage
  pc,        \* where each process is
  me,        \* per process: its ownerId, fence, open time and last clock reading
  mem,       \* per process: #records
  pend,      \* per process: the line an append is about to write
  opens,     \* lock acquisitions so far; the source of unique owner ids
  writes,    \* append attempts so far
  granted,   \* history: the fence of every successful open, in order
  acked      \* history: the lines whose append returned to its caller

disk == <<meta, lease, log, synced>>
hist == <<granted, acked>>
vars == <<now, lock, meta, lease, log, synced, pc, me, mem, pend, opens, writes, granted, acked>>

Opening == {"locked", "fenced", "leased", "proved", "stamped", "inspected"}
Working == {"open", "renewing", "writing"}
PCs == {"idle"} \cup Opening \cup Working

Me == [id : Nat, fence : Nat, observed : Nat, expires : Nat, last : Nat]
NoMe == [id |-> 0, fence |-> 0, observed |-> 0, expires |-> 0, last |-> 0]
NoLine == [body |-> [op |-> "none", intent |-> "none", state |-> "queued", fence |-> 0, seq |-> 0],
           prev |-> << >>, end |-> "bad"]

MaxOf(a, b) == IF a >= b THEN a ELSE b

-----------------------------------------------------------------------------
(* What the records allow.                                                 *)

allowedTransition(from, to) ==
  \/ from = "queued" /\ to \in {"sending", "conflicted"}
  \/ from = "sending" /\ to \in {"uncertain", "acknowledged", "conflicted"}
  \/ from = "uncertain" /\ to \in {"acknowledged", "conflicted"}
  \/ from = "acknowledged" /\ to \in {"applied", "conflicted"}

\* j is the last of the first n records of r that is about op.
LatestAt(r, n, op, j) ==
  /\ j \in 1..n
  /\ r[j].op = op
  /\ \A k \in (j + 1)..n : r[k].op # op

Knows(r, n, op) == \E j \in 1..n : r[j].op = op

\* Record b may follow the first n records of r: the conditions inspection
\* puts on a record's place in the history of its operation and on its fence.
Follows(r, n, b) ==
  /\ n > 0 => r[n].fence <= b.fence
  /\ ~Knows(r, n, b.op) => b.state = "queued"
  /\ \A j \in 1..n : LatestAt(r, n, b.op, j) =>
        /\ r[j].intent = b.intent
        /\ allowedTransition(r[j].state, b.state)

Bodies(l) == [i \in 1..Len(l) |-> l[i].body]

\* inspectSyncJournal accepts line i, having accepted the lines before it.
GoodLine(l, lastFence, i) ==
  /\ l[i].end # "bad"
  /\ l[i].body.seq = i
  /\ l[i].prev = [j \in 1..(i - 1) |-> l[j].body]
  /\ l[i].body.fence \in 1..lastFence
  /\ Follows(l[i].prev, i - 1, l[i].body)

\* inspectSyncJournal: not requiresReconciliation.
Clean(l, lastFence) == \A i \in 1..Len(l) : GoodLine(l, lastFence, i)

-----------------------------------------------------------------------------
Init ==
  /\ now = 0
  /\ lock = NoOne
  /\ meta = 0
  /\ lease = NoLease
  /\ log = << >>
  /\ synced = 0
  /\ pc = [w \in Writers |-> "idle"]
  /\ me = [w \in Writers |-> NoMe]
  /\ mem = [w \in Writers |-> << >>]
  /\ pend = [w \in Writers |-> NoLine]
  /\ opens = 0
  /\ writes = 0
  /\ granted = << >>
  /\ acked = {}

\* Date.now() is the host's clock: it advances, and an administrator or a time
\* service may set it back.
ClockMoves ==
  /\ \E t \in 0..MaxNow : t # now /\ now' = t
  /\ UNCHANGED <<lock, disk, pc, me, mem, pend, opens, writes, hist>>

Goto(w, label) == pc' = [pc EXCEPT ![w] = label]

\* A process that has ended, or let go of the journal, keeps nothing.
Forget(w) ==
  /\ pc' = [pc EXCEPT ![w] = "idle"]
  /\ me' = [me EXCEPT ![w] = NoMe]
  /\ mem' = [mem EXCEPT ![w] = << >>]
  /\ pend' = [pend EXCEPT ![w] = NoLine]

Unlock(w) == lock' = IF lock = w THEN NoOne ELSE lock

-----------------------------------------------------------------------------
(* DurableSyncJournal.open                                                 *)

\* acquireWriterAuthority: the helper reports READY only with the lock held.
\* A busy lock is refused and changes nothing.
Acquire(w) ==
  /\ pc[w] = "idle"
  /\ lock = NoOne
  /\ opens < MaxOpens
  /\ lock' = w
  /\ opens' = opens + 1
  /\ me' = [me EXCEPT ![w].id = opens + 1]
  /\ Goto(w, "locked")
  /\ UNCHANGED <<now, disk, mem, pend, writes, hist>>

\* Mutation of NextFence: the fence is taken from the lease file alone.
NextFenceFromLease == lease.fence + 1

\* The fence after the largest one either file has seen.
NextFence == MaxOf(meta, lease.fence) + 1

\* assertHeld, then the metadata and the previous lease are read.
ReadFence(w) ==
  /\ pc[w] = "locked"
  /\ lock = w
  /\ me' = [me EXCEPT ![w].fence = NextFence,
                      ![w].observed = now,
                      ![w].expires = now + LeaseMs]
  /\ Goto(w, "fenced")
  /\ UNCHANGED <<now, lock, disk, mem, pend, opens, writes, hist>>

LeaseOf(w, expires) == [owner |-> me[w].id, fence |-> me[w].fence, expires |-> expires]

WriteLease(w) ==
  /\ pc[w] = "fenced"
  /\ lease' = LeaseOf(w, me[w].expires)
  /\ Goto(w, "leased")
  /\ UNCHANGED <<now, lock, meta, log, synced, me, mem, pend, opens, writes, hist>>

ProveLease(w) ==
  /\ pc[w] = "leased"
  /\ lock = w
  /\ Goto(w, "proved")
  /\ UNCHANGED <<now, lock, disk, me, mem, pend, opens, writes, hist>>

StampMetadata(w) ==
  /\ pc[w] = "proved"
  /\ meta' = me[w].fence
  /\ Goto(w, "stamped")
  /\ UNCHANGED <<now, lock, lease, log, synced, me, mem, pend, opens, writes, hist>>

\* A journal that requires reconciliation is refused (OpenFails).
Inspect(w) ==
  /\ pc[w] = "stamped"
  /\ Clean(log, meta)
  /\ mem' = [mem EXCEPT ![w] = Bodies(log)]
  /\ Goto(w, "inspected")
  /\ UNCHANGED <<now, lock, disk, me, pend, opens, writes, hist>>

\* The last clock reading and assertHeld decide whether the open succeeds.
FinishOpen(w) ==
  /\ pc[w] = "inspected"
  /\ lock = w
  /\ now >= me[w].observed
  /\ now < me[w].expires
  /\ me' = [me EXCEPT ![w].last = now]
  /\ granted' = Append(granted, me[w].fence)
  /\ Goto(w, "open")
  /\ UNCHANGED <<now, lock, disk, mem, pend, opens, writes, acked>>

\* releaseLeaseFile: only the lease this owner wrote is removed.
ReleaseLease(w) ==
  lease' = IF lease.owner = me[w].id /\ lease.fence = me[w].fence THEN NoLease ELSE lease

\* Any step of open may throw: the lock is lost, the journal is not clean, the
\* clock is rejected, or the file system refuses.  The catch block lets go of
\* the lease, if it was written, and of the lock.
OpenFails(w) ==
  /\ pc[w] \in Opening
  /\ IF pc[w] \in {"locked", "fenced"} THEN UNCHANGED lease ELSE ReleaseLease(w)
  /\ Unlock(w)
  /\ Forget(w)
  /\ UNCHANGED <<now, meta, log, synced, opens, writes, hist>>

-----------------------------------------------------------------------------
(* An open journal                                                         *)

\* #assertLease passes: the helper is alive, the lease on disk is this
\* writer's, it has not expired, and the clock has not gone back.
AssertLease(w) ==
  /\ lock = w
  /\ lease.owner = me[w].id
  /\ lease.fence = me[w].fence
  /\ now >= me[w].last
  /\ now < lease.expires

ReadClock(w) == me' = [me EXCEPT ![w].last = now]

\* #assertLease throws on an expired lease of its own, having read the clock.
\* Its other refusals change nothing.
ObserveExpiry(w) ==
  /\ pc[w] = "open"
  /\ lock = w
  /\ lease.owner = me[w].id /\ lease.fence = me[w].fence
  /\ now >= me[w].last
  /\ now >= lease.expires
  /\ ReadClock(w)
  /\ UNCHANGED <<now, lock, disk, pc, mem, pend, opens, writes, hist>>

StartRenew(w) ==
  /\ pc[w] = "open"
  /\ AssertLease(w)
  /\ ReadClock(w)
  /\ Goto(w, "renewing")
  /\ UNCHANGED <<now, lock, disk, mem, pend, opens, writes, hist>>

\* A renewal whose clock reading is refused, or whose write fails, leaves the
\* lease as it was.
FinishRenew(w) ==
  /\ pc[w] = "renewing"
  /\ \/ /\ now >= me[w].last
        /\ lease' = LeaseOf(w, now + LeaseMs)
        /\ ReadClock(w)
     \/ UNCHANGED <<lease, me>>
  /\ Goto(w, "open")
  /\ UNCHANGED <<now, lock, meta, log, synced, mem, pend, opens, writes, hist>>

\* Mutation of StartWrite: records are numbered by the count of those before.
NumbersFromZero(w, op, intent, state) ==
  /\ AssertLease(w)
  /\ ReadClock(w)
  /\ writes < MaxLog
  /\ writes' = writes + 1
  /\ pend' = [pend EXCEPT ![w] =
        [body |-> [op |-> op, intent |-> intent, state |-> state,
                   fence |-> me[w].fence, seq |-> Len(mem[w])],
         prev |-> mem[w],
         end |-> "nl"]]
  /\ Goto(w, "writing")
  /\ UNCHANGED <<now, lock, disk, mem, opens, hist>>

\* #appendRecord up to the file write: the lease is asserted, then the record
\* is built from #records.
StartWrite(w, op, intent, state) ==
  /\ AssertLease(w)
  /\ ReadClock(w)
  /\ writes < MaxLog
  /\ writes' = writes + 1
  /\ pend' = [pend EXCEPT ![w] =
        [body |-> [op |-> op, intent |-> intent, state |-> state,
                   fence |-> me[w].fence, seq |-> Len(mem[w]) + 1],
         prev |-> mem[w],
         end |-> "nl"]]
  /\ Goto(w, "writing")
  /\ UNCHANGED <<now, lock, disk, mem, opens, hist>>

\* Mutation of AppendIntent: a recorded id is appended again.
AppendAgain(w, op, intent) ==
  /\ pc[w] = "open"
  /\ StartWrite(w, op, intent, "queued")

\* append: an id already recorded returns its record (or is refused, when it
\* stands for something else) and writes nothing.
AppendIntent(w, op, intent) ==
  /\ pc[w] = "open"
  /\ ~Knows(mem[w], Len(mem[w]), op)
  /\ StartWrite(w, op, intent, "queued")

\* transition: to the state it is already in, an operation writes nothing.
Transition(w, op, state) ==
  /\ pc[w] = "open"
  /\ \E j \in 1..Len(mem[w]) :
       /\ LatestAt(mem[w], Len(mem[w]), op, j)
       /\ allowedTransition(mem[w][j].state, state)
       /\ StartWrite(w, op, mem[w][j].intent, state)

\* The file after w's line is appended with the given end.  A line with no
\* newline before it is glued to it, and the two do not parse.
LogWith(w, end) ==
  IF log # << >> /\ log[Len(log)].end = "open"
  THEN [log EXCEPT ![Len(log)].end = "bad"]
  ELSE Append(log, [pend[w] EXCEPT !.end = end])

Ends == {"nl"} \cup (IF "torn" \in Faults THEN {"open", "bad"} ELSE {})

\* Mutation of FinishWrite: the call returns without waiting for fsync.
AcknowledgeUnsynced(w) ==
  /\ pc[w] = "writing"
  /\ log' = LogWith(w, "nl")
  /\ mem' = [mem EXCEPT ![w] = Append(@, pend[w].body)]
  /\ acked' = acked \cup {pend[w]}
  /\ pend' = [pend EXCEPT ![w] = NoLine]
  /\ Goto(w, "open")
  /\ UNCHANGED <<now, lock, meta, lease, synced, me, opens, writes, granted>>

\* Write and fsync succeed, the record joins #records and the call returns.
FinishWrite(w) ==
  /\ pc[w] = "writing"
  /\ log' = LogWith(w, "nl")
  /\ synced' = Len(log')
  /\ mem' = [mem EXCEPT ![w] = Append(@, pend[w].body)]
  /\ acked' = acked \cup {pend[w]}
  /\ pend' = [pend EXCEPT ![w] = NoLine]
  /\ Goto(w, "open")
  /\ UNCHANGED <<now, lock, meta, lease, me, opens, writes, granted>>

\* The write or the fsync throws: the caller learns of a failure, #records is
\* unchanged, and some of the line may be in the file.
WriteThrows(w) ==
  /\ "torn" \in Faults
  /\ pc[w] = "writing"
  /\ \/ UNCHANGED log
     \/ \E end \in Ends : log' = LogWith(w, end)
  /\ pend' = [pend EXCEPT ![w] = NoLine]
  /\ Goto(w, "open")
  /\ UNCHANGED <<now, lock, meta, lease, synced, me, mem, opens, writes, hist>>

\* close: the lease this writer holds is removed, then the lock.
Close(w) ==
  /\ pc[w] = "open"
  /\ ReleaseLease(w)
  /\ Unlock(w)
  /\ Forget(w)
  /\ UNCHANGED <<now, meta, log, synced, opens, writes, hist>>

-----------------------------------------------------------------------------
(* Failures                                                                *)

\* The process dies.  The helper sees the end of its pipe and the lock is
\* free; a line being written is in the file or not, whole unless "torn".
Crash(w) ==
  /\ pc[w] # "idle"
  /\ \/ UNCHANGED log
     \/ pc[w] = "writing" /\ \E end \in Ends : log' = LogWith(w, end)
  /\ Unlock(w)
  /\ Forget(w)
  /\ UNCHANGED <<now, meta, lease, synced, opens, writes, hist>>

\* The lock helper alone is killed: the kernel frees the lock while the writer
\* still runs, and learns of it at its next assertHeld.
HelperDies(w) ==
  /\ "helper" \in Faults
  /\ lock = w
  /\ lock' = NoOne
  /\ UNCHANGED <<now, disk, pc, me, mem, pend, opens, writes, hist>>

\* The host loses power.  Records are fsynced, the lease and the metadata are
\* only renamed into place, so an earlier content of those may be what is left.
PowerLoss ==
  /\ "power" \in Faults
  /\ \E w \in Writers : pc[w] # "idle"
  /\ \E n \in synced..Len(log) : log' = SubSeq(log, 1, n)
  /\ \E f \in 0..meta : meta' = f
  /\ lease' \in {lease, NoLease}
  /\ lock' = NoOne
  /\ pc' = [w \in Writers |-> "idle"]
  /\ me' = [w \in Writers |-> NoMe]
  /\ mem' = [w \in Writers |-> << >>]
  /\ pend' = [w \in Writers |-> NoLine]
  /\ UNCHANGED <<now, synced, opens, writes, hist>>

-----------------------------------------------------------------------------
Step(w) ==
  \/ Acquire(w) \/ ReadFence(w) \/ WriteLease(w) \/ ProveLease(w)
  \/ StampMetadata(w) \/ Inspect(w) \/ FinishOpen(w) \/ OpenFails(w)
  \/ ObserveExpiry(w) \/ StartRenew(w) \/ FinishRenew(w)
  \/ \E op \in Ops, intent \in Intents : AppendIntent(w, op, intent)
  \/ \E op \in Ops, state \in States : Transition(w, op, state)
  \/ FinishWrite(w) \/ WriteThrows(w) \/ Close(w)
  \/ Crash(w) \/ HelperDies(w)

Next == ClockMoves \/ PowerLoss \/ \E w \in Writers : Step(w)

Spec == Init /\ [][Next]_vars

-----------------------------------------------------------------------------
(* Properties                                                              *)

\* Types, and the shape of the history variables: a line that is written is a
\* record validRecordShape accepts, with the number of its place in the file.
TypeOK ==
  /\ now \in Nat
  /\ lock \in Writers \cup {NoOne}
  /\ meta \in Nat
  /\ lease \in Lease
  /\ log \in Seq(Line)
  /\ synced \in 0..Len(log)
  /\ pc \in [Writers -> PCs]
  /\ me \in [Writers -> Me]
  /\ mem \in [Writers -> Seq(Body)]
  /\ pend \in [Writers -> Line \cup {NoLine}]
  /\ opens \in Nat
  /\ writes \in Nat
  /\ granted \in Seq(Nat)
  /\ acked \subseteq Line

\* The journal never locks its owner out: whatever the interleaving of opens,
\* appends, renewals and process deaths, inspectSyncJournal accepts the file,
\* so the next open is not refused.  Only torn writes, a killed lock helper or
\* a power loss can end that.
Readable == Clean(log, meta)

\* A fence is handed out once, and each is larger than the ones before it: a
\* process death at any point of open or close cannot bring a fence back.
FencesIncrease ==
  \A i, j \in 1..Len(granted) : i < j => granted[i] < granted[j]

\* What an append acknowledged is not lost behind the caller's back: as long as
\* inspection accepts the file, every acknowledged record is in it, also after
\* torn writes, stale writers and power losses.
AckedSurvives ==
  Clean(log, meta) => acked \subseteq {log[i] : i \in 1..Len(log)}

\* The writer that holds the lock and an open journal decides from a full
\* view: its #records hold every acknowledged record, so an operation a former
\* process marked sending is never seen as queued and sent blindly.
OwnerSeesAcked ==
  \A w \in Writers :
    lock = w /\ pc[w] \in Working =>
      \A l \in acked : \E i \in 1..Len(mem[w]) : mem[w][i] = l.body

\* An operation id stands for one intent, and its recorded states follow the
\* transition table, in the view of every writer.
HistoriesLawful ==
  \A w \in Writers : \A i \in 1..Len(mem[w]) :
    /\ mem[w][i].seq = i
    /\ Follows(mem[w], i - 1, mem[w][i])
=============================================================================
