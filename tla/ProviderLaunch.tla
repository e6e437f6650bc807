--------------------------- MODULE ProviderLaunch ---------------------------
(***************************************************************************)
(* The second half of `cuna <agent> PATH`: an AgentSession is selected or  *)
(* launched (journey/orchestrator.ts).  A launch is a recorded intent with *)
(* an operation identity (journey/provider-launch-intent.ts) that is sent, *)
(* and sent again, under the journal's writer lease                        *)
(* (journey/remote-workspace.ts: createPublishedProviderSessionV2).        *)
(*                                                                         *)
(* Commands for one Workspace on one Machine run side by side; each may be *)
(* interrupted, lose its lease or end at any step.  The service (external) *)
(* makes one session per operation identity; it may refuse before it looks *)
(* the identity up, and a request that was never answered may land later.  *)
(***************************************************************************)
EXTENDS Naturals, Sequences, FiniteSets, Selection

CONSTANTS
    PlRuns,       \* commands that can be running at the same time
    PlStarts,     \* bound: commands started in all
    PlPosts,      \* bound: requests sent in all
    PlHistory     \* how many launches a journal holds: 1024 in the code

Digests == {"d1", "d2"}     \* Workspace version and preset

VARIABLES
    plLog,      \* the journal: [op, digest, state] records, oldest first
    plWriter,   \* the run that holds the writer lease, or "free"
    plHints,    \* sessions.json: the launches whose session was noted
    plSession,  \* the service: [1..PlHistory -> "none", "live", "ended"]
    plFlying,   \* [1..PlHistory -> Nat]: requests that have not landed
    plRun,      \* the runs
    plCount,    \* [starts, posts]
    plTwin      \* a launch nobody confirmed was recorded beside another

plVars == <<plLog, plWriter, plHints, plSession, plFlying, plRun, plCount, plTwin>>

Resting == [pc |-> "idle", digest |-> "d1", seen |-> <<>>, act |-> "none", asked |-> FALSE,
            op |-> 0, retried |-> FALSE]

PlInit ==
    /\ plLog = <<>> /\ plWriter = "free" /\ plHints = {}
    /\ plSession = [o \in 1..PlHistory |-> "none"]
    /\ plFlying = [o \in 1..PlHistory |-> 0]
    /\ plRun = [r \in PlRuns |-> Resting]
    /\ plCount = [starts |-> 0, posts |-> 0]
    /\ plTwin = FALSE

-----------------------------------------------------------------------------
(* The journal. *)

Launches(log) == {log[i].op : i \in 1..Len(log)}

\* readLaunchRecords: the latest record of each launch.
Latest(log, op) == log[CHOOSE i \in 1..Len(log): log[i].op = op /\ \A j \in i+1..Len(log): log[j].op # op]

Note(op, digest, state) == plLog' = Append(plLog, [op |-> op, digest |-> digest, state |-> state])

Moves(r, pc) == plRun' = [plRun EXCEPT ![r].pc = pc]
Stops(r) == plRun' = [plRun EXCEPT ![r] = [Resting EXCEPT !.pc = "done"]]
Frees(r) == plWriter' = IF plWriter = r THEN "free" ELSE plWriter

-----------------------------------------------------------------------------
(* The service. *)

\* A request that lands makes the session, once.
Land(op) == plSession' = IF plSession[op] = "none" THEN [plSession EXCEPT ![op] = "live"] ELSE plSession

LateRequest ==
    /\ \E op \in 1..PlHistory:
         /\ plFlying[op] > 0
         /\ plFlying' = [plFlying EXCEPT ![op] = @ - 1]
         /\ Land(op) \/ UNCHANGED plSession
    /\ UNCHANGED <<plLog, plWriter, plHints, plRun, plCount, plTwin>>

SessionEnds ==
    /\ \E op \in 1..PlHistory: plSession[op] = "live" /\ plSession' = [plSession EXCEPT ![op] = "ended"]
    /\ UNCHANGED <<plLog, plWriter, plHints, plFlying, plRun, plCount, plTwin>>

-----------------------------------------------------------------------------
(* What to launch. *)

\* observeAgentSessions: a live session of this Workspace as it may be seen.
SeenSession(op, process, attachment) ==
    [id |-> op, process |-> process, attachment |-> IF process = "starting" THEN "unknown" ELSE attachment]

\* planAgentSessionSelection: only a plan to create goes on.
LaunchStart(r) ==
    /\ plRun[r].pc \in {"idle", "done"} /\ plCount.starts < PlStarts
    /\ plCount' = [plCount EXCEPT !.starts = @ + 1]
    /\ \E forced \in BOOLEAN, process \in {"starting", "running"},
          attachment \in {"detached", "attached", "unknown"}, digest \in Digests:
         LET live == {op \in 1..PlHistory: plSession[op] = "live"}
             plan == PlanAgentSessionSelection(forced, {SeenSession(op, process, attachment) : op \in live})
         IN /\ plan.kind = "create"
            /\ plRun' = [plRun EXCEPT ![r] = [Resting EXCEPT !.pc = "decide", !.digest = digest]]
    /\ UNCHANGED <<plLog, plWriter, plHints, plSession, plFlying, plTwin>>

\* decide: the records are read, and the person asked, before the lease is
\* taken.  A launch without an end is sent again or stands in the way; one
\* that was applied is resumed unless the person confirms another.
Decide(r) ==
    LET launched == Launches(plLog)
        pending == {op \in launched: Latest(plLog, op).state \notin {"applied", "conflicted"}}
        applied == {op \in launched: Latest(plLog, op).state = "applied"}
        resolved == CHOOSE op \in applied: \A q \in applied: q <= op
        asks == pending = {} /\ applied # {}
        ended == resolved \in plHints /\ plSession[resolved] = "ended"
        Go(act, op, asked) ==
            plRun' = [plRun EXCEPT ![r] = [@ EXCEPT !.pc = "open", !.seen = plLog, !.act = act,
                                                    !.op = op, !.asked = asked]]
        full == Cardinality(launched) >= PlHistory
    IN /\ plRun[r].pc = "decide"
       /\ \/ Stops(r)                    \* a read fails, or the person leaves
          \/ /\ Cardinality(pending) = 1
             /\ \E op \in pending: Latest(plLog, op).digest = plRun[r].digest /\ Go("pending", op, FALSE)
          \/ /\ asks /\ ~ended /\ Latest(plLog, resolved).digest = plRun[r].digest
             /\ Go("resume", resolved, FALSE)
          \/ asks /\ ~full /\ Go("new", 0, TRUE)
          \/ pending = {} /\ applied = {} /\ ~full /\ Go("new", 0, FALSE)
       /\ UNCHANGED <<plLog, plWriter, plHints, plSession, plFlying, plCount, plTwin>>

IgnoresRecords(r) == TRUE

\* The records are unchanged under the lease.
SameRecords(r) == plLog = plRun[r].seen

\* Another writer, or other records: refused, nothing sent.
OpenRefused(r) ==
    /\ plRun[r].pc = "open" /\ (plWriter # "free" \/ ~SameRecords(r))
    /\ Stops(r)
    /\ UNCHANGED <<plLog, plWriter, plHints, plSession, plFlying, plCount, plTwin>>

OpenLaunch(r) ==
    LET op == Cardinality(Launches(plLog)) + 1
        state == Latest(plLog, plRun[r].op).state
    IN /\ plRun[r].pc = "open" /\ plWriter = "free" /\ SameRecords(r)
       /\ plWriter' = r
       /\ \/ /\ plRun[r].act = "new"
             /\ Note(op, plRun[r].digest, "queued")
             /\ plRun' = [plRun EXCEPT ![r].pc = "mark", ![r].op = op, ![r].seen = <<>>]
             /\ plTwin' = (plTwin \/ (/\ ~plRun[r].asked
                                      /\ \E q \in Launches(plLog): plSession[q] # "none" \/ plFlying[q] > 0))
          \/ /\ plRun[r].act # "new"
             /\ plRun' = [plRun EXCEPT ![r].seen = <<>>,
                            ![r].pc = IF plRun[r].act = "pending" /\ state = "queued" THEN "mark" ELSE "send"]
             /\ UNCHANGED <<plLog, plTwin>>
       /\ UNCHANGED <<plHints, plSession, plFlying, plCount>>

MarkSending(r) ==
    /\ plRun[r].pc = "mark"
    /\ Note(plRun[r].op, plRun[r].digest, "sending")
    /\ Moves(r, "send")
    /\ UNCHANGED <<plWriter, plHints, plSession, plFlying, plCount, plTwin>>

-----------------------------------------------------------------------------
(* createPublishedProviderSessionV2 under a renewed lease. *)

SendLaunch(r) ==
    /\ plRun[r].pc = "send" /\ plCount.posts < PlPosts
    /\ plCount' = [plCount EXCEPT !.posts = @ + 1]
    /\ plFlying' = [plFlying EXCEPT ![plRun[r].op] = @ + 1]
    /\ Moves(r, "posted")
    /\ UNCHANGED <<plLog, plWriter, plHints, plSession, plTwin>>

Answered(r) == plRun[r].pc = "posted" /\ plFlying[plRun[r].op] > 0 /\ plFlying' = [plFlying EXCEPT ![plRun[r].op] = @ - 1]

LaunchReceipt(r) ==
    /\ Answered(r)
    /\ Land(plRun[r].op)
    /\ Moves(r, "settle")
    /\ UNCHANGED <<plLog, plWriter, plHints, plCount, plTwin>>

\* agent_session_agent_preparing: nothing was created by this request; it is
\* sent again until the wait is over.
LaunchPreparing(r) ==
    /\ Answered(r)
    /\ \/ Moves(r, "send") /\ UNCHANGED plWriter
       \/ Stops(r) /\ Frees(r)
    /\ UNCHANGED <<plLog, plHints, plSession, plCount, plTwin>>

SettlesAnyFirst(r) == plRun[r].act = "new"

\* A definitive refusal ends the launch only when it is the answer to all that
\* was ever sent of it (replayedLaunchRefusal).
RefusalSettles(r) == plRun[r].act = "new" /\ ~plRun[r].retried

LaunchRefused(r) ==
    /\ Answered(r)
    /\ Stops(r) /\ Frees(r)
    /\ \/ RefusalSettles(r) /\ Note(plRun[r].op, plRun[r].digest, "conflicted")
       \/ UNCHANGED plLog
    /\ UNCHANGED <<plHints, plSession, plCount, plTwin>>

\* Any other answer: the outcome is not known, and the record stays.
LaunchUnproven(r) ==
    /\ Answered(r)
    /\ Land(plRun[r].op) \/ UNCHANGED plSession
    /\ Stops(r) /\ Frees(r)
    /\ UNCHANGED <<plLog, plHints, plCount, plTwin>>

\* No answer within the budget: once more under the same identity.
LaunchSilent(r) ==
    /\ plRun[r].pc = "posted"
    /\ IF plRun[r].retried THEN Stops(r) /\ Frees(r)
       ELSE plRun' = [plRun EXCEPT ![r].pc = "send", ![r].retried = TRUE] /\ UNCHANGED plWriter
    /\ UNCHANGED <<plLog, plHints, plSession, plFlying, plCount, plTwin>>

\* The session is recorded, its id noted (a hint that may not be written), and
\* a resumed session that has ended is refused.
SettleLaunch(r) ==
    LET op == plRun[r].op
        digest == Latest(plLog, op).digest
        Rec(state) == [op |-> op, digest |-> digest, state |-> state]
    IN /\ plRun[r].pc = "settle"
       /\ Stops(r) /\ Frees(r)
       /\ plHints' \in {plHints, plHints \cup {op}}
       /\ IF plRun[r].act = "resume" THEN UNCHANGED plLog
          ELSE \/ plLog' = plLog \o (IF Latest(plLog, op).state = "acknowledged" THEN <<>> ELSE <<Rec("acknowledged")>>)
                                 \o <<Rec("applied")>>
               \/ /\ Latest(plLog, op).state # "acknowledged"          \* ends in between
                  /\ plLog' = Append(plLog, Rec("acknowledged"))
                  /\ plHints' = plHints
       /\ UNCHANGED <<plSession, plFlying, plCount, plTwin>>

\* The lease is lost (launch_lease_unavailable), the person interrupts, or the
\* process ends: nothing more is recorded.
LaunchBroken(r) ==
    /\ plRun[r].pc \notin {"idle", "done"}
    /\ Stops(r) /\ Frees(r)
    /\ UNCHANGED <<plLog, plHints, plSession, plFlying, plCount, plTwin>>

PlNext ==
    \/ LateRequest \/ SessionEnds
    \/ \E r \in PlRuns:
         \/ LaunchStart(r) \/ Decide(r) \/ OpenRefused(r) \/ OpenLaunch(r) \/ MarkSending(r) \/ SendLaunch(r)
         \/ LaunchReceipt(r) \/ LaunchPreparing(r) \/ LaunchRefused(r) \/ LaunchUnproven(r) \/ LaunchSilent(r)
         \/ SettleLaunch(r) \/ LaunchBroken(r)

PlSpec == PlInit /\ [][PlNext]_plVars

-----------------------------------------------------------------------------
\* A launch recorded as refused started nothing and never will: "nothing was
\* created, so the record is settled" (withProviderLaunchIntent).
RefusedStartedNothing ==
    \A op \in Launches(plLog):
        Latest(plLog, op).state = "conflicted" => plSession[op] = "none" /\ plFlying[op] = 0

\* No second launch is recorded beside one that made or may still make a
\* session, unless a person was asked and said so (decide, and the re-read of
\* the records under the lease).
NoUnaskedTwin == ~plTwin

-----------------------------------------------------------------------------
(***************************************************************************)
(* The waits of a journey: for a Machine to run and for a session to take  *)
(* a terminal (journey/api-effects.ts), and for a remote Workspace and its *)
(* session (journey/remote-workspace.ts), each under the deadline of its   *)
(* phase (journey/wait-policy.ts).  A read whose own budget elapses is     *)
(* asked again; the deadline only stops a read from being asked.           *)
(*                                                                         *)
(* Time is in ticks.  A read takes up to Budget of them and is then        *)
(* abandoned; the state waited for moves on by itself meanwhile.           *)
(***************************************************************************)

CONSTANTS Deadline, Budget, Pause, Poll      \* of a phase, of a read, between reads

ASSUME WaitTimes == {Deadline, Budget, Pause, Poll} \subseteq Nat

Waits == {"machine", "session", "remote_workspace", "remote_session"}

VARIABLES
    rwKind,     \* which wait this is
    rwPc,       \* "check", "read", "authority", "sleep", "done"
    rwNow,      \* ticks since the phase began
    rwRemote,   \* what the service knows: "pending", "ready", "gone", "verdict"
    rwSeat,     \* the terminal authority of a ready session: "later", "granted", "refused"
    rwEnd       \* how the wait ended

rwVars == <<rwKind, rwPc, rwNow, rwRemote, rwSeat, rwEnd>>

RwInit ==
    /\ rwKind = "none" /\ rwPc = "start" /\ rwNow = 0
    /\ rwRemote = "pending" /\ rwSeat = "later" /\ rwEnd = "none"

\* startJourneyDeadline
Elapsed(t) == t >= Deadline

Finishes(end) == rwPc' = "done" /\ rwEnd' = end
Continues(pc) == rwPc' = pc /\ UNCHANGED rwEnd

BeginWait ==
    /\ rwPc = "start"
    /\ rwKind' \in Waits
    /\ Continues(IF rwKind' \in {"machine", "session"} THEN "check" ELSE "read")
    /\ UNCHANGED <<rwNow, rwRemote, rwSeat>>

\* ensureMachineReady of a Machine seen paused or stopped: it is resumed or
\* started first, once; one seen deleted, failed or unknown is refused, and
\* one seen running is taken at its word.
WakeMachine ==
    /\ rwPc = "start" /\ rwKind' = "machine"
    /\ \/ Continues("check") /\ rwRemote' \in {"pending", "ready"}
       \/ \E end \in {"ready", "failed", "error"}: Finishes(end) /\ UNCHANGED rwRemote
    /\ UNCHANGED <<rwNow, rwSeat>>

RemoteMoves ==
    /\ rwPc # "done"
    /\ \/ rwRemote = "pending" /\ rwRemote' \in {"ready", "gone", "verdict"} /\ UNCHANGED rwSeat
       \/ rwRemote = "ready" /\ rwRemote' = "gone" /\ UNCHANGED rwSeat
       \/ rwRemote = "ready" /\ rwSeat = "later" /\ rwSeat' \in {"granted", "refused"} /\ UNCHANGED rwRemote
    /\ UNCHANGED <<rwKind, rwPc, rwNow, rwEnd>>

\* The head of the loops of ensureMachineReady and ensureAgentSessionReady.
LoopCheck ==
    /\ rwPc = "check"
    /\ IF Elapsed(rwNow) THEN Finishes("timeout") ELSE Continues("read")
    /\ UNCHANGED <<rwKind, rwNow, rwRemote, rwSeat>>

\* What the answer to the main read leads to.  The server's own verdict comes
\* before the clock, and for a session after its terminal authority.
AfterRead(t) ==
    CASE rwRemote = "gone" -> Finishes("failed")
      [] rwRemote = "ready" /\ rwKind = "session" -> Continues("authority")
      [] rwRemote = "ready" /\ rwKind # "session" -> Finishes("ready")
      [] rwRemote = "verdict" /\ rwKind # "machine" -> Finishes("failed")
      [] OTHER -> IF rwKind \in {"remote_workspace", "remote_session"} /\ Elapsed(t)
                    THEN Finishes("timeout") ELSE Continues("sleep")

ReadAnswered ==
    /\ rwPc = "read"
    /\ \E took \in 0..Budget: rwNow' = rwNow + took /\ AfterRead(rwNow + took)
    /\ UNCHANGED <<rwKind, rwRemote, rwSeat>>

\* reissueIdempotentRead: only this process's own budget is absorbed.
ReissuesForever(t) == Continues(rwPc) /\ rwNow' = t + Pause

Reissue(t) ==
    IF Elapsed(t) THEN Finishes("timeout") /\ rwNow' = t
                  ELSE Continues(rwPc) /\ rwNow' = t + Pause

ReadSilent ==
    /\ rwPc \in {"read", "authority"}
    /\ Reissue(rwNow + Budget)
    /\ UNCHANGED <<rwKind, rwRemote, rwSeat>>

\* Another failure of a read is an answer, and so is Ctrl-C.
ReadFails ==
    /\ rwPc \in {"read", "authority", "sleep"}
    /\ Finishes("error")
    /\ UNCHANGED <<rwKind, rwNow, rwRemote, rwSeat>>

\* requireCapability of terminal_connections.create: three refusals are waited
\* through, any other ends the wait.
AuthorityAnswered ==
    /\ rwPc = "authority"
    /\ \E took \in 0..Budget: rwNow' = rwNow + took
    /\ CASE rwSeat = "granted" -> Finishes("ready")
         [] rwSeat = "refused" -> Finishes("failed")
         [] OTHER -> Continues("sleep")
    /\ UNCHANGED <<rwKind, rwRemote, rwSeat>>

\* readinessBackoffMs, REMOTE_CONVERGENCE_POLL_INTERVAL_MS
SleepOver ==
    /\ rwPc = "sleep"
    /\ rwNow' = rwNow + Poll
    /\ Continues(IF rwKind \in {"machine", "session"} THEN "check" ELSE "read")
    /\ UNCHANGED <<rwKind, rwRemote, rwSeat>>

RwNext == \/ BeginWait \/ WakeMachine \/ RemoteMoves \/ LoopCheck \/ ReadAnswered \/ ReadSilent \/ ReadFails
          \/ AuthorityAnswered \/ SleepOver

RwSpec == RwInit /\ [][RwNext]_rwVars

-----------------------------------------------------------------------------
\* A phase outlives its deadline by one read's budget for every read it asks
\* between two looks at the clock, two for a session and one for the others
\* (startJourneyDeadline), and by the pauses in between.
WaitBounded ==
    rwNow <= Deadline + Pause + Poll + (IF rwKind = "session" THEN 2 ELSE 1) * Budget
=============================================================================
