------------------------------ MODULE SyncWatch ------------------------------
(***************************************************************************)
(* What a person is told about a folder's sync.  The continuous supervisor *)
(* publishes a snapshot with every state it writes; two commands listen:   *)
(*                                                                         *)
(*   - a provider journey (journey/workspace-effects.ts) writes a line for *)
(*     a sync that stops or pauses, holds its lines while an agent owns    *)
(*     the terminal, keeps one attention line on the attached bar, and has *)
(*     the last word when the run ends;                                    *)
(*   - `cuna sync recover` (journey/workspace-recovery.ts) refuses before  *)
(*     it touches anything, or takes up the stop the folder carries and    *)
(*     waits for a snapshot that proves the folder synced again.           *)
(*                                                                         *)
(* The supervisor is the one of ContinuousSync, reduced to what its        *)
(* snapshots show: status, generation, dirty, what is pending.             *)
(***************************************************************************)
EXTENDS Naturals, Sequences

CONSTANTS WaLimit,        \* HELD_NOTICE_LIMIT
          WaMoves         \* bound: edits, published generations, failures and conflicts

ASSUME WatchBounds == WaLimit \in Nat \ {0} /\ WaMoves \in Nat

VARIABLES waSup,          \* the supervisor, as its snapshot shows it, and its loop
          waHead,         \* the generation the server publishes (external)
          waEdited,       \* the folder holds an edit the server has not
          waRun,          \* the command: kind, step, outcome
          waLines,        \* the lines: held, dropped, last written, attention
          waProof,        \* ghost: the server confirmed the folder since the start
          waMoves         \* edits, generations, failures and conflicts so far
waVars == <<waSup, waHead, waEdited, waRun, waLines, waProof, waMoves>>

Live == {"live_unverified", "converged"}
Halted == {"conflicted", "recovery_required"}
Limits == {"operation_limit", "byte_limit"}
NoSupervisor == [on |-> FALSE, at |-> "idle", status |-> "none", reason |-> "none", gen |-> 0, dirty |-> FALSE,
                 remote |-> 0, local |-> 0, rec |-> FALSE, scan |-> FALSE]

WaInit ==
    /\ waSup = NoSupervisor
    /\ waHead = 1
    /\ waEdited = FALSE
    /\ waRun = [kind |-> "none", pc |-> "idle", want |-> 0, saw |-> FALSE, out |-> "none", last |-> "none"]
    /\ waLines = [held |-> FALSE, kept |-> <<>>, dropped |-> 0, last |-> "none", announced |-> <<>>, attention |-> FALSE, owed |-> FALSE]
    /\ waProof = FALSE
    /\ waMoves = 0

\* notice: a line is written, kept while the agent has the terminal, or counted.
Noted(l, line) ==
    CASE ~l.held                                 -> [l EXCEPT !.last = line]
      [] l.held /\ Len(l.kept) < WaLimit         -> [l EXCEPT !.kept = Append(@, line)]
      [] OTHER                                   -> [l EXCEPT !.dropped = @ + 1]

ClearsInPassing(l, s) == s.status \in Live \cup {"catching_up", "reconciling", "recovering"}
\* syncAttentionLine: undefined (clear), a line, or null (neither).
AttentionClears(l, s) == s.status \in Live
AttentionRaises(s) == s.status \in Halted \cup {"paused"}

\* renderSyncState.
Attended(l, s) ==
    [l EXCEPT !.attention = IF AttentionClears(l, s) THEN FALSE ELSE @ \/ AttentionRaises(s),
              !.owed = IF s.status \in Live THEN FALSE ELSE @ \/ AttentionRaises(s)]
Rendered(l, s) ==
    LET a == Attended(l, s)
        key == <<s.status, s.reason>>
    IN CASE AttentionRaises(s) /\ l.announced # key -> Noted([a EXCEPT !.announced = key], s.status)
         [] s.status \in Live /\ l.announced # <<>> -> Noted([a EXCEPT !.announced = <<>>], "resumed")
         [] OTHER -> a

\* waitForRecovery, the listener.
StoppedAgain(s) == s.status \in Halted \/ (s.status = "paused" /\ s.reason \in Limits)
SyncedAtAnyGeneration(r, s) == r.saw /\ s.status \in Live /\ ~s.dirty /\ s.remote = 0 /\ s.local = 0
Synced(r, s) == SyncedAtAnyGeneration(r, s) /\ s.gen >= r.want
Judged(r, s) ==
    LET seen == [r EXCEPT !.saw = @ \/ s.dirty]
    IN CASE StoppedAgain(s)                     -> [seen EXCEPT !.pc = "stop", !.out = "stopped"]
         [] ~StoppedAgain(s) /\ Synced(seen, s) -> [seen EXCEPT !.pc = "stop", !.out = "recovered"]
         [] OTHER                               -> seen

\* #publish: to whoever listens.
Listens == \/ waRun.kind = "journey" /\ waRun.pc \in {"journey", "agent", "after"}
           \/ waRun.kind = "recover" /\ waRun.pc = "waiting"
Publish(s) ==
    /\ waSup' = s
    /\ waLines' = IF Listens /\ waRun.kind = "journey" THEN Rendered(waLines, s) ELSE waLines
    /\ waRun' = IF Listens /\ waRun.kind = "recover" THEN Judged(waRun, s) ELSE waRun

Moves2 == waMoves < WaMoves /\ waMoves' = waMoves + 1
QuietMove == UNCHANGED waMoves
WorldKept == UNCHANGED <<waHead, waEdited>>

\* The supervisor's loop.
Looping(at) == waSup.on /\ waSup.at = at
Halts(s) == s.status \in Halted

BeginReconcile1 ==
    /\ Looping("idle")
    /\ Publish([waSup EXCEPT !.at = "reconcile", !.rec = FALSE, !.status = "reconciling", !.reason = "manifest_reconciliation", !.dirty = TRUE])
    /\ WorldKept /\ QuietMove /\ UNCHANGED waProof

ReconcileAnswered1 ==
    /\ Looping("reconcile")
    /\ IF waSup.gen = waHead /\ ~waEdited
       THEN /\ Publish([waSup EXCEPT !.at = "remote", !.status = "converged", !.reason = "none", !.dirty = FALSE])
            /\ waProof' = TRUE
       ELSE /\ Publish([waSup EXCEPT !.at = "remote", !.reason = "canonical_divergence"])
            /\ UNCHANGED waProof
    /\ WorldKept /\ QuietMove

\* #consumeRemote: one generation at a time.
PassOverRemote ==
    /\ \/ Looping("idle") /\ ~waSup.rec
       \/ Looping("remote")
    /\ \/ /\ waSup.status \in Halted \cup {"paused"}
          /\ Publish([waSup EXCEPT !.at = "scan"])
       \/ /\ waSup.status \notin Halted \cup {"paused"}
          /\ waSup.gen = waHead
          /\ Publish(IF ~waSup.dirty /\ waSup.status # "converged"
                     THEN [waSup EXCEPT !.at = "scan", !.status = "live_unverified", !.reason = "none"]
                     ELSE [waSup EXCEPT !.at = "scan"])
    /\ WorldKept /\ QuietMove /\ UNCHANGED waProof

BeginPull ==
    /\ \/ Looping("idle") /\ ~waSup.rec
       \/ Looping("remote")
    /\ waSup.status \notin Halted \cup {"paused"}
    /\ waSup.gen < waHead
    /\ Publish([waSup EXCEPT !.at = "pull", !.status = "catching_up", !.reason = "none", !.remote = 1])
    /\ WorldKept /\ QuietMove /\ UNCHANGED waProof

\* #resumeRemoteApply to its end: the folder holds the generation, and what it
\* holds beyond it is dirty.
EndPull ==
    /\ Looping("pull")
    /\ Publish([waSup EXCEPT !.at = "remote", !.gen = @ + 1, !.remote = 0, !.dirty = waEdited,
                             !.status = "live_unverified", !.reason = "none", !.scan = @ \/ waEdited])
    /\ waProof' = (waProof \/ ~waEdited)
    /\ WorldKept /\ QuietMove

\* A path changed on both sides: renderConflict.
PullConflict ==
    /\ Looping("pull")
    /\ Moves2
    /\ waLines' = IF waRun.kind = "journey" /\ Listens THEN Noted(waLines, "conflict") ELSE waLines
    /\ WorldKept /\ UNCHANGED <<waSup, waRun, waProof>>

\* #scanAndCommit.
NoScan1 ==
    /\ Looping("scan")
    /\ ~waSup.scan \/ Halts(waSup)
    /\ waSup' = [waSup EXCEPT !.at = "idle"]
    /\ WorldKept /\ QuietMove /\ UNCHANGED <<waRun, waLines, waProof>>

Scan1 ==
    /\ Looping("scan")
    /\ waSup.scan /\ ~Halts(waSup)
    /\ Publish([waSup EXCEPT !.at = "scanned", !.scan = FALSE, !.status = "catching_up", !.reason = "none"])
    /\ WorldKept /\ QuietMove /\ UNCHANGED waProof

ScanSame ==
    /\ Looping("scanned")
    /\ ~waEdited
    /\ IF waSup.dirty
       THEN waSup' = [waSup EXCEPT !.at = "idle", !.rec = TRUE] /\ UNCHANGED <<waRun, waLines>>
       ELSE Publish([waSup EXCEPT !.at = "idle", !.status = "live_unverified", !.reason = "none"])
    /\ WorldKept /\ QuietMove /\ UNCHANGED waProof

ScanLimit ==
    /\ Looping("scanned")
    /\ waEdited
    /\ Moves2
    /\ Publish([waSup EXCEPT !.at = "idle", !.status = "paused", !.reason = "byte_limit", !.dirty = TRUE])
    /\ WorldKept /\ UNCHANGED waProof

ScanSend ==
    /\ Looping("scanned")
    /\ waEdited
    /\ Publish([waSup EXCEPT !.at = "commit", !.local = 1])
    /\ WorldKept /\ QuietMove /\ UNCHANGED waProof

CommitTaken ==
    /\ Looping("commit")
    /\ waSup.gen = waHead
    /\ waHead' = waHead + 1
    /\ waEdited' = FALSE
    /\ waProof' = TRUE
    /\ Publish([waSup EXCEPT !.at = "idle", !.gen = @ + 1, !.local = 0, !.dirty = FALSE, !.status = "live_unverified", !.reason = "none"])
    /\ QuietMove

\* #acceptStaleRefusal.
CommitStale ==
    /\ Looping("commit")
    /\ waSup.gen < waHead
    /\ Publish([waSup EXCEPT !.at = "idle", !.local = 0, !.dirty = TRUE, !.status = "catching_up", !.reason = "remote_advanced", !.scan = TRUE])
    /\ WorldKept /\ QuietMove /\ UNCHANGED waProof

\* #runLoop, catch: a dependency pauses, a conflict or a refusal stops for good.
PassFails ==
    /\ waSup.on
    /\ waSup.at \in {"reconcile", "pull", "commit", "scanned"}
    /\ Moves2
    /\ \E status \in {"paused", "recovery_required"} :
        Publish([waSup EXCEPT !.at = "idle", !.status = status, !.reason = "failed", !.dirty = TRUE,
                              !.on = (status = "paused")])
    /\ WorldKept /\ UNCHANGED waProof

\* The watcher, and the Machine (external).
FolderEdited ==
    /\ Moves2
    /\ waEdited' = TRUE
    /\ waSup' = IF waSup.on THEN [waSup EXCEPT !.scan = TRUE] ELSE waSup
    /\ UNCHANGED <<waHead, waRun, waLines, waProof>>

MachinePublishes ==
    /\ Moves2
    /\ waHead' = waHead + 1
    /\ UNCHANGED <<waSup, waEdited, waRun, waLines, waProof>>

\* attachContinuousSync: from the commit this run made, from a tree that
\* reproduces the head, or from the state the folder carries, with its stop.
Carried(status) == [NoSupervisor EXCEPT !.on = TRUE, !.status = status, !.gen = waHead, !.scan = TRUE,
                                        !.dirty = (status \notin Live), !.reason = IF status \in Live THEN "none" ELSE "carried"]
JourneySync ==
    /\ waRun.kind = "none"
    /\ \E status \in {"live_unverified", "recovery_required", "paused"} :
        LET s == Carried(status)
        IN /\ waSup' = s
           /\ waRun' = [waRun EXCEPT !.kind = "journey", !.pc = "journey"]
           /\ waLines' = Rendered(waLines, s)
    /\ WorldKept /\ QuietMove /\ UNCHANGED waProof

\* The start was refused: a line, and the attention line for the whole run.
JourneySyncRefused ==
    /\ waRun.kind = "none"
    /\ waRun' = [waRun EXCEPT !.kind = "journey", !.pc = "journey"]
    /\ waLines' = [Noted(waLines, "refused") EXCEPT !.attention = TRUE, !.owed = TRUE]
    /\ WorldKept /\ QuietMove /\ UNCHANGED <<waSup, waProof>>

\* onBeforeTerminalOwnership: holdNotices.
AgentTakesTerminal ==
    /\ waRun.kind = "journey" /\ waRun.pc = "journey"
    /\ waRun' = [waRun EXCEPT !.pc = "agent"]
    /\ waLines' = [waLines EXCEPT !.held = TRUE]
    /\ WorldKept /\ QuietMove /\ UNCHANGED <<waSup, waProof>>

\* releaseNotices, when the runner returns, however it does.
AgentGivesBack ==
    /\ waRun.kind = "journey" /\ waRun.pc = "agent"
    /\ waRun' = [waRun EXCEPT !.pc = "after"]
    /\ waLines' = [waLines EXCEPT !.held = FALSE, !.kept = <<>>,
                                  !.last = IF waLines.kept = <<>> THEN @ ELSE waLines.kept[Len(waLines.kept)]]
    /\ WorldKept /\ QuietMove /\ UNCHANGED <<waSup, waProof>>

\* stopContinuousSync: unsubscribe and read the snapshot, stop, the last word.
JourneyStops ==
    /\ waRun.kind = "journey" /\ waRun.pc \in {"journey", "after"}
    /\ waRun' = [waRun EXCEPT !.pc = "stopping", !.last = waSup.status]
    /\ WorldKept /\ QuietMove /\ UNCHANGED <<waSup, waLines, waProof>>

SaysNothing(l, last) == l
\* continuousSyncDetachNotice.
LastWord(l, last) == IF last \in Live \cup {"none"} THEN l ELSE Noted(l, "not_live")
JourneyEnds ==
    /\ waRun.kind = "journey" /\ waRun.pc = "stopping"
    /\ waSup' = [waSup EXCEPT !.on = FALSE]
    /\ waLines' = LastWord(waLines, waRun.last)
    /\ waRun' = [waRun EXCEPT !.pc = "over"]
    /\ WorldKept /\ QuietMove /\ UNCHANGED waProof

\* recoverWorkspaceSync: every refusal comes before anything is touched.
Refusals == {"binding_missing", "policy_changed", "machine_gone", "binding_changed", "recovery_state_missing", "generation_rollback",
             "active_writer", "start_failed"}
RecoverRefused ==
    /\ waRun.kind = "none"
    /\ \E reason \in Refusals : waRun' = [waRun EXCEPT !.kind = "recover", !.pc = "over", !.out = reason]
    /\ WorldKept /\ QuietMove /\ UNCHANGED <<waSup, waLines, waProof>>

\* #open with recoverStop, up to the first suspension of the loop: the stop is
\* taken up and the first reconciliation has marked the state dirty when start
\* returns.  The listener hears that snapshot first.
RecoverStarts ==
    /\ waRun.kind = "none"
    /\ \E g \in 0..waHead :
        LET s == [NoSupervisor EXCEPT !.on = TRUE, !.at = "reconcile", !.gen = g, !.status = "reconciling",
                                      !.reason = "manifest_reconciliation", !.dirty = TRUE, !.scan = TRUE]
        IN /\ waSup' = s
           /\ waRun' = Judged([waRun EXCEPT !.kind = "recover", !.pc = "waiting", !.want = waHead], s)
    /\ WorldKept /\ QuietMove /\ UNCHANGED <<waLines, waProof>>

\* The timer, or Ctrl+C.
RecoverGivesUp ==
    /\ waRun.kind = "recover" /\ waRun.pc = "waiting"
    /\ \E out \in {"timeout", "cancelled"} : waRun' = [waRun EXCEPT !.pc = "stop", !.out = out]
    /\ WorldKept /\ QuietMove /\ UNCHANGED <<waSup, waLines, waProof>>

\* finally: the supervisor stops and frees the folder's writer lease.
RecoverEnds ==
    /\ waRun.kind = "recover" /\ waRun.pc = "stop"
    /\ waSup' = [waSup EXCEPT !.on = FALSE]
    /\ waRun' = [waRun EXCEPT !.pc = "over"]
    /\ WorldKept /\ QuietMove /\ UNCHANGED <<waLines, waProof>>

WaNext ==
    \/ BeginReconcile1 \/ ReconcileAnswered1 \/ PassOverRemote \/ BeginPull \/ EndPull \/ PullConflict
    \/ NoScan1 \/ Scan1 \/ ScanSame \/ ScanLimit \/ ScanSend \/ CommitTaken \/ CommitStale \/ PassFails
    \/ FolderEdited \/ MachinePublishes
    \/ JourneySync \/ JourneySyncRefused \/ AgentTakesTerminal \/ AgentGivesBack \/ JourneyStops \/ JourneyEnds
    \/ RecoverRefused \/ RecoverStarts \/ RecoverGivesUp \/ RecoverEnds

WaSpec == WaInit /\ [][WaNext]_waVars

\* "Recovered" is proof: since the command started the server has confirmed
\* the folder or taken its commit, and the folder is at the generation
\* published when recovery began or a newer one.
RecoveredIsProven == waRun.out = "recovered" => waProof /\ waSup.gen >= waRun.want

\* A sync that is not live when the run ends has the last word on the person's
\* own screen, whatever was held, dropped or announced before; and the sync
\* lines never say "stopped" last about a sync that was live, unless lines were
\* dropped at the limit.
LastWordIsTrue ==
    waRun.kind = "journey" /\ waRun.pc = "over" /\ waRun.last # "none" =>
        /\ waRun.last \notin Live => waLines.last = "not_live"
        /\ waRun.last \in Live /\ waLines.dropped = 0 => waLines.last \notin Halted \cup {"paused"}

\* The bar keeps the attention line from the stop or pause that raised it until
\* the sync is live again, through every state in between.
AttentionStays == Listens /\ waLines.owed => waLines.attention
==============================================================================
