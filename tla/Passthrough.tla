----------------------------- MODULE Passthrough -----------------------------
(***************************************************************************)
(* The plain terminal of src/terminal/passthrough.ts, one AgentSession on  *)
(* the host terminal, with the run around it (attachForegroundSessions in  *)
(* runtime/node-foreground-session.ts).  Every await at which a key, an    *)
(* abort or a change of the connection can come in between is a step.      *)
(*                                                                         *)
(* The runtime below (TerminalRuntime) is external here: attach reports    *)
(* READY before it returns, a lost connection is reported as "interrupted" *)
(* and a process that ended as "closed", a resize or a send in flight on a *)
(* connection that is gone is refused.  A chunk of host input is one key:  *)
(* an ordinary one, Ctrl+C, the Ctrl+] prefix, "d", or a whole bracketed   *)
(* paste marker.  What is painted is left out.                             *)
(***************************************************************************)
EXTENDS Naturals, Sequences

CONSTANTS PtKeys,     \* chunks a person may type
          PtOutputs,  \* output frames of the session
          PtFaults    \* calls to the host or to the runtime that fail

ASSUME PassthroughBounds == {PtKeys, PtOutputs, PtFaults} \subseteq Nat

VARIABLES
    ptState,    \* #state
    ptStart,    \* where start() is
    ptStop,     \* [pc, failed]: the cleanup attempt under way
    ptRun,      \* where the run is, and how it ended
    ptLease,    \* the host terminal is in raw mode
    ptSnap,     \* #snapshot: [state, mode], state "none" when undefined
    ptNet,      \* the attachment itself: none, up, lost, closed, detached
    ptQueue,    \* #inputTail: [key, bound], the chunks not routed yet
    ptOp,       \* the input operation awaiting the runtime
    ptOut,      \* [left, queued]: output to come, and not written yet
    ptMode,     \* [prefix, paste, trusted]: #prefixPending, #pasteActive, #detachChordTrusted
    ptLocal,    \* #localDetachTabId is set
    ptFlags,    \* [failure, startup, detached]: #failure, #startupDetached, #detachedSessions
    ptTyped,    \* chunks typed so far
    ptFaulty,   \* failures so far
    ptRaced     \* ghost: the races the README describes

ptVars == <<ptState, ptStart, ptStop, ptRun, ptLease, ptSnap, ptNet, ptQueue, ptOp, ptOut, ptMode,
            ptLocal, ptFlags, ptTyped, ptFaulty, ptRaced>>
ptHost == <<ptOut, ptMode, ptTyped>>

NoSnapshotYet == [state |-> "none", mode |-> "observer"]
NoStop == [pc |-> "none", failed |-> FALSE]
NoRoute == [do |-> "none", key |-> "none"]
PtGone == {"lost", "closed", "detached"}

PtInit ==
    /\ ptState = "idle" /\ ptStart = "none" /\ ptStop = NoStop /\ ptRun = "starts"
    /\ ptLease = FALSE /\ ptSnap = NoSnapshotYet /\ ptNet = "none"
    /\ ptQueue = <<>> /\ ptOp = NoRoute /\ ptOut = [left |-> PtOutputs, queued |-> 0]
    /\ ptMode = [prefix |-> FALSE, paste |-> FALSE, trusted |-> TRUE] /\ ptLocal = FALSE
    /\ ptFlags = [failure |-> FALSE, startup |-> FALSE, detached |-> FALSE]
    /\ ptTyped = 0 /\ ptFaulty = 0 /\ ptRaced = {}

\* A call to the host or to the runtime ends well, or fails if the bound allows.
Fares(ok) == (ok \/ ptFaulty < PtFaults) /\ ptFaulty' = IF ok THEN ptFaulty ELSE ptFaulty + 1

Listening == ptStart \in {"attach", "repaint", "done"} /\ ptStop.pc = "none" /\ ptState # "stopped"

\* #stopNow up to its first await; a cleanup already under way, or finished
\* well, is joined.  `before` is the state stop() finds.
StopFrom(before) ==
    IF ptStop.pc # "none" THEN ptState' = before /\ UNCHANGED ptStop
    ELSE /\ ptState' = "stopping"
         /\ ptStop' = [pc |-> "detach", failed |-> FALSE]

StopWithFailure ==
    /\ ptFlags' = [ptFlags EXCEPT !.failure = TRUE]
    /\ StopFrom(ptState)

-----------------------------------------------------------------------------
(* start *)

StartRun ==
    /\ ptRun = "starts" /\ ptState = "idle"
    /\ ptState' = "starting" /\ ptStart' = "acquire" /\ ptRun' = "started"
    /\ UNCHANGED <<ptStop, ptLease, ptSnap, ptNet, ptQueue, ptOp, ptHost, ptLocal, ptFlags, ptFaulty, ptRaced>>

\* The catch of start: the state is overwritten, and stop() is called.
StartThrows ==
    /\ ptStart' = "thrown"
    /\ StopFrom(IF ptFlags.startup THEN ptState ELSE "failed")

Acquire ==
    /\ ptStart = "acquire"
    /\ \E ok \in BOOLEAN:
         /\ Fares(ok)
         /\ IF ~ok THEN StartThrows /\ UNCHANGED ptLease
            ELSE IF ptState = "starting"
            THEN /\ ptLease' = TRUE /\ ptStart' = "attach"
                 /\ UNCHANGED <<ptState, ptStop>>
            ELSE /\ ptLease' = TRUE /\ ptStart' = "giveback"
                 /\ UNCHANGED <<ptState, ptStop>>
    /\ UNCHANGED <<ptRun, ptSnap, ptNet, ptQueue, ptOp, ptHost, ptLocal, ptFlags, ptRaced>>

\* Cancelled while the terminal was being acquired: it is restored at once.
GiveBack ==
    /\ ptStart = "giveback"
    /\ \E ok \in BOOLEAN:
         /\ Fares(ok)
         /\ ptLease' = ~ok
         /\ ptRaced' = IF ok THEN ptRaced ELSE ptRaced \cup {"giveback"}
    /\ StartThrows
    /\ UNCHANGED <<ptRun, ptSnap, ptNet, ptQueue, ptOp, ptHost, ptLocal, ptFlags>>

\* onTerminalReady, then runtime.attach returns; after a stop it is detached.
Attached ==
    /\ ptStart = "attach" /\ ptNet = "none"
    /\ \E mode \in {"writer", "observer"}:
         IF ptState = "starting"
         THEN /\ ptNet' = "up" /\ ptSnap' = [state |-> "active", mode |-> mode]
              /\ ptStart' = "repaint"
              /\ UNCHANGED <<ptState, ptStop>>
         ELSE /\ ptNet' = "detached" /\ ptStart' = "done"
              /\ UNCHANGED <<ptSnap, ptState, ptStop>>
    /\ UNCHANGED <<ptRun, ptLease, ptQueue, ptOp, ptHost, ptLocal, ptFlags, ptFaulty, ptRaced>>

AttachFails ==
    /\ ptStart = "attach" /\ ptNet = "none"
    /\ ptState # "starting" \/ ptFaulty < PtFaults
    /\ ptFaulty' = IF ptState = "starting" THEN ptFaulty + 1 ELSE ptFaulty
    /\ StartThrows
    /\ UNCHANGED <<ptRun, ptLease, ptSnap, ptNet, ptQueue, ptOp, ptHost, ptLocal, ptFlags, ptRaced>>

\* #repaintAfterReplay: a writer's resizes need the connection, an observer's
\* picture only the host.  Whatever happened meanwhile, the state is "active".
Repainted ==
    /\ ptStart = "repaint"
    /\ \/ /\ ptSnap.mode = "observer" \/ ptNet = "up"
          /\ ptStart' = "done" /\ ptState' = "active"
          /\ ptRaced' = IF ptNet \in {"lost", "closed"} THEN ptRaced \cup {"late"} ELSE ptRaced
          /\ UNCHANGED <<ptStop, ptFaulty>>
       \/ /\ IF ptNet = "up" THEN Fares(FALSE) ELSE UNCHANGED ptFaulty
          /\ StartThrows /\ UNCHANGED ptRaced
    /\ UNCHANGED <<ptRun, ptLease, ptSnap, ptNet, ptQueue, ptOp, ptHost, ptLocal, ptFlags>>

-----------------------------------------------------------------------------
(* stop *)

SnapshotOpen == ptSnap.state \notin {"none", "closed", "detached"}

\* Cleanup may detach an attachment that is going; only then are the tails awaited.
StopDetaches ==
    /\ ptStop.pc = "detach"
    /\ \E ok \in BOOLEAN:
         /\ Fares(ok) /\ (ok \/ SnapshotOpen)
         /\ ptStop' = [pc |-> "tails", failed |-> ptStop.failed \/ ~ok]
         /\ ptNet' = IF SnapshotOpen /\ ok THEN "detached" ELSE ptNet
    /\ UNCHANGED <<ptState, ptStart, ptRun, ptLease, ptSnap, ptQueue, ptOp, ptHost, ptLocal, ptFlags, ptRaced>>

StopAwaitsTails ==
    /\ ptStop.pc = "tails" /\ ptOut.queued = 0 /\ ptQueue = <<>> /\ ptOp = NoRoute
    /\ ptStop' = [ptStop EXCEPT !.pc = "restore"]
    /\ UNCHANGED <<ptState, ptStart, ptRun, ptLease, ptSnap, ptNet, ptQueue, ptOp, ptHost, ptLocal, ptFlags,
                   ptFaulty, ptRaced>>

\* Mutant: a failed cleanup counts as done and is never tried again.
DoneAnyway(ok) == [ptStop EXCEPT !.pc = "done"]

\* stop's finally: the promise of a failed cleanup is dropped.
Afterwards(ok) == IF ok THEN [ptStop EXCEPT !.pc = "done"] ELSE NoStop

\* A failed cleanup keeps the lease and may be tried again.
StopRestores ==
    /\ ptStop.pc = "restore"
    /\ \E ok \in BOOLEAN:
         /\ Fares(ok) /\ (ok \/ ptLease)
         /\ ptLease' = (ptLease /\ ~ok)
         /\ ptState' = IF ok /\ ~ptStop.failed THEN "stopped" ELSE "failed"
         /\ ptStop' = Afterwards(ok /\ ~ptStop.failed)
    /\ ptSnap' = NoSnapshotYet
    /\ UNCHANGED <<ptStart, ptRun, ptNet, ptQueue, ptOp, ptHost, ptLocal, ptFlags, ptRaced>>

-----------------------------------------------------------------------------
(* the connection *)

Unexpected(state) == state \in {"failed", "interrupted"}

\* Mutant: a loss while the person is leaving is an error like any other.
ExpectsNothing(state) == FALSE

\* The teardown edge of a detach the person asked for.
Expected(state) == ptLocal /\ Unexpected(state)

\* #terminalState; no intent is bound before start and after a stop.
TerminalState(state) ==
    IF ptStop.pc = "done" \/ Expected(state)
    THEN UNCHANGED <<ptSnap, ptFlags, ptState, ptStop>>
    ELSE /\ ptSnap' = [ptSnap EXCEPT !.state = state]
         /\ ptFlags' = [ptFlags EXCEPT !.failure = @ \/ Unexpected(state)]
         /\ IF ptState = "active" THEN StopFrom(ptState) ELSE UNCHANGED <<ptState, ptStop>>

ConnectionEnds ==
    /\ ptNet = "up"
    /\ \/ ptNet' = "lost" /\ TerminalState("interrupted")
       \/ ptNet' = "closed" /\ TerminalState("closed")
    /\ UNCHANGED <<ptStart, ptRun, ptLease, ptQueue, ptOp, ptHost, ptLocal, ptFaulty, ptRaced>>

\* Another client takes or gives back the writing seat.
SeatChanges ==
    /\ ptNet = "up" /\ ptSnap.state = "active"
    /\ ptSnap' = [ptSnap EXCEPT !.mode = IF @ = "writer" THEN "observer" ELSE "writer"]
    /\ UNCHANGED <<ptState, ptStart, ptStop, ptRun, ptLease, ptNet, ptQueue, ptOp, ptHost, ptLocal, ptFlags,
                   ptFaulty, ptRaced>>

\* Output is queued; a frame may switch bracketed paste off on the host.
OutputArrives ==
    /\ ptNet = "up" /\ ptOut.left > 0 /\ ptSnap.state = "active"
    /\ ptOut' = [left |-> ptOut.left - 1, queued |-> ptOut.queued + 1]
    /\ UNCHANGED <<ptState, ptStart, ptStop, ptRun, ptLease, ptSnap, ptNet, ptQueue, ptOp, ptMode, ptLocal,
                   ptFlags, ptTyped, ptFaulty, ptRaced>>

OutputWritten ==
    /\ ptOut.queued > 0
    /\ ptOut' = [ptOut EXCEPT !.queued = @ - 1]
    /\ \E disables \in BOOLEAN: ptMode' = [ptMode EXCEPT !.trusted = @ /\ ~disables]
    /\ UNCHANGED <<ptState, ptStart, ptStop, ptRun, ptLease, ptSnap, ptNet, ptQueue, ptOp, ptLocal, ptFlags,
                   ptTyped, ptFaulty, ptRaced>>

-----------------------------------------------------------------------------
(* input *)

\* Mutant: any Ctrl+C received counts as the decision to detach.
DecidesAlways(key) == key = "^C"

\* #queueInput: a lone Ctrl+C outside a paste and a chord decides at receipt.
DecidesAtReceipt(key) == key = "^C" /\ ~ptMode.paste /\ ~ptMode.prefix /\ ptSnap.state # "none"

\* The decision was taken on a prefix or a paste marker that is still queued.
Misjudged(key) ==
    /\ DecidesAtReceipt(key)
    /\ \E i \in 1 .. Len(ptQueue): ptQueue[i].key \in {"^]", "paste("}

\* A detach already asked for is not confirmed yet.
Leaving == ptLocal \/ ptOp.do = "detach" \/ \E i \in 1 .. Len(ptQueue): ptQueue[i].key \in {"^C", "d"}

\* The operation has its target at receipt, or starts at once and waits for it.
BoundAtReceipt == ptSnap.state # "none" \/ (ptState = "starting" /\ ptQueue = <<>> /\ ptOp = NoRoute)

Typed(key) ==
    /\ Listening /\ ptTyped < PtKeys
    /\ ptTyped' = ptTyped + 1
    /\ IF ptState = "starting" /\ key = "^C"
       THEN /\ ptFlags' = [ptFlags EXCEPT !.startup = TRUE]
            /\ StopFrom(ptState)
            /\ UNCHANGED <<ptQueue, ptLocal, ptRaced>>
       ELSE /\ ptQueue' = Append(ptQueue, [key |-> key, bound |-> BoundAtReceipt])
            /\ ptLocal' = (ptLocal \/ DecidesAtReceipt(key))
            /\ ptRaced' = ptRaced \cup (IF Misjudged(key) THEN {"misjudged"} ELSE {})
                                  \cup (IF Leaving THEN {"after"} ELSE {})
            /\ UNCHANGED <<ptFlags, ptState, ptStop>>
    /\ UNCHANGED <<ptStart, ptRun, ptLease, ptSnap, ptNet, ptOp, ptOut, ptMode, ptFaulty>>

\* Input that came before readiness waits for it, or for the stop.
Routable == ptState # "starting" \/ ptSnap.state # "none"

\* What #routeInput does with one key: the mode after it, and what is awaited.
Routed(key) ==
    CASE ptMode.paste -> [mode |-> [ptMode EXCEPT !.paste = key # ")paste"], do |-> "send"]
      [] ~ptMode.paste /\ key = "paste(" -> [mode |-> [ptMode EXCEPT !.paste = TRUE], do |-> "send"]
      [] ~ptMode.paste /\ key # "paste(" /\ ptMode.prefix ->
            [mode |-> [ptMode EXCEPT !.prefix = FALSE],
             do |-> IF key = "d" /\ ptMode.trusted THEN "detach" ELSE "send"]
      [] OTHER -> [mode |-> [ptMode EXCEPT !.prefix = key = "^]"],
                   do |-> CASE key = "^C" -> "detach" [] key = "^]" -> "none" [] OTHER -> "send"]

RouteInput ==
    /\ ptOp = NoRoute /\ ptQueue # <<>> /\ Routable
    /\ ptQueue' = Tail(ptQueue)
    /\ LET op == Head(ptQueue)
           r == Routed(op.key)
       IN IF ptSnap.state # "active" \/ ~(op.bound \/ ptState = "starting")
          THEN /\ StopWithFailure
               /\ ptRaced' = IF ptSnap.state = "active" THEN ptRaced \cup {"early"} ELSE ptRaced
               /\ UNCHANGED <<ptMode, ptOp, ptLocal>>
          ELSE /\ ptMode' = r.mode
               /\ ptOp' = IF r.do = "none" \/ (r.do = "send" /\ ptSnap.mode # "writer") THEN NoRoute
                          ELSE [do |-> r.do, key |-> op.key]
               /\ ptLocal' = (ptLocal \/ r.do = "detach")
               /\ UNCHANGED <<ptFlags, ptState, ptStop, ptRaced>>
    /\ UNCHANGED <<ptStart, ptRun, ptLease, ptSnap, ptNet, ptOut, ptTyped, ptFaulty>>

\* runtime.sendInput is refused once the connection is gone.
InputSent ==
    /\ ptOp.do = "send"
    /\ ptOp' = NoRoute
    /\ IF ptNet = "up" THEN UNCHANGED <<ptFlags, ptState, ptStop, ptRaced>>
       ELSE StopWithFailure /\ ptRaced' = IF Leaving THEN ptRaced \cup {"after"} ELSE ptRaced
    /\ UNCHANGED <<ptStart, ptRun, ptLease, ptSnap, ptNet, ptQueue, ptHost, ptLocal, ptFaulty>>

\* #detachLocal
DetachedLocally ==
    /\ ptOp.do = "detach"
    /\ ptOp' = NoRoute /\ ptLocal' = FALSE
    /\ \E ok \in BOOLEAN:
         /\ Fares(ok)
         /\ IF ok
            THEN /\ ptNet' = IF ptNet = "up" THEN "detached" ELSE ptNet
                 /\ ptSnap' = IF ptSnap.state = "none" THEN ptSnap ELSE [ptSnap EXCEPT !.state = "detached"]
                 /\ ptFlags' = [ptFlags EXCEPT !.detached = TRUE]
                 /\ StopFrom(ptState)
            ELSE StopWithFailure /\ UNCHANGED <<ptNet, ptSnap>>
    /\ UNCHANGED <<ptStart, ptRun, ptLease, ptQueue, ptHost, ptRaced>>

\* The run's signal aborts.
PtAborts ==
    /\ ptStart \in {"acquire", "attach", "repaint", "done"} /\ ptStop.pc = "none" /\ ptFaulty < PtFaults
    /\ ptState # "failed" /\ ptFaulty' = ptFaulty + 1
    /\ StopWithFailure
    /\ UNCHANGED <<ptStart, ptRun, ptLease, ptSnap, ptNet, ptQueue, ptOp, ptHost, ptLocal, ptRaced>>

-----------------------------------------------------------------------------
(* the run around it *)

Settles == ptStop.pc \in {"none", "done"}

\* waitForStop, or start's own error; then stop() once more.
RunWaits ==
    /\ ptRun = "started" /\ Settles
    /\ \/ ptStart = "done" /\ ptState \in {"stopped", "failed"} 
       \/ ptStart = "thrown"
    /\ ptRun' = IF ptStart = "thrown" /\ ~ptFlags.startup THEN "failing"
                ELSE IF ptState # "stopped" \/ ptFlags.failure THEN "failing" ELSE "ending"
    /\ IF ptStop.pc = "none" THEN StopFrom(ptState) ELSE UNCHANGED <<ptState, ptStop>>
    /\ UNCHANGED <<ptStart, ptLease, ptSnap, ptNet, ptQueue, ptOp, ptHost, ptLocal, ptFlags, ptFaulty, ptRaced>>

RunEnds ==
    /\ ptRun \in {"failing", "ending"} /\ Settles
    /\ ptRun' = IF ptRun = "failing" \/ ptStop.pc = "none" THEN "failed" ELSE "ok"
    /\ UNCHANGED <<ptState, ptStart, ptStop, ptLease, ptSnap, ptNet, ptQueue, ptOp, ptHost, ptLocal, ptFlags,
                   ptFaulty, ptRaced>>

PtNext ==
    \/ StartRun \/ Acquire \/ GiveBack \/ Attached \/ AttachFails \/ Repainted
    \/ StopDetaches \/ StopAwaitsTails \/ StopRestores
    \/ ConnectionEnds \/ SeatChanges \/ OutputArrives \/ OutputWritten
    \/ \E key \in {"key", "d", "^C", "^]", "paste(", ")paste"}: Typed(key)
    \/ RouteInput \/ InputSent \/ DetachedLocally \/ PtAborts
    \/ RunWaits \/ RunEnds

PtSpec == PtInit /\ [][PtNext]_ptVars

-----------------------------------------------------------------------------
(* The host terminal is given back: a run ends with the terminal in raw    *)
(* mode only when restoring it failed twice (#stopNow keeps the lease of a *)
(* failed attempt so that the run's own stop() retries it).                *)
GivenBack == ptRun \in {"ok", "failed"} /\ ptLease => ptFaulty > 1

\* Leaving is not an error: once start has returned, a detach the runtime
\* confirmed, with nothing else that failed, ends the run well
\* (#terminalState's teardown edge).
LeavingIsNoError ==
    ptRun = "failed" /\ ptFlags.detached /\ ptStart = "done" => ptFaulty > 0 \/ ptRaced # {}

\* A connection that ended while the terminal was active is noticed: it is
\* never left open on a dead session (#terminalState, #localDetachTabId).
LossIsNoticed ==
    ptState = "active" /\ ptNet \in {"lost", "closed"} =>
        ptStop.pc # "none" \/ ptOp.do = "detach" \/ ptQueue # <<>> \/ ptRaced # {}
=============================================================================
