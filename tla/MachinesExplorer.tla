-------------------------- MODULE MachinesExplorer --------------------------
(***************************************************************************)
(* The Machines screen (machines/explorer.ts, machine-first.ts,            *)
(* session-actionability.ts): the inventory and its refresh, the selection *)
(* and the screens it leads through, and Start, Stop, Delete and Recover   *)
(* run in place while keys and refreshes go on.                            *)
(*                                                                         *)
(* One Machine with one AgentSession, whose revisions are 0 (not created), *)
(* 1 (shown) and 2 (ended).  Names, painting,                              *)
(* the cached picture, the screens of a provider's sessions and of a new   *)
(* Machine's name, and the repair of an OpenCode supervisor are left out;  *)
(* when a list is read again is left to chance, which is what its timers   *)
(* and the r key amount to.                                                *)
(***************************************************************************)
EXTENDS Naturals, Sequences, SequencesExt

CONSTANT ExEvents       \* bound: changes at the service by anybody else

ASSUME ExplorerBounds == ExEvents \in Nat

NoRow == [state |-> "none"]
NotArmed == [state |-> "none", sessions |-> FALSE]
NoChange == [kind |-> "", at |-> "none"]

VARIABLES
    exSvc,        \* the service: [machine, session, left]
    exWire,       \* the request on its way to it, if any
    exRow,        \* rows
    exListed,     \* initialized
    exScreen,     \* navigation.screen
    exKey,        \* selectedKey, "" for undefined
    exArmed,      \* pendingDelete.fingerprint
    exRefresh,    \* [at: idle, list, children; mark: pendingLifecycle in previousRows;
                  \*  left: the children awaited]
    exOutage,     \* refreshError is set
    exOp,         \* the change in place: [kind, at: none, capability, sent, reading]
    exEnd,        \* "open", or how the screen ends
    exSteady,     \* ghost: nothing moved on the screen since the delete was armed
    exBlind,      \* ghost: a delete was sent although something had moved
    exStraddled   \* ghost: a change began or ended while a list was being read

exVars == <<exSvc, exWire, exRow, exListed, exScreen, exKey, exArmed, 
            exRefresh, exOutage, exOp, exEnd, exSteady, exBlind, exStraddled>>
exRemote == <<exSvc, exWire>>
exGhosts == <<exBlind, exStraddled>>

Quiet == [at |-> "idle", mark |-> "", left |-> {}]

ExInit ==
    /\ exSvc = [machine |-> "creating", session |-> 0, left |-> ExEvents]
    /\ exWire = {}
    /\ exRow = NoRow /\ exListed = FALSE
    /\ exScreen = "machines" /\ exKey = ""
    /\ exArmed = NotArmed
    /\ exRefresh = [Quiet EXCEPT !.at = "list"]
    /\ exOutage = FALSE
    /\ exOp = NoChange
    /\ exEnd = "open"
    /\ exSteady = FALSE /\ exBlind = FALSE /\ exStraddled = FALSE

ExOpen == exEnd = "open"
Closing == ~ExOpen                 \* isClosing

-----------------------------------------------------------------------------
\* The service.

After(action, state) ==
    CASE action = "start" /\ state = "stopped" -> "running"
      [] action = "stop" /\ state = "running"  -> "stopped"
      [] action = "recover" /\ state = "creating" -> "running"
      [] action = "delete"                     -> "gone"
      [] OTHER                                 -> state

ExLands ==
    /\ \E a \in exWire:
         /\ exWire' = exWire \ {a}
         /\ exSvc' = [exSvc EXCEPT !.machine = After(a, @)]
    /\ UNCHANGED <<exRow, exListed, exScreen, exKey, exArmed, exRefresh,
                   exOutage, exOp, exEnd, exSteady, exGhosts>>

ElsewhereChanges ==
    /\ exSvc.left > 0 /\ exSvc.machine # "gone" /\ ExOpen
    /\ \/ \E s \in {"running", "stopped", "error", "gone"} \ {exSvc.machine}:
            exSvc' = [exSvc EXCEPT !.machine = s, !.left = @ - 1]
       \/ /\ exSvc.session < 2
          /\ exSvc' = [exSvc EXCEPT !.session = @ + 1, !.left = @ - 1]
    /\ UNCHANGED <<exWire, exRow, exListed, exScreen, exKey, exArmed, 
                   exRefresh, exOutage, exOp, exEnd, exSteady, exGhosts>>

-----------------------------------------------------------------------------
\* What the screen offers.

\* isAgentSessionVisibleInPicker
Visible(session) == session = 1

\* classifySessionActionability, on a Machine that runs: a process is waited
\* for, attachable, or stale once its lease lapses, which the clock decides.
Recoveries == {"wait", "attach", "refresh"}

Only(condition, key) == IF condition THEN <<key>> ELSE <<>>

\* machineContextActions, resolveMachineContextActions
ContextActions(row) ==
    CASE row.pending # "" -> <<>>
      [] row.pending = "" /\ row.state = "stopped" ->
           <<"start", "delete">>
      [] row.pending = "" /\ row.state = "creating" -> <<"recover", "delete">>
      [] row.pending = "" /\ row.state = "running" ->
           Only(row.session # 0, "provider") \o Only(row.cap = "yes", "new") \o <<"stop", "delete">>
      [] OTHER -> <<"delete">>

\* shouldOfferGlobalCreation: only beside Machines known to be of no use.
OfferGlobalCreation(row, listed) ==
    /\ listed
    /\ \/ row = NoRow
       \/ /\ row # NoRow
          /\ row.pending = ""
          /\ ~row.loading /\ ~row.error
          /\ row.cap # "unknown"
          /\ {"start", "provider", "new"} \cap Range(ContextActions(row)) = {}

\* selectableKeys
SelectableKeys(row, screen, listed) ==
    CASE screen = "new" -> <<"choose">>
      [] screen = "machine" -> IF row = NoRow THEN <<>> ELSE ContextActions(row)
      [] screen = "machines" ->
           (IF row = NoRow THEN <<>> ELSE <<"machine">> \o Only(row.session # 0, "session"))
             \o Only(OfferGlobalCreation(row, listed), "create")

FirstKey(keys) == IF keys = <<>> THEN "" ELSE keys[1]

\* reconcileSelection, without its render
Reconciled(row, screen, key, listed, phase) ==
    LET keys == SelectableKeys(row, screen, listed)
    IN  IF key \in Range(keys) \/ (phase = "children" /\ key = "create") THEN key ELSE FirstKey(keys)

FingerprintOfState(row) == IF row = NoRow THEN NoRow ELSE [state |-> row.state, sessions |-> FALSE]

\* deleteFingerprint: the Machine, its state, its sessions and their epochs.
Fingerprint(row) == IF row = NoRow THEN NoRow ELSE [state |-> row.state, sessions |-> row.session # 0]

\* render, before it paints: a confirmation outlives nothing it named.
Disarmed(armed, row, screen, key) ==
    IF screen = "machine" /\ row # NoRow /\ key = "delete" /\ armed = Fingerprint(row)
    THEN armed ELSE NotArmed

ExShows(row, screen, key, armed) ==
    /\ exRow' = row /\ exScreen' = screen /\ exKey' = key
    /\ exArmed' = IF armed = NotArmed THEN NotArmed ELSE Disarmed(armed, row, screen, key)
    /\ exSteady' = (/\ exSteady /\ exArmed' # NotArmed
                    /\ row.state = exRow.state /\ (row # NoRow => row.session = exRow.session)
                    /\ screen = exScreen /\ key = exKey)

Still == UNCHANGED <<exRow, exScreen, exKey, exArmed, exSteady>>

-----------------------------------------------------------------------------
\* refresh: one at a time, whoever asks for it.

Begins(row) == IF exRefresh.at # "idle" THEN exRefresh
               ELSE [Quiet EXCEPT !.at = "list", !.mark = IF row = NoRow THEN "" ELSE row.pending]

\* The live timer, the retry of a failed list, and the r key.
AsksRefresh ==
    /\ ExOpen /\ exRefresh.at = "idle"
    /\ exRefresh' = Begins(exRow)
    /\ Still
    /\ UNCHANGED <<exRemote, exListed, exOutage, exOp, exEnd, exGhosts>>

LoadedUnmarked(mark, cap) ==
    [state |-> exSvc.machine, session |-> IF exRow = NoRow THEN 0 ELSE exRow.session,
     loading |-> TRUE, error |-> FALSE, cap |-> cap, pending |-> ""]

\* The row of a listed Machine, from the list and from the row before the
\* read, of which only the mark may have changed meanwhile.
Loaded(mark, cap) ==
    [state |-> exSvc.machine, session |-> IF exRow = NoRow THEN 0 ELSE exRow.session,
     loading |-> TRUE, error |-> FALSE, cap |-> cap, pending |-> mark]

\* A verified capability is kept until it expires.
Retained == {"unknown"} \cup IF exRow = NoRow THEN {} ELSE {exRow.cap}

ListAnswers ==
    /\ exRefresh.at = "list" /\ ExOpen
    /\ exListed' = TRUE
    /\ exOutage' = FALSE
    /\ IF exSvc.machine = "gone"
       THEN /\ ExShows(NoRow, exScreen, Reconciled(NoRow, exScreen, exKey, TRUE, "idle"), exArmed)
            /\ exRefresh' = Quiet /\ UNCHANGED exStraddled
       ELSE \E cap \in Retained:
            LET row == Loaded(exRefresh.mark, cap)
            IN  /\ ExShows(row, exScreen, Reconciled(row, exScreen, exKey, TRUE, "children"), exArmed)
                /\ exRefresh' = [at |-> "children", mark |-> "", left |-> {"sessions", "capability"}]
                /\ exStraddled' = (exStraddled \/ (exRow # NoRow /\ exRow.pending # exRefresh.mark))
    /\ UNCHANGED <<exRemote, exOp, exEnd, exBlind>>

\* What is not retryable ends the screen.
ListFails ==
    /\ exRefresh.at = "list" /\ ExOpen
    /\ exRefresh' = Quiet
    /\ \/ exOutage' = TRUE /\ UNCHANGED exEnd
       \/ exEnd' = "closed" /\ UNCHANGED exOutage
    /\ Still
    /\ UNCHANGED <<exRemote, exListed, exOp, exGhosts>>

Awaits(task) == exRefresh.at = "children" /\ task \in exRefresh.left /\ ExOpen

Settles(task) ==
    exRefresh' = IF exRefresh.left = {task} THEN Quiet ELSE [exRefresh EXCEPT !.left = @ \ {task}]

\* updateMachineRow, then reconcileSelection
UpdatesRow(row) ==
    LET new == IF exRow = NoRow THEN NoRow ELSE row
    IN  ExShows(new, exScreen, Reconciled(new, exScreen, exKey, exListed, exRefresh.at), exArmed)

\* mergeAgentSessionObservations: only a newer revision replaces what is shown.
Merged(confirmed, candidate) ==
    LET newer == IF candidate = 0 \/ candidate > confirmed THEN candidate ELSE confirmed
    IN  IF Visible(newer) THEN newer ELSE 0

SessionsAnswer ==
    /\ Awaits("sessions") /\ Settles("sessions")
    /\ \/ UpdatesRow([exRow EXCEPT !.session = Merged(@, exSvc.session), !.loading = FALSE, !.error = FALSE])
       \/ UpdatesRow([exRow EXCEPT !.loading = FALSE, !.error = TRUE])     \* the read failed
    /\ UNCHANGED <<exRemote, exListed, exOutage, exOp, exEnd, exGhosts>>

\* observeSessionCreateCapability
CapabilityAnswers ==
    /\ Awaits("capability") /\ Settles("capability")
    /\ \E cap \in {"yes", "no", "unknown"}:
         UpdatesRow([exRow EXCEPT !.cap = cap])
    /\ UNCHANGED <<exRemote, exListed, exOutage, exOp, exEnd, exGhosts>>

\* The reads of a screen that closes are dropped.
RefreshDropped ==
    /\ exRefresh.at # "idle" /\ Closing
    /\ exRefresh' = Quiet
    /\ Still
    /\ UNCHANGED <<exRemote, exListed, exOutage, exOp, exEnd, exGhosts>>

-----------------------------------------------------------------------------
\* runLifecycle and recoverCreation: a change in place.  What a second one
\* does, which a lost mark lets begin, is not followed.

Starts(action) ==
    /\ exRow.pending = "" /\ exOp = NoChange
    /\ exOp' = [kind |-> action, at |-> IF action = "recover" THEN "sent" ELSE "capability"]
    /\ exWire' = IF action = "recover" THEN exWire \cup {action} ELSE exWire
    /\ ExShows([exRow EXCEPT !.pending = action], exScreen, "", NotArmed)

\* A request still on its way counts among the changes from elsewhere.
OpEnds == exOp' = NoChange /\ exWire' = {}

\* settle, and its notice
ExSettle(row) ==
    /\ OpEnds
    /\ IF exRow = NoRow THEN UpdatesRow(NoRow) ELSE UpdatesRow([row EXCEPT !.pending = ""])

CapabilityDecides ==
    /\ exOp.at = "capability"
    /\ \/ Closing /\ OpEnds /\ Still
       \/ ExOpen /\ ExSettle(exRow)
       \/ /\ ExOpen /\ Still
          /\ exOp' = [exOp EXCEPT !.at = "sent"]
          /\ exWire' = exWire \cup {exOp.kind}
    /\ UNCHANGED <<exSvc, exListed, exRefresh, exOutage, exEnd, exGhosts>>

\* An answer, a lapsed response budget (which says nothing), or a failure.
RequestReturns ==
    /\ exOp.at = "sent" /\ exOp.kind # "recover"
    /\ \/ Closing /\ OpEnds /\ Still
       \/ ExOpen /\ ExSettle(exRow)
       \/ ExOpen /\ exOp' = [exOp EXCEPT !.at = "reading"] /\ Still /\ UNCHANGED exWire
    /\ UNCHANGED <<exSvc, exListed, exRefresh, exOutage, exEnd, exGhosts>>

Expected(action) == CASE action = "start" -> "running" [] action = "stop" -> "stopped" [] OTHER -> "gone"

\* The read-back converges, goes on, or gives up; then everything is read anew.
ReadsBack ==
    /\ exOp.at = "reading"
    /\ LET read == IF exRow = NoRow \/ exSvc.machine = "gone" THEN exRow
                   ELSE [exRow EXCEPT !.state = exSvc.machine]
           converged == exSvc.machine = Expected(exOp.kind)
           overview == IF exScreen = "new" THEN "new" ELSE "machines"
       IN  \/ Closing /\ OpEnds /\ Still /\ UNCHANGED exRefresh
           \/ /\ ExOpen /\ converged /\ exOp.kind # "delete"
              /\ ExSettle(read)
              /\ exRefresh' = Begins(exRow')
           \/ /\ ExOpen /\ converged /\ exOp.kind = "delete"
              /\ OpEnds
              /\ ExShows(NoRow, overview, Reconciled(NoRow, overview, exKey, exListed, exRefresh.at), exArmed)
              /\ exRefresh' = Begins(NoRow)
           \/ /\ ExOpen /\ ~converged /\ exSvc.machine # "gone"
              /\ ExShows(read, exScreen, exKey, exArmed)
              /\ UNCHANGED <<exOp, exWire, exRefresh>>
           \/ /\ ExOpen
              /\ ExSettle(read) \/ ExSettle(exRow)     \* the budget lapsed, or the read failed
              /\ UNCHANGED exRefresh
    /\ UNCHANGED <<exSvc, exListed, exOutage, exEnd, exGhosts>>

\* recoverCreation clears its mark whatever happened.
RecoverReturns ==
    /\ exOp = [kind |-> "recover", at |-> "sent"]
    /\ OpEnds
    /\ \/ /\ Closing
          /\ exRow' = IF exRow = NoRow THEN NoRow ELSE [exRow EXCEPT !.pending = ""]
          /\ UNCHANGED <<exScreen, exKey, exArmed, exSteady>>
       \/ ExOpen /\ ExSettle(IF exRow = NoRow \/ exSvc.machine = "gone" THEN exRow
                                    ELSE [exRow EXCEPT !.state = exSvc.machine])
       \/ ExOpen /\ ExSettle(exRow)
    /\ UNCHANGED <<exSvc, exListed, exRefresh, exOutage, exEnd, exGhosts>>

-----------------------------------------------------------------------------
\* Keys.

\* exitWithFeedback, stop: what is in flight is fenced at its next step.
Leaves ==
    /\ exEnd' = "closed"
    /\ exScreen' = "machines" /\ exKey' = "" /\ exArmed' = NotArmed /\ exSteady' = FALSE
    /\ UNCHANGED <<exRow, exOp, exWire, exRefresh, exBlind>>

ExOpens(screen) ==
    /\ ExShows(exRow, screen, FirstKey(SelectableKeys(exRow, screen, exListed)), NotArmed)
    /\ UNCHANGED <<exOp, exWire, exRefresh, exBlind, exEnd>>

\* moveSelection: among what was painted; "stale" is a choice that was, and is
\* not there any more.
Arrow ==
    /\ ExOpen
    /\ \E k \in Range(SelectableKeys(exRow, exScreen, exListed)) \cup {"stale"}:
         ExShows(exRow, exScreen, k, NotArmed)
    /\ UNCHANGED <<exRemote, exListed, exRefresh, exOutage, exOp, exEnd, exGhosts>>

\* goBack
GoBack ==
    /\ ExOpen /\ exScreen # "machines"
    /\ LET keys == SelectableKeys(exRow, "machines", exListed)
       IN  ExShows(exRow, "machines",
                 IF exScreen = "machine" /\ "machine" \in Range(keys) THEN "machine" ELSE FirstKey(keys), NotArmed)
    /\ UNCHANGED <<exRemote, exListed, exRefresh, exOutage, exOp, exEnd, exGhosts>>

\* openNewMachine
OpenNewMachine ==
    /\ ExOpen /\ exScreen = "machines"
    /\ ExShows(exRow, "new", "", NotArmed)
    /\ UNCHANGED <<exRemote, exListed, exRefresh, exOutage, exOp, exEnd, exGhosts>>

\* Enter or Right on a session, in the overview or among a provider's.
OpensSession ==
    /\ exKey \in {"session", "provider"} /\ exRow # NoRow /\ exRow.session # 0
    /\ \E r \in Recoveries:
         \/ r = "attach" /\ exRow.state = "running" /\ Leaves
         \/ /\ r = "refresh" /\ exRefresh' = Begins(exRow) /\ Still
            /\ UNCHANGED <<exOp, exWire, exBlind, exEnd>>      \* "wait" shows a notice

\* Delete: armed by one Enter, and sent by a second while all it named stands.
AsksDelete ==
    /\ exRefresh.at = "idle" /\ ~exRow.error /\ ~exOutage
    /\ \/ /\ exArmed # Fingerprint(exRow)
          /\ exArmed' = Fingerprint(exRow) /\ exSteady' = TRUE
          /\ UNCHANGED <<exRow, exScreen, exKey, exOp, exWire, exBlind>>
       \/ /\ exArmed = Fingerprint(exRow)
          /\ Starts("delete")
          /\ exBlind' = (exBlind \/ ~exSteady)
    /\ UNCHANGED <<exRefresh, exEnd>>

\* The context actions of the Machine's screen.
ActsOnMachine ==
    /\ exScreen = "machine" /\ exRow # NoRow
    /\ exKey \in Range(ContextActions(exRow))
    /\ \/ /\ exKey \in {"start", "stop", "recover"} /\ Starts(exKey)
          /\ UNCHANGED <<exRefresh, exBlind, exEnd>>
       \/ exKey = "delete" /\ AsksDelete
       \/ exKey = "new" /\ Leaves

\* applyKey: Enter
Enter ==
    /\ ExOpen
    /\ \/ exScreen = "new" /\ Leaves        \* with a name, once the account may create
       \/ exScreen # "new" /\ exKey = "machine" /\ ExOpens("machine")
       \/ OpensSession
       \/ ActsOnMachine
       \/ exKey = "create" /\ "create" \in Range(SelectableKeys(exRow, exScreen, exListed)) /\ Leaves
    /\ UNCHANGED <<exSvc, exListed, exOutage, exStraddled>>

\* goForward: like Enter, but it changes nothing but the screen.
GoForward ==
    /\ ExOpen
    /\ IF exScreen = "machines" /\ exKey = "machine"
       THEN ExShows(exRow, "machine", FirstKey(SelectableKeys(exRow, "machine", exListed)), NotArmed)
       ELSE ExShows(exRow, exScreen, exKey, NotArmed)
    /\ UNCHANGED <<exRemote, exListed, exRefresh, exOutage, exOp, exEnd, exGhosts>>

\* q and an abort, e and w, p.
Leave ==
    /\ ExOpen /\ Leaves
    /\ UNCHANGED <<exSvc, exListed, exOutage, exStraddled>>

-----------------------------------------------------------------------------
ExNext ==
    \/ ExLands \/ ElsewhereChanges
    \/ AsksRefresh \/ ListAnswers \/ ListFails \/ SessionsAnswer \/ CapabilityAnswers \/ RefreshDropped
    \/ CapabilityDecides \/ RequestReturns \/ ReadsBack \/ RecoverReturns
    \/ Arrow \/ GoBack \/ OpenNewMachine \/ Enter \/ GoForward \/ Leave

ExSpec == ExInit /\ [][ExNext]_exVars

-----------------------------------------------------------------------------
\* A delete is sent for what its confirmation named, and nothing moved in
\* between: not the Machine's state or sessions, not the selection, even when
\* it came back to where it was (render, pendingDelete).
DeleteAsShown == ~exBlind

\* The mark on a row is the change in place that is under way, so that a
\* Machine takes one change at a time and a mark ends with its change
\* (MachineRow.pendingLifecycle); unless a list was being read when it began
\* or ended: refresh writes back the mark it read before the list.
PendingIsTrue ==
    ExOpen /\ exRow # NoRow /\ ~exStraddled
      => exOp.kind = exRow.pending

\* The same, unconditionally: machineContextActions says "A Machine
\* mid-transition accepts no second action until it settles."
MarkIsTrue == ExOpen /\ exRow # NoRow => exOp.kind = exRow.pending
=============================================================================
