--------------------------- MODULE MachineCommands ---------------------------
(***************************************************************************)
(* `cuna machines create` (commands/commands.ts): one keyed create, sent   *)
(* once and then followed by its receipt.  Another run of the same key, at *)
(* the same time or before, names the same durable request; all it does to *)
(* this one is to move that request's receipt.  The clock counts ticks     *)
(* from startedAt.                                                         *)
(*                                                                         *)
(* The --install-tetragon choice, kept in a local record, is MachineChoice *)
(***************************************************************************)
EXTENDS Naturals

CONSTANTS
    CrDeadline,   \* MACHINE_CREATE_FOLLOW_DEADLINE_MS
    CrPoll,       \* MACHINE_CREATE_FOLLOW_POLL_INTERVAL_MS
    CrBudget      \* --timeout-ms, of one request

ASSUME CreateTimes == {CrDeadline, CrPoll, CrBudget} \subseteq Nat /\ CrPoll > 0

VARIABLES
    crReceipt,    \* the service's receipt: absent, prepared, pending, unknown, settled, failed
    crMachine,    \* the Machine: none, starting, running, error
    crFlying,     \* its POST has left and has not reached the service
    crPc, crNow,
    crOpts,       \* [keyed, background]
    crPosted,     \* the follow may not send the POST (again)
    crSeen,       \* the last receipt and Machine the follow has read
    crTold,       \* ghost: an answer named the Machine: "no", "kept", "dropped"
    crEnd         \* how the command ended

crVars == <<crReceipt, crMachine, crFlying, crPc, crNow, crOpts, crPosted, crSeen, crTold, crEnd>>
crService == <<crReceipt, crMachine>>

NothingSeen == [receipt |-> "none", machine |-> "none"]

CrInit ==
    /\ crReceipt = "absent" /\ crMachine = "none"
    /\ crFlying = FALSE
    /\ crPc = "idle" /\ crNow = 0
    /\ crOpts = [keyed |-> FALSE, background |-> FALSE]
    /\ crPosted = TRUE
    /\ crSeen = NothingSeen
    /\ crTold = "no" /\ crEnd = "none"

-----------------------------------------------------------------------------
\* The service.

CreateLands ==
    /\ crFlying
    /\ crFlying' = FALSE
    /\ \/ crReceipt \in {"absent", "prepared"} /\ crReceipt' \in {"prepared", "pending"}
       \/ UNCHANGED crReceipt                 \* refused, or known already
    /\ UNCHANGED <<crMachine, crPc, crNow, crOpts, crPosted, crSeen, crTold, crEnd>>

\* The POST of another run with this key.
ElsewhereSends ==
    /\ crReceipt \in {"absent", "prepared"} /\ crReceipt' \in {"prepared", "pending"}
    /\ UNCHANGED <<crMachine, crFlying, crPc, crNow, crOpts, crPosted, crSeen, crTold, crEnd>>

ProviderMoves ==
    /\ \/ /\ crReceipt = "pending" /\ crReceipt' \in {"settled", "unknown", "failed"}
          /\ crMachine' = IF crReceipt' = "settled" THEN "starting" ELSE crMachine
       \/ crMachine = "starting" /\ crMachine' \in {"running", "error"} /\ UNCHANGED crReceipt
    /\ UNCHANGED <<crFlying, crPc, crNow, crOpts, crPosted, crSeen, crTold, crEnd>>

-----------------------------------------------------------------------------
CrTo(pc) == crPc' = pc /\ UNCHANGED crEnd

CrEnds(how) ==
    /\ crPc' = "done"
    /\ crEnd' = how

Smaller(a, b) == IF a < b THEN a ELSE b
Larger(a, b) == IF a > b THEN a ELSE b

\* boundedCreateRead
CrBound(t) == Smaller(CrBudget, Larger(IF t < CrDeadline THEN CrDeadline - t ELSE 0, CrPoll))

\* A request of the follow that was answered took up to its bound.
Takes == \E d \in 0..CrBound(crNow): crNow' = crNow + d

Committed(receipt) == receipt = "settled"

\* machineCreateUnconfirmed: naming the Machine, never to be created again, or
\* to be followed again with the key.
Unconfirmed ==
    IF crSeen.machine # "none" \/ Committed(crSeen.receipt) THEN "unconfirmed_known"
                                                            ELSE "unconfirmed_again"

StartCreate ==
    /\ crPc = "idle"
    /\ \E keyed, background \in BOOLEAN:
         /\ crOpts' = [keyed |-> keyed, background |-> background]
         /\ \/ CrTo(IF keyed THEN "known" ELSE "post")
            \/ CrEnds("refused")             \* the capability, the identity, the options
    /\ UNCHANGED <<crService, crFlying, crNow, crPosted, crSeen, crTold>>

\* Keyed: the receipt is read first, and only its absence leads to a POST.
CheckKnown ==
    /\ crPc = "known"
    /\ \/ /\ crReceipt = "absent" /\ CrTo("post") /\ UNCHANGED <<crPosted, crTold>>
       \/ /\ crReceipt # "absent" /\ CrTo("receipt")
          /\ crPosted' = FALSE
          /\ crTold' = IF Committed(crReceipt) THEN "dropped" ELSE crTold
       \/ CrEnds("raw") /\ UNCHANGED <<crPosted, crTold>>
    /\ UNCHANGED <<crService, crFlying, crNow, crOpts, crSeen>>

\* The POST leaves, or its connection is never made.
SendCreate ==
    /\ crPc = "post"
    /\ \/ crFlying' = TRUE /\ CrTo("posted")
       \/ CrEnds("raw") /\ UNCHANGED crFlying
    /\ UNCHANGED <<crService, crNow, crOpts, crPosted, crSeen, crTold>>

\* machineCreateOutcomeUnobserved: without an answer the receipt is read, never
\* the POST sent again; a refusal the service answered ends the command.
CreateReturns ==
    /\ crPc = "posted"
    /\ \E d \in 0..CrBudget: crNow' = crNow + d
    /\ \/ /\ ~crFlying /\ Committed(crReceipt) /\ CrTo("readback")
          /\ crSeen' = [crSeen EXCEPT !.machine = crMachine]
          /\ crTold' = "kept"
       \/ CrTo("receipt") /\ UNCHANGED <<crSeen, crTold>>
       \/ ~crFlying /\ crReceipt = "absent" /\ CrEnds("raw") /\ UNCHANGED <<crSeen, crTold>>
    /\ UNCHANGED <<crService, crFlying, crOpts, crPosted>>

\* readCreatedMachine
ReadBack ==
    /\ crPc = "readback"
    /\ Takes
    /\ CrEnds("created") \/ CrEnds(Unconfirmed) \/ CrEnds("raw")
    /\ UNCHANGED <<crService, crFlying, crOpts, crPosted, crSeen, crTold>>

-----------------------------------------------------------------------------
\* followMachineCreate: one pass of its loop.

\* A read that was not answered, or found no receipt yet, leaves what was read
\* before: `receipt = current` is under `current !== undefined`.
EarlyForgets == NothingSeen
Early == crSeen

\* A receipt that failed, one that names the Machine, one the CLI may send
\* again, or one to wait for.
TakeReceipt(receipt) ==
    /\ crSeen' = [crSeen EXCEPT !.receipt = receipt]
    /\ crTold' = IF Committed(receipt) THEN "kept" ELSE crTold
    /\ CASE receipt = "failed" -> CrEnds("failed")
         [] Committed(receipt) -> CrTo("machine")
         [] receipt = "prepared" /\ ~crPosted -> CrTo("repost")
         [] OTHER -> CrTo("wait")

ReadReceiptOf ==
    /\ crPc = "receipt"
    /\ Takes
    /\ CASE crReceipt = "absent" -> CrTo("wait") /\ crSeen' = Early /\ UNCHANGED crTold
         [] crReceipt = "unknown" -> CrTo("reconcile") /\ UNCHANGED <<crSeen, crTold>>
         [] OTHER -> TakeReceipt(crReceipt)
    /\ UNCHANGED <<crService, crFlying, crOpts, crPosted>>

\* POST .../reconcile answers with the receipt the service now has.
ReconcileReceipt ==
    /\ crPc = "reconcile"
    /\ Takes
    /\ IF crReceipt = "unknown" THEN crReceipt' \in {"unknown", "prepared", "settled", "failed"}
                                ELSE UNCHANGED crReceipt
    /\ crMachine' = IF crReceipt' = "settled" /\ crMachine = "none" THEN "starting" ELSE crMachine
    /\ TakeReceipt(crReceipt')
    /\ UNCHANGED <<crFlying, crOpts, crPosted>>

ReadMachine ==
    /\ crPc = "machine"
    /\ Takes
    /\ crSeen' = [crSeen EXCEPT !.machine = crMachine]
    /\ CASE crOpts.background \/ crMachine = "running" -> CrEnds("created")
         [] crMachine = "error" /\ ~crOpts.background -> CrEnds("failed")
         [] OTHER -> CrTo("wait")
    /\ UNCHANGED <<crService, crFlying, crOpts, crPosted, crTold>>

\* The one POST the receipt itself asks for; the loop then goes on at once.
\* Its answer is not kept.
RetriesAgain ==
    /\ crPc = "repost"
    /\ crFlying' = TRUE
    /\ CrTo("reposted")
    /\ UNCHANGED <<crService, crNow, crOpts, crPosted, crSeen, crTold>>

RetryCreate ==
    /\ crPc = "repost"
    /\ crPosted' = TRUE
    /\ crFlying' = TRUE
    /\ CrTo("reposted")
    /\ UNCHANGED <<crService, crNow, crOpts, crSeen, crTold>>

RetryReturns ==
    /\ crPc = "reposted"
    /\ Takes
    /\ \/ /\ CrTo("receipt")
          /\ \/ /\ ~crFlying /\ Committed(crReceipt)
                /\ crTold' = IF crTold = "no" THEN "dropped" ELSE crTold
             \/ UNCHANGED crTold
       \/ CrEnds("raw") /\ UNCHANGED crTold
    /\ UNCHANGED <<crService, crFlying, crOpts, crPosted, crSeen>>

\* machineCreateReceiptNotYetReadable: abandoned at its bound or unanswered.
FollowSilent ==
    /\ crPc \in {"receipt", "reconcile", "machine"}
    /\ crNow' = crNow + CrBound(crNow)
    /\ CrTo("wait")
    /\ crSeen' = Early
    /\ UNCHANGED <<crService, crFlying, crOpts, crPosted, crTold>>

\* readFailed: a sign-in renewal that did not complete ends the follow naming
\* what it knows; any other answer is passed on, an identity that disagrees
\* reported as unverified.
FollowFails ==
    /\ crPc \in {"receipt", "reconcile", "machine", "reposted"}
    /\ CrEnds(Unconfirmed) \/ CrEnds("raw") \/ (crPc # "reposted" /\ CrEnds("unverified"))
    /\ UNCHANGED <<crService, crFlying, crNow, crOpts, crPosted, crSeen, crTold>>

\* The foot of the loop: the only look at the deadline.
FollowWaits ==
    /\ crPc = "wait"
    /\ IF crNow >= CrDeadline
         THEN CrEnds(Unconfirmed) /\ UNCHANGED crNow
         ELSE /\ crNow' = crNow + Smaller(CrPoll, CrDeadline - crNow)
              /\ CrTo("receipt")
    /\ UNCHANGED <<crService, crFlying, crOpts, crPosted, crSeen, crTold>>

CrNext ==
    \/ CreateLands \/ ElsewhereSends \/ ProviderMoves
    \/ StartCreate \/ CheckKnown \/ SendCreate \/ CreateReturns \/ ReadBack
    \/ ReadReceiptOf \/ ReconcileReceipt \/ ReadMachine \/ RetryCreate \/ RetryReturns
    \/ FollowSilent \/ FollowFails \/ FollowWaits

CrSpec == CrInit /\ [][CrNext]_crVars

-----------------------------------------------------------------------------
\* A command that was told of its Machine by the answer to its POST or by a
\* read of the follow never ends with the advice to run the create again, no
\* matter which later reads fail or time out (machineCreateUnconfirmed).
KnownIsNamed == crTold = "kept" => crEnd # "unconfirmed_again"

\* A follow outlives its deadline by at most six polls: it looks at the clock
\* once a pass, a pass makes up to three requests of one poll each, and the
\* receipt's own retry starts a second pass without a look (followMachineCreate).
FollowBounded == crNow <= Larger(CrDeadline, CrBudget) + 6 * CrPoll

\* What machineCreateUnconfirmed's comment says of every committed create.  The
\* receipt read of a keyed run and the answer to the retried POST are dropped.
CommittedNeverAgain == crTold # "no" => crEnd # "unconfirmed_again"

-----------------------------------------------------------------------------
(***************************************************************************)
(* The commands that ask the service to change something that exists, and  *)
(* then read it back (commands/commands.ts): machines start, pause,        *)
(* resume, stop, delete and update-supervisor, agent-sessions terminate,   *)
(* rename and create, and agent logout.  A change is                       *)
(* accepted first and takes effect later, and others change the same       *)
(* Machine and session meanwhile.                                          *)
(***************************************************************************)

CONSTANT RcBudget     \* convergeOnRemoteState: the reads its budget allows

Transitions == [start |-> "running", resume |-> "running", pause |-> "paused", stop |-> "stopped"]
Commands == DOMAIN Transitions \cup {"delete", "update", "terminate", "rename", "logout", "launch"}
Converging == DOMAIN Transitions \cup {"delete", "terminate"}

VARIABLES
    rcMachine,    \* running, paused, stopped, deleted
    rcSession,    \* desired, request and process state of the AgentSession
    rcName, rcLogin,
    rcAccepted,   \* the service took the change and has not applied it yet
    rcLanded,     \* ghost: the change has taken effect
    rcCmd, rcPc,
    rcBefore,     \* the read made before a transition found the state wanted
    rcReads,      \* reads of the convergence so far
    rcEnd

rcVars == <<rcMachine, rcSession, rcName, rcLogin, rcAccepted, rcLanded, rcCmd, rcPc, rcBefore, rcReads, rcEnd>>
rcRemote == <<rcMachine, rcSession, rcName, rcLogin, rcAccepted, rcLanded>>

RcInit ==
    /\ rcMachine = "running"
    /\ rcSession = [desired |-> "running", request |-> "launched", process |-> "running"]
    /\ rcName = "old" /\ rcLogin = "signed_in"
    /\ rcAccepted = FALSE /\ rcLanded = FALSE
    /\ rcCmd = "none" /\ rcPc = "idle" /\ rcBefore = FALSE /\ rcReads = 0 /\ rcEnd = "none"

-----------------------------------------------------------------------------
\* The service and everyone else.

EndedProcess == {"terminated", "exited", "failed"}

\* The accepted change takes effect, a termination in two steps: its process
\* ends, then its request settles.
ChangeLands ==
    /\ rcAccepted
    /\ \/ /\ rcCmd \in DOMAIN Transitions \cup {"delete"}
          /\ rcMachine' = IF rcCmd = "delete" THEN "deleted" ELSE Transitions[rcCmd]
          /\ rcAccepted' = FALSE /\ rcLanded' = TRUE /\ UNCHANGED rcSession
       \/ /\ rcCmd = "terminate" /\ rcSession.process \notin EndedProcess
          /\ \E p \in EndedProcess: rcSession' = [rcSession EXCEPT !.process = p]
          /\ UNCHANGED <<rcMachine, rcAccepted, rcLanded>>
       \/ /\ rcCmd = "terminate" /\ rcSession.process \in EndedProcess
          /\ rcSession' = [rcSession EXCEPT !.request = "terminal"]
          /\ rcAccepted' = FALSE /\ rcLanded' = TRUE /\ UNCHANGED rcMachine
    /\ UNCHANGED <<rcName, rcLogin, rcCmd, rcPc, rcBefore, rcReads, rcEnd>>

OthersAct ==
    /\ \/ rcMachine # "deleted" /\ rcMachine' \in {"running", "paused", "stopped"} /\ UNCHANGED <<rcSession, rcName, rcLogin>>
       \/ /\ rcSession.process = "running" /\ rcSession' = [rcSession EXCEPT !.process = "exited"]
          /\ UNCHANGED <<rcMachine, rcName, rcLogin>>
       \/ /\ rcSession.desired = "running" /\ rcSession.process = "exited"     \* its launch is given up
          /\ rcSession' = [rcSession EXCEPT !.request = "terminal"]
          /\ UNCHANGED <<rcMachine, rcName, rcLogin>>
       \/ rcName' = "else" /\ UNCHANGED <<rcMachine, rcSession, rcLogin>>
       \/ rcLogin' \in {"signed_in", "unavailable"} /\ UNCHANGED <<rcMachine, rcSession, rcName>>
    /\ UNCHANGED <<rcAccepted, rcLanded, rcCmd, rcPc, rcBefore, rcReads, rcEnd>>

-----------------------------------------------------------------------------
RcTo(pc) == rcPc' = pc /\ UNCHANGED rcEnd
RcEnds(how) == rcPc' = "done" /\ rcEnd' = how

\* The preflight, the confirmation and the capability; a transition reads the
\* Machine first, and update-supervisor wants it stopped.
Admit ==
    /\ rcPc = "idle"
    /\ rcCmd' \in Commands
    /\ rcBefore' = (rcCmd' \in DOMAIN Transitions /\ rcMachine = Transitions[rcCmd'])
    /\ \/ RcTo("ask")
       \/ RcEnds("refused")
    /\ (rcCmd' = "update" /\ rcMachine # "stopped") => rcPc' = "done"
    /\ UNCHANGED <<rcRemote, rcReads>>

\* The request is answered at once; what it asked for follows.  A rename and a
\* sign-out are applied before the answer.
Ask ==
    /\ rcPc = "ask"
    /\ rcAccepted' = (rcCmd \in Converging)
    /\ rcLanded' = (rcCmd \notin Converging)
    /\ rcName' = IF rcCmd = "rename" THEN "new" ELSE rcName
    /\ rcLogin' = IF rcCmd = "logout" /\ rcLogin = "signed_in" THEN "login_required" ELSE rcLogin
    /\ rcSession' = IF rcCmd = "terminate"
                      THEN [rcSession EXCEPT !.desired = "terminated", !.request = "termination_pending"]
                      ELSE rcSession
    /\ \/ RcTo("read")
       \/ rcCmd = "terminate" /\ RcEnds("accepted")        \* --no-wait
       \/ rcCmd = "update" /\ RcEnds("done")               \* the answer is the confirmed Machine
    /\ UNCHANGED <<rcMachine, rcCmd, rcBefore, rcReads>>

\* The request is refused, unanswered or answered about something else.  For
\* update-supervisor the refusal is given its own next step
\* (supervisorReplaceRefusal); a create of a session carries its key along.
AskFails ==
    /\ rcPc = "ask"
    /\ RcEnds("unverified") \/ RcEnds("raw") \/ (rcCmd = "update" /\ \E a \in {"again", "never"}: RcEnds(a))
    /\ UNCHANGED <<rcRemote, rcCmd, rcBefore, rcReads>>

\* agentSessionTerminationConfirmed
ConfirmedByProcess(s) == s.process \in EndedProcess

TerminationConfirmed(s) ==
    s.desired = "terminated" /\ s.request = "terminal" /\ s.process \in EndedProcess

Settled ==
    CASE rcCmd \in DOMAIN Transitions -> rcMachine = Transitions[rcCmd]
      [] rcCmd = "delete" -> rcMachine = "deleted"
      [] rcCmd = "terminate" -> TerminationConfirmed(rcSession)
      [] rcCmd = "rename" -> rcName = "new"
      [] rcCmd = "logout" -> rcLogin \in {"login_required", "unavailable"}
      [] OTHER -> TRUE

\* convergeOnRemoteState for a change that takes effect later: its budget
\* elapsing is no contradiction.  A change that is made when it is answered is
\* read back once, and a read that disagrees is one.
Observe ==
    /\ rcPc = "read"
    /\ rcReads' = rcReads + 1
    /\ CASE Settled -> RcEnds(IF rcBefore THEN "already" ELSE "done")
         [] ~Settled /\ rcCmd \notin Converging -> RcEnds("unverified")
         [] ~Settled /\ rcCmd \in Converging -> IF rcReads' >= RcBudget THEN RcEnds("elapsed") ELSE RcTo("read")
    /\ UNCHANGED <<rcRemote, rcCmd, rcBefore>>

ObserveFails ==
    /\ rcPc = "read"
    /\ RcEnds("raw")
    /\ UNCHANGED <<rcRemote, rcCmd, rcBefore, rcReads>>

RcNext == ChangeLands \/ OthersAct \/ Admit \/ Ask \/ AskFails \/ Observe \/ ObserveFails

RcSpec == RcInit /\ [][RcNext]_rcVars

-----------------------------------------------------------------------------
\* A termination is reported done only when the command's own request has taken
\* effect, not when the session's process happened to end or its launch was
\* given up meanwhile (agentSessionTerminationConfirmed).
DoneHasLanded == rcEnd = "done" /\ rcCmd = "terminate" => rcLanded
=============================================================================
