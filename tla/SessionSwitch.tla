---------------------------- MODULE SessionSwitch ----------------------------
(***************************************************************************)
(* One `cuna` command on the terminals of a Machine                        *)
(* (runtime/node-foreground-session.ts, terminal/session-roster.ts): it    *)
(* admits an AgentSession, attaches it, and goes on attaching whatever the *)
(* person picks on the bar.  The host terminal is taken once and given     *)
(* back once; a failed switch returns once to the session left; this       *)
(* computer's client identity of a session is forgotten when the session   *)
(* is over; the last lines say which sessions keep running.  Meanwhile     *)
(* sessions start, restart and end on the Machine, and the bar's listing   *)
(* is read in the background.                                              *)
(***************************************************************************)
EXTENDS Naturals, Sequences, FiniteSets

CONSTANTS SwSessions,     \* AgentSessions of the Machine, 1..n
          SwSwitches,     \* bound: switches the person asks for
          SwEvents,       \* bound: sessions that start, restart or end meanwhile
          SwWaits         \* bound: waits for a fresh runtime lease

ASSUME SwitchBounds == 1 \in SwSessions /\ SwSwitches \in Nat /\ SwEvents \in Nat /\ SwWaits \in Nat

VARIABLES swServer,       \* session -> its row (external)
          swRun,          \* the command: step, session, way back, ...
          swBar,          \* the roster: a sequence of [id, ended, version]
          swPainted,      \* the bar as last painted
          swListing,      \* the listing on its way, or none
          swClients,      \* sessions whose client identity is remembered here
          swHost,         \* "shell", "held" or "restored"
          swEvents,       \* sessions that started, restarted or ended so far
          swForgot        \* ghost: sessions whose identity was forgotten alive
swVars == <<swServer, swRun, swBar, swPainted, swListing, swClients, swHost, swEvents, swForgot>>

\* A session's row.
NoSession == [there |-> FALSE, alive |-> FALSE, epoch |-> 0, version |-> 0]
NewSession == [there |-> TRUE, alive |-> TRUE, epoch |-> 1, version |-> 1]
NoListing == [asked |-> FALSE, rows |-> [s \in SwSessions |-> NoSession]]
\* isAgentSessionGone.
IsGone(row) == ~row.alive

SwInit ==
    /\ swServer = [s \in SwSessions |-> IF s = 1 THEN NewSession ELSE NoSession]
    /\ swRun = [pc |-> "read", cur |-> 1, prev |-> 0, failed |-> FALSE, cancelled |-> FALSE, retried |-> FALSE,
                seen |-> NoSession, waits |-> 0, target |-> 0, switches |-> 0, error |-> "none",
                detached |-> {}, ended |-> {}, read_gone |-> {}, told |-> {}]
    /\ swBar = <<>>
    /\ swPainted = <<>>
    /\ swListing = NoListing
    /\ swClients = SwSessions
    /\ swHost = "shell"
    /\ swEvents = 0
    /\ swForgot = {}

On(s) == swRun.pc = s
SwGoes(r) == swRun' = r
SwAt(s) == SwGoes([swRun EXCEPT !.pc = s])
\* The attempt throws; runNodeForegroundSessionsWithRetry looks at the error.
Throws1(error) == SwGoes([swRun EXCEPT !.pc = "thrown", !.error = error])
Outside == UNCHANGED <<swServer, swEvents>>
BarKept == UNCHANGED <<swBar, swPainted, swListing>>
StillOn == Outside /\ BarKept /\ UNCHANGED <<swClients, swHost, swForgot>>
\* The steps between two attachments, where Ctrl+C is read by the switch.
Between == swRun.prev # 0 \/ swRun.failed
Admitting == swRun.pc \in {"read", "lease", "wait", "observe", "claim"}

\* forgetTerminalClientIdentity.
Forgets(s) ==
    /\ swClients' = swClients \ {s}
    /\ swForgot' = IF swServer[s].alive THEN swForgot \cup {s} ELSE swForgot

\* runNodeForegroundSessionsAdmitted, first read: a session already gone takes
\* its remembered client with it; the attach decides on its own.
ReadSession1 ==
    /\ On("read")
    /\ LET row == swServer[swRun.cur]
       IN /\ SwGoes([swRun EXCEPT !.pc = "lease", !.seen = row, !.waits = 0,
                        !.read_gone = IF IsGone(row) THEN @ \cup {swRun.cur} ELSE @])
          /\ IF IsGone(row) THEN Forgets(swRun.cur) ELSE UNCHANGED <<swClients, swForgot>>
    /\ Outside /\ BarKept /\ UNCHANGED swHost

\* Terminal capability: admitted, refused, or an expired runtime lease of a
\* live process, which is worth a wait.
Capability1 ==
    /\ On("lease")
    /\ \/ ~IsGone(swServer[swRun.cur]) /\ SwAt("observe")
       \/ Throws1("refused")
       \/ /\ ~IsGone(swRun.seen)
          /\ swRun.waits < SwWaits
          /\ SwGoes([swRun EXCEPT !.pc = "wait", !.waits = @ + 1])
    /\ StillOn

\* sameLiveSessionProcess: after the wait it must be the process read before.
SameProcess(a, b) == a.epoch = b.epoch /\ b.alive
WaitOver ==
    /\ On("wait")
    /\ IF SameProcess(swRun.seen, swServer[swRun.cur])
       THEN SwGoes([swRun EXCEPT !.pc = "lease", !.seen = swServer[swRun.cur]])
       ELSE Throws1("changed")
    /\ StillOn

\* admitSessionIdentity: the live observation is of the process read before.
Observe1 ==
    /\ On("observe")
    /\ IF SameProcess(swRun.seen, swServer[swRun.cur]) THEN SwAt("claim") ELSE Throws1("changed")
    /\ StillOn

StartsAnyway == FALSE
\* coordinator.start: throwIfAborted before the host is touched.
AbortSeen == swRun.cancelled
\* claimClientIdentity, then the coordinator and its runtime: from here the
\* host terminal's input is the coordinator's.  An abort seen by start.
ClaimAndStart ==
    /\ On("claim")
    /\ IF AbortSeen THEN Throws1("cancelled") ELSE SwAt("attach")
    /\ swClients' = IF IsGone(swRun.seen) THEN swClients ELSE swClients \cup {swRun.cur}
    /\ swHost' = IF AbortSeen THEN swHost ELSE "held"
    /\ Outside /\ BarKept /\ UNCHANGED swForgot

\* runtime.attach: the picture, or a refusal.  The owner of an exact process
\* is unrecoverable when it is gone, and also while a live one's Machine has
\* not attested its terminal again.
Attach1 ==
    /\ On("attach")
    /\ \/ SameProcess(swRun.seen, swServer[swRun.cur]) /\ SwAt("screen")
       \/ Throws1("early")
       \/ Throws1("owner_gone")
       \/ Throws1("refused")
    /\ StillOn

\* Ctrl+C while a switch is between two attachments.
CancelSwitch ==
    /\ Between /\ Admitting
    /\ ~swRun.cancelled
    /\ SwGoes([swRun EXCEPT !.cancelled = TRUE])
    /\ StillOn

\* throwIfAborted, before and after each read.
SeesCancel ==
    /\ swRun.cancelled
    /\ On("read") \/ On("lease") \/ On("wait") \/ On("observe")
    /\ Throws1("cancelled")
    /\ StillOn

\* retryableEarlyTerminalFailure: by the message.
RetriesEarly(error) == error = "early"

\* The whole composition is tried once more.
Retry ==
    /\ On("thrown")
    /\ RetriesEarly(swRun.error)
    /\ ~swRun.retried
    /\ SwGoes([swRun EXCEPT !.pc = "read", !.retried = TRUE])
    /\ StillOn

ForgetsOnCode(row) == TRUE
\* The durable row decides, not the refusal's code.
ForgetsWhenGone(row) == IsGone(row)

\* runForgettingEndedSessions, after the retry: the row is read again when the
\* refusal says the owner is unrecoverable.
GiveUp ==
    /\ On("thrown")
    /\ ~(RetriesEarly(swRun.error) /\ ~swRun.retried)
    /\ SwAt("failed")
    /\ IF swRun.error = "owner_gone" /\ ForgetsWhenGone(swServer[swRun.cur])
       THEN Forgets(swRun.cur)
       ELSE UNCHANGED <<swClients, swForgot>>
    /\ Outside /\ BarKept /\ UNCHANGED swHost

\* runSwitchingForeground, catch: cancelled is a quiet end; the way back is
\* taken once; without one the command fails.
AfterFailure ==
    /\ On("failed")
    /\ SwGoes(CASE swRun.cancelled -> [swRun EXCEPT !.pc = "restore", !.error = "none"]
                [] ~swRun.cancelled /\ (swRun.failed \/ swRun.prev = 0) -> [swRun EXCEPT !.pc = "restore"]
                [] OTHER -> [swRun EXCEPT !.pc = "read", !.cur = swRun.prev, !.prev = 0, !.failed = TRUE,
                                          !.retried = FALSE, !.error = "none"])
    /\ StillOn

\* On screen: the bar is painted from the roster as it is.
PaintBar ==
    /\ On("screen")
    /\ swPainted # swBar
    /\ swPainted' = swBar
    /\ Outside /\ UNCHANGED <<swRun, swBar, swListing, swClients, swHost, swForgot>>

\* The person leaves and the runtime confirms it.
Left(r) == [r EXCEPT !.pc = "left", !.detached = @ \cup {swRun.cur}]
Detach1 ==
    /\ On("screen")
    /\ SwGoes(Left([swRun EXCEPT !.target = 0]))
    /\ StillOn

\* Ctrl+] and a number: the entry with that number, unless it has ended or is
\* the one on screen.
Pick ==
    /\ On("screen")
    /\ swRun.switches < SwSwitches
    /\ \E n \in 1..Len(swPainted) :
        /\ n <= Len(swBar) /\ ~swBar[n].ended /\ swBar[n].id # swRun.cur
        /\ SwGoes(Left([swRun EXCEPT !.target = n, !.switches = @ + 1]))
    /\ StillOn

\* The process on screen exits, or its connection is lost for good.  The
\* client is forgotten only with a process exit seen on the wire.
ExitSeen ==
    /\ On("screen")
    /\ IsGone(swServer[swRun.cur])
    /\ SwGoes([swRun EXCEPT !.pc = "left", !.target = 0, !.ended = @ \cup {swRun.cur}, !.detached = @ \ {swRun.cur}])
    /\ Forgets(swRun.cur)
    /\ Outside /\ BarKept /\ UNCHANGED swHost

Lost ==
    /\ On("screen")
    /\ Throws1("refused")
    /\ StillOn

\* The outcome: without a target the command is done; with one, the session
\* left is the way back and the target is next.
NextSession ==
    /\ On("left")
    /\ SwGoes(IF swRun.target = 0
              THEN [swRun EXCEPT !.pc = "restore", !.error = "none"]
              ELSE [swRun EXCEPT !.pc = "read", !.prev = swRun.cur, !.cur = swBar[swRun.target].id, !.target = 0,
                                 !.failed = FALSE, !.retried = FALSE, !.error = "none"])
    /\ StillOn

\* The roster stops and the host terminal is restored, whatever happened.
Restore ==
    /\ On("restore")
    /\ swHost' = IF swHost = "held" THEN "restored" ELSE swHost
    /\ SwAt("farewell")
    /\ swListing' = NoListing
    /\ Outside /\ UNCHANGED <<swBar, swPainted, swClients, swForgot>>

\* The sessions the bar marks ended.
BarEnded == {swBar[n].id : n \in {m \in 1..Len(swBar) : swBar[m].ended}}
TellsAll == swRun.detached
\* "Detached, keeps running": after a run that did not fail, for the sessions
\* detached and not seen to end.
Survivors == swRun.detached \ (BarEnded \cup swRun.ended)

Farewell ==
    /\ On("farewell")
    /\ SwGoes([swRun EXCEPT !.pc = "over", !.told = IF swRun.error = "none" THEN Survivors ELSE {}])
    /\ StillOn

\* PollingSessionRoster: one listing at a time, of the whole Machine.
AskListing ==
    /\ ~swListing.asked
    /\ swRun.pc \notin {"read", "restore", "farewell", "over"}
    /\ swListing' = [asked |-> TRUE, rows |-> swServer]
    /\ Outside /\ UNCHANGED <<swRun, swBar, swPainted, swClients, swHost, swForgot>>

ListingFails ==
    /\ swListing.asked
    /\ swListing' = NoListing
    /\ Outside /\ UNCHANGED <<swRun, swBar, swPainted, swClients, swHost, swForgot>>

\* mergeSessionRoster.  A known entry keeps its place and, once ended, stays
\* so; only a newer row changes it; new live sessions follow in the order of
\* their creation (here, of their number).
MergeEntry(e, rows) ==
    CASE ~rows[e.id].there                                             -> [e EXCEPT !.ended = TRUE]
      [] rows[e.id].there /\ (rows[e.id].version <= e.version \/ e.ended) -> e
      [] OTHER -> [id |-> e.id, ended |-> IsGone(rows[e.id]), version |-> rows[e.id].version]
Fresh1(bar, rows) == {s \in SwSessions : rows[s].there /\ rows[s].alive /\ \A n \in 1..Len(bar) : bar[n].id # s}
InOrder(set) == [n \in 1..Cardinality(set) |-> CHOOSE s \in set : Cardinality({t \in set : t < s}) = n - 1]
MergedAfresh(bar, rows) ==
    LET new == InOrder({s \in SwSessions : rows[s].there /\ rows[s].alive})
    IN [n \in 1..Len(new) |-> [id |-> new[n], ended |-> FALSE, version |-> rows[new[n]].version]]
MergedRoster(bar, rows) ==
    LET kept == [n \in 1..Len(bar) |-> MergeEntry(bar[n], rows)]
        new  == InOrder(Fresh1(bar, rows))
    IN kept \o [n \in 1..Len(new) |-> [id |-> new[n], ended |-> FALSE, version |-> rows[new[n]].version]]

ListingArrives ==
    /\ swListing.asked
    /\ swBar' = MergedRoster(swBar, swListing.rows)
    /\ swListing' = NoListing
    /\ Outside /\ UNCHANGED <<swRun, swPainted, swClients, swHost, swForgot>>

\* The Machine (external).
ServerMoves ==
    /\ swEvents < SwEvents
    /\ swEvents' = swEvents + 1
    /\ \E s \in SwSessions :
        \/ ~swServer[s].there /\ swServer' = [swServer EXCEPT ![s] = NewSession]
        \/ /\ swServer[s].alive
           /\ \/ swServer' = [swServer EXCEPT ![s].alive = FALSE, ![s].version = @ + 1]
              \/ swServer' = [swServer EXCEPT ![s].epoch = @ + 1, ![s].version = @ + 1]
    /\ UNCHANGED <<swRun, swBar, swPainted, swListing, swClients, swHost, swForgot>>

SwNext ==
    \/ ReadSession1 \/ Capability1 \/ WaitOver \/ Observe1 \/ ClaimAndStart \/ Attach1
    \/ CancelSwitch \/ SeesCancel \/ Retry \/ GiveUp \/ AfterFailure
    \/ PaintBar \/ Detach1 \/ Pick \/ ExitSeen \/ Lost \/ NextSession \/ Restore \/ Farewell
    \/ AskListing \/ ListingFails \/ ListingArrives
    \/ ServerMoves

SwSpec == SwInit /\ [][SwNext]_swVars

\* What the command says at the end it knows: a session announced as running
\* was left by a confirmed detach, and neither the bar nor a screen showed its
\* end since; and it is said on the person's own terminal, given back first.
FarewellIsTrue ==
    On("over") => /\ swHost # "held"
                  /\ \A s \in swRun.told : s \in swRun.detached /\ s \notin swRun.ended \cup BarEnded

\* This computer's client identity of a session holds its writer seat: while
\* the session lives it is not forgotten, whatever a refusal's code says and
\* however the listing lags.
LiveSeatKept == swForgot = {}

\* Ctrl+C between two attachments: the run ends and nothing more is attached.
CancelledStaysOut == swRun.cancelled => ~On("attach") /\ ~On("screen")

\* "A number is a promise": the session a painted number names is the session
\* that number means when the key is read, for as long as the run lasts.
NumbersStay == \A n \in 1..Len(swPainted) : n <= Len(swBar) /\ swBar[n].id = swPainted[n].id
==============================================================================
