----------------------------- MODULE CallbackRelay -----------------------------
(***************************************************************************)
(* One sign-in callback, from this computer's browser to the Machine       *)
(* (local-actions/callback-relay.ts startCallbackRelay; foreground         *)
(* #runCallbackRelay, #sendCallbackToMachine, #relayStreamClosed,          *)
(* #settleRelay and #endRelay).  The person has allowed the request; a     *)
(* one-shot loopback server binds, admits one exact callback, hands it to  *)
(* the Machine over a stream and answers the browser with what the Machine *)
(* said.  Meanwhile the request may be ended by its broker, the deadline   *)
(* may pass, the run may end, browsers may come, repeat themselves or go.  *)
(***************************************************************************)
EXTENDS Naturals

CONSTANTS RlPeers,      \* connections of the browser
          RlAttempts,   \* maxAttempts: admitted and refused requests
          RlConnections \* maxConnections

ASSUME RelayBounds == RlAttempts \in Nat \ {0} /\ RlConnections \in Nat \ {0}

VARIABLES rlRequest,    \* the broker's request: executing, or its result
          rlRun,        \* the relay: step, one-shot authority, limits
          rlPage,       \* peer -> what that connection has seen
          rlStream,     \* the stream to the Machine, as this side knows it
          rlMachine,    \* what the Machine did with it (external)
          rlLate,       \* the deadline has passed
          rlHanded,     \* ghost: callbacks handed to the Machine
          rlOrphan      \* ghost: the request ended while the port was binding
rlVars == <<rlRequest, rlRun, rlPage, rlStream, rlMachine, rlLate, rlHanded, rlOrphan>>

Replies == {"delivered", "refused", "no_answer"}
Results == {"executing", "succeeded", "failed", "ended"}
NoStream == [at |-> "none", waiting |-> FALSE]

RlInit ==
    /\ rlRequest = "executing"
    /\ rlRun = [pc |-> "binding", listening |-> FALSE, consumed |-> FALSE, settled |-> FALSE,
                answer |-> "none", attempts |-> 0, timer |-> FALSE, peer |-> "nobody",
                handle |-> FALSE, connections |-> 0]
    /\ rlPage = [p \in RlPeers |-> "off"]
    /\ rlStream = NoStream
    /\ rlMachine = [has |-> FALSE, said |-> "nothing", news |-> FALSE]
    /\ rlLate = FALSE /\ rlHanded = 0 /\ rlOrphan = FALSE

RlAt(pc) == rlRun.pc = pc
\* complete: a request the broker already ended keeps that result.
SettlesAs(result) == rlRequest' = IF rlRequest = "executing" THEN result ELSE rlRequest
\* cleanup: the server is closed with every connection, the relay is told.
Cleaned(s) == [s EXCEPT !.listening = FALSE, !.timer = FALSE, !.settled = TRUE]
Dropped == [p \in RlPeers |-> IF rlPage[p] = "open" \/ rlPage[p] = "waits" THEN "gone" ELSE rlPage[p]]
\* fail, heard by #runCallbackRelay.
Fails1(s) == [Cleaned(s) EXCEPT !.pc = IF s.consumed THEN s.pc ELSE "over"]
FailsWith(s, result) ==
    /\ rlRun' = IF s.settled THEN s ELSE Fails1(s)
    /\ rlPage' = IF s.settled THEN rlPage ELSE Dropped
    /\ IF s.settled THEN UNCHANGED rlRequest ELSE SettlesAs(result)

\* The port is bound, unless it is taken, or the time or the run ended meanwhile.
Binds ==
    /\ RlAt("binding")
    /\ \/ /\ ~rlLate
          /\ rlRun' = [rlRun EXCEPT !.pc = "listening", !.listening = TRUE, !.timer = TRUE,
                                    !.handle = TRUE]
          /\ UNCHANGED rlRequest
       \/ /\ rlRun' = [Cleaned(rlRun) EXCEPT !.pc = "over"]
          /\ SettlesAs("failed")
    /\ UNCHANGED <<rlPage, rlStream, rlMachine, rlLate, rlHanded, rlOrphan>>

\* The one-shot authority is consumed before anything is awaited.
KeepsAuthority(s) == [s EXCEPT !.pc = "opening"]
TakesAuthority(s) == [s EXCEPT !.pc = "opening", !.consumed = TRUE, !.listening = FALSE]

PeerConnects(p) ==
    /\ rlRun.listening /\ rlPage[p] = "off"
    /\ LET s == [rlRun EXCEPT !.connections = @ + 1]
       IN \/ /\ s.connections <= RlConnections
             /\ rlRun' = s
             /\ rlPage' = [rlPage EXCEPT ![p] = "open"]
             /\ UNCHANGED rlRequest
          \/ /\ s.connections > RlConnections
             /\ FailsWith(s, "failed")
    /\ UNCHANGED <<rlStream, rlMachine, rlLate, rlHanded, rlOrphan>>

\* One request on a connection; an earlier connection outlives the listening.
Asked(s) == [s EXCEPT !.attempts = @ + 1]
PeerAsks(p) ==
    /\ rlPage[p] = "open" /\ rlRun.attempts <= RlAttempts
    /\ LET s == Asked(rlRun)
       IN \/ /\ s.consumed
             /\ rlRun' = s
             /\ rlPage' = [rlPage EXCEPT ![p] = "consumed"]
             /\ UNCHANGED <<rlRequest, rlHanded>>
          \/ /\ ~s.consumed
             /\ rlLate \/ s.attempts > RlAttempts
             /\ FailsWith(s, "failed")
             /\ UNCHANGED rlHanded
          \/ /\ ~s.consumed /\ ~rlLate /\ s.attempts <= RlAttempts
             /\ rlRun' = s
             /\ rlPage' = [rlPage EXCEPT ![p] = "invalid"]
             /\ UNCHANGED <<rlRequest, rlHanded>>
          \/ /\ ~s.consumed /\ ~rlLate /\ s.attempts <= RlAttempts
             /\ rlRun' = TakesAuthority([s EXCEPT !.peer = p])
             /\ rlPage' = [rlPage EXCEPT ![p] = "waits"]
             /\ rlHanded' = rlHanded + 1
             /\ UNCHANGED rlRequest
    /\ UNCHANGED <<rlStream, rlMachine, rlLate, rlOrphan>>

\* A browser tab is closed, or its connection is lost.
PeerLeaves(p) ==
    /\ rlPage[p] \in {"open", "waits"}
    /\ rlPage' = [rlPage EXCEPT ![p] = "gone"]
    /\ UNCHANGED <<rlRequest, rlRun, rlStream, rlMachine, rlLate, rlHanded, rlOrphan>>

AnswersWith(answer) == rlRun' = [rlRun EXCEPT !.pc = "answering", !.answer = answer]

\* #sendCallbackToMachine: the stream is opened, then the line is sent; either
\* may be refused by the connection, which leaves the stream as it is.
OpensStream ==
    /\ RlAt("opening")
    /\ \/ /\ rlStream' = [at |-> "opened", waiting |-> TRUE]
          /\ rlRun' = [rlRun EXCEPT !.pc = "sending"]
       \/ /\ rlStream' = NoStream
          /\ AnswersWith("no_answer")
    /\ UNCHANGED <<rlRequest, rlPage, rlMachine, rlLate, rlHanded, rlOrphan>>
SendsLine ==
    /\ RlAt("sending")
    /\ \/ /\ rlMachine' = [rlMachine EXCEPT !.has = TRUE]
          /\ rlRun' = [rlRun EXCEPT !.pc = "waiting"]
          /\ rlStream' = [rlStream EXCEPT !.at = "sent"]
       \/ /\ AnswersWith("no_answer")
          /\ rlStream' = [rlStream EXCEPT !.waiting = FALSE]
          /\ UNCHANGED rlMachine
    /\ UNCHANGED <<rlRequest, rlPage, rlLate, rlHanded, rlOrphan>>

\* The Machine makes the request and closes the stream with the outcome, or
\* closes it early, having read less than the whole line.
MachineCloses ==
    /\ rlStream.at \in {"opened", "sent"} /\ rlMachine.said = "nothing"
    /\ \E said \in {"completed", "failed", "expired", "completed_short"}:
        /\ said \in {"completed", "failed"} => rlMachine.has
        /\ rlMachine' = [rlMachine EXCEPT !.said = said, !.news = TRUE]
    /\ UNCHANGED <<rlRequest, rlRun, rlPage, rlStream, rlLate, rlHanded, rlOrphan>>

\* #relayStreamClosed reads how the stream ended.
ByReasonOnly(said) ==
    IF said \in {"completed", "completed_short"} THEN "delivered"
    ELSE IF said = "failed" THEN "refused" ELSE "no_answer"
ClosedAs(said) ==
    IF said = "completed" THEN "delivered"
    ELSE IF said = "failed" THEN "refused" ELSE "no_answer"

CloseArrives ==
    /\ rlMachine.news
    /\ rlMachine' = [rlMachine EXCEPT !.news = FALSE]
    /\ rlStream' = [rlStream EXCEPT !.waiting = FALSE]
    /\ IF rlStream.waiting
       THEN rlRun' = [rlRun EXCEPT !.answer = ClosedAs(rlMachine.said)]
       ELSE UNCHANGED rlRun
    /\ UNCHANGED <<rlRequest, rlPage, rlLate, rlHanded, rlOrphan>>

\* The race between the answer, the relay's own timeout and its abort; without
\* an answer the stream is closed from this side.
AnswerWins ==
    /\ RlAt("waiting") /\ ~rlStream.waiting
    /\ AnswersWith(rlRun.answer)
    /\ UNCHANGED <<rlRequest, rlPage, rlStream, rlMachine, rlLate, rlHanded, rlOrphan>>
TimeoutWins ==
    /\ RlAt("waiting") /\ rlStream.waiting
    /\ AnswersWith("no_answer")
    /\ rlStream' = [at |-> "closed", waiting |-> FALSE]
    /\ UNCHANGED <<rlRequest, rlPage, rlMachine, rlLate, rlHanded, rlOrphan>>

\* answerBrowser, then succeed.  A browser that left before is waited for: its
\* response will emit neither "finish" nor "close" again.
BrowserAnswered ==
    /\ RlAt("answering") /\ rlPage[rlRun.peer] = "waits"
    /\ rlPage' = [Dropped EXCEPT ![rlRun.peer] = rlRun.answer]
    /\ rlRun' = [Cleaned(rlRun) EXCEPT !.pc = "over"]
    /\ IF rlRun.settled THEN UNCHANGED rlRequest
       ELSE SettlesAs(IF rlRun.answer = "delivered" THEN "succeeded" ELSE "failed")
    /\ UNCHANGED <<rlStream, rlMachine, rlLate, rlHanded, rlOrphan>>

\* The deadline timer spares a callback already on its way.
DeadlinePasses ==
    /\ ~rlLate /\ rlLate' = TRUE
    /\ UNCHANGED <<rlRequest, rlRun, rlPage, rlStream, rlMachine, rlHanded, rlOrphan>>
DeadlineTimer ==
    /\ rlLate /\ rlRun.timer
    /\ IF rlRun.consumed
       THEN rlRun' = [rlRun EXCEPT !.timer = FALSE] /\ UNCHANGED <<rlRequest, rlPage>>
       ELSE FailsWith(rlRun, "failed")
    /\ UNCHANGED <<rlStream, rlMachine, rlLate, rlHanded, rlOrphan>>

\* The terminal run ends.
RunAborts ==
    /\ rlRun.handle /\ ~rlRun.settled
    /\ FailsWith(rlRun, "failed")
    /\ UNCHANGED <<rlStream, rlMachine, rlLate, rlHanded, rlOrphan>>

\* The broker ends the request: cancelled by the Machine, expired, its tab
\* closed.  #endRelay closes the handle, when there is one already.
KeepsListening(s) == s
StopsListening(s) == IF s.handle THEN Fails1(s) ELSE s
RequestEnds ==
    /\ rlRequest = "executing"
    /\ rlRequest' = "ended"
    /\ rlRun' = StopsListening(rlRun)
    /\ rlPage' = IF rlRun'.settled THEN Dropped ELSE rlPage
    /\ rlOrphan' = (rlOrphan \/ RlAt("binding"))
    /\ UNCHANGED <<rlStream, rlMachine, rlLate, rlHanded>>

RlNext ==
    \/ Binds \/ OpensStream \/ SendsLine \/ MachineCloses \/ CloseArrives \/ AnswerWins
    \/ TimeoutWins \/ BrowserAnswered \/ DeadlinePasses \/ DeadlineTimer \/ RunAborts
    \/ RequestEnds
    \/ \E p \in RlPeers: PeerConnects(p) \/ PeerAsks(p) \/ PeerLeaves(p)

RlSpec == RlInit /\ [][RlNext]_rlVars

-----------------------------------------------------------------------------
(* Properties.                                                             *)

\* The callback goes to the Machine once, however many connections carry it.
HandedOnce == rlHanded <= 1

\* Whatever raced, the page the browser was shown and the result the Machine's
\* request was given are what the Machine said of this callback.
ToldAsItWas ==
    /\ (rlRequest = "succeeded" \/ \E p \in RlPeers: rlPage[p] = "delivered")
           => rlMachine.said = "completed"
    /\ (\E p \in RlPeers: rlPage[p] = "refused") => rlMachine.said = "failed"

\* A request that ended no longer has a port on this computer that would take
\* its callback, unless it ended while the port was being bound: #endRelay then
\* finds no handle to close.
EndedNotListening == (rlRequest \in {"ended", "failed"} /\ ~rlOrphan) => ~rlRun.listening
=============================================================================
