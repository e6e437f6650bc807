--------------------------- MODULE TerminalRuntime ---------------------------
(***************************************************************************)
(* The terminal runtime of src/runtime/boundary.ts: one AgentSession's     *)
(* terminal entry with its attach, reconnect, detach and shutdown          *)
(* procedures, the send queue and the frame pump, against the control      *)
(* plane and the terminal gateway, which are external and honest but       *)
(* unreliable: a reply may be lost after it took effect, a transport may   *)
(* drop with frames in flight, and another client may take the writing     *)
(* seat at any time.  Every `await` of the code at which another handler   *)
(* can run is a step boundary here.                                        *)
(*                                                                         *)
(* Abstractions: the attachment negotiates canonical views (the product's  *)
(* rich mode); a view's snapshot is one output frame; a key is its number; *)
(* clocks are absent, so a deadline may fire whenever its timer is armed.  *)
(***************************************************************************)
EXTENDS Naturals, Sequences, FiniteSets

CONSTANTS MaxKeys,    \* keys a person may type
          MaxFence,   \* attachments the gateway grants
          MaxEpoch,   \* writer epochs the control plane issues
          MaxOut,     \* output frames of one view
          MaxReq,     \* connection requests issued
          MaxFaults,  \* lost replies, failed reads, expiries and broken transports
          Window      \* unacknowledged inputs allowed (4096 in the code)

ASSUME RuntimeConstants ==
    /\ MaxKeys \in Nat /\ MaxFence \in Nat /\ MaxEpoch \in Nat \ {0}
    /\ MaxOut \in Nat \ {0} /\ MaxReq \in Nat /\ MaxFaults \in Nat /\ Window \in Nat \ {0}

VARIABLES entry,    \* the TerminalEntry, or its absence (state "none")
          proc,     \* the attach or reconnect in progress
          life,     \* this runtime: "open", "closing", "stopped", "failed"
          reqs,     \* #pendingConnectionRequests: keys of unsettled requests
          open,     \* sockets this process still holds, by attachment fence
          keys,     \* each key typed: its captured binding and its fate
          tail,     \* the entry's sendTail: keys queued for the wire
          writing,  \* the output frame the viewport is applying
          screen,   \* frames the viewport has applied since its last reset
          up, down, \* the current attachment's two directions
          take,     \* the takeWriter request in flight
          srv,      \* the control plane and the gateway
          faults    \* faults so far

vars == <<entry, proc, life, reqs, open, keys, tail, writing, screen, up, down, take, srv, faults>>

Key == 1 .. MaxKeys
Me == "me"
Other == "other"

NoEntry == [state |-> "none", rev |-> 0, fence |-> 0, process |-> 1,
            mode |-> "observer", epoch |-> 0, holder |-> "none",
            notice |-> <<0, "none">>, wire |-> 0, inputSeq |-> 0, acked |-> 0,
            pend |-> {}, hist |-> FALSE, retired |-> 0, cont |-> "none",
            view |-> "none", out |-> 0, pump |-> 0, aborted |-> FALSE,
            reqKey |-> 0, ask |-> <<>>, bad |-> FALSE, first |-> 0]

Idle == [kind |-> "none", ph |-> "none", rev |-> 0, key |-> 0, seat |-> "none",
         fence |-> 0, mode |-> "none", epoch |-> 0, abort |-> FALSE]

NoWrite == [n |-> 0, fence |-> 0]

NoTake == [ph |-> "none", rev |-> 0, expected |-> 0, answer |-> "none"]

Refused == [st |-> "refused", fence |-> 0, epoch |-> 0, rev |-> 0]
NoKey == [st |-> "untyped", fence |-> 0, epoch |-> 0, rev |-> 0]

Init ==
    /\ entry = NoEntry /\ proc = Idle /\ life = "open"
    /\ reqs = {} /\ open = {}
    /\ keys = [k \in Key |-> NoKey] /\ tail = <<>>
    /\ writing = NoWrite /\ screen = <<>> /\ up = <<>> /\ down = <<>> /\ take = NoTake /\ faults = 0
    /\ srv \in [fence : {0}, conn : {0}, process : {1}, used : {0},
                hist : {<<Me>>, <<Other>>}, viewN : {0}, accepted : {<<>>},
                issued : {{}}, redeemed : {{}}, cancelled : {{}}, committed : {{}}]

SrvEpoch == Len(srv.hist)
SrvWriter == srv.hist[SrvEpoch]
SeatOf(c) == IF SrvWriter = c THEN "writer" ELSE "observer"

\* A fault happens, if the bound still allows one.
Fault == faults < MaxFaults /\ faults' = faults + 1
FaultIf(c) == IF c THEN Fault ELSE UNCHANGED faults

\* The client closes sockets: the gateway's end of the current one goes too.
Close(fences) ==
    /\ open' = open \ fences
    /\ srv' = [srv EXCEPT !.conn = IF @ \in fences THEN 0 ELSE @]

-----------------------------------------------------------------------------
(* What every way of losing an attachment does to input acceptance. *)

\* Mutant: input still unacknowledged is not remembered as uncertain.
RetireForgetting(e) == [e EXCEPT !.pend = {}, !.retired = IF e.inputSeq > @ THEN e.inputSeq ELSE @]

\* retireInputAcceptance: unacknowledged input becomes uncertain history.
Retire(e) ==
    LET uncertain == e.hist \/ e.pend # {} IN
    [e EXCEPT !.hist = uncertain, !.pend = {},
              !.retired = IF e.inputSeq > @ THEN e.inputSeq ELSE @,
              !.cont = IF uncertain THEN "uncertain" ELSE @]

\* The attachment is lost: output is aborted and the entry waits for a
\* reconnect ("interrupted") or never gets one ("failed").
Lose(e, state) == [Retire(e) EXCEPT !.state = state, !.aborted = TRUE]

\* Queued sends of an entry that is gone are refused by its own fence checks,
\* and a takeWriter reply for it finds no operation to confirm.
DropQueue ==
    /\ tail' = <<>> /\ take' = NoTake
    /\ keys' = [k \in Key |-> IF keys[k].st = "queued" THEN Refused ELSE keys[k]]

-----------------------------------------------------------------------------
(* Attach and reconnect. *)

\* attach: refused when the tab or the AgentSession is already held.
AttachStart ==
    /\ life = "open" /\ proc.kind = "none" /\ entry.state = "none"
    /\ proc' = [Idle EXCEPT !.kind = "attach", !.ph = "cancel"]
    /\ UNCHANGED <<entry, life, reqs, open, keys, tail, writing, screen, up, down, take, srv, faults>>

\* reconnect: only an interrupted entry; the revision fences everything older.
ReconnectStart ==
    /\ life = "open" /\ proc.kind = "none" /\ entry.state = "interrupted"
    /\ entry' = [Retire(entry) EXCEPT !.state = "reconnecting", !.rev = @ + 1,
                                      !.aborted = TRUE]
    /\ proc' = [Idle EXCEPT !.kind = "reconnect", !.ph = "cancel", !.rev = entry.rev + 1]
    /\ UNCHANGED <<life, reqs, open, keys, tail, writing, screen, up, down, take, srv, faults>>

\* #cancelConnectionRequests: one request at a time; a request the gateway has
\* redeemed counts as settled.  An unconfirmed one stays owned and stops here.
Cancel(done) ==
    /\ srv' = [srv EXCEPT !.cancelled = @ \cup (done \ srv.redeemed)]
    /\ reqs' = reqs \ done
    /\ entry' = [entry EXCEPT !.reqKey = IF @ \in done THEN 0 ELSE @]

ProcCancel ==
    /\ proc.ph = "cancel"
    /\ \E done \in SUBSET reqs :
          /\ Cancel(done)
          /\ proc' = [proc EXCEPT !.ph = IF done = reqs /\ ~proc.abort THEN "admit" ELSE "catch"]
          /\ FaultIf(done # reqs)
    /\ UNCHANGED <<life, open, keys, tail, writing, screen, up, down, take>>

\* A reconnect superseded by detach or shutdown is recognised by the revision.
Superseded == proc.abort \/ life # "open"
              \/ (proc.kind = "reconnect" /\ (entry.rev # proc.rev \/ entry.state # "reconnecting"))

\* The AgentSession's process was replaced: this terminal cannot be resumed.
Discontinuous == srv.process # entry.process /\ ~(proc.kind = "attach" /\ proc.ph = "admit")

\* A reconnect it stops for good; an attach just does not happen.
Unresumable == IF proc.kind = "reconnect" THEN [entry EXCEPT !.state = "failed"] ELSE entry

\* #admitRemoteTerminal before the grant: a failed read, or a supersession.
ProcAdmit ==
    /\ proc.ph = "admit"
    /\ \/ /\ FaultIf(~Superseded)                         \* the read failed, or was abandoned
          /\ proc' = [proc EXCEPT !.ph = "catch"]
          /\ UNCHANGED <<entry, open, srv>>
       \/ /\ ~Superseded /\ Discontinuous
          /\ entry' = Unresumable
          /\ proc' = [proc EXCEPT !.ph = "catch"]
          /\ UNCHANGED <<open, srv, faults>>
       \/ /\ ~Superseded /\ ~Discontinuous
          /\ Close({entry.fence})           \* the old socket is closed first
          /\ proc' = [proc EXCEPT !.ph = "grant",
                        !.seat = IF proc.kind = "attach" \/ entry.mode = "writer" \/ entry.holder = Me
                                 THEN "writer" ELSE "observer"]
          /\ entry' = [entry EXCEPT !.process = IF proc.kind = "attach" THEN srv.process ELSE @]
          /\ UNCHANGED faults
    /\ UNCHANGED <<life, reqs, keys, tail, writing, screen, up, down, take>>

\* The control plane gives the writing seat only to its holder, and on a
\* reconnect only at the epoch this client last saw.
SeatGranted ==
    /\ SrvWriter = Me
    /\ proc.kind = "reconnect" => SrvEpoch = entry.epoch

\* Mutant: only an answered request is owned.
OwnNothing(k) == reqs

\* The key of a request is kept from before it is sent until it is settled.
Own(k) == reqs \cup {k}

\* #createGrant: the request is owned before it is sent, so a lost reply can be
\* cancelled later; a refused writer asks again as an observer with a new key.
ProcGrant ==
    LET k == IF entry.reqKey # 0 /\ proc.seat # "fallback" THEN entry.reqKey ELSE srv.used + 1 IN
    /\ proc.ph = "grant" /\ k <= MaxReq
    /\ \/ \* issued, and the grant arrives
          /\ proc.seat # "writer" \/ SeatGranted
          /\ srv' = [srv EXCEPT !.used = IF k > @ THEN k ELSE @, !.issued = @ \cup {k}]
          /\ reqs' = Own(k)
          /\ proc' = [proc EXCEPT !.ph = IF proc.abort THEN "catch" ELSE "ready", !.key = k]
          /\ entry' = [entry EXCEPT !.reqKey = 0]
          /\ UNCHANGED faults
       \/ \* issued or not, no answer arrives
          /\ \E got \in {{}, {k}} :
                srv' = [srv EXCEPT !.used = IF k > @ THEN k ELSE @, !.issued = @ \cup got]
          /\ reqs' = Own(k)
          /\ proc' = [proc EXCEPT !.ph = "catch"]
          /\ entry' = [entry EXCEPT !.reqKey = IF proc.kind = "reconnect" /\ proc.seat # "fallback" THEN k ELSE @]
          /\ Fault
       \/ \* terminal_writer_held or terminal_writer_stale
          /\ proc.seat = "writer" /\ ~SeatGranted
          /\ srv' = [srv EXCEPT !.used = IF k > @ THEN k ELSE @]
          /\ reqs' = reqs \ {k}
          /\ proc' = [proc EXCEPT !.seat = "fallback"]
          /\ entry' = [entry EXCEPT !.reqKey = IF proc.kind = "reconnect" THEN k ELSE 0]
          /\ UNCHANGED faults
    /\ UNCHANGED <<life, open, keys, tail, writing, screen, up, down, take>>

\* Revalidate, connect and await READY.  The gateway redeems the grant, which
\* replaces whatever attachment this client had; READY names the fence, the
\* seat and the epoch as they are then.
ProcReady ==
    /\ proc.ph = "ready"
    /\ \/ /\ FaultIf(~Superseded)                         \* a read or the connect failed
          /\ proc' = [proc EXCEPT !.ph = "catch"]
          /\ UNCHANGED <<srv, open, up, down, entry>>
       \/ /\ ~Superseded /\ Discontinuous
          /\ entry' = Unresumable
          /\ proc' = [proc EXCEPT !.ph = "catch"]
          /\ UNCHANGED <<srv, open, up, down, faults>>
       \/ /\ ~Superseded /\ ~Discontinuous
          /\ srv.fence < MaxFence /\ proc.key \notin srv.cancelled
          /\ srv' = [srv EXCEPT !.fence = @ + 1, !.conn = srv.fence + 1, !.viewN = 0,
                                !.redeemed = @ \cup {proc.key}]
          /\ open' = open \cup {srv.fence + 1}
          /\ up' = <<>> /\ down' = <<>>
          /\ \E heard \in BOOLEAN :
                /\ FaultIf(~heard)
                /\ proc' = [proc EXCEPT !.ph = IF heard THEN "commit" ELSE "catch",
                           !.fence = srv.fence + 1, !.epoch = SrvEpoch,
                           !.mode = IF proc.seat = "writer" THEN SeatOf(Me) ELSE "observer"]
          /\ UNCHANGED entry
    /\ UNCHANGED <<life, reqs, keys, tail, writing, screen, take>>

\* The replacement is adopted only if nothing superseded it: dimensions (for a
\* writer) and RESUME are sent, then the entry takes the new attachment.
ProcCommit ==
    /\ proc.ph = "commit"
    /\ IF Superseded \/ proc.fence <= entry.fence
       THEN /\ proc' = [proc EXCEPT !.ph = "catch"]
            /\ UNCHANGED <<entry, up>>
       ELSE LET resume == entry.wire + (IF proc.mode = "writer" THEN 2 ELSE 1)
                asWriter == proc.mode = "writer" IN
            /\ entry' = [entry EXCEPT
                  !.state = "active", !.fence = proc.fence, !.mode = proc.mode,
                  !.rev = IF proc.kind = "attach" THEN @ + 1 ELSE @,
                  !.epoch = proc.epoch, !.holder = IF asWriter THEN Me ELSE "none",
                  !.notice = IF asWriter THEN <<proc.epoch, "writer">> ELSE <<0, "none">>,
                  !.wire = resume, !.view = "none", !.out = 0, !.aborted = FALSE,
                  !.pump = 0, !.first = IF @ = 0 THEN proc.fence ELSE @,
                  !.ask = IF @ # <<>> /\ proc.epoch > @[1] THEN <<>> ELSE @]
            /\ up' = IF srv.conn = proc.fence THEN Append(up, [t |-> "resume"]) ELSE up
            /\ proc' = [proc EXCEPT !.ph = "callback",
                           !.rev = IF proc.kind = "attach" THEN entry.rev + 1 ELSE @]
    /\ UNCHANGED <<life, reqs, open, keys, tail, writing, screen, down, take, srv, faults>>

\* Mutant: the new view does not wait for the old one's last write.
Unsettled == TRUE

\* onTerminalReady drains the viewport's output queue before the pump starts.
ViewportSettled == writing = NoWrite

\* onTerminalReady: the viewport's earlier write has settled by now.  Then the
\* pump starts and the session's requests are forgotten, redeemed as they are.
ProcFinish ==
    /\ proc.ph = "callback"
    /\ \/ /\ ViewportSettled /\ life = "open" /\ ~proc.abort
          /\ entry' = [entry EXCEPT !.pump = IF entry.rev = proc.rev THEN proc.rev ELSE 0]
          /\ reqs' = {}
          /\ proc' = Idle
          /\ UNCHANGED faults
       \/ /\ FaultIf(life = "open" /\ ~proc.abort)
          /\ proc' = [proc EXCEPT !.ph = "catch"]
          /\ UNCHANGED <<entry, reqs>>
    /\ UNCHANGED <<life, open, keys, tail, writing, screen, up, down, take, srv>>

\* The catch block: the new socket is closed, unredeemed issuance cancelled as
\* far as it can be, and the entry returns to "interrupted" (an attach's entry
\* is dropped).
ProcCatch ==
    /\ proc.ph = "catch"
    /\ open' = open \ {proc.fence}
    /\ \E done \in SUBSET reqs :
          /\ FaultIf(done # reqs)
          /\ srv' = [srv EXCEPT !.cancelled = @ \cup (done \ srv.redeemed),
                                !.conn = IF proc.fence # 0 /\ proc.fence = @ THEN 0 ELSE @]
          /\ reqs' = reqs \ done
          /\ entry' =
                IF proc.kind = "attach"
                THEN IF entry.state \in {"none", "detached"} \/ life # "open"
                     THEN entry ELSE NoEntry
                ELSE IF entry.rev = proc.rev /\ entry.state # "failed"
                     THEN [entry EXCEPT !.state = "interrupted", !.reqKey = IF @ \in done THEN 0 ELSE @]
                     ELSE [entry EXCEPT !.reqKey = IF @ \in done THEN 0 ELSE @]
    /\ IF entry'.state = "none" THEN DropQueue ELSE UNCHANGED <<keys, tail, take>>
    /\ proc' = Idle
    /\ UNCHANGED <<life, writing, screen, up, down>>

-----------------------------------------------------------------------------
(* Detach and shutdown. *)

\* detach: a reconnect in flight is aborted and fenced by the revision, the
\* socket closed; the entry goes when both have drained.
Detach ==
    /\ life = "open" /\ entry.state \notin {"none", "detached"}
    /\ proc.kind # "attach"
    /\ entry' = [entry EXCEPT !.state = "detached", !.rev = @ + 1, !.aborted = TRUE]
    /\ proc' = IF proc.kind = "none" THEN proc ELSE [proc EXCEPT !.abort = TRUE]
    /\ Close({entry.fence})
    /\ UNCHANGED <<life, reqs, keys, tail, writing, screen, up, down, take, faults>>

DetachDone ==
    /\ entry.state = "detached" /\ proc.kind = "none" /\ writing = NoWrite
    /\ entry' = NoEntry /\ DropQueue
    /\ UNCHANGED <<proc, life, reqs, open, writing, screen, up, down, srv, faults>>

\* shutdown: nothing new may start; what is pending is aborted.
Shutdown ==
    /\ life \in {"open", "failed"}
    /\ life' = "closing"
    /\ proc' = IF proc.kind = "none" THEN proc ELSE [proc EXCEPT !.abort = TRUE]
    /\ IF entry.state = "none"
       THEN UNCHANGED <<entry, open, keys, tail, take, srv, faults>>
       ELSE \* a socket that does not close cleanly keeps its entry, "failed"
            \E clean \in BOOLEAN :
               /\ FaultIf(~clean)
               /\ entry' = IF clean THEN NoEntry
                           ELSE [entry EXCEPT !.state = "failed", !.rev = @ + 1,
                                              !.aborted = TRUE]
               /\ IF clean THEN Close({entry.fence}) /\ DropQueue
                           ELSE UNCHANGED <<open, keys, tail, take, srv>>
    /\ UNCHANGED <<reqs, writing, screen, up, down>>

\* The pending procedure is awaited (to a deadline), then the requests still
\* owned are cancelled; anything left makes the shutdown a failed, retryable one.
ShutdownDone ==
    /\ life = "closing"
    /\ \E done \in SUBSET reqs :
          /\ FaultIf(done # reqs)
          /\ srv' = [srv EXCEPT !.cancelled = @ \cup (done \ srv.redeemed)]
          /\ reqs' = reqs \ done
          /\ life' = IF proc.kind = "none" /\ done = reqs /\ entry.state = "none"
                     THEN "stopped" ELSE "failed"
    /\ UNCHANGED <<entry, proc, open, keys, tail, writing, screen, up, down, take>>

-----------------------------------------------------------------------------
(* The send path: a key is typed (its target captured), handed to sendInput,   *)
(* queued behind earlier sends, and only then put on the wire.                 *)

\* #captureInputTarget of the foreground: an active, ready attachment.
TypeKey(k) ==
    /\ keys[k].st = "untyped" /\ \A j \in Key : j < k => keys[j].st # "untyped"
    /\ entry.state = "active" /\ entry.view = "ready"
    /\ keys' = [keys EXCEPT ![k] = [@ EXCEPT !.st = "typed", !.fence = entry.fence, !.epoch = entry.epoch]]
    /\ UNCHANGED <<entry, proc, life, reqs, open, tail, writing, screen, up, down, take, srv, faults>>

\* sendInput and #enqueueTerminalSend: the checks of the moment of the call,
\* and the authority the queued send will be held to.
SendInput(k) ==
    /\ keys[k].st = "typed" /\ \A j \in Key : j < k => keys[j].st # "typed"
    /\ LET admitted == /\ life = "open" /\ entry.state = "active" /\ entry.mode = "writer"
                       /\ keys[k].fence = entry.fence /\ entry.view = "ready" IN
       /\ keys' = [keys EXCEPT ![k] = IF admitted THEN [@ EXCEPT !.st = "queued", !.rev = entry.rev] ELSE Refused]
       /\ tail' = IF admitted THEN Append(tail, k) ELSE tail
    /\ UNCHANGED <<entry, proc, life, reqs, open, writing, screen, up, down, take, srv, faults>>

\* Mutant: any live attachment will do.
SendUnfenced(k) == entry.state = "active"

\* The attachment a queued send was made for is still the current one.
SendFence(k) == entry.state = "active" /\ entry.rev = keys[k].rev /\ entry.fence = keys[k].fence

\* Mutant: one input more than the window.
WindowOver == Cardinality(entry.pend) > Window

WindowFull == Cardinality(entry.pend) >= Window

\* The queued send runs: everything is checked again, since the attachment,
\* the view and the seat may all have changed while it waited.
RunSend ==
    /\ tail # <<>>
    /\ LET k == Head(tail)
           live == SendFence(k)
           seat == entry.mode = "writer" /\ entry.epoch = keys[k].epoch /\ entry.view = "ready"
           seq == entry.wire + 1 IN
       /\ tail' = Tail(tail)
       /\ \/ /\ ~(live /\ seat)
             /\ keys' = [keys EXCEPT ![k] = Refused]
             /\ UNCHANGED <<entry, up, open, srv>>
          \/ /\ live /\ seat /\ WindowFull
             /\ keys' = [keys EXCEPT ![k] = Refused]
             /\ entry' = [Lose(entry, "interrupted") EXCEPT !.rev = @ + 1, !.cont = "uncertain"]
             /\ Close({entry.fence})
             /\ UNCHANGED up
          \/ /\ live /\ seat /\ ~WindowFull
             /\ keys' = [keys EXCEPT ![k] = [@ EXCEPT !.st = "sent"]]
             /\ entry' = [entry EXCEPT !.wire = seq, !.inputSeq = seq, !.pend = @ \cup {seq}, !.cont = "uncertain"]
             /\ up' = IF srv.conn = entry.fence THEN Append(up, [t |-> "input", seq |-> seq, key |-> k]) ELSE up
             /\ UNCHANGED <<open, srv>>
    /\ UNCHANGED <<proc, life, reqs, writing, screen, down, take, faults>>

-----------------------------------------------------------------------------
(* Timers of an active attachment. *)

Expire ==
    /\ Fault
    /\ entry' = Lose(entry, "interrupted")
    /\ Close({entry.fence})
    /\ UNCHANGED <<proc, life, reqs, keys, tail, writing, screen, up, down, take>>

\* #expireHeartbeat and a failed heartbeat send: the same interruption.
HeartbeatExpires == entry.state = "active" /\ entry.pump = entry.rev /\ life = "open" /\ Expire

\* #expireInputAcknowledgement, armed while input is unacknowledged.
AcknowledgementExpires ==
    /\ entry.state = "active" /\ entry.pend # {} /\ life = "open" /\ Expire

\* #armTerminalViewDeadline: a view that never becomes ready ends the terminal.
ViewExpires ==
    /\ entry.state = "active" /\ entry.view # "ready" /\ proc.kind = "none" /\ life = "open"
    /\ Fault
    /\ entry' = Lose(entry, "failed")
    /\ Close({entry.fence})
    /\ UNCHANGED <<proc, life, reqs, keys, tail, writing, screen, up, down, take>>

-----------------------------------------------------------------------------
(* The pump: one frame at a time, for as long as its revision is current.      *)
(* An interrupted entry's pump still reads what is left on its socket.         *)

Live == entry.pump # 0 /\ entry.pump = entry.rev /\ entry.state \in {"active", "interrupted"} /\ life = "open"

Pumping == Live /\ (writing = NoWrite \/ writing.fence # entry.fence)

Frame(t) == Pumping /\ down # <<>> /\ Head(down).t = t

\* A frame the protocol forbids ends the terminal: never after an honest one.
ProtocolFailure(e) == [Lose(e, "failed") EXCEPT !.pump = 0, !.bad = TRUE]

\* A delivery that was revoked rejects, which ends the pump.
Revoked(e) == [Lose(e, "interrupted") EXCEPT !.pump = 0]

Apply(e) ==
    /\ entry' = e
    /\ IF e.state = "failed" THEN Close({e.fence}) ELSE UNCHANGED <<open, srv>>
    /\ down' = Tail(down)
    /\ UNCHANGED <<proc, life, reqs, keys, tail, up, take, faults>>

\* view_started: the foreground empties the viewport for the new rendering.
OnViewStarted ==
    /\ Frame("view_started")
    /\ IF entry.view # "none" THEN Apply(ProtocolFailure(entry)) /\ UNCHANGED <<screen, writing>>
       ELSE IF entry.aborted THEN Apply(Revoked(entry)) /\ UNCHANGED <<screen, writing>>
       ELSE Apply([entry EXCEPT !.view = "started"]) /\ screen' = <<>> /\ UNCHANGED writing

\* view_ready must name the output consumed so far.
OnViewReady ==
    /\ Frame("view_ready")
    /\ Apply(IF entry.view = "started" /\ entry.out >= 1 /\ Head(down).n = entry.out
             THEN [entry EXCEPT !.view = "ready"] ELSE ProtocolFailure(entry))
    /\ UNCHANGED <<screen, writing, faults>>

\* output: handed to the viewport, which applies it even when the delivery is
\* abandoned meanwhile; the cursor moves only when the delivery completes.
OnOutput ==
    /\ Frame("output")
    /\ IF entry.view = "none" \/ Head(down).n # entry.out + 1
       THEN Apply(ProtocolFailure(entry)) /\ UNCHANGED <<screen, writing>>
       ELSE IF entry.aborted THEN Apply(Revoked(entry)) /\ UNCHANGED <<screen, writing>>
       ELSE /\ writing = NoWrite        \* the viewport applies one write at a time
            /\ Apply(entry) /\ writing' = [n |-> Head(down).n, fence |-> entry.fence] /\ UNCHANGED screen

WriteDone ==
    /\ writing # NoWrite
    /\ screen' = Append(screen, writing.n) /\ writing' = NoWrite
    /\ entry' = IF entry.fence # writing.fence THEN entry
                ELSE IF entry.aborted THEN [entry EXCEPT !.pump = 0]
                ELSE [entry EXCEPT !.out = writing.n]
    /\ UNCHANGED <<proc, life, reqs, open, keys, tail, up, down, take, srv, faults>>

\* withOutputDeadline: a consumer too slow for its frame ends the terminal,
\* although the frame may still reach the viewport later.
WriteExpires ==
    /\ writing # NoWrite /\ Live /\ entry.fence = writing.fence /\ ~entry.aborted
    /\ Fault
    /\ entry' = [Lose(entry, "failed") EXCEPT !.pump = 0]
    /\ Close({entry.fence})
    /\ UNCHANGED <<proc, life, reqs, keys, tail, writing, screen, up, down, take>>

\* writer_epoch: wire facts are compared with wire facts; an older epoch than
\* an HTTP reply revealed is ignored, a newer one retires accepted input.
OnWriterEpoch ==
    /\ Frame("writer_epoch")
    /\ LET f == Head(down) IN
       Apply(IF \/ f.mode = "writer" /\ f.holder # Me
                \/ entry.notice[1] = f.epoch /\ entry.notice[2] # f.mode
             THEN ProtocolFailure(entry)
             ELSE IF f.epoch < entry.epoch THEN entry
             ELSE [(IF f.epoch # entry.epoch THEN Retire(entry) ELSE entry) EXCEPT
                     !.notice = <<f.epoch, f.mode>>, !.mode = f.mode, !.epoch = f.epoch, !.holder = f.holder,
                     !.ask = IF @ # <<>> /\ f.epoch > @[1] THEN <<>> ELSE @])
    /\ UNCHANGED <<screen, writing, faults>>

\* control_state: geometry of the writer's epoch; an older one is ignored.
OnGeometry ==
    /\ Frame("control_state")
    /\ Apply(IF Head(down).epoch > entry.epoch THEN ProtocolFailure(entry) ELSE entry)
    /\ UNCHANGED <<screen, writing, faults>>

\* Mutant: every receipt is judged by the current scope.
NoReceiptRetired(n) == FALSE

RetiredReceipt(n) == n <= entry.retired

\* acknowledgement: a receipt of a retired scope neither certifies nor disturbs.
OnAcknowledgement ==
    /\ Frame("acknowledgement")
    /\ LET n == Head(down).n
           left == {p \in entry.pend : p > n} IN
       Apply(IF RetiredReceipt(n) THEN entry
             ELSE IF n <= entry.acked \/ n \notin entry.pend THEN ProtocolFailure(entry)
             ELSE [entry EXCEPT !.pend = left, !.acked = n,
                                !.cont = IF left = {} /\ ~entry.hist THEN "complete" ELSE "uncertain"])
    /\ UNCHANGED <<screen, writing, faults>>

\* exit: the process ended; the entry and its socket go at once.
OnExit ==
    /\ Frame("exit")
    /\ entry' = NoEntry /\ DropQueue /\ Close({entry.fence})
    /\ down' = Tail(down)
    /\ UNCHANGED <<proc, life, reqs, writing, screen, up, faults>>

\* The transport ended without an exit frame.
OnEnd ==
    /\ Pumping /\ down = <<>> /\ srv.conn # entry.fence /\ entry.state = "active"
    /\ entry' = Lose(entry, "interrupted")
    /\ open' = open \ {entry.fence}
    /\ UNCHANGED <<proc, life, reqs, keys, tail, writing, screen, up, down, take, srv, faults>>

-----------------------------------------------------------------------------
(* takeWriter: one operation, kept across lost replies, never a promotion.     *)

TakeAsk ==
    /\ life = "open" /\ entry.state = "active" /\ entry.mode # "writer" /\ take.ph = "none"
    /\ LET op == IF entry.ask # <<>> THEN entry.ask ELSE <<entry.epoch>> IN
       /\ entry' = [entry EXCEPT !.ask = op]
       /\ take' = [NoTake EXCEPT !.ph = "check", !.rev = entry.rev, !.expected = op[1]]
    /\ UNCHANGED <<proc, life, reqs, open, keys, tail, writing, screen, up, down, srv, faults>>

\* The capability read came back: the terminal and the operation must be the
\* ones it was made for.  The control plane then commits the transfer at the
\* expected epoch, repeats the answer of an operation it committed, or refuses.
TakeSend ==
    /\ take.ph = "check"
    /\ LET current == life = "open" /\ entry.state = "active" /\ entry.rev = take.rev
                      /\ entry.ask = <<take.expected>>
           fresh == SrvEpoch = take.expected /\ SrvWriter # Me /\ SrvEpoch < MaxEpoch
           again == take.expected \in srv.committed IN
       \/ /\ ~current
          /\ take' = NoTake /\ UNCHANGED <<srv, down>>
       \/ /\ current /\ fresh
          /\ srv' = [srv EXCEPT !.hist = Append(@, Me), !.committed = @ \cup {take.expected}]
          /\ down' = IF srv.conn = 0 THEN down
                     ELSE down \o <<[t |-> "writer_epoch", epoch |-> SrvEpoch + 1, mode |-> "writer", holder |-> Me],
                                    [t |-> "control_state", epoch |-> SrvEpoch + 1]>>
          /\ take' = [take EXCEPT !.ph = "reply", !.answer = "committed"]
       \/ /\ current /\ ~fresh
          /\ take' = [take EXCEPT !.ph = "reply", !.answer = IF again THEN "committed" ELSE "stale"]
          /\ UNCHANGED <<srv, down>>
    /\ UNCHANGED <<entry, proc, life, reqs, open, keys, tail, writing, screen, up, faults>>

\* The reply, or none: it moves the request fence and names the holder, but the
\* seat this attachment acts on changes only with the wire notice.
TakeReply ==
    /\ take.ph = "reply" /\ take' = NoTake
    /\ LET mine == entry.ask = <<take.expected>> IN
       \/ entry' = entry /\ Fault                           \* lost: the operation is kept
       \/ /\ take.answer = "stale"
          /\ entry' = IF mine THEN [entry EXCEPT !.ask = <<>>] ELSE entry
          /\ UNCHANGED faults
       \/ /\ take.answer = "committed"
          /\ entry' = IF mine /\ take.expected + 1 >= entry.epoch
                      THEN [(IF take.expected + 1 # entry.epoch THEN Retire(entry) ELSE entry)
                              EXCEPT !.epoch = take.expected + 1, !.holder = Me]
                      ELSE entry
          /\ UNCHANGED faults
    /\ UNCHANGED <<proc, life, reqs, open, keys, tail, writing, screen, up, down, srv>>

-----------------------------------------------------------------------------
(* The gateway, the control plane and the network: external.                   *)

GatewayResume ==
    /\ srv.conn # 0 /\ up # <<>> /\ Head(up).t = "resume"
    /\ up' = Tail(up)
    /\ srv' = [srv EXCEPT !.viewN = 1]
    /\ down' = down \o <<[t |-> "view_started"], [t |-> "output", n |-> 1], [t |-> "view_ready", n |-> 1]>>
    /\ UNCHANGED <<entry, proc, life, reqs, open, keys, tail, writing, screen, take, faults>>

\* Input is accepted and acknowledged in order while this client holds the
\* seat; one that arrives after the seat moved closes the attachment.
GatewayInput ==
    /\ srv.conn # 0 /\ up # <<>> /\ Head(up).t = "input"
    /\ up' = Tail(up)
    /\ IF SrvWriter = Me
       THEN /\ srv' = [srv EXCEPT !.accepted = Append(@, <<Head(up).key, srv.conn>>)]
            /\ down' = Append(down, [t |-> "acknowledgement", n |-> Head(up).seq])
       ELSE srv' = [srv EXCEPT !.conn = 0] /\ down' = down
    /\ UNCHANGED <<entry, proc, life, reqs, open, keys, tail, writing, screen, take, faults>>

GatewayOutput ==
    /\ srv.conn # 0 /\ srv.viewN \in 1 .. MaxOut - 1
    /\ srv' = [srv EXCEPT !.viewN = @ + 1]
    /\ down' = Append(down, [t |-> "output", n |-> srv.viewN + 1])
    /\ UNCHANGED <<entry, proc, life, reqs, open, keys, tail, writing, screen, up, take, faults>>

\* Another client of the same person takes the seat.
RivalTakes ==
    /\ SrvWriter = Me /\ SrvEpoch < MaxEpoch
    /\ srv' = [srv EXCEPT !.hist = Append(@, Other)]
    /\ down' = IF srv.conn = 0 THEN down
               ELSE down \o <<[t |-> "writer_epoch", epoch |-> SrvEpoch + 1, mode |-> "observer", holder |-> Other],
                              [t |-> "control_state", epoch |-> SrvEpoch + 1]>>
    /\ UNCHANGED <<entry, proc, life, reqs, open, keys, tail, writing, screen, up, take, faults>>

\* The process exits (the gateway says so on a live attachment) or is replaced.
ProcessEnds ==
    /\ srv.process = 1
    /\ srv' = [srv EXCEPT !.process = 2]
    /\ down' = IF srv.conn # 0 /\ srv.viewN > 0 THEN Append(down, [t |-> "exit"]) ELSE down
    /\ UNCHANGED <<entry, proc, life, reqs, open, keys, tail, writing, screen, up, take, faults>>

\* A transport breaks: what was in flight is lost from some point on.
TransportDrops ==
    /\ srv.conn # 0 /\ Fault
    /\ srv' = [srv EXCEPT !.conn = 0] /\ up' = <<>>
    /\ \E n \in 0 .. Len(down) : down' = SubSeq(down, 1, n)
    /\ UNCHANGED <<entry, proc, life, reqs, open, keys, tail, writing, screen, take>>

-----------------------------------------------------------------------------
Next ==
    \/ AttachStart \/ ReconnectStart \/ ProcCancel \/ ProcAdmit \/ ProcGrant
    \/ ProcReady \/ ProcCommit \/ ProcFinish \/ ProcCatch
    \/ Detach \/ DetachDone \/ Shutdown \/ ShutdownDone
    \/ \E k \in Key : TypeKey(k) \/ SendInput(k)
    \/ RunSend \/ HeartbeatExpires \/ AcknowledgementExpires \/ ViewExpires
    \/ OnViewStarted \/ OnViewReady \/ OnOutput \/ WriteDone \/ WriteExpires \/ OnWriterEpoch
    \/ OnGeometry \/ OnAcknowledgement \/ OnExit \/ OnEnd
    \/ TakeAsk \/ TakeSend \/ TakeReply
    \/ GatewayResume \/ GatewayInput \/ GatewayOutput \/ RivalTakes \/ ProcessEnds \/ TransportDrops

Spec == Init /\ [][Next]_vars

-----------------------------------------------------------------------------
(* Properties. *)

\* Every variable stays within its domain.
TypeOK ==
    /\ entry.state \in {"none", "active", "interrupted", "reconnecting", "detached", "failed"}
    /\ proc.ph \in {"none", "cancel", "admit", "grant", "ready", "commit", "callback", "catch"}
    /\ life \in {"open", "closing", "stopped", "failed"}
    /\ entry.mode \in {"writer", "observer"} /\ entry.epoch \in 0 .. MaxEpoch
    /\ entry.fence \in 0 .. MaxFence /\ reqs \subseteq 1 .. MaxReq /\ open \subseteq 1 .. MaxFence
    /\ Cardinality(entry.pend) <= Window
    /\ writing \in [n : 0 .. MaxOut, fence : 0 .. MaxFence]
    /\ \A k \in Key : keys[k].st \in {"untyped", "typed", "queued", "sent", "refused"}

\* "complete" is said of input only when the gateway has accepted every key
\* this terminal ever put on a wire, over all its attachments.
CompleteMeansAccepted ==
    entry.cont = "complete" =>
        \A k \in Key : keys[k].st = "sent" /\ keys[k].fence >= entry.first =>
            \E i \in DOMAIN srv.accepted : srv.accepted[i][1] = k

\* The gateway sees each key at most once, in the order typed, and on the very
\* attachment it was typed at, whatever was queued, replaced or reconnected.
KeysLandOnce ==
    /\ \A i, j \in DOMAIN srv.accepted : i < j => srv.accepted[i][1] < srv.accepted[j][1]
    /\ \A i \in DOMAIN srv.accepted : srv.accepted[i][2] = keys[srv.accepted[i][1]].fence

\* The screen of a view is its frames from the first on, none missing, none
\* twice, although a delivery may be abandoned half way and the view restarted.
ScreenIsAView ==
    entry.state = "active" /\ entry.view # "none" =>
        /\ \A i \in DOMAIN screen : screen[i] = i
        /\ entry.out = Len(screen)

\* An honest gateway never trips the client's protocol checks, however its
\* frames interleave with HTTP replies, transfers and reconnects.
HonestStreamAccepted == ~entry.bad

\* Every socket and every unredeemed issuance has an owner who will end it, and
\* a runtime that reports a clean stop left neither behind.
NothingLeaks ==
    /\ open \subseteq {entry.fence, proc.fence}
    /\ srv.issued \subseteq srv.redeemed \cup srv.cancelled \cup reqs
    /\ life = "stopped" => open = {} /\ srv.issued \subseteq srv.redeemed \cup srv.cancelled

\* A key lands at most once, and a complete batch was accepted, across lost
\* replies, replaced connections and a seat that changes hands.
KeysArrive == KeysLandOnce /\ CompleteMeansAccepted

\* The screen shows what the host sent, a host that follows the protocol is
\* never refused, and what was opened for the attachment is closed with it.
StreamResumes == TypeOK /\ ScreenIsAView /\ HonestStreamAccepted /\ NothingLeaks
=============================================================================
