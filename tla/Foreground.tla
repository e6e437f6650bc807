----------------------------- MODULE Foreground -----------------------------
(***************************************************************************)
(* The foreground terminal (src/terminal/foreground.ts): the tabs a person *)
(* is attached to, the keys typed at them, the questions the local-action  *)
(* broker puts to the person, the recovery of interrupted tabs, and the    *)
(* way the host terminal is given back.                                    *)
(*                                                                         *)
(* The class runs on one event loop, so a callback is atomic up to its     *)
(* first await.  Keys are judged twice: at receipt (Receive), when the     *)
(* screen the person saw is captured with the key, and when the serialized *)
(* input queue reaches it (Route), which may be much later because an      *)
(* earlier send is blocked.  Handlers call one another (a published state  *)
(* may start a recovery or a stop, a decision promotes the next question), *)
(* so each is an operator from the state record to the state record, and   *)
(* an action is one event applied to it.                                   *)
(*                                                                         *)
(* The runtime below is what TerminalRuntime models: here a send is        *)
(* delivered exactly when its attachment and seat are still current.       *)
(* A host read is one key; selection, scrolling, mouse, painting and the   *)
(* sign-in paste guard are left out.                                       *)
(***************************************************************************)
EXTENDS Naturals, Sequences, FiniteSets, SequencesExt

CONSTANTS Tabs,          \* the tabs of this run, 1 .. n, in attach order
          Keys,          \* the keys the person may press
          Questions,     \* local actions the machine may ask for: id -> kind
          Observable,    \* tabs whose writing seat another client may hold
          Roster,        \* a session roster is offered (SessionRoster)
          Budgets,       \* bounds: how many keys are pressed and faults happen
          MaxFence, MaxPending,
          QuickAttempts, SlowAttempts

Printable == {"text", "d", "n", "r", "w"}
Ids == DOMAIN Questions
NoTarget == [tab |-> 0, fence |-> 0, epoch |-> 0]
NoShown == [id |-> 0, tab |-> 0]
NoPrefix == [on |-> FALSE, tgt |-> NoTarget, gen |-> 0, shown |-> 0]
NoFlight == [op |-> "none"]
NoBatch == << >>
NoTab == [state |-> "none", fence |-> 0, epoch |-> 0, writer |-> FALSE, ended |-> FALSE]

VARIABLES fg,     \* the foreground's own state
          wire,   \* the last key bytes a machine accepted
          said,   \* the decision last given to the broker, with what was on screen
          left    \* keys and faults still to come in this run

vars == <<fg, wire, said, left>>

Init ==
  /\ fg = [st |-> "idle", lease |-> "none", boot |-> "none", reached |-> 0, act |-> 0, tabs |-> [t \in Tabs |-> NoTab],
           closing |-> 0, local |-> {}, cutoff |-> 0, goto |-> FALSE, early |-> FALSE,
           rcpt |-> 0, queue |-> << >>, batch |-> NoBatch, warm |-> NoTarget,
           flight |-> NoFlight, prefix |-> NoPrefix,
           shown |-> NoShown, relay |-> 0, gens |-> [t \in Tabs |-> 0], opening |-> 0,
           order |-> << >>,
           reqs |-> [i \in Ids |-> [st |-> "none", tab |-> 0, fence |-> 0, late |-> FALSE]],
           task |-> [t \in Tabs |-> "none"], tries |-> [t \in Tabs |-> 0], unrecovered |-> {}, quit |-> {},
           taking |-> {}, detached |-> {}, exited |-> {}, dead |-> {}, failure |-> FALSE, undone |-> FALSE]
  /\ wire = [at |-> NoTarget, seen |-> {}]
  /\ said = [id |-> 0, seen |-> {}]
  /\ left \in Budgets

\* the bounds of a run: so many keys, so many faults
MayPress == left.keys > 0
MayFault == left.faults > 0
Pressed == [left EXCEPT !.keys = @ - 1]
Faulted == [left EXCEPT !.faults = @ - 1]

Here(s) == {t \in Tabs : s.tabs[t].state # "none"}

\* what a key typed now would be sent to
Target(s) ==
  IF s.act # 0 /\ s.tabs[s.act].state = "up" /\ ~s.tabs[s.act].ended
  THEN [tab |-> s.act, fence |-> s.tabs[s.act].fence, epoch |-> s.tabs[s.act].epoch]
  ELSE NoTarget

ShownFor(s, tgt) == IF tgt.tab = s.shown.tab THEN s.shown.id ELSE 0
GenFor(s, tgt) == IF tgt.tab = 0 THEN 0 ELSE s.gens[tgt.tab]
Writes(s, tgt) == tgt.tab # 0 /\ s.tabs[tgt.tab].writer
Hide(s) == [s EXCEPT !.shown = NoShown]

----------------------------------------------------------------------------
(* The broker's queue of questions.                                         *)

Open(s, i) == s.reqs[i].st \in {"validated", "pending", "executing"}
LiveId(s, i) == /\ s.reqs[i].tab \in Here(s)
                /\ s.tabs[s.reqs[i].tab].fence = s.reqs[i].fence

\* the head of the queue is put to the person; a stale head is cancelled
ActivateHead(s) ==
  LET stale(i) == s.reqs[i].st = "validated" /\ ~LiveId(s, i)
      ahead == {n \in DOMAIN s.order : \A m \in 1..n : stale(s.order[m])}
      order == SubSeq(s.order, Cardinality(ahead) + 1, Len(s.order))
  IN  [s EXCEPT !.order = order,
                !.reqs = [i \in Ids |->
                  IF \E n \in ahead : s.order[n] = i THEN [@[i] EXCEPT !.st = "done"]
                  ELSE IF order # << >> /\ order[1] = i /\ @[i].st = "validated"
                       THEN [@[i] EXCEPT !.st = "pending"]
                  ELSE @[i]]]

\* results of the broker are immutable: only an open request is finished
Finish(s, ids) ==
  LET now == {i \in ids : Open(s, i)}
  IN  ActivateHead([s EXCEPT
        !.order = SelectSeq(@, LAMBDA i : i \notin now),
        !.reqs = [i \in Ids |-> IF i \in now THEN [@[i] EXCEPT !.st = "done"] ELSE @[i]],
        !.relay = IF @ \in now THEN 0 ELSE @])

CancelBinding(s, t) ==
  Finish(s, {i \in Ids : s.reqs[i].tab = t /\ s.reqs[i].fence = s.tabs[t].fence})

\* the questions asked over the same attachment as question i
SameBinding(s, i) == {j \in Ids : s.reqs[j].tab = s.reqs[i].tab /\ s.reqs[j].fence = s.reqs[i].fence}

Decidable(s, i) == /\ s.reqs[i].st = "pending" /\ s.order # << >> /\ Head(s.order) = i
                   /\ LiveId(s, i)

\* decide(id, allow); the caller has checked Decidable
Decide(s, i, allow) ==
  IF s.reqs[i].late \/ ~allow THEN Finish(s, {i})
  ELSE [s EXCEPT !.reqs[i].st = "executing"]

Advance(gens, ts) == [t \in Tabs |-> IF t \in ts THEN gens[t] + 1 ELSE gens[t]]

\* every key captured before this screen belongs to an older generation
Promote(s0) ==
  LET s == Finish(s0, {i \in Ids : s0.reqs[i].late})
      cur == IF s.order # << >> /\ s.reqs[Head(s.order)].st = "pending" THEN Head(s.order) ELSE 0
      quiet == cur = 0 \/ (cur # 0 /\ Questions[cur] = "relay")
      t == IF quiet \/ ~LiveId(s, cur) THEN 0 ELSE s.reqs[cur].tab
      next == [id |-> cur, tab |-> t]
  IN  IF quiet
      THEN [s EXCEPT !.relay = cur, !.gens = Advance(@, {s.shown.tab}), !.shown = NoShown]
      ELSE [s EXCEPT !.relay = 0,
                     !.gens = IF s.shown = next THEN @ ELSE Advance(@, {s.shown.tab, t}),
                     !.batch = IF @ # NoBatch /\ @[1].tgt.tab = t THEN NoBatch ELSE @,
                     !.shown = next]

----------------------------------------------------------------------------
(* Stopping and published terminal states.                                  *)

\* #stopNow up to its first await; a second stop joins the first
Stop(s) ==
  IF s.st \in {"stopping", "stopped", "idle"} THEN s
  ELSE LET quit == Finish(s, {i \in Ids : LiveId(s, i)})
       IN  [quit EXCEPT !.st = "stopping", !.batch = NoBatch,
                        !.task = [t \in Tabs |-> "none"]]

Fail(s) == Stop([s EXCEPT !.failure = TRUE])

\* an admitted batch never outlives the seat it was typed at
BatchStands(b, t, new) ==
  b # NoBatch /\ b[1].tgt.tab = t =>
    /\ new.state = "up" /\ new.writer
    /\ new.fence = b[1].tgt.fence /\ new.epoch = b[1].tgt.epoch

Replacement(s) == IF Here(s) = {} THEN 0 ELSE CHOOSE t \in Here(s) : \A u \in Here(s) : t <= u

Drop(s, t) ==
  LET d == [s EXCEPT !.tabs[t] = NoTab]
  IN  [d EXCEPT !.act = IF @ = t THEN Replacement(d) ELSE @]

StartRecovery(s, t) ==
  IF s.task[t] # "none" THEN s
  ELSE [s EXCEPT !.task[t] = "quick", !.tries[t] = QuickAttempts]

\* #terminalState: exit says the remote process ended with this publication
Published(s0, t, new, exit) ==
  LET a == [s0 EXCEPT !.batch = IF BatchStands(@, t, new) THEN @ ELSE NoBatch,
                      !.tabs[t] = IF @.state = "none" THEN @ ELSE new]
      known == s0.tabs[t].state # "none"
      over == new.state \in {"closed", "failed", "detached"}
      b == IF ~known \/ ~over THEN a
           ELSE Drop([CancelBinding(a, t) EXCEPT
                        !.failure = @ \/ new.state = "failed",
                        !.exited = IF exit THEN @ \cup {t} ELSE @], t)
  IN  IF known /\ t \in s0.local /\ new.state # "up" THEN a
      ELSE IF b.st # "active" THEN b
      ELSE IF Here(b) = {} THEN Stop(b)
      ELSE IF new.state = "down" /\ t \notin b.unrecovered THEN StartRecovery(b, t)
      ELSE b

\* #terminalReady: a new attachment retires the questions of the old one
Ready(s, t, new) ==
  LET stale == {i \in Ids : s.reqs[i].tab = t /\ s.reqs[i].fence # new.fence}
      r == Finish([s EXCEPT !.tabs[t] = new], stale)
  IN  IF s.shown.tab = t /\ s.shown.tab # 0 /\ s.reqs[s.shown.id].fence # new.fence
      THEN Hide(r) ELSE r

----------------------------------------------------------------------------
(* Starting.                                                                *)

Start == /\ fg.st = "idle"
         /\ fg' = [fg EXCEPT !.st = "starting", !.boot = "acquire"]
         /\ UNCHANGED <<wire, said, left>>

\* start's catch: the stop it joins may already have finished
Thrown(s) == [s EXCEPT !.boot = "done",
                       !.st = IF @ = "stopped" /\ ~s.early THEN "failed" ELSE @]

\* a host granted after ownership ended is given back at once
AcquireHost ==
  /\ fg.boot = "acquire"
  /\ fg' = IF fg.st = "starting" THEN [fg EXCEPT !.lease = "held", !.boot = "attach"]
           ELSE Thrown([fg EXCEPT !.lease = "returned"])
  /\ UNCHANGED <<wire, said, left>>

\* runtime.attach resolves: as the writer, or as an observer of another's seat
AttachTab(writes) ==
  LET t == fg.reached + 1
      new == [NoTab EXCEPT !.state = "up", !.fence = 1, !.epoch = 1, !.writer = writes]
      s == Ready(fg, t, new)
  IN  /\ fg.boot = "attach" /\ fg.st = "starting" /\ t \in Tabs
      /\ writes \/ t \in Observable
      /\ fg' = [s EXCEPT !.act = IF @ = 0 THEN t ELSE @, !.reached = t]
      /\ UNCHANGED <<wire, said, left>>

AttachFails ==
  /\ fg.boot = "attach" /\ fg.st = "starting" /\ fg.reached + 1 \in Tabs /\ MayFault
  /\ fg' = Fail([fg EXCEPT !.boot = "done"])
  /\ left' = Faulted
  /\ UNCHANGED <<wire, said>>

\* the attach that a stop interrupted
AttachAborted ==
  /\ fg.boot = "attach" /\ fg.st # "starting"
  /\ fg' = Thrown(fg)
  /\ UNCHANGED <<wire, said, left>>

Activate ==
  /\ fg.boot = "attach" /\ fg.st = "starting" /\ fg.reached + 1 \notin Tabs
  /\ fg' = [fg EXCEPT !.st = "active", !.boot = "done"]
  /\ UNCHANGED <<wire, said, left>>

\* the caller's abort signal
Abort == /\ fg.st \in {"starting", "active"} /\ MayFault
         /\ fg' = Fail(fg)
         /\ left' = Faulted
         /\ UNCHANGED <<wire, said>>

----------------------------------------------------------------------------
(* Receipt of a key (#queueInputBytes).                                     *)

\* what the person sees while pressing a key; only the properties read it
OnScreen(s) == [tgt |-> Target(s),
                question |-> IF s.relay # 0 /\ s.reqs[s.relay].tab = s.act THEN s.relay
                             ELSE IF s.act # 0 /\ s.shown.tab = s.act THEN s.shown.id ELSE 0]

Chunk(s, k) == [keys |-> <<k>>, tgt |-> Target(s), rcpt |-> s.rcpt + 1, gen |-> GenFor(s, Target(s)),
                shown |-> ShownFor(s, Target(s)), detaches |-> ~Writes(s, Target(s)),
                seen |-> {OnScreen(s)}]

Flush(s) == [s EXCEPT !.queue = @ \o s.batch, !.batch = NoBatch]

\* MAX_FOREGROUND_PENDING_INPUT_BYTES, a key a byte
Pending(s) == FoldSeq(LAMBDA c, n : n + Len(c.keys), 0, s.queue \o s.batch)
              + (IF s.flight.op = "none" THEN 0 ELSE Len(s.flight.chunk.keys))

Joins(s, c) == s.batch # NoBatch /\ s.batch[1].tgt = c.tgt /\ s.batch[1].gen = c.gen

\* a key shares a frame only with keys typed at the same screen
Batchable(s, c) == /\ s.st = "active" /\ c.keys[1] \in Printable /\ Writes(s, c.tgt)
                   /\ ~s.prefix.on /\ c.shown = 0

Enqueue(s, c) ==
  LET leaves == c.keys[1] = "interrupt" /\ c.detaches /\ ~s.prefix.on /\ c.tgt # NoTarget
  IN  [s EXCEPT !.local = IF leaves THEN @ \cup {c.tgt.tab} ELSE @,
                !.closing = IF leaves THEN c.tgt.tab ELSE @,
                !.queue = Append(@, c)]

\* burst: the key before this one came within INPUT_BURST_GAP_MS
Batched(s, c, burst) ==
  IF Joins(s, c)
  THEN [s EXCEPT !.batch = <<[@[1] EXCEPT !.keys = Append(@, c.keys[1]), !.seen = @ \cup c.seen]>>]
  ELSE LET f == [Flush(s) EXCEPT !.warm = c.tgt]
       IN  IF burst /\ s.warm = c.tgt THEN [f EXCEPT !.batch = <<c>>] ELSE Enqueue(f, c)

Unavailable(s) == IF s.shown.tab = s.act THEN Hide(s) ELSE s

QueueInputBytes(s0, k, burst) ==
  LET c == Chunk(s0, k)
      s == [s0 EXCEPT !.rcpt = @ + 1]
  IN  IF s.cutoff # 0 THEN [s EXCEPT !.goto = @ /\ k # "interrupt"]
      ELSE IF s.st = "starting" /\ k = "interrupt" THEN Stop([s EXCEPT !.early = TRUE])
      ELSE IF s.closing # 0 THEN s
      ELSE IF Pending(s) + 1 > MaxPending THEN Fail(s)
      ELSE IF /\ s.st = "active" /\ c.tgt = NoTarget /\ ~s.prefix.on
              /\ k \notin {"interrupt", "prefix"} THEN Unavailable(s)
      ELSE IF Batchable(s, c) THEN Batched(s, c, burst)
      ELSE Enqueue([Flush(s) EXCEPT !.warm = NoTarget], c)

Press(k, burst) ==
  /\ fg.st \in {"starting", "active"} /\ fg.lease = "held" /\ MayPress
  /\ fg' = QueueInputBytes(fg, k, burst)
  /\ left' = Pressed
  /\ UNCHANGED <<wire, said>>

\* INPUT_BATCH_WINDOW_MS, or the frame is full
FlushBatch == /\ fg.batch # NoBatch
              /\ fg' = Flush(fg)
              /\ UNCHANGED <<wire, said, left>>

----------------------------------------------------------------------------
(* Routing the oldest queued key (#routeInput).                             *)

\* chosen after the switch: sent to neither session
PastCutoff(s, c) == s.cutoff # 0 /\ c.rcpt > s.cutoff

\* no look at the question a queued key was typed over
NeverWithheld(s, c) == FALSE

\* the question on screen changed between receipt and routing
Withheld(s, c) == /\ c.gen # GenFor(s, c.tgt) \/ c.shown # ShownFor(s, c.tgt)
                  /\ c.keys[1] \notin {"interrupt", "prefix"} /\ ~s.prefix.on

AsksRelay(s, c) == /\ s.relay # 0 /\ ~s.prefix.on /\ c.tgt.tab # 0 /\ c.keys \in {<<"enter">>, <<"esc">>}
                   /\ c.tgt.tab = s.reqs[s.relay].tab /\ c.tgt.tab = s.act

AsksBrowser(s, c) == /\ s.shown.id # 0 /\ ~s.prefix.on /\ c.keys[1] \notin {"interrupt", "prefix"}
                     /\ c.tgt.tab # 0 /\ c.tgt.tab = s.act /\ c.tgt.tab = s.shown.tab

StaleQuestion(s, c) == s.reqs[s.shown.id].fence # c.tgt.fence
Denies(c) == c.keys \in {<<"esc">>, <<"d">>}
Allows(c) == c.keys = <<"enter">>

\* #routeRelayConsent
RelayConsent(s, c) ==
  LET i == s.relay
      asked == [s EXCEPT !.relay = 0]
      d == IF Decidable(s, i) THEN Decide(asked, i, Allows(c)) ELSE asked
  IN  IF Allows(c) /\ d.reqs[i].st = "executing" THEN d ELSE Promote(d)

\* #routeBrowserActionInput, for a key that is an answer
BrowserAnswer(s, c) ==
  LET i == s.shown.id
  IN  IF StaleQuestion(s, c) THEN Hide(Finish(s, SameBinding(s, i)))
      ELSE IF s.reqs[i].late THEN Hide(Finish(s, {j \in Ids : s.reqs[j].late}))
      ELSE IF Allows(c) /\ s.opening # 0 THEN s
      ELSE IF ~Decidable(s, i) THEN Fail(s)
      ELSE IF Denies(c) THEN Promote(Hide(Decide(s, i, FALSE)))
      ELSE [Decide(s, i, TRUE) EXCEPT !.opening = i]

Answers(s, c) == \/ AsksRelay(s, c)
                 \/ AsksBrowser(s, c) /\ \/ StaleQuestion(s, c) \/ s.reqs[s.shown.id].late
                                         \/ Denies(c) \/ Allows(c)

Answer(s, c) == IF AsksRelay(s, c) THEN RelayConsent(s, c) ELSE BrowserAnswer(s, c)

\* the question a key was taken as an answer to
Decided(s, c) == IF AsksRelay(s, c) THEN s.relay ELSE s.shown.id

\* the tab on screen now instead of the one the key was typed at
SendToActive(s, c, tgt) == IF Target(s) = NoTarget THEN Unavailable(s)
                           ELSE [s EXCEPT !.flight = [op |-> "send", chunk |-> c, to |-> Target(s)]]

\* sendInput is called; it may wait behind an earlier frame
Send(s, c, tgt) == IF tgt = NoTarget THEN Unavailable(s)
                   ELSE [s EXCEPT !.flight = [op |-> "send", chunk |-> c, to |-> tgt]]

\* #detachTab up to runtime.detach
BeginDetach(s, c, t) ==
  IF t = 0 THEN s
  ELSE LET d == IF s.tabs[t].state = "none" THEN s ELSE CancelBinding(s, t)
       IN  [d EXCEPT !.local = @ \cup {t},
                     !.flight = [op |-> "detach", chunk |-> c, to |-> [NoTarget EXCEPT !.tab = t],
                                 known |-> s.tabs[t].state # "none"]]

Select(s) ==
  LET after == {t \in Here(s) : t > s.act}
      least(ts) == CHOOSE t \in ts : \A u \in ts : t <= u
  IN  IF Here(s) = {} THEN s
      ELSE [s EXCEPT !.act = least(IF after # {} THEN after ELSE Here(s))]

RosterActive(s) == Roster /\ Here(s) = {s.act}

\* #acceptSwitch, and the detach that follows it
Switch(s, c) ==
  IF s.st # "active" \/ s.cutoff # 0 \/ s.closing # 0 THEN s
  ELSE BeginDetach([Flush(s) EXCEPT !.cutoff = c.rcpt, !.goto = TRUE, !.prefix = NoPrefix], c, s.act)

Retry(s) ==
  IF s.act = 0 \/ s.tabs[s.act].state # "down" THEN s
  ELSE IF s.task[s.act] = "slow" THEN [s EXCEPT !.task[s.act] = "woken"]
  ELSE StartRecovery(s, s.act)

TakeWriter(s) ==
  IF s.act = 0 \/ s.tabs[s.act].state # "up" \/ s.tabs[s.act].writer THEN s
  ELSE [s EXCEPT !.taking = @ \cup {s.act}]

\* the key after Ctrl+]
Chord(s0, c) ==
  LET k == c.keys[1]
      p == s0.prefix
      s == [s0 EXCEPT !.prefix = NoPrefix]
      stale == p.gen # GenFor(s, p.tgt) \/ p.shown # ShownFor(s, p.tgt)
      closing == IF p.tgt = NoTarget THEN s.act ELSE p.tgt.tab
  IN  CASE k = "d" -> BeginDetach([s EXCEPT !.closing = closing], c, closing)
        [] k = "n" /\ RosterActive(s) -> Switch(s, c)
        [] k = "n" /\ ~RosterActive(s) -> Select(s)
        [] k = "r" /\ ~stale -> Retry(s)
        [] k = "w" /\ ~stale -> TakeWriter(s)
        [] OTHER -> IF stale THEN s ELSE Send(s, c, p.tgt)

\* an interrupt withdraws the question it was typed over
Interrupted(s, c) ==
  LET i == ShownFor(s, c.tgt)
  IN  IF i = 0 THEN s
      ELSE Hide(Finish(s, SameBinding(s, i)))

Dispatch(s0, c) ==
  LET s == IF c.keys[1] = "interrupt" THEN Interrupted(s0, c) ELSE s0
  IN  CASE s.prefix.on -> Chord(s, c)
        [] ~s.prefix.on /\ c.keys = <<"interrupt">> /\ c.detaches -> BeginDetach(s, c, IF c.tgt.tab = 0 THEN s.act ELSE c.tgt.tab)
        [] ~s.prefix.on /\ c.keys = <<"prefix">> ->
             [s EXCEPT !.prefix = [on |-> TRUE, tgt |-> c.tgt, gen |-> c.gen, shown |-> c.shown]]
        [] OTHER -> Send(s, c, c.tgt)

RouteHead == Head(fg.queue)
Dequeued == [fg EXCEPT !.queue = Tail(@)]
MayRoute == fg.queue # << >> /\ fg.flight.op = "none"

RouteDropped ==
  /\ MayRoute /\ (PastCutoff(fg, RouteHead) \/ Withheld(fg, RouteHead))
  /\ fg' = Dequeued
  /\ UNCHANGED <<wire, said, left>>

RouteAnswer ==
  /\ MayRoute /\ ~PastCutoff(fg, RouteHead) /\ ~Withheld(fg, RouteHead) /\ Answers(fg, RouteHead)
  /\ fg' = Answer(Dequeued, RouteHead)
  /\ said' = [id |-> Decided(fg, RouteHead), seen |-> RouteHead.seen]
  /\ UNCHANGED <<wire, left>>

RouteKeys ==
  /\ MayRoute /\ ~PastCutoff(fg, RouteHead) /\ ~Withheld(fg, RouteHead) /\ ~Answers(fg, RouteHead)
  /\ fg' = Dispatch(Dequeued, RouteHead)
  /\ UNCHANGED <<wire, said, left>>

----------------------------------------------------------------------------
(* What awaits inside a routed key.                                         *)

Landed == [fg EXCEPT !.flight = NoFlight]

\* the runtime admits bytes only for the attachment and seat they name
Current(s, to) == /\ s.tabs[to.tab].state = "up" /\ s.tabs[to.tab].writer
                  /\ s.tabs[to.tab].fence = to.fence /\ s.tabs[to.tab].epoch = to.epoch

SendAccepted ==
  /\ fg.flight.op = "send" /\ Current(fg, fg.flight.to)
  /\ fg' = Landed
  /\ wire' = [at |-> fg.flight.to, seen |-> fg.flight.chunk.seen]
  /\ UNCHANGED <<said, left>>

\* #inputFailure: a key refused for its seat or its connection is a notice, and
\* any other failure ends the view
SendRefused ==
  /\ fg.flight.op = "send" /\ ~Current(fg, fg.flight.to)
  /\ fg' = IF fg.tabs[fg.flight.to.tab].state = "up" THEN Landed ELSE Unavailable(Landed)
  /\ UNCHANGED <<wire, said, left>>

SendBreaks ==
  /\ fg.flight.op = "send"
  /\ fg' = Fail(Landed)
  /\ UNCHANGED <<wire, said, left>>

\* runtime.detach: a closed entry is only removed, and may be removed already
DetachCall(ok) ==
  LET t == fg.flight.to.tab
      at == fg.tabs[t].state
  IN  /\ fg.flight.op = "detach"
      /\ IF at = "closed" THEN TRUE ELSE ok = (at # "none")
      /\ fg' = [fg EXCEPT !.flight.op = IF ok THEN "closing" ELSE "refused",
                          !.tabs[t].state = IF at \in {"none", "closed"} THEN @ ELSE "detached"]
      /\ UNCHANGED <<wire, said, left>>

\* the wire did not close in time
DetachTimesOut ==
  /\ fg.flight.op = "closing" /\ MayFault
  /\ fg' = [fg EXCEPT !.flight.op = "refused"]
  /\ left' = Faulted
  /\ UNCHANGED <<wire, said>>

DetachRefused ==
  LET t == fg.flight.to.tab
      s == [Landed EXCEPT !.closing = 0, !.local = @ \ {t}, !.failure = TRUE]
  IN  /\ fg.flight.op = "refused"
      /\ fg' = Stop(IF s.tabs[t].state \in {"down", "failed"} THEN Published(s, t, s.tabs[t], FALSE) ELSE s)
      /\ UNCHANGED <<wire, said, left>>

\* left running, whatever the server's record says
AnnounceRunning(s, t) ==
  IF ~s.flight.known THEN s
  ELSE [s EXCEPT !.detached = @ \cup {t}, !.exited = IF s.tabs[t].ended THEN @ \cup {t} ELSE @]

\* announced only now: as exited when the server said so, as running otherwise
Announce(s, t) ==
  IF ~s.flight.known THEN s
  ELSE IF s.tabs[t].ended THEN [s EXCEPT !.exited = @ \cup {t}]
  ELSE [s EXCEPT !.detached = @ \cup {t}]

\* the key's operation waits for the stop that waits for it
DetachAwaitsStop ==
  LET t == fg.flight.to.tab
  IN  /\ fg.flight.op = "closing" /\ fg.st \notin {"stopping", "active"}
      /\ fg' = [Announce(fg, t) EXCEPT !.flight = NoFlight]
      /\ UNCHANGED <<wire, said, left>>

DetachConfirmed ==
  LET t == fg.flight.to.tab
      a == [Announce(fg, t) EXCEPT !.flight = NoFlight, !.closing = 0, !.local = @ \ {t}, !.unrecovered = @ \ {t}]
      s == Drop(IF a.shown.tab = t THEN Hide(a) ELSE a, t)
  IN  /\ fg.flight.op = "closing"
      /\ fg' = IF Here(s) = {} THEN Stop(s) ELSE s
      /\ UNCHANGED <<wire, said, left>>

----------------------------------------------------------------------------
(* Recovery of an interrupted tab (#recoverTab).                            *)

SetTask(s, t, k) == [s EXCEPT !.task[t] = k]

\* a wait ends: the slow one looks again at what it was waiting for
RecoverCall(t) ==
  /\ fg.st = "active" /\ fg.task[t] \in {"quick", "slow", "woken"}
  /\ fg' = IF fg.task[t] # "quick" /\ (t \notin fg.unrecovered \/ fg.tabs[t].state # "down")
           THEN SetTask(fg, t, "none")
           ELSE [fg EXCEPT !.task[t] = "call", !.tries[t] = @ - 1]
  /\ UNCHANGED <<wire, said, left>>

RecoverOk(t, writes) ==
  LET new == [fg.tabs[t] EXCEPT !.state = "up", !.fence = @ + 1, !.writer = writes]
  IN  /\ fg.task[t] = "call" /\ fg.tabs[t].state = "down" /\ (writes \/ t \in Observable) /\ fg.tabs[t].fence < MaxFence
      /\ fg' = SetTask(Published(Ready(fg, t, new), t, new, FALSE), t, "settle")
      /\ UNCHANGED <<wire, said, left>>

\* the quick attempts come first, then slow ones the person can hurry
AttemptFailed(s, t, retryable) ==
  LET n == IF retryable THEN s.tries[t] ELSE 0
      u == [s EXCEPT !.tries[t] = n, !.unrecovered = IF n > SlowAttempts THEN @ ELSE @ \cup {t}]
  IN  SetTask(u, t, IF n > SlowAttempts THEN "quick" ELSE IF n > 0 THEN "slow" ELSE "none")

RecoverFails(t, retryable) ==
  /\ fg.task[t] = "call"
  /\ fg' = AttemptFailed(fg, t, retryable /\ fg.tabs[t].state # "none")
  /\ UNCHANGED <<wire, said, left>>

\* #reconcileGeometry returned, in time or because its attachment was stale
Settle(t) ==
  /\ fg.task[t] = "settle"
  /\ fg' = SetTask([fg EXCEPT !.unrecovered = @ \ {t}], t, "none")
  /\ UNCHANGED <<wire, said, left>>

\* the resize it had sent was refused
SettleFails(t) ==
  /\ fg.task[t] = "settle" /\ fg.tabs[t].state # "up"
  /\ fg' = AttemptFailed(fg, t, fg.tabs[t].state # "none")
  /\ UNCHANGED <<wire, said, left>>

----------------------------------------------------------------------------
(* The runtime publishes; the machine asks; the browser opens.              *)

Fault == MayFault /\ left' = Faulted
Shows(t) == fg.st \in {"starting", "active", "stopping"} /\ fg.tabs[t].state = "up"

Interrupts(t) == /\ Shows(t) /\ Fault
                 /\ fg' = Published(fg, t, [fg.tabs[t] EXCEPT !.state = "down"], FALSE)
                 /\ UNCHANGED <<wire, said>>

RivalTakes(t) == /\ Shows(t) /\ fg.tabs[t].writer /\ Fault
                 /\ fg' = Published(fg, t, [fg.tabs[t] EXCEPT !.writer = FALSE, !.epoch = @ + 1], FALSE)
                 /\ UNCHANGED <<wire, said>>

SeatGranted(t) == /\ Shows(t) /\ t \in fg.taking /\ ~fg.tabs[t].writer
                  /\ fg' = Published([fg EXCEPT !.taking = @ \ {t}], t,
                                     [fg.tabs[t] EXCEPT !.writer = TRUE, !.epoch = @ + 1], FALSE)
                  /\ UNCHANGED <<wire, said, left>>

ProcessExits(t) == /\ Shows(t) /\ Fault
                   /\ fg' = Published([fg EXCEPT !.dead = @ \cup {t}], t, [fg.tabs[t] EXCEPT !.state = "closed"], TRUE)
                   /\ UNCHANGED <<wire, said>>

StreamFails(t) == /\ Shows(t) /\ Fault
                  /\ fg' = Published(fg, t, [fg.tabs[t] EXCEPT !.state = "failed"], FALSE)
                  /\ UNCHANGED <<wire, said>>

\* #noticePaneDeath: the server's record confirms what the screen shows
PaneDies(t) == /\ fg.st = "active" /\ fg.tabs[t].state = "up" /\ ~fg.tabs[t].ended /\ Fault
               /\ fg' = LET s == [fg EXCEPT !.tabs[t].ended = TRUE, !.dead = @ \cup {t}]
                        IN  IF s.shown.tab = t THEN Hide(s) ELSE s
               /\ UNCHANGED <<wire, said>>

\* a request in a local action frame, or a sign-in link in live output
Ask(i, t) ==
  /\ fg.st \in {"starting", "active"} /\ fg.tabs[t].state = "up" /\ fg.reqs[i].st = "none"
  /\ \A j \in Ids : j < i => fg.reqs[j].st # "none"
  /\ fg' = Promote(ActivateHead([fg EXCEPT !.order = Append(@, i),
             !.reqs[i] = [st |-> "validated", tab |-> t, fence |-> fg.tabs[t].fence, late |-> FALSE]]))
  /\ UNCHANGED <<wire, said, left>>

\* the request's deadline passes; nothing looks at the clock until later
Expires(i) == /\ Open(fg, i) /\ ~fg.reqs[i].late /\ Fault
              /\ fg' = [fg EXCEPT !.reqs[i].late = TRUE]
              /\ UNCHANGED <<wire, said>>

\* #openBrowser: the request may have ended while the browser was starting
BrowserOpens(ok) ==
  LET i == fg.opening
      s == [fg EXCEPT !.opening = 0]
      gone == fg.reqs[i].st # "executing"
      fin == IF ok /\ Questions[i] = "browser" /\ ~s.reqs[i].late THEN s ELSE Finish(s, {i})
  IN  /\ i # 0
      /\ fg' = IF ok /\ gone THEN s ELSE Promote(Hide(fin))
      /\ UNCHANGED <<wire, said, left>>

\* the remote sign-in completes, or the relay settles
Completes(i) == /\ fg.reqs[i].st = "executing" /\ fg.opening # i
                /\ fg' = Finish(fg, {i})
                /\ UNCHANGED <<wire, said, left>>

----------------------------------------------------------------------------
(* The awaits of #stopNow.                                                  *)

StopDetach(t, ok) ==
  /\ fg.st = "stopping" /\ t \in Here(fg) \ fg.quit
  /\ ok \/ MayFault \/ t \in fg.local \/ fg.tabs[t].state = "closed"
  /\ left' = IF ok \/ t \in fg.local \/ fg.tabs[t].state = "closed" THEN left ELSE Faulted
  /\ fg' = LET s == [fg EXCEPT !.quit = @ \cup {t}, !.undone = @ \/ ~ok]
           IN  IF ok THEN Published(s, t, [s.tabs[t] EXCEPT !.state = "detached"], FALSE) ELSE s
  /\ UNCHANGED <<wire, said>>

\* every tab was told, every queued key was routed: the host goes back
StopDone(ok) ==
  /\ fg.st = "stopping" /\ Here(fg) \subseteq fg.quit /\ fg.queue = << >> /\ fg.flight.op = "none"
  /\ ok \/ (MayFault /\ fg.lease = "held")
  /\ left' = IF ok THEN left ELSE Faulted
  /\ fg' = [fg EXCEPT !.st = IF ok /\ ~fg.undone THEN "stopped" ELSE "failed",
                      !.lease = IF ok /\ @ = "held" THEN "returned" ELSE @,
                      !.tabs = [t \in Tabs |-> NoTab], !.shown = NoShown, !.relay = 0,
                      !.quit = {}, !.undone = FALSE]
  /\ UNCHANGED <<wire, said>>

\* stop() again after a failed cleanup
StopAgain == /\ fg.st = "failed" /\ fg.lease = "held"
             /\ fg' = Stop(fg)
             /\ UNCHANGED <<wire, said, left>>

Internal == \/ AcquireHost \/ AttachAborted \/ Activate \/ FlushBatch
            \/ RouteDropped \/ RouteAnswer \/ RouteKeys
            \/ SendAccepted \/ SendRefused \/ SendBreaks
            \/ (\E ok \in BOOLEAN : DetachCall(ok)) \/ DetachRefused \/ DetachConfirmed
            \/ (\E t \in Tabs : RecoverCall(t) \/ Settle(t) \/ SettleFails(t))
            \/ (\E ok \in BOOLEAN : BrowserOpens(ok))
            \/ (\E t \in Tabs, ok \in BOOLEAN : StopDetach(t, ok))
            \/ (\E ok \in BOOLEAN : StopDone(ok)) \/ StopAgain

External == \/ Start \/ AttachFails \/ Abort \/ DetachTimesOut
            \/ \E w \in BOOLEAN : AttachTab(w)
            \/ \E k \in Keys, burst \in BOOLEAN : Press(k, burst)
            \/ \E t \in Tabs, b \in BOOLEAN : RecoverOk(t, b) \/ RecoverFails(t, b)
            \/ \E t \in Tabs : \/ Interrupts(t) \/ RivalTakes(t) \/ SeatGranted(t)
                               \/ ProcessExits(t) \/ StreamFails(t) \/ PaneDies(t)
            \/ \E i \in Ids : (\E t \in Tabs : Ask(i, t)) \/ Expires(i) \/ Completes(i)

Next == Internal \/ External

Spec == Init /\ [][Next]_vars

----------------------------------------------------------------------------
(* Properties.                                                              *)

\* The keys a machine accepted were typed at that very attachment and seat
\* (#captureInputTarget at receipt, the prefix's target for a chord): however
\* long a key waited, and whatever tab, fence or writer replaced the one on
\* screen meanwhile, it is never delivered elsewhere.
KeysGoWhereTyped == \A k \in wire.seen : k.tgt = wire.at \/ k.tgt = NoTarget

\* A key decides only the question that was on screen when it was typed.
NoBlindConsent == said.id # 0 => \A k \in said.seen : k.question = said.id

\* The same for the questions a browser action asks: a key queued behind a
\* blocked send never answers a browser question that appeared meanwhile.
BrowserNeverBlind == said.id # 0 /\ Questions[said.id] # "relay" => \A k \in said.seen : k.question = said.id

\* No session is announced both as left running and as ended.
OneFarewell == fg.detached \cap fg.exited = {}

\* A session the server said has ended is never announced as left running.
DeadNotAnnouncedRunning == fg.detached \cap fg.dead = {}

\* A stop always has a next step of its own: the stop waits for the queued
\* keys, and no key (a detach, which ends in a stop) waits for the stop.
StopNeverStuck == fg.st = "stopping" => ENABLED Internal
=============================================================================
