---------------------------- MODULE LocalActions ----------------------------
(***************************************************************************)
(* Actions a Machine asks of this computer (open a browser, relay a        *)
(* sign-in callback, forward a port): src/local-actions/broker.ts queues   *)
(* them and asks the person, executor.ts runs the approved one, and        *)
(* terminal/foreground.ts returns the outcome over the terminal's wire.    *)
(*                                                                         *)
(* A request carries the fencing generation of the terminal that asked     *)
(* (its identity), a nonce and a deadline.  One terminal is modelled: its  *)
(* fence, and whether its connection is up.  The Machine replays a request *)
(* whose outcome it has not seen, so a request may be submitted any number *)
(* of times; a request the broker refuses breaks the connection, because   *)
(* the refusal is thrown into the terminal's frame pump.                   *)
(***************************************************************************)
EXTENDS Naturals, Sequences, FiniteSets, SequencesExt

CONSTANTS
    Requests,      \* request ids the Machine may use
    Forbidden,     \* requests the device policy denies
    Unsupported,   \* requests of a kind with no adapter
    Ttl,           \* the instant at which every request expires
    MaxMoves,      \* bound on the instants that pass and the fences that are replaced
    MaxQueue,      \* MAX_LOCAL_ACTION_QUEUE
    MaxHistory     \* MAX_LOCAL_ACTION_HISTORY

ASSUME Bounds == /\ MaxQueue \in Nat \ {0} /\ MaxHistory \in Nat \ {0}
                 /\ Ttl \in Nat \ {0} /\ MaxMoves \in Nat
                 /\ Forbidden \cup Unsupported \subseteq Requests

VARIABLES
    now,       \* the clock
    asked,     \* [Requests -> Nat]: the identity a request was issued under, 0 if never
    broker,    \* LocalActionBroker: requests, queue, nonces, terminal order, and
               \* the fence isIdentityLive reads from the tab (0: no tab)
    active,    \* LocalActionExecutor.#active
    link,      \* the foreground's delivery of outcomes
    seen       \* what has happened: adapter runs, approvals, outcomes

laVars == <<now, asked, broker, active, link, seen>>

fence == broker.fence

Terminal == {"succeeded", "failed", "denied", "expired", "cancelled"}
Absent == [state |-> "absent", ident |-> 0]
LaIdle == [phase |-> "idle"]
NoOutcome == [status |-> "none", ident |-> 0]

IsLive(s, ident) == ident # 0 /\ ident = s.fence

-----------------------------------------------------------------------------
(* The broker.  s is its state; fired lists the snapshots onChange is      *)
(* called with during one call.                                            *)

\* #dequeue, #recordTerminal and #emit of requests that end in one call; the
\* history keeps the last MaxHistory of them.
Settle(s, ids, status) ==
    LET open == SelectSeq(ids, LAMBDA r: s.requests[r].state \notin Terminal \cup {"absent"})
        order == s.order \o open
        forgotten == ToSet(SubSeq(order, 1, Len(order) - MaxHistory))
    IN [s EXCEPT !.queue = SelectSeq(@, LAMBDA q: q \notin ToSet(open)),
                 !.order = SelectSeq(order, LAMBDA q: q \notin forgotten),
                 !.requests = [q \in Requests |->
                     IF q \in forgotten THEN Absent
                     ELSE IF q \in ToSet(open) THEN [@[q] EXCEPT !.state = status] ELSE @[q]],
                 !.fired = @ \o [i \in DOMAIN open |->
                     [id |-> open[i], ident |-> s.requests[open[i]].ident, status |-> status]]]

\* A waiting head whose identity is gone is cancelled, the next one is asked.
\* (A denied request never reaches the queue: the policy does not change.)
ActivateHead(s) ==
    LET waits(t, i) == t.requests[t.queue[i]].state = "validated"
        gone(i) == \A j \in 1..i: waits(s, j) /\ ~IsLive(s, s.requests[s.queue[j]].ident)
        stale == {i \in 1..Len(s.queue): gone(i)}
        t == Settle(s, SubSeq(s.queue, 1, Cardinality(stale)), "cancelled")
    IN IF t.queue # <<>> /\ waits(t, 1)
         THEN [t EXCEPT !.requests[t.queue[1]].state = "pending_user"] ELSE t

FinishOnly(s, r, status) == Settle(s, <<r>>, status)

Finish(s, r, status) == ActivateHead(Settle(s, <<r>>, status))

\* cancelBinding, cancelStaleForIdentity, expire: every open request that
\* matches ends; all of them wait in the queue.
FinishAll(s, Which(_), status) ==
    LET ids == SelectSeq(s.queue, LAMBDA r: Which(s.requests[r]))
    IN IF ids = <<>> THEN s ELSE ActivateHead(Settle(s, ids, status))

CancelBinding(s, ident) == FinishAll(s, LAMBDA q: q.ident = ident, "cancelled")
CancelStale(s) == FinishAll(s, LAMBDA q: q.ident # s.fence, "cancelled")
ExpireRequest(s) == IF now >= Ttl THEN FinishAll(s, LAMBDA q: TRUE, "expired") ELSE s

\* The Machine draws one nonce per request.
NonceKey(r) == <<asked[r], r>>
PruneAlways(s) == [s EXCEPT !.nonces = {}]
Prune(s) == IF now >= Ttl THEN [s EXCEPT !.nonces = {}] ELSE s

\* submit's refusals, in order; an exact duplicate is no refusal.
RefusedRequest(s, r) ==
    \/ now >= Ttl                                   \* validateRequest
    \/ ~IsLive(s, asked[r])                         \* #assertLive
    \/ /\ s.requests[r].state = "absent"
       /\ \/ NonceKey(r) \in s.nonces               \* replayed_nonce
          \/ Len(s.queue) >= MaxQueue               \* queue_full

Submitted(s, r) ==
    IF s.requests[r].state # "absent" THEN s        \* sameRequest: the snapshot it has
    ELSE LET t == [s EXCEPT !.nonces = @ \cup {NonceKey(r)},
                            !.requests[r] = [state |-> "validated", ident |-> asked[r]]]
         IN IF r \in Forbidden THEN Finish(t, r, "denied")
            ELSE ActivateHead([t EXCEPT !.queue = Append(@, r)])

\* complete: an ended request keeps its result, a late one expires.
\* A lost identity throws: the state stands.
Complete(s, r, status) ==
    IF s.requests[r].state \in Terminal \cup {"absent"} THEN s
    ELSE IF now >= Ttl THEN Finish(s, r, "expired")
    ELSE IF ~IsLive(s, s.requests[r].ident) THEN s
    ELSE IF status # "cancelled" /\ s.requests[r].state \notin {"executing", "awaiting"} THEN s
    ELSE Finish(s, r, status)

-----------------------------------------------------------------------------
(* The foreground's side: outcomes cached until their exact ACK.           *)

\* #queueRemoteLocalActionResult and #sendRemoteLocalActionResult: the first
\* outcome is kept, and sent while the tab stands where it was asked.
QueueResults(n, outcomes, at) ==
    LET new == {f \in outcomes: f.id \in n.tabs \ n.sends}
        kept(r) == IF n.pending[r] # NoOutcome \/ \A f \in new: f.id # r THEN n.pending[r]
                   ELSE LET f == CHOOSE f \in new: f.id = r IN [status |-> f.status, ident |-> f.ident]
    IN [n EXCEPT !.pending = [r \in Requests |-> kept(r)],
                 !.sends = @ \cup {r \in {f.id: f \in new}: kept(r).ident = at}]

\* onChange for every request that ended in this call of the broker.
Report(n, s) == QueueResults(n, ToSet(s.fired), s.fence)

\* #resendPendingRemoteLocalActionResults
Resend(n, at) ==
    LET due == {r \in n.tabs \ n.sends: n.pending[r] # NoOutcome /\ n.pending[r].ident = at}
    IN [n EXCEPT !.sends = @ \cup due]

FenceEvery(n, at) == [n EXCEPT !.pending = [r \in Requests |-> NoOutcome]]

\* #fenceRemoteLocalActionResults: nothing of another binding is kept.
FenceResults(n, at) ==
    LET old == {r \in Requests: n.pending[r] # NoOutcome /\ n.pending[r].ident # at}
    IN [n EXCEPT !.pending = [r \in Requests |-> IF r \in old THEN NoOutcome ELSE @[r]],
                 !.tabs = @ \ old]

\* One call of the broker, its state after it, and the outcomes it reports.
Commit(s, n, h) ==
    /\ broker' = [s EXCEPT !.fired = <<>>]
    /\ link' = Report(n, s)
    /\ seen' = [h EXCEPT !.ended = @ \cup ToSet(s.fired)]

-----------------------------------------------------------------------------
LaInit ==
    /\ now = 0
    /\ asked = [r \in Requests |-> 0]
    /\ broker = [fence |-> 1, requests |-> [r \in Requests |-> Absent], queue |-> <<>>, nonces |-> {},
                 order |-> <<>>, fired |-> <<>>]
    /\ active = [r \in Requests |-> LaIdle]
    /\ link = [up |-> TRUE, sends |-> {}, tabs |-> {}, pending |-> [r \in Requests |-> NoOutcome]]
    /\ seen = [ran |-> [r \in Requests |-> 0], approved |-> {}, ended |-> {}, wire |-> {},
               acked |-> {}, held |-> {}, refused |-> {}, told |-> [r \in Requests |-> "none"]]

Tick == /\ now + fence <= MaxMoves /\ now' = now + 1
        /\ UNCHANGED <<asked, broker, active, link, seen>>

\* The Machine asks under the fence it sees.
Issue(r) ==
    /\ asked[r] = 0 /\ link.up
    /\ asked' = [asked EXCEPT ![r] = fence]
    /\ UNCHANGED <<now, broker, active, link, seen>>

\* #localActionFrame: a request, or the Machine's replay of one.  A refusal
\* is thrown into the frame pump: the connection ends and the tab is forgotten.
LaFrame(r) ==
    /\ link.up /\ asked[r] # 0
    /\ LET s == Prune(broker)
           n == [link EXCEPT !.tabs = @ \cup {r}]
           t == Submitted(s, r)
       IN IF RefusedRequest(s, r)
            THEN Commit(s, [link EXCEPT !.tabs = @ \ {r}, !.up = FALSE],
                        [seen EXCEPT !.refused = @ \cup {r}])
            ELSE IF t.fired = <<>> /\ t.requests[r].state \in Terminal
              THEN /\ broker' = t
                   /\ link' = QueueResults(n, {[id |-> r, ident |-> t.requests[r].ident,
                                                status |-> t.requests[r].state]}, fence)
                   /\ UNCHANGED seen
            ELSE Commit(t, n, seen)
    /\ UNCHANGED <<now, asked, active>>

\* The person answers the card at the head of the queue.
Decide(r, allow) ==
    /\ broker.requests[r].state = "pending_user" /\ Head(broker.queue) = r
    /\ IsLive(broker, broker.requests[r].ident)
    /\ IF now >= Ttl THEN Commit(Finish(broker, r, "expired"), link, seen)
       ELSE IF ~allow THEN Commit(Finish(broker, r, "denied"), link, seen)
       ELSE Commit([broker EXCEPT !.requests[r].state = "executing"], link,
                   [seen EXCEPT !.approved = @ \cup {r}])
    /\ UNCHANGED <<now, asked, active>>

\* current(), on every promotion: what is overdue ends.
Current ==
    /\ now >= Ttl /\ broker.queue # <<>>
    /\ Commit(ActivateHead(ExpireRequest(broker)), link, seen)
    /\ UNCHANGED <<now, asked, active>>

-----------------------------------------------------------------------------
(* The executor.  An execution is queued (its microtask), running (the     *)
(* adapter), cleaning (what waits for its cleanups, in order) or kept (its *)
(* result is out and its cleanup waits for the deadline or a cancel).      *)

FreshRun == [phase |-> "queued", aborted |-> FALSE, ending |-> "none", emitted |-> FALSE,
          cleaning |-> "no", waiters |-> <<>>]

Resolved(h, r, status) == [h EXCEPT !.told[r] = IF @ = "none" THEN status ELSE @]

\* A resolved promise keeps its first value; a request evicted from the
\* broker leaves no result to resolve with.
Told(h, s, r) == IF s.requests[r].state \in Terminal THEN Resolved(h, r, s.requests[r].state)
                 ELSE Resolved(h, r, "rejected")

EmitAsSaid(x, r, status) ==
    [x EXCEPT !.s = Complete(@, r, status), !.a.emitted = TRUE, !.h = Resolved(@, r, status)]

\* #emit: [s, a, h] after committing the outcome to the broker.
Emit(x, r, status) ==
    IF x.a.emitted THEN x
    ELSE LET s == Complete(x.s, r, status)
             mine == {f \in ToSet(s.fired): f.id = r}
             out == IF mine # {} THEN (CHOOSE f \in mine: TRUE).status
                    ELSE IF s.requests[r].state \in Terminal THEN s.requests[r].state ELSE "rejected"
         IN [x EXCEPT !.s = s, !.a.emitted = out # "rejected", !.h = Resolved(@, r, out)]

\* #resolveFromAuthority
FromAuthority(x, r) ==
    IF x.a.emitted THEN x ELSE [x EXCEPT !.a.emitted = TRUE, !.h = Told(@, x.s, r)]

\* #emitTermination
EmitTermination(x, r) ==
    LET expired == x.a.ending = "expired"
        refused == x.a.ending # "timeout" /\ ~IsLive(x.s, asked[r])
    IN IF expired \/ refused
       THEN FromAuthority([x EXCEPT !.s = IF x.a.emitted THEN @ ELSE IF expired THEN ExpireRequest(@)
                                          ELSE CancelBinding(@, asked[r])], r)
       ELSE Emit(x, r, IF x.a.ending = "timeout" THEN "failed" ELSE "cancelled")

\* #identityStillLive
StillLive(x, r) == x.s.requests[r].state \in {"executing", "awaiting"} /\ IsLive(x.s, asked[r])
LostAuthority(x, r) == FromAuthority([x EXCEPT !.s = CancelBinding(@, asked[r])], r)

\* #finishActive
Ended(x) == [x EXCEPT !.a = LaIdle]

\* What a caller of #cleanup says once the cleanups have run, unless something
\* has been said already; whoever is first ends the execution.
Says(x, r, w) ==
    CASE w \in {"succeeded", "failed"} -> Emit(x, r, w)
      [] w = "threw" -> x
      [] w = "ended" -> EmitTermination(x, r)
Resume(x, r, w) == Ended(Says(x, r, w))

SkipCleanup(x, r, w) == Resume(x, r, w)

\* #cleanup: the first caller starts it, the others wait with it.
AwaitCleanup(x, r, w) ==
    IF x.a.cleaning = "done" THEN Resume(x, r, w)
    ELSE [x EXCEPT !.a.cleaning = "yes", !.a.waiters = Append(@, w)]

Step(r, x) ==
    /\ active' = [active EXCEPT ![r] = x.a]
    /\ Commit(x.s, link, x.h)
    /\ UNCHANGED <<now, asked>>

Now(r) == [s |-> broker, a |-> active[r], h |-> seen]

\* execute and #assertApprovedCurrent.
Execute(r) ==
    /\ broker.requests[r].state = "executing" /\ now < Ttl
    /\ active[r] = LaIdle
    /\ IF IsLive(broker, broker.requests[r].ident)
         THEN Step(r, [Now(r) EXCEPT !.a = FreshRun])
         ELSE Step(r, [Now(r) EXCEPT !.s = CancelBinding(@, broker.requests[r].ident)])

\* #run up to the adapter's first await.  The adapter takes hold of something
\* (a listener, a socket) and registers its cleanup.
Run(r) ==
    /\ active[r].phase = "queued"
    /\ IF active[r].aborted THEN Step(r, Ended(EmitTermination(Now(r), r)))
       ELSE IF r \in Unsupported THEN Step(r, Ended(Emit(Now(r), r, "failed")))
       ELSE Step(r, [Now(r) EXCEPT !.a.phase = "running",
                                   !.h.ran[r] = @ + 1, !.h.held = @ \cup {r}])

\* markAwaitingRemoteCompletion
MarkAwaiting(r) ==
    /\ active[r].phase = "running" /\ ~active[r].emitted /\ ~active[r].aborted
    /\ broker.requests[r].state = "executing" /\ IsLive(broker, asked[r])
    /\ Step(r, [Now(r) EXCEPT !.s = IF now >= Ttl THEN Finish(@, r, "expired")
                                    ELSE [@ EXCEPT !.requests[r].state = "awaiting"]])

\* adapter.execute resolves: abort, then authority, then cleanup, then result.
Returns(r, status, keep) ==
    /\ active[r].phase = "running"
    /\ LET x == Now(r) IN Step(r,
         IF x.a.emitted THEN Ended(x)
         ELSE IF x.a.aborted THEN [EmitTermination(x, r) EXCEPT !.a.phase = "left"]
         ELSE IF ~StillLive(x, r) THEN Ended(LostAuthority(x, r))
         ELSE IF keep THEN [Emit(x, r, status) EXCEPT !.a.phase = "kept"]
         ELSE AwaitCleanup([x EXCEPT !.a.phase = "cleaning"], r, status))

\* adapter.execute rejects.
Throws(r) ==
    /\ active[r].phase = "running"
    /\ LET x == Now(r)
           said == IF x.a.emitted THEN x
                   ELSE IF x.a.aborted THEN EmitTermination(x, r)
                   ELSE IF ~StillLive(x, r) THEN LostAuthority(x, r)
                   ELSE Emit(x, r, "failed")
       IN Step(r, AwaitCleanup([said EXCEPT !.a.phase = "cleaning"], r, "threw"))

\* The cleanups have run, and those who waited for them speak in their order:
\* where the outcome of the first could not be committed, the next one tries.
CleanupDone(r) ==
    /\ active[r].phase # "idle" /\ active[r].cleaning = "yes"
    /\ LET x == [Now(r) EXCEPT !.a.cleaning = "done", !.a.waiters = <<>>, !.h.held = @ \ {r}]
           Speaks(y, w) == Says(y, r, w)
       IN Step(r, Ended(FoldLeft(Speaks, x, active[r].waiters)))

\* cancel and #timeout: abort, clean up, then say why.
Terminate(r, why) ==
    /\ active[r].phase \notin {"idle", "left"}
    /\ ~(why # "cancelled" /\ active[r].cleaning # "no" /\ active[r].emitted)
    /\ why = "expired" => now >= Ttl
    /\ active[r].cleaning = "no" \/ "ended" \notin ToSet(active[r].waiters)
    /\ LET x == [Now(r) EXCEPT !.a.ending = IF @ = "none" THEN why ELSE @, !.a.aborted = TRUE]
       IN Step(r, AwaitCleanup(x, r, "ended"))

Executor(r) ==
    \/ Execute(r) \/ Run(r) \/ MarkAwaiting(r) \/ Throws(r) \/ CleanupDone(r)
    \/ \E status \in {"succeeded", "failed"}, keep \in BOOLEAN: Returns(r, status, keep)
    \/ \E why \in {"cancelled", "timeout", "expired"}: Terminate(r, why)

-----------------------------------------------------------------------------
(* The wire and the terminal.                                              *)

\* sendLocalActionControl: the boundary sends only under the current fence.
SendLands(r) ==
    /\ r \in link.sends /\ link.up /\ link.pending[r].ident = fence
    /\ link' = [link EXCEPT !.sends = @ \ {r}]
    /\ seen' = [seen EXCEPT !.wire = @ \cup {[id |-> r, fence |-> fence, status |-> link.pending[r].status]}]
    /\ UNCHANGED <<now, asked, broker, active>>

\* The send throws, or its frame is lost with the connection.
SendFails(r) ==
    /\ r \in link.sends
    /\ link' = [link EXCEPT !.sends = @ \ {r}]
    /\ UNCHANGED <<now, asked, broker, active, seen>>

\* #acknowledgeRemoteLocalActionResult, for an outcome that reached the Machine.
Ack(r) ==
    /\ link.up /\ \E w \in seen.wire: w.id = r
    /\ link.pending[r] # NoOutcome /\ link.pending[r].ident = fence
    /\ link' = [link EXCEPT !.pending[r] = NoOutcome, !.tabs = @ \ {r}]
    /\ seen' = [seen EXCEPT !.acked = @ \cup {r}]
    /\ UNCHANGED <<now, asked, broker, active>>

Down == /\ link.up /\ link' = [link EXCEPT !.up = FALSE]
        /\ UNCHANGED <<now, asked, broker, active, seen>>

\* #ready: a reconnect, under the same fence or under a new one.
Attach(f) ==
    /\ ~link.up /\ fence # 0 /\ now + f <= MaxMoves + 1
    /\ LET s == CancelStale([broker EXCEPT !.fence = f])
       IN /\ broker' = [s EXCEPT !.fired = <<>>]
          /\ link' = Resend(FenceResults(Report([link EXCEPT !.up = TRUE], s), f), f)
          /\ seen' = [seen EXCEPT !.ended = @ \cup ToSet(s.fired)]
    /\ UNCHANGED <<now, asked, active>>

\* The terminal is closed: its requests are cancelled, then its tab goes.
LaClose ==
    /\ fence # 0
    /\ LET s == CancelBinding(broker, fence)
       IN /\ broker' = [s EXCEPT !.fired = <<>>, !.fence = 0]
          /\ link' = Report([link EXCEPT !.up = FALSE], s)
          /\ seen' = [seen EXCEPT !.ended = @ \cup ToSet(s.fired)]
    /\ UNCHANGED <<now, asked, active>>

LaNext ==
    \/ Tick \/ Current \/ Down \/ LaClose
    \/ \E f \in {fence, fence + 1}: Attach(f)
    \/ \E r \in Requests:
         \/ Issue(r) \/ LaFrame(r) \/ Executor(r)
         \/ SendLands(r) \/ SendFails(r) \/ Ack(r)
         \/ \E allow \in BOOLEAN: Decide(r, allow)

LaSpec == LaInit /\ [][LaNext]_laVars

-----------------------------------------------------------------------------
(* However often the Machine replays a request, and whatever has been      *)
(* evicted from the broker's bounded history in between, its adapter runs  *)
(* at most once, and only after a person allowed it (submit, decide,       *)
(* execute).                                                               *)
EffectOnce ==
    \A r \in Requests: /\ seen.ran[r] <= 1
                       /\ seen.ran[r] = 1 => r \in seen.approved \ Forbidden

(* A request has one outcome.  Every outcome on the wire is that one, and  *)
(* it went to the binding that asked: results of an older fence are never  *)
(* replayed into a newer terminal (foreground.ts, #ready).                 *)
OneOutcome ==
    /\ \A e, f \in seen.ended: e.id = f.id => e = f
    /\ \A w \in seen.wire: [id |-> w.id, ident |-> w.fence, status |-> w.status] \in seen.ended

(* What execute() resolves with is the outcome the broker recorded.        *)
PromiseTruth ==
    \A r \in Requests: seen.told[r] \notin {"none", "rejected"} =>
        \E e \in seen.ended: e.id = r /\ e.status = seen.told[r]

(* One card at a time: a request that is being asked about or executed is  *)
(* the head of the queue, and an open request is never out of the queue.   *)
CardAtHead ==
    \A r \in Requests: LET st == broker.requests[r].state IN
        /\ st \in {"pending_user", "executing", "awaiting"} => broker.queue # <<>> /\ Head(broker.queue) = r
        /\ (st = "validated") => r \in ToSet(broker.queue) /\ Head(broker.queue) # r

(* An outcome the Machine has not acknowledged stays cached, and a         *)
(* reconnect finds where to send it, for as long as the terminal that      *)
(* asked is the one attached and no replay of the request was refused (a   *)
(* refused replay forgets the tab of the request it repeats).              *)
ResultKept ==
    \A e \in seen.ended: e.ident = fence /\ e.id \notin seen.acked \cup seen.refused =>
        link.pending[e.id] # NoOutcome /\ e.id \in link.tabs

(* What an adapter took hold of is released once its execution is over.    *)
Released == \A r \in Requests: active[r] = LaIdle => r \notin seen.held

(* ... at least when the execution reported an outcome of its own.         *)
ReleasedWithOutcome ==
    \A r \in Requests: active[r] = LaIdle /\ seen.told[r] \in {"succeeded", "failed"} => r \notin seen.held
=============================================================================
