----------------------------- MODULE PredictiveEcho -----------------------------
(***************************************************************************)
(* Guessing what the remote will echo (terminal/predictive-echo.ts         *)
(* PredictiveEcho, foreground #predictAtReceipt, withPredictionOverlay).   *)
(* A typed character is painted at once, over the true frame, where the    *)
(* remote's cursor will put it; the remote screen settles the guess, or    *)
(* its timeout does.  Guesses are painted only after the remote has just   *)
(* echoed three of them, and none is made while the effect of a key that   *)
(* moves the screen (Enter, Backspace, a chord) is awaited.                *)
(*                                                                         *)
(* One input row; one key per callback.  A smoothed round trip is a choice *)
(* between its thresholds.  The hidden cursor that an application paints   *)
(* as an inverse cell is left out.                                         *)
(***************************************************************************)
EXTENDS Naturals, Sequences

CONSTANTS PeMode,      \* "on" or "auto"
          PeColumns,   \* cells of the row
          PeKeys,      \* bound: keys typed
          PeClock,     \* bound: ticks
          PeTimeout,   \* PREDICTION_CONFIRM_TIMEOUT_MS, in ticks
          PeBarrier,   \* DEFAULT_BARRIER_MS, in ticks
          PeMoves      \* bound: what the remote does by itself, and seats taken

ASSUME EchoBounds ==
    /\ PeMode \in {"on", "auto"}
    /\ {PeColumns, PeKeys, PeClock, PeTimeout, PeBarrier, PeMoves} \subseteq Nat

VARIABLES pe,        \* the predictor
          peScreen,  \* the remote row: cells, cursor, echoing, asking a secret
          peWire,    \* keys on their way, and back as an echo
          peSeat,    \* the attachment: tab, writer fence and geometry
          peNow, peTyped, peMoved,
          peEarned,  \* ghost: keys echoed since a guess failed or the seat began
          peLate,    \* ghost: an echo took longer than the barrier
          peBlind    \* ghost: a printable key on its way was not guessed
peVars == <<pe, peScreen, peWire, peSeat, peNow, peTyped, peMoved, peEarned, peLate, peBlind>>

Printable1 == {"a"}
Moving == {"enter", "back"}
Blank == ""
Trust == 3
NoBarrier == PeClock + PeBarrier + 1
Fresh2(seat) == [key |-> seat, pending |-> <<>>, recent |-> <<>>, slow |-> FALSE, barrier |-> NoBarrier]
EmptyRow == [cells |-> [c \in 1 .. PeColumns |-> Blank], cursor |-> 1, echo |-> TRUE, secret |-> FALSE]

PeInit ==
    /\ pe = Fresh2(0)
    /\ peScreen = EmptyRow /\ peWire = <<>> /\ peSeat = 1
    /\ peNow = 0 /\ peTyped = 0 /\ peMoved = 0
    /\ peEarned = 0 /\ peLate = FALSE /\ peBlind = FALSE

\* #adopt: another seat has not earned the old one's echo history.
AdoptsHistory(s) == IF s.key = peSeat THEN s ELSE [s EXCEPT !.key = peSeat, !.pending = <<>>, !.barrier = NoBarrier]
AdoptSeat(s) == IF s.key = peSeat THEN s ELSE Fresh2(peSeat)
Lapsed(s) == IF peNow >= s.barrier THEN [s EXCEPT !.barrier = NoBarrier] ELSE s

\* #displayAllowed
Trusted(s) == /\ Len(s.recent) >= Trust
              /\ \A k \in DOMAIN s.recent: k > Len(s.recent) - Trust => s.recent[k]
DisplayAllowed(s) == Trusted(s) /\ (PeMode = "on" \/ s.slow)
\* #settle keeps the newest outcomes.
Recent(s, outcome) ==
    LET all == Append(s.recent, outcome) IN IF Len(all) > Trust THEN Tail(all) ELSE all
RollBack(s) == [s EXCEPT !.pending = <<>>, !.recent = Recent(s, FALSE)]

InsertionPoint == peScreen.cursor
BlankAt(column) == peScreen.cells[column] = Blank
\* barrier: guesses are withdrawn, none is made until the key can have landed.
Withdraws(s) == [s EXCEPT !.pending = <<>>]
Barrier1(s) == [s EXCEPT !.pending = <<>>, !.barrier = peNow + PeBarrier]

LastOne(s) == s.pending[Len(s.pending)]
Anchor(s) == IF s.pending = <<>> THEN InsertionPoint ELSE LastOne(s).column + 1
Placed(s) == Anchor(s) <= PeColumns /\ BlankAt(Anchor(s))
\* predict, for a printable key: no guess during a barrier or at a prompt for
\* a secret; a key that cannot be placed raises the barrier.
Guess(s, key) ==
    IF s.barrier # NoBarrier \/ (s.pending = <<>> /\ peScreen.secret) THEN s
    ELSE IF Placed(s)
         THEN [s EXCEPT !.pending = Append(@, [column |-> Anchor(s), glyph |-> key, sentAt |-> peNow])]
         ELSE [s EXCEPT !.barrier = peNow]
Predict(s, key) == IF key \in Moving THEN Barrier1(AdoptSeat(s)) ELSE Guess(Lapsed(AdoptSeat(s)), key)

Types1(key) ==
    /\ peTyped < PeKeys
    /\ peTyped' = peTyped + 1
    /\ pe' = Predict(pe, key)
    /\ peWire' = Append(peWire, [key |-> key, at |-> peNow])
    /\ peBlind' = (peBlind \/ (key \in Printable1 /\ Len(pe'.pending) = Len(AdoptSeat(pe).pending)))
    /\ UNCHANGED <<peScreen, peSeat, peNow, peMoved, peEarned, peLate>>

\* reconcile: a guess whose cell shows another glyph rolls all back; those up
\* to the newest one whose glyph is there are confirmed.
PeShows(s, row, k) == row.cells[s.pending[k].column]
Wrong(s, row) == \E k \in DOMAIN s.pending: PeShows(s, row, k) \notin {Blank, s.pending[k].glyph}
Evidenced(s, row) == {k \in DOMAIN s.pending: PeShows(s, row, k) = s.pending[k].glyph}
Newest1(ks) == CHOOSE k \in ks: \A j \in ks: j <= k
Gap(s, row, n) == \E k \in 1 .. n: PeShows(s, row, k) # s.pending[k].glyph
Smoothed(s, n) ==
    {b \in BOOLEAN: \/ b = s.slow
                    \/ b /\ \E k \in 1 .. n: peNow > s.pending[k].sentAt
                    \/ ~b /\ \E k \in 1 .. n: peNow = s.pending[k].sentAt}
Confirm(s, n) ==
    {[s EXCEPT !.pending = SubSeq(@, n + 1, Len(@)), !.slow = b,
               !.recent = LET all == @ \o [k \in 1 .. n |-> TRUE]
                          IN SubSeq(all, IF Len(all) > Trust THEN Len(all) - Trust + 1 ELSE 1, Len(all))]:
        b \in Smoothed(s, n)}
Reconciled(before, row) ==
    LET s == Lapsed(AdoptSeat(before))
    IN IF s.pending = <<>> THEN {s}
       ELSE IF Wrong(s, row) THEN {RollBack(s)}
       ELSE IF Evidenced(s, row) = {} THEN {s}
       ELSE IF Gap(s, row, Newest1(Evidenced(s, row))) THEN {RollBack(s)}
       ELSE Confirm(s, Newest1(Evidenced(s, row)))
RolledBack(s, row) ==
    LET t == Lapsed(AdoptSeat(s))
    IN t.pending # <<>> /\ (Wrong(t, row) \/ (Evidenced(t, row) # {} /\ Gap(t, row, Newest1(Evidenced(t, row)))))

\* The remote takes the next key: it echoes it, swallows it, or redraws.
EchoOf(row, key) ==
    IF key = "enter" THEN [row EXCEPT !.cells = EmptyRow.cells, !.cursor = 1]
    ELSE IF key = "back"
         THEN IF row.cursor = 1 THEN row
              ELSE [row EXCEPT !.cursor = @ - 1, !.cells[row.cursor - 1] = Blank]
    ELSE IF ~row.echo THEN row
    ELSE IF row.cells[PeColumns] # Blank  \* full: it wraps, and the screen scrolls
         THEN [row EXCEPT !.cells = [EmptyRow.cells EXCEPT ![1] = key], !.cursor = 2]
    ELSE [row EXCEPT !.cells[row.cursor] = key, !.cursor = IF @ = PeColumns THEN @ ELSE @ + 1]
Earns(row, by) == peEarned' = IF RolledBack(pe, row) THEN 0 ELSE peEarned + by
EchoArrives ==
    /\ peWire # <<>>
    /\ LET key == Head(peWire).key
           row == EchoOf(peScreen, key)
       IN /\ peScreen' = row
          /\ pe' \in Reconciled(pe, row)
          /\ Earns(row, IF key \in Printable1 /\ row # peScreen THEN 1 ELSE 0)
    /\ peWire' = Tail(peWire)
    /\ peBlind' = (peBlind /\ Tail(peWire) # <<>>)
    /\ UNCHANGED <<peSeat, peNow, peTyped, peMoved, peLate>>

\* What the remote does by itself: it writes at the cursor, or its echo or its
\* prompt changes.
HostMoves ==
    /\ peMoved < PeMoves /\ peMoved' = peMoved + 1
    /\ \E row \in {[peScreen EXCEPT !.cells[peScreen.cursor] = "z"],
                   [peScreen EXCEPT !.echo = ~@], [peScreen EXCEPT !.secret = ~@]}:
        /\ peScreen' = row
        /\ pe' \in Reconciled(pe, row)
        /\ Earns(row, 0)
    /\ UNCHANGED <<peWire, peSeat, peNow, peTyped, peLate, peBlind>>

\* #armTimer: the oldest guess was not confirmed in time.
Expired1 ==
    /\ pe.pending # <<>> /\ peNow >= pe.pending[1].sentAt + PeTimeout
    /\ pe' = RollBack(pe)
    /\ peEarned' = 0
    /\ UNCHANGED <<peScreen, peWire, peSeat, peNow, peTyped, peMoved, peLate, peBlind>>

\* Another tab, writer fence or geometry: keys of the old one go elsewhere.
SeatMoves ==
    /\ peMoved < PeMoves /\ peMoved' = peMoved + 1
    /\ peSeat' = peSeat + 1
    /\ peScreen' = EmptyRow /\ peWire' = <<>> /\ peEarned' = 0 /\ peBlind' = FALSE
    /\ UNCHANGED <<pe, peNow, peTyped, peLate>>

TimePasses1 ==
    /\ peNow < PeClock
    /\ peNow' = peNow + 1
    /\ peLate' = (peLate \/ \E k \in DOMAIN peWire: peNow + 1 >= peWire[k].at + PeBarrier)
    /\ UNCHANGED <<pe, peScreen, peWire, peSeat, peTyped, peMoved, peEarned, peBlind>>

\* overlay: painted only where the true screen puts the first guess.
Overlay ==
    IF /\ pe.key = peSeat /\ DisplayAllowed(pe) /\ pe.pending # <<>>
       /\ peNow < pe.pending[1].sentAt + PeTimeout
       /\ InsertionPoint = pe.pending[1].column
       /\ ~peScreen.secret
       /\ \A k \in DOMAIN pe.pending: BlankAt(pe.pending[k].column)
    THEN [k \in DOMAIN pe.pending |-> pe.pending[k].glyph]
    ELSE <<>>

PeNext ==
    \/ \E key \in Printable1 \cup Moving: Types1(key)
    \/ EchoArrives \/ HostMoves \/ Expired1 \/ SeatMoves \/ TimePasses1

PeSpec == PeInit /\ [][PeNext]_peVars

-----------------------------------------------------------------------------
(* Properties.                                                             *)

\* A guess is painted only after this seat's remote echoed three keys since
\* the last guess that failed: what an earlier tab, writer or prompt echoed
\* says nothing of this one, which may be reading a secret.
ShownIsEarned == Overlay # <<>> => peEarned >= Trust

\* What is painted is what was typed and is still on its way, in order, while
\* no echo takes longer than the barrier, the remote echoes, and no key on its
\* way was left without a guess.
PaintedIsTyped ==
    (Overlay # <<>> /\ ~peLate /\ ~peBlind /\ peScreen.echo) =>
        Overlay = [k \in DOMAIN peWire |-> peWire[k].key]

-----------------------------------------------------------------------------
(***************************************************************************)
(* The local terminal that mirrors one remote screen                       *)
(* (terminal/xterm-vte.ts XtermViewportAdapter, XtermResourceBudget).      *)
(* Writes, resizes and changes of attachment wait for each other; a write  *)
(* is parsed, its queries are answered one by one to the remote, and the   *)
(* frame is captured.  An attachment that is retired may no longer answer; *)
(* any fault of a write disposes the adapter.  Bytes wait under a budget.  *)
(*                                                                         *)
(* Every write is one unit of the budget and asks at most one query; the   *)
(* rate window of answers is a fault among the others.                     *)
(***************************************************************************)

CONSTANTS VtWrites,   \* bound: output frames
          VtPending,  \* MAX_XTERM_PENDING_WRITE_BYTES, in frames
          VtMoves     \* bound: attachments, resizes and new views

ASSUME ViewportBounds == {VtWrites, VtPending, VtMoves} \subseteq Nat

VARIABLES vt,          \* the adapter: open, attachment, answer signal, screen
          vtQueue,     \* operations waiting behind #writeTail
          vtNow,       \* the operation under way
          vtPending,   \* #pendingWriteBytes and the tab's reservation
          vtCalled,    \* frames handed to write so far
          vtMoved,     \* changes so far
          vtReplied,   \* ghost: answers sent, with what was retired by then
          vtOverlap    \* ghost: a change was asked while another one waited
vtVars == <<vt, vtQueue, vtNow, vtPending, vtCalled, vtMoved, vtReplied, vtOverlap>>

Changes == {"rebind", "reset"}
NoWork == [kind |-> "none", seq |-> 0, query |-> FALSE, to |-> 0, step |-> "none", signal |-> 0, by |-> 0]
Work(kind) == [NoWork EXCEPT !.kind = kind, !.step = "waits"]

\* A signal is named by the attachment it was made for; retired holds those
\* already aborted, asked the newest attachment a caller has asked for.
VtInit ==
    /\ vt = [open |-> TRUE, binding |-> 0, signal |-> 0, retired |-> {}, asked |-> 0, shown |-> 0]
    /\ vtQueue = <<>> /\ vtNow = NoWork
    /\ vtPending = 0 /\ vtCalled = 0 /\ vtMoved = 0
    /\ vtReplied = <<>> /\ vtOverlap = FALSE

VtEnqueue(op) == vtQueue' = Append(vtQueue, op)
\* dispose: the answers still to be sent are cancelled.
Disposed(s) == [s EXCEPT !.open = FALSE, !.retired = @ \cup {s.signal}]

\* write: refused over the budget, else the frame waits its turn.
CallWrite ==
    /\ vt.open /\ vtCalled < VtWrites
    /\ vtCalled' = vtCalled + 1
    /\ IF vtPending + 1 > VtPending
       THEN UNCHANGED <<vtQueue, vtPending>>
       ELSE /\ \E q \in BOOLEAN: VtEnqueue([Work("write") EXCEPT !.seq = vtCalled + 1, !.query = q])
            /\ vtPending' = vtPending + 1
    /\ UNCHANGED <<vt, vtNow, vtMoved, vtReplied, vtOverlap>>

\* rebind and resetForCurrentView: answers of the old attachment are revoked
\* at once, the change itself waits for the writes before it.
RetiresWhenDone(s) == s
RetiresAtOnce(s) == [s EXCEPT !.retired = @ \cup {s.signal}]
ChangeWaits == vtNow.kind \in Changes \/ \E k \in DOMAIN vtQueue: vtQueue[k].kind \in Changes
CallChange(kind) ==
    /\ vt.open /\ vtMoved < VtMoves
    /\ vtMoved' = vtMoved + 1
    /\ vt' = [RetiresAtOnce(vt) EXCEPT !.asked = vtMoved + 1]
    /\ VtEnqueue([Work(kind) EXCEPT !.to = vtMoved + 1])
    /\ vtOverlap' = (vtOverlap \/ ChangeWaits)
    /\ UNCHANGED <<vtNow, vtPending, vtCalled, vtReplied>>

CallResize ==
    /\ vt.open /\ vtMoved < VtMoves
    /\ vtMoved' = vtMoved + 1
    /\ VtEnqueue(Work("resize"))
    /\ UNCHANGED <<vt, vtNow, vtPending, vtCalled, vtReplied, vtOverlap>>

\* The next operation; a disposed adapter fails each of them.
ReleasesIfShown(op) == IF op.kind = "write" /\ vt.open THEN vtPending - 1 ELSE vtPending
Releases(op) == IF op.kind = "write" THEN vtPending - 1 ELSE vtPending
Takes1 == vtNow.kind = "none" /\ vtQueue # <<>>
Refuses ==
    /\ Takes1 /\ ~vt.open
    /\ vtQueue' = Tail(vtQueue)
    /\ vtPending' = Releases(Head(vtQueue))
    /\ UNCHANGED <<vt, vtNow, vtCalled, vtMoved, vtReplied, vtOverlap>>

\* A change takes effect: a new attachment, a new signal; a new view restarts
\* the sequence of its frames.
Changes2 ==
    /\ Takes1 /\ vt.open /\ Head(vtQueue).kind \in Changes \cup {"resize"}
    /\ vtQueue' = Tail(vtQueue)
    /\ vt' = IF Head(vtQueue).kind = "resize" THEN vt
             ELSE [vt EXCEPT !.binding = Head(vtQueue).to, !.signal = Head(vtQueue).to,
                             !.shown = IF Head(vtQueue).kind = "reset" THEN 0 ELSE @]
    /\ UNCHANGED <<vtNow, vtPending, vtCalled, vtMoved, vtReplied, vtOverlap>>

\* #writeNow: the parse, in its deadline and its limits.
Parses ==
    /\ Takes1 /\ vt.open /\ Head(vtQueue).kind = "write"
    /\ vtQueue' = Tail(vtQueue)
    /\ vtNow' = [Head(vtQueue) EXCEPT !.step = "parsed", !.signal = vt.signal, !.by = vt.binding]
    /\ UNCHANGED <<vt, vtPending, vtCalled, vtMoved, vtReplied, vtOverlap>>
Done1(op) == vtNow' = NoWork /\ vtPending' = Releases(op)
\* A parse that throws, takes too long or asks too much, an answer that cannot
\* be sent in time, a frame behind the one shown: the write's catch disposes.
Faults ==
    /\ vtNow.step \in {"parsed", "answering"}
    /\ vtNow.step = "answering" => (vtNow.signal \notin vt.retired \/ ~vt.open)
    /\ vt' = Disposed(vt)
    /\ Done1(vtNow)
    /\ UNCHANGED <<vtQueue, vtCalled, vtMoved, vtReplied, vtOverlap>>

\* An answer is handed on unless its signal was aborted.
Answers2 ==
    /\ vtNow.step = "parsed" /\ vtNow.query
    /\ IF vtNow.signal \in vt.retired
       THEN vtNow' = [vtNow EXCEPT !.step = "answered"] /\ UNCHANGED vtReplied
       ELSE /\ vtNow' = [vtNow EXCEPT !.step = "answering"]
            /\ vtReplied' = Append(vtReplied, [seq |-> vtNow.seq, by |-> vtNow.by, asked |-> vt.asked])
    /\ UNCHANGED <<vt, vtQueue, vtPending, vtCalled, vtMoved, vtOverlap>>
AnswerTaken ==
    /\ vtNow.step = "answering"
    /\ vtNow' = [vtNow EXCEPT !.step = "answered"]
    /\ UNCHANGED <<vt, vtQueue, vtPending, vtCalled, vtMoved, vtReplied, vtOverlap>>

\* #capture: the frame is shown; the registry refuses one of a disposed tab.
Captures ==
    /\ vtNow.step = "answered" \/ (vtNow.step = "parsed" /\ ~vtNow.query)
    /\ vt' = IF vt.open THEN [vt EXCEPT !.shown = vtNow.seq] ELSE vt
    /\ Done1(vtNow)
    /\ UNCHANGED <<vtQueue, vtCalled, vtMoved, vtReplied, vtOverlap>>

OwnerDisposes ==
    /\ vt.open
    /\ vt' = Disposed(vt)
    /\ UNCHANGED <<vtQueue, vtNow, vtPending, vtCalled, vtMoved, vtReplied, vtOverlap>>

VtNext ==
    \/ CallWrite \/ CallResize \/ \E kind \in Changes: CallChange(kind)
    \/ Refuses \/ Changes2 \/ Parses \/ Faults \/ Answers2 \/ AnswerTaken \/ Captures
    \/ OwnerDisposes

VtSpec == VtInit /\ [][VtNext]_vtVars

-----------------------------------------------------------------------------
(* Properties.                                                             *)

\* A terminal never answers a query for an attachment a caller has already
\* replaced, unless one change was asked for while another was waiting: a
\* write between the two then answers under a signal nobody aborts.
NoReplyFromRetired ==
    ~vtOverlap => \A k \in DOMAIN vtReplied: vtReplied[k].by = vtReplied[k].asked

\* What waits under the budget is exactly the writes that have not ended:
\* after faults, refusals and a disposal with writes waiting nothing leaks.
BudgetIsReturned ==
    vtPending = Len(SelectSeq(vtQueue, LAMBDA op: op.kind = "write"))
                + IF vtNow.kind = "write" THEN 1 ELSE 0

=============================================================================
