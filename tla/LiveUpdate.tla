----------------------------- MODULE LiveUpdate -----------------------------
(***************************************************************************)
(* `machines live-update-supervisor` and `machines live-update-status`     *)
(* (commands/commands.ts): the in-place supervisor update, the record this *)
(* computer keeps of the operation identity it chose                       *)
(* (machines/live-supervisor-update.ts), and the exclusive create that     *)
(* makes the record a reservation (platform/adapter.ts).                   *)
(*                                                                         *)
(* Invocations of one Machine run side by side on one computer, each       *)
(* signed in to some account; an invocation that starts an update mints    *)
(* the identity, here its own name.  The producer journals an operation    *)
(* per identity and refuses a second identity while one is open; it is     *)
(* modelled from the answers the code distinguishes.  A request outlives   *)
(* the invocation that sent it: the client's budget may elapse, or the     *)
(* process may end, and the request still lands.                           *)
(***************************************************************************)
EXTENDS Naturals, FiniteSets

CONSTANTS
    Invocations,   \* invocations of the command
    Console,       \* the identity of an update started from the web console
    Owner,         \* the account that owns the Machine
    Stranger       \* an account that does not

ASSUME LuNames == Console \notin Invocations /\ Owner # Stranger

Ops == Invocations \cup {Console}
Nobody == "nobody"
Unlabelled == "unlabelled"

VARIABLES
    luSlot,      \* the record: who created the file, and what it says
    luJournal,   \* the producer's journal
    luPost,      \* the update request of an invocation: "no", "sent", "done"
    luInv,       \* where an invocation is
    luRaced      \* a record other than the one judged was removed, or an admission came late

luVars == <<luSlot, luJournal, luPost, luInv, luRaced>>

NoNote == [by |-> Nobody, op |-> Nobody, account |-> Unlabelled, full |-> FALSE]

LuInit ==
    /\ luSlot = NoNote
    /\ luJournal = [o \in Ops |-> IF o = Console THEN "open" ELSE "absent"]
    /\ luPost = [i \in Invocations |-> "no"]
    /\ luInv = [i \in Invocations |->
                  [pc |-> "idle", intent |-> "none", account |-> Owner, op |-> Nobody,
                   origin |-> "recorded_identity", seen |-> NoNote, ans |-> "none"]]
    /\ luRaced = FALSE

-----------------------------------------------------------------------------
(* The record. *)

\* notes.read.  A file between its creation and its write is unreadable.
ReadingState(note) == CASE note.by = Nobody -> "none"
                        [] note.by # Nobody /\ ~note.full -> "unreadable"
                        [] OTHER -> "outstanding"

\* The request of invocation i is the first the producer admits of an identity
\* whose record is already gone or being released, or that was only repeated.
AdmittedLate(i) ==
    \/ luInv[i].origin = "recorded_identity"
    \/ luSlot.op # luInv[i].op
    \/ \E j \in Invocations: luInv[j].op = luInv[i].op /\ luInv[j].pc \in {"settle", "unlink"}

Goes(i, pc) == luInv' = [luInv EXCEPT ![i].pc = pc]

\* notes.discard: unlink whatever has the name now.
Discard(i, judged) ==
    /\ luSlot' = NoNote
    /\ Goes(i, "done")
    /\ luRaced' = (luRaced \/ luSlot \notin {judged, NoNote})

\* Identities a person can know of.
Known == {Console} \cup {j \in Invocations: luInv[j].intent = "start" /\ luInv[j].op = j}

-----------------------------------------------------------------------------
(* What the producer answers. *)

\* readLiveUpdateOperationAnswer: an operation out of this account's view is
\* answered as one that never existed.
StatusAnswers(i) ==
    {"unavailable"} \cup
    {IF luInv[i].account # Owner THEN "absent" ELSE luJournal[luInv[i].op]}

\* liveUpdateAccountLabel: best effort.
AccountLabels(i) == {luInv[i].account, Unlabelled}

\* The request reaches the producer.  A refusal above the claim leaves the
\* journal alone; "ambiguous" is a refusal raised from both sides of it.
Serve(i) ==
    LET o == luInv[i].op
        busy == \E q \in Ops \ {o}: luJournal[q] = "open"
        Answer(a, state) == /\ luInv' = IF luInv[i].pc = "sent"
                                          THEN [luInv EXCEPT ![i].ans = a] ELSE luInv
                            /\ luJournal' = [luJournal EXCEPT ![o] = state]
        was == luJournal[o]
    IN /\ luPost[i] = "sent"
       /\ luPost' = [luPost EXCEPT ![i] = "done"]
       /\ \/ luInv[i].account # Owner /\ Answer("not_found", was)
          \/ luInv[i].account = Owner /\ was = "absent" /\ busy /\ Answer("conflict", was)
          \/ /\ luInv[i].account = Owner /\ was = "absent"
             /\ \E a \in {"not_admitted", "ambiguous"}: Answer(a, was)
          \/ /\ luInv[i].account = Owner /\ was # "settled" /\ ~busy
             /\ \E a \in {"pending", "conflict"}: (a = "conflict" => was = "open") /\ Answer(a, "open")
          \/ /\ luInv[i].account = Owner /\ ~(was = "absent" /\ busy)
             /\ \E a \in {"ok", "ok_unknown", "settled_refusal", "ambiguous"}: Answer(a, "settled")
       /\ luRaced' = (luRaced \/ (was = "absent" /\ luJournal'[o] # was /\ AdmittedLate(i)))
       /\ UNCHANGED luSlot

\* The console's own update ends.
ConsoleSettles ==
    /\ luJournal[Console] = "open"
    /\ luJournal' = [luJournal EXCEPT ![Console] = "settled"]
    /\ UNCHANGED <<luSlot, luPost, luInv, luRaced>>

-----------------------------------------------------------------------------
(* One invocation. *)

\* preflightLiveUpdateSupervisor, preflightLiveUpdateStatus: one intent; only
\* a resume and a status take a named identity.
Invoke(i) ==
    /\ luInv[i].pc = "idle"
    /\ \E intent \in {"start", "resume", "forget-unknown", "status"}, a \in {Owner, Stranger},
          named \in Known \cup {Nobody}:
         /\ intent \in {"start", "forget-unknown"} => named = Nobody
         /\ luInv' = [luInv EXCEPT ![i] = [@ EXCEPT !.pc = IF intent = "status" /\ named # Nobody
                                                           THEN "status" ELSE "read",
                                                    !.intent = intent, !.account = a, !.op = named]]
    /\ UNCHANGED <<luSlot, luJournal, luPost, luRaced>>

\* The first read of the record, and every refusal that follows from it alone.
ReadRecord(i) ==
    LET st == ReadingState(luSlot)
        named == luInv[i].op
        target == IF named # Nobody THEN named ELSE luSlot.op
        Next1 == CASE luInv[i].intent = "forget-unknown" ->
                        (CASE st = "none" -> "done" [] st = "unreadable" -> "unlink" [] OTHER -> "status")
                   [] luInv[i].intent = "status" -> IF st = "outstanding" THEN "status" ELSE "done"
                   [] luInv[i].intent = "resume" ->
                        IF \/ st = "unreadable" \/ (named = Nobody /\ st = "none")
                           \/ (named # Nobody /\ st = "outstanding" /\ luSlot.op # named)
                          THEN "done" ELSE "status"
                   [] OTHER -> IF st = "none" THEN "preflight" ELSE "done"
    IN /\ luInv[i].pc = "read"
       /\ luInv' = [luInv EXCEPT ![i] = [@ EXCEPT !.pc = Next1, !.seen = luSlot,
                                                  !.op = IF luInv[i].intent = "start" THEN i ELSE target]]
       /\ UNCHANGED <<luSlot, luJournal, luPost, luRaced>>

\* A start asks for the capability and for a running Machine; only its owner
\* gets past that.  The identity is minted here.
Preflight(i) ==
    /\ luInv[i].pc = "preflight"
    /\ \E ok \in {TRUE, FALSE}:
         /\ ok => luInv[i].account = Owner
         /\ luInv' = [luInv EXCEPT ![i].pc = IF ok THEN "create" ELSE "done", ![i].origin = "new_identity"]
    /\ UNCHANGED <<luSlot, luJournal, luPost, luRaced>>

\* The authoritative read before a resume or a clear (a status ends with it).
ResumeFor(i, answer) ==
    CASE answer = "absent" -> "done"
      [] answer = "settled" -> IF luInv[i].seen.op = luInv[i].op THEN "settle" ELSE "done"
      [] OTHER -> IF ReadingState(luInv[i].seen) = "none" THEN "create" ELSE "send"

ClearsAnyAbsent(i, answer) ==
    IF answer \in {"absent", "settled"} THEN {"settle"} ELSE {"done"}

\* clearLiveUpdateRecord: an absent operation clears only the record of the
\* account that is signed in.
ClearFor(i, answer) ==
    CASE answer = "settled" -> {"settle"}
      [] answer = "absent" -> {IF l # Unlabelled /\ l = luInv[i].seen.account THEN "settle" ELSE "done":
                                 l \in AccountLabels(i)}
      [] OTHER -> {"done"}

ReadStatus(i) ==
    /\ luInv[i].pc = "status"
    /\ \E answer \in StatusAnswers(i):
         \/ luInv[i].intent = "status" /\ Goes(i, "done")
         \/ luInv[i].intent = "resume" /\ Goes(i, ResumeFor(i, answer))
         \/ luInv[i].intent = "forget-unknown" /\ \E pc \in ClearFor(i, answer): Goes(i, pc)
    /\ UNCHANGED <<luSlot, luJournal, luPost, luRaced>>

\* notes.reserve: createExclusiveConfig opens the file, writes it, and the
\* bytes are read back.
Create(i) ==
    /\ luInv[i].pc = "create"
    /\ IF luSlot.by # Nobody THEN Goes(i, "done") /\ UNCHANGED luSlot
       ELSE \E l \in AccountLabels(i):
              /\ luSlot' = [by |-> i, op |-> luInv[i].op, account |-> l, full |-> FALSE]
              /\ luInv' = [luInv EXCEPT ![i].pc = "write", ![i].seen = [luSlot' EXCEPT !.full = TRUE]]
    /\ UNCHANGED <<luJournal, luPost, luRaced>>

\* The bytes go to the file that was opened, which may have lost its name.
WriteRecord(i) ==
    /\ luInv[i].pc = "write"
    /\ luSlot' = IF luSlot.by = i THEN [luSlot EXCEPT !.full = TRUE] ELSE luSlot
    /\ Goes(i, "verify")
    /\ UNCHANGED <<luJournal, luPost, luRaced>>

\* A failed write unlinks the name.
WriteFails(i) ==
    /\ luInv[i].pc = "write"
    /\ Discard(i, [luInv[i].seen EXCEPT !.full = FALSE])
    /\ UNCHANGED <<luJournal, luPost>>

VerifyRecord(i) ==
    /\ luInv[i].pc = "verify"
    /\ Goes(i, IF luSlot = luInv[i].seen THEN "send" ELSE "settle")
    /\ UNCHANGED <<luSlot, luJournal, luPost, luRaced>>

\* dispatchLiveUpdate.
Send(i) ==
    /\ luInv[i].pc = "send"
    /\ luPost' = [luPost EXCEPT ![i] = "sent"]
    /\ Goes(i, "sent")
    /\ UNCHANGED <<luSlot, luJournal, luRaced>>

\* The answer is lost, or the client stops waiting for it.
NoAnswer(i) ==
    /\ luInv[i].pc = "sent" /\ luInv[i].ans = "none"
    /\ luInv' = [luInv EXCEPT ![i].ans = "unknown"]
    /\ UNCHANGED <<luSlot, luJournal, luPost, luRaced>>

\* classifyLiveSupervisorUpdateFailure.
Classify(ans, origin) ==
    CASE ans = "not_found" -> IF origin = "new_identity" THEN "not_admitted" ELSE "operation_inaccessible"
      [] ans = "not_admitted" -> "not_admitted"
      [] ans = "settled_refusal" -> "settled"
      [] ans = "pending" -> "resumable"
      [] ans = "conflict" -> IF origin = "new_identity" THEN "not_admitted_machine_busy" ELSE "operation_conflict"
      [] OTHER -> "unknown"

SurvivesUnlessRefused(disposition, origin) ==
    disposition \notin {"settled", "not_admitted", "not_admitted_machine_busy", "operation_inaccessible"}

\* liveSupervisorUpdateRecordSurvives.
RecordSurvives(disposition, origin) ==
    /\ disposition # "settled"
    /\ ~(origin = "new_identity" /\ disposition \in {"not_admitted", "not_admitted_machine_busy"})

\* The answer decides: release the record, confirm first that a busy Machine
\* journalled nothing, or keep it and read the operation once.
TakeAnswer(i) ==
    LET d == Classify(luInv[i].ans, luInv[i].origin)
    IN /\ luInv[i].pc = "sent" /\ luInv[i].ans # "none"
       /\ Goes(i, CASE luInv[i].ans = "ok" -> "settle"
                        [] luInv[i].ans = "ok_unknown" -> "done"
                        [] d = "not_admitted_machine_busy" -> "confirm"
                        [] OTHER -> IF RecordSurvives(d, luInv[i].origin) THEN "reconcile" ELSE "settle")
       /\ UNCHANGED <<luSlot, luJournal, luPost, luRaced>>

ConfirmBusy(i) ==
    /\ luInv[i].pc = "confirm"
    /\ \E answer \in StatusAnswers(i): Goes(i, IF answer = "absent" THEN "settle" ELSE "reconcile")
    /\ UNCHANGED <<luSlot, luJournal, luPost, luRaced>>

Reconcile(i) ==
    /\ luInv[i].pc = "reconcile"
    /\ \E answer \in StatusAnswers(i): Goes(i, IF answer = "settled" THEN "settle" ELSE "done")
    /\ UNCHANGED <<luSlot, luJournal, luPost, luRaced>>

\* notes.settle reads the record again and removes only its own identity ...
SettleRead(i) ==
    /\ luInv[i].pc = "settle"
    /\ luInv' = IF ReadingState(luSlot) = "outstanding" /\ luSlot.op = luInv[i].op
                  THEN [luInv EXCEPT ![i].pc = "unlink", ![i].seen = luSlot]
                  ELSE [luInv EXCEPT ![i].pc = "done"]
    /\ UNCHANGED <<luSlot, luJournal, luPost, luRaced>>

\* ... in a second step.  A clear of an unreadable record ends here too.
Unlink(i) ==
    /\ luInv[i].pc = "unlink"
    /\ Discard(i, luInv[i].seen)
    /\ UNCHANGED <<luJournal, luPost>>

\* The process ends; what it sent does not.
ProcessEnds(i) ==
    /\ luInv[i].pc \notin {"idle", "done"}
    /\ Goes(i, "done")
    /\ UNCHANGED <<luSlot, luJournal, luPost, luRaced>>

LuNext ==
    \/ ConsoleSettles
    \/ \E i \in Invocations:
         \/ Serve(i) \/ Invoke(i) \/ ReadRecord(i) \/ Preflight(i) \/ ReadStatus(i)
         \/ Create(i) \/ WriteRecord(i) \/ WriteFails(i) \/ VerifyRecord(i)
         \/ Send(i) \/ NoAnswer(i) \/ TakeAnswer(i) \/ ConfirmBusy(i) \/ Reconcile(i)
         \/ SettleRead(i) \/ Unlink(i) \/ ProcessEnds(i)

LuSpec == LuInit /\ [][LuNext]_luVars

-----------------------------------------------------------------------------
\* Unless a removal or an admission raced (luRaced), an update this computer started and
\* the producer still holds open is named by a readable record: no lost answer,
\* crash, refusal or change of account loses the one identity that can resolve
\* it (liveSupervisorUpdateRecordSurvives and clearLiveUpdateRecord).
IdentityKept ==
    luRaced \/ \A o \in Invocations:
        luJournal[o] = "open" => luSlot.op = o /\ luSlot.full

=============================================================================
