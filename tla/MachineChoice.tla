---------------------------- MODULE MachineChoice ----------------------------
(***************************************************************************)
(* The first half of `cuna <agent> PATH` (journey/orchestrator.ts): a      *)
(* Machine is selected or created.  A creation is a recorded choice        *)
(* (journey/machine-create-options.ts): its identity is derived from the   *)
(* folder, the request and the number of earlier choices, journalled       *)
(* before anything is sent, and only read back afterwards                  *)
(* (journey/api-effects.ts).                                               *)
(*                                                                         *)
(* Commands for one folder run side by side and one after the other; each  *)
(* may be interrupted, or its process may end, at any step.  The journal   *)
(* is a SyncJournal: one writer at a time, freed when its process ends,    *)
(* and read without it.  The service (external) creates one Machine per    *)
(* request identity; a request that was never answered may land later.     *)
(***************************************************************************)
EXTENDS Naturals, Sequences, FiniteSets, Selection

CONSTANTS
    McRuns,        \* commands that can be running at the same time
    McStarts,      \* bound: commands started in all
    McHistory      \* how many choices a journal holds: 1024 in the code

Wants == {"auto", "new", "other"}     \* "other": automatic, for another agent
NoOp == [n |-> 0, want |-> "auto"]

VARIABLES
    mcLog,      \* the journal: [op, state] records, oldest first
    mcWriter,   \* the run that has the journal open for writing, or "free"
    mcRows,     \* the service: request identity -> [state, sends, flying, machine]
    mcRun,      \* the runs
    mcStarted,  \* how many commands were started
    mcDoubled   \* a Machine was asked for that nobody needed

mcVars == <<mcLog, mcWriter, mcRows, mcRun, mcStarted, mcDoubled>>

Idle == [pc |-> "idle", want |-> "auto", seen |-> <<>>, release |-> NoOp, op |-> NoOp, receipt |-> "none"]

McInit ==
    /\ mcLog = <<>>
    /\ mcWriter = "free"
    /\ mcRows = {}
    /\ mcRun = [r \in McRuns |-> Idle]
    /\ mcStarted = 0
    /\ mcDoubled = FALSE

-----------------------------------------------------------------------------
(* The journal and its readers. *)

LastRecord(log) == IF log = <<>> THEN [op |-> NoOp, state |-> "none"] ELSE log[Len(log)]
Record(op, state) == mcLog' = Append(mcLog, [op |-> op, state |-> state])

\* attemptNumber: how many choices were queued, and this one.
AttemptNumber(log) == Cardinality({i \in 1..Len(log): log[i].state = "queued"}) + 1

\* reconstruct: an identity is found again by deriving it for this very
\* request, with each of the choices.
Reconstructs(r, op) == op.want = mcRun[r].want

To(r, pc) == mcRun' = [mcRun EXCEPT ![r].pc = pc]
Ends(r) == mcRun' = [mcRun EXCEPT ![r] = [Idle EXCEPT !.pc = "done"]]

\* `writer`: a journal another process writes is refused.
Busy(r, pc) ==
    /\ mcRun[r].pc = pc /\ mcWriter # "free"
    /\ Ends(r)
    /\ UNCHANGED <<mcLog, mcWriter, mcRows, mcStarted, mcDoubled>>

Opens(r) == mcWriter = "free"

-----------------------------------------------------------------------------
(* The service. *)

Row(op) == IF \E w \in mcRows: w.op = op THEN CHOOSE w \in mcRows: w.op = op
           ELSE [op |-> op, state |-> "absent", sends |-> 0, flying |-> FALSE, machine |-> "none"]
SetRow(row) == mcRows' = {w \in mcRows: w.op # row.op} \cup {row}

\* The receipt of a request: an identity the service never heard of is a 404.
\* "prepared" stands for every state without an end, a failure that may still
\* be retried among them.
Receipt(op) == Row(op).state
Final(state) == state \in {"settled", "terminal_failed"}

ServiceSteps ==
    {<<"prepared", "provider_succeeded", "live">>, <<"provider_succeeded", "settled", "live">>,
     <<"prepared", "terminal_failed", "none">>}

ServiceWorks ==
    /\ \E w \in mcRows:
         \/ w.flying /\ SetRow([w EXCEPT !.flying = FALSE, !.state = "prepared"])
         \/ w.flying /\ SetRow([w EXCEPT !.flying = FALSE])              \* refused, or lost
         \/ \E s \in ServiceSteps:
              w.state = s[1] /\ SetRow([w EXCEPT !.state = s[2], !.machine = s[3]])
    /\ UNCHANGED <<mcLog, mcWriter, mcRun, mcStarted, mcDoubled>>

\* `machines delete`, from here or from the web console.
MachineDeleted ==
    /\ \E w \in mcRows: w.state = "settled" /\ w.machine = "live" /\ SetRow([w EXCEPT !.machine = "deleted"])
    /\ UNCHANGED <<mcLog, mcWriter, mcRun, mcStarted, mcDoubled>>

-----------------------------------------------------------------------------
(* Selection. *)

StartRun(r) ==
    /\ mcRun[r].pc \in {"idle", "done"} /\ mcStarted < McStarts
    /\ mcStarted' = mcStarted + 1
    /\ \E want \in Wants: mcRun' = [mcRun EXCEPT ![r] = [Idle EXCEPT !.pc = "plan", !.want = want]]
    /\ UNCHANGED <<mcLog, mcWriter, mcRows, mcDoubled>>

\* observeMachines: what the list and the capabilities say of each Machine.
ObservedMachines(r) ==
    {[id |-> w.op.n, state |-> IF w.state = "settled" THEN "running" ELSE "creating",
      support |-> IF (w.op.want = "other") = (mcRun[r].want = "other") THEN "supported" ELSE "unsupported",
      blocked |-> FALSE, recency |-> "recent"] : w \in {v \in mcRows: v.machine = "live"}}

\* A selected Machine ends this half; --install-tetragon does not fit one.
PlanMachine(r) ==
    /\ mcRun[r].pc = "plan"
    /\ LET plan == PlanMachineSelection(mcRun[r].want = "new", 0, ObservedMachines(r))
       IN IF plan.kind = "create" THEN To(r, "outcome") ELSE Ends(r)
    /\ UNCHANGED <<mcLog, mcWriter, mcRows, mcStarted, mcDoubled>>

-----------------------------------------------------------------------------
(* prepareMachineCreate. *)

\* machineCreateChoiceOutcome: a choice without an end is first read back.
ReadOutcome(r) ==
    /\ mcRun[r].pc = "outcome"
    /\ IF LastRecord(mcLog).state \in {"sending", "uncertain", "acknowledged"}
         THEN mcRun' = [mcRun EXCEPT ![r].seen = mcLog, ![r].pc = "receipt"] ELSE To(r, "release")
    /\ UNCHANGED <<mcLog, mcWriter, mcRows, mcStarted, mcDoubled>>

\* A receipt that is missing, or a read that fails, ends the command.
ReadReceipt(r) ==
    LET found == Receipt(LastRecord(mcRun[r].seen).op)
    IN /\ mcRun[r].pc = "receipt"
       /\ \/ Ends(r)
          \/ /\ found # "absent"
             /\ IF Final(found) THEN mcRun' = [mcRun EXCEPT ![r].receipt = found, ![r].pc = "finalize"]
                ELSE mcRun' = [mcRun EXCEPT ![r].pc = "release", ![r].seen = <<>>]
       /\ UNCHANGED <<mcLog, mcWriter, mcRows, mcStarted, mcDoubled>>

\* The journal still ends with the record the receipt was read for.
StillLast(r) == mcLog = mcRun[r].seen

\* finalizeMachineCreateChoice: the original operation's own receipt ends it.
Finalize(r) ==
    LET op == LastRecord(mcRun[r].seen).op
    IN /\ mcRun[r].pc = "finalize" /\ Opens(r)
       /\ IF ~StillLast(r) THEN Ends(r) /\ UNCHANGED mcLog
          ELSE /\ mcRun' = [mcRun EXCEPT ![r].pc = "release", ![r].seen = <<>>, ![r].receipt = "none"]
               /\ IF mcRun[r].receipt = "terminal_failed" THEN Record(op, "conflicted")
                  ELSE mcLog' = mcLog \o (IF LastRecord(mcLog).state = "acknowledged" THEN <<>>
                                          ELSE <<[op |-> op, state |-> "acknowledged"]>>)
                                     \o <<[op |-> op, state |-> "applied"]>>
       /\ UNCHANGED <<mcWriter, mcRows, mcStarted, mcDoubled>>

ReleasedAtOnce(r, op) == TRUE

\* A completed choice is over for --new, or once its Machine is deleted.
Released(r, op) == mcRun[r].want = "new" \/ Row(op).machine = "deleted"

\* The answer is a mere boolean in the code: it says nothing of which choice
\* was read, and `release` keeps that for the property below only.
DecideRelease(r) ==
    LET last == LastRecord(mcLog)
    IN /\ mcRun[r].pc = "release"
       /\ \/ Ends(r)
          \/ mcRun' = [mcRun EXCEPT ![r].pc = "prepare",
                         ![r].release = IF last.state = "applied" /\ Released(r, last.op) THEN last.op ELSE NoOp]
       /\ UNCHANGED <<mcLog, mcWriter, mcRows, mcStarted, mcDoubled>>

\* prepareMachineCreateChoice, before anyone is asked.
PrepareChoice(r) ==
    LET last == LastRecord(mcLog)
        over == /\ last.state = "applied"
                /\ mcRun[r].release # NoOp \/ ~Reconstructs(r, last.op)
        ask == last.state \in {"none", "conflicted"} \/ over
    IN /\ mcRun[r].pc = "prepare"
       /\ \/ /\ ask /\ AttemptNumber(mcLog) <= McHistory
             /\ mcRun' = [mcRun EXCEPT ![r].pc = "ask", ![r].seen = mcLog]
          \/ ask /\ AttemptNumber(mcLog) > McHistory /\ Ends(r)
          \/ /\ ~ask /\ Reconstructs(r, last.op)
             /\ mcRun' = [mcRun EXCEPT ![r].pc = "confirm", ![r].seen = mcLog]
          \/ ~ask /\ Ends(r)            \* another request, or another --install-tetragon
       /\ UNCHANGED <<mcLog, mcWriter, mcRows, mcStarted, mcDoubled>>

\* The capabilities are read and the person answers, with no lease held.
AskChoice(r) ==
    /\ mcRun[r].pc = "ask"
    /\ Ends(r) \/ To(r, "append")
    /\ UNCHANGED <<mcLog, mcWriter, mcRows, mcStarted, mcDoubled>>

AppendsRegardless(r) == TRUE

\* The records the answer was based on are unchanged.
Unchanged(r) == mcLog = mcRun[r].seen

AppendChoice(r) ==
    LET op == [n |-> AttemptNumber(mcRun[r].seen), want |-> mcRun[r].want]
        last == LastRecord(mcLog)
    IN /\ mcRun[r].pc = "append" /\ Opens(r)
       /\ IF Unchanged(r)
            THEN /\ Record(op, "queued")
                 /\ mcRun' = [mcRun EXCEPT ![r].pc = "create", ![r].op = op, ![r].seen = <<>>]
                 /\ mcDoubled' = (mcDoubled \/ (/\ op.want # "new" /\ last.op.want = op.want
                                                /\ Row(last.op).machine = "live"
                                                /\ mcRun[r].release \in {NoOp, last.op}))
            ELSE Ends(r) /\ UNCHANGED <<mcLog, mcDoubled>>
       /\ UNCHANGED <<mcWriter, mcRows, mcStarted>>

ConfirmChoice(r) ==
    /\ mcRun[r].pc = "confirm" /\ Opens(r)
    /\ IF Unchanged(r) THEN mcRun' = [mcRun EXCEPT ![r].pc = "create", ![r].op = LastRecord(mcLog).op, ![r].seen = <<>>]
                       ELSE Ends(r)
    /\ UNCHANGED <<mcLog, mcWriter, mcRows, mcStarted, mcDoubled>>

-----------------------------------------------------------------------------
(* createMachine, reconcileMachineCreate. *)

\* machineCreateChoiceState: a choice that was sent is only read back.
CheckChoice(r) ==
    /\ mcRun[r].pc = "create"
    /\ IF LastRecord(mcLog).op # mcRun[r].op THEN Ends(r)
       ELSE To(r, IF LastRecord(mcLog).state = "queued" THEN "authorize" ELSE "recover")
    /\ UNCHANGED <<mcLog, mcWriter, mcRows, mcStarted, mcDoubled>>

\* A refused capability leaves the choice queued; a person's no is remembered.
Authorize(r) ==
    /\ mcRun[r].pc = "authorize"
    /\ Ends(r) \/ To(r, "perform") \/ To(r, "decline")
    /\ UNCHANGED <<mcLog, mcWriter, mcRows, mcStarted, mcDoubled>>

\* cancelQueuedMachineCreate
CancelQueued(r) ==
    /\ mcRun[r].pc = "decline" /\ Opens(r)
    /\ Ends(r)
    /\ IF LastRecord(mcLog) = [op |-> mcRun[r].op, state |-> "queued"]
         THEN Record(mcRun[r].op, "conflicted") ELSE UNCHANGED mcLog
    /\ UNCHANGED <<mcWriter, mcRows, mcStarted, mcDoubled>>

\* performMachineCreateChoice of a queued choice: recorded as sent, then sent
\* while the writer is held.  Between the two the command may be interrupted.
SendsAnyState(r) == LastRecord(mcLog).op = mcRun[r].op /\ LastRecord(mcLog).state # "conflicted"

MaySend(r) == LastRecord(mcLog) = [op |-> mcRun[r].op, state |-> "queued"]

PerformCreate(r) ==
    /\ mcRun[r].pc = "perform" /\ Opens(r)
    /\ IF MaySend(r)
         THEN /\ Record(mcRun[r].op, "sending")
              /\ mcWriter' = r
              /\ To(r, "sending")
         ELSE /\ UNCHANGED <<mcLog, mcWriter>>
              /\ IF LastRecord(mcLog).op = mcRun[r].op /\ LastRecord(mcLog).state # "conflicted"
                   THEN To(r, "recover") ELSE Ends(r)
    /\ UNCHANGED <<mcRows, mcStarted, mcDoubled>>

PostCreate(r) ==
    /\ mcRun[r].pc = "sending"
    /\ SetRow([Row(mcRun[r].op) EXCEPT !.sends = @ + 1, !.flying = TRUE])
    /\ To(r, "posted")
    /\ UNCHANGED <<mcLog, mcWriter, mcStarted, mcDoubled>>

\* The answer names the Machine; or there is none, and the choice is uncertain
\* (unless the lease ran out too, and it stays as it was).
CreateAnswered(r) ==
    /\ mcRun[r].pc = "posted" /\ mcWriter = r
    /\ mcWriter' = "free"
    /\ \/ /\ Row(mcRun[r].op).machine = "live"
          /\ Record(mcRun[r].op, "acknowledged")
          /\ Ends(r)
       \/ /\ Record(mcRun[r].op, "uncertain") \/ UNCHANGED mcLog
          /\ To(r, "recover")
    /\ UNCHANGED <<mcRows, mcStarted, mcDoubled>>

\* The same call on a choice already sent: only its receipt is read.
RecoverCreate(r) ==
    LET op == mcRun[r].op
        found == Receipt(op)
        last == LastRecord(mcLog)
        Acknowledged == IF last.state \in {"acknowledged", "applied"} THEN <<>>
                        ELSE <<[op |-> op, state |-> "acknowledged"]>>
    IN /\ mcRun[r].pc = "recover" /\ Opens(r)
       /\ Ends(r)
       /\ IF last.op # op \/ last.state \in {"conflicted", "queued"} THEN UNCHANGED mcLog
          ELSE CASE found = "terminal_failed" /\ last.state # "applied" -> Record(op, "conflicted")
                 [] found = "provider_succeeded" -> mcLog' = mcLog \o Acknowledged
                 [] found = "settled" /\ last.state # "applied" ->
                      mcLog' = mcLog \o Acknowledged \o <<[op |-> op, state |-> "applied"]>>
                 [] OTHER -> UNCHANGED mcLog
       /\ UNCHANGED <<mcWriter, mcRows, mcStarted, mcDoubled>>

-----------------------------------------------------------------------------
\* Ctrl-C: the request is abandoned and the choice recorded as uncertain
\* before the journal is closed; nothing is assumed undone.
Interrupt(r) ==
    /\ mcRun[r].pc \notin {"idle", "done"}
    /\ Ends(r)
    /\ IF mcWriter = r THEN Record(mcRun[r].op, "uncertain") /\ mcWriter' = "free"
                       ELSE UNCHANGED <<mcLog, mcWriter>>
    /\ UNCHANGED <<mcRows, mcStarted, mcDoubled>>

\* The process ends: the kernel frees the journal.
McProcessEnds(r) ==
    /\ mcRun[r].pc \notin {"idle", "done"}
    /\ Ends(r)
    /\ mcWriter' = IF mcWriter = r THEN "free" ELSE mcWriter
    /\ UNCHANGED <<mcLog, mcRows, mcStarted, mcDoubled>>

McNext ==
    \/ ServiceWorks \/ MachineDeleted
    \/ \E r \in McRuns:
         \/ StartRun(r) \/ PlanMachine(r) \/ ReadOutcome(r) \/ ReadReceipt(r) \/ Finalize(r)
         \/ DecideRelease(r) \/ PrepareChoice(r) \/ AskChoice(r) \/ AppendChoice(r) \/ ConfirmChoice(r)
         \/ CheckChoice(r) \/ Authorize(r) \/ CancelQueued(r) \/ PerformCreate(r) \/ PostCreate(r)
         \/ CreateAnswered(r) \/ RecoverCreate(r) \/ Interrupt(r) \/ McProcessEnds(r)
         \/ \E pc \in {"finalize", "append", "confirm", "decline", "perform", "recover"}: Busy(r, pc)

McSpec == McInit /\ [][McNext]_mcVars

-----------------------------------------------------------------------------
\* No request identity is sent twice, whatever ends between the record and the
\* request: "Recovery cannot create another Machine" (performMachineCreateChoice).
SentOnce == \A w \in mcRows: w.sends <= 1

\* "An unknown result is never permission to create another" (the refusal of
\* machine-create-options.ts): a later choice is recorded only once every
\* earlier one that was sent is over at the service.
UnknownIsNoPermission ==
    \A i \in 1..Len(mcLog):
        mcLog[i].op # LastRecord(mcLog).op
            => Row(mcLog[i].op).sends = 0 \/ Final(Row(mcLog[i].op).state)

\* A plain run never asks for a second Machine while the one an earlier plain
\* run of this folder and agent created is alive, unless that Machine came
\* between the check of an older one and the choice (prepareMachineCreate).
NeverDoubled == ~mcDoubled

=============================================================================
