-------------------------- MODULE MCTerminalClient --------------------------
(***************************************************************************)
(* What a terminal client is on this device and what it does for its       *)
(* Machine, in one run: each behaviour exercises its identity              *)
(* (TerminalClient, over ProcessLock) or the local actions it performs     *)
(* (LocalActions), and the other keeps still.                              *)
(***************************************************************************)
EXTENDS TerminalClient, LocalActions

VARIABLE part      \* what this behaviour exercises

MCInit == part \in {"seat", "actions"} /\ Init /\ LaInit

MCNext ==
    \/ part = "seat" /\ Next /\ UNCHANGED <<part, laVars>>
    \/ part = "actions" /\ LaNext /\ UNCHANGED <<part, vars>>

MCSpec == MCInit /\ [][MCNext]_<<part, vars, laVars>>

\* A local action has one effect and one outcome, and the outcome the Machine
\* is told is the one that happened.
ActionsOnce == part = "actions" => EffectOnce /\ OneOutcome /\ PromiseTruth

\* The card of the oldest request is the one that is shown, its result is kept
\* until the Machine has it, and what the action held goes with its outcome.
ActionsSettle == part = "actions" => CardAtHead /\ ResultKept /\ ReleasedWithOutcome

=============================================================================
