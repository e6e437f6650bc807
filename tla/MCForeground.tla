---------------------------- MODULE MCForeground ----------------------------
(***************************************************************************)
(* The two interactive screens, in one run: each behaviour exercises the   *)
(* terminal's tabs or the Machines screen, and the other keeps still.      *)
(* What leads from one to the other is in CliRun and SessionSwitch.        *)
(***************************************************************************)
EXTENDS Foreground, MachinesExplorer

VARIABLE part      \* the screen this behaviour exercises

\* the questions of a run, in the order they are asked
OneBrowser == <<"browser">>

\* the more keys are pressed, the fewer faults happen
KeysAndFaults == {[keys |-> 3, faults |-> 0], [keys |-> 2, faults |-> 1], [keys |-> 1, faults |-> 2]}

MCInit ==
    /\ part \in {"tabs", "machines"}
    /\ Init /\ ExInit
    /\ part # "tabs" => left = [keys |-> 3, faults |-> 0]

Exercises(p, others) == part = p /\ UNCHANGED <<part, others>>

MCNext ==
    \/ Exercises("tabs", exVars) /\ Next
    \/ Exercises("machines", vars) /\ ExNext

MCSpec == MCInit /\ [][MCNext]_<<part, vars, exVars>>

\* Input goes where the person aimed it: a key to the tab it was typed for, a
\* delete to the Machine whose confirmation was on the screen, and a browser
\* is not opened by a key typed before its question was shown.
AimedInput ==
    /\ part = "tabs" => KeysGoWhereTyped /\ BrowserNeverBlind
    /\ part = "machines" => DeleteAsShown

\* The screens tell what is so: the mark on a Machine's row is the change that
\* is under way, a closing terminal says farewell once, and it always closes.
ScreensTruthful ==
    /\ part = "machines" => PendingIsTrue
    /\ part = "tabs" => OneFarewell /\ StopNeverStuck
=============================================================================
