-------------------------- MODULE MCDevice --------------------------
(******************************************************************************)
(* The components between this device and the Machine, checked in one run: each*)
(* behaviour exercises the one that part names, from its initial state, while *)
(* the others keep still. They share no state: the run explores the union of  *)
(* their state spaces.                                                        *)
(******************************************************************************)
EXTENDS SyncQueue, Passthrough, TerminalWire, SyncWatch, CarriedPaths, CallbackRelay

VARIABLE part      \* the component this behaviour exercises

Parts == {"overlay", "queue", "tunnel", "wire", "watch", "carried", "relay", "walk"}

\* Every component but the exercised one keeps still.
Rest ==
    /\ IF part = "overlay" THEN TRUE ELSE UNCHANGED ovVars
    /\ IF part = "queue" THEN TRUE ELSE UNCHANGED sqVars
    /\ IF part = "tunnel" THEN TRUE ELSE UNCHANGED ptVars
    /\ IF part = "wire" THEN TRUE ELSE UNCHANGED twVars
    /\ IF part = "watch" THEN TRUE ELSE UNCHANGED waVars
    /\ IF part = "carried" THEN TRUE ELSE UNCHANGED cpVars
    /\ IF part = "relay" THEN TRUE ELSE UNCHANGED rlVars
    /\ IF part = "walk" THEN TRUE ELSE UNCHANGED mwVars

Init ==
    /\ part \in Parts
    /\ OvInit /\ SqInit /\ PtInit /\ TwInit /\ WaInit /\ CpInit
    /\ RlInit /\ MwInit

Next ==
    \/ part = "overlay" /\ OvNext /\ Rest /\ UNCHANGED part
    \/ part = "queue" /\ SqNext /\ Rest /\ UNCHANGED part
    \/ part = "tunnel" /\ PtNext /\ Rest /\ UNCHANGED part
    \/ part = "wire" /\ TwNext /\ Rest /\ UNCHANGED part
    \/ part = "watch" /\ WaNext /\ Rest /\ UNCHANGED part
    \/ part = "carried" /\ CpNext /\ Rest /\ UNCHANGED part
    \/ part = "relay" /\ RlNext /\ Rest /\ UNCHANGED part
    \/ part = "walk" /\ MwNext /\ Rest /\ UNCHANGED part

vars == <<part, ovVars, sqVars, ptVars, twVars,
          waVars, cpVars, rlVars, mwVars>>

Spec == Init /\ [][Next]_vars

\* What a synchronisation says is so: a generation says what the folder held and carries what
\* it does not hold, a drained queue leaves equal sides, recovery is told when it was proved,
\* and the last line about a run is how it stands.
SyncIsHonest ==
    /\ part = "queue" => DrainedIsEqual
    /\ part = "watch" => RecoveredIsProven
    /\ part = "watch" => LastWordIsTrue
    /\ part = "watch" => AttentionStays
    /\ part = "walk" => EntriesWereHeld
    /\ part = "walk" => ListedIsNamed
    /\ part = "carried" => CarriedKept
    /\ part = "carried" => StateKnowsWhatIsCarried

\* A stream ends whole: honest frames are taken, a frame is bound to the terminal it names,
\* a callback is handed over once and told as it went, and the terminal is given back as it
\* was, whether the person left or the connection was lost.
StreamsEndWell ==
    /\ part = "wire" => HonestIsTaken
    /\ part = "wire" => LocalActionsBound
    /\ part = "relay" => HandedOnce
    /\ part = "relay" => ToldAsItWas
    /\ part = "relay" => EndedNotListening
    /\ part = "tunnel" => GivenBack
    /\ part = "tunnel" => LeavingIsNoError
    /\ part = "tunnel" => LossIsNoticed

==============================================================================
