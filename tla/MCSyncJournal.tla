---------------------------- MODULE MCSyncJournal ----------------------------
(***************************************************************************)
(* The journals and stores that must survive a process, in one run: each   *)
(* behaviour exercises the one that part names while the others keep       *)
(* still.  The sync journal is exercised twice: two processes, two intents *)
(* and lines that are torn while leases expire ("torn"), and one intent    *)
(* with every fault while the clock stands ("faults"); the daemon's intent *)
(* journal three times: two owners of the lease ("intents"), three lives   *)
(* of the daemon ("lives"), and three where a directory cannot be synced   *)
(* ("windows").                                                            *)
(***************************************************************************)
EXTENDS SyncJournal, IntentJournal, SyncCheckpoint, LocalSession, TLC

CONSTANTS w1, w2, a, x, y

MCWriters == {w1, w2}
MCOps == {a}
MCIntents == {x, y}
MCTorn == {"torn"}

\* The same journal, with every fault.
F == INSTANCE SyncJournal
       WITH Intents <- {x}, Faults <- FaultKinds, MaxNow <- 0, MaxLog <- 2

\* The daemon's intent journal, one life longer, on each platform.
P == INSTANCE IntentJournal WITH DmOwners <- {"o1"}, DmClock <- 1, DmLives <- 3
W == INSTANCE IntentJournal WITH DmPlatform <- "win32", DmOwners <- {"o1"}, DmClock <- 1, DmLives <- 3

VARIABLE part      \* what this behaviour exercises

MCInit ==
    /\ part \in {"torn", "faults", "intents", "lives", "windows", "checkpoint", "store"}
    /\ Init /\ DmInit /\ SkInit /\ LsInit
    /\ part # "store" => lsDisk = [o \in Objects |-> Absent]

Exercises(p, others) == part = p /\ UNCHANGED <<part, others>>

MCNext ==
    \/ Exercises("torn", <<dmVars, skVars, lsVars>>) /\ Next
    \/ Exercises("faults", <<dmVars, skVars, lsVars>>) /\ F!Next
    \/ Exercises("intents", <<vars, skVars, lsVars>>) /\ DmNext
    \/ Exercises("lives", <<vars, skVars, lsVars>>) /\ P!DmNext
    \/ Exercises("windows", <<vars, skVars, lsVars>>) /\ W!DmNext
    \/ Exercises("checkpoint", <<vars, dmVars, lsVars>>) /\ SkNext
    \/ Exercises("store", <<vars, dmVars, skVars>>) /\ LsNext

MCSpec == MCInit /\ [][MCNext]_<<part, vars, dmVars, skVars, lsVars>>

\* Whoever takes the journal over has a fence above all before it and sees all that was
\* acknowledged, through crashes and torn writes.  A killed helper or a power loss may
\* bring a fence back, which is why a writer proves its lease before it writes.
OwnersTakeOver == part = "torn" => FencesIncrease /\ OwnerSeesAcked

\* What the checkpoint and the stored session acknowledged is there for the next
\* process; a refused commit landed nothing, and a store that anybody else could
\* have written is not used.
StoresKeep ==
    /\ part = "checkpoint" => CommittedIsDurable /\ ConflictMeansNothingLanded
    /\ part = "store" => StoredIsKept /\ UsedWasOwnerOnly

WriterSymmetry == Permutations(MCWriters)
=============================================================================
