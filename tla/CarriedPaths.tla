----------------------------- MODULE CarriedPaths -----------------------------
(***************************************************************************)
(* What a folder's commits carry for the Machine, over several runs        *)
(* (sync/workspace-sync-product-service.ts, with journey/workspace-effects *)
(* and the durable state of sync/continuous-sync-supervisor.ts).  A        *)
(* generation may hold paths this folder's policy excludes: the Machine    *)
(* committed them, the folder never held them.  A commit that leaves them  *)
(* out tells the Machine to delete files only it holds.  Which they are is *)
(* known only from a durable sync state that took the generation in; which *)
(* generation the folder descends from is known from those states and from *)
(* the checkpoints of its commits.  A run may end at any point.            *)
(*                                                                         *)
(* One run at a time; policy changes and unreadable states are left out.   *)
(***************************************************************************)
EXTENDS Naturals, Sequences, FiniteSets

CONSTANTS CpExcluded,     \* paths the folder's policy excludes
          CpGenerations   \* bound: generations

ASSUME CarriedBounds == CpGenerations \in Nat \ {0}

VARIABLES cpServer,       \* generations: [own, carried, by, base] (external)
          cpFolder,       \* the folder's own content
          cpStates,       \* state directory (its first generation) -> durable state
          cpChecks,       \* base generation -> the generation its commit produced
          cpRecord,       \* the generation the folder's binding record names
          cpRun,          \* the run: step, head it read, base, state directory
          cpAdopted       \* ghost: generations some durable state has held
cpVars == <<cpServer, cpFolder, cpStates, cpChecks, cpRecord, cpRun, cpAdopted>>

Generations == 1 .. CpGenerations
Contents1 == 0 .. 1
NoState == [generation |-> 0, carried |-> {}]
NoRun == [pc |-> "none", active |-> 0, base |-> 0, dir |-> 0]
CpHead == Len(cpServer)

\* After a first run that bound and uploaded the folder.
CpInit ==
    /\ cpServer = <<[own |-> 0, carried |-> {}, by |-> "folder"]>>
    /\ cpFolder = 0
    /\ cpStates = [g \in Generations |-> IF g = 1 THEN [generation |-> 1, carried |-> {}] ELSE NoState]
    /\ cpChecks = [g \in 0 .. CpGenerations |-> IF g = 0 THEN 1 ELSE 0]
    /\ cpRecord = 1
    /\ cpRun = NoRun
    /\ cpAdopted = {1}

RunAt(pc) == cpRun.pc = pc
Ends1 == cpRun' = NoRun

\* findDurableBases: the states found, newest generation first.
Found == {d \in Generations: cpStates[d].generation # 0}
NewestState == CHOOSE d \in Found: \A e \in Found: cpStates[e].generation <= cpStates[d].generation
\* carriedEntriesAt: none when no state holds that generation.
CarriesNothing(g) == {}
CarriedAt(g) ==
    IF \E d \in Found: cpStates[d].generation = g
    THEN cpStates[CHOOSE d \in Found: cpStates[d].generation = g].carried
    ELSE {}
\* newestCommittedGeneration.
NewestCommitted ==
    LET gs == {cpChecks[b]: b \in 0 .. CpGenerations} IN CHOOSE g \in gs: \A h \in gs: h <= g
\* readLocalWorkspaceBase: the generation, and the state that proves it.
Proven == Found # {} /\ cpStates[NewestState].generation >= NewestCommitted
LocalBaseGeneration == IF Proven THEN cpStates[NewestState].generation ELSE NewestCommitted

\* withCarriedEntries: the folder as generation g would hold it.
ViewAt(g) == [own |-> cpFolder, carried |-> CarriedAt(g)]
Tree(g) == [own |-> cpServer[g].own, carried |-> cpServer[g].carried]

\* synchronizeWorkspace reads the binding's authority.
RunBegins ==
    /\ RunAt("none")
    /\ cpRun' = [NoRun EXCEPT !.pc = "compare", !.active = CpHead]
    /\ UNCHANGED <<cpServer, cpFolder, cpStates, cpChecks, cpRecord, cpAdopted>>

Adopts(d, state) ==
    /\ cpStates' = [cpStates EXCEPT ![d] = state]
    /\ cpAdopted' = cpAdopted \cup {state.generation}
\* start: a state already in the directory is taken up, else one is written.
StartsIn(d, carried) ==
    IF cpStates[d].generation # 0 THEN UNCHANGED <<cpStates, cpAdopted>>
    ELSE Adopts(d, [generation |-> d, carried |-> carried])

\* computeWorkspaceManifestRoot says the folder is the published generation:
\* nothing is committed, and the live writer starts from it.
Unchanged1 ==
    /\ RunAt("compare")
    /\ ViewAt(cpRun.active) = Tree(cpRun.active)
    /\ cpRecord' = cpRun.active
    /\ cpRun' = [cpRun EXCEPT !.pc = "resume"]
    /\ UNCHANGED <<cpServer, cpFolder, cpStates, cpChecks, cpAdopted>>

\* findDurableSyncSession: a read handle from the newest commit, which must not
\* be newer than what the server publishes.
SessionFound == NewestCommitted # 0 /\ NewestCommitted <= cpRun.active
\* resumeContinuousWorkspaceSync: measured again.
Resumes ==
    /\ RunAt("resume")
    /\ IF ViewAt(cpRun.active) = Tree(cpRun.active) /\ SessionFound
       THEN /\ StartsIn(cpRun.active, CarriedAt(cpRun.active))
            /\ cpRun' = [cpRun EXCEPT !.pc = "live", !.dir = cpRun.active]
       ELSE Ends1 /\ UNCHANGED <<cpStates, cpAdopted>>
    /\ UNCHANGED <<cpServer, cpFolder, cpChecks, cpRecord>>

\* The folder differs: which generation is its tree from?  An older one is
\* taken up from its own durable state, or the run is refused.
Differs ==
    /\ RunAt("compare")
    /\ ViewAt(cpRun.active) # Tree(cpRun.active)
    /\ IF LocalBaseGeneration = cpRun.active
       THEN cpRun' = [cpRun EXCEPT !.pc = "commit", !.base = LocalBaseGeneration]
       ELSE IF LocalBaseGeneration < cpRun.active /\ Proven
            THEN cpRun' = [cpRun EXCEPT !.pc = "catchup", !.dir = NewestState]
            ELSE Ends1
    /\ UNCHANGED <<cpServer, cpFolder, cpStates, cpChecks, cpRecord, cpAdopted>>

\* A commit is compared with the head and swapped in by the server.
ServerTakes(base, carried) ==
    /\ CpHead = base
    /\ CpHead < CpGenerations
    /\ cpServer' = Append(cpServer, [own |-> cpFolder, carried |-> carried, by |-> "folder"])
    /\ cpChecks' = [cpChecks EXCEPT ![base] = base + 1]

\* synchronizeLocalWorkspace, and a conflict.
Commits ==
    /\ RunAt("commit")
    /\ \/ /\ ServerTakes(cpRun.base, CarriedAt(cpRun.base))
          /\ cpRun' = [cpRun EXCEPT !.pc = "confirm"]
       \/ /\ CpHead # cpRun.base
          /\ Ends1
          /\ UNCHANGED <<cpServer, cpChecks>>
    /\ UNCHANGED <<cpFolder, cpStates, cpRecord, cpAdopted>>

\* The authority must confirm the receipt; then the binding record names it.
ConfirmsAndRecords ==
    /\ RunAt("confirm")
    /\ IF CpHead = cpRun.base + 1
       THEN cpRun' = [cpRun EXCEPT !.pc = "start"] /\ cpRecord' = cpRun.base + 1
       ELSE Ends1 /\ UNCHANGED cpRecord
    /\ UNCHANGED <<cpServer, cpFolder, cpStates, cpChecks, cpAdopted>>

\* startContinuousWorkspaceSync: what the commit's base carried, it carried.
CarriedByCommit(base) == CarriedAt(base)
StartsLive ==
    /\ RunAt("start")
    /\ IF [own |-> cpFolder, carried |-> CarriedByCommit(cpRun.base)] = Tree(cpRun.base + 1)
       THEN /\ StartsIn(cpRun.base + 1, CarriedByCommit(cpRun.base))
            /\ cpRun' = [cpRun EXCEPT !.pc = "live", !.dir = cpRun.base + 1]
       ELSE Ends1 /\ UNCHANGED <<cpStates, cpAdopted>>
    /\ UNCHANGED <<cpServer, cpFolder, cpChecks, cpRecord>>

Live1 == cpRun.pc \in {"catchup", "live"}
State1 == cpStates[cpRun.dir]
\* admitRemoteEntries: the excluded paths of a generation are recorded as the
\* Machine's.
CarriedBefore(g) == State1.carried
CarriedNow(g) == cpServer[g].carried
\* The live writer takes in the next generation; own content changed on both sides stays.
LivePulls ==
    /\ Live1 /\ State1.generation < CpHead
    /\ LET g == State1.generation + 1
       IN /\ Adopts(cpRun.dir, [generation |-> g, carried |-> CarriedNow(g)])
          /\ cpFolder' = IF cpFolder = cpServer[g - 1].own THEN cpServer[g].own ELSE cpFolder
    /\ UNCHANGED <<cpServer, cpChecks, cpRecord, cpRun>>

\* waitForGeneration: the run goes on once the head it read is here, or later.
CaughtUp ==
    /\ RunAt("catchup")
    /\ cpRecord' = IF State1.generation >= cpRun.active THEN cpRun.active ELSE cpRecord
    /\ cpRun' = [cpRun EXCEPT !.pc = "live"]
    /\ UNCHANGED <<cpServer, cpFolder, cpStates, cpChecks, cpAdopted>>

\* commitLocalSnapshot of the live writer, with what its state carries; the
\* state names the new generation afterwards.
LiveSends ==
    /\ RunAt("live") /\ State1.generation = CpHead /\ cpFolder # cpServer[CpHead].own
    /\ ServerTakes(CpHead, State1.carried)
    /\ UNCHANGED <<cpFolder, cpStates, cpRecord, cpRun, cpAdopted>>
LiveAdopts ==
    /\ RunAt("live") /\ cpChecks[State1.generation] = State1.generation + 1
    /\ Adopts(cpRun.dir, [State1 EXCEPT !.generation = @ + 1])
    /\ UNCHANGED <<cpServer, cpFolder, cpChecks, cpRecord, cpRun>>

\* The run ends, is stopped, fails or its process dies.
RunEnds1 ==
    /\ ~RunAt("none")
    /\ Ends1
    /\ UNCHANGED <<cpServer, cpFolder, cpStates, cpChecks, cpRecord, cpAdopted>>

FolderEdited1 ==
    /\ \E c \in Contents1 \ {cpFolder}: cpFolder' = c
    /\ UNCHANGED <<cpServer, cpStates, cpChecks, cpRecord, cpRun, cpAdopted>>

\* The Machine captures: its own change, or paths the folder excludes.
MachineCommits ==
    /\ CpHead < CpGenerations
    /\ \E c \in Contents1, x \in SUBSET CpExcluded:
        /\ [own |-> c, carried |-> x] # Tree(CpHead)
        /\ cpServer' = Append(cpServer, [own |-> c, carried |-> x, by |-> "machine"])
    /\ UNCHANGED <<cpFolder, cpStates, cpChecks, cpRecord, cpRun, cpAdopted>>

CpNext ==
    \/ RunBegins \/ Unchanged1 \/ Resumes \/ Differs \/ Commits \/ ConfirmsAndRecords
    \/ StartsLive \/ LivePulls \/ CaughtUp \/ LiveSends \/ LiveAdopts \/ RunEnds1
    \/ FolderEdited1 \/ MachineCommits

CpSpec == CpInit /\ [][CpNext]_cpVars

-----------------------------------------------------------------------------
(* Properties.                                                             *)

ByFolder(g) == cpServer[g].by = "folder"
\* The machine's files: no commit of the folder leaves out a path the folder
\* never held.  It is not so: see CarriedKept.
MachineFilesKept == \A g \in 2 .. CpHead: ByFolder(g) => cpServer[g - 1].carried \subseteq cpServer[g].carried

\* It is so for commits on a generation some durable state took in, also when
\* that was in an earlier run, in another directory and after a crash.
CarriedKept ==
    \A g \in 2 .. CpHead: (ByFolder(g) /\ g - 1 \in cpAdopted) =>
        cpServer[g - 1].carried \subseteq cpServer[g].carried

\* A durable state that names a generation knows exactly what it carries, so
\* that the next commit neither deletes nor restores a file of the Machine.
StateKnowsWhatIsCarried ==
    \A d \in Found: cpStates[d].carried = cpServer[cpStates[d].generation].carried

-----------------------------------------------------------------------------
(***************************************************************************)
(* How a folder's manifest is taken while the folder is being edited       *)
(* (workspace/manifest.ts createWorkspaceManifest, hashStableFile).        *)
(* Directories are listed one after the other, each file is opened, read   *)
(* piece by piece and compared with what it was when opened.  Nothing      *)
(* locks the folder: editors save in place, replace by rename, link and    *)
(* remove between any two calls.  A file's stamp is the clock's, and two   *)
(* saves may fall into one tick of it.                                     *)
(*                                                                         *)
(* Children are visited in any order.  Links out of the folder, symlinks   *)
(* and the collision rules of names are left out.                          *)
(***************************************************************************)

CONSTANTS MwTop,         \* files of the root directory
          MwBelow,       \* files of its only subdirectory
          MwExcluded,    \* files the policy excludes
          MwLimit,       \* maximumEntries
          MwEdits,       \* bound: edits during the walk
          MwClock        \* bound: ticks of the stamp's clock

ASSUME WalkBounds == {MwLimit, MwEdits, MwClock} \subseteq Nat

VARIABLES mwDir,     \* name -> inode, 0 when absent (external)
          mwNodes,   \* inode -> [pieces, stamp, links] (external)
          mwClock,   \* the stamp's clock (external)
          mwEdits,   \* edits so far
          mw,        \* the walk: step, what is left, the open file, entries
          mwHeld,    \* ghost: <<inode, pieces>> held at some time of the walk
          mwBlurred  \* ghost: an edit left size and stamp as they were
mwVars == <<mwDir, mwNodes, mwClock, mwEdits, mw, mwHeld, mwBlurred>>

Files1 == MwTop \cup MwBelow
Subdirectory == "d"
MaximumPieces == 2
NoNode == [pieces |-> <<>>, stamp |-> 0, links |-> 1]
Node(piece) == [pieces |-> <<piece, piece>>, stamp |-> 0, links |-> 1]
NoHandle == [inode |-> 0, name |-> "none", stat |-> NoNode, read |-> <<>>]
Initial == Cardinality(Files1)

MwInit ==
    /\ mwDir = CHOOSE d \in [Files1 -> 1 .. Initial]: \A f, g \in Files1: f # g => d[f] # d[g]
    /\ mwNodes = [i \in 1 .. Initial + MwEdits |-> IF i <= Initial THEN Node(0) ELSE NoNode]
    /\ mwClock = 0 /\ mwEdits = 0
    /\ mw = [pc |-> "walk", dirs |-> {"root"}, left |-> {}, open |-> NoHandle, entries |-> {},
             listed |-> {}]
    /\ mwHeld = {<<i, <<0, 0>>>>: i \in 1 .. Initial}
    /\ mwBlurred = FALSE

Present1 == {f \in Files1: mwDir[f] # 0}
World1 == <<mwDir, mwNodes, mwClock, mwEdits, mwHeld, mwBlurred>>

\* opendir: a directory's children as they are now; the subdirectory is an
\* entry of its own.
ListRoot ==
    /\ mw.pc = "walk" /\ "root" \in mw.dirs
    /\ mw' = [mw EXCEPT !.dirs = {Subdirectory}, !.left = @ \cup (Present1 \cap MwTop),
                        !.listed = @ \cup (Present1 \cap MwTop)]
    /\ UNCHANGED World1
Fits == Cardinality(mw.entries) < MwLimit
ListBelow ==
    /\ mw.pc = "walk" /\ mw.dirs = {Subdirectory}
    /\ IF Fits
       THEN mw' = [mw EXCEPT !.dirs = {}, !.left = @ \cup (Present1 \cap MwBelow),
                             !.listed = @ \cup (Present1 \cap MwBelow),
                             !.entries = @ \cup {[name |-> Subdirectory, pieces |-> <<>>, inode |-> 0]}]
       ELSE mw' = [mw EXCEPT !.pc = "entry_limit"]
    /\ UNCHANGED World1

Excluded(f) ==
    /\ mw.pc = "walk" /\ f \in mw.left \cap MwExcluded
    /\ mw' = [mw EXCEPT !.left = @ \ {f}]
    /\ UNCHANGED World1

\* A listed file that is gone when it is opened fails the walk.
PassesOver(f) == [mw EXCEPT !.left = @ \ {f}]
GoneWhenOpened(f) == [mw EXCEPT !.pc = "gone"]
\* The next file: refused at the limit, when it is gone, or is linked twice.
Opens2(f) ==
    /\ mw.pc = "walk" /\ f \in mw.left \ MwExcluded
    /\ mw' = IF ~Fits THEN [mw EXCEPT !.pc = "entry_limit"]
             ELSE IF mwDir[f] = 0 THEN GoneWhenOpened(f)
             ELSE IF mwNodes[mwDir[f]].links > 1 THEN [mw EXCEPT !.pc = "unstable"]
             ELSE [mw EXCEPT !.pc = "read", !.left = @ \ {f},
                             !.open = [inode |-> mwDir[f], name |-> f,
                                       stat |-> mwNodes[mwDir[f]], read |-> <<>>]]
    /\ UNCHANGED World1

Opened1 == mwNodes[mw.open.inode]
Read2 == Len(mw.open.read)
ReadsPiece ==
    /\ mw.pc = "read" /\ Read2 < Len(Opened1.pieces)
    /\ mw' = [mw EXCEPT !.open.read = Append(@, Opened1.pieces[Read2 + 1])]
    /\ UNCHANGED World1

\* sameIdentity of the stat taken at the opening and the one taken at the end,
\* and the length that was read.
SameSize(was, now) == Len(was.pieces) = Len(now.pieces)
SameIdentity(was, now) == Len(was.pieces) = Len(now.pieces) /\ was.stamp = now.stamp
EndOfFile ==
    /\ mw.pc = "read" /\ Read2 >= Len(Opened1.pieces)
    /\ mw' = IF SameIdentity(mw.open.stat, Opened1) /\ Read2 = Len(Opened1.pieces)
             THEN [mw EXCEPT !.pc = "walk", !.open = NoHandle,
                             !.entries = @ \cup {[name |-> mw.open.name, pieces |-> mw.open.read,
                                                  inode |-> mw.open.inode]}]
             ELSE [mw EXCEPT !.pc = "unstable"]
    /\ UNCHANGED World1

Finishes1 ==
    /\ mw.pc = "walk" /\ mw.dirs = {} /\ mw.left = {}
    /\ mw' = [mw EXCEPT !.pc = "done"]
    /\ UNCHANGED World1

-----------------------------------------------------------------------------
(* The folder meanwhile.                                                   *)

Walking == mw.pc \in {"walk", "read"}
Edits == /\ Walking /\ mwEdits < MwEdits /\ mwEdits' = mwEdits + 1
         /\ UNCHANGED <<mwClock, mw>>
Holds1(i, pieces) == mwHeld' = mwHeld \cup {<<i, pieces>>}

\* A save in place reaches a piece of the file, or its length.
SavesInPlace(f) ==
    /\ Edits /\ mwDir[f] # 0
    /\ LET i == mwDir[f]
           was == mwNodes[i].pieces
       IN \E pieces \in {[was EXCEPT ![k] = mwEdits + 1]: k \in DOMAIN was}
                        \cup {Append(was, mwEdits + 1), SubSeq(was, 1, Len(was) - 1)}:
            /\ Len(pieces) \in 0 .. MaximumPieces
            /\ mwNodes' = [mwNodes EXCEPT ![i].pieces = pieces, ![i].stamp = mwClock]
            /\ Holds1(i, pieces)
            /\ mwBlurred' = (mwBlurred \/ (mwNodes[i].stamp = mwClock))
    /\ UNCHANGED mwDir

\* An editor writes a new file and renames it over the old one.
Replaces(f) ==
    /\ Edits
    /\ LET i == Initial + mwEdits + 1
       IN /\ mwDir' = [mwDir EXCEPT ![f] = i]
          /\ mwNodes' = [mwNodes EXCEPT ![i] = [Node(mwEdits + 1) EXCEPT !.stamp = mwClock]]
          /\ Holds1(i, <<mwEdits + 1, mwEdits + 1>>)
    /\ UNCHANGED mwBlurred
Removes(f) ==
    /\ Edits /\ mwDir[f] # 0
    /\ mwDir' = [mwDir EXCEPT ![f] = 0]
    /\ UNCHANGED <<mwNodes, mwHeld, mwBlurred>>
LinksAgain(f) ==
    /\ Edits /\ mwDir[f] # 0
    /\ mwNodes' = [mwNodes EXCEPT ![mwDir[f]].links = @ + 1]
    /\ UNCHANGED <<mwDir, mwHeld, mwBlurred>>
Tick1 ==
    /\ Walking /\ mwClock < MwClock
    /\ mwClock' = mwClock + 1
    /\ UNCHANGED <<mwDir, mwNodes, mwEdits, mw, mwHeld, mwBlurred>>

MwNext ==
    \/ ListRoot \/ ListBelow \/ ReadsPiece \/ EndOfFile \/ Finishes1 \/ Tick1
    \/ \E f \in Files1: Excluded(f) \/ Opens2(f) \/ SavesInPlace(f) \/ Replaces(f)
                        \/ Removes(f) \/ LinksAgain(f)

MwSpec == MwInit /\ [][MwNext]_mwVars

-----------------------------------------------------------------------------
(* Properties.                                                             *)

\* An entry is a file's content as it once was, never a mix of two saves,
\* unless a save fell into the tick of the one before: the folder's state may
\* then never have held what is committed as its content.
EntriesWereHeld ==
    ~mwBlurred => \A e \in mw.entries: e.name # Subdirectory => <<e.inode, e.pieces>> \in mwHeld

\* A manifest that is done names each file its directory listed, and nothing
\* the policy excludes: an edit may make the walk fail, not shorten it.
ListedIsNamed ==
    mw.pc = "done" => {e.name: e \in mw.entries} = {Subdirectory} \cup (mw.listed \ MwExcluded)

=============================================================================
