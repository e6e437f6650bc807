----------------------- MODULE WorkspaceBindingProofs -----------------------
(***************************************************************************)
(* Proofs about WorkspaceBinding for any processes, Machines, faults and   *)
(* bounds.  On both platforms the state is well typed and a bound run      *)
(* overwrites nothing the folder has not held; where the writer lock is a  *)
(* named pipe the record is replaced only from what its writer had read,   *)
(* what it says is so, and only a Machine that is gone is left.            *)
(***************************************************************************)
EXTENDS WorkspaceBinding, ProcessLockProofs

Runs == [at : RunPlaces, machine : Machines \cup {NoOne}, seen : RecordSet,
         active : Gens, draft : Gens, rebind : BOOLEAN, after : RunPlaces]

Placed == {"image", "verify", "rename"}
Writing == Placed \cup {"readback", "unlock"}

\* Where a run goes on when the record is written, or was not.
Afters == {"compare", "resume", "start", "live", "ended"}

\* The draft is a generation that the folder has held.
Proven(r) ==
    \/ r.at \in {"checkpoint", "confirm"}
    \/ r.at \in {"persist", "swap"} \cup Placed /\ ~r.rebind

\* The run r is in order where heads are hd, the folder has held hl and the Machines
\* gn are gone.
RunInv(r, hd, hl, gn) ==
    /\ r \in Runs
    /\ r.at # "ended" => r.machine \in Machines /\ r.active <= hd[r.machine]
    /\ r.at \in {"persist", "swap"} \cup Writing => r.after \in Afters
    /\ r.at \in Placed => r.seen.rev < MaxRev
    /\ r.at \in Placed /\ r.rebind => r.seen # NoRecord /\ r.seen.machine # r.machine
    /\ r.at \notin {"ended", "inspect", "observe"} /\ r.seen # NoRecord
           /\ r.seen.machine # r.machine
         => r.seen.machine \in gn
    /\ Proven(r) => r.draft <= hl[r.machine]
    /\ r.at = "commit" /\ r.seen # NoRecord
         => r.draft <= hl[r.machine] \/ r.draft = r.seen.gen

\* What is on disk, on the server and in the sync states agrees.
Known(f) == \A m \in Machines : f[m] = Unknown \/ f[m] <= held[m]

StateInv ==
    /\ record \in RecordSet /\ (record = NoRecord \/ record.machine \in Machines)
    /\ temps \in SUBSET Procs /\ gone \in SUBSET Machines
    /\ syncer \in Procs \cup {NoOne} /\ runs \in 0..MaxRuns
    /\ head \in [Machines -> Gens] /\ held \in [Machines -> Gens]
    /\ \A m \in Machines : held[m] <= head[m]
    /\ committed \in [Machines -> Gens \cup {Unknown}] /\ Known(committed)
    /\ durable \in [Machines -> Gens \cup {Unknown}] /\ Known(durable)
    /\ folder \in [machine : Machines \cup {NoOne}, gen : Gens, edited : BOOLEAN]
    /\ folder.machine \in Machines => folder.gen <= held[folder.machine]

BindInv ==
    /\ StateInv
    /\ run \in [Procs -> Runs]
    /\ \A p \in Procs : RunInv(run[p], head, held, gone)

\* With exclusive locks: whoever writes holds the writer lock, and the record is still
\* the one it proved the swap against.
WriterInv ==
    \A p \in Procs :
        /\ run[p].at \in Writing => Holds(p, Folder)
        /\ run[p].at \in Placed => run[p].seen = record

-----------------------------------------------------------------------------
LEMMA Bounds ==
    /\ MaxGen \in Nat /\ MaxRev \in Nat /\ Unknown \notin Gens
    /\ \A g \in Gens : g \in Nat
    /\ Folder \in Keys
  BY BindingBounds, FolderAssumption DEF Unknown, Gens, Folder

\* Heads, what was held and the Machines that are gone only grow.
Grows ==
    /\ head' \in [Machines -> Gens] /\ held' \in [Machines -> Gens]
    /\ \A m \in Machines : head[m] <= head'[m] /\ held[m] <= held'[m]
    /\ gone \subseteq gone'

\* A run in order stays so while others move.
LEMMA StaysInOrder ==
    ASSUME StateInv, Grows, NEW r, RunInv(r, head, held, gone)
    PROVE  RunInv(r, head', held', gone')
<1>1. r \in Runs /\ r.at \in RunPlaces /\ r.active \in Nat /\ r.draft \in Nat
  BY Bounds DEF RunInv, Runs
<1>2. ASSUME r.at # "ended"
      PROVE  /\ r.machine \in Machines
             /\ head[r.machine] \in Nat /\ held[r.machine] \in Nat
             /\ head'[r.machine] \in Nat /\ held'[r.machine] \in Nat
             /\ head[r.machine] <= head'[r.machine] /\ held[r.machine] <= held'[r.machine]
  BY <1>2, Bounds DEF RunInv, StateInv, Grows
<1>3. Proven(r) => r.at # "ended"
  BY DEF Proven, Placed
<1>. QED
  BY <1>1, <1>2, <1>3 DEF RunInv, Grows

\* A step of one run, or of none, keeps the invariant if the rest is in order.
LEMMA KeepsBind ==
    ASSUME BindInv, StateInv', Grows,
           \/ run' = run
           \/ \E p \in Procs : \E r : run' = [run EXCEPT ![p] = r] /\ RunInv(r, head', held', gone')
    PROVE  BindInv'
<1>1. \A p \in Procs : RunInv(run[p], head', held', gone')
  BY StaysInOrder DEF BindInv
<1>2. CASE run' = run
  BY <1>1, <1>2 DEF BindInv
<1>3. ASSUME NEW p \in Procs, NEW r, run' = [run EXCEPT ![p] = r], RunInv(r, head', held', gone')
      PROVE  BindInv'
  <2>1. r \in Runs /\ run \in [Procs -> Runs]
    BY <1>3 DEF RunInv, BindInv
  <2>2. run' \in [Procs -> Runs]
    BY <1>3, <2>1
  <2>3. \A q \in Procs : run'[q] = r \/ run'[q] = run[q]
    BY <1>3, <2>1
  <2>4. \A q \in Procs : RunInv(run'[q], head', held', gone')
    BY <1>1, <1>3, <2>3
  <2>. QED  BY <2>2, <2>4 DEF BindInv
<1>. QED
  BY <1>2, <1>3

\* A run that has ended, and one that is open, are in order.
LEMMA Resting ==
    ASSUME NEW hd \in [Machines -> Gens], NEW hl, NEW gn
    PROVE  /\ RunInv(Ended, hd, hl, gn)
           /\ \A m \in Machines :
                RunInv([Ended EXCEPT !.at = "live", !.machine = m], hd, hl, gn)
<1>1. Ended \in Runs
  BY Bounds DEF Ended, Runs, RunPlaces, NoRecord, RecordSet, Gens
<1>2. RunInv(Ended, hd, hl, gn)
  BY <1>1 DEF RunInv, Ended, Placed, Writing, Proven
<1>3. ASSUME NEW m \in Machines
      PROVE  RunInv([Ended EXCEPT !.at = "live", !.machine = m], hd, hl, gn)
  <2>. DEFINE r == [Ended EXCEPT !.at = "live", !.machine = m]
  <2>1. r \in Runs /\ r.at = "live" /\ r.machine = m /\ r.active = 0 /\ r.seen = NoRecord
    BY <1>1 DEF Runs, RunPlaces, Ended
  <2>2. 0 <= hd[m]
    BY Bounds
  <2>. HIDE DEF r
  <2>3. RunInv(r, hd, hl, gn)
    BY <2>1, <2>2 DEF RunInv, Placed, Writing, Proven
  <2>. QED  BY <2>3 DEF r
<1>. QED
  BY <1>2, <1>3

\* Where a run goes when it only moves on: to the same run at another place, if what
\* that place needs is so.
LEMMA MovesOn ==
    ASSUME NEW r, NEW hd, NEW hl, NEW gn, RunInv(r, hd, hl, gn),
           r.at \notin {"ended", "inspect"},
           NEW at \in RunPlaces, at \notin {"commit", "live"},
           r.at = "observe" => r.seen.machine \in gn \/ at = "ended",
           at \in {"persist", "swap"} \cup Writing => r.after \in Afters,
           at \in Placed => r.seen.rev < MaxRev,
           at \in Placed /\ r.rebind => r.seen # NoRecord /\ r.seen.machine # r.machine,
           at \in {"checkpoint", "confirm"} => r.draft <= hl[r.machine],
           at \in {"persist", "swap"} \cup Placed /\ ~r.rebind => r.draft <= hl[r.machine]
    PROVE  RunInv([r EXCEPT !.at = at], hd, hl, gn)
<1>. DEFINE c == [r EXCEPT !.at = at]
<1>1. /\ c \in Runs /\ c.at = at /\ c.machine = r.machine /\ c.seen = r.seen
      /\ c.active = r.active /\ c.draft = r.draft /\ c.rebind = r.rebind /\ c.after = r.after
  BY DEF RunInv, Runs
<1>. HIDE DEF c
<1>2. Proven(c) => c.draft <= hl[c.machine]
  BY <1>1 DEF Proven
<1>3. at \in Placed => at \in Writing
  BY DEF Writing
<1>4. RunInv(c, hd, hl, gn)
  BY <1>1, <1>2, <1>3 DEF RunInv
<1>. QED
  BY <1>4 DEF c

\* What holds of one run and its Machine, for any step of it.
LEMMA OfRun ==
    ASSUME BindInv, NEW p \in Procs
    PROVE  /\ run \in [Procs -> Runs] /\ run[p] \in Runs
           /\ RunInv(run[p], head, held, gone)
           /\ run[p].at # "ended" =>
                /\ run[p].machine \in Machines /\ run[p].active <= head[run[p].machine]
                /\ head[run[p].machine] \in Gens /\ held[run[p].machine] \in Gens
                /\ held[run[p].machine] <= head[run[p].machine]
           /\ run[p].active \in Gens /\ run[p].draft \in Gens /\ run[p].seen \in RecordSet
  BY DEF BindInv, RunInv, Runs, StateInv

\* A run that fails is over, and its lease free.
LEMMA FailEnds ==
    ASSUME BindInv, NEW p \in Procs, Fail(p)
    PROVE  /\ \E r : run' = [run EXCEPT ![p] = r] /\ RunInv(r, head, held, gone)
           /\ syncer' \in Procs \cup {NoOne}
  BY Resting DEF Fail, BindInv, StateInv

\* A run goes on to be open.
LEMMA GoesLive ==
    ASSUME BindInv, NEW p \in Procs, NEW hd \in [Machines -> Gens], NEW hl, NEW gn,
           run[p].at # "ended", Goto(p, "live")
    PROVE  \E r : run' = [run EXCEPT ![p] = r] /\ RunInv(r, hd, hl, gn)
  BY Resting, OfRun DEF Goto

\* A run goes on to any other place.
LEMMA GoesOn ==
    ASSUME BindInv, NEW p \in Procs, NEW hd, NEW hl, NEW gn,
           NEW at \in RunPlaces, at # "live", Goto(p, at),
           RunInv([run[p] EXCEPT !.at = at], hd, hl, gn)
    PROVE  \E r : run' = [run EXCEPT ![p] = r] /\ RunInv(r, hd, hl, gn)
  BY DEF Goto, BindInv

\* The record is to be written, or need not be.
LEMMA PersistBegins ==
    ASSUME BindInv, NEW p \in Procs, NEW hd, NEW hl, NEW gn, RunInv(run[p], hd, hl, gn),
           NEW g \in Gens, NEW b \in BOOLEAN, NEW after \in Afters,
           run[p].at \notin {"ended", "inspect", "observe"}, Persist(p, g, b, after),
           ~b => g <= hl[run[p].machine]
    PROVE  \E r : run' = [run EXCEPT ![p] = r] /\ RunInv(r, hd, hl, gn)
<1>. DEFINE r == [run[p] EXCEPT !.at = "persist", !.draft = g, !.rebind = b, !.after = after]
<1>1. run[p] \in Runs /\ run \in [Procs -> Runs]
  BY OfRun
<1>2. /\ r \in Runs /\ r.at = "persist" /\ r.draft = g /\ r.rebind = b
      /\ r.machine = run[p].machine /\ r.seen = run[p].seen /\ r.active = run[p].active
      /\ r.after = after
  BY <1>1 DEF Runs, RunPlaces, Afters
<1>3. run' = [run EXCEPT ![p] = r]
  BY <1>1 DEF Persist, Runs
<1>. HIDE DEF r
<1>4. RunInv(r, hd, hl, gn)
  BY <1>1, <1>2 DEF RunInv, Placed, Writing, Proven
<1>. QED
  BY <1>3, <1>4

\* A generation the folder reproduces is one it has held.
LEMMA ReproducedIsHeld ==
    ASSUME BindInv, NEW m \in Machines, NEW g, Reproduces(m, g)
    PROVE  g <= held[m]
  BY DEF Reproduces, BindInv, StateInv

\* A generation the folder holds is recorded, unless the record names it already.
LEMMA Records ==
    ASSUME BindInv, NEW p \in Procs, NEW hd \in [Machines -> Gens], NEW hl, NEW gn,
           RunInv(run[p], hd, hl, gn), NEW after \in {"live", "resume"},
           run[p].at \in {"compare", "pull"}, RecordPublished(p, after),
           run[p].active <= hl[run[p].machine]
    PROVE  \E r : run' = [run EXCEPT ![p] = r] /\ RunInv(r, hd, hl, gn)
<1>0. run[p].active \in Gens /\ after \in RunPlaces \cap Afters /\ run[p].at # "ended"
  BY OfRun DEF RunPlaces, Afters
<1>1. CASE Persist(p, run[p].active, FALSE, after)
  BY <1>0, <1>1, PersistBegins
<1>2. CASE Goto(p, after) /\ after = "live"
  BY <1>0, <1>2, GoesLive
<1>3. CASE Goto(p, after) /\ after = "resume"
  <2>1. RunInv([run[p] EXCEPT !.at = after], hd, hl, gn)
    BY <1>0, <1>3, MovesOn DEF Placed, Writing
  <2>. QED  BY <1>0, <1>3, <2>1, GoesOn
<1>. QED
  BY <1>1, <1>2, <1>3 DEF RecordPublished

\* The steps up to the comparison, of which only the authority's answers and the
\* folder are read.
LEMMA ReadingSteps ==
    ASSUME BindInv, NEW p \in Procs,
           Inspect(p) \/ ObserveBoundMachine(p) \/ CreateBinding(p) \/ GetAuthority(p)
               \/ AttachUnsynced(p) \/ Confirm(p) \/ End(p)
    PROVE  /\ \E r : run' = [run EXCEPT ![p] = r] /\ RunInv(r, head, held, gone)
           /\ syncer' \in Procs \cup {NoOne}
<1>0. /\ RunInv(run[p], head, held, gone) /\ run[p] \in Runs /\ run \in [Procs -> Runs]
      /\ run[p].active \in Gens /\ run[p].draft \in Gens /\ run[p].seen \in RecordSet
      /\ run[p].at # "ended" =>
            run[p].machine \in Machines /\ head[run[p].machine] \in Gens
      /\ head \in [Machines -> Gens]
  BY OfRun DEF BindInv, StateInv
<1>s. UNCHANGED syncer => syncer' \in Procs \cup {NoOne}
  BY DEF BindInv, StateInv
<1>f. CASE Fail(p)
  BY <1>f, FailEnds
<1>l. CASE run[p].at # "ended" /\ Goto(p, "live") /\ UNCHANGED syncer
  BY <1>0, <1>l, <1>s, GoesLive
<1>1. CASE Inspect(p) /\ ~Fail(p)
  <2>. DEFINE at == CASE record = NoRecord -> "create"
                      [] record.machine = run[p].machine -> "authority"
                      [] OTHER -> "observe"
              r == [run[p] EXCEPT !.seen = record, !.at = at]
  <2>1. run' = [run EXCEPT ![p] = r] /\ UNCHANGED syncer /\ run[p].at = "inspect"
    BY <1>0, <1>1 DEF Inspect
  <2>2. /\ at \in {"create", "authority", "observe"} /\ at \in RunPlaces
        /\ at # "observe" => record = NoRecord \/ record.machine = run[p].machine
    BY DEF RunPlaces
  <2>3. record \in RecordSet
    BY DEF BindInv, StateInv
  <2>. HIDE DEF at
  <2>4. r \in Runs /\ r.at = at /\ r.seen = record /\ r.machine = run[p].machine
        /\ r.active = run[p].active
    BY <1>0, <2>2, <2>3 DEF Runs
  <2>. HIDE DEF r
  <2>5. RunInv(r, head, held, gone)
    BY <1>0, <2>1, <2>2, <2>4 DEF RunInv, Placed, Writing, Proven
  <2>. QED  BY <1>s, <2>1, <2>5
<1>2. CASE ObserveBoundMachine(p) /\ ~Fail(p)
  <2>1. /\ run[p].at = "observe" /\ run[p].seen.machine \in gone
        /\ Goto(p, "create") /\ UNCHANGED syncer
    BY <1>2 DEF ObserveBoundMachine
  <2>2. RunInv([run[p] EXCEPT !.at = "create"], head, held, gone)
    BY <1>0, <2>1, MovesOn DEF RunPlaces, Placed, Writing
  <2>. QED  BY <1>s, <2>1, <2>2, GoesOn DEF RunPlaces
<1>3. CASE CreateBinding(p) /\ ~Fail(p)
  <2>. DEFINE m == run[p].machine
              taken == [run[p] EXCEPT !.active = head[m]]
              c == IF run[p].seen = NoRecord THEN [taken EXCEPT !.at = "compare"]
                   ELSE [taken EXCEPT !.at = "persist", !.draft = head[m],
                                      !.rebind = TRUE, !.after = "compare"]
  <2>1. run[p].at = "create" /\ run' = [run EXCEPT ![p] = c] /\ UNCHANGED syncer
    BY <1>3 DEF CreateBinding
  <2>2. /\ c \in Runs /\ c.machine = m /\ c.active = head[m] /\ c.seen = run[p].seen
        /\ c.at = "compare" \/ (c.at = "persist" /\ c.rebind /\ c.after \in Afters)
    BY <1>0, <2>1 DEF Runs, RunPlaces, Afters
  <2>3. head[m] <= head[m]
    BY <1>0, <2>1, Bounds
  <2>. HIDE DEF c
  <2>4. RunInv(c, head, held, gone)
    BY <1>0, <2>1, <2>2, <2>3 DEF RunInv, Placed, Writing, Proven
  <2>. QED  BY <1>s, <2>1, <2>4
<1>4. CASE GetAuthority(p) /\ ~Fail(p)
  <2>. DEFINE c == [run[p] EXCEPT !.at = "compare", !.active = head[run[p].machine]]
  <2>1. run[p].at = "authority" /\ run' = [run EXCEPT ![p] = c] /\ UNCHANGED syncer
    BY <1>0, <1>4 DEF GetAuthority
  <2>2. /\ c \in Runs /\ c.machine = run[p].machine /\ c.seen = run[p].seen
        /\ c.active = head[run[p].machine] /\ c.at = "compare"
    BY <1>0, <2>1 DEF Runs, RunPlaces
  <2>3. head[run[p].machine] <= head[run[p].machine]
    BY <1>0, <2>1, Bounds
  <2>. HIDE DEF c
  <2>4. RunInv(c, head, held, gone)
    BY <1>0, <2>1, <2>2, <2>3 DEF RunInv, Placed, Writing, Proven
  <2>. QED  BY <1>s, <2>1, <2>4
<1>5. CASE Confirm(p) /\ ~Fail(p)
  <2>1. run[p].at = "confirm" /\ Persist(p, run[p].draft, FALSE, "start") /\ UNCHANGED syncer
    BY <1>5 DEF Confirm
  <2>2. run[p].draft <= held[run[p].machine]
    BY <1>0, <2>1 DEF RunInv, Proven
  <2>. QED  BY <1>0, <1>s, <2>1, <2>2, PersistBegins DEF Afters
<1>6. CASE AttachUnsynced(p) \/ End(p)
  BY <1>6, <1>f, <1>l DEF AttachUnsynced, End
<1>. QED
  BY <1>1, <1>2, <1>3, <1>4, <1>5, <1>6, <1>f

\* The comparison claims only a base that the folder has held or its record names.
LEMMA CompareStep ==
    ASSUME BindInv, NEW p \in Procs, Compare(p)
    PROVE  /\ \E r : run' = [run EXCEPT ![p] = r] /\ RunInv(r, head, held, gone)
           /\ syncer' \in Procs \cup {NoOne}
<1>. DEFINE m == run[p].machine
            base == BaseGeneration(p)
<1>0. /\ RunInv(run[p], head, held, gone) /\ run[p] \in Runs /\ run \in [Procs -> Runs]
      /\ run[p].active \in Gens /\ run[p].at = "compare" /\ m \in Machines
      /\ head \in [Machines -> Gens] /\ held \in [Machines -> Gens] /\ run[p].seen \in RecordSet
      /\ committed \in [Machines -> Gens \cup {Unknown}] /\ Known(committed)
      /\ durable \in [Machines -> Gens \cup {Unknown}] /\ Known(durable)
  BY OfRun DEF BindInv, StateInv, Compare
<1>s. UNCHANGED syncer => syncer' \in Procs \cup {NoOne}
  BY DEF BindInv, StateInv
<1>1. CASE Fail(p)
  BY <1>1, FailEnds
<1>2. CASE Reproduces(m, run[p].active) /\ RecordPublished(p, "resume") /\ UNCHANGED syncer
  <2>1. run[p].active <= held[m]
    BY <1>0, <1>2, ReproducedIsHeld
  <2>. QED  BY <1>0, <1>2, <1>s, <2>1, Records
<1>3. CASE Goto(p, "pull") /\ UNCHANGED syncer
  <2>1. RunInv([run[p] EXCEPT !.at = "pull"], head, held, gone)
    BY <1>0, MovesOn DEF RunPlaces, Placed, Writing
  <2>. QED  BY <1>3, <1>s, <2>1, GoesOn DEF RunPlaces
<1>4. CASE /\ base = run[p].active /\ UNCHANGED syncer
           /\ run' = [run EXCEPT ![p].at = "commit", ![p].draft = base]
  <2>. DEFINE c == [run[p] EXCEPT !.at = "commit", !.draft = base]
  <2>1. run[p].seen # NoRecord => base <= held[m] \/ base = run[p].seen.gen
    <3>1. CASE LocalBase(m) # Unknown
      BY <1>0, <3>1 DEF BaseGeneration, LocalBase, Known
    <3>2. CASE LocalBase(m) = Unknown
      BY <3>2 DEF BaseGeneration
    <3>. QED  BY <3>1, <3>2
  <2>2. base \in Gens
    BY <1>0, <1>4
  <2>3. run' = [run EXCEPT ![p] = c]
    BY <1>0, <1>4
  <2>. HIDE DEF base
  <2>4. /\ c \in Runs /\ c.at = "commit" /\ c.draft = base /\ c.machine = m
        /\ c.seen = run[p].seen /\ c.active = run[p].active
    BY <1>0, <2>2 DEF Runs, RunPlaces
  <2>. HIDE DEF c
  <2>5. RunInv(c, head, held, gone)
    BY <1>0, <2>1, <2>4 DEF RunInv, Placed, Writing, Proven
  <2>. QED  BY <1>4, <1>s, <2>3, <2>5
<1>. QED
  BY <1>1, <1>2, <1>3, <1>4 DEF Compare

\* A sync state is only raised, to a generation the folder has held by then.
LEMMA RaisesKnown ==
    ASSUME StateInv, NEW hl \in [Machines -> Gens], \A m \in Machines : held[m] <= hl[m],
           NEW m \in Machines, NEW g \in Gens, g <= hl[m]
    PROVE  /\ [durable EXCEPT ![m] = Newest(@, g)] \in [Machines -> Gens \cup {Unknown}]
           /\ \A n \in Machines :
                LET d == [durable EXCEPT ![m] = Newest(@, g)] IN d[n] = Unknown \/ d[n] <= hl[n]
           /\ \A n \in Machines : committed[n] = Unknown \/ committed[n] <= hl[n]
           /\ \A n \in Machines : durable[n] = Unknown \/ durable[n] <= hl[n]
<1>0. /\ durable \in [Machines -> Gens \cup {Unknown}] /\ Known(durable)
      /\ committed \in [Machines -> Gens \cup {Unknown}] /\ Known(committed)
      /\ held \in [Machines -> Gens]
  BY DEF StateInv
<1>1. \A n \in Machines : held[n] \in Nat /\ hl[n] \in Nat /\ held[n] <= hl[n]
  BY <1>0, Bounds
<1>2. \A n \in Machines : committed[n] = Unknown \/ committed[n] <= hl[n]
  <2>. SUFFICES ASSUME NEW n \in Machines, committed[n] # Unknown PROVE committed[n] <= hl[n]
    OBVIOUS
  <2>1. committed[n] \in Nat /\ committed[n] <= held[n]
    BY <1>0, Bounds DEF Known
  <2>. QED  BY <1>1, <2>1
<1>3. \A n \in Machines : durable[n] = Unknown \/ durable[n] <= hl[n]
  <2>. SUFFICES ASSUME NEW n \in Machines, durable[n] # Unknown PROVE durable[n] <= hl[n]
    OBVIOUS
  <2>1. durable[n] \in Nat /\ durable[n] <= held[n]
    BY <1>0, Bounds DEF Known
  <2>. QED  BY <1>1, <2>1
<1>4. Newest(durable[m], g) \in {durable[m], g}
  BY DEF Newest
<1>. DEFINE d == [durable EXCEPT ![m] = Newest(@, g)]
<1>5. /\ d \in [Machines -> Gens \cup {Unknown}]
      /\ \A n \in Machines : d[n] \in {durable[n], g}
      /\ \A n \in Machines : n # m => d[n] = durable[n]
  BY <1>0, <1>4
<1>6. \A n \in Machines : d[n] = Unknown \/ d[n] <= hl[n]
  BY <1>3, <1>5
<1>. QED
  BY <1>2, <1>3, <1>5, <1>6

\* Where record, heads and folder stay, the rest needs only its type.
LEMMA QuietState ==
    ASSUME StateInv, UNCHANGED <<record, head, gone, folder, held>>,
           temps' \in SUBSET Procs, syncer' \in Procs \cup {NoOne}, runs' \in 0..MaxRuns,
           committed' \in [Machines -> Gens \cup {Unknown}],
           durable' \in [Machines -> Gens \cup {Unknown}],
           \A m \in Machines : committed'[m] = Unknown \/ committed'[m] <= held[m],
           \A m \in Machines : durable'[m] = Unknown \/ durable'[m] <= held[m]
    PROVE  StateInv' /\ Grows
<1>1. \A m \in Machines : head[m] <= head[m] /\ held[m] <= held[m]
  BY Bounds DEF StateInv
<1>. QED
  BY <1>1 DEF StateInv, Grows, Known

\* A step of one run that leaves record, heads and folder alone.
LEMMA QuietStep ==
    ASSUME BindInv, NEW p \in Procs, UNCHANGED <<record, head, gone, folder, held, committed, durable>>,
           temps' \in SUBSET Procs, syncer' \in Procs \cup {NoOne}, runs' \in 0..MaxRuns,
           \E r : run' = [run EXCEPT ![p] = r] /\ RunInv(r, head, held, gone)
    PROVE  BindInv'
<1>1. StateInv' /\ Grows
  <2>1. StateInv
    BY DEF BindInv
  <2>2. /\ committed \in [Machines -> Gens \cup {Unknown}] /\ durable \in [Machines -> Gens \cup {Unknown}]
        /\ \A m \in Machines : committed[m] = Unknown \/ committed[m] <= held[m]
        /\ \A m \in Machines : durable[m] = Unknown \/ durable[m] <= held[m]
    BY <2>1 DEF StateInv, Known
  <2>. QED  BY <2>1, <2>2, QuietState
<1>2. \E r : run' = [run EXCEPT ![p] = r] /\ RunInv(r, head', held', gone')
  OBVIOUS
<1>. QED
  BY <1>1, <1>2, KeepsBind

\* The receipt is saved; the supervisor is started or resumed.
LEMMA SyncStateSteps ==
    ASSUME BindInv, NEW p \in Procs, SaveCheckpoint(p) \/ StartSync(p) \/ ResumeSync(p)
    PROVE  BindInv'
<1>. DEFINE m == run[p].machine
<1>0. /\ StateInv /\ RunInv(run[p], head, held, gone) /\ run[p] \in Runs
      /\ m \in Machines /\ run[p].at # "ended"
      /\ held \in [Machines -> Gens] /\ head \in [Machines -> Gens]
      /\ run[p].active \in Gens /\ run[p].draft \in Gens
      /\ UNCHANGED <<record, head, gone, folder, held>>
      /\ temps' \in SUBSET Procs /\ runs' \in 0..MaxRuns
      /\ \A n \in Machines : held[n] <= held[n]
  BY OfRun, Bounds DEF BindInv, StateInv, SaveCheckpoint, StartSync, ResumeSync, remote, content
<1>k. /\ committed \in [Machines -> Gens \cup {Unknown}] /\ durable \in [Machines -> Gens \cup {Unknown}]
      /\ \A n \in Machines : committed[n] = Unknown \/ committed[n] <= held[n]
      /\ \A n \in Machines : durable[n] = Unknown \/ durable[n] <= held[n]
      /\ syncer \in Procs \cup {NoOne}
  BY <1>0 DEF StateInv, Known
<1>1. CASE SaveCheckpoint(p)
  <2>1. run[p].draft <= held[m]
    BY <1>0, <1>1 DEF SaveCheckpoint, RunInv, Proven
  <2>2. /\ committed' = [committed EXCEPT ![m] = run[p].draft]
        /\ UNCHANGED <<durable, syncer>> /\ run[p].at = "checkpoint" /\ Goto(p, "confirm")
    BY <1>1 DEF SaveCheckpoint
  <2>3. /\ committed' \in [Machines -> Gens \cup {Unknown}]
        /\ \A n \in Machines : committed'[n] = Unknown \/ committed'[n] <= held[n]
    BY <1>0, <1>k, <2>1, <2>2
  <2>4. RunInv([run[p] EXCEPT !.at = "confirm"], head, held, gone)
    BY <1>0, <2>1, <2>2, MovesOn DEF RunPlaces, Placed, Writing
  <2>5. \E r : run' = [run EXCEPT ![p] = r] /\ RunInv(r, head, held, gone)
    BY <2>2, <2>4, GoesOn DEF RunPlaces
  <2>6. StateInv' /\ Grows
    BY <1>0, <1>k, <2>2, <2>3, QuietState
  <2>. QED  BY <1>0, <2>5, <2>6, KeepsBind
<1>2. CASE Fail(p) /\ UNCHANGED <<durable, committed>>
  <2>1. StateInv' /\ Grows
    BY <1>0, <1>k, <1>2, FailEnds, QuietState
  <2>. QED  BY <1>0, <1>2, <2>1, FailEnds, KeepsBind
<1>3. ASSUME NEW g \in Gens, g <= held[m], durable' = [durable EXCEPT ![m] = Newest(@, g)],
             syncer' = p, Goto(p, "live"), UNCHANGED committed
      PROVE  BindInv'
  <2>1. StateInv' /\ Grows
    <3>1. /\ durable' \in [Machines -> Gens \cup {Unknown}]
          /\ \A n \in Machines : durable'[n] = Unknown \/ durable'[n] <= held[n]
      BY <1>0, <1>3, RaisesKnown
    <3>. QED  BY <1>0, <1>k, <1>3, <3>1, QuietState
  <2>2. \E r : run' = [run EXCEPT ![p] = r] /\ RunInv(r, head, held, gone)
    BY <1>0, <1>3, GoesLive
  <2>. QED  BY <1>0, <2>1, <2>2, KeepsBind
<1>4. CASE StartSync(p)
  <2>0. UNCHANGED committed
    BY <1>4 DEF StartSync
  <2>1. CASE /\ Reproduces(m, run[p].draft)
             /\ syncer' = p /\ durable' = [durable EXCEPT ![m] = Newest(@, run[p].draft)]
             /\ Goto(p, "live")
    <3>1. run[p].draft <= held[m]
      BY <1>0, <2>1, ReproducedIsHeld
    <3>. QED  BY <1>0, <1>3, <2>0, <2>1, <3>1
  <2>2. CASE Fail(p) /\ UNCHANGED durable
    BY <1>2, <2>0, <2>2
  <2>. QED  BY <1>4, <2>1, <2>2 DEF StartSync
<1>5. CASE ResumeSync(p)
  <2>0. Goto(p, "live") /\ UNCHANGED committed
    BY <1>5 DEF ResumeSync
  <2>1. CASE UNCHANGED <<syncer, durable>>
    <3>1. \E r : run' = [run EXCEPT ![p] = r] /\ RunInv(r, head, held, gone)
      BY <1>0, <2>0, GoesLive
    <3>. QED  BY <1>0, <1>k, <2>0, <2>1, <3>1, QuietStep
  <2>2. CASE Reproduces(m, run[p].active) /\ ~UNCHANGED <<syncer, durable>>
    <3>1. run[p].active <= held[m]
      BY <1>0, <2>2, ReproducedIsHeld
    <3>. QED  BY <1>0, <1>3, <1>5, <2>0, <2>2, <3>1 DEF ResumeSync
  <2>. QED  BY <1>5, <2>1, <2>2 DEF ResumeSync
<1>. QED
  BY <1>1, <1>4, <1>5

\* The supervisor's taking in keeps what is on disk, on the server and in the sync
\* states in agreement.
LEMMA TakesIn ==
    ASSUME StateInv, NEW m \in Machines, TakeIn(m),
           UNCHANGED <<record, temps, head, gone, committed, runs>>, syncer' \in Procs \cup {NoOne}
    PROVE  StateInv' /\ Grows /\ held'[m] = head[m]
<1>0. /\ head \in [Machines -> Gens] /\ held \in [Machines -> Gens]
      /\ \A n \in Machines : held[n] <= head[n] /\ held[n] \in Nat /\ head[n] \in Nat
      /\ folder \in [machine : Machines \cup {NoOne}, gen : Gens, edited : BOOLEAN]
      /\ committed \in [Machines -> Gens \cup {Unknown}]
  BY Bounds DEF StateInv
<1>1. /\ held' \in [Machines -> Gens] /\ held'[m] = head[m]
      /\ \A n \in Machines : n # m => held'[n] = held[n]
  BY <1>0 DEF TakeIn
<1>2. \A n \in Machines : held[n] <= held'[n] /\ held'[n] <= head[n] /\ head[n] <= head[n]
  BY <1>0, <1>1
<1>3. Grows
  BY <1>0, <1>1, <1>2 DEF Grows
<1>4. /\ durable' = [durable EXCEPT ![m] = Newest(@, head[m])]
      /\ folder' = [machine |-> m, gen |-> head[m], edited |-> folder.edited \/ folder.machine # m]
  BY DEF TakeIn
<1>5. head[m] \in Gens /\ head[m] <= held'[m]
  BY <1>0, <1>1, <1>2
<1>6. /\ durable' \in [Machines -> Gens \cup {Unknown}]
      /\ \A n \in Machines : durable'[n] = Unknown \/ durable'[n] <= held'[n]
      /\ \A n \in Machines : committed[n] = Unknown \/ committed[n] <= held'[n]
  BY <1>1, <1>2, <1>4, <1>5, RaisesKnown
<1>7. folder' \in [machine : Machines \cup {NoOne}, gen : Gens, edited : BOOLEAN]
  BY <1>0, <1>4, <1>5
<1>8. folder'.machine = m /\ folder'.gen <= held'[m]
  BY <1>4, <1>5
<1>. QED
  BY <1>0, <1>1, <1>2, <1>3, <1>6, <1>7, <1>8 DEF StateInv, Known

\* A generation that is published from the folder is the folder's.
LEMMA PublishesIn ==
    ASSUME StateInv, NEW m \in Machines, NEW base, Publish(m, base), UNCHANGED gone
    PROVE  /\ Grows /\ base = head[m] /\ base \in Gens /\ base + 1 \in Gens
           /\ head'[m] = base + 1 /\ held'[m] = base + 1
           /\ \A n \in Machines : held'[n] <= head'[n] /\ held[n] <= held'[n]
           /\ folder' \in [machine : Machines \cup {NoOne}, gen : Gens, edited : BOOLEAN]
           /\ folder'.machine = m /\ folder'.gen <= held'[m]
<1>0. /\ head \in [Machines -> Gens] /\ held \in [Machines -> Gens]
      /\ \A n \in Machines : held[n] <= head[n] /\ held[n] \in Nat /\ head[n] \in Nat
      /\ gone \in SUBSET Machines
  BY Bounds DEF StateInv
<1>1. /\ base = head[m] /\ head' = [head EXCEPT ![m] = base + 1]
      /\ held' = [held EXCEPT ![m] = base + 1]
      /\ folder' = [machine |-> m, gen |-> base + 1, edited |-> FALSE]
  BY DEF Publish
<1>2. base \in Nat /\ base < MaxGen
  <2>1. 0 + head[m] < MaxGen
    BY DEF Publish, RoomOn
  <2>. QED  BY <1>0, <1>1, <2>1, Bounds
<1>3. base + 1 \in Gens /\ base + 1 \in Nat /\ base <= base + 1 /\ base + 1 <= base + 1
  BY <1>2, Bounds DEF Gens
<1>4. /\ head' \in [Machines -> Gens] /\ held' \in [Machines -> Gens]
      /\ head'[m] = base + 1 /\ held'[m] = base + 1
      /\ \A n \in Machines : n # m => head'[n] = head[n] /\ held'[n] = held[n]
  BY <1>0, <1>1, <1>3
<1>5. \A n \in Machines : /\ head[n] <= head'[n] /\ held[n] <= held'[n] /\ held'[n] <= head'[n]
  <2>. SUFFICES ASSUME NEW n \in Machines
                PROVE  head[n] <= head'[n] /\ held[n] <= held'[n] /\ held'[n] <= head'[n]
    OBVIOUS
  <2>1. CASE n = m
    BY <1>0, <1>1, <1>2, <1>4, <2>1
  <2>2. CASE n # m
    BY <1>0, <1>4, <2>2
  <2>. QED  BY <2>1, <2>2
<1>6. base \in Gens /\ folder' \in [machine : Machines \cup {NoOne}, gen : Gens, edited : BOOLEAN]
  BY <1>0, <1>1, <1>3
<1>. QED
  BY <1>0, <1>1, <1>3, <1>4, <1>5, <1>6 DEF Grows

\* The record's generation is brought in, or published from here.
LEMMA ContentSteps ==
    ASSUME BindInv, NEW p \in Procs, Pull(p) \/ Commit(p) \/ LivePull(p) \/ LiveCommit(p)
    PROVE  BindInv'
<1>. DEFINE m == run[p].machine
<1>0. /\ StateInv /\ RunInv(run[p], head, held, gone) /\ run[p] \in Runs
      /\ run \in [Procs -> Runs]
      /\ m \in Machines /\ run[p].at # "ended"
      /\ held \in [Machines -> Gens] /\ head \in [Machines -> Gens]
      /\ run[p].active \in Gens /\ run[p].draft \in Gens /\ run[p].active <= head[m]
      /\ syncer \in Procs \cup {NoOne}
  BY OfRun DEF BindInv, StateInv, Pull, Commit, LivePull, LiveCommit
<1>k. /\ committed \in [Machines -> Gens \cup {Unknown}] /\ durable \in [Machines -> Gens \cup {Unknown}]
  BY <1>0 DEF StateInv
<1>1. CASE Pull(p)
  <2>0. UNCHANGED <<record, temps, head, gone, committed, runs>> /\ run[p].at = "pull"
    BY <1>1 DEF Pull, remote
  <2>1. CASE TakeIn(m) /\ syncer' = p /\ RecordPublished(p, "live")
    <3>1. StateInv' /\ Grows /\ held'[m] = head[m]
      BY <1>0, <2>0, <2>1, TakesIn
    <3>2. RunInv(run[p], head', held', gone')
      BY <1>0, <3>1, StaysInOrder
    <3>3. run[p].active <= held'[m] /\ head' \in [Machines -> Gens]
      BY <1>0, <2>0, <3>1
    <3>4. \E r : run' = [run EXCEPT ![p] = r] /\ RunInv(r, head', held', gone')
      BY <2>0, <2>1, <3>2, <3>3, Records
    <3>. QED  BY <3>1, <3>4, KeepsBind
  <2>2. CASE /\ syncer' = IF syncer = NoOne THEN p ELSE syncer
             /\ Goto(p, "live") /\ UNCHANGED <<durable, content>>
    <3>1. \E r : run' = [run EXCEPT ![p] = r] /\ RunInv(r, head, held, gone)
      BY <1>0, <2>2, GoesLive
    <3>2. syncer' \in Procs \cup {NoOne} /\ temps' \in SUBSET Procs /\ runs' \in 0..MaxRuns
      BY <1>0, <2>0, <2>2 DEF StateInv
    <3>. QED  BY <2>0, <2>2, <3>1, <3>2, QuietStep DEF content
  <2>. QED  BY <1>1, <2>1, <2>2 DEF Pull
<1>2. CASE Commit(p)
  <2>0. UNCHANGED <<record, temps, gone, committed, durable, runs>> /\ run[p].at = "commit"
    BY <1>2 DEF Commit, remote
  <2>1. CASE /\ Publish(m, run[p].draft) /\ UNCHANGED syncer
             /\ run' = [run EXCEPT ![p].at = "checkpoint", ![p].draft = run[p].draft + 1]
    <3>1. /\ Grows /\ run[p].draft + 1 \in Gens
          /\ head'[m] = run[p].draft + 1 /\ held'[m] = run[p].draft + 1
          /\ \A n \in Machines : held'[n] <= head'[n] /\ held[n] <= held'[n]
          /\ folder' \in [machine : Machines \cup {NoOne}, gen : Gens, edited : BOOLEAN]
          /\ folder'.machine = m /\ folder'.gen <= held'[m]
      BY <1>0, <2>0, <2>1, PublishesIn
    <3>2. /\ \A n \in Machines : committed[n] = Unknown \/ committed[n] <= held'[n]
          /\ \A n \in Machines : durable[n] = Unknown \/ durable[n] <= held'[n]
      <4>1. held' \in [Machines -> Gens] /\ held'[m] <= held'[m] /\ held'[m] \in Gens
        BY <3>1, Bounds DEF Grows
      <4>. QED  BY <1>0, <3>1, <4>1, RaisesKnown
    <3>3. StateInv'
      BY <1>0, <1>k, <2>0, <2>1, <3>1, <3>2 DEF StateInv, Known, Grows
    <3>4. RunInv(run[p], head', held', gone')
      BY <1>0, <3>1, StaysInOrder
    <3>. DEFINE d == run[p].draft + 1
                c == [run[p] EXCEPT !.at = "checkpoint", !.draft = d]
    <3>5. run' = [run EXCEPT ![p] = c]
      BY <1>0, <2>1
    <3>. HIDE DEF d
    <3>6. d \in Gens /\ d <= held'[m]
      BY <3>1, Bounds DEF d
    <3>7. /\ c \in Runs /\ c.at = "checkpoint" /\ c.draft = d /\ c.machine = m
          /\ c.seen = run[p].seen /\ c.active = run[p].active
      BY <1>0, <3>6 DEF Runs, RunPlaces
    <3>. HIDE DEF c
    <3>8. RunInv(c, head', held', gone')
      BY <1>0, <2>0, <3>4, <3>6, <3>7 DEF RunInv, Placed, Writing, Proven
    <3>. QED  BY <3>1, <3>3, <3>5, <3>8, KeepsBind
  <2>2. CASE Fail(p) /\ UNCHANGED <<remote, content>>
    <3>1. temps' \in SUBSET Procs /\ runs' \in 0..MaxRuns
      BY <1>0, <2>0 DEF StateInv
    <3>. QED  BY <2>0, <2>2, <3>1, FailEnds, QuietStep DEF remote, content
  <2>. QED  BY <1>2, <2>1, <2>2 DEF Commit
<1>3. CASE LivePull(p)
  <2>1. StateInv' /\ Grows
    BY <1>0, <1>3, TakesIn DEF LivePull, remote
  <2>. QED  BY <1>3, <2>1, KeepsBind DEF LivePull
<1>4. CASE LiveCommit(p)
  <2>0. /\ UNCHANGED <<record, temps, run, gone, syncer, runs>> /\ Publish(m, durable[m])
        /\ durable' = [durable EXCEPT ![m] = head'[m]]
        /\ committed' = [committed EXCEPT ![m] = head'[m]]
    BY <1>4 DEF LiveCommit
  <2>1. /\ Grows /\ head'[m] \in Gens /\ held'[m] = head'[m]
        /\ \A n \in Machines : held'[n] <= head'[n] /\ held[n] <= held'[n]
        /\ folder' \in [machine : Machines \cup {NoOne}, gen : Gens, edited : BOOLEAN]
        /\ folder'.machine = m /\ folder'.gen <= held'[m]
    BY <1>0, <2>0, PublishesIn
  <2>2. /\ \A n \in Machines : committed[n] = Unknown \/ committed[n] <= held'[n]
        /\ \A n \in Machines : durable[n] = Unknown \/ durable[n] <= held'[n]
    <3>1. held' \in [Machines -> Gens] /\ held'[m] <= held'[m] /\ held'[m] \in Gens
      BY <2>1, Bounds DEF Grows
    <3>. QED  BY <1>0, <2>1, <3>1, RaisesKnown
  <2>3. head'[m] <= held'[m]
    BY <2>1, Bounds
  <2>4. /\ committed' \in [Machines -> Gens \cup {Unknown}]
        /\ durable' \in [Machines -> Gens \cup {Unknown}]
        /\ \A n \in Machines : committed'[n] = Unknown \/ committed'[n] <= held'[n]
        /\ \A n \in Machines : durable'[n] = Unknown \/ durable'[n] <= held'[n]
    BY <1>k, <2>0, <2>1, <2>2, <2>3
  <2>5. StateInv'
    BY <1>0, <2>0, <2>1, <2>4 DEF StateInv, Known, Grows
  <2>. QED  BY <2>0, <2>1, <2>5, KeepsBind
<1>. QED
  BY <1>1, <1>2, <1>3, <1>4

\* A writer that is done, or gives up, goes to the release of its lock.
LEMMA Unlocks ==
    ASSUME BindInv, NEW p \in Procs, NEW after \in Afters, Unlock(p, after),
           run[p].at \notin {"ended", "inspect", "observe"}
    PROVE  \E r : run' = [run EXCEPT ![p] = r] /\ RunInv(r, head, held, gone)
<1>. DEFINE c == [run[p] EXCEPT !.at = "unlock", !.after = after]
<1>0. run \in [Procs -> Runs] /\ run[p] \in Runs /\ RunInv(run[p], head, held, gone)
  BY OfRun
<1>1. run' = [run EXCEPT ![p] = c]
  BY <1>0 DEF Unlock
<1>2. /\ c \in Runs /\ c.at = "unlock" /\ c.machine = run[p].machine /\ c.seen = run[p].seen
      /\ c.active = run[p].active /\ c.after = after
  BY <1>0 DEF Runs, RunPlaces, Afters
<1>. HIDE DEF c
<1>3. RunInv(c, head, held, gone)
  BY <1>0, <1>2 DEF RunInv, Placed, Writing, Proven
<1>. QED
  BY <1>1, <1>3

LEMMA RefusalPlaces ==
    \A p \in Procs : OnRefusal(p) \in {"live", "ended"} /\ OnRefusal(p) \in Afters
  BY DEF OnRefusal, Afters

\* The steps of persistWorkspaceBinding, but the rename.
LEMMA WritingSteps ==
    ASSUME BindInv, NEW p \in Procs,
           AcquireWriterLock(p) \/ WriterBusy(p) \/ ProveSwap(p) \/ WriteImage(p)
               \/ VerifyUnchanged(p) \/ ReadBack(p) \/ ReleaseWriterLock(p)
    PROVE  BindInv'
<1>0. /\ RunInv(run[p], head, held, gone) /\ run[p] \in Runs /\ run \in [Procs -> Runs]
      /\ run[p].seen \in RecordSet /\ record \in RecordSet
      /\ temps \in SUBSET Procs /\ runs \in 0..MaxRuns /\ syncer \in Procs \cup {NoOne}
  BY OfRun DEF BindInv, StateInv
<1>1. /\ UNCHANGED <<record, head, gone, folder, held, committed, durable, runs>>
      /\ temps' \in SUBSET Procs
      /\ run[p].at \in {"persist", "swap"} \cup Writing
      /\ Fail(p) \/ UNCHANGED syncer
  BY <1>0 DEF AcquireWriterLock, WriterBusy, ProveSwap, WriteImage, VerifyUnchanged, ReadBack,
              ReleaseWriterLock, remote, localState, content, Writing, Placed
<1>2. run[p].at \notin {"ended", "inspect", "observe"} /\ run[p].after \in Afters
  BY <1>0, <1>1 DEF RunInv, Writing, Placed
<1>q. ASSUME \E r : run' = [run EXCEPT ![p] = r] /\ RunInv(r, head, held, gone)
      PROVE  BindInv'
  <2>1. syncer' \in Procs \cup {NoOne}
    BY <1>0, <1>1, FailEnds
  <2>. QED  BY <1>0, <1>1, <1>q, <2>1, QuietStep
<1>f. CASE Fail(p)
  BY <1>f, <1>q, FailEnds
<1>l. CASE Goto(p, "live")
  <2>1. head \in [Machines -> Gens]
    BY DEF BindInv, StateInv
  <2>. QED  BY <1>2, <1>l, <1>q, <2>1, GoesLive
<1>u. CASE Unlock(p, OnRefusal(p))
  BY <1>2, <1>u, <1>q, RefusalPlaces, Unlocks
<1>g. ASSUME NEW at \in RunPlaces, at \notin {"commit", "live", "checkpoint", "confirm"}, Goto(p, at),
             at \in Placed => run[p].seen.rev < MaxRev,
             at \in Placed /\ run[p].rebind
                => run[p].seen # NoRecord /\ run[p].seen.machine # run[p].machine,
             at \in {"persist", "swap"} \cup Placed
                => run[p].at \in {"persist", "swap"} \cup Placed
      PROVE  BindInv'
  <2>1. at \in {"persist", "swap"} \cup Placed /\ ~run[p].rebind
            => run[p].draft <= held[run[p].machine]
    BY <1>0, <1>g DEF RunInv, Proven
  <2>2. RunInv([run[p] EXCEPT !.at = at], head, held, gone)
    BY <1>0, <1>2, <1>g, <2>1, MovesOn
  <2>. QED  BY <1>g, <1>q, <2>2, GoesOn
<1>3. CASE AcquireWriterLock(p)
  BY <1>3, <1>g DEF AcquireWriterLock, RunPlaces, Placed
<1>4. CASE WriterBusy(p)
  BY <1>4, <1>f, <1>l DEF WriterBusy
<1>5. CASE ProveSwap(p)
  <2>1. CASE SwapAllowed(p) /\ Goto(p, "image") /\ run[p].at = "swap"
    <3>1. run[p].seen.rev < MaxRev
      BY <2>1 DEF SwapAllowed
    <3>2. run[p].rebind => run[p].seen # NoRecord /\ run[p].seen.machine # run[p].machine
      BY <2>1 DEF SwapAllowed
    <3>. QED  BY <2>1, <3>1, <3>2, <1>g DEF RunPlaces, Placed
  <2>. QED  BY <1>5, <1>u, <2>1 DEF ProveSwap
<1>6. CASE WriteImage(p)
  <2>1. run[p].at = "image" /\ Goto(p, "verify")
    BY <1>6 DEF WriteImage
  <2>. QED  BY <1>0, <1>g, <2>1 DEF RunInv, RunPlaces, Placed
<1>7. CASE VerifyUnchanged(p)
  <2>1. CASE run[p].at = "verify" /\ Goto(p, "rename")
    BY <1>0, <1>g, <2>1 DEF RunInv, RunPlaces, Placed
  <2>. QED  BY <1>7, <1>u, <2>1 DEF VerifyUnchanged
<1>8. CASE ReadBack(p)
  <2>1. CASE record = Image(p) /\ run' = [run EXCEPT ![p].at = "unlock", ![p].seen = Image(p)]
    <3>. DEFINE c == [run[p] EXCEPT !.at = "unlock", !.seen = record]
    <3>1. run' = [run EXCEPT ![p] = c]
      BY <1>0, <2>1
    <3>2. /\ c \in Runs /\ c.at = "unlock" /\ c.machine = run[p].machine
          /\ c.seen = record /\ c.active = run[p].active /\ c.after = run[p].after
      BY <1>0 DEF Runs, RunPlaces
    <3>3. record.machine = run[p].machine
      BY <2>1 DEF Image
    <3>. HIDE DEF c
    <3>4. RunInv(c, head, held, gone)
      BY <1>0, <1>2, <3>2, <3>3 DEF RunInv, Placed, Writing, Proven
    <3>. QED  BY <1>q, <3>1, <3>4
  <2>. QED  BY <1>8, <1>u, <2>1 DEF ReadBack
<1>9. CASE ReleaseWriterLock(p)
  <2>1. CASE Goto(p, run[p].after) /\ run[p].after \in {"compare", "resume", "start"}
    BY <1>g, <2>1 DEF RunPlaces, Placed
  <2>. QED  BY <1>2, <1>9, <1>f, <1>l, <2>1 DEF ReleaseWriterLock, Afters
<1>. QED
  BY <1>3, <1>4, <1>5, <1>6, <1>7, <1>8, <1>9

\* The rename puts a record of the run's own Machine in place.
LEMMA RenameStep ==
    ASSUME BindInv, NEW p \in Procs, RenameImage(p)
    PROVE  BindInv'
<1>0. /\ StateInv /\ RunInv(run[p], head, held, gone) /\ run[p] \in Runs
      /\ run[p].at = "rename" /\ run[p].machine \in Machines
      /\ run[p].seen \in RecordSet /\ run[p].draft \in Gens
      /\ UNCHANGED <<head, gone, folder, held, committed, durable, runs>> /\ UNCHANGED syncer
      /\ temps \in SUBSET Procs /\ temps' \in SUBSET Procs
      /\ runs \in 0..MaxRuns /\ syncer \in Procs \cup {NoOne}
  BY OfRun DEF RenameImage, BindInv, StateInv, remote, localState, content
<1>1. CASE record' = Image(p) /\ Goto(p, "readback")
  <2>1. run[p].seen.rev + 1 \in 0..MaxRev
    <3>1. run[p].seen.rev < MaxRev
      BY <1>0 DEF RunInv, Placed
    <3>. QED  BY <1>0, <3>1, Bounds DEF RecordSet
  <2>2. Image(p) \in RecordSet /\ Image(p).machine \in Machines
    BY <1>0, <2>1 DEF Image, RecordSet
  <2>3. RunInv([run[p] EXCEPT !.at = "readback"], head, held, gone)
    <3>1. run[p].after \in Afters
      BY <1>0 DEF RunInv, Writing, Placed
    <3>. QED  BY <1>0, <3>1, MovesOn DEF RunPlaces, Placed
  <2>4. \E r : run' = [run EXCEPT ![p] = r] /\ RunInv(r, head', held', gone')
    <3>1. \E r : run' = [run EXCEPT ![p] = r] /\ RunInv(r, head, held, gone)
      BY <1>1, <2>3, GoesOn DEF RunPlaces
    <3>. QED  BY <1>0, <3>1
  <2>5. StateInv' /\ Grows
    <3>1. \A n \in Machines : head[n] <= head[n] /\ held[n] <= held[n]
      BY <1>0, Bounds DEF StateInv
    <3>. QED  BY <1>0, <1>1, <2>2, <3>1 DEF StateInv, Grows, Known
  <2>. QED  BY <2>4, <2>5, KeepsBind
<1>2. CASE Unlock(p, OnRefusal(p)) /\ UNCHANGED <<record, temps>>
  <2>1. \E r : run' = [run EXCEPT ![p] = r] /\ RunInv(r, head, held, gone)
    BY <1>0, <1>2, RefusalPlaces, Unlocks
  <2>. QED  BY <1>0, <1>2, <2>1, QuietStep
<1>. QED
  BY <1>1, <1>2 DEF RenameImage

\* A run that starts, and what the rest of the world does.
LEMMA BindWorldSteps ==
    ASSUME BindInv,
           \/ \E p \in Procs : (\E m \in Machines : Start(p, m)) \/ LockGoesOn(p) \/ Crash(p)
           \/ \E m \in Machines : MachinePublishes(m) \/ MachineGone(m)
           \/ Edit \/ DeleteRecord
    PROVE  BindInv'
<1>0. /\ StateInv /\ run \in [Procs -> Runs]
      /\ head \in [Machines -> Gens] /\ held \in [Machines -> Gens]
      /\ gone \in SUBSET Machines /\ temps \in SUBSET Procs /\ syncer \in Procs \cup {NoOne}
      /\ runs \in 0..MaxRuns
      /\ \A m \in Machines : held[m] \in Nat /\ head[m] \in Nat /\ held[m] <= head[m]
      /\ \A m \in Machines : held[m] <= held[m] /\ head[m] <= head[m]
      /\ folder \in [machine : Machines \cup {NoOne}, gen : Gens, edited : BOOLEAN]
      /\ folder.machine \in Machines => folder.gen <= held[folder.machine]
  BY Bounds DEF BindInv, StateInv
<1>1. ASSUME NEW p \in Procs, NEW m \in Machines, Start(p, m) PROVE BindInv'
  <2>. DEFINE c == [Ended EXCEPT !.at = "inspect", !.machine = m]
  <2>1. run' = [run EXCEPT ![p] = c] /\ UNCHANGED <<record, temps, head, gone, folder, held>>
        /\ UNCHANGED <<committed, durable, syncer>>
    BY <1>1 DEF Start, remote, localState, content
  <2>2. runs' \in 0..MaxRuns
    <3>1. MaxRuns \in Nat /\ runs' = (IF MaxRuns = 0 THEN 0 ELSE runs + 1)
          /\ (MaxRuns = 0 \/ runs < MaxRuns)
      BY <1>1, BindingBounds DEF Start
    <3>. QED  BY <1>0, <3>1
  <2>3. Ended \in Runs /\ Ended.active = 0
    <3>1. Ended \in Runs
      BY <1>0, Resting DEF RunInv
    <3>. QED  BY <3>1 DEF Ended
  <2>4. c \in Runs /\ c.at = "inspect" /\ c.machine = m /\ c.active = 0
    BY <2>3 DEF Runs, RunPlaces
  <2>5. 0 <= head[m]
    BY <1>0
  <2>. HIDE DEF c
  <2>6. RunInv(c, head, held, gone)
    BY <2>4, <2>5 DEF RunInv, Placed, Writing, Proven
  <2>. QED  BY <1>0, <2>1, <2>2, <2>6, QuietStep
<1>2. ASSUME NEW p \in Procs, LockGoesOn(p) PROVE BindInv'
  BY <1>2 DEF LockGoesOn, BindInv, StateInv, Known, remote, localState, content
<1>3. ASSUME NEW p \in Procs, Crash(p) PROVE BindInv'
  <2>1. /\ Fail(p) /\ UNCHANGED <<record, temps, head, gone, folder, held>>
        /\ UNCHANGED <<committed, durable, runs>>
    BY <1>3 DEF Crash, remote, content
  <2>. QED  BY <1>0, <2>1, FailEnds, QuietStep
<1>4. ASSUME NEW m \in Machines, MachinePublishes(m) PROVE BindInv'
  <2>1. /\ UNCHANGED <<record, temps, run, gone, folder, held, committed, durable, syncer, runs>>
        /\ head' = [head EXCEPT ![m] = head[m] + 1] /\ 0 + head[m] < MaxGen
    BY <1>4 DEF MachinePublishes, RoomOn, localState, content
  <2>2. head[m] + 1 \in Gens
    BY <1>0, <2>1, Bounds DEF Gens
  <2>3. \A n \in Machines : head'[n] \in Nat /\ head[n] <= head'[n]
    BY <1>0, <2>1
  <2>4. \A n \in Machines : held[n] <= head'[n]
    BY <1>0, <2>3
  <2>5. StateInv' /\ Grows
    BY <1>0, <2>1, <2>2, <2>3, <2>4 DEF StateInv, Known, Grows
  <2>. QED  BY <2>1, <2>5, KeepsBind
<1>5. ASSUME NEW m \in Machines, MachineGone(m) PROVE BindInv'
  <2>1. /\ UNCHANGED <<record, temps, run, head, folder, held, committed, durable, syncer, runs>>
        /\ gone' \in SUBSET Machines /\ gone \subseteq gone'
    BY <1>0, <1>5 DEF MachineGone, localState, content
  <2>2. StateInv' /\ Grows
    BY <1>0, <2>1 DEF StateInv, Known, Grows
  <2>. QED  BY <2>1, <2>2, KeepsBind
<1>6. CASE Edit
  <2>1. /\ UNCHANGED <<record, temps, run, head, gone, held, committed, durable, syncer, runs>>
        /\ folder' = [folder EXCEPT !.edited = TRUE]
    BY <1>6 DEF Edit, remote, localState
  <2>2. /\ folder' \in [machine : Machines \cup {NoOne}, gen : Gens, edited : BOOLEAN]
        /\ folder'.machine = folder.machine /\ folder'.gen = folder.gen
    BY <1>0, <2>1
  <2>3. StateInv' /\ Grows
    BY <1>0, <2>1, <2>2 DEF StateInv, Known, Grows
  <2>. QED  BY <2>1, <2>3, KeepsBind
<1>7. CASE DeleteRecord
  <2>1. /\ UNCHANGED <<temps, run, head, gone, folder, held, committed, durable, syncer, runs>>
        /\ record' = NoRecord
    BY <1>7 DEF DeleteRecord, remote, localState, content
  <2>2. NoRecord \in RecordSet
    BY Bounds DEF NoRecord, RecordSet, Gens
  <2>3. StateInv' /\ Grows
    BY <1>0, <2>1, <2>2 DEF StateInv, Known, Grows
  <2>. QED  BY <2>1, <2>3, KeepsBind
<1>. QED
  BY <1>1, <1>2, <1>3, <1>4, <1>5, <1>6, <1>7

\* Every step of the system keeps runs, record and sync states in order.
LEMMA BindStep == BindInv /\ [Next]_vars => BindInv'
<1>. SUFFICES ASSUME BindInv, [Next]_vars PROVE BindInv'
  OBVIOUS
<1>1. CASE UNCHANGED vars
  BY <1>1 DEF vars, BindInv, StateInv, Known
<1>2. ASSUME NEW p \in Procs,
             Inspect(p) \/ ObserveBoundMachine(p) \/ CreateBinding(p) \/ GetAuthority(p)
                 \/ AttachUnsynced(p) \/ Confirm(p) \/ End(p) \/ Compare(p)
      PROVE  BindInv'
  <2>1. /\ \E r : run' = [run EXCEPT ![p] = r] /\ RunInv(r, head, held, gone)
        /\ syncer' \in Procs \cup {NoOne}
    BY <1>2, ReadingSteps, CompareStep
  <2>2. /\ UNCHANGED <<record, head, gone, folder, held, committed, durable>>
        /\ temps' \in SUBSET Procs /\ runs' \in 0..MaxRuns
    BY <1>2 DEF Inspect, ObserveBoundMachine, CreateBinding, GetAuthority, AttachUnsynced, Confirm,
                End, Compare, remote, content, BindInv, StateInv
  <2>. QED  BY <2>1, <2>2, QuietStep
<1>. QED
  BY <1>1, <1>2, SyncStateSteps, ContentSteps, WritingSteps, RenameStep, BindWorldSteps
     DEF Next, RunStep

LEMMA BindBegins == Init => BindInv
<1>. SUFFICES ASSUME Init PROVE BindInv
  OBVIOUS
<1>1. NoRecord \in RecordSet /\ 0 \in Gens /\ 0 <= 0 /\ 0 \in 0..MaxRuns
  BY BindingBounds DEF NoRecord, RecordSet, Gens
<1>2. /\ head \in [Machines -> Gens] /\ held \in [Machines -> Gens]
      /\ committed \in [Machines -> Gens \cup {Unknown}] /\ durable \in [Machines -> Gens \cup {Unknown}]
      /\ \A m \in Machines : head[m] = 0 /\ held[m] = 0 /\ committed[m] = Unknown /\ durable[m] = Unknown
  BY <1>1 DEF Init
<1>3. \A p \in Procs : RunInv(run[p], head, held, gone)
  BY <1>2, Resting DEF Init
<1>4. run \in [Procs -> Runs]
  BY <1>3 DEF Init, RunInv
<1>5. folder \in [machine : Machines \cup {NoOne}, gen : Gens, edited : BOOLEAN]
      /\ folder.gen = 0
  BY <1>1 DEF Init
<1>6. StateInv
  BY <1>1, <1>2, <1>5 DEF Init, StateInv, Known
<1>. QED
  BY <1>3, <1>4, <1>6 DEF BindInv

LEMMA RunsInOrder == Spec => []BindInv
BY BindBegins, BindStep, PTL DEF Spec

-----------------------------------------------------------------------------
\* What a run does with the writer lock is what ProcessLock allows any caller.
LEMMA WritersLock == [Next]_vars => [LockNext]_lockVars
<1>. SUFFICES ASSUME [Next]_vars PROVE [LockNext]_lockVars
  OBVIOUS
<1>1. ASSUME NEW p \in Procs,
             AcquireWriterLock(p) \/ WriterBusy(p) \/ ReleaseWriterLock(p) \/ LockGoesOn(p)
      PROVE  [LockNext]_lockVars
  <2>1. TryAcquire(p, Folder) \/ Refused(p, Folder) \/ Release(p, Folder) \/ LockStep(p, Folder)
    BY <1>1 DEF AcquireWriterLock, WriterBusy, ReleaseWriterLock, LockGoesOn
  <2>. QED  BY <2>1, Bounds DEF LockNext
<1>2. ASSUME NEW p \in Procs, Crash(p) PROVE [LockNext]_lockVars
  BY <1>2 DEF Crash, LockNext
<1>3. ASSUME NEW p \in Procs,
             \/ Inspect(p) \/ ObserveBoundMachine(p) \/ CreateBinding(p) \/ GetAuthority(p)
             \/ Compare(p) \/ AttachUnsynced(p) \/ Pull(p) \/ Commit(p) \/ SaveCheckpoint(p)
             \/ Confirm(p) \/ StartSync(p) \/ ResumeSync(p) \/ End(p) \/ LivePull(p)
             \/ LiveCommit(p) \/ ProveSwap(p) \/ WriteImage(p) \/ VerifyUnchanged(p)
             \/ RenameImage(p) \/ ReadBack(p) \/ \E m \in Machines : Start(p, m)
      PROVE  [LockNext]_lockVars
  BY <1>3 DEF Inspect, ObserveBoundMachine, CreateBinding, GetAuthority, Compare, AttachUnsynced,
       Pull, Commit, SaveCheckpoint, Confirm, StartSync, ResumeSync, End, LivePull, LiveCommit,
       ProveSwap, WriteImage, VerifyUnchanged, RenameImage, ReadBack, Start
<1>4. CASE Edit \/ DeleteRecord \/ \E m \in Machines : MachinePublishes(m) \/ MachineGone(m)
  BY <1>4 DEF Edit, DeleteRecord, MachinePublishes, MachineGone
<1>5. CASE UNCHANGED vars
  BY <1>5 DEF vars, lockVars
<1>. QED
  BY <1>1, <1>2, <1>3, <1>4, <1>5 DEF Next, RunStep

\* A run of synchronizeWorkspace is a caller of the lock algorithm: nothing that a run,
\* a refusal or a crash does goes round it.
THEOREM RunsUseTheLock == Spec => LockSpec
<1>1. Init => LockInit
  BY DEF Init
<1>. QED
  BY <1>1, WritersLock, PTL DEF Spec, LockSpec

\* The record, the runs, the sync states and the writer lock are well typed, on both
\* platforms and whatever fails.
THEOREM BindingTypeCorrect == Spec => []TypeOK
<1>1. LockTypeOK /\ BindInv => TypeOK
  BY DEF BindInv, StateInv, TypeOK, Runs
<1>. QED
  BY <1>1, RunsInOrder, RunsUseTheLock, LockTypeCorrect, PTL

-----------------------------------------------------------------------------
\* A step moves at most one run.
LEMMA OneRunMoves ==
    ASSUME BindInv, NEW p \in Procs,
           RunStep(p) \/ LivePull(p) \/ LiveCommit(p) \/ Crash(p) \/ \E m \in Machines : Start(p, m),
           NEW q \in Procs, q # p
    PROVE  run'[q] = run[q]
<1>1. run \in [Procs -> Runs]
  BY DEF BindInv
<1>. USE <1>1 DEF Fail, Goto, Persist, Unlock, RecordPublished
<1>2. CASE Inspect(p) \/ ObserveBoundMachine(p) \/ CreateBinding(p) \/ GetAuthority(p)
               \/ Compare(p) \/ AttachUnsynced(p) \/ Pull(p) \/ Commit(p) \/ SaveCheckpoint(p)
               \/ Confirm(p) \/ StartSync(p) \/ ResumeSync(p) \/ End(p)
  BY <1>2 DEF Inspect, ObserveBoundMachine, CreateBinding, GetAuthority, Compare, AttachUnsynced,
              Pull, Commit, SaveCheckpoint, Confirm, StartSync, ResumeSync, End
<1>3. CASE AcquireWriterLock(p) \/ WriterBusy(p) \/ ProveSwap(p) \/ WriteImage(p)
               \/ VerifyUnchanged(p) \/ RenameImage(p) \/ ReadBack(p) \/ ReleaseWriterLock(p)
               \/ LockGoesOn(p)
  BY <1>3 DEF AcquireWriterLock, WriterBusy, ProveSwap, WriteImage, VerifyUnchanged, RenameImage,
              ReadBack, ReleaseWriterLock, LockGoesOn
<1>4. CASE LivePull(p) \/ LiveCommit(p) \/ Crash(p) \/ \E m \in Machines : Start(p, m)
  BY <1>4 DEF LivePull, LiveCommit, Crash, Start
<1>. QED
  BY <1>2, <1>3, <1>4 DEF RunStep

\* Only the commit publishes for a run that waits to.
LEMMA OnlyCommitPublishes ==
    ASSUME BindInv, [Next]_vars, NEW p \in Procs, Publishes(p)
    PROVE  Publish(run[p].machine, run[p].draft)
<1>0. run \in [Procs -> Runs] /\ run[p].at = "commit" /\ run'[p].at = "checkpoint"
  BY DEF BindInv, Publishes
<1>1. ASSUME NEW q \in Procs,
             RunStep(q) \/ LivePull(q) \/ LiveCommit(q) \/ Crash(q) \/ \E m \in Machines : Start(q, m)
      PROVE  q = p
  BY <1>0, <1>1, OneRunMoves
<1>2. ASSUME Fail(p) PROVE FALSE
  BY <1>0, <1>2 DEF Fail, Ended
<1>3. CASE Commit(p)
  BY <1>2, <1>3 DEF Commit
<1>4. CASE run' = run
  BY <1>0, <1>4
<1>5. ASSUME RunStep(p) PROVE Commit(p) \/ run' = run
  BY <1>0, <1>5 DEF RunStep, Inspect, ObserveBoundMachine, CreateBinding, GetAuthority, Compare,
       AttachUnsynced, Pull, SaveCheckpoint, Confirm, StartSync, ResumeSync, End,
       AcquireWriterLock, WriterBusy, ProveSwap, WriteImage, VerifyUnchanged, RenameImage,
       ReadBack, ReleaseWriterLock, LockGoesOn
<1>6. ASSUME LivePull(p) \/ LiveCommit(p) \/ Crash(p) \/ \E m \in Machines : Start(p, m) PROVE FALSE
  BY <1>0, <1>2, <1>6 DEF LivePull, LiveCommit, Crash, Start
<1>7. CASE UNCHANGED vars \/ Edit \/ DeleteRecord
           \/ \E m \in Machines : MachinePublishes(m) \/ MachineGone(m)
  BY <1>4, <1>7 DEF vars, Edit, DeleteRecord, MachinePublishes, MachineGone
<1>. QED
  BY <1>1, <1>3, <1>4, <1>5, <1>6, <1>7 DEF Next

\* A bound run whose record is true of the folder publishes on no head but the one the
\* folder holds, whatever other runs, the Machine and crashes do in between
\* (src/journey/workspace-effects.ts takes the base from the folder's own sync record).
THEOREM BoundClaimsAreHeld == Spec => BoundRunsClaimHeld
<1>1. BindInv /\ [Next]_vars
        => [\A p \in Procs :
              Publishes(p) /\ run[p].seen # NoRecord /\ run[p].seen.gen <= held[run[p].machine]
                => head[run[p].machine] = held[run[p].machine]]_vars
  <2>. SUFFICES ASSUME BindInv, [Next]_vars, NEW p \in Procs, Publishes(p),
                       run[p].seen # NoRecord, run[p].seen.gen <= held[run[p].machine]
                PROVE  head[run[p].machine] = held[run[p].machine]
    OBVIOUS
  <2>1. run[p].at = "commit"
    BY DEF Publishes
  <2>2. head[run[p].machine] = run[p].draft
    BY OnlyCommitPublishes DEF Publish
  <2>3. run[p].draft <= held[run[p].machine]
    BY <2>1, OfRun DEF RunInv
  <2>. QED  BY <2>1, <2>2, <2>3, OfRun, Bounds
<1>. QED
  BY <1>1, RunsInOrder, PTL DEF Spec, BoundRunsClaimHeld

-----------------------------------------------------------------------------
\* The part of WriterInv that is about run r of p, where locks are lk and the record
\* is rec.
WriterOf(p, r, lk, rec) ==
    /\ r.at \in Writing => lk[p][Folder].at = "held"
    /\ r.at \in Placed => r.seen = rec

LEMMA WriterParts ==
    /\ WriterInv <=> \A p \in Procs : WriterOf(p, run[p], lock, record)
    /\ (\A p \in Procs : WriterOf(p, run'[p], lock', record')) => WriterInv'
  BY DEF WriterInv, WriterOf, Holds, At

\* A holder of the writer lock holds it until its own release or its end.
LEMMA WriterHolds ==
    ASSUME LockTypeOK, [Next]_vars, NEW q \in Procs, Holds(q, Folder)
    PROVE  lock'[q][Folder].at = "held" \/ ReleaseWriterLock(q) \/ Crash(q)
<1>1. ASSUME NEW p \in Procs,
             \/ AcquireWriterLock(p) \/ WriterBusy(p) \/ LockGoesOn(p)
             \/ (ReleaseWriterLock(p) /\ p # q)
      PROVE  lock'[q][Folder].at = "held"
  <2>1. TryAcquire(p, Folder) \/ Refused(p, Folder) \/ Release(p, Folder) \/ LockStep(p, Folder)
    BY <1>1 DEF AcquireWriterLock, WriterBusy, ReleaseWriterLock, LockGoesOn
  <2>2. p # q \/ ~Release(p, Folder)
    <3>. SUFFICES ASSUME p = q, Release(p, Folder) PROVE FALSE
      OBVIOUS
    <3>1. AcquireWriterLock(p) \/ WriterBusy(p) \/ LockGoesOn(p)
      BY <1>1
    <3>. QED  BY <3>1 DEF AcquireWriterLock, WriterBusy, LockGoesOn, TryAcquire, Refused, LockStep,
              Bind, Listening, AddressInUse, SocketIsActive, StatStale, RemoveStale, Closed, Holds
  <2>3. Holds(q, Folder)'
    BY <2>1, <2>2, Bounds, HoldStays
  <2>. QED  BY <2>3 DEF Holds, At
<1>2. ASSUME NEW p \in Procs, Crash(p), p # q PROVE lock'[q][Folder].at = "held"
  BY <1>2, CrashOthers, Bounds DEF Crash, Holds, At, lockVars
<1>3. CASE lock' = lock
  BY <1>3 DEF Holds, At
<1>4. ASSUME NEW p \in Procs,
             \/ Inspect(p) \/ ObserveBoundMachine(p) \/ CreateBinding(p) \/ GetAuthority(p)
             \/ Compare(p) \/ AttachUnsynced(p) \/ Pull(p) \/ Commit(p) \/ SaveCheckpoint(p)
             \/ Confirm(p) \/ StartSync(p) \/ ResumeSync(p) \/ End(p) \/ LivePull(p)
             \/ LiveCommit(p) \/ ProveSwap(p) \/ WriteImage(p) \/ VerifyUnchanged(p)
             \/ RenameImage(p) \/ ReadBack(p) \/ \E m \in Machines : Start(p, m)
      PROVE  lock' = lock
  BY <1>4 DEF Inspect, ObserveBoundMachine, CreateBinding, GetAuthority, Compare, AttachUnsynced,
       Pull, Commit, SaveCheckpoint, Confirm, StartSync, ResumeSync, End, LivePull, LiveCommit,
       ProveSwap, WriteImage, VerifyUnchanged, RenameImage, ReadBack, Start, lockVars
<1>5. ASSUME Edit \/ DeleteRecord \/ (\E m \in Machines : MachinePublishes(m) \/ MachineGone(m))
                \/ UNCHANGED vars
      PROVE  lock' = lock
  BY <1>5 DEF Edit, DeleteRecord, MachinePublishes, MachineGone, vars, lockVars
<1>. QED
  BY <1>1, <1>2, <1>3, <1>4, <1>5 DEF Next, RunStep

\* Only a rename puts another record in place, and only the person takes one away.
LEMMA OnlyRenameWrites ==
    ASSUME [Next]_vars, record' # record
    PROVE  DeleteRecord \/ \E p \in Procs : RenameImage(p) /\ record' = Image(p)
<1>1. ASSUME NEW p \in Procs,
             \/ Inspect(p) \/ ObserveBoundMachine(p) \/ CreateBinding(p) \/ GetAuthority(p)
             \/ Compare(p) \/ AttachUnsynced(p) \/ Pull(p) \/ Commit(p) \/ SaveCheckpoint(p)
             \/ Confirm(p) \/ StartSync(p) \/ ResumeSync(p) \/ End(p) \/ LivePull(p)
             \/ LiveCommit(p) \/ AcquireWriterLock(p) \/ WriterBusy(p) \/ ProveSwap(p)
             \/ WriteImage(p) \/ VerifyUnchanged(p) \/ ReadBack(p) \/ ReleaseWriterLock(p)
             \/ LockGoesOn(p) \/ Crash(p) \/ \E m \in Machines : Start(p, m)
      PROVE  record' = record
  BY <1>1 DEF Inspect, ObserveBoundMachine, CreateBinding, GetAuthority, Compare, AttachUnsynced,
       Pull, Commit, SaveCheckpoint, Confirm, StartSync, ResumeSync, End, LivePull, LiveCommit,
       AcquireWriterLock, WriterBusy, ProveSwap, WriteImage, VerifyUnchanged, ReadBack,
       ReleaseWriterLock, LockGoesOn, Crash, Start
<1>2. ASSUME NEW p \in Procs, RenameImage(p) PROVE record' = record \/ record' = Image(p)
  BY <1>2 DEF RenameImage
<1>3. ASSUME Edit \/ (\E m \in Machines : MachinePublishes(m) \/ MachineGone(m)) \/ UNCHANGED vars
      PROVE  record' = record
  BY <1>3 DEF Edit, MachinePublishes, MachineGone, vars
<1>. QED
  BY <1>1, <1>2, <1>3 DEF Next, RunStep

\* Where a run is after it went on or failed.
LEMMA GotoAt ==
    ASSUME run \in [Procs -> Runs], NEW p \in Procs
    PROVE  /\ Fail(p) => run'[p].at = "ended"
           /\ \A at : Goto(p, at) => run'[p].at = at
<1>1. Fail(p) => run'[p].at = "ended"
  BY DEF Fail, Ended
<1>2. ASSUME NEW at, Goto(p, at) PROVE run'[p].at = at
  <2>1. run[p] \in Runs /\ run'[p] = (IF at = "live" THEN [Ended EXCEPT !.at = at, !.machine = run[p].machine]
                                   ELSE [run[p] EXCEPT !.at = at])
    BY <1>2 DEF Goto
  <2>2. CASE at = "live"
    BY <2>1, <2>2 DEF Ended
  <2>3. CASE at # "live"
    BY <2>1, <2>3 DEF Runs
  <2>. QED  BY <2>2, <2>3
<1>. QED
  BY <1>1, <1>2

\* A run's own step leaves it holding the lock where it writes, and with the record it
\* proved the swap against until the rename.
LEMMA WriterMoves ==
    ASSUME LockTypeOK, BindInv, WriterInv, [Next]_vars, NEW p \in Procs, RunStep(p)
    PROVE  WriterOf(p, run'[p], lock', record')
<1>0. /\ run \in [Procs -> Runs] /\ run[p] \in Runs /\ WriterOf(p, run[p], lock, record)
      /\ run[p].at = "unlock" => run[p].after \in Afters
  BY WriterParts, OfRun DEF BindInv, RunInv, Writing
<1>. USE DEF WriterOf, Writing, Placed
<1>e. CASE run'[p].at \notin Writing
  BY <1>e
<1>1. CASE Inspect(p) \/ ObserveBoundMachine(p) \/ CreateBinding(p) \/ GetAuthority(p)
           \/ Compare(p) \/ AttachUnsynced(p) \/ Pull(p) \/ Commit(p) \/ SaveCheckpoint(p)
           \/ Confirm(p) \/ StartSync(p) \/ ResumeSync(p) \/ End(p)
           \/ AcquireWriterLock(p) \/ WriterBusy(p)
  <2>0. Fail(p) \/ Goto(p, "live") => run'[p].at \notin Writing
    BY <1>0, GotoAt
  <2>1. CASE Inspect(p) \/ ObserveBoundMachine(p) \/ CreateBinding(p) \/ GetAuthority(p)
    <3>1. CASE Inspect(p)
      <4>1. ~Fail(p) => run'[p].at \in {"create", "authority", "observe"}
        BY <1>0, <3>1 DEF Inspect, Runs
      <4>. QED  BY <2>0, <4>1
    <3>2. CASE CreateBinding(p)
      <4>1. ~Fail(p) => run'[p].at \in {"compare", "persist"}
        <5>. DEFINE m == run[p].machine
                    taken == [run[p] EXCEPT !.active = head[m]]
                    c == IF run[p].seen = NoRecord THEN [taken EXCEPT !.at = "compare"]
                         ELSE [taken EXCEPT !.at = "persist", !.draft = head[m],
                                            !.rebind = TRUE, !.after = "compare"]
        <5>1. run[p].at = "create" /\ (~Fail(p) => run' = [run EXCEPT ![p] = c])
          BY <3>2 DEF CreateBinding
        <5>2. head[m] \in Gens
          BY <5>1, OfRun
        <5>3. c.at \in {"compare", "persist"}
          BY <1>0, <5>2 DEF Runs
        <5>. HIDE DEF c
        <5>. QED  BY <1>0, <5>1, <5>3
      <4>. QED  BY <2>0, <4>1
    <3>3. CASE ObserveBoundMachine(p) \/ GetAuthority(p)
      BY <1>0, <2>0, <3>3, GotoAt DEF ObserveBoundMachine, GetAuthority, Runs
    <3>. QED  BY <2>1, <3>1, <3>2, <3>3
  <2>2. CASE Compare(p) \/ AttachUnsynced(p) \/ Pull(p) \/ Commit(p)
    BY <1>0, <2>0, <2>2, GotoAt DEF Compare, AttachUnsynced, Pull, Commit, RecordPublished, Persist, Runs
  <2>3. CASE SaveCheckpoint(p) \/ Confirm(p) \/ StartSync(p) \/ ResumeSync(p) \/ End(p)
             \/ AcquireWriterLock(p) \/ WriterBusy(p)
    BY <1>0, <2>0, <2>3, GotoAt DEF SaveCheckpoint, Confirm, StartSync, ResumeSync, End,
       AcquireWriterLock, WriterBusy, Persist, Runs
  <2>. QED  BY <1>1, <1>e, <2>1, <2>2, <2>3
<1>2. CASE ProveSwap(p)
  <2>1. /\ lock' = lock /\ record' = record /\ lock[p][Folder].at = "held"
        /\ run'[p].at = "image" => run[p].seen = record /\ run'[p].seen = run[p].seen
        /\ run'[p].at \in {"image", "unlock"}
    BY <1>0, <1>2 DEF ProveSwap, SwapAllowed, Goto, Unlock, Holds, At, lockVars, Runs
  <2>. QED  BY <2>1
<1>3. CASE WriteImage(p) \/ VerifyUnchanged(p) \/ RenameImage(p) \/ ReadBack(p)
  <2>1. /\ lock' = lock /\ run[p].at \in Writing
        /\ run'[p].at \in Placed =>
             run[p].at \in Placed /\ run'[p].seen = run[p].seen /\ record' = record
    BY <1>0, <1>3 DEF WriteImage, VerifyUnchanged, RenameImage, ReadBack, Goto, Unlock, lockVars, Runs
  <2>. QED  BY <1>0, <2>1
<1>4. CASE ReleaseWriterLock(p)
  <2>1. run'[p].at \notin Writing
    BY <1>0, <1>4, GotoAt DEF ReleaseWriterLock, Afters
  <2>. QED  BY <1>e, <2>1
<1>5. CASE LockGoesOn(p)
  <2>1. run' = run /\ record' = record
    BY <1>5 DEF LockGoesOn
  <2>2. Holds(p, Folder) => lock'[p][Folder].at = "held"
    BY <1>5, Bounds, HoldStays DEF LockGoesOn, Holds, At, LockStep, Release, Bind, Listening,
              AddressInUse, SocketIsActive, StatStale, RemoveStale, Closed
  <2>. QED  BY <1>0, <2>1, <2>2 DEF Holds, At
<1>. QED
  BY <1>1, <1>2, <1>3, <1>4, <1>5 DEF RunStep

\* Nothing that others do takes the lock or the record from a writer.
LEMMA WriterUndisturbed ==
    ASSUME LockTypeOK, MutualExclusion, BindInv, WriterInv, [Next]_vars, NEW q \in Procs,
           run'[q] = run[q]
    PROVE  WriterOf(q, run'[q], lock', record')
<1>. SUFFICES ASSUME run[q].at \in Writing PROVE WriterOf(q, run'[q], lock', record')
  BY DEF WriterOf, Writing
<1>0. /\ Holds(q, Folder) /\ run \in [Procs -> Runs]
      /\ run[q].at \in Placed => run[q].seen = record
      /\ run[q].at # "ended" /\ run[q].at # "live"
      /\ run[q].at = "unlock" => run[q].after \in Afters
  BY OfRun DEF WriterInv, BindInv, Writing, Placed, RunInv
<1>1. ~ReleaseWriterLock(q) /\ ~Crash(q)
  BY <1>0, GotoAt DEF ReleaseWriterLock, Crash, Afters, Writing, Placed
<1>2. lock'[q][Folder].at = "held"
  BY <1>0, <1>1, WriterHolds
<1>3. run[q].at \in Placed => record' = record
  <2>. SUFFICES ASSUME run[q].at \in Placed, record' # record PROVE FALSE
    OBVIOUS
  <2>1. ASSUME NEW p \in Procs, RenameImage(p), record' = Image(p) PROVE FALSE
    <3>1. run[p].at = "rename" /\ Holds(p, Folder)
      BY <2>1 DEF RenameImage, WriterInv, Writing, Placed
    <3>2. p = q
      BY <1>0, <3>1, Bounds DEF MutualExclusion
    <3>3. run'[p].at # "rename"
      BY <1>0, <2>1, GotoAt DEF RenameImage, Unlock, Runs
    <3>. QED  BY <3>1, <3>2, <3>3
  <2>2. ASSUME DeleteRecord PROVE FALSE
    BY <1>0, <2>2 DEF DeleteRecord
  <2>. QED  BY <2>1, <2>2, OnlyRenameWrites
<1>. QED
  BY <1>0, <1>2, <1>3 DEF WriterOf

\* Every step keeps it, wherever the lock excludes.
LEMMA WriterStep ==
    ASSUME LockTypeOK, MutualExclusion, BindInv, WriterInv, [Next]_vars
    PROVE  WriterInv'
<1>. SUFFICES ASSUME NEW q \in Procs PROVE WriterOf(q, run'[q], lock', record')
  BY WriterParts
<1>1. CASE run'[q] = run[q]
  BY <1>1, WriterUndisturbed
<1>2. CASE run'[q] # run[q]
  <2>0. run \in [Procs -> Runs]
    BY DEF BindInv
  <2>1. PICK p \in Procs : RunStep(p) \/ LivePull(p) \/ LiveCommit(p) \/ Crash(p)
                              \/ \E m \in Machines : Start(p, m)
    BY <1>2 DEF Next, vars, Edit, DeleteRecord, MachinePublishes, MachineGone
  <2>2. p = q
    BY <1>2, <2>1, OneRunMoves
  <2>3. CASE RunStep(q)
    BY <2>3, WriterMoves
  <2>4. CASE LivePull(q) \/ LiveCommit(q)
    BY <1>2, <2>4 DEF LivePull, LiveCommit
  <2>5. CASE Crash(q) \/ \E m \in Machines : Start(q, m)
    <3>1. run'[q].at \in {"ended", "inspect"}
      BY <2>0, <2>5, GotoAt DEF Crash, Start, Ended
    <3>. QED  BY <3>1 DEF WriterOf, Writing, Placed
  <2>. QED  BY <2>1, <2>2, <2>3, <2>4, <2>5
<1>. QED
  BY <1>1, <1>2

\* Where the names are pipes the writers' invariant holds throughout.
LEMMA WritersApart ==
    ASSUME Platform = "win32"
    PROVE  Spec => []WriterInv
<1>1. Init => WriterInv
  BY DEF Init, WriterInv, Ended, Writing, Placed
<1>. QED
  BY <1>1, WriterStep, RunsInOrder, RunsUseTheLock, LockTypeCorrect, PipesExclude, PTL DEF Spec

\* Over a named pipe no update of the record is lost: a writer replaces exactly the
\* record its run had read (assertCompareAndSwap of src/workspace/binding-store.ts),
\* whatever other runs, crashes and the person's deletion do in between.
THEOREM UpdatesAreNotLost ==
    ASSUME Platform = "win32"
    PROVE  Spec => NoLostUpdate
<1>1. BindInv /\ WriterInv /\ [Next]_vars
        => [record' \notin {record, NoRecord} =>
              /\ record'.rev = record.rev + 1
              /\ \E p \in Procs : run[p].at = "rename" /\ run[p].seen = record]_vars
  <2>. SUFFICES ASSUME WriterInv, [Next]_vars, record' \notin {record, NoRecord}
                PROVE  /\ record'.rev = record.rev + 1
                       /\ \E p \in Procs : run[p].at = "rename" /\ run[p].seen = record
    OBVIOUS
  <2>1. PICK p \in Procs : RenameImage(p) /\ record' = Image(p)
    BY OnlyRenameWrites DEF DeleteRecord
  <2>2. run[p].at = "rename" /\ run[p].seen = record
    BY <2>1 DEF RenameImage, WriterInv, Placed
  <2>. QED  BY <2>1, <2>2 DEF Image
<1>. QED
  BY <1>1, RunsInOrder, WritersApart, PTL DEF Spec, NoLostUpdate

\* Over a named pipe the record leaves a Machine only when that Machine is gone: the
\* observation and the swap, many steps later, are about the same record.
THEOREM OnlyGoneMachinesAreLeft ==
    ASSUME Platform = "win32"
    PROVE  Spec => RebindOnlyWhenGone
<1>1. BindInv /\ WriterInv /\ [Next]_vars
        => [record # NoRecord /\ record' # NoRecord /\ record'.machine # record.machine
              => record.machine \in gone]_vars
  <2>. SUFFICES ASSUME BindInv, WriterInv, [Next]_vars, record # NoRecord, record' # NoRecord,
                       record'.machine # record.machine
                PROVE  record.machine \in gone
    OBVIOUS
  <2>1. PICK p \in Procs : RenameImage(p) /\ record' = Image(p)
    BY OnlyRenameWrites DEF DeleteRecord
  <2>2. run[p].at = "rename" /\ run[p].seen = record /\ record'.machine = run[p].machine
    BY <2>1 DEF RenameImage, WriterInv, Placed, Image
  <2>. QED  BY <2>2, OfRun DEF RunInv
<1>. QED
  BY <1>1, RunsInOrder, WritersApart, PTL DEF Spec, RebindOnlyWhenGone

\* Over a named pipe what the record says is so: the generation it names was taken
\* into the folder before the record named it, unless a rebind named the new binding's
\* head; and a bound run claims what the folder holds.
THEOREM RecordsAreTrue ==
    ASSUME Platform = "win32"
    PROVE  Spec => RecordsTrue
<1>1. BindInv /\ WriterInv /\ [Next]_vars
        => [record' \notin {record, NoRecord} /\ record.machine \in {NoOne, record'.machine}
              => record'.gen <= held[record'.machine]]_vars
  <2>. SUFFICES ASSUME BindInv, WriterInv, [Next]_vars, record' \notin {record, NoRecord},
                       record.machine \in {NoOne, record'.machine}
                PROVE  record'.gen <= held[record'.machine]
    OBVIOUS
  <2>1. PICK p \in Procs : RenameImage(p) /\ record' = Image(p)
    BY OnlyRenameWrites DEF DeleteRecord
  <2>2. /\ run[p].at = "rename" /\ run[p].seen = record
        /\ record'.machine = run[p].machine /\ record'.gen = run[p].draft
    BY <2>1 DEF RenameImage, WriterInv, Placed, Image
  <2>3. ASSUME run[p].rebind PROVE FALSE
    <3>1. record # NoRecord /\ record.machine # run[p].machine
      BY <2>2, <2>3, OfRun DEF RunInv, Placed
    <3>2. record.machine \in Machines
      BY <3>1 DEF BindInv, StateInv
    <3>. QED  BY <2>2, <3>1, <3>2, MachinesAssumption
  <2>. QED  BY <2>2, <2>3, OfRun DEF RunInv, Proven, Placed
<1>. QED
  BY <1>1, RunsInOrder, WritersApart, BindingTypeCorrect, BoundClaimsAreHeld, PTL
     DEF Spec, RecordsTrue, RecordTruthful

\* What a run sees of the writer lock is the abstract exclusive lock.
THEOREM WritersLockExclusively ==
    ASSUME Platform = "win32"
    PROVE  Spec => LockIsExclusive
BY RunsUseTheLock, PipesImplementExclusiveLock, PTL

=============================================================================
