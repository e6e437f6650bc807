------------------------- MODULE HumanSessionProofs -------------------------
(***************************************************************************)
(* Proofs about HumanSession for any processes, calls, codes and bearers:  *)
(* what is gone stays gone, no code is exchanged needlessly, and a session *)
(* leaves the disk only by a process whose last read was of it.            *)
(***************************************************************************)
EXTENDS HumanSession, TLAPS

-----------------------------------------------------------------------------
(* The inductive invariant *)

CallType == [at : CallPlaces, rej : 0..MaxBearers, retry : BOOLEAN, on : 0..Width,
             tok : 0..MaxBearers, env : Envelopes]
MemType == [mode : {"work", "logout"}, tok : 0..MaxBearers, rev : Nat, fence : Envelopes,
            revoked : BOOLEAN, current : 0..Width, probed : BOOLEAN]
FlightType == [at : FlightPlaces, owner : 0..Width, forget : BOOLEAN, waiters : SUBSET Calls,
               env : Envelopes, next : Envelopes, terminal : BOOLEAN]

Issued(b) == bearer[b].fam # 0

\* An envelope that was stored: of a login code the server knows, and its bearer is of that code.
Sound(e) ==
    /\ e \in Envelopes /\ e.rev > 0 /\ e.fam \in Families /\ family[e.fam] # "none"
    /\ e.tok # 0 => bearer[e.tok].fam = e.fam

\* Where a call is neither with the vault nor done: it has its process to itself.
OwnPlaces == {"browser", "swap", "settle", "cleanup", "erase", "remove"}

\* The refresh lock is of one process at a time.
OneRefreshAtATime ==
    \A p, q \in Procs : Refreshing(p) /\ Refreshing(q) => p = q

\* The refresh of p has read what is stored.
HasRead(p) == flight[p].at \in {"exchange", "write", "settle", "reject"}

\* What the refresh of a process knows.
FlightInv(p) ==
    LET fl == flight[p] IN
    /\ fl.at # "none" => fl.owner \in fl.waiters /\ \A i \in fl.waiters : call[p][i].at = "wait"
    /\ fl.at # "none" /\ mem[p].mode = "logout" => fl.waiters = {1} /\ fl.owner = 1
    /\ fl.forget => mem[p].mode = "logout" /\ fl.at \notin {"exchange", "reject"}
    /\ HasRead(p) => Sound(fl.env)
    /\ fl.at \in {"write", "settle"} =>
          /\ Sound(fl.next) /\ fl.next.fam = fl.env.fam
          /\ fl.forget => fl.next.tok = 0 /\ fl.env.tok # 0
          /\ ~fl.forget => fl.next.tok # 0 /\ fl.next.tok # call[p][fl.owner].rej

\* What a call knows.
CallInv(p, i) ==
    LET c == call[p][i] IN
    /\ c.rej # 0 => Issued(c.rej)
    /\ c.at = "join" => c.rej = 0
    /\ c.at = "have" => c.tok # 0 /\ c.tok # c.rej
    /\ c.at \in OwnPlaces =>
          i = 1 /\ flight[p].at = "none" /\ \A j \in Calls \ {1} : call[p][j].at = "idle"
    /\ c.at \in {"browser", "swap", "settle", "cleanup"} => mem[p].mode = "work"
    /\ c.at = "remove" => mem[p].mode = "logout"
    /\ c.at \in {"swap", "settle", "cleanup", "erase", "remove"} => c.tok # 0
    /\ c.at \in {"cleanup", "remove"} => c.env.rev > 0

\* What a process that signs out knows of the session it is about.
LogoutInv(p) ==
    LET c == call[p][1]
        m == mem[p] IN
    /\ m.mode = "work" => m.fence = NoEnvelope
    /\ m.mode = "logout" =>
          /\ c.at \in {"wait", "have", "remove", "erase"}
          /\ \A j \in Calls \ {1} : call[p][j].at = "idle"
          /\ c.at = "wait" => m.fence = NoEnvelope
          /\ c.at = "have" => m.rev > 0 /\ (m.fence = NoEnvelope \/ (m.fence.rev = m.rev /\ m.fence.fam = bearer[c.tok].fam))
          /\ c.at = "remove" => /\ family[bearer[c.tok].fam] = "revoked"
                                /\ m.fence = NoEnvelope \/ m.fence.fam = bearer[c.tok].fam

Local(p) == FlightInv(p) /\ (\A i \in Calls : CallInv(p, i)) /\ LogoutInv(p)

DiskInv ==
    /\ disk.env = NoEnvelope \/ Sound(disk.env)
    /\ disk.key = "empty" => disk.env = NoEnvelope

\* The server knows every login code a bearer or a report is about.
Known ==
    /\ \A b \in Bearers : Issued(b) => family[bearer[b].fam] # "none"
    /\ \A f \in closed : family[f] # "none"
    /\ \A b \in forgotten : Issued(b)

\* Nobody else has the session that a sign-in is about to store.
NewSession(p) ==
    One(p).at = "swap" =>
        LET b == One(p).tok
            f == bearer[One(p).tok].fam IN
        /\ disk.env.fam # f /\ f \notin closed /\ b \notin forgotten
        /\ \A c \in Bearers \ {b} : bearer[c].fam # f
        /\ \A q \in Procs :
              /\ mem[q].tok # b
              /\ HasRead(q) => flight[q].env.fam # f
              /\ \A i \in Calls : call[q][i].tok = b => q = p /\ i = 1

\* Nobody forgot the bearer that a refresh is about to store.
NewBearer(p) == flight[p].at = "write" => flight[p].next.tok \notin forgotten

SessionInv ==
    /\ TypeOK /\ DiskInv /\ Known /\ OneRefreshAtATime
    /\ RemovedStaysGone /\ ForgottenStaysGone
    /\ \A p \in Procs : Local(p) /\ NewSession(p) /\ NewBearer(p)

-----------------------------------------------------------------------------
(* What a step leaves alone *)

\* The step is one of process p.
Others(p) ==
    \A q \in Procs \ {p} : mem'[q] = mem[q] /\ call'[q] = call[q] /\ flight'[q] = flight[q]

\* What the server knows only grows, and a revoked family stays so.
ServerMoves ==
    /\ \A b \in Bearers : Issued(b) => bearer'[b].fam = bearer[b].fam
    /\ \A f \in Families : /\ family[f] # "none" => family'[f] # "none"
                           /\ family[f] = "revoked" => family'[f] = "revoked"

Typed ==
    /\ disk \in [env : Envelopes, key : {"none", "empty", "ok"}]
    /\ family \in [Families -> {"none", "live", "revoked"}]
    /\ lapsed \in SUBSET Families
    /\ bearer \in [Bearers -> [fam : 0..MaxLogins, age : 0..2, refused : BOOLEAN]]
    /\ mem \in [Procs -> MemType]
    /\ call \in [Procs -> [Calls -> CallType]]
    /\ flight \in [Procs -> FlightType]
    /\ closed \in SUBSET Families /\ forgotten \in SUBSET Bearers
    /\ events \in 0..MaxEvents

\* Only issued bearers are anywhere.
OnlyIssued ==
    /\ disk.env.tok # 0 => Issued(disk.env.tok)
    /\ \A p \in Procs : /\ mem[p].tok # 0 => Issued(mem[p].tok)
                        /\ \A i \in Calls : call[p][i].tok # 0 => Issued(call[p][i].tok)

LEMMA Domains ==
    /\ MaxLogins \in Nat /\ MaxBearers \in Nat /\ Width \in Nat \ {0}
    /\ Families \subseteq 0..MaxLogins /\ 0 \notin Families /\ 0..MaxLogins = Families \cup {0}
    /\ Bearers \subseteq 0..MaxBearers /\ 0 \notin Bearers /\ 0..MaxBearers = Bearers \cup {0}
    /\ Calls \subseteq 0..Width /\ 0 \notin Calls /\ 0..Width = Calls \cup {0} /\ 1 \in Calls
BY BoundsAssumption DEF Families, Bearers, Calls

\* The two ways to state the types.
LEMMA TypeParts == TypeOK <=> Typed /\ OnlyIssued
<1>. USE Domains
<1>1. ASSUME Typed
      PROVE  /\ disk.env.tok \in 0..MaxBearers
             /\ \A p \in Procs : /\ mem[p].tok \in 0..MaxBearers
                                 /\ \A i \in Calls : call[p][i].tok \in 0..MaxBearers
  BY <1>1 DEF Typed, MemType, CallType, Envelopes
<1>2. TypeOK => Typed
  BY DEF TypeOK, Typed, MemType, CallType, FlightType
<1>3. ASSUME Typed
      PROVE  OnlyIssued <=> \A b \in Bearers : bearer[b].fam = 0 =>
               disk.env.tok # b /\ \A p \in Procs : mem[p].tok # b /\ \A i \in Calls : call[p][i].tok # b
  <2>1. ASSUME OnlyIssued
        PROVE  \A b \in Bearers : bearer[b].fam = 0 =>
               disk.env.tok # b /\ \A p \in Procs : mem[p].tok # b /\ \A i \in Calls : call[p][i].tok # b
    <3>. SUFFICES ASSUME NEW b \in Bearers, bearer[b].fam = 0
                  PROVE  disk.env.tok # b /\ \A p \in Procs : mem[p].tok # b /\ \A i \in Calls : call[p][i].tok # b
      OBVIOUS
    <3>1. b # 0 /\ ~Issued(b)
      BY DEF Issued
    <3>. QED  BY <2>1, <3>1 DEF OnlyIssued
  <2>2. ASSUME \A b \in Bearers : bearer[b].fam = 0 =>
               disk.env.tok # b /\ \A p \in Procs : mem[p].tok # b /\ \A i \in Calls : call[p][i].tok # b
        PROVE  OnlyIssued
    BY <2>2, <1>1, <1>3 DEF OnlyIssued, Issued
  <2>. QED  BY <2>1, <2>2
<1>. QED  BY <1>2, <1>3 DEF TypeOK, Typed, MemType, CallType, FlightType

\* What is stored stays what it is.
LEMMA SoundStays ==
    ASSUME Typed, ServerMoves, NEW e, Sound(e)
    PROVE  Sound(e)'
<1>. USE Domains
<1>1. e \in Envelopes /\ e.rev > 0 /\ e.fam \in Families /\ e.tok \in 0..MaxBearers
  BY DEF Sound, Envelopes
<1>2. family'[e.fam] # "none"
  BY <1>1 DEF Sound, ServerMoves
<1>3. e.tok # 0 => bearer'[e.tok].fam = e.fam
  BY <1>1 DEF Sound, ServerMoves, Issued
<1>. QED  BY <1>1, <1>2, <1>3 DEF Sound

\* What the calls of q know stays so while they are where they are.
LEMMA FrameCalls ==
    ASSUME SessionInv, ServerMoves, NEW q \in Procs, call'[q] = call[q],
           mem'[q].mode = mem[q].mode, mem'[q].rev = mem[q].rev, mem'[q].fence = mem[q].fence,
           flight'[q].at # "none" => flight[q].at # "none"
    PROVE  LogoutInv(q)' /\ \A i \in Calls : CallInv(q, i)'
<1>. USE Domains
<1>1. Typed /\ OnlyIssued /\ Local(q) /\ Known
  BY TypeParts DEF SessionInv
<1>4. ASSUME NEW i \in Calls
      PROVE  CallInv(q, i)'
  <2>1. call[q][i].rej \in 0..MaxBearers
    BY <1>1 DEF Typed, CallType
  <2>2. call[q][i].rej # 0 => Issued(call[q][i].rej)'
    BY <1>1, <2>1 DEF Local, CallInv, ServerMoves, Issued
  <2>. QED  BY <1>1, <2>2 DEF Local, CallInv
<1>5. call[q][1].tok \in 0..MaxBearers /\ (call[q][1].tok # 0 => bearer'[call[q][1].tok].fam = bearer[call[q][1].tok].fam
                                                  /\ bearer[call[q][1].tok].fam \in Families)
  <2>1. call[q][1].tok \in 0..MaxBearers
    BY <1>1 DEF Typed, CallType
  <2>2. \A b \in Bearers : bearer[b].fam \in 0..MaxLogins
    BY <1>1 DEF Typed
  <2>. QED  BY <1>1, <2>1, <2>2 DEF OnlyIssued, Issued, ServerMoves
<1>6. call[q][1].at \in {"have", "remove"} => call[q][1].tok # 0
  BY <1>1 DEF Local, CallInv
<1>7. LogoutInv(q)'
  BY <1>1, <1>5, <1>6 DEF Local, LogoutInv, ServerMoves
<1>. QED  BY <1>4, <1>7

\* What q knows is still so after a step of another process, of the server or of time.
LEMMA FrameLocal ==
    ASSUME SessionInv, ServerMoves, NEW q \in Procs,
           mem'[q] = mem[q], call'[q] = call[q], flight'[q] = flight[q]
    PROVE  Local(q)'
<1>1. Typed /\ Local(q)
  BY TypeParts DEF SessionInv
<1>2. \A e : Sound(e) => Sound(e)'
  BY <1>1, SoundStays
<1>3. FlightInv(q)'
  BY <1>1, <1>2 DEF Local, FlightInv, Refreshing, HasRead
<1>. QED  BY <1>3, FrameCalls DEF Local

-----------------------------------------------------------------------------
(* What a step brings about *)

\* No other process is about to store a sign-in of family f.
Foreign(p, f) == \A q \in Procs \ {p} : One(q).at = "swap" => bearer[One(q).tok].fam # f

\* The bearer b, which p has after the step, is of no sign-in of another process.
Clean(p, b) ==
    /\ b \in 0..MaxBearers
    /\ b # 0 => bearer'[b].fam # 0 /\ Foreign(p, bearer'[b].fam)

\* A step of p that leaves p in a state it knows its way in.
ProcStep(p) ==
    /\ mem' \in [Procs -> MemType] /\ call' \in [Procs -> [Calls -> CallType]]
    /\ flight' \in [Procs -> FlightType]
    /\ Others(p) /\ Local(p)'
    /\ Clean(p, mem'[p].tok) /\ \A i \in Calls : Clean(p, call'[p][i].tok)
    /\ HasRead(p)' => Foreign(p, flight'[p].env.fam)

\* A step of p has nothing to do with the sign-ins of others.
Modest(p) ==
    /\ Foreign(p, disk'.env.fam)
    /\ \A f \in closed' : f \in closed \/ Foreign(p, f)
    /\ \A b \in forgotten' : b \in forgotten \/ Foreign(p, bearer[b].fam)
    /\ \A b \in Bearers : bearer'[b].fam # bearer[b].fam => Foreign(p, bearer'[b].fam)

\* What was there before a step, in the vocabulary of the steps below.
LEMMA Before ==
    ASSUME SessionInv
    PROVE  /\ Typed /\ OnlyIssued /\ DiskInv /\ Known
           /\ \A p \in Procs : /\ Local(p) /\ NewSession(p) /\ NewBearer(p)
                               /\ mem[p] \in MemType /\ flight[p] \in FlightType
                               /\ mem[p].tok \in 0..MaxBearers
                               /\ \A i \in Calls : call[p][i] \in CallType /\ call[p][i].tok \in 0..MaxBearers
           /\ \A b \in Bearers : /\ bearer[b].fam \in 0..MaxLogins
                                 /\ Issued(b) => bearer[b].fam \in Families
<1>. USE Domains
<1>1. Typed /\ OnlyIssued /\ DiskInv /\ Known /\ \A p \in Procs : Local(p) /\ NewSession(p) /\ NewBearer(p)
  BY TypeParts DEF SessionInv
<1>2. \A p \in Procs : mem[p] \in MemType /\ flight[p] \in FlightType /\ \A i \in Calls : call[p][i] \in CallType
  BY <1>1 DEF Typed
<1>3. \A p \in Procs : mem[p].tok \in 0..MaxBearers /\ \A i \in Calls : call[p][i].tok \in 0..MaxBearers
  BY <1>2 DEF MemType, CallType
<1>4. \A b \in Bearers : bearer[b].fam \in 0..MaxLogins
  BY <1>1 DEF Typed
<1>5. \A b \in Bearers : Issued(b) => bearer[b].fam \in Families
  BY <1>4 DEF Issued
<1>. QED  BY <1>1, <1>2, <1>3, <1>4, <1>5

\* The session that a sign-in is about to store has a bearer of its own.
LEMMA SwapHasBearer ==
    ASSUME SessionInv, NEW q \in Procs, One(q).at = "swap"
    PROVE  One(q).tok \in Bearers /\ Issued(One(q).tok) /\ bearer[One(q).tok].fam \in Families
<1>. USE Domains
<1>1. One(q).tok # 0 /\ One(q).tok \in 0..MaxBearers
  BY Before DEF Local, CallInv, One
<1>2. Issued(One(q).tok)
  BY <1>1, Before DEF OnlyIssued, One
<1>. QED  BY <1>1, <1>2, Before

\* What p and the disk have is of no other process's sign-in.
LEMMA OldIsForeign ==
    ASSUME SessionInv, NEW p \in Procs
    PROVE  /\ Foreign(p, 0) /\ Foreign(p, disk.env.fam)
           /\ \A f \in Families : family[f] = "none" => Foreign(p, f)
           /\ mem[p].tok # 0 => Foreign(p, bearer[mem[p].tok].fam)
           /\ \A i \in Calls : call[p][i].tok # 0 => Foreign(p, bearer[call[p][i].tok].fam)
           /\ HasRead(p) => Foreign(p, flight[p].env.fam)
<1>. USE Domains
<1>1. ASSUME NEW q \in Procs \ {p}, One(q).at = "swap"
      PROVE  LET f == bearer[One(q).tok].fam IN
             /\ f # 0 /\ f # disk.env.fam
             /\ f \in Families /\ family[f] # "none"
             /\ mem[p].tok # 0 => f # bearer[mem[p].tok].fam
             /\ \A i \in Calls : call[p][i].tok # 0 => f # bearer[call[p][i].tok].fam
             /\ HasRead(p) => f # flight[p].env.fam
  <2>1. One(q).tok \in Bearers /\ Issued(One(q).tok) /\ bearer[One(q).tok].fam \in Families
    BY <1>1, SwapHasBearer
  <2>2. NewSession(q)
    BY Before
  <2>3. mem[p].tok \in 0..MaxBearers /\ mem[p].tok # One(q).tok
    BY <1>1, <2>2, Before DEF NewSession
  <2>4. \A i \in Calls : call[p][i].tok \in 0..MaxBearers /\ call[p][i].tok # One(q).tok
    BY <1>1, <2>2, Before DEF NewSession
  <2>5. \A c \in Bearers : c # One(q).tok => bearer[c].fam # bearer[One(q).tok].fam
    BY <1>1, <2>2 DEF NewSession
  <2>6. disk.env.fam # bearer[One(q).tok].fam /\ (HasRead(p) => flight[p].env.fam # bearer[One(q).tok].fam)
    BY <1>1, <2>2 DEF NewSession
  <2>7. family[bearer[One(q).tok].fam] # "none"
    BY <2>1, Before DEF Known
  <2>. QED  BY <2>1, <2>3, <2>4, <2>5, <2>6, <2>7
<1>. QED  BY <1>1 DEF Foreign

\* Nothing p had becomes somebody's by a step that only lets the server move.
LEMMA OldIsClean ==
    ASSUME SessionInv, ServerMoves, NEW p \in Procs
    PROVE  /\ Clean(p, 0) /\ Clean(p, mem[p].tok)
           /\ \A i \in Calls : Clean(p, call[p][i].tok)
<1>. USE Domains
<1>1. ASSUME NEW b \in 0..MaxBearers, b # 0 => Issued(b) /\ Foreign(p, bearer[b].fam)
      PROVE  Clean(p, b)
  BY <1>1 DEF Clean, ServerMoves, Issued
<1>2. mem[p].tok \in 0..MaxBearers /\ (mem[p].tok # 0 => Issued(mem[p].tok) /\ Foreign(p, bearer[mem[p].tok].fam))
  BY Before, OldIsForeign DEF OnlyIssued
<1>3. ASSUME NEW i \in Calls
      PROVE  call[p][i].tok \in 0..MaxBearers /\ (call[p][i].tok # 0 => Issued(call[p][i].tok) /\ Foreign(p, bearer[call[p][i].tok].fam))
  BY Before, OldIsForeign DEF OnlyIssued
<1>4. Clean(p, mem[p].tok) /\ \A i \in Calls : Clean(p, call[p][i].tok)
  BY <1>1, <1>2, <1>3
<1>. QED  BY <1>4 DEF Clean

\* The sign-ins of the other processes are still theirs alone.
LEMMA NewSessionOfOthers ==
    ASSUME SessionInv, ServerMoves, NEW p \in Procs, ProcStep(p), Modest(p), NEW q \in Procs \ {p}
    PROVE  NewSession(q)'
<1>. USE Domains
<1>. DEFINE b == One(q).tok
            f == bearer[One(q).tok].fam
<1>. SUFFICES ASSUME One(q)'.at = "swap"
              PROVE  LET c == One(q)'.tok
                         g == bearer'[One(q)'.tok].fam IN
                     /\ disk'.env.fam # g /\ g \notin closed' /\ c \notin forgotten'
                     /\ \A d \in Bearers \ {c} : bearer'[d].fam # g
                     /\ \A r \in Procs :
                           /\ mem'[r].tok # c
                           /\ HasRead(r)' => flight'[r].env.fam # g
                           /\ \A i \in Calls : call'[r][i].tok = c => r = q /\ i = 1
  BY DEF NewSession
<1>1. One(q)' = One(q) /\ One(q).at = "swap"
  BY DEF ProcStep, Others, One
<1>2. b \in Bearers /\ Issued(b) /\ f \in Families /\ bearer'[b].fam = f
  BY <1>1, SwapHasBearer DEF ServerMoves
<1>3. NewSession(q) /\ \A g : Foreign(p, g) => g # f
  BY <1>1, Before DEF Foreign
<1>4. disk'.env.fam # f /\ f \notin closed' /\ b \notin forgotten'
  BY <1>1, <1>2, <1>3 DEF NewSession, Modest
<1>5. ASSUME NEW d \in Bearers \ {b}  PROVE bearer'[d].fam # f
  BY <1>1, <1>2, <1>3 DEF NewSession, Modest
<1>6. mem'[p].tok # b /\ (HasRead(p)' => flight'[p].env.fam # f) /\ \A i \in Calls : call'[p][i].tok # b
  <2>1. ~Clean(p, b)
    BY <1>2, <1>3 DEF Clean
  <2>. QED  BY <2>1, <1>3 DEF ProcStep
<1>7. ASSUME NEW r \in Procs \ {p}
      PROVE  /\ mem'[r].tok # b
             /\ HasRead(r)' => flight'[r].env.fam # f
             /\ \A i \in Calls : call'[r][i].tok = b => r = q /\ i = 1
  <2>1. mem'[r] = mem[r] /\ call'[r] = call[r] /\ flight'[r] = flight[r] /\ (HasRead(r)' <=> HasRead(r))
    BY DEF ProcStep, Others, Refreshing, HasRead
  <2>. QED  BY <1>1, <1>3, <2>1 DEF NewSession
<1>. QED  BY <1>1, <1>2, <1>4, <1>5, <1>6, <1>7

\* A step of p keeps the invariant if it keeps what p, the disk and the server are about.
LEMMA StepKeeps ==
    ASSUME SessionInv, ServerMoves, NEW p \in Procs, ProcStep(p), Modest(p),
           Typed', DiskInv', Known', RemovedStaysGone', ForgottenStaysGone',
           NewSession(p)', NewBearer(p)',
           Refreshing(p)' => Refreshing(p) \/ LockFree,
           forgotten' = forgotten \/ Refreshing(p)
    PROVE  SessionInv'
<1>. USE Domains
<1>1. ASSUME NEW q \in Procs \ {p}
      PROVE  Local(q)' /\ NewSession(q)' /\ NewBearer(q)' /\ (Refreshing(q)' <=> Refreshing(q))
  <2>1. mem'[q] = mem[q] /\ call'[q] = call[q] /\ flight'[q] = flight[q]
    BY DEF ProcStep, Others
  <2>2. Local(q)' /\ NewSession(q)'
    BY <2>1, FrameLocal, NewSessionOfOthers
  <2>3. Refreshing(p) => ~Refreshing(q)
    BY DEF SessionInv, OneRefreshAtATime
  <2>4. NewBearer(q)'
    BY <2>1, <2>3, Before DEF NewBearer, Refreshing, HasRead
  <2>. QED  BY <2>1, <2>2, <2>4 DEF Refreshing, HasRead
<1>2. OneRefreshAtATime'
  BY <1>1 DEF SessionInv, OneRefreshAtATime, LockFree
<1>3. OnlyIssued'
  <2>1. disk'.env.tok # 0 => Issued(disk.env.tok)'
    <3>1. disk'.env = NoEnvelope \/ (disk'.env.tok # 0 => bearer'[disk'.env.tok].fam = disk'.env.fam /\ disk'.env.fam \in Families)
      BY DEF DiskInv, Sound
    <3>. QED  BY <3>1 DEF NoEnvelope, Issued
  <2>2. ASSUME NEW q \in Procs
        PROVE  /\ mem'[q].tok # 0 => Issued(mem[q].tok)'
               /\ \A i \in Calls : call'[q][i].tok # 0 => Issued(call[q][i].tok)'
    <3>1. CASE q = p
      BY <3>1 DEF ProcStep, Clean, Issued
    <3>2. CASE q # p
      <4>1. mem'[q] = mem[q] /\ call'[q] = call[q]
        BY <3>2 DEF ProcStep, Others
      <4>2. /\ mem[q].tok \in 0..MaxBearers /\ (mem[q].tok # 0 => Issued(mem[q].tok))
            /\ \A i \in Calls : call[q][i].tok \in 0..MaxBearers /\ (call[q][i].tok # 0 => Issued(call[q][i].tok))
        BY Before DEF OnlyIssued
      <4>. QED  BY <4>1, <4>2 DEF ServerMoves, Issued
    <3>. QED  BY <3>1, <3>2
  <2>. QED  BY <2>1, <2>2 DEF OnlyIssued
<1>4. TypeOK'
  BY <1>3, TypeParts, PTL
<1>5. \A q \in Procs : Local(q)' /\ NewSession(q)' /\ NewBearer(q)'
  BY <1>1 DEF ProcStep
<1>. QED  BY <1>2, <1>4, <1>5 DEF SessionInv

-----------------------------------------------------------------------------
(* The end of a process, and what the callers of a refresh make of it *)

\* A caller that is done, and one that has its bearer.
Having(t, r) == [IdleCall EXCEPT !.at = "have", !.tok = t, !.rej = r]

LEMMA CallRecords ==
    /\ IdleCall \in CallType /\ IdleCall.at = "idle" /\ IdleCall.tok = 0 /\ IdleCall.rej = 0
    /\ \A t, r \in 0..MaxBearers :
          /\ Having(t, r) \in CallType /\ Having(t, r).at = "have"
          /\ Having(t, r).tok = t /\ Having(t, r).rej = r
BY Domains DEF Having, IdleCall, NoEnvelope, CallType, Envelopes, CallPlaces

LEMMA ExitStep ==
    ASSUME SessionInv, ServerMoves, NEW p \in Procs, Exit(p)
    PROVE  /\ ProcStep(p) /\ ~Refreshing(p)' /\ NewSession(p)' /\ NewBearer(p)'
           /\ One(p)'.at = "idle" /\ flight'[p].at = "none"
<1>. USE Domains
<1>1. Typed
  BY Before
<1>2. Fresh \in MemType /\ IdleCall \in CallType /\ NoFlight \in FlightType
  BY DEF Fresh, IdleCall, NoFlight, NoEnvelope, MemType, CallType, FlightType, Envelopes, CallPlaces, FlightPlaces
<1>3. /\ mem' \in [Procs -> MemType] /\ call' \in [Procs -> [Calls -> CallType]] /\ flight' \in [Procs -> FlightType]
      /\ Others(p) /\ mem'[p] = Fresh /\ flight'[p] = NoFlight /\ \A i \in Calls : call'[p][i] = IdleCall
  BY <1>1, <1>2 DEF Exit, Typed, Others
<1>4. ~Refreshing(p)' /\ flight'[p].at = "none" /\ call'[p][1] = IdleCall
  BY <1>3 DEF Refreshing, HasRead, NoFlight
<1>5. FlightInv(p)' /\ LogoutInv(p)' /\ \A i \in Calls : CallInv(p, i)'
  BY <1>3, <1>4 DEF FlightInv, LogoutInv, CallInv, Refreshing, HasRead, NoFlight, Fresh, IdleCall, OwnPlaces
<1>6. Clean(p, mem'[p].tok) /\ \A i \in Calls : Clean(p, call'[p][i].tok)
  BY <1>3, OldIsClean DEF Fresh, IdleCall
<1>7. One(p)'.at = "idle"
  BY <1>4 DEF One, IdleCall
<1>8. NewSession(p)' /\ NewBearer(p)'
  BY <1>4, <1>7 DEF NewSession, NewBearer
<1>. QED  BY <1>3, <1>4, <1>5, <1>6, <1>7, <1>8 DEF ProcStep, Local, Refreshing, HasRead

\* Every waiter gets a bearer that is stored and is not the one it was refused,
\* tries again, or is done (human-session.ts acquireAccessToken and
\* refreshRejectedAccessToken after vault.refresh).
LEMMA SettleStep ==
    ASSUME SessionInv, ServerMoves, NEW p \in Procs, flight[p].at # "none",
           NEW ok \in BOOLEAN, NEW snap, NEW m \in MemType,
           m.mode = mem[p].mode, m.tok = mem[p].tok,
           m.fence = mem[p].fence \/ (ok /\ m.mode = "logout" /\ m.fence = snap),
           ok => Sound(snap) /\ Foreign(p, snap.fam),
           ok /\ ~flight[p].forget => snap.tok # 0 /\ snap.tok # call[p][flight[p].owner].rej,
           bearer' = bearer, Settle(p, ok, snap, m)
    PROVE  /\ ProcStep(p) /\ ~Refreshing(p)' /\ NewSession(p)' /\ NewBearer(p)'
           /\ flight'[p].at \in {"none", "read"}
<1>. USE Domains
<1>. DEFINE fl == flight[p]
            W == flight[p].waiters
            Got(i) == i \in W /\ ok /\ Gives(p, i, snap)
            Again == {i \in W : ok /\ ~Gives(p, i, snap) /\ ~call[p][i].retry}
            Failed(i) == i \in W /\ ~Got(i) /\ i \notin Again
            on(i) == IF call[p][i].at = "join" THEN call[p][i].on ELSE i
            resumed(i) ==
                IF Got(on(i)) THEN [IdleCall EXCEPT !.at = "have", !.tok = snap.tok, !.rej = call[p][i].rej]
                ELSE IF Failed(on(i)) THEN IdleCall
                ELSE [call[p][i] EXCEPT !.retry = @ \/ i \in Again]
<1>0. /\ Typed /\ Local(p) /\ mem[p] \in MemType /\ fl \in FlightType
      /\ \A i \in Calls : call[p][i] \in CallType
  BY Before
<1>1. /\ fl.owner \in W /\ W \subseteq Calls /\ \A i \in W : call[p][i].at = "wait"
      /\ m.mode = "logout" => W = {1} /\ fl.owner = 1
      /\ fl.forget => m.mode = "logout"
      /\ m.mode = "work" => mem[p].fence = NoEnvelope
      /\ m.mode = "logout" => \A j \in Calls \ {1} : call[p][j].at = "idle"
      /\ m.mode = "logout" => mem[p].fence = NoEnvelope
  <2>1. fl.owner \in W /\ W \subseteq Calls /\ \A i \in W : call[p][i].at = "wait"
    BY <1>0 DEF Local, FlightInv, FlightType
  <2>2. m.mode = "logout" => W = {1} /\ fl.owner = 1
    BY <1>0 DEF Local, FlightInv
  <2>3. m.mode = "logout" => call[p][1].at = "wait"
    BY <2>1, <2>2
  <2>. QED  BY <1>0, <2>1, <2>2, <2>3 DEF Local, FlightInv, LogoutInv
<1>2. ASSUME NEW i \in Calls
      PROVE  /\ call[p][i].at \notin OwnPlaces
             /\ call[p][i].at = "wait" => on(i) = i
             /\ call[p][i].at = "join" => call[p][i].rej = 0
             /\ call[p][i].at = "have" => call[p][i].tok # 0 /\ call[p][i].tok # call[p][i].rej
             /\ call[p][i].rej # 0 => Issued(call[p][i].rej)
  BY <1>0 DEF Local, CallInv
<1>3. ASSUME fl.forget
      PROVE  ProcStep(p) /\ ~Refreshing(p)' /\ NewSession(p)' /\ NewBearer(p)' /\ flight'[p].at \in {"none", "read"}
  <2>1. Exit(p)
    BY <1>3 DEF Settle
  <2>. QED  BY <2>1, ExitStep
<1>4. ASSUME ~fl.forget, m.mode = "logout", Failed(1)
      PROVE  ProcStep(p) /\ ~Refreshing(p)' /\ NewSession(p)' /\ NewBearer(p)' /\ flight'[p].at \in {"none", "read"}
  <2>1. flight' = [flight EXCEPT ![p] = ForgetBy(1)] /\ mem' = [mem EXCEPT ![p] = m] /\ call' = call
    BY <1>4 DEF Settle
  <2>2. /\ ForgetBy(1).at = "read" /\ ForgetBy(1).owner = 1 /\ ForgetBy(1).forget = TRUE /\ ForgetBy(1).waiters = {1}
        /\ ForgetBy(1) \in FlightType
    BY DEF ForgetBy, RefreshBy, NoFlight, NoEnvelope, FlightType, Envelopes, FlightPlaces
  <2>3. /\ mem' \in [Procs -> MemType] /\ flight' \in [Procs -> FlightType] /\ call' \in [Procs -> [Calls -> CallType]]
        /\ Others(p) /\ mem'[p] = m /\ flight'[p] = ForgetBy(1) /\ call'[p] = call[p]
    BY <1>0, <2>1, <2>2 DEF Typed, Others
  <2>4. ~ok
    BY <1>1, <1>4 DEF Gives
  <2>5. m.fence = NoEnvelope /\ call[p][1].at = "wait"
    BY <1>1, <1>4, <2>4
  <2>6. FlightInv(p)' /\ ~Refreshing(p)' /\ NewBearer(p)'
    BY <1>1, <1>4, <2>2, <2>3, <2>5 DEF FlightInv, Refreshing, HasRead, NewBearer
  <2>7. LogoutInv(p)'
    BY <1>1, <1>4, <2>3, <2>5 DEF LogoutInv
  <2>8. ASSUME NEW i \in Calls  PROVE CallInv(p, i)'
    <3>1. call[p][i].rej \in 0..MaxBearers
      BY <1>0 DEF CallType
    <3>. QED  BY <1>2, <2>3, <3>1 DEF CallInv, Issued, OwnPlaces
  <2>9. One(p)'.at # "swap"
    BY <2>3, <2>5 DEF One
  <2>10. Clean(p, mem'[p].tok) /\ \A i \in Calls : Clean(p, call'[p][i].tok)
    BY <2>3, OldIsClean
  <2>. QED  BY <2>2, <2>3, <2>6, <2>7, <2>8, <2>9, <2>10 DEF ProcStep, Local, NewSession, Refreshing, HasRead
<1>5. ASSUME ~fl.forget, ~(m.mode = "logout" /\ Failed(1))
      PROVE  ProcStep(p) /\ ~Refreshing(p)' /\ NewSession(p)' /\ NewBearer(p)' /\ flight'[p].at \in {"none", "read"}
  <2>. DEFINE m2 == [m EXCEPT !.tok = IF \E i \in W : Got(i) THEN snap.tok ELSE @,
                              !.rev = IF m.mode = "logout" /\ Got(1) THEN snap.rev ELSE @,
                              !.current = IF Got(@) \/ Failed(@) THEN 0 ELSE @]
  <2>1. /\ call' = [call EXCEPT ![p] = [i \in Calls |-> resumed(i)]]
        /\ mem' = [mem EXCEPT ![p] = m2]
        /\ \/ Again = {} /\ flight' = [flight EXCEPT ![p] = NoFlight]
           \/ \E i \in Again : flight' = [flight EXCEPT ![p] = [RefreshBy(i) EXCEPT !.waiters = Again]]
    BY <1>5 DEF Settle
  <2>2. ok => /\ snap \in Envelopes /\ snap.rev \in Nat /\ snap.rev > 0 /\ snap.tok \in 0..MaxBearers /\ snap.tok # 0
              /\ bearer[snap.tok].fam = snap.fam /\ snap.fam \in Families /\ snap.tok # call[p][fl.owner].rej
    BY <1>5 DEF Sound, Envelopes
  <2>3. m2 \in MemType /\ m2.mode = m.mode /\ m2.fence = m.fence /\ m2.tok \in {m.tok} \cup {IF ok THEN snap.tok ELSE 0}
        /\ (m.mode = "logout" /\ Got(1) => m2.rev = snap.rev)
    BY <2>2 DEF MemType
  <2>4. ASSUME NEW i \in Calls
        PROVE  /\ resumed(i) \in CallType
               /\ resumed(i).at \in {"have", "idle"} \/ (resumed(i).at = call[p][i].at /\ resumed(i).tok = call[p][i].tok
                                                               /\ resumed(i).rej = call[p][i].rej)
               /\ resumed(i).tok \in {0, call[p][i].tok} \cup {IF ok THEN snap.tok ELSE 0}
               /\ resumed(i).rej \in {0, call[p][i].rej}
               /\ resumed(i).at = "have" => resumed(i).tok # 0 /\ resumed(i).tok # resumed(i).rej
               /\ i \in Again => resumed(i).at = "wait"
    <3>0. call[p][i] \in CallType /\ call[p][i].retry \in BOOLEAN /\ call[p][i].rej \in 0..MaxBearers
      BY <1>0 DEF CallType
    <3>1. CASE Got(on(i))
      <4>1. resumed(i) = [IdleCall EXCEPT !.at = "have", !.tok = snap.tok, !.rej = call[p][i].rej] /\ ok
        BY <3>1
      <4>2. snap.tok # call[p][i].rej
        <5>1. CASE call[p][i].at = "join"
          BY <1>2, <2>2, <4>1, <5>1
        <5>2. CASE call[p][i].at # "join"
          <6>1. Gives(p, i, snap)
            BY <3>1, <5>2
          <6>2. i = fl.owner \/ Usable(snap, call[p][i].rej)
            BY <6>1 DEF Gives
          <6>. QED  BY <2>2, <4>1, <6>2 DEF Usable
        <5>. QED  BY <5>1, <5>2
      <4>3. i \notin Again
        BY <1>1, <1>2, <3>1
      <4>5. ok
        BY <4>1
      <4>0. resumed(i) = Having(snap.tok, call[p][i].rej)
        BY <4>1 DEF Having
      <4>. HIDE DEF resumed
      <4>4. /\ resumed(i) \in CallType /\ resumed(i).at = "have" /\ resumed(i).tok = snap.tok
            /\ resumed(i).rej = call[p][i].rej
        BY <2>2, <3>0, <4>0, <4>5, CallRecords
      <4>. QED  BY <2>2, <4>1, <4>2, <4>3, <4>4
    <3>2. CASE ~Got(on(i)) /\ Failed(on(i))
      <4>1. resumed(i) = IdleCall
        BY <3>2
      <4>3. i \notin Again
        BY <1>1, <1>2, <3>2
      <4>. HIDE DEF resumed
      <4>4. resumed(i) \in CallType /\ resumed(i).at = "idle" /\ resumed(i).tok = 0 /\ resumed(i).rej = 0
        BY <4>1, CallRecords
      <4>. QED  BY <4>3, <4>4
    <3>3. CASE ~Got(on(i)) /\ ~Failed(on(i))
      <4>1. resumed(i) = [call[p][i] EXCEPT !.retry = @ \/ i \in Again]
        BY <3>3
      <4>2. /\ resumed(i) \in CallType /\ resumed(i).at = call[p][i].at /\ resumed(i).tok = call[p][i].tok
            /\ resumed(i).rej = call[p][i].rej
        BY <3>0, <4>1, ZenonT(30) DEF CallType
      <4>. QED  BY <1>1, <1>2, <4>2
    <3>. QED  BY <3>1, <3>2, <3>3
  <2>. HIDE DEF Got, Failed, on, resumed, m2
  <2>5. /\ call' \in [Procs -> [Calls -> CallType]] /\ mem' \in [Procs -> MemType] /\ Others(p)
        /\ mem'[p] = m2 /\ \A i \in Calls : call'[p][i] = resumed(i)
    <3>1. call' \in [Procs -> [Calls -> CallType]] /\ mem' \in [Procs -> MemType]
      BY <1>0, <2>1, <2>3, <2>4 DEF Typed
    <3>2. mem'[p] = m2 /\ \A i \in Calls : call'[p][i] = resumed(i)
      BY <1>0, <2>1 DEF Typed
    <3>3. Others(p)
      BY <1>0, <2>1 DEF Typed, Others
    <3>. QED  BY <3>1, <3>2, <3>3
  <2>6. /\ flight' \in [Procs -> FlightType]
        /\ \/ flight'[p].at = "none"
           \/ flight'[p].at = "read" /\ flight'[p].owner \in Again /\ flight'[p].waiters = Again
        /\ flight'[p].forget = FALSE
    <3>1. CASE flight' = [flight EXCEPT ![p] = NoFlight]
      BY <1>0, <3>1 DEF Typed, NoFlight, NoEnvelope, FlightType, Envelopes, FlightPlaces
    <3>2. ASSUME NEW i \in Again, flight' = [flight EXCEPT ![p] = [RefreshBy(i) EXCEPT !.waiters = Again]]
          PROVE  /\ flight' \in [Procs -> FlightType] /\ flight'[p].at = "read" /\ flight'[p].owner \in Again
                 /\ flight'[p].waiters = Again /\ flight'[p].forget = FALSE
      <4>1. i \in Calls /\ Again \in SUBSET Calls
        BY <1>1
      <4>2. [RefreshBy(i) EXCEPT !.waiters = Again] = [NoFlight EXCEPT !.at = "read", !.owner = i, !.waiters = Again]
        BY DEF RefreshBy, NoFlight
      <4>3. [NoFlight EXCEPT !.at = "read", !.owner = i, !.waiters = Again] \in FlightType
        BY <4>1 DEF NoFlight, NoEnvelope, FlightType, Envelopes, FlightPlaces
      <4>. QED  BY <1>0, <3>2, <4>2, <4>3 DEF Typed, NoFlight
    <3>. QED  BY <2>1, <3>1, <3>2
  <2>7. m.mode = "logout" => Again = {} /\ Got(1)
    BY <1>1, <1>5, <2>2 DEF Gives, Got, Failed
  <2>8. FlightInv(p)' /\ ~Refreshing(p)' /\ NewBearer(p)'
    <3>1. flight'[p].at # "none" => flight'[p].owner \in flight'[p].waiters /\ \A i \in flight'[p].waiters : call'[p][i].at = "wait"
      BY <1>1, <2>4, <2>5, <2>6
    <3>2. flight'[p].at # "none" => m.mode # "logout"
      BY <2>6, <2>7
    <3>. QED  BY <2>3, <2>5, <2>6, <3>1, <3>2 DEF FlightInv, Refreshing, HasRead, NewBearer
  <2>9. ASSUME NEW i \in Calls  PROVE CallInv(p, i)'
    <3>0. call[p][i].rej \in 0..MaxBearers
      BY <1>0 DEF CallType
    <3>1. call'[p][i].rej # 0 => Issued(call[p][i].rej)'
      BY <1>2, <2>4, <2>5, <3>0 DEF Issued
    <3>2. call'[p][i].at \notin OwnPlaces
      BY <1>2, <2>4, <2>5 DEF OwnPlaces
    <3>. QED  BY <1>2, <2>4, <2>5, <3>0, <3>1, <3>2 DEF CallInv, OwnPlaces, Issued
  <2>10. LogoutInv(p)'
    <3>1. CASE m.mode = "work"
      BY <1>1, <2>3, <2>5, <3>1 DEF LogoutInv
    <3>2. CASE m.mode = "logout"
      <4>1. /\ call'[p][1].at = "have" /\ call'[p][1].tok = snap.tok /\ ok
        <5>1. on(1) = 1
          BY <1>1, <1>2, <3>2 DEF on
        <5>2. resumed(1) = Having(snap.tok, call[p][1].rej)
          BY <2>7, <3>2, <5>1 DEF resumed, Having
        <5>3. ok /\ call[p][1].rej \in 0..MaxBearers
          BY <1>0, <2>7, <3>2 DEF Got, CallType
        <5>. QED  BY <2>2, <2>5, <5>2, <5>3, CallRecords
      <4>2. \A j \in Calls \ {1} : call'[p][j].at = "idle"
        <5>. SUFFICES ASSUME NEW j \in Calls \ {1}  PROVE resumed(j).at = "idle"
          BY <2>5
        <5>1. call[p][j].at = "idle" /\ on(j) = j /\ j \notin W
          BY <1>1, <3>2 DEF on
        <5>. QED  BY <1>0, <5>1 DEF resumed, Got, Failed, CallType
      <4>3. mem'[p].rev = snap.rev /\ (mem'[p].fence = NoEnvelope \/ mem'[p].fence = snap)
        BY <1>1, <2>3, <2>5, <2>7, <3>2
      <4>. QED  BY <2>2, <2>3, <2>5, <3>2, <4>1, <4>2, <4>3 DEF LogoutInv
    <3>3. m.mode \in {"work", "logout"}
      BY DEF MemType
    <3>. QED  BY <3>1, <3>2, <3>3
  <2>11. Clean(p, mem'[p].tok) /\ \A i \in Calls : Clean(p, call'[p][i].tok)
    <3>1. ok => Clean(p, snap.tok)
      BY <2>2 DEF Clean
    <3>2. Clean(p, 0) /\ Clean(p, mem[p].tok) /\ \A i \in Calls : Clean(p, call[p][i].tok)
      BY OldIsClean
    <3>3. Clean(p, mem'[p].tok)
      BY <2>3, <2>5, <3>1, <3>2
    <3>4. ASSUME NEW i \in Calls  PROVE Clean(p, call'[p][i].tok)
      BY <2>4, <2>5, <3>1, <3>2
    <3>. QED  BY <3>3, <3>4
  <2>12. One(p)'.at # "swap"
    BY <1>2, <2>4, <2>5 DEF One, OwnPlaces
  <2>. QED  BY <2>5, <2>6, <2>8, <2>9, <2>10, <2>11, <2>12 DEF ProcStep, Local, NewSession, Refreshing, HasRead
<1>. QED  BY <1>3, <1>4, <1>5

-----------------------------------------------------------------------------
(* Steps by what they do to the disk and the books *)

\* The disk has what it had, or less.
DiskLoses ==
    /\ disk' \in [env : Envelopes, key : {"none", "empty", "ok"}]
    /\ disk'.env \in {disk.env, NoEnvelope}
    /\ disk'.key = "empty" => disk'.env = NoEnvelope

\* Nobody bought anything from the server.
ServerKnows ==
    /\ ServerMoves
    /\ family' \in [Families -> {"none", "live", "revoked"}]
    /\ lapsed' \in SUBSET Families
    /\ bearer' \in [Bearers -> [fam : 0..MaxLogins, age : 0..2, refused : BOOLEAN]]
    /\ \A b \in Bearers : bearer'[b].fam = bearer[b].fam

\* What every step of p promises here.
LawfulStep(p) ==
    /\ ProcStep(p) /\ NewSession(p)' /\ NewBearer(p)'
    /\ Refreshing(p)' => Refreshing(p) \/ LockFree
    /\ events' \in 0..MaxEvents

LEMMA Counted == SessionInv /\ (Event \/ NoEvent) => events' \in 0..MaxEvents
BY Before, BoundsAssumption DEF Typed, Event, NoEvent

LEMMA ServerStill == SessionInv /\ UNCHANGED remote => ServerKnows
BY Before DEF Typed, remote, ServerKnows, ServerMoves

LEMMA ServerRevokes ==
    ASSUME SessionInv, NEW f \in Families,
           family' \in {family, [family EXCEPT ![f] = IF family[f] = "none" THEN @ ELSE "revoked"]},
           lapsed' = lapsed, bearer' = bearer
    PROVE  ServerKnows
BY Before DEF Typed, ServerKnows, ServerMoves

LEMMA KnownStays == SessionInv /\ ServerKnows /\ closed' = closed /\ forgotten' = forgotten => Known'
<1>. SUFFICES ASSUME SessionInv, ServerKnows, closed' = closed, forgotten' = forgotten  PROVE Known'
  OBVIOUS
<1>1. Typed /\ Known
  BY Before
<1>2. ASSUME NEW b \in Bearers, Issued(b)'  PROVE family'[bearer'[b].fam] # "none"
  <2>1. Issued(b) /\ bearer'[b].fam = bearer[b].fam /\ bearer[b].fam \in Families
    BY <1>2, Before DEF ServerKnows, Issued
  <2>. QED  BY <1>1, <2>1 DEF Known, ServerKnows, ServerMoves
<1>3. \A f \in closed : f \in Families /\ family'[f] # "none"
  BY <1>1 DEF Typed, Known, ServerKnows, ServerMoves
<1>4. ASSUME NEW b \in forgotten  PROVE Issued(b)'
  BY <1>1 DEF Typed, Known, ServerKnows, ServerMoves, Issued
<1>. QED  BY <1>2, <1>3, <1>4 DEF Known

\* The store keeps what it has or loses it, and nothing is reported.
LEMMA QuietStep ==
    ASSUME SessionInv, NEW p \in Procs, LawfulStep(p), ServerKnows, DiskLoses, Unreported
    PROVE  SessionInv'
<1>. USE Domains
<1>1. Typed /\ DiskInv /\ ServerMoves /\ closed' = closed /\ forgotten' = forgotten
  BY Before DEF ServerKnows, Unreported
<1>2. Typed'
  BY <1>1 DEF Typed, LawfulStep, ProcStep, ServerKnows, DiskLoses
<1>3. ASSUME disk'.env = disk.env, Sound(disk.env)  PROVE Sound(disk.env)'
  <2>1. \A e : Sound(e) => Sound(e)'
    BY <1>1, SoundStays
  <2>2. PICK e : e = disk.env
    OBVIOUS
  <2>3. Sound(e)' /\ e = disk'.env
    BY <1>3, <2>1, <2>2
  <2>. QED  BY <2>3 DEF Sound
<1>4. DiskInv'
  BY <1>1, <1>3 DEF DiskInv, DiskLoses
<1>5. NoEnvelope.fam = 0 /\ NoEnvelope.tok = 0 /\ 0 \notin closed /\ 0 \notin forgotten
  BY <1>1 DEF NoEnvelope, Typed
<1>6. RemovedStaysGone' /\ ForgottenStaysGone'
  BY <1>1, <1>5 DEF RemovedStaysGone, ForgottenStaysGone, DiskLoses, SessionInv
<1>7. Modest(p)
  BY <1>1, <1>5, OldIsForeign DEF Modest, DiskLoses, ServerKnows
<1>. QED  BY <1>1, <1>2, <1>4, <1>6, <1>7, KnownStays, StepKeeps DEF LawfulStep

\* The store has e now, which was neither removed nor forgotten.
LEMMA StoreStep ==
    ASSUME SessionInv, NEW p \in Procs, LawfulStep(p), ServerKnows,
           NEW e, Sound(e), disk' = [env |-> e, key |-> "ok"], Foreign(p, e.fam),
           e.fam \notin closed, closed' = closed,
           e.tok \notin forgotten', NEW B \in SUBSET Bearers, forgotten' = forgotten \cup B,
           \A b \in B : Issued(b) /\ Foreign(p, bearer[b].fam),
           B = {} \/ Refreshing(p)
    PROVE  SessionInv'
<1>. USE Domains
<1>1. Typed /\ Known /\ ServerMoves
  BY Before DEF ServerKnows
<1>2. Typed'
  <2>1. disk' \in [env : Envelopes, key : {"none", "empty", "ok"}] /\ forgotten' \in SUBSET Bearers
    BY <1>1 DEF Sound, Typed
  <2>. QED  BY <1>1, <2>1 DEF Typed, LawfulStep, ProcStep, ServerKnows
<1>3. DiskInv'
  <2>1. Sound(e)' /\ disk'.env = e /\ disk'.key = "ok"
    BY <1>1, SoundStays
  <2>. QED  BY <2>1 DEF DiskInv, Sound
<1>4. Known'
  <2>1. ASSUME NEW b \in Bearers, Issued(b)'  PROVE family'[bearer'[b].fam] # "none"
    <3>1. Issued(b) /\ bearer'[b].fam = bearer[b].fam /\ bearer[b].fam \in Families
      BY <2>1, Before DEF ServerKnows, Issued
    <3>. QED  BY <1>1, <3>1 DEF Known, ServerMoves
  <2>2. \A f \in closed : f \in Families /\ family'[f] # "none"
    BY <1>1 DEF Typed, Known, ServerMoves
  <2>3. ASSUME NEW b \in forgotten'  PROVE Issued(b)'
    BY <1>1 DEF Typed, Known, ServerMoves, Issued
  <2>. QED  BY <2>1, <2>2, <2>3 DEF Known
<1>5. RemovedStaysGone' /\ ForgottenStaysGone'
  BY DEF RemovedStaysGone, ForgottenStaysGone
<1>6. Modest(p)
  BY DEF Modest, ServerKnows
<1>. QED  BY <1>1, <1>2, <1>3, <1>4, <1>5, <1>6, StepKeeps DEF LawfulStep

\* The store is empty now, and f is reported removed.
LEMMA ReportStep ==
    ASSUME SessionInv, NEW p \in Procs, LawfulStep(p), ServerKnows, disk' = Deleted,
           NEW f \in Families, family[f] # "none", Foreign(p, f), Reported(f)
    PROVE  SessionInv'
<1>. USE Domains
<1>1. Typed /\ Known /\ ServerMoves /\ closed' = closed \cup {f} /\ forgotten' = forgotten
  BY Before DEF ServerKnows, Reported
<1>2. Typed'
  <2>1. disk' \in [env : Envelopes, key : {"none", "empty", "ok"}] /\ closed' \in SUBSET Families
    BY <1>1 DEF Typed, Deleted, NoEnvelope, Envelopes
  <2>. QED  BY <1>1, <2>1 DEF Typed, LawfulStep, ProcStep, ServerKnows
<1>3. disk'.env = NoEnvelope /\ disk'.env.fam = 0 /\ disk'.env.tok = 0
  BY DEF Deleted, NoEnvelope
<1>4. DiskInv' /\ RemovedStaysGone' /\ ForgottenStaysGone'
  <2>1. closed' \in SUBSET Families /\ forgotten' \in SUBSET Bearers
    BY <1>2 DEF Typed
  <2>. QED  BY <1>3, <2>1 DEF DiskInv, RemovedStaysGone, ForgottenStaysGone
<1>5. Known'
  <2>1. ASSUME NEW b \in Bearers, Issued(b)'  PROVE family'[bearer'[b].fam] # "none"
    <3>1. Issued(b) /\ bearer'[b].fam = bearer[b].fam /\ bearer[b].fam \in Families
      BY <2>1, Before DEF ServerKnows, Issued
    <3>. QED  BY <1>1, <3>1 DEF Known, ServerMoves
  <2>2. \A g \in closed' : g \in Families /\ family'[g] # "none"
    BY <1>1 DEF Typed, Known, ServerMoves
  <2>3. ASSUME NEW b \in forgotten'  PROVE Issued(b)'
    BY <1>1 DEF Typed, Known, ServerMoves, Issued
  <2>. QED  BY <2>1, <2>2, <2>3 DEF Known
<1>6. Modest(p)
  BY <1>1, <1>3, OldIsForeign DEF Modest, ServerKnows
<1>. QED  BY <1>1, <1>2, <1>4, <1>5, <1>6, StepKeeps DEF LawfulStep

\* What the operations of the store do to the disk (local-session.ts).
LEMMA DiskOps ==
    ASSUME SessionInv
    PROVE  /\ disk' = disk => DiskLoses
           /\ disk' = AfterRead => DiskLoses
           /\ StoreThrows => DiskLoses
           /\ disk' = Deleted => DiskLoses
           /\ \A e : DeleteThrows(e) => DiskLoses
           /\ \A e : TornDelete(e) => DiskLoses
           /\ \A e : SwapConflict(e) => DiskLoses
           /\ \A e : DeleteConflict(e) => DiskLoses
<1>1. disk \in [env : Envelopes, key : {"none", "empty", "ok"}] /\ (disk.key = "empty" => disk.env = NoEnvelope)
  BY Before DEF Typed, DiskInv
<1>2. NoEnvelope \in Envelopes /\ Deleted \in [env : Envelopes, key : {"none", "empty", "ok"}]
      /\ Deleted.env = NoEnvelope /\ Deleted.key = "none"
  BY Domains DEF NoEnvelope, Envelopes, Deleted
<1>3. (disk' = disk => DiskLoses) /\ (disk' = Deleted => DiskLoses)
  BY <1>1, <1>2 DEF DiskLoses
<1>4. (disk' = AfterRead => DiskLoses) /\ (StoreThrows => DiskLoses)
  BY <1>3 DEF AfterRead, StoreThrows
<1>5. disk' \in {[disk EXCEPT !.env = NoEnvelope], [disk EXCEPT !.key = "none"]} /\ disk.key = "ok" => DiskLoses
  BY <1>1, <1>2 DEF DiskLoses
<1>6. \A e : TornDelete(e) \/ DeleteThrows(e) => DiskLoses
  BY <1>4, <1>5 DEF TornDelete, DeleteThrows
<1>7. \A e : SwapConflict(e) \/ DeleteConflict(e) => DiskLoses
  BY <1>3, <1>4 DEF SwapConflict, DeleteConflict
<1>. QED  BY <1>3, <1>4, <1>6, <1>7

-----------------------------------------------------------------------------
(* Steps by what they do to a process *)

\* The refresh of p goes on; its callers wait.
LEMMA FlightMoves ==
    ASSUME SessionInv, ServerMoves, NEW p \in Procs, flight[p].at # "none",
           NEW fl \in FlightType, flight' = [flight EXCEPT ![p] = fl], call' = call,
           mem' \in [Procs -> MemType], \A q \in Procs \ {p} : mem'[q] = mem[q],
           mem'[p].mode = mem[p].mode, mem'[p].tok = mem[p].tok,
           mem'[p].rev = mem[p].rev, mem'[p].fence = mem[p].fence,
           FlightInv(p)', HasRead(p)' => Foreign(p, fl.env.fam)
    PROVE  ProcStep(p) /\ NewSession(p)'
<1>. USE Domains
<1>1. Typed /\ Local(p)
  BY Before
<1>2. /\ call' \in [Procs -> [Calls -> CallType]] /\ flight' \in [Procs -> FlightType]
      /\ Others(p) /\ flight'[p] = fl
  BY <1>1 DEF Typed, Others
<1>3. LogoutInv(p)' /\ \A i \in Calls : CallInv(p, i)'
  BY FrameCalls
<1>4. Clean(p, mem'[p].tok) /\ \A i \in Calls : Clean(p, call'[p][i].tok)
  BY OldIsClean
<1>5. One(p)'.at # "swap"
  BY <1>1 DEF Local, CallInv, OwnPlaces, One
<1>. QED  BY <1>2, <1>3, <1>4, <1>5 DEF ProcStep, Local, NewSession

\* A sign-in, alone in its process, goes on.
LEMMA LoginMoves ==
    ASSUME SessionInv, ServerMoves, NEW p \in Procs, mem[p].mode = "work", flight[p].at = "none",
           \A j \in Calls \ {1} : call[p][j].at = "idle",
           NEW c \in CallType, call' = [call EXCEPT ![p][1] = c], flight' = flight,
           mem' \in [Procs -> MemType], \A q \in Procs \ {p} : mem'[q] = mem[q],
           mem'[p].mode = "work", mem'[p].fence = mem[p].fence,
           c.rej \in {0, One(p).rej}, Clean(p, c.tok), Clean(p, mem'[p].tok),
           c.at \in {"idle", "browser", "swap", "settle", "cleanup", "erase"},
           c.at \in {"swap", "settle", "cleanup", "erase"} => c.tok # 0,
           c.at = "cleanup" => c.env.rev > 0
    PROVE  /\ ProcStep(p) /\ ~Refreshing(p)' /\ NewBearer(p)'
           /\ c.at # "swap" => NewSession(p)'
<1>. USE Domains
<1>1. Typed /\ Local(p)
  BY Before
<1>2. /\ call' \in [Procs -> [Calls -> CallType]] /\ flight' \in [Procs -> FlightType]
      /\ Others(p) /\ call'[p][1] = c /\ \A j \in Calls \ {1} : call'[p][j] = call[p][j]
  BY <1>1 DEF Typed, Others
<1>3. FlightInv(p)' /\ ~Refreshing(p)' /\ NewBearer(p)'
  BY <1>1 DEF Local, FlightInv, Refreshing, HasRead, NewBearer
<1>4. LogoutInv(p)'
  BY <1>1 DEF Local, LogoutInv
<1>5. ASSUME NEW i \in Calls  PROVE CallInv(p, i)'
  <2>1. call[p][i].rej \in 0..MaxBearers /\ (call[p][i].rej # 0 => bearer'[call[p][i].rej].fam # 0)
    <3>1. call[p][i].rej \in 0..MaxBearers
      BY <1>1 DEF Typed, CallType
    <3>. QED  BY <1>1, <3>1 DEF Local, CallInv, ServerMoves, Issued
  <2>2. CASE i = 1
    <3>1. c.rej # 0 => Issued(c.rej)'
      BY <2>1, <2>2 DEF One, Issued
    <3>. QED  BY <1>2, <2>2, <3>1 DEF CallInv, OwnPlaces, Issued
  <2>3. CASE i # 1
    BY <1>1, <1>2, <2>1, <2>3 DEF Local, CallInv, OwnPlaces, Issued
  <2>. QED  BY <2>2, <2>3
<1>6. \A i \in Calls : Clean(p, call'[p][i].tok)
  BY <1>2, OldIsClean
<1>7. Refreshing(p)' => FALSE
  BY <1>3
<1>8. c.at # "swap" => NewSession(p)'
  BY <1>2 DEF NewSession, One
<1>. QED  BY <1>2, <1>3, <1>4, <1>5, <1>6, <1>8 DEF ProcStep, Local, Refreshing, HasRead

\* The places of a sign-in leave nothing else under way in its process.
LEMMA Alone ==
    ASSUME SessionInv, NEW p \in Procs, One(p).at \in OwnPlaces
    PROVE  /\ flight[p].at = "none" /\ \A j \in Calls \ {1} : call[p][j].at = "idle"
           /\ One(p).at \in {"browser", "swap", "settle", "cleanup"} => mem[p].mode = "work"
           /\ One(p).at = "remove" => mem[p].mode = "logout"
           /\ One(p).at \in {"swap", "settle", "cleanup", "erase", "remove"} =>
                 One(p).tok \in Bearers /\ Issued(One(p).tok) /\ bearer[One(p).tok].fam \in Families
           /\ One(p).at \in {"cleanup", "remove"} => One(p).env.rev > 0
           /\ One(p) \in CallType /\ One(p).tok \in 0..MaxBearers /\ One(p).rej \in 0..MaxBearers
           /\ One(p).env \in Envelopes
<1>. USE Domains
<1>1. Local(p) /\ OnlyIssued /\ One(p) \in CallType /\ One(p).tok \in 0..MaxBearers
  BY Before DEF One
<1>2. CallInv(p, 1)
  BY <1>1 DEF Local
<1>3. One(p).at \in {"swap", "settle", "cleanup", "erase", "remove"} =>
                 One(p).tok \in Bearers /\ Issued(One(p).tok)
  BY <1>1, <1>2 DEF CallInv, One, OnlyIssued
<1>. QED  BY <1>1, <1>2, <1>3, Before DEF CallInv, One, CallType

\* A step of the server or of time.
LEMMA TurnKeeps ==
    ASSUME SessionInv, ServerKnows, Turn
    PROVE  SessionInv'
<1>. USE Domains
<1>1. /\ disk' = disk /\ mem' = mem /\ call' = call /\ flight' = flight
      /\ closed' = closed /\ forgotten' = forgotten /\ events' \in 0..MaxEvents
      /\ Typed /\ OnlyIssued /\ DiskInv /\ ServerMoves
  BY Before, Counted DEF Turn, local, ServerKnows
<1>2. Typed'
  BY <1>1 DEF Typed, ServerKnows
<1>3. Known' /\ \A b \in Bearers : Issued(b)' <=> Issued(b)
  BY <1>1, KnownStays DEF ServerKnows, Issued
<1>4. OnlyIssued'
  <2>1. disk.env.tok \in 0..MaxBearers
    BY <1>1 DEF Typed, Envelopes
  <2>2. \A p \in Procs : mem[p].tok \in 0..MaxBearers /\ \A i \in Calls : call[p][i].tok \in 0..MaxBearers
    BY Before
  <2>. QED  BY <1>1, <2>1, <2>2 DEF OnlyIssued, ServerMoves, Issued
<1>5. DiskInv'
  <2>1. PICK e : e = disk.env
    OBVIOUS
  <2>2. Sound(e) => Sound(e)'
    BY <1>1, SoundStays
  <2>. QED  BY <1>1, <2>1, <2>2 DEF DiskInv, Sound
<1>6. ASSUME NEW p \in Procs  PROVE Local(p)' /\ NewSession(p)' /\ NewBearer(p)'
  <2>1. Local(p)'
    BY <1>1, FrameLocal
  <2>2. NewSession(p)'
    <3>. SUFFICES ASSUME One(p).at = "swap"  PROVE NewSession(p)'
      BY <1>1 DEF NewSession, One
    <3>1. One(p).tok \in Bearers /\ NewSession(p)
      BY SwapHasBearer, Before
    <3>2. bearer'[One(p).tok].fam = bearer[One(p).tok].fam /\ One(p)' = One(p)
      BY <1>1, <3>1 DEF ServerKnows, One
    <3>. QED  BY <1>1, <3>1, <3>2 DEF NewSession, ServerKnows, Refreshing, HasRead
  <2>3. NewBearer(p)'
    BY <1>1, Before DEF NewBearer
  <2>. QED  BY <2>1, <2>2, <2>3
<1>7. OneRefreshAtATime' /\ RemovedStaysGone' /\ ForgottenStaysGone'
  BY <1>1 DEF SessionInv, OneRefreshAtATime, Refreshing, HasRead, RemovedStaysGone, ForgottenStaysGone
<1>8. TypeOK'
  BY <1>2, <1>4, TypeParts, PTL
<1>. QED  BY <1>3, <1>5, <1>6, <1>7, <1>8 DEF SessionInv

LEMMA ServerStepsKeep ==
    ASSUME SessionInv,
           \/ \E b \in Bearers : BearerAges(b) \/ BearerRefused(b)
           \/ \E f \in Families : CodeLapses(f) \/ FamilyRevoked(f)
    PROVE  SessionInv'
<1>. USE Domains
<1>1. Typed
  BY Before
<1>2. ASSUME NEW b \in Bearers, BearerAges(b) \/ BearerRefused(b)  PROVE ServerKnows /\ Turn
  <2>1. bearer[b] \in [fam : 0..MaxLogins, age : 0..2, refused : BOOLEAN]
    BY <1>1 DEF Typed
  <2>2. family' = family /\ lapsed' = lapsed /\ Turn
    BY <1>2 DEF BearerAges, BearerRefused
  <2>. DEFINE old == bearer[b]
              older == [old EXCEPT !.age = old.age + 1]
              refused == [old EXCEPT !.refused = TRUE]
  <2>3. \/ old.age < 2 /\ bearer' = [bearer EXCEPT ![b] = older]
        \/ bearer' = [bearer EXCEPT ![b] = refused]
    BY <1>1, <1>2 DEF Typed, BearerAges, BearerRefused
  <2>4. old.age < 2 => older \in [fam : 0..MaxLogins, age : 0..2, refused : BOOLEAN] /\ older.fam = old.fam
    <3>1. old.age \in 0..2 /\ old.age < 2 => old.age + 1 \in 0..2
      BY <2>1
    <3>. QED  BY <2>1, <3>1
  <2>5. refused \in [fam : 0..MaxLogins, age : 0..2, refused : BOOLEAN] /\ refused.fam = old.fam
    BY <2>1
  <2>6. /\ bearer' \in [Bearers -> [fam : 0..MaxLogins, age : 0..2, refused : BOOLEAN]]
        /\ \A c \in Bearers : bearer'[c].fam = bearer[c].fam
    <3>1. ASSUME NEW r \in [fam : 0..MaxLogins, age : 0..2, refused : BOOLEAN], r.fam = bearer[b].fam,
                 bearer' = [bearer EXCEPT ![b] = r]
          PROVE  /\ bearer' \in [Bearers -> [fam : 0..MaxLogins, age : 0..2, refused : BOOLEAN]]
                 /\ \A c \in Bearers : bearer'[c].fam = bearer[c].fam
      BY <1>1, <3>1 DEF Typed
    <3>. HIDE DEF older, refused
    <3>. QED  BY <2>3, <2>4, <2>5, <3>1
  <2>. QED  BY <1>1, <2>2, <2>6 DEF Typed, ServerKnows, ServerMoves
<1>3. ASSUME NEW f \in Families, CodeLapses(f)  PROVE ServerKnows /\ Turn
  BY <1>1, <1>3 DEF Typed, CodeLapses, ServerKnows, ServerMoves
<1>4. ASSUME NEW f \in Families, FamilyRevoked(f)  PROVE ServerKnows /\ Turn
  BY <1>1, <1>4 DEF Typed, FamilyRevoked, ServerKnows, ServerMoves
<1>. QED  BY <1>2, <1>3, <1>4, TurnKeeps

-----------------------------------------------------------------------------
(* The callers of a process *)

LEMMA FlightRecords ==
    ASSUME NEW i \in Calls
    PROVE  /\ RefreshBy(i) \in FlightType /\ RefreshBy(i).at = "read" /\ RefreshBy(i).owner = i
           /\ RefreshBy(i).waiters = {i} /\ RefreshBy(i).forget = FALSE /\ RefreshBy(i).env = NoEnvelope
           /\ ForgetBy(i) \in FlightType /\ ForgetBy(i).at = "read" /\ ForgetBy(i).owner = i
           /\ ForgetBy(i).waiters = {i} /\ ForgetBy(i).forget = TRUE
BY Domains DEF RefreshBy, ForgetBy, NoFlight, NoEnvelope, FlightType, Envelopes, FlightPlaces

\* A caller of a process that works takes a bearer, joins, waits or is done.
LEMMA CallerMoves ==
    ASSUME SessionInv, ServerMoves, NEW p \in Procs, NEW i \in Calls,
           call[p][i].at \in {"idle", "have"}, mem[p].mode = "work",
           \A j \in Calls : call[p][j].at \notin OwnPlaces,
           NEW c \in CallType, call' = [call EXCEPT ![p][i] = c],
           mem' \in [Procs -> MemType], \A q \in Procs \ {p} : mem'[q] = mem[q],
           mem'[p].mode = "work", mem'[p].fence = mem[p].fence,
           c.at \in {"idle", "wait", "join", "have"},
           c.at = "join" => c.rej = 0, c.at = "have" => c.tok # 0 /\ c.tok # c.rej,
           c.rej # 0 => bearer'[c.rej].fam # 0, forgotten' = forgotten,
           Clean(p, c.tok), Clean(p, mem'[p].tok),
           \/ flight' = flight
           \/ /\ c.at = "wait"
              /\ flight' = [flight EXCEPT ![p] = IF @.at = "none" THEN RefreshBy(i)
                                                 ELSE [flight[p] EXCEPT !.waiters = @ \cup {i}]]
    PROVE  ProcStep(p) /\ NewSession(p)' /\ NewBearer(p)' /\ (Refreshing(p)' => Refreshing(p))
<1>. USE Domains
<1>. DEFINE fl == flight[p]
            more == [fl EXCEPT !.waiters = fl.waiters \cup {i}]
<1>1. Typed /\ Local(p) /\ NewBearer(p) /\ fl \in FlightType
  BY Before
<1>2. /\ call' \in [Procs -> [Calls -> CallType]] /\ \A q \in Procs \ {p} : call'[q] = call[q]
      /\ call'[p][i] = c /\ \A j \in Calls \ {i} : call'[p][j] = call[p][j]
  BY <1>1 DEF Typed
<1>3. /\ more \in FlightType /\ more.at = fl.at /\ more.owner = fl.owner /\ more.forget = fl.forget
      /\ more.env = fl.env /\ more.next = fl.next /\ more.waiters = fl.waiters \cup {i}
  BY <1>1 DEF FlightType
<1>4. /\ flight' \in [Procs -> FlightType] /\ \A q \in Procs \ {p} : flight'[q] = flight[q]
      /\ \/ flight'[p] = fl
         \/ c.at = "wait" /\ fl.at = "none" /\ flight'[p] = RefreshBy(i)
         \/ c.at = "wait" /\ fl.at # "none" /\ flight'[p] = more
  <2>. HIDE DEF more
  <2>1. CASE flight' = flight
    BY <1>1, <2>1 DEF Typed
  <2>2. CASE flight' = [flight EXCEPT ![p] = IF @.at = "none" THEN RefreshBy(i) ELSE [flight[p] EXCEPT !.waiters = @ \cup {i}]]
             /\ c.at = "wait"
    <3>. DEFINE F == IF flight[p].at = "none" THEN RefreshBy(i) ELSE [flight[p] EXCEPT !.waiters = @ \cup {i}]
    <3>1. flight' = [flight EXCEPT ![p] = F]
      BY <2>2, Zenon
    <3>2. F = IF fl.at = "none" THEN RefreshBy(i) ELSE more
      BY DEF more
    <3>. HIDE DEF F
    <3>3. F \in FlightType
      BY <1>3, <3>2, FlightRecords
    <3>4. flight' \in [Procs -> FlightType] /\ flight'[p] = F /\ \A q \in Procs \ {p} : flight'[q] = flight[q]
      BY <1>1, <3>1, <3>3 DEF Typed
    <3>. QED  BY <2>2, <3>2, <3>4
  <2>. QED  BY <2>1, <2>2
<1>. HIDE DEF more
<1>5. fl.at # "none" => fl.owner \in fl.waiters /\ i \notin fl.waiters /\ \A j \in fl.waiters : call[p][j].at = "wait"
  BY <1>1 DEF Local, FlightInv
<1>6. fl.at # "none" => fl.waiters \subseteq Calls
  BY <1>1 DEF FlightType
<1>7. \A e : Sound(e) => Sound(e)'
  BY <1>1, SoundStays
<1>8. FlightInv(p)' /\ (Refreshing(p)' => Refreshing(p) /\ flight'[p].env = fl.env) /\ NewBearer(p)'
      /\ (HasRead(p)' => Foreign(p, flight'[p].env.fam))
  <2>1. CASE flight'[p] = RefreshBy(i) /\ c.at = "wait"
    <3>0. /\ flight'[p].at = "read" /\ flight'[p].owner = i /\ flight'[p].waiters = {i} /\ flight'[p].forget = FALSE
          /\ call'[p][i].at = "wait"
      <4>1. call'[p][i].at = "wait"
        BY <1>2, <2>1
      <4>2. /\ RefreshBy(i).at = "read" /\ RefreshBy(i).owner = i
            /\ RefreshBy(i).waiters = {i} /\ RefreshBy(i).forget = FALSE
        BY FlightRecords
      <4>. QED  BY <2>1, <4>1, <4>2
    <3>1. ~Refreshing(p)' /\ FlightInv(p)' /\ NewBearer(p)'
      BY <3>0 DEF FlightInv, Refreshing, HasRead, NewBearer
    <3>. QED  BY <3>1 DEF Refreshing, HasRead
  <2>2. CASE flight'[p] = fl \/ (flight'[p] = more /\ c.at = "wait")
    <3>1. /\ flight'[p].at = fl.at /\ flight'[p].owner = fl.owner /\ flight'[p].forget = fl.forget
          /\ flight'[p].env = fl.env /\ flight'[p].next = fl.next
          /\ \/ flight'[p].waiters = fl.waiters
             \/ flight'[p].waiters = fl.waiters \cup {i} /\ c.at = "wait"
      BY <1>3, <2>2
    <3>2. fl.at # "none" => /\ flight'[p].owner \in flight'[p].waiters
                            /\ \A j \in flight'[p].waiters : call'[p][j].at = "wait"
                            /\ call'[p][fl.owner].rej = call[p][fl.owner].rej
      BY <1>2, <1>5, <1>6, <3>1
    <3>3. FlightInv(p)'
      BY <1>1, <1>7, <3>1, <3>2 DEF Local, FlightInv, Refreshing, HasRead
    <3>4. (Refreshing(p)' <=> Refreshing(p)) /\ NewBearer(p)'
      BY <1>1, <3>1 DEF Refreshing, HasRead, NewBearer
    <3>. QED  BY <3>1, <3>3, <3>4, OldIsForeign DEF Refreshing, HasRead
  <2>. QED  BY <1>4, <2>1, <2>2
<1>9. LogoutInv(p)'
  BY <1>1 DEF Local, LogoutInv
<1>10. ASSUME NEW j \in Calls  PROVE CallInv(p, j)'
  <2>1. call[p][j].rej \in 0..MaxBearers /\ (call[p][j].rej # 0 => bearer'[call[p][j].rej].fam # 0)
    <3>1. call[p][j].rej \in 0..MaxBearers
      BY <1>1 DEF Typed, CallType
    <3>. QED  BY <1>1, <3>1 DEF Local, CallInv, ServerMoves, Issued
  <2>2. CASE j = i
    BY <1>2, <2>2 DEF CallInv, OwnPlaces, Issued
  <2>3. CASE j # i
    BY <1>1, <1>2, <2>1, <2>3 DEF Local, CallInv, OwnPlaces, Issued
  <2>. QED  BY <2>2, <2>3
<1>11. \A j \in Calls : Clean(p, call'[p][j].tok)
  BY <1>2, OldIsClean
<1>12. One(p)'.at # "swap"
  BY <1>2 DEF One, OwnPlaces
<1>. QED  BY <1>2, <1>4, <1>8, <1>9, <1>10, <1>11, <1>12 DEF ProcStep, Local, NewSession, Others

LEMMA EndKeeps ==
    ASSUME SessionInv, NEW p \in Procs, End(p)
    PROVE  SessionInv'
<1>1. ServerKnows /\ DiskLoses /\ events' \in 0..MaxEvents /\ Unreported /\ Exit(p)
  BY ServerStill, DiskOps, Counted DEF End
<1>. QED  BY <1>1, ExitStep, QuietStep DEF LawfulStep, ServerKnows

\* A step that does nothing to the disk, the server and the books.
LEMMA LocalStep ==
    ASSUME SessionInv, NEW p \in Procs, UNCHANGED <<disk, remote>>, Unreported, Event \/ NoEvent,
           ProcStep(p), NewSession(p)', NewBearer(p)', Refreshing(p)' => Refreshing(p) \/ LockFree
    PROVE  SessionInv'
BY ServerStill, DiskOps, Counted, QuietStep DEF LawfulStep

LEMMA LogoutStartKeeps ==
    ASSUME SessionInv, NEW p \in Procs, LogoutStart(p)
    PROVE  SessionInv'
<1>. USE Domains
<1>1. Typed /\ Local(p) /\ mem[p] = Fresh /\ \A i \in Calls : call[p][i].at = "idle"
  BY Before DEF LogoutStart
<1>2. flight[p].at = "none"
  BY <1>1 DEF Typed, Local, FlightInv, FlightType
<1>3. UNCHANGED <<disk, remote>> /\ Unreported /\ NoEvent /\ ServerMoves
  BY ServerStill DEF LogoutStart, ServerKnows
<1>. DEFINE c == [IdleCall EXCEPT !.at = "wait"]
            m == [mem[p] EXCEPT !.mode = "logout", !.current = 1]
<1>4. c \in CallType /\ c.at = "wait" /\ c.tok = 0 /\ c.rej = 0
  BY DEF IdleCall, NoEnvelope, CallType, Envelopes, CallPlaces
<1>5. m \in MemType /\ m.mode = "logout" /\ m.fence = NoEnvelope /\ m.tok = 0
  <2>1. m = [Fresh EXCEPT !.mode = "logout", !.current = 1]
    BY <1>1
  <2>. HIDE DEF m
  <2>. QED  BY <2>1 DEF Fresh, MemType, NoEnvelope, Envelopes
<1>6. /\ call' = [call EXCEPT ![p][1] = c] /\ mem' = [mem EXCEPT ![p] = m]
      /\ flight' = [flight EXCEPT ![p] = RefreshBy(1)]
  <2>1. call' = [call EXCEPT ![p][1] = c]
    BY DEF LogoutStart, Refresh
  <2>2. mem' = [mem EXCEPT ![p] = m]
    BY DEF LogoutStart
  <2>3. flight' = [flight EXCEPT ![p] = IF flight[p].at = "none" THEN RefreshBy(1)
                                        ELSE [flight[p] EXCEPT !.waiters = @ \cup {1}]]
    BY DEF LogoutStart, Refresh
  <2>. QED  BY <1>2, <2>1, <2>2, <2>3
<1>. HIDE DEF c, m
<1>7. /\ call' \in [Procs -> [Calls -> CallType]] /\ mem' \in [Procs -> MemType] /\ flight' \in [Procs -> FlightType]
      /\ Others(p) /\ call'[p][1] = c /\ mem'[p] = m /\ flight'[p] = RefreshBy(1)
      /\ \A j \in Calls \ {1} : call'[p][j] = call[p][j]
  <2>1. RefreshBy(1) \in FlightType
    BY FlightRecords
  <2>2. call' \in [Procs -> [Calls -> CallType]] /\ call'[p][1] = c /\ \A j \in Calls \ {1} : call'[p][j] = call[p][j]
    BY <1>1, <1>4, <1>6 DEF Typed
  <2>3. mem' \in [Procs -> MemType] /\ mem'[p] = m /\ flight' \in [Procs -> FlightType] /\ flight'[p] = RefreshBy(1)
    BY <1>1, <1>5, <1>6, <2>1 DEF Typed
  <2>4. Others(p)
    BY <1>1, <1>6 DEF Typed, Others
  <2>. QED  BY <2>2, <2>3, <2>4
<1>8. FlightInv(p)' /\ ~Refreshing(p)' /\ NewBearer(p)'
  <2>0. /\ RefreshBy(1).at = "read" /\ RefreshBy(1).owner = 1
        /\ RefreshBy(1).waiters = {1} /\ RefreshBy(1).forget = FALSE
    BY FlightRecords
  <2>1. flight'[p].at = "read" /\ flight'[p].owner = 1 /\ flight'[p].waiters = {1} /\ flight'[p].forget = FALSE
    BY <1>7, <2>0
  <2>. QED  BY <1>4, <1>7, <2>1 DEF FlightInv, Refreshing, HasRead, NewBearer
<1>9. LogoutInv(p)'
  BY <1>1, <1>4, <1>5, <1>7 DEF LogoutInv
<1>10. ASSUME NEW j \in Calls  PROVE CallInv(p, j)'
  <2>1. CASE j = 1
    BY <1>4, <1>7, <2>1 DEF CallInv, OwnPlaces, Issued
  <2>2. CASE j # 1
    <3>1. call[p][j].rej \in 0..MaxBearers
      BY <1>1 DEF Typed, CallType
    <3>2. call[p][j].rej # 0 => bearer'[call[p][j].rej].fam # 0
      BY <1>1, <1>3, <3>1 DEF Local, CallInv, ServerMoves, Issued
    <3>. QED  BY <1>1, <1>7, <2>2, <3>2 DEF CallInv, OwnPlaces, Issued
  <2>. QED  BY <2>1, <2>2
<1>11. Clean(p, mem'[p].tok) /\ \A j \in Calls : Clean(p, call'[p][j].tok)
  BY <1>3, <1>4, <1>5, <1>7, OldIsClean
<1>12. One(p)'.at # "swap"
  BY <1>4, <1>7 DEF One
<1>13. ProcStep(p) /\ NewSession(p)'
  BY <1>7, <1>8, <1>9, <1>10, <1>11, <1>12 DEF ProcStep, Local, NewSession, Refreshing, HasRead
<1>. QED  BY <1>3, <1>8, <1>13, LocalStep

\* While call 1 is with the vault or done, no call is anywhere else.
LEMMA NoneOwn ==
    ASSUME SessionInv, NEW p \in Procs, call[p][1].at \notin OwnPlaces
    PROVE  \A j \in Calls : call[p][j].at \notin OwnPlaces
BY Before DEF Local, CallInv

LEMMA AcquireKeeps ==
    ASSUME SessionInv, NEW p \in Procs, NEW i \in Calls, Acquire(p, i)
    PROVE  SessionInv'
<1>. USE Domains
<1>1. Typed /\ Local(p) /\ mem[p] \in MemType
  BY Before
<1>2. /\ mem[p].mode = "work" /\ call[p][i].at = "idle" /\ \A j \in Calls : call[p][j].at \notin OwnPlaces
      /\ UNCHANGED <<disk, remote>> /\ Unreported /\ NoEvent
  <2>1. call[p][1].at \notin OwnPlaces
    BY DEF Acquire, OwnPlaces
  <2>. QED  BY <2>1, NoneOwn DEF Acquire
<1>3. ServerMoves /\ forgotten' = forgotten
  BY <1>2, ServerStill DEF ServerKnows, Unreported
<1>4. Clean(p, 0) /\ Clean(p, mem[p].tok)
  BY <1>3, OldIsClean
<1>5. CASE InMemory(p) /\ UNCHANGED <<mem, flight>>
           /\ call' = [call EXCEPT ![p][i] = [IdleCall EXCEPT !.at = "have", !.tok = mem[p].tok]]
  <2>. DEFINE c == [IdleCall EXCEPT !.at = "have", !.tok = mem[p].tok]
  <2>1. mem[p].tok # 0 /\ mem[p].tok \in 0..MaxBearers
    BY <1>5, Before DEF InMemory
  <2>2. c \in CallType /\ c.at = "have" /\ c.tok = mem[p].tok /\ c.rej = 0
    BY <2>1 DEF IdleCall, NoEnvelope, CallType, Envelopes, CallPlaces
  <2>. HIDE DEF c
  <2>3. call' = [call EXCEPT ![p][i] = c] /\ mem' = mem /\ flight' = flight /\ mem' \in [Procs -> MemType]
    BY <1>1, <1>5 DEF c, Typed
  <2>4. ProcStep(p) /\ NewSession(p)' /\ NewBearer(p)' /\ (Refreshing(p)' => Refreshing(p))
    BY <1>2, <1>3, <1>4, <2>1, <2>2, <2>3, CallerMoves
  <2>. QED  BY <1>2, <2>4, LocalStep
<1>6. CASE UNCHANGED <<mem, flight>>
           /\ call' = [call EXCEPT ![p][i] = [IdleCall EXCEPT !.at = "join", !.on = mem[p].current]]
  <2>. DEFINE c == [IdleCall EXCEPT !.at = "join", !.on = mem[p].current]
  <2>1. mem[p].current \in 0..Width
    BY <1>1 DEF MemType
  <2>2. c \in CallType /\ c.at = "join" /\ c.tok = 0 /\ c.rej = 0
    BY <2>1 DEF IdleCall, NoEnvelope, CallType, Envelopes, CallPlaces
  <2>. HIDE DEF c
  <2>3. call' = [call EXCEPT ![p][i] = c] /\ mem' = mem /\ flight' = flight /\ mem' \in [Procs -> MemType]
    BY <1>1, <1>6 DEF c, Typed
  <2>4. ProcStep(p) /\ NewSession(p)' /\ NewBearer(p)' /\ (Refreshing(p)' => Refreshing(p))
    BY <1>2, <1>3, <1>4, <2>2, <2>3, CallerMoves
  <2>. QED  BY <1>2, <2>4, LocalStep
<1>7. CASE mem' = [mem EXCEPT ![p].current = i] /\ Refresh(p, i, IdleCall)
  <2>. DEFINE c == [IdleCall EXCEPT !.at = "wait"]
  <2>2. c \in CallType /\ c.at = "wait" /\ c.tok = 0 /\ c.rej = 0
    BY DEF IdleCall, NoEnvelope, CallType, Envelopes, CallPlaces
  <2>. HIDE DEF c
  <2>3. /\ call' = [call EXCEPT ![p][i] = c]
        /\ flight' = [flight EXCEPT ![p] = IF @.at = "none" THEN RefreshBy(i)
                                           ELSE [flight[p] EXCEPT !.waiters = @ \cup {i}]]
    BY <1>7 DEF c, Refresh
  <2>4. mem' \in [Procs -> MemType] /\ (\A q \in Procs \ {p} : mem'[q] = mem[q])
        /\ mem'[p].mode = mem[p].mode /\ mem'[p].fence = mem[p].fence /\ mem'[p].tok = mem[p].tok
    <3>1. [mem[p] EXCEPT !.current = i] \in MemType
      BY <1>1 DEF MemType
    <3>. QED  BY <1>1, <1>7, <3>1 DEF Typed, MemType
  <2>5. ProcStep(p) /\ NewSession(p)' /\ NewBearer(p)' /\ (Refreshing(p)' => Refreshing(p))
    BY <1>2, <1>3, <1>4, <2>2, <2>3, <2>4, CallerMoves
  <2>. QED  BY <1>2, <2>5, LocalStep
<1>. QED  BY <1>5, <1>6, <1>7 DEF Acquire

LEMMA AnsweredKeeps ==
    ASSUME SessionInv, NEW p \in Procs, NEW i \in Calls, Answered(p, i)
    PROVE  SessionInv'
<1>. USE Domains
<1>1. Typed /\ Local(p)
  BY Before
<1>2. /\ mem[p].mode = "work" /\ call[p][i].at = "have" /\ UNCHANGED <<disk, remote>> /\ Unreported /\ NoEvent
      /\ call' = [call EXCEPT ![p][i] = IdleCall] /\ mem' = mem /\ flight' = flight
      /\ \A j \in Calls : call[p][j].at \notin OwnPlaces
  <2>1. call[p][i].at = "have"
    BY DEF Answered
  <2>2. call[p][1].at \notin OwnPlaces
    BY <1>1, <2>1 DEF Local, CallInv, OwnPlaces
  <2>. QED  BY <2>2, NoneOwn DEF Answered
<1>3. ServerMoves /\ forgotten' = forgotten /\ mem' \in [Procs -> MemType]
  BY <1>1, <1>2, ServerStill DEF ServerKnows, Unreported, Typed
<1>4. Clean(p, 0) /\ Clean(p, mem[p].tok)
  BY <1>3, OldIsClean
<1>5. call[p][i].at \in {"idle", "have"} /\ mem'[p].mode = "work" /\ mem'[p].fence = mem[p].fence
      /\ (\A q \in Procs \ {p} : mem'[q] = mem[q]) /\ Clean(p, mem'[p].tok)
  BY <1>2, <1>4
<1>6. PICK c \in CallType : c = IdleCall /\ c.at = "idle" /\ c.tok = 0 /\ c.rej = 0
  BY CallRecords
<1>7. call' = [call EXCEPT ![p][i] = c] /\ Clean(p, c.tok)
  BY <1>2, <1>4, <1>6
<1>8. ProcStep(p) /\ NewSession(p)' /\ NewBearer(p)' /\ (Refreshing(p)' => Refreshing(p))
  BY <1>2, <1>3, <1>5, <1>6, <1>7, CallerMoves
<1>. QED  BY <1>2, <1>8, LocalStep

LEMMA RefusedKeeps ==
    ASSUME SessionInv, NEW p \in Procs, NEW i \in Calls, Refused(p, i)
    PROVE  SessionInv'
<1>. USE Domains
<1>. DEFINE t == call[p][i].tok
<1>1. Typed /\ Local(p) /\ OnlyIssued /\ mem[p] \in MemType /\ t \in 0..MaxBearers
  BY Before
<1>2. /\ mem[p].mode = "work" /\ call[p][i].at = "have" /\ UNCHANGED <<disk, remote>> /\ Unreported /\ NoEvent
      /\ \A j \in Calls : call[p][j].at \notin OwnPlaces
  <2>1. call[p][i].at = "have"
    BY DEF Refused
  <2>2. call[p][1].at \notin OwnPlaces
    BY <1>1, <2>1 DEF Local, CallInv, OwnPlaces
  <2>. QED  BY <2>2, NoneOwn DEF Refused
<1>3. ServerMoves /\ forgotten' = forgotten
  BY <1>2, ServerStill DEF ServerKnows, Unreported
<1>4. Clean(p, 0) /\ Clean(p, mem[p].tok)
  BY <1>3, OldIsClean
<1>5. t # 0 /\ bearer'[t].fam # 0
  BY <1>1, <1>2, <1>3 DEF Local, CallInv, OnlyIssued, ServerMoves, Issued
<1>6. CASE InMemory(p) /\ mem[p].tok # t /\ UNCHANGED <<mem, flight>>
           /\ call' = [call EXCEPT ![p][i] = [IdleCall EXCEPT !.at = "have", !.tok = mem[p].tok, !.rej = t]]
  <2>1. mem[p].tok # 0 /\ mem[p].tok \in 0..MaxBearers
    BY <1>6, Before DEF InMemory
  <2>2. /\ Having(mem[p].tok, t) \in CallType /\ Having(mem[p].tok, t).at = "have"
        /\ Having(mem[p].tok, t).tok = mem[p].tok /\ Having(mem[p].tok, t).rej = t
    BY <1>1, <2>1, CallRecords
  <2>3. call' = [call EXCEPT ![p][i] = Having(mem[p].tok, t)] /\ mem' = mem /\ flight' = flight
        /\ mem' \in [Procs -> MemType]
    BY <1>1, <1>6 DEF Typed, Having
  <2>4. ProcStep(p) /\ NewSession(p)' /\ NewBearer(p)' /\ (Refreshing(p)' => Refreshing(p))
    <3>1. call[p][i].at \in {"idle", "have"} /\ mem'[p].mode = "work" /\ mem'[p].fence = mem[p].fence
          /\ (\A q \in Procs \ {p} : mem'[q] = mem[q]) /\ Clean(p, mem'[p].tok)
      BY <1>2, <1>4, <2>3
    <3>2. PICK c \in CallType : c = Having(mem[p].tok, t) /\ c.at = "have" /\ c.tok = mem[p].tok /\ c.rej = t
      BY <2>2
    <3>3. call' = [call EXCEPT ![p][i] = c] /\ c.tok # 0 /\ c.tok # c.rej /\ Clean(p, c.tok) /\ bearer'[c.rej].fam # 0
      BY <1>4, <1>5, <1>6, <2>1, <2>3, <3>2
    <3>. QED  BY <1>2, <1>3, <2>3, <3>1, <3>2, <3>3, CallerMoves
  <2>. QED  BY <1>2, <2>4, LocalStep
<1>7. CASE mem' = [mem EXCEPT ![p].tok = 0, ![p].current = i] /\ Refresh(p, i, [IdleCall EXCEPT !.rej = t])
  <2>. DEFINE c == [[IdleCall EXCEPT !.rej = t] EXCEPT !.at = "wait"]
  <2>2. c \in CallType /\ c.at = "wait" /\ c.tok = 0 /\ c.rej = t
    BY <1>1 DEF IdleCall, NoEnvelope, CallType, Envelopes, CallPlaces
  <2>. HIDE DEF c
  <2>3. /\ call' = [call EXCEPT ![p][i] = c]
        /\ flight' = [flight EXCEPT ![p] = IF @.at = "none" THEN RefreshBy(i)
                                           ELSE [flight[p] EXCEPT !.waiters = @ \cup {i}]]
    BY <1>7 DEF c, Refresh
  <2>4. mem' \in [Procs -> MemType] /\ (\A q \in Procs \ {p} : mem'[q] = mem[q])
        /\ mem'[p].mode = mem[p].mode /\ mem'[p].fence = mem[p].fence /\ mem'[p].tok = 0
    <3>1. [mem[p] EXCEPT !.tok = 0, !.current = i] \in MemType
      BY <1>1 DEF MemType
    <3>2. mem' = [mem EXCEPT ![p] = [mem[p] EXCEPT !.tok = 0, !.current = i]]
      BY <1>7
    <3>. QED  BY <1>1, <3>1, <3>2 DEF Typed, MemType
  <2>5. ProcStep(p) /\ NewSession(p)' /\ NewBearer(p)' /\ (Refreshing(p)' => Refreshing(p))
    <3>1. call[p][i].at \in {"idle", "have"} /\ mem'[p].mode = "work" /\ mem'[p].fence = mem[p].fence
          /\ Clean(p, mem'[p].tok) /\ Clean(p, c.tok)
      BY <1>2, <1>4, <2>2, <2>4
    <3>2. c.rej # 0 => bearer'[c.rej].fam # 0
      BY <1>5, <2>2
    <3>. QED  BY <1>2, <1>3, <2>2, <2>3, <2>4, <3>1, <3>2, CallerMoves
  <2>. QED  BY <1>2, <2>5, LocalStep
<1>. QED  BY <1>6, <1>7 DEF Refused

-----------------------------------------------------------------------------
(* The refresh *)

\* A refresh that got nothing: with the memory it has, or one that knows more.
LEMMA FailsStep ==
    ASSUME SessionInv, ServerMoves, bearer' = bearer, NEW p \in Procs, flight[p].at # "none",
           NEW m \in MemType, m.mode = mem[p].mode, m.tok = mem[p].tok, m.fence = mem[p].fence,
           NEW e, Settle(p, FALSE, e, m)
    PROVE  ProcStep(p) /\ ~Refreshing(p)' /\ NewSession(p)' /\ NewBearer(p)' /\ flight'[p].at \in {"none", "read"}
BY SettleStep

LEMMA FailedRefreshKeeps ==
    ASSUME SessionInv, NEW p \in Procs, flight[p].at # "none", Fails(p), DiskLoses,
           UNCHANGED remote, Unreported, Event \/ NoEvent
    PROVE  SessionInv'
<1>1. ServerKnows /\ ServerMoves /\ bearer' = bearer /\ mem[p] \in MemType /\ events' \in 0..MaxEvents
  BY ServerStill, Before, Counted DEF ServerKnows, remote
<1>2. ProcStep(p) /\ ~Refreshing(p)' /\ NewSession(p)' /\ NewBearer(p)'
  BY <1>1, FailsStep DEF Fails
<1>. QED  BY <1>1, <1>2, QuietStep DEF LawfulStep

\* #retain: what is stored is what the callers get.
LEMMA RetainedStep ==
    ASSUME SessionInv, ServerMoves, bearer' = bearer, NEW p \in Procs, flight[p].at # "none",
           NEW e, Sound(e), e = disk.env,
           ~flight[p].forget => e.tok # 0 /\ e.tok # call[p][flight[p].owner].rej,
           NEW m \in MemType, m.mode = mem[p].mode, m.tok = mem[p].tok, m.fence = mem[p].fence,
           Retained(p, e, m)
    PROVE  ProcStep(p) /\ ~Refreshing(p)' /\ NewSession(p)' /\ NewBearer(p)'
<1>. DEFINE m2 == IF m.mode = "logout" THEN [m EXCEPT !.fence = e] ELSE m
<1>1. e \in Envelopes
  BY DEF Sound
<1>2. m2 \in MemType /\ m2.mode = mem[p].mode /\ m2.tok = mem[p].tok
      /\ (m2.fence = mem[p].fence \/ (m2.mode = "logout" /\ m2.fence = e))
  BY <1>1 DEF MemType
<1>3. Settle(p, TRUE, e, m2)
  BY DEF Retained
<1>4. Foreign(p, e.fam)
  BY OldIsForeign
<1>. HIDE DEF m2
<1>. QED  BY <1>2, <1>3, <1>4, SettleStep

\* The next envelope of a session.
LEMMA NextEnvelope ==
    ASSUME NEW e \in Envelopes, NEW b \in 0..MaxBearers
    PROVE  LET n == [e EXCEPT !.rev = @ + 1, !.tok = b] IN
           n \in Envelopes /\ n.rev = e.rev + 1 /\ n.rev > 0 /\ n.fam = e.fam /\ n.tok = b
<1>1. e.rev \in Nat /\ e.rev + 1 \in Nat /\ e.rev + 1 > 0
  BY DEF Envelopes
<1>2. PICK r : r = e.rev + 1
  OBVIOUS
<1>3. [e EXCEPT !.rev = r, !.tok = b] \in Envelopes
  BY <1>1, <1>2 DEF Envelopes
<1>4. /\ [e EXCEPT !.rev = r, !.tok = b].rev = r /\ [e EXCEPT !.rev = r, !.tok = b].fam = e.fam
      /\ [e EXCEPT !.rev = r, !.tok = b].tok = b
  BY DEF Envelopes
<1>. QED  BY <1>1, <1>2, <1>3, <1>4

\* withRefreshLock: nobody else had the lock.
LEMMA FlightLocksKeeps ==
    ASSUME SessionInv, NEW p \in Procs, FlightLocks(p)
    PROVE  SessionInv'
<1>. USE Domains
<1>. DEFINE fl == [flight[p] EXCEPT !.at = "locked"]
<1>1. /\ Typed /\ Local(p) /\ flight[p] \in FlightType /\ flight[p].at = "read" /\ LockFree
      /\ mem' = mem /\ call' = call /\ flight' = [flight EXCEPT ![p] = fl]
      /\ UNCHANGED <<disk, remote>> /\ Unreported /\ NoEvent /\ ServerMoves
  BY Before, ServerStill DEF FlightLocks, ServerKnows, remote
<1>2. /\ fl \in FlightType /\ fl.at = "locked" /\ fl.owner = flight[p].owner
      /\ fl.waiters = flight[p].waiters /\ fl.forget = flight[p].forget
  BY <1>1 DEF FlightType, FlightPlaces
<1>3. PICK g \in FlightType : g = fl
  BY <1>2
<1>. HIDE DEF fl
<1>4. flight' = [flight EXCEPT ![p] = g] /\ flight'[p] = g
  BY <1>1, <1>3 DEF Typed
<1>5. FlightInv(p)' /\ ~HasRead(p)' /\ NewBearer(p)'
  BY <1>1, <1>2, <1>3, <1>4 DEF Local, FlightInv, HasRead, NewBearer
<1>6. mem' \in [Procs -> MemType] /\ mem'[p] = mem[p]
  BY <1>1 DEF Typed
<1>7. ProcStep(p) /\ NewSession(p)'
  BY <1>1, <1>4, <1>5, <1>6, FlightMoves
<1>. QED  BY <1>1, <1>5, <1>7, LocalStep

LEMMA FlightReadKeeps ==
    ASSUME SessionInv, NEW p \in Procs, FlightRead(p)
    PROVE  SessionInv'
<1>. USE Domains
<1>0. PICK e : e = Observed
  OBVIOUS
<1>. DEFINE fl == flight[p]
            m == [mem[p] EXCEPT !.probed = TRUE]
            to(where, next) == [fl EXCEPT !.at = where, !.env = e, !.next = next]
<1>1. /\ Typed /\ Local(p) /\ fl \in FlightType /\ mem[p] \in MemType /\ fl.at = "locked" /\ Refreshing(p)
      /\ disk' = AfterRead /\ UNCHANGED remote /\ Unreported /\ NoEvent
  BY Before DEF FlightRead, Refreshing
<1>2. ServerKnows /\ ServerMoves /\ bearer' = bearer /\ DiskLoses /\ events' \in 0..MaxEvents
  BY <1>1, ServerStill, DiskOps, Counted DEF ServerKnows, remote
<1>3. m \in MemType /\ m.mode = mem[p].mode /\ m.tok = mem[p].tok /\ m.fence = mem[p].fence /\ m.rev = mem[p].rev
  BY <1>1 DEF MemType
<1>4. e # NoEnvelope => Sound(e) /\ e = disk.env
  BY <1>0, Before DEF Observed, DiskInv
<1>5. CASE Settle(p, FALSE, e, m)
  <2>1. ProcStep(p) /\ ~Refreshing(p)' /\ NewSession(p)' /\ NewBearer(p)'
    BY <1>1, <1>2, <1>3, <1>5, FailsStep
  <2>. QED  BY <1>1, <1>2, <2>1, QuietStep DEF LawfulStep
<1>6. CASE e # NoEnvelope /\ Retained(p, e, m) /\ (~fl.forget => Usable(e, call[p][fl.owner].rej))
  <2>1. ~fl.forget => e.tok # 0 /\ e.tok # call[p][fl.owner].rej
    BY <1>6 DEF Usable
  <2>2. ProcStep(p) /\ ~Refreshing(p)' /\ NewSession(p)' /\ NewBearer(p)'
    BY <1>1, <1>2, <1>3, <1>4, <1>6, <2>1, RetainedStep
  <2>. QED  BY <1>1, <1>2, <2>2, QuietStep DEF LawfulStep
<1>7. ASSUME NEW where \in {"write", "reject", "exchange"}, NEW next \in Envelopes, e # NoEnvelope,
             flight' = [flight EXCEPT ![p] = to(where, next)], mem' = [mem EXCEPT ![p] = m], call' = call,
             fl.forget <=> where = "write",
             where = "write" => Sound(next) /\ next.fam = e.fam /\ next.tok = 0 /\ e.tok # 0
      PROVE  SessionInv'
  <2>1. e \in Envelopes /\ Sound(e)' /\ (where = "write" => Sound(next)')
    BY <1>1, <1>2, <1>4, <1>7, SoundStays DEF Sound
  <2>2. /\ to(where, next) \in FlightType /\ to(where, next).at = where
        /\ to(where, next).owner = fl.owner /\ to(where, next).waiters = fl.waiters
        /\ to(where, next).forget = fl.forget
        /\ to(where, next).env = e /\ to(where, next).next = next
    BY <1>1, <2>1 DEF FlightType, FlightPlaces
  <2>3. PICK g \in FlightType : g = to(where, next)
    BY <2>2
  <2>. HIDE DEF to, m
  <2>4. flight'[p] = g /\ flight' = [flight EXCEPT ![p] = g]
    BY <1>1, <1>7, <2>3 DEF Typed
  <2>5. mem' \in [Procs -> MemType] /\ (\A q \in Procs \ {p} : mem'[q] = mem[q]) /\ mem'[p] = m
    BY <1>1, <1>3, <1>7 DEF Typed
  <2>6. FlightInv(p)'
    <3>1. fl.forget => mem[p].mode = "logout"
      BY <1>1 DEF Local, FlightInv
    <3>2. /\ fl.owner \in fl.waiters /\ \A i \in fl.waiters : call[p][i].at = "wait"
          /\ mem[p].mode = "logout" => fl.waiters = {1} /\ fl.owner = 1
      BY <1>1 DEF Local, FlightInv
    <3>. QED  BY <1>3, <1>7, <2>1, <2>2, <2>3, <2>4, <2>5, <3>1, <3>2 DEF FlightInv, Refreshing, HasRead
  <2>7. Foreign(p, g.env.fam)
    BY <1>4, <1>7, <2>2, <2>3, OldIsForeign
  <2>8. ProcStep(p) /\ NewSession(p)'
    BY <1>1, <1>2, <1>3, <1>7, <2>4, <2>5, <2>6, <2>7, FlightMoves
  <2>9. NewBearer(p)'
    <3>1. 0 \notin forgotten /\ forgotten' = forgotten
      BY <1>1 DEF Typed, Unreported
    <3>. QED  BY <1>7, <2>2, <2>3, <2>4, <3>1 DEF NewBearer
  <2>. QED  BY <1>1, <1>2, <2>8, <2>9, QuietStep DEF LawfulStep
<1>8. NoEnvelope \in Envelopes
  BY DEF NoEnvelope, Envelopes
<1>9. CASE e # NoEnvelope /\ fl.forget /\ e.tok # 0 /\ call' = call /\ mem' = [mem EXCEPT ![p] = m]
           /\ flight' = [flight EXCEPT ![p] = to("write", WithoutAccess(e))]
  <2>1. WithoutAccess(e) \in Envelopes /\ Sound(WithoutAccess(e)) /\ WithoutAccess(e).fam = e.fam /\ WithoutAccess(e).tok = 0
    <3>1. e \in Envelopes /\ 0 \in 0..MaxBearers /\ e.fam \in Families /\ family[e.fam] # "none"
      BY <1>4, <1>9 DEF Sound
    <3>2. LET n == WithoutAccess(e) IN n \in Envelopes /\ n.rev > 0 /\ n.fam = e.fam /\ n.tok = 0
      BY <3>1, NextEnvelope DEF WithoutAccess
    <3>. QED  BY <3>1, <3>2 DEF Sound
  <2>. HIDE DEF to, m
  <2>. QED  BY <1>7, <1>9, <2>1
<1>10. CASE e # NoEnvelope /\ ~fl.forget /\ call' = call /\ mem' = [mem EXCEPT ![p] = m]
            /\ \/ flight' = [flight EXCEPT ![p] = to("reject", NoEnvelope)]
               \/ flight' = [flight EXCEPT ![p] = to("exchange", NoEnvelope)]
  <2>. HIDE DEF to, m
  <2>. QED  BY <1>7, <1>8, <1>10
<1>. QED
  <2>1. \/ e = NoEnvelope /\ Settle(p, FALSE, e, m)
        \/ e # NoEnvelope /\ fl.forget /\ e.tok = 0 /\ Retained(p, e, m)
        \/ /\ e # NoEnvelope /\ fl.forget /\ e.tok # 0 /\ call' = call /\ mem' = [mem EXCEPT ![p] = m]
           /\ flight' = [flight EXCEPT ![p] = to("write", WithoutAccess(e))]
        \/ /\ e # NoEnvelope /\ ~fl.forget /\ call' = call /\ mem' = [mem EXCEPT ![p] = m]
           /\ \/ flight' = [flight EXCEPT ![p] = to("reject", NoEnvelope)]
              \/ flight' = [flight EXCEPT ![p] = to("exchange", NoEnvelope)]
        \/ e # NoEnvelope /\ ~fl.forget /\ Usable(e, call[p][fl.owner].rej) /\ Retained(p, e, m)
    BY <1>0 DEF FlightRead
  <2>. HIDE DEF to, m
  <2>. QED  BY <1>5, <1>6, <1>9, <1>10, <2>1

LEMMA FlightRefusedKeeps ==
    ASSUME SessionInv, NEW p \in Procs, FlightRefused(p) \/ ExchangeFails(p)
    PROVE  SessionInv'
BY DiskOps, FailedRefreshKeeps DEF FlightRefused, ExchangeFails, remote

\* What a refresh knows while it holds its lock.
LEMMA RefreshingFacts ==
    ASSUME SessionInv, NEW p \in Procs, HasRead(p)
    PROVE  /\ flight[p] \in FlightType /\ flight[p].env \in Envelopes /\ flight[p].env.rev \in Nat
           /\ Sound(flight[p].env) /\ flight[p].env.fam \in Families /\ flight[p].env.tok \in 0..MaxBearers
           /\ Foreign(p, flight[p].env.fam) /\ family[flight[p].env.fam] # "none"
           /\ flight[p].at # "none" /\ FlightInv(p) /\ mem[p] \in MemType
           /\ flight[p].owner \in Calls
<1>1. flight[p] \in FlightType /\ FlightInv(p) /\ mem[p] \in MemType /\ flight[p].at # "none"
  BY Before DEF Local, Refreshing, HasRead
<1>2. Sound(flight[p].env)
  BY <1>1 DEF FlightInv
<1>3. flight[p].owner \in Calls
  BY <1>1 DEF FlightInv, FlightType
<1>. QED  BY <1>1, <1>2, <1>3, OldIsForeign DEF Sound, Envelopes

\* The server issues a bearer.
LEMMA IssueMoves ==
    ASSUME SessionInv, NEW b \in Bearers, NEW f \in Families, Issue(b, f)
    PROVE  /\ ~Issued(b) /\ bearer'[b].fam = f /\ \A c \in Bearers \ {b} : bearer'[c] = bearer[c]
           /\ bearer' \in [Bearers -> [fam : 0..MaxLogins, age : 0..2, refused : BOOLEAN]]
<1>. USE Domains
<1>1. Typed /\ bearer[b] = Unissued /\ bearer' = [bearer EXCEPT ![b] = [bearer[b] EXCEPT !.fam = f]]
  BY Before DEF Issue
<1>2. [Unissued EXCEPT !.fam = f] \in [fam : 0..MaxLogins, age : 0..2, refused : BOOLEAN]
      /\ [Unissued EXCEPT !.fam = f].fam = f /\ Unissued.fam = 0
  <2>1. Unissued \in [fam : 0..MaxLogins, age : 0..2, refused : BOOLEAN] /\ Unissued.fam = 0
    BY DEF Unissued
  <2>2. \A r \in [fam : 0..MaxLogins, age : 0..2, refused : BOOLEAN] :
           [r EXCEPT !.fam = f] \in [fam : 0..MaxLogins, age : 0..2, refused : BOOLEAN] /\ [r EXCEPT !.fam = f].fam = f
    OBVIOUS
  <2>. QED  BY <2>1, <2>2
<1>. QED  BY <1>1, <1>2 DEF Typed, Issued

\* A refresh that keeps its lock and goes on to a place of its own.
LEMMA GoesOn ==
    ASSUME SessionInv, ServerMoves, NEW p \in Procs, HasRead(p), mem' = mem, call' = call,
           NEW at \in {"write", "settle", "reject"}, NEW next, NEW terminal \in BOOLEAN,
           flight' = [flight EXCEPT ![p] = [flight[p] EXCEPT !.at = at, !.next = next, !.terminal = terminal]],
           next \in Envelopes,
           at = "reject" => ~flight[p].forget,
           at \in {"write", "settle"} =>
              /\ Sound(next)' /\ next.fam = flight[p].env.fam
              /\ flight[p].forget => next.tok = 0 /\ flight[p].env.tok # 0
              /\ ~flight[p].forget => next.tok # 0 /\ next.tok # call[p][flight[p].owner].rej,
           at = "write" => next.tok \notin forgotten'
    PROVE  ProcStep(p) /\ NewSession(p)' /\ NewBearer(p)' /\ (Refreshing(p)' => Refreshing(p))
<1>. USE Domains
<1>. DEFINE fl == [flight[p] EXCEPT !.at = at, !.next = next, !.terminal = terminal]
<1>1. Typed /\ flight[p] \in FlightType /\ Sound(flight[p].env) /\ FlightInv(p) /\ flight[p].at # "none"
      /\ Foreign(p, flight[p].env.fam)
  BY Before, RefreshingFacts
<1>2. /\ fl \in FlightType /\ fl.at = at /\ fl.owner = flight[p].owner /\ fl.waiters = flight[p].waiters
      /\ fl.forget = flight[p].forget /\ fl.env = flight[p].env /\ fl.next = next
  BY <1>1 DEF FlightType, FlightPlaces
<1>3. PICK g \in FlightType : g = fl
  BY <1>2
<1>. HIDE DEF fl
<1>4. flight' = [flight EXCEPT ![p] = g] /\ flight'[p] = g
  BY <1>1, <1>3 DEF fl, Typed
<1>5. Sound(flight[p].env)' /\ flight'[p].env = flight[p].env
  <2>1. PICK d : d = flight[p].env
    OBVIOUS
  <2>2. Sound(d)' /\ flight'[p].env = d
    BY <1>1, <1>2, <1>3, <1>4, <2>1, SoundStays
  <2>. QED  BY <2>1, <2>2 DEF Sound
<1>6. FlightInv(p)'
  <2>1. /\ flight[p].owner \in flight[p].waiters /\ \A i \in flight[p].waiters : call[p][i].at = "wait"
        /\ mem[p].mode = "logout" => flight[p].waiters = {1} /\ flight[p].owner = 1
        /\ flight[p].forget => mem[p].mode = "logout"
    BY <1>1 DEF FlightInv
  <2>2. Sound(flight[p].next)' <=> Sound(next)'
    BY <1>2, <1>3, <1>4 DEF Sound
  <2>. QED  BY <1>2, <1>3, <1>4, <1>5, <2>1, <2>2 DEF FlightInv, Refreshing, HasRead
<1>7. mem' \in [Procs -> MemType]
  BY <1>1 DEF Typed
<1>8. ProcStep(p) /\ NewSession(p)'
  BY <1>1, <1>2, <1>3, <1>4, <1>6, <1>7, FlightMoves
<1>9. NewBearer(p)'
  BY <1>2, <1>3, <1>4 DEF NewBearer
<1>. QED  BY <1>8, <1>9 DEF Refreshing, HasRead

LEMMA ExchangedKeeps ==
    ASSUME SessionInv, NEW p \in Procs, Exchanged(p)
    PROVE  SessionInv'
<1>. USE Domains
<1>. DEFINE fl == flight[p]
            f == flight[p].env.fam
<1>1. /\ fl.at = "exchange" /\ Refreshing(p) /\ ~fl.forget
      /\ Typed /\ Known /\ DiskInv /\ OnlyIssued /\ Local(p)
  <2>1. fl.at = "exchange" /\ Refreshing(p)
    BY DEF Exchanged, Refreshing, HasRead
  <2>. QED  BY <2>1, RefreshingFacts, Before DEF FlightInv, Refreshing, HasRead
<1>2. fl \in FlightType /\ fl.env \in Envelopes /\ Sound(fl.env) /\ f \in Families /\ Foreign(p, f)
      /\ family[f] # "none" /\ fl.owner \in Calls
  BY <1>1, RefreshingFacts DEF Refreshing, HasRead
<1>3. PICK b \in Bearers :
        /\ Issue(b, f)
        /\ flight' = [flight EXCEPT ![p].at = "write", ![p].next = [fl.env EXCEPT !.rev = fl.env.rev + 1, !.tok = b]]
  BY DEF Exchanged
<1>4. PICK n \in Envelopes : n = [fl.env EXCEPT !.rev = fl.env.rev + 1, !.tok = b]
                             /\ n.rev > 0 /\ n.fam = f /\ n.tok = b
  <2>1. b \in 0..MaxBearers
    OBVIOUS
  <2>2. LET n == [fl.env EXCEPT !.rev = @ + 1, !.tok = b] IN
        n \in Envelopes /\ n.rev = fl.env.rev + 1 /\ n.rev > 0 /\ n.fam = f /\ n.tok = b
    BY <1>2, <2>1, NextEnvelope
  <2>. QED  BY <2>2
<1>5. flight' = [flight EXCEPT ![p] = [fl EXCEPT !.at = "write", !.next = n, !.terminal = fl.terminal]]
  <2>1. [fl EXCEPT !.at = "write", !.next = n, !.terminal = fl.terminal] = [fl EXCEPT !.at = "write", !.next = n]
    BY <1>2 DEF FlightType
  <2>2. flight' = [flight EXCEPT ![p] = [fl EXCEPT !.at = "write", !.next = n]]
    BY <1>1, <1>3, <1>4 DEF Typed
  <2>. QED  BY <2>1, <2>2
<1>6. /\ disk' = disk /\ family' = family /\ lapsed' = lapsed /\ mem' = mem /\ call' = call
      /\ closed' = closed /\ forgotten' = forgotten /\ events' = events
  BY DEF Exchanged, Unreported, NoEvent
<1>7. /\ ~Issued(b) /\ bearer'[b].fam = f /\ \A c \in Bearers \ {b} : bearer'[c] = bearer[c]
      /\ bearer' \in [Bearers -> [fam : 0..MaxLogins, age : 0..2, refused : BOOLEAN]]
  BY <1>2, <1>3, IssueMoves
<1>8. ServerMoves
  BY <1>6, <1>7 DEF ServerMoves
<1>9. Sound(n)' /\ b \notin forgotten' /\ b # call[p][fl.owner].rej /\ b # 0
  <2>1. Sound(n)'
    BY <1>2, <1>4, <1>6, <1>7 DEF Sound
  <2>2. b \notin forgotten
    BY <1>1, <1>7 DEF Known
  <2>3. b # call[p][fl.owner].rej
    BY <1>1, <1>2, <1>7 DEF Local, CallInv
  <2>. QED  BY <1>6, <2>1, <2>2, <2>3
<1>10. ProcStep(p) /\ NewSession(p)' /\ NewBearer(p)' /\ (Refreshing(p)' => Refreshing(p))
  <2>1. fl.terminal \in BOOLEAN
    BY <1>2 DEF FlightType
  <2>2. /\ n.fam = fl.env.fam /\ n.tok # 0 /\ n.tok # call[p][fl.owner].rej /\ n.tok \notin forgotten'
        /\ Sound(n)'
    BY <1>4, <1>9
  <2>. QED  BY <1>1, <1>5, <1>6, <1>8, <2>1, <2>2, GoesOn DEF Refreshing, HasRead
<1>11. Modest(p)
  BY <1>2, <1>6, <1>7, OldIsForeign DEF Modest
<1>12. Typed'
  BY <1>1, <1>6, <1>7, <1>10 DEF Typed, ProcStep
<1>13. DiskInv'
  <2>1. PICK d : d = disk.env
    OBVIOUS
  <2>2. Sound(d) => Sound(d)'
    BY <1>1, <1>8, SoundStays
  <2>. QED  BY <1>1, <1>6, <2>1, <2>2 DEF DiskInv, Sound
<1>14. Known'
  <2>1. ASSUME NEW c \in Bearers, Issued(c)'  PROVE family'[bearer'[c].fam] # "none"
    BY <1>1, <1>2, <1>6, <1>7, <2>1 DEF Known, Issued
  <2>2. \A g \in closed' : family'[g] # "none"
    BY <1>1, <1>6 DEF Known
  <2>3. ASSUME NEW c \in forgotten'  PROVE Issued(c)'
    BY <1>1, <1>6, <1>8 DEF Known, Typed, ServerMoves, Issued
  <2>. QED  BY <2>1, <2>2, <2>3 DEF Known
<1>15. RemovedStaysGone' /\ ForgottenStaysGone'
  BY <1>6 DEF SessionInv, RemovedStaysGone, ForgottenStaysGone
<1>. QED  BY <1>6, <1>8, <1>10, <1>11, <1>12, <1>13, <1>14, <1>15, StepKeeps

LEMMA ExchangeRejectsKeeps ==
    ASSUME SessionInv, NEW p \in Procs, ExchangeMismatch(p) \/ ExchangeRejected(p)
    PROVE  SessionInv'
<1>. USE Domains
<1>. DEFINE fl == flight[p]
            f == flight[p].env.fam
<1>1. fl.at = "exchange" /\ Refreshing(p) /\ disk' = disk /\ mem' = mem /\ call' = call /\ Unreported
      /\ lapsed' = lapsed /\ bearer' = bearer /\ (Event \/ NoEvent)
  BY DEF ExchangeMismatch, ExchangeRejected, Refreshing, HasRead, remote
<1>2. fl \in FlightType /\ f \in Families /\ family[f] # "none" /\ ~fl.forget /\ Typed
  BY <1>1, RefreshingFacts, Before DEF FlightInv, Refreshing, HasRead
<1>3. ServerKnows
  <2>1. family' \in {family, [family EXCEPT ![f] = "revoked"]}
    BY DEF ExchangeMismatch, ExchangeRejected, remote
  <2>. QED  BY <1>1, <1>2, <2>1, ServerRevokes
<1>4. PICK t \in BOOLEAN :
        flight' = [flight EXCEPT ![p] = [fl EXCEPT !.at = "reject", !.next = fl.next, !.terminal = t]]
  <2>1. CASE flight' = [flight EXCEPT ![p].at = "reject"]
    <3>1. [fl EXCEPT !.at = "reject", !.next = fl.next, !.terminal = fl.terminal] = [fl EXCEPT !.at = "reject"]
          /\ fl.terminal \in BOOLEAN
      BY <1>2 DEF FlightType
    <3>2. flight' = [flight EXCEPT ![p] = [fl EXCEPT !.at = "reject"]]
      BY <1>2, <2>1 DEF Typed
    <3>. QED  BY <3>1, <3>2
  <2>2. CASE flight' = [flight EXCEPT ![p].at = "reject", ![p].terminal = TRUE]
    <3>1. [fl EXCEPT !.at = "reject", !.next = fl.next, !.terminal = TRUE] = [fl EXCEPT !.at = "reject", !.terminal = TRUE]
      BY <1>2 DEF FlightType
    <3>2. flight' = [flight EXCEPT ![p] = [fl EXCEPT !.at = "reject", !.terminal = TRUE]]
      BY <1>2, <2>2 DEF Typed
    <3>. QED  BY <3>1, <3>2
  <2>. QED  BY <2>1, <2>2 DEF ExchangeMismatch, ExchangeRejected
<1>5. ProcStep(p) /\ NewSession(p)' /\ NewBearer(p)' /\ (Refreshing(p)' => Refreshing(p))
  <2>1. ServerMoves /\ fl.next \in Envelopes
    BY <1>2, <1>3 DEF ServerKnows, FlightType
  <2>. QED  BY <1>1, <1>2, <1>4, <2>1, GoesOn DEF Refreshing, HasRead
<1>. QED  BY <1>1, <1>3, <1>5, DiskOps, Counted, QuietStep DEF LawfulStep

\* What a refresh that has a bearer to store, or that forgets one, is about.
LEMMA WritingFacts ==
    ASSUME SessionInv, NEW p \in Procs, flight[p].at \in {"write", "settle"}
    PROVE  /\ Refreshing(p) /\ Sound(flight[p].next) /\ flight[p].next \in Envelopes
           /\ flight[p].next.fam = flight[p].env.fam /\ Foreign(p, flight[p].next.fam)
           /\ flight[p].next # NoEnvelope /\ flight[p].env # NoEnvelope
           /\ flight[p].forget => flight[p].next.tok = 0 /\ flight[p].env.tok # 0
           /\ ~flight[p].forget => flight[p].next.tok # 0
                                   /\ flight[p].next.tok # call[p][flight[p].owner].rej
           /\ flight[p].env.tok # 0 =>
                 flight[p].env.tok \in Bearers /\ bearer[flight[p].env.tok].fam = flight[p].env.fam
                 /\ Issued(flight[p].env.tok)
<1>. USE Domains
<1>1. Refreshing(p)
  BY DEF Refreshing, HasRead
<1>2. FlightInv(p) /\ flight[p].env.fam \in Families /\ flight[p].env.tok \in 0..MaxBearers
      /\ Foreign(p, flight[p].env.fam) /\ Sound(flight[p].env)
  BY <1>1, RefreshingFacts DEF Refreshing, HasRead
<1>3. Sound(flight[p].next) /\ flight[p].next.fam = flight[p].env.fam
  BY <1>2 DEF FlightInv
<1>4. NoEnvelope.fam = 0
  BY DEF NoEnvelope
<1>5. flight[p].env.tok # 0 =>
                 flight[p].env.tok \in Bearers /\ bearer[flight[p].env.tok].fam = flight[p].env.fam
                 /\ Issued(flight[p].env.tok)
  BY <1>2 DEF Sound, Issued
<1>6. /\ flight[p].forget => flight[p].next.tok = 0 /\ flight[p].env.tok # 0
      /\ ~flight[p].forget => flight[p].next.tok # 0
                              /\ flight[p].next.tok # call[p][flight[p].owner].rej
  BY <1>2 DEF FlightInv
<1>. QED  BY <1>1, <1>2, <1>3, <1>4, <1>5, <1>6 DEF Sound

\* The rotation is stored and its callers have it.
LEMMA RotatedKeeps ==
    ASSUME SessionInv, NEW p \in Procs, flight[p].at \in {"write", "settle"},
           disk' = [env |-> flight[p].next, key |-> "ok"],
           flight[p].next.fam \notin closed, flight[p].next.tok \notin forgotten,
           UNCHANGED remote, Rotated(p), NoEvent
    PROVE  SessionInv'
<1>. USE Domains
<1>. DEFINE fl == flight[p]
            m == [mem[p] EXCEPT !.revoked = FALSE]
            B == IF fl.forget THEN {fl.env.tok} ELSE {}
<1>1. Typed /\ mem[p] \in MemType /\ fl.at # "none" /\ Refreshing(p) /\ fl.forget \in BOOLEAN
  BY Before, WritingFacts, RefreshingFacts DEF FlightType
<1>2. m \in MemType /\ m.mode = mem[p].mode /\ m.tok = mem[p].tok /\ m.fence = mem[p].fence
  BY <1>1 DEF MemType
<1>3. ServerKnows /\ ServerMoves /\ bearer' = bearer /\ events' \in 0..MaxEvents
  BY ServerStill, Counted DEF ServerKnows, remote
<1>4. Settle(p, TRUE, fl.next, m) /\ closed' = closed /\ forgotten' = forgotten \cup B
  BY DEF Rotated
<1>. HIDE DEF m
<1>5. ProcStep(p) /\ ~Refreshing(p)' /\ NewSession(p)' /\ NewBearer(p)'
  BY <1>1, <1>2, <1>3, <1>4, WritingFacts, SettleStep
<1>6. /\ B \in SUBSET Bearers /\ \A b \in B : Issued(b) /\ Foreign(p, bearer[b].fam)
      /\ fl.next.tok \notin forgotten'
  BY <1>1, <1>4, WritingFacts
<1>7. LawfulStep(p)
  BY <1>3, <1>5 DEF LawfulStep
<1>. HIDE DEF B
<1>8. PICK e : e = fl.next
  OBVIOUS
<1>9. Sound(e) /\ Foreign(p, e.fam) /\ e.fam \notin closed /\ e.tok \notin forgotten' /\ disk' = [env |-> e, key |-> "ok"]
  BY <1>6, <1>8, WritingFacts
<1>. QED  BY <1>1, <1>3, <1>4, <1>6, <1>7, <1>9, StoreStep

\* The rotation is stored, whoever knows.
LEMMA WrittenKeeps ==
    ASSUME SessionInv, NEW p \in Procs, LawfulStep(p), ServerKnows, NEW e, Sound(e), Foreign(p, e.fam),
           disk' = [env |-> e, key |-> "ok"], e.fam \notin closed, e.tok \notin forgotten, Unreported
    PROVE  SessionInv'
<1>1. {} \in SUBSET Bearers /\ closed' = closed /\ forgotten' = forgotten \cup {} /\ e.tok \notin forgotten'
  BY DEF Unreported
<1>. QED  BY <1>1, StoreStep

LEMMA FlightWriteKeeps ==
    ASSUME SessionInv, NEW p \in Procs, FlightWrite(p)
    PROVE  SessionInv'
<1>. USE Domains
<1>. DEFINE fl == flight[p]
<1>1. fl.at = "write" /\ UNCHANGED remote /\ Typed /\ fl \in FlightType
  BY Before DEF FlightWrite
<1>2. ServerKnows /\ ServerMoves /\ bearer' = bearer
  BY <1>1, ServerStill DEF ServerKnows, remote
<1>3. Refreshing(p) /\ fl.at # "none" /\ fl.env # NoEnvelope /\ fl.next \in Envelopes
  BY <1>1, WritingFacts
<1>4. ASSUME CompareAndSwap(fl.env, fl.next) \/ TornSwap(fl.env, fl.next)
      PROVE  /\ disk' = [env |-> fl.next, key |-> "ok"] /\ disk.env = fl.env
             /\ fl.next.fam \notin closed /\ fl.next.tok \notin forgotten
  <2>1. disk' = [env |-> fl.next, key |-> "ok"] /\ disk.env = fl.env
    BY <1>3, <1>4 DEF CompareAndSwap, TornSwap, Observed
  <2>2. disk.env.fam \notin closed
    BY DEF SessionInv, RemovedStaysGone
  <2>3. fl.next.tok \notin forgotten
    BY <1>1, Before DEF NewBearer
  <2>. QED  BY <1>1, <2>1, <2>2, <2>3, WritingFacts
<1>5. PICK n : n = fl.next /\ Sound(n) /\ Foreign(p, n.fam)
  BY <1>1, WritingFacts
<1>6. CASE CompareAndSwap(fl.env, fl.next) /\ Rotated(p) /\ NoEvent
  BY <1>1, <1>4, <1>6, RotatedKeeps
<1>7. CASE SwapConflict(fl.env) /\ Fails(p) /\ Unreported /\ NoEvent
  BY <1>1, <1>3, <1>7, DiskOps, FailedRefreshKeeps
<1>8. CASE /\ CompareAndSwap(fl.env, fl.next) \/ StoreThrows
           /\ flight' = [flight EXCEPT ![p].at = "settle"]
           /\ mem' = mem /\ call' = call /\ Unreported /\ Event
  <2>1. flight' = [flight EXCEPT ![p] = [fl EXCEPT !.at = "settle", !.next = fl.next, !.terminal = fl.terminal]]
    <3>1. [fl EXCEPT !.at = "settle", !.next = fl.next, !.terminal = fl.terminal] = [fl EXCEPT !.at = "settle"]
      BY <1>1 DEF FlightType
    <3>2. flight' = [flight EXCEPT ![p] = [fl EXCEPT !.at = "settle"]]
      BY <1>1, <1>8 DEF Typed
    <3>. QED  BY <3>1, <3>2
  <2>2. fl.terminal \in BOOLEAN
    BY <1>1 DEF FlightType
  <2>0. HasRead(p)
    BY <1>1 DEF HasRead
  <2>3. Sound(n)'
    BY <1>1, <1>2, <1>5, SoundStays
  <2>4. /\ flight' = [flight EXCEPT ![p] = [flight[p] EXCEPT !.at = "settle", !.next = n, !.terminal = fl.terminal]]
        /\ n \in Envelopes /\ n.fam = fl.env.fam
        /\ fl.forget => n.tok = 0 /\ fl.env.tok # 0
        /\ ~fl.forget => n.tok # 0 /\ n.tok # call[p][fl.owner].rej
    BY <1>1, <1>5, <2>1, WritingFacts
  <2>5. ProcStep(p) /\ NewSession(p)' /\ NewBearer(p)' /\ (Refreshing(p)' => Refreshing(p))
    BY <1>2, <1>3, <1>8, <2>0, <2>2, <2>3, <2>4, GoesOn
  <2>6. LawfulStep(p)
    BY <1>8, <2>5, Counted DEF LawfulStep
  <2>7. CASE CompareAndSwap(fl.env, fl.next)
    BY <1>2, <1>4, <1>5, <1>8, <2>6, <2>7, WrittenKeeps
  <2>8. CASE StoreThrows
    BY <1>2, <1>8, <2>6, <2>8, DiskOps, QuietStep
  <2>. QED  BY <1>8, <2>7, <2>8
<1>9. CASE TornSwap(fl.env, fl.next) /\ Exit(p) /\ Unreported /\ Event
  <2>1. LawfulStep(p)
    BY <1>2, <1>9, ExitStep, Counted DEF LawfulStep
  <2>. QED  BY <1>2, <1>4, <1>5, <1>9, <2>1, WrittenKeeps
<1>. QED  BY <1>6, <1>7, <1>8, <1>9 DEF FlightWrite

LEMMA FlightSettleKeeps ==
    ASSUME SessionInv, NEW p \in Procs, FlightSettle(p)
    PROVE  SessionInv'
<1>. USE Domains
<1>. DEFINE fl == flight[p]
<1>1. fl.at = "settle" /\ fl.at # "none" /\ UNCHANGED remote /\ disk' = AfterRead /\ Typed
  BY Before DEF FlightSettle
<1>2. CASE Observed = fl.next /\ Rotated(p) /\ NoEvent
  <2>1. disk.env = fl.next /\ disk.key = "ok" /\ disk' = disk
    BY <1>1, <1>2, WritingFacts DEF Observed, Readable, AfterRead
  <2>2. disk = [env |-> fl.next, key |-> "ok"]
    BY <1>1, <2>1 DEF Typed
  <2>3. fl.next.fam \notin closed /\ fl.next.tok \notin forgotten
    BY <2>1 DEF SessionInv, RemovedStaysGone, ForgottenStaysGone
  <2>. QED  BY <1>1, <1>2, <2>1, <2>2, <2>3, RotatedKeeps
<1>3. CASE Fails(p) /\ Unreported /\ (Event \/ NoEvent)
  BY <1>1, <1>3, DiskOps, FailedRefreshKeeps
<1>. QED  BY <1>2, <1>3 DEF FlightSettle

LEMMA FlightRejectKeeps ==
    ASSUME SessionInv, NEW p \in Procs, FlightReject(p)
    PROVE  SessionInv'
<1>. USE Domains
<1>. DEFINE fl == flight[p]
            m == [mem[p] EXCEPT !.revoked = TRUE]
<1>1. fl.at = "reject" /\ fl.at # "none" /\ Refreshing(p) /\ UNCHANGED remote /\ Typed /\ mem[p] \in MemType
  BY Before DEF FlightReject, Refreshing, HasRead
<1>2. ServerKnows /\ ServerMoves /\ bearer' = bearer
  BY <1>1, ServerStill DEF ServerKnows, remote
<1>3. CASE CompareAndDelete(fl.env) /\ Exit(p) /\ Reported(fl.env.fam) /\ NoEvent
  <2>1. LawfulStep(p) /\ disk' = Deleted
    BY <1>2, <1>3, ExitStep, Counted DEF LawfulStep, CompareAndDelete
  <2>2. fl.env.fam \in Families /\ family[fl.env.fam] # "none" /\ Foreign(p, fl.env.fam)
    BY <1>1, RefreshingFacts DEF Refreshing, HasRead
  <2>. QED  BY <1>2, <1>3, <2>1, <2>2, ReportStep
<1>4. CASE CompareAndDelete(fl.env) /\ Settle(p, FALSE, NoEnvelope, m) /\ Unreported /\ NoEvent
  <2>1. m \in MemType /\ m.mode = mem[p].mode /\ m.tok = mem[p].tok /\ m.fence = mem[p].fence
    BY <1>1 DEF MemType
  <2>. HIDE DEF m
  <2>2. ProcStep(p) /\ ~Refreshing(p)' /\ NewSession(p)' /\ NewBearer(p)'
    BY <1>1, <1>2, <1>4, <2>1, FailsStep
  <2>3. LawfulStep(p) /\ DiskLoses
    BY <1>4, <2>2, Counted, DiskOps DEF LawfulStep, CompareAndDelete
  <2>. QED  BY <1>2, <1>4, <2>3, QuietStep
<1>5. CASE (DeleteConflict(fl.env) \/ DeleteThrows(fl.env)) /\ Fails(p) /\ Unreported /\ (Event \/ NoEvent)
  BY <1>1, <1>5, DiskOps, FailedRefreshKeeps
<1>6. CASE TornDelete(fl.env) /\ Exit(p) /\ Unreported /\ Event
  <2>1. LawfulStep(p) /\ DiskLoses
    BY <1>2, <1>6, ExitStep, Counted, DiskOps DEF LawfulStep
  <2>. QED  BY <1>2, <1>6, <2>1, QuietStep
<1>. HIDE DEF m
<1>7. \/ CompareAndDelete(fl.env) /\ Exit(p) /\ Reported(fl.env.fam) /\ NoEvent
      \/ CompareAndDelete(fl.env) /\ Settle(p, FALSE, NoEnvelope, m) /\ Unreported /\ NoEvent
      \/ (DeleteConflict(fl.env) \/ DeleteThrows(fl.env)) /\ Fails(p) /\ Unreported /\ (Event \/ NoEvent)
      \/ TornDelete(fl.env) /\ Exit(p) /\ Unreported /\ Event
  BY DEF FlightReject, m
<1>. QED  BY <1>3, <1>4, <1>5, <1>6, <1>7

-----------------------------------------------------------------------------
(* The sign-in *)

\* A step of a sign-in that leaves the memory as it is.
LEMMA LoginGoesOn ==
    ASSUME SessionInv, ServerMoves, NEW p \in Procs, mem[p].mode = "work", flight[p].at = "none",
           \A j \in Calls \ {1} : call[p][j].at = "idle",
           NEW c \in CallType, call' = [call EXCEPT ![p][1] = c], flight' = flight, mem' = mem,
           c.rej \in {0, One(p).rej}, Clean(p, c.tok),
           c.at \in {"idle", "browser", "swap", "settle", "cleanup", "erase"},
           c.at \in {"swap", "settle", "cleanup", "erase"} => c.tok # 0,
           c.at = "cleanup" => c.env.rev > 0
    PROVE  /\ ProcStep(p) /\ ~Refreshing(p)' /\ NewBearer(p)'
           /\ c.at # "swap" => NewSession(p)'
<1>1. mem' \in [Procs -> MemType] /\ (\A q \in Procs \ {p} : mem'[q] = mem[q])
      /\ mem'[p].mode = "work" /\ mem'[p].fence = mem[p].fence
  BY Before DEF Typed
<1>2. Clean(p, mem'[p].tok)
  BY OldIsClean
<1>. QED  BY <1>1, <1>2, LoginMoves

LEMMA LoginStatusKeeps ==
    ASSUME SessionInv, NEW p \in Procs, LoginStatus(p)
    PROVE  SessionInv'
<1>. USE Domains
<1>1. /\ mem[p].mode = "work" /\ flight[p].at = "none" /\ \A i \in Calls : call[p][i].at = "idle"
      /\ UNCHANGED remote /\ flight' = flight /\ Unreported /\ NoEvent /\ Typed /\ mem[p] \in MemType
      /\ mem' = [mem EXCEPT ![p].probed = TRUE]
  BY Before DEF LoginStatus
<1>2. ServerKnows /\ ServerMoves
  BY <1>1, ServerStill DEF ServerKnows
<1>3. DiskLoses
  BY DiskOps DEF LoginStatus
<1>. DEFINE m == [mem[p] EXCEPT !.probed = TRUE]
<1>4. m \in MemType /\ m.mode = "work" /\ m.fence = mem[p].fence /\ m.tok = mem[p].tok
  BY <1>1 DEF MemType
<1>5. mem' \in [Procs -> MemType] /\ (\A q \in Procs \ {p} : mem'[q] = mem[q]) /\ mem'[p] = m
  BY <1>1, <1>4 DEF Typed
<1>. HIDE DEF m
<1>6. PICK c \in CallType : /\ call' = [call EXCEPT ![p][1] = c]
                            /\ c.at \in {"idle", "browser"} /\ c.rej \in {0, One(p).rej} /\ Clean(p, c.tok)
  <2>1. CASE call' = call
    <3>1. One(p) \in CallType /\ One(p).at = "idle" /\ Clean(p, One(p).tok)
      BY <1>1, <1>2, OldIsClean DEF One, Typed
    <3>2. call' = [call EXCEPT ![p][1] = One(p)]
      BY <1>1, <2>1 DEF One, Typed
    <3>. QED  BY <3>1, <3>2
  <2>2. CASE Goto(p, [IdleCall EXCEPT !.at = "browser"])
    <3>1. [IdleCall EXCEPT !.at = "browser"] \in CallType /\ [IdleCall EXCEPT !.at = "browser"].at = "browser"
          /\ [IdleCall EXCEPT !.at = "browser"].tok = 0 /\ [IdleCall EXCEPT !.at = "browser"].rej = 0
      BY DEF IdleCall, NoEnvelope, CallType, Envelopes, CallPlaces
    <3>2. Clean(p, 0)
      BY <1>2, OldIsClean
    <3>. QED  BY <2>2, <3>1, <3>2 DEF Goto
  <2>. QED  BY <2>1, <2>2 DEF LoginStatus
<1>7. Clean(p, mem'[p].tok)
  BY <1>2, <1>4, <1>5, OldIsClean
<1>8. ProcStep(p) /\ ~Refreshing(p)' /\ NewBearer(p)' /\ NewSession(p)'
  BY <1>1, <1>2, <1>4, <1>5, <1>6, <1>7, LoginMoves
<1>. QED  BY <1>1, <1>2, <1>3, <1>8, Counted, QuietStep DEF LawfulStep

\* The sign-in is over, with nothing in memory that was not there.
LEMMA LoginOver ==
    ASSUME SessionInv, ServerMoves, NEW p \in Procs, One(p).at \in OwnPlaces, mem[p].mode = "work",
           call' = [call EXCEPT ![p][1] = IdleCall], flight' = flight, mem' \in [Procs -> MemType],
           \A q \in Procs \ {p} : mem'[q] = mem[q], mem'[p].mode = "work", mem'[p].fence = mem[p].fence,
           Clean(p, mem'[p].tok)
    PROVE  ProcStep(p) /\ ~Refreshing(p)' /\ NewBearer(p)' /\ NewSession(p)'
<1>1. PICK c \in CallType : c = IdleCall /\ c.at = "idle" /\ c.tok = 0 /\ c.rej = 0
  BY CallRecords
<1>2. Clean(p, c.tok) /\ call' = [call EXCEPT ![p][1] = c]
  BY <1>1, OldIsClean
<1>. QED  BY <1>1, <1>2, Alone, LoginMoves

LEMMA LoginGivesUpKeeps ==
    ASSUME SessionInv, NEW p \in Procs, LoginGivesUp(p)
    PROVE  SessionInv'
<1>1. /\ One(p).at = "browser" /\ One(p).at \in OwnPlaces /\ UNCHANGED <<disk, remote>> /\ Unreported /\ NoEvent
      /\ call' = [call EXCEPT ![p][1] = IdleCall] /\ flight' = flight /\ mem' = mem
  BY DEF LoginGivesUp, Goto, OwnPlaces
<1>2. ServerMoves
  BY <1>1, ServerStill DEF ServerKnows
<1>3. mem' \in [Procs -> MemType] /\ (\A q \in Procs \ {p} : mem'[q] = mem[q]) /\ mem'[p].fence = mem[p].fence
      /\ Clean(p, mem'[p].tok) /\ mem[p].mode = "work" /\ mem'[p].mode = "work"
  BY <1>1, <1>2, Before, OldIsClean, Alone DEF Typed
<1>4. ProcStep(p) /\ ~Refreshing(p)' /\ NewBearer(p)' /\ NewSession(p)'
  BY <1>1, <1>2, <1>3, LoginOver
<1>. QED  BY <1>1, <1>4, LocalStep

\* The sign-in fails, and its family may be signed out.
LEMMA LoginFailsStep ==
    ASSUME SessionInv, NEW p \in Procs, One(p).at \in {"swap", "settle", "cleanup", "erase"}, mem[p].mode = "work",
           LoginFails(p), flight' = flight, mem' \in [Procs -> MemType],
           \A q \in Procs \ {p} : mem'[q] = mem[q], mem'[p].mode = "work", mem'[p].fence = mem[p].fence,
           mem'[p].tok = mem[p].tok
    PROVE  ServerKnows /\ ProcStep(p) /\ ~Refreshing(p)' /\ NewBearer(p)' /\ NewSession(p)'
<1>. USE Domains
<1>1. One(p).at \in OwnPlaces
  BY DEF OwnPlaces
<1>. DEFINE f == bearer[One(p).tok].fam
<1>2. f \in Families /\ Typed
  BY <1>1, Alone, Before
<1>3. ServerKnows
  <2>1. /\ family' \in {family, [family EXCEPT ![f] = IF Accepts(One(p).tok) THEN "revoked" ELSE @]}
        /\ lapsed' = lapsed /\ bearer' = bearer
    BY DEF LoginFails, MaybeRevoked
  <2>2. family' \in {family, [family EXCEPT ![f] = IF family[f] = "none" THEN @ ELSE "revoked"]}
    <3>1. CASE Accepts(One(p).tok)
      <4>1. family[f] = "live"
        BY <3>1 DEF Accepts
      <4>. QED  BY <2>1, <3>1, <4>1
    <3>2. CASE ~Accepts(One(p).tok)
      BY <1>2, <2>1, <3>2 DEF Typed
    <3>. QED  BY <3>1, <3>2
  <2>. QED  BY <1>2, <2>1, <2>2, ServerRevokes
<1>4. call' = [call EXCEPT ![p][1] = IdleCall]
  BY DEF LoginFails, Goto
<1>5. Clean(p, mem'[p].tok) /\ ServerMoves
  BY <1>3, OldIsClean DEF ServerKnows
<1>. QED  BY <1>1, <1>3, <1>4, <1>5, LoginOver

\* The login code f and its bearer b are bought.
LEMMA LoginExchangeKeeps ==
    ASSUME SessionInv, NEW p \in Procs, LoginExchange(p)
    PROVE  SessionInv'
<1>. USE Domains
<1>1. PICK f \in Families, b \in Bearers :
          /\ family[f] = "none" /\ Issue(b, f)
          /\ \/ /\ Readable /\ disk' = AfterRead
                /\ family' = [family EXCEPT ![f] = "live"]
                /\ Goto(p, [One(p) EXCEPT !.at = "swap", !.tok = b, !.env = Observed])
             \/ /\ StoreThrows
                /\ \E known \in {"live", "revoked"} : family' = [family EXCEPT ![f] = known]
                /\ Goto(p, IdleCall)
  BY DEF LoginExchange
<1>2. /\ One(p).at = "browser" /\ One(p).at \in OwnPlaces /\ lapsed' = lapsed /\ mem' = mem /\ flight' = flight
      /\ closed' = closed /\ forgotten' = forgotten /\ events' = events
  BY DEF LoginExchange, Unreported, NoEvent, OwnPlaces
<1>3. Typed /\ Known /\ DiskInv /\ OnlyIssued
  BY Before
<1>4. /\ mem[p].mode = "work" /\ flight[p].at = "none" /\ \A j \in Calls \ {1} : call[p][j].at = "idle"
      /\ One(p) \in CallType
  BY <1>2, Alone
<1>5. /\ ~Issued(b) /\ bearer'[b].fam = f /\ \A c \in Bearers \ {b} : bearer'[c] = bearer[c]
      /\ bearer' \in [Bearers -> [fam : 0..MaxLogins, age : 0..2, refused : BOOLEAN]]
  BY <1>1, IssueMoves
<1>6. /\ family' \in [Families -> {"none", "live", "revoked"}]
      /\ family'[f] # "none" /\ \A g \in Families \ {f} : family'[g] = family[g]
  <2>1. PICK known \in {"live", "revoked"} : family' = [family EXCEPT ![f] = known]
    BY <1>1
  <2>. QED  BY <1>3, <2>1 DEF Typed
<1>7. ServerMoves
  BY <1>1, <1>5, <1>6 DEF ServerMoves
<1>8. DiskLoses
  BY <1>1, DiskOps
<1>9. /\ \A c \in Bearers \ {b} : bearer[c].fam # f /\ bearer'[c].fam # f
      /\ disk.env.fam # f /\ f \notin closed /\ b \notin forgotten
      /\ \A q \in Procs : /\ mem[q].tok # b /\ \A i \in Calls : call[q][i].tok # b
                          /\ HasRead(q) => flight[q].env.fam # f
      /\ Foreign(p, f)
  <2>1. \A c \in Bearers \ {b} : bearer[c].fam # f /\ bearer'[c].fam # f
    <3>1. \A c \in Bearers : bearer[c].fam # f
      BY <1>1, <1>3 DEF Known, Issued
    <3>. QED  BY <1>5, <3>1
  <2>2. disk.env.fam # f
    BY <1>1, <1>3 DEF DiskInv, Sound, NoEnvelope
  <2>3. f \notin closed /\ b \notin forgotten
    BY <1>1, <1>3, <1>5 DEF Known
  <2>4. \A q \in Procs : mem[q].tok # b /\ \A i \in Calls : call[q][i].tok # b
    BY <1>3, <1>5 DEF OnlyIssued
  <2>5. \A q \in Procs : HasRead(q) => flight[q].env.fam # f
    BY <1>1, RefreshingFacts
  <2>. QED  BY <1>1, <2>1, <2>2, <2>3, <2>4, <2>5, OldIsForeign
<1>10. Clean(p, b) /\ Clean(p, 0)
  BY <1>5, <1>7, <1>9, OldIsClean DEF Clean
<1>11. ProcStep(p) /\ ~Refreshing(p)' /\ NewBearer(p)' /\ NewSession(p)'
  <2>1. CASE Readable /\ disk' = AfterRead /\ Goto(p, [One(p) EXCEPT !.at = "swap", !.tok = b, !.env = Observed])
    <3>. DEFINE c == [One(p) EXCEPT !.at = "swap", !.tok = b, !.env = Observed]
    <3>1. Observed \in Envelopes
      BY <1>3 DEF Typed, Observed, NoEnvelope, Envelopes
    <3>2. c \in CallType /\ c.at = "swap" /\ c.tok = b /\ c.rej = One(p).rej
      BY <1>4, <3>1 DEF CallType, CallPlaces
    <3>3. PICK d \in CallType : d = c /\ d.at = "swap" /\ d.tok = b /\ d.rej = One(p).rej
                                /\ call' = [call EXCEPT ![p][1] = d]
      BY <2>1, <3>2 DEF Goto
    <3>4. ProcStep(p) /\ ~Refreshing(p)' /\ NewBearer(p)'
      BY <1>2, <1>4, <1>7, <1>10, <3>3, LoginGoesOn
    <3>5. call'[p][1] = d /\ \A q \in Procs : \A i \in Calls : (q = p /\ i = 1) \/ call'[q][i] = call[q][i]
      BY <1>3, <3>3 DEF Typed
    <3>6. disk'.env.fam # f
      BY <1>8, <1>9 DEF DiskLoses, NoEnvelope
    <3>7. NewSession(p)'
      <4>1. One(p)'.tok = b /\ bearer'[b].fam = f
        BY <1>5, <3>3, <3>5 DEF One
      <4>. QED  BY <1>2, <1>9, <3>5, <3>6, <4>1 DEF NewSession, Refreshing, HasRead
    <3>. QED  BY <3>4, <3>7
  <2>2. CASE StoreThrows /\ Goto(p, IdleCall)
    <3>1. mem' \in [Procs -> MemType] /\ (\A q \in Procs \ {p} : mem'[q] = mem[q]) /\ mem'[p].fence = mem[p].fence
          /\ Clean(p, mem'[p].tok) /\ mem'[p].mode = "work"
      BY <1>2, <1>3, <1>4, <1>7, OldIsClean DEF Typed
    <3>. QED  BY <1>2, <1>4, <1>7, <2>2, <3>1, LoginOver DEF Goto
  <2>. QED  BY <1>1, <2>1, <2>2
<1>12. Modest(p)
  BY <1>2, <1>5, <1>8, <1>9, OldIsForeign DEF Modest, DiskLoses, NoEnvelope
<1>13. Typed'
  BY <1>2, <1>3, <1>5, <1>6, <1>8, <1>11 DEF Typed, ProcStep, DiskLoses
<1>14. DiskInv'
  <2>1. PICK d : d = disk.env
    OBVIOUS
  <2>2. Sound(d) => Sound(d)'
    BY <1>3, <1>7, SoundStays
  <2>. QED  BY <1>3, <1>8, <2>1, <2>2 DEF DiskInv, Sound, DiskLoses
<1>15. Known'
  <2>1. ASSUME NEW c \in Bearers, Issued(c)'  PROVE family'[bearer'[c].fam] # "none"
    <3>1. CASE c = b
      BY <1>5, <1>6, <3>1
    <3>2. CASE c # b
      <4>1. Issued(c) /\ bearer'[c].fam = bearer[c].fam /\ bearer[c].fam \in Families
        BY <1>5, <2>1, <3>2, Before DEF Issued
      <4>. QED  BY <1>3, <1>7, <4>1 DEF Known, ServerMoves
    <3>. QED  BY <3>1, <3>2
  <2>2. \A g \in closed' : g \in Families /\ family'[g] # "none"
    BY <1>2, <1>3, <1>7 DEF Known, Typed, ServerMoves
  <2>3. ASSUME NEW c \in forgotten'  PROVE Issued(c)'
    BY <1>2, <1>3, <1>7 DEF Known, Typed, ServerMoves, Issued
  <2>. QED  BY <2>1, <2>2, <2>3 DEF Known
<1>16. RemovedStaysGone' /\ ForgottenStaysGone'
  <2>1. 0 \notin closed /\ 0 \notin forgotten
    BY <1>3 DEF Typed
  <2>. QED  BY <1>2, <1>8, <2>1 DEF SessionInv, RemovedStaysGone, ForgottenStaysGone, DiskLoses, NoEnvelope
<1>. QED  BY <1>2, <1>7, <1>11, <1>12, <1>13, <1>14, <1>15, <1>16, StepKeeps

\* The envelope of a sign-in is nobody else's.
LEMMA LoginEnvelopeFacts ==
    ASSUME SessionInv, NEW p \in Procs, One(p).at \in {"swap", "settle", "cleanup"}
    PROVE  /\ LoginEnvelope(p) \in Envelopes /\ LoginEnvelope(p).rev > 0 /\ Sound(LoginEnvelope(p))
           /\ LoginEnvelope(p).fam = bearer[One(p).tok].fam /\ LoginEnvelope(p).tok = One(p).tok
           /\ Foreign(p, LoginEnvelope(p).fam) /\ LoginEnvelope(p) # NoEnvelope
           /\ One(p).at = "swap" => LoginEnvelope(p).fam \notin closed /\ LoginEnvelope(p).tok \notin forgotten
<1>. USE Domains
<1>1. /\ One(p).tok \in Bearers /\ Issued(One(p).tok) /\ bearer[One(p).tok].fam \in Families
      /\ One(p).env \in Envelopes
  BY Alone DEF OwnPlaces
<1>2. One(p).env.rev + 1 \in Nat /\ One(p).env.rev + 1 > 0
  BY <1>1 DEF Envelopes
<1>3. LoginEnvelope(p) \in Envelopes /\ LoginEnvelope(p).rev > 0
      /\ LoginEnvelope(p).fam = bearer[One(p).tok].fam /\ LoginEnvelope(p).tok = One(p).tok
  BY <1>1, <1>2 DEF LoginEnvelope, Envelopes
<1>4. family[bearer[One(p).tok].fam] # "none"
  BY <1>1, Before DEF Known
<1>5. Sound(LoginEnvelope(p)) /\ LoginEnvelope(p) # NoEnvelope
  BY <1>1, <1>3, <1>4 DEF Sound, NoEnvelope
<1>6. Foreign(p, bearer[One(p).tok].fam)
  BY <1>1, OldIsForeign DEF One
<1>7. One(p).at = "swap" => bearer[One(p).tok].fam \notin closed /\ One(p).tok \notin forgotten
  BY Before DEF NewSession
<1>. QED  BY <1>3, <1>5, <1>6, <1>7

\* The sign-in is stored: its bearer is kept, or a cancellation came.
LEMMA LoginStoredStep ==
    ASSUME SessionInv, ServerMoves, NEW p \in Procs, One(p).at \in {"swap", "settle"}, LoginStored(p), flight' = flight
    PROVE  ProcStep(p) /\ ~Refreshing(p)' /\ NewBearer(p)' /\ NewSession(p)'
<1>. USE Domains
<1>1. /\ One(p).at \in OwnPlaces /\ mem[p].mode = "work" /\ flight[p].at = "none"
      /\ \A j \in Calls \ {1} : call[p][j].at = "idle"
      /\ One(p) \in CallType /\ One(p).tok \in Bearers /\ mem[p] \in MemType /\ Typed
  BY Alone, Before DEF OwnPlaces
<1>2. Clean(p, 0) /\ Clean(p, mem[p].tok) /\ Clean(p, One(p).tok)
  BY OldIsClean DEF One
<1>3. CASE mem' = [mem EXCEPT ![p].revoked = FALSE, ![p].tok = One(p).tok] /\ Goto(p, IdleCall)
  <2>1. [mem[p] EXCEPT !.revoked = FALSE, !.tok = One(p).tok] \in MemType
    BY <1>1 DEF MemType
  <2>2. mem' = [mem EXCEPT ![p] = [mem[p] EXCEPT !.revoked = FALSE, !.tok = One(p).tok]]
    BY <1>1, <1>3 DEF Typed
  <2>3. /\ mem' \in [Procs -> MemType] /\ \A q \in Procs \ {p} : mem'[q] = mem[q]
        /\ mem'[p].mode = "work" /\ mem'[p].fence = mem[p].fence /\ mem'[p].tok = One(p).tok
    BY <1>1, <2>1, <2>2 DEF Typed, MemType
  <2>. QED  BY <1>1, <1>2, <1>3, <2>3, LoginOver DEF Goto
<1>4. CASE /\ mem' = [mem EXCEPT ![p].revoked = FALSE]
           /\ Goto(p, [One(p) EXCEPT !.at = "cleanup", !.env = LoginEnvelope(p)])
  <2>1. [mem[p] EXCEPT !.revoked = FALSE] \in MemType
    BY <1>1 DEF MemType
  <2>2. mem' = [mem EXCEPT ![p] = [mem[p] EXCEPT !.revoked = FALSE]]
    BY <1>1, <1>4 DEF Typed
  <2>3. /\ mem' \in [Procs -> MemType] /\ \A q \in Procs \ {p} : mem'[q] = mem[q]
        /\ mem'[p].mode = "work" /\ mem'[p].fence = mem[p].fence /\ mem'[p].tok = mem[p].tok
    BY <1>1, <2>1, <2>2 DEF Typed, MemType
  <2>4. LoginEnvelope(p) \in Envelopes /\ LoginEnvelope(p).rev > 0
    BY LoginEnvelopeFacts
  <2>5. PICK c \in CallType : /\ c = [One(p) EXCEPT !.at = "cleanup", !.env = LoginEnvelope(p)]
                              /\ c.at = "cleanup" /\ c.env = LoginEnvelope(p) /\ c.tok = One(p).tok /\ c.rej = One(p).rej
    <3>. DEFINE c == [One(p) EXCEPT !.at = "cleanup", !.env = LoginEnvelope(p)]
    <3>1. c \in CallType /\ c.at = "cleanup" /\ c.env = LoginEnvelope(p) /\ c.tok = One(p).tok /\ c.rej = One(p).rej
      <4>1. PICK e \in Envelopes, o \in CallType : e = LoginEnvelope(p) /\ o = One(p)
        BY <1>1, <2>4
      <4>2. LET d == [o EXCEPT !.at = "cleanup", !.env = e] IN
            d \in CallType /\ d.at = "cleanup" /\ d.env = e /\ d.tok = o.tok /\ d.rej = o.rej
        BY DEF CallType, CallPlaces
      <4>. QED  BY <4>1, <4>2
    <3>. QED  BY <3>1
  <2>6. call' = [call EXCEPT ![p][1] = c] /\ Clean(p, c.tok) /\ c.tok # 0 /\ c.env.rev > 0 /\ Clean(p, mem'[p].tok)
    BY <1>1, <1>2, <1>4, <2>3, <2>4, <2>5 DEF Goto
  <2>. QED  BY <1>1, <2>3, <2>5, <2>6, LoginMoves
<1>. QED  BY <1>3, <1>4 DEF LoginStored

LEMMA LoginSwapKeeps ==
    ASSUME SessionInv, NEW p \in Procs, LoginSwap(p)
    PROVE  SessionInv'
<1>. USE Domains
<1>1. /\ One(p).at = "swap" /\ One(p).at \in OwnPlaces /\ Unreported /\ mem[p].mode = "work"
      /\ flight[p].at = "none" /\ \A j \in Calls \ {1} : call[p][j].at = "idle"
      /\ One(p) \in CallType /\ One(p).tok \in Bearers /\ Typed
  BY Alone, Before DEF OwnPlaces, LoginSwap
<1>2. PICK old, e : /\ old = One(p).env /\ e = LoginEnvelope(p) /\ Sound(e) /\ Foreign(p, e.fam)
                    /\ e.fam \notin closed /\ e.tok \notin forgotten
  BY <1>1, LoginEnvelopeFacts
<1>3. CASE CompareAndSwap(old, e) /\ LoginStored(p) /\ UNCHANGED <<remote, flight>> /\ NoEvent
  <2>1. ServerKnows /\ ServerMoves
    BY <1>3, ServerStill DEF ServerKnows
  <2>2. LawfulStep(p)
    BY <1>1, <1>3, <2>1, LoginStoredStep, Counted DEF LawfulStep
  <2>. QED  BY <1>1, <1>2, <1>3, <2>1, <2>2, WrittenKeeps DEF CompareAndSwap
<1>4. CASE SwapConflict(old) /\ LoginFails(p) /\ UNCHANGED <<mem, flight>> /\ NoEvent
  <2>1. mem' \in [Procs -> MemType] /\ (\A q \in Procs \ {p} : mem'[q] = mem[q])
        /\ mem'[p].mode = "work" /\ mem'[p].fence = mem[p].fence /\ mem'[p].tok = mem[p].tok /\ flight' = flight
    BY <1>1, <1>4 DEF Typed
  <2>2. ServerKnows /\ ProcStep(p) /\ ~Refreshing(p)' /\ NewBearer(p)' /\ NewSession(p)'
    BY <1>1, <1>4, <2>1, LoginFailsStep
  <2>. QED  BY <1>1, <1>4, <2>2, DiskOps, Counted, QuietStep DEF LawfulStep
<1>5. CASE /\ CompareAndSwap(old, e) \/ StoreThrows
           /\ Goto(p, [One(p) EXCEPT !.at = "settle"])
           /\ UNCHANGED <<remote, mem, flight>> /\ Event
  <2>1. ServerKnows /\ ServerMoves
    BY <1>5, ServerStill DEF ServerKnows
  <2>2. [One(p) EXCEPT !.at = "settle"] \in CallType /\ [One(p) EXCEPT !.at = "settle"].at = "settle"
        /\ [One(p) EXCEPT !.at = "settle"].tok = One(p).tok /\ [One(p) EXCEPT !.at = "settle"].rej = One(p).rej
    BY <1>1 DEF CallType, CallPlaces
  <2>3. PICK c \in CallType : /\ c.at = "settle" /\ c.tok = One(p).tok /\ c.rej = One(p).rej
                              /\ call' = [call EXCEPT ![p][1] = c] /\ Clean(p, c.tok)
    BY <1>5, <2>1, <2>2, OldIsClean DEF Goto, One
  <2>4. ProcStep(p) /\ ~Refreshing(p)' /\ NewBearer(p)' /\ NewSession(p)'
    BY <1>1, <1>5, <2>1, <2>3, LoginGoesOn
  <2>5. LawfulStep(p)
    BY <1>5, <2>4, Counted DEF LawfulStep
  <2>6. CASE CompareAndSwap(old, e)
    BY <1>1, <1>2, <2>1, <2>5, <2>6, WrittenKeeps DEF CompareAndSwap
  <2>7. CASE StoreThrows
    BY <1>1, <2>1, <2>5, <2>7, DiskOps, QuietStep
  <2>. QED  BY <1>5, <2>6, <2>7
<1>6. CASE TornSwap(old, e) /\ Exit(p) /\ UNCHANGED remote /\ Event
  <2>1. ServerKnows /\ ServerMoves
    BY <1>6, ServerStill DEF ServerKnows
  <2>2. LawfulStep(p)
    BY <1>6, <2>1, ExitStep, Counted DEF LawfulStep
  <2>3. CASE disk' = [env |-> e, key |-> "ok"]
    BY <1>1, <1>2, <2>1, <2>2, <2>3, WrittenKeeps
  <2>4. CASE old = NoEnvelope /\ disk' \in {[env |-> old, key |-> k] : k \in {"empty", "ok"}}
    <3>1. DiskLoses
      BY <2>4 DEF DiskLoses, NoEnvelope, Envelopes
    <3>. QED  BY <1>1, <2>1, <2>2, <3>1, QuietStep
  <2>. QED  BY <1>6, <2>3, <2>4 DEF TornSwap
<1>. QED  BY <1>2, <1>3, <1>4, <1>5, <1>6 DEF LoginSwap

LEMMA LoginSettleKeeps ==
    ASSUME SessionInv, NEW p \in Procs, LoginSettle(p)
    PROVE  SessionInv'
<1>. USE Domains
<1>1. /\ One(p).at = "settle" /\ One(p).at \in OwnPlaces /\ Unreported /\ mem[p].mode = "work"
      /\ disk' = AfterRead /\ flight' = flight /\ Typed
  BY Alone, Before DEF OwnPlaces, LoginSettle
<1>2. CASE LoginStored(p) /\ UNCHANGED remote /\ NoEvent
  <2>1. ServerKnows /\ ServerMoves
    BY <1>2, ServerStill DEF ServerKnows
  <2>2. LawfulStep(p)
    BY <1>1, <1>2, <2>1, LoginStoredStep, Counted DEF LawfulStep
  <2>. QED  BY <1>1, <2>1, <2>2, DiskOps, QuietStep
<1>3. CASE LoginFails(p) /\ UNCHANGED mem /\ (Event \/ NoEvent)
  <2>1. mem' \in [Procs -> MemType] /\ (\A q \in Procs \ {p} : mem'[q] = mem[q])
        /\ mem'[p].mode = "work" /\ mem'[p].fence = mem[p].fence /\ mem'[p].tok = mem[p].tok
    BY <1>1, <1>3 DEF Typed
  <2>2. ServerKnows /\ ProcStep(p) /\ ~Refreshing(p)' /\ NewBearer(p)' /\ NewSession(p)'
    BY <1>1, <1>3, <2>1, LoginFailsStep
  <2>. QED  BY <1>1, <1>3, <2>2, DiskOps, Counted, QuietStep DEF LawfulStep
<1>. QED  BY <1>2, <1>3 DEF LoginSettle

-----------------------------------------------------------------------------
(* The sign-out and the removals *)

\* A sign-out, alone in its process, goes on.
LEMMA LogoutMoves ==
    ASSUME SessionInv, ServerMoves, NEW p \in Procs, mem[p].mode = "logout", flight[p].at = "none",
           \A j \in Calls \ {1} : call[p][j].at = "idle",
           NEW c \in CallType, call' = [call EXCEPT ![p][1] = c], flight' = flight,
           NEW m \in MemType, mem' = [mem EXCEPT ![p] = m],
           m.mode = "logout", m.tok \in {0, mem[p].tok},
           c.rej = One(p).rej, c.tok = One(p).tok, c.tok # 0, c.at \in {"remove", "erase"},
           c.at = "remove" =>
              /\ c.env.rev > 0 /\ family'[bearer'[c.tok].fam] = "revoked"
              /\ m.fence = NoEnvelope \/ m.fence.fam = bearer'[c.tok].fam
    PROVE  ProcStep(p) /\ ~Refreshing(p)' /\ NewBearer(p)' /\ NewSession(p)'
<1>. USE Domains
<1>1. Typed /\ Local(p)
  BY Before
<1>2. /\ call' \in [Procs -> [Calls -> CallType]] /\ flight' \in [Procs -> FlightType]
      /\ mem' \in [Procs -> MemType] /\ mem'[p] = m
      /\ Others(p) /\ call'[p][1] = c /\ \A j \in Calls \ {1} : call'[p][j] = call[p][j]
  BY <1>1 DEF Typed, Others
<1>3. FlightInv(p)' /\ ~Refreshing(p)' /\ NewBearer(p)'
  BY <1>1, <1>2 DEF Local, FlightInv, Refreshing, HasRead, NewBearer
<1>4. LogoutInv(p)'
  BY <1>2 DEF LogoutInv
<1>5. ASSUME NEW i \in Calls  PROVE CallInv(p, i)'
  <2>1. call[p][i].rej \in 0..MaxBearers /\ (call[p][i].rej # 0 => bearer'[call[p][i].rej].fam # 0)
    <3>1. call[p][i].rej \in 0..MaxBearers
      BY <1>1 DEF Typed, CallType
    <3>. QED  BY <1>1, <3>1 DEF Local, CallInv, ServerMoves, Issued
  <2>2. CASE i = 1
    <3>1. c.rej # 0 => bearer'[c.rej].fam # 0
      BY <2>1, <2>2 DEF One
    <3>. QED  BY <1>2, <2>2, <3>1 DEF CallInv, OwnPlaces, Issued
  <2>3. CASE i # 1
    BY <1>1, <1>2, <2>1, <2>3 DEF Local, CallInv, OwnPlaces, Issued
  <2>. QED  BY <2>2, <2>3
<1>6. Clean(p, mem'[p].tok) /\ \A i \in Calls : Clean(p, call'[p][i].tok)
  BY <1>2, OldIsClean DEF One
<1>7. ~Refreshing(p)'
  BY <1>3
<1>8. NewSession(p)'
  BY <1>2 DEF NewSession, One
<1>. QED  BY <1>2, <1>3, <1>4, <1>5, <1>6, <1>8 DEF ProcStep, Local, Refreshing, HasRead

\* A sign-out that has its bearer has its process to itself.
LEMMA HavingFacts ==
    ASSUME SessionInv, NEW p \in Procs, mem[p].mode = "logout", One(p).at = "have"
    PROVE  /\ flight[p].at = "none" /\ \A j \in Calls \ {1} : call[p][j].at = "idle"
           /\ One(p) \in CallType /\ mem[p] \in MemType /\ mem[p].rev \in Nat /\ mem[p].rev > 0
           /\ One(p).tok \in Bearers /\ bearer[One(p).tok].fam \in Families
           /\ mem[p].fence = NoEnvelope \/ (mem[p].fence.rev = mem[p].rev /\ mem[p].fence.fam = bearer[One(p).tok].fam)
<1>. USE Domains
<1>1. Typed /\ Local(p) /\ One(p) \in CallType /\ mem[p] \in MemType /\ OnlyIssued /\ One(p).tok \in 0..MaxBearers
  BY Before DEF One
<1>2. flight[p].at = "none"
  BY <1>1 DEF Local, FlightInv, One
<1>3. One(p).tok \in Bearers /\ Issued(One(p).tok)
  BY <1>1 DEF Local, CallInv, One, OnlyIssued
<1>4. bearer[One(p).tok].fam \in Families
  BY <1>3, Before
<1>5. /\ \A j \in Calls \ {1} : call[p][j].at = "idle"
      /\ mem[p].rev > 0
      /\ mem[p].fence = NoEnvelope \/ (mem[p].fence.rev = mem[p].rev /\ mem[p].fence.fam = bearer[One(p).tok].fam)
  BY <1>1 DEF Local, LogoutInv, One
<1>. QED  BY <1>1, <1>2, <1>3, <1>4, <1>5 DEF MemType

LEMMA LogoutConfirmedKeeps ==
    ASSUME SessionInv, NEW p \in Procs, LogoutConfirmed(p)
    PROVE  SessionInv'
<1>. USE Domains
<1>. DEFINE f == bearer[One(p).tok].fam
            m == [mem[p] EXCEPT !.tok = 0, !.rev = 0]
<1>1. /\ mem[p].mode = "logout" /\ One(p).at = "have" /\ disk' = disk /\ lapsed' = lapsed /\ bearer' = bearer
      /\ flight' = flight /\ Unreported /\ NoEvent /\ Typed
      /\ (Accepts(One(p).tok) \/ family[f] = "revoked") /\ family' = [family EXCEPT ![f] = "revoked"]
  BY Before DEF LogoutConfirmed
<1>2. f \in Families /\ mem[p] \in MemType /\ One(p) \in CallType
  BY <1>1, HavingFacts
<1>3. ServerKnows /\ ServerMoves /\ family'[f] = "revoked"
  <2>1. family[f] # "none"
    BY <1>1 DEF Accepts
  <2>2. ServerKnows
    BY <1>1, <1>2, <2>1, ServerRevokes
  <2>. QED  BY <1>1, <1>2, <2>2 DEF Typed, ServerKnows
<1>4. m \in MemType /\ m.mode = "logout" /\ m.tok = 0 /\ m.fence = mem[p].fence
  BY <1>1, <1>2 DEF MemType
<1>5. mem' = [mem EXCEPT ![p] = m]
  BY <1>1 DEF LogoutConfirmed, Typed
<1>. HIDE DEF m
<1>6. PICK e \in Envelopes : e = [NoEnvelope EXCEPT !.rev = mem[p].rev] /\ e.rev > 0
  <2>1. mem[p].rev \in Nat /\ mem[p].rev > 0
    BY <1>1, HavingFacts
  <2>2. NoEnvelope \in Envelopes
    BY DEF NoEnvelope, Envelopes
  <2>3. \A n \in Envelopes, r \in Nat : [n EXCEPT !.rev = r] \in Envelopes /\ [n EXCEPT !.rev = r].rev = r
    BY DEF Envelopes
  <2>. QED  BY <2>1, <2>2, <2>3
<1>7. PICK c \in CallType : /\ call' = [call EXCEPT ![p][1] = c]
                            /\ c.at = "remove" /\ c.env = e /\ c.tok = One(p).tok /\ c.rej = One(p).rej
  <2>1. Goto(p, [One(p) EXCEPT !.at = "remove", !.env = e])
    BY <1>6 DEF LogoutConfirmed
  <2>2. PICK o \in CallType : o = One(p)
    BY <1>2
  <2>3. LET d == [o EXCEPT !.at = "remove", !.env = e] IN
        d \in CallType /\ d.at = "remove" /\ d.env = e /\ d.tok = o.tok /\ d.rej = o.rej
    BY DEF CallType, CallPlaces
  <2>. QED  BY <2>1, <2>2, <2>3 DEF Goto
<1>8. /\ c.tok # 0 /\ c.env.rev > 0 /\ family'[bearer'[c.tok].fam] = "revoked"
      /\ m.fence = NoEnvelope \/ m.fence.fam = bearer'[c.tok].fam
  BY <1>1, <1>3, <1>4, <1>6, <1>7, HavingFacts
<1>9. ProcStep(p) /\ ~Refreshing(p)' /\ NewBearer(p)' /\ NewSession(p)'
  <2>1. flight[p].at = "none" /\ \A j \in Calls \ {1} : call[p][j].at = "idle"
    BY <1>1, HavingFacts
  <2>. QED  BY <1>1, <1>3, <1>4, <1>5, <1>7, <1>8, <2>1, LogoutMoves
<1>. QED  BY <1>1, <1>3, <1>9, DiskOps, Counted, QuietStep DEF LawfulStep

LEMMA LogoutUnknownKeeps ==
    ASSUME SessionInv, NEW p \in Procs, LogoutUnknown(p)
    PROVE  SessionInv'
<1>. USE Domains
<1>. DEFINE f == bearer[One(p).tok].fam
            m == [mem[p] EXCEPT !.tok = 0, !.rev = 0, !.fence = NoEnvelope]
            c == [IdleCall EXCEPT !.at = "wait"]
<1>1. /\ mem[p].mode = "logout" /\ One(p).at = "have" /\ disk' = disk /\ lapsed' = lapsed /\ bearer' = bearer
      /\ flight' = [flight EXCEPT ![p] = ForgetBy(1)] /\ Unreported /\ NoEvent /\ Typed /\ Local(p)
      /\ family' \in {family, [family EXCEPT ![f] = IF Accepts(One(p).tok) THEN "revoked" ELSE @]}
  BY Before DEF LogoutUnknown, MaybeRevoked
<1>2. f \in Families /\ mem[p] \in MemType /\ \A j \in Calls \ {1} : call[p][j].at = "idle"
  BY <1>1, HavingFacts
<1>3. ServerKnows /\ ServerMoves
  <2>2. family' \in {family, [family EXCEPT ![f] = IF family[f] = "none" THEN @ ELSE "revoked"]}
    <3>1. CASE Accepts(One(p).tok)
      <4>1. family[f] = "live"
        BY <3>1 DEF Accepts
      <4>. QED  BY <1>1, <3>1, <4>1
    <3>2. CASE ~Accepts(One(p).tok)
      BY <1>1, <1>2, <3>2 DEF Typed
    <3>. QED  BY <3>1, <3>2
  <2>. QED  BY <1>1, <1>2, <2>2, ServerRevokes DEF ServerKnows
<1>4. c \in CallType /\ c.at = "wait" /\ c.tok = 0 /\ c.rej = 0
  BY DEF IdleCall, NoEnvelope, CallType, Envelopes, CallPlaces
<1>5. m \in MemType /\ m.mode = "logout" /\ m.fence = NoEnvelope /\ m.tok = 0
  <2>1. NoEnvelope \in Envelopes
    BY DEF NoEnvelope, Envelopes
  <2>. QED  BY <1>1, <1>2, <2>1 DEF MemType
<1>6. call' = [call EXCEPT ![p][1] = c] /\ mem' = [mem EXCEPT ![p] = m]
  <2>1. call' = [call EXCEPT ![p][1] = c]
    BY DEF LogoutUnknown, Goto
  <2>2. mem' = [mem EXCEPT ![p] = m]
    BY <1>1 DEF LogoutUnknown, Typed
  <2>. QED  BY <2>1, <2>2
<1>. HIDE DEF c, m
<1>7. /\ call' \in [Procs -> [Calls -> CallType]] /\ mem' \in [Procs -> MemType] /\ flight' \in [Procs -> FlightType]
      /\ Others(p) /\ call'[p][1] = c /\ mem'[p] = m /\ flight'[p] = ForgetBy(1)
      /\ \A j \in Calls \ {1} : call'[p][j] = call[p][j]
  <2>1. ForgetBy(1) \in FlightType
    BY FlightRecords
  <2>2. call' \in [Procs -> [Calls -> CallType]] /\ call'[p][1] = c /\ \A j \in Calls \ {1} : call'[p][j] = call[p][j]
    BY <1>1, <1>4, <1>6 DEF Typed
  <2>3. mem' \in [Procs -> MemType] /\ mem'[p] = m /\ flight' \in [Procs -> FlightType] /\ flight'[p] = ForgetBy(1)
    BY <1>1, <1>5, <1>6, <2>1 DEF Typed
  <2>4. Others(p)
    BY <1>1, <1>6 DEF Typed, Others
  <2>. QED  BY <2>2, <2>3, <2>4
<1>8. FlightInv(p)' /\ ~Refreshing(p)' /\ NewBearer(p)'
  <2>0. ForgetBy(1).at = "read" /\ ForgetBy(1).owner = 1 /\ ForgetBy(1).waiters = {1}
    BY FlightRecords
  <2>1. flight'[p].at = "read" /\ flight'[p].owner = 1 /\ flight'[p].waiters = {1}
    BY <1>7, <2>0
  <2>. QED  BY <1>4, <1>5, <1>7, <2>1 DEF FlightInv, Refreshing, HasRead, NewBearer
<1>9. LogoutInv(p)'
  BY <1>2, <1>4, <1>5, <1>7 DEF LogoutInv
<1>10. ASSUME NEW j \in Calls  PROVE CallInv(p, j)'
  <2>1. CASE j = 1
    BY <1>4, <1>7, <2>1 DEF CallInv, OwnPlaces, Issued
  <2>2. CASE j # 1
    <3>1. call[p][j].rej \in 0..MaxBearers
      BY <1>1 DEF Typed, CallType
    <3>2. call[p][j].rej # 0 => bearer'[call[p][j].rej].fam # 0
      BY <1>1, <1>3, <3>1 DEF Local, CallInv, ServerMoves, Issued
    <3>. QED  BY <1>2, <1>7, <2>2, <3>2 DEF CallInv, OwnPlaces, Issued
  <2>. QED  BY <2>1, <2>2
<1>11. Clean(p, mem'[p].tok) /\ \A j \in Calls : Clean(p, call'[p][j].tok)
  BY <1>3, <1>4, <1>5, <1>7, OldIsClean
<1>12. One(p)'.at # "swap"
  BY <1>4, <1>7 DEF One
<1>13. ProcStep(p) /\ NewSession(p)'
  BY <1>7, <1>8, <1>9, <1>10, <1>11, <1>12 DEF ProcStep, Local, NewSession, Refreshing, HasRead
<1>. QED  BY <1>1, <1>3, <1>8, <1>13, DiskOps, Counted, QuietStep DEF LawfulStep

\* What a removal leaves of its process.
LEMMA AfterRemovalStep ==
    ASSUME SessionInv, NEW p \in Procs, One(p).at \in {"cleanup", "remove", "erase"},
           NEW gone \in BOOLEAN, AfterRemoval(p, gone), events' \in 0..MaxEvents
    PROVE  ServerKnows /\ LawfulStep(p)
<1>1. One(p).at \in OwnPlaces /\ Typed /\ mem[p] \in MemType
  BY Before DEF OwnPlaces
<1>2. CASE mem[p].mode = "logout"
  <2>1. Exit(p) /\ ServerKnows /\ ServerMoves
    BY <1>2, ServerStill DEF AfterRemoval, ServerKnows
  <2>. QED  BY <2>1, ExitStep DEF LawfulStep
<1>3. CASE mem[p].mode = "work"
  <2>1. LoginFails(p) /\ mem' = [mem EXCEPT ![p].revoked = @ \/ gone] /\ flight' = flight
    BY <1>3 DEF AfterRemoval
  <2>2. PICK v \in BOOLEAN : v = (mem[p].revoked \/ gone)
    OBVIOUS
  <2>3. [mem[p] EXCEPT !.revoked = v] \in MemType
    BY <1>1 DEF MemType
  <2>4. mem' = [mem EXCEPT ![p] = [mem[p] EXCEPT !.revoked = v]]
    BY <1>1, <2>1, <2>2 DEF Typed
  <2>5. /\ mem' \in [Procs -> MemType] /\ \A q \in Procs \ {p} : mem'[q] = mem[q]
        /\ mem'[p].mode = "work" /\ mem'[p].fence = mem[p].fence /\ mem'[p].tok = mem[p].tok
    BY <1>1, <1>3, <2>3, <2>4 DEF Typed, MemType
  <2>6. One(p).at \in {"swap", "settle", "cleanup", "erase"}
    BY <1>1, <1>3, Alone
  <2>7. ServerKnows /\ ProcStep(p) /\ ~Refreshing(p)' /\ NewBearer(p)' /\ NewSession(p)'
    BY <1>3, <2>1, <2>5, <2>6, LoginFailsStep
  <2>. QED  BY <2>7 DEF LawfulStep
<1>. QED  BY <1>1, <1>2, <1>3 DEF MemType

\* The session is gone, and said to be.
LEMMA RemovedKeeps ==
    ASSUME SessionInv, NEW p \in Procs, One(p).at \in {"cleanup", "remove", "erase"},
           disk' = Deleted, Removed(p), NoEvent
    PROVE  SessionInv'
<1>1. ServerKnows /\ LawfulStep(p)
  BY AfterRemovalStep, Counted DEF Removed
<1>2. /\ bearer[One(p).tok].fam \in Families /\ One(p).tok \in Bearers /\ Issued(One(p).tok)
      /\ Reported(bearer[One(p).tok].fam)
  BY Alone DEF OwnPlaces, Removed
<1>3. family[bearer[One(p).tok].fam] # "none" /\ Foreign(p, bearer[One(p).tok].fam)
  BY <1>2, Domains, Before, OldIsForeign DEF Known, One
<1>. QED  BY <1>1, <1>2, <1>3, ReportStep

LEMMA NotRemovedKeeps ==
    ASSUME SessionInv, NEW p \in Procs, One(p).at \in {"cleanup", "remove", "erase"},
           DiskLoses, NotRemoved(p), Event \/ NoEvent
    PROVE  SessionInv'
<1>1. ServerKnows /\ LawfulStep(p) /\ Unreported
  BY AfterRemovalStep, Counted DEF NotRemoved
<1>. QED  BY <1>1, QuietStep

LEMMA EraseKeeps ==
    ASSUME SessionInv, NEW p \in Procs, One(p).at \in {"cleanup", "remove", "erase"}, NEW e, Erase(p, e)
    PROVE  SessionInv'
<1>1. CASE CompareAndDelete(e) /\ Removed(p) /\ NoEvent
  BY <1>1, RemovedKeeps DEF CompareAndDelete
<1>2. CASE (DeleteConflict(e) \/ DeleteThrows(e)) /\ NotRemoved(p) /\ (Event \/ NoEvent)
  BY <1>2, DiskOps, NotRemovedKeeps
<1>3. CASE TornDelete(e) /\ Exit(p) /\ UNCHANGED remote /\ Unreported /\ Event
  <2>1. ServerKnows /\ ServerMoves /\ DiskLoses
    BY <1>3, ServerStill, DiskOps DEF ServerKnows
  <2>2. LawfulStep(p)
    BY <1>3, <2>1, ExitStep, Counted DEF LawfulStep
  <2>. QED  BY <1>3, <2>1, <2>2, QuietStep
<1>. QED  BY <1>1, <1>2, <1>3 DEF Erase

LEMMA RemoveKeeps ==
    ASSUME SessionInv, NEW p \in Procs, RemoveFenced(p) \/ RemoveErase(p)
    PROVE  SessionInv'
<1>1. One(p).at \in {"cleanup", "remove", "erase"}
  BY DEF RemoveFenced, RemoveErase
<1>2. CASE disk' = disk /\ NotRemoved(p) /\ NoEvent
  BY <1>1, <1>2, DiskOps, NotRemovedKeeps
<1>3. CASE \E e : Erase(p, e)
  BY <1>1, <1>3, EraseKeeps
<1>. QED  BY <1>2, <1>3 DEF RemoveFenced, RemoveErase

LEMMA RemoveReadKeeps ==
    ASSUME SessionInv, NEW p \in Procs, RemoveRead(p)
    PROVE  SessionInv'
<1>. USE Domains
<1>1. One(p).at \in {"cleanup", "remove"} /\ One(p).at \in {"cleanup", "remove", "erase"} /\ One(p).at \in OwnPlaces
  BY DEF RemoveRead, OwnPlaces
<1>2. CASE Readable /\ disk' = AfterRead /\ NoEvent /\ Observed = NoEnvelope /\ Removed(p)
  <2>1. disk' = Deleted
    BY <1>2 DEF Readable, AfterRead, Observed
  <2>. QED  BY <1>1, <1>2, <2>1, RemovedKeeps
<1>3. CASE (disk' = AfterRead \/ StoreThrows) /\ (Event \/ NoEvent) /\ NotRemoved(p)
  BY <1>1, <1>3, DiskOps, NotRemovedKeeps
<1>4. CASE /\ disk' = AfterRead /\ NoEvent
           /\ Goto(p, [One(p) EXCEPT !.at = "erase", !.env = Observed])
           /\ UNCHANGED <<remote, mem, flight>> /\ Unreported
  <2>1. ServerKnows /\ ServerMoves /\ DiskLoses /\ mem[p] \in MemType /\ Typed
    BY <1>4, ServerStill, DiskOps, Before DEF ServerKnows
  <2>2. Observed \in Envelopes
    BY <2>1 DEF Typed, Observed, NoEnvelope, Envelopes
  <2>3. PICK c \in CallType : /\ call' = [call EXCEPT ![p][1] = c]
                              /\ c.at = "erase" /\ c.tok = One(p).tok /\ c.rej = One(p).rej
    <3>1. PICK o \in CallType, e \in Envelopes : o = One(p) /\ e = Observed
      BY <1>1, <2>2, Alone
    <3>2. LET d == [o EXCEPT !.at = "erase", !.env = e] IN
          d \in CallType /\ d.at = "erase" /\ d.tok = o.tok /\ d.rej = o.rej
      BY DEF CallType, CallPlaces
    <3>. QED  BY <1>4, <3>1, <3>2 DEF Goto
  <2>4. flight[p].at = "none" /\ (\A j \in Calls \ {1} : call[p][j].at = "idle") /\ c.tok # 0 /\ Clean(p, c.tok)
        /\ mem[p].mode \in {"work", "logout"}
    BY <1>1, <2>1, <2>3, Alone, OldIsClean DEF One, MemType
  <2>5. CASE mem[p].mode = "work"
    <3>1. ProcStep(p) /\ ~Refreshing(p)' /\ NewBearer(p)' /\ NewSession(p)'
      BY <1>4, <2>1, <2>3, <2>4, <2>5, LoginGoesOn
    <3>. QED  BY <1>4, <2>1, <3>1, Counted, QuietStep DEF LawfulStep
  <2>6. CASE mem[p].mode = "logout"
    <3>1. mem' = [mem EXCEPT ![p] = mem[p]]
      BY <1>4, <2>1 DEF Typed
    <3>2. PICK m \in MemType : m = mem[p]
      BY <2>1
    <3>3. ProcStep(p) /\ ~Refreshing(p)' /\ NewBearer(p)' /\ NewSession(p)'
      BY <1>4, <2>1, <2>3, <2>4, <2>6, <3>1, <3>2, LogoutMoves
    <3>. QED  BY <1>4, <2>1, <3>3, Counted, QuietStep DEF LawfulStep
  <2>. QED  BY <2>4, <2>5, <2>6
<1>. QED  BY <1>2, <1>3, <1>4 DEF RemoveRead

-----------------------------------------------------------------------------
(* The invariant *)

LEMMA SessionInit == Init => SessionInv
<1>. SUFFICES ASSUME Init  PROVE SessionInv
  OBVIOUS
<1>. USE Domains
<1>1. /\ Fresh \in MemType /\ IdleCall \in CallType /\ NoFlight \in FlightType /\ NoEnvelope \in Envelopes
      /\ Fresh.tok = 0 /\ Fresh.mode = "work" /\ Fresh.fence = NoEnvelope /\ IdleCall.tok = 0 /\ IdleCall.rej = 0
      /\ IdleCall.at = "idle" /\ NoFlight.at = "none" /\ NoFlight.forget = FALSE
      /\ NoEnvelope.tok = 0 /\ NoEnvelope.fam = 0
  BY DEF Fresh, IdleCall, NoFlight, NoEnvelope, MemType, CallType, FlightType, Envelopes, CallPlaces, FlightPlaces
<1>2. Unissued \in [fam : 0..MaxLogins, age : 0..2, refused : BOOLEAN] /\ Unissued.fam = 0
  BY DEF Unissued
<1>3. 0 \in 0..MaxEvents
  BY BoundsAssumption
<1>4. /\ disk \in [env : Envelopes, key : {"none", "empty", "ok"}] /\ disk.env = NoEnvelope
      /\ closed = {} /\ forgotten = {}
      /\ \A b \in Bearers : ~Issued(b)
      /\ \A p \in Procs : mem[p] = Fresh /\ flight[p] = NoFlight /\ \A i \in Calls : call[p][i] = IdleCall
  BY <1>1, <1>2 DEF Init, Issued
<1>5. Typed
  BY <1>1, <1>2, <1>3, <1>4 DEF Init, Typed
<1>6. OnlyIssued
  BY <1>1, <1>4 DEF OnlyIssued
<1>7. DiskInv /\ Known /\ OneRefreshAtATime /\ RemovedStaysGone /\ ForgottenStaysGone
  BY <1>1, <1>4 DEF DiskInv, Known, OneRefreshAtATime, Refreshing, HasRead, RemovedStaysGone, ForgottenStaysGone
<1>8. ASSUME NEW p \in Procs  PROVE Local(p) /\ NewSession(p) /\ NewBearer(p)
  <2>1. FlightInv(p) /\ LogoutInv(p) /\ NewBearer(p)
    BY <1>1, <1>4 DEF FlightInv, LogoutInv, NewBearer, Refreshing, HasRead
  <2>2. \A i \in Calls : CallInv(p, i)
    BY <1>1, <1>4 DEF CallInv, OwnPlaces
  <2>3. NewSession(p)
    BY <1>1, <1>4 DEF NewSession, One
  <2>. QED  BY <2>1, <2>2, <2>3 DEF Local
<1>. QED  BY <1>5, <1>6, <1>7, <1>8, TypeParts DEF SessionInv

LEMMA SessionStutter == SessionInv /\ UNCHANGED vars => SessionInv'
<1>. SUFFICES ASSUME SessionInv, UNCHANGED vars  PROVE SessionInv'
  OBVIOUS
<1>1. /\ disk' = disk /\ family' = family /\ lapsed' = lapsed /\ bearer' = bearer /\ mem' = mem /\ call' = call
      /\ flight' = flight /\ closed' = closed /\ forgotten' = forgotten /\ events' = events
  BY DEF vars
<1>2. ServerMoves
  BY <1>1 DEF ServerMoves
<1>3. \A p \in Procs : Local(p)'
  BY <1>1, <1>2, FrameLocal
<1>4. TypeOK'
  BY <1>1 DEF SessionInv, TypeOK
<1>5. DiskInv' /\ Known' /\ OneRefreshAtATime' /\ RemovedStaysGone' /\ ForgottenStaysGone'
  BY <1>1 DEF SessionInv, DiskInv, Sound, Known, Issued, OneRefreshAtATime, Refreshing, HasRead, RemovedStaysGone, ForgottenStaysGone
<1>6. \A p \in Procs : NewSession(p)' /\ NewBearer(p)'
  BY <1>1 DEF SessionInv, NewSession, NewBearer, Refreshing, HasRead, One
<1>. QED  BY <1>3, <1>4, <1>5, <1>6 DEF SessionInv

LEMMA SessionStep == SessionInv /\ [Next]_vars => SessionInv'
<1>. SUFFICES ASSUME SessionInv, [Next]_vars  PROVE SessionInv'
  OBVIOUS
<1>1. ASSUME NEW p \in Procs, LogoutStart(p) \/ End(p)  PROVE SessionInv'
  BY <1>1, LogoutStartKeeps, EndKeeps
<1>2. ASSUME NEW p \in Procs, NEW i \in Calls, Acquire(p, i) \/ Answered(p, i) \/ Refused(p, i)  PROVE SessionInv'
  BY <1>2, AcquireKeeps, AnsweredKeeps, RefusedKeeps
<1>3. ASSUME NEW p \in Procs,
             FlightLocks(p) \/ FlightRead(p) \/ FlightRefused(p) \/ Exchanged(p) \/ ExchangeMismatch(p)
             \/ ExchangeRejected(p) \/ ExchangeFails(p) \/ FlightWrite(p) \/ FlightSettle(p) \/ FlightReject(p)
      PROVE  SessionInv'
  BY <1>3, FlightLocksKeeps, FlightReadKeeps, FlightRefusedKeeps, ExchangedKeeps, ExchangeRejectsKeeps, FlightWriteKeeps,
     FlightSettleKeeps, FlightRejectKeeps
<1>4. ASSUME NEW p \in Procs,
             LoginStatus(p) \/ LoginExchange(p) \/ LoginGivesUp(p) \/ LoginSwap(p) \/ LoginSettle(p)
      PROVE  SessionInv'
  BY <1>4, LoginStatusKeeps, LoginExchangeKeeps, LoginGivesUpKeeps, LoginSwapKeeps, LoginSettleKeeps
<1>5. ASSUME NEW p \in Procs,
             LogoutConfirmed(p) \/ LogoutUnknown(p) \/ RemoveFenced(p) \/ RemoveRead(p) \/ RemoveErase(p)
      PROVE  SessionInv'
  BY <1>5, LogoutConfirmedKeeps, LogoutUnknownKeeps, RemoveKeeps, RemoveReadKeeps
<1>6. ASSUME \/ \E b \in Bearers : BearerAges(b) \/ BearerRefused(b)
             \/ \E f \in Families : CodeLapses(f) \/ FamilyRevoked(f)
      PROVE  SessionInv'
  BY <1>6, ServerStepsKeep
<1>. QED  BY <1>1, <1>2, <1>3, <1>4, <1>5, <1>6, SessionStutter DEF Next

LEMMA SessionInvariant == Spec => []SessionInv
BY SessionInit, SessionStep, PTL DEF Spec

-----------------------------------------------------------------------------
(* The theorems *)

\* What is gone stays gone: no caller gets a bearer back that it named as
\* refused, and neither a session reported removed nor a bearer forgotten by an
\* undecided sign-out returns to the disk, whatever refreshes and sign-ins read
\* before (human-session.ts, vault.ts #performRefresh and deleteIfRevision).
THEOREM GoneIsGone == Spec => []GoneStaysGone
<1>1. SessionInv => GoneStaysGone
  BY DEF SessionInv, GoneStaysGone, RefusedNotReturned, Local, CallInv
<1>. QED  BY <1>1, SessionInvariant, PTL

\* What p exchanges its code for: nothing usable was stored when it read, and what
\* is stored of that code is still what it read.
ExchangeInv ==
    \A p \in Procs : flight[p].at = "exchange" =>
        /\ ~Usable(flight[p].env, call[p][flight[p].owner].rej)
        /\ disk.env.fam = flight[p].env.fam => disk.env = flight[p].env

\* A refresh that is settled is over, or the next one has not its lock yet.
LEMMA SettleEnds ==
    ASSUME Typed, NEW p \in Procs, NEW ok, NEW snap, NEW m, Settle(p, ok, snap, m)
    PROVE  /\ flight'[p].at \in {"none", "read"}
           /\ \A q \in Procs \ {p} : flight'[q] = flight[q] /\ call'[q] = call[q]
<1>1. NoFlight.at = "none" /\ ForgetBy(1).at = "read" /\ \A i, W : [RefreshBy(i) EXCEPT !.waiters = W].at = "read"
  BY DEF NoFlight, ForgetBy, RefreshBy
<1>2. ASSUME NEW f, flight' = [flight EXCEPT ![p] = f], f.at \in {"none", "read"}
      PROVE  flight'[p].at \in {"none", "read"} /\ \A q \in Procs \ {p} : flight'[q] = flight[q]
  BY <1>2 DEF Typed
<1>3. \/ flight' = [flight EXCEPT ![p] = NoFlight]
      \/ flight' = [flight EXCEPT ![p] = ForgetBy(1)]
      \/ \E i, W : flight' = [flight EXCEPT ![p] = [RefreshBy(i) EXCEPT !.waiters = W]]
  BY DEF Settle, Exit
<1>4. flight'[p].at \in {"none", "read"} /\ \A q \in Procs \ {p} : flight'[q] = flight[q]
  BY <1>1, <1>2, <1>3
<1>5. call' = call \/ \E c : call' = [call EXCEPT ![p] = c]
  BY DEF Settle, Exit
<1>. QED  BY <1>4, <1>5 DEF Typed

\* The refresh of q goes on as it was.
Exchanging(q) ==
    flight'[q].at = "exchange" =>
        /\ flight[q].at = "exchange" /\ flight'[q].env = flight[q].env /\ flight'[q].owner = flight[q].owner
        /\ call'[q][flight[q].owner].rej = call[q][flight[q].owner].rej

Elsewhere(p) == \A q \in Procs \ {p} : flight'[q] = flight[q] /\ call'[q] = call[q]

\* A caller joins the refresh under way, or starts one.
LEMMA RefreshExchanging ==
    ASSUME SessionInv, NEW p \in Procs, NEW i \in Calls, NEW c, Refresh(p, i, c), call[p][i].at # "wait"
    PROVE  Elsewhere(p) /\ Exchanging(p)
<1>1. Typed /\ FlightInv(p) /\ flight[p] \in FlightType /\ call[p] \in [Calls -> CallType]
  BY Before DEF Local, Typed
<1>2. /\ call' = [call EXCEPT ![p] = [call[p] EXCEPT ![i] = [c EXCEPT !.at = "wait"]]]
      /\ flight' = [flight EXCEPT ![p] = IF flight[p].at = "none" THEN RefreshBy(i)
                                         ELSE [flight[p] EXCEPT !.waiters = @ \cup {i}]]
  BY DEF Refresh
<1>3. Elsewhere(p)
  BY <1>1, <1>2 DEF Elsewhere, Typed
<1>4. CASE flight[p].at = "none"
  <2>1. flight'[p] = RefreshBy(i)
    BY <1>1, <1>2, <1>4 DEF Typed
  <2>. QED  BY <1>3, <2>1 DEF Exchanging, RefreshBy, NoFlight
<1>5. CASE flight[p].at # "none"
  <2>1. flight'[p] = [flight[p] EXCEPT !.waiters = @ \cup {i}]
    BY <1>1, <1>2, <1>5 DEF Typed
  <2>2. flight'[p].at = flight[p].at /\ flight'[p].env = flight[p].env /\ flight'[p].owner = flight[p].owner
    BY <1>1, <2>1 DEF FlightType
  <2>3. flight[p].owner # i
    BY <1>1, <1>5 DEF FlightInv
  <2>4. call'[p][flight[p].owner] = call[p][flight[p].owner]
    BY <1>1, <1>2, <2>3 DEF Typed
  <2>. QED  BY <1>3, <2>2, <2>4 DEF Exchanging
<1>. QED  BY <1>4, <1>5

\* A caller that does not wait, and no flight, is touched.
LEMMA CallerExchanging ==
    ASSUME SessionInv, NEW p \in Procs, NEW i \in Calls, NEW c, call' = [call EXCEPT ![p][i] = c],
           call[p][i].at # "wait", flight' = flight
    PROVE  Elsewhere(p) /\ Exchanging(p)
<1>1. Typed /\ FlightInv(p) /\ call[p] \in [Calls -> CallType]
  BY Before DEF Local, Typed
<1>2. flight[p].at # "none" => flight[p].owner # i
  BY <1>1 DEF FlightInv
<1>3. \A j : j # i => call'[p][j] = call[p][j]
  BY <1>1 DEF Typed
<1>. QED  BY <1>1, <1>2, <1>3 DEF Typed, Elsewhere, Exchanging

LEMMA ExitExchanging ==
    ASSUME SessionInv, NEW p \in Procs, Exit(p)
    PROVE  Elsewhere(p) /\ Exchanging(p)
<1>1. flight' = [flight EXCEPT ![p] = NoFlight] /\ call' = [call EXCEPT ![p] = [i \in Calls |-> IdleCall]] /\ Typed
  BY Before DEF Exit
<1>2. flight'[p].at = "none"
  BY <1>1 DEF Typed, NoFlight
<1>. QED  BY <1>1, <1>2 DEF Typed, Elsewhere, Exchanging

LEMMA SettleExchanging ==
    ASSUME SessionInv, NEW p \in Procs, NEW ok, NEW snap, NEW m, Settle(p, ok, snap, m)
    PROVE  Elsewhere(p) /\ Exchanging(p)
<1>1. Typed
  BY Before
<1>. QED  BY <1>1, SettleEnds DEF Elsewhere, Exchanging

\* A refresh goes to another place than the exchange.
LEMMA PlaceExchanging ==
    ASSUME SessionInv, NEW p \in Procs, NEW fl, flight' = [flight EXCEPT ![p] = fl],
           flight'[p].at # "exchange", call' = call
    PROVE  Elsewhere(p) /\ Exchanging(p)
<1>1. Typed
  BY Before
<1>. QED  BY <1>1 DEF Typed, Elsewhere, Exchanging

\* A sign-in or a removal has its process to itself.
LEMMA OwnExchanging ==
    ASSUME SessionInv, NEW p \in Procs, NEW c, Goto(p, c), flight' = flight, One(p).at # "wait"
    PROVE  Elsewhere(p) /\ Exchanging(p)
<1>1. 1 \in Calls
  BY Domains
<1>2. call' = [call EXCEPT ![p][1] = c] /\ call[p][1].at # "wait"
  BY DEF Goto, One
<1>. QED  BY <1>1, <1>2, CallerExchanging

LEMMA CallsExchanging ==
    ASSUME SessionInv, NEW p \in Procs,
           LogoutStart(p) \/ End(p) \/ \E i \in Calls : Acquire(p, i) \/ Answered(p, i) \/ Refused(p, i)
    PROVE  Elsewhere(p) /\ Exchanging(p)
<1>1. CASE LogoutStart(p)
  <2>1. 1 \in Calls /\ call[p][1].at # "wait" /\ Refresh(p, 1, IdleCall)
    BY <1>1, Domains DEF LogoutStart
  <2>. QED  BY <2>1, RefreshExchanging
<1>2. CASE End(p)
  BY <1>2, ExitExchanging DEF End
<1>3. ASSUME NEW i \in Calls, Acquire(p, i)  PROVE Elsewhere(p) /\ Exchanging(p)
  <2>1. /\ call[p][i].at # "wait"
        /\ Refresh(p, i, IdleCall) \/ (flight' = flight /\ \E c : call' = [call EXCEPT ![p][i] = c])
    BY <1>3 DEF Acquire
  <2>. QED  BY <2>1, RefreshExchanging, CallerExchanging
<1>4. ASSUME NEW i \in Calls, Answered(p, i)  PROVE Elsewhere(p) /\ Exchanging(p)
  BY <1>4, CallerExchanging DEF Answered
<1>5. ASSUME NEW i \in Calls, Refused(p, i)  PROVE Elsewhere(p) /\ Exchanging(p)
  <2>1. /\ call[p][i].at # "wait"
        /\ (\E c : Refresh(p, i, c)) \/ (flight' = flight /\ \E c : call' = [call EXCEPT ![p][i] = c])
    BY <1>5 DEF Refused
  <2>. QED  BY <2>1, RefreshExchanging, CallerExchanging
<1>. QED  BY <1>1, <1>2, <1>3, <1>4, <1>5

LEMMA FlightsExchanging ==
    ASSUME SessionInv, NEW p \in Procs,
           FlightLocks(p) \/ FlightRefused(p) \/ Exchanged(p) \/ ExchangeMismatch(p) \/ ExchangeRejected(p)
           \/ ExchangeFails(p) \/ FlightWrite(p) \/ FlightSettle(p) \/ FlightReject(p)
    PROVE  Elsewhere(p) /\ Exchanging(p)
<1>0. Typed /\ flight[p] \in FlightType
  BY Before
<1>1. ASSUME NEW at \in FlightPlaces \ {"exchange"}, NEW next, NEW t,
             \/ flight' = [flight EXCEPT ![p] = [flight[p] EXCEPT !.at = at]]
             \/ flight' = [flight EXCEPT ![p] = [flight[p] EXCEPT !.at = at, !.next = next]]
             \/ flight' = [flight EXCEPT ![p] = [flight[p] EXCEPT !.at = at, !.terminal = t]],
             call' = call
      PROVE  Elsewhere(p) /\ Exchanging(p)
  <2>1. flight'[p].at = at
    <3>1. CASE flight' = [flight EXCEPT ![p] = [flight[p] EXCEPT !.at = at]]
      BY <1>0, <3>1 DEF Typed, FlightType
    <3>2. CASE flight' = [flight EXCEPT ![p] = [flight[p] EXCEPT !.at = at, !.next = next]]
      BY <1>0, <3>2 DEF Typed, FlightType
    <3>3. CASE flight' = [flight EXCEPT ![p] = [flight[p] EXCEPT !.at = at, !.terminal = t]]
      BY <1>0, <3>3 DEF Typed, FlightType
    <3>. QED  BY <1>1, <3>1, <3>2, <3>3
  <2>2. \A q \in Procs \ {p} : flight'[q] = flight[q]
    BY <1>0, <1>1 DEF Typed
  <2>. QED  BY <1>1, <2>1, <2>2 DEF Elsewhere, Exchanging
<1>2. CASE FlightLocks(p)
  BY <1>1, <1>2 DEF FlightLocks, FlightPlaces
<1>3. CASE FlightRefused(p) \/ ExchangeFails(p)
  BY <1>3, SettleExchanging DEF FlightRefused, ExchangeFails, Fails
<1>4. CASE Exchanged(p)
  <2>1. "write" \in FlightPlaces \ {"exchange"} /\ call' = call
    BY <1>4 DEF Exchanged, FlightPlaces
  <2>2. \E next : flight' = [flight EXCEPT ![p] = [flight[p] EXCEPT !.at = "write", !.next = next]]
    BY <1>4 DEF Exchanged
  <2>. QED  BY <1>1, <2>1, <2>2
<1>5. CASE ExchangeMismatch(p)
  BY <1>1, <1>5 DEF ExchangeMismatch, FlightPlaces
<1>6. CASE ExchangeRejected(p)
  <2>1. /\ "reject" \in FlightPlaces \ {"exchange"} /\ call' = call
        /\ flight' = [flight EXCEPT ![p] = [flight[p] EXCEPT !.at = "reject", !.terminal = TRUE]]
    BY <1>6 DEF ExchangeRejected, FlightPlaces
  <2>. QED  BY <1>1, <2>1
<1>7. CASE FlightWrite(p)
  <2>1. CASE flight' = [flight EXCEPT ![p] = [flight[p] EXCEPT !.at = "settle"]] /\ call' = call
    BY <1>1, <2>1 DEF FlightPlaces
  <2>2. CASE Exit(p) \/ \E ok, snap, m : Settle(p, ok, snap, m)
    BY <2>2, SettleExchanging, ExitExchanging
  <2>. QED  BY <1>7, <2>1, <2>2 DEF FlightWrite, Rotated, Fails
<1>8. CASE FlightSettle(p)
  BY <1>8, SettleExchanging DEF FlightSettle, Rotated, Fails
<1>9. CASE FlightReject(p)
  <2>1. Exit(p) \/ \E ok, snap, m : Settle(p, ok, snap, m)
    BY <1>9 DEF FlightReject, Fails
  <2>. QED  BY <2>1, SettleExchanging, ExitExchanging
<1>. QED  BY <1>2, <1>3, <1>4, <1>5, <1>6, <1>7, <1>8, <1>9

LEMMA RemovalExchanging ==
    ASSUME SessionInv, NEW p \in Procs, NEW gone, AfterRemoval(p, gone), One(p).at # "wait"
    PROVE  Elsewhere(p) /\ Exchanging(p)
BY ExitExchanging, OwnExchanging DEF AfterRemoval, LoginFails

LEMMA OwnStepsExchanging ==
    ASSUME SessionInv, NEW p \in Procs,
           \/ LoginStatus(p) \/ LoginExchange(p) \/ LoginGivesUp(p) \/ LoginSwap(p) \/ LoginSettle(p)
           \/ LogoutConfirmed(p) \/ LogoutUnknown(p) \/ RemoveFenced(p) \/ RemoveRead(p) \/ RemoveErase(p)
    PROVE  Elsewhere(p) /\ Exchanging(p)
<1>0. Typed
  BY Before
<1>1. CASE LoginStatus(p)
  <2>1. One(p).at # "wait" /\ flight' = flight /\ (call' = call \/ \E c : Goto(p, c))
    BY <1>1, Domains DEF LoginStatus, One
  <2>2. CASE call' = call
    BY <2>1, <2>2 DEF Elsewhere, Exchanging
  <2>. QED  BY <2>1, <2>2, OwnExchanging
<1>2. CASE LoginExchange(p) \/ LoginGivesUp(p)
  <2>1. One(p).at # "wait" /\ flight' = flight /\ \E c : Goto(p, c)
    BY <1>2 DEF LoginExchange, LoginGivesUp
  <2>. QED  BY <2>1, OwnExchanging
<1>3. CASE LoginSwap(p) \/ LoginSettle(p)
  <2>1. One(p).at # "wait" /\ (Exit(p) \/ (flight' = flight /\ \E c : Goto(p, c)))
    BY <1>3 DEF LoginSwap, LoginSettle, LoginStored, LoginFails
  <2>. QED  BY <2>1, ExitExchanging, OwnExchanging
<1>4. CASE LogoutConfirmed(p)
  <2>1. One(p).at # "wait" /\ flight' = flight /\ \E c : Goto(p, c)
    BY <1>4 DEF LogoutConfirmed
  <2>. QED  BY <2>1, OwnExchanging
<1>5. CASE LogoutUnknown(p)
  <2>1. flight' = [flight EXCEPT ![p] = ForgetBy(1)] /\ call' = [call EXCEPT ![p][1] = [IdleCall EXCEPT !.at = "wait"]]
    BY <1>5 DEF LogoutUnknown, Goto
  <2>2. flight'[p].at = "read"
    BY <1>0, <2>1 DEF Typed, ForgetBy, RefreshBy, NoFlight
  <2>. QED  BY <1>0, <2>1, <2>2 DEF Typed, Elsewhere, Exchanging
<1>6. CASE RemoveFenced(p) \/ RemoveErase(p)
  <2>1. One(p).at # "wait" /\ (Exit(p) \/ \E gone : AfterRemoval(p, gone))
    BY <1>6 DEF RemoveFenced, RemoveErase, Erase, Removed, NotRemoved
  <2>. QED  BY <2>1, ExitExchanging, RemovalExchanging
<1>7. CASE RemoveRead(p)
  <2>1. One(p).at # "wait" /\ ((\E gone : AfterRemoval(p, gone)) \/ (flight' = flight /\ \E c : Goto(p, c)))
    BY <1>7 DEF RemoveRead, Removed, NotRemoved
  <2>. QED  BY <2>1, OwnExchanging, RemovalExchanging
<1>. QED  BY <1>1, <1>2, <1>3, <1>4, <1>5, <1>6, <1>7

\* What is stored of the code that q exchanges stays as it is: another refresh has
\* not the lock, and a sign-in stores a code of its own.
LEMMA ExchangeDisk ==
    ASSUME SessionInv, [Next]_vars, NEW q \in Procs, flight[q].at = "exchange",
           disk'.env.fam = flight[q].env.fam
    PROVE  disk'.env = disk.env
<1>0. flight[q].env.fam \in Families /\ NoEnvelope.fam = 0 /\ 0 \notin Families /\ Refreshing(q) /\ HasRead(q)
  <2>1. HasRead(q) /\ Refreshing(q)
    BY DEF HasRead, Refreshing
  <2>. QED  BY <2>1, RefreshingFacts, Domains DEF NoEnvelope
<1>1. ASSUME DiskLoses  PROVE disk'.env = disk.env
  BY <1>0, <1>1 DEF DiskLoses
<1>2. ASSUME NEW e, CompareAndDelete(e) \/ DeleteConflict(e) \/ DeleteThrows(e) \/ TornDelete(e)
      PROVE  disk'.env = disk.env
  BY <1>1, <1>2, DiskOps DEF CompareAndDelete
<1>3. ASSUME disk' = disk \/ disk' = AfterRead \/ StoreThrows  PROVE disk'.env = disk.env
  BY <1>1, <1>3, DiskOps
<1>4. ASSUME NEW p \in Procs, FlightWrite(p)  PROVE FALSE
  <2>1. flight[p].at = "write" /\ Refreshing(p)
    BY <1>4 DEF FlightWrite, Refreshing
  <2>. QED  BY <1>0, <2>1 DEF SessionInv, OneRefreshAtATime
<1>5. ASSUME NEW p \in Procs, LoginSwap(p)  PROVE disk'.env = disk.env
  <2>1. One(p).at = "swap" /\ (CompareAndSwap(One(p).env, LoginEnvelope(p)) \/ SwapConflict(One(p).env)
                                 \/ StoreThrows \/ TornSwap(One(p).env, LoginEnvelope(p)))
    BY <1>5 DEF LoginSwap
  <2>2. LoginEnvelope(p).fam # flight[q].env.fam
    BY <1>0, <2>1, Before DEF NewSession, LoginEnvelope
  <2>3. CASE CompareAndSwap(One(p).env, LoginEnvelope(p))
    BY <2>2, <2>3 DEF CompareAndSwap
  <2>4. CASE TornSwap(One(p).env, LoginEnvelope(p))
    <3>1. disk'.env = LoginEnvelope(p) \/ disk'.env = NoEnvelope
      BY <2>4 DEF TornSwap
    <3>. QED  BY <1>0, <2>2, <3>1
  <2>5. CASE SwapConflict(One(p).env) \/ StoreThrows
    BY <1>1, <2>5, DiskOps
  <2>. QED  BY <2>1, <2>3, <2>4, <2>5
<1>6. ASSUME NEW p \in Procs,
             FlightReject(p) \/ RemoveFenced(p) \/ RemoveErase(p)
      PROVE  disk'.env = disk.env
  BY <1>2, <1>3, <1>6 DEF FlightReject, RemoveFenced, RemoveErase, Erase
<1>7. ASSUME NEW p \in Procs,
             \/ LogoutStart(p) \/ End(p)
             \/ \E i \in Calls : Acquire(p, i) \/ Answered(p, i) \/ Refused(p, i)
             \/ FlightLocks(p) \/ FlightRefused(p) \/ Exchanged(p) \/ ExchangeMismatch(p) \/ ExchangeRejected(p)
             \/ ExchangeFails(p) \/ LoginGivesUp(p) \/ LogoutConfirmed(p) \/ LogoutUnknown(p)
      PROVE  disk' = disk
  BY <1>7 DEF LogoutStart, End, Acquire, Answered, Refused, FlightLocks, FlightRefused, Exchanged, ExchangeMismatch,
     ExchangeRejected, ExchangeFails, LoginGivesUp, LogoutConfirmed, LogoutUnknown
<1>8. ASSUME NEW p \in Procs,
             FlightRead(p) \/ FlightSettle(p) \/ LoginStatus(p) \/ LoginExchange(p) \/ LoginSettle(p) \/ RemoveRead(p)
      PROVE  disk' = disk \/ disk' = AfterRead \/ StoreThrows
  BY <1>8 DEF FlightRead, FlightSettle, LoginStatus, LoginExchange, LoginSettle, RemoveRead
<1>9. ASSUME \/ \E b \in Bearers : BearerAges(b) \/ BearerRefused(b)
             \/ \E f \in Families : CodeLapses(f) \/ FamilyRevoked(f)
       PROVE  disk' = disk
  BY <1>9 DEF BearerAges, BearerRefused, CodeLapses, FamilyRevoked, Turn
<1>10. CASE UNCHANGED vars
  BY <1>3, <1>10 DEF vars
<1>. QED  BY <1>3, <1>4, <1>5, <1>6, <1>7, <1>8, <1>9, <1>10 DEF Next

\* A bearer does not get younger.
LEMMA AgesGrow ==
    ASSUME SessionInv, [Next]_vars, NEW b \in Bearers, bearer'[b].age = 0
    PROVE  bearer[b].age = 0
<1>0. Typed
  BY Before
<1>1. ASSUME NEW c, NEW f, Issue(c, f)  PROVE bearer[b].age = 0
  BY <1>0, <1>1 DEF Issue, Typed
<1>2. ASSUME NEW c, BearerAges(c) \/ BearerRefused(c)  PROVE bearer[b].age = 0
  <2>1. CASE bearer' = [bearer EXCEPT ![c].age = @ + 1] /\ bearer[c].fam # 0
    <3>1. b # c => bearer'[b] = bearer[b]
      BY <1>0, <2>1 DEF Typed
    <3>2. b = c => bearer'[b].age = bearer[b].age + 1
      BY <1>0, <2>1 DEF Typed
    <3>. QED  BY <1>0, <3>1, <3>2 DEF Typed
  <2>2. CASE bearer' = [bearer EXCEPT ![c].refused = TRUE]
    BY <1>0, <2>2 DEF Typed
  <2>. QED  BY <1>2, <2>1, <2>2 DEF BearerAges, BearerRefused
<1>3. ASSUME NEW f, CodeLapses(f) \/ FamilyRevoked(f)  PROVE bearer' = bearer
  BY <1>3 DEF CodeLapses, FamilyRevoked
<1>4. ASSUME NEW p \in Procs,
             LoginStatus(p) \/ LoginGivesUp(p) \/ LoginSwap(p) \/ LoginSettle(p) \/ LogoutConfirmed(p) \/ LogoutUnknown(p)
      PROVE  bearer' = bearer
  BY <1>4 DEF LoginStatus, LoginGivesUp, LoginSwap, LoginSettle, LoginFails, LogoutConfirmed, LogoutUnknown, remote
<1>5. ASSUME NEW p \in Procs, RemoveFenced(p) \/ RemoveRead(p) \/ RemoveErase(p)  PROVE bearer' = bearer
  BY <1>5 DEF RemoveFenced, RemoveRead, RemoveErase, Erase, Removed, NotRemoved, AfterRemoval, LoginFails, remote
<1>6. ASSUME NEW p \in Procs,
             \/ LogoutStart(p) \/ End(p) \/ FlightLocks(p) \/ FlightRead(p) \/ FlightRefused(p) \/ ExchangeMismatch(p)
             \/ ExchangeRejected(p) \/ ExchangeFails(p) \/ FlightWrite(p) \/ FlightSettle(p) \/ FlightReject(p)
             \/ \E i \in Calls : Acquire(p, i) \/ Answered(p, i) \/ Refused(p, i)
      PROVE  bearer' = bearer
  BY <1>6 DEF LogoutStart, End, FlightLocks, FlightRead, FlightRefused, ExchangeMismatch, ExchangeRejected, ExchangeFails,
     FlightWrite, FlightSettle, FlightReject, Acquire, Answered, Refused, remote
<1>7. ASSUME NEW p \in Procs, Exchanged(p) \/ LoginExchange(p)  PROVE \E c, f : Issue(c, f)
  BY <1>7 DEF Exchanged, LoginExchange
<1>8. CASE UNCHANGED vars
  BY <1>8 DEF vars
<1>. QED  BY <1>1, <1>2, <1>3, <1>4, <1>5, <1>6, <1>7, <1>8 DEF Next

\* A refresh that goes to the exchange has just read what is stored.
LEMMA ReadToExchange ==
    ASSUME SessionInv, NEW p \in Procs, FlightRead(p), flight'[p].at = "exchange"
    PROVE  /\ flight'[p].owner = flight[p].owner /\ call' = call /\ bearer' = bearer
           /\ ~Usable(flight'[p].env, call[p][flight[p].owner].rej) /\ disk'.env = flight'[p].env
<1>. DEFINE e == Observed
            fl == flight[p]
            m == [mem[p] EXCEPT !.probed = TRUE]
<1>1. Typed /\ fl \in FlightType /\ disk' = AfterRead /\ bearer' = bearer
  BY Before DEF FlightRead, remote
<1>2. ASSUME NEW ok, NEW snap, NEW mm, Settle(p, ok, snap, mm)  PROVE FALSE
  BY <1>1, <1>2, SettleEnds
<1>3. ASSUME NEW where, NEW next, where # "exchange",
             flight' = [flight EXCEPT ![p] = [fl EXCEPT !.at = where, !.env = e, !.next = next]]
      PROVE  FALSE
  BY <1>1, <1>3 DEF Typed, FlightType
<1>4. /\ e # NoEnvelope /\ ~Usable(e, call[p][fl.owner].rej) /\ call' = call
      /\ flight' = [flight EXCEPT ![p] = [fl EXCEPT !.at = "exchange", !.env = e, !.next = NoEnvelope]]
  <2>1. ~Settle(p, FALSE, e, m) /\ ~Retained(p, e, m)
    BY <1>2 DEF Retained
  <2>2. /\ flight' # [flight EXCEPT ![p] = [fl EXCEPT !.at = "write", !.env = e, !.next = WithoutAccess(e)]]
        /\ flight' # [flight EXCEPT ![p] = [fl EXCEPT !.at = "reject", !.env = e, !.next = NoEnvelope]]
    <3>. "write" # "exchange" /\ "reject" # "exchange"
      OBVIOUS
    <3>. QED  BY <1>3
  <2>. QED  BY <2>1, <2>2, ZenonT(60) DEF FlightRead
<1>5. flight'[p].env = e /\ flight'[p].owner = fl.owner
  BY <1>1, <1>4 DEF Typed, FlightType
<1>6. disk' = disk /\ e = disk.env
  BY <1>1, <1>4 DEF Observed, AfterRead, Readable
<1>. QED  BY <1>1, <1>4, <1>5, <1>6

LEMMA ExchangeStep == SessionInv /\ ExchangeInv /\ [Next]_vars => ExchangeInv'
<1>. SUFFICES ASSUME SessionInv, ExchangeInv, [Next]_vars, NEW q \in Procs, flight'[q].at = "exchange"
              PROVE  /\ ~(Usable(flight[q].env, call[q][flight[q].owner].rej))'
                     /\ disk'.env.fam = flight'[q].env.fam => disk'.env = flight'[q].env
  BY DEF ExchangeInv, Usable
<1>1. CASE FlightRead(q)
  <2>1. /\ flight'[q].owner = flight[q].owner /\ call' = call /\ bearer' = bearer /\ disk'.env = flight'[q].env
        /\ ~Usable(flight'[q].env, call[q][flight[q].owner].rej)
    BY <1>1, ReadToExchange
  <2>. QED  BY <2>1 DEF Usable
<1>2. CASE ~FlightRead(q)
  <2>1. Exchanging(q)
    <3>1. ASSUME NEW p \in Procs, Elsewhere(p) /\ Exchanging(p)  PROVE Exchanging(q)
      BY <3>1 DEF Elsewhere, Exchanging
    <3>2. ASSUME NEW p \in Procs, FlightRead(p)  PROVE Exchanging(q)
      <4>1. Typed /\ p # q
        BY <1>2, <3>2, Before
      <4>2. ASSUME NEW ok, NEW snap, NEW m, Settle(p, ok, snap, m)  PROVE flight'[q] = flight[q] /\ call'[q] = call[q]
        BY <4>1, <4>2, SettleEnds
      <4>3. (\E ok, snap, m : Settle(p, ok, snap, m)) \/ (call' = call /\ \E f : flight' = [flight EXCEPT ![p] = f])
        BY <3>2 DEF FlightRead, Retained
      <4>4. flight'[q] = flight[q] /\ call'[q] = call[q]
        BY <4>1, <4>2, <4>3 DEF Typed
      <4>. QED  BY <4>4 DEF Exchanging
    <3>3. CASE UNCHANGED local
      BY <3>3 DEF local, Exchanging
    <3>4. ASSUME \/ \E b \in Bearers : BearerAges(b) \/ BearerRefused(b)
                 \/ \E f \in Families : CodeLapses(f) \/ FamilyRevoked(f)
                 \/ UNCHANGED vars
          PROVE  UNCHANGED local
      BY <3>4 DEF BearerAges, BearerRefused, CodeLapses, FamilyRevoked, Turn, vars, local
    <3>5. ASSUME NEW p \in Procs, LogoutStart(p) \/ End(p) \/ \E i \in Calls : Acquire(p, i) \/ Answered(p, i) \/ Refused(p, i)
          PROVE  Exchanging(q)
      BY <3>1, <3>5, CallsExchanging
    <3>6. ASSUME NEW p \in Procs,
                 FlightLocks(p) \/ FlightRefused(p) \/ Exchanged(p) \/ ExchangeMismatch(p) \/ ExchangeRejected(p)
                 \/ ExchangeFails(p) \/ FlightWrite(p) \/ FlightSettle(p) \/ FlightReject(p)
          PROVE  Exchanging(q)
      BY <3>1, <3>6, FlightsExchanging
    <3>7. ASSUME NEW p \in Procs,
                 \/ LoginStatus(p) \/ LoginExchange(p) \/ LoginGivesUp(p) \/ LoginSwap(p) \/ LoginSettle(p)
                 \/ LogoutConfirmed(p) \/ LogoutUnknown(p) \/ RemoveFenced(p) \/ RemoveRead(p) \/ RemoveErase(p)
          PROVE  Exchanging(q)
      BY <3>1, <3>7, OwnStepsExchanging
    <3>. QED  BY <3>2, <3>3, <3>4, <3>5, <3>6, <3>7 DEF Next
  <2>2. PICK e, o, x : e = flight[q].env /\ o = flight[q].owner /\ x = call[q][flight[q].owner].rej
    OBVIOUS
  <2>3. /\ flight[q].at = "exchange" /\ flight'[q].env = e /\ flight'[q].owner = o /\ call'[q][o].rej = x
        /\ ~Usable(e, x) /\ (disk.env.fam = e.fam => disk.env = e)
    BY <2>1, <2>2 DEF Exchanging, ExchangeInv
  <2>4. e.tok # 0 => e.tok \in Bearers
    <3>1. HasRead(q)
      BY <2>3 DEF HasRead
    <3>. QED  BY <2>2, <3>1, RefreshingFacts, Domains
  <2>5. ~(Usable(e, x))'
    BY <2>3, <2>4, AgesGrow DEF Usable
  <2>6. disk'.env.fam = e.fam => disk'.env = e
    BY <2>2, <2>3, ExchangeDisk
  <2>. QED  BY <2>3, <2>5, <2>6 DEF Usable
<1>. QED  BY <1>1, <1>2

\* A login code is exchanged only while the store holds no bearer of it that would
\* do: whoever waited for another's refresh uses what that one stored
\* (withRefreshLock from before the read to after the write, local-session.ts,
\* and usableStoredAccess, human-session.ts).
THEOREM NoNeedlessExchange == Spec => []ExchangeNeeded
<1>1. Init => ExchangeInv
  BY DEF Init, ExchangeInv, NoFlight
<1>2. SessionInv /\ ExchangeInv /\ [Next]_vars => ExchangeInv'
  BY ExchangeStep
<1>3. ExchangeInv => ExchangeNeeded
  BY DEF ExchangeInv, ExchangeNeeded
<1>. QED  BY <1>1, <1>2, <1>3, SessionInvariant, PTL DEF Spec

\* What a step did that took family f off the disk.
Taken(f) == f \in Families /\ disk.env.fam = f /\ disk'.env.fam # f

\* The store operations take off what they compared, or an envelope without its key.
LEMMA TakenBy ==
    ASSUME SessionInv, NEW f, Taken(f)
    PROVE  /\ disk' # disk
           /\ disk' = AfterRead => disk.key = "none"
           /\ StoreThrows => disk.key = "none"
           /\ \A e : SwapConflict(e) => disk.key = "none"
           /\ \A e : ~DeleteConflict(e)
           /\ \A e : CompareAndDelete(e) \/ TornDelete(e) => disk.env = e
           /\ \A e : DeleteThrows(e) => disk.key = "none" \/ disk.env = e
           /\ \A old, new : CompareAndSwap(old, new) \/ TornSwap(old, new) => disk.env = old
           /\ \A old, new : CompareAndSwap(old, new) => disk'.env = new
           /\ \A old, new : TornSwap(old, new) => disk'.env = new \/ old = NoEnvelope
<1>1. /\ disk.key \in {"none", "empty", "ok"} /\ disk.env # NoEnvelope /\ disk.key # "empty"
      /\ disk.env.fam = f /\ disk'.env.fam # f
  BY Before, Domains DEF Typed, DiskInv, NoEnvelope, Taken
<1>2. disk' # disk
  BY <1>1
<1>3. (disk' = AfterRead => disk.key = "none") /\ (StoreThrows => disk.key = "none")
  BY <1>1, <1>2 DEF AfterRead, StoreThrows, Readable
<1>4. Readable => Observed = disk.env
  BY DEF Observed
<1>5. \A e : /\ SwapConflict(e) => disk.key = "none"
             /\ ~DeleteConflict(e)
             /\ CompareAndDelete(e) \/ TornDelete(e) => disk.env = e
             /\ DeleteThrows(e) => disk.key = "none" \/ disk.env = e
  BY <1>1, <1>2, <1>3, <1>4 DEF SwapConflict, DeleteConflict, CompareAndDelete, TornDelete, DeleteThrows
<1>6. \A old, new : /\ CompareAndSwap(old, new) \/ TornSwap(old, new) => disk.env = old
                    /\ CompareAndSwap(old, new) => disk'.env = new
                    /\ TornSwap(old, new) => disk'.env = new \/ old = NoEnvelope
  BY <1>4 DEF CompareAndSwap, TornSwap
<1>. QED  BY <1>2, <1>3, <1>5, <1>6

\* Of no use, or read last by a process that is about to take it off.
MayBeTaken(f) ==
    \/ disk.key = "none" \/ family[f] = "revoked" \/ f \in lapsed
    \/ \E p \in Procs : \/ flight[p].at = "reject" /\ flight[p].env = disk.env
                        \/ One(p).at \in {"swap", "erase"} /\ One(p).env = disk.env

LEMMA LiveSessionStep ==
    ASSUME SessionInv, [Next]_vars, NEW f, Taken(f)
    PROVE  MayBeTaken(f)
<1>1. ASSUME disk' = disk \/ disk' = AfterRead \/ StoreThrows  PROVE MayBeTaken(f)
  BY <1>1, TakenBy DEF MayBeTaken
<1>2. ASSUME NEW p \in Procs, FlightWrite(p)  PROVE MayBeTaken(f)
  <2>1. flight[p].at = "write"
    BY <1>2 DEF FlightWrite
  <2>2. flight[p].env # NoEnvelope /\ flight[p].next.fam = flight[p].env.fam
    BY <2>1, WritingFacts
  <2>3. ~CompareAndSwap(flight[p].env, flight[p].next) /\ ~TornSwap(flight[p].env, flight[p].next)
    BY <2>2, TakenBy DEF Taken
  <2>4. SwapConflict(flight[p].env) \/ StoreThrows
    BY <1>2, <2>3 DEF FlightWrite
  <2>. QED  BY <2>4, TakenBy DEF MayBeTaken
<1>3. ASSUME NEW p \in Procs, FlightReject(p)  PROVE MayBeTaken(f)
  <2>1. flight[p].at = "reject" /\ (CompareAndDelete(flight[p].env) \/ DeleteConflict(flight[p].env)
                                      \/ DeleteThrows(flight[p].env) \/ TornDelete(flight[p].env))
    BY <1>3 DEF FlightReject
  <2>. QED  BY <2>1, TakenBy DEF MayBeTaken
<1>4. ASSUME NEW p \in Procs, LoginSwap(p)  PROVE MayBeTaken(f)
  <2>1. One(p).at = "swap" /\ (CompareAndSwap(One(p).env, LoginEnvelope(p)) \/ SwapConflict(One(p).env)
                                 \/ StoreThrows \/ TornSwap(One(p).env, LoginEnvelope(p)))
    BY <1>4 DEF LoginSwap
  <2>. QED  BY <2>1, TakenBy DEF MayBeTaken
<1>5. ASSUME NEW p \in Procs, NEW e, Erase(p, e)  PROVE disk.key = "none" \/ disk.env = e
  BY <1>5, TakenBy DEF Erase
<1>6. ASSUME NEW p \in Procs, RemoveFenced(p)  PROVE MayBeTaken(f)
  <2>1. One(p).at \in {"cleanup", "remove"} /\ One(p).at \in OwnPlaces
        /\ (Erase(p, mem[p].fence) \/ disk' = disk) /\ mem[p].mode \in {"work", "logout"}
    BY <1>6, Before DEF RemoveFenced, OwnPlaces, MemType
  <2>2. CASE disk.env = mem[p].fence
    <3>1. mem[p].fence.fam = f /\ mem[p].fence # NoEnvelope
      BY <2>2, Domains DEF Taken, NoEnvelope
    <3>2. LogoutInv(p)
      BY Before DEF Local
    <3>3. mem[p].mode = "logout" /\ One(p).at = "remove"
      BY <2>1, <3>1, <3>2, Alone DEF LogoutInv
    <3>4. family[f] = "revoked"
      BY <3>1, <3>2, <3>3 DEF LogoutInv, One
    <3>. QED  BY <3>4 DEF MayBeTaken
  <2>. QED  BY <1>5, <2>1, <2>2, TakenBy DEF MayBeTaken
<1>7. ASSUME NEW p \in Procs, RemoveErase(p)  PROVE MayBeTaken(f)
  BY <1>5, <1>7 DEF RemoveErase, MayBeTaken
<1>8. ASSUME NEW p \in Procs,
             \/ LogoutStart(p) \/ End(p)
             \/ \E i \in Calls : Acquire(p, i) \/ Answered(p, i) \/ Refused(p, i)
             \/ FlightLocks(p) \/ FlightRefused(p) \/ Exchanged(p) \/ ExchangeMismatch(p) \/ ExchangeRejected(p) \/ ExchangeFails(p)
             \/ LoginGivesUp(p) \/ LogoutConfirmed(p) \/ LogoutUnknown(p)
      PROVE  disk' = disk
  BY <1>8 DEF LogoutStart, End, Acquire, Answered, Refused, FlightLocks, FlightRefused, Exchanged, ExchangeMismatch,
     ExchangeRejected, ExchangeFails, LoginGivesUp, LogoutConfirmed, LogoutUnknown
<1>9. ASSUME NEW p \in Procs,
             FlightRead(p) \/ FlightSettle(p) \/ LoginStatus(p) \/ LoginExchange(p) \/ LoginSettle(p) \/ RemoveRead(p)
      PROVE  disk' = disk \/ disk' = AfterRead \/ StoreThrows
  BY <1>9 DEF FlightRead, FlightSettle, LoginStatus, LoginExchange, LoginSettle, RemoveRead
<1>10. ASSUME \/ \E b \in Bearers : BearerAges(b) \/ BearerRefused(b)
              \/ \E g \in Families : CodeLapses(g) \/ FamilyRevoked(g)
       PROVE  disk' = disk
  BY <1>10 DEF BearerAges, BearerRefused, CodeLapses, FamilyRevoked, Turn
<1>11. CASE UNCHANGED vars
  BY <1>1, <1>11 DEF vars
<1>. QED  BY <1>1, <1>2, <1>3, <1>4, <1>6, <1>7, <1>8, <1>9, <1>10, <1>11 DEF Next

\* A session leaves the disk only when it is of no use, or by a process whose
\* last read was of that very session (compareAndSwap and compareAndDelete
\* against the digest of what was read, local-session.ts).
THEOREM LiveSessionsAreKept == Spec => LiveSessionKept
<1>1. SessionInv /\ [Next]_vars =>
        [\A f \in Families :
           disk.env.fam = f /\ disk'.env.fam # f =>
             \/ disk.key = "none" \/ family[f] = "revoked" \/ f \in lapsed
             \/ \E p \in Procs : \/ flight[p].at = "reject" /\ flight[p].env = disk.env
                                 \/ One(p).at \in {"swap", "erase"} /\ One(p).env = disk.env]_vars
  BY LiveSessionStep DEF Taken, MayBeTaken
<1>. QED  BY <1>1, SessionInvariant, PTL DEF Spec, LiveSessionKept
=============================================================================
