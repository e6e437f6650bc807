------------------------ MODULE TerminalClientProofs ------------------------
(***************************************************************************)
(* Proofs about TerminalClient for any processes, sessions and number of   *)
(* ids: its use of the lock is ProcessLock's, and over named pipes no two  *)
(* processes are ever the same client.                                     *)
(***************************************************************************)
EXTENDS TerminalClient, ProcessLockProofs

Attachments == [at : ClaimPlaces, session : Sessions \cup {NoOne}, id : 0..MaxIds,
                sweep : SUBSET Sessions, target : Sessions \cup {NoOne}]

\* The attachment of one process is in order when m ids were minted: it is for a
\* session, its id was minted, and what it sweeps are other sessions' records.
InOrder(c, m) ==
    /\ c.at \in {"write", "sweep", "trylock", "unlink", "attached", "fresh"} => c.id \in 1..m
    /\ c.at \notin {"none", "fresh"} => c.session \in Sessions
    /\ c.sweep \subseteq Sessions \ {c.session}
    /\ c.at \in {"trylock", "unlink"} => c.target \in Sessions \ {c.session}

ClientTyped ==
    /\ record \in [Sessions -> Records]
    /\ client \in [Procs -> Attachments]
    /\ minted \in 0..MaxIds
    /\ gone \in SUBSET Sessions
    /\ \A s \in Sessions : record[s].id \in 0..minted
    /\ \A p \in Procs : InOrder(client[p], minted)

\* What a step does to one attachment and to the rest.
Changes(p, c) ==
    /\ c \in Attachments /\ InOrder(c, minted')
    /\ client' = [client EXCEPT ![p] = c]
    /\ minted' \in {minted, minted + 1} /\ minted' \in 0..MaxIds

LEMMA OneClient ==
    ASSUME ClientTyped, NEW p \in Procs, NEW c, Changes(p, c),
           record' \in [Sessions -> Records], \A s \in Sessions : record'[s].id \in 0..minted',
           gone' \in SUBSET Sessions
    PROVE  ClientTyped'
<1>0. /\ minted \in Nat /\ minted' \in Nat /\ minted <= minted'
      /\ client' = [client EXCEPT ![p] = c] /\ c \in Attachments /\ InOrder(c, minted')
  BY MaxIdsAssumption DEF ClientTyped, Changes
<1>1. client' \in [Procs -> Attachments]
  BY <1>0 DEF ClientTyped
<1>2. ASSUME NEW q \in Procs PROVE InOrder(client'[q], minted')
  <2>1. CASE q = p
    BY <1>0, <2>1 DEF ClientTyped
  <2>2. CASE q # p
    <3>1. client'[q] = client[q] /\ client[q] \in Attachments /\ InOrder(client[q], minted)
      BY <1>0, <2>2 DEF ClientTyped
    <3>2. \A n \in 1..minted : n \in 1..minted'
      BY <1>0
    <3>. QED  BY <3>1, <3>2 DEF InOrder
  <2>. QED  BY <2>1, <2>2
<1>3. minted' \in 0..MaxIds
  BY DEF Changes
<1>. QED
  BY <1>1, <1>2, <1>3 DEF ClientTyped

\* A claim starts, or a sweep goes on to a record.
LEMMA ClaimSteps ==
    ASSUME ClientTyped, NEW p \in Procs, NEW s \in Sessions, Claim(p, s) \/ SweepRead(p, s)
    PROVE  \E c : Changes(p, c) /\ UNCHANGED <<record, gone>>
<1>0. /\ minted \in Nat /\ client[p] \in Attachments /\ InOrder(client[p], minted)
      /\ minted \in 0..MaxIds
  BY MaxIdsAssumption DEF ClientTyped
<1>d. Detached \in Attachments /\ InOrder(Detached, minted')
  BY MaxIdsAssumption DEF Detached, Attachments, ClaimPlaces, InOrder
<1>c. client \in [Procs -> Attachments]
  BY DEF ClientTyped
<1>. USE MaxIdsAssumption DEF Attachments, ClaimPlaces
<1>1. CASE Claim(p, s)
  <2>. DEFINE c == [Detached EXCEPT !.at = "claim", !.session = s]
  <2>0. c \in Attachments
    BY <1>d
  <2>1. c \in Attachments /\ InOrder(c, minted)
    BY <2>0 DEF Detached, InOrder
  <2>. QED  BY <1>0, <1>1, <2>1 DEF Claim, Changes
<1>2. CASE SweepRead(p, s)
  <2>1. CASE Fresh(s)
    <3>. DEFINE c == [client[p] EXCEPT !.sweep = @ \ {s}]
    <3>1. c \in Attachments /\ InOrder(c, minted)
      BY <1>0 DEF InOrder
    <3>2. client' = [client EXCEPT ![p] = c]
      BY <1>2, <2>1, <1>c DEF SweepRead
    <3>. QED  BY <1>0, <1>2, <3>1, <3>2 DEF SweepRead, Changes
  <2>2. CASE ~Fresh(s)
    <3>. DEFINE c == [client[p] EXCEPT !.at = "trylock", !.sweep = @ \ {s}, !.target = s]
    <3>1. c \in Attachments /\ InOrder(c, minted)
      BY <1>0, <1>2 DEF InOrder, SweepRead
    <3>2. client' = [client EXCEPT ![p] = c]
      BY <1>2, <2>2, <1>c DEF SweepRead
    <3>. QED  BY <1>0, <1>2, <3>1, <3>2 DEF SweepRead, Changes
  <2>. QED  BY <2>1, <2>2
<1>. QED
  BY <1>1, <1>2

\* The other steps of one attachment that leave the records alone.
LEMMA AttachmentSteps ==
    ASSUME ClientTyped, NEW p \in Procs,
           \/ ClaimBusy(p) \/ ReadRecord(p) \/ ClaimFails(p) \/ SweepBusy(p)
           \/ SweepRelease(p) \/ Attached(p) \/ DetachFresh(p) \/ Crash(p)
    PROVE  \E c : Changes(p, c) /\ UNCHANGED <<record, gone>>
<1>0. /\ minted \in Nat /\ client[p] \in Attachments /\ InOrder(client[p], minted)
      /\ minted \in 0..MaxIds
  BY MaxIdsAssumption DEF ClientTyped
<1>d. Detached \in Attachments /\ InOrder(Detached, minted')
  BY MaxIdsAssumption DEF Detached, Attachments, ClaimPlaces, InOrder
<1>c. client \in [Procs -> Attachments]
  BY DEF ClientTyped
<1>. USE MaxIdsAssumption DEF Attachments, ClaimPlaces
<1>3. CASE ClaimBusy(p)
  <2>. DEFINE c == [client[p] EXCEPT !.at = "fresh", !.id = minted + 1]
  <2>1. minted' = minted + 1 /\ minted' \in 0..MaxIds
    BY <1>0, <1>3, MaxIdsAssumption DEF ClaimBusy, Mint
  <2>0. c \in Attachments
    BY <1>0, <2>1
  <2>2. c \in Attachments /\ InOrder(c, minted')
    BY <1>0, <2>0, <2>1 DEF InOrder
  <2>3. client' = [client EXCEPT ![p] = c]
    BY <1>3, <1>c DEF ClaimBusy
  <2>. QED  BY <1>3, <2>1, <2>2, <2>3 DEF ClaimBusy, Changes
<1>4. CASE ReadRecord(p)
  <2>1. client[p].session \in Sessions
    BY <1>0, <1>4 DEF ReadRecord, InOrder
  <2>2. CASE Fresh(client[p].session) /\ UNCHANGED minted
    <3>. DEFINE c == [client[p] EXCEPT !.at = "write", !.id = record[client[p].session].id]
    <3>1. record[client[p].session].id \in 1..minted /\ record[client[p].session].id \in 0..MaxIds
      BY <1>0, <2>1, <2>2 DEF Fresh, Present, ClientTyped
    <3>0. c \in Attachments
      BY <1>0, <3>1
    <3>2. c \in Attachments /\ InOrder(c, minted)
      BY <1>0, <1>4, <3>0, <3>1 DEF InOrder, ReadRecord
    <3>3. client' = [client EXCEPT ![p] = c]
      BY <1>4, <2>2, <1>c DEF ReadRecord
    <3>. QED  BY <1>0, <1>4, <2>2, <3>2, <3>3 DEF ReadRecord, Changes
  <2>3. CASE ~Fresh(client[p].session) /\ Mint
    <3>. DEFINE c == [client[p] EXCEPT !.at = "write", !.id = minted + 1]
    <3>1. minted' = minted + 1 /\ minted' \in 0..MaxIds
      BY <1>0, <2>3, MaxIdsAssumption DEF Mint
    <3>0. c \in Attachments
      BY <1>0, <3>1
    <3>2. c \in Attachments /\ InOrder(c, minted')
      BY <1>0, <1>4, <3>0, <3>1 DEF InOrder, ReadRecord
    <3>3. client' = [client EXCEPT ![p] = c]
      BY <1>4, <2>3, <1>c DEF ReadRecord
    <3>. QED  BY <1>4, <3>1, <3>2, <3>3 DEF ReadRecord, Changes
  <2>. QED  BY <1>4, <2>2, <2>3 DEF ReadRecord
<1>5. CASE ClaimFails(p)
  <2>. DEFINE c == [Detached EXCEPT !.at = "fresh", !.id = minted + 1]
  <2>1. minted' = minted + 1 /\ minted' \in 0..MaxIds
    BY <1>0, <1>5, MaxIdsAssumption DEF ClaimFails, Mint
  <2>0. c \in Attachments
    BY <1>d, <2>1
  <2>2. c \in Attachments /\ InOrder(c, minted')
    BY <1>0, <2>0, <2>1 DEF InOrder, Detached
  <2>. QED  BY <1>5, <2>1, <2>2 DEF ClaimFails, Changes
<1>6. CASE SweepBusy(p) \/ SweepRelease(p)
  <2>. DEFINE c == [client[p] EXCEPT !.at = "sweep", !.target = NoOne]
  <2>1. c \in Attachments /\ InOrder(c, minted)
    BY <1>0, <1>6 DEF InOrder, SweepBusy, SweepRelease
  <2>2. client' = [client EXCEPT ![p] = c]
    BY <1>6, <1>c DEF SweepBusy, SweepRelease
  <2>. QED  BY <1>0, <1>6, <2>1, <2>2, ZenonT(30) DEF SweepBusy, SweepRelease, Changes
<1>7. CASE Attached(p)
  <2>. DEFINE c == [client[p] EXCEPT !.at = "attached"]
  <2>1. c \in Attachments /\ InOrder(c, minted)
    BY <1>0, <1>7 DEF InOrder, Attached
  <2>2. client' = [client EXCEPT ![p] = c]
    BY <1>7, <1>c DEF Attached
  <2>. QED  BY <1>0, <1>7, <2>1, <2>2 DEF Attached, Changes
<1>8. CASE DetachFresh(p) \/ Crash(p)
  BY <1>0, <1>8, <1>d DEF DetachFresh, Crash, Changes
<1>. QED
  BY <1>3, <1>4, <1>5, <1>6, <1>7, <1>8

\* A record that is removed leaves the others as they are.
LEMMA Erased ==
    ASSUME record \in [Sessions -> Records], NEW s, NEW m \in Nat,
           \A t \in Sessions : record[t].id \in 0..m
    PROVE  LET rec == [record EXCEPT ![s] = None]
           IN rec \in [Sessions -> Records] /\ \A t \in Sessions : rec[t].id \in 0..m
<1>n. None \in Records /\ None.id = 0 /\ 0 \in 0..m
  BY MaxIdsAssumption DEF None, Records
<1>. DEFINE rec == [record EXCEPT ![s] = None]
<1>1. \A t \in Sessions : rec[t] = (IF t = s THEN None ELSE record[t])
  OBVIOUS
<1>2. rec \in [Sessions -> Records]
  BY <1>n
<1>. QED
  BY <1>1, <1>2, <1>n

\* Steps of one attachment that write or remove a record.
LEMMA RecordSteps ==
    ASSUME ClientTyped, NEW p \in Procs, WriteRecord(p) \/ SweepRemove(p) \/ Detach(p)
    PROVE  /\ \E c : Changes(p, c)
           /\ UNCHANGED gone
           /\ record' \in [Sessions -> Records]
           /\ \A s \in Sessions : record'[s].id \in 0..minted'
<1>0. /\ minted \in Nat /\ minted \in 0..MaxIds /\ InOrder(client[p], minted)
      /\ client \in [Procs -> Attachments] /\ client[p] \in Attachments
      /\ record \in [Sessions -> Records] /\ \A s \in Sessions : record[s].id \in 0..minted
  BY MaxIdsAssumption DEF ClientTyped
<1>d. Detached \in Attachments /\ InOrder(Detached, minted)
  BY MaxIdsAssumption DEF Detached, Attachments, ClaimPlaces, InOrder
<1>1. CASE WriteRecord(p)
  <2>. DEFINE c == [client[p] EXCEPT !.at = "sweep",
                      !.sweep = {s \in Sessions \ {client[p].session} : Present(s)}]
              r == [id |-> client[p].id, idle |-> FALSE]
  <2>1. c \in Attachments
    BY <1>0 DEF Attachments, ClaimPlaces
  <2>2. InOrder(c, minted)
    BY <1>0, <1>1 DEF InOrder, WriteRecord, Attachments
  <2>3. client' = [client EXCEPT ![p] = c]
    BY <1>0, <1>1 DEF WriteRecord
  <2>0. /\ client[p].id \in 1..minted /\ client[p].id \in 0..MaxIds
        /\ client[p].session \in Sessions
    BY <1>0, <1>1 DEF Attachments, InOrder, WriteRecord
  <2>4. r \in Records /\ r.id \in 0..minted
    BY <1>0, <2>0 DEF Records
  <2>5. record' = [record EXCEPT ![client[p].session] = r] /\ minted' = minted /\ gone' = gone
    BY <1>1 DEF WriteRecord
  <2>6. record' \in [Sessions -> Records] /\ \A s \in Sessions : record'[s].id \in 0..minted
    <3>. HIDE DEF r
    <3>. QED  BY <1>0, <2>0, <2>4, <2>5
  <2>. QED  BY <1>0, <2>1, <2>2, <2>3, <2>5, <2>6 DEF Changes
<1>2. CASE SweepRemove(p)
  <2>. DEFINE c == [client[p] EXCEPT !.at = "unlink"]
  <2>1. c \in Attachments
    BY <1>0 DEF Attachments, ClaimPlaces
  <2>2. InOrder(c, minted)
    BY <1>0, <1>2 DEF InOrder, SweepRemove, Attachments
  <2>3. client' = [client EXCEPT ![p] = c]
    BY <1>0, <1>2 DEF SweepRemove
  <2>5. record' = [record EXCEPT ![client[p].target] = None] /\ minted' = minted /\ gone' = gone
    BY <1>2 DEF SweepRemove
  <2>6. record' \in [Sessions -> Records] /\ \A s \in Sessions : record'[s].id \in 0..minted
    BY <1>0, <2>5, Erased
  <2>. QED  BY <1>0, <2>1, <2>2, <2>3, <2>5, <2>6 DEF Changes
<1>3. CASE Detach(p)
  <2>1. client' = [client EXCEPT ![p] = Detached] /\ minted' = minted /\ gone' = gone
    BY <1>3 DEF Detach
  <2>2. record' \in [Sessions -> Records] /\ \A s \in Sessions : record'[s].id \in 0..minted
    <3>1. CASE record' = record
      BY <1>0, <3>1
    <3>2. CASE record' = [record EXCEPT ![client[p].session] = None]
      BY <1>0, <3>2, Erased
    <3>. QED  BY <1>3, <3>1, <3>2 DEF Detach
  <2>. QED  BY <1>0, <1>d, <2>1, <2>2 DEF Changes
<1>. QED
  BY <1>1, <1>2, <1>3

\* Every step keeps the records and attachments typed and in order.
LEMMA ClientTypedStep == ClientTyped /\ [Next]_vars => ClientTyped'
<1>. SUFFICES ASSUME ClientTyped, [Next]_vars PROVE ClientTyped'
  OBVIOUS
<1>0. /\ minted \in Nat /\ minted \in 0..MaxIds
      /\ record \in [Sessions -> Records] /\ \A s \in Sessions : record[s].id \in 0..minted
      /\ gone \in SUBSET Sessions
  BY MaxIdsAssumption DEF ClientTyped
<1>1. CASE UNCHANGED vars
  BY <1>1 DEF vars, ClientTyped
<1>2. ASSUME NEW p \in Procs, NEW c, Changes(p, c), UNCHANGED <<record, gone>>
      PROVE  ClientTyped'
  <2>1. record' = record /\ gone' = gone /\ (minted' = minted \/ minted' = minted + 1)
    BY <1>2 DEF Changes
  <2>2. \A s \in Sessions : record'[s].id \in 0..minted'
    BY <1>0, <2>1
  <2>. QED  BY <1>0, <1>2, <2>1, <2>2, OneClient
<1>3. ASSUME NEW p \in Procs, WriteRecord(p) \/ SweepRemove(p) \/ Detach(p)
      PROVE  ClientTyped'
  <2>1. PICK c : Changes(p, c)
    BY <1>3, RecordSteps
  <2>. QED  BY <1>0, <1>3, <2>1, RecordSteps, OneClient
<1>4. ASSUME NEW p \in Procs, LockGoesOn(p)
      PROVE  ClientTyped'
  BY <1>4 DEF LockGoesOn, ClientTyped
<1>5. ASSUME NEW s \in Sessions, Forget(s) \/ GrowsIdle(s) \/ SessionGone(s)
      PROVE  ClientTyped'
  <2>1. client' = client /\ minted' = minted /\ gone' \in SUBSET Sessions
    BY <1>0, <1>5 DEF Forget, GrowsIdle, SessionGone
  <2>. DEFINE r == [record[s] EXCEPT !.idle = TRUE]
  <2>2. None \in Records /\ None.id = 0
    BY MaxIdsAssumption DEF None, Records
  <2>3. r \in Records /\ r.id = record[s].id
    BY <1>0 DEF Records
  <2>4. record' = record \/ record' = [record EXCEPT ![s] = None] \/ record' = [record EXCEPT ![s] = r]
    BY <1>0, <1>5 DEF Forget, GrowsIdle, SessionGone
  <2>5. record' \in [Sessions -> Records] /\ \A t \in Sessions : record'[t].id \in 0..minted
    <3>. HIDE DEF r
    <3>. QED  BY <1>0, <2>2, <2>3, <2>4
  <2>. QED  BY <1>0, <2>1, <2>5 DEF ClientTyped
<1>6. ASSUME NEW p \in Procs, ClaimBusy(p) \/ ReadRecord(p) \/ ClaimFails(p) \/ SweepBusy(p)
                \/ SweepRelease(p) \/ Attached(p) \/ DetachFresh(p) \/ Crash(p)
      PROVE  ClientTyped'
  <2>1. \E c : Changes(p, c) /\ UNCHANGED <<record, gone>>
    BY <1>6, AttachmentSteps
  <2>. QED  BY <1>2, <2>1
<1>7. ASSUME NEW p \in Procs, NEW s \in Sessions, Claim(p, s) \/ SweepRead(p, s)
      PROVE  ClientTyped'
  <2>1. \E c : Changes(p, c) /\ UNCHANGED <<record, gone>>
    BY <1>7, ClaimSteps
  <2>. QED  BY <1>2, <2>1
<1>. QED
  BY <1>1, <1>3, <1>4, <1>5, <1>6, <1>7 DEF Next

\* What a client does with the lock is what ProcessLock allows any caller.
LEMMA StepsLock ==
    ASSUME ClientTyped, [Next]_vars
    PROVE  [LockNext]_lockVars
<1>0. \A p \in Procs :
        /\ client[p].at \notin {"none", "fresh"} => client[p].session \in Keys
        /\ client[p].at \in {"trylock", "unlink"} => client[p].target \in Keys
  BY DEF ClientTyped, InOrder, Sessions
<1>1. CASE UNCHANGED vars
  BY <1>1 DEF vars, lockVars
<1>2. ASSUME NEW p \in Procs, NEW s \in Sessions, Claim(p, s) \/ SweepRead(p, s)
      PROVE  [LockNext]_lockVars
  BY <1>2 DEF Claim, SweepRead, LockNext, Sessions
<1>3. ASSUME NEW p \in Procs, ClaimBusy(p) \/ ClaimFails(p) \/ Detach(p)
      PROVE  [LockNext]_lockVars
  <2>1. client[p].session \in Keys /\ (Refused(p, client[p].session) \/ Release(p, client[p].session))
    BY <1>0, <1>3 DEF ClaimBusy, ClaimFails, Detach
  <2>. QED  BY <2>1 DEF LockNext
<1>4. ASSUME NEW p \in Procs, SweepBusy(p) \/ SweepRelease(p)
      PROVE  [LockNext]_lockVars
  <2>1. client[p].target \in Keys /\ (Refused(p, client[p].target) \/ Release(p, client[p].target))
    BY <1>0, <1>4 DEF SweepBusy, SweepRelease
  <2>. QED  BY <2>1 DEF LockNext
<1>5. ASSUME NEW p \in Procs, ReadRecord(p) \/ WriteRecord(p) \/ SweepRemove(p) \/ Attached(p)
                \/ DetachFresh(p)
      PROVE  [LockNext]_lockVars
  BY <1>5 DEF ReadRecord, WriteRecord, SweepRemove, Attached, DetachFresh
<1>6. ASSUME NEW p \in Procs, LockGoesOn(p) \/ Crash(p)
      PROVE  [LockNext]_lockVars
  BY <1>6 DEF LockGoesOn, Crash, LockNext, Sessions
<1>7. ASSUME NEW s \in Sessions, Forget(s) \/ GrowsIdle(s) \/ SessionGone(s)
      PROVE  [LockNext]_lockVars
  BY <1>7 DEF Forget, GrowsIdle, SessionGone
<1>. QED
  BY <1>1, <1>2, <1>3, <1>4, <1>5, <1>6, <1>7 DEF Next

\* Attachments and records are typed and in order in every behaviour.
LEMMA ClientsTyped == Spec => []ClientTyped
<1>1. Init => ClientTyped
  <2>1. Detached \in Attachments /\ InOrder(Detached, 0)
    BY MaxIdsAssumption DEF Detached, Attachments, ClaimPlaces, InOrder
  <2>2. None \in Records /\ None.id = 0
    BY MaxIdsAssumption DEF None, Records
  <2>. QED  BY <2>1, <2>2, MaxIdsAssumption DEF Init, ClientTyped
<1>. QED
  BY <1>1, ClientTypedStep, PTL DEF Spec

\* A terminal client is a caller of the lock of process-lock.ts: nothing that the
\* claim, the sweep, a detach or a crash does goes round it.
THEOREM ClientsUseTheLock == Spec => LockSpec
<1>1. Init => LockInit
  BY DEF Init
<1>. QED
  BY <1>1, ClientsTyped, StepsLock, PTL DEF Spec, LockSpec

-----------------------------------------------------------------------------
Recorded(c) == c.at \in {"sweep", "trylock", "unlink", "attached"}
Locked(c) == c.at = "write" \/ Recorded(c)

\* The id of attachment c is its own: no other session's record has it, and, while
\* the session lives, its own session's record has no other once it is written.
Own(c, rec, ended) ==
    /\ Locked(c) => \A t \in Sessions \ {c.session} : rec[t].id # c.id
    /\ c.at = "fresh" => \A t \in Sessions : rec[t].id # c.id
    /\ Recorded(c) /\ c.session \notin ended => rec[c.session].id = c.id
    /\ c.at = "write" /\ rec[c.session].id # 0 /\ ~rec[c.session].idle
         => rec[c.session].id = c.id

Distinct(rec) ==
    \A s, t \in Sessions : rec[s].id # 0 /\ rec[s].id = rec[t].id => s = t

\* An attachment under a recorded id holds the lock of its session; records and
\* attachments have ids of their own.
ClientInv ==
    /\ \A p \in Procs : Locked(client[p]) => Holds(p, client[p].session)
    /\ \A p \in Procs : Own(client[p], record, gone)
    /\ Distinct(record)
    /\ OneClientPerId

Using(c) == Locked(c) \/ c.at = "fresh"

\* p holds the lock of s after the step.
HoldsThen(p, s) == lock'[p][s].at = "held"

\* A step of one attachment keeps the invariant if its own part holds afterwards,
\* the others' hold of the new records, and its id is nobody else's.
LEMMA KeepsInv ==
    ASSUME ClientTyped, ClientInv, NEW p \in Procs, NEW c,
           client' = [client EXCEPT ![p] = c],
           Own(c, record', gone'), Distinct(record'),
           \A q \in Procs : q # p => Own(client[q], record', gone'),
           Locked(c) => HoldsThen(p, c.session),
           \A q \in Procs, s \in Sessions : q # p /\ Holds(q, s) => HoldsThen(q, s),
           Using(c) => \A q \in Procs : q # p /\ Using(client[q]) => client[q].id # c.id
    PROVE  ClientInv'
<1>1. client' \in [Procs -> {client'[q] : q \in Procs}] /\ client'[p] = c
      /\ \A q \in Procs : q # p => client'[q] = client[q]
  BY DEF ClientTyped
<1>2. \A q \in Procs : Locked(client[q]) => client[q].session \in Sessions
  BY DEF ClientTyped, InOrder, Locked, Recorded
<1>3. ASSUME NEW q \in Procs, Locked(client'[q]) PROVE HoldsThen(q, client'[q].session)
  <2>1. CASE q = p
    BY <1>1, <1>3, <2>1
  <2>2. CASE q # p
    <3>1. client'[q] = client[q] /\ Locked(client[q]) /\ client[q].session \in Sessions
      BY <1>1, <1>2, <1>3, <2>2
    <3>2. Holds(q, client[q].session)
      BY <3>1 DEF ClientInv
    <3>. QED  BY <2>2, <3>1, <3>2
  <2>. QED  BY <2>1, <2>2
<1>4. ASSUME NEW q \in Procs PROVE Own(client'[q], record', gone')
  BY <1>1
<1>5. OneClientPerId'
  <2>1. \A q \in Procs : Attaching(q) <=> Using(client[q])
    BY DEF Attaching, Using, Locked, Recorded
  <2>2. \A q \in Procs : Attaching(q)' <=> Using(client'[q])
    BY DEF Attaching, Using, Locked, Recorded
  <2>. QED  BY <1>1, <2>1, <2>2 DEF ClientInv, OneClientPerId
<1>. QED
  <2>1. \A q \in Procs : Locked(client'[q]) => lock'[q][client'[q].session].at = "held"
    BY <1>3 DEF HoldsThen
  <2>. QED  BY <1>4, <1>5, <2>1 DEF ClientInv, Holds, At

\* Where the records stay, what an attachment has of its own stays.
LEMMA OwnKept ==
    ASSUME ClientInv, record' = record, gone \subseteq gone'
    PROVE  Distinct(record') /\ \A q \in Procs : Own(client[q], record', gone')
  BY DEF ClientInv, Own

\* An id in use was minted, so it is not that of a missing record.
LEMMA IdsMinted ==
    ASSUME ClientTyped
    PROVE  /\ \A q \in Procs : Using(client[q]) => client[q].id \in 1..minted
           /\ \A q \in Procs : Locked(client[q]) => client[q].session \in Sessions
           /\ \A s \in Sessions : record[s].id \in 0..minted
           /\ minted \in Nat
  BY MaxIdsAssumption DEF ClientTyped, InOrder, Using, Locked, Recorded

\* The removal of a record touches only an attachment that goes on with it.
LEMMA OwnErased ==
    ASSUME ClientTyped, ClientInv, NEW s \in Sessions,
           record' = [record EXCEPT ![s] = None], gone' = gone
    PROVE  /\ Distinct(record')
           /\ \A q \in Procs :
                (Recorded(client[q]) /\ client[q].session = s => s \in gone)
                    => Own(client[q], record', gone')
<1>1. \A t \in Sessions : record'[t] = (IF t = s THEN None ELSE record[t])
  BY DEF ClientTyped
<1>2. None.id = 0
  BY DEF None
<1>3. Distinct(record')
  BY <1>1, <1>2 DEF ClientInv, Distinct
<1>4. ASSUME NEW q \in Procs, Recorded(client[q]) /\ client[q].session = s => s \in gone
      PROVE  Own(client[q], record', gone')
  <2>1. Own(client[q], record, gone)
    BY DEF ClientInv
  <2>2. Using(client[q]) => client[q].id # 0
    BY IdsMinted
  <2>3. Locked(client[q]) => client[q].session \in Sessions
    BY IdsMinted
  <2>. QED  BY <1>1, <1>2, <1>4, <2>1, <2>2, <2>3 DEF Own, Using, Locked, Recorded
<1>. QED
  BY <1>3, <1>4

\* The steps that touch neither records nor ids: the claim's start, the sweep and
\* the waiting inside the lock.
LEMMA QuietSteps ==
    ASSUME LockTypeOK, ClientTyped, ClientInv, NEW p \in Procs, NEW k \in Sessions,
           TryAcquire(p, k) \/ LockStep(p, k) \/ Refused(p, k) \/ Release(p, k)
               \/ UNCHANGED lockVars,
           NEW c, client' = [client EXCEPT ![p] = c],
           UNCHANGED <<record, gone>>,
           \/ c.at \in {"none", "claim"}
           \/ /\ c.id = client[p].id /\ c.session = client[p].session
              /\ Recorded(c) /\ Recorded(client[p]) /\ (k # c.session \/ UNCHANGED lockVars)
    PROVE  ClientInv'
<1>1. \A q \in Procs, s \in Sessions : Holds(q, s) /\ ~(q = p /\ s = k) => HoldsThen(q, s)
  <2>1. CASE UNCHANGED lockVars
    BY <2>1 DEF lockVars, Holds, At, HoldsThen
  <2>2. CASE ~UNCHANGED lockVars
    BY <2>2, HoldStays DEF Sessions, Holds, At, HoldsThen
  <2>. QED  BY <2>1, <2>2
<1>2. UNCHANGED lockVars => \A q \in Procs, s \in Sessions : Holds(q, s) => HoldsThen(q, s)
  BY DEF lockVars, Holds, At, HoldsThen
<1>3. Distinct(record') /\ \A q \in Procs : Own(client[q], record', gone')
  BY OwnKept
<1>4. CASE c.at \in {"none", "claim"}
  <2>1. ~Locked(c) /\ ~Using(c) /\ Own(c, record', gone')
    BY <1>4 DEF Own, Using, Locked, Recorded
  <2>. QED  BY <1>1, <1>3, <2>1, KeepsInv
<1>5. CASE /\ c.id = client[p].id /\ c.session = client[p].session
           /\ Recorded(c) /\ Recorded(client[p]) /\ (k # c.session \/ UNCHANGED lockVars)
  <2>1. Own(c, record', gone')
    <3>1. Own(client[p], record', gone')
      BY <1>3
    <3>. QED  BY <1>5, <3>1 DEF Own, Locked, Recorded
  <2>2. Holds(p, c.session) /\ c.session \in Sessions
    BY <1>5, IdsMinted DEF ClientInv, Locked
  <2>3. HoldsThen(p, c.session)
    BY <1>1, <1>2, <1>5, <2>2
  <2>4. \A q \in Procs : q # p /\ Using(client[q]) => client[q].id # c.id
    BY <1>5 DEF ClientInv, OneClientPerId, Attaching, Using, Locked, Recorded
  <2>. QED  BY <1>1, <1>3, <2>1, <2>3, <2>4, KeepsInv
<1>. QED
  BY <1>4, <1>5

\* A process's own lock step leaves the others' locks.
LEMMA OthersHold ==
    ASSUME LockTypeOK, NEW p \in Procs,
           \/ \E k \in Keys : TryAcquire(p, k) \/ LockStep(p, k) \/ Refused(p, k) \/ Release(p, k)
           \/ LockCrash(p)
           \/ UNCHANGED lockVars
    PROVE  \A q \in Procs, s \in Sessions : q # p /\ Holds(q, s) => HoldsThen(q, s)
<1>1. CASE UNCHANGED lockVars
  BY <1>1 DEF lockVars, Holds, At, HoldsThen
<1>2. CASE LockCrash(p)
  BY <1>2, CrashOthers DEF Sessions, Holds, At, HoldsThen
<1>3. CASE \E k \in Keys : TryAcquire(p, k) \/ LockStep(p, k) \/ Refused(p, k) \/ Release(p, k)
  BY <1>3, HoldStays DEF Sessions, Holds, At, HoldsThen
<1>. QED
  BY <1>1, <1>2, <1>3

\* The steps that give an attachment an id nobody has: it is minted, or, with the
\* lock of the session held, it is the record's.
LEMMA IdentifySteps ==
    ASSUME LockTypeOK, MutualExclusion, ClientTyped, ClientInv, NEW p \in Procs,
           ClaimBusy(p) \/ ReadRecord(p) \/ ClaimFails(p)
    PROVE  ClientInv'
<1>0. /\ minted \in Nat /\ client \in [Procs -> Attachments]
      /\ client[p].at = "claim" => client[p].session \in Sessions
      /\ \A q \in Procs : Using(client[q]) => client[q].id \in 1..minted
      /\ \A s \in Sessions : record[s].id \in 0..minted
  BY IdsMinted DEF ClientTyped, InOrder
<1>r. record' = record /\ gone' = gone
  BY DEF ClaimBusy, ReadRecord, ClaimFails
<1>k. Distinct(record') /\ \A q \in Procs : Own(client[q], record', gone')
  BY <1>r, OwnKept
<1>m. /\ \A q \in Procs : Using(client[q]) => client[q].id # minted + 1
      /\ \A s \in Sessions : record[s].id # minted + 1
  BY <1>0
<1>1. CASE ClaimBusy(p)
  <2>. DEFINE c == [client[p] EXCEPT !.at = "fresh", !.id = minted + 1]
  <2>1. client' = [client EXCEPT ![p] = c] /\ c.at = "fresh" /\ c.id = minted + 1
    BY <1>0, <1>1 DEF ClaimBusy, Attachments
  <2>2. Own(c, record', gone') /\ ~Locked(c)
    BY <1>r, <1>m, <2>1 DEF Own, Locked, Recorded
  <2>3. \A q \in Procs, s \in Sessions : q # p /\ Holds(q, s) => HoldsThen(q, s)
    BY <1>0, <1>1, OthersHold DEF ClaimBusy, Sessions
  <2>. HIDE DEF c
  <2>. QED  BY <1>k, <1>m, <2>1, <2>2, <2>3, KeepsInv
<1>2. CASE ClaimFails(p)
  <2>. DEFINE c == [Detached EXCEPT !.at = "fresh", !.id = minted + 1]
  <2>1. client' = [client EXCEPT ![p] = c] /\ c.at = "fresh" /\ c.id = minted + 1
    BY <1>2 DEF ClaimFails, Detached
  <2>2. Own(c, record', gone') /\ ~Locked(c)
    BY <1>r, <1>m, <2>1 DEF Own, Locked, Recorded
  <2>3. client[p].session \in Keys /\ Release(p, client[p].session)
    BY <1>2 DEF ClaimFails, ClientTyped, InOrder, Sessions
  <2>4. \A q \in Procs, s \in Sessions : q # p /\ Holds(q, s) => HoldsThen(q, s)
    BY <2>3, OthersHold
  <2>. HIDE DEF c
  <2>. QED  BY <1>k, <1>m, <2>1, <2>2, <2>4, KeepsInv
<1>3. CASE ReadRecord(p)
  <2>. DEFINE s == client[p].session
  <2>0. s \in Sessions /\ Holds(p, s) /\ UNCHANGED lockVars
    BY <1>0, <1>3 DEF ReadRecord
  <2>h. (\A q \in Procs, t \in Sessions : q # p /\ Holds(q, t) => HoldsThen(q, t)) /\ HoldsThen(p, s)
    BY <2>0 DEF lockVars, Holds, At, HoldsThen
  <2>1. CASE ~Fresh(s)
    <3>. DEFINE c == [client[p] EXCEPT !.at = "write", !.id = minted + 1]
    <3>1. /\ client' = [client EXCEPT ![p] = c]
          /\ c.at = "write" /\ c.id = minted + 1 /\ c.session = s
      BY <1>0, <1>3, <2>1, ZenonT(30) DEF ReadRecord, Attachments
    <3>2. Own(c, record', gone')
      BY <1>r, <1>m, <2>1, <3>1 DEF Own, Locked, Recorded, Fresh, Present
    <3>. HIDE DEF c, s
    <3>. QED  BY <1>k, <1>m, <2>h, <3>1, <3>2, KeepsInv
  <2>2. CASE Fresh(s)
    <3>. DEFINE c == [client[p] EXCEPT !.at = "write", !.id = record[s].id]
    <3>1. /\ client' = [client EXCEPT ![p] = c]
          /\ c.at = "write" /\ c.id = record[s].id /\ c.session = s
      <4>1. client' = [client EXCEPT ![p].at = "write", ![p].id = record[s].id]
        BY <1>3, <2>2 DEF ReadRecord
      <4>2. client[p] \in Attachments
        BY <1>0
      <4>. HIDE DEF s
      <4>3. client' = [client EXCEPT ![p] = c]
        BY <1>0, <4>1
      <4>. QED  BY <4>2, <4>3 DEF Attachments, s
    <3>2. Own(c, record', gone')
      BY <1>r, <2>0, <2>2, <3>1 DEF Own, Locked, Recorded, Fresh, Present, ClientInv, Distinct
    <3>3. \A q \in Procs : q # p /\ Using(client[q]) => client[q].id # c.id
      <4>. SUFFICES ASSUME NEW q \in Procs, q # p, Using(client[q]), client[q].id = record[s].id
                    PROVE  FALSE
        BY <3>1
      <4>1. Own(client[q], record, gone)
        BY DEF ClientInv
      <4>2. Locked(client[q]) /\ client[q].session = s
        BY <2>0, <4>1 DEF Using, Own
      <4>3. Holds(q, s)
        BY <4>2 DEF ClientInv
      <4>. QED  BY <2>0, <4>3 DEF MutualExclusion, Sessions
    <3>. HIDE DEF c, s
    <3>. QED  BY <1>k, <2>h, <3>1, <3>2, <3>3, KeepsInv
  <2>. QED  BY <2>1, <2>2
<1>. QED
  BY <1>1, <1>2, <1>3

\* The record of a session whose lock is held gets the attachment's own id.
LEMMA WriteStep ==
    ASSUME LockTypeOK, MutualExclusion, ClientTyped, ClientInv, NEW p \in Procs, WriteRecord(p)
    PROVE  ClientInv'
<1>. DEFINE s == client[p].session
            c == [client[p] EXCEPT !.at = "sweep", !.sweep = {t \in Sessions \ {s} : Present(t)}]
<1>0. client \in [Procs -> Attachments] /\ client[p].at = "write" /\ s \in Sessions /\ Holds(p, s)
  BY DEF ClientTyped, InOrder, WriteRecord, ClientInv, Locked
<1>1. client' = [client EXCEPT ![p] = c] /\ c.at = "sweep" /\ c.id = client[p].id /\ c.session = s
  BY <1>0 DEF WriteRecord, Attachments
<1>2. \A t \in Sessions : record'[t] = (IF t = s THEN [id |-> client[p].id, idle |-> FALSE] ELSE record[t])
  BY <1>0 DEF WriteRecord, ClientTyped
<1>3. \A q \in Procs, t \in Sessions : Holds(q, t) <=> HoldsThen(q, t)
  BY DEF WriteRecord, lockVars, Holds, At, HoldsThen
<1>4. \A q \in Procs : q # p /\ Using(client[q]) => client[q].id # client[p].id
  BY <1>0 DEF ClientInv, OneClientPerId, Attaching, Using, Locked, Recorded
<1>5. \A t \in Sessions : t # s => record[t].id # client[p].id
  BY <1>0 DEF ClientInv, Own, Locked
<1>6. Distinct(record')
  BY <1>2, <1>5 DEF ClientInv, Distinct
<1>7. Own(c, record', gone')
  <2>. HIDE DEF c, s
  <2>. QED  BY <1>0, <1>1, <1>2, <1>5 DEF Own, Locked, Recorded
<1>8. ASSUME NEW q \in Procs, q # p PROVE Own(client[q], record', gone')
  <2>1. Own(client[q], record, gone) /\ gone' = gone
    BY DEF ClientInv, WriteRecord
  <2>2. Locked(client[q]) => client[q].session # s /\ client[q].session \in Sessions
    BY <1>0, <1>8, IdsMinted DEF ClientInv, MutualExclusion, Sessions
  <2>. HIDE DEF c, s
  <2>. QED  BY <1>2, <1>4, <1>8, <2>1, <2>2 DEF Own, Using, Locked, Recorded
<1>. HIDE DEF c, s
<1>. QED
  BY <1>0, <1>1, <1>3, <1>4, <1>6, <1>7, <1>8, KeepsInv

\* The sweep removes a record only under its lock, which no attachment has then.
LEMMA SweepRemoveStep ==
    ASSUME LockTypeOK, MutualExclusion, ClientTyped, ClientInv, NEW p \in Procs, SweepRemove(p)
    PROVE  ClientInv'
<1>. DEFINE s == client[p].target
            c == [client[p] EXCEPT !.at = "unlink"]
<1>0. /\ client \in [Procs -> Attachments] /\ client[p].at = "trylock"
      /\ s \in Sessions /\ s # client[p].session /\ Holds(p, s)
  BY DEF ClientTyped, InOrder, SweepRemove
<1>1. /\ client' = [client EXCEPT ![p] = c]
      /\ c.at = "unlink" /\ c.id = client[p].id /\ c.session = client[p].session
  BY <1>0 DEF SweepRemove, Attachments
<1>2. ASSUME NEW q \in Procs, Recorded(client[q]), client[q].session = s PROVE FALSE
  BY <1>0, <1>2 DEF ClientInv, Locked, MutualExclusion, Sessions
<1>3. record' = [record EXCEPT ![s] = None] /\ gone' = gone
  BY DEF SweepRemove
<1>. HIDE DEF c, s
<1>4. Distinct(record') /\ \A q \in Procs : Own(client[q], record', gone')
  BY <1>0, <1>2, <1>3, OwnErased
<1>5. Own(c, record', gone')
  BY <1>0, <1>1, <1>4 DEF Own, Locked, Recorded
<1>6. \A q \in Procs, t \in Sessions : Holds(q, t) <=> HoldsThen(q, t)
  BY DEF SweepRemove, lockVars, Holds, At, HoldsThen
<1>7. HoldsThen(p, c.session)
  <2>1. Locked(client[p])
    BY <1>0 DEF Locked, Recorded
  <2>2. c.session \in Sessions /\ Holds(p, c.session)
    BY <1>1, <2>1, IdsMinted DEF ClientInv
  <2>. QED  BY <1>6, <2>2
<1>8. \A q \in Procs : q # p /\ Using(client[q]) => client[q].id # c.id
  BY <1>0, <1>1 DEF ClientInv, OneClientPerId, Attaching, Using, Locked, Recorded
<1>. QED
  BY <1>1, <1>4, <1>5, <1>6, <1>7, <1>8, KeepsInv

\* The end of an attachment, however it comes about.
LEMMA EndSteps ==
    ASSUME LockTypeOK, MutualExclusion, ClientTyped, ClientInv, NEW p \in Procs,
           Detach(p) \/ DetachFresh(p) \/ Crash(p)
    PROVE  ClientInv'
<1>1. client' = [client EXCEPT ![p] = Detached] /\ gone' = gone
  BY DEF Detach, DetachFresh, Crash
<1>2. ~Locked(Detached) /\ ~Using(Detached) /\ Own(Detached, record', gone')
  BY DEF Detached, Own, Using, Locked, Recorded
<1>3. \A q \in Procs, t \in Sessions : q # p /\ Holds(q, t) => HoldsThen(q, t)
  <2>1. CASE Detach(p)
    <3>1. client[p].session \in Keys /\ Release(p, client[p].session)
      BY <2>1 DEF Detach, ClientTyped, InOrder, Sessions
    <3>. QED  BY <3>1, OthersHold
  <2>2. CASE DetachFresh(p) \/ Crash(p)
    BY <2>2, OthersHold DEF DetachFresh, Crash
  <2>. QED  BY <2>1, <2>2
<1>4. Distinct(record') /\ \A q \in Procs : q # p => Own(client[q], record', gone')
  <2>1. CASE record' = record
    BY <1>1, <2>1, OwnKept
  <2>2. CASE record' # record
    <3>. DEFINE s == client[p].session
    <3>1. /\ record' = [record EXCEPT ![s] = None] /\ s \in gone /\ s \in Sessions
      BY <2>2 DEF Detach, DetachFresh, Crash, ClientTyped, InOrder
    <3>. HIDE DEF s
    <3>. QED  BY <1>1, <3>1, OwnErased
  <2>. QED  BY <2>1, <2>2
<1>. QED
  BY <1>1, <1>2, <1>3, <1>4, KeepsInv

\* What happens to a record or a session without any attachment's doing.
LEMMA WorldSteps ==
    ASSUME ClientTyped, ClientInv, NEW s \in Sessions,
           Forget(s) \/ GrowsIdle(s) \/ SessionGone(s)
    PROVE  ClientInv'
<1>1. client' = client /\ lock' = lock
  BY DEF Forget, GrowsIdle, SessionGone, lockVars
<1>2. Distinct(record') /\ \A q \in Procs : Own(client[q], record', gone')
  <2>1. CASE Forget(s)
    BY <2>1, OwnErased DEF Forget
  <2>2. CASE SessionGone(s)
    BY <2>2, OwnKept DEF SessionGone
  <2>3. CASE GrowsIdle(s)
    <3>1. \A t \in Sessions :
            /\ record'[t].id = record[t].id
            /\ ~record'[t].idle => ~record[t].idle
      BY <2>3 DEF GrowsIdle, ClientTyped, Records
    <3>2. gone' = gone /\ \A q \in Procs : Own(client[q], record, gone)
      BY <2>3 DEF GrowsIdle, ClientInv
    <3>3. Distinct(record')
      BY <3>1 DEF ClientInv, Distinct
    <3>4. ASSUME NEW q \in Procs PROVE Own(client[q], record', gone')
      <4>1. Locked(client[q]) => client[q].session \in Sessions
        BY IdsMinted
      <4>. QED  BY <3>1, <3>2, <4>1 DEF Own, Locked, Recorded
    <3>. QED  BY <3>3, <3>4
  <2>. QED  BY <2>1, <2>2, <2>3
<1>3. OneClientPerId'
  BY <1>1 DEF ClientInv, OneClientPerId, Attaching
<1>4. \A q \in Procs : Locked(client'[q]) => lock'[q][client'[q].session].at = "held"
  BY <1>1 DEF ClientInv, Holds, At
<1>. QED
  BY <1>1, <1>2, <1>3, <1>4 DEF ClientInv, Holds, At

\* Every step keeps the invariant, wherever the lock excludes.
LEMMA ClientInvStep ==
    ASSUME LockTypeOK, MutualExclusion, ClientTyped, ClientInv, [Next]_vars
    PROVE  ClientInv'
<1>0. /\ client \in [Procs -> Attachments]
      /\ \A p \in Procs :
            /\ client[p].at \in {"sweep", "trylock", "unlink"}
                  => client[p].session \in Sessions
            /\ client[p].sweep \subseteq Sessions \ {client[p].session}
            /\ client[p].at \in {"trylock", "unlink"}
                  => client[p].target \in Sessions \ {client[p].session}
  BY DEF ClientTyped, InOrder
<1>1. CASE UNCHANGED vars
  BY <1>1 DEF vars, ClientInv, OneClientPerId, Attaching, Holds, At, Own
<1>2. ASSUME NEW p \in Procs, NEW s \in Sessions, Claim(p, s) PROVE ClientInv'
  <2>. DEFINE c == [Detached EXCEPT !.at = "claim", !.session = s]
  <2>1. client' = [client EXCEPT ![p] = c] /\ c.at = "claim"
    BY <1>2 DEF Claim, Detached
  <2>2. TryAcquire(p, s) /\ UNCHANGED <<record, gone>>
    BY <1>2 DEF Claim
  <2>. HIDE DEF c
  <2>. QED  BY <2>1, <2>2, QuietSteps
<1>3. ASSUME NEW p \in Procs, NEW s \in Sessions, SweepRead(p, s) PROVE ClientInv'
  <2>. DEFINE c == client'[p]
  <2>1. /\ client' = [client EXCEPT ![p] = c]
        /\ c.id = client[p].id /\ c.session = client[p].session
        /\ Recorded(c) /\ Recorded(client[p]) /\ s # c.session
    BY <1>0, <1>3 DEF SweepRead, Recorded, Attachments
  <2>2. (TryAcquire(p, s) \/ UNCHANGED lockVars) /\ UNCHANGED <<record, gone>>
    BY <1>3 DEF SweepRead
  <2>. HIDE DEF c
  <2>. QED  BY <2>1, <2>2, QuietSteps
<1>4. ASSUME NEW p \in Procs, SweepBusy(p) \/ SweepRelease(p) PROVE ClientInv'
  <2>. DEFINE c == client'[p]
              s == client[p].target
  <2>1. /\ client' = [client EXCEPT ![p] = c]
        /\ c.id = client[p].id /\ c.session = client[p].session
        /\ Recorded(c) /\ Recorded(client[p]) /\ s # c.session /\ s \in Sessions
    BY <1>0, <1>4 DEF SweepBusy, SweepRelease, Recorded, Attachments
  <2>2. (Refused(p, s) \/ Release(p, s)) /\ UNCHANGED <<record, gone>>
    BY <1>4 DEF SweepBusy, SweepRelease
  <2>. HIDE DEF c, s
  <2>. QED  BY <2>1, <2>2, QuietSteps
<1>5. ASSUME NEW p \in Procs, Attached(p) PROVE ClientInv'
  <2>. DEFINE c == client'[p]
              s == client[p].session
  <2>1. /\ client' = [client EXCEPT ![p] = c]
        /\ c.id = client[p].id /\ c.session = client[p].session
        /\ Recorded(c) /\ Recorded(client[p]) /\ s \in Sessions
    BY <1>0, <1>5 DEF Attached, Recorded, Attachments
  <2>2. UNCHANGED lockVars /\ UNCHANGED <<record, gone>>
    BY <1>5 DEF Attached
  <2>. HIDE DEF c, s
  <2>. QED  BY <2>1, <2>2, QuietSteps
<1>6. ASSUME NEW p \in Procs, LockGoesOn(p) PROVE ClientInv'
  <2>1. PICK s \in Sessions : LockStep(p, s)
    BY <1>6 DEF LockGoesOn
  <2>2. UNCHANGED <<record, client, minted, gone>>
    BY <1>6 DEF LockGoesOn
  <2>3. \A q \in Procs, t \in Sessions : Holds(q, t) => HoldsThen(q, t)
    <3>1. ~Release(p, s) \/ ~Holds(p, s)
      BY <2>1 DEF LockStep, Release, Holds, Bind, Listening, AddressInUse, SocketIsActive,
                  StatStale, RemoveStale, Closed
    <3>2. ASSUME NEW q \in Procs, NEW t \in Sessions, Holds(q, t) PROVE Holds(q, t)'
      BY <2>1, <3>1, <3>2, HoldStays DEF Sessions
    <3>. QED  BY <3>2 DEF Holds, At, HoldsThen
  <2>4. \A q \in Procs : Own(client'[q], record', gone')
    BY <2>2 DEF ClientInv
  <2>5. Distinct(record') /\ OneClientPerId'
    BY <2>2 DEF ClientInv, OneClientPerId, Attaching
  <2>6. \A q \in Procs : Locked(client'[q]) => lock'[q][client'[q].session].at = "held"
    BY <2>2, <2>3, IdsMinted DEF ClientInv, HoldsThen
  <2>. QED  BY <2>4, <2>5, <2>6 DEF ClientInv, Holds, At
<1>. QED
  BY <1>1, <1>2, <1>3, <1>4, <1>5, <1>6, IdentifySteps, WriteStep, SweepRemoveStep, EndSteps,
     WorldSteps DEF Next

-----------------------------------------------------------------------------
\* The state of a client and of its lock is well typed, and the id of an attachment
\* was minted, on both platforms.
THEOREM ClientTypeCorrect == Spec => []TypeOK
<1>1. LockTypeOK /\ ClientTyped => TypeOK
  <2>. SUFFICES ASSUME LockTypeOK, ClientTyped PROVE TypeOK
    OBVIOUS
  <2>1. \A p \in Procs : Attaching(p) => client[p].id \in 1..minted
    BY DEF ClientTyped, InOrder, Attaching
  <2>. QED  BY <2>1 DEF ClientTyped, TypeOK, Attachments
<1>. QED
  BY <1>1, ClientsTyped, ClientsUseTheLock, LockTypeCorrect, PTL

\* Where the names are pipes the invariant holds throughout.
LEMMA ClientsApart ==
    ASSUME Platform = "win32"
    PROVE  Spec => []ClientInv
<1>1. Init => ClientInv
  <2>. SUFFICES ASSUME Init PROVE ClientInv
    OBVIOUS
  <2>1. \A p \in Procs : client[p] = Detached /\ ~Locked(client[p]) /\ ~Attaching(p)
                            /\ client[p].at = "none"
    BY DEF Init, Detached, Locked, Recorded, Attaching
  <2>2. \A s \in Sessions : record[s].id = 0
    BY DEF Init, None
  <2>3. \A p \in Procs : Own(client[p], record, gone)
    BY <2>1 DEF Own, Locked, Recorded
  <2>. QED  BY <2>1, <2>2, <2>3 DEF ClientInv, Distinct, OneClientPerId
<1>. QED
  BY <1>1, ClientInvStep, ClientsTyped, ClientsUseTheLock, LockTypeCorrect, PipesExclude, PTL DEF Spec

\* Over named pipes two processes are never the same client: whoever goes on with a
\* recorded id holds its session's lock (claimTerminalClientIdentity), and every
\* other id is new.
THEOREM NoTwoClients ==
    ASSUME Platform = "win32"
    PROVE  Spec => []OneClientPerId
<1>1. ClientInv => OneClientPerId
  BY DEF ClientInv
<1>. QED
  BY <1>1, ClientsApart, PTL

\* The record of a seat changes its id only once it has grown idle or was removed.
LEMMA IdsKept ==
    ASSUME ClientTyped, ClientInv, [Next]_vars, NEW s \in Sessions, Fresh(s), record'[s].id # 0
    PROVE  record'[s].id = record[s].id
<1>1. record \in [Sessions -> Records] /\ None.id = 0
  BY DEF ClientTyped, None
<1>2. ASSUME NEW p \in Procs, WriteRecord(p) PROVE record'[s].id = record[s].id
  <2>1. CASE s = client[p].session
    <3>1. client[p].at = "write" /\ Own(client[p], record, gone)
      BY <1>2 DEF WriteRecord, ClientInv
    <3>2. record[s].id = client[p].id
      BY <2>1, <3>1 DEF Own, Fresh, Present
    <3>3. record'[s] = [id |-> client[p].id, idle |-> FALSE]
      BY <1>1, <1>2, <2>1 DEF WriteRecord
    <3>. QED  BY <3>2, <3>3
  <2>2. CASE s # client[p].session
    BY <1>1, <1>2, <2>2 DEF WriteRecord
  <2>. QED  BY <2>1, <2>2
<1>3. ASSUME NEW p \in Procs, SweepRemove(p) \/ Detach(p) PROVE record'[s].id = record[s].id
  BY <1>1, <1>3 DEF SweepRemove, Detach
<1>4. ASSUME NEW t \in Sessions, Forget(t) \/ GrowsIdle(t) \/ SessionGone(t)
      PROVE  record'[s].id = record[s].id
  BY <1>1, <1>4 DEF Forget, GrowsIdle, SessionGone, Records
<1>5. CASE record' = record
  BY <1>5
<1>. QED
  BY <1>2, <1>3, <1>4, <1>5 DEF Next, vars, Claim, SweepRead, ClaimBusy, ReadRecord, ClaimFails,
     SweepBusy, SweepRelease, Attached, DetachFresh, LockGoesOn, Crash

\* Over named pipes no sweep or claim takes a living session's record from the
\* attachment that uses it, and a seat that was used recently is resumed under its
\* id.
THEOREM SeatsAreKept ==
    ASSUME Platform = "win32"
    PROVE  Spec => SeatsKept
<1>1. TypeOK /\ ClientInv => TypeOK /\ InUseKept
  BY DEF ClientInv, InUseKept, Own, Recorded
<1>2. ClientTyped /\ ClientInv /\ [Next]_vars
        => [\A s \in Sessions : Fresh(s) /\ record'[s].id # 0 => record'[s].id = record[s].id]_vars
  BY IdsKept
<1>. QED
  BY <1>1, <1>2, ClientTypeCorrect, ClientsTyped, ClientsApart, PTL DEF Spec, SeatsKept, SeatResumes

\* What a terminal client sees of the lock is the abstract exclusive lock.
THEOREM ClientsLockExclusively ==
    ASSUME Platform = "win32"
    PROVE  Spec => LockIsExclusive
BY ClientsUseTheLock, PipesImplementExclusiveLock, PTL

=============================================================================
