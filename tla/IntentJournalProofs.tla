------------------------ MODULE IntentJournalProofs ------------------------
(***************************************************************************)
(* Proofs about IntentJournal for any callers, owners, intents and bounds: *)
(* an old fence token never passes assertWriter, and what the journal has  *)
(* answered is in its file as long as calls do not overlap.                *)
(***************************************************************************)
EXTENDS IntentJournal, TLAPS

-----------------------------------------------------------------------------
(* The leases *)

Token == [owner : DmOwners, generation : Nat, life : Nat, turn : Nat]

\* The leases have their types.
LeaseTypes ==
    /\ dmTokens \in SUBSET Token
    /\ dmLife \in Nat /\ dmTurn \in Nat /\ dmLastGeneration \in Nat

\* Nobody was granted more than was counted; of the tokens of this life only
\* the last one has the last generation.
TokensAreOld ==
    \A t \in dmTokens :
        /\ t.turn <= dmTurn /\ t.life <= dmLife
        /\ t.life = dmLife => t.generation <= dmLastGeneration
        /\ t.life = dmLife /\ t.generation = dmLastGeneration => t.turn = dmTurn

\* A lease that was not released is the one granted last.
LeaseIsLast ==
    ~dmLease.released =>
        /\ dmLease.generation = dmLastGeneration
        /\ \A u \in dmTokens : u.turn = dmTurn => u.owner = dmLease.owner

LeaseInv == LeaseTypes /\ TokensAreOld /\ LeaseIsLast

\* A grant has the next turn and the next generation, so every token there was
\* is behind it (FencedLeaseStore.acquire).
LEMMA AcquireKeepsLeases ==
    ASSUME LeaseInv, NEW o \in DmOwners, AcquireLease(o)
    PROVE  LeaseInv'
<1>. DEFINE new == [owner |-> o, generation |-> NextGeneration, life |-> dmLife, turn |-> dmTurn + 1]
<1>1. /\ dmTokens' = dmTokens \cup {new} /\ dmTurn' = dmTurn + 1 /\ dmLife' = dmLife
      /\ dmLastGeneration' = NextGeneration
      /\ dmLease' = [owner |-> o, generation |-> NextGeneration, expiresAt |-> dmNow + DmTtl, released |-> FALSE]
  BY DEF AcquireLease
<1>2. NextGeneration = dmLastGeneration + 1 /\ NextGeneration \in Nat
  BY DEF NextGeneration, LeaseInv, LeaseTypes
<1>3. new \in Token /\ new.owner = o /\ new.generation = NextGeneration /\ new.life = dmLife /\ new.turn = dmTurn + 1
  BY <1>2 DEF Token, LeaseInv, LeaseTypes
<1>4. LeaseTypes'
  BY <1>1, <1>2, <1>3 DEF LeaseInv, LeaseTypes
<1>5. ASSUME NEW t \in dmTokens
      PROVE  /\ t.turn \in Nat /\ t.life \in Nat /\ t.generation \in Nat
             /\ t.turn <= dmTurn /\ t.life <= dmLife
             /\ t.life = dmLife => t.generation <= dmLastGeneration
  BY DEF LeaseInv, LeaseTypes, TokensAreOld, Token
<1>6. TokensAreOld'
  <2>. SUFFICES ASSUME NEW t \in dmTokens'
                PROVE  /\ t.turn <= dmTurn' /\ t.life <= dmLife'
                       /\ t.life = dmLife' => t.generation <= dmLastGeneration'
                       /\ t.life = dmLife' /\ t.generation = dmLastGeneration' => t.turn = dmTurn'
    BY DEF TokensAreOld
  <2>0. dmLife \in Nat /\ dmTurn \in Nat /\ dmLastGeneration \in Nat
    BY DEF LeaseInv, LeaseTypes
  <2>1. CASE t \in dmTokens
    BY <1>1, <1>2, <1>5, <2>0, <2>1
  <2>2. CASE t = new
    BY <1>1, <1>2, <1>3, <2>0, <2>2
  <2>. QED
    BY <1>1, <2>1, <2>2
<1>7. LeaseIsLast'
  <2>1. ASSUME NEW u \in dmTokens', u.turn = dmTurn' PROVE u.owner = o
    <3>0. dmTurn \in Nat
      BY DEF LeaseInv, LeaseTypes
    <3>1. u \notin dmTokens
      BY <1>1, <1>5, <2>1, <3>0
    <3>. QED
      BY <1>1, <1>3, <3>1
  <2>. QED
    BY <1>1, <2>1 DEF LeaseIsLast
<1>. QED
  BY <1>4, <1>6, <1>7 DEF LeaseInv

\* Every other step keeps the leases' invariant: a renewal and the clock leave
\* owner and generation alone, a release and a new life end the lease.
LEMMA StepKeepsLeases ==
    ASSUME LeaseInv, [DmNext]_dmVars
    PROVE  LeaseInv'
<1>. USE DEF LeaseInv
<1>1. CASE \E o \in DmOwners : AcquireLease(o)
  BY <1>1, AcquireKeepsLeases
<1>2. ASSUME NEW t \in dmTokens, RenewLease(t) PROVE LeaseInv'
  <2>1. /\ dmLease' = [dmLease EXCEPT !.expiresAt = dmNow + DmTtl]
        /\ UNCHANGED <<dmLastGeneration, dmTokens, dmTurn, dmLife>>
    BY <1>2 DEF RenewLease
  <2>2. /\ dmLease'.released = dmLease.released /\ dmLease'.generation = dmLease.generation
        /\ dmLease'.owner = dmLease.owner
    BY <2>1
  <2>. QED
    BY <2>1, <2>2 DEF LeaseTypes, TokensAreOld, LeaseIsLast
<1>3. ASSUME NEW t \in dmTokens, DmReleaseLease(t) PROVE LeaseInv'
  BY <1>3 DEF DmReleaseLease, LeaseTypes, TokensAreOld, LeaseIsLast
<1>4. CASE ClockTicks
  BY <1>4 DEF ClockTicks, LeaseTypes, TokensAreOld, LeaseIsLast
<1>5. CASE UNCHANGED dmLeases /\ UNCHANGED dmLife
  BY <1>5 DEF dmLeases, LeaseTypes, TokensAreOld, LeaseIsLast
<1>6. ASSUME NEW document, OpensOn(document) PROVE LeaseInv'
  <2>1. /\ dmLife' = dmLife + 1 /\ dmLease' = DmNoLease /\ dmLastGeneration' = 0
        /\ UNCHANGED <<dmTokens, dmTurn>>
    BY <1>6 DEF OpensOn
  <2>2. ASSUME NEW t \in dmTokens
        PROVE  t.life \in Nat /\ t.turn <= dmTurn /\ t.life <= dmLife
    BY DEF LeaseTypes, TokensAreOld, Token
  <2>3. LeaseTypes'
    BY <2>1 DEF LeaseTypes
  <2>4. TokensAreOld'
    BY <2>1, <2>2 DEF TokensAreOld, LeaseTypes
  <2>5. LeaseIsLast'
    BY <2>1 DEF LeaseIsLast, DmNoLease
  <2>. QED
    BY <2>3, <2>4, <2>5
<1>7. CASE \E c \in DmCallers, id \in DmIntents, payload \in {"p", "q"}, t \in dmTokens : RecordIntent(c, id, payload, t)
  BY <1>5, <1>7 DEF RecordIntent
<1>8. CASE \E c \in DmCallers, id \in DmIntents, to \in {"dispatched", "uncertain", "committed", "rejected"} : MarkIntent(c, id, to)
  BY <1>5, <1>8 DEF MarkIntent
<1>9. CASE \E c \in DmCallers : RenameDocument(c) \/ AdmitDocument(c) \/ SaveFails(c)
  BY <1>5, <1>9 DEF RenameDocument, AdmitDocument, Admits, SaveFails
<1>10. CASE RestartDaemon
  BY <1>6, <1>10 DEF RestartDaemon
<1>11. ASSUME NEW document, PowerLost(document) PROVE LeaseInv'
  BY <1>6, <1>11 DEF PowerLost
<1>12. CASE UNCHANGED dmVars
  BY <1>5, <1>12 DEF dmVars, dmLeases
<1>. QED
  BY <1>1, <1>2, <1>3, <1>4, <1>7, <1>8, <1>9, <1>10, <1>11, <1>12 DEF DmNext

\* A token that passes assertWriter belongs to whoever was granted the lease
\* last, and within one life of the daemon it is that grant's own: a writer that
\* slept through its lease does not write on the old token (daemon/lease.ts,
\* assertWriter).
THEOREM LatestWriterOnly == DmSpec => []OnlyLatestWriter
<1>1. DmInit => LeaseInv
  BY DEF DmInit, LeaseInv, LeaseTypes, TokensAreOld, LeaseIsLast, DmNoLease
<1>2. LeaseInv /\ [DmNext]_dmVars => LeaseInv'
  BY StepKeepsLeases
<1>3. LeaseInv => OnlyLatestWriter
  BY DEF LeaseInv, TokensAreOld, LeaseIsLast, OnlyLatestWriter, PassesAssertWriter, IsCurrent
<1>. QED
  BY <1>1, <1>2, <1>3, PTL DEF DmSpec

-----------------------------------------------------------------------------
(* The journal *)

JournalStates == {"recorded", "dispatched", "uncertain", "committed", "rejected"}
Entry == [payload : {"p", "q"}, generation : Nat, state : JournalStates]
Document == UNION {[S -> Entry] : S \in SUBSET DmIntents}
Call == [step : {"none", "write", "sync"}, next : Document, id : DmIntents \cup {"none"}]

\* a document that holds what another one holds, every intent no earlier in its life
Holds(newer, older) ==
    \A id \in DOMAIN older :
        /\ id \in DOMAIN newer
        /\ newer[id].payload = older[id].payload /\ newer[id].generation = older[id].generation
        /\ newer[id].state = older[id].state \/ Rank[newer[id].state] > Rank[older[id].state]

\* no two calls of the journal are under way at once
CallsInTurn ==
    \A c, d \in DmCallers : dmCall[c].step # "none" /\ dmCall[d].step # "none" => c = d

JournalTypes ==
    /\ dmFile \in Document /\ dmMemory \in Document /\ dmAcked \in Document
    /\ dmShadow \in SUBSET Document
    /\ dmCall \in [DmCallers -> Call]
    /\ dmUnsure \in BOOLEAN /\ dmUndone \in BOOLEAN

\* The journal in memory holds what was answered; the file holds the journal in
\* memory, and so does whatever a power loss may put in its place, unless the
\* journal counts on a rename that was never synced.
CrashKeepsMemory ==
    ~dmUndone =>
        /\ Holds(dmMemory, dmAcked) /\ Holds(dmFile, dmMemory)
        /\ ~dmUnsure => \A d \in dmShadow : Holds(d, dmMemory)

\* A call writes a document that holds the journal; once it is renamed the file is that document.
CallsWriteMore ==
    \A c \in DmCallers :
        /\ dmCall[c].step # "none" => Holds(dmCall[c].next, dmMemory) /\ dmCall[c].id \in DOMAIN dmCall[c].next
        /\ dmCall[c].step = "sync" => dmFile = dmCall[c].next

JournalInv == LeaseInv /\ JournalTypes /\ CrashKeepsMemory /\ CallsWriteMore

-----------------------------------------------------------------------------
(* Documents *)

LEMMA HoldsItself == ASSUME NEW d \in Document PROVE Holds(d, d)
  BY DEF Holds

LEMMA DocumentEntry == ASSUME NEW d \in Document, NEW id \in DOMAIN d PROVE d[id] \in Entry /\ id \in DmIntents
  BY DEF Document

LEMMA NoEntriesType == NoEntries \in Document
<1>1. NoEntries \in [{} -> Entry]
  BY DEF NoEntries
<1>. QED
  BY <1>1 DEF Document

LEMMA NoCallType == NoCall \in Call
  BY NoEntriesType DEF NoCall, Call

\* Holding is transitive.
LEMMA HoldsThrough ==
    ASSUME NEW a \in Document, NEW b \in Document, NEW c \in Document, Holds(c, b), Holds(b, a)
    PROVE  Holds(c, a)
<1>. SUFFICES ASSUME NEW id \in DOMAIN a
              PROVE  /\ id \in DOMAIN c
                     /\ c[id].payload = a[id].payload /\ c[id].generation = a[id].generation
                     /\ c[id].state = a[id].state \/ Rank[c[id].state] > Rank[a[id].state]
  BY DEF Holds
<1>1. id \in DOMAIN b /\ id \in DOMAIN c
  BY DEF Holds
<1>2. a[id].state \in JournalStates /\ b[id].state \in JournalStates /\ c[id].state \in JournalStates
  BY <1>1, DocumentEntry DEF Entry
<1>3. \A s \in JournalStates : Rank[s] \in Nat
  BY DEF JournalStates, Rank
<1>. QED
  BY <1>1, <1>2, <1>3 DEF Holds

\* Putting an entry into a document gives a document, with that entry.
LEMMA ReplacedType ==
    ASSUME NEW d \in Document, NEW id \in DmIntents, NEW r \in Entry
    PROVE  /\ Replaced(d, id, r) \in Document
           /\ DOMAIN Replaced(d, id, r) = DOMAIN d \cup {id}
           /\ Replaced(d, id, r)[id] = r
           /\ \A i \in DOMAIN d : i # id => Replaced(d, id, r)[i] = d[i]
<1>1. DOMAIN d \in SUBSET DmIntents /\ \A i \in DOMAIN d : d[i] \in Entry
  BY DocumentEntry
<1>2. Replaced(d, id, r) \in [DOMAIN d \cup {id} -> Entry]
  BY <1>1 DEF Replaced
<1>3. DOMAIN d \cup {id} \in SUBSET DmIntents
  BY <1>1
<1>4. Replaced(d, id, r) \in Document
  BY <1>2, <1>3 DEF Document
<1>. QED
  BY <1>4 DEF Replaced

\* Answering for one more entry of a document keeps what is held of it.
LEMMA AnswerHeld ==
    ASSUME NEW d \in Document, NEW a \in Document, NEW id \in DOMAIN d, Holds(d, a)
    PROVE  Replaced(a, id, d[id]) \in Document /\ Holds(d, Replaced(a, id, d[id]))
<1>. DEFINE e == Replaced(a, id, d[id])
<1>0. d[id] \in Entry /\ id \in DmIntents
  BY DocumentEntry
<1>1. /\ e \in Document /\ DOMAIN e = DOMAIN a \cup {id} /\ e[id] = d[id]
      /\ \A i \in DOMAIN a : i # id => e[i] = a[i]
  BY <1>0, ReplacedType, ZenonT(30)
<1>. HIDE DEF e
<1>2. Holds(d, e)
  BY <1>1 DEF Holds
<1>. QED
  BY <1>1, <1>2 DEF e

\* A new intent, or one further on in its life, in place of nothing or of what
\* was there (recordIntent, #transition).
LEMMA ReplacedHolds ==
    ASSUME NEW d \in Document, NEW id \in DmIntents, NEW r \in Entry,
           id \in DOMAIN d => /\ r.payload = d[id].payload /\ r.generation = d[id].generation
                              /\ r.state = d[id].state \/ Rank[r.state] > Rank[d[id].state]
    PROVE  Holds(Replaced(d, id, r), d)
<1>. DEFINE e == Replaced(d, id, r)
<1>1. /\ DOMAIN e = DOMAIN d \cup {id} /\ e[id] = r
      /\ \A i \in DOMAIN d : i # id => e[i] = d[i]
  BY ReplacedType
<1>. HIDE DEF e
<1>2. Holds(e, d)
  BY <1>1 DEF Holds
<1>. QED
  BY <1>2 DEF e

\* The states a mark may leave are earlier than the one it makes.
LEMMA MarksGoOn ==
    ASSUME NEW to \in {"dispatched", "uncertain", "committed", "rejected"}, NEW s \in JournalStates,
           s \in MayLeave(to)
    PROVE  to \in JournalStates /\ Rank[to] > Rank[s]
  BY DEF MayLeave, Dispositions, Undecided, JournalStates, Rank

-----------------------------------------------------------------------------
(* Steps of the journal *)

\* A call begins: it is the only one, and what it writes holds the journal.
LEMMA PersistsKeeps ==
    ASSUME JournalTypes, CrashKeepsMemory, CallsWriteMore, NEW c \in DmCallers, NEW id \in DmIntents, NEW r \in Entry,
           Persists(c, id, r), Holds(Replaced(dmMemory, id, r), dmMemory)
    PROVE  (JournalTypes /\ CrashKeepsMemory /\ CallsWriteMore)'
<1>. DEFINE k == [step |-> "write", next |-> Replaced(dmMemory, id, r), id |-> id]
<1>1. dmCall' = [dmCall EXCEPT ![c] = k] /\ UNCHANGED <<dmFile, dmShadow, dmMemory, dmAcked, dmUnsure, dmUndone>>
  BY DEF Persists
<1>2. Replaced(dmMemory, id, r) \in Document /\ id \in DOMAIN Replaced(dmMemory, id, r)
  <2>1. dmMemory \in Document
    BY DEF JournalTypes
  <2>2. /\ Replaced(dmMemory, id, r) \in Document
        /\ DOMAIN Replaced(dmMemory, id, r) = DOMAIN dmMemory \cup {id}
    BY <2>1, ReplacedType
  <2>. QED
    BY <2>2
<1>3. k \in Call
  BY <1>2 DEF Call
<1>4. JournalTypes'
  BY <1>1, <1>3 DEF JournalTypes
<1>5. CrashKeepsMemory'
  BY <1>1 DEF CrashKeepsMemory, Holds
<1>6. CallsWriteMore'
  <2>. SUFFICES ASSUME NEW d \in DmCallers
                PROVE  /\ dmCall'[d].step # "none" => Holds(dmCall'[d].next, dmMemory) /\ dmCall'[d].id \in DOMAIN dmCall'[d].next
                       /\ dmCall'[d].step = "sync" => dmFile = dmCall'[d].next
    BY <1>1 DEF CallsWriteMore, Holds
  <2>1. CASE d = c
    <3>1. dmCall'[d] = k
      BY <1>1, <2>1 DEF JournalTypes
    <3>. QED
      BY <3>1, <1>2
  <2>2. CASE d # c
    <3>1. dmCall'[d] = dmCall[d]
      BY <1>1, <2>2 DEF JournalTypes
    <3>. QED
      BY <3>1 DEF CallsWriteMore
  <2>. QED
    BY <2>1, <2>2
<1>. QED
  BY <1>4, <1>5, <1>6

\* An answer from memory: what is answered is what the journal holds.
LEMMA ResolvesKeeps ==
    ASSUME JournalTypes, CrashKeepsMemory, CallsWriteMore, NEW c, NEW id \in DOMAIN dmMemory, Resolves(c, id)
    PROVE  (JournalTypes /\ CrashKeepsMemory /\ CallsWriteMore)'
<1>1. dmAcked' = Replaced(dmAcked, id, dmMemory[id]) /\ UNCHANGED <<dmFile, dmShadow, dmMemory, dmCall, dmUnsure, dmUndone>>
  BY DEF Resolves
<1>2. dmMemory[id] \in Entry /\ id \in DmIntents
  BY DocumentEntry DEF JournalTypes
<1>3. JournalTypes'
  BY <1>1, <1>2, ReplacedType DEF JournalTypes
<1>4. ~dmUndone => Holds(dmMemory, dmAcked')
  BY <1>1, AnswerHeld DEF JournalTypes, CrashKeepsMemory
<1>. QED
  BY <1>1, <1>3, <1>4 DEF CrashKeepsMemory, CallsWriteMore, Holds

\* The rename: the document it covers holds the journal, and so does the new one.
LEMMA RenameKeeps ==
    ASSUME JournalTypes, CrashKeepsMemory, CallsWriteMore, CallsInTurn, NEW c \in DmCallers, RenameDocument(c)
    PROVE  (JournalTypes /\ CrashKeepsMemory /\ CallsWriteMore)'
<1>1. /\ dmCall[c].step = "write" /\ dmFile' = dmCall[c].next /\ dmShadow' = dmShadow \cup {dmFile}
      /\ dmCall' = [dmCall EXCEPT ![c].step = "sync"] /\ UNCHANGED <<dmMemory, dmAcked, dmUnsure, dmUndone>>
  BY DEF RenameDocument
<1>2. dmCall[c] \in Call
  BY DEF JournalTypes
<1>3. JournalTypes'
  BY <1>1, <1>2 DEF JournalTypes, Call
<1>4. CrashKeepsMemory'
  BY <1>1 DEF CrashKeepsMemory, CallsWriteMore, Holds
<1>5. ASSUME NEW d \in DmCallers
      PROVE  /\ d = c => /\ dmCall'[d].step = "sync" /\ dmCall'[d].next = dmCall[d].next
                         /\ dmCall'[d].id = dmCall[d].id
             /\ d # c => dmCall'[d] = dmCall[d] /\ dmCall[d].step = "none"
  BY <1>1, <1>2 DEF JournalTypes, Call, CallsInTurn
<1>6. CallsWriteMore'
  BY <1>1, <1>5 DEF CallsWriteMore, Holds
<1>. QED
  BY <1>3, <1>4, <1>6

\* The file is the document and now the journal is; either no older document is
\* left behind it, or the journal counts on the rename.
LEMMA AdmitKeeps ==
    ASSUME JournalTypes, CrashKeepsMemory, CallsWriteMore, CallsInTurn, NEW c \in DmCallers, AdmitDocument(c)
    PROVE  (JournalTypes /\ CrashKeepsMemory /\ CallsWriteMore)'
<1>. DEFINE next == dmCall[c].next
            id == dmCall[c].id
<1>1. /\ dmCall[c].step = "sync" /\ dmMemory' = next /\ dmAcked' = Replaced(dmAcked, id, next[id])
      /\ dmCall' = [dmCall EXCEPT ![c] = NoCall] /\ dmFile' = dmFile /\ dmUndone' = dmUndone
      /\ (dmShadow' = {} /\ dmUnsure' = FALSE) \/ (dmShadow' = dmShadow /\ dmUnsure' = TRUE)
  BY DEF AdmitDocument, Admits
<1>2. next \in Document /\ id \in DOMAIN next /\ Holds(next, dmMemory) /\ dmFile = next
  BY <1>1 DEF JournalTypes, Call, CallsWriteMore
<1>3. next[id] \in Entry /\ id \in DmIntents
  BY <1>2, DocumentEntry
<1>4. JournalTypes'
  BY <1>1, <1>2, <1>3, ReplacedType, NoCallType DEF JournalTypes
<1>5. ~dmUndone => Holds(next, dmAcked)
  BY <1>2, HoldsThrough DEF JournalTypes, CrashKeepsMemory
<1>6. ~dmUndone => Holds(next, Replaced(dmAcked, id, next[id]))
  BY <1>2, <1>5, AnswerHeld DEF JournalTypes
<1>7. CrashKeepsMemory'
  BY <1>1, <1>2, <1>6, HoldsItself DEF CrashKeepsMemory
<1>8. ASSUME NEW d \in DmCallers PROVE dmCall'[d].step = "none"
  BY <1>1 DEF JournalTypes, CallsInTurn, NoCall
<1>9. CallsWriteMore'
  BY <1>8 DEF CallsWriteMore
<1>. QED
  BY <1>4, <1>7, <1>9

\* A save that fails leaves the journal as it was, whatever the file holds by then.
LEMMA FailureKeeps ==
    ASSUME JournalTypes, CrashKeepsMemory, CallsWriteMore, NEW c \in DmCallers, SaveFails(c)
    PROVE  (JournalTypes /\ CrashKeepsMemory /\ CallsWriteMore)'
<1>1. dmCall' = [dmCall EXCEPT ![c] = NoCall] /\ UNCHANGED <<dmFile, dmShadow, dmMemory, dmAcked, dmUnsure, dmUndone>>
  BY DEF SaveFails
<1>2. ASSUME NEW d \in DmCallers PROVE dmCall'[d] = dmCall[d] \/ dmCall'[d].step = "none"
  BY <1>1 DEF JournalTypes, NoCall
<1>3. JournalTypes'
  BY <1>1, NoCallType DEF JournalTypes
<1>. QED
  BY <1>1, <1>2, <1>3 DEF CrashKeepsMemory, CallsWriteMore, Holds

\* The next process opens on a document that holds all that was answered, and
\* nothing older counts but behind a rename it knows nothing of.
LEMMA OpenKeeps ==
    ASSUME JournalTypes, NEW document \in Document, OpensOn(document),
           dmShadow' \in SUBSET Document, dmUnsure' = (dmShadow' # {}), dmUndone' \in BOOLEAN,
           ~dmUndone' => Holds(document, dmAcked)
    PROVE  (JournalTypes /\ CrashKeepsMemory /\ CallsWriteMore)'
<1>1. /\ dmFile' = document /\ dmMemory' = document
      /\ dmCall' = [c \in DmCallers |-> NoCall] /\ dmAcked' = dmAcked
  BY DEF OpensOn
<1>2. JournalTypes'
  BY <1>1, NoCallType DEF JournalTypes
<1>3. CrashKeepsMemory'
  BY <1>1, HoldsItself DEF CrashKeepsMemory
<1>4. CallsWriteMore'
  BY <1>1 DEF CallsWriteMore, NoCall
<1>. QED
  BY <1>2, <1>3, <1>4

LEMMA RestartKeeps ==
    ASSUME JournalTypes, CrashKeepsMemory, RestartDaemon
    PROVE  (JournalTypes /\ CrashKeepsMemory /\ CallsWriteMore)'
<1>1. OpensOn(dmFile) /\ dmUnsure' = (dmShadow # {}) /\ dmShadow' = dmShadow /\ dmUndone' = dmUndone
  BY DEF RestartDaemon
<1>2. ~dmUndone => Holds(dmFile, dmAcked)
  BY HoldsThrough DEF JournalTypes, CrashKeepsMemory
<1>3. /\ dmFile \in Document /\ dmShadow' \in SUBSET Document /\ dmUndone' \in BOOLEAN
      /\ dmUnsure' = (dmShadow' # {}) /\ ~dmUndone' => Holds(dmFile, dmAcked)
  BY <1>1, <1>2 DEF JournalTypes
<1>. QED
  BY <1>1, <1>3, OpenKeeps

\* A power loss puts back a document that holds the journal, or undoes a rename it counted on.
LEMMA PowerLossKeeps ==
    ASSUME JournalTypes, CrashKeepsMemory, NEW document \in {dmFile} \cup dmShadow, PowerLost(document)
    PROVE  (JournalTypes /\ CrashKeepsMemory /\ CallsWriteMore)'
<1>1. /\ OpensOn(document) /\ dmShadow' = {} /\ dmUnsure' = FALSE
      /\ dmUndone' = (dmUndone \/ (dmUnsure /\ document # dmFile))
  BY DEF PowerLost
<1>2. document \in Document
  BY DEF JournalTypes
<1>3. ASSUME ~dmUndone' PROVE Holds(document, dmAcked)
  <2>1. ~dmUndone /\ (document = dmFile \/ ~dmUnsure)
    BY <1>1, <1>3
  <2>2. Holds(document, dmMemory) /\ Holds(dmMemory, dmAcked)
    BY <2>1 DEF CrashKeepsMemory
  <2>. QED
    BY <1>2, <2>2, HoldsThrough DEF JournalTypes
<1>4. /\ dmShadow' \in SUBSET Document /\ dmUndone' \in BOOLEAN /\ dmUnsure' = (dmShadow' # {})
  BY <1>1 DEF JournalTypes
<1>. QED
  BY <1>1, <1>2, <1>3, <1>4, OpenKeeps

\* recordIntent and the marks.
LEMMA RecordKeeps ==
    ASSUME JournalInv, NEW c \in DmCallers, NEW id \in DmIntents, NEW payload \in {"p", "q"}, NEW t \in dmTokens,
           RecordIntent(c, id, payload, t)
    PROVE  (JournalTypes /\ CrashKeepsMemory /\ CallsWriteMore)'
<1>1. t.generation \in Nat
  BY DEF JournalInv, LeaseInv, LeaseTypes, Token
<1>2. NewIntent(payload, t.generation) \in Entry
  BY <1>1 DEF NewIntent, Entry, JournalStates
<1>3. CASE id \in DOMAIN dmMemory /\ Resolves(c, id)
  BY <1>3, ResolvesKeeps DEF JournalInv
<1>4. CASE id \notin DOMAIN dmMemory /\ Persists(c, id, NewIntent(payload, t.generation))
  <2>1. Holds(Replaced(dmMemory, id, NewIntent(payload, t.generation)), dmMemory)
    BY <1>2, <1>4, ReplacedHolds DEF JournalInv, JournalTypes
  <2>. QED
    BY <1>2, <1>4, <2>1, PersistsKeeps DEF JournalInv
<1>. QED
  BY <1>3, <1>4 DEF RecordIntent

LEMMA MarkKeeps ==
    ASSUME JournalInv, NEW c \in DmCallers, NEW id \in DmIntents,
           NEW to \in {"dispatched", "uncertain", "committed", "rejected"}, MarkIntent(c, id, to)
    PROVE  (JournalTypes /\ CrashKeepsMemory /\ CallsWriteMore)'
<1>1. id \in DOMAIN dmMemory /\ dmMemory[id] \in Entry
  BY DocumentEntry DEF MarkIntent, JournalInv, JournalTypes
<1>. DEFINE r == [dmMemory[id] EXCEPT !.state = to]
<1>2. CASE dmMemory[id].state \in MayLeave(to) /\ Persists(c, id, r)
  <2>1. dmMemory[id].state \in JournalStates
    BY <1>1 DEF Entry
  <2>2. to \in JournalStates /\ Rank[to] > Rank[dmMemory[id].state]
    BY <1>2, <2>1, MarksGoOn
  <2>3. /\ r \in Entry /\ r.payload = dmMemory[id].payload /\ r.generation = dmMemory[id].generation /\ r.state = to
    BY <1>1, <2>2 DEF Entry
  <2>4. Holds(Replaced(dmMemory, id, r), dmMemory)
    BY <2>2, <2>3, ReplacedHolds DEF JournalInv, JournalTypes
  <2>. QED
    BY <1>2, <2>3, <2>4, PersistsKeeps DEF JournalInv
<1>3. CASE Resolves(c, id)
  BY <1>1, <1>3, ResolvesKeeps DEF JournalInv
<1>. QED
  BY <1>2, <1>3 DEF MarkIntent

LEMMA StepKeepsJournal ==
    ASSUME JournalInv, CallsInTurn, [DmNext]_dmVars
    PROVE  JournalInv'
<1>1. LeaseInv'
  BY StepKeepsLeases DEF JournalInv
<1>2. CASE UNCHANGED dmJournal
  BY <1>1, <1>2 DEF dmJournal, JournalInv, JournalTypes, CrashKeepsMemory, CallsWriteMore, Holds
<1>3. CASE \E o \in DmOwners : AcquireLease(o)
  BY <1>2, <1>3 DEF AcquireLease
<1>4. CASE \E t \in dmTokens : RenewLease(t) \/ DmReleaseLease(t)
  BY <1>2, <1>4 DEF RenewLease, DmReleaseLease
<1>5. CASE ClockTicks
  BY <1>2, <1>5 DEF ClockTicks
<1>6. CASE \E c \in DmCallers, id \in DmIntents, payload \in {"p", "q"}, t \in dmTokens : RecordIntent(c, id, payload, t)
  BY <1>1, <1>6, RecordKeeps DEF JournalInv
<1>7. CASE \E c \in DmCallers, id \in DmIntents, to \in {"dispatched", "uncertain", "committed", "rejected"} : MarkIntent(c, id, to)
  BY <1>1, <1>7, MarkKeeps DEF JournalInv
<1>8. CASE \E c \in DmCallers : RenameDocument(c) \/ AdmitDocument(c) \/ SaveFails(c)
  BY <1>1, <1>8, RenameKeeps, AdmitKeeps, FailureKeeps DEF JournalInv
<1>9. CASE RestartDaemon
  BY <1>1, <1>9, RestartKeeps DEF JournalInv
<1>10. CASE \E document \in {dmFile} \cup dmShadow : PowerLost(document)
  BY <1>1, <1>10, PowerLossKeeps DEF JournalInv
<1>11. CASE UNCHANGED dmVars
  BY <1>2, <1>11 DEF dmVars, dmJournal
<1>. QED
  BY <1>3, <1>4, <1>5, <1>6, <1>7, <1>8, <1>9, <1>10, <1>11 DEF DmNext

\* What the journal has answered is in its file, through failed saves, crashes
\* and power losses, as long as callers wait for one another; where it counts on
\* a rename that no directory fsync has covered (a save on Windows, a document
\* left by a process that ended in between), until a power loss undoes that
\* rename.  The proviso on callers is needed: #persist replaces the journal by what its call began with
\* (daemon/journal.ts), so that the later of two calls under way undoes the earlier.
THEOREM AcknowledgedIntentsKept == DmSpec /\ []CallsInTurn => []AckedIntentKept
<1>1. DmInit => JournalInv
  <2>. SUFFICES ASSUME DmInit PROVE JournalInv
    OBVIOUS
  <2>1. LeaseInv
    BY DEF DmInit, LeaseInv, LeaseTypes, TokensAreOld, LeaseIsLast, DmNoLease
  <2>2. JournalTypes
    BY NoEntriesType, NoCallType DEF DmInit, JournalTypes
  <2>3. CrashKeepsMemory
    BY NoEntriesType, HoldsItself DEF DmInit, CrashKeepsMemory
  <2>4. CallsWriteMore
    BY DEF DmInit, CallsWriteMore, NoCall
  <2>. QED
    BY <2>1, <2>2, <2>3, <2>4 DEF JournalInv
<1>2. JournalInv /\ CallsInTurn /\ [DmNext]_dmVars => JournalInv'
  BY StepKeepsJournal
<1>3. JournalInv => AckedIntentKept
  <2>. SUFFICES ASSUME JournalInv PROVE AckedIntentKept
    OBVIOUS
  <2>1. ~dmUndone => Holds(dmFile, dmAcked)
    BY HoldsThrough DEF JournalInv, JournalTypes, CrashKeepsMemory
  <2>. QED
    BY <2>1 DEF AckedIntentKept, Holds
<1>. QED
  BY <1>1, <1>2, <1>3, PTL DEF DmSpec

=============================================================================
