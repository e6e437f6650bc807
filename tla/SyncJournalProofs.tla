------------------------- MODULE SyncJournalProofs -------------------------
(***************************************************************************)
(* What holds of the durable sync journal for every set of writers, ids    *)
(* and intents, every lease length and every bound: types, then - as long  *)
(* as the kernel lock is only freed by its holder - fences, histories and, *)
(* when no write is torn either, a file that inspection always accepts;    *)
(* and under every fault what an accepted file still remembers.            *)
(***************************************************************************)
EXTENDS SyncJournal, SequenceTheorems, TLAPS

-----------------------------------------------------------------------------
(* Types                                                                   *)

\* A writer in the middle of an append holds a line.
WritingHasLine == \A w \in Writers : pc[w] = "writing" => pend[w] \in Line

TypeInv == TypeOK /\ WritingHasLine

\* Bodies of a file are record bodies.
LEMMA BodiesType ==
  ASSUME NEW l \in Seq(Line)
  PROVE  /\ Bodies(l) \in Seq(Body)
         /\ Len(Bodies(l)) = Len(l)
         /\ \A i \in 1..Len(l) : Bodies(l)[i] = l[i].body
<1>1. Len(l) \in Nat /\ \A i \in 1..Len(l) : l[i] \in Line
  BY LenProperties, ElementOfSeq
<1>2. \A i \in 1..Len(l) : l[i].body \in Body
  BY <1>1 DEF Line
<1>3. Bodies(l) \in [1..Len(l) -> Body]
  BY <1>2 DEF Bodies
<1>4. Bodies(l) \in Seq(Body)
  BY <1>1, <1>3, SeqDef
<1> QED
  BY <1>1, <1>3, <1>4, LenProperties DEF Bodies

\* Appending a line, or gluing one to an open line, leaves a file.
LEMMA LogWithType ==
  ASSUME TypeOK, NEW w \in Writers, pend[w] \in Line, NEW end \in {"nl", "open", "bad"}
  PROVE  /\ LogWith(w, end) \in Seq(Line)
         /\ Len(LogWith(w, end)) >= Len(log)
<1>1. log \in Seq(Line) /\ Len(log) \in Nat
  BY LenProperties DEF TypeOK
<1>2. [pend[w] EXCEPT !.end = end] \in Line
  BY DEF Line
<1>3. CASE log # << >> /\ log[Len(log)].end = "open"
  <2>1. Len(log) \in 1..Len(log)
    BY <1>1, <1>3, EmptySeq
  <2>2. log[Len(log)] \in Line
    BY <1>1, <2>1, ElementOfSeq
  <2>3. [log[Len(log)] EXCEPT !.end = "bad"] \in Line
    BY <2>2 DEF Line
  <2>4. LogWith(w, end) = [log EXCEPT ![Len(log)] = [log[Len(log)] EXCEPT !.end = "bad"]]
    BY <1>3 DEF LogWith
  <2> QED
    BY <1>1, <2>1, <2>3, <2>4, ExceptSeq
<1>4. CASE ~(log # << >> /\ log[Len(log)].end = "open")
  <2>1. LogWith(w, end) = Append(log, [pend[w] EXCEPT !.end = end])
    BY <1>4 DEF LogWith
  <2> QED
    BY <1>1, <1>2, <2>1
<1> QED
  BY <1>3, <1>4

LEMMA TypeInit == Init => TypeInv
<1>1. << >> \in Seq(Line) /\ << >> \in Seq(Body) /\ << >> \in Seq(Nat) /\ Len(<< >>) = 0
  BY EmptySeq
<1>2. NoLease \in Lease /\ NoMe \in Me
  BY DEF NoLease, Lease, NoMe, Me
<1> QED
  BY <1>1, <1>2 DEF Init, TypeInv, TypeOK, WritingHasLine, PCs

\* Ends of lines.
LEMMA EndsType == "nl" \in Ends /\ Ends \subseteq {"nl", "open", "bad"}
  BY DEF Ends

\* A process that lets go of everything keeps the types.
LEMMA ForgetType ==
  ASSUME TypeInv, NEW w \in Writers, Forget(w)
  PROVE  /\ pc' \in [Writers -> PCs]
         /\ me' \in [Writers -> Me]
         /\ mem' \in [Writers -> Seq(Body)]
         /\ pend' \in [Writers -> Line \cup {NoLine}]
         /\ WritingHasLine'
<1>1. << >> \in Seq(Body) /\ NoMe \in Me /\ "idle" \in PCs
  BY EmptySeq DEF NoMe, Me, PCs
<1> QED
  BY <1>1 DEF TypeInv, TypeOK, Forget, WritingHasLine

\* Updating a field of a process's record keeps its type.
LEMMA MeType ==
  ASSUME TypeOK, NEW w \in Writers
  PROVE  /\ \A m \in Nat : [me EXCEPT ![w].last = m] \in [Writers -> Me]
         /\ \A m \in Nat : [me EXCEPT ![w].id = m] \in [Writers -> Me]
         /\ \A m, n, k \in Nat :
              [me EXCEPT ![w].fence = m, ![w].observed = n, ![w].expires = k] \in [Writers -> Me]
<1> SUFFICES ASSUME NEW m \in Nat, NEW n \in Nat, NEW k \in Nat
             PROVE  /\ [me EXCEPT ![w].last = m] \in [Writers -> Me]
                    /\ [me EXCEPT ![w].id = m] \in [Writers -> Me]
                    /\ [me EXCEPT ![w].fence = m, ![w].observed = n, ![w].expires = k] \in [Writers -> Me]
  OBVIOUS
<1>1. me[w] \in Me /\ me \in [Writers -> Me]
  BY DEF TypeOK
<1>2. /\ [me[w] EXCEPT !.last = m] \in Me
      /\ [me[w] EXCEPT !.id = m] \in Me
      /\ [me[w] EXCEPT !.fence = m, !.observed = n, !.expires = k] \in Me
  BY <1>1 DEF Me
<1>3. /\ [me EXCEPT ![w].last = m] = [me EXCEPT ![w] = [me[w] EXCEPT !.last = m]]
      /\ [me EXCEPT ![w].id = m] = [me EXCEPT ![w] = [me[w] EXCEPT !.id = m]]
      /\ [me EXCEPT ![w].fence = m, ![w].observed = n, ![w].expires = k]
           = [me EXCEPT ![w] = [me[w] EXCEPT !.fence = m, !.observed = n, !.expires = k]]
  BY <1>1
<1> QED
  BY <1>1, <1>2, <1>3

\* Starting an append keeps the types: the line is built from the records.
LEMMA StartWriteType ==
  ASSUME TypeInv, NEW w \in Writers, NEW op \in Ops, NEW intent \in Intents, NEW state \in States,
         StartWrite(w, op, intent, state)
  PROVE  TypeInv'
<1> DEFINE body == [op |-> op, intent |-> intent, state |-> state,
                    fence |-> me[w].fence, seq |-> Len(mem[w]) + 1]
           line == [body |-> body, prev |-> mem[w], end |-> "nl"]
<1>1. mem[w] \in Seq(Body) /\ Len(mem[w]) \in Nat /\ me[w] \in Me
  BY LenProperties DEF TypeInv, TypeOK
<1>2. body \in Body
  BY <1>1 DEF Body, Me
<1>3. line \in Line
  BY <1>1, <1>2 DEF Line
<1>4. pend' = [pend EXCEPT ![w] = line]
  BY DEF StartWrite
<1> HIDE DEF line
<1>5. pend' \in [Writers -> Line \cup {NoLine}] /\ WritingHasLine'
  BY <1>3, <1>4 DEF TypeInv, TypeOK, WritingHasLine, StartWrite, Goto
<1>6. me' \in [Writers -> Me] /\ pc' \in [Writers -> PCs] /\ writes' \in Nat
  <2>1. me' \in [Writers -> Me]
    <3>1. TypeOK /\ now \in Nat
      BY DEF TypeInv, TypeOK
    <3> QED
      BY <3>1, MeType DEF StartWrite, ReadClock
  <2>2. pc' = [pc EXCEPT ![w] = "writing"] /\ writes' = writes + 1
    BY DEF StartWrite, Goto
  <2>3. pc \in [Writers -> PCs] /\ writes \in Nat /\ "writing" \in PCs
    BY DEF TypeInv, TypeOK, PCs, Working
  <2> QED
    BY <2>1, <2>2, <2>3
<1> QED
  BY <1>5, <1>6 DEF TypeInv, TypeOK, StartWrite, disk, hist

LEMMA TypeStep == TypeInv /\ [Next]_vars => TypeInv'
<1> SUFFICES ASSUME TypeInv, [Next]_vars PROVE TypeInv'
  OBVIOUS
<1> USE JournalAssumption
<1>1. CASE UNCHANGED vars
  BY <1>1 DEF TypeInv, TypeOK, WritingHasLine, vars
<1>2. CASE ClockMoves
  BY <1>2 DEF TypeInv, TypeOK, WritingHasLine, ClockMoves, disk, hist
<1>3. CASE PowerLoss
  <2>1. \A n \in synced..Len(log) : SubSeq(log, 1, n) \in Seq(Line) /\ Len(SubSeq(log, 1, n)) = n
    <3> SUFFICES ASSUME NEW n \in synced..Len(log)
                 PROVE  SubSeq(log, 1, n) \in Seq(Line) /\ Len(SubSeq(log, 1, n)) = n
      OBVIOUS
    <3>1. n \in Nat /\ \A i \in 1..n : log[i] \in Line
      BY LenProperties, ElementOfSeq DEF TypeInv, TypeOK
    <3> QED
      BY <3>1, SubSeqProperties
  <2>2. << >> \in Seq(Body) /\ NoMe \in Me /\ NoLease \in Lease /\ "idle" \in PCs
    BY EmptySeq DEF NoMe, Me, NoLease, Lease, PCs
  <2>3. log' \in Seq(Line) /\ synced' \in 0..Len(log')
    BY <1>3, <2>1, LenProperties DEF TypeInv, TypeOK, PowerLoss
  <2>4. meta' \in Nat /\ lease' \in Lease
    BY <1>3, <2>2 DEF TypeInv, TypeOK, PowerLoss
  <2> QED
    BY <1>3, <2>2, <2>3, <2>4 DEF TypeInv, TypeOK, WritingHasLine, PowerLoss, hist
<1>4. ASSUME NEW w \in Writers, Step(w) PROVE TypeInv'
  <2>1. CASE Acquire(w)
    <3>1. me' \in [Writers -> Me]
      <4>1. TypeOK /\ opens + 1 \in Nat
        BY DEF TypeInv, TypeOK
      <4> QED
        BY <2>1, <4>1, MeType DEF Acquire
    <3> QED
      BY <2>1, <3>1 DEF TypeInv, TypeOK, WritingHasLine, Acquire, Goto, PCs, Opening, disk, hist
  <2>2. CASE ReadFence(w)
    <3>1. NextFence \in Nat
      BY DEF NextFence, MaxOf, TypeInv, TypeOK, Lease
    <3>2. me' \in [Writers -> Me]
      <4>1. TypeOK /\ now \in Nat /\ now + LeaseMs \in Nat
        BY DEF TypeInv, TypeOK
      <4> QED
        BY <2>2, <3>1, <4>1, MeType DEF ReadFence
    <3> QED
      BY <2>2, <3>2 DEF TypeInv, TypeOK, WritingHasLine, ReadFence, Goto, PCs, Opening, disk, hist
  <2>3. CASE WriteLease(w)
    BY <2>3 DEF TypeInv, TypeOK, WritingHasLine, WriteLease, LeaseOf, Lease, Goto, Me, PCs, Opening, hist
  <2>4. CASE ProveLease(w)
    BY <2>4 DEF TypeInv, TypeOK, WritingHasLine, ProveLease, Goto, PCs, Opening, disk, hist
  <2>5. CASE StampMetadata(w)
    BY <2>5 DEF TypeInv, TypeOK, WritingHasLine, StampMetadata, Goto, Me, PCs, Opening, hist
  <2>6. CASE Inspect(w)
    <3>1. Bodies(log) \in Seq(Body)
      BY BodiesType DEF TypeInv, TypeOK
    <3> QED
      BY <2>6, <3>1 DEF TypeInv, TypeOK, WritingHasLine, Inspect, Goto, PCs, Opening, disk, hist
  <2>7. CASE FinishOpen(w)
    <3>1. granted' \in Seq(Nat)
      BY <2>7 DEF TypeInv, TypeOK, FinishOpen, Me
    <3>2. me' \in [Writers -> Me]
      <4>1. TypeOK /\ now \in Nat
        BY DEF TypeInv, TypeOK
      <4> QED
        BY <2>7, <4>1, MeType DEF FinishOpen
    <3> QED
      BY <2>7, <3>1, <3>2 DEF TypeInv, TypeOK, WritingHasLine, FinishOpen, Goto, PCs, Working, disk
  <2>8. CASE OpenFails(w)
    <3>1. lease' \in Lease /\ lock' \in Writers \cup {NoOne}
      BY <2>8 DEF TypeInv, TypeOK, OpenFails, ReleaseLease, NoLease, Lease, Unlock
    <3> QED
      BY <2>8, <3>1, ForgetType DEF TypeInv, TypeOK, OpenFails, hist
  <2>9. CASE ObserveExpiry(w)
    <3>1. me' \in [Writers -> Me]
      <4>1. TypeOK /\ now \in Nat
        BY DEF TypeInv, TypeOK
      <4> QED
        BY <2>9, <4>1, MeType DEF ObserveExpiry, ReadClock
    <3> QED
      BY <2>9, <3>1 DEF TypeInv, TypeOK, WritingHasLine, ObserveExpiry, disk, hist
  <2>10. CASE StartRenew(w)
    <3>1. me' \in [Writers -> Me]
      <4>1. TypeOK /\ now \in Nat
        BY DEF TypeInv, TypeOK
      <4> QED
        BY <2>10, <4>1, MeType DEF StartRenew, ReadClock
    <3> QED
      BY <2>10, <3>1 DEF TypeInv, TypeOK, WritingHasLine, StartRenew, Goto, PCs, Working, disk, hist
  <2>11. CASE FinishRenew(w)
    <3>1. lease' \in Lease /\ me' \in [Writers -> Me]
      <4>1. me[w] \in Me /\ now \in Nat /\ now + LeaseMs \in Nat
        BY DEF TypeInv, TypeOK
      <4>2. LeaseOf(w, now + LeaseMs) \in Lease
        BY <4>1 DEF LeaseOf, Lease, Me
      <4>3. TypeOK /\ lease \in Lease /\ me \in [Writers -> Me]
        BY DEF TypeInv, TypeOK
      <4>4. [me EXCEPT ![w].last = now] \in [Writers -> Me]
        BY <4>1, <4>3, MeType
      <4>5. \/ lease' = LeaseOf(w, now + LeaseMs) /\ me' = [me EXCEPT ![w].last = now]
            \/ lease' = lease /\ me' = me
        BY <2>11 DEF FinishRenew, ReadClock
      <4> QED
        BY <4>2, <4>3, <4>4, <4>5
    <3> QED
      BY <2>11, <3>1 DEF TypeInv, TypeOK, WritingHasLine, FinishRenew, Goto, PCs, Working, hist
  <2>12. CASE \E op \in Ops, intent \in Intents : AppendIntent(w, op, intent)
    BY <2>12, StartWriteType DEF AppendIntent, States
  <2>13. CASE \E op \in Ops, state \in States : Transition(w, op, state)
    <3>1. PICK op \in Ops, state \in States : Transition(w, op, state)
      BY <2>13
    <3>2. PICK j \in 1..Len(mem[w]) : StartWrite(w, op, mem[w][j].intent, state)
      BY <3>1 DEF Transition
    <3>3. mem[w][j].intent \in Intents
      <4>1. mem[w] \in Seq(Body)
        BY DEF TypeInv, TypeOK
      <4>2. mem[w][j] \in Body
        BY <4>1, ElementOfSeq
      <4> QED
        BY <4>2 DEF Body
    <3> QED
      BY <3>2, <3>3, StartWriteType
  <2>14. CASE FinishWrite(w)
    <3>1. pend[w] \in Line /\ pend[w].body \in Body
      BY <2>14 DEF TypeInv, WritingHasLine, FinishWrite, Line
    <3>2. log' \in Seq(Line) /\ Len(log') \in Nat
      BY <2>14, <3>1, LogWithType, LenProperties DEF TypeInv, FinishWrite
    <3>3. mem' \in [Writers -> Seq(Body)]
      BY <2>14, <3>1 DEF TypeInv, TypeOK, FinishWrite
    <3> QED
      BY <2>14, <3>1, <3>2, <3>3 DEF TypeInv, TypeOK, WritingHasLine, FinishWrite, Goto, PCs, Working
  <2>15. CASE WriteThrows(w)
    <3>1. pend[w] \in Line
      BY <2>15 DEF TypeInv, WritingHasLine, WriteThrows
    <3>2. log' \in Seq(Line) /\ Len(log') \in Nat /\ Len(log') >= Len(log)
      <4>1. CASE UNCHANGED log
        BY <4>1, LenProperties DEF TypeInv, TypeOK
      <4>2. CASE \E end \in Ends : log' = LogWith(w, end)
        BY <3>1, <4>2, LogWithType, EndsType, LenProperties DEF TypeInv
      <4> QED
        BY <2>15, <4>1, <4>2 DEF WriteThrows
    <3>3. synced' \in 0..Len(log')
      BY <2>15, <3>2, LenProperties DEF TypeInv, TypeOK, WriteThrows
    <3> QED
      BY <2>15, <3>2, <3>3 DEF TypeInv, TypeOK, WritingHasLine, WriteThrows, Goto, PCs, Working, hist
  <2>16. CASE Close(w)
    <3>1. lease' \in Lease /\ lock' \in Writers \cup {NoOne}
      BY <2>16 DEF TypeInv, TypeOK, Close, ReleaseLease, NoLease, Lease, Unlock
    <3> QED
      BY <2>16, <3>1, ForgetType DEF TypeInv, TypeOK, Close, hist
  <2>17. CASE Crash(w)
    <3>1. log' \in Seq(Line) /\ Len(log') \in Nat /\ Len(log') >= Len(log)
      <4>1. CASE UNCHANGED log
        BY <4>1, LenProperties DEF TypeInv, TypeOK
      <4>2. CASE pc[w] = "writing" /\ \E end \in Ends : log' = LogWith(w, end)
        <5>1. pend[w] \in Line
          BY <4>2 DEF TypeInv, WritingHasLine
        <5> QED
          BY <4>2, <5>1, LogWithType, EndsType, LenProperties DEF TypeInv
      <4> QED
        BY <2>17, <4>1, <4>2 DEF Crash
    <3>2. synced' \in 0..Len(log')
      BY <2>17, <3>1, LenProperties DEF TypeInv, TypeOK, Crash
    <3>3. lock' \in Writers \cup {NoOne}
      BY <2>17 DEF TypeInv, TypeOK, Crash, Unlock
    <3> QED
      BY <2>17, <3>1, <3>2, <3>3, ForgetType DEF TypeInv, TypeOK, Crash, hist
  <2>18. CASE HelperDies(w)
    BY <2>18 DEF TypeInv, TypeOK, WritingHasLine, HelperDies, disk, hist
  <2> QED
    BY <1>4, <2>1, <2>2, <2>3, <2>4, <2>5, <2>6, <2>7, <2>8, <2>9, <2>10, <2>11, <2>12,
       <2>13, <2>14, <2>15, <2>16, <2>17, <2>18 DEF Step
<1> QED
  BY <1>1, <1>2, <1>3, <1>4 DEF Next

\* Types hold in every reachable state, whatever fails.
THEOREM TypeCorrect == Spec => []TypeOK
<1>1. TypeInv => TypeOK
  BY DEF TypeInv
<1> QED
  BY TypeInit, TypeStep, <1>1, PTL DEF Spec

-----------------------------------------------------------------------------
(* Fences                                                                  *)

\* Only the holder of the kernel lock is between opening and closing.
OwnerAlone == \A w \in Writers : pc[w] # "idle" => lock = w

\* A process that chose a fence is above the metadata until it stamps it, and
\* equal to it from then on; what was granted is not above the metadata, and
\* below it while the next fence is stamped and not yet granted.
FenceAbove == \A w \in Writers : pc[w] \in {"fenced", "leased", "proved"} => me[w].fence > meta
FenceStamped ==
  \A w \in Writers : pc[w] \in {"stamped", "inspected"} \cup Working => me[w].fence = meta
GrantedBounded == \A i \in 1..Len(granted) : granted[i] <= meta
GrantedBelow ==
  \A w \in Writers : pc[w] \in {"stamped", "inspected"} => \A i \in 1..Len(granted) : granted[i] < meta

FenceInv ==
  /\ TypeInv
  /\ OwnerAlone
  /\ FenceAbove
  /\ FenceStamped
  /\ GrantedBounded
  /\ GrantedBelow
  /\ FencesIncrease

LEMMA FenceInit == Init => FenceInv
<1> SUFFICES ASSUME Init PROVE FenceInv
  OBVIOUS
<1>1. TypeInv
  BY TypeInit
<1>2. Len(granted) = 0
  BY EmptySeq DEF Init
<1> QED
  BY <1>1, <1>2 DEF Init, FenceInv, OwnerAlone, FenceAbove, FenceStamped, GrantedBounded,
                    GrantedBelow, FencesIncrease, Working

\* When nobody but the holder frees the lock, a step of one writer finds every
\* other one idle.
LEMMA OthersIdle ==
  ASSUME FenceInv, NEW w \in Writers, lock \in {w, NoOne}
  PROVE  \A u \in Writers \ {w} : pc[u] = "idle"
  BY JournalAssumption DEF FenceInv, OwnerAlone

\* The part of FenceInv that is not about types survives every step that
\* leaves the metadata and the grants alone and keeps a moving writer's fence
\* where its new label wants it.
LEMMA FenceQuiet ==
  ASSUME FenceInv, TypeInv', NEW w \in Writers,
         UNCHANGED <<meta, granted>>,
         \A u \in Writers \ {w} : pc'[u] = pc[u] /\ me'[u].fence = me[u].fence,
         OwnerAlone',
         pc'[w] \in {"fenced", "leased", "proved"} => me'[w].fence > meta,
         pc'[w] \in {"stamped", "inspected"} \cup Working => me'[w].fence = meta,
         pc'[w] \in {"stamped", "inspected"} => pc[w] \in {"stamped", "inspected"}
  PROVE  FenceInv'
<1>1. FenceAbove' /\ FenceStamped'
  BY DEF FenceInv, FenceAbove, FenceStamped
<1>2. GrantedBounded' /\ GrantedBelow' /\ FencesIncrease'
  BY DEF FenceInv, GrantedBounded, GrantedBelow, FencesIncrease
<1> QED
  BY <1>1, <1>2 DEF FenceInv

\* A process that lets go of the journal is idle, and the lock is free.
LEMMA FenceForget ==
  ASSUME FenceInv, TypeInv', NEW w \in Writers, pc[w] # "idle",
         Forget(w), Unlock(w), UNCHANGED <<meta, granted>>
  PROVE  FenceInv'
<1>1. pc \in [Writers -> PCs] /\ me \in [Writers -> Me] /\ lock = w
  BY DEF FenceInv, OwnerAlone, TypeInv, TypeOK
<1>2. pc'[w] = "idle" /\ \A u \in Writers \ {w} : pc'[u] = pc[u] /\ me'[u] = me[u]
  BY <1>1 DEF Forget
<1>3. \A u \in Writers : pc'[u] = "idle"
  BY <1>1, <1>2, OthersIdle
<1>4. OwnerAlone'
  BY <1>3 DEF OwnerAlone
<1> QED
  BY <1>2, <1>4, FenceQuiet DEF Working

\* Starting an append moves an open writer to "writing".
LEMMA FenceStartWrite ==
  ASSUME FenceInv, TypeInv', NEW w \in Writers, NEW op, NEW intent, NEW state, pc[w] = "open",
         StartWrite(w, op, intent, state)
  PROVE  FenceInv'
<1>1. pc \in [Writers -> PCs] /\ me \in [Writers -> Me] /\ lock = w /\ me[w] \in Me
  BY DEF FenceInv, OwnerAlone, TypeInv, TypeOK
<1>2. pc' = [pc EXCEPT ![w] = "writing"] /\ me' = [me EXCEPT ![w].last = now]
      /\ UNCHANGED <<lock, meta, granted>>
  BY DEF StartWrite, Goto, ReadClock, disk, hist
<1>3. me'[w].fence = me[w].fence
  BY <1>1, <1>2 DEF Me
<1>4. \A u \in Writers \ {w} : pc'[u] = pc[u] /\ me'[u].fence = me[u].fence
  BY <1>1, <1>2
<1>5. OwnerAlone'
  BY <1>1, <1>2, <1>4 DEF FenceInv, OwnerAlone
<1>6. pc'[w] = "writing" /\ me'[w].fence = meta
  BY <1>1, <1>2, <1>3 DEF FenceInv, FenceStamped, Working
<1> QED
  BY <1>2, <1>4, <1>5, <1>6, FenceQuiet DEF Working

LEMMA FenceStep ==
  ASSUME Faults \subseteq {"torn"}, FenceInv, [Next]_vars
  PROVE  FenceInv'
<1> USE JournalAssumption
<1>1. TypeInv'
  BY TypeStep DEF FenceInv
<1>2. CASE UNCHANGED vars
  BY <1>1, <1>2 DEF FenceInv, OwnerAlone, FenceAbove, FenceStamped, GrantedBounded, GrantedBelow,
                    FencesIncrease, vars
<1>3. CASE ClockMoves
  BY <1>1, <1>3 DEF FenceInv, OwnerAlone, FenceAbove, FenceStamped, GrantedBounded, GrantedBelow,
                    FencesIncrease, ClockMoves, disk, hist
<1>4. CASE PowerLoss
  BY <1>4 DEF PowerLoss
<1>5. ASSUME NEW w \in Writers, Step(w) PROVE FenceInv'
  <2>1. pc \in [Writers -> PCs] /\ me \in [Writers -> Me] /\ me[w] \in Me /\ meta \in Nat
    BY DEF FenceInv, TypeInv, TypeOK
  <2>2. CASE Acquire(w)
    <3>1. \A u \in Writers \ {w} : pc'[u] = pc[u] /\ me'[u].fence = me[u].fence /\ pc[u] = "idle"
      BY <2>1, <2>2, OthersIdle DEF Acquire, Goto
    <3>2. pc'[w] = "locked" /\ lock' = w /\ UNCHANGED <<meta, granted>>
      BY <2>1, <2>2 DEF Acquire, Goto, disk, hist
    <3>3. OwnerAlone'
      BY <3>1, <3>2 DEF OwnerAlone
    <3> QED
      BY <1>1, <3>1, <3>2, <3>3, FenceQuiet DEF Working
  <2>3. CASE ReadFence(w)
    <3>1. \A u \in Writers \ {w} : pc'[u] = pc[u] /\ me'[u].fence = me[u].fence
      BY <2>1, <2>3 DEF ReadFence, Goto
    <3>2. pc'[w] = "fenced" /\ me'[w].fence = NextFence /\ lock' = w /\ lock = w /\ UNCHANGED <<meta, granted>>
      BY <2>1, <2>3 DEF ReadFence, Goto, disk, hist, Me
    <3>3. NextFence > meta
      BY DEF NextFence, MaxOf, FenceInv, TypeInv, TypeOK, Lease
    <3>4. OwnerAlone'
      BY <3>1, <3>2 DEF FenceInv, OwnerAlone
    <3> QED
      BY <1>1, <3>1, <3>2, <3>3, <3>4, FenceQuiet DEF Working
  <2>4. CASE WriteLease(w) \/ ProveLease(w)
    <3>1. pc[w] \in {"fenced", "leased"} /\ pc'[w] \in {"leased", "proved"}
          /\ UNCHANGED <<lock, me, meta, granted>> /\ \A u \in Writers \ {w} : pc'[u] = pc[u]
      BY <2>1, <2>4 DEF WriteLease, ProveLease, Goto, disk, hist
    <3>2. OwnerAlone' /\ me[w].fence > meta
      BY <3>1 DEF FenceInv, OwnerAlone, FenceAbove
    <3> QED
      BY <1>1, <3>1, <3>2, FenceQuiet DEF Working
  <2>5. CASE StampMetadata(w)
    <3>1. pc[w] = "proved" /\ pc'[w] = "stamped" /\ meta' = me[w].fence /\ UNCHANGED <<lock, me, granted>>
          /\ \A u \in Writers \ {w} : pc'[u] = pc[u]
      BY <2>1, <2>5 DEF StampMetadata, Goto, hist
    <3>2. lock = w /\ meta' > meta
      BY <3>1 DEF FenceInv, OwnerAlone, FenceAbove
    <3>3. \A u \in Writers \ {w} : pc'[u] = "idle"
      BY <3>1, <3>2, OthersIdle
    <3>4. granted \in Seq(Nat) /\ \A i \in 1..Len(granted) : granted[i] \in Nat /\ granted[i] <= meta
      BY ElementOfSeq DEF FenceInv, TypeInv, TypeOK, GrantedBounded
    <3>5. meta' \in Nat
      BY <1>1 DEF TypeInv, TypeOK
    <3>6. OwnerAlone' /\ FenceAbove' /\ FenceStamped'
      BY <3>1, <3>2, <3>3 DEF OwnerAlone, FenceAbove, FenceStamped, Working
    <3>7. GrantedBounded' /\ GrantedBelow'
      BY <2>1, <3>1, <3>2, <3>4, <3>5, SMTT(30) DEF GrantedBounded, GrantedBelow
    <3>8. FencesIncrease'
      BY <3>1 DEF FenceInv, FencesIncrease
    <3> QED
      BY <1>1, <3>6, <3>7, <3>8 DEF FenceInv
  <2>6. CASE Inspect(w)
    <3>1. pc[w] = "stamped" /\ pc'[w] = "inspected" /\ UNCHANGED <<lock, me, meta, granted>>
          /\ \A u \in Writers \ {w} : pc'[u] = pc[u]
      BY <2>1, <2>6 DEF Inspect, Goto, disk, hist
    <3>2. OwnerAlone' /\ me[w].fence = meta
      BY <3>1 DEF FenceInv, OwnerAlone, FenceStamped
    <3> QED
      BY <1>1, <3>1, <3>2, FenceQuiet DEF Working
  <2>7. CASE FinishOpen(w)
    <3>1. pc[w] = "inspected" /\ pc'[w] = "open" /\ me'[w].fence = me[w].fence /\ UNCHANGED <<lock, meta>>
          /\ granted' = Append(granted, me[w].fence)
          /\ \A u \in Writers \ {w} : pc'[u] = pc[u] /\ me'[u] = me[u]
      BY <2>1, <2>7 DEF FinishOpen, Goto, disk, Me
    <3>2. lock = w /\ me[w].fence = meta /\ \A i \in 1..Len(granted) : granted[i] < meta
      BY <3>1 DEF FenceInv, OwnerAlone, FenceStamped, GrantedBelow
    <3>3. \A u \in Writers \ {w} : pc'[u] = "idle"
      BY <3>1, <3>2, OthersIdle
    <3>4. OwnerAlone' /\ FenceAbove' /\ FenceStamped' /\ GrantedBelow'
      BY <3>1, <3>2, <3>3 DEF OwnerAlone, FenceAbove, FenceStamped, GrantedBelow, Working
    <3>5. /\ Len(granted) \in Nat /\ Len(granted') = Len(granted) + 1
          /\ granted'[Len(granted) + 1] = meta
          /\ \A i \in 1..Len(granted) : granted'[i] = granted[i] /\ granted[i] \in Nat
      BY <2>1, <3>1, <3>2, LenProperties, ElementOfSeq DEF FenceInv, TypeInv, TypeOK
    <3>6. GrantedBounded'
      BY <2>1, <3>1, <3>2, <3>5 DEF GrantedBounded
    <3>7. FencesIncrease'
      <4> SUFFICES ASSUME NEW i \in 1..Len(granted'), NEW j \in 1..Len(granted'), i < j
                   PROVE  granted'[i] < granted'[j]
        BY DEF FencesIncrease
      <4>1. i \in 1..Len(granted)
        BY <3>5
      <4>2. CASE j \in 1..Len(granted)
        BY <3>5, <4>1, <4>2 DEF FenceInv, FencesIncrease
      <4>3. CASE j = Len(granted) + 1
        BY <3>2, <3>5, <4>1, <4>3
      <4> QED
        BY <3>5, <4>2, <4>3
    <3> QED
      BY <1>1, <3>4, <3>6, <3>7 DEF FenceInv
  <2>8. CASE OpenFails(w) \/ Close(w) \/ Crash(w)
    BY <1>1, <2>8, FenceForget DEF OpenFails, Close, Crash, Opening, hist
  <2>9. CASE ObserveExpiry(w) \/ StartRenew(w) \/ FinishRenew(w)
    <3>1. pc[w] \in {"open", "renewing"} /\ pc'[w] \in {"open", "renewing"} /\ me'[w].fence = me[w].fence
          /\ UNCHANGED <<lock, meta, granted>> /\ \A u \in Writers \ {w} : pc'[u] = pc[u] /\ me'[u] = me[u]
      <4>1. [me EXCEPT ![w].last = now][w].fence = me[w].fence
        BY <2>1 DEF Me
      <4>2. me' = [me EXCEPT ![w].last = now] \/ me' = me
        BY <2>9 DEF ObserveExpiry, StartRenew, FinishRenew, ReadClock
      <4>3. me'[w].fence = me[w].fence /\ \A u \in Writers \ {w} : me'[u] = me[u]
        BY <2>1, <4>1, <4>2
      <4>4. pc[w] \in {"open", "renewing"} /\ (pc' = pc \/ pc' = [pc EXCEPT ![w] = "open"]
                                              \/ pc' = [pc EXCEPT ![w] = "renewing"])
        BY <2>9 DEF ObserveExpiry, StartRenew, FinishRenew, Goto
      <4>5. UNCHANGED <<lock, meta, granted>>
        BY <2>9 DEF ObserveExpiry, StartRenew, FinishRenew, disk, hist
      <4> QED
        BY <2>1, <4>3, <4>4, <4>5
    <3>2. OwnerAlone' /\ me[w].fence = meta
      BY <3>1 DEF FenceInv, OwnerAlone, FenceStamped, Working
    <3> QED
      BY <1>1, <3>1, <3>2, FenceQuiet DEF Working
  <2>10. CASE \E op \in Ops, intent \in Intents : AppendIntent(w, op, intent)
    BY <1>1, <2>10, FenceStartWrite DEF AppendIntent
  <2>11. CASE \E op \in Ops, state \in States : Transition(w, op, state)
    BY <1>1, <2>11, FenceStartWrite DEF Transition
  <2>12. CASE FinishWrite(w) \/ WriteThrows(w)
    <3>1. pc[w] = "writing" /\ pc'[w] = "open"
          /\ UNCHANGED <<lock, me, meta, granted>> /\ \A u \in Writers \ {w} : pc'[u] = pc[u]
      BY <2>1, <2>12 DEF FinishWrite, WriteThrows, Goto, hist
    <3>2. OwnerAlone' /\ me[w].fence = meta
      BY <3>1 DEF FenceInv, OwnerAlone, FenceStamped, Working
    <3> QED
      BY <1>1, <3>1, <3>2, FenceQuiet DEF Working
  <2>13. CASE HelperDies(w)
    BY <2>13 DEF HelperDies
  <2> QED
    BY <1>5, <2>2, <2>3, <2>4, <2>5, <2>6, <2>7, <2>8, <2>9, <2>10, <2>11, <2>12, <2>13 DEF Step
<1> QED
  BY <1>2, <1>3, <1>4, <1>5 DEF Next

\* Unless the lock helper is killed or the host loses power, no fence is handed
\* out twice or out of order: a process may die, and a write may be torn, at
\* any point of any open, append or close.
THEOREM FencesGrow ==
  ASSUME Faults \subseteq {"torn"}
  PROVE  Spec => []FencesIncrease
<1>1. FenceInv /\ [Next]_vars => FenceInv'
  BY FenceStep
<1>2. FenceInv => FencesIncrease
  BY DEF FenceInv
<1> QED
  BY FenceInit, <1>1, <1>2, PTL DEF Spec

-----------------------------------------------------------------------------
(* The file                                                                *)

\* With no torn writes every line is whole.
WholeLines == \A i \in 1..Len(log) : log[i].end = "nl"

\* A stamped fence is a positive one.
StampedPositive == \A w \in Writers : pc[w] \in {"stamped", "inspected"} \cup Working => meta > 0

\* What a writer has inspected is what is in the file.
Viewed == \A w \in Writers : pc[w] \in {"inspected"} \cup Working => mem[w] = Bodies(log)

\* The line about to be written continues the writer's records lawfully.
Prepared ==
  \A w \in Writers : pc[w] = "writing" =>
    /\ pend[w].end = "nl"
    /\ pend[w].prev = mem[w]
    /\ pend[w].body.seq = Len(mem[w]) + 1
    /\ pend[w].body.fence = me[w].fence
    /\ Follows(mem[w], Len(mem[w]), pend[w].body)

FileInv ==
  /\ FenceInv
  /\ WholeLines
  /\ StampedPositive
  /\ Viewed
  /\ Prepared
  /\ Readable

\* Follows looks only at the records before the new one.
LEMMA FollowsAgree ==
  ASSUME NEW n \in Nat, NEW r, NEW q, NEW b, \A i \in 1..n : r[i] = q[i], Follows(r, n, b)
  PROVE  Follows(q, n, b)
<1>1. Knows(r, n, b.op) <=> Knows(q, n, b.op)
  BY DEF Knows
<1>2. \A j \in 1..n : LatestAt(r, n, b.op, j) <=> LatestAt(q, n, b.op, j)
  BY DEF LatestAt
<1>3. n > 0 => r[n] = q[n]
  OBVIOUS
<1> QED
  BY <1>1, <1>2, <1>3 DEF Follows

\* A new operation may follow any records of the same or earlier fences.
LEMMA NewFollows ==
  ASSUME NEW r, NEW n \in Nat, NEW b, ~Knows(r, n, b.op), b.state = "queued",
         n > 0 => r[n].fence <= b.fence
  PROVE  Follows(r, n, b)
  BY DEF Follows, Knows, LatestAt

\* So may the next state of a known one.
LEMMA NextFollows ==
  ASSUME NEW r, NEW n \in Nat, NEW b, NEW j \in 1..n, LatestAt(r, n, b.op, j),
         r[j].intent = b.intent, allowedTransition(r[j].state, b.state),
         n > 0 => r[n].fence <= b.fence
  PROVE  Follows(r, n, b)
<1>1. Knows(r, n, b.op)
  BY DEF Knows, LatestAt
<1>2. \A k \in 1..n : LatestAt(r, n, b.op, k) => k = j
  BY DEF LatestAt
<1> QED
  BY <1>1, <1>2 DEF Follows

\* Raising the metadata's fence never makes a line unacceptable.
LEMMA CleanRaised ==
  ASSUME NEW l, NEW f \in Nat, NEW g \in Nat, f <= g, Clean(l, f), \A i \in 1..Len(l) : l[i].body.fence \in Nat
  PROVE  Clean(l, g)
  BY DEF Clean, GoodLine

\* A lawful line keeps the file acceptable.
LEMMA CleanAppend ==
  ASSUME NEW l \in Seq(Line), NEW x \in Line, NEW f \in Nat, Clean(l, f),
         x.end # "bad", x.body.seq = Len(l) + 1, x.prev = Bodies(l), x.body.fence \in 1..f,
         Follows(Bodies(l), Len(l), x.body)
  PROVE  Clean(Append(l, x), f)
<1> DEFINE m == Append(l, x)
<1>1. Len(l) \in Nat /\ Len(m) = Len(l) + 1 /\ m[Len(l) + 1] = x /\ \A i \in 1..Len(l) : m[i] = l[i]
  BY LenProperties
<1> HIDE DEF m
<1>2. ASSUME NEW i \in 1..Len(l) PROVE GoodLine(m, f, i)
  <2>1. GoodLine(l, f, i)
    BY DEF Clean
  <2>2. [j \in 1..(i - 1) |-> l[j].body] = [j \in 1..(i - 1) |-> m[j].body]
    BY <1>1
  <2> QED
    BY <1>1, <2>1, <2>2 DEF GoodLine
<1>3. GoodLine(m, f, Len(l) + 1)
  <2>1. Bodies(l) = [j \in 1..Len(l) |-> m[j].body]
    BY <1>1 DEF Bodies
  <2>2. (Len(l) + 1) - 1 = Len(l)
    BY <1>1
  <2> QED
    BY <1>1, <2>1, <2>2 DEF GoodLine
<1> QED
  BY <1>1, <1>2, <1>3 DEF Clean, m

LEMMA FileInit == Init => FileInv
<1> SUFFICES ASSUME Init PROVE FileInv
  OBVIOUS
<1>1. FenceInv
  BY FenceInit
<1>2. Len(log) = 0
  BY EmptySeq DEF Init
<1> QED
  BY <1>1, <1>2 DEF Init, FileInv, WholeLines, StampedPositive, Viewed, Prepared, Readable, Clean, Working

\* A step of one writer, the others idle, concerns its own conditions only.
LEMMA FileOfOne ==
  ASSUME FenceInv', NEW w \in Writers, \A u \in Writers \ {w} : pc'[u] = "idle",
         WholeLines', Readable',
         pc'[w] \in {"stamped", "inspected"} \cup Working => meta' > 0,
         pc'[w] \in {"inspected"} \cup Working => mem'[w] = Bodies(log)',
         pc'[w] = "writing" =>
           /\ pend'[w].end = "nl"
           /\ pend'[w].prev = mem'[w]
           /\ pend'[w].body.seq = Len(mem'[w]) + 1
           /\ pend'[w].body.fence = me'[w].fence
           /\ Follows(mem'[w], Len(mem'[w]), pend'[w].body)
  PROVE  FileInv'
<1>1. StampedPositive' /\ Viewed'
  BY DEF StampedPositive, Viewed, Working
<1>2. Prepared'
  BY DEF Prepared
<1> QED
  BY <1>1, <1>2 DEF FileInv

\* With no torn writes, writing puts the whole line behind the others.
LEMMA FileWritten ==
  ASSUME Faults = {}, FileInv, NEW w \in Writers, pc[w] = "writing", NEW end \in Ends
  PROVE  /\ LogWith(w, end) = Append(log, pend[w])
         /\ Clean(Append(log, pend[w]), meta)
         /\ \A i \in 1..Len(Append(log, pend[w])) : Append(log, pend[w])[i].end = "nl"
         /\ Bodies(Append(log, pend[w])) = Append(mem[w], pend[w].body)
<1>1. log \in Seq(Line) /\ Len(log) \in Nat /\ meta \in Nat /\ pend[w] \in Line /\ mem[w] \in Seq(Body)
      /\ me[w] \in Me
  BY LenProperties DEF FileInv, FenceInv, TypeInv, TypeOK, WritingHasLine
<1>2. end = "nl" /\ pend[w].end = "nl"
  BY DEF Ends, FileInv, Prepared
<1>3. [pend[w] EXCEPT !.end = end] = pend[w]
  BY <1>1, <1>2 DEF Line
<1>4. log # << >> => log[Len(log)].end = "nl"
  BY <1>1, EmptySeq DEF FileInv, WholeLines
<1>5. LogWith(w, end) = Append(log, pend[w])
  BY <1>3, <1>4 DEF LogWith
<1>6. mem[w] = Bodies(log) /\ Len(mem[w]) = Len(log)
  BY <1>1, BodiesType DEF FileInv, Viewed, Working
<1>7. pend[w].body.fence = meta /\ meta > 0
  BY DEF FileInv, FenceInv, Prepared, FenceStamped, StampedPositive, Working
<1>8. Clean(Append(log, pend[w]), meta)
  <2>1. Clean(log, meta)
    BY DEF FileInv, Readable
  <2>2. pend[w].prev = Bodies(log) /\ pend[w].body.seq = Len(log) + 1
        /\ Follows(Bodies(log), Len(log), pend[w].body)
    BY <1>6 DEF FileInv, Prepared
  <2>3. pend[w].body.fence \in 1..meta
    BY <1>1, <1>7
  <2> QED
    BY <1>1, <1>2, <2>1, <2>2, <2>3, CleanAppend
<1> DEFINE m == Append(log, pend[w])
<1>9. Len(m) = Len(log) + 1 /\ m[Len(log) + 1] = pend[w] /\ (\A i \in 1..Len(log) : m[i] = log[i]) /\ m \in Seq(Line)
  BY <1>1
<1> HIDE DEF m
<1>10. \A i \in 1..Len(m) : m[i].end = "nl"
  BY <1>1, <1>2, <1>9 DEF FileInv, WholeLines
<1>11. Bodies(m) = Append(mem[w], pend[w].body)
  <2>1. pend[w].body \in Body
    BY <1>1 DEF Line
  <2>2. Bodies(m) \in Seq(Body) /\ Len(Bodies(m)) = Len(log) + 1
        /\ \A i \in 1..Len(log) + 1 : Bodies(m)[i] = m[i].body
    BY <1>9, BodiesType
  <2>3. \A i \in 1..Len(log) : mem[w][i] = log[i].body
    BY <1>1, <1>6, BodiesType
  <2>4. Append(mem[w], pend[w].body) \in Seq(Body) /\ Len(Append(mem[w], pend[w].body)) = Len(log) + 1
    BY <1>1, <1>6, <2>1
  <2>5. \A i \in 1..Len(log) + 1 : Bodies(m)[i] = Append(mem[w], pend[w].body)[i]
    BY <1>1, <1>6, <1>9, <2>1, <2>2, <2>3
  <2> QED
    BY <2>2, <2>4, <2>5, SeqEqual
<1> QED
  BY <1>5, <1>8, <1>10, <1>11 DEF m

\* Starting an append prepares a lawful line.
LEMMA FileStartWrite ==
  ASSUME FileInv, FenceInv', NEW w \in Writers, NEW op, NEW intent, NEW state, pc[w] = "open",
         StartWrite(w, op, intent, state),
         \A b : b.op = op /\ b.intent = intent /\ b.state = state /\ b.fence = meta
                => Follows(mem[w], Len(mem[w]), b)
  PROVE  FileInv'
<1> DEFINE body == [op |-> op, intent |-> intent, state |-> state,
                    fence |-> me[w].fence, seq |-> Len(mem[w]) + 1]
           line == [body |-> body, prev |-> mem[w], end |-> "nl"]
<1>1. pc \in [Writers -> PCs] /\ me \in [Writers -> Me] /\ me[w] \in Me /\ lock = w /\ pend \in [Writers -> Line \cup {NoLine}]
  BY DEF FileInv, FenceInv, OwnerAlone, TypeInv, TypeOK
<1>2. pend'[w] = line
  BY <1>1 DEF StartWrite
<1>3. UNCHANGED <<log, meta, mem>> /\ pc'[w] = "writing" /\ \A u \in Writers \ {w} : pc'[u] = pc[u]
  BY <1>1 DEF StartWrite, Goto, disk
<1>4. me'[w].fence = me[w].fence /\ me[w].fence = meta /\ meta > 0
  BY <1>1 DEF StartWrite, ReadClock, Me, FileInv, FenceInv, FenceStamped, StampedPositive, Working
<1>5. \A u \in Writers \ {w} : pc'[u] = "idle"
  BY <1>1, <1>3, OthersIdle DEF FileInv
<1>6. Follows(mem[w], Len(mem[w]), body)
  BY <1>4
<1>7. line.end = "nl" /\ line.prev = mem[w] /\ line.body = body
  OBVIOUS
<1>8. body.seq = Len(mem[w]) + 1 /\ body.fence = me[w].fence
  OBVIOUS
<1> HIDE DEF body, line
<1>9. WholeLines' /\ Readable'
  BY <1>3 DEF FileInv, WholeLines, Readable
<1>10. mem'[w] = Bodies(log)'
  BY <1>1, <1>3 DEF FileInv, Viewed, Working, Bodies
<1> QED
  BY <1>2, <1>3, <1>4, <1>5, <1>6, <1>7, <1>8, <1>9, <1>10, FileOfOne

LEMMA FileStep ==
  ASSUME Faults = {}, FileInv, [Next]_vars
  PROVE  FileInv'
<1> USE JournalAssumption
<1>1. FenceInv'
  BY FenceStep DEF FileInv
<1>2. CASE UNCHANGED vars \/ ClockMoves
  <2>1. UNCHANGED <<log, meta, pc, me, mem, pend>>
    BY <1>2 DEF vars, ClockMoves, disk
  <2> QED
    BY <1>1, <2>1 DEF FileInv, WholeLines, StampedPositive, Viewed, Prepared, Readable, Bodies
<1>3. CASE PowerLoss
  BY <1>3 DEF PowerLoss
<1>4. ASSUME NEW w \in Writers, Step(w) PROVE FileInv'
  <2>1. /\ pc \in [Writers -> PCs] /\ me \in [Writers -> Me] /\ mem \in [Writers -> Seq(Body)]
        /\ me[w] \in Me /\ mem[w] \in Seq(Body) /\ meta \in Nat /\ log \in Seq(Line)
    BY DEF FileInv, FenceInv, TypeInv, TypeOK
  <2>2. ASSUME UNCHANGED <<log, meta>> PROVE WholeLines' /\ Readable'
    BY <2>2 DEF FileInv, WholeLines, Readable
  <2>3. \A u \in Writers \ {w} : pc[u] = "idle"
    <3>1. lock \in {w, NoOne}
      BY <1>4 DEF Step, Acquire, FileInv, FenceInv, OwnerAlone, ReadFence, WriteLease, ProveLease,
                  StampMetadata, Inspect, FinishOpen, OpenFails, ObserveExpiry, StartRenew, FinishRenew,
                  AppendIntent, Transition, FinishWrite, WriteThrows, Close, Crash, HelperDies, Opening
    <3> QED
      BY <3>1, OthersIdle DEF FileInv
  <2>4. CASE Acquire(w) \/ ReadFence(w) \/ WriteLease(w) \/ ProveLease(w)
    <3>1. pc'[w] \in {"locked", "fenced", "leased", "proved"} /\ UNCHANGED <<log, meta>>
          /\ \A u \in Writers \ {w} : pc'[u] = "idle"
      BY <2>1, <2>3, <2>4 DEF Acquire, ReadFence, WriteLease, ProveLease, Goto, disk
    <3> QED
      BY <1>1, <2>2, <3>1, FileOfOne DEF Working
  <2>5. CASE StampMetadata(w)
    <3>1. pc[w] = "proved" /\ pc'[w] = "stamped" /\ meta' = me[w].fence /\ UNCHANGED log
          /\ \A u \in Writers \ {w} : pc'[u] = "idle"
      BY <2>1, <2>3, <2>5 DEF StampMetadata, Goto
    <3>2. meta' \in Nat /\ meta < meta'
      BY <2>1, <3>1 DEF FileInv, FenceInv, FenceAbove, Me
    <3>3. Readable'
      <4>1. \A i \in 1..Len(log) : log[i].body.fence \in Nat
        <5>1. \A i \in 1..Len(log) : log[i] \in Line
          BY <2>1, ElementOfSeq
        <5> QED
          BY <5>1 DEF Line, Body
      <4> QED
        BY <2>1, <3>1, <3>2, <4>1, CleanRaised DEF FileInv, Readable
    <3>4. WholeLines' /\ meta' > 0
      BY <2>1, <3>1, <3>2 DEF FileInv, WholeLines
    <3> QED
      BY <1>1, <3>1, <3>3, <3>4, FileOfOne DEF Working
  <2>6. CASE Inspect(w)
    <3>1. pc[w] = "stamped" /\ pc'[w] = "inspected" /\ mem'[w] = Bodies(log) /\ UNCHANGED <<log, meta>>
          /\ \A u \in Writers \ {w} : pc'[u] = "idle"
      BY <2>1, <2>3, <2>6 DEF Inspect, Goto, disk
    <3>2. meta > 0 /\ Bodies(log)' = Bodies(log)
      BY <3>1 DEF FileInv, StampedPositive, Bodies
    <3> QED
      BY <1>1, <2>2, <3>1, <3>2, FileOfOne DEF Working
  <2>7. CASE FinishOpen(w) \/ ObserveExpiry(w) \/ StartRenew(w) \/ FinishRenew(w)
    <3>1. pc[w] \in {"inspected", "open", "renewing"} /\ UNCHANGED <<log, meta, mem>>
      BY <2>7 DEF FinishOpen, ObserveExpiry, StartRenew, FinishRenew, disk
    <3>2. pc'[w] \in {"open", "renewing"} /\ \A u \in Writers \ {w} : pc'[u] = "idle"
      <4>1. pc' = [pc EXCEPT ![w] = "open"] \/ pc' = [pc EXCEPT ![w] = "renewing"] \/ (pc' = pc /\ pc[w] = "open")
        BY <2>7 DEF FinishOpen, ObserveExpiry, StartRenew, FinishRenew, Goto
      <4> QED
        BY <2>1, <2>3, <4>1
    <3>3. mem'[w] = Bodies(log)' /\ meta' > 0
      BY <3>1 DEF FileInv, Viewed, StampedPositive, Working, Bodies
    <3> QED
      BY <1>1, <2>2, <3>1, <3>2, <3>3, FileOfOne
  <2>8. CASE OpenFails(w) \/ Close(w)
    <3>1. Forget(w) /\ UNCHANGED <<log, meta>>
      BY <2>8 DEF OpenFails, Close
    <3>2. \A u \in Writers : pc'[u] = "idle"
      BY <2>1, <2>3, <3>1 DEF Forget
    <3> QED
      BY <1>1, <2>2, <3>1, <3>2, FileOfOne DEF Working
  <2>9. ASSUME pc[w] = "open" PROVE /\ mem[w] = Bodies(log) /\ Len(mem[w]) \in Nat
                                    /\ Len(mem[w]) > 0 => mem[w][Len(mem[w])].fence <= meta
    <3>1. mem[w] = Bodies(log) /\ Len(log) \in Nat
      BY <2>1, <2>9, LenProperties DEF FileInv, Viewed, Working
    <3>2. Len(mem[w]) = Len(log) /\ \A i \in 1..Len(log) : mem[w][i] = log[i].body
      BY <2>1, <3>1, BodiesType
    <3>3. \A i \in 1..Len(log) : log[i].body.fence \in 1..meta
      BY DEF FileInv, Readable, Clean, GoodLine
    <3>4. Len(log) > 0 => Len(log) \in 1..Len(log)
      BY <3>1
    <3> QED
      BY <2>1, <3>1, <3>2, <3>3, <3>4
  <2>10. CASE \E op \in Ops, intent \in Intents : AppendIntent(w, op, intent)
    <3>1. PICK op \in Ops, intent \in Intents : AppendIntent(w, op, intent)
      BY <2>10
    <3>2. pc[w] = "open" /\ ~Knows(mem[w], Len(mem[w]), op) /\ StartWrite(w, op, intent, "queued")
      BY <3>1 DEF AppendIntent
    <3>3. \A b : b.op = op /\ b.intent = intent /\ b.state = "queued" /\ b.fence = meta
                 => Follows(mem[w], Len(mem[w]), b)
      BY <2>9, <3>2, NewFollows
    <3> QED
      BY <1>1, <3>2, <3>3, FileStartWrite
  <2>11. CASE \E op \in Ops, state \in States : Transition(w, op, state)
    <3>1. PICK op \in Ops, state \in States : Transition(w, op, state)
      BY <2>11
    <3>2. PICK j \in 1..Len(mem[w]) :
             /\ LatestAt(mem[w], Len(mem[w]), op, j)
             /\ allowedTransition(mem[w][j].state, state)
             /\ StartWrite(w, op, mem[w][j].intent, state)
      BY <3>1 DEF Transition
    <3>3. pc[w] = "open"
      BY <3>1 DEF Transition
    <3>4. \A b : b.op = op /\ b.intent = mem[w][j].intent /\ b.state = state /\ b.fence = meta
                 => Follows(mem[w], Len(mem[w]), b)
      BY <2>9, <3>2, <3>3, NextFollows
    <3> QED
      BY <1>1, <3>2, <3>3, <3>4, FileStartWrite
  <2>12. CASE FinishWrite(w)
    <3>1. pc[w] = "writing" /\ pc'[w] = "open" /\ mem'[w] = Append(mem[w], pend[w].body)
          /\ UNCHANGED meta /\ log' = LogWith(w, "nl") /\ \A u \in Writers \ {w} : pc'[u] = "idle"
      BY <2>1, <2>3, <2>12 DEF FinishWrite, Goto
    <3>2. log' = Append(log, pend[w]) /\ Readable' /\ WholeLines' /\ mem'[w] = Bodies(log)'
      BY <3>1, FileWritten, EndsType, ZenonT(30) DEF Readable, WholeLines, Bodies
    <3>3. meta' > 0
      BY <3>1 DEF FileInv, StampedPositive, Working
    <3> QED
      BY <1>1, <3>1, <3>2, <3>3, FileOfOne
  <2>13. CASE Crash(w)
    <3>1. Forget(w) /\ UNCHANGED meta
      BY <2>13 DEF Crash
    <3>2. \A u \in Writers : pc'[u] = "idle"
      BY <2>1, <2>3, <3>1 DEF Forget
    <3>3. Readable' /\ WholeLines'
      <4>1. CASE UNCHANGED log
        BY <2>2, <3>1, <4>1
      <4>2. CASE pc[w] = "writing" /\ \E end \in Ends : log' = LogWith(w, end)
        <5>1. PICK end \in Ends : log' = LogWith(w, end)
          BY <4>2
        <5>2. log' = Append(log, pend[w])
          BY <4>2, <5>1, FileWritten
        <5> QED
          BY <3>1, <4>2, <5>2, FileWritten DEF Readable, WholeLines
      <4> QED
        BY <2>13, <4>1, <4>2 DEF Crash
    <3> QED
      BY <1>1, <3>2, <3>3, FileOfOne DEF Working
  <2>14. CASE WriteThrows(w) \/ HelperDies(w)
    BY <2>14 DEF WriteThrows, HelperDies
  <2> QED
    BY <1>4, <2>4, <2>5, <2>6, <2>7, <2>8, <2>10, <2>11, <2>12, <2>13, <2>14 DEF Step
<1> QED
  BY <1>2, <1>3, <1>4 DEF Next

\* If no write is torn, the lock helper lives and the host keeps its power, the
\* journal never locks its owner out: inspection accepts the file in every
\* reachable state, also after any number of process deaths.
THEOREM JournalReadable ==
  ASSUME Faults = {}
  PROVE  Spec => []Readable
<1>1. FileInv /\ [Next]_vars => FileInv'
  BY FileStep
<1>2. FileInv => Readable
  BY DEF FileInv
<1> QED
  BY FileInit, <1>1, <1>2, PTL DEF Spec

-----------------------------------------------------------------------------
(* What was acknowledged stays                                             *)

\* A line is only ever written whole; its end is cut by a failure.
Whole == \A w \in Writers : pc[w] = "writing" => pend[w].end = "nl"

\* Only the last line can lack its newline, and then it is not synced.
OpenIsLast == \A i \in 1..Len(log) : log[i].end = "open" => i = Len(log) /\ i > synced

\* Bytes that do not parse are on stable storage, so no open will succeed again.
Spoilt == \E i \in 1..synced : log[i].end = "bad"

\* The acknowledged lines are on stable storage, or the file is spoilt for good.
Kept == Spoilt \/ \A l \in acked : \E i \in 1..synced : log[i] = l

AckInv ==
  /\ TypeInv
  /\ Whole
  /\ OpenIsLast
  /\ Kept

\* What one write makes of the file: the synced lines stay, and a whole line is the
\* last one or has been glued to an open one.
LEMMA Written ==
  ASSUME AckInv, NEW w \in Writers, pc[w] = "writing", NEW end \in Ends
  PROVE  /\ Len(LogWith(w, end)) \in Nat \ {0}
         /\ Len(LogWith(w, end)) >= Len(log)
         /\ \A i \in 1..synced : LogWith(w, end)[i] = log[i]
         /\ \A i \in 1..Len(LogWith(w, end)) : LogWith(w, end)[i].end = "open"
              => i = Len(LogWith(w, end)) /\ i > synced /\ end # "nl"
         /\ end = "nl" => \/ LogWith(w, end)[Len(LogWith(w, end))] = pend[w]
                          \/ LogWith(w, end)[Len(LogWith(w, end))].end = "bad"
<1> DEFINE m == LogWith(w, end)
           x == [pend[w] EXCEPT !.end = end]
<1>1. /\ log \in Seq(Line) /\ Len(log) \in Nat /\ synced \in 0..Len(log)
      /\ pend[w] \in Line /\ pend[w].end = "nl"
      /\ \A i \in 1..Len(log) : log[i] \in Line
  BY LenProperties, ElementOfSeq DEF AckInv, TypeInv, TypeOK, WritingHasLine, Whole
<1>2. x \in Line /\ x.end = end /\ (end = "nl" => x = pend[w])
  <2>1. end \in {"nl", "open", "bad"}
    BY EndsType
  <2> QED
    BY <1>1, <2>1 DEF Line
<1>3. CASE log # << >> /\ log[Len(log)].end = "open"
  <2>1. Len(log) \in 1..Len(log) /\ Len(log) > synced
    BY <1>1, <1>3, EmptySeq DEF AckInv, OpenIsLast
  <2>2. m = [log EXCEPT ![Len(log)].end = "bad"]
    BY <1>3 DEF LogWith
  <2>3. log[Len(log)] \in Line
    BY <1>1, <2>1
  <2>4. m = [log EXCEPT ![Len(log)] = [log[Len(log)] EXCEPT !.end = "bad"]]
    BY <2>2
  <2>5. Len(m) = Len(log)
    BY <1>1, <2>4, ExceptSeq, <2>1, <2>3 DEF Line
  <2>6. m[Len(log)].end = "bad" /\ \A i \in 1..Len(log) : i # Len(log) => m[i] = log[i]
    BY <1>1, <2>1, <2>3, <2>4 DEF Line
  <2> HIDE DEF m
  <2> QED
    BY <1>1, <2>1, <2>5, <2>6 DEF AckInv, OpenIsLast, m
<1>4. CASE ~(log # << >> /\ log[Len(log)].end = "open")
  <2>1. m = Append(log, x)
    BY <1>4 DEF LogWith
  <2> HIDE DEF x
  <2>2. Len(m) = Len(log) + 1 /\ m[Len(log) + 1] = x /\ \A i \in 1..Len(log) : m[i] = log[i]
    BY <1>1, <1>2, <2>1
  <2>3. \A i \in 1..Len(log) : log[i].end # "open"
    BY <1>1, <1>4, EmptySeq DEF AckInv, OpenIsLast
  <2> HIDE DEF m
  <2> QED
    BY <1>1, <1>2, <2>2, <2>3 DEF m
<1> QED
  BY <1>3, <1>4

\* A step that acknowledges nothing and keeps the synced lines keeps the rest.
LEMMA AckQuiet ==
  ASSUME AckInv, TypeInv', Whole', OpenIsLast', synced' = synced, acked' = acked,
         \A i \in 1..synced : log'[i] = log[i]
  PROVE  AckInv'
  BY DEF AckInv, Kept, Spoilt

\* A step that leaves the file alone keeps it too.
LEMMA AckFile ==
  ASSUME AckInv, TypeInv', Whole', UNCHANGED <<log, synced, acked>>
  PROVE  AckInv'
  BY DEF AckInv, Kept, Spoilt, OpenIsLast

LEMMA AckInit == Init => AckInv
<1> SUFFICES ASSUME Init PROVE AckInv
  OBVIOUS
<1>1. TypeInv
  BY TypeInit
<1>2. Len(log) = 0
  BY EmptySeq DEF Init
<1> QED
  BY <1>1, <1>2 DEF Init, AckInv, Whole, OpenIsLast, Kept

\* Writers that start no append hold no new line.
LEMMA WholeQuiet ==
  ASSUME AckInv, NEW w \in Writers,
         \A u \in Writers \ {w} : pc'[u] = pc[u] /\ pend'[u] = pend[u],
         pc'[w] = "writing" => pend'[w].end = "nl"
  PROVE  Whole'
  BY DEF AckInv, Whole

\* A write that is acknowledged is the last line, on stable storage; if it was
\* glued to an open one, the file is spoilt.
LEMMA AckWritten ==
  ASSUME AckInv, TypeInv', NEW w \in Writers, FinishWrite(w)
  PROVE  AckInv'
<1>1. /\ pc[w] = "writing" /\ log' = LogWith(w, "nl") /\ synced' = Len(log')
      /\ acked' = acked \cup {pend[w]}
      /\ pc' = [pc EXCEPT ![w] = "open"] /\ pend' = [pend EXCEPT ![w] = NoLine]
  BY DEF FinishWrite, Goto
<1>2. pc \in [Writers -> PCs] /\ pend \in [Writers -> Line \cup {NoLine}] /\ synced \in 0..Len(log)
      /\ Len(log) \in Nat
  BY LenProperties DEF AckInv, TypeInv, TypeOK
<1>3. Whole'
  BY <1>1, <1>2, WholeQuiet
<1>4. /\ Len(log') \in Nat \ {0} /\ Len(log') >= Len(log)
      /\ \A i \in 1..synced : log'[i] = log[i]
      /\ \A i \in 1..Len(log') : log'[i].end # "open"
      /\ log'[Len(log')] = pend[w] \/ log'[Len(log')].end = "bad"
  BY <1>1, Written, EndsType
<1>5. OpenIsLast'
  BY <1>4 DEF OpenIsLast
<1>6. Kept'
  <2>1. Len(log') \in 1..synced' /\ \A i \in 1..synced : i \in 1..synced'
    BY <1>1, <1>2, <1>4
  <2>2. CASE Spoilt \/ log'[Len(log')].end = "bad"
    BY <1>4, <2>1, <2>2 DEF Kept, Spoilt
  <2>3. CASE ~Spoilt /\ log'[Len(log')] = pend[w]
    BY <1>1, <1>4, <2>1, <2>3 DEF AckInv, Kept
  <2> QED
    BY <1>4, <2>2, <2>3
<1> QED
  BY <1>3, <1>5, <1>6 DEF AckInv

LEMMA AckStep == AckInv /\ [Next]_vars => AckInv'
<1> SUFFICES ASSUME AckInv, [Next]_vars PROVE AckInv'
  OBVIOUS
<1>1. TypeInv'
  BY TypeStep DEF AckInv
<1>2. /\ pc \in [Writers -> PCs] /\ pend \in [Writers -> Line \cup {NoLine}]
      /\ synced \in 0..Len(log) /\ log \in Seq(Line) /\ Len(log) \in Nat
  BY LenProperties DEF AckInv, TypeInv, TypeOK
<1>3. CASE UNCHANGED vars
  BY <1>1, <1>3, AckFile DEF vars, AckInv, Whole
<1>4. CASE ClockMoves
  BY <1>1, <1>4, AckFile DEF ClockMoves, disk, hist, AckInv, Whole
<1>5. CASE PowerLoss
  <2>1. PICK n \in synced..Len(log) : log' = SubSeq(log, 1, n)
    BY <1>5 DEF PowerLoss
  <2>2. Len(log') = n /\ \A i \in 1..n : log'[i] = log[i]
    BY <1>2, <2>1, SubSeqProperties
  <2>3. synced' = synced /\ acked' = acked /\ Whole'
    BY <1>5 DEF PowerLoss, hist, Whole
  <2>4. OpenIsLast'
    BY <1>2, <2>2, <2>3 DEF AckInv, OpenIsLast
  <2> QED
    BY <1>1, <1>2, <2>2, <2>3, <2>4, AckQuiet
<1>6. ASSUME NEW w \in Writers, Step(w) PROVE AckInv'
  <2>1. ASSUME UNCHANGED <<log, synced, acked>>, UNCHANGED pend,
               \A u \in Writers : pc'[u] = "writing" => pc[u] = "writing"
        PROVE  AckInv'
    BY <1>1, <2>1, AckFile DEF AckInv, Whole
  <2>2. ASSUME Forget(w) PROVE Whole'
    BY <1>2, <2>2, WholeQuiet DEF Forget
  <2>3. ASSUME NEW op, NEW intent, NEW state, StartWrite(w, op, intent, state) PROVE AckInv'
    <3>1. /\ pend' = [pend EXCEPT ![w] =
                [body |-> [op |-> op, intent |-> intent, state |-> state,
                           fence |-> me[w].fence, seq |-> Len(mem[w]) + 1],
                 prev |-> mem[w], end |-> "nl"]]
          /\ pc' = [pc EXCEPT ![w] = "writing"]
          /\ UNCHANGED <<log, synced, acked>>
      BY <2>3 DEF StartWrite, Goto, disk, hist
    <3>2. Whole'
      BY <1>2, <3>1, WholeQuiet
    <3> QED
      BY <1>1, <3>1, <3>2, AckFile
  <2>4. ASSUME pc[w] = "writing", NEW end \in Ends, log' = LogWith(w, end), Whole',
               synced' = synced, acked' = acked
        PROVE  AckInv'
    <3>1. OpenIsLast'
      BY <2>4, Written DEF OpenIsLast
    <3> QED
      BY <1>1, <2>4, <3>1, Written, AckQuiet
  <2>5. CASE Acquire(w)
    BY <1>2, <2>1, <2>5 DEF Acquire, Goto, disk, hist
  <2>6. CASE ReadFence(w)
    BY <1>2, <2>1, <2>6 DEF ReadFence, Goto, disk, hist
  <2>7. CASE WriteLease(w)
    BY <1>2, <2>1, <2>7 DEF WriteLease, Goto, disk, hist
  <2>8. CASE ProveLease(w)
    BY <1>2, <2>1, <2>8 DEF ProveLease, Goto, disk, hist
  <2>9. CASE StampMetadata(w)
    BY <1>2, <2>1, <2>9 DEF StampMetadata, Goto, disk, hist
  <2>10. CASE Inspect(w)
    BY <1>2, <2>1, <2>10 DEF Inspect, Goto, disk, hist
  <2>11. CASE FinishOpen(w)
    BY <1>2, <2>1, <2>11 DEF FinishOpen, Goto, disk, hist
  <2>12. CASE OpenFails(w)
    BY <1>1, <2>2, <2>12, AckFile DEF OpenFails, hist
  <2>13. CASE ObserveExpiry(w)
    BY <2>1, <2>13 DEF ObserveExpiry, disk, hist
  <2>14. CASE StartRenew(w)
    BY <1>2, <2>1, <2>14 DEF StartRenew, Goto, disk, hist
  <2>15. CASE FinishRenew(w)
    BY <1>2, <2>1, <2>15 DEF FinishRenew, Goto, disk, hist
  <2>16. CASE \E op \in Ops, intent \in Intents : AppendIntent(w, op, intent)
    BY <2>3, <2>16 DEF AppendIntent
  <2>17. CASE \E op \in Ops, state \in States : Transition(w, op, state)
    BY <2>3, <2>17 DEF Transition
  <2>18. CASE FinishWrite(w)
    BY <1>1, <2>18, AckWritten
  <2>19. CASE WriteThrows(w)
    <3>1. Whole'
      BY <1>2, <2>19, WholeQuiet DEF WriteThrows, Goto
    <3>2. CASE UNCHANGED log
      BY <1>1, <2>19, <3>1, <3>2, AckFile DEF WriteThrows, hist
    <3>3. CASE \E end \in Ends : log' = LogWith(w, end)
      BY <2>4, <2>19, <3>1, <3>3 DEF WriteThrows, hist
    <3> QED
      BY <2>19, <3>2, <3>3 DEF WriteThrows
  <2>20. CASE Close(w)
    BY <1>1, <2>2, <2>20, AckFile DEF Close, hist
  <2>21. CASE Crash(w)
    <3>1. CASE UNCHANGED log
      BY <1>1, <2>2, <2>21, <3>1, AckFile DEF Crash, hist
    <3>2. CASE pc[w] = "writing" /\ \E end \in Ends : log' = LogWith(w, end)
      BY <2>2, <2>4, <2>21, <3>2 DEF Crash, hist
    <3> QED
      BY <2>21, <3>1, <3>2 DEF Crash
  <2>22. CASE HelperDies(w)
    BY <2>1, <2>22 DEF HelperDies, disk, hist
  <2> QED
    BY <1>6, <2>5, <2>6, <2>7, <2>8, <2>9, <2>10, <2>11, <2>12, <2>13, <2>14, <2>15, <2>16, <2>17,
       <2>18, <2>19, <2>20, <2>21, <2>22 DEF Step
<1> QED
  BY <1>3, <1>4, <1>5, <1>6 DEF Next

\* In a file that inspection accepts, no line is spoilt, so what was acknowledged
\* is in it.
LEMMA CleanIsKept ==
  ASSUME AckInv, Clean(log, meta)
  PROVE  \A l \in acked : \E i \in 1..Len(log) : log[i] = l
<1>1. synced \in 0..Len(log) /\ Len(log) \in Nat
  BY LenProperties DEF AckInv, TypeInv, TypeOK
<1>2. ~Spoilt
  <2>1. \A i \in 1..synced : i \in 1..Len(log)
    BY <1>1
  <2>2. \A i \in 1..Len(log) : log[i].end # "bad"
    BY DEF Clean, GoodLine
  <2> QED
    BY <2>1, <2>2 DEF Spoilt
<1> QED
  BY <1>1, <1>2 DEF AckInv, Kept

\* Under every fault - torn lines, a killed lock helper with stale writers after it,
\* power losses - a journal that inspection accepts holds every record whose append
\* returned to its caller (#appendRecord, inspectSyncJournal).
THEOREM AcknowledgedSurvives == Spec => []AckedSurvives
<1>1. AckInv => AckedSurvives
  BY CleanIsKept DEF AckedSurvives
<1> QED
  BY AckInit, AckStep, <1>1, PTL DEF Spec

-----------------------------------------------------------------------------
(* Histories                                                               *)

\* The records r follow one another by the rules of the journal.
Lawful(r) == \A i \in 1..Len(r) : r[i].seq = i /\ Follows(r, i - 1, r[i])

\* b may be appended to the records r by a writer of fence f.
Continues(b, r, f) == b.seq = Len(r) + 1 /\ b.fence = f /\ Follows(r, Len(r), b)

\* The view r of a writer that has inspected the file: what was acknowledged is in it,
\* and no fence in it is above the metadata's.
FullView(r, a, f) ==
  /\ \A i \in 1..Len(r) : r[i].fence <= f
  /\ \A l \in a : \E i \in 1..Len(r) : r[i] = l.body

Viewing == {"inspected"} \cup Working

HistoryInv ==
  /\ AckInv
  /\ OwnerAlone
  /\ FenceStamped
  /\ \A w \in Writers : Lawful(mem[w])
  /\ \A w \in Writers : pc[w] \in Viewing => FullView(mem[w], acked, meta)
  /\ \A w \in Writers : pc[w] = "writing" => Continues(pend[w].body, mem[w], meta)

\* A lawful record keeps records lawful.
LEMMA LawfulAppend ==
  ASSUME NEW r \in Seq(Body), NEW b \in Body, Lawful(r), b.seq = Len(r) + 1,
         Follows(r, Len(r), b)
  PROVE  Lawful(Append(r, b))
<1> DEFINE m == Append(r, b)
<1>1. /\ Len(r) \in Nat /\ Len(m) = Len(r) + 1 /\ m[Len(r) + 1] = b
      /\ \A i \in 1..Len(r) : m[i] = r[i]
  BY LenProperties
<1> HIDE DEF m
<1>2. ASSUME NEW i \in 1..Len(r) PROVE m[i].seq = i /\ Follows(m, i - 1, m[i])
  <2>1. i - 1 \in Nat /\ \A j \in 1..(i - 1) : r[j] = m[j]
    BY <1>1
  <2>2. Follows(r, i - 1, r[i]) /\ r[i].seq = i /\ m[i] = r[i]
    BY <1>1 DEF Lawful
  <2> QED
    BY <2>1, <2>2, FollowsAgree
<1>3. Follows(m, Len(r), b)
  BY <1>1, FollowsAgree
<1>4. (Len(r) + 1) - 1 = Len(r)
  BY <1>1
<1>5. Lawful(m)
  BY <1>1, <1>2, <1>3, <1>4 DEF Lawful
<1> QED
  BY <1>5 DEF m

\* What inspection accepted is lawful and no fence in it is above the metadata's.
LEMMA LawfulClean ==
  ASSUME NEW l \in Seq(Line), NEW f \in Nat, Clean(l, f)
  PROVE  Lawful(Bodies(l)) /\ \A i \in 1..Len(Bodies(l)) : Bodies(l)[i].fence <= f
<1> DEFINE r == Bodies(l)
<1>1. Len(l) \in Nat /\ Len(r) = Len(l) /\ \A i \in 1..Len(l) : r[i] = l[i].body
  BY BodiesType, LenProperties
<1> HIDE DEF r
<1>2. ASSUME NEW i \in 1..Len(l)
      PROVE  r[i].seq = i /\ r[i].fence <= f /\ Follows(r, i - 1, r[i])
  <2>1. GoodLine(l, f, i)
    BY DEF Clean
  <2>2. i - 1 \in Nat /\ \A j \in 1..(i - 1) : l[i].prev[j] = r[j]
    BY <1>1, <2>1 DEF GoodLine
  <2>3. Follows(l[i].prev, i - 1, r[i])
    BY <1>1, <2>1 DEF GoodLine
  <2>4. Follows(r, i - 1, r[i])
    BY <2>2, <2>3, FollowsAgree
  <2> QED
    BY <1>1, <2>1, <2>4 DEF GoodLine
<1>3. Lawful(r) /\ \A i \in 1..Len(r) : r[i].fence <= f
  BY <1>1, <1>2 DEF Lawful
<1> QED
  BY <1>3 DEF r

LEMMA HistoryInit == Init => HistoryInv
<1> SUFFICES ASSUME Init PROVE HistoryInv
  OBVIOUS
<1>1. \A w \in Writers : Len(mem[w]) = 0
  BY EmptySeq DEF Init
<1> QED
  BY <1>1, AckInit DEF Init, HistoryInv, OwnerAlone, FenceStamped, Lawful, Viewing, Working

\* While only its holder frees the lock, a step of one writer finds the others idle.
LEMMA OthersRest ==
  ASSUME HistoryInv, NEW w \in Writers, lock \in {w, NoOne}
  PROVE  \A u \in Writers \ {w} : pc[u] = "idle"
  BY JournalAssumption DEF HistoryInv, OwnerAlone

\* So it concerns its own conditions only.
LEMMA HistoryOfOne ==
  ASSUME HistoryInv, AckInv', OwnerAlone', NEW w \in Writers,
         \A u \in Writers \ {w} : pc'[u] = "idle" /\ Lawful(mem'[u]),
         pc'[w] \in {"stamped"} \cup Viewing => me'[w].fence = meta',
         Lawful(mem'[w]),
         pc'[w] \in Viewing => FullView(mem'[w], acked', meta'),
         pc'[w] = "writing" => Continues(pend'[w].body, mem'[w], meta')
  PROVE  HistoryInv'
<1>1. FenceStamped'
  BY DEF FenceStamped, Viewing, Working
<1>2. \A u \in Writers : Lawful(mem[u])'
  OBVIOUS
<1>3. \A u \in Writers : (pc[u] \in Viewing => FullView(mem[u], acked, meta))'
  BY DEF Viewing, Working
<1>4. \A u \in Writers : (pc[u] = "writing" => Continues(pend[u].body, mem[u], meta))'
  OBVIOUS
<1> QED
  BY <1>1, <1>2, <1>3, <1>4 DEF HistoryInv

\* A step of one writer that leaves its records, what was acknowledged and the
\* metadata alone.
LEMMA HistoryMoves ==
  ASSUME HistoryInv, AckInv', NEW w \in Writers, lock \in {w, NoOne}, lock' = w,
         \A u \in Writers \ {w} : pc'[u] = pc[u],
         UNCHANGED <<mem, acked, meta>>,
         pc'[w] \in {"stamped"} \cup Viewing => me'[w].fence = me[w].fence,
         pc'[w] \in {"stamped"} \cup Viewing => pc[w] \in {"stamped"} \cup Viewing,
         pc'[w] \in Viewing => pc[w] \in Viewing,
         pc'[w] = "writing" => Continues(pend'[w].body, mem[w], meta)
  PROVE  HistoryInv'
<1>1. \A u \in Writers \ {w} : pc'[u] = "idle" /\ Lawful(mem'[u])
  BY OthersRest DEF HistoryInv
<1>2. OwnerAlone'
  BY <1>1 DEF OwnerAlone
<1>3. pc'[w] \in {"stamped"} \cup Viewing => me'[w].fence = meta'
  BY DEF HistoryInv, FenceStamped, Viewing, Working
<1>4. Lawful(mem'[w]) /\ (pc'[w] \in Viewing => FullView(mem'[w], acked', meta'))
  BY DEF HistoryInv
<1> QED
  BY <1>1, <1>2, <1>3, <1>4, HistoryOfOne

\* A process that lets go of the journal is idle, as the others are.
LEMMA HistoryForget ==
  ASSUME HistoryInv, AckInv', NEW w \in Writers, pc[w] # "idle", Forget(w)
  PROVE  HistoryInv'
<1>1. pc \in [Writers -> PCs] /\ mem \in [Writers -> Seq(Body)] /\ lock = w
  BY DEF HistoryInv, AckInv, TypeInv, TypeOK, OwnerAlone
<1>2. pc'[w] = "idle" /\ \A u \in Writers \ {w} : pc'[u] = pc[u]
  BY <1>1 DEF Forget
<1>3. mem'[w] = << >> /\ \A u \in Writers \ {w} : mem'[u] = mem[u]
  BY <1>1 DEF Forget
<1>4. Lawful(<< >>)
  BY EmptySeq DEF Lawful
<1>5. \A u \in Writers \ {w} : pc'[u] = "idle" /\ Lawful(mem'[u])
  BY <1>1, <1>2, <1>3, OthersRest DEF HistoryInv
<1>6. OwnerAlone'
  BY <1>2, <1>5 DEF OwnerAlone
<1> QED
  BY <1>2, <1>3, <1>4, <1>5, <1>6, HistoryOfOne DEF Viewing, Working

\* An append starts with a record that continues the writer's own.
LEMMA HistoryStartWrite ==
  ASSUME HistoryInv, AckInv', NEW w \in Writers, NEW op, NEW intent, NEW state, pc[w] = "open",
         StartWrite(w, op, intent, state),
         \A b : b.op = op /\ b.intent = intent /\ b.state = state /\ b.fence = meta
                  => Follows(mem[w], Len(mem[w]), b)
  PROVE  HistoryInv'
<1>1. /\ pc \in [Writers -> PCs] /\ me \in [Writers -> Me] /\ lock = w
      /\ pend \in [Writers -> Line \cup {NoLine}] /\ me[w].fence = meta
  BY DEF HistoryInv, AckInv, TypeInv, TypeOK, OwnerAlone, FenceStamped, Working
<1>2. /\ pc' = [pc EXCEPT ![w] = "writing"] /\ me' = [me EXCEPT ![w].last = now]
      /\ UNCHANGED <<lock, mem, acked, meta>>
  BY DEF StartWrite, Goto, ReadClock, disk, hist
<1>3. me'[w].fence = me[w].fence
  BY <1>1, <1>2 DEF Me
<1>4. pend'[w].body = [op |-> op, intent |-> intent, state |-> state, fence |-> me[w].fence,
                       seq |-> Len(mem[w]) + 1]
  BY <1>1 DEF StartWrite
<1>5. Continues(pend'[w].body, mem[w], meta)
  BY <1>1, <1>4 DEF Continues
<1> QED
  BY <1>1, <1>2, <1>3, <1>5, HistoryMoves DEF Viewing, Working

\* The record that was written joins the writer's own.
LEMMA HistoryWritten ==
  ASSUME HistoryInv, AckInv', NEW w \in Writers, FinishWrite(w)
  PROVE  HistoryInv'
<1>1. /\ pc[w] = "writing" /\ pc' = [pc EXCEPT ![w] = "open"] /\ UNCHANGED <<lock, meta, me>>
      /\ mem' = [mem EXCEPT ![w] = Append(mem[w], pend[w].body)] /\ acked' = acked \cup {pend[w]}
  BY DEF FinishWrite, Goto
<1>2. /\ pc \in [Writers -> PCs] /\ mem \in [Writers -> Seq(Body)] /\ lock = w
      /\ mem[w] \in Seq(Body) /\ pend[w] \in Line /\ me[w].fence = meta /\ meta \in Nat
  BY <1>1 DEF HistoryInv, AckInv, TypeInv, TypeOK, WritingHasLine, OwnerAlone, FenceStamped, Working
<1> DEFINE b == pend[w].body
           m == Append(mem[w], b)
<1>3. b \in Body /\ Continues(b, mem[w], meta) /\ Lawful(mem[w]) /\ FullView(mem[w], acked, meta)
  BY <1>1, <1>2 DEF HistoryInv, Line, Viewing, Working
<1>4. Lawful(m)
  BY <1>2, <1>3, LawfulAppend DEF Continues
<1>5. /\ Len(mem[w]) \in Nat /\ Len(m) = Len(mem[w]) + 1 /\ m[Len(mem[w]) + 1] = b
      /\ \A i \in 1..Len(mem[w]) : m[i] = mem[w][i]
  BY <1>2, <1>3, LenProperties
<1>6. FullView(m, acked', meta)
  <2> HIDE DEF m
  <2>1. ASSUME NEW i \in 1..Len(m) PROVE m[i].fence <= meta
    <3>1. CASE i \in 1..Len(mem[w])
      BY <1>3, <1>5, <3>1 DEF FullView
    <3>2. CASE i = Len(mem[w]) + 1
      BY <1>2, <1>3, <1>5, <3>2 DEF Continues
    <3> QED
      BY <1>5, <3>1, <3>2
  <2>2. \A l \in acked' : \E i \in 1..Len(m) : m[i] = l.body
    BY <1>1, <1>3, <1>5 DEF FullView
  <2> QED
    BY <2>1, <2>2 DEF FullView
<1>7. mem'[w] = m /\ \A u \in Writers \ {w} : mem'[u] = mem[u]
  BY <1>1, <1>2
<1> HIDE DEF m
<1>8. pc'[w] = "open" /\ \A u \in Writers \ {w} : pc'[u] = "idle" /\ Lawful(mem'[u])
  BY <1>1, <1>2, <1>7, OthersRest DEF HistoryInv
<1>9. OwnerAlone'
  BY <1>1, <1>2, <1>8 DEF OwnerAlone
<1> QED
  BY <1>1, <1>2, <1>4, <1>6, <1>7, <1>8, <1>9, HistoryOfOne

\* An open that inspects the file takes its records over.
LEMMA HistoryInspect ==
  ASSUME HistoryInv, AckInv', NEW w \in Writers, Inspect(w)
  PROVE  HistoryInv'
<1>1. /\ pc[w] = "stamped" /\ pc' = [pc EXCEPT ![w] = "inspected"] /\ Clean(log, meta)
      /\ UNCHANGED <<lock, meta, me, acked>> /\ mem' = [mem EXCEPT ![w] = Bodies(log)]
  BY DEF Inspect, Goto, disk, hist
<1>2. /\ pc \in [Writers -> PCs] /\ mem \in [Writers -> Seq(Body)] /\ lock = w
      /\ log \in Seq(Line) /\ me[w].fence = meta /\ meta \in Nat
  BY <1>1 DEF HistoryInv, AckInv, TypeInv, TypeOK, OwnerAlone, FenceStamped
<1>3. Lawful(Bodies(log)) /\ \A i \in 1..Len(Bodies(log)) : Bodies(log)[i].fence <= meta
  BY <1>1, <1>2, LawfulClean
<1>4. \A l \in acked : \E i \in 1..Len(Bodies(log)) : Bodies(log)[i] = l.body
  BY <1>1, <1>2, BodiesType, CleanIsKept DEF HistoryInv
<1>5. FullView(Bodies(log), acked, meta)
  BY <1>3, <1>4 DEF FullView
<1>6. mem'[w] = Bodies(log) /\ \A u \in Writers \ {w} : mem'[u] = mem[u]
  BY <1>1, <1>2
<1>7. pc'[w] = "inspected" /\ \A u \in Writers \ {w} : pc'[u] = "idle" /\ Lawful(mem'[u])
  BY <1>1, <1>2, <1>6, OthersRest DEF HistoryInv
<1>8. OwnerAlone'
  BY <1>1, <1>2, <1>7 DEF OwnerAlone
<1> QED
  BY <1>1, <1>2, <1>3, <1>5, <1>6, <1>7, <1>8, HistoryOfOne

LEMMA HistoryStep ==
  ASSUME "helper" \notin Faults, HistoryInv, [Next]_vars
  PROVE  HistoryInv'
<1>1. AckInv'
  BY AckStep DEF HistoryInv
<1>2. /\ pc \in [Writers -> PCs] /\ me \in [Writers -> Me]
      /\ mem \in [Writers -> Seq(Body)] /\ meta \in Nat
  BY DEF HistoryInv, AckInv, TypeInv, TypeOK
<1>3. CASE UNCHANGED vars
  BY <1>1, <1>3 DEF HistoryInv, OwnerAlone, FenceStamped, vars
<1>4. CASE ClockMoves
  BY <1>1, <1>4 DEF ClockMoves, disk, hist, HistoryInv, OwnerAlone, FenceStamped
<1>5. CASE PowerLoss
  <2>1. \A w \in Writers : pc'[w] = "idle" /\ Len(mem'[w]) = 0
    BY <1>5, EmptySeq DEF PowerLoss
  <2> QED
    BY <1>1, <2>1 DEF HistoryInv, OwnerAlone, FenceStamped, Lawful, Viewing, Working
<1>6. ASSUME NEW w \in Writers, Step(w) PROVE HistoryInv'
  <2>1. pc[w] # "idle" => lock = w
    BY DEF HistoryInv, OwnerAlone
  <2>2. me[w] \in Me
    BY <1>2
  <2>3. pc[w] = "open" => \A i \in 1..Len(mem[w]) : mem[w][i].fence <= meta
    BY DEF HistoryInv, FullView, Viewing, Working
  <2>4. Len(mem[w]) \in Nat
    BY <1>2, LenProperties
  <2>5. CASE Acquire(w)
    BY <1>1, <1>2, <2>5, HistoryMoves DEF Acquire, Goto, disk, hist, Viewing, Working
  <2>6. CASE ReadFence(w)
    BY <1>1, <1>2, <2>6, HistoryMoves DEF ReadFence, Goto, disk, hist, Viewing, Working
  <2>7. CASE WriteLease(w)
    BY <1>1, <1>2, <2>1, <2>7, HistoryMoves DEF WriteLease, Goto, disk, hist, Viewing, Working
  <2>8. CASE ProveLease(w)
    BY <1>1, <1>2, <2>1, <2>8, HistoryMoves DEF ProveLease, Goto, disk, hist, Viewing, Working
  <2>9. CASE StampMetadata(w)
    <3>1. /\ pc[w] = "proved" /\ pc' = [pc EXCEPT ![w] = "stamped"] /\ meta' = me[w].fence
          /\ UNCHANGED <<lock, me, mem, acked>>
      BY <2>9 DEF StampMetadata, Goto, hist
    <3>2. pc'[w] = "stamped" /\ \A u \in Writers \ {w} : pc'[u] = "idle" /\ Lawful(mem'[u])
      BY <1>2, <2>1, <3>1, OthersRest DEF HistoryInv
    <3>3. OwnerAlone'
      BY <2>1, <3>1, <3>2 DEF OwnerAlone
    <3>4. Lawful(mem'[w])
      BY <3>1 DEF HistoryInv
    <3> QED
      BY <1>1, <3>1, <3>2, <3>3, <3>4, HistoryOfOne DEF Viewing, Working
  <2>10. CASE Inspect(w)
    BY <1>1, <2>10, HistoryInspect
  <2>11. CASE FinishOpen(w)
    <3>1. /\ pc[w] = "inspected" /\ pc' = [pc EXCEPT ![w] = "open"]
          /\ me' = [me EXCEPT ![w].last = now] /\ UNCHANGED <<lock, mem, acked, meta>>
      BY <2>11 DEF FinishOpen, Goto, disk
    <3>2. me'[w].fence = me[w].fence
      BY <1>2, <2>2, <3>1 DEF Me
    <3> QED
      BY <1>1, <1>2, <2>1, <3>1, <3>2, HistoryMoves DEF Viewing, Working
  <2>12. CASE OpenFails(w) \/ Close(w) \/ Crash(w)
    BY <1>1, <2>12, HistoryForget DEF OpenFails, Close, Crash, Opening
  <2>13. CASE ObserveExpiry(w) \/ StartRenew(w) \/ FinishRenew(w)
    <3>1. /\ pc[w] \in {"open", "renewing"} /\ pc'[w] \in {"open", "renewing"}
          /\ \A u \in Writers \ {w} : pc'[u] = pc[u]
          /\ UNCHANGED <<lock, mem, acked, meta>>
      BY <1>2, <2>13 DEF ObserveExpiry, StartRenew, FinishRenew, Goto, disk, hist
    <3>2. me' = [me EXCEPT ![w].last = now] \/ me' = me
      BY <2>13 DEF ObserveExpiry, StartRenew, FinishRenew, ReadClock
    <3>3. me'[w].fence = me[w].fence
      BY <1>2, <2>2, <3>2 DEF Me
    <3> QED
      BY <1>1, <2>1, <3>1, <3>3, HistoryMoves DEF Viewing, Working
  <2>14. CASE \E op \in Ops, intent \in Intents : AppendIntent(w, op, intent)
    <3>1. PICK op \in Ops, intent \in Intents : AppendIntent(w, op, intent)
      BY <2>14
    <3>2. /\ pc[w] = "open" /\ ~Knows(mem[w], Len(mem[w]), op)
          /\ StartWrite(w, op, intent, "queued")
      BY <3>1 DEF AppendIntent
    <3>3. \A b : b.op = op /\ b.intent = intent /\ b.state = "queued" /\ b.fence = meta
                 => Follows(mem[w], Len(mem[w]), b)
      BY <2>3, <2>4, <3>2, NewFollows
    <3> QED
      BY <1>1, <3>2, <3>3, HistoryStartWrite
  <2>15. CASE \E op \in Ops, state \in States : Transition(w, op, state)
    <3>1. PICK op \in Ops, state \in States : Transition(w, op, state)
      BY <2>15
    <3>2. PICK j \in 1..Len(mem[w]) :
             /\ LatestAt(mem[w], Len(mem[w]), op, j)
             /\ allowedTransition(mem[w][j].state, state)
             /\ StartWrite(w, op, mem[w][j].intent, state)
      BY <3>1 DEF Transition
    <3>3. pc[w] = "open"
      BY <3>1 DEF Transition
    <3>4. \A b : b.op = op /\ b.intent = mem[w][j].intent /\ b.state = state /\ b.fence = meta
                 => Follows(mem[w], Len(mem[w]), b)
      BY <2>3, <2>4, <3>2, <3>3, NextFollows
    <3> QED
      BY <1>1, <3>2, <3>3, <3>4, HistoryStartWrite
  <2>16. CASE FinishWrite(w)
    BY <1>1, <2>16, HistoryWritten
  <2>17. CASE WriteThrows(w)
    <3>1. /\ pc[w] = "writing" /\ pc' = [pc EXCEPT ![w] = "open"]
          /\ UNCHANGED <<lock, me, mem, acked, meta>>
      BY <2>17 DEF WriteThrows, Goto, hist
    <3> QED
      BY <1>1, <1>2, <2>1, <3>1, HistoryMoves DEF Viewing, Working
  <2>18. CASE HelperDies(w)
    BY <2>18 DEF HelperDies
  <2> QED
    BY <1>6, <2>5, <2>6, <2>7, <2>8, <2>9, <2>10, <2>11, <2>12, <2>13, <2>14, <2>15, <2>16, <2>17,
       <2>18 DEF Step
<1> QED
  BY <1>3, <1>4, <1>5, <1>6 DEF Next

LEMMA HistoriesHold ==
  ASSUME "helper" \notin Faults
  PROVE  Spec => []HistoryInv
<1>1. HistoryInv /\ [Next]_vars => HistoryInv'
  BY HistoryStep
<1> QED
  BY HistoryInit, <1>1, PTL DEF Spec

\* As long as nothing frees the kernel lock under its holder, every writer decides
\* from records in which an operation id stands for one intent and its states follow
\* the transition table (append, transition, inspectSyncJournal), whatever writes were
\* torn, whichever processes died and however often the host lost power.
THEOREM HistoriesFollowTheTable ==
  ASSUME "helper" \notin Faults
  PROVE  Spec => []HistoriesLawful
<1>1. HistoryInv => HistoriesLawful
  BY DEF HistoryInv, HistoriesLawful, Lawful
<1> QED
  BY HistoriesHold, <1>1, PTL

\* And the writer that has the journal open sees every record that was ever
\* acknowledged, so what a former process may have sent is never sent blindly.
THEOREM OwnersSeeAcknowledged ==
  ASSUME "helper" \notin Faults
  PROVE  Spec => []OwnerSeesAcked
<1>1. HistoryInv => OwnerSeesAcked
  BY DEF HistoryInv, FullView, OwnerSeesAcked, Viewing
<1> QED
  BY HistoriesHold, <1>1, PTL

=============================================================================
