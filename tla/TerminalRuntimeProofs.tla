------------------------ MODULE TerminalRuntimeProofs ------------------------
(***************************************************************************)
(* Proofs about TerminalRuntime for any keys, attachments, epochs and      *)
(* faults: a key lands at most once, in the order typed and on the         *)
(* attachment it was typed at, and a batch that is called complete was     *)
(* accepted; and a host that follows the protocol is never refused, the    *)
(* screen is a view from its first frame on, and nothing that was opened   *)
(* for an attachment is left behind.                                       *)
(***************************************************************************)
EXTENDS TerminalRuntime, SequenceTheorems, FiniteSetTheorems, TLAPS

-----------------------------------------------------------------------------
(* The keys on their way to the gateway *)

Input == [t : {"input"}, seq : Nat, key : Key]
Message == [t : {"resume"}] \cup Input
Downstream == [t : {"view_started", "exit"}]
               \cup [t : {"output", "view_ready", "acknowledgement"}, n : Nat]
               \cup [t : {"writer_epoch"}, epoch : Nat, mode : {"writer", "observer"}, holder : {Me, Other}]
               \cup [t : {"control_state"}, epoch : Nat]
KeyType(r) == /\ {"st", "fence"} \subseteq DOMAIN r /\ r.fence \in Nat
              /\ r.st \in {"untyped", "typed", "queued", "sent", "refused"}

Sent(k) == keys[k].st = "sent"
IsInput(i) == up[i].t = "input"
Accepted(k) == \E i \in DOMAIN srv.accepted : srv.accepted[i][1] = k
OnTheWire(k) == \E i \in DOMAIN up : IsInput(i) /\ up[i].key = k

KeyTypes ==
    /\ DOMAIN keys = Key /\ (\A k \in Key : KeyType(keys[k])) /\ tail \in Seq(Key) /\ up \in Seq(Message)
    /\ {"fence", "conn", "accepted", "viewN", "hist"} \subseteq DOMAIN srv
    /\ srv.accepted \in Seq(Key \X Nat) /\ srv.conn \in Nat /\ srv.fence \in Nat
    /\ srv.viewN \in Nat /\ srv.hist \in Seq({Me, Other})
    /\ down \in Seq(Downstream)

\* The send queue holds the queued keys, in the order typed.
QueueInOrder ==
    /\ \A i, j \in DOMAIN tail : i < j => tail[i] < tail[j]
    /\ \A k \in Key : keys[k].st = "queued" <=> \E i \in DOMAIN tail : tail[i] = k

\* A key is further than every key typed after it, unless it was refused.
KeysInOrder ==
    \A j, k \in Key :
        /\ keys[j].st = "untyped" /\ keys[k].st # "untyped" => k < j
        /\ keys[j].st = "typed" /\ keys[k].st \in {"queued", "sent"} => k < j
        /\ keys[j].st = "queued" /\ Sent(k) => k < j

\* What is on the wire was sent on this connection, after all that was accepted.
WireInOrder ==
    srv.conn # 0 =>
        /\ \A i \in DOMAIN up : IsInput(i) => Sent(up[i].key) /\ keys[up[i].key].fence = srv.conn
        /\ \A i, j \in DOMAIN up : IsInput(i) /\ IsInput(j) /\ i < j => up[i].key < up[j].key
        /\ \A i \in DOMAIN up, j \in DOMAIN srv.accepted : IsInput(i) => srv.accepted[j][1] < up[i].key

AcceptedWereSent == \A i \in DOMAIN srv.accepted : Sent(srv.accepted[i][1])

KeyInv == KeyTypes /\ QueueInOrder /\ KeysInOrder /\ WireInOrder /\ AcceptedWereSent /\ KeysLandOnce

-----------------------------------------------------------------------------
(* The terminal and the procedure that attaches it *)

Before == {"cancel", "admit", "grant", "ready", "commit"}

Fields == {"state", "rev", "fence", "wire", "pend", "hist", "cont", "view", "pump", "first"}

EntryInv ==
    /\ Fields \subseteq DOMAIN entry
    /\ entry.rev \in Nat /\ entry.fence \in Nat /\ entry.wire \in Nat /\ entry.first \in Nat /\ entry.pend \subseteq Nat
    /\ entry.hist \in BOOLEAN
    /\ IF entry.state = "none"
       THEN entry.rev = 0 /\ entry.first = 0 /\ entry.fence = 0 /\ entry.pend = {} /\ ~entry.hist /\ entry.cont = "none"
       ELSE entry.first # 0 /\ entry.first <= entry.fence
    /\ entry.state \in {"interrupted", "reconnecting"} => entry.pend = {}
    /\ entry.cont = "complete" => entry.pend = {} /\ ~entry.hist

\* Fences are granted one after the other.
FenceInv ==
    /\ srv.conn <= srv.fence /\ entry.fence <= srv.fence /\ proc.fence <= srv.fence
    /\ \A k \in Key : keys[k].fence <= srv.fence

NothingUnderWay ==
    /\ \A i \in DOMAIN up : ~IsInput(i)
    /\ \A i \in DOMAIN down : down[i].t # "acknowledgement"

ProcInv ==
    /\ {"kind", "ph", "fence", "rev"} \subseteq DOMAIN proc /\ proc.fence \in Nat
    /\ proc.kind = "none" <=> proc.ph = "none"
    /\ proc.kind \in {"none", "attach", "reconnect"}
    /\ proc.ph \in Before => entry.state # "active"
    /\ proc.ph = "commit" =>
          /\ srv.conn \in {0, proc.fence} /\ entry.fence < proc.fence
          /\ \A k \in Key : keys[k].fence < proc.fence
          /\ NothingUnderWay
    /\ proc.kind = "attach" /\ proc.ph \in Before => entry.state = "none"
    /\ proc.kind = "attach" => entry.fence \in {0, proc.fence}
    /\ proc.kind = "reconnect" => proc.rev # 0 /\ entry.pend = {} /\ (entry.state = "active" => entry.view = "none" /\ entry.pump = 0)

\* Only the connection of the entry carries input.
ConnInv ==
    /\ entry.state = "detached" => srv.conn # entry.fence
    /\ srv.conn \notin {0, entry.fence} => \A i \in DOMAIN up : ~IsInput(i)

-----------------------------------------------------------------------------
(* What acknowledgements say *)

Mine(k) == Sent(k) /\ keys[k].fence >= entry.first

\* While no input is uncertain: s is the wire sequence of each key.
Told(s) ==
    /\ \A k \in Key : Mine(k) => s[k] <= entry.wire /\ (Accepted(k) \/ s[k] \in entry.pend)
    /\ \A j, k \in Key : Mine(j) /\ Mine(k) /\ j # k => s[j] # s[k]
    /\ \A i \in DOMAIN down : down[i].t = "acknowledgement" =>
          /\ down[i].n <= entry.wire
          /\ \A k \in Key : Mine(k) /\ s[k] <= down[i].n => Accepted(k)
    /\ srv.conn = entry.fence =>
          /\ \A i \in DOMAIN up : IsInput(i) =>
                /\ s[up[i].key] = up[i].seq
                /\ \A k \in Key : Mine(k) /\ s[k] < up[i].seq =>
                      Accepted(k) \/ \E j \in DOMAIN up : j < i /\ IsInput(j) /\ up[j].key = k
          /\ \A k \in Key : Mine(k) => Accepted(k) \/ OnTheWire(k)

StoryInv == \E s \in [Key -> Nat] : entry.first # 0 /\ ~entry.hist => Told(s)

RuntimeInv == KeyInv /\ EntryInv /\ FenceInv /\ ProcInv /\ ConnInv /\ StoryInv

-----------------------------------------------------------------------------
(* The keys *)

LEMMA KeysAreNumbers == Key \subseteq Nat
BY RuntimeConstants DEF Key

\* A lost connection, a dropped queue and what happens to the terminal leave
\* the keys in order.
LEMMA KeysStayInOrder ==
    ASSUME KeyInv, UNCHANGED <<keys, tail>> \/ DropQueue,
           up' = up \/ up' = <<>>, srv'.accepted = srv.accepted,
           srv'.conn \in {srv.conn, 0}, KeyTypes'
    PROVE  KeyInv'
<1>. USE DEF KeyInv
<1>1. \A k \in Key : Sent(k)' <=> Sent(k)
  <2>1. CASE UNCHANGED <<keys, tail>>
    BY <2>1 DEF Sent
  <2>2. ASSUME DropQueue, NEW k \in Key
        PROVE  Sent(k)' <=> Sent(k)
    <3>1. keys'[k] = IF keys[k].st = "queued" THEN Refused ELSE keys[k]
      BY <2>2 DEF DropQueue
    <3>. QED  BY <3>1 DEF Sent, Refused
  <2>. QED  BY <2>1, <2>2
<1>2. \A k \in Key : Sent(k) => keys'[k].fence = keys[k].fence
  BY DEF KeyTypes, Sent, DropQueue
<1>3. \A i \in DOMAIN srv.accepted : srv.accepted[i][1] \in Key
  BY SMTT(30) DEF KeyTypes
<1>4. \A i \in DOMAIN up : IsInput(i) => up[i].key \in Key
  BY SMTT(30) DEF KeyTypes, IsInput, Message, Input
<1>5. QueueInOrder'
  <2>1. CASE UNCHANGED <<keys, tail>>
    BY <2>1 DEF QueueInOrder
  <2>2. CASE DropQueue
    BY <2>2 DEF KeyTypes, QueueInOrder, DropQueue, Refused
  <2>. QED  BY <2>1, <2>2
<1>6. KeysInOrder'
  <2>1. CASE UNCHANGED <<keys, tail>>
    BY <2>1 DEF KeysInOrder, Sent
  <2>2. CASE DropQueue
    <3>1. \A k \in Key : keys'[k].st \in {"untyped", "typed", "sent"} => keys[k].st = keys'[k].st
      BY <2>2 DEF KeyTypes, DropQueue, Refused
    <3>2. \A k \in Key : keys'[k].st # "queued"
      BY <2>2 DEF KeyTypes, DropQueue, Refused
    <3>3. \A k \in Key : keys'[k].st # "untyped" => keys[k].st # "untyped"
      BY <2>2 DEF KeyTypes, DropQueue, Refused
    <3>. QED  BY <3>1, <3>2, <3>3 DEF KeysInOrder, Sent
  <2>. QED  BY <2>1, <2>2
<1>7. WireInOrder'
  <2>1. CASE up' = up
    BY <2>1, <1>1, <1>2, <1>4 DEF WireInOrder, IsInput
  <2>2. CASE up' = <<>>
    BY <2>2 DEF WireInOrder
  <2>. QED  BY <2>1, <2>2
<1>8. AcceptedWereSent'
  BY <1>1, <1>3 DEF AcceptedWereSent
<1>9. KeysLandOnce'
  BY <1>2, <1>3 DEF AcceptedWereSent, KeysLandOnce
<1>. QED  BY <1>5, <1>6, <1>7, <1>8, <1>9

\* A key is typed after all that were typed.
LEMMA TypingKeepsOrder ==
    ASSUME KeyInv, EntryInv, NEW k \in Key, TypeKey(k), KeyTypes'
    PROVE  KeyInv'
<1>. USE DEF KeyInv
<1>1. keys[k].st = "untyped" /\ keys'[k].st = "typed" /\ \A j \in Key \ {k} : keys'[j] = keys[j]
  BY DEF TypeKey, KeyTypes, KeyType
<1>2. \A j \in Key : j < k => keys[j].st # "untyped"
  BY DEF TypeKey
<1>3. UNCHANGED <<tail, up, srv>>
  BY DEF TypeKey
<1>4. \A j \in Key : (Sent(j)' <=> Sent(j)) /\ (Sent(j) => keys'[j].fence = keys[j].fence)
  BY <1>1 DEF Sent
<1>5. \A i \in DOMAIN srv.accepted : srv.accepted[i][1] \in Key
  BY SMTT(30) DEF KeyTypes
<1>6. \A i \in DOMAIN up : IsInput(i) => up[i].key \in Key
  BY SMTT(30) DEF KeyTypes, IsInput, Message, Input
<1>7. QueueInOrder'
  BY <1>1, <1>3 DEF QueueInOrder
<1>8. KeysInOrder'
  <2>. SUFFICES ASSUME NEW i \in Key, NEW j \in Key
                PROVE  /\ keys'[i].st = "untyped" /\ keys'[j].st # "untyped" => j < i
                       /\ keys'[i].st = "typed" /\ keys'[j].st \in {"queued", "sent"} => j < i
                       /\ keys'[i].st = "queued" /\ keys'[j].st = "sent" => j < i
    BY DEF KeysInOrder, Sent
  <2>1. i \in Nat /\ j \in Nat /\ k \in Nat
    BY KeysAreNumbers
  <2>2. CASE i # k /\ j # k
    BY <2>2, <1>1 DEF KeysInOrder, Sent
  <2>3. CASE i = k
    BY <2>1, <2>3, <1>1 DEF KeysInOrder, Sent
  <2>4. CASE j = k /\ i # k
    BY <2>1, <2>4, <1>1, <1>2
  <2>. QED  BY <2>2, <2>3, <2>4
<1>9. WireInOrder'
  BY <1>3, <1>4, <1>6 DEF WireInOrder, IsInput
<1>10. AcceptedWereSent'
  BY <1>3, <1>4, <1>5 DEF AcceptedWereSent
<1>11. KeysLandOnce'
  BY <1>3, <1>4, <1>5 DEF AcceptedWereSent, KeysLandOnce
<1>. QED  BY <1>7, <1>8, <1>9, <1>10, <1>11

\* Keys are handed to the queue in the order typed.
LEMMA HandingKeepsOrder ==
    ASSUME KeyInv, NEW k \in Key, SendInput(k), KeyTypes'
    PROVE  KeyInv'
<1>. USE DEF KeyInv
<1>1. keys[k].st = "typed" /\ \A j \in Key \ {k} : keys'[j] = keys[j]
  BY DEF SendInput, KeyTypes
<1>2. \/ keys'[k].st = "queued" /\ tail' = Append(tail, k)
      \/ keys'[k].st = "refused" /\ tail' = tail
  BY DEF SendInput, KeyTypes, KeyType, Refused
<1>3. UNCHANGED <<up, srv>>
  BY DEF SendInput
<1>4. \A j \in Key : (Sent(j)' <=> Sent(j)) /\ (Sent(j) => keys'[j].fence = keys[j].fence)
  BY <1>1, <1>2 DEF Sent
<1>5. \A i \in DOMAIN srv.accepted : srv.accepted[i][1] \in Key
  BY SMTT(30) DEF KeyTypes
<1>6. \A i \in DOMAIN up : IsInput(i) => up[i].key \in Key
  BY SMTT(30) DEF KeyTypes, IsInput, Message, Input
<1>12. \A j \in Key : j < k => keys[j].st # "typed"
  BY DEF SendInput
<1>13. tail \in Seq(Key) /\ \A i \in DOMAIN tail : tail[i] \in Key /\ keys[tail[i]].st = "queued"
  BY SMTT(30) DEF KeyTypes, QueueInOrder
<1>14. \A i \in DOMAIN tail : tail[i] < k
  BY <1>1, <1>13 DEF KeysInOrder
<1>7. QueueInOrder'
  <2>1. CASE keys'[k].st = "queued" /\ tail' = Append(tail, k)
    <3>1. Len(tail) \in Nat /\ DOMAIN tail = 1..Len(tail) /\ DOMAIN tail' = 1..(Len(tail) + 1)
      BY <2>1, <1>13
    <3>2. tail'[Len(tail) + 1] = k /\ \A i \in DOMAIN tail : tail'[i] = tail[i]
      BY <2>1, <1>13, <3>1
    <3>3. \A i, j \in DOMAIN tail' : i < j => tail'[i] < tail'[j]
      <4>. SUFFICES ASSUME NEW i \in DOMAIN tail', NEW j \in DOMAIN tail', i < j
                    PROVE  tail'[i] < tail'[j]
        OBVIOUS
      <4>1. i \in DOMAIN tail
        BY <3>1
      <4>2. CASE j = Len(tail) + 1
        BY <4>1, <4>2, <3>2, <1>14
      <4>3. CASE j \in DOMAIN tail
        BY <4>1, <4>3, <3>2 DEF QueueInOrder
      <4>. QED  BY <4>2, <4>3, <3>1
    <3>4. ASSUME NEW j \in Key
          PROVE  keys'[j].st = "queued" <=> \E i \in DOMAIN tail' : tail'[i] = j
      <4>1. CASE j = k
        BY <4>1, <2>1, <3>1, <3>2
      <4>2. CASE j # k
        BY <4>2, <1>1, <3>1, <3>2 DEF QueueInOrder
      <4>. QED  BY <4>1, <4>2
    <3>. QED  BY <3>3, <3>4 DEF QueueInOrder
  <2>2. CASE keys'[k].st = "refused" /\ tail' = tail
    BY <2>2, <1>1, <1>13 DEF QueueInOrder
  <2>. QED  BY <1>2, <2>1, <2>2
<1>8. KeysInOrder'
  <2>. SUFFICES ASSUME NEW i \in Key, NEW j \in Key
                PROVE  /\ keys'[i].st = "untyped" /\ keys'[j].st # "untyped" => j < i
                       /\ keys'[i].st = "typed" /\ keys'[j].st \in {"queued", "sent"} => j < i
                       /\ keys'[i].st = "queued" /\ keys'[j].st = "sent" => j < i
    BY DEF KeysInOrder, Sent
  <2>1. i \in Nat /\ j \in Nat /\ k \in Nat
    BY KeysAreNumbers
  <2>2. CASE i # k /\ j # k
    BY <2>2, <1>1 DEF KeysInOrder, Sent
  <2>3. CASE i = k
    BY <2>1, <2>3, <1>1, <1>2 DEF KeysInOrder, Sent
  <2>4. CASE j = k /\ i # k
    BY <2>1, <2>4, <1>1, <1>2, <1>12 DEF KeysInOrder
  <2>. QED  BY <2>2, <2>3, <2>4
<1>9. WireInOrder'
  BY <1>3, <1>4, <1>6 DEF WireInOrder, IsInput
<1>10. AcceptedWereSent'
  BY <1>3, <1>4, <1>5 DEF AcceptedWereSent
<1>11. KeysLandOnce'
  BY <1>3, <1>4, <1>5 DEF AcceptedWereSent, KeysLandOnce
<1>. QED  BY <1>7, <1>8, <1>9, <1>10, <1>11

\* The head of the queue is the next key: it goes on the wire after all that
\* are there, or nowhere.
LEMMA SendingKeepsOrder ==
    ASSUME KeyInv, tail # <<>>, tail' = Tail(tail),
           keys'[Head(tail)].st \in {"sent", "refused"}, \A j \in Key \ {Head(tail)} : keys'[j] = keys[j],
           keys'[Head(tail)].st = "sent" => keys'[Head(tail)].fence = keys[Head(tail)].fence,
           NEW m, m.t = "input", m.key = Head(tail),
           \/ up' = up
           \/ /\ keys'[Head(tail)].st = "sent" /\ srv.conn = keys[Head(tail)].fence
              /\ up' = Append(up, m),
           srv'.accepted = srv.accepted, srv'.conn \in {srv.conn, 0}, KeyTypes'
    PROVE  KeyInv'
<1>. USE DEF KeyInv
<1>. DEFINE k == Head(tail)
<1>0. tail \in Seq(Key) /\ k \in Key /\ k = tail[1] /\ Len(tail) \in Nat \ {0} /\ DOMAIN tail = 1..Len(tail)
  BY SMTT(30) DEF KeyTypes
<1>1. keys[k].st = "queued"
  BY <1>0 DEF QueueInOrder
<1>2. /\ keys'[k].st \in {"sent", "refused"} /\ \A j \in Key \ {k} : keys'[j] = keys[j]
      /\ keys'[k].st = "sent" => keys'[k].fence = keys[k].fence
  OBVIOUS
<1>3. Len(tail') = Len(tail) - 1 /\ DOMAIN tail' = 1..(Len(tail) - 1) /\ \A i \in DOMAIN tail' : tail'[i] = tail[i + 1]
  BY <1>0
<1>. HIDE DEF k
<1>4. \A j \in Key : Sent(j) => j # k /\ Sent(j)' /\ keys'[j].fence = keys[j].fence
  BY <1>1, <1>2 DEF Sent
<1>5. \A i \in DOMAIN srv.accepted : srv.accepted[i][1] \in Key
  BY SMTT(30) DEF KeyTypes
<1>6. \A i \in DOMAIN up : IsInput(i) => up[i].key \in Key
  BY SMTT(30) DEF KeyTypes, IsInput, Message, Input
<1>7. QueueInOrder'
  <2>1. ASSUME NEW i \in DOMAIN tail', NEW j \in DOMAIN tail', i < j
        PROVE  tail'[i] < tail'[j]
    <3>1. i + 1 \in DOMAIN tail /\ j + 1 \in DOMAIN tail /\ i + 1 < j + 1
      BY <1>0, <1>3, <2>1
    <3>. QED  BY <3>1, <1>3, <2>1 DEF QueueInOrder
  <2>2. ASSUME NEW j \in Key
        PROVE  keys'[j].st = "queued" <=> \E i \in DOMAIN tail' : tail'[i] = j
    <3>1. CASE j = k
      <4>1. \A i \in DOMAIN tail' : tail'[i] > k
        BY <1>0, <1>3, KeysAreNumbers DEF QueueInOrder
      <4>2. k \in Nat
        BY <1>0, KeysAreNumbers
      <4>. QED  BY <3>1, <1>2, <4>1, <4>2
    <3>2. CASE j # k
      <4>1. keys[j].st = "queued" <=> \E i \in DOMAIN tail : tail[i] = j
        BY DEF QueueInOrder
      <4>2. (\E i \in DOMAIN tail : tail[i] = j) <=> \E i \in DOMAIN tail' : tail'[i] = j
        <5>1. ASSUME NEW i \in DOMAIN tail, tail[i] = j
              PROVE  \E h \in DOMAIN tail' : tail'[h] = j
          <6>1. i # 1 /\ i - 1 \in DOMAIN tail' /\ (i - 1) + 1 = i
            BY <5>1, <1>0, <1>3, <3>2
          <6>. QED  BY <6>1, <1>3, <5>1
        <5>2. ASSUME NEW i \in DOMAIN tail', tail'[i] = j
              PROVE  \E h \in DOMAIN tail : tail[h] = j
          <6>1. i + 1 \in DOMAIN tail
            BY <1>0, <1>3
          <6>. QED  BY <6>1, <1>3, <5>2
        <5>. QED  BY <5>1, <5>2
      <4>. QED  BY <3>2, <1>2, <4>1, <4>2
    <3>. QED  BY <3>1, <3>2
  <2>. QED  BY <2>1, <2>2 DEF QueueInOrder
<1>8. KeysInOrder'
  <2>. SUFFICES ASSUME NEW i \in Key, NEW j \in Key
                PROVE  /\ keys'[i].st = "untyped" /\ keys'[j].st # "untyped" => j < i
                       /\ keys'[i].st = "typed" /\ keys'[j].st \in {"queued", "sent"} => j < i
                       /\ keys'[i].st = "queued" /\ keys'[j].st = "sent" => j < i
    BY DEF KeysInOrder, Sent
  <2>1. CASE i # k /\ j # k
    BY <2>1, <1>2 DEF KeysInOrder, Sent
  <2>2. CASE i = k
    BY <2>2, <1>2
  <2>3. CASE j = k /\ i # k
    <3>1. keys'[i] = keys[i]
      BY <2>3, <1>2
    <3>2. keys[i].st \in {"untyped", "typed"} => j < i
      BY <2>3, <1>1 DEF KeysInOrder
    <3>3. keys[i].st = "queued" => j < i
      BY <2>3, <1>0 DEF QueueInOrder
    <3>. QED  BY <3>1, <3>2, <3>3
  <2>. QED  BY <2>1, <2>2, <2>3
<1>9. WireInOrder'
  <2>1. CASE up' = up
    BY <2>1, <1>4, <1>6 DEF WireInOrder, IsInput
  <2>2. CASE keys'[k].st = "sent" /\ srv.conn = keys[k].fence /\ up' = Append(up, m)
    <3>. SUFFICES ASSUME srv'.conn # 0
                  PROVE  WireInOrder'
      BY DEF WireInOrder
    <3>0. srv'.conn = srv.conn /\ srv.conn # 0
      OBVIOUS
    <3>1. up \in Seq(Message) /\ Len(up) \in Nat /\ DOMAIN up = 1..Len(up) /\ DOMAIN up' = 1..(Len(up) + 1)
      BY <2>2 DEF KeyTypes
    <3>2. /\ up'[Len(up) + 1].t = "input" /\ up'[Len(up) + 1].key = k
          /\ \A i \in DOMAIN up : up'[i] = up[i]
      BY <2>2, <3>1 DEF k
    <3>3. \A i \in DOMAIN up : IsInput(i) => up[i].key < k
      BY <3>0, <1>0, <1>1, <1>6 DEF WireInOrder, KeysInOrder
    <3>4. \A i \in DOMAIN srv.accepted : srv.accepted[i][1] < k
      BY <1>0, <1>1, <1>5 DEF AcceptedWereSent, KeysInOrder
    <3>5. keys'[k].st = "sent" /\ keys'[k].fence = srv'.conn
      BY <2>2, <3>0, <1>2 DEF Sent
    <3>6. ASSUME NEW i \in DOMAIN up', IsInput(i)'
          PROVE  keys'[up'[i].key].st = "sent" /\ keys'[up'[i].key].fence = srv'.conn
      <4>1. CASE i \in DOMAIN up
        <5>1. IsInput(i) /\ up'[i] = up[i]
          BY <4>1, <3>2, <3>6 DEF IsInput
        <5>2. Sent(up[i].key) /\ keys[up[i].key].fence = srv.conn /\ up[i].key \in Key
          BY <4>1, <5>1, <3>0, <1>6 DEF WireInOrder
        <5>3. keys'[up[i].key].st = "sent" /\ keys'[up[i].key].fence = srv.conn
          BY <5>2, <1>4 DEF Sent
        <5>. QED  BY <5>1, <5>3, <3>0 DEF Sent
      <4>2. CASE i = Len(up) + 1
        BY <4>2, <3>2, <3>5 DEF Sent
      <4>. QED  BY <4>1, <4>2, <3>1
    <3>7. ASSUME NEW i \in DOMAIN up', NEW j \in DOMAIN up', IsInput(i)', IsInput(j)', i < j
          PROVE  up'[i].key < up'[j].key
      <4>1. i \in DOMAIN up /\ up'[i] = up[i] /\ IsInput(i)
        BY <3>1, <3>2, <3>7 DEF IsInput
      <4>2. CASE j = Len(up) + 1
        BY <4>1, <4>2, <3>2, <3>3
      <4>3. CASE j \in DOMAIN up
        BY <4>1, <4>3, <3>2, <3>7, <3>0 DEF WireInOrder, IsInput
      <4>. QED  BY <4>2, <4>3, <3>1
    <3>8. ASSUME NEW i \in DOMAIN up', NEW j \in DOMAIN srv'.accepted, IsInput(i)'
          PROVE  srv'.accepted[j][1] < up'[i].key
      <4>1. CASE i \in DOMAIN up
        BY <4>1, <3>0, <3>2, <3>8 DEF WireInOrder, IsInput
      <4>2. CASE i = Len(up) + 1
        BY <4>2, <3>2, <3>4
      <4>. QED  BY <4>1, <4>2, <3>1
    <3>. QED  BY <3>6, <3>7, <3>8 DEF WireInOrder, Sent
  <2>. QED  BY <2>1, <2>2 DEF k
<1>10. AcceptedWereSent'
  BY <1>4, <1>5 DEF AcceptedWereSent, Sent
<1>11. KeysLandOnce'
  BY <1>4, <1>5 DEF AcceptedWereSent, KeysLandOnce
<1>. QED  BY <1>7, <1>8, <1>9, <1>10, <1>11

\* The first message on the wire arrives: a key among them is the next one.
LEMMA ArrivalKeepsOrder ==
    ASSUME KeyInv, UNCHANGED <<keys, tail>>, up # <<>>, up' = Tail(up), srv.conn # 0,
           \/ srv'.accepted = srv.accepted /\ srv'.conn \in {srv.conn, 0}
           \/ /\ Head(up).t = "input" /\ srv'.conn = srv.conn
              /\ srv'.accepted = Append(srv.accepted, <<Head(up).key, srv.conn>>),
           KeyTypes'
    PROVE  KeyInv'
<1>. USE DEF KeyInv
<1>1. up \in Seq(Message) /\ Len(up) \in Nat \ {0} /\ DOMAIN up = 1..Len(up) /\ Head(up) = up[1]
  BY DEF KeyTypes
<1>2. DOMAIN up' = 1..(Len(up) - 1) /\ \A i \in DOMAIN up' : up'[i] = up[i + 1] /\ i + 1 \in DOMAIN up
  BY <1>1
<1>3. QueueInOrder' /\ KeysInOrder' /\ \A k \in Key : (Sent(k)' <=> Sent(k)) /\ keys'[k] = keys[k]
  BY DEF QueueInOrder, KeysInOrder, Sent
<1>4. \A i \in DOMAIN up : IsInput(i) => up[i].key \in Key /\ Sent(up[i].key) /\ keys[up[i].key].fence = srv.conn
  BY SMTT(30) DEF KeyTypes, IsInput, Message, Input, WireInOrder
<1>5. \A i \in DOMAIN up' : IsInput(i)' <=> IsInput(i + 1)
  BY <1>2 DEF IsInput
<1>6. \A i, j \in DOMAIN up' : IsInput(i)' /\ IsInput(j)' /\ i < j => up'[i].key < up'[j].key
  <2>. SUFFICES ASSUME NEW i \in DOMAIN up', NEW j \in DOMAIN up', IsInput(i)', IsInput(j)', i < j
                PROVE  up'[i].key < up'[j].key
    OBVIOUS
  <2>1. i + 1 < j + 1
    BY <1>1, <1>2
  <2>. QED  BY <2>1, <1>2, <1>5 DEF WireInOrder
<1>7. \A i \in DOMAIN up' : IsInput(i)' => keys'[up'[i].key].st = "sent" /\ keys'[up'[i].key].fence = srv.conn
  BY <1>2, <1>4, <1>5 DEF Sent
<1>8. \A i \in DOMAIN srv.accepted : srv.accepted[i][1] \in Key
  BY SMTT(30) DEF KeyTypes
<1>9. CASE srv'.accepted = srv.accepted /\ srv'.conn \in {srv.conn, 0}
  <2>1. WireInOrder'
    <3>1. \A i \in DOMAIN up', j \in DOMAIN srv.accepted : IsInput(i)' => srv.accepted[j][1] < up'[i].key
      BY <1>2, <1>5 DEF WireInOrder
    <3>. QED  BY <1>9, <3>1, <1>6, <1>7 DEF WireInOrder, Sent
  <2>2. AcceptedWereSent' /\ KeysLandOnce'
    BY <1>9, <1>3, <1>8 DEF AcceptedWereSent, KeysLandOnce
  <2>. QED  BY <2>1, <2>2, <1>3
<1>10. CASE /\ Head(up).t = "input" /\ srv'.conn = srv.conn
            /\ srv'.accepted = Append(srv.accepted, <<Head(up).key, srv.conn>>)
  <2>1. 1 \in DOMAIN up /\ IsInput(1) /\ Head(up).key = up[1].key
    BY <1>1, <1>10 DEF IsInput
  <2>. DEFINE a == srv.accepted
              b == srv'.accepted
              k == up[1].key
  <2>2. k \in Key /\ Sent(k) /\ keys[k].fence = srv.conn
    BY <2>1, <1>4
  <2>3. a \in Seq(Key \X Nat) /\ Len(a) \in Nat /\ DOMAIN a = 1..Len(a) /\ DOMAIN b = 1..(Len(a) + 1)
    BY <1>10 DEF KeyTypes
  <2>4. b[Len(a) + 1] = <<k, srv.conn>> /\ \A i \in DOMAIN a : b[i] = a[i]
    BY <1>10, <2>1, <2>3
  <2>5. \A j \in DOMAIN a : a[j][1] < k
    BY <2>1 DEF WireInOrder
  <2>6. \A i \in DOMAIN up' : IsInput(i)' => k < up'[i].key
    <3>. SUFFICES ASSUME NEW i \in DOMAIN up', IsInput(i)'
                  PROVE  k < up'[i].key
      OBVIOUS
    <3>1. 1 < i + 1
      BY <1>2, <1>1
    <3>. QED  BY <3>1, <2>1, <1>2, <1>5 DEF WireInOrder
  <2>. HIDE DEF a, b, k
  <2>7. WireInOrder'
    <3>1. ASSUME NEW i \in DOMAIN up', NEW j \in DOMAIN b, IsInput(i)'
          PROVE  b[j][1] < up'[i].key
      <4>1. CASE j = Len(a) + 1
        BY <4>1, <2>4, <2>6, <3>1
      <4>2. CASE j \in DOMAIN a
        <5>1. b[j] = a[j] /\ i + 1 \in DOMAIN up /\ IsInput(i + 1) /\ up'[i] = up[i + 1]
          BY <4>2, <2>4, <1>2, <1>5, <3>1
        <5>. QED  BY <5>1, <4>2 DEF WireInOrder, a
      <4>. QED  BY <4>1, <4>2, <2>3
    <3>. QED  BY <1>10, <3>1, <1>6, <1>7 DEF WireInOrder, Sent, b
  <2>8. ASSUME NEW i \in DOMAIN b
        PROVE  /\ b[i][1] \in Key /\ Sent(b[i][1]) /\ b[i][2] = keys[b[i][1]].fence
               /\ \A j \in DOMAIN b : i < j => b[i][1] < b[j][1]
    <3>1. CASE i = Len(a) + 1
      BY <3>1, <2>2, <2>3, <2>4
    <3>2. CASE i \in DOMAIN a
      <4>1. a[i][1] \in Key /\ Sent(a[i][1]) /\ a[i][2] = keys[a[i][1]].fence
        BY <3>2, <1>8 DEF AcceptedWereSent, KeysLandOnce, a
      <4>2. \A j \in DOMAIN a : i < j => a[i][1] < a[j][1]
        BY <3>2 DEF KeysLandOnce, a
      <4>3. a[i][1] < k
        BY <3>2, <2>5
      <4>4. ASSUME NEW j \in DOMAIN b, i < j
            PROVE  b[i][1] < b[j][1]
        BY <4>2, <4>3, <4>4, <3>2, <2>3, <2>4, SMTT(30)
      <4>. QED  BY <4>1, <4>4, <3>2, <2>4
    <3>. QED  BY <3>1, <3>2, <2>3
  <2>9. AcceptedWereSent' /\ KeysLandOnce'
    BY <2>8, <1>3 DEF AcceptedWereSent, KeysLandOnce, b, Sent
  <2>. QED  BY <2>7, <2>9, <1>3
<1>. QED  BY <1>9, <1>10

\* A new connection, and the message that resumes the terminal on it.
LEMMA ConnectingKeepsOrder ==
    ASSUME KeyInv, UNCHANGED <<keys, tail>>, srv'.accepted = srv.accepted,
           \/ up' = <<>>
           \/ srv'.conn = srv.conn /\ up' = Append(up, [t |-> "resume"]),
           KeyTypes'
    PROVE  KeyInv'
<1>. USE DEF KeyInv
<1>1. QueueInOrder' /\ KeysInOrder' /\ \A k \in Key : (Sent(k)' <=> Sent(k)) /\ keys'[k] = keys[k]
  BY DEF QueueInOrder, KeysInOrder, Sent
<1>2. \A i \in DOMAIN srv.accepted : srv.accepted[i][1] \in Key
  BY SMTT(30) DEF KeyTypes
<1>3. AcceptedWereSent' /\ KeysLandOnce'
  BY <1>1, <1>2 DEF AcceptedWereSent, KeysLandOnce
<1>4. WireInOrder'
  <2>1. CASE up' = <<>>
    BY <2>1 DEF WireInOrder
  <2>2. CASE srv'.conn = srv.conn /\ up' = Append(up, [t |-> "resume"])
    <3>1. \A i \in DOMAIN up' : IsInput(i)' => i \in DOMAIN up /\ IsInput(i) /\ up'[i] = up[i]
      <4>1. up \in Seq(Message) /\ Len(up) \in Nat /\ DOMAIN up = 1..Len(up) /\ DOMAIN up' = 1..(Len(up) + 1)
        BY <2>2 DEF KeyTypes
      <4>2. up'[Len(up) + 1].t = "resume" /\ \A i \in DOMAIN up : up'[i] = up[i]
        BY <2>2, <4>1
      <4>. QED  BY <4>1, <4>2 DEF IsInput
    <3>2. \A i \in DOMAIN up : IsInput(i) => up[i].key \in Key
      BY SMTT(30) DEF KeyTypes, IsInput, Message, Input
    <3>. QED  BY <2>2, <3>1, <3>2, <1>1 DEF WireInOrder, Sent
  <2>. QED  BY <2>1, <2>2
<1>. QED  BY <1>1, <1>3, <1>4

-----------------------------------------------------------------------------
(* What a step leaves alone *)

\* No key is put on a wire, and none that was is forgotten.
NothingSent == \A k \in Key : /\ Sent(k)' => Sent(k) /\ keys'[k].fence = keys[k].fence
                              /\ keys'[k].fence <= srv.fence

\* No acknowledgement is added.
AcksKept ==
    \A i \in DOMAIN down' : down'[i].t = "acknowledgement" => \E j \in DOMAIN down : down[j] = down'[i]

LEMMA QuietKeys ==
    ASSUME RuntimeInv, UNCHANGED keys \/ DropQueue
    PROVE  NothingSent
<1>. USE DEF RuntimeInv, KeyInv
<1>1. CASE UNCHANGED keys
  BY <1>1 DEF NothingSent, Sent, FenceInv
<1>2. ASSUME DropQueue, NEW k \in Key
      PROVE  /\ Sent(k)' => Sent(k) /\ keys'[k].fence = keys[k].fence
             /\ keys'[k].fence <= srv.fence
  <2>1. keys'[k] = IF keys[k].st = "queued" THEN Refused ELSE keys[k]
    BY <1>2 DEF DropQueue
  <2>2. Refused.st = "refused" /\ Refused.fence = 0 /\ 0 <= srv.fence
    BY DEF Refused, KeyTypes
  <2>. QED  BY <2>1, <2>2 DEF Sent, FenceInv
<1>. QED  BY <1>1, <1>2 DEF NothingSent

\* What is known of the keys stays so while the terminal keeps its attachment,
\* its sequence and its unacknowledged input, or becomes uncertain.
LEMMA StoryStays ==
    ASSUME StoryInv, KeyTypes, NothingSent, srv'.accepted = srv.accepted, AcksKept,
           entry.wire \in Nat, entry'.wire \in Nat,
           entry'.first # 0 /\ ~entry'.hist =>
              /\ entry.first # 0 /\ ~entry.hist /\ entry'.first = entry.first
              /\ entry'.wire >= entry.wire /\ entry'.pend = entry.pend
              /\ srv'.conn = entry'.fence => srv.conn = entry.fence /\ up' = up
    PROVE  StoryInv'
<1>1. PICK s \in [Key -> Nat] : entry.first # 0 /\ ~entry.hist => Told(s)
  BY DEF StoryInv
<1>2. SUFFICES ASSUME entry'.first # 0, ~entry'.hist
               PROVE  Told(s)'
  <2>1. ASSUME entry'.first # 0 /\ ~entry'.hist => Told(s)'
        PROVE  StoryInv'
    BY <2>1 DEF StoryInv
  <2>. QED  BY <2>1
<1>3. /\ Told(s) /\ entry'.first = entry.first /\ entry'.wire >= entry.wire /\ entry'.pend = entry.pend
      /\ srv'.conn = entry'.fence => srv.conn = entry.fence /\ up' = up
  BY <1>1, <1>2
<1>4. \A k \in Key : Mine(k)' => Mine(k)
  BY <1>3 DEF Mine, NothingSent
<1>5. \A k \in Key : Accepted(k)' <=> Accepted(k)
  BY DEF Accepted
<1>6. \A k \in Key : s[k] \in Nat
  BY <1>1
<1>7. \A k \in Key : Mine(k)' => s[k] <= entry'.wire /\ (Accepted(k)' \/ s[k] \in entry'.pend)
  BY <1>3, <1>4, <1>5, <1>6 DEF Told
<1>8. \A j, k \in Key : Mine(j)' /\ Mine(k)' /\ j # k => s[j] # s[k]
  BY <1>3, <1>4 DEF Told
<1>9. ASSUME NEW i \in DOMAIN down', down'[i].t = "acknowledgement"
      PROVE  /\ down'[i].n <= entry'.wire
             /\ \A k \in Key : Mine(k)' /\ s[k] <= down'[i].n => Accepted(k)'
  <2>1. PICK j \in DOMAIN down : down[j] = down'[i]
    BY <1>9 DEF AcksKept
  <2>2. down[j] \in Downstream /\ down[j].t = "acknowledgement"
    BY <1>9, <2>1 DEF KeyTypes
  <2>3. down[j].n \in Nat
    BY <2>2 DEF Downstream
  <2>4. down[j].n <= entry.wire /\ \A k \in Key : Mine(k) /\ s[k] <= down[j].n => Accepted(k)
    BY <1>3, <2>2 DEF Told
  <2>. QED  BY <2>1, <2>3, <2>4, <1>3, <1>4, <1>5
<1>10. ASSUME srv'.conn = entry'.fence
       PROVE  /\ \A i \in DOMAIN up' : IsInput(i)' =>
                   /\ s[up'[i].key] = up'[i].seq
                   /\ \A k \in Key : Mine(k)' /\ s[k] < up'[i].seq =>
                         Accepted(k)' \/ \E j \in DOMAIN up' : j < i /\ IsInput(j)' /\ up'[j].key = k
              /\ \A k \in Key : Mine(k)' => Accepted(k)' \/ OnTheWire(k)'
  <2>1. srv.conn = entry.fence /\ up' = up
    BY <1>3, <1>10
  <2>2. \A i : IsInput(i)' <=> IsInput(i)
    BY <2>1 DEF IsInput
  <2>3. \A k \in Key : OnTheWire(k)' <=> OnTheWire(k)
    BY <2>1, <2>2 DEF OnTheWire
  <2>4. \A k \in Key : Mine(k)' => Accepted(k)' \/ OnTheWire(k)'
    BY <1>3, <1>4, <1>5, <2>1, <2>3 DEF Told
  <2>5. ASSUME NEW i \in DOMAIN up, IsInput(i)
        PROVE  /\ s[up[i].key] = up[i].seq
               /\ \A k \in Key : Mine(k) /\ s[k] < up[i].seq =>
                     Accepted(k) \/ \E j \in DOMAIN up : j < i /\ IsInput(j) /\ up[j].key = k
    BY <1>3, <2>1, <2>5 DEF Told
  <2>. QED  BY <2>1, <2>2, <2>4, <2>5, <1>4, <1>5
<1>. QED  BY <1>7, <1>8, <1>9, <1>10 DEF Told, Mine, Accepted, OnTheWire, IsInput

-----------------------------------------------------------------------------
(* Steps of a terminal that stays *)

\* The terminal keeps its attachment or loses it, with no new input.
Follows ==
    /\ Fields \subseteq DOMAIN entry'
    /\ entry'.fence = entry.fence /\ entry'.first = entry.first /\ entry'.wire = entry.wire
    /\ entry'.pend \subseteq entry.pend /\ entry'.hist \in BOOLEAN
    /\ ~entry'.hist => ~entry.hist /\ entry'.pend = entry.pend
    /\ entry'.cont = "complete" => entry.cont = "complete" /\ entry'.hist = entry.hist
    /\ IF entry.state = "none"
       THEN entry'.state = "none" /\ entry'.rev = entry.rev /\ entry'.hist = entry.hist /\ entry'.cont = entry.cont
       ELSE entry'.state # "none" /\ entry'.rev \in {entry.rev, entry.rev + 1}
    /\ entry'.state \in {"interrupted", "reconnecting"} => entry'.pend = {}
    /\ entry'.state = "active" => entry.state = "active"
    /\ entry'.state = "detached" => srv'.conn # entry.fence

\* A step of the server, the wire or the terminal that grants no fence.
Plain ==
    /\ UNCHANGED keys \/ DropQueue
    /\ srv'.accepted = srv.accepted /\ srv'.fence = srv.fence /\ srv'.conn \in {srv.conn, 0}
    /\ up' = up \/ (up' = <<>> /\ srv'.conn = 0)
    /\ AcksKept /\ KeyTypes'

LEMMA EntryStays ==
    ASSUME RuntimeInv, Follows, Plain
    PROVE  EntryInv' /\ ConnInv' /\ StoryInv'
<1>. USE DEF RuntimeInv
<1>1. EntryInv'
  BY DEF EntryInv, Follows
<1>2. ConnInv'
  BY DEF ConnInv, Follows, Plain, IsInput
<1>3. StoryInv'
  <2>1. entry'.first # 0 => entry.fence # 0
    BY DEF EntryInv, Follows
  <2>2. NothingSent
    BY QuietKeys DEF Plain
  <2>. QED  BY <2>1, <2>2, StoryStays DEF EntryInv, KeyInv, Follows, Plain
<1>. QED  BY <1>1, <1>2, <1>3

LEMMA FencesStay ==
    ASSUME RuntimeInv, Plain, entry'.fence \in {entry.fence, 0}, proc'.fence \in {proc.fence, 0}
    PROVE  FenceInv'
<1>1. NothingSent /\ 0 <= srv.fence
  BY QuietKeys DEF Plain, RuntimeInv, KeyInv, KeyTypes
<1>. QED  BY <1>1 DEF RuntimeInv, FenceInv, Plain, NothingSent

LEMMA PlainKeys ==
    ASSUME RuntimeInv, Plain, UNCHANGED <<keys, tail>> \/ DropQueue
    PROVE  KeyInv'
BY KeysStayInOrder DEF RuntimeInv, Plain

\* The procedure stays where it is.
ProcSame ==
    /\ {"kind", "ph", "fence", "rev"} \subseteq DOMAIN proc'
    /\ proc'.kind = proc.kind /\ proc'.ph = proc.ph /\ proc'.fence = proc.fence /\ proc'.rev = proc.rev

LEMMA ProcStays ==
    ASSUME RuntimeInv, Follows, Plain, ProcSame,
           proc.kind = "reconnect" /\ entry'.state = "active" => entry'.view = entry.view /\ entry'.pump = entry.pump
    PROVE  ProcInv'
<1>. USE DEF RuntimeInv
<1>1. \A k \in Key : keys'[k].fence \in {keys[k].fence, 0}
  BY DEF Plain, KeyInv, KeyTypes, DropQueue, Refused
<1>2. proc.ph = "commit" => /\ proc.fence \in Nat /\ entry.fence < proc.fence /\ 0 < proc.fence
                            /\ \A k \in Key : keys'[k].fence < proc.fence
                            /\ NothingUnderWay'
  <2>1. proc.ph = "commit" => NothingUnderWay'
    BY DEF ProcInv, NothingUnderWay, Plain, AcksKept, IsInput
  <2>2. proc.ph = "commit" => entry.fence < proc.fence /\ 0 < proc.fence /\ proc.fence \in Nat
    BY DEF ProcInv, EntryInv
  <2>. QED  BY <1>1, <2>1, <2>2 DEF ProcInv
<1>3. (proc.ph = "commit" => srv'.conn \in {0, proc.fence}) /\ proc.fence \in Nat
  BY DEF ProcInv, Plain
<1>4. proc.kind = "reconnect" => proc.rev # 0 /\ entry'.pend = {} /\ (entry'.state = "active" => entry'.view = "none" /\ entry'.pump = 0)
  BY DEF ProcInv, Follows
<1>5. proc.ph \in Before => entry'.state # "active"
  BY DEF ProcInv, Follows
<1>6. proc.kind = "attach" /\ proc.ph \in Before => entry'.state = "none"
  BY DEF ProcInv, Follows
<1>7. proc.kind = "attach" => entry'.fence \in {0, proc.fence}
  BY DEF ProcInv, Follows
<1>8. (proc.kind = "none" <=> proc.ph = "none") /\ proc.kind \in {"none", "attach", "reconnect"}
  BY DEF ProcInv
<1>9. entry'.fence = entry.fence
  BY DEF Follows
<1>. QED  BY <1>2, <1>3, <1>4, <1>5, <1>6, <1>7, <1>8, <1>9 DEF ProcInv, ProcSame

\* All of it for a step that leaves the procedure alone.
LEMMA EntryStep ==
    ASSUME RuntimeInv, Follows, Plain, ProcSame, UNCHANGED <<keys, tail>> \/ DropQueue,
           proc.kind = "reconnect" /\ entry'.state = "active" => entry'.view = entry.view /\ entry'.pump = entry.pump
    PROVE  RuntimeInv'
<1>1. entry'.fence \in {entry.fence, 0} /\ proc'.fence \in {proc.fence, 0}
  BY DEF Follows, ProcSame
<1>. QED  BY <1>1, EntryStays, FencesStay, PlainKeys, ProcStays DEF RuntimeInv

-----------------------------------------------------------------------------
(* The shapes of steps *)

LEMMA RetireIs ==
    ASSUME NEW e, Fields \subseteq DOMAIN e
    PROVE  /\ DOMAIN Retire(e) = DOMAIN e
           /\ Retire(e).state = e.state /\ Retire(e).rev = e.rev /\ Retire(e).fence = e.fence
           /\ Retire(e).wire = e.wire /\ Retire(e).view = e.view /\ Retire(e).pump = e.pump
           /\ Retire(e).first = e.first /\ Retire(e).pend = {}
           /\ Retire(e).hist = (e.hist \/ e.pend # {})
           /\ Retire(e).cont = IF e.hist \/ e.pend # {} THEN "uncertain" ELSE e.cont
BY DEF Retire, Fields

LEMMA LoseIs ==
    ASSUME NEW e, Fields \subseteq DOMAIN e, NEW st
    PROVE  /\ DOMAIN Lose(e, st) = DOMAIN e /\ Lose(e, st).state = st
           /\ Lose(e, st).rev = e.rev /\ Lose(e, st).fence = e.fence
           /\ Lose(e, st).wire = e.wire /\ Lose(e, st).view = e.view /\ Lose(e, st).pump = e.pump
           /\ Lose(e, st).first = e.first /\ Lose(e, st).pend = {}
           /\ Lose(e, st).hist = (e.hist \/ e.pend # {})
           /\ Lose(e, st).cont = IF e.hist \/ e.pend # {} THEN "uncertain" ELSE e.cont
<1>1. {"state", "rev", "fence", "wire", "pend", "hist", "cont", "view", "pump", "first"} \subseteq DOMAIN Retire(e)
  BY RetireIs DEF Fields
<1>. HIDE DEF Retire
<1>2. /\ DOMAIN Lose(e, st) = DOMAIN Retire(e) /\ Lose(e, st).state = st
      /\ Lose(e, st).rev = Retire(e).rev /\ Lose(e, st).fence = Retire(e).fence
      /\ Lose(e, st).wire = Retire(e).wire /\ Lose(e, st).view = Retire(e).view
      /\ Lose(e, st).pump = Retire(e).pump /\ Lose(e, st).first = Retire(e).first
      /\ Lose(e, st).pend = Retire(e).pend /\ Lose(e, st).hist = Retire(e).hist
      /\ Lose(e, st).cont = Retire(e).cont
  BY <1>1 DEF Lose
<1>. QED  BY <1>2, RetireIs

\* Whoever loses the attachment gives up what was unacknowledged.
LEMMA LosingFollows ==
    ASSUME EntryInv, entry.state # "none", NEW st \in {"interrupted", "failed"},
           Fields \subseteq DOMAIN entry', entry'.state = st,
           entry'.fence = Lose(entry, st).fence, entry'.wire = Lose(entry, st).wire,
           entry'.pend = Lose(entry, st).pend, entry'.hist = Lose(entry, st).hist,
           entry'.first = Lose(entry, st).first, entry'.rev \in {Lose(entry, st).rev, Lose(entry, st).rev + 1}, entry'.cont \in {Lose(entry, st).cont, "uncertain"}
    PROVE  Follows
<1>1. Fields \subseteq DOMAIN entry /\ entry.pend \subseteq Nat /\ entry.hist \in BOOLEAN
  BY DEF EntryInv
<1>2. /\ entry'.fence = entry.fence /\ entry'.wire = entry.wire /\ entry'.first = entry.first /\ entry'.rev \in {entry.rev, entry.rev + 1}
      /\ entry'.pend = {} /\ entry'.hist = (entry.hist \/ entry.pend # {})
      /\ entry'.cont \in {IF entry.hist \/ entry.pend # {} THEN "uncertain" ELSE entry.cont, "uncertain"}
  BY <1>1, LoseIs
<1>3. entry'.hist \in BOOLEAN /\ (~entry'.hist => ~entry.hist /\ entry.pend = {})
  BY <1>1, <1>2
<1>. QED  BY <1>1, <1>2, <1>3 DEF Follows

\* Input of an earlier epoch becomes history.
LEMMA RetiringFollows ==
    ASSUME EntryInv, Fields \subseteq DOMAIN entry', entry'.state = entry.state,
           entry.state = "detached" => srv'.conn # entry.fence,
           entry'.fence = entry.fence, entry'.wire = entry.wire, entry'.first = entry.first, entry'.rev = entry.rev,
           \/ entry'.pend = entry.pend /\ entry'.hist = entry.hist /\ entry'.cont = entry.cont
           \/ entry'.pend = Retire(entry).pend /\ entry'.hist = Retire(entry).hist /\ entry'.cont = Retire(entry).cont
    PROVE  Follows
<1>1. Fields \subseteq DOMAIN entry /\ entry.pend \subseteq Nat /\ entry.hist \in BOOLEAN
      /\ (entry.state \in {"interrupted", "reconnecting"} => entry.pend = {})
      /\ (entry.state = "none" => entry.pend = {} /\ ~entry.hist)
  BY DEF EntryInv
<1>2. CASE entry'.pend = entry.pend /\ entry'.hist = entry.hist /\ entry'.cont = entry.cont
  BY <1>1, <1>2 DEF Follows
<1>3. CASE entry'.pend = Retire(entry).pend /\ entry'.hist = Retire(entry).hist /\ entry'.cont = Retire(entry).cont
  <2>1. /\ entry'.pend = {} /\ entry'.hist = (entry.hist \/ entry.pend # {})
        /\ entry'.cont = IF entry.hist \/ entry.pend # {} THEN "uncertain" ELSE entry.cont
    BY <1>1, <1>3, RetireIs
  <2>2. entry'.hist \in BOOLEAN /\ (~entry'.hist => ~entry.hist /\ entry.pend = {})
    BY <1>1, <2>1
  <2>. QED  BY <1>1, <2>1, <2>2 DEF Follows
<1>. QED  BY <1>2, <1>3

\* What the terminal is to the invariant stays as it is.
LEMMA SameFollows ==
    ASSUME EntryInv, Fields \subseteq DOMAIN entry', entry'.state = entry.state,
           entry'.fence = entry.fence, entry'.wire = entry.wire, entry'.first = entry.first, entry'.rev = entry.rev,
           entry'.pend = entry.pend, entry'.hist = entry.hist, entry'.cont = entry.cont,
           entry.state = "detached" => srv'.conn # entry.fence
    PROVE  Follows
BY DEF EntryInv, Follows

LEMMA TypesStay ==
    ASSUME KeyTypes, UNCHANGED <<keys, tail>> \/ DropQueue, up' = up \/ up' = <<>>,
           {"fence", "conn", "accepted", "viewN", "hist"} \subseteq DOMAIN srv',
           srv'.accepted = srv.accepted, srv'.fence = srv.fence, srv'.conn \in {srv.conn, 0},
           srv'.viewN \in Nat, srv'.hist \in Seq({Me, Other}), down' \in Seq(Downstream)
    PROVE  KeyTypes'
<1>1. DOMAIN keys' = Key /\ (\A k \in Key : KeyType(keys'[k])) /\ tail' \in Seq(Key)
  <2>1. CASE UNCHANGED <<keys, tail>>
    BY <2>1 DEF KeyTypes
  <2>2. CASE DropQueue
    <3>1. KeyType(Refused)
      BY DEF Refused, KeyType
    <3>. QED  BY <2>2, <3>1 DEF KeyTypes, DropQueue
  <2>. QED  BY <2>1, <2>2
<1>2. up' \in Seq(Message)
  <2>1. up \in Seq(Message) /\ <<>> \in Seq(Message)
    BY DEF KeyTypes
  <2>. QED  BY <2>1
<1>. QED  BY <1>1, <1>2 DEF KeyTypes

\* The server as far as the keys are concerned.
ServerStays ==
    /\ {"fence", "conn", "accepted", "viewN", "hist"} \subseteq DOMAIN srv'
    /\ srv'.accepted = srv.accepted /\ srv'.fence = srv.fence /\ srv'.conn \in {srv.conn, 0}
    /\ srv'.viewN \in Nat /\ srv'.hist \in Seq({Me, Other})

LEMMA ServerSame ==
    ASSUME KeyTypes, UNCHANGED srv
    PROVE  ServerStays
BY DEF KeyTypes, ServerStays

LEMMA ServerCloses ==
    ASSUME KeyTypes, NEW F, Close(F)
    PROVE  ServerStays /\ (srv'.conn \in F => srv'.conn = 0) /\ (srv'.conn # 0 => srv'.conn = srv.conn /\ srv.conn \notin F)
BY DEF KeyTypes, ServerStays, Close

LEMMA TailIs ==
    ASSUME NEW S, NEW q \in Seq(S), q # <<>>
    PROVE  /\ Tail(q) \in Seq(S) /\ Head(q) \in S /\ Head(q) = q[1] /\ 1 \in DOMAIN q
           /\ DOMAIN Tail(q) = 1..(Len(q) - 1) /\ DOMAIN q = 1..Len(q) /\ Len(q) \in Nat
           /\ \A i \in DOMAIN Tail(q) : i \in Nat /\ i + 1 \in DOMAIN q /\ Tail(q)[i] = q[i + 1]
<1>1. Len(q) \in Nat \ {0} /\ DOMAIN q = 1..Len(q) /\ Head(q) = q[1]
  OBVIOUS
<1>2. Tail(q) \in Seq(S) /\ Len(Tail(q)) = Len(q) - 1 /\ \A i \in 1..Len(Tail(q)) : Tail(q)[i] = q[i + 1]
  BY HeadTailProperties
<1>3. DOMAIN Tail(q) = 1..(Len(q) - 1)
  BY <1>1, <1>2
<1>4. Head(q) \in S /\ 1 \in DOMAIN q
  BY <1>1
<1>. QED  BY <1>1, <1>2, <1>3, <1>4

\* Appending adds one place and leaves the others.
LEMMA AppendIs ==
    ASSUME NEW S, NEW q \in Seq(S), NEW e
    PROVE  /\ DOMAIN q = 1..Len(q) /\ Len(q) \in Nat /\ Len(q) + 1 \in DOMAIN Append(q, e)
           /\ Append(q, e)[Len(q) + 1] = e
           /\ DOMAIN q \subseteq DOMAIN Append(q, e)
           /\ \A i \in DOMAIN q : Append(q, e)[i] = q[i]
           /\ \A i \in DOMAIN Append(q, e) : i \in DOMAIN q \/ i = Len(q) + 1
  OBVIOUS

\* Frames are taken off the stream, or stay on it.
LEMMA FramesKept ==
    ASSUME KeyTypes, down' = down \/ (down # <<>> /\ down' = Tail(down))
    PROVE  down' \in Seq(Downstream) /\ AcksKept
<1>1. CASE down' = down
  BY <1>1 DEF KeyTypes, AcksKept
<1>2. CASE down # <<>> /\ down' = Tail(down)
  <2>1. /\ down' \in Seq(Downstream)
        /\ \A i \in DOMAIN down' : i + 1 \in DOMAIN down /\ down'[i] = down[i + 1]
    BY <1>2, TailIs DEF KeyTypes
  <2>. QED  BY <2>1 DEF AcksKept
<1>. QED  BY <1>1, <1>2

\* A frame that is no acknowledgement is put on the stream.
LEMMA FrameAdded ==
    ASSUME KeyTypes, NEW f \in Downstream, f.t # "acknowledgement", NEW D, D = Append(down, f)
    PROVE  /\ D \in Seq(Downstream)
           /\ \A i \in DOMAIN D : D[i].t = "acknowledgement" => \E j \in DOMAIN down : down[j] = D[i]
<1>1. down \in Seq(Downstream) /\ Len(down) \in Nat /\ DOMAIN down = 1..Len(down)
  BY DEF KeyTypes
<1>2. D \in Seq(Downstream) /\ DOMAIN D = 1..(Len(down) + 1) /\ D[Len(down) + 1] = f /\ \A i \in DOMAIN down : D[i] = down[i]
  BY <1>1
<1>. QED  BY <1>1, <1>2

LEMMA IsPlain ==
    ASSUME KeyTypes, UNCHANGED <<keys, tail>> \/ DropQueue, ServerStays,
           up' = up \/ (up' = <<>> /\ srv'.conn = 0), down' \in Seq(Downstream), AcksKept
    PROVE  Plain
<1>1. KeyTypes'
  BY TypesStay DEF ServerStays
<1>. QED  BY <1>1 DEF Plain, ServerStays

\* The terminal is forgotten, with its connection and its queue.
LEMMA EntryGoes ==
    ASSUME RuntimeInv, entry' = NoEntry, Plain, UNCHANGED <<keys, tail>> \/ DropQueue,
           srv'.conn # 0 => srv.conn # entry.fence
    PROVE  KeyInv' /\ EntryInv' /\ ConnInv' /\ StoryInv'
<1>. USE DEF RuntimeInv
<1>1. EntryInv'
  BY DEF EntryInv, NoEntry, Fields
<1>2. ConnInv'
  BY DEF ConnInv, Plain, NoEntry, IsInput
<1>3. StoryInv'
  <2>1. entry'.first = 0
    BY DEF NoEntry
  <2>2. PICK s \in [Key -> Nat] : TRUE
    BY DEF StoryInv
  <2>. QED  BY <2>1, <2>2 DEF StoryInv
<1>. QED  BY <1>1, <1>2, <1>3, PlainKeys

LEMMA ProcWhenGone ==
    ASSUME RuntimeInv, entry' = NoEntry, Plain, ProcSame
    PROVE  ProcInv'
<1>. USE DEF RuntimeInv
<1>1. \A k \in Key : keys'[k].fence \in {keys[k].fence, 0}
  BY DEF Plain, KeyInv, KeyTypes, DropQueue, Refused
<1>2. proc.ph = "commit" => NothingUnderWay' /\ entry.fence < proc.fence
  BY DEF ProcInv, NothingUnderWay, Plain, AcksKept, IsInput
<1>3. proc.ph = "commit" => 0 < proc.fence /\ \A k \in Key : keys'[k].fence < proc.fence
  BY <1>1, <1>2 DEF ProcInv, EntryInv
<1>4. proc.ph = "commit" => srv'.conn \in {0, proc.fence}
  BY DEF ProcInv, Plain
<1>5. entry'.state = "none" /\ entry'.fence = 0 /\ entry'.pend = {}
  BY DEF NoEntry
<1>. QED  BY <1>2, <1>3, <1>4, <1>5 DEF ProcInv, ProcSame

-----------------------------------------------------------------------------
(* Timers, frames and the server *)

LEMMA StillDetached ==
    ASSUME RuntimeInv, srv'.conn \in {srv.conn, 0}
    PROVE  entry.state = "detached" => srv'.conn # entry.fence
BY DEF RuntimeInv, EntryInv, ConnInv

LEMMA QuietStep ==
    ASSUME RuntimeInv, Follows, ServerStays, UNCHANGED <<keys, tail>> \/ DropQueue, UNCHANGED proc,
           up' = up \/ (up' = <<>> /\ srv'.conn = 0), down' \in Seq(Downstream), AcksKept,
           proc.kind = "reconnect" /\ entry'.state = "active" => entry'.view = entry.view /\ entry'.pump = entry.pump
    PROVE  RuntimeInv'
<1>1. Plain
  BY IsPlain DEF RuntimeInv, KeyInv
<1>2. ProcSame
  BY DEF RuntimeInv, ProcInv, ProcSame
<1>. QED  BY <1>1, <1>2, EntryStep

\* A step of the server or the wire alone.
LEMMA ServerStep ==
    ASSUME RuntimeInv, ServerStays, UNCHANGED <<entry, keys, tail, proc>>,
           up' = up \/ (up' = <<>> /\ srv'.conn = 0), down' \in Seq(Downstream), AcksKept
    PROVE  RuntimeInv'
<1>1. entry.state = "detached" => srv'.conn # entry.fence
  BY StillDetached DEF ServerStays
<1>2. Follows
  BY <1>1, SameFollows DEF RuntimeInv, EntryInv
<1>. QED  BY <1>2, QuietStep

\* The attachment is lost to a timer or a frame.
LEMMA LosingStep ==
    ASSUME RuntimeInv, entry.state # "none", NEW st \in {"interrupted", "failed"}, NEW r,
           r = Lose(entry, st), Fields \subseteq DOMAIN entry', entry'.state = st,
           entry'.fence = r.fence, entry'.wire = r.wire, entry'.pend = r.pend, entry'.hist = r.hist,
           entry'.first = r.first, entry'.rev \in {r.rev, r.rev + 1}, entry'.cont \in {r.cont, "uncertain"},
           ServerStays, UNCHANGED <<keys, tail, up, proc>>,
           down' = down \/ (down # <<>> /\ down' = Tail(down))
    PROVE  RuntimeInv'
<1>1. Follows
  BY LosingFollows DEF RuntimeInv
<1>2. down' \in Seq(Downstream) /\ AcksKept
  BY FramesKept DEF RuntimeInv, KeyInv
<1>. QED  BY <1>1, <1>2, QuietStep

LEMMA ExpireStep ==
    ASSUME RuntimeInv, entry.state = "active", NEW st \in {"interrupted", "failed"},
           entry' = Lose(entry, st), Close({entry.fence}), UNCHANGED <<keys, tail, up, proc, down>>
    PROVE  RuntimeInv'
<1>1. Fields \subseteq DOMAIN entry' /\ entry'.state = st
  BY LoseIs DEF RuntimeInv, EntryInv
<1>2. ServerStays
  BY ServerCloses DEF RuntimeInv, KeyInv
<1>. QED  BY <1>1, <1>2, LosingStep

LEMMA TimerSteps ==
    ASSUME RuntimeInv, HeartbeatExpires \/ AcknowledgementExpires \/ ViewExpires
    PROVE  RuntimeInv'
BY ExpireStep DEF HeartbeatExpires, AcknowledgementExpires, ViewExpires, Expire

LEMMA FailureFields ==
    ASSUME EntryInv, NEW r, r = Lose(entry, "failed")
    PROVE  /\ Fields \subseteq DOMAIN ProtocolFailure(entry) /\ ProtocolFailure(entry).state = "failed"
           /\ ProtocolFailure(entry).fence = r.fence /\ ProtocolFailure(entry).wire = r.wire
           /\ ProtocolFailure(entry).pend = r.pend /\ ProtocolFailure(entry).hist = r.hist
           /\ ProtocolFailure(entry).first = r.first /\ ProtocolFailure(entry).rev = r.rev /\ ProtocolFailure(entry).cont = r.cont
<1>1. {"state", "rev", "fence", "wire", "pend", "hist", "cont", "view", "pump", "first"} \subseteq DOMAIN r /\ r.state = "failed"
  BY LoseIs DEF EntryInv, Fields
<1>. QED  BY <1>1 DEF ProtocolFailure, Fields

LEMMA RevokedFields ==
    ASSUME EntryInv, NEW r, r = Lose(entry, "interrupted")
    PROVE  /\ Fields \subseteq DOMAIN Revoked(entry) /\ Revoked(entry).state = "interrupted"
           /\ Revoked(entry).fence = r.fence /\ Revoked(entry).wire = r.wire
           /\ Revoked(entry).pend = r.pend /\ Revoked(entry).hist = r.hist
           /\ Revoked(entry).first = r.first /\ Revoked(entry).rev = r.rev /\ Revoked(entry).cont = r.cont
<1>1. {"state", "rev", "fence", "wire", "pend", "hist", "cont", "view", "pump", "first"} \subseteq DOMAIN r /\ r.state = "interrupted"
  BY LoseIs DEF EntryInv, Fields
<1>. QED  BY <1>1 DEF Revoked, Fields

\* What Apply does to the rest.
LEMMA ApplyIs ==
    ASSUME RuntimeInv, NEW e, Apply(e), down # <<>>
    PROVE  /\ entry' = e /\ ServerStays /\ UNCHANGED <<keys, tail, up, proc>>
           /\ down' = Tail(down) /\ down' \in Seq(Downstream) /\ AcksKept
<1>1. ServerStays
  BY ServerSame, ServerCloses DEF Apply, RuntimeInv, KeyInv
<1>2. down' = Tail(down)
  BY DEF Apply
<1>3. down' \in Seq(Downstream) /\ AcksKept
  BY <1>2, FramesKept DEF RuntimeInv, KeyInv
<1>. QED  BY <1>1, <1>2, <1>3 DEF Apply

LEMMA ApplyFailure ==
    ASSUME RuntimeInv, entry.state # "none", down # <<>>,
           Apply(ProtocolFailure(entry)) \/ Apply(Revoked(entry))
    PROVE  RuntimeInv'
<1>. USE DEF RuntimeInv
<1>1. CASE Apply(ProtocolFailure(entry))
  <2>1. /\ entry' = ProtocolFailure(entry) /\ ServerStays /\ UNCHANGED <<keys, tail, up, proc>>
        /\ down' = Tail(down)
    BY <1>1, ApplyIs
  <2>. QED  BY <2>1, FailureFields, LosingStep
<1>2. CASE Apply(Revoked(entry))
  <2>1. /\ entry' = Revoked(entry) /\ ServerStays /\ UNCHANGED <<keys, tail, up, proc>>
        /\ down' = Tail(down)
    BY <1>2, ApplyIs
  <2>. QED  BY <2>1, RevokedFields, LosingStep
<1>. QED  BY <1>1, <1>2

\* A pump reads for the attachment of its own revision, so no reconnection is under way that has not finished.
LEMMA PumpIsPast ==
    ASSUME RuntimeInv, Live
    PROVE  entry.state # "none" /\ entry.state # "detached" /\ (entry.state = "active" => proc.kind # "reconnect")
BY DEF RuntimeInv, Live, ProcInv

\* A frame changes what the invariant does not speak of, or retires input.
LEMMA FrameStep ==
    ASSUME RuntimeInv, Live, down # <<>>, NEW e, Apply(e),
           Fields \subseteq DOMAIN e, e.state = entry.state,
           e.fence = entry.fence, e.wire = entry.wire, e.first = entry.first, e.rev = entry.rev,
           \/ e.pend = entry.pend /\ e.hist = entry.hist /\ e.cont = entry.cont
           \/ e.pend = Retire(entry).pend /\ e.hist = Retire(entry).hist /\ e.cont = Retire(entry).cont
    PROVE  RuntimeInv'
<1>1. /\ entry' = e /\ ServerStays /\ UNCHANGED <<keys, tail, up, proc>>
      /\ down' = Tail(down) /\ down' \in Seq(Downstream) /\ AcksKept
  BY ApplyIs
<1>2. Follows
  BY <1>1, PumpIsPast, RetiringFollows DEF RuntimeInv
<1>3. proc.kind = "reconnect" /\ entry'.state = "active" => entry'.view = entry.view /\ entry'.pump = entry.pump
  BY <1>1, PumpIsPast
<1>. QED  BY <1>1, <1>2, <1>3, QuietStep

LEMMA OnViewStartedStep == ASSUME RuntimeInv, OnViewStarted PROVE RuntimeInv'
<1>1. Live /\ down # <<>> /\ entry.state # "none" /\ Fields \subseteq DOMAIN entry
  BY PumpIsPast DEF OnViewStarted, Frame, Pumping, RuntimeInv, EntryInv
<1>2. CASE Apply(ProtocolFailure(entry)) \/ Apply(Revoked(entry))
  BY <1>1, <1>2, ApplyFailure
<1>3. ASSUME NEW e, e = [entry EXCEPT !.view = "started"], Apply(e)
      PROVE  RuntimeInv'
  <2>1. /\ Fields \subseteq DOMAIN e /\ e.state = entry.state
        /\ e.fence = entry.fence /\ e.wire = entry.wire /\ e.first = entry.first /\ e.rev = entry.rev
        /\ e.pend = entry.pend /\ e.hist = entry.hist /\ e.cont = entry.cont
    BY <1>1, <1>3 DEF Fields
  <2>. QED  BY <1>1, <1>3, <2>1, FrameStep
<1>. QED  BY <1>2, <1>3 DEF OnViewStarted

LEMMA OnViewReadyStep == ASSUME RuntimeInv, OnViewReady PROVE RuntimeInv'
<1>1. Live /\ down # <<>> /\ entry.state # "none" /\ Fields \subseteq DOMAIN entry
  BY PumpIsPast DEF OnViewReady, Frame, Pumping, RuntimeInv, EntryInv
<1>2. CASE Apply(ProtocolFailure(entry))
  BY <1>1, <1>2, ApplyFailure
<1>3. ASSUME NEW e, e = [entry EXCEPT !.view = "ready"], Apply(e)
      PROVE  RuntimeInv'
  <2>1. /\ Fields \subseteq DOMAIN e /\ e.state = entry.state
        /\ e.fence = entry.fence /\ e.wire = entry.wire /\ e.first = entry.first /\ e.rev = entry.rev
        /\ e.pend = entry.pend /\ e.hist = entry.hist /\ e.cont = entry.cont
    BY <1>1, <1>3 DEF Fields
  <2>. QED  BY <1>1, <1>3, <2>1, FrameStep
<1>. QED  BY <1>2, <1>3 DEF OnViewReady

LEMMA OnOutputStep == ASSUME RuntimeInv, OnOutput PROVE RuntimeInv'
<1>1. Live /\ down # <<>> /\ entry.state # "none" /\ Fields \subseteq DOMAIN entry
  BY PumpIsPast DEF OnOutput, Frame, Pumping, RuntimeInv, EntryInv
<1>2. CASE Apply(ProtocolFailure(entry)) \/ Apply(Revoked(entry))
  BY <1>1, <1>2, ApplyFailure
<1>3. CASE Apply(entry)
  BY <1>1, <1>3, FrameStep
<1>. QED  BY <1>2, <1>3 DEF OnOutput

LEMMA OnGeometryStep == ASSUME RuntimeInv, OnGeometry PROVE RuntimeInv'
<1>1. Live /\ down # <<>> /\ entry.state # "none" /\ Fields \subseteq DOMAIN entry
  BY PumpIsPast DEF OnGeometry, Frame, Pumping, RuntimeInv, EntryInv
<1>2. CASE Apply(ProtocolFailure(entry))
  BY <1>1, <1>2, ApplyFailure
<1>3. CASE Apply(entry)
  BY <1>1, <1>3, FrameStep
<1>. QED  BY <1>2, <1>3 DEF OnGeometry

\* A newer epoch retires accepted input, the one known already nothing.
LEMMA OnWriterEpochStep == ASSUME RuntimeInv, OnWriterEpoch PROVE RuntimeInv'
<1>1. Live /\ down # <<>> /\ entry.state # "none" /\ Fields \subseteq DOMAIN entry
  BY PumpIsPast DEF OnWriterEpoch, Frame, Pumping, RuntimeInv, EntryInv
<1>. DEFINE f == Head(down)
            turned == [(IF f.epoch # entry.epoch THEN Retire(entry) ELSE entry) EXCEPT
                          !.notice = <<f.epoch, f.mode>>, !.mode = f.mode, !.epoch = f.epoch, !.holder = f.holder,
                          !.ask = IF @ # <<>> /\ f.epoch > @[1] THEN <<>> ELSE @]
<1>2. Apply(ProtocolFailure(entry)) \/ Apply(entry) \/ Apply(turned)
  BY DEF OnWriterEpoch
<1>3. CASE Apply(ProtocolFailure(entry))
  BY <1>1, <1>3, ApplyFailure
<1>4. CASE Apply(entry)
  BY <1>1, <1>4, FrameStep
<1>5. CASE Apply(turned)
  <2>1. ASSUME NEW o, {"state", "rev", "fence", "wire", "pend", "hist", "cont", "view", "pump", "first"} \subseteq DOMAIN o,
               NEW x1, NEW x2, NEW x3, NEW x4, NEW x5
        PROVE  LET t == [o EXCEPT !.notice = x1, !.mode = x2, !.epoch = x3, !.holder = x4, !.ask = x5] IN
               /\ Fields \subseteq DOMAIN t /\ t.state = o.state
               /\ t.fence = o.fence /\ t.wire = o.wire /\ t.first = o.first /\ t.rev = o.rev
               /\ t.pend = o.pend /\ t.hist = o.hist /\ t.cont = o.cont
    BY <2>1 DEF Fields
  <2>2. PICK o : /\ o = (IF f.epoch # entry.epoch THEN Retire(entry) ELSE entry)
                 /\ {"state", "rev", "fence", "wire", "pend", "hist", "cont", "view", "pump", "first"} \subseteq DOMAIN o
                 /\ o.state = entry.state /\ o.fence = entry.fence /\ o.wire = entry.wire /\ o.first = entry.first /\ o.rev = entry.rev
                 /\ \/ o.pend = entry.pend /\ o.hist = entry.hist /\ o.cont = entry.cont
                    \/ o.pend = Retire(entry).pend /\ o.hist = Retire(entry).hist /\ o.cont = Retire(entry).cont
    BY <1>1, RetireIs DEF Fields
  <2>3. PICK x5 : turned = [o EXCEPT !.notice = <<f.epoch, f.mode>>, !.mode = f.mode, !.epoch = f.epoch, !.holder = f.holder, !.ask = x5]
    BY <2>2
  <2>4. /\ Fields \subseteq DOMAIN turned /\ turned.state = o.state
        /\ turned.fence = o.fence /\ turned.wire = o.wire /\ turned.first = o.first /\ turned.rev = o.rev
        /\ turned.pend = o.pend /\ turned.hist = o.hist /\ turned.cont = o.cont
    BY <2>1, <2>2, <2>3
  <2>. HIDE DEF turned, f
  <2>. QED  BY <1>1, <1>5, <2>2, <2>4, FrameStep
<1>. QED  BY <1>2, <1>3, <1>4, <1>5

LEMMA WriteDoneStep == ASSUME RuntimeInv, WriteDone PROVE RuntimeInv'
<1>. USE DEF RuntimeInv
<1>1. Fields \subseteq DOMAIN entry
  BY DEF EntryInv
<1>2. /\ Fields \subseteq DOMAIN entry' /\ entry'.state = entry.state
      /\ entry'.fence = entry.fence /\ entry'.wire = entry.wire /\ entry'.first = entry.first /\ entry'.rev = entry.rev
      /\ entry'.pend = entry.pend /\ entry'.hist = entry.hist /\ entry'.cont = entry.cont
      /\ entry'.view = entry.view /\ entry'.pump \in {entry.pump, 0}
  BY <1>1 DEF WriteDone, Fields
<1>3. UNCHANGED <<proc, keys, tail, up, down, srv>>
  BY DEF WriteDone
<1>4. ServerStays /\ down' \in Seq(Downstream) /\ AcksKept
  BY <1>3, ServerSame, FramesKept DEF KeyInv
<1>5. Follows
  BY <1>2, <1>4, SameFollows, StillDetached DEF ServerStays
<1>6. proc.kind = "reconnect" /\ entry'.state = "active" => entry'.pump = entry.pump
  BY <1>2 DEF ProcInv
<1>. QED  BY <1>2, <1>3, <1>4, <1>5, <1>6, QuietStep

LEMMA WriteExpiresStep == ASSUME RuntimeInv, WriteExpires PROVE RuntimeInv'
<1>. USE DEF RuntimeInv
<1>1. entry' = [Lose(entry, "failed") EXCEPT !.pump = 0] /\ Close({entry.fence}) /\ UNCHANGED <<proc, keys, tail, up, down>>
  BY DEF WriteExpires
<1>2. PICK r : /\ r = Lose(entry, "failed") /\ r.state = "failed"
               /\ {"state", "rev", "fence", "wire", "pend", "hist", "cont", "view", "pump", "first"} \subseteq DOMAIN r
  BY LoseIs DEF EntryInv, Fields
<1>3. /\ Fields \subseteq DOMAIN entry' /\ entry'.state = "failed"
      /\ entry'.fence = r.fence /\ entry'.wire = r.wire /\ entry'.pend = r.pend
      /\ entry'.hist = r.hist /\ entry'.first = r.first /\ entry'.rev = r.rev /\ entry'.cont = r.cont
  <2>1. entry' = [r EXCEPT !.pump = 0]
    BY <1>1, <1>2
  <2>. QED  BY <1>2, <2>1 DEF Fields
<1>4. ServerStays
  BY <1>1, ServerCloses DEF KeyInv
<1>5. entry.state # "none"
  BY PumpIsPast DEF WriteExpires
<1>. QED  BY <1>1, <1>2, <1>3, <1>4, <1>5, LosingStep

LEMMA OnEndStep == ASSUME RuntimeInv, OnEnd PROVE RuntimeInv'
<1>. USE DEF RuntimeInv
<1>1. entry' = Lose(entry, "interrupted") /\ UNCHANGED <<proc, keys, tail, up, down, srv>> /\ entry.state = "active"
  BY DEF OnEnd
<1>2. Fields \subseteq DOMAIN entry' /\ entry'.state = "interrupted"
  BY <1>1, LoseIs DEF EntryInv
<1>3. ServerStays
  BY <1>1, ServerSame DEF KeyInv
<1>. QED  BY <1>1, <1>2, <1>3, LosingStep

-----------------------------------------------------------------------------
(* The seat, the gateway and the network *)

LEMMA TakeAskStep == ASSUME RuntimeInv, TakeAsk PROVE RuntimeInv'
<1>. USE DEF RuntimeInv
<1>1. PICK op : entry' = [entry EXCEPT !.ask = op]
  BY DEF TakeAsk
<1>2. UNCHANGED <<proc, keys, tail, up, down, srv>> /\ Fields \subseteq DOMAIN entry
  BY DEF TakeAsk, EntryInv
<1>3. /\ Fields \subseteq DOMAIN entry' /\ entry'.state = entry.state
      /\ entry'.fence = entry.fence /\ entry'.wire = entry.wire /\ entry'.first = entry.first /\ entry'.rev = entry.rev
      /\ entry'.pend = entry.pend /\ entry'.hist = entry.hist /\ entry'.cont = entry.cont
      /\ entry'.view = entry.view /\ entry'.pump = entry.pump
  BY <1>1, <1>2 DEF Fields
<1>4. ServerStays /\ down' \in Seq(Downstream) /\ AcksKept
  BY <1>2, ServerSame, FramesKept DEF KeyInv
<1>5. Follows
  BY <1>3, <1>4, SameFollows, StillDetached DEF ServerStays
<1>. QED  BY <1>2, <1>3, <1>4, <1>5, QuietStep

LEMMA TakeReplyStep == ASSUME RuntimeInv, TakeReply PROVE RuntimeInv'
<1>. USE DEF RuntimeInv
<1>1. UNCHANGED <<proc, keys, tail, up, down, srv>> /\ Fields \subseteq DOMAIN entry
  BY DEF TakeReply, EntryInv
<1>2. \/ entry' = entry
      \/ entry' = [entry EXCEPT !.ask = <<>>]
      \/ \E o \in {entry, Retire(entry)} : entry' = [o EXCEPT !.epoch = take.expected + 1, !.holder = Me]
  BY DEF TakeReply
<1>3. /\ Fields \subseteq DOMAIN entry' /\ entry'.state = entry.state
      /\ entry'.fence = entry.fence /\ entry'.wire = entry.wire /\ entry'.first = entry.first /\ entry'.rev = entry.rev
      /\ \/ entry'.pend = entry.pend /\ entry'.hist = entry.hist /\ entry'.cont = entry.cont
         \/ entry'.pend = Retire(entry).pend /\ entry'.hist = Retire(entry).hist /\ entry'.cont = Retire(entry).cont
      /\ entry'.view = entry.view /\ entry'.pump = entry.pump
  <2>1. CASE entry' = entry \/ entry' = [entry EXCEPT !.ask = <<>>]
    BY <1>1, <2>1 DEF Fields
  <2>2. ASSUME NEW o \in {entry, Retire(entry)}, entry' = [o EXCEPT !.epoch = take.expected + 1, !.holder = Me]
        PROVE  /\ Fields \subseteq DOMAIN entry' /\ entry'.state = entry.state
              /\ entry'.fence = entry.fence /\ entry'.wire = entry.wire /\ entry'.first = entry.first /\ entry'.rev = entry.rev
              /\ \/ entry'.pend = entry.pend /\ entry'.hist = entry.hist /\ entry'.cont = entry.cont
                 \/ entry'.pend = Retire(entry).pend /\ entry'.hist = Retire(entry).hist /\ entry'.cont = Retire(entry).cont
              /\ entry'.view = entry.view /\ entry'.pump = entry.pump
    <3>1. /\ {"state", "rev", "fence", "wire", "pend", "hist", "cont", "view", "pump", "first"} \subseteq DOMAIN o
          /\ o.state = entry.state /\ o.fence = entry.fence /\ o.wire = entry.wire /\ o.first = entry.first /\ o.rev = entry.rev
          /\ o.view = entry.view /\ o.pump = entry.pump
          /\ \/ o.pend = entry.pend /\ o.hist = entry.hist /\ o.cont = entry.cont
             \/ o.pend = Retire(entry).pend /\ o.hist = Retire(entry).hist /\ o.cont = Retire(entry).cont
      BY <1>1, <2>2, RetireIs DEF Fields
    <3>2. /\ Fields \subseteq DOMAIN entry' /\ entry'.state = o.state
          /\ entry'.fence = o.fence /\ entry'.wire = o.wire /\ entry'.first = o.first /\ entry'.rev = o.rev
          /\ entry'.pend = o.pend /\ entry'.hist = o.hist /\ entry'.cont = o.cont
          /\ entry'.view = o.view /\ entry'.pump = o.pump
      BY <2>2, <3>1 DEF Fields
    <3>. QED  BY <3>1, <3>2
  <2>. QED  BY <1>2, <2>1, <2>2
<1>4. ServerStays /\ down' \in Seq(Downstream) /\ AcksKept
  BY <1>1, ServerSame, FramesKept DEF KeyInv
<1>5. Follows
  BY <1>3, <1>4, RetiringFollows, StillDetached DEF ServerStays
<1>. QED  BY <1>1, <1>3, <1>4, <1>5, QuietStep

\* The seat moves: the frames that say so are no acknowledgements.
LEMMA SeatFrames ==
    ASSUME KeyTypes, NEW m \in {"writer", "observer"}, NEW c \in {Me, Other}, NEW n \in Nat,
           down' = down \o <<[t |-> "writer_epoch", epoch |-> n, mode |-> m, holder |-> c],
                         [t |-> "control_state", epoch |-> n]>>
    PROVE  down' \in Seq(Downstream) /\ AcksKept
<1>. DEFINE a == [t |-> "writer_epoch", epoch |-> n, mode |-> m, holder |-> c]
            b == [t |-> "control_state", epoch |-> n]
<1>1. a \in Downstream /\ b \in Downstream /\ a.t # "acknowledgement" /\ b.t # "acknowledgement"
  BY DEF Downstream
<1>2. down \in Seq(Downstream) /\ Len(down) \in Nat /\ DOMAIN down = 1..Len(down)
  BY DEF KeyTypes
<1>3. down' = down \o <<a, b>>
  OBVIOUS
<1>. HIDE DEF a, b
<1>4. <<a, b>> \in Seq(Downstream) /\ Len(<<a, b>>) = 2 /\ <<a, b>>[1] = a /\ <<a, b>>[2] = b
  BY <1>1
<1>5. /\ down' \in Seq(Downstream) /\ Len(down') = Len(down) + 2
      /\ \A i \in 1..(Len(down) + 2) : down'[i] = IF i <= Len(down) THEN down[i] ELSE <<a, b>>[i - Len(down)]
  BY <1>2, <1>3, <1>4, ConcatProperties
<1>6. DOMAIN down' = 1..(Len(down) + 2)
  BY <1>5
<1>7. ASSUME NEW i \in DOMAIN down', down'[i].t = "acknowledgement"
      PROVE  \E j \in DOMAIN down : down[j] = down'[i]
  <2>1. CASE i <= Len(down)
    BY <2>1, <1>2, <1>5, <1>6
  <2>2. CASE i = Len(down) + 1
    <3>1. down'[i] = a
      BY <2>2, <1>2, <1>4, <1>5, <1>6
    <3>. QED  BY <3>1, <1>1, <1>7
  <2>3. CASE i = Len(down) + 2
    <3>1. down'[i] = b
      BY <2>3, <1>2, <1>4, <1>5, <1>6, SMTT(30)
    <3>. QED  BY <3>1, <1>1, <1>7
  <2>. QED  BY <2>1, <2>2, <2>3, <1>2, <1>6
<1>. QED  BY <1>5, <1>7 DEF AcksKept

LEMMA HistGrows ==
    ASSUME KeyTypes, NEW c \in {Me, Other}
    PROVE  Append(srv.hist, c) \in Seq({Me, Other}) /\ SrvEpoch + 1 \in Nat
BY DEF KeyTypes, SrvEpoch

LEMMA TakeSendStep == ASSUME RuntimeInv, TakeSend PROVE RuntimeInv'
<1>. USE DEF RuntimeInv, KeyInv
<1>1. UNCHANGED <<entry, proc, keys, tail, up>>
  BY DEF TakeSend
<1>2. CASE UNCHANGED <<srv, down>>
  BY <1>1, <1>2, ServerSame, FramesKept, ServerStep
<1>3. CASE ~UNCHANGED <<srv, down>>
  <2>1. /\ srv' = [srv EXCEPT !.hist = Append(@, Me), !.committed = @ \cup {take.expected}]
        /\ down' = IF srv.conn = 0 THEN down
                   ELSE down \o <<[t |-> "writer_epoch", epoch |-> SrvEpoch + 1, mode |-> "writer", holder |-> Me],
                                  [t |-> "control_state", epoch |-> SrvEpoch + 1]>>
    BY <1>3 DEF TakeSend
  <2>2. ServerStays
    BY <2>1, HistGrows DEF KeyTypes, ServerStays
  <2>3. down' \in Seq(Downstream) /\ AcksKept
    <3>1. CASE srv.conn = 0
      BY <2>1, <3>1, FramesKept
    <3>2. CASE srv.conn # 0
      <4>1. down' = down \o <<[t |-> "writer_epoch", epoch |-> SrvEpoch + 1, mode |-> "writer", holder |-> Me],
                              [t |-> "control_state", epoch |-> SrvEpoch + 1]>>
        BY <2>1, <3>2
      <4>2. "writer" \in {"writer", "observer"} /\ Me \in {Me, Other} /\ SrvEpoch + 1 \in Nat
        BY HistGrows
      <4>. QED  BY <4>1, <4>2, SeatFrames
    <3>. QED  BY <3>1, <3>2
  <2>. QED  BY <1>1, <2>2, <2>3, ServerStep
<1>. QED  BY <1>2, <1>3

LEMMA RivalTakesStep == ASSUME RuntimeInv, RivalTakes PROVE RuntimeInv'
<1>. USE DEF RuntimeInv, KeyInv
<1>1. UNCHANGED <<entry, proc, keys, tail, up>>
  BY DEF RivalTakes
<1>2. /\ srv' = [srv EXCEPT !.hist = Append(@, Other)]
      /\ down' = IF srv.conn = 0 THEN down
                 ELSE down \o <<[t |-> "writer_epoch", epoch |-> SrvEpoch + 1, mode |-> "observer", holder |-> Other],
                                [t |-> "control_state", epoch |-> SrvEpoch + 1]>>
  BY DEF RivalTakes
<1>3. ServerStays
  BY <1>2, HistGrows DEF KeyTypes, ServerStays
<1>4. down' \in Seq(Downstream) /\ AcksKept
  <2>1. CASE srv.conn = 0
    BY <1>2, <2>1, FramesKept
  <2>2. CASE srv.conn # 0
    <3>1. down' = down \o <<[t |-> "writer_epoch", epoch |-> SrvEpoch + 1, mode |-> "observer", holder |-> Other],
                            [t |-> "control_state", epoch |-> SrvEpoch + 1]>>
      BY <1>2, <2>2
    <3>2. "observer" \in {"writer", "observer"} /\ Other \in {Me, Other} /\ SrvEpoch + 1 \in Nat
      BY HistGrows
    <3>. QED  BY <3>1, <3>2, SeatFrames
  <2>. QED  BY <2>1, <2>2
<1>. QED  BY <1>1, <1>3, <1>4, ServerStep

LEMMA GatewayOutputStep == ASSUME RuntimeInv, GatewayOutput PROVE RuntimeInv'
<1>. USE DEF RuntimeInv, KeyInv
<1>1. UNCHANGED <<entry, proc, keys, tail, up>>
  BY DEF GatewayOutput
<1>2. /\ srv' = [srv EXCEPT !.viewN = @ + 1]
      /\ down' = Append(down, [t |-> "output", n |-> srv.viewN + 1])
  BY DEF GatewayOutput
<1>3. ServerStays
  BY <1>2 DEF KeyTypes, ServerStays
<1>4. down' \in Seq(Downstream) /\ AcksKept
  <2>1. PICK f : f = [t |-> "output", n |-> srv.viewN + 1]
    OBVIOUS
  <2>2. f \in Downstream /\ f.t # "acknowledgement"
    BY <2>1 DEF Downstream, KeyTypes
  <2>. QED  BY <1>2, <2>1, <2>2, FrameAdded DEF AcksKept
<1>. QED  BY <1>1, <1>3, <1>4, ServerStep

LEMMA ProcessEndsStep == ASSUME RuntimeInv, ProcessEnds PROVE RuntimeInv'
<1>. USE DEF RuntimeInv, KeyInv
<1>1. UNCHANGED <<entry, proc, keys, tail, up>>
  BY DEF ProcessEnds
<1>2. /\ srv' = [srv EXCEPT !.process = 2]
      /\ down' \in {down, Append(down, [t |-> "exit"])}
  BY DEF ProcessEnds
<1>3. ServerStays
  BY <1>2 DEF KeyTypes, ServerStays
<1>4. down' \in Seq(Downstream) /\ AcksKept
  <2>1. PICK f : f = [t |-> "exit"]
    OBVIOUS
  <2>2. f \in Downstream /\ f.t # "acknowledgement"
    BY <2>1 DEF Downstream
  <2>. QED  BY <1>2, <2>1, <2>2, FrameAdded, FramesKept DEF AcksKept
<1>. QED  BY <1>1, <1>3, <1>4, ServerStep

LEMMA TransportDropsStep == ASSUME RuntimeInv, TransportDrops PROVE RuntimeInv'
<1>. USE DEF RuntimeInv, KeyInv
<1>1. UNCHANGED <<entry, proc, keys, tail>> /\ up' = <<>> /\ srv' = [srv EXCEPT !.conn = 0]
  BY DEF TransportDrops
<1>2. ServerStays /\ srv'.conn = 0
  BY <1>1 DEF KeyTypes, ServerStays
<1>3. PICK n \in 0..Len(down) : down' = SubSeq(down, 1, n)
  BY DEF TransportDrops
<1>4. down \in Seq(Downstream) /\ Len(down) \in Nat /\ DOMAIN down = 1..Len(down)
  BY DEF KeyTypes
<1>5. \A i \in 1..n : down[i] \in Downstream
  BY <1>4
<1>6. /\ down' \in Seq(Downstream) /\ Len(down') = IF 1 <= n THEN n - 1 + 1 ELSE 0
      /\ \A i \in 1..(n - 1 + 1) : down'[i] = down[1 + i - 1]
  BY <1>3, <1>4, <1>5, SubSeqProperties
<1>7. DOMAIN down' = 1..n
  BY <1>4, <1>6
<1>8. AcksKept
  <2>1. \A i \in DOMAIN down' : i \in DOMAIN down /\ down'[i] = down[i]
    BY <1>4, <1>6, <1>7
  <2>. QED  BY <2>1 DEF AcksKept
<1>. QED  BY <1>1, <1>2, <1>6, <1>8, ServerStep

\* The gateway takes the first message off the wire.
LEMMA GatewayStep ==
    ASSUME RuntimeInv, UNCHANGED <<entry, proc, keys, tail>>, srv.conn # 0, up # <<>>, up' = Tail(up),
           srv'.fence = srv.fence, srv'.conn \in {srv.conn, 0}, KeyInv', StoryInv',
           proc.ph = "commit" => NothingUnderWay'
    PROVE  RuntimeInv'
<1>. USE DEF RuntimeInv
<1>1. \A i \in DOMAIN up' : i + 1 \in DOMAIN up /\ up'[i] = up[i + 1]
  BY TailIs DEF KeyInv, KeyTypes
<1>2. \A i \in DOMAIN up' : IsInput(i)' => IsInput(i + 1)
  BY <1>1 DEF IsInput
<1>3. ConnInv'
  BY <1>1, <1>2, StillDetached DEF ConnInv
<1>4. EntryInv' /\ FenceInv'
  <2>1. 0 <= srv.fence
    BY DEF KeyInv, KeyTypes
  <2>. QED  BY <2>1 DEF EntryInv, FenceInv
<1>5. ProcInv'
  BY DEF ProcInv
<1>. QED  BY <1>3, <1>4, <1>5

LEMMA GatewayResumeStep == ASSUME RuntimeInv, GatewayResume PROVE RuntimeInv'
<1>. USE DEF RuntimeInv
<1>1. /\ UNCHANGED <<entry, proc, keys, tail>> /\ srv.conn # 0 /\ up # <<>> /\ up' = Tail(up)
      /\ Head(up).t = "resume" /\ srv' = [srv EXCEPT !.viewN = 1]
      /\ down' = down \o <<[t |-> "view_started"], [t |-> "output", n |-> 1], [t |-> "view_ready", n |-> 1]>>
  BY DEF GatewayResume
<1>2. ServerStays /\ srv'.conn = srv.conn /\ srv'.accepted = srv.accepted
  BY <1>1 DEF KeyInv, KeyTypes, ServerStays
<1>3. down' \in Seq(Downstream) /\ AcksKept
  <2>0. PICK a, b, c : a = [t |-> "view_started"] /\ b = [t |-> "output", n |-> 1] /\ c = [t |-> "view_ready", n |-> 1]
    OBVIOUS
  <2>1. /\ a \in Downstream /\ b \in Downstream /\ c \in Downstream
        /\ a.t # "acknowledgement" /\ b.t # "acknowledgement" /\ c.t # "acknowledgement"
    BY <2>0 DEF Downstream
  <2>2. down \in Seq(Downstream) /\ Len(down) \in Nat /\ DOMAIN down = 1..Len(down)
    BY DEF KeyInv, KeyTypes
  <2>3. <<a, b, c>> \in Seq(Downstream) /\ Len(<<a, b, c>>) = 3 /\ down' = down \o <<a, b, c>>
    BY <1>1, <2>0, <2>1
  <2>4. \A i \in 1..3 : <<a, b, c>>[i].t # "acknowledgement"
    BY <2>1
  <2>5. /\ down' \in Seq(Downstream) /\ Len(down') = Len(down) + 3
        /\ \A i \in 1..(Len(down) + 3) : down'[i] = IF i <= Len(down) THEN down[i] ELSE <<a, b, c>>[i - Len(down)]
    BY <2>2, <2>3, ConcatProperties
  <2>6. DOMAIN down' = 1..(Len(down) + 3)
    BY <2>5
  <2>7. ASSUME NEW i \in DOMAIN down', down'[i].t = "acknowledgement"
        PROVE  \E j \in DOMAIN down : down[j] = down'[i]
    <3>1. CASE i <= Len(down)
      BY <3>1, <2>2, <2>5, <2>6
    <3>2. CASE i > Len(down)
      <4>1. i - Len(down) \in 1..3 /\ down'[i] = <<a, b, c>>[i - Len(down)]
        BY <3>2, <2>2, <2>5, <2>6
      <4>. QED  BY <4>1, <2>4, <2>7
    <3>. QED  BY <3>1, <3>2, <2>2, <2>6
  <2>. QED  BY <2>5, <2>7 DEF AcksKept
<1>4. /\ up \in Seq(Message) /\ up' \in Seq(Message) /\ DOMAIN up = 1..Len(up) /\ Len(up) \in Nat
      /\ Head(up) = up[1] /\ 1 \in DOMAIN up
      /\ DOMAIN up' = 1..(Len(up) - 1)
      /\ \A i \in DOMAIN up' : i \in Nat /\ i + 1 \in DOMAIN up /\ up'[i] = up[i + 1]
  BY <1>1, TailIs DEF KeyInv, KeyTypes
<1>5. KeyTypes'
  BY <1>1, <1>2, <1>3, <1>4 DEF KeyInv, KeyTypes, ServerStays
<1>6. KeyInv'
  BY <1>1, <1>2, <1>5, ArrivalKeepsOrder
<1>7. ~IsInput(1)
  BY <1>1, <1>4 DEF IsInput
<1>8. \A i \in DOMAIN up' : IsInput(i)' <=> IsInput(i + 1)
  BY <1>4 DEF IsInput
<1>9. ASSUME NEW j \in DOMAIN up, IsInput(j)
      PROVE  j - 1 \in DOMAIN up' /\ IsInput(j - 1)' /\ up'[j - 1] = up[j] /\ j \in Nat
  <2>1. j # 1
    BY <1>7, <1>9
  <2>2. j - 1 \in DOMAIN up' /\ (j - 1) + 1 = j
    BY <1>4, <2>1
  <2>. QED  BY <1>4, <1>8, <1>9, <2>2
<1>10. StoryInv'
  <2>1. PICK s \in [Key -> Nat] : entry.first # 0 /\ ~entry.hist => Told(s)
    BY DEF StoryInv
  <2>2. ASSUME Told(s)
        PROVE  Told(s)'
    <3>1. \A k \in Key : (Mine(k)' <=> Mine(k)) /\ (Accepted(k)' <=> Accepted(k))
      BY <1>1, <1>2 DEF Mine, Sent, Accepted
    <3>2. \A k \in Key : OnTheWire(k) => OnTheWire(k)'
      BY <1>9 DEF OnTheWire, IsInput
    <3>3. ASSUME NEW i \in DOMAIN down', down'[i].t = "acknowledgement"
          PROVE  /\ down'[i].n <= entry.wire
                 /\ \A k \in Key : Mine(k) /\ s[k] <= down'[i].n => Accepted(k)
      <4>1. PICK j \in DOMAIN down : down[j] = down'[i]
        BY <1>3, <3>3 DEF AcksKept
      <4>. QED  BY <2>2, <3>3, <4>1 DEF Told
    <3>4. ASSUME srv.conn = entry.fence, NEW i \in DOMAIN up', IsInput(i)'
          PROVE  /\ s[up'[i].key] = up'[i].seq
                 /\ \A k \in Key : Mine(k) /\ s[k] < up'[i].seq =>
                       Accepted(k) \/ \E j \in DOMAIN up' : j < i /\ IsInput(j)' /\ up'[j].key = k
      <4>1. IsInput(i + 1) /\ i + 1 \in DOMAIN up /\ up'[i] = up[i + 1] /\ i \in Nat
        BY <1>4, <1>8, <3>4
      <4>2. s[up[i + 1].key] = up[i + 1].seq
        BY <2>2, <3>4, <4>1 DEF Told
      <4>3. ASSUME NEW k \in Key, Mine(k), s[k] < up'[i].seq, ~Accepted(k)
            PROVE  \E j \in DOMAIN up' : j < i /\ IsInput(j)' /\ up'[j].key = k
        <5>1. PICK j \in DOMAIN up : j < i + 1 /\ IsInput(j) /\ up[j].key = k
          BY <2>2, <3>4, <4>1, <4>3 DEF Told
        <5>2. j - 1 \in DOMAIN up' /\ IsInput(j - 1)' /\ up'[j - 1] = up[j] /\ j - 1 < i
          BY <1>9, <4>1, <5>1
        <5>. QED  BY <5>1, <5>2
      <4>. QED  BY <4>1, <4>2, <4>3
    <3>5. srv.conn = entry.fence => \A k \in Key : Mine(k) => Accepted(k) \/ OnTheWire(k)
      BY <2>2 DEF Told
    <3>6. /\ \A k \in Key : Mine(k) => s[k] <= entry.wire /\ (Accepted(k) \/ s[k] \in entry.pend)
          /\ \A j, k \in Key : Mine(j) /\ Mine(k) /\ j # k => s[j] # s[k]
      BY <2>2 DEF Told
    <3>7. \A k \in Key : Mine(k)' => s[k] <= entry'.wire /\ (Accepted(k)' \/ s[k] \in entry'.pend)
      BY <1>1, <3>1, <3>6
    <3>8. \A j, k \in Key : Mine(j)' /\ Mine(k)' /\ j # k => s[j] # s[k]
      BY <3>1, <3>6
    <3>9. \A i \in DOMAIN down' : down'[i].t = "acknowledgement" =>
             /\ down'[i].n <= entry'.wire
             /\ \A k \in Key : Mine(k)' /\ s[k] <= down'[i].n => Accepted(k)'
      BY <1>1, <3>1, <3>3
    <3>10. srv'.conn = entry'.fence =>
             /\ \A i \in DOMAIN up' : IsInput(i)' =>
                   /\ s[up'[i].key] = up'[i].seq
                   /\ \A k \in Key : Mine(k)' /\ s[k] < up'[i].seq =>
                         Accepted(k)' \/ \E j \in DOMAIN up' : j < i /\ IsInput(j)' /\ up'[j].key = k
             /\ \A k \in Key : Mine(k)' => Accepted(k)' \/ OnTheWire(k)'
      BY <1>1, <1>2, <3>1, <3>2, <3>4, <3>5
    <3>. QED  BY <3>7, <3>8, <3>9, <3>10 DEF Told
  <2>. QED  BY <1>1, <2>1, <2>2 DEF StoryInv
<1>11. proc.ph = "commit" => NothingUnderWay'
  BY <1>3, <1>4, <1>8 DEF ProcInv, NothingUnderWay, AcksKept
<1>. QED  BY <1>1, <1>2, <1>6, <1>10, <1>11, GatewayStep DEF ServerStays

\* Input the gateway accepts is the oldest on the wire; what it acknowledges
\* is accepted with all that was sent before it.
LEMMA AcceptingStory ==
    ASSUME RuntimeInv, UNCHANGED <<entry, keys>>, srv.conn # 0, up # <<>>, up' = Tail(up),
           Head(up).t = "input", srv'.conn = srv.conn,
           srv'.accepted = Append(srv.accepted, <<Head(up).key, srv.conn>>),
           down' = Append(down, [t |-> "acknowledgement", n |-> Head(up).seq])
    PROVE  StoryInv'
<1>. USE DEF RuntimeInv
<1>1. /\ up \in Seq(Message) /\ DOMAIN up = 1..Len(up) /\ Len(up) \in Nat
      /\ Head(up) = up[1] /\ 1 \in DOMAIN up /\ DOMAIN up' = 1..(Len(up) - 1)
      /\ \A i \in DOMAIN up' : i \in Nat /\ i + 1 \in DOMAIN up /\ up'[i] = up[i + 1]
  BY TailIs DEF KeyInv, KeyTypes
<1>2. IsInput(1) /\ up[1] \in Message
  BY <1>1 DEF IsInput
<1>3. up[1].key \in Key /\ up[1].seq \in Nat
  BY <1>2 DEF IsInput, Message, Input
<1>4. Sent(up[1].key) /\ keys[up[1].key].fence = srv.conn /\ srv.conn = entry.fence
  BY <1>1, <1>2 DEF KeyInv, WireInOrder, ConnInv
<1>5. PICK key : key = up[1].key
  OBVIOUS
<1>6. PICK n : n = up[1].seq
  OBVIOUS
<1>7. \A k \in Key : (Mine(k)' <=> Mine(k)) /\ (Accepted(k)' <=> Accepted(k) \/ k = key)
  <2>1. srv.accepted \in Seq(Key \X Nat)
    BY DEF KeyInv, KeyTypes
  <2>2. srv'.accepted = Append(srv.accepted, <<key, srv.conn>>)
    BY <1>1, <1>5
  <2>3. \A k \in Key : Mine(k)' <=> Mine(k)
    BY DEF Mine, Sent
  <2>4. PICK last : last = Len(srv.accepted) + 1
    OBVIOUS
  <2>5. /\ last \in DOMAIN srv'.accepted /\ srv'.accepted[last] = <<key, srv.conn>>
        /\ DOMAIN srv.accepted \subseteq DOMAIN srv'.accepted
        /\ \A i \in DOMAIN srv.accepted : srv'.accepted[i] = srv.accepted[i]
        /\ \A i \in DOMAIN srv'.accepted : i \in DOMAIN srv.accepted \/ i = last
    BY ONLY <2>1, <2>2, <2>4, AppendIs
  <2>6. srv'.accepted[last][1] = key
    BY ONLY <2>5
  <2>7. ASSUME NEW k \in Key
        PROVE  Accepted(k)' <=> Accepted(k) \/ k = key
    BY ONLY <2>5, <2>6, Zenon DEF Accepted
  <2>. QED  BY <2>3, <2>7
<1>8. /\ down \in Seq(Downstream) /\ Len(down) \in Nat /\ DOMAIN down = 1..Len(down)
      /\ DOMAIN down' = 1..(Len(down) + 1) /\ down'[Len(down) + 1].n = n
      /\ \A i \in DOMAIN down : down'[i] = down[i]
  <2>1. PICK f : f = [t |-> "acknowledgement", n |-> Head(up).seq]
    OBVIOUS
  <2>2. f.n = n /\ down' = Append(down, f)
    BY <2>1, <1>1, <1>6
  <2>3. down \in Seq(Downstream) /\ Len(down) \in Nat /\ DOMAIN down = 1..Len(down)
    BY DEF KeyInv, KeyTypes
  <2>. QED  BY <2>2, <2>3
<1>9. \A i \in DOMAIN up' : IsInput(i)' <=> IsInput(i + 1)
  BY <1>1 DEF IsInput
<1>10. ASSUME NEW j \in DOMAIN up, IsInput(j), up[j].key # key
       PROVE  j - 1 \in DOMAIN up' /\ IsInput(j - 1)' /\ up'[j - 1] = up[j] /\ j \in Nat
  <2>1. j # 1
    BY <1>5, <1>10
  <2>2. j - 1 \in DOMAIN up' /\ (j - 1) + 1 = j
    BY <1>1, <2>1
  <2>. QED  BY <1>1, <1>9, <1>10, <2>2
<1>11. PICK s \in [Key -> Nat] : entry.first # 0 /\ ~entry.hist => Told(s)
  BY DEF StoryInv
<1>12. ASSUME entry.first # 0, Told(s)
       PROVE  Told(s)'
  <2>1. Mine(key) /\ key \in Key
    BY <1>3, <1>4, <1>5, <1>12 DEF Mine, EntryInv
  <2>2. s[key] = n /\ n <= entry.wire /\ n \in Nat
    BY <1>1, <1>2, <1>3, <1>4, <1>5, <1>6, <1>12, <2>1 DEF Told
  <2>3. \A k \in Key : Mine(k) /\ s[k] < n => Accepted(k)
    <3>1. \A k \in Key : Mine(k) /\ s[k] < up[1].seq => Accepted(k) \/ \E j \in DOMAIN up : j < 1 /\ IsInput(j) /\ up[j].key = k
      BY <1>1, <1>2, <1>4, <1>12 DEF Told
    <3>2. \A j \in DOMAIN up : ~(j < 1)
      BY <1>1
    <3>. QED  BY <3>1, <3>2, <1>6
  <2>4. \A k \in Key : Mine(k) /\ s[k] <= n => Accepted(k)'
    <3>1. ASSUME NEW k \in Key, Mine(k), s[k] <= n
          PROVE  Accepted(k)'
      <4>1. s[k] \in Nat
        BY <1>11
      <4>2. CASE s[k] < n
        BY <3>1, <4>2, <2>3, <1>7
      <4>3. CASE s[k] = n
        <5>1. k = key
          BY <3>1, <4>3, <2>1, <2>2, <1>12 DEF Told
        <5>. QED  BY <5>1, <1>7
      <4>. QED  BY <3>1, <4>1, <4>2, <4>3, <2>2
    <3>. QED  BY <3>1
  <2>5. ASSUME NEW i \in DOMAIN down', down'[i].t = "acknowledgement"
        PROVE  /\ down'[i].n <= entry.wire
               /\ \A k \in Key : Mine(k) /\ s[k] <= down'[i].n => Accepted(k)'
    <3>1. CASE i = Len(down) + 1
      BY <3>1, <1>8, <2>2, <2>4
    <3>2. CASE i \in DOMAIN down
      <4>1. down[i].t = "acknowledgement" /\ down'[i] = down[i]
        BY <3>2, <2>5, <1>8
      <4>2. down[i].n <= entry.wire /\ \A k \in Key : Mine(k) /\ s[k] <= down[i].n => Accepted(k)
        BY <3>2, <4>1, <1>12 DEF Told
      <4>. QED  BY <4>1, <4>2, <1>7
    <3>. QED  BY <3>1, <3>2, <1>8
  <2>6. ASSUME NEW i \in DOMAIN up', IsInput(i)'
        PROVE  /\ s[up'[i].key] = up'[i].seq
               /\ \A k \in Key : Mine(k) /\ s[k] < up'[i].seq =>
                     Accepted(k)' \/ \E j \in DOMAIN up' : j < i /\ IsInput(j)' /\ up'[j].key = k
    <3>1. IsInput(i + 1) /\ i + 1 \in DOMAIN up /\ up'[i] = up[i + 1] /\ i \in Nat
      BY <1>1, <1>9, <2>6
    <3>2. s[up[i + 1].key] = up[i + 1].seq
      BY <1>4, <1>12, <3>1 DEF Told
    <3>3. ASSUME NEW k \in Key, Mine(k), s[k] < up'[i].seq, ~Accepted(k)'
          PROVE  \E j \in DOMAIN up' : j < i /\ IsInput(j)' /\ up'[j].key = k
      <4>1. ~Accepted(k) /\ k # key
        BY <1>7, <3>3
      <4>2. PICK j \in DOMAIN up : j < i + 1 /\ IsInput(j) /\ up[j].key = k
        BY <1>4, <1>12, <3>1, <3>3, <4>1 DEF Told
      <4>3. j - 1 \in DOMAIN up' /\ IsInput(j - 1)' /\ up'[j - 1] = up[j] /\ j - 1 < i
        BY <1>10, <3>1, <4>1, <4>2
      <4>. QED  BY <4>2, <4>3
    <3>. QED  BY <3>1, <3>2, <3>3
  <2>7. ASSUME NEW k \in Key, Mine(k), ~Accepted(k)'
        PROVE  OnTheWire(k)'
    <3>1. ~Accepted(k) /\ k # key
      BY <1>7, <2>7
    <3>2. PICK j \in DOMAIN up : IsInput(j) /\ up[j].key = k
      BY <1>4, <1>12, <2>7, <3>1 DEF Told, OnTheWire
    <3>3. j - 1 \in DOMAIN up' /\ IsInput(j - 1)' /\ up'[j - 1].key = k
      BY <1>10, <3>1, <3>2
    <3>. QED  BY <3>3 DEF OnTheWire, IsInput
  <2>8. \A k \in Key : Mine(k)' => s[k] <= entry'.wire /\ (Accepted(k)' \/ s[k] \in entry'.pend)
    BY <1>7, <1>12 DEF Told
  <2>9. \A j, k \in Key : Mine(j)' /\ Mine(k)' /\ j # k => s[j] # s[k]
    BY <1>7, <1>12 DEF Told
  <2>10. \A i \in DOMAIN down' : down'[i].t = "acknowledgement" =>
           /\ down'[i].n <= entry'.wire
           /\ \A k \in Key : Mine(k)' /\ s[k] <= down'[i].n => Accepted(k)'
    BY <1>7, <2>5
  <2>11. srv'.conn = entry'.fence =>
           /\ \A i \in DOMAIN up' : IsInput(i)' =>
                 /\ s[up'[i].key] = up'[i].seq
                 /\ \A k \in Key : Mine(k)' /\ s[k] < up'[i].seq =>
                       Accepted(k)' \/ \E j \in DOMAIN up' : j < i /\ IsInput(j)' /\ up'[j].key = k
           /\ \A k \in Key : Mine(k)' => Accepted(k)' \/ OnTheWire(k)'
    BY <1>7, <2>6, <2>7
  <2>. QED  BY <2>8, <2>9, <2>10, <2>11 DEF Told
<1>. QED  BY <1>11, <1>12 DEF StoryInv

LEMMA GatewayInputStep == ASSUME RuntimeInv, GatewayInput PROVE RuntimeInv'
<1>. USE DEF RuntimeInv
<1>1. /\ UNCHANGED <<entry, proc, keys, tail>> /\ srv.conn # 0 /\ up # <<>> /\ up' = Tail(up) /\ Head(up).t = "input"
  BY DEF GatewayInput
<1>2. /\ up \in Seq(Message) /\ up' \in Seq(Message) /\ Head(up) = up[1] /\ 1 \in DOMAIN up /\ Head(up) \in Message
  BY <1>1, TailIs DEF KeyInv, KeyTypes
<1>3. IsInput(1) /\ Head(up).key \in Key /\ Head(up).seq \in Nat
  BY <1>1, <1>2 DEF IsInput, Message, Input
<1>4. proc.ph # "commit"
  BY <1>2, <1>3 DEF ProcInv, NothingUnderWay
<1>5. CASE srv' = [srv EXCEPT !.conn = 0] /\ down' = down
  <2>1. /\ srv'.conn = 0 /\ srv'.accepted = srv.accepted /\ srv'.fence = srv.fence
        /\ ServerStays /\ down' \in Seq(Downstream) /\ AcksKept
    BY <1>5, FramesKept DEF KeyInv, KeyTypes, ServerStays
  <2>2. KeyTypes'
    BY <1>1, <1>2, <2>1 DEF KeyInv, KeyTypes, ServerStays
  <2>3. KeyInv'
    BY <1>1, <2>1, <2>2, ArrivalKeepsOrder
  <2>4. StoryInv'
    <3>1. NothingSent
      BY <1>1, QuietKeys
    <3>2. entry'.first # 0 => entry'.fence # 0
      BY <1>1 DEF EntryInv
    <3>. QED  BY <1>1, <2>1, <3>1, <3>2, StoryStays DEF EntryInv, KeyInv
  <2>. QED  BY <1>1, <1>4, <2>1, <2>3, <2>4, GatewayStep
<1>6. CASE /\ srv' = [srv EXCEPT !.accepted = Append(@, <<Head(up).key, srv.conn>>)]
           /\ down' = Append(down, [t |-> "acknowledgement", n |-> Head(up).seq])
  <2>1. PICK p : p = <<Head(up).key, srv.conn>>
    OBVIOUS
  <2>2. p \in Key \X Nat
    BY <2>1, <1>3 DEF KeyInv, KeyTypes
  <2>3. srv'.accepted = Append(srv.accepted, p) /\ srv'.conn = srv.conn /\ srv'.fence = srv.fence
        /\ srv'.viewN = srv.viewN /\ srv'.hist = srv.hist /\ DOMAIN srv' = DOMAIN srv
    BY <1>6, <2>1 DEF KeyInv, KeyTypes
  <2>4. PICK f : f = [t |-> "acknowledgement", n |-> Head(up).seq]
    OBVIOUS
  <2>5. f \in Downstream
    BY <2>4, <1>3 DEF Downstream
  <2>6. down' \in Seq(Downstream)
    BY <1>6, <2>4, <2>5 DEF KeyInv, KeyTypes
  <2>7. KeyTypes'
    BY <1>1, <1>2, <2>2, <2>3, <2>6 DEF KeyInv, KeyTypes
  <2>8. KeyInv'
    BY <1>1, <2>1, <2>3, <2>7, ArrivalKeepsOrder
  <2>9. StoryInv'
    BY <1>1, <1>6, <2>1, <2>3, AcceptingStory
  <2>. QED  BY <1>1, <1>4, <2>3, <2>8, <2>9, GatewayStep
<1>. QED  BY <1>5, <1>6 DEF GatewayInput

-----------------------------------------------------------------------------
(* Receipts, the end of the process, and keys *)

\* A receipt certifies input the gateway has accepted, and only that.
LEMMA CertifyingStory ==
    ASSUME RuntimeInv, UNCHANGED <<srv, keys, up>>, down # <<>>, down' = Tail(down),
           Head(down).t = "acknowledgement", AcksKept,
           entry'.fence = entry.fence, entry'.first = entry.first, entry'.wire = entry.wire,
           entry'.hist = entry.hist, entry'.pend = {p \in entry.pend : p > Head(down).n}
    PROVE  StoryInv'
<1>. USE DEF RuntimeInv
<1>1. Head(down) = down[1] /\ 1 \in DOMAIN down /\ Head(down) \in Downstream
  BY TailIs DEF KeyInv, KeyTypes
<1>2. Head(down).n \in Nat
  BY <1>1 DEF Downstream
<1>3. PICK n : n = Head(down).n
  OBVIOUS
<1>4. PICK s \in [Key -> Nat] : entry.first # 0 /\ ~entry.hist => Told(s)
  BY DEF StoryInv
<1>5. ASSUME Told(s)
      PROVE  Told(s)'
  <2>1. \A k \in Key : Mine(k) /\ s[k] <= n => Accepted(k)
    BY <1>1, <1>3, <1>5 DEF Told
  <2>2. \A k \in Key : (Mine(k)' <=> Mine(k)) /\ (Accepted(k)' <=> Accepted(k)) /\ (OnTheWire(k)' <=> OnTheWire(k))
    BY DEF Mine, Sent, Accepted, OnTheWire, IsInput
  <2>3. ASSUME NEW k \in Key, Mine(k)
        PROVE  s[k] <= entry.wire /\ (Accepted(k) \/ s[k] \in entry'.pend)
    <3>1. s[k] <= entry.wire /\ (Accepted(k) \/ s[k] \in entry.pend) /\ s[k] \in Nat
      BY <1>4, <1>5, <2>3 DEF Told
    <3>2. s[k] <= n \/ s[k] > n
      BY <1>2, <1>3, <3>1
    <3>. QED  BY <1>3, <2>1, <2>3, <3>1, <3>2
  <2>4. ASSUME NEW i \in DOMAIN down', down'[i].t = "acknowledgement"
        PROVE  /\ down'[i].n <= entry.wire
               /\ \A k \in Key : Mine(k) /\ s[k] <= down'[i].n => Accepted(k)
    <3>1. PICK j \in DOMAIN down : down[j] = down'[i]
      BY <2>4 DEF AcksKept
    <3>. QED  BY <1>5, <2>4, <3>1 DEF Told
  <2>5. \A j, k \in Key : Mine(j) /\ Mine(k) /\ j # k => s[j] # s[k]
    BY <1>5 DEF Told
  <2>6. srv.conn = entry.fence =>
          /\ \A i \in DOMAIN up : IsInput(i) =>
                /\ s[up[i].key] = up[i].seq
                /\ \A k \in Key : Mine(k) /\ s[k] < up[i].seq =>
                      Accepted(k) \/ \E j \in DOMAIN up : j < i /\ IsInput(j) /\ up[j].key = k
          /\ \A k \in Key : Mine(k) => Accepted(k) \/ OnTheWire(k)
    BY <1>5 DEF Told
  <2>7. \A k \in Key : Mine(k)' => s[k] <= entry'.wire /\ (Accepted(k)' \/ s[k] \in entry'.pend)
    BY <2>2, <2>3
  <2>8. \A j, k \in Key : Mine(j)' /\ Mine(k)' /\ j # k => s[j] # s[k]
    BY <2>2, <2>5
  <2>9. \A i \in DOMAIN down' : down'[i].t = "acknowledgement" =>
           /\ down'[i].n <= entry'.wire
           /\ \A k \in Key : Mine(k)' /\ s[k] <= down'[i].n => Accepted(k)'
    BY <2>2, <2>4
  <2>10. srv'.conn = entry'.fence =>
          /\ \A i \in DOMAIN up' : IsInput(i)' =>
                /\ s[up'[i].key] = up'[i].seq
                /\ \A k \in Key : Mine(k)' /\ s[k] < up'[i].seq =>
                      Accepted(k)' \/ \E j \in DOMAIN up' : j < i /\ IsInput(j)' /\ up'[j].key = k
          /\ \A k \in Key : Mine(k)' => Accepted(k)' \/ OnTheWire(k)'
    BY <2>2, <2>6 DEF IsInput
  <2>. QED  BY <2>7, <2>8, <2>9, <2>10 DEF Told
<1>. QED  BY <1>4, <1>5 DEF StoryInv

LEMMA OnAcknowledgementStep == ASSUME RuntimeInv, OnAcknowledgement PROVE RuntimeInv'
<1>. USE DEF RuntimeInv
<1>1. Live /\ down # <<>> /\ entry.state # "none" /\ Fields \subseteq DOMAIN entry /\ Head(down).t = "acknowledgement"
  BY PumpIsPast DEF OnAcknowledgement, Frame, Pumping, EntryInv
<1>. DEFINE n == Head(down).n
            left == {p \in entry.pend : p > n}
            certified == [entry EXCEPT !.pend = left, !.acked = n,
                                !.cont = IF left = {} /\ ~entry.hist THEN "complete" ELSE "uncertain"]
<1>2. Apply(entry) \/ Apply(ProtocolFailure(entry)) \/ (n \in entry.pend /\ Apply(certified))
  BY DEF OnAcknowledgement
<1>3. CASE Apply(entry)
  BY <1>1, <1>3, FrameStep
<1>4. CASE Apply(ProtocolFailure(entry))
  BY <1>1, <1>4, ApplyFailure
<1>5. CASE n \in entry.pend /\ Apply(certified)
  <2>1. /\ entry' = certified /\ ServerStays /\ UNCHANGED <<keys, tail, up, proc>>
        /\ down' = Tail(down) /\ down' \in Seq(Downstream) /\ AcksKept
    BY <1>1, <1>5, ApplyIs
  <2>2. /\ Fields \subseteq DOMAIN entry' /\ entry'.state = entry.state /\ entry'.view = entry.view
        /\ entry'.fence = entry.fence /\ entry'.wire = entry.wire /\ entry'.first = entry.first /\ entry'.rev = entry.rev
        /\ entry'.hist = entry.hist /\ entry'.pend = left /\ entry'.pump = entry.pump
        /\ entry'.cont = IF left = {} /\ ~entry.hist THEN "complete" ELSE "uncertain"
    BY <1>1, <2>1 DEF Fields
  <2>3. UNCHANGED srv
    BY <1>1, <1>5, <2>2, <2>1 DEF Apply, Live
  <2>4. KeyInv' /\ Plain
    BY <2>1, <2>3, IsPlain, PlainKeys DEF KeyInv
  <2>5. EntryInv'
    BY <1>5, <2>2 DEF EntryInv
  <2>6. FenceInv' /\ ConnInv'
    BY <2>1, <2>2, <2>3 DEF FenceInv, ConnInv, IsInput
  <2>7. ProcInv'
    <3>1. proc.ph = "commit" => NothingUnderWay'
      BY <2>1 DEF ProcInv, NothingUnderWay, AcksKept, IsInput
    <3>. QED  BY <1>5, <2>1, <2>2, <2>3, <3>1 DEF ProcInv
  <2>8. StoryInv'
    BY <1>1, <2>1, <2>2, <2>3, CertifyingStory
  <2>. QED  BY <2>4, <2>5, <2>6, <2>7, <2>8
<1>. QED  BY <1>2, <1>3, <1>4, <1>5

LEMMA OnExitStep == ASSUME RuntimeInv, OnExit PROVE RuntimeInv'
<1>. USE DEF RuntimeInv
<1>1. entry' = NoEntry /\ DropQueue /\ Close({entry.fence}) /\ down # <<>> /\ down' = Tail(down) /\ UNCHANGED <<proc, up>>
  BY DEF OnExit, Frame
<1>2. ServerStays /\ (srv'.conn # 0 => srv.conn # entry.fence)
  BY <1>1, ServerCloses DEF KeyInv
<1>3. Plain
  BY <1>1, <1>2, FramesKept, IsPlain DEF KeyInv
<1>4. ProcSame
  BY <1>1 DEF ProcInv, ProcSame
<1>5. KeyInv' /\ EntryInv' /\ ConnInv' /\ StoryInv'
  BY <1>1, <1>2, <1>3, EntryGoes
<1>6. ProcInv'
  BY <1>1, <1>3, <1>4, ProcWhenGone
<1>7. FenceInv'
  <2>1. entry'.fence = 0
    BY <1>1 DEF NoEntry
  <2>. QED  BY <1>1, <1>3, <2>1, FencesStay
<1>. QED  BY <1>5, <1>6, <1>7

\* A step that puts no key on a wire.
LEMMA KeyStep ==
    ASSUME RuntimeInv, Follows, KeyInv', UNCHANGED <<proc, up, down>>,
           srv'.conn \in {srv.conn, 0}, srv'.accepted = srv.accepted, srv'.fence = srv.fence,
           NothingSent, proc.ph = "commit" => \A k \in Key : keys'[k].fence \in {keys[k].fence, 0},
           proc.kind = "reconnect" /\ entry'.state = "active" => entry'.view = entry.view /\ entry'.pump = entry.pump
    PROVE  RuntimeInv'
<1>. USE DEF RuntimeInv
<1>1. EntryInv' /\ ConnInv'
  BY DEF EntryInv, ConnInv, Follows, IsInput
<1>2. FenceInv'
  <2>1. 0 <= srv.fence
    BY DEF KeyInv, KeyTypes
  <2>. QED  BY <2>1 DEF FenceInv, Follows, NothingSent
<1>3. StoryInv'
  <2>1. AcksKept
    BY DEF AcksKept
  <2>2. entry'.first # 0 => entry.fence # 0
    BY DEF EntryInv, Follows
  <2>. QED  BY <2>1, <2>2, StoryStays DEF KeyInv, EntryInv, Follows
<1>4. ProcInv'
  <2>1. proc.ph = "commit" => /\ srv'.conn \in {0, proc.fence} /\ entry'.fence < proc.fence
                              /\ NothingUnderWay'
    BY DEF ProcInv, Follows, NothingUnderWay, IsInput
  <2>2. proc.ph = "commit" => \A k \in Key : keys'[k].fence < proc.fence
    <3>1. proc.ph = "commit" => 0 < proc.fence
      BY DEF ProcInv, EntryInv
    <3>. QED  BY <3>1 DEF ProcInv
  <2>3. /\ proc.ph \in Before => entry'.state # "active"
        /\ proc.kind = "attach" /\ proc.ph \in Before => entry'.state = "none"
        /\ proc.kind = "attach" => entry'.fence \in {0, proc.fence}
    BY DEF ProcInv, Follows
  <2>4. proc.kind = "reconnect" => proc.rev # 0 /\ entry'.pend = {} /\ (entry'.state = "active" => entry'.view = "none" /\ entry'.pump = 0)
    BY DEF ProcInv, Follows
  <2>. QED  BY <2>1, <2>2, <2>3, <2>4 DEF ProcInv
<1>. QED  BY <1>1, <1>2, <1>3, <1>4

LEMMA TypeKeyStep == ASSUME RuntimeInv, NEW k \in Key, TypeKey(k) PROVE RuntimeInv'
<1>. USE DEF RuntimeInv
<1>1. UNCHANGED <<entry, proc, tail, up, down, srv>> /\ entry.state = "active"
  BY DEF TypeKey
<1>2. /\ DOMAIN keys' = Key /\ \A j \in Key \ {k} : keys'[j] = keys[j]
      /\ {"st", "fence"} \subseteq DOMAIN keys'[k] /\ keys'[k].st = "typed" /\ keys'[k].fence = entry.fence
  BY DEF TypeKey, KeyInv, KeyTypes, KeyType
<1>3. KeyTypes'
  BY <1>1, <1>2 DEF KeyInv, KeyTypes, KeyType, EntryInv
<1>4. KeyInv'
  BY <1>3, TypingKeepsOrder
<1>5. NothingSent
  BY <1>1, <1>2 DEF NothingSent, Sent, FenceInv
<1>6. Follows
  BY <1>1, SameFollows DEF EntryInv
<1>7. proc.ph # "commit"
  BY <1>1 DEF ProcInv, Before
<1>. QED  BY <1>1, <1>4, <1>5, <1>6, <1>7, KeyStep

LEMMA SendInputStep == ASSUME RuntimeInv, NEW k \in Key, SendInput(k) PROVE RuntimeInv'
<1>. USE DEF RuntimeInv
<1>1. UNCHANGED <<entry, proc, up, down, srv>> /\ tail' \in {tail, Append(tail, k)}
  BY DEF SendInput
<1>2. /\ DOMAIN keys' = Key /\ \A j \in Key \ {k} : keys'[j] = keys[j]
      /\ KeyType(keys'[k]) /\ keys'[k].st \in {"queued", "refused"} /\ keys'[k].fence \in {keys[k].fence, 0}
  <2>1. keys' = [keys EXCEPT ![k] = Refused] \/ keys' = [keys EXCEPT ![k] = [@ EXCEPT !.st = "queued", !.rev = entry.rev]]
    BY DEF SendInput
  <2>2. KeyType(keys[k]) /\ DOMAIN keys = Key
    BY DEF KeyInv, KeyTypes
  <2>3. PICK q : q = [keys[k] EXCEPT !.st = "queued", !.rev = entry.rev]
    OBVIOUS
  <2>4. KeyType(q) /\ q.st = "queued" /\ q.fence = keys[k].fence
    BY <2>2, <2>3 DEF KeyType
  <2>5. KeyType(Refused) /\ Refused.st = "refused" /\ Refused.fence = 0
    BY DEF KeyType, Refused
  <2>6. CASE keys' = [keys EXCEPT ![k] = Refused]
    BY <2>2, <2>5, <2>6
  <2>7. CASE keys' = [keys EXCEPT ![k] = [@ EXCEPT !.st = "queued", !.rev = entry.rev]]
    <3>1. keys' = [keys EXCEPT ![k] = q]
      BY <2>2, <2>3, <2>7
    <3>. QED  BY <2>2, <2>4, <3>1
  <2>. QED  BY <2>1, <2>6, <2>7
<1>3. KeyTypes'
  <2>0. tail \in Seq(Key)
    BY DEF KeyInv, KeyTypes
  <2>1. tail' \in Seq(Key)
    <3>1. CASE tail' = tail
      BY <2>0, <3>1
    <3>2. CASE tail' = Append(tail, k)
      BY <2>0, <3>2
    <3>. QED  BY <1>1, <3>1, <3>2
  <2>. QED  BY <1>1, <1>2, <2>1 DEF KeyInv, KeyTypes
<1>4. KeyInv'
  BY <1>3, HandingKeepsOrder
<1>5. NothingSent
  <2>1. 0 <= srv.fence
    BY DEF KeyInv, KeyTypes
  <2>. QED  BY <1>1, <1>2, <2>1 DEF NothingSent, Sent, FenceInv
<1>6. Follows
  BY <1>1, SameFollows DEF EntryInv, ConnInv
<1>. QED  BY <1>1, <1>2, <1>4, <1>5, <1>6, KeyStep

\* A key that goes on the wire takes the next sequence number.
LEMMA SendingStory ==
    ASSUME RuntimeInv, NEW key \in Key, keys[key].st = "queued", keys[key].fence = entry.fence,
           keys'[key].st = "sent", keys'[key].fence = entry.fence, \A j \in Key \ {key} : keys'[j] = keys[j],
           UNCHANGED <<srv, down>>, entry'.fence = entry.fence, entry'.first = entry.first, entry'.hist = entry.hist,
           entry'.wire = entry.wire + 1, entry'.pend = entry.pend \cup {entry.wire + 1},
           NEW m, m.t = "input", m.seq = entry.wire + 1, m.key = key,
           up' = IF srv.conn = entry.fence THEN Append(up, m) ELSE up
    PROVE  StoryInv'
<1>. USE DEF RuntimeInv
<1>1. PICK s \in [Key -> Nat] : entry.first # 0 /\ ~entry.hist => Told(s)
  BY DEF StoryInv
<1>2. PICK w \in Nat : w = entry.wire + 1
  BY DEF EntryInv
<1>3. PICK r \in [Key -> Nat] : r[key] = w /\ \A j \in Key \ {key} : r[j] = s[j]
  <2>1. [s EXCEPT ![key] = w] \in [Key -> Nat]
    BY <1>1
  <2>. QED  BY <2>1
<1>4. ~Accepted(key) /\ \A k \in Key : Accepted(k)' <=> Accepted(k)
  BY DEF Accepted, KeyInv, AcceptedWereSent, Sent
<1>5. up \in Seq(Message) /\ Len(up) \in Nat /\ DOMAIN up = 1..Len(up)
  BY DEF KeyInv, KeyTypes
<1>6. ASSUME entry.first # 0, Told(s)
      PROVE  Told(r)'
  <2>1. \A k \in Key \ {key} : Mine(k)' <=> Mine(k)
    BY DEF Mine, Sent
  <2>2. \A k \in Key \ {key} : Mine(k) =>
           s[k] \in Nat /\ s[k] <= entry.wire /\ s[k] < w /\ (Accepted(k) \/ s[k] \in entry.pend)
    BY <1>1, <1>2, <1>6 DEF Told, EntryInv
  <2>3. \A k \in Key : Mine(k)' => r[k] <= entry'.wire /\ (Accepted(k)' \/ r[k] \in entry'.pend)
    <3>. SUFFICES ASSUME NEW k \in Key, Mine(k)'
                  PROVE  r[k] <= entry'.wire /\ (Accepted(k)' \/ r[k] \in entry'.pend)
      OBVIOUS
    <3>1. CASE k = key
      BY <3>1, <1>2, <1>3
    <3>2. CASE k # key
      BY <3>2, <2>1, <2>2, <1>2, <1>3, <1>4
    <3>. QED  BY <3>1, <3>2
  <2>4. \A j, k \in Key : Mine(j)' /\ Mine(k)' /\ j # k => r[j] # r[k]
    <3>. SUFFICES ASSUME NEW j \in Key, NEW k \in Key, Mine(j)', Mine(k)', j # k
                  PROVE  r[j] # r[k]
      OBVIOUS
    <3>1. CASE j = key
      BY <3>1, <2>1, <2>2, <1>3
    <3>2. CASE k = key
      BY <3>2, <2>1, <2>2, <1>3
    <3>3. CASE j # key /\ k # key
      <4>1. Mine(j) /\ Mine(k)
        BY <3>3, <2>1
      <4>. QED  BY <3>3, <4>1, <1>3, <1>6 DEF Told
    <3>. QED  BY <3>1, <3>2, <3>3
  <2>5. ASSUME NEW i \in DOMAIN down, down[i].t = "acknowledgement"
        PROVE  down[i].n <= entry'.wire /\ \A k \in Key : Mine(k)' /\ r[k] <= down[i].n => Accepted(k)'
    <3>1. down[i] \in Downstream
      BY DEF KeyInv, KeyTypes
    <3>2. down[i].n \in Nat
      BY <2>5, <3>1 DEF Downstream
    <3>3. down[i].n <= entry.wire /\ \A k \in Key : Mine(k) /\ s[k] <= down[i].n => Accepted(k)
      BY <2>5, <1>6 DEF Told
    <3>4. down[i].n < w
      BY <3>2, <3>3, <1>2 DEF EntryInv
    <3>5. ASSUME NEW k \in Key, Mine(k)', r[k] <= down[i].n
          PROVE  Accepted(k)'
      <4>1. k # key
        BY <3>2, <3>4, <3>5, <1>2, <1>3
      <4>. QED  BY <4>1, <3>3, <3>5, <2>1, <1>3, <1>4
    <3>. QED  BY <3>2, <3>4, <3>5, <1>2
  <2>6. ASSUME srv.conn = entry.fence
        PROVE  /\ \A i \in DOMAIN up' : IsInput(i)' =>
                     /\ r[up'[i].key] = up'[i].seq
                     /\ \A k \in Key : Mine(k)' /\ r[k] < up'[i].seq =>
                           Accepted(k)' \/ \E j \in DOMAIN up' : j < i /\ IsInput(j)' /\ up'[j].key = k
               /\ \A k \in Key : Mine(k)' => Accepted(k)' \/ OnTheWire(k)'
    <3>1. /\ DOMAIN up' = 1..(Len(up) + 1) /\ up'[Len(up) + 1] = m
          /\ \A i \in DOMAIN up : up'[i] = up[i] /\ i < Len(up) + 1
      BY <2>6, <1>5
    <3>2. \A i \in DOMAIN up : (IsInput(i)' <=> IsInput(i)) /\ i \in DOMAIN up'
      BY <3>1, <1>5 DEF IsInput
    <3>3. srv.conn # 0 /\ entry.first <= entry.fence
      BY <1>6, <2>6 DEF EntryInv
    <3>4. ASSUME NEW i \in DOMAIN up, IsInput(i)
          PROVE  up[i].key \in Key \ {key} /\ Mine(up[i].key)
      <4>1. up[i].key \in Key
        BY <3>4 DEF KeyInv, KeyTypes, IsInput, Message, Input
      <4>2. Sent(up[i].key) /\ keys[up[i].key].fence = entry.fence
        BY <2>6, <3>3, <3>4 DEF KeyInv, WireInOrder
      <4>. QED  BY <4>1, <4>2, <3>3 DEF Mine, Sent
    <3>5. ASSUME NEW k \in Key, Mine(k)', k # key, ~Accepted(k)'
          PROVE  \E j \in DOMAIN up' : j < Len(up) + 1 /\ IsInput(j)' /\ up'[j].key = k
      <4>1. Mine(k) /\ ~Accepted(k)
        BY <3>5, <2>1, <1>4
      <4>2. PICK j \in DOMAIN up : IsInput(j) /\ up[j].key = k
        BY <4>1, <2>6, <1>6 DEF Told, OnTheWire
      <4>. QED  BY <4>2, <3>1, <3>2
    <3>6. ASSUME NEW i \in DOMAIN up', IsInput(i)'
          PROVE  /\ r[up'[i].key] = up'[i].seq
                 /\ \A k \in Key : Mine(k)' /\ r[k] < up'[i].seq =>
                       Accepted(k)' \/ \E j \in DOMAIN up' : j < i /\ IsInput(j)' /\ up'[j].key = k
      <4>1. CASE i = Len(up) + 1
        <5>1. r[up'[i].key] = up'[i].seq
          BY <4>1, <3>1, <1>2, <1>3
        <5>2. ASSUME NEW k \in Key, Mine(k)', r[k] < up'[i].seq, ~Accepted(k)'
              PROVE  \E j \in DOMAIN up' : j < i /\ IsInput(j)' /\ up'[j].key = k
          <6>1. k # key
            BY <5>2, <4>1, <3>1, <1>2, <1>3
          <6>. QED  BY <6>1, <5>2, <4>1, <3>5
        <5>. QED  BY <5>1, <5>2
      <4>2. CASE i \in DOMAIN up
        <5>1. IsInput(i) /\ up'[i] = up[i]
          BY <4>2, <3>1, <3>2, <3>6
        <5>2. /\ s[up[i].key] = up[i].seq
              /\ \A k \in Key : Mine(k) /\ s[k] < up[i].seq =>
                    Accepted(k) \/ \E j \in DOMAIN up : j < i /\ IsInput(j) /\ up[j].key = k
          BY <4>2, <5>1, <2>6, <1>6 DEF Told
        <5>3. up[i].key \in Key \ {key} /\ Mine(up[i].key)
          BY <4>2, <5>1, <3>4
        <5>4. up[i].seq \in Nat /\ up[i].seq < w
          BY <5>2, <5>3, <2>2
        <5>5. ASSUME NEW k \in Key, Mine(k)', r[k] < up[i].seq, ~Accepted(k)'
              PROVE  \E j \in DOMAIN up' : j < i /\ IsInput(j)' /\ up'[j].key = k
          <6>1. k # key
            BY <5>4, <5>5, <1>2, <1>3
          <6>2. Mine(k) /\ s[k] < up[i].seq /\ ~Accepted(k)
            BY <6>1, <5>5, <2>1, <1>3, <1>4
          <6>3. PICK j \in DOMAIN up : j < i /\ IsInput(j) /\ up[j].key = k
            BY <6>2, <5>2
          <6>. QED  BY <6>3, <3>1, <3>2
        <5>. QED  BY <5>1, <5>2, <5>3, <5>5, <1>3
      <4>3. i = Len(up) + 1 \/ i \in DOMAIN up
        BY <3>1, <1>5
      <4>. QED  BY <4>1, <4>2, <4>3
    <3>7. ASSUME NEW k \in Key, Mine(k)', ~Accepted(k)'
          PROVE  OnTheWire(k)'
      <4>1. CASE k = key
        <5>1. PICK i : i = Len(up) + 1
          OBVIOUS
        <5>2. i \in DOMAIN up' /\ up'[i] = m
          BY <5>1, <3>1, <1>5
        <5>3. up'[i].t = "input" /\ up'[i].key = k
          BY <5>2, <4>1
        <5>. QED  BY <5>2, <5>3 DEF OnTheWire, IsInput
      <4>2. CASE k # key
        BY <3>5, <3>7, <4>2 DEF OnTheWire, IsInput
      <4>. QED  BY <4>1, <4>2
    <3>. QED  BY <3>6, <3>7
  <2>7. \A i \in DOMAIN down' : down'[i].t = "acknowledgement" =>
           /\ down'[i].n <= entry'.wire
           /\ \A k \in Key : Mine(k)' /\ r[k] <= down'[i].n => Accepted(k)'
    BY <2>5
  <2>8. srv'.conn = entry'.fence =>
           /\ \A i \in DOMAIN up' : IsInput(i)' =>
                 /\ r[up'[i].key] = up'[i].seq
                 /\ \A k \in Key : Mine(k)' /\ r[k] < up'[i].seq =>
                       Accepted(k)' \/ \E j \in DOMAIN up' : j < i /\ IsInput(j)' /\ up'[j].key = k
           /\ \A k \in Key : Mine(k)' => Accepted(k)' \/ OnTheWire(k)'
    BY <2>6
  <2>. QED  BY <2>3, <2>4, <2>7, <2>8 DEF Told
<1>. QED  BY <1>1, <1>3, <1>6 DEF StoryInv

\* A send that runs: refused, turned into a lost attachment, or put on the wire.
LEMMA RunSendStep == ASSUME RuntimeInv, RunSend PROVE RuntimeInv'
<1>. USE DEF RuntimeInv
<1>1. PICK key : key = Head(tail)
  OBVIOUS
<1>2. /\ tail \in Seq(Key) /\ tail # <<>> /\ tail' = Tail(tail) /\ tail' \in Seq(Key)
      /\ key \in Key /\ keys[key].st = "queued" /\ KeyType(keys[key]) /\ DOMAIN keys = Key
      /\ UNCHANGED <<proc, down>>
  <2>1. tail # <<>> /\ tail' = Tail(tail) /\ UNCHANGED <<proc, down>> /\ tail \in Seq(Key)
    BY DEF RunSend, KeyInv, KeyTypes
  <2>2. tail' \in Seq(Key) /\ key \in Key /\ key = tail[1] /\ 1 \in DOMAIN tail
    BY <1>1, <2>1, TailIs
  <2>3. keys[key].st = "queued"
    BY <2>2 DEF KeyInv, QueueInOrder
  <2>. QED  BY <2>1, <2>2, <2>3 DEF KeyInv, KeyTypes
<1>3. PICK no : no = Refused
  OBVIOUS
<1>4. no.st = "refused" /\ no.fence = 0 /\ KeyType(no)
  BY <1>3 DEF Refused, KeyType
<1>5. PICK sent : sent = [keys[key] EXCEPT !.st = "sent"]
  OBVIOUS
<1>6. sent.st = "sent" /\ sent.fence = keys[key].fence /\ KeyType(sent)
  BY <1>2, <1>5 DEF KeyType
<1>7. PICK m : m = [t |-> "input", seq |-> entry.wire + 1, key |-> key]
  OBVIOUS
<1>14. m.t = "input" /\ m.key = key
  BY <1>7
<1>8. \/ keys' = [keys EXCEPT ![key] = no] /\ UNCHANGED <<entry, up, srv>>
      \/ /\ SendFence(key) /\ entry.view = "ready"
         /\ keys' = [keys EXCEPT ![key] = no] /\ Close({entry.fence}) /\ UNCHANGED up
         /\ entry' = [Lose(entry, "interrupted") EXCEPT !.rev = @ + 1, !.cont = "uncertain"]
      \/ /\ SendFence(key) /\ entry.view = "ready"
         /\ keys' = [keys EXCEPT ![key] = sent] /\ UNCHANGED srv
         /\ entry' = [entry EXCEPT !.wire = entry.wire + 1, !.inputSeq = entry.wire + 1,
                                   !.pend = @ \cup {entry.wire + 1}, !.cont = "uncertain"]
         /\ up' = IF srv.conn = entry.fence THEN Append(up, m) ELSE up
  BY <1>1, <1>2, <1>3, <1>5, <1>7 DEF RunSend
<1>9. Fields \subseteq DOMAIN entry
  BY DEF EntryInv
<1>10. ASSUME keys' = [keys EXCEPT ![key] = no]
       PROVE  /\ NothingSent /\ \A k \in Key : keys'[k].fence \in {keys[k].fence, 0}
              /\ DOMAIN keys' = Key /\ \A k \in Key : KeyType(keys'[k])
  <2>1. keys'[key] = no /\ \A k \in Key \ {key} : keys'[k] = keys[k]
    BY <1>2, <1>10
  <2>2. 0 <= srv.fence
    BY DEF KeyInv, KeyTypes
  <2>3. \A k \in Key : keys'[k].fence \in {keys[k].fence, 0}
    BY <2>1, <1>4
  <2>4. \A k \in Key : KeyType(keys'[k])
    BY <2>1, <1>4 DEF KeyInv, KeyTypes
  <2>. QED  BY <2>1, <2>2, <2>3, <2>4, <1>2, <1>4, <1>10 DEF NothingSent, Sent, FenceInv
<1>11. CASE keys' = [keys EXCEPT ![key] = no] /\ UNCHANGED <<entry, up, srv>>
  <2>1. KeyTypes'
    BY <1>2, <1>10, <1>11 DEF KeyInv, KeyTypes
  <2>2. KeyInv'
    <3>2. /\ keys'[Head(tail)].st = "refused" /\ \A j \in Key \ {Head(tail)} : keys'[j] = keys[j]
      BY <1>1, <1>2, <1>4, <1>11
    <3>3. up' = up /\ srv'.accepted = srv.accepted /\ srv'.conn \in {srv.conn, 0}
      BY <1>11
    <3>. QED  BY <1>1, <1>2, <2>1, <1>14, <3>2, <3>3, SendingKeepsOrder
  <2>3. Follows
    BY <1>9, <1>11, SameFollows DEF EntryInv, ConnInv
  <2>. QED  BY <1>2, <1>10, <1>11, <2>2, <2>3, KeyStep
<1>12. CASE /\ SendFence(key) /\ entry.view = "ready"
            /\ keys' = [keys EXCEPT ![key] = no] /\ Close({entry.fence}) /\ UNCHANGED up
            /\ entry' = [Lose(entry, "interrupted") EXCEPT !.rev = @ + 1, !.cont = "uncertain"]
  <2>1. ServerStays
    BY <1>12, ServerCloses DEF KeyInv
  <2>2. KeyTypes'
    BY <1>2, <1>10, <1>12, <2>1 DEF KeyInv, KeyTypes, ServerStays
  <2>3. KeyInv'
    <3>2. /\ keys'[Head(tail)].st = "refused" /\ \A j \in Key \ {Head(tail)} : keys'[j] = keys[j]
      BY <1>1, <1>2, <1>4, <1>12
    <3>3. up' = up /\ srv'.accepted = srv.accepted /\ srv'.conn \in {srv.conn, 0}
      BY <1>12, <2>1 DEF ServerStays
    <3>. QED  BY <1>1, <1>2, <1>14, <2>2, <3>2, <3>3, SendingKeepsOrder
  <2>4. PICK r : /\ r = Lose(entry, "interrupted") /\ r.state = "interrupted"
                 /\ {"state", "rev", "fence", "wire", "pend", "hist", "cont", "view", "pump", "first"} \subseteq DOMAIN r
    BY <1>9, LoseIs DEF Fields
  <2>5. /\ Fields \subseteq DOMAIN entry' /\ entry'.state = "interrupted"
        /\ entry'.fence = r.fence /\ entry'.wire = r.wire /\ entry'.pend = r.pend
        /\ entry'.hist = r.hist /\ entry'.first = r.first /\ entry'.rev = r.rev + 1 /\ entry'.cont = "uncertain"
    <3>1. entry' = [r EXCEPT !.rev = @ + 1, !.cont = "uncertain"]
      BY <1>12, <2>4
    <3>. QED  BY <2>4, <3>1 DEF Fields
  <2>6. Follows
    BY <1>12, <2>4, <2>5, LosingFollows DEF SendFence
  <2>. QED  BY <1>2, <1>10, <1>12, <2>1, <2>3, <2>5, <2>6, KeyStep DEF ServerStays
<1>13. CASE /\ SendFence(key) /\ entry.view = "ready"
            /\ keys' = [keys EXCEPT ![key] = sent] /\ UNCHANGED srv
            /\ entry' = [entry EXCEPT !.wire = entry.wire + 1, !.inputSeq = entry.wire + 1,
                                      !.pend = @ \cup {entry.wire + 1}, !.cont = "uncertain"]
            /\ up' = IF srv.conn = entry.fence THEN Append(up, m) ELSE up
  <2>1. entry.state = "active" /\ entry.fence = keys[key].fence
    BY <1>13 DEF SendFence
  <2>2. /\ Fields \subseteq DOMAIN entry' /\ entry'.state = "active" /\ entry'.rev = entry.rev /\ entry'.fence = entry.fence
        /\ entry'.first = entry.first /\ entry'.hist = entry.hist /\ entry'.view = entry.view
        /\ entry'.wire = entry.wire + 1 /\ entry'.pend = entry.pend \cup {entry.wire + 1}
        /\ entry'.cont = "uncertain"
    BY <1>9, <1>13, <2>1 DEF Fields
  <2>3. entry.wire + 1 \in Nat
    BY DEF EntryInv
  <2>4. m \in Message /\ m.t = "input" /\ m.seq = entry.wire + 1 /\ m.key = key
    BY <1>2, <1>7, <2>3 DEF Message, Input
  <2>5. up \in Seq(Message) /\ up' \in Seq(Message) /\ (srv.conn # entry.fence => up' = up)
    <3>1. up \in Seq(Message) /\ Append(up, m) \in Seq(Message)
      BY <2>4 DEF KeyInv, KeyTypes
    <3>. QED  BY <3>1, <1>13
  <2>6. keys'[key] = sent /\ DOMAIN keys' = Key /\ \A k \in Key \ {key} : keys'[k] = keys[k]
    BY <1>2, <1>13
  <2>7. KeyTypes'
    <3>1. \A k \in Key : KeyType(keys'[k])
      BY <1>6, <2>6 DEF KeyInv, KeyTypes
    <3>. QED  BY <1>2, <1>13, <2>5, <2>6, <3>1 DEF KeyInv, KeyTypes
  <2>8. KeyInv'
    <3>1. /\ keys'[Head(tail)].st = "sent" /\ \A j \in Key \ {Head(tail)} : keys'[j] = keys[j]
          /\ keys'[Head(tail)].fence = keys[Head(tail)].fence
      BY <1>1, <1>2, <1>6, <2>6
    <3>2. srv'.accepted = srv.accepted /\ srv'.conn \in {srv.conn, 0}
      BY <1>13
    <3>3. up' = up \/ (srv.conn = keys[Head(tail)].fence /\ up' = Append(up, m))
      BY <1>1, <1>13, <2>1
    <3>. QED  BY <1>1, <1>2, <2>4, <2>7, <3>1, <3>2, <3>3, SendingKeepsOrder
  <2>9. EntryInv'
    BY <2>1, <2>2, <2>3 DEF EntryInv
  <2>10. FenceInv' /\ ConnInv'
    <3>1. \A k \in Key : keys'[k].fence = keys[k].fence
      BY <2>6, <1>6
    <3>2. FenceInv'
      BY <3>1, <1>2, <1>13, <2>2 DEF FenceInv
    <3>3. ConnInv'
      BY <1>13, <2>2, <2>5 DEF ConnInv, IsInput
    <3>. QED  BY <3>2, <3>3
  <2>11. ProcInv'
    <3>1. proc.ph \notin Before /\ proc.kind # "reconnect" /\ proc.ph # "commit"
      BY <1>13, <2>1 DEF ProcInv, Before
    <3>. QED  BY <1>2, <2>2, <3>1 DEF ProcInv
  <2>12. StoryInv'
    BY <1>2, <1>6, <1>13, <2>1, <2>2, <2>4, <2>6, SendingStory
  <2>. QED  BY <2>8, <2>9, <2>10, <2>11, <2>12
<1>. QED  BY <1>8, <1>11, <1>12, <1>13

-----------------------------------------------------------------------------
(* Attach, reconnect, detach and shutdown *)

\* A step of the procedure that follows the terminal.
LEMMA ProcMoves ==
    ASSUME RuntimeInv, Follows, ServerStays, UNCHANGED <<keys, tail>> \/ DropQueue, UNCHANGED <<up, down>>,
           proc'.fence \in {proc.fence, 0}, ProcInv'
    PROVE  RuntimeInv'
<1>1. Plain
  BY FramesKept, IsPlain DEF RuntimeInv, KeyInv
<1>2. entry'.fence \in {entry.fence, 0}
  BY DEF Follows
<1>. QED  BY <1>1, <1>2, EntryStays, FencesStay, PlainKeys DEF RuntimeInv

\* Until it adopts a connection the procedure only goes on or gives up.
LEMMA ProcAdvances ==
    ASSUME RuntimeInv, Follows, {"kind", "ph", "fence", "rev"} \subseteq DOMAIN proc',
           proc'.kind = proc.kind, proc'.fence = proc.fence, proc'.rev = proc.rev,
           proc.ph \in Before, proc'.ph \notin {"none", "commit"}
    PROVE  ProcInv'
<1>. USE DEF RuntimeInv
<1>1. proc.kind # "none" /\ proc.kind \in {"attach", "reconnect"} /\ proc.fence \in Nat
  BY DEF ProcInv, Before
<1>2. entry'.state # "active" /\ (proc.kind = "attach" => entry'.state = "none" /\ entry'.fence \in {0, proc.fence})
  BY DEF ProcInv, Follows
<1>3. proc.kind = "reconnect" => proc.rev # 0 /\ entry'.pend = {}
  BY DEF ProcInv, Follows
<1>. QED  BY <1>1, <1>2, <1>3 DEF ProcInv

\* A terminal whose recorded request or process changed follows.
LEMMA EntryKept ==
    ASSUME RuntimeInv, ServerStays, Fields \subseteq DOMAIN entry', entry'.state = entry.state,
           entry'.fence = entry.fence, entry'.wire = entry.wire, entry'.first = entry.first, entry'.rev = entry.rev,
           entry'.pend = entry.pend, entry'.hist = entry.hist, entry'.cont = entry.cont
    PROVE  Follows
BY SameFollows, StillDetached DEF RuntimeInv, ServerStays

LEMMA AttachStartStep == ASSUME RuntimeInv, AttachStart PROVE RuntimeInv'
<1>. USE DEF RuntimeInv
<1>1. UNCHANGED <<entry, keys, tail, up, down, srv>> /\ entry.state = "none"
  BY DEF AttachStart
<1>2. /\ {"kind", "ph", "fence", "rev"} \subseteq DOMAIN proc'
      /\ proc'.kind = "attach" /\ proc'.ph = "cancel" /\ proc'.fence = 0
  BY DEF AttachStart, Idle
<1>3. ServerStays
  BY <1>1, ServerSame DEF KeyInv
<1>4. Follows
  BY <1>1, <1>3, EntryKept DEF EntryInv
<1>5. ProcInv'
  BY <1>1, <1>2 DEF ProcInv, EntryInv
<1>. QED  BY <1>1, <1>2, <1>3, <1>4, <1>5, ProcMoves

LEMMA ReconnectStartStep == ASSUME RuntimeInv, ReconnectStart PROVE RuntimeInv'
<1>. USE DEF RuntimeInv
<1>1. UNCHANGED <<keys, tail, up, down, srv>> /\ entry.state = "interrupted"
  BY DEF ReconnectStart
<1>2. entry.pend = {} /\ Fields \subseteq DOMAIN entry /\ entry.rev \in Nat /\ entry.hist \in BOOLEAN
  BY <1>1 DEF EntryInv
<1>3. /\ {"kind", "ph", "fence", "rev"} \subseteq DOMAIN proc'
      /\ proc'.kind = "reconnect" /\ proc'.ph = "cancel" /\ proc'.fence = 0 /\ proc'.rev = entry.rev + 1
  BY DEF ReconnectStart, Idle
<1>4. PICK r : /\ r = Retire(entry) /\ r.rev = entry.rev /\ r.fence = entry.fence
               /\ r.wire = entry.wire /\ r.first = entry.first /\ r.pend = {} /\ r.hist = entry.hist
               /\ r.cont = IF entry.hist THEN "uncertain" ELSE entry.cont
               /\ {"state", "rev", "fence", "wire", "pend", "hist", "cont", "view", "pump", "first"} \subseteq DOMAIN r
  BY <1>2, RetireIs DEF Fields
<1>5. /\ Fields \subseteq DOMAIN entry' /\ entry'.state = "reconnecting" /\ entry'.rev = entry.rev + 1
      /\ entry'.fence = entry.fence /\ entry'.wire = entry.wire /\ entry'.first = entry.first
      /\ entry'.pend = {} /\ entry'.hist = entry.hist /\ entry'.cont = IF entry.hist THEN "uncertain" ELSE entry.cont
  <2>1. entry' = [r EXCEPT !.state = "reconnecting", !.rev = @ + 1, !.aborted = TRUE]
    BY <1>4 DEF ReconnectStart
  <2>. QED  BY <1>4, <2>1 DEF Fields
<1>6. ServerStays
  BY <1>1, ServerSame DEF KeyInv
<1>7. Follows
  BY <1>1, <1>2, <1>5 DEF Follows
<1>8. ProcInv'
  BY <1>2, <1>3, <1>5 DEF ProcInv
<1>. QED  BY <1>1, <1>3, <1>6, <1>7, <1>8, ProcMoves

LEMMA ProcCancelStep == ASSUME RuntimeInv, ProcCancel PROVE RuntimeInv'
<1>. USE DEF RuntimeInv
<1>1. UNCHANGED <<keys, tail, up, down>> /\ proc.ph \in Before
  BY DEF ProcCancel, Before
<1>2. PICK done : Cancel(done) /\ proc' = [proc EXCEPT !.ph = IF done = reqs /\ ~proc.abort THEN "admit" ELSE "catch"]
  BY DEF ProcCancel
<1>3. /\ {"kind", "ph", "fence", "rev"} \subseteq DOMAIN proc' /\ proc'.kind = proc.kind
      /\ proc'.fence = proc.fence /\ proc'.rev = proc.rev /\ proc'.ph \in {"admit", "catch"}
  BY <1>2 DEF ProcInv
<1>4. ServerStays
  BY <1>2 DEF Cancel, KeyInv, KeyTypes, ServerStays
<1>5. PICK x : entry' = [entry EXCEPT !.reqKey = x]
  BY <1>2 DEF Cancel
<1>6. /\ Fields \subseteq DOMAIN entry' /\ entry'.state = entry.state
      /\ entry'.fence = entry.fence /\ entry'.wire = entry.wire /\ entry'.first = entry.first /\ entry'.rev = entry.rev
      /\ entry'.pend = entry.pend /\ entry'.hist = entry.hist /\ entry'.cont = entry.cont
  BY <1>5 DEF EntryInv, Fields
<1>7. Follows
  BY <1>4, <1>6, EntryKept
<1>8. ProcInv'
  BY <1>1, <1>3, <1>7, ProcAdvances
<1>. QED  BY <1>1, <1>3, <1>4, <1>7, <1>8, ProcMoves

\* A terminal that cannot be resumed has failed.
LEMMA UnresumableFollows ==
    ASSUME RuntimeInv, ServerStays, ~Superseded, entry' = Unresumable
    PROVE  Follows
<1>. USE DEF RuntimeInv
<1>1. CASE proc.kind = "reconnect"
  <2>1. entry.state = "reconnecting" /\ Fields \subseteq DOMAIN entry /\ entry.hist \in BOOLEAN /\ entry.rev \in Nat
    BY <1>1 DEF Superseded, EntryInv
  <2>2. entry' = [entry EXCEPT !.state = "failed"]
    BY <1>1 DEF Unresumable
  <2>3. /\ Fields \subseteq DOMAIN entry' /\ entry'.state = "failed"
        /\ entry'.fence = entry.fence /\ entry'.wire = entry.wire /\ entry'.first = entry.first /\ entry'.rev = entry.rev
        /\ entry'.pend = entry.pend /\ entry'.hist = entry.hist /\ entry'.cont = entry.cont
    BY <2>1, <2>2 DEF Fields
  <2>. QED  BY <2>1, <2>3 DEF Follows
<1>2. CASE proc.kind # "reconnect"
  <2>1. entry' = entry
    BY <1>2 DEF Unresumable
  <2>. QED  BY <2>1, EntryKept DEF EntryInv
<1>. QED  BY <1>1, <1>2

LEMMA ProcAdmitStep == ASSUME RuntimeInv, ProcAdmit PROVE RuntimeInv'
<1>. USE DEF RuntimeInv
<1>1. UNCHANGED <<keys, tail, up, down>> /\ proc.ph \in Before
  BY DEF ProcAdmit, Before
<1>2. /\ {"kind", "ph", "fence", "rev"} \subseteq DOMAIN proc' /\ proc'.kind = proc.kind
      /\ proc'.fence = proc.fence /\ proc'.rev = proc.rev /\ proc'.ph \in {"grant", "catch"}
  <2>1. {"kind", "ph", "fence", "rev"} \subseteq DOMAIN proc
    BY DEF ProcInv
  <2>2. proc' = [proc EXCEPT !.ph = "catch"] \/ \E x : proc' = [proc EXCEPT !.ph = "grant", !.seat = x]
    BY DEF ProcAdmit
  <2>. QED  BY <2>1, <2>2
<1>3. ServerStays /\ Follows
  <2>1. CASE UNCHANGED <<entry, srv>>
    BY <2>1, ServerSame, EntryKept DEF EntryInv, KeyInv
  <2>2. CASE ~Superseded /\ entry' = Unresumable /\ UNCHANGED srv
    BY <2>2, ServerSame, UnresumableFollows DEF KeyInv
  <2>3. CASE Close({entry.fence}) /\ entry' = [entry EXCEPT !.process = IF proc.kind = "attach" THEN srv.process ELSE @]
    <3>1. ServerStays
      BY <2>3, ServerCloses DEF KeyInv
    <3>2. /\ Fields \subseteq DOMAIN entry' /\ entry'.state = entry.state
          /\ entry'.fence = entry.fence /\ entry'.wire = entry.wire /\ entry'.first = entry.first /\ entry'.rev = entry.rev
          /\ entry'.pend = entry.pend /\ entry'.hist = entry.hist /\ entry'.cont = entry.cont
      BY <2>3 DEF EntryInv, Fields
    <3>. QED  BY <3>1, <3>2, EntryKept
  <2>. QED  BY <2>1, <2>2, <2>3 DEF ProcAdmit
<1>4. ProcInv'
  BY <1>1, <1>2, <1>3, ProcAdvances
<1>. QED  BY <1>1, <1>2, <1>3, <1>4, ProcMoves

LEMMA ProcGrantStep == ASSUME RuntimeInv, ProcGrant PROVE RuntimeInv'
<1>. USE DEF RuntimeInv
<1>1. UNCHANGED <<keys, tail, up, down>> /\ proc.ph \in Before
  BY DEF ProcGrant, Before
<1>2. /\ {"kind", "ph", "fence", "rev"} \subseteq DOMAIN proc' /\ proc'.kind = proc.kind
      /\ proc'.fence = proc.fence /\ proc'.rev = proc.rev /\ proc'.ph \in {"grant", "ready", "catch"}
  <2>1. {"kind", "ph", "fence", "rev"} \subseteq DOMAIN proc
    BY DEF ProcInv
  <2>2. \/ proc' = [proc EXCEPT !.ph = "catch"]
        \/ \E x : proc' = [proc EXCEPT !.ph = IF proc.abort THEN "catch" ELSE "ready", !.key = x]
        \/ proc.ph = "grant" /\ proc' = [proc EXCEPT !.seat = "fallback"]
    BY DEF ProcGrant
  <2>. QED  BY <2>1, <2>2
<1>3. ServerStays
  <2>1. \E x, y : srv' = [srv EXCEPT !.used = x, !.issued = y] \/ srv' = [srv EXCEPT !.used = x]
    BY DEF ProcGrant
  <2>. QED  BY <2>1 DEF KeyInv, KeyTypes, ServerStays
<1>4. PICK x : entry' = [entry EXCEPT !.reqKey = x]
  BY DEF ProcGrant
<1>5. /\ Fields \subseteq DOMAIN entry' /\ entry'.state = entry.state
      /\ entry'.fence = entry.fence /\ entry'.wire = entry.wire /\ entry'.first = entry.first /\ entry'.rev = entry.rev
      /\ entry'.pend = entry.pend /\ entry'.hist = entry.hist /\ entry'.cont = entry.cont
  BY <1>4 DEF EntryInv, Fields
<1>6. Follows
  BY <1>3, <1>5, EntryKept
<1>7. ProcInv'
  BY <1>1, <1>2, <1>6, ProcAdvances
<1>. QED  BY <1>1, <1>2, <1>3, <1>6, <1>7, ProcMoves

\* A connection is made: nothing is on it yet, and its fence is the newest.
LEMMA ConnectedStep ==
    ASSUME RuntimeInv, proc.ph = "ready", UNCHANGED <<entry, keys, tail>>, up' = <<>>, down' = <<>>,
           srv'.accepted = srv.accepted, srv'.fence = srv.fence + 1, srv'.conn = srv.fence + 1,
           {"fence", "conn", "accepted", "viewN", "hist"} \subseteq DOMAIN srv', srv'.viewN = 0, srv'.hist = srv.hist,
           {"kind", "ph", "fence", "rev"} \subseteq DOMAIN proc', proc'.kind = proc.kind, proc'.rev = proc.rev,
           proc'.fence = srv.fence + 1, proc'.ph \in {"commit", "catch"}
    PROVE  RuntimeInv'
<1>. USE DEF RuntimeInv
<1>1. srv.fence \in Nat /\ entry.fence \in Nat /\ entry.fence <= srv.fence /\ \A k \in Key : keys[k].fence <= srv.fence /\ keys[k].fence \in Nat
  BY DEF KeyInv, KeyTypes, KeyType, EntryInv, FenceInv
<1>2. KeyTypes'
  <2>1. up' \in Seq(Message) /\ down' \in Seq(Downstream)
    OBVIOUS
  <2>. QED  BY <1>1, <2>1 DEF KeyInv, KeyTypes
<1>3. KeyInv'
  BY <1>2, ConnectingKeepsOrder
<1>4. EntryInv' /\ FenceInv' /\ ConnInv' /\ NothingUnderWay'
  BY <1>1 DEF EntryInv, FenceInv, ConnInv, NothingUnderWay
<1>5. ProcInv'
  <2>1. proc.ph \in Before /\ proc.kind \in {"attach", "reconnect"} /\ entry.state # "active"
    BY DEF ProcInv, Before
  <2>2. proc.kind = "attach" => entry.state = "none" /\ entry.fence = 0
    BY <2>1 DEF ProcInv, EntryInv
  <2>3. proc.kind = "reconnect" => proc.rev # 0 /\ entry.pend = {}
    BY DEF ProcInv
  <2>4. entry.fence < srv.fence + 1 /\ \A k \in Key : keys[k].fence < srv.fence + 1
    BY <1>1
  <2>. QED  BY <1>1, <1>4, <2>1, <2>2, <2>3, <2>4 DEF ProcInv
<1>6. StoryInv'
  <2>1. AcksKept /\ NothingSent
    BY QuietKeys DEF AcksKept
  <2>2. srv'.conn # entry'.fence
    BY <1>1
  <2>. QED  BY <2>1, <2>2, StoryStays DEF EntryInv, KeyInv
<1>. QED  BY <1>3, <1>4, <1>5, <1>6

LEMMA ProcReadyStep == ASSUME RuntimeInv, ProcReady PROVE RuntimeInv'
<1>. USE DEF RuntimeInv
<1>1. UNCHANGED <<keys, tail>> /\ proc.ph = "ready" /\ proc.ph \in Before /\ {"kind", "ph", "fence", "rev"} \subseteq DOMAIN proc
  BY DEF ProcReady, Before, ProcInv
<1>2. CASE /\ proc' = [proc EXCEPT !.ph = "catch"] /\ UNCHANGED <<up, down, srv>>
           /\ entry' = entry \/ (~Superseded /\ entry' = Unresumable)
  <2>1. /\ {"kind", "ph", "fence", "rev"} \subseteq DOMAIN proc' /\ proc'.kind = proc.kind
        /\ proc'.fence = proc.fence /\ proc'.rev = proc.rev /\ proc'.ph = "catch"
    BY <1>1, <1>2
  <2>2. ServerStays /\ Follows
    BY <1>2, ServerSame, EntryKept, UnresumableFollows DEF EntryInv, KeyInv
  <2>3. ProcInv'
    BY <1>1, <2>1, <2>2, ProcAdvances
  <2>. QED  BY <1>1, <1>2, <2>1, <2>2, <2>3, ProcMoves
<1>3. CASE /\ srv' = [srv EXCEPT !.fence = @ + 1, !.conn = srv.fence + 1, !.viewN = 0, !.redeemed = @ \cup {proc.key}]
           /\ up' = <<>> /\ down' = <<>> /\ UNCHANGED entry
           /\ \E heard \in BOOLEAN :
                 proc' = [proc EXCEPT !.ph = IF heard THEN "commit" ELSE "catch", !.fence = srv.fence + 1,
                           !.epoch = SrvEpoch, !.mode = IF proc.seat = "writer" THEN SeatOf(Me) ELSE "observer"]
  <2>1. /\ srv'.accepted = srv.accepted /\ srv'.fence = srv.fence + 1 /\ srv'.conn = srv.fence + 1
        /\ {"fence", "conn", "accepted", "viewN", "hist"} \subseteq DOMAIN srv' /\ srv'.viewN = 0 /\ srv'.hist = srv.hist
    BY <1>3 DEF KeyInv, KeyTypes
  <2>2. PICK heard \in BOOLEAN :
           proc' = [proc EXCEPT !.ph = IF heard THEN "commit" ELSE "catch", !.fence = srv.fence + 1,
                           !.epoch = SrvEpoch, !.mode = IF proc.seat = "writer" THEN SeatOf(Me) ELSE "observer"]
    BY <1>3
  <2>3. /\ {"kind", "ph", "fence", "rev"} \subseteq DOMAIN proc' /\ proc'.kind = proc.kind /\ proc'.rev = proc.rev
        /\ proc'.fence = srv.fence + 1 /\ proc'.ph \in {"commit", "catch"}
    BY <1>1, <2>2
  <2>. QED  BY <1>1, <1>3, <2>1, <2>3, ConnectedStep
<1>. QED  BY <1>2, <1>3 DEF ProcReady

\* The terminal takes the connection: what was sent on earlier ones is
\* accepted or uncertain by now.
LEMMA AdoptingStory ==
    ASSUME RuntimeInv, proc.ph = "commit", UNCHANGED <<srv, keys, down>>, entry.pend = {},
           entry'.fence = proc.fence, entry'.hist = entry.hist, entry'.pend = entry.pend, entry'.wire \in Nat,
           entry'.wire >= entry.wire, entry'.first = IF entry.first = 0 THEN proc.fence ELSE entry.first,
           \A i \in DOMAIN up' : up'[i].t # "input"
    PROVE  StoryInv'
<1>. USE DEF RuntimeInv
<1>1. PICK s \in [Key -> Nat] : entry.first # 0 /\ ~entry.hist => Told(s)
  BY DEF StoryInv
<1>2. SUFFICES ASSUME ~entry.hist
               PROVE  Told(s)'
  BY <1>1 DEF StoryInv
<1>3. \A k \in Key : (Accepted(k)' <=> Accepted(k)) /\ (Sent(k)' <=> Sent(k)) /\ keys[k].fence < proc.fence
  BY DEF Accepted, Sent, ProcInv
<1>4. \A k \in Key : Mine(k)' => entry.first # 0 /\ Mine(k)
  <2>1. ASSUME NEW k \in Key, Mine(k)', entry.first = 0
        PROVE  FALSE
    <3>1. keys[k].fence >= proc.fence /\ keys[k].fence < proc.fence
      BY <1>3, <2>1 DEF Mine
    <3>2. keys[k].fence \in Nat /\ proc.fence \in Nat
      BY DEF KeyInv, KeyTypes, KeyType, ProcInv
    <3>. QED  BY <3>1, <3>2
  <2>2. ASSUME NEW k \in Key, Mine(k)', entry.first # 0
        PROVE  Mine(k)
    BY <1>3, <2>2 DEF Mine
  <2>. QED  BY <2>1, <2>2
<1>5. \A k \in Key : Mine(k)' => s[k] \in Nat /\ s[k] <= entry'.wire /\ Accepted(k)
  <2>1. ASSUME NEW k \in Key, Mine(k)'
        PROVE  s[k] \in Nat /\ s[k] <= entry'.wire /\ Accepted(k)
    <3>1. Told(s) /\ Mine(k)
      BY <1>1, <1>2, <1>4, <2>1
    <3>2. s[k] <= entry.wire /\ Accepted(k) /\ s[k] \in Nat
      BY <1>1, <3>1 DEF Told
    <3>. QED  BY <3>2 DEF EntryInv
  <2>. QED  BY <2>1
<1>6. \A j, k \in Key : Mine(j)' /\ Mine(k)' /\ j # k => s[j] # s[k]
  BY <1>1, <1>2, <1>4 DEF Told
<1>7. \A i \in DOMAIN down' : down'[i].t # "acknowledgement"
  BY DEF ProcInv, NothingUnderWay
<1>8. \A i \in DOMAIN up' : ~IsInput(i)'
  BY DEF IsInput
<1>9. \A k \in Key : Mine(k)' => s[k] <= entry'.wire /\ (Accepted(k)' \/ s[k] \in entry'.pend)
  BY <1>3, <1>5
<1>10. srv'.conn = entry'.fence =>
          /\ \A i \in DOMAIN up' : IsInput(i)' =>
                /\ s[up'[i].key] = up'[i].seq
                /\ \A k \in Key : Mine(k)' /\ s[k] < up'[i].seq =>
                      Accepted(k)' \/ \E j \in DOMAIN up' : j < i /\ IsInput(j)' /\ up'[j].key = k
          /\ \A k \in Key : Mine(k)' => Accepted(k)' \/ OnTheWire(k)'
  BY <1>3, <1>5, <1>8
<1>. QED  BY <1>6, <1>7, <1>9, <1>10 DEF Told

LEMMA ProcCommitStep == ASSUME RuntimeInv, ProcCommit PROVE RuntimeInv'
<1>. USE DEF RuntimeInv
<1>1. /\ UNCHANGED <<keys, tail, down, srv>> /\ proc.ph = "commit" /\ proc.ph \in Before
      /\ {"kind", "ph", "fence", "rev"} \subseteq DOMAIN proc /\ Fields \subseteq DOMAIN entry
  BY DEF ProcCommit, Before, ProcInv, EntryInv
<1>2. CASE proc' = [proc EXCEPT !.ph = "catch"] /\ UNCHANGED <<entry, up>>
  <2>1. /\ {"kind", "ph", "fence", "rev"} \subseteq DOMAIN proc' /\ proc'.kind = proc.kind
        /\ proc'.fence = proc.fence /\ proc'.rev = proc.rev /\ proc'.ph = "catch"
    BY <1>1, <1>2
  <2>2. ServerStays /\ Follows
    BY <1>1, <1>2, ServerSame, EntryKept DEF EntryInv, KeyInv
  <2>3. ProcInv'
    BY <1>1, <2>1, <2>2, ProcAdvances
  <2>. QED  BY <1>1, <1>2, <2>1, <2>2, <2>3, ProcMoves
<1>3. CASE ~(Superseded \/ proc.fence <= entry.fence)
  <2>. DEFINE to == entry.wire + (IF proc.mode = "writer" THEN 2 ELSE 1)
              asWriter == proc.mode = "writer"
  <2>0. /\ entry' = [entry EXCEPT
                  !.state = "active", !.fence = proc.fence, !.mode = proc.mode,
                  !.rev = IF proc.kind = "attach" THEN @ + 1 ELSE @,
                  !.epoch = proc.epoch, !.holder = IF asWriter THEN Me ELSE "none",
                  !.notice = IF asWriter THEN <<proc.epoch, "writer">> ELSE <<0, "none">>,
                  !.wire = to, !.view = "none", !.out = 0, !.aborted = FALSE,
                  !.pump = 0, !.first = IF @ = 0 THEN proc.fence ELSE @,
                  !.ask = IF @ # <<>> /\ proc.epoch > @[1] THEN <<>> ELSE @]
        /\ up' = IF srv.conn = proc.fence THEN Append(up, [t |-> "resume"]) ELSE up
        /\ proc' = [proc EXCEPT !.ph = "callback", !.rev = IF proc.kind = "attach" THEN entry.rev + 1 ELSE @]
    BY <1>1, <1>3 DEF ProcCommit
  <2>. HIDE DEF to, asWriter
  <2>1. PICK resume : resume = to
    OBVIOUS
  <2>2. resume \in Nat /\ resume >= entry.wire
    BY <2>1 DEF EntryInv, to
  <2>3. PICK f : f = IF entry.first = 0 THEN proc.fence ELSE entry.first
    OBVIOUS
  <2>4. PICK v : v = IF proc.kind = "attach" THEN entry.rev + 1 ELSE entry.rev
    OBVIOUS
  <2>5. /\ Fields \subseteq DOMAIN entry' /\ entry'.state = "active" /\ entry'.fence = proc.fence
        /\ entry'.rev = v /\ entry'.wire = resume /\ entry'.view = "none" /\ entry'.pump = 0 /\ entry'.first = f
        /\ entry'.pend = entry.pend /\ entry'.hist = entry.hist /\ entry'.cont = entry.cont
    BY <1>1, <2>0, <2>1, <2>3, <2>4 DEF Fields
  <2>6. /\ {"kind", "ph", "fence", "rev"} \subseteq DOMAIN proc' /\ proc'.kind = proc.kind
        /\ proc'.fence = proc.fence /\ proc'.ph = "callback" /\ (proc.kind # "attach" => proc'.rev = proc.rev)
    BY <1>1, <2>0
  <2>7. proc.fence \in Nat /\ entry.fence \in Nat /\ entry.fence < proc.fence /\ v \in Nat
        /\ proc.kind \in {"attach", "reconnect"} /\ srv.conn \in {0, proc.fence} /\ entry.pend = {}
    BY <1>1, <2>4 DEF ProcInv, EntryInv
  <2>8. f # 0 /\ f \in Nat /\ f <= proc.fence
    BY <2>3, <2>7 DEF EntryInv
  <2>9. /\ up \in Seq(Message) /\ up' \in Seq(Message)
        /\ up' = up \/ up' = Append(up, [t |-> "resume"])
        /\ \A i \in DOMAIN up' : up'[i].t # "input"
    <3>1. PICK m : m = [t |-> "resume"]
      OBVIOUS
    <3>2. m \in Message /\ m.t # "input"
      BY <3>1 DEF Message
    <3>3. up \in Seq(Message) /\ Len(up) \in Nat /\ DOMAIN up = 1..Len(up) /\ \A i \in DOMAIN up : up[i].t # "input"
      BY <1>1 DEF KeyInv, KeyTypes, ProcInv, NothingUnderWay, IsInput
    <3>4. CASE up' = up
      BY <3>3, <3>4
    <3>5. CASE up' = Append(up, m)
      BY <3>1, <3>2, <3>3, <3>5
    <3>. QED  BY <2>0, <3>1, <3>3, <3>4, <3>5
  <2>10. KeyInv'
    <3>1. KeyTypes'
      BY <1>1, <2>9 DEF KeyInv, KeyTypes
    <3>. QED  BY <1>1, <2>9, <3>1, ConnectingKeepsOrder, KeysStayInOrder
  <2>11. EntryInv'
    BY <2>2, <2>5, <2>7, <2>8 DEF EntryInv
  <2>12. FenceInv'
    BY <1>1, <2>5, <2>6 DEF FenceInv
  <2>13. ConnInv'
    BY <1>1, <2>5, <2>7 DEF ConnInv
  <2>14. ProcInv'
    <3>1. proc.kind = "reconnect" => proc'.rev # 0 /\ entry'.pend = {}
      BY <2>5, <2>6, <2>7 DEF ProcInv
    <3>. QED  BY <2>5, <2>6, <2>7, <3>1 DEF ProcInv, Before
  <2>15. StoryInv'
    BY <1>1, <2>2, <2>3, <2>5, <2>7, <2>9, AdoptingStory
  <2>. QED  BY <2>10, <2>11, <2>12, <2>13, <2>14, <2>15
<1>. QED  BY <1>1, <1>2, <1>3 DEF ProcCommit

LEMMA ProcFinishStep == ASSUME RuntimeInv, ProcFinish PROVE RuntimeInv'
<1>. USE DEF RuntimeInv
<1>1. /\ UNCHANGED <<keys, tail, up, down, srv>> /\ proc.ph = "callback"
      /\ {"kind", "ph", "fence", "rev"} \subseteq DOMAIN proc /\ Fields \subseteq DOMAIN entry
  BY DEF ProcFinish, ProcInv, EntryInv
<1>2. ServerStays
  BY <1>1, ServerSame DEF KeyInv
<1>3. CASE /\ entry' = [entry EXCEPT !.pump = IF entry.rev = proc.rev THEN proc.rev ELSE 0]
           /\ proc' = Idle
  <2>1. /\ Fields \subseteq DOMAIN entry' /\ entry'.state = entry.state
        /\ entry'.fence = entry.fence /\ entry'.wire = entry.wire /\ entry'.first = entry.first /\ entry'.rev = entry.rev
        /\ entry'.pend = entry.pend /\ entry'.hist = entry.hist /\ entry'.cont = entry.cont
    BY <1>1, <1>3 DEF Fields
  <2>2. Follows
    BY <1>2, <2>1, EntryKept
  <2>3. proc'.fence = 0 /\ ProcInv'
    BY <1>3 DEF Idle, ProcInv, Before
  <2>. QED  BY <1>1, <1>2, <2>2, <2>3, ProcMoves
<1>4. CASE proc' = [proc EXCEPT !.ph = "catch"] /\ UNCHANGED entry
  <2>1. /\ {"kind", "ph", "fence", "rev"} \subseteq DOMAIN proc' /\ proc'.kind = proc.kind
        /\ proc'.fence = proc.fence /\ proc'.rev = proc.rev /\ proc'.ph = "catch"
    BY <1>1, <1>4
  <2>2. Follows
    BY <1>1, <1>2, <1>4, EntryKept
  <2>3. ProcInv'
    BY <1>1, <1>4, <2>1 DEF ProcInv, Before
  <2>. QED  BY <1>1, <1>2, <2>1, <2>2, <2>3, ProcMoves
<1>. QED  BY <1>3, <1>4 DEF ProcFinish

\* What the catch block makes of the terminal.
LEMMA ProcCatchStep == ASSUME RuntimeInv, ProcCatch PROVE RuntimeInv'
<1>. USE DEF RuntimeInv
<1>1. /\ UNCHANGED <<up, down>> /\ proc' = Idle /\ Fields \subseteq DOMAIN entry
      /\ IF entry'.state = "none" THEN DropQueue ELSE UNCHANGED <<keys, tail, take>>
  BY DEF ProcCatch, EntryInv
<1>2. PICK done :
         /\ srv' = [srv EXCEPT !.cancelled = @ \cup (done \ srv.redeemed),
                               !.conn = IF proc.fence # 0 /\ proc.fence = @ THEN 0 ELSE @]
         /\ entry' =
               IF proc.kind = "attach"
               THEN IF entry.state \in {"none", "detached"} \/ life # "open" THEN entry ELSE NoEntry
               ELSE IF entry.rev = proc.rev /\ entry.state # "failed"
                    THEN [entry EXCEPT !.state = "interrupted", !.reqKey = IF @ \in done THEN 0 ELSE @]
                    ELSE [entry EXCEPT !.reqKey = IF @ \in done THEN 0 ELSE @]
  BY DEF ProcCatch
<1>3. ServerStays /\ (srv'.conn # 0 => srv'.conn = srv.conn /\ srv.conn # proc.fence)
  BY <1>2 DEF KeyInv, KeyTypes, ServerStays
<1>4. proc'.fence = 0 /\ ProcInv'
  BY <1>1 DEF Idle, ProcInv, Before
<1>5. UNCHANGED <<keys, tail>> \/ DropQueue
  BY <1>1
<1>6. CASE proc.kind = "attach" /\ entry' = NoEntry
  <2>1. DropQueue
    BY <1>1, <1>6 DEF NoEntry
  <2>2. Plain
    BY <1>1, <1>3, <2>1, FramesKept, IsPlain DEF KeyInv
  <2>3. srv'.conn # 0 => srv.conn # entry.fence
    BY <1>3, <1>6 DEF ProcInv
  <2>4. KeyInv' /\ EntryInv' /\ ConnInv' /\ StoryInv'
    BY <1>6, <2>1, <2>2, <2>3, EntryGoes
  <2>5. entry'.fence = 0
    BY <1>6 DEF NoEntry
  <2>6. FenceInv'
    BY <1>4, <2>2, <2>5, FencesStay
  <2>. QED  BY <1>4, <2>4, <2>6
<1>7. CASE entry' = entry
  <2>1. Follows
    BY <1>1, <1>3, <1>7, EntryKept
  <2>. QED  BY <1>1, <1>3, <1>4, <1>5, <2>1, ProcMoves
<1>8. CASE proc.kind # "attach" /\ entry.rev = proc.rev /\ entry.state # "failed"
  <2>0. proc.kind = "reconnect"
    BY <1>8 DEF ProcInv, ProcCatch
  <2>1. proc.rev # 0 /\ entry.pend = {} /\ entry.state # "none" /\ entry.hist \in BOOLEAN /\ entry.rev \in Nat
    BY <1>8, <2>0 DEF ProcInv, EntryInv
  <2>2. PICK x : entry' = [entry EXCEPT !.state = "interrupted", !.reqKey = x]
    BY <1>2, <1>8
  <2>3. /\ Fields \subseteq DOMAIN entry' /\ entry'.state = "interrupted"
        /\ entry'.fence = entry.fence /\ entry'.wire = entry.wire /\ entry'.first = entry.first /\ entry'.rev = entry.rev
        /\ entry'.pend = entry.pend /\ entry'.hist = entry.hist /\ entry'.cont = entry.cont
    BY <1>1, <2>2 DEF Fields
  <2>4. Follows
    BY <2>1, <2>3 DEF Follows
  <2>. QED  BY <1>1, <1>3, <1>4, <1>5, <2>4, ProcMoves
<1>9. CASE \E x : entry' = [entry EXCEPT !.reqKey = x]
  <2>1. /\ Fields \subseteq DOMAIN entry' /\ entry'.state = entry.state
        /\ entry'.fence = entry.fence /\ entry'.wire = entry.wire /\ entry'.first = entry.first /\ entry'.rev = entry.rev
        /\ entry'.pend = entry.pend /\ entry'.hist = entry.hist /\ entry'.cont = entry.cont
    BY <1>1, <1>9 DEF Fields
  <2>2. Follows
    BY <1>3, <2>1, EntryKept
  <2>. QED  BY <1>1, <1>3, <1>4, <1>5, <2>2, ProcMoves
<1>. QED  BY <1>2, <1>6, <1>7, <1>8, <1>9

LEMMA DetachStep == ASSUME RuntimeInv, Detach PROVE RuntimeInv'
<1>. USE DEF RuntimeInv
<1>1. /\ UNCHANGED <<keys, tail, up, down>> /\ entry.state # "none" /\ Close({entry.fence})
      /\ entry' = [entry EXCEPT !.state = "detached", !.rev = @ + 1, !.aborted = TRUE]
      /\ proc' = proc \/ proc' = [proc EXCEPT !.abort = TRUE]
  BY DEF Detach
<1>2. Fields \subseteq DOMAIN entry /\ entry.hist \in BOOLEAN /\ entry.rev \in Nat /\ entry.fence # 0
  BY <1>1 DEF EntryInv
<1>3. ServerStays /\ srv'.conn # entry.fence
  BY <1>1, <1>2, ServerCloses DEF KeyInv
<1>4. /\ Fields \subseteq DOMAIN entry' /\ entry'.state = "detached" /\ entry'.rev = entry.rev + 1
      /\ entry'.fence = entry.fence /\ entry'.wire = entry.wire /\ entry'.first = entry.first
      /\ entry'.pend = entry.pend /\ entry'.hist = entry.hist /\ entry'.cont = entry.cont
  BY <1>1, <1>2 DEF Fields
<1>5. Follows
  BY <1>1, <1>2, <1>3, <1>4 DEF Follows
<1>6. ProcSame
  BY <1>1 DEF ProcSame, ProcInv
<1>7. Plain
  BY <1>1, <1>3, FramesKept, IsPlain DEF KeyInv
<1>. QED  BY <1>1, <1>4, <1>5, <1>6, <1>7, EntryStep

\* The terminal is dropped with its queue once its connection is closed.
LEMMA EntryDropped ==
    ASSUME RuntimeInv, entry' = NoEntry, DropQueue, UNCHANGED <<up, down>>, ProcSame, ServerStays,
           srv'.conn # 0 => srv.conn # entry.fence
    PROVE  RuntimeInv'
<1>1. Plain
  BY FramesKept, IsPlain DEF RuntimeInv, KeyInv
<1>2. KeyInv' /\ EntryInv' /\ ConnInv' /\ StoryInv'
  BY <1>1, EntryGoes
<1>3. ProcInv'
  BY <1>1, ProcWhenGone
<1>4. FenceInv'
  <2>1. entry'.fence = 0 /\ proc'.fence = proc.fence
    BY DEF NoEntry, ProcSame
  <2>. QED  BY <1>1, <2>1, FencesStay
<1>. QED  BY <1>2, <1>3, <1>4 DEF RuntimeInv

LEMMA DetachDoneStep == ASSUME RuntimeInv, DetachDone PROVE RuntimeInv'
<1>. USE DEF RuntimeInv
<1>1. entry' = NoEntry /\ DropQueue /\ UNCHANGED <<proc, up, down, srv>> /\ entry.state = "detached"
  BY DEF DetachDone
<1>2. ServerStays /\ ProcSame
  BY <1>1, ServerSame DEF KeyInv, ProcSame, ProcInv
<1>3. srv.conn # entry.fence
  BY <1>1 DEF ConnInv
<1>. QED  BY <1>1, <1>2, <1>3, EntryDropped

LEMMA ShutdownStep == ASSUME RuntimeInv, Shutdown PROVE RuntimeInv'
<1>. USE DEF RuntimeInv
<1>1. UNCHANGED <<up, down>> /\ (proc' = proc \/ proc' = [proc EXCEPT !.abort = TRUE])
  BY DEF Shutdown
<1>2. ProcSame
  BY <1>1 DEF ProcSame, ProcInv
<1>3. CASE UNCHANGED <<entry, keys, tail, srv>>
  <2>1. ServerStays
    BY <1>3, ServerSame DEF KeyInv
  <2>2. Follows
    BY <1>3, <2>1, EntryKept DEF EntryInv
  <2>3. Plain
    BY <1>1, <1>3, <2>1, FramesKept, IsPlain DEF KeyInv
  <2>. QED  BY <1>2, <1>3, <2>2, <2>3, EntryStep
<1>4. CASE entry' = NoEntry /\ Close({entry.fence}) /\ DropQueue
  <2>1. ServerStays /\ (srv'.conn # 0 => srv.conn # entry.fence)
    BY <1>4, ServerCloses DEF KeyInv
  <2>. QED  BY <1>1, <1>2, <1>4, <2>1, EntryDropped
<1>5. CASE /\ entry' = [entry EXCEPT !.state = "failed", !.rev = @ + 1, !.aborted = TRUE]
           /\ entry.state # "none" /\ UNCHANGED <<keys, tail, srv>>
  <2>1. ServerStays
    BY <1>5, ServerSame DEF KeyInv
  <2>2. Fields \subseteq DOMAIN entry /\ entry.hist \in BOOLEAN /\ entry.rev \in Nat
    BY DEF EntryInv
  <2>3. /\ Fields \subseteq DOMAIN entry' /\ entry'.state = "failed" /\ entry'.rev = entry.rev + 1
        /\ entry'.fence = entry.fence /\ entry'.wire = entry.wire /\ entry'.first = entry.first
        /\ entry'.pend = entry.pend /\ entry'.hist = entry.hist /\ entry'.cont = entry.cont
    BY <1>5, <2>2 DEF Fields
  <2>4. Follows
    BY <1>5, <2>2, <2>3 DEF Follows
  <2>5. Plain
    BY <1>1, <1>5, <2>1, FramesKept, IsPlain DEF KeyInv
  <2>. QED  BY <1>2, <1>5, <2>3, <2>4, <2>5, EntryStep
<1>. QED  BY <1>3, <1>4, <1>5 DEF Shutdown

LEMMA ShutdownDoneStep == ASSUME RuntimeInv, ShutdownDone PROVE RuntimeInv'
<1>. USE DEF RuntimeInv
<1>1. UNCHANGED <<entry, proc, keys, tail, up, down>> /\ \E x : srv' = [srv EXCEPT !.cancelled = x]
  BY DEF ShutdownDone
<1>2. ServerStays
  BY <1>1 DEF KeyInv, KeyTypes, ServerStays
<1>3. down' \in Seq(Downstream) /\ AcksKept
  BY <1>1, FramesKept DEF KeyInv
<1>. QED  BY <1>1, <1>2, <1>3, ServerStep

-----------------------------------------------------------------------------
(* The invariant, and what it says *)

\* Nothing is attached, typed or on its way.
LEMMA RuntimeInvInit == Init => RuntimeInv
<1>. SUFFICES ASSUME Init
              PROVE  RuntimeInv
  OBVIOUS
<1>1. /\ entry = NoEntry /\ proc = Idle /\ tail = <<>> /\ up = <<>> /\ down = <<>>
      /\ keys = [k \in Key |-> NoKey]
  BY DEF Init
<1>2. /\ {"fence", "conn", "accepted", "viewN", "hist"} \subseteq DOMAIN srv
      /\ srv.fence = 0 /\ srv.conn = 0 /\ srv.accepted = <<>> /\ srv.viewN = 0 /\ srv.hist \in {<<Me>>, <<Other>>}
  BY DEF Init
<1>3. /\ Fields \subseteq DOMAIN entry /\ entry.state = "none" /\ entry.rev = 0 /\ entry.fence = 0 /\ entry.wire = 0
      /\ entry.first = 0 /\ entry.pend = {} /\ entry.hist \in BOOLEAN /\ ~entry.hist /\ entry.cont = "none"
  BY <1>1 DEF NoEntry, Fields
<1>4. {"kind", "ph", "fence", "rev"} \subseteq DOMAIN proc /\ proc.kind = "none" /\ proc.ph = "none" /\ proc.fence = 0
  BY <1>1 DEF Idle
<1>5. DOMAIN keys = Key /\ \A k \in Key : KeyType(keys[k]) /\ keys[k].st = "untyped" /\ keys[k].fence = 0
  BY <1>1 DEF NoKey, KeyType
<1>6. KeyTypes
  <2>1. tail \in Seq(Key) /\ up \in Seq(Message) /\ down \in Seq(Downstream) /\ srv.accepted \in Seq(Key \X Nat)
    BY <1>1, <1>2
  <2>2. srv.hist \in Seq({Me, Other})
    <3>1. Me \in {Me, Other} /\ Other \in {Me, Other}
      OBVIOUS
    <3>2. <<Me>> \in Seq({Me, Other}) /\ <<Other>> \in Seq({Me, Other})
      BY <3>1
    <3>. QED  BY <1>2, <3>2
  <2>. QED  BY <1>2, <1>5, <2>1, <2>2 DEF KeyTypes
<1>7. QueueInOrder /\ KeysInOrder /\ WireInOrder /\ AcceptedWereSent /\ KeysLandOnce
  BY <1>1, <1>2, <1>5 DEF QueueInOrder, KeysInOrder, WireInOrder, AcceptedWereSent, KeysLandOnce, Sent
<1>8. EntryInv
  BY <1>3 DEF EntryInv
<1>9. FenceInv /\ ConnInv
  BY <1>2, <1>3, <1>4, <1>5 DEF FenceInv, ConnInv
<1>10. ProcInv
  BY <1>4 DEF ProcInv, Before
<1>11. StoryInv
  <2>1. [k \in Key |-> 0] \in [Key -> Nat]
    OBVIOUS
  <2>. QED  BY <1>3, <2>1 DEF StoryInv
<1>. QED  BY <1>6, <1>7, <1>8, <1>9, <1>10, <1>11 DEF RuntimeInv, KeyInv

LEMMA RuntimeInvStutters == ASSUME RuntimeInv, UNCHANGED vars PROVE RuntimeInv'
<1>. USE DEF RuntimeInv
<1>1. UNCHANGED <<entry, proc, keys, tail, up, down, srv>>
  BY DEF vars
<1>2. ServerStays /\ down' \in Seq(Downstream) /\ AcksKept
  BY <1>1, ServerSame, FramesKept DEF KeyInv
<1>. QED  BY <1>1, <1>2, ServerStep

LEMMA RuntimeInvNext == RuntimeInv /\ [Next]_vars => RuntimeInv'
<1>. SUFFICES ASSUME RuntimeInv, [Next]_vars
              PROVE  RuntimeInv'
  OBVIOUS
<1>1. CASE AttachStart \/ ReconnectStart \/ ProcCancel \/ ProcAdmit \/ ProcGrant
  BY <1>1, AttachStartStep, ReconnectStartStep, ProcCancelStep, ProcAdmitStep, ProcGrantStep
<1>2. CASE ProcReady \/ ProcCommit \/ ProcFinish \/ ProcCatch
  BY <1>2, ProcReadyStep, ProcCommitStep, ProcFinishStep, ProcCatchStep
<1>3. CASE Detach \/ DetachDone \/ Shutdown \/ ShutdownDone
  BY <1>3, DetachStep, DetachDoneStep, ShutdownStep, ShutdownDoneStep
<1>4. CASE (\E k \in Key : TypeKey(k) \/ SendInput(k)) \/ RunSend
  BY <1>4, TypeKeyStep, SendInputStep, RunSendStep
<1>5. CASE HeartbeatExpires \/ AcknowledgementExpires \/ ViewExpires
  BY <1>5, TimerSteps
<1>6. CASE OnViewStarted \/ OnViewReady \/ OnOutput \/ WriteDone \/ WriteExpires \/ OnWriterEpoch
  BY <1>6, OnViewStartedStep, OnViewReadyStep, OnOutputStep, WriteDoneStep, WriteExpiresStep, OnWriterEpochStep
<1>7. CASE OnGeometry \/ OnAcknowledgement \/ OnExit \/ OnEnd
  BY <1>7, OnGeometryStep, OnAcknowledgementStep, OnExitStep, OnEndStep
<1>8. CASE TakeAsk \/ TakeSend \/ TakeReply
  BY <1>8, TakeAskStep, TakeSendStep, TakeReplyStep
<1>9. CASE GatewayResume \/ GatewayInput \/ GatewayOutput \/ RivalTakes \/ ProcessEnds \/ TransportDrops
  BY <1>9, GatewayResumeStep, GatewayInputStep, GatewayOutputStep, RivalTakesStep, ProcessEndsStep, TransportDropsStep
<1>10. CASE UNCHANGED vars
  BY <1>10, RuntimeInvStutters
<1>. QED  BY <1>1, <1>2, <1>3, <1>4, <1>5, <1>6, <1>7, <1>8, <1>9, <1>10 DEF Next

LEMMA RuntimeInvHolds == Spec => []RuntimeInv
BY RuntimeInvInit, RuntimeInvNext, PTL DEF Spec

\* While the notice of input is "complete" nothing is unacknowledged and
\* nothing uncertain, so every key of this terminal was accepted.
LEMMA RuntimeInvSays == RuntimeInv => KeysArrive
<1>. SUFFICES ASSUME RuntimeInv
              PROVE  KeysArrive
  OBVIOUS
<1>1. KeysLandOnce
  BY DEF RuntimeInv, KeyInv
<1>2. CompleteMeansAccepted
  <2>. SUFFICES ASSUME entry.cont = "complete", NEW k \in Key, keys[k].st = "sent", keys[k].fence >= entry.first
                PROVE  Accepted(k)
    BY DEF CompleteMeansAccepted, Accepted
  <2>1. entry.pend = {} /\ ~entry.hist /\ entry.first # 0
    BY DEF RuntimeInv, EntryInv
  <2>2. PICK s \in [Key -> Nat] : Told(s)
    BY <2>1 DEF RuntimeInv, StoryInv
  <2>. QED  BY <2>1, <2>2 DEF Told, Mine, Sent
<1>. QED  BY <1>1, <1>2 DEF KeysArrive

\* The gateway accepts each key at most once, in the order typed, on the very
\* attachment it was typed at (sendInput, #enqueueTerminalSend and the fences
\* of #admitRemoteTerminal), and the notice "complete" is shown only when every
\* key the terminal put on a wire was accepted (the acknowledgement branch of
\* the pump and retireInputAcceptance), across lost replies, replaced
\* connections, a seat that changes hands and shutdown.
THEOREM KeysDoArrive == Spec => []KeysArrive
BY RuntimeInvHolds, RuntimeInvSays, PTL

-----------------------------------------------------------------------------
(* The stream of an attachment *)

EntryFields ==
    {"state", "rev", "fence", "process", "mode", "epoch", "holder", "notice", "wire", "inputSeq", "acked", "pend",
     "hist", "retired", "cont", "view", "out", "pump", "aborted", "reqKey", "ask", "bad", "first"}
ProcFields == {"kind", "ph", "rev", "key", "seat", "fence", "mode", "epoch", "abort"}
SrvFields == {"fence", "conn", "process", "used", "hist", "viewN", "accepted", "issued", "redeemed", "cancelled", "committed"}

EntryType(e) ==
    /\ EntryFields \subseteq DOMAIN e
    /\ e.state \in {"none", "active", "interrupted", "reconnecting", "detached", "failed"}
    /\ e.mode \in {"writer", "observer"} /\ e.view \in {"none", "started", "ready"} /\ e.aborted \in BOOLEAN
    /\ e.rev \in Nat /\ e.fence \in Nat /\ e.epoch \in Nat /\ e.wire \in Nat /\ e.inputSeq \in Nat /\ e.acked \in Nat
    /\ e.retired \in Nat /\ e.out \in Nat /\ e.pump \in Nat /\ e.reqKey \in Nat
    /\ e.notice \in Nat \X {"none", "writer", "observer"} /\ e.ask \in Seq(Nat)
    /\ e.pend \subseteq Nat /\ IsFiniteSet(e.pend) /\ Cardinality(e.pend) <= Window

ProcType(p) ==
    /\ ProcFields \subseteq DOMAIN p
    /\ p.ph \in {"none", "cancel", "admit", "grant", "ready", "commit", "callback", "catch"}
    /\ p.fence \in Nat /\ p.key \in Nat /\ p.epoch \in Nat /\ p.rev \in Nat /\ p.mode \in {"none", "writer", "observer"}

SrvType(s) ==
    /\ SrvFields \subseteq DOMAIN s /\ s.used \in Nat /\ s.fence \in 0 .. MaxFence /\ s.conn \in Nat
    /\ s.viewN \in Nat /\ s.hist \in Seq({Me, Other}) /\ s.committed \subseteq Nat

TakeType(t) == {"ph", "rev", "expected", "answer"} \subseteq DOMAIN t /\ t.expected \in Nat

RestType ==
    /\ SrvType(srv) /\ TakeType(take)
    /\ life \in {"open", "closing", "stopped", "failed"}
    /\ writing \in [n : 0 .. MaxOut, fence : Nat] /\ screen \in Seq(Nat)

\* Frames are still read from the connection of the terminal.
Attached == \/ entry.state = "active"
            \/ entry.state = "interrupted" /\ entry.pump # 0 /\ entry.pump = entry.rev

\* Sockets and requests belong to the terminal or to the procedure.
LeakInv ==
    /\ open \subseteq 1 .. MaxFence /\ reqs \subseteq 1 .. MaxReq
    /\ NothingLeaks
    /\ proc.ph \in {"admit", "grant"} => reqs = {}
    /\ proc.ph = "ready" => reqs \subseteq {proc.key}
    /\ proc.ph \in {"commit", "callback"} => reqs \subseteq srv.redeemed
    /\ proc.ph \in {"none", "cancel", "admit", "grant", "ready"} => proc.fence = 0
    /\ proc.ph \in {"grant", "ready", "commit"} => entry.fence \notin open
    /\ proc.ph = "callback" => proc.fence = entry.fence \/ proc.fence \notin open
    /\ entry.state = "detached" => entry.fence \notin open
    /\ life = "stopped" => proc.kind = "none" /\ entry.state = "none" /\ reqs = {}

\* The pump of an attachment that is replaced is past.
PumpInv ==
    /\ entry.pump <= entry.rev /\ (entry.state # "none" => entry.rev # 0)
    /\ proc.kind # "none" => entry.pump = 0 \/ entry.pump < entry.rev
    /\ proc.ph = "callback" => entry.state \notin {"interrupted", "reconnecting"}
    /\ proc.ph = "callback" /\ entry.state = "active" => entry.view = "none" /\ entry.pend = {}
    /\ Attached => srv.conn \in {0, entry.fence}
    /\ entry.state = "active" => ~entry.aborted
    /\ writing.fence <= srv.fence
    /\ proc.ph = "commit" => writing.fence < proc.fence

\* Until it is adopted, a new connection has carried notices of the seat alone.
FreshInv ==
    proc.ph = "commit" =>
        /\ up = <<>> /\ srv.viewN = 0
        /\ \A i \in DOMAIN down : down[i].t \in {"writer_epoch", "control_state"}
        /\ proc.mode \in {"writer", "observer"}
        /\ proc.mode = "writer" => proc.epoch \in 1 .. SrvEpoch /\ srv.hist[proc.epoch] = Me

\* The seat at an epoch is what the control plane made it, once for all.
ModeAt(e) == IF srv.hist[e] = Me THEN "writer" ELSE "observer"
SeatInv ==
    /\ SrvEpoch \in 1 .. MaxEpoch /\ entry.epoch <= SrvEpoch /\ proc.epoch <= SrvEpoch
    /\ \A e \in srv.committed : e + 1 <= SrvEpoch
    /\ take.answer = "committed" => take.expected + 1 <= SrvEpoch
    /\ entry.notice[1] # 0 => entry.notice[1] \in 1 .. SrvEpoch /\ entry.notice[2] = ModeAt(entry.notice[1])
    /\ \A i \in DOMAIN down : down[i].t = "writer_epoch" =>
          /\ down[i].epoch \in 1 .. SrvEpoch /\ down[i].mode = ModeAt(down[i].epoch)
          /\ down[i].mode = "writer" => down[i].holder = Me

\* Geometry comes after the notice of its epoch.
Announced(i) == \E j \in DOMAIN down : j < i /\ down[j].t = "writer_epoch" /\ down[j].epoch = down[i].epoch
GeometryInv ==
    Attached \/ proc.ph = "commit" =>
        \A i \in DOMAIN down : down[i].t = "control_state" => Announced(i) \/ (Attached /\ down[i].epoch <= entry.epoch)

\* A receipt is of a retired scope, or of input that is still unacknowledged.
Due(n) == n <= entry.retired \/ (n \in entry.pend /\ n > entry.acked)
IsReceipt(i) == down[i].t = "acknowledgement"
ReceiptInv ==
    /\ entry.inputSeq <= entry.wire /\ entry.acked <= entry.wire /\ entry.retired <= entry.wire
    /\ \A p \in entry.pend : p <= entry.inputSeq
    /\ Attached =>
        /\ \A i \in DOMAIN down : IsReceipt(i) => Due(down[i].n)
        /\ \A i, j \in DOMAIN down : i < j /\ IsReceipt(i) /\ IsReceipt(j) => down[i].n < down[j].n
        /\ srv.conn # 0 =>
              /\ \A i \in DOMAIN up : IsInput(i) => Due(up[i].seq)
              /\ \A i, j \in DOMAIN up : i < j /\ IsInput(i) /\ IsInput(j) => up[i].seq < up[j].seq
              /\ \A i \in DOMAIN down, j \in DOMAIN up : IsReceipt(i) /\ IsInput(j) => down[i].n < up[j].seq

\* The frame the viewport applies, or has applied last.
Writing == writing # NoWrite /\ writing.fence = entry.fence
Seen == IF Writing THEN writing.n ELSE entry.out
IsView(i) == down[i].t \in {"view_started", "output", "view_ready"}
IsOutput(i) == down[i].t = "output"

\* What is left of a view on the stream: its start, its frames from the first
\* the viewport has not seen, and its readiness after the first of all.
ViewInv ==
    /\ entry.view = "none" => entry.out = 0 /\ ~Writing
    /\ Writing => writing.n = entry.out + 1
    /\ \A i \in DOMAIN down : down[i].t = "view_started" =>
          entry.view = "none" /\ \A j \in DOMAIN down : j < i => ~IsView(j)
    /\ \A i \in DOMAIN down : down[i].t \in {"output", "view_ready"} /\ entry.view = "none" =>
          \E j \in DOMAIN down : j < i /\ down[j].t = "view_started"
    /\ \A i \in DOMAIN down : IsOutput(i) =>
          /\ down[i].n > Seen
          /\ \A j \in DOMAIN down : j < i /\ IsOutput(j) => down[j].n < down[i].n
          /\ \A m \in Nat : Seen < m /\ m <= down[i].n => \E j \in DOMAIN down : j <= i /\ IsOutput(j) /\ down[j].n = m
    /\ \A i \in DOMAIN down : down[i].t = "view_ready" =>
          /\ down[i].n = 1 /\ entry.view # "ready" /\ Seen <= 1
          /\ Seen = 1 \/ \E j \in DOMAIN down : j < i /\ IsOutput(j)
          /\ \A j \in DOMAIN down : j < i => down[j].t # "view_ready" /\ (IsOutput(j) => down[j].n = 1)

\* What the gateway has sent of the view.
GatewayInv ==
    srv.conn # 0 =>
        /\ \A i, j \in DOMAIN up : up[i].t = "resume" /\ up[j].t = "resume" => i = j
        /\ IF srv.viewN = 0
           THEN entry.view = "none" /\ \A i \in DOMAIN down : ~IsView(i)
           ELSE /\ \A i \in DOMAIN up : up[i].t # "resume"
                /\ entry.view = "none" => \E i \in DOMAIN down : down[i].t = "view_started"
                /\ Seen <= srv.viewN
                /\ \A i \in DOMAIN down : IsOutput(i) => down[i].n <= srv.viewN
                /\ \A m \in Nat : Seen < m /\ m <= srv.viewN => \E j \in DOMAIN down : IsOutput(j) /\ down[j].n = m

OutputsBounded == \A i \in DOMAIN down : IsOutput(i) => down[i].n \in 1 .. MaxOut

ScreenInv ==
    /\ ScreenIsAView
    /\ entry.state = "active" /\ (entry.view # "none" \/ entry.pump # 0) => writing = NoWrite \/ writing.fence = entry.fence

StreamInv ==
    /\ EntryType(entry) /\ ProcType(proc) /\ RestType /\ HonestStreamAccepted
    /\ LeakInv /\ PumpInv /\ FreshInv /\ SeatInv /\ GeometryInv /\ ReceiptInv
    /\ (Attached => ViewInv /\ GatewayInv) /\ OutputsBounded /\ ScreenInv

-----------------------------------------------------------------------------
(* What a step leaves of the terminal *)

LEMMA NoPending == IsFiniteSet({}) /\ Cardinality({}) <= Window
BY FS_EmptySet, RuntimeConstants

LEMMA FewerPending ==
    ASSUME NEW S, IsFiniteSet(S), Cardinality(S) <= Window, NEW T, T \subseteq S
    PROVE  IsFiniteSet(T) /\ Cardinality(T) <= Window
<1>1. IsFiniteSet(T) /\ Cardinality(T) \in Nat /\ Cardinality(S) \in Nat /\ Cardinality(T) <= Cardinality(S)
  BY FS_Subset, FS_CardinalityType
<1>2. Window \in Nat
  BY RuntimeConstants
<1>. QED  BY <1>1, <1>2

\* The attachment and what it has shown.
SameWork(e, f) ==
    /\ EntryFields \subseteq DOMAIN f
    /\ f.fence = e.fence /\ f.view = e.view /\ f.out = e.out

\* The scope of the input goes on, or is retired with what it held.
SameScope(e, f) ==
    /\ f.wire = e.wire /\ f.inputSeq = e.inputSeq /\ f.acked = e.acked
    /\ \/ f.pend = e.pend /\ f.retired = e.retired
       \/ f.pend = {} /\ f.retired = IF e.inputSeq > e.retired THEN e.inputSeq ELSE e.retired

SameSeat(e, f) == f.epoch = e.epoch /\ f.notice = e.notice

LEMMA RetireShape ==
    ASSUME NEW e, EntryType(e)
    PROVE  /\ EntryType(Retire(e)) /\ SameWork(e, Retire(e)) /\ SameScope(e, Retire(e)) /\ SameSeat(e, Retire(e))
           /\ Retire(e).state = e.state /\ Retire(e).rev = e.rev /\ Retire(e).pump = e.pump
           /\ Retire(e).aborted = e.aborted /\ Retire(e).bad = e.bad /\ Retire(e).pend = {}
<1>1. /\ DOMAIN Retire(e) = DOMAIN e
      /\ \A x \in EntryFields \ {"hist", "pend", "retired", "cont"} : Retire(e)[x] = e[x]
      /\ Retire(e).pend = {} /\ Retire(e).retired = IF e.inputSeq > e.retired THEN e.inputSeq ELSE e.retired
  BY DEF Retire, EntryType, EntryFields
<1>2. /\ Retire(e).state = e.state /\ Retire(e).rev = e.rev /\ Retire(e).fence = e.fence /\ Retire(e).mode = e.mode
      /\ Retire(e).epoch = e.epoch /\ Retire(e).notice = e.notice /\ Retire(e).wire = e.wire
      /\ Retire(e).inputSeq = e.inputSeq /\ Retire(e).acked = e.acked /\ Retire(e).view = e.view
      /\ Retire(e).out = e.out /\ Retire(e).pump = e.pump /\ Retire(e).aborted = e.aborted
      /\ Retire(e).reqKey = e.reqKey /\ Retire(e).ask = e.ask /\ Retire(e).bad = e.bad
  BY <1>1 DEF EntryFields
<1>3. EntryFields \subseteq DOMAIN Retire(e)
  BY <1>1 DEF EntryType
<1>4. EntryType(Retire(e))
  BY <1>1, <1>2, <1>3, NoPending DEF EntryType
<1>. QED  BY <1>1, <1>2, <1>3, <1>4 DEF SameWork, SameScope, SameSeat

LEMMA LoseShape ==
    ASSUME NEW e, EntryType(e), NEW st \in {"interrupted", "failed"}
    PROVE  /\ EntryType(Lose(e, st)) /\ SameWork(e, Lose(e, st)) /\ SameScope(e, Lose(e, st)) /\ SameSeat(e, Lose(e, st))
           /\ Lose(e, st).state = st /\ Lose(e, st).rev = e.rev /\ Lose(e, st).pump = e.pump
           /\ Lose(e, st).aborted /\ Lose(e, st).bad = e.bad /\ Lose(e, st).pend = {}
<1>1. PICK r : r = Retire(e)
  OBVIOUS
<1>2. Lose(e, st) = [r EXCEPT !.state = st, !.aborted = TRUE]
  BY <1>1 DEF Lose
<1>3. /\ EntryType(r) /\ SameWork(e, r) /\ SameScope(e, r) /\ SameSeat(e, r)
      /\ r.rev = e.rev /\ r.pump = e.pump /\ r.bad = e.bad /\ r.pend = {}
  BY <1>1, RetireShape
<1>4. PICK f : f = Lose(e, st)
  OBVIOUS
<1>5. /\ DOMAIN f = DOMAIN r /\ \A x \in EntryFields \ {"state", "aborted"} : f[x] = r[x]
      /\ f.state = st /\ f.aborted = TRUE
  BY <1>2, <1>3, <1>4 DEF EntryType, EntryFields
<1>6. /\ f.rev = r.rev /\ f.fence = r.fence /\ f.mode = r.mode
      /\ f.epoch = r.epoch /\ f.notice = r.notice /\ f.wire = r.wire
      /\ f.inputSeq = r.inputSeq /\ f.acked = r.acked /\ f.view = r.view
      /\ f.out = r.out /\ f.pump = r.pump /\ f.retired = r.retired /\ f.pend = r.pend
      /\ f.reqKey = r.reqKey /\ f.ask = r.ask /\ f.bad = r.bad
  BY <1>5 DEF EntryFields
<1>7. EntryType(f)
  BY <1>3, <1>5, <1>6 DEF EntryType
<1>8. SameWork(e, f) /\ SameScope(e, f) /\ SameSeat(e, f)
  BY <1>3, <1>6, <1>7 DEF SameWork, SameScope, SameSeat, EntryType
<1>. QED  BY <1>3, <1>4, <1>5, <1>6, <1>7, <1>8

\* A change of the fields that place the terminal in its life.
LEMMA PlaceShape ==
    ASSUME NEW e, EntryType(e), NEW f, DOMAIN f = DOMAIN e,
           \A x \in EntryFields \ {"state", "rev", "pump", "aborted", "bad", "cont", "reqKey", "process", "holder", "hist"} : f[x] = e[x],
           f.state \in {"none", "active", "interrupted", "reconnecting", "detached", "failed"},
           f.rev \in Nat, f.pump \in Nat, f.aborted \in BOOLEAN, f.reqKey \in Nat
    PROVE  EntryType(f) /\ SameWork(e, f) /\ SameScope(e, f) /\ SameSeat(e, f)
<1>1. /\ f.fence = e.fence /\ f.mode = e.mode
      /\ f.epoch = e.epoch /\ f.notice = e.notice /\ f.wire = e.wire
      /\ f.inputSeq = e.inputSeq /\ f.acked = e.acked /\ f.view = e.view
      /\ f.out = e.out /\ f.retired = e.retired /\ f.pend = e.pend /\ f.ask = e.ask
  BY DEF EntryFields
<1>2. EntryType(f)
  BY <1>1 DEF EntryType
<1>. QED  BY <1>1, <1>2 DEF SameWork, SameScope, SameSeat, EntryType

LEMMA NoEntryType == EntryType(NoEntry) /\ NoEntry.state = "none" /\ NoEntry.epoch = 0 /\ NoEntry.pump = 0 /\ ~NoEntry.bad
BY NoPending, EmptySeq DEF EntryType, NoEntry, EntryFields

-----------------------------------------------------------------------------
(* What a step leaves of the stream *)

\* The frames of the kinds T on the stream were on it before, k places on.
Brings(T, k) == \A i \in DOMAIN down' : down'[i].t \in T => i + k \in DOMAIN down /\ down[i + k] = down'[i]
\* A frame stays on the stream with those of the kinds T before it, and on a
\* live connection they all stay.
Retains(T, k) ==
    /\ \A i \in DOMAIN down', j \in DOMAIN down : down[j].t \in T /\ j < i + k => j - k \in DOMAIN down' /\ down'[j - k] = down[j]
    /\ srv'.conn # 0 => \A j \in DOMAIN down : down[j].t \in T => j - k \in DOMAIN down' /\ down'[j - k] = down[j]
\* The same of what is on the way to the gateway.
UpBrings(T, h) == srv'.conn # 0 => \A i \in DOMAIN up' : up'[i].t \in T => i + h \in DOMAIN up /\ up[i + h] = up'[i]

LEMMA StreamSame ==
    ASSUME KeyTypes, down' = down, NEW T
    PROVE  Brings(T, 0) /\ Retains(T, 0)
<1>1. DOMAIN down = 1 .. Len(down) /\ Len(down) \in Nat
  BY DEF KeyTypes
<1>. QED  BY <1>1 DEF Brings, Retains

LEMMA FrameTaken ==
    ASSUME KeyTypes, down # <<>>, down' = Tail(down), NEW T
    PROVE  Brings(T, 1) /\ (Head(down).t \notin T => Retains(T, 1))
<1>1. /\ Head(down) = down[1] /\ DOMAIN Tail(down) = 1 .. (Len(down) - 1) /\ DOMAIN down = 1 .. Len(down) /\ Len(down) \in Nat
      /\ \A i \in DOMAIN Tail(down) : i \in Nat /\ i + 1 \in DOMAIN down /\ Tail(down)[i] = down[i + 1]
  BY TailIs DEF KeyTypes
<1>2. Brings(T, 1)
  BY <1>1 DEF Brings
<1>3. ASSUME Head(down).t \notin T, NEW j \in DOMAIN down, down[j].t \in T
      PROVE  j - 1 \in DOMAIN down' /\ down'[j - 1] = down[j]
  <2>1. j # 1 /\ j \in 1 .. Len(down)
    BY <1>1, <1>3
  <2>2. j - 1 \in DOMAIN down' /\ (j - 1) + 1 = j
    BY <1>1, <2>1
  <2>. QED  BY <1>1, <2>2
<1>. QED  BY <1>2, <1>3 DEF Retains

LEMMA FramesAdded ==
    ASSUME KeyTypes, NEW s \in Seq(Downstream), down' = down \o s, NEW T, \A i \in DOMAIN s : s[i].t \notin T
    PROVE  Brings(T, 0) /\ Retains(T, 0)
<1>1. /\ DOMAIN down = 1 .. Len(down) /\ Len(down) \in Nat /\ DOMAIN s = 1 .. Len(s) /\ Len(s) \in Nat
      /\ DOMAIN down' = 1 .. (Len(down) + Len(s))
      /\ \A i \in 1 .. (Len(down) + Len(s)) : down'[i] = IF i <= Len(down) THEN down[i] ELSE s[i - Len(down)]
  BY DEF KeyTypes
<1>2. Brings(T, 0)
  <2>1. ASSUME NEW i \in DOMAIN down', down'[i].t \in T
        PROVE  i \in DOMAIN down /\ down[i] = down'[i] /\ i + 0 = i
    <3>1. CASE i <= Len(down)
      BY <1>1, <3>1
    <3>2. CASE i > Len(down)
      <4>1. i - Len(down) \in DOMAIN s /\ down'[i] = s[i - Len(down)]
        BY <1>1, <3>2
      <4>. QED  BY <2>1, <4>1
    <3>. QED  BY <1>1, <3>1, <3>2
  <2>. QED  BY <2>1 DEF Brings
<1>3. \A j \in DOMAIN down : j - 0 = j /\ j \in DOMAIN down' /\ down'[j] = down[j]
  BY <1>1
<1>. QED  BY <1>2, <1>3 DEF Retains

LEMMA StreamCut ==
    ASSUME KeyTypes, NEW n \in 0 .. Len(down), down' = SubSeq(down, 1, n), srv'.conn = 0, NEW T
    PROVE  Brings(T, 0) /\ Retains(T, 0)
<1>1. /\ DOMAIN down = 1 .. Len(down) /\ Len(down) \in Nat
      /\ DOMAIN down' = 1 .. n /\ \A i \in 1 .. n : down'[i] = down[i]
  BY DEF KeyTypes
<1>2. ASSUME NEW i \in DOMAIN down', NEW j \in DOMAIN down, j < i + 0
      PROVE  j - 0 = j /\ j \in DOMAIN down' /\ down'[j] = down[j]
  BY <1>1, <1>2
<1>. QED  BY <1>1, <1>2 DEF Brings, Retains

\* The numbers of the frames and of the input.
LEMMA FrameNumbers ==
    ASSUME KeyTypes
    PROVE  /\ \A i \in DOMAIN down : i \in Nat /\ down[i] \in Downstream
           /\ \A i \in DOMAIN down : down[i].t \in {"output", "view_ready", "acknowledgement"} => down[i].n \in Nat
           /\ \A i \in DOMAIN down : down[i].t \in {"writer_epoch", "control_state"} => down[i].epoch \in Nat
           /\ \A i \in DOMAIN up : i \in Nat /\ (IsInput(i) => up[i].seq \in Nat /\ up[i].key \in Key)
<1>1. /\ down \in Seq(Downstream) /\ DOMAIN down = 1 .. Len(down) /\ Len(down) \in Nat
      /\ up \in Seq(Message) /\ DOMAIN up = 1 .. Len(up) /\ Len(up) \in Nat
  BY DEF KeyTypes
<1>2. \A i \in DOMAIN down : i \in Nat /\ down[i] \in Downstream
  BY <1>1
<1>3. \A i \in DOMAIN up : i \in Nat /\ up[i] \in Message
  BY <1>1
<1>4. ASSUME NEW f \in Downstream
      PROVE  /\ f.t \in {"output", "view_ready", "acknowledgement"} => f.n \in Nat
             /\ f.t \in {"writer_epoch", "control_state"} => f.epoch \in Nat
  BY DEF Downstream
<1>5. ASSUME NEW m \in Message, m.t = "input"
      PROVE  m.seq \in Nat /\ m.key \in Key
  BY <1>5 DEF Message, Input
<1>. QED  BY <1>2, <1>3, <1>4, <1>5 DEF IsInput

LEMMA Places ==
    ASSUME KeyTypes
    PROVE  (\A i \in DOMAIN down : i \in Nat) /\ (\A i \in DOMAIN up : i \in Nat)
BY DEF KeyTypes

LEMMA PlacesThen ==
    ASSUME KeyTypes'
    PROVE  (\A i \in DOMAIN down' : i \in Nat) /\ (\A i \in DOMAIN up' : i \in Nat)
BY DEF KeyTypes

StaysAttached == Attached' => Attached

LEMMA ReceiptKeeps ==
    ASSUME ReceiptInv, KeyTypes, KeyTypes', EntryType(entry), StaysAttached,
           SameScope(entry, entry'), NEW k \in {0, 1}, NEW h \in {0, 1}, Brings({"acknowledgement"}, k), UpBrings({"input"}, h),
           srv'.conn # 0 => srv.conn # 0
    PROVE  ReceiptInv'
<1>1. /\ entry.inputSeq \in Nat /\ entry.retired \in Nat /\ entry.acked \in Nat /\ entry.wire \in Nat /\ entry.pend \subseteq Nat
  BY DEF EntryType
<1>2. /\ entry'.inputSeq <= entry'.wire /\ entry'.acked <= entry'.wire /\ entry'.retired <= entry'.wire
      /\ \A p \in entry'.pend : p <= entry'.inputSeq
  BY <1>1 DEF ReceiptInv, SameScope
<1>. DEFINE DueThen(n) == n <= entry'.retired \/ (n \in entry'.pend /\ n > entry'.acked)
<1>3. ASSUME NEW n \in Nat, Due(n)
      PROVE  DueThen(n)
  <2>1. n \in entry.pend => n <= entry.inputSeq
    BY DEF ReceiptInv
  <2>. QED  BY <1>1, <1>3, <2>1 DEF Due, SameScope
<1>4. ASSUME Attached'
      PROVE  /\ \A i \in DOMAIN down' : IsReceipt(i)' => DueThen(down'[i].n)
             /\ \A i, j \in DOMAIN down' : i < j /\ IsReceipt(i)' /\ IsReceipt(j)' => down'[i].n < down'[j].n
             /\ srv'.conn # 0 =>
                   /\ \A i \in DOMAIN up' : IsInput(i)' => DueThen(up'[i].seq)
                   /\ \A i, j \in DOMAIN up' : i < j /\ IsInput(i)' /\ IsInput(j)' => up'[i].seq < up'[j].seq
                   /\ \A i \in DOMAIN down', j \in DOMAIN up' : IsReceipt(i)' /\ IsInput(j)' => down'[i].n < up'[j].seq
  <2>0. Attached
    BY <1>4 DEF StaysAttached
  <2>n. /\ \A i \in DOMAIN down : i \in Nat /\ (IsReceipt(i) => down[i].n \in Nat)
        /\ \A i \in DOMAIN up : i \in Nat /\ (IsInput(i) => up[i].seq \in Nat)
        /\ \A i \in DOMAIN down' : i \in Nat
        /\ \A i \in DOMAIN up' : i \in Nat
    BY FrameNumbers, PlacesThen DEF IsReceipt
  <2>1. \A i \in DOMAIN down' : i \in Nat /\ (IsReceipt(i)' => i + k \in DOMAIN down /\ IsReceipt(i + k) /\ down'[i] = down[i + k] /\ down'[i].n \in Nat)
    BY <2>n DEF Brings, IsReceipt
  <2>2. srv'.conn # 0 => \A i \in DOMAIN up' : i \in Nat /\ (IsInput(i)' => i + h \in DOMAIN up /\ up'[i] = up[i + h] /\ IsInput(i + h) /\ up'[i].seq \in Nat)
    BY <2>n DEF UpBrings, IsInput
  <2>3. \A i \in DOMAIN down' : IsReceipt(i)' => DueThen(down'[i].n)
    BY <1>3, <2>0, <2>1 DEF ReceiptInv
  <2>4. ASSUME NEW i \in DOMAIN down', NEW j \in DOMAIN down', i < j, IsReceipt(i)', IsReceipt(j)'
        PROVE  down'[i].n < down'[j].n
    <3>1. i + k < j + k
      BY <2>1, <2>4
    <3>. QED  BY <2>0, <2>1, <2>4, <3>1 DEF ReceiptInv
  <2>5. ASSUME srv'.conn # 0, NEW i \in DOMAIN up', IsInput(i)'
        PROVE  DueThen(up'[i].seq)
    BY <1>3, <2>0, <2>2, <2>5 DEF ReceiptInv
  <2>6. ASSUME srv'.conn # 0, NEW i \in DOMAIN up', NEW j \in DOMAIN up', i < j, IsInput(i)', IsInput(j)'
        PROVE  up'[i].seq < up'[j].seq
    <3>1. i + h < j + h
      BY <2>2, <2>6
    <3>. QED  BY <2>0, <2>2, <2>6, <3>1 DEF ReceiptInv
  <2>7. ASSUME srv'.conn # 0, NEW i \in DOMAIN down', NEW j \in DOMAIN up', IsReceipt(i)', IsInput(j)'
        PROVE  down'[i].n < up'[j].seq
    BY <2>0, <2>1, <2>2, <2>7 DEF ReceiptInv
  <2>. QED  BY <2>3, <2>4, <2>5, <2>6, <2>7
<1>. QED  BY <1>2, <1>4 DEF ReceiptInv, Due

ViewFrames == {"view_started", "output", "view_ready"}

\* Places on the stream move with their frames.
LEMMA PlacesMove ==
    ASSUME KeyTypes, KeyTypes', NEW k \in {0, 1}, NEW T, Brings(T, k), Retains(T, k)
    PROVE  /\ \A i \in DOMAIN down : i \in Nat
           /\ \A i \in DOMAIN down' : i \in Nat
           /\ \A i \in DOMAIN down' : down'[i].t \in T => i + k \in DOMAIN down /\ down'[i] = down[i + k]
           /\ \A i \in DOMAIN down', j \in DOMAIN down : down[j].t \in T /\ j < i + k =>
                 j - k \in DOMAIN down' /\ j - k < i /\ down'[j - k] = down[j]
           /\ \A i \in DOMAIN down', j \in DOMAIN down' : j < i => j + k < i + k
<1>1. (\A i \in DOMAIN down : i \in Nat) /\ \A i \in DOMAIN down' : i \in Nat
  BY Places, PlacesThen
<1>2. \A i \in Nat, j \in Nat : (j < i + k => j - k < i) /\ (j < i => j + k < i + k)
  OBVIOUS
<1>. QED  BY <1>1, <1>2 DEF Brings, Retains

LEMMA ViewKeeps ==
    ASSUME ViewInv, KeyTypes, KeyTypes', SameWork(entry, entry'), UNCHANGED writing,
           NEW k \in {0, 1}, Brings(ViewFrames, k), Retains(ViewFrames, k)
    PROVE  ViewInv'
<1>1. (Writing' <=> Writing) /\ Seen' = Seen /\ entry'.view = entry.view /\ entry'.out = entry.out
  BY DEF Writing, Seen, SameWork
<1>2. /\ \A i \in DOMAIN down' : i \in Nat
      /\ \A i \in DOMAIN down' : down'[i].t \in ViewFrames => i + k \in DOMAIN down /\ down'[i] = down[i + k]
      /\ \A i \in DOMAIN down', j \in DOMAIN down : down[j].t \in ViewFrames /\ j < i + k =>
            j - k \in DOMAIN down' /\ j - k < i /\ down'[j - k] = down[j]
      /\ \A i \in DOMAIN down', j \in DOMAIN down' : j < i => j + k < i + k
      /\ \A i \in DOMAIN down : i \in Nat
  BY PlacesMove
<1>3. "view_started" \in ViewFrames /\ "output" \in ViewFrames /\ "view_ready" \in ViewFrames
      /\ \A x : x \in ViewFrames <=> x \in {"view_started", "output", "view_ready"}
  BY DEF ViewFrames
<1>. HIDE DEF ViewFrames
<1>4. ASSUME NEW i \in DOMAIN down', down'[i].t = "view_started"
      PROVE  entry'.view = "none" /\ \A j \in DOMAIN down' : j < i => ~IsView(j)'
  BY <1>1, <1>2, <1>3, <1>4 DEF ViewInv, IsView
<1>5. ASSUME NEW i \in DOMAIN down', down'[i].t \in {"output", "view_ready"}, entry'.view = "none"
      PROVE  \E j \in DOMAIN down' : j < i /\ down'[j].t = "view_started"
  <2>1. PICK j \in DOMAIN down : j < i + k /\ down[j].t = "view_started"
    BY <1>1, <1>2, <1>3, <1>5 DEF ViewInv
  <2>. QED  BY <1>2, <1>3, <2>1
<1>6. ASSUME NEW i \in DOMAIN down', IsOutput(i)'
      PROVE  /\ down'[i].n > Seen
             /\ \A j \in DOMAIN down' : j < i /\ IsOutput(j)' => down'[j].n < down'[i].n
             /\ \A m \in Nat : Seen < m /\ m <= down'[i].n => \E j \in DOMAIN down' : j <= i /\ IsOutput(j)' /\ down'[j].n = m
  <2>1. i + k \in DOMAIN down /\ down'[i] = down[i + k] /\ IsOutput(i + k)
    BY <1>2, <1>3, <1>6 DEF IsOutput
  <2>2. \A j \in DOMAIN down' : j < i /\ IsOutput(j)' => down'[j].n < down'[i].n
    BY <1>2, <1>3, <2>1 DEF ViewInv, IsOutput
  <2>3. ASSUME NEW m \in Nat, Seen < m, m <= down'[i].n
        PROVE  \E j \in DOMAIN down' : j <= i /\ IsOutput(j)' /\ down'[j].n = m
    <3>1. PICK j \in DOMAIN down : j <= i + k /\ IsOutput(j) /\ down[j].n = m
      BY <2>1, <2>3 DEF ViewInv
    <3>2. CASE j = i + k
      BY <1>2, <1>6, <2>1, <3>1, <3>2 DEF IsOutput
    <3>3. CASE j < i + k
      <4>1. j - k \in DOMAIN down' /\ j - k < i /\ down'[j - k] = down[j]
        BY <1>2, <1>3, <3>1, <3>3 DEF IsOutput
      <4>. QED  BY <1>2, <3>1, <4>1 DEF IsOutput
    <3>. QED  BY <1>2, <3>1, <3>2, <3>3
  <2>. QED  BY <2>1, <2>2, <2>3 DEF ViewInv
<1>7. ASSUME NEW i \in DOMAIN down', down'[i].t = "view_ready"
      PROVE  /\ down'[i].n = 1 /\ entry'.view # "ready" /\ Seen <= 1
             /\ Seen = 1 \/ \E j \in DOMAIN down' : j < i /\ IsOutput(j)'
             /\ \A j \in DOMAIN down' : j < i => down'[j].t # "view_ready" /\ (IsOutput(j)' => down'[j].n = 1)
  <2>1. i + k \in DOMAIN down /\ down'[i] = down[i + k] /\ down[i + k].t = "view_ready"
    BY <1>2, <1>3, <1>7
  <2>2. ASSUME NEW j \in DOMAIN down, j < i + k, IsOutput(j)
        PROVE  \E x \in DOMAIN down' : x < i /\ IsOutput(x)'
    BY <1>2, <1>3, <2>2 DEF IsOutput
  <2>3. Seen = 1 \/ \E j \in DOMAIN down' : j < i /\ IsOutput(j)'
    BY <2>1, <2>2 DEF ViewInv
  <2>4. \A j \in DOMAIN down' : j < i => down'[j].t # "view_ready" /\ (IsOutput(j)' => down'[j].n = 1)
    BY <1>2, <1>3, <2>1 DEF ViewInv, IsOutput
  <2>. QED  BY <1>1, <2>1, <2>3, <2>4 DEF ViewInv
<1>8. (entry'.view = "none" => entry'.out = 0 /\ ~Writing') /\ (Writing' => writing'.n = entry'.out + 1)
  BY <1>1 DEF ViewInv
<1>. QED  BY <1>1, <1>4, <1>5, <1>6, <1>7, <1>8 DEF ViewInv

LEMMA GatewayKeeps ==
    ASSUME GatewayInv, KeyTypes, KeyTypes', SameWork(entry, entry'), UNCHANGED writing,
           NEW k \in {0, 1}, Brings(ViewFrames, k), Retains(ViewFrames, k), NEW h \in {0, 1}, UpBrings({"resume"}, h),
           srv'.conn # 0 => srv.conn # 0, srv'.viewN = srv.viewN
    PROVE  GatewayInv'
<1>1. (Writing' <=> Writing) /\ Seen' = Seen /\ entry'.view = entry.view
  BY DEF Writing, Seen, SameWork
<1>2. "view_started" \in ViewFrames /\ "output" \in ViewFrames /\ "view_ready" \in ViewFrames
      /\ \A x : x \in ViewFrames <=> x \in {"view_started", "output", "view_ready"}
  BY DEF ViewFrames
<1>. HIDE DEF ViewFrames
<1>. SUFFICES ASSUME srv'.conn # 0
              PROVE  /\ \A i, j \in DOMAIN up' : up'[i].t = "resume" /\ up'[j].t = "resume" => i = j
                     /\ IF srv.viewN = 0
                        THEN entry.view = "none" /\ \A i \in DOMAIN down' : ~IsView(i)'
                        ELSE /\ \A i \in DOMAIN up' : up'[i].t # "resume"
                             /\ entry.view = "none" => \E i \in DOMAIN down' : down'[i].t = "view_started"
                             /\ Seen <= srv.viewN
                             /\ \A i \in DOMAIN down' : IsOutput(i)' => down'[i].n <= srv.viewN
                             /\ \A m \in Nat : Seen < m /\ m <= srv.viewN => \E j \in DOMAIN down' : IsOutput(j)' /\ down'[j].n = m
  BY <1>1 DEF GatewayInv
<1>3. \A i \in DOMAIN up' : i \in Nat /\ (up'[i].t = "resume" => i + h \in DOMAIN up /\ up[i + h] = up'[i])
  BY PlacesThen DEF UpBrings
<1>4. ASSUME NEW i \in DOMAIN up', NEW j \in DOMAIN up', up'[i].t = "resume", up'[j].t = "resume"
      PROVE  i = j
  <2>1. i + h = j + h
    BY <1>3, <1>4 DEF GatewayInv
  <2>. QED  BY <1>3, <2>1
<1>5. /\ \A i \in DOMAIN down' : down'[i].t \in ViewFrames => i + k \in DOMAIN down /\ down'[i] = down[i + k]
      /\ \A j \in DOMAIN down : down[j].t \in ViewFrames => j - k \in DOMAIN down' /\ down'[j - k] = down[j]
  BY DEF Brings, Retains
<1>6. CASE srv.viewN = 0
  BY <1>2, <1>4, <1>5, <1>6 DEF GatewayInv, IsView
<1>7. CASE srv.viewN # 0
  <2>1. \A i \in DOMAIN up' : up'[i].t # "resume"
    BY <1>3, <1>7 DEF GatewayInv
  <2>2. entry.view = "none" => \E i \in DOMAIN down' : down'[i].t = "view_started"
    BY <1>2, <1>5, <1>7 DEF GatewayInv
  <2>3. \A i \in DOMAIN down' : IsOutput(i)' => down'[i].n <= srv.viewN
    BY <1>2, <1>5, <1>7 DEF GatewayInv, IsOutput
  <2>4. \A m \in Nat : Seen < m /\ m <= srv.viewN => \E j \in DOMAIN down' : IsOutput(j)' /\ down'[j].n = m
    BY <1>2, <1>5, <1>7 DEF GatewayInv, IsOutput
  <2>. QED  BY <1>4, <1>7, <2>1, <2>2, <2>3, <2>4 DEF GatewayInv
<1>. QED  BY <1>6, <1>7

LEMMA GeometryKeeps ==
    ASSUME GeometryInv, KeyTypes, KeyTypes', StaysAttached, entry.epoch \in Nat, entry'.epoch \in Nat, Attached' => entry'.epoch >= entry.epoch,
           proc'.ph = "commit" /\ ~Attached' => proc.ph = "commit" /\ ~Attached,
           NEW k \in {0, 1}, Brings({"control_state", "writer_epoch"}, k), Retains({"writer_epoch"}, k)
    PROVE  GeometryInv'
<1>. SUFFICES ASSUME Attached' \/ proc'.ph = "commit", NEW i \in DOMAIN down', down'[i].t = "control_state"
              PROVE  Announced(i)' \/ (Attached' /\ down'[i].epoch <= entry'.epoch)
  BY DEF GeometryInv
<1>1. i \in Nat /\ i + k \in DOMAIN down /\ down'[i] = down[i + k] /\ down[i + k].epoch \in Nat
  BY PlacesThen, FrameNumbers DEF Brings
<1>2. Announced(i + k) \/ (Attached /\ down[i + k].epoch <= entry.epoch)
  BY <1>1 DEF GeometryInv, StaysAttached
<1>3. CASE Announced(i + k)
  <2>1. PICK j \in DOMAIN down : j < i + k /\ down[j].t = "writer_epoch" /\ down[j].epoch = down[i + k].epoch
    BY <1>3 DEF Announced
  <2>2. j - k \in DOMAIN down' /\ down'[j - k] = down[j] /\ j \in Nat
    BY <2>1, FrameNumbers DEF Retains
  <2>3. j - k < i
    BY <1>1, <2>1, <2>2
  <2>. QED  BY <1>1, <2>1, <2>2, <2>3 DEF Announced
<1>4. CASE Attached /\ down[i + k].epoch <= entry.epoch
  BY <1>1, <1>4
<1>. QED  BY <1>2, <1>3, <1>4

-----------------------------------------------------------------------------
(* What the steps keep *)

AllFrames == {"view_started", "exit", "output", "view_ready", "acknowledgement", "writer_epoch", "control_state"}

LEMMA FrameKinds ==
    ASSUME KeyTypes
    PROVE  \A i \in DOMAIN down : down[i].t \in AllFrames
<1>1. \A i \in DOMAIN down : down[i] \in Downstream
  BY DEF KeyTypes
<1>. QED  BY <1>1 DEF Downstream, AllFrames

LEMMA FrameKindsThen ==
    ASSUME KeyTypes'
    PROVE  \A i \in DOMAIN down' : down'[i].t \in AllFrames
<1>1. \A i \in DOMAIN down' : down'[i] \in Downstream
  BY DEF KeyTypes
<1>. QED  BY <1>1 DEF Downstream, AllFrames

LEMMA FewerKinds ==
    ASSUME NEW T, NEW k, NEW S, S \subseteq T
    PROVE  (Brings(T, k) => Brings(S, k)) /\ (Retains(T, k) => Retains(S, k))
BY DEF Brings, Retains

LEMMA SeatKeeps ==
    ASSUME SeatInv, srv'.hist = srv.hist, srv'.committed = srv.committed,
           entry'.epoch <= SrvEpoch, proc'.epoch <= SrvEpoch,
           entry'.notice[1] # 0 => entry'.notice[1] \in 1 .. SrvEpoch /\ entry'.notice[2] = ModeAt(entry'.notice[1]),
           take'.answer = "committed" => take'.expected + 1 <= SrvEpoch,
           NEW k, Brings({"writer_epoch"}, k)
    PROVE  SeatInv'
<1>1. SrvEpoch' = SrvEpoch /\ \A e : ModeAt(e)' = ModeAt(e)
  BY DEF SrvEpoch, ModeAt
<1>2. ASSUME NEW i \in DOMAIN down', down'[i].t = "writer_epoch"
      PROVE  /\ down'[i].epoch \in 1 .. SrvEpoch /\ down'[i].mode = ModeAt(down'[i].epoch)
             /\ down'[i].mode = "writer" => down'[i].holder = Me
  BY <1>2 DEF Brings, SeatInv
<1>3. entry'.notice[1] # 0 => entry'.notice[1] \in 1 .. SrvEpoch' /\ entry'.notice[2] = ModeAt(entry'.notice[1])
  BY <1>1
<1>4. ModeAt(entry.notice[1])' = ModeAt(entry'.notice[1])
  BY DEF ModeAt
<1>5. \A i \in DOMAIN down' : ModeAt(down[i].epoch)' = ModeAt(down'[i].epoch)
  BY DEF ModeAt
<1>. QED  BY <1>1, <1>2, <1>3, <1>4, <1>5 DEF SeatInv

LEMMA FreshKeeps ==
    ASSUME FreshInv, KeyTypes', srv'.viewN = srv.viewN, srv'.hist = srv.hist, NEW k, Brings(AllFrames, k),
           proc'.ph = "commit" => proc.ph = "commit" /\ proc'.mode = proc.mode /\ proc'.epoch = proc.epoch /\ up' = <<>>
    PROVE  FreshInv'
<1>1. SrvEpoch' = SrvEpoch
  BY DEF SrvEpoch
<1>2. \A i \in DOMAIN down' : i + k \in DOMAIN down /\ down[i + k] = down'[i]
  BY FrameKindsThen DEF Brings
<1>. QED  BY <1>1, <1>2 DEF FreshInv

\* What the person sees.
ViewPart == (Attached => ViewInv /\ GatewayInv) /\ OutputsBounded /\ ScreenInv

\* The connection carries what it carried, without a new view.
CoreStep(k, h) ==
    /\ StaysAttached /\ SameWork(entry, entry') /\ UNCHANGED <<writing, screen>>
    /\ Brings(ViewFrames, k) /\ UpBrings({"resume"}, h)
    /\ Attached' => Retains(ViewFrames, k)
    /\ srv'.conn # 0 => srv.conn # 0
    /\ srv'.viewN = srv.viewN
    /\ entry'.state = "active" => entry.state = "active" /\ (entry'.pump \in {entry.pump, 0} \/ writing = NoWrite)

LEMMA CoreKeeps ==
    ASSUME StreamInv, KeyTypes, KeyTypes', NEW k \in {0, 1}, NEW h \in {0, 1}, CoreStep(k, h)
    PROVE  ViewPart'
<1>1. ASSUME Attached'
      PROVE  ViewInv' /\ GatewayInv'
  <2>1. ViewInv /\ GatewayInv
    BY <1>1 DEF CoreStep, StaysAttached, StreamInv
  <2>. QED  BY <1>1, <2>1, ViewKeeps, GatewayKeeps DEF CoreStep
<1>2. OutputsBounded'
  <2>1. \A i \in DOMAIN down' : IsOutput(i)' => i + k \in DOMAIN down /\ IsOutput(i + k) /\ down'[i] = down[i + k]
    BY DEF CoreStep, Brings, IsOutput, ViewFrames
  <2>. QED  BY <2>1 DEF StreamInv, OutputsBounded
<1>3. ScreenInv'
  BY DEF CoreStep, SameWork, StreamInv, ScreenInv, ScreenIsAView
<1>. QED  BY <1>1, <1>2, <1>3 DEF ViewPart

\* The server is what it was, with its connection or without it.
SrvQuiet ==
    /\ SrvType(srv') /\ srv'.conn \in {srv.conn, 0} /\ srv'.fence = srv.fence /\ srv'.viewN = srv.viewN
    /\ srv'.hist = srv.hist /\ srv'.committed = srv.committed

\* What it has issued is redeemed by nobody new.
SrvOwned == srv'.issued = srv.issued /\ srv'.redeemed = srv.redeemed /\ srv.cancelled \subseteq srv'.cancelled

\* The procedure is what it was, or is told to stop.
ProcQuiet ==
    /\ ProcType(proc') /\ proc'.kind = proc.kind /\ proc'.ph = proc.ph /\ proc'.key = proc.key /\ proc'.fence = proc.fence
    /\ proc'.mode = proc.mode /\ proc'.epoch = proc.epoch

LEMMA PumpKeeps ==
    ASSUME StreamInv, StaysAttached, SameWork(entry, entry'), SameScope(entry, entry') \/ proc'.ph # "callback", EntryType(entry'),
           entry'.rev \in {entry.rev, entry.rev + 1}, entry'.pump \in {entry.pump, 0},
           entry'.state # "none" => entry.state # "none",
           entry'.state = "active" => entry.state = "active" /\ ~entry'.aborted,
           proc'.kind # "none" => proc.kind # "none",
           proc'.ph = "callback" => proc.ph = "callback" /\ entry'.state \notin {"interrupted", "reconnecting"},
           proc'.ph = "commit" => proc.ph = "commit" /\ proc'.fence = proc.fence,
           writing' \in {writing, NoWrite}, srv'.fence = srv.fence, srv'.conn \in {srv.conn, 0}
    PROVE  PumpInv'
<1>1. /\ entry.pump \in Nat /\ entry.rev \in Nat /\ entry.pump <= entry.rev /\ writing.fence \in Nat /\ writing.fence <= srv.fence
      /\ srv.fence \in Nat /\ proc.fence \in Nat
  BY DEF StreamInv, EntryType, PumpInv, RestType, SrvType, ProcType
<1>2. entry'.pump <= entry'.rev /\ (entry'.state # "none" => entry'.rev # 0)
  BY <1>1 DEF StreamInv, PumpInv
<1>3. proc'.kind # "none" => entry'.pump = 0 \/ entry'.pump < entry'.rev
  BY <1>1 DEF StreamInv, PumpInv
<1>4. NoWrite.fence = 0
  BY DEF NoWrite
<1>5. writing'.fence <= srv'.fence /\ (proc'.ph = "commit" => writing'.fence < proc'.fence)
  BY <1>1, <1>4 DEF StreamInv, PumpInv
<1>6. Attached' => srv'.conn \in {0, entry'.fence}
  BY DEF StreamInv, PumpInv, StaysAttached, SameWork
<1>7. proc'.ph = "callback" /\ entry'.state = "active" => entry'.view = "none" /\ entry'.pend = {}
  BY DEF StreamInv, PumpInv, SameWork, SameScope
<1>. QED  BY <1>2, <1>3, <1>5, <1>6, <1>7 DEF PumpInv

LEMMA LeakKeeps ==
    ASSUME LeakInv, EntryInv, UNCHANGED reqs, life' \in {life, "closing"}, open' \subseteq open,
           srv'.issued = srv.issued, srv'.redeemed = srv.redeemed, srv.cancelled \subseteq srv'.cancelled,
           proc'.kind = proc.kind, proc'.ph = proc.ph, proc'.key = proc.key, proc'.fence = proc.fence,
           entry'.fence = entry.fence \/ (entry' = NoEntry /\ entry.fence \notin open'),
           entry'.state = "detached" => entry.state = "detached" \/ entry.fence \notin open',
           entry.state = "none" => entry'.state = "none"
    PROVE  LeakInv'
<1>1. NoEntry.fence = 0 /\ 0 \notin open /\ NoEntry.state = "none"
  BY DEF NoEntry, LeakInv
<1>2. open' \subseteq {entry'.fence, proc'.fence}
  BY <1>1 DEF LeakInv, NothingLeaks
<1>3. proc'.ph \in {"grant", "ready", "commit"} => entry'.fence \notin open'
  BY <1>1 DEF LeakInv
<1>4. proc'.ph = "callback" => proc'.fence = entry'.fence \/ proc'.fence \notin open'
  BY <1>1 DEF LeakInv
<1>5. life' = "stopped" => proc'.kind = "none" /\ entry'.state = "none" /\ reqs' = {}
  BY DEF LeakInv
<1>6. NothingLeaks'
  BY <1>2 DEF LeakInv, NothingLeaks
<1>7. entry'.state = "detached" => entry'.fence \notin open'
  BY <1>1 DEF LeakInv
<1>. QED  BY <1>1, <1>3, <1>4, <1>5, <1>6, <1>7 DEF LeakInv

\* No connection is adopted while the old one is still read.
LEMMA NotAttachedYet ==
    ASSUME RuntimeInv, StreamInv
    PROVE  proc.ph = "commit" => ~Attached
<1>1. proc.ph = "commit" => proc.kind # "none" /\ entry.state # "active"
  BY DEF RuntimeInv, ProcInv, Before
<1>2. proc.kind # "none" => entry.pump = 0 \/ entry.pump < entry.rev
  BY DEF StreamInv, PumpInv
<1>3. entry.pump \in Nat /\ entry.rev \in Nat
  BY DEF StreamInv, EntryType
<1>. QED  BY <1>1, <1>2, <1>3 DEF Attached

\* A step that does not move the seat, from what it does to the rest.
LEMMA Assembled ==
    ASSUME RuntimeInv, RuntimeInv', StreamInv, LeakInv', PumpInv', ReceiptInv', ViewPart', EntryType(entry'), ProcType(proc'), RestType', ~entry'.bad,
           SameSeat(entry, entry') \/ (entry'.notice = entry.notice /\ entry'.epoch >= entry.epoch /\ entry'.epoch <= SrvEpoch),
           StaysAttached, srv'.viewN = srv.viewN \/ proc'.ph # "commit", srv'.hist = srv.hist, srv'.committed = srv.committed,
           proc'.epoch \in {proc.epoch, 0},
           take' = take \/ take'.answer = "none" \/ (take'.answer = "committed" => take'.expected + 1 <= SrvEpoch),
           NEW k \in {0, 1}, Brings({"control_state", "writer_epoch"}, k), Retains({"writer_epoch"}, k),
           proc'.ph = "commit" => proc.ph = "commit" /\ proc'.mode = proc.mode /\ proc'.epoch = proc.epoch /\ up' = <<>> /\ Brings(AllFrames, k)
    PROVE  StreamInv'
<1>1. KeyTypes /\ KeyTypes' /\ {"writer_epoch"} \subseteq {"control_state", "writer_epoch"}
  BY DEF RuntimeInv, KeyInv
<1>2. FreshInv'
  <2>1. CASE proc'.ph = "commit"
    BY <1>1, <2>1, FreshKeeps DEF StreamInv
  <2>2. CASE proc'.ph # "commit"
    BY <2>2 DEF FreshInv
  <2>. QED  BY <2>1, <2>2
<1>3. SeatInv'
  <2>1. SeatInv /\ entry'.epoch <= SrvEpoch /\ entry'.notice = entry.notice /\ SrvEpoch \in Nat
    BY DEF StreamInv, SameSeat, SeatInv
  <2>2. Brings({"writer_epoch"}, k)
    BY <1>1, FewerKinds
  <2>3. entry'.epoch <= SrvEpoch /\ proc'.epoch <= SrvEpoch
        /\ (entry'.notice[1] # 0 => entry'.notice[1] \in 1 .. SrvEpoch /\ entry'.notice[2] = ModeAt(entry'.notice[1]))
        /\ (take'.answer = "committed" => take'.expected + 1 <= SrvEpoch)
    BY <2>1 DEF SeatInv
  <2>. QED  BY <2>1, <2>2, <2>3, SeatKeeps
<1>4. GeometryInv'
  <2>1. entry.epoch \in Nat /\ entry'.epoch \in Nat /\ entry'.epoch >= entry.epoch
    BY DEF StreamInv, EntryType, SameSeat
  <2>2. proc.ph = "commit" => ~Attached
    BY NotAttachedYet
  <2>. QED  BY <1>1, <2>1, <2>2, GeometryKeeps DEF StreamInv
<1>. QED  BY <1>2, <1>3, <1>4 DEF StreamInv, HonestStreamAccepted, ViewPart

\* Everything of a step that neither adopts a connection, nor starts a view,
\* nor moves the seat, nor certifies input.
LEMMA QuietStream ==
    ASSUME RuntimeInv, RuntimeInv', StreamInv, LeakInv', PumpInv', SrvQuiet, EntryType(entry'), ~entry'.bad, SameSeat(entry, entry'),
           ProcType(proc'), proc'.epoch \in {proc.epoch, 0}, TakeType(take'), take' = take \/ take'.answer = "none",
           life' \in {"open", "closing", "stopped", "failed"},
           proc'.ph = "commit" => proc.ph = "commit" /\ proc'.mode = proc.mode /\ proc'.epoch = proc.epoch /\ up' = <<>>,
           NEW k \in {0, 1}, NEW h \in {0, 1}, CoreStep(k, h), UpBrings({"input"}, h), SameScope(entry, entry'), Brings(AllFrames, k), Retains({"writer_epoch"}, k)
    PROVE  StreamInv'
<1>1. KeyTypes /\ KeyTypes' /\ {"control_state", "writer_epoch"} \subseteq AllFrames /\ {"acknowledgement"} \subseteq AllFrames
  BY DEF RuntimeInv, KeyInv, AllFrames
<1>2. ViewPart'
  BY <1>1, CoreKeeps
<1>3. ReceiptInv'
  <2>1. Brings({"acknowledgement"}, k)
    BY <1>1, FewerKinds
  <2>. QED  BY <1>1, <2>1, ReceiptKeeps DEF CoreStep, StreamInv
<1>4. Brings({"control_state", "writer_epoch"}, k)
  BY <1>1, FewerKinds
<1>5. RestType'
  BY DEF StreamInv, RestType, SrvQuiet, CoreStep
<1>. QED  BY <1>2, <1>3, <1>4, <1>5, Assembled DEF SrvQuiet, CoreStep

LEMMA UpSame ==
    ASSUME KeyTypes, up' = up \/ srv'.conn = 0
    PROVE  \A T : UpBrings(T, 0)
<1>1. \A i \in DOMAIN up : i + 0 = i
  BY Places
<1>. QED  BY <1>1 DEF UpBrings

\* A step that leaves the stream alone.
LEMMA StreamAlone ==
    ASSUME RuntimeInv, RuntimeInv', StreamInv, LeakInv', PumpInv', SrvQuiet, EntryType(entry'), ~entry'.bad, SameSeat(entry, entry'),
           ProcType(proc'), proc'.epoch \in {proc.epoch, 0}, TakeType(take'), take' = take \/ take'.answer = "none",
           life' \in {"open", "closing", "stopped", "failed"},
           proc'.ph = "commit" => proc.ph = "commit" /\ proc'.mode = proc.mode /\ proc'.epoch = proc.epoch,
           StaysAttached, SameWork(entry, entry'), SameScope(entry, entry'), UNCHANGED <<writing, screen, up, down>>,
           entry'.state = "active" => entry.state = "active" /\ (entry'.pump \in {entry.pump, 0} \/ writing = NoWrite)
    PROVE  StreamInv'
<1>1. KeyTypes
  BY DEF RuntimeInv, KeyInv
<1>2. \A T : Brings(T, 0) /\ Retains(T, 0)
  BY <1>1, StreamSame
<1>3. \A T : UpBrings(T, 0)
  BY <1>1, UpSame
<1>4. srv'.conn # 0 => srv.conn # 0
  BY DEF SrvQuiet
<1>5. CoreStep(0, 0)
  BY <1>2, <1>3, <1>4 DEF CoreStep, SrvQuiet
<1>6. proc'.ph = "commit" => proc.ph = "commit" /\ proc'.mode = proc.mode /\ proc'.epoch = proc.epoch /\ up' = <<>>
  BY DEF StreamInv, FreshInv
<1>. QED  BY <1>2, <1>3, <1>5, <1>6, QuietStream

LEMMA EntrySame ==
    ASSUME EntryType(entry), UNCHANGED entry
    PROVE  /\ EntryType(entry') /\ SameWork(entry, entry') /\ SameScope(entry, entry') /\ SameSeat(entry, entry')
           /\ entry'.bad = entry.bad
BY DEF EntryType, SameWork, SameScope, SameSeat

LEMMA SrvSame ==
    ASSUME SrvType(srv), UNCHANGED srv
    PROVE  SrvQuiet /\ SrvOwned
BY DEF SrvType, SrvQuiet, SrvOwned

\* The client closes connections.
LEMMA SrvCloses ==
    ASSUME SrvType(srv), NEW F, Close(F)
    PROVE  SrvQuiet /\ SrvOwned /\ open' = open \ F /\ (srv'.conn \in F => srv'.conn = 0)
<1>1. /\ DOMAIN srv' = DOMAIN srv /\ \A x \in SrvFields \ {"conn"} : srv'[x] = srv[x]
      /\ srv'.conn = IF srv.conn \in F THEN 0 ELSE srv.conn
  BY DEF Close, SrvType, SrvFields
<1>2. /\ srv'.fence = srv.fence /\ srv'.process = srv.process /\ srv'.used = srv.used /\ srv'.hist = srv.hist
      /\ srv'.viewN = srv.viewN /\ srv'.issued = srv.issued /\ srv'.redeemed = srv.redeemed
      /\ srv'.cancelled = srv.cancelled /\ srv'.committed = srv.committed
  BY <1>1 DEF SrvFields
<1>. QED  BY <1>1, <1>2 DEF SrvQuiet, SrvOwned, SrvType, Close

\* Requests are cancelled.
LEMMA SrvCancels ==
    ASSUME SrvType(srv), NEW done, srv' = [srv EXCEPT !.cancelled = @ \cup (done \ srv.redeemed)]
    PROVE  SrvQuiet /\ SrvOwned /\ srv'.cancelled = srv.cancelled \cup (done \ srv.redeemed) /\ srv'.conn = srv.conn
<1>1. /\ DOMAIN srv' = DOMAIN srv /\ \A x \in SrvFields \ {"cancelled"} : srv'[x] = srv[x]
      /\ srv'.cancelled = srv.cancelled \cup (done \ srv.redeemed)
  BY DEF SrvType, SrvFields
<1>2. /\ srv'.fence = srv.fence /\ srv'.process = srv.process /\ srv'.used = srv.used /\ srv'.hist = srv.hist
      /\ srv'.viewN = srv.viewN /\ srv'.issued = srv.issued /\ srv'.redeemed = srv.redeemed
      /\ srv'.conn = srv.conn /\ srv'.committed = srv.committed
  BY <1>1 DEF SrvFields
<1>. QED  BY <1>1, <1>2 DEF SrvQuiet, SrvOwned, SrvType

\* The entry stays, and the stream with it.
LEMMA EntryStaysOn ==
    ASSUME RuntimeInv, RuntimeInv', StreamInv, LeakInv', PumpInv', SrvQuiet, UNCHANGED <<entry, writing, screen, up, down>>,
           ProcType(proc'), proc'.epoch \in {proc.epoch, 0}, TakeType(take'), take' = take \/ take'.answer = "none",
           life' \in {"open", "closing", "stopped", "failed"},
           proc'.ph = "commit" => proc.ph = "commit" /\ proc'.mode = proc.mode /\ proc'.epoch = proc.epoch
    PROVE  StreamInv'
<1>1. /\ EntryType(entry') /\ SameWork(entry, entry') /\ SameScope(entry, entry') /\ SameSeat(entry, entry') /\ ~entry'.bad
  BY EntrySame DEF StreamInv, HonestStreamAccepted
<1>2. StaysAttached /\ (entry'.state = "active" => entry.state = "active" /\ entry'.pump = entry.pump)
  BY DEF StaysAttached, Attached
<1>. QED  BY <1>1, <1>2, StreamAlone

LEMMA AttachStartStream == ASSUME RuntimeInv, RuntimeInv', StreamInv, AttachStart PROVE StreamInv'
<1>1. /\ proc' = [Idle EXCEPT !.kind = "attach", !.ph = "cancel"] /\ proc.kind = "none" /\ entry.state = "none" /\ life = "open"
      /\ UNCHANGED <<entry, life, reqs, open, writing, screen, up, down, take, srv>>
  BY DEF AttachStart
<1>2. /\ ProcType(proc') /\ proc'.kind = "attach" /\ proc'.ph = "cancel" /\ proc'.fence = 0 /\ proc'.epoch = 0
  BY <1>1 DEF Idle, ProcType, ProcFields
<1>3. SrvQuiet /\ SrvOwned
  BY <1>1, SrvSame DEF StreamInv, RestType
<1>4. entry.pump = 0 /\ proc.fence = 0
  BY <1>1 DEF RuntimeInv, EntryInv, ProcInv, StreamInv, PumpInv, LeakInv, EntryType
<1>5. LeakInv'
  BY <1>1, <1>2, <1>4 DEF StreamInv, LeakInv, NothingLeaks
<1>6. PumpInv'
  BY <1>1, <1>2, <1>4 DEF StreamInv, PumpInv, Attached
<1>. QED  BY <1>1, <1>2, <1>3, <1>5, <1>6, EntryStaysOn DEF StreamInv, RestType

LEMMA ShutdownDoneStream == ASSUME RuntimeInv, RuntimeInv', StreamInv, ShutdownDone PROVE StreamInv'
<1>1. PICK done \in SUBSET reqs :
          /\ srv' = [srv EXCEPT !.cancelled = @ \cup (done \ srv.redeemed)] /\ reqs' = reqs \ done
          /\ life' = IF proc.kind = "none" /\ done = reqs /\ entry.state = "none" THEN "stopped" ELSE "failed"
          /\ UNCHANGED <<entry, proc, open, writing, screen, up, down, take>>
  BY DEF ShutdownDone
<1>2. SrvQuiet /\ SrvOwned /\ srv'.cancelled = srv.cancelled \cup (done \ srv.redeemed) /\ srv'.conn = srv.conn
  BY <1>1, SrvCancels DEF StreamInv, RestType
<1>3. life' = "stopped" => proc.kind = "none" /\ entry.state = "none" /\ reqs' = {} /\ open' = {}
  <2>1. ASSUME proc.kind = "none", entry.state = "none"
        PROVE  open = {}
    <3>1. proc.fence = 0 /\ entry.fence = 0
      BY <2>1 DEF RuntimeInv, ProcInv, EntryInv, StreamInv, LeakInv
    <3>. QED  BY <3>1 DEF StreamInv, LeakInv, NothingLeaks
  <2>. QED  BY <1>1, <2>1
<1>4. srv'.issued \subseteq srv'.redeemed \cup srv'.cancelled \cup reqs'
  BY <1>1, <1>2 DEF StreamInv, LeakInv, NothingLeaks, SrvOwned
<1>5. LeakInv'
  BY <1>1, <1>2, <1>3, <1>4 DEF StreamInv, LeakInv, NothingLeaks, SrvOwned
<1>6. PumpInv'
  BY <1>1, <1>2 DEF StreamInv, PumpInv, SrvQuiet, Attached
<1>. QED  BY <1>1, <1>2, <1>5, <1>6, EntryStaysOn DEF StreamInv, RestType

LEMMA KeyStream ==
    ASSUME RuntimeInv, RuntimeInv', StreamInv, (\E k \in Key : TypeKey(k) \/ SendInput(k)) \/ UNCHANGED vars
    PROVE  StreamInv'
<1>1. UNCHANGED <<entry, proc, life, reqs, open, writing, screen, up, down, take, srv>>
  BY DEF TypeKey, SendInput, vars
<1>2. SrvQuiet /\ SrvOwned
  BY <1>1, SrvSame DEF StreamInv, RestType
<1>3. LeakInv' /\ PumpInv'
  BY <1>1 DEF StreamInv, LeakInv, PumpInv, NothingLeaks, Attached
<1>. QED  BY <1>1, <1>2, <1>3, EntryStaysOn DEF StreamInv, RestType

\* The terminal is where it was, with another key for its request.
EntryPlaced(X) ==
    /\ DOMAIN entry' = DOMAIN entry /\ \A x \in EntryFields \ X : entry'[x] = entry[x]

LEMMA Placed ==
    ASSUME StreamInv, EntryPlaced({"reqKey", "process", "pump", "state"}), entry'.reqKey \in Nat,
           entry'.state \in {"none", "active", "interrupted", "reconnecting", "detached", "failed"}, entry'.pump \in Nat
    PROVE  /\ EntryType(entry') /\ SameWork(entry, entry') /\ SameScope(entry, entry') /\ SameSeat(entry, entry')
           /\ entry'.rev = entry.rev /\ entry'.aborted = entry.aborted /\ ~entry'.bad /\ entry'.fence = entry.fence
<1>1. entry'.rev = entry.rev /\ entry'.aborted = entry.aborted /\ entry'.bad = entry.bad /\ entry'.fence = entry.fence
  BY DEF EntryPlaced, EntryFields
<1>2. EntryType(entry) /\ entry.rev \in Nat /\ entry.aborted \in BOOLEAN
  BY DEF StreamInv, EntryType
<1>3. \A x \in EntryFields \ {"state", "rev", "pump", "aborted", "bad", "cont", "reqKey", "process", "holder", "hist"} : entry'[x] = entry[x]
  BY DEF EntryPlaced
<1>4. EntryType(entry') /\ SameWork(entry, entry') /\ SameScope(entry, entry') /\ SameSeat(entry, entry')
  BY <1>1, <1>2, <1>3, PlaceShape DEF EntryPlaced
<1>. QED  BY <1>1, <1>4 DEF StreamInv, HonestStreamAccepted

\* What an unfinished procedure does beside.
LEMMA ProcStream ==
    ASSUME RuntimeInv, RuntimeInv', StreamInv, LeakInv', SrvQuiet, UNCHANGED <<writing, screen, up, down, take, life>>,
           EntryPlaced({"reqKey", "process", "pump", "state"}), entry'.reqKey \in Nat, entry'.pump = entry.pump,
           entry'.state = entry.state \/ (entry.state # "none" /\ entry'.state \in {"failed", "interrupted"} /\ proc'.ph # "callback"),
           ProcType(proc'), proc'.epoch \in {proc.epoch, 0}, proc.kind # "none", proc'.ph # "commit",
           proc'.ph = "callback" => proc.ph = "callback"
    PROVE  StreamInv'
<1>1. entry.pump \in Nat /\ entry.state \in {"none", "active", "interrupted", "reconnecting", "detached", "failed"}
      /\ (entry.state = "active" => ~entry.aborted) /\ entry.rev \in Nat
      /\ (entry.pump = 0 \/ entry.pump < entry.rev)
  BY DEF StreamInv, EntryType, PumpInv, RuntimeInv, ProcInv, EntryInv, ProcType
<1>2. /\ EntryType(entry') /\ SameWork(entry, entry') /\ SameScope(entry, entry') /\ SameSeat(entry, entry')
      /\ entry'.rev = entry.rev /\ entry'.aborted = entry.aborted /\ ~entry'.bad /\ entry'.fence = entry.fence
  BY <1>1, Placed
<1>3. StaysAttached
  BY <1>1, <1>2 DEF StaysAttached, Attached
<1>4. entry'.state = "active" => entry.state = "active" /\ ~entry'.aborted
  BY <1>1, <1>2
<1>5. PumpInv'
  <2>1. entry'.state # "none" => entry.state # "none"
    BY <1>1
  <2>2. proc'.ph = "callback" => proc.ph = "callback" /\ entry'.state \notin {"interrupted", "reconnecting"}
    BY DEF StreamInv, PumpInv
  <2>. QED  BY <1>2, <1>3, <1>4, <2>1, <2>2, PumpKeeps DEF SrvQuiet
<1>. QED  BY <1>1, <1>2, <1>3, <1>4, <1>5, StreamAlone DEF StreamInv, RestType

LEMMA ProcCancelStream == ASSUME RuntimeInv, RuntimeInv', StreamInv, ProcCancel PROVE StreamInv'
<1>1. PICK done \in SUBSET reqs :
          /\ Cancel(done) /\ proc.ph = "cancel"
          /\ proc' = [proc EXCEPT !.ph = IF done = reqs /\ ~proc.abort THEN "admit" ELSE "catch"]
          /\ UNCHANGED <<life, open, writing, screen, up, down, take>>
  BY DEF ProcCancel
<1>2. ProcType(proc) /\ ProcFields \subseteq DOMAIN proc /\ EntryFields \subseteq DOMAIN entry /\ entry.reqKey \in Nat
      /\ proc.kind # "none" /\ proc.fence = 0
  BY <1>1 DEF StreamInv, ProcType, EntryType, RuntimeInv, ProcInv, LeakInv
<1>3. /\ ProcType(proc') /\ proc'.ph \in {"admit", "catch"} /\ (proc'.ph = "admit" => done = reqs)
      /\ proc'.kind = proc.kind /\ proc'.fence = proc.fence /\ proc'.epoch = proc.epoch
  BY <1>1, <1>2 DEF ProcType, ProcFields
<1>4. SrvQuiet /\ SrvOwned /\ srv'.cancelled = srv.cancelled \cup (done \ srv.redeemed) /\ reqs' = reqs \ done
  BY <1>1, SrvCancels DEF Cancel, StreamInv, RestType
<1>5. entry' = [entry EXCEPT !.reqKey = IF @ \in done THEN 0 ELSE @]
  BY <1>1 DEF Cancel
<1>6. EntryPlaced({"reqKey", "process", "pump", "state"}) /\ entry'.reqKey \in Nat /\ entry'.state = entry.state
      /\ entry'.fence = entry.fence /\ entry'.pump = entry.pump
  BY <1>2, <1>5 DEF EntryPlaced, EntryFields
<1>7. srv'.issued \subseteq srv'.redeemed \cup srv'.cancelled \cup reqs'
  BY <1>4 DEF StreamInv, LeakInv, NothingLeaks, SrvOwned
<1>8. LeakInv'
  BY <1>1, <1>2, <1>3, <1>4, <1>6, <1>7 DEF StreamInv, LeakInv, NothingLeaks, SrvOwned
<1>. QED  BY <1>1, <1>2, <1>3, <1>4, <1>6, <1>8, ProcStream

LEMMA UnresumablePlaced ==
    ASSUME StreamInv, entry' = Unresumable, ~Superseded
    PROVE  /\ EntryPlaced({"reqKey", "process", "pump", "state"}) /\ entry'.reqKey \in Nat /\ entry'.pump = entry.pump /\ entry'.fence = entry.fence
           /\ entry'.state = entry.state \/ (entry.state # "none" /\ entry'.state = "failed")
<1>1. EntryFields \subseteq DOMAIN entry /\ entry.reqKey \in Nat
  BY DEF StreamInv, EntryType
<1>. QED  BY <1>1 DEF Unresumable, EntryPlaced, EntryFields, Superseded

LEMMA ProcAdmitStream == ASSUME RuntimeInv, RuntimeInv', StreamInv, ProcAdmit PROVE StreamInv'
<1>1. ProcType(proc) /\ ProcFields \subseteq DOMAIN proc /\ EntryFields \subseteq DOMAIN entry /\ entry.reqKey \in Nat
      /\ proc.kind # "none" /\ proc.fence = 0 /\ proc.ph = "admit" /\ reqs = {}
      /\ UNCHANGED <<life, reqs, writing, screen, up, down, take>>
  BY DEF ProcAdmit, StreamInv, ProcType, EntryType, RuntimeInv, ProcInv, LeakInv
<1>2. ASSUME proc' = [proc EXCEPT !.ph = "catch"], UNCHANGED <<open, srv>>, entry' = entry \/ (entry' = Unresumable /\ ~Superseded)
      PROVE  StreamInv'
  <2>1. /\ EntryPlaced({"reqKey", "process", "pump", "state"}) /\ entry'.reqKey \in Nat /\ entry'.pump = entry.pump /\ entry'.fence = entry.fence
        /\ entry'.state = entry.state \/ (entry.state # "none" /\ entry'.state = "failed")
    BY <1>1, <1>2, UnresumablePlaced DEF EntryPlaced
  <2>2. /\ ProcType(proc') /\ proc'.ph = "catch" /\ proc'.kind = proc.kind /\ proc'.fence = proc.fence /\ proc'.epoch = proc.epoch
    BY <1>1, <1>2 DEF ProcType, ProcFields
  <2>3. SrvQuiet /\ SrvOwned
    BY <1>2, SrvSame DEF StreamInv, RestType
  <2>4. LeakInv'
    BY <1>1, <1>2, <2>1, <2>2 DEF StreamInv, LeakInv, NothingLeaks
  <2>. QED  BY <1>1, <2>1, <2>2, <2>3, <2>4, ProcStream
<1>3. ASSUME Close({entry.fence}), NEW s, proc' = [proc EXCEPT !.ph = "grant", !.seat = s],
             entry' = [entry EXCEPT !.process = IF proc.kind = "attach" THEN srv.process ELSE @]
      PROVE  StreamInv'
  <2>1. EntryPlaced({"reqKey", "process", "pump", "state"}) /\ entry'.reqKey \in Nat /\ entry'.pump = entry.pump
        /\ entry'.state = entry.state /\ entry'.fence = entry.fence
    BY <1>1, <1>3 DEF EntryPlaced, EntryFields
  <2>2. /\ ProcType(proc') /\ proc'.ph = "grant" /\ proc'.kind = proc.kind /\ proc'.fence = proc.fence /\ proc'.epoch = proc.epoch
    BY <1>1, <1>3 DEF ProcType, ProcFields
  <2>3. SrvQuiet /\ SrvOwned /\ open' = open \ {entry.fence}
    BY <1>3, SrvCloses DEF StreamInv, RestType
  <2>4. LeakInv'
    BY <1>1, <2>1, <2>2, <2>3 DEF StreamInv, LeakInv, NothingLeaks, SrvOwned
  <2>. QED  BY <1>1, <2>1, <2>2, <2>3, <2>4, ProcStream
<1>. QED  BY <1>2, <1>3 DEF ProcAdmit

\* What the server issued to a request, or did not.
LEMMA SrvIssues ==
    ASSUME SrvType(srv), NEW u \in Nat, NEW got, srv' = [srv EXCEPT !.used = u, !.issued = @ \cup got]
    PROVE  SrvQuiet /\ srv'.issued = srv.issued \cup got /\ srv'.redeemed = srv.redeemed /\ srv'.cancelled = srv.cancelled
<1>1. /\ DOMAIN srv' = DOMAIN srv /\ \A x \in SrvFields \ {"used", "issued"} : srv'[x] = srv[x]
      /\ srv'.used = u /\ srv'.issued = srv.issued \cup got
  BY DEF SrvType, SrvFields
<1>2. /\ srv'.fence = srv.fence /\ srv'.process = srv.process /\ srv'.hist = srv.hist
      /\ srv'.viewN = srv.viewN /\ srv'.redeemed = srv.redeemed /\ srv'.cancelled = srv.cancelled
      /\ srv'.conn = srv.conn /\ srv'.committed = srv.committed
  BY <1>1 DEF SrvFields
<1>. QED  BY <1>1, <1>2 DEF SrvQuiet, SrvType

LEMMA ProcGrantStream == ASSUME RuntimeInv, RuntimeInv', StreamInv, ProcGrant PROVE StreamInv'
<1>. DEFINE k == IF entry.reqKey # 0 /\ proc.seat # "fallback" THEN entry.reqKey ELSE srv.used + 1
            u == IF k > srv.used THEN k ELSE srv.used
<1>1. ProcType(proc) /\ ProcFields \subseteq DOMAIN proc /\ EntryFields \subseteq DOMAIN entry /\ entry.reqKey \in Nat
      /\ proc.kind # "none" /\ proc.fence = 0 /\ proc.ph = "grant" /\ reqs = {} /\ k <= MaxReq
      /\ UNCHANGED <<life, open, writing, screen, up, down, take>> /\ srv.used \in Nat /\ SrvType(srv)
  BY DEF ProcGrant, StreamInv, ProcType, EntryType, RuntimeInv, ProcInv, LeakInv, RestType, SrvType
<1>2. k \in 1 .. MaxReq /\ u \in Nat /\ k \in Nat /\ reqs \ {k} = {}
  BY <1>1, RuntimeConstants
<1>. HIDE DEF k, u
<1>3. ASSUME NEW got, srv' = [srv EXCEPT !.used = u, !.issued = @ \cup got], got \subseteq reqs', reqs' \subseteq {k},
             NEW ph \in {"ready", "catch", "grant"}, NEW key \in Nat, NEW seat,
             proc' = [proc EXCEPT !.ph = ph, !.key = key, !.seat = seat],
             ph = "grant" => reqs' = {}, ph = "ready" => key = k,
             NEW r \in Nat, entry' = [entry EXCEPT !.reqKey = r]
      PROVE  StreamInv'
  <2>1. EntryPlaced({"reqKey", "process", "pump", "state"}) /\ entry'.reqKey \in Nat /\ entry'.pump = entry.pump
        /\ entry'.state = entry.state /\ entry'.fence = entry.fence
    BY <1>1, <1>3 DEF EntryPlaced, EntryFields
  <2>2. /\ ProcType(proc') /\ proc'.ph = ph /\ proc'.kind = proc.kind /\ proc'.fence = proc.fence /\ proc'.epoch = proc.epoch /\ proc'.key = key
    BY <1>1, <1>3 DEF ProcType, ProcFields
  <2>3. SrvQuiet /\ srv'.issued = srv.issued \cup got /\ srv'.redeemed = srv.redeemed /\ srv'.cancelled = srv.cancelled
    BY <1>1, <1>2, <1>3, SrvIssues
  <2>4. NothingLeaks'
    BY <1>1, <1>3, <2>1, <2>2, <2>3 DEF StreamInv, LeakInv, NothingLeaks
  <2>5. LeakInv'
    BY <1>1, <1>2, <1>3, <2>1, <2>2, <2>3, <2>4 DEF StreamInv, LeakInv
  <2>. QED  BY <1>1, <1>3, <2>1, <2>2, <2>3, <2>5, ProcStream
<1>4. ASSUME srv' = [srv EXCEPT !.used = u, !.issued = @ \cup {k}], reqs' = Own(k),
             proc' = [proc EXCEPT !.ph = IF proc.abort THEN "catch" ELSE "ready", !.key = k],
             entry' = [entry EXCEPT !.reqKey = 0]
      PROVE  StreamInv'
  <2>1. proc' = [proc EXCEPT !.ph = IF proc.abort THEN "catch" ELSE "ready", !.key = k, !.seat = proc.seat]
    BY <1>1, <1>4 DEF ProcFields
  <2>2. reqs' = {k}
    BY <1>1, <1>4 DEF Own
  <2>. QED  BY <1>2, <1>3, <1>4, <2>1, <2>2
<1>5. ASSUME NEW got \in {{}, {k}}, srv' = [srv EXCEPT !.used = u, !.issued = @ \cup got], reqs' = Own(k),
             proc' = [proc EXCEPT !.ph = "catch"],
             entry' = [entry EXCEPT !.reqKey = IF proc.kind = "reconnect" /\ proc.seat # "fallback" THEN k ELSE @]
      PROVE  StreamInv'
  <2>1. proc' = [proc EXCEPT !.ph = "catch", !.key = proc.key, !.seat = proc.seat] /\ proc.key \in Nat
    BY <1>1, <1>5 DEF ProcFields, ProcType
  <2>2. reqs' = {k} /\ got \subseteq {k}
    BY <1>1, <1>5 DEF Own
  <2>3. PICK r \in Nat : entry' = [entry EXCEPT !.reqKey = r]
    BY <1>1, <1>2, <1>5
  <2>. QED  BY <1>2, <1>3, <1>5, <2>1, <2>2, <2>3
<1>6. ASSUME srv' = [srv EXCEPT !.used = u], reqs' = reqs \ {k}, proc' = [proc EXCEPT !.seat = "fallback"],
             entry' = [entry EXCEPT !.reqKey = IF proc.kind = "reconnect" THEN k ELSE 0]
      PROVE  StreamInv'
  <2>1. proc' = [proc EXCEPT !.ph = "grant", !.key = proc.key, !.seat = "fallback"] /\ proc.key \in Nat
    BY <1>1, <1>6 DEF ProcFields, ProcType
  <2>2. srv' = [srv EXCEPT !.used = u, !.issued = @ \cup {}]
    BY <1>1, <1>6 DEF SrvType, SrvFields
  <2>3. PICK r \in Nat : entry' = [entry EXCEPT !.reqKey = r]
    BY <1>2, <1>6
  <2>. QED  BY <1>2, <1>3, <1>6, <2>1, <2>2, <2>3
<1>7. \/ srv' = [srv EXCEPT !.used = u, !.issued = @ \cup {k}] /\ reqs' = Own(k)
         /\ proc' = [proc EXCEPT !.ph = IF proc.abort THEN "catch" ELSE "ready", !.key = k]
         /\ entry' = [entry EXCEPT !.reqKey = 0]
      \/ (\E got \in {{}, {k}} : srv' = [srv EXCEPT !.used = u, !.issued = @ \cup got]) /\ reqs' = Own(k)
         /\ proc' = [proc EXCEPT !.ph = "catch"]
         /\ entry' = [entry EXCEPT !.reqKey = IF proc.kind = "reconnect" /\ proc.seat # "fallback" THEN k ELSE @]
      \/ srv' = [srv EXCEPT !.used = u] /\ reqs' = reqs \ {k} /\ proc' = [proc EXCEPT !.seat = "fallback"]
         /\ entry' = [entry EXCEPT !.reqKey = IF proc.kind = "reconnect" THEN k ELSE 0]
  BY DEF ProcGrant, k, u
<1>. QED  BY <1>4, <1>5, <1>6, <1>7

\* A reconnection begins: what was unacknowledged is retired.
LEMMA ReconnectStartStream == ASSUME RuntimeInv, RuntimeInv', StreamInv, ReconnectStart PROVE StreamInv'
<1>1. PICK r : r = Retire(entry)
  OBVIOUS
<1>2. /\ entry' = [r EXCEPT !.state = "reconnecting", !.rev = @ + 1, !.aborted = TRUE]
      /\ proc' = [Idle EXCEPT !.kind = "reconnect", !.ph = "cancel", !.rev = entry.rev + 1]
      /\ life = "open" /\ proc.kind = "none" /\ entry.state = "interrupted"
      /\ UNCHANGED <<life, reqs, open, writing, screen, up, down, take, srv>>
  BY <1>1 DEF ReconnectStart
<1>3. /\ EntryType(r) /\ SameWork(entry, r) /\ SameScope(entry, r) /\ SameSeat(entry, r)
      /\ r.rev = entry.rev /\ r.pump = entry.pump /\ r.bad = entry.bad /\ entry.rev \in Nat
  BY <1>1, RetireShape DEF StreamInv, EntryType
<1>4. /\ DOMAIN entry' = DOMAIN r /\ \A x \in EntryFields \ {"state", "rev", "aborted"} : entry'[x] = r[x]
      /\ entry'.state = "reconnecting" /\ entry'.rev = entry.rev + 1 /\ entry'.aborted = TRUE
  BY <1>2, <1>3 DEF EntryType, EntryFields
<1>5. entry'.pump = r.pump /\ entry'.reqKey = r.reqKey /\ entry'.bad = r.bad /\ r.pump \in Nat /\ r.reqKey \in Nat
  BY <1>3, <1>4 DEF EntryType, EntryFields
<1>6. /\ EntryType(entry') /\ SameWork(r, entry') /\ SameScope(r, entry') /\ SameSeat(r, entry')
  <2>1. \A x \in EntryFields \ {"state", "rev", "pump", "aborted", "bad", "cont", "reqKey", "process", "holder", "hist"} : entry'[x] = r[x]
    BY <1>4
  <2>2. entry'.rev \in Nat
    BY <1>3, <1>4
  <2>. QED  BY <1>3, <1>4, <1>5, <2>1, <2>2, PlaceShape
<1>7. SameWork(entry, entry') /\ SameScope(entry, entry') /\ SameSeat(entry, entry') /\ ~entry'.bad
  <2>1. ~entry.bad
    BY DEF StreamInv, HonestStreamAccepted
  <2>. QED  BY <1>3, <1>5, <1>6, <2>1 DEF SameWork, SameScope, SameSeat
<1>8. ProcType(proc') /\ proc'.kind = "reconnect" /\ proc'.ph = "cancel" /\ proc'.fence = 0 /\ proc'.epoch = 0
  BY <1>2, <1>3 DEF Idle, ProcType, ProcFields
<1>9. proc.fence = 0 /\ proc.ph = "none"
  BY <1>2 DEF RuntimeInv, ProcInv, StreamInv, LeakInv
<1>10. entry'.fence = entry.fence
  BY <1>7 DEF SameWork
<1>11. LeakInv'
  BY <1>2, <1>4, <1>8, <1>9, <1>10 DEF StreamInv, LeakInv, NothingLeaks
<1>12. PumpInv'
  <2>1. entry'.pump <= entry.rev /\ entry'.pump < entry'.rev /\ entry'.rev # 0
    BY <1>3, <1>4, <1>5 DEF StreamInv, PumpInv
  <2>2. ~Attached'
    BY <1>4 DEF Attached
  <2>3. srv'.fence = srv.fence /\ writing'.fence = writing.fence /\ writing.fence <= srv.fence
    BY <1>2 DEF StreamInv, PumpInv
  <2>4. entry'.state = "reconnecting" /\ proc'.ph = "cancel" /\ entry'.pump <= entry'.rev
    BY <1>3, <1>4, <1>5, <1>8, <2>1
  <2>. QED  BY <2>1, <2>2, <2>3, <2>4 DEF PumpInv
<1>13. StaysAttached /\ SrvQuiet /\ TakeType(take)
  BY <1>2, <1>4, SrvSame DEF StaysAttached, Attached, StreamInv, RestType
<1>. QED  BY <1>2, <1>4, <1>6, <1>7, <1>8, <1>11, <1>12, <1>13, StreamAlone

\* The terminal is forgotten: of its stream nothing matters any more, but what
\* a connection that is not adopted yet has carried.
LEMMA GoneStream ==
    ASSUME RuntimeInv, RuntimeInv', StreamInv, LeakInv', entry' = NoEntry, SrvQuiet, ProcType(proc'), proc'.epoch \in {proc.epoch, 0},
           proc'.kind # "none" => proc.kind # "none", TakeType(take'), take' = take \/ take'.answer = "none",
           life' \in {"open", "closing", "stopped", "failed"}, UNCHANGED <<writing, screen>>,
           proc'.ph = "commit" => proc.ph = "commit" /\ proc'.fence = proc.fence /\ proc'.mode = proc.mode /\ proc'.epoch = proc.epoch /\ up' = <<>>,
           NEW k \in {0, 1}, Brings(AllFrames, k), Retains({"writer_epoch"}, k)
    PROVE  StreamInv'
<1>1. KeyTypes /\ KeyTypes' /\ {"control_state", "writer_epoch"} \subseteq AllFrames /\ {"writer_epoch"} \subseteq AllFrames /\ {"output"} \subseteq AllFrames
  BY DEF RuntimeInv, KeyInv, AllFrames
<1>2. /\ EntryType(entry') /\ entry'.state = "none" /\ entry'.epoch = 0 /\ entry'.pump = 0 /\ ~entry'.bad /\ entry'.rev = 0
      /\ entry'.notice[1] = 0 /\ entry'.inputSeq = 0 /\ entry'.wire = 0 /\ entry'.acked = 0 /\ entry'.retired = 0 /\ entry'.pend = {}
  BY NoEntryType DEF NoEntry
<1>3. ~Attached' /\ StaysAttached
  BY <1>2 DEF Attached, StaysAttached
<1>4. FreshInv'
  BY <1>1, FreshKeeps DEF StreamInv, SrvQuiet
<1>5. SeatInv'
  <2>1. SeatInv /\ SrvEpoch \in Nat /\ 0 <= SrvEpoch
    BY DEF StreamInv, SeatInv
  <2>2. Brings({"writer_epoch"}, k)
    BY <1>1, FewerKinds
  <2>3. entry'.epoch <= SrvEpoch /\ proc'.epoch <= SrvEpoch /\ (take'.answer = "committed" => take'.expected + 1 <= SrvEpoch)
    BY <1>2, <2>1 DEF SeatInv
  <2>. QED  BY <1>2, <2>1, <2>2, <2>3, SeatKeeps DEF SrvQuiet
<1>6. GeometryInv'
  <2>1. Brings({"control_state", "writer_epoch"}, k)
    BY <1>1, FewerKinds
  <2>2. entry.epoch \in Nat /\ entry'.epoch \in Nat
    BY <1>2 DEF StreamInv, EntryType
  <2>3. proc.ph = "commit" => ~Attached
    BY NotAttachedYet
  <2>. QED  BY <1>1, <1>3, <2>1, <2>2, <2>3, GeometryKeeps DEF StreamInv
<1>7. ReceiptInv'
  BY <1>2, <1>3 DEF ReceiptInv
<1>8. OutputsBounded'
  <2>1. Brings({"output"}, k)
    BY <1>1, FewerKinds
  <2>2. \A i \in DOMAIN down' : IsOutput(i)' => i + k \in DOMAIN down /\ IsOutput(i + k) /\ down'[i] = down[i + k]
    BY <2>1 DEF Brings, IsOutput
  <2>. QED  BY <2>2 DEF StreamInv, OutputsBounded
<1>9. ScreenInv'
  BY <1>2 DEF ScreenInv, ScreenIsAView
<1>10. PumpInv'
  <2>1. srv'.fence = srv.fence /\ writing'.fence = writing.fence /\ writing.fence <= srv.fence
    BY DEF StreamInv, PumpInv, SrvQuiet
  <2>2. proc'.ph = "commit" => writing.fence < proc'.fence
    BY DEF StreamInv, PumpInv
  <2>. QED  BY <1>2, <1>3, <2>1, <2>2 DEF PumpInv
<1>11. RestType'
  BY DEF StreamInv, RestType, SrvQuiet
<1>. QED  BY <1>2, <1>3, <1>4, <1>5, <1>6, <1>7, <1>8, <1>9, <1>10, <1>11 DEF StreamInv, HonestStreamAccepted

\* The same with a stream that is left alone.
LEMMA GoneAlone ==
    ASSUME RuntimeInv, RuntimeInv', StreamInv, LeakInv', entry' = NoEntry, SrvQuiet, ProcType(proc'), proc'.epoch \in {proc.epoch, 0},
           proc'.kind # "none" => proc.kind # "none", take' = take \/ take' = NoTake,
           life' \in {"open", "closing", "stopped", "failed"}, UNCHANGED <<writing, screen, up, down>>,
           proc'.ph = "commit" => proc.ph = "commit" /\ proc'.fence = proc.fence /\ proc'.mode = proc.mode /\ proc'.epoch = proc.epoch
    PROVE  StreamInv'
<1>1. \A T : Brings(T, 0) /\ Retains(T, 0)
  BY StreamSame DEF RuntimeInv, KeyInv
<1>2. proc'.ph = "commit" => up' = <<>>
  BY DEF StreamInv, FreshInv
<1>3. TakeType(take') /\ (take' = take \/ take'.answer = "none")
  BY DEF StreamInv, RestType, TakeType, NoTake
<1>. QED  BY <1>1, <1>2, <1>3, GoneStream

LEMMA ProcFinishStream == ASSUME RuntimeInv, RuntimeInv', StreamInv, ProcFinish PROVE StreamInv'
<1>1. ProcType(proc) /\ ProcFields \subseteq DOMAIN proc /\ EntryFields \subseteq DOMAIN entry /\ entry.reqKey \in Nat /\ proc.rev \in Nat
      /\ proc.kind # "none" /\ proc.ph = "callback" /\ entry.rev \in Nat
      /\ UNCHANGED <<life, open, writing, screen, up, down, take, srv>> /\ SrvQuiet
  BY SrvSame DEF ProcFinish, StreamInv, ProcType, EntryType, RuntimeInv, ProcInv, RestType
<1>2. ASSUME proc' = [proc EXCEPT !.ph = "catch"], UNCHANGED <<entry, reqs>>
      PROVE  StreamInv'
  <2>1. EntryPlaced({"reqKey", "process", "pump", "state"})
    BY <1>2 DEF EntryPlaced
  <2>2. /\ ProcType(proc') /\ proc'.ph = "catch" /\ proc'.kind = proc.kind /\ proc'.fence = proc.fence /\ proc'.epoch = proc.epoch
    BY <1>1, <1>2 DEF ProcType, ProcFields
  <2>3. LeakInv'
    BY <1>1, <1>2, <2>2 DEF StreamInv, LeakInv, NothingLeaks
  <2>. QED  BY <1>1, <1>2, <2>1, <2>2, <2>3, ProcStream
<1>3. ASSUME writing = NoWrite, life = "open", proc' = Idle, reqs' = {},
             entry' = [entry EXCEPT !.pump = IF entry.rev = proc.rev THEN proc.rev ELSE 0]
      PROVE  StreamInv'
  <2>1. EntryPlaced({"reqKey", "process", "pump", "state"}) /\ entry'.reqKey \in Nat /\ entry'.state = entry.state
        /\ entry'.pump \in {0, entry.rev} /\ entry'.pump \in Nat
    BY <1>1, <1>3 DEF EntryPlaced, EntryFields
  <2>2. entry.state \in {"none", "active", "interrupted", "reconnecting", "detached", "failed"}
        /\ (entry.state = "active" => ~entry.aborted) /\ entry.state \notin {"interrupted", "reconnecting"}
    BY <1>1 DEF StreamInv, EntryType, PumpInv
  <2>3. /\ EntryType(entry') /\ SameWork(entry, entry') /\ SameScope(entry, entry') /\ SameSeat(entry, entry')
        /\ entry'.rev = entry.rev /\ entry'.aborted = entry.aborted /\ ~entry'.bad /\ entry'.fence = entry.fence
    BY <2>1, <2>2, Placed
  <2>4. StaysAttached
    BY <2>1, <2>2 DEF StaysAttached, Attached
  <2>5. ProcType(proc') /\ proc'.ph = "none" /\ proc'.kind = "none" /\ proc'.fence = 0 /\ proc'.epoch = 0
    BY <1>3 DEF Idle, ProcType, ProcFields
  <2>6. LeakInv'
    <3>1. open \subseteq {entry.fence} /\ srv.issued \subseteq srv.redeemed \cup srv.cancelled
      BY <1>1 DEF StreamInv, LeakInv, NothingLeaks
    <3>. QED  BY <1>1, <1>3, <2>1, <2>3, <2>5, <3>1 DEF StreamInv, LeakInv, NothingLeaks
  <2>7. PumpInv'
    <3>1. Attached' => srv'.conn \in {0, entry'.fence}
      BY <1>1, <2>3, <2>4 DEF StreamInv, PumpInv, StaysAttached
    <3>2. entry'.pump <= entry'.rev /\ (entry'.state # "none" => entry'.rev # 0) /\ (entry'.state = "active" => ~entry'.aborted)
      BY <1>1, <2>1, <2>2, <2>3 DEF StreamInv, PumpInv
    <3>3. writing'.fence <= srv'.fence
      BY <1>1 DEF StreamInv, PumpInv
    <3>. QED  BY <2>5, <3>1, <3>2, <3>3 DEF PumpInv
  <2>. QED  BY <1>1, <1>3, <2>1, <2>3, <2>4, <2>5, <2>6, <2>7, StreamAlone DEF StreamInv, RestType
<1>. QED  BY <1>2, <1>3 DEF ProcFinish, ViewportSettled

LEMMA ProcCatchStream == ASSUME RuntimeInv, RuntimeInv', StreamInv, ProcCatch PROVE StreamInv'
<1>1. PICK done \in SUBSET reqs :
          /\ srv' = [srv EXCEPT !.cancelled = @ \cup (done \ srv.redeemed),
                                !.conn = IF proc.fence # 0 /\ proc.fence = @ THEN 0 ELSE @]
          /\ reqs' = reqs \ done
          /\ entry' =
                IF proc.kind = "attach"
                THEN IF entry.state \in {"none", "detached"} \/ life # "open"
                     THEN entry ELSE NoEntry
                ELSE IF entry.rev = proc.rev /\ entry.state # "failed"
                     THEN [entry EXCEPT !.state = "interrupted", !.reqKey = IF @ \in done THEN 0 ELSE @]
                     ELSE [entry EXCEPT !.reqKey = IF @ \in done THEN 0 ELSE @]
  BY DEF ProcCatch
<1>2. /\ open' = open \ {proc.fence} /\ proc' = Idle /\ proc.ph = "catch" /\ UNCHANGED <<life, writing, screen, up, down>>
      /\ IF entry'.state = "none" THEN DropQueue ELSE UNCHANGED <<keys, tail, take>>
  BY DEF ProcCatch
<1>3. /\ ProcType(proc) /\ EntryFields \subseteq DOMAIN entry /\ entry.reqKey \in Nat /\ proc.rev \in Nat /\ entry.rev \in Nat
      /\ proc.kind \in {"attach", "reconnect"} /\ SrvType(srv) /\ life \in {"open", "closing", "stopped", "failed"}
      /\ entry.pump \in Nat /\ entry.state \in {"none", "active", "interrupted", "reconnecting", "detached", "failed"}
      /\ (entry.state = "active" => ~entry.aborted) /\ (entry.pump = 0 \/ entry.pump < entry.rev)
  BY <1>2 DEF StreamInv, ProcType, EntryType, RuntimeInv, ProcInv, RestType, PumpInv
<1>4. /\ SrvQuiet /\ srv'.cancelled = srv.cancelled \cup (done \ srv.redeemed) /\ srv'.issued = srv.issued /\ srv'.redeemed = srv.redeemed
  <2>1. /\ DOMAIN srv' = DOMAIN srv /\ \A x \in SrvFields \ {"cancelled", "conn"} : srv'[x] = srv[x]
        /\ srv'.cancelled = srv.cancelled \cup (done \ srv.redeemed) /\ srv'.conn \in {srv.conn, 0}
    BY <1>1, <1>3 DEF SrvType, SrvFields
  <2>2. /\ srv'.fence = srv.fence /\ srv'.process = srv.process /\ srv'.used = srv.used /\ srv'.hist = srv.hist
        /\ srv'.viewN = srv.viewN /\ srv'.issued = srv.issued /\ srv'.redeemed = srv.redeemed /\ srv'.committed = srv.committed
    BY <2>1 DEF SrvFields
  <2>. QED  BY <1>3, <2>1, <2>2 DEF SrvQuiet, SrvType
<1>5. /\ ProcType(proc') /\ proc'.ph = "none" /\ proc'.kind = "none" /\ proc'.fence = 0 /\ proc'.epoch = 0
  BY <1>2 DEF Idle, ProcType, ProcFields
<1>6. srv'.issued \subseteq srv'.redeemed \cup srv'.cancelled \cup reqs'
  BY <1>1, <1>4 DEF StreamInv, LeakInv, NothingLeaks
<1>7. life # "stopped"
  BY <1>3 DEF StreamInv, LeakInv
<1>8. CASE entry' = NoEntry /\ proc.kind = "attach"
  <2>1. open' = {}
    <3>1. entry.fence \in {0, proc.fence}
      BY <1>8 DEF RuntimeInv, ProcInv
    <3>2. 0 \notin open /\ open \subseteq {entry.fence, proc.fence}
      BY DEF StreamInv, LeakInv, NothingLeaks
    <3>. QED  BY <1>2, <3>1, <3>2
  <2>2. LeakInv'
    BY <1>1, <1>2, <1>5, <1>6, <1>7, <1>8, <2>1, NoEntryType DEF StreamInv, LeakInv, NothingLeaks
  <2>3. take' = take \/ take' = NoTake
    BY <1>2 DEF DropQueue
  <2>. QED  BY <1>2, <1>3, <1>4, <1>5, <1>8, <2>2, <2>3, GoneAlone
<1>9. ASSUME EntryPlaced({"reqKey", "process", "pump", "state"}), entry'.reqKey \in Nat, entry'.pump = entry.pump,
             entry'.state = entry.state \/ (entry.state # "none" /\ entry'.state = "interrupted")
      PROVE  StreamInv'
  <2>1. /\ EntryType(entry') /\ SameWork(entry, entry') /\ SameScope(entry, entry') /\ SameSeat(entry, entry')
        /\ entry'.rev = entry.rev /\ entry'.aborted = entry.aborted /\ ~entry'.bad /\ entry'.fence = entry.fence
    BY <1>3, <1>9, Placed
  <2>2. StaysAttached
    BY <1>3, <1>9, <2>1 DEF StaysAttached, Attached
  <2>3. LeakInv'
    BY <1>1, <1>2, <1>5, <1>6, <1>7, <1>9, <2>1 DEF StreamInv, LeakInv, NothingLeaks
  <2>4. PumpInv'
    <3>1. entry'.state # "none" => entry.state # "none"
      BY <1>9
    <3>. QED  BY <1>2, <1>3, <1>4, <1>5, <1>9, <2>1, <2>2, <3>1, PumpKeeps DEF SrvQuiet
  <2>5. TakeType(take') /\ (take' = take \/ take'.answer = "none")
    BY <1>2 DEF DropQueue, StreamInv, RestType, TakeType, NoTake
  <2>. QED  BY <1>2, <1>3, <1>4, <1>5, <1>9, <2>1, <2>2, <2>3, <2>4, <2>5, StreamAlone
<1>10. CASE entry' = entry
  BY <1>3, <1>9, <1>10 DEF EntryPlaced
<1>11. CASE proc.kind # "attach"
  <2>1. entry.rev = proc.rev => entry.state # "none"
    BY <1>3, <1>11 DEF RuntimeInv, ProcInv, EntryInv
  <2>2. EntryPlaced({"reqKey", "process", "pump", "state"}) /\ entry'.reqKey \in Nat /\ entry'.pump = entry.pump
        /\ (entry'.state = entry.state \/ (entry.state # "none" /\ entry'.state = "interrupted"))
    BY <1>1, <1>3, <1>11, <2>1 DEF EntryPlaced, EntryFields
  <2>. QED  BY <1>9, <2>2
<1>. QED  BY <1>1, <1>8, <1>10, <1>11

-----------------------------------------------------------------------------
(* The terminal is lost *)

LEMMA LosingStream ==
    ASSUME RuntimeInv, RuntimeInv', StreamInv, SrvQuiet, SrvOwned, UNCHANGED <<proc, life, reqs, writing, screen, take>>, open' \subseteq open,
           NEW st \in {"interrupted", "failed"}, NEW r, r = Lose(entry, st), DOMAIN entry' = DOMAIN r,
           \A x \in EntryFields \ {"rev", "pump", "cont"} : entry'[x] = r[x], entry'.rev \in {r.rev, r.rev + 1}, entry'.pump \in {r.pump, 0},
           entry.state \in {"active", "interrupted"}, st = "interrupted" => proc.ph # "callback",
           NEW k \in {0, 1}, NEW h \in {0, 1}, Brings(AllFrames, k), Attached' => Retains(ViewFrames, k), Retains({"writer_epoch"}, k), \A T : UpBrings(T, h),
           proc.ph = "commit" => up' = <<>>
    PROVE  StreamInv'
<1>1. EntryType(entry) /\ ~entry.bad /\ entry.pump <= entry.rev /\ TakeType(take) /\ ProcType(proc)
      /\ life' \in {"open", "closing", "stopped", "failed"}
  BY DEF StreamInv, HonestStreamAccepted, PumpInv, RestType
<1>2. /\ EntryType(r) /\ SameWork(entry, r) /\ SameScope(entry, r) /\ SameSeat(entry, r)
      /\ r.state = st /\ r.rev = entry.rev /\ r.pump = entry.pump /\ ~r.bad
  BY <1>1, LoseShape
<1>3. /\ entry'.state = st /\ ~entry'.bad /\ entry'.aborted = r.aborted /\ entry'.reqKey = r.reqKey /\ entry'.fence = r.fence
      /\ entry'.rev \in Nat /\ entry'.pump \in Nat /\ r.aborted \in BOOLEAN /\ r.reqKey \in Nat
      /\ entry.rev \in Nat /\ entry.pump \in Nat
  <2>1. r.aborted \in BOOLEAN /\ r.reqKey \in Nat /\ r.rev \in Nat /\ r.pump \in Nat /\ entry.rev \in Nat /\ entry.pump \in Nat
    BY <1>1, <1>2 DEF EntryType
  <2>2. {"state", "bad", "aborted", "reqKey", "fence"} \subseteq EntryFields \ {"rev", "pump", "cont"}
    BY DEF EntryFields
  <2>. QED  BY <1>2, <2>1, <2>2
<1>4. /\ EntryType(entry') /\ SameWork(r, entry') /\ SameScope(r, entry') /\ SameSeat(r, entry')
  <2>1. \A x \in EntryFields \ {"state", "rev", "pump", "aborted", "bad", "cont", "reqKey", "process", "holder", "hist"} : entry'[x] = r[x]
    OBVIOUS
  <2>. QED  BY <1>2, <1>3, <2>1, PlaceShape
<1>5. SameWork(entry, entry') /\ SameScope(entry, entry') /\ SameSeat(entry, entry')
  BY <1>2, <1>4 DEF SameWork, SameScope, SameSeat
<1>6. StaysAttached
  BY <1>1, <1>2, <1>3 DEF StaysAttached, Attached
<1>7. LeakInv'
  BY <1>3, <1>5, LeakKeeps DEF StreamInv, RuntimeInv, SrvOwned, SameWork
<1>8. PumpInv'
  BY <1>2, <1>3, <1>4, <1>5, <1>6, PumpKeeps DEF SrvQuiet
<1>9. CoreStep(k, h)
  <2>1. {"acknowledgement"} \subseteq AllFrames /\ ViewFrames \subseteq AllFrames
    BY DEF AllFrames, ViewFrames
  <2>2. Brings(ViewFrames, k) /\ Brings({"acknowledgement"}, k)
    BY <2>1, FewerKinds
  <2>3. srv'.conn # 0 => srv.conn # 0
    BY DEF SrvQuiet
  <2>. QED  BY <1>3, <1>5, <1>6, <2>2, <2>3 DEF CoreStep, SrvQuiet
<1>. QED  BY <1>1, <1>3, <1>4, <1>5, <1>7, <1>8, <1>9, QuietStream

\* The same with the stream left alone.
LEMMA LosingAlone ==
    ASSUME RuntimeInv, RuntimeInv', StreamInv, Close({entry.fence}) \/ (UNCHANGED srv /\ open' \subseteq open),
           UNCHANGED <<proc, life, reqs, writing, screen, take, up, down>>,
           NEW st \in {"interrupted", "failed"}, NEW r, r = Lose(entry, st), DOMAIN entry' = DOMAIN r,
           \A x \in EntryFields \ {"rev", "pump", "cont"} : entry'[x] = r[x], entry'.rev \in {r.rev, r.rev + 1}, entry'.pump \in {r.pump, 0},
           entry.state \in {"active", "interrupted"}, st = "interrupted" => proc.ph # "callback"
    PROVE  StreamInv'
<1>1. KeyTypes
  BY DEF RuntimeInv, KeyInv
<1>2. \A T : Brings(T, 0) /\ Retains(T, 0)
  BY <1>1, StreamSame
<1>3. \A T : UpBrings(T, 0)
  BY <1>1, UpSame
<1>4. SrvQuiet /\ SrvOwned /\ open' \subseteq open
  BY SrvSame, SrvCloses DEF StreamInv, RestType
<1>5. proc.ph = "commit" => up' = <<>>
  BY DEF StreamInv, FreshInv
<1>. QED  BY <1>2, <1>3, <1>4, <1>5, LosingStream

LEMMA NotAdopting ==
    ASSUME RuntimeInv, StreamInv, entry.state # "none", (entry.pump = entry.rev) \/ (entry.state = "active" /\ entry.pend # {})
                                  \/ (entry.state = "active" /\ entry.view # "none")
    PROVE  proc.ph # "callback"
<1>1. proc.ph = "callback" => proc.kind # "none"
  BY DEF RuntimeInv, ProcInv
<1>. QED  BY <1>1 DEF StreamInv, PumpInv, EntryType

LEMMA TimerStream ==
    ASSUME RuntimeInv, RuntimeInv', StreamInv, HeartbeatExpires \/ AcknowledgementExpires \/ ViewExpires
    PROVE  StreamInv'
<1>1. PICK st \in {"interrupted", "failed"} : entry' = Lose(entry, st) /\ (st = "interrupted" => HeartbeatExpires \/ AcknowledgementExpires)
  BY DEF HeartbeatExpires, AcknowledgementExpires, ViewExpires, Expire
<1>2. Close({entry.fence}) /\ UNCHANGED <<proc, life, reqs, writing, screen, take, up, down>> /\ entry.state = "active"
  BY DEF HeartbeatExpires, AcknowledgementExpires, ViewExpires, Expire
<1>3. st = "interrupted" => proc.ph # "callback"
  BY <1>1, <1>2, NotAdopting DEF HeartbeatExpires, AcknowledgementExpires
<1>. QED  BY <1>1, <1>2, <1>3, LosingAlone

LEMMA WriteExpiresStream == ASSUME RuntimeInv, RuntimeInv', StreamInv, WriteExpires PROVE StreamInv'
<1>1. PICK r : r = Lose(entry, "failed")
  OBVIOUS
<1>2. EntryFields \subseteq DOMAIN r /\ entry' = [r EXCEPT !.pump = 0]
  BY <1>1, LoseShape DEF WriteExpires, StreamInv, EntryType
<1>3. DOMAIN entry' = DOMAIN r /\ (\A x \in EntryFields \ {"rev", "pump", "cont"} : entry'[x] = r[x]) /\ entry'.rev = r.rev /\ entry'.pump = 0
  BY <1>2 DEF EntryFields
<1>4. Close({entry.fence}) /\ UNCHANGED <<proc, life, reqs, writing, screen, take, up, down>> /\ entry.state \in {"active", "interrupted"}
  BY DEF WriteExpires, Live
<1>. QED  BY <1>1, <1>3, <1>4, LosingAlone

LEMMA OnEndStream == ASSUME RuntimeInv, RuntimeInv', StreamInv, OnEnd PROVE StreamInv'
<1>1. entry' = Lose(entry, "interrupted") /\ entry.state = "active" /\ open' \subseteq open
      /\ UNCHANGED <<proc, life, reqs, writing, screen, take, up, down, srv>> /\ entry.pump = entry.rev
  BY DEF OnEnd, Pumping, Live
<1>2. proc.ph # "callback"
  BY <1>1, NotAdopting
<1>. QED  BY <1>1, <1>2, LosingAlone

\* A delivery that was revoked.
LEMMA RevokedStream ==
    ASSUME RuntimeInv, RuntimeInv', StreamInv, Live, down # <<>>, Head(down).t # "writer_epoch", Apply(Revoked(entry)), UNCHANGED <<writing, screen>>
    PROVE  StreamInv'
<1>1. PICK r : r = Lose(entry, "interrupted")
  OBVIOUS
<1>2. EntryFields \subseteq DOMAIN r /\ Revoked(entry) = [r EXCEPT !.pump = 0] /\ r.state = "interrupted"
  BY <1>1, LoseShape DEF Revoked, StreamInv, EntryType
<1>3. entry' = Revoked(entry) /\ down' = Tail(down) /\ UNCHANGED <<proc, life, reqs, take, up>>
  BY DEF Apply
<1>4. DOMAIN entry' = DOMAIN r /\ (\A x \in EntryFields \ {"rev", "pump", "cont"} : entry'[x] = r[x]) /\ entry'.rev = r.rev /\ entry'.pump = 0
      /\ entry'.state = "interrupted"
  BY <1>2, <1>3 DEF EntryFields
<1>5. UNCHANGED <<open, srv>>
  BY <1>3, <1>4 DEF Apply
<1>6. SrvQuiet /\ SrvOwned /\ entry.state \in {"active", "interrupted"} /\ entry.pump = entry.rev
  BY <1>5, SrvSame DEF StreamInv, RestType, Live
<1>7. proc.ph # "callback"
  BY <1>6, NotAdopting
<1>8. KeyTypes
  BY DEF RuntimeInv, KeyInv
<1>9. Brings(AllFrames, 1) /\ Retains({"writer_epoch"}, 1) /\ (\A T : UpBrings(T, 0)) /\ ~Attached'
  BY <1>3, <1>4, <1>8, FrameTaken, UpSame DEF Attached
<1>10. proc.ph = "commit" => up' = <<>>
  BY <1>3 DEF StreamInv, FreshInv
<1>. QED  BY <1>1, <1>3, <1>4, <1>5, <1>6, <1>7, <1>9, <1>10, LosingStream

-----------------------------------------------------------------------------
(* The terminal is given up *)

LEMMA Aborts ==
    ASSUME ProcType(proc), proc' = IF proc.kind = "none" THEN proc ELSE [proc EXCEPT !.abort = TRUE]
    PROVE  ProcQuiet
<1>1. ProcFields \subseteq DOMAIN proc
  BY DEF ProcType
<1>2. /\ proc'.kind = proc.kind /\ proc'.ph = proc.ph /\ proc'.key = proc.key /\ proc'.fence = proc.fence
      /\ proc'.mode = proc.mode /\ proc'.epoch = proc.epoch /\ proc'.rev = proc.rev /\ DOMAIN proc' = DOMAIN proc
  BY <1>1 DEF ProcFields
<1>. QED  BY <1>1, <1>2 DEF ProcQuiet, ProcType

\* Its attachment ends, but what waits for it still finds it.
LEMMA EndedStream ==
    ASSUME RuntimeInv, RuntimeInv', StreamInv, ProcQuiet, UNCHANGED <<reqs, writing, screen, up, down, take>>,
           life' \in {life, "closing"}, entry.state # "none", NEW st \in {"detached", "failed"},
           entry' = [entry EXCEPT !.state = st, !.rev = @ + 1, !.aborted = TRUE],
           Close({entry.fence}) \/ (UNCHANGED <<open, srv>> /\ st = "failed")
    PROVE  StreamInv'
<1>1. EntryType(entry) /\ EntryFields \subseteq DOMAIN entry /\ entry.rev \in Nat /\ entry.pump \in Nat /\ ~entry.bad
      /\ TakeType(take) /\ life' \in {"open", "closing", "stopped", "failed"} /\ entry.reqKey \in Nat
  BY DEF StreamInv, EntryType, HonestStreamAccepted, RestType
<1>2. /\ DOMAIN entry' = DOMAIN entry /\ \A x \in EntryFields \ {"state", "rev", "aborted"} : entry'[x] = entry[x]
      /\ entry'.state = st /\ entry'.rev = entry.rev + 1 /\ entry'.aborted = TRUE
  BY <1>1 DEF EntryFields
<1>3. entry'.pump = entry.pump /\ entry'.reqKey = entry.reqKey /\ entry'.bad = entry.bad
  BY <1>2 DEF EntryFields
<1>4. /\ EntryType(entry') /\ SameWork(entry, entry') /\ SameScope(entry, entry') /\ SameSeat(entry, entry')
  <2>1. \A x \in EntryFields \ {"state", "rev", "pump", "aborted", "bad", "cont", "reqKey", "process", "holder", "hist"} : entry'[x] = entry[x]
    BY <1>2
  <2>2. entry'.rev \in Nat
    BY <1>1, <1>2
  <2>. QED  BY <1>1, <1>2, <1>3, <2>1, <2>2, PlaceShape
<1>5. SrvQuiet /\ SrvOwned /\ open' \subseteq open /\ (st = "detached" => entry.fence \notin open')
  BY SrvSame, SrvCloses DEF StreamInv, RestType
<1>6. ~Attached' /\ StaysAttached
  BY <1>2 DEF Attached, StaysAttached
<1>7. LeakInv'
  BY <1>2, <1>4, <1>5, LeakKeeps DEF StreamInv, RuntimeInv, SrvOwned, SameWork, ProcQuiet
<1>8. PumpInv'
  BY <1>1, <1>2, <1>3, <1>4, <1>5, <1>6, PumpKeeps DEF SrvQuiet, ProcQuiet
<1>. QED  BY <1>1, <1>2, <1>3, <1>4, <1>5, <1>6, <1>7, <1>8, StreamAlone DEF ProcQuiet

LEMMA DetachStream == ASSUME RuntimeInv, RuntimeInv', StreamInv, Detach PROVE StreamInv'
<1>1. ProcQuiet
  BY Aborts DEF Detach, StreamInv
<1>. QED  BY <1>1, EndedStream DEF Detach

LEMMA DroppedStream ==
    ASSUME RuntimeInv, RuntimeInv', StreamInv, ProcQuiet, UNCHANGED <<reqs, writing, screen, up, down>>, DropQueue,
           life' \in {life, "closing"}, entry.state # "none", entry' = NoEntry,
           Close({entry.fence}) \/ (UNCHANGED <<open, srv>> /\ entry.state = "detached")
    PROVE  StreamInv'
<1>1. SrvQuiet /\ SrvOwned /\ open' \subseteq open /\ entry.fence \notin open'
  BY SrvSame, SrvCloses DEF StreamInv, RestType, LeakInv
<1>2. LeakInv'
  BY <1>1, NoEntryType, LeakKeeps DEF StreamInv, RuntimeInv, SrvOwned, ProcQuiet
<1>3. life' \in {"open", "closing", "stopped", "failed"} /\ take' = NoTake
  BY DEF StreamInv, RestType, DropQueue
<1>. QED  BY <1>1, <1>2, <1>3, GoneAlone DEF ProcQuiet

LEMMA DetachDoneStream == ASSUME RuntimeInv, RuntimeInv', StreamInv, DetachDone PROVE StreamInv'
<1>1. ProcQuiet
  BY DEF DetachDone, ProcQuiet, StreamInv
<1>. QED  BY <1>1, DroppedStream DEF DetachDone

LEMMA ShutdownStream == ASSUME RuntimeInv, RuntimeInv', StreamInv, Shutdown PROVE StreamInv'
<1>1. ProcQuiet /\ life' = "closing" /\ UNCHANGED <<reqs, writing, screen, up, down>>
  BY Aborts DEF Shutdown, StreamInv
<1>2. CASE entry.state = "none"
  <2>1. UNCHANGED <<entry, open, take, srv>>
    BY <1>2 DEF Shutdown
  <2>2. SrvQuiet /\ SrvOwned
    BY <2>1, SrvSame DEF StreamInv, RestType
  <2>3. LeakInv'
    BY <1>1, <2>1, <2>2, LeakKeeps DEF StreamInv, RuntimeInv, SrvOwned, ProcQuiet
  <2>4. PumpInv'
    BY <1>1, <2>1 DEF StreamInv, PumpInv, ProcQuiet, Attached
  <2>. QED  BY <1>1, <2>1, <2>2, <2>3, <2>4, EntryStaysOn DEF StreamInv, RestType, ProcQuiet
<1>3. CASE entry.state # "none" /\ entry' = NoEntry /\ Close({entry.fence}) /\ DropQueue
  BY <1>1, <1>3, DroppedStream
<1>4. CASE entry.state # "none" /\ entry' = [entry EXCEPT !.state = "failed", !.rev = @ + 1, !.aborted = TRUE]
           /\ UNCHANGED <<open, take, srv>>
  BY <1>1, <1>4, EndedStream
<1>. QED  BY <1>2, <1>3, <1>4 DEF Shutdown

LEMMA OnExitStream == ASSUME RuntimeInv, RuntimeInv', StreamInv, OnExit PROVE StreamInv'
<1>1. /\ entry' = NoEntry /\ DropQueue /\ Close({entry.fence}) /\ down' = Tail(down) /\ down # <<>> /\ Head(down).t = "exit"
      /\ UNCHANGED <<proc, life, reqs, writing, screen, up>> /\ entry.state # "none"
  BY DEF OnExit, Frame, Pumping, Live
<1>2. SrvQuiet /\ SrvOwned /\ open' \subseteq open /\ entry.fence \notin open'
  BY <1>1, SrvCloses DEF StreamInv, RestType
<1>3. LeakInv'
  BY <1>1, <1>2, NoEntryType, LeakKeeps DEF StreamInv, RuntimeInv, SrvOwned
<1>4. KeyTypes
  BY DEF RuntimeInv, KeyInv
<1>5. Brings(AllFrames, 1) /\ Retains({"writer_epoch"}, 1)
  BY <1>1, <1>4, FrameTaken
<1>6. TakeType(take') /\ take'.answer = "none" /\ ProcType(proc) /\ life \in {"open", "closing", "stopped", "failed"}
      /\ (proc.ph = "commit" => up' = <<>>)
  BY <1>1 DEF DropQueue, NoTake, TakeType, StreamInv, RestType, FreshInv
<1>. QED  BY <1>1, <1>2, <1>3, <1>5, <1>6, GoneStream

-----------------------------------------------------------------------------
(* Input goes out *)

\* One more input waits for its receipt.
LEMMA OnePending ==
    ASSUME EntryType(entry), ~WindowFull, NEW n \in Nat
    PROVE  /\ entry.pend \cup {n} \subseteq Nat /\ IsFiniteSet(entry.pend \cup {n})
           /\ Cardinality(entry.pend \cup {n}) <= Window
<1>1. IsFiniteSet(entry.pend) /\ entry.pend \subseteq Nat /\ ~(Cardinality(entry.pend) >= Window)
  BY DEF EntryType, WindowFull
<1>2. Cardinality(entry.pend) \in Nat /\ Window \in Nat
  BY <1>1, FS_CardinalityType, RuntimeConstants
<1>3. IsFiniteSet(entry.pend \cup {n}) /\ (Cardinality(entry.pend \cup {n}) = Cardinality(entry.pend)
                                          \/ Cardinality(entry.pend \cup {n}) = Cardinality(entry.pend) + 1)
  BY <1>1, FS_AddElement
<1>. QED  BY <1>1, <1>2, <1>3

LEMMA RunSendStream == ASSUME RuntimeInv, RuntimeInv', StreamInv, RunSend PROVE StreamInv'
<1>. DEFINE k == Head(tail)
            seq == entry.wire + 1
            seat == entry.mode = "writer" /\ entry.epoch = keys[k].epoch /\ entry.view = "ready"
<1>1. UNCHANGED <<proc, life, reqs, writing, screen, down, take>> /\ EntryType(entry) /\ ~entry.bad /\ KeyTypes /\ KeyTypes'
  BY DEF RunSend, StreamInv, HonestStreamAccepted, RuntimeInv, KeyInv
<1>2. CASE UNCHANGED <<entry, up, open, srv>>
  <2>1. SrvQuiet /\ SrvOwned
    BY <1>2, SrvSame DEF StreamInv, RestType
  <2>2. LeakInv' /\ PumpInv'
    BY <1>1, <1>2 DEF StreamInv, LeakInv, PumpInv, NothingLeaks, Attached
  <2>. QED  BY <1>1, <1>2, <2>1, <2>2, EntryStaysOn DEF StreamInv, RestType
<1>3. CASE SendFence(k) /\ seat /\ entry' = [Lose(entry, "interrupted") EXCEPT !.rev = @ + 1, !.cont = "uncertain"]
           /\ Close({entry.fence}) /\ UNCHANGED up
  <2>1. PICK r : r = Lose(entry, "interrupted")
    OBVIOUS
  <2>2. EntryFields \subseteq DOMAIN r
    BY <1>1, <2>1, LoseShape DEF EntryType
  <2>3. DOMAIN entry' = DOMAIN r /\ (\A x \in EntryFields \ {"rev", "pump", "cont"} : entry'[x] = r[x]) /\ entry'.rev = r.rev + 1
        /\ entry'.pump = r.pump
    BY <1>3, <2>1, <2>2 DEF EntryFields
  <2>4. entry.state = "active" /\ proc.ph # "callback"
    BY <1>3, NotAdopting DEF SendFence
  <2>. QED  BY <1>1, <1>3, <2>1, <2>3, <2>4, LosingAlone
<1>4. CASE SendFence(k) /\ seat /\ ~WindowFull /\ UNCHANGED <<open, srv>>
           /\ entry' = [entry EXCEPT !.wire = seq, !.inputSeq = seq, !.pend = @ \cup {seq}, !.cont = "uncertain"]
           /\ up' = IF srv.conn = entry.fence THEN Append(up, [t |-> "input", seq |-> seq, key |-> k]) ELSE up
  <2>1. /\ entry.state = "active" /\ proc.ph # "callback" /\ proc.ph # "commit" /\ Attached /\ entry.wire \in Nat /\ seq \in Nat /\ ~entry.aborted
        /\ entry.pump \in Nat /\ entry.rev \in Nat
    BY <1>1, <1>4, NotAdopting, SMTT(30) DEF SendFence, Attached, RuntimeInv, ProcInv, Before, EntryType, StreamInv, PumpInv
  <2>2. /\ DOMAIN entry' = DOMAIN entry /\ EntryFields \subseteq DOMAIN entry
        /\ \A x \in EntryFields \ {"wire", "inputSeq", "pend", "cont"} : entry'[x] = entry[x]
        /\ entry'.wire = seq /\ entry'.inputSeq = seq /\ entry'.pend = entry.pend \cup {seq}
    BY <1>1, <1>4 DEF EntryType, EntryFields
  <2>3. /\ entry'.state = entry.state /\ entry'.rev = entry.rev /\ entry'.fence = entry.fence /\ entry'.mode = entry.mode
        /\ entry'.epoch = entry.epoch /\ entry'.notice = entry.notice /\ entry'.acked = entry.acked /\ entry'.retired = entry.retired
        /\ entry'.view = entry.view /\ entry'.out = entry.out /\ entry'.pump = entry.pump /\ entry'.aborted = entry.aborted
        /\ entry'.reqKey = entry.reqKey /\ entry'.ask = entry.ask /\ entry'.bad = entry.bad
    BY <2>2 DEF EntryFields
  <2>. HIDE DEF seq
  <2>4. EntryType(entry')
    BY <1>1, <1>4, <2>1, <2>2, <2>3, OnePending DEF EntryType
  <2>5. SameWork(entry, entry') /\ SameSeat(entry, entry') /\ StaysAttached
    BY <2>1, <2>2, <2>3 DEF SameWork, SameSeat, StaysAttached
  <2>6. SrvQuiet /\ SrvOwned
    BY <1>4, SrvSame DEF StreamInv, RestType
  <2>7. LeakInv'
    BY <1>1, <1>4, <2>3 DEF StreamInv, LeakInv, NothingLeaks
  <2>8. PumpInv'
    BY <1>1, <2>1, <2>3, <2>4, <2>5, <2>6, PumpKeeps DEF SrvQuiet
  <2>9. \A T : Brings(T, 0) /\ Retains(T, 0)
    BY <1>1, StreamSame
  <2>10. /\ DOMAIN up \subseteq DOMAIN up' /\ (\A i \in DOMAIN up : up'[i] = up[i] /\ i \in Nat)
         /\ \A i \in DOMAIN up' : i \in DOMAIN up \/ (i = Len(up) + 1 /\ up'[i] = [t |-> "input", seq |-> seq, key |-> k] /\ \A j \in DOMAIN up : j < i)
    <3>1. up \in Seq(Message) /\ DOMAIN up = 1 .. Len(up) /\ Len(up) \in Nat
      BY <1>1 DEF KeyTypes
    <3>2. CASE up' = up
      BY <3>1, <3>2
    <3>3. CASE up' = Append(up, [t |-> "input", seq |-> seq, key |-> k])
      <4>. DEFINE m == [t |-> "input", seq |-> seq, key |-> k]
      <4>1. /\ DOMAIN up \subseteq DOMAIN up' /\ (\A i \in DOMAIN up : up'[i] = up[i]) /\ up'[Len(up) + 1] = m
            /\ \A i \in DOMAIN up' : i \in DOMAIN up \/ i = Len(up) + 1
        BY <3>1, <3>3, AppendIs
      <4>2. \A j \in DOMAIN up : j \in Nat /\ j < Len(up) + 1
        BY <3>1
      <4>. QED  BY <4>1, <4>2
    <3>. QED  BY <1>4, <3>2, <3>3
  <2>11. UpBrings({"resume"}, 0)
    BY <2>10 DEF UpBrings
  <2>12. ViewPart'
    <3>1. CoreStep(0, 0)
      BY <1>1, <1>4, <2>1, <2>3, <2>5, <2>9, <2>11 DEF CoreStep
    <3>. QED  BY <1>1, <3>1, CoreKeeps
  <2>13. ReceiptInv'
    <3>1. /\ entry.inputSeq \in Nat /\ entry.acked \in Nat /\ entry.retired \in Nat /\ entry.pend \subseteq Nat
          /\ entry.inputSeq <= entry.wire /\ entry.acked <= entry.wire /\ entry.retired <= entry.wire
          /\ \A p \in entry.pend : p <= entry.inputSeq
      BY <1>1 DEF EntryType, StreamInv, ReceiptInv
    <3>2. entry.wire < seq /\ seq \in Nat /\ entry.wire \in Nat
      BY <2>1 DEF seq
    <3>3. /\ entry'.inputSeq <= entry'.wire /\ entry'.acked <= entry'.wire /\ entry'.retired <= entry'.wire
          /\ \A p \in entry'.pend : p <= entry'.inputSeq
      BY <2>2, <2>3, <3>1, <3>2
    <3>. DEFINE DueThen(n) == n <= entry'.retired \/ (n \in entry'.pend /\ n > entry'.acked)
    <3>4. DueThen(seq) /\ \A n \in Nat : Due(n) => DueThen(n) /\ n < seq
      BY <2>2, <2>3, <3>1, <3>2 DEF Due
    <3>5. /\ \A i \in DOMAIN down : IsReceipt(i) => Due(down[i].n) /\ down[i].n \in Nat
          /\ \A i, j \in DOMAIN down : i < j /\ IsReceipt(i) /\ IsReceipt(j) => down[i].n < down[j].n
      BY <1>1, <2>1, FrameNumbers DEF StreamInv, ReceiptInv, IsReceipt
    <3>6. srv.conn # 0 =>
              /\ \A i \in DOMAIN up : IsInput(i) => Due(up[i].seq) /\ up[i].seq \in Nat
              /\ \A i, j \in DOMAIN up : i < j /\ IsInput(i) /\ IsInput(j) => up[i].seq < up[j].seq
              /\ \A i \in DOMAIN down, j \in DOMAIN up : IsReceipt(i) /\ IsInput(j) => down[i].n < up[j].seq
      BY <1>1, <2>1, FrameNumbers DEF StreamInv, ReceiptInv
    <3>7. \A i \in DOMAIN up' : (i \in DOMAIN up /\ up'[i] = up[i] /\ (IsInput(i)' <=> IsInput(i))) \/ (up'[i].seq = seq /\ \A j \in DOMAIN up : j < i)
      BY <2>10 DEF IsInput
    <3>8. \A i \in DOMAIN up', j \in DOMAIN up' : i < j => i \in DOMAIN up
      <4>1. \A i \in DOMAIN up' : i \in Nat
        BY <1>1, PlacesThen
      <4>2. SUFFICES ASSUME NEW i \in DOMAIN up', NEW j \in DOMAIN up', i < j, i \notin DOMAIN up
                     PROVE  FALSE
        OBVIOUS
      <4>3. i = Len(up) + 1 /\ (j \in DOMAIN up => j < i) /\ (j \in DOMAIN up \/ j = Len(up) + 1)
        BY <2>10, <4>2
      <4>. QED  BY <4>1, <4>2, <4>3
    <3>9. /\ \A i \in DOMAIN down' : IsReceipt(i)' => DueThen(down'[i].n)
          /\ \A i, j \in DOMAIN down' : i < j /\ IsReceipt(i)' /\ IsReceipt(j)' => down'[i].n < down'[j].n
      BY <1>1, <3>4, <3>5 DEF IsReceipt
    <3>10. srv'.conn # 0 =>
               /\ \A i \in DOMAIN up' : IsInput(i)' => DueThen(up'[i].seq)
               /\ \A i, j \in DOMAIN up' : i < j /\ IsInput(i)' /\ IsInput(j)' => up'[i].seq < up'[j].seq
               /\ \A i \in DOMAIN down', j \in DOMAIN up' : IsReceipt(i)' /\ IsInput(j)' => down'[i].n < up'[j].seq
      <4>1. SUFFICES ASSUME srv.conn # 0
                     PROVE  /\ \A i \in DOMAIN up' : IsInput(i)' => DueThen(up'[i].seq)
                            /\ \A i, j \in DOMAIN up' : i < j /\ IsInput(i)' /\ IsInput(j)' => up'[i].seq < up'[j].seq
                            /\ \A i \in DOMAIN down', j \in DOMAIN up' : IsReceipt(i)' /\ IsInput(j)' => down'[i].n < up'[j].seq
        BY <1>4
      <4>. HIDE DEF DueThen
      <4>2. \A i \in DOMAIN up' : IsInput(i)' => DueThen(up'[i].seq)
        BY <3>4, <3>6, <3>7, <4>1
      <4>3. \A i, j \in DOMAIN up' : i < j /\ IsInput(i)' /\ IsInput(j)' => up'[i].seq < up'[j].seq
        <5>1. SUFFICES ASSUME NEW i \in DOMAIN up', NEW j \in DOMAIN up', i < j, IsInput(i)', IsInput(j)'
                       PROVE  up'[i].seq < up'[j].seq
          OBVIOUS
        <5>2. i \in DOMAIN up /\ i \in Nat /\ ~(i < i)
          BY <1>1, <3>8, <5>1, PlacesThen
        <5>3. up'[i] = up[i] /\ IsInput(i) /\ up[i].seq \in Nat /\ up[i].seq < seq
          BY <3>4, <3>6, <3>7, <4>1, <5>1, <5>2
        <5>4. CASE j \in DOMAIN up /\ up'[j] = up[j] /\ (IsInput(j)' <=> IsInput(j))
          BY <3>6, <4>1, <5>1, <5>2, <5>3, <5>4
        <5>5. CASE up'[j].seq = seq
          BY <5>3, <5>5
        <5>. QED  BY <3>7, <5>4, <5>5
      <4>4. \A i \in DOMAIN down', j \in DOMAIN up' : IsReceipt(i)' /\ IsInput(j)' => down'[i].n < up'[j].seq
        BY <1>1, <3>4, <3>5, <3>6, <3>7, <4>1 DEF IsReceipt
      <4>. QED  BY <4>2, <4>3, <4>4
    <3>. QED  BY <3>3, <3>9, <3>10 DEF ReceiptInv, Due
  <2>14. RestType'
    BY <1>1, <1>4 DEF StreamInv, RestType
  <2>. QED  BY <1>1, <1>4, <2>1, <2>3, <2>4, <2>5, <2>7, <2>8, <2>9, <2>12, <2>13, <2>14, Assembled DEF StreamInv
<1>. QED  BY <1>2, <1>3, <1>4 DEF RunSend

-----------------------------------------------------------------------------
(* The seat is asked for *)

LEMMA TakeAskStream == ASSUME RuntimeInv, RuntimeInv', StreamInv, TakeAsk PROVE StreamInv'
<1>1. EntryType(entry) /\ EntryFields \subseteq DOMAIN entry /\ ~entry.bad /\ entry.ask \in Seq(Nat) /\ entry.epoch \in Nat
  BY DEF StreamInv, EntryType, HonestStreamAccepted
<1>2. PICK op : /\ op = (IF entry.ask # <<>> THEN entry.ask ELSE <<entry.epoch>>)
                /\ entry' = [entry EXCEPT !.ask = op] /\ take' = [NoTake EXCEPT !.ph = "check", !.rev = entry.rev, !.expected = op[1]]
  BY DEF TakeAsk
<1>3. UNCHANGED <<proc, life, reqs, open, writing, screen, up, down, srv>>
  BY DEF TakeAsk
<1>4. op \in Seq(Nat) /\ op[1] \in Nat
  <2>1. CASE entry.ask # <<>>
    BY <1>1, <1>2, <2>1, TailIs
  <2>2. CASE entry.ask = <<>>
    BY <1>1, <1>2, <2>2
  <2>. QED  BY <2>1, <2>2
<1>5. TakeType(take') /\ take'.answer = "none"
  BY <1>2, <1>4 DEF NoTake, TakeType
<1>6. /\ DOMAIN entry' = DOMAIN entry /\ (\A x \in EntryFields \ {"ask"} : entry'[x] = entry[x]) /\ entry'.ask = op
  BY <1>1, <1>2 DEF EntryFields
<1>7. /\ entry'.state = entry.state /\ entry'.rev = entry.rev /\ entry'.fence = entry.fence /\ entry'.mode = entry.mode
      /\ entry'.epoch = entry.epoch /\ entry'.notice = entry.notice /\ entry'.acked = entry.acked /\ entry'.retired = entry.retired
      /\ entry'.view = entry.view /\ entry'.out = entry.out /\ entry'.pump = entry.pump /\ entry'.aborted = entry.aborted
      /\ entry'.reqKey = entry.reqKey /\ entry'.bad = entry.bad /\ entry'.wire = entry.wire /\ entry'.inputSeq = entry.inputSeq /\ entry'.pend = entry.pend
  BY <1>6 DEF EntryFields
<1>8. EntryType(entry')
  BY <1>1, <1>4, <1>6, <1>7 DEF EntryType
<1>9. SameWork(entry, entry') /\ SameScope(entry, entry') /\ SameSeat(entry, entry')
  BY <1>1, <1>6, <1>7 DEF SameWork, SameScope, SameSeat
<1>10. SrvQuiet /\ SrvOwned /\ StaysAttached
  BY <1>3, <1>7, SrvSame DEF StreamInv, RestType, StaysAttached, Attached
<1>11. LeakInv'
  BY <1>3, <1>7 DEF StreamInv, LeakInv, NothingLeaks
<1>12. PumpInv'
  BY <1>3, <1>7, <1>10 DEF StreamInv, PumpInv, Attached
<1>. QED  BY <1>1, <1>3, <1>5, <1>7, <1>8, <1>9, <1>10, <1>11, <1>12, StreamAlone DEF StreamInv, RestType

LEMMA TakeReplyStream == ASSUME RuntimeInv, RuntimeInv', StreamInv, TakeReply PROVE StreamInv'
<1>1. EntryType(entry) /\ EntryFields \subseteq DOMAIN entry /\ ~entry.bad /\ entry.epoch \in Nat /\ take.expected \in Nat /\ KeyTypes /\ KeyTypes'
  BY DEF StreamInv, EntryType, HonestStreamAccepted, RestType, TakeType, RuntimeInv, KeyInv
<1>2. UNCHANGED <<proc, life, reqs, open, writing, screen, up, down, srv>> /\ take' = NoTake
  BY DEF TakeReply
<1>3. TakeType(take') /\ take'.answer = "none" /\ SrvQuiet /\ SrvOwned
  BY <1>2, SrvSame DEF NoTake, TakeType, StreamInv, RestType
<1>4. ASSUME NEW e, EntryType(e), SameWork(entry, e), SameScope(entry, e), SameSeat(entry, e), e.state = entry.state, e.rev = entry.rev,
             e.pump = entry.pump, e.aborted = entry.aborted, e.bad = entry.bad,
             DOMAIN entry' = DOMAIN e, \A x \in EntryFields \ {"ask", "epoch", "holder"} : entry'[x] = e[x],
             entry'.ask \in Seq(Nat), entry'.epoch \in Nat, entry'.epoch >= entry.epoch, entry'.epoch <= SrvEpoch
      PROVE  StreamInv'
  <2>1. /\ entry'.state = e.state /\ entry'.rev = e.rev /\ entry'.fence = e.fence /\ entry'.mode = e.mode
        /\ entry'.notice = e.notice /\ entry'.acked = e.acked /\ entry'.retired = e.retired
        /\ entry'.view = e.view /\ entry'.out = e.out /\ entry'.pump = e.pump /\ entry'.aborted = e.aborted
        /\ entry'.reqKey = e.reqKey /\ entry'.bad = e.bad /\ entry'.wire = e.wire /\ entry'.inputSeq = e.inputSeq /\ entry'.pend = e.pend
    BY <1>4 DEF EntryFields
  <2>2. EntryType(entry')
    BY <1>4, <2>1 DEF EntryType
  <2>3. SameWork(entry, entry') /\ SameScope(entry, entry') /\ entry'.notice = entry.notice /\ entry'.fence = entry.fence
    BY <1>4, <2>1 DEF SameWork, SameScope, SameSeat
  <2>4. StaysAttached
    BY <1>4, <2>1 DEF StaysAttached, Attached
  <2>5. LeakInv'
    BY <1>2, <1>4, <2>1, <2>3 DEF StreamInv, LeakInv, NothingLeaks
  <2>6. entry.state = "active" => ~entry.aborted
    BY DEF StreamInv, PumpInv
  <2>7. PumpInv'
    <3>1. entry'.state \in {"interrupted", "reconnecting"} /\ proc.ph = "callback" => FALSE
      BY <1>4, <2>1 DEF StreamInv, PumpInv
    <3>2. UNCHANGED <<proc, writing, srv>>
      BY <1>2
    <3>. QED  BY <1>4, <2>1, <2>2, <2>3, <2>4, <2>6, <3>1, <3>2, PumpKeeps
  <2>8. (\A T : Brings(T, 0) /\ Retains(T, 0)) /\ \A T : UpBrings(T, 0)
    BY <1>1, <1>2, StreamSame, UpSame
  <2>9. CoreStep(0, 0)
    BY <1>2, <1>4, <2>1, <2>3, <2>4, <2>8 DEF CoreStep
  <2>10. ViewPart' /\ ReceiptInv'
    BY <1>1, <1>2, <2>3, <2>4, <2>8, <2>9, CoreKeeps, ReceiptKeeps DEF StreamInv
  <2>11. RestType' /\ ProcType(proc') /\ (proc'.ph = "commit" => up' = <<>>)
    BY <1>2, <1>3 DEF StreamInv, RestType, FreshInv
  <2>. QED  BY <1>1, <1>2, <1>3, <1>4, <2>1, <2>2, <2>3, <2>4, <2>5, <2>7, <2>8, <2>10, <2>11, Assembled
<1>5. CASE entry' = entry
  <2>1. entry.ask \in Seq(Nat) /\ entry.epoch >= entry.epoch /\ entry.epoch <= SrvEpoch
    BY <1>1 DEF EntryType, StreamInv, SeatInv
  <2>2. SameWork(entry, entry) /\ SameScope(entry, entry) /\ SameSeat(entry, entry)
    BY <1>1 DEF SameWork, SameScope, SameSeat
  <2>. QED  BY <1>1, <1>4, <1>5, <2>1, <2>2
<1>6. CASE entry' = [entry EXCEPT !.ask = <<>>]
  <2>1. SameWork(entry, entry) /\ SameScope(entry, entry) /\ SameSeat(entry, entry) /\ entry.epoch <= SrvEpoch
    BY <1>1 DEF SameWork, SameScope, SameSeat, StreamInv, SeatInv
  <2>2. DOMAIN entry' = DOMAIN entry /\ (\A x \in EntryFields \ {"ask", "epoch", "holder"} : entry'[x] = entry[x])
        /\ entry'.ask = <<>> /\ entry'.epoch = entry.epoch
    BY <1>1, <1>6 DEF EntryFields
  <2>3. entry'.ask \in Seq(Nat) /\ entry.epoch >= entry.epoch
    BY <1>1, <2>2
  <2>. QED  BY <1>1, <1>4, <2>1, <2>2, <2>3
<1>7. ASSUME take.answer = "committed", take.expected + 1 >= entry.epoch, NEW e, e = (IF take.expected + 1 # entry.epoch THEN Retire(entry) ELSE entry),
             entry' = [e EXCEPT !.epoch = take.expected + 1, !.holder = Me]
      PROVE  StreamInv'
  <2>1. /\ EntryType(e) /\ SameWork(entry, e) /\ SameScope(entry, e) /\ SameSeat(entry, e) /\ e.state = entry.state /\ e.rev = entry.rev
        /\ e.pump = entry.pump /\ e.aborted = entry.aborted /\ e.bad = entry.bad
    <3>1. SameWork(entry, entry) /\ SameScope(entry, entry) /\ SameSeat(entry, entry)
      BY <1>1 DEF SameWork, SameScope, SameSeat
    <3>. QED  BY <1>1, <1>7, <3>1, RetireShape
  <2>2. EntryFields \subseteq DOMAIN e /\ e.ask \in Seq(Nat)
    BY <2>1 DEF EntryType
  <2>3. DOMAIN entry' = DOMAIN e /\ (\A x \in EntryFields \ {"ask", "epoch", "holder"} : entry'[x] = e[x])
        /\ entry'.ask = e.ask /\ entry'.epoch = take.expected + 1
    BY <1>7, <2>2 DEF EntryFields
  <2>4. take.expected + 1 <= SrvEpoch /\ take.expected + 1 \in Nat
    BY <1>1, <1>7 DEF StreamInv, SeatInv
  <2>. QED  BY <1>4, <1>7, <2>1, <2>2, <2>3, <2>4
<1>. QED  BY <1>5, <1>6, <1>7 DEF TakeReply

LEMMA AloneView ==
    ASSUME RuntimeInv, RuntimeInv', StreamInv, UNCHANGED <<entry, writing, screen>>, up' = up \/ srv'.conn = 0, srv'.conn \in {srv.conn, 0},
           srv'.viewN = srv.viewN, Brings(ViewFrames, 0), Retains(ViewFrames, 0), Brings({"acknowledgement"}, 0)
    PROVE  ViewPart' /\ ReceiptInv' /\ StaysAttached
<1>1. KeyTypes /\ KeyTypes' /\ EntryType(entry)
  BY DEF RuntimeInv, KeyInv, StreamInv
<1>2. SameWork(entry, entry') /\ SameScope(entry, entry') /\ StaysAttached /\ \A T : UpBrings(T, 0)
  BY <1>1, EntrySame, UpSame DEF StaysAttached, Attached
<1>3. CoreStep(0, 0)
  BY <1>2 DEF CoreStep
<1>. QED  BY <1>1, <1>2, <1>3, CoreKeeps, ReceiptKeeps DEF StreamInv

\* The frames that tell of a seat are put on the stream, if there is one.
LEMMA SeatTold ==
    ASSUME KeyTypes, NEW a \in Downstream, NEW b \in Downstream, a.t = "writer_epoch", b.t = "control_state",
           down' = IF srv.conn = 0 THEN down ELSE down \o <<a, b>>
    PROVE  /\ \A i \in DOMAIN down : i \in Nat /\ i \in DOMAIN down' /\ down'[i] = down[i]
           /\ \A i \in DOMAIN down' : \/ i \in DOMAIN down
                                      \/ i = Len(down) + 1 /\ down'[i] = a
                                      \/ i = Len(down) + 2 /\ down'[i] = b /\ Len(down) + 1 \in DOMAIN down' /\ down'[Len(down) + 1] = a
                                         /\ Len(down) + 1 < i
           /\ \A T : "writer_epoch" \notin T /\ "control_state" \notin T => Brings(T, 0) /\ Retains(T, 0)
<1>1. down \in Seq(Downstream) /\ DOMAIN down = 1 .. Len(down) /\ Len(down) \in Nat
  BY DEF KeyTypes
<1>2. CASE srv.conn = 0
  <2>1. \A T : Brings(T, 0) /\ Retains(T, 0)
    BY <1>2, StreamSame
  <2>. QED  BY <1>1, <1>2, <2>1
<1>3. CASE srv.conn # 0
  <2>. DEFINE s == <<a, b>>
  <2>1. s \in Seq(Downstream) /\ Len(s) = 2 /\ s[1] = a /\ s[2] = b /\ DOMAIN s = {1, 2} /\ down' = down \o s
    BY <1>1, <1>3
  <2>. HIDE DEF s
  <2>2. Len(down') = Len(down) + 2 /\ DOMAIN down' = 1 .. (Len(down) + 2)
        /\ \A i \in 1 .. (Len(down) + 2) : down'[i] = IF i <= Len(down) THEN down[i] ELSE s[i - Len(down)]
    BY <1>1, <2>1, ConcatProperties, SMTT(30)
  <2>3. \A i \in DOMAIN down : i \in Nat /\ i \in DOMAIN down' /\ down'[i] = down[i]
    BY <1>1, <2>2
  <2>4. Len(down) + 1 \in DOMAIN down' /\ down'[Len(down) + 1] = a
    <3>1. Len(down) + 1 \in 1 .. (Len(down) + 2) /\ ~(Len(down) + 1 <= Len(down)) /\ (Len(down) + 1) - Len(down) = 1
      BY <1>1
    <3>. QED  BY <2>1, <2>2, <3>1
  <2>5. Len(down) + 2 \in DOMAIN down' /\ down'[Len(down) + 2] = b
    <3>1. Len(down) + 2 \in 1 .. (Len(down) + 2) /\ ~(Len(down) + 2 <= Len(down)) /\ (Len(down) + 2) - Len(down) = 2
      BY <1>1
    <3>. QED  BY <2>1, <2>2, <3>1
  <2>6. \A i \in DOMAIN down' : i \in DOMAIN down \/ i = Len(down) + 1 \/ i = Len(down) + 2
    BY <1>1, <2>2
  <2>7. Len(down) + 1 < Len(down) + 2
    BY <1>1
  <2>8. ASSUME NEW T, "writer_epoch" \notin T, "control_state" \notin T
        PROVE  Brings(T, 0) /\ Retains(T, 0)
    <3>1. \A i \in DOMAIN s : s[i].t \notin T
      BY <1>1, <2>1, <2>8
    <3>. QED  BY <2>1, <3>1, FramesAdded
  <2>. QED  BY <2>3, <2>4, <2>5, <2>6, <2>7, <2>8
<1>. QED  BY <1>2, <1>3

LEMMA SeatMoves ==
    ASSUME RuntimeInv, RuntimeInv', StreamInv, UNCHANGED <<entry, proc, life, reqs, open, writing, screen, up>>, SrvEpoch < MaxEpoch,
           NEW c \in {Me, Other}, SrvType(srv'), srv'.hist = Append(srv.hist, c), srv'.conn = srv.conn, srv'.fence = srv.fence,
           srv'.viewN = srv.viewN, SrvOwned, \A e \in srv'.committed : e \in srv.committed \/ e = SrvEpoch,
           TakeType(take'), take'.answer = "committed" => take' = take \/ take'.expected = SrvEpoch,
           NEW m \in {"writer", "observer"}, m = (IF c = Me THEN "writer" ELSE "observer"),
           down' = IF srv.conn = 0 THEN down
                   ELSE down \o <<[t |-> "writer_epoch", epoch |-> SrvEpoch + 1, mode |-> m, holder |-> c],
                                  [t |-> "control_state", epoch |-> SrvEpoch + 1]>>
    PROVE  StreamInv'
<1>1. PICK a, b : /\ a = [t |-> "writer_epoch", epoch |-> SrvEpoch + 1, mode |-> m, holder |-> c]
                  /\ b = [t |-> "control_state", epoch |-> SrvEpoch + 1]
  OBVIOUS
<1>2. /\ a.t = "writer_epoch" /\ a.epoch = SrvEpoch + 1 /\ a.mode = m /\ a.holder = c /\ b.t = "control_state" /\ b.epoch = SrvEpoch + 1
      /\ down' = IF srv.conn = 0 THEN down ELSE down \o <<a, b>>
  BY <1>1
<1>3. /\ srv.hist \in Seq({Me, Other}) /\ SrvEpoch = Len(srv.hist) /\ SrvEpoch \in Nat /\ SrvEpoch' = SrvEpoch + 1
      /\ (\A e \in 1 .. SrvEpoch : srv'.hist[e] = srv.hist[e]) /\ srv'.hist[SrvEpoch + 1] = c /\ MaxEpoch \in Nat
      /\ KeyTypes /\ KeyTypes'
  BY RuntimeConstants DEF StreamInv, RestType, SrvType, SrvEpoch, RuntimeInv, KeyInv
<1>4. /\ \A i \in DOMAIN down : i \in Nat /\ i \in DOMAIN down' /\ down'[i] = down[i]
      /\ \A i \in DOMAIN down' : \/ i \in DOMAIN down
                                 \/ i = Len(down) + 1 /\ down'[i] = a
                                 \/ i = Len(down) + 2 /\ down'[i] = b /\ Len(down) + 1 \in DOMAIN down' /\ down'[Len(down) + 1] = a
                                    /\ Len(down) + 1 < i
      /\ \A T : "writer_epoch" \notin T /\ "control_state" \notin T => Brings(T, 0) /\ Retains(T, 0)
  <2>1. SrvEpoch + 1 \in Nat
    BY <1>3
  <2>2. a \in Downstream /\ b \in Downstream
    BY <1>1, <2>1 DEF Downstream
  <2>. QED  BY <1>2, <1>3, <2>2, SeatTold
<1>5. ViewPart' /\ ReceiptInv'
  <2>1. "writer_epoch" \notin ViewFrames /\ "control_state" \notin ViewFrames
    BY DEF ViewFrames
  <2>2. Brings(ViewFrames, 0) /\ Retains(ViewFrames, 0) /\ Brings({"acknowledgement"}, 0)
    BY <1>4, <2>1
  <2>. QED  BY <2>2, AloneView
<1>6. SeatInv'
  <2>1. \A e \in 1 .. SrvEpoch : ModeAt(e)' = ModeAt(e)
    BY <1>3 DEF ModeAt
  <2>2. m = IF srv'.hist[SrvEpoch + 1] = Me THEN "writer" ELSE "observer"
    BY <1>3
  <2>3. ASSUME NEW i \in DOMAIN down', down'[i].t = "writer_epoch"
        PROVE  /\ down'[i].epoch \in 1 .. SrvEpoch' /\ (down'[i].mode = "writer" => down'[i].holder = Me)
               /\ down'[i].mode = IF srv'.hist[down'[i].epoch] = Me THEN "writer" ELSE "observer"
    <3>1. CASE i \in DOMAIN down
      <4>1. /\ down[i].epoch \in 1 .. SrvEpoch /\ down[i].mode = ModeAt(down[i].epoch) /\ (down[i].mode = "writer" => down[i].holder = Me)
            /\ down'[i] = down[i]
        BY <1>4, <2>3, <3>1 DEF StreamInv, SeatInv
      <4>2. PICK e \in 1 .. SrvEpoch : down[i].epoch = e
        BY <4>1
      <4>3. ModeAt(e) = IF srv'.hist[e] = Me THEN "writer" ELSE "observer"
        BY <1>3 DEF ModeAt
      <4>4. e \in 1 .. SrvEpoch'
        BY <1>3
      <4>. QED  BY <4>1, <4>2, <4>3, <4>4
    <3>2. CASE down'[i] = a
      BY <1>2, <1>3, <2>2, <3>2, SMTT(30)
    <3>3. CASE down'[i] = b
      BY <1>2, <2>3, <3>3
    <3>. QED  BY <1>4, <3>1, <3>2, <3>3
  <2>4. /\ SrvEpoch' \in 1 .. MaxEpoch /\ entry'.epoch <= SrvEpoch' /\ proc'.epoch <= SrvEpoch'
    <3>1. entry.epoch \in Nat /\ proc.epoch \in Nat /\ entry.epoch <= SrvEpoch /\ proc.epoch <= SrvEpoch
      BY DEF StreamInv, EntryType, ProcType, SeatInv
    <3>. QED  BY <1>3, <3>1
  <2>5. \A e \in srv'.committed : e + 1 <= SrvEpoch'
    <3>1. \A e \in srv.committed : e \in Nat /\ e + 1 <= SrvEpoch
      BY DEF StreamInv, SeatInv, RestType, SrvType
    <3>. QED  BY <1>3, <3>1
  <2>6. take'.answer = "committed" => take'.expected + 1 <= SrvEpoch'
    <3>1. take.answer = "committed" => take.expected + 1 <= SrvEpoch
      BY DEF StreamInv, SeatInv
    <3>2. take'.expected \in Nat
      BY DEF TakeType
    <3>. QED  BY <1>3, <3>1, <3>2
  <2>7. entry'.notice[1] # 0 => entry'.notice[1] \in 1 .. SrvEpoch' /\ entry'.notice[2] = IF srv'.hist[entry'.notice[1]] = Me THEN "writer" ELSE "observer"
    BY <1>3 DEF StreamInv, SeatInv, ModeAt
  <2>. QED  BY <2>3, <2>4, <2>5, <2>6, <2>7, ZenonT(60) DEF SeatInv, ModeAt
<1>7. GeometryInv'
  <2>1. (Attached' <=> Attached) /\ UNCHANGED <<entry, proc>>
    BY DEF Attached
  <2>2. ASSUME Attached \/ proc.ph = "commit", NEW i \in DOMAIN down', down'[i].t = "control_state"
        PROVE  (\E j \in DOMAIN down' : j < i /\ down'[j].t = "writer_epoch" /\ down'[j].epoch = down'[i].epoch) \/ (Attached /\ down'[i].epoch <= entry.epoch)
    <3>1. CASE i \in DOMAIN down
      <4>1. down'[i] = down[i] /\ (Announced(i) \/ (Attached /\ down[i].epoch <= entry.epoch))
        BY <1>4, <2>2, <3>1 DEF StreamInv, GeometryInv
      <4>. QED  BY <1>4, <4>1 DEF Announced
    <3>2. CASE down'[i] = a
      BY <1>2, <2>2, <3>2
    <3>3. CASE i = Len(down) + 2 /\ down'[i] = b /\ Len(down) + 1 \in DOMAIN down' /\ down'[Len(down) + 1] = a /\ Len(down) + 1 < i
      BY <1>2, <3>3
    <3>. QED  BY <1>4, <3>1, <3>2, <3>3
  <2>. QED  BY <2>1, <2>2, ZenonT(60) DEF GeometryInv, Announced
<1>8. FreshInv'
  <2>1. SUFFICES ASSUME proc.ph = "commit"
                 PROVE  /\ up' = <<>> /\ srv'.viewN = 0
                        /\ \A i \in DOMAIN down' : down'[i].t \in {"writer_epoch", "control_state"}
                        /\ proc.mode \in {"writer", "observer"}
                        /\ proc.mode = "writer" => proc.epoch \in 1 .. SrvEpoch' /\ srv'.hist[proc.epoch] = Me
    BY DEF FreshInv
  <2>2. \A i \in DOMAIN down' : down'[i].t \in {"writer_epoch", "control_state"}
    BY <1>2, <1>4, <2>1 DEF StreamInv, FreshInv
  <2>. QED  BY <1>3, <2>1, <2>2 DEF StreamInv, FreshInv
<1>9. LeakInv'
  BY DEF StreamInv, LeakInv, NothingLeaks, SrvOwned
<1>10. PumpInv'
  BY DEF StreamInv, PumpInv, Attached
<1>11. RestType' /\ EntryType(entry') /\ ProcType(proc') /\ ~entry'.bad
  BY DEF StreamInv, RestType, HonestStreamAccepted
<1>. QED  BY <1>5, <1>6, <1>7, <1>8, <1>9, <1>10, <1>11 DEF StreamInv, HonestStreamAccepted, ViewPart

LEMMA TakeSendStream == ASSUME RuntimeInv, RuntimeInv', StreamInv, TakeSend PROVE StreamInv'
<1>. DEFINE current == life = "open" /\ entry.state = "active" /\ entry.rev = take.rev /\ entry.ask = <<take.expected>>
            fresh == SrvEpoch = take.expected /\ SrvWriter # Me /\ SrvEpoch < MaxEpoch
            again == take.expected \in srv.committed
<1>1. UNCHANGED <<entry, proc, life, reqs, open, writing, screen, up>> /\ SrvType(srv) /\ TakeType(take) /\ KeyTypes /\ KeyTypes'
      /\ EntryType(entry) /\ ~entry.bad /\ ProcType(proc)
  BY DEF TakeSend, StreamInv, RestType, RuntimeInv, KeyInv, HonestStreamAccepted
<1>2. ASSUME UNCHANGED <<srv, down>>, take' = NoTake \/ (take' = [take EXCEPT !.ph = "reply", !.answer = IF again THEN "committed" ELSE "stale"])
      PROVE  StreamInv'
  <2>1. TakeType(take') /\ (take'.answer = "committed" => take'.expected + 1 <= SrvEpoch)
    <3>1. CASE take' = NoTake
      BY <3>1 DEF NoTake, TakeType
    <3>2. CASE take' = [take EXCEPT !.ph = "reply", !.answer = IF again THEN "committed" ELSE "stale"]
      <4>1. DOMAIN take' = DOMAIN take /\ take'.expected = take.expected /\ (take'.answer = "committed" => again)
        BY <1>1, <3>2 DEF TakeType
      <4>2. again => take.expected + 1 <= SrvEpoch
        BY DEF StreamInv, SeatInv
      <4>. QED  BY <1>1, <4>1, <4>2 DEF TakeType
    <3>. QED  BY <1>2, <3>1, <3>2
  <2>2. \A T : Brings(T, 0) /\ Retains(T, 0)
    BY <1>1, <1>2, StreamSame
  <2>3. ViewPart' /\ ReceiptInv' /\ StaysAttached
    BY <1>1, <1>2, <2>2, AloneView
  <2>4. LeakInv' /\ PumpInv' /\ RestType' /\ SameSeat(entry, entry')
    BY <1>1, <1>2, <2>1 DEF StreamInv, LeakInv, NothingLeaks, PumpInv, Attached, RestType, SameSeat
  <2>5. proc.ph = "commit" => up' = <<>>
    BY <1>1 DEF StreamInv, FreshInv
  <2>. QED  BY <1>1, <1>2, <2>1, <2>2, <2>3, <2>4, <2>5, Assembled
<1>3. ASSUME fresh, srv' = [srv EXCEPT !.hist = Append(@, Me), !.committed = @ \cup {take.expected}],
             down' = IF srv.conn = 0 THEN down
                     ELSE down \o <<[t |-> "writer_epoch", epoch |-> SrvEpoch + 1, mode |-> "writer", holder |-> Me],
                                    [t |-> "control_state", epoch |-> SrvEpoch + 1]>>,
             take' = [take EXCEPT !.ph = "reply", !.answer = "committed"]
      PROVE  StreamInv'
  <2>1. /\ DOMAIN srv' = DOMAIN srv /\ \A x \in SrvFields \ {"hist", "committed"} : srv'[x] = srv[x]
        /\ srv'.hist = Append(srv.hist, Me) /\ srv'.committed = srv.committed \cup {take.expected}
    BY <1>1, <1>3 DEF SrvType, SrvFields
  <2>2. /\ srv'.fence = srv.fence /\ srv'.process = srv.process /\ srv'.used = srv.used /\ srv'.conn = srv.conn
        /\ srv'.viewN = srv.viewN /\ srv'.issued = srv.issued /\ srv'.redeemed = srv.redeemed /\ srv'.cancelled = srv.cancelled
    BY <2>1 DEF SrvFields
  <2>3. Append(srv.hist, Me) \in Seq({Me, Other}) /\ Me \in {Me, Other} /\ take.expected \in Nat
    BY <1>1 DEF SrvType, TakeType
  <2>4. SrvType(srv') /\ SrvOwned
    BY <1>1, <2>1, <2>2, <2>3 DEF SrvType, SrvOwned
  <2>5. TakeType(take') /\ take'.expected = take.expected /\ take.expected = SrvEpoch
    BY <1>1, <1>3 DEF TakeType
  <2>6. \A e \in srv'.committed : e \in srv.committed \/ e = SrvEpoch
    BY <2>1, <2>5
  <2>7. "writer" \in {"writer", "observer"} /\ "writer" = (IF Me = Me THEN "writer" ELSE "observer")
    OBVIOUS
  <2>. QED  BY <1>1, <1>3, <2>1, <2>2, <2>3, <2>4, <2>5, <2>6, <2>7, SeatMoves
<1>. QED  BY <1>2, <1>3 DEF TakeSend

LEMMA RivalTakesStream == ASSUME RuntimeInv, RuntimeInv', StreamInv, RivalTakes PROVE StreamInv'
<1>1. UNCHANGED <<entry, proc, life, reqs, open, writing, screen, up, take>> /\ SrvType(srv) /\ SrvEpoch < MaxEpoch /\ TakeType(take)
      /\ srv' = [srv EXCEPT !.hist = Append(@, Other)]
      /\ down' = IF srv.conn = 0 THEN down
                 ELSE down \o <<[t |-> "writer_epoch", epoch |-> SrvEpoch + 1, mode |-> "observer", holder |-> Other],
                                [t |-> "control_state", epoch |-> SrvEpoch + 1]>>
  BY DEF RivalTakes, StreamInv, RestType
<1>2. /\ DOMAIN srv' = DOMAIN srv /\ \A x \in SrvFields \ {"hist"} : srv'[x] = srv[x]
      /\ srv'.hist = Append(srv.hist, Other)
  BY <1>1 DEF SrvType, SrvFields
<1>3. /\ srv'.fence = srv.fence /\ srv'.process = srv.process /\ srv'.used = srv.used /\ srv'.conn = srv.conn /\ srv'.committed = srv.committed
      /\ srv'.viewN = srv.viewN /\ srv'.issued = srv.issued /\ srv'.redeemed = srv.redeemed /\ srv'.cancelled = srv.cancelled
  BY <1>2 DEF SrvFields
<1>4. Append(srv.hist, Other) \in Seq({Me, Other}) /\ Other \in {Me, Other}
  BY <1>1 DEF SrvType
<1>5. SrvType(srv') /\ SrvOwned
  BY <1>1, <1>2, <1>3, <1>4 DEF SrvType, SrvOwned
<1>6. "observer" \in {"writer", "observer"} /\ "observer" = (IF Other = Me THEN "writer" ELSE "observer")
  BY DEF Me, Other
<1>. QED  BY <1>1, <1>2, <1>3, <1>4, <1>5, <1>6, SeatMoves

LEMMA ProcessEndsStream == ASSUME RuntimeInv, RuntimeInv', StreamInv, ProcessEnds PROVE StreamInv'
<1>0. SrvType(srv) /\ KeyTypes /\ KeyTypes' /\ EntryType(entry) /\ ~entry.bad /\ ProcType(proc) /\ TakeType(take)
  BY DEF StreamInv, RestType, RuntimeInv, KeyInv, HonestStreamAccepted
<1>1. UNCHANGED <<entry, proc, life, reqs, open, writing, screen, up, take>>
      /\ srv' = [srv EXCEPT !.process = 2]
      /\ down' = IF srv.conn # 0 /\ srv.viewN > 0 THEN Append(down, [t |-> "exit"]) ELSE down
  BY DEF ProcessEnds
<1>2. /\ DOMAIN srv' = DOMAIN srv /\ \A x \in SrvFields \ {"process"} : srv'[x] = srv[x]
  BY <1>0, <1>1 DEF SrvType, SrvFields
<1>3. /\ srv'.fence = srv.fence /\ srv'.hist = srv.hist /\ srv'.used = srv.used /\ srv'.conn = srv.conn /\ srv'.committed = srv.committed
      /\ srv'.viewN = srv.viewN /\ srv'.issued = srv.issued /\ srv'.redeemed = srv.redeemed /\ srv'.cancelled = srv.cancelled
  BY <1>2 DEF SrvFields
<1>4. SrvType(srv')
  BY <1>0, <1>2, <1>3 DEF SrvType
<1>5. ASSUME NEW T, "exit" \notin T \/ down' = down
      PROVE  Brings(T, 0) /\ Retains(T, 0)
  <2>1. CASE down' = down
    BY <1>0, <2>1, StreamSame
  <2>2. CASE down' = Append(down, [t |-> "exit"]) /\ "exit" \notin T
    <3>1. [t |-> "exit"] \in Downstream /\ down \in Seq(Downstream)
      BY <1>0 DEF Downstream, KeyTypes
    <3>2. down' = down \o <<[t |-> "exit"]>> /\ <<[t |-> "exit"]>> \in Seq(Downstream)
      BY <2>2, <3>1, AppendIsConcat
    <3>3. \A i \in DOMAIN <<[t |-> "exit"]>> : <<[t |-> "exit"]>>[i].t \notin T
      BY <2>2
    <3>. QED  BY <1>0, <3>2, <3>3, FramesAdded
  <2>3. down' = down \/ down' = Append(down, [t |-> "exit"])
    BY <1>1
  <2>. QED  BY <1>5, <2>1, <2>2, <2>3
<1>6. /\ Brings(ViewFrames, 0) /\ Retains(ViewFrames, 0) /\ Brings({"acknowledgement"}, 0)
      /\ Brings({"control_state", "writer_epoch"}, 0) /\ Retains({"writer_epoch"}, 0)
  BY <1>5 DEF ViewFrames
<1>7. proc.ph = "commit" => up' = <<>> /\ Brings(AllFrames, 0)
  <2>1. proc.ph = "commit" => srv.viewN = 0 /\ up = <<>>
    BY DEF StreamInv, FreshInv
  <2>2. srv.viewN = 0 => down' = down
    BY <1>1
  <2>. QED  BY <1>0, <1>1, <2>1, <2>2, StreamSame
<1>8. ViewPart' /\ ReceiptInv' /\ StaysAttached
  BY <1>1, <1>3, <1>6, AloneView
<1>9. LeakInv' /\ PumpInv' /\ RestType' /\ SameSeat(entry, entry')
  <2>1. LeakInv'
    BY <1>1, <1>3 DEF StreamInv, LeakInv, NothingLeaks
  <2>2. PumpInv'
    BY <1>1, <1>3 DEF StreamInv, PumpInv, Attached
  <2>3. RestType' /\ SameSeat(entry, entry')
    BY <1>1, <1>4 DEF StreamInv, RestType, SameSeat
  <2>. QED  BY <2>1, <2>2, <2>3
<1>. QED  BY <1>0, <1>1, <1>3, <1>6, <1>7, <1>8, <1>9, Assembled

LEMMA TransportDropsStream == ASSUME RuntimeInv, RuntimeInv', StreamInv, TransportDrops PROVE StreamInv'
<1>1. UNCHANGED <<entry, proc, life, reqs, open, writing, screen, take>> /\ SrvType(srv) /\ KeyTypes /\ KeyTypes'
      /\ srv' = [srv EXCEPT !.conn = 0] /\ up' = <<>>
      /\ EntryType(entry) /\ ~entry.bad /\ ProcType(proc) /\ TakeType(take)
  BY DEF TransportDrops, StreamInv, RestType, RuntimeInv, KeyInv, HonestStreamAccepted
<1>2. PICK n \in 0 .. Len(down) : down' = SubSeq(down, 1, n)
  BY DEF TransportDrops
<1>3. /\ DOMAIN srv' = DOMAIN srv /\ (\A x \in SrvFields \ {"conn"} : srv'[x] = srv[x]) /\ srv'.conn = 0
  BY <1>1 DEF SrvType, SrvFields
<1>4. /\ srv'.fence = srv.fence /\ srv'.hist = srv.hist /\ srv'.used = srv.used /\ srv'.committed = srv.committed
      /\ srv'.viewN = srv.viewN /\ srv'.issued = srv.issued /\ srv'.redeemed = srv.redeemed /\ srv'.cancelled = srv.cancelled
  BY <1>3 DEF SrvFields
<1>5. SrvType(srv')
  BY <1>1, <1>3, <1>4 DEF SrvType
<1>6. \A T : Brings(T, 0) /\ Retains(T, 0)
  BY <1>1, <1>2, <1>3, StreamCut
<1>7. ViewPart' /\ ReceiptInv' /\ StaysAttached
  BY <1>1, <1>3, <1>4, <1>6, AloneView
<1>8. LeakInv' /\ PumpInv' /\ RestType' /\ SameSeat(entry, entry')
  BY <1>1, <1>3, <1>4, <1>5 DEF StreamInv, LeakInv, NothingLeaks, PumpInv, Attached, RestType, SameSeat
<1>. QED  BY <1>1, <1>4, <1>6, <1>7, <1>8, Assembled

-----------------------------------------------------------------------------
(* A frame is read *)

LEMMA FrameFacts ==
    ASSUME RuntimeInv, StreamInv, NEW t, Frame(t)
    PROVE  /\ Live /\ Attached /\ down # <<>> /\ Head(down) = down[1] /\ Head(down).t = t /\ 1 \in DOMAIN down /\ down[1] \in Downstream
           /\ KeyTypes /\ proc.kind = "none" /\ proc.ph = "none" /\ proc.fence = 0 /\ entry.state \in {"active", "interrupted"}
           /\ (writing = NoWrite \/ writing.fence # entry.fence) /\ EntryType(entry) /\ ~entry.bad
<1>1. Live /\ down # <<>> /\ Head(down).t = t /\ entry.state \in {"active", "interrupted"}
      /\ (writing = NoWrite \/ writing.fence # entry.fence)
  BY DEF Frame, Pumping, Live
<1>2. KeyTypes /\ EntryType(entry) /\ ~entry.bad
  BY DEF RuntimeInv, KeyInv, StreamInv, HonestStreamAccepted
<1>3. Attached
  BY <1>1 DEF Live, Attached
<1>4. Head(down) = down[1] /\ 1 \in DOMAIN down /\ down[1] \in Downstream
  BY <1>1, <1>2, TailIs DEF KeyTypes
<1>5. proc.kind = "none"
  <2>1. entry.pump # 0 /\ entry.pump = entry.rev /\ entry.rev \in Nat
    BY <1>1, <1>2 DEF Live, EntryType
  <2>. QED  BY <2>1 DEF StreamInv, PumpInv
<1>6. proc.ph = "none" /\ proc.fence = 0
  BY <1>5 DEF RuntimeInv, ProcInv, StreamInv, LeakInv
<1>. QED  BY <1>1, <1>2, <1>3, <1>4, <1>5, <1>6

\* The entry after a frame that does not end its connection.
SamePlace(e) ==
    /\ e.state = entry.state /\ e.fence = entry.fence /\ e.rev = entry.rev /\ e.pump = entry.pump /\ e.aborted = entry.aborted

LEMMA FrameStream ==
    ASSUME RuntimeInv, StreamInv, NEW t, Frame(t), NEW e, Apply(e), EntryType(e), SamePlace(e),
           writing' \in [n : 0 .. MaxOut, fence : Nat], writing'.fence <= srv.fence
    PROVE  /\ entry' = e /\ UNCHANGED <<proc, life, reqs, open, up, take, srv>> /\ down' = Tail(down)
           /\ LeakInv' /\ PumpInv' /\ FreshInv' /\ (Attached' <=> Attached)
           /\ (\A T : Brings(T, 1) /\ (t \notin T => Retains(T, 1))) /\ (\A T : UpBrings(T, 0))
<1>1. /\ Attached /\ down # <<>> /\ Head(down).t = t /\ KeyTypes /\ proc.kind = "none" /\ proc.ph = "none"
      /\ entry.state \in {"active", "interrupted"}
  BY FrameFacts
<1>2. entry' = e /\ UNCHANGED <<proc, life, reqs, open, up, take, srv>> /\ down' = Tail(down)
  BY <1>1 DEF Apply, SamePlace
<1>3. (\A T : Brings(T, 1) /\ (t \notin T => Retains(T, 1))) /\ \A T : UpBrings(T, 0)
  BY <1>1, <1>2, FrameTaken, UpSame
<1>4. LeakInv'
  BY <1>2 DEF StreamInv, LeakInv, NothingLeaks, SamePlace
<1>5. Attached' <=> Attached
  BY <1>2 DEF Attached, SamePlace
<1>6. FreshInv'
  BY <1>1, <1>2 DEF FreshInv
<1>7. PumpInv'
  BY <1>1, <1>2, <1>5 DEF StreamInv, PumpInv, SamePlace
<1>. QED  BY <1>2, <1>3, <1>4, <1>5, <1>6, <1>7

LEMMA FirstPlace == ASSUME KeyTypes PROVE \A j \in DOMAIN down : ~(j < 1)
BY DEF KeyTypes

LEMMA WritingKept ==
    ASSUME StreamInv, UNCHANGED writing
    PROVE  writing' \in [n : 0 .. MaxOut, fence : Nat] /\ writing'.fence <= srv.fence
BY DEF StreamInv, RestType, PumpInv

LEMMA SamePlaceSame == SamePlace(entry)
BY DEF SamePlace

\* A frame that changes nothing.
LEMMA PassedOver ==
    ASSUME RuntimeInv, RuntimeInv', StreamInv, NEW t, Frame(t), Apply(entry), UNCHANGED <<writing, screen>>,
           t \notin ViewFrames \cup {"writer_epoch"}
    PROVE  StreamInv'
<1>1. KeyTypes /\ KeyTypes' /\ EntryType(entry) /\ ~entry.bad /\ proc.ph = "none"
  BY FrameFacts DEF RuntimeInv, KeyInv
<1>2. /\ entry' = entry /\ UNCHANGED <<proc, life, reqs, open, up, take, srv>> /\ down' = Tail(down)
      /\ LeakInv' /\ PumpInv' /\ (Attached' <=> Attached)
      /\ (\A T : Brings(T, 1) /\ (t \notin T => Retains(T, 1))) /\ (\A T : UpBrings(T, 0))
  BY <1>1, WritingKept, SamePlaceSame, FrameStream
<1>3. /\ EntryType(entry') /\ SameWork(entry, entry') /\ SameScope(entry, entry') /\ SameSeat(entry, entry')
  BY <1>1, <1>2, EntrySame
<1>4. SrvQuiet
  BY <1>2, SrvSame DEF StreamInv, RestType
<1>5. Retains(ViewFrames, 1) /\ Retains({"writer_epoch"}, 1)
  BY <1>2
<1>6. CoreStep(1, 0)
  BY <1>2, <1>3, <1>5 DEF CoreStep, StaysAttached
<1>. QED  BY <1>1, <1>2, <1>3, <1>4, <1>5, <1>6, QuietStream DEF StreamInv, RestType

LEMMA OnGeometryStream == ASSUME RuntimeInv, RuntimeInv', StreamInv, OnGeometry PROVE StreamInv'
<1>1. Frame("control_state") /\ UNCHANGED <<screen, writing>>
      /\ Apply(IF Head(down).epoch > entry.epoch THEN ProtocolFailure(entry) ELSE entry)
  BY DEF OnGeometry
<1>2. /\ Attached /\ Head(down) = down[1] /\ down[1].t = "control_state" /\ 1 \in DOMAIN down /\ KeyTypes /\ EntryType(entry)
  BY <1>1, FrameFacts
<1>3. ~(Head(down).epoch > entry.epoch)
  <2>1. ~Announced(1)
    BY <1>2, Places, FirstPlace DEF Announced
  <2>2. down[1].epoch <= entry.epoch /\ down[1].epoch \in Nat /\ entry.epoch \in Nat
    BY <1>2, <2>1, FrameNumbers DEF StreamInv, GeometryInv, EntryType
  <2>. QED  BY <1>2, <2>2
<1>4. "control_state" \notin ViewFrames \cup {"writer_epoch"}
  BY DEF ViewFrames
<1>. QED  BY <1>1, <1>3, <1>4, PassedOver

\* A receipt certifies the input it names, and what is under way is after it.
LEMMA CertifyingStream ==
    ASSUME RuntimeInv, RuntimeInv', StreamInv, Frame("acknowledgement"), NEW n \in Nat, n = Head(down).n, n \in entry.pend, n > entry.acked,
           NEW e, Apply(e), DOMAIN e = DOMAIN entry, \A x \in EntryFields \ {"pend", "acked", "cont"} : e[x] = entry[x],
           e.pend = {p \in entry.pend : p > n}, e.acked = n, UNCHANGED <<screen, writing>>
    PROVE  StreamInv'
<1>1. /\ KeyTypes /\ KeyTypes' /\ EntryType(entry) /\ ~entry.bad /\ proc.ph = "none" /\ Attached
      /\ Head(down) = down[1] /\ 1 \in DOMAIN down /\ down[1].t = "acknowledgement"
  BY FrameFacts DEF RuntimeInv, KeyInv
<1>2. /\ e.state = entry.state /\ e.rev = entry.rev /\ e.fence = entry.fence /\ e.mode = entry.mode
      /\ e.epoch = entry.epoch /\ e.notice = entry.notice /\ e.wire = entry.wire /\ e.inputSeq = entry.inputSeq
      /\ e.retired = entry.retired /\ e.view = entry.view /\ e.out = entry.out /\ e.pump = entry.pump
      /\ e.aborted = entry.aborted /\ e.reqKey = entry.reqKey /\ e.ask = entry.ask /\ e.bad = entry.bad
  BY DEF EntryFields
<1>3. e.pend \subseteq entry.pend /\ e.pend \subseteq Nat
  BY <1>1 DEF EntryType
<1>4. IsFiniteSet(e.pend) /\ Cardinality(e.pend) <= Window
  BY <1>1, <1>3, FewerPending DEF EntryType
<1>5. EntryType(e)
  BY <1>1, <1>2, <1>3, <1>4 DEF EntryType
<1>6. SamePlace(e) /\ SameWork(entry, e) /\ SameSeat(entry, e)
  BY <1>1, <1>2 DEF SamePlace, SameWork, SameSeat, EntryType
<1>7. /\ entry' = e /\ UNCHANGED <<proc, life, reqs, open, up, take, srv>> /\ down' = Tail(down)
      /\ LeakInv' /\ PumpInv' /\ (Attached' <=> Attached)
      /\ (\A T : Brings(T, 1) /\ ("acknowledgement" \notin T => Retains(T, 1))) /\ (\A T : UpBrings(T, 0))
  BY <1>5, <1>6, WritingKept, FrameStream
<1>8. Retains(ViewFrames, 1) /\ Retains({"writer_epoch"}, 1)
  BY <1>7 DEF ViewFrames
<1>9. ViewPart'
  <2>1. CoreStep(1, 0)
    BY <1>2, <1>6, <1>7, <1>8 DEF CoreStep, StaysAttached
  <2>. QED  BY <1>1, <2>1, CoreKeeps
<1>10. ReceiptInv'
  <2>1. /\ entry.inputSeq \in Nat /\ entry.acked \in Nat /\ entry.retired \in Nat /\ entry.pend \subseteq Nat /\ entry.wire \in Nat
        /\ entry.inputSeq <= entry.wire /\ entry.retired <= entry.wire /\ \A p \in entry.pend : p <= entry.inputSeq
    BY <1>1 DEF EntryType, StreamInv, ReceiptInv
  <2>2. /\ e.inputSeq <= e.wire /\ e.acked <= e.wire /\ e.retired <= e.wire /\ \A p \in e.pend : p <= e.inputSeq
    BY <1>2, <1>3, <2>1
  <2>. DEFINE DueThen(m) == m <= e.retired \/ (m \in e.pend /\ m > e.acked)
  <2>3. \A m \in Nat : Due(m) /\ n < m => DueThen(m)
    BY <1>2, <2>1 DEF Due
  <2>. HIDE DEF DueThen
  <2>4. /\ \A i \in DOMAIN down : i \in Nat /\ (IsReceipt(i) => Due(down[i].n) /\ down[i].n \in Nat)
        /\ \A i, j \in DOMAIN down : i < j /\ IsReceipt(i) /\ IsReceipt(j) => down[i].n < down[j].n
        /\ srv.conn # 0 =>
              /\ \A i \in DOMAIN up : IsInput(i) => Due(up[i].seq) /\ up[i].seq \in Nat
              /\ \A i, j \in DOMAIN up : i < j /\ IsInput(i) /\ IsInput(j) => up[i].seq < up[j].seq
              /\ \A i \in DOMAIN down, j \in DOMAIN up : IsReceipt(i) /\ IsInput(j) => down[i].n < up[j].seq
    BY <1>1, FrameNumbers DEF StreamInv, ReceiptInv, IsReceipt
  <2>5. IsReceipt(1) /\ n = down[1].n
    BY <1>1 DEF IsReceipt
  <2>6. \A i \in DOMAIN down' : i \in Nat /\ (IsReceipt(i)' => i + 1 \in DOMAIN down /\ down'[i] = down[i + 1] /\ IsReceipt(i + 1) /\ 1 < i + 1)
    <3>1. Brings({"acknowledgement"}, 1)
      BY <1>7
    <3>2. \A i \in DOMAIN down' : i \in Nat /\ 1 <= i
      <4>1. down' \in Seq(Downstream)
        BY <1>1 DEF KeyTypes
      <4>2. DOMAIN down' = 1 .. Len(down')
        BY <4>1
      <4>. QED  BY <4>2
    <3>. QED  BY <3>1, <3>2 DEF Brings, IsReceipt
  <2>7. \A i \in DOMAIN down' : IsReceipt(i)' => DueThen(down'[i].n)
    <3>1. SUFFICES ASSUME NEW i \in DOMAIN down', IsReceipt(i)'
                   PROVE  DueThen(down'[i].n)
      OBVIOUS
    <3>2. i + 1 \in DOMAIN down /\ down'[i] = down[i + 1] /\ IsReceipt(i + 1) /\ 1 < i + 1
      BY <2>6, <3>1
    <3>3. n < down[i + 1].n
      BY <1>1, <2>4, <2>5, <3>2
    <3>. QED  BY <2>3, <2>4, <3>2, <3>3
  <2>8. \A i, j \in DOMAIN down' : i < j /\ IsReceipt(i)' /\ IsReceipt(j)' => down'[i].n < down'[j].n
    <3>1. SUFFICES ASSUME NEW i \in DOMAIN down', NEW j \in DOMAIN down', i < j, IsReceipt(i)', IsReceipt(j)'
                   PROVE  down'[i].n < down'[j].n
      OBVIOUS
    <3>2. i + 1 < j + 1
      BY <2>6, <3>1
    <3>. QED  BY <2>4, <2>6, <3>1, <3>2
  <2>9. srv'.conn # 0 =>
            /\ \A i \in DOMAIN up' : IsInput(i)' => DueThen(up'[i].seq)
            /\ \A i, j \in DOMAIN up' : i < j /\ IsInput(i)' /\ IsInput(j)' => up'[i].seq < up'[j].seq
            /\ \A i \in DOMAIN down', j \in DOMAIN up' : IsReceipt(i)' /\ IsInput(j)' => down'[i].n < up'[j].seq
    <3>1. up' = up /\ srv' = srv /\ \A i : IsInput(i)' <=> IsInput(i)
      BY <1>7 DEF IsInput
    <3>2. srv.conn # 0 => \A i \in DOMAIN up : IsInput(i) => n < up[i].seq
      BY <1>1, <2>4, <2>5
    <3>3. srv.conn # 0 => \A i \in DOMAIN up : IsInput(i) => DueThen(up[i].seq)
      BY <2>3, <2>4, <3>2
    <3>4. srv.conn # 0 => \A i \in DOMAIN down', j \in DOMAIN up : IsReceipt(i)' /\ IsInput(j) => down'[i].n < up[j].seq
      BY <2>4, <2>6
    <3>. QED  BY <2>4, <3>1, <3>3, <3>4
  <2>. QED  BY <1>7, <2>2, <2>7, <2>8, <2>9 DEF ReceiptInv, Due, DueThen
<1>11. RestType'
  BY <1>7 DEF StreamInv, RestType
<1>. QED  BY <1>1, <1>2, <1>5, <1>6, <1>7, <1>8, <1>9, <1>10, <1>11, Assembled DEF StaysAttached, StreamInv

LEMMA OnAcknowledgementStream == ASSUME RuntimeInv, RuntimeInv', StreamInv, OnAcknowledgement PROVE StreamInv'
<1>1. PICK n : n = Head(down).n
  OBVIOUS
<1>2. PICK e : e = [entry EXCEPT !.pend = {p \in entry.pend : p > n}, !.acked = n,
                       !.cont = IF {p \in entry.pend : p > n} = {} /\ ~entry.hist THEN "complete" ELSE "uncertain"]
  OBVIOUS
<1>3. Frame("acknowledgement") /\ UNCHANGED <<screen, writing>>
      /\ Apply(IF RetiredReceipt(n) THEN entry ELSE IF n <= entry.acked \/ n \notin entry.pend THEN ProtocolFailure(entry) ELSE e)
  BY <1>1, <1>2 DEF OnAcknowledgement
<1>4. /\ Attached /\ Head(down) = down[1] /\ down[1].t = "acknowledgement" /\ 1 \in DOMAIN down /\ KeyTypes /\ EntryType(entry)
  BY <1>3, FrameFacts
<1>5. Due(n) /\ n \in Nat /\ entry.acked \in Nat /\ EntryFields \subseteq DOMAIN entry
  BY <1>1, <1>4, FrameNumbers DEF StreamInv, ReceiptInv, IsReceipt, EntryType
<1>6. CASE RetiredReceipt(n)
  BY <1>3, <1>6, PassedOver DEF ViewFrames
<1>7. CASE ~RetiredReceipt(n)
  <2>1. n \in entry.pend /\ n > entry.acked /\ ~(n <= entry.acked)
    BY <1>5, <1>7 DEF Due, RetiredReceipt
  <2>2. Apply(e)
    BY <1>3, <1>7, <2>1
  <2>3. DOMAIN e = DOMAIN entry /\ (\A x \in EntryFields \ {"pend", "acked", "cont"} : e[x] = entry[x])
        /\ e.pend = {p \in entry.pend : p > n} /\ e.acked = n
    BY <1>2, <1>5 DEF EntryFields
  <2>. QED  BY <1>1, <1>3, <1>5, <2>1, <2>2, <2>3, CertifyingStream
<1>. QED  BY <1>6, <1>7

-----------------------------------------------------------------------------
(* The view is read *)

\* What a frame of the view leaves, when the rest is shown.
LEMMA ViewFrameStream ==
    ASSUME RuntimeInv, RuntimeInv', StreamInv, NEW t, t \in ViewFrames, Frame(t), NEW e, Apply(e), EntryType(e), ~e.bad, SamePlace(e),
           SameScope(entry, e), SameSeat(entry, e), writing' \in [n : 0 .. MaxOut, fence : Nat], writing'.fence <= srv.fence,
           screen' \in Seq(Nat), ViewInv', GatewayInv', ScreenInv'
    PROVE  StreamInv'
<1>1. KeyTypes /\ KeyTypes' /\ EntryType(entry) /\ proc.ph = "none" /\ Attached
  BY FrameFacts DEF RuntimeInv, KeyInv
<1>2. /\ entry' = e /\ UNCHANGED <<proc, life, reqs, open, up, take, srv>> /\ down' = Tail(down)
      /\ LeakInv' /\ PumpInv' /\ (Attached' <=> Attached)
      /\ (\A T : Brings(T, 1) /\ (t \notin T => Retains(T, 1))) /\ (\A T : UpBrings(T, 0))
  BY FrameStream
<1>3. ReceiptInv'
  <2>1. Brings({"acknowledgement"}, 1) /\ UpBrings({"input"}, 0) /\ StaysAttached /\ SameScope(entry, entry') /\ ReceiptInv
    BY <1>1, <1>2 DEF StaysAttached, StreamInv
  <2>. QED  BY <1>1, <1>2, <2>1, ReceiptKeeps
<1>4. OutputsBounded'
  <2>1. \A i \in DOMAIN down' : IsOutput(i)' => i + 1 \in DOMAIN down /\ IsOutput(i + 1) /\ down'[i] = down[i + 1]
    <3>1. Brings({"output"}, 1)
      BY <1>2
    <3>. QED  BY <3>1 DEF Brings, IsOutput
  <2>. QED  BY <2>1 DEF StreamInv, OutputsBounded
<1>5. ViewPart'
  BY <1>4 DEF ViewPart
<1>6. RestType'
  BY <1>2 DEF StreamInv, RestType
<1>7. Retains({"writer_epoch"}, 1) /\ Brings({"control_state", "writer_epoch"}, 1)
  BY <1>2 DEF ViewFrames
<1>. QED  BY <1>1, <1>2, <1>3, <1>5, <1>6, <1>7, Assembled DEF StaysAttached, StreamInv

\* The entry with another view.
LEMMA ViewShape ==
    ASSUME EntryType(entry), ~entry.bad, NEW e, DOMAIN e = DOMAIN entry, \A x \in EntryFields \ {"view", "out"} : e[x] = entry[x],
           e.view \in {"none", "started", "ready"}, e.out \in Nat
    PROVE  EntryType(e) /\ SamePlace(e) /\ SameScope(entry, e) /\ SameSeat(entry, e) /\ ~e.bad
<1>1. /\ e.state = entry.state /\ e.rev = entry.rev /\ e.fence = entry.fence /\ e.mode = entry.mode
      /\ e.epoch = entry.epoch /\ e.notice = entry.notice /\ e.wire = entry.wire /\ e.inputSeq = entry.inputSeq
      /\ e.retired = entry.retired /\ e.pump = entry.pump /\ e.acked = entry.acked /\ e.pend = entry.pend
      /\ e.aborted = entry.aborted /\ e.reqKey = entry.reqKey /\ e.ask = entry.ask /\ e.bad = entry.bad
  BY DEF EntryFields
<1>. QED  BY <1>1 DEF EntryType, SamePlace, SameScope, SameSeat

\* The frames behind the first.
LEMMA Behind ==
    ASSUME KeyTypes, KeyTypes', down # <<>>, down' = Tail(down)
    PROVE  /\ \A i \in DOMAIN down' : i \in Nat /\ i + 1 \in DOMAIN down /\ down'[i] = down[i + 1] /\ 1 < i + 1
           /\ \A j \in DOMAIN down : j \in Nat /\ (j = 1 \/ (j - 1 \in DOMAIN down' /\ down'[j - 1] = down[j] /\ 1 < j))
           /\ 1 \in DOMAIN down /\ Head(down) = down[1]
<1>1. /\ DOMAIN Tail(down) = 1 .. (Len(down) - 1) /\ DOMAIN down = 1 .. Len(down) /\ Len(down) \in Nat /\ Head(down) = down[1] /\ 1 \in DOMAIN down
      /\ \A i \in DOMAIN Tail(down) : i \in Nat /\ i + 1 \in DOMAIN down /\ Tail(down)[i] = down[i + 1]
  BY TailIs DEF KeyTypes
<1>2. ASSUME NEW j \in DOMAIN down, j # 1
      PROVE  j \in Nat /\ j - 1 \in DOMAIN down' /\ 1 < j /\ (j - 1) + 1 = j
  BY <1>1, <1>2
<1>. QED  BY <1>1, <1>2

\* The frame that starts the view has nothing of the view before it.
LEMMA OnViewStartedStream == ASSUME RuntimeInv, RuntimeInv', StreamInv, OnViewStarted PROVE StreamInv'
<1>1. Frame("view_started")
  BY DEF OnViewStarted
<1>2. /\ Live /\ Attached /\ down # <<>> /\ Head(down) = down[1] /\ 1 \in DOMAIN down /\ down[1].t = "view_started" /\ KeyTypes /\ KeyTypes'
      /\ EntryType(entry) /\ ~entry.bad /\ EntryFields \subseteq DOMAIN entry /\ Head(down).t # "writer_epoch"
  BY <1>1, FrameFacts DEF EntryType, RuntimeInv, KeyInv
<1>3. ViewInv /\ GatewayInv /\ entry.view = "none" /\ entry.out = 0 /\ ~Writing
  BY <1>2 DEF StreamInv, ViewInv
<1>4. CASE entry.aborted
  <2>1. Apply(Revoked(entry)) /\ UNCHANGED <<screen, writing>>
    BY <1>3, <1>4 DEF OnViewStarted
  <2>. QED  BY <1>2, <2>1, RevokedStream
<1>5. CASE ~entry.aborted
  <2>1. PICK e : e = [entry EXCEPT !.view = "started"]
    OBVIOUS
  <2>2. Apply(e) /\ screen' = <<>> /\ UNCHANGED writing
    BY <1>3, <1>5, <2>1 DEF OnViewStarted
  <2>3. DOMAIN e = DOMAIN entry /\ (\A x \in EntryFields \ {"view"} : e[x] = entry[x]) /\ e.view = "started"
        /\ e.out = 0 /\ e.fence = entry.fence
    BY <1>2, <1>3, <2>1 DEF EntryFields
  <2>4. EntryType(e) /\ SamePlace(e) /\ SameScope(entry, e) /\ SameSeat(entry, e) /\ ~e.bad
    BY <1>2, <2>3, ViewShape
  <2>5. /\ entry' = e /\ UNCHANGED <<up, srv>> /\ down' = Tail(down) /\ Attached'
    BY <1>1, <1>2, <2>2, <2>4, WritingKept, FrameStream
  <2>6. /\ \A i \in DOMAIN down' : i \in Nat /\ i + 1 \in DOMAIN down /\ down'[i] = down[i + 1] /\ 1 < i + 1
        /\ \A j \in DOMAIN down : j \in Nat /\ (j = 1 \/ (j - 1 \in DOMAIN down' /\ down'[j - 1] = down[j] /\ 1 < j))
    BY <1>2, <2>5, Behind
  <2>7. ~Writing' /\ Seen' = 0 /\ Seen = 0 /\ entry'.view = "started" /\ entry'.out = 0
    BY <1>3, <2>2, <2>3, <2>5 DEF Writing, Seen
  <2>8. ViewInv'
    <3>1. \A i \in DOMAIN down' : down'[i].t # "view_started"
      <4>1. SUFFICES ASSUME NEW i \in DOMAIN down', down'[i].t = "view_started"
                     PROVE  FALSE
        OBVIOUS
      <4>2. ~IsView(1)
        BY <1>2, <1>3, <2>6, <4>1 DEF ViewInv
      <4>. QED  BY <1>2, <4>2 DEF IsView
    <3>2. ASSUME NEW i \in DOMAIN down', IsOutput(i)'
          PROVE  /\ down'[i].n > Seen
                 /\ \A j \in DOMAIN down' : j < i /\ IsOutput(j)' => down'[j].n < down'[i].n
                 /\ \A m \in Nat : Seen < m /\ m <= down'[i].n => \E j \in DOMAIN down' : j <= i /\ IsOutput(j)' /\ down'[j].n = m
      <4>1. i + 1 \in DOMAIN down /\ down'[i] = down[i + 1] /\ IsOutput(i + 1) /\ i \in Nat
        BY <2>6, <3>2 DEF IsOutput
      <4>2. down'[i].n > Seen
        BY <1>3, <4>1 DEF ViewInv
      <4>3. ASSUME NEW j \in DOMAIN down', j < i, IsOutput(j)'
            PROVE  down'[j].n < down'[i].n
        <5>1. j + 1 < i + 1 /\ j + 1 \in DOMAIN down /\ down'[j] = down[j + 1] /\ IsOutput(j + 1)
          BY <2>6, <4>1, <4>3 DEF IsOutput
        <5>. QED  BY <1>3, <4>1, <5>1 DEF ViewInv
      <4>4. ASSUME NEW m \in Nat, Seen < m, m <= down'[i].n
            PROVE  \E j \in DOMAIN down' : j <= i /\ IsOutput(j)' /\ down'[j].n = m
        <5>1. PICK j \in DOMAIN down : j <= i + 1 /\ IsOutput(j) /\ down[j].n = m
          BY <1>3, <4>1, <4>4 DEF ViewInv
        <5>2. j # 1
          BY <1>2, <5>1 DEF IsOutput
        <5>3. j - 1 \in DOMAIN down' /\ down'[j - 1] = down[j] /\ j - 1 <= i /\ IsOutput(j - 1)'
          BY <2>6, <4>1, <5>1, <5>2 DEF IsOutput
        <5>. QED  BY <5>1, <5>3
      <4>. QED  BY <4>2, <4>3, <4>4
    <3>3. ASSUME NEW i \in DOMAIN down', down'[i].t = "view_ready"
          PROVE  /\ down'[i].n = 1 /\ Seen <= 1
                 /\ Seen = 1 \/ \E j \in DOMAIN down' : j < i /\ IsOutput(j)'
                 /\ \A j \in DOMAIN down' : j < i => down'[j].t # "view_ready" /\ (IsOutput(j)' => down'[j].n = 1)
      <4>1. i + 1 \in DOMAIN down /\ down'[i] = down[i + 1] /\ down[i + 1].t = "view_ready" /\ i \in Nat
        BY <2>6, <3>3
      <4>2. down'[i].n = 1 /\ Seen <= 1
        BY <1>3, <4>1 DEF ViewInv
      <4>3. Seen = 1 \/ \E j \in DOMAIN down' : j < i /\ IsOutput(j)'
        <5>1. PICK j \in DOMAIN down : j < i + 1 /\ IsOutput(j)
          BY <1>3, <2>7, <4>1 DEF ViewInv
        <5>2. j # 1
          BY <1>2, <5>1 DEF IsOutput
        <5>3. j - 1 \in DOMAIN down' /\ j - 1 < i /\ IsOutput(j - 1)'
          BY <2>6, <4>1, <5>1, <5>2 DEF IsOutput
        <5>. QED  BY <5>3
      <4>4. ASSUME NEW j \in DOMAIN down', j < i
            PROVE  down'[j].t # "view_ready" /\ (IsOutput(j)' => down'[j].n = 1)
        <5>1. j + 1 < i + 1 /\ j + 1 \in DOMAIN down /\ down'[j] = down[j + 1]
          BY <2>6, <4>1, <4>4
        <5>2. down[j + 1].t # "view_ready" /\ (IsOutput(j + 1) => down[j + 1].n = 1)
          BY <1>3, <4>1, <5>1 DEF ViewInv
        <5>. QED  BY <5>1, <5>2 DEF IsOutput
      <4>. QED  BY <4>2, <4>3, <4>4
    <3>. QED  BY <2>7, <3>1, <3>2, <3>3 DEF ViewInv
  <2>9. GatewayInv'
    <3>1. SUFFICES ASSUME srv.conn # 0
                   PROVE  /\ \A i, j \in DOMAIN up : up[i].t = "resume" /\ up[j].t = "resume" => i = j
                          /\ srv.viewN # 0 /\ \A i \in DOMAIN up : up[i].t # "resume"
                          /\ Seen <= srv.viewN
                          /\ \A i \in DOMAIN down' : IsOutput(i)' => down'[i].n <= srv.viewN
                          /\ \A m \in Nat : Seen < m /\ m <= srv.viewN => \E j \in DOMAIN down' : IsOutput(j)' /\ down'[j].n = m
      BY <2>5, <2>7 DEF GatewayInv
    <3>2. srv.viewN # 0
      BY <1>2, <1>3, <3>1 DEF GatewayInv, IsView
    <3>3. \A i \in DOMAIN down' : IsOutput(i)' => down'[i].n <= srv.viewN
      BY <1>3, <2>6, <3>1, <3>2 DEF GatewayInv, IsOutput
    <3>4. ASSUME NEW m \in Nat, Seen < m, m <= srv.viewN
          PROVE  \E j \in DOMAIN down' : IsOutput(j)' /\ down'[j].n = m
      <4>1. PICK j \in DOMAIN down : IsOutput(j) /\ down[j].n = m
        BY <1>3, <3>1, <3>2, <3>4 DEF GatewayInv
      <4>2. j # 1
        BY <1>2, <4>1 DEF IsOutput
      <4>. QED  BY <2>6, <4>1, <4>2 DEF IsOutput
    <3>. QED  BY <1>3, <3>1, <3>2, <3>3, <3>4 DEF GatewayInv
  <2>10. ScreenInv' /\ screen' \in Seq(Nat)
    <3>1. ScreenIsAView'
      BY <2>2, <2>7, EmptySeq DEF ScreenIsAView
    <3>2. entry.state = "active" => writing = NoWrite \/ writing.fence = entry.fence
      <4>1. entry.state \in {"active", "interrupted"} /\ entry.pump # 0
        BY <1>2 DEF Live
      <4>. QED  BY <2>2, <4>1 DEF StreamInv, ScreenInv
    <3>. QED  BY <2>2, <2>3, <2>4, <2>5, <3>1, <3>2, EmptySeq DEF ScreenInv, SamePlace
  <2>. QED  BY <1>1, <1>2, <2>2, <2>4, <2>8, <2>9, <2>10, WritingKept, ViewFrameStream DEF ViewFrames
<1>. QED  BY <1>4, <1>5

\* The view is ready once its first frame is shown.
LEMMA OnViewReadyStream == ASSUME RuntimeInv, RuntimeInv', StreamInv, OnViewReady PROVE StreamInv'
<1>1. PICK e : e = [entry EXCEPT !.view = "ready"]
  OBVIOUS
<1>2. Frame("view_ready") /\ UNCHANGED <<screen, writing>>
      /\ Apply(IF entry.view = "started" /\ entry.out >= 1 /\ Head(down).n = entry.out THEN e ELSE ProtocolFailure(entry))
  BY <1>1 DEF OnViewReady
<1>3. /\ Live /\ Attached /\ down # <<>> /\ Head(down) = down[1] /\ 1 \in DOMAIN down /\ down[1].t = "view_ready" /\ KeyTypes /\ KeyTypes'
      /\ EntryType(entry) /\ ~entry.bad /\ EntryFields \subseteq DOMAIN entry /\ (writing = NoWrite \/ writing.fence # entry.fence)
  BY <1>2, FrameFacts DEF EntryType, RuntimeInv, KeyInv
<1>4. ViewInv /\ GatewayInv /\ ScreenInv
  BY <1>3 DEF StreamInv
<1>5. ~Writing /\ Seen = entry.out
  BY <1>3 DEF Writing, Seen
<1>6. \A j \in DOMAIN down : ~(j < 1)
  BY <1>3, FirstPlace
<1>7. entry.view = "started" /\ entry.out = 1 /\ down[1].n = 1
  <2>1. down[1].n = 1 /\ entry.view # "ready" /\ Seen = 1
    BY <1>3, <1>4, <1>6 DEF ViewInv
  <2>2. entry.view # "none"
    BY <1>3, <1>4, <1>6 DEF ViewInv
  <2>. QED  BY <1>3, <1>5, <2>1, <2>2 DEF EntryType
<1>8. Apply(e)
  BY <1>2, <1>3, <1>7
<1>9. DOMAIN e = DOMAIN entry /\ (\A x \in EntryFields \ {"view"} : e[x] = entry[x]) /\ e.view = "ready"
      /\ e.out = entry.out /\ e.fence = entry.fence
  BY <1>1, <1>3 DEF EntryFields
<1>10. EntryType(e) /\ SamePlace(e) /\ SameScope(entry, e) /\ SameSeat(entry, e) /\ ~e.bad
  BY <1>3, <1>7, <1>9, ViewShape
<1>11. /\ entry' = e /\ UNCHANGED <<up, srv>> /\ down' = Tail(down)
       /\ \A T : Brings(T, 1) /\ ("view_ready" \notin T => Retains(T, 1))
  BY <1>2, <1>8, <1>10, WritingKept, FrameStream
<1>12. /\ \A i \in DOMAIN down' : i \in Nat /\ i + 1 \in DOMAIN down /\ down'[i] = down[i + 1] /\ 1 < i + 1
       /\ \A j \in DOMAIN down : j \in Nat /\ (j = 1 \/ (j - 1 \in DOMAIN down' /\ down'[j - 1] = down[j] /\ 1 < j))
  BY <1>3, <1>11, Behind
<1>13. ~Writing' /\ Seen' = 1 /\ Seen = 1 /\ entry'.view = "ready" /\ entry'.out = 1
  BY <1>2, <1>5, <1>7, <1>9, <1>11 DEF Writing, Seen
<1>14. ViewInv'
  <2>1. \A i \in DOMAIN down' : down'[i].t \notin {"view_started", "view_ready"}
    <3>1. SUFFICES ASSUME NEW i \in DOMAIN down', down'[i].t \in {"view_started", "view_ready"}
                   PROVE  FALSE
      OBVIOUS
    <3>2. i + 1 \in DOMAIN down /\ down'[i] = down[i + 1] /\ 1 < i + 1
      BY <1>12
    <3>3. down[i + 1].t # "view_started"
      BY <1>3, <1>4, <1>7, <3>2 DEF ViewInv
    <3>4. down[i + 1].t # "view_ready"
      BY <1>3, <1>4, <3>2 DEF ViewInv
    <3>. QED  BY <3>1, <3>2, <3>3, <3>4
  <2>2. ASSUME NEW i \in DOMAIN down', IsOutput(i)'
        PROVE  /\ down'[i].n > Seen
               /\ \A j \in DOMAIN down' : j < i /\ IsOutput(j)' => down'[j].n < down'[i].n
               /\ \A m \in Nat : Seen < m /\ m <= down'[i].n => \E j \in DOMAIN down' : j <= i /\ IsOutput(j)' /\ down'[j].n = m
    <3>1. i + 1 \in DOMAIN down /\ down'[i] = down[i + 1] /\ IsOutput(i + 1) /\ i \in Nat
      BY <1>12, <2>2 DEF IsOutput
    <3>2. down'[i].n > Seen
      BY <1>4, <3>1 DEF ViewInv
    <3>3. ASSUME NEW j \in DOMAIN down', j < i, IsOutput(j)'
          PROVE  down'[j].n < down'[i].n
      <4>1. j + 1 < i + 1 /\ j + 1 \in DOMAIN down /\ down'[j] = down[j + 1] /\ IsOutput(j + 1)
        BY <1>12, <3>1, <3>3 DEF IsOutput
      <4>. QED  BY <1>4, <3>1, <4>1 DEF ViewInv
    <3>4. ASSUME NEW m \in Nat, Seen < m, m <= down'[i].n
          PROVE  \E j \in DOMAIN down' : j <= i /\ IsOutput(j)' /\ down'[j].n = m
      <4>1. PICK j \in DOMAIN down : j <= i + 1 /\ IsOutput(j) /\ down[j].n = m
        BY <1>4, <3>1, <3>4 DEF ViewInv
      <4>2. j # 1
        BY <1>3, <4>1 DEF IsOutput
      <4>3. j - 1 \in DOMAIN down' /\ down'[j - 1] = down[j] /\ j - 1 <= i /\ IsOutput(j - 1)'
        BY <1>12, <3>1, <4>1, <4>2 DEF IsOutput
      <4>. QED  BY <4>1, <4>3
    <3>. QED  BY <3>2, <3>3, <3>4
  <2>. QED  BY <1>13, <2>1, <2>2 DEF ViewInv
<1>15. GatewayInv'
  <2>1. SUFFICES ASSUME srv.conn # 0
                 PROVE  /\ srv.viewN # 0 /\ \A i \in DOMAIN up : up[i].t # "resume"
                        /\ Seen <= srv.viewN
                        /\ \A i \in DOMAIN down' : IsOutput(i)' => down'[i].n <= srv.viewN
                        /\ \A m \in Nat : Seen < m /\ m <= srv.viewN => \E j \in DOMAIN down' : IsOutput(j)' /\ down'[j].n = m
    BY <1>11, <1>13 DEF GatewayInv
  <2>2. srv.viewN # 0
    BY <1>4, <1>7, <2>1 DEF GatewayInv
  <2>3. \A i \in DOMAIN down' : IsOutput(i)' => down'[i].n <= srv.viewN
    BY <1>4, <1>12, <2>1, <2>2 DEF GatewayInv, IsOutput
  <2>4. ASSUME NEW m \in Nat, Seen < m, m <= srv.viewN
        PROVE  \E j \in DOMAIN down' : IsOutput(j)' /\ down'[j].n = m
    <3>1. PICK j \in DOMAIN down : IsOutput(j) /\ down[j].n = m
      BY <1>4, <2>1, <2>2, <2>4 DEF GatewayInv
    <3>2. j # 1
      BY <1>3, <3>1 DEF IsOutput
    <3>. QED  BY <1>12, <3>1, <3>2 DEF IsOutput
  <2>. QED  BY <1>4, <2>1, <2>2, <2>3, <2>4 DEF GatewayInv
<1>16. ScreenInv'
  <2>1. entry'.state = entry.state /\ entry'.fence = entry.fence /\ entry'.pump = entry.pump /\ entry'.view # "none" /\ entry.view # "none"
        /\ entry'.out = entry.out
    BY <1>7, <1>9, <1>10, <1>11, <1>13 DEF SamePlace
  <2>. QED  BY <1>2, <1>4, <2>1 DEF ScreenInv, ScreenIsAView
<1>17. screen' \in Seq(Nat)
  BY <1>2 DEF StreamInv, RestType
<1>. QED  BY <1>2, <1>3, <1>8, <1>10, <1>14, <1>15, <1>16, <1>17, WritingKept, ViewFrameStream DEF ViewFrames

\* An output frame is the next one of the view.
LEMMA NextOutput ==
    ASSUME RuntimeInv, StreamInv, Frame("output")
    PROVE  /\ entry.view # "none" /\ down[1].n = entry.out + 1 /\ down[1].n \in 1 .. MaxOut /\ IsOutput(1)
           /\ ~Writing /\ Seen = entry.out /\ entry.out \in Nat
<1>1. /\ Attached /\ 1 \in DOMAIN down /\ Head(down) = down[1] /\ down[1].t = "output" /\ KeyTypes /\ EntryType(entry)
      /\ (writing = NoWrite \/ writing.fence # entry.fence)
  BY FrameFacts
<1>2. ViewInv /\ ~Writing /\ Seen = entry.out /\ entry.out \in Nat /\ IsOutput(1)
  BY <1>1 DEF StreamInv, Writing, Seen, EntryType, IsOutput
<1>3. \A j \in DOMAIN down : ~(j < 1) /\ (j <= 1 => j = 1)
  <2>1. \A j \in DOMAIN down : j \in Nat /\ ~(j < 1)
    BY <1>1, FirstPlace, Places
  <2>. QED  BY <2>1
<1>4. entry.view # "none"
  BY <1>1, <1>2, <1>3 DEF ViewInv
<1>5. down[1].n \in 1 .. MaxOut
  BY <1>1, <1>2 DEF StreamInv, OutputsBounded
<1>6. down[1].n = entry.out + 1
  <2>1. down[1].n > entry.out
    BY <1>1, <1>2 DEF ViewInv
  <2>2. entry.out + 1 \in Nat /\ entry.out < entry.out + 1 /\ entry.out + 1 <= down[1].n
    BY <1>2, <1>5, <2>1
  <2>3. \E j \in DOMAIN down : j <= 1 /\ IsOutput(j) /\ down[j].n = entry.out + 1
    BY <1>1, <1>2, <2>2 DEF ViewInv
  <2>. QED  BY <1>3, <2>3
<1>. QED  BY <1>2, <1>4, <1>5, <1>6

LEMMA OnOutputStream == ASSUME RuntimeInv, RuntimeInv', StreamInv, OnOutput PROVE StreamInv'
<1>1. Frame("output")
  BY DEF OnOutput
<1>2. /\ Live /\ Attached /\ down # <<>> /\ Head(down) = down[1] /\ 1 \in DOMAIN down /\ KeyTypes /\ KeyTypes'
      /\ EntryType(entry) /\ ~entry.bad /\ Head(down).t # "writer_epoch"
  BY <1>1, FrameFacts DEF RuntimeInv, KeyInv
<1>3. /\ entry.view # "none" /\ down[1].n = entry.out + 1 /\ down[1].n \in 1 .. MaxOut /\ IsOutput(1)
      /\ ~Writing /\ Seen = entry.out /\ entry.out \in Nat
  BY <1>1, NextOutput
<1>4. ViewInv /\ GatewayInv /\ ScreenInv
  BY <1>2 DEF StreamInv
<1>5. CASE entry.aborted
  <2>1. Apply(Revoked(entry)) /\ UNCHANGED <<screen, writing>>
    BY <1>2, <1>3, <1>5 DEF OnOutput
  <2>. QED  BY <1>2, <2>1, RevokedStream
<1>6. CASE ~entry.aborted
  <2>1. Apply(entry) /\ writing' = [n |-> down[1].n, fence |-> entry.fence] /\ UNCHANGED screen
    BY <1>2, <1>3, <1>6 DEF OnOutput
  <2>. DEFINE n == down[1].n
  <2>2. writing' \in [n : 0 .. MaxOut, fence : Nat] /\ writing'.fence <= srv.fence /\ writing'.n = n /\ writing'.fence = entry.fence
    <3>1. n \in 0 .. MaxOut /\ entry.fence \in Nat /\ entry.fence <= srv.fence
      BY <1>2, <1>3, RuntimeConstants DEF EntryType, RuntimeInv, FenceInv
    <3>. QED  BY <2>1, <3>1
  <2>3. /\ entry' = entry /\ UNCHANGED <<up, srv>> /\ down' = Tail(down)
    BY <1>1, <1>2, <2>1, <2>2, SamePlaceSame, FrameStream
  <2>4. /\ \A i \in DOMAIN down' : i \in Nat /\ i + 1 \in DOMAIN down /\ down'[i] = down[i + 1] /\ 1 < i + 1
        /\ \A j \in DOMAIN down : j \in Nat /\ (j = 1 \/ (j - 1 \in DOMAIN down' /\ down'[j - 1] = down[j] /\ 1 < j))
    BY <1>2, <2>3, Behind
  <2>5. Writing' /\ Seen' = n /\ n \in Nat /\ n > Seen
    <3>1. NoWrite.n = 0
      BY DEF NoWrite
    <3>2. n \in Nat /\ n # 0 /\ n > Seen
      BY <1>3
    <3>3. Writing'
      BY <2>2, <2>3, <3>1, <3>2 DEF Writing
    <3>. QED  BY <2>2, <3>2, <3>3 DEF Seen
  <2>6. ViewInv'
    <3>1. ASSUME NEW i \in DOMAIN down'
          PROVE  down'[i].t # "view_started"
      BY <1>3, <1>4, <2>4 DEF ViewInv
    <3>2. ASSUME NEW i \in DOMAIN down', IsOutput(i)'
          PROVE  /\ down'[i].n > n
                 /\ \A j \in DOMAIN down' : j < i /\ IsOutput(j)' => down'[j].n < down'[i].n
                 /\ \A m \in Nat : n < m /\ m <= down'[i].n => \E j \in DOMAIN down' : j <= i /\ IsOutput(j)' /\ down'[j].n = m
      <4>1. i + 1 \in DOMAIN down /\ down'[i] = down[i + 1] /\ IsOutput(i + 1) /\ i \in Nat /\ 1 < i + 1 /\ down[i + 1].n \in Nat
        BY <1>2, <2>4, <3>2, FrameNumbers DEF IsOutput
      <4>2. n < down'[i].n
        BY <1>2, <1>3, <1>4, <4>1 DEF ViewInv
      <4>3. ASSUME NEW j \in DOMAIN down', j < i, IsOutput(j)'
            PROVE  down'[j].n < down'[i].n
        <5>1. j + 1 < i + 1 /\ j + 1 \in DOMAIN down /\ down'[j] = down[j + 1] /\ IsOutput(j + 1)
          BY <2>4, <4>1, <4>3 DEF IsOutput
        <5>. QED  BY <1>4, <4>1, <5>1 DEF ViewInv
      <4>4. ASSUME NEW m \in Nat, n < m, m <= down'[i].n
            PROVE  \E j \in DOMAIN down' : j <= i /\ IsOutput(j)' /\ down'[j].n = m
        <5>0. Seen < m
          BY <1>3, <2>5, <4>4
        <5>1. PICK j \in DOMAIN down : j <= i + 1 /\ IsOutput(j) /\ down[j].n = m
          BY <1>4, <4>1, <4>4, <5>0 DEF ViewInv
        <5>2. j # 1
          BY <2>5, <4>4, <5>1
        <5>3. j - 1 \in DOMAIN down' /\ down'[j - 1] = down[j] /\ j - 1 <= i /\ IsOutput(j - 1)'
          BY <2>4, <4>1, <5>1, <5>2 DEF IsOutput
        <5>. QED  BY <5>1, <5>3
      <4>. QED  BY <2>5, <4>1, <4>2, <4>3, <4>4
    <3>3. ASSUME NEW i \in DOMAIN down', down'[i].t = "view_ready"
          PROVE  /\ down'[i].n = 1 /\ entry.view # "ready" /\ n = 1
                 /\ \A j \in DOMAIN down' : j < i => down'[j].t # "view_ready" /\ (IsOutput(j)' => down'[j].n = 1)
      <4>1. i + 1 \in DOMAIN down /\ down'[i] = down[i + 1] /\ down[i + 1].t = "view_ready" /\ i \in Nat /\ 1 < i + 1
        BY <2>4, <3>3
      <4>2. down'[i].n = 1 /\ entry.view # "ready" /\ n = 1
        BY <1>2, <1>3, <1>4, <4>1 DEF ViewInv
      <4>3. ASSUME NEW j \in DOMAIN down', j < i
            PROVE  down'[j].t # "view_ready" /\ (IsOutput(j)' => down'[j].n = 1)
        <5>1. j + 1 < i + 1 /\ j + 1 \in DOMAIN down /\ down'[j] = down[j + 1]
          BY <2>4, <4>1, <4>3
        <5>2. down[j + 1].t # "view_ready" /\ (IsOutput(j + 1) => down[j + 1].n = 1)
          BY <1>4, <4>1, <5>1 DEF ViewInv
        <5>. QED  BY <5>1, <5>2 DEF IsOutput
      <4>. QED  BY <4>2, <4>3
    <3>4. entry'.view = entry.view /\ writing'.n = entry'.out + 1
      BY <1>3, <2>2, <2>3
    <3>. HIDE DEF n
    <3>. QED  BY <1>3, <2>5, <3>1, <3>2, <3>3, <3>4 DEF ViewInv
  <2>7. GatewayInv'
    <3>1. SUFFICES ASSUME srv.conn # 0
                   PROVE  /\ srv.viewN # 0 /\ \A i \in DOMAIN up : up[i].t # "resume"
                          /\ n <= srv.viewN
                          /\ \A i \in DOMAIN down' : IsOutput(i)' => down'[i].n <= srv.viewN
                          /\ \A m \in Nat : n < m /\ m <= srv.viewN => \E j \in DOMAIN down' : IsOutput(j)' /\ down'[j].n = m
      BY <1>3, <2>3, <2>5 DEF GatewayInv
    <3>2. srv.viewN # 0
      BY <1>3, <1>4, <3>1 DEF GatewayInv
    <3>3. \A i \in DOMAIN down : IsOutput(i) => down[i].n <= srv.viewN
      BY <1>4, <3>1, <3>2 DEF GatewayInv
    <3>4. ASSUME NEW m \in Nat, n < m, m <= srv.viewN
          PROVE  \E j \in DOMAIN down' : IsOutput(j)' /\ down'[j].n = m
      <4>0. Seen < m
        BY <1>3, <2>5, <3>4
      <4>1. PICK j \in DOMAIN down : IsOutput(j) /\ down[j].n = m
        BY <1>4, <3>1, <3>2, <3>4, <4>0 DEF GatewayInv
      <4>2. j # 1
        BY <2>5, <3>4, <4>1
      <4>. QED  BY <2>4, <4>1, <4>2 DEF IsOutput
    <3>5. \A i \in DOMAIN down' : IsOutput(i)' => down'[i].n <= srv.viewN
      BY <2>4, <3>3 DEF IsOutput
    <3>. QED  BY <1>2, <1>3, <1>4, <3>1, <3>2, <3>3, <3>4, <3>5 DEF GatewayInv
  <2>8. ScreenInv'
    BY <1>4, <2>1, <2>2, <2>3 DEF ScreenInv, ScreenIsAView
  <2>9. screen' \in Seq(Nat) /\ SameScope(entry, entry) /\ SameSeat(entry, entry) /\ "output" \in ViewFrames
    BY <2>1 DEF StreamInv, RestType, SameScope, SameSeat, ViewFrames
  <2>. QED  BY <1>1, <1>2, <2>1, <2>2, <2>6, <2>7, <2>8, <2>9, SamePlaceSame, ViewFrameStream
<1>. QED  BY <1>5, <1>6

\* The viewport has applied a frame, of this attachment or of an earlier one.
LEMMA WriteDoneStream == ASSUME RuntimeInv, RuntimeInv', StreamInv, WriteDone PROVE StreamInv'
<1>1. /\ writing # NoWrite /\ screen' = Append(screen, writing.n) /\ writing' = NoWrite
      /\ UNCHANGED <<proc, life, reqs, open, up, down, take, srv>>
      /\ entry' = IF entry.fence # writing.fence THEN entry
                  ELSE IF entry.aborted THEN [entry EXCEPT !.pump = 0] ELSE [entry EXCEPT !.out = writing.n]
  BY DEF WriteDone
<1>2. KeyTypes /\ KeyTypes' /\ EntryType(entry) /\ ~entry.bad /\ EntryFields \subseteq DOMAIN entry /\ ProcType(proc)
      /\ writing \in [n : 0 .. MaxOut, fence : Nat] /\ screen \in Seq(Nat)
  BY DEF RuntimeInv, KeyInv, StreamInv, HonestStreamAccepted, EntryType, RestType
<1>3. /\ DOMAIN entry' = DOMAIN entry /\ \A x \in EntryFields \ {"pump", "out"} : entry'[x] = entry[x]
      /\ \/ entry.fence # writing.fence /\ entry'.pump = entry.pump /\ entry'.out = entry.out
         \/ entry.fence = writing.fence /\ entry.aborted /\ entry'.pump = 0 /\ entry'.out = entry.out
         \/ entry.fence = writing.fence /\ ~entry.aborted /\ entry'.pump = entry.pump /\ entry'.out = writing.n
  BY <1>1, <1>2 DEF EntryFields
<1>4. /\ entry'.state = entry.state /\ entry'.rev = entry.rev /\ entry'.fence = entry.fence /\ entry'.mode = entry.mode
      /\ entry'.epoch = entry.epoch /\ entry'.notice = entry.notice /\ entry'.wire = entry.wire /\ entry'.inputSeq = entry.inputSeq
      /\ entry'.retired = entry.retired /\ entry'.acked = entry.acked /\ entry'.pend = entry.pend /\ entry'.view = entry.view
      /\ entry'.aborted = entry.aborted /\ entry'.reqKey = entry.reqKey /\ entry'.ask = entry.ask /\ entry'.bad = entry.bad
  BY <1>3 DEF EntryFields
<1>5. writing.n \in Nat /\ writing.fence \in Nat /\ entry.out \in Nat /\ entry.pump \in Nat /\ entry'.pump \in {entry.pump, 0} /\ entry'.out \in Nat
  <2>1. MaxOut \in Nat
    BY RuntimeConstants
  <2>. QED  BY <1>2, <1>3, <2>1 DEF EntryType
<1>6. EntryType(entry') /\ SameScope(entry, entry') /\ SameSeat(entry, entry') /\ ~entry'.bad
  BY <1>2, <1>3, <1>4, <1>5, SMTT(30) DEF EntryType, SameScope, SameSeat
<1>7. StaysAttached
  <2>1. entry.rev \in Nat
    BY <1>2 DEF EntryType
  <2>. QED  BY <1>4, <1>5, <2>1 DEF StaysAttached, Attached
<1>8. LeakInv'
  BY <1>1, <1>4 DEF StreamInv, LeakInv, NothingLeaks
<1>9. PumpInv'
  <2>1. NoWrite.fence = 0 /\ NoWrite.n = 0
    BY DEF NoWrite
  <2>2. writing'.fence <= srv'.fence /\ (proc'.ph = "commit" => writing'.fence < proc'.fence)
    <3>1. proc.fence \in Nat /\ srv.fence \in Nat /\ writing.fence \in Nat
      BY <1>2, <1>5 DEF ProcType, KeyTypes
    <3>. QED  BY <1>1, <2>1, <3>1 DEF StreamInv, PumpInv
  <2>3. Attached' => srv'.conn \in {0, entry'.fence}
    BY <1>1, <1>4, <1>7 DEF StreamInv, PumpInv, StaysAttached
  <2>4. entry'.pump <= entry'.rev /\ (proc'.kind # "none" => entry'.pump = 0 \/ entry'.pump < entry'.rev)
    <3>1. entry.rev \in Nat
      BY <1>2 DEF EntryType
    <3>. QED  BY <1>1, <1>4, <1>5, <3>1 DEF StreamInv, PumpInv
  <2>. QED  BY <1>1, <1>4, <2>2, <2>3, <2>4 DEF StreamInv, PumpInv
<1>10. \A T : Brings(T, 0) /\ Retains(T, 0) /\ UpBrings(T, 0)
  BY <1>1, <1>2, StreamSame, UpSame
<1>11. ReceiptInv'
  <2>1. Brings({"acknowledgement"}, 0) /\ UpBrings({"input"}, 0) /\ ReceiptInv /\ (srv'.conn # 0 => srv.conn # 0)
    BY <1>1, <1>10 DEF StreamInv
  <2>. QED  BY <1>2, <1>6, <1>7, <2>1, ReceiptKeeps
<1>12. ~Writing'
  BY <1>1 DEF Writing
<1>13. ASSUME Attached'
       PROVE  ViewInv' /\ GatewayInv'
  <2>1. Attached /\ ViewInv /\ GatewayInv
    BY <1>7, <1>13 DEF StaysAttached, StreamInv
  <2>2. Seen' = Seen /\ (entry.view = "none" => entry'.out = 0)
    <3>1. CASE entry.fence # writing.fence
      <4>1. ~Writing /\ entry'.out = entry.out
        BY <1>3, <3>1 DEF Writing
      <4>. QED  BY <1>12, <2>1, <4>1 DEF Seen, ViewInv
    <3>2. CASE entry.fence = writing.fence /\ entry.aborted
      <4>1. entry.state # "active" /\ entry'.pump = 0
        BY <1>3, <3>2 DEF StreamInv, PumpInv
      <4>. QED  BY <1>4, <1>13, <4>1 DEF Attached
    <3>3. CASE entry.fence = writing.fence /\ ~entry.aborted
      <4>1. Writing /\ entry'.out = writing.n
        BY <1>1, <1>3, <3>3 DEF Writing
      <4>. QED  BY <1>12, <2>1, <4>1 DEF Seen, ViewInv
    <3>. QED  BY <3>1, <3>2, <3>3
  <2>3. entry'.view = entry.view /\ down' = down /\ up' = up /\ srv' = srv
    BY <1>1, <1>4
  <2>4. ViewInv'
    BY <1>12, <2>1, <2>2, <2>3 DEF ViewInv, IsView, IsOutput
  <2>5. GatewayInv'
    BY <2>1, <2>2, <2>3 DEF GatewayInv, IsView, IsOutput
  <2>. QED  BY <2>4, <2>5
<1>14. OutputsBounded'
  BY <1>1 DEF StreamInv, OutputsBounded, IsOutput
<1>15. ScreenInv'
  <2>1. SUFFICES ASSUME entry.state = "active", entry.view # "none"
                 PROVE  (\A i \in DOMAIN screen' : screen'[i] = i) /\ entry'.out = Len(screen')
    BY <1>1, <1>4 DEF ScreenInv, ScreenIsAView
  <2>2. Attached /\ ViewInv /\ ScreenInv /\ ~entry.aborted
    BY <2>1 DEF Attached, StreamInv, PumpInv
  <2>3. writing.fence = entry.fence /\ Writing
    BY <1>1, <2>1, <2>2 DEF ScreenInv, Writing
  <2>4. writing.n = entry.out + 1 /\ entry'.out = writing.n
    BY <1>3, <2>2, <2>3 DEF ViewInv
  <2>5. (\A i \in DOMAIN screen : screen[i] = i) /\ entry.out = Len(screen)
    BY <2>1, <2>2 DEF ScreenInv, ScreenIsAView
  <2>6. /\ Len(Append(screen, writing.n)) = Len(screen) + 1 /\ Append(screen, writing.n)[Len(screen) + 1] = writing.n
        /\ \A i \in DOMAIN Append(screen, writing.n) : i \in DOMAIN screen \/ i = Len(screen) + 1
        /\ \A i \in DOMAIN screen : Append(screen, writing.n)[i] = screen[i]
    BY <1>2, <1>5, AppendIs
  <2>. QED  BY <1>1, <2>4, <2>5, <2>6
<1>16. RestType'
  <2>1. NoWrite \in [n : 0 .. MaxOut, fence : Nat] /\ Append(screen, writing.n) \in Seq(Nat)
    BY <1>2, <1>5, RuntimeConstants DEF NoWrite
  <2>. QED  BY <1>1, <2>1 DEF StreamInv, RestType
<1>17. proc'.ph = "commit" => up' = <<>>
  BY <1>1 DEF StreamInv, FreshInv
<1>. QED  BY <1>1, <1>2, <1>6, <1>7, <1>8, <1>9, <1>10, <1>11, <1>13, <1>14, <1>15, <1>16, <1>17, Assembled DEF ViewPart

-----------------------------------------------------------------------------
(* The gateway *)

\* A step of the gateway that leaves the seat and the grants alone.
GatewayOnly ==
    /\ UNCHANGED <<entry, proc, life, reqs, open, writing, screen, take>>
    /\ SrvType(srv') /\ SrvOwned /\ srv'.fence = srv.fence /\ srv'.conn \in {srv.conn, 0}
    /\ srv'.hist = srv.hist /\ srv'.committed = srv.committed

LEMMA GatewayOnlyKeeps ==
    ASSUME StreamInv, GatewayOnly
    PROVE  /\ LeakInv' /\ PumpInv' /\ RestType' /\ (Attached' <=> Attached) /\ EntryType(entry') /\ ProcType(proc') /\ ~entry'.bad
           /\ SameSeat(entry, entry') /\ SameWork(entry, entry') /\ SameScope(entry, entry')
<1>1. LeakInv'
  BY DEF GatewayOnly, StreamInv, LeakInv, NothingLeaks, SrvOwned
<1>2. PumpInv'
  BY DEF GatewayOnly, StreamInv, PumpInv, Attached
<1>3. RestType' /\ EntryType(entry') /\ ProcType(proc') /\ ~entry'.bad
  BY DEF GatewayOnly, StreamInv, RestType, HonestStreamAccepted
<1>4. Attached' <=> Attached
  BY DEF GatewayOnly, Attached
<1>5. SameSeat(entry, entry') /\ SameWork(entry, entry') /\ SameScope(entry, entry')
  BY EntrySame DEF GatewayOnly, StreamInv
<1>. QED  BY <1>1, <1>2, <1>3, <1>4, <1>5

LEMMA OneAdded ==
    ASSUME KeyTypes, NEW f \in Downstream, down' = Append(down, f)
    PROVE  /\ \A i \in DOMAIN down : i \in Nat /\ i \in DOMAIN down' /\ down'[i] = down[i] /\ i < Len(down) + 1
           /\ \A i \in DOMAIN down' : i \in DOMAIN down \/ (i = Len(down) + 1 /\ down'[i] = f)
           /\ Len(down) + 1 \in DOMAIN down' /\ down'[Len(down) + 1] = f /\ Len(down) + 1 \in Nat
           /\ \A T : f.t \notin T => Brings(T, 0) /\ Retains(T, 0)
<1>1. down \in Seq(Downstream) /\ DOMAIN down = 1 .. Len(down) /\ Len(down) \in Nat
  BY DEF KeyTypes
<1>2. /\ Len(down) + 1 \in DOMAIN down' /\ down'[Len(down) + 1] = f /\ DOMAIN down \subseteq DOMAIN down'
      /\ (\A i \in DOMAIN down : down'[i] = down[i]) /\ \A i \in DOMAIN down' : i \in DOMAIN down \/ i = Len(down) + 1
  BY <1>1, AppendIs
<1>3. \A i \in DOMAIN down : i \in Nat /\ i < Len(down) + 1
  BY <1>1
<1>4. ASSUME NEW T, f.t \notin T
      PROVE  Brings(T, 0) /\ Retains(T, 0)
  <2>1. down' = down \o <<f>> /\ <<f>> \in Seq(Downstream)
    BY <1>1, AppendIsConcat
  <2>2. \A i \in DOMAIN <<f>> : <<f>>[i].t \notin T
    BY <1>4
  <2>. QED  BY <2>1, <2>2, FramesAdded
<1>. QED  BY <1>1, <1>2, <1>3, <1>4

LEMMA UpTaken ==
    ASSUME KeyTypes, up # <<>>, up' = Tail(up)
    PROVE  /\ \A i \in DOMAIN up' : i \in Nat /\ i + 1 \in DOMAIN up /\ up'[i] = up[i + 1] /\ 1 < i + 1
           /\ 1 \in DOMAIN up /\ Head(up) = up[1]
           /\ \A T : UpBrings(T, 1)
<1>1. up \in Seq(Message)
  BY DEF KeyTypes
<1>2. /\ DOMAIN Tail(up) = 1 .. (Len(up) - 1) /\ Len(up) \in Nat /\ Head(up) = up[1] /\ 1 \in DOMAIN up
      /\ \A i \in DOMAIN Tail(up) : i \in Nat /\ i + 1 \in DOMAIN up /\ Tail(up)[i] = up[i + 1]
  BY <1>1, TailIs
<1>3. \A i \in DOMAIN up' : i \in Nat /\ i + 1 \in DOMAIN up /\ up'[i] = up[i + 1] /\ 1 < i + 1
  BY <1>2
<1>. QED  BY <1>2, <1>3 DEF UpBrings

LEMMA GatewayOutputStream == ASSUME RuntimeInv, RuntimeInv', StreamInv, GatewayOutput PROVE StreamInv'
<1>1. /\ UNCHANGED <<entry, proc, life, reqs, open, writing, screen, up, take>> /\ SrvType(srv) /\ KeyTypes /\ KeyTypes'
      /\ srv.conn # 0 /\ srv.viewN \in 1 .. MaxOut - 1 /\ srv' = [srv EXCEPT !.viewN = @ + 1]
      /\ down' = Append(down, [t |-> "output", n |-> srv.viewN + 1])
  BY DEF GatewayOutput, StreamInv, RestType, RuntimeInv, KeyInv
<1>2. PICK v : v = srv.viewN + 1
  OBVIOUS
<1>3. v \in 1 .. MaxOut /\ v \in Nat /\ srv.viewN < v /\ srv.viewN \in Nat /\ srv.viewN # 0 /\ (\A m \in Nat : m <= v => m <= srv.viewN \/ m = v)
  BY <1>1, <1>2, RuntimeConstants, SMTT(30)
<1>4. PICK f \in Downstream : f.t = "output" /\ f.n = v /\ down' = Append(down, f)
  <2>1. [t |-> "output", n |-> v] \in Downstream
    BY <1>3 DEF Downstream
  <2>. QED  BY <1>1, <1>2, <2>1
<1>5. /\ DOMAIN srv' = DOMAIN srv /\ (\A x \in SrvFields \ {"viewN"} : srv'[x] = srv[x]) /\ srv'.viewN = v
  BY <1>1, <1>2 DEF SrvType, SrvFields
<1>6. /\ srv'.fence = srv.fence /\ srv'.hist = srv.hist /\ srv'.used = srv.used /\ srv'.conn = srv.conn /\ srv'.committed = srv.committed
      /\ srv'.issued = srv.issued /\ srv'.redeemed = srv.redeemed /\ srv'.cancelled = srv.cancelled
  BY <1>5 DEF SrvFields
<1>7. GatewayOnly
  BY <1>1, <1>3, <1>5, <1>6 DEF GatewayOnly, SrvType, SrvOwned
<1>8. /\ \A i \in DOMAIN down : i \in Nat /\ i \in DOMAIN down' /\ down'[i] = down[i] /\ i < Len(down) + 1
      /\ \A i \in DOMAIN down' : i \in DOMAIN down \/ (i = Len(down) + 1 /\ down'[i] = f)
      /\ Len(down) + 1 \in DOMAIN down' /\ down'[Len(down) + 1] = f /\ Len(down) + 1 \in Nat
      /\ \A T : "output" \notin T => Brings(T, 0) /\ Retains(T, 0)
  BY <1>1, <1>4, OneAdded
<1>9. /\ LeakInv' /\ PumpInv' /\ RestType' /\ (Attached' <=> Attached) /\ EntryType(entry') /\ ProcType(proc') /\ ~entry'.bad
      /\ SameSeat(entry, entry') /\ SameWork(entry, entry') /\ SameScope(entry, entry')
  BY <1>7, GatewayOnlyKeeps
<1>10. proc.ph # "commit"
  BY <1>3 DEF StreamInv, FreshInv
<1>11. ReceiptInv'
  <2>1. Brings({"acknowledgement"}, 0) /\ UpBrings({"input"}, 0) /\ ReceiptInv /\ EntryType(entry) /\ StaysAttached
    BY <1>1, <1>8, <1>9, UpSame DEF StreamInv, StaysAttached
  <2>. QED  BY <1>1, <1>6, <1>9, <2>1, ReceiptKeeps
<1>12. Seen' = Seen /\ (Writing' <=> Writing) /\ entry' = entry
  BY <1>1 DEF Seen, Writing
<1>13. ASSUME Attached
       PROVE  ViewInv' /\ GatewayInv'
  <2>1. ViewInv /\ GatewayInv
    BY <1>13 DEF StreamInv
  <2>2. Seen <= srv.viewN /\ Seen \in Nat
    <3>1. Seen \in Nat
      <4>1. entry.out \in Nat /\ writing.n \in Nat
        BY RuntimeConstants DEF StreamInv, EntryType, RestType
      <4>. QED  BY <4>1 DEF Seen
    <3>. QED  BY <1>1, <1>3, <2>1, <3>1 DEF GatewayInv
  <2>3. \A i \in DOMAIN down : IsOutput(i) => down[i].n <= srv.viewN /\ down[i].n \in Nat
    BY <1>1, <1>3, <2>1, FrameNumbers DEF GatewayInv, IsOutput
  <2>4. ASSUME NEW i \in DOMAIN down', IsOutput(i)'
        PROVE  /\ down'[i].n <= v /\ down'[i].n \in Nat /\ down'[i].n > Seen
               /\ \A j \in DOMAIN down' : j < i /\ IsOutput(j)' => down'[j].n < down'[i].n
               /\ \A m \in Nat : Seen < m /\ m <= down'[i].n => \E j \in DOMAIN down' : j <= i /\ IsOutput(j)' /\ down'[j].n = m
    <3>1. CASE i \in DOMAIN down
      <4>1. IsOutput(i) /\ down'[i] = down[i] /\ i \in Nat /\ i < Len(down) + 1
        BY <1>8, <2>4, <3>1 DEF IsOutput
      <4>2. \A j \in DOMAIN down' : j < i => j \in DOMAIN down /\ down'[j] = down[j]
        BY <1>8, <4>1
      <4>3. down'[i].n <= v
        BY <1>3, <2>3, <3>1, <4>1
      <4>4. \A m \in Nat : Seen < m /\ m <= down'[i].n => \E j \in DOMAIN down' : j <= i /\ IsOutput(j)' /\ down'[j].n = m
        BY <1>8, <2>1, <3>1, <4>1 DEF ViewInv, IsOutput
      <4>5. \A j \in DOMAIN down' : j < i /\ IsOutput(j)' => down'[j].n < down'[i].n
        BY <2>1, <3>1, <4>1, <4>2 DEF ViewInv, IsOutput
      <4>6. down'[i].n > Seen
        BY <2>1, <3>1, <4>1 DEF ViewInv
      <4>. QED  BY <2>3, <3>1, <4>1, <4>3, <4>4, <4>5, <4>6
    <3>2. CASE i = Len(down) + 1 /\ down'[i] = f
      <4>1. down'[i].n = v /\ v > Seen
        BY <1>3, <1>4, <2>2, <3>2
      <4>2. \A j \in DOMAIN down' : j < i => j \in DOMAIN down /\ down'[j] = down[j]
        BY <1>8, <3>2
      <4>3. \A j \in DOMAIN down' : j < i /\ IsOutput(j)' => down'[j].n < down'[i].n
        BY <1>3, <2>3, <4>1, <4>2 DEF IsOutput
      <4>4. ASSUME NEW m \in Nat, Seen < m, m <= down'[i].n
            PROVE  \E j \in DOMAIN down' : j <= i /\ IsOutput(j)' /\ down'[j].n = m
        <5>1. CASE m = v
          BY <1>8, <2>4, <3>2, <4>1, <5>1
        <5>2. CASE m <= srv.viewN
          <6>1. PICK j \in DOMAIN down : IsOutput(j) /\ down[j].n = m
            BY <1>1, <1>3, <2>1, <4>4, <5>2 DEF GatewayInv
          <6>2. j \in DOMAIN down' /\ down'[j] = down[j] /\ j <= i
            BY <1>8, <3>2
          <6>. QED  BY <6>1, <6>2 DEF IsOutput
        <5>. QED  BY <1>3, <4>1, <4>4, <5>1, <5>2
      <4>. QED  BY <1>3, <4>1, <4>3, <4>4
    <3>. QED  BY <1>8, <3>1, <3>2
  <2>5. ASSUME NEW i \in DOMAIN down', down'[i].t # "output"
        PROVE  i \in DOMAIN down /\ down'[i] = down[i] /\ \A j \in DOMAIN down' : j < i => j \in DOMAIN down /\ down'[j] = down[j]
    <3>1. i \in DOMAIN down /\ i \in Nat /\ i < Len(down) + 1
      BY <1>4, <1>8, <2>5
    <3>. QED  BY <1>8, <3>1
  <2>6. entry.view = "none" => \E i \in DOMAIN down' : down'[i].t = "view_started" /\ (\A j \in DOMAIN down' : IsOutput(j)' => i < j)
    <3>1. SUFFICES ASSUME entry.view = "none"
                   PROVE  \E i \in DOMAIN down' : down'[i].t = "view_started" /\ (\A j \in DOMAIN down' : IsOutput(j)' => i < j)
      OBVIOUS
    <3>2. PICK i \in DOMAIN down : down[i].t = "view_started"
      BY <1>1, <1>3, <2>1, <3>1 DEF GatewayInv
    <3>3. \A j \in DOMAIN down : IsOutput(j) => i < j
      <4>1. ASSUME NEW j \in DOMAIN down, IsOutput(j), ~(i < j)
            PROVE  FALSE
        <5>1. i \in Nat /\ j \in Nat /\ i # j
          BY <1>8, <3>2, <4>1 DEF IsOutput
        <5>2. j < i
          BY <4>1, <5>1
        <5>. QED  BY <2>1, <3>2, <4>1, <5>2 DEF ViewInv, IsView, IsOutput
      <4>. QED  BY <4>1
    <3>4. ASSUME NEW j \in DOMAIN down', IsOutput(j)'
          PROVE  i < j
      BY <1>8, <3>3, <3>4 DEF IsOutput
    <3>. QED  BY <1>8, <3>2, <3>4
  <2>7. ViewInv'
    <3>1. ASSUME NEW i \in DOMAIN down', down'[i].t = "view_started"
          PROVE  entry.view = "none" /\ \A j \in DOMAIN down' : j < i => ~IsView(j)'
      BY <2>1, <2>5, <3>1 DEF ViewInv, IsView
    <3>2. ASSUME NEW i \in DOMAIN down', down'[i].t \in {"output", "view_ready"}, entry.view = "none"
          PROVE  \E j \in DOMAIN down' : j < i /\ down'[j].t = "view_started"
      <4>1. CASE down'[i].t = "output"
        BY <2>6, <3>2, <4>1 DEF IsOutput
      <4>2. CASE down'[i].t = "view_ready"
        BY <1>8, <2>1, <2>5, <3>2, <4>2 DEF ViewInv
      <4>. QED  BY <3>2, <4>1, <4>2
    <3>3. ASSUME NEW i \in DOMAIN down', down'[i].t = "view_ready"
          PROVE  /\ down'[i].n = 1 /\ entry.view # "ready" /\ Seen <= 1
                 /\ Seen = 1 \/ \E j \in DOMAIN down' : j < i /\ IsOutput(j)'
                 /\ \A j \in DOMAIN down' : j < i => down'[j].t # "view_ready" /\ (IsOutput(j)' => down'[j].n = 1)
      <4>1. i \in DOMAIN down /\ down'[i] = down[i] /\ \A j \in DOMAIN down' : j < i => j \in DOMAIN down /\ down'[j] = down[j]
        BY <2>5, <3>3
      <4>2. down[i].n = 1 /\ entry.view # "ready" /\ Seen <= 1
        BY <2>1, <3>3, <4>1 DEF ViewInv
      <4>3. Seen = 1 \/ \E j \in DOMAIN down' : j < i /\ IsOutput(j)'
        BY <1>8, <2>1, <3>3, <4>1 DEF ViewInv, IsOutput
      <4>4. \A j \in DOMAIN down' : j < i => down'[j].t # "view_ready" /\ (IsOutput(j)' => down'[j].n = 1)
        BY <2>1, <3>3, <4>1 DEF ViewInv, IsOutput
      <4>. QED  BY <4>1, <4>2, <4>3, <4>4
    <3>4. /\ entry.view = "none" => entry.out = 0 /\ ~Writing
          /\ Writing => writing.n = entry.out + 1
      BY <2>1 DEF ViewInv
    <3>. QED  BY <1>1, <1>12, <2>4, <3>1, <3>2, <3>3, <3>4 DEF ViewInv
  <2>8. GatewayInv'
    <3>1. \A i \in DOMAIN up : up[i].t # "resume"
      BY <1>1, <1>3, <2>1 DEF GatewayInv
    <3>2. ASSUME NEW m \in Nat, Seen < m, m <= v
          PROVE  \E j \in DOMAIN down' : IsOutput(j)' /\ down'[j].n = m
      <4>0. PICK k \in DOMAIN down' : down'[k] = f
        BY <1>8
      <4>1. IsOutput(k)' /\ down'[k].n = v
        BY <1>4, <4>0 DEF IsOutput
      <4>2. m <= down'[k].n
        BY <3>2, <4>1
      <4>. QED  BY <2>4, <3>2, <4>1, <4>2
    <3>3. Seen <= v
      BY <1>3, <2>2
    <3>. QED  BY <1>1, <1>3, <1>5, <1>12, <2>4, <2>6, <3>1, <3>2, <3>3 DEF GatewayInv
  <2>. QED  BY <2>7, <2>8
<1>14. OutputsBounded'
  BY <1>3, <1>4, <1>8 DEF StreamInv, OutputsBounded, IsOutput
<1>15. ViewPart'
  BY <1>1, <1>9, <1>13, <1>14 DEF ViewPart, StreamInv, ScreenInv, ScreenIsAView
<1>16. Brings({"control_state", "writer_epoch"}, 0) /\ Retains({"writer_epoch"}, 0)
  BY <1>8
<1>. QED  BY <1>1, <1>6, <1>9, <1>10, <1>11, <1>15, <1>16, Assembled DEF StaysAttached

\* The gateway accepts input and says so, after all it has said before.
LEMMA ReceiptSent ==
    ASSUME RuntimeInv, RuntimeInv', StreamInv, GatewayOnly, srv'.conn = srv.conn, srv.conn # 0, srv'.viewN = srv.viewN,
           up # <<>>, Head(up).t = "input", up' = Tail(up),
           NEW f \in Downstream, f.t = "acknowledgement", f.n = Head(up).seq, down' = Append(down, f)
    PROVE  StreamInv'
<1>1. KeyTypes /\ KeyTypes' /\ EntryType(entry)
  BY DEF RuntimeInv, KeyInv, StreamInv
<1>2. /\ \A i \in DOMAIN down : i \in Nat /\ i \in DOMAIN down' /\ down'[i] = down[i] /\ i < Len(down) + 1
      /\ \A i \in DOMAIN down' : i \in DOMAIN down \/ (i = Len(down) + 1 /\ down'[i] = f)
      /\ Len(down) + 1 \in Nat
      /\ \A T : "acknowledgement" \notin T => Brings(T, 0) /\ Retains(T, 0)
  BY <1>1, OneAdded
<1>3. /\ \A i \in DOMAIN up' : i \in Nat /\ i + 1 \in DOMAIN up /\ up'[i] = up[i + 1] /\ 1 < i + 1
      /\ 1 \in DOMAIN up /\ Head(up) = up[1]
      /\ \A T : UpBrings(T, 1)
  BY <1>1, UpTaken
<1>4. /\ LeakInv' /\ PumpInv' /\ RestType' /\ (Attached' <=> Attached) /\ EntryType(entry') /\ ProcType(proc') /\ ~entry'.bad
      /\ SameSeat(entry, entry') /\ SameWork(entry, entry') /\ SameScope(entry, entry')
  BY GatewayOnlyKeeps
<1>5. proc.ph # "commit" /\ proc' = proc
  BY DEF StreamInv, FreshInv, GatewayOnly
<1>6. ViewPart'
  <2>1. CoreStep(0, 1)
    BY <1>2, <1>3, <1>4 DEF CoreStep, StaysAttached, GatewayOnly, ViewFrames
  <2>. QED  BY <1>1, <2>1, CoreKeeps
<1>7. ReceiptInv'
  <2>. DEFINE n == up[1].seq
  <2>1. entry' = entry /\ \A m : Due(m)' <=> Due(m)
    BY DEF GatewayOnly, Due
  <2>2. SUFFICES ASSUME Attached
                 PROVE  /\ \A i \in DOMAIN down' : IsReceipt(i)' => Due(down'[i].n)
                        /\ \A i, j \in DOMAIN down' : i < j /\ IsReceipt(i)' /\ IsReceipt(j)' => down'[i].n < down'[j].n
                        /\ \A i \in DOMAIN up' : IsInput(i)' => Due(up'[i].seq)
                        /\ \A i, j \in DOMAIN up' : i < j /\ IsInput(i)' /\ IsInput(j)' => up'[i].seq < up'[j].seq
                        /\ \A i \in DOMAIN down', j \in DOMAIN up' : IsReceipt(i)' /\ IsInput(j)' => down'[i].n < up'[j].seq
    <3>1. (\A i \in DOMAIN down' : Due(down[i].n)' <=> Due(down'[i].n)) /\ (\A i \in DOMAIN up' : Due(up[i].seq)' <=> Due(up'[i].seq))
      BY <2>1 DEF Due
    <3>2. /\ entry'.inputSeq <= entry'.wire /\ entry'.acked <= entry'.wire /\ entry'.retired <= entry'.wire
          /\ \A p \in entry'.pend : p <= entry'.inputSeq
      BY <2>1 DEF StreamInv, ReceiptInv
    <3>. QED  BY <1>4, <3>1, <3>2 DEF ReceiptInv
  <2>3. /\ \A i \in DOMAIN down : IsReceipt(i) => Due(down[i].n)
        /\ \A i, j \in DOMAIN down : i < j /\ IsReceipt(i) /\ IsReceipt(j) => down[i].n < down[j].n
        /\ \A i \in DOMAIN up : IsInput(i) => Due(up[i].seq) /\ up[i].seq \in Nat
        /\ \A i, j \in DOMAIN up : i < j /\ IsInput(i) /\ IsInput(j) => up[i].seq < up[j].seq
        /\ \A i \in DOMAIN down, j \in DOMAIN up : IsReceipt(i) /\ IsInput(j) => down[i].n < up[j].seq
    BY <1>1, <2>2, FrameNumbers DEF StreamInv, ReceiptInv
  <2>4. IsInput(1) /\ f.n = n /\ n \in Nat /\ Due(n)
    BY <1>3, <2>3 DEF IsInput
  <2>. HIDE DEF n
  <2>5. \A i \in DOMAIN down' : \/ i \in DOMAIN down /\ down'[i] = down[i] /\ (IsReceipt(i)' <=> IsReceipt(i))
                                \/ i = Len(down) + 1 /\ down'[i].n = n
    BY <1>2, <2>4 DEF IsReceipt
  <2>6. \A i \in DOMAIN up' : i + 1 \in DOMAIN up /\ up'[i] = up[i + 1] /\ (IsInput(i)' <=> IsInput(i + 1)) /\ 1 < i + 1 /\ i \in Nat
    BY <1>3 DEF IsInput
  <2>7. \A i \in DOMAIN down : IsReceipt(i) => down[i].n < n
    BY <1>3, <2>3, <2>4 DEF n
  <2>8. \A j \in DOMAIN up' : IsInput(j)' => n < up'[j].seq
    BY <1>3, <2>3, <2>4, <2>6 DEF n
  <2>9. \A i \in DOMAIN down' : IsReceipt(i)' => Due(down'[i].n)
    BY <2>3, <2>4, <2>5
  <2>10. ASSUME NEW i \in DOMAIN down', NEW j \in DOMAIN down', i < j, IsReceipt(i)', IsReceipt(j)'
         PROVE  down'[i].n < down'[j].n
    <3>1. i \in DOMAIN down
      <4>1. ASSUME i = Len(down) + 1
            PROVE  FALSE
        <5>1. j \in DOMAIN down \/ j = Len(down) + 1
          BY <1>2
        <5>. QED  BY <1>2, <2>10, <4>1, <5>1
      <4>. QED  BY <1>2, <4>1
    <3>2. down'[i] = down[i] /\ IsReceipt(i)
      BY <1>2, <2>10, <3>1 DEF IsReceipt
    <3>. QED  BY <2>3, <2>5, <2>7, <2>10, <3>1, <3>2
  <2>11. \A i \in DOMAIN up' : IsInput(i)' => Due(up'[i].seq)
    BY <2>3, <2>6
  <2>12. \A i, j \in DOMAIN up' : i < j /\ IsInput(i)' /\ IsInput(j)' => up'[i].seq < up'[j].seq
    <3>1. \A i, j \in DOMAIN up' : i < j => i + 1 < j + 1
      BY <1>3
    <3>. QED  BY <2>3, <2>6, <3>1
  <2>13. \A i \in DOMAIN down', j \in DOMAIN up' : IsReceipt(i)' /\ IsInput(j)' => down'[i].n < up'[j].seq
    BY <2>3, <2>5, <2>6, <2>8
  <2>. QED  BY <2>9, <2>10, <2>11, <2>12, <2>13
<1>8. Brings({"control_state", "writer_epoch"}, 0) /\ Retains({"writer_epoch"}, 0)
  BY <1>2
<1>. QED  BY <1>4, <1>5, <1>6, <1>7, <1>8, Assembled DEF StaysAttached, GatewayOnly

LEMMA GatewayInputStream == ASSUME RuntimeInv, RuntimeInv', StreamInv, GatewayInput PROVE StreamInv'
<1>1. /\ UNCHANGED <<entry, proc, life, reqs, open, writing, screen, take>> /\ SrvType(srv) /\ KeyTypes /\ KeyTypes'
      /\ srv.conn # 0 /\ up # <<>> /\ Head(up).t = "input" /\ up' = Tail(up)
  BY DEF GatewayInput, StreamInv, RestType, RuntimeInv, KeyInv
<1>2. CASE srv' = [srv EXCEPT !.accepted = Append(@, <<Head(up).key, srv.conn>>)] /\ down' = Append(down, [t |-> "acknowledgement", n |-> Head(up).seq])
  <2>1. DOMAIN srv' = DOMAIN srv /\ (\A x \in SrvFields \ {"accepted"} : srv'[x] = srv[x])
    BY <1>1, <1>2 DEF SrvType, SrvFields
  <2>2. /\ srv'.fence = srv.fence /\ srv'.hist = srv.hist /\ srv'.used = srv.used /\ srv'.conn = srv.conn /\ srv'.committed = srv.committed
        /\ srv'.issued = srv.issued /\ srv'.redeemed = srv.redeemed /\ srv'.cancelled = srv.cancelled /\ srv'.viewN = srv.viewN
    BY <2>1 DEF SrvFields
  <2>3. GatewayOnly
    BY <1>1, <2>1, <2>2 DEF GatewayOnly, SrvType, SrvOwned
  <2>4. PICK f \in Downstream : f.t = "acknowledgement" /\ f.n = Head(up).seq /\ down' = Append(down, f)
    <3>1. Head(up) = up[1] /\ 1 \in DOMAIN up
      BY <1>1, UpTaken
    <3>2. Head(up).seq \in Nat
      BY <1>1, <3>1, FrameNumbers DEF IsInput
    <3>3. [t |-> "acknowledgement", n |-> Head(up).seq] \in Downstream
      BY <3>2 DEF Downstream
    <3>. QED  BY <1>2, <3>3
  <2>. QED  BY <1>1, <2>2, <2>3, <2>4, ReceiptSent
<1>3. CASE srv' = [srv EXCEPT !.conn = 0] /\ down' = down
  <2>1. DOMAIN srv' = DOMAIN srv /\ (\A x \in SrvFields \ {"conn"} : srv'[x] = srv[x]) /\ srv'.conn = 0
    BY <1>1, <1>3 DEF SrvType, SrvFields
  <2>2. /\ srv'.fence = srv.fence /\ srv'.hist = srv.hist /\ srv'.used = srv.used /\ srv'.committed = srv.committed
        /\ srv'.issued = srv.issued /\ srv'.redeemed = srv.redeemed /\ srv'.cancelled = srv.cancelled /\ srv'.viewN = srv.viewN
    BY <2>1 DEF SrvFields
  <2>3. GatewayOnly
    BY <1>1, <2>1, <2>2 DEF GatewayOnly, SrvType, SrvOwned
  <2>4. /\ LeakInv' /\ PumpInv' /\ RestType' /\ (Attached' <=> Attached) /\ EntryType(entry') /\ ProcType(proc') /\ ~entry'.bad
        /\ SameSeat(entry, entry') /\ SameWork(entry, entry') /\ SameScope(entry, entry')
    BY <2>3, GatewayOnlyKeeps
  <2>5. \A T : Brings(T, 0) /\ Retains(T, 0) /\ UpBrings(T, 0)
    BY <1>1, <1>3, <2>1, StreamSame, UpSame
  <2>6. CoreStep(0, 0)
    BY <1>1, <2>1, <2>2, <2>4, <2>5 DEF CoreStep, StaysAttached
  <2>7. ViewPart'
    BY <1>1, <2>6, CoreKeeps
  <2>8. ReceiptInv'
    <3>1. Brings({"acknowledgement"}, 0) /\ UpBrings({"input"}, 0) /\ ReceiptInv /\ EntryType(entry) /\ StaysAttached
      BY <2>4, <2>5 DEF StreamInv, StaysAttached
    <3>. QED  BY <1>1, <2>1, <2>4, <3>1, ReceiptKeeps
  <2>9. proc.ph # "commit"
    BY <1>1 DEF StreamInv, FreshInv
  <2>. QED  BY <1>1, <2>2, <2>4, <2>5, <2>7, <2>8, <2>9, Assembled DEF StaysAttached
<1>. QED  BY <1>2, <1>3 DEF GatewayInput

\* A view is put on the stream.
LEMMA ViewAdded ==
    ASSUME KeyTypes, NEW s \in Seq(Downstream), Len(s) = 3, down' = down \o s
    PROVE  /\ \A i \in DOMAIN down : i \in Nat /\ i \in DOMAIN down' /\ down'[i] = down[i]
           /\ \E n \in Nat :
                 /\ \A i \in DOMAIN down : i < n
                 /\ \A i \in DOMAIN down' : i \in DOMAIN down \/ i = n \/ i = n + 1 \/ i = n + 2
                 /\ {n, n + 1, n + 2} \subseteq DOMAIN down'
                 /\ down'[n] = s[1] /\ down'[n + 1] = s[2] /\ down'[n + 2] = s[3]
           /\ \A T : {s[1].t, s[2].t, s[3].t} \cap T = {} => Brings(T, 0) /\ Retains(T, 0)
<1>1. down \in Seq(Downstream) /\ DOMAIN down = 1 .. Len(down) /\ Len(down) \in Nat
  BY DEF KeyTypes
<1>. DEFINE n == Len(down) + 1
<1>2. DOMAIN s = {1, 2, 3}
  OBVIOUS
<1>3. DOMAIN down' = 1 .. (Len(down) + 3)
      /\ \A i \in 1 .. (Len(down) + 3) : down'[i] = IF i <= Len(down) THEN down[i] ELSE s[i - Len(down)]
  <2>1. /\ DOMAIN down' = 1 .. (Len(down) + Len(s))
        /\ \A i \in 1 .. (Len(down) + Len(s)) : down'[i] = IF i <= Len(down) THEN down[i] ELSE s[i - Len(down)]
    <3>1. down \o s \in Seq(Downstream) /\ Len(down \o s) = Len(down) + Len(s)
          /\ \A i \in 1 .. (Len(down) + Len(s)) : (down \o s)[i] = IF i <= Len(down) THEN down[i] ELSE s[i - Len(down)]
      BY <1>1, ConcatProperties
    <3>. QED  BY <3>1
  <2>. QED  BY <2>1
<1>4. \A i \in DOMAIN down : i \in Nat /\ i \in DOMAIN down' /\ down'[i] = down[i] /\ i < n
  BY <1>1, <1>3
<1>5. /\ n \in DOMAIN down' /\ down'[n] = s[1] /\ n + 1 \in DOMAIN down' /\ down'[n + 1] = s[2]
      /\ n + 2 \in DOMAIN down' /\ down'[n + 2] = s[3] /\ n \in Nat
  <2>1. /\ n \in 1 .. (Len(down) + 3) /\ ~(n <= Len(down)) /\ n - Len(down) = 1
        /\ n + 1 \in 1 .. (Len(down) + 3) /\ ~(n + 1 <= Len(down)) /\ (n + 1) - Len(down) = 2
        /\ n + 2 \in 1 .. (Len(down) + 3) /\ ~(n + 2 <= Len(down)) /\ (n + 2) - Len(down) = 3 /\ n \in Nat
    BY <1>1
  <2>. QED  BY <1>3, <2>1
<1>6. \A i \in DOMAIN down' : i \in DOMAIN down \/ i = n \/ i = n + 1 \/ i = n + 2
  BY <1>1, <1>3
<1>7. ASSUME NEW T, {s[1].t, s[2].t, s[3].t} \cap T = {}
      PROVE  Brings(T, 0) /\ Retains(T, 0)
  <2>1. \A i \in DOMAIN s : s[i].t \notin T
    BY <1>2, <1>7
  <2>. QED  BY <1>2, <2>1, FramesAdded
<1>. HIDE DEF n
<1>8. /\ \A i \in DOMAIN down : i < n
      /\ {n, n + 1, n + 2} \subseteq DOMAIN down'
      /\ down'[n] = s[1] /\ down'[n + 1] = s[2] /\ down'[n + 2] = s[3]
  BY <1>4, <1>5
<1>. QED  BY <1>4, <1>5, <1>6, <1>7, <1>8

LEMMA GatewayResumeStream == ASSUME RuntimeInv, RuntimeInv', StreamInv, GatewayResume PROVE StreamInv'
<1>1. /\ UNCHANGED <<entry, proc, life, reqs, open, writing, screen, take>> /\ SrvType(srv) /\ KeyTypes /\ KeyTypes'
      /\ srv.conn # 0 /\ up # <<>> /\ Head(up).t = "resume" /\ up' = Tail(up) /\ srv' = [srv EXCEPT !.viewN = 1]
      /\ down' = down \o <<[t |-> "view_started"], [t |-> "output", n |-> 1], [t |-> "view_ready", n |-> 1]>>
  BY DEF GatewayResume, StreamInv, RestType, RuntimeInv, KeyInv
<1>2. /\ DOMAIN srv' = DOMAIN srv /\ (\A x \in SrvFields \ {"viewN"} : srv'[x] = srv[x]) /\ srv'.viewN = 1
  BY <1>1 DEF SrvType, SrvFields
<1>3. /\ srv'.fence = srv.fence /\ srv'.hist = srv.hist /\ srv'.used = srv.used /\ srv'.conn = srv.conn /\ srv'.committed = srv.committed
      /\ srv'.issued = srv.issued /\ srv'.redeemed = srv.redeemed /\ srv'.cancelled = srv.cancelled
  BY <1>2 DEF SrvFields
<1>4. GatewayOnly
  BY <1>1, <1>2, <1>3 DEF GatewayOnly, SrvType, SrvOwned
<1>5. PICK a \in Downstream, b \in Downstream, c \in Downstream :
         /\ a.t = "view_started" /\ b.t = "output" /\ b.n = 1 /\ c.t = "view_ready" /\ c.n = 1 /\ down' = down \o <<a, b, c>>
  <2>1. [t |-> "view_started"] \in Downstream /\ [t |-> "output", n |-> 1] \in Downstream /\ [t |-> "view_ready", n |-> 1] \in Downstream
    BY DEF Downstream
  <2>. QED  BY <1>1, <2>1
<1>0. PICK s \in Seq(Downstream) : s[1] = a /\ s[2] = b /\ s[3] = c /\ Len(s) = 3 /\ down' = down \o s
  <2>1. <<a, b, c>> \in Seq(Downstream) /\ Len(<<a, b, c>>) = 3 /\ <<a, b, c>>[1] = a /\ <<a, b, c>>[2] = b /\ <<a, b, c>>[3] = c
    OBVIOUS
  <2>. QED  BY <1>5, <2>1
<1>v. /\ \A i \in DOMAIN down : i \in Nat /\ i \in DOMAIN down' /\ down'[i] = down[i]
      /\ \E n \in Nat :
            /\ \A i \in DOMAIN down : i < n
            /\ \A i \in DOMAIN down' : i \in DOMAIN down \/ i = n \/ i = n + 1 \/ i = n + 2
            /\ {n, n + 1, n + 2} \subseteq DOMAIN down'
            /\ down'[n] = s[1] /\ down'[n + 1] = s[2] /\ down'[n + 2] = s[3]
      /\ \A T : {s[1].t, s[2].t, s[3].t} \cap T = {} => Brings(T, 0) /\ Retains(T, 0)
  BY <1>0, <1>1, ViewAdded
<1>6. /\ \A i \in DOMAIN down : i \in Nat /\ i \in DOMAIN down' /\ down'[i] = down[i]
      /\ \A T : {a.t, b.t, c.t} \cap T = {} => Brings(T, 0) /\ Retains(T, 0)
  BY <1>0, <1>v
<1>7. PICK n \in Nat :
         /\ \A i \in DOMAIN down : i < n
         /\ \A i \in DOMAIN down' : i \in DOMAIN down \/ i = n \/ i = n + 1 \/ i = n + 2
         /\ {n, n + 1, n + 2} \subseteq DOMAIN down'
         /\ down'[n] = a /\ down'[n + 1] = b /\ down'[n + 2] = c
  BY <1>0, <1>v
<1>8. n + 1 \in Nat /\ n + 2 \in Nat /\ n < n + 1 /\ n + 1 < n + 2 /\ n < n + 2
  OBVIOUS
<1>9. /\ \A i \in DOMAIN up' : i \in Nat /\ i + 1 \in DOMAIN up /\ up'[i] = up[i + 1] /\ 1 < i + 1
      /\ 1 \in DOMAIN up /\ Head(up) = up[1]
      /\ \A T : UpBrings(T, 1)
  BY <1>1, UpTaken
<1>10. /\ LeakInv' /\ PumpInv' /\ RestType' /\ (Attached' <=> Attached) /\ EntryType(entry') /\ ProcType(proc') /\ ~entry'.bad
       /\ SameSeat(entry, entry') /\ SameWork(entry, entry') /\ SameScope(entry, entry')
  BY <1>4, GatewayOnlyKeeps
<1>11. proc.ph # "commit"
  BY <1>1 DEF StreamInv, FreshInv
<1>12. Brings({"control_state", "writer_epoch"}, 0) /\ Retains({"writer_epoch"}, 0) /\ Brings({"acknowledgement"}, 0)
  BY <1>5, <1>6
<1>13. ReceiptInv'
  <2>1. UpBrings({"input"}, 1) /\ ReceiptInv /\ EntryType(entry) /\ StaysAttached
    BY <1>9, <1>10 DEF StreamInv, StaysAttached
  <2>. QED  BY <1>1, <1>3, <1>10, <1>12, <2>1, ReceiptKeeps
<1>14. OutputsBounded'
  <2>1. 1 \in 1 .. MaxOut
    BY RuntimeConstants
  <2>2. ASSUME NEW i \in DOMAIN down', IsOutput(i)'
        PROVE  down'[i].n \in 1 .. MaxOut
    <3>1. CASE i \in DOMAIN down
      BY <1>6, <2>2, <3>1 DEF StreamInv, OutputsBounded, IsOutput
    <3>2. CASE down'[i] = b
      BY <1>5, <2>1, <3>2
    <3>3. CASE down'[i] = a \/ down'[i] = c
      BY <1>5, <2>2, <3>3 DEF IsOutput
    <3>. QED  BY <1>7, <3>1, <3>2, <3>3
  <2>. QED  BY <2>2 DEF OutputsBounded
<1>15. ASSUME Attached
       PROVE  ViewInv' /\ GatewayInv'
  <2>1. ViewInv /\ GatewayInv
    BY <1>15 DEF StreamInv
  <2>2. srv.viewN = 0 /\ entry.view = "none" /\ (\A i \in DOMAIN down : ~IsView(i))
    <3>1. up[1].t = "resume"
      BY <1>1, <1>9
    <3>. QED  BY <1>1, <1>9, <2>1, <3>1 DEF GatewayInv
  <2>3. Seen' = 0 /\ ~Writing' /\ entry' = entry /\ entry.out = 0
    BY <1>1, <2>1, <2>2 DEF Seen, Writing, ViewInv
  <2>4. \A i \in DOMAIN down : down'[i].t \notin {"view_started", "output", "view_ready"}
    BY <1>6, <2>2 DEF IsView
  <2>5. /\ \A i \in DOMAIN down' : down'[i].t = "view_started" => i = n
        /\ \A i \in DOMAIN down' : IsOutput(i)' => i = n + 1 /\ down'[i].n = 1
        /\ \A i \in DOMAIN down' : down'[i].t = "view_ready" => i = n + 2 /\ down'[i].n = 1
    BY <1>5, <1>7, <2>4 DEF IsOutput
  <2>6. n \in DOMAIN down' /\ down'[n].t = "view_started" /\ n + 1 \in DOMAIN down' /\ IsOutput(n + 1)' /\ down'[n + 1].n = 1
    BY <1>5, <1>7 DEF IsOutput
  <2>7. \A m \in Nat : 0 < m /\ m <= 1 => m = 1
    OBVIOUS
  <2>8. ViewInv'
    <3>1. ASSUME NEW i \in DOMAIN down', down'[i].t = "view_started"
          PROVE  \A j \in DOMAIN down' : j < i => ~IsView(j)'
      <4>1. ASSUME NEW j \in DOMAIN down', j < i, IsView(j)'
            PROVE  FALSE
        <5>1. i = n /\ (j = n \/ j = n + 1 \/ j = n + 2)
          BY <2>5, <3>1, <4>1 DEF IsView, IsOutput
        <5>. QED  BY <4>1, <5>1
      <4>. QED  BY <4>1
    <3>2. ASSUME NEW i \in DOMAIN down', down'[i].t \in {"output", "view_ready"}
          PROVE  \E j \in DOMAIN down' : j < i /\ down'[j].t = "view_started"
      <4>1. i = n + 1 \/ i = n + 2
        BY <2>5, <3>2 DEF IsOutput
      <4>. QED  BY <1>8, <2>6, <4>1
    <3>3. ASSUME NEW i \in DOMAIN down', IsOutput(i)'
          PROVE  /\ down'[i].n > 0
                 /\ \A j \in DOMAIN down' : j < i /\ IsOutput(j)' => down'[j].n < down'[i].n
                 /\ \A m \in Nat : 0 < m /\ m <= down'[i].n => \E j \in DOMAIN down' : j <= i /\ IsOutput(j)' /\ down'[j].n = m
      <4>1. i = n + 1 /\ down'[i].n = 1
        BY <2>5, <3>3
      <4>2. \A j \in DOMAIN down' : ~(j < i /\ IsOutput(j)')
        BY <2>5, <4>1
      <4>. QED  BY <2>7, <3>3, <4>1, <4>2
    <3>4. ASSUME NEW i \in DOMAIN down', down'[i].t = "view_ready"
          PROVE  /\ down'[i].n = 1
                 /\ \E j \in DOMAIN down' : j < i /\ IsOutput(j)'
                 /\ \A j \in DOMAIN down' : j < i => down'[j].t # "view_ready" /\ (IsOutput(j)' => down'[j].n = 1)
      <4>1. i = n + 2 /\ down'[i].n = 1
        BY <2>5, <3>4
      <4>2. \A j \in DOMAIN down' : j < i => down'[j].t # "view_ready"
        BY <2>5, <4>1
      <4>3. \E j \in DOMAIN down' : j < i /\ IsOutput(j)'
        BY <1>8, <2>6, <4>1
      <4>4. \A j \in DOMAIN down' : IsOutput(j)' => down'[j].n = 1
        BY <2>5
      <4>5. down'[i].n = 1
        BY <4>1
      <4>6. \A j \in DOMAIN down' : j < i => down'[j].t # "view_ready" /\ (IsOutput(j)' => down'[j].n = 1)
        BY <4>2, <4>4
      <4>. QED  BY <4>3, <4>5, <4>6
    <3>5. entry'.view = "none" /\ entry'.out = 0 /\ ~Writing' /\ Seen' = 0 /\ "none" # "ready"
      BY <2>2, <2>3
    <3>. QED  BY <3>1, <3>2, <3>3, <3>4, <3>5 DEF ViewInv
  <2>9. GatewayInv'
    <3>1. \A i \in DOMAIN up' : up'[i].t # "resume"
      <4>1. ASSUME NEW i \in DOMAIN up', up'[i].t = "resume"
            PROVE  FALSE
        <5>1. i + 1 = 1
          BY <1>1, <1>9, <2>1, <4>1 DEF GatewayInv
        <5>. QED  BY <1>9, <5>1
      <4>. QED  BY <4>1
    <3>2. \A m \in Nat : 0 < m /\ m <= 1 => \E j \in DOMAIN down' : IsOutput(j)' /\ down'[j].n = m
      BY <2>6, <2>7
    <3>3. \A i \in DOMAIN down' : IsOutput(i)' => down'[i].n <= 1
      BY <2>5
    <3>. QED  BY <1>2, <2>3, <2>6, <3>1, <3>2, <3>3 DEF GatewayInv
  <2>. QED  BY <2>8, <2>9
<1>16. ViewPart'
  BY <1>1, <1>10, <1>14, <1>15 DEF ViewPart, StreamInv, ScreenInv, ScreenIsAView
<1>. QED  BY <1>1, <1>3, <1>10, <1>11, <1>12, <1>13, <1>16, Assembled DEF StaysAttached

-----------------------------------------------------------------------------
(* The seat moves *)

\* A notice of the seat that the entry follows, or is past.
LEMMA NoticeRead ==
    ASSUME RuntimeInv, RuntimeInv', StreamInv, Frame("writer_epoch"), NEW e, Apply(e), EntryType(e), ~e.bad, SamePlace(e),
           SameScope(entry, e), e.view = entry.view, e.out = entry.out, e.epoch >= entry.epoch, e.epoch >= down[1].epoch, e.epoch <= SrvEpoch,
           e.notice[1] # 0 => e.notice[1] \in 1 .. SrvEpoch /\ e.notice[2] = ModeAt(e.notice[1]),
           UNCHANGED <<screen, writing>>
    PROVE  StreamInv'
<1>1. /\ KeyTypes /\ KeyTypes' /\ EntryType(entry) /\ ~entry.bad /\ proc.ph = "none" /\ Attached /\ 1 \in DOMAIN down /\ down # <<>>
  BY FrameFacts DEF RuntimeInv, KeyInv
<1>2. /\ entry' = e /\ UNCHANGED <<proc, life, reqs, open, up, take, srv>> /\ down' = Tail(down)
      /\ LeakInv' /\ PumpInv' /\ FreshInv' /\ (Attached' <=> Attached)
      /\ (\A T : Brings(T, 1) /\ ("writer_epoch" \notin T => Retains(T, 1))) /\ (\A T : UpBrings(T, 0))
  BY WritingKept, FrameStream
<1>3. ViewPart'
  <2>1. SameWork(entry, entry')
    BY <1>2 DEF SameWork, SamePlace, EntryType
  <2>2. CoreStep(1, 0)
    BY <1>2, <2>1 DEF CoreStep, StaysAttached, SamePlace, ViewFrames
  <2>. QED  BY <1>1, <2>2, CoreKeeps
<1>4. ReceiptInv'
  <2>1. Brings({"acknowledgement"}, 1) /\ UpBrings({"input"}, 0) /\ ReceiptInv /\ StaysAttached /\ SameScope(entry, entry')
    BY <1>2 DEF StreamInv, StaysAttached
  <2>. QED  BY <1>1, <1>2, <2>1, ReceiptKeeps
<1>5. SeatInv'
  <2>1. Brings({"writer_epoch"}, 1) /\ SeatInv /\ proc'.epoch <= SrvEpoch /\ (take'.answer = "committed" => take'.expected + 1 <= SrvEpoch)
    BY <1>2 DEF StreamInv, SeatInv
  <2>. QED  BY <1>2, <2>1, SeatKeeps
<1>6. GeometryInv'
  <2>1. SUFFICES ASSUME NEW i \in DOMAIN down', down'[i].t = "control_state"
                 PROVE  Announced(i)' \/ down'[i].epoch <= e.epoch
    BY <1>1, <1>2 DEF GeometryInv
  <2>2. /\ i \in Nat /\ i + 1 \in DOMAIN down /\ down'[i] = down[i + 1]
        /\ \A j \in DOMAIN down : j \in Nat /\ (j = 1 \/ (j - 1 \in DOMAIN down' /\ down'[j - 1] = down[j]))
    BY <1>1, <1>2, Behind
  <2>3. Announced(i + 1) \/ down[i + 1].epoch <= entry.epoch
    BY <1>1, <2>1, <2>2 DEF StreamInv, GeometryInv
  <2>4. down[i + 1].epoch \in Nat /\ entry.epoch \in Nat /\ e.epoch \in Nat
    BY <1>1, <2>1, <2>2, FrameNumbers DEF EntryType
  <2>5. CASE down[i + 1].epoch <= entry.epoch
    BY <2>2, <2>4, <2>5
  <2>6. CASE Announced(i + 1)
    <3>1. PICK j \in DOMAIN down : j < i + 1 /\ down[j].t = "writer_epoch" /\ down[j].epoch = down[i + 1].epoch
      BY <2>6 DEF Announced
    <3>2. CASE j = 1
      BY <2>2, <2>4, <3>1, <3>2
    <3>3. CASE j # 1
      <4>1. j - 1 \in DOMAIN down' /\ down'[j - 1] = down[j] /\ j - 1 < i
        BY <2>2, <3>1, <3>3
      <4>. QED  BY <2>2, <3>1, <4>1 DEF Announced
    <3>. QED  BY <3>2, <3>3
  <2>. QED  BY <2>3, <2>5, <2>6
<1>7. RestType'
  BY <1>2 DEF StreamInv, RestType
<1>. QED  BY <1>1, <1>2, <1>3, <1>4, <1>5, <1>6, <1>7 DEF StreamInv, HonestStreamAccepted, ViewPart

\* The entry that follows a notice.
LEMMA SeatShape ==
    ASSUME NEW r, EntryType(r), NEW e, DOMAIN e = DOMAIN r, \A x \in EntryFields \ {"notice", "mode", "epoch", "holder", "ask"} : e[x] = r[x],
           e.notice \in Nat \X {"none", "writer", "observer"}, e.mode \in {"writer", "observer"}, e.epoch \in Nat, e.ask \in Seq(Nat)
    PROVE  /\ EntryType(e) /\ SameScope(r, e) /\ SameWork(r, e)
           /\ e.state = r.state /\ e.fence = r.fence /\ e.rev = r.rev /\ e.pump = r.pump /\ e.aborted = r.aborted /\ e.bad = r.bad
<1>1. /\ e.state = r.state /\ e.rev = r.rev /\ e.fence = r.fence /\ e.wire = r.wire /\ e.inputSeq = r.inputSeq
      /\ e.retired = r.retired /\ e.pump = r.pump /\ e.acked = r.acked /\ e.pend = r.pend /\ e.view = r.view /\ e.out = r.out
      /\ e.aborted = r.aborted /\ e.reqKey = r.reqKey /\ e.bad = r.bad
  BY DEF EntryFields
<1>. QED  BY <1>1 DEF EntryType, SameScope, SameWork

LEMMA OnWriterEpochStream == ASSUME RuntimeInv, RuntimeInv', StreamInv, OnWriterEpoch PROVE StreamInv'
<1>1. PICK f : f = Head(down)
  OBVIOUS
<1>2. PICK r : r = IF f.epoch # entry.epoch THEN Retire(entry) ELSE entry
  OBVIOUS
<1>3. PICK e : e = [r EXCEPT !.notice = <<f.epoch, f.mode>>, !.mode = f.mode, !.epoch = f.epoch, !.holder = f.holder,
                             !.ask = IF @ # <<>> /\ f.epoch > @[1] THEN <<>> ELSE @]
  OBVIOUS
<1>4. /\ Frame("writer_epoch") /\ UNCHANGED <<screen, writing>>
      /\ Apply(IF (f.mode = "writer" /\ f.holder # Me) \/ (entry.notice[1] = f.epoch /\ entry.notice[2] # f.mode)
               THEN ProtocolFailure(entry) ELSE IF f.epoch < entry.epoch THEN entry ELSE e)
  BY <1>1, <1>2, <1>3 DEF OnWriterEpoch
<1>5. /\ KeyTypes /\ EntryType(entry) /\ ~entry.bad /\ Attached /\ f = down[1] /\ 1 \in DOMAIN down /\ f.t = "writer_epoch" /\ f \in Downstream
  BY <1>1, <1>4, FrameFacts
<1>6. /\ f.epoch \in 1 .. SrvEpoch /\ f.mode = ModeAt(f.epoch) /\ (f.mode = "writer" => f.holder = Me)
      /\ SrvEpoch \in Nat /\ entry.epoch \in Nat /\ entry.epoch <= SrvEpoch
      /\ entry.notice[1] # 0 => entry.notice[1] \in 1 .. SrvEpoch /\ entry.notice[2] = ModeAt(entry.notice[1])
  BY <1>5, SMTT(30) DEF StreamInv, SeatInv, EntryType
<1>7. f.epoch \in Nat /\ f.epoch # 0 /\ f.mode \in {"writer", "observer"}
  BY <1>6 DEF ModeAt
<1>8. ~((f.mode = "writer" /\ f.holder # Me) \/ (entry.notice[1] = f.epoch /\ entry.notice[2] # f.mode))
  BY <1>6, <1>7
<1>9. CASE f.epoch < entry.epoch
  <2>1. Apply(entry)
    BY <1>4, <1>8, <1>9
  <2>2. entry.epoch >= entry.epoch /\ entry.epoch >= down[1].epoch /\ SameScope(entry, entry)
    BY <1>5, <1>6, <1>7, <1>9 DEF SameScope
  <2>. QED  BY <1>4, <1>5, <1>6, <2>1, <2>2, SamePlaceSame, NoticeRead
<1>10. CASE ~(f.epoch < entry.epoch)
  <2>1. Apply(e)
    BY <1>4, <1>8, <1>10
  <2>2. /\ EntryType(r) /\ SameWork(entry, r) /\ SameScope(entry, r)
        /\ r.state = entry.state /\ r.rev = entry.rev /\ r.pump = entry.pump /\ r.aborted = entry.aborted /\ r.bad = entry.bad
    <3>1. CASE r = Retire(entry)
      BY <1>5, <3>1, RetireShape
    <3>2. CASE r = entry
      BY <1>5, <3>2 DEF SameWork, SameScope, EntryType
    <3>. QED  BY <1>2, <3>1, <3>2
  <2>3. EntryFields \subseteq DOMAIN r /\ r.ask \in Seq(Nat)
    BY <2>2 DEF EntryType
  <2>4. /\ DOMAIN e = DOMAIN r /\ (\A x \in EntryFields \ {"notice", "mode", "epoch", "holder", "ask"} : e[x] = r[x])
        /\ e.notice = <<f.epoch, f.mode>> /\ e.mode = f.mode /\ e.epoch = f.epoch /\ e.ask \in {<<>>, r.ask}
    BY <1>3, <2>3 DEF EntryFields
  <2>5. e.ask \in Seq(Nat) /\ e.notice \in Nat \X {"none", "writer", "observer"} /\ e.notice[1] = f.epoch /\ e.notice[2] = f.mode
    <3>1. <<f.epoch, f.mode>> \in Nat \X {"none", "writer", "observer"} /\ <<f.epoch, f.mode>>[1] = f.epoch /\ <<f.epoch, f.mode>>[2] = f.mode
      BY <1>7
    <3>2. e.ask \in Seq(Nat)
      BY <2>3, <2>4, EmptySeq
    <3>. QED  BY <2>4, <3>1, <3>2
  <2>6. /\ EntryType(e) /\ SameScope(r, e) /\ SameWork(r, e)
        /\ e.state = r.state /\ e.fence = r.fence /\ e.rev = r.rev /\ e.pump = r.pump /\ e.aborted = r.aborted /\ e.bad = r.bad
    BY <1>7, <2>2, <2>4, <2>5, SeatShape
  <2>7. SamePlace(e) /\ SameScope(entry, e) /\ e.view = entry.view /\ e.out = entry.out /\ ~e.bad
    BY <1>5, <2>2, <2>6 DEF SamePlace, SameScope, SameWork
  <2>8. e.epoch >= entry.epoch /\ e.epoch >= down[1].epoch /\ e.epoch <= SrvEpoch
    BY <1>5, <1>6, <1>7, <1>10, <2>4
  <2>9. e.notice[1] \in 1 .. SrvEpoch /\ e.notice[2] = ModeAt(e.notice[1])
    BY <1>6, <2>5
  <2>. QED  BY <1>4, <2>1, <2>6, <2>7, <2>8, <2>9, NoticeRead
<1>. QED  BY <1>9, <1>10

-----------------------------------------------------------------------------
(* A new connection *)

\* A procedure that fails leaves what it opened to its catch block.
LEMMA ProcFails ==
    ASSUME RuntimeInv, RuntimeInv', StreamInv, proc' = [proc EXCEPT !.ph = "catch"], proc.ph \in {"ready", "commit"},
           UNCHANGED <<open, reqs, srv, life, writing, screen, up, down, take>>,
           entry' = entry \/ (entry' = Unresumable /\ ~Superseded)
    PROVE  StreamInv'
<1>1. ProcType(proc) /\ ProcFields \subseteq DOMAIN proc /\ EntryFields \subseteq DOMAIN entry /\ entry.reqKey \in Nat /\ proc.kind # "none"
  BY DEF StreamInv, ProcType, EntryType, RuntimeInv, ProcInv
<1>2. /\ EntryPlaced({"reqKey", "process", "pump", "state"}) /\ entry'.reqKey \in Nat /\ entry'.pump = entry.pump /\ entry'.fence = entry.fence
      /\ entry'.state = entry.state \/ (entry.state # "none" /\ entry'.state = "failed")
  BY <1>1, UnresumablePlaced DEF EntryPlaced
<1>3. ProcType(proc') /\ proc'.ph = "catch" /\ proc'.kind = proc.kind /\ proc'.fence = proc.fence /\ proc'.epoch = proc.epoch
  BY <1>1 DEF ProcType, ProcFields
<1>4. SrvQuiet /\ SrvOwned
  BY SrvSame DEF StreamInv, RestType
<1>5. LeakInv'
  BY <1>1, <1>2, <1>3 DEF StreamInv, LeakInv, NothingLeaks
<1>. QED  BY <1>1, <1>2, <1>3, <1>4, <1>5, ProcStream

\* The connection that READY names, before it is adopted.
LEMMA Connected ==
    ASSUME RuntimeInv, RuntimeInv', StreamInv, proc.ph = "ready", srv.fence < MaxFence,
           ProcType(proc'), proc'.kind = proc.kind, proc'.ph \in {"commit", "catch"}, proc'.fence = srv.fence + 1, proc'.epoch = SrvEpoch,
           proc'.mode \in {"writer", "observer"}, proc'.mode = "writer" => SrvWriter = Me,
           srv' = [srv EXCEPT !.fence = @ + 1, !.conn = srv.fence + 1, !.viewN = 0, !.redeemed = @ \cup {proc.key}],
           open' = open \cup {srv.fence + 1}, up' = <<>>, down' = <<>>, UNCHANGED <<entry, life, reqs, writing, screen, take>>
    PROVE  StreamInv'
<1>1. /\ ProcType(proc) /\ ProcFields \subseteq DOMAIN proc /\ SrvType(srv) /\ SrvFields \subseteq DOMAIN srv /\ proc.kind # "none"
      /\ entry.state # "active" /\ srv.fence \in Nat /\ MaxFence \in Nat /\ entry.fence \in Nat /\ entry.fence <= srv.fence
      /\ entry.rev \in Nat /\ entry.pump \in Nat
  <2>1. EntryType(entry) /\ ProcType(proc) /\ SrvType(srv) /\ ProcInv /\ FenceInv /\ MaxFence \in Nat
    BY RuntimeConstants DEF StreamInv, RuntimeInv, RestType
  <2>2. SrvFields \subseteq DOMAIN srv /\ srv.fence \in Nat
    BY <2>1 DEF SrvType
  <2>3. proc.kind # "none" /\ entry.state # "active" /\ entry.fence <= srv.fence
    BY <2>1 DEF ProcInv, Before, FenceInv
  <2>. QED  BY <2>1, <2>2, <2>3 DEF EntryType, ProcType
<1>2. SrvEpoch \in Nat /\ SrvEpoch \in 1 .. SrvEpoch /\ SrvEpoch <= SrvEpoch
  BY DEF StreamInv, SeatInv
<1>3. proc'.ph \notin {"none", "cancel", "admit", "grant", "ready", "callback"} /\ proc'.fence \in Nat
  BY DEF ProcType
<1>4. /\ DOMAIN srv' = DOMAIN srv /\ (\A x \in SrvFields \ {"fence", "conn", "viewN", "redeemed"} : srv'[x] = srv[x])
      /\ srv'.fence = srv.fence + 1 /\ srv'.conn = srv.fence + 1 /\ srv'.viewN = 0 /\ srv'.redeemed = srv.redeemed \cup {proc.key}
  BY <1>1 DEF SrvFields
<1>5. srv'.used = srv.used /\ srv'.hist = srv.hist /\ srv'.committed = srv.committed /\ srv'.issued = srv.issued /\ srv'.cancelled = srv.cancelled
  BY <1>4 DEF SrvFields
<1>6. RestType'
  <2>1. SrvType(srv')
    BY <1>1, <1>4, <1>5 DEF SrvType
  <2>. QED  BY <2>1 DEF StreamInv, RestType
<1>7. /\ EntryType(entry') /\ ~entry'.bad
  BY EntrySame DEF StreamInv, HonestStreamAccepted
<1>8. ~Attached'
  BY <1>1 DEF StreamInv, PumpInv, Attached
<1>9. LeakInv'
  <2>1. open = {} /\ life # "stopped" /\ reqs \subseteq {proc.key} /\ reqs \subseteq 1 .. MaxReq
    BY <1>1 DEF StreamInv, LeakInv, NothingLeaks
  <2>2. open' = {srv.fence + 1} /\ srv.fence + 1 \in 1 .. MaxFence /\ entry.fence # srv.fence + 1
    BY <1>1, <2>1
  <2>3. NothingLeaks'
    BY <1>3, <1>4, <1>5, <2>1, <2>2 DEF StreamInv, LeakInv, NothingLeaks
  <2>. QED  BY <1>3, <1>4, <2>1, <2>2, <2>3 DEF LeakInv
<1>10. PumpInv'
  <2>1. writing.fence \in Nat /\ writing.fence <= srv.fence
    BY DEF StreamInv, PumpInv, RestType
  <2>2. writing'.fence <= srv'.fence /\ writing'.fence < proc'.fence
    BY <1>1, <1>3, <1>4, <2>1
  <2>. QED  BY <1>1, <1>3, <1>8, <2>2 DEF StreamInv, PumpInv
<1>11. FreshInv'
  <2>1. SrvEpoch' = SrvEpoch /\ (proc'.mode = "writer" => srv'.hist[SrvEpoch] = Me)
    BY <1>5 DEF SrvEpoch, SrvWriter
  <2>. QED  BY <1>2, <1>3, <1>4, <2>1 DEF FreshInv
<1>12. SeatInv'
  <2>1. Brings({"writer_epoch"}, 0)
    BY DEF Brings
  <2>2. SeatInv
    BY DEF StreamInv
  <2>3. entry'.epoch <= SrvEpoch /\ (entry'.notice[1] # 0 => entry'.notice[1] \in 1 .. SrvEpoch /\ entry'.notice[2] = ModeAt(entry'.notice[1]))
        /\ (take'.answer = "committed" => take'.expected + 1 <= SrvEpoch)
    BY <2>2 DEF SeatInv
  <2>. QED  BY <1>2, <1>3, <1>5, <2>1, <2>2, <2>3, SeatKeeps
<1>13. GeometryInv'
  BY DEF GeometryInv
<1>14. ReceiptInv'
  BY <1>8 DEF StreamInv, ReceiptInv
<1>15. OutputsBounded'
  BY DEF OutputsBounded
<1>16. ScreenInv'
  BY DEF StreamInv, ScreenInv, ScreenIsAView
<1>. QED  BY <1>3, <1>6, <1>7, <1>8, <1>9, <1>10, <1>11, <1>12, <1>13, <1>14, <1>15, <1>16 DEF StreamInv, HonestStreamAccepted

LEMMA ProcReadyStream == ASSUME RuntimeInv, RuntimeInv', StreamInv, ProcReady PROVE StreamInv'
<1>1. proc.ph = "ready" /\ UNCHANGED <<life, reqs, writing, screen, take>>
  BY DEF ProcReady
<1>2. ASSUME proc' = [proc EXCEPT !.ph = "catch"], UNCHANGED <<srv, open, up, down>>, entry' = entry \/ (entry' = Unresumable /\ ~Superseded)
      PROVE  StreamInv'
  BY <1>1, <1>2, ProcFails
<1>3. ASSUME srv.fence < MaxFence,
             srv' = [srv EXCEPT !.fence = @ + 1, !.conn = srv.fence + 1, !.viewN = 0, !.redeemed = @ \cup {proc.key}],
             open' = open \cup {srv.fence + 1}, up' = <<>>, down' = <<>>, UNCHANGED entry,
             NEW heard \in BOOLEAN,
             proc' = [proc EXCEPT !.ph = IF heard THEN "commit" ELSE "catch", !.fence = srv.fence + 1, !.epoch = SrvEpoch,
                                  !.mode = IF proc.seat = "writer" THEN SeatOf(Me) ELSE "observer"]
      PROVE  StreamInv'
  <2>1. ProcType(proc) /\ ProcFields \subseteq DOMAIN proc /\ SrvEpoch \in Nat /\ srv.fence \in Nat /\ SrvType(srv)
    BY DEF StreamInv, ProcType, SeatInv, RestType, SrvType
  <2>2. PICK mode \in {"writer", "observer"} : mode = IF proc.seat = "writer" THEN SeatOf(Me) ELSE "observer"
    BY DEF SeatOf
  <2>3. mode = "writer" => SrvWriter = Me
    BY <2>2 DEF SeatOf
  <2>4. /\ DOMAIN proc' = DOMAIN proc /\ proc'.kind = proc.kind /\ proc'.ph \in {"commit", "catch"} /\ proc'.fence = srv.fence + 1
        /\ proc'.epoch = SrvEpoch /\ proc'.mode = mode /\ proc'.key = proc.key /\ proc'.rev = proc.rev
    BY <1>3, <2>1, <2>2 DEF ProcFields
  <2>5. ProcType(proc')
    BY <2>1, <2>4 DEF ProcType
  <2>6. UNCHANGED <<entry, life, reqs, writing, screen, take>>
    BY <1>1, <1>3
  <2>. QED  BY <1>1, <1>3, <2>3, <2>4, <2>5, <2>6, Connected
<1>. QED  BY <1>2, <1>3 DEF ProcReady

\* The connection is adopted: nothing of a view has come, no input is under way.
LEMMA Adopted ==
    ASSUME RuntimeInv, RuntimeInv', StreamInv, proc.ph = "commit", proc.fence > entry.fence, entry.state \in {"none", "reconnecting"},
           entry'.notice \in Nat \X {"none", "writer", "observer"}, entry'.ask \in Seq(Nat), entry'.rev \in Nat, entry'.rev # 0,
           entry'.notice[1] # 0 => entry'.notice[1] = proc.epoch /\ entry'.notice[2] = "writer" /\ proc.mode = "writer",
           DOMAIN entry' = DOMAIN entry,
           \A x \in EntryFields \ {"state", "fence", "mode", "rev", "epoch", "holder", "notice", "wire", "view", "out", "aborted", "pump", "first", "ask"} :
               entry'[x] = entry[x],
           entry'.state = "active", entry'.fence = proc.fence, entry'.mode = proc.mode, entry'.epoch = proc.epoch,
           entry'.wire \in {entry.wire + 1, entry.wire + 2}, entry'.view = "none", entry'.out = 0, entry'.aborted = FALSE,
           entry'.pump = 0,
           up' = up \/ up' = Append(up, [t |-> "resume"]),
           ProcType(proc'), proc'.ph = "callback", proc'.kind = proc.kind, proc'.fence = proc.fence, proc'.epoch = proc.epoch,
           UNCHANGED <<life, reqs, open, writing, screen, down, take, srv>>
    PROVE  StreamInv'
<1>1. /\ entry'.inputSeq = entry.inputSeq /\ entry'.acked = entry.acked /\ entry'.pend = entry.pend /\ entry'.retired = entry.retired
      /\ entry'.reqKey = entry.reqKey /\ entry'.bad = entry.bad
  BY DEF EntryFields
<1>2. EntryType(entry) /\ ProcType(proc) /\ SeatInv /\ FreshInv /\ ReceiptInv /\ ProcInv /\ EntryInv /\ LeakInv /\ PumpInv /\ KeyTypes /\ KeyTypes'
      /\ ~entry.bad
  BY DEF StreamInv, RuntimeInv, KeyInv, HonestStreamAccepted
<1>3. entry.pend = {} /\ proc.kind # "none" /\ NothingUnderWay /\ srv.conn \in {0, proc.fence} /\ entry.rev \in Nat
      /\ proc.mode \in {"writer", "observer"}
  BY <1>2 DEF ProcInv, EntryInv, EntryType, FreshInv
<1>4. EntryType(entry') /\ ~entry'.bad /\ entry'.pend = {}
  <2>1. EntryFields \subseteq DOMAIN entry' /\ entry.wire \in Nat /\ entry'.wire \in Nat /\ entry'.epoch \in Nat /\ entry'.fence \in Nat
    <3>1. EntryFields \subseteq DOMAIN entry /\ entry.wire \in Nat
      BY <1>2 DEF EntryType
    <3>2. proc.epoch \in Nat /\ proc.fence \in Nat
      BY <1>2 DEF ProcType
    <3>. QED  BY <3>1, <3>2
  <2>2. entry'.inputSeq \in Nat /\ entry'.acked \in Nat /\ entry'.retired \in Nat /\ entry'.reqKey \in Nat
    BY <1>1, <1>2 DEF EntryType
  <2>3. entry'.pend = {} /\ entry'.mode \in {"writer", "observer"} /\ entry'.out \in Nat /\ entry'.pump \in Nat /\ ~entry'.bad
    BY <1>1, <1>2, <1>3
  <2>4. entry'.pend \subseteq Nat /\ IsFiniteSet(entry'.pend) /\ Cardinality(entry'.pend) <= Window
    BY <2>3, NoPending
  <2>5. EntryType(entry')
    BY <2>1, <2>2, <2>3, <2>4 DEF EntryType
  <2>. QED  BY <2>3, <2>5
<1>5. Attached' /\ ~Attached
  BY <1>2, NotAttachedYet DEF Attached
<1>6. /\ up = <<>> /\ srv.viewN = 0 /\ \A i \in DOMAIN down : down[i].t \in {"writer_epoch", "control_state"} /\ down[i].t # "acknowledgement"
  BY <1>2, <1>3 DEF FreshInv, NothingUnderWay
<1>7. \A i \in DOMAIN up' : i = 1 /\ up'[i].t = "resume"
  <2>1. <<[t |-> "resume"]>>[1].t = "resume" /\ DOMAIN <<[t |-> "resume"]>> = {1} /\ Append(<<>>, [t |-> "resume"]) = <<[t |-> "resume"]>>
    OBVIOUS
  <2>2. DOMAIN up = {}
    BY <1>6
  <2>. QED  BY <1>6, <2>1, <2>2
<1>8. LeakInv'
  <2>1. open \subseteq {proc.fence} /\ life # "stopped" /\ reqs \subseteq srv.redeemed
    BY <1>2, <1>3 DEF LeakInv, NothingLeaks
  <2>2. NothingLeaks'
    BY <1>2, <2>1 DEF LeakInv, NothingLeaks
  <2>. QED  BY <1>2, <2>1, <2>2 DEF LeakInv
<1>9. ~Writing' /\ Seen' = 0
  <2>1. writing.fence # proc.fence
    BY <1>2 DEF PumpInv, ProcType, StreamInv, RestType
  <2>. QED  BY <2>1 DEF Writing, Seen
<1>10. PumpInv'
  BY <1>2, <1>3, <1>4 DEF PumpInv
<1>11. FreshInv'
  BY DEF FreshInv
<1>12. SeatInv'
  <2>1. Brings({"writer_epoch"}, 0)
    BY <1>2, StreamSame
  <2>2. entry'.epoch <= SrvEpoch /\ proc'.epoch <= SrvEpoch /\ (take'.answer = "committed" => take'.expected + 1 <= SrvEpoch)
    BY <1>2 DEF SeatInv
  <2>3. entry'.notice[1] # 0 => entry'.notice[1] \in 1 .. SrvEpoch /\ entry'.notice[2] = ModeAt(entry'.notice[1])
    BY <1>2 DEF FreshInv, ModeAt
  <2>. QED  BY <1>2, <2>1, <2>2, <2>3, SeatKeeps
<1>13. GeometryInv'
  <2>1. \A i \in DOMAIN down : down[i].t = "control_state" => Announced(i)
    BY <1>5 DEF StreamInv, GeometryInv
  <2>2. \A i \in DOMAIN down : Announced(i)' <=> Announced(i)
    BY DEF Announced
  <2>. QED  BY <2>1, <2>2 DEF GeometryInv
<1>14. ReceiptInv'
  <2>1. entry'.inputSeq <= entry'.wire /\ entry'.acked <= entry'.wire /\ entry'.retired <= entry'.wire
    <3>1. /\ entry.inputSeq \in Nat /\ entry.acked \in Nat /\ entry.retired \in Nat /\ entry.wire \in Nat /\ entry'.wire >= entry.wire
          /\ entry.inputSeq <= entry.wire /\ entry.acked <= entry.wire /\ entry.retired <= entry.wire
      BY <1>2, SMTT(30) DEF ReceiptInv, EntryType
    <3>. QED  BY <1>1, <3>1
  <2>2. (\A i \in DOMAIN down' : ~IsReceipt(i)') /\ (\A i \in DOMAIN up' : ~IsInput(i)')
    BY <1>6, <1>7 DEF IsReceipt, IsInput
  <2>. QED  BY <1>4, <2>1, <2>2 DEF ReceiptInv
<1>15. ViewInv'
  <2>1. \A i \in DOMAIN down' : down'[i].t \notin {"view_started", "output", "view_ready"} /\ ~IsOutput(i)'
    BY <1>6 DEF IsOutput
  <2>. QED  BY <1>9, <2>1 DEF ViewInv
<1>16. GatewayInv'
  <2>1. \A i \in DOMAIN down' : ~IsView(i)'
    BY <1>6 DEF IsView
  <2>2. srv'.viewN = 0
    BY <1>6
  <2>. QED  BY <1>7, <2>1, <2>2 DEF GatewayInv
<1>17. OutputsBounded'
  BY <1>6 DEF OutputsBounded, IsOutput
<1>18. ScreenInv'
  BY DEF ScreenInv, ScreenIsAView
<1>19. RestType'
  BY DEF StreamInv, RestType
<1>. QED  BY <1>4, <1>8, <1>10, <1>11, <1>12, <1>13, <1>14, <1>15, <1>16, <1>17, <1>18, <1>19 DEF StreamInv, HonestStreamAccepted

LEMMA ProcCommitStream == ASSUME RuntimeInv, RuntimeInv', StreamInv, ProcCommit PROVE StreamInv'
<1>1. proc.ph = "commit" /\ UNCHANGED <<life, reqs, open, writing, screen, down, take, srv>>
  BY DEF ProcCommit
<1>2. ASSUME proc' = [proc EXCEPT !.ph = "catch"], UNCHANGED <<entry, up>>
      PROVE  StreamInv'
  BY <1>1, <1>2, ProcFails
<1>. DEFINE asWriter == proc.mode = "writer"
            rev == IF proc.kind = "attach" THEN entry.rev + 1 ELSE entry.rev
            m == IF asWriter THEN 2 ELSE 1
            h == IF asWriter THEN Me ELSE "none"
            notice == IF asWriter THEN <<proc.epoch, "writer">> ELSE <<0, "none">>
            first == IF entry.first = 0 THEN proc.fence ELSE entry.first
            ask == IF entry.ask # <<>> /\ proc.epoch > entry.ask[1] THEN <<>> ELSE entry.ask
<1>3. ASSUME ~Superseded, ~(proc.fence <= entry.fence),
             entry' = [entry EXCEPT
                  !.state = "active", !.fence = proc.fence, !.mode = proc.mode,
                  !.rev = rev, !.epoch = proc.epoch, !.holder = h, !.notice = notice,
                  !.wire = entry.wire + m, !.view = "none", !.out = 0, !.aborted = FALSE,
                  !.pump = 0, !.first = first, !.ask = ask],
             up' = up \/ up' = Append(up, [t |-> "resume"]),
             proc' = [proc EXCEPT !.ph = "callback", !.rev = rev]
      PROVE  StreamInv'
  <2>1. EntryType(entry) /\ ProcType(proc) /\ ProcInv /\ PumpInv
    BY DEF StreamInv, RuntimeInv
  <2>2. entry.state \in {"none", "reconnecting"} /\ (proc.kind # "attach" => entry.state = "reconnecting") /\ proc.fence > entry.fence
    BY <1>1, <1>3, <2>1 DEF ProcInv, Before, Superseded, EntryType, ProcType
  <2>3. rev \in Nat /\ rev # 0 /\ m \in {1, 2} /\ ask \in Seq(Nat)
    BY <2>1, <2>2, EmptySeq DEF PumpInv, EntryType
  <2>4. notice \in Nat \X {"none", "writer", "observer"}
        /\ (notice[1] # 0 => notice[1] = proc.epoch /\ notice[2] = "writer" /\ proc.mode = "writer")
    <3>1. /\ <<proc.epoch, "writer">> \in Nat \X {"none", "writer", "observer"} /\ <<0, "none">> \in Nat \X {"none", "writer", "observer"}
          /\ <<0, "none">>[1] = 0 /\ <<proc.epoch, "writer">>[1] = proc.epoch /\ <<proc.epoch, "writer">>[2] = "writer"
      BY <2>1 DEF ProcType
    <3>. QED  BY <3>1
  <2>. HIDE DEF rev, m, h, notice, first, ask
  <2>5. ProcType(proc') /\ proc'.ph = "callback" /\ proc'.kind = proc.kind /\ proc'.fence = proc.fence /\ proc'.epoch = proc.epoch
    BY <1>3, <2>1, <2>3 DEF ProcType, ProcFields
  <2>6. EntryFields \subseteq DOMAIN entry
    BY <2>1 DEF EntryType
  <2>7. /\ DOMAIN entry' = DOMAIN entry
        /\ \A x \in EntryFields \ {"state", "fence", "mode", "rev", "epoch", "holder", "notice", "wire", "view", "out", "aborted", "pump", "first", "ask"} :
               entry'[x] = entry[x]
    BY <1>3, <2>6
  <2>8. /\ entry'.state = "active" /\ entry'.fence = proc.fence /\ entry'.mode = proc.mode /\ entry'.rev = rev /\ entry'.epoch = proc.epoch
        /\ entry'.notice = notice /\ entry'.wire \in {entry.wire + 1, entry.wire + 2} /\ entry'.view = "none" /\ entry'.out = 0 /\ entry'.aborted = FALSE
        /\ entry'.pump = 0 /\ entry'.ask = ask
    BY <1>3, <2>3, <2>6 DEF EntryFields
  <2>. QED  BY <1>1, <1>3, <2>2, <2>3, <2>4, <2>5, <2>7, <2>8, Adopted
<1>4. CASE Superseded \/ proc.fence <= entry.fence
  BY <1>2, <1>4 DEF ProcCommit
<1>5. CASE ~(Superseded \/ proc.fence <= entry.fence)
  <2>1. EntryFields \subseteq DOMAIN entry /\ entry.wire \in Nat /\ ProcFields \subseteq DOMAIN proc
    BY DEF StreamInv, EntryType, ProcType
  <2>2. entry' = [entry EXCEPT
                  !.state = "active", !.fence = proc.fence, !.mode = proc.mode,
                  !.rev = rev, !.epoch = proc.epoch, !.holder = h, !.notice = notice,
                  !.wire = entry.wire + m, !.view = "none", !.out = 0, !.aborted = FALSE,
                  !.pump = 0, !.first = first, !.ask = ask]
    BY <1>5, <2>1 DEF ProcCommit, EntryFields
  <2>3. proc' = [proc EXCEPT !.ph = "callback", !.rev = IF proc.kind = "attach" THEN entry.rev + 1 ELSE @]
        /\ (up' = up \/ up' = Append(up, [t |-> "resume"]))
    BY <1>5 DEF ProcCommit
  <2>4. proc' = [proc EXCEPT !.ph = "callback", !.rev = rev]
    <3>1. CASE proc.kind = "attach"
      BY <2>3, <3>1
    <3>2. CASE proc.kind # "attach"
      <4>1. entry.rev = proc.rev
        BY <1>1, <1>5, <3>2 DEF Superseded, RuntimeInv, ProcInv
      <4>. QED  BY <2>1, <2>3, <3>2, <4>1 DEF ProcFields
    <3>. QED  BY <3>1, <3>2
  <2>. QED  BY <1>3, <1>5, <2>2, <2>3, <2>4
<1>. QED  BY <1>4, <1>5

-----------------------------------------------------------------------------
(* The stream resumes *)

LEMMA StreamInvInit == Init => StreamInv
<1>. SUFFICES ASSUME Init
              PROVE  StreamInv
  OBVIOUS
<1>1. /\ entry = NoEntry /\ proc = Idle /\ life = "open" /\ reqs = {} /\ open = {}
      /\ writing = NoWrite /\ screen = <<>> /\ up = <<>> /\ down = <<>> /\ take = NoTake
  BY DEF Init
<1>2. /\ SrvFields \subseteq DOMAIN srv /\ srv.fence = 0 /\ srv.conn = 0 /\ srv.used = 0 /\ srv.viewN = 0
      /\ srv.hist \in {<<Me>>, <<Other>>} /\ srv.issued = {} /\ srv.committed = {}
  BY DEF Init, SrvFields
<1>3. /\ EntryType(entry) /\ entry.state = "none" /\ entry.epoch = 0 /\ entry.pump = 0 /\ ~entry.bad /\ entry.rev = 0 /\ entry.fence = 0
      /\ entry.notice[1] = 0 /\ entry.inputSeq = 0 /\ entry.wire = 0 /\ entry.acked = 0 /\ entry.retired = 0 /\ entry.pend = {}
  BY <1>1, NoEntryType DEF NoEntry
<1>4. /\ ProcType(proc) /\ proc.kind = "none" /\ proc.ph = "none" /\ proc.fence = 0 /\ proc.epoch = 0
  BY <1>1 DEF ProcType, ProcFields, Idle
<1>5. srv.hist \in Seq({Me, Other}) /\ Len(srv.hist) = 1
  <2>1. Me \in {Me, Other} /\ Other \in {Me, Other}
    OBVIOUS
  <2>2. <<Me>> \in Seq({Me, Other}) /\ <<Other>> \in Seq({Me, Other}) /\ Len(<<Me>>) = 1 /\ Len(<<Other>>) = 1
    BY <2>1
  <2>. QED  BY <1>2, <2>2
<1>6. RestType
  <2>1. SrvType(srv)
    BY <1>2, <1>5, RuntimeConstants DEF SrvType
  <2>2. TakeType(take)
    BY <1>1 DEF TakeType, NoTake
  <2>3. writing \in [n : 0 .. MaxOut, fence : Nat]
    BY <1>1, RuntimeConstants DEF NoWrite
  <2>4. screen \in Seq(Nat)
    BY <1>1
  <2>. QED  BY <1>1, <2>1, <2>2, <2>3, <2>4 DEF RestType
<1>7. ~Attached
  BY <1>3 DEF Attached
<1>8. LeakInv
  BY <1>1, <1>2, <1>3, <1>4 DEF LeakInv, NothingLeaks
<1>9. PumpInv
  BY <1>1, <1>2, <1>3, <1>4, <1>7 DEF PumpInv, NoWrite
<1>10. FreshInv
  BY <1>4 DEF FreshInv
<1>11. SeatInv
  <2>1. SrvEpoch = 1 /\ SrvEpoch \in 1 .. MaxEpoch
    BY <1>5, RuntimeConstants DEF SrvEpoch
  <2>2. take.answer # "committed" /\ DOMAIN down = {}
    BY <1>1 DEF NoTake
  <2>. QED  BY <1>2, <1>3, <1>4, <2>1, <2>2 DEF SeatInv
<1>12. GeometryInv
  BY <1>4, <1>7 DEF GeometryInv
<1>13. ReceiptInv
  BY <1>3, <1>7 DEF ReceiptInv
<1>14. OutputsBounded
  BY <1>1 DEF OutputsBounded
<1>15. ScreenInv
  BY <1>3 DEF ScreenInv, ScreenIsAView
<1>. QED  BY <1>3, <1>4, <1>6, <1>7, <1>8, <1>9, <1>10, <1>11, <1>12, <1>13, <1>14, <1>15 DEF StreamInv, HonestStreamAccepted

LEMMA StreamInvNext == RuntimeInv /\ StreamInv /\ [Next]_vars => StreamInv'
<1>. SUFFICES ASSUME RuntimeInv, StreamInv, [Next]_vars
              PROVE  StreamInv'
  OBVIOUS
<1>0. RuntimeInv'
  BY RuntimeInvNext
<1>1. CASE AttachStart \/ ReconnectStart \/ ProcCancel \/ ProcAdmit \/ ProcGrant
  BY <1>0, <1>1, AttachStartStream, ReconnectStartStream, ProcCancelStream, ProcAdmitStream, ProcGrantStream
<1>2. CASE ProcReady \/ ProcCommit \/ ProcFinish \/ ProcCatch
  BY <1>0, <1>2, ProcReadyStream, ProcCommitStream, ProcFinishStream, ProcCatchStream
<1>3. CASE Detach \/ DetachDone \/ Shutdown \/ ShutdownDone
  BY <1>0, <1>3, DetachStream, DetachDoneStream, ShutdownStream, ShutdownDoneStream
<1>4. CASE (\E k \in Key : TypeKey(k) \/ SendInput(k)) \/ UNCHANGED vars
  BY <1>0, <1>4, KeyStream
<1>5. CASE HeartbeatExpires \/ AcknowledgementExpires \/ ViewExpires
  BY <1>0, <1>5, TimerStream
<1>6. CASE OnViewStarted \/ OnViewReady \/ OnOutput \/ WriteDone \/ WriteExpires \/ OnWriterEpoch
  BY <1>0, <1>6, OnViewStartedStream, OnViewReadyStream, OnOutputStream, WriteDoneStream, WriteExpiresStream, OnWriterEpochStream
<1>7. CASE OnGeometry \/ OnAcknowledgement \/ OnExit \/ OnEnd \/ RunSend
  BY <1>0, <1>7, OnGeometryStream, OnAcknowledgementStream, OnExitStream, OnEndStream, RunSendStream
<1>8. CASE TakeAsk \/ TakeSend \/ TakeReply
  BY <1>0, <1>8, TakeAskStream, TakeSendStream, TakeReplyStream
<1>9. CASE GatewayResume \/ GatewayInput \/ GatewayOutput \/ RivalTakes \/ ProcessEnds \/ TransportDrops
  BY <1>0, <1>9, GatewayResumeStream, GatewayInputStream, GatewayOutputStream, RivalTakesStream, ProcessEndsStream, TransportDropsStream
<1>. QED  BY <1>1, <1>2, <1>3, <1>4, <1>5, <1>6, <1>7, <1>8, <1>9 DEF Next

\* Where the numbers that the stream carries come from bounds them.
LEMMA StreamInvSays == RuntimeInv /\ StreamInv => StreamResumes
<1>. SUFFICES ASSUME RuntimeInv, StreamInv
              PROVE  StreamResumes
  OBVIOUS
<1>1. /\ EntryType(entry) /\ ProcType(proc) /\ RestType /\ SeatInv /\ LeakInv /\ PumpInv /\ FenceInv /\ KeyTypes
      /\ ScreenIsAView /\ HonestStreamAccepted /\ NothingLeaks
  BY DEF StreamInv, RuntimeInv, KeyInv, ScreenInv, LeakInv
<1>2. srv.fence \in 0 .. MaxFence /\ MaxFence \in Nat /\ MaxEpoch \in Nat
  BY <1>1, RuntimeConstants DEF RestType, SrvType
<1>3. entry.epoch \in 0 .. MaxEpoch
  <2>1. entry.epoch \in Nat /\ entry.epoch <= SrvEpoch /\ SrvEpoch \in 1 .. MaxEpoch
    BY <1>1 DEF EntryType, SeatInv
  <2>. QED  BY <1>2, <2>1
<1>4. entry.fence \in 0 .. MaxFence
  <2>1. entry.fence \in Nat /\ entry.fence <= srv.fence
    BY <1>1 DEF EntryType, FenceInv
  <2>. QED  BY <1>2, <2>1
<1>5. writing \in [n : 0 .. MaxOut, fence : 0 .. MaxFence]
  <2>1. writing \in [n : 0 .. MaxOut, fence : Nat] /\ writing.fence <= srv.fence
    BY <1>1 DEF RestType, PumpInv
  <2>2. writing.fence \in Nat
    BY <2>1
  <2>3. writing.fence \in 0 .. MaxFence
    BY <1>2, <2>1, <2>2
  <2>. QED  BY <2>1, <2>3
<1>6. reqs \subseteq 1 .. MaxReq /\ open \subseteq 1 .. MaxFence
  BY <1>1 DEF LeakInv
<1>7. \A k \in Key : keys[k].st \in {"untyped", "typed", "queued", "sent", "refused"}
  BY <1>1 DEF KeyTypes, KeyType
<1>8. /\ entry.state \in {"none", "active", "interrupted", "reconnecting", "detached", "failed"}
      /\ proc.ph \in {"none", "cancel", "admit", "grant", "ready", "commit", "callback", "catch"}
      /\ life \in {"open", "closing", "stopped", "failed"} /\ entry.mode \in {"writer", "observer"} /\ Cardinality(entry.pend) <= Window
  BY <1>1 DEF EntryType, ProcType, RestType
<1>9. TypeOK
  BY <1>3, <1>4, <1>5, <1>6, <1>7, <1>8 DEF TypeOK
<1>. QED  BY <1>1, <1>9 DEF StreamResumes

\* The frames of an attachment are what its stream owes the terminal: a host
\* that follows the protocol is never refused, the screen is a view from its
\* first frame on, and no connection or request is left behind.
THEOREM StreamDoesResume == Spec => []StreamResumes
<1>1. Init => RuntimeInv /\ StreamInv
  BY RuntimeInvInit, StreamInvInit
<1>2. RuntimeInv /\ StreamInv /\ [Next]_vars => (RuntimeInv /\ StreamInv)'
  BY RuntimeInvNext, StreamInvNext
<1>. QED  BY <1>1, <1>2, StreamInvSays, PTL DEF Spec
=============================================================================
