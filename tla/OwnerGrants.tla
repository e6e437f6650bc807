----------------------------- MODULE OwnerGrants -----------------------------
(***************************************************************************)
(* `cuna share`: granting and revoking observation of one AgentSession and *)
(* starting or stopping its live sharing (runtime/owner-grants-screen.ts,  *)
(* runtime/owner-grant-operations.ts, api/owner-observe-grants-v2.ts).     *)
(* Every change is recorded in the state directory before it is sent; the  *)
(* record is dropped when its outcome is known.  Several processes share   *)
(* the directory.  Answers are lost, processes end, and Cuna's own record  *)
(* of the session may lag behind the session.                              *)
(*                                                                         *)
(* A sharing state of one run of the session is its rank                   *)
(* 2 * generation + (private ? 1 : 0); a run starts private at 0.          *)
(***************************************************************************)
EXTENDS Naturals, FiniteSets

CONSTANTS OgProcs,        \* `cuna share` processes over one state directory
          OgOps,          \* operation identities, 1..OgOps
          OgReadings,     \* bound: questions asked
          OgStarts        \* bound: processes started

ASSUME GrantBounds == OgOps \in Nat \ {0} /\ OgReadings \in Nat /\ OgStarts \in Nat

VARIABLES ogDisk,         \* operation -> its record's kind, or "none"
          ogFact,         \* rank of the audience fact on disk; 0: none
          ogProc,         \* what each process holds in memory
          ogWire,         \* operations whose request is on its way to Cuna
          ogAnswer,       \* operation -> the answer on its way back
          ogCloud,        \* Cuna and the session (external)
          ogTold,         \* what the owner was told of an operation
          ogMisjudged,    \* operations settled by an answer about something
                          \* else, or resent when another process had
                          \* dropped their record or was handling them too
          ogAsked,        \* questions asked so far
          ogStarted       \* processes started so far
ogVars == <<ogDisk, ogFact, ogProc, ogWire, ogAnswer, ogCloud, ogTold, ogMisjudged, ogAsked, ogStarted>>

OgKinds == {"create", "revoke", "publish", "private"}
OgIds == 1..OgOps
\* Rank arithmetic (audienceFactRank).
Generation(r) == r \div 2
Published(g) == 2 * (g + 1)
Privately(g) == 2 * g + 1
\* audienceFactIsOlder: at one generation, private follows public.
Older(a, b) == a < b

\* The two authorities: an uncertain one does not gate the other.
Audience(kind) == kind \in {"publish", "private"}
SameAuthority(k, l) == Audience(k) = Audience(l)

OgSilent == [k |-> "none", rank |-> 0]
OgSays(k) == [k |-> k, rank |-> 0]
NoProcess == [pc |-> "off", op |-> 0, kind |-> "create", replay |-> FALSE,
              unresolved |-> {}, closed |-> {}, answered |-> {},
              floor |-> 0, latest |-> 0, answer |-> OgSilent, ask |-> 0, screen |-> "list"]

OgInit ==
    /\ ogDisk = [i \in OgIds |-> "none"]
    /\ ogFact = 0
    /\ ogProc = [p \in OgProcs |-> NoProcess]
    /\ ogWire = {}
    /\ ogAnswer = [i \in OgIds |-> OgSilent]
    /\ ogCloud = [kind |-> [i \in OgIds |-> "none"], request |-> [i \in OgIds |-> "none"],
                  effect |-> [i \in OgIds |-> 0], expected |-> [i \in OgIds |-> 0],
                  run |-> Privately(0), known |-> Privately(0), grant |-> "active"]
    /\ ogTold = [i \in OgIds |-> "none"]
    /\ ogMisjudged = {}
    /\ ogAsked = 0
    /\ ogStarted = 0

Become(p, q) == ogProc' = [ogProc EXCEPT ![p] = q]
\* `run` is done: a screen is painted and keys are read again.  The screens
\* that offer the same keys are one: "list" stands for the session list, a
\* failure, a reading or a sharing receipt, "stored" for a replayed receipt.
Paints(p, q, s) == Become(p, [q EXCEPT !.pc = "idle", !.screen = s, !.op = 0, !.replay = FALSE,
                                       !.kind = "create", !.answer = OgSilent, !.ask = 0])
Recorded == {i \in OgIds: ogDisk[i] # "none"}
CloudKept == UNCHANGED ogCloud
NothingSent == UNCHANGED <<ogWire, ogAnswer, ogCloud>>

-----------------------------------------------------------------------------
\* A process starts: the records of earlier ones are read before anything
\* else, and shown first when there are any, unless `--grant` names the
\* grant to show.
StartShare(p) ==
    /\ ogProc[p].pc = "off" /\ ogStarted < OgStarts
    /\ ogStarted' = ogStarted + 1
    /\ \E s \in {"grant", IF Recorded = {} THEN "list" ELSE "unresolved"}:
          Paints(p, [NoProcess EXCEPT !.unresolved = Recorded], s)
    /\ UNCHANGED <<ogDisk, ogFact, ogTold, ogMisjudged, ogAsked>> /\ NothingSent

\* Esc, Ctrl+C, a signal, or the process is killed, at any point.
EndShare(p) ==
    /\ ogProc[p].pc # "off"
    /\ Become(p, NoProcess)
    /\ UNCHANGED <<ogDisk, ogFact, ogTold, ogMisjudged, ogAsked, ogStarted>> /\ NothingSent

BlockedBy(kind, ids) == {i \in ids: SameAuthority(kind, ogDisk[i]) /\ kind # "private"}

\* The owner confirms a change.  The in-memory list gates it (`blocked`), and
\* the directory is read again just before reserving (`cleared`); stopping
\* the live share is never gated.
Decide1(p, kind) ==
    LET q == ogProc[p] IN
    /\ q.pc = "idle" /\ BlockedBy(kind, q.unresolved) = {}
    /\ kind = "revoke" => q.screen = "grant"
    /\ IF BlockedBy(kind, Recorded) # {}
         THEN Paints(p, [q EXCEPT !.unresolved = Recorded], "unresolved")
         ELSE Become(p, [q EXCEPT !.pc = "reserve", !.kind = kind, !.unresolved = Recorded])
    /\ UNCHANGED <<ogDisk, ogFact, ogTold, ogMisjudged, ogAsked, ogStarted>> /\ NothingSent

Fresh == {i \in OgIds: ogCloud.kind[i] = "none" /\ ogDisk[i] = "none"
                        /\ \A j \in 1..i - 1: ogCloud.kind[j] # "none"}

SendsUnrecorded(p) ==
    \E i \in Fresh:
      /\ ogProc[p].pc = "reserve"
      /\ ogCloud' = [ogCloud EXCEPT !.kind[i] = ogProc[p].kind]
      /\ Become(p, [ogProc[p] EXCEPT !.pc = "sent", !.op = i])
      /\ ogWire' = ogWire \cup {i}
      /\ UNCHANGED <<ogDisk, ogFact, ogAnswer, ogTold, ogMisjudged, ogAsked, ogStarted>>

\* store.reserve writes and verifies the record; then the request leaves.
\* (`kind` of an identity is drawn with it.)  A record that cannot be
\* verified, or an identity read that fails before sending, sends nothing.
ReserveAndSend(p) ==
    \E i \in Fresh:
      /\ ogProc[p].pc = "reserve"
      /\ ogDisk' = [ogDisk EXCEPT ![i] = ogProc[p].kind]
      /\ ogCloud' = [ogCloud EXCEPT !.kind[i] = ogProc[p].kind]
      /\ Become(p, [ogProc[p] EXCEPT !.pc = "sent", !.op = i, !.unresolved = @ \cup {i}])
      /\ ogWire' = ogWire \cup {i}
      /\ UNCHANGED <<ogFact, ogAnswer, ogTold, ogMisjudged, ogAsked, ogStarted>>

\* `r` on an unresolved operation: the same identity is sent again, and is
\* not reserved again even when another process has dropped its record.
Resend(p, i) ==
    LET q == ogProc[p] IN
    /\ q.pc = "idle" /\ q.screen = "unresolved" /\ i \in q.unresolved \ q.closed
    /\ Become(p, [q EXCEPT !.pc = "sent", !.op = i, !.kind = ogCloud.kind[i], !.replay = TRUE])
    /\ ogWire' = ogWire \cup {i}
    /\ ogAnswer' = [ogAnswer EXCEPT ![i] = OgSilent]
    /\ ogTold' = [ogTold EXCEPT ![i] = IF ogDisk[i] = "none" THEN @ ELSE "none"]
    /\ ogMisjudged' = IF ogDisk[i] = "none" \/ \E o \in OgProcs \ {p}: i \in {ogProc[o].op, ogProc[o].ask}
                        THEN ogMisjudged \cup {i} ELSE ogMisjudged
    /\ UNCHANGED <<ogDisk, ogFact, ogCloud, ogAsked, ogStarted>>

-----------------------------------------------------------------------------
(* Cuna and the session (external).                                        *)

\* An answer nobody waits for any more is not kept.
OgReplies(i, a) ==
    /\ ogAnswer' = IF \E p \in OgProcs: ogProc[p].pc = "sent" /\ ogProc[p].op = i
                     THEN [ogAnswer EXCEPT ![i] = a] ELSE ogAnswer
    /\ ogWire' = ogWire \ {i}
ServerOnly == UNCHANGED <<ogDisk, ogFact, ogProc, ogTold, ogMisjudged, ogAsked, ogStarted>>

\* Refused before anything was looked up: sign-in, permission, an unserved
\* route, an invalid request, an unknown or disconnected session ("plain"),
\* or a scope Cuna would not raise with the session ("unasked").
RefusesEarly(i) ==
    /\ i \in ogWire
    /\ \E k \in {"plain"} \cup (IF Audience(ogCloud.kind[i]) THEN {"unasked"} ELSE {}):
          OgReplies(i, OgSays(k))
    /\ CloudKept /\ ServerOnly

\* A create is stored per identity and its replay is the stored receipt.
CreatesGrant(i) ==
    /\ i \in ogWire /\ ogCloud.kind[i] = "create"
    /\ IF ogCloud.effect[i] # 0 THEN OgReplies(i, OgSays("ok")) /\ CloudKept
       ELSE IF ogCloud.grant = "active" THEN OgReplies(i, OgSays("plain")) /\ CloudKept
       ELSE /\ OgReplies(i, OgSays("ok"))
            /\ ogCloud' = [ogCloud EXCEPT !.effect[i] = 1, !.grant = "active"]
    /\ ServerOnly

RevokesGrant(i) ==
    /\ i \in ogWire /\ ogCloud.kind[i] = "revoke"
    /\ IF ogCloud.effect[i] # 0 THEN OgReplies(i, OgSays("ok")) /\ CloudKept
       ELSE IF ogCloud.grant # "active" THEN OgReplies(i, OgSays("plain")) /\ CloudKept
       ELSE /\ OgReplies(i, OgSays("ok"))
            /\ ogCloud' = [ogCloud EXCEPT !.effect[i] = 1, !.grant = "revoked"]
    /\ ServerOnly

\* The session is asked about request i; `effect` is its journaled answer.
\* Cuna records what it answered, or fails to.
SessionAnswers(i, c) ==
    LET moves == c.expected[i] = Generation(c.run)
        to == IF c.kind[i] = "publish" THEN Published(c.expected[i]) ELSE Privately(c.expected[i])
        after == IF c.effect[i] = 0 /\ moves THEN [c EXCEPT !.effect[i] = to, !.run = to] ELSE c
    IN  \/ OgReplies(i, OgSays("lost")) /\ ogCloud' = c                  \* transport_unavailable
        \/ OgReplies(i, OgSays("lost")) /\ ogCloud' = after              \* receipt_unavailable
        \/ IF after.effect[i] # 0
             THEN /\ OgReplies(i, [k |-> "ok", rank |-> after.effect[i]])
                  /\ ogCloud' = [after EXCEPT !.request[i] = "recorded", !.known = after.effect[i]]
             ELSE OgReplies(i, OgSays("closed")) /\ ogCloud' = [c EXCEPT !.request[i] = "refused"]

\* One request is outstanding at a time; its generation is what Cuna last knew.
AsksSession(i) ==
    /\ i \in ogWire /\ Audience(ogCloud.kind[i])
    /\ \/ /\ ogCloud.request[i] = "none"
          /\ IF \E j \in OgIds: ogCloud.request[j] = "open"
               THEN OgReplies(i, OgSays("unasked")) /\ CloudKept
               ELSE SessionAnswers(i, [ogCloud EXCEPT !.request[i] = "open",
                                                      !.expected[i] = Generation(ogCloud.known)])
       \/ ogCloud.request[i] = "open" /\ SessionAnswers(i, ogCloud)
       \/ /\ ogCloud.request[i] = "recorded"
          /\ \E a \in {[k |-> "ok", rank |-> ogCloud.effect[i]], OgSays("closed")}: OgReplies(i, a)
          /\ CloudKept
       \/ ogCloud.request[i] \in {"refused", "expired"} /\ OgReplies(i, OgSays("closed")) /\ CloudKept
    /\ ServerOnly

\* The stored request's deadline passes with nothing recorded.
RequestExpires(i) ==
    /\ ogCloud.request[i] = "open"
    /\ ogCloud' = [ogCloud EXCEPT !.request[i] = "expired"]
    /\ UNCHANGED <<ogWire, ogAnswer>> /\ ServerOnly

\* Another window of the account revokes the grant.
RevokedElsewhere ==
    /\ ogCloud.grant = "active"
    /\ ogCloud' = [ogCloud EXCEPT !.grant = "revoked"]
    /\ UNCHANGED <<ogWire, ogAnswer>> /\ ServerOnly

-----------------------------------------------------------------------------
(* The answer.                                                             *)

\* The answer never arrives: the outcome is unknown and the record stays.
AnswerLost(p) ==
    /\ ogProc[p].pc = "sent"
    /\ ogAnswer' = [ogAnswer EXCEPT ![ogProc[p].op] = OgSilent]
    /\ Paints(p, ogProc[p], "unresolved")
    /\ UNCHANGED <<ogDisk, ogFact, ogWire, ogCloud, ogTold, ogMisjudged, ogAsked, ogStarted>>

AnswerArrives(p) ==
    LET q == ogProc[p] IN
    /\ q.pc = "sent" /\ ogAnswer[q.op].k # "none"
    /\ Become(p, [q EXCEPT !.pc = IF ogAnswer[q.op].k = "ok" THEN "check" ELSE "refused",
                           !.answer = ogAnswer[q.op]])
    /\ ogAnswer' = [ogAnswer EXCEPT ![q.op] = OgSilent]
    /\ UNCHANGED <<ogDisk, ogFact, ogWire, ogCloud, ogTold, ogMisjudged, ogAsked, ogStarted>>

\* `forget`: the record and its line in the list go together, or both stay.
Drops(p, q, s, i, told) ==
    /\ ogTold' = [ogTold EXCEPT ![i] = told]
    /\ \/ /\ ogDisk' = [ogDisk EXCEPT ![i] = "none"]
          /\ Paints(p, [q EXCEPT !.unresolved = @ \ {i}], s)
       \/ ogDisk' = ogDisk /\ Paints(p, q, s)

SettlesAnything(q) == TRUE
\* What a refusal settles (AUDIENCE_REFUSAL, classifyTransportFailure and the
\* catch of setAudience): a replay learns nothing from a refusal that says
\* the session was not asked.
SettlesGrant(q) ==
    CASE q.answer.k = "plain" -> TRUE
      [] q.answer.k \in {"unasked", "closed"} -> ~q.replay
      [] OTHER -> FALSE

Refused(p) ==
    LET q == ogProc[p]
        closed == IF q.replay /\ q.answer.k = "closed" THEN q.closed \cup {q.op} ELSE q.closed IN
    /\ q.pc = "refused"
    /\ IF SettlesGrant(q)
         THEN /\ Drops(p, [q EXCEPT !.closed = closed], "list", q.op, "nothing")
              /\ ogMisjudged' = IF q.replay THEN ogMisjudged \cup {q.op} ELSE ogMisjudged
         ELSE /\ Paints(p, [q EXCEPT !.closed = closed], "unresolved")
              /\ UNCHANGED <<ogDisk, ogTold, ogMisjudged>>
    /\ UNCHANGED <<ogFact, ogAsked, ogStarted>> /\ NothingSent

\* The signed-in account is read again after the answer: another account
\* leaves the effect unknown.
AccountChanged(p) ==
    /\ ogProc[p].pc = "check"
    /\ Paints(p, ogProc[p], "unresolved")
    /\ UNCHANGED <<ogDisk, ogFact, ogTold, ogMisjudged, ogAsked, ogStarted>> /\ NothingSent

\* That read fails: its error is not an OwnerGrantError, so settleWith drops
\* the record as if the change had been refused.
AccountUnread(p) ==
    LET q == ogProc[p] IN
    /\ q.pc = "check"
    /\ Drops(p, q, "list", q.op, "nothing")
    /\ ogMisjudged' = ogMisjudged \cup {q.op}
    /\ UNCHANGED <<ogFact, ogAsked, ogStarted>> /\ NothingSent

\* A grant's receipt is accepted; a replayed create's is reconciled by a read
\* (shown as a stored answer when that read fails).
AcceptGrant(p) ==
    LET q == ogProc[p] IN
    /\ q.pc = "check" /\ ~Audience(q.kind)
    /\ \E s \in IF q.replay /\ q.kind = "create" THEN {"grant", "stored"} ELSE {"grant"}:
          Drops(p, q, s, q.op, "known")
    /\ UNCHANGED <<ogFact, ogMisjudged, ogAsked, ogStarted>> /\ NothingSent

\* A repeat of an answer already given here, with something newer since.
Superseded(q) == q.op \in q.answered /\ q.latest # q.op

\* A sharing receipt (setAudience after the request): below the generation
\* already confirmed it is refused with the effect unknown; superseded, it is
\* refused with the effect known; otherwise it is accepted and remembered.
AcceptAudience(p) ==
    LET q == ogProc[p]
        known == IF q.op \in q.answered THEN q
                 ELSE [q EXCEPT !.answered = @ \cup {q.op}, !.latest = q.op, !.floor = q.answer.rank] IN
    /\ q.pc = "check" /\ Audience(q.kind)
    /\ \/ /\ Generation(q.answer.rank) < Generation(q.floor)
          /\ Paints(p, q, "unresolved") /\ UNCHANGED <<ogDisk, ogTold>>
       \/ /\ Generation(q.answer.rank) >= Generation(q.floor)
          /\ Superseded(q)
          /\ Drops(p, q, "list", q.op, "known")
       \/ /\ Generation(q.answer.rank) >= Generation(q.floor)
          /\ ~Superseded(q)
          /\ ogTold' = [ogTold EXCEPT ![q.op] = "known"]
          /\ \E gone \in BOOLEAN:
               /\ ogDisk' = IF gone THEN [ogDisk EXCEPT ![q.op] = "none"] ELSE ogDisk
               /\ Become(p, [known EXCEPT !.pc = "fact", !.screen = "list",
                                !.unresolved = IF gone THEN @ \ {q.op} ELSE @])
    /\ UNCHANGED <<ogFact, ogMisjudged, ogAsked, ogStarted>> /\ NothingSent

-----------------------------------------------------------------------------
(* The question.                                                           *)

\* `c`, about an unresolved change (i) or none (0).  It reserves nothing.
\* Cuna puts it to the session and records what it said.
AskAudience(p, i) ==
    LET q == ogProc[p] IN
    /\ q.pc = "idle" /\ ogAsked < OgReadings
    /\ i # 0 => i \in q.unresolved /\ Audience(ogCloud.kind[i]) /\ q.screen = "unresolved"
    /\ ogAsked' = ogAsked + 1
    /\ Become(p, [q EXCEPT !.pc = "asking", !.ask = i, !.answer = OgSilent])
    /\ UNCHANGED <<ogDisk, ogFact, ogTold, ogMisjudged, ogStarted>> /\ NothingSent

SessionReads(p) ==
    LET q == ogProc[p]
        history == IF q.ask = 0 THEN "silent" ELSE ogCloud.request[q.ask] IN
    /\ q.pc = "asking" /\ q.answer = OgSilent
    /\ Become(p, [q EXCEPT !.answer = [k |-> history, rank |-> ogCloud.run]])
    /\ ogCloud' = [ogCloud EXCEPT !.known = ogCloud.run]
    /\ ogMisjudged' = IF q.ask \in ogWire THEN ogMisjudged \cup {q.ask} ELSE ogMisjudged
    /\ UNCHANGED <<ogDisk, ogFact, ogWire, ogAnswer, ogTold, ogAsked, ogStarted>>

\* Refused, unanswered, or from earlier in the run than confirmed here.
QuestionFails(p) ==
    LET q == ogProc[p] IN
    /\ q.pc = "asking"
    /\ Paints(p, q, IF q.screen = "unresolved" /\ q.unresolved # {} THEN "unresolved" ELSE "list")
    /\ UNCHANGED <<ogDisk, ogFact, ogTold, ogMisjudged, ogAsked, ogStarted>> /\ NothingSent

\* What the history half settles: a recorded answer, or none ever issued.
HistorySettles(k) == k \in {"recorded", "refused", "none"}

\* The answer is ordered against what this process confirmed, then its
\* history half settles or closes the change asked about.
ReadingArrives(p) ==
    LET q == ogProc[p] IN
    /\ q.pc = "asking" /\ q.answer.rank # 0 /\ ~Older(q.answer.rank, q.floor)
    /\ Become(p, [q EXCEPT !.pc = "order", !.floor = q.answer.rank, !.latest = 0,
                           !.closed = IF q.answer.k = "expired" THEN @ \cup {q.ask} ELSE @,
                           !.unresolved = IF HistorySettles(q.answer.k) THEN @ \ {q.ask} ELSE @])
    /\ IF HistorySettles(q.answer.k)
         THEN /\ ogDisk' = [ogDisk EXCEPT ![q.ask] = "none"]
              /\ ogTold' = [ogTold EXCEPT ![q.ask] =
                              IF q.answer.k = "recorded" THEN "known" ELSE "nothing"]
         ELSE UNCHANGED <<ogDisk, ogTold>>
    /\ UNCHANGED <<ogFact, ogMisjudged, ogAsked, ogStarted>> /\ NothingSent

\* The fact on disk is read after the answer arrived; an older answer is set
\* aside and never written down.
OrderReading(p) ==
    LET q == ogProc[p] IN
    /\ q.pc = "order"
    /\ IF ogFact # 0 /\ Older(q.answer.rank, ogFact)
         THEN Paints(p, q, "list")
         ELSE Become(p, [q EXCEPT !.pc = "fact", !.screen = "list"])
    /\ UNCHANGED <<ogDisk, ogFact, ogTold, ogMisjudged, ogAsked, ogStarted>> /\ NothingSent

-----------------------------------------------------------------------------
(* recordAudienceFact: read, write, read back, write once more.            *)

FactRead(p) ==
    LET q == ogProc[p] IN
    /\ q.pc = "fact"
    /\ IF ogFact # 0 /\ ~Older(ogFact, q.answer.rank)
         THEN Paints(p, q, q.screen)
         ELSE Become(p, [q EXCEPT !.pc = "write"])
    /\ UNCHANGED <<ogDisk, ogFact, ogTold, ogMisjudged, ogAsked, ogStarted>> /\ NothingSent

FactWrite(p) ==
    LET q == ogProc[p] IN
    /\ q.pc \in {"write", "rewrite"}
    /\ ogFact' = q.answer.rank
    /\ Become(p, [q EXCEPT !.pc = IF q.pc = "write" THEN "readback" ELSE "last"])
    /\ UNCHANGED <<ogDisk, ogTold, ogMisjudged, ogAsked, ogStarted>> /\ NothingSent

FactReadBack(p) ==
    LET q == ogProc[p] IN
    /\ \/ q.pc = "readback" /\ Older(ogFact, q.answer.rank) /\ Become(p, [q EXCEPT !.pc = "rewrite"])
       \/ q.pc = "readback" /\ ~Older(ogFact, q.answer.rank) /\ Paints(p, q, q.screen)
       \/ q.pc = "last" /\ Paints(p, q, q.screen)
    /\ UNCHANGED <<ogDisk, ogFact, ogTold, ogMisjudged, ogAsked, ogStarted>> /\ NothingSent

-----------------------------------------------------------------------------
\* `i`: the grant is read; on a revocation's record this settles it.
InspectGrant(p, i) ==
    LET q == ogProc[p] IN
    /\ q.pc = "idle"
    /\ \/ /\ q.screen \in {"grant", "stored"} /\ i = 0
          /\ Paints(p, q, "grant") /\ UNCHANGED <<ogDisk, ogTold>>
       \/ /\ q.screen = "unresolved" /\ i \in q.unresolved /\ ogCloud.kind[i] = "revoke"
          /\ Drops(p, q, "grant", i, "known")
    /\ UNCHANGED <<ogFact, ogMisjudged, ogAsked, ogStarted>> /\ NothingSent

\* `d` then `y`: only the local record goes.
ForgetRecord(p, i) ==
    LET q == ogProc[p] IN
    /\ q.pc = "idle" /\ q.screen = "unresolved" /\ i \in q.unresolved
    /\ Drops(p, q, "list", i, IF ogTold[i] = "none" THEN "known" ELSE ogTold[i])
    /\ UNCHANGED <<ogFact, ogMisjudged, ogAsked, ogStarted>> /\ NothingSent

\* `p` opens the recovery screen, `b` the session list.
Browse(p, s) ==
    LET q == ogProc[p] IN
    /\ q.pc = "idle" /\ q.screen # s
    /\ s = "unresolved" => q.unresolved # {}
    /\ Paints(p, q, s)
    /\ UNCHANGED <<ogDisk, ogFact, ogTold, ogMisjudged, ogAsked, ogStarted>> /\ NothingSent

OgNext ==
    \/ \E p \in OgProcs:
          \/ StartShare(p) \/ EndShare(p) \/ ReserveAndSend(p)
          \/ AnswerLost(p) \/ AnswerArrives(p) \/ Refused(p) \/ AccountChanged(p) \/ AccountUnread(p)
          \/ AcceptGrant(p) \/ AcceptAudience(p)
          \/ SessionReads(p) \/ QuestionFails(p) \/ ReadingArrives(p) \/ OrderReading(p)
          \/ FactRead(p) \/ FactWrite(p) \/ FactReadBack(p)
          \/ \E kind \in OgKinds: Decide1(p, kind)
          \/ \E i \in OgIds: Resend(p, i) \/ ForgetRecord(p, i)
          \/ \E i \in OgIds \cup {0}: AskAudience(p, i) \/ InspectGrant(p, i)
          \/ \E s \in {"list", "unresolved"}: Browse(p, s)
    \/ \E i \in OgIds: \/ RefusesEarly(i) \/ CreatesGrant(i) \/ RevokesGrant(i)
                       \/ AsksSession(i) \/ RequestExpires(i)
    \/ RevokedElsewhere

OgSpec == OgInit /\ [][OgNext]_ogVars

-----------------------------------------------------------------------------
\* A change that took effect, or still may, and of which the owner was told
\* nothing has its record in the state directory, through crashes, lost
\* answers and other processes (reserve before sending, settleWith).
DoubtIsRecorded ==
    \A i \in OgIds: (ogCloud.effect[i] # 0 \/ i \in ogWire) /\ ogTold[i] = "none" => ogDisk[i] # "none"

\* "This attempt applied nothing": a change settled that way never takes
\* effect, except where the answer was about something else than the change
\* (AccountUnread, the refusal of a resend, a history read while the request
\* was still on its way) and where two processes handled it.
NothingWasApplied ==
    \A i \in OgIds: ogTold[i] = "nothing" /\ i \notin ogMisjudged => ogCloud.effect[i] = 0

\* The same without the exception.
NothingMeansNothing == \A i \in OgIds: ogTold[i] = "nothing" => ogCloud.effect[i] = 0

\* A sharing receipt about to be shown as confirmed is not older than the
\* fact this computer already holds: "there is no path by which a superseded
\* receipt can be painted as the session's state" (paintAudience).
SharedIsLatest ==
    \A p \in OgProcs:
        ogProc[p].pc = "fact" /\ Audience(ogProc[p].kind) /\ ogProc[p].op # 0
            => ogFact = 0 \/ ~Older(ogProc[p].answer.rank, ogFact)

=============================================================================
