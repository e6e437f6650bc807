--------------------------- MODULE SecretOverlay ---------------------------
(***************************************************************************)
(* The named-secret popout of the terminal (named-secrets/overlay.ts, with *)
(* its opener in terminal/foreground.ts and the writer proof it asks of    *)
(* runtime/boundary.ts).  A person opens it over an attached terminal,     *)
(* types a name and a secret, and Enter stores it in the Cuna vault under  *)
(* an operation id.  The write is sent once; what became of it is asked    *)
(* with metadata reads.  Meanwhile the terminal's connection, seat or      *)
(* process may become another one, the window may shrink, and the popout   *)
(* may be closed and opened again.                                         *)
(*                                                                         *)
(* #generation is the flag `mine` of the running task: every place that    *)
(* raises the generation clears it.  A continuation of an aborted wait     *)
(* runs before the next event, so `cut` stops every other action.          *)
(***************************************************************************)
EXTENDS Naturals

CONSTANTS SoOps,          \* bound: writes
          SoOpens,        \* bound: presses of Ctrl+Q
          SoMoves         \* bound: changes of the terminal's authority, of the window

ASSUME SecretBounds == SoOps \in Nat \ {0} /\ SoOpens \in Nat /\ SoMoves \in Nat

VARIABLES so,             \* the popout
          soTask,         \* its one asynchronous task
          soPrep,         \* the opener refreshing the writer proof
          soAuth,         \* the terminal's authority now; 0: none
          soStale,        \* the connection's proof is not this writer's
          soWide,         \* the window has room for the popout
          soServer,       \* operation -> what became of its write (external)
          soCount,        \* openings and moves so far
          soRun           \* ghost: authority at opening, writes
soVars == <<so, soTask, soPrep, soAuth, soStale, soWide, soServer, soCount, soRun>>

Authorities == 0 .. 2
NoTask == [at |-> "none", mine |-> FALSE, cut |-> "no", tries |-> 0]
NoPrep == [on |-> FALSE, key |-> 0]

SoInit ==
    /\ so = [ui |-> "closed", pers |-> "NOT_SENT", key |-> 0, op |-> 0, expired |-> FALSE,
             filled |-> FALSE, says |-> "none"]
    /\ soTask = NoTask
    /\ soPrep = NoPrep
    /\ soAuth = 1
    /\ soStale = FALSE
    /\ soWide = TRUE
    /\ soServer = [o \in 1 .. SoOps |-> "never"]
    /\ soCount = [opens |-> 0, moves |-> 0]
    /\ soRun = [for |-> 0, sent |-> FALSE, posts |-> {}]

Active1 == so.ui # "closed"
InDoubt == so.op # 0 /\ so.pers \in {"UNKNOWN", "IN_FLIGHT"}
Awake == soTask.cut = "no"
World == <<soAuth, soStale, soWide, soServer>>
\* A finished task, a task that goes on, a task whose wait was aborted.
Cuts(how) == IF soTask.at = "none" THEN soTask ELSE [soTask EXCEPT !.mine = FALSE, !.cut = how]
Doubted == IF so.pers = "IN_FLIGHT" THEN "UNKNOWN" ELSE so.pers

\* open: a write still in doubt is asked about, and nothing else can be typed.
ForgottenDoubt == FALSE
Recovers == InDoubt
Opened ==
    IF Recovers
    THEN [so EXCEPT !.ui = "error", !.says = "unknown", !.key = soAuth]
    ELSE [so EXCEPT !.ui = "edit", !.says = "none", !.key = soAuth, !.pers = "NOT_SENT",
              !.expired = FALSE, !.filled = FALSE]
Opens1 ==
    /\ so' = Opened
    /\ soRun' = [soRun EXCEPT !.for = soAuth, !.sent = FALSE]

\* #openSecretOverlay, on Ctrl+Q: a doubtful write first; otherwise a writer
\* whose connection proof is stale is attached again before anything is typed.
PressOpen ==
    /\ Awake /\ ~Active1 /\ ~soPrep.on /\ soWide
    /\ soCount.opens < SoOpens
    /\ soCount' = [soCount EXCEPT !.opens = @ + 1]
    /\ \/ (InDoubt \/ (soAuth # 0 /\ ~soStale)) /\ Opens1 /\ UNCHANGED soPrep
       \/ ~InDoubt /\ soAuth # 0 /\ soStale /\ soPrep' = [on |-> TRUE, key |-> soAuth] /\ UNCHANGED <<so, soRun>>
    /\ UNCHANGED <<soTask, World>>

\* refreshNamedSecretAuthority: the same process, seat and binding, or no popout.
Prepared ==
    /\ soPrep.on
    /\ soStale' = FALSE
    /\ soPrep' = NoPrep
    /\ IF soAuth = soPrep.key /\ soWide /\ ~Active1 THEN Opens1 ELSE UNCHANGED <<so, soRun>>
    /\ UNCHANGED <<soTask, soAuth, soWide, soServer, soCount>>

\* Ctrl+C, Esc, ten seconds, a failed refresh.
PrepareCancelled ==
    /\ soPrep.on
    /\ soPrep' = NoPrep
    /\ UNCHANGED <<so, soTask, World, soCount, soRun>>

Typing == so.pers = "NOT_SENT" /\ so.ui # "validating" /\ ~so.expired
\* #append, Backspace: from here the name and the secret are valid, or not.
Types ==
    /\ Awake /\ Active1 /\ soWide /\ Typing
    /\ so' = [so EXCEPT !.filled = ~@]
    /\ UNCHANGED <<soTask, soPrep, World, soCount, soRun>>

\* close, with what is being waited for.
Closed(task) ==
    /\ so' = [so EXCEPT !.ui = "closed", !.pers = Doubted, !.filled = FALSE]
    /\ soTask' = task

PressEscape ==
    /\ Awake /\ Active1
    /\ Closed(Cuts("closed"))
    /\ UNCHANGED <<soPrep, World, soCount, soRun>>

StartsTask(at) == soTask' = [at |-> at, mine |-> TRUE, cut |-> "no", tries |-> 0]
\* Enter: leave a settled popout, ask about a doubtful write, or #submit.
PressEnter ==
    /\ Awake /\ Active1 /\ soWide
    /\ \/ /\ so.ui = "success" \/ so.pers = "REJECTED"
          /\ Closed(Cuts("closed"))
       \/ /\ so.pers = "UNKNOWN" /\ soTask.at = "none"
          /\ so' = [so EXCEPT !.ui = "reconciling", !.says = "checking"]
          /\ StartsTask("read")
       \/ /\ Typing /\ soTask.at = "none" /\ ~so.filled
          /\ so' = [so EXCEPT !.ui = "error", !.says = "invalid"]
          /\ UNCHANGED soTask
       \/ /\ Typing /\ soTask.at = "none" /\ so.filled /\ soAuth # so.key
          /\ Closed(soTask)
       \/ /\ Typing /\ soTask.at = "none" /\ so.filled /\ soAuth = so.key
          /\ so' = [so EXCEPT !.ui = "validating", !.says = "checking"]
          /\ StartsTask("prepare")
    /\ UNCHANGED <<soPrep, World, soCount, soRun>>

\* #submit after the vault was asked: the popout must still be the one that
\* asked, over the terminal it was opened on; then the write is sent, and the
\* secret is wiped here.
\* createNamedSecret: one request, never dispatched again by the transport.
Sends1 == soServer' = [soServer EXCEPT ![so.op + 1] = "sent"]
AdmittedOnce == TRUE
StillAdmitted == soAuth = so.key
VaultReady ==
    /\ Awake /\ soTask.at = "prepare"
    /\ \/ /\ soWide /\ StillAdmitted /\ so.op < SoOps
          /\ so' = [so EXCEPT !.ui = "submitting", !.pers = "IN_FLIGHT", !.op = @ + 1, !.filled = FALSE,
                        !.says = "saving"]
          /\ Sends1
          /\ soRun' = [soRun EXCEPT !.sent = TRUE, !.posts = @ \cup {[asked |-> soRun.for, went |-> soAuth]}]
          /\ soTask' = [soTask EXCEPT !.at = "create"]
       \/ /\ soWide /\ ~StillAdmitted
          /\ Closed(NoTask)
          /\ UNCHANGED <<soServer, soRun>>
    /\ UNCHANGED <<soPrep, soAuth, soStale, soWide, soCount>>

\* prepare: another account, a Machine or process that is not running any more,
\* another workspace, or no answer at all.
VaultRefuses ==
    /\ Awake /\ soTask.at = "prepare"
    /\ so' = [so EXCEPT !.ui = "error", !.filled = FALSE, !.says = "noWrite"]
    /\ soTask' = NoTask
    /\ UNCHANGED <<soPrep, World, soCount, soRun>>

Mine == soTask.mine /\ Active1
\* #reject: nothing was stored.
Rejected1 ==
    /\ so' = IF Mine THEN [so EXCEPT !.pers = "REJECTED", !.ui = "error", !.says = "nothingStored"]
                     ELSE [so EXCEPT !.pers = "REJECTED"]
    /\ soTask' = NoTask
    /\ UNCHANGED soRun
\* The write's own answer is no proof; neither is its absence.
AskAgain ==
    /\ so' = IF Mine THEN [so EXCEPT !.pers = "UNKNOWN", !.ui = "reconciling", !.says = "checking"]
                     ELSE [so EXCEPT !.pers = "UNKNOWN"]
    /\ soTask' = IF Mine THEN [soTask EXCEPT !.at = "read", !.tries = 0] ELSE NoTask
    /\ UNCHANGED soRun

AnyFailure == {"sent", "lost", "rejected", "refused"}
Definite == {"rejected", "refused"}
\* #submit, the answer: a receipt or a definite refusal by status, or neither
\* (an answer that does not fit, a reset, ten seconds).
SecretCreated ==
    /\ Awake /\ soTask.at = "create"
    /\ \/ soServer[so.op] \in Definite /\ Rejected1
       \/ AskAgain
    /\ UNCHANGED <<soPrep, World, soCount>>

\* #reconcile, one read: the receipt, or no answer; two attempts.
SecretRead ==
    /\ Awake /\ soTask.at = "read"
    /\ \/ /\ soServer[so.op] = "committed"
          /\ so' = IF Mine THEN [so EXCEPT !.pers = "COMMITTED", !.ui = "success", !.says = "saved"]
                           ELSE [so EXCEPT !.pers = "COMMITTED"]
          /\ soTask' = NoTask
          /\ UNCHANGED soRun
       \/ soServer[so.op] = "rejected" /\ Rejected1
       \/ /\ soTask.tries = 0
          /\ soTask' = [soTask EXCEPT !.tries = 1]
          /\ UNCHANGED <<so, soRun>>
       \/ /\ soTask.tries = 1
          /\ so' = IF Mine THEN [so EXCEPT !.pers = "UNKNOWN", !.ui = "error", !.says = "unknown"]
                           ELSE [so EXCEPT !.pers = "UNKNOWN"]
          /\ soTask' = NoTask
          /\ UNCHANGED soRun
    /\ UNCHANGED <<soPrep, World, soCount>>

\* An aborted wait.  A read whose abort controller was replaced asks once more.
CutTask ==
    /\ ~Awake
    /\ IF soTask.at = "read" /\ soTask.cut = "renewed" /\ soTask.tries = 0
       THEN soTask' = [soTask EXCEPT !.cut = "no", !.tries = 1] /\ UNCHANGED so
       ELSE soTask' = NoTask /\ so' = IF soTask.at = "prepare" THEN so ELSE [so EXCEPT !.pers = "UNKNOWN"]
    /\ UNCHANGED <<soPrep, World, soCount, soRun>>

\* The plaintext lifetime: two minutes, and only for what was not sent.
Expires ==
    /\ Awake /\ Active1 /\ so.pers = "NOT_SENT" /\ ~so.expired
    /\ so' = [so EXCEPT !.ui = "error", !.expired = TRUE, !.filled = FALSE, !.says = "noWrite"]
    /\ soTask' = Cuts("renewed")
    /\ UNCHANGED <<soPrep, World, soCount, soRun>>

Budget1 == soCount.moves < SoMoves /\ soCount' = [soCount EXCEPT !.moves = @ + 1]
\* geometryChanged: a window too small clears what was typed and not sent, and
\* keeps capturing keys where a popout was being prepared.
Resized ==
    /\ Awake /\ Budget1
    /\ soWide' = ~soWide
    /\ LET clears == soWide /\ ((Active1 /\ so.pers = "NOT_SENT" /\ ~so.expired) \/ (soPrep.on /\ ~Active1))
       IN /\ so' = IF clears THEN [so EXCEPT !.ui = "error", !.expired = TRUE, !.filled = FALSE, !.says = "cleared"] ELSE so
          /\ soTask' = IF clears THEN Cuts("renewed") ELSE soTask
    /\ soPrep' = IF soWide THEN NoPrep ELSE soPrep
    /\ UNCHANGED <<soAuth, soStale, soServer, soRun>>

\* A reconnect, another process, another writer, no seat at all.
AuthorityMoves ==
    /\ Awake /\ Budget1
    /\ \E a \in Authorities \ {soAuth}: soAuth' = a
    /\ soStale' \in BOOLEAN
    /\ UNCHANGED <<so, soTask, soPrep, soWide, soServer, soRun>>

\* authorityChanged, when the runtime's snapshot reaches the screen.
AuthorityChanged ==
    /\ Awake /\ Active1 /\ soAuth # so.key
    /\ so' = [so EXCEPT !.key = soAuth, !.pers = Doubted, !.filled = FALSE, !.ui = "error", !.expired = TRUE,
                  !.says = IF Doubted = "UNKNOWN" THEN "unknown" ELSE "noWrite"]
    /\ soTask' = Cuts("renewed")
    /\ UNCHANGED <<soPrep, World, soCount, soRun>>

\* The vault: it stores the secret, refuses it with a receipt, refuses it
\* without one, or the request never gets there.
VaultDecides ==
    /\ \E o \in 1 .. SoOps, fate \in {"committed", "rejected", "refused", "lost"}:
        /\ soServer[o] = "sent"
        /\ soServer' = [soServer EXCEPT ![o] = fate]
    /\ UNCHANGED <<so, soTask, soPrep, soAuth, soStale, soWide, soCount, soRun>>

SoNext ==
    \/ PressOpen \/ Prepared \/ PrepareCancelled \/ Types \/ PressEscape \/ PressEnter
    \/ VaultReady \/ VaultRefuses \/ SecretCreated \/ SecretRead \/ CutTask
    \/ Expires \/ Resized \/ AuthorityMoves \/ AuthorityChanged \/ VaultDecides

SoSpec == SoInit /\ [][SoNext]_soVars

-----------------------------------------------------------------------------
(* Properties.                                                             *)

\* A secret is written under the authority it was typed for: the terminal may
\* become another one while the vault is asked, and the popout learns of that
\* only later (#submit's second look).
WrittenWhereAsked == \A p \in soRun.posts: p.asked = p.went

\* No second secret is written while it is unknown what became of the first,
\* however often the popout is closed, its connection lost and opened again.
OneSecretInDoubt == \A o \in 1 .. SoOps: o < so.op => soServer[o] \in {"committed", "rejected", "refused"}

\* What a small window shows instead of the feedback line.
Claims ==
    IF soWide THEN so.says
    ELSE CASE so.pers = "COMMITTED" -> "saved" [] so.pers = "UNKNOWN" -> "unknown"
           [] so.pers = "IN_FLIGHT" -> "saving" [] OTHER -> "resize"
\* "Saved" means stored and "nothing stored" means that, also when the popout
\* only keeps it; and "no write sent" is never said of a write in doubt.
ClaimsAreTrue ==
    /\ so.pers = "COMMITTED" => soServer[so.op] = "committed"
    /\ so.pers = "REJECTED" => soServer[so.op] \in {"rejected", "refused"}
    /\ Active1 =>
        /\ so.says = "saved" => soServer[so.op] = "committed"
        /\ so.says = "nothingStored" => soServer[so.op] \in {"rejected", "refused"}
        /\ Claims \in {"noWrite", "cleared"} => ~(soRun.sent /\ InDoubt)

-----------------------------------------------------------------------------
(***************************************************************************)
(* The gate in front of the named-secret popout (NamedSecretInputGate of   *)
(* named-secrets/overlay.ts): every callback of host input is either kept  *)
(* for the popout or sent on to the remote terminal.  The host frames a    *)
(* paste by two markers and may cut its bytes anywhere, also inside a      *)
(* marker; the first byte of a marker is the Escape key, which also closes *)
(* the popout.  So a paste can begin over the popout and go on after it.   *)
(*                                                                         *)
(* Bytes are told apart as: Escape (or a marker's first byte), the rest of *)
(* a start marker, the rest of an end marker, Ctrl+Q, and any other key.   *)
(* Mouse reports are left out but for the Escape that could begin one.     *)
(***************************************************************************)

VARIABLES gk,             \* the gate: #pasting, #start, #end, #mouse, #wasModal
          gkMode,         \* what the callback being read does with its bytes
          gkOpen,         \* the popout is open or being prepared
          gkHost,         \* what the host is in the middle of (external)
          gkLeaked        \* ghost: a byte of a paste begun over the popout went out
gkVars == <<gk, gkMode, gkOpen, gkHost, gkLeaked>>

Keys1 == {"esc", "start", "end", "chord", "key"}

GkInit ==
    /\ gk = [paste |-> FALSE, start |-> 0, end |-> 0, mouse |-> FALSE, modal |-> FALSE]
    /\ gkMode = "none"
    /\ gkOpen = FALSE
    /\ gkHost = [in |-> FALSE, half |-> FALSE, over |-> FALSE]
    /\ gkLeaked = FALSE

SafeToEdit(g) == ~g.paste /\ g.start = 0 /\ ~g.mouse

\* The framing of #track: a marker is Escape and its rest, nothing between.
Framed(g, b) ==
    IF g.paste
    THEN [g EXCEPT !.paste = ~(g.end = 1 /\ b = "end"), !.end = IF b = "esc" THEN 1 ELSE 0]
    ELSE [g EXCEPT !.paste = (g.start = 1 /\ b = "start"), !.start = IF b = "esc" THEN 1 ELSE 0]
Tracked(g, b) == [Framed(g, b) EXCEPT !.mouse = ~g.paste /\ b = "esc"]

\* How a callback is read, from its first byte.
ForgetsItsPaste(g) == FALSE
Drains(g) == g.modal /\ (g.start > 0 \/ g.paste)
Mode(g, b) ==
    IF gkOpen THEN [how |-> "local", gate |-> [g EXCEPT !.modal = TRUE]]
    ELSE IF g.mouse /\ ~g.paste /\ b \in {"start", "end"} THEN [how |-> "track", gate |-> g]
    ELSE LET h == [g EXCEPT !.mouse = @ /\ g.paste]
             i == IF h.modal /\ ~h.paste /\ h.start = 1 /\ b \notin {"start", "end"}
                  THEN [h EXCEPT !.start = 0, !.modal = FALSE] ELSE h
         IN IF Drains(i) THEN [how |-> "drain", gate |-> i]
            ELSE [how |-> "remote", gate |-> [i EXCEPT !.modal = FALSE]]

\* One byte of a callback: the next mode, the gate and whether it went out.
\* A refused chord drops the rest; an opened popout takes it.
Chord(g, opens) ==
    [how |-> IF opens THEN "local" ELSE "drop",
     gate |-> [g EXCEPT !.start = 0, !.modal = opens], out |-> FALSE]
Read1(how, g, b, opens) ==
    CASE how \in {"local", "track"} -> [how |-> how, gate |-> Tracked(g, b), out |-> FALSE]
      [] how = "drop" -> [how |-> how, gate |-> g, out |-> FALSE]
      [] how = "drain" /\ ~g.paste /\ b = "chord" -> Chord(g, opens)
      [] how = "drain" /\ ~(~g.paste /\ b = "chord") ->
           LET h == Framed(g, b)
               over == IF g.paste THEN ~h.paste ELSE ~h.paste /\ h.start = 0
           IN [how |-> IF over THEN "drop" ELSE "drain",
               gate |-> IF over THEN [h EXCEPT !.modal = FALSE] ELSE h, out |-> FALSE]
      [] how = "remote" /\ ~g.paste /\ b = "chord" -> Chord(g, opens)
      [] OTHER -> [how |-> how, gate |-> Framed(g, b), out |-> TRUE]

\* The host's own framing: a marker is never interrupted.
MaySendKeys(b) ==
    /\ gkHost.half => b = IF gkHost.in THEN "end" ELSE "start"
    /\ ~gkHost.half => b \notin {"start", "end"}

\* process: a byte arrives, and the callback ends with it or goes on.  A lone
\* Escape and a marker's first byte look alike; `marker` is the host's secret.
Arrives1 ==
    \E b \in Keys1, more, opens, marker \in BOOLEAN:
        LET first == gkMode = "none"
            m == Mode(gk, b)
            how == IF first THEN m.how ELSE gkMode
            r == Read1(how, IF first THEN m.gate ELSE gk, b, opens)
            begins == ~gkHost.half /\ b = "esc" /\ marker
        IN /\ MaySendKeys(b)
           /\ (opens => b = "chord") /\ (marker => b = "esc")
           /\ gkMode' = IF more THEN r.how ELSE "none"
           /\ gk' = IF ~more /\ how = "track" THEN [r.gate EXCEPT !.modal = ~SafeToEdit(r.gate)] ELSE r.gate
           /\ gkOpen' = (gkOpen \/ (opens /\ r.how = "local" /\ how # "local"))
           /\ gkHost' = [in |-> IF gkHost.half THEN ~gkHost.in ELSE gkHost.in, half |-> begins,
                         over |-> IF begins /\ ~gkHost.in THEN r.how \notin {"remote", "drop"} ELSE gkHost.over]
           /\ gkLeaked' = (gkLeaked \/ (r.out /\ gkHost.over /\ (gkHost.in \/ gkHost.half)))

\* Escape after its 30 ms, Enter, a key sequence, a lost connection.
PopoutCloses ==
    /\ gkOpen
    /\ gkOpen' = FALSE
    /\ UNCHANGED <<gk, gkMode, gkHost, gkLeaked>>

GkNext == Arrives1 \/ PopoutCloses
GkSpec == GkInit /\ [][GkNext]_gkVars

\* What is pasted over the popout never reaches the remote terminal, wherever
\* the host cuts the paste and whenever the popout closes under it ("a lone
\* Escape cancellation cannot prove that delayed bytes were not the rest of a
\* bracketed paste").
PasteStaysLocal == ~gkLeaked
=============================================================================
