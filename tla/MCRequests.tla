-------------------------- MODULE MCRequests --------------------------
(******************************************************************************)
(* The components that ask something of the service or show what it answers, in*)
(* one run: each behaviour exercises the one that part names, from its start, while*)
(* the others keep still. They share no state: the run explores the union of  *)
(* their state spaces; an invariant groups what several of them must promise. *)
(******************************************************************************)
EXTENDS LiveUpdate, ApiKeys, MachineChoice, ProviderLaunch, MachineCommands,
        HttpExchange, CliRun, OwnerGrants, SessionSwitch,
        SecretOverlay, PredictiveEcho

VARIABLE part      \* the component this behaviour exercises

Parts == {"update", "keys", "choice", "launch", "waiting", "create", "remote", "http",
          "cli", "grants", "gate", "switch", "secret", "paste", "echo", "viewport"}

\* Every component but the exercised one keeps still.
Rest ==
    /\ IF part = "update" THEN TRUE ELSE UNCHANGED luVars
    /\ IF part = "keys" THEN TRUE ELSE UNCHANGED akVars
    /\ IF part = "choice" THEN TRUE ELSE UNCHANGED mcVars
    /\ IF part = "launch" THEN TRUE ELSE UNCHANGED plVars
    /\ IF part = "waiting" THEN TRUE ELSE UNCHANGED rwVars
    /\ IF part = "create" THEN TRUE ELSE UNCHANGED crVars
    /\ IF part = "remote" THEN TRUE ELSE UNCHANGED rcVars
    /\ IF part = "http" THEN TRUE ELSE UNCHANGED hxVars
    /\ IF part = "cli" THEN TRUE ELSE UNCHANGED ciVars
    /\ IF part = "grants" THEN TRUE ELSE UNCHANGED ogVars
    /\ IF part = "gate" THEN TRUE ELSE UNCHANGED cgVars
    /\ IF part = "switch" THEN TRUE ELSE UNCHANGED swVars
    /\ IF part = "secret" THEN TRUE ELSE UNCHANGED soVars
    /\ IF part = "paste" THEN TRUE ELSE UNCHANGED gkVars
    /\ IF part = "echo" THEN TRUE ELSE UNCHANGED peVars
    /\ IF part = "viewport" THEN TRUE ELSE UNCHANGED vtVars

Init ==
    /\ part \in Parts
    /\ LuInit /\ AkInit /\ McInit /\ PlInit /\ RwInit /\ CrInit
    /\ RcInit /\ HxInit /\ CiInit /\ OgInit /\ CgInit /\ SwInit
    /\ SoInit /\ GkInit /\ PeInit /\ VtInit

Next ==
    \/ part = "update" /\ LuNext /\ Rest /\ UNCHANGED part
    \/ part = "keys" /\ AkNext /\ Rest /\ UNCHANGED part
    \/ part = "choice" /\ McNext /\ Rest /\ UNCHANGED part
    \/ part = "launch" /\ PlNext /\ Rest /\ UNCHANGED part
    \/ part = "waiting" /\ RwNext /\ Rest /\ UNCHANGED part
    \/ part = "create" /\ CrNext /\ Rest /\ UNCHANGED part
    \/ part = "remote" /\ RcNext /\ Rest /\ UNCHANGED part
    \/ part = "http" /\ HxNext /\ Rest /\ UNCHANGED part
    \/ part = "cli" /\ CiNext /\ Rest /\ UNCHANGED part
    \/ part = "grants" /\ OgNext /\ Rest /\ UNCHANGED part
    \/ part = "gate" /\ CgNext /\ Rest /\ UNCHANGED part
    \/ part = "switch" /\ SwNext /\ Rest /\ UNCHANGED part
    \/ part = "secret" /\ SoNext /\ Rest /\ UNCHANGED part
    \/ part = "paste" /\ GkNext /\ Rest /\ UNCHANGED part
    \/ part = "echo" /\ PeNext /\ Rest /\ UNCHANGED part
    \/ part = "viewport" /\ VtNext /\ Rest /\ UNCHANGED part

vars == <<part, luVars, akVars, mcVars, plVars, rwVars, crVars, rcVars, hxVars,
          ciVars, ogVars, cgVars, swVars, soVars, gkVars, peVars, vtVars>>

Spec == Init /\ [][Next]_vars

\* What is asked of the service once is done once, however often the request is sent
\* again or repeated by another run of the program: an effect in doubt stays on record
\* until it is settled, and doubt never counts as permission.
AskedOnce ==
    /\ part = "choice" => SentOnce
    /\ part = "choice" => NeverDoubled
    /\ part = "choice" => UnknownIsNoPermission
    /\ part = "http" => AppliedOnce
    /\ part = "launch" => NoUnaskedTwin
    /\ part = "secret" => OneSecretInDoubt
    /\ part = "update" => IdentityKept
    /\ part = "keys" => NoOrphanKey
    /\ part = "grants" => DoubtIsRecorded

\* An outcome told to the person is true of the service: refused or unsent means nothing
\* happened there, done means it did, and what is known of a committed effect is named.
RefusalsAreTrue ==
    /\ part = "launch" => RefusedStartedNothing
    /\ part = "http" => UnsentIsTrue
    /\ part = "grants" => NothingWasApplied
    /\ part = "secret" => ClaimsAreTrue
    /\ part = "create" => KnownIsNamed
    /\ part = "remote" => DoneHasLanded

\* What the person is shown is so: a question can be read, the picture is this account's,
\* a session keeps its number, the last line tells where the session stands, and what is
\* painted ahead of the host was typed and earned by its echo.
ShownIsSo ==
    /\ part = "cli" => QuestionReadable
    /\ part = "cli" => PictureIsOurs
    /\ part = "switch" => NumbersStay
    /\ part = "switch" => FarewellIsTrue
    /\ part = "echo" => ShownIsEarned
    /\ part = "echo" => PaintedIsTyped

\* What is held stays with its holder and is given back: a live session keeps its seat, a
\* secret goes only where it was asked for, a retired viewport answers nothing to the host,
\* waiting is bounded, and two gates judge the service's capabilities alike.
NothingStrays ==
    /\ part = "switch" => LiveSeatKept
    /\ part = "switch" => CancelledStaysOut
    /\ part = "secret" => WrittenWhereAsked
    /\ part = "paste" => PasteStaysLocal
    /\ part = "cli" => KeyNeverDemoted
    /\ part = "cli" => NothingLeftRunning
    /\ part = "viewport" => NoReplyFromRetired
    /\ part = "viewport" => BudgetIsReturned
    /\ part = "waiting" => WaitBounded
    /\ part = "create" => FollowBounded
    /\ part = "gate" => GatesAgree

==============================================================================
