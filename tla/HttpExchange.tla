--------------------------- MODULE HttpExchange ---------------------------
(***************************************************************************)
(* One operation of the API client over the HTTP transport (api/client.ts, *)
(* api/http.ts): its validation, the credential, the dispatch, its one     *)
(* replay on a connection that was never made, the one renewal of a        *)
(* rejected bearer, the budget of the response and the caller's abort, the *)
(* check of what the answer is about, and the error each of them ends in.  *)
(***************************************************************************)
EXTENDS Integers

-----------------------------------------------------------------------------
(***************************************************************************)
(* The operations of createCunaApiClient (api/client.ts), as the transport *)
(* and the service tell them apart: the method, the identity by which the  *)
(* service recognises a repetition (a key in the header, an operation id   *)
(* in the body, or none), whether the transport may send it again by       *)
(* itself, and whether the client compares what the answer is about with   *)
(* what it asked for.  Paths, bodies, budgets and decoders are left out.   *)
(***************************************************************************)

Read(checked) == [method |-> "GET", identity |-> "none", redispatch |-> TRUE, secret |-> FALSE, checked |-> checked]
Write(method, identity, checked) ==
    [method |-> method, identity |-> identity, redispatch |-> TRUE, secret |-> FALSE, checked |-> checked]
Secret(method, identity) ==
    [method |-> method, identity |-> identity, redispatch |-> FALSE, secret |-> TRUE, checked |-> FALSE]
Once(operation) == [operation EXCEPT !.redispatch = FALSE]

AccountOperations ==
    [createNamedSecret |-> Secret("POST", "key"), getNamedSecretOperation |-> Secret("GET", "none"),
     getIdentity |-> Read(FALSE), discoverCapabilities |-> Read(FALSE),
     listMachines |-> Read(FALSE), getMachine |-> Read(TRUE),
     listRecords |-> Read(FALSE), listAuthorizations |-> Read(FALSE), listApiKeys |-> Read(FALSE),
     createApiKey |-> Write("POST", "key", FALSE), revokeApiKey |-> Write("DELETE", "none", FALSE)]

MachineOperations ==
    [createMachine |-> Write("POST", "key", FALSE),
     getMachineCreateRequest |-> Read(TRUE), reconcileMachineCreateRequest |-> Write("POST", "none", TRUE),
     transitionMachine |-> Write("POST", "none", TRUE), replaceMachineSupervisor |-> Write("POST", "none", TRUE),
     updateMachineSupervisorInPlace |-> Once(Write("POST", "operation", TRUE)),
     readMachineSupervisorInPlaceUpdate |-> Read(TRUE), deleteMachine |-> Write("DELETE", "none", FALSE)]

ExecutionOperations ==
    [executeManagedCommand |-> Write("POST", "operation", FALSE),
     listManagedExecutions |-> Read(TRUE), getManagedExecution |-> Read(TRUE),
     cancelManagedExecution |-> Write("POST", "none", TRUE), listExecutionWorkspaces |-> Read(TRUE)]

BindingOperations ==
    [createWorkspaceBinding |-> Write("POST", "key", TRUE), getWorkspaceBinding |-> Read(TRUE)]

SessionOperations ==
    [listAgentSessions |-> Read(TRUE), createAgentSession |-> Write("POST", "key", TRUE),
     getProviderPresetsV2 |-> Write("POST", "none", FALSE), createProviderSessionV2 |-> Write("POST", "operation", TRUE),
     checkProviderV2 |-> Write("POST", "none", TRUE),
     getMachineDefaultWorkspace |-> Read(TRUE), getAgentSessionWorkspaceContext |-> Read(TRUE)]

LaunchOperations ==
    [createAgentSessionInWorkspace |-> Write("POST", "key", TRUE),
     inspectAgentSessionCreate |-> [Read(FALSE) EXCEPT !.identity = "key"],
     getAgentSession |-> Read(TRUE), getAgentSessionAuth |-> Read(TRUE), getAgentSessionTerminalSeat |-> Read(TRUE)]

ChangeOperations ==
    [logoutAgentSessionAuth |-> Write("POST", "none", TRUE), renameAgentSession |-> Write("PATCH", "none", TRUE),
     terminateAgentSession |-> Write("POST", "none", TRUE)]

TerminalOperations ==
    [createTerminalConnection |-> Write("POST", "key", FALSE), cancelTerminalConnection |-> Write("POST", "key", FALSE),
     transferTerminalWriter |-> Write("POST", "operation", TRUE),
     transferTerminalWriterUnnamed |-> Write("POST", "none", TRUE)]      \* without the optional operation_id

Tables == {AccountOperations, MachineOperations, ExecutionOperations, BindingOperations,
           SessionOperations, LaunchOperations, ChangeOperations, TerminalOperations}
OperationNames == UNION {DOMAIN t: t \in Tables}
Operation(name) == (CHOOSE t \in Tables: name \in DOMAIN t)[name]

\* The query is put into the path, and no path that holds one is sent.
PathHoldsQuery == {"listExecutionWorkspaces"}

-----------------------------------------------------------------------------
(* The exchange.                                                           *)

VARIABLES
    hxOp,         \* the operation
    hxBearer,     \* the transport has a bearer provider
    hxOptIn,      \* getAgentSession asks for more than the session
    hxGate,       \* createMachine is still at the capability it needs
    hxPc,         \* idle, admission, credential, sending, refresh, done
    hxWire,       \* the dispatch: none, connecting, sent, reached
    hxApplied,    \* times the service has applied the request
    hxCaller, hxBudget,   \* the caller aborted; the budget has fired
    hxAttempts, hxRetried, hxRenewed,
    hxMisread,    \* ghost: a failure after the write named connect
    hxEnd

hxVars == <<hxOp, hxBearer, hxOptIn, hxGate, hxPc, hxWire, hxApplied, hxCaller, hxBudget, hxAttempts, hxRetried, hxRenewed, hxMisread, hxEnd>>

HxInit ==
    /\ hxOp = "getIdentity" /\ hxBearer = FALSE /\ hxOptIn = FALSE /\ hxGate = FALSE
    /\ hxPc = "idle" /\ hxWire = "none" /\ hxApplied = 0
    /\ hxCaller = FALSE /\ hxBudget = FALSE
    /\ hxAttempts = 0 /\ hxRetried = FALSE /\ hxRenewed = FALSE /\ hxMisread = FALSE
    /\ hxEnd = "none"

\* The request under way.
hxReq == IF hxGate THEN Read(FALSE) ELSE Operation(hxOp)
IsRead == hxReq.method = "GET"
Keyed == hxReq.identity = "key"

Aborted == hxCaller \/ hxBudget

HxTo(pc) == hxPc' = pc /\ UNCHANGED hxEnd

\* Whatever a named secret fails of, nothing but that it failed is passed on.
EndOf(request, how) == IF request.secret /\ how # "ok" THEN "secret" ELSE how
HxEnds(how) == hxPc' = "done" /\ hxEnd' = EndOf(hxReq, how)

-----------------------------------------------------------------------------
\* The errors.

Statuses == {401, 403, 404, 409, 429, 500}
\* problemMetadata, workspaceSyncProblemMetadata: a Problem document that holds
\* to its shape says whether a retry may help; anything else says nothing.
Problems == {"none", "retryable", "final"}

\* apiError: the code of a status the service answered.
ApiError(status, problem, json) ==
    CASE status = 401 -> "auth.rejected"
      [] status = 403 -> "policy.denied"
      [] status = 409 -> "remote.conflict"
      [] status = 500 /\ problem = "final" -> "remote.rejected"
      [] status = 429 -> "network.rate_limited"
      [] status = 500 /\ problem # "final" -> "network.service_unavailable"
      [] status = 404 /\ ~json -> "remote.operation_not_served"
      [] status = 404 /\ json -> "remote.not_found"

\* What the request's last failure ends in when no authoritative error did:
\* the caller's abort, then the budget, then the phase the connection failed in.
Unanswered(phase) ==
    CASE hxCaller -> "cancelled"
      [] ~hxCaller /\ hxBudget -> "budget"
      [] OTHER -> IF phase = "connect" THEN "not_sent" ELSE "unobserved"

-----------------------------------------------------------------------------
CallerAborts ==
    /\ hxPc \in {"idle", "admission", "credential", "sending", "refresh"} /\ ~hxCaller
    /\ hxCaller' = TRUE
    /\ UNCHANGED <<hxOp, hxBearer, hxOptIn, hxGate, hxPc, hxWire, hxApplied, hxBudget, hxAttempts, hxRetried, hxRenewed, hxMisread, hxEnd>>

\* The budget runs from the first dispatch, over every replay.
BudgetFires ==
    /\ hxPc \in {"sending", "refresh"} /\ ~hxBudget
    /\ hxBudget' = TRUE
    /\ UNCHANGED <<hxOp, hxBearer, hxOptIn, hxGate, hxPc, hxWire, hxApplied, hxCaller, hxAttempts, hxRetried, hxRenewed, hxMisread, hxEnd>>

\* The client checks its arguments.  createMachine asked for with a capability
\* first reads whether the account has it (requireCapability).
Validate ==
    /\ hxPc = "idle"
    /\ \E name \in OperationNames:
         /\ hxOp' = name /\ hxBearer' \in BOOLEAN
         /\ hxOptIn' \in IF name = "getAgentSession" THEN BOOLEAN ELSE {FALSE}
         /\ hxGate' \in IF name = "createMachine" THEN BOOLEAN ELSE {FALSE}
         /\ \/ HxTo("admission")
            \/ hxPc' = "done" /\ hxEnd' = EndOf(Operation(name), "usage")
    /\ UNCHANGED <<hxWire, hxApplied, hxCaller, hxBudget, hxAttempts, hxRetried, hxRenewed, hxMisread>>

\* The transport sends nothing for an aborted caller, a path it does not know,
\* another origin, or a body it cannot encode.
AdmitRequest ==
    /\ hxPc = "admission"
    /\ \/ hxCaller /\ HxEnds("cancelled_unsent")
       \/ ~hxCaller /\ (HxEnds("usage") \/ HxEnds("internal"))
       \/ ~hxCaller /\ hxOp \notin PathHoldsQuery /\ HxTo("credential")
    /\ UNCHANGED <<hxOp, hxBearer, hxOptIn, hxGate, hxWire, hxApplied, hxCaller, hxBudget, hxAttempts, hxRetried, hxRenewed, hxMisread>>

Dispatches == hxAttempts' = hxAttempts + 1 /\ hxWire' = "connecting" /\ HxTo("sending")

\* The provider of the bearer fails: a typed error is passed on, any other is
\* taken for a failure of the transport.
NoCredential ==
    /\ \E how \in {"credential", "internal", Unanswered("connect"), Unanswered("response")}: HxEnds(how)
    /\ UNCHANGED <<hxAttempts, hxWire>>

\* The bearer is asked for outside the budget.
TakeCredential ==
    /\ hxPc = "credential"
    /\ Dispatches \/ (hxBearer /\ NoCredential)
    /\ UNCHANGED <<hxOp, hxBearer, hxOptIn, hxGate, hxApplied, hxCaller, hxBudget, hxRetried, hxRenewed, hxMisread>>

Writes ==
    /\ hxWire = "connecting" /\ hxWire' = "sent"
    /\ UNCHANGED <<hxOp, hxBearer, hxOptIn, hxGate, hxPc, hxApplied, hxCaller, hxBudget, hxAttempts, hxRetried, hxRenewed, hxMisread, hxEnd>>

\* The service takes the request: a key makes a repeated one harmless.
Applies ==
    /\ hxWire = "sent" /\ hxWire' = "reached"
    /\ hxApplied' = IF hxReq.identity # "none" /\ hxApplied > 0 THEN hxApplied ELSE hxApplied + 1
    /\ UNCHANGED <<hxOp, hxBearer, hxOptIn, hxGate, hxPc, hxCaller, hxBudget, hxAttempts, hxRetried, hxRenewed, hxMisread, hxEnd>>

-----------------------------------------------------------------------------
\* The 2xx answer: decoded, too large, no JSON, off the contract, or about
\* another resource than the one asked for (fetchDecoded and the comparison
\* after it); a capability that is not offered refuses the Machine.
AnsweredWell ==
    /\ hxPc = "sending" /\ hxWire = "reached"
    /\ \/ HxEnds("response_too_large") \/ HxEnds("malformed_response")
       \/ HxEnds(IF hxGate THEN "capability_refused" ELSE "ok")
       \/ ~hxGate /\ HxEnds(IF hxReq.checked THEN "malformed_response" ELSE "ok")
    /\ hxWire' = "none"
    /\ UNCHANGED <<hxOp, hxBearer, hxOptIn, hxGate, hxApplied, hxCaller, hxBudget, hxAttempts, hxRetried, hxRenewed, hxMisread>>

\* The operation goes on with another request of its own.
Afresh ==
    /\ hxWire' = "none" /\ HxTo("admission")
    /\ hxBudget' = FALSE /\ hxAttempts' = 0 /\ hxRetried' = FALSE /\ hxRenewed' = FALSE

\* The capability is offered: the Machine is asked for.
AskForMachine ==
    /\ hxPc = "sending" /\ hxWire = "reached" /\ hxGate
    /\ hxGate' = FALSE /\ hxApplied' = 0 /\ hxMisread' = FALSE /\ Afresh
    /\ UNCHANGED <<hxOp, hxBearer, hxOptIn, hxCaller>>

\* canRetryUnauthorized
MayRenew == hxBearer /\ ~hxReq.secret /\ ~hxRenewed /\ (IsRead \/ Keyed)

\* A status: the service refused and applied nothing.  A rejected bearer may
\* be renewed once, for a read or a keyed request.  The receipt of a named
\* secret is also read from a conflict.
AnsweredWithStatus ==
    /\ hxPc = "sending" /\ hxWire = "sent"
    /\ hxWire' = "none"
    /\ \E status \in Statuses, problem \in Problems, json \in BOOLEAN:
         CASE status = 401 /\ MayRenew -> HxTo("refresh")
           [] status = 409 /\ hxReq.secret -> HxEnds("ok") \/ HxEnds("malformed_response")
           [] OTHER -> HxEnds(ApiError(status, problem, json))
    /\ UNCHANGED <<hxOp, hxBearer, hxOptIn, hxGate, hxApplied, hxCaller, hxBudget, hxAttempts, hxRetried, hxRenewed, hxMisread>>

\* getAgentSession: a server that does not know the opt-in refuses it by 422;
\* the session is asked for once more without it, as a request of its own.
AskWithoutOptIn ==
    /\ hxPc = "sending" /\ hxWire = "sent" /\ hxOptIn
    /\ hxOptIn' = FALSE /\ Afresh
    /\ UNCHANGED <<hxOp, hxBearer, hxGate, hxApplied, hxCaller, hxMisread>>

Renew ==
    /\ hxPc = "refresh"
    /\ \/ Dispatches /\ hxRenewed' = TRUE /\ hxRetried' = FALSE
       \/ NoCredential /\ UNCHANGED <<hxRenewed, hxRetried>>
    /\ UNCHANGED <<hxOp, hxBearer, hxOptIn, hxGate, hxApplied, hxCaller, hxBudget, hxMisread>>

\* dispatchWithConnectRetry: one replay at once, on a witness that nothing was
\* written, unless the operation forbids it or the request was aborted.
RedispatchesOnReset(phase) == ~Aborted /\ ~hxReq.secret /\ ~hxRetried /\ hxReq.redispatch

Redispatches(phase) ==
    ~Aborted /\ ~hxReq.secret /\ ~hxRetried /\ hxReq.redispatch /\ phase = "connect"

Failed(phase) ==
    IF Redispatches(phase)
      THEN Dispatches /\ hxRetried' = TRUE
      ELSE hxWire' = "none" /\ HxEnds(Unanswered(phase)) /\ UNCHANGED <<hxAttempts, hxRetried>>

ConnectFails ==
    /\ hxPc = "sending" /\ hxWire = "connecting"
    /\ Failed("connect")
    /\ UNCHANGED <<hxOp, hxBearer, hxOptIn, hxGate, hxApplied, hxCaller, hxBudget, hxRenewed, hxMisread>>

\* transportFailurePhase walks the causes of the error for a witness of the
\* connect phase, so a reset after the write that names connect is taken for one.
ExchangeFails ==
    /\ hxPc = "sending" /\ hxWire \in {"sent", "reached"}
    /\ \/ Failed("response") /\ UNCHANGED hxMisread
       \/ Failed("connect") /\ hxMisread' = TRUE
    /\ UNCHANGED <<hxOp, hxBearer, hxOptIn, hxGate, hxApplied, hxCaller, hxBudget, hxRenewed>>

\* The abort rejects the exchange; what was written may still be applied.
AbortEnds ==
    /\ hxPc = "sending" /\ Aborted
    /\ HxEnds(Unanswered("response"))
    /\ UNCHANGED <<hxOp, hxBearer, hxOptIn, hxGate, hxWire, hxApplied, hxCaller, hxBudget, hxAttempts, hxRetried, hxRenewed, hxMisread>>

HxNext ==
    \/ CallerAborts \/ BudgetFires \/ Validate \/ AdmitRequest \/ TakeCredential \/ Writes \/ Applies
    \/ AnsweredWell \/ AskForMachine \/ AnsweredWithStatus \/ AskWithoutOptIn \/ Renew \/ ConnectFails \/ ExchangeFails \/ AbortEnds

HxSpec == HxInit /\ [][HxNext]_hxVars

-----------------------------------------------------------------------------
\* A write is applied at most once by one call of the transport, whatever is
\* replayed or renewed; the guess that a failed connection wrote nothing can
\* only be wrong for an operation that allows the replay (automaticRedispatch).
AppliedOnce ==
    hxApplied > 1 => IsRead \/ (hxMisread /\ hxReq.redispatch /\ hxReq.identity = "none")

\* An error that tells the person nothing was sent or applied is right about
\* every dispatch of the call, the one before a renewal or a replay included
\* (transportFailure, the abort before dispatch, apiError for 429).
UnsentIsTrue ==
    hxEnd \in {"not_sent", "cancelled_unsent", "network.rate_limited"} /\ ~hxMisread => hxApplied = 0

-----------------------------------------------------------------------------
(***************************************************************************)
(* The gates a Machine action passes before anything is sent: the          *)
(* classifier of a capability snapshot (api/capability-evidence.ts), the   *)
(* commands' gate and the per-action verdict (api/client.ts), the          *)
(* journey's question about the Machine it chose, and the runtime's own    *)
(* gate (runtime/capability-gate.ts), which decides the same question a    *)
(* second time from the same snapshot.                                     *)
(***************************************************************************)

CONSTANTS
    CgTtl,       \* MAX_CAPABILITY_TTL_MS
    CgSkew,      \* MAX_CAPABILITY_FUTURE_SKEW_MS
    CgClock      \* bound: the clock

ASSUME GateBounds == {CgTtl, CgSkew, CgClock} \subseteq Nat \ {0}

VARIABLES
    cgNow,
    cgSnapshot,  \* what discoverCapabilities answered
    cgPc         \* none, read, missing

cgVars == <<cgNow, cgSnapshot, cgPc>>

\* One capability of a snapshot: how often its id occurs, and what it says.
Availabilities == {"supported", "unsupported", "temporarily_unavailable", "unknown"}
Reasons == {"none", "provider_request_rejected", "control_expired"}
Capability == [count: {1}, availability: Availabilities, reason: Reasons, cliNative: BOOLEAN]
              \cup [count: {0, 2}, availability: {"unknown"}, reason: {"none"}, cliNative: {FALSE}]
Snapshots ==
    [schema: BOOLEAN, observed: 0..CgClock, expires: 0..CgClock + CgTtl, subject: BOOLEAN,
     grouped: Capability, action: Capability]
NoSnapshot == [schema |-> TRUE, observed |-> 0, expires |-> 0, subject |-> TRUE,
               grouped |-> [count |-> 0, availability |-> "unknown", reason |-> "none", cliNative |-> FALSE],
               action |-> [count |-> 0, availability |-> "unknown", reason |-> "none", cliNative |-> FALSE]]

CgInit == cgNow = 0 /\ cgSnapshot = NoSnapshot /\ cgPc = "none"

-----------------------------------------------------------------------------
\* classifyCapabilitySnapshot.
ClassifyCapabilitySnapshot(s, now) ==
    CASE ~s.schema -> "unsupported_schema"
      [] s.schema /\ s.expires < s.observed -> "malformed_freshness"
      [] s.schema /\ s.expires >= s.observed /\ s.observed > now + CgSkew -> "future_observation"
      [] s.schema /\ s.expires - s.observed > CgTtl /\ s.observed <= now + CgSkew -> "excessive_ttl"
      [] OTHER -> IF s.expires <= now THEN "expired" ELSE "valid"

IsPermanentSnapshotFault(reason) == reason \in {"unsupported_schema", "malformed_freshness", "excessive_ttl"}

\* decideCapability, of one capability of the snapshot.
DecideCapability(s, capability, now) ==
    LET validity == ClassifyCapabilitySnapshot(s, now)
        Verdict(status, reason, server) == [status |-> status, reason |-> reason, server |-> server]
    IN  IF validity # "valid" THEN Verdict("unknown", validity, FALSE)
        ELSE IF capability.count # 1 THEN Verdict("unknown", "capability_absent_or_ambiguous", FALSE)
        ELSE IF capability.availability # "supported"
             THEN Verdict(capability.availability, capability.reason, capability.reason # "none")
        ELSE IF ~capability.cliNative THEN Verdict("unsupported", "cli_interaction_mismatch", FALSE)
        ELSE Verdict("supported", "none", FALSE)

\* capabilityRefusal: whether the person is told a later attempt may pass.
Retryable(d) ==
    d.status = "temporarily_unavailable" /\ (d.server \/ ~IsPermanentSnapshotFault(d.reason))

\* machineActionVerdict.
MachineActionVerdict(s, now) ==
    LET d == DecideCapability(s, s.action, now)
    IN  IF d.status \in {"supported", "unknown"} \/ ~d.server THEN "open"
        ELSE IF d.reason = "provider_request_rejected" THEN "sent-despite" ELSE "refused"

\* readCapabilityGate and requireMachineAction: the subject, the named verdict,
\* then the grouped authority.
RequireMachineAction(s, now) ==
    IF ~s.subject THEN "refused"
    ELSE IF MachineActionVerdict(s, now) = "refused" THEN "refused"
    ELSE IF DecideCapability(s, s.grouped, now).status # "supported" THEN "refused"
    ELSE "sent"
\* A gate that takes the action's own admission for enough.
RequireMachineActionAlone(s, now) ==
    IF ~s.subject THEN "refused"
    ELSE IF DecideCapability(s, s.action, now).status = "supported" THEN "sent"
    ELSE IF MachineActionVerdict(s, now) = "refused" THEN "refused"
    ELSE IF DecideCapability(s, s.grouped, now).status # "supported" THEN "refused"
    ELSE "sent"
CommandGate(s, now) == RequireMachineAction(s, now)

\* refuseNamedMachineAction: only a refusal the server names stops the journey.
JourneyGate(s, now) == IF s.subject /\ MachineActionVerdict(s, now) = "refused" THEN "refused" ELSE "sent"

\* admitCapability, for the native interaction on this subject.
AdmitCapability(s, capability, now) ==
    LET validity == ClassifyCapabilitySnapshot(s, now)
    IN  CASE validity = "expired" -> "capability_snapshot_expired"
          [] validity \notin {"expired", "valid"} -> "capability_unknown"
          [] validity = "valid" /\ ~s.subject -> "capability_scope_mismatch"
          [] OTHER ->
               IF capability.count # 1 \/ capability.availability = "unknown" THEN "capability_unknown"
               ELSE IF capability.availability = "temporarily_unavailable" THEN "capability_unavailable"
               ELSE IF capability.availability # "supported" \/ ~capability.cliNative THEN "capability_unsupported"
               ELSE "admitted"

-----------------------------------------------------------------------------
Discover ==
    /\ cgPc = "none"
    /\ \/ cgSnapshot' \in Snapshots /\ cgPc' = "read"
       \/ cgPc' = "missing" /\ UNCHANGED cgSnapshot
    /\ UNCHANGED cgNow

\* The gate is asked after the answer arrived, or kept and asked again later.
CgTicks == cgNow < CgClock /\ cgNow' = cgNow + 1 /\ UNCHANGED <<cgSnapshot, cgPc>>

CgNext == Discover \/ CgTicks
CgSpec == CgInit /\ [][CgNext]_cgVars

-----------------------------------------------------------------------------
\* The two gates, written apart, admit the same snapshots; the per-action ids
\* "can narrow what is admitted and never widen it" (machineActionVerdict), so
\* what a command sends the runtime's gate admits on the grouped authority,
\* evidence older than its time included; and what stops the journey stops the
\* command too.
GatesAgree ==
    cgPc = "read" =>
        /\ CommandGate(cgSnapshot, cgNow) = "sent" =>
               AdmitCapability(cgSnapshot, cgSnapshot.grouped, cgNow) = "admitted"
        /\ AdmitCapability(cgSnapshot, cgSnapshot.grouped, cgNow) = "admitted"
               /\ MachineActionVerdict(cgSnapshot, cgNow) # "refused" => CommandGate(cgSnapshot, cgNow) = "sent"
        /\ JourneyGate(cgSnapshot, cgNow) = "refused" => CommandGate(cgSnapshot, cgNow) = "refused"
        /\ Retryable(DecideCapability(cgSnapshot, cgSnapshot.grouped, cgNow)) =>
               AdmitCapability(cgSnapshot, cgSnapshot.grouped, cgNow) \in {"capability_unavailable", "capability_scope_mismatch"}

=============================================================================
