------------------------------ MODULE ApiKeys ------------------------------
(***************************************************************************)
(* `cuna api-keys create` and `revoke` (commands/commands.ts): a key whose *)
(* one-time secret did not reach the person must not stay usable and       *)
(* unknown.  The same request is sent once more under the same operation   *)
(* key, the account's keys are listed, and the one new key that looks like *)
(* the request is revoked.                                                 *)
(*                                                                         *)
(* Every creation asks for the same name and expiry, within the window of  *)
(* creation times the code accepts.  The service (external) creates one    *)
(* key per operation key, returns its secret once, and may answer nothing; *)
(* a request it never answered may land at any later time.                 *)
(***************************************************************************)
EXTENDS Naturals, FiniteSets

CONSTANT Creators      \* invocations of `api-keys create`; the key one creates has its name

VARIABLES
    akKeys,     \* [Creators -> "none", "active", "revoked"]: the service's keys
    akSent,     \* [Creators -> SUBSET {"first", "replay"}]: requests not landed yet
    akInv,      \* the invocations
    akRevokes   \* {<<who, key>>}: keys revoked, and by whom

akVars == <<akKeys, akSent, akInv, akRevokes>>

AkInit ==
    /\ akKeys = [c \in Creators |-> "none"]
    /\ akSent = [c \in Creators |-> {}]
    /\ akInv = [c \in Creators |-> [pc |-> "idle", prior |-> {}, found |-> {}, pending |-> FALSE, end |-> "none"]]
    /\ akRevokes = {}

Listed == {k \in Creators: akKeys[k] # "none"}

AkGoes(c, pc) == akInv' = [akInv EXCEPT ![c].pc = pc]
AkEnds(c, end) == akInv' = [akInv EXCEPT ![c].pc = "done", ![c].end = end]

\* The keys the account already has are read before the request is sent.
ListPrior(c) ==
    /\ akInv[c].pc = "idle"
    /\ akInv' = [akInv EXCEPT ![c].pc = "first", ![c].prior = Listed]
    /\ akSent' = [akSent EXCEPT ![c] = {"first"}]
    /\ UNCHANGED <<akKeys, akRevokes>>

\* A request lands.  The first to land creates the key and returns the secret,
\* a later one is answered as a replay.
Lands(c, req) ==
    LET created == akKeys[c] = "none"
    IN /\ req \in akSent[c]
       /\ akSent' = [akSent EXCEPT ![c] = @ \ {req}]
       /\ akKeys' = IF created THEN [akKeys EXCEPT ![c] = "active"] ELSE akKeys
       /\ \E answered \in BOOLEAN:
            IF akInv[c].pc # req \/ ~answered THEN UNCHANGED akInv
            ELSE IF req = "first" /\ created THEN AkEnds(c, "shown")
            ELSE AkGoes(c, IF req = "first" THEN "replays" ELSE "reconcile")
       /\ UNCHANGED akRevokes

\* The service refuses it, or it is lost on the way.
Refused1(c, req) ==
    /\ req \in akSent[c]
    /\ akSent' = [akSent EXCEPT ![c] = @ \ {req}]
    /\ UNCHANGED <<akKeys, akInv, akRevokes>>

\* No usable answer came: the same operation key is used once more.
FirstFails(c) ==
    /\ akInv[c].pc \in {"first", "replays"}
    /\ AkGoes(c, "replay")
    /\ akSent' = [akSent EXCEPT ![c] = @ \cup {"replay"}]
    /\ UNCHANGED <<akKeys, akRevokes>>

\* Whatever the replay answers, or if it fails, the list decides.
ReplayFails(c) ==
    /\ akInv[c].pc = "replay"
    /\ AkGoes(c, "reconcile")
    /\ UNCHANGED <<akKeys, akSent, akRevokes>>

ForgetsActive(c) == {k \in Listed \ akInv[c].prior: akKeys[k] = "revoked"}

\* New, active, of this name and expiry, created within the window.
Candidates(c) == {k \in Listed \ akInv[c].prior: akKeys[k] = "active"}

\* A list that fails ends the command with its own error.
AkReconcile(c) ==
    /\ akInv[c].pc = "reconcile"
    /\ \/ AkEnds(c, "failed")
       \/ akInv' = [akInv EXCEPT ![c] = [@ EXCEPT
               !.found = Candidates(c), !.pending = (akSent[c] # {}),
               !.pc = IF Cardinality(Candidates(c)) = 1 THEN "revoke" ELSE "done",
               !.end = CASE Candidates(c) = {} -> "no_commit"
                         [] Cardinality(Candidates(c)) = 1 -> "none"
                         [] OTHER -> "ambiguous"]]
    /\ UNCHANGED <<akKeys, akSent, akRevokes>>

RevokeOne(c) ==
    /\ akInv[c].pc = "revoke"
    /\ \/ AkEnds(c, "failed") /\ UNCHANGED <<akKeys, akRevokes>>
       \/ /\ AkGoes(c, "verify")
          /\ akKeys' = [k \in Creators |-> IF k \in akInv[c].found THEN "revoked" ELSE akKeys[k]]
          /\ akRevokes' = akRevokes \cup {<<c, k>>: k \in akInv[c].found}
    /\ UNCHANGED akSent

VerifyRevoked(c) ==
    /\ akInv[c].pc = "verify"
    /\ \E end \in {"failed", IF \E k \in akInv[c].found: akKeys[k] = "active"
                               THEN "cleanup_unverified" ELSE "revoked"}: AkEnds(c, end)
    /\ UNCHANGED <<akKeys, akSent, akRevokes>>

\* `api-keys revoke ID`: a person revokes a key they know of.
RevokeKnown(k) ==
    /\ akKeys[k] = "active" /\ akInv[k].end = "shown"
    /\ akKeys' = [akKeys EXCEPT ![k] = "revoked"]
    /\ UNCHANGED <<akSent, akInv, akRevokes>>

AkNext ==
    \E c \in Creators:
        \/ ListPrior(c) \/ FirstFails(c) \/ ReplayFails(c) \/ AkReconcile(c)
        \/ RevokeOne(c) \/ VerifyRevoked(c) \/ RevokeKnown(c)
        \/ \E req \in {"first", "replay"}: Lands(c, req) \/ Refused1(c, req)

AkSpec == AkInit /\ [][AkNext]_akVars

-----------------------------------------------------------------------------
\* A creation that ended with a verdict leaves no usable key behind that the
\* person neither saw nor was told of, unless its own request was still on
\* the way when the keys were listed (the reconciliation after createApiKey).
NoOrphanKey ==
    \A c \in Creators:
        akInv[c].end \in {"no_commit", "revoked", "ambiguous", "cleanup_unverified"} /\ ~akInv[c].pending
            => akKeys[c] # "active" \/ c \in akInv[c].found

\* A creation revokes only the key it created itself: "Cuna created the API
\* key, but its one-time secret response was not observed; the CLI revoked it
\* safely" (the create_secret_unobserved report).
RevokesOnlyItsOwn == \A r \in akRevokes: r[1] = r[2]

=============================================================================
