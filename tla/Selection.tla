----------------------------- MODULE Selection -----------------------------
(***************************************************************************)
(* journey/selection.ts: which Machine, and which AgentSession on it, a    *)
(* journey may use.  A plan is one of "select" (with the one candidate),   *)
(* "create", "ambiguous", "missing" (the bound Machine is not listed) and  *)
(* "unavailable"; the reasons of a refusal are not told apart.             *)
(*                                                                         *)
(* The journey's own observations are always owned and fresh               *)
(* (api-effects.ts), so those two fields are left out.                     *)
(***************************************************************************)
EXTENDS Naturals, FiniteSets

ReusableMachine == {"creating", "running", "paused", "suspended", "stopped"}

Plan(kind, id) == [kind |-> kind, id |-> id]

\* A capability says something of a provider only while its Machine runs.
CapabilityIsObservable(m) == m.state \in {"running", "unknown"}

MachineMayBeSelected(m) ==
    m.support = "supported" \/ (m.support = "unknown" /\ ~CapabilityIsObservable(m))

\* validateSelectedMachine: the Machine the caller or the binding names.
MachineRefused(m) ==
    \/ m.blocked
    \/ m.support = "unsupported"
    \/ m.support = "unknown" /\ m.state = "running"
    \/ m.state \notin ReusableMachine

\* The one Machine that is named, among several of one name if need be.
PlanNamedMachine(named) ==
    LET usable == {m \in named: m.support = "supported" /\ m.state \in ReusableMachine}
        only == IF Cardinality(named) = 1 THEN named ELSE usable
    IN CASE only = {} -> Plan("unavailable", 0)
         [] Cardinality(only) > 1 -> Plan("ambiguous", 0)
         [] OTHER -> LET m == CHOOSE m \in only: TRUE
                     IN IF MachineRefused(m) THEN Plan("unavailable", 0) ELSE Plan("select", m.id)

\* No Machine is named: an observation that may still change is no licence to
\* buy another Machine, nor is a Machine that only needs its supervisor updated.
PlanAnyMachine(machines) ==
    LET plausible == {m \in machines: MachineMayBeSelected(m)}
        undecided ==
            \/ \E m \in machines: /\ m.support = "unknown" /\ CapabilityIsObservable(m)
                                  /\ m.state \in ReusableMachine \cup {"unknown"}
            \/ \E m \in plausible: \/ m.state = "unknown"
                                   \/ m.state \in ReusableMachine /\ m.recency = "unknown"
        eligible == {m \in plausible: m.state \in ReusableMachine /\ m.recency = "recent"}
    IN CASE undecided -> Plan("unavailable", 0)
         [] ~undecided /\ Cardinality(eligible) = 1 -> Plan("select", (CHOOSE m \in eligible: TRUE).id)
         [] ~undecided /\ Cardinality(eligible) > 1 -> Plan("ambiguous", 0)
         [] OTHER -> IF \E m \in machines: m.blocked /\ m.state \in ReusableMachine
                       THEN Plan("unavailable", 0) ELSE Plan("create", 0)

\* planMachineSelection.  forceNew: --new; bound: the Machine this folder is
\* bound to, or 0.
PlanMachineSelection(forceNew, bound, machines) ==
    LET named == {m \in machines: m.id = bound}
    IN CASE forceNew -> Plan("create", 0)
         [] ~forceNew /\ bound # 0 -> IF named = {} THEN Plan("missing", bound) ELSE PlanNamedMachine(named)
         [] OTHER -> PlanAnyMachine(machines)

\* planAgentSessionSelection over the sessions of this Machine, agent and
\* Workspace that have not ended (isExactSessionKey).  A session someone is
\* typing in, or whose seat cannot be read, is never shadowed by a new one.
PlanAgentSessionSelection(forceNewSession, exact) ==
    LET live == {s \in exact: s.process \in {"ready", "running"}}
        reusable == {s \in live: s.attachment = "detached"}
    IN CASE forceNewSession -> Plan("create", 0)
         [] ~forceNewSession /\ (\E s \in exact: s.process \in {"unknown", "starting", "terminating"}) ->
              Plan("unavailable", 0)
         [] ~forceNewSession /\ (\A s \in exact: s.process \notin {"unknown", "starting", "terminating"}) ->
              CASE Cardinality(reusable) = 1 -> Plan("select", (CHOOSE s \in reusable: TRUE).id)
                [] Cardinality(reusable) > 1 -> Plan("ambiguous", 0)
                [] OTHER -> Plan(IF live # {} THEN "unavailable" ELSE "create", 0)

\* attachmentFromSeat: who may type, from the durable writer seat.
AttachmentFromSeat(seat, own) ==
    CASE seat.state # "available" -> "unknown"
      [] seat.state = "available" /\ (seat.writer \in {"none", own} \/ ~seat.attached) -> "detached"
      [] OTHER -> "attached"

=============================================================================
