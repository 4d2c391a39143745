----------------------------- MODULE MCAgentRun -----------------------------
(* One agent run in either mode, or a bare read beside a health check. *)
EXTENDS AgentRun

CONSTANTS c1, c2

MCRunners == {c1, c2}
MCCrews ==
    {[r \in MCRunners |-> IF r = c1 THEN "full" ELSE "off"],
     [r \in MCRunners |-> IF r = c1 THEN "lite" ELSE "off"],
     [r \in MCRunners |-> IF r = c1 THEN "read" ELSE "probe"]}
MCSlots == MCRunners \X {"positions", "claimable", "work"}
=============================================================================
