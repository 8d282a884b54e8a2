----------------------------- MODULE MCAgentSync -----------------------------
(* One campaign, the stable job and one job without an id, two agents:     *)
(* every job can create one, and an orphan can be there already.           *)
EXTENDS AgentSync, TLC

Symmetry == Permutations(Agents)
=============================================================================
