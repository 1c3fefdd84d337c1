------------------------------ MODULE MCHealth ------------------------------
(* Settings for the runs of Health. *)
EXTENDS Health

MCPairs(W, T) == {[window |-> w, threshold |-> t] : w \in W, t \in T}

(* Windows that fit the ring of three and thresholds of at least one. *)
MCFitting == {s \in MCPairs(1 .. 3, 1 .. 3) : s.threshold <= s.window}
=============================================================================
