------------------------------- MODULE MCSession -------------------------------
(* Two nodes of a cluster, one of which may come back with another          *)
(* tie-breaker or algorithm; TLS as the modes go together.                  *)
EXTENDS Session

MCClusterOf == [d \in Devices |-> "c"]
MCConfigs == <<[tieBreaker |-> 1, algorithm |-> 1], [tieBreaker |-> 2, algorithm |-> 1],
               [tieBreaker |-> 2, algorithm |-> 2]>>
Setup(on, delay, nfaults, server, device, certRequired, valid) ==
    [on |-> on, maxDelay |-> delay, maxFaults |-> nfaults, server |-> server,
     device |-> [d \in Devices |-> device], certRequired |-> certRequired, valid |-> valid]
MCSetups ==
    {Setup({1}, 1, 2, "supported", "required", TRUE, {"c"}),
     Setup({1, 2}, 0, 1, "supported", "unsupported", FALSE, {})}
      \cup {Setup({1}, 0, 1, u, v, w, x) : u \in TlsModes, v \in TlsModes, w \in BOOLEAN, x \in {{}, {"c"}}}
=============================================================================
