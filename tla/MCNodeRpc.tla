----------------------------- MODULE MCNodeRpc -----------------------------
(* NodeRpc for TLC: a controller process, two nodes, up to two pods each. *)
EXTENDS NodeRpc, TLC

CONSTANTS c, n1, n2, u1, u2, t1, t2, s1, s2

MCNodes == {n1, n2}
MCProcs == MCNodes \cup {c}
MCCaps == {1}

(* Nothing reads the uuids the controller knows (MCView), nor, but for     *)
(* NodeInfoRight, the node table (MCViewNoTable).                          *)
MCViewNoTable == <<log, seen, queue, creating, faults, nodeVars,
                   [n \in Nodes |-> uuidname[n]]>>
MCView == <<nodes, MCViewNoTable>>

MCSymmetry == Permutations(MCNodes) \cup Permutations({s1, s2})
=============================================================================
