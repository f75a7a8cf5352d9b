------------------------------ MODULE MCParts ------------------------------
(* The two parts that need no others, the allocator of lib/subr.js and the   *)
(* decoder of lib/fast_protocol.js, side by side for TLC: they share nothing, *)
(* and a behaviour is one of IdPool or one of FastDecoder.                    *)
EXTENDS MCFastDecoder, IdPool

VARIABLE part       \* the one that runs; never changes

PartsInit ==
    /\ Init /\ PoolInit
    /\ part \in {"allocator", "decoder"}
    /\ part = "allocator" => stream = <<>>

PartsNext ==
    \/ part = "allocator" /\ PoolNext /\ UNCHANGED <<vars, part>>
    \/ part = "decoder" /\ Next /\ UNCHANGED <<poolVars, part>>

\* The event loop runs what decode() has scheduled; nothing is assumed of the
\* owner of the allocator.
PartsSpec ==
    PartsInit /\ [][PartsNext]_<<vars, poolVars, part>> /\ WF_vars(Decode)
=============================================================================
