--------------------------- MODULE MCBlockPlacement ---------------------------
(* Two files that share chunks with each other and over time: one compresses *)
(* and stays in one access class; the other must not be compressed, moves    *)
(* from one access class to another as it is edited and may be deferred.     *)
EXTENDS BlockPlacement

CONSTANTS x, y, z

MCHistory == << << <<x>>, <<x, y>>, <<y, x>> >>, << <<z>>, <<y, z>>, <<x, x>> >> >>
MCAccessOf == << <<"Hot", "Hot", "Hot">>, <<"Normal", "Normal", "Hot">> >>
MCPolicyOf == <<"Auto", "Raw">>
MCPlainLen == (x :> 2) @@ (y :> 1) @@ (z :> 4)
MCStoredLen == [Raw |-> MCPlainLen, Zstd |-> (x :> 1) @@ (y :> 1) @@ (z :> 4)]
MCTarget == [Hot |-> 3, Normal |-> 3]
MCOptions ==
  {o \in [incremental : BOOLEAN, dev : BOOLEAN, deferred : {{}, {2}}] : o.incremental \/ ~o.dev}
===============================================================================
