---------------------------- MODULE SpiceContext ----------------------------
(***************************************************************************)
(* What the three stages of spice.load_spice share: the name of the scope  *)
(* outside every subcircuit, and the limits of the call (IngestLimits):    *)
(* [files, file_bytes, bytes, lines, subcircuits, elements,                *)
(* hierarchy_depth].                                                       *)
(***************************************************************************)
Root == "__root__"

VARIABLE limits
=============================================================================
