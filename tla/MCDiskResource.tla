--------------------------- MODULE MCDiskResource ---------------------------
(* Two resources for one disk. *)
EXTENDS DiskResource, TLC

CONSTANTS r1, r2, raw, data

MCProcs == {r1, r2}
MCKeys == {data}
MCFormats == {raw}
=============================================================================
