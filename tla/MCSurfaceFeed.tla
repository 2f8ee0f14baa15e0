--------------------------- MODULE MCSurfaceFeed ---------------------------
(* Two request threads of one process. *)
EXTENDS SurfaceFeed

MCProcessOf == [t \in Threads |-> CHOOSE p \in Processes : TRUE]
=============================================================================
