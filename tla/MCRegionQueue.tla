---------------------------- MODULE MCRegionQueue ----------------------------
(* Three worker types, up to six requests, a limit that cuts the larger queues. *)
EXTENDS RegionQueue

MCNames == <<"a", "b", "c">>
==============================================================================
