------------------------ MODULE MC_CacheInvalidation ------------------------
(* Three processes, one of which may stay cut off from Redis. *)
EXTENDS CacheInvalidation

CONSTANTS p1, p2, p3

=============================================================================
