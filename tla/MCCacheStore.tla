---------------------------- MODULE MCCacheStore ----------------------------
(* A small store: two keys that share one slot, a payload that fits an     *)
(* entry and one that does not.  The two maintenance records are one, and  *)
(* it shares a file with the facts, which only adds overwriting to what    *)
(* they can do.                                                            *)
EXTENDS CacheStore

CONSTANTS k1, k2, factsKey, slot, recordFile

MCNameOf ==
    [k \in Keys |-> IF k \in {factsKey, StateKey, ReportKey} THEN recordFile ELSE slot]

=============================================================================
