---------------------------- MODULE AtomicCache ----------------------------
(***************************************************************************)
(* What the disposable store of git-ls promises to the processes that      *)
(* share it (src/cache.rs), with locks, temporary files, crashes and I/O   *)
(* errors out of sight.                                                    *)
(*                                                                         *)
(* Every name of the store holds nothing or one complete entry.  An entry  *)
(* appears at once, replacing what its name held, and may disappear at any *)
(* time: the store is a cache, so the only thing a reader may count on is  *)
(* that an answer it gets was stored under exactly the key it asked for.   *)
(***************************************************************************)
CONSTANTS
    Procs,      \* processes: foreground runs and maintenance workers
    Names,      \* file names under the root, the lock files excepted
    Keys,       \* complete compatibility keys
    Values,     \* payloads
    NameOf,     \* the one name a key is stored under; names are shared
    Miss        \* what a reader gets when nothing usable is stored

VARIABLES
    cache,      \* name -> an entry, or Miss
    asked,      \* process -> the key of the read it is making, or Miss
    seen        \* process -> what that read will return

vars == <<cache, asked, seen>>
reads == <<asked, seen>>

Entry == [key : Keys, value : Values]

Init ==
    /\ cache = [n \in Names |-> Miss]
    /\ asked = [p \in Procs |-> Miss]
    /\ seen = [p \in Procs |-> Miss]

\* A publication takes effect in one step, whatever the name held before.
Publish(e) ==
    /\ cache' = [cache EXCEPT ![NameOf[e.key]] = e]
    /\ UNCHANGED reads

\* Clearing, eviction and corruption all look the same: the entry is gone.
Discard(n) ==
    /\ cache' = [cache EXCEPT ![n] = Miss]
    /\ UNCHANGED reads

\* The entry stored under the name of k answers k only if it was stored for k.
Answer(k) ==
    LET e == cache[NameOf[k]]
    IN  IF e # Miss /\ e.key = k THEN e.value ELSE Miss

Read(p, k) ==
    /\ asked' = [asked EXCEPT ![p] = k]
    /\ seen' = [seen EXCEPT ![p] = Answer(k)]
    /\ UNCHANGED cache

\* The reader has its answer, or died before it got one.
Return(p) ==
    /\ asked' = [asked EXCEPT ![p] = Miss]
    /\ seen' = [seen EXCEPT ![p] = Miss]
    /\ UNCHANGED cache

Next ==
    \/ \E e \in Entry : Publish(e)
    \/ \E n \in Names : Discard(n)
    \/ \E p \in Procs, k \in Keys : Read(p, k)
    \/ \E p \in Procs : Return(p)

Spec == Init /\ [][Next]_vars
=============================================================================
