--------------------------- MODULE FactRetention ---------------------------
(***************************************************************************)
(* The facts a command keeps for later ones and the policy by which they   *)
(* are given up, src/cache/facts.rs.  What merge bases, distances, commit  *)
(* records and trees say follows from their keys, so that a table of them  *)
(* is the set of its keys; diff statistics depend on more and are kept as  *)
(* values with the fingerprint of what they depend on.                     *)
(***************************************************************************)
EXTENDS Naturals, FiniteSets, Functions, FiniteSetsExt

CONSTANTS
    Limit,          \* entries a table keeps (4096)
    ScopeLimit      \* scopes of diff statistics that are kept (4)

ASSUME LimitAssumption == Limit \in Nat /\ ScopeLimit \in Nat \ {0}

NoDiff == [trees |-> {}, scopes |-> <<>>, clock |-> 0]
NoFacts == [bases |-> {}, distances |-> {}, metadata |-> {},
            diff |-> NoDiff, recency |-> <<>>, clock |-> 0]

\* The statistics of all scopes, and what a value says.
Entries(scopes) == UNION {{<<s, p>> : p \in DOMAIN scopes[s].values} : s \in DOMAIN scopes}
ValueAt(scopes, e) == scopes[e[1]].values[e[2]]

\* What two commands may disagree about, apart from the order of use.
Answers(f) ==
    [bases |-> f.bases, distances |-> f.distances, metadata |-> f.metadata,
     trees |-> f.diff.trees, scopes |-> DOMAIN f.diff.scopes,
     stats |-> {[entry |-> e,
                 stat |-> ValueAt(f.diff.scopes, e).stat,
                 fingerprint |-> ValueAt(f.diff.scopes, e).fingerprint] :
                    e \in Entries(f.diff.scopes)}]

\* Mutant of Touch: the clock is not moved on.
TouchAhead(f, key) ==
    [f EXCEPT !.recency = [k \in DOMAIN @ \cup {key} |-> IF k = key THEN f.clock + 1 ELSE @[k]]]

\* Facts::touch
Touch(f, key) ==
    [f EXCEPT !.clock = @ + 1,
              !.recency = [k \in DOMAIN @ \cup {key} |-> IF k = key THEN f.clock + 1 ELSE @[k]]]

-----------------------------------------------------------------------------
(* Compaction.                                                             *)

\* The ways to keep the limit newest of S: equal ranks are ordered by names.
Newest(S, rank, limit) ==
    {K \in kSubset(IF Cardinality(S) <= limit THEN Cardinality(S) ELSE limit, S) :
        \A k \in K, s \in S \ K : rank[k] >= rank[s]}

\* When the keys of a table were touched; 0 if never.
LastTouch(f, S) == [k \in S |-> IF k \in DOMAIN f.recency THEN f.recency[k] ELSE 0]

\* DiffFacts::compact without the trees
CompactScopes(scopes, limit) ==
    UNION {LET recent == Restrict(scopes, kept)
               Without(entries) ==
                   LET left == {e[1] : e \in entries}
                   IN  [s \in left |->
                           [recent[s] EXCEPT !.values =
                               Restrict(@, {p \in DOMAIN @ : <<s, p>> \in entries})]]
           IN  {Without(entries) :
                   entries \in Newest(Entries(recent),
                                      [e \in Entries(recent) |-> ValueAt(recent, e).used],
                                      limit)} :
           kept \in Newest(DOMAIN scopes, [s \in DOMAIN scopes |-> scopes[s].used],
                           ScopeLimit)}

\* What is left of the facts when the tables have shrunk.
Shrunk(f, b, d, m, t, s) ==
    [f EXCEPT !.bases = b, !.distances = d, !.metadata = m,
              !.diff = [@ EXCEPT !.trees = t, !.scopes = s],
              !.recency = Restrict(@, DOMAIN @ \cap (b \cup d \cup m \cup t))]

\* Facts::compact; a table keeps the keys that were touched last.
Compacted(f, limit) ==
    LET Kept(S) == Newest(S, LastTouch(f, S), limit)
    IN  {Shrunk(f, b, d, m, t, s) :
             b \in Kept(f.bases), d \in Kept(f.distances), m \in Kept(f.metadata),
             t \in Kept(f.diff.trees), s \in CompactScopes(f.diff.scopes, limit)}

-----------------------------------------------------------------------------
(* One round of the loop in Facts::fit, by what is left to give up.        *)

HasDiff(f) == f.diff.trees # {} \/ DOMAIN f.diff.scopes # {}
HasGraph(f) == f.bases # {} \/ f.distances # {}

\* The scope that was used longest ago, or all statistics when it is the last.
DropDiff(f) ==
    IF Cardinality(DOMAIN f.diff.scopes) > 1
    THEN {[f EXCEPT !.diff.scopes = Restrict(@, kept)] :
             kept \in Newest(DOMAIN f.diff.scopes,
                             [s \in DOMAIN f.diff.scopes |-> f.diff.scopes[s].used],
                             Cardinality(DOMAIN f.diff.scopes) - 1)}
    ELSE {[f EXCEPT !.diff = NoDiff]}

\* Mutant of HalveMetadata: the half is rounded up.
HalveMetadataUp(f) ==
    UNION {Compacted([f EXCEPT !.metadata = m], Limit) :
              m \in Newest(f.metadata, LastTouch(f, f.metadata),
                           (Cardinality(f.metadata) + 1) \div 2)}

HalveMetadata(f) ==
    UNION {Compacted([f EXCEPT !.metadata = m], Limit) :
              m \in Newest(f.metadata, LastTouch(f, f.metadata),
                           Cardinality(f.metadata) \div 2)}

HalveGraph(f) ==
    Compacted(f, Max({Cardinality(f.bases), Cardinality(f.distances)}) \div 2)

\* How many answers there are to give up.
Answered(f) ==
    Cardinality(f.bases) + Cardinality(f.distances) + Cardinality(f.metadata)
        + Cardinality(f.diff.trees) + Cardinality(Entries(f.diff.scopes))
============================================================================
