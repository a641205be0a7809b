------------------------ MODULE DiffStatisticsProofs ------------------------
(***************************************************************************)
(* Which counts are kept, which are shown and what they are counts of, for *)
(* all trees, paths, executables, configurations and attributes.           *)
(***************************************************************************)
EXTENDS DiffStatistics, FiniteSetTheorems, WellFoundedInduction, TLAPS

-----------------------------------------------------------------------------
(* Facts whose statistics are what their keys say.                         *)

WholeValue(s, t, v) ==
    /\ DOMAIN v = {"stat", "fingerprint", "used"}
    /\ v.stat = [pair |-> t, scope |-> s, fingerprint |-> v.fingerprint]

WholeScopes(scopes) ==
    \A s \in DOMAIN scopes :
        /\ DOMAIN scopes[s] = {"used", "values"}
        /\ \A t \in DOMAIN scopes[s].values : WholeValue(s, t, scopes[s].values[t])

Whole(f) ==
    /\ "diff" \in DOMAIN f
    /\ DOMAIN f.diff = {"trees", "scopes", "clock"}
    /\ WholeScopes(f.diff.scopes)

\* Scopes that hold no other values than older ones do, as of the same time.
Within(new, old) ==
    \A s \in DOMAIN new :
        /\ s \in DOMAIN old
        /\ DOMAIN new[s] = DOMAIN old[s]
        /\ new[s].used = old[s].used
        /\ \A t \in DOMAIN new[s].values :
              t \in DOMAIN old[s].values /\ new[s].values[t] = old[s].values[t]

LEMMA WholeWithin ==
  ASSUME NEW new, NEW old, WholeScopes(old), Within(new, old)
  PROVE  WholeScopes(new)
BY DEF WholeScopes, Within

\* Sound facts are what the property asks for.
LEMMA WholeIsSound == ASSUME NEW f, Whole(f) PROVE SoundFacts(f)
<1> SUFFICES ASSUME NEW e \in Entries(f.diff.scopes)
             PROVE  ValueAt(f.diff.scopes, e).stat =
                      [pair |-> e[2], scope |-> e[1],
                       fingerprint |-> ValueAt(f.diff.scopes, e).fingerprint]
  BY DEF SoundFacts
<1>1. PICK s \in DOMAIN f.diff.scopes : \E t \in DOMAIN f.diff.scopes[s].values : e = <<s, t>>
  BY DEF Entries
<1>2. PICK t \in DOMAIN f.diff.scopes[s].values : e = <<s, t>>
  BY <1>1
<1>3. WholeValue(s, t, f.diff.scopes[s].values[t])
  BY DEF Whole, WholeScopes
<1> QED
  BY <1>2, <1>3 DEF ValueAt, WholeValue

LEMMA SoundIsWhole ==
  ASSUME NEW f, DOMAIN f = DOMAIN NoFacts, DOMAIN f.diff = DOMAIN NoDiff,
         \A s \in Scopes(f) : DOMAIN f.diff.scopes[s] = {"used", "values"},
         \A e \in Entries(f.diff.scopes) :
            DOMAIN ValueAt(f.diff.scopes, e) = {"stat", "fingerprint", "used"},
         SoundFacts(f)
  PROVE  Whole(f)
<1>1. "diff" \in DOMAIN f /\ DOMAIN f.diff = {"trees", "scopes", "clock"}
  BY DEF NoFacts, NoDiff
<1>2. ASSUME NEW s \in DOMAIN f.diff.scopes, NEW t \in DOMAIN f.diff.scopes[s].values
      PROVE  WholeValue(s, t, f.diff.scopes[s].values[t])
  <2>1. <<s, t>> \in Entries(f.diff.scopes)
    BY DEF Entries
  <2>2. ValueAt(f.diff.scopes, <<s, t>>) = f.diff.scopes[s].values[t]
    BY DEF ValueAt
  <2> QED
    BY <2>1, <2>2 DEF SoundFacts, WholeValue
<1> QED
  BY <1>1, <1>2 DEF Whole, WholeScopes, Scopes

LEMMA NoFactsWhole == Whole(NoFacts)
BY DEF Whole, NoFacts, NoDiff, WholeScopes

LEMMA StoredWhole == \A f \in StoredFacts : f # Miss => Whole(f)
BY StoredAssumption, SoundIsWhole

\* A record of facts with other scopes, and one with the same.
LEMMA WholeReplaced ==
  ASSUME NEW f, Whole(f), NEW g, "diff" \in DOMAIN g, DOMAIN g.diff = DOMAIN f.diff,
         WholeScopes(g.diff.scopes)
  PROVE  Whole(g)
BY DEF Whole

-----------------------------------------------------------------------------
(* Compaction keeps some of the values, and changes none.                  *)

LEMMA NewestSubset ==
  ASSUME NEW S, NEW rank, NEW limit, NEW K \in Newest(S, rank, limit)
  PROVE  K \subseteq S
BY DEF Newest, kSubset

ScopesShaped(scopes) == \A s \in DOMAIN scopes : DOMAIN scopes[s] = {"used", "values"}

Uses(scopes) == [s \in DOMAIN scopes |-> scopes[s].used]
Ages(scopes) == [e \in Entries(scopes) |-> ValueAt(scopes, e).used]

\* An entry is a scope and a pair of it.
LEMMA EntryIs ==
  ASSUME NEW scopes
  PROVE  /\ \A e \in Entries(scopes) :
              /\ e = <<e[1], e[2]>> /\ e[1] \in DOMAIN scopes
              /\ e[2] \in DOMAIN scopes[e[1]].values
              /\ ValueAt(scopes, e) = scopes[e[1]].values[e[2]]
         /\ \A s \in DOMAIN scopes : \A t \in DOMAIN scopes[s].values :
              <<s, t>> \in Entries(scopes) /\ ValueAt(scopes, <<s, t>>) = scopes[s].values[t]
BY DEF Entries, ValueAt

\* What compaction of statistics leaves: values as they were, of the newest scopes
\* and of these the newest.
LEMMA CompactIs ==
  ASSUME NEW scopes, ScopesShaped(scopes), NEW limit, NEW new \in CompactScopes(scopes, limit)
  PROVE  /\ Within(new, scopes)
         /\ \A s \in DOMAIN new : DOMAIN new[s].values # {}
         /\ \E kept \in Newest(DOMAIN scopes, Uses(scopes), ScopeLimit) :
               LET recent == Restrict(scopes, kept)
               IN  Entries(new) \in Newest(Entries(recent), Ages(recent), limit)
<1>1. PICK kept \in Newest(DOMAIN scopes, Uses(scopes), ScopeLimit) :
        LET recent == Restrict(scopes, kept)
            Without(entries) ==
                LET left == {e[1] : e \in entries}
                IN  [s \in left |->
                        [recent[s] EXCEPT !.values =
                            Restrict(@, {p \in DOMAIN @ : <<s, p>> \in entries})]]
        IN  new \in {Without(entries) : entries \in Newest(Entries(recent), Ages(recent), limit)}
  BY DEF CompactScopes, Uses, Ages
<1> DEFINE recent == Restrict(scopes, kept)
<1>2. PICK entries \in Newest(Entries(recent), Ages(recent), limit) :
        new = [s \in {e[1] : e \in entries} |->
                  [recent[s] EXCEPT !.values =
                      Restrict(@, {p \in DOMAIN @ : <<s, p>> \in entries})]]
  BY <1>1
<1>3. kept \subseteq DOMAIN scopes /\ entries \subseteq Entries(recent)
  BY NewestSubset
<1>4. DOMAIN recent = kept /\ \A s \in kept : recent[s] = scopes[s]
  BY DEF Restrict
<1> HIDE DEF recent
<1>5. \A e \in entries : /\ e = <<e[1], e[2]>> /\ e[1] \in kept
                         /\ e[2] \in DOMAIN scopes[e[1]].values
  BY <1>3, <1>4, EntryIs
<1>6. DOMAIN new = {e[1] : e \in entries}
  BY <1>2
<1>7. ASSUME NEW s \in DOMAIN new
      PROVE  /\ s \in DOMAIN scopes
             /\ DOMAIN new[s] = DOMAIN scopes[s]
             /\ new[s].used = scopes[s].used
             /\ DOMAIN new[s].values = {p \in DOMAIN scopes[s].values : <<s, p>> \in entries}
             /\ \A t \in DOMAIN new[s].values : new[s].values[t] = scopes[s].values[t]
  <2>1. s \in kept /\ s \in DOMAIN scopes /\ DOMAIN scopes[s] = {"used", "values"}
    BY <1>3, <1>5, <1>6 DEF ScopesShaped
  <2> DEFINE values == scopes[s].values
             left == {p \in DOMAIN values : <<s, p>> \in entries}
  <2>2. new[s] = [scopes[s] EXCEPT !.values = Restrict(values, left)]
    BY <1>2, <1>4, <1>6, <2>1
  <2>3. DOMAIN new[s] = DOMAIN scopes[s] /\ new[s].values = Restrict(values, left)
        /\ new[s].used = scopes[s].used
    BY <2>1, <2>2
  <2> QED
    BY <2>1, <2>3 DEF Restrict
<1>8. Within(new, scopes)
  BY <1>7 DEF Within
<1>9. ASSUME NEW s \in DOMAIN new PROVE DOMAIN new[s].values # {}
  <2>1. PICK e \in entries : e[1] = s
    BY <1>6
  <2>2. e[2] \in DOMAIN new[s].values
    BY <2>1, <1>5, <1>7
  <2> QED
    BY <2>2
<1>10. Entries(new) = entries
  <2>1. ASSUME NEW e \in entries PROVE e \in Entries(new)
    <3>1. e[1] \in DOMAIN new /\ e[2] \in DOMAIN new[e[1]].values /\ e = <<e[1], e[2]>>
      BY <1>5, <1>6, <1>7
    <3> QED
      BY <3>1, EntryIs
  <2>2. ASSUME NEW e \in Entries(new) PROVE e \in entries
    <3>1. e[1] \in DOMAIN new /\ e[2] \in DOMAIN new[e[1]].values /\ e = <<e[1], e[2]>>
      BY EntryIs
    <3> QED
      BY <3>1, <1>7
  <2> QED
    BY <2>1, <2>2
<1> QED
  BY <1>8, <1>9, <1>10, <1>1 DEF recent

LEMMA CompactWithin ==
  ASSUME NEW scopes, WholeScopes(scopes), NEW limit, NEW new \in CompactScopes(scopes, limit)
  PROVE  Within(new, scopes)
BY CompactIs DEF WholeScopes, ScopesShaped

LEMMA CompactedWhole ==
  ASSUME NEW f, Whole(f), NEW limit, NEW g \in Compacted(f, limit)
  PROVE  Whole(g)
<1>1. PICK b, d, m, t, s : g = Shrunk(f, b, d, m, t, s) /\ s \in CompactScopes(f.diff.scopes, limit)
  BY DEF Compacted
<1>2. "diff" \in DOMAIN g /\ DOMAIN g.diff = DOMAIN f.diff /\ g.diff.scopes = s
  BY <1>1 DEF Whole, Shrunk
<1>3. WholeScopes(s)
  BY <1>1, CompactWithin, WholeWithin DEF Whole
<1> QED
  BY <1>2, <1>3, WholeReplaced

LEMMA FittedWhole ==
  ASSUME NEW f, Whole(f), NEW g \in DropDiff(f) \cup HalveMetadata(f) \cup HalveGraph(f)
  PROVE  Whole(g)
<1>1. CASE g \in DropDiff(f)
  <2>1. CASE g = [f EXCEPT !.diff = NoDiff]
    <3>1. "diff" \in DOMAIN g /\ g.diff = NoDiff
      BY <2>1 DEF Whole
    <3> QED
      BY <3>1, NoFactsWhole DEF Whole, NoFacts
  <2>2. ASSUME NEW kept \in SUBSET DOMAIN f.diff.scopes,
               g = [f EXCEPT !.diff.scopes = Restrict(@, kept)]
        PROVE  Whole(g)
    <3>1. "diff" \in DOMAIN g /\ DOMAIN g.diff = DOMAIN f.diff
          /\ g.diff.scopes = Restrict(f.diff.scopes, kept)
      BY <2>2 DEF Whole
    <3>2. Within(g.diff.scopes, f.diff.scopes)
      BY <3>1 DEF Within, Restrict
    <3> QED
      BY <3>1, <3>2, WholeWithin, WholeReplaced DEF Whole
  <2>3. \/ g = [f EXCEPT !.diff = NoDiff]
        \/ \E kept \in SUBSET DOMAIN f.diff.scopes : g = [f EXCEPT !.diff.scopes = Restrict(@, kept)]
    BY <1>1, NewestSubset DEF DropDiff
  <2> QED
    BY <2>1, <2>2, <2>3
<1>2. CASE g \in HalveMetadata(f)
  <2>1. PICK m : g \in Compacted([f EXCEPT !.metadata = m], Limit)
    BY <1>2 DEF HalveMetadata
  <2> DEFINE h == [f EXCEPT !.metadata = m]
  <2>2. "diff" \in DOMAIN h /\ h.diff = f.diff
    BY DEF Whole
  <2> HIDE DEF h
  <2>3. Whole(h)
    BY <2>2 DEF Whole
  <2> QED
    BY <2>1, <2>3, CompactedWhole DEF h
<1>3. CASE g \in HalveGraph(f)
  BY <1>3, CompactedWhole DEF HalveGraph
<1> QED
  BY <1>1, <1>2, <1>3

-----------------------------------------------------------------------------
(* The operations of a command on its facts.                               *)

\* What a count says when it was measured under the context.
StatOf(k, t) == [pair |-> t, scope |-> k.scope, fingerprint |-> Fingerprint(k, PathsOf[t])]

LEMMA TouchedWhole ==
  ASSUME NEW f, Whole(f), NEW table \in {"bases", "distances", "metadata"}, NEW key
  PROVE  Whole(Touch([f EXCEPT ![table] = @ \cup {key}], key))
<1> DEFINE h == [f EXCEPT ![table] = @ \cup {key}]
           g == Touch(h, key)
<1>1. DOMAIN h = DOMAIN f /\ h.diff = f.diff
  BY DEF Whole
<1> HIDE DEF h
<1>2. DOMAIN g = DOMAIN f /\ g.diff = f.diff
  BY <1>1 DEF Whole, Touch
<1> HIDE DEF g
<1>3. Whole(g)
  BY <1>2 DEF Whole
<1> QED
  BY <1>3 DEF g, h

LEMMA WithTreesWhole ==
  ASSUME NEW f, Whole(f), NEW ids
  PROVE  Whole(WithTrees(f, ids))
<1> DEFINE g == WithTrees(f, ids)
<1>1. DOMAIN g = DOMAIN f /\ DOMAIN g.diff = DOMAIN f.diff /\ g.diff.scopes = f.diff.scopes
  BY DEF Whole, WithTrees
<1> HIDE DEF g
<1>2. Whole(g)
  BY <1>1 DEF Whole
<1> QED
  BY <1>2 DEF g

LEMMA RefreshedWhole ==
  ASSUME NEW f, Whole(f), NEW s \in Scopes(f), NEW hits
  PROVE  Whole(Refreshed(f, s, hits))
<1> DEFINE g == Refreshed(f, s, hits)
           old == f.diff.scopes
           new == g.diff.scopes
           used == f.diff.clock + 1
           values == [t \in DOMAIN old[s].values |->
                         IF t \in hits THEN [old[s].values[t] EXCEPT !.used = used]
                         ELSE old[s].values[t]]
<1>1. /\ DOMAIN g = DOMAIN f /\ DOMAIN g.diff = DOMAIN f.diff
      /\ new = [old EXCEPT ![s] = [used |-> used, values |-> values]]
  BY DEF Whole, Refreshed
<1>2. DOMAIN new = DOMAIN old
  BY <1>1
<1>3. new[s] = [used |-> used, values |-> values]
  BY <1>1 DEF Scopes
<1>4. ASSUME NEW t \in DOMAIN values
      PROVE  WholeValue(s, t, values[t])
  <2>1. t \in DOMAIN old[s].values
    OBVIOUS
  <2>2. WholeValue(s, t, old[s].values[t])
    BY <2>1 DEF Whole, WholeScopes, Scopes
  <2> HIDE DEF used
  <2> QED
    BY <2>1, <2>2 DEF WholeValue
<1>5. WholeScopes(new)
  <2> SUFFICES ASSUME NEW x \in DOMAIN new
               PROVE  /\ DOMAIN new[x] = {"used", "values"}
                      /\ \A t \in DOMAIN new[x].values : WholeValue(x, t, new[x].values[t])
    BY DEF WholeScopes
  <2>1. CASE x = s
    <3> HIDE DEF values, used, new
    <3> QED
      BY <2>1, <1>3, <1>4
  <2>2. CASE x # s
    <3>1. new[x] = old[x] /\ x \in DOMAIN old
      BY <1>1, <1>2, <2>2
    <3> QED
      BY <3>1 DEF Whole, WholeScopes
  <2> QED
    BY <2>1, <2>2
<1> HIDE DEF g
<1> QED
  BY <1>1, <1>5, WholeReplaced DEF Whole, g

LEMMA RetainedWhole ==
  ASSUME NEW f, Whole(f), NEW k, NEW measured,
         \A t \in DOMAIN measured : measured[t] = StatOf(k, t),
         NEW g \in Retained(f, k, measured)
  PROVE  Whole(g)
<1> DEFINE s == k.scope
           used == f.diff.clock + 1
           old == IF s \in Scopes(f) THEN f.diff.scopes[s].values ELSE <<>>
           Fresh(kept) ==
             [t \in kept |->
                 [stat |-> measured[t], fingerprint |-> Fingerprint(k, PathsOf[t]),
                  used |-> used]]
           Taken(kept) == [used |-> used, values |-> Over(Fresh(kept), old)]
<1>1. PICK kept \in SUBSET DOMAIN measured :
        /\ DOMAIN g = DOMAIN f /\ DOMAIN g.diff = DOMAIN f.diff
        /\ g.diff.scopes = Over([x \in {s} |-> Taken(kept)], f.diff.scopes)
  BY DEF Retained, Whole
<1> DEFINE values == Over(Fresh(kept), old)
           new == g.diff.scopes
<1>2. ASSUME NEW t \in DOMAIN values
      PROVE  WholeValue(s, t, values[t])
  <2>1. CASE t \in kept
    <3>1. values[t] = [stat |-> measured[t], fingerprint |-> Fingerprint(k, PathsOf[t]),
                       used |-> used]
      BY <2>1 DEF Over
    <3>2. measured[t] = StatOf(k, t)
      BY <2>1
    <3> QED
      BY <3>1, <3>2 DEF WholeValue, StatOf
  <2>2. CASE t \notin kept
    <3>1. t \in DOMAIN old /\ values[t] = old[t]
      BY <2>2 DEF Over
    <3>2. s \in Scopes(f) /\ old = f.diff.scopes[s].values
      BY <3>1
    <3>3. WholeValue(s, t, old[t])
      BY <3>1, <3>2 DEF Whole, WholeScopes, Scopes
    <3> QED
      BY <3>1, <3>3
  <2> QED
    BY <2>1, <2>2
<1>3. new[s] = [used |-> used, values |-> values]
  BY <1>1 DEF Over
<1>4. WholeScopes(new)
  <2> SUFFICES ASSUME NEW x \in DOMAIN new
               PROVE  /\ DOMAIN new[x] = {"used", "values"}
                      /\ \A t \in DOMAIN new[x].values : WholeValue(x, t, new[x].values[t])
    BY DEF WholeScopes
  <2>1. CASE x = s
    <3> HIDE DEF values, used, new, s
    <3> QED
      BY <2>1, <1>3, <1>2
  <2>2. CASE x # s
    <3>1. new[x] = f.diff.scopes[x] /\ x \in DOMAIN f.diff.scopes
      BY <1>1, <2>2 DEF Over
    <3> QED
      BY <3>1 DEF Whole, WholeScopes
  <2> QED
    BY <2>1, <2>2
<1> QED
  BY <1>1, <1>4, WholeReplaced DEF Whole

-----------------------------------------------------------------------------
(* What was the case while the command ran.                                *)

Working == pc \notin {"idle", "fit", "publish"}
Wanted == Requested(CommitPairs(run.lanes))

LivedBy(seen, k, paths) ==
    /\ k.scope \in Executables /\ <<"executable", k.scope>> \in seen
    /\ k.configuration \in Configs /\ <<"config", k.configuration>> \in seen
    /\ \A p \in paths : k.attributes[p] \in Attrs /\ <<p, k.attributes[p]>> \in seen

\* A count of the pair under what was the case, not all of it necessarily at once.
LivedStat(seen, t, stat) ==
    \E k : LivedBy(seen, k, PathsOf[t]) /\ stat = StatOf(k, t)

LEMMA LiveIs ==
  ASSUME NEW w \in World
  PROVE  /\ \A e : <<"executable", e>> \in Live(w) <=> e = w.executable
         /\ \A c : <<"config", c>> \in Live(w) <=> c = w.config
         /\ \A p \in Paths : \A a : <<p, a>> \in Live(w) <=> a = w.attributes[p]
BY DiffAssumption DEF Live, World

LEMMA LivedOn ==
  ASSUME NEW seen, NEW later, seen \subseteq later
  PROVE  /\ \A k, paths : LivedBy(seen, k, paths) => LivedBy(later, k, paths)
         /\ \A t, stat : LivedStat(seen, t, stat) => LivedStat(later, t, stat)
BY DEF LivedBy, LivedStat

\* A count under a context of the time, and one that agrees with a context.
LEMMA CountedLived ==
  ASSUME NEW seen, NEW k, NEW t, LivedBy(seen, k, PathsOf[t])
  PROVE  LivedStat(seen, t, StatOf(k, t))
BY DEF LivedStat

LEMMA FieldsOfStat ==
  ASSUME NEW k, NEW t
  PROVE  /\ StatOf(k, t).pair = t
         /\ StatOf(k, t).scope = k.scope
         /\ StatOf(k, t).fingerprint.configuration = k.configuration
         /\ \A p \in PathsOf[t] :
               StatOf(k, t).fingerprint.attributes[p] = k.attributes[p]
BY DEF StatOf, Fingerprint, Restrict

LEMMA SameStat ==
  ASSUME NEW k, NEW b, NEW t, k.scope = b.scope, k.configuration = b.configuration,
         \A p \in PathsOf[t] : k.attributes[p] = b.attributes[p]
  PROVE  StatOf(k, t) = StatOf(b, t)
BY DEF StatOf, Fingerprint, Restrict

-----------------------------------------------------------------------------
(* The invariant.                                                          *)

Reading == {"config", "attributes", "executable"}

\* The command compares what it measured with a first context.
Comparing ==
    \/ pc \in {"launch", "measure"} /\ ~run.final
    \/ pc \in Reading /\ run.before # NoContext
    \/ pc = "decide"

Typed ==
    /\ world \in World
    /\ pc \in Labels
    /\ DOMAIN run = DOMAIN NoRun
    /\ DOMAIN run.snap = DOMAIN NoContext

Kept == Whole(facts) /\ (stored # Miss => Whole(stored))

InTime ==
    Working =>
        /\ Live(world) \subseteq lived
        /\ \E analysis \in Analyses :
              /\ run.lanes = analysis.lanes
              /\ pc = "ask" => run.asks \in Seq(Asked)

\* What has been read so far was the case.
Contexts ==
    /\ pc \in {"ask", "count"} => run.before = NoContext
    /\ pc \in {"ask", "count", "lookup"} \cup Reading => ~run.final
    /\ Working /\ pc # "shown" =>
          run.before = NoContext \/ LivedBy(lived, run.before, Dependencies(Wanted))
    /\ pc = "lookup" \/ Comparing => run.before # NoContext
    /\ pc \in Reading \cup {"lookup"} \/ Comparing => run.requested = Wanted
    /\ Working /\ pc \notin {"decide", "shown"} => run.final \/ run.after = NoContext
    /\ pc \in {"ask", "count"} \cup Reading /\ run.before = NoContext =>
          \/ run.captured = Miss
          \/ run.captured \in Configs /\ <<"config", run.captured>> \in lived
    /\ pc \in {"attributes", "executable"} =>
          run.snap.configuration \in Configs /\ <<"config", run.snap.configuration>> \in lived
    /\ pc = "executable" =>
          \A p \in Dependencies(Wanted) :
              run.snap.attributes[p] \in Attrs /\ <<p, run.snap.attributes[p]>> \in lived
    /\ pc = "measure" =>
          /\ run.launched.scope \in Executables
          /\ <<"executable", run.launched.scope>> \in lived
          /\ run.launched.configuration \in Configs
          /\ <<"config", run.launched.configuration>> \in lived
          /\ DOMAIN run.launched = DOMAIN NoContext

\* What is reused and what is measured are the counts that are wanted.
Counts ==
    Working /\ pc \notin {"lookup", "shown"} =>
        /\ \A t \in DOMAIN run.hits :
              t \in Wanted /\ run.before # NoContext /\ run.hits[t] = StatOf(run.before, t)
        /\ \A t \in DOMAIN run.measured : LivedStat(lived, t, run.measured[t])
        /\ pc \in {"launch", "measure"} =>
              run.todo \cup DOMAIN run.measured =
                 IF run.final THEN Wanted ELSE Wanted \ DOMAIN run.hits
        /\ pc \notin {"launch", "measure"} =>
              DOMAIN run.measured =
                 IF run.before = NoContext THEN {} ELSE Wanted \ DOMAIN run.hits

\* What of the first context is still the case as far as the command can tell,
\* once the second has found it to be so for good.
ExecutableHolds == pc # "decide" /\ run.before.scope = world.executable
ConfigurationHolds ==
    \/ /\ pc \in {"launch", "measure", "config"}
       /\ run.before.configuration = world.config
    \/ /\ pc \in {"attributes", "executable"}
       /\ run.before.configuration = run.snap.configuration
AttributesHold(p) ==
    \/ /\ pc \in {"launch", "measure", "config", "attributes"}
       /\ run.before.attributes[p] = world.attributes[p]
    \/ /\ pc = "executable"
       /\ run.before.attributes = run.snap.attributes

\* What was measured agrees with that.
Agreement ==
    Comparing =>
        /\ ExecutableHolds =>
              \A t \in DOMAIN run.measured : run.measured[t].scope = run.before.scope
        /\ ConfigurationHolds =>
              \A t \in DOMAIN run.measured :
                 run.measured[t].fingerprint.configuration = run.before.configuration
        /\ \A t \in DOMAIN run.measured : \A p \in PathsOf[t] :
              AttributesHold(p) =>
                 run.measured[t].fingerprint.attributes[p] = run.before.attributes[p]
        /\ pc = "measure" =>
              /\ ExecutableHolds => run.launched.scope = run.before.scope
              /\ ConfigurationHolds => run.launched.configuration = run.before.configuration
        /\ pc = "decide" /\ run.after = run.before =>
              \A t \in DOMAIN run.measured : run.measured[t] = StatOf(run.before, t)

Shown ==
    pc = "shown" =>
        /\ Wanted \subseteq DOMAIN run.result
        /\ \A t \in DOMAIN run.result : LivedStat(lived, t, run.result[t])
        /\ DOMAIN run.hits # {} /\ ~run.final =>
              \E k : \A t \in DOMAIN run.result : run.result[t] = StatOf(k, t)

Inv ==
    /\ Typed
    /\ Kept
    /\ InTime
    /\ Contexts
    /\ Counts
    /\ Agreement
    /\ Shown

LEMMA Initially == Init => Inv
<1> SUFFICES ASSUME Init PROVE Inv
  OBVIOUS
<1>1. Typed
  BY WorldsAssumption DEF Init, Typed, NoRun, Labels
<1>2. Kept
  BY StoredWhole, NoFactsWhole DEF Init, Kept
<1> QED
  BY <1>1, <1>2 DEF Init, Inv, InTime, Contexts, Counts, Agreement, Shown, Working, Comparing, Reading

\* Everything that is wanted is a pair, and differs in paths.
LEMMA WantedPaths ==
  ASSUME InTime, Working
  PROVE  /\ Wanted \subseteq Pairs
         /\ Dependencies(Wanted) \subseteq Paths
         /\ \A t \in Wanted : PathsOf[t] \subseteq Dependencies(Wanted)
<1>1. Wanted \subseteq Pairs
  BY AnalysesAssumption DEF InTime, Wanted
<1> QED
  BY <1>1, DiffAssumption DEF Dependencies, Pairs

\* Nothing that was over is as it was before.
LEMMA NothingReturns ==
  ASSUME ~MayReturn, world \in World, NEW w \in World, Change(w)
  PROVE  /\ \A e : e = w.executable /\ <<"executable", e>> \in lived => e = world.executable
         /\ \A c : c = w.config /\ <<"config", c>> \in lived => c = world.config
         /\ \A p \in Paths : \A a :
               a = w.attributes[p] /\ <<p, a>> \in lived => a = world.attributes[p]
<1>1. \A x : x \in Live(w) /\ x \in lived => x \in Live(world)
  BY DEF Change
<1> QED
  BY <1>1, LiveIs

-----------------------------------------------------------------------------
(* Every step keeps the invariant.                                         *)

LEMMA NothingInEmpty == DOMAIN <<>> = {}
OBVIOUS

LEMMA ShowEffect ==
  ASSUME NEW r, DOMAIN r = DOMAIN NoRun, NEW result, Show(result, r)
  PROVE  /\ pc' = "shown"
         /\ DOMAIN run' = DOMAIN NoRun
         /\ run'.result = result /\ run'.before = NoContext /\ run'.snap = r.snap
         /\ run'.lanes = r.lanes /\ run'.hits = r.hits /\ run'.final = r.final
         /\ run'.todo = r.todo /\ run'.requested = r.requested /\ run'.used = r.used
         /\ DOMAIN run'.measured = {}
BY DEF Show, NoRun

LEMMA MeasureEffect ==
  ASSUME NEW r, DOMAIN r = DOMAIN NoRun, NEW pairs, NEW final, Measure(pairs, final, r)
  PROVE  /\ pc' = "launch"
         /\ DOMAIN run' = DOMAIN NoRun
         /\ run'.todo = pairs /\ run'.final = final
         /\ run'.before = r.before /\ run'.after = r.after /\ run'.snap = r.snap
         /\ run'.lanes = r.lanes /\ run'.hits = r.hits /\ run'.requested = r.requested
         /\ run'.used = r.used /\ run'.result = r.result
         /\ DOMAIN run'.measured = {}
BY DEF Measure, NoRun

LEMMA StepLaunch == Inv /\ Launch => Inv'
<1> SUFFICES ASSUME Inv, Launch PROVE Inv'
  OBVIOUS
<1>1. /\ pc = "launch" /\ pc' = "measure"
      /\ DOMAIN run' = DOMAIN NoRun
      /\ run'.launched = [NoContext EXCEPT !.scope = world.executable,
                                           !.configuration = world.config]
      /\ run'.lanes = run.lanes /\ run'.requested = run.requested
      /\ run'.before = run.before /\ run'.after = run.after /\ run'.snap = run.snap
      /\ run'.hits = run.hits /\ run'.todo = run.todo /\ run'.measured = run.measured
      /\ run'.final = run.final
      /\ UNCHANGED <<world, changes, stored, runs, facts, lived>>
  BY DEF Launch, Inv, Typed, NoRun, environment
<1>2. Wanted' = Wanted
  BY <1>1 DEF Wanted
<1>3. Typed' /\ Kept' /\ InTime' /\ Shown'
  BY <1>1 DEF Inv, Typed, Kept, InTime, Shown, Labels, Working
<1>4. /\ run'.launched.scope = world.executable
      /\ run'.launched.configuration = world.config
      /\ DOMAIN run'.launched = DOMAIN NoContext
  BY <1>1 DEF NoContext
<1>5. /\ world.executable \in Executables /\ <<"executable", world.executable>> \in lived
      /\ world.config \in Configs /\ <<"config", world.config>> \in lived
  BY <1>1, LiveIs DEF Inv, Typed, InTime, Working, World
<1>6. Contexts'
  BY <1>1, <1>2, <1>4, <1>5 DEF Inv, Contexts, Working, Comparing, Reading
<1>7. Counts'
  BY <1>1, <1>2 DEF Inv, Counts, Working
<1>8. Agreement'
  BY <1>1, <1>4 DEF Inv, Agreement, Comparing, Reading, ExecutableHolds, ConfigurationHolds,
                    AttributesHold
<1> QED
  BY <1>3, <1>6, <1>7, <1>8 DEF Inv

\* Before and after its output a command knows nothing but facts.
LEMMA StepOutside ==
  Inv /\ (Leave \/ Compact \/ GiveUpDiff \/ GiveUpMetadata \/ GiveUpGraph \/ Admit
            \/ Publish \/ Fail \/ Lose) => Inv'
<1> SUFFICES ASSUME Inv,
                    Leave \/ Compact \/ GiveUpDiff \/ GiveUpMetadata \/ GiveUpGraph \/ Admit
                      \/ Publish \/ Fail \/ Lose
             PROVE  Inv'
  OBVIOUS
<1> SUFFICES Typed' /\ Kept' /\ pc' \in {"idle", "fit", "publish"}
  BY DEF Inv, InTime, Contexts, Counts, Agreement, Shown, Comparing, Reading, Working
<1>1. ASSUME End, stored' = stored \/ stored' = facts, UNCHANGED world
      PROVE  Typed' /\ Kept' /\ pc' \in {"idle", "fit", "publish"}
  BY <1>1, NoFactsWhole DEF End, Labels, NoRun, Working, Inv, Typed, Kept
<1>2. CASE Leave \/ Publish \/ Fail
  <2>1. End /\ (stored' = stored \/ stored' = facts) /\ UNCHANGED world
    BY <1>2 DEF Leave, Publish, Fail, environment
  <2> QED
    BY <1>1, <2>1
<1>3. CASE Compact
  <2>1. Whole(facts')
    BY <1>3, CompactedWhole DEF Compact, Inv, Kept
  <2>2. /\ pc' = "fit" /\ UNCHANGED <<world, stored>>
        /\ DOMAIN run' = DOMAIN NoRun /\ DOMAIN run'.snap = DOMAIN NoContext
    BY <1>3 DEF Compact, environment, NoRun
  <2> QED
    BY <2>1, <2>2 DEF Inv, Typed, Kept, Labels, Working
<1>4. CASE GiveUpDiff \/ GiveUpMetadata \/ GiveUpGraph
  <2>1. Whole(facts')
    BY <1>4, FittedWhole DEF GiveUpDiff, GiveUpMetadata, GiveUpGraph, Inv, Kept
  <2>2. pc = "fit" /\ UNCHANGED <<world, stored, pc, run>>
    BY <1>4 DEF GiveUpDiff, GiveUpMetadata, GiveUpGraph, Fitting, environment
  <2> QED
    BY <2>1, <2>2 DEF Inv, Typed, Kept, Working
<1>5. CASE Admit
  <2>1. /\ pc' = "publish" /\ UNCHANGED <<world, stored, facts>>
        /\ DOMAIN run' = DOMAIN NoRun /\ run'.snap = run.snap
    BY <1>5 DEF Admit, Fitting, environment, NoRun, Inv, Typed
  <2> QED
    BY <2>1 DEF Inv, Typed, Kept, Labels, Working
<1>6. CASE Lose
  <2>1. pc = "idle" /\ stored' = Miss /\ UNCHANGED <<world, pc, run, facts>>
    BY <1>6 DEF Lose, environment
  <2> QED
    BY <2>1 DEF Inv, Typed, Kept, Working
<1> QED
  BY <1>2, <1>3, <1>4, <1>5, <1>6

LEMMA StepStart ==
  ASSUME Inv, NEW mode, NEW hit, NEW analysis \in Analyses,
         NEW captured \in {world.config, Miss}, Start(mode, hit, analysis, captured)
  PROVE  Inv'
<1>1. /\ pc' \in {"ask", "count"}
      /\ DOMAIN run' = DOMAIN NoRun
      /\ run'.lanes = analysis.lanes
      /\ pc' = "ask" => run'.asks = analysis.asks
      /\ run'.captured = captured
      /\ run'.before = NoContext /\ run'.after = NoContext /\ run'.snap = NoContext
      /\ ~run'.final
      /\ DOMAIN run'.hits = {} /\ DOMAIN run'.measured = {}
      /\ lived' = Live(world) /\ UNCHANGED <<world, stored>>
  BY DEF Start, NoRun, environment
<1>2. Typed'
  BY <1>1 DEF Inv, Typed, Labels
<1>3. Kept'
  BY <1>1, NoFactsWhole DEF Inv, Kept, Start
<1>4. InTime'
  BY <1>1, AnalysesAssumption DEF InTime
<1>5. world.config \in Configs /\ <<"config", world.config>> \in lived'
  BY <1>1, LiveIs DEF Inv, Typed, World
<1>6. Contexts'
  BY <1>1, <1>5 DEF Contexts, Working, Comparing, Reading
<1>7. Counts' /\ Agreement' /\ Shown'
  BY <1>1 DEF Counts, Agreement, Shown, Working, Comparing, Reading
<1> QED
  BY <1>2, <1>3, <1>4, <1>6, <1>7 DEF Inv

LEMMA StepAsk == Inv /\ Ask => Inv'
<1> SUFFICES ASSUME Inv, Ask PROVE Inv'
  OBVIOUS
<1>1. /\ pc = "ask" /\ pc' = "ask" /\ run.asks # <<>>
      /\ DOMAIN run' = DOMAIN NoRun
      /\ run'.asks = Tail(run.asks)
      /\ run'.lanes = run.lanes /\ run'.captured = run.captured /\ run'.final = run.final
      /\ run'.before = run.before /\ run'.after = run.after /\ run'.snap = run.snap
      /\ run'.hits = run.hits /\ run'.measured = run.measured
      /\ UNCHANGED <<world, stored, lived>>
  BY DEF Ask, Inv, Typed, NoRun, environment
<1>2. Wanted' = Wanted
  BY <1>1 DEF Wanted
<1>3. run.asks \in Seq(Asked)
  BY <1>1 DEF Inv, InTime, Working
<1>4. Head(run.asks)[1] \in {"bases", "distances", "metadata"} /\ Tail(run.asks) \in Seq(Asked)
  BY <1>1, <1>3, AnalysesAssumption
<1>5. Whole(facts')
  BY <1>4, TouchedWhole DEF Ask, Inv, Kept
<1>6. Typed' /\ Kept' /\ InTime'
  BY <1>1, <1>4, <1>5 DEF Inv, Typed, Kept, InTime, Working
<1>7. Contexts'
  BY <1>1, <1>2 DEF Inv, Contexts, Working, Comparing, Reading
<1>8. Counts' /\ Agreement' /\ Shown'
  BY <1>1, <1>2 DEF Inv, Counts, Agreement, Shown, Working, Comparing, Reading
<1> QED
  BY <1>6, <1>7, <1>8 DEF Inv

LEMMA StepCount == Inv /\ Count => Inv'
<1> SUFFICES ASSUME Inv, Count PROVE Inv'
  OBVIOUS
<1> DEFINE pairs == CommitPairs(run.lanes)
           cached == pc = "ask" /\ pairs # {}
           r == IF cached
                THEN [run EXCEPT !.requested = Wanted,
                                 !.new = @ \/ ~(CommitIds(pairs) \subseteq facts.diff.trees),
                                 !.used.trees = CommitIds(pairs)]
                ELSE run
<1>1. pc \in {"ask", "count"} /\ UNCHANGED <<world, stored, lived>>
  BY DEF Count, environment
<1>2. \/ Wanted = {} /\ Show(<<>>, r)
      \/ Measure(Wanted, TRUE, r)
      \/ cached /\ run' = r /\ pc' = "config"
  BY DEF Count, Wanted
<1>3. /\ DOMAIN r = DOMAIN NoRun
      /\ cached => r.requested = Wanted
      /\ r.lanes = run.lanes /\ r.captured = run.captured /\ r.final = run.final
      /\ r.before = NoContext /\ r.after = run.after /\ r.snap = run.snap
      /\ r.hits = run.hits /\ r.measured = run.measured
  BY <1>1 DEF Inv, Typed, NoRun, Contexts
<1>4. DOMAIN run.hits = {} /\ DOMAIN run.measured = {}
  BY <1>1 DEF Inv, Counts, Contexts, Working
<1> HIDE DEF r, cached
<1>5. /\ DOMAIN run' = DOMAIN NoRun
      /\ run'.lanes = run.lanes /\ run'.before = NoContext /\ run'.snap = run.snap
      /\ DOMAIN run'.hits = {} /\ DOMAIN run'.measured = {}
  BY <1>2, <1>3, <1>4, ShowEffect, MeasureEffect
<1>6. \/ Wanted = {} /\ pc' = "shown" /\ run'.result = <<>>
      \/ pc' = "launch" /\ run'.final = TRUE /\ run'.todo = Wanted
      \/ /\ pc' = "config" /\ run'.requested = Wanted
         /\ run'.captured = run.captured /\ run'.after = run.after /\ run'.final = run.final
  <2>1. CASE Wanted = {} /\ Show(<<>>, r)
    BY <2>1, <1>3, ShowEffect
  <2>2. CASE Measure(Wanted, TRUE, r)
    BY <2>2, <1>3 DEF Measure, NoRun
  <2>3. CASE cached /\ run' = r /\ pc' = "config"
    BY <2>3, <1>3
  <2> QED
    BY <1>2, <2>1, <2>2, <2>3
<1>7. Wanted' = Wanted
  BY <1>5 DEF Wanted
<1>8. Whole(facts')
  BY WithTreesWhole DEF Count, Inv, Kept
<1>9. Typed' /\ Kept' /\ InTime'
  BY <1>1, <1>5, <1>6, <1>8 DEF Inv, Typed, Kept, InTime, Working, Labels
<1>10. Contexts'
  BY <1>1, <1>5, <1>6, <1>7 DEF Inv, Contexts, Working, Comparing, Reading
<1>11. Counts' /\ Agreement' /\ Shown'
  BY <1>5, <1>6, <1>7, NothingInEmpty DEF Counts, Agreement, Shown, Working, Comparing, Reading
<1> QED
  BY <1>9, <1>10, <1>11 DEF Inv

LEMMA StepReadConfig == Inv /\ ReadConfig => Inv'
<1> SUFFICES ASSUME Inv, ReadConfig PROVE Inv'
  OBVIOUS
<1>1. /\ pc = "config" /\ pc' = "attributes"
      /\ DOMAIN run' = DOMAIN NoRun /\ DOMAIN run'.snap = DOMAIN NoContext
      /\ run'.snap.configuration =
            IF First /\ run.captured # Miss THEN run.captured ELSE world.config
      /\ run'.lanes = run.lanes /\ run'.requested = run.requested
      /\ run'.before = run.before /\ run'.after = run.after /\ run'.captured = run.captured
      /\ run'.hits = run.hits /\ run'.measured = run.measured /\ run'.final = run.final
      /\ UNCHANGED <<world, stored, facts, lived>>
  BY DEF ReadConfig, Inv, Typed, NoRun, NoContext, environment
<1>2. Wanted' = Wanted
  BY <1>1 DEF Wanted
<1>3. Typed' /\ Kept' /\ InTime' /\ Shown'
  BY <1>1 DEF Inv, Typed, Kept, InTime, Shown, Labels, Working
<1>4. world.config \in Configs /\ <<"config", world.config>> \in lived
  BY <1>1, LiveIs DEF Inv, Typed, InTime, Working, World
<1>5. Contexts'
  BY <1>1, <1>2, <1>4 DEF Inv, Contexts, Working, Comparing, Reading, First
<1>6. Counts'
  BY <1>1, <1>2 DEF Inv, Counts, Working
<1>7. Agreement'
  <2> SUFFICES ASSUME Comparing' PROVE Agreement'
    BY DEF Agreement
  <2>1. Comparing /\ run'.snap.configuration = world.config
    BY <1>1 DEF Comparing, Reading, First
  <2> QED
    BY <1>1, <2>1 DEF Inv, Agreement, ExecutableHolds, ConfigurationHolds, AttributesHold
<1> QED
  BY <1>3, <1>5, <1>6, <1>7 DEF Inv

LEMMA StepReadAttributes == Inv /\ ReadAttributes => Inv'
<1> SUFFICES ASSUME Inv, ReadAttributes PROVE Inv'
  OBVIOUS
<1>1. /\ pc = "attributes" /\ pc' = "executable"
      /\ DOMAIN run' = DOMAIN NoRun /\ DOMAIN run'.snap = DOMAIN NoContext
      /\ run'.snap.attributes = Restrict(world.attributes, Dependencies(run.requested))
      /\ run'.snap.configuration = run.snap.configuration
      /\ run'.lanes = run.lanes /\ run'.requested = run.requested
      /\ run'.before = run.before /\ run'.after = run.after /\ run'.captured = run.captured
      /\ run'.hits = run.hits /\ run'.measured = run.measured /\ run'.final = run.final
      /\ UNCHANGED <<world, stored, facts, lived>>
  BY DEF ReadAttributes, Inv, Typed, NoRun, NoContext, environment
<1>2. Wanted' = Wanted /\ run.requested = Wanted
  BY <1>1 DEF Wanted, Inv, Contexts, Reading
<1>3. Typed' /\ Kept' /\ InTime' /\ Shown'
  BY <1>1 DEF Inv, Typed, Kept, InTime, Shown, Labels, Working
<1>4. /\ Dependencies(Wanted) \subseteq Paths
      /\ \A t \in Wanted : PathsOf[t] \subseteq Dependencies(Wanted)
  BY <1>1, WantedPaths DEF Inv, Working
<1>5. \A p \in Dependencies(Wanted) :
        /\ run'.snap.attributes[p] = world.attributes[p]
        /\ world.attributes[p] \in Attrs /\ <<p, world.attributes[p]>> \in lived
  BY <1>1, <1>2, <1>4, LiveIs DEF Inv, Typed, InTime, Working, World, Restrict
<1>6. Contexts'
  BY <1>1, <1>2, <1>5 DEF Inv, Contexts, Working, Comparing, Reading
<1>7. Counts'
  BY <1>1, <1>2 DEF Inv, Counts, Working
<1>8. Agreement'
  <2> SUFFICES ASSUME Comparing' PROVE Agreement'
    BY DEF Agreement
  <2>1. Comparing
    BY <1>1 DEF Comparing, Reading
  <2>2. \A t \in DOMAIN run.measured : t \in Wanted
    BY <1>1, <2>1 DEF Inv, Counts, Working, Comparing
  <2>3. ASSUME NEW t \in DOMAIN run.measured, NEW p \in PathsOf[t], AttributesHold(p)'
        PROVE  AttributesHold(p)
    <3>1. p \in Dependencies(Wanted)
      BY <1>4, <2>2
    <3> QED
      BY <1>1, <1>5, <2>3, <3>1 DEF AttributesHold
  <2>4. \A t \in DOMAIN run'.measured : \A p \in PathsOf[t] :
          AttributesHold(p)' =>
             run'.measured[t].fingerprint.attributes[p] = run'.before.attributes[p]
    BY <1>1, <2>1, <2>3 DEF Inv, Agreement
  <2> QED
    BY <1>1, <2>1, <2>4 DEF Inv, Agreement, ExecutableHolds, ConfigurationHolds
<1> QED
  BY <1>3, <1>6, <1>7, <1>8 DEF Inv

\* What the second context has confirmed is what was measured.
LEMMA Confirmed ==
  ASSUME Inv, pc = "executable", run.before # NoContext, run.before.scope = world.executable,
         run.before.configuration = run.snap.configuration,
         run.before.attributes = run.snap.attributes
  PROVE  \A t \in DOMAIN run.measured : run.measured[t] = StatOf(run.before, t)
<1> SUFFICES ASSUME NEW t \in DOMAIN run.measured
             PROVE  run.measured[t] = StatOf(run.before, t)
  OBVIOUS
<1>1. PICK k : run.measured[t] = StatOf(k, t)
  BY DEF Inv, Counts, Working, LivedStat
<1>2. /\ run.measured[t].scope = run.before.scope
      /\ run.measured[t].fingerprint.configuration = run.before.configuration
      /\ \A p \in PathsOf[t] :
            run.measured[t].fingerprint.attributes[p] = run.before.attributes[p]
  BY DEF Inv, Agreement, Comparing, Reading, ExecutableHolds, ConfigurationHolds, AttributesHold
<1>3. /\ k.scope = run.before.scope /\ k.configuration = run.before.configuration
      /\ \A p \in PathsOf[t] : k.attributes[p] = run.before.attributes[p]
  BY <1>1, <1>2, FieldsOfStat
<1> QED
  BY <1>1, <1>3, SameStat

LEMMA BeforeLived ==
  ASSUME Inv, Working, pc # "shown", run.before # NoContext
  PROVE  \A t \in Wanted : LivedBy(lived, run.before, PathsOf[t])
BY WantedPaths DEF Inv, Contexts, LivedBy

LEMMA StepReadExecutable == Inv /\ ReadExecutable => Inv'
<1> SUFFICES ASSUME Inv, ReadExecutable PROVE Inv'
  OBVIOUS
<1> DEFINE context == [run.snap EXCEPT !.scope = world.executable]
<1>1. /\ pc = "executable" /\ UNCHANGED <<world, stored, facts, lived>>
      /\ DOMAIN run' = DOMAIN NoRun /\ DOMAIN run'.snap = DOMAIN NoContext
      /\ run'.lanes = run.lanes /\ run'.requested = run.requested /\ run'.final = run.final
      /\ run'.hits = run.hits /\ run'.measured = run.measured
      /\ \/ First /\ pc' = "lookup" /\ run'.before = context /\ run'.after = run.after
         \/ ~First /\ pc' = "decide" /\ run'.before = run.before /\ run'.after = context
  BY DEF ReadExecutable, Inv, Typed, NoRun, environment
<1>2. Wanted' = Wanted
  BY <1>1 DEF Wanted
<1>3. /\ context.scope = world.executable
      /\ context.configuration = run.snap.configuration
      /\ context.attributes = run.snap.attributes
  BY DEF Inv, Typed, NoContext
<1> HIDE DEF context
<1>4. LivedBy(lived, context, Dependencies(Wanted))
  BY <1>1, <1>3, LiveIs DEF Inv, Typed, InTime, Contexts, Working, World, LivedBy
<1>5. context # NoContext
  BY <1>3, DiffAssumption DEF Inv, Typed, World, NoContext
<1>6. Typed' /\ Kept' /\ InTime' /\ Shown'
  BY <1>1 DEF Inv, Typed, Kept, InTime, Shown, Labels, Working
<1>7. Contexts'
  BY <1>1, <1>2, <1>4, <1>5 DEF Inv, Contexts, Working, Comparing, Reading, First
<1>8. Counts'
  BY <1>1, <1>2 DEF Inv, Counts, Working, First
<1>9. Agreement'
  <2>1. pc' = "decide" /\ run'.after = run'.before =>
          \A t \in DOMAIN run.measured : run.measured[t] = StatOf(run.before, t)
    BY <1>1, <1>3, Confirmed DEF First
  <2> QED
    BY <1>1, <2>1 DEF Agreement, Comparing, Reading, ExecutableHolds, ConfigurationHolds,
                      AttributesHold
<1> QED
  BY <1>6, <1>7, <1>8, <1>9 DEF Inv

LEMMA StepUnsupported == Inv /\ Unsupported => Inv'
<1> SUFFICES ASSUME Inv, Unsupported PROVE Inv'
  OBVIOUS
<1>1. /\ pc = "executable" /\ UNCHANGED <<world, stored, facts, lived>>
      /\ DOMAIN run = DOMAIN NoRun /\ DOMAIN run.snap = DOMAIN NoContext
      /\ run.requested = Wanted
  BY DEF Unsupported, environment, Inv, Typed, Contexts, Reading
<1>2. CASE First /\ Measure(run.requested, TRUE, run)
  <2>1. /\ pc' = "launch" /\ run'.todo = Wanted /\ run'.final = TRUE
        /\ DOMAIN run' = DOMAIN NoRun /\ run'.snap = run.snap
        /\ run'.lanes = run.lanes /\ run'.before = NoContext /\ run'.hits = run.hits
    BY <1>1, <1>2 DEF Measure, NoRun, First
  <2>2. DOMAIN run'.measured = {}
    BY <1>1, <1>2, MeasureEffect
  <2>3. Wanted' = Wanted
    BY <2>1 DEF Wanted
  <2>4. Typed' /\ Kept' /\ InTime' /\ Shown'
    BY <1>1, <2>1 DEF Inv, Typed, Kept, InTime, Shown, Labels, Working
  <2>5. DOMAIN run'.hits = {}
    BY <1>1, <1>2, <2>1 DEF Inv, Counts, Working, First
  <2>6. Contexts' /\ Counts' /\ Agreement'
    BY <1>1, <2>1, <2>2, <2>3, <2>5
       DEF Contexts, Counts, Agreement, Working, Comparing, Reading
  <2> QED
    BY <2>4, <2>6 DEF Inv
<1>3. CASE ~First /\ run' = [run EXCEPT !.snap = NoContext] /\ pc' = "decide"
  <2>1. /\ DOMAIN run' = DOMAIN NoRun /\ run'.snap = NoContext
        /\ run'.lanes = run.lanes /\ run'.requested = run.requested /\ run'.final = run.final
        /\ run'.hits = run.hits /\ run'.measured = run.measured
        /\ run'.before = run.before /\ run'.after = run.after
    BY <1>1, <1>3 DEF NoRun
  <2>2. Wanted' = Wanted
    BY <2>1 DEF Wanted
  <2>3. Typed' /\ Kept' /\ InTime' /\ Shown'
    BY <1>1, <1>3, <2>1 DEF Inv, Typed, Kept, InTime, Shown, Labels, Working
  <2>4. Contexts' /\ Counts'
    BY <1>1, <1>3, <2>1, <2>2 DEF Inv, Contexts, Counts, Working, Comparing, Reading, First
  <2>5. run'.after # run'.before
    BY <1>1, <1>3, <2>1 DEF Inv, Contexts, Working, Reading, First
  <2>6. Agreement'
    BY <1>3, <2>5 DEF Agreement, Comparing, ExecutableHolds, ConfigurationHolds, AttributesHold
  <2> QED
    BY <2>3, <2>4, <2>6 DEF Inv
<1> QED
  BY <1>2, <1>3 DEF Unsupported

LEMMA StepLookup == Inv /\ Lookup => Inv'
<1> SUFFICES ASSUME Inv, Lookup PROVE Inv'
  OBVIOUS
<1> DEFINE s == run.before.scope
           hits == IF s \in Scopes(facts)
                   THEN {t \in run.requested \cap DOMAIN facts.diff.scopes[s].values :
                            Valid(Value(facts, s, t), run.before, t)}
                   ELSE {}
           found == [t \in hits |-> Value(facts, s, t).stat]
           r == [run EXCEPT !.hits = found, !.used.entries = {<<s, t>> : t \in hits}]
<1>1. /\ pc = "lookup" /\ UNCHANGED <<world, stored, lived>>
      /\ DOMAIN run = DOMAIN NoRun
      /\ run.requested = Wanted /\ run.before # NoContext
  BY DEF Lookup, environment, Inv, Typed, Contexts
<1>2. \/ hits = Wanted /\ Show(found, r)
      \/ Measure(Wanted \ hits, FALSE, r)
  BY <1>1 DEF Lookup
<1>3. Whole(facts')
  <2>1. CASE s \in Scopes(facts)
    BY <2>1, RefreshedWhole DEF Lookup, Inv, Kept
  <2>2. CASE s \notin Scopes(facts)
    BY <2>2 DEF Lookup, Inv, Kept, Whole
  <2> QED
    BY <2>1, <2>2
<1>4. ASSUME NEW t \in hits PROVE t \in Wanted /\ found[t] = StatOf(run.before, t)
  <2>1. /\ s \in Scopes(facts) /\ t \in Wanted
        /\ t \in DOMAIN facts.diff.scopes[s].values
        /\ Valid(Value(facts, s, t), run.before, t)
    BY <1>1
  <2>2. WholeValue(s, t, Value(facts, s, t))
    BY <2>1 DEF Inv, Kept, Whole, WholeScopes, Scopes, Value
  <2>3. Value(facts, s, t).stat = StatOf(run.before, t)
    BY <2>1, <2>2 DEF WholeValue, Valid, StatOf
  <2> QED
    BY <2>1, <2>3
<1>5. /\ DOMAIN r = DOMAIN NoRun /\ r.hits = found
      /\ r.lanes = run.lanes /\ r.requested = run.requested /\ r.snap = run.snap
      /\ r.before = run.before /\ r.after = run.after
  BY <1>1 DEF NoRun
<1>6. DOMAIN found = hits
  OBVIOUS
<1> HIDE DEF r, hits, found
<1>7. CASE hits = Wanted /\ Show(found, r)
  <2>1. /\ pc' = "shown" /\ DOMAIN run' = DOMAIN NoRun /\ run'.snap = run.snap
        /\ run'.lanes = run.lanes /\ run'.result = found
    BY <1>5, <1>7, ShowEffect
  <2>2. Wanted' = Wanted
    BY <2>1 DEF Wanted
  <2>3. \A t \in Wanted : LivedStat(lived, t, found[t])
    BY <1>1, <1>4, <1>7, BeforeLived, CountedLived DEF Working
  <2>4. Shown'
    BY <1>1, <1>4, <1>6, <1>7, <2>1, <2>2, <2>3 DEF Shown
  <2>5. Typed' /\ Kept' /\ InTime'
    BY <1>1, <1>3, <2>1 DEF Inv, Typed, Kept, InTime, Working, Labels
  <2>6. Contexts' /\ Counts' /\ Agreement'
    BY <2>1 DEF Contexts, Counts, Agreement, Working, Comparing, Reading
  <2> QED
    BY <2>4, <2>5, <2>6 DEF Inv
<1>8. CASE Measure(Wanted \ hits, FALSE, r)
  <2>1. /\ pc' = "launch" /\ run'.todo = Wanted \ hits /\ ~run'.final
        /\ DOMAIN run' = DOMAIN NoRun /\ run'.snap = run.snap
        /\ run'.lanes = run.lanes /\ run'.requested = run.requested
        /\ run'.before = run.before /\ run'.after = run.after /\ run'.hits = found
    BY <1>5, <1>8 DEF Measure, NoRun
  <2>2. DOMAIN run'.measured = {}
    BY <1>5, <1>8, MeasureEffect
  <2>3. Wanted' = Wanted
    BY <2>1 DEF Wanted
  <2>4. Typed' /\ Kept' /\ InTime' /\ Shown'
    BY <1>1, <1>3, <2>1 DEF Inv, Typed, Kept, InTime, Shown, Working, Labels
  <2>5. run.final \/ run.after = NoContext
    BY <1>1 DEF Inv, Contexts, Working
  <2>6. run'.after = NoContext
    BY <1>1, <2>1, <2>5 DEF Inv, Contexts
  <2>7. Contexts'
    BY <1>1, <2>1, <2>3, <2>6 DEF Inv, Contexts, Working, Comparing, Reading
  <2>8. Counts' /\ Agreement'
    BY <1>1, <1>4, <1>6, <2>1, <2>2, <2>3
       DEF Counts, Agreement, Working, Comparing, Reading
  <2> QED
    BY <2>4, <2>7, <2>8 DEF Inv
<1> QED
  BY <1>2, <1>7, <1>8

LEMMA StepMeasurePair == Inv /\ MeasurePair => Inv'
<1> SUFFICES ASSUME Inv, pc = "measure", UNCHANGED <<world, stored, runs, facts, lived>>,
                    NEW t \in run.todo,
                    LET stat == [pair |-> t, scope |-> run.launched.scope,
                                 fingerprint |->
                                    Fingerprint([run.launched EXCEPT
                                                    !.attributes = world.attributes],
                                                PathsOf[t])]
                        r == [run EXCEPT !.todo = @ \ {t},
                                         !.measured = Over([u \in {t} |-> stat], @)]
                    IN  IF r.todo # {} THEN run' = r /\ pc' = pc
                        ELSE IF run.final THEN Show(r.measured, r)
                        ELSE run' = [r EXCEPT !.launched = NoContext] /\ pc' = "config"
             PROVE  Inv'
  BY DEF MeasurePair, environment
<1> DEFINE k == [run.launched EXCEPT !.attributes = world.attributes]
           measured == Over([u \in {t} |-> StatOf(k, t)], run.measured)
           r == [run EXCEPT !.todo = @ \ {t}, !.measured = measured]
<1>1. /\ run.launched.scope \in Executables
      /\ <<"executable", run.launched.scope>> \in lived
      /\ run.launched.configuration \in Configs
      /\ <<"config", run.launched.configuration>> \in lived
      /\ DOMAIN run.launched = DOMAIN NoContext
      /\ DOMAIN run = DOMAIN NoRun
  BY DEF Inv, Contexts, Typed
<1>2. /\ k.scope = run.launched.scope /\ k.configuration = run.launched.configuration
      /\ k.attributes = world.attributes
  BY <1>1 DEF NoContext
<1>3. [pair |-> t, scope |-> run.launched.scope, fingerprint |-> Fingerprint(k, PathsOf[t])]
        = StatOf(k, t)
  BY <1>2 DEF StatOf
<1>4. IF r.todo # {} THEN run' = r /\ pc' = "measure"
      ELSE IF run.final THEN Show(r.measured, r)
      ELSE run' = [r EXCEPT !.launched = NoContext] /\ pc' = "config"
  BY <1>3
<1>5. /\ DOMAIN r = DOMAIN NoRun
      /\ r.todo = run.todo \ {t} /\ r.measured = measured /\ r.launched = run.launched
      /\ r.lanes = run.lanes /\ r.requested = run.requested /\ r.final = run.final
      /\ r.before = run.before /\ r.after = run.after /\ r.snap = run.snap
      /\ r.hits = run.hits
  BY <1>1 DEF NoRun
<1>6. /\ DOMAIN measured = DOMAIN run.measured \cup {t}
      /\ measured[t] = StatOf(k, t)
      /\ \A u \in DOMAIN run.measured : u # t => measured[u] = run.measured[u]
  BY DEF Over
<1>7. t \in Wanted
  BY DEF Inv, Counts, Working
<1>8. /\ PathsOf[t] \subseteq Paths
      /\ \A p \in PathsOf[t] : world.attributes[p] \in Attrs /\ <<p, world.attributes[p]>> \in lived
  BY <1>7, WantedPaths, LiveIs DEF Inv, Typed, InTime, Working, World
<1> HIDE DEF k, measured, r
<1>9. LivedStat(lived, t, StatOf(k, t))
  BY <1>1, <1>2, <1>8, CountedLived DEF LivedBy
<1>10. \A u \in DOMAIN measured : LivedStat(lived, u, measured[u])
  BY <1>6, <1>9 DEF Inv, Counts, Working
<1>11. r.todo \cup DOMAIN measured = IF run.final THEN Wanted ELSE Wanted \ DOMAIN run.hits
  BY <1>5, <1>6 DEF Inv, Counts, Working
<1>12. ASSUME ~run.final
       PROVE  /\ run.before.scope = world.executable =>
                    \A u \in DOMAIN measured : measured[u].scope = run.before.scope
              /\ run.before.configuration = world.config =>
                    \A u \in DOMAIN measured :
                       measured[u].fingerprint.configuration = run.before.configuration
              /\ \A u \in DOMAIN measured : \A p \in PathsOf[u] :
                    run.before.attributes[p] = world.attributes[p] =>
                       measured[u].fingerprint.attributes[p] = run.before.attributes[p]
              /\ run.before.scope = world.executable => run.launched.scope = run.before.scope
              /\ run.before.configuration = world.config =>
                    run.launched.configuration = run.before.configuration
  <2>1. Agreement /\ Comparing
    BY <1>12 DEF Inv, Comparing
  <2>2. /\ run.before.scope = world.executable =>
              /\ run.launched.scope = run.before.scope
              /\ \A u \in DOMAIN run.measured : run.measured[u].scope = run.before.scope
        /\ run.before.configuration = world.config =>
              /\ run.launched.configuration = run.before.configuration
              /\ \A u \in DOMAIN run.measured :
                    run.measured[u].fingerprint.configuration = run.before.configuration
        /\ \A u \in DOMAIN run.measured : \A p \in PathsOf[u] :
              run.before.attributes[p] = world.attributes[p] =>
                 run.measured[u].fingerprint.attributes[p] = run.before.attributes[p]
    BY <2>1 DEF Agreement, ExecutableHolds, ConfigurationHolds, AttributesHold
  <2>3. /\ measured[t].scope = run.launched.scope
        /\ measured[t].fingerprint.configuration = run.launched.configuration
        /\ \A p \in PathsOf[t] : measured[t].fingerprint.attributes[p] = world.attributes[p]
    BY <1>2, <1>6, FieldsOfStat
  <2> QED
    BY <1>6, <2>2, <2>3
<1>13. CASE r.todo # {} /\ run' = r /\ pc' = "measure"
  <2>1. Wanted' = Wanted
    BY <1>5, <1>13 DEF Wanted
  <2>2. Typed' /\ Kept' /\ InTime' /\ Shown'
    BY <1>5, <1>13 DEF Inv, Typed, Kept, InTime, Shown, Working
  <2>3. Contexts'
    BY <1>5, <1>13, <2>1 DEF Inv, Contexts, Working, Comparing, Reading
  <2>4. Counts'
    BY <1>5, <1>10, <1>11, <1>13, <2>1 DEF Inv, Counts, Working
  <2>5. Agreement'
    BY <1>5, <1>12, <1>13
       DEF Agreement, Comparing, Reading, ExecutableHolds, ConfigurationHolds, AttributesHold
  <2> QED
    BY <2>2, <2>3, <2>4, <2>5 DEF Inv
<1>14. CASE r.todo = {} /\ run.final /\ Show(r.measured, r)
  <2>1. /\ pc' = "shown" /\ DOMAIN run' = DOMAIN NoRun /\ run'.snap = run.snap
        /\ run'.lanes = run.lanes /\ run'.result = measured
    BY <1>5, <1>14, ShowEffect
  <2>2. run'.final
    BY <1>5, <1>14 DEF Show, NoRun
  <2>3. Wanted' = Wanted /\ DOMAIN measured = Wanted
    BY <1>11, <1>14, <2>1 DEF Wanted
  <2>4. Shown'
    BY <1>10, <2>1, <2>2, <2>3 DEF Shown
  <2>5. Typed' /\ Kept' /\ InTime'
    BY <2>1 DEF Inv, Typed, Kept, InTime, Working, Labels
  <2>6. Contexts' /\ Counts' /\ Agreement'
    BY <2>1 DEF Contexts, Counts, Agreement, Working, Comparing, Reading
  <2> QED
    BY <2>4, <2>5, <2>6 DEF Inv
<1>15. CASE /\ r.todo = {} /\ ~run.final
            /\ run' = [r EXCEPT !.launched = NoContext] /\ pc' = "config"
  <2>1. /\ DOMAIN run' = DOMAIN NoRun
        /\ run'.measured = measured
        /\ run'.lanes = run.lanes /\ run'.requested = run.requested
        /\ run'.final = run.final /\ run'.captured = r.captured
        /\ run'.before = run.before /\ run'.after = run.after /\ run'.snap = run.snap
        /\ run'.hits = run.hits
    BY <1>5, <1>15 DEF NoRun
  <2>2. Wanted' = Wanted
    BY <2>1 DEF Wanted
  <2>3. Typed' /\ Kept' /\ InTime' /\ Shown'
    BY <1>15, <2>1 DEF Inv, Typed, Kept, InTime, Shown, Working, Labels
  <2>4. Contexts'
    BY <1>15, <2>1, <2>2 DEF Inv, Contexts, Working, Comparing, Reading
  <2>5. DOMAIN measured = Wanted \ DOMAIN run.hits /\ run.before # NoContext
    BY <1>11, <1>15 DEF Inv, Contexts, Comparing
  <2>6. Counts'
    BY <1>10, <1>15, <2>1, <2>2, <2>5 DEF Inv, Counts, Working
  <2>7. Agreement'
    BY <1>12, <1>15, <2>1
       DEF Agreement, Comparing, Reading, ExecutableHolds, ConfigurationHolds, AttributesHold
  <2> QED
    BY <2>3, <2>4, <2>6, <2>7 DEF Inv
<1> QED
  BY <1>4, <1>13, <1>14, <1>15

LEMMA StepDecide ==
  ASSUME Inv, NEW covered \in BOOLEAN, Decide(covered)
  PROVE  Inv'
<1> DEFINE both == Over(run.measured, run.hits)
<1>1. /\ pc = "decide" /\ UNCHANGED <<world, stored, lived>>
      /\ DOMAIN run = DOMAIN NoRun
      /\ run.requested = Wanted /\ run.before # NoContext
      /\ Agreement /\ Comparing
  BY DEF Decide, environment, Inv, Typed, Contexts, Comparing
<1>2. /\ \A t \in DOMAIN run.hits : t \in Wanted /\ run.hits[t] = StatOf(run.before, t)
      /\ \A t \in DOMAIN run.measured : LivedStat(lived, t, run.measured[t])
      /\ DOMAIN run.measured = Wanted \ DOMAIN run.hits
  BY <1>1 DEF Inv, Counts, Working
<1>3. /\ DOMAIN both = Wanted
      /\ \A t \in DOMAIN both :
            \/ t \in DOMAIN run.measured /\ both[t] = run.measured[t]
            \/ t \in DOMAIN run.hits /\ both[t] = run.hits[t]
  BY <1>2 DEF Over
<1>4. \A t \in Wanted : LivedStat(lived, t, StatOf(run.before, t))
  BY <1>1, BeforeLived, CountedLived DEF Working
<1>5. \A t \in DOMAIN both : LivedStat(lived, t, both[t])
  BY <1>2, <1>3, <1>4
<1> HIDE DEF both
<1>6. ASSUME NEW r, Show(both, r), Whole(facts'), r.lanes = run.lanes, DOMAIN r = DOMAIN NoRun,
             r.snap = run.snap, r.hits = run.hits,
             DOMAIN run.hits # {} => \A t \in DOMAIN both : both[t] = StatOf(run.before, t)
      PROVE  Inv'
  <2>1. /\ pc' = "shown" /\ DOMAIN run' = DOMAIN NoRun /\ run'.snap = run.snap
        /\ run'.lanes = run.lanes /\ run'.result = both /\ run'.hits = run.hits
    BY <1>6, ShowEffect
  <2>2. Wanted' = Wanted
    BY <2>1 DEF Wanted
  <2>3. Shown'
    BY <1>1, <1>3, <1>5, <1>6, <2>1, <2>2 DEF Shown
  <2>4. Typed' /\ Kept' /\ InTime'
    BY <1>1, <1>6, <2>1 DEF Inv, Typed, Kept, InTime, Working, Labels
  <2>5. Contexts' /\ Counts' /\ Agreement'
    BY <2>1 DEF Contexts, Counts, Agreement, Working, Comparing, Reading
  <2> QED
    BY <2>3, <2>4, <2>5 DEF Inv
<1>7. CASE Stable(covered)
  <2>1. \A t \in DOMAIN run.measured : run.measured[t] = StatOf(run.before, t)
    BY <1>1, <1>7 DEF Stable, Agreement
  <2>2. Whole(facts')
    BY <1>7, <2>1, RetainedWhole DEF Decide, Inv, Kept
  <2>3. PICK used : Show(both, [run EXCEPT !.new = TRUE, !.used.entries = used])
    BY <1>7 DEF Decide, both
  <2> DEFINE r == [run EXCEPT !.new = TRUE, !.used.entries = used]
  <2>4. /\ DOMAIN r = DOMAIN NoRun /\ r.lanes = run.lanes /\ r.snap = run.snap
        /\ r.hits = run.hits
    BY <1>1 DEF NoRun
  <2>5. \A t \in DOMAIN both : both[t] = StatOf(run.before, t)
    BY <1>2, <1>3, <2>1
  <2> HIDE DEF r
  <2> QED
    BY <1>6, <2>2, <2>3, <2>4, <2>5 DEF r
<1>8. CASE ~Stable(covered) /\ DOMAIN run.hits = {}
  <2>1. facts' = facts /\ Show(both, run)
    BY <1>8 DEF Decide, both
  <2> QED
    BY <1>1, <1>6, <1>8, <2>1 DEF Inv, Kept
<1>9. CASE ~Stable(covered) /\ DOMAIN run.hits # {}
  <2>1. facts' = facts /\ Measure(Wanted, TRUE, run)
    BY <1>1, <1>9 DEF Decide
  <2>2. /\ pc' = "launch" /\ run'.todo = Wanted /\ run'.final
        /\ DOMAIN run' = DOMAIN NoRun /\ run'.snap = run.snap
        /\ run'.lanes = run.lanes /\ run'.before = run.before /\ run'.hits = run.hits
    BY <1>1, <2>1 DEF Measure, NoRun
  <2>3. DOMAIN run'.measured = {}
    BY <1>1, <2>1, MeasureEffect
  <2>4. Wanted' = Wanted
    BY <2>2 DEF Wanted
  <2>5. Typed' /\ Kept' /\ InTime' /\ Shown'
    BY <1>1, <2>1, <2>2 DEF Inv, Typed, Kept, InTime, Shown, Working, Labels
  <2>6. Contexts'
    BY <1>1, <2>2, <2>4 DEF Inv, Contexts, Working, Comparing, Reading
  <2>7. Counts' /\ Agreement'
    BY <1>1, <1>2, <2>2, <2>3, <2>4 DEF Counts, Agreement, Working, Comparing, Reading
  <2> QED
    BY <2>5, <2>6, <2>7 DEF Inv
<1> QED
  BY <1>7, <1>8, <1>9

\* What was read and measured stays what it was when the world changes, and
\* nothing that has gone comes back.
LEMMA StepChange ==
  ASSUME Inv, ~MayReturn, NEW w \in World, Change(w)
  PROVE  Inv'
<1>1. /\ pc \notin {"shown", "fit", "publish"}
      /\ world' = w /\ UNCHANGED <<stored, pc, run, facts>>
      /\ lived' = IF lived = {} THEN {} ELSE lived \cup Live(w)
  BY DEF Change
<1>2. Typed' /\ Kept'
  BY <1>1 DEF Inv, Typed, Kept
<1>3. CASE ~Working
  BY <1>1, <1>2, <1>3
     DEF Inv, InTime, Contexts, Counts, Agreement, Shown, Working, Comparing, Reading
<1>4. CASE Working
  <2>1. lived # {} /\ lived \subseteq lived'
    <3>1. <<"config", world.config>> \in lived
      BY <1>4, LiveIs DEF Inv, Typed, InTime
    <3> QED
      BY <1>1, <3>1
  <2>2. Wanted' = Wanted
    BY <1>1 DEF Wanted
  <2>3. InTime' /\ Shown'
    BY <1>1, <1>4, <2>1 DEF Inv, InTime, Shown, Working
  <2>4. run.before # NoContext => LivedBy(lived', run.before, Dependencies(Wanted))
    BY <1>1, <1>4, <2>1, LivedOn DEF Inv, Contexts
  <2>5. Contexts'
    BY <1>1, <1>4, <2>1, <2>2, <2>4 DEF Inv, Contexts, Working, Comparing, Reading
  <2>6. Counts'
    BY <1>1, <1>4, <2>1, <2>2, LivedOn DEF Inv, Counts, Working
  <2>7. ASSUME Comparing
        PROVE  /\ run.before.scope = w.executable => run.before.scope = world.executable
               /\ run.before.configuration = w.config => run.before.configuration = world.config
               /\ \A t \in DOMAIN run.measured : t \in Wanted
               /\ \A p \in Dependencies(Wanted) :
                     run.before.attributes[p] = w.attributes[p] =>
                        run.before.attributes[p] = world.attributes[p]
    <3>1. LivedBy(lived, run.before, Dependencies(Wanted))
      BY <1>1, <1>4, <2>7 DEF Inv, Contexts
    <3>2. Dependencies(Wanted) \subseteq Paths
      BY <1>4, WantedPaths DEF Inv
    <3>3. \A t \in DOMAIN run.measured : t \in Wanted
      BY <2>7 DEF Inv, Counts, Comparing, Working, Reading
    <3>4. /\ \A e : e = w.executable /\ <<"executable", e>> \in lived => e = world.executable
          /\ \A c : c = w.config /\ <<"config", c>> \in lived => c = world.config
          /\ \A p \in Paths : \A a :
                a = w.attributes[p] /\ <<p, a>> \in lived => a = world.attributes[p]
      BY NothingReturns DEF Inv, Typed
    <3> QED
      BY <3>1, <3>2, <3>3, <3>4 DEF LivedBy
  <2>8. ASSUME Comparing
        PROVE  /\ ExecutableHolds' => ExecutableHolds
               /\ ConfigurationHolds' => ConfigurationHolds
               /\ \A p \in Dependencies(Wanted) : AttributesHold(p)' => AttributesHold(p)
    BY <1>1, <2>7, <2>8 DEF ExecutableHolds, ConfigurationHolds, AttributesHold
  <2>9. \A t \in Wanted : PathsOf[t] \subseteq Dependencies(Wanted)
    BY <1>4, WantedPaths DEF Inv
  <2>10. Agreement'
    <3> SUFFICES ASSUME Comparing PROVE Agreement'
      BY <1>1 DEF Agreement, Comparing
    <3>1. \A t \in DOMAIN run.measured : \A p \in PathsOf[t] : AttributesHold(p)' => AttributesHold(p)
      BY <2>7, <2>8, <2>9
    <3> QED
      BY <1>1, <2>8, <3>1 DEF Inv, Agreement
  <2> QED
    BY <1>2, <2>3, <2>5, <2>6, <2>10 DEF Inv
<1> QED
  BY <1>3, <1>4

LEMMA Steps == ASSUME ~MayReturn PROVE Inv /\ [Next]_vars => Inv'
<1> SUFFICES ASSUME Inv, [Next]_vars PROVE Inv'
  OBVIOUS
<1>1. CASE \E mode \in {"uncached", "use", "refresh"}, hit \in BOOLEAN,
             analysis \in Analyses, captured \in {world.config, Miss} :
               Start(mode, hit, analysis, captured)
  BY <1>1, StepStart
<1>2. CASE Ask \/ Count \/ ReadConfig \/ ReadAttributes \/ ReadExecutable \/ Unsupported
             \/ Lookup \/ Launch \/ MeasurePair
  BY <1>2, StepAsk, StepCount, StepReadConfig, StepReadAttributes, StepReadExecutable,
     StepUnsupported, StepLookup, StepLaunch, StepMeasurePair
<1>3. CASE \E covered \in BOOLEAN : Decide(covered)
  BY <1>3, StepDecide
<1>4. CASE Leave \/ Compact \/ GiveUpDiff \/ GiveUpMetadata \/ GiveUpGraph \/ Admit
             \/ Publish \/ Fail \/ Lose
  BY <1>4, StepOutside
<1>5. CASE ChangeExecutable \/ ChangeConfig \/ ChangeAttributes
  <2>1. PICK w \in World : Change(w)
    <3>1. /\ \A e \in Executables : [world EXCEPT !.executable = e] \in World
          /\ \A c \in Configs : [world EXCEPT !.config = c] \in World
          /\ \A p \in Volatile, a \in Attrs : [world EXCEPT !.attributes[p] = a] \in World
      BY DiffAssumption DEF Inv, Typed, World
    <3> QED
      BY <1>5, <3>1 DEF ChangeExecutable, ChangeConfig, ChangeAttributes
  <2> QED
    BY <2>1, StepChange
<1>6. CASE UNCHANGED vars
  BY <1>6 DEF vars, environment, Inv, Typed, Kept, InTime, Contexts, Counts, Agreement, Shown,
             Working, Wanted, Comparing, Reading, ExecutableHolds, ConfigurationHolds,
             AttributesHold
<1> QED
  BY <1>1, <1>2, <1>3, <1>4, <1>5, <1>6 DEF Next

-----------------------------------------------------------------------------
(* The theorems.                                                           *)

LEMMA Invariance == ASSUME ~MayReturn PROVE Spec => []Inv
BY Initially, Steps, PTL DEF Spec

\* What is kept is what its keys and fingerprints say, although everything it
\* was measured under may change before, while and after it is measured, as
\* long as nothing changes back while a command runs.
THEOREM KeptIsSound == ASSUME ~MayReturn PROVE Spec => []StatisticsSound
<1>1. Inv => StatisticsSound
  BY WholeIsSound DEF Inv, Kept, StatisticsSound
<1> QED
  BY <1>1, Invariance, PTL

LEMMA LivedIsStat ==
  ASSUME Inv, Working, NEW t \in Wanted, NEW stat, LivedStat(lived, t, stat)
  PROVE  /\ stat \in Stat
         /\ stat.pair = t
         /\ <<"executable", stat.scope>> \in lived
         /\ <<"config", stat.fingerprint.configuration>> \in lived
         /\ \A p \in PathsOf[t] : <<p, stat.fingerprint.attributes[p]>> \in lived
<1>1. PICK k : LivedBy(lived, k, PathsOf[t]) /\ stat = StatOf(k, t)
  BY DEF LivedStat
<1>2. t \in Pairs /\ PathsOf[t] \subseteq Paths
  BY WantedPaths, DiffAssumption DEF Inv, Pairs
<1>3. [p \in PathsOf[t] |-> k.attributes[p]] \in UNION {[q -> Attrs] : q \in SUBSET Paths}
  <2>1. [p \in PathsOf[t] |-> k.attributes[p]] \in [PathsOf[t] -> Attrs]
    BY <1>1 DEF LivedBy
  <2> QED
    BY <1>2, <2>1
<1>4. StatOf(k, t) \in Stat
  BY <1>1, <1>2, <1>3 DEF StatOf, Fingerprint, Restrict, Stat, LivedBy
<1> QED
  BY <1>1, <1>4, FieldsOfStat DEF LivedBy

\* Every row is the count of its layer, under an executable, a configuration and
\* attributes that were live while the command ran.
THEOREM OutputIsTrue == ASSUME ~MayReturn PROVE Spec => []RowsAreTrue
<1>1. ASSUME Inv, pc = "shown", NEW l \in Layers(run.lanes)
      PROVE  LET lane == l[1]
                 i == l[2]
                 from == TreeOf[IF i < Len(lane.points) THEN lane.points[i + 1].oid ELSE lane.base]
                 to == TreeOf[lane.points[i].oid]
                 row == Row(l)
             IN  IF from = to THEN row = Zero
                 ELSE /\ row # Zero
                      /\ row.pair = <<from, to>>
                      /\ <<"executable", row.scope>> \in lived
                      /\ <<"config", row.fingerprint.configuration>> \in lived
                      /\ \A p \in PathsOf[row.pair] :
                            <<p, row.fingerprint.attributes[p]>> \in lived
  <2> DEFINE lane == l[1]
             i == l[2]
             from == TreeOf[IF i < Len(lane.points) THEN lane.points[i + 1].oid ELSE lane.base]
             to == TreeOf[lane.points[i].oid]
             c == <<BaseOf(lane, i), lane.points[i].oid>>
  <2>1. lane \in run.lanes /\ i \in DOMAIN lane.points
    BY <1>1 DEF Layers
  <2>2. lane.points \in Seq(Range(lane.points))
    BY <1>1, <2>1, AnalysesAssumption DEF Inv, InTime, Working
  <2>3. i \in 1 .. Len(lane.points)
    BY <2>1, <2>2
  <2>4. TreePair(c) = <<from, to>>
    BY <2>2, <2>3 DEF TreePair, BaseOf
  <2>5. c \in CommitPairs(run.lanes)
    BY <1>1 DEF CommitPairs
  <2>6. Row(l) = IF from = to THEN Zero ELSE run.result[<<from, to>>]
    <3>1. Row(l) = IF TreePair(c)[1] = TreePair(c)[2] THEN Zero ELSE run.result[TreePair(c)]
      BY DEF Row
    <3> HIDE DEF from, to, c
    <3> QED
      BY <2>4, <3>1
  <2>7. CASE from # to
    <3> DEFINE t == <<from, to>>
    <3>1. t[1] = from /\ t[2] = to
      OBVIOUS
    <3>2. t \in Wanted
      BY <2>4, <2>5, <2>7, <3>1 DEF Wanted, Requested
    <3> HIDE DEF from, to, t
    <3>3. LivedStat(lived, t, run.result[t])
      BY <1>1, <3>2 DEF Inv, Shown
    <3>4. Row(l) = run.result[t]
      BY <2>6, <2>7 DEF t
    <3>5. /\ Row(l) # Zero
          /\ Row(l).pair = t
          /\ <<"executable", Row(l).scope>> \in lived
          /\ <<"config", Row(l).fingerprint.configuration>> \in lived
          /\ \A p \in PathsOf[t] : <<p, Row(l).fingerprint.attributes[p]>> \in lived
      BY <1>1, <3>2, <3>3, <3>4, LivedIsStat, ZeroAssumption DEF Working
    <3> QED
      BY <2>7, <3>5 DEF t, from, to
  <2> QED
    BY <2>6, <2>7
<1>2. Inv => RowsAreTrue
  BY <1>1 DEF RowsAreTrue
<1> QED
  BY <1>2, Invariance, PTL

\* What an output combines was counted under one context.
THEOREM OutputIsOfOneContext == ASSUME ~MayReturn PROVE Spec => []NeverMixed
<1>1. ASSUME Inv PROVE NeverMixed
  BY <1>1, FieldsOfStat DEF Inv, Shown, NeverMixed
<1> QED
  BY <1>1, Invariance, PTL

-----------------------------------------------------------------------------
(* Retention.  The newest of a set.                                        *)

\* The newest of a set: what every choice of them is.
LEMMA NewestIs ==
  ASSUME NEW S, NEW rank, NEW limit \in Nat, IsFiniteSet(S), NEW K \in Newest(S, rank, limit)
  PROVE  /\ K \subseteq S /\ IsFiniteSet(K)
         /\ Cardinality(S) \in Nat /\ Cardinality(K) \in Nat
         /\ Cardinality(K) = IF Cardinality(S) <= limit THEN Cardinality(S) ELSE limit
         /\ Cardinality(K) <= Cardinality(S)
         /\ Cardinality(S) <= limit => K = S
         /\ \A k \in K, s \in S \ K : rank[k] >= rank[s]
<1>1. /\ K \subseteq S
      /\ Cardinality(K) = IF Cardinality(S) <= limit THEN Cardinality(S) ELSE limit
      /\ \A k \in K, s \in S \ K : rank[k] >= rank[s]
  BY DEF Newest, kSubset
<1>2. IsFiniteSet(K) /\ (Cardinality(S) = Cardinality(K) => S = K)
  BY <1>1, FS_Subset
<1>3. Cardinality(S) \in Nat /\ Cardinality(K) \in Nat
  BY <1>2, FS_CardinalityType
<1> QED
  BY <1>1, <1>2, <1>3

\* A nonempty set has a member of the least rank.
LEMMA LeastRank ==
  ASSUME NEW S, S # {}, NEW rank, \A s \in S : rank[s] \in Nat
  PROVE  \E x \in S : \A s \in S : rank[x] <= rank[s]
<1> DEFINE ranks == {rank[s] : s \in S}
<1>1. PICK n \in ranks : \A m \in ranks : ~(<<m, n>> \in OpToRel(<, Nat))
  <2>1. ranks \in SUBSET Nat /\ ranks # {}
    OBVIOUS
  <2> HIDE DEF ranks
  <2> QED
    BY <2>1, NatLessThanWellFounded, WFMin, Zenon
<1>2. PICK x \in S : n = rank[x]
  OBVIOUS
<1>3. ASSUME NEW s \in S PROVE rank[x] <= rank[s]
  <2>1. ~(<<rank[s], n>> \in OpToRel(<, Nat))
    BY <1>1
  <2>2. ~(rank[s] < n)
    BY <2>1, <1>2 DEF OpToRel
  <2> QED
    BY <2>2, <1>2
<1> QED
  BY <1>3

\* There always is such a choice: give up the oldest, one after the other.
LEMMA NewestExist ==
  ASSUME NEW S, IsFiniteSet(S), NEW rank, \A s \in S : rank[s] \in Nat, NEW limit \in Nat
  PROVE  Newest(S, rank, limit) # {}
<1> DEFINE Top(K) == K \subseteq S /\ \A k \in K, s \in S \ K : rank[k] >= rank[s]
           size == IF Cardinality(S) <= limit THEN Cardinality(S) ELSE limit
           left == {K \in SUBSET S : Top(K) /\ Cardinality(K) >= size}
           many == [K \in left |-> Cardinality(K)]
<1>1. Cardinality(S) \in Nat /\ size \in Nat /\ size <= Cardinality(S)
  BY FS_CardinalityType
<1>2. \A K \in SUBSET S : IsFiniteSet(K) /\ Cardinality(K) \in Nat
  BY FS_Subset, FS_CardinalityType
<1>3. S \in left
  BY <1>1
<1>4. PICK K \in left : \A L \in left : many[K] <= many[L]
  <2>1. \A L \in left : many[L] \in Nat
    BY <1>2
  <2> HIDE DEF many, left
  <2> QED
    BY <2>1, <1>3, LeastRank
<1>5. \A L \in left : Cardinality(K) <= Cardinality(L)
  BY <1>4
<1>6. K \in SUBSET S /\ Top(K) /\ Cardinality(K) >= size /\ IsFiniteSet(K) /\ Cardinality(K) \in Nat
  BY <1>2
<1>7. ASSUME Cardinality(K) > size PROVE FALSE
  <2>1. K # {}
    <3> HIDE DEF size
    <3> QED
      BY <1>1, <1>6, <1>7, FS_EmptySet
  <2>2. PICK x \in K : \A k \in K : rank[x] <= rank[k]
    BY <2>1, <1>6, LeastRank
  <2> DEFINE L == K \ {x}
  <2>3. Cardinality(L) = Cardinality(K) - 1
    BY <1>6, FS_RemoveElement
  <2>4. Top(L)
    <3> SUFFICES ASSUME NEW k \in L, NEW s \in S \ L PROVE rank[k] >= rank[s]
      BY <1>6
    <3>1. CASE s = x
      BY <3>1, <2>2, <1>6
    <3>2. CASE s # x
      BY <3>2, <1>6
    <3> QED
      BY <3>1, <3>2
  <2>5. L \in left
    <3> HIDE DEF size
    <3>1. Cardinality(L) >= size
      BY <2>3, <1>7, <1>6, <1>1
    <3>2. L \in SUBSET S
      BY <1>6
    <3> HIDE DEF L, Top
    <3> QED
      BY <3>1, <3>2, <2>4
  <2> HIDE DEF left
  <2> QED
    BY <2>5, <1>5, <2>3, <1>6
<1>8. Cardinality(K) = size
  <2> HIDE DEF size
  <2> QED
    BY <1>6, <1>7, <1>1
<1>9. K \in Newest(S, rank, limit)
  BY <1>6, <1>8 DEF Newest, kSubset
<1> QED
  BY <1>9

\* What was used last is kept unless more than the limit was: if u is not kept,
\* limit others are, and all of them rank as high as u.
LEMMA UsedIsKept ==
  ASSUME NEW S, IsFiniteSet(S), NEW rank, NEW limit \in Nat, NEW K \in Newest(S, rank, limit),
         NEW used, IsFiniteSet(used), Cardinality(used) <= limit,
         NEW u \in S \cap used, \A s \in S : rank[s] >= rank[u] => s \in used
  PROVE  u \in K
<1> SUFFICES ASSUME u \notin K PROVE FALSE
  OBVIOUS
<1>1. /\ K \subseteq S /\ IsFiniteSet(K) /\ Cardinality(S) \in Nat
      /\ Cardinality(K) = IF Cardinality(S) <= limit THEN Cardinality(S) ELSE limit
      /\ Cardinality(S) <= limit => K = S
      /\ \A k \in K, s \in S \ K : rank[k] >= rank[s]
  BY NewestIs
<1>2. Cardinality(K) = limit
  BY <1>1
<1>3. K \cup {u} \subseteq used
  BY <1>1
<1>4. Cardinality(K \cup {u}) = limit + 1
  BY <1>1, <1>2, FS_AddElement
<1>5. Cardinality(K \cup {u}) <= Cardinality(used)
  BY <1>3, FS_Subset
<1>6. Cardinality(used) \in Nat
  BY FS_CardinalityType
<1> QED
  BY <1>4, <1>5, <1>6

-----------------------------------------------------------------------------
(* Facts that are typed and finite.                                        *)

TidyValue(v, clock) ==
    DOMAIN v = {"stat", "fingerprint", "used"} /\ v.stat \in Stat /\ v.used \in 1 .. clock
TidyScope(scope, clock) ==
    /\ DOMAIN scope = {"used", "values"}
    /\ scope.used \in 1 .. clock
    /\ IsFiniteSet(DOMAIN scope.values)
    /\ \A t \in DOMAIN scope.values : TidyValue(scope.values[t], clock)
TidyScopes(scopes, clock) ==
    /\ IsFiniteSet(DOMAIN scopes)
    /\ DOMAIN scopes \subseteq Executables
    /\ \A s \in DOMAIN scopes : TidyScope(scopes[s], clock)
TidyTables(f) ==
    /\ IsFiniteSet(f.bases) /\ IsFiniteSet(f.distances)
    /\ IsFiniteSet(f.metadata) /\ f.metadata \subseteq Commits
    /\ \A k \in DOMAIN f.recency : f.recency[k] \in 1 .. f.clock
TidyDiff(diff) ==
    /\ DOMAIN diff = DOMAIN NoDiff
    /\ IsFiniteSet(diff.trees) /\ diff.trees \subseteq Commits
    /\ diff.clock \in Nat
    /\ TidyScopes(diff.scopes, diff.clock)
Tidy(f) ==
    /\ DOMAIN f = DOMAIN NoFacts
    /\ f.clock \in Nat
    /\ TidyTables(f)
    /\ TidyDiff(f.diff)

\* Nothing is tidy.
LEMMA NoDiffTidy == TidyDiff(NoDiff)
<1>1. DOMAIN NoDiff.scopes = {} /\ NoDiff.trees = {} /\ NoDiff.clock = 0
  BY DEF NoDiff
<1> QED
  BY <1>1, FS_EmptySet DEF TidyDiff, TidyScopes

LEMMA NoFactsTidy == Tidy(NoFacts)
<1>1. /\ NoFacts.bases = {} /\ NoFacts.distances = {} /\ NoFacts.metadata = {}
      /\ NoFacts.diff = NoDiff /\ DOMAIN NoFacts.recency = {} /\ NoFacts.clock = 0
  BY DEF NoFacts
<1> QED
  BY <1>1, FS_EmptySet, NoDiffTidy DEF Tidy, TidyTables

\* Tidy facts have their types, and what was stored at first is tidy.
LEMMA TidyIsTyped == ASSUME NEW f, Tidy(f) PROVE TypedFacts(f)
<1>1. \A e \in Entries(f.diff.scopes) :
         ValueAt(f.diff.scopes, e).stat \in Stat
           /\ ValueAt(f.diff.scopes, e).used \in 1 .. f.diff.clock
  BY EntryIs DEF Tidy, TidyDiff, TidyScopes, TidyScope, TidyValue
<1> QED
  BY <1>1 DEF TypedFacts, Tidy, TidyTables, TidyDiff, TidyScopes, TidyScope, Scopes

LEMMA StoredTidy == \A f \in StoredFacts : f # Miss => Tidy(f)
<1> SUFFICES ASSUME NEW f \in StoredFacts, f # Miss PROVE Tidy(f)
  OBVIOUS
<1>1. /\ DOMAIN f = DOMAIN NoFacts /\ DOMAIN f.diff = DOMAIN NoDiff
      /\ \A s \in Scopes(f) : DOMAIN f.diff.scopes[s] = {"used", "values"}
      /\ \A e \in Entries(f.diff.scopes) :
            DOMAIN ValueAt(f.diff.scopes, e) = {"stat", "fingerprint", "used"}
      /\ TypedFacts(f) /\ FiniteFacts(f)
  BY StoredAssumption
<1>2. ASSUME NEW s \in DOMAIN f.diff.scopes PROVE TidyScope(f.diff.scopes[s], f.diff.clock)
  <2>1. ASSUME NEW t \in DOMAIN f.diff.scopes[s].values
        PROVE  TidyValue(f.diff.scopes[s].values[t], f.diff.clock)
    <3>1. /\ <<s, t>> \in Entries(f.diff.scopes)
          /\ ValueAt(f.diff.scopes, <<s, t>>) = f.diff.scopes[s].values[t]
      BY EntryIs
    <3> QED
      BY <1>1, <3>1 DEF TypedFacts, TidyValue
  <2> QED
    BY <1>1, <2>1 DEF TidyScope, TypedFacts, FiniteFacts, Scopes
<1>3. TidyScopes(f.diff.scopes, f.diff.clock)
  BY <1>1, <1>2 DEF TidyScopes, TypedFacts, FiniteFacts, Scopes
<1>4. TidyDiff(f.diff)
  BY <1>1, <1>3 DEF TidyDiff, TypedFacts, FiniteFacts
<1> QED
  BY <1>1, <1>4 DEF Tidy, TidyTables, TypedFacts, FiniteFacts

LEMMA TidyScopesShaped ==
  ASSUME NEW scopes, NEW clock, TidyScopes(scopes, clock) PROVE ScopesShaped(scopes)
BY DEF TidyScopes, TidyScope, ScopesShaped

\* Giving up scopes and values leaves tidy ones.
LEMMA TidyWithin ==
  ASSUME NEW old, NEW clock, TidyScopes(old, clock), NEW new, Within(new, old)
  PROVE  TidyScopes(new, clock)
<1>1. DOMAIN new \subseteq DOMAIN old
  BY DEF Within
<1>2. IsFiniteSet(DOMAIN new) /\ DOMAIN new \subseteq Executables
  BY <1>1, FS_Subset DEF TidyScopes
<1>3. ASSUME NEW s \in DOMAIN new PROVE TidyScope(new[s], clock)
  <2>1. /\ s \in DOMAIN old /\ DOMAIN new[s] = DOMAIN old[s] /\ new[s].used = old[s].used
        /\ \A t \in DOMAIN new[s].values :
              t \in DOMAIN old[s].values /\ new[s].values[t] = old[s].values[t]
        /\ TidyScope(old[s], clock)
    BY DEF Within, TidyScopes
  <2>2. DOMAIN new[s].values \subseteq DOMAIN old[s].values /\ IsFiniteSet(DOMAIN old[s].values)
    BY <2>1 DEF TidyScope
  <2>3. IsFiniteSet(DOMAIN new[s].values)
    BY <2>2, FS_Subset
  <2> QED
    BY <2>1, <2>3 DEF TidyScope
<1> QED
  BY <1>2, <1>3 DEF TidyScopes

\* The statistics of finite tables are finitely many.
LEMMA EntriesFinite ==
  ASSUME NEW scopes, NEW clock, TidyScopes(scopes, clock)
  PROVE  IsFiniteSet(Entries(scopes)) /\ Cardinality(Entries(scopes)) \in Nat
<1> DEFINE pairs == UNION {DOMAIN scopes[s].values : s \in DOMAIN scopes}
           tables == [s \in DOMAIN scopes |-> DOMAIN scopes[s].values]
           images == {tables[s] : s \in DOMAIN scopes}
<1>1. IsFiniteSet(images)
  <2>1. tables \in Surjection(DOMAIN scopes, images)
    BY DEF Surjection
  <2> HIDE DEF tables, images
  <2> QED
    BY <2>1, FS_Surjection DEF TidyScopes
<1>2. \A T \in images : IsFiniteSet(T)
  BY DEF TidyScopes, TidyScope
<1>3. pairs = UNION images
  OBVIOUS
<1>4. IsFiniteSet(pairs)
  <2> HIDE DEF images, pairs
  <2> QED
    BY <1>1, <1>2, <1>3, FS_UNION
<1>5. IsFiniteSet((DOMAIN scopes) \X pairs)
  <2> HIDE DEF pairs
  <2> QED
    BY <1>4, FS_Product DEF TidyScopes
<1>6. Entries(scopes) \subseteq (DOMAIN scopes) \X pairs
  BY DEF Entries
<1> HIDE DEF pairs
<1>7. IsFiniteSet(Entries(scopes))
  BY <1>5, <1>6, FS_Subset
<1> QED
  BY <1>7, FS_CardinalityType

\* Fewer entries.
LEMMA EntriesWithin ==
  ASSUME NEW new, NEW old, Within(new, old)
  PROVE  Entries(new) \subseteq Entries(old)
<1> SUFFICES ASSUME NEW e \in Entries(new) PROVE e \in Entries(old)
  OBVIOUS
<1>1. /\ e = <<e[1], e[2]>> /\ e[1] \in DOMAIN new /\ e[2] \in DOMAIN new[e[1]].values
  BY EntryIs
<1>2. e[1] \in DOMAIN old /\ e[2] \in DOMAIN old[e[1]].values
  BY <1>1 DEF Within
<1> QED
  BY <1>1, <1>2, EntryIs

-----------------------------------------------------------------------------
(* What compaction makes of them.                                          *)

NoEmptyScope(f) == \A s \in Scopes(f) : DOMAIN f.diff.scopes[s].values # {}

\* The ranks of keys are numbers.
LEMMA LastTouchIs ==
  ASSUME NEW f, Tidy(f), NEW S
  PROVE  \A k \in S : LastTouch(f, S)[k] \in Nat
BY DEF LastTouch, Tidy, TidyTables

\* What compaction leaves of every table.
LEMMA CompactedIs ==
  ASSUME NEW f, Tidy(f), NEW limit, NEW g \in Compacted(f, limit)
  PROVE  /\ DOMAIN g = DOMAIN f /\ DOMAIN g.diff = DOMAIN f.diff
         /\ g.bases \in Newest(f.bases, LastTouch(f, f.bases), limit)
         /\ g.distances \in Newest(f.distances, LastTouch(f, f.distances), limit)
         /\ g.metadata \in Newest(f.metadata, LastTouch(f, f.metadata), limit)
         /\ g.diff.trees \in Newest(f.diff.trees, LastTouch(f, f.diff.trees), limit)
         /\ g.diff.scopes \in CompactScopes(f.diff.scopes, limit)
         /\ g.clock = f.clock /\ g.diff.clock = f.diff.clock
         /\ DOMAIN g.recency \subseteq DOMAIN f.recency
         /\ \A k \in DOMAIN g.recency : g.recency[k] = f.recency[k]
<1>1. PICK b \in Newest(f.bases, LastTouch(f, f.bases), limit),
           d \in Newest(f.distances, LastTouch(f, f.distances), limit),
           m \in Newest(f.metadata, LastTouch(f, f.metadata), limit),
           t \in Newest(f.diff.trees, LastTouch(f, f.diff.trees), limit),
           s \in CompactScopes(f.diff.scopes, limit) : g = Shrunk(f, b, d, m, t, s)
  BY DEF Compacted
<1>2. DOMAIN f = DOMAIN NoFacts /\ DOMAIN f.diff = DOMAIN NoDiff
  BY DEF Tidy, TidyDiff
<1>3. /\ DOMAIN g = DOMAIN f
      /\ g.bases = b /\ g.distances = d /\ g.metadata = m /\ g.clock = f.clock
      /\ g.diff = [f.diff EXCEPT !.trees = t, !.scopes = s]
      /\ g.recency = Restrict(f.recency, DOMAIN f.recency \cap (b \cup d \cup m \cup t))
  BY <1>1, <1>2 DEF Shrunk, NoFacts
<1>4. /\ DOMAIN g.diff = DOMAIN f.diff
      /\ g.diff.trees = t /\ g.diff.scopes = s /\ g.diff.clock = f.diff.clock
  BY <1>2, <1>3 DEF NoDiff
<1>5. /\ DOMAIN g.recency \subseteq DOMAIN f.recency
      /\ \A k \in DOMAIN g.recency : g.recency[k] = f.recency[k]
  BY <1>3 DEF Restrict
<1> QED
  BY <1>1, <1>3, <1>4, <1>5

\* Compaction keeps facts tidy, leaves no scope without values and nothing grows.
LEMMA CompactedTidy ==
  ASSUME NEW f, Tidy(f), NEW limit \in Nat, NEW g \in Compacted(f, limit)
  PROVE  /\ Tidy(g) /\ NoEmptyScope(g)
         /\ Cardinality(g.bases) <= Cardinality(f.bases)
         /\ Cardinality(g.distances) <= Cardinality(f.distances)
         /\ Cardinality(g.metadata) <= Cardinality(f.metadata)
         /\ Cardinality(g.bases) <= limit /\ Cardinality(g.distances) <= limit
         /\ Cardinality(g.diff.trees) <= Cardinality(f.diff.trees)
         /\ Entries(g.diff.scopes) \subseteq Entries(f.diff.scopes)
<1> USE CompactedIs
<1>1. /\ IsFiniteSet(f.bases) /\ IsFiniteSet(f.distances) /\ IsFiniteSet(f.metadata)
      /\ IsFiniteSet(f.diff.trees)
  BY DEF Tidy, TidyTables, TidyDiff
<1>2. /\ IsFiniteSet(g.bases) /\ Cardinality(g.bases) <= Cardinality(f.bases)
      /\ Cardinality(g.bases) <= limit
  BY <1>1, NewestIs
<1>3. /\ IsFiniteSet(g.distances) /\ Cardinality(g.distances) <= Cardinality(f.distances)
      /\ Cardinality(g.distances) <= limit
  BY <1>1, NewestIs
<1>4. /\ IsFiniteSet(g.metadata) /\ Cardinality(g.metadata) <= Cardinality(f.metadata)
      /\ g.metadata \subseteq Commits
  BY <1>1, NewestIs DEF Tidy, TidyTables
<1>5. /\ IsFiniteSet(g.diff.trees) /\ Cardinality(g.diff.trees) <= Cardinality(f.diff.trees)
      /\ g.diff.trees \subseteq Commits
  BY <1>1, NewestIs DEF Tidy, TidyDiff
<1>6. /\ Within(g.diff.scopes, f.diff.scopes)
      /\ \A s \in DOMAIN g.diff.scopes : DOMAIN g.diff.scopes[s].values # {}
  BY CompactIs, TidyScopesShaped DEF Tidy, TidyDiff
<1>7. TidyTables(g)
  BY <1>2, <1>3, <1>4 DEF Tidy, TidyTables
<1>8. TidyDiff(g.diff)
  BY <1>5, <1>6, TidyWithin DEF Tidy, TidyDiff
<1> QED
  BY <1>2, <1>3, <1>4, <1>5, <1>6, <1>7, <1>8, EntriesWithin DEF Tidy, NoEmptyScope, Scopes

\* Compaction always has a result.
LEMMA CompactExists ==
  ASSUME NEW scopes, NEW clock, TidyScopes(scopes, clock), NEW limit \in Nat
  PROVE  CompactScopes(scopes, limit) # {}
<1>1. PICK kept : kept \in Newest(DOMAIN scopes, Uses(scopes), ScopeLimit)
  <2>1. \A s \in DOMAIN scopes : Uses(scopes)[s] \in Nat
    BY DEF Uses, TidyScopes, TidyScope
  <2> QED
    BY <2>1, NewestExist, LimitAssumption DEF TidyScopes
<1> DEFINE recent == Restrict(scopes, kept)
<1>2. kept \subseteq DOMAIN scopes
  BY <1>1, NewestSubset
<1>3. Within(recent, scopes)
  BY <1>2 DEF Within, Restrict
<1>4. TidyScopes(recent, clock)
  <2> HIDE DEF recent
  <2> QED
    BY <1>3, TidyWithin
<1>5. PICK entries : entries \in Newest(Entries(recent), Ages(recent), limit)
  <2> HIDE DEF recent
  <2>1. \A e \in Entries(recent) : Ages(recent)[e] \in Nat
    BY <1>4, EntryIs DEF Ages, TidyScopes, TidyScope, TidyValue
  <2> QED
    BY <2>1, <1>4, EntriesFinite, NewestExist
<1> DEFINE new == [s \in {e[1] : e \in entries} |->
                      [recent[s] EXCEPT !.values =
                          Restrict(@, {p \in DOMAIN @ : <<s, p>> \in entries})]]
           Outcomes(k) ==
             {[s \in {e[1] : e \in es} |->
                  [Restrict(scopes, k)[s] EXCEPT !.values =
                      Restrict(@, {p \in DOMAIN @ : <<s, p>> \in es})]] :
                es \in Newest(Entries(Restrict(scopes, k)), Ages(Restrict(scopes, k)), limit)}
<1>6. CompactScopes(scopes, limit) =
        UNION {Outcomes(k) : k \in Newest(DOMAIN scopes, Uses(scopes), ScopeLimit)}
  BY DEF CompactScopes, Uses, Ages
<1>7. new \in Outcomes(kept)
  BY <1>5
<1> DEFINE choices == Newest(DOMAIN scopes, Uses(scopes), ScopeLimit)
<1> HIDE DEF new, Outcomes, recent, choices
<1>8. kept \in choices
  BY <1>1 DEF choices
<1>9. CompactScopes(scopes, limit) = UNION {Outcomes(k) : k \in choices}
  BY <1>6 DEF choices
<1>10. new \in CompactScopes(scopes, limit)
  BY <1>7, <1>8, <1>9
<1> QED
  BY <1>10

LEMMA CompactedExists ==
  ASSUME NEW f, Tidy(f), NEW limit \in Nat
  PROVE  Compacted(f, limit) # {}
<1>1. ASSUME NEW S, IsFiniteSet(S) PROVE Newest(S, LastTouch(f, S), limit) # {}
  BY <1>1, LastTouchIs, NewestExist
<1>2. /\ Newest(f.bases, LastTouch(f, f.bases), limit) # {}
      /\ Newest(f.distances, LastTouch(f, f.distances), limit) # {}
      /\ Newest(f.metadata, LastTouch(f, f.metadata), limit) # {}
      /\ Newest(f.diff.trees, LastTouch(f, f.diff.trees), limit) # {}
  BY <1>1 DEF Tidy, TidyTables, TidyDiff
<1>3. CompactScopes(f.diff.scopes, limit) # {}
  BY CompactExists DEF Tidy, TidyDiff
<1>4. PICK b \in Newest(f.bases, LastTouch(f, f.bases), limit),
           d \in Newest(f.distances, LastTouch(f, f.distances), limit),
           m \in Newest(f.metadata, LastTouch(f, f.metadata), limit),
           t \in Newest(f.diff.trees, LastTouch(f, f.diff.trees), limit),
           s \in CompactScopes(f.diff.scopes, limit) : TRUE
  BY <1>2, <1>3
<1>5. Shrunk(f, b, d, m, t, s) \in Compacted(f, limit)
  BY DEF Compacted
<1> QED
  BY <1>5

\* The tables of tidy facts have sizes.
LEMMA TidySizes ==
  ASSUME NEW f, Tidy(f)
  PROVE  /\ Cardinality(f.bases) \in Nat /\ Cardinality(f.distances) \in Nat
         /\ Cardinality(f.metadata) \in Nat /\ Cardinality(f.diff.trees) \in Nat
         /\ Cardinality(Entries(f.diff.scopes)) \in Nat
         /\ IsFiniteSet(Entries(f.diff.scopes))
BY FS_CardinalityType, EntriesFinite DEF Tidy, TidyTables, TidyDiff

-----------------------------------------------------------------------------
(* The rounds of fit.                                                      *)

\* A round that drops statistics.
LEMMA DropTidy ==
  ASSUME NEW f, Tidy(f), NoEmptyScope(f), NEW g \in DropDiff(f)
  PROVE  /\ Tidy(g) /\ NoEmptyScope(g)
         /\ g.bases = f.bases /\ g.distances = f.distances /\ g.metadata = f.metadata
         /\ HasDiff(f) =>
               Cardinality(g.diff.trees) + Cardinality(Entries(g.diff.scopes))
                  < Cardinality(f.diff.trees) + Cardinality(Entries(f.diff.scopes))
<1> DEFINE scopes == f.diff.scopes
<1>1. DOMAIN f = DOMAIN NoFacts /\ DOMAIN f.diff = DOMAIN NoDiff
  BY DEF Tidy, TidyDiff
<1>2. TidyScopes(scopes, f.diff.clock) /\ IsFiniteSet(DOMAIN scopes) /\ Cardinality(DOMAIN scopes) \in Nat
  BY FS_CardinalityType DEF Tidy, TidyDiff, TidyScopes
<1>3. CASE Cardinality(DOMAIN scopes) > 1
  <2>1. PICK kept \in Newest(DOMAIN scopes, [s \in DOMAIN scopes |-> scopes[s].used],
                             Cardinality(DOMAIN scopes) - 1) :
          g = [f EXCEPT !.diff.scopes = Restrict(@, kept)]
    BY <1>3 DEF DropDiff
  <2>2. Cardinality(DOMAIN scopes) - 1 \in Nat
    BY <1>2, <1>3
  <2>3. kept \subseteq DOMAIN scopes /\ Cardinality(kept) < Cardinality(DOMAIN scopes)
    BY <1>2, <2>1, <2>2, NewestIs
  <2>4. /\ DOMAIN g = DOMAIN f /\ DOMAIN g.diff = DOMAIN f.diff
        /\ g.diff.scopes = Restrict(scopes, kept)
        /\ g.diff.trees = f.diff.trees /\ g.diff.clock = f.diff.clock
        /\ g.bases = f.bases /\ g.distances = f.distances /\ g.metadata = f.metadata
        /\ g.recency = f.recency /\ g.clock = f.clock
    BY <1>1, <2>1 DEF NoFacts, NoDiff
  <2>5. Within(g.diff.scopes, scopes)
    BY <2>3, <2>4 DEF Within, Restrict
  <2>6. TidyScopes(g.diff.scopes, g.diff.clock)
    BY <1>2, <2>4, <2>5, TidyWithin
  <2>7. Tidy(g)
    BY <2>4, <2>6 DEF Tidy, TidyTables, TidyDiff
  <2>8. NoEmptyScope(g)
    BY <2>3, <2>4 DEF NoEmptyScope, Scopes, Restrict
  <2>9. PICK s \in DOMAIN scopes : s \notin kept
    <3>1. ~(Cardinality(DOMAIN scopes) < Cardinality(DOMAIN scopes))
      BY <1>2
    <3>2. kept # DOMAIN scopes
      BY <2>3, <3>1
    <3> QED
      BY <2>3, <3>2
  <2>10. PICK t \in DOMAIN scopes[s].values : TRUE
    BY <2>9 DEF NoEmptyScope, Scopes
  <2>11. <<s, t>> \in Entries(scopes) /\ <<s, t>> \notin Entries(g.diff.scopes)
    <3>1. DOMAIN g.diff.scopes = kept
      BY <2>4 DEF Restrict
    <3> QED
      BY <2>9, <3>1, EntryIs DEF Entries
  <2>12. Entries(g.diff.scopes) \subseteq Entries(scopes) /\ Entries(g.diff.scopes) # Entries(scopes)
    BY <2>5, <2>11, EntriesWithin
  <2>13. Cardinality(Entries(g.diff.scopes)) < Cardinality(Entries(scopes))
    <3>1. /\ Cardinality(Entries(g.diff.scopes)) <= Cardinality(Entries(scopes))
          /\ Cardinality(Entries(g.diff.scopes)) # Cardinality(Entries(scopes))
      BY <2>12, TidySizes, FS_Subset
    <3>2. Cardinality(Entries(g.diff.scopes)) \in Nat /\ Cardinality(Entries(scopes)) \in Nat
      BY <2>7, TidySizes
    <3> QED
      BY <3>1, <3>2
  <2>14. Cardinality(g.diff.trees) + Cardinality(Entries(g.diff.scopes))
           < Cardinality(f.diff.trees) + Cardinality(Entries(f.diff.scopes))
    BY <2>4, <2>7, <2>13, TidySizes
  <2> QED
    BY <2>4, <2>7, <2>8, <2>14
<1>4. CASE ~(Cardinality(DOMAIN scopes) > 1)
  <2>1. g = [f EXCEPT !.diff = NoDiff]
    BY <1>4 DEF DropDiff
  <2>2. /\ DOMAIN g = DOMAIN f /\ g.diff = NoDiff
        /\ g.bases = f.bases /\ g.distances = f.distances /\ g.metadata = f.metadata
        /\ g.recency = f.recency /\ g.clock = f.clock
    BY <1>1, <2>1 DEF NoFacts
  <2>3. Tidy(g)
    BY <2>2, NoDiffTidy DEF Tidy, TidyTables
  <2>4. g.diff.trees = {} /\ DOMAIN g.diff.scopes = {}
    BY <2>2 DEF NoDiff
  <2>5. NoEmptyScope(g) /\ Entries(g.diff.scopes) = {}
    BY <2>4 DEF NoEmptyScope, Scopes, Entries
  <2>6. Cardinality(g.diff.trees) = 0 /\ Cardinality(Entries(g.diff.scopes)) = 0
    BY <2>4, <2>5, FS_EmptySet
  <2>7. ASSUME HasDiff(f)
        PROVE  0 < Cardinality(f.diff.trees) + Cardinality(Entries(f.diff.scopes))
    <3>1. CASE f.diff.trees # {}
      <4>1. Cardinality(f.diff.trees) # 0
        BY <3>1, FS_EmptySet DEF Tidy, TidyDiff
      <4> QED
        BY <4>1, TidySizes
    <3>2. CASE DOMAIN scopes # {}
      <4>1. PICK s \in DOMAIN scopes : TRUE
        BY <3>2
      <4>2. PICK t \in DOMAIN scopes[s].values : TRUE
        BY <4>1 DEF NoEmptyScope, Scopes
      <4>3. Entries(scopes) # {}
        BY <4>1, <4>2, EntryIs
      <4>4. Cardinality(Entries(scopes)) # 0
        BY <4>3, TidySizes, FS_EmptySet
      <4> QED
        BY <4>4, TidySizes
    <3> QED
      BY <2>7, <3>1, <3>2 DEF HasDiff
  <2> QED
    BY <2>2, <2>3, <2>5, <2>6, <2>7
<1> QED
  BY <1>3, <1>4

LEMMA DropExists ==
  ASSUME NEW f, Tidy(f)
  PROVE  DropDiff(f) # {}
<1> DEFINE scopes == f.diff.scopes
           ranks == [s \in DOMAIN scopes |-> scopes[s].used]
<1>1. TidyScopes(scopes, f.diff.clock) /\ IsFiniteSet(DOMAIN scopes) /\ Cardinality(DOMAIN scopes) \in Nat
  BY FS_CardinalityType DEF Tidy, TidyDiff, TidyScopes
<1>2. CASE Cardinality(DOMAIN scopes) > 1
  <2>1. \A s \in DOMAIN scopes : ranks[s] \in Nat
    BY <1>1 DEF TidyScopes, TidyScope
  <2>2. PICK kept : kept \in Newest(DOMAIN scopes, ranks, Cardinality(DOMAIN scopes) - 1)
    <3>1. Cardinality(DOMAIN scopes) - 1 \in Nat
      BY <1>1, <1>2
    <3> HIDE DEF ranks
    <3> QED
      BY <1>1, <2>1, <3>1, NewestExist
  <2>3. [f EXCEPT !.diff.scopes = Restrict(@, kept)] \in DropDiff(f)
    BY <1>2, <2>2 DEF DropDiff
  <2> QED
    BY <2>3
<1>3. CASE ~(Cardinality(DOMAIN scopes) > 1)
  BY <1>3 DEF DropDiff
<1> QED
  BY <1>2, <1>3

\* A round that halves the commit records.
LEMMA HalveMetadataTidy ==
  ASSUME NEW f, Tidy(f), NEW g \in HalveMetadata(f)
  PROVE  /\ Tidy(g) /\ NoEmptyScope(g)
         /\ f.metadata # {} => Answered(g) < Answered(f)
<1> DEFINE half == Cardinality(f.metadata) \div 2
<1>1. PICK m \in Newest(f.metadata, LastTouch(f, f.metadata), half) :
        g \in Compacted([f EXCEPT !.metadata = m], Limit)
  BY DEF HalveMetadata
<1> DEFINE h == [f EXCEPT !.metadata = m]
<1>2. DOMAIN f = DOMAIN NoFacts /\ IsFiniteSet(f.metadata) /\ Cardinality(f.metadata) \in Nat
  BY TidySizes DEF Tidy, TidyTables
<1>3. half \in Nat /\ half <= Cardinality(f.metadata)
      /\ (Cardinality(f.metadata) # 0 => half < Cardinality(f.metadata))
  BY <1>2
<1> HIDE DEF half
<1>4. m \subseteq f.metadata /\ IsFiniteSet(m) /\ Cardinality(m) = half
  BY <1>2, <1>3, NewestIs
<1>5. /\ DOMAIN h = DOMAIN f /\ h.metadata = m
      /\ h.bases = f.bases /\ h.distances = f.distances /\ h.diff = f.diff
      /\ h.recency = f.recency /\ h.clock = f.clock
  BY <1>2 DEF NoFacts
<1>6. g \in Compacted(h, Limit)
  BY <1>1
<1> HIDE DEF h
<1>7. Tidy(h)
  BY <1>4, <1>5 DEF Tidy, TidyTables
<1>8. /\ Tidy(g) /\ NoEmptyScope(g)
      /\ Cardinality(g.bases) <= Cardinality(f.bases)
      /\ Cardinality(g.distances) <= Cardinality(f.distances)
      /\ Cardinality(g.metadata) <= half
      /\ Cardinality(g.diff.trees) <= Cardinality(f.diff.trees)
      /\ Entries(g.diff.scopes) \subseteq Entries(f.diff.scopes)
  BY <1>4, <1>5, <1>6, <1>7, CompactedTidy, LimitAssumption
<1>9. Cardinality(Entries(g.diff.scopes)) <= Cardinality(Entries(f.diff.scopes))
  BY <1>8, TidySizes, FS_Subset
<1>10. ASSUME f.metadata # {} PROVE Answered(g) < Answered(f)
  <2>1. Cardinality(f.metadata) # 0
    BY <1>2, <1>10, FS_EmptySet
  <2>2. Cardinality(g.metadata) < Cardinality(f.metadata)
    <3>1. Cardinality(g.metadata) \in Nat
      BY <1>8, TidySizes
    <3> QED
      BY <1>2, <1>3, <1>8, <2>1, <3>1
  <2> QED
    BY <1>8, <1>9, <2>2, TidySizes DEF Answered
<1> QED
  BY <1>8, <1>10

LEMMA HalveMetadataExists ==
  ASSUME NEW f, Tidy(f)
  PROVE  HalveMetadata(f) # {}
<1> DEFINE half == Cardinality(f.metadata) \div 2
<1>1. DOMAIN f = DOMAIN NoFacts /\ IsFiniteSet(f.metadata) /\ half \in Nat
  BY TidySizes DEF Tidy, TidyTables
<1>2. PICK m : m \in Newest(f.metadata, LastTouch(f, f.metadata), half)
  <2> HIDE DEF half
  <2> QED
    BY <1>1, LastTouchIs, NewestExist
<1>3. m \subseteq f.metadata /\ IsFiniteSet(m)
  <2> HIDE DEF half
  <2> QED
    BY <1>1, <1>2, NewestIs
<1> DEFINE h == [f EXCEPT !.metadata = m]
<1>4. /\ DOMAIN h = DOMAIN f /\ h.metadata = m
      /\ h.bases = f.bases /\ h.distances = f.distances /\ h.diff = f.diff
      /\ h.recency = f.recency /\ h.clock = f.clock
  BY <1>1 DEF NoFacts
<1>5. PICK g : g \in Compacted(h, Limit)
  <2> HIDE DEF h
  <2>1. Tidy(h)
    BY <1>3, <1>4 DEF Tidy, TidyTables
  <2> QED
    BY <2>1, CompactedExists, LimitAssumption
<1>6. g \in HalveMetadata(f)
  BY <1>2, <1>5 DEF HalveMetadata
<1> QED
  BY <1>6

\* The larger of two numbers.
LEMMA LargerIs ==
  ASSUME NEW a \in Nat, NEW b \in Nat
  PROVE  /\ Max({a, b}) \in {a, b} /\ Max({a, b}) >= a /\ Max({a, b}) >= b
<1>1. \E x \in {a, b} : \A y \in {a, b} : x >= y
  <2>1. CASE a >= b
    BY <2>1
  <2>2. CASE b >= a
    BY <2>2
  <2> QED
    BY <2>1, <2>2
<1> QED
  BY <1>1 DEF Max

\* A round that halves merge bases and distances.
LEMMA HalveGraphTidy ==
  ASSUME NEW f, Tidy(f)
  PROVE  /\ HalveGraph(f) # {}
         /\ \A g \in HalveGraph(f) :
               /\ Tidy(g) /\ NoEmptyScope(g)
               /\ HasGraph(f) => Answered(g) < Answered(f)
<1> DEFINE larger == Max({Cardinality(f.bases), Cardinality(f.distances)})
           half == larger \div 2
<1>1. /\ larger \in {Cardinality(f.bases), Cardinality(f.distances)}
      /\ larger >= Cardinality(f.bases) /\ larger >= Cardinality(f.distances)
  BY TidySizes, LargerIs
<1>2. HalveGraph(f) = Compacted(f, half)
  BY DEF HalveGraph
<1> HIDE DEF larger
<1>3. larger \in Nat /\ half \in Nat /\ (larger # 0 => half < larger)
  BY <1>1, TidySizes
<1> HIDE DEF half
<1>4. ASSUME NEW g \in Compacted(f, half), HasGraph(f) PROVE Answered(g) < Answered(f)
  <2>1. Cardinality(f.bases) # 0 \/ Cardinality(f.distances) # 0
    BY <1>4, FS_EmptySet DEF HasGraph, Tidy, TidyTables
  <2>2. larger # 0
    BY <1>1, <2>1, TidySizes
  <2>3. /\ Tidy(g)
        /\ Cardinality(g.bases) <= Cardinality(f.bases)
        /\ Cardinality(g.distances) <= Cardinality(f.distances)
        /\ Cardinality(g.metadata) <= Cardinality(f.metadata)
        /\ Cardinality(g.bases) <= half /\ Cardinality(g.distances) <= half
        /\ Cardinality(g.diff.trees) <= Cardinality(f.diff.trees)
        /\ Entries(g.diff.scopes) \subseteq Entries(f.diff.scopes)
    BY <1>3, CompactedTidy
  <2>4. Cardinality(Entries(g.diff.scopes)) <= Cardinality(Entries(f.diff.scopes))
    BY <2>3, TidySizes, FS_Subset
  <2>5. Cardinality(g.bases) + Cardinality(g.distances)
          < Cardinality(f.bases) + Cardinality(f.distances)
    <3>1. /\ Cardinality(f.bases) \in Nat /\ Cardinality(f.distances) \in Nat
          /\ Cardinality(g.bases) \in Nat /\ Cardinality(g.distances) \in Nat
      BY <2>3, TidySizes
    <3> QED
      BY <1>1, <1>3, <2>2, <2>3, <3>1
  <2>6. /\ Cardinality(f.bases) \in Nat /\ Cardinality(f.distances) \in Nat
        /\ Cardinality(f.metadata) \in Nat /\ Cardinality(f.diff.trees) \in Nat
        /\ Cardinality(Entries(f.diff.scopes)) \in Nat
        /\ Cardinality(g.bases) \in Nat /\ Cardinality(g.distances) \in Nat
        /\ Cardinality(g.metadata) \in Nat /\ Cardinality(g.diff.trees) \in Nat
        /\ Cardinality(Entries(g.diff.scopes)) \in Nat
    BY <2>3, TidySizes
  <2> QED
    BY <2>3, <2>4, <2>5, <2>6 DEF Answered
<1> QED
  BY <1>2, <1>3, <1>4, CompactedTidy, CompactedExists

-----------------------------------------------------------------------------
(* What a command has used, and that compaction keeps it.                  *)

\* What a command has used, by table.
KeysOf(used) == used.bases \cup used.distances \cup used.metadata \cup used.trees

\* The keys it has used are there, and were touched after all others.
Recent(f, used) ==
    /\ used.bases \subseteq f.bases /\ used.distances \subseteq f.distances
    /\ used.metadata \subseteq f.metadata /\ used.trees \subseteq f.diff.trees
    /\ KeysOf(used) \subseteq DOMAIN f.recency
    /\ \A u \in KeysOf(used) : \A k \in DOMAIN f.recency \ KeysOf(used) :
          f.recency[k] < f.recency[u]

\* The statistics it has used are there, and were used after all others, as was
\* their scope.
Current(scopes, entries) ==
    /\ entries \subseteq Entries(scopes)
    /\ \A e \in entries :
          /\ \A x \in Entries(scopes) \ entries : ValueAt(scopes, x).used < ValueAt(scopes, e).used
          /\ \A s \in DOMAIN scopes \ {e[1]} : scopes[s].used < scopes[e[1]].used

\* A table that is compacted keeps what was used.
LEMMA TableKeepsUsed ==
  ASSUME NEW f, Tidy(f), NEW used, Recent(f, used), NEW S, IsFiniteSet(S),
         NEW K \in Newest(S, LastTouch(f, S), Limit),
         IsFiniteSet(KeysOf(used)), Cardinality(KeysOf(used)) <= Limit
  PROVE  S \cap KeysOf(used) \subseteq K
<1> DEFINE rank == LastTouch(f, S)
<1>1. ASSUME NEW u \in S \cap KeysOf(used) PROVE u \in K
  <2>1. u \in DOMAIN f.recency /\ rank[u] = f.recency[u] /\ f.recency[u] \in Nat /\ f.recency[u] > 0
    BY DEF Recent, LastTouch, Tidy, TidyTables
  <2>2. ASSUME NEW s \in S, rank[s] >= rank[u] PROVE s \in KeysOf(used)
    <3>1. CASE s \in DOMAIN f.recency
      <4>1. rank[s] = f.recency[s] /\ f.recency[s] \in Nat
        BY <3>1 DEF LastTouch, Tidy, TidyTables
      <4> QED
        BY <2>1, <2>2, <3>1, <4>1 DEF Recent
    <3>2. CASE s \notin DOMAIN f.recency
      <4>1. rank[s] = 0
        BY <3>2 DEF LastTouch
      <4> QED
        BY <2>1, <2>2, <4>1
    <3> QED
      BY <3>1, <3>2
  <2> HIDE DEF rank
  <2>3. K \in Newest(S, rank, Limit)
    BY DEF rank
  <2> QED
    BY <2>2, <2>3, UsedIsKept, LimitAssumption
<1> QED
  BY <1>1

LEMMA UsedFinite ==
  ASSUME NEW f, Tidy(f), NEW used, Recent(f, used)
  PROVE  IsFiniteSet(KeysOf(used))
<1>1. /\ IsFiniteSet(used.bases) /\ IsFiniteSet(used.distances) /\ IsFiniteSet(used.metadata)
      /\ IsFiniteSet(used.trees)
  BY FS_Subset DEF Recent, Tidy, TidyTables, TidyDiff
<1>2. IsFiniteSet(used.bases \cup used.distances)
  BY <1>1, FS_Union
<1>3. IsFiniteSet((used.bases \cup used.distances) \cup used.metadata)
  BY <1>1, <1>2, FS_Union
<1>4. IsFiniteSet(((used.bases \cup used.distances) \cup used.metadata) \cup used.trees)
  BY <1>1, <1>3, FS_Union
<1> QED
  BY <1>4 DEF KeysOf

\* Compaction keeps the keys that were used, and the statistics.
LEMMA CompactKeepsKeys ==
  ASSUME NEW f, Tidy(f), NEW used, Recent(f, used), Cardinality(KeysOf(used)) <= Limit,
         NEW g \in Compacted(f, Limit)
  PROVE  /\ used.bases \subseteq g.bases /\ used.distances \subseteq g.distances
         /\ used.metadata \subseteq g.metadata /\ used.trees \subseteq g.diff.trees
<1>1. IsFiniteSet(KeysOf(used))
  BY UsedFinite
<1>2. /\ f.bases \cap KeysOf(used) \subseteq g.bases
      /\ f.distances \cap KeysOf(used) \subseteq g.distances
      /\ f.metadata \cap KeysOf(used) \subseteq g.metadata
      /\ f.diff.trees \cap KeysOf(used) \subseteq g.diff.trees
  BY <1>1, TableKeepsUsed, CompactedIs DEF Tidy, TidyTables, TidyDiff
<1> QED
  BY <1>2 DEF Recent, KeysOf

LEMMA CompactKeepsEntries ==
  ASSUME NEW f, Tidy(f), NEW entries, Current(f.diff.scopes, entries), Cardinality(entries) <= Limit,
         NEW g \in Compacted(f, Limit)
  PROVE  entries \subseteq Entries(g.diff.scopes)
<1> DEFINE scopes == f.diff.scopes
           new == g.diff.scopes
<1>1. TidyScopes(scopes, f.diff.clock) /\ new \in CompactScopes(scopes, Limit)
  BY CompactedIs DEF Tidy, TidyDiff
<1>2. PICK kept \in Newest(DOMAIN scopes, Uses(scopes), ScopeLimit) :
        Entries(new) \in Newest(Entries(Restrict(scopes, kept)), Ages(Restrict(scopes, kept)), Limit)
  BY <1>1, CompactIs, TidyScopesShaped
<1> DEFINE recent == Restrict(scopes, kept)
<1>3. /\ kept \subseteq DOMAIN scopes
      /\ Cardinality(kept) =
            IF Cardinality(DOMAIN scopes) <= ScopeLimit THEN Cardinality(DOMAIN scopes) ELSE ScopeLimit
      /\ Cardinality(DOMAIN scopes) \in Nat
      /\ \A k \in kept, s \in DOMAIN scopes \ kept : Uses(scopes)[k] >= Uses(scopes)[s]
  BY <1>1, NewestIs, LimitAssumption DEF TidyScopes
<1>4. DOMAIN recent = kept /\ \A s \in kept : recent[s] = scopes[s]
  BY DEF Restrict
<1>5. Within(recent, scopes)
  BY <1>3, <1>4 DEF Within
<1> HIDE DEF recent
<1>6. TidyScopes(recent, f.diff.clock) /\ Entries(recent) \subseteq Entries(scopes)
  BY <1>1, <1>5, TidyWithin, EntriesWithin
<1>7. IsFiniteSet(Entries(recent)) /\ IsFiniteSet(Entries(scopes))
  BY <1>1, <1>6, EntriesFinite
<1>8. IsFiniteSet(entries)
  BY <1>7, FS_Subset DEF Current
<1>9. ASSUME NEW e \in entries PROVE e \in Entries(new)
  <2>1. /\ e \in Entries(scopes) /\ e = <<e[1], e[2]>> /\ e[1] \in DOMAIN scopes
        /\ e[2] \in DOMAIN scopes[e[1]].values
    BY EntryIs DEF Current
  <2>2. e[1] \in kept
    <3> SUFFICES ASSUME e[1] \notin kept PROVE FALSE
      OBVIOUS
    <3>1. Cardinality(DOMAIN scopes) # 0
      BY <1>1, <2>1, FS_EmptySet DEF TidyScopes
    <3>2. Cardinality(kept) # 0
      BY <1>3, <3>1, LimitAssumption
    <3>3. PICK k \in kept : TRUE
      BY <3>2, FS_EmptySet
    <3>4. Uses(scopes)[k] >= Uses(scopes)[e[1]] /\ k \in DOMAIN scopes /\ k # e[1]
      BY <1>3, <2>1, <3>3
    <3>5. scopes[k].used < scopes[e[1]].used
      BY <3>4 DEF Current
    <3>6. scopes[k].used \in Nat /\ scopes[e[1]].used \in Nat
      BY <1>1, <2>1, <3>4 DEF TidyScopes, TidyScope
    <3> QED
      BY <2>1, <3>4, <3>5, <3>6 DEF Uses
  <2>3. e \in Entries(recent)
    BY <1>4, <2>1, <2>2, EntryIs
  <2>4. \A x \in Entries(recent) : ValueAt(recent, x) = ValueAt(scopes, x)
    BY <1>4, EntryIs DEF ValueAt
  <2>5. ASSUME NEW x \in Entries(scopes) PROVE ValueAt(scopes, x).used \in Nat
    <3>1. /\ x[1] \in DOMAIN scopes /\ x[2] \in DOMAIN scopes[x[1]].values
          /\ ValueAt(scopes, x) = scopes[x[1]].values[x[2]]
      BY EntryIs
    <3>2. TidyScope(scopes[x[1]], f.diff.clock)
      BY <1>1, <3>1 DEF TidyScopes
    <3>3. TidyValue(ValueAt(scopes, x), f.diff.clock)
      BY <3>1, <3>2 DEF TidyScope
    <3> QED
      BY <3>3 DEF TidyValue
  <2>6. ASSUME NEW x \in Entries(recent), Ages(recent)[x] >= Ages(recent)[e] PROVE x \in entries
    <3>1. Ages(recent)[x] = ValueAt(scopes, x).used /\ Ages(recent)[e] = ValueAt(scopes, e).used
      BY <2>3, <2>4 DEF Ages
    <3>2. ValueAt(scopes, x).used \in Nat /\ ValueAt(scopes, e).used \in Nat /\ x \in Entries(scopes)
      BY <1>6, <2>1, <2>5
    <3> QED
      BY <2>6, <3>1, <3>2 DEF Current
  <2>7. Entries(new) \in Newest(Entries(recent), Ages(recent), Limit)
    BY <1>2 DEF recent
  <2> HIDE DEF new
  <2> QED
    BY <1>7, <1>8, <2>3, <2>6, <2>7, UsedIsKept, LimitAssumption
<1> QED
  BY <1>9

-----------------------------------------------------------------------------
(* What the operations of a command do to the order of use.                *)

\* A question is answered, and its answer touched and used.
Answering(f, table, key) == Touch([f EXCEPT ![table] = @ \cup {key}], key)
UsingAnswer(used, table, key) == [used EXCEPT ![table] = @ \cup {key}]

LEMMA AskedKept ==
  ASSUME NEW f, Tidy(f), NEW used, DOMAIN used = DOMAIN NothingUsed, Recent(f, used),
         NEW table \in {"bases", "distances", "metadata"}, NEW key,
         table = "metadata" => key \in Commits
  PROVE  LET g == Answering(f, table, key)
             now == UsingAnswer(used, table, key)
         IN  /\ Tidy(g) /\ g.diff = f.diff
             /\ DOMAIN now = DOMAIN NothingUsed /\ Recent(g, now) /\ now.entries = used.entries
<1> DEFINE h == [f EXCEPT ![table] = @ \cup {key}]
           g == Touch(h, key)
           now == [used EXCEPT ![table] = @ \cup {key}]
<1>1. DOMAIN f = DOMAIN NoFacts
  BY DEF Tidy
<1>2. /\ DOMAIN h = DOMAIN NoFacts /\ h.diff = f.diff
      /\ h.recency = f.recency /\ h.clock = f.clock
      /\ h.bases = IF table = "bases" THEN f.bases \cup {key} ELSE f.bases
      /\ h.distances = IF table = "distances" THEN f.distances \cup {key} ELSE f.distances
      /\ h.metadata = IF table = "metadata" THEN f.metadata \cup {key} ELSE f.metadata
  BY <1>1 DEF NoFacts
<1> HIDE DEF h
<1>3. /\ DOMAIN g = DOMAIN NoFacts /\ g.diff = f.diff /\ g.clock = f.clock + 1
      /\ g.recency = [k \in DOMAIN f.recency \cup {key} |->
                         IF k = key THEN f.clock + 1 ELSE f.recency[k]]
      /\ g.bases = h.bases /\ g.distances = h.distances /\ g.metadata = h.metadata
  BY <1>2 DEF NoFacts, Touch
<1>4. /\ DOMAIN now = DOMAIN NothingUsed /\ now.entries = used.entries /\ now.trees = used.trees
      /\ now.bases = IF table = "bases" THEN used.bases \cup {key} ELSE used.bases
      /\ now.distances = IF table = "distances" THEN used.distances \cup {key} ELSE used.distances
      /\ now.metadata = IF table = "metadata" THEN used.metadata \cup {key} ELSE used.metadata
  BY DEF NothingUsed
<1> HIDE DEF g, now
<1>5. DOMAIN g.recency = DOMAIN f.recency \cup {key} /\ g.recency[key] = f.clock + 1
      /\ \A k \in DOMAIN f.recency : k # key => g.recency[k] = f.recency[k]
  BY <1>3
<1>6. f.clock \in Nat /\ \A k \in DOMAIN f.recency : f.recency[k] \in Nat /\ f.recency[k] <= f.clock
  BY DEF Tidy, TidyTables
<1>7. /\ IsFiniteSet(g.bases) /\ IsFiniteSet(g.distances) /\ IsFiniteSet(g.metadata)
      /\ g.metadata \subseteq Commits
  <2>1. /\ IsFiniteSet(f.bases) /\ IsFiniteSet(f.distances) /\ IsFiniteSet(f.metadata)
        /\ f.metadata \subseteq Commits
    BY DEF Tidy, TidyTables
  <2>2. /\ IsFiniteSet(f.bases \cup {key}) /\ IsFiniteSet(f.distances \cup {key})
        /\ IsFiniteSet(f.metadata \cup {key})
    BY <2>1, FS_AddElement
  <2> QED
    BY <1>2, <1>3, <2>1, <2>2
<1>8. \A k \in DOMAIN g.recency : g.recency[k] \in 1 .. g.clock
  BY <1>3, <1>5, <1>6 DEF Tidy, TidyTables
<1>9. Tidy(g)
  BY <1>1, <1>3, <1>6, <1>7, <1>8 DEF Tidy, TidyTables
<1>10. KeysOf(now) = KeysOf(used) \cup {key}
  BY <1>4 DEF KeysOf
<1>11. ASSUME NEW u \in KeysOf(now), NEW k \in DOMAIN g.recency \ KeysOf(now)
       PROVE  g.recency[k] < g.recency[u]
  <2>1. k # key /\ k \in DOMAIN f.recency /\ k \notin KeysOf(used) /\ g.recency[k] = f.recency[k]
    BY <1>5, <1>10
  <2>2. CASE u = key
    BY <2>1, <2>2, <1>5, <1>6
  <2>3. CASE u # key
    <3>1. u \in KeysOf(used) /\ u \in DOMAIN f.recency /\ g.recency[u] = f.recency[u]
      BY <2>3, <1>5, <1>10 DEF Recent
    <3> QED
      BY <2>1, <3>1 DEF Recent
  <2> QED
    BY <2>2, <2>3
<1>12. /\ now.bases \subseteq g.bases /\ now.distances \subseteq g.distances
       /\ now.metadata \subseteq g.metadata /\ now.trees \subseteq g.diff.trees
       /\ KeysOf(now) \subseteq DOMAIN g.recency
  BY <1>2, <1>3, <1>4, <1>5, <1>10 DEF Recent
<1>13. Recent(g, now)
  BY <1>11, <1>12 DEF Recent
<1> QED
  BY <1>3, <1>4, <1>9, <1>13 DEF g, h, now, Answering, UsingAnswer

\* The trees of the pairs become facts, touched after all others.
LEMMA TreesKept ==
  ASSUME NEW f, Tidy(f), NEW used, DOMAIN used = DOMAIN NothingUsed, Recent(f, used),
         used.trees = {}, NEW ids \in SUBSET Commits, IsFiniteSet(ids)
  PROVE  LET g == WithTrees(f, ids)
             now == [used EXCEPT !.trees = ids]
         IN  /\ Tidy(g) /\ g.diff.scopes = f.diff.scopes /\ g.diff.clock = f.diff.clock
             /\ DOMAIN now = DOMAIN NothingUsed /\ Recent(g, now) /\ now.entries = used.entries
<1> DEFINE g == WithTrees(f, ids)
           now == [used EXCEPT !.trees = ids]
           below(k) == {i \in ids : i <= k}
<1>1. DOMAIN f = DOMAIN NoFacts /\ DOMAIN f.diff = DOMAIN NoDiff
  BY DEF Tidy, TidyDiff
<1>2. /\ DOMAIN g = DOMAIN NoFacts /\ DOMAIN g.diff = DOMAIN NoDiff
      /\ g.bases = f.bases /\ g.distances = f.distances /\ g.metadata = f.metadata
      /\ g.diff.trees = f.diff.trees \cup ids
      /\ g.diff.scopes = f.diff.scopes /\ g.diff.clock = f.diff.clock
      /\ g.clock = f.clock + Cardinality(ids)
      /\ g.recency = [k \in DOMAIN f.recency \cup ids |->
                         IF k \in ids THEN f.clock + Cardinality(below(k)) ELSE f.recency[k]]
  BY <1>1 DEF NoFacts, NoDiff, WithTrees
<1>3. /\ DOMAIN now = DOMAIN NothingUsed /\ now.entries = used.entries /\ now.trees = ids
      /\ now.bases = used.bases /\ now.distances = used.distances /\ now.metadata = used.metadata
  BY DEF NothingUsed
<1>4. ASSUME NEW k \in ids
      PROVE  /\ Cardinality(below(k)) \in Nat /\ Cardinality(below(k)) > 0
             /\ Cardinality(below(k)) <= Cardinality(ids)
  <2>1. below(k) \subseteq ids /\ k \in below(k)
    <3>1. k \in Nat /\ k <= k
      BY DiffAssumption
    <3> QED
      BY <3>1
  <2> HIDE DEF below
  <2>2. IsFiniteSet(below(k)) /\ Cardinality(below(k)) <= Cardinality(ids)
    BY <2>1, FS_Subset
  <2>3. Cardinality(below(k)) \in Nat /\ Cardinality(below(k)) # 0
    BY <2>1, <2>2, FS_CardinalityType, FS_EmptySet
  <2> QED
    BY <2>2, <2>3
<1> HIDE DEF g, now, below
<1>5. Cardinality(ids) \in Nat
  BY FS_CardinalityType
<1>6. f.clock \in Nat /\ \A k \in DOMAIN f.recency : f.recency[k] \in 1 .. f.clock
  BY DEF Tidy, TidyTables
<1>7. /\ DOMAIN g.recency = DOMAIN f.recency \cup ids
      /\ \A k \in ids : g.recency[k] \in Nat /\ g.recency[k] > f.clock /\ g.recency[k] <= g.clock
      /\ \A k \in DOMAIN f.recency \ ids : g.recency[k] = f.recency[k]
  BY <1>2, <1>4, <1>5, <1>6
<1>8. g.clock \in Nat /\ g.clock >= f.clock
  BY <1>2, <1>5, <1>6
<1>9. \A k \in DOMAIN g.recency : g.recency[k] \in 1 .. g.clock
  <2>1. ASSUME NEW k \in DOMAIN g.recency PROVE g.recency[k] \in 1 .. g.clock
    <3>1. CASE k \in ids
      BY <3>1, <1>6, <1>7, <1>8
    <3>2. CASE k \notin ids
      <4>1. k \in DOMAIN f.recency /\ g.recency[k] = f.recency[k]
        BY <3>2, <1>7
      <4> QED
        BY <4>1, <1>6, <1>8
    <3> QED
      BY <3>1, <3>2
  <2> QED
    BY <2>1
<1>10. TidyTables(g)
  BY <1>2, <1>9 DEF Tidy, TidyTables
<1>11. IsFiniteSet(g.diff.trees) /\ g.diff.trees \subseteq Commits
  <2>1. IsFiniteSet(f.diff.trees) /\ f.diff.trees \subseteq Commits
    BY DEF Tidy, TidyDiff
  <2>2. IsFiniteSet(f.diff.trees \cup ids)
    BY <2>1, FS_Union
  <2> QED
    BY <1>2, <2>1, <2>2
<1>12. Tidy(g)
  BY <1>2, <1>8, <1>10, <1>11 DEF Tidy, TidyDiff
<1>13. KeysOf(now) = KeysOf(used) \cup ids
  BY <1>3 DEF KeysOf
<1>14. ASSUME NEW u \in KeysOf(now), NEW k \in DOMAIN g.recency \ KeysOf(now)
       PROVE  g.recency[k] < g.recency[u]
  <2>1. k \notin ids /\ k \in DOMAIN f.recency /\ k \notin KeysOf(used) /\ g.recency[k] = f.recency[k]
    BY <1>7, <1>13
  <2>2. CASE u \in ids
    BY <2>1, <2>2, <1>6, <1>7
  <2>3. CASE u \notin ids
    <3>1. u \in KeysOf(used) /\ u \in DOMAIN f.recency /\ g.recency[u] = f.recency[u]
      BY <2>3, <1>7, <1>13 DEF Recent
    <3> QED
      BY <2>1, <3>1 DEF Recent
  <2> QED
    BY <2>2, <2>3
<1>15. /\ now.bases \subseteq g.bases /\ now.distances \subseteq g.distances
       /\ now.metadata \subseteq g.metadata /\ now.trees \subseteq g.diff.trees
       /\ KeysOf(now) \subseteq DOMAIN g.recency
  BY <1>2, <1>3, <1>7, <1>13 DEF Recent
<1>16. Recent(g, now)
  BY <1>14, <1>15 DEF Recent
<1> QED
  BY <1>2, <1>3, <1>12, <1>16 DEF g, now

\* Facts whose tables are the same and whose statistics have changed.
LEMMA DiffReplaced ==
  ASSUME NEW f, Tidy(f), NEW g, DOMAIN g = DOMAIN f, TidyDiff(g.diff), g.diff.trees = f.diff.trees,
         g.bases = f.bases, g.distances = f.distances, g.metadata = f.metadata,
         g.recency = f.recency, g.clock = f.clock
  PROVE  Tidy(g) /\ \A used : Recent(f, used) => Recent(g, used)
BY DEF Tidy, TidyTables, Recent

\* A value, a scope is tidy at a later time, too.
LEMMA TidyLater ==
  ASSUME NEW scopes, NEW clock \in Nat, TidyScopes(scopes, clock)
  PROVE  TidyScopes(scopes, clock + 1)
<1>1. 1 .. clock \subseteq 1 .. clock + 1
  OBVIOUS
<1> QED
  BY <1>1 DEF TidyScopes, TidyScope, TidyValue

\* Only the clock has moved on.
LEMMA TickedKept ==
  ASSUME NEW f, Tidy(f)
  PROVE  LET g == [f EXCEPT !.diff.clock = @ + 1]
         IN  Tidy(g) /\ g.diff.scopes = f.diff.scopes /\ \A used : Recent(f, used) => Recent(g, used)
<1> DEFINE g == [f EXCEPT !.diff.clock = @ + 1]
<1>1. /\ DOMAIN f = DOMAIN NoFacts /\ DOMAIN f.diff = DOMAIN NoDiff /\ f.diff.clock \in Nat
      /\ TidyScopes(f.diff.scopes, f.diff.clock)
  BY DEF Tidy, TidyDiff
<1>2. /\ DOMAIN g = DOMAIN f /\ DOMAIN g.diff = DOMAIN NoDiff
      /\ g.diff.trees = f.diff.trees /\ g.diff.scopes = f.diff.scopes
      /\ g.diff.clock = f.diff.clock + 1
      /\ g.bases = f.bases /\ g.distances = f.distances /\ g.metadata = f.metadata
      /\ g.recency = f.recency /\ g.clock = f.clock
  BY <1>1 DEF NoFacts, NoDiff
<1> HIDE DEF g
<1>3. TidyScopes(g.diff.scopes, g.diff.clock)
  BY <1>1, <1>2, TidyLater
<1>4. TidyDiff(g.diff)
  BY <1>1, <1>2, <1>3 DEF Tidy, TidyDiff
<1>5. Tidy(g) /\ \A used : Recent(f, used) => Recent(g, used)
  BY <1>2, <1>4, DiffReplaced
<1> QED
  BY <1>2, <1>5 DEF g

\* One scope has changed, at a new time.
Replaced(new, old, s, clock) ==
    /\ DOMAIN new = DOMAIN old \cup {s}
    /\ TidyScope(new[s], clock + 1) /\ new[s].used = clock + 1
    /\ \A x \in DOMAIN old \ {s} : new[x] = old[x]

LEMMA ReplacedTidy ==
  ASSUME NEW old, NEW clock \in Nat, TidyScopes(old, clock), NEW s \in Executables, NEW new,
         Replaced(new, old, s, clock)
  PROVE  TidyScopes(new, clock + 1)
<1>1. IsFiniteSet(DOMAIN old \cup {s})
  BY FS_AddElement DEF TidyScopes
<1>2. DOMAIN new \subseteq Executables
  BY DEF TidyScopes, Replaced
<1>3. TidyScopes(old, clock + 1)
  BY TidyLater
<1>4. ASSUME NEW x \in DOMAIN new PROVE TidyScope(new[x], clock + 1)
  <2>1. CASE x = s
    BY <2>1 DEF Replaced
  <2>2. CASE x # s
    BY <2>2, <1>3 DEF Replaced, TidyScopes
  <2> QED
    BY <2>1, <2>2
<1> QED
  BY <1>1, <1>2, <1>4 DEF TidyScopes, Replaced

\* What is used are values of this scope that have just been used or were in use
\* before; what is not used is as it was.
NowUsed(new, old, s, clock, entries, before) ==
    /\ \A e \in entries :
          /\ e[1] = s /\ e \in Entries(new)
          /\ \/ ValueAt(new, e).used = clock + 1
             \/ e \in before /\ ValueAt(new, e) = ValueAt(old, e)
    /\ \A x \in Entries(new) \ entries :
          x \in Entries(old) /\ x \notin before /\ ValueAt(new, x) = ValueAt(old, x)

LEMMA ReplacedCurrent ==
  ASSUME NEW old, NEW clock \in Nat, TidyScopes(old, clock), NEW s, NEW new,
         Replaced(new, old, s, clock), NEW before, Current(old, before), NEW entries,
         NowUsed(new, old, s, clock, entries, before)
  PROVE  Current(new, entries)
<1>1. \A x \in Entries(old) : ValueAt(old, x).used \in Nat /\ ValueAt(old, x).used <= clock
  BY EntryIs DEF TidyScopes, TidyScope, TidyValue
<1>2. ASSUME NEW e \in entries, NEW x \in Entries(new) \ entries
      PROVE  ValueAt(new, x).used < ValueAt(new, e).used
  <2>1. x \in Entries(old) /\ x \notin before /\ ValueAt(new, x) = ValueAt(old, x)
    BY DEF NowUsed
  <2>2. CASE ValueAt(new, e).used = clock + 1
    BY <1>1, <2>1, <2>2
  <2>3. CASE e \in before /\ ValueAt(new, e) = ValueAt(old, e)
    BY <2>1, <2>3 DEF Current
  <2> QED
    BY <2>2, <2>3 DEF NowUsed
<1>3. ASSUME NEW e \in entries, NEW x \in DOMAIN new \ {e[1]}
      PROVE  new[x].used < new[e[1]].used
  <2>1. e[1] = s /\ x \in DOMAIN old /\ new[x] = old[x] /\ new[s].used = clock + 1
    BY DEF NowUsed, Replaced
  <2>2. old[x].used \in 1 .. clock
    BY <2>1 DEF TidyScopes, TidyScope
  <2> QED
    BY <2>1, <2>2
<1>4. entries \subseteq Entries(new)
  BY DEF NowUsed
<1> QED
  BY <1>2, <1>3, <1>4 DEF Current

\* Reuse: the values that answer, and their scope, are used now.
LEMMA RefreshedKept ==
  ASSUME NEW f, Tidy(f), NEW s \in Scopes(f), NEW hits \in SUBSET DOMAIN f.diff.scopes[s].values
  PROVE  LET g == Refreshed(f, s, hits)
         IN  /\ Tidy(g) /\ \A used : Recent(f, used) => Recent(g, used)
             /\ Current(g.diff.scopes, {<<s, t>> : t \in hits})
<1> DEFINE g == Refreshed(f, s, hits)
           old == f.diff.scopes
           new == g.diff.scopes
           clock == f.diff.clock
           values == [t \in DOMAIN old[s].values |->
                         IF t \in hits THEN [old[s].values[t] EXCEPT !.used = clock + 1]
                         ELSE old[s].values[t]]
           entries == {<<s, t>> : t \in hits}
<1>1. /\ DOMAIN f = DOMAIN NoFacts /\ DOMAIN f.diff = DOMAIN NoDiff /\ clock \in Nat
      /\ TidyScopes(old, clock)
  BY DEF Tidy, TidyDiff
<1>2. /\ DOMAIN g = DOMAIN f /\ DOMAIN g.diff = DOMAIN NoDiff
      /\ g.diff.trees = f.diff.trees /\ g.diff.clock = clock + 1
      /\ new = [old EXCEPT ![s] = [used |-> clock + 1, values |-> values]]
      /\ g.bases = f.bases /\ g.distances = f.distances /\ g.metadata = f.metadata
      /\ g.recency = f.recency /\ g.clock = f.clock
  BY <1>1 DEF NoFacts, NoDiff, Refreshed
<1>3. /\ s \in DOMAIN old /\ DOMAIN new = DOMAIN old
      /\ new[s] = [used |-> clock + 1, values |-> values]
      /\ \A x \in DOMAIN old \ {s} : new[x] = old[x]
  BY <1>2 DEF Scopes
<1>4. TidyScope(old[s], clock)
  BY <1>1, <1>3 DEF TidyScopes
<1>5. ASSUME NEW t \in DOMAIN values
      PROVE  /\ t \in DOMAIN old[s].values
             /\ TidyValue(values[t], clock + 1)
             /\ t \in hits => values[t].used = clock + 1
             /\ t \notin hits => values[t] = old[s].values[t]
  <2>1. t \in DOMAIN old[s].values /\ TidyValue(old[s].values[t], clock)
    BY <1>4 DEF TidyScope
  <2>2. CASE t \in hits
    <3> DEFINE v == old[s].values[t]
    <3>1. values[t] = [v EXCEPT !.used = clock + 1]
      BY <2>1, <2>2
    <3> HIDE DEF v, values, clock
    <3>2. /\ DOMAIN values[t] = DOMAIN v /\ values[t].used = clock + 1
          /\ values[t].stat = v.stat
      BY <2>1, <3>1 DEF v, TidyValue
    <3> QED
      BY <1>1, <2>1, <2>2, <3>2 DEF v, TidyValue
  <2>3. CASE t \notin hits
    <3>1. values[t] = old[s].values[t]
      BY <2>1, <2>3
    <3>2. \A n \in 1 .. clock : n \in 1 .. clock + 1
      BY <1>1
    <3> HIDE DEF values, clock
    <3> QED
      BY <2>1, <2>3, <3>1, <3>2 DEF TidyValue
  <2> QED
    BY <2>2, <2>3, <2>1
<1>6. DOMAIN values = DOMAIN old[s].values
  OBVIOUS
<1> HIDE DEF values, g
<1>7. TidyScope(new[s], clock + 1)
  <2>1. clock + 1 \in 1 .. clock + 1
    BY <1>1
  <2> HIDE DEF clock, new, old
  <2> QED
    BY <1>3, <1>4, <1>5, <1>6, <2>1 DEF TidyScope
<1>8. Replaced(new, old, s, clock)
  <2>1. new[s].used = clock + 1
    BY <1>3
  <2> HIDE DEF clock, new, old
  <2> QED
    BY <1>3, <1>7, <2>1 DEF Replaced
<1>9. TidyScopes(new, clock + 1)
  BY <1>1, <1>3, <1>8, ReplacedTidy DEF TidyScopes
<1>10. TidyDiff(g.diff)
  BY <1>1, <1>2, <1>9 DEF Tidy, TidyDiff
<1>11. Tidy(g) /\ \A used : Recent(f, used) => Recent(g, used)
  BY <1>2, <1>10, DiffReplaced
<1>12. NowUsed(new, old, s, clock, entries, {})
  <2> HIDE DEF clock, new, old
  <2>1. new[s].values = values
    BY <1>3
  <2>2. ASSUME NEW e \in entries
        PROVE  e[1] = s /\ e \in Entries(new) /\ ValueAt(new, e).used = clock + 1
    <3>1. PICK t \in hits : e = <<s, t>>
      OBVIOUS
    <3>2. t \in DOMAIN values
      BY <1>6 DEF old
    <3> QED
      BY <1>3, <1>5, <2>1, <3>1, <3>2, EntryIs
  <2>3. ASSUME NEW x \in Entries(new) \ entries
        PROVE  x \in Entries(old) /\ ValueAt(new, x) = ValueAt(old, x)
    <3>1. /\ x = <<x[1], x[2]>> /\ x[1] \in DOMAIN new /\ x[2] \in DOMAIN new[x[1]].values
          /\ ValueAt(new, x) = new[x[1]].values[x[2]]
      BY EntryIs
    <3>2. CASE x[1] = s
      <4>1. x[2] \in DOMAIN values /\ x[2] \notin hits
        BY <2>1, <3>1, <3>2
      <4>2. x[2] \in DOMAIN old[s].values /\ values[x[2]] = old[s].values[x[2]]
        BY <4>1, <1>5
      <4> QED
        BY <1>3, <2>1, <3>1, <3>2, <4>2, EntryIs
    <3>3. CASE x[1] # s
      <4>1. new[x[1]] = old[x[1]] /\ x[1] \in DOMAIN old
        BY <1>3, <3>1, <3>3
      <4> QED
        BY <3>1, <4>1, EntryIs
    <3> QED
      BY <3>2, <3>3
  <2> HIDE DEF entries
  <2> QED
    BY <2>2, <2>3 DEF NowUsed
<1>13. Current(old, {})
  BY DEF Current
<1>14. Current(new, entries)
  <2> HIDE DEF new, old, entries
  <2> QED
    BY <1>1, <1>8, <1>12, <1>13, ReplacedCurrent
<1> QED
  BY <1>11, <1>14 DEF g

\* The statistics of a scope that have just been retained.
NewIn(f, s, measured) ==
    {e \in {<<s, t>> : t \in DOMAIN measured} \cap Entries(f.diff.scopes) :
        ValueAt(f.diff.scopes, e).used = f.diff.clock}

\* Retention: the values that are new, and their scope, are used now, beside what
\* the command has reused from that scope.
LEMMA RetainedKept ==
  ASSUME NEW f, Tidy(f), NEW k, k.scope \in Executables, NEW measured, IsFiniteSet(DOMAIN measured),
         \A t \in DOMAIN measured : measured[t] \in Stat,
         NEW before, Current(f.diff.scopes, before), \A e \in before : e[1] = k.scope,
         NEW g \in Retained(f, k, measured)
  PROVE  /\ Tidy(g) /\ \A used : Recent(f, used) => Recent(g, used)
         /\ Current(g.diff.scopes, before \cup NewIn(g, k.scope, measured))
<1> DEFINE s == k.scope
           clock == f.diff.clock
           scopes == f.diff.scopes
           old == IF s \in Scopes(f) THEN f.diff.scopes[s].values ELSE <<>>
           Fresh(kept) ==
             [t \in kept |->
                 [stat |-> measured[t], fingerprint |-> Fingerprint(k, PathsOf[t]),
                  used |-> clock + 1]]
           Taken(kept) == [used |-> clock + 1, values |-> Over(Fresh(kept), old)]
           new == g.diff.scopes
           fresh == NewIn(g, s, measured)
           entries == before \cup fresh
<1>1. /\ DOMAIN f = DOMAIN NoFacts /\ DOMAIN f.diff = DOMAIN NoDiff /\ clock \in Nat
      /\ TidyScopes(scopes, clock)
  BY DEF Tidy, TidyDiff
<1>2. PICK kept \in SUBSET DOMAIN measured :
        g = [f EXCEPT !.diff.clock = clock + 1,
                      !.diff.scopes = Over([x \in {s} |-> Taken(kept)], @)]
  BY DEF Retained
<1>3. /\ DOMAIN g = DOMAIN f /\ DOMAIN g.diff = DOMAIN NoDiff
      /\ g.diff.trees = f.diff.trees /\ g.diff.clock = clock + 1
      /\ new = Over([x \in {s} |-> Taken(kept)], scopes)
      /\ g.bases = f.bases /\ g.distances = f.distances /\ g.metadata = f.metadata
      /\ g.recency = f.recency /\ g.clock = f.clock
  <2> HIDE DEF Taken, s, clock
  <2> QED
    BY <1>1, <1>2 DEF NoFacts, NoDiff
<1> DEFINE values == Over(Fresh(kept), old)
<1>4. /\ DOMAIN new = DOMAIN scopes \cup {s}
      /\ new[s] = [used |-> clock + 1, values |-> values]
      /\ \A x \in DOMAIN scopes \ {s} : new[x] = scopes[x]
  BY <1>3 DEF Over
<1>5. DOMAIN values = kept \cup DOMAIN old
  BY DEF Over
<1>6. \A t \in kept : values[t] = [stat |-> measured[t], fingerprint |-> Fingerprint(k, PathsOf[t]),
                                   used |-> clock + 1]
  BY DEF Over
<1>7. \A t \in DOMAIN old : t \notin kept => values[t] = old[t]
  BY DEF Over
<1>8. s \notin DOMAIN scopes => DOMAIN old = {}
  BY DEF Scopes
<1>9. s \in DOMAIN scopes => old = scopes[s].values /\ TidyScope(scopes[s], clock)
  BY <1>1 DEF Scopes, TidyScopes
<1>10. IsFiniteSet(DOMAIN old) /\ \A t \in DOMAIN old : TidyValue(old[t], clock)
  BY <1>8, <1>9, FS_EmptySet DEF TidyScope
<1> HIDE DEF values, old, Taken, Fresh, scopes, new, clock
<1>11. ASSUME NEW t \in DOMAIN values PROVE TidyValue(values[t], clock + 1)
  <2>1. CASE t \in kept
    <3>1. clock + 1 \in 1 .. clock + 1
      BY <1>1
    <3>2. measured[t] \in Stat
      BY <2>1
    <3>3. /\ DOMAIN values[t] = {"stat", "fingerprint", "used"}
          /\ values[t].stat = measured[t] /\ values[t].used = clock + 1
      <4>1. values[t] = [stat |-> measured[t], fingerprint |-> Fingerprint(k, PathsOf[t]),
                         used |-> clock + 1]
        BY <2>1, <1>6
      <4> QED
        BY <4>1
    <3> QED
      BY <3>1, <3>2, <3>3 DEF TidyValue
  <2>2. CASE t \notin kept
    <3>1. TidyValue(values[t], clock)
      BY <2>2, <1>5, <1>7, <1>10
    <3>2. \A n \in 1 .. clock : n \in 1 .. clock + 1
      BY <1>1
    <3> QED
      BY <3>1, <3>2 DEF TidyValue
  <2> QED
    BY <2>1, <2>2
<1>12. IsFiniteSet(DOMAIN values)
  <2>1. IsFiniteSet(kept)
    BY FS_Subset
  <2> QED
    BY <1>5, <1>10, <2>1, FS_Union
<1>13. new[s].used = clock + 1 /\ new[s].values = values /\ DOMAIN new[s] = {"used", "values"}
  BY <1>4
<1>14. TidyScope(new[s], clock + 1)
  <2>1. clock + 1 \in 1 .. clock + 1
    BY <1>1
  <2> QED
    BY <1>11, <1>12, <1>13, <2>1 DEF TidyScope
<1>15. Replaced(new, scopes, s, clock)
  BY <1>4, <1>13, <1>14 DEF Replaced
<1>16. TidyScopes(new, clock + 1)
  BY <1>1, <1>15, ReplacedTidy
<1>17. TidyDiff(g.diff)
  BY <1>1, <1>3, <1>16 DEF Tidy, TidyDiff, new
<1>18. Tidy(g) /\ \A used : Recent(f, used) => Recent(g, used)
  BY <1>3, <1>17, DiffReplaced
<1>19. \A e \in fresh : e \in Entries(new) /\ e[1] = s /\ ValueAt(new, e).used = clock + 1
  BY <1>3 DEF NewIn, new
<1>20. \A t \in kept : <<s, t>> \in fresh
  <2> SUFFICES ASSUME NEW t \in kept PROVE <<s, t>> \in fresh
    OBVIOUS
  <2>1. t \in DOMAIN values /\ values[t].used = clock + 1
    BY <1>5, <1>6
  <2>2. <<s, t>> \in Entries(new) /\ ValueAt(new, <<s, t>>) = values[t]
    <3> HIDE DEF s
    <3>1. s \in DOMAIN new /\ t \in DOMAIN new[s].values
      BY <1>4, <1>13, <2>1
    <3> QED
      BY <1>13, <3>1, EntryIs
  <2> QED
    BY <1>3, <2>1, <2>2 DEF NewIn, new
<1> HIDE DEF fresh
<1>21. \A x \in Entries(scopes) : x \in Entries(new) /\ (x \in fresh \/ ValueAt(new, x) = ValueAt(scopes, x))
  <2> SUFFICES ASSUME NEW x \in Entries(scopes)
               PROVE  x \in Entries(new) /\ (x \in fresh \/ ValueAt(new, x) = ValueAt(scopes, x))
    OBVIOUS
  <2>1. /\ x = <<x[1], x[2]>> /\ x[1] \in DOMAIN scopes /\ x[2] \in DOMAIN scopes[x[1]].values
        /\ ValueAt(scopes, x) = scopes[x[1]].values[x[2]]
    BY EntryIs
  <2>2. CASE x[1] = s
    <3>1. x[2] \in DOMAIN old /\ ValueAt(scopes, x) = old[x[2]]
      BY <1>9, <2>1, <2>2
    <3>2. x \in Entries(new) /\ ValueAt(new, x) = values[x[2]]
      BY <1>4, <1>5, <1>13, <2>1, <2>2, <3>1, EntryIs
    <3>3. CASE x[2] \in kept
      BY <1>20, <2>1, <2>2, <3>2, <3>3
    <3>4. CASE x[2] \notin kept
      BY <1>7, <3>1, <3>2, <3>4
    <3> QED
      BY <3>3, <3>4
  <2>3. CASE x[1] # s
    <3>1. x[1] \in DOMAIN new /\ new[x[1]] = scopes[x[1]]
      BY <1>4, <2>1, <2>3
    <3> QED
      BY <2>1, <3>1, EntryIs
  <2> QED
    BY <2>2, <2>3
<1>22. \A x \in Entries(new) : x \in fresh \/ x \in Entries(scopes)
  <2> SUFFICES ASSUME NEW x \in Entries(new) PROVE x \in fresh \/ x \in Entries(scopes)
    OBVIOUS
  <2>1. x = <<x[1], x[2]>> /\ x[1] \in DOMAIN new /\ x[2] \in DOMAIN new[x[1]].values
    BY EntryIs
  <2>2. CASE x[1] = s
    <3>1. x[2] \in kept \/ x[2] \in DOMAIN old
      BY <1>5, <1>13, <2>1, <2>2
    <3>2. CASE x[2] \in kept
      BY <1>20, <2>1, <2>2, <3>2
    <3>3. CASE x[2] \in DOMAIN old
      <4>1. s \in DOMAIN scopes /\ x[2] \in DOMAIN scopes[s].values
        BY <1>8, <1>9, <3>3
      <4> QED
        BY <2>1, <2>2, <4>1, EntryIs
    <3> QED
      BY <3>1, <3>2, <3>3
  <2>3. CASE x[1] # s
    <3>1. x[1] \in DOMAIN scopes /\ new[x[1]] = scopes[x[1]]
      BY <1>4, <2>1, <2>3
    <3> QED
      BY <2>1, <3>1, EntryIs
  <2> QED
    BY <2>2, <2>3
<1>23. NowUsed(new, scopes, s, clock, entries, before)
  <2>1. before \subseteq Entries(scopes) /\ \A e \in before : e[1] = s
    BY DEF Current, scopes
  <2> HIDE DEF s
  <2>2. ASSUME NEW e \in entries
        PROVE  /\ e[1] = s /\ e \in Entries(new)
               /\ \/ ValueAt(new, e).used = clock + 1
                  \/ e \in before /\ ValueAt(new, e) = ValueAt(scopes, e)
    <3>1. CASE e \in fresh
      BY <1>19, <3>1
    <3>2. CASE e \notin fresh
      BY <1>21, <2>1, <3>2
    <3> QED
      BY <3>1, <3>2
  <2>3. ASSUME NEW x \in Entries(new) \ entries
        PROVE  x \in Entries(scopes) /\ x \notin before /\ ValueAt(new, x) = ValueAt(scopes, x)
    BY <1>21, <1>22
  <2> HIDE DEF entries
  <2> QED
    BY <2>2, <2>3 DEF NowUsed
<1>24. Current(new, entries)
  <2>1. Current(scopes, before)
    BY DEF scopes
  <2> HIDE DEF entries, s
  <2> QED
    BY <1>1, <1>15, <1>23, <2>1, ReplacedCurrent
<1> QED
  BY <1>18, <1>24 DEF fresh, new

\* The image of a finite set.
LEMMA ImageFinite ==
  ASSUME NEW S, IsFiniteSet(S), NEW f, DOMAIN f = S
  PROVE  IsFiniteSet({f[x] : x \in S})
<1> DEFINE T == {f[x] : x \in S}
           g == [x \in S |-> f[x]]
<1>1. g \in Surjection(S, T)
  BY DEF Surjection
<1> HIDE DEF T, g
<1>2. IsFiniteSet(T)
  BY <1>1, FS_Surjection
<1> QED
  BY <1>2 DEF T

\* What the lanes of an analysis ask for is finite.
LEMMA LayersFinite ==
  ASSUME NEW analysis \in Analyses
  PROVE  IsFiniteSet(Layers(analysis.lanes))
<1> DEFINE lanes == analysis.lanes
           own == [lane \in lanes |->
                     {<<lane, i>> : i \in {j \in DOMAIN lane.points : ~lane.points[j].main_history}}]
           families == {own[lane] : lane \in lanes}
<1>1. IsFiniteSet(lanes) /\ \A lane \in lanes : lane.points \in Seq(Range(lane.points))
  BY AnalysesAssumption
<1>2. IsFiniteSet(families)
  <2>1. DOMAIN own = lanes
    OBVIOUS
  <2> HIDE DEF own, lanes
  <2> QED
    BY <1>1, <2>1, ImageFinite
<1>3. ASSUME NEW lane \in lanes PROVE IsFiniteSet(own[lane])
  <2> DEFINE indices == {j \in DOMAIN lane.points : ~lane.points[j].main_history}
             at == [i \in indices |-> <<lane, i>>]
  <2>1. Len(lane.points) \in Nat /\ DOMAIN lane.points = 1 .. Len(lane.points)
    BY <1>1
  <2>2. IsFiniteSet(DOMAIN lane.points)
    BY <2>1, FS_Interval
  <2>3. IsFiniteSet(indices)
    BY <2>2, FS_Subset
  <2>4. own[lane] = {at[i] : i \in indices}
    OBVIOUS
  <2>5. DOMAIN at = indices
    OBVIOUS
  <2> HIDE DEF at, indices, own
  <2> QED
    BY <2>3, <2>4, <2>5, ImageFinite
<1>4. \A T \in families : IsFiniteSet(T)
  <2> HIDE DEF own, lanes
  <2> QED
    BY <1>3
<1>5. Layers(lanes) = UNION families
  <2>1. families = {{<<lane, i>> : i \in {j \in DOMAIN lane.points : ~lane.points[j].main_history}} :
                      lane \in lanes}
    BY DEF families, own
  <2> HIDE DEF families
  <2> QED
    BY <2>1 DEF Layers
<1> HIDE DEF families
<1> QED
  BY <1>2, <1>4, <1>5, FS_UNION

LEMMA PairsFinite ==
  ASSUME NEW analysis \in Analyses
  PROVE  /\ IsFiniteSet(CommitPairs(analysis.lanes))
         /\ IsFiniteSet(CommitIds(CommitPairs(analysis.lanes)))
         /\ IsFiniteSet(Requested(CommitPairs(analysis.lanes)))
<1> DEFINE layers == Layers(analysis.lanes)
           pair == [l \in layers |-> <<BaseOf(l[1], l[2]), l[1].points[l[2]].oid>>]
           pairs == CommitPairs(analysis.lanes)
<1>1. IsFiniteSet(pairs)
  <2>1. pairs = {pair[l] : l \in layers} /\ DOMAIN pair = layers
    BY DEF CommitPairs
  <2> HIDE DEF pair, pairs, layers
  <2> QED
    BY <2>1, LayersFinite, ImageFinite DEF layers
<1> HIDE DEF pairs
<1> DEFINE ends == [c \in pairs |-> {c[1], c[2]}]
           tree == [c \in pairs |-> TreePair(c)]
<1>2. IsFiniteSet({ends[c] : c \in pairs}) /\ IsFiniteSet({tree[c] : c \in pairs})
  <2>1. DOMAIN ends = pairs /\ DOMAIN tree = pairs
    OBVIOUS
  <2> HIDE DEF ends, tree
  <2> QED
    BY <1>1, <2>1, ImageFinite
<1>3. \A T \in {ends[c] : c \in pairs} : IsFiniteSet(T)
  <2>1. \A x, y : IsFiniteSet({x, y})
    <3> SUFFICES ASSUME NEW x, NEW y PROVE IsFiniteSet({x, y})
      OBVIOUS
    <3>1. IsFiniteSet({x}) /\ {x, y} = {x} \cup {y}
      BY FS_Singleton
    <3> QED
      BY <3>1, FS_AddElement
  <2>2. \A c \in pairs : IsFiniteSet(ends[c])
    BY <2>1
  <2> HIDE DEF ends
  <2> QED
    BY <2>2
<1>4. IsFiniteSet(UNION {ends[c] : c \in pairs})
  <2> HIDE DEF ends
  <2> QED
    BY <1>2, <1>3, FS_UNION
<1>5. CommitIds(pairs) \subseteq UNION {ends[c] : c \in pairs}
  BY DEF CommitIds
<1>6. Requested(pairs) \subseteq {tree[c] : c \in pairs}
  BY DEF Requested
<1> HIDE DEF ends, tree
<1>7. IsFiniteSet(CommitIds(pairs)) /\ IsFiniteSet(Requested(pairs))
  BY <1>2, <1>4, <1>5, <1>6, FS_Subset
<1> QED
  BY <1>1, <1>7 DEF pairs

-----------------------------------------------------------------------------
(* The invariant of retention; it assumes nothing about what changes.      *)

Placed ==
    /\ world \in World
    /\ pc \in Labels
    /\ DOMAIN run = DOMAIN NoRun
    /\ DOMAIN run.used = DOMAIN NothingUsed
    /\ DOMAIN run.snap = DOMAIN NoContext

Stocked ==
    /\ Tidy(facts) /\ (stored # Miss => Tidy(stored))
    /\ pc = "fit" => NoEmptyScope(facts)

Serves ==
    Working => \E analysis \in Analyses :
                  run.lanes = analysis.lanes /\ (pc = "ask" => run.asks \in Seq(Asked))

Contexted ==
    /\ run.before # NoContext => run.before.scope \in Executables
    /\ pc \in {"lookup", "decide"} \/ (pc \in {"launch", "measure"} /\ ~run.final) =>
          run.before # NoContext
    /\ pc = "measure" =>
          /\ run.launched.scope \in Executables /\ run.launched.configuration \in Configs
          /\ DOMAIN run.launched = DOMAIN NoContext

Counted ==
    /\ run.requested \subseteq Wanted
    /\ run.todo \subseteq Wanted
    /\ pc \notin {"launch", "measure"} => run.todo = {}
    /\ DOMAIN run.hits \cap run.todo # {} => run.final
    /\ DOMAIN run.hits \subseteq Wanted /\ \A t \in DOMAIN run.hits : run.hits[t] \in Stat
    /\ DOMAIN run.measured \subseteq Wanted /\ \A t \in DOMAIN run.measured : run.measured[t] \in Stat
    /\ DOMAIN run.result \subseteq Pairs /\ \A t \in DOMAIN run.result : run.result[t] \in Stat

Using ==
    /\ Recent(facts, run.used)
    /\ Current(facts.diff.scopes, run.used.entries)
    /\ pc = "ask" => run.used.trees = {}
    /\ pc = "fit" => run.used = NothingUsed
    /\ pc # "shown" =>
          \A e \in run.used.entries : run.before # NoContext /\ e[1] = run.before.scope

Retains ==
    /\ Placed
    /\ Stocked
    /\ Serves
    /\ Contexted
    /\ Counted
    /\ Using

\* Nothing is used, nothing is wanted.
LEMMA NothingUsedRecent ==
  ASSUME NEW f
  PROVE  Recent(f, NothingUsed) /\ Current(f.diff.scopes, NothingUsed.entries)
<1>1. /\ NothingUsed.bases = {} /\ NothingUsed.distances = {} /\ NothingUsed.metadata = {}
      /\ NothingUsed.trees = {} /\ NothingUsed.entries = {}
  BY DEF NothingUsed
<1> QED
  BY <1>1 DEF Recent, Current, KeysOf

\* What is wanted is finite, and can be measured.
LEMMA WantedIs ==
  ASSUME Retains, Working
  PROVE  Wanted \subseteq Pairs /\ IsFiniteSet(Wanted)
BY AnalysesAssumption, PairsFinite DEF Retains, Serves, Wanted

LEMMA RetainsInitially == Init => Retains
<1> SUFFICES ASSUME Init PROVE Retains
  OBVIOUS
<1>1. /\ world \in World /\ pc = "idle" /\ run = NoRun /\ facts = NoFacts /\ stored \in StoredFacts
  BY WorldsAssumption DEF Init
<1>2. /\ NoRun.used = NothingUsed /\ NoRun.before = NoContext /\ NoRun.todo = {}
      /\ NoRun.requested = {} /\ DOMAIN NoRun.hits = {} /\ DOMAIN NoRun.measured = {}
      /\ DOMAIN NoRun.result = {} /\ NoRun.snap = NoContext
  BY DEF NoRun
<1>3. Placed /\ Stocked
  BY <1>1, <1>2, NoFactsTidy, StoredTidy DEF Placed, Stocked, Labels
<1>4. Serves /\ Contexted /\ Counted
  BY <1>1, <1>2 DEF Serves, Contexted, Counted, Working
<1>5. Using
  <2>1. NothingUsed.entries = {}
    BY DEF NothingUsed
  <2> QED
    BY <1>1, <1>2, <2>1, NothingUsedRecent DEF Using
<1> QED
  BY <1>3, <1>4, <1>5 DEF Retains

-----------------------------------------------------------------------------
(* Every step keeps the invariant of retention.                            *)

\* The command ends.
LEMMA EndRetains ==
  ASSUME Retains, End, stored' = stored \/ stored' = facts, UNCHANGED world
  PROVE  Retains'
<1>1. pc' = "idle" /\ run' = NoRun /\ facts' = NoFacts
  BY DEF End
<1>2. /\ NoRun.used = NothingUsed /\ NoRun.before = NoContext /\ NoRun.todo = {}
      /\ NoRun.requested = {} /\ DOMAIN NoRun.hits = {} /\ DOMAIN NoRun.measured = {}
      /\ DOMAIN NoRun.result = {} /\ NoRun.snap = NoContext /\ NothingUsed.entries = {}
  BY DEF NoRun, NothingUsed
<1>3. Placed'
  BY <1>1, <1>2 DEF Retains, Placed, Labels
<1>4. Stocked'
  BY <1>1, NoFactsTidy DEF Retains, Stocked
<1>5. Serves' /\ Contexted' /\ Counted'
  BY <1>1, <1>2 DEF Serves, Contexted, Counted, Working
<1>6. Using'
  BY <1>1, <1>2, NothingUsedRecent DEF Using
<1> QED
  BY <1>3, <1>4, <1>5, <1>6 DEF Retains

LEMMA LeaveRetains == Retains /\ (Leave \/ Publish \/ Fail) => Retains'
<1> SUFFICES ASSUME Retains, Leave \/ Publish \/ Fail PROVE Retains'
  OBVIOUS
<1>1. End /\ (stored' = stored \/ stored' = facts) /\ UNCHANGED world
  BY DEF Leave, Publish, Fail, environment
<1> QED
  BY <1>1, EndRetains

LEMMA LoseRetains == Retains /\ Lose => Retains'
<1> SUFFICES ASSUME Retains, Lose PROVE Retains'
  OBVIOUS
<1>1. stored' = Miss /\ UNCHANGED <<world, pc, run, facts>>
  BY DEF Lose, environment
<1> QED
  BY <1>1 DEF Retains, Placed, Stocked, Serves, Contexted, Counted, Using, Working, Wanted

LEMMA CompactRetains == Retains /\ Compact => Retains'
<1> SUFFICES ASSUME Retains, Compact PROVE Retains'
  OBVIOUS
<1>1. pc' = "fit" /\ facts' \in Compacted(facts, Limit) /\ UNCHANGED <<world, stored>>
  BY DEF Compact, environment
<1>2. PICK room \in Rooms :
        run' = [NoRun EXCEPT !.hit = run.hit, !.original = run.original, !.room = room]
  BY DEF Compact
<1>3. /\ DOMAIN run' = DOMAIN NoRun
      /\ run'.used = NothingUsed /\ run'.before = NoContext /\ run'.todo = {}
      /\ run'.requested = {} /\ DOMAIN run'.hits = {} /\ DOMAIN run'.measured = {}
      /\ DOMAIN run'.result = {} /\ run'.snap = NoContext /\ NothingUsed.entries = {}
  BY <1>2 DEF NoRun, NothingUsed
<1>4. Placed'
  BY <1>1, <1>3 DEF Retains, Placed, Labels
<1>5. Stocked'
  BY <1>1, CompactedTidy, LimitAssumption DEF Retains, Stocked
<1>6. Serves' /\ Contexted' /\ Counted'
  BY <1>1, <1>3 DEF Serves, Contexted, Counted, Working
<1>7. Using'
  BY <1>1, <1>3, NothingUsedRecent DEF Using
<1> QED
  BY <1>4, <1>5, <1>6, <1>7 DEF Retains

LEMMA FitRetains ==
  Retains /\ (GiveUpDiff \/ GiveUpMetadata \/ GiveUpGraph \/ Admit) => Retains'
<1> SUFFICES ASSUME Retains, GiveUpDiff \/ GiveUpMetadata \/ GiveUpGraph \/ Admit PROVE Retains'
  OBVIOUS
<1>1. pc = "fit" /\ UNCHANGED <<world, stored, lived>>
  BY DEF GiveUpDiff, GiveUpMetadata, GiveUpGraph, Admit, Fitting, environment
<1>2. Tidy(facts) /\ NoEmptyScope(facts) /\ run.used = NothingUsed /\ NothingUsed.entries = {}
  BY <1>1 DEF Retains, Stocked, Using, NothingUsed
<1>3. ASSUME facts' \in DropDiff(facts) \cup HalveMetadata(facts) \cup HalveGraph(facts),
             UNCHANGED <<pc, run>>
      PROVE  Retains'
  <2>1. Tidy(facts') /\ NoEmptyScope(facts')
    BY <1>2, <1>3, DropTidy, HalveMetadataTidy, HalveGraphTidy
  <2>2. Stocked'
    BY <1>1, <2>1 DEF Retains, Stocked
  <2>3. Placed' /\ Serves' /\ Contexted' /\ Counted'
    BY <1>1, <1>3 DEF Retains, Placed, Serves, Contexted, Counted, Working, Wanted
  <2>4. Using'
    BY <1>1, <1>2, <1>3, NothingUsedRecent DEF Retains, Using
  <2> QED
    BY <2>2, <2>3, <2>4 DEF Retains
<1>4. CASE GiveUpDiff \/ GiveUpMetadata \/ GiveUpGraph
  BY <1>3, <1>4 DEF GiveUpDiff, GiveUpMetadata, GiveUpGraph
<1>5. CASE Admit
  <2>1. /\ pc' = "publish" /\ facts' = facts
        /\ run' = [run EXCEPT !.encoded = Fits(facts)]
    BY <1>5 DEF Admit
  <2>2. /\ DOMAIN run' = DOMAIN run /\ run'.used = run.used /\ run'.before = run.before
        /\ run'.snap = run.snap /\ run'.lanes = run.lanes
        /\ run'.todo = run.todo /\ run'.requested = run.requested /\ run'.hits = run.hits
        /\ run'.measured = run.measured /\ run'.result = run.result /\ run'.final = run.final
    BY <2>1 DEF Retains, Placed, NoRun
  <2>3. Placed' /\ Stocked'
    BY <1>1, <2>1, <2>2 DEF Retains, Placed, Stocked, Labels
  <2>4. Serves' /\ Contexted'
    BY <2>1, <2>2 DEF Retains, Serves, Contexted, Working
  <2>5. Counted'
    BY <1>1, <2>1, <2>2 DEF Retains, Counted, Wanted
  <2>6. Using'
    BY <1>2, <2>1, <2>2, NothingUsedRecent DEF Using
  <2> QED
    BY <2>3, <2>4, <2>5, <2>6 DEF Retains
<1> QED
  BY <1>4, <1>5

LEMMA StartRetains ==
  ASSUME Retains, NEW mode, NEW hit, NEW analysis \in Analyses, NEW captured,
         Start(mode, hit, analysis, captured)
  PROVE  Retains'
<1>1. /\ pc' \in {"ask", "count"} /\ UNCHANGED <<world, stored>>
      /\ facts' = IF mode = "use" /\ stored # Miss THEN stored ELSE NoFacts
      /\ pc' = "ask" => mode # "uncached"
  BY DEF Start, environment
<1>2. /\ DOMAIN run' = DOMAIN NoRun
      /\ run'.lanes = analysis.lanes
      /\ mode # "uncached" => run'.asks = analysis.asks
      /\ run'.used = NothingUsed /\ run'.before = NoContext /\ run'.todo = {}
      /\ run'.requested = {} /\ DOMAIN run'.hits = {} /\ DOMAIN run'.measured = {}
      /\ DOMAIN run'.result = {} /\ run'.snap = NoContext
  BY DEF Start, NoRun
<1>3. NothingUsed.entries = {} /\ NothingUsed.trees = {}
  BY DEF NothingUsed
<1>4. Placed'
  BY <1>1, <1>2 DEF Retains, Placed, Labels
<1>5. Stocked'
  BY <1>1, NoFactsTidy DEF Retains, Stocked
<1>6. Serves' /\ Contexted' /\ Counted'
  BY <1>1, <1>2, AnalysesAssumption DEF Serves, Contexted, Counted
<1>7. Using'
  BY <1>1, <1>2, <1>3, NothingUsedRecent DEF Using
<1> QED
  BY <1>4, <1>5, <1>6, <1>7 DEF Retains

\* Only the tables matter.
LEMMA RecentlyUsed ==
  ASSUME NEW f, NEW used, Recent(f, used), NEW same,
         same.bases = used.bases, same.distances = used.distances,
         same.metadata = used.metadata, same.trees = used.trees
  PROVE  Recent(f, same)
BY DEF Recent, KeysOf

LEMMA AskRetains == Retains /\ Ask => Retains'
<1> SUFFICES ASSUME Retains, Ask PROVE Retains'
  OBVIOUS
<1> DEFINE table == Head(run.asks)[1]
           key == Head(run.asks)[2]
           known == key \in facts[table]
           kept == known \/ Cardinality(facts[table]) < QueryLimit
           touched == Answering(facts, table, key)
           now == UsingAnswer(run.used, table, key)
<1>1. /\ pc = "ask" /\ pc' = "ask" /\ run.asks # <<>> /\ UNCHANGED <<world, stored>>
      /\ facts' = IF kept THEN touched ELSE facts
      /\ run' = [run EXCEPT !.asks = Tail(@), !.new = @ \/ (kept /\ ~known),
                            !.used[table] = IF kept THEN @ \cup {key} ELSE @]
  BY DEF Ask, environment, Answering
<1>2. run.asks \in Seq(Asked)
  BY <1>1 DEF Retains, Serves, Working
<1>3. Head(run.asks) \in Asked /\ Tail(run.asks) \in Seq(Asked)
  BY <1>1, <1>2
<1>4. /\ table \in {"bases", "distances", "metadata"}
      /\ table = "metadata" => key \in Commits
  BY <1>3, AnalysesAssumption
<1> HIDE DEF table, key
<1>5. /\ Tidy(touched) /\ touched.diff = facts.diff
      /\ DOMAIN now = DOMAIN NothingUsed /\ Recent(touched, now)
      /\ now.entries = run.used.entries
  <2>1. Tidy(facts) /\ DOMAIN run.used = DOMAIN NothingUsed /\ Recent(facts, run.used)
    BY DEF Retains, Placed, Stocked, Using
  <2> QED
    BY <1>4, <2>1, AskedKept
<1>6. now.trees = run.used.trees
  BY <1>4 DEF Retains, Placed, NothingUsed, UsingAnswer
<1>7. /\ DOMAIN run' = DOMAIN NoRun
      /\ run'.asks = Tail(run.asks)
      /\ run'.used = IF kept THEN now ELSE [run.used EXCEPT ![table] = @]
      /\ run'.before = run.before /\ run'.snap = run.snap /\ run'.lanes = run.lanes
      /\ run'.todo = run.todo /\ run'.requested = run.requested /\ run'.hits = run.hits
      /\ run'.measured = run.measured /\ run'.result = run.result /\ run'.final = run.final
  <2> HIDE DEF kept, known
  <2>1. run'.used = [run.used EXCEPT ![table] = IF kept THEN @ \cup {key} ELSE @]
    BY <1>1 DEF Retains, Placed, NoRun
  <2>2. run'.used = IF kept THEN now ELSE [run.used EXCEPT ![table] = @]
    BY <2>1 DEF UsingAnswer
  <2> QED
    BY <1>1, <2>2 DEF Retains, Placed, NoRun
<1>13. /\ DOMAIN run'.used = DOMAIN NothingUsed
      /\ run'.used.trees = run.used.trees /\ run'.used.entries = run.used.entries
      /\ Recent(facts', run'.used)
  <2>1. CASE kept
    BY <2>1, <1>1, <1>5, <1>6, <1>7
  <2>2. CASE ~kept
    <3> DEFINE same == [run.used EXCEPT ![table] = @]
    <3>1. /\ DOMAIN same = DOMAIN NothingUsed
          /\ same.bases = run.used.bases /\ same.distances = run.used.distances
          /\ same.metadata = run.used.metadata /\ same.trees = run.used.trees
          /\ same.entries = run.used.entries
      BY <1>4 DEF Retains, Placed, NothingUsed
    <3>2. run'.used = same /\ facts' = facts
      BY <2>2, <1>1, <1>7
    <3> HIDE DEF same
    <3> QED
      BY <3>1, <3>2, RecentlyUsed DEF Retains, Using
  <2> QED
    BY <2>1, <2>2
<1> HIDE DEF kept, touched, now
<1>8. Placed'
  BY <1>1, <1>7, <1>13 DEF Retains, Placed
<1>9. Stocked'
  BY <1>1, <1>5 DEF Retains, Stocked
<1>10. Serves'
  BY <1>1, <1>3, <1>7 DEF Retains, Serves, Working
<1>11. Contexted' /\ Counted'
  BY <1>1, <1>7 DEF Retains, Contexted, Counted, Wanted
<1>12. Using'
  BY <1>1, <1>5, <1>7, <1>13 DEF Retains, Using
<1> QED
  BY <1>8, <1>9, <1>10, <1>11, <1>12 DEF Retains

\* What the command shows, and what it goes on to measure.
LEMMA ShowRetains ==
  ASSUME Retains, Working, NEW result, NEW r, Show(result, r),
         DOMAIN r = DOMAIN NoRun, DOMAIN r.used = DOMAIN NothingUsed,
         DOMAIN r.snap = DOMAIN NoContext, r.lanes = run.lanes,
         r.todo = {}, r.requested \subseteq Wanted,
         DOMAIN r.hits \subseteq Wanted, \A t \in DOMAIN r.hits : r.hits[t] \in Stat,
         DOMAIN result \subseteq Wanted, \A t \in DOMAIN result : result[t] \in Stat,
         Tidy(facts'), Recent(facts', r.used), Current(facts'.diff.scopes, r.used.entries),
         UNCHANGED <<world, stored>>
  PROVE  Retains'
<1>1. /\ pc' = "shown"
      /\ DOMAIN run' = DOMAIN NoRun
      /\ run'.result = result /\ run'.before = NoContext /\ run'.snap = r.snap
      /\ run'.lanes = run.lanes /\ run'.hits = r.hits
      /\ run'.todo = {} /\ run'.requested = r.requested /\ run'.used = r.used
      /\ DOMAIN run'.measured = {}
  BY ShowEffect
<1>2. Wanted' = Wanted
  BY <1>1 DEF Wanted
<1>3. Placed' /\ Stocked' /\ Serves'
  BY <1>1 DEF Retains, Placed, Stocked, Serves, Working, Labels
<1>4. Contexted' /\ Counted'
  BY <1>1, <1>2, WantedIs DEF Contexted, Counted
<1>5. Using'
  BY <1>1 DEF Using
<1> QED
  BY <1>3, <1>4, <1>5 DEF Retains

LEMMA MeasureRetains ==
  ASSUME Retains, Working, NEW pairs, NEW final, NEW r, Measure(pairs, final, r),
         DOMAIN r = DOMAIN NoRun, DOMAIN r.used = DOMAIN NothingUsed,
         DOMAIN r.snap = DOMAIN NoContext, r.lanes = run.lanes,
         r.before = run.before, ~final => run.before # NoContext,
         pairs \subseteq Wanted, r.requested \subseteq Wanted,
         DOMAIN r.hits \cap pairs # {} => final,
         DOMAIN r.hits \subseteq Wanted, \A t \in DOMAIN r.hits : r.hits[t] \in Stat,
         r.result = run.result,
         Tidy(facts'), Recent(facts', r.used), Current(facts'.diff.scopes, r.used.entries),
         \A e \in r.used.entries : run.before # NoContext /\ e[1] = run.before.scope,
         UNCHANGED <<world, stored>>
  PROVE  Retains'
<1>1. /\ pc' = "launch"
      /\ DOMAIN run' = DOMAIN NoRun
      /\ run'.todo = pairs /\ run'.final = final
      /\ run'.before = run.before /\ run'.snap = r.snap
      /\ run'.lanes = run.lanes /\ run'.hits = r.hits /\ run'.requested = r.requested
      /\ run'.used = r.used /\ run'.result = run.result
      /\ DOMAIN run'.measured = {}
  BY MeasureEffect
<1>2. Wanted' = Wanted
  BY <1>1 DEF Wanted
<1>3. Placed' /\ Stocked' /\ Serves'
  BY <1>1 DEF Retains, Placed, Stocked, Serves, Working, Labels
<1>4. Contexted'
  BY <1>1 DEF Retains, Contexted
<1>5. Counted'
  BY <1>1, <1>2 DEF Retains, Counted
<1>6. Using'
  BY <1>1 DEF Using
<1> QED
  BY <1>3, <1>4, <1>5, <1>6 DEF Retains

\* The layers are counted, or their counts looked for.
LEMMA CountRetains == Retains /\ Count => Retains'
<1> SUFFICES ASSUME Retains, Count PROVE Retains'
  OBVIOUS
<1> DEFINE pairs == CommitPairs(run.lanes)
           ids == CommitIds(pairs)
           cached == pc = "ask" /\ pairs # {}
           r == IF cached
                THEN [run EXCEPT !.requested = Wanted,
                                 !.new = @ \/ ~(ids \subseteq facts.diff.trees),
                                 !.used.trees = ids]
                ELSE run
           now == [run.used EXCEPT !.trees = ids]
<1>1. pc \in {"ask", "count"} /\ Working /\ UNCHANGED <<world, stored>>
  BY DEF Count, environment, Working
<1>2. facts' = IF cached THEN WithTrees(facts, ids) ELSE facts
  BY DEF Count
<1>3. \/ Wanted = {} /\ Show(<<>>, r)
      \/ Measure(Wanted, TRUE, r)
      \/ cached /\ run' = r /\ pc' = "config"
  BY DEF Count, Wanted
<1>4. IsFiniteSet(ids) /\ ids \in SUBSET Commits
  <2>1. PICK analysis \in Analyses : run.lanes = analysis.lanes
    BY <1>1 DEF Retains, Serves
  <2>2. IsFiniteSet(ids)
    BY <2>1, PairsFinite
  <2>3. ids \subseteq Commits
    BY DEF CommitIds
  <2> QED
    BY <2>2, <2>3
<1> HIDE DEF ids
<1>5. cached => /\ Tidy(facts') /\ facts'.diff.scopes = facts.diff.scopes
                /\ DOMAIN now = DOMAIN NothingUsed /\ Recent(facts', now)
                /\ now.entries = run.used.entries
  <2> SUFFICES ASSUME cached
               PROVE  /\ Tidy(facts') /\ facts'.diff.scopes = facts.diff.scopes
                      /\ DOMAIN now = DOMAIN NothingUsed /\ Recent(facts', now)
                      /\ now.entries = run.used.entries
    OBVIOUS
  <2>1. /\ Tidy(facts) /\ DOMAIN run.used = DOMAIN NothingUsed /\ Recent(facts, run.used)
        /\ run.used.trees = {}
    BY DEF Retains, Placed, Stocked, Using
  <2> QED
    BY <1>2, <1>4, <2>1, TreesKept
<1>6. /\ DOMAIN r = DOMAIN NoRun
      /\ r.used = IF cached THEN now ELSE run.used
      /\ r.requested = IF cached THEN Wanted ELSE run.requested
      /\ r.lanes = run.lanes /\ r.before = run.before /\ r.snap = run.snap /\ r.todo = run.todo
      /\ r.hits = run.hits /\ r.measured = run.measured /\ r.result = run.result
      /\ r.final = run.final
  <2> HIDE DEF cached
  <2> QED
    BY DEF Retains, Placed, NoRun
<1> HIDE DEF r, now, cached
<1>7. /\ DOMAIN r.used = DOMAIN NothingUsed /\ DOMAIN r.snap = DOMAIN NoContext
      /\ r.todo = {} /\ r.requested \subseteq Wanted
      /\ Tidy(facts') /\ Recent(facts', r.used) /\ Current(facts'.diff.scopes, r.used.entries)
      /\ r.used.entries = run.used.entries
  BY <1>1, <1>2, <1>5, <1>6 DEF Retains, Placed, Stocked, Counted, Using
<1>8. /\ DOMAIN run.hits \subseteq Wanted /\ \A t \in DOMAIN run.hits : run.hits[t] \in Stat
      /\ \A e \in run.used.entries : run.before # NoContext /\ e[1] = run.before.scope
  BY <1>1 DEF Retains, Counted, Using
<1>9. CASE Wanted = {} /\ Show(<<>>, r)
  <2>1. DOMAIN <<>> = {}
    OBVIOUS
  <2> QED
    BY <1>1, <1>6, <1>7, <1>8, <1>9, <2>1, ShowRetains
<1>10. CASE Measure(Wanted, TRUE, r)
  BY <1>1, <1>6, <1>7, <1>8, <1>10, MeasureRetains
<1>11. CASE cached /\ run' = r /\ pc' = "config"
  <2>1. Wanted' = Wanted
    BY <1>6, <1>11 DEF Wanted
  <2>2. Placed' /\ Stocked' /\ Serves'
    BY <1>1, <1>6, <1>7, <1>11 DEF Retains, Placed, Stocked, Serves, Working, Labels
  <2>3. Contexted'
    BY <1>6, <1>11 DEF Retains, Contexted
  <2>4. Counted'
    BY <1>6, <1>7, <1>11, <2>1 DEF Retains, Counted
  <2>5. Using'
    BY <1>6, <1>7, <1>8, <1>11 DEF Using
  <2> QED
    BY <2>2, <2>3, <2>4, <2>5 DEF Retains
<1> QED
  BY <1>3, <1>9, <1>10, <1>11

\* Steps of a capture, of a launch and of measurement leave the facts alone.
LEMMA ReadRetains == Retains /\ (ReadConfig \/ ReadAttributes \/ Launch) => Retains'
<1> SUFFICES ASSUME Retains, ReadConfig \/ ReadAttributes \/ Launch PROVE Retains'
  OBVIOUS
<1>1. /\ pc \in {"config", "attributes", "launch"}
      /\ pc = "config" => pc' = "attributes"
      /\ pc = "attributes" => pc' = "executable"
      /\ pc = "launch" => pc' = "measure"
      /\ UNCHANGED <<world, stored, facts>>
  BY DEF ReadConfig, ReadAttributes, Launch, environment
<1>2. /\ DOMAIN run' = DOMAIN NoRun
      /\ DOMAIN run'.snap = DOMAIN NoContext
      /\ run'.used = run.used /\ run'.before = run.before /\ run'.lanes = run.lanes
      /\ run'.todo = run.todo /\ run'.requested = run.requested /\ run'.hits = run.hits
      /\ run'.measured = run.measured /\ run'.result = run.result /\ run'.final = run.final
  BY DEF ReadConfig, ReadAttributes, Launch, Retains, Placed, NoRun, NoContext
<1>3. pc' = "measure" =>
        /\ run'.launched.scope \in Executables /\ run'.launched.configuration \in Configs
        /\ DOMAIN run'.launched = DOMAIN NoContext
  <2> SUFFICES ASSUME pc' = "measure"
               PROVE  /\ run'.launched.scope \in Executables
                      /\ run'.launched.configuration \in Configs
                      /\ DOMAIN run'.launched = DOMAIN NoContext
    OBVIOUS
  <2>1. run'.launched = [NoContext EXCEPT !.scope = world.executable,
                                          !.configuration = world.config]
    BY <1>1 DEF ReadConfig, ReadAttributes, Launch, Retains, Placed, NoRun
  <2>2. world.executable \in Executables /\ world.config \in Configs
    BY DEF Retains, Placed, World
  <2> QED
    BY <2>1, <2>2 DEF NoContext
<1>4. Placed' /\ Stocked' /\ Serves'
  BY <1>1, <1>2 DEF Retains, Placed, Stocked, Serves, Working, Labels
<1>5. Contexted'
  BY <1>1, <1>2, <1>3 DEF Retains, Contexted
<1>6. Counted'
  BY <1>1, <1>2 DEF Retains, Counted, Wanted
<1>7. Using'
  BY <1>1, <1>2 DEF Retains, Using
<1> QED
  BY <1>4, <1>5, <1>6, <1>7 DEF Retains

LEMMA ExecutableRetains == Retains /\ ReadExecutable => Retains'
<1> SUFFICES ASSUME Retains, ReadExecutable PROVE Retains'
  OBVIOUS
<1> DEFINE context == [run.snap EXCEPT !.scope = world.executable]
<1>1. /\ pc = "executable" /\ UNCHANGED <<world, stored, facts>>
      /\ run' = IF First THEN [run EXCEPT !.before = context, !.snap = NoContext]
                ELSE [run EXCEPT !.after = context, !.snap = NoContext]
      /\ pc' = IF First THEN "lookup" ELSE "decide"
  BY DEF ReadExecutable, environment
<1>2. context.scope \in Executables /\ context # NoContext
  <2>1. context.scope = world.executable /\ world.executable \in Executables
    BY DEF Retains, Placed, World, NoContext
  <2> HIDE DEF context
  <2> QED
    BY <2>1, DiffAssumption DEF NoContext
<1> HIDE DEF context
<1>3. /\ DOMAIN run' = DOMAIN NoRun /\ run'.snap = NoContext
      /\ run'.before = IF First THEN context ELSE run.before
      /\ run'.used = run.used /\ run'.lanes = run.lanes
      /\ run'.todo = run.todo /\ run'.requested = run.requested /\ run'.hits = run.hits
      /\ run'.measured = run.measured /\ run'.result = run.result /\ run'.final = run.final
  BY <1>1 DEF Retains, Placed, NoRun
<1>4. Placed' /\ Stocked' /\ Serves'
  BY <1>1, <1>3 DEF Retains, Placed, Stocked, Serves, Working, Labels
<1>5. Contexted'
  BY <1>1, <1>2, <1>3 DEF Retains, Contexted, First
<1>6. Counted'
  BY <1>1, <1>3 DEF Retains, Counted, Wanted
<1>7. Using'
  BY <1>1, <1>3 DEF Retains, Using, First
<1> QED
  BY <1>4, <1>5, <1>6, <1>7 DEF Retains

LEMMA UnsupportedRetains == Retains /\ Unsupported => Retains'
<1> SUFFICES ASSUME Retains, Unsupported PROVE Retains'
  OBVIOUS
<1>1. pc = "executable" /\ Working /\ UNCHANGED <<world, stored, facts>>
  BY DEF Unsupported, environment, Working
<1>2. CASE First /\ Measure(run.requested, TRUE, run)
  <2>1. /\ DOMAIN run = DOMAIN NoRun /\ DOMAIN run.used = DOMAIN NothingUsed
        /\ DOMAIN run.snap = DOMAIN NoContext /\ run.requested \subseteq Wanted
        /\ DOMAIN run.hits \subseteq Wanted /\ \A t \in DOMAIN run.hits : run.hits[t] \in Stat
        /\ Tidy(facts') /\ Recent(facts', run.used) /\ Current(facts'.diff.scopes, run.used.entries)
        /\ \A e \in run.used.entries : run.before # NoContext /\ e[1] = run.before.scope
    BY <1>1 DEF Retains, Placed, Stocked, Counted, Using
  <2> QED
    BY <1>1, <1>2, <2>1, MeasureRetains
<1>3. CASE ~First /\ run' = [run EXCEPT !.snap = NoContext] /\ pc' = "decide"
  <2>1. /\ DOMAIN run' = DOMAIN NoRun /\ run'.snap = NoContext
        /\ run'.before = run.before
        /\ run'.used = run.used /\ run'.lanes = run.lanes
        /\ run'.todo = run.todo /\ run'.requested = run.requested /\ run'.hits = run.hits
        /\ run'.measured = run.measured /\ run'.result = run.result /\ run'.final = run.final
    BY <1>3 DEF Retains, Placed, NoRun
  <2>2. Placed' /\ Stocked' /\ Serves'
    BY <1>1, <1>3, <2>1 DEF Retains, Placed, Stocked, Serves, Working, Labels
  <2>3. Contexted'
    BY <1>1, <1>3, <2>1 DEF Retains, Contexted, First
  <2>4. Counted'
    BY <1>1, <1>3, <2>1 DEF Retains, Counted, Wanted
  <2>5. Using'
    BY <1>1, <1>3, <2>1 DEF Retains, Using
  <2> QED
    BY <2>2, <2>3, <2>4, <2>5 DEF Retains
<1> QED
  BY <1>2, <1>3 DEF Unsupported

\* Whatever the world becomes.
LEMMA ChangeRetains ==
  ASSUME Retains, NEW w \in World, Change(w)
  PROVE  Retains'
<1>1. world' = w /\ UNCHANGED <<stored, pc, run, facts>>
  BY DEF Change
<1> QED
  BY <1>1 DEF Retains, Placed, Stocked, Serves, Contexted, Counted, Using, Working, Wanted

\* Reuse, measurement and retention.
LEMMA LookupRetains == Retains /\ Lookup => Retains'
<1> SUFFICES ASSUME Retains, Lookup PROVE Retains'
  OBVIOUS
<1> DEFINE s == run.before.scope
           hits == IF s \in Scopes(facts)
                   THEN {t \in run.requested \cap DOMAIN facts.diff.scopes[s].values :
                            Valid(Value(facts, s, t), run.before, t)}
                   ELSE {}
           entries == {<<s, t>> : t \in hits}
           found == [t \in hits |-> Value(facts, s, t).stat]
           r == [run EXCEPT !.hits = found, !.used.entries = entries]
<1>1. /\ pc = "lookup" /\ Working /\ UNCHANGED <<world, stored>>
      /\ DOMAIN run = DOMAIN NoRun /\ DOMAIN run.used = DOMAIN NothingUsed
      /\ DOMAIN run.snap = DOMAIN NoContext /\ run.before # NoContext
      /\ run.todo = {} /\ run.requested \subseteq Wanted
      /\ Tidy(facts) /\ Recent(facts, run.used)
  BY DEF Lookup, environment, Working, Retains, Placed, Stocked, Contexted, Counted, Using
<1>2. \/ Show(found, r)
      \/ Measure(run.requested \ hits, FALSE, r)
  BY DEF Lookup
<1>3. /\ Tidy(facts') /\ Recent(facts', run.used) /\ Current(facts'.diff.scopes, entries)
  <2>1. CASE s \in Scopes(facts)
    <3>1. hits \in SUBSET DOMAIN facts.diff.scopes[s].values /\ facts' = Refreshed(facts, s, hits)
      BY <2>1 DEF Lookup
    <3> HIDE DEF hits, s
    <3> QED
      BY <1>1, <2>1, <3>1, RefreshedKept
  <2>2. CASE s \notin Scopes(facts)
    <3>1. entries = {} /\ facts' = [facts EXCEPT !.diff.clock = @ + 1]
      BY <2>2 DEF Lookup
    <3>2. Tidy(facts') /\ Recent(facts', run.used)
      BY <1>1, <3>1, TickedKept
    <3> QED
      BY <3>1, <3>2 DEF Current
  <2> QED
    BY <2>1, <2>2
<1>4. /\ hits \subseteq run.requested /\ DOMAIN found = hits
      /\ \A t \in hits : found[t] \in Stat
  <2>1. ASSUME NEW t \in hits PROVE found[t] \in Stat
    <3>1. s \in DOMAIN facts.diff.scopes /\ t \in DOMAIN facts.diff.scopes[s].values
      BY <2>1 DEF Scopes
    <3>2. TidyValue(facts.diff.scopes[s].values[t], facts.diff.clock)
      BY <1>1, <3>1 DEF Tidy, TidyDiff, TidyScopes, TidyScope
    <3> QED
      BY <3>2 DEF TidyValue, Value
  <2> QED
    BY <2>1
<1> HIDE DEF found, entries, hits
<1>5. /\ DOMAIN r = DOMAIN NoRun /\ r.hits = found
      /\ r.used = [run.used EXCEPT !.entries = entries]
      /\ r.lanes = run.lanes /\ r.before = run.before /\ r.snap = run.snap /\ r.todo = run.todo
      /\ r.requested = run.requested /\ r.result = run.result
  BY <1>1 DEF NoRun
<1> HIDE DEF r
<1>6. /\ DOMAIN r.used = DOMAIN NothingUsed /\ r.used.entries = entries
      /\ r.used.bases = run.used.bases /\ r.used.distances = run.used.distances
      /\ r.used.metadata = run.used.metadata /\ r.used.trees = run.used.trees
  BY <1>1, <1>5 DEF NothingUsed
<1>7. Recent(facts', r.used)
  BY <1>3, <1>6, RecentlyUsed
<1>8. \A e \in entries : e[1] = run.before.scope
  BY DEF entries
<1> DEFINE missing == run.requested \ hits
<1>9. /\ r.requested \subseteq Wanted /\ DOMAIN r.hits \subseteq Wanted
      /\ \A t \in DOMAIN r.hits : r.hits[t] \in Stat
      /\ DOMAIN found \subseteq Wanted /\ \A t \in DOMAIN found : found[t] \in Stat
      /\ missing \subseteq Wanted
      /\ DOMAIN r.hits \cap missing = {}
  BY <1>1, <1>4, <1>5
<1>10. /\ DOMAIN r.snap = DOMAIN NoContext /\ r.todo = {}
       /\ Current(facts'.diff.scopes, r.used.entries)
       /\ \A e \in r.used.entries : run.before # NoContext /\ e[1] = run.before.scope
  BY <1>1, <1>3, <1>5, <1>6, <1>8
<1>11. /\ DOMAIN r.used = DOMAIN NothingUsed /\ Tidy(facts') /\ UNCHANGED <<world, stored>>
       /\ Working
  BY <1>1, <1>3, <1>6
<1>12. DOMAIN r = DOMAIN NoRun /\ r.lanes = run.lanes /\ r.before = run.before /\ r.result = run.result
  BY <1>5
<1>13. Show(found, r) \/ Measure(missing, FALSE, r)
  BY <1>2
<1> HIDE DEF missing
<1>14. CASE Show(found, r)
  BY <1>7, <1>9, <1>10, <1>11, <1>12, <1>14, ShowRetains
<1>15. CASE Measure(missing, FALSE, r)
  BY <1>1, <1>7, <1>9, <1>10, <1>11, <1>12, <1>15, MeasureRetains
<1> QED
  BY <1>13, <1>14, <1>15

\* What is counted of a pair that is wanted has its type.
LEMMA CountIsTyped ==
  ASSUME Retains, pc = "measure", NEW t \in Wanted
  PROVE  [pair |-> t, scope |-> run.launched.scope,
          fingerprint |-> Fingerprint([run.launched EXCEPT !.attributes = world.attributes],
                                      PathsOf[t])] \in Stat
<1> DEFINE k == [run.launched EXCEPT !.attributes = world.attributes]
<1>1. /\ run.launched.scope \in Executables /\ run.launched.configuration \in Configs
      /\ DOMAIN run.launched = DOMAIN NoContext /\ world.attributes \in [Paths -> Attrs]
  BY DEF Retains, Contexted, Placed, World
<1>2. k.configuration = run.launched.configuration /\ k.attributes = world.attributes
  BY <1>1 DEF NoContext
<1>3. t \in Pairs /\ PathsOf[t] \subseteq Paths
  BY WantedIs, DiffAssumption DEF Working, Pairs
<1> HIDE DEF k
<1>4. Restrict(k.attributes, PathsOf[t]) \in [PathsOf[t] -> Attrs]
  BY <1>1, <1>2, <1>3 DEF Restrict
<1>5. Restrict(k.attributes, PathsOf[t]) \in UNION {[q -> Attrs] : q \in SUBSET Paths}
  BY <1>3, <1>4
<1> QED
  BY <1>1, <1>2, <1>3, <1>5 DEF Stat, Fingerprint, k

LEMMA MeasurePairRetains == Retains /\ MeasurePair => Retains'
<1> SUFFICES ASSUME Retains, MeasurePair PROVE Retains'
  OBVIOUS
<1>1. /\ pc = "measure" /\ Working /\ UNCHANGED <<world, stored, facts>>
      /\ DOMAIN run = DOMAIN NoRun /\ DOMAIN run.used = DOMAIN NothingUsed
      /\ DOMAIN run.snap = DOMAIN NoContext
      /\ Tidy(facts) /\ Recent(facts, run.used) /\ Current(facts.diff.scopes, run.used.entries)
  BY DEF MeasurePair, environment, Working, Retains, Placed, Stocked, Using
<1>2. PICK t \in run.todo :
        LET stat == [pair |-> t, scope |-> run.launched.scope,
                     fingerprint |->
                        Fingerprint([run.launched EXCEPT !.attributes = world.attributes],
                                    PathsOf[t])]
            r == [run EXCEPT !.todo = @ \ {t}, !.measured = Over([u \in {t} |-> stat], @)]
        IN  IF r.todo # {} THEN run' = r /\ pc' = pc
            ELSE IF run.final THEN Show(r.measured, r)
            ELSE run' = [r EXCEPT !.launched = NoContext] /\ pc' = "config"
  BY DEF MeasurePair
<1> DEFINE stat == [pair |-> t, scope |-> run.launched.scope,
                    fingerprint |->
                       Fingerprint([run.launched EXCEPT !.attributes = world.attributes],
                                   PathsOf[t])]
           measured == Over([u \in {t} |-> stat], run.measured)
           r == [run EXCEPT !.todo = @ \ {t}, !.measured = measured]
<1>3. \/ run' = r /\ pc' = "measure"
      \/ r.todo = {} /\ Show(r.measured, r)
      \/ r.todo = {} /\ ~run.final /\ run' = [r EXCEPT !.launched = NoContext] /\ pc' = "config"
  BY <1>1, <1>2
<1>4. t \in Wanted
  BY DEF Retains, Counted
<1>5. stat \in Stat
  BY <1>1, <1>4, CountIsTyped
<1> HIDE DEF stat
<1>6. DOMAIN measured \subseteq Wanted /\ \A u \in DOMAIN measured : measured[u] \in Stat
  BY <1>4, <1>5 DEF Over, Retains, Counted
<1> HIDE DEF measured
<1>7. /\ DOMAIN r = DOMAIN NoRun
      /\ r.todo = run.todo \ {t} /\ r.measured = measured /\ r.launched = run.launched
      /\ r.lanes = run.lanes /\ r.requested = run.requested /\ r.final = run.final
      /\ r.before = run.before /\ r.snap = run.snap /\ r.hits = run.hits
      /\ r.used = run.used /\ r.result = run.result
  BY <1>1 DEF NoRun
<1> HIDE DEF r
<1>8. /\ run.requested \subseteq Wanted /\ run.todo \subseteq Wanted
      /\ DOMAIN run.hits \subseteq Wanted /\ \A u \in DOMAIN run.hits : run.hits[u] \in Stat
      /\ DOMAIN run.result \subseteq Pairs /\ \A u \in DOMAIN run.result : run.result[u] \in Stat
  BY DEF Retains, Counted
<1>9. CASE r.todo = {} /\ Show(r.measured, r)
  BY <1>1, <1>6, <1>7, <1>8, <1>9, ShowRetains
<1>10. CASE run' = r /\ pc' = "measure"
  <2>1. Placed' /\ Stocked' /\ Serves'
    BY <1>1, <1>7, <1>10 DEF Retains, Placed, Stocked, Serves, Working, Labels
  <2>2. Contexted'
    BY <1>1, <1>7, <1>10 DEF Retains, Contexted
  <2>3. Wanted' = Wanted
    BY <1>7, <1>10 DEF Wanted
  <2>4. Counted'
    BY <1>1, <1>6, <1>7, <1>8, <1>10, <2>3 DEF Retains, Counted
  <2>5. Using'
    BY <1>1, <1>7, <1>10 DEF Retains, Using
  <2> QED
    BY <2>1, <2>2, <2>4, <2>5 DEF Retains
<1>11. CASE r.todo = {} /\ ~run.final /\ run' = [r EXCEPT !.launched = NoContext] /\ pc' = "config"
  <2>1. /\ DOMAIN run' = DOMAIN NoRun
        /\ run'.todo = {} /\ run'.measured = measured
        /\ run'.lanes = run.lanes /\ run'.requested = run.requested /\ run'.final = run.final
        /\ run'.before = run.before /\ run'.snap = run.snap /\ run'.hits = run.hits
        /\ run'.used = run.used /\ run'.result = run.result
    BY <1>7, <1>11 DEF NoRun
  <2>2. Placed' /\ Stocked' /\ Serves'
    BY <1>1, <1>11, <2>1 DEF Retains, Placed, Stocked, Serves, Working, Labels
  <2>3. Contexted'
    BY <1>1, <1>11, <2>1 DEF Retains, Contexted
  <2>4. Wanted' = Wanted
    BY <2>1 DEF Wanted
  <2>5. Counted'
    BY <1>6, <1>8, <1>11, <2>1, <2>4 DEF Counted
  <2>6. Using'
    BY <1>1, <1>11, <2>1 DEF Retains, Using
  <2> QED
    BY <2>2, <2>3, <2>5, <2>6 DEF Retains
<1> QED
  BY <1>3, <1>9, <1>10, <1>11

LEMMA DecideRetains ==
  ASSUME Retains, NEW covered \in BOOLEAN, Decide(covered)
  PROVE  Retains'
<1> DEFINE both == Over(run.measured, run.hits)
<1>1. /\ pc = "decide" /\ Working /\ UNCHANGED <<world, stored>>
      /\ DOMAIN run = DOMAIN NoRun /\ DOMAIN run.used = DOMAIN NothingUsed
      /\ DOMAIN run.snap = DOMAIN NoContext
      /\ run.before # NoContext /\ run.before.scope \in Executables
      /\ Tidy(facts) /\ Recent(facts, run.used) /\ Current(facts.diff.scopes, run.used.entries)
      /\ \A e \in run.used.entries : e[1] = run.before.scope
      /\ run.todo = {}
  BY DEF Decide, environment, Working, Retains, Placed, Stocked, Using, Contexted, Counted
<1>2. /\ run.requested \subseteq Wanted
      /\ DOMAIN run.hits \subseteq Wanted /\ \A t \in DOMAIN run.hits : run.hits[t] \in Stat
      /\ DOMAIN run.measured \subseteq Wanted
      /\ \A t \in DOMAIN run.measured : run.measured[t] \in Stat
  BY DEF Retains, Counted
<1>3. DOMAIN both \subseteq Wanted /\ \A t \in DOMAIN both : both[t] \in Stat
  BY <1>2 DEF Over
<1> HIDE DEF both
<1>4. CASE Stable(covered)
  <2> DEFINE fresh == NewIn(facts', run.before.scope, run.measured)
             entries == run.used.entries \cup fresh
             r == [run EXCEPT !.new = TRUE, !.used.entries = entries]
  <2>1. facts' \in Retained(facts, run.before, run.measured) /\ Show(both, r)
    BY <1>4 DEF Decide, both, NewIn
  <2>2. IsFiniteSet(DOMAIN run.measured)
    BY <1>1, <1>2, WantedIs, FS_Subset
  <2>3. /\ Tidy(facts') /\ Recent(facts', run.used)
        /\ Current(facts'.diff.scopes, entries)
    <3>1. ASSUME NEW g \in Retained(facts, run.before, run.measured)
          PROVE  /\ Tidy(g) /\ (\A used : Recent(facts, used) => Recent(g, used))
                 /\ Current(g.diff.scopes,
                            run.used.entries \cup NewIn(g, run.before.scope, run.measured))
      <4> HIDE DEF entries, r
      <4>1. /\ Tidy(facts) /\ run.before.scope \in Executables /\ IsFiniteSet(DOMAIN run.measured)
            /\ \A t \in DOMAIN run.measured : run.measured[t] \in Stat
            /\ Current(facts.diff.scopes, run.used.entries)
            /\ \A e \in run.used.entries : e[1] = run.before.scope
        BY <1>1, <1>2, <2>2
      <4> QED
        BY <4>1, RetainedKept
    <3> HIDE DEF r
    <3> QED
      BY <1>1, <2>1, <3>1
  <2> HIDE DEF entries
  <2>4. /\ DOMAIN r = DOMAIN NoRun /\ r.used = [run.used EXCEPT !.entries = entries]
        /\ r.lanes = run.lanes /\ r.snap = run.snap /\ r.todo = run.todo
        /\ r.hits = run.hits /\ r.requested = run.requested
    BY <1>1 DEF NoRun
  <2> HIDE DEF r
  <2>5. /\ DOMAIN r.used = DOMAIN NothingUsed /\ r.used.entries = entries
        /\ r.used.bases = run.used.bases /\ r.used.distances = run.used.distances
        /\ r.used.metadata = run.used.metadata /\ r.used.trees = run.used.trees
    BY <1>1, <2>4 DEF NothingUsed
  <2>6. Recent(facts', r.used)
    BY <2>3, <2>5, RecentlyUsed
  <2> QED
    BY <1>1, <1>2, <1>3, <2>1, <2>3, <2>4, <2>5, <2>6, ShowRetains
<1>5. CASE ~Stable(covered)
  <2>1. facts' = facts /\ (Show(both, run) \/ Measure(run.requested, TRUE, run))
    BY <1>5 DEF Decide, both
  <2>2. Show(both, run) => Retains'
    BY <1>1, <1>2, <1>3, <2>1, ShowRetains
  <2>3. Measure(run.requested, TRUE, run) => Retains'
    BY <1>1, <1>2, <2>1, MeasureRetains
  <2> QED
    BY <2>1, <2>2, <2>3
<1> QED
  BY <1>4, <1>5

\* Every step keeps it.
LEMMA RetainsSteps == Retains /\ [Next]_vars => Retains'
<1> SUFFICES ASSUME Retains, [Next]_vars PROVE Retains'
  OBVIOUS
<1>1. CASE \E mode \in {"uncached", "use", "refresh"}, hit \in BOOLEAN,
             analysis \in Analyses, captured \in {world.config, Miss} :
               Start(mode, hit, analysis, captured)
  BY <1>1, StartRetains
<1>2. CASE Ask \/ Count \/ ReadConfig \/ ReadAttributes \/ ReadExecutable \/ Unsupported
             \/ Lookup \/ Launch \/ MeasurePair
  BY <1>2, AskRetains, CountRetains, ReadRetains, ExecutableRetains, UnsupportedRetains,
     LookupRetains, MeasurePairRetains
<1>3. CASE \E covered \in BOOLEAN : Decide(covered)
  BY <1>3, DecideRetains
<1>4. CASE Leave \/ Compact \/ GiveUpDiff \/ GiveUpMetadata \/ GiveUpGraph \/ Admit
             \/ Publish \/ Fail \/ Lose
  BY <1>4, LeaveRetains, CompactRetains, FitRetains, LoseRetains
<1>5. CASE ChangeExecutable \/ ChangeConfig \/ ChangeAttributes
  <2>1. PICK w \in World : Change(w)
    <3>1. /\ \A e \in Executables : [world EXCEPT !.executable = e] \in World
          /\ \A c \in Configs : [world EXCEPT !.config = c] \in World
          /\ \A p \in Volatile, a \in Attrs : [world EXCEPT !.attributes[p] = a] \in World
      BY DiffAssumption DEF Retains, Placed, World
    <3> QED
      BY <1>5, <3>1 DEF ChangeExecutable, ChangeConfig, ChangeAttributes
  <2> QED
    BY <2>1, ChangeRetains
<1>6. CASE UNCHANGED vars
  BY <1>6 DEF vars, environment, Retains, Placed, Stocked, Serves, Contexted, Counted, Using,
             Working, Wanted
<1> QED
  BY <1>1, <1>2, <1>3, <1>4, <1>5, <1>6 DEF Next

LEMMA Retention == Spec => []Retains
BY RetainsInitially, RetainsSteps, PTL DEF Spec

-----------------------------------------------------------------------------
(* The theorems of retention.                                              *)

\* Types, and the clocks of use, whatever changes and whatever was stored before:
\* no entry is from a time to come, so that the order of use is one order over
\* all commands that wrote the facts.
THEOREM StatisticsAreTyped == Spec => []TypeOK
<1>1. Retains => TypeOK
  <2> SUFFICES ASSUME Retains PROVE TypeOK
    OBVIOUS
  <2>1. TypedFacts(facts) /\ (stored # Miss => TypedFacts(stored))
    BY TidyIsTyped DEF Retains, Stocked
  <2> QED
    BY <2>1 DEF TypeOK, Retains, Placed, Counted
<1> QED
  BY <1>1, Retention, PTL

\* The loop of fit ends for every size of its entry: as long as it goes on there
\* is something left to give up, and each round gives up at least one answer.
THEOREM FittingEnds == Spec => []FitProgresses
<1>1. Retains => FitProgresses
  <2> DEFINE next == IF HasDiff(facts) THEN DropDiff(facts)
                     ELSE IF facts.metadata # {} THEN HalveMetadata(facts)
                     ELSE HalveGraph(facts)
  <2> SUFFICES ASSUME Retains, pc = "fit", Answered(facts) > 0
               PROVE  next # {} /\ \A f \in next : Answered(f) < Answered(facts)
    BY DEF FitProgresses
  <2>1. Tidy(facts) /\ NoEmptyScope(facts)
    BY DEF Retains, Stocked
  <2>2. CASE HasDiff(facts)
    <3>1. ASSUME NEW f \in DropDiff(facts) PROVE Answered(f) < Answered(facts)
      <4>1. /\ Tidy(f) /\ f.bases = facts.bases /\ f.distances = facts.distances
            /\ f.metadata = facts.metadata
            /\ Cardinality(f.diff.trees) + Cardinality(Entries(f.diff.scopes))
                 < Cardinality(facts.diff.trees) + Cardinality(Entries(facts.diff.scopes))
        BY <2>1, <2>2, <3>1, DropTidy
      <4>2. /\ Cardinality(f.bases) \in Nat /\ Cardinality(f.distances) \in Nat
            /\ Cardinality(f.metadata) \in Nat /\ Cardinality(f.diff.trees) \in Nat
            /\ Cardinality(Entries(f.diff.scopes)) \in Nat
            /\ Cardinality(facts.diff.trees) \in Nat
            /\ Cardinality(Entries(facts.diff.scopes)) \in Nat
        BY <2>1, <4>1, TidySizes
      <4> QED
        BY <4>1, <4>2 DEF Answered
    <3> QED
      BY <2>1, <2>2, <3>1, DropExists
  <2>3. CASE ~HasDiff(facts) /\ facts.metadata # {}
    BY <2>1, <2>3, HalveMetadataTidy, HalveMetadataExists
  <2>4. CASE ~HasDiff(facts) /\ facts.metadata = {}
    <3>1. HasGraph(facts)
      <4> SUFFICES ASSUME ~HasGraph(facts) PROVE FALSE
        OBVIOUS
      <4>1. Entries(facts.diff.scopes) = {}
        BY <2>4 DEF HasDiff, Entries
      <4>2. facts.diff.trees = {} /\ facts.bases = {} /\ facts.distances = {}
        BY <2>4 DEF HasDiff, HasGraph
      <4> QED
        BY <2>4, <4>1, <4>2, FS_EmptySet DEF Answered
    <3> QED
      BY <2>1, <2>4, <3>1, HalveGraphTidy
  <2> QED
    BY <2>2, <2>3, <2>4
<1> QED
  BY <1>1, Retention, PTL

\* What a command has used survives compaction unless it alone exceeds the
\* limit, whatever was stored before and whatever the limits are.
THEOREM UsedSurvives == Spec => JustUsedSurvives
<1> DEFINE Survives ==
      Compact =>
          /\ Cardinality(UsedKeys) <= Limit =>
                /\ run.used.bases \subseteq facts'.bases
                /\ run.used.distances \subseteq facts'.distances
                /\ run.used.metadata \subseteq facts'.metadata
                /\ run.used.trees \subseteq facts'.diff.trees
          /\ Cardinality(run.used.entries) <= Limit =>
                run.used.entries \subseteq Entries(facts'.diff.scopes)
<1>1. Retains => Survives
  <2> SUFFICES ASSUME Retains, Compact PROVE Survives
    OBVIOUS
  <2>1. /\ Tidy(facts) /\ Recent(facts, run.used)
        /\ Current(facts.diff.scopes, run.used.entries)
        /\ facts' \in Compacted(facts, Limit)
    BY DEF Retains, Stocked, Using, Compact
  <2>2. UsedKeys = KeysOf(run.used)
    BY DEF UsedKeys, KeysOf
  <2>3. Cardinality(UsedKeys) <= Limit =>
          /\ run.used.bases \subseteq facts'.bases
          /\ run.used.distances \subseteq facts'.distances
          /\ run.used.metadata \subseteq facts'.metadata
          /\ run.used.trees \subseteq facts'.diff.trees
    BY <2>1, <2>2, CompactKeepsKeys
  <2>4. Cardinality(run.used.entries) <= Limit =>
          run.used.entries \subseteq Entries(facts'.diff.scopes)
    BY <2>1, CompactKeepsEntries
  <2> QED
    BY <2>3, <2>4
<1>2. Retains => [Survives]_vars
  BY <1>1
<1> HIDE DEF Survives
<1>3. Spec => [][Survives]_vars
  BY <1>2, Retention, PTL
<1> QED
  BY <1>3 DEF JustUsedSurvives, Survives
=============================================================================
