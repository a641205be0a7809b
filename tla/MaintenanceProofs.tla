------------------------- MODULE MaintenanceProofs -------------------------
(***************************************************************************)
(* What a maintenance pass keeps, removes and leaves pending, and how far  *)
(* apart attempts are, for all commands, workers, limits and clocks.       *)
(***************************************************************************)
EXTENDS Maintenance, FiniteSetTheorems, TLAPS

\* A worker that has both locks and has listed the directory.
EvictingPass ==
    [at : {"evicting"}, retain : Slots, current : Times,
     found : [Slots -> File \cup {Nothing}],
     listed : SUBSET Slots, left : SUBSET Slots, unseen : SUBSET Slots,
     late : BOOLEAN, pending : BOOLEAN, reclaimed : Nat]

\* publication.lock is held by whoever is between reading and writing.
Holders ==
    /\ \A w \in Evicting : lock = w
    /\ \A c \in Commands : cmd[c] # Nothing /\ cmd[c].at = "counted" => lock = c

Condemned(p, s) == ShouldEvict(Index(p, s), p.found[s], s = p.retain, p.current)

Removed(p, d) == {s \in Slots : p.found[s] # Nothing /\ d[s] = Nothing}

\* What a pass p has made of the directory it has found, which is d by now: it has
\* removed condemned files only, whose sizes it has added up within its budget, and
\* unless work is pending all of them that it could see.
Sound(p, d) ==
    /\ \A s \in Slots : d[s] \in {p.found[s], Nothing}
    /\ \A s \in p.listed \cup p.unseen : p.found[s] # Nothing
    /\ \A s \in Removed(p, d) : s \in p.listed \ p.left /\ Condemned(p, s)
    /\ ~p.pending => /\ \A s \in Slots : p.found[s] # Nothing => s \in p.listed \cup p.unseen
                     /\ \A s \in p.listed \ p.left : d[s] = Nothing \/ ~Condemned(p, s)
    /\ p.left \subseteq p.listed
    /\ p.reclaimed <= PassBytes
    /\ Cardinality(Bytes(p.found, Removed(p, d))) = p.reclaimed

PassesSound == \A w \in Evicting : Sound(pass[w], dir)

Shapes ==
    /\ clock \in Times
    /\ dir \in [Slots -> File \cup {Nothing}]
    /\ state \in State \cup {Nothing}
    /\ lock \in Commands \cup Workers \cup {Nothing}
    /\ DOMAIN cmd = Commands
    /\ \A c \in Commands : cmd[c] # Nothing =>
          /\ cmd[c].at \in {"rendered", "counted", "reserved"}
          /\ cmd[c].retain \in Slots
          /\ cmd[c].at = "counted" => cmd[c].state \in State /\ cmd[c].lost \in BOOLEAN
    /\ DOMAIN pass = Workers
    /\ \A w \in Workers : pass[w] # Nothing =>
          /\ pass[w].at \in {"spawned", "evicting"}
          /\ pass[w].retain \in Slots
    /\ \A w \in Evicting : pass[w] \in EvictingPass
    /\ attempted \in Times \cup {Nothing}
    /\ forgotten \in BOOLEAN

Inv ==
    /\ Shapes
    /\ Holders
    /\ PassesSound

-----------------------------------------------------------------------------
LEMMA NumbersAreNat ==
  /\ Last \in Nat /\ EntryLimit \in Nat /\ PassBytes \in Nat /\ Recent \in Nat
  /\ MaxAge \in Nat /\ Interval \in Nat /\ DueCount \in Nat /\ DueBytes \in Nat
  /\ FirstTime \in Nat /\ LastTime \in Nat
  /\ \A n \in Sizes : n \in 1 .. EntryLimit
  /\ Times \subseteq Nat /\ FirstTime \in Times
BY NumbersAssumption, ClockAssumption DEF Times

LEMMA SlotsFinite == IsFiniteSet(Slots)
BY FS_Interval, NumbersAreNat DEF Slots

\* Entries of the directory and of the state file are no absence.
LEMMA FilesAreFiles ==
  /\ \A n \in Sizes, t \in Times : [size |-> n, mtime |-> t] \in File
  /\ \A t \in Times : [size |-> EntryLimit + 1, mtime |-> t] \in File
  /\ Nothing \notin File /\ Nothing \notin State
  /\ \A f \in File : f.size \in Nat /\ f.size >= 1 /\ f.mtime \in Nat
<1>1. \A f \in File : f.size \in 1 .. (EntryLimit + 1) /\ f.mtime \in Times
  BY DEF File
<1>2. \A n \in Sizes, t \in Times : [size |-> n, mtime |-> t] \in File
  <2>1. \A n \in Sizes : n \in 1 .. (EntryLimit + 1)
    BY NumbersAreNat
  <2> QED
    BY <2>1 DEF File
<1>3. \A t \in Times : [size |-> EntryLimit + 1, mtime |-> t] \in File
  <2>1. EntryLimit + 1 \in 1 .. (EntryLimit + 1)
    BY NumbersAreNat
  <2> QED
    BY <2>1 DEF File
<1>4. \A f \in File : f.size \in Nat /\ f.size >= 1 /\ f.mtime \in Nat
  <2>1. EntryLimit \in Nat /\ Times \subseteq Nat
    BY NumbersAreNat
  <2>2. \A n \in 1 .. (EntryLimit + 1) : n \in Nat /\ n >= 1
    BY <2>1
  <2> QED
    BY <1>1, <2>1, <2>2
<1> QED
  BY <1>2, <1>3, <1>4, FilesAssumption

LEMMA RecordType ==
  ASSUME NEW st \in State, NEW published, NEW bytes \in Nat
  PROVE  Record(st, published, bytes) \in State /\ Record(st, published, bytes).last = st.last
<1>1. st.publications \in 0 .. DueCount /\ st.bytes \in 0 .. DueBytes
  BY DEF State
<1>2. /\ UpTo(DueCount, st.publications + 1) \in 0 .. DueCount
      /\ UpTo(DueBytes, st.bytes + bytes) \in 0 .. DueBytes
  BY <1>1, NumbersAreNat DEF UpTo
<1>3. [st EXCEPT !.publications = UpTo(DueCount, @ + 1), !.bytes = UpTo(DueBytes, @ + bytes)] \in State
  BY <1>2 DEF State
<1>4. [st EXCEPT !.publications = UpTo(DueCount, @ + 1), !.bytes = UpTo(DueBytes, @ + bytes)].last = st.last
  BY DEF State
<1> QED
  BY <1>3, <1>4 DEF Record

LEMMA ReserveType ==
  ASSUME NEW st \in State, NEW t \in Times
  PROVE  Reserve(st, t) \in State /\ Reserve(st, t).last = t
<1>1. DueCount \in 0 .. DueCount
  BY NumbersAreNat
<1> QED
  BY <1>1 DEF Reserve, State

LEMMA CompletedType ==
  ASSUME NEW pending, NEW t \in Times
  PROVE  Completed(t, pending) \in State /\ Completed(t, pending).last = t
BY NumbersAreNat DEF Completed, State

LEMMA LengthsAreNat ==
  ASSUME NEW file \in File \cup {Nothing}
  PROVE  \A bytes \in Lengths(file) : bytes \in Nat
BY FilesAreFiles DEF Lengths

LEMMA DefaultType == DefaultState \in State /\ DefaultState.last = 0
BY NumbersAreNat DEF DefaultState, State

-----------------------------------------------------------------------------
LEMMA NoBytes == ASSUME NEW found PROVE Cardinality(Bytes(found, {})) = 0
<1>1. Bytes(found, {}) = {}
  BY DEF Bytes
<1> QED
  BY <1>1, FS_EmptySet

\* One more file adds its size.
LEMMA BytesOfOneMore ==
  ASSUME NEW found, NEW slots, IsFiniteSet(slots), NEW s, s \notin slots,
         \A t \in slots \cup {s} : found[t].size \in Nat
  PROVE  Cardinality(Bytes(found, slots \cup {s}))
           = Cardinality(Bytes(found, slots)) + found[s].size
<1> DEFINE own(t) == {t} \X (1 .. found[t].size)
           all == {own(t) : t \in slots}
<1>1. ASSUME NEW t \in slots \cup {s}
      PROVE  IsFiniteSet(own(t)) /\ Cardinality(own(t)) = found[t].size
  <2> DEFINE size == found[t].size
             bytes == 1 .. size
  <2>1. size \in Nat
    OBVIOUS
  <2> HIDE DEF size
  <2>2. IsFiniteSet(bytes) /\ Cardinality(bytes) = size
    <3>1. 1 \in Int /\ size \in Int
      BY <2>1
    <3>2. IsFiniteSet(bytes) /\ Cardinality(bytes) = IF 1 > size THEN 0 ELSE size - 1 + 1
      BY <3>1, FS_Interval
    <3> QED
      BY <2>1, <3>2
  <2>3. IsFiniteSet({t}) /\ Cardinality({t}) = 1
    BY FS_Singleton
  <2> HIDE DEF bytes
  <2>4. IsFiniteSet({t} \X bytes) /\ Cardinality({t} \X bytes) = 1 * size
    BY <2>2, <2>3, FS_Product
  <2>5. 1 * size = size
    BY <2>1
  <2> QED
    BY <2>4, <2>5 DEF size, bytes
<1>2. IsFiniteSet(all)
  <2> DEFINE f == [t \in slots |-> own(t)]
  <2>1. all = {f[t] : t \in slots}
    OBVIOUS
  <2>2. f \in Surjection(slots, all)
    BY <2>1 DEF Surjection
  <2> QED
    BY <2>2, FS_Surjection
<1>3. IsFiniteSet(Bytes(found, slots))
  <2>1. \A T \in all : IsFiniteSet(T)
    BY <1>1
  <2>2. Bytes(found, slots) = UNION all
    BY DEF Bytes
  <2> HIDE DEF all
  <2> QED
    BY <1>2, <2>1, <2>2, FS_UNION
<1>4. Bytes(found, slots \cup {s}) = Bytes(found, slots) \cup own(s)
  BY DEF Bytes
<1>5. Bytes(found, slots) \cap own(s) = {}
  BY DEF Bytes
<1>6. Cardinality({}) = 0 /\ Cardinality(Bytes(found, slots)) \in Nat
  BY <1>3, FS_EmptySet, FS_CardinalityType
<1>7. IsFiniteSet(own(s)) /\ Cardinality(own(s)) = found[s].size /\ found[s].size \in Nat
  BY <1>1
<1> HIDE DEF own
<1> DEFINE before == Bytes(found, slots)
           new == own(s)
<1>8. Cardinality(before \cup new)
        = Cardinality(before) + Cardinality(new) - Cardinality(before \cap new)
  <2> HIDE DEF before, new
  <2> QED
    BY <1>3, <1>7, FS_Union DEF before, new
<1>9. before \cap new = {}
  BY <1>5
<1>10. Cardinality(before) \in Nat /\ Cardinality(new) = found[s].size
  BY <1>6, <1>7
<1> DEFINE a == Cardinality(before)
           size == found[s].size
<1>11. Cardinality(before \cup new) = a + size - 0 /\ a \in Nat /\ size \in Nat
  BY <1>6, <1>7, <1>8, <1>9, <1>10
<1>12. Cardinality(before \cup new) = a + size
  <2> HIDE DEF a, size
  <2> QED
    BY <1>11
<1> QED
  BY <1>4, <1>12

-----------------------------------------------------------------------------
LEMMA InvTyped == Inv => TypeOK
<1> SUFFICES ASSUME Inv PROVE TypeOK
  OBVIOUS
<1>1. \A w \in Evicting : pass[w] \in EvictingPass /\ Sound(pass[w], dir)
  BY DEF Inv, Shapes, PassesSound
<1>2. ASSUME NEW w \in Evicting
      PROVE  /\ pass[w].current \in Times
             /\ pass[w].found \in [Slots -> File \cup {Nothing}]
             /\ pass[w].left \subseteq pass[w].listed
             /\ pass[w].listed \cup pass[w].unseen
                   \subseteq {s \in Slots : pass[w].found[s] # Nothing}
             /\ {pass[w].late, pass[w].pending} \subseteq BOOLEAN
             /\ pass[w].reclaimed \in Nat
  BY <1>1 DEF EvictingPass, Sound
<1> QED
  BY <1>2 DEF Inv, Shapes, TypeOK

LEMMA FreeMeansNobody ==
  ASSUME Inv, Free
  PROVE  Evicting = {} /\ \A c \in Commands : cmd[c] = Nothing \/ cmd[c].at # "counted"
BY NothingAssumption DEF Inv, Holders, Free, Evicting

\* A step in which no pass goes on, and the directory stays while there is one.
LEMMA Undisturbed ==
  ASSUME Inv, Evicting' \subseteq Evicting, \A w \in Evicting' : pass'[w] = pass[w],
         dir' = dir \/ Evicting = {}
  PROVE  PassesSound'
BY DEF Inv, PassesSound

LEMMA InitInv == Init => Inv
<1> SUFFICES ASSUME Init PROVE Inv
  OBVIOUS
<1>1. Evicting = {}
  BY DEF Init, Evicting
<1> QED
  BY <1>1, NumbersAreNat DEF Init, Inv, Shapes, Holders, PassesSound

LEMMA RenderInv ==
  ASSUME Inv, NEW c \in Commands, NEW s \in Slots, Render(c, s)
  PROVE  Inv'
<1>1. UNCHANGED <<clock, state, lock, pass, attempted, forgotten>> /\ Evicting' = Evicting
  BY DEF Render, Evicting
<1>2. dir' = dir \/ Evicting = {}
  BY FreeMeansNobody DEF Render
<1>3. dir' \in [Slots -> File \cup {Nothing}]
  BY FilesAreFiles DEF Inv, Shapes, Render
<1>4. /\ DOMAIN cmd' = Commands
      /\ \A d \in Commands \ {c} : cmd'[d] = cmd[d]
      /\ cmd'[c].at = "rendered" /\ cmd'[c].retain = s
  BY DEF Inv, Shapes, Render
<1>5. Shapes'
  BY <1>1, <1>3, <1>4 DEF Inv, Shapes
<1>6. Holders'
  BY <1>1, <1>4 DEF Inv, Holders
<1> QED
  BY <1>1, <1>2, <1>5, <1>6, Undisturbed DEF Inv

LEMMA CountInv ==
  ASSUME Inv, NEW c \in Commands, Count(c)
  PROVE  Inv'
<1>1. /\ UNCHANGED <<clock, dir, state, pass, attempted, forgotten>> /\ Evicting' = Evicting
      /\ lock' = c /\ Evicting = {} /\ cmd[c] # Nothing
      /\ \A d \in Commands : cmd[d] = Nothing \/ cmd[d].at # "counted"
  BY FreeMeansNobody DEF Count, Evicting
<1>2. PICK lost \in BOOLEAN, bytes \in Lengths(dir[cmd[c].retain]) :
          cmd' = [cmd EXCEPT ![c] =
                    [at |-> "counted", retain |-> cmd[c].retain,
                     published |-> cmd[c].published, lost |-> lost,
                     state |-> Record(Counters(lost), cmd[c].published, bytes)]]
  BY DEF Count
<1>3. Counters(lost) \in State /\ bytes \in Nat
  BY <1>1, DefaultType, LengthsAreNat DEF Inv, Shapes, Counters
<1>4. Record(Counters(lost), cmd[c].published, bytes) \in State
  BY <1>3, RecordType
<1>5. /\ DOMAIN cmd' = Commands
      /\ \A d \in Commands \ {c} : cmd'[d] = cmd[d]
      /\ cmd'[c].at = "counted" /\ cmd'[c].retain \in Slots
      /\ cmd'[c].state \in State /\ cmd'[c].lost \in BOOLEAN
  BY <1>1, <1>2, <1>4 DEF Inv, Shapes
<1>6. Shapes'
  BY <1>1, <1>5 DEF Inv, Shapes
<1>7. Holders'
  BY <1>1, <1>5 DEF Holders
<1> QED
  BY <1>1, <1>6, <1>7, Undisturbed DEF Inv

\* A command lets go of the lock, and of its own record only.
LEMMA Released ==
  ASSUME Inv, NEW c \in Commands, UNCHANGED <<clock, dir, pass>>,
         lock' = Nothing \/ lock' = lock, lock = c => lock' = Nothing, lock # c => lock' = lock,
         \E new : cmd' = [cmd EXCEPT ![c] = new]
                 /\ (new # Nothing => new.at = "reserved" /\ new.retain \in Slots),
         state' \in State \cup {Nothing}, attempted' \in Times \cup {Nothing},
         forgotten' \in BOOLEAN
  PROVE  Inv'
<1>1. Evicting' = Evicting
  BY DEF Evicting
<1>2. /\ DOMAIN cmd' = Commands
      /\ \A d \in Commands \ {c} : cmd'[d] = cmd[d]
      /\ cmd'[c] # Nothing => cmd'[c].at = "reserved" /\ cmd'[c].retain \in Slots
  BY DEF Inv, Shapes
<1>3. Shapes'
  BY <1>1, <1>2 DEF Inv, Shapes
<1>4. Holders'
  <2>1. \A w \in Evicting : w # c
    BY NothingAssumption DEF Evicting
  <2> QED
    BY <1>1, <1>2, <2>1 DEF Inv, Holders
<1> QED
  BY <1>1, <1>3, <1>4, Undisturbed DEF Inv

LEMMA CommandInv ==
  ASSUME Inv, NEW c \in Commands, Postpone(c) \/ Attempt(c) \/ Leave(c)
  PROVE  Inv'
<1>1. CASE Postpone(c)
  <2>1. lock = c /\ cmd[c].state \in State /\ cmd[c].lost \in BOOLEAN
    BY <1>1 DEF Inv, Shapes, Holders, Postpone
  <2> QED
    BY <1>1, <2>1, Released DEF Inv, Shapes, Postpone
<1>2. CASE Attempt(c)
  <2>1. lock = c /\ cmd[c].state \in State /\ cmd[c].retain \in Slots
    BY <1>2 DEF Inv, Shapes, Holders, Attempt
  <2>2. clock \in Times /\ Reserve(cmd[c].state, clock) \in State
    BY <2>1, ReserveType DEF Inv, Shapes
  <2>3. CASE cmd' = [cmd EXCEPT ![c] = [at |-> "reserved", retain |-> cmd[c].retain]]
             /\ state' = Reserve(cmd[c].state, clock) /\ attempted' = clock
             /\ forgotten' = FALSE
    <3> DEFINE new == [at |-> "reserved", retain |-> cmd[c].retain]
    <3>1. new.at = "reserved" /\ new.retain \in Slots
      BY <2>1
    <3> HIDE DEF new
    <3>2. cmd' = [cmd EXCEPT ![c] = new]
      BY <2>3 DEF new
    <3> QED
      BY <1>2, <2>1, <2>2, <2>3, <3>1, <3>2, Released DEF Attempt
  <2>4. CASE cmd' = [cmd EXCEPT ![c] = Nothing] /\ UNCHANGED <<state, attempted, forgotten>>
    BY <1>2, <2>1, <2>4, Released DEF Attempt, Inv, Shapes
  <2> QED
    BY <1>2, <2>3, <2>4 DEF Attempt
<1>3. CASE Leave(c)
  BY <1>3, Released DEF Inv, Shapes, Leave, Unlock
<1> QED
  BY <1>1, <1>2, <1>3

\* A worker that is over.
LEMMA WorkerEnds ==
  ASSUME Inv, NEW w \in Workers, pass' = [pass EXCEPT ![w] = Nothing],
         UNCHANGED <<clock, dir, cmd, attempted>>, state' \in State \cup {Nothing},
         forgotten' \in BOOLEAN,
         lock = w => lock' = Nothing, lock # w => lock' = lock
  PROVE  Inv'
<1>1. /\ DOMAIN pass' = Workers /\ pass'[w] = Nothing
      /\ \A v \in Workers \ {w} : pass'[v] = pass[v]
  BY DEF Inv, Shapes
<1>2. Evicting' = Evicting \ {w}
  BY <1>1 DEF Evicting
<1>3. Shapes'
  BY <1>1, <1>2 DEF Inv, Shapes
<1>4. Holders'
  <2>1. \A c \in Commands : c # w
    BY NothingAssumption
  <2> QED
    BY <1>1, <1>2, <2>1 DEF Inv, Holders
<1> QED
  BY <1>1, <1>2, <1>3, <1>4, Undisturbed DEF Inv, Evicting

\* A pass that begins or goes on, whose worker has the lock afterwards.
LEMMA WorkerEvicts ==
  ASSUME Inv, NEW w \in Workers, NEW p, pass' = [pass EXCEPT ![w] = p],
         p \in EvictingPass, Sound(p, dir'), lock' = w, Evicting \subseteq {w},
         \A c \in Commands : cmd[c] = Nothing \/ cmd[c].at # "counted",
         dir' \in [Slots -> File \cup {Nothing}],
         UNCHANGED <<clock, state, cmd, attempted, forgotten>>
  PROVE  Inv'
<1>1. /\ DOMAIN pass' = Workers /\ pass'[w] = p
      /\ \A v \in Workers \ {w} : pass'[v] = pass[v]
  BY DEF Inv, Shapes
<1>2. Evicting' \subseteq {w}
  BY <1>1 DEF Evicting
<1>3. p.at = "evicting" /\ p.retain \in Slots
  BY DEF EvictingPass
<1>4. Shapes'
  BY <1>1, <1>2, <1>3 DEF Inv, Shapes
<1>5. Holders'
  BY <1>2 DEF Holders
<1>6. PassesSound'
  BY <1>1, <1>2 DEF PassesSound
<1> QED
  BY <1>4, <1>5, <1>6 DEF Inv

LEMMA SpawnInv ==
  ASSUME Inv, NEW c \in Commands, NEW w \in Workers, Spawn(c, w)
  PROVE  Inv'
<1>1. /\ UNCHANGED <<clock, dir, state, lock, attempted, forgotten>>
      /\ cmd[c] # Nothing /\ cmd[c].retain \in Slots /\ pass[w] = Nothing
  BY DEF Inv, Shapes, Spawn
<1>2. /\ DOMAIN pass' = Workers
      /\ \A v \in Workers \ {w} : pass'[v] = pass[v]
      /\ pass'[w].at = "spawned" /\ pass'[w].retain \in Slots
  BY <1>1 DEF Inv, Shapes, Spawn
<1>3. /\ DOMAIN cmd' = Commands /\ cmd'[c] = Nothing
      /\ \A d \in Commands \ {c} : cmd'[d] = cmd[d]
  BY DEF Inv, Shapes, Spawn
<1>4. Evicting' = Evicting /\ w \notin Evicting /\ \A v \in Evicting : pass'[v] = pass[v]
  BY <1>1, <1>2 DEF Evicting
<1>5. Shapes'
  BY <1>1, <1>2, <1>3, <1>4 DEF Inv, Shapes
<1>6. Holders'
  BY <1>1, <1>3, <1>4 DEF Inv, Holders
<1> QED
  BY <1>1, <1>2, <1>4, <1>5, <1>6, Undisturbed DEF Inv, Evicting

LEMMA ScanInv ==
  ASSUME Inv, NEW w \in Workers, Scan(w)
  PROVE  Inv'
<1>n. PICK n \in 0 .. (Last + 1) : \E unseen \in SUBSET Present(n) :
          pass' = [pass EXCEPT ![w] =
            [at |-> "evicting", retain |-> pass[w].retain, current |-> clock,
             found |-> dir, unseen |-> unseen,
             listed |-> Present(n) \ unseen, left |-> Present(n) \ unseen,
             late |-> n <= Last, pending |-> n <= Last, reclaimed |-> 0]]
  BY DEF Scan
<1>1. PICK unseen \in SUBSET Present(n) :
          pass' = [pass EXCEPT ![w] =
            [at |-> "evicting", retain |-> pass[w].retain, current |-> clock,
             found |-> dir, unseen |-> unseen,
             listed |-> Present(n) \ unseen, left |-> Present(n) \ unseen,
             late |-> n <= Last, pending |-> n <= Last, reclaimed |-> 0]]
  BY <1>n
<1> DEFINE listed == Present(n) \ unseen
           p == [at |-> "evicting", retain |-> pass[w].retain, current |-> clock,
                 found |-> dir, unseen |-> unseen, listed |-> listed, left |-> listed,
                 late |-> n <= Last, pending |-> n <= Last, reclaimed |-> 0]
<1>2. /\ Evicting = {} /\ lock' = w /\ UNCHANGED <<clock, dir, state, cmd, attempted, forgotten>>
      /\ \A c \in Commands : cmd[c] = Nothing \/ cmd[c].at # "counted"
  BY FreeMeansNobody DEF Scan
<1>3. p \in EvictingPass
  BY DEF Inv, Shapes, Scan, EvictingPass, Present
<1>4. Sound(p, dir)
  <2>1. Removed(p, dir) = {}
    BY DEF Removed
  <2>2. Cardinality(Bytes(dir, Removed(p, dir))) = 0
    BY <2>1, NoBytes
  <2>3. ~p.pending => \A s \in Slots : dir[s] # Nothing => s \in listed \cup unseen
    <3>1. Last \in Nat
      BY NumbersAreNat
    <3>2. p.pending = (n <= Last)
      OBVIOUS
    <3>3. ~(n <= Last) => \A s \in Slots : s < n
      BY <3>1 DEF Slots
    <3> QED
      BY <3>2, <3>3 DEF Present
  <2>4. 0 <= PassBytes
    BY NumbersAreNat
  <2> QED
    BY <2>1, <2>2, <2>3, <2>4 DEF Sound, Present
<1> HIDE DEF p
<1>5. pass' = [pass EXCEPT ![w] = p]
  BY <1>1 DEF p
<1>6. dir' \in [Slots -> File \cup {Nothing}] /\ Sound(p, dir') /\ Evicting \subseteq {w}
  BY <1>2, <1>4 DEF Inv, Shapes
<1> QED
  BY <1>2, <1>3, <1>5, <1>6, WorkerEvicts

\* One round of the loop, which leaves one file s less to look at: it stays, or it
\* is removed.
LEMMA RoundSound ==
  ASSUME NEW p \in EvictingPass, NEW q \in EvictingPass, NEW s \in p.left,
         NEW d \in [Slots -> File \cup {Nothing}], NEW e, Sound(p, d),
         q.found = p.found, q.retain = p.retain, q.current = p.current,
         q.listed = p.listed, q.unseen = p.unseen, q.left = p.left \ {s},
         \/ /\ e = d /\ q.reclaimed = p.reclaimed
            /\ q.pending \/ (~Condemned(p, s) /\ q.pending = p.pending)
         \/ /\ e = [d EXCEPT ![s] = Nothing] /\ Condemned(p, s)
            /\ WithinBudget(p.reclaimed, p.found[s].size)
            /\ q.reclaimed = p.reclaimed + p.found[s].size /\ q.pending = p.pending
  PROVE  Sound(q, e)
<1>1. \A t : Condemned(q, t) = Condemned(p, t)
  BY DEF Condemned, Index
<1>2. s \in Slots /\ s \in p.listed /\ p.found[s] # Nothing /\ s \notin Removed(p, d)
  BY DEF EvictingPass, Sound
<1>3. CASE e = d /\ q.reclaimed = p.reclaimed
           /\ (q.pending \/ (~Condemned(p, s) /\ q.pending = p.pending))
  <2>1. Removed(q, e) = Removed(p, d)
    BY <1>3 DEF Removed
  <2> QED
    BY <1>1, <1>2, <1>3, <2>1 DEF Sound
<1>4. CASE e = [d EXCEPT ![s] = Nothing] /\ Condemned(p, s)
           /\ WithinBudget(p.reclaimed, p.found[s].size)
           /\ q.reclaimed = p.reclaimed + p.found[s].size /\ q.pending = p.pending
  <2>1. e[s] = Nothing /\ \A t \in Slots \ {s} : e[t] = d[t]
    BY <1>2, <1>4
  <2>2. Removed(q, e) = Removed(p, d) \cup {s}
    BY <1>2, <2>1 DEF Removed
  <2>3. p.found[s].size \in Nat /\ p.found[s].size >= 1
    <3>1. p.found[s] \in File
      BY <1>2 DEF EvictingPass
    <3> QED
      BY <3>1, FilesAreFiles
  <2>4. Cardinality(Bytes(p.found, Removed(q, e)))
          = Cardinality(Bytes(p.found, Removed(p, d))) + p.found[s].size
    <3>1. IsFiniteSet(Removed(p, d))
      BY SlotsFinite, FS_Subset DEF Removed
    <3>2. \A t \in Removed(p, d) \cup {s} : p.found[t] \in File
      BY <1>2 DEF EvictingPass, Removed
    <3>3. \A t \in Removed(p, d) \cup {s} : p.found[t].size \in Nat
      BY <3>2, FilesAreFiles
    <3> QED
      BY <1>2, <2>2, <3>1, <3>3, BytesOfOneMore
  <2>5. /\ q.reclaimed <= PassBytes
        /\ Cardinality(Bytes(q.found, Removed(q, e))) = q.reclaimed
    BY <1>4, <2>4 DEF WithinBudget, Sound
  <2>6. /\ \A t \in Slots : e[t] \in {q.found[t], Nothing}
        /\ \A t \in Removed(q, e) : t \in q.listed \ q.left /\ Condemned(q, t)
    BY <1>1, <1>2, <1>4, <2>1, <2>2 DEF Sound
  <2>7. ~q.pending => /\ \A t \in Slots : q.found[t] # Nothing => t \in q.listed \cup q.unseen
                      /\ \A t \in q.listed \ q.left : e[t] = Nothing \/ ~Condemned(q, t)
    <3>1. q.listed \subseteq Slots
      BY DEF EvictingPass
    <3> QED
      BY <1>1, <1>2, <1>4, <2>1, <3>1 DEF Sound
  <2> QED
    BY <2>5, <2>6, <2>7 DEF Sound
<1> QED
  BY <1>3, <1>4

LEMMA EvictInv ==
  ASSUME Inv, NEW w \in Workers, Evict(w)
  PROVE  Inv'
<1> DEFINE p == pass[w]
<1>1. /\ w \in Evicting /\ p \in EvictingPass /\ Sound(p, dir)
      /\ UNCHANGED <<clock, state, lock, cmd, attempted, forgotten>>
  BY DEF Evict, Evicting, Inv, Shapes, PassesSound
<1>2. /\ lock' = w /\ Evicting \subseteq {w}
      /\ \A c \in Commands : cmd[c] = Nothing \/ cmd[c].at # "counted"
  BY <1>1, NothingAssumption DEF Inv, Holders
<1>3. PICK s \in p.left :
        IF ~Condemned(p, s)
        THEN /\ pass' = [pass EXCEPT ![w] = [p EXCEPT !.left = @ \ {s}]]
             /\ UNCHANGED dir
        ELSE \E late \in Late(p) :
               \/ /\ pass' = [pass EXCEPT ![w] =
                        [[p EXCEPT !.left = @ \ {s}] EXCEPT !.late = late, !.pending = TRUE]]
                  /\ UNCHANGED dir
               \/ /\ WithinBudget(p.reclaimed, p.found[s].size)
                  /\ pass' = [pass EXCEPT ![w] =
                        [[p EXCEPT !.left = @ \ {s}] EXCEPT !.reclaimed = @ + p.found[s].size]]
                  /\ dir' = [dir EXCEPT ![s] = Nothing]
  BY DEF Evict, Condemned
<1>4. /\ dir \in [Slots -> File \cup {Nothing}] /\ s \in Slots
      /\ p.found[s].size \in Nat
  <2>1. p.found[s] \in File /\ s \in Slots
    BY <1>1 DEF EvictingPass, Sound
  <2> QED
    BY <2>1, FilesAreFiles DEF Inv, Shapes
<1> DEFINE rest == [p EXCEPT !.left = @ \ {s}]
<1>5. /\ rest \in EvictingPass /\ rest.left = p.left \ {s}
      /\ rest.found = p.found /\ rest.retain = p.retain /\ rest.current = p.current
      /\ rest.listed = p.listed /\ rest.unseen = p.unseen /\ rest.pending = p.pending /\ rest.reclaimed = p.reclaimed
  BY <1>1 DEF EvictingPass
<1> HIDE DEF rest
<1>6. CASE ~Condemned(p, s)
  <2>1. pass' = [pass EXCEPT ![w] = rest] /\ dir' = dir
    BY <1>3, <1>6 DEF rest
  <2>2. Sound(rest, dir)
    BY <1>1, <1>4, <1>5, <1>6, RoundSound
  <2> QED
    BY <1>1, <1>2, <1>4, <1>5, <2>1, <2>2, WorkerEvicts
<1>7. ASSUME NEW late \in Late(p),
             pass' = [pass EXCEPT ![w] = [rest EXCEPT !.late = late, !.pending = TRUE]],
             UNCHANGED dir
      PROVE  Inv'
  <2> DEFINE q == [rest EXCEPT !.late = late, !.pending = TRUE]
  <2>1. late \in BOOLEAN
    BY DEF Late
  <2>2. /\ q \in EvictingPass /\ q.left = p.left \ {s}
        /\ q.found = p.found /\ q.retain = p.retain /\ q.current = p.current
        /\ q.listed = p.listed /\ q.unseen = p.unseen /\ q.pending = TRUE /\ q.reclaimed = p.reclaimed
    BY <1>5, <2>1 DEF EvictingPass
  <2> HIDE DEF q
  <2>3. Sound(q, dir)
    BY <1>1, <1>4, <2>2, RoundSound
  <2>4. pass' = [pass EXCEPT ![w] = q]
    BY <1>7 DEF q
  <2> QED
    BY <1>1, <1>2, <1>4, <1>7, <2>2, <2>3, <2>4, WorkerEvicts
<1>8. ASSUME Condemned(p, s), WithinBudget(p.reclaimed, p.found[s].size),
             pass' = [pass EXCEPT ![w] = [rest EXCEPT !.reclaimed = @ + p.found[s].size]],
             dir' = [dir EXCEPT ![s] = Nothing]
      PROVE  Inv'
  <2> DEFINE q == [rest EXCEPT !.reclaimed = @ + p.found[s].size]
  <2>1. p.reclaimed + p.found[s].size \in Nat
    BY <1>1, <1>4 DEF EvictingPass
  <2>2. /\ q \in EvictingPass /\ q.left = p.left \ {s}
        /\ q.found = p.found /\ q.retain = p.retain /\ q.current = p.current
        /\ q.listed = p.listed /\ q.unseen = p.unseen /\ q.pending = p.pending
        /\ q.reclaimed = p.reclaimed + p.found[s].size
    BY <1>5, <2>1 DEF EvictingPass
  <2> HIDE DEF q
  <2>3. Sound(q, [dir EXCEPT ![s] = Nothing])
    BY <1>1, <1>4, <1>8, <2>2, RoundSound
  <2>4. pass' = [pass EXCEPT ![w] = q] /\ dir' \in [Slots -> File \cup {Nothing}]
    BY <1>4, <1>8 DEF q
  <2> QED
    BY <1>1, <1>2, <1>8, <2>2, <2>3, <2>4, WorkerEvicts
<1> QED
  BY <1>3, <1>6, <1>7, <1>8 DEF rest

LEMMA WorkerInv ==
  ASSUME Inv, NEW w \in Workers, Finish(w) \/ Quit(w)
  PROVE  Inv'
<1>1. CASE Finish(w)
  <2>1. lock = w
    BY <1>1 DEF Inv, Holders, Finish, Evicting
  <2>2. Completed(clock, pass[w].pending) \in State
    BY CompletedType DEF Inv, Shapes
  <2>3. state' \in State \cup {Nothing} /\ forgotten' \in BOOLEAN
    BY <1>1, <2>2 DEF Finish, Inv, Shapes
  <2> QED
    BY <1>1, <2>1, <2>3, WorkerEnds DEF Finish
<1>2. CASE Quit(w)
  BY <1>2, WorkerEnds DEF Quit, Unlock, Inv, Shapes
<1> QED
  BY <1>1, <1>2

LEMMA EnvironmentInv ==
  ASSUME Inv, \/ Tick \/ (\E s \in Slots : Bloat(s)) \/ Clear \/ UNCHANGED vars
  PROVE  Inv'
<1>1. UNCHANGED <<lock, cmd, pass, attempted>> /\ Evicting' = Evicting
      /\ forgotten' \in BOOLEAN
  BY DEF Tick, Bloat, Clear, vars, Evicting, Inv, Shapes
<1>2. clock' \in Times
  BY NumbersAreNat DEF Inv, Shapes, Times, Tick, Bloat, Clear, vars
<1>3. dir' = dir \/ Evicting = {}
  BY FreeMeansNobody DEF Tick, Bloat, Clear, vars
<1>4. dir' \in [Slots -> File \cup {Nothing}] /\ state' \in State \cup {Nothing}
  BY FilesAreFiles DEF Inv, Shapes, Tick, Bloat, Clear, vars
<1>5. Shapes' /\ Holders'
  BY <1>1, <1>2, <1>4 DEF Inv, Shapes, Holders
<1> QED
  BY <1>1, <1>3, <1>5, Undisturbed DEF Inv

LEMMA NextInv == Inv /\ [Next]_vars => Inv'
<1> SUFFICES ASSUME Inv, [Next]_vars PROVE Inv'
  OBVIOUS
<1>1. ASSUME NEW c \in Commands,
             \/ \E s \in Slots : Render(c, s)
             \/ Count(c) \/ Postpone(c) \/ Attempt(c)
             \/ \E w \in Workers : Spawn(c, w)
             \/ Leave(c)
      PROVE  Inv'
  BY <1>1, RenderInv, CountInv, CommandInv, SpawnInv
<1>2. ASSUME NEW w \in Workers, Scan(w) \/ Evict(w) \/ Finish(w) \/ Quit(w)
      PROVE  Inv'
  BY <1>2, ScanInv, EvictInv, WorkerInv
<1> QED
  BY <1>1, <1>2, EnvironmentInv DEF Next

\* What a worker, a command and the environment do to the directory, the lock and
\* the state file, taken together, is inductive.
THEOREM Invariance == Spec => []Inv
<1>1. Init => Inv
  BY InitInv
<1>2. Inv /\ [Next]_vars => Inv'
  BY NextInv
<1> QED
  BY <1>1, <1>2, PTL DEF Spec

-----------------------------------------------------------------------------
\* The rank that a pass gives to a file counts only files that are not older, and
\* at least those it could see that are newer if it has been through the directory.
LEMMA Ranks ==
  ASSUME NEW p \in EvictingPass, NEW s \in Slots, \A t \in p.listed : p.found[t] # Nothing
  PROVE  /\ Index(p, s) \in Nat /\ Rivals(p, s) \in Nat /\ Newer(p, s) \in Nat
         /\ p.found[s] # Nothing => Index(p, s) <= Rivals(p, s)
         /\ (\A t \in Slots : p.found[t] # Nothing => t \in p.listed \cup p.unseen)
              => Newer(p, s) <= Index(p, s)
<1> DEFINE ranked == {t \in p.listed : Before(p.found, t, s)}
           rivals == {t \in Slots \ {s} : p.found[t] # Nothing /\ p.found[t].mtime >= p.found[s].mtime}
           newer == {t \in Slots \ p.unseen : p.found[t] # Nothing /\ p.found[t].mtime > p.found[s].mtime}
<1>1. p.listed \subseteq Slots /\ \A t \in Slots : p.found[t] \in File \cup {Nothing}
  BY DEF EvictingPass
<1>2. IsFiniteSet(ranked) /\ IsFiniteSet(rivals) /\ IsFiniteSet(newer)
  BY <1>1, SlotsFinite, FS_Subset
<1>3. \A t \in Slots : p.found[t] # Nothing => p.found[t].mtime \in Nat
  BY <1>1, FilesAreFiles
<1>4. \A t \in Slots : t \in Nat
  BY NumbersAreNat DEF Slots
<1>5. p.found[s] # Nothing => ranked \subseteq rivals
  BY <1>1, <1>3, <1>4 DEF Before
<1>6. (\A t \in Slots : p.found[t] # Nothing => t \in p.listed \cup p.unseen)
        => newer \subseteq ranked
  BY DEF Before
<1> QED
  BY <1>2, <1>5, <1>6, FS_CardinalityType, FS_Subset DEF Index, Rivals, Newer

\* Type correctness of commands, workers, counters and the directory.
THEOREM MaintenanceIsTyped == Spec => []TypeOK
BY Invariance, InvTyped, PTL

LEMMA InvKeepsRecent == Inv => KeepsRecent
<1> SUFFICES ASSUME Inv, NEW w \in Evicting, NEW s \in Slots,
                    pass[w].found[s] # Nothing, dir[s] # pass[w].found[s],
                    \/ s = pass[w].retain
                    \/ /\ Rivals(pass[w], s) < Recent
                       /\ pass[w].found[s].size <= EntryLimit
                       /\ Young(pass[w], s)
             PROVE  FALSE
  BY DEF KeepsRecent
<1> DEFINE p == pass[w]
<1>1. p \in EvictingPass /\ Sound(p, dir)
  BY DEF Inv, Shapes, PassesSound
<1> HIDE DEF p
<1>2. Condemned(p, s) /\ \A t \in p.listed : p.found[t] # Nothing
  BY <1>1 DEF Sound, Removed, p
<1>3. /\ s # p.retain
      /\ \/ Index(p, s) >= Recent
         \/ p.found[s].size > EntryLimit
         \/ p.found[s].mtime <= p.current /\ p.current - p.found[s].mtime >= MaxAge
  BY <1>2 DEF Condemned, ShouldEvict
<1>4. /\ p.found[s].size \in Nat /\ p.found[s].mtime \in Nat /\ p.current \in Nat
  <2>1. p.found[s] \in File /\ p.current \in Times
    BY <1>1 DEF EvictingPass, p
  <2> QED
    BY <2>1, FilesAreFiles, NumbersAreNat
<1>5. Index(p, s) \in Nat /\ Rivals(p, s) \in Nat /\ Index(p, s) <= Rivals(p, s)
  BY <1>1, <1>2, Ranks DEF p
<1>6. /\ Rivals(p, s) < Recent /\ p.found[s].size <= EntryLimit
      /\ p.found[s].mtime > p.current \/ p.current - p.found[s].mtime < MaxAge
  BY <1>3 DEF Young, p
<1> QED
  BY <1>3, <1>4, <1>5, <1>6, NumbersAreNat

\* A pass never removes the triggering snapshot, nor one of admissible size and
\* age among the most recent of the directory, however late it is and however
\* little of the directory it has seen.
THEOREM RecentAreKept == Spec => []KeepsRecent
BY Invariance, InvKeepsRecent, PTL

LEMMA InvNothingForgotten == Inv => NothingForgotten
<1> SUFFICES ASSUME Inv, NEW w \in Evicting, pass[w].left = {}, ~pass[w].pending,
                    NEW s \in Slots \ pass[w].unseen, dir[s] # Nothing, s # pass[w].retain
             PROVE  /\ Newer(pass[w], s) < Recent
                    /\ dir[s].size <= EntryLimit
                    /\ Young(pass[w], s)
  BY DEF NothingForgotten
<1> DEFINE p == pass[w]
<1>1. p \in EvictingPass /\ Sound(p, dir) /\ ~p.pending /\ p.left = {} /\ s # p.retain
      /\ s \in Slots /\ s \notin p.unseen
  BY DEF Inv, Shapes, PassesSound
<1> HIDE DEF p
<1>2. /\ \A t \in p.listed : p.found[t] # Nothing
      /\ \A t \in Slots : p.found[t] # Nothing => t \in p.listed \cup p.unseen
      /\ s \in p.listed
      /\ dir[s] = p.found[s]
  BY <1>1 DEF Sound
<1>3. ~Condemned(p, s)
  BY <1>1, <1>2 DEF Sound
<1>4. /\ ~(Index(p, s) >= Recent) /\ ~(p.found[s].size > EntryLimit)
      /\ ~(p.found[s].mtime <= p.current /\ p.current - p.found[s].mtime >= MaxAge)
  BY <1>1, <1>3 DEF Condemned, ShouldEvict
<1>5. /\ p.found[s].size \in Nat /\ p.found[s].mtime \in Nat /\ p.current \in Nat
  <2>1. p.found[s] \in File /\ p.current \in Times
    BY <1>1, <1>2 DEF EvictingPass
  <2> QED
    BY <2>1, FilesAreFiles, NumbersAreNat
<1>6. Index(p, s) \in Nat /\ Newer(p, s) \in Nat /\ Newer(p, s) <= Index(p, s)
  BY <1>1, <1>2, Ranks
<1>7. /\ Newer(p, s) < Recent
      /\ dir[s].size <= EntryLimit
      /\ p.found[s].mtime > p.current \/ p.current - p.found[s].mtime < MaxAge
  BY <1>2, <1>4, <1>5, <1>6, NumbersAreNat
<1> QED
  BY <1>7 DEF Young, p

\* A pass that records no pending work has left nothing that it could see and should
\* remove.
THEOREM NothingIsForgotten == Spec => []NothingForgotten
BY Invariance, InvNothingForgotten, PTL

LEMMA InvBudgetKept == Inv => BudgetKept
BY DEF Inv, PassesSound, Sound, Removed, BudgetKept

\* The sizes of what a pass has removed add up to what it counts, within its budget.
THEOREM BudgetIsKept == Spec => []BudgetKept
BY Invariance, InvBudgetKept, PTL

-----------------------------------------------------------------------------
Counted(c) == cmd[c] # Nothing /\ cmd[c].at = "counted"

\* Wherever the counters are, in the file or in a command that has read it, they
\* know of the latest attempt, unless it is forgotten or was lost on the way.
Spacing ==
    attempted # Nothing =>
        /\ attempted <= clock
        /\ ~forgotten => state # Nothing /\ state.last >= attempted
        /\ \A c \in Commands : Counted(c) =>
              cmd[c].state.last >= attempted \/ cmd[c].lost \/ forgotten

\* Times and the counters' readings of them are numbers.
LEMMA LastIsNat ==
  /\ \A st \in State : st.last \in Nat
  /\ Times \subseteq Nat /\ Interval \in Nat
<1>1. \A st \in State : st.last \in Times \cup {0}
  BY DEF State
<1>2. Times \subseteq Nat /\ Interval \in Nat
  BY NumbersAreNat
<1>3. \A st \in State : st.last \in Nat
  <2> TAKE st \in State
  <2>1. CASE st.last \in Times
    BY <1>2, <2>1
  <2>2. CASE st.last = 0
    BY <2>2
  <2> QED
    BY <1>1, <2>1, <2>2
<1> QED
  BY <1>2, <1>3

\* A command whose counters say that maintenance is due is an interval later than
\* the latest attempt.
LEMMA DueIsLater ==
  ASSUME NEW st \in State, NEW t \in Times, NEW a \in Times, a <= t, st.last >= a, Due(st, t)
  PROVE  t >= a + Interval
<1>1. st.last \in Nat /\ t \in Nat /\ a \in Nat /\ Interval \in Nat
  BY LastIsNat
<1>2. Elapsed(st.last, t) >= Interval
  BY DEF Due
<1>3. CASE st.last <= t
  BY <1>1, <1>2, <1>3 DEF Elapsed
<1>4. CASE ~(st.last <= t)
  BY <1>1, <1>2, <1>4 DEF Elapsed
<1> QED
  BY <1>3, <1>4

\* Commands that count, postpone or leave keep what is known of the latest attempt.
LEMMA CommandSpacing ==
  ASSUME Inv, Spacing, NEW c \in Commands,
         \/ \E s \in Slots : Render(c, s)
         \/ Count(c) \/ Postpone(c)
         \/ \E w \in Workers : Spawn(c, w)
         \/ Leave(c)
  PROVE  Spacing' /\ ~Reserving
<1>1. UNCHANGED <<clock, attempted>> /\ DOMAIN cmd = Commands
  BY DEF Render, Count, Postpone, Spawn, Leave, Inv, Shapes
<1>2. CASE Count(c)
  <2>1. PICK lost \in BOOLEAN, bytes \in Lengths(dir[cmd[c].retain]) :
            cmd' = [cmd EXCEPT ![c] =
                      [at |-> "counted", retain |-> cmd[c].retain,
                       published |-> cmd[c].published, lost |-> lost,
                       state |-> Record(Counters(lost), cmd[c].published, bytes)]]
    BY <1>2 DEF Count
  <2> DEFINE new == Record(Counters(lost), cmd[c].published, bytes)
  <2>2. Counters(lost) \in State /\ bytes \in Nat
    BY <1>2, DefaultType, LengthsAreNat DEF Inv, Shapes, Counters, Count
  <2>3. new.last = Counters(lost).last
    BY <2>2, RecordType
  <2>4. attempted # Nothing => new.last >= attempted \/ lost \/ forgotten
    BY <2>3 DEF Spacing, Counters
  <2>5. /\ cmd'[c].at = "counted" /\ cmd'[c].lost = lost /\ cmd'[c].state = new
        /\ \A d \in Commands \ {c} : cmd'[d] = cmd[d]
    BY <1>1, <2>1
  <2> HIDE DEF new
  <2>6. UNCHANGED <<state, forgotten>>
    BY <1>2 DEF Count
  <2> QED
    BY <1>1, <2>4, <2>5, <2>6 DEF Spacing, Counted, Reserving
<1>3. ASSUME ~Count(c) PROVE Spacing' /\ ~Reserving
  <2>1. \A d \in Commands : Counted(d)' => cmd'[d] = cmd[d] /\ Counted(d)
    BY <1>1, <1>3 DEF Render, Postpone, Spawn, Leave, Counted
  <2>2. ~Reserving
    BY <1>1, <1>3 DEF Render, Postpone, Spawn, Leave, Reserving
  <2>3. \/ UNCHANGED <<state, forgotten>>
        \/ /\ Counted(c) /\ state' = cmd[c].state /\ state' # Nothing
           /\ forgotten' <=> forgotten \/ cmd[c].lost
    BY <1>3, FilesAreFiles DEF Render, Postpone, Spawn, Leave, Counted, Inv, Shapes
  <2>4. \A d \in Commands : Counted(d)' => cmd'[d].state = cmd[d].state /\ cmd'[d].lost = cmd[d].lost
    BY <2>1
  <2>5. forgotten => forgotten'
    BY <2>3
  <2>6. attempted # Nothing => attempted <= clock
    BY DEF Spacing
  <2>7. attempted # Nothing /\ ~forgotten' => state' # Nothing /\ state'.last >= attempted
    BY <2>3 DEF Spacing
  <2>8. attempted # Nothing => \A d \in Commands : Counted(d)' =>
           cmd'[d].state.last >= attempted \/ cmd'[d].lost \/ forgotten'
    BY <2>1, <2>4, <2>5 DEF Spacing
  <2> QED
    BY <1>1, <2>2, <2>6, <2>7, <2>8 DEF Spacing
<1> QED
  BY <1>2, <1>3

\* An attempt is known from then on, and no other command has read the counters.
LEMMA AttemptSpacing ==
  ASSUME Inv, Spacing, NEW c \in Commands, Attempt(c)
  PROVE  /\ Spacing'
         /\ Reserving /\ attempted # Nothing =>
               attempted' >= attempted + Interval \/ forgotten \/ Misled
<1>1. clock \in Times /\ cmd[c].state \in State /\ DOMAIN cmd = Commands /\ clock' = clock
  BY DEF Attempt, Inv, Shapes
<1>2. /\ \A d \in Commands : Counted(d)' => d # c /\ Counted(d) /\ cmd'[d] = cmd[d]
      /\ \A d \in Commands \ {c} : cmd'[d] = cmd[d]
  BY <1>1 DEF Attempt, Counted
<1>3. lock = c /\ Counted(c)
  BY DEF Attempt, Inv, Holders, Counted
<1>4. \A d \in Commands : ~Counted(d)'
  BY <1>2, <1>3 DEF Inv, Holders, Counted
<1>5. CASE UNCHANGED <<state, attempted, forgotten>> /\ cmd' = [cmd EXCEPT ![c] = Nothing]
  <2>1. ~Reserving
    BY <1>1, <1>2, <1>5 DEF Reserving
  <2> QED
    BY <1>1, <1>4, <1>5, <2>1 DEF Spacing
<1>6. CASE state' = Reserve(cmd[c].state, clock) /\ attempted' = clock
  <2>1. state' \in State /\ state'.last = clock
    BY <1>1, <1>6, ReserveType
  <2>2. clock >= clock /\ clock <= clock
    BY <1>1, LastIsNat
  <2>3. Spacing'
    BY <1>1, <1>4, <1>6, <2>1, <2>2, FilesAreFiles DEF Spacing
  <2>4. ASSUME attempted # Nothing, ~forgotten, ~Misled
        PROVE  attempted' >= attempted + Interval
    <3>1. attempted \in Times /\ attempted <= clock /\ cmd[c].state.last >= attempted
      BY <1>3, <2>4 DEF Spacing, Inv, Shapes, Misled, Counted
    <3> QED
      BY <1>1, <1>6, <3>1, DueIsLater DEF Attempt
  <2> QED
    BY <2>3, <2>4
<1> QED
  BY <1>5, <1>6 DEF Attempt

\* Workers and the environment do too, while the clock is not set back.
LEMMA OtherSpacing ==
  ASSUME ~ClockTurnsBack, Inv, Spacing,
         \/ \E w \in Workers : Scan(w) \/ Evict(w) \/ Finish(w) \/ Quit(w)
         \/ Tick \/ (\E s \in Slots : Bloat(s)) \/ Clear \/ UNCHANGED vars
  PROVE  Spacing' /\ ~Reserving
<1>1. UNCHANGED <<cmd, attempted>>
  BY DEF Scan, Evict, Finish, Quit, Tick, Bloat, Clear, vars
<1>2. clock' = clock \/ clock' = clock + 1
  BY DEF Scan, Evict, Finish, Quit, Tick, Bloat, Clear, vars
<1>3. clock \in Nat /\ (attempted # Nothing => attempted \in Nat)
  BY LastIsNat DEF Inv, Shapes
<1>4. attempted # Nothing => attempted <= clock /\ attempted <= clock'
  BY <1>2, <1>3 DEF Spacing
<1>5. ~Reserving
  BY <1>1 DEF Reserving
<1>6. CASE UNCHANGED <<state, forgotten>> \/ forgotten'
  BY <1>1, <1>4, <1>5, <1>6 DEF Spacing, Counted
<1>7. CASE \E w \in Workers : Finish(w) /\ state' = Completed(clock, pass[w].pending)
  <2>1. \A c \in Commands : ~Counted(c)
    BY <1>7, NothingAssumption DEF Finish, Inv, Holders, Evicting, Counted
  <2>2. state' \in State /\ state'.last = clock
    BY <1>7, CompletedType DEF Inv, Shapes
  <2> QED
    BY <1>1, <1>4, <1>5, <2>1, <2>2, FilesAreFiles DEF Spacing, Counted
<1> QED
  BY <1>6, <1>7 DEF Scan, Evict, Finish, Quit, Tick, Bloat, Clear, vars

\* Unless the state file was lost or cleared, attempts are an interval apart, provided
\* that the clock is not set back.
THEOREM AttemptsAreSpaced == ASSUME ~ClockTurnsBack PROVE Spec => SpacedUnlessForgotten
<1> DEFINE Apart == Reserving /\ attempted # Nothing =>
                       attempted' >= attempted + Interval \/ forgotten \/ Misled
<1>1. Init => Spacing
  BY DEF Init, Spacing
<1>2. Inv /\ Spacing /\ [Next]_vars => Spacing' /\ [Apart]_vars
  <2> SUFFICES ASSUME Inv, Spacing, [Next]_vars PROVE Spacing' /\ Apart
    OBVIOUS
  <2>1. ASSUME NEW c \in Commands, Attempt(c) PROVE Spacing' /\ Apart
    BY <2>1, AttemptSpacing
  <2>2. ASSUME NEW c \in Commands,
               \/ \E s \in Slots : Render(c, s)
               \/ Count(c) \/ Postpone(c)
               \/ \E w \in Workers : Spawn(c, w)
               \/ Leave(c)
        PROVE  Spacing' /\ ~Reserving
    BY <2>2, CommandSpacing
  <2>3. ASSUME \/ \E w \in Workers : Scan(w) \/ Evict(w) \/ Finish(w) \/ Quit(w)
               \/ Tick \/ (\E s \in Slots : Bloat(s)) \/ Clear \/ UNCHANGED vars
        PROVE  Spacing' /\ ~Reserving
    BY <2>3, OtherSpacing
  <2> QED
    BY <2>1, <2>2, <2>3 DEF Next
<1> QED
  BY <1>1, <1>2, Invariance, PTL DEF Spec, SpacedUnlessForgotten
=============================================================================
