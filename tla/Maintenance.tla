---------------------------- MODULE Maintenance ----------------------------
(***************************************************************************)
(* Deferred maintenance, src/cache/maintenance.rs with the decisions of    *)
(* src/cache/policy.rs: after its output a command counts its publication  *)
(* in maintenance-state.json and, when enough have come together and the   *)
(* last attempt is long enough ago, reserves an attempt and starts a       *)
(* worker, which evicts old snapshots and records that it is done.         *)
(*                                                                         *)
(* Publications are single steps here; CacheStore has their parts.  The    *)
(* time budget of a pass is a moment that may come at any time.            *)
(***************************************************************************)
EXTENDS Naturals, FiniteSets

CONSTANTS
    Commands,       \* foreground commands
    Workers,        \* maintenance processes that may exist at once
    Last,           \* slots are numbered 0..Last (SLOTS)
    Sizes,          \* sizes of published snapshots
    EntryLimit,     \* ENTRY_LIMIT
    PassBytes,      \* PASS_BYTES
    Recent,         \* snapshots kept for their rank (8)
    MaxAge,         \* MAX_AGE
    Interval,       \* INTERVAL
    DueCount,       \* publications that make an attempt worthwhile (16)
    DueBytes,       \* bytes that do (4 * ENTRY_LIMIT)
    FirstTime,      \* readings of the system clock lie in
    LastTime,       \*   FirstTime..LastTime
    ClockTurnsBack, \* whether the system clock may be set back
    Losses,         \* how the time of an attempt may be lost from the state:
                    \* "cleared" by --clear-cache, "unread" in a file that
                    \* is there and cannot be read, decoded or admitted
    Nothing         \* no file, no process

ASSUME NumbersAssumption ==
    /\ {Last, EntryLimit, PassBytes, Recent, MaxAge, Interval, DueCount,
        DueBytes, FirstTime, LastTime} \subseteq Nat
    /\ Sizes \subseteq 1..EntryLimit
    /\ ClockTurnsBack \in BOOLEAN
    /\ Losses \subseteq {"cleared", "unread"}

\* The counters start at last_attempt = 0, in 1970.
ASSUME ClockAssumption == Interval <= FirstTime /\ FirstTime <= LastTime

ASSUME NothingAssumption ==
    /\ Nothing \notin Nat
    /\ Nothing \notin Commands \cup Workers
    /\ Commands \cap Workers = {}

VARIABLES
    clock,      \* what the system clock reads
    dir,        \* slot -> its file, or Nothing
    state,      \* maintenance-state.json, or Nothing
    lock,       \* the holder of publication.lock, or Nothing
    cmd,        \* command -> what it does after rendering, or Nothing
    pass,       \* worker -> its process, or Nothing
    attempted,  \* history: the clock at the latest attempt, or Nothing
    forgotten   \* history: the state does not know of it any more

vars == <<clock, dir, state, lock, cmd, pass, attempted, forgotten>>

Slots == 0..Last
Times == FirstTime..LastTime
File == [size : 1..(EntryLimit + 1), mtime : Times]

\* MaintenanceState.  Beyond DueCount and DueBytes the counters make no
\* difference, and the model lets them stop there.
State == [publications : 0..DueCount, last : Times \cup {0}, bytes : 0..DueBytes]
DefaultState == [publications |-> 0, last |-> 0, bytes |-> 0]
ASSUME FilesAssumption == Nothing \notin File \cup State

UpTo(limit, n) == IF n < limit THEN n ELSE limit

Init ==
    /\ clock = FirstTime
    /\ dir = [s \in Slots |-> Nothing]
    /\ state = Nothing
    /\ lock = Nothing
    /\ cmd = [c \in Commands |-> Nothing]
    /\ pass = [w \in Workers |-> Nothing]
    /\ attempted = Nothing
    /\ forgotten = FALSE

-----------------------------------------------------------------------------
(* Decisions of policy.rs.                                                 *)

Record(st, published, bytes) ==
    IF published
    THEN [st EXCEPT !.publications = UpTo(DueCount, @ + 1),
                    !.bytes = UpTo(DueBytes, @ + bytes)]
    ELSE st

\* saturating_sub: a clock that was set back is no time at all.
Elapsed(from, to) == IF from <= to THEN to - from ELSE 0

Due(st, current) ==
    /\ st.publications >= DueCount \/ st.bytes >= DueBytes
    /\ Elapsed(st.last, current) >= Interval

\* Mutant of Reserve: the publications are added to the counter.
ReserveAdded(st, current) ==
    [st EXCEPT !.last = current, !.publications = @ + DueCount]

Reserve(st, current) == [st EXCEPT !.last = current, !.publications = DueCount]

Completed(current, pending) ==
    [publications |-> IF pending THEN DueCount ELSE 0, last |-> current, bytes |-> 0]

\* Mutant of WithinBudget: the next entry is left out of the sum.
WithinBudgetSoFar(reclaimed, next) == reclaimed <= PassBytes

WithinBudget(reclaimed, next) == reclaimed + next <= PassBytes

\* Mutant of ShouldEvict: the triggering snapshot is like any other.
ShouldEvictCurrent(index, file, isCurrent, current) ==
    \/ index >= Recent
    \/ file.size > EntryLimit
    \/ file.mtime <= current /\ current - file.mtime >= MaxAge

\* checked_sub: a file from the future has no age.
ShouldEvict(index, file, isCurrent, current) ==
    /\ ~isCurrent
    /\ \/ index >= Recent
       \/ file.size > EntryLimit
       \/ file.mtime <= current /\ current - file.mtime >= MaxAge

-----------------------------------------------------------------------------
(* Commands.                                                               *)

\* Mutant of Free: the lock is not exclusive.
FreeAlways == TRUE

\* Store::lock never waits.
Free == lock = Nothing

\* The output is flushed; a miss may have published its snapshot.
Render(c, s) ==
    /\ cmd[c] = Nothing
    /\ \/ /\ Free
          /\ \E n \in Sizes : dir' = [dir EXCEPT ![s] = [size |-> n, mtime |-> clock]]
          /\ cmd' = [cmd EXCEPT ![c] = [at |-> "rendered", retain |-> s, published |-> TRUE]]
       \/ /\ cmd' = [cmd EXCEPT ![c] = [at |-> "rendered", retain |-> s, published |-> FALSE]]
          /\ UNCHANGED dir
    /\ UNCHANGED <<clock, state, lock, pass, attempted, forgotten>>

\* read(..).unwrap_or_default(): no state, or a lost one, is the default.
Counters(lost) == IF lost \/ state = Nothing THEN DefaultState ELSE state

\* What the metadata of a slot says; none is no bytes.
Lengths(file) == IF file = Nothing THEN {0} ELSE {0, file.size}

\* after_render takes the lock and reads the state; when the lock is busy it
\* is over (Leave).
Count(c) ==
    /\ cmd[c] # Nothing
    /\ cmd[c].at = "rendered"
    /\ Free
    /\ lock' = c
    /\ \E lost \in {"unread" \in Losses /\ state # Nothing, FALSE},
          bytes \in Lengths(dir[cmd[c].retain]) :
          cmd' = [cmd EXCEPT ![c] =
                    [at |-> "counted", retain |-> cmd[c].retain,
                     published |-> cmd[c].published, lost |-> lost,
                     state |-> Record(Counters(lost), cmd[c].published, bytes)]]
    /\ UNCHANGED <<clock, dir, state, pass, attempted, forgotten>>

\* Not due: only a publication is worth writing down, and that may fail.
Postpone(c) ==
    /\ cmd[c] # Nothing
    /\ cmd[c].at = "counted"
    /\ ~Due(cmd[c].state, clock)
    /\ \/ /\ cmd[c].published
          /\ state' = cmd[c].state
          /\ forgotten' = (forgotten \/ cmd[c].lost)
       \/ UNCHANGED <<state, forgotten>>
    /\ lock' = Nothing
    /\ cmd' = [cmd EXCEPT ![c] = Nothing]
    /\ UNCHANGED <<clock, dir, pass, attempted>>

\* Due: the attempt is reserved before anything is started.
Attempt(c) ==
    /\ cmd[c] # Nothing
    /\ cmd[c].at = "counted"
    /\ Due(cmd[c].state, clock)
    /\ lock' = Nothing
    /\ \/ /\ state' = Reserve(cmd[c].state, clock)
          /\ attempted' = clock
          /\ forgotten' = FALSE
          /\ cmd' = [cmd EXCEPT ![c] = [at |-> "reserved", retain |-> cmd[c].retain]]
       \/ /\ cmd' = [cmd EXCEPT ![c] = Nothing]
          /\ UNCHANGED <<state, attempted, forgotten>>
    /\ UNCHANGED <<clock, dir, pass>>

\* spawn hands the worker the name of the triggering slot.
Spawn(c, w) ==
    /\ cmd[c] # Nothing
    /\ cmd[c].at = "reserved"
    /\ pass[w] = Nothing
    /\ pass' = [pass EXCEPT ![w] = [at |-> "spawned", retain |-> cmd[c].retain]]
    /\ cmd' = [cmd EXCEPT ![c] = Nothing]
    /\ UNCHANGED <<clock, dir, state, lock, attempted, forgotten>>

Unlock(x) == lock' = IF lock = x THEN Nothing ELSE lock

\* The lock is busy, maintenance is disabled, the spawn fails, or the command
\* dies.
Leave(c) ==
    /\ cmd[c] # Nothing
    /\ cmd' = [cmd EXCEPT ![c] = Nothing]
    /\ Unlock(c)
    /\ UNCHANGED <<clock, dir, state, pass, attempted, forgotten>>

-----------------------------------------------------------------------------
(* Workers.                                                                *)

\* The slots that a scan of the first n has in front of it.
Present(n) == {s \in Slots : s < n /\ dir[s] # Nothing}

\* Both locks: maintenance.lock is held exactly by a worker that also holds
\* publication.lock, so one of them tells the story of both.  The scan reads
\* the slots in their order until its time is over, which it then stays; it
\* passes over a slot whose metadata it cannot get (unseen) without a word.
Scan(w) ==
    /\ pass[w] # Nothing
    /\ pass[w].at = "spawned"
    /\ Free
    /\ lock' = w
    /\ \E n \in 0..(Last + 1) : \E unseen \in SUBSET Present(n) :
          pass' = [pass EXCEPT ![w] =
            [at |-> "evicting", retain |-> pass[w].retain, current |-> clock,
             found |-> dir, unseen |-> unseen,
             listed |-> Present(n) \ unseen, left |-> Present(n) \ unseen,
             late |-> n <= Last, pending |-> n <= Last, reclaimed |-> 0]]
    /\ UNCHANGED <<clock, dir, state, cmd, attempted, forgotten>>

\* The order of the sort, which is stable: the newest first.
Before(found, s, t) ==
    \/ found[s].mtime > found[t].mtime
    \/ found[s].mtime = found[t].mtime /\ s < t

Index(p, s) == Cardinality({t \in p.listed : Before(p.found, t, s)})

\* Once the time is over it stays so.
Late(p) == IF p.late THEN {TRUE} ELSE BOOLEAN

\* Mutant of Evict: an entry that is skipped leaves no pending work.
EvictForgetful(w) ==
    /\ pass[w] # Nothing
    /\ pass[w].at = "evicting"
    /\ \E s \in pass[w].left :
          /\ \A t \in pass[w].left \ {s} : Before(pass[w].found, s, t)
          /\ IF /\ ShouldEvict(Index(pass[w], s), pass[w].found[s],
                               s = pass[w].retain, pass[w].current)
                /\ WithinBudget(pass[w].reclaimed, pass[w].found[s].size)
             THEN /\ pass' = [pass EXCEPT ![w].left = @ \ {s},
                                 ![w].reclaimed = @ + pass[w].found[s].size]
                  /\ dir' = [dir EXCEPT ![s] = Nothing]
             ELSE /\ pass' = [pass EXCEPT ![w].left = @ \ {s}]
                  /\ UNCHANGED dir
    /\ UNCHANGED <<clock, state, lock, cmd, attempted, forgotten>>

\* One round of the loop over the sorted entries.
Evict(w) ==
    /\ pass[w] # Nothing
    /\ pass[w].at = "evicting"
    /\ \E s \in pass[w].left :
          /\ \A t \in pass[w].left \ {s} : Before(pass[w].found, s, t)
          /\ LET p == pass[w]
                 size == p.found[s].size
                 rest == [p EXCEPT !.left = @ \ {s}]
             IN  IF ~ShouldEvict(Index(p, s), p.found[s], s = p.retain, p.current)
                 THEN /\ pass' = [pass EXCEPT ![w] = rest]
                      /\ UNCHANGED dir
                 ELSE \E late \in Late(p) :
                        \/ /\ pass' = [pass EXCEPT ![w] =
                                 [rest EXCEPT !.late = late, !.pending = TRUE]]
                           /\ UNCHANGED dir
                        \/ /\ ~late
                           /\ WithinBudget(p.reclaimed, size)
                           /\ pass' = [pass EXCEPT ![w] =
                                 [rest EXCEPT !.reclaimed = @ + size]]
                           /\ dir' = [dir EXCEPT ![s] = Nothing]
    /\ UNCHANGED <<clock, state, lock, cmd, attempted, forgotten>>

\* The report and the state are published; the second may fail, and so the
\* attempt stays reserved.
Finish(w) ==
    /\ pass[w] # Nothing
    /\ pass[w].at = "evicting"
    /\ pass[w].left = {}
    /\ \/ state' = Completed(clock, pass[w].pending) /\ forgotten' = FALSE
       \/ UNCHANGED <<state, forgotten>>
    /\ lock' = Nothing
    /\ pass' = [pass EXCEPT ![w] = Nothing]
    /\ UNCHANGED <<clock, dir, cmd, attempted>>

\* The locks are busy, or the worker is killed.
Quit(w) ==
    /\ pass[w] # Nothing
    /\ pass' = [pass EXCEPT ![w] = Nothing]
    /\ Unlock(w)
    /\ UNCHANGED <<clock, dir, state, cmd, attempted, forgotten>>

-----------------------------------------------------------------------------
(* The environment.                                                        *)

Tick ==
    /\ \/ clock < LastTime /\ clock' = clock + 1
       \/ ClockTurnsBack /\ clock > FirstTime /\ clock' = clock - 1
    /\ UNCHANGED <<dir, state, lock, cmd, pass, attempted, forgotten>>

\* A foreign program makes a snapshot larger than any publication is.
Bloat(s) ==
    /\ Free
    /\ dir[s] # Nothing
    /\ dir' = [dir EXCEPT ![s] = [size |-> EntryLimit + 1, mtime |-> clock]]
    /\ UNCHANGED <<clock, state, lock, cmd, pass, attempted, forgotten>>

\* Store::clear under the lock, as far as its removals succeed.
Clear ==
    /\ "cleared" \in Losses
    /\ Free
    /\ \E gone \in SUBSET Slots :
          dir' = [s \in Slots |-> IF s \in gone THEN Nothing ELSE dir[s]]
    /\ \/ state' = Nothing /\ forgotten' = TRUE
       \/ UNCHANGED <<state, forgotten>>
    /\ UNCHANGED <<clock, lock, cmd, pass, attempted>>

Next ==
    \/ \E c \in Commands :
          \/ \E s \in Slots : Render(c, s)
          \/ Count(c) \/ Postpone(c) \/ Attempt(c)
          \/ \E w \in Workers : Spawn(c, w)
          \/ Leave(c)
    \/ \E w \in Workers : Scan(w) \/ Evict(w) \/ Finish(w) \/ Quit(w)
    \/ Tick
    \/ \E s \in Slots : Bloat(s)
    \/ Clear

Spec == Init /\ [][Next]_vars

-----------------------------------------------------------------------------
(* Properties.                                                             *)

Evicting == {w \in Workers : pass[w] # Nothing /\ pass[w].at = "evicting"}

\* Every variable keeps its type.
TypeOK ==
    /\ clock \in Times
    /\ dir \in [Slots -> File \cup {Nothing}]
    /\ state \in State \cup {Nothing}
    /\ lock \in Commands \cup Workers \cup {Nothing}
    /\ \A c \in Commands : cmd[c] # Nothing =>
          /\ cmd[c].at \in {"rendered", "counted", "reserved"}
          /\ cmd[c].retain \in Slots
          /\ cmd[c].at = "counted" => cmd[c].state \in State /\ cmd[c].lost \in BOOLEAN
    /\ \A w \in Workers : pass[w] # Nothing =>
          /\ pass[w].at \in {"spawned", "evicting"}
          /\ pass[w].retain \in Slots
    /\ \A w \in Evicting :
          /\ pass[w].current \in Times
          /\ pass[w].found \in [Slots -> File \cup {Nothing}]
          /\ pass[w].left \subseteq pass[w].listed
          /\ pass[w].listed \cup pass[w].unseen
                \subseteq {s \in Slots : pass[w].found[s] # Nothing}
          /\ {pass[w].late, pass[w].pending} \subseteq BOOLEAN
          /\ pass[w].reclaimed \in Nat
    /\ attempted \in Times \cup {Nothing}
    /\ forgotten \in BOOLEAN

\* How many other snapshots of the whole directory p found are not older.
Rivals(p, s) ==
    Cardinality({t \in Slots \ {s} :
                   p.found[t] # Nothing /\ p.found[t].mtime >= p.found[s].mtime})
\* How many snapshots that the scan could see are newer.
Newer(p, s) ==
    Cardinality({t \in Slots \ p.unseen :
                   p.found[t] # Nothing /\ p.found[t].mtime > p.found[s].mtime})

Young(p, s) ==
    p.found[s].mtime > p.current \/ p.current - p.found[s].mtime < MaxAge

\* docs/configuration.md: a pass retains the recent snapshots and the
\* triggering one.  Whatever it has seen of the directory and however late it
\* is, a pass never removes the triggering snapshot, nor one of admissible
\* size and age that is among the most recent of the whole directory.
KeepsRecent ==
    \A w \in Evicting : \A s \in Slots :
        LET p == pass[w]
        IN  /\ p.found[s] # Nothing
            /\ \/ s = p.retain
               \/ /\ Rivals(p, s) < Recent
                  /\ p.found[s].size <= EntryLimit
                  /\ Young(p, s)
            => dir[s] = p.found[s]

\* docs/configuration.md: deferred reclamation remains eligible.  A pass that
\* records no pending work has left nothing behind that it should remove,
\* among the snapshots whose metadata it could read.
NothingForgotten ==
    \A w \in Evicting : pass[w].left = {} /\ ~pass[w].pending =>
        \A s \in Slots \ pass[w].unseen : dir[s] # Nothing =>
            \/ s = pass[w].retain
            \/ /\ Newer(pass[w], s) < Recent
               /\ dir[s].size <= EntryLimit
               /\ Young(pass[w], s)

\* Every byte of the files of some slots.
Bytes(found, slots) == UNION {{s} \X (1..found[s].size) : s \in slots}

\* docs/configuration.md: the reclamation budget.  What a pass counts is the
\* sum of the sizes of the files it has removed, and that is never more than
\* its budget.
BudgetKept ==
    \A w \in Evicting :
        LET p == pass[w]
            removed == {s \in Slots : p.found[s] # Nothing /\ dir[s] = Nothing}
        IN  /\ Cardinality(Bytes(p.found, removed)) = p.reclaimed
            /\ p.reclaimed <= PassBytes
            /\ removed \subseteq p.listed \ p.left

\* An attempt: a command that has counted has its reservation written.
Reserving ==
    \E c \in Commands :
        /\ cmd[c] # Nothing /\ cmd[c].at = "counted"
        /\ cmd'[c] # Nothing /\ cmd'[c].at = "reserved"

\* docs/configuration.md, line 107: at least one hour between attempts.
AttemptsSpaced ==
    [][Reserving /\ attempted # Nothing => attempted' >= attempted + Interval]_vars

\* A command that has taken a lost state for none.
Misled == \E c \in Commands : cmd[c] # Nothing /\ cmd[c].at = "counted" /\ cmd[c].lost

\* As long as the state is readable and has not been cleared, nothing else
\* loses an attempt: commands that find the counters full at the same time, a
\* worker that completes meanwhile, writes that fail and processes that die
\* leave at least an hour between attempts.
SpacedUnlessForgotten ==
    [][Reserving /\ attempted # Nothing =>
          attempted' >= attempted + Interval \/ forgotten \/ Misled]_vars
=============================================================================
