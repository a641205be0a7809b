----------------------------- MODULE CacheStore -----------------------------
(***************************************************************************)
(* The store of src/cache.rs at the grain of its file-system calls: one    *)
(* directory shared by every worktree's processes, one lock file           *)
(* (publication.lock, never waited for), one temporary file                *)
(* (publication.tmp) and the final names.                                  *)
(*                                                                         *)
(* A process that holds the lock removes some paths and then publishes     *)
(* some entries, and lets go of the lock:                                  *)
(*    Store::publish, publish_encoded   nothing,     one entry             *)
(*    Store::clear                      every path,  no entry              *)
(*    maintenance::run                  some slots and the temporary file, *)
(*                                      then its report and its state      *)
(* Readers take no lock.  Any call may fail and any process may die        *)
(* between two calls; the operating system then drops its lock, and the    *)
(* temporary file stays.                                                   *)
(***************************************************************************)
EXTENDS Sequences

CONSTANTS
    Procs,          \* processes: foreground runs and maintenance workers
    Names,          \* final names: snapshot slots, fact files, state, report
    Slots,          \* the snapshot slots among them
    Keys,           \* complete keys, as the envelope stores them
    StateKey,       \* the key of maintenance-state.json
    ReportKey,      \* the key of maintenance-report.json
    Values,         \* payloads
    Large,          \* payloads whose encoding exceeds ENTRY_LIMIT
    NameOf,         \* key -> name (snapshot_name hashes many keys to a slot)
    Temp,           \* the path publication.tmp
    Miss,           \* no file, no answer
    Nobody          \* no holder

ASSUME NamesAssumption ==
    /\ Slots \subseteq Names
    /\ Temp \notin Names
    /\ NameOf \in [Keys -> Names]
    /\ {StateKey, ReportKey} \subseteq Keys

ASSUME ValuesAssumption ==
    /\ Large \subseteq Values
    /\ Miss \notin Values
    /\ Miss \notin [key : Keys, value : Values]
    /\ Miss \notin [entry : [key : Keys, value : Values],
                    state : {"torn", "whole", "damaged"}]
    /\ Miss \notin [entry : [key : Keys, value : Values],
                    whole : BOOLEAN, by : Procs]
    /\ Nobody \notin Procs

VARIABLES
    files,      \* final name -> the file linked there, or Miss
    temp,       \* the file linked at publication.tmp, or Miss
    lock,       \* the holder of publication.lock, or Nobody
    pc,         \* process -> the call it makes next
    job,        \* process -> what is left to do under the lock
    want,       \* process -> the key its reader asked for, or Miss
    handle      \* process -> the file its reader has open, or Miss

vars == <<files, temp, lock, pc, job, want, handle>>
reading == <<want, handle>>

Entry == [key : Keys, value : Values]
Admissible == [key : Keys, value : Values \ Large]

(***************************************************************************)
(* A final file is "whole" (its bytes are an encoded entry), "torn" (only  *)
(* some of them) or "damaged" (spoilt by something outside the program).   *)
(* The temporary file also remembers whose open handle wrote it.           *)
(***************************************************************************)
File == [entry : Admissible, state : {"torn", "whole", "damaged"}]
TempFile == [entry : Admissible, whole : BOOLEAN, by : Procs]

Paths == Names \cup {Temp}

\* clear: the job is Store::clear, whose result tells whether all removals
\* succeeded so far (complete).
Job == [clear : BOOLEAN, remove : SUBSET Paths, write : Seq(Entry),
        complete : BOOLEAN]
Task(remove, write) ==
    [clear |-> FALSE, remove |-> remove, write |-> write, complete |-> TRUE]
NoJob == Task({}, <<>>)
ClearJob ==
    [clear |-> TRUE, remove |-> Paths, write |-> <<>>, complete |-> TRUE]

Init ==
    /\ files = [n \in Names |-> Miss]
    /\ temp = Miss
    /\ lock = Nobody
    /\ pc = [p \in Procs |-> "idle"]
    /\ job = [p \in Procs |-> NoJob]
    /\ want = [p \in Procs |-> Miss]
    /\ handle = [p \in Procs |-> Miss]

-----------------------------------------------------------------------------
(***************************************************************************)
(* Taking the lock.  Store::lock uses try_lock: when the lock is taken the *)
(* caller skips its operation, which changes nothing and is no step here.  *)
(***************************************************************************)
\* Mutant of Lockable: the caller goes on when the lock is busy.
LockableAlways == TRUE

Lockable == lock = Nobody

Enter(p, at, j) ==
    /\ pc[p] = "idle"
    /\ Lockable
    /\ lock' = p
    /\ pc' = [pc EXCEPT ![p] = at]
    /\ job' = [job EXCEPT ![p] = j]
    /\ UNCHANGED <<files, temp, reading>>

\* Store::publish of a snapshot and after_render's publish_locked of the
\* maintenance state encode under the lock.
BeginPublish(p) ==
    \E e \in Entry :
        /\ NameOf[e.key] \in Slots \/ (e.key = StateKey /\ e.value \notin Large)
        /\ Enter(p, "encode", Task({}, <<e>>))

\* Store::publish_encoded (fact files) gets bytes that admission encoded.
BeginPublishEncoded(p) ==
    \E e \in Entry :
        /\ NameOf[e.key] \notin Slots
        /\ e.key \notin {StateKey, ReportKey}
        /\ e.value \notin Large
        /\ Enter(p, "reclaim", Task({}, <<e>>))

\* Mutant of BeginClear: the lock is dropped before anything is removed.
BeginClearUnlocked(p) ==
    /\ pc[p] = "idle"
    /\ Lockable
    /\ pc' = [pc EXCEPT ![p] = "remove"]
    /\ job' = [job EXCEPT ![p] = ClearJob]
    /\ UNCHANGED <<files, temp, lock, reading>>

BeginClear(p) ==
    Enter(p, "remove", ClearJob)

\* A maintenance pass: which slots it condemns is Maintenance's concern; its
\* two records have a fixed size far below the limit.
BeginPass(p) ==
    \E S \in SUBSET Slots, report, state \in Values \ Large :
        Enter(p, "remove",
              Task(S \cup {Temp}, <<[key |-> ReportKey, value |-> report],
                                    [key |-> StateKey, value |-> state]>>))

\* Mutant of Leave: a job that ends keeps its lock.
LeaveLocked(p) ==
    /\ pc' = [pc EXCEPT ![p] = "idle"]
    /\ job' = [job EXCEPT ![p] = NoJob]
    /\ UNCHANGED lock

\* The lock is dropped when the last publication has returned.
Leave(p) ==
    /\ pc' = [pc EXCEPT ![p] = "idle"]
    /\ job' = [job EXCEPT ![p] = NoJob]
    /\ lock' = Nobody

\* One publication of a job is over, whether it succeeded or not.
EndWrite(p) ==
    IF Tail(job[p].write) # <<>>
    THEN /\ pc' = [pc EXCEPT ![p] = "encode"]
         /\ job' = [job EXCEPT ![p].write = Tail(job[p].write)]
         /\ UNCHANGED lock
    ELSE Leave(p)

-----------------------------------------------------------------------------
(***************************************************************************)
(* Removing paths.  A file that is not there counts as removed; another    *)
(* error leaves it and makes the result of clear FALSE.  The pass removes  *)
(* the temporary file last; the order of clear's removals is left open.    *)
(***************************************************************************)
Unlink(x) ==
    /\ files' = [n \in Names |-> IF n = x THEN Miss ELSE files[n]]
    /\ temp' = IF x = Temp THEN Miss ELSE temp

Remove(p) ==
    /\ pc[p] = "remove"
    /\ \E x \in job[p].remove :
          /\ x = Temp /\ ~job[p].clear => job[p].remove = {Temp}
          /\ \/ /\ Unlink(x)
                /\ job' = [job EXCEPT ![p].remove = @ \ {x}]
             \/ /\ job' = [job EXCEPT ![p].remove = @ \ {x},
                                      ![p].complete = FALSE]
                /\ UNCHANGED <<files, temp>>
    /\ UNCHANGED <<lock, pc, reading>>

Removed(p) ==
    /\ pc[p] = "remove"
    /\ job[p].remove = {}
    /\ IF job[p].write = <<>>
       THEN Leave(p)
       ELSE /\ pc' = [pc EXCEPT ![p] = "encode"]
            /\ UNCHANGED <<lock, job>>
    /\ UNCHANGED <<files, temp, reading>>

-----------------------------------------------------------------------------
(* One publication: encoded_entry, then the calls of write_locked.         *)

Current(p) == Head(job[p].write)

Goto(p, label) ==
    /\ pc' = [pc EXCEPT ![p] = label]
    /\ UNCHANGED <<lock, job>>

\* Mutant of Encode: the buffer has no limit.
EncodeUnbounded(p) ==
    /\ pc[p] = "encode"
    /\ Goto(p, "reclaim")
    /\ UNCHANGED <<files, temp, reading>>

Encode(p) ==
    /\ pc[p] = "encode"
    /\ IF Current(p).value \in Large THEN EndWrite(p) ELSE Goto(p, "reclaim")
    /\ UNCHANGED <<files, temp, reading>>

\* Mutant of Reclaim: what an interrupted publication left stays there.
ReclaimNothing(p) ==
    /\ pc[p] = "reclaim"
    /\ Goto(p, "create")
    /\ UNCHANGED <<files, temp, reading>>

\* A temporary file left by an interrupted publication is removed first.
Reclaim(p) ==
    /\ pc[p] = "reclaim"
    /\ \/ /\ temp' = Miss
          /\ Goto(p, "create")
       \/ /\ temp # Miss
          /\ UNCHANGED temp
          /\ EndWrite(p)
    /\ UNCHANGED <<files, reading>>

\* create_new refuses an existing file.
Create(p) ==
    /\ pc[p] = "create"
    /\ \/ /\ temp = Miss
          /\ temp' = [entry |-> Current(p), whole |-> FALSE, by |-> p]
          /\ Goto(p, "write")
       \/ /\ Goto(p, "abandon")
          /\ UNCHANGED temp
    /\ UNCHANGED <<files, reading>>

\* The handle writes the file this process created, and no other.
Write(p) ==
    /\ pc[p] = "write"
    /\ \/ /\ temp' = IF temp # Miss /\ temp.by = p
                     THEN [temp EXCEPT !.whole = TRUE]
                     ELSE temp
          /\ Goto(p, "rename")
       \/ /\ Goto(p, "abandon")
          /\ UNCHANGED temp
    /\ UNCHANGED <<files, reading>>

\* The rename replaces the final name with whatever publication.tmp is.
Rename(p) ==
    /\ pc[p] = "rename"
    /\ \/ /\ temp # Miss
          /\ files' = [files EXCEPT ![NameOf[Current(p).key]] =
                          [entry |-> temp.entry,
                           state |-> IF temp.whole THEN "whole" ELSE "torn"]]
          /\ temp' = Miss
          /\ EndWrite(p)
       \/ /\ Goto(p, "abandon")
          /\ UNCHANGED <<files, temp>>
    /\ UNCHANGED reading

\* After a failure the temporary file is removed, if that is possible.
Abandon(p) ==
    /\ pc[p] = "abandon"
    /\ temp' \in {Miss, temp}
    /\ EndWrite(p)
    /\ UNCHANGED <<files, reading>>

-----------------------------------------------------------------------------
(***************************************************************************)
(* Readers.  Opening the path pins the file: a later rename or removal     *)
(* replaces the directory entry, not the open file.  The bytes are then    *)
(* decoded and accepted only when they are whole and stored for the key.   *)
(***************************************************************************)
Open(p, k) ==
    /\ pc[p] = "idle"
    /\ pc' = [pc EXCEPT ![p] = "load"]
    /\ want' = [want EXCEPT ![p] = k]
    /\ handle' = [handle EXCEPT ![p] = files[NameOf[k]]]
    /\ UNCHANGED <<files, temp, lock, job>>

\* Mutant of Accepted: the key of the envelope is not compared.
AcceptedAnyKey(f, k) ==
    IF f # Miss /\ f.state = "whole" THEN f.entry.value ELSE Miss

Accepted(f, k) ==
    IF f # Miss /\ f.state = "whole" /\ f.entry.key = k
    THEN f.entry.value
    ELSE Miss

\* The reader is handed Accepted(handle[p], want[p]) and closes the file.
Load(p) ==
    /\ pc[p] = "load"
    /\ pc' = [pc EXCEPT ![p] = "idle"]
    /\ want' = [want EXCEPT ![p] = Miss]
    /\ handle' = [handle EXCEPT ![p] = Miss]
    /\ UNCHANGED <<files, temp, lock, job>>

-----------------------------------------------------------------------------
(* The environment.                                                        *)

\* A process may die between any two calls; its lock dies with it.
Crash(p) ==
    /\ pc[p] # "idle"
    /\ pc' = [pc EXCEPT ![p] = "idle"]
    /\ job' = [job EXCEPT ![p] = NoJob]
    /\ lock' = IF lock = p THEN Nobody ELSE lock
    /\ want' = [want EXCEPT ![p] = Miss]
    /\ handle' = [handle EXCEPT ![p] = Miss]
    /\ UNCHANGED <<files, temp>>

\* Bytes that were renamed but never synced may be lost with the power, and
\* a foreign program may overwrite a file.
Damage(n) ==
    /\ files[n] # Miss
    /\ files' = [files EXCEPT ![n].state = "damaged"]
    /\ UNCHANGED <<temp, lock, pc, job, reading>>

\* What a holder of the lock does next.
Proceed(p) ==
    \/ Remove(p) \/ Removed(p) \/ Encode(p) \/ Reclaim(p)
    \/ Create(p) \/ Write(p) \/ Rename(p) \/ Abandon(p)

Next ==
    \/ \E p \in Procs :
          \/ BeginPublish(p) \/ BeginPublishEncoded(p)
          \/ BeginClear(p) \/ BeginPass(p)
          \/ Remove(p) \/ Removed(p) \/ Encode(p) \/ Reclaim(p)
          \/ Create(p) \/ Write(p) \/ Rename(p) \/ Abandon(p)
          \/ Load(p) \/ Crash(p)
    \/ \E p \in Procs, k \in Keys : Open(p, k)
    \/ \E n \in Names : Damage(n)

Spec == Init /\ [][Next]_vars

\* A holder never waits, so the scheduler alone decides when it goes on.
FairSpec == Spec /\ \A p \in Procs : WF_vars(Proceed(p))

-----------------------------------------------------------------------------
(* Properties.                                                             *)

Publishing == {"encode", "reclaim", "create", "write", "rename", "abandon"}
Holding == Publishing \cup {"remove"}

\* Every variable keeps its type; in particular no file holds more than
\* ENTRY_LIMIT bytes (BoundedBuffer in encode), which is the storage bound.
TypeOK ==
    /\ files \in [Names -> File \cup {Miss}]
    /\ temp \in TempFile \cup {Miss}
    /\ lock \in Procs \cup {Nobody}
    /\ pc \in [Procs -> Holding \cup {"idle", "load"}]
    /\ job \in [Procs -> Job]
    /\ want \in [Procs -> Keys \cup {Miss}]
    /\ handle \in [Procs -> File \cup {Miss}]

\* The discipline write_locked relies on: one process at a time is past the
\* lock, what it creates replaces no file, and publication.tmp is its own,
\* completely written, when it renames it, whatever an interrupted
\* publication left there.
TempIsOwn ==
    \A p \in Procs :
        /\ pc[p] \in Holding <=> lock = p
        /\ pc[p] = "create" => temp = Miss
        /\ pc[p] \in {"write", "rename"} =>
              /\ temp # Miss
              /\ temp.by = p
              /\ temp.entry = Current(p)
              /\ pc[p] = "rename" => temp.whole

\* Atomic publication (the rename in write_locked): whatever processes
\* interleave, die or fail, no final name ever shows a partly written file,
\* and what it shows was encoded for a key of that name.
NeverTorn ==
    \A n \in Names : files[n] # Miss =>
        /\ files[n].state # "torn"
        /\ NameOf[files[n].entry.key] = n

\* Store::clear (the lock held across its removals): as long as no removal
\* has failed, what it has removed stays removed until it returns, however
\* many publishers run beside it; so a clear that returns true has seen the
\* whole store empty, publication.tmp included.
ClearedStaysClear ==
    \A p \in Procs : pc[p] = "remove" /\ job[p].clear /\ job[p].complete =>
        /\ \A n \in Names \ job[p].remove : files[n] = Miss
        /\ Temp \notin job[p].remove => temp = Miss

\* The rest of the inductive invariant: what a job still holds, and that a
\* file is open only while its reader loads it.
JobsMatch ==
    \A p \in Procs :
        /\ pc[p] \in Publishing =>
              /\ job[p].write # <<>>
              /\ ~job[p].clear
              /\ pc[p] # "encode" => Current(p).value \notin Large
        /\ job[p].clear => job[p].write = <<>>
        /\ pc[p] = "load" => want[p] \in Keys
        /\ pc[p] # "load" => handle[p] = Miss

Inv == TypeOK /\ TempIsOwn /\ JobsMatch /\ NeverTorn /\ ClearedStaysClear

\* The store as its clients see it implements AtomicCache: readers take
\* effect when they open the file, publications when they rename it.
Shown(f) == IF f # Miss /\ f.state = "whole" THEN f.entry ELSE Miss

Atomic == INSTANCE AtomicCache WITH
    cache <- [n \in Names |-> Shown(files[n])],
    asked <- want,
    seen  <- [p \in Procs |-> Accepted(handle[p], want[p])]

IsAtomic == Atomic!Spec

\* No process keeps the lock for ever (CacheLock is dropped on every path
\* out of a publication, a clear or a pass), so nobody is shut out for good.
LockIsReleased == \A p \in Procs : lock = p ~> lock # p
=============================================================================
