-------------------------- MODULE CacheStoreProofs --------------------------
(***************************************************************************)
(* The store keeps its inductive invariant Inv and implements AtomicCache, *)
(* for any processes, names, keys and payloads.                            *)
(***************************************************************************)
EXTENDS CacheStore, SequenceTheorems, TLAPS

-----------------------------------------------------------------------------
(* Facts about the operators the actions share.                            *)

\* The queue of a job is a sequence of entries, and what Head and Tail give.
LEMMA QueueType ==
  ASSUME TypeOK, NEW p \in Procs, job[p].write # <<>>
  PROVE  /\ job[p] \in Job
         /\ job[p].write \in Seq(Entry)
         /\ Current(p) \in Entry
         /\ Tail(job[p].write) \in Seq(Entry)
<1>1. job[p] \in Job /\ job[p].write \in Seq(Entry)
  BY DEF TypeOK, Job
<1>2. Head(job[p].write) \in Entry /\ Tail(job[p].write) \in Seq(Entry)
  BY <1>1, HeadTailProperties
<1> QED
  BY <1>1, <1>2 DEF Current

\* A file is not the absence of a file.
LEMMA TempFileExists == Miss \notin TempFile /\ Miss \notin File
<1>1. /\ TempFile \subseteq [entry : [key : Keys, value : Values],
                            whole : BOOLEAN, by : Procs]
      /\ File \subseteq [entry : [key : Keys, value : Values],
                        state : {"torn", "whole", "damaged"}]
  BY DEF TempFile, File, Admissible
<1> QED
  BY <1>1, ValuesAssumption

\* The empty job.
LEMMA NoJobType == NoJob \in Job
  BY DEF NoJob, Task, Job

\* The job of a process that publishes one entry.
LEMMA OneWriteType ==
  ASSUME NEW e \in Entry
  PROVE  /\ Task({}, <<e>>) \in Job
         /\ Task({}, <<e>>).write # <<>>
         /\ ~Task({}, <<e>>).clear
         /\ Head(Task({}, <<e>>).write) = e
<1>1. <<e>> \in Seq(Entry) /\ <<e>> # <<>> /\ Head(<<e>>) = e
  OBVIOUS
<1> QED
  BY <1>1 DEF Task, Job

\* The end of one publication leaves the lock, the labels and the jobs typed.
LEMMA EndWriteType ==
  ASSUME TypeOK, NEW p \in Procs, job[p].write # <<>>, EndWrite(p)
  PROVE  /\ lock' \in Procs \cup {Nobody}
         /\ pc' \in [Procs -> Holding \cup {"idle", "load"}]
         /\ job' \in [Procs -> Job]
<1>1. CASE Tail(job[p].write) # <<>>
  <2>1. [job[p] EXCEPT !.write = Tail(job[p].write)] \in Job
    BY QueueType DEF Job
  <2> QED
    BY <1>1, <2>1 DEF EndWrite, TypeOK, Holding, Publishing
<1>2. CASE Tail(job[p].write) = <<>>
  BY <1>2, NoJobType DEF EndWrite, Leave, TypeOK
<1> QED
  BY <1>1, <1>2

\* It disturbs no other process, and its own label becomes "encode" with the
\* rest of the queue, or "idle" with the lock free.
LEMMA EndWriteEffect ==
  ASSUME TypeOK, NEW p \in Procs, job[p].write # <<>>, EndWrite(p)
  PROVE  /\ \A q \in Procs \ {p} : pc'[q] = pc[q] /\ job'[q] = job[q]
         /\ \/ /\ pc'[p] = "encode"
               /\ lock' = lock
               /\ job'[p].write # <<>>
               /\ job'[p].clear = job[p].clear
            \/ /\ pc'[p] = "idle"
               /\ lock' = Nobody
               /\ job'[p] = NoJob
<1>1. CASE Tail(job[p].write) # <<>>
  <2>0. job \in [Procs -> Job] /\ job[p] \in Job
    BY DEF TypeOK
  <2>1. job' = [job EXCEPT ![p] = [job[p] EXCEPT !.write = Tail(job[p].write)]]
    BY <1>1 DEF EndWrite
  <2>2. job'[p].write = Tail(job[p].write) /\ job'[p].clear = job[p].clear
    BY <2>0, <2>1 DEF Job
  <2> QED
    BY <1>1, <2>2, QueueType DEF EndWrite, TypeOK
<1>2. CASE Tail(job[p].write) = <<>>
  BY <1>2 DEF EndWrite, Leave, TypeOK
<1> QED
  BY <1>1, <1>2

-----------------------------------------------------------------------------
(* The invariant holds at the start and is kept by each action.            *)

\* Store::open starts with no job, no lock and nothing remembered.
LEMMA InitInv == Init => Inv
<1> SUFFICES ASSUME Init PROVE Inv
  OBVIOUS
<1>1. TypeOK
  BY DEF Init, TypeOK, NoJob, Task, Job
<1>2. TempIsOwn
  BY ValuesAssumption DEF Init, TempIsOwn, Holding, Publishing
<1>3. JobsMatch
  BY DEF Init, JobsMatch, NoJob, Task, Publishing
<1>4. NeverTorn /\ ClearedStaysClear
  BY DEF Init, NeverTorn, ClearedStaysClear
<1> QED
  BY <1>1, <1>2, <1>3, <1>4 DEF Inv

\* Taking the lock keeps the invariant when the job starts at "remove" with
\* every path still to go, or at a publication with its queue filled.
LEMMA EnterInv ==
  ASSUME Inv, NEW p \in Procs, NEW j \in Job,
         NEW at \in {"remove", "encode", "reclaim"},
         at # "remove" => j.write # <<>> /\ ~j.clear,
         at = "reclaim" => Head(j.write).value \notin Large,
         j.clear => at = "remove" /\ j.write = <<>> /\ j.remove = Paths,
         Enter(p, at, j)
  PROVE  Inv'
<1> USE DEF Enter, Lockable, reading
<1>1. TypeOK'
  BY DEF Inv, TypeOK, Holding, Publishing
<1>2. TempIsOwn'
  BY ValuesAssumption DEF Inv, TypeOK, TempIsOwn, Holding, Publishing, Current
<1>3. JobsMatch'
  BY DEF Inv, TypeOK, JobsMatch, Publishing, Current
<1>4. NeverTorn'
  BY DEF Inv, NeverTorn
<1>5. ClearedStaysClear'
  BY DEF Inv, TypeOK, ClearedStaysClear, Paths
<1> QED
  BY <1>1, <1>2, <1>3, <1>4, <1>5 DEF Inv

\* BeginPublish, BeginPublishEncoded, BeginClear and BeginPass.
LEMMA BeginInv ==
  ASSUME Inv, NEW p \in Procs,
         \/ BeginPublish(p) \/ BeginPublishEncoded(p)
         \/ BeginClear(p) \/ BeginPass(p)
  PROVE  Inv'
<1>1. CASE BeginPublish(p)
  <2>1. PICK e \in Entry :
           Enter(p, "encode", Task({}, <<e>>))
    BY <1>1 DEF BeginPublish
  <2>2. /\ Task({}, <<e>>) \in Job
        /\ Task({}, <<e>>).write # <<>>
        /\ ~Task({}, <<e>>).clear
    BY OneWriteType
  <2> QED
    BY <2>1, <2>2, EnterInv
<1>2. CASE BeginPublishEncoded(p)
  <2>1. PICK e \in Entry :
           /\ e.value \notin Large
           /\ Enter(p, "reclaim", Task({}, <<e>>))
    BY <1>2 DEF BeginPublishEncoded
  <2>2. /\ Task({}, <<e>>) \in Job
        /\ Task({}, <<e>>).write # <<>>
        /\ ~Task({}, <<e>>).clear
        /\ Head(Task({}, <<e>>).write) = e
    BY OneWriteType
  <2> QED
    BY <2>1, <2>2, EnterInv
<1>3. CASE BeginClear(p)
  <2>1. <<>> \in Seq(Entry) /\ Paths \in SUBSET Paths
    OBVIOUS
  <2>2. ClearJob \in Job /\ ClearJob.write = <<>> /\ ClearJob.remove = Paths
    BY <2>1 DEF ClearJob, Job
  <2>3. Enter(p, "remove", ClearJob)
    BY <1>3 DEF BeginClear
  <2> QED
    BY <2>2, <2>3, EnterInv
<1>4. CASE BeginPass(p)
  <2>1. PICK S \in SUBSET Slots, report \in Values \ Large,
             state \in Values \ Large :
           Enter(p, "remove",
                 Task(S \cup {Temp},
                      <<[key |-> ReportKey, value |-> report],
                        [key |-> StateKey, value |-> state]>>))
    BY <1>4 DEF BeginPass
  <2> DEFINE w == <<[key |-> ReportKey, value |-> report],
                    [key |-> StateKey, value |-> state]>>
  <2>2. w \in Seq(Entry)
    BY NamesAssumption DEF Entry
  <2>3. S \cup {Temp} \in SUBSET Paths
    BY NamesAssumption DEF Paths
  <2>4. Enter(p, "remove", Task(S \cup {Temp}, w))
    BY <2>1
  <2> HIDE DEF w
  <2>5. Task(S \cup {Temp}, w) \in Job /\ ~Task(S \cup {Temp}, w).clear
    BY <2>2, <2>3 DEF Task, Job
  <2> QED
    BY <2>4, <2>5, EnterInv
<1> QED
  BY <1>1, <1>2, <1>3, <1>4

\* A removal takes the path off the list, so what clear has removed and what
\* it has still to remove cover the store.
LEMMA RemoveInv ==
  ASSUME Inv, NEW p \in Procs, Remove(p)
  PROVE  Inv'
<1>1. PICK x \in job[p].remove :
         \/ /\ Unlink(x)
            /\ job' = [job EXCEPT ![p].remove = @ \ {x}]
         \/ /\ job' = [job EXCEPT ![p].remove = @ \ {x},
                                  ![p].complete = FALSE]
            /\ UNCHANGED <<files, temp>>
  BY DEF Remove
<1>2. pc[p] = "remove" /\ UNCHANGED <<lock, pc, want, handle>>
  BY DEF Remove, reading
<1>3. /\ job \in [Procs -> Job] /\ job[p] \in Job
      /\ files \in [Names -> File \cup {Miss}]
      /\ temp \in TempFile \cup {Miss}
  BY DEF Inv, TypeOK
<1>4. /\ job' \in [Procs -> Job]
      /\ \A q \in Procs \ {p} : job'[q] = job[q]
      /\ job'[p].write = job[p].write
      /\ job'[p].clear = job[p].clear
      /\ job'[p].remove = job[p].remove \ {x}
  <2>1. PICK c \in BOOLEAN :
           job' = [job EXCEPT ![p] = [job[p] EXCEPT
                                         !.remove = job[p].remove \ {x},
                                         !.complete = c]]
    BY <1>1, <1>3 DEF Job
  <2>2. [job[p] EXCEPT !.remove = job[p].remove \ {x}, !.complete = c] \in Job
    BY <1>3 DEF Job
  <2> QED
    BY <1>3, <2>1, <2>2 DEF Job
<1>5. /\ \A n \in Names : files'[n] = files[n] \/ files'[n] = Miss
      /\ files' \in [Names -> File \cup {Miss}]
      /\ temp' = temp \/ temp' = Miss
  BY <1>1, <1>3 DEF Unlink
<1>6. \A q \in Procs : pc[q] \in Holding => q = p
  BY <1>2 DEF Inv, TempIsOwn, Holding
<1>7. TypeOK'
  BY <1>2, <1>4, <1>5 DEF Inv, TypeOK
<1>8. TempIsOwn'
  BY <1>2, <1>5, <1>6 DEF Inv, TempIsOwn, Holding, Publishing, Current
<1>9. JobsMatch'
  BY <1>2, <1>4 DEF Inv, JobsMatch, Publishing, Current
<1>10. NeverTorn'
  BY <1>5 DEF Inv, NeverTorn
<1>11. ClearedStaysClear'
  <2> SUFFICES ASSUME NEW q \in Procs,
                      pc'[q] = "remove", job'[q].clear, job'[q].complete
               PROVE  /\ \A n \in Names \ job'[q].remove : files'[n] = Miss
                      /\ Temp \notin job'[q].remove => temp' = Miss
    BY DEF ClearedStaysClear
  <2>1. q = p
    BY <1>2, <1>6 DEF Holding
  <2>2. Unlink(x) /\ job' = [job EXCEPT ![p].remove = @ \ {x}]
    BY <1>1, <1>3, <2>1 DEF Job
  <2>3. job[p].clear /\ job[p].complete
    BY <1>3, <2>1, <2>2 DEF Job
  <2>4. /\ \A n \in Names \ job[p].remove : files[n] = Miss
        /\ Temp \notin job[p].remove => temp = Miss
    BY <1>2, <2>3 DEF Inv, ClearedStaysClear
  <2> QED
    BY <1>4, <2>1, <2>2, <2>4 DEF Unlink
<1> QED
  BY <1>7, <1>8, <1>9, <1>10, <1>11 DEF Inv

\* While p holds the lock no other process is at a label of a holder.
LEMMA OnlyHolder ==
  ASSUME TempIsOwn, NEW p \in Procs, pc[p] \in Holding,
         NEW q \in Procs, q # p
  PROVE  pc[q] \notin Holding
  BY DEF TempIsOwn

\* A publication that ends with no final name changed and the temporary file
\* unchanged or gone.
LEMMA EndWriteInv ==
  ASSUME Inv, NEW p \in Procs, pc[p] \in Publishing, EndWrite(p),
         temp' \in {Miss, temp},
         UNCHANGED <<files, reading>>
  PROVE  Inv'
<1>1. job[p].write # <<>> /\ ~job[p].clear /\ pc[p] \in Holding
  BY DEF Inv, JobsMatch, Holding
<1>2. TypeOK'
  BY <1>1, EndWriteType DEF Inv, TypeOK, reading
<1>3. /\ \A q \in Procs \ {p} : pc'[q] = pc[q] /\ job'[q] = job[q]
      /\ \/ /\ pc'[p] = "encode"
            /\ lock' = lock
            /\ job'[p].write # <<>>
            /\ job'[p].clear = job[p].clear
         \/ /\ pc'[p] = "idle"
            /\ lock' = Nobody
            /\ job'[p] = NoJob
  BY <1>1, EndWriteEffect DEF Inv
<1>4. \A q \in Procs \ {p} : pc[q] \notin Holding
  BY <1>1, OnlyHolder DEF Inv
<1>5. TempIsOwn'
  BY <1>1, <1>3, <1>4, ValuesAssumption DEF Inv, TempIsOwn, Holding, Publishing
<1>6. JobsMatch'
  BY <1>1, <1>3, <1>4 DEF Inv, JobsMatch, Holding, Publishing, NoJob, Task,
                          Current, reading
<1>7. NeverTorn'
  BY DEF Inv, NeverTorn
<1>8. ClearedStaysClear'
  BY <1>1, <1>3, <1>4 DEF ClearedStaysClear, Holding
<1> QED
  BY <1>2, <1>5, <1>6, <1>7, <1>8 DEF Inv

\* A step that only moves p to another label of the same publication.
LEMMA GotoInv ==
  ASSUME Inv, NEW p \in Procs, pc[p] \in Publishing,
         NEW label \in Publishing \ {"encode"}, Goto(p, label),
         pc[p] = "encode" => Current(p).value \notin Large,
         temp' \in TempFile \cup {Miss},
         label = "create" => temp' = Miss,
         label \in {"write", "rename"} =>
            /\ temp' # Miss
            /\ temp'.by = p
            /\ temp'.entry = Current(p)
            /\ label = "rename" => temp'.whole,
         UNCHANGED <<files, reading>>
  PROVE  Inv'
<1>1. pc[p] \in Holding
  BY DEF Holding
<1>2. /\ pc' = [pc EXCEPT ![p] = label]
      /\ UNCHANGED <<lock, job, want, handle, files>>
  BY DEF Goto, reading
<1>3. TypeOK'
  BY <1>2 DEF Inv, TypeOK, Holding
<1>4. \A q \in Procs \ {p} : pc[q] \notin Holding
  BY <1>1, OnlyHolder DEF Inv
<1>5. /\ \A q \in Procs \ {p} : pc'[q] = pc[q]
      /\ pc'[p] = label
  BY <1>2 DEF Inv, TypeOK
<1>6. TempIsOwn'
  BY <1>1, <1>2, <1>4, <1>5 DEF Inv, TempIsOwn, Holding, Publishing, Current
<1>7. JobsMatch'
  BY <1>2, <1>5 DEF Inv, JobsMatch, Publishing, Current
<1>8. NeverTorn'
  BY <1>2 DEF Inv, NeverTorn
<1>9. ClearedStaysClear'
  BY <1>2, <1>4, <1>5 DEF ClearedStaysClear, Holding, Publishing
<1> QED
  BY <1>3, <1>6, <1>7, <1>8, <1>9 DEF Inv

\* encoded_entry ends an oversized publication or moves on to write_locked.
LEMMA EncodeInv ==
  ASSUME Inv, NEW p \in Procs, Encode(p)
  PROVE  Inv'
<1>1. pc[p] \in Publishing /\ UNCHANGED <<files, temp, reading>>
  BY DEF Encode, Publishing
<1>2. CASE Current(p).value \in Large
  BY <1>1, <1>2, EndWriteInv DEF Encode
<1>3. CASE Current(p).value \notin Large
  <2>1. temp' \in TempFile \cup {Miss}
    BY <1>1 DEF Inv, TypeOK
  <2>2. Goto(p, "reclaim")
    BY <1>3 DEF Encode
  <2> QED
    BY <1>1, <1>3, <2>1, <2>2, GotoInv DEF Publishing
<1> QED
  BY <1>2, <1>3

\* Removing the temporary file of a crash leaves no temporary file, or ends the
\* publication with nothing changed.
LEMMA ReclaimInv ==
  ASSUME Inv, NEW p \in Procs, Reclaim(p)
  PROVE  Inv'
<1>1. /\ pc[p] = "reclaim"
      /\ UNCHANGED <<files, reading>>
  BY DEF Reclaim
<1>2. CASE temp' = Miss /\ Goto(p, "create")
  BY <1>1, <1>2, GotoInv DEF Publishing
<1>3. CASE UNCHANGED temp /\ EndWrite(p)
  BY <1>1, <1>3, EndWriteInv DEF Publishing
<1> QED
  BY <1>2, <1>3 DEF Reclaim

\* create_new makes the temporary file of the entry at the head of the queue.
LEMMA CreateInv ==
  ASSUME Inv, NEW p \in Procs, Create(p)
  PROVE  Inv'
<1>1. /\ pc[p] = "create"
      /\ UNCHANGED <<files, reading>>
  BY DEF Create
<1>2. Current(p) \in Admissible
  <2>1. job[p].write # <<>> /\ Current(p).value \notin Large
    BY <1>1 DEF Inv, JobsMatch, Publishing
  <2>2. Current(p) \in Entry
    BY <2>1, QueueType DEF Inv
  <2> QED
    BY <2>1, <2>2 DEF Entry, Admissible
<1>3. CASE /\ temp' = [entry |-> Current(p), whole |-> FALSE, by |-> p]
           /\ Goto(p, "write")
  <2>1. temp' \in TempFile
    BY <1>2, <1>3 DEF TempFile
  <2>2. temp' # Miss
    BY <2>1, TempFileExists
  <2>3. temp'.by = p /\ temp'.entry = Current(p)
    BY <1>3
  <2> QED
    BY <1>1, <1>3, <2>1, <2>2, <2>3, GotoInv DEF Publishing
<1>4. CASE UNCHANGED temp /\ Goto(p, "abandon")
  <2>1. temp' \in TempFile \cup {Miss}
    BY <1>4 DEF Inv, TypeOK
  <2> QED
    BY <1>1, <1>4, <2>1, GotoInv DEF Publishing
<1> QED
  BY <1>3, <1>4 DEF Create

\* write_all completes the process's own temporary file, or gives it up.
LEMMA WriteInv ==
  ASSUME Inv, NEW p \in Procs, Write(p)
  PROVE  Inv'
<1>1. /\ pc[p] = "write"
      /\ UNCHANGED <<files, reading>>
  BY DEF Write
<1>2. temp \in TempFile /\ temp # Miss /\ temp.by = p /\ temp.entry = Current(p)
  BY <1>1 DEF Inv, TypeOK, TempIsOwn
<1>3. CASE /\ temp' = [temp EXCEPT !.whole = TRUE]
           /\ Goto(p, "rename")
  <2>1. temp' \in TempFile /\ temp'.by = p /\ temp'.whole
        /\ temp'.entry = Current(p)
    BY <1>2, <1>3 DEF TempFile
  <2>2. temp' # Miss
    BY <2>1, TempFileExists
  <2> QED
    BY <1>1, <1>3, <2>1, <2>2, GotoInv DEF Publishing
<1>4. CASE UNCHANGED temp /\ Goto(p, "abandon")
  <2>1. temp' \in TempFile \cup {Miss}
    BY <1>4 DEF Inv, TypeOK
  <2> QED
    BY <1>1, <1>4, <2>1, GotoInv DEF Publishing
<1> QED
  BY <1>2, <1>3, <1>4 DEF Write

\* A publication given up leaves its temporary file, whole or not, or removes it.
LEMMA AbandonInv ==
  ASSUME Inv, NEW p \in Procs, Abandon(p)
  PROVE  Inv'
  BY EndWriteInv DEF Abandon, Publishing

\* The renamed file is whole because publication.tmp is p's own.
LEMMA RenameInv ==
  ASSUME Inv, NEW p \in Procs, Rename(p)
  PROVE  Inv'
<1>1. /\ pc[p] = "rename" /\ pc[p] \in Publishing /\ pc[p] \in Holding
      /\ UNCHANGED reading
  BY DEF Rename, Publishing, Holding
<1>2. /\ temp \in TempFile /\ temp # Miss /\ temp.whole
      /\ temp.entry = Current(p)
  BY <1>1 DEF Inv, TypeOK, TempIsOwn
<1>3. CASE /\ files' = [files EXCEPT ![NameOf[Current(p).key]] =
                           [entry |-> temp.entry,
                            state |-> IF temp.whole THEN "whole" ELSE "torn"]]
           /\ temp' = Miss
           /\ EndWrite(p)
  <2> DEFINE f == [entry |-> Current(p), state |-> "whole"]
             n == NameOf[Current(p).key]
  <2>1. /\ f \in File /\ f.state = "whole" /\ f.entry = Current(p)
        /\ Current(p).key \in Keys
    BY <1>2 DEF TempFile, File, Admissible
  <2>2. n \in Names
    BY <2>1, NamesAssumption
  <2>3. files' = [files EXCEPT ![n] = f]
    BY <1>2, <1>3
  <2>4. job[p].write # <<>> /\ ~job[p].clear
    BY <1>1 DEF Inv, JobsMatch
  <2>5. NameOf[f.entry.key] = n
    BY <2>1
  <2> HIDE DEF f, n
  <2>6. TypeOK'
    BY <1>1, <1>3, <2>1, <2>2, <2>3, <2>4, EndWriteType DEF Inv, TypeOK, reading
  <2>7. /\ \A q \in Procs \ {p} : pc'[q] = pc[q] /\ job'[q] = job[q]
        /\ \/ /\ pc'[p] = "encode"
              /\ lock' = lock
              /\ job'[p].write # <<>>
              /\ job'[p].clear = job[p].clear
           \/ /\ pc'[p] = "idle"
              /\ lock' = Nobody
              /\ job'[p] = NoJob
    BY <1>3, <2>4, EndWriteEffect DEF Inv
  <2>8. \A q \in Procs \ {p} : pc[q] \notin Holding
    BY <1>1, OnlyHolder DEF Inv
  <2>9. TempIsOwn'
    BY <1>1, <2>7, <2>8, ValuesAssumption DEF Inv, TempIsOwn, Holding, Publishing
  <2>10. JobsMatch'
    BY <1>1, <2>4, <2>7, <2>8 DEF Inv, JobsMatch, Holding, Publishing, NoJob,
                                 Task, Current, reading
  <2>11. NeverTorn'
    BY <2>1, <2>2, <2>3, <2>5 DEF Inv, TypeOK, NeverTorn
  <2>12. ClearedStaysClear'
    BY <2>4, <2>7, <2>8 DEF ClearedStaysClear, Holding
  <2> QED
    BY <2>6, <2>9, <2>10, <2>11, <2>12 DEF Inv
<1>4. CASE UNCHANGED <<files, temp>> /\ Goto(p, "abandon")
  <2>1. temp' \in TempFile \cup {Miss}
    BY <1>4 DEF Inv, TypeOK
  <2> QED
    BY <1>1, <1>4, <2>1, GotoInv DEF Publishing
<1> QED
  BY <1>3, <1>4 DEF Rename

\* After the last removal a clear lets go of the lock, and a pass goes on to
\* publish its report and its state.
LEMMA RemovedInv ==
  ASSUME Inv, NEW p \in Procs, Removed(p)
  PROVE  Inv'
<1>1. /\ pc[p] = "remove" /\ pc[p] \in Holding
      /\ UNCHANGED <<files, temp, reading>>
  BY DEF Removed, Holding
<1>2. \A q \in Procs \ {p} : pc[q] \notin Holding
  BY <1>1, OnlyHolder DEF Inv
<1>3. CASE job[p].write = <<>> /\ Leave(p)
  <2>1. /\ pc' = [pc EXCEPT ![p] = "idle"]
        /\ job' = [job EXCEPT ![p] = NoJob]
        /\ lock' = Nobody
    BY <1>3 DEF Leave
  <2>2. TypeOK'
    BY <1>1, <2>1, NoJobType DEF Inv, TypeOK, reading
  <2>3. TempIsOwn'
    BY <1>1, <1>2, <2>1, ValuesAssumption
    DEF Inv, TypeOK, TempIsOwn, Holding, Publishing, Current
  <2>4. JobsMatch'
    BY <1>1, <2>1 DEF Inv, TypeOK, JobsMatch, Publishing, NoJob, Task, Current,
                      reading
  <2>5. NeverTorn' /\ ClearedStaysClear'
    BY <1>1, <1>2, <2>1
    DEF Inv, TypeOK, NeverTorn, ClearedStaysClear, Holding
  <2> QED
    BY <2>2, <2>3, <2>4, <2>5 DEF Inv
<1>4. CASE /\ job[p].write # <<>>
           /\ pc' = [pc EXCEPT ![p] = "encode"]
           /\ UNCHANGED <<lock, job>>
  <2>1. ~job[p].clear
    BY <1>4 DEF Inv, JobsMatch
  <2>2. TypeOK'
    BY <1>1, <1>4 DEF Inv, TypeOK, Holding, Publishing, reading
  <2>3. TempIsOwn'
    BY <1>1, <1>2, <1>4
    DEF Inv, TypeOK, TempIsOwn, Holding, Publishing, Current
  <2>4. JobsMatch'
    BY <1>1, <1>4, <2>1 DEF Inv, TypeOK, JobsMatch, Publishing, Current, reading
  <2>5. NeverTorn' /\ ClearedStaysClear'
    BY <1>1, <1>2, <1>4
    DEF Inv, TypeOK, NeverTorn, ClearedStaysClear, Holding
  <2> QED
    BY <2>2, <2>3, <2>4, <2>5 DEF Inv
<1> QED
  BY <1>3, <1>4 DEF Removed

\* A reader's descriptor is the file under the name at that moment.
LEMMA OpenInv ==
  ASSUME Inv, NEW p \in Procs, NEW k \in Keys, Open(p, k)
  PROVE  Inv'
<1>1. files[NameOf[k]] \in File \cup {Miss}
  BY NamesAssumption DEF Inv, TypeOK
<1>2. TypeOK'
  BY <1>1 DEF Inv, TypeOK, Open, Holding, Publishing
<1>3. TempIsOwn' /\ JobsMatch'
  BY DEF Inv, TypeOK, TempIsOwn, JobsMatch, Open, Holding, Publishing, Current
<1>4. NeverTorn' /\ ClearedStaysClear'
  BY DEF Inv, TypeOK, NeverTorn, ClearedStaysClear, Open
<1> QED
  BY <1>2, <1>3, <1>4 DEF Inv

\* A reader that is done holds no descriptor.
LEMMA LoadInv ==
  ASSUME Inv, NEW p \in Procs, Load(p)
  PROVE  Inv'
<1>1. TypeOK'
  BY DEF Inv, TypeOK, Load, Holding, Publishing
<1>2. TempIsOwn' /\ JobsMatch'
  BY DEF Inv, TypeOK, TempIsOwn, JobsMatch, Load, Holding, Publishing, Current
<1>3. NeverTorn' /\ ClearedStaysClear'
  BY DEF Inv, TypeOK, NeverTorn, ClearedStaysClear, Load
<1> QED
  BY <1>1, <1>2, <1>3 DEF Inv

\* A dead process holds neither the lock nor a descriptor; its temporary file
\* stays where it was.
LEMMA CrashInv ==
  ASSUME Inv, NEW p \in Procs, Crash(p)
  PROVE  Inv'
<1>1. TypeOK'
  BY NoJobType DEF Inv, TypeOK, Crash, Holding, Publishing
<1>2. TempIsOwn'
  BY ValuesAssumption
  DEF Inv, TypeOK, TempIsOwn, Crash, Holding, Publishing, Current
<1>3. JobsMatch'
  BY DEF Inv, TypeOK, JobsMatch, Crash, Publishing, Current, NoJob, Task
<1>4. NeverTorn' /\ ClearedStaysClear'
  BY DEF Inv, TypeOK, NeverTorn, ClearedStaysClear, Crash
<1> QED
  BY <1>1, <1>2, <1>3, <1>4 DEF Inv

\* Damage reaches a file and its key, and never makes it a torn one.
LEMMA DamageInv ==
  ASSUME Inv, NEW n \in Names, Damage(n)
  PROVE  Inv'
<1>1. /\ files[n] \in File
      /\ files' = [files EXCEPT ![n] = [files[n] EXCEPT !.state = "damaged"]]
      /\ UNCHANGED <<temp, lock, pc, job, want, handle>>
  BY DEF Inv, TypeOK, Damage, reading
<1>2. /\ [files[n] EXCEPT !.state = "damaged"] \in File
      /\ [files[n] EXCEPT !.state = "damaged"].entry = files[n].entry
      /\ [files[n] EXCEPT !.state = "damaged"].state = "damaged"
  BY <1>1 DEF File
<1>3. TypeOK'
  BY <1>1, <1>2 DEF Inv, TypeOK
<1>4. TempIsOwn' /\ JobsMatch'
  BY <1>1 DEF Inv, TempIsOwn, JobsMatch, Current
<1>5. NeverTorn'
  BY <1>1, <1>2, TempFileExists DEF Inv, TypeOK, NeverTorn
<1>6. ClearedStaysClear'
  BY <1>1, TempFileExists DEF Inv, TypeOK, ClearedStaysClear
<1> QED
  BY <1>3, <1>4, <1>5, <1>6 DEF Inv

\* One step for each action of the store.
LEMMA NextInv == Inv /\ [Next]_vars => Inv'
<1> SUFFICES ASSUME Inv, [Next]_vars PROVE Inv'
  OBVIOUS
<1>1. ASSUME NEW p \in Procs,
             \/ BeginPublish(p) \/ BeginPublishEncoded(p)
             \/ BeginClear(p) \/ BeginPass(p)
      PROVE  Inv'
  BY <1>1, BeginInv
<1>2. ASSUME NEW p \in Procs, Remove(p) \/ Removed(p) \/ Encode(p) \/ Reclaim(p)
      PROVE  Inv'
  BY <1>2, RemoveInv, RemovedInv, EncodeInv, ReclaimInv
<1>3. ASSUME NEW p \in Procs, Create(p) \/ Write(p) \/ Rename(p) \/ Abandon(p)
      PROVE  Inv'
  BY <1>3, CreateInv, WriteInv, RenameInv, AbandonInv
<1>4. ASSUME NEW p \in Procs, Load(p) \/ Crash(p) PROVE Inv'
  BY <1>4, LoadInv, CrashInv
<1>5. ASSUME NEW p \in Procs, NEW k \in Keys, Open(p, k) PROVE Inv'
  BY <1>5, OpenInv
<1>6. ASSUME NEW n \in Names, Damage(n) PROVE Inv'
  BY <1>6, DamageInv
<1>7. CASE UNCHANGED vars
  BY <1>7 DEF vars, Inv, TypeOK, TempIsOwn, JobsMatch, NeverTorn,
              ClearedStaysClear, Current
<1> QED
  BY <1>1, <1>2, <1>3, <1>4, <1>5, <1>6, <1>7 DEF Next

\* Every reachable state of the store satisfies Inv: whatever order processes
\* publish, clear, maintain, read, fail and die in.
THEOREM Invariance == Spec => []Inv
<1>1. Init => Inv
  BY InitInv
<1>2. Inv /\ [Next]_vars => Inv'
  BY NextInv
<1> QED
  BY <1>1, <1>2, PTL DEF Spec

\* Every variable of the store keeps its type; no file exceeds the limit.
THEOREM StoreIsTyped == Spec => []TypeOK
<1>1. Inv => TypeOK
  BY DEF Inv
<1> QED
  BY <1>1, Invariance, PTL

\* The temporary file a process renames is its own and complete
\* (write_locked under publication.lock).
THEOREM RenamedFileIsOwn == Spec => []TempIsOwn
<1>1. Inv => TempIsOwn
  BY DEF Inv
<1> QED
  BY <1>1, Invariance, PTL

\* No reader ever finds a partly written file under a final name, whatever
\* crashes and failures write_locked met.
THEOREM PublicationIsAtomic == Spec => []NeverTorn
<1>1. Inv => NeverTorn
  BY DEF Inv
<1> QED
  BY <1>1, Invariance, PTL

\* What Store::clear removed stays removed until it returns.
THEOREM ClearIsComplete == Spec => []ClearedStaysClear
<1>1. Inv => ClearedStaysClear
  BY DEF Inv
<1> QED
  BY <1>1, Invariance, PTL

-----------------------------------------------------------------------------
(***************************************************************************)
(* The store implements AtomicCache.  A rename is a publication, a removal *)
(* or damage to a final name discards its entry, opening a file is the     *)
(* read, and every other step changes nothing a client sees.               *)
(***************************************************************************)

\* What AtomicCache calls seen.
seenBar == [p \in Procs |-> Accepted(handle[p], want[p])]

\* A step that leaves the final names and the readers alone stutters.
LEMMA QuietStep ==
  ASSUME UNCHANGED <<files, want, handle>>
  PROVE  UNCHANGED Atomic!vars
  BY DEF Atomic!vars

\* A step that changes one final name to a file that shows nothing.
LEMMA DiscardStep ==
  ASSUME Inv, NEW n \in Names, NEW f,
         Shown(f) = Miss,
         files' = [files EXCEPT ![n] = f],
         UNCHANGED <<want, handle>>
  PROVE  Atomic!Discard(n)
  BY DEF Inv, TypeOK, Atomic!Discard, Atomic!reads

\* A rename is the publication; a failing one changes nothing a client sees.
LEMMA RenameStep ==
  ASSUME Inv, NEW p \in Procs, Rename(p)
  PROVE  [Atomic!Next]_(Atomic!vars)
<1>1. pc[p] = "rename" /\ UNCHANGED <<want, handle>>
  BY DEF Rename, reading
<1>2. /\ temp \in TempFile /\ temp # Miss /\ temp.whole
      /\ temp.entry = Current(p)
  BY <1>1 DEF Inv, TypeOK, TempIsOwn
<1>3. CASE UNCHANGED files
  BY <1>1, <1>3, QuietStep
<1>4. CASE files' = [files EXCEPT ![NameOf[Current(p).key]] =
                        [entry |-> temp.entry,
                         state |-> IF temp.whole THEN "whole" ELSE "torn"]]
  <2> DEFINE e == Current(p)
             f == [entry |-> e, state |-> "whole"]
  <2>1. f \in File /\ f.state = "whole" /\ f.entry = e /\ e \in Admissible
    BY <1>2 DEF TempFile, File
  <2>2. e \in Atomic!Entry /\ e.key \in Keys
    BY <2>1 DEF Admissible, Atomic!Entry
  <2>3. NameOf[e.key] \in Names
    BY <2>2, NamesAssumption
  <2>4. files' = [files EXCEPT ![NameOf[e.key]] = f]
    BY <1>2, <1>4
  <2>5. Shown(f) = e
    BY <2>1, TempFileExists DEF Shown
  <2> HIDE DEF e, f
  <2>6. Atomic!Publish(e)
    BY <1>1, <2>3, <2>4, <2>5 DEF Inv, TypeOK, Atomic!Publish, Atomic!reads
  <2> QED
    BY <2>2, <2>6 DEF Atomic!Next
<1> QED
  BY <1>3, <1>4 DEF Rename

\* A removal discards the entry of a final name; that of the temporary file, or
\* a failing one, changes nothing a client sees.
LEMMA RemoveStep ==
  ASSUME Inv, NEW p \in Procs, Remove(p)
  PROVE  [Atomic!Next]_(Atomic!vars)
<1>1. PICK x \in job[p].remove : Unlink(x) \/ UNCHANGED files
  BY DEF Remove
<1>2. UNCHANGED <<want, handle>>
  BY DEF Remove, reading
<1>3. CASE UNCHANGED files
  BY <1>2, <1>3, QuietStep
<1>4. CASE Unlink(x) /\ x \in Names
  <2>1. files' = [files EXCEPT ![x] = Miss]
    BY <1>4 DEF Unlink, Inv, TypeOK
  <2>2. Shown(Miss) = Miss
    BY DEF Shown
  <2>3. Atomic!Discard(x)
    BY <1>2, <1>4, <2>1, <2>2, DiscardStep
  <2> QED
    BY <1>4, <2>3 DEF Atomic!Next
<1>5. CASE Unlink(x) /\ x \notin Names
  <2>1. UNCHANGED files
    BY <1>5 DEF Unlink, Inv, TypeOK
  <2> QED
    BY <1>2, <2>1, QuietStep
<1> QED
  BY <1>1, <1>3, <1>4, <1>5

\* Store::read answers with the state of the store when it opened the file.
LEMMA OpenStep ==
  ASSUME Inv, NEW p \in Procs, NEW k \in Keys, Open(p, k)
  PROVE  Atomic!Read(p, k)
<1>1. /\ want' = [want EXCEPT ![p] = k]
      /\ handle' = [handle EXCEPT ![p] = files[NameOf[k]]]
      /\ UNCHANGED files
  BY DEF Open
<1>2. NameOf[k] \in Names /\ files[NameOf[k]] \in File \cup {Miss}
  BY NamesAssumption DEF Inv, TypeOK
<1>3. Accepted(files[NameOf[k]], k) = Atomic!Answer(k)
  <2>1. CASE files[NameOf[k]] = Miss
    BY <1>2, <2>1 DEF Accepted, Shown, Atomic!Answer
  <2>2. CASE files[NameOf[k]] # Miss /\ files[NameOf[k]].state # "whole"
    BY <1>2, <2>2 DEF Accepted, Shown, Atomic!Answer
  <2>3. CASE files[NameOf[k]] # Miss /\ files[NameOf[k]].state = "whole"
    <3>1. files[NameOf[k]].entry \in [key : Keys, value : Values]
      BY <1>2, <2>3 DEF File, Admissible
    <3>2. files[NameOf[k]].entry # Miss
      BY <3>1, ValuesAssumption
    <3> QED
      BY <1>2, <2>3, <3>2 DEF Accepted, Shown, Atomic!Answer
  <2> QED
    BY <2>1, <2>2, <2>3
<1>4. seenBar' = [seenBar EXCEPT ![p] = Atomic!Answer(k)]
  BY <1>1, <1>3 DEF seenBar, Inv, TypeOK
<1> QED
  BY <1>1, <1>4 DEF Atomic!Read, seenBar

\* The reader is done, or dies: either way its file is closed.
LEMMA CloseStep ==
  ASSUME Inv, NEW p \in Procs, Load(p) \/ Crash(p)
  PROVE  Atomic!Return(p)
<1>1. /\ want' = [want EXCEPT ![p] = Miss]
      /\ handle' = [handle EXCEPT ![p] = Miss]
      /\ UNCHANGED files
  BY DEF Load, Crash
<1>2. Accepted(Miss, Miss) = Miss
  BY DEF Accepted
<1>3. seenBar' = [seenBar EXCEPT ![p] = Miss]
  BY <1>1, <1>2 DEF seenBar, Inv, TypeOK
<1> QED
  BY <1>1, <1>3 DEF Atomic!Return, seenBar

\* A damaged file fails its checksum, which discards its entry.
LEMMA DamageStep ==
  ASSUME Inv, NEW n \in Names, Damage(n)
  PROVE  Atomic!Discard(n)
<1> DEFINE f == [files[n] EXCEPT !.state = "damaged"]
<1>1. /\ files[n] \in File
      /\ files' = [files EXCEPT ![n] = f]
      /\ UNCHANGED <<want, handle>>
  BY DEF Inv, TypeOK, Damage, reading
<1>2. f.state = "damaged"
  BY <1>1 DEF File
<1>3. Shown(f) = Miss
  BY <1>2 DEF Shown
<1> HIDE DEF f
<1> QED
  BY <1>1, <1>3, DiscardStep

\* Every step of the store is a step of AtomicCache or changes nothing.
LEMMA StepSimulation == Inv /\ [Next]_vars => [Atomic!Next]_(Atomic!vars)
<1> SUFFICES ASSUME Inv, [Next]_vars PROVE [Atomic!Next]_(Atomic!vars)
  OBVIOUS
<1>1. ASSUME NEW p \in Procs,
             \/ BeginPublish(p) \/ BeginPublishEncoded(p)
             \/ BeginClear(p) \/ BeginPass(p)
      PROVE  UNCHANGED Atomic!vars
  <2>1. UNCHANGED <<files, want, handle>>
    BY <1>1 DEF BeginPublish, BeginPublishEncoded, BeginClear, BeginPass, Enter,
                reading
  <2> QED
    BY <2>1, QuietStep
<1>2. ASSUME NEW p \in Procs,
             \/ Removed(p) \/ Encode(p) \/ Reclaim(p)
             \/ Create(p) \/ Write(p) \/ Abandon(p)
      PROVE  UNCHANGED Atomic!vars
  <2>1. UNCHANGED <<files, want, handle>>
    BY <1>2 DEF Removed, Encode, Reclaim, Create, Write, Abandon, reading
  <2> QED
    BY <2>1, QuietStep
<1>3. ASSUME NEW p \in Procs, Remove(p) \/ Rename(p)
      PROVE  [Atomic!Next]_(Atomic!vars)
  BY <1>3, RemoveStep, RenameStep
<1>4. ASSUME NEW p \in Procs, Load(p) \/ Crash(p)
      PROVE  Atomic!Next
  BY <1>4, CloseStep DEF Atomic!Next
<1>5. ASSUME NEW p \in Procs, NEW k \in Keys, Open(p, k)
      PROVE  Atomic!Next
  BY <1>5, OpenStep DEF Atomic!Next
<1>6. ASSUME NEW n \in Names, Damage(n)
      PROVE  Atomic!Next
  BY <1>6, DamageStep DEF Atomic!Next
<1>7. CASE UNCHANGED vars
  BY <1>7, QuietStep DEF vars
<1> QED
  BY <1>1, <1>2, <1>3, <1>4, <1>5, <1>6, <1>7 DEF Next

\* The store with its locks, temporary file, crashes and failing calls
\* implements the atomic cache its clients rely on.
THEOREM StoreImplementsAtomicCache == Spec => IsAtomic
<1>1. Init => Atomic!Init
  <2> SUFFICES ASSUME Init PROVE Atomic!Init
    OBVIOUS
  <2>1. Shown(Miss) = Miss /\ Accepted(Miss, Miss) = Miss
    BY DEF Shown, Accepted
  <2> QED
    BY <2>1 DEF Init, Atomic!Init
<1>2. Inv /\ [Next]_vars => [Atomic!Next]_(Atomic!vars)
  BY StepSimulation
<1>3. Spec => []Inv
  BY Invariance
<1> QED
  BY <1>1, <1>2, <1>3, PTL DEF Spec, IsAtomic, Atomic!Spec
=============================================================================
