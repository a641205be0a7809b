------------------------- MODULE RewriteSearchProofs -------------------------
(***************************************************************************)
(* What the rewrite search shows was true, and lanes agree, for any lanes, *)
(* targets, event logs and limits.                                         *)
(***************************************************************************)
EXTENDS RewriteSearch, SequenceTheorems, FiniteSetTheorems, TLAPS

-----------------------------------------------------------------------------
(* The inductive invariant.                                                *)

\* The commits whose group is still to be queried.
Waiting == unbatched \cup UNION Elements(groups)

\* What the states of the event log during the command give for a commit.
Possible(c) == {Rewrite(c, versions) : versions \in was[c]}

CurrentWas == \A c \in Commits : current[c] \in was[c]

\* Where a command stands between and within lanes.
Stage ==
    /\ phase = "lane" => missing = {} /\ unbatched = {} /\ groups = <<>>
    /\ phase = "range" => unbatched = missing /\ groups = <<>>
    /\ phase \in {"range", "search"} => Lane <= Len(Paths)
    /\ phase \in {"range", "search"} => missing = Interior(Lane) \ DOMAIN memo
    /\ phase \in {"lane", "range"} => found = [c \in Commits |-> {}]

\* A commit is waiting without a result, or its result was true.
SearchWasTrue ==
    phase = "search" =>
        \A c \in missing :
            \/ c \in Waiting /\ found[c] = {}
            \/ found[c] \in Possible(c)

MemoWasTrue == \A c \in DOMAIN memo : memo[c] \in Possible(c)

\* An answer is the one the memo holds, or the memo was full and stays without it.
AnswersAreRetained ==
    \A l \in DOMAIN answers : \A c \in Interior(l) :
        \/ c \in DOMAIN memo /\ answers[l][c] = memo[c]
        \/ c \notin DOMAIN memo /\ Cardinality(DOMAIN memo) >= MemoLimit

Inv ==
    /\ TypeOK
    /\ CurrentWas
    /\ Stage
    /\ SearchWasTrue
    /\ MemoWasTrue
    /\ AnswersWereTrue
    /\ AnswersAreRetained

-----------------------------------------------------------------------------
(* Facts about the operators the actions share.                            *)

\* Interior commits are commits.
LEMMA InteriorType ==
  ASSUME TypeOK, NEW l \in 1 .. Len(Paths)
  PROVE  Interior(l) \subseteq Commits
<1>1. Paths \in Seq(Seq(Commits))
  BY RepositoriesAssumption DEF TypeOK, Paths
<1>2. Paths[l] \in Seq(Commits)
  BY <1>1, ElementOfSeq
<1>3. \A i \in DOMAIN Paths[l] : Paths[l][i] \in Commits
  BY <1>2, ElementOfSeq, LenProperties
<1> QED
  BY <1>3 DEF Interior, Elements

\* Taking the next group off the stack.
LEMMA Popped ==
  ASSUME TypeOK, groups # <<>>
  PROVE  /\ Head(groups) \in SUBSET Commits
         /\ Tail(groups) \in Seq(SUBSET Commits)
         /\ Elements(groups) = {Head(groups)} \cup Elements(Tail(groups))
<1>1. groups \in Seq(SUBSET Commits)
  BY DEF TypeOK
<1>2. /\ Len(groups) \in Nat \ {0} /\ DOMAIN groups = 1 .. Len(groups)
      /\ Head(groups) = groups[1] /\ Head(groups) \in SUBSET Commits
      /\ Tail(groups) \in Seq(SUBSET Commits)
      /\ Len(Tail(groups)) = Len(groups) - 1
      /\ \A i \in 1 .. Len(Tail(groups)) : Tail(groups)[i] = groups[i + 1]
  BY <1>1, HeadTailProperties, LenProperties, EmptySeq, ElementOfSeq
<1>3. DOMAIN Tail(groups) = 1 .. Len(groups) - 1
  BY <1>2, LenProperties
<1>4. \A i \in DOMAIN groups : i = 1 \/ (i - 1 \in DOMAIN Tail(groups) /\ groups[i] = Tail(groups)[i - 1])
  BY <1>2, <1>3
<1>5. \A i \in DOMAIN Tail(groups) : i + 1 \in DOMAIN groups /\ Tail(groups)[i] = groups[i + 1]
  BY <1>2, <1>3
<1>6. 1 \in DOMAIN groups
  BY <1>2
<1>7. Elements(groups) \subseteq {Head(groups)} \cup Elements(Tail(groups))
  <2> SUFFICES ASSUME NEW i \in DOMAIN groups
               PROVE  groups[i] \in {Head(groups)} \cup Elements(Tail(groups))
    BY DEF Elements
  <2> QED
    BY <1>2, <1>4 DEF Elements
<1>8. {Head(groups)} \cup Elements(Tail(groups)) \subseteq Elements(groups)
  BY <1>2, <1>5, <1>6 DEF Elements
<1> QED
  BY <1>2, <1>7, <1>8

\* Two halves on top of a stack.
LEMMA Pushed ==
  ASSUME NEW a \in SUBSET Commits, NEW b \in SUBSET Commits,
         NEW rest \in Seq(SUBSET Commits)
  PROVE  /\ <<a, b>> \o rest \in Seq(SUBSET Commits)
         /\ Elements(<<a, b>> \o rest) = {a, b} \cup Elements(rest)
<1> DEFINE s == <<a, b>> \o rest
<1>1. /\ <<a, b>> \in Seq(SUBSET Commits) /\ Len(<<a, b>>) = 2
      /\ <<a, b>>[1] = a /\ <<a, b>>[2] = b
  OBVIOUS
<1>2. /\ s \in Seq(SUBSET Commits)
      /\ Len(s) = 2 + Len(rest)
      /\ \A i \in 1 .. 2 + Len(rest) :
            s[i] = IF i <= 2 THEN <<a, b>>[i] ELSE rest[i - 2]
  BY <1>1, ConcatProperties
<1>3. /\ DOMAIN s = 1 .. 2 + Len(rest) /\ DOMAIN rest = 1 .. Len(rest) /\ Len(rest) \in Nat
  BY <1>2, LenProperties
<1>4. s[1] = a /\ s[2] = b /\ 1 \in DOMAIN s /\ 2 \in DOMAIN s
  BY <1>1, <1>2, <1>3
<1>5. \A i \in DOMAIN s : i = 1 \/ i = 2 \/ (i - 2 \in DOMAIN rest /\ s[i] = rest[i - 2])
  BY <1>2, <1>3
<1>6. \A i \in DOMAIN rest : i + 2 \in DOMAIN s /\ s[i + 2] = rest[i]
  BY <1>2, <1>3
<1> HIDE DEF s
<1>7. Elements(s) = {a, b} \cup Elements(rest)
  BY <1>4, <1>5, <1>6 DEF Elements
<1> QED
  BY <1>2, <1>7 DEF s

\* The halves of a group are the group.
LEMMA HalvesSplit ==
  ASSUME NEW group \in SUBSET Commits
  PROVE  \E a, b \in SUBSET Commits : Halves(group) = <<a, b>> /\ a \cup b = group
<1> DEFINE left == First(Middle(group), group)
<1>1. left \subseteq group
  BY DEF First
<1>2. Halves(group) = <<left, group \ left>>
  BY DEF Halves
<1> HIDE DEF left
<1> QED
  BY <1>1, <1>2

\* A commit no version of which is a target has no rewrite, and one whose version
\* is another target is rewritten by it.
LEMMA Irrelevant ==
  ASSUME NEW c, NEW versions, versions \cap Targets = {}
  PROVE  Rewrite(c, versions) = {}
  BY DEF Rewrite

\* What the current versions of a commit give is among what the command saw.
LEMMA PossibleNow ==
  ASSUME CurrentWas, NEW c \in Commits
  PROVE  Rewrite(c, current[c]) \in Possible(c)
  BY DEF CurrentWas, Possible

\* A step that touches neither what was answered nor the event log keeps what is
\* said of both.
LEMMA AnswersKept ==
  ASSUME Inv, UNCHANGED <<repository, current, was, memo, answers>>
  PROVE  (CurrentWas /\ MemoWasTrue /\ AnswersWereTrue /\ AnswersAreRetained)'
<1>1. \A l : Interior(l)' = Interior(l)
  BY DEF Interior, Paths, Targets
<1>2. \A c, v : Rewrite(c, v)' = Rewrite(c, v)
  BY DEF Rewrite, Targets
<1>3. (CurrentWas /\ MemoWasTrue)'
  BY <1>2 DEF Inv, CurrentWas, MemoWasTrue, Possible
<1>4. AnswersWereTrue'
  BY <1>1, <1>2 DEF Inv, AnswersWereTrue
<1>5. AnswersAreRetained'
  BY <1>1 DEF Inv, AnswersAreRetained
<1> QED
  BY <1>3, <1>4, <1>5

-----------------------------------------------------------------------------
(* Every step preserves the invariant.                                     *)

LEMMA InitInv == Init => Inv
<1> SUFFICES ASSUME Init PROVE Inv
  OBVIOUS
<1>1. current \in [Commits -> SUBSET Commits]
  BY LogsAssumption DEF Init
<1>2. Len(answers) = 0 /\ DOMAIN answers = {} /\ DOMAIN memo = {} /\ groups \in Seq(SUBSET Commits)
  BY DEF Init
<1>3. Paths \in Seq(Seq(Commits))
  BY RepositoriesAssumption DEF Init, Paths
<1>4. TypeOK
  <2>1. memo \in [DOMAIN memo -> SUBSET Commits]
    BY <1>2 DEF Init
  <2>2. answers \in Seq([Commits -> SUBSET Commits])
    BY DEF Init
  <2>3. Len(answers) <= Len(Paths)
    BY <1>2, <1>3, LenProperties
  <2> QED
    BY <1>1, <1>2, <2>1, <2>2, <2>3 DEF Init, TypeOK
<1> QED
  BY <1>2, <1>4 DEF Init, Inv, CurrentWas, Stage, SearchWasTrue, MemoWasTrue,
     AnswersWereTrue, AnswersAreRetained

LEMMA BeginInv == Inv /\ Begin => Inv'
<1> SUFFICES ASSUME Inv, Begin PROVE Inv'
  OBVIOUS
<1>1. Lane \in 1 .. Len(Paths) /\ Interior(Lane) \subseteq Commits
  <2>1. Lane \in 1 .. Len(Paths)
    <3>1. Len(answers) \in Nat /\ Len(Paths) \in Nat
      BY RepositoriesAssumption, LenProperties DEF Inv, TypeOK, Paths
    <3> QED
      BY <3>1 DEF Begin, Lane
  <2> QED
    BY <2>1, InteriorType DEF Inv
<1>2. TypeOK'
  BY <1>1 DEF Inv, TypeOK, Begin, Paths
<1>3. Stage'
  BY DEF Inv, Stage, Begin, Interior, Lane, Paths, Targets
<1>4. SearchWasTrue'
  BY <1>1 DEF Inv, Stage, Begin, SearchWasTrue, Waiting
<1>5. (CurrentWas /\ MemoWasTrue /\ AnswersWereTrue /\ AnswersAreRetained)'
  BY AnswersKept DEF Begin
<1> QED
  BY <1>2, <1>3, <1>4, <1>5 DEF Inv

\* A range without a target among its versions: no commit has a rewrite now.
LEMMA QueryRangeInv == Inv /\ QueryRange => Inv'
<1> SUFFICES ASSUME Inv, QueryRange PROVE Inv'
  OBVIOUS
<1>2. TypeOK'
  BY DEF Inv, TypeOK, QueryRange, Paths
<1>3. Stage'
  BY DEF Inv, Stage, QueryRange, Interior, Lane, Paths, Targets
<1>4. SearchWasTrue'
  <2> SUFFICES ASSUME NEW c \in missing
               PROVE  \/ c \in Waiting' /\ found[c] = {}
                      \/ found[c] \in Possible(c)'
    BY DEF QueryRange, SearchWasTrue
  <2>1. c \in Commits /\ found[c] = {} /\ c \in Interior(Lane)
    BY DEF Inv, TypeOK, Stage, QueryRange
  <2>2. CASE Versions(Interior(Lane)) \cap Targets = {}
    <3>1. current[c] \cap Targets = {}
      BY <2>1, <2>2 DEF Versions
    <3>2. {} \in Possible(c)
      BY <2>1, <3>1, Irrelevant, PossibleNow DEF Inv
    <3> QED
      BY <2>1, <3>2 DEF QueryRange, Possible, Rewrite, Targets
  <2>3. CASE Versions(Interior(Lane)) \cap Targets # {}
    BY <2>1, <2>3 DEF Inv, Stage, QueryRange, Waiting
  <2> QED
    BY <2>2, <2>3
<1>5. (CurrentWas /\ MemoWasTrue /\ AnswersWereTrue /\ AnswersAreRetained)'
  BY AnswersKept DEF QueryRange
<1> QED
  BY <1>2, <1>3, <1>4, <1>5 DEF Inv

LEMMA NextBatchInv == Inv /\ NextBatch => Inv'
<1> SUFFICES ASSUME Inv, NextBatch PROVE Inv'
  OBVIOUS
<1> DEFINE batch == First(GroupLimit, unbatched)
<1>1. batch \subseteq unbatched /\ unbatched \subseteq Commits
  BY DEF First, Inv, TypeOK
<1>2. groups' = <<batch>> /\ unbatched' = unbatched \ batch
  BY DEF NextBatch
<1> HIDE DEF batch
<1>3. Elements(groups') = {batch}
  BY <1>2 DEF Elements
<1>4. TypeOK'
  <2>1. groups' \in Seq(SUBSET Commits)
    BY <1>1, <1>2
  <2> QED
    BY <1>1, <1>2, <2>1 DEF Inv, TypeOK, NextBatch, Paths
<1>5. Stage'
  BY DEF Inv, Stage, NextBatch, Interior, Lane, Paths, Targets
<1>6. Waiting \subseteq Waiting'
  <2>1. Elements(groups) = {}
    BY DEF NextBatch, Elements
  <2> QED
    BY <1>1, <1>2, <1>3, <2>1 DEF Waiting
<1>7. SearchWasTrue'
  <2>1. \A c : Possible(c)' = Possible(c)
    BY DEF NextBatch, Possible, Rewrite, Targets
  <2> QED
    BY <1>6, <2>1 DEF Inv, NextBatch, SearchWasTrue
<1>8. (CurrentWas /\ MemoWasTrue /\ AnswersWereTrue /\ AnswersAreRetained)'
  BY AnswersKept DEF NextBatch
<1> QED
  BY <1>4, <1>5, <1>7, <1>8 DEF Inv

\* An answer for a group: irrelevant commits have no rewrite now, the rewrite of a
\* single commit is what its versions are now, and halves wait on.
LEMMA QueryGroupInv == Inv /\ QueryGroup => Inv'
<1> SUFFICES ASSUME Inv, QueryGroup PROVE Inv'
  OBVIOUS
<1> DEFINE group == Head(groups)
           rest == Tail(groups)
           versions == Versions(group)
<1>1. /\ group \in SUBSET Commits /\ rest \in Seq(SUBSET Commits)
      /\ Elements(groups) = {group} \cup Elements(rest)
  BY Popped DEF Inv, QueryGroup
<1>2. /\ phase = "search" /\ phase' = phase /\ missing' = missing /\ unbatched' = unbatched
      /\ missing \subseteq Commits /\ found \in [Commits -> SUBSET Commits]
      /\ UNCHANGED <<repository, current, was, memo, answers>>
  BY DEF Inv, TypeOK, QueryGroup
<1>3. \A c : Possible(c)' = Possible(c)
  BY <1>2 DEF Possible, Rewrite, Targets
<1>4. versions \subseteq Commits
  BY <1>1, LogsAssumption DEF Versions, Inv, TypeOK
<1>5. Stage'
  BY <1>2 DEF Inv, Stage, Interior, Lane, Paths, Targets
\* It is enough that the group's commits get a result or wait on.
<1>6. ASSUME groups' \in Seq(SUBSET Commits),
             found' \in [Commits -> SUBSET Commits],
             Elements(rest) \subseteq Elements(groups'),
             \A c \in Commits \ group : found'[c] = found[c],
             \A c \in missing : found'[c] = found[c] \/ found'[c] \in Possible(c),
             \A c \in group \cap missing :
                found[c] = {} =>
                    \/ found'[c] = {} /\ group \subseteq UNION Elements(groups')
                    \/ found'[c] \in Possible(c)
      PROVE  TypeOK' /\ SearchWasTrue'
  <2>1. TypeOK'
    BY <1>2, <1>6 DEF Inv, TypeOK, QueryGroup, Paths
  <2>2. SearchWasTrue'
    <3> SUFFICES ASSUME NEW c \in missing
                 PROVE  \/ c \in Waiting' /\ found'[c] = {}
                        \/ found'[c] \in Possible(c)
      BY <1>2, <1>3 DEF SearchWasTrue
    <3>1. \/ c \in Waiting /\ found[c] = {}
          \/ found[c] \in Possible(c)
      BY <1>2 DEF Inv, SearchWasTrue
    <3>2. CASE found[c] \in Possible(c)
      BY <1>6, <3>2
    <3>3. CASE c \in Waiting /\ found[c] = {}
      <4>1. CASE c \in group
        BY <1>2, <1>6, <3>3, <4>1 DEF Waiting
      <4>2. CASE c \notin group
        BY <1>1, <1>2, <1>6, <3>3, <4>2 DEF Waiting
      <4> QED
        BY <4>1, <4>2
    <3> QED
      BY <3>1, <3>2, <3>3
  <2> QED
    BY <2>1, <2>2
<1>7. ASSUME versions \cap Targets = {}
      PROVE  TypeOK' /\ SearchWasTrue'
  <2>1. groups' = rest /\ found' = found
    BY <1>7 DEF QueryGroup
  <2>2. \A c \in group : {} \in Possible(c)
    <3> SUFFICES ASSUME NEW c \in group PROVE {} \in Possible(c)
      OBVIOUS
    <3>1. current[c] \cap Targets = {}
      BY <1>7 DEF Versions
    <3> QED
      BY <1>1, <3>1, Irrelevant, PossibleNow DEF Inv
  <2> QED
    BY <1>1, <1>2, <1>6, <2>1, <2>2
<1>8. ASSUME versions \cap Targets # {} /\ \E c \in group : group = {c}
      PROVE  TypeOK' /\ SearchWasTrue'
  <2>1. PICK c \in group : group = {c} /\ groups' = rest
          /\ found' = IF \E r \in Commits \ {c} : versions = {r}
                      THEN [found EXCEPT ![c] = versions]
                      ELSE found
    BY <1>8 DEF QueryGroup
  <2>2. versions = current[c]
    BY <2>1 DEF Versions
  <2>3. IF \E r \in Commits \ {c} : versions = {r}
        THEN Rewrite(c, versions) = versions
        ELSE Rewrite(c, versions) = {}
    <3>1. Targets \subseteq Commits
      BY RepositoriesAssumption DEF Inv, TypeOK, Targets
    <3> HIDE DEF versions
    <3> QED
      BY <1>8, <3>1 DEF Rewrite
  <2>4. c \in Commits /\ Rewrite(c, versions) \in Possible(c)
    BY <1>1, <2>2, PossibleNow DEF Inv
  <2>5. found' \in [Commits -> SUBSET Commits]
    BY <1>2, <1>4, <2>1
  <2>6. \A d \in Commits : d # c => found'[d] = found[d]
    BY <1>2, <2>1
  <2>7. found[c] = {} => found'[c] \in Possible(c)
    BY <1>2, <2>1, <2>3, <2>4
  <2>8. found'[c] = found[c] \/ found'[c] \in Possible(c)
    BY <1>2, <2>1, <2>3, <2>4
  <2> QED
    BY <1>1, <1>2, <1>6, <2>1, <2>4, <2>5, <2>6, <2>7, <2>8
<1>9. ASSUME versions \cap Targets # {} /\ \A c \in group : group # {c}
      PROVE  TypeOK' /\ SearchWasTrue'
  <2>1. groups' = Halves(group) \o rest /\ found' = found
    BY <1>9 DEF QueryGroup
  <2>2. PICK a \in SUBSET Commits, b \in SUBSET Commits :
          Halves(group) = <<a, b>> /\ a \cup b = group
    BY <1>1, HalvesSplit
  <2>3. groups' \in Seq(SUBSET Commits) /\ Elements(groups') = {a, b} \cup Elements(rest)
    <3>1. groups' = <<a, b>> \o rest
      BY <2>1, <2>2
    <3> HIDE DEF rest
    <3>2. /\ <<a, b>> \o rest \in Seq(SUBSET Commits)
          /\ Elements(<<a, b>> \o rest) = {a, b} \cup Elements(rest)
      BY <1>1, Pushed
    <3> QED
      BY <3>1, <3>2
  <2>4. group \subseteq UNION Elements(groups')
    BY <2>2, <2>3
  <2> QED
    BY <1>1, <1>2, <1>6, <2>1, <2>3, <2>4
<1>10. TypeOK' /\ SearchWasTrue'
  BY <1>7, <1>8, <1>9
<1>11. (CurrentWas /\ MemoWasTrue /\ AnswersWereTrue /\ AnswersAreRetained)'
  BY <1>2, AnswersKept
<1> QED
  BY <1>5, <1>10, <1>11 DEF Inv

LEMMA FailInv == Inv /\ Fail => Inv'
<1> SUFFICES ASSUME Inv, Fail PROVE Inv'
  OBVIOUS
<1>1. TypeOK'
  BY DEF Inv, TypeOK, Fail, Paths
<1>2. Stage' /\ SearchWasTrue'
  BY DEF Fail, Stage, SearchWasTrue
<1>3. (CurrentWas /\ MemoWasTrue /\ AnswersWereTrue /\ AnswersAreRetained)'
  BY AnswersKept DEF Fail
<1> QED
  BY <1>1, <1>2, <1>3 DEF Inv

\* A change of the event log only adds to what was true.
LEMMA ChangeInv == Inv /\ Change => Inv'
<1> SUFFICES ASSUME Inv, Change PROVE Inv'
  OBVIOUS
<1>1. current' \in [Commits -> SUBSET Commits] /\ was \in [Commits -> SUBSET SUBSET Commits]
  BY LogsAssumption DEF Inv, TypeOK, Change
<1>2. was' \in [Commits -> SUBSET SUBSET Commits]
      /\ \A c \in Commits : was'[c] = was[c] \cup {current'[c]}
  BY <1>1 DEF Change
<1>3. TypeOK'
  <2>1. changes' \in Nat /\ current' \in Logs
    BY DEF Inv, TypeOK, Change
  <2>2. Paths' = Paths /\ UNCHANGED <<repository, phase, missing, unbatched, groups, found,
                                     memo, answers>>
    BY DEF Change, Paths
  <2> QED
    BY <1>2, <2>1, <2>2 DEF Inv, TypeOK
<1>4. CurrentWas'
  BY <1>2 DEF CurrentWas
<1>5. \A c, v : Rewrite(c, v)' = Rewrite(c, v)
  BY DEF Change, Rewrite, Targets
<1>6. \A l : Interior(l)' = Interior(l)
  BY DEF Change, Interior, Paths, Targets
<1>7. \A c \in Commits : Possible(c) \subseteq Possible(c)'
  BY <1>2, <1>5 DEF Possible
<1>8. Stage'
  BY <1>6 DEF Inv, Stage, Change, Lane, Paths
<1>9. SearchWasTrue' /\ MemoWasTrue'
  <2>1. missing \subseteq Commits /\ DOMAIN memo \subseteq Commits
    BY DEF Inv, TypeOK
  <2>2. UNCHANGED <<missing, found, memo, phase, Waiting>>
    BY DEF Change, Waiting
  <2> QED
    BY <1>7, <2>1, <2>2 DEF Inv, SearchWasTrue, MemoWasTrue
<1>10. AnswersWereTrue'
  <2> SUFFICES ASSUME NEW l \in DOMAIN answers, NEW c \in Interior(l)
               PROVE  answers[l][c] \in Possible(c)'
    BY <1>6 DEF Change, AnswersWereTrue, Possible
  <2>1. answers[l][c] \in Possible(c)
    BY DEF Inv, AnswersWereTrue, Possible
  <2>2. c \in Commits
    <3>1. l \in 1 .. Len(Paths)
      <4>1. /\ DOMAIN answers = 1 .. Len(answers) /\ Len(answers) \in Nat
            /\ Len(Paths) \in Nat /\ Len(answers) <= Len(Paths)
        BY RepositoriesAssumption, LenProperties DEF Inv, TypeOK, Paths
      <4> QED
        BY <4>1
    <3> QED
      BY <3>1, InteriorType DEF Inv
  <2> QED
    BY <1>7, <2>1, <2>2
<1>11. AnswersAreRetained'
  BY <1>6 DEF Inv, AnswersAreRetained, Change
<1> QED
  BY <1>3, <1>4, <1>8, <1>9, <1>10, <1>11 DEF Inv

\* What a lane is given was true, and the memo either holds all of it or is full.
LEMMA AnswerInv == Inv /\ Answer => Inv'
<1> SUFFICES ASSUME Inv, Answer PROVE Inv'
  OBVIOUS
<1> DEFINE answer == [c \in Commits |-> IF c \in Interior(Lane) THEN Result(c) ELSE {}]
<1>1. /\ phase = "search" /\ Lane <= Len(Paths)
      /\ missing = Interior(Lane) \ DOMAIN memo
      /\ missing \subseteq Commits /\ found \in [Commits -> SUBSET Commits]
      /\ DOMAIN memo \subseteq Commits /\ memo \in [DOMAIN memo -> SUBSET Commits]
      /\ answers \in Seq([Commits -> SUBSET Commits])
      /\ Len(answers) \in Nat /\ Len(Paths) \in Nat
      /\ DOMAIN answers = 1 .. Len(answers)
  BY RepositoriesAssumption, LenProperties DEF Inv, TypeOK, Stage, Answer, Paths
<1>2. Lane \in 1 .. Len(Paths) /\ Interior(Lane) \subseteq Commits
  <2>1. Lane \in 1 .. Len(Paths)
    BY <1>1 DEF Lane
  <2> QED
    BY <2>1, InteriorType DEF Inv
<1>3. answer \in [Commits -> SUBSET Commits]
  BY <1>1, <1>2 DEF Result
<1> HIDE DEF answer
<1>4. /\ answers' = Append(answers, answer)
      /\ answers' \in Seq([Commits -> SUBSET Commits])
      /\ Len(answers') = Lane /\ DOMAIN answers' = 1 .. Lane
      /\ answers'[Lane] = answer
      /\ \A l \in DOMAIN answers : answers'[l] = answers[l]
  <2>1. answers' = Append(answers, answer)
    BY DEF Answer, answer
  <2>2. /\ answers' \in Seq([Commits -> SUBSET Commits])
        /\ Len(answers') = Len(answers) + 1
        /\ \A l \in 1 .. Len(answers) : answers'[l] = answers[l]
        /\ answers'[Len(answers) + 1] = answer
    BY <1>1, <1>3, <2>1, AppendProperties
  <2> QED
    BY <1>1, <2>1, <2>2, LenProperties DEF Lane
<1>5. PICK kept \in SUBSET missing : Retainable(kept) /\ memo' = Retained(kept)
  BY DEF Answer
<1>6. /\ DOMAIN memo' = DOMAIN memo \cup kept
      /\ \A c \in DOMAIN memo \cup kept : memo'[c] = Result(c)
      /\ memo' \in [DOMAIN memo' -> SUBSET Commits]
  BY <1>1, <1>5 DEF Retained, Result
<1>7. UNCHANGED <<repository, current, was>>
  BY DEF Answer
<1>8. /\ \A l : Interior(l)' = Interior(l)
      /\ \A c : Possible(c)' = Possible(c)
  BY <1>7 DEF Interior, Paths, Targets, Possible, Rewrite
<1>9. \A c \in Interior(Lane) \cup DOMAIN memo : Result(c) \in Possible(c)
  <2>1. \A c \in missing : found[c] \in Possible(c)
    <3>1. Waiting = {}
      BY DEF Answer, Waiting, Elements
    <3> QED
      BY <1>1, <3>1 DEF Inv, SearchWasTrue
  <2> QED
    BY <1>1, <2>1 DEF Inv, MemoWasTrue, Result
<1>10. TypeOK'
  <2>1. Len(answers') <= Len(Paths')
    BY <1>1, <1>4, <1>7 DEF Paths
  <2>2. found' \in [Commits -> SUBSET Commits] /\ DOMAIN memo' \subseteq Commits
    BY <1>1, <1>6 DEF Answer
  <2>3. missing' = {} /\ unbatched' = {} /\ UNCHANGED <<groups, changes>> /\ phase' = "lane"
    BY DEF Answer
  <2> QED
    BY <1>4, <1>6, <1>7, <2>1, <2>2, <2>3 DEF Inv, TypeOK
<1>11. Stage' /\ SearchWasTrue'
  BY DEF Answer, Stage, SearchWasTrue
<1>12. CurrentWas' /\ MemoWasTrue'
  BY <1>5, <1>6, <1>7, <1>8, <1>9, <1>1 DEF Inv, CurrentWas, MemoWasTrue
<1>13. AnswersWereTrue'
  <2> SUFFICES ASSUME NEW l \in DOMAIN answers', NEW c \in Interior(l)
               PROVE  answers'[l][c] \in Possible(c)
    BY <1>8 DEF AnswersWereTrue, Possible
  <2>1. CASE l = Lane
    BY <1>2, <1>4, <1>9, <2>1 DEF answer
  <2>2. CASE l # Lane
    <3>1. l \in DOMAIN answers
      BY <1>1, <1>4, <2>2 DEF Lane
    <3> QED
      BY <1>4, <3>1 DEF Inv, AnswersWereTrue, Possible
  <2> QED
    BY <2>1, <2>2
<1>14. IsFiniteSet(DOMAIN memo') /\ Cardinality(DOMAIN memo) <= Cardinality(DOMAIN memo')
  <2>1. DOMAIN memo' \subseteq Commits
    BY <1>1, <1>6
  <2>2. IsFiniteSet(DOMAIN memo')
    BY <2>1, CommitsAssumption, FS_Subset
  <2> QED
    BY <1>6, <2>2, FS_Subset
<1>15. /\ Cardinality(DOMAIN memo) \in Nat /\ Cardinality(DOMAIN memo') \in Nat
       /\ MemoLimit \in Nat
  <2>1. IsFiniteSet(DOMAIN memo)
    BY <1>1, CommitsAssumption, FS_Subset
  <2> QED
    BY <1>14, <2>1, FS_CardinalityType, LimitsAssumption
<1>16. AnswersAreRetained'
  <2> SUFFICES ASSUME NEW l \in DOMAIN answers', NEW c \in Interior(l)
               PROVE  \/ c \in DOMAIN memo' /\ answers'[l][c] = memo'[c]
                      \/ c \notin DOMAIN memo' /\ Cardinality(DOMAIN memo') >= MemoLimit
    BY <1>8 DEF AnswersAreRetained
  <2>1. CASE l = Lane
    <3>1. CASE c \in DOMAIN memo \cup kept
      BY <1>2, <1>4, <1>6, <2>1, <3>1 DEF answer
    <3>2. CASE c \notin DOMAIN memo \cup kept
      <4>1. kept # missing
        BY <1>1, <2>1, <3>2
      <4> QED
        BY <1>5, <1>6, <3>2, <4>1 DEF Retainable
    <3> QED
      BY <3>1, <3>2
  <2>2. CASE l # Lane
    <3>1. l \in DOMAIN answers
      BY <1>1, <1>4, <2>2 DEF Lane
    <3>2. CASE c \in DOMAIN memo /\ answers[l][c] = memo[c]
      BY <1>4, <1>6, <3>1, <3>2 DEF Result
    <3>3. CASE c \notin DOMAIN memo /\ Cardinality(DOMAIN memo) >= MemoLimit
      <4>1. kept = {}
        <5>1. SUFFICES ASSUME kept # {} PROVE FALSE
          OBVIOUS
        <5>2. Cardinality(DOMAIN memo') <= MemoLimit
          BY <1>5, <1>6, <5>1 DEF Retainable
        <5>3. Cardinality(DOMAIN memo) = Cardinality(DOMAIN memo')
          BY <1>14, <1>15, <3>3, <5>2
        <5>4. DOMAIN memo = DOMAIN memo'
          BY <1>6, <1>14, <5>3, FS_Subset
        <5> QED
          BY <1>1, <1>6, <5>1, <5>4
      <4> QED
        BY <1>6, <3>3, <4>1
    <3> QED
      BY <3>1, <3>2, <3>3 DEF Inv, AnswersAreRetained
  <2> QED
    BY <2>1, <2>2
<1> QED
  BY <1>10, <1>11, <1>12, <1>13, <1>16 DEF Inv

LEMMA StutterInv == Inv /\ UNCHANGED vars => Inv'
<1> SUFFICES ASSUME Inv, UNCHANGED vars PROVE Inv'
  OBVIOUS
<1>1. TypeOK'
  BY DEF Inv, TypeOK, vars, Paths
<1>2. Stage'
  BY DEF Inv, Stage, vars, Interior, Lane, Paths, Targets
<1>3. SearchWasTrue'
  BY DEF Inv, SearchWasTrue, vars, Waiting, Possible, Rewrite, Targets
<1>4. (CurrentWas /\ MemoWasTrue /\ AnswersWereTrue /\ AnswersAreRetained)'
  BY AnswersKept DEF vars
<1> QED
  BY <1>1, <1>2, <1>3, <1>4 DEF Inv

-----------------------------------------------------------------------------
(* The theorems.                                                           *)

\* The invariant holds in every behaviour of a search.
THEOREM Invariance == Spec => []Inv
<1>1. Inv /\ [Next]_vars => Inv'
  <2> SUFFICES ASSUME Inv, [Next]_vars PROVE Inv'
    OBVIOUS
  <2> QED
    BY BeginInv, QueryRangeInv, NextBatchInv, QueryGroupInv, AnswerInv, FailInv, ChangeInv,
       StutterInv DEF Next, Search
<1> QED
  BY <1>1, InitInv, PTL DEF Spec

\* Every variable keeps its type, for any lanes, logs and limits.
THEOREM TypeCorrect == Spec => []TypeOK
<1>1. Inv => TypeOK
  BY DEF Inv
<1> QED
  BY <1>1, Invariance, PTL

\* What is shown of a commit was true at some moment of the command
\* (shell_query_rewrites, shell_path_rewrites, Session::rewrite_results).
THEOREM ShownWasTrue == Spec => []AnswersWereTrue
<1>1. Inv => AnswersWereTrue
  BY DEF Inv
<1> QED
  BY <1>1, Invariance, PTL

\* Lanes agree on every commit they share that the session retains, and it retains all
\* of them while it has room (Session::rewrite_results).
THEOREM SharedCommitsAgree == Spec => []LanesAgree
<1>1. Inv => LanesAgree
  BY DEF Inv, AnswersAreRetained, LanesAgree
<1> QED
  BY <1>1, Invariance, PTL
=============================================================================
