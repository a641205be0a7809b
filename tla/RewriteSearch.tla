---------------------------- MODULE RewriteSearch ----------------------------
(***************************************************************************)
(* Which commits of the lanes were rewritten, and by which selected commit *)
(* (backend/shell.rs, backend/session.rs, lanes/construction.rs).  Lane    *)
(* after lane asks git-branchless for the current versions of commits.     *)
(* The event log that answers may change between two queries.              *)
(*                                                                         *)
(* A path lists the commits from a merge base to a head, each once.  Its   *)
(* interior are those that are no branch point; branch points are the      *)
(* targets of the search.  Groups of commits are sets, in the path's order *)
(* wherever the code cuts them.                                            *)
(***************************************************************************)
EXTENDS Naturals, Sequences, FiniteSets

CONSTANTS
    Commits,        \* every object ID git-branchless may name
    Repositories,   \* records [paths : the lanes' paths in order, targets : branch points]
    Logs,           \* the current versions of every commit, for each state of the event log
    GroupLimit,     \* commits in the first query of a batch (128)
    MemoLimit,      \* rewrites the session retains (QUERY_LIMIT)
    ChangeLimit     \* bound of the model: changes of the event log during the command

Elements(s) == {s[i] : i \in DOMAIN s}

ASSUME CommitsAssumption == IsFiniteSet(Commits)
ASSUME LimitsAssumption == GroupLimit \in Nat \ {0} /\ MemoLimit \in Nat /\ ChangeLimit \in Nat
ASSUME LogsAssumption == Logs \subseteq [Commits -> SUBSET Commits]
ASSUME RepositoriesAssumption ==
    \A r \in Repositories : r.targets \subseteq Commits /\ r.paths \in Seq(Seq(Commits))

VARIABLES
    repository,     \* the analysed lanes, unchanged during the command
    current,        \* current versions of each commit at this moment
    was,            \* history: all versions each commit had since the command began
    changes,        \* changes of the event log so far
    phase,          \* "lane" between lanes, "range" and "search" within one, "failed"
    missing,        \* commits of this lane that the session does not know
    unbatched,      \* those of them that are in no batch yet
    groups,         \* stack of groups of the batch still to query, the next one first
    found,          \* rewrites found for this lane
    memo,           \* rewrites the session retains
    answers         \* per lane with an answer, the rewrites of its interior commits

vars == <<repository, current, was, changes, phase, missing, unbatched, groups, found, memo,
          answers>>

Targets == repository.targets
Paths == repository.paths
Lane == Len(answers) + 1

Interior(l) == Elements(Paths[l]) \ Targets

\* What a lane shows of a commit whose current versions are `versions`: the one
\* version that replaces it, when that is a selected branch point.
Rewrite(c, versions) ==
    IF \E r \in Targets \ {c} : versions = {r} THEN versions ELSE {}

Init ==
    /\ repository \in Repositories
    /\ current \in Logs
    /\ was = [c \in Commits |-> {current[c]}]
    /\ changes = 0
    /\ phase = "lane"
    /\ missing = {}
    /\ unbatched = {}
    /\ groups = <<>>
    /\ found = [c \in Commits |-> {}]
    /\ memo = <<>>
    /\ answers = <<>>

-----------------------------------------------------------------------------
Before(c, d) == \E i, j \in DOMAIN Paths[Lane] : i < j /\ Paths[Lane][i] = c /\ Paths[Lane][j] = d

\* The first n commits of a set, in the order of this lane's path.
First(n, set) == {c \in set : Cardinality({d \in set : Before(d, c)}) < n}

\* One answer of git-branchless for a set of commits.
Versions(commits) == UNION {current[c] : c \in commits}

\* rewrite_results reads the commits it does not know of together, and nothing
\* when it knows all.  shell_path_rewrites asks for the whole range first when there
\* are targets and the expression is not too long, which is a free choice here.
Begin ==
    /\ phase = "lane"
    /\ Lane <= Len(Paths)
    /\ missing' = Interior(Lane) \ DOMAIN memo
    /\ \/ missing' # {} /\ Targets # {} /\ phase' = "range"
       \/ phase' = "search"
    /\ unbatched' = missing'
    /\ UNCHANGED <<repository, current, was, changes, groups, found, memo, answers>>

\* current((range) - (targets)): when no commit of the range, known or not, has
\* a target among its versions, the lane has no rewrites.
QueryRange ==
    /\ phase = "range"
    /\ phase' = "search"
    /\ unbatched' = IF Versions(Interior(Lane)) \cap Targets = {} THEN {} ELSE unbatched
    /\ UNCHANGED <<repository, current, was, changes, missing, groups, found, memo, answers>>

\* The next of oids.chunks(128).
NextBatch ==
    /\ phase = "search"
    /\ groups = <<>>
    /\ unbatched # {}
    /\ groups' = <<First(GroupLimit, unbatched)>>
    /\ unbatched' = unbatched \ First(GroupLimit, unbatched)
    /\ UNCHANGED <<repository, current, was, changes, phase, missing, found, memo, answers>>

\* Mutant: the left half of a small group is empty.
MiddleOfLimit(group) == Cardinality(group) \div GroupLimit

Middle(group) == Cardinality(group) \div 2

\* Mutant: the right half is not pushed.
LeftHalf(group) == <<First(Middle(group), group)>>

Halves(group) == <<First(Middle(group), group), group \ First(Middle(group), group)>>

\* A group without a target among its versions has no rewrites; another one is
\* halved, the left half next, down to a single commit.
QueryGroup ==
    /\ phase = "search"
    /\ groups # <<>>
    /\ LET group == Head(groups)
           versions == Versions(group)
           relevant == versions \cap Targets # {}
       IN  \/ /\ ~relevant
              /\ groups' = Tail(groups)
              /\ UNCHANGED found
           \/ /\ relevant
              /\ \E c \in group :
                    /\ group = {c}
                    /\ groups' = Tail(groups)
                    /\ found' = IF \E r \in Commits \ {c} : versions = {r}
                                THEN [found EXCEPT ![c] = versions]
                                ELSE found
           \/ /\ relevant
              /\ \A c \in group : group # {c}
              /\ groups' = Halves(group) \o Tail(groups)
              /\ UNCHANGED found
    /\ UNCHANGED <<repository, current, was, changes, phase, missing, unbatched, memo, answers>>

\* The results of the lane: what was read for missing commits, and what the
\* session knew of the others.
Result(c) == IF c \in DOMAIN memo THEN memo[c] ELSE found[c]

\* Missing commits are retained in the path's order while there is room.
Retainable(kept) ==
    /\ \A c \in kept, d \in missing : Before(d, c) => d \in kept
    /\ kept = {} \/ Cardinality(DOMAIN memo \cup kept) <= MemoLimit
    /\ kept = missing \/ Cardinality(DOMAIN memo \cup kept) >= MemoLimit

\* Mutant: the session retains rewrites, but not that a commit has none.
RetainedFound(kept) == [c \in DOMAIN memo \cup {k \in kept : found[k] # {}} |-> Result(c)]

Retained(kept) == [c \in DOMAIN memo \cup kept |-> Result(c)]

Answer ==
    /\ phase = "search"
    /\ groups = <<>>
    /\ unbatched = {}
    /\ answers' = Append(answers, [c \in Commits |-> IF c \in Interior(Lane) THEN Result(c) ELSE {}])
    /\ \E kept \in SUBSET missing : Retainable(kept) /\ memo' = Retained(kept)
    /\ phase' = "lane"
    /\ missing' = {}
    /\ found' = [c \in Commits |-> {}]
    /\ UNCHANGED <<repository, current, was, changes, unbatched, groups>>

\* A query fails, and the command with it.
Fail ==
    /\ phase = "range" \/ groups # <<>>
    /\ phase # "failed"
    /\ phase' = "failed"
    /\ UNCHANGED <<repository, current, was, changes, missing, unbatched, groups, found, memo,
                   answers>>

\* Somebody amends, undoes, moves or hides commits.
Change ==
    /\ changes < ChangeLimit
    /\ phase # "failed" /\ Lane <= Len(Paths)
    /\ current' \in Logs \ {current}
    /\ was' = [c \in Commits |-> was[c] \cup {current'[c]}]
    /\ changes' = changes + 1
    /\ UNCHANGED <<repository, phase, missing, unbatched, groups, found, memo, answers>>

Search == Begin \/ QueryRange \/ NextBatch \/ QueryGroup \/ Answer
Next == Search \/ Fail \/ Change

Spec == Init /\ [][Next]_vars
\* git-branchless answers every query it is asked, or fails.
FairSpec == Spec /\ WF_vars(Search)

-----------------------------------------------------------------------------
TypeOK ==
    /\ repository \in Repositories
    /\ current \in Logs
    /\ was \in [Commits -> SUBSET SUBSET Commits]
    /\ changes \in Nat
    /\ phase \in {"lane", "range", "search", "failed"}
    /\ missing \subseteq Commits /\ unbatched \subseteq missing
    /\ groups \in Seq(SUBSET Commits)
    /\ found \in [Commits -> SUBSET Commits]
    /\ DOMAIN memo \subseteq Commits /\ memo \in [DOMAIN memo -> SUBSET Commits]
    /\ answers \in Seq([Commits -> SUBSET Commits])
    /\ Len(answers) <= Len(Paths)

\* Whatever happens to the event log between queries, what a lane shows of a
\* commit is what one of its states during the command gives: no replacement is
\* invented for a commit that was ambiguous, hidden or unchanged throughout, and
\* none is overlooked because another commit's group was skipped (the range
\* query, the bisection of groups and the answers a session retains).
AnswersWereTrue ==
    \A l \in DOMAIN answers : \A c \in Interior(l) :
        answers[l][c] \in {Rewrite(c, versions) : versions \in was[c]}

\* Lanes that share a commit agree on its rewriting, though the event log changed
\* between them: unless the session had no room left when the first of them learnt it,
\* and so never retained it.
LanesAgree ==
    \A k, l \in DOMAIN answers : \A c \in Interior(k) \cap Interior(l) :
        answers[k][c] # answers[l][c] =>
            /\ c \notin DOMAIN memo
            /\ Cardinality(DOMAIN memo) >= MemoLimit

\* The search of every lane ends, although groups are pushed back as halves and
\* may be found to hold a target again and again.
SearchEnds == <>(phase = "failed" \/ Lane > Len(Paths))
=============================================================================
