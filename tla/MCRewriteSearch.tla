--------------------------- MODULE MCRewriteSearch ---------------------------
(***************************************************************************)
(* Two stacks that share commits, and the states an event log reaches when *)
(* at most two commits were rewritten, split, folded away or hidden.       *)
(***************************************************************************)
EXTENDS RewriteSearch

McCommits == 1 .. 7

\* Commits 6 and 7 are the heads, 5 a branch point below the first of them, or an
\* unselected commit.  The lanes share one, two or four commits above main: the session
\* has room for all there is to learn, runs out of it within the second lane, or has
\* none left for commit 5, which both lanes ask about.
McRepositories ==
    {[paths |-> <<<<1, 2, 3, 5, 6>>, <<1, 2, 4, 7>>>>, targets |-> t] :
        t \in {{}, {5, 6, 7}, {6, 7}}}
    \cup {[paths |-> <<<<1, 6>>, <<1, 4, 7>>>>, targets |-> {6, 7}],
          [paths |-> <<<<1, 2, 6>>, <<1, 2, 4, 7>>>>, targets |-> {6, 7}],
          [paths |-> <<<<1, 2, 3, 5, 6>>, <<1, 2, 3, 5, 7>>>>, targets |-> {6, 7}]}

\* What the events made of a commit: hidden, rewritten, or divergent.
Successors == {{}, {6}, {6, 7}}

\* Later versions have greater numbers, so the recursion ends.
CurrentAfter(succ) ==
    LET versions[c \in McCommits] ==
            IF c \in DOMAIN succ THEN UNION {versions[d] : d \in succ[c]} ELSE {c}
    IN  versions

Events ==
    UNION {[rewritten -> Successors] : rewritten \in
        {{}, {1}, {3}, {5}, {1, 3}}}

McLogs ==
    {CurrentAfter(e) : e \in
        {e \in Events : \A c \in DOMAIN e : \A d \in e[c] : c < d}}
=============================================================================
