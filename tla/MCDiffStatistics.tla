-------------------------- MODULE MCDiffStatistics --------------------------
(* Three commits, the third of which reverts the second, and another root. *)
EXTENDS DiffStatistics, TLC

CONSTANTS e1, e2, e3, c1, a1, k1, k2, k3

MCTreeOf ==
    (NoCommit :> "empty") @@ (1 :> "one") @@ (2 :> "two") @@ (3 :> "one") @@ (4 :> "wide")
MCPathsOf ==
    (<<"one", "two">> :> {"x"}) @@ (<<"two", "one">> :> {"x"})
        @@ (<<"empty", "one">> :> {"y"}) @@ (<<"empty", "wide">> :> {"x", "y", "z"})

Point(oid) == [oid |-> oid, main_history |-> FALSE]
MainPoint(oid) == [oid |-> oid, main_history |-> TRUE]
Stack == [base |-> 1, points |-> <<Point(3), Point(2)>>]
Revert == [base |-> 1, points |-> <<Point(3), MainPoint(2)>>]
Root(oid) == [base |-> NoCommit, points |-> <<Point(oid)>>]
MCAnalyses ==
    {[lanes |-> {Stack}, asks |-> <<>>],
     [lanes |-> {Revert, Root(1)}, asks |-> <<<<"bases", k3>>>>],
     [lanes |-> {Root(4)}, asks |-> <<<<"metadata", 4>>, <<"distances", k2>>>>]}

MCFirstWorlds ==
    {[executable |-> e1, config |-> c1, attributes |-> [p \in Paths |-> a1]]}

\* What two commands under two executables leave behind.
MCValue(s, t, used) ==
    LET fingerprint == [configuration |-> c1, attributes |-> [p \in MCPathsOf[t] |-> a1]]
    IN  [stat |-> [pair |-> t, scope |-> s, fingerprint |-> fingerprint],
         fingerprint |-> fingerprint, used |-> used]
Older ==
    [bases |-> {k1, k2}, distances |-> {k1}, metadata |-> {1, 2},
     diff |-> [trees |-> {1, 2}, clock |-> 4,
               scopes |-> (e1 :> [used |-> 2, values |->
                              (<<"one", "two">> :> MCValue(e1, <<"one", "two">>, 2))])
                       @@ (e2 :> [used |-> 4, values |->
                              (<<"two", "one">> :> MCValue(e2, <<"two", "one">>, 4))])],
     recency |-> (k2 :> 1) @@ (k1 :> 3) @@ (2 :> 4) @@ (1 :> 6), clock |-> 6]
MCStoredFacts == {Miss, Older}
=============================================================================
