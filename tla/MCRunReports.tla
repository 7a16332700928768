---------------------------- MODULE MCRunReports ----------------------------
(***************************************************************************)
(* Job lists in any order, and pairs of dependency documents, for the      *)
(* reports of a run.                                                       *)
(***************************************************************************)
EXTENDS RunReports, TLC
NoDoc == [format |-> "missing", packages |-> <<>>]
P(n, c, v) == [name |-> [id |-> n, upper |-> c], ver |-> v]
Orders(n) == {s \in [1..n -> 1..n] : \A i, j \in 1..n : s[i] = s[j] => i = j}
JobGraphs(n) == {[jobs |-> s, next |-> f, pre |-> NoDoc, post |-> NoDoc] :
                s \in Orders(n), f \in [1..n -> 0..(n + 1)]}
Packages == {P(1, FALSE, 1), P(1, TRUE, 2), P(1, TRUE, 1), P(1, FALSE, 3), P(2, FALSE, 1), P(0, FALSE, 1), P(2, FALSE, 0)}
Docs == {NoDoc} \cup {[format |-> "other", packages |-> <<P(1, FALSE, 1)>>]}
   \cup {[format |-> "spdx", packages |-> <<>>]}
   \cup {[format |-> "cyclonedx", packages |-> <<p, q, r>>] : p, q, r \in Packages}
   \cup {[format |-> "spdx", packages |-> <<p, q>>] : p, q \in Packages}
SomeDocs == {NoDoc} \cup {[format |-> "spdx", packages |-> <<P(1, FALSE, 1), P(2, FALSE, 1)>>],
             [format |-> "spdx", packages |-> <<P(1, FALSE, 2), P(1, FALSE, 1), P(2, FALSE, 2)>>],
             [format |-> "cyclonedx", packages |-> <<P(1, TRUE, 2), P(1, FALSE, 3), P(2, TRUE, 1)>>]}
SBOMs == {[jobs |-> <<1>>, next |-> <<0>>, pre |-> a, post |-> b] : a \in SomeDocs, b \in Docs} \cup
         {[jobs |-> <<1>>, next |-> <<0>>, pre |-> a, post |-> b] : a \in Docs, b \in SomeDocs}
MCReports == <<JobGraphs(1), JobGraphs(2), JobGraphs(3), SBOMs, {g \in JobGraphs(4) : g.jobs \in {<<4,3,2,1>>, <<2,4,1,3>>}}>>
=============================================================================
