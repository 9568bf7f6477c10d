---------------------------- MODULE MCAuditFeed ----------------------------
(* Instances of AuditFeed for TLC: the dashboards' streams over an empty    *)
(* log and, in other behaviours, the administrators' walks over one that    *)
(* has rows enough for a second page.                                       *)
EXTENDS AuditFeed

CONSTANTS StreamRows,   \* rows written under the streams
          Logged        \* rows in the log before the walks

(* The first rows were written one after the other: a state Spec reaches.   *)
WalkInit ==
    /\ row = [r \in Rows |-> IF r <= Logged THEN [st |-> "saved", ts |-> r, id |-> r]
                                            ELSE [st |-> "none", ts |-> 0, id |-> 0]]
    /\ saved = [r \in 1..Logged |-> r]
    /\ clock = Logged + 1 /\ nextId = Logged + 1
    /\ active = Cap /\ others = 0 /\ lost = Cap
    /\ tab = [t \in Tabs |-> [NoTab EXCEPT !.st = "closed"]]
    /\ walk = [a \in Auditors |-> NoWalk]

MCInit == With(StreamRows, Tabs, {}, 0) \/ WalkInit
MCSpec == MCInit /\ [][Next]_vars
MCFairSpec == MCSpec /\ \A t \in Tabs : StreamRuns(t)
=============================================================================
