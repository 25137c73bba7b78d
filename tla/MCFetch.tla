------------------------------- MODULE MCFetch --------------------------------
(* An instance of Fetch for TLC: two days, two types, pages of two notices.   *)
(* Day 1 has three notices of the first type, on two pages, one of the second *)
(* with the objectId of another, and one that the query of day 1 returns but  *)
(* whose date is of day 2.  Day 2 has two without objectId.  One of day 1 is  *)
(* published while jobs run, and comes before those that they have by then.   *)
EXTENDS Fetch, TLC
CONSTANTS t1, t2

N(t, k, hasId, w, p) == [type |-> t, key |-> k, hasId |-> hasId, window |-> w, prefix |-> p]
MCNoticeTypes == <<t1, t2>>
MCEarlyNotices == {N(t1, 2, TRUE, 1, 1), N(t1, 3, TRUE, 1, 1), N(t2, 2, TRUE, 1, 1),
                   N(t2, 4, TRUE, 1, 2), N(t2, 5, FALSE, 2, 2), N(t2, 6, FALSE, 2, 2)}
MCNotices == MCEarlyNotices \cup {N(t1, 1, TRUE, 1, 1)}
=============================================================================
