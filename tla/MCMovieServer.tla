---------------------------- MODULE MCMovieServer ----------------------------
(* Small instances of MovieServer for TLC. *)
EXTENDS MovieServerProperties

\* Tables of movies; in the longer one two pairs have the same title.
TwoTitles  == <<2, 1>>
FiveTitles == <<2, 1, 2, 3, 1>>

BothBuilds == {"THREAD", "PROCESS"}
OnlyThread == {"THREAD"}

\* The first request matches four movies and scores in every way, beside a short one.
AnyScores == {<<f, [m \in {3} |-> 1]>> : f \in UNION {[ms -> 0..1] : ms \in SUBSET (1..4)}}

\* Two longer requests beside each other.
TwoLong == {<<[m \in Movies |-> m % 2], [m \in 4..5 |-> 1]>>}

Requested == AnyScores \cup TwoLong

\* Three requests, each for both movies.
ThreeRequests == {<<<<1, 1>>, <<2, 0>>, <<0, 1>>>>}
=============================================================================
