------------------------------ MODULE Recommender ------------------------------
(***************************************************************************)
(* What the movie server promises: each request is answered once, by the   *)
(* titles of the movies that match it, best score first, titles in         *)
(* alphabetical order among equal scores.                                  *)
(***************************************************************************)
EXTENDS Integers, Sequences, SequencesExt

CONSTANTS
  Requests,  \* the search requests
  Title,     \* per movie of the table: its place in alphabetical order
  None       \* no answer yet

VARIABLES
  score,     \* per request: how well each movie that matches its keyword fits its profile
  answer     \* per request: the titles printed

Ranked(r, m, n) ==
  \/ score[r][m] > score[r][n]
  \/ score[r][m] = score[r][n] /\ Title[m] <= Title[n]

RightAnswer(r, titles) ==
  \E f \in SetToSeqs(DOMAIN score[r]) :
    /\ IsSorted(f, LAMBDA m, n : Ranked(r, m, n))
    /\ titles = [k \in DOMAIN f |-> Title[f[k]]]

RecommenderInit == answer = [r \in Requests |-> None]

Answer(r) ==
  /\ answer[r] = None /\ answer'[r] # None
  /\ \A q \in Requests \ {r} : answer'[q] = answer[q]
  /\ RightAnswer(r, answer'[r])
  /\ UNCHANGED score

RecommenderSpec ==
  RecommenderInit /\ [][\E r \in Requests : Answer(r)]_<<score, answer>>
=============================================================================
