------------------------------ MODULE MovieLists ------------------------------
(***************************************************************************)
(* Lists of filtered movies and what the two builds of the movie server do *)
(* to them.  An entry is what the arrays title[] and scores[] of           *)
(* filtered_movies hold at one index.  A range left..right counts from 0,  *)
(* as in the code.                                                         *)
(***************************************************************************)
EXTENDS Integers, Sequences, SequencesExt

\* secret counts how often add_secret has been applied to the title.
Entry == [title : Nat, score : Nat, secret : Nat]

Better(a, b) == a.score > b.score \/ (a.score = b.score /\ a.title < b.title)

Ordered(s) == IsSorted(s, LAMBDA a, b : ~Better(b, a))

\* The part left..right of s, and s with that part replaced by t.
Slice(s, left, right) == SubSeq(s, left + 1, right + 1)
Splice(s, left, right, t) ==
  [k \in DOMAIN s |-> IF k - 1 \in left..right THEN t[k - left] ELSE s[k]]

\* Mutant: the halves are put one behind the other.
Concatenate(l, r) == l \o r

\* With i entries of l and j of r placed, the next comes from l: of equal entries the one of
\* the right half is first.
TakesLeft(l, r, i, j) ==
  i < Len(l) /\ (j = Len(r) \/ Better(l[i + 1], r[j + 1]))

\* How many of the first k entries come from l, if i of the first k - 1 do.
Placed(l, r, k) == [i \in 0..Len(l) |-> IF TakesLeft(l, r, i, k - 1 - i) THEN i + 1 ELSE i]

Merge(l, r) ==
  LET L[k \in 0..(Len(l) + Len(r))] == IF k = 0 THEN 0 ELSE Placed(l, r, k)[L[k - 1]]
  IN  [k \in 1..(Len(l) + Len(r)) |-> IF L[k] > L[k - 1] THEN l[L[k]] ELSE r[k - L[k]]]

\* The first best entry from index i on.  Scores are not negative: the code asserts it.
ArgMax(s, i) ==
  CHOOSE k \in i..Len(s) :
    \A j \in i..Len(s) : Better(s[k], s[j]) \/ (~Better(s[j], s[k]) /\ k <= j)

\* One round of the library's sort: the best of the rest moves to i, and its title is
\* marked as secret.
Place(s, i) ==
  LET k == ArgMax(s, i)
  IN  [s EXCEPT ![k] = s[i], ![i] = [s[k] EXCEPT !.secret = @ + 1]]

Sort(s) ==
  LET F[i \in 0..Len(s)] == IF i = 0 THEN s ELSE Place(F[i - 1], i)
  IN  F[Len(s)]
=============================================================================
