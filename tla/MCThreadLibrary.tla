--------------------------- MODULE MCThreadLibrary ---------------------------
(* Small instances of ThreadLibrary for TLC. *)
EXTENDS ThreadLibraryProperties

\* Thread ids, and the order of init_threads.
Fib == 0
Col == 1
Sub == 2
MainOrder == <<Fib, Col, Sub>>

OnlyFib == {Fib}
OnlyCol == {Col}
OnlySub == {Sub}

Args(a) == [t \in {Fib, Col, Sub} |-> a[t + 1]]

\* ./main 1 4 4 3
Three == Args(<<4, 4, 3>>)

\* ./main 1 0 4 2: fibonacci of 0 never ends.
Endless == Args(<<0, 4, 2>>)

SmallNumbers == {-1, 2}
Digits == {-2, 1, 3}
=============================================================================
