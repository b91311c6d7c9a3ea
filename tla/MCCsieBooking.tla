---------------------------- MODULE MCCsieBooking ----------------------------
(* Small instances of CsieBooking for TLC. *)
EXTENDS CsieBookingProperties

\* Every user starts with one item of the first kind.
OneItem == [i \in Ids |-> <<1, 0, 0>>]

\* From one item, the first is accepted at the limit of 15 and the second goes
\* negative; from fifteen, the first goes over the limit and the second is accepted.
LimitCommands == {<<14, 0, 0>>, <<-14, 0, 0>>}

\* Three amounts whose sum does not fit an int of IntHalf = 32.
LargeCommands == {<<30, 31, 2>>, <<1, 0, 0>>}

IdLines      == [kind : {"id"}, id : Ids]
CommandLines == [kind : {"command"}, modi : Commands]

\* Everything a client can send.
EveryLine == AllLines

\* The lines a server needs to book.
BookingLines == IdLines \cup CommandLines
=============================================================================
