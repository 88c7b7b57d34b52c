------------------------------- MODULE MCRf22 -------------------------------
(* Programs for Rf22 with a buffer of four bytes and fragments of two.     *)
EXTENDS Rf22

Duty(send, sends, hear, hears) ==
    [send |-> send, sends |-> sends, hear |-> hear, hears |-> hears]

\* One program sends nothing, one fragment and more than the buffer holds; one
\* sends two fragments; one receives packets of one and two fragments and one
\* that is too long; and one sends and receives.
MCDuties ==
    { Duty({0, 1, 2, 5}, 3, {}, 0), Duty({3}, 1, {}, 0),
      Duty({}, 0, {1, 4, 6}, 2), Duty({2}, 1, {1}, 1) }

\* Messages are sent, so that the second waits for the first.
MCShort == { Duty({1, 2}, 3, {}, 0) }
=============================================================================
