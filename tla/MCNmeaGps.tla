----------------------------- MODULE MCNmeaGps -----------------------------
(* Small values for the constants of NmeaGps.                              *)
EXTENDS NmeaGps

CONSTANTS p1, p2

\* One satellite of one, two of two in either order, and two of two split
\* over sentences.
MCGsv == { [sats |-> << p1 >>, total |-> 1], [sats |-> << p2 >>, total |-> 2],
           [sats |-> << p1, p2 >>, total |-> 2] }
=============================================================================
