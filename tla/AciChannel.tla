----------------------------- MODULE AciChannel -----------------------------
(***************************************************************************)
(* What the nRF8001 transport promises its callers: two bounded first-in,  *)
(* first-out channels.  A command that was taken reaches the radio once    *)
(* and in order, an event clocked out of the radio reaches the application *)
(* once and in order, and nothing is dropped but by an explicit flush.     *)
(***************************************************************************)
EXTENDS Integers, Sequences

CONSTANTS Cmd, Evt, Capacity

VARIABLES cmds,       \* commands taken and not yet given to the radio
          evts,       \* events received and not yet given to the application
          delivered,  \* every command the radio got, in order
          got         \* every event the application got, in order

chanVars == << cmds, evts, delivered, got >>

Init ==
    /\ cmds = << >> /\ evts = << >>
    /\ delivered = << >> /\ got = << >>

Post(c) ==
    /\ Len(cmds) < Capacity
    /\ cmds' = Append(cmds, c)
    /\ UNCHANGED << evts, delivered, got >>

\* One exchange with the radio hands over the oldest command, or none.
HandOver ==
    \/ UNCHANGED << cmds, delivered >>
    \/ /\ cmds # << >>
       /\ cmds' = Tail(cmds)
       /\ delivered' = Append(delivered, Head(cmds))

Hold == UNCHANGED << evts, got >>

Arrive(e) ==
    /\ Len(evts) < Capacity
    /\ evts' = Append(evts, e)
    /\ got' = got

Take ==
    /\ evts # << >>
    /\ evts' = Tail(evts)
    /\ got' = Append(got, Head(evts))

ArriveAndTake(e) ==
    /\ Len(evts) < Capacity
    /\ evts' = Tail(Append(evts, e))
    /\ got' = Append(got, Head(Append(evts, e)))

\* A poll makes at most one exchange and hands out at most one event.
Poll ==
    /\ HandOver
    /\ Hold \/ Take \/ \E e \in Evt : Arrive(e) \/ ArriveAndTake(e)

Flush ==
    /\ cmds' = << >> /\ evts' = << >>
    /\ UNCHANGED << delivered, got >>

Next == (\E c \in Cmd : Post(c)) \/ Poll \/ Flush

Spec == Init /\ [][Next]_chanVars
=============================================================================
