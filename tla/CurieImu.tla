------------------------------ MODULE CurieImu ------------------------------
(***************************************************************************)
(* The Curie IMU driver (src/curieimu/curieimu.cpp): requests go to the    *)
(* board over Firmata, and mraa calls the registered handler, in a thread  *)
(* of its own, for each message that comes back.  A request is answered    *)
(* while the caller waits on a condition variable; shocks are notified at  *)
(* any time once they are enabled and are put in a queue.  One object;     *)
(* readings are the numbers of the requests they answer.  Each call of a   *)
(* method of the queue of shocks, which no lock protects, is a step.       *)
(***************************************************************************)
EXTENDS Integers, Sequences, FiniteSets

CONSTANTS Threads,       \* threads of the program that use the object
          Fetching,      \* those that fetch shocks
          MaxUpdates,    \* bound: how many readings are asked for
          MaxEnables,    \* bound: how often shock detection is turned on or off
          MaxShocks      \* bound: how many shocks the board notices

ASSUME ThreadsAssumption == IsFiniteSet(Threads) /\ Fetching \subseteq Threads

VARIABLES handler,       \* the function registered with mraa
          awaiting,      \* awaitingReponse is this object; it is null at first
          results,       \* m_results; << >> before the first and after delete
          lock,          \* who holds m_responseLock
          shockData,     \* m_shockData
          accel,         \* m_accel
          pc, item,      \* per thread: where it is, and the shock it has read
          inbox, given,  \* messages under way, and the one the handler is at
          enabled,       \* the board notifies shocks
          dead,          \* the handler used the null pointer
          n, turns, shocks, fetched  \* requests, enables and shocks so far;
                         \*   the shocks getNextShock returned

imu == << handler, awaiting, results, lock, shockData, accel >>
board == << inbox, given, enabled >>
vars == << imu, pc, item, board, dead, n, turns, shocks, fetched >>

Init ==
    /\ handler = "none" /\ awaiting = FALSE /\ results = << >> /\ lock = "free"
    /\ shockData = << >> /\ accel = 0
    /\ pc = [t \in Threads |-> "idle"]
    /\ item = [t \in Threads |-> 0]
    /\ inbox = << >> /\ given = << >> /\ enabled = FALSE /\ dead = FALSE
    /\ n = 0 /\ turns = 0 /\ shocks = 0 /\ fetched = << >>

Goes(t, a, b) == ~dead /\ pc[t] = a /\ pc' = [pc EXCEPT ![t] = b]
Counts == UNCHANGED << item, dead, n, turns, shocks, fetched >>

-----------------------------------------------------------------------------
(* updateAccel; updateGyro, updateMotion and getTemperature differ from it *)
(* in the message and in where the reading is put.                         *)

Lock(t) ==
    /\ lock = "free" /\ lock' = t
    /\ \/ Goes(t, "idle", "stop") /\ n < MaxUpdates
       \/ Goes(t, "idle", "enable") /\ turns < MaxEnables
       \/ Goes(t, "woken", "copy")
    /\ Counts /\ UNCHANGED << handler, awaiting, results, shockData, accel, board >>

\* mraa_firmata_response_stop and mraa_firmata_response
ResponseStop(t) ==
    /\ Goes(t, "stop", "register") \/ Goes(t, "enable", "reenable")
    /\ handler' = "none"
    /\ Counts
    /\ UNCHANGED << awaiting, results, lock, shockData, accel, board >>

Response(t) ==
    /\ \/ Goes(t, "register", "write") /\ handler' = "handleSyncResponse"
       \/ Goes(t, "reenable", "rewrite") /\ handler' = "handleAsyncResponses"
    /\ Counts
    /\ UNCHANGED << awaiting, results, lock, shockData, accel, board >>

WriteSysex(t) ==
    /\ Goes(t, "write", "await")
    /\ n' = n + 1
    /\ inbox' = Append(inbox, << "accel", n + 1 >>)
    /\ UNCHANGED << imu, item, given, enabled, dead, turns, shocks, fetched >>

\* waitForResponse
Await(t) ==
    /\ Goes(t, "await", "wait") /\ awaiting' = TRUE
    /\ Counts
    /\ UNCHANGED << handler, results, lock, shockData, accel, board >>

CondWait(t) ==
    /\ Goes(t, "wait", "waiting") /\ lock' = "free"
    /\ Counts
    /\ UNCHANGED << handler, awaiting, results, shockData, accel, board >>

\* pthread_cond_wait may return although nobody has signalled, and no condition is
\* tested after it.
SpuriousWakeup(t) ==
    /\ Goes(t, "waiting", "woken")
    /\ Counts /\ UNCHANGED << imu, board >>

\* The reading; that of a shock or of freed memory is no reading.
Copy(t) ==
    /\ Goes(t, "copy", "delete")
    /\ accel' = IF results # << >> /\ results[1] = "accel" THEN results[2] ELSE -1
    /\ Counts
    /\ UNCHANGED << handler, awaiting, results, lock, shockData, board >>

Delete(t) ==
    /\ Goes(t, "delete", "idle")
    /\ results' = << >> /\ lock' = "free"
    /\ Counts
    /\ UNCHANGED << handler, awaiting, shockData, accel, board >>

-----------------------------------------------------------------------------
(* enableShockDetection and getNextShock; steps and taps are alike.        *)

WriteEnable(t) ==
    /\ Goes(t, "rewrite", "reawait")
    /\ turns' = turns + 1 /\ enabled' \in BOOLEAN
    /\ UNCHANGED << imu, item, inbox, given, dead, n, shocks, fetched >>

AwaitEvents(t) ==
    /\ Goes(t, "reawait", "idle")
    /\ awaiting' = TRUE /\ lock' = "free"
    /\ Counts
    /\ UNCHANGED << handler, results, shockData, accel, board >>

\* isShockDetected, or the test of getNextShock; no lock is taken.
isShockDetected(t) ==
    /\ t \in Fetching /\ shockData # << >>
    /\ Goes(t, "idle", "front")
    /\ Counts /\ UNCHANGED << imu, board >>

\* getNextShock reads the first shock, if none has taken it.
Front(t) ==
    /\ Goes(t, "front", "pop")
    /\ item' = [item EXCEPT ![t] = IF shockData = << >> THEN 0 ELSE Head(shockData)]
    /\ UNCHANGED << imu, board, dead, n, turns, shocks, fetched >>

\* A slip: the shock that was read stays in the queue.
Mut_front_only(t) ==
    /\ Goes(t, "pop", "idle")
    /\ fetched' = Append(fetched, item[t])
    /\ UNCHANGED << imu, item, board, dead, n, turns, shocks >>

\* getNextShock takes it out and returns.
Pop(t) ==
    /\ Goes(t, "pop", "idle")
    /\ fetched' = Append(fetched, item[t])
    /\ shockData' = IF shockData = << >> THEN << >> ELSE Tail(shockData)
    /\ UNCHANGED << handler, awaiting, results, lock, accel >>
    /\ UNCHANGED << item, board, dead, n, turns, shocks >>

-----------------------------------------------------------------------------
(* mraa's thread and the board.                                            *)

Shock ==
    /\ enabled /\ shocks < MaxShocks
    /\ shocks' = shocks + 1 /\ inbox' = Append(inbox, << "shock", shocks + 1 >>)
    /\ UNCHANGED << imu, pc, item, given, enabled, dead, n, turns, fetched >>

\* The handler is called with the next message: setResults on the object.
\* Without a handler the message is dropped.
setResults ==
    /\ ~dead /\ given = << >> /\ inbox # << >>
    /\ inbox' = Tail(inbox)
    /\ given' = IF handler = "none" THEN << >> ELSE << handler, Head(inbox) >>
    /\ dead' = (handler # "none" /\ ~awaiting)
    /\ results' = IF handler # "none" /\ awaiting THEN Head(inbox) ELSE results
    /\ UNCHANGED << handler, awaiting, lock, shockData, accel, pc, enabled >>
    /\ UNCHANGED << item, n, turns, shocks, fetched >>

\* handleSyncResponse wakes whoever waits.
proceed ==
    /\ ~dead /\ given # << >> /\ given[1] = "handleSyncResponse"
    /\ given' = << >>
    /\ pc' = [t \in Threads |-> IF pc[t] = "waiting" THEN "woken" ELSE pc[t]]
    /\ Counts /\ UNCHANGED << imu, inbox, enabled >>

\* handleAsyncResponses puts a shock in the queue.
processResponse ==
    /\ ~dead /\ given # << >> /\ given[1] = "handleAsyncResponses"
    /\ given' = << >>
    /\ shockData' = IF results # << >> /\ results[1] = "shock"
                    THEN Append(shockData, results[2]) ELSE shockData
    /\ Counts
    /\ UNCHANGED << handler, awaiting, results, lock, accel, pc, inbox, enabled >>

Thread(t) ==
    \/ Lock(t) \/ ResponseStop(t) \/ Response(t) \/ WriteSysex(t) \/ Await(t)
    \/ CondWait(t) \/ Copy(t) \/ Delete(t)
    \/ WriteEnable(t) \/ AwaitEvents(t)
    \/ isShockDetected(t) \/ Front(t) \/ Pop(t)

Handler == setResults \/ proceed \/ processResponse

Next == Shock \/ Handler \/ \E t \in Threads : Thread(t) \/ SpuriousWakeup(t)

Spec == Init /\ [][Next]_vars

\* Threads that can go on do, mraa delivers what comes, and a lock that is
\* free again and again is given to each who wants it.
FairSpec == Spec /\ WF_vars(Handler) /\ \A t \in Threads : SF_vars(Thread(t))

-----------------------------------------------------------------------------
(* Properties. *)

\* If one thread fetches them, shocks are fetched in the order they happened and
\* none of them twice, also when detection is turned off and on, and readings are
\* asked for by others, while messages are under way.
ShocksOnce ==
    (\A t, u \in Fetching : t = u) =>
        LET s == fetched \o shockData
        IN \A i, j \in DOMAIN s : i < j => s[i] < s[j]

\* "Proceed with original function call now that response from Firmata has
\* been received" (curieimu.hpp:258-259): who waits for a response goes on,
\* unless the null pointer has ended the program.
UpdateReturns == \A t \in Threads : pc[t] = "await" ~> (pc[t] = "idle" \/ dead)
=============================================================================
