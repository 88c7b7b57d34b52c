---------------------------- MODULE CurieImu_proofs ----------------------------
(***************************************************************************)
(* Proofs about CurieImu, for any number of threads and without the bounds *)
(* of the model: shocks are fetched in order and once, if one of the       *)
(* threads fetches them.                                                   *)
(***************************************************************************)
EXTENDS CurieImu, SequenceTheorems, TLAPS

Message == {"accel", "shock"} \X Nat
IsShock(m) == m[1] = "shock"

TypesOK ==
    /\ n \in Nat /\ shocks \in Nat
    /\ fetched \in Seq(Nat) /\ shockData \in Seq(Nat)
    /\ inbox \in Seq(Message)
    /\ given # << >> => given[2] \in Message
    /\ results \in {<< >>} \cup Message

-----------------------------------------------------------------------------
(* ShocksOnce: a shock is older than all that are behind it, in the queue, *)
(* in the handler's hands and on the way.                                  *)

Queue == fetched \o shockData

Ordered(s) == \A i, j \in DOMAIN s : i < j => s[i] < s[j]
Below(s, x) == \A i \in DOMAIN s : s[i] < x

\* What is on the way is younger than what is in the queue.
InboxInv ==
    /\ \A i \in DOMAIN inbox :
         IsShock(inbox[i]) => Below(Queue, inbox[i][2]) /\ inbox[i][2] <= shocks
    /\ \A i, j \in DOMAIN inbox :
         i < j /\ IsShock(inbox[i]) /\ IsShock(inbox[j]) => inbox[i][2] < inbox[j][2]

\* The handler's message lies between, and results is that message unless it
\* has been deleted.
GivenInv ==
    given # << >> /\ ~dead =>
        /\ results \in {<< >>, given[2]}
        /\ IsShock(given[2]) =>
             /\ Below(Queue, given[2][2]) /\ given[2][2] <= shocks
             /\ \A i \in DOMAIN inbox : IsShock(inbox[i]) => given[2][2] < inbox[i][2]

OrderInv ==
    /\ TypesOK
    /\ Ordered(Queue) /\ Below(Queue, shocks + 1)
    /\ InboxInv
    /\ GivenInv

\* Between its test and the pop, the one thread that fetches finds the queue as
\* it has read it.
OneFetches == \A t, u \in Fetching : t = u

FetchInv ==
    /\ DOMAIN pc = Threads /\ DOMAIN item = Threads
    /\ \A t \in Threads :
         /\ pc[t] \in {"front", "pop"} => t \in Fetching /\ shockData # << >>
         /\ pc[t] = "pop" => item[t] = Head(shockData)

LEMMA Reassociated ==
    \A s, t, u \in Seq(Nat) : (s \o t) \o u = s \o (t \o u)
BY SMTT(20)

LEMMA QueueType == TypesOK => Queue \in Seq(Nat)
BY DEF TypesOK, Queue

\* A younger element at the end keeps a sequence in order.
LEMMA OrderedAppend ==
    ASSUME NEW s \in Seq(Nat), NEW x \in Nat, Ordered(s), Below(s, x)
    PROVE  /\ Ordered(Append(s, x))
           /\ \A y \in Nat : x < y => Below(Append(s, x), y)
<1>1. /\ Append(s, x) \in Seq(Nat) /\ Len(Append(s, x)) = Len(s) + 1
      /\ \A i \in 1 .. Len(s) : Append(s, x)[i] = s[i]
      /\ Append(s, x)[Len(s) + 1] = x
    BY AppendProperties
<1>2. DOMAIN s = 1 .. Len(s) /\ DOMAIN Append(s, x) = 1 .. Len(s) + 1 /\ Len(s) \in Nat
    BY <1>1
<1>3. \A i \in 1 .. Len(s) : s[i] \in Nat
    BY ElementOfSeq
<1>4. Ordered(Append(s, x))
    <2> SUFFICES ASSUME NEW i \in 1 .. Len(s) + 1, NEW j \in 1 .. Len(s) + 1, i < j
                 PROVE  Append(s, x)[i] < Append(s, x)[j]
        BY <1>2 DEF Ordered
    <2>1. i \in 1 .. Len(s)
        BY <1>2
    <2>2. CASE j \in 1 .. Len(s)
        BY <1>1, <1>2, <2>1, <2>2 DEF Ordered
    <2>3. CASE j = Len(s) + 1
        BY <1>1, <1>2, <2>1, <2>3 DEF Below
    <2> QED
        BY <1>2, <2>2, <2>3
<1>5. ASSUME NEW y \in Nat, x < y PROVE Below(Append(s, x), y)
    <2> SUFFICES ASSUME NEW i \in 1 .. Len(s) + 1 PROVE Append(s, x)[i] < y
        BY <1>2 DEF Below
    <2>1. CASE i \in 1 .. Len(s)
        BY <1>1, <1>2, <1>3, <1>5, <2>1 DEF Below
    <2>2. CASE i = Len(s) + 1
        BY <1>1, <1>5, <2>2
    <2> QED
        BY <1>2, <2>1, <2>2
<1> QED
    BY <1>4, <1>5

LEMMA InitOrder == Init => OrderInv
<1> SUFFICES ASSUME Init PROVE OrderInv
    OBVIOUS
<1>1. TypesOK
    BY DEF Init, TypesOK
<1>2. Queue = << >>
    BY DEF Init, Queue
<1> QED
    BY <1>1, <1>2 DEF Init, OrderInv, Ordered, Below, InboxInv, GivenInv

\* What a step of a thread leaves alone, unless it takes a shock or sends.
core == << fetched, shockData, inbox, given, shocks, dead >>

LEMMA CoreOrder ==
    ASSUME OrderInv, UNCHANGED core, n' \in Nat, results' \in {results, << >>}
    PROVE  OrderInv'
<1>1. Queue' = Queue
    BY DEF Queue, core
<1>2. TypesOK'
    BY DEF OrderInv, TypesOK, core
<1>3. InboxInv'
    BY <1>1 DEF OrderInv, InboxInv, core
<1>4. GivenInv'
    BY <1>1 DEF OrderInv, GivenInv, core
<1> QED
    BY <1>1, <1>2, <1>3, <1>4 DEF OrderInv, core

\* A message is added; if it is a shock it is the youngest.
LEMMA SendOrder ==
    ASSUME OrderInv, NEW m \in Message, inbox' = Append(inbox, m),
           IF IsShock(m) THEN shocks' = shocks + 1 /\ m[2] = shocks + 1
                         ELSE UNCHANGED shocks,
           n' \in Nat, UNCHANGED << fetched, shockData, given, results, dead >>
    PROVE  OrderInv'
<1>1. Queue' = Queue /\ Queue \in Seq(Nat)
    BY QueueType DEF OrderInv, Queue
<1>2. shocks \in Nat /\ shocks' \in Nat /\ shocks <= shocks'
    BY DEF OrderInv, TypesOK
<1>3. inbox \in Seq(Message)
    BY DEF OrderInv, TypesOK
<1>4. /\ inbox' \in Seq(Message) /\ Len(inbox') = Len(inbox) + 1 /\ Len(inbox) \in Nat
      /\ DOMAIN inbox = 1 .. Len(inbox) /\ DOMAIN inbox' = 1 .. Len(inbox) + 1
      /\ \A i \in 1 .. Len(inbox) : inbox'[i] = inbox[i]
      /\ inbox'[Len(inbox) + 1] = m
    BY <1>3, AppendProperties
<1>5. \A i \in 1 .. Len(inbox) : inbox[i] \in Message
    BY <1>3, ElementOfSeq
<1>6. TypesOK'
    BY <1>2, <1>4 DEF OrderInv, TypesOK
<1>7. \A i \in DOMAIN Queue : Queue[i] \in Nat
    BY <1>1, ElementOfSeq
<1>8. Below(Queue, shocks' + 1)
    BY <1>2, <1>7 DEF OrderInv, Below
<1>9. InboxInv'
    <2>1. ASSUME NEW i \in DOMAIN inbox', IsShock(inbox'[i])
          PROVE  Below(Queue, inbox'[i][2]) /\ inbox'[i][2] <= shocks'
        <3>1. CASE i \in 1 .. Len(inbox)
            BY <1>2, <1>4, <1>5, <2>1, <3>1 DEF OrderInv, InboxInv, Message
        <3>2. CASE i = Len(inbox) + 1
            BY <1>2, <1>4, <2>1, <3>2 DEF OrderInv
        <3> QED
            BY <1>4, <3>1, <3>2
    <2>2. ASSUME NEW i \in DOMAIN inbox', NEW j \in DOMAIN inbox', i < j,
                 IsShock(inbox'[i]), IsShock(inbox'[j])
          PROVE  inbox'[i][2] < inbox'[j][2]
        <3>1. i \in 1 .. Len(inbox) /\ inbox[i][2] \in Nat /\ inbox[i][2] <= shocks
            BY <1>4, <1>5, <2>2 DEF OrderInv, InboxInv, Message
        <3>2. CASE j \in 1 .. Len(inbox)
            BY <1>4, <2>2, <3>1, <3>2 DEF OrderInv, InboxInv
        <3>3. CASE j = Len(inbox) + 1
            BY <1>2, <1>4, <2>2, <3>1, <3>3
        <3> QED
            BY <1>4, <3>2, <3>3
    <2> QED
        BY <1>1, <2>1, <2>2 DEF InboxInv, IsShock
<1>10. GivenInv'
    <2> SUFFICES ASSUME given # << >>, ~dead, IsShock(given[2])
                 PROVE  /\ Below(Queue, given[2][2]) /\ given[2][2] <= shocks'
                        /\ \A i \in DOMAIN inbox' :
                             IsShock(inbox'[i]) => given[2][2] < inbox'[i][2]
        BY <1>1 DEF OrderInv, GivenInv, IsShock
    <2>1. /\ Below(Queue, given[2][2]) /\ given[2][2] \in Nat /\ given[2][2] <= shocks
          /\ \A i \in DOMAIN inbox : IsShock(inbox[i]) => given[2][2] < inbox[i][2]
        BY DEF OrderInv, GivenInv, TypesOK, Message
    <2>2. ASSUME NEW i \in DOMAIN inbox', IsShock(inbox'[i])
          PROVE  given[2][2] < inbox'[i][2]
        <3>1. CASE i \in 1 .. Len(inbox)
            BY <1>4, <2>1, <2>2, <3>1
        <3>2. CASE i = Len(inbox) + 1
            BY <1>2, <1>4, <2>1, <2>2, <3>2
        <3> QED
            BY <1>4, <3>1, <3>2
    <2> QED
        BY <1>2, <2>1, <2>2
<1> QED
    BY <1>1, <1>6, <1>8, <1>9, <1>10 DEF OrderInv

\* The handler is given the first message.
LEMMA ReceiveOrder == ASSUME OrderInv, setResults PROVE OrderInv'
<1>1. Queue' = Queue /\ n' = n /\ UNCHANGED << fetched, shockData, shocks >>
    BY DEF setResults, Queue
<1>2. inbox \in Seq(Message) /\ inbox # << >> /\ inbox' = Tail(inbox)
    BY DEF OrderInv, TypesOK, setResults
<1>3. /\ Head(inbox) \in Message /\ Head(inbox) = inbox[1] /\ inbox' \in Seq(Message)
      /\ Len(inbox) \in Nat \ {0} /\ 1 \in DOMAIN inbox /\ DOMAIN inbox = 1 .. Len(inbox)
      /\ DOMAIN inbox' = 1 .. Len(inbox) - 1
      /\ \A i \in DOMAIN inbox' : inbox'[i] = inbox[i + 1] /\ i + 1 \in DOMAIN inbox
    BY <1>2
<1>4. TypesOK'
    BY <1>1, <1>3 DEF OrderInv, TypesOK, setResults
<1>5. InboxInv'
    BY <1>1, <1>3 DEF OrderInv, InboxInv
<1>6. GivenInv'
    <2> SUFFICES ASSUME given' # << >>, ~dead' PROVE
            /\ results' \in {<< >>, given'[2]}
            /\ IsShock(given'[2]) =>
                 /\ Below(Queue, given'[2][2]) /\ given'[2][2] <= shocks
                 /\ \A i \in DOMAIN inbox' : IsShock(inbox'[i]) => given'[2][2] < inbox'[i][2]
        BY <1>1 DEF GivenInv, IsShock
    <2>1. given'[2] = inbox[1] /\ results' = inbox[1]
        BY <1>3 DEF setResults
    <2> QED
        BY <1>3, <2>1 DEF OrderInv, InboxInv
<1> QED
    BY <1>1, <1>4, <1>5, <1>6 DEF OrderInv

\* handleAsyncResponses puts the shock of its message behind the others.
LEMMA ProcessOrder == ASSUME OrderInv, processResponse PROVE OrderInv'
<1>1. CASE results # << >> /\ IsShock(results)
    <2> DEFINE x == results[2]
    <2>1. x \in Nat /\ given # << >> /\ results = given[2]
        BY <1>1 DEF OrderInv, TypesOK, GivenInv, Message, processResponse
    <2>2. Below(Queue, x) /\ x <= shocks /\ shocks \in Nat
          /\ \A i \in DOMAIN inbox : IsShock(inbox[i]) => x < inbox[i][2]
        BY <1>1, <2>1 DEF OrderInv, TypesOK, GivenInv, processResponse
    <2> HIDE DEF x
    <2>3. fetched \in Seq(Nat) /\ shockData \in Seq(Nat) /\ Queue \in Seq(Nat)
        BY QueueType DEF OrderInv, TypesOK
    <2>4. shockData' = Append(shockData, x) /\ fetched' = fetched
        BY <1>1 DEF processResponse, IsShock, Counts, x
    <2>5. Queue' = Append(Queue, x)
        <3>1. << x >> \in Seq(Nat)
            BY <2>1
        <3>2. Append(shockData, x) = shockData \o << x >> /\ Append(Queue, x) = Queue \o << x >>
            BY <2>1, <2>3, AppendIsConcat
        <3>3. (fetched \o shockData) \o << x >> = fetched \o (shockData \o << x >>)
            BY <2>3, <3>1, Reassociated
        <3>4. Queue' = fetched \o (shockData \o << x >>)
            BY <2>4, <3>2 DEF Queue
        <3>5. Append(Queue, x) = (fetched \o shockData) \o << x >>
            BY <3>2 DEF Queue
        <3> QED
            BY <3>3, <3>4, <3>5
    <2>6. Ordered(Queue') /\ \A y \in Nat : x < y => Below(Queue', y)
        BY <2>1, <2>2, <2>3, <2>5, OrderedAppend DEF OrderInv
    <2>7. UNCHANGED << inbox, shocks, n, results, dead >> /\ given' = << >>
        BY DEF processResponse, Counts
    <2>8. TypesOK'
        BY <2>1, <2>3, <2>4, <2>7 DEF OrderInv, TypesOK
    <2>9. \A i \in DOMAIN inbox : inbox[i] \in Message
        BY ElementOfSeq DEF OrderInv, TypesOK
    <2>10. InboxInv'
        BY <2>1, <2>2, <2>6, <2>7, <2>9 DEF OrderInv, InboxInv, Message, IsShock
    <2>11. GivenInv'
        BY <2>7 DEF GivenInv
    <2> QED
        BY <2>1, <2>2, <2>6, <2>7, <2>8, <2>10, <2>11 DEF OrderInv
<1>2. CASE ~(results # << >> /\ IsShock(results))
    <2>1. UNCHANGED << fetched, shockData, inbox, shocks, n, results, dead >> /\ given' = << >>
        BY <1>2 DEF processResponse, Counts, IsShock
    <2>2. Queue' = Queue
        BY <2>1 DEF Queue
    <2>3. TypesOK' /\ InboxInv' /\ GivenInv'
        BY <2>1, <2>2 DEF OrderInv, TypesOK, InboxInv, GivenInv, IsShock
    <2> QED
        BY <2>1, <2>2, <2>3 DEF OrderInv
<1> QED
    BY <1>1, <1>2

\* getNextShock moves the first shock of the queue to those that were fetched.
LEMMA FetchOrder == ASSUME OrderInv, FetchInv, NEW t \in Threads, Pop(t) PROVE OrderInv'
<1>1. fetched \in Seq(Nat) /\ shockData \in Seq(Nat) /\ shockData # << >>
    BY DEF OrderInv, TypesOK, FetchInv, Pop, Goes
<1>2. Head(shockData) \in Nat /\ Tail(shockData) \in Seq(Nat)
    BY <1>1
<1>3. fetched' = Append(fetched, Head(shockData)) /\ shockData' = Tail(shockData)
    BY <1>1 DEF Pop, Goes, FetchInv
<1>4. fetched' \in Seq(Nat) /\ shockData' \in Seq(Nat)
    BY <1>1, <1>2, <1>3
<1>5. Queue' = Queue
    <2>1. << Head(shockData) >> \in Seq(Nat)
        BY <1>2
    <2>2. shockData = << Head(shockData) >> \o Tail(shockData)
        BY <1>1, <1>2
    <2>3. fetched' = fetched \o << Head(shockData) >>
        BY <1>1, <1>2, <1>3, AppendIsConcat
    <2>4. (fetched \o << Head(shockData) >>) \o Tail(shockData)
            = fetched \o (<< Head(shockData) >> \o Tail(shockData))
        BY <1>1, <1>2, <2>1, Reassociated
    <2> QED
        BY <1>3, <2>2, <2>3, <2>4 DEF Queue
<1>6. UNCHANGED << inbox, given, results, shocks, n, dead >>
    BY DEF Pop, board, imu
<1>7. TypesOK' /\ InboxInv' /\ GivenInv'
    BY <1>4, <1>5, <1>6 DEF OrderInv, TypesOK, InboxInv, GivenInv, IsShock
<1> QED
    BY <1>5, <1>6, <1>7 DEF OrderInv

LEMMA NextOrder == OrderInv /\ FetchInv /\ [Next]_vars => OrderInv'
<1> SUFFICES ASSUME OrderInv, FetchInv, [Next]_vars PROVE OrderInv'
    OBVIOUS
<1>0. n \in Nat /\ shocks \in Nat
    BY DEF OrderInv, TypesOK
<1> USE DEF core, board, imu, Counts
<1>1. CASE Shock
    <2>1. << "shock", shocks + 1 >> \in Message /\ IsShock(<< "shock", shocks + 1 >>)
        BY <1>0 DEF Message, IsShock
    <2> QED
        BY <1>0, <1>1, <2>1, SendOrder DEF Shock
<1>2. CASE setResults
    BY <1>2, ReceiveOrder
<1>3. CASE proceed
    <2>1. UNCHANGED << fetched, shockData, inbox, shocks, n, results, dead >> /\ given' = << >>
        BY <1>3 DEF proceed
    <2>2. Queue' = Queue
        BY <2>1 DEF Queue
    <2>3. TypesOK' /\ InboxInv' /\ GivenInv'
        BY <2>1, <2>2 DEF OrderInv, TypesOK, InboxInv, GivenInv, IsShock
    <2> QED
        BY <2>1, <2>2, <2>3 DEF OrderInv
<1>4. CASE processResponse
    BY <1>4, ProcessOrder
<1>5. ASSUME NEW t \in Threads, Thread(t) PROVE OrderInv'
    <2>1. CASE WriteSysex(t)
        <3>1. << "accel", n + 1 >> \in Message /\ ~IsShock(<< "accel", n + 1 >>) /\ n + 1 \in Nat
            BY <1>0 DEF Message, IsShock
        <3> QED
            BY <2>1, <3>1, SendOrder DEF WriteSysex
    <2>2. CASE Pop(t)
        BY <2>2, FetchOrder
    <2>3. CASE Delete(t)
        BY <1>0, <2>3, CoreOrder DEF Delete
    <2>4. CASE Lock(t) \/ ResponseStop(t) \/ Response(t) \/ Await(t) \/ CondWait(t) \/ Copy(t)
        BY <1>0, <2>4, CoreOrder DEF Lock, ResponseStop, Response, Await, CondWait, Copy
    <2>5. CASE WriteEnable(t) \/ AwaitEvents(t) \/ isShockDetected(t) \/ Front(t)
        BY <1>0, <2>5, CoreOrder DEF WriteEnable, AwaitEvents, isShockDetected, Front
    <2> QED
        BY <1>5, <2>1, <2>2, <2>3, <2>4, <2>5 DEF Thread
<1>6. ASSUME NEW t \in Threads, SpuriousWakeup(t) PROVE OrderInv'
    BY <1>0, <1>6, CoreOrder DEF SpuriousWakeup
<1>7. CASE UNCHANGED vars
    BY <1>0, <1>7, CoreOrder DEF vars
<1> QED
    BY <1>1, <1>2, <1>3, <1>4, <1>5, <1>6, <1>7 DEF Next, Handler

\* A step of a thread that goes to a place outside of getNextShock.
LEMMA GoesFetch ==
    ASSUME FetchInv, NEW t \in Threads, NEW a, NEW b, Goes(t, a, b),
           b \notin {"front", "pop"}, UNCHANGED << shockData, item >>
    PROVE  FetchInv'
BY DEF FetchInv, Goes

LEMMA NextFetch ==
    OneFetches /\ OrderInv /\ FetchInv /\ [Next]_vars => FetchInv'
<1> SUFFICES ASSUME OneFetches, OrderInv, FetchInv, [Next]_vars PROVE FetchInv'
    OBVIOUS
<1> USE DEF board, imu, Counts
<1>1. CASE Shock \/ setResults \/ UNCHANGED vars
    BY <1>1 DEF Shock, setResults, vars, FetchInv
<1>2. CASE proceed
    <2>1. /\ UNCHANGED << shockData, item >> /\ DOMAIN pc' = Threads
          /\ \A t \in Threads : pc'[t] \in {"front", "pop"} => pc'[t] = pc[t]
        BY <1>2 DEF proceed
    <2> QED
        BY <2>1 DEF FetchInv
<1>3. CASE processResponse
    <2>1. UNCHANGED << pc, item >>
        BY <1>3 DEF processResponse
    <2>2. shockData \in Seq(Nat) /\ (results # << >> => results[2] \in Nat)
        BY DEF OrderInv, TypesOK, Message
    <2>3. shockData # << >> => shockData' # << >> /\ Head(shockData') = Head(shockData)
        <3>1. CASE shockData' = shockData
            BY <3>1
        <3>2. CASE results # << >> /\ shockData' = Append(shockData, results[2])
            <4> DEFINE x == results[2]
            <4>1. x \in Nat /\ shockData' = Append(shockData, x)
                BY <2>2, <3>2
            <4> HIDE DEF x
            <4>2. shockData # << >> =>
                    Append(shockData, x) # << >> /\ Head(Append(shockData, x)) = Head(shockData)
                BY <2>2, <4>1
            <4> QED
                BY <4>1, <4>2
        <3> QED
            BY <1>3, <3>1, <3>2 DEF processResponse
    <2> QED
        BY <2>1, <2>3 DEF FetchInv
<1>4. ASSUME NEW t \in Threads, Thread(t) \/ SpuriousWakeup(t) PROVE FetchInv'
    <2>1. CASE isShockDetected(t)
        BY <2>1 DEF isShockDetected, Goes, FetchInv
    <2>2. CASE Front(t)
        BY <2>2 DEF Front, Goes, FetchInv
    <2>3. CASE Pop(t)
        <3>1. pc[t] = "pop" /\ pc' = [pc EXCEPT ![t] = "idle"] /\ item' = item
            BY <2>3 DEF Pop, Goes
        <3>2. \A u \in Threads : u # t => pc[u] \notin {"front", "pop"}
            BY <3>1 DEF FetchInv, OneFetches
        <3> QED
            BY <3>1, <3>2 DEF FetchInv
    <2>4. CASE Lock(t) \/ ResponseStop(t) \/ Response(t)
        BY <2>4, GoesFetch DEF Lock, ResponseStop, Response
    <2>5. CASE WriteSysex(t) \/ Await(t) \/ CondWait(t) \/ Copy(t) \/ Delete(t)
        BY <2>5, GoesFetch DEF WriteSysex, Await, CondWait, Copy, Delete
    <2>6. CASE WriteEnable(t) \/ AwaitEvents(t) \/ SpuriousWakeup(t)
        BY <2>6, GoesFetch DEF WriteEnable, AwaitEvents, SpuriousWakeup
    <2> QED
        BY <1>4, <2>1, <2>2, <2>3, <2>4, <2>5, <2>6 DEF Thread
<1> QED
    BY <1>1, <1>2, <1>3, <1>4 DEF Next, Handler

\* getNextShock (curieimu.cpp:355-365) returns the shocks in the order they
\* happened, none of them twice, if one thread calls it, whatever the others ask for
\* between its reading of the queue and its pop.
THEOREM ShocksInOrder == Spec => []ShocksOnce
<1>1. CASE OneFetches
    <2>1. Init => OrderInv /\ FetchInv
        BY InitOrder DEF Init, FetchInv
    <2>2. OrderInv /\ FetchInv /\ [Next]_vars => (OrderInv /\ FetchInv)'
        BY <1>1, NextOrder, NextFetch
    <2>3. OrderInv => ShocksOnce
        BY DEF OrderInv, ShocksOnce, Ordered, Queue
    <2> QED
        BY <2>1, <2>2, <2>3, PTL DEF Spec
<1>2. CASE ~OneFetches
    <2>1. ShocksOnce
        BY <1>2 DEF ShocksOnce, OneFetches
    <2> QED
        BY <2>1, PTL
<1> QED
    BY <1>1, <1>2
=============================================================================
