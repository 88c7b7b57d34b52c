--------------------------- MODULE NmeaGps_proofs ---------------------------
(***************************************************************************)
(* Proofs about NmeaGps, for every set of threads, satellites, sentences   *)
(* and depths: the depth is never zero and the queues keep within it as    *)
(* long as it is not lowered; the satellites are current; a fix comes      *)
(* before its sentence; and, for one thread of the program, starting,      *)
(* stopping and printing go as meant.                                      *)
(***************************************************************************)
EXTENDS NmeaGps, SequenceTheorems, TLAPS

\* A push keeps the kind of the entries and, in a queue within the depth, the
\* bound: what it throws away makes room for what it adds.
LEMMA PushSound ==
    ASSUME NEW S, NEW q \in Seq(S), NEW x \in S, depth \in 1 .. MAX_DEPTH
    PROVE  /\ Push(q, x) \in Seq(S)
           /\ Len(q) <= depth => Len(Push(q, x)) <= depth
<1>0. depth \in Nat /\ depth >= 1
  BY DepthAssumption
<1>1. CASE Len(q) = depth
  <2>1. q # << >> /\ Len(q) > 0
    BY <1>0, <1>1
  <2>2. Tail(q) \in Seq(S) /\ Len(Tail(q)) = Len(q) - 1
    BY <2>1
  <2>3. Push(q, x) = Append(Tail(q), x)
    BY <1>1 DEF Push
  <2> QED
    BY <1>0, <1>1, <2>2, <2>3
<1>2. CASE Len(q) # depth
  <2>1. Push(q, x) = Append(q, x)
    BY <1>2 DEF Push
  <2> QED
    BY <1>0, <1>2, <2>1
<1> QED
  BY <1>1, <1>2

\* The same after an entry was taken out.
LEMMA TailSound ==
    ASSUME NEW S, NEW q \in Seq(S), q # << >>, NEW d \in Nat
    PROVE  /\ Tail(q) \in Seq(S)
           /\ Len(q) <= d => Len(Tail(q)) <= d
  OBVIOUS

\* The depths that setMaxQueueDepth can set.
LEMMA ClampSound == ASSUME NEW d \in Depths PROVE Clamp(d) \in 1 .. MAX_DEPTH
  BY DepthAssumption DEF Clamp

\* Parsing a sentence consists of steps of the four kinds.
LEMMA SentenceSteps ==
    ASSUME NEW s \in Sentence, NEW n \in Nat
    PROVE  parseNMEASentence(s, n) \in Seq(Step)
<1> DEFINE last == << [op |-> "raw", id |-> n, kind |-> s.kind] >>
<1>1. s.kind \in Kind
  BY DEF Sentence, Kind
<1>2. last \in Seq(Step)
  BY <1>1 DEF Step
<1>3. CASE s.kind \in {"fix", "txt"}
  <2>1. << [op |-> s.kind, id |-> n] >> \in Seq(Step)
    BY <1>3 DEF Step
  <2>2. parseNMEASentence(s, n) = << [op |-> s.kind, id |-> n] >> \o last
    BY <1>3 DEF parseNMEASentence
  <2> QED
    BY <1>2, <2>1, <2>2
<1>4. CASE s.kind = "gsv"
  <2> DEFINE sat(i) == [op |-> "sat", prn |-> s.gsv.sats[i], total |-> s.gsv.total]
  <2>1. s.gsv \in Gsv
    BY <1>4 DEF Sentence
  <2>2. s.gsv.sats \in Seq(Prn) /\ s.gsv.total \in Nat
    BY <2>1, DepthAssumption
  <2>3. \A i \in DOMAIN s.gsv.sats : sat(i) \in Step
    BY <2>2 DEF Step
  <2>4. DOMAIN s.gsv.sats = 1 .. Len(s.gsv.sats) /\ Len(s.gsv.sats) \in Nat
    BY <2>2
  <2> HIDE DEF sat
  <2>5. [i \in DOMAIN s.gsv.sats |-> sat(i)] \in Seq(Step)
    BY <2>3, <2>4
  <2>6. parseNMEASentence(s, n) = [i \in DOMAIN s.gsv.sats |-> sat(i)] \o last
    BY <1>4 DEF parseNMEASentence, sat
  <2> QED
    BY <1>2, <2>5, <2>6
<1>5. CASE s.kind = "other"
  <2>1. parseNMEASentence(s, n) = << >> \o last
    BY <1>5 DEF parseNMEASentence
  <2> QED
    BY <1>2, <2>1
<1> QED
  BY <1>1, <1>3, <1>4, <1>5 DEF Kind

-----------------------------------------------------------------------------

LEMMA InitInv == Init => IInv
  BY DepthAssumption DEF Init, IInv, TypeOK, WithinDepth

\* One step of a sentence: at most one queue changes, by a push.
LEMMA ParseInv ==
    ASSUME IInv, NEW t \in Thread, Parse(t)
    PROVE  IInv'
<1> DEFINE w == Head(work[t])
<1>0. TypeOK /\ WithinDepth
  BY DEF IInv
<1>1. work[t] \in Seq(Step) /\ work[t] # << >>
  BY <1>0 DEF TypeOK, Parse
<1>2. w \in Step /\ Tail(work[t]) \in Seq(Step)
  BY <1>1
<1>3. work' \in [Thread -> Seq(Step)]
  BY <1>0, <1>2 DEF TypeOK, Parse
<1>4. UNCHANGED << depth, count, lowered >>
  BY DEF Parse
<1> HIDE DEF w
<1>5. CASE w.op = "fix"
  <2>1. w.id \in Nat
    BY <1>2, <1>5 DEF Step
  <2>2. fix' = Push(fix, w.id) /\ UNCHANGED << txt, raw >>
    BY <1>5 DEF Parse, w
  <2>3. fix' \in Seq(Nat) /\ (Len(fix) <= depth => Len(fix') <= depth)
    BY <1>0, <2>1, <2>2, PushSound DEF TypeOK
  <2> QED
    BY <1>0, <1>3, <1>4, <2>2, <2>3 DEF IInv, TypeOK, WithinDepth
<1>6. CASE w.op = "txt"
  <2>1. w.id \in Nat
    BY <1>2, <1>6 DEF Step
  <2>2. txt' = Push(txt, w.id) /\ UNCHANGED << fix, raw >>
    BY <1>6 DEF Parse, w
  <2>3. txt' \in Seq(Nat) /\ (Len(txt) <= depth => Len(txt') <= depth)
    BY <1>0, <2>1, <2>2, PushSound DEF TypeOK
  <2> QED
    BY <1>0, <1>3, <1>4, <2>2, <2>3 DEF IInv, TypeOK, WithinDepth
<1>7. CASE w.op = "sat"
  <2>1. UNCHANGED << fix, txt, raw >>
    BY <1>7 DEF Parse, w
  <2> QED
    BY <1>0, <1>3, <1>4, <2>1 DEF IInv, TypeOK, WithinDepth
<1>8. CASE w.op = "raw"
  <2>1. [id |-> w.id, kind |-> w.kind] \in Queued
    BY <1>2, <1>8 DEF Step, Queued
  <2>2. /\ raw' = Push(raw, [id |-> w.id, kind |-> w.kind])
        /\ UNCHANGED << fix, txt >>
    BY <1>8 DEF Parse, w
  <2>3. raw' \in Seq(Queued) /\ (Len(raw) <= depth => Len(raw') <= depth)
    BY <1>0, <2>1, <2>2, PushSound DEF TypeOK
  <2> QED
    BY <1>0, <1>3, <1>4, <2>2, <2>3 DEF IInv, TypeOK, WithinDepth
<1> QED
  BY <1>2, <1>5, <1>6, <1>7, <1>8 DEF Step

\* The parser thread besides its sentences: only its work changes.
LEMMA ParserInv ==
    ASSUME IInv, ParserThread \/ ReadFails
    PROVE  IInv'
<1>0. TypeOK /\ WithinDepth /\ "parser" \in Thread
  BY DEF IInv, Thread
<1>1. CASE parser = "parse" /\ Parse("parser")
  BY <1>0, <1>1, ParseInv
<1>2. CASE DataAvailable
  <2>1. UNCHANGED << depth, fix, txt, raw, lowered >>
    BY <1>2 DEF DataAvailable, queues
  <2>2. count' \in Nat /\ work' \in [Thread -> Seq(Step)]
    <3>1. CASE parser' = "test" /\ UNCHANGED << work, count >>
      BY <1>0, <3>1 DEF TypeOK
    <3>2. ASSUME NEW s \in Sentence, count' = count + 1,
                 work' = [work EXCEPT !["parser"] = parseNMEASentence(s, count + 1)]
          PROVE  count' \in Nat /\ work' \in [Thread -> Seq(Step)]
      <4>1. count \in Nat /\ count + 1 \in Nat
        BY <1>0 DEF TypeOK
      <4>2. parseNMEASentence(s, count + 1) \in Seq(Step)
        BY <4>1, SentenceSteps
      <4> QED
        BY <1>0, <3>2, <4>1, <4>2 DEF TypeOK
    <3>3. ASSUME NEW s \in Sentence, NEW r \in Sentence, count' = count + 2,
                 work' = [work EXCEPT !["parser"] =
                   parseNMEASentence(s, count + 1) \o parseNMEASentence(r, count + 2)]
          PROVE  count' \in Nat /\ work' \in [Thread -> Seq(Step)]
      <4>1. count \in Nat /\ count + 1 \in Nat /\ count + 2 \in Nat
        BY <1>0 DEF TypeOK
      <4>2. parseNMEASentence(s, count + 1) \in Seq(Step)
        BY <4>1, SentenceSteps
      <4>3. parseNMEASentence(r, count + 2) \in Seq(Step)
        BY <4>1, SentenceSteps
      <4> QED
        BY <1>0, <3>3, <4>1, <4>2, <4>3 DEF TypeOK
    <3> QED
      BY <1>2, <3>1, <3>2, <3>3 DEF DataAvailable
  <2> QED
    BY <1>0, <2>1, <2>2 DEF IInv, TypeOK, WithinDepth
<1>3. CASE LoopTest \/ BlockParsed \/ ReadFails
  <2>1. UNCHANGED << depth, fix, txt, raw, work, count, lowered >>
    BY <1>3 DEF LoopTest, BlockParsed, ReadFails, queues, ghosts
  <2> QED
    BY <1>0, <2>1 DEF IInv, TypeOK, WithinDepth
<1> QED
  BY <1>1, <1>2, <1>3 DEF ParserThread

\* A thread of the program changes the depth, feeds a sentence, takes an
\* entry, or only moves on.
LEMMA UserInv ==
    ASSUME IInv, NEW u \in User, UserThread(u)
    PROVE  IInv'
<1>0. TypeOK /\ WithinDepth /\ u \in Thread
  BY DEF IInv, Thread
<1>1. CASE setMaxQueueDepth(u)
  <2>1. PICK d \in Depths : depth' = Clamp(d) /\ lowered' = (lowered \/ Clamp(d) < depth)
    BY <1>1 DEF setMaxQueueDepth
  <2>2. UNCHANGED << fix, txt, raw, work, count >>
    BY <1>1 DEF setMaxQueueDepth, queues
  <2>3. depth' \in 1 .. MAX_DEPTH
    BY <2>1, ClampSound
  <2>4. MAX_DEPTH \in Nat /\ depth \in Nat /\ depth' \in Nat
    BY <1>0, <2>3, DepthAssumption DEF TypeOK
  <2>5. ~lowered' => ~lowered /\ depth <= depth'
    <3>1. ~lowered' => ~lowered /\ ~(Clamp(d) < depth)
      BY ONLY <2>1, Zenon
    <3>2. ~(Clamp(d) < depth) => depth <= depth'
      BY <2>1, <2>4
    <3> QED
      BY <3>1, <3>2
  <2>6. Len(fix) \in Nat /\ Len(txt) \in Nat /\ Len(raw) \in Nat
    BY <1>0 DEF TypeOK
  <2>7. TypeOK'
    BY <1>0, <2>1, <2>2, <2>3 DEF TypeOK
  <2>8. WithinDepth'
    BY <1>0, <2>2, <2>4, <2>5, <2>6 DEF WithinDepth
  <2> QED
    BY <2>7, <2>8 DEF IInv
<1>2. CASE Feed(u)
  <2>1. PICK s \in Sentence :
          /\ count' = count + 1
          /\ work' = [work EXCEPT ![u] = parseNMEASentence(s, count + 1)]
    BY <1>2 DEF Feed
  <2>2. UNCHANGED << depth, fix, txt, raw, lowered >>
    BY <1>2 DEF Feed, queues
  <2>3. count + 1 \in Nat
    BY <1>0 DEF TypeOK
  <2>4. parseNMEASentence(s, count + 1) \in Seq(Step)
    BY <2>3, SentenceSteps
  <2> QED
    BY <1>0, <2>1, <2>2, <2>3, <2>4 DEF IInv, TypeOK, WithinDepth
<1>3. CASE pc[u] = "feeding" /\ Parse(u)
  BY <1>0, <1>3, ParseInv
<1>4. CASE Get(u)
  <2>1. UNCHANGED << depth, work, count, lowered >>
    BY <1>4 DEF Get, ghosts
  <2>2. depth \in Nat
    BY <1>0, DepthAssumption DEF TypeOK
  <2>3. CASE fix # << >> /\ fix' = Tail(fix) /\ UNCHANGED << txt, raw >>
    <3>1. fix' \in Seq(Nat) /\ (Len(fix) <= depth => Len(fix') <= depth)
      BY <1>0, <2>2, <2>3, TailSound DEF TypeOK
    <3> QED
      BY <1>0, <2>1, <2>3, <3>1 DEF IInv, TypeOK, WithinDepth
  <2>4. CASE raw # << >> /\ raw' = Tail(raw) /\ UNCHANGED << fix, txt >>
    <3>1. raw' \in Seq(Queued) /\ (Len(raw) <= depth => Len(raw') <= depth)
      BY <1>0, <2>2, <2>4, TailSound DEF TypeOK
    <3> QED
      BY <1>0, <2>1, <2>4, <3>1 DEF IInv, TypeOK, WithinDepth
  <2>5. CASE txt # << >> /\ txt' = Tail(txt) /\ UNCHANGED << fix, raw >>
    <3>1. txt' \in Seq(Nat) /\ (Len(txt) <= depth => Len(txt') <= depth)
      BY <1>0, <2>2, <2>5, TailSound DEF TypeOK
    <3> QED
      BY <1>0, <2>1, <2>5, <3>1 DEF IInv, TypeOK, WithinDepth
  <2> QED
    BY <1>4, <2>3, <2>4, <2>5 DEF Get
<1>5. CASE StrPop(u)
  <2>1. UNCHANGED << depth, fix, raw, work, count, lowered >>
    BY <1>5 DEF StrPop
  <2>2. depth \in Nat
    BY <1>0, DepthAssumption DEF TypeOK
  <2>3. txt' \in Seq(Nat) /\ (Len(txt) <= depth => Len(txt') <= depth)
    <3>1. CASE txt = << >>
      BY <1>0, <1>5, <3>1 DEF StrPop, TypeOK
    <3>2. CASE txt # << >>
      <4>1. txt' = Tail(txt)
        BY <1>5, <3>2 DEF StrPop
      <4> QED
        BY <1>0, <2>2, <3>2, <4>1, TailSound DEF TypeOK
    <3> QED
      BY <3>1, <3>2
  <2> QED
    BY <1>0, <2>1, <2>3 DEF IInv, TypeOK, WithinDepth
<1>6. CASE \/ StartTest(u) \/ StartSet(u) \/ StartAssign(u) \/ StopTest(u)
           \/ StopSet(u) \/ Join(u) \/ Fed(u) \/ StrSize(u)
  <2>1. UNCHANGED << depth, fix, txt, raw, work, count, lowered >>
    BY <1>6 DEF StartTest, StartSet, StartAssign, StopTest, StopSet, Join, Fed,
                StrSize, queues, ghosts
  <2> QED
    BY <1>0, <2>1 DEF IInv, TypeOK, WithinDepth
<1> QED
  BY <1>1, <1>2, <1>3, <1>4, <1>5, <1>6 DEF UserThread

LEMMA StepInv == IInv /\ [Next]_vars => IInv'
<1> SUFFICES ASSUME IInv, [Next]_vars PROVE IInv'
  OBVIOUS
<1>1. CASE ParserThread \/ ReadFails
  BY <1>1, ParserInv
<1>2. CASE \E u \in User : UserThread(u)
  BY <1>2, UserInv
<1>3. CASE UNCHANGED vars
  BY <1>3 DEF vars, queues, ghosts, IInv, TypeOK, WithinDepth
<1> QED
  BY <1>1, <1>2, <1>3 DEF Next

\* Everything below follows from this invariant.
THEOREM Invariance == Spec => []IInv
  BY InitInv, StepInv, PTL DEF Spec

\* As long as nobody lowers the depth, no queue outgrows it: the test for
\* equality in the three parsers is enough (nmea_gps.cxx:187, 290, 320, 348).
THEOREM QueuesWithinDepth == Spec => []WithinDepth
<1>1. IInv => WithinDepth
  BY DEF IInv
<1> QED
  BY <1>1, Invariance, PTL

\* The depth is never zero, so no parser throws away from an empty queue, and
\* the queues hold sentences of the kinds that were parsed.
THEOREM DepthPositive == Spec => []TypeOK
<1>1. IInv => TypeOK
  BY DEF IInv
<1> QED
  BY <1>1, Invariance, PTL

-----------------------------------------------------------------------------
(* A program with one thread: starting and stopping, and printing.         *)

UserPlace ==
    {"idle", "starting", "assign", "stopping", "join", "feeding", "printing"}

\* Where the thread is says whether there is a parser thread.
StartStop(u) ==
    /\ pc \in [User -> UserPlace]
    /\ ended \in {"no", "read"}
    /\ pc[u] \in {"idle", "feeding", "printing"} => (running <=> parser # "none")
    /\ pc[u] = "starting" => ~running /\ parser = "none"
    /\ pc[u] = "assign" => running /\ parser = "none"
    /\ pc[u] = "stopping" => running /\ parser # "none"
    /\ pc[u] = "join" => ~running /\ parser # "none"

LEMMA StepStartStop ==
    ASSUME NEW u, User = {u}, StartStop(u), [Next]_vars PROVE StartStop(u)'
<1> USE DEF StartStop, UserPlace, Goto
<1>1. CASE LoopTest
  BY <1>1 DEF LoopTest
<1>2. CASE DataAvailable
  BY <1>2 DEF DataAvailable
<1>3. CASE BlockParsed \/ ReadFails
  BY <1>3 DEF BlockParsed, ReadFails
<1>4. ASSUME NEW t \in Thread, Parse(t) PROVE StartStop(u)'
  BY <1>4 DEF Parse
<1>5. CASE StartTest(u) \/ StartSet(u) \/ StartAssign(u)
  BY <1>5 DEF StartTest, StartSet, StartAssign
<1>6. CASE StopTest(u) \/ StopSet(u) \/ Join(u)
  BY <1>6 DEF StopTest, StopSet, Join
<1>7. CASE setMaxQueueDepth(u) \/ Get(u)
  BY <1>7 DEF setMaxQueueDepth, Get
<1>8. CASE Feed(u) \/ Fed(u)
  BY <1>8 DEF Feed, Fed
<1>9. CASE StrSize(u) \/ StrPop(u)
  BY <1>9 DEF StrSize, StrPop
<1>10. CASE UNCHANGED vars
  BY <1>10 DEF vars
<1> QED
  BY <1>1, <1>2, <1>3, <1>4, <1>5, <1>6, <1>7, <1>8, <1>9, <1>10
  DEF Next, ParserThread, UserThread, Thread

\* parseStart and parseStop (nmea_gps.cxx:399-429), called by one thread in any
\* order, never assign to a thread that runs nor join one that does not.
THEOREM StartAndStopInOrder ==
    ASSUME NEW u, User = {u} PROVE Spec => []ThreadsInOrder
<1>1. Init => StartStop(u)
  BY DEF Init, StartStop, UserPlace
<1>2. StartStop(u) /\ [Next]_vars => StartStop(u)'
  BY StepStartStop
<1>3. StartStop(u) => ThreadsInOrder
  BY DEF StartStop, ThreadsInOrder
<1> QED
  BY <1>1, <1>2, <1>3, PTL DEF Spec

\* A push never makes a queue shorter.
LEMMA PushKeepsLength ==
    ASSUME NEW S, NEW q \in Seq(S), NEW x \in S, depth \in 1 .. MAX_DEPTH
    PROVE  Len(Push(q, x)) >= Len(q)
<1>0. depth \in Nat /\ depth >= 1
  BY DepthAssumption
<1>1. CASE Len(q) = depth
  <2>1. q # << >>
    BY <1>0, <1>1
  <2>2. Tail(q) \in Seq(S) /\ Len(Tail(q)) = Len(q) - 1
    BY <2>1
  <2> QED
    BY <1>1, <2>2 DEF Push
<1>2. CASE Len(q) # depth
  BY <1>2 DEF Push
<1> QED
  BY <1>1, <1>2

\* What is announced is there.
Announced(u) ==
    /\ blank = FALSE
    /\ left \in [User -> Nat]
    /\ pc[u] = "printing" => left[u] \in 1 .. Len(txt)

PrintInv(u) == IInv /\ StartStop(u) /\ Announced(u)

LEMMA StepAnnounced ==
    ASSUME NEW u, User = {u}, PrintInv(u), [Next]_vars PROVE Announced(u)'
<1>0. /\ txt \in Seq(Nat) /\ Len(txt) \in Nat /\ depth \in 1 .. MAX_DEPTH
      /\ pc \in [User -> UserPlace] /\ Announced(u)
  <2>1. txt \in Seq(Nat)
    BY DEF PrintInv, IInv, TypeOK
  <2>2. depth \in 1 .. MAX_DEPTH /\ pc \in [User -> UserPlace] /\ Announced(u)
    BY DEF PrintInv, IInv, TypeOK, StartStop
  <2> QED
    BY <2>1, <2>2
<1> USE DEF Announced, Goto
<1>1. CASE LoopTest \/ DataAvailable \/ BlockParsed \/ ReadFails
  <2>1. UNCHANGED << txt, left, pc, blank >>
    BY <1>1 DEF LoopTest, DataAvailable, BlockParsed, ReadFails, queues, ghosts
  <2> QED
    BY <1>0, <2>1
<1>2. ASSUME NEW t \in Thread, Parse(t) PROVE Announced(u)'
  <2> DEFINE w == Head(work[t])
  <2>1. w \in Step
    BY <1>2 DEF PrintInv, IInv, TypeOK, Parse
  <2>2. UNCHANGED << left, pc, blank >>
    BY <1>2 DEF Parse
  <2>3. txt' = txt \/ (w.op = "txt" /\ txt' = Push(txt, w.id))
    BY <1>2 DEF Parse
  <2> HIDE DEF w
  <2>4. w.op = "txt" => w.id \in Nat
    BY <2>1 DEF Step
  <2>5. ASSUME w.op = "txt", txt' = Push(txt, w.id)
        PROVE  Len(txt') >= Len(txt) /\ Len(txt') \in Nat
    <3>1. Push(txt, w.id) \in Seq(Nat)
      BY <1>0, <2>4, <2>5, PushSound
    <3>2. Len(Push(txt, w.id)) >= Len(txt)
      BY <1>0, <2>4, <2>5, PushKeepsLength
    <3> QED
      BY <2>5, <3>1, <3>2
  <2> QED
    BY <1>0, <2>2, <2>3, <2>5
<1>3. CASE \/ StartTest(u) \/ StartSet(u) \/ StartAssign(u) \/ StopTest(u)
           \/ StopSet(u) \/ Join(u) \/ setMaxQueueDepth(u) \/ Feed(u) \/ Fed(u) \/ Get(u)
  <2>1. pc'[u] # "printing" /\ UNCHANGED << left, blank >>
    BY <1>0, <1>3 DEF StartTest, StartSet, StartAssign, StopTest, StopSet, Join,
       setMaxQueueDepth, Feed, Fed, Get, queues, ghosts
  <2> QED
    BY <1>0, <2>1
<1>4. CASE StrSize(u)
  <2>1. txt # << >> /\ Len(txt) >= 1
    BY <1>0, <1>4 DEF StrSize
  <2> QED
    BY <1>0, <1>4, <2>1 DEF StrSize, queues, ghosts
<1>5. CASE StrPop(u)
  <2>1. left[u] \in 1 .. Len(txt) /\ txt # << >>
    BY <1>0, <1>5 DEF StrPop
  <2>2. txt' = Tail(txt) /\ blank' = blank /\ Len(txt') = Len(txt) - 1
    BY <1>0, <1>5, <2>1 DEF StrPop
  <2>3. left' = [left EXCEPT ![u] = left[u] - 1]
    BY <1>5 DEF StrPop
  <2>4. left' \in [User -> Nat] /\ left'[u] = left[u] - 1
    BY <1>0, <2>1, <2>3
  <2>5. pc'[u] = "printing" => left[u] # 1
    BY <1>0, <1>5 DEF StrPop
  <2> QED
    BY <1>0, <2>1, <2>2, <2>4, <2>5
<1>6. CASE UNCHANGED vars
  BY <1>0, <1>6 DEF vars, queues, ghosts
<1> QED
  BY <1>1, <1>2, <1>3, <1>4, <1>5, <1>6 DEF Next, ParserThread, UserThread, Thread

\* With one thread that takes messages, __str__ (nmea_gps.cxx:577-605) never
\* prints a blank one, although the parser throws messages away meanwhile.
THEOREM PrintsWhatItAnnounced ==
    ASSUME NEW u, User = {u} PROVE Spec => []NoBlankMessage
<1>1. Init => PrintInv(u)
  BY InitInv DEF Init, PrintInv, StartStop, UserPlace, Announced
<1>2. PrintInv(u) /\ [Next]_vars => PrintInv(u)'
  BY StepInv, StepStartStop, StepAnnounced DEF PrintInv
<1>3. PrintInv(u) => NoBlankMessage
  BY DEF PrintInv, Announced, NoBlankMessage
<1> QED
  BY <1>1, <1>2, <1>3, PTL DEF Spec

-----------------------------------------------------------------------------
(* A fix and its raw sentence, with any number of threads that parse.      *)

\* Of the steps w, the fix of a raw sentence is in done or comes before it.
FixFirst(w, done) ==
    \A i \in DOMAIN w : w[i].op = "raw" /\ w[i].kind = "fix" =>
        \/ w[i].id \in done
        \/ \E j \in 1 .. i - 1 : w[j].op = "fix" /\ w[j].id = w[i].id

FixInv ==
    /\ FixBeforeRaw
    /\ \A t \in Thread : FixFirst(work[t], fixed)

LEMMA FixFirstTail ==
    ASSUME NEW w \in Seq(Step), w # << >>, NEW done, NEW more, FixFirst(w, done),
           done \subseteq more, Head(w).op = "fix" => Head(w).id \in more
    PROVE  FixFirst(Tail(w), more)
<1> SUFFICES ASSUME NEW i \in DOMAIN Tail(w), Tail(w)[i].op = "raw", Tail(w)[i].kind = "fix",
                    Tail(w)[i].id \notin more
             PROVE  \E j \in 1 .. i - 1 : Tail(w)[j].op = "fix" /\ Tail(w)[j].id = Tail(w)[i].id
  BY DEF FixFirst
<1>1. /\ Len(w) \in Nat /\ DOMAIN w = 1 .. Len(w) /\ DOMAIN Tail(w) = 1 .. Len(w) - 1
      /\ \A j \in 1 .. Len(w) - 1 : Tail(w)[j] = w[j + 1]
      /\ Head(w) = w[1]
  OBVIOUS
<1>2. PICK j \in 1 .. i : w[j].op = "fix" /\ w[j].id = w[i + 1].id
  BY <1>1 DEF FixFirst
<1>3. j # 1
  BY <1>1, <1>2
<1>4. j - 1 \in 1 .. i - 1 /\ Tail(w)[j - 1] = w[j]
  BY <1>1, <1>2, <1>3
<1> QED
  BY <1>1, <1>2, <1>4

LEMMA FixFirstConcat ==
    ASSUME NEW v \in Seq(Step), NEW w \in Seq(Step), NEW done,
           FixFirst(v, done), FixFirst(w, done)
    PROVE  FixFirst(v \o w, done)
<1> DEFINE c == v \o w
<1>1. /\ Len(v) \in Nat /\ Len(w) \in Nat /\ Len(c) = Len(v) + Len(w)
      /\ DOMAIN v = 1 .. Len(v) /\ DOMAIN w = 1 .. Len(w) /\ DOMAIN c = 1 .. Len(c)
      /\ \A i \in 1 .. Len(v) : c[i] = v[i]
      /\ \A i \in 1 .. Len(w) : c[i + Len(v)] = w[i]
  OBVIOUS
<1> HIDE DEF c
<1> SUFFICES ASSUME NEW i \in 1 .. Len(c), c[i].op = "raw", c[i].kind = "fix", c[i].id \notin done
             PROVE  \E j \in 1 .. i - 1 : c[j].op = "fix" /\ c[j].id = c[i].id
  BY <1>1 DEF FixFirst, c
<1>2. CASE i \in 1 .. Len(v)
  <2>1. PICK j \in 1 .. i - 1 : v[j].op = "fix" /\ v[j].id = v[i].id
    BY <1>1, <1>2 DEF FixFirst
  <2> QED
    BY <1>1, <1>2, <2>1
<1>3. CASE i \notin 1 .. Len(v)
  <2> DEFINE k == i - Len(v)
  <2>1. k \in 1 .. Len(w) /\ c[i] = w[k] /\ i = k + Len(v)
    BY <1>1, <1>3
  <2>2. PICK j \in 1 .. k - 1 : w[j].op = "fix" /\ w[j].id = w[k].id
    BY <1>1, <2>1 DEF FixFirst
  <2>3. j + Len(v) \in 1 .. i - 1 /\ c[j + Len(v)] = w[j]
    BY <1>1, <2>1, <2>2
  <2> QED
    BY <2>1, <2>2, <2>3
<1> QED
  BY <1>2, <1>3

LEMMA Pair == ASSUME NEW S, NEW a \in S, NEW b \in S PROVE << a >> \o << b >> = << a, b >>
<1>1. << a >> \in Seq(S) /\ << b >> \in Seq(S) /\ << a, b >> \in Seq(S)
  OBVIOUS
<1>2. /\ << a >> \o << b >> \in Seq(S) /\ Len(<< a >> \o << b >>) = 2
      /\ (<< a >> \o << b >>)[1] = a /\ (<< a >> \o << b >>)[2] = b
  BY <1>1
<1>3. Len(<< a, b >>) = 2 /\ << a, b >>[1] = a /\ << a, b >>[2] = b
  OBVIOUS
<1>4. \A i \in 1 .. 2 : (<< a >> \o << b >>)[i] = << a, b >>[i]
  BY <1>2, <1>3
<1> QED
  BY <1>1, <1>2, <1>3, <1>4, SeqEqual

LEMMA FixFirstSentence ==
    ASSUME NEW s \in Sentence, NEW k \in Nat, NEW done
    PROVE  FixFirst(parseNMEASentence(s, k), done)
<1> DEFINE last == [op |-> "raw", id |-> k, kind |-> s.kind]
<1>0. s.kind \in Kind
  BY DEF Sentence, Kind
<1>1. CASE s.kind \in {"fix", "txt"}
  <2>1. parseNMEASentence(s, k) = << [op |-> s.kind, id |-> k] >> \o << last >>
    BY <1>1 DEF parseNMEASentence
  <2>2. parseNMEASentence(s, k) = << [op |-> s.kind, id |-> k], last >>
    <3>1. [op |-> s.kind, id |-> k] \in Step /\ last \in Step
      BY <1>0, <1>1 DEF Step
    <3> QED
      BY <2>1, <3>1, Pair
  <2> QED
    BY <1>1, <2>2 DEF FixFirst
<1>2. CASE s.kind \notin {"fix", "txt"}
  <2>1. << last >> \in Seq(Step) /\ FixFirst(<< last >>, done)
    BY <1>0, <1>2 DEF FixFirst, Step
  <2>2. CASE s.kind = "gsv"
    <3> DEFINE f == [i \in DOMAIN s.gsv.sats |->
                       [op |-> "sat", prn |-> s.gsv.sats[i], total |-> s.gsv.total]]
    <3>1. parseNMEASentence(s, k) = f \o << last >>
      BY <2>2 DEF parseNMEASentence
    <3>2. s.gsv.sats \in Seq(Prn) /\ s.gsv.total \in Nat
      BY <2>2, DepthAssumption DEF Sentence
    <3>3. \A i \in DOMAIN s.gsv.sats : f[i] \in Step /\ f[i].op = "sat"
      BY <3>2 DEF Step
    <3>4. DOMAIN s.gsv.sats = 1 .. Len(s.gsv.sats) /\ Len(s.gsv.sats) \in Nat
          /\ f = [i \in 1 .. Len(s.gsv.sats) |-> f[i]]
      BY <3>2
    <3> HIDE DEF f
    <3>5. f \in Seq(Step) /\ DOMAIN f = DOMAIN s.gsv.sats
      BY <3>3, <3>4
    <3>6. FixFirst(f, done)
      BY <3>3, <3>5 DEF FixFirst
    <3> QED
      BY <2>1, <3>1, <3>5, <3>6, FixFirstConcat
  <2>3. CASE s.kind = "other"
    <3>1. parseNMEASentence(s, k) = << >> \o << last >>
      BY <2>3 DEF parseNMEASentence
    <3>2. << >> \in Seq(Step) /\ FixFirst(<< >>, done)
      BY DEF FixFirst
    <3> QED
      BY <2>1, <3>1, <3>2, FixFirstConcat
  <2> QED
    BY <1>0, <1>2, <2>2, <2>3 DEF Kind
<1> QED
  BY <1>1, <1>2

\* What is left to do only grows by sentences.
LEMMA FixFirstMore ==
    ASSUME NEW w, NEW done, NEW more, FixFirst(w, done), done \subseteq more
    PROVE  FixFirst(w, more)
BY DEF FixFirst

\* An entry that stays, or is taken off, says nothing new.
LEMMA RawTail ==
    ASSUME NEW q \in Seq(Queued), q # << >>, NEW P, \A i \in DOMAIN q : q[i].kind = "fix" => q[i].id \in P
    PROVE  \A i \in DOMAIN Tail(q) : Tail(q)[i].kind = "fix" => Tail(q)[i].id \in P
<1>1. /\ Len(q) \in Nat /\ DOMAIN q = 1 .. Len(q) /\ DOMAIN Tail(q) = 1 .. Len(q) - 1
      /\ \A i \in 1 .. Len(q) - 1 : Tail(q)[i] = q[i + 1] /\ i + 1 \in 1 .. Len(q)
  OBVIOUS
<1> QED
  BY <1>1

LEMMA RawPush ==
    ASSUME NEW x \in Queued, NEW P, x.kind = "fix" => x.id \in P,
           raw \in Seq(Queued), depth \in 1 .. MAX_DEPTH,
           \A i \in DOMAIN raw : raw[i].kind = "fix" => raw[i].id \in P
    PROVE  \A i \in DOMAIN Push(raw, x) :
             Push(raw, x)[i].kind = "fix" => Push(raw, x)[i].id \in P
<1>1. PICK q \in Seq(Queued) :
        /\ Push(raw, x) = Append(q, x)
        /\ \A i \in DOMAIN q : q[i].kind = "fix" => q[i].id \in P
  <2>1. CASE Len(raw) = depth
    <3>1. raw # << >> /\ Tail(raw) \in Seq(Queued)
      BY <2>1, DepthAssumption
    <3> QED
      BY <2>1, <3>1, RawTail DEF Push
  <2>2. CASE Len(raw) # depth
    BY <2>2 DEF Push
  <2> QED
    BY <2>1, <2>2
<1>2. /\ Len(q) \in Nat /\ DOMAIN q = 1 .. Len(q) /\ DOMAIN Append(q, x) = 1 .. Len(q) + 1
      /\ \A i \in 1 .. Len(q) : Append(q, x)[i] = q[i]
      /\ Append(q, x)[Len(q) + 1] = x
  OBVIOUS
<1> QED
  BY <1>1, <1>2

LEMMA StepFix == ASSUME IInv, FixInv, [Next]_vars PROVE FixInv'
<1>0. /\ raw \in Seq(Queued) /\ work \in [Thread -> Seq(Step)] /\ count \in Nat
      /\ depth \in 1 .. MAX_DEPTH
  BY DEF IInv, TypeOK
<1>1. ASSUME NEW t \in Thread, Parse(t) PROVE FixInv'
  <2> DEFINE w == Head(work[t])
  <2>1. work[t] \in Seq(Step) /\ work[t] # << >> /\ w \in Step
    BY <1>0, <1>1 DEF Parse
  <2>2. work' = [work EXCEPT ![t] = Tail(work[t])]
    BY <1>1 DEF Parse
  <2>3. fixed \subseteq fixed' /\ (w.op = "fix" => w.id \in fixed')
    BY <1>1, <2>1 DEF Parse, Step
  <2>4. FixFirst(Tail(work[t]), fixed')
    BY <2>1, <2>3, FixFirstTail DEF FixInv
  <2>5. \A u \in Thread : FixFirst(work'[u], fixed')
    BY <1>0, <2>2, <2>3, <2>4, FixFirstMore DEF FixInv
  <2>6. CASE w.op = "raw"
    <3>1. w.kind = "fix" => w.id \in fixed
      <4>1. DOMAIN work[t] = 1 .. Len(work[t]) /\ Len(work[t]) \in Nat \ {0} /\ w = work[t][1]
        BY <2>1
      <4> QED
        BY <2>6, <4>1 DEF FixInv, FixFirst
    <3>2. [id |-> w.id, kind |-> w.kind] \in Queued
      BY <2>1, <2>6 DEF Step, Queued
    <3>3. raw' = Push(raw, [id |-> w.id, kind |-> w.kind]) /\ fixed' = fixed
      BY <1>1, <2>6 DEF Parse
    <3> HIDE DEF w
    <3>4. FixBeforeRaw'
      BY <1>0, <3>1, <3>2, <3>3, RawPush DEF FixInv, FixBeforeRaw
    <3> QED
      BY <2>5, <3>4 DEF FixInv
  <2>7. CASE w.op # "raw"
    <3>1. raw' = raw
      BY <1>1, <2>7 DEF Parse
    <3> QED
      BY <2>3, <2>5, <3>1 DEF FixInv, FixBeforeRaw
  <2> QED
    BY <2>6, <2>7
<1>2. CASE DataAvailable
  <2>1. raw' = raw /\ fixed' = fixed
    BY <1>2 DEF DataAvailable, queues
  <2>2. \/ work' = work
        \/ \E s \in Sentence : work' = [work EXCEPT !["parser"] = parseNMEASentence(s, count + 1)]
        \/ \E s, r \in Sentence : work' = [work EXCEPT !["parser"] =
              parseNMEASentence(s, count + 1) \o parseNMEASentence(r, count + 2)]
    BY <1>2 DEF DataAvailable
  <2>3. ASSUME NEW w \in Seq(Step), FixFirst(w, fixed), work' = [work EXCEPT !["parser"] = w]
        PROVE  \A t \in Thread : FixFirst(work'[t], fixed)
    BY <1>0, <2>3 DEF FixInv
  <2>4. \A s \in Sentence, k \in Nat : /\ parseNMEASentence(s, k) \in Seq(Step)
                                      /\ FixFirst(parseNMEASentence(s, k), fixed)
    BY SentenceSteps, FixFirstSentence
  <2>5. count + 1 \in Nat /\ count + 2 \in Nat
    BY <1>0
  <2>6. \A t \in Thread : FixFirst(work'[t], fixed)
    <3>1. CASE work' = work
      BY <3>1 DEF FixInv
    <3>2. ASSUME NEW s \in Sentence,
                 work' = [work EXCEPT !["parser"] = parseNMEASentence(s, count + 1)]
          PROVE  \A t \in Thread : FixFirst(work'[t], fixed)
      BY <2>3, <2>4, <2>5, <3>2
    <3>3. ASSUME NEW s \in Sentence, NEW r \in Sentence, work' = [work EXCEPT !["parser"] =
                   parseNMEASentence(s, count + 1) \o parseNMEASentence(r, count + 2)]
          PROVE  \A t \in Thread : FixFirst(work'[t], fixed)
      <4>1. /\ parseNMEASentence(s, count + 1) \in Seq(Step)
            /\ parseNMEASentence(r, count + 2) \in Seq(Step)
            /\ FixFirst(parseNMEASentence(s, count + 1), fixed)
            /\ FixFirst(parseNMEASentence(r, count + 2), fixed)
        BY <2>4, <2>5
      <4>2. /\ parseNMEASentence(s, count + 1) \o parseNMEASentence(r, count + 2) \in Seq(Step)
            /\ FixFirst(parseNMEASentence(s, count + 1) \o parseNMEASentence(r, count + 2), fixed)
        BY <4>1, FixFirstConcat
      <4> QED
        BY <2>3, <3>3, <4>2
    <3> QED
      BY <2>2, <3>1, <3>2, <3>3
  <2> QED
    BY <2>1, <2>6 DEF FixInv, FixBeforeRaw
<1>3. ASSUME NEW u \in User, Feed(u) PROVE FixInv'
  <2>1. PICK s \in Sentence : work' = [work EXCEPT ![u] = parseNMEASentence(s, count + 1)]
    BY <1>3 DEF Feed
  <2>2. raw' = raw /\ fixed' = fixed
    BY <1>3 DEF Feed, queues
  <2>3. count + 1 \in Nat
    BY <1>0
  <2>4. FixFirst(parseNMEASentence(s, count + 1), fixed)
    BY <2>3, FixFirstSentence
  <2> QED
    BY <1>0, <2>1, <2>2, <2>4 DEF FixInv, FixBeforeRaw
<1>4. ASSUME NEW u \in User, Get(u) PROVE FixInv'
  <2>1. UNCHANGED << work, fixed >>
    BY <1>4 DEF Get, ghosts
  <2>2. raw' = raw \/ (raw # << >> /\ raw' = Tail(raw))
    BY <1>4 DEF Get
  <2>3. raw # << >> => \A i \in DOMAIN Tail(raw) :
                         Tail(raw)[i].kind = "fix" => Tail(raw)[i].id \in fixed
    BY <1>0, RawTail DEF FixInv, FixBeforeRaw
  <2> QED
    BY <2>1, <2>2, <2>3 DEF FixInv, FixBeforeRaw
<1>5. ASSUME UNCHANGED << raw, work, fixed >> PROVE FixInv'
  BY <1>5 DEF FixInv, FixBeforeRaw
<1>6. CASE LoopTest \/ BlockParsed \/ ReadFails \/ UNCHANGED vars
  BY <1>5, <1>6 DEF LoopTest, BlockParsed, ReadFails, vars, queues, ghosts
<1>7. ASSUME NEW u \in User,
             \/ StartTest(u) \/ StartSet(u) \/ StartAssign(u) \/ StopTest(u) \/ StopSet(u)
             \/ Join(u) \/ setMaxQueueDepth(u) \/ Fed(u) \/ StrSize(u) \/ StrPop(u)
      PROVE  FixInv'
  BY <1>5, <1>7 DEF StartTest, StartSet, StartAssign, StopTest, StopSet, Join,
     setMaxQueueDepth, Fed, StrSize, StrPop, queues, ghosts
<1> QED
  BY <1>1, <1>2, <1>3, <1>4, <1>6, <1>7 DEF Next, ParserThread, UserThread, Thread

\* Whoever takes a raw sentence with a fix finds the fix pushed before it,
\* however many threads parse (parseNMEASentence, nmea_gps.cxx:325-352).
THEOREM FixComesFirst == Spec => []FixBeforeRaw
<1>1. Init => FixInv
  BY DEF Init, FixInv, FixBeforeRaw, FixFirst
<1>2. IInv /\ FixInv /\ [Next]_vars => FixInv'
  BY StepFix
<1>3. FixInv => FixBeforeRaw
  BY DEF FixInv
<1> QED
  BY <1>1, <1>2, <1>3, Invariance, PTL DEF Spec

-----------------------------------------------------------------------------
(* The list of satellites, with any number of threads that report.         *)

Sat == [prn : Prn, at : Nat]

\* Reports in the order they came, each the latest of its satellite.
Sorted(l) == \A i, j \in DOMAIN l : i < j => l[i].at < l[j].at
Current(l, last) == \A i \in DOMAIN l : l[i].at = last[l[i].prn]

SatInv ==
    /\ satlist \in Seq(Sat) /\ reports \in Nat /\ latest \in [Prn -> Nat]
    /\ Current(satlist, latest) /\ Sorted(satlist)
    /\ \A i \in DOMAIN satlist : satlist[i].at <= reports

\* A list that is made of the entries e[1], e[2], ... of another.
Picks(r, l, e) ==
    /\ e \in [DOMAIN r -> DOMAIN l]
    /\ \A i \in DOMAIN r : r[i] = l[e[i]]
    /\ \A i, j \in DOMAIN r : i < j => e[i] < e[j]

LEMMA PicksSound ==
    ASSUME NEW l \in Seq(Sat), NEW r \in Seq(Sat), NEW e, Picks(r, l, e), NEW last,
           Sorted(l), Current(l, last)
    PROVE  Sorted(r) /\ Current(r, last)
BY DEF Picks, Sorted, Current

\* Erasing leaves the other entries as they are, and none of the satellite.
LEMMA WithoutSound ==
    ASSUME NEW l \in Seq(Sat), NEW p \in Prn, NEW last, Sorted(l), Current(l, last),
           NEW n \in Nat, \A i \in DOMAIN l : l[i].at <= n
    PROVE  /\ Without(l, p) \in Seq(Sat)
           /\ Sorted(Without(l, p)) /\ Current(Without(l, p), last)
           /\ \A i \in DOMAIN Without(l, p) : Without(l, p)[i].prn # p /\ Without(l, p)[i].at <= n
<1>1. CASE \A i \in DOMAIN l : l[i].prn # p
  BY <1>1 DEF Without
<1>2. CASE \E i \in DOMAIN l : l[i].prn = p
  <2>0. DOMAIN l = 1 .. Len(l) /\ Len(l) \in Nat /\ \A i \in DOMAIN l : l[i] \in Sat
    OBVIOUS
  <2>1. \A i, j \in DOMAIN l : l[i].prn = p /\ l[j].prn = p => i = j
    <3> SUFFICES ASSUME NEW i \in DOMAIN l, NEW j \in DOMAIN l, l[i].prn = p, l[j].prn = p, i < j
                 PROVE  FALSE
      BY <2>0
    <3>1. l[i].at = l[j].at /\ l[i].at \in Nat
      BY <2>0 DEF Current, Sat
    <3>2. l[i].at < l[j].at
      BY DEF Sorted
    <3> QED
      BY <3>1, <3>2
  <2> DEFINE first == CHOOSE i \in DOMAIN l : l[i].prn = p /\ \A j \in 1 .. i - 1 : l[j].prn # p
  <2>2. \E i \in DOMAIN l : l[i].prn = p /\ \A j \in 1 .. i - 1 : l[j].prn # p
    <3>1. PICK i \in DOMAIN l : l[i].prn = p
      BY <1>2
    <3>2. \A j \in 1 .. i - 1 : j \in DOMAIN l /\ j # i
      BY <2>0
    <3> QED
      BY <2>1, <3>1, <3>2
  <2>3. first \in DOMAIN l /\ l[first].prn = p
    BY <2>2
  <2>4. Without(l, p) = SubSeq(l, 1, first - 1) \o SubSeq(l, first + 1, Len(l))
    BY <1>2 DEF Without
  <2> HIDE DEF first
  <2> DEFINE r == SubSeq(l, 1, first - 1) \o SubSeq(l, first + 1, Len(l))
             e == [i \in 1 .. Len(l) - 1 |-> IF i < first THEN i ELSE i + 1]
  <2>5. /\ SubSeq(l, 1, first - 1) \in Seq(Sat) /\ Len(SubSeq(l, 1, first - 1)) = first - 1
        /\ \A i \in 1 .. first - 1 : SubSeq(l, 1, first - 1)[i] = l[i]
        /\ SubSeq(l, first + 1, Len(l)) \in Seq(Sat)
        /\ Len(SubSeq(l, first + 1, Len(l))) = Len(l) - first
        /\ \A i \in 1 .. Len(l) - first : SubSeq(l, first + 1, Len(l))[i] = l[first + i]
    <3>1. first \in Int /\ first >= 1 /\ first <= Len(l) /\ Len(l) \in Int
      BY <2>0, <2>3
    <3>2. /\ SubSeq(l, 1, first - 1) \in Seq(Sat) /\ Len(SubSeq(l, 1, first - 1)) = first - 1
          /\ \A i \in 1 .. first - 1 : SubSeq(l, 1, first - 1)[i] = l[i]
      <4>1. first - 1 \in Int /\ 1 \in Int /\ \A i \in 1 .. first - 1 : l[i] \in Sat
        BY <2>0, <3>1
      <4>2. /\ SubSeq(l, 1, first - 1) \in Seq(Sat)
            /\ Len(SubSeq(l, 1, first - 1)) =
                 IF 1 <= first - 1 THEN (first - 1) - 1 + 1 ELSE 0
            /\ \A i \in 1 .. (first - 1) - 1 + 1 : SubSeq(l, 1, first - 1)[i] = l[1 + i - 1]
        BY <4>1, SubSeqProperties
      <4>3. \A i \in 1 .. first - 1 : i \in 1 .. (first - 1) - 1 + 1 /\ 1 + i - 1 = i
        BY <3>1
      <4> QED
        BY <3>1, <4>2, <4>3
    <3>3. /\ SubSeq(l, first + 1, Len(l)) \in Seq(Sat)
          /\ Len(SubSeq(l, first + 1, Len(l))) = Len(l) - first
          /\ \A i \in 1 .. Len(l) - first : SubSeq(l, first + 1, Len(l))[i] = l[first + i]
      <4>1. first + 1 \in Int /\ \A i \in first + 1 .. Len(l) : l[i] \in Sat
        BY <2>0, <3>1
      <4>2. /\ SubSeq(l, first + 1, Len(l)) \in Seq(Sat)
            /\ Len(SubSeq(l, first + 1, Len(l))) =
                 IF first + 1 <= Len(l) THEN Len(l) - (first + 1) + 1 ELSE 0
            /\ \A i \in 1 .. Len(l) - (first + 1) + 1 :
                 SubSeq(l, first + 1, Len(l))[i] = l[first + 1 + i - 1]
        BY <3>1, <4>1, SubSeqProperties
      <4>3. \A i \in 1 .. Len(l) - first : /\ i \in 1 .. Len(l) - (first + 1) + 1
                                         /\ first + 1 + i - 1 = first + i
        BY <3>1
      <4> QED
        BY <3>1, <4>2, <4>3
    <3> QED
      BY <3>2, <3>3
  <2>6. r \in Seq(Sat) /\ Len(r) = Len(l) - 1
        /\ \A i \in 1 .. Len(l) - 1 : r[i] = l[IF i < first THEN i ELSE i + 1]
    <3> DEFINE a == SubSeq(l, 1, first - 1)
               b == SubSeq(l, first + 1, Len(l))
               k == Len(l)
    <3>1. /\ r \in Seq(Sat) /\ Len(r) = Len(a) + Len(b)
          /\ \A i \in 1 .. Len(a) + Len(b) :
               r[i] = IF i <= Len(a) THEN a[i] ELSE b[i - Len(a)]
      BY <2>5, ConcatProperties
    <3>2. /\ k \in Nat /\ first \in Nat /\ first >= 1 /\ first <= k
          /\ Len(a) = first - 1 /\ Len(b) = k - first
          /\ \A i \in 1 .. first - 1 : a[i] = l[i]
          /\ \A i \in 1 .. k - first : b[i] = l[first + i]
      BY <2>0, <2>3, <2>5
    <3> HIDE DEF r, a, b, k
    <3>3. \A i \in 1 .. k - 1 : r[i] = IF i <= first - 1 THEN a[i] ELSE b[i - (first - 1)]
      BY <3>1, <3>2
    <3>4. ASSUME NEW i \in 1 .. k - 1 PROVE r[i] = l[IF i < first THEN i ELSE i + 1]
      <4>1. CASE i < first
        <5>1. i <= first - 1 /\ i \in 1 .. first - 1
          BY ONLY <3>2, <4>1, i \in 1 .. k - 1
        <5> QED
          BY <3>2, <3>3, <4>1, <5>1
      <4>2. CASE ~(i < first)
        <5>1. /\ ~(i <= first - 1) /\ i - (first - 1) \in 1 .. k - first
              /\ first + (i - (first - 1)) = i + 1
          BY ONLY <3>2, <4>2, i \in 1 .. k - 1
        <5> QED
          BY <3>2, <3>3, <4>2, <5>1
      <4> QED
        BY <4>1, <4>2
    <3>5. Len(r) = k - 1
      BY <3>1, <3>2
    <3> QED
      BY <3>1, <3>4, <3>5 DEF k
  <2> HIDE DEF r
  <2>7. Picks(r, l, e) /\ \A i \in DOMAIN r : e[i] # first
    BY <2>0, <2>3, <2>6, SMTT(30) DEF Picks
  <2> HIDE DEF e
  <2>8. Sorted(r) /\ Current(r, last)
    BY <2>6, <2>7, PicksSound
  <2>9. \A i \in DOMAIN r : r[i].prn # p /\ r[i].at <= n
    BY <2>1, <2>3, <2>7 DEF Picks
  <2> QED
    BY <2>4, <2>6, <2>8, <2>9 DEF r
<1> QED
  BY <1>1, <1>2

\* The new report comes last; the list is cut at its front.
LEMMA AddSatSound ==
    ASSUME SatInv, NEW p \in Prn, NEW total \in Nat, reports' = reports + 1,
           latest' = [latest EXCEPT ![p] = reports + 1],
           satlist' = AddSat(satlist, [prn |-> p, at |-> reports + 1], total)
    PROVE  SatInv'
<1> DEFINE r == Without(satlist, p)
           s == [prn |-> p, at |-> reports + 1]
           l == Append(r, s)
<1>1. /\ r \in Seq(Sat) /\ Sorted(r) /\ Current(r, latest)
      /\ \A i \in DOMAIN r : r[i].prn # p /\ r[i].at <= reports
  BY WithoutSound DEF SatInv
<1>2. s \in Sat /\ reports + 1 \in Nat /\ reports \in Nat
  BY DEF SatInv, Sat
<1> HIDE DEF r
<1>3. /\ Len(r) \in Nat /\ DOMAIN r = 1 .. Len(r) /\ l \in Seq(Sat) /\ Len(l) = Len(r) + 1
      /\ DOMAIN l = 1 .. Len(l)
      /\ \A i \in 1 .. Len(r) : l[i] = r[i] /\ r[i] \in Sat
      /\ l[Len(l)] = s
  BY <1>1, <1>2
<1>4. latest' \in [Prn -> Nat] /\ latest'[p] = reports + 1
      /\ \A q \in Prn : q # p => latest'[q] = latest[q]
  BY <1>2 DEF SatInv
<1> HIDE DEF l
<1>5. Sorted(l)
  <2> SUFFICES ASSUME NEW i \in 1 .. Len(l), NEW j \in 1 .. Len(l), i < j
               PROVE  l[i].at < l[j].at
    BY <1>3 DEF Sorted
  <2>1. i \in 1 .. Len(r)
    BY <1>3
  <2>2. l[i] = r[i] /\ r[i].at \in Nat /\ r[i].at <= reports
    BY <1>1, <1>3, <2>1 DEF Sat
  <2>3. CASE j \in 1 .. Len(r)
    BY <1>1, <1>3, <2>1, <2>3 DEF Sorted
  <2>4. CASE j = Len(l)
    BY <1>2, <1>3, <2>1, <2>2, <2>4
  <2> QED
    BY <1>3, <2>3, <2>4
<1>6. Current(l, latest')
  <2> SUFFICES ASSUME NEW i \in 1 .. Len(l) PROVE l[i].at = latest'[l[i].prn]
    BY <1>3 DEF Current
  <2>1. CASE i \in 1 .. Len(r)
    <3>1. l[i] = r[i] /\ r[i].prn \in Prn /\ r[i].prn # p /\ i \in DOMAIN r
      BY <1>1, <1>3, <2>1 DEF Sat
    <3>2. r[i].at = latest[r[i].prn]
      BY <1>1, <3>1 DEF Current
    <3> QED
      BY <1>4, <3>1, <3>2
  <2>2. CASE i = Len(l)
    BY <1>3, <1>4, <2>2
  <2> QED
    BY <1>3, <2>1, <2>2
<1>7. \A i \in DOMAIN l : l[i].at <= reports + 1
  <2> SUFFICES ASSUME NEW i \in 1 .. Len(l) PROVE l[i].at <= reports + 1
    BY <1>3
  <2>1. CASE i \in 1 .. Len(r)
    <3>1. l[i] = r[i] /\ r[i].at \in Nat /\ r[i].at <= reports
      BY <1>1, <1>3, <2>1 DEF Sat
    <3> QED
      BY <1>2, <3>1
  <2>2. CASE i = Len(l)
    BY <1>2, <1>3, <2>2
  <2> QED
    BY <1>3, <2>1, <2>2
<1>8. satlist' = IF Len(l) > total THEN SubSeq(l, Len(l) - total + 1, Len(l)) ELSE l
  BY DEF AddSat, l, r
<1>9. CASE Len(l) > total
  <2> DEFINE c == SubSeq(l, Len(l) - total + 1, Len(l))
             e == [i \in 1 .. total |-> Len(l) - total + i]
  <2>1. c \in Seq(Sat) /\ Len(c) = total /\ \A i \in 1 .. total : c[i] = l[Len(l) - total + i]
    BY <1>3, <1>9, SMTT(30)
  <2> HIDE DEF c
  <2>2. Picks(c, l, e)
    <3>1. DOMAIN c = 1 .. total /\ Len(l) \in Nat
      BY <1>3, <2>1
    <3>2. \A i \in 1 .. total : e[i] = Len(l) - total + i /\ e[i] \in 1 .. Len(l)
      BY <1>9, <3>1
    <3>3. e \in [DOMAIN c -> DOMAIN l]
      BY <1>3, <3>1, <3>2
    <3>4. \A i, j \in 1 .. total : i < j => e[i] < e[j]
      BY <3>1, <3>2
    <3> HIDE DEF e
    <3> QED
      BY <2>1, <3>1, <3>2, <3>3, <3>4 DEF Picks
  <2>3. Sorted(c) /\ Current(c, latest') /\ \A i \in DOMAIN c : c[i].at <= reports + 1
    <3>1. \A i \in DOMAIN c : c[i].at <= reports + 1
      BY <1>7, <2>2 DEF Picks
    <3> QED
      BY <1>3, <1>5, <1>6, <2>1, <2>2, <3>1, PicksSound
  <2> QED
    BY <1>2, <1>4, <1>8, <1>9, <2>1, <2>3 DEF SatInv, c
<1>10. CASE ~(Len(l) > total)
  BY <1>2, <1>3, <1>4, <1>5, <1>6, <1>7, <1>8, <1>10 DEF SatInv
<1> QED
  BY <1>9, <1>10

LEMMA StepSat == ASSUME IInv, SatInv, [Next]_vars PROVE SatInv'
<1>1. ASSUME UNCHANGED << satlist, reports, latest >> PROVE SatInv'
  BY <1>1 DEF SatInv
<1>2. ASSUME NEW t \in Thread, Parse(t) PROVE SatInv'
  <2> DEFINE w == Head(work[t])
  <2>1. w \in Step
    BY <1>2 DEF IInv, TypeOK, Parse
  <2>2. CASE w.op = "sat"
    <3>1. /\ reports' = reports + 1 /\ latest' = [latest EXCEPT ![w.prn] = reports + 1]
          /\ satlist' = AddSat(satlist, [prn |-> w.prn, at |-> reports + 1], w.total)
      BY <1>2, <2>2 DEF Parse
    <3> HIDE DEF w
    <3>2. w.prn \in Prn /\ w.total \in Nat
      BY <2>1, <2>2 DEF Step
    <3> QED
      BY <3>1, <3>2, AddSatSound
  <2>3. CASE w.op # "sat"
    BY <1>1, <1>2, <2>3 DEF Parse
  <2> QED
    BY <2>2, <2>3
<1>3. CASE LoopTest \/ DataAvailable \/ BlockParsed \/ ReadFails \/ UNCHANGED vars
  BY <1>1, <1>3 DEF LoopTest, DataAvailable, BlockParsed, ReadFails, vars, queues,
     ghosts
<1>4. ASSUME NEW u \in User,
             \/ StartTest(u) \/ StartSet(u) \/ StartAssign(u) \/ StopTest(u) \/ StopSet(u)
             \/ Join(u) \/ setMaxQueueDepth(u) \/ Feed(u) \/ Fed(u) \/ Get(u)
             \/ StrSize(u) \/ StrPop(u)
      PROVE  SatInv'
  BY <1>1, <1>4 DEF StartTest, StartSet, StartAssign, StopTest, StopSet, Join,
     setMaxQueueDepth, Feed, Fed, Get, StrSize, StrPop, queues, ghosts
<1> QED
  BY <1>2, <1>3, <1>4 DEF Next, ParserThread, UserThread, Thread

\* satellites() returns each satellite once, with its latest report and in the
\* order of the reports, however many threads report between the satellites of
\* a sentence (nmea_gps.cxx:225-256).
THEOREM SatellitesUpToDate == Spec => []SatellitesCurrent
<1>1. Init => SatInv
  BY DEF Init, SatInv, Current, Sorted
<1>2. IInv /\ SatInv /\ [Next]_vars => SatInv'
  BY StepSat
<1>3. SatInv => SatellitesCurrent
  BY DEF SatInv, Current, Sorted, SatellitesCurrent
<1> QED
  BY <1>1, <1>2, <1>3, Invariance, PTL DEF Spec
=============================================================================
