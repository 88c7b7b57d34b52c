------------------------------- MODULE NmeaGps -------------------------------
(***************************************************************************)
(* The NMEA GPS driver (src/nmea_gps/nmea_gps.cxx): a parser thread reads  *)
(* the device and fills three bounded queues and the list of satellites,   *)
(* while the threads of the program start and stop it, feed it sentences,  *)
(* change the depth of the queues and take entries out.  Every access to a *)
(* queue or to the list is made under that container's mutex, so it is one *)
(* step; between two containers, two satellites or two sentences the other *)
(* threads run.  The counters that are only printed are left out.          *)
(***************************************************************************)
EXTENDS Integers, Sequences, FiniteSets

CONSTANTS User,          \* the program's threads
          Prn,           \* satellites
          Gsv,           \* what a GPGSV sentence can say: satellites and total
          Depths,        \* the arguments of setMaxQueueDepth
          MAX_DEPTH,     \* the largest depth setMaxQueueDepth accepts (1000)
          FIRST_DEPTH,   \* the depth the constructors set (10)
          MaxSentences   \* bound: sentences parsed in a behaviour

ASSUME DepthAssumption ==
    /\ MAX_DEPTH \in Nat /\ FIRST_DEPTH \in 1 .. MAX_DEPTH
    /\ Depths \subseteq Nat
    /\ \A g \in Gsv : g.sats \in Seq(Prn) /\ g.total \in Nat

VARIABLES
    depth,                \* _maxQueueDepth
    fix, txt, raw,        \* _queue_fix, _queue_txt, _queue_nmea_sentence
    satlist,              \* _satlist, with the number of the report of each
    running,              \* _running
    parser,               \* the thread object _parser and where its thread is
    pc, left,             \* where each user thread is; messages it will print
    work,                 \* what each thread still has to do for its sentences
    ended,                \* "no", or what made the C++ runtime end the program
    count, reports,       \* ghosts: sentences and satellite reports so far,
    latest, fixed,        \*   the last report of each satellite, sentences
    lowered, blank        \*   whose fix was pushed; depth lowered; blank line

queues == << fix, txt, raw, satlist >>
ghosts == << count, reports, latest, fixed, lowered, blank >>
vars == << depth, queues, running, parser, pc, left, work, ended, ghosts >>

Thread == User \cup {"parser"}

Init ==
    /\ depth = FIRST_DEPTH
    /\ fix = << >> /\ txt = << >> /\ raw = << >> /\ satlist = << >>
    /\ running = FALSE
    /\ parser = "none"
    /\ pc = [u \in User |-> "idle"] /\ left = [u \in User |-> 0]
    /\ work = [t \in Thread |-> << >>]
    /\ ended = "no"
    /\ count = 0 /\ reports = 0 /\ latest = [p \in Prn |-> 0] /\ fixed = {}
    /\ lowered = FALSE /\ blank = FALSE

-----------------------------------------------------------------------------
(* The containers. *)

\* A slip: a full queue is emptied.
Mut_push_empties(q, x) == IF Len(q) = depth THEN << x >> ELSE Append(q, x)

\* A slip: the test comes after the push.
Mut_push_late(q, x) ==
    IF Len(q) > depth THEN Tail(Append(q, x)) ELSE Append(q, x)

\* Throw away the oldest if full, and push.
Push(q, x) == Append(IF Len(q) = depth THEN Tail(q) ELSE q, x)

\* The first element of a list that reports p, or none, is erased.
Without(list, p) ==
    IF \A i \in DOMAIN list : list[i].prn # p THEN list
    ELSE LET i == CHOOSE i \in DOMAIN list :
                    list[i].prn = p /\ \A j \in 1 .. i - 1 : list[j].prn # p
         IN SubSeq(list, 1, i - 1) \o SubSeq(list, i + 1, Len(list))

\* A slip: a satellite that is known stays where it is in the list.
Mut_sat_in_place(list, s, total) ==
    IF \E i \in DOMAIN list : list[i].prn = s.prn
    THEN [i \in DOMAIN list |-> IF list[i].prn = s.prn THEN s ELSE list[i]]
    ELSE LET l == Append(list, s)
         IN IF Len(l) > total THEN SubSeq(l, Len(l) - total + 1, Len(l)) ELSE l

\* A report goes to the end; the oldest go while there are more than total.
AddSat(list, s, total) ==
    LET l == Append(Without(list, s.prn), s)
    IN IF Len(l) > total THEN SubSeq(l, Len(l) - total + 1, Len(l)) ELSE l

-----------------------------------------------------------------------------
(* Sentences, and the steps that parsing one consists of. *)

Sentence ==
    {[kind |-> k] : k \in {"fix", "txt", "other"}} \cup {[kind |-> "gsv", gsv |-> g] : g \in Gsv}

\* A slip: the raw sentence is queued first.
Mut_raw_first(s, n) ==
    << [op |-> "raw", id |-> n, kind |-> s.kind] >> \o
    (IF s.kind \in {"fix", "txt"} THEN << [op |-> s.kind, id |-> n] >> ELSE << >>)

\* parseNMEASentence: the parser of the sentence's kind, then the raw queue.
parseNMEASentence(s, n) ==
    (CASE s.kind \in {"fix", "txt"} -> << [op |-> s.kind, id |-> n] >>
       [] s.kind = "gsv" -> [i \in DOMAIN s.gsv.sats |->
                                [op |-> "sat", prn |-> s.gsv.sats[i], total |-> s.gsv.total]]
       [] OTHER -> << >>)
    \o << [op |-> "raw", id |-> n, kind |-> s.kind] >>

\* One step of the sentences a thread is parsing.
Parse(t) ==
    /\ work[t] # << >>
    /\ work' = [work EXCEPT ![t] = Tail(@)]
    /\ LET w == Head(work[t]) IN
         \/ /\ w.op = "fix"
            /\ fix' = Push(fix, w.id) /\ fixed' = fixed \cup {w.id}
            /\ UNCHANGED << txt, raw, satlist, reports, latest >>
         \/ /\ w.op = "txt"
            /\ txt' = Push(txt, w.id)
            /\ UNCHANGED << fix, raw, satlist, reports, latest, fixed >>
         \/ /\ w.op = "sat"
            /\ reports' = reports + 1
            /\ latest' = [latest EXCEPT ![w.prn] = reports + 1]
            /\ satlist' = AddSat(satlist, [prn |-> w.prn, at |-> reports + 1], w.total)
            /\ UNCHANGED << fix, txt, raw, fixed >>
         \/ /\ w.op = "raw"
            /\ raw' = Push(raw, [id |-> w.id, kind |-> w.kind])
            /\ UNCHANGED << fix, txt, satlist, reports, latest, fixed >>
    /\ UNCHANGED << depth, running, parser, pc, left, ended, count, lowered, blank >>

-----------------------------------------------------------------------------
(* The parser thread. *)

\* A slip: the thread never looks at _running.
Mut_loop_for_ever == TRUE

KeepGoing == running

LoopTest ==
    /\ parser = "test"
    /\ parser' = IF KeepGoing THEN "wait" ELSE "done"
    /\ UNCHANGED << depth, queues, running, pc, left, work, ended, ghosts >>

\* dataAvailable: a block of one or two sentences, or the timeout.
DataAvailable ==
    /\ parser = "wait"
    /\ UNCHANGED << depth, queues, running, pc, left, ended, reports, latest,
                    fixed, lowered, blank >>
    /\ \/ /\ parser' = "test" /\ UNCHANGED << work, count >>
       \/ /\ parser' = "parse"
          /\ \E s \in Sentence :
               \/ /\ count < MaxSentences /\ count' = count + 1
                  /\ work' = [work EXCEPT !["parser"] = parseNMEASentence(s, count + 1)]
               \/ \E r \in Sentence :
                    /\ count + 1 < MaxSentences /\ count' = count + 2
                    /\ work' = [work EXCEPT !["parser"] =
                         parseNMEASentence(s, count + 1) \o parseNMEASentence(r, count + 2)]

\* readStr throws when the device cannot be read; nobody catches it.
ReadFails ==
    /\ parser = "wait"
    /\ ended' = "read"
    /\ UNCHANGED << depth, queues, running, parser, pc, left, work, ghosts >>

BlockParsed ==
    /\ parser = "parse" /\ work["parser"] = << >>
    /\ parser' = "test"
    /\ UNCHANGED << depth, queues, running, pc, left, work, ended, ghosts >>

ParserThread == LoopTest \/ DataAvailable \/ BlockParsed \/ (parser = "parse" /\ Parse("parser"))

-----------------------------------------------------------------------------
(* The program's threads. *)

Goto(u, l) == pc' = [pc EXCEPT ![u] = l]

StartTest(u) ==
    /\ pc[u] = "idle" /\ ~running
    /\ Goto(u, "starting")
    /\ UNCHANGED << depth, queues, running, parser, left, work, ended, ghosts >>

StartSet(u) ==
    /\ pc[u] = "starting"
    /\ running' = TRUE
    /\ Goto(u, "assign")
    /\ UNCHANGED << depth, queues, parser, left, work, ended, ghosts >>

\* The new thread is assigned to _parser; if that still stands for a thread,
\* two of them run and the assignment ends the program.
StartAssign(u) ==
    /\ pc[u] = "assign"
    /\ IF parser = "none"
       THEN parser' = "test" /\ ended' = ended
       ELSE parser' = parser /\ ended' = "second_thread"
    /\ Goto(u, "idle")
    /\ UNCHANGED << depth, queues, running, left, work, ghosts >>

StopTest(u) ==
    /\ pc[u] = "idle" /\ running
    /\ Goto(u, "stopping")
    /\ UNCHANGED << depth, queues, running, parser, left, work, ended, ghosts >>

\* A slip: parseStop does not wait for the thread.
Mut_stop_no_join(u) ==
    /\ pc[u] = "stopping"
    /\ running' = FALSE
    /\ Goto(u, "idle")
    /\ UNCHANGED << depth, queues, parser, left, work, ended, ghosts >>

StopSet(u) ==
    /\ pc[u] = "stopping"
    /\ running' = FALSE
    /\ Goto(u, IF parser = "none" THEN "idle" ELSE "join")
    /\ UNCHANGED << depth, queues, parser, left, work, ended, ghosts >>

\* A thread that is joined twice ends the program as well.
Join(u) ==
    /\ pc[u] = "join" /\ parser \in {"none", "done"}
    /\ ended' = IF parser = "none" THEN "joined_twice" ELSE ended
    /\ parser' = "none"
    /\ Goto(u, "idle")
    /\ UNCHANGED << depth, queues, running, left, work, ghosts >>

\* A slip: zero is let through, and an empty queue counts as full.
Mut_clamp_no_zero(d) == IF d > MAX_DEPTH THEN MAX_DEPTH ELSE d

Clamp(d) == IF d > MAX_DEPTH THEN MAX_DEPTH ELSE IF d = 0 THEN 1 ELSE d

\* The depth changes at once; what is in the queues stays.
setMaxQueueDepth(u) ==
    /\ pc[u] = "idle"
    /\ \E d \in Depths :
         depth' = Clamp(d) /\ lowered' = (lowered \/ Clamp(d) < depth)
    /\ UNCHANGED << queues, running, parser, pc, left, work, ended, count,
                    reports, latest, fixed, blank >>

Feed(u) ==
    \E s \in Sentence :
      /\ pc[u] = "idle" /\ work[u] = << >>
      /\ count < MaxSentences /\ count' = count + 1
      /\ work' = [work EXCEPT ![u] = parseNMEASentence(s, count + 1)]
      /\ Goto(u, "feeding")
      /\ UNCHANGED << depth, queues, running, parser, left, ended, reports, latest,
                      fixed, lowered, blank >>

Fed(u) ==
    /\ pc[u] = "feeding" /\ work[u] = << >>
    /\ Goto(u, "idle")
    /\ UNCHANGED << depth, queues, running, parser, left, work, ended, ghosts >>

Get(u) ==
    /\ pc[u] = "idle"
    /\ \/ fix # << >> /\ fix' = Tail(fix) /\ UNCHANGED << txt, raw >>
       \/ raw # << >> /\ raw' = Tail(raw) /\ UNCHANGED << fix, txt >>
       \/ txt # << >> /\ txt' = Tail(txt) /\ UNCHANGED << fix, raw >>
    /\ UNCHANGED << depth, satlist, running, parser, pc, left, work, ended, ghosts >>

\* __str__ reads how many messages there are, and later pops and prints them.
StrSize(u) ==
    /\ pc[u] = "idle" /\ txt # << >>
    /\ left' = [left EXCEPT ![u] = Len(txt)]
    /\ Goto(u, "printing")
    /\ UNCHANGED << depth, queues, running, parser, work, ended, ghosts >>

StrPop(u) ==
    /\ pc[u] = "printing"
    /\ IF txt = << >> THEN txt' = txt /\ blank' = TRUE
       ELSE txt' = Tail(txt) /\ blank' = blank
    /\ left' = [left EXCEPT ![u] = @ - 1]
    /\ Goto(u, IF left[u] = 1 THEN "idle" ELSE "printing")
    /\ UNCHANGED << depth, fix, raw, satlist, running, parser, work, ended, count,
                    reports, latest, fixed, lowered >>

UserThread(u) ==
    \/ StartTest(u) \/ StartSet(u) \/ StartAssign(u)
    \/ StopTest(u) \/ StopSet(u) \/ Join(u)
    \/ setMaxQueueDepth(u) \/ Feed(u) \/ (pc[u] = "feeding" /\ Parse(u)) \/ Fed(u)
    \/ Get(u) \/ StrSize(u) \/ StrPop(u)

Next == ended = "no" /\ (ParserThread \/ ReadFails \/ \E u \in User : UserThread(u))

Spec == Init /\ [][Next]_vars

\* The threads are scheduled, and dataAvailable returns after its timeout.
FairSpec ==
    /\ Spec
    /\ WF_vars(ended = "no" /\ ParserThread)
    /\ \A u \in User : WF_vars(ended = "no" /\ (StopSet(u) \/ Join(u)))

-----------------------------------------------------------------------------
(* Properties. *)

Kind == {"fix", "txt", "gsv", "other"}
Queued == [id : Nat, kind : Kind]
Step ==
    [op : {"fix", "txt"}, id : Nat] \cup [op : {"sat"}, prn : Prn, total : Nat]
      \cup [op : {"raw"}, id : Nat, kind : Kind]

\* A depth of zero would make an empty queue count as full, and throw away
\* from it; setMaxQueueDepth sees to it that there is none.
TypeOK ==
    /\ depth \in 1 .. MAX_DEPTH
    /\ fix \in Seq(Nat) /\ txt \in Seq(Nat) /\ raw \in Seq(Queued)
    /\ work \in [Thread -> Seq(Step)]
    /\ count \in Nat

\* As long as nobody has lowered the depth, no queue ever holds more than the
\* depth allows, whoever parses and whoever takes.
WithinDepth ==
    ~lowered => Len(fix) <= depth /\ Len(txt) <= depth /\ Len(raw) <= depth

\* The list names each satellite once, with its latest report, and the
\* reports are in the order they came, although another thread may report
\* between two satellites of a sentence.
SatellitesCurrent ==
    /\ \A i \in DOMAIN satlist : satlist[i].at = latest[satlist[i].prn]
    /\ \A i, j \in DOMAIN satlist : i < j => satlist[i].at < satlist[j].at

\* Whoever sees a raw sentence with a fix can rely on the fix having been
\* pushed before.
FixBeforeRaw == \A i \in DOMAIN raw : raw[i].kind = "fix" => raw[i].id \in fixed

\* With one thread taking messages, __str__ prints as many as it announced,
\* although the parser throws messages away in the meantime.
NoBlankMessage == ~blank

\* What WithinDepth needs to be inductive.
IInv == TypeOK /\ WithinDepth

\* Starting and stopping, by one thread in any order, never ends the program,
\* and a stopped instance has no thread left behind.
ThreadsInOrder ==
    /\ ended \in {"no", "read"}
    /\ \A u \in User : pc[u] = "idle" => (running <=> parser # "none")

\* parseStop always returns, unless the program ends before.
StopReturns == \A u \in User : pc[u] = "join" ~> pc[u] = "idle" \/ ended # "no"
=============================================================================
