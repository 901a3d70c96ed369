--------------------------- MODULE ShmQueueProofs ---------------------------
(***************************************************************************)
(* Theorems about ShmQueue for every size of the region, every set of      *)
(* frame sizes and every number of frames, whatever the pace of the two    *)
(* processes and whenever they die; and, at the end, about a handler that  *)
(* keeps up: the ring is then a channel (FrameChannel).                    *)
(***************************************************************************)
EXTENDS ShmQueue, TLAPS

-----------------------------------------------------------------------------
(* Type correctness and the lock.                                          *)

Busy == spc \in {"acquire", "join", "reacquire", "put", "publish"}

\* What TypeOK needs to be inductive: the message in hand has a header, and the
\* message being returned is still counted.
IndType ==
    /\ TypeOK
    /\ Busy => frame.size >= 1
    /\ HandlerInside => message_cnt >= 1

LEMMA AtType ==
    ASSUME TypeOK, NEW off \in Int
    PROVE  At(off) \in Cell
BY DEF TypeOK, At, ZeroCell, Cell

LEMMA NextStartType ==
    ASSUME TypeOK, ConfigAssumption
    PROVE  NextStart \in Nat
<1>1. CASE rear_position = 0
    BY <1>1 DEF NextStart
<1>2. CASE rear_position # 0
    <2>1. rear_position - MetricSize \in Int
        BY DEF TypeOK, ConfigAssumption
    <2>2. At(rear_position - MetricSize) \in Cell
        BY <2>1, AtType
    <2> QED
        BY <1>2, <2>2 DEF NextStart, Cell
<1> QED
    BY <1>1, <1>2

LEMMA WrittenType ==
    ASSUME TypeOK, frame.size >= 1, NEW id \in Nat, ConfigAssumption
    PROVE  Written(frame, start, id) \in [Offsets -> Cell]
<1> SUFFICES ASSUME NEW a \in Offsets
             PROVE  Written(frame, start, id)[a] \in Cell
    BY DEF Written
<1>1. a \in Nat /\ start \in Nat /\ frame.size \in Nat
    BY DEF TypeOK, Offsets, ConfigAssumption
<1>2. CASE a = start
    <2>1. Written(frame, start, id)[a] = Header(frame, start, id)
        BY <1>1, <1>2 DEF Written
    <2>2. Header(frame, start, id) \in Cell
        BY <1>1 DEF Header, Cell
    <2> QED
        BY <2>1, <2>2
<1>3. CASE a # start /\ start < a /\ a < start + frame.size
    <2>1. Written(frame, start, id)[a] = Datum(frame, id, a - start)
        BY <1>3 DEF Written
    <2>2. a - start \in Nat
        BY <1>1, <1>3
    <2>3. Datum(frame, id, a - start) \in Cell
        BY <2>2 DEF Datum, Cell, TypeOK
    <2> QED
        BY <2>1, <2>3
<1>4. CASE a # start /\ ~(start < a /\ a < start + frame.size)
    <2>1. Written(frame, start, id)[a] = mem[a]
        BY <1>4 DEF Written
    <2> QED
        BY <2>1 DEF TypeOK
<1> QED
    BY <1>2, <1>3, <1>4

LEMMA InitIndType == ConfigAssumption /\ Init => IndType
<1> SUFFICES ASSUME ConfigAssumption, Init PROVE IndType
    OBVIOUS
<1>1. mem \in [Offsets -> Cell]
    BY DEF Init, Cell, ZeroCell
<1>2. frame \in [size : Nat, pixel : [processed : BOOLEAN, dataLength : Nat, next : Nat]]
    BY DEF Init, NoFrame
<1>3. held \in [dataLength : Nat, msg : Nat]
    BY DEF Init, NoMessage
<1>4. log \in Seq([off : Nat, size : Nat]) /\ received \in Seq(Nat)
    BY DEF Init
<1>5. TypeOK
    BY <1>1, <1>2, <1>3, <1>4 DEF Init, TypeOK, ConfigAssumption
<1> QED
    BY <1>5 DEF Init, IndType, Busy, HandlerInside

LEMMA ReadableHead ==
    ASSUME TypeOK, ConfigAssumption, Readable
    PROVE  head \in Offsets /\ At(head) = mem[head]
<1>1. head \in Int
    BY DEF head, TypeOK, ConfigAssumption
<1>2. At(head).dataLength \in Nat
    BY <1>1, AtType DEF Cell
<1>3. head + 0 \in Offsets
    BY <1>2 DEF Readable
<1> QED
    BY <1>1, <1>3 DEF At

LEMMA ContentType ==
    ASSUME TypeOK, ConfigAssumption
    PROVE  Content \in Nat
<1>1. head \in Int
    BY DEF head, TypeOK, ConfigAssumption
<1>2. At(head).msg \in Nat
    BY <1>1, AtType DEF Cell
<1> QED
    BY <1>2 DEF Content

LEMMA NextIndType ==
    ASSUME ConfigAssumption, IndType, [Next]_vars
    PROVE  IndType'
<1> USE DEF Busy, HandlerInside
<1>1. CASE NextFrame
    <2>1. PICK size \in Sizes, pixel \in Pixels : frame' = [size |-> size, pixel |-> pixel]
        BY <1>1 DEF NextFrame
    <2>2. /\ frame' \in [size : Nat, pixel : [processed : BOOLEAN, dataLength : Nat, next : Nat]]
          /\ frame'.size >= 1
        BY <2>1 DEF ConfigAssumption
    <2> QED
        BY <1>1, <2>2 DEF NextFrame, IndType, TypeOK, metric, handler
<1>2. CASE EnqueueStart
    <2>1. start' \in Nat
        BY <1>2, NextStartType DEF EnqueueStart, IndType
    <2> QED
        BY <1>2, <2>1 DEF EnqueueStart, IndType, TypeOK, handler
<1>3. CASE EnqueueOverflow
    BY <1>3 DEF EnqueueOverflow, IndType, TypeOK, metric, handler
<1>4. CASE TraversalFault
    BY <1>4 DEF TraversalFault, IndType, TypeOK, metric, handler
<1>5. CASE JoinListener
    BY <1>5 DEF JoinListener, IndType, TypeOK, metric, handler
<1>6. CASE EnqueueReacquire
    BY <1>6 DEF EnqueueReacquire, IndType, TypeOK, handler
<1>7. CASE PutOnSHM
    <2>1. Len(log) + 1 \in Nat
        BY DEF IndType, TypeOK
    <2>2. mem' \in [Offsets -> Cell]
        BY <1>7, <2>1, WrittenType DEF PutOnSHM, IndType
    <2> QED
        BY <1>7, <2>2 DEF PutOnSHM, IndType, TypeOK, metric, handler
<1>8. CASE PublishFrame
    <2>1. MetricSize + start \in Nat
        BY DEF ConfigAssumption, IndType, TypeOK
    <2>2. log' \in Seq([off : Nat, size : Nat])
        BY <1>8 DEF PublishFrame, IndType, TypeOK
    <2>3. frame' \in [size : Nat, pixel : [processed : BOOLEAN, dataLength : Nat, next : Nat]]
        BY <1>8 DEF PublishFrame, NoFrame
    <2>4. head_position' \in Nat /\ rear_position' \in Nat /\ message_cnt' \in Nat
        BY <1>8, <2>1 DEF PublishFrame, HeadOnPublish, IndType, TypeOK
    <2>5. TypeOK'
        BY <1>8, <2>2, <2>3, <2>4 DEF PublishFrame, IndType, TypeOK, handler
    <2>6. HandlerInside' => message_cnt' >= 1
        BY <1>8 DEF PublishFrame, IndType, TypeOK, handler
    <2> QED
        BY <1>8, <2>5, <2>6 DEF PublishFrame, IndType
<1>9. CASE WaitForMessages
    BY <1>9 DEF WaitForMessages, IndType, TypeOK, metric, streamer
<1>10. CASE DequeEmpty
    BY <1>10 DEF DequeEmpty, IndType, TypeOK, metric, streamer
<1>11. CASE DequeFetch
    <2>1. head \in Offsets /\ At(head) = mem[head] /\ mem[head] \in Cell
        BY <1>11, ReadableHead DEF DequeFetch, IndType, TypeOK
    <2>2. held' \in [dataLength : Nat, msg : Nat]
        BY <1>11, <2>1, ContentType DEF DequeFetch, IndType, Cell
    <2>3. mem' \in [Offsets -> Cell]
        BY <1>11, <2>1 DEF DequeFetch, Acked, IndType, TypeOK, Cell
    <2>4. head_position' \in Nat
        BY <1>11, <2>1 DEF DequeFetch, NextHead, Cell, ConfigAssumption
    <2> QED
        BY <1>11, <2>2, <2>3, <2>4 DEF DequeFetch, IndType, TypeOK, streamer
<1>12. CASE DequeFault
    BY <1>12 DEF DequeFault, IndType, TypeOK, streamer
<1>13. CASE DequeRelease
    <2>1. received' \in Seq(Nat)
        BY <1>13 DEF DequeRelease, IndType, TypeOK
    <2>2. held' \in [dataLength : Nat, msg : Nat]
        BY <1>13 DEF DequeRelease, NoMessage
    <2>3. hpc' \in {"callback", "wait"}
        BY <1>13 DEF DequeRelease
    <2>4. message_cnt' \in Nat
        BY <1>13 DEF DequeRelease, IndType, TypeOK
    <2>5. TypeOK'
        BY <1>13, <2>1, <2>2, <2>3, <2>4 DEF DequeRelease, IndType, TypeOK, streamer
    <2> QED
        BY <1>13, <2>3, <2>5 DEF DequeRelease, IndType, streamer
<1>14. CASE Callback
    BY <1>14 DEF Callback, IndType, TypeOK, metric, streamer
<1>15. CASE KillStreamer
    BY <1>15 DEF KillStreamer, IndType, TypeOK, metric, handler
<1>16. CASE KillHandler
    BY <1>16 DEF KillHandler, IndType, TypeOK, metric, streamer
<1>17. CASE UNCHANGED vars
    BY <1>17 DEF vars, IndType, TypeOK
<1> QED
    BY <1>1, <1>2, <1>3, <1>4, <1>5, <1>6, <1>7, <1>8, <1>9, <1>10, <1>11,
       <1>12, <1>13, <1>14, <1>15, <1>16, <1>17 DEF Next, Enqueue, Handler

\* Every variable keeps its type for every size of region and frames: in
\* particular message_cnt, a size_t that Deque lowers, never wraps below 0.
THEOREM TypeCorrect == Spec => []TypeOK
<1>1. Init => IndType
    BY ConfigAssumption, InitIndType
<1>2. IndType /\ [Next]_vars => IndType'
    BY ConfigAssumption, NextIndType
<1>3. IndType => TypeOK
    BY DEF IndType
<1> QED
    BY <1>1, <1>2, <1>3, PTL DEF Spec

-----------------------------------------------------------------------------
(* The spin lock and the message counter.                                  *)

LEMMA NextLockDiscipline ==
    ASSUME IndType, LockDiscipline, [Next]_vars
    PROVE  LockDiscipline'
<1> USE DEF LockDiscipline, StreamerInside, HandlerInside
<1>1. CASE NextFrame
    BY <1>1 DEF NextFrame, metric, handler
<1>2. CASE EnqueueStart
    BY <1>2 DEF EnqueueStart, handler
<1>3. CASE EnqueueOverflow
    BY <1>3 DEF EnqueueOverflow, metric, handler
<1>4. CASE TraversalFault
    BY <1>4 DEF TraversalFault, metric, handler
<1>5. CASE JoinListener
    BY <1>5 DEF JoinListener, metric, handler
<1>6. CASE EnqueueReacquire
    BY <1>6 DEF EnqueueReacquire, handler
<1>7. CASE PutOnSHM
    BY <1>7 DEF PutOnSHM, metric, handler
<1>8. CASE PublishFrame
    BY <1>8 DEF PublishFrame, handler
<1>9. CASE WaitForMessages
    BY <1>9 DEF WaitForMessages, metric, streamer
<1>10. CASE DequeEmpty
    BY <1>10 DEF DequeEmpty, metric, streamer
<1>11. CASE DequeFetch
    BY <1>11 DEF DequeFetch, streamer
<1>12. CASE DequeFault
    BY <1>12 DEF DequeFault, streamer
<1>13. CASE DequeRelease
    BY <1>13 DEF DequeRelease, streamer
<1>14. CASE Callback
    BY <1>14 DEF Callback, metric, streamer
<1>15. CASE KillStreamer
    BY <1>15 DEF KillStreamer, metric, handler
<1>16. CASE KillHandler
    BY <1>16 DEF KillHandler, metric, streamer
<1>17. CASE UNCHANGED vars
    BY <1>17 DEF vars
<1> QED
    BY <1>1, <1>2, <1>3, <1>4, <1>5, <1>6, <1>7, <1>8, <1>9, <1>10, <1>11,
       <1>12, <1>13, <1>14, <1>15, <1>16, <1>17 DEF Next, Enqueue, Handler

\* Enqueue and Deque are never inside the lock together, and no path of either
\* leaves it taken: it is only ever lost with the process that held it.
THEOREM LockIsDisciplined == Spec => []LockDiscipline
<1>1. Init => IndType /\ LockDiscipline
    BY ConfigAssumption, InitIndType
    DEF Init, LockDiscipline, StreamerInside, HandlerInside
<1>2. IndType /\ LockDiscipline /\ [Next]_vars => IndType' /\ LockDiscipline'
    BY ConfigAssumption, NextIndType, NextLockDiscipline
<1> QED
    BY <1>1, <1>2, PTL DEF Spec

LEMMA NextCountNeverOverReports ==
    ASSUME IndType, CountNeverOverReports, [Next]_vars
    PROVE  CountNeverOverReports'
<1> USE DEF CountNeverOverReports
<1>1. CASE PublishFrame
    <2>1. Len(log') = Len(log) + 1
        BY <1>1 DEF PublishFrame, IndType, TypeOK
    <2> QED
        BY <1>1, <2>1 DEF PublishFrame, IndType, TypeOK
<1>2. CASE DequeRelease
    <2>1. Len(received') \in {Len(received), Len(received) + 1}
        BY <1>2 DEF DequeRelease, IndType, TypeOK
    <2> QED
        BY <1>2, <2>1 DEF DequeRelease, IndType, TypeOK
<1>3. CASE UNCHANGED <<message_cnt, log, received>>
    BY <1>3
<1> QED
    BY <1>1, <1>2, <1>3
    DEF Next, Enqueue, Handler, vars, metric, streamer, handler, NextFrame,
        EnqueueStart, EnqueueOverflow, TraversalFault, JoinListener,
        EnqueueReacquire, PutOnSHM, WaitForMessages, DequeEmpty, DequeFetch,
        DequeFault, Callback, KillStreamer, KillHandler

\* message_cnt never promises the handler more frames than were published and
\* not yet kept, whatever is lost or read twice on the way.
THEOREM CountIsHonest == Spec => []CountNeverOverReports
<1>1. Init => IndType /\ CountNeverOverReports
    BY ConfigAssumption, InitIndType DEF Init, CountNeverOverReports
<1>2. IndType /\ CountNeverOverReports /\ [Next]_vars
        => IndType' /\ CountNeverOverReports'
    BY ConfigAssumption, NextIndType, NextCountNeverOverReports
<1> QED
    BY <1>1, <1>2, PTL DEF Spec

-----------------------------------------------------------------------------
(* The rear message, which Enqueue reads without a check.                  *)

\* The header of frame i, of this size, lies at off; the whole frame does.
HeaderAt(i, off, size) ==
    /\ off \in Offsets
    /\ mem[off].msg = i /\ mem[off].unit = 0
    /\ mem[off].next = off + size /\ mem[off].dataLength = size - 1

Placed(i, off, size) ==
    /\ HeaderAt(i, off, size)
    /\ \A u \in 1 .. (size - 1) :
           off + u \in Offsets /\ mem[off + u].msg = i /\ mem[off + u].unit = u

Last == log[Len(log)]

\* RearIntact in the inductive form: also between PutOnSHM and SetRear.
IndRear ==
    /\ spc = "publish" => HeaderAt(Len(log) + 1, start, frame.size)
    /\ spc \notin {"publish", "dead"} /\ log # <<>> =>
           /\ rear_position = MetricSize + Last.off
           /\ HeaderAt(Len(log), Last.off, Last.size)

\* What the handler leaves alone: of a message it only changes `processed'.
LEMMA HandlerKeeps ==
    ASSUME ConfigAssumption, IndType, Handler \/ KillHandler
    PROVE  /\ UNCHANGED <<rear_position, streamer, log>>
           /\ \A a \in Offsets :
                  /\ mem'[a].msg = mem[a].msg
                  /\ mem'[a].unit = mem[a].unit
                  /\ mem'[a].next = mem[a].next
                  /\ mem'[a].dataLength = mem[a].dataLength
<1>1. CASE DequeFetch
    <2>1. head \in Offsets /\ mem \in [Offsets -> Cell]
        BY <1>1, ReadableHead DEF DequeFetch, IndType, TypeOK
    <2>2. mem' = [mem EXCEPT ![head].processed = TRUE]
        BY <1>1 DEF DequeFetch, Acked
    <2>3. ASSUME NEW a \in Offsets
          PROVE  /\ mem'[a].msg = mem[a].msg
                 /\ mem'[a].unit = mem[a].unit
                 /\ mem'[a].next = mem[a].next
                 /\ mem'[a].dataLength = mem[a].dataLength
        BY <2>1, <2>2 DEF Cell
    <2> QED
        BY <1>1, <2>3 DEF DequeFetch
<1>2. CASE UNCHANGED <<rear_position, streamer, log, mem>>
    BY <1>2
<1> QED
    BY <1>1, <1>2
    DEF Handler, WaitForMessages, DequeEmpty, DequeFault, DequeRelease, Callback,
        KillHandler, metric

\* A put that stays in the mapping places the frame.
LEMMA PutPlaces ==
    ASSUME ConfigAssumption, IndType, PutOnSHM, spc' # "dead"
    PROVE  Placed(Len(log) + 1, start, frame.size)'
<1>1. /\ \A u \in 0 .. (frame.size - 1) : start + u \in Offsets
      /\ mem' = Written(frame, start, Len(log) + 1)
      /\ UNCHANGED <<start, frame, log>>
      /\ frame.size \in Nat /\ frame.size >= 1 /\ start \in Nat
    BY DEF PutOnSHM, IndType, TypeOK, Busy
<1>2. start + 0 \in Offsets
    BY <1>1
<1>3. mem'[start] = Header(frame, start, Len(log) + 1)
    BY <1>1, <1>2 DEF Written
<1>4. HeaderAt(Len(log) + 1, start, frame.size)'
    BY <1>1, <1>2, <1>3 DEF HeaderAt, Header
<1>5. ASSUME NEW u \in 1 .. (frame.size - 1)
      PROVE  /\ start + u \in Offsets
             /\ mem'[start + u].msg = Len(log) + 1
             /\ mem'[start + u].unit = u
    <2>1. start + u \in Offsets
        BY <1>1
    <2>2. start + u # start /\ start < start + u /\ start + u < start + frame.size
        BY <1>1
    <2>3. mem'[start + u] = Datum(frame, Len(log) + 1, start + u - start)
        BY <1>1, <2>1, <2>2 DEF Written
    <2>4. start + u - start = u
        BY <1>1
    <2> QED
        BY <2>1, <2>3, <2>4 DEF Datum
<1> QED
    BY <1>1, <1>4, <1>5 DEF Placed

LEMMA NextIndRear ==
    ASSUME ConfigAssumption, IndType, IndRear, [Next]_vars
    PROVE  IndRear'
<1>1. CASE PutOnSHM
    <2>1. spc' = "publish" \/ spc' = "dead"
        BY <1>1 DEF PutOnSHM
    <2>2. CASE spc' = "publish"
        BY <1>1, <2>2, PutPlaces DEF IndRear, Placed
    <2> QED
        BY <2>1, <2>2 DEF IndRear
<1>2. CASE PublishFrame
    <2>1. /\ Len(log') = Len(log) + 1
          /\ log'[Len(log')] = [off |-> start, size |-> frame.size]
        BY <1>2 DEF PublishFrame, IndType, TypeOK
    <2>2. HeaderAt(Len(log) + 1, start, frame.size) /\ UNCHANGED mem
        BY <1>2 DEF PublishFrame, IndRear
    <2>3. HeaderAt(Len(log), Last.off, Last.size)'
        BY <2>1, <2>2 DEF HeaderAt, Last
    <2> QED
        BY <1>2, <2>1, <2>3 DEF PublishFrame, IndRear, Last
<1>3. CASE Handler \/ KillHandler
    <2>1. UNCHANGED <<rear_position, spc, frame, start, log>>
        BY <1>3, HandlerKeeps DEF streamer
    <2>2. ASSUME NEW i, NEW off, NEW size, HeaderAt(i, off, size)
          PROVE  /\ off \in Offsets
                 /\ mem'[off].msg = i /\ mem'[off].unit = 0
                 /\ mem'[off].next = off + size /\ mem'[off].dataLength = size - 1
        BY <1>3, <2>2, HandlerKeeps DEF HeaderAt
    <2>3. CASE spc = "publish"
        BY <2>1, <2>2, <2>3 DEF IndRear, HeaderAt
    <2>4. CASE spc \notin {"publish", "dead"} /\ log # <<>>
        BY <2>1, <2>2, <2>4 DEF IndRear, HeaderAt, Last
    <2> QED
        BY <2>1, <2>3, <2>4 DEF IndRear
<1>4. CASE /\ UNCHANGED <<rear_position, mem, log>>
           /\ spc \notin {"publish", "dead"} \/ UNCHANGED <<spc, start, frame>>
           /\ spc' = "publish" => UNCHANGED <<spc, start, frame>>
    BY <1>4 DEF IndRear, HeaderAt, Last
<1>5. CASE KillStreamer \/ TraversalFault
    BY <1>5 DEF KillStreamer, TraversalFault, IndRear
<1> QED
    BY <1>1, <1>2, <1>3, <1>4, <1>5
    DEF Next, Enqueue, vars, metric, streamer, NextFrame,
        EnqueueStart, EnqueueOverflow, JoinListener, EnqueueReacquire

LEMMA RearBehind == ConfigAssumption /\ IndType /\ IndRear => RearIntact
<1> SUFFICES ASSUME ConfigAssumption, IndType, IndRear, spc \notin {"publish", "dead"}, log # <<>>
             PROVE  /\ rear_position = MetricSize + Last.off
                    /\ mem[Last.off].msg = Len(log)
                    /\ mem[Last.off].unit = 0
                    /\ NextStart = Last.off + Last.size
    BY DEF RearIntact, Last
<1>1. rear_position = MetricSize + Last.off /\ HeaderAt(Len(log), Last.off, Last.size)
    BY DEF IndRear
<1>2. Last.off \in Nat /\ MetricSize \in Nat \ {0}
    BY <1>1, ConfigAssumption DEF HeaderAt, Offsets, ConfigAssumption
<1>3. rear_position # 0 /\ rear_position - MetricSize = Last.off
    BY <1>1, <1>2
<1> QED
    BY <1>1, <1>3 DEF NextStart, At, HeaderAt

\* Whatever the pace, the sizes and the deaths, the message Enqueue takes for the
\* rear one is the last published, and its next pointer still leads behind it.
THEOREM RearIsIntact == Spec => []RearIntact
<1>1. Init => IndType /\ IndRear
    BY ConfigAssumption, InitIndType DEF Init, IndRear
<1>2. IndType /\ IndRear /\ [Next]_vars => IndType' /\ IndRear'
    BY ConfigAssumption, NextIndType, NextIndRear
<1>3. IndType /\ IndRear => RearIntact
    BY ConfigAssumption, RearBehind
<1> QED
    BY <1>1, <1>2, <1>3, PTL DEF Spec

-----------------------------------------------------------------------------
(* Sequences.                                                              *)

LEMMA ElementType ==
    ASSUME NEW S, NEW s \in Seq(S), NEW i \in 1 .. Len(s)
    PROVE  s[i] \in S
OBVIOUS

LEMMA AppendElements ==
    ASSUME NEW S, NEW s \in Seq(S), NEW e \in S
    PROVE  /\ Len(Append(s, e)) = Len(s) + 1
           /\ \A i \in 1 .. Len(s) : Append(s, e)[i] = s[i]
           /\ Append(s, e)[Len(s) + 1] = e
OBVIOUS

-----------------------------------------------------------------------------
(* Frames of one size.  The streamer then writes the same slots lap after   *)
(* lap.  Frames are lost when it overtakes the handler, but what lies in    *)
(* the slots stays whole and in order, and the handler follows it.          *)

\* All frames, the one in hand included, have this size.
Uniform(s) ==
    /\ \A i \in 1 .. Len(log) : log[i].size = s
    /\ frame # NoFrame => frame.size = s

InvSizes ==
    /\ spc = "idle" => frame = NoFrame
    /\ frame # NoFrame => frame.size >= 1
    /\ \A i \in 1 .. Len(log) : log[i].size >= 1

InvRear ==
    /\ log = <<>> => rear_position = 0 /\ head_position = MetricSize
    /\ log # <<>> => rear_position = MetricSize + Last.off

\* Where the streamer goes from a slot, and two slots that do not overlap.
Behind(off, s) == IF Overflow(off + s, s) THEN 0 ELSE off + s
Apart(a, b, s) == a = b \/ a + s <= b \/ b + s <= a

InvPlaces(s) ==
    /\ log # <<>> => log[1].off = 0
    /\ \A i \in 1 .. (Len(log) - 1) : log[i + 1].off = Behind(log[i].off, s)
    /\ \A i, j \in 1 .. Len(log) : Apart(log[i].off, log[j].off, s)
    /\ \A i \in 1 .. Len(log) : log[i].off # 0 => ~Overflow(log[i].off, s)

\* What Enqueue has decided, and what it has waited for.
InvLap(s) ==
    /\ spc \in {"put", "publish"} =>
           start = IF log = <<>> THEN 0 ELSE Behind(Last.off, s)
    /\ spc \in {"join", "reacquire"} => log # <<>> /\ Overflow(Last.off + s, s)
    /\ spc = "join" => 0 \in neighbours
    /\ spc = "reacquire" => mem[0].processed

\* What Deque returns: never an older frame than ListenSHMQueue already has.
InvOut(s) ==
    /\ \A i \in 1 .. Len(received) : received[i] \in 1 .. Len(log)
    /\ \A i, j \in 1 .. Len(received) : i < j => received[i] < received[j]
    /\ held.msg <= Len(log)
    /\ held.dataLength # 0 =>
           held.msg # 0 /\ \A j \in 1 .. Len(received) : received[j] < held.msg
    /\ held.msg # 0 => held.dataLength = s - 1
    /\ hpc \notin {"release", "dead"} => held = NoMessage

\* The frames in memory: the published ones and the one about to be.
Stored == IF spc = "publish" THEN Len(log) + 1 ELSE Len(log)
Place(i) == IF i <= Len(log) THEN log[i].off ELSE start

\* Every slot holds one frame, whole; outside the slots nothing was ever written;
\* and of the frames in memory no later one is missing.
InvSlots(s) ==
    /\ \A i \in 1 .. Stored : \E m \in i .. Stored :
           Place(m) = Place(i) /\ Placed(m, Place(i), s)
    /\ \A a \in Offsets :
           \/ \E i \in 1 .. Stored : Place(i) <= a /\ a < Place(i) + s
           \/ mem[a].msg = 0 /\ mem[a].unit = 0 /\ mem[a].next = 0 /\ mem[a].dataLength = 0
    /\ \A i \in 1 .. (Stored - 1) :
           mem[Place(i)].msg = i => mem[Place(i + 1)].msg = i + 1

\* The head is at a slot whose frame is newer than all that Deque has taken, or
\* behind the last slot, from where an empty message leads back to the first.
Fresh(m) == held.msg < m /\ \A j \in 1 .. Len(received) : received[j] < m

InvHead(s) ==
    log # <<>> /\ head_position # 0 =>
        \E i \in 1 .. Len(log) :
            \/ head = log[i].off /\ Fresh(mem[log[i].off].msg)
            \/ head = log[i].off + s /\ Overflow(head, s) /\ Fresh(mem[0].msg)

\* A message with data at the start of the ring is marked processed only when
\* Deque has taken it.
InvSeen(s) ==
    s >= 2 /\ Stored >= 1 /\ mem[0].processed => mem[0].msg \in Kept \cup {held.msg}

\* The streamer died between Acquire and Unlock: what it was writing may be torn,
\* and nobody enters the ring again.
Torn == locked /\ spc = "dead" /\ ~HandlerInside

Laps(s) ==
    /\ InvPlaces(s) /\ InvLap(s) /\ InvOut(s)
    /\ ~Torn => InvSlots(s) /\ InvHead(s) /\ InvSeen(s)

LapsBase ==
    /\ IndType /\ LockDiscipline /\ CountNeverOverReports /\ IndRear
    /\ InvSizes /\ InvRear

IndLaps == LapsBase /\ \A s \in Nat \ {0} : Uniform(s) => Laps(s)

LEMMA HistoryType ==
    ASSUME IndType
    PROVE  /\ Len(log) \in Nat /\ Len(received) \in Nat
           /\ \A i \in 1 .. Len(log) : log[i].off \in Nat /\ log[i].size \in Nat
           /\ \A i \in 1 .. Len(received) : received[i] \in Nat
           /\ log # <<>> <=> Len(log) >= 1
           /\ log # <<>> => Last = log[Len(log)] /\ Len(log) \in 1 .. Len(log)
<1>1. log \in Seq([off : Nat, size : Nat]) /\ received \in Seq(Nat)
    BY DEF IndType, TypeOK
<1>2. ASSUME NEW i \in 1 .. Len(log) PROVE log[i] \in [off : Nat, size : Nat]
    BY <1>1, ElementType
<1>3. ASSUME NEW i \in 1 .. Len(received) PROVE received[i] \in Nat
    BY <1>1, ElementType
<1> QED
    BY <1>1, <1>2, <1>3 DEF Last

LEMMA FirstOffset == 0 \in Offsets /\ MetricSize \in Nat \ {0} /\ ByteSize \in Nat
BY ConfigAssumption DEF ConfigAssumption, Offsets

\* What PublishFrame appends.
LEMMA PublishAppends ==
    ASSUME IndType, PublishFrame
    PROVE  /\ Len(log') = Len(log) + 1 /\ log' # <<>>
           /\ \A i \in 1 .. Len(log) : log'[i] = log[i]
           /\ log'[Len(log) + 1] = [off |-> start, size |-> frame.size]
           /\ Last' = [off |-> start, size |-> frame.size]
<1>1. log \in Seq([off : Nat, size : Nat]) /\ start \in Nat /\ frame.size \in Nat
    BY DEF IndType, TypeOK
<1>2. log' = Append(log, [off |-> start, size |-> frame.size])
    BY DEF PublishFrame
<1>3. [off |-> start, size |-> frame.size] \in [off : Nat, size : Nat]
    BY <1>1
<1> QED
    BY <1>1, <1>2, <1>3, AppendElements DEF Last

\* The steps, by what they may change of the ring.
HandlerIdles ==
    /\ UNCHANGED <<message_cnt, head_position, rear_position, mem, streamer, held,
                   log, received>>
    /\ hpc \in {"release", "dead"} => hpc' \in {"release", "dead"}

StreamerElsewhere == NextFrame \/ TraversalFault \/ KillStreamer

LEMMA RingSteps ==
    ASSUME [Next]_vars
    PROVE  \/ EnqueueStart \/ EnqueueOverflow \/ JoinListener \/ EnqueueReacquire
           \/ PutOnSHM \/ PublishFrame \/ StreamerElsewhere
           \/ DequeFetch \/ DequeRelease \/ HandlerIdles
BY DEF Next, Enqueue, Handler, vars, metric, streamer, handler, HandlerIdles,
       StreamerElsewhere, WaitForMessages, DequeEmpty, DequeFault, Callback, KillHandler

\* A ring that is torn stays so: nobody takes the lock again.
LEMMA TornStays ==
    ASSUME Torn, [Next]_vars
    PROVE  Torn'
BY DEF Torn, HandlerInside, Next, Enqueue, Handler, vars, metric, streamer, handler,
       NextFrame, EnqueueStart, EnqueueOverflow, TraversalFault, JoinListener,
       EnqueueReacquire, PutOnSHM, PublishFrame, WaitForMessages, DequeEmpty,
       DequeFetch, DequeFault, DequeRelease, Callback, KillStreamer, KillHandler

LEMMA UniformBack ==
    ASSUME LapsBase, [Next]_vars, NEW s, Uniform(s)'
    PROVE  Uniform(s)
<1>1. CASE PublishFrame
    <2>1. \A i \in 1 .. Len(log) : log[i].size = s
        BY <1>1, PublishAppends, HistoryType DEF LapsBase, Uniform
    <2>2. frame.size = s
        BY <1>1, PublishAppends, HistoryType DEF LapsBase, Uniform
    <2> QED
        BY <2>1, <2>2 DEF Uniform
<1>2. CASE NextFrame
    BY <1>2 DEF NextFrame, LapsBase, InvSizes, Uniform
<1>3. CASE UNCHANGED <<log, frame>>
    BY <1>3 DEF Uniform
<1> QED
    BY <1>1, <1>2, <1>3, RingSteps
    DEF EnqueueStart, EnqueueOverflow, TraversalFault, JoinListener, EnqueueReacquire,
        PutOnSHM, KillStreamer, DequeFetch, DequeRelease, HandlerIdles,
        StreamerElsewhere, streamer, handler

-----------------------------------------------------------------------------
(* The slots do not overlap, and each is behind only one other.            *)

LEMMA NewPlaceApart ==
    ASSUME ConfigAssumption, IndType, NEW s \in Nat \ {0}, InvPlaces(s), log # <<>>
    PROVE  LET p == Behind(Last.off, s)
           IN /\ p \in Nat
              /\ p # 0 => ~Overflow(p, s)
              /\ \A j \in 1 .. Len(log) : Apart(log[j].off, p, s)
<1> DEFINE p == Behind(Last.off, s)
<1> DEFINE a == Last.off
<1>1. a \in Nat /\ Len(log) \in 1 .. Len(log) /\ Last = log[Len(log)] /\ 1 \in 1 .. Len(log)
    BY HistoryType
<1>2. p \in Nat /\ (p # 0 => p = a + s /\ ~Overflow(p, s))
    BY <1>1 DEF Behind
<1>3. ASSUME NEW j \in 1 .. Len(log) PROVE Apart(log[j].off, p, s)
    <2>1. log[j].off \in Nat /\ log[1].off = 0
        BY <1>1, HistoryType DEF InvPlaces
    <2>2. CASE p = 0
        <3>1. Apart(log[1].off, log[j].off, s)
            BY <1>1 DEF InvPlaces
        <3> QED
            BY <2>1, <2>2, <3>1 DEF Apart
    <2>3. CASE p # 0
        <3>1. p = a + s
            BY <2>3, <1>2
        <3>2. CASE log[j].off <= a
            <4>1. Apart(log[j].off, a, s)
                BY <1>1 DEF InvPlaces
            <4> QED
                BY <1>1, <2>1, <3>1, <3>2, <4>1 DEF Apart
        <3>3. CASE log[j].off > a
            <4>1. j # 1 /\ j - 1 \in 1 .. (Len(log) - 1) /\ j - 1 \in 1 .. Len(log)
                BY <1>1, <2>1, <3>3, HistoryType
            <4>2. log[j].off = Behind(log[j - 1].off, s) /\ log[j - 1].off \in Nat
                <5>1. log[(j - 1) + 1].off = Behind(log[j - 1].off, s)
                    BY <4>1 DEF InvPlaces
                <5>2. (j - 1) + 1 = j
                    OBVIOUS
                <5> QED
                    BY <4>1, <5>1, <5>2, HistoryType
            <4>3. log[j].off = log[j - 1].off + s
                BY <1>1, <2>1, <3>3, <4>2 DEF Behind
            <4>4. Apart(log[j - 1].off, a, s)
                BY <1>1, <4>1 DEF InvPlaces
            <4> QED
                BY <1>1, <2>1, <3>1, <3>3, <4>2, <4>3, <4>4 DEF Apart
        <3> QED
            BY <1>1, <2>1, <3>2, <3>3
    <2> QED
        BY <2>2, <2>3
<1> QED
    BY <1>2, <1>3

LEMMA BehindOne ==
    ASSUME ConfigAssumption, IndType, NEW s \in Nat \ {0}, InvPlaces(s),
           NEW i \in 1 .. Len(log), NEW j \in 1 .. Len(log),
           Behind(log[i].off, s) = Behind(log[j].off, s)
    PROVE  log[i].off = log[j].off
<1> DEFINE a == log[i].off
<1> DEFINE b == log[j].off
<1>1. a \in Nat /\ b \in Nat /\ ByteSize \in Nat /\ Apart(a, b, s)
    BY HistoryType, FirstOffset DEF InvPlaces
<1>2. (a # 0 => ~Overflow(a, s)) /\ (b # 0 => ~Overflow(b, s))
    BY DEF InvPlaces
<1>3. Behind(a, s) = Behind(b, s)
    OBVIOUS
<1> HIDE DEF a, b
<1>4. a = b
    BY <1>1, <1>2, <1>3 DEF Behind, Overflow, Apart
<1> QED
    BY <1>4 DEF a, b

\* What lies behind the last slot is in no slot.
LEMMA PastTheEnd ==
    ASSUME ConfigAssumption, IndType, NEW s \in Nat \ {0}, InvPlaces(s),
           NEW i \in 1 .. Len(log), Overflow(log[i].off + s, s),
           NEW j \in 1 .. Len(log)
    PROVE  ~(log[j].off <= log[i].off + s /\ log[i].off + s < log[j].off + s)
<1> DEFINE a == log[i].off
<1> DEFINE b == log[j].off
<1>1. a \in Nat /\ b \in Nat /\ ByteSize \in Nat /\ Apart(a, b, s)
    BY HistoryType, FirstOffset DEF InvPlaces
<1>2. Overflow(a + s, s) /\ (b # 0 => ~Overflow(b, s))
    BY DEF InvPlaces
<1> HIDE DEF a, b
<1>3. ~(b <= a + s /\ a + s < b + s)
    BY <1>1, <1>2 DEF Overflow, Apart
<1> QED
    BY <1>3 DEF a, b

LEMMA NextInvPlaces ==
    ASSUME ConfigAssumption, LapsBase, [Next]_vars,
           NEW s \in Nat \ {0}, InvPlaces(s), InvLap(s)
    PROVE  InvPlaces(s)'
<1>1. CASE PublishFrame
    <2> DEFINE n == Len(log)
    <2>1. /\ n \in Nat /\ Len(log') = n + 1 /\ start \in Nat
          /\ \A i \in 1 .. n : log'[i] = log[i] /\ log[i].off \in Nat
          /\ log'[n + 1].off = start
        <3>1. IndType
            BY DEF LapsBase
        <3>2. start \in Nat
            BY <3>1 DEF IndType, TypeOK
        <3> QED
            BY <1>1, <3>1, <3>2, PublishAppends, HistoryType
    <2>2. start = IF log = <<>> THEN 0 ELSE Behind(Last.off, s)
        BY <1>1 DEF PublishFrame, InvLap
    <2>3. /\ start # 0 => ~Overflow(start, s)
          /\ \A j \in 1 .. n : Apart(log[j].off, start, s)
        <3>1. CASE log = <<>>
            BY <2>2, <3>1
        <3>2. CASE log # <<>>
            BY <2>2, <3>2, NewPlaceApart DEF LapsBase
        <3> QED
            BY <3>1, <3>2
    <2>4. log'[1].off = 0
        <3>1. CASE log = <<>>
            BY <2>1, <2>2, <3>1
        <3>2. CASE log # <<>>
            BY <2>1, <3>2, HistoryType DEF LapsBase, InvPlaces
        <3> QED
            BY <3>1, <3>2
    <2>5. ASSUME NEW i \in 1 .. n PROVE log'[i + 1].off = Behind(log'[i].off, s)
        <3>1. CASE i = n
            BY <2>1, <2>2, <3>1, HistoryType DEF LapsBase
        <3>2. CASE i # n
            <4>1. i \in 1 .. (n - 1) /\ i + 1 \in 1 .. n
                BY <2>1, <3>2
            <4> QED
                BY <2>1, <4>1 DEF InvPlaces
        <3> QED
            BY <3>1, <3>2
    <2>6. ASSUME NEW i \in 1 .. (n + 1), NEW j \in 1 .. (n + 1)
          PROVE  Apart(log'[i].off, log'[j].off, s)
        <3>1. CASE i \in 1 .. n /\ j \in 1 .. n
            BY <2>1, <3>1 DEF InvPlaces
        <3>2. CASE i = n + 1
            BY <2>1, <2>3, <3>2 DEF Apart
        <3>3. CASE j = n + 1
            BY <2>1, <2>3, <3>3 DEF Apart
        <3> QED
            BY <2>1, <3>1, <3>2, <3>3
    <2>7. ASSUME NEW i \in 1 .. (n + 1), log'[i].off # 0 PROVE ~Overflow(log'[i].off, s)
        BY <2>1, <2>3, <2>7 DEF InvPlaces
    <2>8. Len(log') - 1 = n
        BY <2>1
    <2> QED
        BY <2>1, <2>4, <2>5, <2>6, <2>7, <2>8 DEF InvPlaces, Overflow, Behind, Apart
<1>2. CASE UNCHANGED log
    BY <1>2 DEF InvPlaces, Overflow, Behind, Apart
<1> QED
    BY <1>1, <1>2, RingSteps
    DEF NextFrame, EnqueueStart, EnqueueOverflow, TraversalFault, JoinListener,
        EnqueueReacquire, PutOnSHM, KillStreamer, DequeFetch, DequeRelease,
        HandlerIdles, StreamerElsewhere

-----------------------------------------------------------------------------
(* What holds whatever the sizes, and what Enqueue decides.                *)

LEMMA NextInvSizes ==
    ASSUME ConfigAssumption, IndType, InvSizes, [Next]_vars
    PROVE  InvSizes'
<1>1. CASE PublishFrame
    <2>1. frame.size >= 1 /\ frame' = NoFrame
        BY <1>1 DEF PublishFrame, IndType, Busy
    <2> QED
        BY <1>1, <2>1, PublishAppends, HistoryType DEF InvSizes
<1>2. CASE NextFrame
    <2>1. frame'.size >= 1 /\ spc' = "acquire" /\ UNCHANGED log
        BY <1>2 DEF NextFrame, ConfigAssumption
    <2> QED
        BY <2>1 DEF InvSizes
<1>3. CASE UNCHANGED <<log, frame>> /\ (spc' = spc \/ spc' # "idle")
    BY <1>3 DEF InvSizes
<1> QED
    BY <1>1, <1>2, <1>3, RingSteps
    DEF EnqueueStart, EnqueueOverflow, TraversalFault, JoinListener, EnqueueReacquire,
        PutOnSHM, KillStreamer, DequeFetch, DequeRelease, HandlerIdles,
        StreamerElsewhere, streamer, handler

LEMMA NextInvRear ==
    ASSUME ConfigAssumption, IndType, CountNeverOverReports, InvRear, [Next]_vars
    PROVE  InvRear'
<1>1. CASE PublishFrame
    <2>1. log' # <<>> /\ Last'.off = start
        BY <1>1, PublishAppends
    <2>2. rear_position' = MetricSize + start
        BY <1>1 DEF PublishFrame
    <2> QED
        BY <2>1, <2>2 DEF InvRear
<1>2. CASE DequeFetch
    <2>1. log # <<>>
        BY <1>2, HistoryType DEF DequeFetch, CountNeverOverReports, IndType, TypeOK
    <2> QED
        BY <1>2, <2>1 DEF DequeFetch, InvRear, Last
<1>3. CASE UNCHANGED <<log, rear_position, head_position>>
    BY <1>3 DEF InvRear, Last
<1> QED
    BY <1>1, <1>2, <1>3, RingSteps
    DEF NextFrame, handler, streamer, EnqueueStart, EnqueueOverflow, TraversalFault, JoinListener,
        EnqueueReacquire, PutOnSHM, KillStreamer, DequeRelease, HandlerIdles,
        StreamerElsewhere, metric

LEMMA NextLapsBase ==
    ASSUME ConfigAssumption, LapsBase, [Next]_vars
    PROVE  LapsBase'
BY NextIndType, NextLockDiscipline, NextCountNeverOverReports, NextIndRear,
   NextInvSizes, NextInvRear DEF LapsBase

\* The size of the frame in hand.
LEMMA HandSize ==
    ASSUME IndType, NEW s, Uniform(s), Busy
    PROVE  frame.size = s
BY DEF Uniform, IndType, NoFrame

\* The handler never takes back an acknowledgement.
LEMMA ProcessedStays ==
    ASSUME ConfigAssumption, IndType, DequeFetch, NEW a \in Offsets, mem[a].processed
    PROVE  mem'[a].processed
<1>1. head \in Offsets /\ mem \in [Offsets -> Cell]
    BY ReadableHead DEF DequeFetch, IndType, TypeOK
<1>2. mem' = [mem EXCEPT ![head].processed = TRUE]
    BY DEF DequeFetch, Acked
<1> QED
    BY <1>1, <1>2 DEF Cell

LEMMA NextInvLap ==
    ASSUME ConfigAssumption, LapsBase, [Next]_vars,
           NEW s \in Nat \ {0}, Uniform(s), InvLap(s)
    PROVE  InvLap(s)'
<1> IndType /\ RearIntact /\ InvRear /\ CountNeverOverReports
    BY RearBehind DEF LapsBase
<1>1. ASSUME spc = "acquire"
      PROVE  /\ frame.size = s
             /\ log = <<>> => NextStart = 0
             /\ log # <<>> => NextStart = Last.off + s
    <2>1. frame.size = s
        BY <1>1, HandSize DEF Busy
    <2>2. log # <<>> => Last.size = s
        BY HistoryType DEF Uniform
    <2> QED
        BY <1>1, <2>1, <2>2 DEF RearIntact, InvRear, NextStart, Last
<1>2. CASE EnqueueStart
    BY <1>1, <1>2 DEF EnqueueStart, InvLap, Behind, Overflow, Last
<1>3. CASE EnqueueOverflow
    <2>1. log # <<>>
        <3>1. log = <<>> => message_cnt = 0
            BY HistoryType DEF CountNeverOverReports, IndType, TypeOK
        <3> QED
            BY <1>3, <3>1 DEF EnqueueOverflow, NeverUsed, InvRear
    <2>2. 0 \in neighbours' /\ spc' = "join" /\ UNCHANGED log
        BY <1>3 DEF EnqueueOverflow, TraversalQueue
    <2>3. Overflow(Last.off + s, s)
        BY <1>1, <1>3, <2>1 DEF EnqueueOverflow
    <2> QED
        BY <2>1, <2>2, <2>3 DEF InvLap, Overflow, Last
<1>4. CASE JoinListener
    BY <1>4 DEF JoinListener, InvLap, Overflow, Last
<1>5. CASE EnqueueReacquire
    BY <1>5 DEF EnqueueReacquire, InvLap, Overflow, Behind, Last
<1>6. CASE PutOnSHM
    BY <1>6 DEF PutOnSHM, InvLap, Overflow, Behind, Last
<1>7. CASE PublishFrame
    BY <1>7 DEF PublishFrame, InvLap
<1>8. CASE StreamerElsewhere
    BY <1>8 DEF StreamerElsewhere, NextFrame, TraversalFault, KillStreamer, InvLap
<1>9. CASE DequeFetch
    <2>1. mem[0].processed => mem'[0].processed
        BY <1>9, ProcessedStays, FirstOffset
    <2>2. UNCHANGED <<spc, start, neighbours, log>>
        BY <1>9 DEF DequeFetch, streamer
    <2> QED
        BY <2>1, <2>2 DEF InvLap, Overflow, Behind, Last
<1>10. CASE DequeRelease \/ HandlerIdles
    BY <1>10 DEF DequeRelease, HandlerIdles, streamer, InvLap, Overflow, Behind, Last
<1> QED
    BY <1>2, <1>3, <1>4, <1>5, <1>6, <1>7, <1>8, <1>9, <1>10, RingSteps

-----------------------------------------------------------------------------
(* The slots.                                                              *)

\* Put leaves alone what is not in its slot.
LEMMA PutLeaves ==
    ASSUME ConfigAssumption, IndType, PutOnSHM, NEW a \in Offsets,
           ~(start <= a /\ a < start + frame.size)
    PROVE  mem'[a] = mem[a]
<1>1. /\ mem' = Written(frame, start, Len(log) + 1)
      /\ frame.size >= 1 /\ frame.size \in Nat /\ start \in Nat /\ a \in Nat
    BY ConfigAssumption DEF PutOnSHM, IndType, TypeOK, Busy, Offsets, ConfigAssumption
<1> QED
    BY <1>1 DEF Written

\* What a slot's frame is.
LEMMA SlotHolds ==
    ASSUME IndType, NEW s \in Nat \ {0}, InvSlots(s), NEW i \in 1 .. Stored
    PROVE  /\ Place(i) \in Offsets
           /\ mem[Place(i)].msg \in i .. Stored
           /\ mem[Place(i)].unit = 0
           /\ Place(mem[Place(i)].msg) = Place(i)
           /\ Placed(mem[Place(i)].msg, Place(i), s)
<1>1. PICK m \in i .. Stored : Place(m) = Place(i) /\ Placed(m, Place(i), s)
    BY DEF InvSlots
<1>2. Place(i) \in Offsets /\ mem[Place(i)].msg = m /\ mem[Place(i)].unit = 0
    BY <1>1 DEF Placed, HeaderAt
<1> QED
    BY <1>1, <1>2

LEMMA PutSlots ==
    ASSUME ConfigAssumption, IndType, PutOnSHM, spc' = "publish",
           NEW s \in Nat \ {0}, Uniform(s), InvPlaces(s), InvLap(s), InvSlots(s)
    PROVE  InvSlots(s)'
<1> DEFINE n == Len(log)
<1>1. /\ n \in Nat /\ start \in Nat /\ Stored = n /\ Stored' = n + 1
      /\ frame.size = s /\ UNCHANGED <<log, start, frame>>
    BY HistoryType, HandSize DEF PutOnSHM, Stored, Busy, IndType, TypeOK
<1>2. Placed(n + 1, start, s)'
    BY <1>1, PutPlaces
<1>3. \A a \in Offsets : ~(start <= a /\ a < start + s) => mem'[a] = mem[a]
    BY <1>1, PutLeaves
<1>4. start = IF log = <<>> THEN 0 ELSE Behind(Last.off, s)
    BY DEF PutOnSHM, InvLap
<1>5. ASSUME NEW i \in 1 .. n
      PROVE  /\ Place(i) = log[i].off /\ log[i].off \in Nat
             /\ Place(i)' = log[i].off
             /\ Apart(log[i].off, start, s)
    <2>1. log # <<>>
        BY <1>1
    <2> QED
        BY <1>1, <1>4, <2>1, HistoryType, NewPlaceApart DEF Place
<1>6. Place(n + 1)' = start
    BY <1>1 DEF Place
<1>7. mem'[start].msg = n + 1
    BY <1>1, <1>2 DEF Placed, HeaderAt
<1>8. ASSUME NEW i \in 1 .. n, log[i].off # start, NEW u \in 0 .. (s - 1),
             log[i].off + u \in Offsets
      PROVE  mem'[log[i].off + u] = mem[log[i].off + u]
    <2>1. ~(start <= log[i].off + u /\ log[i].off + u < start + s)
        BY <1>1, <1>5, <1>8 DEF Apart
    <2> QED
        BY <1>3, <1>8, <2>1
<1>9. ASSUME NEW i \in 1 .. (n + 1)
      PROVE  \E m \in i .. (n + 1) : Place(m)' = Place(i)' /\ Placed(m, Place(i), s)'
    <2>1. CASE Place(i)' = start
        <3>1. n + 1 \in i .. (n + 1)
            BY <1>1
        <3>2. Placed(n + 1, Place(i), s)'
            BY <1>1, <1>2, <2>1 DEF Placed, HeaderAt
        <3>3. Place(n + 1)' = Place(i)'
            BY <1>1, <1>6, <2>1
        <3> QED
            BY <1>1, <3>1, <3>2, <3>3
    <2>2. CASE Place(i)' # start
        <3>1. i \in 1 .. n
            BY <1>1, <1>6, <2>2
        <3>2. PICK m \in i .. n : Place(m) = Place(i) /\ Placed(m, Place(i), s)
            BY <1>1, <3>1 DEF InvSlots
        <3>3. m \in 1 .. n /\ m \in i .. (n + 1)
            BY <1>1, <3>1
        <3>4. Place(m)' = Place(i)' /\ Placed(m, log[i].off, s) /\ log[i].off # start
            BY <1>5, <2>2, <3>1, <3>2, <3>3
        <3>5. log[i].off \in Offsets /\ mem'[log[i].off] = mem[log[i].off]
            <4>1. log[i].off \in Offsets /\ log[i].off + 0 = log[i].off /\ 0 \in 0 .. (s - 1)
                BY <1>5, <3>1, <3>4 DEF Placed, HeaderAt
            <4> QED
                BY <1>8, <3>1, <3>4, <4>1
        <3>6. ASSUME NEW u \in 1 .. (s - 1)
              PROVE  log[i].off + u \in Offsets /\ mem'[log[i].off + u] = mem[log[i].off + u]
            <4>1. log[i].off + u \in Offsets /\ u \in 0 .. (s - 1)
                BY <3>4 DEF Placed
            <4> QED
                BY <1>8, <3>1, <3>4, <4>1
        <3>7. Placed(m, Place(i), s)'
            <4>1. Place(i)' = log[i].off
                BY <1>5, <3>1
            <4>2. /\ log[i].off \in Offsets
                  /\ mem'[log[i].off].msg = m /\ mem'[log[i].off].unit = 0
                  /\ mem'[log[i].off].next = log[i].off + s
                  /\ mem'[log[i].off].dataLength = s - 1
                BY <3>4, <3>5 DEF Placed, HeaderAt
            <4>3. \A u \in 1 .. (s - 1) :
                      /\ log[i].off + u \in Offsets
                      /\ mem'[log[i].off + u].msg = m /\ mem'[log[i].off + u].unit = u
                BY <3>4, <3>6 DEF Placed
            <4> QED
                BY <4>1, <4>2, <4>3 DEF Placed, HeaderAt
        <3> QED
            BY <3>3, <3>4, <3>7
    <2> QED
        BY <2>1, <2>2
<1>10. ASSUME NEW a \in Offsets
       PROVE  \/ \E i \in 1 .. (n + 1) : Place(i)' <= a /\ a < Place(i)' + s
              \/ /\ mem'[a].msg = 0 /\ mem'[a].unit = 0
                 /\ mem'[a].next = 0 /\ mem'[a].dataLength = 0
    <2>1. CASE start <= a /\ a < start + s
        BY <1>1, <1>6, <2>1
    <2>2. CASE ~(start <= a /\ a < start + s)
        <3>1. mem'[a] = mem[a]
            BY <1>3, <2>2
        <3>2. CASE \E i \in 1 .. n : Place(i) <= a /\ a < Place(i) + s
            BY <1>1, <1>5, <3>2
        <3> QED
            BY <1>1, <3>1, <3>2 DEF InvSlots
    <2> QED
        BY <2>1, <2>2
<1>11. ASSUME NEW i \in 1 .. n, mem'[Place(i)'].msg = i
       PROVE  mem'[Place(i + 1)'].msg = i + 1
    <2>1. CASE i = n
        <3>1. Place(i + 1)' = start
            BY <1>1, <1>6, <2>1
        <3> QED
            BY <1>7, <2>1, <3>1
    <2>2. CASE i # n
        <3>1. i \in 1 .. (n - 1) /\ i + 1 \in 1 .. n /\ n \in 1 .. n /\ log # <<>>
            BY <1>1, <2>2
        <3>2. log[i].off # start
            BY <1>1, <1>5, <1>7, <1>11
        <3>3. mem[log[i].off].msg = i
            <4>1. log[i].off \in Offsets /\ log[i].off + 0 = log[i].off /\ 0 \in 0 .. (s - 1)
                BY <1>1, <1>5, SlotHolds
            <4>2. mem'[log[i].off] = mem[log[i].off]
                BY <1>8, <3>2, <4>1
            <4> QED
                BY <1>5, <1>11, <4>2
        <3>4. mem[log[i + 1].off].msg = i + 1
            BY <1>1, <1>5, <3>1, <3>3 DEF InvSlots
        <3>5. log[i + 1].off # start
            <4>1. SUFFICES ASSUME log[i + 1].off = start PROVE FALSE
                OBVIOUS
            <4>2. Last = log[n] /\ log[i + 1].off = Behind(log[i].off, s)
                BY <3>1, HistoryType DEF InvPlaces
            <4>3. log[i].off = log[n].off
                BY <1>4, <3>1, <4>1, <4>2, BehindOne
            <4>4. mem[log[n].off].msg \in n .. n
                BY <1>1, <1>5, <3>1, SlotHolds
            <4> QED
                BY <1>1, <2>2, <3>3, <4>3, <4>4
        <3>6. mem'[log[i + 1].off] = mem[log[i + 1].off]
            <4>1. /\ log[i + 1].off \in Offsets /\ log[i + 1].off + 0 = log[i + 1].off
                  /\ 0 \in 0 .. (s - 1)
                BY <1>1, <1>5, <3>1, SlotHolds
            <4> QED
                BY <1>8, <3>1, <3>5, <4>1
        <3> QED
            BY <1>5, <3>1, <3>4, <3>6
    <2> QED
        BY <2>1, <2>2
<1>12. n + 1 - 1 = n
    BY <1>1
<1> QED
    BY <1>1, <1>9, <1>10, <1>11, <1>12 DEF InvSlots

\* The slots depend on the place of each frame and on four fields of memory.
LEMMA SlotsKept ==
    ASSUME ConfigAssumption, IndType, NEW s \in Nat \ {0}, InvSlots(s), Stored' = Stored,
           \A i \in 1 .. Stored : Place(i)' = Place(i),
           \A a \in Offsets :
               /\ mem'[a].msg = mem[a].msg /\ mem'[a].unit = mem[a].unit
               /\ mem'[a].next = mem[a].next /\ mem'[a].dataLength = mem[a].dataLength
    PROVE  InvSlots(s)'
<1>1. Stored \in Nat
    BY HistoryType DEF Stored
<1>2. ASSUME NEW i \in 1 .. Stored
      PROVE  \E m \in i .. Stored : Place(m)' = Place(i)' /\ Placed(m, Place(i), s)'
    <2>1. PICK m \in i .. Stored : Place(m) = Place(i) /\ Placed(m, Place(i), s)
        BY DEF InvSlots
    <2>2. m \in 1 .. Stored
        BY <1>1
    <2>3. Place(m)' = Place(i)' /\ Place(i)' = Place(i)
        BY <2>1, <2>2
    <2>4. Placed(m, Place(i), s)'
        BY <2>1, <2>3 DEF Placed, HeaderAt
    <2> QED
        BY <2>3, <2>4
<1>3. ASSUME NEW i \in 1 .. (Stored - 1), mem'[Place(i)'].msg = i
      PROVE  mem'[Place(i + 1)'].msg = i + 1
    <2>1. i \in 1 .. Stored /\ i + 1 \in 1 .. Stored
        BY <1>1
    <2>2. Place(i) \in Offsets /\ Place(i + 1) \in Offsets
        BY <2>1, SlotHolds
    <2>3. mem[Place(i)].msg = i
        BY <1>3, <2>1, <2>2
    <2> QED
        BY <2>1, <2>2, <2>3 DEF InvSlots
<1>4. ASSUME NEW a \in Offsets
      PROVE  \/ \E i \in 1 .. Stored : Place(i)' <= a /\ a < Place(i)' + s
             \/ /\ mem'[a].msg = 0 /\ mem'[a].unit = 0
                /\ mem'[a].next = 0 /\ mem'[a].dataLength = 0
    BY DEF InvSlots
<1> QED
    BY <1>2, <1>3, <1>4 DEF InvSlots

LEMMA FetchKeeps ==
    ASSUME ConfigAssumption, IndType, DequeFetch
    PROVE  \A a \in Offsets :
               /\ mem'[a].msg = mem[a].msg /\ mem'[a].unit = mem[a].unit
               /\ mem'[a].next = mem[a].next /\ mem'[a].dataLength = mem[a].dataLength
BY HandlerKeeps DEF Handler

LEMMA NextInvSlots ==
    ASSUME ConfigAssumption, LapsBase, [Next]_vars, ~Torn', NEW s \in Nat \ {0},
           Uniform(s), InvPlaces(s), InvLap(s), InvSlots(s)
    PROVE  InvSlots(s)'
<1> IndType /\ LockDiscipline
    BY DEF LapsBase
<1>1. CASE PutOnSHM
    <2>1. spc' = "publish"
        BY <1>1 DEF PutOnSHM, Torn, LockDiscipline, StreamerInside, HandlerInside, metric, handler
    <2> QED
        BY <1>1, <2>1, PutSlots
<1>2. CASE PublishFrame
    <2>1. /\ Stored = Len(log) + 1 /\ Stored' = Stored /\ Len(log) \in Nat
          /\ Len(log') = Len(log) + 1 /\ UNCHANGED mem
        BY <1>2, PublishAppends, HistoryType DEF PublishFrame, Stored
    <2>2. ASSUME NEW i \in 1 .. Stored PROVE Place(i)' = Place(i)
        <3>1. CASE i = Len(log) + 1
            BY <1>2, <2>1, <3>1, PublishAppends DEF Place
        <3>2. CASE i \in 1 .. Len(log)
            BY <1>2, <2>1, <3>2, PublishAppends DEF Place
        <3> QED
            BY <2>1, <3>1, <3>2
    <2> QED
        BY <2>1, <2>2, SlotsKept
<1>3. CASE DequeFetch
    <2>1. UNCHANGED <<spc, start, log>>
        BY <1>3 DEF DequeFetch, streamer
    <2> QED
        BY <1>3, <2>1, FetchKeeps, SlotsKept DEF Stored, Place
<1>4. CASE KillStreamer
    <2>1. spc # "publish" /\ UNCHANGED <<mem, log>>
        BY <1>4 DEF KillStreamer, Torn, LockDiscipline, StreamerInside, HandlerInside, metric, handler
    <2>2. Stored' = Stored /\ \A i \in 1 .. Stored : Place(i)' = Place(i)
        BY <1>4, <2>1, HistoryType DEF KillStreamer, Stored, Place
    <2> QED
        BY <2>1, <2>2, SlotsKept
<1>5. CASE UNCHANGED <<mem, log>> /\ (UNCHANGED <<spc, start>> \/ (spc # "publish" /\ spc' # "publish"))
    <2>1. Stored' = Stored /\ \A i \in 1 .. Stored : Place(i)' = Place(i)
        BY <1>5, HistoryType DEF Stored, Place
    <2> QED
        BY <1>5, <2>1, SlotsKept
<1> QED
    BY <1>1, <1>2, <1>3, <1>4, <1>5, RingSteps
    DEF StreamerElsewhere, NextFrame, TraversalFault, EnqueueStart, EnqueueOverflow,
        JoinListener, EnqueueReacquire, DequeRelease, HandlerIdles, streamer

-----------------------------------------------------------------------------
(* Deque follows the streamer.                                             *)

\* The parts of Laps(s) that Deque's steps rely on.
Following(s) ==
    /\ LapsBase /\ Uniform(s) /\ InvPlaces(s) /\ InvOut(s)
    /\ InvSlots(s) /\ InvHead(s) /\ InvSeen(s)

LEMMA ReceivedType ==
    ASSUME IndType, NEW s, InvOut(s)
    PROVE  /\ held.msg \in 0 .. Len(log) /\ held.dataLength \in Nat
           /\ Len(log) \in Nat
           /\ \A j \in 1 .. Len(received) : received[j] \in 1 .. Len(log)
BY HistoryType DEF IndType, TypeOK, InvOut

\* A fetch at a slot returns its frame whole, one newer than all taken before,
\* and leaves the head at the next frame, if there is one.
LEMMA FetchSlot ==
    ASSUME ConfigAssumption, NEW s \in Nat \ {0}, Following(s), DequeFetch,
           spc # "publish", NEW i \in 1 .. Len(log),
           head = log[i].off, Fresh(mem[log[i].off].msg)
    PROVE  /\ head \in Offsets
           /\ held' = [dataLength |-> s - 1, msg |-> mem[head].msg]
           /\ mem[head].msg \in 1 .. Len(log)
           /\ Fresh(mem[head].msg)
           /\ InvHead(s)'
<1> IndType /\ InvSlots(s) /\ InvPlaces(s) /\ InvRear /\ InvOut(s)
    BY DEF Following, LapsBase
<1> DEFINE n == Len(log)
<1> PICK m : m = mem[head].msg
    OBVIOUS
<1>1. /\ n \in Nat /\ Stored = n /\ MetricSize \in Nat \ {0} /\ ByteSize \in Nat
      /\ n \in 1 .. n /\ log # <<>> /\ Last = log[n]
      /\ \A j \in 1 .. n : Place(j) = log[j].off /\ log[j].off \in Nat
    BY HistoryType, FirstOffset DEF Stored, Place
<1>2. /\ head \in Offsets /\ m \in i .. n /\ mem[head].unit = 0
      /\ log[m].off = head /\ Placed(m, head, s)
    <2>1. head = Place(i)
        BY <1>1
    <2>2. m \in i .. n /\ m \in 1 .. n
        BY <1>1, <2>1, SlotHolds
    <2> QED
        BY <1>1, <2>1, <2>2, SlotHolds
<1>3. /\ At(head) = mem[head] /\ mem[head].next = head + s /\ mem[head].dataLength = s - 1
      /\ \A u \in 1 .. (s - 1) : At(head + u).msg = m /\ At(head + u).unit = u
    BY <1>2 DEF Placed, HeaderAt, At
<1>4. Content = m
    BY <1>2, <1>3 DEF Content
<1>5. held' = [dataLength |-> s - 1, msg |-> m]
    BY <1>3, <1>4 DEF DequeFetch
<1>6. m \in 1 .. n /\ Fresh(m)
    BY <1>1, <1>2
<1>7. UNCHANGED <<log, received, rear_position>> /\ head_position' = NextHead
      /\ head_position = MetricSize + head
    BY <1>1 DEF DequeFetch, head, IndType, TypeOK
<1>8. InvHead(s)'
    <2>1. CASE rear_position = head_position
        BY <1>7, <2>1 DEF InvHead, NextHead
    <2>2. CASE rear_position # head_position
        <3>1. head_position' = MetricSize + (head + s) /\ head' = head + s
            BY <1>1, <1>2, <1>3, <1>7, <2>2 DEF NextHead, head, Offsets
        <3>2. m # n
            BY <1>1, <1>2, <1>7, <2>2 DEF InvRear
        <3>3. m \in 1 .. (n - 1) /\ m \in 1 .. n /\ m + 1 \in 1 .. n
            BY <1>1, <1>6, <3>2
        <3>4. log[m + 1].off = Behind(head, s)
            BY <1>2, <3>3 DEF InvPlaces
        <3>5. mem[log[m + 1].off].msg = m + 1 /\ log[m + 1].off \in Offsets
            <4>1. mem[Place(m)].msg = m
                BY <1>1, <1>2, <3>3
            <4>2. mem[Place(m + 1)].msg = m + 1
                BY <1>1, <3>3, <4>1 DEF InvSlots
            <4> QED
                BY <1>1, <3>3, <4>2, SlotHolds
        <3>6. mem'[log[m + 1].off].msg = m + 1
            BY <3>5, FetchKeeps
        <3>7. Fresh(m + 1)'
            <4>1. held'.msg = m
                BY <1>5
            <4>2. \A j \in 1 .. Len(received) : received[j] < m + 1
                BY <1>1, <1>6, ReceivedType DEF Fresh
            <4>3. m < m + 1
                BY <1>6
            <4> QED
                BY <1>7, <4>1, <4>2, <4>3 DEF Fresh
        <3>8. CASE Overflow(head + s, s)
            <4>1. log[m + 1].off = 0
                BY <3>4, <3>8 DEF Behind
            <4>2. head' = log'[m].off + s
                BY <1>2, <1>7, <3>1
            <4>3. Overflow(head, s)'
                BY <3>1, <3>8 DEF Overflow
            <4>4. Fresh(mem[0].msg)'
                BY <3>6, <3>7, <4>1 DEF Fresh
            <4>5. m \in 1 .. Len(log')
                BY <1>7, <3>3
            <4> QED
                BY <4>2, <4>3, <4>4, <4>5 DEF InvHead
        <3>9. CASE ~Overflow(head + s, s)
            <4>1. head' = log'[m + 1].off
                BY <1>7, <3>1, <3>4, <3>9 DEF Behind
            <4>2. Fresh(mem[log[m + 1].off].msg)'
                BY <1>7, <3>6, <3>7 DEF Fresh
            <4>3. m + 1 \in 1 .. Len(log')
                BY <1>7, <3>3
            <4> QED
                BY <4>1, <4>2, <4>3 DEF InvHead
        <3> QED
            BY <3>8, <3>9
    <2> QED
        BY <2>1, <2>2
<1> QED
    BY <1>2, <1>5, <1>6, <1>8

\* A fetch behind the last slot returns an empty message and leaves the head at
\* the first slot.
LEMMA FetchPastEnd ==
    ASSUME ConfigAssumption, NEW s \in Nat \ {0}, Following(s), DequeFetch,
           spc # "publish", NEW i \in 1 .. Len(log),
           head = log[i].off + s, Overflow(head, s), Fresh(mem[0].msg)
    PROVE  /\ head \in Offsets /\ head # 0
           /\ held' = NoMessage
           /\ InvHead(s)'
<1> IndType /\ InvSlots(s) /\ InvPlaces(s) /\ InvRear /\ InvOut(s)
    BY DEF Following, LapsBase
<1> DEFINE n == Len(log)
<1>1. /\ n \in Nat /\ Stored = n /\ MetricSize \in Nat \ {0} /\ ByteSize \in Nat
      /\ n \in 1 .. n /\ 1 \in 1 .. n /\ log # <<>> /\ Last = log[n]
      /\ \A j \in 1 .. n : Place(j) = log[j].off /\ log[j].off \in Nat
    BY HistoryType, FirstOffset DEF Stored, Place
<1>2. head \in Offsets /\ At(head) = mem[head] /\ head \in Nat /\ head # 0
    <2>1. head \in Offsets /\ At(head) = mem[head]
        BY ReadableHead DEF DequeFetch, IndType
    <2> QED
        BY <1>1, <2>1
<1>3. \A j \in 1 .. n : ~(log[j].off <= head /\ head < log[j].off + s)
    BY PastTheEnd
<1>4. /\ mem[head].msg = 0 /\ mem[head].unit = 0
      /\ mem[head].next = 0 /\ mem[head].dataLength = 0
    BY <1>1, <1>2, <1>3 DEF InvSlots
<1>5. Content = 0
    BY <1>2, <1>4 DEF Content
<1>6. held' = NoMessage
    BY <1>2, <1>4, <1>5 DEF DequeFetch, NoMessage
<1>7. UNCHANGED <<log, received, rear_position>> /\ head_position' = NextHead
      /\ head_position = MetricSize + head
    BY <1>1 DEF DequeFetch, head, IndType, TypeOK
<1>8. rear_position # head_position
    <2>1. rear_position = MetricSize + log[n].off /\ log[n].off \in Nat
        BY <1>1 DEF InvRear
    <2>2. ~(log[n].off <= head /\ head < log[n].off + s)
        BY <1>1, <1>3
    <2>3. log[n].off # head
        BY <1>2, <2>1, <2>2
    <2>4. MetricSize \in Nat /\ head \in Nat /\ head_position = MetricSize + head
        BY <1>1, <1>2, <1>7
    <2> QED
        BY <2>1, <2>3, <2>4
<1>9. head' = 0
    BY <1>1, <1>4, <1>7, <1>8 DEF NextHead, head
<1>10. log[1].off = 0
    BY <1>1 DEF InvPlaces
<1>11. mem'[0].msg = mem[0].msg
    BY FirstOffset, FetchKeeps
<1>12. held.msg = 0 /\ held'.msg = 0
    BY <1>6 DEF DequeFetch, InvOut, NoMessage
<1>13. Fresh(mem[0].msg)'
    BY <1>7, <1>11, <1>12 DEF Fresh
<1>14. 1 \in 1 .. Len(log') /\ head' = log'[1].off
    BY <1>1, <1>7, <1>9, <1>10
<1>15. InvHead(s)'
    BY <1>9, <1>10, <1>7, <1>13, <1>14 DEF InvHead
<1> QED
    BY <1>2, <1>6, <1>15

LEMMA FetchFollows ==
    ASSUME ConfigAssumption, NEW s \in Nat \ {0}, Following(s), DequeFetch
    PROVE  InvOut(s)' /\ InvHead(s)' /\ InvSeen(s)'
<1> IndType /\ InvSlots(s) /\ InvOut(s) /\ LockDiscipline /\ CountNeverOverReports
    BY DEF Following, LapsBase
<1>1. /\ spc # "publish" /\ hpc = "deque" /\ hpc' = "release" /\ held = NoMessage
      /\ UNCHANGED <<spc, start, log, received>>
    BY DEF DequeFetch, LockDiscipline, StreamerInside, streamer, InvOut
<1>2. log # <<>> /\ head_position # 0
    BY HistoryType DEF DequeFetch, CountNeverOverReports, IndType, TypeOK
<1>3. PICK i \in 1 .. Len(log) :
          \/ head = log[i].off /\ Fresh(mem[log[i].off].msg)
          \/ head = log[i].off + s /\ Overflow(head, s) /\ Fresh(mem[0].msg)
    BY <1>2 DEF Following, InvHead
<1>4. Stored' = Stored /\ Kept' = Kept
    BY <1>1 DEF Stored, Kept
<1>5. mem'[0].msg = mem[0].msg /\ 0 \in Offsets
    BY FirstOffset, FetchKeeps
<1>6. mem \in [Offsets -> Cell] /\ mem' = Acked
    BY DEF DequeFetch, IndType, TypeOK
<1>7. mem[0].msg >= 1 \/ Stored = 0
    <2>1. CASE Stored = 0
        BY <2>1
    <2>2. CASE Stored # 0
        <3>1. 1 \in 1 .. Stored /\ Place(1) = log[1].off
            BY <1>1, <1>2, <2>2, HistoryType DEF Stored, Place
        <3>2. log[1].off = 0
            BY <1>2 DEF Following, InvPlaces
        <3>3. mem[0].msg \in 1 .. Stored
            BY <3>1, <3>2, SlotHolds
        <3> QED
            BY <3>3
    <2> QED
        BY <2>1, <2>2
<1>8. ASSUME head # 0, head \in Offsets PROVE InvSeen(s)'
    <2>1. mem'[0] = mem[0]
        BY <1>5, <1>6, <1>8 DEF Acked
    <2>2. ASSUME s >= 2, Stored >= 1, mem[0].processed PROVE mem[0].msg \in Kept
        <3>1. mem[0].msg \in Kept \cup {held.msg}
            BY <2>2 DEF Following, InvSeen
        <3>2. held.msg = 0 /\ mem[0].msg # 0
            BY <1>1, <1>7, <2>2 DEF NoMessage
        <3> QED
            BY <3>1, <3>2
    <2> QED
        BY <1>4, <2>1, <2>2 DEF InvSeen
<1>9. CASE head = log[i].off /\ Fresh(mem[log[i].off].msg)
    <2>1. /\ head \in Offsets
          /\ held' = [dataLength |-> s - 1, msg |-> mem[head].msg]
          /\ mem[head].msg \in 1 .. Len(log)
          /\ Fresh(mem[head].msg)
          /\ InvHead(s)'
        BY <1>1, <1>9, FetchSlot
    <2>2. InvOut(s)'
        BY <1>1, <2>1, HistoryType DEF InvOut, Fresh
    <2>3. ASSUME head = 0 PROVE InvSeen(s)'
        BY <1>4, <1>5, <2>1, <2>3 DEF InvSeen
    <2> QED
        BY <1>8, <2>1, <2>2, <2>3
<1>10. CASE head = log[i].off + s /\ Overflow(head, s) /\ Fresh(mem[0].msg)
    <2>1. head \in Offsets /\ head # 0 /\ held' = NoMessage /\ InvHead(s)'
        BY <1>1, <1>10, FetchPastEnd
    <2>2. InvOut(s)'
        BY <1>1, <2>1, HistoryType DEF InvOut, NoMessage
    <2> QED
        BY <1>8, <2>1, <2>2
<1> QED
    BY <1>3, <1>9, <1>10

\* A release keeps the message with data it returns.
LEMMA ReleaseKeeps ==
    ASSUME IndType, DequeRelease
    PROVE  /\ held' = NoMessage /\ hpc' \in {"callback", "wait"}
           /\ UNCHANGED <<head_position, rear_position, mem, spc, start, log>>
           /\ held.dataLength = 0 => received' = received
           /\ held.dataLength # 0 =>
                  /\ Len(received') = Len(received) + 1
                  /\ \A j \in 1 .. Len(received) : received'[j] = received[j]
                  /\ received'[Len(received) + 1] = held.msg
<1>1. received \in Seq(Nat) /\ held.msg \in Nat
    BY DEF IndType, TypeOK
<1> QED
    BY <1>1, AppendElements DEF DequeRelease, streamer

LEMMA NextInvOut ==
    ASSUME ConfigAssumption, LapsBase, [Next]_vars, NEW s \in Nat \ {0},
           Uniform(s), Laps(s)
    PROVE  InvOut(s)'
<1> IndType /\ InvOut(s) /\ Len(log) \in Nat /\ Len(received) \in Nat
    BY HistoryType DEF LapsBase, Laps
<1>1. CASE DequeFetch
    <2>1. ~Torn
        BY <1>1 DEF DequeFetch, Torn
    <2> QED
        BY <1>1, <2>1, FetchFollows DEF Laps, Following
<1>2. CASE DequeRelease
    <2>1. CASE held.dataLength = 0
        BY <1>2, <2>1, ReleaseKeeps DEF InvOut, NoMessage
    <2>2. CASE held.dataLength # 0
        <3>1. /\ Len(received') = Len(received) + 1 /\ UNCHANGED log /\ held' = NoMessage
              /\ \A j \in 1 .. Len(received) : received'[j] = received[j]
              /\ received'[Len(received) + 1] = held.msg
            BY <1>2, <2>2, ReleaseKeeps
        <3>2. /\ held.msg \in 1 .. Len(log)
              /\ \A j \in 1 .. Len(received) : received[j] < held.msg
            <4>1. held.msg # 0 /\ held.msg \in 0 .. Len(log)
                BY <2>2, ReceivedType DEF InvOut
            <4>2. \A j \in 1 .. Len(received) : received[j] < held.msg
                BY <2>2 DEF InvOut
            <4> QED
                BY <4>1, <4>2
        <3>3. ASSUME NEW i \in 1 .. Len(received') PROVE received'[i] \in 1 .. Len(log)
            BY <3>1, <3>2 DEF InvOut
        <3>4. ASSUME NEW i \in 1 .. Len(received'), NEW j \in 1 .. Len(received'), i < j
              PROVE  received'[i] < received'[j]
            <4>1. i \in 1 .. Len(received)
                BY <3>1, <3>4
            <4>2. CASE j = Len(received) + 1
                BY <3>1, <3>2, <4>1, <4>2
            <4>3. CASE j \in 1 .. Len(received)
                BY <3>1, <3>4, <4>1, <4>3 DEF InvOut
            <4> QED
                BY <3>1, <4>2, <4>3
        <3> QED
            BY <3>1, <3>3, <3>4 DEF InvOut, NoMessage
    <2> QED
        BY <2>1, <2>2
<1>3. CASE PublishFrame
    <2>1. UNCHANGED <<hpc, held, received>> /\ Len(log') = Len(log) + 1
        BY <1>3, PublishAppends DEF PublishFrame, handler
    <2>2. /\ held.msg \in 0 .. Len(log')
          /\ \A i \in 1 .. Len(received) : received[i] \in 1 .. Len(log')
        BY <2>1, ReceivedType
    <2> QED
        BY <2>1, <2>2 DEF InvOut
<1>4. CASE UNCHANGED <<held, received, log>> /\ (hpc \in {"release", "dead"} => hpc' \in {"release", "dead"})
    BY <1>4 DEF InvOut
<1> QED
    BY <1>1, <1>2, <1>3, <1>4, RingSteps
    DEF StreamerElsewhere, NextFrame, TraversalFault, KillStreamer, EnqueueStart,
        EnqueueOverflow, JoinListener, EnqueueReacquire, PutOnSHM, HandlerIdles, handler

\* While the streamer writes over a slot, what the handler will find there only
\* gets newer.
LEMMA PutFresh ==
    ASSUME ConfigAssumption, IndType, PutOnSHM, spc' = "publish",
           NEW s \in Nat \ {0}, Uniform(s), InvPlaces(s), InvLap(s), InvOut(s),
           InvSlots(s), NEW i \in 1 .. Len(log), Fresh(mem[log[i].off].msg)
    PROVE  Fresh(mem'[log[i].off].msg)
<1>1. /\ Len(log) \in Nat /\ frame.size = s /\ log # <<>> /\ log[i].off \in Nat
      /\ start \in Nat /\ UNCHANGED <<log, start, frame>>
    <2>1. spc = "put" /\ UNCHANGED <<log, start, frame>> /\ start \in Nat
        BY DEF PutOnSHM, IndType, TypeOK
    <2>2. frame.size = s
        BY <2>1, HandSize DEF Busy
    <2> QED
        BY <2>1, <2>2, HistoryType
<1>2. Apart(log[i].off, start, s)
    BY <1>1, NewPlaceApart DEF PutOnSHM, InvLap
<1>3. CASE log[i].off = start
    <2>1. mem'[start].msg = Len(log) + 1
        BY <1>1, PutPlaces DEF Placed, HeaderAt
    <2> QED
        BY <1>1, <1>3, <2>1, ReceivedType DEF Fresh
<1>4. CASE log[i].off # start
    <2>1. log[i].off \in Offsets
        <3>1. i \in 1 .. Stored /\ Place(i) = log[i].off
            BY <1>1 DEF Stored, Place, PutOnSHM
        <3> QED
            BY <3>1, SlotHolds
    <2>2. mem'[log[i].off] = mem[log[i].off]
        BY <1>1, <1>2, <1>4, <2>1, PutLeaves, SMTT(30) DEF Apart
    <2> QED
        BY <2>2
<1> QED
    BY <1>3, <1>4

LEMMA NextInvHead ==
    ASSUME ConfigAssumption, LapsBase, [Next]_vars, ~Torn, ~Torn', NEW s \in Nat \ {0},
           Uniform(s), Laps(s)
    PROVE  InvHead(s)'
<1> /\ IndType /\ LockDiscipline /\ InvRear /\ InvPlaces(s) /\ InvLap(s) /\ InvOut(s)
    /\ InvSlots(s) /\ InvHead(s) /\ Following(s)
    BY DEF LapsBase, Laps, Following
<1> Len(log) \in Nat
    BY HistoryType
<1>1. CASE PutOnSHM
    <2>1. spc' = "publish" /\ UNCHANGED <<head_position, log, held, received>>
        BY <1>1 DEF PutOnSHM, Torn, LockDiscipline, StreamerInside, HandlerInside, metric, handler
    <2>2. head' = head
        BY <2>1 DEF head
    <2>3. ASSUME log # <<>>, head_position # 0
          PROVE  \E i \in 1 .. Len(log) :
                     \/ head = log[i].off /\ Fresh(mem'[log[i].off].msg)
                     \/ head = log[i].off + s /\ Overflow(head, s) /\ Fresh(mem'[0].msg)
        <3>1. PICK i \in 1 .. Len(log) :
                  \/ head = log[i].off /\ Fresh(mem[log[i].off].msg)
                  \/ head = log[i].off + s /\ Overflow(head, s) /\ Fresh(mem[0].msg)
            BY <2>3 DEF InvHead
        <3>2. 1 \in 1 .. Len(log) /\ log[1].off = 0
            BY <2>3, HistoryType DEF InvPlaces
        <3>3. Fresh(mem[log[i].off].msg) => Fresh(mem'[log[i].off].msg)
            BY <1>1, <2>1, PutFresh
        <3>4. Fresh(mem[0].msg) => Fresh(mem'[0].msg)
            BY <1>1, <2>1, <3>2, PutFresh
        <3> QED
            BY <3>1, <3>3, <3>4
    <2> QED
        BY <2>1, <2>2, <2>3 DEF InvHead, Fresh, Overflow
<1>2. CASE PublishFrame
    <2> DEFINE n == Len(log) + 1
    <2>1. /\ Len(log') = n /\ n \in 1 .. n /\ log'[n].off = start
          /\ \A i \in 1 .. Len(log) : log'[i] = log[i] /\ i \in 1 .. n
          /\ UNCHANGED <<mem, held, received>> /\ head_position' = HeadOnPublish
        BY <1>2, PublishAppends DEF PublishFrame, handler
    <2>2. Fresh(mem[start].msg)
        <3>1. Stored = n /\ Place(n) = start /\ n \in 1 .. Stored
            BY <1>2, <2>1 DEF PublishFrame, Stored, Place
        <3>2. mem[start].msg \in n .. n
            BY <3>1, SlotHolds
        <3> QED
            BY <3>2, ReceivedType DEF Fresh
    <2>3. CASE head_position = 0 \/ log = <<>>
        <3>1. head' = start
            <4>1. start \in Nat /\ MetricSize \in Nat /\ (log = <<>> => start = 0)
                BY <1>2, FirstOffset DEF PublishFrame, InvLap, IndType, TypeOK
            <4>2. head_position' = MetricSize + start
                <5>1. head_position' = HeadOnPublish
                    BY <2>1
                <5>2. CASE head_position = 0
                    BY <5>1, <5>2 DEF HeadOnPublish
                <5>3. CASE head_position # 0
                    <6>1. head_position = MetricSize /\ start = 0
                        BY <2>3, <4>1, <5>3 DEF InvRear
                    <6> QED
                        BY <4>1, <5>1, <5>3, <6>1 DEF HeadOnPublish
                <5> QED
                    BY <5>2, <5>3
            <4> QED
                BY <4>1, <4>2 DEF head
        <3>2. head' = log'[n].off /\ Fresh(mem'[log'[n].off].msg)
            BY <2>1, <2>2, <3>1
        <3>3. Fresh(mem[log[Len(log)].off].msg)'
            BY <2>1, <3>2 DEF Fresh
        <3>4. Len(log') \in 1 .. Len(log') /\ head' = log'[Len(log')].off
            BY <2>1, <3>2
        <3> QED
            BY <3>3, <3>4 DEF InvHead, Fresh
    <2>4. CASE head_position # 0 /\ log # <<>>
        <3>1. head' = head
            BY <2>1, <2>4 DEF HeadOnPublish, head
        <3>2. PICK i \in 1 .. Len(log) :
                  \/ head = log[i].off /\ Fresh(mem[log[i].off].msg)
                  \/ head = log[i].off + s /\ Overflow(head, s) /\ Fresh(mem[0].msg)
            BY <2>4 DEF InvHead
        <3>3. i \in 1 .. Len(log') /\ log'[i] = log[i]
            BY <2>1
        <3> QED
            BY <2>1, <3>1, <3>2, <3>3 DEF InvHead, Fresh, Overflow
    <2> QED
        BY <2>3, <2>4
<1>3. CASE DequeFetch
    BY <1>3, FetchFollows
<1>4. CASE DequeRelease
    <2>1. UNCHANGED <<head_position, mem, log>> /\ held' = NoMessage
        BY <1>4, ReleaseKeeps
    <2>2. head' = head
        BY <2>1 DEF head
    <2>3. ASSUME NEW m \in Nat, Fresh(m)
          PROVE  held'.msg < m /\ \A j \in 1 .. Len(received') : received'[j] < m
        <3>1. held'.msg < m
            BY <2>1, <2>3, ReceivedType DEF Fresh, NoMessage
        <3>2. CASE held.dataLength = 0
            BY <1>4, <2>3, <3>1, <3>2, ReleaseKeeps DEF Fresh
        <3>3. CASE held.dataLength # 0
            <4>1. /\ Len(received') = Len(received) + 1 /\ Len(received) \in Nat
                  /\ \A j \in 1 .. Len(received) : received'[j] = received[j]
                  /\ received'[Len(received) + 1] = held.msg
                BY <1>4, <3>3, ReleaseKeeps, HistoryType
            <4> QED
                BY <2>3, <3>1, <4>1 DEF Fresh
        <3> QED
            BY <3>2, <3>3
    <2>4. ASSUME log # <<>>, head_position # 0
          PROVE  \E i \in 1 .. Len(log) :
                     \/ head = log[i].off /\ Fresh(mem[log[i].off].msg)'
                     \/ head = log[i].off + s /\ Overflow(head, s) /\ Fresh(mem[0].msg)'
        <3>1. PICK i \in 1 .. Len(log) :
                  \/ head = log[i].off /\ Fresh(mem[log[i].off].msg)
                  \/ head = log[i].off + s /\ Overflow(head, s) /\ Fresh(mem[0].msg)
            BY <2>4 DEF InvHead
        <3>2. spc # "publish" /\ i \in 1 .. Stored /\ Place(i) = log[i].off
            BY <1>4 DEF DequeRelease, LockDiscipline, StreamerInside, HandlerInside, Stored, Place
        <3>3. mem[log[i].off].msg \in Nat /\ mem[0].msg \in Nat
            BY <3>2, SlotHolds, FirstOffset DEF IndType, TypeOK, Cell
        <3>4. Fresh(mem[log[i].off].msg) => Fresh(mem[log[i].off].msg)'
            BY <2>1, <2>3, <3>3 DEF Fresh
        <3>5. Fresh(mem[0].msg) => Fresh(mem[0].msg)'
            BY <2>1, <2>3, <3>3 DEF Fresh
        <3> QED
            BY <3>1, <3>4, <3>5
    <2> QED
        BY <2>1, <2>2, <2>4 DEF InvHead, Overflow
<1>5. CASE UNCHANGED <<head_position, mem, log, held, received>>
    BY <1>5 DEF InvHead, Fresh, head, Overflow
<1> QED
    BY <1>1, <1>2, <1>3, <1>4, <1>5, RingSteps
    DEF StreamerElsewhere, NextFrame, TraversalFault, KillStreamer, EnqueueStart,
        EnqueueOverflow, JoinListener, EnqueueReacquire, HandlerIdles, metric, handler

LEMMA NextInvSeen ==
    ASSUME ConfigAssumption, LapsBase, [Next]_vars, ~Torn, ~Torn', NEW s \in Nat \ {0},
           Uniform(s), Laps(s)
    PROVE  InvSeen(s)'
<1> /\ IndType /\ LockDiscipline /\ InvPlaces(s) /\ InvLap(s) /\ InvOut(s)
    /\ InvSlots(s) /\ InvSeen(s) /\ Following(s)
    BY DEF LapsBase, Laps, Following
<1> Len(log) \in Nat
    BY HistoryType
<1>1. CASE PutOnSHM
    <2>1. /\ frame.size = s /\ start \in Nat /\ mem' = Written(frame, start, Len(log) + 1)
          /\ UNCHANGED <<held, received>> /\ spc = "put"
        BY <1>1, HandSize DEF PutOnSHM, Busy, handler, IndType, TypeOK
    <2>2. CASE start = 0
        <3>1. mem'[0] = Header(frame, start, Len(log) + 1)
            BY <2>1, <2>2, FirstOffset DEF Written
        <3> QED
            BY <3>1 DEF Header, InvSeen
    <2>3. CASE start # 0
        <3>1. mem'[0] = mem[0]
            BY <1>1, <2>1, <2>3, FirstOffset, PutLeaves
        <3>2. Stored >= 1
            BY <2>1, <2>3, HistoryType DEF Stored, InvLap
        <3> QED
            BY <2>1, <3>1, <3>2 DEF InvSeen, Kept
    <2> QED
        BY <2>2, <2>3
<1>2. CASE PublishFrame
    <2>1. Stored' = Stored /\ UNCHANGED <<mem, held, received>>
        BY <1>2, PublishAppends DEF PublishFrame, Stored, handler
    <2> QED
        BY <2>1 DEF InvSeen, Kept
<1>3. CASE DequeFetch
    BY <1>3, FetchFollows
<1>4. CASE DequeRelease
    <2>1. UNCHANGED <<mem, spc, log>> /\ Stored' = Stored
        BY <1>4, ReleaseKeeps DEF Stored
    <2>2. ASSUME s >= 2, Stored >= 1, mem[0].processed PROVE mem[0].msg \in Kept'
        <3>1. mem[0].msg \in Kept \cup {held.msg}
            BY <2>2 DEF InvSeen
        <3>2. CASE held.dataLength = 0
            <4>1. held.msg = 0
                BY <2>2, <3>2 DEF InvOut
            <4>2. mem[0].msg # 0
                <5>1. log # <<>> /\ 1 \in 1 .. Stored /\ Place(1) = log[1].off
                    BY <1>4, <2>2, HistoryType
                    DEF DequeRelease, LockDiscipline, StreamerInside, HandlerInside, Stored, Place
                <5>2. mem[0].msg \in 1 .. Stored
                    BY <5>1, SlotHolds DEF InvPlaces
                <5> QED
                    BY <5>2
            <4>3. Kept' = Kept
                BY <1>4, <3>2, ReleaseKeeps DEF Kept
            <4> QED
                BY <3>1, <4>1, <4>2, <4>3
        <3>3. CASE held.dataLength # 0
            <4>1. /\ Len(received') = Len(received) + 1 /\ Len(received) \in Nat
                  /\ \A j \in 1 .. Len(received) : received'[j] = received[j]
                  /\ received'[Len(received) + 1] = held.msg
                BY <1>4, <3>3, ReleaseKeeps, HistoryType
            <4>2. CASE mem[0].msg = held.msg
                <5>1. Len(received) + 1 \in 1 .. Len(received')
                    BY <4>1
                <5> QED
                    BY <4>1, <4>2, <5>1 DEF Kept
            <4>3. CASE mem[0].msg \in Kept
                <5>1. PICK j \in 1 .. Len(received) : received[j] = mem[0].msg
                    BY <4>3 DEF Kept
                <5>2. j \in 1 .. Len(received') /\ received'[j] = mem[0].msg
                    BY <4>1, <5>1
                <5> QED
                    BY <5>2 DEF Kept
            <4> QED
                BY <3>1, <4>2, <4>3
        <3> QED
            BY <3>2, <3>3
    <2> QED
        BY <2>1, <2>2 DEF InvSeen
<1>5. CASE KillStreamer
    <2>1. /\ spc # "publish" /\ spc' # "publish" /\ UNCHANGED <<mem, log, held, received>>
        BY <1>5 DEF KillStreamer, Torn, LockDiscipline, StreamerInside, HandlerInside, metric, handler
    <2> QED
        BY <2>1 DEF InvSeen, Kept, Stored
<1>6. CASE /\ UNCHANGED <<mem, log, held, received>>
           /\ UNCHANGED spc \/ (spc # "publish" /\ spc' # "publish")
    BY <1>6 DEF InvSeen, Kept, Stored
<1> QED
    BY <1>1, <1>2, <1>3, <1>4, <1>5, <1>6, RingSteps
    DEF StreamerElsewhere, NextFrame, TraversalFault, EnqueueStart, EnqueueOverflow,
        JoinListener, EnqueueReacquire, HandlerIdles, streamer, handler

-----------------------------------------------------------------------------
(* The two promises.                                                       *)

LEMMA InitIndLaps == ConfigAssumption /\ Init => IndLaps
<1> SUFFICES ASSUME ConfigAssumption, Init PROVE IndLaps
    OBVIOUS
<1>1. IndType
    BY InitIndType
<1>2. /\ Len(log) = 0 /\ log = <<>> /\ Len(received) = 0 /\ held = NoMessage
      /\ spc = "idle" /\ hpc = "wait" /\ ~locked /\ frame = NoFrame
    BY DEF Init
<1>3. LapsBase
    BY <1>1, <1>2
    DEF LapsBase, Init, LockDiscipline, StreamerInside, HandlerInside,
        CountNeverOverReports, IndRear, InvSizes, InvRear
<1>4. ASSUME NEW s \in Nat \ {0} PROVE Laps(s)
    <2>1. InvPlaces(s) /\ InvLap(s) /\ InvHead(s)
        BY <1>2 DEF InvPlaces, InvLap, InvHead
    <2>2. InvOut(s)
        BY <1>2 DEF InvOut, NoMessage
    <2>3. Stored = 0
        BY <1>2 DEF Stored
    <2>4. \A a \in Offsets : mem[a] = ZeroCell
        BY DEF Init
    <2>5. InvSlots(s) /\ InvSeen(s)
        BY <2>3, <2>4 DEF InvSlots, InvSeen, ZeroCell
    <2> QED
        BY <2>1, <2>2, <2>5 DEF Laps
<1> QED
    BY <1>3, <1>4 DEF IndLaps

LEMMA NextIndLaps ==
    ASSUME ConfigAssumption, IndLaps, [Next]_vars
    PROVE  IndLaps'
<1>1. LapsBase /\ LapsBase'
    BY NextLapsBase DEF IndLaps
<1>2. ASSUME NEW s \in Nat \ {0}, Uniform(s)' PROVE Laps(s)'
    <2>1. Uniform(s) /\ Laps(s)
        BY <1>1, <1>2, UniformBack DEF IndLaps
    <2>2. InvPlaces(s) /\ InvLap(s)
        BY <2>1 DEF Laps
    <2>3. InvPlaces(s)' /\ InvLap(s)'
        BY <1>1, <2>1, <2>2, NextInvPlaces, NextInvLap
    <2>4. InvOut(s)'
        BY <1>1, <2>1, NextInvOut
    <2>5. ASSUME ~Torn' PROVE InvSlots(s)' /\ InvHead(s)' /\ InvSeen(s)'
        <3>1. ~Torn
            BY <2>5, TornStays
        <3>2. InvSlots(s)
            BY <2>1, <3>1 DEF Laps
        <3> QED
            BY <1>1, <2>1, <2>2, <2>5, <3>1, <3>2, NextInvSlots, NextInvHead, NextInvSeen
    <2> QED
        BY <2>3, <2>4, <2>5 DEF Laps
<1> QED
    BY <1>1, <1>2 DEF IndLaps

\* The sizes that OneSize compares are one size.
LEMMA OneSizeIsUniform ==
    ASSUME IndType, InvSizes, OneSize
    PROVE  \E s \in Nat \ {0} : Uniform(s)
<1>1. CASE log # <<>>
    <2>1. 1 \in 1 .. Len(log) /\ log[1].size \in Nat \ {0}
        BY <1>1, HistoryType DEF InvSizes
    <2>2. Uniform(log[1].size)
        BY <2>1 DEF OneSize, Uniform
    <2> QED
        BY <2>1, <2>2
<1>2. CASE log = <<>> /\ frame # NoFrame
    <2>1. frame.size \in Nat \ {0}
        BY <1>2 DEF InvSizes, IndType, TypeOK
    <2>2. Uniform(frame.size)
        BY <1>2 DEF Uniform
    <2> QED
        BY <2>1, <2>2
<1>3. CASE log = <<>> /\ frame = NoFrame
    <2>1. Uniform(1)
        BY <1>3 DEF Uniform
    <2> QED
        BY <2>1
<1> QED
    BY <1>1, <1>2, <1>3

LEMMA LapsKeepOrder == ConfigAssumption /\ IndLaps => OrderPreserved
<1> SUFFICES ASSUME ConfigAssumption, IndLaps, OneSize, NEW i \in 1 .. Len(received)
             PROVE  /\ received[i] \in 1 .. Len(log)
                    /\ i > 1 => received[i - 1] < received[i]
    BY DEF OrderPreserved
<1>1. PICK s \in Nat \ {0} : Uniform(s)
    BY OneSizeIsUniform DEF IndLaps, LapsBase
<1>2. InvOut(s)
    BY <1>1 DEF IndLaps, Laps
<1>3. ASSUME i > 1 PROVE i - 1 \in 1 .. Len(received) /\ i - 1 < i
    BY <1>3, HistoryType DEF IndLaps, LapsBase
<1> QED
    BY <1>2, <1>3 DEF InvOut

LEMMA LapsJoin == ConfigAssumption /\ IndLaps => JoinProtects
<1> SUFFICES ASSUME ConfigAssumption, IndLaps, OneSize, spc = "reacquire",
                    NEW i \in Unread, log[i].size >= 2, Intact(i),
                    log[i].off < frame.size
             PROVE  FALSE
    <2>1. IndLaps => \A i \in Unread : log[i].off \in Nat /\ frame.size \in Nat
        BY HistoryType DEF IndLaps, LapsBase, IndType, TypeOK, Unread
    <2> QED
        BY <2>1 DEF JoinProtects
<1> IndType
    BY DEF IndLaps, LapsBase
<1>1. PICK s \in Nat \ {0} : Uniform(s)
    BY OneSizeIsUniform DEF IndLaps, LapsBase
<1>2. Laps(s) /\ InvPlaces(s) /\ InvLap(s) /\ InvSeen(s)
    BY <1>1 DEF IndLaps, Laps, Torn
<1>3. i \in 1 .. Len(log) /\ i \notin Kept /\ i # held.msg /\ log # <<>> /\ Len(log) \in Nat
    BY HistoryType DEF Unread
<1>4. frame.size = s /\ log[i].size = s /\ s >= 2
    BY <1>1, <1>3, HandSize DEF Busy, Uniform
<1>5. log[i].off = 0
    <2>1. /\ 1 \in 1 .. Len(log) /\ log[1].off = 0 /\ log[i].off \in Nat
          /\ Apart(log[1].off, log[i].off, s)
        BY <1>2, <1>3, HistoryType DEF InvPlaces
    <2> QED
        BY <1>4, <2>1 DEF Apart
<1>6. mem[0].msg = i
    <2>1. 0 \in 0 .. (log[i].size - 1) /\ 0 + 0 = 0
        BY <1>4
    <2> QED
        BY <1>5, <2>1 DEF Intact
<1>7. mem[0].processed /\ Stored >= 1
    BY <1>2, <1>3 DEF InvLap, Stored
<1> QED
    BY <1>2, <1>3, <1>4, <1>6, <1>7 DEF InvSeen

\* As long as the frames have one size, whatever the size of the region, the pace
\* of the two processes and their deaths: what ListenSHMQueue keeps is whole, never
\* the same frame twice and never older than one it has.
THEOREM OrderIsPreserved == Spec => []OrderPreserved
<1>1. Init => IndLaps
    BY ConfigAssumption, InitIndLaps
<1>2. IndLaps /\ [Next]_vars => IndLaps'
    BY ConfigAssumption, NextIndLaps
<1>3. IndLaps => OrderPreserved
    BY ConfigAssumption, LapsKeepOrder
<1> QED
    BY <1>1, <1>2, <1>3, PTL DEF Spec

\* As long as the frames have one size, the message JoinListener has waited for
\* is the one the next frame overwrites, and no unread frame with data is lost to
\* the first frame of a lap.
THEOREM JoinDoesProtect == Spec => []JoinProtects
<1>1. Init => IndLaps
    BY ConfigAssumption, InitIndLaps
<1>2. IndLaps /\ [Next]_vars => IndLaps'
    BY ConfigAssumption, NextIndLaps
<1>3. IndLaps => JoinProtects
    BY ConfigAssumption, LapsJoin
<1> QED
    BY <1>1, <1>2, <1>3, PTL DEF Spec

-----------------------------------------------------------------------------
(* When the handler has emptied the ring whenever the streamer goes back   *)
(* to its start, the ring is a channel: for every size of the region,      *)
(* every set of frame sizes and every number of frames.                    *)

\* Frames have data: ListenSHMQueue drops those that have none.
FramesHaveData == \A size \in Sizes : size >= 2

published == Len(log)
taken == Len(Taken)
Pending == (taken + 1) .. published

\* What Deque has taken is 1, 2, ..., and the counter says what is left.
InvTaken ==
    /\ taken <= published
    /\ \A i \in 1 .. taken : Taken[i] = i
    /\ message_cnt + Len(received) = published
    /\ hpc = "release" => held.dataLength >= 1
    /\ hpc \notin {"release", "dead"} => held = NoMessage

\* The head is the oldest pending frame, the rear the newest.
InvEnds ==
    /\ published = 0 => head_position = MetricSize /\ rear_position = 0
    /\ published > 0 => rear_position = MetricSize + Last.off
    /\ published > 0 /\ taken = published => head_position = 0
    /\ taken < published => head_position = MetricSize + log[taken + 1].off

\* The pending frames lie whole, each right behind the one before.
InvPending ==
    /\ \A i \in 1 .. published : log[i].size >= 2
    /\ \A i \in Pending : Placed(i, log[i].off, log[i].size)
    /\ \A i, j \in Pending : i < j => log[i].off + log[i].size <= log[j].off
    /\ \A i \in Pending : i + 1 \in Pending => log[i].off + log[i].size = log[i + 1].off

\* What Enqueue has decided while it holds the message.
InvEnqueue ==
    /\ Busy => frame.size >= 2
    /\ spc = "acquire" /\ Overflow(NextStart, frame.size) => taken = published
    /\ spc \in {"join", "reacquire"} => published > 0 /\ taken = published
    /\ spc \in {"put", "publish"} =>
           /\ taken < published => start = Last.off + Last.size
           /\ published = 0 => start = 0
    /\ spc = "publish" => Placed(published + 1, start, frame.size)

IndDrained == IndType /\ IndRear /\ InvTaken /\ InvEnds /\ InvPending /\ InvEnqueue

LEMMA LogType ==
    ASSUME IndDrained
    PROVE  /\ published \in Nat /\ taken \in Nat /\ Len(received) \in Nat
           /\ \A i \in 1 .. published : log[i].off \in Nat /\ log[i].size \in Nat
<1>1. log \in Seq([off : Nat, size : Nat]) /\ received \in Seq(Nat) /\ held.msg \in Nat
    BY DEF IndDrained, IndType, TypeOK
<1>2. published \in Nat /\ taken \in Nat /\ Len(received) \in Nat
    BY <1>1 DEF published, taken, Taken
<1>3. ASSUME NEW i \in 1 .. published
      PROVE  log[i].off \in Nat /\ log[i].size \in Nat
    <2>1. log[i] \in [off : Nat, size : Nat]
        BY <1>1, ElementType DEF published
    <2> QED
        BY <2>1
<1> QED
    BY <1>2, <1>3

\* What PublishFrame does to the history.
LEMMA PublishExtends ==
    ASSUME IndDrained, PublishFrame
    PROVE  /\ published' = published + 1
           /\ \A i \in 1 .. published : log'[i] = log[i]
           /\ log'[published + 1] = [off |-> start, size |-> frame.size]
           /\ Last' = [off |-> start, size |-> frame.size]
           /\ Taken' = Taken /\ taken' = taken
<1>1. log \in Seq([off : Nat, size : Nat]) /\ start \in Nat /\ frame.size \in Nat
    BY DEF IndDrained, IndType, TypeOK
<1>2. log' = Append(log, [off |-> start, size |-> frame.size])
    BY DEF PublishFrame
<1>3. [off |-> start, size |-> frame.size] \in [off : Nat, size : Nat]
    BY <1>1
<1>4. UNCHANGED <<held, received>>
    BY DEF PublishFrame, handler
<1> QED
    BY <1>1, <1>2, <1>3, <1>4, AppendElements DEF published, Last, Taken, taken

-----------------------------------------------------------------------------
(* Deque takes the oldest pending frame, whole.                            *)

LEMMA FetchTakesOldest ==
    ASSUME IndDrained, DequeFetch
    PROVE  /\ taken < published
           /\ head = log[taken + 1].off /\ head \in Offsets
           /\ mem[head].next = log[taken + 1].off + log[taken + 1].size
           /\ mem[head].msg = taken + 1
           /\ held'.dataLength >= 1
           /\ Taken' = Append(Taken, taken + 1)
           /\ taken' = taken + 1
<1>1. held = NoMessage /\ Taken = received
    BY DEF IndDrained, InvTaken, DequeFetch, Taken
<1>2. taken < published /\ taken + 1 \in Pending /\ taken + 1 \in 1 .. published
    BY <1>1, LogType DEF IndDrained, InvTaken, DequeFetch, taken, Pending, IndType, TypeOK
<1>3. head = log[taken + 1].off
    BY <1>2, LogType, ConfigAssumption
    DEF IndDrained, InvEnds, head, ConfigAssumption
<1>4. Placed(taken + 1, head, log[taken + 1].size) /\ log[taken + 1].size >= 2
    BY <1>2, <1>3 DEF IndDrained, InvPending
<1>5. /\ head \in Offsets /\ At(head) = mem[head]
      /\ mem[head].msg = taken + 1 /\ mem[head].unit = 0
      /\ mem[head].next = log[taken + 1].off + log[taken + 1].size
      /\ mem[head].dataLength = log[taken + 1].size - 1
    BY <1>3, <1>4 DEF Placed, HeaderAt, At
<1>6. Content = taken + 1
    BY <1>4, <1>5 DEF Content, Placed, At
<1>7. held' = [dataLength |-> log[taken + 1].size - 1, msg |-> taken + 1]
    BY <1>5, <1>6 DEF DequeFetch
<1>8. held'.dataLength >= 1 /\ held'.msg = taken + 1 /\ held' # NoMessage
    BY <1>2, <1>4, <1>7, LogType DEF NoMessage
<1>9. Taken' = Append(Taken, taken + 1)
    BY <1>1, <1>8 DEF Taken, DequeFetch
<1>10. taken' = taken + 1
    BY <1>1, <1>9 DEF taken, IndDrained, IndType, TypeOK
<1> QED
    BY <1>2, <1>3, <1>5, <1>8, <1>9, <1>10

LEMMA ReleaseKeepsTaken ==
    ASSUME IndDrained, DequeRelease
    PROVE  /\ Taken' = Taken /\ taken' = taken
           /\ Len(received') = Len(received) + 1
           /\ held' = NoMessage
<1>1. held.dataLength >= 1 /\ held # NoMessage
    BY DEF IndDrained, InvTaken, DequeRelease, NoMessage
<1>2. received' = Append(received, held.msg) /\ held' = NoMessage
    BY <1>1 DEF DequeRelease, IndDrained, IndType, TypeOK
<1>3. Taken' = Taken
    BY <1>1, <1>2 DEF Taken
<1> QED
    BY <1>2, <1>3 DEF taken, IndDrained, IndType, TypeOK

\* Steps that touch neither the messages nor what is taken.
Quiet ==
    /\ UNCHANGED <<message_cnt, head_position, rear_position, mem, held, received, log>>
    /\ hpc' = "release" => hpc = "release"
    /\ hpc \in {"release", "dead"} => hpc' \in {"release", "dead"}

LEMMA QuietSteps ==
    ASSUME [Next]_vars
    PROVE  \/ Quiet /\ (UNCHANGED <<spc, frame, start>> \/ UNCHANGED hpc)
           \/ PutOnSHM \/ PublishFrame \/ DequeFetch \/ DequeRelease
BY DEF Next, Enqueue, Handler, vars, metric, streamer, handler, Quiet, NextFrame,
       EnqueueStart, EnqueueOverflow, TraversalFault, JoinListener,
       EnqueueReacquire, WaitForMessages, DequeEmpty, DequeFault, Callback,
       KillStreamer, KillHandler

LEMMA QuietTaken ==
    ASSUME UNCHANGED <<held, received, log>>
    PROVE  Taken' = Taken /\ taken' = taken /\ published' = published /\ Last' = Last
BY DEF Taken, taken, published, Last

-----------------------------------------------------------------------------
(* The four parts of the invariant, one lemma each.                        *)

LEMMA NextInvTaken ==
    ASSUME IndDrained, [Next]_vars
    PROVE  InvTaken'
<1>1. CASE Quiet
    BY <1>1, QuietTaken DEF Quiet, IndDrained, InvTaken
<1>2. CASE PutOnSHM
    BY <1>2, QuietTaken DEF PutOnSHM, metric, handler, IndDrained, InvTaken
<1>3. CASE PublishFrame
    <2>1. UNCHANGED <<hpc, held, received>> /\ message_cnt' = message_cnt + 1
        BY <1>3 DEF PublishFrame, handler
    <2>2. message_cnt' + Len(received') = published'
        BY <1>3, <2>1, PublishExtends, LogType DEF IndDrained, IndType, TypeOK, InvTaken
    <2> QED
        BY <1>3, <2>1, <2>2, PublishExtends, LogType DEF IndDrained, InvTaken
<1>4. CASE DequeFetch
    <2>1. published' = published /\ UNCHANGED <<message_cnt, received>> /\ hpc' = "release"
        BY <1>4 DEF DequeFetch, published
    <2>2. ASSUME NEW i \in 1 .. taken' PROVE Taken'[i] = i
        <3>1. Taken \in Seq(Nat)
            BY DEF Taken, IndDrained, IndType, TypeOK
        <3> QED
            <4>1. Taken' = Append(Taken, taken + 1) /\ taken' = taken + 1
                BY <1>4, FetchTakesOldest
            <4>2. taken = Len(Taken) /\ \A j \in 1 .. taken : Taken[j] = j
                BY DEF IndDrained, InvTaken, taken
            <4> QED
                BY <2>2, <3>1, <4>1, <4>2, AppendElements
    <2> QED
        BY <1>4, <2>1, <2>2, FetchTakesOldest, LogType DEF IndDrained, InvTaken
<1>5. CASE DequeRelease
    <2>1. published' = published /\ message_cnt' = message_cnt - 1 /\ hpc' \in {"callback", "wait"}
        BY <1>5 DEF DequeRelease, streamer, published
    <2> QED
        <3>1. message_cnt' + Len(received') = published'
            BY <1>5, <2>1, ReleaseKeepsTaken, LogType DEF IndDrained, IndType, TypeOK, InvTaken
        <3> QED
            BY <1>5, <2>1, <3>1, ReleaseKeepsTaken DEF IndDrained, InvTaken
<1> QED
    BY <1>1, <1>2, <1>3, <1>4, <1>5, QuietSteps

LEMMA NextInvEnds ==
    ASSUME IndDrained, [Next]_vars
    PROVE  InvEnds'
<1>1. CASE Quiet
    BY <1>1, QuietTaken DEF Quiet, IndDrained, InvEnds
<1>2. CASE PutOnSHM
    BY <1>2, QuietTaken DEF PutOnSHM, metric, handler, IndDrained, InvEnds
<1>3. CASE PublishFrame
    <2>1. /\ published' = published + 1 /\ taken' = taken
          /\ Last' = [off |-> start, size |-> frame.size]
        BY <1>3, PublishExtends
    <2>2. taken <= published
        BY DEF IndDrained, InvTaken
    <2>3. rear_position' = MetricSize + start
        BY <1>3 DEF PublishFrame
    <2>4. head_position' = MetricSize + log'[taken + 1].off
        <3>1. CASE taken < published
            <4>1. log'[taken + 1] = log[taken + 1] /\ log[taken + 1].off \in Nat
                <5>1. taken + 1 \in 1 .. published
                    BY <3>1, LogType
                <5> QED
                    BY <1>3, <5>1, PublishExtends, LogType
            <4>2. head_position = MetricSize + log[taken + 1].off
                BY <3>1 DEF IndDrained, InvEnds
            <4>3. head_position # 0
                BY <4>1, <4>2, ConfigAssumption DEF ConfigAssumption
            <4> QED
                BY <1>3, <4>1, <4>2, <4>3 DEF PublishFrame, HeadOnPublish
        <3>2. CASE taken = published
            <4>1. log'[taken + 1].off = start
                BY <1>3, <3>2, PublishExtends
            <4>2. CASE published > 0
                BY <1>3, <3>2, <4>1, <4>2
                DEF PublishFrame, HeadOnPublish, IndDrained, InvEnds
            <4>3. CASE published = 0
                BY <1>3, <3>2, <4>1, <4>3, ConfigAssumption
                DEF PublishFrame, HeadOnPublish, IndDrained, InvEnds, InvEnqueue, ConfigAssumption
            <4> QED
                BY <4>2, <4>3, LogType
        <3> QED
            BY <2>2, <3>1, <3>2, LogType
    <2> QED
        BY <2>1, <2>2, <2>3, <2>4, LogType DEF InvEnds
<1>4. CASE DequeFetch
    <2>1. /\ published' = published /\ taken' = taken + 1 /\ taken < published
          /\ UNCHANGED <<log, rear_position>> /\ Last' = Last
        BY <1>4, FetchTakesOldest DEF DequeFetch, published, Last
    <2>2. CASE taken + 1 = published
        <3>1. rear_position = head_position
            BY <2>2, LogType DEF IndDrained, InvEnds, Last, published
        <3>2. head_position' = 0
            BY <1>4, <3>1 DEF DequeFetch, NextHead
        <3> QED
            BY <2>1, <2>2, <3>2, LogType DEF IndDrained, InvEnds
    <2>3. CASE taken + 1 < published
        <3>1. taken + 1 \in Pending /\ taken + 2 \in Pending /\ published \in Pending
            BY <2>1, <2>3, LogType DEF Pending
        <3>2. /\ log[taken + 1].off + log[taken + 1].size = log[taken + 2].off
              /\ log[taken + 1].off + log[taken + 1].size <= log[published].off
              /\ log[taken + 1].size >= 2
            BY SMTT(60), <2>3, <3>1, LogType DEF IndDrained, InvPending, Pending
        <3>3. /\ head_position = MetricSize + log[taken + 1].off
              /\ rear_position = MetricSize + log[published].off
            BY <2>1, LogType DEF IndDrained, InvEnds, Last, published
        <3>4. rear_position # head_position
            <4>1. taken + 1 \in 1 .. published /\ published \in 1 .. published
                BY <2>1, LogType
            <4>2. /\ log[taken + 1].off \in Nat /\ log[taken + 1].size \in Nat
                  /\ log[published].off \in Nat /\ MetricSize \in Nat
                BY <4>1, LogType, ConfigAssumption DEF ConfigAssumption
            <4> QED
                BY <3>2, <3>3, <4>2
        <3>5. head_position' = MetricSize + log[taken + 2].off
            BY <1>4, <3>2, <3>4, FetchTakesOldest DEF DequeFetch, NextHead
        <3> QED
            BY <2>1, <2>3, <3>5, LogType DEF IndDrained, InvEnds
    <2> QED
        BY <2>1, <2>2, <2>3, LogType
<1>5. CASE DequeRelease
    <2>1. published' = published /\ UNCHANGED <<head_position, rear_position, log>> /\ Last' = Last
        BY <1>5 DEF DequeRelease, streamer, published, Last
    <2> QED
        BY <1>5, <2>1, ReleaseKeepsTaken DEF IndDrained, InvEnds
<1> QED
    BY <1>1, <1>2, <1>3, <1>4, <1>5, QuietSteps

\* Placed frames stay placed while the handler acknowledges.
LEMMA HandlerKeepsPlaced ==
    ASSUME IndDrained, Handler \/ KillHandler, NEW i, NEW off, NEW size
    PROVE  /\ HeaderAt(i, off, size) => HeaderAt(i, off, size)'
           /\ Placed(i, off, size) => Placed(i, off, size)'
BY ConfigAssumption, HandlerKeeps DEF IndDrained, HeaderAt, Placed

LEMMA NextInvPending ==
    ASSUME IndDrained, [Next]_vars
    PROVE  InvPending'
<1>1. CASE Quiet
    <2>1. UNCHANGED <<mem, log>> /\ taken' = taken /\ published' = published
        BY <1>1, QuietTaken DEF Quiet
    <2> QED
        BY <2>1 DEF IndDrained, InvPending, Pending, Placed, HeaderAt
<1>2. CASE PutOnSHM
    <2>1. /\ UNCHANGED log /\ taken' = taken /\ published' = published /\ Pending' = Pending
          /\ mem' = Written(frame, start, Len(log) + 1)
        BY <1>2, QuietTaken DEF PutOnSHM, metric, handler, Pending
    <2>2. ASSUME NEW i \in Pending
          PROVE  Placed(i, log[i].off, log[i].size)'
        <3> DEFINE off == log[i].off
                   size == log[i].size
        <3>1. i \in 1 .. published /\ taken < published
            BY LogType DEF Pending
        <3>2. off \in Nat /\ size \in Nat /\ size >= 2 /\ Placed(i, off, size)
            BY <3>1, LogType DEF IndDrained, InvPending
        <3>3. start \in Nat /\ frame.size \in Nat /\ start = Last.off + Last.size
            BY <1>2, <3>1 DEF PutOnSHM, IndDrained, InvEnqueue, IndType, TypeOK
        <3>4. off + size <= start
            <4>1. CASE i = published
                BY <3>3, <4>1 DEF Last, published
            <4>2. CASE i < published
                <5>1. published \in Pending
                    BY <3>1, LogType DEF Pending
                <5>2. published \in 1 .. published /\ Last = log[published]
                    BY <3>1, LogType DEF Last, published
                <5>3. off + size <= Last.off
                    BY <4>2, <5>1, <5>2 DEF IndDrained, InvPending
                <5>4. Last.off \in Nat /\ Last.size \in Nat
                    BY <5>2, LogType
                <5> HIDE DEF off, size
                <5> QED
                    BY <3>2, <3>3, <5>3, <5>4
            <4> QED
                BY <3>1, <4>1, <4>2, LogType
        <3>5. \A a \in Offsets : off <= a /\ a < off + size => mem'[a] = mem[a]
            <4> SUFFICES ASSUME NEW a \in Offsets, off <= a, a < off + size
                         PROVE  mem'[a] = mem[a]
                OBVIOUS
            <4>1. a \in Int
                BY DEF Offsets
            <4>2. a < start
                <5> HIDE DEF off, size
                <5> QED
                    BY <3>2, <3>3, <3>4, <4>1
            <4> QED
                BY <2>1, <3>3, <4>1, <4>2 DEF Written
        <3>6. off \in Offsets /\ mem'[off] = mem[off]
            BY <3>2, <3>5 DEF Placed, HeaderAt
        <3>7. ASSUME NEW u \in 1 .. (size - 1)
              PROVE  off + u \in Offsets /\ mem'[off + u] = mem[off + u]
            BY <3>2, <3>5 DEF Placed
        <3>8. UNCHANGED <<i, off, size>>
            BY <2>1
        <3> QED
            BY <3>2, <3>6, <3>7, <3>8 DEF Placed, HeaderAt
    <2> QED
        BY <2>1, <2>2 DEF IndDrained, InvPending
<1>3. CASE PublishFrame
    <2>1. /\ published' = published + 1 /\ taken' = taken
          /\ \A i \in 1 .. published : log'[i] = log[i]
          /\ log'[published + 1] = [off |-> start, size |-> frame.size]
        BY <1>3, PublishExtends
    <2>2. /\ Placed(published + 1, start, frame.size) /\ UNCHANGED mem
          /\ frame.size >= 2 /\ start \in Nat /\ frame.size \in Nat
        BY <1>3 DEF PublishFrame, IndDrained, InvEnqueue, Busy, IndType, TypeOK
    <2>3. taken < published => start = log[published].off + log[published].size
        BY <1>3 DEF PublishFrame, IndDrained, InvEnqueue, Last, published
    <2>4. Pending' = Pending \cup {published + 1} /\ \A i \in Pending : i \in 1 .. published
        BY <2>1, LogType DEF Pending, IndDrained, InvTaken
    <2>5. \A i \in 1 .. published' : log'[i].size >= 2
        BY <2>1, <2>2, LogType DEF IndDrained, InvPending
    <2>6. \A i \in Pending' : Placed(i, log[i].off, log[i].size)'
        <3>1. \A i \in Pending : Placed(i, log'[i].off, log'[i].size)
            BY <2>1, <2>4 DEF IndDrained, InvPending
        <3>2. \A i \in Pending' : Placed(i, log'[i].off, log'[i].size)
            BY <2>1, <2>2, <2>4, <3>1
        <3> QED
            BY <2>2, <3>2 DEF Placed, HeaderAt
    <2>7. ASSUME NEW i \in Pending
          PROVE  log'[i].off + log'[i].size <= log'[published + 1].off
        <3>1. i \in 1 .. published /\ taken < published /\ published \in 1 .. published
            BY LogType DEF Pending
        <3>2. published \in Pending
            BY <3>1, LogType DEF Pending
        <3>3. i < published => log[i].off + log[i].size <= log[published].off
            BY <3>2 DEF IndDrained, InvPending
        <3>4. /\ log[i].off \in Nat /\ log[i].size \in Nat
              /\ log[published].off \in Nat /\ log[published].size \in Nat
            BY <3>1, LogType
        <3>5. log[i].off + log[i].size <= log[published].off + log[published].size
            <4>1. i < published \/ i = published
                BY <3>1, LogType
            <4> QED
                BY <3>3, <3>4, <4>1
        <3>6. log'[i] = log[i] /\ log'[published + 1].off = start
            BY <2>1, <3>1
        <3> QED
            BY <2>3, <3>1, <3>5, <3>6
    <2>8. \A i, j \in Pending' : i < j => log'[i].off + log'[i].size <= log'[j].off
        <3>1. ASSUME NEW i \in Pending', NEW j \in Pending', i < j
              PROVE  log'[i].off + log'[i].size <= log'[j].off
            <4>1. i \in Pending
                BY <2>4, <3>1, LogType DEF Pending
            <4>2. CASE j = published + 1
                BY <2>7, <4>1, <4>2
            <4>3. CASE j \in Pending
                <5>1. log[i].off + log[i].size <= log[j].off
                    BY <3>1, <4>1, <4>3 DEF IndDrained, InvPending
                <5>2. i \in 1 .. published /\ j \in 1 .. published
                    BY <4>1, <4>3, LogType DEF Pending
                <5> QED
                    BY <2>1, <5>1, <5>2
            <4> QED
                BY <2>4, <3>1, <4>2, <4>3
        <3> QED
            BY <3>1
    <2>9. \A i \in Pending' : i + 1 \in Pending' =>
              log'[i].off + log'[i].size = log'[i + 1].off
        <3> SUFFICES ASSUME NEW i \in Pending', i + 1 \in Pending'
                     PROVE  log'[i].off + log'[i].size = log'[i + 1].off
            OBVIOUS
        <3>1. i \in Pending /\ i \in 1 .. published
            BY <2>1, LogType DEF Pending
        <3>2. CASE i = published
            <4>1. start = log[i].off + log[i].size
                BY <2>3, <3>1, <3>2, LogType DEF Pending
            <4> QED
                BY <2>1, <3>1, <3>2, <4>1
        <3>3. CASE i < published
            <4>1. i + 1 \in Pending /\ i + 1 \in 1 .. published
                BY <3>1, <3>3, LogType DEF Pending
            <4> QED
                BY <2>1, <3>1, <4>1 DEF IndDrained, InvPending
        <3> QED
            BY <3>1, <3>2, <3>3, LogType
    <2> QED
        BY <2>5, <2>6, <2>8, <2>9 DEF InvPending
<1>4. CASE DequeFetch \/ DequeRelease
    <2>1. UNCHANGED log /\ published' = published
        BY <1>4 DEF DequeFetch, DequeRelease, published
    <2>2. taken' \in {taken, taken + 1}
        BY <1>4, FetchTakesOldest, ReleaseKeepsTaken
    <2>3. Pending' \subseteq Pending
        BY <2>1, <2>2, LogType DEF Pending
    <2>4. \A i \in Pending : Placed(i, log[i].off, log[i].size)'
        <3> TAKE i \in Pending
        <3>1. Placed(i, log[i].off, log[i].size)
            BY DEF IndDrained, InvPending
        <3>2. UNCHANGED <<i, log[i].off, log[i].size>>
            BY <2>1
        <3> QED
            BY <1>4, <3>1, <3>2, HandlerKeepsPlaced, ConfigAssumption, HandlerKeeps
            DEF Handler, Placed, HeaderAt, IndDrained
    <2> QED
        BY <2>1, <2>3, <2>4 DEF IndDrained, InvPending
<1> QED
    BY <1>1, <1>2, <1>3, <1>4, QuietSteps

LEMMA NextStartValue ==
    ASSUME IndDrained, spc \notin {"publish", "dead"}
    PROVE  /\ published = 0 => NextStart = 0
           /\ published > 0 => NextStart = Last.off + Last.size
<1>1. CASE published = 0
    BY <1>1 DEF IndDrained, InvEnds, NextStart
<1>2. CASE published > 0
    <2>1. log # <<>>
        BY <1>2 DEF published
    <2>2. rear_position = MetricSize + Last.off /\ HeaderAt(Len(log), Last.off, Last.size)
        BY <2>1 DEF IndDrained, IndRear
    <2>3. Last.off \in Nat /\ MetricSize \in Nat \ {0}
        BY <2>2, ConfigAssumption DEF HeaderAt, Offsets, ConfigAssumption
    <2>4. rear_position # 0 /\ rear_position - MetricSize = Last.off
        BY <2>2, <2>3
    <2> QED
        BY <1>2, <2>2, <2>4 DEF NextStart, At, HeaderAt
<1> QED
    BY <1>1, <1>2, LogType

LEMMA HeadOfDrained ==
    ASSUME IndDrained, head_position = 0 \/ log = <<>>
    PROVE  taken = published
<1>1. CASE log = <<>>
    BY <1>1, LogType DEF published, IndDrained, InvTaken
<1>2. CASE head_position = 0
    <2> SUFFICES ASSUME taken < published PROVE FALSE
        BY LogType DEF IndDrained, InvTaken
    <2>1. head_position = MetricSize + log[taken + 1].off
        BY DEF IndDrained, InvEnds
    <2>2. log[taken + 1].off \in Nat
        BY LogType
    <2> QED
        BY <1>2, <2>1, <2>2, ConfigAssumption DEF ConfigAssumption
<1> QED
    BY <1>1, <1>2

LEMMA HandlerKeepsNextStart ==
    ASSUME IndDrained, Handler \/ KillHandler
    PROVE  NextStart' = NextStart
<1>1. rear_position' = rear_position
    BY ConfigAssumption, HandlerKeeps DEF IndDrained
<1>2. \A a \in Offsets : mem'[a].next = mem[a].next
    BY ConfigAssumption, HandlerKeeps DEF IndDrained
<1> QED
    BY <1>1, <1>2 DEF NextStart, At

LEMMA HandlerTakes ==
    ASSUME IndDrained, Handler \/ KillHandler
    PROVE  /\ published' = published /\ Last' = Last
           /\ taken' \in {taken, taken + 1}
           /\ taken' = taken + 1 => taken < published
<1>1. CASE DequeFetch
    BY <1>1, FetchTakesOldest DEF DequeFetch, published, Last
<1>2. CASE DequeRelease
    <2>1. UNCHANGED log
        BY <1>2 DEF DequeRelease
    <2>2. taken' = taken /\ taken \in Nat
        BY <1>2, ReleaseKeepsTaken, LogType
    <2> QED
        BY <2>1, <2>2 DEF published, Last
<1>3. CASE UNCHANGED <<held, received, log>>
    BY <1>3, QuietTaken, LogType
<1> QED
    BY <1>1, <1>2, <1>3
    DEF Handler, WaitForMessages, DequeEmpty, DequeFault, Callback, KillHandler

LEMMA NextInvEnqueue ==
    ASSUME DrainedAtWrap, FramesHaveData, IndDrained, [Next]_vars
    PROVE  InvEnqueue'
<1>1. CASE NextFrame
    <2>1. PICK size \in Sizes, pixel \in Pixels :
              /\ Overflow(NextStart, size) => head_position = 0 \/ log = <<>>
              /\ frame' = [size |-> size, pixel |-> pixel]
        BY <1>1 DEF NextFrame
    <2>2. frame'.size = size /\ frame'.size >= 2
        BY <2>1 DEF FramesHaveData
    <2>3. /\ spc' = "acquire" /\ NextStart' = NextStart
          /\ taken' = taken /\ published' = published
        BY <1>1, QuietTaken DEF NextFrame, metric, handler, NextStart, At
    <2>4. Overflow(NextStart, size) => taken = published
        BY <2>1, HeadOfDrained
    <2> QED
        BY <2>2, <2>3, <2>4 DEF InvEnqueue, Overflow
<1>2. CASE EnqueueStart
    <2>1. /\ spc' = "put" /\ UNCHANGED frame
          /\ taken' = taken /\ published' = published /\ Last' = Last
        BY <1>2, QuietTaken DEF EnqueueStart, handler
    <2>2. frame.size >= 2
        BY <1>2 DEF EnqueueStart, IndDrained, InvEnqueue, Busy
    <2>3. CASE Overflow(NextStart, frame.size)
        <3>1. start' = 0 /\ taken = published
            BY <1>2, <2>3 DEF EnqueueStart, IndDrained, InvEnqueue
        <3> QED
            BY <2>1, <2>2, <3>1, LogType DEF InvEnqueue
    <2>4. CASE ~Overflow(NextStart, frame.size)
        <3>1. start' = NextStart
            BY <1>2, <2>4 DEF EnqueueStart
        <3>2. taken < published => published > 0
            BY LogType
        <3>3. spc \notin {"publish", "dead"}
            BY <1>2 DEF EnqueueStart
        <3> QED
            BY <2>1, <2>2, <3>1, <3>2, <3>3, NextStartValue DEF InvEnqueue
    <2> QED
        BY <2>3, <2>4
<1>3. CASE EnqueueOverflow
    <2>1. /\ spc' = "join" /\ UNCHANGED frame
          /\ taken' = taken /\ published' = published
        BY <1>3, QuietTaken DEF EnqueueOverflow, handler
    <2>2. frame.size >= 2 /\ taken = published
        BY <1>3 DEF EnqueueOverflow, IndDrained, InvEnqueue, Busy
    <2>3. published > 0
        <3> SUFFICES ASSUME published = 0 PROVE FALSE
            BY LogType
        <3>1. head_position = MetricSize /\ message_cnt = 0
            BY LogType DEF IndDrained, InvEnds, InvTaken, IndType, TypeOK
        <3> QED
            BY <1>3, <3>1 DEF EnqueueOverflow, NeverUsed
    <2> QED
        BY <2>1, <2>2, <2>3 DEF InvEnqueue
<1>4. CASE JoinListener
    <2>1. /\ spc = "join" /\ spc' = "reacquire" /\ UNCHANGED frame
          /\ taken' = taken /\ published' = published
        BY <1>4, QuietTaken DEF JoinListener, handler
    <2> QED
        BY <2>1 DEF IndDrained, InvEnqueue, Busy
<1>5. CASE EnqueueReacquire
    <2>1. /\ spc = "reacquire" /\ spc' = "put" /\ UNCHANGED frame
          /\ taken' = taken /\ published' = published
        BY <1>5, QuietTaken DEF EnqueueReacquire, handler
    <2>2. frame.size >= 2 /\ taken = published /\ published > 0
        BY <2>1 DEF IndDrained, InvEnqueue, Busy
    <2> QED
        BY <2>1, <2>2, LogType DEF InvEnqueue
<1>6. CASE PutOnSHM
    <2>1. /\ spc = "put" /\ spc' \in {"publish", "dead"} /\ UNCHANGED <<frame, start>>
          /\ taken' = taken /\ published' = published /\ Last' = Last
        BY <1>6, QuietTaken DEF PutOnSHM, handler
    <2>2. spc' = "publish" => Placed(published + 1, start, frame.size)'
        BY <1>6, ConfigAssumption, PutPlaces DEF IndDrained, published
    <2> QED
        BY <2>1, <2>2 DEF IndDrained, InvEnqueue, Busy
<1>7. CASE spc' \in {"idle", "dead"}
    BY <1>7 DEF InvEnqueue, Busy
<1>8. CASE Handler \/ KillHandler
    <2>1. UNCHANGED <<spc, frame, start>>
        BY <1>8, ConfigAssumption, HandlerKeeps DEF IndDrained, streamer
    <2>2. NextStart' = NextStart
        BY <1>8, HandlerKeepsNextStart
    <2>3. spc = "publish" => Placed(published + 1, start, frame.size)'
        <3> SUFFICES ASSUME spc = "publish"
                     PROVE  Placed(published + 1, start, frame.size)'
            OBVIOUS
        <3>1. Placed(published + 1, start, frame.size)
            BY DEF IndDrained, InvEnqueue
        <3>2. UNCHANGED <<published, start, frame>>
            BY <1>8, <2>1, HandlerTakes
        <3> QED
            BY <1>8, <3>1, <3>2, ConfigAssumption, HandlerKeeps
            DEF IndDrained, Placed, HeaderAt
    <2> QED
        BY <1>8, <2>1, <2>2, <2>3, HandlerTakes, LogType
        DEF IndDrained, InvEnqueue, Busy, Overflow
<1>9. CASE UNCHANGED vars
    BY <1>9 DEF vars, IndDrained, InvEnqueue, Busy, Overflow, NextStart, At,
                published, taken, Taken, Last, Placed, HeaderAt
<1> QED
    BY <1>1, <1>2, <1>3, <1>4, <1>5, <1>6, <1>7, <1>8, <1>9
    DEF Next, Enqueue, TraversalFault, PublishFrame, KillStreamer

LEMMA InitIndDrained == Init => IndDrained
<1> SUFFICES ASSUME Init PROVE IndDrained
    OBVIOUS
<1>1. IndType
    BY ConfigAssumption, InitIndType
<1>2. published = 0 /\ Taken = <<>> /\ taken = 0 /\ log = <<>> /\ held = NoMessage
    BY DEF Init, published, taken, Taken
<1> QED
    BY <1>1, <1>2
    DEF Init, IndDrained, IndRear, InvTaken, InvEnds, InvPending, InvEnqueue, Busy,
        Pending, NoMessage

LEMMA NextIndDrained ==
    ASSUME DrainedAtWrap, FramesHaveData, IndDrained, [Next]_vars
    PROVE  IndDrained'
BY ConfigAssumption, NextIndType, NextIndRear, NextInvTaken, NextInvEnds,
   NextInvPending, NextInvEnqueue DEF IndDrained

LEMMA DrainedInvariant ==
    ASSUME DrainedAtWrap, FramesHaveData
    PROVE  Spec => []IndDrained
<1>1. Init => IndDrained
    BY InitIndDrained
<1>2. IndDrained /\ [Next]_vars => IndDrained'
    BY DrainedAtWrap, FramesHaveData, NextIndDrained
<1> QED
    BY <1>1, <1>2, PTL DEF Spec

-----------------------------------------------------------------------------
(* What the invariant says of the checked properties, and the refinement.  *)

\* As long as the handler has emptied the ring at every wrap, no frame it has
\* yet to read is overwritten, whatever the frames' sizes and whoever dies.
THEOREM DrainedKeepsFrames ==
    DrainedAtWrap /\ FramesHaveData => (Spec => []UnreadIntact)
<1> SUFFICES ASSUME DrainedAtWrap, FramesHaveData
             PROVE  Spec => []UnreadIntact
    OBVIOUS
<1>1. ASSUME IndDrained PROVE UnreadIntact
    <2> SUFFICES ASSUME NEW i \in Unread PROVE Intact(i)
        BY DEF UnreadIntact
    <2>1. i \in 1 .. published /\ i \notin Kept /\ i # held.msg
        BY DEF Unread, published
    <2>2. i \notin 1 .. taken
        <3> SUFFICES ASSUME i \in 1 .. taken PROVE FALSE
            OBVIOUS
        <3>1. Taken[i] = i
            BY <1>1 DEF IndDrained, InvTaken
        <3>2. received \in Seq(Nat) /\ held.msg \in Nat
            BY <1>1 DEF IndDrained, IndType, TypeOK
        <3>3. CASE held = NoMessage
            BY <2>1, <3>1, <3>3 DEF Taken, taken, Kept
        <3>4. CASE held # NoMessage
            <4>1. Taken = Append(received, held.msg)
                BY <3>4 DEF Taken
            <4>2. i \in 1 .. (Len(received) + 1)
                BY <3>2, <4>1 DEF taken
            <4>3. Taken[i] = IF i <= Len(received) THEN received[i] ELSE held.msg
                BY <3>2, <4>1, <4>2, AppendElements
            <4> QED
                BY <2>1, <3>1, <3>2, <4>2, <4>3 DEF Kept
        <3> QED
            BY <3>3, <3>4
    <2>3. i \in Pending
        BY <1>1, <2>1, <2>2, LogType DEF Pending
    <2>4. Placed(i, log[i].off, log[i].size) /\ log[i].size \in Nat /\ log[i].off \in Nat
        BY <1>1, <2>1, <2>3, LogType DEF IndDrained, InvPending
    <2> SUFFICES ASSUME NEW u \in 0 .. (log[i].size - 1)
                 PROVE  /\ log[i].off + u \in Offsets
                        /\ mem[log[i].off + u].msg = i
                        /\ mem[log[i].off + u].unit = u
        BY DEF Intact
    <2>5. CASE u = 0
        BY <2>4, <2>5 DEF Placed, HeaderAt
    <2>6. CASE u # 0
        <3>1. u \in 1 .. (log[i].size - 1)
            BY <2>4, <2>6
        <3> QED
            BY <2>4, <3>1 DEF Placed
    <2> QED
        BY <2>5, <2>6
<1>2. Spec => []IndDrained
    BY DrainedAtWrap, FramesHaveData, DrainedInvariant
<1> QED
    BY <1>1, <1>2, PTL

\* Under the same condition message_cnt is exactly the number of frames that
\* the handler has yet to get, and what it gets is the sequence published.
THEOREM DrainedIsExact ==
    DrainedAtWrap /\ FramesHaveData => (Spec => [](CountExact /\ Fifo))
<1> SUFFICES ASSUME DrainedAtWrap, FramesHaveData
             PROVE  Spec => [](CountExact /\ Fifo)
    OBVIOUS
<1>1. ASSUME IndDrained PROVE CountExact /\ Fifo
    <2>1. CountExact
        BY <1>1 DEF IndDrained, InvTaken, CountExact, published
    <2>2. received \in Seq(Nat)
        BY <1>1 DEF IndDrained, IndType, TypeOK
    <2>3. ASSUME NEW i \in 1 .. Len(received) PROVE received[i] = i
        <3>1. CASE held = NoMessage
            BY <1>1, <3>1 DEF IndDrained, InvTaken, Taken, taken
        <3>2. CASE held # NoMessage
            <4>1. Taken = Append(received, held.msg) /\ held.msg \in Nat
                BY <1>1, <3>2 DEF Taken, IndDrained, IndType, TypeOK
            <4>2. i \in 1 .. taken /\ Taken[i] = received[i]
                BY <2>2, <4>1, AppendElements DEF taken
            <4> QED
                BY <1>1, <4>2 DEF IndDrained, InvTaken
        <3> QED
            BY <3>1, <3>2
    <2> QED
        BY <2>1, <2>3 DEF Fifo
<1>2. Spec => []IndDrained
    BY DrainedAtWrap, FramesHaveData, DrainedInvariant
<1> QED
    BY <1>1, <1>2, PTL

\* The frames in flight are numbered from the oldest not taken to the newest.
NumberedFlight == InFlight = [i \in 1 .. (published - taken) |-> taken + i]

LEMMA InFlightIsPending == IndDrained => NumberedFlight
<1> SUFFICES ASSUME IndDrained PROVE NumberedFlight
    OBVIOUS
<1> USE DEF NumberedFlight
<1>1. CASE taken = published
    <2>1. InFlight = <<>>
        <3>1. published = 0 => log = <<>>
            BY DEF published, IndDrained, IndType, TypeOK
        <3> QED
            BY <1>1, <3>1, LogType DEF InFlight, IndDrained, InvEnds
    <2>2. published - taken = 0
        BY <1>1, LogType
    <2> QED
        BY <2>1, <2>2
<1>2. CASE taken < published
    <2>1. log # <<>> /\ taken + 1 \in Pending /\ taken + 1 \in 1 .. published
        BY <1>2, LogType DEF published, Pending
    <2>2. head_position = MetricSize + log[taken + 1].off /\ log[taken + 1].off \in Nat
        BY <1>2, <2>1, LogType DEF IndDrained, InvEnds
    <2>3. head = log[taken + 1].off /\ head_position # 0
        BY <2>2, ConfigAssumption DEF head, ConfigAssumption
    <2>4. At(head).msg = taken + 1
        BY <2>1, <2>3 DEF IndDrained, InvPending, Placed, HeaderAt, At
    <2>5. InFlight = [i \in 1 .. (published + 1 - (taken + 1)) |-> taken + 1 + i - 1]
        BY <2>1, <2>3, <2>4 DEF InFlight, published
    <2>6. published + 1 - (taken + 1) = published - taken
        BY LogType
    <2>7. \A i \in 1 .. (published - taken) : taken + 1 + i - 1 = taken + i
        BY LogType
    <2> QED
        BY <2>5, <2>6, <2>7
<1> QED
    BY <1>1, <1>2, LogType DEF IndDrained, InvTaken

\* The ring implements the channel: it starts as an empty one, and every step
\* publishes the next frame, takes the oldest one, or changes neither.
THEOREM DrainedImplementsChannel ==
    DrainedAtWrap /\ FramesHaveData => (Spec => Channel!Spec)
<1> SUFFICES ASSUME DrainedAtWrap, FramesHaveData
             PROVE  Spec => Channel!Spec
    OBVIOUS
<1>1. Init => Channel!Init
    BY DEF Init, Channel!Init, InFlight, Taken, NoMessage
<1>2. IndDrained' => NumberedFlight'
    BY InFlightIsPending, PTL
<1>3. ASSUME IndDrained, IndDrained', [Next]_vars
      PROVE  [Channel!Next]_Channel!vars
    <2>1. /\ InFlight = [i \in 1 .. (published - taken) |-> taken + i]
          /\ InFlight' = [i \in 1 .. (published' - taken') |-> taken' + i]
        BY <1>3, <1>2, InFlightIsPending DEF NumberedFlight
    <2>2. published \in Nat /\ taken \in Nat /\ taken <= published
        BY <1>3, LogType DEF IndDrained, InvTaken
    <2>3. CASE PublishFrame
        <3>1. published' = published + 1 /\ taken' = taken /\ Taken' = Taken
            BY <1>3, <2>3, PublishExtends
        <3>2. InFlight' = Append(InFlight, published + 1)
            BY <2>1, <2>2, <3>1
        <3> QED
            BY <3>1, <3>2 DEF Channel!Next, Channel!Publish, published
    <2>4. CASE DequeFetch
        <3>1. /\ published' = published /\ taken' = taken + 1 /\ taken < published
              /\ Taken' = Append(Taken, taken + 1)
            BY <1>3, <2>4, FetchTakesOldest DEF DequeFetch, published
        <3>2. InFlight # <<>> /\ Head(InFlight) = taken + 1
            BY <2>1, <2>2, <3>1
        <3>3. InFlight' = Tail(InFlight)
            BY <2>1, <2>2, <3>1
        <3> QED
            BY <3>1, <3>2, <3>3 DEF Channel!Next, Channel!Take, published
    <2>5. CASE DequeRelease
        <3>1. published' = published /\ taken' = taken /\ Taken' = Taken
            BY <1>3, <2>5, ReleaseKeepsTaken DEF DequeRelease, published
        <3> QED
            BY <2>1, <3>1 DEF Channel!vars, published
    <2>6. CASE UNCHANGED <<held, received, log>>
        <3>1. published' = published /\ taken' = taken /\ Taken' = Taken
            BY <2>6, QuietTaken
        <3> QED
            BY <2>1, <3>1 DEF Channel!vars, published
    <2>7. PutOnSHM => UNCHANGED <<held, received, log>>
        BY DEF PutOnSHM, handler
    <2> QED
        BY <1>3, <2>3, <2>4, <2>5, <2>6, <2>7, QuietSteps DEF Quiet
<1>4. Spec => []IndDrained
    BY DrainedAtWrap, FramesHaveData, DrainedInvariant
<1> QED
    BY <1>1, <1>3, <1>4, PTL DEF Spec, Channel!Spec
=============================================================================
