-------------------------- MODULE TcpIngestProofs --------------------------
(***************************************************************************)
(* Theorems about TcpIngest: for every number of workers and every stream  *)
(* of messages, the threads lose and double nothing, no wakeup is lost,    *)
(* the pool lets fewer messages overtake one than it has workers, and the  *)
(* stream is cut where the publisher cut it.                               *)
(***************************************************************************)
EXTENDS TcpIngest, FiniteSetTheorems, SequenceTheorems, TLAPS

\* A worker has a task, and the putter a message, exactly while it works on it; no
\* message is the number that stands for none.
IndHands ==
    /\ \A w \in Workers : task[w] # 0 <=> wpc[w] = "run"
    /\ packet # 0 <=> ppc = "put"
    /\ \A i \in 1 .. Len(messages) : messages[i] # 0

\* How many tasks have been taken: the queue holds those behind, in order.
Taken == Len(queued) - Len(task_queue)

IndOrder ==
    /\ Taken >= 0
    /\ \A i \in 1 .. Len(task_queue) : task_queue[i] = Taken + i
    /\ \A w \in Workers : task[w] <= Taken
    /\ \A p \in 1 .. Len(Arrived) : Arrived[p] <= Taken

Ended == ~open /\ got = sent

\* Message k has been cut out where it is.
Framed(k) ==
    /\ k \in Messages
    /\ queued[k] = Data(k)
    /\ Begin(k) <= sent

\* Where the listen thread is in the stream.
IndFraming ==
    \/ derailed
    \/ /\ \A k \in 1 .. Len(queued) :
             Framed(k) \/ (k = Len(queued) /\ Ended /\ lpc # "data")
       /\ lpc \in {"size", "notify"} =>
             Ended \/ (Len(queued) <= Len(Ends) /\ got = Begin(Len(queued)))
       /\ lpc = "data" =>
             /\ Len(queued) + 1 \in Messages
             /\ buffer.from = Begin(Len(queued)) + HeaderLen
             /\ buffer.size = Size(Len(queued) + 1)
             /\ buffer.len <= buffer.size
             /\ got = buffer.from + buffer.len

\* packet_num counts the messages that have been sent to the end, and each message
\* that has been begun carries the number of those before it.
IndNumbers ==
    /\ packet_num <= Len(Ends) /\ Begin(packet_num) <= sent
    /\ packet_num < Len(Ends) => sent < Begin(packet_num + 1)
    /\ Len(numbers) = IF sent = Begin(packet_num) THEN packet_num ELSE packet_num + 1
    /\ \A m \in 1 .. Len(numbers) : numbers[m] = m - 1

-----------------------------------------------------------------------------
(* The byte stream.                                                        *)

\* Messages begin one behind the other, each with its size field and some data.
LEMMA BeginGrows ==
    /\ \A k \in 0 .. Len(Ends) : Begin(k) \in Nat
    /\ \A j, k \in 0 .. Len(Ends) : j < k => Begin(j) + HeaderLen < Begin(k)
    /\ HeaderLen \in Nat \ {0}
    /\ Len(Ends) \in Nat
<1>1. Ends \in [1 .. Len(Ends) -> Nat] /\ Len(Ends) \in Nat
    BY IngestAssumption, LenProperties
<1>2. \A k \in 0 .. Len(Ends) : Begin(k) \in Nat
    BY <1>1 DEF Begin
<1>3. ASSUME NEW j \in 0 .. Len(Ends), NEW k \in 0 .. Len(Ends), j < k
      PROVE  Begin(j) + HeaderLen < Begin(k)
    BY <1>1, <1>3, IngestAssumption DEF Begin, Messages
<1> QED
    BY <1>1, <1>2, <1>3, IngestAssumption

LEMMA StreamLenIsNat == StreamLen \in Nat
BY BeginGrows DEF StreamLen

\* A buffer of the size of a message is one.
LEMMA SizesAreNat ==
    \A k \in Messages : Size(k) \in Nat \ {0} /\ Begin(k) = Begin(k - 1) + HeaderLen + Size(k)
<1> SUFFICES ASSUME NEW k \in Messages
             PROVE  /\ Size(k) \in Nat \ {0}
                    /\ Begin(k) = Begin(k - 1) + HeaderLen + Size(k)
    OBVIOUS
<1>1. /\ k \in 0 .. Len(Ends) /\ k - 1 \in 0 .. Len(Ends) /\ k - 1 < k
      /\ HeaderLen \in Nat
    BY BeginGrows DEF Messages
<1>2. /\ Begin(k) \in Nat /\ Begin(k - 1) \in Nat
      /\ Begin(k - 1) + HeaderLen < Begin(k)
    BY <1>1, BeginGrows
<1> QED
    BY <1>1, <1>2 DEF Size

-----------------------------------------------------------------------------
(* Types.                                                                  *)

LEMMA TypeInit == Init => TypeOK
<1>1. 0 \in 0 .. StreamLen
    BY StreamLenIsNat
<1>2. NoBuffer \in Buffer
    BY DEF NoBuffer, Buffer
<1>3. <<>> \in Seq(Nat) /\ <<>> \in Seq(Buffer)
    BY EmptySeq
<1>4. Init => wpc \in [Workers -> {"check", "asleep", "run"}] /\ task \in [Workers -> Nat]
    BY DEF Init
<1>5. Init => /\ sent \in 0 .. StreamLen /\ got \in 0 .. sent /\ buffer \in Buffer
              /\ packet_num \in Nat /\ packet \in Nat
    BY <1>1, <1>2 DEF Init
<1>6. Init => open \in BOOLEAN /\ derailed \in BOOLEAN
    BY Zenon DEF Init
<1> QED
    BY <1>3, <1>4, <1>5, <1>6 DEF Init, TypeOK

LEMMA TypeNext ==
    ASSUME TypeOK, [Next]_vars
    PROVE  TypeOK'
<1> USE DEF TypeOK
<1>1. CASE DropFrame
    BY <1>1 DEF DropFrame, PacketsAfterDrop, listener, pool, putter
<1>2. CASE PublishFrame
    <2>1. sent' \in 0 .. StreamLen
        BY <1>2, StreamLenIsNat DEF PublishFrame
    <2>2. packet_num' \in Nat
        BY <1>2 DEF PublishFrame
    <2>3. numbers' \in Seq(Nat)
        BY <1>2, AppendProperties DEF PublishFrame
    <2>4. UNCHANGED <<open, listener, pool, messages, putter, queued, settled>>
        BY <1>2 DEF PublishFrame
    <2>5. sent' = sent + 1
        BY <1>2 DEF PublishFrame
    <2>6. got' \in 0 .. sent'
        BY <2>4, <2>5, <2>1 DEF listener
    <2> QED
        BY <2>1, <2>2, <2>3, <2>4, <2>6 DEF listener, pool, putter
<1>3. CASE ClosePublisher
    BY <1>3 DEF ClosePublisher, listener, pool, putter
<1>4. CASE ReceiveSize
    <2>1. PICK n \in 1 .. HeaderLen :
            /\ n <= sent - got
            /\ got' = got + n
            /\ \E size \in SizesRead(n) :
                /\ size <= Limit \/ buffer' = NoBuffer
                /\ buffer' = NoBuffer \/ buffer' = [from |-> got', size |-> size, len |-> 0]
        BY <1>4 DEF ReceiveSize
    <2>2. SizesRead(n) \subseteq Nat
        BY SizesAreNat, IngestAssumption DEF SizesRead
    <2>3. got' \in 0 .. sent
        BY <2>1, BeginGrows
    <2>4. buffer' \in Buffer
        BY <2>1, <2>2, <2>3 DEF Buffer, NoBuffer
    <2>5. lpc' \in {"size", "data", "notify", "terminated"} /\ derailed' \in BOOLEAN
        BY <1>4 DEF ReceiveSize
    <2> QED
        BY <1>4, <2>3, <2>4, <2>5 DEF ReceiveSize, connection, pool, putter
<1>5. CASE ReceiveData
    <2>1. PICK n \in 1 .. (buffer.size - buffer.len) :
            /\ n <= sent - got
            /\ got' = got + n
            /\ buffer' = [buffer EXCEPT !.len = @ + n]
        BY <1>5 DEF ReceiveData
    <2>2. buffer.size \in Nat /\ buffer.len \in Nat /\ got \in Nat /\ sent \in Nat
        BY StreamLenIsNat DEF Buffer
    <2>3. got' \in 0 .. sent
        BY SMTT(60), <2>1, <2>2
    <2>4. buffer' \in Buffer
        <3>1. buffer.len + n \in Nat
            BY <2>2
        <3> QED
            BY <2>1, <3>1 DEF Buffer
    <2> QED
        BY <1>5, <2>3, <2>4 DEF ReceiveData, connection, pool, putter
<1>6. CASE QueueTask
    <2>1. queued' \in Seq(Buffer)
        BY <1>6, AppendProperties DEF QueueTask
    <2>2. task_queue' \in Seq(Nat)
        BY <1>6, LenProperties, AppendProperties DEF QueueTask
    <2> QED
        BY <1>6, <2>1, <2>2 DEF QueueTask, connection, putter, NoBuffer, Buffer
<1>7. CASE NotifyWorker
    BY <1>7 DEF NotifyWorker, connection, putter, Asleep
<1>8. ASSUME NEW w \in Workers, TakeTask(w) PROVE TypeOK'
    <2>1. Head(task_queue) \in Nat /\ Tail(task_queue) \in Seq(Nat)
        BY <1>8, HeadTailProperties DEF TakeTask
    <2> QED
        BY <1>8, <2>1 DEF TakeTask, connection, listener, putter
<1>9. ASSUME NEW w \in Workers, WorkerWaits(w) PROVE TypeOK'
    BY <1>9 DEF WorkerWaits, connection, listener, putter
<1>10. ASSUME NEW w \in Workers, RunTask(w) PROVE TypeOK'
    <2>1. messages' \in Seq(Nat)
        BY <1>10, AppendProperties DEF RunTask, Pushed
    <2> QED
        BY <1>10, <2>1 DEF RunTask, connection, listener
<1>11. ASSUME NEW w \in Workers, SpuriousWakeup(w) PROVE TypeOK'
    BY <1>11 DEF SpuriousWakeup, connection, listener, putter
<1>12. CASE NewMessage
    <2>1. Head(messages) \in Nat /\ Tail(messages) \in Seq(Nat)
        BY <1>12, HeadTailProperties DEF NewMessage
    <2> QED
        BY <1>12, <2>1 DEF NewMessage, connection, listener, pool
<1>13. CASE PutterWaits
    BY <1>13 DEF PutterWaits, connection, listener, pool
<1>14. CASE PutOnSHMQueue
    <2>1. settled' \in Seq(Nat)
        BY <1>14, AppendProperties DEF PutOnSHMQueue
    <2> QED
        BY <1>14, <2>1 DEF PutOnSHMQueue, connection, listener, pool
<1>15. CASE UNCHANGED vars
    BY <1>15 DEF vars
<1> QED
    BY <1>1, <1>2, <1>3, <1>4, <1>5, <1>6, <1>7, <1>8, <1>9, <1>10, <1>11, <1>12,
       <1>13, <1>14, <1>15
    DEF Next, HandleWebcamFrame, Listener, Putter, Worker

\* Every variable keeps its type; no thread reads more than the publisher has sent.
THEOREM IngestTypeCorrect == Spec => []TypeOK
BY TypeInit, TypeNext, PTL DEF Spec

-----------------------------------------------------------------------------
(* The way of a task: task_queue, a worker's hands, messages_, the putter. *)

InPacket == IF packet = 0 THEN <<>> ELSE <<packet>>

LEMMA Regroup ==
    ASSUME NEW s \in Seq(Nat), NEW e \in Seq(Nat), NEW m \in Seq(Nat)
    PROVE  s \o e \o m \in Seq(Nat) /\ s \o e \o m = s \o (e \o m)
<1>1. s \o e \in Seq(Nat)
    BY ConcatProperties
<1>2. (s \o e) \o m \in Seq(Nat)
    BY <1>1, ConcatProperties
<1>3. (s \o e) \o m = s \o (e \o m)
    OBVIOUS
<1> QED
    BY <1>2, <1>3

LEMMA ArrivedType ==
    ASSUME TypeOK
    PROVE  /\ InPacket \in Seq(Nat) /\ messages \in Seq(Nat) /\ settled \in Seq(Nat)
           /\ Arrived \in Seq(Nat)
           /\ Arrived = settled \o (InPacket \o messages)
<1>1. InPacket \in Seq(Nat)
    BY DEF InPacket, TypeOK
<1>2. settled \in Seq(Nat) /\ messages \in Seq(Nat)
    BY DEF TypeOK
<1>3. Arrived = settled \o InPacket \o messages
    BY DEF Arrived, InPacket
<1> QED
    BY <1>1, <1>2, <1>3, Regroup

\* A task that has been run comes last.
LEMMA RunTaskArrives ==
    ASSUME TypeOK, NEW w \in Workers, RunTask(w)
    PROVE  Arrived' = Append(Arrived, task[w])
<1>1. task[w] \in Nat /\ <<task[w]>> \in Seq(Nat)
    BY DEF TypeOK
<1>2. messages' = messages \o <<task[w]>> /\ settled' = settled /\ InPacket' = InPacket
    BY <1>1, ArrivedType, AppendIsConcat DEF RunTask, Pushed, InPacket
<1>3. Arrived' = (settled \o InPacket) \o (messages \o <<task[w]>>)
    BY <1>2 DEF Arrived, InPacket
<1>4. settled \o InPacket \in Seq(Nat)
    BY ArrivedType, ConcatProperties
<1>5. Arrived' = ((settled \o InPacket) \o messages) \o <<task[w]>>
    BY <1>1, <1>3, <1>4, ArrivedType, Regroup
<1>6. Arrived = (settled \o InPacket) \o messages
    BY DEF Arrived, InPacket
<1> QED
    BY <1>1, <1>5, <1>6, ArrivedType, AppendIsConcat

\* Every other step leaves the order in which messages arrived alone.
LEMMA OthersKeepArrived ==
    ASSUME TypeOK, IndHands, [Next]_vars, \A w \in Workers : ~RunTask(w)
    PROVE  Arrived' = Arrived
<1>1. settled \in Seq(Nat) /\ messages \in Seq(Nat) /\ packet \in Nat
    BY DEF TypeOK
<1>2. CASE NewMessage
    <2>1. packet = 0 /\ packet' = Head(messages) /\ messages' = Tail(messages) /\ settled' = settled
        BY <1>2 DEF NewMessage, IndHands
    <2>2. Head(messages) \in Nat \ {0} /\ Tail(messages) \in Seq(Nat) /\ messages = <<Head(messages)>> \o Tail(messages)
        BY <1>1, <1>2 DEF NewMessage, IndHands
    <2>3. InPacket = <<>> /\ InPacket' = <<Head(messages)>>
        BY <2>1, <2>2 DEF InPacket
    <2>4. Arrived = settled \o messages
        BY <1>1, <2>3, ArrivedType, ConcatEmptySeq
    <2>5. Arrived' = settled \o <<Head(messages)>> \o Tail(messages)
        BY <2>1, <2>3 DEF Arrived, InPacket
    <2>6. <<Head(messages)>> \in Seq(Nat)
        BY <2>2
    <2>7. Arrived' = settled \o (<<Head(messages)>> \o Tail(messages))
        BY <1>1, <2>2, <2>5, <2>6, Regroup
    <2> QED
        BY <2>2, <2>4, <2>7
<1>3. CASE PutOnSHMQueue
    <2>1. packet # 0 /\ packet' = 0 /\ messages' = messages /\ settled' = Append(settled, packet)
        BY <1>3 DEF PutOnSHMQueue, IndHands
    <2>2. InPacket = <<packet>> /\ InPacket' = <<>>
        BY <2>1 DEF InPacket
    <2>3. settled' = settled \o <<packet>> /\ settled' \in Seq(Nat)
        BY <1>1, <2>1, AppendIsConcat, AppendProperties
    <2>4. Arrived' = settled' \o <<>> \o messages
        BY <2>1, <2>2 DEF Arrived, InPacket
    <2>5. Arrived' = settled \o <<packet>> \o messages
        BY <2>3, <2>4, ConcatEmptySeq
    <2> QED
        BY <2>2, <2>5 DEF Arrived, InPacket
<1>4. CASE UNCHANGED <<messages, packet, settled>>
    BY <1>4 DEF Arrived
<1> QED
    BY <1>2, <1>3, <1>4
    DEF Next, vars, HandleWebcamFrame, DropFrame, PublishFrame, ClosePublisher, Listener,
        ReceiveSize, ReceiveData, QueueTask, NotifyWorker, Worker, TakeTask, WorkerWaits,
        SpuriousWakeup, Putter, PutterWaits, putter

-----------------------------------------------------------------------------
(* No task is lost or doubled, and the pool keeps the order, almost.       *)

\* The steps that move tasks or wake threads; the others stay within the connection
\* and the buffer.
LEMMA StepsOfTasks ==
    ASSUME [Next]_vars
    PROVE  \/ QueueTask \/ NotifyWorker \/ NewMessage \/ PutterWaits \/ PutOnSHMQueue
           \/ \E w \in Workers :
                 TakeTask(w) \/ WorkerWaits(w) \/ SpuriousWakeup(w) \/ RunTask(w)
           \/ UNCHANGED <<pool, messages, putter, queued, settled>>
BY DEF Next, vars, HandleWebcamFrame, DropFrame, PublishFrame, ClosePublisher, Listener,
       ReceiveSize, ReceiveData, Putter, Worker, pool, putter

LEMMA HandsNext ==
    ASSUME TypeOK, IndHands, IndOrder, [Next]_vars
    PROVE  IndHands'
<1> USE DEF IndHands, TypeOK
<1>1. CASE QueueTask
    BY <1>1 DEF QueueTask, putter
<1>2. CASE NotifyWorker
    BY <1>2 DEF NotifyWorker, putter, Asleep
<1>3. CASE NewMessage
    <2>1. messages # <<>> /\ messages \in Seq(Nat) /\ messages' = Tail(messages)
        BY <1>3 DEF NewMessage
    <2>2. \A i \in 1 .. Len(messages') : messages'[i] # 0
        BY <2>1
    <2>3. packet' # 0 /\ ppc' = "put"
        BY <1>3, <2>1 DEF NewMessage
    <2> QED
        BY <1>3, <2>2, <2>3 DEF NewMessage, pool
<1>4. CASE PutterWaits
    BY <1>4 DEF PutterWaits, pool
<1>5. CASE PutOnSHMQueue
    BY <1>5 DEF PutOnSHMQueue, pool
<1>6. ASSUME NEW w \in Workers, TakeTask(w) PROVE IndHands'
    <2>1. task_queue \in Seq(Nat) /\ task_queue # <<>> /\ queued \in Seq(Buffer)
        BY <1>6 DEF TakeTask
    <2>2. Len(task_queue) \in Nat \ {0} /\ Len(queued) \in Nat /\ Head(task_queue) = task_queue[1]
        BY <2>1, EmptySeq
    <2>3. Head(task_queue) = Taken + 1 /\ Taken \in Nat
        BY <2>2 DEF IndOrder, Taken
    <2>4. Head(task_queue) # 0
        BY <2>3
    <2> QED
        BY <1>6, <2>4 DEF TakeTask, putter
<1>7. ASSUME NEW w \in Workers, WorkerWaits(w) PROVE IndHands'
    BY <1>7 DEF WorkerWaits, putter
<1>8. ASSUME NEW w \in Workers, SpuriousWakeup(w) PROVE IndHands'
    BY <1>8 DEF SpuriousWakeup, putter
<1>9. ASSUME NEW w \in Workers, RunTask(w) PROVE IndHands'
    <2>1. task[w] \in Nat \ {0}
        BY <1>9 DEF RunTask
    <2>2. messages' = Append(messages, task[w])
        BY <1>9 DEF RunTask, Pushed
    <2>3. messages \in Seq(Nat)
        OBVIOUS
    <2>6. \A i \in 1 .. Len(messages') : messages'[i] = IF i <= Len(messages) THEN messages[i] ELSE task[w]
        BY <2>1, <2>2, <2>3, AppendProperties
    <2>7. \A i \in 1 .. Len(messages') : messages'[i] # 0
        BY <2>1, <2>2, <2>3, <2>6
    <2>4. packet' # 0 <=> ppc' = "put"
        BY <1>9 DEF RunTask
    <2>5. \A v \in Workers : task'[v] # 0 <=> wpc'[v] = "run"
        BY <1>9 DEF RunTask
    <2> QED
        BY <2>4, <2>5, <2>7
<1>10. CASE UNCHANGED <<pool, messages, putter, queued, settled>>
    BY <1>10 DEF pool, putter
<1> QED
    BY <1>1, <1>2, <1>3, <1>4, <1>5, <1>6, <1>7, <1>8, <1>9, <1>10, StepsOfTasks

LEMMA OrderNext ==
    ASSUME TypeOK, TypeOK', IndHands, IndOrder, [Next]_vars
    PROVE  IndOrder'
<1>0. /\ task_queue \in Seq(Nat) /\ queued \in Seq(Buffer) /\ task \in [Workers -> Nat]
      /\ Len(task_queue) \in Nat /\ Len(queued) \in Nat /\ Taken \in Int
      /\ Arrived \in Seq(Nat)
    BY ArrivedType, LenProperties DEF TypeOK, Taken
<1>1. CASE QueueTask
    <2>1. /\ task_queue' = Append(task_queue, Len(queued) + 1)
          /\ Len(queued') = Len(queued) + 1
          /\ task' = task
        BY <1>0, <1>1, AppendProperties DEF QueueTask, TypeOK
    <2>2. Taken' = Taken
        BY <1>0, <2>1 DEF Taken
    <2>3. \A i \in 1 .. Len(task_queue') : task_queue'[i] = Taken + i
        BY <1>0, <2>1 DEF IndOrder, Taken
    <2>4. Arrived' = Arrived
        BY <1>1, OthersKeepArrived DEF QueueTask, RunTask
    <2> QED
        BY <2>1, <2>2, <2>3, <2>4 DEF IndOrder
<1>2. ASSUME NEW w \in Workers, TakeTask(w) PROVE IndOrder'
    <2>1. /\ task_queue # <<>> /\ task_queue' = Tail(task_queue) /\ queued' = queued
          /\ task' = [task EXCEPT ![w] = Head(task_queue)]
        BY <1>2 DEF TakeTask
    <2>2. Taken' = Taken + 1 /\ Head(task_queue) = Taken + 1
        BY <1>0, <2>1 DEF IndOrder, Taken
    <2>3. \A i \in 1 .. Len(task_queue') : task_queue'[i] = Taken' + i
        <3>1. /\ Len(task_queue') = Len(task_queue) - 1
              /\ \A i \in 1 .. Len(task_queue') : task_queue'[i] = task_queue[i + 1]
            BY <1>0, <2>1
        <3> QED
            BY <1>0, <2>2, <3>1 DEF IndOrder
    <2>4. \A v \in Workers : task'[v] <= Taken'
        BY <1>0, <2>1, <2>2 DEF IndOrder
    <2>5. Arrived' = Arrived
        BY <1>2, OthersKeepArrived DEF TakeTask, RunTask
    <2>6. \A p \in 1 .. Len(Arrived) : Arrived[p] <= Taken + 1
        BY <1>0, ElementOfSeq DEF IndOrder
    <2> QED
        BY <1>0, <2>2, <2>3, <2>4, <2>5, <2>6 DEF IndOrder
<1>3. ASSUME NEW w \in Workers, RunTask(w) PROVE IndOrder'
    <2>1. /\ task_queue' = task_queue /\ queued' = queued
          /\ task' = [task EXCEPT ![w] = 0]
        BY <1>3 DEF RunTask
    <2>2. Taken' = Taken
        BY <2>1 DEF Taken
    <2>3. Arrived' = Append(Arrived, task[w]) /\ task[w] \in Nat /\ task[w] <= Taken
        BY <1>0, <1>3, RunTaskArrives DEF IndOrder
    <2>4. \A p \in 1 .. Len(Arrived') : Arrived'[p] <= Taken
        BY <1>0, <2>3 DEF IndOrder
    <2>5. \A v \in Workers : task'[v] <= Taken
        BY <1>0, <2>1 DEF IndOrder
    <2> QED
        BY <2>1, <2>2, <2>4, <2>5 DEF IndOrder
<1>4. CASE UNCHANGED <<task_queue, queued, task>> /\ \A w \in Workers : ~RunTask(w)
    <2>1. Arrived' = Arrived /\ Taken' = Taken
        BY <1>4, OthersKeepArrived DEF Taken
    <2> QED
        BY <1>4, <2>1 DEF IndOrder
<1> QED
    BY <1>1, <1>2, <1>3, <1>4, StepsOfTasks
    DEF NotifyWorker, NewMessage, PutterWaits, PutOnSHMQueue, WorkerWaits, SpuriousWakeup, pool

LEMMA ElementsOfAppend ==
    ASSUME NEW s \in Seq(Nat), NEW x \in Nat
    PROVE  Elements(Append(s, x)) = Elements(s) \cup {x}
<1>1. /\ Len(Append(s, x)) = Len(s) + 1 /\ Len(s) \in Nat
      /\ \A i \in 1 .. Len(s) : Append(s, x)[i] = s[i]
      /\ Append(s, x)[Len(s) + 1] = x
    BY AppendProperties, LenProperties
<1> QED
    BY <1>1 DEF Elements

LEMMA ElementsOfTail ==
    ASSUME NEW s \in Seq(Nat), s # <<>>
    PROVE  Elements(s) = {Head(s)} \cup Elements(Tail(s))
<1>1. /\ Len(Tail(s)) = Len(s) - 1 /\ Len(s) \in Nat \ {0} /\ Head(s) = s[1]
      /\ \A i \in 1 .. Len(Tail(s)) : Tail(s)[i] = s[i + 1]
    BY EmptySeq
<1>2. ASSUME NEW x \in Elements(s) PROVE x \in {Head(s)} \cup Elements(Tail(s))
    <2>1. PICK i \in 1 .. Len(s) : x = s[i]
        BY DEF Elements
    <2>2. i = 1 \/ (i - 1 \in 1 .. Len(Tail(s)) /\ Tail(s)[i - 1] = x)
        BY <1>1, <2>1
    <2> QED
        BY <1>1, <2>1, <2>2 DEF Elements
<1>3. ASSUME NEW x \in {Head(s)} \cup Elements(Tail(s)) PROVE x \in Elements(s)
    <2>1. CASE x = Head(s)
        BY <1>1, <2>1 DEF Elements
    <2>2. CASE x \in Elements(Tail(s))
        <3>1. PICK i \in 1 .. Len(Tail(s)) : x = Tail(s)[i]
            BY <2>2 DEF Elements
        <3>2. i + 1 \in 1 .. Len(s) /\ s[i + 1] = x
            BY <1>1, <3>1
        <3> QED
            BY <3>2 DEF Elements
    <2> QED
        BY <1>3, <2>1, <2>2
<1> QED
    BY <1>2, <1>3

\* The workers with a task.
Busy == {w \in Workers : task[w] # 0}

LEMMA BusyIsFinite == IsFiniteSet(Busy) /\ Cardinality(Busy) \in Nat
<1>1. IsFiniteSet(Workers) /\ Busy \in SUBSET Workers
    BY IngestAssumption DEF Busy
<1> QED
    BY <1>1, FS_Subset, FS_CardinalityType

LEMMA NothingLostNext ==
    ASSUME TypeOK, TypeOK', IndHands, IndHands', IndOrder, NothingLost, [Next]_vars
    PROVE  NothingLost'
<1>0. /\ task_queue \in Seq(Nat) /\ queued \in Seq(Buffer) /\ task \in [Workers -> Nat]
      /\ Len(task_queue) \in Nat /\ Len(queued) \in Nat
      /\ Arrived \in Seq(Nat) /\ Len(Arrived) \in Nat
    BY ArrivedType, LenProperties DEF TypeOK
<1>1. /\ Elements(task_queue) \cup InHands \cup Elements(Arrived) = 1 .. Len(queued)
      /\ Len(task_queue) + Cardinality(Busy) + Len(Arrived) = Len(queued)
    BY DEF NothingLost, Busy
<1>2. SUFFICES
        /\ Elements(task_queue') \cup InHands' \cup Elements(Arrived') = 1 .. Len(queued')
        /\ Len(task_queue') + Cardinality(Busy') + Len(Arrived') = Len(queued')
    BY DEF NothingLost, Busy
<1>3. CASE QueueTask
    <2>1. /\ task_queue' = Append(task_queue, Len(queued) + 1)
          /\ Len(queued') = Len(queued) + 1
          /\ task' = task
        BY <1>0, <1>3, AppendProperties DEF QueueTask, TypeOK
    <2>2. Arrived' = Arrived
        BY <1>3, OthersKeepArrived DEF QueueTask, RunTask
    <2>3. Elements(task_queue') = Elements(task_queue) \cup {Len(queued) + 1}
        BY <1>0, <2>1, ElementsOfAppend
    <2>4. InHands' = InHands /\ Busy' = Busy
        BY <2>1 DEF InHands, Busy
    <2>5. Len(task_queue') = Len(task_queue) + 1
        BY <1>0, <2>1, AppendProperties
    <2>6. 1 .. Len(queued') = 1 .. Len(queued) \cup {Len(queued) + 1}
        BY <1>0, <2>1
    <2>7. Elements(task_queue') \cup InHands' \cup Elements(Arrived') = 1 .. Len(queued')
        BY <1>1, <2>2, <2>3, <2>4, <2>6
    <2> QED
        BY <1>0, <1>1, <2>1, <2>2, <2>4, <2>5, <2>7, BusyIsFinite
<1>4. ASSUME NEW w \in Workers, TakeTask(w)
      PROVE  /\ Elements(task_queue') \cup InHands' \cup Elements(Arrived') = 1 .. Len(queued')
             /\ Len(task_queue') + Cardinality(Busy') + Len(Arrived') = Len(queued')
    <2>1. /\ task_queue # <<>> /\ task_queue' = Tail(task_queue) /\ queued' = queued
          /\ task' = [task EXCEPT ![w] = Head(task_queue)]
          /\ task[w] = 0
        BY <1>4 DEF TakeTask, IndHands
    <2>2. Arrived' = Arrived
        BY <1>4, OthersKeepArrived DEF TakeTask, RunTask
    <2>3. Elements(task_queue) = {Head(task_queue)} \cup Elements(task_queue')
        BY <1>0, <2>1, ElementsOfTail
    <2>4. Len(task_queue') = Len(task_queue) - 1
        BY <1>0, <2>1
    <2>5. Head(task_queue) # 0
        BY <1>1, <2>3, <1>0
    <2>6. InHands' = InHands \cup {Head(task_queue)}
        BY <1>0, <2>1, <2>5 DEF InHands
    <2>7. Busy' = Busy \cup {w} /\ w \notin Busy
        BY <1>0, <2>1, <2>5 DEF Busy
    <2>8. Cardinality(Busy') = Cardinality(Busy) + 1
        BY <2>7, BusyIsFinite, FS_AddElement
    <2>9. Elements(task_queue') \cup InHands' \cup Elements(Arrived') = 1 .. Len(queued')
        BY <1>1, <2>1, <2>2, <2>3, <2>6
    <2> QED
        BY <1>0, <1>1, <2>1, <2>2, <2>4, <2>8, <2>9, BusyIsFinite
<1>5. ASSUME NEW w \in Workers, RunTask(w)
      PROVE  /\ Elements(task_queue') \cup InHands' \cup Elements(Arrived') = 1 .. Len(queued')
             /\ Len(task_queue') + Cardinality(Busy') + Len(Arrived') = Len(queued')
    <2>1. /\ task_queue' = task_queue /\ queued' = queued
          /\ task' = [task EXCEPT ![w] = 0] /\ task[w] \in Nat \ {0}
        BY <1>0, <1>5 DEF RunTask, IndHands
    <2>2. Arrived' = Append(Arrived, task[w])
        BY <1>5, RunTaskArrives
    <2>3. Elements(Arrived') = Elements(Arrived) \cup {task[w]} /\ Len(Arrived') = Len(Arrived) + 1
        BY <1>0, <2>1, <2>2, ElementsOfAppend, AppendProperties
    <2>4. InHands = InHands' \cup {task[w]} \/ InHands = InHands'
        BY <1>0, <2>1 DEF InHands
    <2>5. Busy' = Busy \ {w} /\ w \in Busy
        BY <1>0, <2>1 DEF Busy
    <2>6. Cardinality(Busy') = Cardinality(Busy) - 1
        BY <2>5, BusyIsFinite, FS_RemoveElement
    <2>7. task[w] \in InHands
        BY <2>1 DEF InHands
    <2>8. Elements(task_queue') \cup InHands' \cup Elements(Arrived') = 1 .. Len(queued')
        BY <1>1, <2>1, <2>3, <2>4, <2>7
    <2> QED
        BY <1>0, <1>1, <2>1, <2>3, <2>6, <2>8, BusyIsFinite
<1>6. CASE UNCHANGED <<task_queue, queued, task>> /\ \A w \in Workers : ~RunTask(w)
    <2>1. Arrived' = Arrived /\ InHands' = InHands /\ Busy' = Busy
        BY <1>6, OthersKeepArrived DEF InHands, Busy
    <2> QED
        BY <1>1, <1>6, <2>1
<1> QED
    BY <1>3, <1>4, <1>5, <1>6, StepsOfTasks
    DEF NotifyWorker, NewMessage, PutterWaits, PutOnSHMQueue, WorkerWaits, SpuriousWakeup, pool

\* The messages a newly arrived one has overtaken are in the hands of other workers.
LEMMA OvertakenAreInHands ==
    ASSUME TypeOK, IndOrder, NothingLost, NEW w \in Workers, RunTask(w)
    PROVE  Cardinality(1 .. (task[w] - 1) \ (Elements(Arrived) \cup {task[w]}))
               < Cardinality(Workers)
<1> DEFINE Missing == 1 .. (task[w] - 1) \ (Elements(Arrived) \cup {task[w]})
           Others == Workers \ {w}
           hands == [v \in Others |-> task[v]]
           Held == {task[v] : v \in Others}
<1>1. /\ task_queue \in Seq(Nat) /\ queued \in Seq(Buffer) /\ task \in [Workers -> Nat]
      /\ Len(task_queue) \in Nat /\ Len(queued) \in Nat /\ Taken \in Nat
      /\ task[w] <= Taken /\ Taken <= Len(queued)
    BY LenProperties DEF TypeOK, IndOrder, Taken
<1>2. Missing \subseteq Held
    <2>1. SUFFICES ASSUME NEW x \in Missing PROVE x \in Held
        OBVIOUS
    <2>2. x \in 1 .. Len(queued) /\ x < task[w] /\ x \notin Elements(Arrived)
        BY <1>1
    <2>3. x \notin Elements(task_queue)
        BY <1>1, <2>2 DEF Elements, IndOrder
    <2>4. x \in InHands
        BY <2>2, <2>3 DEF NothingLost
    <2>5. PICK v \in Workers : task[v] = x
        BY <2>4 DEF InHands
    <2>6. v # w
        BY <1>1, <2>2, <2>5
    <2> QED
        BY <2>5, <2>6
<1>3. IsFiniteSet(Others) /\ Cardinality(Others) = Cardinality(Workers) - 1
    BY IngestAssumption, FS_RemoveElement
<1>4. IsFiniteSet(Held) /\ Cardinality(Held) <= Cardinality(Others)
    <2>1. hands \in Surjection(Others, Held)
        BY DEF Surjection
    <2> QED
        BY <1>3, <2>1, FS_Surjection
<1>5. IsFiniteSet(Missing) /\ Cardinality(Missing) <= Cardinality(Held)
    BY <1>2, <1>4, FS_Subset
<1>6. Cardinality(Missing) \in Nat /\ Cardinality(Held) \in Nat /\ Cardinality(Workers) \in Nat
    BY <1>4, <1>5, IngestAssumption, FS_CardinalityType
<1> QED
    BY <1>3, <1>4, <1>5, <1>6

LEMMA OvertakingNext ==
    ASSUME TypeOK, IndHands, IndOrder, NothingLost, OvertakingBounded, [Next]_vars
    PROVE  OvertakingBounded'
<1>1. ASSUME NEW w \in Workers, RunTask(w) PROVE OvertakingBounded'
    <2>1. Arrived' = Append(Arrived, task[w]) /\ Arrived \in Seq(Nat) /\ task[w] \in Nat
        BY <1>1, RunTaskArrives, ArrivedType DEF TypeOK
    <2>2. /\ Len(Arrived') = Len(Arrived) + 1 /\ Len(Arrived) \in Nat
          /\ \A q \in 1 .. Len(Arrived) : Arrived'[q] = Arrived[q]
          /\ Arrived'[Len(Arrived) + 1] = task[w]
        BY <2>1, AppendProperties, LenProperties
    <2>3. SUFFICES ASSUME NEW p \in 1 .. Len(Arrived')
                   PROVE  Cardinality(1 .. (Arrived'[p] - 1) \ {Arrived'[q] : q \in 1 .. p})
                              < Cardinality(Workers)
        BY DEF OvertakingBounded
    <2>4. CASE p <= Len(Arrived)
        <3>1. {Arrived'[q] : q \in 1 .. p} = {Arrived[q] : q \in 1 .. p}
            BY <2>2, <2>4
        <3>2. Arrived'[p] = Arrived[p] /\ p \in 1 .. Len(Arrived)
            BY <2>2, <2>4
        <3> QED
            BY <3>1, <3>2 DEF OvertakingBounded
    <2>5. CASE p = Len(Arrived) + 1
        <3>1. {Arrived'[q] : q \in 1 .. p} = Elements(Arrived')
            BY <2>2, <2>5 DEF Elements
        <3>2. Elements(Arrived') = Elements(Arrived) \cup {task[w]}
            BY <2>1, ElementsOfAppend
        <3> QED
            BY <1>1, <2>2, <2>5, <3>1, <3>2, OvertakenAreInHands
    <2> QED
        BY <2>2, <2>4, <2>5
<1>2. CASE \A w \in Workers : ~RunTask(w)
    BY <1>2, OthersKeepArrived DEF OvertakingBounded
<1> QED
    BY <1>1, <1>2

-----------------------------------------------------------------------------
(* Wakeups.                                                                *)

LEMMA WakeupNext ==
    ASSUME TypeOK, NoLostWakeup, [Next]_vars
    PROVE  NoLostWakeup'
<1> USE DEF NoLostWakeup, TypeOK
<1>1. CASE QueueTask
    BY <1>1 DEF QueueTask, putter
<1>2. CASE NotifyWorker
    <2>1. Asleep' # Workers
        <3>1. CASE Asleep = {}
            BY <1>2, <3>1, IngestAssumption DEF NotifyWorker, Asleep
        <3>2. CASE Asleep # {}
            BY <1>2, <3>2 DEF NotifyWorker, Asleep
        <3> QED
            BY <3>1, <3>2
    <2> QED
        BY <1>2, <2>1 DEF NotifyWorker, putter
<1>3. CASE NewMessage
    BY <1>3 DEF NewMessage, listener, pool, Asleep
<1>4. CASE PutterWaits
    BY <1>4 DEF PutterWaits, listener, pool, Asleep
<1>5. CASE PutOnSHMQueue
    BY <1>5 DEF PutOnSHMQueue, listener, pool, Asleep
<1>6. ASSUME NEW w \in Workers, TakeTask(w) \/ RunTask(w) \/ SpuriousWakeup(w)
      PROVE  NoLostWakeup'
    <2>1. wpc'[w] # "asleep"
        BY <1>6 DEF TakeTask, RunTask, SpuriousWakeup
    <2>2. Asleep' # Workers
        BY <2>1 DEF Asleep
    <2>3. messages' # <<>> => ppc' # "asleep"
        BY <1>6 DEF TakeTask, RunTask, SpuriousWakeup, putter
    <2> QED
        BY <2>2, <2>3
<1>7. ASSUME NEW w \in Workers, WorkerWaits(w) PROVE NoLostWakeup'
    BY <1>7 DEF WorkerWaits, listener, putter
<1>8. CASE UNCHANGED <<pool, messages, putter, queued, settled>>
    <2>1. lpc = "notify" => lpc' = "notify" \/ NotifyWorker
        BY DEF Next, vars, HandleWebcamFrame, DropFrame, PublishFrame, ClosePublisher,
               Listener, ReceiveSize, ReceiveData, QueueTask, Worker, TakeTask, WorkerWaits,
               SpuriousWakeup, RunTask, Putter, NewMessage, PutterWaits, PutOnSHMQueue, listener
    <2> QED
        BY <1>2, <1>8, <2>1 DEF pool, putter, Asleep
<1> QED
    BY <1>1, <1>2, <1>3, <1>4, <1>5, <1>6, <1>7, <1>8, StepsOfTasks

-----------------------------------------------------------------------------
(* The place in the stream.                                                *)

\* What has been cut out stays so, and the end of the connection is final.
LEMMA FramedStays ==
    ASSUME TypeOK, [Next]_vars, ~QueueTask
    PROVE  /\ queued' = queued /\ sent' \in Nat /\ sent <= sent'
           /\ \A k \in 1 .. Len(queued) : Framed(k) => Framed(k)'
           /\ derailed => derailed'
<1>1. queued' = queued /\ (sent' = sent \/ sent' = sent + 1)
    BY DEF Next, vars, HandleWebcamFrame, DropFrame, PublishFrame, ClosePublisher,
           Listener, ReceiveSize, ReceiveData, NotifyWorker, Worker, TakeTask, WorkerWaits,
           SpuriousWakeup, RunTask, Putter, NewMessage, PutterWaits, PutOnSHMQueue,
           connection, listener
<1>4. derailed => derailed'
    BY DEF Next, vars, HandleWebcamFrame, DropFrame, PublishFrame, ClosePublisher,
           Listener, ReceiveSize, ReceiveData, NotifyWorker, Worker, TakeTask, WorkerWaits,
           SpuriousWakeup, RunTask, Putter, NewMessage, PutterWaits, PutOnSHMQueue,
           connection, listener
<1>2. sent \in Nat
    BY StreamLenIsNat DEF TypeOK
<1>3. ASSUME NEW k \in 1 .. Len(queued), Framed(k) PROVE Framed(k)'
    <2>1. Begin(k) \in Nat
        BY <1>3, BeginGrows DEF Framed, Messages
    <2> QED
        BY <1>1, <1>2, <1>3, <2>1 DEF Framed
<1> QED
    BY <1>1, <1>2, <1>3, <1>4

LEMMA FramingNext ==
    ASSUME TypeOK, IndFraming, [Next]_vars
    PROVE  IndFraming'
<1>1. CASE derailed
    <2>1. derailed'
        BY <1>1 DEF Next, vars, HandleWebcamFrame, DropFrame, PublishFrame, ClosePublisher,
           Listener, ReceiveSize, ReceiveData, QueueTask, NotifyWorker, Worker, TakeTask,
           WorkerWaits, SpuriousWakeup, RunTask, Putter, NewMessage, PutterWaits,
           PutOnSHMQueue, listener
    <2> QED
        BY <2>1 DEF IndFraming
<1>2. CASE ~derailed
    <2> DEFINE N == Len(queued)
    <2>0. /\ sent \in Nat /\ got \in Nat /\ got <= sent /\ sent <= StreamLen
          /\ N \in Nat /\ HeaderLen \in Nat \ {0} /\ Len(Ends) \in Nat
          /\ buffer.size \in Nat /\ buffer.len \in Nat /\ buffer.from \in Nat
          /\ buffer = [from |-> buffer.from, size |-> buffer.size, len |-> buffer.len]
        BY StreamLenIsNat, BeginGrows, LenProperties DEF TypeOK, Buffer
    <2>1. /\ \A k \in 1 .. N : Framed(k) \/ (k = N /\ Ended /\ lpc # "data")
          /\ lpc \in {"size", "notify"} => Ended \/ (N <= Len(Ends) /\ got = Begin(N))
          /\ lpc = "data" =>
                /\ N + 1 \in Messages
                /\ buffer.from = Begin(N) + HeaderLen
                /\ buffer.size = Size(N + 1)
                /\ buffer.len <= buffer.size
                /\ got = buffer.from + buffer.len
        BY <1>2 DEF IndFraming
    <2>2. CASE ReceiveSize
        <3>1. PICK n \in 1 .. HeaderLen :
                /\ n <= sent - got
                /\ n < HeaderLen => derailed'
                /\ got' = got + n
                /\ \E size \in SizesRead(n) :
                    \/ lpc' = "terminated"
                    \/ /\ lpc' = "data"
                       /\ buffer' = [from |-> got', size |-> size, len |-> 0]
                    \/ derailed'
            BY <2>2 DEF ReceiveSize
        <3>2. lpc = "size" /\ ~Ended /\ queued' = queued
            BY <2>0, <2>2, <3>1 DEF ReceiveSize, Ended
        <3>3. /\ \A k \in 1 .. N : Framed(k)'
              /\ N <= Len(Ends) /\ got = Begin(N)
            BY <2>1, <2>2, <3>2, FramedStays DEF ReceiveSize, QueueTask
        <3>4. N + 1 \in Messages
            <4>1. N # Len(Ends)
                BY <2>0, <3>1, <3>3 DEF StreamLen
            <4> QED
                BY <2>0, <3>3, <4>1 DEF Messages
        <3>5. CASE n = HeaderLen
            <4>1. ASSUME NEW j \in Messages, Begin(j - 1) = got PROVE j = N + 1
                <5>1. j - 1 \in 0 .. Len(Ends) /\ N \in 0 .. Len(Ends)
                    BY <2>0, <3>3 DEF Messages
                <5>2. Begin(j - 1) = Begin(N) /\ Begin(N) \in Nat
                    BY <3>3, <4>1, <5>1, BeginGrows
                <5>3. ~(j - 1 < N) /\ ~(N < j - 1)
                    BY <2>0, <5>1, <5>2, BeginGrows
                <5> QED
                    BY <2>0, <5>1, <5>3 DEF Messages
            <4>2. SizesRead(n) = {Size(N + 1)}
                BY <2>0, <3>3, <3>4, <3>5, <4>1 DEF SizesRead
            <4>3. Size(N + 1) \in Nat
                BY <3>4, SizesAreNat
            <4>4. \/ lpc' = "terminated"
                  \/ derailed'
                  \/ /\ lpc' = "data"
                     /\ buffer' = [from |-> got', size |-> Size(N + 1), len |-> 0]
                BY <3>1, <4>2
            <4>5. /\ got' = Begin(N) + HeaderLen
                  /\ Len(queued') = N /\ \A k \in 1 .. N : Framed(k)'
                BY <3>1, <3>2, <3>3, <3>5
            <4>6. CASE derailed'
                BY <4>6 DEF IndFraming
            <4>7. CASE lpc' = "terminated"
                BY <4>5, <4>7 DEF IndFraming
            <4>8. CASE lpc' = "data" /\ buffer' = [from |-> got', size |-> Size(N + 1), len |-> 0]
                <5>1. /\ buffer'.from = got' /\ buffer'.size = Size(N + 1) /\ buffer'.len = 0
                      /\ got' \in Nat
                    BY <2>0, <3>1, <4>8
                <5> QED
                    BY <2>0, <3>4, <4>3, <4>5, <4>8, <5>1 DEF IndFraming
            <4> QED
                BY <4>4, <4>6, <4>7, <4>8
        <3>6. CASE n # HeaderLen
            <4>1. n < HeaderLen
                BY <2>0, <3>6
            <4>2. derailed'
                BY <3>1, <4>1
            <4> QED
                BY <4>2 DEF IndFraming
        <3> QED
            BY <3>5, <3>6
    <2>3. CASE ReceiveData
        <3>1. PICK n \in 1 .. (buffer.size - buffer.len) :
                /\ got' = got + n
                /\ buffer' = [buffer EXCEPT !.len = @ + n]
            BY <2>3 DEF ReceiveData
        <3>2. lpc = "data" /\ lpc' = "data" /\ queued' = queued
            BY <2>3 DEF ReceiveData
        <3>3. \A k \in 1 .. N : Framed(k)'
            BY <2>1, <2>3, <3>2, FramedStays DEF QueueTask, ReceiveData
        <3>4. /\ buffer'.from = buffer.from /\ buffer'.size = buffer.size
              /\ buffer'.len = buffer.len + n
            BY <2>0, <3>1
        <3> QED
            BY <2>0, <2>1, <3>1, <3>2, <3>3, <3>4 DEF IndFraming
    <2>4. CASE QueueTask
        <3>1. /\ lpc = "data" /\ lpc' = "notify" /\ UNCHANGED <<got, sent, open>>
              /\ queued' = Append(queued, buffer)
              /\ BufferFull \/ Ended
            BY <2>4 DEF QueueTask, connection, Ended
        <3>2. /\ Len(queued') = N + 1
              /\ \A k \in 1 .. N : queued'[k] = queued[k]
              /\ queued'[N + 1] = buffer
            BY <3>1, AppendProperties DEF TypeOK
        <3>3. \A k \in 1 .. N : Framed(k)'
            BY <2>1, <3>1, <3>2 DEF Framed
        <3>4. Begin(N + 1) = Begin(N) + HeaderLen + Size(N + 1)
            <4>1. (N + 1) - 1 = N
                BY <2>0
            <4> QED
                BY <2>1, <3>1, <4>1, SizesAreNat
        <3>5. CASE BufferFull
            <4>1. buffer = Data(N + 1)
                <5>1. (N + 1) - 1 = N
                    BY <2>0
                <5> QED
                    BY <2>0, <2>1, <3>1, <3>5, <5>1 DEF BufferFull, Data
            <4>2. Begin(N) \in Nat /\ Size(N + 1) \in Nat
                BY <2>0, <2>1, <3>1, BeginGrows, SizesAreNat DEF Messages
            <4>3. got = Begin(N + 1)
                BY <2>0, <2>1, <3>1, <3>4, <3>5, <4>2 DEF BufferFull
            <4>4. \A k : k = N + 1 => Framed(k)'
                BY <2>0, <2>1, <3>1, <3>2, <4>1, <4>3 DEF Framed
            <4>5. N + 1 <= Len(Ends)
                BY <2>1, <3>1 DEF Messages
            <4> QED
                BY <2>0, <3>1, <3>2, <3>3, <4>3, <4>4, <4>5 DEF IndFraming
        <3>6. CASE Ended
            BY <2>0, <3>1, <3>2, <3>3, <3>6 DEF IndFraming, Ended
        <3> QED
            BY <3>1, <3>5, <3>6
    <2>5. CASE NotifyWorker
        <3>1. lpc = "notify" /\ lpc' = "size" /\ UNCHANGED <<got, sent, open, queued, buffer>>
            BY <2>5 DEF NotifyWorker, connection
        <3>2. \A k \in 1 .. N : Framed(k) => Framed(k)'
            BY <2>5, <3>1, FramedStays DEF QueueTask
        <3> QED
            BY <2>1, <3>1, <3>2 DEF IndFraming, Ended
    <2>6. CASE UNCHANGED listener /\ ~QueueTask /\ (~open => UNCHANGED <<sent, open>>)
        <3>1. /\ UNCHANGED <<lpc, got, buffer, derailed, queued>>
              /\ \A k \in 1 .. N : Framed(k) => Framed(k)'
            BY <2>6, FramedStays DEF listener
        <3>2. Ended => Ended'
            BY <2>6, <3>1 DEF Ended
        <3> QED
            BY <2>1, <3>1, <3>2 DEF IndFraming
    <2> QED
        BY <2>2, <2>3, <2>4, <2>5, <2>6
        DEF Next, vars, HandleWebcamFrame, DropFrame, PublishFrame, ClosePublisher,
            Listener, Worker, TakeTask, WorkerWaits, SpuriousWakeup, RunTask, Putter,
            NewMessage, PutterWaits, PutOnSHMQueue, connection, listener
<1> QED
    BY <1>1, <1>2 DEF TypeOK

\* The publisher's steps keep the numbers; nobody else touches them.
LEMMA NumbersNext ==
    ASSUME TypeOK, TypeOK', IndNumbers, [Next]_vars
    PROVE  IndNumbers'
<1>0. /\ sent \in Nat /\ sent <= StreamLen /\ packet_num \in Nat /\ numbers \in Seq(Nat)
      /\ Len(numbers) \in Nat /\ Len(Ends) \in Nat /\ HeaderLen \in Nat \ {0}
      /\ packet_num \in 0 .. Len(Ends) /\ Begin(packet_num) \in Nat
    <2>1. packet_num \in 0 .. Len(Ends)
        BY BeginGrows DEF TypeOK, IndNumbers
    <2> QED
        BY <2>1, BeginGrows, StreamLenIsNat, LenProperties DEF TypeOK
<1>1. CASE PublishFrame
    <2>1. /\ sent < StreamLen /\ sent' = sent + 1
          /\ numbers' = IF BetweenMessages THEN Append(numbers, packet_num) ELSE numbers
          /\ packet_num' = IF BetweenMessages' THEN packet_num + 1 ELSE packet_num
        BY <1>1 DEF PublishFrame
    <2>2. /\ packet_num + 1 \in 0 .. Len(Ends) /\ Begin(packet_num + 1) \in Nat
          /\ sent < Begin(packet_num + 1)
        <3>1. packet_num # Len(Ends)
            BY <1>0, <2>1 DEF IndNumbers, StreamLen
        <3>2. packet_num + 1 \in 0 .. Len(Ends) /\ packet_num < Len(Ends)
            BY <1>0, <3>1
        <3> QED
            BY <3>2, BeginGrows DEF IndNumbers
    <2>3. ASSUME NEW x \in Nat, NEW k \in 0 .. Len(Ends), Begin(k) = x,
                 Begin(packet_num) <= x, x <= Begin(packet_num + 1)
          PROVE  k = packet_num \/ k = packet_num + 1
        <3>1. ~(k < packet_num) /\ ~(packet_num + 1 < k)
            BY <1>0, <2>2, <2>3, BeginGrows
        <3> QED
            BY <1>0, <3>1
    <2>4. BetweenMessages <=> sent = Begin(packet_num)
        <3>1. ASSUME BetweenMessages PROVE sent = Begin(packet_num)
            <4>1. PICK k \in 0 .. Len(Ends) : Begin(k) = sent
                BY <3>1 DEF BetweenMessages
            <4>2. k = packet_num
                BY <1>0, <2>2, <2>3, <4>1 DEF IndNumbers
            <4> QED
                BY <4>1, <4>2
        <3> QED
            BY <1>0, <3>1 DEF BetweenMessages
    <2>5. Begin(packet_num) + HeaderLen < Begin(packet_num + 1)
        BY <1>0, <2>2, BeginGrows
    <2>6. BetweenMessages' <=> sent + 1 = Begin(packet_num + 1)
        <3>1. ASSUME BetweenMessages' PROVE sent + 1 = Begin(packet_num + 1)
            <4>1. PICK k \in 0 .. Len(Ends) : Begin(k) = sent + 1
                BY <2>1, <3>1 DEF BetweenMessages
            <4>2. /\ sent + 1 \in Nat /\ Begin(packet_num) < sent + 1
                  /\ sent + 1 <= Begin(packet_num + 1)
                BY <1>0, <2>2 DEF IndNumbers
            <4>3. k = packet_num \/ k = packet_num + 1
                BY <1>0, <2>3, <4>1, <4>2
            <4>4. k # packet_num
                BY <1>0, <4>1, <4>2
            <4> QED
                BY <4>1, <4>3, <4>4
        <3> QED
            BY <2>1, <2>2, <3>1 DEF BetweenMessages
    <2>7. \A m \in 1 .. Len(numbers') : numbers'[m] = m - 1
        <3>1. CASE BetweenMessages
            <4>1. numbers' = Append(numbers, packet_num) /\ Len(numbers) = packet_num
                BY <1>0, <2>1, <2>4, <3>1 DEF IndNumbers
            <4>2. /\ Len(numbers') = packet_num + 1
                  /\ \A m \in 1 .. Len(numbers) : numbers'[m] = numbers[m]
                  /\ numbers'[packet_num + 1] = packet_num
                BY <1>0, <4>1, AppendProperties
            <4> QED
                BY <1>0, <4>1, <4>2 DEF IndNumbers
        <3>2. CASE ~BetweenMessages
            BY <2>1, <3>2 DEF IndNumbers
        <3> QED
            BY <3>1, <3>2
    <2>8. Len(numbers') = packet_num + 1
        <3>1. CASE BetweenMessages
            BY <1>0, <2>1, <2>4, <3>1, AppendProperties DEF IndNumbers
        <3>2. CASE ~BetweenMessages
            BY <1>0, <2>1, <2>4, <3>2 DEF IndNumbers
        <3> QED
            BY <3>1, <3>2
    <2>9. CASE BetweenMessages'
        <3>1. packet_num' = packet_num + 1 /\ sent' = Begin(packet_num')
            BY <2>1, <2>6, <2>9
        <3>2. packet_num' < Len(Ends) => sent' < Begin(packet_num' + 1)
            <4>1. SUFFICES ASSUME packet_num' < Len(Ends) PROVE sent' < Begin(packet_num' + 1)
                OBVIOUS
            <4>2. packet_num' + 1 \in 0 .. Len(Ends) /\ packet_num' \in 0 .. Len(Ends)
                BY <1>0, <2>2, <3>1, <4>1
            <4>3. /\ Begin(packet_num') + HeaderLen < Begin(packet_num' + 1)
                  /\ Begin(packet_num') \in Nat /\ Begin(packet_num' + 1) \in Nat
                BY <1>0, <4>2, BeginGrows
            <4> QED
                BY <1>0, <3>1, <4>3
        <3> QED
            BY <1>0, <2>1, <2>2, <2>7, <2>8, <3>1, <3>2 DEF IndNumbers
    <2>10. CASE ~BetweenMessages'
        <3>1. packet_num' = packet_num /\ sent + 1 < Begin(packet_num + 1)
            BY <1>0, <2>1, <2>2, <2>6, <2>10
        <3> QED
            BY <1>0, <2>1, <2>7, <2>8, <3>1 DEF IndNumbers
    <2> QED
        BY <2>9, <2>10
<1>2. CASE UNCHANGED <<sent, packet_num, numbers>>
    BY <1>2 DEF IndNumbers
<1> QED
    BY <1>1, <1>2
    DEF Next, vars, HandleWebcamFrame, DropFrame, PacketsAfterDrop, ClosePublisher, Listener,
        ReceiveSize, ReceiveData, QueueTask, NotifyWorker, Worker, TakeTask, WorkerWaits,
        SpuriousWakeup, RunTask, Putter, NewMessage, PutterWaits, PutOnSHMQueue, connection

-----------------------------------------------------------------------------
(* The theorems.                                                           *)

IndInv ==
    /\ TypeOK /\ IndHands /\ IndOrder /\ NothingLost /\ OvertakingBounded /\ NoLostWakeup
    /\ IndFraming /\ IndNumbers

LEMMA IndInit == Init => IndInv
<1> SUFFICES ASSUME Init PROVE IndInv
    OBVIOUS
<1>1. TypeOK
    BY TypeInit
<1>2. /\ Len(queued) = 0 /\ Len(task_queue) = 0 /\ Len(messages) = 0 /\ Len(settled) = 0
      /\ Arrived = <<>> /\ Len(Arrived) = 0
    BY EmptySeq, ConcatEmptySeq DEF Init, Arrived
<1>3. IndHands
    BY <1>2 DEF Init, IndHands
<1>4. IndOrder
    BY <1>2 DEF Init, IndOrder, Taken
<1>5. NothingLost
    <2>1. Busy = {} /\ InHands = {} /\ Elements(task_queue) = {} /\ Elements(Arrived) = {}
        BY <1>2 DEF Init, Busy, InHands, Elements
    <2>2. Cardinality(Busy) = 0
        BY <2>1, FS_EmptySet
    <2> QED
        BY <1>2, <2>1, <2>2 DEF NothingLost, Busy
<1>6. OvertakingBounded
    BY <1>2 DEF OvertakingBounded
<1>7. NoLostWakeup
    BY DEF Init, NoLostWakeup
<1>8. IndFraming
    BY <1>2, BeginGrows DEF Init, IndFraming, Begin
<1>9. IndNumbers
    <2>1. /\ packet_num = 0 /\ sent = 0 /\ Len(numbers) = 0 /\ Begin(0) = 0
        BY EmptySeq DEF Init, Begin
    <2>2. 0 < Len(Ends) => 0 < Begin(1)
        BY BeginGrows DEF Begin
    <2> QED
        BY <2>1, <2>2, BeginGrows DEF IndNumbers
<1> QED
    BY <1>1, <1>3, <1>4, <1>5, <1>6, <1>7, <1>8, <1>9 DEF IndInv

LEMMA IndNext == IndInv /\ [Next]_vars => IndInv'
<1> SUFFICES ASSUME IndInv, [Next]_vars PROVE IndInv'
    OBVIOUS
<1> USE DEF IndInv
<1>1. TypeOK'
    BY TypeNext
<1>2. IndHands'
    BY HandsNext
<1>3. IndOrder'
    BY <1>1, OrderNext
<1>4. NothingLost'
    BY <1>1, <1>2, NothingLostNext
<1>5. OvertakingBounded'
    BY OvertakingNext
<1>6. NoLostWakeup'
    BY WakeupNext
<1>7. IndFraming'
    BY FramingNext
<1>8. IndNumbers'
    BY <1>1, NumbersNext
<1> QED
    BY <1>1, <1>2, <1>3, <1>4, <1>5, <1>6, <1>7, <1>8

LEMMA IndAlways == Spec => []IndInv
BY IndInit, IndNext, PTL DEF Spec

\* Between the listen thread and PutOnSHMQueue nothing is lost or doubled, for any pool.
THEOREM TasksAreKept == Spec => []NothingLost
<1>1. IndInv => NothingLost
    BY DEF IndInv
<1> QED
    BY <1>1, IndAlways, PTL

\* A message is overtaken by fewer messages than the pool has workers.
THEOREM PoolAlmostKeepsOrder == Spec => []OvertakingBounded
<1>1. IndInv => OvertakingBounded
    BY DEF IndInv
<1> QED
    BY <1>1, IndAlways, PTL

\* Nobody sleeps for ever while there is work, although notify_one is called without
\* the mutex.
THEOREM WakeupsAreKept == Spec => []NoLostWakeup
<1>1. IndInv => NoLostWakeup
    BY DEF IndInv
<1> QED
    BY <1>1, IndAlways, PTL

\* The listen thread cuts the stream where the publisher did, as long as size fields
\* come whole and buffers can be allocated, and the k-th message carries the number
\* k - 1.
THEOREM FramingIsKept == Spec => []FramingKept
<1>1. ASSUME IndInv PROVE FramingKept
    <2>1. SUFFICES ASSUME NEW k \in 1 .. Len(queued), ~derailed, Framed(k)
                   PROVE  queued[k] = Data(k) /\ numbers[k] = k - 1
        BY <1>1 DEF IndInv, IndFraming, FramingKept, Ended
    <2>2. k \in Messages /\ queued[k] = Data(k) /\ Begin(k) <= sent
        BY <2>1 DEF Framed
    <2>3. /\ packet_num \in 0 .. Len(Ends) /\ sent \in Nat /\ k \in 0 .. Len(Ends) /\ k \in Nat \ {0}
          /\ Len(Ends) \in Nat /\ HeaderLen \in Nat \ {0}
        BY <1>1, <2>2, BeginGrows, StreamLenIsNat DEF IndInv, TypeOK, IndNumbers, Messages
    <2>4. k <= packet_num
        <3>1. SUFFICES ASSUME packet_num < k PROVE FALSE
            BY <2>3
        <3>2. packet_num + 1 \in 0 .. Len(Ends) /\ packet_num < Len(Ends)
            BY <2>3, <3>1
        <3>3. sent < Begin(packet_num + 1) /\ Begin(packet_num + 1) \in Nat /\ Begin(k) \in Nat
            BY <1>1, <2>3, <3>2, BeginGrows DEF IndInv, IndNumbers
        <3>4. Begin(packet_num + 1) <= Begin(k)
            <4>1. CASE packet_num + 1 = k
                BY <3>3, <4>1
            <4>2. CASE packet_num + 1 < k
                BY <2>3, <3>2, <3>3, <4>2, BeginGrows
            <4> QED
                BY <2>3, <3>1, <4>1, <4>2
        <3> QED
            BY <2>2, <2>3, <3>3, <3>4
    <2>5. k \in 1 .. Len(numbers)
        BY <1>1, <2>3, <2>4 DEF IndInv, IndNumbers
    <2> QED
        BY <1>1, <2>2, <2>5 DEF IndInv, IndNumbers
<1> QED
    BY <1>1, IndAlways, PTL

\* Where in Arrived the messages are that PutOnSHMQueue has finished, and the one in its
\* hands.
LEMMA PlacesInArrived ==
    ASSUME TypeOK
    PROVE  /\ Len(settled) \in Nat /\ Len(Arrived) \in Nat /\ Len(settled) <= Len(Arrived)
           /\ \A p \in 1 .. Len(settled) : Arrived[p] = settled[p]
           /\ packet # 0 => /\ Len(settled) + 1 \in 1 .. Len(Arrived)
                            /\ Arrived[Len(settled) + 1] = packet
<1>1. /\ settled \in Seq(Nat) /\ InPacket \in Seq(Nat) /\ messages \in Seq(Nat)
      /\ Arrived = settled \o (InPacket \o messages)
    BY ArrivedType
<1>2. InPacket \o messages \in Seq(Nat)
    BY <1>1
<1>3. /\ Len(Arrived) = Len(settled) + Len(InPacket \o messages)
      /\ \A p \in 1 .. Len(settled) : Arrived[p] = settled[p]
      /\ \A p \in 1 .. Len(InPacket \o messages) :
            Arrived[Len(settled) + p] = (InPacket \o messages)[p]
    BY <1>1, <1>2
<1>4. packet # 0 => Len(InPacket \o messages) >= 1 /\ (InPacket \o messages)[1] = packet
    BY <1>1 DEF InPacket
<1> QED
    BY <1>1, <1>2, <1>3, <1>4, LenProperties

-----------------------------------------------------------------------------
(* NothingLost counts: no message arrives twice.                           *)

ArrivesOnce == \A p, q \in 1 .. Len(Arrived) : Arrived[p] = Arrived[q] => p = q

LEMMA UnionIsBounded ==
    ASSUME NEW S, NEW T, IsFiniteSet(S), IsFiniteSet(T)
    PROVE  /\ IsFiniteSet(S \cup T)
           /\ Cardinality(S \cup T) <= Cardinality(S) + Cardinality(T)
<1>1. /\ IsFiniteSet(S \cup T)
      /\ Cardinality(S \cup T) = Cardinality(S) + Cardinality(T) - Cardinality(S \cap T)
    BY FS_Union
<1>2. IsFiniteSet(S \cap T)
    BY FS_Subset
<1>3. /\ Cardinality(S) \in Nat /\ Cardinality(T) \in Nat /\ Cardinality(S \cap T) \in Nat
    BY <1>2, FS_CardinalityType
<1> QED
    BY <1>1, <1>3

LEMMA IntervalCounts ==
    ASSUME NEW n \in Nat
    PROVE  IsFiniteSet(1 .. n) /\ Cardinality(1 .. n) = n
<1>1. 1 \in Int /\ n \in Int
    OBVIOUS
<1>2. IsFiniteSet(1 .. n) /\ Cardinality(1 .. n) = IF 1 > n THEN 0 ELSE n - 1 + 1
    BY <1>1, FS_Interval
<1> QED
    BY <1>2

\* There are no more elements than places where they are found.
LEMMA PlacesBound ==
    ASSUME NEW s \in Seq(Nat), NEW R \in SUBSET (1 .. Len(s)),
           Elements(s) = {s[i] : i \in R}
    PROVE  /\ IsFiniteSet(R) /\ IsFiniteSet(Elements(s))
           /\ Cardinality(Elements(s)) <= Cardinality(R)
<1> DEFINE f == [i \in R |-> s[i]]
           T == Elements(s)
<1>1. IsFiniteSet(R)
    BY IntervalCounts, FS_Subset, LenProperties
<1>2. f \in Surjection(R, T)
    BY DEF Surjection
<1> HIDE DEF f, T
<1>3. IsFiniteSet(T) /\ Cardinality(T) <= Cardinality(R)
    BY <1>1, <1>2, FS_Surjection
<1> QED
    BY <1>1, <1>3 DEF T

LEMMA ElementsBound ==
    ASSUME NEW s \in Seq(Nat)
    PROVE  IsFiniteSet(Elements(s)) /\ Cardinality(Elements(s)) <= Len(s)
<1>1. /\ IsFiniteSet(Elements(s))
      /\ Cardinality(Elements(s)) <= Cardinality(1 .. Len(s))
    BY PlacesBound DEF Elements
<1> QED
    BY <1>1, IntervalCounts, LenProperties

LEMMA RepetitionBound ==
    ASSUME NEW s \in Seq(Nat), NEW p \in 1 .. Len(s), NEW q \in 1 .. Len(s),
           p # q, s[p] = s[q]
    PROVE  Cardinality(Elements(s)) <= Len(s) - 1
<1> DEFINE R == (1 .. Len(s)) \ {q}
<1>1. p \in R /\ R \in SUBSET (1 .. Len(s))
    OBVIOUS
<1>2. Elements(s) = {s[i] : i \in R}
    BY <1>1 DEF Elements
<1>3. Cardinality(Elements(s)) <= Cardinality(R)
    BY <1>1, <1>2, PlacesBound
<1>4. Cardinality(R) = Len(s) - 1
    <2>1. IsFiniteSet(1 .. Len(s)) /\ Cardinality(1 .. Len(s)) = Len(s)
        BY IntervalCounts, LenProperties
    <2> QED
        BY <2>1, FS_RemoveElement
<1> QED
    BY <1>3, <1>4

LEMMA CountsOnce ==
    ASSUME TypeOK, NothingLost
    PROVE  ArrivesOnce
<1> SUFFICES ASSUME NEW p \in 1 .. Len(Arrived), NEW q \in 1 .. Len(Arrived),
                    Arrived[p] = Arrived[q], p # q
             PROVE  FALSE
    BY DEF ArrivesOnce
<1>1. /\ Arrived \in Seq(Nat) /\ Len(Arrived) \in Nat
      /\ task_queue \in Seq(Nat) /\ Len(task_queue) \in Nat
      /\ task \in [Workers -> Nat] /\ Len(queued) \in Nat
    BY ArrivedType, LenProperties DEF TypeOK
<1>2. IsFiniteSet(Elements(Arrived)) /\ Cardinality(Elements(Arrived)) <= Len(Arrived) - 1
    BY <1>1, ElementsBound, RepetitionBound
<1>3. /\ IsFiniteSet(Elements(task_queue))
      /\ Cardinality(Elements(task_queue)) <= Len(task_queue)
    BY <1>1, ElementsBound
<1>4. IsFiniteSet(InHands) /\ Cardinality(InHands) <= Cardinality(Busy)
    <2> DEFINE hands == [w \in Busy |-> task[w]]
    <2>1. hands \in Surjection(Busy, InHands)
        BY <1>1 DEF Surjection, InHands, Busy
    <2> QED
        BY <2>1, BusyIsFinite, FS_Surjection
<1>5. /\ IsFiniteSet(Elements(task_queue) \cup InHands)
      /\ Cardinality(Elements(task_queue) \cup InHands)
             <= Cardinality(Elements(task_queue)) + Cardinality(InHands)
    BY <1>3, <1>4, UnionIsBounded
<1>6. Cardinality((Elements(task_queue) \cup InHands) \cup Elements(Arrived))
          <= Cardinality(Elements(task_queue) \cup InHands) + Cardinality(Elements(Arrived))
    BY <1>2, <1>5, UnionIsBounded
<1>7. Cardinality((Elements(task_queue) \cup InHands) \cup Elements(Arrived)) = Len(queued)
    <2>1. (Elements(task_queue) \cup InHands) \cup Elements(Arrived) = 1 .. Len(queued)
        BY DEF NothingLost
    <2> QED
        BY <1>1, <2>1, IntervalCounts
<1>8. Len(task_queue) + Cardinality(Busy) + Len(Arrived) = Len(queued)
    BY DEF NothingLost, Busy
<1>9. /\ Cardinality(Elements(task_queue)) \in Nat /\ Cardinality(InHands) \in Nat
      /\ Cardinality(Elements(Arrived)) \in Nat /\ Cardinality(Busy) \in Nat
      /\ Cardinality(Elements(task_queue) \cup InHands) \in Nat
    BY <1>2, <1>3, <1>4, <1>5, BusyIsFinite, FS_CardinalityType
<1> DEFINE waiting == Cardinality(Elements(task_queue))
           inHands == Cardinality(InHands)
           arrived == Cardinality(Elements(Arrived))
           both    == Cardinality(Elements(task_queue) \cup InHands)
           tasks   == Len(task_queue)
           busy    == Cardinality(Busy)
           places  == Len(Arrived)
<1>10. /\ waiting \in Nat /\ inHands \in Nat /\ arrived \in Nat /\ both \in Nat
       /\ tasks \in Nat /\ busy \in Nat /\ places \in Nat
    BY <1>1, <1>9
<1>11. /\ waiting <= tasks /\ inHands <= busy /\ arrived <= places - 1
       /\ both <= waiting + inHands
    BY <1>2, <1>3, <1>4, <1>5
<1>12. tasks + busy + places <= both + arrived
    BY <1>6, <1>7, <1>8
<1> HIDE DEF waiting, inHands, arrived, both, tasks, busy, places
<1> QED
    BY ONLY <1>10, <1>11, <1>12

\* No message gets to the putter twice, for any pool.
THEOREM NothingDoubled == Spec => []ArrivesOnce
<1>1. IndInv => ArrivesOnce
    BY CountsOnce DEF IndInv
<1> QED
    BY <1>1, IndAlways, PTL
=============================================================================
