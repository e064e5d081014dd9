------------------------------ MODULE MsgQueue ------------------------------
(***************************************************************************)
(* srvEngine.h: MsgQueue and MessageQueue, by which the thread that reads  *)
(* a connection (the producer, msgParse) hands its commands to the main    *)
(* loop of a server (the consumer, doCmd).  No lock is taken: the flag of  *)
(* a slot is the only word both write.  Commands that find no free slot    *)
(* go to an overflow queue, which the producer alone touches and which it  *)
(* moves into the array at its next put.                                   *)
(*                                                                         *)
(* A step is one access to the flag of a slot with the private work around *)
(* it.  The writes of a thread are seen in program order (volatile of the  *)
(* Visual C++ build).                                                      *)
(***************************************************************************)
EXTENDS Naturals, Sequences, FiniteSets

CONSTANTS Bufs,       \* the buffers the allocator can have out at once (a bound)
          None,       \* no buffer
          QueueSize   \* slots of the array, 102400 in the code

ASSUME MsgQueueAssumption == QueueSize \in Nat \ {0} /\ None \notin Bufs

VARIABLES first,      \* cmdQueue[i].first: the slot holds a command
          second,     \* cmdQueue[i].second: the buffer of the slot
          queueCmd,   \* the overflow queue
          queueWrite, \* next slot of the producer
          queueRead,  \* next slot of the consumer
          pc,         \* where the producer, or at the end the destructor, is
          buf,        \* the buffer put() has allocated
          busy,       \* the command cmdMsgParse runs on
          live        \* the buffers allocated and not deallocated

vars == <<first, second, queueCmd, queueWrite, queueRead, pc, buf, busy, live>>

Slots == 0 .. QueueSize - 1
After(i) == IF i = QueueSize - 1 THEN 0 ELSE i + 1 \* (++i) % QueueSize

\* what the destructor and the producer share: the overflow may move on
CanMove == queueCmd # <<>> /\ ~first[queueWrite]

TypeOK ==
  /\ first \in [Slots -> BOOLEAN]
  /\ second \in [Slots -> Bufs \cup {None}]
  /\ queueCmd \in Seq(Bufs)
  /\ queueWrite \in Slots /\ queueRead \in Slots
  /\ pc \in {"idle", "move", "moved", "written", "clear", "drain", "gone"}
  /\ buf \in Bufs \cup {None} /\ busy \in Bufs \cup {None}
  /\ live \in SUBSET Bufs

Empty ==
  /\ first = [i \in Slots |-> FALSE] /\ second = [i \in Slots |-> None]
  /\ queueCmd = <<>> /\ queueWrite = 0 /\ queueRead = 0
  /\ pc = "idle" /\ buf = None /\ busy = None

Init == Empty /\ live = {}

-----------------------------------------------------------------------------
(* the producer: put *)

PutBegin(b) ==
  /\ pc = "idle" /\ b \notin live
  /\ pc' = "move" /\ buf' = b /\ live' = live \cup {b}
  /\ UNCHANGED <<first, second, queueCmd, queueWrite, queueRead, busy>>

\* putQueueToArray: the oldest command of the overflow is copied to a free slot
MoveWrite ==
  /\ pc = "move" /\ CanMove
  /\ second' = [second EXCEPT ![queueWrite] = Head(queueCmd)]
  /\ pc' = "moved"
  /\ UNCHANGED <<first, queueCmd, queueWrite, queueRead, buf, busy, live>>

MovePublish ==
  /\ pc = "moved"
  /\ first' = [first EXCEPT ![queueWrite] = TRUE]
  /\ queueWrite' = After(queueWrite) /\ queueCmd' = Tail(queueCmd)
  /\ pc' = "move"
  /\ UNCHANGED <<second, queueRead, buf, busy, live>>

\* Seeded fault: a new command overtakes those in the overflow.
PutWriteAhead ==
  /\ pc = "move" /\ ~first[queueWrite]
  /\ second' = [second EXCEPT ![queueWrite] = buf]
  /\ pc' = "written"
  /\ UNCHANGED <<first, queueCmd, queueWrite, queueRead, buf, busy, live>>

\* nothing is left in the overflow and a slot is free: straight to the array
PutWrite ==
  /\ pc = "move" /\ queueCmd = <<>> /\ ~first[queueWrite]
  /\ second' = [second EXCEPT ![queueWrite] = buf]
  /\ pc' = "written"
  /\ UNCHANGED <<first, queueCmd, queueWrite, queueRead, buf, busy, live>>

PutPublish ==
  /\ pc = "written"
  /\ first' = [first EXCEPT ![queueWrite] = TRUE]
  /\ queueWrite' = After(queueWrite)
  /\ pc' = "idle" /\ buf' = None
  /\ UNCHANGED <<second, queueCmd, queueRead, busy, live>>

\* the array is full, with or without a remainder of the overflow
PutOverflow ==
  /\ pc = "move" /\ first[queueWrite]
  /\ queueCmd' = Append(queueCmd, buf)
  /\ pc' = "idle" /\ buf' = None
  /\ UNCHANGED <<first, second, queueWrite, queueRead, busy, live>>

-----------------------------------------------------------------------------
(* the consumer: doCmd, which the main loop calls again and again *)

Handle ==
  /\ busy = None /\ pc \notin {"clear", "drain", "gone"} /\ first[queueRead]
  /\ busy' = second[queueRead]
  /\ UNCHANGED <<first, second, queueCmd, queueWrite, queueRead, pc, buf, live>>

\* Seeded faults: the buffer is not freed; the index stays.
EraseSlotLeak ==
  /\ live' = live
  /\ first' = [first EXCEPT ![queueRead] = FALSE]
  /\ queueRead' = After(queueRead)

EraseSlotStay ==
  /\ live' = live \ {second[queueRead]}
  /\ first' = [first EXCEPT ![queueRead] = FALSE]
  /\ queueRead' = queueRead

\* erase: frees the buffer, then the slot
EraseSlot ==
  /\ live' = live \ {second[queueRead]}
  /\ first' = [first EXCEPT ![queueRead] = FALSE]
  /\ queueRead' = After(queueRead)

Erase ==
  /\ busy # None
  /\ EraseSlot /\ busy' = None
  /\ UNCHANGED <<second, queueCmd, queueWrite, pc, buf>>

-----------------------------------------------------------------------------
(* ~MsgQueue, when neither thread uses the object any more *)

Destroy ==
  /\ pc = "idle" /\ busy = None
  /\ pc' = "clear"
  /\ UNCHANGED <<first, second, queueCmd, queueWrite, queueRead, buf, busy, live>>

\* putQueueToArray returns whether commands are left in the overflow
ClearMove ==
  /\ pc = "clear" /\ CanMove
  /\ second' = [second EXCEPT ![queueWrite] = Head(queueCmd)]
  /\ first' = [first EXCEPT ![queueWrite] = TRUE]
  /\ queueWrite' = After(queueWrite) /\ queueCmd' = Tail(queueCmd)
  /\ UNCHANGED <<queueRead, pc, buf, busy, live>>

ClearStop ==
  /\ pc = "clear" /\ ~CanMove
  /\ pc' = "drain"
  /\ UNCHANGED <<first, second, queueCmd, queueWrite, queueRead, buf, busy, live>>

DrainErase ==
  /\ pc = "drain" /\ first[queueRead]
  /\ EraseSlot
  /\ UNCHANGED <<second, queueCmd, queueWrite, pc, buf, busy>>

\* the inner loop found the array empty: around again unless isLeft was false
DrainStop ==
  /\ pc = "drain" /\ ~first[queueRead]
  /\ pc' = IF queueCmd # <<>> THEN "clear" ELSE "gone"
  /\ UNCHANGED <<first, second, queueCmd, queueWrite, queueRead, buf, busy, live>>

\* another connection object is built
Construct ==
  /\ pc = "gone"
  /\ first' = [i \in Slots |-> FALSE] /\ second' = [i \in Slots |-> None]
  /\ queueCmd' = <<>> /\ queueWrite' = 0 /\ queueRead' = 0
  /\ pc' = "idle" /\ buf' = None /\ busy' = None
  /\ UNCHANGED live

Produce == MoveWrite \/ MovePublish \/ PutWrite \/ PutPublish \/ PutOverflow
Consume == Handle \/ Erase
Clear   == ClearMove \/ ClearStop \/ DrainErase \/ DrainStop

Next == (\E b \in Bufs : PutBegin(b)) \/ Produce \/ Consume \/ Destroy \/ Clear \/ Construct

Spec == Init /\ [][Next]_vars

\* Each thread runs on once it is inside a call; put() and the destructor are
\* called by choice.
LiveSpec == Spec /\ WF_vars(Produce) /\ WF_vars(Consume) /\ WF_vars(Clear)

-----------------------------------------------------------------------------
(* the queue the slots and the overflow stand for *)

Full == Cardinality({i \in Slots : first[i]})
Ring(k) == (queueRead + k - 1) % QueueSize
queue == [k \in 1 .. Full |-> second[Ring(k)]] \o queueCmd

Fifo == INSTANCE FifoQueue
          WITH queue <- queue, busy <- busy, closing <- pc \in {"clear", "drain", "gone"}

\* The lock-free ring with its overflow is a FIFO queue: whatever the two
\* threads interleave, each command put by msgParse is handled once and in the
\* order of the puts, also when commands have passed through the overflow.
RefinesFifo == Fifo!Spec

\* No command is read or freed twice and none leaks: the buffers allocated are
\* those in full slots, in the overflow and in the hands of put, each in one place.
BuffersAccounted ==
  LET inRing == {second[i] : i \in {j \in Slots : first[j]}}
      inOver == {queueCmd[k] : k \in DOMAIN queueCmd}
      inPut  == {buf} \ {None}
  IN  /\ TypeOK
      /\ live = inRing \cup inOver \cup inPut
      /\ Cardinality(live) = Full + Len(queueCmd) + Cardinality(inPut)

InSlot(b) == \E i \in Slots : first[i] /\ second[i] = b
InOverflow(b) == \E k \in DOMAIN queueCmd : queueCmd[k] = b

\* A command in a slot is handled (or dropped by the destructor), for the main
\* loop goes on calling doCmd.  One in the overflow is handled only if the
\* connection goes on sending: with puts again and again it leaves the overflow;
\* without a further put it stays there although the array is empty, for doCmd
\* never looks at the overflow.
Delivered ==
  /\ \A b \in Bufs : InSlot(b) ~> ~InSlot(b)
  /\ ([]<><<\E b \in Bufs : PutBegin(b)>>_vars) =>
       \A b \in Bufs : InOverflow(b) ~> ~InOverflow(b)
=============================================================================
