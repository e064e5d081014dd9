--------------------------- MODULE MsgQueueProofs ---------------------------
(***************************************************************************)
(* The ring with its overflow is a FIFO queue, and loses, leaks and reads  *)
(* twice no buffer, for a ring of any size and any number of buffers.      *)
(***************************************************************************)
EXTENDS MsgQueue, Integers, FiniteSetTheorems, TLAPS

Wrap(x) == IF x < QueueSize THEN x ELSE x - QueueSize

\* how far a slot is from the consumer, in the direction of the indices
Ahead(i) == IF i >= queueRead THEN i - queueRead ELSE i - queueRead + QueueSize

(***************************************************************************)
(* The inductive invariant.  The full slots are those from queueRead up to *)
(* queueWrite; a slot that has been written and not yet published is the   *)
(* next one, and holds what the producer is about to count as moved; what  *)
(* the consumer works on is the oldest.                                    *)
(***************************************************************************)
Layout(f) ==
  /\ queueWrite = Wrap(queueRead + f)
  /\ \A i \in Slots : first[i] <=> Ahead(i) < f

Filled == \A i \in Slots : first[i] => second[i] \in Bufs

Producer ==
  /\ buf # None <=> pc \in {"move", "moved", "written"}
  /\ pc = "moved" => queueCmd # <<>> /\ ~first[queueWrite] /\ second[queueWrite] = Head(queueCmd)
  /\ pc = "written" => queueCmd = <<>> /\ ~first[queueWrite] /\ second[queueWrite] = buf
  /\ pc = "gone" => queueCmd = <<>> /\ ~first[queueRead]

Consumer ==
  busy # None => /\ first[queueRead] /\ busy = second[queueRead]
                 /\ pc \notin {"clear", "drain", "gone"}

RingInv == TypeOK /\ (\E f \in 0 .. QueueSize : Layout(f)) /\ Filled /\ Producer /\ Consumer

-----------------------------------------------------------------------------
(* The index arithmetic.                                                   *)
LEMMA WrapIsMod ==
  ASSUME NEW x \in Nat, x < 2 * QueueSize
  PROVE  x % QueueSize = Wrap(x)
<1>1. QueueSize \in Nat \ {0}
      BY MsgQueueAssumption
<1>2. x < QueueSize => x % QueueSize = x
      BY <1>1
<1>3. x >= QueueSize => x % QueueSize = x - QueueSize
      BY <1>1
<1> QED BY <1>1, <1>2, <1>3 DEF Wrap

\* The k-th slot from the consumer's index on.
LEMMA RingIs ==
  ASSUME RingInv, NEW k \in 1 .. QueueSize
  PROVE  Ring(k) = Wrap(queueRead + (k - 1)) /\ Ring(k) \in Slots /\ Ahead(Ring(k)) = k - 1
<1>1. QueueSize \in Nat \ {0} /\ queueRead \in 0 .. QueueSize - 1
      BY MsgQueueAssumption DEF RingInv, TypeOK, Slots
<1>2. queueRead + k - 1 \in Nat /\ queueRead + k - 1 < 2 * QueueSize
      BY <1>1
<1>3. Ring(k) = Wrap(queueRead + k - 1)
      BY <1>2, WrapIsMod DEF Ring
<1> QED BY <1>1, <1>3 DEF Wrap, Ahead, Slots

(* The number of full slots is the distance between the two indices.       *)
LEMMA FullIs == RingInv => \A f \in 0 .. QueueSize : Layout(f) => Full = f
<1> SUFFICES ASSUME RingInv, NEW f \in 0 .. QueueSize, Layout(f) PROVE Full = f
    OBVIOUS
<1> DEFINE S == {i \in Slots : first[i]}
           g == [k \in 1 .. f |-> Ring(k)]
<1>1. QueueSize \in Nat \ {0} /\ queueRead \in 0 .. QueueSize - 1
      BY MsgQueueAssumption DEF RingInv, TypeOK, Slots
<1>2. \A k \in 1 .. f : Ring(k) \in S /\ Ahead(Ring(k)) = k - 1
      BY <1>1, RingIs DEF Layout
<1>3. \A i \in S : \E k \in 1 .. f : g[k] = i
      <2>1. SUFFICES ASSUME NEW i \in S PROVE \E k \in 1 .. f : g[k] = i
            OBVIOUS
      <2>2. i \in Slots /\ Ahead(i) < f /\ Ahead(i) \in Nat
            BY <1>1, <2>1 DEF Layout, Ahead, Slots
      <2>3. Ring(Ahead(i) + 1) = i
            <3>1. Ring(Ahead(i) + 1) = Wrap(queueRead + Ahead(i))
                  BY <1>1, <2>2, RingIs
            <3> QED BY <1>1, <2>2, <3>1 DEF Ahead, Wrap, Slots
      <2> QED BY <2>2, <2>3
<1>4. g \in Bijection(1 .. f, S)
      BY <1>2, <1>3 DEF Bijection, Injection, Surjection, IsInjective
<1>5. IsFiniteSet(1 .. f) /\ Cardinality(1 .. f) = f
      BY FS_Interval
<1>6. Cardinality(S) = f
      BY <1>4, <1>5, FS_Bijection DEF ExistsBijection
<1> QED BY <1>6 DEF Full

\* FullIs of the next state.
LEMMA FullIsNext == RingInv' => \A f \in 0 .. QueueSize : Layout(f)' => Full' = f
<1>1. (RingInv => \A f \in 0 .. QueueSize : Layout(f) => Full = f)'
      BY FullIs, PTL
<1> QED BY <1>1

-----------------------------------------------------------------------------
(* The length of a concatenation.                                          *)
LEMMA ConcatLen ==
  ASSUME NEW S, NEW s \in Seq(S), NEW t \in Seq(S) PROVE Len(s \o t) = Len(s) + Len(t)
OBVIOUS

(* What is in the queue, place by place.                                   *)
LEMMA QueueIs ==
  RingInv => /\ Full \in 0 .. QueueSize /\ Layout(Full)
             /\ queue \in Seq(Bufs) /\ Len(queue) = Full + Len(queueCmd)
             /\ \A k \in 1 .. Full : queue[k] = second[Ring(k)]
             /\ \A k \in 1 .. Len(queueCmd) : queue[Full + k] = queueCmd[k]
<1> SUFFICES ASSUME RingInv
             PROVE  /\ Full \in 0 .. QueueSize /\ Layout(Full)
                    /\ queue \in Seq(Bufs) /\ Len(queue) = Full + Len(queueCmd)
                    /\ \A k \in 1 .. Full : queue[k] = second[Ring(k)]
                    /\ \A k \in 1 .. Len(queueCmd) : queue[Full + k] = queueCmd[k]
    OBVIOUS
<1> DEFINE ring == [k \in 1 .. Full |-> second[Ring(k)]]
<1>1. Full \in 0 .. QueueSize /\ Layout(Full)
      BY FullIs DEF RingInv
<1>2. QueueSize \in Nat /\ queueCmd \in Seq(Bufs)
      BY MsgQueueAssumption DEF RingInv, TypeOK
<1>3. \A k \in 1 .. Full : second[Ring(k)] \in Bufs
      <2>1. SUFFICES ASSUME NEW k \in 1 .. Full PROVE second[Ring(k)] \in Bufs
            OBVIOUS
      <2>2. Ring(k) \in Slots /\ Ahead(Ring(k)) = k - 1
            BY <1>1, <1>2, RingIs
      <2>3. first[Ring(k)]
            BY <1>1, <2>2 DEF Layout
      <2> QED BY <2>2, <2>3 DEF RingInv, Filled
<1>4. ring \in Seq(Bufs) /\ Len(ring) = Full
      BY <1>1, <1>3
<1>5. queue = ring \o queueCmd
      BY DEF queue
<1> HIDE DEF ring
<1>6. /\ queue \in Seq(Bufs) /\ Len(queue) = Full + Len(queueCmd)
      /\ \A k \in 1 .. Full : queue[k] = ring[k]
      /\ \A k \in 1 .. Len(queueCmd) : queue[Full + k] = queueCmd[k]
      <2>1. queue \in Seq(Bufs) /\ Len(queue) = Full + Len(queueCmd)
            <3>1. queue \in Seq(Bufs)
                  BY <1>2, <1>4, <1>5
            <3>2. Len(queue) = Len(ring) + Len(queueCmd)
                  BY <1>2, <1>4, <1>5, ConcatLen
            <3> QED BY <1>4, <3>1, <3>2
      <2>2. \A k \in 1 .. Full : queue[k] = ring[k]
            BY <1>1, <1>2, <1>4, <1>5
      <2>3. \A k \in 1 .. Len(queueCmd) : queue[Full + k] = queueCmd[k]
            BY <1>1, <1>2, <1>4, <1>5
      <2> QED BY <2>1, <2>2, <2>3
<1> QED BY <1>1, <1>6 DEF ring

-----------------------------------------------------------------------------
(* How the two threads move the boundaries of the ring.                    *)
LEMMA PublishLayout ==
  ASSUME RingInv, NEW f \in 0 .. QueueSize, Layout(f), ~first[queueWrite], UNCHANGED queueRead,
         first' = [first EXCEPT ![queueWrite] = TRUE], queueWrite' = After(queueWrite)
  PROVE  /\ f < QueueSize /\ f + 1 \in 0 .. QueueSize /\ Layout(f + 1)'
         /\ queueWrite = Ring(f + 1) /\ queueWrite' \in Slots
<1>1. /\ QueueSize \in Nat \ {0} /\ queueRead \in 0 .. QueueSize - 1
      /\ queueWrite \in 0 .. QueueSize - 1
      /\ f \in 0 .. QueueSize /\ queueWrite = Wrap(queueRead + f)
      /\ \A i \in Slots : first[i] <=> Ahead(i) < f
      BY MsgQueueAssumption DEF RingInv, TypeOK, Slots, Layout
<1>2. f < QueueSize
      BY <1>1 DEF Wrap, Ahead, Slots
<1>3. queueWrite = Ring(f + 1)
      BY <1>1, <1>2, RingIs
<1>4. queueWrite' = Wrap(queueRead + (f + 1)) /\ queueWrite' \in Slots
      BY <1>1, <1>2 DEF Wrap, After, Slots
<1>5. \A i \in Slots : first'[i] <=> i = queueWrite \/ first[i]
      BY DEF RingInv, TypeOK
<1>6. \A i \in Slots : Ahead(i) = f <=> i = queueWrite
      BY <1>1, <1>2 DEF Wrap, Ahead, Slots
<1>7. \A i \in Slots : Ahead(i)' = Ahead(i) /\ Ahead(i) \in Nat
      BY <1>1 DEF Ahead, Slots
<1>8. \A i \in Slots : first'[i] <=> Ahead(i)' < f + 1
      BY <1>1, <1>5, <1>6, <1>7
<1> QED BY <1>1, <1>2, <1>3, <1>4, <1>8 DEF Layout, Wrap

\* The consumer frees the oldest slot and goes on to the next.
LEMMA FreeLayout ==
  ASSUME RingInv, NEW f \in 0 .. QueueSize, Layout(f), first[queueRead], UNCHANGED queueWrite,
         first' = [first EXCEPT ![queueRead] = FALSE], queueRead' = After(queueRead)
  PROVE  /\ f - 1 \in 0 .. QueueSize /\ Layout(f - 1)'
         /\ queueRead = Ring(1) /\ queueRead' \in Slots
<1>1. /\ QueueSize \in Nat \ {0} /\ queueRead \in 0 .. QueueSize - 1
      /\ queueWrite \in 0 .. QueueSize - 1
      /\ f \in 0 .. QueueSize /\ queueWrite = Wrap(queueRead + f)
      /\ \A i \in Slots : first[i] <=> Ahead(i) < f
      BY MsgQueueAssumption DEF RingInv, TypeOK, Slots, Layout
<1>2. f > 0
      BY <1>1 DEF Ahead, Slots
<1>3. queueRead = Ring(1)
      BY <1>1, <1>2, RingIs DEF Wrap
<1>4. queueRead' \in 0 .. QueueSize - 1 /\ queueWrite = Wrap(queueRead' + (f - 1))
      BY <1>1, <1>2 DEF Wrap, After
<1>5. \A i \in Slots : first'[i] <=> i # queueRead /\ first[i]
      BY DEF RingInv, TypeOK
<1>6. \A i \in Slots : i # queueRead => Ahead(i)' = Ahead(i) - 1
      BY <1>1 DEF Ahead, Slots, After
<1>7. \A i \in Slots : i = queueRead => Ahead(i)' = QueueSize - 1
      BY <1>1 DEF Ahead, After
<1>8. \A i \in Slots : Ahead(i) \in Nat
      BY <1>1 DEF Ahead, Slots
<1>9. \A i \in Slots : first'[i] <=> Ahead(i)' < f - 1
      BY <1>1, <1>5, <1>6, <1>7, <1>8
<1> QED BY <1>1, <1>2, <1>3, <1>4, <1>9 DEF Layout, Wrap, Slots

\* Where nothing moves, nothing changes.
LEMMA SameLayout ==
  ASSUME RingInv, UNCHANGED <<first, queueWrite, queueRead>>
  PROVE  \E f \in 0 .. QueueSize : Layout(f)'
BY DEF RingInv, Layout, Ahead

(* The ring is laid out as RingInv says at the start.                      *)
LEMMA InitRing == Init => RingInv
<1> SUFFICES ASSUME Init PROVE RingInv
    OBVIOUS
<1> USE MsgQueueAssumption DEF Init, Empty
<1>1. TypeOK
      BY DEF TypeOK, Slots
<1>2. Layout(0)
      BY DEF Layout, Ahead, Slots, Wrap
<1>3. Filled /\ Producer /\ Consumer
      BY DEF Filled, Producer, Consumer, Slots
<1> QED BY <1>1, <1>2, <1>3 DEF RingInv

(* Each step keeps it.  The steps that leave first and the indices alone:  *)
LEMMA StillRing ==
  ASSUME RingInv,
         \/ \E b \in Bufs : PutBegin(b)
         \/ MoveWrite \/ PutWrite \/ PutOverflow \/ Handle \/ Destroy \/ ClearStop \/ DrainStop
  PROVE  RingInv'
<1> USE DEF RingInv
<1>1. UNCHANGED <<first, queueWrite, queueRead>>
      BY DEF PutBegin, MoveWrite, PutWrite, PutOverflow, Handle, Destroy, ClearStop, DrainStop
<1>2. \E f \in 0 .. QueueSize : Layout(f)'
      BY <1>1, SameLayout
<1>3. queueCmd # <<>> => Head(queueCmd) \in Bufs
      BY DEF TypeOK
<1>4. \A b \in Bufs : b # None
      BY MsgQueueAssumption
<1>5. ASSUME NEW b \in Bufs, PutBegin(b) PROVE RingInv'
      <2>1. TypeOK'
            BY <1>5 DEF PutBegin, TypeOK
      <2>2. Filled' /\ Producer' /\ Consumer'
            BY <1>4, <1>5 DEF PutBegin, Filled, Producer, Consumer
      <2> QED BY <1>2, <2>1, <2>2
<1>6. CASE MoveWrite
      <2>1. TypeOK'
            BY <1>3, <1>6 DEF MoveWrite, CanMove, TypeOK
      <2>2. Filled'
            BY <1>3, <1>6 DEF MoveWrite, CanMove, TypeOK, Filled
      <2>3. Producer'
            BY <1>6 DEF MoveWrite, CanMove, TypeOK, Producer
      <2>4. Consumer'
            BY <1>6 DEF MoveWrite, CanMove, TypeOK, Consumer
      <2> QED BY <1>2, <2>1, <2>2, <2>3, <2>4
<1>7. CASE PutWrite
      <2>1. buf \in Bufs
            BY <1>7 DEF PutWrite, Producer, TypeOK
      <2>2. TypeOK'
            BY <1>7, <2>1 DEF PutWrite, TypeOK
      <2>3. Filled'
            BY <1>7, <2>1 DEF PutWrite, TypeOK, Filled
      <2>4. Producer' /\ Consumer'
            BY <1>7 DEF PutWrite, TypeOK, Producer, Consumer
      <2> QED BY <1>2, <2>2, <2>3, <2>4
<1>8. CASE PutOverflow
      <2>1. buf \in Bufs
            BY <1>8 DEF PutOverflow, Producer, TypeOK
      <2>2. TypeOK'
            BY <1>8, <2>1 DEF PutOverflow, TypeOK
      <2>3. Filled' /\ Producer' /\ Consumer'
            BY <1>8 DEF PutOverflow, Filled, Producer, Consumer
      <2> QED BY <1>2, <2>2, <2>3
<1>9. CASE Handle
      <2>1. second[queueRead] \in Bufs
            BY <1>9 DEF Handle, Filled, TypeOK
      <2>2. TypeOK'
            BY <1>9, <2>1 DEF Handle, TypeOK
      <2>3. Filled' /\ Producer' /\ Consumer'
            BY <1>9 DEF Handle, Filled, Producer, Consumer
      <2> QED BY <1>2, <2>2, <2>3
<1>10. CASE Destroy \/ ClearStop \/ DrainStop
      <2>1. TypeOK'
            BY <1>10 DEF Destroy, ClearStop, DrainStop, TypeOK
      <2>2. Filled'
            BY <1>10 DEF Destroy, ClearStop, DrainStop, Filled
      <2>3. Producer' /\ Consumer'
            BY <1>10 DEF Destroy, ClearStop, DrainStop, Producer, Consumer
      <2> QED BY <1>2, <2>1, <2>2, <2>3
<1> QED BY <1>5, <1>6, <1>7, <1>8, <1>9, <1>10

\* The producer fills the next slot.
LEMMA PublishRing ==
  ASSUME RingInv, MovePublish \/ PutPublish \/ ClearMove PROVE RingInv'
<1> USE DEF RingInv
<1>1. /\ ~first[queueWrite] /\ UNCHANGED <<queueRead, busy, live>>
      /\ first' = [first EXCEPT ![queueWrite] = TRUE] /\ queueWrite' = After(queueWrite)
      BY DEF MovePublish, PutPublish, ClearMove, CanMove, Producer
<1>2. /\ \E f \in 0 .. QueueSize : Layout(f)'
      /\ queueWrite' \in Slots
      BY <1>1, PublishLayout, MsgQueueAssumption
<1>3. queueCmd # <<>> => Head(queueCmd) \in Bufs /\ Tail(queueCmd) \in Seq(Bufs)
      BY DEF TypeOK
<1>4. second'[queueWrite] \in Bufs /\ (second' = second \/ second' = [second EXCEPT ![queueWrite] = Head(queueCmd)])
      <2>1. CASE MovePublish
            BY <1>3, <2>1 DEF MovePublish, Producer
      <2>2. CASE PutPublish
            BY <2>2 DEF PutPublish, Producer, TypeOK
      <2>3. CASE ClearMove
            BY <1>3, <2>3 DEF ClearMove, CanMove, TypeOK
      <2> QED BY <2>1, <2>2, <2>3
<1>5. \A i \in Slots : i # queueWrite => first'[i] = first[i] /\ second'[i] = second[i]
      BY <1>1, <1>4 DEF TypeOK
<1>6. TypeOK'
      <2>1. first' \in [Slots -> BOOLEAN] /\ second' \in [Slots -> Bufs \cup {None}]
            BY <1>1, <1>3, <1>4 DEF TypeOK, ClearMove, CanMove, MovePublish, PutPublish
      <2>2. queueCmd' \in Seq(Bufs) /\ buf' \in Bufs \cup {None}
            BY <1>3 DEF TypeOK, MovePublish, PutPublish, ClearMove, CanMove, Producer
      <2>3. pc' \in {"idle", "move", "moved", "written", "clear", "drain", "gone"}
            BY DEF TypeOK, MovePublish, PutPublish, ClearMove
      <2> QED BY <1>1, <1>2, <2>1, <2>2, <2>3 DEF TypeOK
<1>7. Filled'
      BY <1>4, <1>5 DEF Filled
<1>8. Producer'
      BY DEF MovePublish, PutPublish, ClearMove, Producer
<1>9. Consumer'
      BY <1>1, <1>5 DEF TypeOK, MovePublish, PutPublish, ClearMove, Consumer
<1> QED BY <1>2, <1>6, <1>7, <1>8, <1>9

\* The consumer, or the destructor, frees the oldest slot.
LEMMA FreeRing ==
  ASSUME RingInv, Erase \/ DrainErase PROVE RingInv'
<1> USE DEF RingInv
<1>1. /\ first[queueRead] /\ UNCHANGED <<second, queueCmd, queueWrite, pc, buf>>
      /\ first' = [first EXCEPT ![queueRead] = FALSE] /\ queueRead' = After(queueRead)
      /\ live' \subseteq live /\ busy' = None
      BY DEF Erase, DrainErase, EraseSlot, Consumer
<1>2. /\ \E f \in 0 .. QueueSize : Layout(f)'
      /\ queueRead' \in Slots
      <2>1. PICK f \in 0 .. QueueSize : Layout(f)
            OBVIOUS
      <2> QED BY <1>1, <2>1, FreeLayout
<1>3. \A i \in Slots : first'[i] => first[i]
      BY <1>1 DEF TypeOK
<1>4. TypeOK'
      BY <1>1, <1>2 DEF TypeOK
<1>5. Filled'
      BY <1>1, <1>3 DEF Filled
<1>6. Producer'
      BY <1>1, <1>3 DEF Producer, TypeOK, Erase, DrainErase, Consumer
<1>7. Consumer'
      BY <1>1 DEF Consumer
<1> QED BY <1>2, <1>4, <1>5, <1>6, <1>7

\* The ring's invariant is inductive.
LEMMA NextRing == RingInv /\ [Next]_vars => RingInv'
<1> SUFFICES ASSUME RingInv, [Next]_vars PROVE RingInv'
    OBVIOUS
<1>1. CASE Construct
      <2> USE <1>1, MsgQueueAssumption DEF Construct
      <2>1. TypeOK'
            BY DEF RingInv, TypeOK, Slots
      <2>2. Layout(0)'
            BY DEF Layout, Ahead, Slots, Wrap
      <2>3. Filled' /\ Producer' /\ Consumer'
            BY DEF Filled, Producer, Consumer, Slots
      <2> QED BY <2>1, <2>2, <2>3 DEF RingInv
<1>2. CASE UNCHANGED vars
      BY <1>2 DEF vars, RingInv, TypeOK, Layout, Ahead, Filled, Producer, Consumer
<1> QED BY <1>1, <1>2, StillRing, PublishRing, FreeRing DEF Next, Produce, Consume, Clear

-----------------------------------------------------------------------------
(***************************************************************************)
(* What each step does to the queue that the ring and the overflow are.    *)
(***************************************************************************)
LEMMA SameSeq ==
  ASSUME NEW S, NEW s \in Seq(S), NEW t \in Seq(S), Len(s) = Len(t),
         \A k \in 1 .. Len(s) : s[k] = t[k]
  PROVE  s = t
OBVIOUS

\* A slot that is written before it is published is not one of the queue's.
LEMMA UnseenWrite ==
  ASSUME RingInv, UNCHANGED <<first, queueRead, queueCmd>>,
         \A i \in Slots : first[i] => second'[i] = second[i]
  PROVE  queue' = queue
<1>1. Full' = Full /\ Full \in 0 .. QueueSize /\ Layout(Full)
      BY QueueIs DEF Full
<1>2. \A k \in 1 .. Full : Ring(k)' = Ring(k) /\ second'[Ring(k)] = second[Ring(k)]
      <2>1. SUFFICES ASSUME NEW k \in 1 .. Full PROVE Ring(k)' = Ring(k) /\ second'[Ring(k)] = second[Ring(k)]
            OBVIOUS
      <2>2. k \in 1 .. QueueSize
            BY <1>1, MsgQueueAssumption
      <2>3. first[Ring(k)] /\ Ring(k) \in Slots
            BY <1>1, <2>2, RingIs DEF Layout
      <2> QED BY <2>3 DEF Ring
<1> QED BY <1>1, <1>2 DEF queue

\* Writing a slot, handling one and the steps of the destructor leave the abstract queue as it is.
LEMMA StillQueue ==
  ASSUME RingInv,
         \/ \E b \in Bufs : PutBegin(b)
         \/ MoveWrite \/ PutWrite \/ Handle \/ Destroy \/ ClearStop \/ DrainStop
  PROVE  queue' = queue
<1>1. UNCHANGED <<first, queueRead, queueCmd>>
      BY DEF PutBegin, MoveWrite, PutWrite, Handle, Destroy, ClearStop, DrainStop
<1>2. \A i \in Slots : first[i] => second'[i] = second[i]
      BY DEF RingInv, TypeOK, PutBegin, MoveWrite, CanMove, PutWrite, Handle, Destroy, ClearStop, DrainStop
<1> QED BY <1>1, <1>2, UnseenWrite

\* A slot that is published: the queue goes on as before with it.
LEMMA PublishQueue ==
  ASSUME RingInv, NEW f \in 0 .. QueueSize, Layout(f), MovePublish \/ PutPublish \/ ClearMove
  PROVE  /\ Full = f /\ Full' = f + 1
         /\ \A k \in 1 .. f + 1 : Ring(k)' = Ring(k)
         /\ \A k \in 1 .. f : second'[Ring(k)] = second[Ring(k)]
         /\ second'[Ring(f + 1)] = IF PutPublish THEN buf ELSE Head(queueCmd)
<1>1. /\ ~first[queueWrite] /\ UNCHANGED queueRead
      /\ first' = [first EXCEPT ![queueWrite] = TRUE] /\ queueWrite' = After(queueWrite)
      BY DEF RingInv, MovePublish, PutPublish, ClearMove, CanMove, Producer
<1>2. Full = f /\ QueueSize \in Nat
      BY FullIs, MsgQueueAssumption
<1>3. Layout(f + 1)' /\ f + 1 \in 0 .. QueueSize /\ queueWrite = Ring(f + 1)
      BY <1>1, PublishLayout
<1>4. Full' = f + 1
      <2>1. RingInv'
            BY PublishRing
      <2> QED BY <1>3, <2>1, FullIsNext
<1>5. \A k \in 1 .. f + 1 : Ring(k)' = Ring(k)
      BY <1>1 DEF Ring
<1>6. \A k \in 1 .. f : second'[Ring(k)] = second[Ring(k)]
      <2>1. SUFFICES ASSUME NEW k \in 1 .. f PROVE second'[Ring(k)] = second[Ring(k)]
            OBVIOUS
      <2>2. first[Ring(k)] /\ Ring(k) \in Slots
            BY <1>2, RingIs DEF Layout
      <2> QED BY <1>1, <2>2 DEF MovePublish, PutPublish, ClearMove, RingInv, TypeOK
<1>7. second'[queueWrite] = IF PutPublish THEN buf ELSE Head(queueCmd)
      <2>1. CASE MovePublish
            BY <2>1 DEF MovePublish, PutPublish, RingInv, Producer
      <2>2. CASE PutPublish
            BY <2>2 DEF PutPublish, RingInv, Producer
      <2>3. CASE ClearMove
            BY <2>3 DEF ClearMove, PutPublish, RingInv, TypeOK
      <2> QED BY <2>1, <2>2, <2>3
<1> QED BY <1>2, <1>3, <1>4, <1>5, <1>6, <1>7

\* QueueIs of the next state.
LEMMA QueueIsNext ==
  RingInv' => /\ queue' \in Seq(Bufs) /\ Len(queue') = Full' + Len(queueCmd')
              /\ \A k \in 1 .. Full' : queue'[k] = second'[Ring(k)']
              /\ \A k \in 1 .. Len(queueCmd') : queue'[Full' + k] = queueCmd'[k]
<1>1. (RingInv => /\ queue \in Seq(Bufs) /\ Len(queue) = Full + Len(queueCmd)
                  /\ \A k \in 1 .. Full : queue[k] = second[Ring(k)]
                  /\ \A k \in 1 .. Len(queueCmd) : queue[Full + k] = queueCmd[k])'
      BY QueueIs, PTL
<1> QED BY <1>1

\* A command moves from the overflow to the ring, or from put straight into it.
LEMMA MoveQueue == ASSUME RingInv, MovePublish \/ ClearMove PROVE queue' = queue
<1>1. PICK f \in 0 .. QueueSize : Layout(f)
      BY DEF RingInv
<1>2. queueCmd # <<>> /\ queueCmd' = Tail(queueCmd) /\ queueCmd \in Seq(Bufs) /\ ~PutPublish
      BY DEF RingInv, TypeOK, MovePublish, ClearMove, CanMove, Producer, PutPublish
<1> DEFINE n == Len(queueCmd)
<1>3. /\ n \in Nat \ {0} /\ Len(queueCmd') = n - 1 /\ Head(queueCmd) = queueCmd[1]
      /\ \A k \in 1 .. n - 1 : queueCmd'[k] = queueCmd[k + 1]
      BY <1>2
<1>4. /\ Full = f /\ Full' = f + 1 /\ f \in Nat
      /\ \A k \in 1 .. f : second'[Ring(k)'] = second[Ring(k)]
      /\ second'[Ring(f + 1)'] = queueCmd[1]
      <2>1. QueueSize \in Nat /\ \A k \in 1 .. f : k \in 1 .. f + 1
            BY MsgQueueAssumption
      <2>2. f + 1 \in 1 .. f + 1
            BY <2>1
      <2>3. (\A k \in 1 .. f + 1 : Ring(k)' = Ring(k)) /\ second'[Ring(f + 1)] = queueCmd[1]
            BY <1>1, <1>2, <1>3, PublishQueue
      <2> QED BY <1>1, <2>1, <2>2, <2>3, PublishQueue
<1>5. RingInv'
      BY PublishRing
<1>6. /\ queue' \in Seq(Bufs) /\ Len(queue') = f + n
      /\ \A k \in 1 .. f : queue'[k] = second[Ring(k)]
      /\ queue'[f + 1] = queueCmd[1]
      /\ \A k \in 1 .. n - 1 : queue'[f + 1 + k] = queueCmd[k + 1]
      BY <1>3, <1>4, <1>5, QueueIsNext
<1>7. /\ queue \in Seq(Bufs) /\ Len(queue) = f + n
      /\ \A k \in 1 .. f : queue[k] = second[Ring(k)]
      /\ \A k \in 1 .. n : queue[f + k] = queueCmd[k]
      BY <1>4, QueueIs
<1>8. \A k \in 1 .. f + n : queue'[k] = queue[k]
      <2>1. SUFFICES ASSUME NEW k \in 1 .. f + n PROVE queue'[k] = queue[k]
            OBVIOUS
      <2>2. CASE k <= f
            BY <1>4, <1>6, <1>7, <2>2
      <2>3. CASE k = f + 1
            BY <1>3, <1>4, <1>6, <1>7, <2>3
      <2>4. CASE k > f + 1
            <3>1. k - f - 1 \in 1 .. n - 1 /\ k - f \in 1 .. n
                  BY <1>3, <1>4, <2>4
            <3>2. queue'[f + 1 + (k - f - 1)] = queueCmd[(k - f - 1) + 1]
                  BY <1>6, <3>1
            <3>3. queue[f + (k - f)] = queueCmd[k - f]
                  BY <1>7, <3>1
            <3>4. f + 1 + (k - f - 1) = k /\ f + (k - f) = k /\ (k - f - 1) + 1 = k - f
                  BY <1>3, <1>4
            <3> QED BY <3>2, <3>3, <3>4
      <2> QED BY <1>3, <1>4, <2>2, <2>3, <2>4
<1> QED BY <1>6, <1>7, <1>8, SameSeq

\* Publishing a slot, or the overflow, appends the buffer to the abstract queue.
LEMMA PutQueue ==
  ASSUME RingInv, PutPublish \/ PutOverflow
  PROVE  buf \in Bufs /\ queue' = Append(queue, buf)
<1>1. buf \in Bufs
      BY DEF RingInv, TypeOK, PutPublish, PutOverflow, Producer
<1> DEFINE n == Len(queue)
<1>2. n \in Nat /\ queue \in Seq(Bufs)
      BY QueueIs
<1>3. /\ Append(queue, buf) \in Seq(Bufs) /\ Len(Append(queue, buf)) = n + 1
      /\ \A k \in 1 .. n : Append(queue, buf)[k] = queue[k]
      /\ Append(queue, buf)[n + 1] = buf
      BY <1>1, <1>2
<1>4. CASE PutPublish
      <2>1. PICK f \in 0 .. QueueSize : Layout(f)
            BY DEF RingInv
      <2>2. queueCmd = <<>> /\ queueCmd' = <<>> /\ RingInv' /\ f \in Nat
            BY <1>4, PublishRing, MsgQueueAssumption DEF RingInv, PutPublish, Producer
      <2>3. /\ Full = f /\ Full' = f + 1
            /\ \A k \in 1 .. f : second'[Ring(k)'] = second[Ring(k)]
            /\ second'[Ring(f + 1)'] = buf
            <3>1. (\A k \in 1 .. f : k \in 1 .. f + 1) /\ f + 1 \in 1 .. f + 1
                  BY <2>2
            <3>2. (\A k \in 1 .. f + 1 : Ring(k)' = Ring(k)) /\ second'[Ring(f + 1)] = buf
                  BY <1>4, <2>1, PublishQueue
            <3> QED BY <1>4, <2>1, <3>1, <3>2, PublishQueue
      <2>4. /\ n = f /\ \A k \in 1 .. f : queue[k] = second[Ring(k)]
            BY <2>2, <2>3, QueueIs
      <2>5. /\ queue' \in Seq(Bufs) /\ Len(queue') = f + 1
            /\ \A k \in 1 .. f + 1 : queue'[k] = second'[Ring(k)']
            BY <2>2, <2>3, QueueIsNext
      <2>6. \A k \in 1 .. f + 1 : queue'[k] = Append(queue, buf)[k]
            BY <1>3, <2>2, <2>3, <2>4, <2>5
      <2> QED BY <1>1, <1>3, <2>4, <2>5, <2>6, SameSeq
<1>5. CASE PutOverflow
      <2> DEFINE r == [k \in 1 .. Full |-> second[Ring(k)]]
      <2>1. Full' = Full /\ queueCmd' = Append(queueCmd, buf) /\ \A k \in 1 .. Full : second'[Ring(k)'] = second[Ring(k)]
            BY <1>5 DEF PutOverflow, Full, Ring
      <2>2. queue' = r \o Append(queueCmd, buf)
            BY <2>1 DEF queue
      <2>3. r \in Seq(Bufs)
            <3>1. Full \in Nat /\ \A k \in 1 .. Full : queue[k] \in Bufs
                  BY <1>2, QueueIs, MsgQueueAssumption
            <3> QED BY <3>1, QueueIs
      <2>4. queue = r \o queueCmd /\ queueCmd \in Seq(Bufs)
            BY DEF queue, RingInv, TypeOK
      <2> HIDE DEF r
      <2> QED BY <1>1, <2>2, <2>3, <2>4
<1> QED BY <1>1, <1>4, <1>5

\* The oldest command leaves.
LEMMA FreeQueue ==
  ASSUME RingInv, Erase \/ DrainErase
  PROVE  queue # <<>> /\ Head(queue) = second[queueRead] /\ queue' = Tail(queue)
<1>1. /\ first[queueRead] /\ UNCHANGED <<second, queueCmd, queueWrite>>
      /\ first' = [first EXCEPT ![queueRead] = FALSE] /\ queueRead' = After(queueRead)
      BY DEF Erase, DrainErase, EraseSlot, RingInv, Consumer
<1>2. PICK f \in 0 .. QueueSize : Layout(f)
      BY DEF RingInv
<1>3. /\ f - 1 \in 0 .. QueueSize /\ Layout(f - 1)' /\ queueRead = Ring(1)
      BY <1>1, <1>2, FreeLayout
<1>4. RingInv' /\ Full = f /\ Full' = f - 1 /\ f \in Nat \ {0}
      <2>1. RingInv'
            BY FreeRing
      <2>2. Full' = f - 1
            BY <1>3, <2>1, FullIsNext
      <2>3. Full = f
            BY <1>2, FullIs
      <2>4. f \in Nat \ {0}
            BY <1>3, MsgQueueAssumption
      <2> QED BY <2>1, <2>2, <2>3, <2>4
<1>5. \A k \in 1 .. f - 1 : Ring(k)' = Ring(k + 1)
      <2>1. SUFFICES ASSUME NEW k \in 1 .. f - 1 PROVE Ring(k)' = Ring(k + 1)
            OBVIOUS
      <2>2. QueueSize \in Nat \ {0} /\ k \in 1 .. QueueSize /\ k + 1 \in 1 .. QueueSize
            BY <1>3, <1>4, MsgQueueAssumption
      <2>3. Ring(k + 1) = Wrap(queueRead + k)
            BY <2>2, RingIs
      <2>4. queueRead \in 0 .. QueueSize - 1 /\ queueRead' \in 0 .. QueueSize - 1
            BY <1>4 DEF RingInv, TypeOK, Slots
      <2>5. Ring(k)' = Wrap(queueRead' + (k - 1))
            <3>1. Ring(k)' = (queueRead' + k - 1) % QueueSize
                  BY DEF Ring
            <3> DEFINE r == queueRead'
            <3>2. r \in 0 .. QueueSize - 1
                  BY <2>4
            <3> HIDE DEF r
            <3>3. r + k - 1 \in Nat /\ r + k - 1 < 2 * QueueSize /\ r + k - 1 = r + (k - 1)
                  BY <2>2, <3>2
            <3>4. (r + k - 1) % QueueSize = Wrap(r + (k - 1))
                  BY <3>3, WrapIsMod
            <3> QED BY <3>1, <3>4 DEF r
      <2> QED BY <1>1, <2>2, <2>3, <2>4, <2>5 DEF Wrap, After
<1> DEFINE n == Len(queueCmd)
<1>6. n \in Nat
      BY DEF RingInv, TypeOK
<1>7. /\ queue \in Seq(Bufs) /\ Len(queue) = f + n
      /\ \A k \in 1 .. f : queue[k] = second[Ring(k)]
      /\ \A k \in 1 .. n : queue[f + k] = queueCmd[k]
      BY <1>4, QueueIs
<1>8. /\ queue' \in Seq(Bufs) /\ Len(queue') = f - 1 + n
      /\ \A k \in 1 .. f - 1 : queue'[k] = second[Ring(k + 1)]
      /\ \A k \in 1 .. n : queue'[f - 1 + k] = queueCmd[k]
      BY <1>1, <1>4, <1>5, QueueIsNext
<1>9. /\ queue # <<>> /\ Head(queue) = queue[1] /\ Tail(queue) \in Seq(Bufs)
      /\ Len(Tail(queue)) = f - 1 + n
      /\ \A k \in 1 .. f - 1 + n : Tail(queue)[k] = queue[k + 1]
      BY <1>4, <1>6, <1>7
<1>10. Head(queue) = second[queueRead]
      BY <1>3, <1>4, <1>7, <1>9
<1>11. \A k \in 1 .. f - 1 + n : queue'[k] = queue[k + 1]
      <2>1. SUFFICES ASSUME NEW k \in 1 .. f - 1 + n PROVE queue'[k] = queue[k + 1]
            OBVIOUS
      <2>2. CASE k <= f - 1
            <3>1. k \in 1 .. f - 1 /\ k + 1 \in 1 .. f
                  BY <1>4, <1>6, <2>2
            <3> QED BY <1>7, <1>8, <3>1
      <2>3. CASE k > f - 1
            <3>1. k - (f - 1) \in 1 .. n
                  BY <1>4, <1>6, <2>3
            <3>2. queue'[f - 1 + (k - (f - 1))] = queueCmd[k - (f - 1)]
                  BY <1>8, <3>1
            <3>3. queue[f + (k - (f - 1))] = queueCmd[k - (f - 1)]
                  BY <1>7, <3>1
            <3> QED BY <1>4, <1>6, <3>1, <3>2, <3>3
      <2> QED BY <1>4, <1>6, <2>2, <2>3
<1> QED BY <1>8, <1>9, <1>10, <1>11, SameSeq

\* An empty ring and overflow are the empty queue.
LEMMA NoneQueue == ASSUME RingInv, queueCmd = <<>>, ~first[queueRead] PROVE queue = <<>>
<1>1. queueCmd = <<>> /\ ~first[queueRead]
      OBVIOUS
<1>2. Full \in 0 .. QueueSize /\ Layout(Full) /\ queue \in Seq(Bufs) /\ Len(queue) = Full + Len(queueCmd)
      BY QueueIs
<1>3. Full = 0
      BY <1>1, <1>2, MsgQueueAssumption DEF RingInv, TypeOK, Layout, Ahead, Slots
<1> QED BY <1>1, <1>2, <1>3

\* NoneQueue of the next state.
LEMMA NoneQueueNext == RingInv' /\ queueCmd' = <<>> /\ ~first'[queueRead'] => queue' = <<>>
<1>1. (RingInv /\ queueCmd = <<>> /\ ~first[queueRead] => queue = <<>>)'
      BY NoneQueue, PTL
<1> QED BY <1>1

\* After the destructor the abstract queue is empty.
LEMMA EmptyQueue == ASSUME RingInv, pc = "gone" PROVE queue = <<>>
BY NoneQueue DEF RingInv, Producer

\* It starts empty,
LEMMA InitQueue == ASSUME Init PROVE queue = <<>>
<1>1. queueCmd = <<>> /\ ~first[queueRead]
      BY MsgQueueAssumption DEF Init, Empty, Slots
<1> QED BY <1>1, InitRing, NoneQueue

\* and is so when the queue is made anew.
LEMMA ConstructQueue == ASSUME RingInv, Construct PROVE queue' = <<>>
<1>1. RingInv'
      BY NextRing DEF Next
<1>2. queueCmd' = <<>> /\ ~first'[queueRead']
      BY MsgQueueAssumption DEF Construct, Slots
<1> QED BY <1>1, <1>2, NoneQueueNext

-----------------------------------------------------------------------------
(***************************************************************************)
(* The refinement: each step of the two threads is a step of FifoQueue on  *)
(* the queue they stand for, or none.                                      *)
(***************************************************************************)
\* What the consumer takes is the oldest command.
LEMMA HeadIs == ASSUME RingInv, first[queueRead] PROVE queue # <<>> /\ Head(queue) = second[queueRead]
<1>1. Full \in 0 .. QueueSize /\ Layout(Full) /\ queue \in Seq(Bufs) /\ Len(queue) = Full + Len(queueCmd)
      BY QueueIs
<1>2. QueueSize \in Nat \ {0} /\ queueRead \in 0 .. QueueSize - 1 /\ Len(queueCmd) \in Nat
      BY MsgQueueAssumption DEF RingInv, TypeOK, Slots
<1>3. Full > 0
      BY <1>1, <1>2 DEF Layout, Ahead, Slots
<1>4. Ring(1) = queueRead
      BY <1>2, RingIs DEF Wrap
<1>5. queue[1] = second[queueRead]
      BY <1>1, <1>3, <1>4, QueueIs
<1> QED BY <1>1, <1>2, <1>3, <1>5

\* Every step of the ring is a step of the FIFO queue or none.
LEMMA FifoStep == ASSUME RingInv, [Next]_vars PROVE [Fifo!Next]_(Fifo!vars)
<1> DEFINE closing == pc \in {"clear", "drain", "gone"}
<1> USE DEF Fifo!Next, Fifo!vars
<1>1. CASE UNCHANGED vars
      <2>1. UNCHANGED <<first, queueRead, queueCmd>> /\ UNCHANGED <<second, busy, pc>>
            BY <1>1 DEF vars
      <2>2. queue' = queue
            BY <2>1, UnseenWrite
      <2> QED BY <2>1, <2>2
<1>2. CASE (\E b \in Bufs : PutBegin(b)) \/ MoveWrite \/ PutWrite \/ ClearStop \/ DrainStop
      <2>1. queue' = queue
            BY <1>2, StillQueue
      <2>2. UNCHANGED <<busy, closing>>
            BY <1>2 DEF PutBegin, MoveWrite, PutWrite, ClearStop, DrainStop
      <2> QED BY <2>1, <2>2
<1>3. CASE MovePublish \/ ClearMove
      <2>1. queue' = queue
            BY <1>3, MoveQueue
      <2>2. UNCHANGED <<busy, closing>>
            BY <1>3 DEF MovePublish, ClearMove
      <2> QED BY <2>1, <2>2
<1>4. CASE PutPublish \/ PutOverflow
      <2>1. ~closing /\ UNCHANGED <<busy, closing>>
            BY <1>4 DEF PutPublish, PutOverflow
      <2>2. Fifo!Put(buf) /\ buf \in Bufs
            BY <1>4, <2>1, PutQueue DEF Fifo!Put
      <2> QED BY <2>2
<1>5. CASE Handle
      <2>1. queue' = queue /\ queue # <<>> /\ Head(queue) = second[queueRead]
            BY <1>5, StillQueue, HeadIs DEF Handle
      <2>2. Fifo!Handle
            BY <1>5, <2>1 DEF Handle, Fifo!Handle
      <2> QED BY <2>2
<1>6. CASE Erase
      <2>1. Fifo!Done
            BY <1>6, FreeQueue DEF Erase, Fifo!Done
      <2> QED BY <2>1
<1>7. CASE DrainErase
      <2>1. Fifo!Drop
            BY <1>7, FreeQueue DEF DrainErase, Fifo!Drop
      <2> QED BY <2>1
<1>8. CASE Destroy
      <2>1. Fifo!Close
            BY <1>8, StillQueue DEF Destroy, Fifo!Close
      <2> QED BY <2>1
<1>9. CASE Construct
      <2>1. queue = <<>> /\ busy = None
            BY <1>9, EmptyQueue DEF Construct, RingInv, Consumer
      <2>2. queue' = <<>>
            BY <1>9, ConstructQueue
      <2>3. Fifo!Reopen
            BY <1>9, <2>1, <2>2 DEF Construct, Fifo!Reopen
      <2> QED BY <2>3
<1> QED BY <1>1, <1>2, <1>3, <1>4, <1>5, <1>6, <1>7, <1>8, <1>9 DEF Next, Produce, Consume, Clear

(***************************************************************************)
(* The property of MsgQueue of the same name, for a ring of any size:      *)
(* whatever the two threads interleave, the slots and the overflow are one *)
(* FIFO queue, from which each command is handled once and in the order of *)
(* the puts.                                                               *)
(***************************************************************************)
THEOREM QueueRefinesFifo == Spec => RefinesFifo
<1>1. Init => Fifo!Init
      <2> SUFFICES ASSUME Init PROVE Fifo!Init
          OBVIOUS
      <2>1. queue = <<>>
            BY InitRing, InitQueue
      <2> QED BY <2>1 DEF Init, Empty, Fifo!Init
<1>2. RingInv /\ [Next]_vars => RingInv'
      BY NextRing
<1>3. RingInv /\ [Next]_vars => [Fifo!Next]_(Fifo!vars)
      BY FifoStep
<1> QED BY InitRing, <1>1, <1>2, <1>3, PTL DEF Spec, RefinesFifo, Fifo!Spec

-----------------------------------------------------------------------------
(***************************************************************************)
(* The buffers.  No buffer is twice in the queue, and the allocated ones   *)
(* are those of the queue and the one in the hands of put.                 *)
(***************************************************************************)
Entries(s, n) == {s[k] : k \in 1 .. n}
InQueue == Entries(queue, Len(queue))

Owned ==
  /\ \A j, k \in 1 .. Len(queue) : queue[j] = queue[k] => j = k
  /\ buf \notin InQueue
  /\ live = InQueue \cup ({buf} \ {None})

\* The entries of a sequence that grows at its end.
LEMMA AppendOwned ==
  ASSUME NEW S, NEW s \in Seq(S), NEW t, NEW e \in S, t = Append(s, e),
         \A j, k \in 1 .. Len(s) : s[j] = s[k] => j = k,
         e \notin {s[k] : k \in 1 .. Len(s)}
  PROVE  /\ \A j, k \in 1 .. Len(t) : t[j] = t[k] => j = k
         /\ {t[k] : k \in 1 .. Len(t)} = {s[k] : k \in 1 .. Len(s)} \cup {e}
<1>1. /\ Len(s) \in Nat /\ Len(t) = Len(s) + 1
      /\ \A k \in 1 .. Len(s) : t[k] = s[k]
      /\ t[Len(s) + 1] = e
      OBVIOUS
<1> DEFINE n == Len(s)
<1>2. n \in Nat /\ Len(t) = n + 1 /\ (\A k \in 1 .. n : t[k] = s[k]) /\ t[n + 1] = e
      BY <1>1
<1>3. \A k \in 1 .. n + 1 : k \in 1 .. n \/ k = n + 1
      BY <1>2
<1>4. \A k \in 1 .. n : k \in 1 .. n + 1 /\ k # n + 1
      BY <1>2
<1>5. n + 1 \in 1 .. n + 1
      BY <1>2
<1> HIDE DEF n
<1>6. \A j, k \in 1 .. n + 1 : t[j] = t[k] => j = k
      BY <1>2, <1>3 DEF n
<1>7. {t[k] : k \in 1 .. n + 1} = {s[k] : k \in 1 .. n} \cup {e}
      BY <1>2, <1>3, <1>4, <1>5
<1> QED BY <1>2, <1>6, <1>7 DEF n

\* Those of one that loses its first.
LEMMA TailOwned ==
  ASSUME NEW n \in Nat \ {0}, NEW s, NEW t, \A k \in 1 .. n - 1 : t[k] = s[k + 1],
         \A j, k \in 1 .. n : s[j] = s[k] => j = k
  PROVE  /\ \A j, k \in 1 .. n - 1 : t[j] = t[k] => j = k
         /\ Entries(t, n - 1) = Entries(s, n) \ {s[1]}
<1> USE DEF Entries
<1>1. n \in Nat \ {0} /\ \A k \in 1 .. n - 1 : t[k] = s[k + 1]
      OBVIOUS
<1>2. \A k \in 1 .. n - 1 : k + 1 \in 1 .. n /\ k + 1 # 1
      BY <1>1
<1>3. \A k \in 1 .. n : k = 1 \/ (k - 1 \in 1 .. n - 1 /\ k = (k - 1) + 1)
      BY <1>1
<1>4. \A j, k \in 1 .. n - 1 : t[j] = t[k] => j = k
      <2>1. SUFFICES ASSUME NEW j \in 1 .. n - 1, NEW k \in 1 .. n - 1, t[j] = t[k] PROVE j = k
            OBVIOUS
      <2>2. s[j + 1] = s[k + 1]
            BY <1>1, <2>1
      <2>3. j + 1 = k + 1
            BY <1>2, <2>2
      <2> QED BY <2>3
<1>5. 1 \in 1 .. n
      BY <1>1
<1>6. ASSUME NEW x PROVE x \in {t[k] : k \in 1 .. n - 1} <=> x \in {s[k] : k \in 1 .. n} \ {s[1]}
      <2>1. ASSUME NEW k \in 1 .. n - 1, x = t[k] PROVE x \in {s[m] : m \in 1 .. n} \ {s[1]}
            <3>1. x = s[k + 1] /\ k + 1 \in 1 .. n /\ k + 1 # 1
                  BY <1>1, <1>2, <2>1
            <3>2. s[k + 1] # s[1]
                  BY <1>5, <3>1
            <3> QED BY <3>1, <3>2
      <2>2. ASSUME NEW k \in 1 .. n, x = s[k], x # s[1] PROVE x \in {t[m] : m \in 1 .. n - 1}
            <3>1. k - 1 \in 1 .. n - 1 /\ k = (k - 1) + 1
                  BY <1>3, <2>2
            <3>2. t[k - 1] = s[(k - 1) + 1]
                  BY <1>1, <3>1
            <3> QED BY <2>2, <3>1, <3>2
      <2> QED BY <2>1, <2>2
<1> QED BY <1>1, <1>4, <1>6

\* Owned is inductive, given the ring's invariant.
LEMMA OwnedStep == ASSUME RingInv, Owned, [Next]_vars PROVE Owned'
<1>1. queue \in Seq(Bufs) /\ \A b \in Bufs : b # None
      BY QueueIs, MsgQueueAssumption
<1>2. ASSUME queue' = queue PROVE InQueue' = InQueue
      BY <1>2 DEF InQueue, Entries
<1>3. CASE UNCHANGED vars
      <2>1. UNCHANGED <<first, queueRead, queueCmd>> /\ UNCHANGED <<second, buf, live>>
            BY <1>3 DEF vars
      <2>2. queue' = queue
            BY <2>1, UnseenWrite
      <2> QED BY <1>2, <2>1, <2>2 DEF Owned
<1>4. ASSUME NEW b \in Bufs, PutBegin(b) PROVE Owned'
      <2>1. queue' = queue
            BY <1>4, StillQueue
      <2>2. b \notin live /\ buf' = b /\ live' = live \cup {b} /\ buf = None
            BY <1>4 DEF PutBegin, RingInv, Producer
      <2> QED BY <1>1, <1>2, <2>1, <2>2 DEF Owned
<1>5. CASE MoveWrite \/ PutWrite \/ Handle \/ Destroy \/ ClearStop \/ DrainStop
      <2>1. queue' = queue
            BY <1>5, StillQueue
      <2>2. UNCHANGED <<buf, live>>
            BY <1>5 DEF MoveWrite, PutWrite, Handle, Destroy, ClearStop, DrainStop
      <2> QED BY <1>2, <2>1, <2>2 DEF Owned
<1>6. CASE MovePublish \/ ClearMove
      <2>1. queue' = queue /\ UNCHANGED <<buf, live>>
            BY <1>6, MoveQueue DEF MovePublish, ClearMove
      <2> QED BY <1>2, <2>1 DEF Owned
<1>7. CASE PutPublish \/ PutOverflow
      <2>1. buf \in Bufs /\ queue' = Append(queue, buf) /\ buf' = None /\ live' = live
            BY <1>7, PutQueue DEF PutPublish, PutOverflow
      <2>2. /\ \A j, k \in 1 .. Len(queue') : queue'[j] = queue'[k] => j = k
            /\ InQueue' = InQueue \cup {buf}
            BY <1>1, <2>1, AppendOwned DEF Owned, InQueue, Entries
      <2>3. None \notin InQueue
            BY <1>1 DEF InQueue, Entries
      <2> QED BY <1>1, <2>1, <2>2, <2>3 DEF Owned
<1>8. CASE Erase \/ DrainErase
      <2>1. /\ queue # <<>> /\ Head(queue) = second[queueRead] /\ queue' = Tail(queue)
            /\ buf' = buf /\ live' = live \ {second[queueRead]}
            BY <1>8, FreeQueue DEF Erase, DrainErase, EraseSlot
      <2>2. \A j, k \in 1 .. Len(queue) : queue[j] = queue[k] => j = k
            BY DEF Owned
      <2>3. /\ \A j, k \in 1 .. Len(queue') : queue'[j] = queue'[k] => j = k
            /\ Entries(queue', Len(queue')) = Entries(queue, Len(queue)) \ {Head(queue)}
            <3>1. /\ Len(queue) \in Nat \ {0} /\ Head(queue) = queue[1]
                  /\ Len(Tail(queue)) = Len(queue) - 1
                  /\ \A k \in 1 .. Len(queue) - 1 : Tail(queue)[k] = queue[k + 1]
                  BY <1>1, <2>1
            <3> DEFINE n == Len(queue)
            <3>2. /\ n \in Nat \ {0} /\ Head(queue) = queue[1] /\ Len(queue') = n - 1
                  /\ \A k \in 1 .. n - 1 : queue'[k] = queue[k + 1]
                  /\ \A j, k \in 1 .. n : queue[j] = queue[k] => j = k
                  BY <2>1, <2>2, <3>1, Zenon
            <3> HIDE DEF n
            <3>3. /\ \A j, k \in 1 .. n - 1 : queue'[j] = queue'[k] => j = k
                  /\ Entries(queue', n - 1) = Entries(queue, n) \ {queue[1]}
                  BY <3>2, TailOwned, Zenon
            <3> QED BY <3>2, <3>3 DEF n
      <2>4. InQueue' = InQueue \ {Head(queue)}
            BY <2>3 DEF InQueue
      <2>5. Head(queue) \in InQueue
            BY <1>1, <2>1 DEF InQueue, Entries
      <2> QED BY <2>1, <2>3, <2>4, <2>5 DEF Owned
<1>9. CASE Construct
      <2>1. queue = <<>> /\ queue' = <<>>
            BY <1>9, EmptyQueue, ConstructQueue DEF Construct
      <2>2. buf = None /\ buf' = None /\ live' = live
            BY <1>9 DEF Construct, RingInv, Producer
      <2> QED BY <1>2, <2>1, <2>2 DEF Owned
<1> QED BY <1>3, <1>4, <1>5, <1>6, <1>7, <1>8, <1>9 DEF Next, Produce, Consume, Clear

\* The queue holds what the full slots and the overflow hold.
LEMMA PlacesAre ==
  ASSUME RingInv
  PROVE  InQueue = {second[i] : i \in {j \in Slots : first[j]}} \cup {queueCmd[k] : k \in DOMAIN queueCmd}
<1> DEFINE n == Len(queueCmd)
<1>1. /\ Full \in 0 .. QueueSize /\ Layout(Full)
      /\ Len(queue) = Full + n
      /\ \A k \in 1 .. Full : queue[k] = second[Ring(k)]
      /\ \A k \in 1 .. n : queue[Full + k] = queueCmd[k]
      BY QueueIs
<1>2. QueueSize \in Nat \ {0} /\ n \in Nat /\ DOMAIN queueCmd = 1 .. n /\ queueRead \in 0 .. QueueSize - 1
      BY MsgQueueAssumption DEF RingInv, TypeOK, Slots
<1>3. \A k \in 1 .. Full : Ring(k) \in Slots /\ first[Ring(k)]
      <2>1. SUFFICES ASSUME NEW k \in 1 .. Full PROVE Ring(k) \in Slots /\ first[Ring(k)]
            OBVIOUS
      <2>2. k \in 1 .. QueueSize /\ k - 1 < Full
            BY <1>1, <1>2
      <2>3. Ring(k) \in Slots /\ Ahead(Ring(k)) = k - 1
            BY <2>2, RingIs
      <2> QED BY <1>1, <2>2, <2>3 DEF Layout
<1>4. \A i \in Slots : first[i] => \E k \in 1 .. Full : Ring(k) = i
      <2>1. SUFFICES ASSUME NEW i \in Slots, first[i] PROVE \E k \in 1 .. Full : Ring(k) = i
            OBVIOUS
      <2>2. Ahead(i) < Full /\ Ahead(i) \in Nat
            BY <1>1, <1>2, <2>1 DEF Layout, Ahead, Slots
      <2>3. Ring(Ahead(i) + 1) = Wrap(queueRead + Ahead(i)) /\ Ahead(i) + 1 \in 1 .. Full
            BY <1>1, <1>2, <2>2, RingIs
      <2>4. Wrap(queueRead + Ahead(i)) = i
            BY <1>2, <2>2 DEF Ahead, Wrap, Slots
      <2> QED BY <2>3, <2>4
<1>5. \A k \in 1 .. Full + n : k \in 1 .. Full \/ (k - Full \in 1 .. n /\ k = Full + (k - Full))
      BY <1>1, <1>2
<1>6. (\A k \in 1 .. Full : k \in 1 .. Full + n) /\ \A k \in 1 .. n : Full + k \in 1 .. Full + n
      BY <1>1, <1>2
<1> DEFINE R == {second[i] : i \in {j \in Slots : first[j]}}
           O == {queueCmd[k] : k \in 1 .. n}
<1>7. ASSUME NEW k \in 1 .. Full + n PROVE queue[k] \in R \cup O
      <2>1. CASE k \in 1 .. Full
            BY <1>1, <1>3, <2>1
      <2>2. CASE k - Full \in 1 .. n /\ k = Full + (k - Full)
            <3>1. queue[Full + (k - Full)] = queueCmd[k - Full]
                  BY <1>1, <2>2
            <3> QED BY <2>2, <3>1
      <2> QED BY <1>5, <2>1, <2>2
<1>8. ASSUME NEW i \in Slots, first[i] PROVE second[i] \in InQueue
      <2>1. PICK k \in 1 .. Full : Ring(k) = i
            BY <1>4, <1>8
      <2>2. queue[k] = second[i] /\ k \in 1 .. Len(queue)
            BY <1>1, <1>6, <2>1
      <2> QED BY <2>2 DEF InQueue, Entries
<1>9. ASSUME NEW k \in 1 .. n PROVE queueCmd[k] \in InQueue
      <2>1. queue[Full + k] = queueCmd[k] /\ Full + k \in 1 .. Len(queue)
            BY <1>1, <1>6
      <2> QED BY <2>1 DEF InQueue, Entries
<1>10. InQueue \subseteq R \cup O
      BY <1>1, <1>7 DEF InQueue, Entries
<1>11. R \subseteq InQueue
      BY <1>8
<1>12. O \subseteq InQueue
      BY <1>9
<1> QED BY <1>2, <1>10, <1>11, <1>12

\* Buffers that are all different are counted by the slots and entries they are in.
LEMMA OwnedCounts == ASSUME RingInv, Owned PROVE BuffersAccounted
<1> DEFINE n == Len(queue)
           inPut == {buf} \ {None}
           g == [k \in 1 .. n |-> queue[k]]
<1>1. n \in Nat /\ n = Full + Len(queueCmd)
      BY QueueIs
<1>2. g \in Bijection(1 .. n, InQueue)
      BY DEF InQueue, Entries, Owned, Bijection, Injection, Surjection, IsInjective
<1>3. IsFiniteSet(1 .. n) /\ Cardinality(1 .. n) = n
      BY <1>1, FS_Interval
<1>4. IsFiniteSet(InQueue) /\ Cardinality(InQueue) = n
      BY <1>2, <1>3, FS_Bijection DEF ExistsBijection
<1>5. IsFiniteSet({buf}) /\ IsFiniteSet(inPut)
      BY FS_Singleton, FS_EmptySet, FS_Subset
<1>6. Cardinality(InQueue \cup inPut) = Cardinality(InQueue) + Cardinality(inPut)
      <2>1. InQueue \cap inPut = {}
            BY DEF Owned
      <2>2. Cardinality({}) = 0 /\ Cardinality(InQueue) \in Nat /\ Cardinality(inPut) \in Nat
            BY <1>4, <1>5, FS_EmptySet, FS_CardinalityType
      <2> HIDE DEF inPut
      <2>3. Cardinality(InQueue \cup inPut) = Cardinality(InQueue) + Cardinality(inPut) - Cardinality(InQueue \cap inPut)
            BY <1>4, <1>5, FS_Union
      <2>4. Cardinality(InQueue \cap inPut) = 0
            BY <2>1, <2>2
      <2> QED BY <2>2, <2>3, <2>4
<1>7. TypeOK
      BY DEF RingInv
<1> QED BY <1>1, <1>4, <1>6, <1>7, PlacesAre DEF BuffersAccounted, Owned

(***************************************************************************)
(* No buffer is lost, leaked or freed twice: the allocated buffers are     *)
(* those of the full slots, of the overflow and of put, each in one place, *)
(* for any ring and any number of buffers.                                 *)
(***************************************************************************)
THEOREM BuffersAreAccounted == Spec => []BuffersAccounted
<1>1. Init => RingInv /\ Owned
      <2> SUFFICES ASSUME Init PROVE Owned
          BY InitRing
      <2>1. queue = <<>>
            BY InitQueue
      <2> QED BY <2>1 DEF Init, Empty, Owned, InQueue, Entries
<1>2. RingInv /\ Owned /\ [Next]_vars => RingInv' /\ Owned'
      BY NextRing, OwnedStep
<1>3. RingInv /\ Owned => BuffersAccounted
      BY OwnedCounts
<1> QED BY <1>1, <1>2, <1>3, PTL DEF Spec
=============================================================================
