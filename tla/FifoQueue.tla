----------------------------- MODULE FifoQueue -----------------------------
(***************************************************************************)
(* What MessageQueue promises the classes that inherit it: the commands    *)
(* a connection thread puts are handled one at a time, in the order they   *)
(* were put, each of them once, until the object is destroyed and drops    *)
(* what is left.  MsgQueue.tla is the implementation.                      *)
(***************************************************************************)
EXTENDS Sequences

CONSTANTS Bufs,     \* the command buffers of the allocator
          None      \* no buffer

VARIABLES queue,    \* the buffers put and not yet handled to the end
          busy,     \* the buffer being handled, the head of queue
          closing   \* the destructor runs

vars == <<queue, busy, closing>>

Init == queue = <<>> /\ busy = None /\ closing = FALSE

Put(b) ==
  /\ ~closing
  /\ queue' = Append(queue, b)
  /\ UNCHANGED <<busy, closing>>

Handle ==
  /\ ~closing /\ busy = None /\ queue # <<>>
  /\ busy' = Head(queue)
  /\ UNCHANGED <<queue, closing>>

Done ==
  /\ busy # None
  /\ queue' = Tail(queue) /\ busy' = None
  /\ UNCHANGED closing

Close == ~closing /\ busy = None /\ closing' = TRUE /\ UNCHANGED <<queue, busy>>

Drop ==
  /\ closing /\ queue # <<>>
  /\ queue' = Tail(queue)
  /\ UNCHANGED <<busy, closing>>

\* a new object in the place of the old one, which must have been emptied
Reopen == closing /\ queue = <<>> /\ closing' = FALSE /\ UNCHANGED <<queue, busy>>

Next == (\E b \in Bufs : Put(b)) \/ Handle \/ Done \/ Close \/ Drop \/ Reopen

Spec == Init /\ [][Next]_vars
=============================================================================
