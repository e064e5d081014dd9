-------------------------- MODULE ClientPoolProofs --------------------------
(***************************************************************************)
(* What holds of the client connection pool for any number of tasks and    *)
(* main threads: types, that a task is in one place at most although calls   *)
(* of getNextState overlap, and that the broadcasts reach what is in service. *)
(***************************************************************************)
EXTENDS ClientPool, TLAPS

(***************************************************************************)
(* The inductive invariant.  Three calls of getNextState may overlap for a   *)
(* task: the timer's, the wait thread's and that of the main thread which    *)
(* erased it.  Each moves the state on by one at most, so the state, and any   *)
(* state that a call has read, is as far behind as there are calls to come:   *)
(* the count is what keeps a call from closing a task that is still served.  *)
(***************************************************************************)
Rank(s) == CASE s = "close" -> 0 [] s = "sync" -> 1 [] s = "okay" -> 2 [] s = "recycle" -> 3
One(b) == IF b THEN 1 ELSE 0

InWait(c)     == c \in ToSet(inbox[Wait]) \cup ToSet(waiting)
InMainOf(n,c) == c \in ToSet(inbox[n]) \cup serving[n]
Placed(c)     == InWait(c) \/ InMain(c)
MainCall(c)   == \E n \in Main : c \in hand[n]

Calls(c) == One(c \in hand[Timer]) + One(c \in hand[Wait]) + One(MainCall(c))
Bound(c) == IF InWait(c) THEN 1 ELSE IF InMain(c) THEN 2 ELSE 3

\* The timer is on its way from recycle to close.
Closing(c) ==
  /\ c \in hand[Timer] /\ c \notin hand[Wait] /\ ~MainCall(c) /\ ~Placed(c)
  /\ state[c] = "recycle" /\ pc[Timer] \in {"call", "set"}
  /\ pc[Timer] = "set" => old[Timer] = "recycle"

Counted(c) ==
  \/ Closing(c)
  \/ /\ Rank(state[c]) + Calls(c) <= Bound(c)
     /\ \A t \in Thread : c \in hand[t] /\ pc[t] \in {"effect", "set"} => Rank(old[t]) + Calls(c) <= Bound(c)

\* Where a task is, it is alone, and the main threads' calls have ended.
Single(c) ==
  /\ ~(InWait(c) /\ InMain(c))
  /\ \A n, m \in Main : InMainOf(n, c) /\ InMainOf(m, c) => n = m
  /\ \A n, m \in Main : c \in hand[n] /\ c \in hand[m] => n = m
  /\ Placed(c) => ~MainCall(c) /\ sock[c] # "null" /\ (state[c] = "close" => c \in hand[Timer])

\* A task that the timer has connected, and is about to add.
Adding(c) ==
  c \in hand[Timer] /\ pc[Timer] = "add" =>
    /\ ~Placed(c) /\ c \notin hand[Wait] /\ ~MainCall(c) /\ sock[c] # "null" /\ state[c] = "close"

\* A task four seconds in its state is the timer's to take, or taken by it.
Aging(c) ==
  c \in aged => \/ c \in hand[Timer] /\ pc[Timer] \in {"add", "call"}
                \/ ~Busy(c) /\ state[c] \in {"close", "recycle"}

\* What is in service is listed, or a call is about to end the service.
Listed(c) ==
  /\ state[c] = "okay" => \/ c \in container
                          \/ \E t \in Thread : c \in hand[t] /\ pc[t] = "set" /\ old[t] = "okay"
  /\ \A t \in Thread : c \in hand[t] /\ pc[t] = "set" /\ old[t] = "sync" => c \in container

Life(c) == Counted(c) /\ Single(c) /\ Adding(c) /\ Aging(c) /\ Listed(c)

\* A call has one task; only the timer adds one before its call.
Calling == \A t \in Thread : /\ \A c, d \in hand[t] : c = d
                             /\ pc[t] = "idle" <=> hand[t] = {}
                             /\ pc[t] = "add" => t = Timer
                             /\ pc[t] = "effect" => old[t] \in {"sync", "okay"}

\* No list holds a task twice.
Injective(s) == \A k, j \in DOMAIN s : s[k] = s[j] => k = j
Lists ==
  /\ \A t \in Thread : Injective(inbox[t])
  /\ Injective(waiting) /\ ToSet(inbox[Wait]) \cap ToSet(waiting) = {}
  /\ \A n \in Main : ToSet(inbox[n]) \cap serving[n] = {}
  /\ inbox[Timer] = <<>>

ClientInv == Calling /\ Lists /\ \A c \in Conn : Life(c)

(***************************************************************************)
(* Sequences: what RemoveAt, Append and \o do to the elements.              *)
(***************************************************************************)
\* RemoveAt takes out the element at p and moves the later ones up.
LEMMA RemoveAtIs ==
  ASSUME NEW S, NEW s \in Seq(S), NEW p \in 1 .. Len(s)
  PROVE  /\ RemoveAt(s, p) \in Seq(S) /\ Len(RemoveAt(s, p)) = Len(s) - 1
         /\ \A k \in 1 .. Len(s) - 1 : RemoveAt(s, p)[k] = IF k < p THEN s[k] ELSE s[k + 1]
<1> DEFINE a == SubSeq(s, 1, p - 1)  b == SubSeq(s, p + 1, Len(s))
<1>1. /\ a \in Seq(S) /\ Len(a) = p - 1 /\ \A k \in 1 .. p - 1 : a[k] = s[k]
      /\ b \in Seq(S) /\ Len(b) = Len(s) - p /\ \A k \in 1 .. Len(s) - p : b[k] = s[k + p]
  OBVIOUS
<1> HIDE DEF a, b
<1>2. a \o b \in Seq(S) /\ Len(a \o b) = Len(s) - 1
  <2>1. a \in Seq(S) /\ b \in Seq(S)
    BY <1>1
  <2>2. a \o b \in Seq(S) /\ Len(a \o b) = Len(a) + Len(b)
    BY <2>1
  <2> QED  BY <1>1, <2>2
<1>3. ASSUME NEW k \in 1 .. Len(s) - 1 PROVE (a \o b)[k] = IF k < p THEN s[k] ELSE s[k + 1]
  BY <1>1
<1>4. RemoveAt(s, p) = a \o b
  BY DEF RemoveAt, a, b
<1> QED  BY <1>2, <1>3, <1>4

\* What is left of a list without repetitions when an element is taken out.
LEMMA RemovedSet ==
  ASSUME NEW S, NEW s \in Seq(S), Injective(s), NEW p \in 1 .. Len(s)
  PROVE  ToSet(RemoveAt(s, p)) = ToSet(s) \ {s[p]} /\ Injective(RemoveAt(s, p))
<1> DEFINE r == RemoveAt(s, p)
<1>1. /\ r \in Seq(S) /\ Len(r) = Len(s) - 1
      /\ \A k \in 1 .. Len(s) - 1 : r[k] = IF k < p THEN s[k] ELSE s[k + 1]
  BY RemoveAtIs
<1> HIDE DEF r
<1>2. \A k, j \in 1 .. Len(s) : s[k] = s[j] => k = j
  BY DEF Injective
<1>3. Injective(r)
  BY <1>1, <1>2 DEF Injective
<1>4. ASSUME NEW x \in ToSet(r) PROVE x \in ToSet(s) /\ x # s[p]
  <2>1. PICK k \in 1 .. Len(s) - 1 : x = r[k]
    BY <1>1 DEF ToSet
  <2> QED  BY <1>1, <1>2, <2>1 DEF ToSet
<1>5. ASSUME NEW x \in ToSet(s), x # s[p] PROVE x \in ToSet(r)
  <2>1. PICK k \in 1 .. Len(s) : x = s[k]
    BY DEF ToSet
  <2>2. CASE k < p
    BY <1>1, <2>1, <2>2 DEF ToSet
  <2>3. CASE k > p
    <3>1. k - 1 \in 1 .. Len(s) - 1 /\ r[k - 1] = s[k]
      BY <1>1, <2>3
    <3> QED  BY <1>1, <2>1, <3>1 DEF ToSet
  <2> QED  BY <1>5, <2>1, <2>2, <2>3
<1> QED  BY <1>3, <1>4, <1>5 DEF r

\* A new element at the end.
LEMMA AppendSet ==
  ASSUME NEW S, NEW s \in Seq(S), NEW c \in S
  PROVE  /\ ToSet(Append(s, c)) = ToSet(s) \cup {c}
         /\ Injective(s) /\ c \notin ToSet(s) => Injective(Append(s, c))
<1>1. DOMAIN s = 1 .. Len(s) /\ DOMAIN Append(s, c) = 1 .. Len(s) + 1 /\ Len(s) \in Nat
      /\ \A k \in 1 .. Len(s) + 1 : Append(s, c)[k] = IF k <= Len(s) THEN s[k] ELSE c
  OBVIOUS
<1>2. ToSet(Append(s, c)) = ToSet(s) \cup {c}
  BY <1>1, Len(s) + 1 \in 1 .. Len(s) + 1, \A k \in 1 .. Len(s) : k \in 1 .. Len(s) + 1 DEF ToSet
<1>3. Injective(s) /\ c \notin ToSet(s) => Injective(Append(s, c))
  BY <1>1 DEF ToSet, Injective
<1> QED  BY <1>2, <1>3

\* One list after the other.
LEMMA ConcatSet ==
  ASSUME NEW S, NEW s \in Seq(S), NEW u \in Seq(S)
  PROVE  /\ ToSet(s \o u) = ToSet(s) \cup ToSet(u)
         /\ Injective(s) /\ Injective(u) /\ ToSet(s) \cap ToSet(u) = {} => Injective(s \o u)
<1>1. /\ DOMAIN s = 1 .. Len(s) /\ DOMAIN u = 1 .. Len(u) /\ Len(s) \in Nat /\ Len(u) \in Nat
      /\ DOMAIN (s \o u) = 1 .. Len(s) + Len(u)
      /\ \A k \in 1 .. Len(s) + Len(u) : (s \o u)[k] = IF k <= Len(s) THEN s[k] ELSE u[k - Len(s)]
  OBVIOUS
<1>2. ASSUME NEW x \in ToSet(s \o u) PROVE x \in ToSet(s) \cup ToSet(u)
  BY <1>1 DEF ToSet
<1>3. ASSUME NEW x \in ToSet(s) PROVE x \in ToSet(s \o u)
  BY <1>1 DEF ToSet
<1>4. ASSUME NEW x \in ToSet(u) PROVE x \in ToSet(s \o u)
  <2>1. PICK k \in 1 .. Len(u) : x = u[k]
    BY <1>1 DEF ToSet
  <2>2. k + Len(s) \in 1 .. Len(s) + Len(u) /\ (s \o u)[k + Len(s)] = u[k]
    BY <1>1
  <2> QED  BY <1>1, <2>1, <2>2 DEF ToSet
<1>5. ASSUME Injective(s), Injective(u), ToSet(s) \cap ToSet(u) = {} PROVE Injective(s \o u)
  <2> SUFFICES ASSUME NEW k \in 1 .. Len(s) + Len(u), NEW j \in 1 .. Len(s) + Len(u), (s \o u)[k] = (s \o u)[j]
               PROVE  k = j
    BY <1>1 DEF Injective
  <2>1. \A x \in 1 .. Len(s), y \in 1 .. Len(u) : s[x] # u[y]
    BY <1>1, <1>5 DEF ToSet
  <2>2. CASE k <= Len(s) /\ j <= Len(s)
    BY <1>1, <1>5, <2>2 DEF Injective
  <2>3. CASE k > Len(s) /\ j > Len(s)
    BY <1>1, <1>5, <2>3 DEF Injective
  <2>4. CASE k <= Len(s) /\ j > Len(s)
    BY <1>1, <2>1, <2>4
  <2>5. CASE k > Len(s) /\ j <= Len(s)
    BY <1>1, <2>1, <2>5
  <2> QED  BY <1>1, <2>2, <2>3, <2>4, <2>5
<1> QED  BY <1>2, <1>3, <1>4, <1>5

\* A function on 1 .. n is a sequence.
LEMMA FunIsSeq ==
  ASSUME NEW S, NEW n \in Nat, NEW f \in [1 .. n -> S]
  PROVE  f \in Seq(S) /\ Len(f) = n
<1>1. f \in Seq(S)
  OBVIOUS
<1> QED  BY <1>1

\* What a sequence and two in a row are.
LEMMA SeqIs ==
  ASSUME NEW S, NEW s \in Seq(S)
  PROVE  Len(s) \in Nat /\ DOMAIN s = 1 .. Len(s) /\ \A k \in 1 .. Len(s) : s[k] \in S
OBVIOUS

\* Two lists put together.
LEMMA ConcatIs ==
  ASSUME NEW S, NEW s \in Seq(S), NEW u \in Seq(S)
  PROVE  s \o u \in Seq(S) /\ Len(s \o u) = Len(s) + Len(u)
OBVIOUS

(***************************************************************************)
(* Types                                                                   *)
(***************************************************************************)
CallTypes == hand \in [Thread -> SUBSET Conn] /\ old \in [Thread -> State]
             /\ pc \in [Thread -> {"idle", "add", "call", "effect", "set"}]
ConnTypes == /\ state \in [Conn -> State] /\ sock \in [Conn -> Socket]
             /\ aged \subseteq Conn /\ terminate \subseteq Conn /\ container \subseteq Conn
WaitTypes == /\ waiting \in Seq(Conn)
             /\ pfds \in Seq([of : Conn, revents : Event]) /\ Len(pfds) = Len(waiting)
             /\ it \in 0 .. Len(waiting) + 1 /\ i \in Int /\ i < it
MainTypes == inbox \in [Thread -> Seq(Conn)] /\ serving \in [Main -> SUBSET Conn] /\ running \in Main

\* The type invariant in parts.
LEMMA TypeParts == TypeOK <=> CallTypes /\ ConnTypes /\ WaitTypes /\ MainTypes
BY DEF TypeOK, CallTypes, ConnTypes, WaitTypes, MainTypes

\* remove takes one element out of both lists, or none.
LEMMA RemoveType ==
  ASSUME WaitTypes, it \in 1 .. Len(waiting), NEW p \in Int, remove(p)
  PROVE  /\ waiting' \in Seq(Conn) /\ pfds' \in Seq([of : Conn, revents : Event])
         /\ Len(pfds') = Len(waiting') /\ it <= Len(waiting') + 1
<1>1. CASE p \in 0 .. Len(pfds) - 1
  <2>1. waiting' = RemoveAt(waiting, it) /\ pfds' = RemoveAt(pfds, p + 1)
    BY <1>1 DEF remove
  <2>2. p + 1 \in 1 .. Len(pfds)
    BY <1>1 DEF WaitTypes
  <2>3. waiting' \in Seq(Conn) /\ Len(waiting') = Len(waiting) - 1
    BY <2>1, RemoveAtIs DEF WaitTypes
  <2>4. pfds' \in Seq([of : Conn, revents : Event]) /\ Len(pfds') = Len(pfds) - 1
    BY <2>1, <2>2, RemoveAtIs DEF WaitTypes
  <2> QED  BY <2>3, <2>4 DEF WaitTypes
<1>2. CASE p \notin 0 .. Len(pfds) - 1
  BY <1>2 DEF remove, WaitTypes
<1> QED  BY <1>1, <1>2

\* The parts that a step of the timer, of a main thread, of a call or of the
\* other end can disturb.
LEMMA CallStepTypes ==
  ASSUME CallTypes, ConnTypes, MainTypes, NEW t \in Thread, CallStep(t)
  PROVE  CallTypes' /\ ConnTypes' /\ MainTypes' /\ UNCHANGED waitVars
<1>1. PICK c \in Conn : GetState(t, c) \/ InOrOut(t, c) \/ SetState(t, c)
  BY DEF CallStep
<1>2. CASE GetState(t, c)
  BY <1>2 DEF GetState, CallTypes, ConnTypes, MainTypes
<1>3. CASE InOrOut(t, c)
  <2>1. container' \subseteq Conn
    BY <1>3 DEF InOrOut, ConnTypes
  <2> QED  BY <1>3, <2>1 DEF InOrOut, CallTypes, ConnTypes, MainTypes
<1>4. CASE SetState(t, c)
  <2>1. old[t] \in State
    BY DEF CallTypes
  <2>2. NextOf(old[t]) \in State
    BY <2>1 DEF State, NextOf
  <2>3. state' \in [Conn -> State]
    BY <1>4, <2>2 DEF SetState, ConnTypes
  <2>4. sock' \in [Conn -> Socket] /\ terminate' \subseteq Conn
    BY <1>4 DEF SetState, Final, ConnTypes, Socket
  <2> QED  BY <1>4, <2>3, <2>4 DEF SetState, CallTypes, ConnTypes, MainTypes
<1> QED  BY <1>1, <1>2, <1>3, <1>4

\* Steps of the timer's thread and of the other end leave the wait thread's lists alone.
LEMMA OutsideTypes ==
  ASSUME CallTypes, ConnTypes, MainTypes, NEW c \in Conn,
         TimerStep(c) \/ ConnectFailed(c) \/ Answer(c) \/ Break(c) \/ Elapse(c)
  PROVE  CallTypes' /\ ConnTypes' /\ MainTypes' /\ UNCHANGED waitVars
<1>1. CASE TimerStep(c)
  <2>1. CASE Connect(c)
    BY <2>1 DEF Connect, Take, CallTypes, ConnTypes, MainTypes, Socket
  <2>2. CASE AddCheckwait(c)
    <3>1. inbox' \in [Thread -> Seq(Conn)]
      BY <2>2 DEF AddCheckwait, MainTypes, Thread
    <3> QED  BY <2>2, <3>1 DEF AddCheckwait, connVars, CallTypes, ConnTypes, MainTypes
  <2>3. CASE Recycle(c)
    BY <2>3 DEF Recycle, Take, connVars, CallTypes, ConnTypes, MainTypes
  <2> QED  BY <1>1, <2>1, <2>2, <2>3 DEF TimerStep
<1>2. CASE ConnectFailed(c)
  BY <1>2 DEF ConnectFailed, callVars, CallTypes, ConnTypes, MainTypes, Socket
<1>3. CASE Answer(c)
  BY <1>3 DEF Answer, callVars, CallTypes, ConnTypes, MainTypes, Socket
<1>4. CASE Break(c)
  BY <1>4 DEF Break, callVars, CallTypes, ConnTypes, MainTypes, Socket
<1>5. CASE Elapse(c)
  BY <1>5 DEF Elapse, callVars, CallTypes, ConnTypes, MainTypes
<1> QED  BY <1>1, <1>2, <1>3, <1>4, <1>5

\* A step of a main thread keeps the types and leaves the wait thread's lists alone.
LEMMA MainStepTypes ==
  ASSUME CallTypes, ConnTypes, MainTypes, NEW n \in Main, MainStep(n)
  PROVE  CallTypes' /\ ConnTypes' /\ MainTypes' /\ UNCHANGED waitVars
<1>1. n \in Thread
  BY DEF Thread
<1>2. CASE CheckMain(n)
  <2>1. ToSet(inbox[n]) \subseteq Conn
    BY <1>1 DEF MainTypes, ToSet
  <2>2. serving' \in [Main -> SUBSET Conn] /\ inbox' \in [Thread -> Seq(Conn)]
    BY <1>1, <1>2, <2>1 DEF CheckMain, MainTypes
  <2>3. UNCHANGED <<connVars, waitVars, running, callVars>>
    BY <1>2 DEF CheckMain
  <2>4. CallTypes' /\ ConnTypes'
    BY <2>3 DEF connVars, callVars, CallTypes, ConnTypes
  <2> QED  BY <2>2, <2>3, <2>4 DEF MainTypes
<1>3. CASE \E c \in Conn : SocketError(n, c)
  BY <1>3 DEF SocketError, callVars, CallTypes, ConnTypes, MainTypes
<1>4. CASE \E c \in Conn : Leave(n, c)
  BY <1>1, <1>4 DEF Leave, Take, connVars, CallTypes, ConnTypes, MainTypes
<1> QED  BY <1>2, <1>3, <1>4 DEF MainStep

\* A step of the wait thread, whose walk also moves the index, keeps the types.
LEMMA WaitStepTypes ==
  ASSUME CallTypes, ConnTypes, MainTypes, WaitTypes, WaitStep
  PROVE  CallTypes' /\ ConnTypes' /\ MainTypes' /\ WaitTypes'
<1>0. Wait \in Thread
  BY DEF Thread
<1>1. CASE CheckWait
  <2> DEFINE of == [k \in DOMAIN pfds |-> pfds[k].of]
             all == of \o inbox[Wait]
  <2>1. inbox[Wait] \in Seq(Conn) /\ inbox' \in [Thread -> Seq(Conn)]
    BY <1>0, <1>1 DEF CheckWait, MainTypes
  <2>2. of \in Seq(Conn) /\ Len(of) = Len(pfds)
    <3> DEFINE P == [of : Conn, revents : Event]
    <3>1. pfds \in Seq(P)
      BY DEF WaitTypes
    <3> HIDE DEF P
    <3>2. Len(pfds) \in Nat /\ DOMAIN pfds = 1 .. Len(pfds) /\ \A k \in 1 .. Len(pfds) : pfds[k] \in P
      BY <3>1, SeqIs
    <3>3. of \in [1 .. Len(pfds) -> Conn]
      BY <3>2 DEF P
    <3> HIDE DEF of
    <3> QED  BY <3>2, <3>3, FunIsSeq
  <2> HIDE DEF of
  <2>4. all \in Seq(Conn) /\ Len(all) = Len(pfds) + Len(inbox[Wait])
    <3>1. of \in Seq(Conn) /\ inbox[Wait] \in Seq(Conn)
      BY <2>1, <2>2
    <3>2. all \in Seq(Conn) /\ Len(all) = Len(of) + Len(inbox[Wait])
      BY <3>1, ConcatIs
    <3> QED  BY <2>2, <3>2
  <2> HIDE DEF all
  <2>5. PICK e \in [DOMAIN all -> Event] :
          /\ pfds' = [k \in DOMAIN all |-> [of |-> all[k], revents |-> e[k]]]
          /\ \/ it' = 1 /\ i' = 0
             \/ UNCHANGED <<it, i>>
    BY <1>1 DEF CheckWait, all, of
  <2>6. pfds' \in Seq([of : Conn, revents : Event]) /\ Len(pfds') = Len(all)
    <3>1. /\ DOMAIN all = 1 .. Len(all) /\ Len(all) \in Nat
          /\ \A k \in 1 .. Len(all) : all[k] \in Conn /\ e[k] \in Event
      BY <2>4, <2>5
    <3> DEFINE R == [k \in 1 .. Len(all) |-> [of |-> all[k], revents |-> e[k]]]
               P == [of : Conn, revents : Event]
    <3>2. \A k \in 1 .. Len(all) : [of |-> all[k], revents |-> e[k]] \in P
      BY <3>1
    <3> HIDE DEF P
    <3>3. R \in [1 .. Len(all) -> P]
      BY <3>2
    <3>4. pfds' = R
      BY <2>5, <3>1
    <3> HIDE DEF R
    <3>5. R \in Seq(P) /\ Len(R) = Len(all)
      BY <3>1, <3>3, FunIsSeq
    <3> QED  BY <3>4, <3>5 DEF P
  <2>7. waiting' = waiting \o inbox[Wait] /\ it = 0 /\ waiting' # <<>>
    BY <1>1 DEF CheckWait
  <2>8. waiting' \in Seq(Conn) /\ Len(waiting') = Len(waiting) + Len(inbox[Wait])
    BY <2>1, <2>7 DEF WaitTypes
  <2>9. WaitTypes'
    BY <2>1, <2>4, <2>5, <2>6, <2>7, <2>8 DEF WaitTypes
  <2> QED  BY <1>1, <2>1, <2>9 DEF CheckWait, connVars, callVars, CallTypes, ConnTypes, MainTypes
<1>2. CASE WaitEnd
  BY <1>2 DEF WaitEnd, connVars, callVars, CallTypes, ConnTypes, MainTypes, WaitTypes
<1>3. ASSUME NEW c \in Conn, WaitError(c) \/ WaitRefused(c) \/ WaitNoThread(c)
      PROVE  CallTypes' /\ ConnTypes' /\ MainTypes' /\ WaitTypes'
  <2>1. it \in 1 .. Len(waiting) /\ remove(i) /\ i \in Int /\ it' = it /\ i' \in {i, i - 1} /\ resetState(c)
        /\ UNCHANGED <<container, inbox, serving, running, callVars>>
    BY <1>3 DEF WaitError, WaitRefused, WaitNoThread, Walking, WaitTypes
  <2>2. WaitTypes'
    BY <2>1, RemoveType DEF WaitTypes
  <2>3. ConnTypes'
    BY <2>1 DEF resetState, Final, ConnTypes, State, Socket
  <2> QED  BY <2>1, <2>2, <2>3 DEF callVars, CallTypes, MainTypes
<1>4. ASSUME NEW c \in Conn, WaitMore(c)
      PROVE  CallTypes' /\ ConnTypes' /\ MainTypes' /\ WaitTypes'
  BY <1>4 DEF WaitMore, Walking, connVars, callVars, CallTypes, ConnTypes, MainTypes, WaitTypes
<1>5. ASSUME NEW c \in Conn, NEW n \in Main, WaitVerified(c, n)
      PROVE  CallTypes' /\ ConnTypes' /\ MainTypes' /\ WaitTypes'
  <2>1. it \in 1 .. Len(waiting) /\ remove(i) /\ i \in Int /\ it' = it /\ i' = i
    BY <1>5 DEF WaitVerified, Walking, WaitTypes
  <2>2. WaitTypes'
    BY <2>1, RemoveType DEF WaitTypes
  <2>3. ConnTypes'
    BY <1>5 DEF WaitVerified, ConnTypes, Socket
  <2>4. CallTypes'
    BY <1>0, <1>5 DEF WaitVerified, AddMain, Take, CallTypes
  <2>5. inbox' \in [Thread -> Seq(Conn)] /\ running' \in Main
    BY <1>5 DEF WaitVerified, AddMain, MainTypes, Thread
  <2> QED  BY <1>5, <2>2, <2>3, <2>4, <2>5 DEF WaitVerified, MainTypes
<1> QED  BY <1>1, <1>2, <1>3, <1>4, <1>5 DEF WaitStep

\* Types hold initially and are kept by every step.
LEMMA InitTypes == Init => TypeOK
<1>1. 1 \in Main /\ <<>> \in Seq(Conn) /\ Len(<<>>) = 0 /\ <<>> \in Seq([of : Conn, revents : Event])
  BY ClientPoolAssumption DEF Main
<1> QED  BY <1>1 DEF Init, TypeOK, State, Socket

\* TypeOK is inductive by itself.
LEMMA NextTypes == TypeOK /\ [Next]_vars => TypeOK'
<1> SUFFICES ASSUME CallTypes, ConnTypes, WaitTypes, MainTypes, [Next]_vars
             PROVE  CallTypes' /\ ConnTypes' /\ WaitTypes' /\ MainTypes'
  BY TypeParts, PTL
<1>1. ASSUME UNCHANGED waitVars PROVE WaitTypes'
  BY <1>1 DEF waitVars, WaitTypes
<1>2. CASE \E t \in Thread : CallStep(t)
  BY <1>1, <1>2, CallStepTypes
<1>3. CASE WaitStep
  BY <1>3, WaitStepTypes
<1>4. CASE \E n \in Main : MainStep(n)
  BY <1>1, <1>4, MainStepTypes
<1>5. CASE \E c \in Conn : TimerStep(c) \/ ConnectFailed(c) \/ Answer(c) \/ Break(c) \/ Elapse(c)
  BY <1>1, <1>5, OutsideTypes
<1>6. CASE UNCHANGED vars
  BY <1>6 DEF vars, connVars, waitVars, callVars, CallTypes, ConnTypes, WaitTypes, MainTypes
<1> QED  BY <1>2, <1>3, <1>4, <1>5, <1>6 DEF Next

\* Types, for any number of tasks and main threads, and whatever the read before
\* the first descriptor returns.
THEOREM ClientTypes == Spec => []TypeOK
BY InitTypes, NextTypes, PTL DEF Spec

(***************************************************************************)
(* The lists.  A step leaves a task in the places it was in, or moves one    *)
(* task by one place.                                                       *)
(***************************************************************************)
Keeps(d) == /\ InWait(d)' <=> InWait(d)
            /\ \A n \in Main : InMainOf(n, d)' <=> InMainOf(n, d)

\* Where no list changes every task keeps its place.
LEMMA StillLists ==
  ASSUME UNCHANGED <<inbox, waiting, serving>>, Lists
  PROVE  Lists' /\ \A d \in Conn : Keeps(d)
BY DEF Lists, Keeps, InWait, InMainOf

\* check_queue of the wait thread and of a main thread moves tasks within it.
LEMMA CheckWaitLists ==
  ASSUME TypeOK, Lists, CheckWait
  PROVE  Lists' /\ \A d \in Conn : Keeps(d)
<1>1. /\ inbox \in [Thread -> Seq(Conn)] /\ waiting \in Seq(Conn) /\ Wait \in Thread \ Main /\ Timer \in Thread \ {Wait}
      /\ inbox[Wait] \in Seq(Conn) /\ Main \subseteq Thread
  BY ClientPoolAssumption DEF TypeOK, Thread
<1>2. /\ waiting' = waiting \o inbox[Wait] /\ serving' = serving
      /\ inbox' = [inbox EXCEPT ![Wait] = <<>>]
  BY DEF CheckWait
<1>3. ToSet(waiting') = ToSet(waiting) \cup ToSet(inbox[Wait]) /\ Injective(waiting')
  <2>1. Injective(waiting) /\ Injective(inbox[Wait]) /\ ToSet(waiting) \cap ToSet(inbox[Wait]) = {}
    BY <1>1 DEF Lists
  <2> QED  BY <1>1, <1>2, <2>1, ConcatSet
<1>4. ToSet(<<>>) = {} /\ Injective(<<>>)
  BY DEF ToSet, Injective
<1>5. inbox'[Wait] = <<>> /\ \A t \in Thread \ {Wait} : inbox'[t] = inbox[t]
  BY <1>1, <1>2
<1>6. Lists'
  <2>1. \A t \in Thread : Injective(inbox'[t])
    BY <1>4, <1>5 DEF Lists
  <2>2. ToSet(inbox'[Wait]) \cap ToSet(waiting') = {}
    BY <1>4, <1>5
  <2> QED  BY <1>1, <1>2, <1>3, <1>5, <2>1, <2>2 DEF Lists
<1>7. ASSUME NEW d \in Conn PROVE Keeps(d)
  <2>1. InWait(d)' <=> InWait(d)
    BY <1>3, <1>4, <1>5 DEF InWait
  <2> QED  BY <1>1, <1>2, <1>5, <2>1 DEF Keeps, InMainOf
<1> QED  BY <1>6, <1>7

\* A main thread's check moves its inbox into its list: no task changes its place.
LEMMA CheckMainLists ==
  ASSUME TypeOK, Lists, NEW n \in Main, CheckMain(n)
  PROVE  Lists' /\ \A d \in Conn : Keeps(d)
<1>1. /\ inbox \in [Thread -> Seq(Conn)] /\ serving \in [Main -> SUBSET Conn]
      /\ Wait \in Thread \ Main /\ Timer \in Thread \ Main /\ Main \subseteq Thread
  BY ClientPoolAssumption DEF TypeOK, Thread
<1>2. /\ waiting' = waiting /\ inbox' = [inbox EXCEPT ![n] = <<>>]
      /\ serving' = [serving EXCEPT ![n] = @ \cup ToSet(inbox[n])]
  BY DEF CheckMain, waitVars
<1>3. ToSet(<<>>) = {} /\ Injective(<<>>)
  BY DEF ToSet, Injective
<1>4. inbox'[n] = <<>> /\ \A t \in Thread \ {n} : inbox'[t] = inbox[t]
  BY <1>1, <1>2
<1>5. serving'[n] = serving[n] \cup ToSet(inbox[n]) /\ \A m \in Main \ {n} : serving'[m] = serving[m]
  BY <1>1, <1>2
<1>6. Lists'
  <2>1. \A t \in Thread : Injective(inbox'[t])
    BY <1>3, <1>4 DEF Lists
  <2>2. \A m \in Main : ToSet(inbox'[m]) \cap serving'[m] = {}
    BY <1>1, <1>3, <1>4, <1>5 DEF Lists
  <2> QED  BY <1>1, <1>2, <1>4, <2>1, <2>2 DEF Lists
<1>7. ASSUME NEW d \in Conn PROVE Keeps(d)
  <2>1. \A m \in Main : InMainOf(m, d)' <=> InMainOf(m, d)
    BY <1>1, <1>3, <1>4, <1>5 DEF InMainOf
  <2> QED  BY <1>1, <1>2, <1>4, <2>1 DEF Keeps, InWait
<1> QED  BY <1>6, <1>7

\* The timer adds a task to the wait thread.
LEMMA AddLists ==
  ASSUME TypeOK, Lists, NEW c \in Conn, ~InWait(c), AddCheckwait(c)
  PROVE  /\ Lists' /\ InWait(c)' /\ \A n \in Main : InMainOf(n, c)' <=> InMainOf(n, c)
         /\ \A d \in Conn \ {c} : Keeps(d)
<1>1. /\ inbox \in [Thread -> Seq(Conn)] /\ Wait \in Thread \ Main /\ Timer \in Thread \ {Wait} /\ Main \subseteq Thread
  BY ClientPoolAssumption DEF TypeOK, Thread
<1>2. waiting' = waiting /\ serving' = serving
  BY DEF AddCheckwait, waitVars
<1>3. inbox'[Wait] = Append(inbox[Wait], c) /\ \A t \in Thread \ {Wait} : inbox'[t] = inbox[t]
  BY <1>1 DEF AddCheckwait
<1>4. ToSet(inbox'[Wait]) = ToSet(inbox[Wait]) \cup {c} /\ Injective(inbox'[Wait])
  BY <1>1, <1>3, AppendSet DEF InWait, Lists
<1>5. Lists'
  <2>1. \A t \in Thread : Injective(inbox'[t])
    BY <1>3, <1>4 DEF Lists
  <2>2. ToSet(inbox'[Wait]) \cap ToSet(waiting') = {}
    BY <1>2, <1>4 DEF Lists, InWait
  <2> QED  BY <1>1, <1>2, <1>3, <2>1, <2>2 DEF Lists
<1>6. \A d \in Conn : (InWait(d)' <=> InWait(d) \/ d = c) /\ \A n \in Main : InMainOf(n, d)' <=> InMainOf(n, d)
  BY <1>1, <1>2, <1>3, <1>4 DEF InWait, InMainOf
<1> QED  BY <1>5, <1>6 DEF Keeps

\* The wait thread takes the task it looks at out of its list.
LEMMA RemoveLists ==
  ASSUME TypeOK, Lists, GarbageEvents \subseteq {"none"}, NEW c \in Conn, NEW e \in {"error", "input"}, Walking(c, e), remove(i)
  PROVE  /\ c \in ToSet(waiting) /\ ToSet(waiting') = ToSet(waiting) \ {c} /\ Injective(waiting')
<1>1. i \in Int /\ ~(i < 0)
  <2>1. i < 0 => e \in GarbageEvents
    BY DEF Walking, revents
  <2> QED  BY <2>1 DEF TypeOK
<1>2. /\ waiting \in Seq(Conn) /\ it \in 1 .. Len(waiting) /\ c = waiting[it] /\ i \in 0 .. Len(pfds) - 1
  BY <1>1 DEF TypeOK, Walking
<1>3. waiting' = RemoveAt(waiting, it) /\ Injective(waiting)
  BY <1>2 DEF remove, Lists
<1>4. c \in ToSet(waiting)
  BY <1>2 DEF ToSet
<1> QED  BY <1>2, <1>3, <1>4, RemovedSet

\* A task the wait thread removes, because of an error or refused, is in no list afterwards.
LEMMA DropLists ==
  ASSUME TypeOK, Lists, GarbageEvents \subseteq {"none"}, NEW c \in Conn, NEW e \in {"error", "input"}, Walking(c, e), remove(i),
         inbox' = inbox, serving' = serving
  PROVE  /\ Lists' /\ InWait(c) /\ ~InWait(c)' /\ \A n \in Main : InMainOf(n, c)' <=> InMainOf(n, c)
         /\ \A d \in Conn \ {c} : Keeps(d)
<1>1. c \in ToSet(waiting) /\ ToSet(waiting') = ToSet(waiting) \ {c} /\ Injective(waiting')
  BY RemoveLists
<1>2. ToSet(inbox[Wait]) \cap ToSet(waiting) = {}
  BY DEF Lists
<1>3. Lists'
  BY <1>1, <1>2 DEF Lists
<1>4. \A d \in Conn : (InWait(d)' <=> InWait(d) /\ d # c) /\ \A n \in Main : InMainOf(n, d)' <=> InMainOf(n, d)
  BY <1>1, <1>2 DEF InWait, InMainOf
<1> QED  BY <1>1, <1>3, <1>4 DEF Keeps, InWait

\* A task that is verified goes from the wait list to one main thread's inbox.
LEMMA VerifiedLists ==
  ASSUME TypeOK, Lists, GarbageEvents \subseteq {"none"}, NEW c \in Conn, NEW n \in Main, WaitVerified(c, n), ~InMainOf(n, c)
  PROVE  /\ Lists' /\ InWait(c) /\ ~InWait(c)' /\ InMainOf(n, c)'
         /\ \A m \in Main \ {n} : InMainOf(m, c)' <=> InMainOf(m, c)
         /\ \A d \in Conn \ {c} : Keeps(d)
<1>0. /\ inbox \in [Thread -> Seq(Conn)] /\ Wait \in Thread \ Main /\ Timer \in Thread \ Main /\ Main \subseteq Thread
  BY ClientPoolAssumption DEF TypeOK, Thread
<1>1. c \in ToSet(waiting) /\ ToSet(waiting') = ToSet(waiting) \ {c} /\ Injective(waiting')
  BY RemoveLists DEF WaitVerified
<1>2. ToSet(inbox[Wait]) \cap ToSet(waiting) = {}
  BY DEF Lists
<1>3. /\ inbox'[n] = Append(inbox[n], c) /\ serving' = serving
      /\ \A t \in Thread \ {n} : inbox'[t] = inbox[t]
  BY <1>0 DEF WaitVerified, AddMain
<1>4. ToSet(inbox'[n]) = ToSet(inbox[n]) \cup {c} /\ Injective(inbox'[n])
  BY <1>0, <1>3, AppendSet DEF InMainOf, Lists
<1>5. Lists'
  <2>1. \A t \in Thread : Injective(inbox'[t])
    BY <1>3, <1>4 DEF Lists
  <2>2. \A m \in Main : ToSet(inbox'[m]) \cap serving'[m] = {}
    BY <1>0, <1>3, <1>4 DEF Lists, InMainOf
  <2>3. ToSet(inbox'[Wait]) \cap ToSet(waiting') = {}
    BY <1>0, <1>1, <1>2, <1>3
  <2> QED  BY <1>0, <1>1, <1>3, <2>1, <2>2, <2>3 DEF Lists
<1>6. \A d \in Conn : InWait(d)' <=> InWait(d) /\ d # c
  BY <1>0, <1>1, <1>2, <1>3 DEF InWait
<1>7. \A d \in Conn : \A m \in Main : InMainOf(m, d)' <=> InMainOf(m, d) \/ (m = n /\ d = c)
  BY <1>0, <1>3, <1>4 DEF InMainOf
<1> QED  BY <1>1, <1>5, <1>6, <1>7 DEF Keeps, InWait

\* A main thread erases a task.
LEMMA LeaveLists ==
  ASSUME TypeOK, Lists, NEW c \in Conn, NEW n \in Main, Leave(n, c)
  PROVE  /\ Lists' /\ InMainOf(n, c) /\ ~InMainOf(n, c)' /\ (InWait(c)' <=> InWait(c))
         /\ \A m \in Main \ {n} : InMainOf(m, c)' <=> InMainOf(m, c)
         /\ \A d \in Conn \ {c} : Keeps(d)
<1>1. /\ serving \in [Main -> SUBSET Conn] /\ inbox' = inbox /\ waiting' = waiting
      /\ serving' = [serving EXCEPT ![n] = @ \ {c}] /\ c \in serving[n]
  BY DEF TypeOK, Leave, waitVars
<1>2. serving'[n] = serving[n] \ {c} /\ \A m \in Main \ {n} : serving'[m] = serving[m]
  BY <1>1
<1>3. ToSet(inbox[n]) \cap serving[n] = {}
  BY DEF Lists
<1>4. Lists'
  BY <1>1, <1>2 DEF Lists
<1>5. \A d \in Conn : /\ InWait(d)' <=> InWait(d)
                      /\ \A m \in Main : InMainOf(m, d)' <=> InMainOf(m, d) /\ ~(m = n /\ d = c)
  BY <1>1, <1>2, <1>3 DEF InWait, InMainOf
<1> QED  BY <1>1, <1>4, <1>5 DEF Keeps, InMainOf

(***************************************************************************)
(* The calls                                                               *)
(***************************************************************************)
LEMMA InitCalling == Init => Calling /\ Lists
<1> SUFFICES ASSUME Init PROVE Calling /\ Lists
  OBVIOUS
<1>1. Calling
  BY DEF Init, Calling
<1>2. ToSet(<<>>) = {} /\ Injective(<<>>)
  BY DEF ToSet, Injective
<1>3. (\A t \in Thread : inbox[t] = <<>>) /\ waiting = <<>> /\ \A n \in Main : serving[n] = {}
  BY DEF Init
<1>4. Main \subseteq Thread /\ Wait \in Thread /\ Timer \in Thread
  BY DEF Thread
<1>5. Lists
  BY <1>2, <1>3, <1>4 DEF Lists
<1> QED  BY <1>1, <1>5

\* A thread is in one call of getNextState at a time.
LEMMA NextCalling == ASSUME TypeOK, Calling, [Next]_vars PROVE Calling'
<1>0. /\ hand \in [Thread -> SUBSET Conn] /\ pc \in [Thread -> {"idle", "add", "call", "effect", "set"}]
      /\ old \in [Thread -> State] /\ Wait \in Thread \ Main /\ Timer \in Thread \ Main /\ Main \subseteq Thread
      /\ Timer # Wait /\ state \in [Conn -> State]
  BY ClientPoolAssumption DEF TypeOK, Thread
<1>1. ASSUME UNCHANGED callVars PROVE Calling'
  BY <1>1 DEF callVars, Calling
<1>2. ASSUME NEW t \in Thread, NEW c \in Conn, NEW f \in {"add", "call"}, f = "add" => t = Timer, Take(t, c, f)
      PROVE  Calling'
  BY <1>0, <1>2 DEF Take, Calling
<1>3. ASSUME NEW t \in Thread, CallStep(t) PROVE Calling'
  <2>1. PICK c \in Conn : GetState(t, c) \/ InOrOut(t, c) \/ SetState(t, c)
    BY <1>3 DEF CallStep
  <2>2. CASE GetState(t, c)
    BY <1>0, <2>2 DEF GetState, Calling, State
  <2>3. CASE InOrOut(t, c)
    BY <1>0, <2>3 DEF InOrOut, Calling
  <2>4. CASE SetState(t, c)
    BY <1>0, <2>4 DEF SetState, Calling
  <2> QED  BY <2>1, <2>2, <2>3, <2>4
<1>4. ASSUME WaitStep PROVE Calling'
  <2>1. CASE \E c \in Conn, n \in Main : WaitVerified(c, n)
    BY <1>0, <1>2, <2>1 DEF WaitVerified, AddMain
  <2> QED  BY <1>1, <1>4, <2>1 DEF WaitStep, CheckWait, WaitEnd, WaitError, WaitRefused, WaitMore, WaitNoThread
<1>5. ASSUME NEW n \in Main, MainStep(n) PROVE Calling'
  BY <1>0, <1>1, <1>2, <1>5 DEF MainStep, CheckMain, SocketError, Leave
<1>6. ASSUME NEW c \in Conn, TimerStep(c) PROVE Calling'
  <2>1. CASE AddCheckwait(c)
    BY <1>0, <2>1 DEF AddCheckwait, Calling
  <2> QED  BY <1>0, <1>2, <1>6, <2>1 DEF TimerStep, Connect, Recycle
<1>7. ASSUME NEW c \in Conn, ConnectFailed(c) \/ Answer(c) \/ Break(c) \/ Elapse(c) PROVE Calling'
  BY <1>1, <1>7 DEF ConnectFailed, Answer, Break, Elapse
<1>8. CASE UNCHANGED vars
  BY <1>1, <1>8 DEF vars
<1> QED  BY <1>3, <1>4, <1>5, <1>6, <1>7, <1>8 DEF Next

(***************************************************************************)
(* The life of a task, step by step.                                        *)
(***************************************************************************)
\* The step changes nothing that Life says of d.
Untouched(d) ==
  /\ Keeps(d) /\ state'[d] = state[d] /\ (d \in aged' <=> d \in aged)
  /\ sock[d] # "null" => sock'[d] # "null"
  /\ d \in container' <=> d \in container
  /\ \A t \in Thread : /\ d \in hand'[t] <=> d \in hand[t]
                       /\ d \in hand[t] => pc'[t] = pc[t] /\ old'[t] = old[t]

\* Being served by a main thread, and by which.
LEMMA InMainIs == ASSUME NEW c PROVE InMain(c) <=> \E n \in Main : InMainOf(n, c)
BY DEF InMain, InMainOf

\* What follows for a task that keeps its place.
LEMMA KeepsPlaces ==
  ASSUME NEW d, Keeps(d)
  PROVE  (InMain(d)' <=> InMain(d)) /\ (Placed(d)' <=> Placed(d)) /\ Bound(d)' = Bound(d)
<1>1. InMain(d)' <=> \E n \in Main : InMainOf(n, d)'
  BY DEF InMain, InMainOf
<1>2. InMain(d)' <=> InMain(d)
  BY <1>1, InMainIs DEF Keeps
<1> QED  BY <1>2 DEF Keeps, Placed, Bound

\* A task nobody touches keeps its part of the invariant.
LEMMA UntouchedLife == ASSUME NEW d \in Conn, Life(d), Untouched(d) PROVE Life(d)'
<1>1. Keeps(d) /\ (InMain(d)' <=> InMain(d)) /\ (Placed(d)' <=> Placed(d)) /\ Bound(d)' = Bound(d)
  BY KeepsPlaces DEF Untouched
<1>2. Timer \in Thread /\ Wait \in Thread /\ Main \subseteq Thread
  BY DEF Thread
<1>3. (MainCall(d)' <=> MainCall(d)) /\ Calls(d)' = Calls(d) /\ (Busy(d)' <=> Busy(d))
  BY <1>2 DEF Untouched, MainCall, Calls, Busy, One
<1>4. Counted(d)'
  <2>1. CASE Closing(d)
    BY <1>1, <1>2, <1>3, <2>1 DEF Closing, Counted, Untouched
  <2>2. CASE /\ Rank(state[d]) + Calls(d) <= Bound(d)
             /\ \A t \in Thread : d \in hand[t] /\ pc[t] \in {"effect", "set"} => Rank(old[t]) + Calls(d) <= Bound(d)
    BY <1>1, <1>3, <2>2 DEF Counted, Untouched
  <2> QED  BY <2>1, <2>2 DEF Life, Counted
<1>5. Single(d)'
  <2>1. ~(InWait(d)' /\ InMain(d)')
    BY <1>1 DEF Keeps, Life, Single
  <2>2. \A n, m \in Main : InMainOf(n, d)' /\ InMainOf(m, d)' => n = m
    BY <1>1 DEF Keeps, Life, Single
  <2>3. \A n, m \in Main : d \in hand'[n] /\ d \in hand'[m] => n = m
    BY <1>2 DEF Untouched, Life, Single
  <2>4. Placed(d)' => ~MainCall(d)' /\ sock'[d] # "null" /\ (state'[d] = "close" => d \in hand'[Timer])
    BY <1>1, <1>2, <1>3 DEF Untouched, Life, Single
  <2> QED  BY <2>1, <2>2, <2>3, <2>4 DEF Single
<1>6. Adding(d)'
  BY <1>1, <1>2, <1>3 DEF Untouched, Life, Adding
<1>7. Aging(d)'
  BY <1>1, <1>2, <1>3 DEF Untouched, Life, Aging
<1>8. Listed(d)'
  BY <1>2 DEF Untouched, Life, Listed
<1> QED  BY <1>4, <1>5, <1>6, <1>7, <1>8 DEF Life

\* How many calls there are: one more, one less, or two at least.
LEMMA CallsAre ==
  ASSUME TypeOK, NEW c
  PROVE  /\ Calls(c) \in 0 .. 3
         /\ \A t \in Thread : c \in hand[t] => Calls(c) >= 1
         /\ Calls(c) = 0 => ~Busy(c)
BY DEF Calls, One, MainCall, Busy, Thread

\* Two threads in a call on one task are two calls.
LEMMA CallsTwo ==
  ASSUME TypeOK, NEW c, Single(c), NEW t \in Thread, NEW u \in Thread, t # u, c \in hand[t], c \in hand[u]
  PROVE  Calls(c) >= 2
<1>1. t \in Main /\ u \in Main => t = u
  BY DEF Single
<1> QED  BY <1>1 DEF Calls, One, MainCall, Thread

\* A call that ends is one call less,
LEMMA CallsRelease ==
  ASSUME TypeOK, NEW c, Single(c), NEW t \in Thread, c \in hand[t], hand' = [hand EXCEPT ![t] = {}]
  PROVE  /\ Calls(c)' = Calls(c) - 1
         /\ c \notin hand'[t] /\ \A u \in Thread \ {t} : hand'[u] = hand[u]
<1>1. c \notin hand'[t] /\ \A u \in Thread \ {t} : hand'[u] = hand[u]
  BY DEF TypeOK
<1>2. Timer \in Thread \ Main /\ Wait \in Thread \ Main /\ Timer # Wait /\ Main \subseteq Thread
  BY ClientPoolAssumption DEF Thread
<1>3. CASE t \in Main
  <2>1. MainCall(c) /\ ~MainCall(c)'
    BY <1>1, <1>2, <1>3 DEF MainCall, Single
  <2>2. hand'[Timer] = hand[Timer] /\ hand'[Wait] = hand[Wait]
    BY <1>1, <1>2, <1>3
  <2> QED  BY <1>1, <2>1, <2>2 DEF Calls, One
<1>4. CASE t \in {Timer, Wait}
  <2>1. MainCall(c)' <=> MainCall(c)
    BY <1>1, <1>2, <1>4 DEF MainCall
  <2> QED  BY <1>1, <1>2, <1>4, <2>1 DEF Calls, One
<1> QED  BY <1>3, <1>4 DEF Thread

\* and one that begins is one more.
LEMMA CallsTake ==
  ASSUME TypeOK, NEW c, NEW t \in Thread, hand[t] = {}, t \in Main => ~MainCall(c), hand' = [hand EXCEPT ![t] = {c}]
  PROVE  /\ Calls(c)' = Calls(c) + 1
         /\ hand'[t] = {c} /\ \A u \in Thread \ {t} : hand'[u] = hand[u]
<1>1. hand'[t] = {c} /\ \A u \in Thread \ {t} : hand'[u] = hand[u]
  BY DEF TypeOK
<1>2. Timer \in Thread \ Main /\ Wait \in Thread \ Main /\ Timer # Wait /\ Main \subseteq Thread
  BY ClientPoolAssumption DEF Thread
<1>3. CASE t \in Main
  <2>1. ~MainCall(c) /\ MainCall(c)'
    BY <1>1, <1>2, <1>3 DEF MainCall
  <2>2. hand'[Timer] = hand[Timer] /\ hand'[Wait] = hand[Wait]
    BY <1>1, <1>2, <1>3
  <2> QED  BY <1>1, <2>1, <2>2 DEF Calls, One
<1>4. CASE t \in {Timer, Wait}
  <2>1. MainCall(c)' <=> MainCall(c)
    BY <1>1, <1>2, <1>4 DEF MainCall
  <2> QED  BY <1>1, <1>2, <1>4, <2>1 DEF Calls, One
<1> QED  BY <1>3, <1>4 DEF Thread

\* Steps that change nothing of a life: a socket that does not become null, a
\* connection told to terminate, a walk going on, tasks moved within a thread.
LEMMA QuietLife ==
  ASSUME \A d \in Conn : Keeps(d), UNCHANGED <<state, aged, container, callVars>>,
         \A d \in Conn : sock[d] # "null" => sock'[d] # "null", \A d \in Conn : Life(d)
  PROVE  \A d \in Conn : Life(d)'
<1> SUFFICES ASSUME NEW d \in Conn PROVE Untouched(d)
  BY UntouchedLife
<1> QED  BY DEF Untouched, callVars

\* What a call of getNextState does to its task: it reads the state,
LEMMA GetStateLife ==
  ASSUME TypeOK, Calling, NEW t \in Thread, NEW c \in Conn, GetState(t, c), Keeps(c), Life(c)
  PROVE  Life(c)'
<1>1. /\ pc[t] = "call" /\ c \in hand[t] /\ state' = state /\ hand' = hand /\ sock' = sock /\ container' = container
      /\ c \notin aged' /\ old'[t] = state[c] /\ \A u \in Thread \ {t} : old'[u] = old[u] /\ pc'[u] = pc[u]
      /\ pc'[t] = IF state[c] \in {"sync", "okay"} THEN "effect" ELSE "set"
  BY DEF GetState, TypeOK
<1>2. Timer \in Thread /\ Wait \in Thread /\ Main \subseteq Thread
  BY DEF Thread
<1>3. (InMain(c)' <=> InMain(c)) /\ (Placed(c)' <=> Placed(c)) /\ Bound(c)' = Bound(c)
  BY KeepsPlaces
<1>4. (MainCall(c)' <=> MainCall(c)) /\ Calls(c)' = Calls(c)
  BY <1>1 DEF MainCall, Calls
<1>5. Counted(c)'
  <2>1. CASE Closing(c)
    <3>1. t = Timer
      BY <1>1, <2>1 DEF Closing, MainCall, Thread
    <3> QED  BY <1>1, <1>2, <1>3, <1>4, <2>1, <3>1 DEF Closing, Counted
  <2>2. CASE /\ Rank(state[c]) + Calls(c) <= Bound(c)
             /\ \A u \in Thread : c \in hand[u] /\ pc[u] \in {"effect", "set"} => Rank(old[u]) + Calls(c) <= Bound(c)
    <3>1. ASSUME NEW u \in Thread, c \in hand'[u], pc'[u] \in {"effect", "set"}
          PROVE  Rank(old'[u]) + Calls(c)' <= Bound(c)'
      BY <1>1, <1>3, <1>4, <2>2, <3>1
    <3> QED  BY <1>1, <1>3, <1>4, <2>2, <3>1 DEF Counted
  <2> QED  BY <2>1, <2>2 DEF Life, Counted
<1>6. Single(c)'
  BY <1>1, <1>3, <1>4 DEF Life, Single, Keeps
<1>7. Adding(c)'
  BY <1>1, <1>2, <1>3, <1>4 DEF Life, Adding
<1>8. Aging(c)'
  BY <1>1 DEF Aging
<1>9. Listed(c)'
  <2>1. ASSUME NEW u \in Thread, c \in hand'[u], pc'[u] = "set", old'[u] = "sync" PROVE c \in container'
    BY <1>1, <2>1 DEF Life, Listed
  <2>2. ASSUME state'[c] = "okay", c \notin container'
        PROVE  \E u \in Thread : c \in hand'[u] /\ pc'[u] = "set" /\ old'[u] = "okay"
    <3>1. PICK u \in Thread : c \in hand[u] /\ pc[u] = "set" /\ old[u] = "okay"
      BY <1>1, <2>2 DEF Life, Listed
    <3> QED  BY <1>1, <3>1
  <2> QED  BY <2>1, <2>2 DEF Listed
<1> QED  BY <1>5, <1>6, <1>7, <1>8, <1>9 DEF Life

\* it puts the task into the container or takes it out,
LEMMA InOrOutLife ==
  ASSUME TypeOK, Calling, NEW t \in Thread, NEW c \in Conn, InOrOut(t, c), Keeps(c), Life(c)
  PROVE  Life(c)'
<1>1. /\ pc[t] = "effect" /\ c \in hand[t] /\ state' = state /\ hand' = hand /\ sock' = sock /\ aged' = aged /\ old' = old
      /\ pc'[t] = "set" /\ (\A u \in Thread \ {t} : pc'[u] = pc[u]) /\ old[t] \in {"sync", "okay"}
      /\ container' = IF old[t] = "sync" THEN container \cup {c} ELSE container \ {c}
  BY DEF InOrOut, TypeOK, Calling
<1>2. Timer \in Thread /\ Wait \in Thread /\ Main \subseteq Thread
  BY DEF Thread
<1>3. (InMain(c)' <=> InMain(c)) /\ (Placed(c)' <=> Placed(c)) /\ Bound(c)' = Bound(c)
  BY KeepsPlaces
<1>4. (MainCall(c)' <=> MainCall(c)) /\ Calls(c)' = Calls(c)
  BY <1>1 DEF MainCall, Calls
<1>5. ~Closing(c)
  BY <1>1 DEF Closing, MainCall, Thread
<1>6. /\ Rank(state[c]) + Calls(c) <= Bound(c)
      /\ \A u \in Thread : c \in hand[u] /\ pc[u] \in {"effect", "set"} => Rank(old[u]) + Calls(c) <= Bound(c)
  BY <1>5 DEF Life, Counted
<1>7. Counted(c)'
  <2>1. ASSUME NEW u \in Thread, c \in hand'[u], pc'[u] \in {"effect", "set"}
        PROVE  Rank(old'[u]) + Calls(c)' <= Bound(c)'
    BY <1>1, <1>3, <1>4, <1>6, <2>1
  <2> QED  BY <1>1, <1>3, <1>4, <1>6, <2>1 DEF Counted
<1>8. Single(c)'
  BY <1>1, <1>3, <1>4 DEF Life, Single, Keeps
<1>9. Adding(c)'
  BY <1>1, <1>2, <1>3, <1>4 DEF Life, Adding
<1>10. Aging(c)'
  BY <1>1, <1>2 DEF Life, Aging, Busy
<1>11. Listed(c)'
  <2>1. CASE old[t] = "sync"
    BY <1>1, <2>1 DEF Listed
  <2>2. CASE old[t] = "okay"
    <3>1. ASSUME NEW u \in Thread, c \in hand'[u], pc'[u] = "set", old'[u] = "sync" PROVE FALSE
      <4>1. u # t /\ c \in hand[u]
        BY <1>1, <2>2, <3>1
      <4>2. Calls(c) >= 2
        BY <1>1, <4>1, CallsTwo DEF Life
      <4>3. 2 + Calls(c) <= Bound(c)
        BY <1>1, <1>6, <2>2 DEF Rank
      <4> QED  BY <4>2, <4>3, CallsAre DEF Bound
    <3> QED  BY <1>1, <2>2, <3>1 DEF Listed
  <2> QED  BY <1>1, <2>1, <2>2
<1> QED  BY <1>7, <1>8, <1>9, <1>10, <1>11 DEF Life

\* and it sets the state.
LEMMA SetStateLife ==
  ASSUME TypeOK, Calling, NEW t \in Thread, NEW c \in Conn, SetState(t, c), Keeps(c), Life(c)
  PROVE  Life(c)'
<1>1. /\ pc[t] = "set" /\ c \in hand[t] /\ hand' = [hand EXCEPT ![t] = {}] /\ aged' = aged /\ container' = container
      /\ old' = old /\ pc'[t] = "idle" /\ (\A u \in Thread \ {t} : pc'[u] = pc[u]) /\ state'[c] = NextOf(old[t])
      /\ sock'[c] = IF old[t] = "recycle" THEN "null" ELSE sock[c]
      /\ old[t] \in State
  BY DEF SetState, Final, TypeOK
<1>2. Timer \in Thread /\ Wait \in Thread /\ Main \subseteq Thread
  BY DEF Thread
<1>3. (InMain(c)' <=> InMain(c)) /\ (Placed(c)' <=> Placed(c)) /\ Bound(c)' = Bound(c)
  BY KeepsPlaces
<1>4. /\ Calls(c)' = Calls(c) - 1 /\ Calls(c) \in 1 .. 3
      /\ c \notin hand'[t] /\ \A u \in Thread \ {t} : hand'[u] = hand[u]
  <2>1. Single(c) /\ Calls(c) \in 0 .. 3 /\ Calls(c) >= 1
    BY <1>1, CallsAre DEF Life
  <2>2. /\ Calls(c)' = Calls(c) - 1
        /\ c \notin hand'[t] /\ \A u \in Thread \ {t} : hand'[u] = hand[u]
    BY <1>1, <2>1, CallsRelease
  <2> QED  BY <2>1, <2>2
<1>5. c \in aged => t # Timer /\ c \in hand[Timer] /\ pc[Timer] \in {"add", "call"}
  BY <1>1 DEF Life, Aging, Busy
<1>6. CASE Closing(c)
  <2>1. t = Timer /\ old[t] = "recycle"
    BY <1>1, <1>6 DEF Closing, MainCall, Thread
  <2>2. Calls(c)' = 0 /\ state'[c] = "close" /\ ~Placed(c)'
    BY <1>1, <1>2, <1>3, <1>4, <1>6, <2>1 DEF Closing, Calls, One, NextOf
  <2>3. \A u \in Thread : c \notin hand'[u]
    BY <1>1, <1>4, <1>6, <2>1 DEF Closing, MainCall, Thread
  <2>4. Counted(c)'
    <3>1. Rank(state'[c]) + Calls(c)' <= Bound(c)'
      BY <2>2 DEF Rank, Bound
    <3> QED  BY <2>3, <3>1 DEF Counted
  <2>5. Single(c)'
    BY <1>2, <2>2, <2>3 DEF Single, Placed, InMain, InMainOf
  <2> QED  BY <1>1, <1>2, <1>5, <2>2, <2>3, <2>4, <2>5 DEF Life, Adding, Aging, Listed
<1>7. CASE ~Closing(c)
  <2>1. /\ Rank(state[c]) + Calls(c) <= Bound(c)
        /\ \A u \in Thread : c \in hand[u] /\ pc[u] \in {"effect", "set"} => Rank(old[u]) + Calls(c) <= Bound(c)
    BY <1>7 DEF Life, Counted
  <2>2. Rank(old[t]) + Calls(c) <= Bound(c) /\ Bound(c) \in 1 .. 3
    BY <1>1, <2>1 DEF Bound
  <2>3. old[t] # "recycle"
    BY <1>4, <2>2 DEF Rank
  <2>4. Rank(state'[c]) = Rank(old[t]) + 1 /\ Rank(old[t]) \in 0 .. 2 /\ state'[c] # "close" /\ sock'[c] = sock[c]
        /\ (state'[c] = "okay" => old[t] = "sync")
    BY <1>1, <2>3 DEF State, Rank, NextOf
  <2>5. Counted(c)'
    <3>1. ASSUME NEW u \in Thread, c \in hand'[u], pc'[u] \in {"effect", "set"}
          PROVE  Rank(old'[u]) + Calls(c)' <= Bound(c)'
      <4>1. u # t /\ c \in hand[u] /\ pc[u] \in {"effect", "set"} /\ old'[u] = old[u]
        BY <1>1, <1>4, <3>1
      <4>2. old[u] \in State /\ Rank(old[u]) \in 0 .. 3
        BY DEF TypeOK, State, Rank
      <4> QED  BY <1>3, <1>4, <2>1, <2>2, <4>1, <4>2
    <3>2. Rank(state'[c]) + Calls(c)' <= Bound(c)'
      BY <1>3, <1>4, <2>2, <2>4
    <3> QED  BY <3>1, <3>2 DEF Counted
  <2>6. Single(c)'
    <3>1. \A u \in Thread : c \in hand'[u] => c \in hand[u]
      BY <1>4
    <3>2. MainCall(c)' => MainCall(c)
      BY <1>2, <3>1 DEF MainCall
    <3>3. Placed(c)' => ~MainCall(c)' /\ sock'[c] # "null" /\ (state'[c] = "close" => c \in hand'[Timer])
      BY <1>3, <2>4, <3>2 DEF Life, Single
    <3>4. \A n, m \in Main : c \in hand'[n] /\ c \in hand'[m] => n = m
      BY <1>2, <3>1 DEF Life, Single
    <3>5. \A n, m \in Main : InMainOf(n, c)' /\ InMainOf(m, c)' => n = m
      BY DEF Life, Single, Keeps
    <3>6. ~(InWait(c)' /\ InMain(c)')
      BY <1>3 DEF Life, Single, Keeps
    <3> QED  BY <3>3, <3>4, <3>5, <3>6 DEF Single
  <2>7. Adding(c)'
    <3>1. c \in hand[t] /\ ~(c \in hand[Timer] /\ pc[Timer] = "add")
      BY <1>1, <1>2 DEF Life, Adding, MainCall, Thread
    <3> QED  BY <1>1, <1>2, <1>4, <3>1 DEF Adding
  <2>8. Listed(c)'
    BY <1>1, <1>4, <2>4 DEF Life, Listed
  <2>9. Aging(c)'
    BY <1>1, <1>2, <1>4, <1>5 DEF Aging
  <2> QED  BY <1>1, <1>5, <2>5, <2>6, <2>7, <2>8, <2>9 DEF Life
<1> QED  BY <1>6, <1>7

\* The call is of one task: the life of every other task is as it was.
LEMMA CallLife ==
  ASSUME TypeOK, Calling, Lists, \A d \in Conn : Life(d), NEW t \in Thread, CallStep(t)
  PROVE  \A d \in Conn : Life(d)'
<1>1. PICK c \in Conn : GetState(t, c) \/ InOrOut(t, c) \/ SetState(t, c)
  BY DEF CallStep
<1>2. c \in hand[t] /\ (\A d \in Conn : Keeps(d)) /\ \A d \in Conn \ {c} : d \notin hand[t]
  <2>1. c \in hand[t] /\ UNCHANGED <<inbox, waiting, serving>>
    BY <1>1 DEF GetState, InOrOut, SetState, waitVars
  <2> QED  BY <2>1, StillLists DEF Calling
<1>3. ASSUME NEW d \in Conn \ {c} PROVE Untouched(d)
  <2>1. state'[d] = state[d] /\ (d \in aged' <=> d \in aged) /\ sock'[d] = sock[d] /\ (d \in container' <=> d \in container)
    BY <1>1 DEF GetState, InOrOut, SetState, Final, TypeOK
  <2>2. ASSUME NEW u \in Thread
        PROVE  (d \in hand'[u] <=> d \in hand[u]) /\ (d \in hand[u] => pc'[u] = pc[u] /\ old'[u] = old[u])
    <3>1. CASE u = t
      BY <1>1, <1>2, <3>1 DEF GetState, InOrOut, SetState, TypeOK
    <3>2. CASE u # t
      BY <1>1, <3>2 DEF GetState, InOrOut, SetState, TypeOK
    <3> QED  BY <3>1, <3>2
  <2> QED  BY <1>2, <2>1, <2>2 DEF Untouched
<1>4. Life(c)'
  BY <1>1, <1>2, GetStateLife, InOrOutLife, SetStateLife
<1> QED  BY <1>3, <1>4, UntouchedLife

\* A thread that takes a task leaves the other tasks alone.
LEMMA TakeOthers ==
  ASSUME TypeOK, Calling, NEW t \in Thread, pc[t] = "idle", NEW c \in Conn, NEW f, Take(t, c, f),
         NEW d \in Conn \ {c}, Keeps(d), state'[d] = state[d], aged' = aged, container' = container,
         sock[d] # "null" => sock'[d] # "null", Life(d)
  PROVE  Life(d)'
<1>1. hand[t] = {}
  BY DEF Calling
<1>2. \A u \in Thread : /\ d \in hand'[u] <=> d \in hand[u]
                        /\ d \in hand[u] => pc'[u] = pc[u] /\ old'[u] = old[u]
  BY <1>1 DEF Take, TypeOK
<1> QED  BY <1>2, UntouchedLife DEF Untouched

\* A task that nobody is about to change or serves: the timer finds it so.
LEMMA Ready ==
  ASSUME TypeOK, Calling, NEW c \in Conn, Life(c), pc[Timer] = "idle", c \in aged
  PROVE  /\ Calls(c) = 0 /\ ~Placed(c) /\ ~MainCall(c) /\ c \notin hand[Wait] /\ hand[Timer] = {}
         /\ \A t \in Thread : c \notin hand[t]
<1>0. Timer \in Thread /\ Wait \in Thread /\ Main \subseteq Thread
  BY DEF Thread
<1>1. hand[Timer] = {}
  BY <1>0 DEF Calling
<1>2. ~Busy(c) /\ state[c] \in {"close", "recycle"}
  BY <1>1 DEF Life, Aging
<1>3. \A t \in Thread : c \notin hand[t]
  BY <1>2 DEF Busy
<1>4. ~MainCall(c) /\ Calls(c) = 0
  BY <1>0, <1>3 DEF MainCall, Calls, One
<1>5. ~Placed(c)
  <2>1. CASE state[c] = "close"
    BY <1>1, <2>1 DEF Life, Single
  <2>2. CASE state[c] = "recycle"
    <3>1. 3 + 0 <= Bound(c)
      BY <1>1, <1>4, <2>2 DEF Life, Counted, Closing, Rank
    <3> QED  BY <3>1 DEF Bound, Placed
  <2> QED  BY <1>2, <2>1, <2>2
<1> QED  BY <1>0, <1>1, <1>3, <1>4, <1>5

\* What the timer begins: to connect a task, or to close it.
LEMMA TimerLife ==
  ASSUME TypeOK, Calling, Lists, \A d \in Conn : Life(d), NEW c \in Conn, Connect(c) \/ Recycle(c)
  PROVE  \A d \in Conn : Life(d)'
<1>0. Timer \in Thread /\ Wait \in Thread /\ Main \subseteq Thread /\ Timer # Wait /\ Timer \notin Main
  BY ClientPoolAssumption DEF Thread
<1>1. /\ pc[Timer] = "idle" /\ c \in aged /\ state' = state /\ aged' = aged /\ container' = container
      /\ (\A d \in Conn : sock[d] # "null" => sock'[d] # "null") /\ UNCHANGED <<inbox, waiting, serving>>
      /\ Take(Timer, c, IF state[c] = "close" THEN "add" ELSE "call") /\ state[c] \in {"close", "recycle"}
      /\ (state[c] = "close" => sock'[c] # "null")
  BY DEF Connect, Recycle, connVars, waitVars, TypeOK, Socket
<1>2. \A d \in Conn : Keeps(d)
  BY <1>1, StillLists
<1>3. /\ Calls(c) = 0 /\ ~Placed(c) /\ ~MainCall(c) /\ c \notin hand[Wait] /\ hand[Timer] = {}
      /\ \A t \in Thread : c \notin hand[t]
  BY <1>1, Ready
<1>4. /\ hand'[Timer] = {c} /\ (\A u \in Thread \ {Timer} : hand'[u] = hand[u]) /\ Calls(c)' = 1
      /\ pc'[Timer] = (IF state[c] = "close" THEN "add" ELSE "call") /\ old' = old
  <2>1. hand' = [hand EXCEPT ![Timer] = {c}]
    BY <1>1 DEF Take
  <2>2. /\ Calls(c)' = Calls(c) + 1
        /\ hand'[Timer] = {c} /\ \A u \in Thread \ {Timer} : hand'[u] = hand[u]
    BY <1>0, <1>3, <2>1, CallsTake
  <2> QED  BY <1>0, <1>1, <1>3, <2>2 DEF Take, TypeOK
<1>5. ~Placed(c)' /\ Bound(c)' = 3
  BY <1>2, <1>3, KeepsPlaces DEF Placed, Bound
<1>6. ~MainCall(c)' /\ c \notin hand'[Wait] /\ \A t \in Thread \ {Timer} : c \notin hand'[t]
  BY <1>0, <1>3, <1>4 DEF MainCall
<1>7. Counted(c)'
  <2>1. CASE state[c] = "close"
    BY <1>1, <1>4, <1>5, <1>6, <2>1 DEF Counted, Rank
  <2>2. CASE state[c] = "recycle"
    BY <1>1, <1>4, <1>5, <1>6, <2>2 DEF Counted, Closing
  <2> QED  BY <1>1, <2>1, <2>2
<1>8. Single(c)'
  BY <1>0, <1>5, <1>6 DEF Single, Placed, InMain, InMainOf
<1>9. Adding(c)' /\ Aging(c)' /\ Listed(c)'
  BY <1>1, <1>4, <1>5, <1>6 DEF Adding, Aging, Listed
<1>10. ASSUME NEW d \in Conn \ {c} PROVE Life(d)'
  BY <1>0, <1>1, <1>2, TakeOthers
<1> QED  BY <1>7, <1>8, <1>9, <1>10 DEF Life

\* The timer adds the task it has connected.
LEMMA AddLife ==
  ASSUME TypeOK, Calling, Lists, \A d \in Conn : Life(d), NEW c \in Conn, AddCheckwait(c)
  PROVE  Lists' /\ \A d \in Conn : Life(d)'
<1>0. Timer \in Thread /\ Wait \in Thread /\ Main \subseteq Thread /\ Timer # Wait /\ Timer \notin Main
  BY ClientPoolAssumption DEF Thread
<1>1. /\ c \in hand[Timer] /\ pc[Timer] = "add" /\ hand' = hand /\ old' = old /\ pc'[Timer] = "call"
      /\ (\A u \in Thread \ {Timer} : pc'[u] = pc[u])
      /\ UNCHANGED <<state, aged, sock, terminate, container>>
  BY <1>0 DEF AddCheckwait, connVars, TypeOK
<1>2. ~Placed(c) /\ c \notin hand[Wait] /\ ~MainCall(c) /\ sock[c] # "null" /\ state[c] = "close"
  BY <1>1 DEF Life, Adding
<1>3. /\ Lists' /\ InWait(c)' /\ \A n \in Main : InMainOf(n, c)' <=> InMainOf(n, c)
      /\ \A d \in Conn \ {c} : Keeps(d)
  BY <1>2, AddLists DEF Placed
<1>4. ~InMain(c)' /\ \A n \in Main : ~InMainOf(n, c)'
  BY <1>2, <1>3 DEF Placed, InMain, InMainOf
<1>5. Calls(c)' = 1 /\ ~MainCall(c)' /\ \A t \in Thread \ {Timer} : c \notin hand[t]
  BY <1>0, <1>1, <1>2 DEF Calls, One, MainCall, Thread
<1>6. Counted(c)'
  BY <1>0, <1>1, <1>2, <1>3, <1>5 DEF Counted, Rank, Bound
<1>7. Single(c)'
  BY <1>0, <1>1, <1>2, <1>4, <1>5 DEF Single
<1>8. Adding(c)' /\ Aging(c)' /\ Listed(c)'
  BY <1>0, <1>1, <1>2, <1>5 DEF Adding, Aging, Listed
<1>9. ASSUME NEW d \in Conn \ {c} PROVE Life(d)'
  <2>1. d \notin hand[Timer]
    BY <1>0, <1>1 DEF Calling
  <2> QED  BY <1>1, <1>3, <2>1, UntouchedLife DEF Untouched
<1> QED  BY <1>3, <1>6, <1>7, <1>8, <1>9 DEF Life

\* The wait thread resets a task it drops.
LEMMA DropLife ==
  ASSUME TypeOK, Calling, Lists, \A d \in Conn : Life(d), GarbageEvents \subseteq {"none"},
         NEW c \in Conn, WaitError(c) \/ WaitRefused(c) \/ WaitNoThread(c)
  PROVE  Lists' /\ \A d \in Conn : Life(d)'
<1>0. Timer \in Thread /\ Wait \in Thread /\ Main \subseteq Thread
  BY DEF Thread
<1>1. /\ \E e \in {"error", "input"} : Walking(c, e)
      /\ remove(i) /\ inbox' = inbox /\ serving' = serving /\ UNCHANGED <<container, callVars>> /\ resetState(c)
  BY DEF WaitError, WaitRefused, WaitNoThread
<1>2. /\ state'[c] = "close" /\ c \notin aged' /\ container' = container /\ hand' = hand /\ pc' = pc /\ old' = old
      /\ \A d \in Conn \ {c} : state'[d] = state[d] /\ (d \in aged' <=> d \in aged) /\ sock'[d] = sock[d]
  BY <1>1 DEF resetState, Final, callVars, TypeOK
<1>3. /\ Lists' /\ InWait(c) /\ ~InWait(c)' /\ \A n \in Main : InMainOf(n, c)' <=> InMainOf(n, c)
      /\ \A d \in Conn \ {c} : Keeps(d)
  BY <1>1, DropLists
<1>4. ~InMain(c) /\ Placed(c)
  BY <1>3 DEF Life, Single, Placed
<1>5. ~InMain(c)' /\ ~Placed(c)' /\ Bound(c) = 1 /\ Bound(c)' = 3 /\ \A n \in Main : ~InMainOf(n, c)'
  BY <1>3, <1>4 DEF InMain, InMainOf, Placed, Bound
<1>6. (MainCall(c)' <=> MainCall(c)) /\ Calls(c)' = Calls(c) /\ Calls(c) \in 0 .. 3
  BY <1>2, CallsAre DEF MainCall, Calls
<1>7. Counted(c)'
  <2>1. ~Closing(c)
    BY <1>4 DEF Closing
  <2>2. \A u \in Thread : c \in hand[u] /\ pc[u] \in {"effect", "set"} => Rank(old[u]) + Calls(c) <= 1
    BY <1>5, <2>1 DEF Life, Counted
  <2>3. \A u \in Thread : Rank(old[u]) \in 0 .. 3
    BY DEF TypeOK, State, Rank
  <2>4. \A u \in Thread : c \in hand'[u] /\ pc'[u] \in {"effect", "set"} => Rank(old'[u]) + Calls(c)' <= Bound(c)'
    BY <1>2, <1>5, <1>6, <2>2, <2>3
  <2>5. Rank(state'[c]) = 0
    BY <1>2 DEF Rank
  <2> QED  BY <1>5, <1>6, <2>4, <2>5 DEF Counted
<1>8. Single(c)'
  BY <1>2, <1>5, <1>6 DEF Life, Single
<1>9. Adding(c)'
  BY <1>2, <1>4 DEF Life, Adding
<1>10. Aging(c)' /\ Listed(c)'
  BY <1>2 DEF Life, Aging, Listed
<1>11. ASSUME NEW d \in Conn \ {c} PROVE Life(d)'
  BY <1>2, <1>3, UntouchedLife DEF Untouched
<1> QED  BY <1>3, <1>7, <1>8, <1>9, <1>10, <1>11 DEF Life

\* The wait thread hands a task over to a main thread.
LEMMA VerifiedLife ==
  ASSUME TypeOK, Calling, Lists, \A d \in Conn : Life(d), GarbageEvents \subseteq {"none"},
         NEW c \in Conn, NEW n \in Main, WaitVerified(c, n)
  PROVE  Lists' /\ \A d \in Conn : Life(d)'
<1>0. Timer \in Thread /\ Wait \in Thread /\ Main \subseteq Thread /\ Timer # Wait /\ Timer \notin Main /\ Wait \notin Main
  BY ClientPoolAssumption DEF Thread
<1>1. /\ Walking(c, "input") /\ remove(i) /\ Take(Wait, c, "call") /\ pc[Wait] = "idle"
      /\ state' = state /\ aged' = aged /\ container' = container /\ sock'[c] # "null"
      /\ \A d \in Conn \ {c} : sock'[d] = sock[d]
  BY DEF WaitVerified, AddMain, Walking, TypeOK
<1>2. InWait(c)
  BY <1>1, RemoveLists DEF InWait
<1>3. ~InMain(c) /\ Placed(c) /\ \A m \in Main : ~InMainOf(m, c)
  BY <1>2 DEF Life, Single, Placed, InMain, InMainOf
<1>4. /\ Lists' /\ ~InWait(c)' /\ InMainOf(n, c)'
      /\ \A m \in Main \ {n} : InMainOf(m, c)' <=> InMainOf(m, c)
      /\ \A d \in Conn \ {c} : Keeps(d)
  BY <1>3, VerifiedLists
<1>5. InMain(c)' /\ Bound(c) = 1 /\ Bound(c)' = 2
  BY <1>2, <1>4 DEF InMain, InMainOf, Bound
<1>6. ~Closing(c) /\ Rank(state[c]) + Calls(c) <= 1
      /\ \A u \in Thread : c \in hand[u] /\ pc[u] \in {"effect", "set"} => Rank(old[u]) + Calls(c) <= 1
  BY <1>3, <1>5 DEF Life, Counted, Closing
<1>7. /\ hand[Wait] = {} /\ hand'[Wait] = {c} /\ (\A u \in Thread \ {Wait} : hand'[u] = hand[u])
      /\ Calls(c)' = Calls(c) + 1 /\ Calls(c) \in 0 .. 3
      /\ pc'[Wait] = "call" /\ (\A u \in Thread \ {Wait} : pc'[u] = pc[u]) /\ old' = old
  <2>1. hand[Wait] = {} /\ hand' = [hand EXCEPT ![Wait] = {c}]
    BY <1>0, <1>1 DEF Take, Calling
  <2>2. /\ Calls(c)' = Calls(c) + 1
        /\ hand'[Wait] = {c} /\ \A u \in Thread \ {Wait} : hand'[u] = hand[u]
    BY <1>0, <2>1, CallsTake
  <2>3. pc'[Wait] = "call" /\ (\A u \in Thread \ {Wait} : pc'[u] = pc[u]) /\ old' = old
    BY <1>0, <1>1 DEF Take, TypeOK
  <2> QED  BY <2>1, <2>2, <2>3, CallsAre
<1>8. ~MainCall(c) /\ ~MainCall(c)' /\ (state[c] = "close" => c \in hand[Timer])
  <2>1. ~MainCall(c) /\ (state[c] = "close" => c \in hand[Timer])
    BY <1>3 DEF Life, Single
  <2> QED  BY <1>0, <1>7, <2>1 DEF MainCall
<1>9. Counted(c)'
  <2>1. \A u \in Thread : Rank(old[u]) \in 0 .. 3
    BY DEF TypeOK, State, Rank
  <2>2. Rank(state[c]) \in 0 .. 3
    BY DEF TypeOK, State, Rank
  <2>3. \A u \in Thread : c \in hand'[u] /\ pc'[u] \in {"effect", "set"} => Rank(old'[u]) + Calls(c)' <= Bound(c)'
    <3> SUFFICES ASSUME NEW u \in Thread, c \in hand'[u], pc'[u] \in {"effect", "set"}
                 PROVE  Rank(old'[u]) + Calls(c)' <= Bound(c)'
      OBVIOUS
    <3>1. u # Wait /\ c \in hand[u] /\ pc[u] \in {"effect", "set"} /\ old'[u] = old[u]
      BY <1>7
    <3> QED  BY <1>5, <1>6, <1>7, <2>1, <3>1
  <2> QED  BY <1>1, <1>5, <1>6, <1>7, <2>2, <2>3 DEF Counted
<1>10. Single(c)'
  BY <1>0, <1>1, <1>3, <1>4, <1>7, <1>8 DEF Life, Single
<1>11. Adding(c)'
  BY <1>0, <1>3, <1>7 DEF Life, Adding
<1>12. Aging(c)'
  <2>1. c \in aged => c \in hand[Timer] /\ pc[Timer] \in {"add", "call"}
    <3>1. state[c] # "recycle"
      BY <1>6, <1>7 DEF Rank
    <3>2. c \notin hand[Timer] => state[c] # "close"
      BY <1>8
    <3> QED  BY <1>0, <3>1, <3>2 DEF Life, Aging, Busy
  <2> QED  BY <1>0, <1>1, <1>7, <2>1 DEF Aging
<1>13. Listed(c)'
  BY <1>1, <1>7 DEF Life, Listed
<1>14. ASSUME NEW d \in Conn \ {c} PROVE Life(d)'
  BY <1>0, <1>1, <1>4, TakeOthers
<1> QED  BY <1>4, <1>9, <1>10, <1>11, <1>12, <1>13, <1>14 DEF Life

\* A main thread erases a task and begins its call.
LEMMA LeaveLife ==
  ASSUME TypeOK, Calling, Lists, \A d \in Conn : Life(d), NEW c \in Conn, NEW n \in Main, Leave(n, c)
  PROVE  Lists' /\ \A d \in Conn : Life(d)'
<1>0. n \in Thread /\ Timer \in Thread /\ Wait \in Thread /\ Main \subseteq Thread /\ Timer \notin Main /\ Wait \notin Main
  BY ClientPoolAssumption DEF Thread
<1>1. /\ pc[n] = "idle" /\ Take(n, c, "call")
      /\ state' = state /\ aged' = aged /\ container' = container /\ sock' = sock
  BY DEF Leave, connVars
<1>2. /\ Lists' /\ InMainOf(n, c) /\ ~InMainOf(n, c)' /\ (InWait(c)' <=> InWait(c))
      /\ \A m \in Main \ {n} : InMainOf(m, c)' <=> InMainOf(m, c)
      /\ \A d \in Conn \ {c} : Keeps(d)
  BY LeaveLists
<1>3. InMain(c) /\ ~InWait(c) /\ Placed(c) /\ \A m \in Main \ {n} : ~InMainOf(m, c)
  BY <1>2, InMainIs DEF Life, Single, Placed
<1>4. ~Placed(c)' /\ Bound(c) = 2 /\ Bound(c)' = 3 /\ ~InMain(c)' /\ \A m \in Main : ~InMainOf(m, c)'
  BY <1>2, <1>3 DEF Placed, Bound, InMain, InMainOf
<1>5. ~MainCall(c) /\ (state[c] = "close" => c \in hand[Timer])
  BY <1>3 DEF Life, Single
<1>6. ~Closing(c) /\ Rank(state[c]) + Calls(c) <= 2
      /\ \A u \in Thread : c \in hand[u] /\ pc[u] \in {"effect", "set"} => Rank(old[u]) + Calls(c) <= 2
  BY <1>3, <1>4 DEF Life, Counted, Closing
<1>7. /\ hand[n] = {} /\ hand'[n] = {c} /\ (\A u \in Thread \ {n} : hand'[u] = hand[u])
      /\ Calls(c)' = Calls(c) + 1 /\ Calls(c) \in 0 .. 3
      /\ pc'[n] = "call" /\ (\A u \in Thread \ {n} : pc'[u] = pc[u]) /\ old' = old
  <2>1. hand[n] = {} /\ hand' = [hand EXCEPT ![n] = {c}]
    BY <1>0, <1>1 DEF Take, Calling
  <2>2. /\ Calls(c)' = Calls(c) + 1
        /\ hand'[n] = {c} /\ \A u \in Thread \ {n} : hand'[u] = hand[u]
    BY <1>0, <1>5, <2>1, CallsTake
  <2>3. pc'[n] = "call" /\ (\A u \in Thread \ {n} : pc'[u] = pc[u]) /\ old' = old
    BY <1>0, <1>1 DEF Take, TypeOK
  <2> QED  BY <2>1, <2>2, <2>3, CallsAre
<1>8. Counted(c)'
  <2>1. \A u \in Thread : Rank(old[u]) \in 0 .. 3
    BY DEF TypeOK, State, Rank
  <2>2. Rank(state[c]) \in 0 .. 3
    BY DEF TypeOK, State, Rank
  <2>3. \A u \in Thread : c \in hand'[u] /\ pc'[u] \in {"effect", "set"} => Rank(old'[u]) + Calls(c)' <= Bound(c)'
    <3> SUFFICES ASSUME NEW u \in Thread, c \in hand'[u], pc'[u] \in {"effect", "set"}
                 PROVE  Rank(old'[u]) + Calls(c)' <= Bound(c)'
      OBVIOUS
    <3>1. u # n /\ c \in hand[u] /\ pc[u] \in {"effect", "set"} /\ old'[u] = old[u]
      BY <1>7
    <3> QED  BY <1>4, <1>6, <1>7, <2>1, <3>1
  <2> QED  BY <1>1, <1>4, <1>6, <1>7, <2>2, <2>3 DEF Counted
<1>9. Single(c)'
  <2>1. \A m, k \in Main : c \in hand'[m] /\ c \in hand'[k] => m = k
    BY <1>0, <1>5, <1>7 DEF MainCall
  <2> QED  BY <1>4, <2>1 DEF Single
<1>10. Adding(c)'
  BY <1>0, <1>3, <1>7 DEF Life, Adding
<1>11. Aging(c)'
  <2>1. c \in aged => c \in hand[Timer] /\ pc[Timer] \in {"add", "call"}
    <3>1. state[c] # "recycle"
      BY <1>6, <1>7 DEF Rank
    <3> QED  BY <1>0, <1>5, <3>1 DEF Life, Aging, Busy
  <2> QED  BY <1>0, <1>1, <1>7, <2>1 DEF Aging
<1>12. Listed(c)'
  BY <1>1, <1>7 DEF Life, Listed
<1>13. ASSUME NEW d \in Conn \ {c} PROVE Life(d)'
  BY <1>0, <1>1, <1>2, TakeOthers
<1> QED  BY <1>2, <1>8, <1>9, <1>10, <1>11, <1>12, <1>13 DEF Life

\* Four seconds pass.
LEMMA ElapseLife ==
  ASSUME TypeOK, Lists, \A d \in Conn : Life(d), NEW c \in Conn, Elapse(c)
  PROVE  Lists' /\ \A d \in Conn : Life(d)'
<1>1. /\ UNCHANGED <<state, sock, container, inbox, waiting, serving, hand, pc, old>> /\ aged' = aged \cup {c}
      /\ ~Busy(c) /\ state[c] \in {"close", "recycle"}
  BY DEF Elapse, callVars, waitVars
<1>2. Lists' /\ \A d \in Conn : Keeps(d)
  BY <1>1, StillLists
<1>3. ASSUME NEW d \in Conn \ {c} PROVE Life(d)'
  BY <1>1, <1>2, UntouchedLife DEF Untouched
<1>4. Life(c)'
  <2>1. UNCHANGED <<state, sock, container, inbox, waiting, serving, hand, pc, old>> => 
          /\ Counted(c) => Counted(c)'
          /\ Single(c) => Single(c)'
          /\ Adding(c) => Adding(c)'
          /\ Listed(c) => Listed(c)'
          /\ Busy(c)' <=> Busy(c)
    BY DEF Counted, Closing, Single, Adding, Listed, Busy, Placed, InWait, InMain, InMainOf, MainCall, Calls, Bound
  <2>2. Aging(c)'
    BY <1>1, <2>1 DEF Aging
  <2> QED  BY <1>1, <2>1, <2>2 DEF Life
<1> QED  BY <1>2, <1>3, <1>4

(***************************************************************************)
(* The invariant and what follows from it.                                  *)
(***************************************************************************)
LEMMA InitLife == Init => ClientInv
<1> SUFFICES ASSUME Init PROVE ClientInv
  OBVIOUS
<1>1. Calling /\ Lists
  BY InitCalling
<1>2. Timer \in Thread /\ Wait \in Thread /\ Main \subseteq Thread
  BY DEF Thread
<1>3. ToSet(<<>>) = {}
  BY DEF ToSet
<1>4. ASSUME NEW c \in Conn PROVE Life(c)
  <2>1. /\ \A t \in Thread : c \notin hand[t]
        /\ state[c] = "close" /\ c \notin aged
    BY DEF Init
  <2>2. ~InWait(c) /\ ~InMain(c) /\ \A n \in Main : ~InMainOf(n, c)
    BY <1>2, <1>3 DEF Init, InWait, InMain, InMainOf
  <2>3. ~MainCall(c) /\ Calls(c) = 0 /\ Bound(c) = 3 /\ ~Placed(c)
    BY <1>2, <2>1, <2>2 DEF MainCall, Calls, One, Bound, Placed
  <2>4. Counted(c)
    BY <2>1, <2>3 DEF Counted, Rank
  <2> QED  BY <1>2, <2>1, <2>2, <2>3, <2>4 DEF Life, Single, Adding, Aging, Listed
<1> QED  BY <1>1, <1>4 DEF ClientInv

\* The invariant is inductive when the read before the first descriptor yields no event.
LEMMA NextLife ==
  ASSUME GarbageEvents \subseteq {"none"}, TypeOK, ClientInv, [Next]_vars
  PROVE  ClientInv'
<1>0. TypeOK /\ Calling /\ Lists /\ \A d \in Conn : Life(d)
  BY DEF ClientInv
<1> SUFFICES Lists' /\ \A d \in Conn : Life(d)'
  BY <1>0, NextCalling DEF ClientInv
<1>1. ASSUME NEW t \in Thread, CallStep(t) PROVE Lists' /\ \A d \in Conn : Life(d)'
  <2>1. UNCHANGED <<inbox, waiting, serving>>
    BY <1>1 DEF CallStep, GetState, InOrOut, SetState, waitVars
  <2>2. Lists'
    BY <1>0, <2>1, StillLists
  <2> QED  BY <1>0, <1>1, <2>2, CallLife
<1>2. ASSUME UNCHANGED <<inbox, waiting, serving, state, aged, container, callVars>>,
             \A d \in Conn : sock[d] # "null" => sock'[d] # "null"
      PROVE  Lists' /\ \A d \in Conn : Life(d)'
  BY <1>0, <1>2, StillLists, QuietLife
<1>3. ASSUME WaitStep PROVE Lists' /\ \A d \in Conn : Life(d)'
  <2>1. CASE CheckWait
    <3>1. UNCHANGED <<state, aged, container, callVars, sock>>
      BY <2>1 DEF CheckWait, connVars
    <3>2. Lists' /\ \A d \in Conn : Keeps(d)
      BY <1>0, <2>1, CheckWaitLists
    <3> QED  BY <1>0, <3>1, <3>2, QuietLife
  <2>2. CASE WaitEnd \/ \E c \in Conn : WaitMore(c)
    BY <1>2, <2>2 DEF WaitEnd, WaitMore, connVars
  <2>3. CASE \E c \in Conn : WaitError(c) \/ WaitRefused(c) \/ WaitNoThread(c)
    BY <1>0, <2>3, DropLife
  <2>4. CASE \E c \in Conn, n \in Main : WaitVerified(c, n)
    BY <1>0, <2>4, VerifiedLife
  <2> QED  BY <1>3, <2>1, <2>2, <2>3, <2>4 DEF WaitStep
<1>4. ASSUME NEW n \in Main, MainStep(n) PROVE Lists' /\ \A d \in Conn : Life(d)'
  <2>1. CASE CheckMain(n)
    <3>1. UNCHANGED <<state, aged, container, callVars, sock>>
      BY <2>1 DEF CheckMain, connVars
    <3>2. Lists' /\ \A d \in Conn : Keeps(d)
      BY <1>0, <2>1, CheckMainLists
    <3> QED  BY <1>0, <3>1, <3>2, QuietLife
  <2>2. CASE \E c \in Conn : SocketError(n, c)
    BY <1>2, <2>2 DEF SocketError, waitVars
  <2>3. CASE \E c \in Conn : Leave(n, c)
    BY <1>0, <2>3, LeaveLife
  <2> QED  BY <1>4, <2>1, <2>2, <2>3 DEF MainStep
<1>5. ASSUME NEW c \in Conn, TimerStep(c) PROVE Lists' /\ \A d \in Conn : Life(d)'
  <2>1. CASE Connect(c) \/ Recycle(c)
    <3>1. UNCHANGED <<inbox, waiting, serving>>
      BY <2>1 DEF Connect, Recycle, waitVars
    <3>2. Lists'
      BY <1>0, <3>1, StillLists
    <3> QED  BY <1>0, <2>1, <3>2, TimerLife
  <2>2. CASE AddCheckwait(c)
    BY <1>0, <2>2, AddLife
  <2> QED  BY <1>5, <2>1, <2>2 DEF TimerStep
<1>6. ASSUME NEW c \in Conn, ConnectFailed(c) \/ Answer(c) \/ Break(c) PROVE Lists' /\ \A d \in Conn : Life(d)'
  <2>1. UNCHANGED <<inbox, waiting, serving, state, aged, container, callVars>>
    BY <1>6 DEF ConnectFailed, Answer, Break, waitVars
  <2>2. \A d \in Conn : sock[d] # "null" => sock'[d] # "null"
    BY <1>6 DEF ConnectFailed, Answer, Break, TypeOK
  <2> QED  BY <1>2, <2>1, <2>2
<1>7. ASSUME NEW c \in Conn, Elapse(c) PROVE Lists' /\ \A d \in Conn : Life(d)'
  BY <1>0, <1>7, ElapseLife
<1>8. CASE UNCHANGED vars
  BY <1>2, <1>8 DEF vars, connVars, waitVars
<1> QED  BY <1>1, <1>3, <1>4, <1>5, <1>6, <1>7, <1>8 DEF Next

\* The invariant, when the read before the first descriptor finds no event.
THEOREM ClientInvariant == GarbageEvents \subseteq {"none"} => (Spec => [](TypeOK /\ ClientInv))
<1> SUFFICES ASSUME GarbageEvents \subseteq {"none"} PROVE Spec => [](TypeOK /\ ClientInv)
  OBVIOUS
<1>1. Init => TypeOK /\ ClientInv
  BY InitTypes, InitLife
<1>2. TypeOK /\ ClientInv /\ [Next]_vars => (TypeOK /\ ClientInv)'
  BY NextTypes, NextLife
<1> QED  BY <1>1, <1>2, PTL DEF Spec

\* Where the places of a task are, two of them are the same.
LEMMA PlacesAre ==
  ASSUME TypeOK, Lists, NEW c \in Conn, Single(c), NEW p \in Places(c), NEW q \in Places(c)
  PROVE  p = q /\ Placed(c)
<1>0. /\ Wait \in Thread \ Main /\ Timer \in Thread \ Main /\ Main \subseteq Thread /\ Thread = Main \cup {Timer, Wait}
      /\ Timer # Wait
  BY ClientPoolAssumption DEF Thread
<1>1. ASSUME NEW r \in Places(c)
      PROVE  \/ \E t \in Thread : \E k \in DOMAIN inbox[t] : r = <<"inbox", <<t, k>>>> /\ inbox[t][k] = c
             \/ \E k \in DOMAIN waiting : r = <<"list", <<Wait, k>>>> /\ waiting[k] = c
             \/ \E n \in Main : r = <<"list", <<n, 0>>>> /\ c \in serving[n]
  <2>1. CASE r \in {"inbox"} \X UNION {{t} \X Indices(inbox[t], c) : t \in Thread}
    BY <2>1 DEF Indices
  <2>2. CASE r \in {"list"} \X ({Wait} \X Indices(waiting, c))
    BY <2>2 DEF Indices
  <2>3. CASE r \in {"list"} \X {<<n, 0>> : n \in {m \in Main : c \in serving[m]}}
    BY <2>3
  <2> QED  BY <1>1, <2>1, <2>2, <2>3 DEF Places
<1>2. \A t \in Thread : \A k \in DOMAIN inbox[t] :
        inbox[t][k] = c => \/ t = Wait /\ c \in ToSet(inbox[Wait]) /\ InWait(c)
                           \/ t \in Main /\ c \in ToSet(inbox[t]) /\ InMainOf(t, c)
  BY <1>0 DEF Lists, ToSet, InWait, InMainOf
<1>3. \A k \in DOMAIN waiting : waiting[k] = c => c \in ToSet(waiting) /\ InWait(c)
  BY DEF ToSet, InWait
<1>4. \A n \in Main : c \in serving[n] => InMainOf(n, c)
  BY DEF InMainOf
<1>5. /\ \A n, m \in Main : InMainOf(n, c) /\ InMainOf(m, c) => n = m
      /\ \A n \in Main : ~(InWait(c) /\ InMainOf(n, c))
  BY InMainIs DEF Single
<1>6. /\ \A t \in Thread : \A k, j \in DOMAIN inbox[t] : inbox[t][k] = inbox[t][j] => k = j
      /\ \A k, j \in DOMAIN waiting : waiting[k] = waiting[j] => k = j
      /\ ~(c \in ToSet(inbox[Wait]) /\ c \in ToSet(waiting))
      /\ \A n \in Main : ~(c \in ToSet(inbox[n]) /\ c \in serving[n])
  BY DEF Lists, Injective
<1>7. Placed(c)
  BY <1>1, <1>2, <1>3, <1>4, InMainIs DEF Placed
<1>8. ASSUME NEW t \in Thread, NEW k \in DOMAIN inbox[t], p = <<"inbox", <<t, k>>>>, inbox[t][k] = c PROVE p = q
  <2>1. ASSUME NEW u \in Thread, NEW j \in DOMAIN inbox[u], q = <<"inbox", <<u, j>>>>, inbox[u][j] = c PROVE p = q
    <3>1. t = u
      BY <1>2, <1>5, <1>8, <2>1
    <3> QED  BY <1>6, <1>8, <2>1, <3>1
  <2> QED  BY <1>0, <1>1, <1>2, <1>3, <1>4, <1>5, <1>6, <1>8, <2>1
<1>9. ASSUME NEW k \in DOMAIN waiting, p = <<"list", <<Wait, k>>>>, waiting[k] = c PROVE p = q
  BY <1>0, <1>1, <1>2, <1>3, <1>4, <1>5, <1>6, <1>9
<1>10. ASSUME NEW n \in Main, p = <<"list", <<n, 0>>>>, c \in serving[n] PROVE p = q
  BY <1>0, <1>1, <1>2, <1>3, <1>4, <1>5, <1>6, <1>10
<1> QED  BY <1>1, <1>7, <1>8, <1>9, <1>10

\* However the calls of getNextState overlap, a task is in one list of one thread at
\* most, and only with a socket (zTCPClientTaskPool adds before the state changes).
THEOREM ClientOnePlace == GarbageEvents \subseteq {"none"} => (Spec => []OnePlace)
<1> SUFFICES ASSUME GarbageEvents \subseteq {"none"} PROVE Spec => []OnePlace
  OBVIOUS
<1>1. TypeOK /\ ClientInv => OnePlace
  <2> SUFFICES ASSUME TypeOK, ClientInv, NEW c \in Conn
               PROVE  (\A p, q \in Places(c) : p = q) /\ (Places(c) # {} => sock[c] # "null")
    BY DEF OnePlace
  <2>1. Lists /\ Single(c)
    BY DEF ClientInv, Life
  <2>2. \A p, q \in Places(c) : p = q /\ Placed(c)
    BY <2>1, PlacesAre
  <2> QED  BY <2>1, <2>2 DEF Single
<1>2. Spec => [](TypeOK /\ ClientInv)
  BY ClientInvariant
<1> QED  BY <1>1, <1>2, PTL

\* What is in service and in no call is in the container that broadcasts go through.
THEOREM ClientListed == GarbageEvents \subseteq {"none"} => (Spec => []OkayIsListed)
<1> SUFFICES ASSUME GarbageEvents \subseteq {"none"} PROVE Spec => []OkayIsListed
  OBVIOUS
<1>1. ClientInv => OkayIsListed
  BY DEF ClientInv, Life, Listed, OkayIsListed, Busy
<1>2. Spec => [](TypeOK /\ ClientInv)
  BY ClientInvariant
<1> QED  BY <1>1, <1>2, PTL
=============================================================================
