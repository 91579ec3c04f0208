---------------------------- MODULE TsQueueProofs ----------------------------
(***************************************************************************)
(* Proofs about TsQueue, for any number of producers and of messages.      *)
(*                                                                         *)
(* The invariant: muxQueue belongs to the thread that is between its lock  *)
(* and its unlock, the deque is not empty while Update is about to pop,    *)
(* and the message in hand is still the front of the deque until it is     *)
(* erased.                                                                 *)
(***************************************************************************)
EXTENDS TsQueue, TLAPS

\* The labels at which a thread holds muxQueue.
Holds(t) == pc[t] \in {"emplace", "lockBlocking", "notify", "return",
                       "move", "erase"}

LockInv == \A t \in Threads : Holds(t) => muxQueue = t

FrontInHand == pc[Main] = "erase" => msg = Head(deqQueue)

HasMessage == pc[Main] = "handle" => msg \in Message

BoundInv == \A p \in Producers : pc[p] = "emplace" => sent[p] < MaxSent

IInv == TypeOK /\ LockInv /\ NeverPopsEmpty /\ FrontInHand /\ HasMessage /\ BoundInv

\* The start state satisfies the invariant: nobody holds a mutex, the deque is empty.
LEMMA InitIInv == Init => IInv
  BY ThreadsAssumption, MaxSentAssumption, SMT
  DEF Init, IInv, TypeOK, LockInv, Holds, NeverPopsEmpty, FrontInHand, HasMessage,
      BoundInv, Threads, ProducerLabels, MainLabels, Message

\* notify_one moves only a sleeping main thread, which holds neither mutex.
LEMMA NotifyIInv ==
  ASSUME NEW p \in Producers, NotifyOne(p), IInv
  PROVE  IInv'
<1> USE ThreadsAssumption DEF IInv, NotifyOne, Woken, Threads
<1>1. TypeOK'
  BY SMT DEF TypeOK, ProducerLabels, MainLabels
<1>2. LockInv'
  BY SMT DEF TypeOK, ProducerLabels, MainLabels, LockInv, Holds
<1>3. /\ pc'[Main] \in {pc[Main], "woken"}
      /\ \A q \in Producers : pc'[q] \in {pc[q], "return"}
  BY SMT DEF TypeOK, ProducerLabels
<1>4. UNCHANGED <<deqQueue, msg, sent>>
  OBVIOUS
<1>5. NeverPopsEmpty' /\ FrontInHand' /\ HasMessage' /\ BoundInv'
  BY <1>3, <1>4, SMT DEF NeverPopsEmpty, FrontInHand, HasMessage, BoundInv
<1> QED
  BY <1>1, <1>2, <1>5

\* Every step of a producer or of Update keeps the invariant.
LEMMA NextIInv == IInv /\ [Next]_vars => IInv'
<1> SUFFICES ASSUME IInv, [Next]_vars PROVE IInv'
  OBVIOUS
<1> USE ThreadsAssumption, MaxSentAssumption
    DEF IInv, TypeOK, LockInv, Holds, NeverPopsEmpty, FrontInHand, HasMessage,
        BoundInv, Threads, ProducerLabels, MainLabels, Message, Goto, Free
<1>1. ASSUME NEW p \in Producers, PushLock(p) PROVE IInv'
  BY <1>1, SMT DEF PushLock
<1>2. ASSUME NEW p \in Producers, Emplace(p) PROVE IInv'
  BY <1>2, SMT DEF Emplace
<1>3. ASSUME NEW p \in Producers, PushLockBlocking(p) PROVE IInv'
  BY <1>3, SMT DEF PushLockBlocking
<1>4. ASSUME NEW p \in Producers, NotifyOne(p) PROVE IInv'
  BY <1>4, NotifyIInv
<1>5. ASSUME NEW p \in Producers, PushReturn(p) PROVE IInv'
  BY <1>5, SMT DEF PushReturn
<1>6. ASSUME WaitCheck \/ WaitLock \/ Sleep \/ SpuriousWakeup \/ WakeUp PROVE IInv'
  <2>1. CASE WaitCheck
    BY <2>1, SMT DEF WaitCheck
  <2>2. CASE WaitLock
    BY <2>2, SMT DEF WaitLock
  <2>3. CASE Sleep
    BY <2>3, SMT DEF Sleep
  <2>4. CASE SpuriousWakeup
    BY <2>4, SMT DEF SpuriousWakeup
  <2>5. CASE WakeUp
    BY <2>5, SMT DEF WakeUp
  <2> QED
    BY <1>6, <2>1, <2>2, <2>3, <2>4, <2>5
<1>7. CASE LoopTest
  BY <1>7, SMT DEF LoopTest, AfterLoopTest
<1>8. CASE PopLock
  BY <1>8, SMT DEF PopLock
<1>9. CASE MoveFront
  BY <1>9, SMT DEF MoveFront
<1>10. CASE EraseFront
  BY <1>10, SMT DEF EraseFront, Erased
<1>11. CASE Handle
  BY <1>11, SMT DEF Handle
<1>12. CASE UNCHANGED vars
  BY <1>12, SMT DEF vars
<1> QED
  BY <1>1, <1>2, <1>3, <1>4, <1>5, <1>6, <1>7, <1>8, <1>9, <1>10, <1>11, <1>12
  DEF Next, MainStep, Pushing

\* Hence the lock discipline holds in every state that can be reached.
LEMMA Invariance == Spec => []IInv
<1>1. Init => IInv
  BY InitIInv
<1>2. IInv /\ [Next]_vars => IInv'
  BY NextIInv
<1> QED
  BY <1>1, <1>2, PTL DEF Spec

\* Every state has the types of the declarations: in particular pop_front always
\* yields a message that was pushed, whatever the threads' speeds.
THEOREM TypeCorrect == Spec => []TypeOK
<1>1. IInv => TypeOK
  BY DEF IInv
<1> QED
  BY <1>1, Invariance, PTL

\* push_back and pop_front never touch the deque at the same time.
THEOREM NoRace == Spec => []DequeRaceFree
<1>1. IInv => DequeRaceFree
  BY SMT DEF IInv, LockInv, Holds, DequeRaceFree, TouchesDeque
<1> QED
  BY <1>1, Invariance, PTL

\* Update never pops from an empty deque.
THEOREM PopSafe == Spec => []NeverPopsEmpty
<1>1. IInv => NeverPopsEmpty
  BY DEF IInv
<1> QED
  BY <1>1, Invariance, PTL

-----------------------------------------------------------------------------
\* The refinement.  The box of the abstract mailbox is the message in hand
\* followed by the deque.

Box == InHand \o deqQueue

\* At the start the box is empty.
LEMMA InitBox == Init => B!Init
<1> SUFFICES ASSUME Init PROVE B!Init
  OBVIOUS
<1>1. InHand = <<>> /\ deqQueue = <<>>
  BY SMT DEF Init, InHand, Threads
<1>2. Box = <<>>
  BY <1>1, SMT DEF Box
<1> QED
  BY <1>2 DEF Init, B!Init, Box

\* Steps that move neither the deque nor the message in hand leave the box alone.
LEMMA BoxKept ==
  ASSUME UNCHANGED <<deqQueue, msg>>, (pc[Main] = "handle") <=> (pc'[Main] = "handle")
  PROVE  Box' = Box
  BY DEF Box, InHand

\* emplace_back appends to the box.
LEMMA BoxAppended ==
  ASSUME IInv, NEW p \in Producers, Emplace(p)
  PROVE  Box' = Append(Box, <<p, sent[p] + 1>>)
<1>1. /\ pc'[Main] = pc[Main]
      /\ msg' = msg
      /\ deqQueue' = Append(deqQueue, <<p, sent[p] + 1>>)
      /\ deqQueue \in Seq(Message)
      /\ <<p, sent[p] + 1>> \in Message
  BY ThreadsAssumption, MaxSentAssumption, SMT
  DEF IInv, TypeOK, BoundInv, Emplace, Goto, Threads, Message
<1>2. InHand' = InHand /\ InHand \in Seq(Message)
  BY <1>1, SMT DEF InHand, IInv, HasMessage
<1> QED
  BY <1>1, <1>2, SMT DEF Box

\* erase moves the front from the deque into the hand.
LEMMA BoxErased ==
  ASSUME IInv, EraseFront
  PROVE  Box' = Box
<1>1. /\ deqQueue \in Seq(Message) /\ deqQueue # <<>>
      /\ msg = Head(deqQueue) /\ msg' = msg
      /\ deqQueue' = Tail(deqQueue)
      /\ InHand = <<>> /\ InHand' = <<msg>>
  BY SMT DEF IInv, TypeOK, NeverPopsEmpty, FrontInHand, EraseFront, Erased, Goto,
             InHand, Threads
<1>2. deqQueue = <<Head(deqQueue)>> \o Tail(deqQueue)
  BY <1>1, SMT
<1>3. <<>> \o deqQueue = deqQueue
  BY <1>1, SMT
<1> QED
  BY <1>1, <1>2, <1>3 DEF Box

\* OnMessage takes the head of the box.
LEMMA BoxHandled ==
  ASSUME IInv, Handle
  PROVE  /\ Box # <<>>
         /\ handled' = Append(handled, Head(Box))
         /\ Box' = Tail(Box)
<1>1. /\ InHand = <<msg>> /\ InHand' = <<>>
      /\ deqQueue' = deqQueue /\ deqQueue \in Seq(Message)
      /\ msg \in Message
      /\ handled' = Append(handled, msg)
  BY SMT DEF IInv, TypeOK, HasMessage, Handle, Goto, InHand, Threads
<1> QED
  BY <1>1, SMT DEF Box

\* A push is a Put, OnMessage a Handle, and every other step leaves the box alone.
LEMMA NextBox == IInv /\ [Next]_vars => [B!Next]_(B!vars)
<1> SUFFICES ASSUME IInv, [Next]_vars PROVE [B!Next]_(B!vars)
  OBVIOUS
<1> USE ThreadsAssumption DEF Box
<1>1. ASSUME NEW p \in Producers, Emplace(p) PROVE B!Next
  BY <1>1, BoxAppended DEF B!Next, B!Put, Emplace
<1>2. CASE Handle
  BY <1>2, BoxHandled DEF B!Next, B!Handle, Handle
<1>3. CASE EraseFront
  BY <1>3, BoxErased DEF B!vars, EraseFront
<1>4. ASSUME NEW p \in Producers,
             PushLock(p) \/ PushLockBlocking(p) \/ NotifyOne(p) \/ PushReturn(p)
      PROVE  UNCHANGED B!vars
  <2>1. (pc[Main] = "handle") <=> (pc'[Main] = "handle")
    BY <1>4, SMT DEF PushLock, PushLockBlocking, NotifyOne, PushReturn, Goto, Woken,
                     IInv, TypeOK, Threads, MainLabels
  <2>2. UNCHANGED <<deqQueue, msg, sent, handled>>
    BY <1>4 DEF PushLock, PushLockBlocking, NotifyOne, PushReturn
  <2> QED
    BY <2>1, <2>2, BoxKept DEF B!vars
<1>5. ASSUME \/ WaitCheck \/ WaitLock \/ Sleep \/ SpuriousWakeup \/ WakeUp
             \/ LoopTest \/ PopLock
      PROVE  UNCHANGED B!vars
  <2>1. pc[Main] # "handle" /\ pc'[Main] # "handle"
    BY <1>5, SMT DEF WaitCheck, WaitLock, Sleep, SpuriousWakeup, WakeUp, LoopTest,
                     PopLock, Goto, AfterLoopTest, IInv, TypeOK, Threads
  <2>2. UNCHANGED <<deqQueue, msg, sent, handled>>
    BY <1>5 DEF WaitCheck, WaitLock, Sleep, SpuriousWakeup, WakeUp, LoopTest, PopLock
  <2> QED
    BY <2>1, <2>2, BoxKept DEF B!vars
<1>6. CASE MoveFront
  <2>1. InHand = <<>> /\ InHand' = <<>>
    BY <1>6, SMT DEF MoveFront, Goto, InHand, IInv, TypeOK, Threads
  <2> QED
    BY <1>6, <2>1 DEF B!vars, MoveFront
<1>7. CASE UNCHANGED vars
  BY <1>7 DEF vars, B!vars, InHand
<1> QED
  BY <1>1, <1>2, <1>3, <1>4, <1>5, <1>6, <1>7 DEF Next, MainStep, Pushing

\* The queue and its reader implement the mailbox: every message is handled at
\* most once, in the order of the pushes, and none is overtaken or dropped.
THEOREM Refinement == Spec => Implements
<1>1. Init => B!Init
  BY InitBox
<1>2. IInv /\ [Next]_vars => [B!Next]_(B!vars)
  BY NextBox
<1> QED
  BY <1>1, <1>2, Invariance, PTL DEF Spec, Implements, B!Spec
=============================================================================
