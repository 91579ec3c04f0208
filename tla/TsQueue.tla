------------------------------ MODULE TsQueue ------------------------------
(***************************************************************************)
(* net_tsqueue.h and its one waiting user, the server's main loop.  The    *)
(* asio thread calls push_back for each message it has read; the main      *)
(* thread calls server_interface::Update(-1, true) for ever: wait() until  *)
(* the queue is not empty, then pop and handle messages until it is empty. *)
(*                                                                         *)
(* A step is what a thread does between two points where another thread    *)
(* can see a difference: taking a mutex, touching the deque, sleeping,     *)
(* notifying.  empty() locks, reads and unlocks, so it is one step that    *)
(* needs the mutex to be free.                                             *)
(***************************************************************************)
EXTENDS Integers, Sequences, FiniteSets

CONSTANTS Producers,  \* threads that push (in the server: the asio thread)
          Main,       \* the thread that runs Update
          NoThread,   \* the owner of a free mutex
          NoMessage,  \* the value of Update's local msg when it has none
          MaxSent     \* bound: pushes of one producer

Threads == Producers \cup {Main}

ASSUME ThreadsAssumption == Main \notin Producers /\ NoThread \notin Threads
ASSUME MaxSentAssumption == MaxSent \in Nat

VARIABLES deqQueue,     \* the deque
          muxQueue,     \* the thread that holds this mutex, or NoThread
          muxBlocking,  \* the same, for the mutex of the condition variable
          pc,           \* where each thread is
          msg,          \* the message Update has taken
          sent,         \* history: pushes of each producer
          handled       \* history: messages given to OnMessage

vars == <<deqQueue, muxQueue, muxBlocking, pc, msg, sent, handled>>

Goto(t, label) == pc' = [pc EXCEPT ![t] = label]

Init ==
  /\ deqQueue = <<>>
  /\ muxQueue = NoThread
  /\ muxBlocking = NoThread
  /\ pc = [t \in Threads |-> IF t = Main THEN "check" ELSE "idle"]
  /\ msg = NoMessage
  /\ sent = [p \in Producers |-> 0]
  /\ handled = <<>>

-----------------------------------------------------------------------------
\* push_back

Mut_Free(mutex) == TRUE

Free(mutex) == mutex = NoThread

\* The scoped_lock on muxQueue.
PushLock(p) ==
  /\ pc[p] = "idle" /\ sent[p] < MaxSent
  /\ Free(muxQueue)
  /\ muxQueue' = p
  /\ Goto(p, "emplace")
  /\ UNCHANGED <<deqQueue, muxBlocking, msg, sent, handled>>

Emplace(p) ==
  /\ pc[p] = "emplace"
  /\ sent' = [sent EXCEPT ![p] = @ + 1]
  /\ deqQueue' = Append(deqQueue, <<p, sent[p] + 1>>)
  /\ Goto(p, "lockBlocking")
  /\ UNCHANGED <<muxQueue, muxBlocking, msg, handled>>

\* The unique_lock on muxBlocking, taken while muxQueue is held.
PushLockBlocking(p) ==
  /\ pc[p] = "lockBlocking"
  /\ Free(muxBlocking)
  /\ muxBlocking' = p
  /\ Goto(p, "notify")
  /\ UNCHANGED <<deqQueue, muxQueue, msg, sent, handled>>

Mut_Woken(label) == label

\* notify_one: a thread that is not asleep yet is not notified.
Woken(label) == IF label = "asleep" THEN "woken" ELSE label

NotifyOne(p) ==
  /\ pc[p] = "notify"
  /\ pc' = [t \in Threads |-> IF t = p THEN "return" ELSE Woken(pc[t])]
  /\ UNCHANGED <<deqQueue, muxQueue, muxBlocking, msg, sent, handled>>

\* Both locks are released when push_back returns.
PushReturn(p) ==
  /\ pc[p] = "return"
  /\ muxQueue' = NoThread
  /\ muxBlocking' = NoThread
  /\ Goto(p, "idle")
  /\ UNCHANGED <<deqQueue, msg, sent, handled>>

-----------------------------------------------------------------------------
\* wait

\* The loop's call of empty(): Update's own loop follows, or the thread goes
\* to sleep on what it saw.
WaitCheck ==
  /\ pc[Main] = "check"
  /\ Free(muxQueue)
  /\ Goto(Main, IF deqQueue = <<>> THEN "block" ELSE "loop")
  /\ UNCHANGED <<deqQueue, muxQueue, muxBlocking, msg, sent, handled>>

\* The unique_lock of the loop's body; muxQueue is not held any more.
WaitLock ==
  /\ pc[Main] = "block"
  /\ Free(muxBlocking)
  /\ muxBlocking' = Main
  /\ Goto(Main, "wait")
  /\ UNCHANGED <<deqQueue, muxQueue, msg, sent, handled>>

\* cvBlocking.wait releases muxBlocking and sleeps in one step.
Sleep ==
  /\ pc[Main] = "wait"
  /\ muxBlocking' = NoThread
  /\ Goto(Main, "asleep")
  /\ UNCHANGED <<deqQueue, muxQueue, msg, sent, handled>>

\* A condition variable may wake up for no reason.
SpuriousWakeup ==
  /\ pc[Main] = "asleep"
  /\ Goto(Main, "woken")
  /\ UNCHANGED <<deqQueue, muxQueue, muxBlocking, msg, sent, handled>>

\* wait takes muxBlocking back and the end of the loop's body releases it.
WakeUp ==
  /\ pc[Main] = "woken"
  /\ Free(muxBlocking)
  /\ Goto(Main, "check")
  /\ UNCHANGED <<deqQueue, muxQueue, muxBlocking, msg, sent, handled>>

-----------------------------------------------------------------------------
\* Update, after wait

Mut_AfterLoopTest(queue) == "lock"

AfterLoopTest(queue) == IF queue = <<>> THEN "check" ELSE "lock"

\* Update's test of empty(): pop one more message or start over with wait.
LoopTest ==
  /\ pc[Main] = "loop"
  /\ Free(muxQueue)
  /\ Goto(Main, AfterLoopTest(deqQueue))
  /\ UNCHANGED <<deqQueue, muxQueue, muxBlocking, msg, sent, handled>>

\* pop_front: lock, move the front out, erase it and unlock.
PopLock ==
  /\ pc[Main] = "lock"
  /\ Free(muxQueue)
  /\ muxQueue' = Main
  /\ Goto(Main, "move")
  /\ UNCHANGED <<deqQueue, muxBlocking, msg, sent, handled>>

Mut_MoveFront ==
  /\ pc[Main] = "move"
  /\ msg' = NoMessage
  /\ Goto(Main, "erase")
  /\ UNCHANGED <<deqQueue, muxQueue, muxBlocking, sent, handled>>

MoveFront ==
  /\ pc[Main] = "move"
  /\ msg' = Head(deqQueue)
  /\ Goto(Main, "erase")
  /\ UNCHANGED <<deqQueue, muxQueue, muxBlocking, sent, handled>>

Mut_Erased(queue) == SubSeq(queue, 1, Len(queue) - 1)

Erased(queue) == Tail(queue)

EraseFront ==
  /\ pc[Main] = "erase"
  /\ deqQueue' = Erased(deqQueue)
  /\ muxQueue' = NoThread
  /\ Goto(Main, "handle")
  /\ UNCHANGED <<muxBlocking, msg, sent, handled>>

Handle ==
  /\ pc[Main] = "handle"
  /\ handled' = Append(handled, msg)
  /\ msg' = NoMessage
  /\ Goto(Main, "loop")
  /\ UNCHANGED <<deqQueue, muxQueue, muxBlocking, sent>>

-----------------------------------------------------------------------------
\* What a producer does once it has called push_back.
Pushing(p) ==
  \/ Emplace(p) \/ PushLockBlocking(p) \/ NotifyOne(p) \/ PushReturn(p)

MainStep ==
  \/ WaitCheck \/ WaitLock \/ Sleep \/ WakeUp
  \/ LoopTest \/ PopLock \/ MoveFront \/ EraseFront \/ Handle

Next ==
  \/ MainStep
  \/ SpuriousWakeup
  \/ \E p \in Producers : PushLock(p) \/ Pushing(p)

Spec == Init /\ [][Next]_vars

\* A thread that can go on goes on.  Nobody has to push, and no spurious wakeup
\* has to happen.
FairSpec ==
  /\ Spec
  /\ WF_vars(MainStep)
  /\ \A p \in Producers : WF_vars(Pushing(p))

-----------------------------------------------------------------------------
Message == Producers \X (1 .. MaxSent)

ProducerLabels == {"idle", "emplace", "lockBlocking", "notify", "return"}

MainLabels == {"check", "block", "wait", "asleep", "woken", "loop", "lock",
               "move", "erase", "handle"}

TypeOK ==
  /\ deqQueue \in Seq(Message)
  /\ muxQueue \in Threads \cup {NoThread}
  /\ muxBlocking \in Threads \cup {NoThread}
  /\ pc \in [Threads -> ProducerLabels \cup MainLabels]
  /\ \A p \in Producers : pc[p] \in ProducerLabels
  /\ pc[Main] \in MainLabels
  /\ msg \in Message \cup {NoMessage}
  /\ sent \in [Producers -> 0 .. MaxSent]
  /\ handled \in Seq(Message)

\* Where a thread is about to touch the deque or its own copy of the front.
TouchesDeque(t) == pc[t] \in {"emplace", "move", "erase"}

\* No two threads are inside the deque at once: neither two push_backs nor a
\* push_back and a pop_front (a data race on std::deque otherwise).
DequeRaceFree ==
  \A t, u \in Threads : TouchesDeque(t) /\ TouchesDeque(u) => t = u

\* pop_front never meets an empty deque.  Update tests empty() and pops under
\* two separate locks, which is safe only because nobody else pops.
NeverPopsEmpty == pc[Main] \in {"lock", "move", "erase"} => deqQueue # <<>>

\* A push that finds the main thread asleep wakes it, and it then handles
\* everything in the queue, older messages included.
LaterPushFlushes ==
  (pc[Main] = "asleep" /\ \E p \in Producers : pc[p] = "notify")
    ~> (deqQueue = <<>>)

\* Every message pushed is handled ("Force server to respond to incoming
\* messages", net_server.h:241).  It fails: the push may come between the
\* main thread's look at the queue and its going to sleep.
EveryMessageHandled ==
  \A p \in Producers, n \in 1 .. MaxSent :
    (sent[p] >= n) ~> (\E i \in DOMAIN handled : handled[i] = <<p, n>>)

\* The queue, with the message Update has in hand, is a mailbox.
InHand == IF pc[Main] = "handle" THEN <<msg>> ELSE <<>>

B == INSTANCE Mailbox WITH box <- InHand \o deqQueue

\* Messages are handled once each and in the order in which they were pushed.
Implements == B!Spec
=============================================================================
