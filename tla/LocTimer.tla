-------------------------------- MODULE LocTimer --------------------------------
(***************************************************************************)
(* The timer service: LocTimer, LocTimerDelegate, LocTimerContainer and    *)
(* LocTimerPollTask (gps/utils/LocTimer.cpp), over LocHeap and the queue   *)
(* of a MsgTask (msg_q.c), timerfd and epoll.                              *)
(*                                                                         *)
(* Clients start, stop and delete their timers on threads of their own:    *)
(* each holds the timer's mLock throughout.  The heap is touched by the    *)
(* messages of one MsgTask alone.  The poll thread waits for the container's *)
(* timerfd, disarms it and sends MsgTimerExpire.  The two threads arm,     *)
(* disarm, add and remove one descriptor with no lock in common, a system  *)
(* call at a time.                                                         *)
(*                                                                         *)
(* One container: the timers (mSwTimers) and the alarms (mHwTimers) only   *)
(* share the threads.  Use of a LocTimer that was deleted has no meaning,  *)
(* and ends a behaviour.                                                   *)
(***************************************************************************)
EXTENDS LocHeap, Sequences

CONSTANTS Clients,       \* LocTimer objects
          Delays,        \* timeOutInMs
          MaxNow,        \* the last moment of the clock
          MaxStarts      \* calls of start that succeed

NoTime == -1             \* of a timerfd that is disarmed

VARIABLES now,
          clients,       \* of each LocTimer: whether it is alive, and its mTimer
          delegates,     \* the LocTimerDelegates: mClient, mFutureTime, whether deleted
          mTree,         \* the container's heap
          queue,         \* mMsgTask's
          armed,         \* the time the timerfd is set to
          polled,        \* whether it is in the epoll set
          poll,          \* where the poll thread is
          task,          \* where the MsgTask's thread is
          misused        \* a deleted LocTimer was used

clientVars == <<clients, delegates>>
kernel == <<armed, polled>>
vars == <<now, clientVars, mTree, queue, kernel, poll, task, misused>>

Idle == [at |-> "idle"]
Timer(i) == [id |-> i, mFutureTime |-> delegates[i].mFutureTime]

-----------------------------------------------------------------------------
(* LocTimer: start, stop and the destructor.                                 *)

start ==
    \E c \in Clients, timeOutInMs \in Delays :
      /\ clients[c].alive /\ clients[c].mTimer = NULL
      /\ Len(delegates) < MaxStarts /\ now + timeOutInMs <= MaxNow
      /\ LET timer == Len(delegates) + 1
         IN  /\ delegates' = Append(delegates, [mClient |-> c, mFutureTime |-> now + timeOutInMs,
                                                deleted |-> FALSE])
             /\ clients' = [clients EXCEPT ![c].mTimer = timer]
             /\ queue' = Append(queue, [op |-> "push", timer |-> timer])
      /\ UNCHANGED <<now, mTree, kernel, poll, task, misused>>

\* LocTimer::stop with destroyLocked.
Stopped(c) ==
    LET timer == clients[c].mTimer
    IN  IF timer = NULL THEN UNCHANGED <<delegates, queue>>
        ELSE /\ delegates' = [delegates EXCEPT ![timer].mClient = NULL]
             /\ queue' = Append(queue, [op |-> "remove", timer |-> timer])

stop ==
    \E c \in Clients :
      /\ clients[c].alive /\ clients[c].mTimer # NULL
      /\ Stopped(c)
      /\ clients' = [clients EXCEPT ![c].mTimer = NULL]
      /\ UNCHANGED <<now, mTree, kernel, poll, task, misused>>

\* ~LocTimer: stops, then the memory is gone.
delete ==
    \E c \in Clients :
      /\ clients[c].alive
      /\ Stopped(c)
      /\ clients' = [clients EXCEPT ![c] = [alive |-> FALSE, mTimer |-> NULL]]
      /\ UNCHANGED <<now, mTree, kernel, poll, task, misused>>

-----------------------------------------------------------------------------
(* The poll thread: epoll_wait, then LocTimerContainer::expire.              *)

Readable == armed # NoTime /\ armed <= now

epoll_wait ==
    /\ poll = "wait"
    /\ polled /\ Readable
    /\ poll' = "disarm"
    /\ UNCHANGED <<kernel, queue>>

disarm ==
    /\ poll = "disarm"
    /\ armed' = NoTime
    /\ poll' = "removePoll"
    /\ UNCHANGED <<polled, queue>>

removePoll ==
    /\ poll = "removePoll"
    /\ polled' = FALSE
    /\ poll' = "send"
    /\ UNCHANGED <<armed, queue>>

sendExpire ==
    /\ poll = "send"
    /\ queue' = Append(queue, [op |-> "expire"])
    /\ poll' = "wait"
    /\ UNCHANGED kernel

PollTask ==
    /\ epoll_wait \/ disarm \/ removePoll \/ sendExpire
    /\ UNCHANGED <<now, clientVars, mTree, task, misused>>

-----------------------------------------------------------------------------
(* The MsgTask's thread.                                                     *)

\* Mutant: a new top is only set in the kernel if the heap was empty.
updateWhenEmptied(priorTop, tree) ==
    IF peek(tree) = priorTop \/ priorTop # NULL THEN Idle
    ELSE [at |-> "poll", time |-> IF tree = Nil THEN NoTime ELSE peek(tree).mFutureTime]

\* Mutant: a moment late.
updateLate(priorTop, tree) ==
    IF peek(tree) = priorTop THEN Idle
    ELSE [at |-> "poll", time |-> IF tree = Nil THEN NoTime ELSE peek(tree).mFutureTime + 1]

\* What updateSoonestTime does next: the new top is polled, then set.
updateSoonestTime(priorTop, tree) ==
    LET curTop == peek(tree)
    IN  IF curTop = priorTop THEN Idle
        ELSE IF tree = Nil THEN [at |-> "poll", time |-> NoTime]
        ELSE IF priorTop = NULL THEN [at |-> "poll", time |-> curTop.mFutureTime]
        ELSE IF outRanks(curTop, priorTop) THEN [at |-> "poll", time |-> curTop.mFutureTime]
        ELSE Idle

MsgTimerPush(m) ==
    /\ m.op = "push"
    /\ LET tree == push(mTree, Timer(m.timer))
       IN  /\ mTree' = tree
           /\ task' = updateSoonestTime(peek(mTree), tree)
    /\ UNCHANGED clientVars

\* "all timers are deleted here, and only here"
MsgTimerRemove(m) ==
    /\ m.op = "remove"
    /\ LET tree == remove(mTree, Timer(m.timer))
           top == mTree # Nil /\ peek(mTree) = Timer(m.timer)
       IN  /\ mTree' = tree
           /\ task' = IF top THEN updateSoonestTime(NULL, tree) ELSE Idle
    /\ delegates' = [delegates EXCEPT ![m.timer].deleted = TRUE]
    /\ UNCHANGED clients

\* Mutant: the next top is not set when the loop ends.
PoppedOnly(pops, since) ==
    IF pops THEN mTree' = pop(mTree) /\ task' = [at |-> "expire", timer |-> peek(mTree).id,
                                                 since |-> since]
    ELSE mTree' = mTree /\ task' = Idle

\* The next timer popped, or the end of the loop.
Popped(pops, since) ==
    IF pops THEN mTree' = pop(mTree) /\ task' = [at |-> "expire", timer |-> peek(mTree).id,
                                                 since |-> since]
    ELSE mTree' = mTree /\ task' = updateSoonestTime(NULL, mTree)

\* The first timer is popped whatever its time.
MsgTimerExpire(m) ==
    /\ m.op = "expire"
    /\ Popped(mTree # Nil, now)
    /\ UNCHANGED clientVars

Receive ==
    /\ task = Idle
    /\ queue # <<>>
    /\ queue' = Tail(queue)
    /\ LET m == Head(queue) IN MsgTimerPush(m) \/ MsgTimerRemove(m) \/ MsgTimerExpire(m)
    /\ UNCHANGED <<kernel, misused>>

popIfOutRanks ==
    /\ task.at = "next"
    /\ Popped(mTree # Nil /\ peek(mTree).mFutureTime <= task.since, task.since)
    /\ UNCHANGED <<clientVars, queue, kernel, misused>>

Again == [at |-> "next", since |-> task.since]

\* LocTimerDelegate::expire: the client is read, then stopped, then called.
readClient ==
    /\ task.at = "expire"
    /\ LET client == delegates[task.timer].mClient
       IN  task' = IF client = NULL THEN Again
                   ELSE [at |-> "stop", client |-> client, since |-> task.since]
    /\ UNCHANGED <<clientVars, mTree, queue, kernel, misused>>

stopClient ==
    /\ task.at = "stop"
    /\ LET c == task.client
           timer == clients[c].mTimer
       IN  IF ~clients[c].alive
           THEN misused' = TRUE /\ task' = Idle /\ UNCHANGED <<clientVars, queue>>
           ELSE /\ Stopped(c)
                /\ clients' = [clients EXCEPT ![c].mTimer = NULL]
                /\ task' = IF timer = NULL THEN Again
                           ELSE [at |-> "call", client |-> c, since |-> task.since]
                /\ UNCHANGED misused
    /\ UNCHANGED <<mTree, kernel>>

timeOutCallback ==
    /\ task.at = "call"
    /\ misused' = ~clients[task.client].alive
    /\ task' = Again
    /\ UNCHANGED <<clientVars, mTree, queue, kernel>>

\* updateSoonestTime's two system calls: epoll_ctl, then timerfd_settime.
updatePoll ==
    /\ task.at = "poll"
    /\ polled' = (task.time # NoTime)
    /\ task' = [task EXCEPT !.at = "settime"]
    /\ UNCHANGED <<clientVars, mTree, queue, armed, misused>>

settime ==
    /\ task.at = "settime"
    /\ armed' = task.time
    /\ task' = Idle
    /\ UNCHANGED <<clientVars, mTree, queue, polled, misused>>

MsgTask ==
    /\ \/ Receive \/ popIfOutRanks \/ readClient \/ stopClient \/ timeOutCallback
       \/ updatePoll \/ settime
    /\ UNCHANGED <<now, poll>>

Tick ==
    /\ now < MaxNow
    /\ now' = now + 1
    /\ UNCHANGED <<clientVars, mTree, queue, kernel, poll, task, misused>>

Init ==
    /\ now = 0
    /\ clients = [c \in Clients |-> [alive |-> TRUE, mTimer |-> NULL]]
    /\ delegates = <<>>
    /\ mTree = Nil
    /\ queue = <<>>
    /\ armed = NoTime
    /\ polled = FALSE
    /\ poll = "wait"
    /\ task = Idle
    /\ misused = FALSE

Next == ~misused /\ (start \/ stop \/ delete \/ PollTask \/ MsgTask \/ Tick)

Spec == Init /\ [][Next]_vars

\* The service's own threads run, and time passes.
Fairness == WF_vars(~misused /\ PollTask) /\ WF_vars(~misused /\ MsgTask) /\ WF_vars(~misused /\ Tick)

FairSpec == Spec /\ Fairness

-----------------------------------------------------------------------------
(* Properties.                                                               *)

Started == DOMAIN delegates
InHeap == {d.id : d \in Data(mTree)}

TypeOK ==
    /\ now \in 0..MaxNow
    /\ \A c \in Clients : clients[c].alive \in BOOLEAN /\ clients[c].mTimer \in Started \cup {NULL}
    /\ \A i \in Started : delegates[i].mClient \in Clients \cup {NULL}
    /\ InHeap \subseteq Started
    /\ \A j \in DOMAIN queue : queue[j].op # "expire" => queue[j].timer \in Started
    /\ armed \in (0..MaxNow) \cup {NoTime} /\ polled \in BOOLEAN
    /\ poll \in {"wait", "disarm", "removePoll", "send"}
    /\ task.at \in {"idle", "expire", "next", "stop", "call", "poll", "settime"}

\* Once nothing is on its way, the descriptor is polled and set to the time of
\* the soonest timer, in whatever order the two threads' system calls came.  If
\* there is none it may still be set: removing the last timer does not disarm
\* it.  (updateSoonestTime, expire)
ArmedWhenQuiet ==
    queue = <<>> /\ task = Idle /\ poll = "wait" /\ mTree # Nil =>
      /\ polled
      /\ \A d \in Data(mTree) : armed <= d.mFutureTime
      /\ armed = peek(mTree).mFutureTime

\* The heap stays sorted and counted, and neither it nor a message nor a client
\* refers to a delegate that was deleted.  (LocHeap::remove, checkNodes)
NothingDangles ==
    /\ checkNodes(mTree)
    /\ \A i \in InHeap : ~delegates[i].deleted
    /\ \A j \in DOMAIN queue : queue[j].op # "expire" => ~delegates[queue[j].timer].deleted
    /\ \A c \in Clients : clients[c].mTimer # NULL => ~delegates[clients[c].mTimer].deleted
    /\ task.at = "expire" => ~delegates[task.timer].deleted

\* A timer that is started is called back or stopped, though the thread that
\* arms and the one that disarms know nothing of each other.  (LocTimer::start)
Ends(i) == i \in Started => delegates[i].mClient = NULL
EveryTimerEnds == \A i \in 1..MaxStarts : []<>(Ends(i) \/ misused)
=============================================================================
