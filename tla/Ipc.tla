-------------------------------- MODULE Ipc --------------------------------
(***************************************************************************)
(* Threads, the timer tick that switches between them and the message      *)
(* ports they block on: sched.rs and ipc.rs under rust_ipc_send,           *)
(* rust_ipc_recv and the scheduling half of rust_kernel_tick.              *)
(*                                                                         *)
(* The calls hold the kernel mutex, so each is one step; between them the  *)
(* tick may come.  rust_ipc_recv does not stop its caller: it marks the    *)
(* thread Blocked and returns 0, and the thread runs on until a tick       *)
(* finds another one that is Ready.  Spec is about callers that wait until *)
(* they are Ready before they ask again, PollSpec about callers that ask   *)
(* in a loop.                                                              *)
(*                                                                         *)
(* rust_ipc_recv drops the payload, so a port's queue is a count.          *)
(***************************************************************************)
EXTENDS Sched, FiniteSets

CONSTANTS Ports,
          MAX_MESSAGES,     \* 1024
          MaxThreads,       \* bound: threads ever spawned
          MaxRip            \* bound: how far a thread runs

ASSUME IpcAssumption ==
    MAX_MESSAGES \in Nat \ {0} /\ MaxThreads \in Nat /\ MaxRip \in Nat

VARIABLES
    scheduler,
    channels,   \* for each port its messages and its blocked_threads
    rip,        \* how far the code on the CPU has got, 0 at its entry point
    woken,      \* history: for each port, the threads woken that have not asked again
    passed,     \* history: the ticks a Ready thread has been passed over in a row
    stopped     \* history: how far each thread had got when it was switched out

vars == <<scheduler, channels, rip, woken, passed, stopped>>

Tids == 1 .. MaxThreads
Channel == [messages : 0 .. MAX_MESSAGES, blocked_threads : Seq(Tids)]

\* The threads that exist, and the state of one.
Spawned == {scheduler.threads[i].id : i \in DOMAIN scheduler.threads}
StateOf(t) ==
    scheduler.threads[CHOOSE i \in DOMAIN scheduler.threads : scheduler.threads[i].id = t].state

Init ==
    /\ scheduler = NewScheduler
    /\ channels = [p \in Ports |-> [messages |-> 0, blocked_threads |-> <<>>]]
    /\ rip = 0
    /\ woken = [p \in Ports |-> {}]
    /\ passed = [t \in Tids |-> 0]
    /\ stopped = [t \in Tids |-> 0]

-----------------------------------------------------------------------------
\* Scheduler::spawn, one session for each thread.
Spawn ==
    /\ scheduler.next_thread_id <= MaxThreads
    /\ scheduler' = spawn(scheduler, scheduler.next_thread_id)
    /\ UNCHANGED <<channels, rip, woken, passed, stopped>>

full(ch) == ch.messages >= MAX_MESSAGES

\* Mutant: a receiver is only woken by the first message of an empty queue.
wakes_if_empty(ch) == ch.messages = 0 /\ ch.blocked_threads # <<>>

\* Whether pop_front takes a thread off blocked_threads.
wakes(ch) == ch.blocked_threads # <<>>

\* rust_ipc_send: the message is queued and the longest waiting receiver woken;
\* a full queue drops the message, and nobody is woken.
SendWake(p) ==
    LET ch == channels[p]
        t == Head(ch.blocked_threads)
    IN  /\ ~ full(ch) /\ wakes(ch)
        /\ channels' = [channels EXCEPT ![p] =
               [messages |-> ch.messages + 1, blocked_threads |-> Tail(ch.blocked_threads)]]
        /\ scheduler' = set_state(scheduler, t, "Ready")
        /\ woken' = [woken EXCEPT ![p] = woken[p] \cup {t}]
        /\ UNCHANGED <<rip, passed, stopped>>

SendQueue(p) ==
    /\ ~ full(channels[p]) /\ ~ wakes(channels[p])
    /\ channels' = [channels EXCEPT ![p].messages = channels[p].messages + 1]
    /\ UNCHANGED <<scheduler, rip, woken, passed, stopped>>

SendFull(p) ==
    /\ full(channels[p])
    /\ UNCHANGED vars

\* Mutant: the caller goes on the blocked list but stays Ready.
block_stays_ready(t) == scheduler

\* The loop of rust_ipc_recv over the threads.
block(t) == set_state(scheduler, t, "Blocked")

\* rust_ipc_recv, called by the thread on the CPU: a message, or 0 and Blocked.
RecvMessage(p) ==
    LET t == scheduler.active_thread
    IN  /\ t # 0
        /\ channels[p].messages > 0
        /\ channels' = [channels EXCEPT ![p].messages = channels[p].messages - 1]
        /\ woken' = [woken EXCEPT ![p] = woken[p] \ {t}]
        /\ UNCHANGED <<scheduler, rip, passed, stopped>>

RecvBlock(p) ==
    LET t == scheduler.active_thread
    IN  /\ t # 0
        /\ channels[p].messages = 0
        /\ channels' = [channels EXCEPT ![p].blocked_threads =
                            Append(channels[p].blocked_threads, t)]
        /\ scheduler' = block(t)
        /\ woken' = [woken EXCEPT ![p] = woken[p] \ {t}]
        /\ passed' = [passed EXCEPT ![t] = 0]
        /\ UNCHANGED <<rip, stopped>>

\* The thread on the CPU does something else.
Run ==
    /\ scheduler.active_thread # 0 /\ rip < MaxRip
    /\ rip' = rip + 1
    /\ UNCHANGED <<scheduler, channels, woken, passed, stopped>>

\* rust_kernel_tick: the next Ready thread starts with the rip of its context,
\* which is its entry point.  No Ready thread: the frame is left as it is.
Tick ==
    /\ scheduler' = schedule_next(scheduler)
    /\ rip' = IF ReadyAt(scheduler) = {} THEN rip ELSE 0
    /\ stopped' = IF ReadyAt(scheduler) = {} \/ scheduler.active_thread = 0 THEN stopped
                  ELSE [stopped EXCEPT ![scheduler.active_thread] = rip]
    /\ passed' = [t \in Tids |->
           IF t \in Spawned /\ StateOf(t) = "Ready" /\ t # scheduler'.active_thread
           THEN passed[t] + 1 ELSE 0]
    /\ UNCHANGED <<channels, woken>>

-----------------------------------------------------------------------------
\* A caller that waits: it asks only when Ready, and after it was woken it asks
\* the port that woke it.
MayRecv(p) ==
    LET t == scheduler.active_thread
    IN  /\ t # 0 /\ StateOf(t) = "Ready"
        /\ \A q \in Ports \ {p} : t \notin woken[q]

Next ==
    \/ Spawn
    \/ Tick
    \/ Run
    \/ \E p \in Ports : SendWake(p)
    \/ \E p \in Ports : SendQueue(p)
    \/ \E p \in Ports : SendFull(p)
    \/ \E p \in Ports : MayRecv(p) /\ RecvMessage(p)
    \/ \E p \in Ports : MayRecv(p) /\ RecvBlock(p)

Spec == Init /\ [][Next]_vars

\* A caller that asks again as soon as it got 0.  (Bound: once more.)
PollRecv(p) ==
    /\ Len(channels[p].blocked_threads) < MaxThreads
    /\ RecvMessage(p) \/ RecvBlock(p)

PollNext == Next \/ \E p \in Ports : PollRecv(p)

PollSpec == Init /\ [][PollNext]_vars

-----------------------------------------------------------------------------
(* Properties *)

TypeOK ==
    /\ scheduler \in Scheduler /\ scheduler.next_thread_id <= MaxThreads + 1
    /\ channels \in [Ports -> Channel]
    /\ rip \in 0 .. MaxRip
    /\ woken \in [Ports -> SUBSET Tids]
    /\ passed \in [Tids -> Nat]
    /\ stopped \in [Tids -> 0 .. MaxRip]

\* The places of t in the blocked lists of all ports.
BlockedAt(t) ==
    {x \in Ports \X (1 .. MaxThreads) :
        x[2] \in DOMAIN channels[x[1]].blocked_threads
          /\ channels[x[1]].blocked_threads[x[2]] = t}

\* The state the scheduler keeps and the lists the ports keep agree: a Blocked
\* thread waits in exactly one place, so it can be woken, and a Ready one in none,
\* so it is never taken for a sleeper.
BlockedIsQueued ==
    \A t \in Spawned :
        Cardinality(BlockedAt(t)) = (IF StateOf(t) = "Blocked" THEN 1 ELSE 0)

\* No wakeup is lost: a port where somebody waits has no message that is not
\* spoken for by a thread that was woken for it.
NoLostWakeup ==
    \A p \in Ports :
        channels[p].blocked_threads # <<>> =>
            channels[p].messages <= Cardinality(woken[p])

\* Round robin: a thread that stays Ready is passed over by fewer ticks in a row
\* than there are threads, however threads block, wake and arrive meanwhile.
BoundedWait == \A t \in Spawned : passed[t] < Len(scheduler.threads)

\* ipc.rs:57, "Wake a blocked receiver if one exists": while a Blocked thread is
\* on the list of a port, a message sent to it makes some Blocked thread Ready.
SendWakesReceiver ==
    [][\A p \in Ports :
        (/\ channels'[p].messages > channels[p].messages
         /\ \E i \in DOMAIN channels[p].blocked_threads :
               StateOf(channels[p].blocked_threads[i]) = "Blocked")
        => \E t \in Spawned : StateOf(t) = "Blocked" /\ StateOf(t)' = "Ready"]_vars

\* sched.rs:96, "Preempted -- back to ready": a thread that is switched in goes on
\* where it was when it was switched out.
ResumesWhereStopped ==
    [][scheduler'.active_thread # scheduler.active_thread =>
        rip' = stopped[scheduler'.active_thread]]_vars

=============================================================================
