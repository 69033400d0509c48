----------------------------- MODULE IpcProofs -----------------------------
(***************************************************************************)
(* Ports and threads: what the callers that wait (Spec of Ipc) can rely    *)
(* on, for any number of ports and threads.                                *)
(***************************************************************************)
EXTENDS Ipc, SchedProofs, FiniteSetTheorems

List(p) == channels[p].blocked_threads

(* The scheduler's half: ids are unique, and bounded by MaxThreads.        *)
ThreadsOK ==
    /\ scheduler.next_thread_id \in 1 .. MaxThreads + 1
    /\ ThreadIds(scheduler)

(* The ports' half: who is on a blocked list is Blocked, is there once,    *)
(* and every Blocked thread is on one.                                     *)
QueuesOK ==
    /\ \A p \in Ports : \A i \in 1 .. Len(List(p)) : InState(scheduler, List(p)[i], "Blocked")
    /\ \A p, q \in Ports : \A i \in 1 .. Len(List(p)), j \in 1 .. Len(List(q)) :
          List(p)[i] = List(q)[j] => p = q /\ i = j
    /\ \A t \in Tids : InState(scheduler, t, "Blocked") =>
          \E p \in Ports : \E i \in 1 .. Len(List(p)) : List(p)[i] = t

(* A woken thread stays Ready until it asks the port that woke it.         *)
WokenOK ==
    \A p \in Ports : \A t \in woken[p] : InState(scheduler, t, "Ready")

(* A thread's place in the queue bounds the ticks it was passed over.      *)
PassedOK ==
    /\ \A i \in 1 .. Len(scheduler.threads) :
          passed[scheduler.threads[i].id] + i <= Len(scheduler.threads)
    /\ \A t \in Tids : InState(scheduler, t, "Blocked") => passed[t] = 0
    /\ \A t \in Tids : t >= scheduler.next_thread_id => passed[t] = 0

IInv ==
    /\ TypeOK
    /\ ThreadsOK
    /\ QueuesOK
    /\ WokenOK
    /\ NoLostWakeup
    /\ PassedOK

-----------------------------------------------------------------------------
(* What the operators of Ipc say, in terms of InState.                     *)

LEMMA DomainOfThreads ==
    ASSUME TypeOK
    PROVE  /\ scheduler \in Scheduler
           /\ scheduler.threads \in Seq(Thread)
           /\ Len(scheduler.threads) \in Nat
           /\ DOMAIN scheduler.threads = 1 .. Len(scheduler.threads)
BY SchedulerTyped DEF TypeOK

LEMMA StateOfInState ==
    ASSUME TypeOK, ThreadsOK, NEW t, NEW x, InState(scheduler, t, x)
    PROVE  StateOf(t) = x /\ t \in Spawned
<1>1. StateOf(t) = x
  BY DomainOfThreads, StateUnderId DEF ThreadsOK, StateOf
<1>2. t \in Spawned
  BY DomainOfThreads DEF Spawned, InState
<1>. QED
  BY <1>1, <1>2

LEMMA SpawnedInState ==
    ASSUME TypeOK, NEW t \in Spawned
    PROVE  t \in Nat /\ (InState(scheduler, t, "Ready") \/ InState(scheduler, t, "Blocked"))
<1>1. PICK i \in 1 .. Len(scheduler.threads) : scheduler.threads[i].id = t
  BY DomainOfThreads DEF Spawned
<1>2. scheduler.threads[i].id \in Nat /\ scheduler.threads[i].state \in ThreadState
  BY DomainOfThreads, ThreadTyped
<1>. QED
  BY <1>1, <1>2 DEF InState, ThreadState

LEMMA OneState ==
    ASSUME TypeOK, ThreadsOK, NEW t, InState(scheduler, t, "Ready")
    PROVE  ~ InState(scheduler, t, "Blocked")
BY StateOfInState

LEMMA InStateTid ==
    ASSUME TypeOK, ThreadsOK, NEW t, NEW x, InState(scheduler, t, x)
    PROVE  t \in Tids /\ t < scheduler.next_thread_id /\ t # 0
<1>1. scheduler.next_thread_id \in 1 .. MaxThreads + 1 /\ MaxThreads \in Nat
  BY IpcAssumption DEF ThreadsOK
<1>2. t \in 1 .. scheduler.next_thread_id - 1
  BY DEF ThreadsOK, ThreadIds, InState
<1>. QED
  BY <1>1, <1>2 DEF Tids

(* The thread on the CPU that waits until it is Ready before it asks.      *)
LEMMA Caller ==
    ASSUME TypeOK, ThreadsOK, NEW p \in Ports, MayRecv(p)
    PROVE  /\ scheduler.active_thread \in Tids
           /\ InState(scheduler, scheduler.active_thread, "Ready")
<1>. DEFINE t == scheduler.active_thread
<1>1. t # 0 /\ StateOf(t) = "Ready"
  BY DEF MayRecv
<1>2. PICK i \in 1 .. Len(scheduler.threads) : scheduler.threads[i].id = t
  BY <1>1 DEF ThreadsOK, ThreadIds
<1>3. t \in Spawned
  BY <1>2, DomainOfThreads DEF Spawned
<1>. HIDE DEF t
<1>4. InState(scheduler, t, "Ready")
  BY <1>1, <1>3, SpawnedInState, StateOfInState
<1>5. t \in Tids
  BY <1>4, InStateTid
<1>. QED
  BY <1>4, <1>5 DEF t

LEMMA ChannelTyped ==
    ASSUME TypeOK, NEW p \in Ports
    PROVE  /\ channels[p] \in Channel
           /\ channels[p].messages \in 0 .. MAX_MESSAGES
           /\ List(p) \in Seq(Tids)
           /\ Len(List(p)) \in Nat
           /\ DOMAIN List(p) = 1 .. Len(List(p))
<1>1. channels[p] \in Channel
  BY DEF TypeOK
<1>2. List(p) \in Seq(Tids) /\ channels[p].messages \in 0 .. MAX_MESSAGES
  BY <1>1 DEF Channel, List
<1>. QED
  BY <1>1, <1>2

LEMMA ChannelMessages ==
    ASSUME NEW ch \in Channel, NEW m
    PROVE  [ch EXCEPT !.messages = m] =
               [messages |-> m, blocked_threads |-> ch.blocked_threads]
BY DEF Channel

LEMMA ChannelBlocked ==
    ASSUME NEW ch \in Channel, NEW l
    PROVE  [ch EXCEPT !.blocked_threads = l] =
               [messages |-> ch.messages, blocked_threads |-> l]
BY DEF Channel

LEMMA WokenFinite ==
    ASSUME TypeOK, NEW p \in Ports
    PROVE  /\ woken[p] \in SUBSET Tids /\ IsFiniteSet(woken[p])
           /\ Cardinality(woken[p]) \in Nat
<1>1. IsFiniteSet(Tids)
  BY IpcAssumption, FS_Interval DEF Tids
<1>2. woken[p] \in SUBSET Tids
  BY DEF TypeOK
<1>. QED
  BY <1>1, <1>2, FS_Subset, FS_CardinalityType

-----------------------------------------------------------------------------
(* One lemma for each kind of step.                                        *)

LEMMA InitInv ==
    ASSUME Init
    PROVE  IInv
<1>1. /\ scheduler \in Scheduler /\ scheduler.threads = <<>> /\ Len(scheduler.threads) = 0
      /\ scheduler.next_thread_id = 1 /\ scheduler.active_thread = 0
  BY DEF Init, NewScheduler, Scheduler
<1>2. \A p \in Ports : channels[p] \in Channel /\ List(p) = <<>> /\ Len(List(p)) = 0
  BY IpcAssumption DEF Init, Channel, List
<1>3. TypeOK
  <2>1. rip \in 0 .. MaxRip /\ scheduler.next_thread_id <= MaxThreads + 1
    BY <1>1, IpcAssumption DEF Init
  <2>2. channels \in [Ports -> Channel]
    BY <1>2 DEF Init
  <2>3. /\ woken \in [Ports -> SUBSET Tids]
        /\ passed \in [Tids -> Nat]
        /\ stopped \in [Tids -> 0 .. MaxRip]
    BY IpcAssumption DEF Init
  <2>. QED
    BY <1>1, <2>1, <2>2, <2>3 DEF TypeOK
<1>4. \A t, x : ~ InState(scheduler, t, x)
  BY <1>1 DEF InState
<1>5. ThreadsOK
  BY <1>1, IpcAssumption DEF ThreadsOK, ThreadIds
<1>6. QueuesOK
  BY <1>2, <1>4 DEF QueuesOK
<1>7. WokenOK
  BY DEF Init, WokenOK
<1>8. NoLostWakeup
  BY <1>2 DEF NoLostWakeup, List
<1>9. PassedOK
  BY <1>1, <1>4 DEF PassedOK, Init
<1>. QED
  BY <1>3, <1>5, <1>6, <1>7, <1>8, <1>9 DEF IInv

LEMMA SpawnInv ==
    ASSUME IInv, Spawn
    PROVE  IInv'
<1>. DEFINE s == scheduler
            n == Len(s.threads)
            id == s.next_thread_id
<1>1. TypeOK /\ ThreadsOK /\ s \in Scheduler /\ n \in Nat /\ id \in Nat /\ id # 0
  BY DomainOfThreads, SchedulerTyped DEF IInv, ThreadsOK
<1>2. scheduler' = spawn(s, id) /\ id <= MaxThreads
  BY DEF Spawn
<1>3. scheduler' \in Scheduler
  BY <1>1, <1>2, SpawnTyped
<1>4. /\ ThreadIds(scheduler')
      /\ Len(scheduler'.threads) = n + 1
      /\ \A i \in 1 .. n : scheduler'.threads[i] = s.threads[i]
      /\ scheduler'.threads[n + 1].id = id
      /\ \A t, x : InState(scheduler', t, x) <=> (InState(s, t, x) \/ (t = id /\ x = "Ready"))
  BY <1>1, <1>2, SpawnEffect DEF ThreadsOK
<1>5. scheduler'.next_thread_id = id + 1
  BY <1>2 DEF spawn
<1>6. UNCHANGED <<channels, rip, woken, passed, stopped>>
  BY DEF Spawn
<1>7. \A p : List(p)' = List(p)
  BY <1>6 DEF List
<1>8. TypeOK'
  <2>1. scheduler'.next_thread_id <= MaxThreads + 1
    BY <1>1, <1>2, <1>5, IpcAssumption
  <2>. QED
    BY <1>1, <1>3, <1>6, <2>1 DEF TypeOK
<1>9. ThreadsOK'
  BY <1>1, <1>2, <1>4, <1>5, IpcAssumption DEF ThreadsOK
<1>10. QueuesOK'
  <2>1. QueuesOK
    BY DEF IInv
  <2>2. \A t : InState(scheduler', t, "Blocked") <=> InState(s, t, "Blocked")
    BY <1>4
  <2>. HIDE DEF s
  <2>. QED
    BY <2>1, <2>2, <1>7 DEF QueuesOK, s
<1>11. WokenOK'
  BY <1>4, <1>6 DEF IInv, WokenOK
<1>12. NoLostWakeup'
  BY <1>6 DEF IInv, NoLostWakeup
<1>13. PassedOK'
  <2>1. PassedOK
    BY DEF IInv
  <2>2. id \in Tids
    BY <1>1, <1>2, IpcAssumption DEF Tids
  <2>3. passed[id] = 0
    BY <2>1, <2>2, <1>1 DEF PassedOK
  <2>4. \A i \in 1 .. n + 1 : passed[scheduler'.threads[i].id] + i <= n + 1
    <3>. TAKE i \in 1 .. n + 1
    <3>1. CASE i = n + 1
      BY <3>1, <2>3, <1>1, <1>4
    <3>2. CASE i # n + 1
      <4>1. i \in 1 .. n
        BY <3>2, <1>1
      <4>2. passed[s.threads[i].id] + i <= n
        BY <4>1, <2>1 DEF PassedOK
      <4>3. s.threads[i].id \in Tids
        <5>1. InState(s, s.threads[i].id, s.threads[i].state)
          BY <4>1 DEF InState
        <5>. QED
          BY <1>1, <5>1, InStateTid
      <4>4. passed[s.threads[i].id] \in Nat
        BY <4>3, <1>1 DEF TypeOK
      <4>5. scheduler'.threads[i].id = s.threads[i].id
        BY <4>1, <1>4
      <4>. QED
        BY <4>1, <4>2, <4>4, <4>5, <1>1
    <3>. QED
      BY <3>1, <3>2
  <2>5. \A t \in Tids : InState(scheduler', t, "Blocked") => passed[t] = 0
    BY <1>4, <2>1 DEF PassedOK
  <2>6. \A t \in Tids : t >= id + 1 => passed[t] = 0
    BY <1>1, <2>1 DEF PassedOK, Tids
  <2>. QED
    BY <2>4, <2>5, <2>6, <1>4, <1>5, <1>6 DEF PassedOK
<1>. QED
  BY <1>8, <1>9, <1>10, <1>11, <1>12, <1>13 DEF IInv

(* Steps that leave the threads alone: the code between the calls, a send  *)
(* that nobody waits for or that finds the queue full, a receive that gets *)
(* a message.                                                              *)
LEMMA SameThreads ==
    ASSUME IInv, TypeOK', UNCHANGED <<scheduler, passed>>,
           \A p \in Ports : List(p)' = List(p),
           \A p \in Ports : woken'[p] \subseteq woken[p],
           NoLostWakeup'
    PROVE  IInv'
<1>1. ThreadsOK'
  BY DEF IInv, ThreadsOK
<1>2. QueuesOK'
  BY DEF IInv, QueuesOK
<1>3. WokenOK'
  BY DEF IInv, WokenOK
<1>4. PassedOK'
  BY DEF IInv, PassedOK
<1>. QED
  BY <1>1, <1>2, <1>3, <1>4 DEF IInv

LEMMA RunInv ==
    ASSUME IInv, Run
    PROVE  IInv'
<1>1. UNCHANGED <<scheduler, channels, woken, passed, stopped>>
  BY DEF Run
<1>2. TypeOK'
  <2>1. rip' \in 0 .. MaxRip
    BY IpcAssumption DEF IInv, TypeOK, Run
  <2>. QED
    BY <1>1, <2>1 DEF IInv, TypeOK
<1>3. NoLostWakeup'
  BY <1>1 DEF IInv, NoLostWakeup
<1>. QED
  BY <1>1, <1>2, <1>3, SameThreads DEF List

LEMMA SendQueueInv ==
    ASSUME IInv, NEW p \in Ports, SendQueue(p)
    PROVE  IInv'
<1>1. UNCHANGED <<scheduler, rip, woken, passed, stopped>>
  BY DEF SendQueue
<1>2. TypeOK /\ channels[p] \in Channel /\ channels[p].messages \in 0 .. MAX_MESSAGES
      /\ List(p) \in Seq(Tids)
  BY ChannelTyped DEF IInv
<1>3. channels[p].messages + 1 \in 0 .. MAX_MESSAGES
  BY <1>2, IpcAssumption DEF SendQueue, full
<1>4. channels' = [channels EXCEPT ![p] =
          [messages |-> channels[p].messages + 1, blocked_threads |-> List(p)]]
  <2>1. channels' = [channels EXCEPT ![p] = [channels[p] EXCEPT !.messages = channels[p].messages + 1]]
    BY DEF SendQueue
  <2>. QED
    BY <2>1, <1>2, ChannelMessages, Zenon DEF List
<1>5. [messages |-> channels[p].messages + 1, blocked_threads |-> List(p)] \in Channel
  BY <1>2, <1>3 DEF Channel
<1>6. TypeOK'
  BY <1>1, <1>2, <1>4, <1>5 DEF TypeOK
<1>7. \A q \in Ports : List(q)' = List(q)
  BY <1>2, <1>4 DEF List, TypeOK
<1>8. List(p) = <<>>
  BY DEF SendQueue, wakes, List
<1>9. NoLostWakeup'
  <2>. SUFFICES ASSUME NEW q \in Ports, List(q) # <<>>
                PROVE  channels'[q].messages <= Cardinality(woken[q])
    BY <1>1, <1>7 DEF NoLostWakeup, List
  <2>1. q # p
    BY <1>8
  <2>2. channels'[q] = channels[q]
    BY <2>1, <1>2, <1>4 DEF TypeOK
  <2>. QED
    BY <2>2 DEF IInv, NoLostWakeup, List
<1>. QED
  BY <1>1, <1>6, <1>7, <1>9, SameThreads

LEMMA RecvMessageInv ==
    ASSUME IInv, NEW p \in Ports, MayRecv(p), RecvMessage(p)
    PROVE  IInv'
<1>. DEFINE t == scheduler.active_thread
<1>1. UNCHANGED <<scheduler, rip, passed, stopped>>
  BY DEF RecvMessage
<1>2. TypeOK /\ channels[p] \in Channel /\ channels[p].messages \in 0 .. MAX_MESSAGES
      /\ List(p) \in Seq(Tids)
  BY ChannelTyped DEF IInv
<1>3. channels[p].messages - 1 \in 0 .. MAX_MESSAGES
  BY <1>2, IpcAssumption DEF RecvMessage
<1>4. channels' = [channels EXCEPT ![p] =
          [messages |-> channels[p].messages - 1, blocked_threads |-> List(p)]]
  <2>1. channels' = [channels EXCEPT ![p] = [channels[p] EXCEPT !.messages = channels[p].messages - 1]]
    BY DEF RecvMessage
  <2>. QED
    BY <2>1, <1>2, ChannelMessages, Zenon DEF List
<1>5. [messages |-> channels[p].messages - 1, blocked_threads |-> List(p)] \in Channel
  BY <1>2, <1>3 DEF Channel
<1>6. woken' = [woken EXCEPT ![p] = woken[p] \ {t}]
  BY DEF RecvMessage
<1>7. TypeOK'
  BY <1>1, <1>2, <1>4, <1>5, <1>6 DEF TypeOK
<1>8. \A q \in Ports : List(q)' = List(q)
  BY <1>2, <1>4 DEF List, TypeOK
<1>9. \A q \in Ports : woken'[q] \subseteq woken[q]
  BY <1>2, <1>6 DEF TypeOK
<1>10. NoLostWakeup'
  <2>. SUFFICES ASSUME NEW q \in Ports, List(q) # <<>>
                PROVE  channels'[q].messages <= Cardinality(woken'[q])
    BY <1>8 DEF NoLostWakeup, List
  <2>1. channels[q].messages <= Cardinality(woken[q])
    BY DEF IInv, NoLostWakeup, List
  <2>2. CASE q # p
    <3>1. channels'[q] = channels[q] /\ woken'[q] = woken[q]
      BY <2>2, <1>2, <1>4, <1>6 DEF TypeOK
    <3>. QED
      BY <3>1, <2>1
  <2>3. CASE q = p
    <3>1. channels'[p].messages = channels[p].messages - 1 /\ woken'[p] = woken[p] \ {t}
      BY <1>2, <1>4, <1>6 DEF TypeOK
    <3>2. Cardinality(woken[p] \ {t}) >= Cardinality(woken[p]) - 1
          /\ Cardinality(woken[p] \ {t}) \in Int
      <4>1. /\ IsFiniteSet(woken[p]) /\ Cardinality(woken[p]) \in Nat
            /\ Cardinality(woken[p] \ {t}) =
                  IF t \in woken[p] THEN Cardinality(woken[p]) - 1 ELSE Cardinality(woken[p])
        BY <1>2, WokenFinite, FS_RemoveElement, Zenon
      <4>. QED
        BY <4>1
    <3>. QED
      BY <2>1, <2>3, <3>1, <3>2, <1>2, WokenFinite
  <2>. QED
    BY <2>2, <2>3
<1>. QED
  BY <1>1, <1>7, <1>8, <1>9, <1>10, SameThreads

LEMMA SendWakeInv ==
    ASSUME IInv, NEW p \in Ports, SendWake(p)
    PROVE  IInv'
<1>. DEFINE s == scheduler
            t == Head(List(p))
            w == [messages |-> channels[p].messages + 1, blocked_threads |-> Tail(List(p))]
<1>1. TypeOK /\ ThreadsOK /\ s \in Scheduler /\ ThreadIds(s)
  BY DomainOfThreads DEF IInv, ThreadsOK
<1>2. /\ channels[p].messages \in 0 .. MAX_MESSAGES
      /\ List(p) \in Seq(Tids) /\ Len(List(p)) \in Nat
  BY <1>1, ChannelTyped
<1>3. List(p) # <<>> /\ channels[p].messages + 1 \in 0 .. MAX_MESSAGES
  BY <1>2, IpcAssumption DEF SendWake, full, wakes, List
<1>4. /\ Len(List(p)) \in Nat /\ 1 \in 1 .. Len(List(p)) /\ t = List(p)[1]
      /\ Tail(List(p)) \in Seq(Tids) /\ Len(Tail(List(p))) = Len(List(p)) - 1
      /\ \A i \in 1 .. Len(List(p)) - 1 : Tail(List(p))[i] = List(p)[i + 1]
  <2>. DEFINE l == List(p)
  <2>. HIDE DEF l
  <2>1. l \in Seq(Tids) /\ l # <<>>
    BY <1>2, <1>3 DEF l
  <2>2. /\ Len(l) \in Nat /\ 1 \in 1 .. Len(l) /\ Head(l) = l[1]
        /\ Tail(l) \in Seq(Tids) /\ Len(Tail(l)) = Len(l) - 1
        /\ \A i \in 1 .. Len(l) - 1 : Tail(l)[i] = l[i + 1]
    BY <2>1
  <2>. QED
    BY <2>2 DEF l
<1>5. /\ channels' = [channels EXCEPT ![p] = w]
      /\ scheduler' = set_state(s, t, "Ready")
      /\ woken' = [woken EXCEPT ![p] = woken[p] \cup {t}]
      /\ UNCHANGED <<rip, passed, stopped>>
  BY DEF SendWake, List
<1>6. w \in Channel
  BY <1>3, <1>4 DEF Channel
<1>7. QueuesOK /\ WokenOK /\ NoLostWakeup /\ PassedOK
  BY DEF IInv
<1>8. InState(s, t, "Blocked")
  BY <1>4, <1>7 DEF QueuesOK
<1>9. t \in Tids
  BY <1>1, <1>8, InStateTid
<1>. HIDE DEF t
<1>10. /\ scheduler' \in Scheduler /\ ThreadIds(scheduler')
       /\ scheduler'.next_thread_id = s.next_thread_id
       /\ Len(scheduler'.threads) = Len(s.threads)
       /\ \A i \in 1 .. Len(s.threads) : scheduler'.threads[i].id = s.threads[i].id
       /\ \A u, x : InState(scheduler', u, x) <=>
             \/ u # t /\ InState(s, u, x)
             \/ u = t /\ x = "Ready" /\ \E y \in ThreadState : InState(s, t, y)
  <2>1. "Ready" \in ThreadState
    BY DEF ThreadState
  <2>. HIDE DEF s
  <2>. QED
    BY <1>1, <1>5, <2>1, SetStateEffect
<1>11. \A u : InState(scheduler', u, "Blocked") <=> u # t /\ InState(s, u, "Blocked")
  BY <1>10
<1>12. \A u : InState(scheduler', u, "Ready") <=> u = t \/ InState(s, u, "Ready")
  BY <1>8, <1>10 DEF ThreadState
<1>. HIDE DEF s
<1>13. TypeOK'
  <2>1. channels' \in [Ports -> Channel] /\ woken' \in [Ports -> SUBSET Tids]
    BY <1>1, <1>5, <1>6, <1>9 DEF TypeOK
  <2>2. scheduler'.next_thread_id <= MaxThreads + 1
    BY <1>1, <1>10 DEF TypeOK, s
  <2>. QED
    BY <1>1, <1>5, <1>10, <2>1, <2>2 DEF TypeOK
<1>14. ThreadsOK'
  BY <1>1, <1>10 DEF ThreadsOK, s
<1>15. /\ \A q \in Ports \ {p} : List(q)' = List(q) /\ channels'[q] = channels[q]
                                 /\ woken'[q] = woken[q]
       /\ List(p)' = Tail(List(p)) /\ channels'[p].messages = channels[p].messages + 1
       /\ woken'[p] = woken[p] \cup {t}
  BY <1>1, <1>5 DEF TypeOK, List
<1>16. QueuesOK'
  <2>. DEFINE k(q) == IF q = p THEN 1 ELSE 0
  <2>1. \A q \in Ports : /\ Len(List(q)') = Len(List(q)) - k(q) /\ Len(List(q)) \in Nat
                         /\ \A i \in 1 .. Len(List(q)') :
                               List(q)'[i] = List(q)[i + k(q)] /\ i + k(q) \in 1 .. Len(List(q))
    <3>. TAKE q \in Ports
    <3>1. CASE q = p
      BY <3>1, <1>4, <1>15
    <3>2. CASE q # p
      <4>1. List(q)' = List(q) /\ Len(List(q)) \in Nat
        BY <3>2, <1>1, <1>15, ChannelTyped
      <4>. QED
        BY <3>2, <4>1
    <3>. QED
      BY <3>1, <3>2
  <2>2. ASSUME NEW q \in Ports, NEW i \in 1 .. Len(List(q)')
        PROVE  List(q)[i + k(q)] # t
    <3>1. i + k(q) \in 1 .. Len(List(q))
      BY <2>1
    <3>2. ~ (q = p /\ i + k(q) = 1)
      OBVIOUS
    <3>. QED
      BY <3>1, <3>2, <1>4, <1>7 DEF QueuesOK, t
  <2>. HIDE DEF k
  <2>3. \A q \in Ports : \A i \in 1 .. Len(List(q)') : InState(scheduler', List(q)'[i], "Blocked")
    BY <2>1, <2>2, <1>7, <1>11 DEF QueuesOK, s
  <2>4. ASSUME NEW q \in Ports, NEW r \in Ports,
               NEW i \in 1 .. Len(List(q)'), NEW j \in 1 .. Len(List(r)'),
               List(q)'[i] = List(r)'[j]
        PROVE  q = r /\ i = j
    <3>a. /\ i + k(q) \in 1 .. Len(List(q)) /\ j + k(r) \in 1 .. Len(List(r))
          /\ List(q)[i + k(q)] = List(r)[j + k(r)]
      BY <2>1, <2>4
    <3>1. q = r /\ i + k(q) = j + k(r)
      <4>. DEFINE a == i + k(q)
                  b == j + k(r)
      <4>. HIDE DEF a, b
      <4>1. a \in 1 .. Len(List(q)) /\ b \in 1 .. Len(List(r)) /\ List(q)[a] = List(r)[b]
        BY <3>a DEF a, b
      <4>2. q = r /\ a = b
        BY <4>1, <1>7 DEF QueuesOK
      <4>. QED
        BY <4>2 DEF a, b
    <3>2. i \in Int /\ j \in Int /\ k(q) \in Int /\ k(r) = k(q)
      BY <3>1 DEF k
    <3>. QED
      BY <3>1, <3>2
  <2>5. ASSUME NEW u \in Tids, InState(scheduler', u, "Blocked")
        PROVE  \E q \in Ports : \E i \in 1 .. Len(List(q)') : List(q)'[i] = u
    <3>1. u # t /\ InState(s, u, "Blocked")
      BY <2>5, <1>11
    <3>2. PICK q \in Ports : \E i \in 1 .. Len(List(q)) : List(q)[i] = u
      BY <3>1, <1>7 DEF QueuesOK, s
    <3>a. PICK i \in 1 .. Len(List(q)) : List(q)[i] = u
      BY <3>2
    <3>3. ~ (q = p /\ i = 1)
      BY <3>1, <3>a, <1>4
    <3>4. i - k(q) \in 1 .. Len(List(q)') /\ (i - k(q)) + k(q) = i
      BY <3>3, <2>1 DEF k
    <3>. QED
      BY <3>a, <3>4, <2>1
  <2>. QED
    BY <2>3, <2>4, <2>5 DEF QueuesOK
<1>17. WokenOK'
  BY <1>7, <1>12, <1>15 DEF WokenOK, s
<1>18. NoLostWakeup'
  <2>. SUFFICES ASSUME NEW q \in Ports, List(q)' # <<>>
                PROVE  channels'[q].messages <= Cardinality(woken'[q])
    BY DEF NoLostWakeup, List
  <2>1. CASE q # p
    BY <2>1, <1>7, <1>15 DEF NoLostWakeup, List
  <2>2. CASE q = p
    <3>1. channels[p].messages <= Cardinality(woken[p])
      BY <1>3, <1>7 DEF NoLostWakeup, List
    <3>2. t \notin woken[p]
      BY <1>1, <1>7, <1>8, OneState DEF WokenOK, s
    <3>3. Cardinality(woken[p]) \in Nat /\ Cardinality(woken[p] \cup {t}) = Cardinality(woken[p]) + 1
      BY <1>1, <3>2, WokenFinite, FS_AddElement
    <3>. QED
      BY <2>2, <3>1, <3>3, <1>2, <1>15
  <2>. QED
    BY <2>1, <2>2
<1>19. PassedOK'
  BY <1>5, <1>7, <1>10, <1>11 DEF PassedOK, s
<1>. QED
  BY <1>13, <1>14, <1>16, <1>17, <1>18, <1>19 DEF IInv

LEMMA RecvBlockInv ==
    ASSUME IInv, NEW p \in Ports, MayRecv(p), RecvBlock(p)
    PROVE  IInv'
<1>. DEFINE s == scheduler
            t == scheduler.active_thread
            l == Append(List(p), t)
            w == [messages |-> channels[p].messages, blocked_threads |-> l]
<1>1. TypeOK /\ ThreadsOK /\ s \in Scheduler /\ ThreadIds(s)
  BY DomainOfThreads DEF IInv, ThreadsOK
<1>2. /\ channels[p] \in Channel /\ channels[p].messages = 0
      /\ List(p) \in Seq(Tids) /\ Len(List(p)) \in Nat
  BY <1>1, ChannelTyped DEF RecvBlock
<1>3. t \in Tids /\ InState(s, t, "Ready")
  BY <1>1, Caller
<1>. HIDE DEF t
<1>4. /\ l \in Seq(Tids) /\ Len(l) = Len(List(p)) + 1 /\ l[Len(List(p)) + 1] = t
      /\ \A i \in 1 .. Len(List(p)) : l[i] = List(p)[i]
  <2>. HIDE DEF List
  <2>. QED
    BY <1>2, <1>3
<1>5. /\ channels' = [channels EXCEPT ![p] = w]
      /\ scheduler' = set_state(s, t, "Blocked")
      /\ woken' = [woken EXCEPT ![p] = woken[p] \ {t}]
      /\ passed' = [passed EXCEPT ![t] = 0]
      /\ UNCHANGED <<rip, stopped>>
  <2>1. channels' = [channels EXCEPT ![p] = [channels[p] EXCEPT !.blocked_threads = l]]
    BY DEF RecvBlock, List, t
  <2>2. channels' = [channels EXCEPT ![p] = w]
    BY <2>1, <1>2, ChannelBlocked, Zenon
  <2>. QED
    BY <2>2 DEF RecvBlock, block, t
<1>6. w \in Channel
  BY <1>2, <1>4, IpcAssumption DEF Channel
<1>. HIDE DEF l
<1>7. QueuesOK /\ WokenOK /\ NoLostWakeup /\ PassedOK
  BY DEF IInv
<1>8. ~ InState(s, t, "Blocked")
  BY <1>1, <1>3, OneState
<1>9. /\ scheduler' \in Scheduler /\ ThreadIds(scheduler')
      /\ scheduler'.next_thread_id = s.next_thread_id
      /\ Len(scheduler'.threads) = Len(s.threads)
      /\ \A i \in 1 .. Len(s.threads) : scheduler'.threads[i].id = s.threads[i].id
      /\ \A u, x : InState(scheduler', u, x) <=>
            \/ u # t /\ InState(s, u, x)
            \/ u = t /\ x = "Blocked" /\ \E y \in ThreadState : InState(s, t, y)
  <2>1. "Blocked" \in ThreadState
    BY DEF ThreadState
  <2>. HIDE DEF s
  <2>. QED
    BY <1>1, <1>5, <2>1, SetStateEffect
<1>10. \A u : InState(scheduler', u, "Blocked") <=> u = t \/ InState(s, u, "Blocked")
  BY <1>3, <1>9 DEF ThreadState
<1>11. \A u : InState(scheduler', u, "Ready") <=> u # t /\ InState(s, u, "Ready")
  BY <1>9
<1>. HIDE DEF s
<1>12. TypeOK'
  <2>1. channels' \in [Ports -> Channel] /\ woken' \in [Ports -> SUBSET Tids]
    BY <1>1, <1>5, <1>6 DEF TypeOK
  <2>2. scheduler'.next_thread_id <= MaxThreads + 1
    BY <1>1, <1>9 DEF TypeOK, s
  <2>3. passed' \in [Tids -> Nat]
    BY <1>1, <1>5 DEF TypeOK
  <2>. QED
    BY <1>1, <1>5, <1>9, <2>1, <2>2, <2>3 DEF TypeOK
<1>13. ThreadsOK'
  BY <1>1, <1>9 DEF ThreadsOK, s
<1>14. /\ \A q \in Ports \ {p} : List(q)' = List(q) /\ channels'[q] = channels[q]
                                 /\ woken'[q] = woken[q]
       /\ List(p)' = l /\ channels'[p].messages = 0
       /\ woken'[p] = woken[p] \ {t}
  BY <1>1, <1>2, <1>5 DEF TypeOK, List
<1>15. QueuesOK'
  <2>. DEFINE new(q, i) == q = p /\ i = Len(List(p)) + 1
  <2>1. \A q \in Ports : \A i \in 1 .. Len(List(q)') :
           \/ new(q, i) /\ List(q)'[i] = t
           \/ ~ new(q, i) /\ i \in 1 .. Len(List(q)) /\ List(q)'[i] = List(q)[i]
    <3>. TAKE q \in Ports
    <3>. TAKE i \in 1 .. Len(List(q)')
    <3>1. CASE q = p
      <4>1. i \in 1 .. Len(List(p)) + 1
        BY <3>1, <1>4, <1>14
      <4>2. CASE i = Len(List(p)) + 1
        BY <3>1, <4>2, <1>4, <1>14
      <4>3. CASE i \in 1 .. Len(List(p))
        <5>1. i # Len(List(p)) + 1
          BY <4>3, <1>2
        <5>. QED
          BY <3>1, <4>3, <5>1, <1>4, <1>14
      <4>. QED
        BY <4>1, <4>2, <4>3, <1>2
    <3>2. CASE q # p
      BY <3>2, <1>14
    <3>. QED
      BY <3>1, <3>2
  <2>2. \A q \in Ports : \A i \in 1 .. Len(List(q)) :
           i \in 1 .. Len(List(q)') /\ List(q)'[i] = List(q)[i]
    <3>. TAKE q \in Ports
    <3>1. CASE q = p
      BY <3>1, <1>2, <1>4, <1>14
    <3>2. CASE q # p
      BY <3>2, <1>14
    <3>. QED
      BY <3>1, <3>2
  <2>3. Len(List(p)) + 1 \in 1 .. Len(List(p)') /\ List(p)'[Len(List(p)) + 1] = t
    BY <1>2, <1>4, <1>14
  <2>4. \A q \in Ports : \A i \in 1 .. Len(List(q)) : List(q)[i] # t
    BY <1>7, <1>8 DEF QueuesOK, s
  <2>5. \A q \in Ports : \A i \in 1 .. Len(List(q)') : InState(scheduler', List(q)'[i], "Blocked")
    BY <2>1, <1>7, <1>10 DEF QueuesOK, s
  <2>6. ASSUME NEW q \in Ports, NEW r \in Ports,
               NEW i \in 1 .. Len(List(q)'), NEW j \in 1 .. Len(List(r)'),
               List(q)'[i] = List(r)'[j]
        PROVE  q = r /\ i = j
    BY <2>1, <2>4, <2>6, <1>7 DEF QueuesOK
  <2>7. ASSUME NEW u \in Tids, InState(scheduler', u, "Blocked")
        PROVE  \E q \in Ports : \E i \in 1 .. Len(List(q)') : List(q)'[i] = u
    <3>1. CASE u = t
      BY <3>1, <2>3
    <3>2. CASE u # t
      BY <3>2, <2>2, <2>7, <1>7, <1>10 DEF QueuesOK, s
    <3>. QED
      BY <3>1, <3>2
  <2>. QED
    BY <2>5, <2>6, <2>7 DEF QueuesOK
<1>16. WokenOK'
  <2>1. \A q \in Ports \ {p} : t \notin woken[q]
    BY DEF MayRecv, t
  <2>. QED
    BY <2>1, <1>7, <1>11, <1>14 DEF WokenOK, s
<1>17. NoLostWakeup'
  <2>. SUFFICES ASSUME NEW q \in Ports, List(q)' # <<>>
                PROVE  channels'[q].messages <= Cardinality(woken'[q])
    BY DEF NoLostWakeup, List
  <2>1. CASE q # p
    BY <2>1, <1>7, <1>14 DEF NoLostWakeup, List
  <2>2. CASE q = p
    <3>1. IsFiniteSet(woken[p] \ {t})
      BY <1>1, WokenFinite, FS_RemoveElement
    <3>2. Cardinality(woken[p] \ {t}) \in Nat
      BY <3>1, FS_CardinalityType
    <3>. QED
      BY <2>2, <3>2, <1>14
  <2>. QED
    BY <2>1, <2>2
<1>18. PassedOK'
  <2>1. \A u \in Tids : passed'[u] = (IF u = t THEN 0 ELSE passed[u]) /\ passed[u] \in Nat
    BY <1>1, <1>5 DEF TypeOK
  <2>2. \A i \in 1 .. Len(s.threads) : s.threads[i].id \in Tids
    <3>. TAKE i \in 1 .. Len(s.threads)
    <3>1. InState(s, s.threads[i].id, s.threads[i].state)
      BY DEF InState
    <3>. QED
      BY <3>1, <1>1, InStateTid DEF s
  <2>3. \A i \in 1 .. Len(s.threads) : passed[s.threads[i].id] + i <= Len(s.threads)
    BY <1>7 DEF PassedOK, s
  <2>4. \A i \in 1 .. Len(s.threads) : passed'[s.threads[i].id] + i <= Len(s.threads)
    <3>. TAKE i \in 1 .. Len(s.threads)
    <3>. DEFINE u == s.threads[i].id
    <3>1. u \in Tids /\ passed[u] + i <= Len(s.threads) /\ Len(s.threads) \in Nat
      BY <2>2, <2>3, <1>1, SchedulerTyped
    <3>. HIDE DEF u
    <3>2. passed'[u] \in Nat /\ passed[u] \in Nat /\ passed'[u] <= passed[u]
      BY <2>1, <3>1
    <3>3. passed'[u] + i <= Len(s.threads)
      BY <3>1, <3>2
    <3>. QED
      BY <3>3 DEF u
  <2>5. \A u \in Tids : InState(scheduler', u, "Blocked") => passed'[u] = 0
    BY <2>1, <1>7, <1>10 DEF PassedOK, s
  <2>6. \A u \in Tids : u >= s.next_thread_id => passed'[u] = 0
    BY <2>1, <1>7 DEF PassedOK, s
  <2>7. \A i \in 1 .. Len(scheduler'.threads) :
           passed'[scheduler'.threads[i].id] + i <= Len(scheduler'.threads)
    <3>1. Len(scheduler'.threads) = Len(s.threads)
      BY <1>9
    <3>. SUFFICES ASSUME NEW i \in 1 .. Len(s.threads)
                  PROVE  passed'[scheduler'.threads[i].id] + i <= Len(s.threads)
      BY <3>1
    <3>2. scheduler'.threads[i].id = s.threads[i].id
      BY <1>9
    <3>. QED
      BY <2>4, <3>2
  <2>8. \A u \in Tids : u >= scheduler'.next_thread_id => passed'[u] = 0
    BY <2>6, <1>9
  <2>. QED
    BY <2>5, <2>7, <2>8 DEF PassedOK
<1>. QED
  BY <1>12, <1>13, <1>15, <1>16, <1>17, <1>18 DEF IInv

LEMMA TickInv ==
    ASSUME IInv, Tick
    PROVE  IInv'
<1>. DEFINE s == scheduler
            q == s.threads
            n == Len(q)
<1>1. TypeOK /\ ThreadsOK /\ s \in Scheduler /\ ThreadIds(s) /\ n \in Nat
  BY DomainOfThreads DEF IInv, ThreadsOK
<1>2. /\ scheduler' = schedule_next(s)
      /\ UNCHANGED <<channels, woken>>
  BY DEF Tick
<1>3. /\ scheduler' \in Scheduler /\ ThreadIds(scheduler')
      /\ scheduler'.next_thread_id = s.next_thread_id
      /\ Len(scheduler'.threads) = n
      /\ \A t, x : InState(scheduler', t, x) <=> InState(s, t, x)
  BY <1>1, <1>2, ScheduleTyped, ScheduleEffect
<1>4. QueuesOK /\ WokenOK /\ NoLostWakeup /\ PassedOK
  BY DEF IInv
<1>5. \A p : List(p)' = List(p)
  BY <1>2 DEF List
<1>6. s.active_thread = 0 \/ s.active_thread \in Tids
  <2>. SUFFICES ASSUME s.active_thread # 0
                PROVE  s.active_thread \in Tids
    OBVIOUS
  <2>1. PICK i \in 1 .. n : q[i].id = s.active_thread
    BY <1>1 DEF ThreadIds
  <2>2. InState(s, s.active_thread, q[i].state)
    BY <2>1 DEF InState
  <2>. QED
    BY <1>1, <2>2, InStateTid
<1>7. TypeOK'
  <2>1. rip' \in 0 .. MaxRip
    BY <1>1, IpcAssumption DEF Tick, TypeOK
  <2>2. stopped' \in [Tids -> 0 .. MaxRip]
    BY <1>1, <1>6 DEF Tick, TypeOK
  <2>3. passed' \in [Tids -> Nat]
    BY <1>1 DEF Tick, TypeOK
  <2>4. scheduler'.next_thread_id <= MaxThreads + 1
    BY <1>1, <1>3 DEF TypeOK
  <2>. QED
    BY <1>1, <1>2, <1>3, <2>1, <2>2, <2>3, <2>4 DEF TypeOK
<1>8. \A t \in Tids : /\ passed[t] \in Nat
                      /\ passed'[t] = 0 \/ passed'[t] = passed[t] + 1
                      /\ ~ InState(s, t, "Ready") => passed'[t] = 0
                      /\ t = scheduler'.active_thread => passed'[t] = 0
  <2>. TAKE t \in Tids
  <2>1. passed'[t] = IF t \in Spawned /\ StateOf(t) = "Ready" /\ t # scheduler'.active_thread
                     THEN passed[t] + 1 ELSE 0
    BY DEF Tick
  <2>2. ASSUME t \in Spawned, StateOf(t) = "Ready" PROVE InState(s, t, "Ready")
    BY <2>2, <1>1, SpawnedInState, StateOfInState
  <2>3. passed[t] \in Nat
    BY <1>1 DEF TypeOK
  <2>. QED
    BY <2>1, <2>2, <2>3
<1>9. ThreadsOK'
  BY <1>1, <1>3 DEF ThreadsOK
<1>10. QueuesOK'
  <2>. HIDE DEF s
  <2>. QED
    BY <1>3, <1>4, <1>5 DEF QueuesOK, s
<1>11. WokenOK'
  BY <1>2, <1>3, <1>4 DEF WokenOK
<1>12. NoLostWakeup'
  BY <1>2, <1>4 DEF NoLostWakeup
<1>13. PassedOK'
  <2>1. \A i \in 1 .. n : InState(s, q[i].id, q[i].state) /\ q[i].id \in Tids
    <3>. TAKE i \in 1 .. n
    <3>1. InState(s, q[i].id, q[i].state)
      BY DEF InState
    <3>. QED
      BY <1>1, <3>1, InStateTid
  <2>2. \A i \in 1 .. n : q[i].state # "Ready" => passed'[q[i].id] = 0
    <3>. SUFFICES ASSUME NEW i \in 1 .. n, q[i].state # "Ready"
                  PROVE  passed'[q[i].id] = 0
      OBVIOUS
    <3>1. ~ InState(s, q[i].id, "Ready")
      BY <1>1, <2>1, StateOfInState
    <3>. QED
      BY <1>8, <2>1, <3>1
  <2>3. \A i \in 1 .. n : passed[q[i].id] + i <= n
    BY <1>4 DEF PassedOK
  <2>4. \A i \in 1 .. n : passed'[scheduler'.threads[i].id] + i <= n
    <3>1. CASE ReadyAt(s) = {}
      <4>1. scheduler' = s
        BY <1>2, <3>1 DEF schedule_next
      <4>2. \A i \in 1 .. n : passed'[q[i].id] = 0
        BY <3>1, <2>2 DEF ReadyAt
      <4>. QED
        BY <1>1, <4>1, <4>2
    <3>2. CASE ReadyAt(s) # {}
      <4>. DEFINE k == FirstReady(s)
                  r == Rotated(q, k)
      <4>1. k \in 1 .. n /\ \A j \in ReadyAt(s) : k <= j
        BY <1>1, <3>2, FirstReadyIsFirst
      <4>2. scheduler'.threads = r /\ scheduler'.active_thread = q[k].id
        BY <1>2, <3>2 DEF schedule_next
      <4>3. \A i \in 1 .. n : r[i] = IF i <= n - k THEN q[i + k] ELSE q[i - (n - k)]
        BY <1>1, <4>1, SchedulerTyped, RotatedSeq
      <4>. HIDE DEF k, r, n, q
      <4>. SUFFICES ASSUME NEW i \in 1 .. n
                    PROVE  passed'[r[i].id] + i <= n
        BY <4>2
      <4>4. CASE i <= n - k
        <5>. DEFINE j == i + k
                    u == q[j].id
        <5>1. j \in 1 .. n /\ r[i] = q[j]
          BY <1>1, <4>1, <4>3, <4>4
        <5>. HIDE DEF j
        <5>2. u \in Tids /\ passed[u] + j <= n
          BY <5>1, <2>1, <2>3
        <5>. HIDE DEF u
        <5>3. passed[u] \in Nat /\ (passed'[u] = 0 \/ passed'[u] = passed[u] + 1)
          BY <5>2, <1>8
        <5>4. passed'[u] + i <= n
          BY <5>2, <5>3, <1>1, <4>1 DEF j
        <5>. QED
          BY <5>1, <5>4 DEF u
      <4>5. CASE ~ (i <= n - k)
        <5>. DEFINE j == i - (n - k)
        <5>1. j \in 1 .. k /\ j \in 1 .. n /\ r[i] = q[j]
          BY <1>1, <4>1, <4>3, <4>5
        <5>. HIDE DEF j
        <5>2. passed'[q[j].id] = 0
          <6>1. CASE j = k
            BY <6>1, <5>1, <2>1, <4>2, <1>8
          <6>2. CASE j # k
            <7>1. j \notin ReadyAt(s)
              BY <6>2, <5>1, <4>1
            <7>2. q[j].state # "Ready"
              BY <7>1, <5>1 DEF ReadyAt, q, n
            <7>. QED
              BY <7>2, <5>1, <2>2
          <6>. QED
            BY <6>1, <6>2
        <5>. QED
          BY <5>1, <5>2, <1>1
      <4>. QED
        BY <4>4, <4>5
    <3>. QED
      BY <3>1, <3>2
  <2>5. \A t \in Tids : InState(scheduler', t, "Blocked") => passed'[t] = 0
    BY <1>1, <1>3, <1>8, OneState
  <2>6. \A t \in Tids : t >= scheduler'.next_thread_id => passed'[t] = 0
    <3>. SUFFICES ASSUME NEW t \in Tids, t >= s.next_thread_id
                  PROVE  passed'[t] = 0
      BY <1>3
    <3>1. ~ InState(s, t, "Ready")
      <4>1. t \in Nat /\ s.next_thread_id \in Nat
        BY <1>1, SchedulerTyped DEF Tids
      <4>. QED
        BY <4>1, <1>1, InStateTid
    <3>. QED
      BY <3>1, <1>8
  <2>7. \A i \in 1 .. Len(scheduler'.threads) :
           passed'[scheduler'.threads[i].id] + i <= Len(scheduler'.threads)
    BY <2>4, <1>3
  <2>. QED
    BY <2>5, <2>6, <2>7 DEF PassedOK
<1>. QED
  BY <1>7, <1>9, <1>10, <1>11, <1>12, <1>13 DEF IInv

-----------------------------------------------------------------------------
LEMMA NextInv ==
    ASSUME IInv, [Next]_vars
    PROVE  IInv'
<1>1. CASE Spawn
  BY <1>1, SpawnInv
<1>2. CASE Tick
  BY <1>2, TickInv
<1>3. CASE Run
  BY <1>3, RunInv
<1>4. CASE \E p \in Ports : SendWake(p)
  BY <1>4, SendWakeInv
<1>5. CASE \E p \in Ports : SendQueue(p)
  BY <1>5, SendQueueInv
<1>6. CASE \E p \in Ports : MayRecv(p) /\ RecvMessage(p)
  BY <1>6, RecvMessageInv
<1>7. CASE \E p \in Ports : MayRecv(p) /\ RecvBlock(p)
  BY <1>7, RecvBlockInv
<1>8. CASE UNCHANGED vars
  <2>. USE <1>8 DEF vars
  <2>1. TypeOK'
    BY DEF IInv, TypeOK
  <2>2. NoLostWakeup'
    BY DEF IInv, NoLostWakeup
  <2>. QED
    BY <2>1, <2>2, SameThreads DEF List
<1>9. CASE \E p \in Ports : SendFull(p)
  BY <1>8, <1>9 DEF SendFull
<1>. QED
  BY <1>1, <1>2, <1>3, <1>4, <1>5, <1>6, <1>7, <1>8, <1>9 DEF Next

(* The inductive invariant of threads, ports and ticks.                    *)
THEOREM IpcInvariant == Spec => []IInv
BY InitInv, NextInv, PTL DEF Spec

(* No call ever leaves a port, a thread or the queue out of its type.      *)
THEOREM IpcTyped == Spec => []TypeOK
<1>1. IInv => TypeOK
  BY DEF IInv
<1>. QED
  BY <1>1, IpcInvariant, PTL

(* rust_ipc_send and rust_ipc_recv lose no wakeup while callers wait.      *)
THEOREM WakeupsKept == Spec => []NoLostWakeup
<1>1. IInv => NoLostWakeup
  BY DEF IInv
<1>. QED
  BY <1>1, IpcInvariant, PTL

(* A blocked list holds no thread twice, so it is no longer than MaxThreads. *)
LEMMA ListShort ==
    ASSUME IInv, NEW p \in Ports
    PROVE  Len(List(p)) <= MaxThreads
<1>. DEFINE l == List(p)
            n == Len(l)
<1>1. l \in Seq(Tids) /\ n \in Nat /\ l \in [1 .. n -> Tids]
  BY ChannelTyped DEF IInv
<1>2. \A i, j \in 1 .. n : l[i] = l[j] => i = j
  BY DEF IInv, QueuesOK
<1>. HIDE DEF l, n
<1>3. l \in Injection(1 .. n, Tids)
  BY <1>1, <1>2 DEF Injection, IsInjective
<1>4. /\ IsFiniteSet(Tids) /\ Cardinality(Tids) = MaxThreads
      /\ Cardinality(1 .. n) = n
  BY <1>1, IpcAssumption, FS_Interval DEF Tids
<1>5. Cardinality(1 .. n) <= Cardinality(Tids)
  BY <1>3, <1>4, FS_Injection
<1>. QED
  BY <1>4, <1>5 DEF n, l

LEMMA QueuedOnce ==
    ASSUME IInv
    PROVE  BlockedIsQueued
<1>. SUFFICES ASSUME NEW t \in Spawned
              PROVE  Cardinality(BlockedAt(t)) = IF StateOf(t) = "Blocked" THEN 1 ELSE 0
  BY DEF BlockedIsQueued
<1>1. TypeOK /\ ThreadsOK /\ QueuesOK /\ MaxThreads \in Nat
  BY IpcAssumption DEF IInv
<1>2. \A x : x \in BlockedAt(t) <=>
         \E p \in Ports, i \in 1 .. MaxThreads :
             x = <<p, i>> /\ i \in 1 .. Len(List(p)) /\ List(p)[i] = t
  <2>1. \A p \in Ports : DOMAIN List(p) = 1 .. Len(List(p))
    BY <1>1, ChannelTyped
  <2>. QED
    BY <2>1 DEF BlockedAt, List
<1>3. CASE InState(scheduler, t, "Blocked")
  <2>1. t \in Tids
    BY <1>1, <1>3, InStateTid
  <2>2. PICK p \in Ports : \E i \in 1 .. Len(List(p)) : List(p)[i] = t
    BY <1>1, <1>3, <2>1 DEF QueuesOK
  <2>3. PICK i \in 1 .. Len(List(p)) : List(p)[i] = t
    BY <2>2
  <2>4. i \in 1 .. MaxThreads
    BY <1>1, ListShort, ChannelTyped
  <2>5. \A q \in Ports : \A j \in 1 .. Len(List(q)) : List(q)[j] = t => q = p /\ j = i
    BY <1>1, <2>3 DEF QueuesOK
  <2>6. BlockedAt(t) = {<<p, i>>}
    <3>1. <<p, i>> \in BlockedAt(t)
      BY <1>2, <2>3, <2>4
    <3>2. \A x \in BlockedAt(t) : x = <<p, i>>
      BY <1>2, <2>5
    <3>. QED
      BY <3>1, <3>2
  <2>7. Cardinality(BlockedAt(t)) = 1
    BY <2>6, FS_Singleton
  <2>. QED
    BY <1>1, <1>3, <2>7, StateOfInState
<1>4. CASE ~ InState(scheduler, t, "Blocked")
  <2>1. StateOf(t) = "Ready"
    BY <1>1, <1>4, SpawnedInState, StateOfInState
  <2>2. BlockedAt(t) = {}
    BY <1>1, <1>2, <1>4 DEF QueuesOK
  <2>. QED
    BY <2>1, <2>2, FS_EmptySet
<1>. QED
  BY <1>3, <1>4

(* A Blocked thread waits at exactly one port, a Ready one at none, for    *)
(* callers of rust_ipc_recv that wait until they are Ready.                *)
THEOREM BlockedThreadsQueued == Spec => []BlockedIsQueued
BY IpcInvariant, QueuedOnce, PTL

LEMMA PassedFewer ==
    ASSUME IInv
    PROVE  BoundedWait
<1>. SUFFICES ASSUME NEW t \in Spawned
              PROVE  passed[t] < Len(scheduler.threads)
  BY DEF BoundedWait
<1>1. TypeOK /\ ThreadsOK /\ PassedOK
  BY DEF IInv
<1>2. PICK i \in 1 .. Len(scheduler.threads) : scheduler.threads[i].id = t
  BY <1>1, DomainOfThreads DEF Spawned
<1>3. t \in Tids
  BY <1>1, SpawnedInState, InStateTid
<1>4. passed[t] \in Nat /\ passed[t] + i <= Len(scheduler.threads)
  BY <1>1, <1>2, <1>3 DEF PassedOK, TypeOK
<1>. QED
  BY <1>4, <1>1, DomainOfThreads

(* schedule_next is fair: with n threads, a Ready one is passed over fewer *)
(* than n ticks in a row.                                                  *)
THEOREM RoundRobin == Spec => []BoundedWait
BY IpcInvariant, PassedFewer, PTL

LEMMA SendWakes ==
    ASSUME IInv, [Next]_vars, NEW p \in Ports,
           channels'[p].messages > channels[p].messages,
           List(p) # <<>>
    PROVE  \E t \in Spawned : StateOf(t) = "Blocked" /\ StateOf(t)' = "Ready"
<1>1. TypeOK /\ ThreadsOK /\ QueuesOK /\ TypeOK' /\ ThreadsOK'
  BY NextInv DEF IInv
<1>2. \A r \in Ports : channels[r].messages \in Nat /\ channels[r] \in Channel
  BY <1>1, ChannelTyped
<1>3. SendWake(p)
  <2>1. channels' # channels
    BY <1>2
  <2>2. ASSUME NEW r \in Ports, SendQueue(r) PROVE FALSE
    <3>1. List(r) = <<>>
      BY <2>2 DEF SendQueue, wakes, List
    <3>2. r # p
      BY <3>1
    <3>3. channels'[p] = channels[p]
      BY <1>1, <2>2, <3>2 DEF SendQueue, TypeOK
    <3>. QED
      BY <1>2, <3>3
  <2>3. ASSUME NEW r \in Ports, RecvMessage(r) \/ RecvBlock(r) PROVE FALSE
    <3>1. r = p
      <4>. SUFFICES ASSUME r # p PROVE FALSE
        OBVIOUS
      <4>1. channels'[p] = channels[p]
        BY <1>1, <2>3 DEF RecvMessage, RecvBlock, TypeOK
      <4>. QED
        BY <1>2, <4>1
    <3>2. CASE RecvMessage(p)
      <4>1. channels'[p].messages = channels[p].messages - 1
        BY <1>1, <1>2, <3>2 DEF RecvMessage, TypeOK, Channel
      <4>. QED
        BY <1>2, <4>1
    <3>3. CASE RecvBlock(p)
      <4>1. channels'[p].messages = channels[p].messages
        BY <1>1, <1>2, <3>3 DEF RecvBlock, TypeOK, Channel
      <4>. QED
        BY <1>2, <4>1
    <3>. QED
      BY <2>3, <3>1, <3>2, <3>3
  <2>4. ASSUME NEW r \in Ports, SendWake(r) PROVE r = p
    <3>. SUFFICES ASSUME r # p PROVE FALSE
      OBVIOUS
    <3>1. channels'[p] = channels[p]
      BY <1>1, <2>4 DEF SendWake, TypeOK
    <3>. QED
      BY <1>2, <3>1
  <2>5. ~ Spawn /\ ~ Tick /\ ~ Run /\ ~ UNCHANGED vars /\ \A r \in Ports : ~ SendFull(r)
    BY <2>1 DEF Spawn, Tick, Run, SendFull, vars
  <2>. QED
    BY <2>2, <2>3, <2>4, <2>5 DEF Next
<1>4. List(p) \in Seq(Tids)
  BY <1>1, ChannelTyped
<1>5. Head(List(p)) = List(p)[1] /\ 1 \in 1 .. Len(List(p))
  <2>. DEFINE l == List(p)
  <2>1. l \in Seq(Tids) /\ l # <<>>
    BY <1>4
  <2>. HIDE DEF l
  <2>2. Head(l) = l[1] /\ 1 \in 1 .. Len(l)
    BY <2>1
  <2>. QED
    BY <2>2 DEF l
<1>. PICK t : t = Head(List(p))
  OBVIOUS
<1>6. InState(scheduler, t, "Blocked")
  BY <1>1, <1>5 DEF QueuesOK
<1>7. scheduler' = set_state(scheduler, t, "Ready")
  BY <1>3 DEF SendWake, List
<1>8. InState(scheduler', t, "Ready")
  <2>1. "Ready" \in ThreadState /\ "Blocked" \in ThreadState
    BY DEF ThreadState
  <2>2. scheduler \in Scheduler /\ ThreadIds(scheduler)
    BY <1>1, DomainOfThreads DEF ThreadsOK
  <2>. QED
    BY <1>6, <1>7, <2>1, <2>2, SetStateEffect
<1>9. StateOf(t)' = "Ready"
  <2>1. scheduler' \in Scheduler /\ ThreadIds(scheduler')
    BY <1>1 DEF TypeOK, ThreadsOK
  <2>. QED
    BY <1>8, <2>1, StateUnderId DEF StateOf
<1>. QED
  BY <1>1, <1>6, <1>9, StateOfInState

(* For callers that wait, the comment of ipc.rs holds: a message to a port *)
(* where somebody is blocked makes a Blocked thread Ready.  It is what     *)
(* callers that ask again at once break.                                   *)
THEOREM WaitersAreWoken == Spec => SendWakesReceiver
<1>1. ASSUME IInv, [Next]_vars
      PROVE  [\A p \in Ports :
                (/\ channels'[p].messages > channels[p].messages
                 /\ \E i \in DOMAIN channels[p].blocked_threads :
                       StateOf(channels[p].blocked_threads[i]) = "Blocked")
                => \E t \in Spawned : StateOf(t) = "Blocked" /\ StateOf(t)' = "Ready"]_vars
  <2>. SUFFICES ASSUME NEW p \in Ports, channels'[p].messages > channels[p].messages,
                       \E i \in DOMAIN List(p) : TRUE
                PROVE  \E t \in Spawned : StateOf(t) = "Blocked" /\ StateOf(t)' = "Ready"
    BY DEF List
  <2>1. List(p) # <<>>
    OBVIOUS
  <2>. QED
    BY <1>1, <2>1, SendWakes
<1>. QED
  BY <1>1, IpcInvariant, PTL DEF Spec, SendWakesReceiver

=============================================================================
