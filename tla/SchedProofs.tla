---------------------------- MODULE SchedProofs ----------------------------
(***************************************************************************)
(* What the operators of Sched return: used wherever the scheduler is.     *)
(***************************************************************************)
EXTENDS Sched, Integers, SequenceTheorems, WellFoundedInduction, TLAPS

(* A non-empty set of positions has a first one.                           *)
LEMMA LeastPosition ==
    ASSUME NEW S \in SUBSET Nat, S # {}
    PROVE  \E i \in S : \A j \in S : i <= j
<1>1. PICK i \in S : \A j \in S : <<j, i>> \notin OpToRel(<, Nat)
  BY NatLessThanWellFounded, WFMin
<1>2. \A j \in Nat : j < i => <<j, i>> \in OpToRel(<, Nat)
  BY Zenon DEF OpToRel
<1>3. \A j \in S : ~ (j < i)
  BY <1>1, <1>2, Zenon
<1>. QED
  BY <1>3

(* schedule_next picks a Ready thread and nobody before it is Ready.       *)
LEMMA FirstReadyIsFirst ==
    ASSUME NEW s \in Scheduler, ReadyAt(s) # {}
    PROVE  /\ FirstReady(s) \in ReadyAt(s)
           /\ FirstReady(s) \in 1 .. Len(s.threads)
           /\ \A j \in ReadyAt(s) : FirstReady(s) <= j
<1>1. ReadyAt(s) \in SUBSET Nat
  BY DEF ReadyAt
<1>2. \E i \in ReadyAt(s) : \A j \in ReadyAt(s) : i <= j
  BY <1>1, LeastPosition
<1>3. FirstReady(s) \in ReadyAt(s) /\ \A j \in ReadyAt(s) : FirstReady(s) <= j
  BY <1>2 DEF FirstReady
<1>. QED
  BY <1>3 DEF ReadyAt

(* Rotation keeps the threads.                                             *)
LEMMA RotatedSeq ==
    ASSUME NEW S, NEW q \in Seq(S), NEW k \in 1 .. Len(q)
    PROVE  /\ Rotated(q, k) \in Seq(S)
           /\ Len(Rotated(q, k)) = Len(q)
           /\ \A i \in 1 .. Len(q) :
                 Rotated(q, k)[i] = IF i <= Len(q) - k THEN q[i + k]
                                                       ELSE q[i - (Len(q) - k)]
<1>1. /\ SubSeq(q, k + 1, Len(q)) \in Seq(S)
      /\ Len(SubSeq(q, k + 1, Len(q))) = Len(q) - k
      /\ \A i \in 1 .. Len(q) - k : SubSeq(q, k + 1, Len(q))[i] = q[i + k]
  OBVIOUS
<1>2. /\ SubSeq(q, 1, k) \in Seq(S)
      /\ Len(SubSeq(q, 1, k)) = k
      /\ \A i \in 1 .. k : SubSeq(q, 1, k)[i] = q[i]
  OBVIOUS
<1>. DEFINE a == SubSeq(q, k + 1, Len(q))
             b == SubSeq(q, 1, k)
<1>3. Rotated(q, k) = a \o b
  BY DEF Rotated
<1>4. a \in Seq(S) /\ b \in Seq(S) /\ Len(a) = Len(q) - k /\ Len(b) = k
  BY <1>1, <1>2
<1>5. \A i \in 1 .. Len(q) - k : a[i] = q[i + k]
  BY <1>1
<1>6. \A i \in 1 .. k : b[i] = q[i]
  BY <1>2
<1>. HIDE DEF a, b
<1>7. /\ a \o b \in Seq(S) /\ Len(a \o b) = Len(a) + Len(b)
      /\ \A i \in 1 .. Len(a) + Len(b) :
            (a \o b)[i] = IF i <= Len(a) THEN a[i] ELSE b[i - Len(a)]
  BY <1>4, ConcatProperties, Zenon
<1>8. /\ a \o b \in Seq(S) /\ Len(a \o b) = Len(q)
      /\ \A i \in 1 .. Len(q) : (a \o b)[i] =
            IF i <= Len(q) - k THEN a[i] ELSE b[i - (Len(q) - k)]
  <2>1. Len(q) \in Nat /\ k \in Nat /\ Len(a) + Len(b) = Len(q)
    BY <1>4
  <2>. QED
    BY <1>4, <1>7, <2>1
<1>9. ASSUME NEW i \in 1 .. Len(q)
      PROVE  (a \o b)[i] = IF i <= Len(q) - k THEN q[i + k] ELSE q[i - (Len(q) - k)]
  <2>1. CASE i <= Len(q) - k
    <3>1. i \in 1 .. Len(q) - k
      BY <2>1
    <3>. QED
      BY <1>8, <1>5, <2>1, <3>1
  <2>2. CASE ~ (i <= Len(q) - k)
    <3>1. i - (Len(q) - k) \in 1 .. k
      BY <2>2
    <3>. QED
      BY <1>8, <1>6, <2>2, <3>1
  <2>. QED
    BY <2>1, <2>2
<1>. QED
  BY <1>3, <1>8, <1>9, Zenon

LEMMA SpawnTyped ==
    ASSUME NEW s \in Scheduler, NEW session \in Nat
    PROVE  spawn(s, session) \in Scheduler
<1>. DEFINE th == [id |-> s.next_thread_id, session_id |-> session, state |-> "Ready"]
<1>1. th \in Thread
  BY DEF Scheduler, Thread, ThreadState
<1>. HIDE DEF th
<1>2. Append(s.threads, th) \in Seq(Thread)
  BY <1>1 DEF Scheduler
<1>3. spawn(s, session) = [threads |-> Append(s.threads, th),
                           next_thread_id |-> s.next_thread_id + 1,
                           active_thread |-> s.active_thread]
  BY DEF spawn, th
<1>. QED
  BY <1>2, <1>3 DEF Scheduler

LEMMA ScheduleTyped ==
    ASSUME NEW s \in Scheduler
    PROVE  schedule_next(s) \in Scheduler
<1>1. CASE ReadyAt(s) = {}
  BY <1>1 DEF schedule_next
<1>2. CASE ReadyAt(s) # {}
  <2>1. FirstReady(s) \in 1 .. Len(s.threads)
    BY <1>2, FirstReadyIsFirst
  <2>2. s.threads \in Seq(Thread)
    BY DEF Scheduler
  <2>3. Rotated(s.threads, FirstReady(s)) \in Seq(Thread)
    BY <2>1, <2>2, RotatedSeq
  <2>4. s.threads[FirstReady(s)].id \in Nat
    <3>1. s.threads[FirstReady(s)] \in Thread
      BY <2>1, <2>2
    <3>. QED
      BY <3>1 DEF Thread
  <2>. QED
    BY <1>2, <2>3, <2>4 DEF schedule_next, Scheduler
<1>. QED
  BY <1>1, <1>2

-----------------------------------------------------------------------------
(* Thread t is in the queue in state x.                                    *)
InState(s, t, x) ==
    \E i \in 1 .. Len(s.threads) : s.threads[i].id = t /\ s.threads[i].state = x

(* Every thread of the queue has an id of its own that was given out, and  *)
(* the thread on the CPU is one of them.                                   *)
ThreadIds(s) ==
    /\ \A i \in 1 .. Len(s.threads) : s.threads[i].id \in 1 .. s.next_thread_id - 1
    /\ \A i, j \in 1 .. Len(s.threads) : s.threads[i].id = s.threads[j].id => i = j
    /\ \/ s.active_thread = 0
       \/ \E i \in 1 .. Len(s.threads) : s.threads[i].id = s.active_thread

LEMMA ThreadTyped ==
    ASSUME NEW s \in Scheduler, NEW i \in 1 .. Len(s.threads)
    PROVE  /\ s.threads[i] \in Thread
           /\ s.threads[i].id \in Nat
           /\ s.threads[i].state \in ThreadState
<1>1. s.threads \in Seq(Thread)
  BY DEF Scheduler
<1>2. s.threads[i] \in Thread
  BY <1>1
<1>. QED
  BY <1>2 DEF Thread

LEMMA SchedulerTyped ==
    ASSUME NEW s \in Scheduler
    PROVE  /\ s.threads \in Seq(Thread) /\ Len(s.threads) \in Nat
           /\ s.next_thread_id \in Nat /\ s.active_thread \in Nat
BY DEF Scheduler

(* An id names one thread, so the state found under it is the thread's.    *)
LEMMA StateUnderId ==
    ASSUME NEW s \in Scheduler, ThreadIds(s), NEW t, NEW x, InState(s, t, x)
    PROVE  s.threads[CHOOSE i \in DOMAIN s.threads : s.threads[i].id = t].state = x
<1>. DEFINE q == s.threads
            n == Len(q)
            c == CHOOSE j \in DOMAIN q : q[j].id = t
<1>1. PICK i \in 1 .. n : q[i].id = t /\ q[i].state = x
  BY DEF InState
<1>2. DOMAIN q = 1 .. n
  BY SchedulerTyped
<1>3. \A j \in 1 .. n : q[j].id = t => j = i
  BY <1>1 DEF ThreadIds
<1>4. c = i
  BY <1>1, <1>2, <1>3
<1>. QED
  BY <1>1, <1>4

(* Scheduler::spawn adds one Ready thread, at the back.                    *)
LEMMA SpawnEffect ==
    ASSUME NEW s \in Scheduler, NEW session \in Nat, ThreadIds(s),
           s.next_thread_id # 0
    PROVE  /\ ThreadIds(spawn(s, session))
           /\ Len(spawn(s, session).threads) = Len(s.threads) + 1
           /\ \A i \in 1 .. Len(s.threads) :
                 spawn(s, session).threads[i] = s.threads[i]
           /\ spawn(s, session).threads[Len(s.threads) + 1].id = s.next_thread_id
           /\ \A t, x : InState(spawn(s, session), t, x) <=>
                 \/ InState(s, t, x)
                 \/ t = s.next_thread_id /\ x = "Ready"
<1>. DEFINE th == [id |-> s.next_thread_id, session_id |-> session, state |-> "Ready"]
            q == s.threads
            r == Append(q, th)
            n == Len(q)
<1>1. q \in Seq(Thread) /\ n \in Nat /\ s.next_thread_id \in Nat
  BY SchedulerTyped
<1>2. th \in Thread /\ th.id = s.next_thread_id /\ th.state = "Ready"
  BY <1>1 DEF Thread, ThreadState
<1>3. /\ spawn(s, session).threads = r
      /\ spawn(s, session).next_thread_id = s.next_thread_id + 1
      /\ spawn(s, session).active_thread = s.active_thread
  BY DEF spawn
<1>. HIDE DEF th
<1>4. Len(r) = n + 1 /\ r[n + 1] = th /\ \A i \in 1 .. n : r[i] = q[i]
  BY <1>1, <1>2
<1>. HIDE DEF q, r, n
<1>5. \A i \in 1 .. n : q[i].id \in 1 .. s.next_thread_id - 1
  BY DEF ThreadIds, q, n
<1>6. \A i, j \in 1 .. n : q[i].id = q[j].id => i = j
  BY DEF ThreadIds, q, n
<1>7. s.active_thread = 0 \/ \E i \in 1 .. n : q[i].id = s.active_thread
  BY DEF ThreadIds, q, n
<1>8. \A i \in 1 .. n + 1 : i \in 1 .. n \/ i = n + 1
  BY <1>1
<1>9. \A i \in 1 .. n + 1 : r[i].id \in 1 .. s.next_thread_id
  <2>. TAKE i \in 1 .. n + 1
  <2>1. CASE i \in 1 .. n
    BY <2>1, <1>1, <1>4, <1>5
  <2>2. CASE i = n + 1
    BY <2>2, <1>1, <1>2, <1>4
  <2>. QED
    BY <2>1, <2>2, <1>8
<1>10. \A i, j \in 1 .. n + 1 : r[i].id = r[j].id => i = j
  <2>. TAKE i, j \in 1 .. n + 1
  <2>1. CASE i \in 1 .. n /\ j \in 1 .. n
    BY <2>1, <1>4, <1>6
  <2>2. CASE i \in 1 .. n /\ j = n + 1
    BY <2>2, <1>1, <1>2, <1>4, <1>5
  <2>3. CASE i = n + 1 /\ j \in 1 .. n
    BY <2>3, <1>1, <1>2, <1>4, <1>5
  <2>. QED
    BY <2>1, <2>2, <2>3, <1>8
<1>11. s.active_thread = 0 \/ \E i \in 1 .. n + 1 : r[i].id = s.active_thread
  BY <1>1, <1>4, <1>7
<1>12. ThreadIds(spawn(s, session))
  BY <1>1, <1>3, <1>4, <1>9, <1>10, <1>11 DEF ThreadIds
<1>13. ASSUME NEW t, NEW x
       PROVE  InState(spawn(s, session), t, x) <=>
                 \/ InState(s, t, x)
                 \/ t = s.next_thread_id /\ x = "Ready"
  <2>1. InState(spawn(s, session), t, x) <=> \E i \in 1 .. n + 1 : r[i].id = t /\ r[i].state = x
    BY <1>3, <1>4 DEF InState
  <2>2. InState(s, t, x) <=> \E i \in 1 .. n : q[i].id = t /\ q[i].state = x
    BY DEF InState, q, n
  <2>3. n + 1 \in 1 .. n + 1 /\ \A i \in 1 .. n : i \in 1 .. n + 1
    BY <1>1
  <2>. QED
    BY <2>1, <2>2, <2>3, <1>2, <1>4, <1>8
<1>. QED
  BY <1>2, <1>3, <1>4, <1>12, <1>13 DEF q, n

(* set_state changes the state of the thread it names, and nothing else.   *)
LEMMA SetStateEffect ==
    ASSUME NEW s \in Scheduler, ThreadIds(s), NEW tid, NEW st \in ThreadState
    PROVE  /\ set_state(s, tid, st) \in Scheduler
           /\ ThreadIds(set_state(s, tid, st))
           /\ set_state(s, tid, st).next_thread_id = s.next_thread_id
           /\ set_state(s, tid, st).active_thread = s.active_thread
           /\ Len(set_state(s, tid, st).threads) = Len(s.threads)
           /\ \A i \in 1 .. Len(s.threads) :
                 set_state(s, tid, st).threads[i].id = s.threads[i].id
           /\ \A t, x : InState(set_state(s, tid, st), t, x) <=>
                 \/ t # tid /\ InState(s, t, x)
                 \/ t = tid /\ x = st /\ \E y \in ThreadState : InState(s, tid, y)
<1>. DEFINE q == s.threads
            n == Len(q)
            r == [i \in 1 .. n |->
                    IF q[i].id = tid THEN [q[i] EXCEPT !.state = st] ELSE q[i]]
<1>1. q \in Seq(Thread) /\ n \in Nat
  BY SchedulerTyped
<1>2. set_state(s, tid, st) = [s EXCEPT !.threads = r]
  BY DEF set_state
<1>3. \A i \in 1 .. n : q[i] \in Thread /\ q[i].state \in ThreadState
  BY ThreadTyped
<1>4. \A i \in 1 .. n : /\ r[i] \in Thread
                        /\ r[i].id = q[i].id
                        /\ r[i].state = IF q[i].id = tid THEN st ELSE q[i].state
  BY <1>3 DEF Thread
<1>5. r \in [1 .. n -> Thread]
  BY <1>4
<1>. HIDE DEF r, n
<1>6. r \in Seq(Thread) /\ Len(r) = n
  <2>1. r \in Seq(Thread)
    BY <1>1, <1>5 DEF Seq
  <2>2. DOMAIN r = 1 .. n
    BY <1>5
  <2>. QED
    BY <1>1, <2>1, <2>2, LenProperties
<1>7. /\ set_state(s, tid, st) \in Scheduler
      /\ set_state(s, tid, st).threads = r
      /\ set_state(s, tid, st).next_thread_id = s.next_thread_id
      /\ set_state(s, tid, st).active_thread = s.active_thread
  BY <1>2, <1>6 DEF Scheduler
<1>8. ThreadIds(set_state(s, tid, st))
  <2>1. /\ \A i \in 1 .. n : q[i].id \in 1 .. s.next_thread_id - 1
        /\ \A i, j \in 1 .. n : q[i].id = q[j].id => i = j
        /\ s.active_thread = 0 \/ \E i \in 1 .. n : q[i].id = s.active_thread
    BY DEF ThreadIds, n
  <2>2. /\ \A i \in 1 .. n : r[i].id \in 1 .. s.next_thread_id - 1
        /\ \A i, j \in 1 .. n : r[i].id = r[j].id => i = j
        /\ s.active_thread = 0 \/ \E i \in 1 .. n : r[i].id = s.active_thread
    BY <2>1, <1>4
  <2>. QED
    BY <2>2, <1>6, <1>7 DEF ThreadIds
<1>9. ASSUME NEW t, NEW x
      PROVE  InState(set_state(s, tid, st), t, x) <=>
                 \/ t # tid /\ InState(s, t, x)
                 \/ t = tid /\ x = st /\ \E y \in ThreadState : InState(s, tid, y)
  <2>1. InState(set_state(s, tid, st), t, x) <=> \E i \in 1 .. n : r[i].id = t /\ r[i].state = x
    BY <1>6, <1>7 DEF InState
  <2>2. \A u, y : InState(s, u, y) <=> \E i \in 1 .. n : q[i].id = u /\ q[i].state = y
    BY DEF InState, n
  <2>. HIDE DEF q
  <2>3. (\E y \in ThreadState : InState(s, tid, y)) <=> \E i \in 1 .. n : q[i].id = tid
    BY <2>2, <1>3
  <2>. QED
    BY <2>1, <2>2, <2>3, <1>4
<1>. QED
  BY <1>4, <1>6, <1>7, <1>8, <1>9 DEF n

(* schedule_next moves threads and changes none of them.                   *)
LEMMA ScheduleEffect ==
    ASSUME NEW s \in Scheduler, ThreadIds(s)
    PROVE  /\ ThreadIds(schedule_next(s))
           /\ schedule_next(s).next_thread_id = s.next_thread_id
           /\ Len(schedule_next(s).threads) = Len(s.threads)
           /\ \A t, x : InState(schedule_next(s), t, x) <=> InState(s, t, x)
<1>1. CASE ReadyAt(s) = {}
  BY <1>1 DEF schedule_next
<1>2. CASE ReadyAt(s) # {}
  <2>. DEFINE q == s.threads
              k == FirstReady(s)
              n == Len(q)
              r == Rotated(q, k)
  <2>1. q \in Seq(Thread) /\ n \in Nat
    BY SchedulerTyped
  <2>2. k \in 1 .. n
    BY <1>2, FirstReadyIsFirst
  <2>3. /\ schedule_next(s).threads = r
        /\ schedule_next(s).next_thread_id = s.next_thread_id
        /\ schedule_next(s).active_thread = q[k].id
    BY <1>2 DEF schedule_next
  <2>4. /\ Len(r) = n
        /\ \A i \in 1 .. n : r[i] = IF i <= n - k THEN q[i + k] ELSE q[i - (n - k)]
    BY <2>1, <2>2, RotatedSeq
  <2>. DEFINE old(i) == IF i <= n - k THEN i + k ELSE i - (n - k)
              new(j) == IF j > k THEN j - k ELSE j + (n - k)
  <2>5. /\ \A i \in 1 .. n : r[i] = q[old(i)]
        /\ \A i \in 1 .. n : old(i) \in 1 .. n
        /\ \A i, j \in 1 .. n : old(i) = old(j) => i = j
        /\ \A j \in 1 .. n : new(j) \in 1 .. n /\ old(new(j)) = j
    <3>. HIDE DEF q, r, k, n
    <3>. QED
      BY <2>1, <2>2, <2>4
  <2>. HIDE DEF old, new, r, k, n
  <2>6. \A j \in 1 .. n : \E i \in 1 .. n : r[i] = q[j]
    BY <2>5
  <2>7. \A i \in 1 .. n : \E j \in 1 .. n : r[i] = q[j]
    BY <2>5
  <2>8. ThreadIds(schedule_next(s))
    <3>1. /\ \A i \in 1 .. n : q[i].id \in 1 .. s.next_thread_id - 1
          /\ \A i, j \in 1 .. n : q[i].id = q[j].id => i = j
      BY DEF ThreadIds, n
    <3>2. \A i \in 1 .. n : r[i].id \in 1 .. s.next_thread_id - 1
      BY <3>1, <2>7
    <3>3. \A i, j \in 1 .. n : r[i].id = r[j].id => i = j
      BY <3>1, <2>5
    <3>4. \E i \in 1 .. n : r[i].id = q[k].id
      BY <2>2, <2>6
    <3>. QED
      BY <3>2, <3>3, <3>4, <2>3, <2>4 DEF ThreadIds
  <2>9. ASSUME NEW t, NEW x
        PROVE  InState(schedule_next(s), t, x) <=> InState(s, t, x)
    <3>1. InState(schedule_next(s), t, x) <=> \E i \in 1 .. n : r[i].id = t /\ r[i].state = x
      BY <2>3, <2>4 DEF InState
    <3>2. InState(s, t, x) <=> \E i \in 1 .. n : q[i].id = t /\ q[i].state = x
      BY DEF InState, n
    <3>. HIDE DEF q
    <3>. QED
      BY <3>1, <3>2, <2>6, <2>7
  <2>. QED
    BY <2>3, <2>4, <2>8, <2>9 DEF n
<1>. QED
  BY <1>1, <1>2

=============================================================================
