------------------------------- MODULE Sched -------------------------------
(***************************************************************************)
(* The round-robin thread queue of kernel/src/sched.rs, as operators on a  *)
(* Scheduler record.  A thread is "Ready" or "Blocked": "Running" is       *)
(* stored and overwritten inside schedule_next, and nothing calls          *)
(* terminate_thread, so no Zombie is ever in the queue.                    *)
(***************************************************************************)
EXTENDS Naturals, Sequences

ThreadState == {"Ready", "Blocked"}

\* A thread's context holds its entry point and default stack for ever: no
\* code stores registers back into it.  It is left out of the record.
Thread == [id : Nat, session_id : Nat, state : ThreadState]

\* active_thread is a thread id, 0 for None.
Scheduler == [threads : Seq(Thread), next_thread_id : Nat, active_thread : Nat]

NewScheduler == [threads |-> <<>>, next_thread_id |-> 1, active_thread |-> 0]

spawn(s, session) ==
    LET thread == [id |-> s.next_thread_id, session_id |-> session, state |-> "Ready"]
    IN  [threads |-> Append(s.threads, thread),
         next_thread_id |-> s.next_thread_id + 1,
         active_thread |-> s.active_thread]

\* The positions of the Ready threads, and the first of them.
ReadyAt(s) == {i \in 1 .. Len(s.threads) : s.threads[i].state = "Ready"}
FirstReady(s) == CHOOSE i \in ReadyAt(s) : \A j \in ReadyAt(s) : i <= j

\* The queue after its first k threads went to the back, one by one.
Rotated(q, k) == SubSeq(q, k + 1, Len(q)) \o SubSeq(q, 1, k)

\* Mutant: the chosen thread goes back to the front of the queue.
schedule_next_to_front(s) ==
    LET k == FirstReady(s)
    IN  IF ReadyAt(s) = {} THEN s
        ELSE [threads |-> Rotated(s.threads, k - 1),
              next_thread_id |-> s.next_thread_id,
              active_thread |-> s.threads[k].id]

\* Threads are moved from front to back until a Ready one has been moved: it
\* is the active thread.  With no Ready thread the whole queue goes round once
\* and the active thread stays the same.
schedule_next(s) ==
    LET k == FirstReady(s)
    IN  IF ReadyAt(s) = {} THEN s
        ELSE [threads |-> Rotated(s.threads, k),
              next_thread_id |-> s.next_thread_id,
              active_thread |-> s.threads[k].id]

\* The loops of rust_ipc_recv and rust_ipc_send over the threads.
set_state(s, tid, st) ==
    [s EXCEPT !.threads = [i \in 1 .. Len(s.threads) |->
        IF s.threads[i].id = tid THEN [s.threads[i] EXCEPT !.state = st]
                                 ELSE s.threads[i]]]

=============================================================================
