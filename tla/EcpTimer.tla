------------------------------ MODULE EcpTimer ------------------------------
(***************************************************************************)
(* The retransmission timer of ECP: ecp/timer.c, with what wakes it up:    *)
(* on the FE310 an alarm of eos/timer.c whose event the main loop handles  *)
(* (platform/fe310/time.c), on POSIX the receiver's wait for a packet      *)
(* (ecp_receiver in core.c).                                               *)
(*                                                                         *)
(* The items stand in an array sorted by absolute time, the one due next   *)
(* last.  Absolute times are 32-bit counts of milliseconds that wrap, here *)
(* counts modulo 2 * Half.  Application threads push, pop and remove items *)
(* under the timer's mutex; one thread at a time runs ecp_timer_exe, which *)
(* takes the due items under the mutex and runs them after it, while the   *)
(* others (or the handlers it calls) go on using the timer.                *)
(*                                                                         *)
(* References to connections are the subject of EcpConn.                   *)
(***************************************************************************)
EXTENDS Integers, Sequences, FiniteSetsExt, SequencesExt

CONSTANTS
    Req,         \* items as ecp_timer_item_init makes them: [id, conn, mtype, cnt, timeout]
    MaxTimer,    \* ECP_MAX_TIMER
    Half,        \* ECP_STS_HALF, half the range of ecp_sts_t
    MaxTimeout,  \* bound: the longest timeout
    PollTimeout, \* ECP_POLL_TIMEOUT
    MaxDelay,    \* bound: ticks for which an item's thread, or a due run, is held up
    MaxEvt,      \* EOS_EVT_SIZE_Q: events that fit the event queue
    MaxLate      \* bound: ticks an item may stay in the array after it was due

ASSUME TimeAssumption ==
    /\ Half \in Nat /\ MaxTimeout \in Nat /\ MaxDelay \in Nat /\ MaxLate \in Nat
    /\ PollTimeout \in 1 .. MaxTimeout
    /\ MaxDelay <= MaxLate
    /\ MaxTimeout + MaxLate < Half
ASSUME ReqAssumption ==
    \A r \in Req : r.timeout \in 1 .. MaxTimeout /\ r.cnt \in Nat
ASSUME SizeAssumption == MaxTimer \in Nat /\ MaxEvt \in Nat \ {0}

VARIABLES
    port,       \* the platform the program is built for
    now,        \* ecp_tm_abstime_ms(0)
    item,       \* timer->item[0 .. head] as <<item[0], ..., item[head]>>
    running,    \* ecp_timer_exe is under way
    exec,       \* its to_exec without the times, in the order in which it is run
    next,       \* its ret: the time to the next item, 0 for none
    alarm,      \* fe310: time to timer_next; posix: time left in ecp_tr_recv
    evt,        \* fe310: timer events in the event queue; posix: ecp_tr_recv timed out
    lost,       \* the event queue was full and an event of the timer was lost since the last run
    delay       \* ticks since the run was due or began

vars == <<port, now, item, running, exec, next, alarm, evt, lost, delay>>

Unset == -1     \* timer_next[i] == 0, EOS_TIMER_NONE

Time == 0 .. 2 * Half - 1
Plus(a, d) == IF a + d < 2 * Half THEN a + d ELSE a + d - 2 * Half
Minus(a, b) == IF a >= b THEN a - b ELSE a - b + 2 * Half
LT(a, b) == Minus(a, b) > Half
\* (Mutant: the wrap is forgotten.)
PlainLTE(a, b) == a <= b
LTE(a, b) == Minus(b, a) < Half

\* The time from t until a, negative once a has passed.
TimeLeft(t, a) == IF Minus(a, t) < Half THEN Minus(a, t) ELSE Minus(a, t) - 2 * Half
Left(a) == TimeLeft(now, a)

Positions == DOMAIN item
InUse(r) ==
    \/ \E i \in Positions : item[i].req = r
    \/ \E i \in DOMAIN exec : exec[i].req = r

Init ==
    /\ port \in {"fe310", "posix"}
    /\ now \in Time
    /\ item = <<>> /\ exec = <<>>
    /\ running = FALSE /\ next = 0
    /\ alarm = IF port = "posix" THEN PollTimeout ELSE Unset
    /\ evt = 0 /\ lost = FALSE /\ delay = 0
-----------------------------------------------------------------------------
(***************************************************************************)
(* The array.                                                              *)
(***************************************************************************)

\* ecp_tm_timer_set  (Mutants: an alarm not set is taken for an earlier one; the
\* alarm is set in any case.)
AlarmOnlyEarlier(timeout) ==
    IF port = "fe310" /\ timeout < alarm THEN timeout ELSE alarm
AlarmAlways(timeout) == IF port = "fe310" THEN timeout ELSE alarm
AlarmWith(timeout) ==
    IF port = "fe310" /\ (alarm = Unset \/ timeout < alarm) THEN timeout ELSE alarm

\* POSIX reads the clock before it waits for the mutex.
MutexDelay == IF port = "posix" THEN MaxDelay ELSE 0
Lateness == 0 .. MutexDelay

\* The place after the last item that is due no earlier.
Slot(at) ==
    LET later == {i \in Positions : LTE(at, item[i].abstime)}
    IN  IF later = {} THEN 1 ELSE Max(later) + 1

\* (Mutant: one too many.)
RoomForOneMore == Len(item) <= MaxTimer
HasRoom == Len(item) < MaxTimer

\* ecp_timer_push, when the array has room and the connection is registered.
Push(r, cnt, late) ==
    LET at == Minus(Plus(now, r.timeout), late)
    IN  /\ HasRoom
        /\ item' = InsertAt(item, Slot(at), [req |-> r, cnt |-> cnt, abstime |-> at])
        /\ alarm' = AlarmWith(r.timeout)

\* A request is sent for the first time (ecp_timer_send, ecp_send_init_req, the rbuf's timer).
Start(r) ==
    /\ ~InUse(r)
    /\ \E late \in Lateness : Push(r, r.cnt, late)
    /\ UNCHANGED <<port, now, running, exec, next, evt, lost, delay>>

\* An answer: the first match from the head goes.
Pop(conn, mtype) ==
    LET match == {i \in Positions : item[i].req.conn = conn /\ item[i].req.mtype = mtype}
    IN  /\ match # {}
        /\ item' = RemoveAt(item, Max(match))
        /\ UNCHANGED <<port, now, running, exec, next, alarm, evt, lost, delay>>

\* Every item of the connection goes; the others close up in their order.
RemoveAll(conn) ==
    LET stay == {i \in Positions : item[i].req.conn # conn}
    IN  /\ stay # Positions
        /\ \E n \in 0 .. Len(item) : \E at \in [1 .. n -> stay] :
              /\ \A i, j \in 1 .. n : i < j => at[i] < at[j]
              /\ \A p \in stay : \E i \in 1 .. n : at[i] = p
              /\ item' = [i \in 1 .. n |-> item[at[i]]]
        /\ UNCHANGED <<port, now, running, exec, next, alarm, evt, lost, delay>>
-----------------------------------------------------------------------------
(***************************************************************************)
(* ecp_timer_exe.                                                          *)
(***************************************************************************)

\* Under the mutex: the items from the head that are due leave the array.
Collect ==
    LET ahead == {i \in Positions : LT(now, item[i].abstime)}
        last == IF ahead = {} THEN 0 ELSE Max(ahead)
    IN  /\ ~running
        /\ item' = SubSeq(item, 1, last)
        /\ exec' = [i \in 1 .. Len(item) - last |->
                      [req |-> item[last + i].req, cnt |-> item[last + i].cnt]]
        /\ next' = IF last = 0 THEN 0 ELSE Minus(item[last].abstime, now)
        /\ running' = TRUE /\ delay' = 0 /\ lost' = FALSE

\* The main loop takes the timer's event, or ecp_tr_recv timed out.
HandleAlarm ==
    /\ evt > 0 /\ evt' = evt - 1
    /\ Collect
    /\ UNCHANGED <<port, now, alarm>>

\* The receiver got a packet, and looks at the timer after it.
HandlePacket ==
    /\ port = "posix" /\ alarm # Unset
    /\ alarm' = Unset
    /\ Collect
    /\ UNCHANGED <<port, now, evt>>

\* The item is sent again; ecp_pkt_send pushes it before it sends.
RunAgain ==
    /\ exec # <<>> /\ Head(exec).cnt > 0
    /\ \E late \in Lateness : Push(Head(exec).req, Head(exec).cnt - 1, late)
    /\ exec' = Tail(exec)
    /\ UNCHANGED <<port, now, running, next, evt, lost, delay>>

\* No try is left, or sending failed before the push or in it; the error handler hears of it.
RunOver ==
    /\ exec # <<>>
    /\ exec' = Tail(exec)
    /\ UNCHANGED <<port, now, item, running, next, alarm, evt, lost, delay>>

\* timer_handler of the fe310, the next wait of the receiver.  (Mutant: the fe310 relies
\* on the alarms the pushes set.)
AlarmLeft == IF port = "posix" THEN (IF next # 0 THEN next ELSE PollTimeout) ELSE alarm
AlarmAfterRun ==
    CASE next # 0 -> next
      [] next = 0 /\ port = "posix" -> PollTimeout
      [] OTHER -> alarm

\* ecp_timer_exe returns next.
Return ==
    /\ running /\ exec = <<>>
    /\ running' = FALSE /\ delay' = 0 /\ next' = 0
    /\ alarm' = AlarmAfterRun
    /\ UNCHANGED <<port, now, item, exec, evt, lost>>
-----------------------------------------------------------------------------
(***************************************************************************)
(* Time.  A tick waits for what takes no time (an interrupt) and does not  *)
(* exceed the bounds.                                                      *)
(***************************************************************************)

Due == evt > 0 \/ running

Tick ==
    /\ alarm # 0
    /\ Due => delay < MaxDelay
    /\ \A i \in Positions : Left(item[i].abstime) > -MaxLate
    /\ now' = Plus(now, 1)
    /\ alarm' = IF alarm = Unset THEN Unset ELSE alarm - 1
    /\ delay' = IF Due THEN delay + 1 ELSE 0
    /\ UNCHANGED <<port, item, running, exec, next, evt, lost>>

\* The alarm's time has come: _eos_timer_handle queues an event, unless the queue is full.
Fire ==
    /\ alarm = 0 /\ alarm' = Unset
    /\ \/ evt < MaxEvt /\ evt' = evt + 1 /\ UNCHANGED lost
       \/ port = "fe310" /\ lost' = TRUE /\ UNCHANGED evt
    /\ UNCHANGED <<port, now, item, running, exec, next, delay>>

\* The main loop has no buffer for the handler and the queue no room to take the event back
\* (evt_handler_wrapper, see EosNet).
Refuse ==
    /\ port = "fe310" /\ evt > 0
    /\ evt' = evt - 1 /\ lost' = TRUE
    /\ UNCHANGED <<port, now, item, running, exec, next, alarm, delay>>

Next ==
    \/ \E r \in Req : Start(r) \/ Pop(r.conn, r.mtype) \/ RemoveAll(r.conn)
    \/ HandleAlarm \/ HandlePacket \/ RunAgain \/ RunOver \/ Return
    \/ Tick \/ Fire \/ Refuse

\* The main loop or the receiver goes on; time passes and the alarm's interrupt comes.
Fairness ==
    /\ WF_vars(HandleAlarm) /\ WF_vars(RunAgain \/ RunOver) /\ WF_vars(Return)
    /\ WF_vars(Tick) /\ WF_vars(Fire)

Spec == Init /\ [][Next]_vars
FairSpec == Spec /\ Fairness
-----------------------------------------------------------------------------
Item == [req : Req, cnt : Nat, abstime : Time]

TypeOK ==
    /\ port \in {"fe310", "posix"}
    /\ now \in Time
    /\ item \in Seq(Item) /\ Len(item) <= MaxTimer
    /\ exec \in Seq([req : Req, cnt : Nat])
    /\ running \in BOOLEAN /\ lost \in BOOLEAN
    /\ next \in 0 .. MaxTimeout
    /\ alarm \in {Unset} \cup 0 .. MaxTimeout
    /\ evt \in 0 .. MaxEvt /\ delay \in 0 .. MaxDelay

\* The array and to_exec as EcpTimerSpec sees them.
Pending == {[req |-> item[i].req, cnt |-> item[i].cnt, left |-> Left(item[i].abstime)]
              : i \in Positions}
Taken == {exec[i] : i \in DOMAIN exec}
Waits == INSTANCE EcpTimerSpec WITH pending <- Pending, taken <- Taken

\* The array with its wrapping times implements the set with the time left (EcpTimerSpec):
\* a push, a pop, a removal and a run each do to the set what they promise, wherever the
\* clock wraps (timer.c:35-187).
Implements == Waits!Spec

\* Whenever items wait, something will look at them: an alarm is set, its event is queued or
\* a run is under way; only an event the full queue refused breaks the chain
\* (fe310/time.c:14-16, 34-37, core.c:2648).
AlarmKept == item # <<>> => running \/ alarm # Unset \/ evt > 0 \/ lost

\* An item is run within one alarm of its time and two delays of the thread that runs the
\* timer, one while a run goes on and one before the next begins, also when the alarm set by
\* a retry is put off by the one set after the run (fe310/time.c:16); on POSIX the pushing
\* thread's wait for the mutex comes on top (timer.c:40-43).
LatenessBounded ==
    lost \/ \A i \in Positions :
              Left(item[i].abstime) > -(MaxTimeout + 2 * MaxDelay + MutexDelay)

\* Every item is run, answered or removed, unless its alarm is lost (timer.c:134-187).
Served == \A r \in Req : (\E i \in Positions : item[i].req = r) ~>
                            (lost \/ ~\E i \in Positions : item[i].req = r)
=============================================================================
