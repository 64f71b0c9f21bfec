------------------------------ MODULE EspModem ------------------------------
(***************************************************************************)
(* The modem's uart and the tasks of the ESP32 that share it               *)
(* (cell_modem.c).                                                         *)
(*                                                                         *)
(* The uart task reads what the modem sends, as its mode says: lines of AT *)
(* answers, PPP frames, or bytes to relay.  A request (set a mode, send AT *)
(* commands, start up, sleep) holds mutex from its first step to its last, *)
(* so there is one at a time; it asks the task through uart_queue to leave *)
(* the uart alone (mode NONE) and gets uart_mutex when the task does.  The *)
(* TCP/IP thread runs PPP's callbacks, and whoever calls pppapi waits for  *)
(* that thread.                                                            *)
(*                                                                         *)
(* A post to uart_queue waits for a free slot; the interrupt that reports  *)
(* data does not.                                                          *)
(***************************************************************************)
EXTENDS Naturals, Sequences

CONSTANTS
    None, AtCmd, Ppp, Relay,  \* EOS_CELL_UART_MODE_...
    Undef,                    \* EOS_CELL_UART_MODE_UNDEF
    Data,                     \* the event UART_DATA
    QueueSize,                \* slots of uart_queue
    MaxPcb                    \* bound: PPP sessions not freed

Modes == {None, AtCmd, Ppp, Relay}

ASSUME ModemAssumption ==
    /\ None \notin {AtCmd, Ppp, Relay, Undef, Data} /\ AtCmd \notin {Ppp, Relay, Undef, Data}
    /\ Ppp \notin {Relay, Undef, Data} /\ Relay \notin {Undef, Data} /\ Undef # Data
    /\ QueueSize \in Nat \ {0} /\ MaxPcb \in Nat

VARIABLES
    queue,          \* uart_queue
    task,           \* uart_event_task: "start", "run", or "enter" while it waits for uart_mutex
    mode, next,     \* its mode and _mode
    left,           \* uart_buf_len is not zero
    token,          \* uart_mutex is free
    pc, kind,       \* the request that holds mutex: where it is, and what it is
    uartMode,       \* uart_mode
    pending,        \* _uart_mode
    ready,          \* modem_initialized
    handle,         \* ppp_handle is set
    pcbs,           \* PPP control blocks not freed
    tcp,            \* the TCP/IP thread
    lock            \* ppp_mutex: "free", held by "output" or "pause", or "lost"

uart == <<queue, task, mode, next, left, token>>
req  == <<pc, kind, uartMode, pending, ready>>
ppp  == <<handle, pcbs, tcp, lock>>
vars == <<uart, req, ppp>>

Init ==
    /\ queue = <<>> /\ task = "start" /\ mode = AtCmd /\ next = AtCmd
    /\ left = FALSE /\ token = TRUE
    /\ pc = "idle" /\ kind = "none" /\ uartMode = AtCmd /\ pending = Undef /\ ready = FALSE
    /\ handle = FALSE /\ pcbs = 0 /\ tcp = "free" /\ lock = "free"
-----------------------------------------------------------------------------
Room == Len(queue) < QueueSize

\* modem_set_mode
Post(m) == Room /\ queue' = Append(queue, m)

\* The interrupt reports data; with no slot free the event is dropped.
DataComes == Post(Data) /\ UNCHANGED <<task, mode, next, left, token, req, ppp>>
-----------------------------------------------------------------------------
(* The uart task *)

TaskStarts ==
    /\ task = "start" /\ token
    /\ task' = "run" /\ token' = FALSE
    /\ UNCHANGED <<queue, mode, next, left, req, ppp>>

\* What reading in mode m leaves in uart_buf: only a part of a line of AT answers stays.
Read(m) == left' \in IF m = AtCmd THEN BOOLEAN ELSE {left}

\* The task takes up mode m, which is not its mode and which it can enter without waiting.
Switch(m) == mode' = m /\ token' = (token \/ m = None)

HandleData ==
    /\ task = "run" /\ queue # <<>> /\ Head(queue) = Data
    /\ queue' = Tail(queue)
    /\ Read(mode)
    /\ IF mode # next /\ ~left' THEN Switch(next) ELSE UNCHANGED <<mode, token>>
    /\ UNCHANGED <<task, next, req, ppp>>

HandleMode ==
    /\ task = "run" /\ queue # <<>> /\ Head(queue) # Data
    /\ queue' = Tail(queue) /\ next' = Head(queue)
    /\ \/ mode # next' /\ mode = None
          /\ task' = "enter" /\ UNCHANGED <<mode, token>>
       \/ mode # next' /\ mode # None /\ ~left
          /\ Switch(next') /\ UNCHANGED task
       \/ (mode = next' \/ (mode # None /\ left)) /\ UNCHANGED <<task, mode, token>>
    /\ UNCHANGED <<left, req, ppp>>

\* (Mutant: the task reads again without uart_mutex.)
AnyTime == TRUE
Free == token
EnterMode ==
    /\ task = "enter" /\ Free
    /\ token' = FALSE /\ Read(next) /\ mode' = next /\ task' = "run"
    /\ UNCHANGED <<queue, next, req, ppp>>

UartTask == TaskStarts \/ HandleData \/ HandleMode \/ EnterMode
-----------------------------------------------------------------------------
(* Requests.  The next three start one, holding mutex. *)

Begin(k) ==
    /\ pc = "idle" /\ Post(None)
    /\ pc' = "wait" /\ kind' = k
    /\ UNCHANGED <<task, mode, next, left, token>>

\* modem_atcmd_init after the modem's PB DONE, eos_modem_take, eos_modem_reset, eos_modem_sleep
Ask ==
    /\ \E k \in {"init", "take", "reset", "sleep"} :
          (k \in {"take", "reset"} => ready) /\ Begin(k)
    /\ UNCHANGED <<uartMode, pending, ready, ppp>>

Connect ==
    /\ uartMode # Ppp /\ pcbs < MaxPcb
    /\ Begin("connect")
    /\ UNCHANGED <<uartMode, pending, ready, ppp>>

\* eos_modem_set_mode, but for PPP
SetMode(m) ==
    /\ pc = "idle" /\ m \in Modes \ {uartMode, Ppp}
    /\ IF uartMode = Ppp /\ handle
       THEN pending' = m /\ pc' = "close" /\ kind' = "close" /\ UNCHANGED <<queue, uartMode>>
       ELSE Post(m) /\ uartMode' = m /\ UNCHANGED <<pc, kind, pending>>
    /\ UNCHANGED <<task, mode, next, left, token, ready, ppp>>

Close ==
    /\ pc = "close" /\ tcp = "free"
    /\ pc' = "idle" /\ kind' = "none"
    /\ UNCHANGED <<uart, uartMode, pending, ready, ppp>>

\* A request that must interrupt PPP first
Pausing == kind \in {"take", "reset"} /\ uartMode = Ppp

\* uart_mutex, in time; or a pause that gets it too late
GetUart ==
    /\ pc = "wait" /\ kind # "sleep" /\ token
    /\ token' = FALSE
    /\ pc' \in CASE Pausing         -> {"pause", "back"}
                 [] kind = "status" -> {"back"}
                 [] OTHER           -> {"cmd"}
    /\ handle' = (handle /\ kind # "status")
    /\ UNCHANGED <<queue, task, mode, next, left, kind, uartMode, pending, ready, pcbs, tcp, lock>>

\* No uart_mutex within the time: the mode asked for is taken back, except by a pause.
\* (Mutant: by nobody.)
NobodyRestores == FALSE
Restores == ~Pausing
Timeout ==
    /\ pc = "wait" /\ kind \notin {"status", "sleep"} /\ ~token
    /\ IF Restores THEN Post(uartMode) ELSE UNCHANGED queue
    /\ pc' = "idle" /\ kind' = "none"
    /\ UNCHANGED <<task, mode, next, left, token, uartMode, pending, ready, ppp>>

\* Deep sleep, with uart_mutex or without: the device starts anew.
Sleep ==
    /\ pc = "wait" /\ kind = "sleep"
    /\ queue' = <<>> /\ task' = "start" /\ mode' = AtCmd /\ next' = AtCmd
    /\ left' = FALSE /\ token' = TRUE
    /\ pc' = "idle" /\ kind' = "none" /\ uartMode' = AtCmd /\ pending' = Undef /\ ready' = FALSE
    /\ handle' = FALSE /\ pcbs' = 0 /\ tcp' = "free" /\ lock' = "free"

PauseTakesPpp ==
    /\ pc = "pause" /\ lock = "free"
    /\ lock' = "pause" /\ pc' = "escape"
    /\ UNCHANGED <<uart, kind, uartMode, pending, ready, handle, pcbs, tcp>>

PauseTimeout ==
    /\ pc = "pause" /\ lock # "free"
    /\ pc' = "back"
    /\ UNCHANGED <<uart, kind, uartMode, pending, ready, ppp>>

\* The modem is told to leave data mode a second after the pause began.  All callers allow one
\* second, so it times out right there unless the last bytes read look like an answer.
Escape ==
    /\ pc = "escape"
    /\ pc' \in {"cmd", "back"} /\ left' \in BOOLEAN
    /\ UNCHANGED <<queue, task, mode, next, token, kind, uartMode, pending, ready, ppp>>

\* at_expect waits without limit where exactly its time has passed.
Hang ==
    /\ pc = "cmd" /\ pc' = "hung"
    /\ UNCHANGED <<uart, kind, uartMode, pending, ready, ppp>>

\* AT commands and their answers; for a paused PPP, then ATO
Command ==
    /\ pc \in {"cmd", "hung"}
    /\ left' \in BOOLEAN
    /\ pc' \in IF kind = "connect" THEN {"create", "back"} ELSE {"back"}
    /\ ready' \in CASE kind = "init" -> {ready, TRUE} [] kind = "reset" -> {FALSE} [] OTHER -> {ready}
    /\ uartMode' = IF kind = "reset" THEN AtCmd ELSE uartMode
    /\ UNCHANGED <<queue, task, mode, next, token, kind, pending, ppp>>

Create ==
    /\ pc = "create" /\ tcp = "free"
    /\ pc' = "back" /\ uartMode' = Ppp /\ handle' = TRUE /\ pcbs' = pcbs + 1
    /\ UNCHANGED <<uart, kind, pending, ready, tcp, lock>>

\* The mode is posted before uart_mutex is given; ppp_mutex is given by the mode of that moment.
\* (Mutant: nobody gives it.)
PppKept == lock
PppGiven == IF lock # "pause" THEN lock ELSE IF uartMode = Ppp THEN "free" ELSE "lost"
GiveBack ==
    /\ pc = "back" /\ Post(uartMode)
    /\ token' = TRUE /\ pc' = "idle" /\ kind' = "none"
    /\ lock' = PppGiven
    /\ IF kind = "status" THEN tcp' = "free" /\ pcbs' = pcbs - 1 ELSE UNCHANGED <<tcp, pcbs>>
    /\ UNCHANGED <<task, mode, next, left, uartMode, pending, ready, handle>>

Request ==
    \/ Close \/ GetUart \/ Timeout \/ Sleep \/ PauseTakesPpp \/ PauseTimeout \/ Escape
    \/ Hang \/ Command \/ Create \/ GiveBack
-----------------------------------------------------------------------------
(* PPP in the TCP/IP thread *)

Output ==
    /\ tcp = "free" /\ pcbs > 0
    /\ tcp' = "output"
    /\ UNCHANGED <<uart, req, handle, pcbs, lock>>

OutputTakes ==
    /\ tcp = "output" /\ lock = "free"
    /\ tcp' = "write" /\ lock' = "output"
    /\ UNCHANGED <<uart, req, handle, pcbs>>

OutputDone ==
    /\ tcp = "write"
    /\ tcp' = "free" /\ lock' = "free"
    /\ UNCHANGED <<uart, req, handle, pcbs>>

\* A session ended, because it was closed or by itself.
SessionEnds ==
    /\ tcp = "free" /\ pcbs > 0
    /\ tcp' = "ended"
    /\ UNCHANGED <<uart, req, handle, pcbs, lock>>

StatusCallback ==
    /\ tcp = "ended" /\ Begin("status")
    /\ tcp' = "status"
    /\ uartMode' = IF pending = Undef THEN AtCmd ELSE pending
    /\ pending' = Undef
    /\ UNCHANGED <<ready, handle, pcbs, lock>>

Next ==
    \/ DataComes \/ UartTask \/ Ask \/ Connect \/ (\E m \in Modes : SetMode(m)) \/ Request
    \/ Output \/ OutputTakes \/ OutputDone \/ SessionEnds \/ StatusCallback

Spec == Init /\ [][Next]_vars

\* Tasks run; a task that waits for a semaphore or for a slot of the queue gets it when it is
\* there again and again, and the TCP/IP thread takes its calls in order.  Of the modem only this is assumed: a line it began to send, it ends.
\* Requests, other data and the end of sessions are up to others.
FairSpec ==
    /\ Spec
    /\ WF_vars(UartTask)
    /\ SF_vars(pc # "hung" /\ Request)
    /\ SF_vars(OutputTakes \/ OutputDone \/ StatusCallback)
    /\ WF_vars(left /\ DataComes) /\ SF_vars(HandleData /\ ~left')
-----------------------------------------------------------------------------
TypeOK ==
    /\ queue \in Seq(Modes \union {Data}) /\ Len(queue) =< QueueSize
    /\ task \in {"start", "run", "enter"} /\ {mode, next} \subseteq Modes
    /\ left \in BOOLEAN /\ token \in BOOLEAN
    /\ pc \in {"idle", "wait", "close", "pause", "escape", "cmd", "hung", "create", "back"}
    /\ kind \in {"none", "init", "take", "reset", "sleep", "connect", "close", "status"}
    /\ uartMode \in Modes /\ pending \in (Modes \ {Ppp}) \union {Undef}
    /\ ready \in BOOLEAN /\ handle \in BOOLEAN /\ pcbs \in 0 .. MaxPcb
    /\ tcp \in {"free", "output", "write", "ended", "status"}
    /\ lock \in {"free", "output", "pause", "lost"}

Owner  == pc \in {"pause", "escape", "cmd", "hung", "create", "back"}
Reader == task # "start" /\ mode # None

\* One reader: uart_mutex is free, or held by the request that talks to the modem, or by the uart
\* task that reads; never two of them, so no answer is taken by the other side and uart_buf, which
\* both use, has one user.  (uart_event_task, ppp_pause, eos_modem_take)
OneReader ==
    /\ ~(Owner /\ Reader)
    /\ token => ~Owner /\ ~Reader
    /\ ~token => Owner \/ Reader

\* Once no request runs and the task has seen every event, the mode it is in, or goes to at the end
\* of a line, is the one set last, whatever timed out in between.  A pause of PPP that does not get
\* uart_mutex is the one way to leave the uart with nobody reading.  (modem_set_mode, line 457)
ModeAgrees ==
    pc = "idle" /\ task = "run" /\ queue = <<>> =>
        next = uartMode \/ (next = None /\ uartMode = Ppp)

\* What can hold a request for ever:
\*  - the task waits for uart_mutex while its holder waits for a slot of the task's queue;
\*  - the end of a session waits for mutex while its holder waits for the thread it runs in;
\*  - a reset during PPP: ppp_mutex is never given back;
\*  - bytes were left in uart_buf when PPP or relay mode began, which never empties it;
\*  - at_expect without a limit.
Stuck ==
    \/ pc = "back" /\ task \in {"start", "enter"} /\ ~Room
    \/ pc \in {"close", "create"} /\ tcp = "ended"
    \/ lock = "lost"
    \/ mode \in {Ppp, Relay} /\ left
    \/ pc = "hung"

\* Every request ends, and the end of a session is reported, but in those cases.
RequestsReturn ==
    /\ pc # "idle" ~> pc = "idle" \/ Stuck
    /\ tcp = "ended" ~> tcp = "free" \/ Stuck
=============================================================================
