-------------------------- MODULE EspModem_proofs ---------------------------
(***************************************************************************)
(* Proofs about EspModem for every size of the queue and any number of PPP *)
(* sessions: the state is typed, the uart has one reader, and the task's   *)
(* mode agrees with the mode that was set.                                 *)
(***************************************************************************)
EXTENDS EspModem, SequenceTheorems, TLAPS

\* What the uart task's modes say at each of its places.
TaskPlaces ==
    /\ task = "start" => mode = AtCmd
    /\ task = "enter" => mode = None /\ next # None
    /\ task = "run" /\ mode = None => next = None

\* What kind of request is at each place, and the TCP/IP thread's part in it.
Places ==
    /\ pc = "close" => kind = "close"
    /\ pc = "create" => kind = "connect"
    /\ kind = "connect" /\ pc # "back" => pcbs < MaxPcb
    /\ kind = "status" => tcp = "status"
    /\ tcp # "free" => pcbs > 0

\* Mode v is the one the task goes to when it has seen all of queue q, its _mode being n.
LeadsTo(q, n, v) ==
    \/ n = v /\ \A i \in 1 .. Len(q) : q[i] = Data
    \/ \E i \in 1 .. Len(q) : q[i] = v /\ v # Data /\ \A j \in 1 .. Len(q) : j > i => q[j] = Data

\* The task is on its way to the mode that was set; while a request waits for it, to mode NONE.
\* (A pause of PPP that times out leaves it there.)
OnItsWay ==
    /\ pc \in {"idle", "close"} =>
          LeadsTo(queue, next, uartMode) \/ (uartMode = Ppp /\ LeadsTo(queue, next, None))
    /\ pc = "wait" => LeadsTo(queue, next, None)

\* A post to a queue that has room, and what is left when its first element is taken.
LEMMA QueueTyped ==
    ASSUME TypeOK
    PROVE  /\ \A e \in Modes \cup {Data} : Room =>
                 Append(queue, e) \in Seq(Modes \cup {Data}) /\ Len(Append(queue, e)) =< QueueSize
           /\ queue # <<>> =>
                 /\ Head(queue) \in Modes \cup {Data} /\ Tail(queue) \in Seq(Modes \cup {Data})
                 /\ Len(Tail(queue)) =< QueueSize
<1>1. /\ queue \in Seq(Modes \cup {Data}) /\ Len(queue) \in Nat /\ Len(queue) =< QueueSize
      /\ QueueSize \in Nat
  BY ModemAssumption, LenProperties DEF TypeOK
<1>2. ASSUME NEW e \in Modes \cup {Data}, Room
      PROVE  Append(queue, e) \in Seq(Modes \cup {Data}) /\ Len(Append(queue, e)) =< QueueSize
  BY <1>1, <1>2, AppendProperties DEF Room
<1>3. ASSUME queue # <<>>
      PROVE  /\ Head(queue) \in Modes \cup {Data} /\ Tail(queue) \in Seq(Modes \cup {Data})
             /\ Len(Tail(queue)) =< QueueSize
  BY <1>1, <1>3, HeadTailProperties
<1> QED
  BY <1>2, <1>3

\* Every step keeps the types.
LEMMA TypeStep ==
    ASSUME TypeOK, Places, [Next]_vars
    PROVE  TypeOK'
<1> USE ModemAssumption
<1>t. /\ \A e \in Modes \cup {Data} : Room =>
            Append(queue, e) \in Seq(Modes \cup {Data}) /\ Len(Append(queue, e)) =< QueueSize
      /\ queue # <<>> =>
            /\ Head(queue) \in Modes \cup {Data} /\ Tail(queue) \in Seq(Modes \cup {Data})
            /\ Len(Tail(queue)) =< QueueSize
  BY QueueTyped
<1>1. CASE DataComes
  BY <1>1, <1>t DEF DataComes, Post, Room, TypeOK, Places, Modes, uart, req, ppp, vars
<1>2. CASE TaskStarts
  <2>1. UNCHANGED <<queue, mode, next, left, req, ppp>> /\ task' = "run" /\ token' \in BOOLEAN
    BY <1>2 DEF TaskStarts
  <2> QED
    BY <2>1 DEF TypeOK, req, ppp
<1>3. CASE HandleData
  <2>1. left' \in BOOLEAN
    BY <1>3 DEF HandleData, Read, TypeOK
  <2>2. /\ queue' = Tail(queue) /\ queue # <<>> /\ UNCHANGED <<task, next, req, ppp>>
        /\ \/ mode' = next /\ token' = (token \/ next = None)
           \/ UNCHANGED <<mode, token>>
    BY <1>3 DEF HandleData, Switch
  <2>3. mode' \in Modes /\ token' \in BOOLEAN
    BY <2>2 DEF TypeOK
  <2> QED
    BY <2>1, <2>2, <2>3, <1>t DEF TypeOK, Modes, req, ppp
<1>4. CASE HandleMode
  <2>1. /\ queue' = Tail(queue) /\ queue # <<>> /\ next' = Head(queue) /\ UNCHANGED <<left, req, ppp>>
        /\ Head(queue) # Data
        /\ mode' \in {mode, next'} /\ task' \in {"run", "enter"}
        /\ token' \in {token, token \/ next' = None}
    BY <1>4 DEF HandleMode, Switch
  <2>2. next' \in Modes /\ mode' \in Modes /\ token' \in BOOLEAN
    BY <2>1, <1>t DEF TypeOK
  <2> QED
    BY <2>1, <2>2, <1>t DEF TypeOK, Modes, req, ppp
<1>5. CASE EnterMode
  <2>1. left' \in BOOLEAN
    BY <1>5 DEF EnterMode, Read, TypeOK
  <2>2. token' \in BOOLEAN /\ mode' = next /\ task' = "run" /\ UNCHANGED <<queue, next, req, ppp>>
    BY <1>5 DEF EnterMode
  <2> QED
    BY <2>1, <2>2 DEF TypeOK, req, ppp
<1>6. CASE Ask
  BY <1>6, <1>t DEF Ask, Begin, Post, Room, TypeOK, Places, Modes, uart, req, ppp, vars
<1>7. CASE Connect
  BY <1>7, <1>t DEF Connect, Begin, Post, Room, TypeOK, Places, Modes, uart, req, ppp, vars
<1>8. CASE \E m \in Modes : SetMode(m)
  BY <1>8, <1>t DEF SetMode, Post, Room, TypeOK, Places, Modes, uart, req, ppp, vars
<1>9. CASE Close
  BY <1>9, <1>t DEF Close, TypeOK, Places, Modes, uart, req, ppp, vars
<1>10. CASE GetUart
  <2>1. /\ token' \in BOOLEAN /\ pc' \in {"pause", "back", "cmd"} /\ handle' \in BOOLEAN
        /\ UNCHANGED <<queue, task, mode, next, left, kind, uartMode, pending, ready, pcbs, tcp, lock>>
    BY <1>10 DEF GetUart, TypeOK
  <2> QED
    BY <2>1 DEF TypeOK
<1>11. CASE Timeout
  BY <1>11, <1>t DEF Timeout, Post, Room, Restores, Pausing, TypeOK, Places, Modes, uart, req, ppp, vars
<1>12. CASE Sleep
  <2>1. queue' = <<>> /\ queue' \in Seq(Modes \cup {Data}) /\ Len(queue') = 0
    BY <1>12 DEF Sleep
  <2>2. {left, token, ready, handle}' \subseteq BOOLEAN
    BY <1>12 DEF Sleep
  <2>3. /\ task' = "start" /\ mode' = AtCmd /\ next' = AtCmd /\ uartMode' = AtCmd /\ pending' = Undef
        /\ pc' = "idle" /\ kind' = "none" /\ pcbs' = 0 /\ tcp' = "free" /\ lock' = "free"
    BY <1>12 DEF Sleep
  <2> QED
    <3>1. {AtCmd} \subseteq Modes /\ {AtCmd, Undef} \subseteq (Modes \ {Ppp}) \cup {Undef} /\ 0 \in 0 .. MaxPcb
      BY DEF Modes
    <3> QED
      BY <2>1, <2>2, <2>3, <3>1 DEF TypeOK
<1>13. CASE PauseTakesPpp
  BY <1>13, <1>t DEF PauseTakesPpp, TypeOK, Places, Modes, uart, req, ppp, vars
<1>14. CASE PauseTimeout
  BY <1>14, <1>t DEF PauseTimeout, TypeOK, Places, Modes, uart, req, ppp, vars
<1>15. CASE Escape
  BY <1>15, <1>t DEF Escape, TypeOK, Places, Modes, uart, req, ppp, vars
<1>16. CASE Hang
  BY <1>16, <1>t DEF Hang, TypeOK, Places, Modes, uart, req, ppp, vars
<1>17. CASE Command
  <2>1. /\ left' \in BOOLEAN /\ pc' \in {"create", "back"} /\ ready' \in BOOLEAN
        /\ uartMode' \in {AtCmd, uartMode}
        /\ UNCHANGED <<queue, task, mode, next, token, kind, pending, ppp>>
    BY <1>17 DEF Command, TypeOK
  <2> QED
    BY <2>1 DEF TypeOK, Modes, ppp
<1>18. CASE Create
  BY <1>18, <1>t DEF Create, TypeOK, Places, Modes, uart, req, ppp, vars
<1>19. CASE GiveBack
  BY <1>19, <1>t DEF GiveBack, Post, Room, PppGiven, TypeOK, Places, Modes, uart, req, ppp, vars
<1>20. CASE Output
  BY <1>20, <1>t DEF Output, TypeOK, Places, Modes, uart, req, ppp, vars
<1>21. CASE OutputTakes
  BY <1>21, <1>t DEF OutputTakes, TypeOK, Places, Modes, uart, req, ppp, vars
<1>22. CASE OutputDone
  BY <1>22, <1>t DEF OutputDone, TypeOK, Places, Modes, uart, req, ppp, vars
<1>23. CASE SessionEnds
  BY <1>23, <1>t DEF SessionEnds, TypeOK, Places, Modes, uart, req, ppp, vars
<1>24. CASE StatusCallback
  BY <1>24, <1>t DEF StatusCallback, Begin, Post, Room, TypeOK, Places, Modes, uart, req, ppp, vars
<1>25. CASE UNCHANGED vars
  BY <1>25, <1>t DEF TypeOK, Places, Modes, uart, req, ppp, vars
<1> QED
  BY <1>1, <1>2, <1>3, <1>4, <1>5, <1>6, <1>7, <1>8, <1>9, <1>10, <1>11, <1>12, <1>13, <1>14, <1>15, <1>16, <1>17, <1>18, <1>19, <1>20, <1>21, <1>22, <1>23, <1>24, <1>25 DEF Next, UartTask, Request

\* Every step keeps what is known of the places of a request.
LEMMA PlacesStep ==
    ASSUME TypeOK, Places, [Next]_vars
    PROVE  Places'
<1> USE ModemAssumption
<1>1. CASE DataComes
  BY <1>1 DEF DataComes, Post, Room, TypeOK, Places, uart, req, ppp, vars
<1>2. CASE TaskStarts
  BY <1>2 DEF TaskStarts, TypeOK, Places, uart, req, ppp, vars
<1>3. CASE HandleData
  BY <1>3 DEF HandleData, Read, Switch, TypeOK, Places, uart, req, ppp, vars
<1>4. CASE HandleMode
  BY <1>4 DEF HandleMode, Switch, TypeOK, Places, uart, req, ppp, vars
<1>5. CASE EnterMode
  BY <1>5 DEF EnterMode, Free, Read, TypeOK, Places, uart, req, ppp, vars
<1>6. CASE Ask
  BY <1>6 DEF Ask, Begin, Post, Room, TypeOK, Places, uart, req, ppp, vars
<1>7. CASE Connect
  BY <1>7 DEF Connect, Begin, Post, Room, TypeOK, Places, uart, req, ppp, vars
<1>8. CASE \E m \in Modes : SetMode(m)
  BY <1>8 DEF SetMode, Post, Room, TypeOK, Places, uart, req, ppp, vars
<1>9. CASE Close
  BY <1>9 DEF Close, TypeOK, Places, uart, req, ppp, vars
<1>10. CASE GetUart
  BY <1>10 DEF GetUart, Pausing, TypeOK, Places, uart, req, ppp, vars
<1>11. CASE Timeout
  BY <1>11 DEF Timeout, Post, Room, Restores, Pausing, TypeOK, Places, uart, req, ppp, vars
<1>12. CASE Sleep
  BY <1>12 DEF Sleep, TypeOK, Places, uart, req, ppp, vars
<1>13. CASE PauseTakesPpp
  BY <1>13 DEF PauseTakesPpp, TypeOK, Places, uart, req, ppp, vars
<1>14. CASE PauseTimeout
  BY <1>14 DEF PauseTimeout, TypeOK, Places, uart, req, ppp, vars
<1>15. CASE Escape
  BY <1>15 DEF Escape, TypeOK, Places, uart, req, ppp, vars
<1>16. CASE Hang
  BY <1>16 DEF Hang, TypeOK, Places, uart, req, ppp, vars
<1>17. CASE Command
  BY <1>17 DEF Command, TypeOK, Places, uart, req, ppp, vars
<1>18. CASE Create
  BY <1>18 DEF Create, TypeOK, Places, uart, req, ppp, vars
<1>19. CASE GiveBack
  BY <1>19 DEF GiveBack, Post, Room, PppGiven, TypeOK, Places, uart, req, ppp, vars
<1>20. CASE Output
  BY <1>20 DEF Output, TypeOK, Places, uart, req, ppp, vars
<1>21. CASE OutputTakes
  BY <1>21 DEF OutputTakes, TypeOK, Places, uart, req, ppp, vars
<1>22. CASE OutputDone
  BY <1>22 DEF OutputDone, TypeOK, Places, uart, req, ppp, vars
<1>23. CASE SessionEnds
  BY <1>23 DEF SessionEnds, TypeOK, Places, uart, req, ppp, vars
<1>24. CASE StatusCallback
  BY <1>24 DEF StatusCallback, Begin, Post, Room, TypeOK, Places, uart, req, ppp, vars
<1>25. CASE UNCHANGED vars
  BY <1>25 DEF TypeOK, Places, uart, req, ppp, vars
<1> QED
  BY <1>1, <1>2, <1>3, <1>4, <1>5, <1>6, <1>7, <1>8, <1>9, <1>10, <1>11, <1>12, <1>13, <1>14, <1>15, <1>16, <1>17, <1>18, <1>19, <1>20, <1>21, <1>22, <1>23, <1>24, <1>25 DEF Next, UartTask, Request

\* Every step keeps uart_mutex with one holder, because the task is in mode NONE exactly while it
\* does not hold it.
LEMMA ReaderStep ==
    ASSUME TypeOK, TaskPlaces, OneReader, [Next]_vars
    PROVE  TaskPlaces' /\ OneReader'
<1> USE ModemAssumption
<1>1. CASE DataComes
  BY <1>1 DEF DataComes, Post, Room, TypeOK, TaskPlaces, OneReader, Owner, Reader, uart, req, ppp, vars
<1>2. CASE TaskStarts
  BY <1>2 DEF TaskStarts, TypeOK, TaskPlaces, OneReader, Owner, Reader, uart, req, ppp, vars
<1>3. CASE HandleData
  <2>1. /\ UNCHANGED <<task, next, pc>> /\ task = "run"
        /\ \/ mode # next /\ mode' = next /\ token' = (token \/ next = None)
           \/ UNCHANGED <<mode, token>>
    BY <1>3 DEF HandleData, Switch, req
  <2>2. CASE mode # next /\ mode' = next /\ token' = (token \/ next = None)
    BY <2>1, <2>2 DEF TaskPlaces, OneReader, Owner, Reader
  <2>3. CASE UNCHANGED <<mode, token>>
    BY <2>1, <2>3 DEF TaskPlaces, OneReader, Owner, Reader
  <2> QED
    BY <2>1, <2>2, <2>3
<1>4. CASE HandleMode
  <2>1. UNCHANGED pc /\ task = "run"
    BY <1>4 DEF HandleMode, req
  <2>2. CASE mode # next' /\ mode = None /\ task' = "enter" /\ UNCHANGED <<mode, token>>
    BY <2>1, <2>2 DEF TaskPlaces, OneReader, Owner, Reader
  <2>3. CASE mode # next' /\ mode # None /\ mode' = next' /\ token' = (token \/ next' = None) /\ UNCHANGED task
    BY <2>1, <2>3 DEF TaskPlaces, OneReader, Owner, Reader
  <2>4. CASE (mode = next' \/ (mode # None /\ left)) /\ UNCHANGED <<task, mode, token>>
    BY <2>1, <2>4 DEF TaskPlaces, OneReader, Owner, Reader
  <2> QED
    BY <1>4, <2>2, <2>3, <2>4 DEF HandleMode, Switch
<1>5. CASE EnterMode
  BY <1>5 DEF EnterMode, Free, Read, TypeOK, TaskPlaces, OneReader, Owner, Reader, uart, req, ppp, vars
<1>6. CASE Ask
  BY <1>6 DEF Ask, Begin, Post, Room, TypeOK, TaskPlaces, OneReader, Owner, Reader, uart, req, ppp, vars
<1>7. CASE Connect
  BY <1>7 DEF Connect, Begin, Post, Room, TypeOK, TaskPlaces, OneReader, Owner, Reader, uart, req, ppp, vars
<1>8. CASE \E m \in Modes : SetMode(m)
  BY <1>8 DEF SetMode, Post, Room, TypeOK, TaskPlaces, OneReader, Owner, Reader, uart, req, ppp, vars
<1>9. CASE Close
  BY <1>9 DEF Close, TypeOK, TaskPlaces, OneReader, Owner, Reader, uart, req, ppp, vars
<1>10. CASE GetUart
  BY <1>10 DEF GetUart, Pausing, TypeOK, TaskPlaces, OneReader, Owner, Reader, uart, req, ppp, vars
<1>11. CASE Timeout
  BY <1>11 DEF Timeout, Post, Room, Restores, Pausing, TypeOK, TaskPlaces, OneReader, Owner, Reader, uart, req, ppp, vars
<1>12. CASE Sleep
  BY <1>12 DEF Sleep, TypeOK, TaskPlaces, OneReader, Owner, Reader, uart, req, ppp, vars
<1>13. CASE PauseTakesPpp
  BY <1>13 DEF PauseTakesPpp, TypeOK, TaskPlaces, OneReader, Owner, Reader, uart, req, ppp, vars
<1>14. CASE PauseTimeout
  BY <1>14 DEF PauseTimeout, TypeOK, TaskPlaces, OneReader, Owner, Reader, uart, req, ppp, vars
<1>15. CASE Escape
  BY <1>15 DEF Escape, TypeOK, TaskPlaces, OneReader, Owner, Reader, uart, req, ppp, vars
<1>16. CASE Hang
  BY <1>16 DEF Hang, TypeOK, TaskPlaces, OneReader, Owner, Reader, uart, req, ppp, vars
<1>17. CASE Command
  BY <1>17 DEF Command, TypeOK, TaskPlaces, OneReader, Owner, Reader, uart, req, ppp, vars
<1>18. CASE Create
  BY <1>18 DEF Create, TypeOK, TaskPlaces, OneReader, Owner, Reader, uart, req, ppp, vars
<1>19. CASE GiveBack
  BY <1>19 DEF GiveBack, Post, Room, PppGiven, TypeOK, TaskPlaces, OneReader, Owner, Reader, uart, req, ppp, vars
<1>20. CASE Output
  BY <1>20 DEF Output, TypeOK, TaskPlaces, OneReader, Owner, Reader, uart, req, ppp, vars
<1>21. CASE OutputTakes
  BY <1>21 DEF OutputTakes, TypeOK, TaskPlaces, OneReader, Owner, Reader, uart, req, ppp, vars
<1>22. CASE OutputDone
  BY <1>22 DEF OutputDone, TypeOK, TaskPlaces, OneReader, Owner, Reader, uart, req, ppp, vars
<1>23. CASE SessionEnds
  BY <1>23 DEF SessionEnds, TypeOK, TaskPlaces, OneReader, Owner, Reader, uart, req, ppp, vars
<1>24. CASE StatusCallback
  BY <1>24 DEF StatusCallback, Begin, Post, Room, TypeOK, TaskPlaces, OneReader, Owner, Reader, uart, req, ppp, vars
<1>25. CASE UNCHANGED vars
  BY <1>25 DEF TypeOK, TaskPlaces, OneReader, Owner, Reader, uart, req, ppp, vars
<1> QED
  BY <1>1, <1>2, <1>3, <1>4, <1>5, <1>6, <1>7, <1>8, <1>9, <1>10, <1>11, <1>12, <1>13, <1>14, <1>15, <1>16, <1>17, <1>18, <1>19, <1>20, <1>21, <1>22, <1>23, <1>24, <1>25 DEF Next, UartTask, Request

-----------------------------------------------------------------------------
\* An event added at the end of the queue: a mode is where the task goes then, data changes nothing.
LEMMA AfterPost ==
    ASSUME NEW S, NEW q \in Seq(S), NEW n, NEW e \in S
    PROVE  /\ e # Data => LeadsTo(Append(q, e), n, e)
           /\ \A v : e = Data /\ LeadsTo(q, n, v) => LeadsTo(Append(q, e), n, v)
<1>1. /\ Len(Append(q, e)) = Len(q) + 1 /\ Len(q) \in Nat
      /\ \A i \in 1 .. Len(q) : Append(q, e)[i] = q[i]
      /\ Append(q, e)[Len(q) + 1] = e
  BY AppendProperties, LenProperties
<1>2. ASSUME e # Data PROVE LeadsTo(Append(q, e), n, e)
  BY <1>1, <1>2 DEF LeadsTo
<1>3. ASSUME NEW v, e = Data, LeadsTo(q, n, v) PROVE LeadsTo(Append(q, e), n, v)
  BY <1>1, <1>3 DEF LeadsTo
<1> QED
  BY <1>2, <1>3

\* The task takes the first event.
LEMMA AfterTake ==
    ASSUME NEW S, NEW q \in Seq(S), q # <<>>, NEW n, NEW v, LeadsTo(q, n, v)
    PROVE  IF Head(q) = Data THEN LeadsTo(Tail(q), n, v) ELSE LeadsTo(Tail(q), Head(q), v)
<1>1. /\ Len(q) \in Nat /\ Len(q) # 0 /\ Head(q) = q[1]
      /\ Len(Tail(q)) = Len(q) - 1
      /\ \A i \in 1 .. (Len(q) - 1) : Tail(q)[i] = q[i + 1]
  BY HeadTailProperties, LenProperties, EmptySeq
<1>2. CASE n = v /\ \A i \in 1 .. Len(q) : q[i] = Data
  BY <1>1, <1>2 DEF LeadsTo
<1>3. CASE \E i \in 1 .. Len(q) : q[i] = v /\ v # Data /\ \A j \in 1 .. Len(q) : j > i => q[j] = Data
  <2>1. PICK i \in 1 .. Len(q) : q[i] = v /\ v # Data /\ \A j \in 1 .. Len(q) : j > i => q[j] = Data
    BY <1>3
  <2>2. CASE i = 1
    BY <1>1, <2>1, <2>2 DEF LeadsTo
  <2>3. CASE i # 1
    <3>1. i - 1 \in 1 .. Len(Tail(q)) /\ Tail(q)[i - 1] = v
      BY <1>1, <2>1, <2>3
    <3>2. \A j \in 1 .. Len(Tail(q)) : j > i - 1 => Tail(q)[j] = Data
      BY <1>1, <2>1, <2>3
    <3> QED
      BY <2>1, <3>1, <3>2 DEF LeadsTo
  <2> QED
    BY <2>2, <2>3
<1> QED
  BY <1>2, <1>3 DEF LeadsTo

\* Every step keeps the task on its way.
LEMMA OnItsWayStep ==
    ASSUME TypeOK, OnItsWay, [Next]_vars
    PROVE  OnItsWay'
<1> USE ModemAssumption
<1> DEFINE S == Modes \cup {Data}
<1>q. queue \in Seq(S)
  BY DEF TypeOK
<1>m. ASSUME NEW e \in Modes, Post(e) PROVE LeadsTo(queue', next, e)
  BY <1>q, <1>m, AfterPost DEF Post, Modes
<1>1. CASE DataComes
  <2>1. \A v : LeadsTo(queue, next, v) => LeadsTo(queue', next', v)
    BY <1>1, <1>q, AfterPost DEF DataComes, Post
  <2> QED
    BY <1>1, <2>1 DEF DataComes, OnItsWay, req
<1>2. CASE TaskStarts
  BY <1>2 DEF TaskStarts, OnItsWay, req
<1>3. CASE HandleData
  <2>1. \A v : LeadsTo(queue, next, v) => LeadsTo(queue', next', v)
    BY <1>3, <1>q, AfterTake DEF HandleData
  <2> QED
    BY <1>3, <2>1 DEF HandleData, OnItsWay, req
<1>4. CASE HandleMode
  <2>1. \A v : LeadsTo(queue, next, v) => LeadsTo(queue', next', v)
    BY <1>4, <1>q, AfterTake DEF HandleMode
  <2> QED
    BY <1>4, <2>1 DEF HandleMode, OnItsWay, req
<1>5. CASE EnterMode
  BY <1>5 DEF EnterMode, OnItsWay, req
<1>6. CASE Ask
  <2>1. Post(None) /\ next' = next /\ pc' = "wait"
    BY <1>6 DEF Ask, Begin
  <2> QED
    BY <1>m, <2>1 DEF OnItsWay, Modes
<1>7. CASE Connect
  <2>1. Post(None) /\ next' = next /\ pc' = "wait"
    BY <1>7 DEF Connect, Begin
  <2> QED
    BY <1>m, <2>1 DEF OnItsWay, Modes
<1>8. CASE \E m \in Modes : SetMode(m)
  <2>1. PICK m \in Modes : SetMode(m)
    BY <1>8
  <2>2. CASE uartMode = Ppp /\ handle
    BY <2>1, <2>2 DEF SetMode, OnItsWay
  <2>3. CASE ~(uartMode = Ppp /\ handle)
    BY <1>m, <2>1, <2>3 DEF SetMode, OnItsWay
  <2> QED
    BY <2>2, <2>3
<1>9. CASE Close
  BY <1>9 DEF Close, OnItsWay, uart, req
<1>10. CASE GetUart
  BY <1>10 DEF GetUart, OnItsWay, uart, req
<1>11. CASE Timeout
  <2>1. CASE Restores
    BY <1>m, <1>11, <2>1 DEF Timeout, OnItsWay, TypeOK
  <2>2. CASE ~Restores
    BY <1>11, <2>2 DEF Timeout, Restores, Pausing, OnItsWay
  <2> QED
    BY <2>1, <2>2
<1>12. CASE Sleep
  <2>1. LeadsTo(queue', next', uartMode')
    BY <1>12 DEF Sleep, LeadsTo
  <2> QED
    BY <1>12, <2>1 DEF Sleep, OnItsWay
<1>13. CASE PauseTakesPpp
  BY <1>13 DEF PauseTakesPpp, OnItsWay, uart, req
<1>14. CASE PauseTimeout
  BY <1>14 DEF PauseTimeout, OnItsWay, uart, req
<1>15. CASE Escape
  BY <1>15 DEF Escape, OnItsWay, uart, req
<1>16. CASE Hang
  BY <1>16 DEF Hang, OnItsWay, uart, req
<1>17. CASE Command
  BY <1>17 DEF Command, OnItsWay, uart, req
<1>18. CASE Create
  BY <1>18 DEF Create, OnItsWay, uart, req
<1>19. CASE GiveBack
  BY <1>m, <1>19 DEF GiveBack, OnItsWay, TypeOK
<1>20. CASE Output
  BY <1>20 DEF Output, OnItsWay, uart, req
<1>21. CASE OutputTakes
  BY <1>21 DEF OutputTakes, OnItsWay, uart, req
<1>22. CASE OutputDone
  BY <1>22 DEF OutputDone, OnItsWay, uart, req
<1>23. CASE SessionEnds
  BY <1>23 DEF SessionEnds, OnItsWay, uart, req
<1>24. CASE StatusCallback
  <2>1. Post(None) /\ next' = next /\ pc' = "wait"
    BY <1>24 DEF StatusCallback, Begin
  <2> QED
    BY <1>m, <2>1 DEF OnItsWay, Modes
<1>25. CASE UNCHANGED vars
  BY <1>25 DEF OnItsWay, vars, uart, req
<1> QED
  BY <1>1, <1>2, <1>3, <1>4, <1>5, <1>6, <1>7, <1>8, <1>9, <1>10, <1>11, <1>12, <1>13, <1>14, <1>15, <1>16, <1>17, <1>18, <1>19, <1>20, <1>21, <1>22, <1>23, <1>24, <1>25 DEF Next, UartTask, Request
-----------------------------------------------------------------------------
\* The states the program can be in are typed, whatever the size of the queue.
THEOREM TypeCorrect == Spec => []TypeOK
<1>1. Init => TypeOK /\ Places
  <2>1. ASSUME Init PROVE queue \in Seq(Modes \cup {Data}) /\ Len(queue) =< QueueSize
    BY <2>1, ModemAssumption DEF Init
  <2>2. ASSUME Init PROVE {mode, next, uartMode} \subseteq Modes /\ pending = Undef /\ pcbs \in 0 .. MaxPcb
    BY <2>2, ModemAssumption DEF Init, Modes
  <2> QED
    BY <2>1, <2>2 DEF Init, TypeOK, Places
<1>2. TypeOK /\ Places /\ [Next]_vars => TypeOK' /\ Places'
  BY TypeStep, PlacesStep
<1> QED
  BY <1>1, <1>2, PTL DEF Spec

\* The uart has one reader at a time: the task that distributes what the modem sends, or the request
\* that talks to it.  (uart_event_task, ppp_pause, eos_modem_take and the others that take uart_mutex)
THEOREM OneReaderAlways == Spec => []OneReader
<1>1. Init => TaskPlaces /\ OneReader
  BY ModemAssumption DEF Init, TaskPlaces, OneReader, Owner, Reader
<1>2. TypeOK /\ TaskPlaces /\ OneReader /\ [Next]_vars => TaskPlaces' /\ OneReader'
  BY ReaderStep
<1> QED
  BY <1>1, <1>2, TypeCorrect, PTL DEF Spec

\* When nobody asks for anything the task is in the mode that was set last, or goes there at the end
\* of a line, except after a pause of PPP that timed out.  (modem_set_mode and its callers)
THEOREM ModeAgreesAlways == Spec => []ModeAgrees
<1>1. Init => OnItsWay
  BY ModemAssumption DEF Init, OnItsWay, LeadsTo
<1>2. TypeOK /\ OnItsWay /\ [Next]_vars => OnItsWay'
  BY OnItsWayStep
<1>3. OnItsWay => ModeAgrees
  BY DEF OnItsWay, LeadsTo, ModeAgrees
<1> QED
  BY <1>1, <1>2, <1>3, TypeCorrect, PTL DEF Spec
=============================================================================
