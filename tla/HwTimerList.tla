---------------------------- MODULE HwTimerList ------------------------------
(***************************************************************************)
(* utils/hwtimer_list/hwtimer_list.c: all software timers of a core share  *)
(* one hardware timer.  The active timers form a list in which each one    *)
(* holds the ticks between its predecessor's expiry and its own; the       *)
(* hardware runs for the head.                                             *)
(*                                                                         *)
(* Every operation runs under int_lock and may come from a thread, from a  *)
(* callback or from an interrupt of higher priority than the timer's: that *)
(* one may even stop or start timers between the entry of the timer        *)
(* interrupt, which clears it, and the handler's own lock, and between two *)
(* callbacks of the handler.                                               *)
(*                                                                         *)
(* Time is counted in ticks of the hardware timer.                         *)
(***************************************************************************)
EXTENDS Integers, Sequences, SequencesExt, FiniteSets

CONSTANTS
    HWTIMER_NUM,  \* number of timers
    Ticks,        \* the delays that timers are started with
    LATENCY,      \* bound on the ticks an expired interrupt waits
    MaxStops      \* bound on the stops of started timers

HAL_TIMER_LOAD_DELTA == 1

ASSUME TimersAssumption == HWTIMER_NUM \in Nat \ {0}
ASSUME TicksAssumption == Ticks \subseteq Nat \ 0 .. HAL_TIMER_LOAD_DELTA - 1
ASSUME BoundAssumption == LATENCY \in Nat /\ MaxStops \in Nat

Timer == 1 .. HWTIMER_NUM
TimerState == {"FREE", "ALLOC", "ACTIVE", "FIRED", "CALLBACK"}

VARIABLES
    state, time,          \* of each timer; time is 0 unless it is active
    active, fired,        \* two of the lists, by timer; those of the third are
                          \* the timers in state FREE, in an order nobody sees
    hw,                   \* the hardware timer
    irq,                  \* the handler: "idle", "entered" or "in_callback"
    stops,                \* number of stops so far
    \* Observations, of each active or fired timer.
    left,                 \* ticks until the expiry its caller asked for
    overdue               \* ticks the head's interrupt was overdue at its start

vars == <<state, time, active, fired, hw, irq, stops, left, overdue>>

(***************************************************************************)
(* The hardware timer, hal_timer.c.  The reload takes HAL_TIMER_LOAD_DELTA *)
(* ticks, which hal_timer_start takes off the load.                        *)
(***************************************************************************)
Off == [on |-> FALSE, load |-> 0, elapsed |-> 0, taken |-> FALSE]
Start(load) == [on |-> TRUE, load |-> load, elapsed |-> 0, taken |-> FALSE]

Larger(a, b) == IF a > b THEN a ELSE b
Smaller(a, b) == IF a < b THEN a ELSE b

Register == IF hw.load > HAL_TIMER_LOAD_DELTA THEN hw.load - HAL_TIMER_LOAD_DELTA
                                              ELSE HAL_TIMER_LOAD_DELTA
Expiry == Register + HAL_TIMER_LOAD_DELTA
Raw == IF hw.elapsed >= Expiry THEN 0
       ELSE Smaller(Larger(hw.load, HAL_TIMER_LOAD_DELTA), Expiry - hw.elapsed)
Pending == hw.on /\ hw.elapsed >= Expiry /\ ~hw.taken

-----------------------------------------------------------------------------
Init ==
    /\ state = [t \in Timer |-> "FREE"]
    /\ time = [t \in Timer |-> 0]
    /\ active = <<>> /\ fired = <<>>
    /\ hw = Off /\ irq = "idle"
    /\ stops = 0
    /\ left = [t \in Timer |-> 0] /\ overdue = [t \in Timer |-> 0]

\* Ticks from the head's expiry to that of the timer at position i.
Behind(i) ==
    LET sum[k \in 0 .. Len(active)] == IF k <= 1 THEN 0 ELSE sum[k - 1] + time[active[k]]
    IN  sum[i]

\* Ticks by which the head has missed its expiry.
Missed == Larger(0, hw.elapsed - time[Head(active)])

hwtimer_alloc(t) ==
    /\ state[t] = "FREE"
    /\ state' = [state EXCEPT ![t] = "ALLOC"]
    /\ UNCHANGED <<time, active, fired, hw, irq, stops, left, overdue>>

hwtimer_free(t) ==
    /\ state[t] = "ALLOC"
    /\ state' = [state EXCEPT ![t] = "FREE"]
    /\ UNCHANGED <<time, active, fired, hw, irq, stops, left, overdue>>

\* hwtimer_start and hwtimer_update_then_start, where the list is empty,
StartFirst(t, ticks) ==
    /\ active = <<>>
    /\ active' = <<t>>
    /\ time' = [time EXCEPT ![t] = ticks]
    /\ hw' = Start(ticks)

\* where the new timer expires before the head,
StartHeadLate(t, ticks) ==  \* mutant: the hardware goes on for the old head
    /\ active # <<>> /\ Raw > ticks
    /\ active' = <<t>> \o active
    /\ time' = [time EXCEPT ![Head(active)] = Raw - ticks, ![t] = ticks]
    /\ UNCHANGED hw
StartHead(t, ticks) ==
    /\ active # <<>> /\ Raw > ticks
    /\ active' = <<t>> \o active
    /\ time' = [time EXCEPT ![Head(active)] = Raw - ticks, ![t] = ticks]
    /\ hw' = Start(ticks)

\* and where it goes behind the head and all that expire before it.
StartBehindKeeps(t, ticks) ==  \* mutant: the next timer keeps its time
    /\ active # <<>> /\ Raw <= ticks
    /\ LET wait == ticks - Raw
           pos  == Cardinality({i \in 2 .. Len(active) : Behind(i) < wait}) + 1
       IN  /\ active' = InsertAt(active, pos + 1, t)
           /\ time' = [time EXCEPT ![t] = wait - Behind(pos)]
    /\ UNCHANGED hw
StartBehind(t, ticks) ==
    /\ active # <<>> /\ Raw <= ticks
    /\ LET wait   == ticks - Raw
           passed == {i \in 2 .. Len(active) : Behind(i) < wait}
           pos    == Cardinality(passed) + 1
           delta  == wait - Behind(pos)
       IN  /\ active' = InsertAt(active, pos + 1, t)
           /\ time' = [u \in Timer |-> IF u = t THEN delta
                                       ELSE IF pos < Len(active) /\ u = active[pos + 1]
                                            THEN time[u] - delta ELSE time[u]]
    /\ UNCHANGED hw

hwtimer_start(t, ticks) ==
    /\ state[t] \in {"ALLOC", "CALLBACK"}
    /\ StartFirst(t, ticks) \/ StartHead(t, ticks) \/ StartBehind(t, ticks)
    /\ state' = [state EXCEPT ![t] = "ACTIVE"]
    /\ left' = [left EXCEPT ![t] = ticks]
    /\ overdue' = [overdue EXCEPT ![t] = IF active = <<>> THEN 0 ELSE
                     Larger(0, hw.elapsed + Raw - time[Head(active)])]
    /\ UNCHANGED <<fired, irq, stops>>

\* The head stops before its expiry: its successor inherits what is left;
SuccessorInherits ==
    /\ Raw > 0
    /\ time' = [time EXCEPT ![active[2]] = @ + Raw, ![active[1]] = 0]

\* or after it: what has passed since then is taken off the successors.
CatchUpOne ==  \* mutant: only the next timer is looked at
    /\ Raw = 0
    /\ time' = [time EXCEPT ![active[2]] = @ - Missed, ![active[1]] = 0]
SuccessorsCatchUp ==
    /\ Raw = 0
    /\ time' = [u \in Timer |->
                  LET i == SelectInSeq(active, LAMBDA v : v = u)
                  IN  IF i = 0 \/ Behind(i - 1) > Missed THEN time[u]
                      ELSE IF Behind(i) <= Missed THEN 0
                      ELSE Behind(i) - Missed]

StopHeadRuns(t) ==  \* mutant: the hardware is not stopped behind the last timer
    /\ t = Head(active)
    /\ active' = Tail(active)
    /\ IF Len(active) = 1
       THEN time' = [time EXCEPT ![t] = 0] /\ UNCHANGED hw
       ELSE (SuccessorInherits \/ SuccessorsCatchUp) /\ hw' = Start(time'[active[2]])
    /\ UNCHANGED fired
StopHeadStops(t) ==  \* mutant: the hardware is not started for the next timer
    /\ t = Head(active)
    /\ active' = Tail(active)
    /\ hw' = Off
    /\ IF Len(active) = 1 THEN time' = [time EXCEPT ![t] = 0]
                          ELSE SuccessorInherits \/ SuccessorsCatchUp
    /\ UNCHANGED fired
StopHead(t) ==
    /\ t = Head(active)
    /\ active' = Tail(active)
    /\ IF Len(active) = 1
       THEN hw' = Off /\ time' = [time EXCEPT ![t] = 0]
       ELSE (SuccessorInherits \/ SuccessorsCatchUp) /\ hw' = Start(time'[active[2]])
    /\ UNCHANGED fired

StopFollowerTakes(t) ==  \* mutant: the next timer does not take over the time
    \E i \in 2 .. Len(active) :
        /\ active[i] = t
        /\ active' = RemoveAt(active, i)
        /\ time' = [time EXCEPT ![t] = 0]
        /\ UNCHANGED <<fired, hw>>
StopFollower(t) ==
    \E i \in 2 .. Len(active) :
        /\ active[i] = t
        /\ active' = RemoveAt(active, i)
        /\ time' = [u \in Timer |-> IF u = t THEN 0
                                   ELSE IF i < Len(active) /\ u = active[i + 1]
                                        THEN time[u] + time[t] ELSE time[u]]
        /\ UNCHANGED <<fired, hw>>

StopFired(t) ==
    /\ \E i \in 1 .. Len(fired) : fired[i] = t /\ fired' = RemoveAt(fired, i)
    /\ UNCHANGED <<active, time, hw>>

hwtimer_stop(t) ==
    /\ stops < MaxStops
    /\ \/ state[t] = "ACTIVE" /\ (StopHead(t) \/ StopFollower(t))
       \/ state[t] = "FIRED" /\ StopFired(t)
    /\ state' = [state EXCEPT ![t] = "ALLOC"]
    /\ left' = [left EXCEPT ![t] = 0] /\ overdue' = [overdue EXCEPT ![t] = 0]
    /\ stops' = stops + 1
    /\ UNCHANGED irq

\* A timer in use cannot be freed: E_HWTIMER_INVAL_ST.
Refused(t) == state[t] \notin {"FREE", "ALLOC"} /\ UNCHANGED vars

-----------------------------------------------------------------------------
(***************************************************************************)
(* The interrupt.                                                          *)
(***************************************************************************)
hal_timer_irq_handler ==
    /\ irq = "idle" /\ Pending
    /\ irq' = "entered"
    /\ hw' = [hw EXCEPT !.taken = TRUE]
    /\ UNCHANGED <<state, time, active, fired, stops, left, overdue>>

\* The timer that the interrupt was for has been stopped meanwhile.
Spurious == active # <<>> => time[Head(active)] > hw.elapsed + HAL_TIMER_LOAD_DELTA

IgnoreIrq ==
    /\ irq = "entered" /\ Spurious
    /\ irq' = "idle"
    /\ UNCHANGED <<state, time, active, fired, hw, stops, left, overdue>>

\* The head and those that have expired with it.
Expired == {i \in 1 .. Len(active) : Behind(i) <= Missed}

\* The loop of the handler takes the next timer to call and unlocks; a timer
\* that is being called is in no list.
Call(due, states) ==
    IF due = <<>>
    THEN state' = states /\ fired' = <<>> /\ irq' = "idle"
    ELSE /\ state' = [states EXCEPT ![Head(due)] = "CALLBACK"]
         /\ fired' = Tail(due)
         /\ irq' = "in_callback"

hwtimer_handler ==
    /\ irq = "entered" /\ ~Spurious
    /\ LET n    == Cardinality(Expired)
           due  == SubSeq(active, 1, n)
           rest == SubSeq(active, n + 1, Len(active))
           over == Missed - Behind(n)
       IN  /\ Call(due, [t \in Timer |-> IF t \in ToSet(due) THEN "FIRED" ELSE state[t]])
           /\ active' = rest
           /\ time' = [t \in Timer |-> IF t \in ToSet(due) THEN 0
                                       ELSE IF rest # <<>> /\ t = Head(rest)
                                            THEN time[t] - over ELSE time[t]]
           /\ hw' = IF rest = <<>> THEN Off ELSE Start(time'[Head(rest)])
    /\ UNCHANGED <<stops, left, overdue>>

\* It may have been started again meanwhile.
CallbackReturns ==
    /\ irq = "in_callback"
    /\ Call(fired, [t \in Timer |-> IF state[t] = "CALLBACK" THEN "ALLOC" ELSE state[t]])
    /\ left' = [t \in Timer |-> IF state[t] = "CALLBACK" THEN 0 ELSE left[t]]
    /\ overdue' = [t \in Timer |-> IF state[t] = "CALLBACK" THEN 0 ELSE overdue[t]]
    /\ UNCHANGED <<time, active, hw, stops>>

\* A tick passes, unless the interrupt has waited for LATENCY ticks.
Tick ==
    /\ hw.on /\ hw.elapsed < Expiry + LATENCY
    /\ hw' = [hw EXCEPT !.elapsed = @ + 1]
    /\ left' = [t \in Timer |-> IF state[t] = "ACTIVE" THEN left[t] - 1 ELSE left[t]]
    /\ UNCHANGED <<state, time, active, fired, irq, stops, overdue>>

Next ==
    \/ \E t \in Timer : \/ hwtimer_alloc(t)
                        \/ hwtimer_free(t)
                        \/ \E ticks \in Ticks : hwtimer_start(t, ticks)
                        \/ hwtimer_stop(t)
                        \/ Refused(t)
    \/ hal_timer_irq_handler \/ IgnoreIrq \/ hwtimer_handler \/ CallbackReturns
    \/ Tick

Spec == Init /\ [][Next]_vars

\* Time passes, interrupts are served and callbacks return.
FairSpec ==
    /\ Spec
    /\ WF_vars(Tick)
    /\ WF_vars(hal_timer_irq_handler \/ IgnoreIrq \/ hwtimer_handler
                 \/ CallbackReturns)
-----------------------------------------------------------------------------
\* Type invariant.
TypeOK ==
    /\ state \in [Timer -> TimerState]
    /\ time \in [Timer -> Nat]
    /\ active \in Seq(Timer) /\ fired \in Seq(Timer)
    /\ hw \in [on : BOOLEAN, load : Nat, elapsed : Nat, taken : BOOLEAN]
    /\ irq \in {"idle", "entered", "in_callback"}
    /\ stops \in 0 .. MaxStops
    /\ left \in [Timer -> Int]
    /\ overdue \in [Timer -> Nat]

\* A timer is in the list that its state names and in no other, once, also
\* when it is stopped while the handler is between two callbacks.
ListsAgree ==
    /\ ToSet(active) = {t \in Timer : state[t] = "ACTIVE"}
    /\ ToSet(fired) = {t \in Timer : state[t] = "FIRED"}
    /\ IsInjective(active) /\ IsInjective(fired)

\* The hardware runs exactly while a timer is active, and with the time of the
\* head, whoever put that timer there: a start, a stop or the handler.
HeadArmed ==
    /\ hw.on <=> active # <<>>
    /\ active # <<>> => hw.load = time[Head(active)]

\* None of the assertions "HWTIMER collapsed" would fail in the next call or in
\* the handler under way.
NoCollapse ==
    /\ active # <<>> =>
         /\ Raw <= time[Head(active)] \/ Raw <= HAL_TIMER_LOAD_DELTA
         /\ Raw = 0 => hw.elapsed + HAL_TIMER_LOAD_DELTA >= time[Head(active)]
    /\ irq = "entered" => IF active = <<>> THEN ~hw.on ELSE Spurious => hw.on
    /\ fired # <<>> => irq = "in_callback"

\* Ticks until the timer at position i expires, if nothing changes.
Remaining(i) == Behind(i) + Larger(hw.load, Expiry) - hw.elapsed

\* A fired timer has waited for what its caller asked.  Two things may shorten
\* that: a start while the head is overdue, since __hwtimer_start_int counts from
\* the expiry of the head; and the stop of a head whose interrupt is under way,
\* which takes the next timer for expired up to HAL_TIMER_LOAD_DELTA too soon.
NeverEarly ==
    \A t \in Timer :
        state[t] \in {"FIRED", "CALLBACK"} =>
            left[t] <= overdue[t] + stops * HAL_TIMER_LOAD_DELTA

\* An active timer expires when its caller asked, up to one load of the hardware
\* timer: however many timers are started and expire before it, the times between
\* them add up.  Only stopping an overdue head restarts the hardware late.
NeverLate ==
    \A i \in 1 .. Len(active) :
        Remaining(i) <= left[active[i]] + HAL_TIMER_LOAD_DELTA
                          + stops * (LATENCY + 2 * HAL_TIMER_LOAD_DELTA)

\* A started timer expires or is stopped.
EventuallyFires == \A t \in Timer : state[t] = "ACTIVE" ~> state[t] # "ACTIVE"
=============================================================================
