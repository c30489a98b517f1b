--------------------------- MODULE BtSync_proofs ----------------------------
(***************************************************************************)
(* Proofs about BtSync, for any number of channels, operations, starts and *)
(* changes of the role.                                                    *)
(*                                                                         *)
(* IInv: no supervision is ever left without a timer or a mail that will   *)
(* end it, for which the mailbox has room.                                 *)
(*                                                                         *)
(* KInv: whom the channels belong to, as long as no operation is started   *)
(* while one of its kind runs.  A trigger that is still to fire, and a     *)
(* supervision that has not been told of the end, are those of the channel *)
(* that is in use by their operation; the timeout is longer than the way   *)
(* to the trigger, so it finds the trigger gone.                           *)
(***************************************************************************)
EXTENDS BtSync, FiniteSetTheorems, SequenceTheorems, WellFoundedInduction, TLAPS

Op == Ops \cup {STREAM}
IsTable(s) == \E X : s \in [1..MAX -> [op : Op, idx : X, ms : Int]]

(* The variables have their types, as far as the proof needs them, and the *)
(* supervisions under way are those of operations.                         *)
Types ==
    /\ loc \in [Channels -> [used : BOOLEAN, op : Op]]
    /\ trigger \in [Channels -> {"off", "set", "due", "missed"}]
    /\ IsTable(st) /\ count \in 0..MAX /\ passed \in Nat
    /\ timer \in Nat \cup {Off}
    /\ mail \in Seq([src : Channels \cup {None}, op : Op])
    /\ thread \in Op
    /\ caller # Nobody => caller.op \in Ops
Active(s, n) == \A i \in 1..n : s[i].op \in Ops /\ s[i].ms \in Nat

(* The thread ends a supervision that there is.                            *)
ThreadKnows == thread # STREAM => Supervised(thread) # {}

(* Watched, with a timer that runs.                                        *)
Told == \E k \in DOMAIN mail : Supervised(mail[k].op) # {}
Runs == timer \in Nat /\ timer = st[1].ms - passed
WatchedRuns == count > 0 /\ ~panic => Runs \/ thread # STREAM \/ Told

(* The mailbox has room for every trigger that is due and for the timer.   *)
Due(t) == {i \in Channels : t[i] = "due"}
Expiring == IF timer = 0 THEN 1 ELSE 0
Room == ~panic => Len(mail) + Cardinality(Due(trigger)) + Expiring <= MAX + 1

IInv == Types /\ Active(st, count) /\ ThreadKnows /\ WatchedRuns /\ Room

LEMMA InvImplies == IInv => Watched
BY DEF IInv, WatchedRuns, Runs, Told, Watched

-----------------------------------------------------------------------------
(***************************************************************************)
(* The mailbox                                                             *)
(***************************************************************************)

LEMMA ChannelsFinite == IsFiniteSet(Channels) /\ Cardinality(Channels) = MAX
<1>1. /\ IsFiniteSet(0 .. (MAX - 1))
      /\ Cardinality(0 .. (MAX - 1)) = IF 0 > MAX - 1 THEN 0 ELSE (MAX - 1) - 0 + 1
    BY FS_Interval, BtSyncAssumption
<1> QED BY <1>1, BtSyncAssumption DEF Channels

LEMMA DueFinite ==
    ASSUME NEW t
    PROVE  IsFiniteSet(Due(t)) /\ Cardinality(Due(t)) \in Nat /\ Cardinality(Due(t)) <= MAX
<1>1. Due(t) \in SUBSET Channels
    BY DEF Due
<1> QED BY <1>1, ChannelsFinite, FS_Subset, FS_CardinalityType

(* An empty mailbox has room: what the threads of lower priority do, they  *)
(* do while it is empty.                                                   *)
LEMMA QuietRoom == Quiet /\ mail' = mail => Room'
<1> SUFFICES ASSUME mail' = <<>> PROVE Room'
    BY DEF Quiet
<1> QED BY DueFinite, BtSyncAssumption DEF Room, Expiring

LEMMA Posted ==
    ASSUME IInv, NEW src \in Channels \cup {None}, NEW op \in Op, Post(src, op)
    PROVE  /\ mail' \in Seq([src : Channels \cup {None}, op : Op])
           /\ Len(mail') \in Nat /\ Len(mail') <= Len(mail) + 1
           /\ DOMAIN mail \subseteq DOMAIN mail'
           /\ \A k \in DOMAIN mail : mail'[k] = mail[k]
           /\ Len(mail) < MAILS => /\ Len(mail) + 1 \in DOMAIN mail'
                                   /\ mail'[Len(mail) + 1].op = op
<1> DEFINE M == [src : Channels \cup {None}, op : Op]
           m == [src |-> src, op |-> op]
<1>1. mail \in Seq(M) /\ Len(mail) \in Nat /\ DOMAIN mail = 1 .. Len(mail)
    BY LenProperties DEF IInv, Types
<1>2. m \in M
    OBVIOUS
<1>3. CASE Len(mail) < MAILS
    <2>1. mail' = Append(mail, m)
        BY <1>3 DEF Post
    <2>2. /\ Append(mail, m) \in Seq(M) /\ Len(Append(mail, m)) = Len(mail) + 1
          /\ \A k \in 1 .. Len(mail) : Append(mail, m)[k] = mail[k]
          /\ Append(mail, m)[Len(mail) + 1] = m
        BY <1>1, <1>2, AppendProperties
    <2>3. DOMAIN mail' = 1 .. Len(mail) + 1
        BY <2>1, <2>2, LenProperties
    <2> QED BY <1>1, <2>1, <2>2, <2>3
<1>4. CASE ~(Len(mail) < MAILS)
    BY <1>1, <1>4 DEF Post
<1> QED BY <1>3, <1>4

-----------------------------------------------------------------------------
(***************************************************************************)
(* The steps                                                               *)
(***************************************************************************)

LEMMA InitInv == Init => IInv
<1> SUFFICES ASSUME Init PROVE IInv
    OBVIOUS
<1>1. Types
    <2>1. st \in [1..MAX -> [op : Op, idx : {0}, ms : Int]]
        BY DEF Init, Op
    <2> QED BY <2>1, BtSyncAssumption DEF Init, Types, IsTable, Op, Off, Nobody
<1>2. Room
    BY DueFinite, BtSyncAssumption DEF Init, Room, Expiring, Off
<1> QED BY <1>1, <1>2 DEF Init, IInv, Active, ThreadKnows, WatchedRuns

(* A step that leaves the supervisions, the timer and the thread as they   *)
(* are, and takes no mail away.                                            *)
Aside ==
    /\ UNCHANGED <<st, count, passed, timer, thread, panic>>
    /\ DOMAIN mail \subseteq DOMAIN mail' /\ \A k \in DOMAIN mail : mail'[k] = mail[k]

LEMMA AsideWatches ==
    ASSUME IInv, Aside
    PROVE  Active(st', count') /\ ThreadKnows' /\ WatchedRuns'
<1>1. \A op : Supervised(op)' = Supervised(op)
    BY DEF Aside, Supervised
<1>2. Told => Told'
    BY <1>1 DEF Aside, Told
<1> QED BY <1>1, <1>2 DEF IInv, Aside, Active, ThreadKnows, WatchedRuns, Runs

(* Channels are taken and given back; operations are started.              *)
LEMMA TakeTypes ==
    ASSUME IInv, NEW i, NEW op \in Op, Take(i, op)
    PROVE  loc' \in [Channels -> [used : BOOLEAN, op : Op]]
<1>1. [used |-> TRUE, op |-> op] \in [used : BOOLEAN, op : Op]
    OBVIOUS
<1> QED BY <1>1 DEF Take, IInv, Types

LEMMA EnableInv == ASSUME IInv, NEW op \in Ops, Enable(op) PROVE IInv'
<1>1. /\ UNCHANGED <<st, count, passed, timer, mail, thread, panic>>
      /\ Quiet
    BY DEF Enable, supVars
<1>2. Types'
    <2>1. loc' \in [Channels -> [used : BOOLEAN, op : Op]]
        BY TakeTypes DEF Enable, IInv, Types, Op
    <2>2. trigger' \in [Channels -> {"off", "set", "due", "missed"}]
        BY DEF Enable, Program, IInv, Types
    <2>3. caller' # Nobody => caller'.op \in Ops
        BY DEF Enable, IInv, Types
    <2> QED BY <1>1, <2>1, <2>2, <2>3 DEF IInv, Types
<1>3. Aside
    BY <1>1 DEF Aside
<1> QED BY <1>1, <1>2, <1>3, AsideWatches, QuietRoom DEF IInv

LEMMA StreamsInv ==
    ASSUME IInv, StreamTake \/ (\E i \in Channels : StreamRelease(i)) \/ Switch
    PROVE  IInv'
<1>1. /\ UNCHANGED <<st, count, passed, timer, mail, thread, panic, trigger, caller>>
      /\ Quiet
    BY DEF StreamTake, StreamRelease, Switch, supVars
<1>2. loc' \in [Channels -> [used : BOOLEAN, op : Op]]
    <2>1. CASE StreamTake
        BY <2>1, TakeTypes DEF StreamTake, Op
    <2>2. CASE \E i \in Channels : StreamRelease(i)
        BY <2>2 DEF StreamRelease, IInv, Types
    <2>3. CASE Switch
        BY <2>3 DEF Switch, IInv, Types
    <2> QED BY <2>1, <2>2, <2>3
<1>3. Types'
    BY <1>1, <1>2 DEF IInv, Types
<1>4. Aside
    BY <1>1 DEF Aside
<1> QED BY <1>1, <1>3, <1>4, AsideWatches, QuietRoom DEF IInv

LEMMA CommandInv == ASSUME IInv, NEW op \in Ops, Command(op) PROVE IInv'
<1> DEFINE i == Available(op)
           at == Min(Supervised(op))
<1>1. /\ UNCHANGED <<count, passed, timer, mail, thread, caller, panic>>
      /\ Quiet
    BY DEF Command
<1>2. st' = st \/ st' = [st EXCEPT ![at].idx = i]
    BY DEF Command
<1>3. PICK X : st \in [1..MAX -> [op : Op, idx : X, ms : Int]]
    BY DEF IInv, Types, IsTable
<1> HIDE DEF i, at
<1>4. st' \in [1..MAX -> [op : Op, idx : X \cup {i}, ms : Int]]
    BY <1>2, <1>3
<1>5. \A k \in 1..MAX : st'[k].op = st[k].op /\ st'[k].ms = st[k].ms
    BY <1>2, <1>3
<1>6. Types'
    <2>1. loc' \in [Channels -> [used : BOOLEAN, op : Op]]
        <3>1. CASE i = None
            BY <3>1 DEF Command, IInv, Types, i
        <3>2. CASE i # None
            BY <3>2, TakeTypes DEF Command, Op, i
        <3> QED BY <3>1, <3>2
    <2>2. trigger' \in [Channels -> {"off", "set", "due", "missed"}]
        BY DEF Command, Program, IInv, Types
    <2> QED BY <1>1, <1>4, <2>1, <2>2 DEF IInv, Types, IsTable
<1>7. Active(st', count') /\ WatchedRuns'
    <2>1. 1..count \subseteq 1..MAX /\ (count > 0 => 1 \in 1..count)
        BY BtSyncAssumption DEF IInv, Types
    <2>2. Active(st', count')
        BY <1>1, <1>5, <2>1 DEF IInv, Active
    <2>3. count > 0 /\ ~panic => Runs
        <3>1. thread = STREAM /\ ~Told
            BY <1>1 DEF Quiet, Told
        <3> QED BY <3>1 DEF IInv, WatchedRuns
    <2> QED BY <1>1, <1>5, <2>1, <2>2, <2>3 DEF WatchedRuns, Runs
<1>8. ThreadKnows'
    BY <1>1 DEF Quiet, ThreadKnows
<1> QED BY <1>1, <1>6, <1>7, <1>8, QuietRoom DEF IInv

(* The supervision is added, and the timer runs for the first.             *)
LEMMA AddInv == ASSUME IInv, Add PROVE IInv'
<1> DEFINE e == [op |-> caller.op, idx |-> caller.idx, ms |-> TIMEOUT]
           s == [Refreshed(st, count) EXCEPT ![count + 1] = e]
<1>1. /\ UNCHANGED <<loc, trigger, mail, thread>>
      /\ Quiet /\ caller # Nobody /\ caller' = Nobody
    BY DEF Add
<1>2. ThreadKnows' /\ Room'
    BY <1>1, QuietRoom DEF ThreadKnows, Quiet
<1>3. PICK X : st \in [1..MAX -> [op : Op, idx : X, ms : Int]]
    BY DEF IInv, Types, IsTable
<1>4. /\ count \in 0..MAX /\ MAX \in Nat /\ passed \in Nat
      /\ caller.op \in Ops /\ TIMEOUT \in Nat
    BY <1>1, BtSyncAssumption DEF IInv, Types
<1>5. CASE count < MAX /\ ~Missed(st, count)
    <2>1. st' = s /\ count' = count + 1 /\ passed' = 0 /\ timer' = s[1].ms
        <3>1. ~(count = MAX \/ Missed(st, count))
            BY <1>4, <1>5
        <3> QED BY <3>1 DEF Add
    <2>2. Refreshed(st, count) \in [1..MAX -> [op : Op, idx : X, ms : Int]]
        BY <1>3, <1>4 DEF Refreshed
    <2>3. e \in [op : Op, idx : X \cup {caller.idx}, ms : Int] /\ e.op \in Ops /\ e.ms \in Nat
        BY <1>4 DEF Op
    <2> HIDE DEF e
    <2>4. s \in [1..MAX -> [op : Op, idx : X \cup {caller.idx}, ms : Int]]
        BY <2>2, <2>3
    <2>5. ASSUME NEW k \in 1..count + 1 PROVE s[k].op \in Ops /\ s[k].ms \in Nat
        <3>1. CASE k = count + 1
            <4>1. k \in 1..MAX
                BY <1>4, <1>5, <3>1
            <4>2. s[k] = e
                BY <2>2, <3>1, <4>1
            <4> QED BY <2>3, <4>2
        <3>2. CASE k # count + 1
            <4>1. k \in 1..count /\ k \in 1..MAX
                BY <1>4, <3>2
            <4>2. s[k] = [st[k] EXCEPT !.ms = @ - passed]
                BY <1>3, <2>2, <3>2, <4>1 DEF Refreshed
            <4>3. st[k] \in [op : Op, idx : X, ms : Int] /\ st[k].op \in Ops /\ st[k].ms \in Nat
                BY <1>3, <4>1 DEF IInv, Active
            <4>4. ~(st[k].ms <= passed)
                BY <1>5, <4>1 DEF Missed
            <4>5. s[k].op = st[k].op /\ s[k].ms = st[k].ms - passed
                BY <4>2, <4>3
            <4> QED BY <1>4, <4>3, <4>4, <4>5
        <3> QED BY <3>1, <3>2
    <2> HIDE DEF s
    <2>6. s[1].ms \in Nat
        BY <1>4, <2>5
    <2>7. Types'
        <3>1. IsTable(st') /\ count' \in 0..MAX /\ passed' \in Nat /\ timer' \in Nat
            <4>1. IsTable(st')
                BY <2>1, <2>4 DEF IsTable
            <4> QED BY <1>4, <1>5, <2>1, <2>6, <4>1
        <3> QED BY <1>1, <3>1 DEF IInv, Types
    <2>8. Active(st', count')
        BY <2>1, <2>5 DEF Active
    <2>9. WatchedRuns'
        BY <2>1, <2>6 DEF WatchedRuns, Runs
    <2> QED BY <1>2, <2>7, <2>8, <2>9 DEF IInv
<1>6. CASE count = MAX \/ Missed(st, count)
    <2>1. ~(count < MAX /\ ~Missed(st, count))
        BY <1>4, <1>6
    <2>2. UNCHANGED <<st, count, passed, timer>> /\ panic'
        BY <2>1 DEF Add, supVars
    <2> QED BY <1>1, <1>2, <2>2 DEF IInv, Types, Active, WatchedRuns
<1> QED BY <1>4, <1>5, <1>6

(* Time passes while nothing is due: the timer counts what passed counts.  *)
LEMMA TickInv == ASSUME IInv, Tick PROVE IInv'
<1>1. /\ UNCHANGED <<loc, st, count, mail, thread, caller, panic>>
      /\ Quiet /\ timer # 0
      /\ timer' = IF timer = Off THEN Off ELSE timer - 1
      /\ passed' = IF count > 0 THEN passed + 1 ELSE passed
      /\ trigger' = [i \in Channels |-> IF trigger[i] = "set" THEN "due" ELSE trigger[i]]
    BY DEF Tick
<1>2. Types'
    <2>1. timer' \in Nat \cup {Off} /\ passed' \in Nat
        BY <1>1 DEF IInv, Types, Off
    <2>2. trigger' \in [Channels -> {"off", "set", "due", "missed"}]
        BY <1>1 DEF IInv, Types
    <2> QED BY <1>1, <2>1, <2>2 DEF IInv, Types
<1>3. Active(st', count') /\ ThreadKnows'
    BY <1>1 DEF IInv, Active, Quiet, ThreadKnows
<1>4. WatchedRuns'
    <2> SUFFICES ASSUME count > 0, ~panic PROVE Runs'
        BY <1>1 DEF WatchedRuns
    <2>1. thread = STREAM /\ ~Told
        BY <1>1 DEF Quiet, Told
    <2>2. timer \in Nat /\ timer = st[1].ms - passed
        BY <2>1 DEF IInv, WatchedRuns, Runs
    <2>3. st[1].ms \in Nat /\ passed \in Nat
        <3>1. 1 \in 1..count
            BY DEF IInv, Types
        <3> QED BY <3>1 DEF IInv, Active, Types
    <2>4. timer' = timer - 1 /\ passed' = passed + 1
        BY <1>1, <2>2 DEF Off
    <2> QED BY <1>1, <2>2, <2>3, <2>4 DEF Runs
<1> QED BY <1>1, <1>2, <1>3, <1>4, QuietRoom DEF IInv

-----------------------------------------------------------------------------
(* The trigger and the timer post a mail, for which there is room.         *)
LEMMA IrqInv == ASSUME IInv, NEW i \in Channels, Irq(i) PROVE IInv'
<1>1. /\ UNCHANGED <<st, count, passed, timer, thread, caller, panic>> /\ ~panic
      /\ trigger[i] = "due" /\ trigger' = [trigger EXCEPT ![i] = "off"]
      /\ loc' = [loc EXCEPT ![i].used = FALSE]
      /\ Post(i, loc[i].op)
    BY DEF Irq, supVars
<1>2. loc[i].op \in Op /\ i \in Channels \cup {None}
    BY DEF IInv, Types
<1>3. /\ mail' \in Seq([src : Channels \cup {None}, op : Op])
      /\ Len(mail') \in Nat /\ Len(mail') <= Len(mail) + 1
      /\ DOMAIN mail \subseteq DOMAIN mail'
      /\ \A k \in DOMAIN mail : mail'[k] = mail[k]
    BY <1>1, <1>2, Posted
<1>4. Types'
    <2>1. loc' \in [Channels -> [used : BOOLEAN, op : Op]]
        BY <1>1 DEF IInv, Types
    <2>2. trigger' \in [Channels -> {"off", "set", "due", "missed"}]
        BY <1>1 DEF IInv, Types
    <2> QED BY <1>1, <1>3, <2>1, <2>2 DEF IInv, Types
<1>5. Room'
    <2>1. Due(trigger') = Due(trigger) \ {i} /\ i \in Due(trigger)
        BY <1>1 DEF IInv, Types, Due
    <2>2. Cardinality(Due(trigger')) = Cardinality(Due(trigger)) - 1
        BY <2>1, DueFinite, FS_RemoveElement
    <2>3. Len(mail) \in Nat
        BY LenProperties DEF IInv, Types
    <2>4. Len(mail) + Cardinality(Due(trigger)) + Expiring <= MAX + 1
        BY <1>1 DEF IInv, Room
    <2>5. Expiring' = Expiring /\ Expiring \in Nat
        BY <1>1 DEF Expiring
    <2> QED BY <1>3, <2>2, <2>3, <2>4, <2>5, DueFinite, BtSyncAssumption DEF Room
<1>6. Aside
    BY <1>1, <1>3 DEF Aside
<1> QED BY <1>4, <1>5, <1>6, AsideWatches DEF IInv

LEMMA ExpireInv == ASSUME IInv, Expire PROVE IInv'
<1>1. /\ UNCHANGED <<st, count, passed, thread, caller, trigger>> /\ ~panic
      /\ timer = 0 /\ timer' = Off
      /\ loc' = IF st[1].idx = None THEN loc ELSE [loc EXCEPT ![st[1].idx].used = FALSE]
      /\ Post(None, st[1].op)
    BY DEF Expire
<1>2. st[1].op \in Op
    <2>1. 1 \in 1..MAX
        BY BtSyncAssumption
    <2> QED BY <2>1 DEF IInv, Types, IsTable
<1>3. Len(mail) \in Nat /\ Len(mail) < MAILS
    <2>1. Len(mail) \in Nat
        BY LenProperties DEF IInv, Types
    <2>2. Len(mail) + Cardinality(Due(trigger)) + 1 <= MAX + 1
        BY <1>1 DEF IInv, Room, Expiring
    <2> QED BY <2>1, <2>2, DueFinite, BtSyncAssumption
<1>4. /\ mail' \in Seq([src : Channels \cup {None}, op : Op])
      /\ Len(mail') \in Nat /\ Len(mail') <= Len(mail) + 1
      /\ Len(mail) + 1 \in DOMAIN mail' /\ mail'[Len(mail) + 1].op = st[1].op
    BY <1>1, <1>2, <1>3, Posted
<1>5. Types'
    <2>1. loc' \in [Channels -> [used : BOOLEAN, op : Op]]
        BY <1>1 DEF IInv, Types
    <2> QED BY <1>1, <1>4, <2>1 DEF IInv, Types
<1>6. Active(st', count') /\ ThreadKnows'
    BY <1>1 DEF IInv, Active, ThreadKnows, Supervised
<1>7. WatchedRuns'
    <2> SUFFICES ASSUME count > 0 PROVE Told'
        BY <1>1 DEF WatchedRuns
    <2>1. 1 \in 1..count' /\ st' = st
        BY <1>1 DEF IInv, Types
    <2> QED BY <1>4, <2>1 DEF Told, Supervised
<1>8. Room'
    <2>1. Len(mail) + Cardinality(Due(trigger)) + 1 <= MAX + 1
        BY <1>1 DEF IInv, Room, Expiring
    <2>2. Expiring' = 0
        BY <1>1 DEF Expiring, Off
    <2> QED BY <1>1, <1>3, <1>4, <2>1, <2>2, DueFinite, BtSyncAssumption DEF Room
<1> QED BY <1>5, <1>6, <1>7, <1>8 DEF IInv

(* The thread takes a mail and looks up what it is about.                  *)
LEMMA TakeMailInv == ASSUME IInv, TakeMail PROVE IInv'
<1> DEFINE M == [src : Channels \cup {None}, op : Op]
<1>1. /\ UNCHANGED <<loc, st, count, passed, timer, trigger, caller, panic>> /\ ~panic
      /\ thread = STREAM /\ mail # <<>> /\ mail' = Tail(mail)
      /\ thread' = IF Supervised(Head(mail).op) # {} THEN Head(mail).op ELSE STREAM
    BY DEF TakeMail, supVars
<1>2. /\ mail \in Seq(M) /\ Len(mail) \in Nat /\ DOMAIN mail = 1 .. Len(mail)
      /\ Head(mail) = mail[1] /\ Head(mail) \in M
      /\ mail' \in Seq(M) /\ Len(mail') = Len(mail) - 1
      /\ DOMAIN mail' = 1 .. Len(mail) - 1
      /\ \A k \in 1 .. Len(mail) - 1 : mail'[k] = mail[k + 1]
    <2>1. mail \in Seq(M)
        BY DEF IInv, Types
    <2> HIDE DEF M
    <2>2. /\ Head(mail) \in M /\ Tail(mail) \in Seq(M)
          /\ Len(Tail(mail)) = Len(mail) - 1
          /\ \A k \in 1 .. Len(Tail(mail)) : Tail(mail)[k] = mail[k + 1]
        BY <1>1, <2>1, HeadTailProperties
    <2>3. Len(mail) \in Nat /\ DOMAIN mail = 1 .. Len(mail)
        BY <2>1, LenProperties
    <2>4. DOMAIN mail' = 1 .. Len(mail')
        BY <1>1, <2>2, LenProperties
    <2>5. Head(mail) = mail[1]
        BY <1>1, <2>1
    <2> QED BY <1>1, <2>1, <2>2, <2>3, <2>4, <2>5
<1>3. Types'
    BY <1>1, <1>2 DEF IInv, Types, Op
<1>4. \A op : Supervised(op)' = Supervised(op)
    BY <1>1 DEF Supervised
<1>5. Active(st', count') /\ ThreadKnows'
    BY <1>1, <1>4 DEF IInv, Active, ThreadKnows
<1>6. WatchedRuns'
    <2> SUFFICES ASSUME count > 0, thread' = STREAM PROVE Runs' \/ Told'
        BY <1>1 DEF WatchedRuns
    <2>1. CASE Runs
        BY <1>1, <2>1 DEF Runs
    <2>2. CASE Told
        <3>1. PICK k \in DOMAIN mail : Supervised(mail[k].op) # {}
            BY <2>2 DEF Told
        <3>2. PICK j \in Supervised(mail[k].op) : TRUE
            BY <3>1
        <3>3. j \in 1..count /\ st[j].op = mail[k].op /\ st[j].op \in Ops
            BY <3>2 DEF Supervised, IInv, Active
        <3>4. k # 1
            BY <1>1, <1>2, <3>1, <3>3, BtSyncAssumption
        <3>5. k - 1 \in DOMAIN mail' /\ mail'[k - 1] = mail[k]
            BY <1>2, <3>4
        <3> QED BY <1>4, <3>1, <3>5 DEF Told
    <2> QED BY <1>1, <2>1, <2>2 DEF IInv, WatchedRuns
<1>7. Room'
    <2>1. Len(mail) + Cardinality(Due(trigger)) + Expiring <= MAX + 1
        BY <1>1 DEF IInv, Room
    <2>2. Expiring' = Expiring /\ Expiring \in Nat
        BY <1>1 DEF Expiring
    <2> QED BY <1>1, <1>2, <2>1, <2>2, DueFinite, BtSyncAssumption DEF Room
<1> QED BY <1>3, <1>5, <1>6, <1>7 DEF IInv

(* The thread ends the supervision, and the timer runs for the next.       *)
LEMMA RemoveInv == ASSUME IInv, Remove PROVE IInv'
<1> DEFINE s == Removed(thread)
           n == count - 1
<1>1. /\ UNCHANGED <<loc, trigger, mail, caller>> /\ ~panic
      /\ thread # STREAM /\ thread' = STREAM /\ count' = n
    BY DEF Remove
<1>2. PICK X : st \in [1..MAX -> [op : Op, idx : X, ms : Int]]
    BY DEF IInv, Types, IsTable
<1>3. count \in 0..MAX /\ count > 0 /\ MAX \in Nat /\ passed \in Nat /\ timer \in Nat \cup {Off}
    <2>1. count \in 0..MAX /\ MAX \in Nat /\ passed \in Nat /\ timer \in Nat \cup {Off}
        BY BtSyncAssumption DEF IInv, Types
    <2>2. PICK j \in Supervised(thread) : TRUE
        BY <1>1 DEF IInv, ThreadKnows
    <2> QED BY <2>1, <2>2 DEF Supervised
<1>4. /\ s \in [1..MAX -> [op : Op, idx : X, ms : Int]]
      /\ \A k \in 1..n : s[k].op \in Ops /\ s[k].ms \in Nat
    <2> DEFINE at == Min(Supervised(thread))
    <2>1. s = [k \in 1..MAX |-> IF k \in at .. (count - 1) THEN st[k + 1] ELSE st[k]]
        BY <1>2 DEF Removed
    <2> HIDE DEF at, s
    <2>2. ASSUME NEW k \in 1..MAX, k \in at .. (count - 1)
          PROVE k + 1 \in 1..MAX /\ k + 1 \in 1..count /\ s[k] = st[k + 1]
        BY <1>3, <2>1, <2>2
    <2>3. ASSUME NEW k \in 1..MAX, k \notin at .. (count - 1)
          PROVE s[k] = st[k]
        BY <2>1, <2>3
    <2>4. ASSUME NEW k \in 1..MAX PROVE s[k] \in [op : Op, idx : X, ms : Int]
        BY <1>2, <2>2, <2>3
    <2>5. ASSUME NEW k \in 1..n PROVE s[k].op \in Ops /\ s[k].ms \in Nat
        <3>1. k \in 1..MAX /\ k \in 1..count
            BY <1>3
        <3>2. \A j \in 1..count : st[j].op \in Ops /\ st[j].ms \in Nat
            BY DEF IInv, Active
        <3> QED BY <2>2, <2>3, <3>1, <3>2
    <2> QED BY <2>1, <2>4, <2>5
<1> HIDE DEF s
<1>5. ThreadKnows'
    BY <1>1 DEF ThreadKnows
<1>6. CASE n > 0 /\ ~Missed(s, n)
    <2>1. st' = Refreshed(s, n) /\ passed' = 0 /\ timer' = st'[1].ms /\ panic' = panic
        BY <1>6, <1>3 DEF Remove, Rearmed, s
    <2>2. st' = [k \in 1..MAX |-> IF k \in 1..n THEN [s[k] EXCEPT !.ms = @ - passed] ELSE s[k]]
        BY <1>4, <2>1 DEF Refreshed
    <2>3. ASSUME NEW k \in 1..n
          PROVE k \in 1..MAX /\ st'[k].op \in Ops /\ st'[k].ms \in Nat /\ st'[k].ms > 0
        <3>1. k \in 1..MAX
            BY <1>3
        <3>2. s[k].ms > passed
            BY <1>3, <1>4, <1>6 DEF Missed
        <3>3. s[k] \in [op : Op, idx : X, ms : Int]
            BY <1>4, <3>1
        <3>4. st'[k] = [s[k] EXCEPT !.ms = @ - passed]
            BY <2>2, <3>1
        <3>5. st'[k].op = s[k].op /\ st'[k].ms = s[k].ms - passed
            BY <3>3, <3>4
        <3> QED BY <1>3, <1>4, <3>1, <3>2, <3>5
    <2>4. st' \in [1..MAX -> [op : Op, idx : X, ms : Int]]
        <3>1. ASSUME NEW k \in 1..MAX
              PROVE [s[k] EXCEPT !.ms = @ - passed] \in [op : Op, idx : X, ms : Int]
            <4>1. s[k] \in [op : Op, idx : X, ms : Int]
                BY <1>4
            <4> QED BY <1>3, <4>1
        <3> QED BY <1>4, <2>2, <3>1
    <2>5. 1 \in 1..n
        BY <1>3, <1>6
    <2>6. timer' \in Nat /\ timer' > 0
        BY <2>1, <2>3, <2>5
    <2>7. Types'
        <3>1. IsTable(st')
            BY <2>4 DEF IsTable
        <3>2. count' \in 0..MAX /\ passed' \in Nat /\ timer' \in Nat \cup {Off}
            BY <1>1, <1>3, <1>6, <2>1, <2>6
        <3>3. thread' \in Op
            BY <1>1 DEF Op
        <3> QED BY <1>1, <3>1, <3>2, <3>3 DEF IInv, Types
    <2>8. Active(st', count')
        BY <1>1, <2>3 DEF Active
    <2>9. WatchedRuns'
        <3>1. st'[1].ms \in Nat /\ timer' = st'[1].ms /\ passed' = 0
            BY <2>1, <2>3, <2>5
        <3> QED BY <3>1 DEF WatchedRuns, Runs
    <2>10. Room'
        <3>1. Expiring' = 0
            BY <2>6 DEF Expiring
        <3>2. Len(mail) + Cardinality(Due(trigger)) + Expiring <= MAX + 1
            BY <1>1 DEF IInv, Room
        <3>3. Expiring \in Nat /\ Len(mail) \in Nat
            BY LenProperties DEF Expiring, IInv, Types
        <3> QED BY <1>1, <1>3, <3>1, <3>2, <3>3, DueFinite DEF Room
    <2> QED BY <1>5, <2>7, <2>8, <2>9, <2>10 DEF IInv
<1>7. CASE n > 0 /\ Missed(s, n)
    <2>1. panic' /\ st' = s /\ passed' = passed /\ timer' = timer
        BY <1>3, <1>7 DEF Remove, s
    <2>2. Types' /\ Active(st', count')
        <3>1. IsTable(st') /\ Active(st', count')
            BY <1>1, <1>4, <2>1 DEF IsTable, Active
        <3>2. count' \in 0..MAX /\ thread' \in Op
            BY <1>1, <1>3, <1>7 DEF Op
        <3> QED BY <1>1, <1>3, <2>1, <3>1, <3>2 DEF IInv, Types
    <2> QED BY <1>5, <2>1, <2>2 DEF IInv, WatchedRuns, Room
<1>8. CASE n = 0
    <2>1. st' = s /\ timer' = Off /\ passed' = passed /\ panic' = panic
        BY <1>3, <1>8 DEF Remove, s
    <2>2. Types' /\ Active(st', count')
        <3>1. IsTable(st') /\ Active(st', count')
            BY <1>1, <1>4, <2>1 DEF IsTable, Active
        <3>2. count' \in 0..MAX /\ thread' \in Op
            BY <1>1, <1>3, <1>8 DEF Op
        <3> QED BY <1>1, <1>3, <2>1, <3>1, <3>2 DEF IInv, Types
    <2>3. WatchedRuns'
        BY <1>1, <1>8 DEF WatchedRuns
    <2>4. Room'
        <3>1. Expiring' = 0
            BY <2>1 DEF Expiring, Off
        <3>2. Len(mail) + Cardinality(Due(trigger)) + Expiring <= MAX + 1
            BY <1>1 DEF IInv, Room
        <3>3. Expiring \in Nat /\ Len(mail) \in Nat
            BY LenProperties DEF Expiring, IInv, Types
        <3> QED BY <1>1, <1>3, <3>1, <3>2, <3>3, DueFinite DEF Room
    <2> QED BY <1>5, <2>2, <2>3, <2>4 DEF IInv
<1> QED BY <1>3, <1>6, <1>7, <1>8

LEMMA StutterInv == IInv /\ UNCHANGED vars => IInv'
<1> SUFFICES ASSUME IInv, UNCHANGED vars PROVE IInv'
    OBVIOUS
<1>1. UNCHANGED <<loc, trigger, st, count, passed, timer, mail, thread, caller, panic>>
    BY DEF vars, supVars
<1> QED BY <1>1 DEF IInv, Types, Active, ThreadKnows, Supervised, WatchedRuns, Runs, Told,
                    Room, Expiring

-----------------------------------------------------------------------------
(***************************************************************************)
(* No supervision is left.                                                 *)
(***************************************************************************)

LEMMA StepInv == IInv /\ [Next]_vars => IInv'
<1> SUFFICES ASSUME IInv, [Next]_vars PROVE IInv'
    OBVIOUS
<1>1. CASE Work
    BY <1>1, AddInv, ExpireInv, TakeMailInv, RemoveInv, TickInv, IrqInv DEF Work
<1>2. CASE \E op \in Ops : Enable(op) \/ Command(op)
    BY <1>2, EnableInv, CommandInv
<1>3. CASE StreamTake \/ (\E i \in Channels : StreamRelease(i)) \/ Switch
    BY <1>3, StreamsInv
<1>4. CASE UNCHANGED vars
    BY <1>4, StutterInv
<1> QED BY <1>1, <1>2, <1>3, <1>4 DEF Next

LEMMA AlwaysInv == Spec => []IInv
BY InitInv, StepInv, PTL DEF Spec

(* For any number of channels, operations and starts, every supervision    *)
(* has its timer running for the time it is given, or a mail on its way to *)
(* the thread (app_bt_sync_remove_waiting_rsp_timeout_supervision).        *)
THEOREM AlwaysWatched == Spec => []Watched
BY AlwaysInv, InvImplies, PTL

-----------------------------------------------------------------------------
(***************************************************************************)
(* Whom the channels belong to.                                            *)
(***************************************************************************)

(* A channel is in use by an operation, or by a stream.                    *)
Uses(i, op) == loc[i].used /\ loc[i].op = op

(* No operation has two channels, or two supervisions.                     *)
OneEach ==
    /\ \A i, j \in Channels : loc[i].used /\ Uses(j, loc[i].op) /\ loc[i].op \in Ops => i = j
    /\ \A k, l \in 1..count : st[k].op = st[l].op => k = l

(* No trigger will fire on the channel of a stream.                        *)
StreamsKeep ==
    \A i \in held : i \in Channels /\ Uses(i, STREAM) /\ trigger[i] \notin {"set", "due"}

(* A trigger that will fire is that of an operation that has the channel.  *)
TriggersOwned ==
    \A i \in Channels : trigger[i] \in {"set", "due"} => loc[i].used /\ loc[i].op \in Ops

(* The channel of a supervision is in use by its operation, or was freed   *)
(* last and the thread has been told.                                      *)
ToldOf(op) == thread = op \/ \E k \in DOMAIN mail : mail[k].op = op
OwnChannels ==
    \A k \in 1..count :
        /\ st[k].idx \in Channels /\ loc[st[k].idx].op = st[k].op
        /\ loc[st[k].idx].used \/ ToldOf(st[k].op)

(* So is that of the operation that is still to be supervised.             *)
CallersChannel ==
    caller # Nobody =>
        /\ caller.idx \in Channels /\ Uses(caller.idx, caller.op)
        /\ Supervised(caller.op) = {}
        /\ trigger[caller.idx] # "due"

(* The trigger comes before the timeout.                                   *)
TriggersFirst ==
    \A k \in 1..count :
        /\ trigger[st[k].idx] = "set" => st[k].ms - passed >= TIMEOUT
        /\ trigger[st[k].idx] = "due" => st[k].ms - passed >= TIMEOUT - 1

(* The timer that runs is that of the first supervision.                   *)
TimerOfFirst == ~panic /\ timer # Off => count > 0 /\ timer = st[1].ms - passed

Kept == /\ OneEach /\ StreamsKeep /\ TriggersOwned /\ OwnChannels /\ CallersChannel
        /\ TriggersFirst
KInv == TimerOfFirst /\ (~doubled => Kept)

-----------------------------------------------------------------------------
(* A set of numbers that is not empty has a least element.                 *)
LEMMA LeastElement ==
    ASSUME NEW T, \A n \in T : n \in Nat, NEW n \in T
    PROVE  \E m \in T : \A k \in T : m <= k
<1> DEFINE R == OpToRel(<, Nat)
<1>1. IsWellFoundedOn(R, Nat)
    BY NatLessThanWellFounded
<1>2. \A x, y \in Nat : x < y => <<x, y>> \in R
    BY DEF OpToRel
<1> HIDE DEF R
<1>3. T \subseteq Nat /\ T # {}
    OBVIOUS
<1>4. PICK x \in T : \A y \in T : ~ (<<y, x>> \in R)
    BY <1>1, <1>3, WFMin
<1>5. ASSUME NEW k \in T PROVE x <= k
    <2>1. x \in Nat /\ k \in Nat
        BY <1>3
    <2>2. ~ (k < x)
        BY <1>2, <1>4, <2>1
    <2> QED BY <2>1, <2>2
<1> QED BY <1>5

(* It is what Min says.                                                    *)
LEMMA MinIn ==
    ASSUME NEW T, \A n \in T : n \in Nat, NEW n \in T
    PROVE  Min(T) \in T
<1>1. \E m \in T : \A k \in T : m <= k
    BY LeastElement
<1> QED BY <1>1 DEF Min

(* What an operation takes when none of its kind runs, and a stream.       *)
LEMMA AvailableIsFree ==
    ASSUME Types, NEW op \in Op, op \in Ops => ~Running(op), Available(op) # None
    PROVE  Available(op) \in Channels /\ ~loc[Available(op)].used
<1> DEFINE again == {i \in Channels : loc[i].used /\ op = VOLUME /\ loc[i].op = VOLUME}
           free == {i \in Channels : ~loc[i].used}
<1>1. again = {}
    BY BtSyncAssumption DEF Op, Running
<1>2. Available(op) = IF free # {} THEN Min(free) ELSE None
    BY <1>1 DEF Available
<1>3. free # {} /\ Available(op) = Min(free)
    BY <1>2
<1>4. \A j \in free : j \in Nat
    BY DEF Channels
<1>5. Min(free) \in free
    BY <1>3, <1>4, MinIn
<1> QED BY <1>3, <1>5

(* While nothing is told, every supervised channel is in use.              *)
LEMMA QuietUses ==
    ASSUME IInv, Kept, Quiet, NEW k \in 1..count
    PROVE  /\ st[k].op \in Ops /\ st[k].idx \in Channels /\ Uses(st[k].idx, st[k].op)
           /\ st[k].op # STREAM
<1>1. st[k].op \in Ops /\ st[k].op # STREAM
    BY BtSyncAssumption DEF IInv, Active
<1>2. ~ToldOf(st[k].op)
    BY <1>1 DEF Quiet, ToldOf
<1> QED BY <1>1, <1>2 DEF Kept, OwnChannels, Uses

(* A channel is taken that is free.                                        *)
Taken(i, op) ==
    /\ loc'[i].used /\ loc'[i].op = op
    /\ \A j \in Channels : j # i => loc'[j] = loc[j] /\ trigger'[j] = trigger[j]
    /\ trigger'[i] \in {"set", "due"} => op \in Ops
    /\ op \in Ops => ~Running(op)
    /\ UNCHANGED <<st, count, passed, mail, thread>>

LEMMA TakenKept ==
    ASSUME IInv, Kept, Quiet, NEW i \in Channels, ~loc[i].used, NEW op \in Op, Taken(i, op)
    PROVE  /\ OneEach' /\ TriggersOwned' /\ OwnChannels' /\ TriggersFirst'
           /\ \A j \in held :
                 j \in Channels /\ Uses(j, STREAM)' /\ trigger'[j] \notin {"set", "due"}
<1>1. OneEach'
    <2>1. ASSUME NEW k \in Channels, NEW j \in Channels,
                 loc'[k].used, loc'[k].op \in Ops, loc'[j].used, loc'[j].op = loc'[k].op
          PROVE  k = j
        <3>1. op \in Ops => \A l \in Channels : ~(loc[l].used /\ loc[l].op = op)
            BY DEF Taken, Running
        <3> QED BY <2>1, <3>1 DEF Taken, Kept, OneEach, Uses
    <2>2. \A k, l \in 1..count' : st'[k].op = st'[l].op => k = l
        BY DEF Taken, Kept, OneEach
    <2> QED BY <2>1, <2>2 DEF OneEach, Uses
<1>2. TriggersOwned'
    BY DEF Taken, Kept, TriggersOwned
<1>3. \A k \in 1..count :
         /\ st[k].idx \in Channels /\ Uses(st[k].idx, st[k].op) /\ st[k].idx # i
    BY QuietUses DEF Uses
<1>4. OwnChannels'
    BY <1>3 DEF Taken, OwnChannels, Uses
<1>5. TriggersFirst'
    BY <1>3 DEF Taken, Kept, TriggersFirst
<1>6. \A j \in held : j \in Channels /\ Uses(j, STREAM) /\ trigger[j] \notin {"set", "due"}
    BY DEF Kept, StreamsKeep
<1> QED BY <1>1, <1>2, <1>4, <1>5, <1>6 DEF Taken, Uses

(* The steps that take a channel.                                          *)
LEMMA EnableKept ==
    ASSUME IInv, Kept, NEW op \in Ops, Enable(op), ~doubled'
    PROVE  Kept'
<1> DEFINE i == Available(op)
<1>1. /\ Quiet /\ caller = Nobody
      /\ UNCHANGED <<st, count, passed, mail, thread, held>>
    BY DEF Enable, supVars
<1>2. CASE i # None
    <2>1. /\ Take(i, op) /\ doubled' = (doubled \/ Running(op))
          /\ Program(i, {"set", "missed"}) /\ caller' = [op |-> op, idx |-> i]
        BY <1>2 DEF Enable
    <2>2. ~Running(op) /\ op \in Op
        BY <2>1 DEF Op
    <2>3. i \in Channels /\ ~loc[i].used
        BY <1>2, <2>2, AvailableIsFree DEF IInv
    <2> HIDE DEF i
    <2>4. /\ loc'[i] = [used |-> TRUE, op |-> op] /\ trigger'[i] \in {"set", "missed"}
          /\ \A j \in Channels : j # i => loc'[j] = loc[j] /\ trigger'[j] = trigger[j]
        BY <2>1, <2>3 DEF Take, Program, IInv, Types
    <2>5. Taken(i, op)
        BY <1>1, <2>2, <2>4 DEF Taken
    <2>6. /\ OneEach' /\ TriggersOwned' /\ OwnChannels' /\ TriggersFirst'
          /\ \A j \in held :
                 j \in Channels /\ Uses(j, STREAM)' /\ trigger'[j] \notin {"set", "due"}
        BY <1>1, <2>2, <2>3, <2>5, TakenKept
    <2>7. StreamsKeep'
        BY <1>1, <2>6 DEF StreamsKeep
    <2>8. Supervised(op)' = {}
        BY <1>1, <2>2 DEF Running, Supervised
    <2>9. CallersChannel'
        BY <2>1, <2>3, <2>4, <2>8 DEF CallersChannel, Uses
    <2> QED BY <2>6, <2>7, <2>9 DEF Kept
<1>3. CASE i = None
    <2>1. UNCHANGED <<loc, trigger, caller>>
        BY <1>3 DEF Enable
    <2> QED BY <1>1, <2>1 DEF Kept, OneEach, Uses, StreamsKeep, TriggersOwned, OwnChannels,
                              ToldOf, CallersChannel, TriggersFirst
<1> QED BY <1>2, <1>3

LEMMA CommandKept ==
    ASSUME IInv, Kept, NEW op \in Ops, Command(op), ~doubled'
    PROVE  Kept'
<1> DEFINE i == Available(op)
<1>1. /\ Quiet /\ caller = Nobody
      /\ UNCHANGED <<count, passed, mail, thread, held, caller>>
      /\ ~Running(op) /\ op \in Op
    BY DEF Command, Op
<1>2. st' = st
    BY <1>1 DEF Command, Running
<1>3. CASE i # None
    <2>1. Take(i, op) /\ Program(i, {"set", "due", "missed"})
        BY <1>3 DEF Command
    <2>2. i \in Channels /\ ~loc[i].used
        BY <1>1, <1>3, AvailableIsFree DEF IInv
    <2> HIDE DEF i
    <2>3. /\ loc'[i] = [used |-> TRUE, op |-> op] /\ trigger'[i] \in {"set", "due", "missed"}
          /\ \A j \in Channels : j # i => loc'[j] = loc[j] /\ trigger'[j] = trigger[j]
        BY <2>1, <2>2 DEF Take, Program, IInv, Types
    <2>4. Taken(i, op)
        BY <1>1, <1>2, <2>3 DEF Taken
    <2>5. /\ OneEach' /\ TriggersOwned' /\ OwnChannels' /\ TriggersFirst'
          /\ \A j \in held :
                 j \in Channels /\ Uses(j, STREAM)' /\ trigger'[j] \notin {"set", "due"}
        BY <1>1, <2>2, <2>4, TakenKept
    <2>6. StreamsKeep' /\ CallersChannel'
        BY <1>1, <2>5 DEF StreamsKeep, CallersChannel
    <2> QED BY <2>5, <2>6 DEF Kept
<1>4. CASE i = None
    <2>1. UNCHANGED <<loc, trigger>>
        BY <1>4 DEF Command
    <2> QED BY <1>1, <1>2, <2>1 DEF Kept, OneEach, Uses, StreamsKeep, TriggersOwned,
                              OwnChannels, ToldOf, CallersChannel, TriggersFirst
<1> QED BY <1>3, <1>4

LEMMA StreamTakeKept ==
    ASSUME IInv, Kept, StreamTake
    PROVE  Kept'
<1> DEFINE i == Available(STREAM)
<1>1. /\ Quiet /\ Take(i, STREAM) /\ i # None /\ held' = held \cup {i}
      /\ UNCHANGED <<st, count, passed, mail, thread, trigger, caller>>
      /\ STREAM \in Op /\ STREAM \notin Ops
    BY BtSyncAssumption DEF StreamTake, supVars, Op
<1>2. i \in Channels /\ ~loc[i].used
    BY <1>1, AvailableIsFree DEF IInv
<1> HIDE DEF i
<1>3. /\ loc'[i] = [used |-> TRUE, op |-> STREAM] /\ trigger[i] \notin {"set", "due"}
      /\ \A j \in Channels : j # i => loc'[j] = loc[j]
    BY <1>1, <1>2 DEF Take, IInv, Types, Kept, TriggersOwned
<1>4. Taken(i, STREAM)
    BY <1>1, <1>3 DEF Taken
<1>5. /\ OneEach' /\ TriggersOwned' /\ OwnChannels' /\ TriggersFirst'
      /\ \A j \in held :
             j \in Channels /\ Uses(j, STREAM)' /\ trigger'[j] \notin {"set", "due"}
    BY <1>1, <1>2, <1>4, TakenKept
<1>6. StreamsKeep'
    BY <1>1, <1>2, <1>3, <1>5 DEF StreamsKeep, Uses
<1>7. CallersChannel'
    <2>1. caller # Nobody => caller.idx # i
        BY <1>2 DEF Kept, CallersChannel, Uses
    <2>2. Supervised(caller.op)' = Supervised(caller.op)
        BY <1>1 DEF Supervised
    <2> QED BY <1>1, <1>3, <2>1, <2>2 DEF Kept, CallersChannel, Uses
<1> QED BY <1>5, <1>6, <1>7 DEF Kept

(* A channel is freed, and when it was that of an operation the thread is  *)
(* told.                                                                   *)
Freed(i) ==
    /\ ~loc'[i].used /\ loc'[i].op = loc[i].op
    /\ \A j \in Channels : j # i => loc'[j] = loc[j]
    /\ \A j \in Channels : trigger'[j] \in {"set", "due"} => j # i /\ trigger'[j] = trigger[j]
    /\ UNCHANGED <<st, count, passed, thread>>
    /\ DOMAIN mail \subseteq DOMAIN mail' /\ \A k \in DOMAIN mail : mail'[k] = mail[k]
    /\ loc[i].op \in Ops => \E k \in DOMAIN mail' : mail'[k].op = loc[i].op

LEMMA FreedKept ==
    ASSUME IInv, Kept, NEW i \in Channels, Freed(i)
    PROVE  /\ OneEach' /\ TriggersOwned' /\ OwnChannels' /\ TriggersFirst'
           /\ \A j \in held : j # i =>
                 j \in Channels /\ Uses(j, STREAM)' /\ trigger'[j] \notin {"set", "due"}
<1>1. OneEach'
    <2>1. ASSUME NEW k \in Channels, NEW j \in Channels,
                 loc'[k].used, loc'[k].op \in Ops, loc'[j].used, loc'[j].op = loc'[k].op
          PROVE  k = j
        BY <2>1 DEF Freed, Kept, OneEach, Uses
    <2>2. \A k, l \in 1..count' : st'[k].op = st'[l].op => k = l
        BY DEF Freed, Kept, OneEach
    <2> QED BY <2>1, <2>2 DEF OneEach, Uses
<1>2. TriggersOwned'
    BY DEF Freed, Kept, TriggersOwned
<1>3. \A op : ToldOf(op) => ToldOf(op)'
    BY DEF Freed, ToldOf
<1>4. OwnChannels'
    <2>1. ASSUME NEW k \in 1..count
          PROVE  /\ st[k].idx \in Channels /\ loc'[st[k].idx].op = st[k].op
                 /\ loc'[st[k].idx].used \/ ToldOf(st[k].op)'
        <3>1. /\ st[k].idx \in Channels /\ loc[st[k].idx].op = st[k].op
              /\ loc[st[k].idx].used \/ ToldOf(st[k].op)
            BY DEF Kept, OwnChannels
        <3>2. st[k].op \in Ops
            BY DEF IInv, Active
        <3>3. CASE st[k].idx = i
            BY <3>1, <3>2, <3>3 DEF Freed, ToldOf
        <3>4. CASE st[k].idx # i
            BY <1>3, <3>1, <3>4 DEF Freed
        <3> QED BY <3>1, <3>3, <3>4
    <2>2. st' = st /\ count' = count
        BY DEF Freed
    <2> QED BY <2>1, <2>2 DEF OwnChannels
<1>5. TriggersFirst'
    <2>1. st' = st /\ count' = count /\ passed' = passed
        BY DEF Freed
    <2>2. \A k \in 1..count : st[k].idx \in Channels
        BY DEF Kept, OwnChannels
    <2>3. \A j \in Channels : trigger'[j] \in {"set", "due"} => trigger'[j] = trigger[j]
        BY DEF Freed
    <2> QED BY <2>1, <2>2, <2>3 DEF Kept, TriggersFirst
<1>6. \A j \in held : j \in Channels /\ Uses(j, STREAM) /\ trigger[j] \notin {"set", "due"}
    BY DEF Kept, StreamsKeep
<1> QED BY <1>1, <1>2, <1>4, <1>5, <1>6 DEF Freed, Uses

(* The steps that free one.                                                *)
LEMMA StreamReleaseKept ==
    ASSUME IInv, Kept, NEW i \in Channels, StreamRelease(i)
    PROVE  Kept'
<1>1. /\ i \in held /\ held' = held \ {i} /\ loc' = [loc EXCEPT ![i].used = FALSE]
      /\ UNCHANGED <<st, count, passed, mail, thread, trigger, caller>>
      /\ STREAM \notin Ops
    BY BtSyncAssumption DEF StreamRelease, supVars
<1>2. Uses(i, STREAM) /\ trigger[i] \notin {"set", "due"}
    BY <1>1 DEF Kept, StreamsKeep
<1>3. /\ ~loc'[i].used /\ loc'[i].op = loc[i].op
      /\ \A j \in Channels : j # i => loc'[j] = loc[j]
    BY <1>1 DEF IInv, Types
<1>4. Freed(i)
    BY <1>1, <1>2, <1>3 DEF Freed, Uses
<1>5. /\ OneEach' /\ TriggersOwned' /\ OwnChannels' /\ TriggersFirst'
      /\ \A j \in held : j # i =>
             j \in Channels /\ Uses(j, STREAM)' /\ trigger'[j] \notin {"set", "due"}
    BY <1>4, FreedKept
<1>6. StreamsKeep'
    BY <1>1, <1>5 DEF StreamsKeep
<1>7. CallersChannel'
    <2>1. caller # Nobody => caller.idx # i
        BY <1>1, <1>2 DEF IInv, Types, Kept, CallersChannel, Uses
    <2>2. Supervised(caller.op)' = Supervised(caller.op)
        BY <1>1 DEF Supervised
    <2> QED BY <1>1, <1>3, <2>1, <2>2 DEF Kept, CallersChannel, Uses
<1> QED BY <1>5, <1>6, <1>7 DEF Kept

LEMMA IrqKept ==
    ASSUME IInv, Kept, NEW i \in Channels, Irq(i)
    PROVE  Kept'
<1>1. /\ UNCHANGED <<st, count, passed, timer, thread, caller, held, panic>> /\ ~panic
      /\ trigger[i] = "due" /\ trigger' = [trigger EXCEPT ![i] = "off"]
      /\ loc' = [loc EXCEPT ![i].used = FALSE]
      /\ Post(i, loc[i].op)
    BY DEF Irq, supVars
<1>2. loc[i].used /\ loc[i].op \in Ops /\ loc[i].op \in Op /\ loc[i].op # STREAM
    BY <1>1, BtSyncAssumption DEF Kept, TriggersOwned, Op
<1>3. Len(mail) < MAILS
    <2>1. i \in Due(trigger) /\ Due(trigger) # {}
        BY <1>1 DEF Due
    <2>2. IsFiniteSet(Due(trigger)) /\ Cardinality(Due(trigger)) \in Nat
        BY DueFinite
    <2>3. Cardinality(Due(trigger)) # 0
        BY <2>1, <2>2, FS_EmptySet
    <2>4. Len(mail) \in Nat
        BY LenProperties DEF IInv, Types
    <2>5. Len(mail) + Cardinality(Due(trigger)) + Expiring <= MAX + 1
        BY <1>1 DEF IInv, Room
    <2>6. Expiring \in Nat
        BY DEF Expiring
    <2> QED BY <2>2, <2>3, <2>4, <2>5, <2>6, BtSyncAssumption
<1>4. /\ DOMAIN mail \subseteq DOMAIN mail' /\ \A k \in DOMAIN mail : mail'[k] = mail[k]
      /\ \E k \in DOMAIN mail' : mail'[k].op = loc[i].op
    <2>1. i \in Channels \cup {None}
        OBVIOUS
    <2> QED BY <1>1, <1>2, <1>3, <2>1, Posted
<1>5. /\ ~loc'[i].used /\ loc'[i].op = loc[i].op
      /\ \A j \in Channels : j # i => loc'[j] = loc[j]
      /\ \A j \in Channels : trigger'[j] \in {"set", "due"} => j # i /\ trigger'[j] = trigger[j]
    BY <1>1 DEF IInv, Types
<1>6. Freed(i)
    BY <1>1, <1>4, <1>5 DEF Freed
<1>7. /\ OneEach' /\ TriggersOwned' /\ OwnChannels' /\ TriggersFirst'
      /\ \A j \in held : j # i =>
             j \in Channels /\ Uses(j, STREAM)' /\ trigger'[j] \notin {"set", "due"}
    BY <1>6, FreedKept
<1>8. StreamsKeep'
    BY <1>1, <1>2, <1>7 DEF Kept, StreamsKeep, Uses
<1>9. CallersChannel'
    <2>1. caller # Nobody => caller.idx # i
        BY <1>1 DEF Kept, CallersChannel
    <2>2. Supervised(caller.op)' = Supervised(caller.op)
        BY <1>1 DEF Supervised
    <2>3. caller # Nobody => trigger'[caller.idx] # "due"
        BY <1>1, <1>5 DEF Kept, CallersChannel
    <2> QED BY <1>1, <1>5, <2>1, <2>2, <2>3 DEF Kept, CallersChannel, Uses
<1> QED BY <1>7, <1>8, <1>9 DEF Kept

(* When the timer expires the trigger of the first has been, so the        *)
(* channel that is freed is its own.                                       *)
LEMMA ExpireOwn ==
    ASSUME IInv, Kept, TimerOfFirst, ~panic, timer = 0
    PROVE  /\ 1 \in 1..count /\ st[1].idx \in Channels /\ st[1].idx # None
           /\ loc[st[1].idx].op = st[1].op /\ st[1].op \in Ops
           /\ trigger[st[1].idx] \notin {"set", "due"}
<1>1. 1 \in 1..count /\ st[1].ms - passed = 0
    BY DEF TimerOfFirst, Off, IInv, Types
<1>2. st[1].idx \in Channels /\ loc[st[1].idx].op = st[1].op
    BY <1>1 DEF Kept, OwnChannels
<1>3. st[1].op \in Ops
    BY <1>1 DEF IInv, Active
<1>4. st[1].idx # None
    BY <1>2, BtSyncAssumption DEF Channels, None
<1>5. trigger[st[1].idx] \notin {"set", "due"}
    BY <1>1, BtSyncAssumption DEF Kept, TriggersFirst
<1> QED BY <1>1, <1>2, <1>3, <1>4, <1>5

LEMMA ExpireKept ==
    ASSUME IInv, Kept, TimerOfFirst, Expire
    PROVE  Kept'
<1> DEFINE i == st[1].idx
<1>1. /\ UNCHANGED <<st, count, passed, trigger, thread, caller, held>> /\ ~panic
      /\ timer = 0 /\ Post(None, st[1].op)
      /\ loc' = IF st[1].idx = None THEN loc ELSE [loc EXCEPT ![i].used = FALSE]
    BY DEF Expire
<1>2. /\ 1 \in 1..count /\ i \in Channels /\ i # None
      /\ loc[i].op = st[1].op /\ st[1].op \in Ops
      /\ trigger[i] \notin {"set", "due"}
    BY <1>1, ExpireOwn
<1>3. st[1].op \in Op /\ st[1].op # STREAM
    BY <1>2, BtSyncAssumption DEF Op
<1>4. Len(mail) < MAILS
    <2>1. Len(mail) \in Nat
        BY LenProperties DEF IInv, Types
    <2>2. Len(mail) + Cardinality(Due(trigger)) + 1 <= MAX + 1
        BY <1>1 DEF IInv, Room, Expiring
    <2> QED BY <2>1, <2>2, DueFinite, BtSyncAssumption
<1>5. /\ DOMAIN mail \subseteq DOMAIN mail' /\ \A k \in DOMAIN mail : mail'[k] = mail[k]
      /\ \E k \in DOMAIN mail' : mail'[k].op = st[1].op
    BY <1>1, <1>3, <1>4, Posted
<1>6. loc' = [loc EXCEPT ![i].used = FALSE]
    BY <1>1, <1>2
<1> HIDE DEF i
<1>7. /\ ~loc'[i].used /\ loc'[i].op = loc[i].op
      /\ \A j \in Channels : j # i => loc'[j] = loc[j]
    BY <1>2, <1>6 DEF IInv, Types
<1>8. Freed(i)
    BY <1>1, <1>2, <1>5, <1>7 DEF Freed
<1>9. /\ OneEach' /\ TriggersOwned' /\ OwnChannels' /\ TriggersFirst'
      /\ \A j \in held : j # i =>
             j \in Channels /\ Uses(j, STREAM)' /\ trigger'[j] \notin {"set", "due"}
    BY <1>2, <1>8, FreedKept
<1>10. StreamsKeep'
    BY <1>1, <1>2, <1>3, <1>9 DEF Kept, StreamsKeep, Uses
<1>11. CallersChannel'
    <2>1. caller # Nobody => caller.idx # i
        BY <1>2 DEF Kept, CallersChannel, Uses, Supervised
    <2>2. Supervised(caller.op)' = Supervised(caller.op)
        BY <1>1 DEF Supervised
    <2> QED BY <1>1, <1>7, <2>1, <2>2 DEF Kept, CallersChannel, Uses
<1> QED BY <1>9, <1>10, <1>11 DEF Kept

(* What the thread takes from the mailbox it remembers.                    *)
LEMMA TakeMailKept ==
    ASSUME IInv, Kept, TakeMail
    PROVE  Kept'
<1> DEFINE M == [src : Channels \cup {None}, op : Op]
<1>1. /\ UNCHANGED <<loc, st, count, passed, trigger, caller, held>>
      /\ thread = STREAM /\ mail # <<>> /\ mail' = Tail(mail)
      /\ thread' = IF Supervised(Head(mail).op) # {} THEN Head(mail).op ELSE STREAM
    BY DEF TakeMail, supVars
<1>2. /\ Len(mail) \in Nat /\ DOMAIN mail = 1 .. Len(mail)
      /\ Head(mail) = mail[1]
      /\ DOMAIN mail' = 1 .. Len(mail) - 1
      /\ \A k \in 1 .. Len(mail) - 1 : mail'[k] = mail[k + 1]
    <2>1. mail \in Seq(M)
        BY DEF IInv, Types
    <2> HIDE DEF M
    <2>2. /\ Tail(mail) \in Seq(M) /\ Len(Tail(mail)) = Len(mail) - 1
          /\ \A k \in 1 .. Len(Tail(mail)) : Tail(mail)[k] = mail[k + 1]
        BY <1>1, <2>1, HeadTailProperties
    <2>3. Len(mail) \in Nat /\ DOMAIN mail = 1 .. Len(mail)
        BY <2>1, LenProperties
    <2>4. DOMAIN mail' = 1 .. Len(mail')
        BY <1>1, <2>2, LenProperties
    <2>5. Head(mail) = mail[1]
        BY <1>1, <2>1
    <2> QED BY <1>1, <2>1, <2>2, <2>3, <2>4, <2>5
<1>3. \A op : Supervised(op)' = Supervised(op)
    BY <1>1 DEF Supervised
<1>4. OwnChannels'
    <2>1. ASSUME NEW k \in 1..count
          PROVE  /\ st[k].idx \in Channels /\ loc[st[k].idx].op = st[k].op
                 /\ loc[st[k].idx].used \/ ToldOf(st[k].op)'
        <3>1. /\ st[k].idx \in Channels /\ loc[st[k].idx].op = st[k].op
              /\ loc[st[k].idx].used \/ ToldOf(st[k].op)
            BY DEF Kept, OwnChannels
        <3>2. st[k].op \in Ops /\ Supervised(st[k].op) # {} /\ st[k].op # STREAM
            BY BtSyncAssumption DEF IInv, Active, Supervised
        <3>3. ASSUME ToldOf(st[k].op) PROVE ToldOf(st[k].op)'
            <4>1. PICK m \in DOMAIN mail : mail[m].op = st[k].op
                BY <1>1, <3>2, <3>3 DEF ToldOf
            <4>2. CASE m = 1
                <5>1. thread' = st[k].op /\ st'[k].op = st[k].op
                    BY <1>1, <1>2, <3>2, <4>1, <4>2
                <5> QED BY <5>1 DEF ToldOf
            <4>3. CASE m # 1
                <5>1. m - 1 \in DOMAIN mail' /\ mail'[m - 1] = mail[m] /\ st'[k].op = st[k].op
                    BY <1>1, <1>2, <4>1, <4>3
                <5> QED BY <4>1, <5>1 DEF ToldOf
            <4> QED BY <4>2, <4>3
        <3> QED BY <3>1, <3>3
    <2> QED BY <1>1, <2>1 DEF OwnChannels, ToldOf
<1>5. OneEach' /\ TriggersOwned' /\ StreamsKeep' /\ TriggersFirst'
    BY <1>1 DEF Kept, OneEach, Uses, TriggersOwned, StreamsKeep, TriggersFirst
<1>6. CallersChannel'
    BY <1>1, <1>3 DEF Kept, CallersChannel, Uses
<1> QED BY <1>4, <1>5, <1>6 DEF Kept

(* The entries behind the removed one move up.                             *)
LEMMA RemovedEntries ==
    ASSUME IInv, thread # STREAM
    PROVE  /\ Min(Supervised(thread)) \in 1..count
           /\ st[Min(Supervised(thread))].op = thread
           /\ \A k \in 1..count - 1 : \E m \in 1..count :
                 /\ Removed(thread)[k] = st[m]
                 /\ \/ k = m /\ k < Min(Supervised(thread))
                    \/ k = m - 1 /\ k >= Min(Supervised(thread))
<1> DEFINE s == Removed(thread)
           at == Min(Supervised(thread))
<1>1. PICK X : st \in [1..MAX -> [op : Op, idx : X, ms : Int]]
    BY DEF IInv, Types, IsTable
<1>2. at \in 1..count /\ st[at].op = thread
    <2>1. PICK j \in Supervised(thread) : TRUE
        BY DEF IInv, ThreadKnows
    <2>2. \A m \in Supervised(thread) : m \in Nat
        BY DEF Supervised
    <2>3. at \in Supervised(thread)
        BY <2>1, <2>2, MinIn
    <2> QED BY <2>3 DEF Supervised
<1>3. s = [k \in 1..MAX |-> IF k \in at .. (count - 1) THEN st[k + 1] ELSE st[k]]
    BY <1>1 DEF Removed
<1> HIDE DEF at, s
<1>4. count \in 0..MAX /\ MAX \in Nat
    BY BtSyncAssumption DEF IInv, Types
<1>5. ASSUME NEW k \in 1..count - 1
      PROVE \E m \in 1..count :
                s[k] = st[m] /\ ((k = m /\ k < at) \/ (k = m - 1 /\ k >= at))
    <2>1. k \in 1..MAX /\ k \in 1..count /\ k + 1 \in 1..count /\ k + 1 - 1 = k /\ k # k + 1
          /\ k # k - 1
        BY <1>4
    <2>2. CASE k \in at .. (count - 1)
        <3>1. s[k] = st[k + 1] /\ k >= at
            BY <1>2, <1>3, <2>1, <2>2
        <3> QED BY <2>1, <3>1
    <2>3. CASE k \notin at .. (count - 1)
        <3>1. s[k] = st[k] /\ k < at
            BY <1>2, <1>3, <2>1, <2>3
        <3> QED BY <2>1, <3>1
    <2> QED BY <2>2, <2>3
<1> QED BY <1>2, <1>5 DEF s, at

(* A refreshed entry has the time left that has not passed.                *)
LEMMA RefreshedEntries ==
    ASSUME NEW X, NEW s \in [1..MAX -> [op : Op, idx : X, ms : Int]], NEW n \in 0..MAX,
           passed \in Nat, NEW k \in 1..MAX
    PROVE  /\ Refreshed(s, n)[k].op = s[k].op /\ Refreshed(s, n)[k].idx = s[k].idx
           /\ k \in 1..n => Refreshed(s, n)[k].ms = s[k].ms - passed
<1>1. Refreshed(s, n)[k] = IF k \in 1..n THEN [s[k] EXCEPT !.ms = @ - passed] ELSE s[k]
    BY DEF Refreshed
<1>2. s[k] \in [op : Op, idx : X, ms : Int]
    OBVIOUS
<1> QED BY <1>1, <1>2

(* An entry keeps its operation, its channel and the time it has left.     *)
Same(k, m) ==
    /\ st'[k].op = st[m].op /\ st'[k].idx = st[m].idx
    /\ st'[k].ms - passed' = st[m].ms - passed

LEMMA RemoveEntries ==
    ASSUME IInv, Remove
    PROVE  /\ Min(Supervised(thread)) \in 1..count
           /\ st[Min(Supervised(thread))].op = thread
           /\ \A k \in 1..count - 1 : \E m \in 1..count :
                 /\ Same(k, m)
                 /\ \/ k = m /\ k < Min(Supervised(thread))
                    \/ k = m - 1 /\ k >= Min(Supervised(thread))
<1> DEFINE s == Removed(thread)
           n == count - 1
           at == Min(Supervised(thread))
<1>1. /\ thread # STREAM
      /\ \/ st' = Refreshed(s, n) /\ passed' = 0
         \/ st' = s /\ passed' = passed
    BY DEF Remove
<1>2. /\ at \in 1..count /\ st[at].op = thread
      /\ \A k \in 1..n : \E m \in 1..count :
             s[k] = st[m] /\ ((k = m /\ k < at) \/ (k = m - 1 /\ k >= at))
    BY <1>1, RemovedEntries
<1>3. PICK X : st \in [1..MAX -> [op : Op, idx : X, ms : Int]]
    BY DEF IInv, Types, IsTable
<1> HIDE DEF at
<1>4. count \in 0..MAX /\ MAX \in Nat /\ passed \in Nat
    BY BtSyncAssumption DEF IInv, Types
<1>5. s = [k \in 1..MAX |-> IF k \in at .. (count - 1) THEN st[k + 1] ELSE st[k]]
    BY <1>3 DEF Removed, at
<1>6. s \in [1..MAX -> [op : Op, idx : X, ms : Int]]
    <2>1. \A k \in 1..MAX : k \in at .. (count - 1) => k + 1 \in 1..MAX
        BY <1>4
    <2> HIDE DEF s
    <2> QED BY <1>3, <1>5, <2>1
<1> HIDE DEF s
<1>7. n \in 0..MAX
    BY <1>2, <1>4
<1>8. ASSUME NEW k \in 1..n, NEW m \in 1..count, s[k] = st[m]
      PROVE  Same(k, m)
    <2>1. k \in 1..MAX /\ m \in 1..MAX
        BY <1>4
    <2>2. st[m].ms \in Int
        BY <1>3, <2>1
    <2>3. CASE st' = Refreshed(s, n) /\ passed' = 0
        <3>1. /\ Refreshed(s, n)[k].op = s[k].op /\ Refreshed(s, n)[k].idx = s[k].idx
              /\ Refreshed(s, n)[k].ms = s[k].ms - passed
            BY <1>4, <1>6, <1>7, <2>1, RefreshedEntries
        <3>2. (st[m].ms - passed) - 0 = st[m].ms - passed
            BY <1>4, <2>2
        <3>3. st'[k].ms - passed' = (st[m].ms - passed) - 0
            BY <1>8, <2>3, <3>1, Zenon
        <3> QED BY <1>8, <2>3, <3>1, <3>2, <3>3, Zenon DEF Same
    <2>4. CASE st' = s /\ passed' = passed
        BY <1>8, <2>4, Zenon DEF Same
    <2> QED BY <1>1, <2>3, <2>4
<1> QED BY <1>2, <1>8 DEF at

(* The end of a supervision.                                               *)
LEMMA RemoveKept ==
    ASSUME IInv, Kept, Remove
    PROVE  Kept'
<1> DEFINE at == Min(Supervised(thread))
<1>1. /\ UNCHANGED <<loc, trigger, mail, caller, held>>
      /\ thread # STREAM /\ thread' = STREAM /\ count' = count - 1
    BY DEF Remove
<1>2. /\ at \in 1..count /\ st[at].op = thread
      /\ \A k \in 1..count - 1 : \E m \in 1..count :
             Same(k, m) /\ ((k = m /\ k < at) \/ (k = m - 1 /\ k >= at))
    BY RemoveEntries
<1> HIDE DEF at
<1>3. count \in Nat
    BY DEF IInv, Types
<1>4. \A k, l \in 1..count : st[k].op = st[l].op => k = l
    BY DEF Kept, OneEach
<1>5. OneEach'
    <2>1. ASSUME NEW k \in 1..count - 1, NEW l \in 1..count - 1, st'[k].op = st'[l].op
          PROVE  k = l
        <3>1. PICK m \in 1..count : Same(k, m) /\ ((k = m /\ k < at) \/ (k = m - 1 /\ k >= at))
            BY <1>2
        <3>2. PICK o \in 1..count : Same(l, o) /\ ((l = o /\ l < at) \/ (l = o - 1 /\ l >= at))
            BY <1>2
        <3>3. m = o
            BY <1>4, <2>1, <3>1, <3>2 DEF Same
        <3> QED BY <1>2, <1>3, <3>1, <3>2, <3>3
    <2>2. \A i, j \in Channels :
             loc'[i].used /\ Uses(j, loc[i].op)' /\ loc'[i].op \in Ops => i = j
        BY <1>1 DEF Kept, OneEach, Uses
    <2> QED BY <1>1, <2>1, <2>2 DEF OneEach
<1>6. OwnChannels'
    <2>1. ASSUME NEW k \in 1..count - 1
          PROVE  /\ st'[k].idx \in Channels /\ loc'[st'[k].idx].op = st'[k].op
                 /\ loc'[st'[k].idx].used \/ (thread' = st'[k].op \/ \E j \in DOMAIN mail' : mail'[j].op = st'[k].op)
        <3>1. PICK m \in 1..count : Same(k, m) /\ ((k = m /\ k < at) \/ (k = m - 1 /\ k >= at))
            BY <1>2
        <3>2. m # at
            BY <1>2, <1>3, <3>1
        <3>3. st[m].op # thread
            BY <1>2, <1>4, <3>2
        <3>4. /\ st[m].idx \in Channels /\ loc[st[m].idx].op = st[m].op
              /\ loc[st[m].idx].used \/ \E j \in DOMAIN mail : mail[j].op = st[m].op
            BY <3>3 DEF Kept, OwnChannels, ToldOf
        <3> QED BY <1>1, <3>1, <3>4 DEF Same, ToldOf
    <2> QED BY <1>1, <2>1 DEF OwnChannels, ToldOf
<1>7. TriggersFirst'
    <2>1. ASSUME NEW k \in 1..count - 1
          PROVE  /\ trigger'[st'[k].idx] = "set" => st'[k].ms - passed' >= TIMEOUT
                 /\ trigger'[st'[k].idx] = "due" => st'[k].ms - passed' >= TIMEOUT - 1
        <3>1. PICK m \in 1..count : Same(k, m)
            BY <1>2
        <3>2. /\ trigger[st[m].idx] = "set" => st[m].ms - passed >= TIMEOUT
              /\ trigger[st[m].idx] = "due" => st[m].ms - passed >= TIMEOUT - 1
            BY DEF Kept, TriggersFirst
        <3> QED BY <1>1, <3>1, <3>2, Zenon DEF Same
    <2> QED BY <1>1, <2>1 DEF TriggersFirst
<1>8. TriggersOwned' /\ StreamsKeep'
    BY <1>1 DEF Kept, TriggersOwned, StreamsKeep, Uses
<1>9. CallersChannel'
    <2>1. ASSUME caller # Nobody PROVE Supervised(caller.op)' = {}
        <3>1. Supervised(caller.op) = {}
            BY <2>1 DEF Kept, CallersChannel
        <3>2. ASSUME NEW k \in 1..count - 1, st'[k].op = caller.op PROVE FALSE
            <4>1. PICK m \in 1..count : Same(k, m)
                BY <1>2
            <4>2. m \in Supervised(caller.op)
                BY <3>2, <4>1 DEF Same, Supervised
            <4> QED BY <3>1, <4>2
        <3> QED BY <1>1, <3>2 DEF Supervised
    <2> QED BY <1>1, <2>1 DEF Kept, CallersChannel, Uses
<1> QED BY <1>5, <1>6, <1>7, <1>8, <1>9 DEF Kept

(* The supervision of the caller's operation is added.                     *)
LEMMA AddKept ==
    ASSUME IInv, Kept, Add
    PROVE  Kept'
<1> DEFINE e == [op |-> caller.op, idx |-> caller.idx, ms |-> TIMEOUT]
           s == [Refreshed(st, count) EXCEPT ![count + 1] = e]
<1>1. /\ UNCHANGED <<loc, trigger, mail, thread, held>>
      /\ Quiet /\ caller # Nobody /\ caller' = Nobody
      /\ \/ count < MAX /\ st' = s /\ count' = count + 1 /\ passed' = 0
         \/ UNCHANGED <<st, count, passed>>
    BY DEF Add, supVars
<1>2. PICK X : st \in [1..MAX -> [op : Op, idx : X, ms : Int]]
    BY DEF IInv, Types, IsTable
<1>3. /\ count \in 0..MAX /\ MAX \in Nat /\ passed \in Nat
      /\ caller.op \in Ops /\ TIMEOUT \in Nat
    BY <1>1, BtSyncAssumption DEF IInv, Types
<1>4. /\ caller.idx \in Channels /\ Uses(caller.idx, caller.op)
      /\ Supervised(caller.op) = {} /\ trigger[caller.idx] # "due"
    BY <1>1 DEF Kept, CallersChannel
<1>5. StreamsKeep' /\ TriggersOwned' /\ CallersChannel'
    BY <1>1 DEF Kept, StreamsKeep, TriggersOwned, CallersChannel, Uses
<1>6. CASE UNCHANGED <<st, count, passed>>
    BY <1>1, <1>5, <1>6 DEF Kept, OneEach, OwnChannels, ToldOf, TriggersFirst, Uses
<1>7. CASE count < MAX /\ st' = s /\ count' = count + 1 /\ passed' = 0
    <2>1. s[count + 1] = e /\ \A k \in 1..count : s[k] = Refreshed(st, count)[k]
        <3>1. count + 1 \in 1..MAX /\ DOMAIN Refreshed(st, count) = 1..MAX
              /\ \A k \in 1..count : k \in 1..MAX /\ k # count + 1
            BY <1>2, <1>3, <1>7 DEF Refreshed
        <3> HIDE DEF e
        <3> QED BY <3>1
    <2>2. /\ st'[count + 1].op = caller.op /\ st'[count + 1].idx = caller.idx
          /\ st'[count + 1].ms = TIMEOUT
        BY <1>7, <2>1
    <2> HIDE DEF s, e
    <2>3. ASSUME NEW k \in 1..count PROVE Same(k, k)
        <3>1. k \in 1..MAX /\ st[k].ms \in Int
            BY <1>2, <1>3
        <3>2. /\ Refreshed(st, count)[k].op = st[k].op /\ Refreshed(st, count)[k].idx = st[k].idx
              /\ Refreshed(st, count)[k].ms = st[k].ms - passed
            BY <1>2, <1>3, <3>1, RefreshedEntries
        <3>3. (st[k].ms - passed) - 0 = st[k].ms - passed
            BY <1>3, <3>1
        <3>4. st'[k].ms - passed' = (st[k].ms - passed) - 0
            BY <1>7, <2>1, <3>2, Zenon
        <3> QED BY <1>7, <2>1, <3>2, <3>3, <3>4, Zenon DEF Same
    <2>4. \A k \in 1..count : st[k].op # caller.op
        BY <1>4 DEF Supervised
    <2>5. \A k \in 1..count + 1 : k = count + 1 \/ k \in 1..count
        BY <1>3
    <2>6. OneEach'
        <3>1. \A i, j \in Channels :
                 loc'[i].used /\ Uses(j, loc[i].op)' /\ loc'[i].op \in Ops => i = j
            BY <1>1 DEF Kept, OneEach, Uses
        <3>2. ASSUME NEW k \in 1..count + 1, NEW l \in 1..count + 1, st'[k].op = st'[l].op
              PROVE  k = l
            BY <2>2, <2>3, <2>4, <2>5, <3>2 DEF Same, Kept, OneEach
        <3> QED BY <1>7, <3>1, <3>2 DEF OneEach
    <2>7. OwnChannels'
        <3>1. ASSUME NEW k \in 1..count + 1
              PROVE  /\ st'[k].idx \in Channels /\ loc'[st'[k].idx].op = st'[k].op
                     /\ loc'[st'[k].idx].used \/ (thread' = st'[k].op \/ \E j \in DOMAIN mail' : mail'[j].op = st'[k].op)
            <4>1. CASE k = count + 1
                BY <1>1, <1>4, <2>2, <4>1 DEF Uses
            <4>2. CASE k \in 1..count
                BY <1>1, <2>3, <4>2, QuietUses DEF Same, Uses
            <4> QED BY <2>5, <4>1, <4>2
        <3> QED BY <1>7, <3>1 DEF OwnChannels, ToldOf
    <2>8. TriggersFirst'
        <3>1. ASSUME NEW k \in 1..count + 1
              PROVE  /\ trigger'[st'[k].idx] = "set" => st'[k].ms - passed' >= TIMEOUT
                     /\ trigger'[st'[k].idx] = "due" => st'[k].ms - passed' >= TIMEOUT - 1
            <4>1. CASE k = count + 1
                <5>1. TIMEOUT - 0 >= TIMEOUT
                    BY <1>3
                <5>2. st'[k].ms - passed' >= TIMEOUT
                    BY <1>7, <2>2, <4>1, <5>1, Zenon
                <5>3. trigger'[st'[k].idx] # "due"
                    BY <1>1, <1>4, <2>2, <4>1
                <5> QED BY <5>2, <5>3
            <4>2. CASE k \in 1..count
                <5>1. /\ trigger[st[k].idx] = "set" => st[k].ms - passed >= TIMEOUT
                      /\ trigger[st[k].idx] = "due" => st[k].ms - passed >= TIMEOUT - 1
                    BY <4>2 DEF Kept, TriggersFirst
                <5>2. Same(k, k)
                    BY <2>3, <4>2
                <5> QED BY <1>1, <5>1, <5>2, Zenon DEF Same
            <4> QED BY <2>5, <4>1, <4>2
        <3> QED BY <1>7, <3>1 DEF TriggersFirst
    <2> QED BY <1>5, <2>6, <2>7, <2>8 DEF Kept
<1> QED BY <1>1, <1>6, <1>7

(* A trigger falls due a tick after it was set, long before the timeout.   *)
LEMMA TickKept ==
    ASSUME IInv, Kept, Tick
    PROVE  Kept'
<1>1. /\ UNCHANGED <<loc, st, count, mail, thread, caller, held>>
      /\ caller = Nobody
      /\ passed' = IF count > 0 THEN passed + 1 ELSE passed
      /\ trigger' = [i \in Channels |-> IF trigger[i] = "set" THEN "due" ELSE trigger[i]]
      /\ \A i \in Channels : trigger[i] # "due"
    BY DEF Tick
<1>2. \A i \in Channels :
         /\ trigger'[i] # "set"
         /\ trigger'[i] = "due" => trigger[i] = "set"
    BY <1>1 DEF IInv, Types
<1>3. OneEach' /\ OwnChannels' /\ CallersChannel'
    BY <1>1 DEF Kept, OneEach, Uses, OwnChannels, ToldOf, CallersChannel
<1>4. TriggersOwned' /\ StreamsKeep'
    BY <1>1, <1>2 DEF Kept, TriggersOwned, StreamsKeep, Uses
<1>5. TriggersFirst'
    <2>1. PICK X : st \in [1..MAX -> [op : Op, idx : X, ms : Int]]
        BY DEF IInv, Types, IsTable
    <2>2. count \in 0..MAX /\ MAX \in Nat /\ passed \in Nat /\ TIMEOUT \in Nat
        BY BtSyncAssumption DEF IInv, Types
    <2>3. ASSUME NEW k \in 1..count
          PROVE  /\ trigger'[st[k].idx] # "set"
                 /\ trigger'[st[k].idx] = "due" => st[k].ms - passed' >= TIMEOUT - 1
        <3>1. st[k].idx \in Channels
            BY DEF Kept, OwnChannels
        <3>2. trigger[st[k].idx] = "set" => st[k].ms - passed >= TIMEOUT
            BY DEF Kept, TriggersFirst
        <3>3. st[k].ms \in Int /\ passed' = passed + 1
            BY <1>1, <2>1, <2>2
        <3>4. PICK ms \in Int : ms = st[k].ms
            BY <3>3
        <3>5. ms - passed >= TIMEOUT => ms - (passed + 1) >= TIMEOUT - 1
            BY <2>2
        <3>6. st[k].ms - passed >= TIMEOUT => st[k].ms - passed' >= TIMEOUT - 1
            BY <3>3, <3>4, <3>5, Zenon
        <3> QED BY <1>2, <3>1, <3>2, <3>6, Zenon
    <2> QED BY <1>1, <2>3 DEF TriggersFirst
<1> QED BY <1>3, <1>4, <1>5 DEF Kept

(* Nothing of this changes with the role.                                  *)
LEMMA SwitchKept ==
    ASSUME Kept, Switch \/ UNCHANGED vars
    PROVE  Kept'
<1>1. UNCHANGED <<loc, trigger, st, count, passed, mail, thread, caller, held>>
    BY DEF Switch, vars, supVars
<1>2. OneEach' /\ StreamsKeep' /\ TriggersOwned'
    BY <1>1 DEF Kept, OneEach, Uses, StreamsKeep, TriggersOwned
<1>3. OwnChannels' /\ TriggersFirst'
    BY <1>1 DEF Kept, OwnChannels, ToldOf, TriggersFirst
<1>4. CallersChannel'
    BY <1>1 DEF Kept, CallersChannel, Uses, Supervised
<1> QED BY <1>2, <1>3, <1>4 DEF Kept

(* The timer that runs is that of the first supervision.                   *)
LEMMA TimerStep ==
    ASSUME IInv, TimerOfFirst, [Next]_vars
    PROVE  TimerOfFirst'
<1>1. PICK X : st \in [1..MAX -> [op : Op, idx : X, ms : Int]]
    BY DEF IInv, Types, IsTable
<1>2. /\ count \in 0..MAX /\ MAX \in Nat /\ 1 \in 1..MAX /\ passed \in Nat
      /\ timer \in Nat \cup {Off} /\ TIMEOUT \in Nat
    BY BtSyncAssumption DEF IInv, Types
<1>3. ASSUME UNCHANGED <<count, passed, timer, panic>>, st'[1].ms = st[1].ms
      PROVE  TimerOfFirst'
    BY <1>3 DEF TimerOfFirst
<1>4. CASE Add
    <2> DEFINE s == [Refreshed(st, count) EXCEPT
                       ![count + 1] = [op |-> caller.op, idx |-> caller.idx, ms |-> TIMEOUT]]
    <2>1. CASE count < MAX /\ ~Missed(st, count)
        <3>1. st' = s /\ count' = count + 1 /\ passed' = 0 /\ timer' = s[1].ms
            <4>1. ~(count = MAX \/ Missed(st, count))
                BY <1>2, <2>1
            <4> QED BY <1>4, <4>1 DEF Add
        <3>2. s[1].ms \in Int
            <4>1. count + 1 \in 1..MAX
                BY <1>2, <2>1
            <4>2. Refreshed(st, count)[1].ms \in Int
                BY <1>1, <1>2, RefreshedEntries DEF Refreshed
            <4>3. DOMAIN Refreshed(st, count) = 1..MAX
                BY <1>1 DEF Refreshed
            <4>4. s[1].ms = TIMEOUT \/ s[1].ms = Refreshed(st, count)[1].ms
                BY <1>2, <4>1, <4>3
            <4> QED BY <1>2, <4>2, <4>4
        <3> HIDE DEF s
        <3> QED BY <1>2, <3>1, <3>2 DEF TimerOfFirst
    <2>2. CASE ~(count < MAX /\ ~Missed(st, count))
        BY <1>4, <2>2 DEF Add, TimerOfFirst
    <2> QED BY <2>1, <2>2
<1>5. CASE Expire
    BY <1>5 DEF Expire, TimerOfFirst
<1>6. CASE Remove
    <2> DEFINE s == Removed(thread)
               n == count - 1
    <2>1. /\ count' = n
          /\ \/ n > 0 /\ st' = Refreshed(s, n) /\ passed' = 0 /\ timer' = st'[1].ms
             \/ panic'
             \/ timer' = Off
        BY <1>6 DEF Remove, Rearmed
    <2>2. CASE n > 0 /\ st' = Refreshed(s, n) /\ passed' = 0 /\ timer' = st'[1].ms
        <3>1. 1 \in 1..n
            BY <1>2, <2>2
        <3>2. Types'
            BY <1>6, RemoveInv DEF IInv
        <3>3. timer' \in Int
            BY <3>2 DEF Types, Off
        <3>4. st'[1].ms - 0 = st'[1].ms
            BY <2>2, <3>3
        <3> QED BY <2>1, <2>2, <3>4 DEF TimerOfFirst
    <2>3. CASE panic' \/ timer' = Off
        BY <2>3 DEF TimerOfFirst
    <2> QED BY <2>1, <2>2, <2>3
<1>7. CASE Tick
    <2>1. /\ UNCHANGED <<st, count, panic>>
          /\ timer' = IF timer = Off THEN Off ELSE timer - 1
          /\ passed' = IF count > 0 THEN passed + 1 ELSE passed
        BY <1>7 DEF Tick
    <2>2. CASE panic \/ timer = Off
        BY <2>1, <2>2 DEF TimerOfFirst
    <2>3. CASE ~panic /\ timer # Off
        <3>1. /\ count > 0 /\ timer = st[1].ms - passed
              /\ timer' = timer - 1 /\ passed' = passed + 1
            BY <2>1, <2>3 DEF TimerOfFirst
        <3>2. PICK ms \in Int : ms = st[1].ms
            BY <1>1, <1>2
        <3>3. (ms - passed) - 1 = ms - (passed + 1)
            BY <1>2
        <3>4. timer' = st'[1].ms - passed'
            BY <2>1, <3>1, <3>2, <3>3, Zenon
        <3> QED BY <2>1, <3>1, <3>4 DEF TimerOfFirst
    <2> QED BY <2>2, <2>3
<1>8. CASE \E op \in Ops : Command(op)
    <2>1. PICK op \in Ops : Command(op)
        BY <1>8
    <2> DEFINE i == Available(op)
               at == Min(Supervised(op))
    <2>2. /\ UNCHANGED <<count, passed, timer, panic>>
          /\ st' = st \/ st' = [st EXCEPT ![at].idx = i]
        BY <2>1 DEF Command
    <2> HIDE DEF i, at
    <2>3. st'[1].ms = st[1].ms
        BY <1>1, <1>2, <2>2
    <2> QED BY <1>3, <2>2, <2>3
<1>9. CASE TakeMail \/ (\E i \in Channels : Irq(i))
    BY <1>3, <1>9 DEF TakeMail, Irq, supVars
<1>10. CASE \/ \E op \in Ops : Enable(op)
            \/ StreamTake \/ (\E i \in Channels : StreamRelease(i)) \/ Switch
    BY <1>3, <1>10 DEF Enable, StreamTake, StreamRelease, Switch, supVars
<1>11. CASE UNCHANGED vars
    BY <1>3, <1>11 DEF vars, supVars
<1> QED BY <1>4, <1>5, <1>6, <1>7, <1>8, <1>9, <1>10, <1>11 DEF Next, Work

(* In the beginning nothing is taken.                                     *)
LEMMA InitKept == Init => KInv
<1> SUFFICES ASSUME Init PROVE KInv
    OBVIOUS
<1>1. TimerOfFirst
    BY DEF Init, TimerOfFirst
<1>2. count = 0 /\ held = {} /\ caller = Nobody
      /\ \A i \in Channels : ~loc[i].used /\ trigger[i] = "off"
    BY DEF Init
<1>3. 1..count = {}
    BY <1>2
<1>4. Kept
    BY <1>2, <1>3 DEF Kept, OneEach, Uses, StreamsKeep, TriggersOwned, OwnChannels,
                      CallersChannel, TriggersFirst
<1> QED BY <1>1, <1>4 DEF KInv

(* Every step keeps the channels with their owners.                        *)
LEMMA KeptStep ==
    ASSUME IInv, KInv, [Next]_vars
    PROVE  KInv'
<1>1. TimerOfFirst'
    BY TimerStep DEF KInv
<1>2. ASSUME ~doubled' PROVE Kept'
    <2>1. ~doubled
        BY <1>2 DEF Next, Work, Enable, Command, Add, Irq, Expire, TakeMail, Remove, Tick,
                    StreamTake, StreamRelease, Switch, vars, ghostVars
    <2>2. Kept /\ TimerOfFirst
        BY <2>1 DEF KInv
    <2>3. CASE Work
        BY <2>2, <2>3, AddKept, ExpireKept, TakeMailKept, RemoveKept, TickKept, IrqKept DEF Work
    <2>4. CASE \E op \in Ops : Enable(op) \/ Command(op)
        BY <1>2, <2>2, <2>4, EnableKept, CommandKept
    <2>5. CASE StreamTake \/ (\E i \in Channels : StreamRelease(i)) \/ Switch
        BY <2>2, <2>5, StreamTakeKept, StreamReleaseKept, SwitchKept
    <2>6. CASE UNCHANGED vars
        BY <2>2, <2>6, SwitchKept
    <2> QED BY <2>3, <2>4, <2>5, <2>6 DEF Next
<1> QED BY <1>1, <1>2 DEF KInv

LEMMA AlwaysKept == Spec => [](IInv /\ KInv)
<1>1. Init => IInv /\ KInv
    BY InitInv, InitKept
<1>2. IInv /\ KInv /\ [Next]_vars => (IInv /\ KInv)'
    BY StepInv, KeptStep
<1> QED BY <1>1, <1>2, PTL DEF Spec

(* For any number of channels, operations, starts and changes of the role, *)
(* as long as no operation is started while one of its kind runs: a stream *)
(* keeps the channel it took, whatever fires, times out or is started.     *)
THEOREM StreamsAlwaysKeep == Spec => []StreamsKeepChannels
<1>1. KInv => StreamsKeepChannels
    BY DEF KInv, Kept, StreamsKeep, Uses, StreamsKeepChannels
<1> QED BY <1>1, AlwaysKept, PTL

(* And a timeout frees the channel of its own operation or none: by then   *)
(* the trigger has been, and what it freed is not yet another's.           *)
THEOREM AlwaysFreesItsOwn == Spec => FreesItsOwn
<1> DEFINE A == (timer = 0 /\ timer' = Off /\ loc' # loc /\ ~doubled) =>
                    loc[st[1].idx].used /\ loc[st[1].idx].op = st[1].op
<1>1. IInv /\ KInv /\ [Next]_vars => A
    <2> SUFFICES ASSUME IInv, KInv, [Next]_vars,
                        timer = 0, timer' = Off, loc' # loc, ~doubled
                 PROVE  loc[st[1].idx].used /\ loc[st[1].idx].op = st[1].op
        OBVIOUS
    <2>1. Expire
        BY DEF Next, Work, Enable, Command, Add, Irq, TakeMail, Remove, Tick,
               StreamTake, StreamRelease, Switch, vars, supVars, Off
    <2>2. st[1].idx \in Channels /\ st[1].idx # None /\ loc[st[1].idx].op = st[1].op
        BY <2>1, ExpireOwn DEF KInv, Expire
    <2>3. loc' = [loc EXCEPT ![st[1].idx].used = FALSE]
        BY <2>1, <2>2 DEF Expire
    <2>4. loc[st[1].idx].used
        <3> SUFFICES ASSUME ~loc[st[1].idx].used PROVE loc' = loc
            OBVIOUS
        <3>1. PICK i \in Channels : i = st[1].idx
            BY <2>2
        <3>2. loc \in [Channels -> [used : BOOLEAN, op : Op]]
            BY DEF IInv, Types
        <3>3. loc[i] \in [used : BOOLEAN, op : Op] /\ loc[i].used = FALSE
            BY <3>1, <3>2
        <3>4. [loc[i] EXCEPT !.used = FALSE] = loc[i]
            BY <3>3
        <3>5. loc' = [loc EXCEPT ![i] = [loc[i] EXCEPT !.used = FALSE]]
            BY <2>3, <3>1, <3>2
        <3>6. [loc EXCEPT ![i] = loc[i]] = loc
            BY <3>2
        <3> QED BY <3>4, <3>5, <3>6, Zenon
    <2> QED BY <2>2, <2>4
<1>2. IInv /\ KInv /\ [Next]_vars => [A]_vars
    BY <1>1
<1> QED BY <1>2, AlwaysKept, PTL DEF Spec, FreesItsOwn
=============================================================================
