------------------------------- MODULE BtSync -------------------------------
(***************************************************************************)
(* Synchronised triggers (src/apps/bt_sync/app_bt_sync.cpp) on one of the  *)
(* two earbuds.  An operation -- a change of volume, a restart of the      *)
(* music -- takes a trigger channel, sends the other earbud the Bluetooth  *)
(* clock at which both act, programs the trigger, and is supervised: the   *)
(* interrupt of the trigger, or a timer when it does not come, frees the   *)
(* channel and mails the thread, which ends the supervision.  The audio    *)
(* streams take channels from the same table.                              *)
(*                                                                         *)
(* The thread has the highest priority, and operations are started from    *)
(* one thread, that of the Bluetooth host.  A tick is long against         *)
(* everything the code does.  The master sets a trigger at least 200 ms    *)
(* ahead, so it fires after a tick, the slave may be closer to it; a       *)
(* trigger set too late never fires.                                       *)
(***************************************************************************)
EXTENDS Integers, Sequences, FiniteSetsExt

CONSTANTS
    MAX,         \* APP_BT_SYNC_CHANNEL_MAX, channels and supervisions
    Ops,         \* operation codes, APP_BT_SYNC_OP_CODE_E
    VOLUME,      \* APP_BT_SYNC_OP_VOLUME
    STREAM,      \* APP_BT_SYNC_OP_MAX, with which the streams take channels
    TIMEOUT,     \* APP_BT_SYNC_SENT_TRIGGER_INFO_TIMEOUT_IN_MS, in ticks
    MAILS,       \* capacity of the mailbox
    MaxStarts,   \* bound: operations started, or asked for by the peer
    MaxSwitches  \* bound: changes of the role

ASSUME BtSyncAssumption ==
    /\ MAX \in Nat \ {0} /\ TIMEOUT \in Nat \ {0, 1, 2}
    /\ MAILS \in Nat /\ MAILS > MAX    \* one for each trigger and one for the timer
    /\ VOLUME \in Ops /\ STREAM \notin Ops
    /\ MaxStarts \in Nat /\ MaxSwitches \in Nat

VARIABLES
    role,        \* of this earbud
    loc,         \* locTriggerInfo: by channel, in use and for what
    st, count,   \* statusInstance, timeoutSupervisorCount
    passed,      \* ticks since lastSysTicks
    timer,       \* app_bt_sync_send_trigger_info_timer: ticks left, or Off
    trigger,     \* by channel: off, set, due or missed
    mail,        \* app_sync_mailbox
    thread,      \* the operation whose supervision the thread is to end
    caller,      \* what the host thread has still to supervise
    held,        \* channels the streams hold
    panic,       \* an assertion has failed
    doubled,     \* an operation was started while one of its kind ran
    starts, switches

supVars == <<st, count, passed, timer>>
ghostVars == <<doubled, starts, switches>>
vars == <<role, loc, supVars, trigger, mail, thread, caller, held, panic, ghostVars>>

Channels == 0 .. (MAX - 1)
None == -1        \* APP_BT_SYNC_INVALID_CHANNEL
Off == -1
Nobody == [op |-> STREAM, idx |-> None]

(* The first supervision of an operation: app_bt_sync_get_status_instance. *)
Supervised(op) == {i \in 1..count : st[i].op = op}

Running(op) == Supervised(op) # {} \/ \E i \in Channels : loc[i].used /\ loc[i].op = op

(* app_bt_sync_get_avaliable_trigger_channel: a volume change under way is *)
(* reused -- its channel replaces APP_BT_SYNC_VOL_USED_CHANNEL.            *)
\* mutant: a volume change takes over the first channel in use, whose ever
AvailableInUse(op) ==
    LET again == {i \in Channels : loc[i].used /\ op = VOLUME}
        free == {i \in Channels : ~loc[i].used}
    IN  IF again # {} THEN Min(again) ELSE IF free # {} THEN Min(free) ELSE None
Available(op) ==
    LET again == {i \in Channels : loc[i].used /\ op = VOLUME /\ loc[i].op = VOLUME}
        free == {i \in Channels : ~loc[i].used}
    IN  IF again # {} THEN Min(again) ELSE IF free # {} THEN Min(free) ELSE None
Take(i, op) == loc' = [loc EXCEPT ![i] = [used |-> TRUE, op |-> op]]

(* app_bt_sync_refresh_supervisor_env on the first n entries of s, and the *)
(* assertion in it, "Supervisor timer missed".                             *)
Missed(s, n) == \E i \in 1..n : s[i].ms <= passed
Refreshed(s, n) ==
    [i \in DOMAIN s |-> IF i \in 1..n THEN [s[i] EXCEPT !.ms = @ - passed] ELSE s[i]]

-----------------------------------------------------------------------------
Init ==
    /\ role \in {"master", "slave"}
    /\ loc = [i \in Channels |-> [used |-> FALSE, op |-> STREAM]]
    /\ st = [i \in 1..MAX |-> [op |-> STREAM, idx |-> 0, ms |-> 0]]
    /\ count = 0 /\ passed = 0 /\ timer = Off
    /\ trigger = [i \in Channels |-> "off"]
    /\ mail = <<>> /\ thread = STREAM /\ caller = Nobody
    /\ held = {} /\ panic = FALSE /\ doubled = FALSE /\ starts = 0 /\ switches = 0

(* What threads of lower priority do, they do when the sync thread waits.  *)
Quiet == mail = <<>> /\ thread = STREAM /\ ~panic

(* A channel is programmed for a clock to come, which may be missed.       *)
Program(i, ways) == \E a \in ways : trigger' = [trigger EXCEPT ![i] = a]

(* app_bt_sync_enable, and the request of the slave, on the master.        *)
Enable(op) ==
    /\ Quiet /\ caller = Nobody /\ role = "master" /\ starts < MaxStarts
    /\ count < MAX
    /\ starts' = starts + 1
    /\ \/ /\ Available(op) # None
          /\ Take(Available(op), op)
          /\ doubled' = (doubled \/ Running(op))
          /\ Program(Available(op), {"set", "missed"})
          /\ caller' = [op |-> op, idx |-> Available(op)]
       \/ /\ Available(op) = None
          /\ UNCHANGED <<loc, doubled, trigger, caller>>
    /\ UNCHANGED <<role, supVars, mail, thread, held, panic, switches>>

(* app_bt_sync_add_waiting_irq_timeout_supervision                         *)
Add ==
    LET s == [Refreshed(st, count) EXCEPT
                ![count + 1] = [op |-> caller.op, idx |-> caller.idx, ms |-> TIMEOUT]]
    IN  /\ Quiet /\ caller # Nobody
        /\ caller' = Nobody
        /\ \/ /\ count < MAX /\ ~Missed(st, count)
              /\ st' = s /\ count' = count + 1 /\ passed' = 0
              /\ timer' = s[1].ms
              /\ UNCHANGED panic
           \/ /\ count = MAX \/ Missed(st, count)
              /\ panic' = TRUE
              /\ UNCHANGED supVars
        /\ UNCHANGED <<role, loc, trigger, mail, thread, held, ghostVars>>

(* app_bt_sync_tws_cmd_handler on the slave: the command of the master.    *)
Command(op) ==
    /\ Quiet /\ caller = Nobody /\ role = "slave" /\ starts < MaxStarts
    /\ starts' = starts + 1
    /\ LET i == Available(op)
           sup == Supervised(op)
       IN  /\ IF i = None THEN UNCHANGED <<loc, trigger>>
              ELSE Take(i, op) /\ Program(i, {"set", "due", "missed"})
           /\ doubled' = (doubled \/ Running(op))
           /\ st' = IF sup = {} THEN st ELSE [st EXCEPT ![Min(sup)].idx = i]
    /\ UNCHANGED <<role, count, passed, timer, mail, thread, caller, held, panic, switches>>

(* app_bt_sync_irq_handler                                                 *)
\* mutant: only a timeout is mailed
PostTimeout(src, op) ==
    mail' = IF src = None /\ Len(mail) < MAILS
            THEN Append(mail, [src |-> src, op |-> op]) ELSE mail
Post(src, op) ==
    mail' = IF Len(mail) < MAILS THEN Append(mail, [src |-> src, op |-> op]) ELSE mail
Irq(i) ==
    /\ ~panic /\ trigger[i] = "due"
    /\ trigger' = [trigger EXCEPT ![i] = "off"]
    /\ loc' = [loc EXCEPT ![i].used = FALSE]
    /\ Post(i, loc[i].op)
    /\ UNCHANGED <<role, supVars, thread, caller, held, panic, ghostVars>>

(* app_bt_sync_send_trigger_info_timeout_handler: of the first entry,      *)
(* whatever it is; where that has no channel it writes behind the table.   *)
Expire ==
    /\ ~panic /\ timer = 0
    /\ timer' = Off
    /\ loc' = IF st[1].idx = None THEN loc ELSE [loc EXCEPT ![st[1].idx].used = FALSE]
    /\ panic' = (st[1].idx = None)
    /\ Post(None, st[1].op)
    /\ UNCHANGED <<role, st, count, passed, trigger, thread, caller, held, ghostVars>>

(* app_bt_sync_thread: the mail, the supervision it looks up.              *)
TakeMail ==
    /\ ~panic /\ thread = STREAM /\ mail # <<>>
    /\ mail' = Tail(mail)
    /\ thread' = IF Supervised(Head(mail).op) # {} THEN Head(mail).op ELSE STREAM
    /\ UNCHANGED <<role, loc, supVars, trigger, caller, held, panic, ghostVars>>

(* app_bt_sync_remove_waiting_rsp_timeout_supervision                      *)
\* mutant: the first entry is dropped, whichever it was
RemovedFirst(op) ==
    [i \in DOMAIN st |-> IF i < count THEN st[i + 1] ELSE st[i]]
Removed(op) ==
    LET at == Min(Supervised(op))
    IN  [i \in DOMAIN st |-> IF i \in at .. (count - 1) THEN st[i + 1] ELSE st[i]]
\* mutant: the timer is not started again for the next supervision
RearmedOff(s) == Off
Rearmed(s) == s[1].ms
Remove ==
    LET s == Removed(thread)
        n == count - 1
    IN  /\ ~panic /\ thread # STREAM
        /\ thread' = STREAM
        /\ count' = n
        /\ \/ /\ n > 0 /\ ~Missed(s, n)
              /\ st' = Refreshed(s, n) /\ passed' = 0
              /\ timer' = Rearmed(st')
              /\ UNCHANGED panic
           \/ /\ n > 0 /\ Missed(s, n)
              /\ panic' = TRUE
              /\ st' = s /\ UNCHANGED <<passed, timer>>
           \/ /\ n = 0
              /\ st' = s /\ timer' = Off
              /\ UNCHANGED <<passed, panic>>
        /\ UNCHANGED <<role, loc, trigger, mail, caller, held, ghostVars>>

(* The streams take channels and release them.                             *)
StreamTake ==
    /\ Quiet /\ Available(STREAM) # None
    /\ Take(Available(STREAM), STREAM)
    /\ held' = held \cup {Available(STREAM)}
    /\ UNCHANGED <<role, supVars, trigger, mail, thread, caller, panic, ghostVars>>
StreamRelease(i) ==
    /\ Quiet /\ i \in held
    /\ loc' = [loc EXCEPT ![i].used = FALSE]
    /\ held' = held \ {i}
    /\ UNCHANGED <<role, supVars, trigger, mail, thread, caller, panic, ghostVars>>

(* The earbuds change their roles.                                         *)
Switch ==
    /\ Quiet /\ caller = Nobody /\ switches < MaxSwitches
    /\ switches' = switches + 1
    /\ role' = IF role = "master" THEN "slave" ELSE "master"
    /\ UNCHANGED <<loc, supVars, trigger, mail, thread, caller, held, panic, doubled, starts>>

(* Time passes when nothing is due.                                        *)
Tick ==
    /\ Quiet /\ caller = Nobody /\ timer # 0
    /\ \A i \in Channels : trigger[i] # "due"
    /\ count > 0 \/ \E i \in Channels : trigger[i] = "set"
    /\ timer' = IF timer = Off THEN Off ELSE timer - 1
    /\ passed' = IF count > 0 THEN passed + 1 ELSE passed
    /\ trigger' = [i \in Channels |->
                    IF trigger[i] = "set" THEN "due" ELSE trigger[i]]
    /\ UNCHANGED <<role, loc, st, count, mail, thread, caller, held, panic, ghostVars>>

Work ==
    \/ Add \/ Expire \/ TakeMail \/ Remove \/ Tick
    \/ \E i \in Channels : Irq(i)
Next ==
    \/ Work
    \/ \E op \in Ops : Enable(op) \/ Command(op)
    \/ StreamTake \/ (\E i \in Channels : StreamRelease(i)) \/ Switch
Spec == Init /\ [][Next]_vars
FairSpec == Spec /\ WF_vars(Work)

-----------------------------------------------------------------------------
(* Properties                                                              *)

(* Every supervision has someone to end it: the timer runs for the first   *)
(* one and for no longer than it is given, or the thread has been told.    *)
Watched ==
    (count > 0 /\ ~panic) =>
        \/ timer = st[1].ms - passed
        \/ thread # STREAM
        \/ \E k \in DOMAIN mail : Supervised(mail[k].op) # {}

(* A stream that has taken a channel keeps it until it releases it: no     *)
(* operation is given it and no timeout frees it -- as long as no          *)
(* operation is started while one of its kind runs.                        *)
StreamsKeepChannels ==
    ~doubled => \A i \in held : loc[i].used /\ loc[i].op = STREAM

(* A timeout frees the channel of the operation that timed out, never one  *)
(* that was freed, and taken by another, in the meantime.                  *)
FreesItsOwn ==
    [][(timer = 0 /\ timer' = Off /\ loc' # loc /\ ~doubled) =>
            loc[st[1].idx].used /\ loc[st[1].idx].op = st[1].op]_vars

(* The channel of a supervised operation is freed, by the trigger or by    *)
(* the timeout, unless an operation of its kind is started meanwhile and   *)
(* moves the supervision to another channel; a failed assertion stops all. *)
ChannelsReturn ==
    \A i \in Channels :
        (\E k \in 1..count : st[k].idx = i /\ loc[i].used)
            ~> (~loc[i].used \/ panic \/ doubled)
=============================================================================
