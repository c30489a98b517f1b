--------------------------------- MODULE Rpc --------------------------------
(***************************************************************************)
(* services/rpc/rpc.c on two cores, BTH, whose threads call, and DSP, whose *)
(* local thread executes.  A command and its response travel in two shared *)
(* buffers, each written by one core and read by the other; the channel    *)
(* between the cores (IpcChannel, which RmtIpc implements) only carries    *)
(* the word that the writer's buffer has changed.                          *)
(*                                                                         *)
(* The callers run, and are preempted, between setting a packet up (under  *)
(* the mutex), sending it, being woken and reading the response.  A packet *)
(* is set up and read at once: the bytes of one write and one read do not  *)
(* interleave.                                                             *)
(***************************************************************************)
EXTENDS Naturals, Sequences, FiniteSets

CONSTANTS
    Callers,      \* threads of BTH
    Commands,     \* commands they call; each has an answer of its own length
    Registered,   \* those that DSP has registered
    MaxCalls,     \* bound on the calls and notifications
    MaxTimeouts,  \* bound on the calls that time out
    MaxNotifies   \* bound on the notifications

HANDSHAKE == "handshake"
RECORDS == 3      \* HAL_RMT_IPC_MAX_SEND_REC_CNT
SEM_MAX == 3      \* of core_ctx->sem_id
OneMessage == 1   \* mutant: a queue of one
MQ_LEN == 5       \* of rpc_mq

ASSUME CallersAssumption == IsFiniteSet(Callers)
ASSUME CommandsAssumption == HANDSHAKE \notin Commands /\ Registered \subseteq Commands
ASSUME BoundsAssumption == {MaxCalls, MaxTimeouts, MaxNotifies} \subseteq Nat

\* A packet; call, the number of the call it belongs to, is an observation.
Packet == [kind : {"none", "exec", "signal", "rsp"}, cmd : Commands \cup {HANDSHAKE},
           err : BOOLEAN, call : Nat]
Pkt(kind, cmd, err, call) == [kind |-> kind, cmd |-> cmd, err |-> err, call |-> call]
Blank == Pkt("none", HANDSHAKE, FALSE, 0)

VARIABLES
    connected,                   \* of each core
    rx_opened,                   \* DSP has run rpc_open_backend
    cmd_buf, rsp_buf,            \* the buffers that BTH and DSP write
    cmd_q, cmd_batch, cmd_done,  \* the channel from BTH to DSP
    rsp_q, rsp_batch, rsp_done,  \* the channel from DSP to BTH
    sem_id,                      \* BTH's semaphore
    rpc_mq,                      \* DSP's queue
    local,                       \* DSP's thread: "get", "setup" or "send", and its packet
    caller,                      \* of each caller: pc, its call, and what it returned
    calls, timeouts, notifies,   \* so far
    executed,                    \* how often each call was executed
    panic                        \* an assertion has failed

chan == <<cmd_q, cmd_batch, cmd_done, rsp_q, rsp_batch, rsp_done>>
dsp == <<rx_opened, rsp_buf, rpc_mq, local, executed>>
counts == <<calls, timeouts, notifies>>
vars == <<connected, cmd_buf, chan, sem_id, dsp, caller, counts, panic>>

ToDsp == INSTANCE IpcChannel WITH Data <- {"cmd_buf"},
             queue <- cmd_q, batch <- cmd_batch, delivered <- cmd_done
ToBth == INSTANCE IpcChannel WITH Data <- {"rsp_buf"},
             queue <- rsp_q, batch <- rsp_batch, delivered <- rsp_done

NoCall == [pc |-> "idle", kind |-> "exec", cmd |-> HANDSHAKE, call |-> 0,
           ret |-> "none", got |-> 0]

Init ==
    /\ connected = [BTH |-> FALSE, DSP |-> FALSE]
    /\ rx_opened = FALSE
    /\ cmd_buf = Blank /\ rsp_buf = Blank
    /\ ToDsp!Init /\ ToBth!Init
    /\ sem_id = 0 /\ rpc_mq = <<>>
    /\ local = [pc |-> "get", pkt |-> Blank]
    /\ caller = [t \in Callers |-> NoCall]
    /\ calls = 0 /\ timeouts = 0 /\ notifies = 0
    /\ executed = [n \in 1 .. MaxCalls |-> 0]
    /\ panic = FALSE

-----------------------------------------------------------------------------
(***************************************************************************)
(* BTH: a caller                                                           *)
(***************************************************************************)

\* rpc_handshake from rpc_open_frontend, which tries again until one succeeds;
\* rpc_exec_cmd_sync and rpc_notify_cmd, which need the connection.
Allowed(kind, cmd) ==
    /\ calls < MaxCalls
    /\ cmd = HANDSHAKE => ~connected.BTH /\ kind = "exec"
    /\ cmd # HANDSHAKE => connected.BTH
    /\ kind = "signal" => notifies < MaxNotifies

\* rpc_setup_packet, under the mutex
Setup(t, kind, cmd) ==
    /\ caller[t].pc = "idle" /\ Allowed(kind, cmd)
    /\ calls' = calls + 1
    /\ notifies' = IF kind = "signal" THEN notifies + 1 ELSE notifies
    /\ cmd_buf' = Pkt(kind, cmd, FALSE, calls + 1)
    /\ caller' = [caller EXCEPT ![t] =
         [NoCall EXCEPT !.pc = "send", !.kind = kind, !.cmd = cmd, !.call = calls + 1]]
    /\ UNCHANGED <<connected, chan, sem_id, dsp, timeouts, panic>>

\* rpc_send, whose result is not looked at: where no record is free, the caller
\* goes on all the same.
Send(t) ==
    /\ caller[t].pc = "send"
    /\ ToDsp!Accept("cmd_buf") \/ (ToDsp!Full /\ UNCHANGED <<cmd_q, cmd_batch, cmd_done>>)
    /\ caller' = [caller EXCEPT ![t].pc =
                    IF caller[t].kind = "signal" THEN "idle" ELSE "wait"]
    /\ UNCHANGED <<connected, cmd_buf, rsp_q, rsp_batch, rsp_done, sem_id, dsp, counts,
                   panic>>

\* rpc_wait_for_complte: the semaphore is acquired,
WokenKeeps(t) ==  \* mutant: the token stays
    /\ caller[t].pc = "wait" /\ sem_id > 0
    /\ caller' = [caller EXCEPT ![t].pc = "read"]
    /\ UNCHANGED <<connected, cmd_buf, chan, sem_id, dsp, counts, panic>>
Woken(t) ==
    /\ caller[t].pc = "wait" /\ sem_id > 0
    /\ sem_id' = sem_id - 1
    /\ caller' = [caller EXCEPT ![t].pc = "read"]
    /\ UNCHANGED <<connected, cmd_buf, chan, dsp, counts, panic>>

\* or not in time;
Timeout(t) ==
    /\ caller[t].pc = "wait" /\ sem_id = 0
    /\ timeouts < MaxTimeouts
    /\ timeouts' = timeouts + 1
    /\ caller' = [caller EXCEPT ![t].pc = "idle", ![t].ret = "RPC_TIMEOUT"]
    /\ UNCHANGED <<connected, cmd_buf, chan, sem_id, dsp, calls, notifies, panic>>

\* the buffer holds whatever DSP wrote there last.
Read(t) ==
    /\ caller[t].pc = "read"
    /\ LET failed == rsp_buf.kind # "rsp" \/ rsp_buf.err
           fits   == rsp_buf.cmd = caller[t].cmd
       IN  /\ panic' = (~failed /\ ~fits)
           /\ caller' = [caller EXCEPT ![t].pc = "idle", ![t].got = rsp_buf.call,
                          ![t].ret = IF failed THEN "RPC_CMD_ERR" ELSE "RPC_OK"]
           /\ connected' = IF caller[t].cmd = HANDSHAKE /\ ~failed /\ fits
                             THEN [connected EXCEPT !.BTH = TRUE] ELSE connected
    /\ UNCHANGED <<cmd_buf, chan, sem_id, dsp, counts>>

\* rpc_msg_receive and rpc_handle_response, in the interrupt
ReceiveRsp ==
    /\ ToBth!Deliver
    /\ sem_id' = IF sem_id < SEM_MAX THEN sem_id + 1 ELSE sem_id
    /\ UNCHANGED <<connected, cmd_buf, cmd_q, cmd_batch, cmd_done, dsp, caller, counts,
                   panic>>

-----------------------------------------------------------------------------
(***************************************************************************)
(* DSP                                                                     *)
(***************************************************************************)

\* rpc_open_backend, up to its wait for the connection
OpenBackend ==
    /\ ~rx_opened
    /\ rx_opened' = TRUE
    /\ UNCHANGED <<connected, cmd_buf, chan, sem_id, rsp_buf, rpc_mq, local, executed,
                   caller, counts, panic>>

\* rpc_msg_receive, in the interrupt: the packet is copied as the buffer holds it.
ReceiveCmd ==
    /\ rx_opened
    /\ ToDsp!Deliver
    /\ rpc_mq' = IF Len(rpc_mq) < MQ_LEN THEN Append(rpc_mq, cmd_buf) ELSE rpc_mq
    /\ UNCHANGED <<connected, cmd_buf, rsp_q, rsp_batch, rsp_done, sem_id, rx_opened,
                   rsp_buf, local, executed, caller, counts, panic>>

\* rpc_locol_thread: rpc_handle_recv_msg, up to the response of rpc_handshake_rmt
\* or of the handler that rpc_exec_cmd finds
ExecuteFound ==  \* mutant: an unknown command is not answered
    /\ local.pc = "get" /\ rpc_mq # <<>>
    /\ rpc_mq' = Tail(rpc_mq)
    /\ LET pkt == Head(rpc_mq)
           found == pkt.cmd \in Registered \cup {HANDSHAKE}
       IN  /\ connected' = IF pkt.cmd = HANDSHAKE
                             THEN [connected EXCEPT !.DSP = TRUE] ELSE connected
           /\ executed' = IF found THEN [executed EXCEPT ![pkt.call] = @ + 1]
                                   ELSE executed
           /\ local' = IF pkt.kind = "signal" \/ ~found THEN local
                       ELSE [pc |-> "setup", pkt |-> Pkt("rsp", pkt.cmd, ~found, pkt.call)]
    /\ UNCHANGED <<cmd_buf, chan, sem_id, rx_opened, rsp_buf, caller, counts, panic>>
Execute ==
    /\ local.pc = "get" /\ rpc_mq # <<>>
    /\ rpc_mq' = Tail(rpc_mq)
    /\ LET pkt == Head(rpc_mq)
           found == pkt.cmd \in Registered \cup {HANDSHAKE}
       IN  /\ connected' = IF pkt.cmd = HANDSHAKE
                             THEN [connected EXCEPT !.DSP = TRUE] ELSE connected
           /\ executed' = IF found THEN [executed EXCEPT ![pkt.call] = @ + 1]
                                   ELSE executed
           /\ local' = IF pkt.kind = "signal" THEN local
                       ELSE [pc |-> "setup", pkt |-> Pkt("rsp", pkt.cmd, ~found, pkt.call)]
    /\ UNCHANGED <<cmd_buf, chan, sem_id, rx_opened, rsp_buf, caller, counts, panic>>

\* rpc_send_rsp: the packet, under the mutex,
SetupOwn ==  \* mutant: the buffers were not swapped
    /\ local.pc = "setup"
    /\ cmd_buf' = local.pkt
    /\ local' = [local EXCEPT !.pc = "send"]
    /\ UNCHANGED <<connected, rsp_buf, chan, sem_id, rx_opened, rpc_mq, executed, caller,
                   counts, panic>>
SetupRsp ==
    /\ local.pc = "setup"
    /\ rsp_buf' = local.pkt
    /\ local' = [local EXCEPT !.pc = "send"]
    /\ UNCHANGED <<connected, cmd_buf, chan, sem_id, rx_opened, rpc_mq, executed, caller,
                   counts, panic>>

\* and the word of it, whose fate is not looked at.
SendRsp ==
    /\ local.pc = "send"
    /\ ToBth!Accept("rsp_buf") \/ (ToBth!Full /\ UNCHANGED <<rsp_q, rsp_batch, rsp_done>>)
    /\ local' = [pc |-> "get", pkt |-> Blank]
    /\ UNCHANGED <<connected, cmd_buf, cmd_q, cmd_batch, cmd_done, sem_id, rx_opened,
                   rsp_buf, rpc_mq, executed, caller, counts, panic>>

-----------------------------------------------------------------------------
\* The channels give their records back.
Release ==
    /\ \/ ToDsp!GiveBack /\ UNCHANGED <<rsp_q, rsp_batch, rsp_done>>
       \/ ToBth!GiveBack /\ UNCHANGED <<cmd_q, cmd_batch, cmd_done>>
    /\ UNCHANGED <<connected, cmd_buf, sem_id, dsp, caller, counts, panic>>

Begin(t) == \E kind \in {"exec", "signal"}, cmd \in Commands \cup {HANDSHAKE} :
                Setup(t, kind, cmd)

Caller(t) == Begin(t) \/ Send(t) \/ Woken(t) \/ Timeout(t) \/ Read(t)
Dsp == OpenBackend \/ ReceiveCmd \/ Execute \/ SetupRsp \/ SendRsp

Next ==
    /\ ~panic
    /\ (\E t \in Callers : Caller(t)) \/ ReceiveRsp \/ Dsp \/ Release

Spec == Init /\ [][Next]_vars

\* Both cores run their threads and serve their interrupts, and DSP comes up.
\* Nobody has to begin a call, nor need one time out.
FairSpec ==
    /\ Spec
    /\ \A t \in Callers : WF_vars(~panic /\ (Send(t) \/ Woken(t) \/ Read(t)))
    /\ WF_vars(~panic /\ ReceiveRsp) /\ WF_vars(~panic /\ OpenBackend)
    /\ WF_vars(~panic /\ ReceiveCmd) /\ WF_vars(~panic /\ (Execute \/ SetupRsp \/ SendRsp))
    /\ WF_vars(~panic /\ ToDsp!GiveBack /\ Release)
    /\ WF_vars(~panic /\ ToBth!GiveBack /\ Release)

-----------------------------------------------------------------------------
\* The wakeups that BTH is still to get: tokens, responses on their way, and
\* commands that DSP has yet to answer.  What it reads for a word in the
\* channel is what the buffer holds by then.
Undelivered == IF cmd_buf.kind = "exec" THEN Len(cmd_q) ELSE 0
Wakeups == sem_id + Len(rsp_q) + (IF local.pc = "get" THEN 0 ELSE 1) + Undelivered
             + Cardinality({i \in 1 .. Len(rpc_mq) : rpc_mq[i].kind = "exec"})

Waiting == {t \in Callers : caller[t].pc = "wait"}

\* A caller that waits, for ever if it so asked, has a wakeup coming, whatever
\* earlier calls timed out, and whether or not its own word was refused.
WakeupComing == Cardinality(Waiting) <= Wakeups

\* Each timeout, and each notification, leaves at most one wakeup too many for
\* the calls after it.
SurplusBounded == Wakeups <= Cardinality(Waiting) + timeouts + notifies

\* Until a call times out or a notification is sent, a call returns the
\* response to itself, its command has been executed exactly once, it fails
\* only where DSP has no such command, and no assertion fails.
AnswerIsMine ==
    timeouts = 0 /\ notifies = 0 =>
      /\ ~panic
      /\ \A n \in 1 .. MaxCalls : executed[n] <= 1
      /\ \A t \in Callers :
           /\ caller[t].ret = "RPC_OK" => /\ caller[t].got = caller[t].call
                                          /\ executed[caller[t].call] = 1
           /\ caller[t].ret = "RPC_CMD_ERR" =>
                caller[t].cmd \notin Registered \cup {HANDSHAKE}

\* What the assertion of rpc_wait_for_complte takes for granted: the arguments
\* that a caller reads are those of its own command.
ArgsInSync == ~panic

\* A call returns, though nothing bounds its wait.
CallsReturn == \A t \in Callers : caller[t].pc = "wait" ~> caller[t].pc # "wait"
=============================================================================
