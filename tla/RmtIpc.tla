------------------------------- MODULE RmtIpc -------------------------------
(***************************************************************************)
(* platform/hal/hal_rmt_ipc.c: one direction of one channel between two    *)
(* cores, over the interrupts of platform/hal/hal_mcu2sens.c.  The sender  *)
(* links records to messages into two lists: the one the peer's interrupt  *)
(* walks, in shared memory, and the pending one behind it.  The peer walks *)
(* the list record by record, while the sender goes on sending, and then   *)
(* clears the indication; that raises the sender's done interrupt, which   *)
(* releases the records and hands over the pending list.                   *)
(*                                                                         *)
(* Both cores run at once: the steps of the walk interleave with those of  *)
(* the sender, whose own are under int_lock or in its interrupt.           *)
(***************************************************************************)
EXTENDS Naturals, Sequences, SequencesExt, FiniteSets

CONSTANTS
    Data,                          \* messages
    NULL,                          \* the message of a record never used
    HAL_RMT_IPC_MAX_SEND_REC_CNT   \* records of a channel

ASSUME RecordsAssumption == HAL_RMT_IPC_MAX_SEND_REC_CNT \in Nat \ {0}

Record == 1 .. HAL_RMT_IPC_MAX_SEND_REC_CNT

VARIABLES
    in_use, data,           \* of each record
    send_msg_list_p,        \* records the peer may walk, in order
    send_pending_list_p,    \* records behind them, in order
    chan_busy,              \* the sender's wake lock
    send_ind, recv_done,    \* the two interrupts, as raised
    chan_opened,            \* the peer has opened the channel for receiving
    walked,                 \* messages of the list the peer has handled
    walking                 \* the peer is in its interrupt, which is masked

vars == <<in_use, data, send_msg_list_p, send_pending_list_p, chan_busy,
          send_ind, recv_done, chan_opened, walked, walking>>
sender == <<in_use, data, send_msg_list_p, send_pending_list_p, chan_busy>>

Init ==
    /\ in_use = [r \in Record |-> FALSE]
    /\ data = [r \in Record |-> NULL]
    /\ send_msg_list_p = <<>> /\ send_pending_list_p = <<>>
    /\ chan_busy = FALSE
    /\ send_ind = FALSE /\ recv_done = FALSE
    /\ chan_opened = FALSE
    /\ walked = 0 /\ walking = FALSE

-----------------------------------------------------------------------------
\* hal_rmt_ipc_send_seq takes the first free record -- where there is none it
\* fails and changes nothing --
Free(r) == ~in_use[r] /\ \A s \in 1 .. r - 1 : in_use[s]

\* and makes it the list, telling the peer, where there is none, or puts it
\* at the end of the pending list.
SendToList(r, d) ==  \* mutant: every message goes to the list the peer walks
    /\ Free(r)
    /\ in_use' = [in_use EXCEPT ![r] = TRUE]
    /\ data' = [data EXCEPT ![r] = d]
    /\ send_msg_list_p' = Append(send_msg_list_p, r)
    /\ send_ind' = TRUE /\ chan_busy' = TRUE
    /\ UNCHANGED <<send_pending_list_p, recv_done, chan_opened, walked, walking>>
SendInFront(r, d) ==  \* mutant: the pending list is a stack
    /\ Free(r)
    /\ in_use' = [in_use EXCEPT ![r] = TRUE]
    /\ data' = [data EXCEPT ![r] = d]
    /\ IF send_msg_list_p = <<>>
         THEN /\ send_msg_list_p' = <<r>> /\ send_ind' = TRUE
              /\ UNCHANGED send_pending_list_p
         ELSE /\ send_pending_list_p' = <<r>> \o send_pending_list_p
              /\ UNCHANGED <<send_msg_list_p, send_ind>>
    /\ chan_busy' = TRUE
    /\ UNCHANGED <<recv_done, chan_opened, walked, walking>>
Send(r, d) ==
    /\ Free(r)
    /\ in_use' = [in_use EXCEPT ![r] = TRUE]
    /\ data' = [data EXCEPT ![r] = d]
    /\ IF send_msg_list_p = <<>>
         THEN /\ send_msg_list_p' = <<r>> /\ send_ind' = TRUE
              /\ UNCHANGED send_pending_list_p
         ELSE /\ send_pending_list_p' = Append(send_pending_list_p, r)
              /\ UNCHANGED <<send_msg_list_p, send_ind>>
    /\ chan_busy' = TRUE
    /\ UNCHANGED <<recv_done, chan_opened, walked, walking>>

\* hal_rmt_ipc_tx_irq_handler_by_id
TxIrqFirst ==  \* mutant: only the first record is released
    /\ recv_done
    /\ recv_done' = FALSE
    /\ in_use' = [in_use EXCEPT ![Head(send_msg_list_p)] = FALSE]
    /\ send_msg_list_p' = send_pending_list_p
    /\ send_pending_list_p' = <<>>
    /\ IF send_pending_list_p # <<>>
         THEN send_ind' = TRUE /\ UNCHANGED chan_busy
         ELSE chan_busy' = FALSE /\ UNCHANGED send_ind
    /\ UNCHANGED <<data, chan_opened, walked, walking>>
TxIrqSilent ==  \* mutant: the peer is not told of the pending list
    /\ recv_done
    /\ recv_done' = FALSE
    /\ in_use' = [r \in Record |-> in_use[r] /\ ~Contains(send_msg_list_p, r)]
    /\ send_msg_list_p' = send_pending_list_p
    /\ send_pending_list_p' = <<>>
    /\ chan_busy' = (send_pending_list_p # <<>>)
    /\ UNCHANGED <<data, send_ind, chan_opened, walked, walking>>
TxIrq ==
    /\ recv_done
    /\ recv_done' = FALSE
    /\ in_use' = [r \in Record |-> in_use[r] /\ ~Contains(send_msg_list_p, r)]
    /\ send_msg_list_p' = send_pending_list_p
    /\ send_pending_list_p' = <<>>
    /\ IF send_pending_list_p # <<>>
         THEN send_ind' = TRUE /\ UNCHANGED chan_busy
         ELSE chan_busy' = FALSE /\ UNCHANGED send_ind
    /\ UNCHANGED <<data, chan_opened, walked, walking>>

-----------------------------------------------------------------------------
\* The peer: hal_rmt_ipc_open and hal_rmt_ipc_start_recv, hal_rmt_ipc_stop_recv.
StartRecv ==
    /\ ~chan_opened
    /\ chan_opened' = TRUE
    /\ UNCHANGED <<sender, send_ind, recv_done, walked, walking>>

StopRecv ==
    /\ chan_opened /\ ~walking
    /\ chan_opened' = FALSE
    /\ UNCHANGED <<sender, send_ind, recv_done, walked, walking>>

\* hal_rmt_ipc_rx_irq_handler is entered, which masks the interrupt;
RxIrq ==
    /\ chan_opened /\ send_ind /\ ~walking
    /\ walking' = TRUE
    /\ UNCHANGED <<sender, send_ind, recv_done, chan_opened, walked>>

\* hands one message to the receiver's handler, which takes it whole;
RxMsg ==
    /\ walking /\ walked < Len(send_msg_list_p)
    /\ walked' = walked + 1
    /\ UNCHANGED <<sender, send_ind, recv_done, chan_opened, walking>>

\* and is done with the list: clearing the indication raises the sender's
\* done interrupt.
RxDone ==
    /\ walking /\ walked = Len(send_msg_list_p)
    /\ walking' = FALSE /\ walked' = 0
    /\ send_ind' = FALSE /\ recv_done' = TRUE
    /\ UNCHANGED <<sender, chan_opened>>

Next ==
    \/ \E r \in Record, d \in Data : Send(r, d)
    \/ TxIrq
    \/ StartRecv \/ StopRecv
    \/ RxIrq \/ RxMsg \/ RxDone

Spec == Init /\ [][Next]_vars

\* Both cores serve their interrupts, and a peer that stopped receiving
\* starts again.
FairSpec ==
    /\ Spec
    /\ WF_vars(TxIrq) /\ WF_vars(StartRecv)
    /\ SF_vars(RxIrq) /\ WF_vars(RxMsg) /\ WF_vars(RxDone)

-----------------------------------------------------------------------------
Linked == send_msg_list_p \o send_pending_list_p

\* The lists hold records, the walk stays within its list, and a message is
\* what was sent.
TypeOK ==
    /\ in_use \in [Record -> BOOLEAN]
    /\ data \in [Record -> Data \cup {NULL}]
    /\ send_msg_list_p \in Seq(Record) /\ send_pending_list_p \in Seq(Record)
    /\ \A i \in 1 .. Len(Linked) : data[Linked[i]] \in Data
    /\ walked \in 0 .. Len(send_msg_list_p)
    /\ {chan_busy, send_ind, recv_done, chan_opened, walking} \subseteq BOOLEAN

\* A record taken is in one of the lists, once, and the lists hold no other:
\* none leaks, and none is sent twice.
RecordsAccounted ==
    /\ \A r \in Record : in_use[r] <=> \E i \in 1 .. Len(Linked) : Linked[i] = r
    /\ \A i, j \in 1 .. Len(Linked) : Linked[i] = Linked[j] => i = j

\* A list is announced by exactly one of the two interrupts until it is
\* released, and nothing is pending without one: no wakeup is lost, whatever
\* the order in which the two cores serve them.
AnnouncedOnce ==
    /\ ~(send_ind /\ recv_done)
    /\ (send_ind \/ recv_done) <=> send_msg_list_p # <<>>
    /\ walking => send_ind
    /\ ~walking => walked = 0
    /\ send_pending_list_p # <<>> => send_msg_list_p # <<>>

\* The sender stays awake as long as the peer may read its records.
AwakeWhileSending == chan_busy <=> \E r \in Record : in_use[r]

\* The list the peer walks, in the sender's memory and without a lock, does
\* not change under it, nor do its messages.
ListFrozen ==
    [][walking => /\ UNCHANGED send_msg_list_p
                  /\ \A i \in 1 .. Len(send_msg_list_p) :
                       data'[send_msg_list_p[i]] = data[send_msg_list_p[i]]]_vars

\* The channel is what its users rely on: in order, once, nothing lost.
Handled == IF recv_done THEN Len(send_msg_list_p) ELSE walked
Waiting ==
    [i \in 1 .. Len(Linked) - Handled |-> data[Linked[Handled + i]]]

Channel == INSTANCE IpcChannel WITH
    RECORDS <- HAL_RMT_IPC_MAX_SEND_REC_CNT,
    queue <- Waiting, batch <- Len(send_msg_list_p) - Handled, delivered <- Handled

ImplementsChannel == Channel!Spec

\* Every record sent is released again, for the next message.
EventuallyReleased == \A r \in Record : in_use[r] ~> ~in_use[r]
=============================================================================
