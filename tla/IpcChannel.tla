----------------------------- MODULE IpcChannel -----------------------------
(***************************************************************************)
(* What the users of a channel between two cores rely on.  An accepted     *)
(* message is delivered once and in order.  The records of messages, a     *)
(* fixed number, are given back batch by batch: the next batch, all that   *)
(* was accepted meanwhile, is delivered after that.                        *)
(***************************************************************************)
EXTENDS Naturals, Sequences

CONSTANTS Data, RECORDS

VARIABLES
    queue,      \* messages accepted and not yet delivered
    batch,      \* how many of them belong to the batch being delivered
    delivered   \* messages of that batch already delivered

Init == queue = <<>> /\ batch = 0 /\ delivered = 0

Full == Len(queue) + delivered = RECORDS

Accept(d) ==
    /\ ~Full
    /\ queue' = Append(queue, d)
    /\ batch' = IF batch + delivered = 0 THEN 1 ELSE batch
    /\ UNCHANGED delivered

Deliver ==
    /\ batch > 0
    /\ queue' = Tail(queue) /\ batch' = batch - 1 /\ delivered' = delivered + 1

GiveBack ==
    /\ batch = 0 /\ delivered > 0
    /\ delivered' = 0 /\ batch' = Len(queue)
    /\ UNCHANGED queue

Next == (\E d \in Data : Accept(d)) \/ Deliver \/ GiveBack

Spec == Init /\ [][Next]_<<queue, batch, delivered>>
=============================================================================
