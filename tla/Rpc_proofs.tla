----------------------------- MODULE Rpc_proofs -----------------------------
(***************************************************************************)
(* Proofs about Rpc.  For any number of calling threads, calls, timeouts   *)
(* and notifications: wakeups in excess are accounted for.  For one thread *)
(* and any number of calls and timeouts: a caller that waits has a wakeup  *)
(* coming, and a call returns what belongs to it.                          *)
(***************************************************************************)
EXTENDS Rpc, FiniteSetTheorems, SequenceTheorems, TLAPS

Cmd == Commands \cup {HANDSHAKE}
Call == [pc : {"idle", "send", "wait", "read"}, kind : {"exec", "signal"}, cmd : Cmd,
         call : Nat, ret : {"none", "RPC_OK", "RPC_CMD_ERR", "RPC_TIMEOUT"}, got : Nat]

CmdWords == {"cmd_buf"}
RspWords == {"rsp_buf"}

(* A channel: of what it holds, two records at most are in the batch being *)
(* delivered, so that one that is full holds a word not delivered yet.     *)
ChannelOK(q, batch, done) ==
    /\ batch \in Nat /\ done \in Nat
    /\ batch <= Len(q) /\ Len(q) + done <= RECORDS
    /\ batch + done <= RECORDS - 1

Types ==
    /\ cmd_buf \in Packet /\ rsp_buf \in Packet
    /\ cmd_q \in Seq(CmdWords) /\ ChannelOK(cmd_q, cmd_batch, cmd_done)
    /\ rsp_q \in Seq(RspWords) /\ ChannelOK(rsp_q, rsp_batch, rsp_done)
    /\ sem_id \in 0 .. SEM_MAX
    /\ rpc_mq \in Seq(Packet) /\ Len(rpc_mq) <= MQ_LEN
    /\ local \in [pc : {"get", "setup", "send"}, pkt : Packet]
    /\ caller \in [Callers -> Call]
    /\ calls \in Nat /\ timeouts \in Nat /\ notifies \in Nat
    /\ executed \in [1 .. MaxCalls -> Nat]

(* What DSP receives is a command or a notification.                       *)
ReceivedKinds == \A i \in 1 .. Len(rpc_mq) : rpc_mq[i].kind \in {"exec", "signal"}
Written ==
    \/ cmd_buf.kind \in {"exec", "signal"}
    \/ cmd_q = <<>> /\ \A t \in Callers : caller[t].pc = "idle"

Inv == Types /\ ReceivedKinds /\ Written

-----------------------------------------------------------------------------
(***************************************************************************)
(* The channels and the queue of DSP                                       *)
(***************************************************************************)

LEMMA Channel ==
    ASSUME NEW S, NEW m \in S, NEW q \in Seq(S), NEW b, NEW d, ChannelOK(q, b, d)
    PROVE  /\ Len(q) \in Nat /\ (q = <<>> <=> Len(q) = 0) /\ b \in Nat /\ d \in Nat
           /\ Len(q) + d = RECORDS => Len(q) >= 1
           /\ Len(q) + d # RECORDS =>
                /\ Append(q, m) \in Seq(S) /\ Len(Append(q, m)) = Len(q) + 1
                /\ b + d = 0 => ChannelOK(Append(q, m), 1, d)
                /\ b + d # 0 => ChannelOK(Append(q, m), b, d)
           /\ b > 0 => /\ Tail(q) \in Seq(S) /\ Len(q) = Len(Tail(q)) + 1
                       /\ ChannelOK(Tail(q), b - 1, d + 1)
           /\ b = 0 /\ d > 0 => ChannelOK(q, Len(q), 0)
<1> DEFINE A == Append(q, m)
           T == Tail(q)
<1>1. Len(q) \in Nat /\ (q = <<>> <=> Len(q) = 0)
    BY EmptySeq, LenProperties
<1>2. A \in Seq(S) /\ Len(A) = Len(q) + 1
    BY AppendProperties
<1>3. q # <<>> => T \in Seq(S) /\ Len(T) = Len(q) - 1
    BY HeadTailProperties
<1>4. /\ b \in Nat /\ d \in Nat /\ b <= Len(q) /\ Len(q) + d <= 3 /\ b + d <= 2
      /\ RECORDS = 3
    BY DEF ChannelOK, RECORDS
<1> HIDE DEF A, T
<1>5. Len(q) + d # 3 => /\ b + d = 0 => ChannelOK(A, 1, d)
                        /\ b + d # 0 => ChannelOK(A, b, d)
    BY <1>1, <1>2, <1>4 DEF ChannelOK
<1>6. b > 0 => ChannelOK(T, b - 1, d + 1)
    BY <1>1, <1>3, <1>4 DEF ChannelOK
<1>7. b = 0 /\ d > 0 => ChannelOK(q, Len(q), 0)
    BY <1>1, <1>4 DEF ChannelOK
<1> QED BY <1>1, <1>2, <1>3, <1>4, <1>5, <1>6, <1>7 DEF A, T

(* What the steps of the channels do.                                      *)
LEMMA CmdChannel ==
    ASSUME Inv
    PROVE  /\ Len(cmd_q) \in Nat /\ (cmd_q = <<>> <=> Len(cmd_q) = 0)
           /\ ToDsp!Full => Len(cmd_q) >= 1
           /\ ToDsp!Accept("cmd_buf") =>
                /\ cmd_q' \in Seq(CmdWords) /\ Len(cmd_q') = Len(cmd_q) + 1
                /\ ChannelOK(cmd_q', cmd_batch', cmd_done')
           /\ ToDsp!Deliver =>
                /\ cmd_q' \in Seq(CmdWords) /\ Len(cmd_q) = Len(cmd_q') + 1
                /\ ChannelOK(cmd_q', cmd_batch', cmd_done')
           /\ ToDsp!GiveBack => cmd_q' = cmd_q /\ ChannelOK(cmd_q', cmd_batch', cmd_done')
<1>1. /\ "cmd_buf" \in CmdWords
      /\ cmd_q \in Seq(CmdWords) /\ ChannelOK(cmd_q, cmd_batch, cmd_done)
    BY DEF Inv, Types, CmdWords
<1>2. /\ Len(cmd_q) \in Nat /\ (cmd_q = <<>> <=> Len(cmd_q) = 0)
      /\ Len(cmd_q) + cmd_done = RECORDS => Len(cmd_q) >= 1
      /\ Len(cmd_q) + cmd_done # RECORDS =>
           /\ Append(cmd_q, "cmd_buf") \in Seq(CmdWords)
           /\ Len(Append(cmd_q, "cmd_buf")) = Len(cmd_q) + 1
           /\ cmd_batch + cmd_done = 0 => ChannelOK(Append(cmd_q, "cmd_buf"), 1, cmd_done)
           /\ cmd_batch + cmd_done # 0 => ChannelOK(Append(cmd_q, "cmd_buf"), cmd_batch, cmd_done)
      /\ cmd_batch > 0 =>
           /\ Tail(cmd_q) \in Seq(CmdWords) /\ Len(cmd_q) = Len(Tail(cmd_q)) + 1
           /\ ChannelOK(Tail(cmd_q), cmd_batch - 1, cmd_done + 1)
      /\ cmd_batch = 0 /\ cmd_done > 0 => ChannelOK(cmd_q, Len(cmd_q), 0)
    BY <1>1, Channel
<1>3. ASSUME ToDsp!Accept("cmd_buf")
      PROVE  /\ cmd_q' \in Seq(CmdWords) /\ Len(cmd_q') = Len(cmd_q) + 1
             /\ ChannelOK(cmd_q', cmd_batch', cmd_done')
    BY <1>2, <1>3 DEF ToDsp!Accept, ToDsp!Full
<1>4. ASSUME ToDsp!Deliver
      PROVE  /\ cmd_q' \in Seq(CmdWords) /\ Len(cmd_q) = Len(cmd_q') + 1
             /\ ChannelOK(cmd_q', cmd_batch', cmd_done')
    BY <1>2, <1>4 DEF ToDsp!Deliver
<1>5. ASSUME ToDsp!GiveBack
      PROVE  cmd_q' = cmd_q /\ ChannelOK(cmd_q', cmd_batch', cmd_done')
    BY <1>2, <1>5 DEF ToDsp!GiveBack
<1> QED BY <1>2, <1>3, <1>4, <1>5 DEF ToDsp!Full

LEMMA RspChannel ==
    ASSUME Inv
    PROVE  /\ Len(rsp_q) \in Nat /\ (rsp_q = <<>> <=> Len(rsp_q) = 0)
           /\ ToBth!Full => Len(rsp_q) >= 1
           /\ ToBth!Accept("rsp_buf") =>
                /\ rsp_q' \in Seq(RspWords) /\ Len(rsp_q') = Len(rsp_q) + 1
                /\ ChannelOK(rsp_q', rsp_batch', rsp_done')
           /\ ToBth!Deliver =>
                /\ rsp_q' \in Seq(RspWords) /\ Len(rsp_q) = Len(rsp_q') + 1
                /\ ChannelOK(rsp_q', rsp_batch', rsp_done')
           /\ ToBth!GiveBack => rsp_q' = rsp_q /\ ChannelOK(rsp_q', rsp_batch', rsp_done')
<1>1. /\ "rsp_buf" \in RspWords
      /\ rsp_q \in Seq(RspWords) /\ ChannelOK(rsp_q, rsp_batch, rsp_done)
    BY DEF Inv, Types, RspWords
<1>2. /\ Len(rsp_q) \in Nat /\ (rsp_q = <<>> <=> Len(rsp_q) = 0)
      /\ Len(rsp_q) + rsp_done = RECORDS => Len(rsp_q) >= 1
      /\ Len(rsp_q) + rsp_done # RECORDS =>
           /\ Append(rsp_q, "rsp_buf") \in Seq(RspWords)
           /\ Len(Append(rsp_q, "rsp_buf")) = Len(rsp_q) + 1
           /\ rsp_batch + rsp_done = 0 => ChannelOK(Append(rsp_q, "rsp_buf"), 1, rsp_done)
           /\ rsp_batch + rsp_done # 0 => ChannelOK(Append(rsp_q, "rsp_buf"), rsp_batch, rsp_done)
      /\ rsp_batch > 0 =>
           /\ Tail(rsp_q) \in Seq(RspWords) /\ Len(rsp_q) = Len(Tail(rsp_q)) + 1
           /\ ChannelOK(Tail(rsp_q), rsp_batch - 1, rsp_done + 1)
      /\ rsp_batch = 0 /\ rsp_done > 0 => ChannelOK(rsp_q, Len(rsp_q), 0)
    BY <1>1, Channel
<1>3. ASSUME ToBth!Accept("rsp_buf")
      PROVE  /\ rsp_q' \in Seq(RspWords) /\ Len(rsp_q') = Len(rsp_q) + 1
             /\ ChannelOK(rsp_q', rsp_batch', rsp_done')
    BY <1>2, <1>3 DEF ToBth!Accept, ToBth!Full
<1>4. ASSUME ToBth!Deliver
      PROVE  /\ rsp_q' \in Seq(RspWords) /\ Len(rsp_q) = Len(rsp_q') + 1
             /\ ChannelOK(rsp_q', rsp_batch', rsp_done')
    BY <1>2, <1>4 DEF ToBth!Deliver
<1>5. ASSUME ToBth!GiveBack
      PROVE  rsp_q' = rsp_q /\ ChannelOK(rsp_q', rsp_batch', rsp_done')
    BY <1>2, <1>5 DEF ToBth!GiveBack
<1> QED BY <1>2, <1>3, <1>4, <1>5 DEF ToBth!Full

Indices(q, kind) == {i \in 1 .. Len(q) : q[i].kind = kind}
Count(q, kind) == Cardinality(Indices(q, kind))

LEMMA CountType ==
    ASSUME NEW q \in Seq(Packet), NEW kind
    PROVE  /\ IsFiniteSet(Indices(q, kind))
           /\ Len(q) \in Nat /\ Count(q, kind) \in Nat /\ Count(q, kind) <= Len(q)
<1>1. Len(q) \in Nat
    BY LenProperties
<1>2. IsFiniteSet(1 .. Len(q)) /\ Cardinality(1 .. Len(q)) = Len(q)
    BY <1>1, FS_Interval
<1>3. Indices(q, kind) \in SUBSET (1 .. Len(q))
    BY DEF Indices
<1> QED BY <1>1, <1>2, <1>3, FS_Subset, FS_CardinalityType DEF Count

LEMMA CountAppend ==
    ASSUME NEW q \in Seq(Packet), NEW p \in Packet, NEW kind
    PROVE  /\ Append(q, p) \in Seq(Packet) /\ Len(Append(q, p)) = Len(q) + 1
           /\ \A i \in 1 .. Len(q) + 1 :
                Append(q, p)[i] = IF i = Len(q) + 1 THEN p ELSE q[i]
           /\ Count(Append(q, p), kind) =
                Count(q, kind) + IF p.kind = kind THEN 1 ELSE 0
<1> DEFINE A == Append(q, p)
<1>1. /\ A \in Seq(Packet) /\ Len(A) = Len(q) + 1 /\ Len(q) \in Nat
      /\ \A i \in 1 .. Len(q) : A[i] = q[i]
      /\ A[Len(q) + 1] = p
    BY AppendProperties, LenProperties
<1> HIDE DEF A
<1>2. Indices(A, kind) = IF p.kind = kind THEN Indices(q, kind) \cup {Len(q) + 1}
                                          ELSE Indices(q, kind)
    BY <1>1 DEF Indices
<1>3. Len(q) + 1 \notin Indices(q, kind)
    BY <1>1 DEF Indices
<1>4. IsFiniteSet(Indices(q, kind)) /\ Cardinality(Indices(q, kind)) \in Nat
    BY CountType DEF Count
<1>5. Cardinality(Indices(q, kind) \cup {Len(q) + 1}) = Cardinality(Indices(q, kind)) + 1
    BY <1>3, <1>4, FS_AddElement
<1>6. Count(A, kind) = Count(q, kind) + IF p.kind = kind THEN 1 ELSE 0
    BY <1>2, <1>4, <1>5 DEF Count
<1>7. \A i \in 1 .. Len(q) + 1 : A[i] = IF i = Len(q) + 1 THEN p ELSE q[i]
    BY <1>1
<1> QED BY <1>1, <1>6, <1>7 DEF A

LEMMA CountTail ==
    ASSUME NEW q \in Seq(Packet), q # <<>>, NEW kind
    PROVE  /\ Tail(q) \in Seq(Packet) /\ Len(q) = Len(Tail(q)) + 1
           /\ Head(q) = q[1] /\ q[1] \in Packet
           /\ \A i \in 1 .. Len(Tail(q)) : Tail(q)[i] = q[i + 1]
           /\ Count(q, kind) = Count(Tail(q), kind) + IF q[1].kind = kind THEN 1 ELSE 0
<1> DEFINE A == Tail(q)
           S == Indices(q, kind)
           U == S \ {1}
           T == Indices(A, kind)
           f == [i \in T |-> i + 1]
<1>1. /\ A \in Seq(Packet) /\ Len(q) = Len(A) + 1 /\ Len(A) \in Nat
      /\ \A i \in 1 .. Len(A) : A[i] = q[i + 1]
      /\ Head(q) = q[1] /\ q[1] \in Packet
    BY HeadTailProperties, LenProperties
<1> HIDE DEF A
<1>2. f \in Bijection(T, U)
    <2>1. f \in [T -> U]
        BY <1>1 DEF Indices
    <2>2. \A i, j \in T : f[i] = f[j] => i = j
        BY DEF Indices
    <2>3. \A k \in U : \E i \in T : f[i] = k
        <3> SUFFICES ASSUME NEW k \in U PROVE \E i \in T : f[i] = k
            OBVIOUS
        <3>1. k - 1 \in T /\ k - 1 + 1 = k
            BY <1>1 DEF Indices
        <3> QED BY <3>1
    <2> QED BY <2>1, <2>2, <2>3 DEF Bijection, Injection, Surjection, IsInjective
<1>3. IsFiniteSet(T) /\ IsFiniteSet(S) /\ Cardinality(S) \in Nat /\ Cardinality(T) \in Nat
    BY <1>1, CountType DEF Count
<1>4. 1 \in S <=> q[1].kind = kind
    BY <1>1 DEF Indices
<1> HIDE DEF S, T
<1>5. Cardinality(U) = Cardinality(T)
    BY <1>2, <1>3, FS_Bijection DEF ExistsBijection
<1>6. Cardinality(U) = IF 1 \in S THEN Cardinality(S) - 1 ELSE Cardinality(S)
    BY <1>3, FS_RemoveElement
<1>7. Cardinality(S) = Cardinality(T) + IF q[1].kind = kind THEN 1 ELSE 0
    BY <1>3, <1>4, <1>5, <1>6
<1> QED BY <1>1, <1>7 DEF Count, A, S, T

(* The queue of DSP holds commands and notifications only.                 *)
LEMMA CountAll ==
    ASSUME Inv
    PROVE  Count(rpc_mq, "exec") + Count(rpc_mq, "signal") = Len(rpc_mq)
<1> DEFINE E == Indices(rpc_mq, "exec")
           S == Indices(rpc_mq, "signal")
<1>1. rpc_mq \in Seq(Packet)
    BY DEF Inv, Types
<1>2. /\ Len(rpc_mq) \in Nat /\ IsFiniteSet(E) /\ IsFiniteSet(S)
      /\ Cardinality(E) \in Nat /\ Cardinality(S) \in Nat
    BY <1>1, CountType DEF Count
<1>3. E \cup S = 1 .. Len(rpc_mq) /\ E \cap S = {}
    BY DEF Inv, ReceivedKinds, Indices
<1> HIDE DEF E, S
<1>4. Cardinality(E \cup S) = Cardinality(E) + Cardinality(S) - Cardinality(E \cap S)
    BY <1>2, FS_Union
<1>5. Cardinality(1 .. Len(rpc_mq)) = Len(rpc_mq)
    <2>1. Len(rpc_mq) \in Nat
        BY <1>2
    <2> QED BY <2>1, FS_Interval
<1>6. Cardinality(E \cap S) = 0
    BY <1>3, FS_EmptySet
<1>7. Cardinality(E) + Cardinality(S) = Len(rpc_mq)
    <2>1. Cardinality(E \cup S) = Len(rpc_mq)
        BY <1>3, <1>5
    <2> QED BY <1>2, <1>4, <1>6, <2>1
<1> QED BY <1>7 DEF Count, E, S

-----------------------------------------------------------------------------
(***************************************************************************)
(* Types                                                                   *)
(***************************************************************************)

LEMMA InitInv == Init => Inv
<1> SUFFICES ASSUME Init PROVE Inv
    OBVIOUS
<1>1. Blank \in Packet /\ NoCall \in Call
    BY DEF Blank, Pkt, Packet, NoCall, Call, Cmd
<1>2. cmd_q = <<>> /\ cmd_batch = 0 /\ cmd_done = 0
    BY DEF Init, ToDsp!Init
<1>3. rsp_q = <<>> /\ rsp_batch = 0 /\ rsp_done = 0
    BY DEF Init, ToBth!Init
<1>4. <<>> \in Seq(CmdWords) /\ <<>> \in Seq(RspWords) /\ <<>> \in Seq(Packet) /\ Len(<<>>) = 0
    BY EmptySeq
<1>5. ChannelOK(<<>>, 0, 0)
    BY <1>4 DEF ChannelOK, RECORDS
<1>6. Types
    <2>1. caller \in [Callers -> Call] /\ cmd_buf \in Packet /\ rsp_buf \in Packet
        BY <1>1 DEF Init
    <2>2. local \in [pc : {"get", "setup", "send"}, pkt : Packet]
        BY <1>1 DEF Init
    <2>3. executed \in [1 .. MaxCalls -> Nat]
        BY DEF Init
    <2>4. cmd_q \in Seq(CmdWords) /\ rsp_q \in Seq(RspWords)
        BY <1>2, <1>3, <1>4
    <2>5. ChannelOK(cmd_q, cmd_batch, cmd_done) /\ ChannelOK(rsp_q, rsp_batch, rsp_done)
        BY <1>2, <1>3, <1>5
    <2>6. rpc_mq \in Seq(Packet) /\ Len(rpc_mq) <= MQ_LEN
        BY <1>4 DEF Init, MQ_LEN
    <2> QED BY <2>1, <2>2, <2>3, <2>4, <2>5, <2>6 DEF Init, Types, SEM_MAX
<1>7. ReceivedKinds
    BY <1>4 DEF Init, ReceivedKinds
<1>8. Written
    BY <1>2 DEF Init, Written, NoCall
<1> QED BY <1>6, <1>7, <1>8 DEF Inv

LEMMA SetupInv ==
    ASSUME Inv, NEW t \in Callers, NEW kind \in {"exec", "signal"}, NEW cmd \in Cmd,
           Setup(t, kind, cmd)
    PROVE  Inv' /\ cmd_buf'.kind = kind
<1>1. calls + 1 \in Nat /\ calls' \in Nat /\ notifies' \in Nat
    BY DEF Setup, Inv, Types
<1>2. cmd_buf' \in Packet /\ cmd_buf'.kind = kind
    BY <1>1 DEF Setup, Pkt, Packet, Cmd
<1>3. [NoCall EXCEPT !.pc = "send", !.kind = kind, !.cmd = cmd, !.call = calls + 1] \in Call
    BY <1>1 DEF NoCall, Call
<1>4. caller' \in [Callers -> Call]
    BY <1>3 DEF Setup, Inv, Types
<1>5. /\ UNCHANGED <<rsp_buf, cmd_q, cmd_batch, cmd_done, rsp_q, rsp_batch, rsp_done, sem_id>>
      /\ UNCHANGED <<rpc_mq, local, executed, timeouts>>
    BY DEF Setup, chan, dsp
<1>6. Types'
    BY <1>1, <1>2, <1>4, <1>5 DEF Inv, Types
<1> QED BY <1>2, <1>5, <1>6 DEF Inv, ReceivedKinds, Written

LEMMA SendInv == ASSUME Inv, NEW t \in Callers, Send(t) PROVE Inv'
<1>1. caller' \in [Callers -> Call]
    <2>1. [caller[t] EXCEPT !.pc = IF caller[t].kind = "signal" THEN "idle" ELSE "wait"] \in Call
        BY DEF Inv, Types, Call
    <2> QED BY <2>1 DEF Send, Inv, Types
<1>2. cmd_q' \in Seq(CmdWords) /\ ChannelOK(cmd_q', cmd_batch', cmd_done')
    BY CmdChannel DEF Send, Inv, Types
<1>3. /\ UNCHANGED <<cmd_buf, rsp_buf, rsp_q, rsp_batch, rsp_done, sem_id>>
      /\ UNCHANGED <<rpc_mq, local, executed, calls, timeouts, notifies>>
    BY DEF Send, dsp, counts
<1>4. Types'
    BY <1>1, <1>2, <1>3 DEF Inv, Types
<1> QED BY <1>3, <1>4 DEF Send, Inv, ReceivedKinds, Written

LEMMA WokenInv == ASSUME Inv, NEW t \in Callers, Woken(t) PROVE Inv'
<1>1. caller' \in [Callers -> Call]
    <2>1. [caller[t] EXCEPT !.pc = "read"] \in Call
        BY DEF Inv, Types, Call
    <2> QED BY <2>1 DEF Woken, Inv, Types
<1>2. sem_id' \in 0 .. SEM_MAX
    BY DEF Woken, Inv, Types, SEM_MAX
<1>3. /\ UNCHANGED <<cmd_buf, rsp_buf, cmd_q, cmd_batch, cmd_done, rsp_q, rsp_batch, rsp_done>>
      /\ UNCHANGED <<rpc_mq, local, executed, calls, timeouts, notifies>>
    BY DEF Woken, chan, dsp, counts
<1>4. Types'
    BY <1>1, <1>2, <1>3 DEF Inv, Types
<1> QED BY <1>3, <1>4 DEF Woken, Inv, ReceivedKinds, Written

LEMMA TimeoutInv == ASSUME Inv, NEW t \in Callers, Timeout(t) PROVE Inv'
<1>1. caller' \in [Callers -> Call]
    <2>1. [caller[t] EXCEPT !.pc = "idle", !.ret = "RPC_TIMEOUT"] \in Call
        BY DEF Inv, Types, Call
    <2> QED BY <2>1 DEF Timeout, Inv, Types
<1>2. timeouts' \in Nat
    BY DEF Timeout, Inv, Types
<1>3. /\ UNCHANGED <<cmd_buf, rsp_buf, cmd_q, cmd_batch, cmd_done, rsp_q, rsp_batch, rsp_done>>
      /\ UNCHANGED <<sem_id, rpc_mq, local, executed, calls, notifies>>
    BY DEF Timeout, chan, dsp
<1>4. Types'
    BY <1>1, <1>2, <1>3 DEF Inv, Types
<1> QED BY <1>3, <1>4 DEF Timeout, Inv, ReceivedKinds, Written

LEMMA ReadInv == ASSUME Inv, NEW t \in Callers, Read(t) PROVE Inv'
<1>1. caller' \in [Callers -> Call]
    <2>1. rsp_buf.call \in Nat
        BY DEF Inv, Types, Packet
    <2>2. \A ret \in {"RPC_CMD_ERR", "RPC_OK"} :
            [caller[t] EXCEPT !.pc = "idle", !.got = rsp_buf.call, !.ret = ret] \in Call
        BY <2>1 DEF Inv, Types, Call
    <2>3. \E ret \in {"RPC_CMD_ERR", "RPC_OK"} :
            caller' = [caller EXCEPT ![t] =
              [caller[t] EXCEPT !.pc = "idle", !.got = rsp_buf.call, !.ret = ret]]
        BY DEF Read, Inv, Types
    <2> QED BY <2>2, <2>3 DEF Inv, Types
<1>2. /\ UNCHANGED <<cmd_buf, rsp_buf, cmd_q, cmd_batch, cmd_done, rsp_q, rsp_batch, rsp_done>>
      /\ UNCHANGED <<sem_id, rpc_mq, local, executed, calls, timeouts, notifies>>
    BY DEF Read, chan, dsp, counts
<1>3. Types'
    BY <1>1, <1>2 DEF Inv, Types
<1> QED BY <1>2, <1>3 DEF Read, Inv, ReceivedKinds, Written

LEMMA ReceiveRspInv == ASSUME Inv, ReceiveRsp PROVE Inv'
<1>1. rsp_q' \in Seq(RspWords) /\ ChannelOK(rsp_q', rsp_batch', rsp_done')
    BY RspChannel DEF ReceiveRsp
<1>2. sem_id' \in 0 .. SEM_MAX
    BY DEF ReceiveRsp, Inv, Types, SEM_MAX
<1>3. /\ UNCHANGED <<cmd_buf, rsp_buf, cmd_q, cmd_batch, cmd_done, caller>>
      /\ UNCHANGED <<rpc_mq, local, executed, calls, timeouts, notifies>>
    BY DEF ReceiveRsp, dsp, counts
<1>4. Types'
    BY <1>1, <1>2, <1>3 DEF Inv, Types
<1> QED BY <1>3, <1>4 DEF Inv, ReceivedKinds, Written

LEMMA ReceiveCmdInv == ASSUME Inv, ReceiveCmd PROVE Inv' /\ cmd_buf.kind \in {"exec", "signal"}
<1>1. cmd_q' \in Seq(CmdWords) /\ ChannelOK(cmd_q', cmd_batch', cmd_done')
    BY CmdChannel DEF ReceiveCmd
<1>2. cmd_q # <<>> /\ cmd_buf.kind \in {"exec", "signal"}
    BY CmdChannel, CmdChannel DEF ReceiveCmd, Inv, Written
<1>3. rpc_mq' \in Seq(Packet) /\ Len(rpc_mq') <= MQ_LEN /\ ReceivedKinds'
    <2>1. rpc_mq \in Seq(Packet) /\ cmd_buf \in Packet /\ Len(rpc_mq) \in Nat
        BY LenProperties DEF Inv, Types
    <2>2. CASE Len(rpc_mq) < MQ_LEN
        <3>1. rpc_mq' = Append(rpc_mq, cmd_buf)
            BY <2>2 DEF ReceiveCmd
        <3>2. /\ rpc_mq' \in Seq(Packet) /\ Len(rpc_mq') = Len(rpc_mq) + 1
              /\ \A i \in 1 .. Len(rpc_mq) + 1 :
                    rpc_mq'[i] = IF i = Len(rpc_mq) + 1 THEN cmd_buf ELSE rpc_mq[i]
            BY <2>1, <3>1, CountAppend
        <3>3. ReceivedKinds'
            BY <1>2, <2>1, <3>2 DEF Inv, ReceivedKinds
        <3> QED BY <2>1, <2>2, <3>2, <3>3 DEF MQ_LEN
    <2>3. CASE ~(Len(rpc_mq) < MQ_LEN)
        <3>1. rpc_mq' = rpc_mq
            BY <2>3 DEF ReceiveCmd
        <3> QED BY <3>1 DEF Inv, Types, ReceivedKinds
    <2> QED BY <2>2, <2>3
<1>4. /\ UNCHANGED <<cmd_buf, rsp_buf, rsp_q, rsp_batch, rsp_done, sem_id, caller>>
      /\ UNCHANGED <<local, executed, calls, timeouts, notifies>>
    BY DEF ReceiveCmd, counts
<1>5. Types'
    BY <1>1, <1>3, <1>4 DEF Inv, Types
<1> QED BY <1>2, <1>3, <1>4, <1>5 DEF Inv, Written

LEMMA ExecuteInv == ASSUME Inv, Execute PROVE Inv'
<1>1. /\ rpc_mq' \in Seq(Packet) /\ Len(rpc_mq) = Len(rpc_mq') + 1
      /\ Head(rpc_mq) = rpc_mq[1] /\ rpc_mq[1] \in Packet
      /\ \A i \in 1 .. Len(rpc_mq') : rpc_mq'[i] = rpc_mq[i + 1]
    BY CountTail DEF Execute, Inv, Types
<1>2. Len(rpc_mq') \in Nat
    BY <1>1, LenProperties
<1>3. Len(rpc_mq') <= MQ_LEN /\ ReceivedKinds'
    BY <1>1, <1>2 DEF Inv, Types, ReceivedKinds, MQ_LEN
<1>4. executed' \in [1 .. MaxCalls -> Nat]
    <2>1. ASSUME NEW n PROVE [executed EXCEPT ![n] = @ + 1] \in [1 .. MaxCalls -> Nat]
        <3>1. executed \in [1 .. MaxCalls -> Nat]
            BY DEF Inv, Types
        <3>2. CASE n \in 1 .. MaxCalls
            BY <3>1, <3>2
        <3>3. CASE n \notin 1 .. MaxCalls
            <4>1. [executed EXCEPT ![n] = @ + 1] = executed
                BY <3>1, <3>3
            <4> QED BY <3>1, <4>1
        <3> QED BY <3>2, <3>3
    <2>2. executed' = executed \/ \E n : executed' = [executed EXCEPT ![n] = @ + 1]
        BY DEF Execute
    <2> QED BY <2>1, <2>2 DEF Inv, Types
<1>5. local' \in [pc : {"get", "setup", "send"}, pkt : Packet]
    <2>1. \A err \in BOOLEAN : Pkt("rsp", rpc_mq[1].cmd, err, rpc_mq[1].call) \in Packet
        BY <1>1 DEF Pkt, Packet
    <2>2. local' = local \/ \E err \in BOOLEAN :
            local' = [pc |-> "setup", pkt |-> Pkt("rsp", rpc_mq[1].cmd, err, rpc_mq[1].call)]
        BY <1>1 DEF Execute
    <2> QED BY <2>1, <2>2 DEF Inv, Types
<1>6. /\ UNCHANGED <<cmd_buf, rsp_buf, cmd_q, cmd_batch, cmd_done, rsp_q, rsp_batch, rsp_done>>
      /\ UNCHANGED <<sem_id, caller, calls, timeouts, notifies>>
    BY DEF Execute, chan, counts
<1>7. Types'
    BY <1>1, <1>3, <1>4, <1>5, <1>6 DEF Inv, Types
<1> QED BY <1>3, <1>6, <1>7 DEF Inv, Written

LEMMA SetupRspInv == ASSUME Inv, SetupRsp PROVE Inv'
<1>1. rsp_buf' \in Packet /\ local' \in [pc : {"get", "setup", "send"}, pkt : Packet]
    BY DEF SetupRsp, Inv, Types
<1>2. /\ UNCHANGED <<cmd_buf, cmd_q, cmd_batch, cmd_done, rsp_q, rsp_batch, rsp_done>>
      /\ UNCHANGED <<sem_id, rpc_mq, executed, caller, calls, timeouts, notifies>>
    BY DEF SetupRsp, chan, counts
<1>3. Types'
    BY <1>1, <1>2 DEF Inv, Types
<1> QED BY <1>2, <1>3 DEF Inv, ReceivedKinds, Written

LEMMA SendRspInv == ASSUME Inv, SendRsp PROVE Inv'
<1>1. local' \in [pc : {"get", "setup", "send"}, pkt : Packet]
    BY DEF SendRsp, Blank, Pkt, Packet
<1>2. rsp_q' \in Seq(RspWords) /\ ChannelOK(rsp_q', rsp_batch', rsp_done')
    BY RspChannel DEF SendRsp, Inv, Types
<1>3. /\ UNCHANGED <<cmd_buf, rsp_buf, cmd_q, cmd_batch, cmd_done>>
      /\ UNCHANGED <<sem_id, rpc_mq, executed, caller, calls, timeouts, notifies>>
    BY DEF SendRsp, counts
<1>4. Types'
    BY <1>1, <1>2, <1>3 DEF Inv, Types
<1> QED BY <1>3, <1>4 DEF Inv, ReceivedKinds, Written

LEMMA ReleaseInv == ASSUME Inv, Release PROVE Inv' /\ UNCHANGED <<cmd_q, rsp_q>>
<1>1. /\ cmd_q' = cmd_q /\ ChannelOK(cmd_q', cmd_batch', cmd_done')
      /\ rsp_q' = rsp_q /\ ChannelOK(rsp_q', rsp_batch', rsp_done')
    BY CmdChannel, RspChannel DEF Release, Inv, Types
<1>2. /\ UNCHANGED <<cmd_buf, rsp_buf, sem_id, rpc_mq, local, executed, caller>>
      /\ UNCHANGED <<calls, timeouts, notifies>>
    BY DEF Release, dsp, counts
<1>3. Types'
    BY <1>1, <1>2 DEF Inv, Types
<1> QED BY <1>1, <1>2, <1>3 DEF Inv, ReceivedKinds, Written

-----------------------------------------------------------------------------
(***************************************************************************)
(* Each timeout and each notification leaves one wakeup too many at most   *)
(***************************************************************************)

Bit(b) == IF b THEN 1 ELSE 0

(* Every wakeup that may still come, also through a word behind which the  *)
(* buffer holds a notification by now; and the callers whose notification  *)
(* is about to be sent.                                                    *)
Possible == sem_id + Len(rsp_q) + Bit(local.pc # "get") + Count(rpc_mq, "exec") + Len(cmd_q)
Notifying == {t \in Callers : caller[t].pc = "send" /\ caller[t].kind = "signal"}
Accounted ==
    Possible + Cardinality(Notifying) <= Cardinality(Waiting) + timeouts + notifies

LEMMA Measures ==
    ASSUME Inv
    PROVE  /\ sem_id \in Nat /\ timeouts \in Nat /\ notifies \in Nat
           /\ Len(rsp_q) \in Nat /\ Len(cmd_q) \in Nat /\ Count(rpc_mq, "exec") \in Nat
           /\ Bit(local.pc # "get") \in Nat
           /\ IsFiniteSet(Waiting) /\ Cardinality(Waiting) \in Nat
           /\ IsFiniteSet(Notifying) /\ Cardinality(Notifying) \in Nat
<1>1. Waiting \in SUBSET Callers /\ Notifying \in SUBSET Callers
    BY DEF Waiting, Notifying
<1>2. IsFiniteSet(Waiting) /\ IsFiniteSet(Notifying)
    BY <1>1, CallersAssumption, FS_Subset
<1>3. Cardinality(Waiting) \in Nat /\ Cardinality(Notifying) \in Nat
    BY <1>2, FS_CardinalityType
<1>4. Count(rpc_mq, "exec") \in Nat
    BY CountType DEF Inv, Types
<1> QED BY <1>2, <1>3, <1>4, CmdChannel, RspChannel DEF Inv, Types, SEM_MAX, Bit

LEMMA WakeupsPossible == Inv => Wakeups <= Possible
<1> SUFFICES ASSUME Inv PROVE Wakeups <= Possible
    OBVIOUS
<1>1. Wakeups = sem_id + Len(rsp_q) + Bit(local.pc # "get") + Undelivered + Count(rpc_mq, "exec")
    BY Zenon DEF Wakeups, Count, Indices, Bit
<1>2. Undelivered \in Nat /\ Undelivered <= Len(cmd_q)
    BY Measures DEF Undelivered
<1> QED BY <1>1, <1>2, Measures DEF Possible, Bit

(* A set of callers when one of them changes.                              *)
LEMMA OneChanges ==
    ASSUME NEW S \in SUBSET Callers, NEW T \in SUBSET Callers, NEW t,
           \A u \in Callers \ {t} : u \in S <=> u \in T
    PROVE  /\ Cardinality(S) \in Nat /\ Cardinality(T) \in Nat
           /\ Cardinality(T) + Bit(t \in S) = Cardinality(S) + Bit(t \in T)
<1>1. IsFiniteSet(S) /\ IsFiniteSet(T)
    BY CallersAssumption, FS_Subset
<1>2. Cardinality(S) \in Nat /\ Cardinality(T) \in Nat
    BY <1>1, FS_CardinalityType
<1>3. CASE t \in S <=> t \in T
    <2>1. S = T
        BY <1>3
    <2> QED BY <1>2, <2>1 DEF Bit
<1>4. CASE t \in S /\ t \notin T
    <2>1. S = T \cup {t}
        BY <1>4
    <2>2. Cardinality(S) = Cardinality(T) + 1
        BY <1>1, <1>4, <2>1, FS_AddElement
    <2> QED BY <1>2, <1>4, <2>2 DEF Bit
<1>5. CASE t \notin S /\ t \in T
    <2>1. T = S \cup {t}
        BY <1>5
    <2>2. Cardinality(T) = Cardinality(S) + 1
        BY <1>1, <1>5, <2>1, FS_AddElement
    <2> QED BY <1>2, <1>5, <2>2 DEF Bit
<1> QED BY <1>3, <1>4, <1>5

LEMMA CallerChanges ==
    ASSUME NEW t \in Callers, \A u \in Callers \ {t} : caller'[u] = caller[u]
    PROVE  /\ Cardinality(Waiting) \in Nat /\ Cardinality(Waiting') \in Nat
           /\ Cardinality(Waiting') + Bit(caller[t].pc = "wait")
                = Cardinality(Waiting) + Bit(caller'[t].pc = "wait")
           /\ Cardinality(Notifying) \in Nat /\ Cardinality(Notifying') \in Nat
           /\ Cardinality(Notifying') + Bit(caller[t].pc = "send" /\ caller[t].kind = "signal")
                = Cardinality(Notifying)
                    + Bit(caller'[t].pc = "send" /\ caller'[t].kind = "signal")
<1>1. /\ Waiting \in SUBSET Callers /\ Waiting' \in SUBSET Callers
      /\ \A u \in Callers \ {t} : u \in Waiting <=> u \in Waiting'
      /\ t \in Waiting <=> caller[t].pc = "wait"
      /\ t \in Waiting' <=> caller'[t].pc = "wait"
    BY DEF Waiting
<1>2. /\ Notifying \in SUBSET Callers /\ Notifying' \in SUBSET Callers
      /\ \A u \in Callers \ {t} : u \in Notifying <=> u \in Notifying'
      /\ t \in Notifying <=> (caller[t].pc = "send" /\ caller[t].kind = "signal")
      /\ t \in Notifying' <=> (caller'[t].pc = "send" /\ caller'[t].kind = "signal")
    BY DEF Notifying
<1>3. /\ Cardinality(Waiting) \in Nat /\ Cardinality(Waiting') \in Nat
      /\ Cardinality(Waiting') + Bit(t \in Waiting) = Cardinality(Waiting) + Bit(t \in Waiting')
    BY <1>1, OneChanges
<1>4. /\ Cardinality(Notifying) \in Nat /\ Cardinality(Notifying') \in Nat
      /\ Cardinality(Notifying') + Bit(t \in Notifying)
           = Cardinality(Notifying) + Bit(t \in Notifying')
    BY <1>2, OneChanges
<1> QED BY <1>1, <1>2, <1>3, <1>4 DEF Bit

(* Each of the five kinds of step of a caller.                             *)
LEMMA CallerStays == caller' = caller => Waiting' = Waiting /\ Notifying' = Notifying
BY DEF Waiting, Notifying

LEMMA SetupAccounted ==
    ASSUME Inv, Accounted, NEW t \in Callers, NEW kind \in {"exec", "signal"}, NEW cmd \in Cmd,
           Setup(t, kind, cmd)
    PROVE  Accounted'
<1>1. /\ caller'[t].pc = "send" /\ caller'[t].kind = kind /\ caller[t].pc = "idle"
      /\ \A u \in Callers \ {t} : caller'[u] = caller[u]
    BY DEF Setup, Inv, Types, NoCall
<1>2. UNCHANGED <<sem_id, rsp_q, local, rpc_mq, cmd_q, timeouts>>
    BY DEF Setup, chan, dsp
<1>3. Possible' = Possible
    BY <1>2 DEF Possible
<1>4. Cardinality(Waiting') = Cardinality(Waiting)
    BY <1>1, CallerChanges DEF Bit
<1>5. Cardinality(Notifying') = Cardinality(Notifying) + Bit(kind = "signal")
    BY <1>1, CallerChanges DEF Bit
<1>6. notifies' = notifies + Bit(kind = "signal")
    BY Measures DEF Setup, Bit
<1>7. Possible \in Nat
    BY Measures DEF Possible, Bit
<1> QED BY <1>2, <1>3, <1>4, <1>5, <1>6, <1>7, Measures DEF Accounted, Bit

LEMMA SendAccounted ==
    ASSUME Inv, Accounted, NEW t \in Callers, Send(t)
    PROVE  Accounted'
<1>1. /\ caller[t].pc = "send" /\ \A u \in Callers \ {t} : caller'[u] = caller[u]
      /\ caller'[t].pc = IF caller[t].kind = "signal" THEN "idle" ELSE "wait"
    BY DEF Send, Inv, Types
<1>2. UNCHANGED <<sem_id, rsp_q, local, rpc_mq, timeouts, notifies>>
    BY DEF Send, dsp, counts
<1>3. Len(cmd_q') \in Nat /\ Len(cmd_q') <= Len(cmd_q) + 1
    BY CmdChannel DEF Send
<1>4. Possible' <= Possible + 1 /\ Possible \in Nat /\ Possible' \in Nat
    BY <1>2, <1>3, Measures DEF Possible, Bit
<1>5. Cardinality(Waiting') = Cardinality(Waiting) + Bit(caller[t].kind # "signal")
    BY <1>1, CallerChanges DEF Bit
<1>6. Cardinality(Notifying) = Cardinality(Notifying') + Bit(caller[t].kind = "signal")
    BY <1>1, CallerChanges DEF Bit
<1>7. Cardinality(Notifying') \in Nat
    BY <1>1, CallerChanges
<1>8. Cardinality(Waiting') + Cardinality(Notifying)
        = Cardinality(Waiting) + Cardinality(Notifying') + 1
    BY <1>5, <1>6, <1>7, Measures DEF Bit
<1>9. /\ timeouts \in Nat /\ notifies \in Nat
      /\ Cardinality(Waiting) \in Nat /\ Cardinality(Notifying) \in Nat
      /\ Cardinality(Waiting') \in Nat /\ Cardinality(Notifying') \in Nat
    BY <1>1, Measures, CallerChanges
<1>10. Possible + Cardinality(Notifying) <= Cardinality(Waiting) + timeouts + notifies
    BY DEF Accounted
<1>11. Possible' + Cardinality(Notifying') <= Cardinality(Waiting') + timeouts + notifies
    BY <1>4, <1>8, <1>9, <1>10
<1> QED BY <1>2, <1>11 DEF Accounted

LEMMA WokenAccounted ==
    ASSUME Inv, Accounted, NEW t \in Callers, Woken(t)
    PROVE  Accounted' /\ Possible = Possible' + 1 /\ Possible' \in Nat
<1>1. /\ caller[t].pc = "wait" /\ caller'[t].pc = "read"
      /\ \A u \in Callers \ {t} : caller'[u] = caller[u]
    BY DEF Woken, Inv, Types
<1>2. UNCHANGED <<rsp_q, local, rpc_mq, cmd_q, timeouts, notifies>>
    BY DEF Woken, chan, dsp, counts
<1>3. sem_id' \in Nat /\ sem_id' = sem_id - 1
    BY Measures DEF Woken
<1>4. Possible = Possible' + 1 /\ Possible' \in Nat
    <2>1. Possible' = sem_id' + Len(rsp_q) + Bit(local.pc # "get") + Count(rpc_mq, "exec")
                        + Len(cmd_q)
        BY <1>2 DEF Possible
    <2>2. Possible = sem_id + Len(rsp_q) + Bit(local.pc # "get") + Count(rpc_mq, "exec")
                       + Len(cmd_q)
        BY DEF Possible
    <2>3. /\ sem_id \in Nat /\ Len(rsp_q) \in Nat /\ Len(cmd_q) \in Nat
          /\ Bit(local.pc # "get") \in Nat /\ Count(rpc_mq, "exec") \in Nat
        BY Measures
    <2> QED BY <1>3, <2>1, <2>2, <2>3
<1>5. Cardinality(Waiting) = Cardinality(Waiting') + 1 /\ Cardinality(Waiting') \in Nat
    BY <1>1, CallerChanges DEF Bit
<1>6. Cardinality(Notifying) = Cardinality(Notifying')
    BY <1>1, CallerChanges DEF Bit
<1>7. Possible' + Cardinality(Notifying') <= Cardinality(Waiting') + timeouts + notifies
    BY <1>4, <1>5, <1>6, Measures DEF Accounted
<1> QED BY <1>2, <1>4, <1>7 DEF Accounted

LEMMA TimeoutAccounted ==
    ASSUME Inv, Accounted, NEW t \in Callers, Timeout(t)
    PROVE  Accounted'
<1>1. /\ caller[t].pc = "wait" /\ caller'[t].pc = "idle"
      /\ \A u \in Callers \ {t} : caller'[u] = caller[u]
    BY DEF Timeout, Inv, Types
<1>2. UNCHANGED <<sem_id, rsp_q, local, rpc_mq, cmd_q, notifies>>
    BY DEF Timeout, chan, dsp
<1>3. timeouts' = timeouts + 1
    BY DEF Timeout
<1>4. Possible' = Possible /\ Possible \in Nat
    BY <1>2, Measures DEF Possible, Bit
<1>5. Cardinality(Waiting) = Cardinality(Waiting') + 1 /\ Cardinality(Waiting') \in Nat
    BY <1>1, CallerChanges DEF Bit
<1>6. Cardinality(Notifying) = Cardinality(Notifying')
    BY <1>1, CallerChanges DEF Bit
<1> QED BY <1>2, <1>3, <1>4, <1>5, <1>6, Measures DEF Accounted

LEMMA ReadAccounted ==
    ASSUME Inv, Accounted, NEW t \in Callers, Read(t)
    PROVE  Accounted'
<1>1. /\ caller[t].pc = "read" /\ caller'[t].pc = "idle"
      /\ \A u \in Callers \ {t} : caller'[u] = caller[u]
    BY DEF Read, Inv, Types
<1>2. UNCHANGED <<sem_id, rsp_q, local, rpc_mq, cmd_q, timeouts, notifies>>
    BY DEF Read, chan, dsp, counts
<1>3. Possible' = Possible
    BY <1>2 DEF Possible
<1>4. Cardinality(Waiting) = Cardinality(Waiting')
    BY <1>1, CallerChanges DEF Bit
<1>5. Cardinality(Notifying) = Cardinality(Notifying')
    BY <1>1, CallerChanges DEF Bit
<1> QED BY <1>2, <1>3, <1>4, <1>5 DEF Accounted

(* The steps of the interrupts, of DSP and of the channels, which no       *)
(* caller takes.                                                           *)
LEMMA StaysAccounted ==
    ASSUME Inv, Accounted, UNCHANGED <<caller, timeouts, notifies>>,
           Possible' \in Nat, Possible' <= Possible
    PROVE  Accounted'
<1>1. Possible \in Nat
    BY Measures DEF Possible, Bit
<1> QED BY <1>1, CallerStays, Measures DEF Accounted

LEMMA ReceiveRspPossible == ASSUME Inv, ReceiveRsp PROVE Possible' \in Nat /\ Possible' <= Possible
<1>1. Len(rsp_q) = Len(rsp_q') + 1 /\ Len(rsp_q') \in Nat
    <2>1. Inv'
        BY ReceiveRspInv
    <2> QED BY <2>1, RspChannel, LenProperties DEF ReceiveRsp, Inv, Types
<1>2. sem_id' \in Nat /\ sem_id' <= sem_id + 1
    BY Measures DEF ReceiveRsp
<1>3. UNCHANGED <<local, rpc_mq, cmd_q>>
    BY DEF ReceiveRsp, dsp
<1>4. Possible' = sem_id' + Len(rsp_q') + Bit(local.pc # "get") + Count(rpc_mq, "exec")
                    + Len(cmd_q)
    BY <1>3 DEF Possible
<1>5. /\ sem_id \in Nat /\ Len(rsp_q) \in Nat /\ Len(cmd_q) \in Nat
      /\ Bit(local.pc # "get") \in Nat /\ Count(rpc_mq, "exec") \in Nat
    BY Measures
<1> QED BY <1>1, <1>2, <1>4, <1>5 DEF Possible

LEMMA ReceiveCmdPossible == ASSUME Inv, ReceiveCmd PROVE Possible' \in Nat /\ Possible' <= Possible
<1>1. Len(cmd_q) = Len(cmd_q') + 1 /\ Len(cmd_q') \in Nat
    <2>1. Inv'
        BY ReceiveCmdInv
    <2> QED BY <2>1, CmdChannel, LenProperties DEF ReceiveCmd, Inv, Types
<1>2. Count(rpc_mq', "exec") \in Nat /\ Count(rpc_mq', "exec") <= Count(rpc_mq, "exec") + 1
    <2>1. /\ rpc_mq \in Seq(Packet) /\ cmd_buf \in Packet
          /\ rpc_mq' = Append(rpc_mq, cmd_buf) \/ rpc_mq' = rpc_mq
        BY DEF ReceiveCmd, Inv, Types
    <2>2. Count(Append(rpc_mq, cmd_buf), "exec") =
            Count(rpc_mq, "exec") + IF cmd_buf.kind = "exec" THEN 1 ELSE 0
        BY <2>1, CountAppend
    <2>3. Count(Append(rpc_mq, cmd_buf), "exec") \in Nat
        BY <2>2, Measures
    <2>4. CASE rpc_mq' = Append(rpc_mq, cmd_buf)
        BY <2>2, <2>3, <2>4, Measures
    <2>5. CASE rpc_mq' = rpc_mq
        BY <2>5, Measures
    <2> QED BY <2>1, <2>4, <2>5
<1>3. UNCHANGED <<sem_id, rsp_q, local>>
    BY DEF ReceiveCmd
<1>4. Possible' = sem_id + Len(rsp_q) + Bit(local.pc # "get") + Count(rpc_mq', "exec")
                    + Len(cmd_q')
    BY <1>3 DEF Possible
<1>5. /\ sem_id \in Nat /\ Len(rsp_q) \in Nat /\ Len(cmd_q) \in Nat
      /\ Bit(local.pc # "get") \in Nat /\ Count(rpc_mq, "exec") \in Nat
    BY Measures
<1> QED BY <1>1, <1>2, <1>4, <1>5 DEF Possible

LEMMA ExecutePossible == ASSUME Inv, Execute PROVE Possible' \in Nat /\ Possible' <= Possible
<1>1. /\ Count(rpc_mq, "exec") = Count(rpc_mq', "exec") + Bit(rpc_mq[1].kind = "exec")
      /\ Count(rpc_mq', "exec") \in Nat /\ Head(rpc_mq) = rpc_mq[1] /\ 1 \in 1 .. Len(rpc_mq)
    <2>1. rpc_mq \in Seq(Packet) /\ rpc_mq # <<>> /\ rpc_mq' = Tail(rpc_mq)
        BY DEF Execute, Inv, Types
    <2>2. /\ rpc_mq' \in Seq(Packet) /\ Len(rpc_mq) = Len(rpc_mq') + 1 /\ Head(rpc_mq) = rpc_mq[1]
          /\ Count(rpc_mq, "exec") =
               Count(rpc_mq', "exec") + IF rpc_mq[1].kind = "exec" THEN 1 ELSE 0
        BY <2>1, CountTail
    <2> QED BY <2>2, CountType DEF Bit
<1>2. rpc_mq[1].kind \in {"exec", "signal"}
    BY <1>1 DEF Inv, ReceivedKinds
<1>3. /\ local.pc = "get"
      /\ local'.pc = IF rpc_mq[1].kind = "signal" THEN "get" ELSE "setup"
    BY <1>1 DEF Execute
<1>4. UNCHANGED <<sem_id, rsp_q, cmd_q>>
    BY DEF Execute, chan
<1> QED BY <1>1, <1>2, <1>3, <1>4, Measures DEF Possible, Bit

LEMMA SetupRspPossible == ASSUME Inv, SetupRsp PROVE Possible' \in Nat /\ Possible' <= Possible
<1>1. /\ local.pc = "setup" /\ local'.pc = "send"
      /\ UNCHANGED <<sem_id, rsp_q, rpc_mq, cmd_q>>
    BY DEF SetupRsp, Inv, Types, chan
<1> QED BY <1>1, Measures DEF Possible, Bit

LEMMA SendRspPossible == ASSUME Inv, SendRsp PROVE Possible' \in Nat /\ Possible' <= Possible
<1>1. /\ local.pc = "send" /\ local'.pc = "get" /\ UNCHANGED <<sem_id, rpc_mq, cmd_q>>
    BY DEF SendRsp
<1>2. Len(rsp_q') \in Nat /\ Len(rsp_q') <= Len(rsp_q) + 1
    BY RspChannel DEF SendRsp
<1> QED BY <1>1, <1>2, Measures DEF Possible, Bit

LEMMA ReleasePossible == ASSUME Inv, Release PROVE Possible' \in Nat /\ Possible' <= Possible
<1>1. UNCHANGED <<sem_id, rpc_mq, local, cmd_q, rsp_q>>
    BY ReleaseInv DEF Release, dsp
<1> QED BY <1>1, Measures DEF Possible, Bit

LEMMA InitAccounted == Init => Accounted
<1> SUFFICES ASSUME Init PROVE Accounted
    OBVIOUS
<1>1. Waiting = {} /\ Notifying = {}
    BY DEF Init, Waiting, Notifying, NoCall
<1>2. Cardinality(Waiting) = 0 /\ Cardinality(Notifying) = 0
    BY <1>1, FS_EmptySet
<1>3. Len(cmd_q) = 0 /\ Len(rsp_q) = 0 /\ Len(rpc_mq) = 0
    BY EmptySeq DEF Init, ToDsp!Init, ToBth!Init
<1>4. Count(rpc_mq, "exec") = 0
    <2>1. Indices(rpc_mq, "exec") = {}
        BY <1>3 DEF Indices
    <2> QED BY <2>1, FS_EmptySet DEF Count
<1>5. Possible = 0
    BY <1>3, <1>4 DEF Init, Possible, Bit
<1> QED BY <1>2, <1>5 DEF Init, Accounted

LEMMA NextAccounted == Inv /\ Accounted /\ [Next]_vars => Inv' /\ Accounted'
<1> SUFFICES ASSUME Inv, Accounted, [Next]_vars PROVE Inv' /\ Accounted'
    OBVIOUS
<1>1. ASSUME NEW t \in Callers, Begin(t) PROVE Inv' /\ Accounted'
    <2>1. PICK kind \in {"exec", "signal"}, cmd \in Cmd : Setup(t, kind, cmd)
        BY <1>1 DEF Begin, Cmd
    <2> QED BY <2>1, SetupInv, SetupAccounted
<1>2. ASSUME NEW t \in Callers, Send(t) \/ Woken(t) \/ Timeout(t) \/ Read(t)
      PROVE  Inv' /\ Accounted'
    BY <1>2, SendInv, SendAccounted, WokenInv, WokenAccounted, TimeoutInv, TimeoutAccounted,
       ReadInv, ReadAccounted
<1>3. ASSUME ReceiveRsp PROVE Inv' /\ Accounted'
    BY <1>3, ReceiveRspInv, ReceiveRspPossible, StaysAccounted DEF ReceiveRsp, counts
<1>4. ASSUME OpenBackend PROVE Inv' /\ Accounted'
    <2>1. /\ UNCHANGED <<cmd_buf, rsp_buf, cmd_q, cmd_batch, cmd_done, rsp_q, rsp_batch>>
          /\ UNCHANGED <<rsp_done, sem_id, rpc_mq, local, executed, caller>>
          /\ UNCHANGED <<calls, timeouts, notifies>>
        BY <1>4 DEF OpenBackend, chan, counts
    <2> QED BY <2>1 DEF Inv, Types, ReceivedKinds, Written, Accounted, Possible, Waiting, Notifying
<1>5. ASSUME ReceiveCmd PROVE Inv' /\ Accounted'
    BY <1>5, ReceiveCmdInv, ReceiveCmdPossible, StaysAccounted DEF ReceiveCmd, counts
<1>6. ASSUME Execute PROVE Inv' /\ Accounted'
    BY <1>6, ExecuteInv, ExecutePossible, StaysAccounted DEF Execute, counts
<1>7. ASSUME SetupRsp PROVE Inv' /\ Accounted'
    BY <1>7, SetupRspInv, SetupRspPossible, StaysAccounted DEF SetupRsp, counts
<1>8. ASSUME SendRsp PROVE Inv' /\ Accounted'
    BY <1>8, SendRspInv, SendRspPossible, StaysAccounted DEF SendRsp, counts
<1>9. ASSUME Release PROVE Inv' /\ Accounted'
    BY <1>9, ReleaseInv, ReleasePossible, StaysAccounted DEF Release, counts
<1>10. ASSUME UNCHANGED vars PROVE Inv' /\ Accounted'
    <2>1. /\ UNCHANGED <<cmd_buf, rsp_buf, cmd_q, cmd_batch, cmd_done, rsp_q, rsp_batch>>
          /\ UNCHANGED <<rsp_done, sem_id, rpc_mq, local, executed, caller>>
          /\ UNCHANGED <<calls, timeouts, notifies>>
        BY <1>10 DEF vars, chan, dsp, counts
    <2> QED BY <2>1 DEF Inv, Types, ReceivedKinds, Written, Accounted, Possible, Waiting, Notifying
<1> QED BY <1>1, <1>2, <1>3, <1>4, <1>5, <1>6, <1>7, <1>8, <1>9, <1>10 DEF Next, Caller, Dsp

THEOREM AlwaysAccounted == Spec => [](Inv /\ Accounted)
BY InitInv, InitAccounted, NextAccounted, PTL DEF Spec

(* For any number of callers, calls, timeouts and notifications: no more   *)
(* wakeups come than callers wait, but for one that each timeout and each  *)
(* notification may leave behind.                                          *)
THEOREM AlwaysSurplusBounded == Spec => []SurplusBounded
<1>1. Inv /\ Accounted => SurplusBounded
    <2> SUFFICES ASSUME Inv, Accounted PROVE SurplusBounded
        OBVIOUS
    <2>1. Wakeups <= Possible
        BY WakeupsPossible
    <2>2. Possible \in Nat
        BY Measures DEF Possible, Bit
    <2>3. Wakeups \in Nat
        <3>1. Wakeups = sem_id + Len(rsp_q) + Bit(local.pc # "get") + Undelivered
                          + Count(rpc_mq, "exec")
            BY Zenon DEF Wakeups, Count, Indices, Bit
        <3>2. Undelivered \in Nat
            BY Measures DEF Undelivered
        <3> QED BY <3>1, <3>2, Measures
    <2> QED BY <2>1, <2>2, <2>3, Measures DEF Accounted, SurplusBounded
<1> QED BY <1>1, AlwaysAccounted, PTL

-----------------------------------------------------------------------------
(***************************************************************************)
(* One calling thread and one notification at most: a wakeup is coming     *)
(***************************************************************************)

OneCaller == \A t, u \in Callers : t = u

Coming ==
    \/ sem_id > 0 \/ rsp_q # <<>> \/ local.pc # "get" \/ Count(rpc_mq, "exec") > 0
    \/ cmd_buf.kind = "exec" /\ cmd_q # <<>>
Sending == \E t \in Callers : caller[t].pc = "send"

(* The notifications that DSP has yet to take from its queue, of which     *)
(* each may be there once for every word in the channel.                   *)
Unread == IF cmd_buf.kind = "signal" THEN Len(cmd_q) + Bit(Sending) ELSE 0
FewSignals ==
    /\ Count(rpc_mq, "signal") + Unread <= (RECORDS + 1) * notifies
    /\ notifies <= MaxNotifies
OwnBuffer ==
    \A t \in Callers : /\ caller[t].pc = "send" => cmd_buf.kind = caller[t].kind
                       /\ caller[t].pc = "wait" => cmd_buf.kind = "exec" /\ Coming

WInv == FewSignals /\ OwnBuffer

LEMMA SignalMeasures ==
    ASSUME Inv
    PROVE  /\ Count(rpc_mq, "signal") \in Nat /\ Len(cmd_q) \in Nat /\ Len(cmd_q) <= 3
           /\ Unread \in Nat /\ Bit(Sending) \in Nat /\ notifies \in Nat /\ MaxNotifies \in Nat
           /\ RECORDS = 3
<1>1. Count(rpc_mq, "signal") \in Nat
    BY CountType DEF Inv, Types
<1>2. Len(cmd_q) \in Nat /\ Len(cmd_q) <= 3
    BY CmdChannel DEF Inv, Types, ChannelOK, RECORDS
<1>3. Bit(Sending) \in Nat
    BY DEF Bit
<1> QED BY <1>1, <1>2, <1>3, BoundsAssumption DEF Unread, RECORDS, Inv, Types

LEMMA InitWakes == Init => WInv
<1> SUFFICES ASSUME Init PROVE WInv
    OBVIOUS
<1>1. Count(rpc_mq, "signal") = 0
    <2>1. Indices(rpc_mq, "signal") = {}
        BY EmptySeq DEF Init, Indices
    <2> QED BY <2>1, FS_EmptySet DEF Count
<1>2. Unread = 0
    BY DEF Init, Unread, Blank, Pkt
<1> QED BY <1>1, <1>2, BoundsAssumption DEF Init, WInv, FewSignals, OwnBuffer, NoCall, RECORDS

(* What a step of the one caller has to show.                              *)
LEMMA CallerWakes ==
    ASSUME OneCaller, NEW t \in Callers, FewSignals',
           caller'[t].pc = "send" => cmd_buf'.kind = caller'[t].kind,
           caller'[t].pc = "wait" => cmd_buf'.kind = "exec" /\ Coming'
    PROVE  WInv'
<1>1. \A u \in Callers : u = t
    BY DEF OneCaller
<1> QED BY <1>1 DEF WInv, OwnBuffer

LEMMA SetupWakes ==
    ASSUME Inv, WInv, OneCaller, NEW t \in Callers, NEW kind \in {"exec", "signal"},
           NEW cmd \in Cmd, Setup(t, kind, cmd)
    PROVE  WInv'
<1>1. caller'[t].pc = "send" /\ caller'[t].kind = kind /\ cmd_buf'.kind = kind
    BY SetupInv DEF Setup, Inv, Types, NoCall
<1>2. UNCHANGED <<rpc_mq, cmd_q>>
    BY DEF Setup, chan, dsp
<1>3. FewSignals'
    <2>1. Count(rpc_mq, "signal") + Unread <= 4 * notifies /\ notifies <= MaxNotifies
        BY SignalMeasures DEF WInv, FewSignals
    <2>2. CASE kind = "exec"
        <3>1. Unread' = 0 /\ notifies' = notifies
            BY <1>1, <2>2 DEF Unread, Setup
        <3> QED BY <1>2, <2>1, <3>1, SignalMeasures DEF FewSignals
    <2>3. CASE kind = "signal"
        <3>1. notifies' = notifies + 1 /\ notifies' <= MaxNotifies
            BY <2>3, SignalMeasures DEF Setup, Allowed
        <3>2. Unread' <= 4 /\ Unread' \in Nat
            <4>1. Unread' = Len(cmd_q) + Bit(Sending')
                BY <1>1, <1>2, <2>3 DEF Unread
            <4>2. Bit(Sending') \in {0, 1}
                BY DEF Bit
            <4> QED BY <4>1, <4>2, SignalMeasures
        <3>3. Count(rpc_mq, "signal") + Unread' <= 4 * notifies + 4
            BY <2>1, <3>2, SignalMeasures
        <3>4. (RECORDS + 1) * notifies' = 4 * notifies + 4
            BY <3>1, SignalMeasures
        <3> QED BY <1>2, <3>1, <3>3, <3>4 DEF FewSignals
    <2> QED BY <2>2, <2>3
<1> QED BY <1>1, <1>3, CallerWakes

LEMMA SendWakes ==
    ASSUME Inv, WInv, OneCaller, NEW t \in Callers, Send(t)
    PROVE  WInv'
<1>1. /\ caller[t].pc = "send" /\ caller[t].kind \in {"exec", "signal"}
      /\ caller'[t].pc = IF caller[t].kind = "signal" THEN "idle" ELSE "wait"
      /\ cmd_buf' = cmd_buf /\ cmd_buf.kind = caller[t].kind
    BY DEF Send, Inv, Types, Call, WInv, OwnBuffer
<1>2. UNCHANGED <<rpc_mq, notifies>>
    BY DEF Send, dsp, counts
<1>3. Sending /\ ~Sending'
    BY <1>1 DEF Sending, OneCaller
<1>4. /\ Len(cmd_q') \in Nat /\ Len(cmd_q') <= Len(cmd_q) + 1 /\ Len(cmd_q') >= 1
      /\ cmd_q' # <<>>
    <2>1. Inv'
        BY SendInv
    <2>2. Len(cmd_q') \in Nat /\ (cmd_q' = <<>> <=> Len(cmd_q') = 0)
        BY <2>1, EmptySeq, LenProperties DEF Inv, Types
    <2>3. Len(cmd_q') <= Len(cmd_q) + 1 /\ Len(cmd_q') >= 1
        BY CmdChannel DEF Send
    <2> QED BY <2>2, <2>3
<1>5. Unread' \in Nat /\ Unread' <= Unread
    <2>1. CASE cmd_buf.kind = "signal"
        <3>1. Unread' = Len(cmd_q') /\ Unread = Len(cmd_q) + 1
            BY <1>1, <1>3, <1>4, <2>1 DEF Unread, Bit
        <3> QED BY <1>4, <3>1, SignalMeasures
    <2>2. CASE cmd_buf.kind # "signal"
        BY <1>1, <2>2 DEF Unread
    <2> QED BY <2>1, <2>2
<1>6. FewSignals'
    BY <1>2, <1>5, SignalMeasures DEF WInv, FewSignals
<1>7. caller'[t].pc = "wait" => cmd_buf'.kind = "exec" /\ Coming'
    BY <1>1, <1>4 DEF Coming
<1>8. caller'[t].pc # "send"
    BY <1>1
<1> QED BY <1>6, <1>7, <1>8, CallerWakes

(* The other steps of the caller: it waits no longer, and sends nothing.   *)
LEMMA AwakeWakes ==
    ASSUME Inv, WInv, OneCaller, NEW t \in Callers, Woken(t) \/ Timeout(t) \/ Read(t)
    PROVE  WInv'
<1>1. caller[t].pc # "send" /\ caller'[t].pc \notin {"send", "wait"}
    <2>1. Woken(t) => caller[t].pc = "wait" /\ caller'[t].pc = "read"
        BY DEF Woken, Inv, Types
    <2>2. Timeout(t) => caller[t].pc = "wait" /\ caller'[t].pc = "idle"
        BY DEF Timeout, Inv, Types
    <2>3. Read(t) => caller[t].pc = "read" /\ caller'[t].pc = "idle"
        BY DEF Read, Inv, Types
    <2> QED BY <2>1, <2>2, <2>3
<1>2. UNCHANGED <<cmd_buf, cmd_q, rpc_mq, notifies>>
    BY DEF Woken, Timeout, Read, chan, dsp, counts
<1>3. Sending' = Sending
    BY <1>1 DEF Sending, OneCaller
<1>4. FewSignals'
    BY <1>2, <1>3 DEF WInv, FewSignals, Unread
<1> QED BY <1>1, <1>4, CallerWakes

(* A step that the caller does not take.                                   *)
LEMMA OthersWake ==
    ASSUME WInv, FewSignals', UNCHANGED <<caller, cmd_buf>>,
           cmd_buf.kind = "exec" /\ Coming => Coming'
    PROVE  WInv'
BY DEF WInv, OwnBuffer

LEMMA ReceiveRspWakes == ASSUME Inv, WInv, ReceiveRsp PROVE WInv'
<1>1. UNCHANGED <<caller, cmd_buf, cmd_q, rpc_mq, notifies>>
    BY DEF ReceiveRsp, dsp, counts
<1>2. FewSignals'
    BY <1>1 DEF WInv, FewSignals, Unread, Sending
<1>3. sem_id' > 0
    BY Measures DEF ReceiveRsp, SEM_MAX
<1> QED BY <1>1, <1>2, <1>3, OthersWake DEF Coming

(* The queue of DSP is never full of notifications.                        *)
LEMMA ReceiveCmdWakes ==
    ASSUME Inv, WInv, MaxNotifies <= 1, ReceiveCmd
    PROVE  WInv'
<1>1. /\ UNCHANGED <<caller, cmd_buf, notifies, sem_id, rsp_q, local>>
      /\ rpc_mq' = IF Len(rpc_mq) < 5 THEN Append(rpc_mq, cmd_buf) ELSE rpc_mq
    BY DEF ReceiveCmd, counts, MQ_LEN
<1>2. rpc_mq \in Seq(Packet) /\ cmd_buf \in Packet
    BY DEF Inv, Types
<1>3. Len(cmd_q') = Len(cmd_q) - 1 /\ Len(cmd_q) \in Nat /\ Len(cmd_q') \in Nat
    <2>1. Inv'
        BY ReceiveCmdInv
    <2>2. Len(cmd_q') \in Nat
        BY <2>1, LenProperties DEF Inv, Types
    <2> QED BY <2>2, CmdChannel DEF ReceiveCmd
<1>4. /\ Count(rpc_mq, "signal") + Unread <= 4 * notifies /\ notifies <= 1
      /\ Count(rpc_mq, "signal") \in Nat /\ Unread \in Nat /\ notifies \in Nat
    BY SignalMeasures DEF WInv, FewSignals
<1>5. Sending' = Sending
    BY <1>1 DEF Sending
<1>6. CASE Len(rpc_mq) < 5
    <2>1. /\ Count(rpc_mq', "signal") = Count(rpc_mq, "signal") + Bit(cmd_buf.kind = "signal")
          /\ Count(rpc_mq', "exec") = Count(rpc_mq, "exec") + Bit(cmd_buf.kind = "exec")
        BY <1>1, <1>2, <1>6, CountAppend DEF Bit
    <2>2. Unread' = Unread - Bit(cmd_buf.kind = "signal") /\ Unread' \in Nat
        <3>1. CASE cmd_buf.kind = "signal"
            <4>1. Unread = Len(cmd_q) + Bit(Sending) /\ Unread' = Len(cmd_q') + Bit(Sending)
                BY <1>1, <1>5, <3>1 DEF Unread
            <4> QED BY <1>3, <3>1, <4>1, SignalMeasures DEF Bit
        <3>2. CASE cmd_buf.kind # "signal"
            BY <1>1, <3>2 DEF Unread, Bit
        <3> QED BY <3>1, <3>2
    <2>3. Count(rpc_mq', "signal") + Unread' = Count(rpc_mq, "signal") + Unread
        BY <1>4, <2>1, <2>2 DEF Bit
    <2>4. FewSignals'
        BY <1>1, <2>3 DEF WInv, FewSignals
    <2>5. cmd_buf.kind = "exec" => Count(rpc_mq', "exec") > 0
        BY <2>1, Measures DEF Bit
    <2> QED BY <1>1, <2>4, <2>5, OthersWake DEF Coming
<1>7. CASE ~(Len(rpc_mq) < 5)
    <2>1. rpc_mq' = rpc_mq
        BY <1>1, <1>7
    <2>2. Unread' <= Unread /\ Unread' \in Nat
        <3>1. CASE cmd_buf.kind = "signal"
            <4>1. Unread = Len(cmd_q) + Bit(Sending) /\ Unread' = Len(cmd_q') + Bit(Sending)
                BY <1>1, <1>5, <3>1 DEF Unread
            <4> QED BY <1>3, <4>1, SignalMeasures
        <3>2. CASE cmd_buf.kind # "signal"
            BY <1>1, <3>2 DEF Unread
        <3> QED BY <3>1, <3>2
    <2>3. FewSignals'
        BY <1>1, <1>4, <2>1, <2>2, SignalMeasures DEF WInv, FewSignals
    <2>4. Count(rpc_mq, "exec") > 0
        <3>1. Len(rpc_mq) \in Nat
            BY <1>2, CountType
        <3> QED BY <1>4, <1>7, <3>1, CountAll, Measures
    <2> QED BY <1>1, <2>1, <2>3, <2>4, OthersWake DEF Coming
<1> QED BY <1>6, <1>7

LEMMA ExecuteWakes == ASSUME Inv, WInv, Execute PROVE WInv'
<1>1. /\ UNCHANGED <<caller, cmd_buf, cmd_q, notifies, sem_id, rsp_q>>
      /\ rpc_mq' = Tail(rpc_mq) /\ rpc_mq # <<>> /\ local.pc = "get"
    BY DEF Execute, chan, counts
<1>2. rpc_mq \in Seq(Packet)
    BY DEF Inv, Types
<1>3. /\ rpc_mq' \in Seq(Packet) /\ Len(rpc_mq) = Len(rpc_mq') + 1
      /\ Head(rpc_mq) = rpc_mq[1]
      /\ Count(rpc_mq, "signal") = Count(rpc_mq', "signal") + Bit(rpc_mq[1].kind = "signal")
      /\ Count(rpc_mq, "exec") = Count(rpc_mq', "exec") + Bit(rpc_mq[1].kind = "exec")
    BY <1>1, <1>2, CountTail DEF Bit
<1>4. Count(rpc_mq', "signal") \in Nat /\ Count(rpc_mq', "exec") \in Nat /\ Len(rpc_mq') \in Nat
    BY <1>3, CountType
<1>5. Unread' = Unread
    BY <1>1 DEF Unread, Sending
<1>6. Count(rpc_mq', "signal") <= Count(rpc_mq, "signal")
    BY <1>3, <1>4 DEF Bit
<1>7. FewSignals'
    BY <1>1, <1>4, <1>5, <1>6, SignalMeasures DEF WInv, FewSignals
<1>8. rpc_mq[1].kind \in {"exec", "signal"}
    <2>1. 1 \in 1 .. Len(rpc_mq)
        BY <1>3, <1>4
    <2> QED BY <2>1 DEF Inv, ReceivedKinds
<1>9. CASE rpc_mq[1].kind = "exec"
    <2>1. local'.pc = "setup"
        BY <1>3, <1>9 DEF Execute
    <2> QED BY <1>1, <1>7, <2>1, OthersWake DEF Coming
<1>10. CASE rpc_mq[1].kind = "signal"
    <2>1. Count(rpc_mq', "exec") = Count(rpc_mq, "exec")
        BY <1>3, <1>4, <1>10 DEF Bit
    <2>2. local' = local
        BY <1>3, <1>10 DEF Execute
    <2> QED BY <1>1, <1>7, <2>1, <2>2, OthersWake DEF Coming
<1> QED BY <1>8, <1>9, <1>10

LEMMA AnswerWakes == ASSUME Inv, WInv, SetupRsp \/ SendRsp PROVE WInv'
<1>1. UNCHANGED <<caller, cmd_buf, cmd_q, rpc_mq, notifies>>
    BY DEF SetupRsp, SendRsp, chan, counts
<1>2. FewSignals'
    BY <1>1 DEF WInv, FewSignals, Unread, Sending
<1>3. SetupRsp => local'.pc = "send"
    BY DEF SetupRsp, Inv, Types
<1>4. SendRsp => rsp_q' # <<>>
    <2> SUFFICES ASSUME SendRsp PROVE rsp_q' # <<>>
        OBVIOUS
    <2>1. Inv'
        BY SendRspInv
    <2>2. Len(rsp_q') \in Nat /\ (rsp_q' = <<>> <=> Len(rsp_q') = 0)
        BY <2>1, EmptySeq, LenProperties DEF Inv, Types
    <2>3. Len(rsp_q') >= 1
        BY RspChannel DEF SendRsp
    <2> QED BY <2>2, <2>3
<1> QED BY <1>1, <1>2, <1>3, <1>4, OthersWake DEF Coming

LEMMA NextWakes ==
    ASSUME Inv, WInv, OneCaller, MaxNotifies <= 1, [Next]_vars
    PROVE  WInv'
<1>1. ASSUME NEW t \in Callers, Begin(t) PROVE WInv'
    <2>1. PICK kind \in {"exec", "signal"}, cmd \in Cmd : Setup(t, kind, cmd)
        BY <1>1 DEF Begin, Cmd
    <2> QED BY <2>1, SetupWakes
<1>2. ASSUME NEW t \in Callers, Send(t) \/ Woken(t) \/ Timeout(t) \/ Read(t) PROVE WInv'
    BY <1>2, SendWakes, AwakeWakes
<1>3. ASSUME OpenBackend \/ Release \/ UNCHANGED vars PROVE WInv'
    <2>1. UNCHANGED <<caller, cmd_buf, cmd_q, rsp_q, rpc_mq, local, sem_id, notifies>>
        BY <1>3, ReleaseInv DEF OpenBackend, Release, vars, chan, dsp, counts
    <2> QED BY <2>1 DEF WInv, FewSignals, OwnBuffer, Unread, Sending, Coming
<1> QED BY <1>1, <1>2, <1>3, ReceiveRspWakes, ReceiveCmdWakes, ExecuteWakes, AnswerWakes
    DEF Next, Caller, Dsp

(* One calling thread and one notification at most: whatever timed out     *)
(* before, and whichever word was refused, a caller that waits has a       *)
(* wakeup coming.  With a second caller, or a second notification, it may  *)
(* have none.                                                              *)
THEOREM AlwaysWakeupComing ==
    ASSUME OneCaller, MaxNotifies <= 1
    PROVE  Spec => []WakeupComing
<1>1. Init => Inv /\ WInv
    BY InitInv, InitWakes
<1>2. Inv /\ WInv /\ (Inv /\ Accounted)' /\ [Next]_vars => (Inv /\ WInv)'
    BY NextWakes
<1>3. Inv /\ WInv => WakeupComing
    <2> SUFFICES ASSUME Inv, WInv PROVE WakeupComing
        OBVIOUS
    <2>1. Wakeups = sem_id + Len(rsp_q) + Bit(local.pc # "get") + Undelivered
                      + Count(rpc_mq, "exec")
        BY Zenon DEF Wakeups, Count, Indices, Bit
    <2>2. Undelivered \in Nat
        BY Measures DEF Undelivered
    <2>3. Wakeups \in Nat
        BY <2>1, <2>2, Measures
    <2>4. CASE Waiting = {}
        BY <2>3, <2>4, FS_EmptySet DEF WakeupComing
    <2>5. CASE Waiting # {}
        <3>1. PICK t \in Callers : caller[t].pc = "wait"
            BY <2>5 DEF Waiting
        <3>2. Waiting = {t}
            BY <3>1 DEF Waiting, OneCaller
        <3>3. Cardinality(Waiting) = 1
            BY <3>2, FS_Singleton
        <3>4. cmd_buf.kind = "exec" /\ Coming
            BY <3>1 DEF WInv, OwnBuffer
        <3>5. \/ sem_id >= 1 \/ Len(rsp_q) >= 1 \/ Bit(local.pc # "get") = 1
              \/ Count(rpc_mq, "exec") >= 1 \/ Undelivered >= 1
            BY <3>4, Measures, CmdChannel, RspChannel DEF Coming, Undelivered, Bit
        <3>6. Wakeups >= 1
            BY <2>1, <2>2, <3>5, Measures
        <3> QED BY <3>3, <3>6, <2>3 DEF WakeupComing
    <2> QED BY <2>4, <2>5
<1> QED BY <1>1, <1>2, <1>3, AlwaysAccounted, PTL DEF Spec

-----------------------------------------------------------------------------
(***************************************************************************)
(* One calling thread that no timeout and no notification disturbs: what   *)
(* its one wakeup passes through holds its own call                        *)
(***************************************************************************)

Mine(t) == Pkt("exec", caller[t].cmd, FALSE, caller[t].call)
Known(t) == caller[t].cmd \in Registered \cup {HANDSHAKE}
Answer(t) == Pkt("rsp", caller[t].cmd, ~Known(t), caller[t].call)
Executed(t) == executed[caller[t].call] = Bit(Known(t))

Under(t) ==
    /\ caller[t].ret = "none" /\ caller[t].kind = "exec"
    /\ caller[t].call = calls /\ calls \in 1 .. MaxCalls
Waits(t) ==
    /\ Under(t) /\ cmd_buf = Mine(t)
    /\ \A i \in 1 .. Len(rpc_mq) : rpc_mq[i] = Mine(t)
    /\ cmd_q # <<>> \/ rpc_mq # <<>> => executed[calls] = 0
    /\ local.pc # "get" => local.pkt = Answer(t) /\ Executed(t)
    /\ local.pc = "send" \/ rsp_q # <<>> \/ sem_id > 0 => rsp_buf = Answer(t) /\ Executed(t)
Returned(t) ==
    /\ caller[t].ret = "RPC_OK" =>
         /\ caller[t].got = caller[t].call /\ caller[t].call \in 1 .. calls
         /\ executed[caller[t].call] = 1
    /\ caller[t].ret = "RPC_CMD_ERR" => ~Known(t)
OwnCall(t) ==
    /\ caller[t].pc = "send" => Under(t) /\ cmd_buf = Mine(t) /\ executed[calls] = 0
    /\ caller[t].pc = "wait" => Waits(t)
    /\ caller[t].pc = "read" => Under(t) /\ rsp_buf = Answer(t) /\ Executed(t)
    /\ caller[t].pc = "idle" => Returned(t)

OnceEach ==
    /\ ~panic /\ calls <= MaxCalls
    /\ \A n \in 1 .. MaxCalls : executed[n] \in {0, 1} /\ (n > calls => executed[n] = 0)
    /\ \A i \in 1 .. Len(rpc_mq) : rpc_mq[i].kind = "exec"

Undisturbed == timeouts = 0 /\ notifies = 0
AInv == Undisturbed => OnceEach /\ \A t \in Callers : OwnCall(t)

Quiet == sem_id = 0 /\ rsp_q = <<>> /\ local.pc = "get" /\ rpc_mq = <<>> /\ cmd_q = <<>>

(* Everything is quiet unless the caller waits; and when it waits, one of  *)
(* the stages its wakeup passes holds it, and the others are empty.        *)
LEMMA OneStage ==
    ASSUME Inv, Accounted, OneCaller, Undisturbed, OnceEach
    PROVE  /\ ~Quiet => \E t \in Callers : caller[t].pc = "wait" /\ Callers = {t}
           /\ cmd_q # <<>> =>
                Len(cmd_q) = 1 /\ sem_id = 0 /\ rsp_q = <<>> /\ local.pc = "get" /\ rpc_mq = <<>>
           /\ rpc_mq # <<>> =>
                Len(rpc_mq) = 1 /\ sem_id = 0 /\ rsp_q = <<>> /\ local.pc = "get" /\ cmd_q = <<>>
           /\ local.pc # "get" => sem_id = 0 /\ rsp_q = <<>> /\ rpc_mq = <<>> /\ cmd_q = <<>>
           /\ rsp_q # <<>> =>
                Len(rsp_q) = 1 /\ sem_id = 0 /\ local.pc = "get" /\ rpc_mq = <<>> /\ cmd_q = <<>>
           /\ sem_id > 0 =>
                sem_id = 1 /\ rsp_q = <<>> /\ local.pc = "get" /\ rpc_mq = <<>> /\ cmd_q = <<>>
<1> DEFINE a == Len(cmd_q)
           b == Len(rpc_mq)
           c == Bit(local.pc # "get")
           d == Len(rsp_q)
<1>1. Count(rpc_mq, "exec") = b /\ b \in Nat /\ (rpc_mq = <<>> <=> b = 0)
    <2>1. rpc_mq \in Seq(Packet) /\ Len(rpc_mq) \in Nat /\ (rpc_mq = <<>> <=> Len(rpc_mq) = 0)
        BY EmptySeq, LenProperties DEF Inv, Types
    <2>2. Indices(rpc_mq, "exec") = 1 .. Len(rpc_mq)
        BY DEF OnceEach, Indices
    <2> QED BY <2>1, <2>2, FS_Interval DEF Count
<1>2. a \in Nat /\ c \in {0, 1} /\ d \in Nat /\ sem_id \in Nat
    BY Measures DEF Bit
<1>3. /\ cmd_q = <<>> <=> a = 0
      /\ rsp_q = <<>> <=> d = 0
      /\ local.pc = "get" <=> c = 0
    BY CmdChannel, RspChannel DEF Bit
<1>4. Possible = sem_id + d + c + b + a
    BY <1>1 DEF Possible
<1>5. Cardinality(Waiting) <= 1 /\ (Cardinality(Waiting) > 0 =>
        \E t \in Callers : caller[t].pc = "wait" /\ Callers = {t})
    <2>1. CASE Waiting = {}
        BY <2>1, FS_EmptySet
    <2>2. CASE Waiting # {}
        <3>1. PICK t \in Callers : caller[t].pc = "wait"
            BY <2>2 DEF Waiting
        <3>2. Waiting = {t} /\ Callers = {t}
            BY <3>1 DEF Waiting, OneCaller
        <3>3. Cardinality(Waiting) = 1
            BY <3>2, FS_Singleton
        <3> QED BY <3>1, <3>2, <3>3
    <2> QED BY <2>1, <2>2
<1>6. sem_id + d + c + b + a <= Cardinality(Waiting) /\ Cardinality(Waiting) \in Nat
    <2>1. Possible + Cardinality(Notifying) <= Cardinality(Waiting)
        BY Measures DEF Accounted, Undisturbed
    <2> HIDE DEF a, b, c, d
    <2>2. Possible \in Nat
        BY <1>1, <1>2, <1>4
    <2> QED BY <1>1, <1>2, <1>4, <2>1, <2>2, Measures
<1> HIDE DEF a, b, c, d
<1>7. ~Quiet => sem_id > 0 \/ d > 0 \/ c > 0 \/ b > 0 \/ a > 0
    BY <1>1, <1>2, <1>3 DEF Quiet
<1>8. ~Quiet => Cardinality(Waiting) > 0
    BY <1>1, <1>2, <1>6, <1>7
<1>9. sem_id + d + c + b + a <= 1
    BY <1>1, <1>2, <1>5, <1>6
<1>10. /\ a > 0 => a = 1 /\ sem_id = 0 /\ d = 0 /\ c = 0 /\ b = 0
       /\ b > 0 => b = 1 /\ sem_id = 0 /\ d = 0 /\ c = 0 /\ a = 0
       /\ c > 0 => sem_id = 0 /\ d = 0 /\ b = 0 /\ a = 0
       /\ d > 0 => d = 1 /\ sem_id = 0 /\ c = 0 /\ b = 0 /\ a = 0
       /\ sem_id > 0 => sem_id = 1 /\ d = 0 /\ c = 0 /\ b = 0 /\ a = 0
    BY <1>1, <1>2, <1>9
<1> QED BY <1>1, <1>2, <1>3, <1>5, <1>8, <1>10 DEF a, b, c, d

LEMMA InitAnswers == Init => AInv
<1> SUFFICES ASSUME Init PROVE AInv
    OBVIOUS
<1>1. OnceEach
    BY EmptySeq, BoundsAssumption DEF Init, OnceEach
<1> QED BY <1>1 DEF Init, AInv, OwnCall, Returned, NoCall

(* The state before a step, where nothing disturbs the one caller.         *)
Calm == Inv /\ Accounted /\ OneCaller /\ Undisturbed /\ OnceEach /\ \A t \in Callers : OwnCall(t)

LEMMA CallerAnswers ==
    ASSUME OneCaller, NEW t \in Callers, OnceEach', OwnCall(t)'
    PROVE  AInv'
<1>1. \A u \in Callers : u = t
    BY DEF OneCaller
<1>2. \A u \in Callers : OwnCall(u)'
    BY <1>1
<1> QED BY <1>2 DEF AInv

LEMMA SetupAnswers ==
    ASSUME Calm, NEW t \in Callers, NEW kind \in {"exec", "signal"}, NEW cmd \in Cmd,
           Setup(t, kind, cmd), notifies' = 0
    PROVE  AInv'
<1>1. kind = "exec"
    BY DEF Setup, Calm, Undisturbed
<1>2. calls \in Nat /\ calls + 1 \in 1 .. MaxCalls
    BY BoundsAssumption DEF Setup, Allowed, Calm, Inv, Types
<1>3. executed' = executed /\ rpc_mq' = rpc_mq /\ panic' = panic /\ calls' = calls + 1
    BY DEF Setup, dsp
<1>4. OnceEach'
    BY <1>2, <1>3 DEF Calm, OnceEach
<1>5. caller'[t] = [NoCall EXCEPT !.pc = "send", !.kind = kind, !.cmd = cmd, !.call = calls + 1]
    BY DEF Setup, Calm, Inv, Types
<1>6. Under(t)' /\ cmd_buf' = Mine(t)'
    BY <1>1, <1>2, <1>3, <1>5 DEF Under, Mine, Setup, NoCall
<1>7. executed'[calls'] = 0
    BY <1>2, <1>3 DEF Calm, OnceEach
<1>8. OwnCall(t)'
    BY <1>5, <1>6, <1>7 DEF OwnCall, NoCall
<1> QED BY <1>4, <1>8, CallerAnswers DEF Calm

LEMMA SendAnswers == ASSUME Calm, NEW t \in Callers, Send(t) PROVE AInv'
<1>1. /\ caller[t].pc = "send" /\ Under(t) /\ cmd_buf = Mine(t) /\ executed[calls] = 0
      /\ caller' = [caller EXCEPT ![t].pc = "wait"]
    BY DEF Send, Calm, OwnCall, Under
<1>2. /\ sem_id = 0 /\ rsp_q = <<>> /\ local.pc = "get" /\ rpc_mq = <<>>
    BY <1>1, OneStage DEF Calm, Quiet
<1>3. UNCHANGED <<cmd_buf, rsp_buf, rsp_q, sem_id, rpc_mq, local, executed, calls, panic>>
    BY DEF Send, dsp, counts
<1>4. /\ caller'[t].pc = "wait" /\ caller'[t].cmd = caller[t].cmd
      /\ caller'[t].call = caller[t].call /\ caller'[t].ret = caller[t].ret
      /\ caller'[t].kind = caller[t].kind
    BY <1>1 DEF Calm, Inv, Types, Call
<1>5. Waits(t)'
    <2>1. Under(t)' /\ cmd_buf' = Mine(t)'
        BY <1>1, <1>3, <1>4 DEF Under, Mine
    <2>2. Len(rpc_mq') = 0
        BY <1>2, <1>3, EmptySeq
    <2>3. executed'[calls'] = 0 /\ local'.pc = "get" /\ rsp_q' = <<>> /\ ~(sem_id' > 0)
        BY <1>1, <1>2, <1>3
    <2> QED BY <2>1, <2>2, <2>3 DEF Waits
<1>6. OwnCall(t)'
    BY <1>4, <1>5 DEF OwnCall
<1>7. OnceEach'
    BY <1>3 DEF Calm, OnceEach
<1> QED BY <1>6, <1>7, CallerAnswers DEF Calm

LEMMA WokenAnswers == ASSUME Calm, NEW t \in Callers, Woken(t) PROVE AInv'
<1>1. /\ Under(t) /\ rsp_buf = Answer(t) /\ Executed(t)
      /\ caller' = [caller EXCEPT ![t].pc = "read"]
    BY DEF Woken, Calm, OwnCall, Waits
<1>2. UNCHANGED <<rsp_buf, rpc_mq, executed, calls, panic>>
    BY DEF Woken, dsp, counts
<1>3. /\ caller'[t].pc = "read" /\ caller'[t].cmd = caller[t].cmd
      /\ caller'[t].call = caller[t].call /\ caller'[t].ret = caller[t].ret
      /\ caller'[t].kind = caller[t].kind
    BY <1>1 DEF Calm, Inv, Types, Call
<1>4. OwnCall(t)'
    BY <1>1, <1>2, <1>3 DEF OwnCall, Under, Answer, Known, Executed
<1>5. OnceEach'
    BY <1>2 DEF Calm, OnceEach
<1> QED BY <1>4, <1>5, CallerAnswers DEF Calm

LEMMA ReadAnswers == ASSUME Calm, NEW t \in Callers, Read(t) PROVE AInv'
<1>1. Under(t) /\ rsp_buf = Answer(t) /\ Executed(t)
    BY DEF Read, Calm, OwnCall
<1>2. rsp_buf.kind = "rsp" /\ rsp_buf.cmd = caller[t].cmd /\ rsp_buf.call = caller[t].call
    BY <1>1 DEF Answer, Pkt
<1>3. rsp_buf.err = ~Known(t)
    BY <1>1 DEF Answer, Pkt
<1>4. ~panic'
    BY <1>2 DEF Read
<1>5. UNCHANGED <<rpc_mq, executed, calls>>
    BY DEF Read, dsp, counts
<1>6. /\ caller'[t].pc = "idle" /\ caller'[t].cmd = caller[t].cmd
      /\ caller'[t].call = caller[t].call /\ caller'[t].got = caller[t].call
      /\ caller'[t].ret = IF rsp_buf.err THEN "RPC_CMD_ERR" ELSE "RPC_OK"
    <2>1. caller' = [caller EXCEPT ![t].pc = "idle", ![t].got = rsp_buf.call,
                      ![t].ret = IF rsp_buf.err THEN "RPC_CMD_ERR" ELSE "RPC_OK"]
        BY <1>2 DEF Read
    <2> QED BY <1>2, <2>1 DEF Calm, Inv, Types, Call
<1>7. Returned(t)'
    <2>1. Known(t)' <=> Known(t)
        BY <1>6 DEF Known
    <2>2. caller[t].call \in 1 .. calls /\ executed[caller[t].call] = Bit(Known(t))
        BY <1>1 DEF Under, Executed
    <2>3. CASE Known(t)
        <3>1. caller'[t].ret = "RPC_OK" /\ executed[caller[t].call] = 1
            BY <1>3, <1>6, <2>2, <2>3 DEF Bit
        <3> QED BY <1>5, <1>6, <2>2, <3>1 DEF Returned
    <2>4. CASE ~Known(t)
        <3>1. caller'[t].ret = "RPC_CMD_ERR"
            BY <1>3, <1>6, <2>4
        <3> QED BY <2>1, <2>4, <3>1 DEF Returned
    <2> QED BY <2>3, <2>4
<1>8. OwnCall(t)'
    BY <1>6, <1>7 DEF OwnCall
<1>9. OnceEach'
    BY <1>4, <1>5 DEF Calm, OnceEach
<1> QED BY <1>8, <1>9, CallerAnswers DEF Calm

(* The steps that the caller does not take: it waits.                      *)
LEMMA WaiterAnswers ==
    ASSUME Calm, NEW t \in Callers, caller[t].pc = "wait", caller' = caller, OnceEach', Waits(t)'
    PROVE  AInv'
<1>1. OwnCall(t)'
    BY DEF OwnCall
<1> QED BY <1>1, CallerAnswers DEF Calm

LEMMA TheWaiter ==
    ASSUME Calm, ~Quiet
    PROVE  \E t \in Callers : caller[t].pc = "wait" /\ Waits(t)
<1>1. PICK t \in Callers : caller[t].pc = "wait"
    BY OneStage DEF Calm
<1> QED BY <1>1 DEF Calm, OwnCall

LEMMA ReceiveRspAnswers == ASSUME Calm, ReceiveRsp PROVE AInv'
<1>1. rsp_q # <<>>
    BY CmdChannel, RspChannel DEF ReceiveRsp, ToBth!Deliver, Calm, Inv, Types, ChannelOK
<1>2. PICK t \in Callers : caller[t].pc = "wait" /\ Waits(t)
    BY <1>1, TheWaiter DEF Quiet
<1>3. UNCHANGED <<cmd_buf, cmd_q, rsp_buf, rpc_mq, local, executed, caller, calls, panic>>
    BY DEF ReceiveRsp, dsp, counts
<1>4. rsp_buf = Answer(t) /\ Executed(t)
    BY <1>1, <1>2 DEF Waits
<1>5. Waits(t)'
    BY <1>2, <1>3, <1>4 DEF Waits, Under, Mine, Answer, Known, Executed
<1>6. OnceEach'
    BY <1>3 DEF Calm, OnceEach
<1> QED BY <1>2, <1>3, <1>5, <1>6, WaiterAnswers

LEMMA ReceiveCmdAnswers == ASSUME Calm, ReceiveCmd PROVE AInv'
<1>1. cmd_q # <<>>
    BY CmdChannel DEF ReceiveCmd, Calm
<1>2. PICK t \in Callers : caller[t].pc = "wait" /\ Waits(t)
    BY <1>1, TheWaiter DEF Quiet
<1>3. /\ UNCHANGED <<cmd_buf, rsp_q, sem_id, rsp_buf, local, executed, caller, calls, panic>>
      /\ rpc_mq' = IF Len(rpc_mq) < MQ_LEN THEN Append(rpc_mq, cmd_buf) ELSE rpc_mq
    BY DEF ReceiveCmd, counts
<1>4. sem_id = 0 /\ rsp_q = <<>> /\ local.pc = "get" /\ rpc_mq = <<>>
    BY <1>1, OneStage DEF Calm
<1>5. cmd_buf = Mine(t) /\ executed[calls] = 0
    BY <1>1, <1>2 DEF Waits
<1>6. rpc_mq' = Append(rpc_mq, cmd_buf) /\ Len(rpc_mq') = 1 /\ rpc_mq'[1] = cmd_buf
    <2>1. Len(rpc_mq) = 0
        BY <1>4, EmptySeq
    <2>2. rpc_mq' = Append(rpc_mq, cmd_buf)
        BY <1>3, <2>1 DEF MQ_LEN
    <2>3. rpc_mq \in Seq(Packet) /\ cmd_buf \in Packet
        BY DEF Calm, Inv, Types
    <2> QED BY <2>1, <2>2, <2>3, CountAppend
<1>7. Waits(t)'
    <2>1. Under(t)' /\ cmd_buf' = Mine(t)'
        BY <1>2, <1>3 DEF Waits, Under, Mine
    <2>2. \A i \in 1 .. Len(rpc_mq') : rpc_mq'[i] = Mine(t)'
        <3>1. Mine(t)' = Mine(t)
            BY <1>3 DEF Mine
        <3> HIDE DEF Mine
        <3>2. Len(rpc_mq') = 1 /\ rpc_mq'[1] = Mine(t)
            BY <1>5, <1>6
        <3> QED BY <3>1, <3>2
    <2>3. executed'[calls'] = 0 /\ local'.pc = "get" /\ rsp_q' = <<>> /\ ~(sem_id' > 0)
        BY <1>3, <1>4, <1>5
    <2> QED BY <2>1, <2>2, <2>3 DEF Waits
<1>8. OnceEach'
    <2>1. \A i \in 1 .. Len(rpc_mq') : rpc_mq'[i].kind = "exec"
        BY <1>5, <1>6 DEF Mine, Pkt
    <2> QED BY <1>3, <2>1 DEF Calm, OnceEach
<1> QED BY <1>2, <1>3, <1>7, <1>8, WaiterAnswers

LEMMA ExecuteAnswers == ASSUME Calm, Execute PROVE AInv'
<1>1. rpc_mq # <<>> /\ rpc_mq' = Tail(rpc_mq)
    BY DEF Execute
<1>2. PICK t \in Callers : caller[t].pc = "wait" /\ Waits(t)
    BY <1>1, TheWaiter DEF Quiet
<1>3. Len(rpc_mq) = 1 /\ sem_id = 0 /\ rsp_q = <<>> /\ local.pc = "get" /\ cmd_q = <<>>
    BY <1>1, OneStage DEF Calm
<1>4. /\ UNCHANGED <<cmd_buf, cmd_q, rsp_q, sem_id, rsp_buf, caller, calls, panic>>
    BY DEF Execute, chan, counts
<1>5. /\ rpc_mq' \in Seq(Packet) /\ Len(rpc_mq) = Len(rpc_mq') + 1 /\ Head(rpc_mq) = rpc_mq[1]
      /\ Len(rpc_mq') \in Nat
    BY <1>1, CountTail, LenProperties DEF Calm, Inv, Types
<1>6. Len(rpc_mq') = 0 /\ rpc_mq' = <<>>
    <2>1. Len(rpc_mq') = 0
        BY <1>3, <1>5
    <2>2. rpc_mq' # <<>> => Len(rpc_mq') \in Nat \ {0}
        BY <1>5, EmptySeq
    <2> QED BY <2>1, <2>2
<1>7. Head(rpc_mq) = Mine(t) /\ executed[calls] = 0 /\ Under(t)
    BY <1>1, <1>2, <1>3, <1>5 DEF Waits
<1>8. /\ local' = [pc |-> "setup", pkt |-> Answer(t)]
      /\ executed' = IF Known(t) THEN [executed EXCEPT ![caller[t].call] = @ + 1] ELSE executed
    <2>1. /\ Head(rpc_mq).kind = "exec" /\ Head(rpc_mq).cmd = caller[t].cmd
          /\ Head(rpc_mq).call = caller[t].call
        BY <1>7 DEF Mine, Pkt
    <2>2. (Head(rpc_mq).cmd \in Registered \cup {HANDSHAKE}) = Known(t)
        BY <2>1 DEF Known
    <2> QED BY <2>1, <2>2 DEF Execute, Answer, Known
<1>9. /\ calls \in 1 .. MaxCalls /\ caller[t].call = calls
      /\ executed \in [1 .. MaxCalls -> Nat]
    BY <1>7 DEF Under, Calm, Inv, Types
<1>10. /\ executed'[calls] = Bit(Known(t))
       /\ \A n \in 1 .. MaxCalls : n # calls => executed'[n] = executed[n]
    BY <1>7, <1>8, <1>9 DEF Bit
<1>11. Waits(t)'
    <2>1. Under(t)' /\ cmd_buf' = Mine(t)'
        BY <1>2, <1>4 DEF Waits, Under, Mine
    <2>2. local'.pkt = Answer(t)' /\ Executed(t)' /\ local'.pc = "setup"
        BY <1>4, <1>8, <1>9, <1>10 DEF Answer, Known, Executed
    <2>3. rpc_mq' = <<>> /\ cmd_q' = <<>> /\ rsp_q' = <<>> /\ ~(sem_id' > 0)
        BY <1>3, <1>4, <1>6
    <2> QED BY <1>6, <2>1, <2>2, <2>3 DEF Waits
<1>12. OnceEach'
    <2>1. \A n \in 1 .. MaxCalls : executed'[n] \in {0, 1} /\ (n > calls => executed'[n] = 0)
        BY <1>9, <1>10 DEF Calm, OnceEach, Bit
    <2> QED BY <1>4, <1>6, <2>1 DEF Calm, OnceEach
<1> QED BY <1>2, <1>4, <1>11, <1>12, WaiterAnswers

LEMMA SetupRspAnswers == ASSUME Calm, SetupRsp PROVE AInv'
<1>1. local.pc = "setup" /\ rsp_buf' = local.pkt
    BY DEF SetupRsp
<1>2. PICK t \in Callers : caller[t].pc = "wait" /\ Waits(t)
    BY <1>1, TheWaiter DEF Quiet
<1>3. /\ UNCHANGED <<cmd_buf, cmd_q, rsp_q, sem_id, rpc_mq, executed, caller, calls, panic>>
      /\ local'.pkt = local.pkt
    BY DEF SetupRsp, chan, counts, Calm, Inv, Types
<1>4. rsp_buf' = Answer(t) /\ Executed(t) /\ local.pkt = Answer(t)
    BY <1>1, <1>2 DEF Waits
<1>5. Waits(t)'
    BY <1>2, <1>3, <1>4 DEF Waits, Under, Mine, Answer, Known, Executed
<1>6. OnceEach'
    BY <1>3 DEF Calm, OnceEach
<1> QED BY <1>2, <1>3, <1>5, <1>6, WaiterAnswers

LEMMA SendRspAnswers == ASSUME Calm, SendRsp PROVE AInv'
<1>1. local.pc = "send" /\ local'.pc = "get"
    BY DEF SendRsp
<1>2. PICK t \in Callers : caller[t].pc = "wait" /\ Waits(t)
    BY <1>1, TheWaiter DEF Quiet
<1>3. UNCHANGED <<cmd_buf, cmd_q, rsp_buf, sem_id, rpc_mq, executed, caller, calls, panic>>
    BY DEF SendRsp, counts
<1>4. rsp_buf = Answer(t) /\ Executed(t)
    BY <1>1, <1>2 DEF Waits
<1>5. Waits(t)'
    BY <1>1, <1>2, <1>3, <1>4 DEF Waits, Under, Mine, Answer, Known, Executed
<1>6. OnceEach'
    BY <1>3 DEF Calm, OnceEach
<1> QED BY <1>2, <1>3, <1>5, <1>6, WaiterAnswers

LEMMA NextAnswers ==
    ASSUME Inv, Accounted, AInv, OneCaller, [Next]_vars
    PROVE  AInv'
<1> SUFFICES ASSUME Undisturbed' PROVE AInv'
    BY DEF AInv
<1>1. timeouts' = 0 /\ notifies' = 0
    BY DEF Undisturbed
<1>2. timeouts \in Nat /\ notifies \in Nat
    BY DEF Inv, Types
<1>3. ASSUME NEW t \in Callers, Begin(t) PROVE AInv'
    <2>1. PICK kind \in {"exec", "signal"}, cmd \in Cmd : Setup(t, kind, cmd)
        BY <1>3 DEF Begin, Cmd
    <2>2. Undisturbed
        BY <1>1, <1>2, <2>1 DEF Setup, Undisturbed
    <2> QED BY <1>1, <2>1, <2>2, SetupAnswers DEF Calm, AInv
<1>4. ASSUME NEW t \in Callers, Timeout(t) PROVE AInv'
    BY <1>1, <1>2, <1>4 DEF Timeout
<1>5. CASE UNCHANGED <<timeouts, notifies>>
    <2>1. Calm
        BY <1>1, <1>5 DEF Calm, Undisturbed, AInv
    <2>2. ASSUME OpenBackend \/ Release \/ UNCHANGED vars PROVE AInv'
        <3>1. /\ UNCHANGED <<cmd_buf, rsp_buf, cmd_q, rsp_q, sem_id, rpc_mq, local>>
              /\ UNCHANGED <<executed, caller, calls, panic>>
            BY <2>1, <2>2, ReleaseInv DEF OpenBackend, Release, vars, chan, dsp, counts, Calm
        <3>2. OnceEach'
            BY <2>1, <3>1 DEF Calm, OnceEach
        <3>3. ASSUME NEW t \in Callers PROVE OwnCall(t)'
            BY <2>1, <3>1 DEF Calm, OwnCall, Waits, Returned, Under, Mine, Answer, Known, Executed
        <3> QED BY <3>2, <3>3 DEF AInv
    <2> QED BY <1>3, <1>4, <2>1, <2>2, SendAnswers, WokenAnswers, ReadAnswers, ReceiveRspAnswers,
               ReceiveCmdAnswers, ExecuteAnswers, SetupRspAnswers, SendRspAnswers
            DEF Next, Caller, Dsp
<1>6. \/ UNCHANGED <<timeouts, notifies>>
      \/ \E t \in Callers : Begin(t) \/ Timeout(t)
    BY DEF Next, Caller, Dsp, vars, counts, Send, Woken, Read, ReceiveRsp, OpenBackend,
           ReceiveCmd, Execute, SetupRsp, SendRsp, Release
<1> QED BY <1>3, <1>4, <1>5, <1>6

(* One calling thread: until a call times out or a notification is sent,   *)
(* a call returns the response to itself, its command was executed exactly *)
(* once, it fails only where DSP has no such command, and no assertion     *)
(* fails - for any number of calls and commands.                           *)
THEOREM AlwaysAnswerIsMine ==
    ASSUME OneCaller
    PROVE  Spec => []AnswerIsMine
<1>1. Init => Inv /\ AInv
    BY InitInv, InitAnswers
<1>2. Inv /\ Accounted /\ AInv /\ [Next]_vars => AInv'
    BY NextAnswers
<1>3. Inv /\ AInv => AnswerIsMine
    <2> SUFFICES ASSUME Inv, AInv, Undisturbed PROVE AnswerIsMine
        BY DEF AnswerIsMine, Undisturbed
    <2>1. OnceEach /\ \A t \in Callers : OwnCall(t)
        BY DEF AInv
    <2>2. \A n \in 1 .. MaxCalls : executed[n] <= 1
        BY <2>1 DEF OnceEach
    <2>3. ASSUME NEW t \in Callers
          PROVE  /\ caller[t].ret = "RPC_OK" =>
                      caller[t].got = caller[t].call /\ executed[caller[t].call] = 1
                 /\ caller[t].ret = "RPC_CMD_ERR" => caller[t].cmd \notin Registered \cup {HANDSHAKE}
        <3>1. caller[t].pc \in {"idle", "send", "wait", "read"} /\ OwnCall(t)
            BY <2>1 DEF Inv, Types, Call
        <3> QED BY <3>1 DEF OwnCall, Waits, Returned, Under, Known
    <2> QED BY <2>1, <2>2, <2>3 DEF AnswerIsMine, OnceEach
<1> QED BY <1>1, <1>2, <1>3, AlwaysAccounted, PTL DEF Spec
=============================================================================
