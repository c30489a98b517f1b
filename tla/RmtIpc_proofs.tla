---------------------------- MODULE RmtIpc_proofs ---------------------------
(***************************************************************************)
(* Proofs about RmtIpc, for every number of records and every set of       *)
(* messages: no record leaks, no interrupt is lost, the list that the peer *)
(* walks is frozen, and the channel implements IpcChannel.                 *)
(*                                                                         *)
(* The invariants are proved together: the sender may add to a list of its *)
(* own only because AnnouncedOnce says that the peer has one or none.      *)
(***************************************************************************)
EXTENDS RmtIpc, FiniteSetTheorems, SequenceTheorems, TLAPS

IInv == TypeOK /\ RecordsAccounted /\ AnnouncedOnce /\ AwakeWhileSending

-----------------------------------------------------------------------------
(***************************************************************************)
(* The two lists, one behind the other.                                    *)
(***************************************************************************)

LEMMA Concatenated ==
    ASSUME NEW S, NEW s \in Seq(S), NEW t \in Seq(S)
    PROVE  /\ s \o t \in Seq(S) /\ Len(s \o t) = Len(s) + Len(t)
           /\ Len(s) \in Nat /\ Len(t) \in Nat
           /\ \A i \in 1 .. Len(s) : (s \o t)[i] = s[i] /\ s[i] \in S
           /\ \A i \in 1 .. Len(t) : (s \o t)[Len(s) + i] = t[i] /\ t[i] \in S
<1>1. Len(s) \in Nat /\ Len(t) \in Nat
    BY LenProperties
<1>2. /\ s \o t \in Seq(S) /\ Len(s \o t) = Len(s) + Len(t)
      /\ \A i \in 1 .. Len(s) + Len(t) :
            (s \o t)[i] = IF i <= Len(s) THEN s[i] ELSE t[i - Len(s)]
    BY ConcatProperties
<1>3. (\A i \in 1 .. Len(s) : s[i] \in S) /\ \A i \in 1 .. Len(t) : t[i] \in S
    BY ElementOfSeq
<1>4. \A i \in 1 .. Len(s) : (s \o t)[i] = s[i]
    BY <1>1, <1>2
<1>5. ASSUME NEW i \in 1 .. Len(t) PROVE (s \o t)[Len(s) + i] = t[i]
    <2>1. Len(s) + i \in 1 .. Len(s) + Len(t) /\ ~(Len(s) + i <= Len(s))
        BY <1>1
    <2>2. (Len(s) + i) - Len(s) = i
        BY <1>1
    <2> QED BY <1>2, <2>1, <2>2
<1> QED BY <1>1, <1>2, <1>3, <1>4, <1>5

LEMMA AppendedBehind ==
    ASSUME NEW S, NEW s \in Seq(S), NEW t \in Seq(S), NEW e \in S
    PROVE  s \o Append(t, e) = Append(s \o t, e)
<1> DEFINE l == s \o Append(t, e)
           r == Append(s \o t, e)
<1>1. Append(t, e) \in Seq(S) /\ Len(Append(t, e)) = Len(t) + 1
      /\ \A i \in 1 .. Len(t) + 1 : Append(t, e)[i] = IF i <= Len(t) THEN t[i] ELSE e
    BY AppendProperties, LenProperties
<1>2. l \in Seq(S) /\ Len(l) = Len(s) + (Len(t) + 1)
      /\ \A i \in 1 .. Len(s) + (Len(t) + 1) :
            l[i] = IF i <= Len(s) THEN s[i] ELSE Append(t, e)[i - Len(s)]
    BY <1>1, ConcatProperties
<1>3. s \o t \in Seq(S) /\ Len(s \o t) = Len(s) + Len(t)
      /\ \A i \in 1 .. Len(s) + Len(t) :
            (s \o t)[i] = IF i <= Len(s) THEN s[i] ELSE t[i - Len(s)]
    BY ConcatProperties
<1>4. r \in Seq(S) /\ Len(r) = (Len(s) + Len(t)) + 1
      /\ \A i \in 1 .. (Len(s) + Len(t)) + 1 :
            r[i] = IF i <= Len(s) + Len(t) THEN (s \o t)[i] ELSE e
    <2> DEFINE u == s \o t
    <2>1. u \in Seq(S) /\ Len(u) = Len(s) + Len(t)
        BY <1>3
    <2> HIDE DEF u
    <2>2. /\ Append(u, e) \in Seq(S) /\ Len(Append(u, e)) = Len(u) + 1
          /\ \A i \in 1 .. Len(u) + 1 :
                Append(u, e)[i] = IF i <= Len(u) THEN u[i] ELSE e
        BY <2>1, AppendProperties, LenProperties
    <2> QED BY <2>1, <2>2 DEF u
<1>5. Len(s) \in Nat /\ Len(t) \in Nat
    BY LenProperties
<1> HIDE DEF l, r
<1>6. ASSUME NEW i \in 1 .. Len(s) + Len(t) + 1 PROVE l[i] = r[i]
    <2>1. CASE i <= Len(s)
        BY <2>1, <1>2, <1>3, <1>4, <1>5
    <2>2. CASE i > Len(s) /\ i <= Len(s) + Len(t)
        <3>1. l[i] = t[i - Len(s)]
            BY <2>2, <1>1, <1>2, <1>5
        <3>2. r[i] = t[i - Len(s)]
            BY <2>2, <1>3, <1>4, <1>5
        <3> QED BY <3>1, <3>2
    <2>3. CASE i = Len(s) + Len(t) + 1
        BY <2>3, <1>1, <1>2, <1>4, <1>5
    <2> QED BY <2>1, <2>2, <2>3, <1>5
<1>7. Len(l) = Len(r) /\ \A i \in 1 .. Len(l) : l[i] = r[i]
    BY <1>2, <1>4, <1>5, <1>6
<1>8. l = r
    BY <1>2, <1>4, <1>7, SeqEqual
<1> QED BY <1>8 DEF l, r

\* Linked, by the two lists.
LEMMA LinkedShape ==
    ASSUME TypeOK
    PROVE  /\ Linked \in Seq(Record) /\ Len(Linked) \in Nat
           /\ Len(send_msg_list_p) \in Nat /\ Len(send_pending_list_p) \in Nat
           /\ Len(Linked) = Len(send_msg_list_p) + Len(send_pending_list_p)
           /\ \A i \in 1 .. Len(send_msg_list_p) : Linked[i] = send_msg_list_p[i]
           /\ \A i \in 1 .. Len(send_pending_list_p) :
                Linked[Len(send_msg_list_p) + i] = send_pending_list_p[i]
           /\ \A i \in 1 .. Len(Linked) : Linked[i] \in Record
<1>1. send_msg_list_p \in Seq(Record) /\ send_pending_list_p \in Seq(Record)
    BY DEF TypeOK
<1>2. /\ Linked \in Seq(Record)
      /\ Len(send_msg_list_p) \in Nat /\ Len(send_pending_list_p) \in Nat
      /\ Len(Linked) = Len(send_msg_list_p) + Len(send_pending_list_p)
      /\ \A i \in 1 .. Len(send_msg_list_p) : Linked[i] = send_msg_list_p[i]
      /\ \A i \in 1 .. Len(send_pending_list_p) :
            Linked[Len(send_msg_list_p) + i] = send_pending_list_p[i]
    BY <1>1, Concatenated DEF Linked
<1>3. \A i \in 1 .. Len(Linked) : Linked[i] \in Record
    BY <1>2, ElementOfSeq
<1> QED BY <1>2, <1>3

LEMMA SendAppends ==
    ASSUME TypeOK, AnnouncedOnce, NEW r \in Record, NEW d, Send(r, d)
    PROVE  /\ Linked' = Append(Linked, r)
           /\ send_msg_list_p' \in Seq(Record) /\ send_pending_list_p' \in Seq(Record)
           /\ Len(Linked') = Len(Linked) + 1
           /\ \A i \in 1 .. Len(Linked) : Linked'[i] = Linked[i]
           /\ Linked'[Len(Linked) + 1] = r
           /\ send_msg_list_p' # <<>>
<1>1. send_msg_list_p \in Seq(Record) /\ send_pending_list_p \in Seq(Record)
    BY DEF TypeOK
<1>2. CASE send_msg_list_p = <<>>
    <2>1. send_pending_list_p = <<>> /\ send_msg_list_p' = <<r>>
          /\ send_pending_list_p' = <<>>
        BY <1>2 DEF AnnouncedOnce, Send
    <2>2. Linked = <<>> /\ Linked' = <<r>>
        BY <1>2, <2>1 DEF Linked
    <2>3. /\ Append(<<>>, r) = <<r>> /\ Len(<<>>) = 0 /\ Len(<<r>>) = 1 /\ <<r>>[1] = r
          /\ <<r>> \in Seq(Record) /\ <<r>> # <<>>
        OBVIOUS
    <2> QED BY <1>1, <2>1, <2>2, <2>3
<1>3. CASE send_msg_list_p # <<>>
    <2>1. /\ send_pending_list_p' = Append(send_pending_list_p, r)
          /\ send_msg_list_p' = send_msg_list_p
        BY <1>3 DEF Send
    <2>2. Linked' = Append(Linked, r)
        BY <1>1, <2>1, AppendedBehind DEF Linked
    <2>3. Linked \in Seq(Record)
        BY LinkedShape
    <2>4. /\ Len(Append(Linked, r)) = Len(Linked) + 1
          /\ \A i \in 1 .. Len(Linked) : Append(Linked, r)[i] = Linked[i]
          /\ Append(Linked, r)[Len(Linked) + 1] = r
        BY <2>3, AppendProperties, LenProperties
    <2>5. send_pending_list_p' \in Seq(Record)
        BY <1>1, <2>1, AppendProperties
    <2> QED BY <1>1, <1>3, <2>1, <2>2, <2>4, <2>5
<1> QED BY <1>2, <1>3

LEMMA TxIrqDrops ==
    ASSUME TypeOK, TxIrq
    PROVE  /\ Linked' = send_pending_list_p
           /\ send_msg_list_p' = send_pending_list_p /\ send_pending_list_p' = <<>>
<1>1. send_pending_list_p \in Seq(Record)
    BY DEF TypeOK
<1>2. send_msg_list_p' = send_pending_list_p /\ send_pending_list_p' = <<>>
    BY DEF TxIrq
<1>3. send_pending_list_p \o <<>> = send_pending_list_p
    BY <1>1, ConcatEmptySeq
<1> QED BY <1>2, <1>3 DEF Linked

-----------------------------------------------------------------------------
(***************************************************************************)
(* The invariants.                                                         *)
(***************************************************************************)

LEMMA InitInv == Init => IInv
<1> SUFFICES ASSUME Init PROVE IInv
    OBVIOUS
<1>1. Linked = <<>> /\ Len(Linked) = 0
    BY DEF Init, Linked
<1>2. TypeOK
    <2>1. in_use \in [Record -> BOOLEAN] /\ data \in [Record -> Data \cup {NULL}]
        BY DEF Init
    <2>2. send_msg_list_p \in Seq(Record) /\ send_pending_list_p \in Seq(Record)
        BY EmptySeq DEF Init
    <2>3. \A i \in 1 .. Len(Linked) : data[Linked[i]] \in Data
        BY <1>1
    <2>4. walked \in 0 .. Len(send_msg_list_p)
        BY DEF Init
    <2>5. {chan_busy, send_ind, recv_done, chan_opened, walking} \subseteq BOOLEAN
        BY DEF Init
    <2> QED BY <2>1, <2>2, <2>3, <2>4, <2>5 DEF TypeOK
<1>3. RecordsAccounted
    BY <1>1 DEF Init, RecordsAccounted
<1>4. AnnouncedOnce
    BY DEF Init, AnnouncedOnce
<1>5. AwakeWhileSending
    BY DEF Init, AwakeWhileSending
<1> QED BY <1>2, <1>3, <1>4, <1>5 DEF IInv

LEMMA SendInv == ASSUME IInv, NEW r \in Record, NEW d \in Data, Send(r, d) PROVE IInv'
<1> USE DEF IInv
<1>1. /\ send_msg_list_p' \in Seq(Record) /\ send_pending_list_p' \in Seq(Record)
      /\ Len(Linked') = Len(Linked) + 1
      /\ \A i \in 1 .. Len(Linked) : Linked'[i] = Linked[i]
      /\ Linked'[Len(Linked) + 1] = r
      /\ send_msg_list_p' # <<>>
    BY SendAppends
<1>2. /\ Len(Linked) \in Nat /\ Len(send_msg_list_p) \in Nat
      /\ \A i \in 1 .. Len(Linked) : Linked[i] \in Record
    BY LinkedShape
<1>3. ~in_use[r] /\ in_use' = [in_use EXCEPT ![r] = TRUE] /\ in_use \in [Record -> BOOLEAN]
    BY DEF Send, Free, TypeOK
<1>4. \A i \in 1 .. Len(Linked) : Linked[i] # r
    BY <1>2, <1>3 DEF RecordsAccounted
<1>5. TypeOK'
    <2>1. in_use' \in [Record -> BOOLEAN]
        BY <1>3
    <2>2. data' = [data EXCEPT ![r] = d] /\ data \in [Record -> Data \cup {NULL}]
        BY DEF Send, TypeOK
    <2>3. data' \in [Record -> Data \cup {NULL}]
        BY <2>2
    <2>4. \A i \in 1 .. Len(Linked) : data[Linked[i]] \in Data
        BY DEF TypeOK
    <2>5. \A i \in 1 .. Len(Linked') : data'[Linked'[i]] \in Data
        BY <1>1, <1>2, <1>4, <2>2, <2>4
    <2>6. walked' \in 0 .. Len(send_msg_list_p')
        <3>1. walked' = walked /\ walked \in 0 .. Len(send_msg_list_p)
            BY DEF Send, TypeOK
        <3>2. CASE send_msg_list_p = <<>>
            <4>1. walked = 0 /\ Len(send_msg_list_p') \in Nat
                BY <1>1, <3>1, <3>2, LenProperties
            <4> QED BY <3>1, <4>1
        <3>3. CASE send_msg_list_p # <<>>
            BY <3>1, <3>3 DEF Send
        <3> QED BY <3>2, <3>3
    <2>7. {chan_busy', send_ind', recv_done', chan_opened', walking'} \subseteq BOOLEAN
        <3>1. {chan_busy, send_ind, recv_done, chan_opened, walking} \subseteq BOOLEAN
            BY DEF TypeOK
        <3>2. send_ind' = TRUE \/ send_ind' = send_ind
            BY DEF Send
        <3>3. /\ chan_busy' = TRUE /\ recv_done' = recv_done /\ chan_opened' = chan_opened
              /\ walking' = walking
            BY DEF Send
        <3> QED BY <3>1, <3>2, <3>3
    <2> QED BY <1>1, <2>1, <2>3, <2>5, <2>6, <2>7 DEF TypeOK
<1>6. RecordsAccounted'
    <2>1. ASSUME NEW s \in Record
          PROVE  in_use'[s] <=> \E i \in 1 .. Len(Linked') : Linked'[i] = s
        <3>1. CASE s = r
            <4>1. Len(Linked) + 1 \in 1 .. Len(Linked')
                BY <1>1, <1>2
            <4>2. in_use'[s]
                BY <3>1, <1>3
            <4> QED BY <3>1, <1>1, <4>1, <4>2
        <3>2. CASE s # r
            <4>1. in_use'[s] <=> in_use[s]
                BY <3>2, <1>3
            <4>2. in_use[s] <=> \E i \in 1 .. Len(Linked) : Linked[i] = s
                BY DEF RecordsAccounted
            <4>3. (\E i \in 1 .. Len(Linked) : Linked[i] = s)
                    <=> \E i \in 1 .. Len(Linked') : Linked'[i] = s
                BY <3>2, <1>1, <1>2
            <4> QED BY <4>1, <4>2, <4>3
        <3> QED BY <3>1, <3>2
    <2>2. ASSUME NEW i \in 1 .. Len(Linked'), NEW j \in 1 .. Len(Linked'),
                 Linked'[i] = Linked'[j]
          PROVE  i = j
        <3>1. \A k, l \in 1 .. Len(Linked) : Linked[k] = Linked[l] => k = l
            BY DEF RecordsAccounted
        <3> QED BY <1>1, <1>2, <1>4, <2>2, <3>1
    <2> QED BY <2>1, <2>2 DEF RecordsAccounted
<1>7. AnnouncedOnce'
    <2>1. CASE send_msg_list_p = <<>>
        <3>1. ~send_ind /\ ~recv_done /\ ~walking /\ walked = 0
            BY <2>1 DEF AnnouncedOnce
        <3>2. send_ind' /\ recv_done' = recv_done /\ walking' = walking /\ walked' = walked
            BY <2>1 DEF Send
        <3> QED BY <1>1, <3>1, <3>2 DEF AnnouncedOnce
    <2>2. CASE send_msg_list_p # <<>>
        <3>1. /\ send_ind' = send_ind /\ recv_done' = recv_done
              /\ walking' = walking /\ walked' = walked
            BY <2>2 DEF Send
        <3> QED BY <1>1, <2>2, <3>1 DEF AnnouncedOnce
    <2> QED BY <2>1, <2>2
<1>8. AwakeWhileSending'
    <2>1. chan_busy'
        BY DEF Send
    <2>2. in_use'[r]
        BY <1>3
    <2> QED BY <2>1, <2>2 DEF AwakeWhileSending
<1> QED BY <1>5, <1>6, <1>7, <1>8

LEMMA TxIrqInv == ASSUME IInv, TxIrq PROVE IInv'
<1> USE DEF IInv
<1> DEFINE a == Len(send_msg_list_p)
           b == Len(send_pending_list_p)
<1>1. /\ Linked' = send_pending_list_p
      /\ send_msg_list_p' = send_pending_list_p /\ send_pending_list_p' = <<>>
    BY TxIrqDrops
<1>2. /\ a \in Nat /\ b \in Nat /\ Len(Linked) = a + b
      /\ \A i \in 1 .. a : Linked[i] = send_msg_list_p[i]
      /\ \A i \in 1 .. b : Linked[a + i] = send_pending_list_p[i]
      /\ \A i \in 1 .. Len(Linked) : Linked[i] \in Record
    BY LinkedShape
<1>3. /\ recv_done /\ ~recv_done' /\ ~send_ind /\ ~walking /\ ~walking'
      /\ walked = 0 /\ walked' = 0 /\ send_msg_list_p # <<>>
    BY DEF TxIrq, AnnouncedOnce
<1>4. /\ \A r \in Record : in_use[r] <=> \E i \in 1 .. Len(Linked) : Linked[i] = r
      /\ \A i, j \in 1 .. Len(Linked) : Linked[i] = Linked[j] => i = j
    BY DEF RecordsAccounted
<1>5. /\ in_use' = [r \in Record |-> in_use[r] /\ ~Contains(send_msg_list_p, r)]
      /\ in_use' \in [Record -> BOOLEAN]
    BY DEF TxIrq, TypeOK
<1>6. \A r \in Record : Contains(send_msg_list_p, r) <=> \E i \in 1 .. a : Linked[i] = r
    <2>1. \A r : Contains(send_msg_list_p, r) <=> \E i \in 1 .. a : send_msg_list_p[i] = r
        BY DEF Contains
    <2> QED BY <1>2, <2>1
<1> HIDE DEF a, b
<1>7. ASSUME NEW r \in Record
      PROVE  in_use'[r] <=> \E i \in 1 .. b : Linked[a + i] = r
    <2>1. in_use'[r] <=> in_use[r] /\ ~Contains(send_msg_list_p, r)
        BY <1>5
    <2>2. in_use[r] <=> \E i \in 1 .. a + b : Linked[i] = r
        BY <1>2, <1>4
    <2>3. Contains(send_msg_list_p, r) <=> \E i \in 1 .. a : Linked[i] = r
        BY <1>6
    <2>4. ASSUME NEW i \in 1 .. b, Linked[a + i] = r
          PROVE  /\ \E j \in 1 .. a + b : Linked[j] = r
                 /\ \A j \in 1 .. a : Linked[j] # r
        <3>1. a + i \in 1 .. a + b /\ \A j \in 1 .. a : j \in 1 .. a + b /\ j # a + i
            BY <1>2
        <3> QED BY <1>2, <1>4, <2>4, <3>1
    <2>5. ASSUME NEW j \in 1 .. a + b, Linked[j] = r, \A k \in 1 .. a : Linked[k] # r
          PROVE  \E i \in 1 .. b : Linked[a + i] = r
        <3>1. j - a \in 1 .. b /\ a + (j - a) = j
            BY <1>2, <2>5
        <3> QED BY <2>5, <3>1
    <2> QED BY <2>1, <2>2, <2>3, <2>4, <2>5
<1>8. TypeOK'
    <2>1. data' = data /\ data \in [Record -> Data \cup {NULL}]
        BY DEF TxIrq, TypeOK
    <2>2. ASSUME NEW i \in 1 .. Len(Linked') PROVE data'[Linked'[i]] \in Data
        <3>1. i \in 1 .. b /\ a + i \in 1 .. Len(Linked)
            BY <1>1, <1>2, <2>2 DEF b
        <3>2. Linked'[i] = Linked[a + i]
            BY <1>1, <1>2, <3>1
        <3> QED BY <2>1, <3>1, <3>2 DEF TypeOK
    <2>3. send_msg_list_p' \in Seq(Record) /\ send_pending_list_p' \in Seq(Record)
        BY <1>1, EmptySeq DEF TypeOK
    <2>4. walked' \in 0 .. Len(send_msg_list_p')
        BY <1>1, <1>2, <1>3 DEF b
    <2>5. {chan_busy', send_ind', recv_done', chan_opened', walking'} \subseteq BOOLEAN
        <3>1. {chan_busy, send_ind, recv_done, chan_opened, walking} \subseteq BOOLEAN
            BY DEF TypeOK
        <3>2. /\ chan_busy' \in {FALSE, chan_busy} /\ send_ind' \in {TRUE, send_ind}
              /\ recv_done' = FALSE /\ chan_opened' = chan_opened /\ walking' = walking
            BY DEF TxIrq
        <3> QED BY <3>1, <3>2
    <2> QED BY <1>5, <2>1, <2>2, <2>3, <2>4, <2>5 DEF TypeOK
<1>9. RecordsAccounted'
    <2>1. ASSUME NEW r \in Record
          PROVE  in_use'[r] <=> \E i \in 1 .. Len(Linked') : Linked'[i] = r
        BY <1>1, <1>2, <1>7 DEF b
    <2>2. ASSUME NEW i \in 1 .. Len(Linked'), NEW j \in 1 .. Len(Linked'),
                 Linked'[i] = Linked'[j]
          PROVE  i = j
        <3>1. i \in 1 .. b /\ j \in 1 .. b
            BY <1>1, <2>2 DEF b
        <3>2. /\ Linked[a + i] = Linked[a + j]
              /\ a + i \in 1 .. Len(Linked) /\ a + j \in 1 .. Len(Linked)
            BY <1>1, <1>2, <2>2, <3>1
        <3>3. a + i = a + j
            BY <1>4, <3>2
        <3> QED BY <1>2, <3>1, <3>3
    <2> QED BY <2>1, <2>2 DEF RecordsAccounted
<1>10. AnnouncedOnce'
    <2>1. send_ind' <=> send_pending_list_p # <<>>
        BY <1>3 DEF TxIrq
    <2> QED BY <1>1, <1>3, <2>1 DEF AnnouncedOnce
<1>11. AwakeWhileSending'
    <2>1. CASE send_pending_list_p = <<>>
        <3>1. ~chan_busy' /\ b = 0
            BY <2>1 DEF TxIrq, b
        <3>2. \A r \in Record : ~in_use'[r]
            BY <1>7, <3>1
        <3> QED BY <3>1, <3>2 DEF AwakeWhileSending
    <2>2. CASE send_pending_list_p # <<>>
        <3>1. b >= 1 /\ a + 1 \in 1 .. Len(Linked)
            <4>1. b # 0
                BY <2>2, EmptySeq DEF b, TypeOK
            <4> QED BY <1>2, <4>1
        <3>2. Linked[a + 1] \in Record
            BY <1>2, <3>1
        <3>3. in_use'[Linked[a + 1]]
            BY <1>7, <3>1, <3>2, <1>2
        <3>4. in_use[Linked[a + 1]]
            BY <1>5, <3>2, <3>3
        <3>5. chan_busy' = chan_busy
            BY <2>2 DEF TxIrq
        <3> QED BY <3>2, <3>3, <3>4, <3>5 DEF AwakeWhileSending
    <2> QED BY <2>1, <2>2
<1> QED BY <1>8, <1>9, <1>10, <1>11

\* The steps of the peer leave the sender alone.
PeerStep == StartRecv \/ StopRecv \/ RxIrq \/ RxMsg \/ RxDone

LEMMA PeerInv == ASSUME IInv, PeerStep PROVE IInv'
<1> USE DEF IInv
<1>1. UNCHANGED sender /\ Linked' = Linked
    BY DEF PeerStep, StartRecv, StopRecv, RxIrq, RxMsg, RxDone, Linked, sender
<1>2. RecordsAccounted' /\ AwakeWhileSending'
    BY <1>1 DEF RecordsAccounted, AwakeWhileSending, sender
<1>3. Len(send_msg_list_p) \in Nat
    BY LinkedShape
<1>4. AnnouncedOnce'
    <2>1. CASE StartRecv \/ StopRecv \/ RxIrq
        BY <1>1, <2>1 DEF AnnouncedOnce, StartRecv, StopRecv, RxIrq, sender
    <2>2. CASE RxMsg
        BY <1>1, <2>2 DEF AnnouncedOnce, RxMsg, sender
    <2>3. CASE RxDone
        BY <1>1, <2>3 DEF AnnouncedOnce, RxDone, sender
    <2> QED BY <2>1, <2>2, <2>3 DEF PeerStep
<1>5. TypeOK'
    <2>1. walked' \in 0 .. Len(send_msg_list_p')
        <3>1. walked \in 0 .. Len(send_msg_list_p) /\ send_msg_list_p' = send_msg_list_p
            BY <1>1 DEF TypeOK, sender
        <3>2. walked' = walked \/ walked' = 0 \/ (walked < Len(send_msg_list_p) /\ walked' = walked + 1)
            BY DEF PeerStep, StartRecv, StopRecv, RxIrq, RxMsg, RxDone
        <3> QED BY <1>3, <3>1, <3>2
    <2>2. {chan_busy', send_ind', recv_done', chan_opened', walking'} \subseteq BOOLEAN
        <3>1. {chan_busy, send_ind, recv_done, chan_opened, walking} \subseteq BOOLEAN
            BY DEF TypeOK
        <3>2. /\ chan_busy' = chan_busy /\ send_ind' \in {FALSE, send_ind}
              /\ recv_done' \in {TRUE, recv_done} /\ chan_opened' \in {TRUE, FALSE, chan_opened}
              /\ walking' \in {TRUE, FALSE, walking}
            BY <1>1 DEF PeerStep, StartRecv, StopRecv, RxIrq, RxMsg, RxDone, sender
        <3> QED BY <3>1, <3>2
    <2> QED BY <1>1, <2>1, <2>2 DEF TypeOK, sender
<1> QED BY <1>2, <1>4, <1>5

LEMMA StutterInv == ASSUME IInv, UNCHANGED vars PROVE IInv'
BY DEF IInv, TypeOK, RecordsAccounted, AnnouncedOnce, AwakeWhileSending, Linked, vars

LEMMA NextInv == IInv /\ [Next]_vars => IInv'
<1> SUFFICES ASSUME IInv, [Next]_vars PROVE IInv'
    OBVIOUS
<1>1. CASE \E r \in Record, d \in Data : Send(r, d)
    BY <1>1, SendInv
<1>2. CASE TxIrq
    BY <1>2, TxIrqInv
<1>3. CASE PeerStep
    BY <1>3, PeerInv
<1>4. CASE UNCHANGED vars
    BY <1>4, StutterInv
<1> QED BY <1>1, <1>2, <1>3, <1>4 DEF Next, PeerStep

\* The inductive invariant, always.
THEOREM Invariance == Spec => []IInv
<1> QED BY InitInv, NextInv, PTL DEF Spec

\* The records, the lists and the walk keep their shape.
THEOREM AlwaysTypeOK == Spec => []TypeOK
<1>1. IInv => TypeOK
    BY DEF IInv
<1> QED BY <1>1, Invariance, PTL

\* hal_rmt_ipc_send_seq and the done interrupt account for every record: none
\* leaks and none is linked twice.
THEOREM RecordsAlwaysAccounted == Spec => []RecordsAccounted
<1>1. IInv => RecordsAccounted
    BY DEF IInv
<1> QED BY <1>1, Invariance, PTL

\* Whatever the order of the two interrupts, a list that is not yet released
\* is announced by one of them.
THEOREM AlwaysAnnouncedOnce == Spec => []AnnouncedOnce
<1>1. IInv => AnnouncedOnce
    BY DEF IInv
<1> QED BY <1>1, Invariance, PTL

\* The sender holds its wake lock exactly while it has a record in use.
THEOREM AlwaysAwakeWhileSending == Spec => []AwakeWhileSending
<1>1. IInv => AwakeWhileSending
    BY DEF IInv
<1> QED BY <1>1, Invariance, PTL

-----------------------------------------------------------------------------
(***************************************************************************)
(* The list that the peer walks does not change.                           *)
(***************************************************************************)

LEMMA FrozenStep ==
    ASSUME IInv, [Next]_vars, walking
    PROVE  /\ UNCHANGED send_msg_list_p
           /\ \A i \in 1 .. Len(send_msg_list_p) :
                data'[send_msg_list_p[i]] = data[send_msg_list_p[i]]
<1>1. send_ind /\ ~recv_done /\ send_msg_list_p # <<>>
    BY DEF IInv, AnnouncedOnce
<1>2. ASSUME NEW r \in Record, NEW d \in Data, Send(r, d)
      PROVE  /\ UNCHANGED send_msg_list_p
             /\ \A i \in 1 .. Len(send_msg_list_p) :
                    data'[send_msg_list_p[i]] = data[send_msg_list_p[i]]
    <2>1. /\ Len(Linked) = Len(send_msg_list_p) + Len(send_pending_list_p)
          /\ Len(send_msg_list_p) \in Nat /\ Len(send_pending_list_p) \in Nat
          /\ \A i \in 1 .. Len(send_msg_list_p) : Linked[i] = send_msg_list_p[i]
          /\ \A i \in 1 .. Len(Linked) : Linked[i] \in Record
        BY LinkedShape DEF IInv
    <2>2. ~in_use[r] /\ data' = [data EXCEPT ![r] = d] /\ send_msg_list_p' = send_msg_list_p
        BY <1>1, <1>2 DEF Send, Free
    <2>3. data \in [Record -> Data \cup {NULL}]
        BY DEF IInv, TypeOK
    <2>4. ASSUME NEW i \in 1 .. Len(send_msg_list_p)
          PROVE  send_msg_list_p[i] \in Record /\ send_msg_list_p[i] # r
        <3>1. i \in 1 .. Len(Linked) /\ Linked[i] = send_msg_list_p[i]
            BY <2>1
        <3>2. in_use[Linked[i]]
            BY <2>1, <3>1 DEF IInv, RecordsAccounted
        <3> QED BY <2>1, <2>2, <3>1, <3>2
    <2> QED BY <2>2, <2>3, <2>4
<1>3. CASE PeerStep
    BY <1>3 DEF PeerStep, StartRecv, StopRecv, RxIrq, RxMsg, RxDone, sender
<1>4. CASE UNCHANGED vars
    BY <1>4 DEF vars
<1>5. ~TxIrq
    BY <1>1 DEF TxIrq
<1> QED BY <1>2, <1>3, <1>4, <1>5 DEF Next, PeerStep

\* What the peer reads without a lock, the list and the messages of its
\* records, stays as it is while it is walking.
THEOREM AlwaysListFrozen == Spec => ListFrozen
<1>1. IInv /\ [Next]_vars =>
        [walking => /\ UNCHANGED send_msg_list_p
                    /\ \A i \in 1 .. Len(send_msg_list_p) :
                         data'[send_msg_list_p[i]] = data[send_msg_list_p[i]]]_vars
    BY FrozenStep
<1> QED BY <1>1, Invariance, PTL DEF Spec, ListFrozen

-----------------------------------------------------------------------------
(***************************************************************************)
(* The channel implements IpcChannel.                                      *)
(***************************************************************************)

\* The number of linked records, by the pigeonhole principle.
LEMMA LinkedFits ==
    ASSUME TypeOK, RecordsAccounted
    PROVE  /\ Len(Linked) <= HAL_RMT_IPC_MAX_SEND_REC_CNT
           /\ (\E r \in Record : ~in_use[r]) => Len(Linked) # HAL_RMT_IPC_MAX_SEND_REC_CNT
<1> DEFINE n == Len(Linked)
           max == HAL_RMT_IPC_MAX_SEND_REC_CNT
           f == [i \in 1 .. n |-> Linked[i]]
<1>1. n \in Nat /\ max \in Nat /\ \A i \in 1 .. n : Linked[i] \in Record
    BY LinkedShape, RecordsAssumption
<1> HIDE DEF n
<1>2. f \in Injection(1 .. n, Record)
    <2>1. f \in [1 .. n -> Record]
        BY <1>1
    <2>2. \A i, j \in 1 .. n : f[i] = f[j] => i = j
        BY DEF RecordsAccounted, n
    <2>3. IsInjective(f)
        BY <2>1, <2>2 DEF IsInjective
    <2> QED BY <2>1, <2>3 DEF Injection
<1>3. IsFiniteSet(Record) /\ Cardinality(Record) = max /\ Cardinality(1 .. n) = n
    <2>1. /\ IsFiniteSet(1 .. max)
          /\ Cardinality(1 .. max) = IF 1 > max THEN 0 ELSE max - 1 + 1
        BY <1>1, FS_Interval
    <2>2. Cardinality(1 .. n) = IF 1 > n THEN 0 ELSE n - 1 + 1
        BY <1>1, FS_Interval
    <2> QED BY <1>1, <2>1, <2>2 DEF Record
<1> HIDE DEF f
<1>4. /\ Cardinality(1 .. n) <= Cardinality(Record)
      /\ Cardinality(1 .. n) = Cardinality(Record) <=> f \in Surjection(1 .. n, Record)
    BY <1>2, <1>3, FS_Injection
<1>5. ASSUME NEW r \in Record, ~in_use[r], f \in Surjection(1 .. n, Record) PROVE FALSE
    <2>1. PICK i \in 1 .. n : f[i] = r
        BY <1>5 DEF Surjection
    <2>2. f[i] = Linked[i]
        BY DEF f
    <2> QED BY <1>5, <2>1, <2>2 DEF RecordsAccounted, n
<1> QED BY <1>3, <1>4, <1>5 DEF n

LEMMA WaitingShape ==
    ASSUME IInv
    PROVE  /\ Handled \in 0 .. Len(send_msg_list_p)
           /\ Len(Linked) - Handled \in Nat
           /\ Waiting \in Seq(Data) /\ Len(Waiting) = Len(Linked) - Handled
           /\ \A i \in 1 .. Len(Linked) - Handled : Waiting[i] = data[Linked[Handled + i]]
<1>1. /\ Len(Linked) = Len(send_msg_list_p) + Len(send_pending_list_p)
      /\ Len(send_msg_list_p) \in Nat /\ Len(send_pending_list_p) \in Nat
    BY LinkedShape DEF IInv
<1>2. Handled \in 0 .. Len(send_msg_list_p)
    BY <1>1 DEF IInv, TypeOK, Handled
<1> DEFINE h == Handled
           n == Len(Linked) - h
<1>3. h \in Nat /\ n \in Nat
    BY <1>1, <1>2
<1>4. \A i \in 1 .. n : h + i \in 1 .. Len(Linked)
    BY <1>1, <1>2
<1>5. \A i \in 1 .. n : data[Linked[h + i]] \in Data
    BY <1>4 DEF IInv, TypeOK
<1>6. Waiting = [i \in 1 .. n |-> data[Linked[h + i]]]
    BY DEF Waiting
<1> HIDE DEF h, n
<1>7. Waiting \in Seq(Data) /\ Len(Waiting) = n
    BY <1>3, <1>5, <1>6
<1>8. \A i \in 1 .. n : Waiting[i] = data[Linked[h + i]]
    BY <1>6
<1> QED BY <1>2, <1>3, <1>7, <1>8 DEF h, n

LEMMA InitRefines == Init => Channel!Init
<1> SUFFICES ASSUME Init PROVE Channel!Init
    OBVIOUS
<1>1. Handled = 0 /\ Len(send_msg_list_p) = 0 /\ Linked = <<>>
    BY DEF Init, Handled, Linked
<1>2. Len(Waiting) = 0 /\ Waiting \in Seq(Data)
    BY <1>1, InitInv, WaitingShape
<1>3. Waiting = <<>>
    BY <1>2, EmptySeq
<1> QED BY <1>1, <1>3 DEF Channel!Init

\* A message goes to the end of the queue; alone, it is a batch of its own.
LEMMA SendRefines ==
    ASSUME IInv, NEW r \in Record, NEW d \in Data, Send(r, d) PROVE Channel!Accept(d)
<1>1. IInv'
    BY SendInv
<1>2. /\ Len(Linked') = Len(Linked) + 1
      /\ \A i \in 1 .. Len(Linked) : Linked'[i] = Linked[i]
      /\ Linked'[Len(Linked) + 1] = r
    BY SendAppends DEF IInv
<1>3. /\ Len(Linked) \in Nat /\ Len(send_msg_list_p) \in Nat
      /\ \A i \in 1 .. Len(Linked) : Linked[i] \in Record
    BY LinkedShape DEF IInv
<1>4. Handled' = Handled
    <2>1. recv_done' = recv_done /\ walked' = walked
        BY DEF Send
    <2>2. recv_done => send_msg_list_p' = send_msg_list_p
        BY DEF Send, IInv, AnnouncedOnce
    <2> QED BY <2>1, <2>2 DEF Handled
<1> DEFINE h == Handled
           n == Len(Linked) - h
<1>5. /\ h \in 0 .. Len(send_msg_list_p) /\ n \in Nat
      /\ Waiting \in Seq(Data) /\ Len(Waiting) = n
      /\ \A i \in 1 .. n : Waiting[i] = data[Linked[h + i]]
    BY WaitingShape
<1>6. /\ Waiting' \in Seq(Data) /\ Len(Waiting') = Len(Linked') - Handled'
      /\ \A i \in 1 .. Len(Linked') - Handled' : Waiting'[i] = data'[Linked'[Handled' + i]]
    <2>1. (/\ Waiting \in Seq(Data) /\ Len(Waiting) = Len(Linked) - Handled
           /\ \A i \in 1 .. Len(Linked) - Handled : Waiting[i] = data[Linked[Handled + i]])'
        BY <1>1, WaitingShape, PTL
    <2> QED BY <2>1
<1> HIDE DEF h, n
<1>7. /\ Len(Waiting') = n + 1
      /\ \A i \in 1 .. n + 1 : Waiting'[i] = data'[Linked'[h + i]]
    <2>1. Len(Linked') - Handled' = n + 1 /\ Handled' = h
        BY <1>2, <1>3, <1>4, <1>5 DEF h, n
    <2> QED BY <1>6, <2>1
<1>8. Waiting' = Append(Waiting, d)
    <2>1. /\ Append(Waiting, d) \in Seq(Data) /\ Len(Append(Waiting, d)) = n + 1
          /\ \A i \in 1 .. n + 1 : Append(Waiting, d)[i] = IF i <= n THEN Waiting[i] ELSE d
        <3> DEFINE w == Waiting
        <3>1. w \in Seq(Data) /\ Len(w) = n
            BY <1>5
        <3> HIDE DEF w
        <3>2. /\ Append(w, d) \in Seq(Data) /\ Len(Append(w, d)) = Len(w) + 1
              /\ \A i \in 1 .. Len(w) + 1 : Append(w, d)[i] = IF i <= Len(w) THEN w[i] ELSE d
            BY <3>1, AppendProperties, LenProperties
        <3> QED BY <3>1, <3>2 DEF w
    <2>2. data' = [data EXCEPT ![r] = d] /\ data \in [Record -> Data \cup {NULL}] /\ ~in_use[r]
        BY DEF Send, Free, IInv, TypeOK
    <2>3. ASSUME NEW i \in 1 .. n PROVE Waiting'[i] = Waiting[i]
        <3>1. h + i \in 1 .. Len(Linked)
            BY <1>3, <1>5 DEF n
        <3>2. Linked[h + i] \in Record /\ Linked[h + i] # r
            BY <1>3, <2>2, <3>1 DEF IInv, RecordsAccounted
        <3>3. Waiting'[i] = data'[Linked[h + i]]
            BY <1>2, <1>5, <1>7, <3>1
        <3> QED BY <1>5, <2>2, <3>2, <3>3
    <2>4. Waiting'[n + 1] = d
        <3>1. h + (n + 1) = Len(Linked) + 1
            BY <1>3, <1>5 DEF n
        <3> QED BY <1>2, <1>5, <1>7, <2>2, <3>1
    <2>5. \A i \in 1 .. n + 1 : Waiting'[i] = Append(Waiting, d)[i]
        BY <1>5, <2>1, <2>3, <2>4
    <2> DEFINE x == Waiting'
               y == Append(Waiting, d)
    <2>6. x \in Seq(Data) /\ y \in Seq(Data) /\ Len(x) = Len(y) /\ \A i \in 1 .. Len(x) : x[i] = y[i]
        BY <1>6, <1>7, <2>1, <2>5
    <2> HIDE DEF x, y
    <2>7. x = y
        BY <2>6, SeqEqual
    <2> QED BY <2>7 DEF x, y
<1>9. Len(Waiting) + Handled # HAL_RMT_IPC_MAX_SEND_REC_CNT
    <2>1. ~in_use[r]
        BY DEF Send, Free
    <2>2. Len(Linked) # HAL_RMT_IPC_MAX_SEND_REC_CNT
        BY <2>1, LinkedFits DEF IInv
    <2> QED BY <1>3, <1>5, <2>2 DEF h, n
<1>10. Len(send_msg_list_p') - Handled'
         = IF (Len(send_msg_list_p) - Handled) + Handled = 0 THEN 1
           ELSE Len(send_msg_list_p) - Handled
    <2>1. CASE send_msg_list_p = <<>>
        <3>1. Len(send_msg_list_p) = 0 /\ Len(send_msg_list_p') = 1
            BY <2>1 DEF Send
        <3> QED BY <1>4, <1>5, <3>1 DEF h
    <2>2. CASE send_msg_list_p # <<>>
        <3>1. send_msg_list_p' = send_msg_list_p
            BY <2>2 DEF Send
        <3>2. Len(send_msg_list_p) # 0
            BY <2>2, EmptySeq DEF IInv, TypeOK
        <3> QED BY <1>3, <1>4, <1>5, <3>1, <3>2 DEF h
    <2> QED BY <2>1, <2>2
<1> QED BY <1>4, <1>8, <1>9, <1>10 DEF Channel!Accept, Channel!Full

\* A step of the walk delivers the head of the queue.
LEMMA RxMsgRefines == ASSUME IInv, RxMsg PROVE Channel!Deliver
<1>1. IInv'
    BY PeerInv DEF PeerStep
<1>2. /\ UNCHANGED <<send_msg_list_p, data>> /\ Linked' = Linked
      /\ walked' = walked + 1 /\ walking /\ walked < Len(send_msg_list_p)
      /\ recv_done' = recv_done
    BY DEF RxMsg, sender, Linked
<1>3. ~recv_done /\ Handled = walked /\ Handled' = walked + 1
    BY <1>2 DEF IInv, AnnouncedOnce, Handled
<1> DEFINE h == Handled
           n == Len(Linked) - h
<1>4. /\ h \in 0 .. Len(send_msg_list_p) /\ n \in Nat
      /\ Waiting \in Seq(Data) /\ Len(Waiting) = n
      /\ \A i \in 1 .. n : Waiting[i] = data[Linked[h + i]]
    BY WaitingShape
<1>5. Len(Linked) = Len(send_msg_list_p) + Len(send_pending_list_p)
      /\ Len(send_msg_list_p) \in Nat /\ Len(send_pending_list_p) \in Nat
    BY LinkedShape DEF IInv
<1>6. /\ Waiting' \in Seq(Data) /\ Len(Waiting') = Len(Linked') - Handled'
      /\ \A i \in 1 .. Len(Linked') - Handled' : Waiting'[i] = data'[Linked'[Handled' + i]]
    <2>1. (/\ Waiting \in Seq(Data) /\ Len(Waiting) = Len(Linked) - Handled
           /\ \A i \in 1 .. Len(Linked) - Handled : Waiting[i] = data[Linked[Handled + i]])'
        BY <1>1, WaitingShape, PTL
    <2> QED BY <2>1
<1> HIDE DEF h, n
<1>7. n > 0 /\ Len(send_msg_list_p) - h > 0
    BY <1>2, <1>3, <1>4, <1>5 DEF h, n
<1>8. /\ Len(Waiting') = n - 1
      /\ \A i \in 1 .. n - 1 : Waiting'[i] = data[Linked[(h + 1) + i]]
    <2>1. Len(Linked') - Handled' = n - 1 /\ Handled' = h + 1
        BY <1>2, <1>3, <1>4, <1>5 DEF h, n
    <2> QED BY <1>2, <1>6, <2>1
<1>9. Waiting' = Tail(Waiting)
    <2> DEFINE w == Waiting
               x == Waiting'
    <2>1. w \in Seq(Data) /\ Len(w) = n /\ w # <<>>
        BY <1>4, <1>7
    <2>2. x \in Seq(Data) /\ Len(x) = n - 1 /\ \A i \in 1 .. n - 1 : x[i] = w[i + 1]
        <3>1. ASSUME NEW i \in 1 .. n - 1 PROVE Waiting'[i] = Waiting[i + 1]
            <4>1. i + 1 \in 1 .. n /\ (h + 1) + i = h + (i + 1)
                BY <1>4
            <4> QED BY <1>4, <1>8, <4>1
        <3> QED BY <1>6, <1>8, <3>1
    <2> HIDE DEF w, x
    <2>3. Tail(w) \in Seq(Data) /\ Len(Tail(w)) = Len(w) - 1
          /\ \A i \in 1 .. Len(Tail(w)) : Tail(w)[i] = w[i + 1]
        BY <2>1, HeadTailProperties
    <2>4. x = Tail(w)
        BY <2>1, <2>2, <2>3, SeqEqual
    <2> QED BY <2>4 DEF w, x
<1>10. /\ Len(send_msg_list_p') - Handled' = (Len(send_msg_list_p) - Handled) - 1
       /\ Handled' = Handled + 1
    BY <1>2, <1>3, <1>4, <1>5 DEF h
<1> QED BY <1>7, <1>9, <1>10 DEF Channel!Deliver, h

\* The done interrupt gives a batch back and makes the queue the next one.
LEMMA TxIrqRefines == ASSUME IInv, TxIrq PROVE Channel!GiveBack
<1>1. IInv'
    BY TxIrqInv
<1>2. /\ Linked' = send_pending_list_p /\ send_msg_list_p' = send_pending_list_p
      /\ data' = data /\ recv_done /\ ~recv_done' /\ walked' = walked
    BY TxIrqDrops DEF IInv, TxIrq
<1>3. ~walking /\ walked = 0 /\ send_msg_list_p # <<>>
    BY <1>2 DEF IInv, AnnouncedOnce
<1> DEFINE a == Len(send_msg_list_p)
           b == Len(send_pending_list_p)
<1>4. /\ a \in Nat /\ b \in Nat /\ Len(Linked) = a + b
      /\ \A i \in 1 .. b : Linked[a + i] = send_pending_list_p[i]
    BY LinkedShape DEF IInv
<1>5. Handled = a /\ Handled' = 0 /\ a # 0
    <2>1. a # 0
        BY <1>3, EmptySeq DEF IInv, TypeOK
    <2> QED BY <1>2, <1>3, <2>1 DEF Handled
<1>6. /\ Waiting \in Seq(Data) /\ Len(Waiting) = b
      /\ \A i \in 1 .. b : Waiting[i] = data[send_pending_list_p[i]]
    <2>1. /\ Waiting \in Seq(Data) /\ Len(Waiting) = Len(Linked) - Handled
          /\ \A i \in 1 .. Len(Linked) - Handled : Waiting[i] = data[Linked[Handled + i]]
        BY WaitingShape
    <2>2. Len(Linked) - Handled = b
        BY <1>4, <1>5
    <2> QED BY <1>4, <1>5, <2>1, <2>2
<1>7. /\ Waiting' \in Seq(Data) /\ Len(Waiting') = b
      /\ \A i \in 1 .. b : Waiting'[i] = data[send_pending_list_p[i]]
    <2>1. (/\ Waiting \in Seq(Data) /\ Len(Waiting) = Len(Linked) - Handled
           /\ \A i \in 1 .. Len(Linked) - Handled : Waiting[i] = data[Linked[Handled + i]])'
        BY <1>1, WaitingShape, PTL
    <2>2. Len(Linked') - Handled' = b /\ \A i \in 1 .. b : Handled' + i = i
        BY <1>2, <1>4, <1>5
    <2> QED BY <1>2, <2>1, <2>2
<1>8. Waiting' = Waiting
    <2> DEFINE w == Waiting
               x == Waiting'
    <2>1. w \in Seq(Data) /\ x \in Seq(Data) /\ Len(x) = Len(w) /\ \A i \in 1 .. Len(x) : x[i] = w[i]
        BY <1>6, <1>7
    <2> HIDE DEF w, x
    <2>2. x = w
        BY <2>1, SeqEqual
    <2> QED BY <2>2 DEF w, x
<1>9. /\ Len(send_msg_list_p) - Handled = 0 /\ Handled > 0 /\ Handled' = 0
      /\ Len(send_msg_list_p') - Handled' = Len(Waiting)
    BY <1>2, <1>4, <1>5, <1>6
<1> QED BY <1>8, <1>9 DEF Channel!GiveBack

\* The other steps of the peer are stutters.
LEMMA RestRefines ==
    ASSUME IInv, StartRecv \/ StopRecv \/ RxIrq \/ RxDone \/ UNCHANGED vars
    PROVE  UNCHANGED <<Waiting, Len(send_msg_list_p) - Handled, Handled>>
<1>1. UNCHANGED <<send_msg_list_p, send_pending_list_p, data>> /\ Linked' = Linked
    BY DEF StartRecv, StopRecv, RxIrq, RxDone, vars, sender, Linked
<1>2. Handled' = Handled
    <2>1. CASE RxDone
        <3>1. ~recv_done
            BY <2>1 DEF RxDone, IInv, AnnouncedOnce
        <3> QED BY <1>1, <2>1, <3>1 DEF RxDone, Handled
    <2>2. CASE StartRecv \/ StopRecv \/ RxIrq \/ UNCHANGED vars
        BY <1>1, <2>2 DEF StartRecv, StopRecv, RxIrq, vars, Handled
    <2> QED BY <2>1, <2>2
<1> QED BY <1>1, <1>2 DEF Waiting

LEMMA NextRefines ==
    IInv /\ [Next]_vars
        => [Channel!Next]_<<Waiting, Len(send_msg_list_p) - Handled, Handled>>
<1> SUFFICES ASSUME IInv, [Next]_vars
             PROVE  Channel!Next
                      \/ UNCHANGED <<Waiting, Len(send_msg_list_p) - Handled, Handled>>
    OBVIOUS
<1>1. ASSUME NEW r \in Record, NEW d \in Data, Send(r, d) PROVE Channel!Next
    BY <1>1, SendRefines DEF Channel!Next
<1>2. CASE TxIrq
    BY <1>2, TxIrqRefines DEF Channel!Next
<1>3. CASE RxMsg
    BY <1>3, RxMsgRefines DEF Channel!Next
<1>4. CASE StartRecv \/ StopRecv \/ RxIrq \/ RxDone \/ UNCHANGED vars
    BY <1>4, RestRefines
<1> QED BY <1>1, <1>2, <1>3, <1>4 DEF Next

\* hal_rmt_ipc is the queue that rpc.c takes it for: in order, nothing lost and
\* nothing twice, batch by batch.
THEOREM AlwaysImplementsChannel == Spec => ImplementsChannel
<1>1. Spec => Channel!Init /\ [][Channel!Next]_<<Waiting, Len(send_msg_list_p) - Handled, Handled>>
    BY InitRefines, NextRefines, Invariance, PTL DEF Spec
<1> QED BY <1>1 DEF ImplementsChannel, Channel!Spec
=============================================================================
